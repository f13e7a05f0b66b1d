----------------------------- MODULE ClockDomain -----------------------------
(***************************************************************************)
(* ClockDomainCrosser: update() is called in the clock of the client,      *)
(* clock2, and calls back in the clock of the memory, clock1.  The clocks  *)
(* start equal; setCPUClockSpeed may set them before the first update.     *)
(***************************************************************************)
EXTENDS Integers

CONSTANTS
  DramClkFreqHz,  \* what setCPUClockSpeed works out from tCK
  CpuClkFreqHz    \* the frequencies it is called with, 0 for 1:1

ASSUME ClockAssumption ==
  /\ DramClkFreqHz \in Nat \ {0}
  /\ CpuClkFreqHz \subseteq Nat

VARIABLES
  clock1, clock2,
  counter1, counter2,
  updating, \* update() is between its addition and its return
  lead      \* history: clock2 for every callback less clock1 for every update

clockVars == << clock1, clock2, counter1, counter2, updating, lead >>

ClockInit ==
  /\ clock1 = 1 /\ clock2 = 1
  /\ counter1 = 0 /\ counter2 = 0
  /\ updating = FALSE
  /\ lead = 0

SetCPUClockSpeed(cpuClkFreqHz) ==
  /\ updating = FALSE /\ lead = 0
  /\ clock1' = DramClkFreqHz
  /\ clock2' = IF cpuClkFreqHz = 0 THEN DramClkFreqHz ELSE cpuClkFreqHz
  /\ UNCHANGED << counter1, counter2, updating, lead >>

(* Equal clocks.                                                           *)
ShortCircuit ==
  /\ updating = FALSE /\ clock1 = clock2
  /\ lead' = lead - clock1 + clock2
  /\ UNCHANGED << clock1, clock2, counter1, counter2, updating >>

BeginUpdate ==
  /\ updating = FALSE /\ clock1 # clock2
  /\ counter1' = counter1 + clock1
  /\ lead' = lead - clock1
  /\ updating' = TRUE
  /\ UNCHANGED << clock1, clock2, counter2 >>

Callback ==
  /\ updating = TRUE /\ counter2 < counter1
  /\ counter2' = counter2 + clock2
  /\ lead' = lead + clock2
  /\ UNCHANGED << clock1, clock2, counter1, updating >>

ResetCounter1 == counter1' = 0 /\ UNCHANGED counter2  \* mutant

ResetCounters == counter1' = 0 /\ counter2' = 0

EndUpdate ==
  /\ updating = TRUE /\ counter2 >= counter1
  /\ IF counter1 = counter2 THEN ResetCounters ELSE UNCHANGED << counter1, counter2 >>
  /\ updating' = FALSE
  /\ UNCHANGED << clock1, clock2, lead >>

ClockNext ==
  \/ \E cpuClkFreqHz \in CpuClkFreqHz : SetCPUClockSpeed(cpuClkFreqHz)
  \/ ShortCircuit \/ BeginUpdate \/ Callback \/ EndUpdate

ClockSpec == ClockInit /\ [][ClockNext]_clockVars

(* After any number of updates there have been as many callbacks as the    *)
(* ratio of the clocks says, rounded up: the memory neither falls behind   *)
(* the client nor gets a whole cycle ahead, however long they run.         *)
NoDrift == updating = FALSE => lead \in 0 .. clock2 - 1

(* What makes it inductive: the lead is the distance of the counters,      *)
(* which the reset preserves, and stays short of one callback.             *)
ClockInv ==
  /\ clock1 \in Nat \ {0} /\ clock2 \in Nat \ {0}
  /\ counter1 \in Nat /\ counter2 \in Nat /\ lead \in Int
  /\ lead = counter2 - counter1
  /\ lead < clock2
  /\ updating = FALSE => lead >= 0

=============================================================================

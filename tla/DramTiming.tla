------------------------------ MODULE DramTiming ------------------------------
(***************************************************************************)
(* The geometry and the timing of the memory: the parameters of the ini    *)
(* file, the delays Configuration derives from them, and the two           *)
(* operations the simulator performs on points in time.                    *)
(*                                                                         *)
(* The code keeps absolute cycle numbers (nextRead, nextActivate, ...) and *)
(* compares them with currentClockCycle.  Only the distance to now is ever *)
(* used, so a time is kept here as the number of cycles until it is due,   *)
(* 0 once it has passed; it shrinks by one at the end of every cycle.      *)
(***************************************************************************)
EXTENDS Integers

CONSTANTS
  NUM_RANKS, NUM_BANKS, NUM_BANK_GROUPS,
  AL, BL, RL, WL,                 \* latencies and burst length
  tCCDS, tCCDL,                   \* column to column, other / same bank group
  tRCDRD, tRCDWR, tRAS, tRC, tRP, \* activate and precharge
  tRRDS, tRRDL,                   \* activate to activate
  tRTPL, tWR, tWTRS, tWTRL,       \* column to precharge, write to read
  tRTRS,                          \* rank to rank switch
  tREFI, tRFC,                    \* refresh interval and duration
  tCMD                            \* cycles on the command bus

ASSUME GeometryAssumption ==
  /\ NUM_RANKS \in Nat \ {0}
  /\ NUM_BANK_GROUPS \in Nat \ {0}
  /\ NUM_BANKS \in Nat /\ NUM_BANKS >= NUM_BANK_GROUPS

ASSUME TimingAssumption ==
  /\ \A t \in { AL, tCCDS, tCCDL, tRCDRD, tRCDWR, tRAS, tRC, tRRDS, tRRDL,
                tRTPL, tWR, tWTRS, tWTRL, tRTRS } : t \in Nat
  /\ \A t \in { RL, WL, tRP, tREFI, tRFC, tCMD } : t \in Nat \ {0}
  /\ BL \in Nat /\ BL >= 2
  /\ RL + BL \div 2 + tRTRS >= WL /\ tRCDRD >= AL /\ tRCDWR >= AL
  /\ NUM_RANKS <= tREFI

Ranks == 0 .. NUM_RANKS - 1
Banks == 0 .. NUM_BANKS - 1

BurstCycles == BL \div 2

Larger(a, b) == IF a < b THEN b ELSE a

SameBankgroup(b, c) ==
  LET perGroup == NUM_BANKS \div NUM_BANK_GROUPS
  IN  b \div perGroup = c \div perGroup

READ_TO_PRE_DELAY           == AL + BurstCycles + Larger(tRTPL, tCCDL) - tCCDL
WRITE_TO_PRE_DELAY          == WL + BurstCycles + tWR
NoBurstGap == RL + tRTRS - WL  \* mutant of the next definition
READ_TO_WRITE_DELAY         == RL + BurstCycles + tRTRS - WL
WRITE_TO_READ_DELAY_B_LONG  == WL + BurstCycles + tWTRL
WRITE_TO_READ_DELAY_B_SHORT == WL + BurstCycles + tWTRS
WRITE_TO_READ_DELAY_R       == Larger(WL + BurstCycles + tRTRS - RL, 0)

(* Between two column commands of one type, in the same bank group or not. *)
ColumnDelay(sameGroup) == Larger(IF sameGroup THEN tCCDL ELSE tCCDS, BurstCycles)

ActivateDelay(sameGroup) == IF sameGroup THEN tRRDL ELSE tRRDS

(* max(next, currentClockCycle + delay).                                   *)
Postpone(next, delay) == Larger(next, delay)

(* One cycle passes.                                                       *)
Tick(next) == Larger(next - 1, 0)

TickBank(b) ==
  [b EXCEPT !.nextRead = Tick(@), !.nextWrite = Tick(@),
            !.nextPrecharge = Tick(@), !.nextActivate = Tick(@)]

(* A decoded address; two addresses are one burst iff they are equal.      *)
Address == [rank : Ranks, bank : Banks, row : Nat, col : Nat]

=============================================================================

------------------------------- MODULE PIMSystem -------------------------------
(***************************************************************************)
(* A kernel on a channel: the client makes the calls of a kernel one after *)
(* the other and then runs the channel until nothing is on the fly.  It    *)
(* may have run idle before for any number of cycles, so that refreshes    *)
(* fall anywhere.  The id of a transaction is its place among the calls    *)
(* of addTransaction.                                                      *)
(***************************************************************************)
EXTENDS MemorySystem, PIMKernel

CONSTANTS
  Job,     \* the kernel
  PRELOAD, \* bound on the data written before it: bursts, or PIM blocks
  RESULTS  \* bound on the results read after it, in the same unit

ASSUME KernelSystemAssumption ==
  /\ Job.kernel \in {"ADD", "MUL", "RELU", "GEMV"}
  /\ PRELOAD \in Nat /\ RESULTS \in Nat
  /\ Job.kernel = "GEMV" => 2 * PRELOAD <= NUM_BANKS /\ 2 * RESULTS <= NUM_BANKS

VARIABLE called  \* calls made so far

systemVars == << vars, called >>

(* preloadNoReplacement and readData go through the burst addresses one by *)
(* one, which is bank by bank and then column by column.                   *)
Bursts(type, row, n) ==
  [x \in 1 .. n |-> Call(type, 0, (x - 1) % NUM_BANKS, row, (x - 1) \div NUM_BANKS,
                         In({"SB"}))]

(* preloadGemv puts a tile of weights into the even or the odd banks, one  *)
(* PIM block after the other, and readResult takes the results from the    *)
(* odd banks; the first burst stands for those of a block.                 *)
BlockBursts(type, odd, col, n) ==
  [p \in 1 .. n |-> Call(type, 0, 2 * (p - 1) + odd, 0, col, In({"SB"}))]

Preload ==
  IF Job.kernel = "GEMV"
    THEN ForEach(Job.tiles, LAMBDA i :
           BlockBursts("DATA_WRITE", i % 2, NUM_GRF * NUM_GRF * (i \div 2), PRELOAD))
    ELSE Bursts("DATA_WRITE", INPUT0_ROW, PRELOAD)

ReadResult ==
  IF Job.kernel = "GEMV"
    THEN BlockBursts("DATA_READ", 1, ResultColGemv(Job), RESULTS)
    ELSE Bursts("DATA_READ", RESULT_ROW, RESULTS)

Script == Preload \o Kernel(Job) \o ReadResult

(* Addresses are to include those of the kernel.                           *)
ASSUME ScriptAssumption ==
  /\ Script \in Seq(ToSet(Script))
  /\ \A e \in ToSet(Script) :
       e # Barrier => e.type \in {"DATA_READ", "DATA_WRITE"} /\ e.addr \in Addresses

Added == SelectSeq(Script, LAMBDA e : e # Barrier)

JobBuffers == BuffersAfter(FreshBuffers, Job)

Carried(id) == Contents(JobBuffers, Added[id].data)  \* the WriteData of this composition

SystemInit == Init /\ called = 0

(* addBarrier reports that it found nothing to tag, and nobody looks.      *)
MakeCall ==
  /\ phase = "client"
  /\ called < Len(Script)
  /\ LET e == Script[called + 1] IN
     \/ e # Barrier /\ AddTransaction(e.type, e.addr)
     \/ e = Barrier /\ AddBarrier
     \/ e = Barrier /\ NothingToTag /\ UNCHANGED vars
  /\ called' = called + 1

(* runPIM.                                                                 *)
Finished ==
  /\ phase = "client" /\ called = Len(Script)
  /\ numOnTheFlyTransactions = 0

Run ==
  /\ called \in {0, Len(Script)} /\ ~Finished
  /\ UpdateStep
  /\ UNCHANGED called

SystemNext == fault = "none" /\ (MakeCall \/ Run)

(* One thread: once the kernel has started it goes on to the end.          *)
SystemSpec ==
  /\ SystemInit /\ [][SystemNext]_systemVars
  /\ WF_systemVars(called > 0 /\ SystemNext)

-----------------------------------------------------------------------------

(* Types, for the channel and for the place in the script.                 *)
SystemTypeOK == TypeOK /\ called \in 0 .. Len(Script)

(* Nothing a kernel does makes the simulator exit or abort.                *)
NoFault == fault = "none"

(* Every access of the kernel reaches its rank when the steps before it    *)
(* have been done: mode switched, program loaded and started, and the      *)
(* right instruction next.                                                 *)
AccessAsIntended ==
  phase = "bus" /\ CommandArrives =>
    LET c == Head(outgoingCmd).cmd IN
    c.type \in {"READ", "WRITE"} => AsIntended(c, Added[c.trans.id])

(* A kernel leaves the ranks as it found them: in single-bank mode, and no *)
(* mode register half done.                                                *)
ModeRestored ==
  Finished => \A r \in Ranks : mode[r] = "SB" /\ abmr[r] = {} /\ sbmr[r] = {}

(* A kernel that has been started ends.                                    *)
KernelTerminates == called > 0 ~> Finished

=============================================================================

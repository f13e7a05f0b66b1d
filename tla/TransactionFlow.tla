--------------------------- MODULE TransactionFlow ---------------------------
(***************************************************************************)
(* The path of a transaction through one channel of the simulator, with    *)
(* the DRAM timing abstracted away.                                        *)
(*                                                                         *)
(*   client --> pendingTransactions --> transactionQueue --> queues[rank]  *)
(*          \______________________________^                    |          *)
(*                                                          inFlight       *)
(*                                                              |          *)
(*                                                  callback, counted off  *)
(*                                                                         *)
(* MemorySystem::update() runs its steps in a fixed order, so a cycle is a *)
(* walk through the phases below.  WHICH column command the scheduler      *)
(* picks, and WHEN a burst completes, is left open here; module            *)
(* MemorySystem decides both and is checked to implement this one.         *)
(***************************************************************************)
EXTENDS Integers, SequencesExt

CONSTANTS
  NUM_RANKS,           \* ranks of the channel, each with a command queue
  TRANS_QUEUE_DEPTH,   \* capacity of MemoryController::transactionQueue
  CMD_QUEUE_DEPTH,     \* capacity of each queue of CommandQueue
  Addresses,           \* decoded addresses the client uses: records with a rank
  MaxTransactions,     \* bound on the transactions the client adds
  CLIENT               \* how the driver calls the channel, see MayAdd

Ranks == 0 .. NUM_RANKS - 1

ASSUME QueueAssumption ==
  /\ NUM_RANKS \in Nat \ {0}
  /\ TRANS_QUEUE_DEPTH \in Nat \ {0}
  /\ CMD_QUEUE_DEPTH \in Nat \ {0}

ASSUME ClientAssumption ==
  /\ \A a \in Addresses : a.rank \in Ranks
  /\ MaxTransactions \in Nat
  /\ CLIENT \in {"batch", "polite", "eager"}

VARIABLES
  pendingTransactions,      \* MemorySystem: overflow in front of the controller
  transactionQueue,         \* MemoryController
  queues,                   \* CommandQueue: column commands per rank
  inFlight,                 \* issued, burst not finished
  numOnTheFlyTransactions,  \* MemorySystem: what hasPendingTransactions() sums
  nextId,                   \* id of the next transaction: the order of the adds
  fences,                   \* barriers addBarrier() reported as accepted
  running,                  \* the batch driver is inside its run() loop
  phase                     \* which step of update() is next

flowVars == << pendingTransactions, transactionQueue, queues, inFlight,
               numOnTheFlyTransactions, nextId, fences, running, phase >>

Transactions == [ id   : 1 .. MaxTransactions,
                  type : {"DATA_READ", "DATA_WRITE"},
                  addr : Addresses,
                  bar  : BOOLEAN ]

Phases == {"client", "pending", "write", "issue", "dispatch", "return"}

TypeOK ==
  /\ pendingTransactions \in Seq(Transactions)
  /\ transactionQueue \in Seq(Transactions)
  /\ queues \in [Ranks -> Seq(Transactions)]
  /\ inFlight \in SUBSET Transactions
  /\ numOnTheFlyTransactions \in Int
  /\ nextId \in 1 .. MaxTransactions + 1
  /\ fences \in SUBSET [id : 1 .. MaxTransactions, rank : Ranks]
  /\ running \in BOOLEAN
  /\ phase \in Phases

FlowInit ==
  /\ pendingTransactions = << >>
  /\ transactionQueue = << >>
  /\ queues = [r \in Ranks |-> << >>]
  /\ inFlight = {}
  /\ numOnTheFlyTransactions = 0
  /\ nextId = 1
  /\ fences = {}
  /\ running = FALSE
  /\ phase = "client"

-----------------------------------------------------------------------------
(* The client, between two calls of update().                              *)

WillAcceptTransaction == Len(transactionQueue) < TRANS_QUEUE_DEPTH

(* The drivers: "batch" is PIMKernel and PimSimulator, which add a program *)
(* and then call update() until hasPendingTransactions() is 0; "polite"    *)
(* streams and asks willAcceptTransaction() first, adding only when        *)
(* nothing waits in front of the controller; "eager" streams unasked.      *)
MayAdd ==
  CASE CLIENT = "batch"  -> ~running
    [] CLIENT = "polite" -> WillAcceptTransaction /\ pendingTransactions = << >>
    [] OTHER             -> TRUE

(* MemoryController::addTransaction.                                       *)
AcceptUncounted(t) ==  \* mutant
  /\ transactionQueue' = Append(transactionQueue, t)
  /\ UNCHANGED numOnTheFlyTransactions

Accept(t) ==
  /\ transactionQueue' = Append(transactionQueue, t)
  /\ numOnTheFlyTransactions' = numOnTheFlyTransactions + 1

(* addTransaction goes straight to the controller when it has room, past   *)
(* whatever still waits in pendingTransactions.                            *)
AddTransaction(type, addr) ==
  LET t == [id |-> nextId, type |-> type, addr |-> addr, bar |-> FALSE] IN
  /\ phase = "client"
  /\ MayAdd
  /\ nextId <= MaxTransactions
  /\ nextId' = nextId + 1
  /\ \/ /\ WillAcceptTransaction
        /\ Accept(t)
        /\ UNCHANGED pendingTransactions
     \/ /\ ~WillAcceptTransaction
        /\ pendingTransactions' = Append(pendingTransactions, t)
        /\ UNCHANGED << transactionQueue, numOnTheFlyTransactions >>
  /\ UNCHANGED << queues, inFlight, fences, running, phase >>

(* Tagging the newest entry of a queue as a barrier.                       *)
TagAlone(q) == Append(q, [Last(q) EXCEPT !.id = 0, !.bar = TRUE])  \* mutant

TagLast(q) == [q EXCEPT ![Len(q)].bar = TRUE]

(* The queue whose newest entry addBarrier tags.  It is empty when the     *)
(* barrier is refused (returns false and leaves no trace).                 *)
BarrierTarget ==
  IF WillAcceptTransaction THEN transactionQueue ELSE pendingTransactions

AddBarrier ==
  /\ phase = "client"
  /\ MayAdd
  /\ BarrierTarget # << >>
  /\ IF WillAcceptTransaction
       THEN /\ transactionQueue' = TagLast(transactionQueue)
            /\ UNCHANGED pendingTransactions
       ELSE /\ pendingTransactions' = TagLast(pendingTransactions)
            /\ UNCHANGED transactionQueue
  /\ fences' = fences \cup {[id   |-> nextId - 1,
                             rank |-> Last(BarrierTarget).addr.rank]}
  /\ UNCHANGED << queues, inFlight, numOnTheFlyTransactions, nextId, running,
                  phase >>

(* A batch driver calls update() only while something is on the fly.       *)
BeginUpdate ==
  /\ phase = "client"
  /\ CLIENT = "batch" => numOnTheFlyTransactions # 0
  /\ running' = (CLIENT = "batch")
  /\ phase' = "pending"
  /\ UNCHANGED << pendingTransactions, transactionQueue, queues, inFlight,
                  numOnTheFlyTransactions, nextId, fences >>

(* The loop of run() exits.                                                *)
RunReturns ==
  /\ phase = "client"
  /\ running
  /\ numOnTheFlyTransactions = 0
  /\ running' = FALSE
  /\ UNCHANGED << pendingTransactions, transactionQueue, queues, inFlight,
                  numOnTheFlyTransactions, nextId, fences, phase >>

-----------------------------------------------------------------------------
(* The steps of update().                                                  *)

(* The oldest overflow transaction enters the controller if it has room.   *)
AcceptPending ==
  /\ phase = "pending"
  /\ IF pendingTransactions # << >> /\ WillAcceptTransaction
       THEN /\ Accept(Head(pendingTransactions))
            /\ pendingTransactions' = Tail(pendingTransactions)
       ELSE UNCHANGED << transactionQueue, pendingTransactions,
                         numOnTheFlyTransactions >>
  /\ phase' = "write"
  /\ UNCHANGED << queues, inFlight, nextId, fences, running >>

(* At most one burst of the given type ends in a cycle; it is counted off. *)
Complete(type, from, to) ==
  /\ phase = from
  /\ \/ \E t \in inFlight :
          /\ t.type = type
          /\ inFlight' = inFlight \ {t}
          /\ numOnTheFlyTransactions' = numOnTheFlyTransactions - 1
     \/ UNCHANGED << inFlight, numOnTheFlyTransactions >>
  /\ phase' = to
  /\ UNCHANGED << pendingTransactions, transactionQueue, queues, nextId,
                  fences, running >>

CompleteWrite == Complete("DATA_WRITE", "write", "issue")

CompleteRead == Complete("DATA_READ", "return", "client")

(* What process_command demands of the i-th entry of a queue: a barrier    *)
(* only from the front, nothing past a barrier, nothing past an older      *)
(* access to the same burst.                                               *)
EligibleUnordered(q, i) ==  \* mutant: no test for the same burst
  /\ q[i].bar => i = 1
  /\ \A j \in 1 .. i - 1 : ~q[j].bar

EligiblePastBarrier(q, i) ==  \* mutant: a barrier holds back only itself
  /\ q[i].bar => i = 1
  /\ \A j \in 1 .. i - 1 : q[j].addr # q[i].addr

Eligible(q, i) ==
  /\ q[i].bar => i = 1
  /\ \A j \in 1 .. i - 1 : ~q[j].bar /\ q[j].addr # q[i].addr

(* At most one column command leaves for the ranks in a cycle.             *)
Issue ==
  /\ phase = "issue"
  /\ \/ \E r \in Ranks : \E i \in 1 .. Len(queues[r]) :
          /\ Eligible(queues[r], i)
          /\ queues' = [queues EXCEPT ![r] = RemoveAt(queues[r], i)]
          /\ inFlight' = inFlight \cup {queues[r][i]}
     \/ UNCHANGED << queues, inFlight >>
  /\ phase' = "dispatch"
  /\ UNCHANGED << pendingTransactions, transactionQueue,
                  numOnTheFlyTransactions, nextId, fences, running >>

HasRoomFor(r) == Len(queues[r]) < CMD_QUEUE_DEPTH

(* The i-th transaction is the first whose rank can take its command.      *)
Dispatchable(i) ==
  /\ HasRoomFor(transactionQueue[i].addr.rank)
  /\ \A j \in 1 .. i - 1 : ~HasRoomFor(transactionQueue[j].addr.rank)

Dispatch ==
  /\ phase = "dispatch"
  /\ \/ \E i \in 1 .. Len(transactionQueue) :
          LET t == transactionQueue[i] IN
          /\ Dispatchable(i)
          /\ transactionQueue' = RemoveAt(transactionQueue, i)
          /\ queues' = [queues EXCEPT ![t.addr.rank] = Append(@, t)]
     \/ /\ \A i \in 1 .. Len(transactionQueue) : ~Dispatchable(i)
        /\ UNCHANGED << transactionQueue, queues >>
  /\ phase' = "return"
  /\ UNCHANGED << pendingTransactions, inFlight, numOnTheFlyTransactions,
                  nextId, fences, running >>

ClientStep ==
  \/ \E type \in {"DATA_READ", "DATA_WRITE"}, addr \in Addresses :
       AddTransaction(type, addr)
  \/ AddBarrier
  \/ BeginUpdate
  \/ RunReturns

UpdateStep ==
  \/ AcceptPending
  \/ CompleteWrite
  \/ Issue
  \/ Dispatch
  \/ CompleteRead

FlowNext == ClientStep \/ UpdateStep

FlowSpec == FlowInit /\ [][FlowNext]_flowVars

-----------------------------------------------------------------------------
(* Where the transactions are.                                             *)

Ids(S) == {t.id : t \in S}

QueuedIn(qs) == UNION {ToSet(qs[r]) : r \in Ranks}

Controlled == ToSet(transactionQueue) \cup inFlight \cup QueuedIn(queues)

(* Added and not yet issued to a rank.                                     *)
Waiting == ToSet(pendingTransactions) \cup ToSet(transactionQueue)
             \cup QueuedIn(queues)

(* The counter run() polls is the number of transactions that the          *)
(* controller holds in any stage: every increment (MemoryController::      *)
(* addTransaction) is matched by one decrement (write burst sent, read     *)
(* data returned), across both queues and the flight.                      *)
Accounting ==
  numOnTheFlyTransactions = Cardinality(Ids(Controlled))

(* hasPendingTransactions() does not count pendingTransactions, yet it     *)
(* never reads 0 between two updates while work is still waiting there: a  *)
(* run() loop that polls it cannot return early.                           *)
NothingLeftBehind ==
  (phase = "client" /\ numOnTheFlyTransactions = 0)
    => Waiting = {} /\ inFlight = {}

(* A step that issues a transaction.                                       *)
Issued == {t \in Waiting : t \notin Waiting' /\ t \in inFlight'}

(* Accesses to one burst reach the DRAM in the order in which the client   *)
(* added them: no read overtakes an older write through the two queues.    *)
SameAddressOrder ==
  [][\A t \in Issued : \A u \in Waiting :
       u.addr = t.addr => t.id <= u.id]_flowVars

(* What addBarrier() accepted is honoured: nothing added after a barrier   *)
(* is issued to the rank of the tagged transaction while something added   *)
(* before it still waits for that rank.                                    *)
BarrierOrder ==
  [][\A t \in Issued : \A u \in Waiting : \A f \in fences :
       (t.addr.rank = f.rank /\ u.addr.rank = f.rank /\ u.id <= f.id)
         => t.id <= f.id]_flowVars

-----------------------------------------------------------------------------
(* The inductive strengthening of the three invariants above.              *)

SeqIds(q) == Ids(ToSet(q))

UniqueIds(q) == \A i, j \in 1 .. Len(q) : q[i].id = q[j].id => i = j

(* Every transaction is in exactly one place.                              *)
OnePlace ==
  /\ UniqueIds(pendingTransactions)
  /\ UniqueIds(transactionQueue)
  /\ \A r \in Ranks : UniqueIds(queues[r])
  /\ \A t, u \in inFlight : t.id = u.id => t = u
  /\ SeqIds(pendingTransactions) \cap SeqIds(transactionQueue) = {}
  /\ SeqIds(pendingTransactions) \cap Ids(inFlight) = {}
  /\ SeqIds(transactionQueue) \cap Ids(inFlight) = {}
  /\ \A r \in Ranks : /\ SeqIds(pendingTransactions) \cap SeqIds(queues[r]) = {}
                      /\ SeqIds(transactionQueue) \cap SeqIds(queues[r]) = {}
                      /\ SeqIds(queues[r]) \cap Ids(inFlight) = {}
  /\ \A r, s \in Ranks : r # s => SeqIds(queues[r]) \cap SeqIds(queues[s]) = {}

(* Ids are given out once.                                                 *)
FreshId ==
  /\ SeqIds(pendingTransactions) \subseteq 1 .. nextId - 1
  /\ SeqIds(transactionQueue) \subseteq 1 .. nextId - 1
  /\ \A r \in Ranks : SeqIds(queues[r]) \subseteq 1 .. nextId - 1
  /\ Ids(inFlight) \subseteq 1 .. nextId - 1

(* Work waits in front of the controller only while the controller is full *)
(* or has, in this very cycle, passed one command to a queue of its own.   *)
OverflowBacked ==
  /\ Len(transactionQueue) <= TRANS_QUEUE_DEPTH
  /\ pendingTransactions # << >> =>
       \/ Len(transactionQueue) = TRANS_QUEUE_DEPTH
       \/ /\ phase \in {"return", "client", "pending"}
          /\ Len(transactionQueue) = TRANS_QUEUE_DEPTH - 1
          /\ \E r \in Ranks : queues[r] # << >>

FlowInv == TypeOK /\ OnePlace /\ FreshId /\ OverflowBacked /\ Accounting

(* The order of the ids.  Where MayAdd keeps the client from overtaking    *)
(* what waits in front of the controller, it is the order of the adds      *)
(* along the way to each rank.                                             *)
Sorted(q) == \A i, j \in 1 .. Len(q) : i < j => q[i].id < q[j].id

QueuesSorted ==
  Sorted(pendingTransactions) /\ Sorted(transactionQueue)
    /\ \A r \in Ranks : Sorted(queues[r])

PendingNewest ==
  \A p \in ToSet(pendingTransactions) :
    /\ \A t \in ToSet(transactionQueue) : t.id < p.id
    /\ \A r \in Ranks : \A t \in ToSet(queues[r]) : t.id < p.id

RankOrder ==
  \A r \in Ranks : \A t \in ToSet(queues[r]) :
    /\ t.addr.rank = r
    /\ \A u \in ToSet(transactionQueue) : u.addr.rank = r => t.id < u.id

(* A batch is added before it is run, and a run leaves nothing over.       *)
NoOvertaking ==
  CLIENT = "batch" =>
    /\ phase # "client" => running
    /\ (~running /\ pendingTransactions # << >>) => Len(transactionQueue) = TRANS_QUEUE_DEPTH

(* As long as something from before a barrier waits for its rank, the last *)
(* of it is tagged.                                                        *)
Before(f) == {u \in Waiting : u.addr.rank = f.rank /\ u.id <= f.id}

Fenced ==
  \A f \in fences :
    /\ f.id < nextId
    /\ Before(f) # {} => \E e \in Before(f) : e.bar /\ \A u \in Before(f) : u.id <= e.id

OrderInv == FlowInv /\ QueuesSorted /\ PendingNewest /\ RankOrder /\ NoOvertaking /\ Fenced

=============================================================================

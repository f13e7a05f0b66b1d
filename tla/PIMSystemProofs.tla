-------------------------- MODULE PIMSystemProofs ---------------------------
(***************************************************************************)
(* A kernel on a channel is one more client of it, so what holds of every  *)
(* channel holds here, row by row of the script: also where the script     *)
(* reaches for the register rows.  The client does not ask                 *)
(* willAcceptTransaction() and yet overtakes nothing, because it makes all *)
(* its calls between two updates; hence the barriers of a kernel hold, on  *)
(* which its program relies.                                               *)
(***************************************************************************)
EXTENDS PIMSystem, ChannelTimingProofs

-----------------------------------------------------------------------------
(* The kernel is a client of the channel.                                  *)

(* How far the script has come, and what waits meanwhile: a call that      *)
(* leaves something in front of the controller finds it full.              *)
ScriptInv ==
  /\ called \in 0 .. Len(Script)
  /\ called = 0 => pendingTransactions = << >>
  /\ called < Len(Script) /\ pendingTransactions # << >> => ~WillAcceptTransaction

LEMMA ScriptLength == Len(Script) \in Nat
  BY ScriptAssumption, LenProperties

(* A call of the script is a call of the client.                           *)
LEMMA CallIsClientStep ==
  ASSUME MakeCall, ScriptInv
  PROVE  ClientStep \/ UNCHANGED vars
<1> DEFINE e == Script[called + 1]
<1>1. called \in Nat /\ called + 1 \in 1 .. Len(Script)
  BY ScriptLength DEF MakeCall, ScriptInv
<1>2. e \in ToSet(Script)
  BY <1>1, ScriptAssumption, ToSetMember
<1>3. \/ e # Barrier /\ AddTransaction(e.type, e.addr)
      \/ e = Barrier /\ AddBarrier
      \/ UNCHANGED vars
  BY DEF MakeCall
<1>4. e # Barrier => e.type \in {"DATA_READ", "DATA_WRITE"} /\ e.addr \in Addresses
  BY <1>2, ScriptAssumption
<1> HIDE DEF e
<1> QED
  BY <1>3, <1>4 DEF ClientStep

(* A step of the system is one of the channel, ...                         *)
LEMMA SystemStep == ScriptInv /\ [SystemNext]_systemVars => [Next]_vars
<1> SUFFICES ASSUME ScriptInv, [SystemNext]_systemVars PROVE [Next]_vars
  OBVIOUS
<1>1. CASE fault = "none" /\ MakeCall
  BY <1>1, CallIsClientStep DEF Next
<1>2. CASE Run /\ fault = "none"
  BY <1>2 DEF Run, Next
<1>3. CASE UNCHANGED systemVars
  BY <1>3 DEF systemVars
<1> QED
  BY <1>1, <1>2, <1>3 DEF SystemNext

(* ... the script holds its place, ...                                     *)
LEMMA ScriptInit == SystemInit => ScriptInv
  BY ScriptLength DEF SystemInit, Init, ScriptInv

(* ... whatever the step, ...                                              *)
LEMMA ScriptNext ==
  ScriptInv /\ [SystemNext]_systemVars => ScriptInv'
<1> SUFFICES ASSUME ScriptInv, [SystemNext]_systemVars PROVE ScriptInv'
  OBVIOUS
<1>1. Len(Script) \in Nat /\ called \in Nat /\ called <= Len(Script)
  BY ScriptLength DEF ScriptInv
<1>2. CASE MakeCall
  <2>1. called < Len(Script) /\ called' = called + 1
    BY <1>2 DEF MakeCall
  <2>2. called' \in 0 .. Len(Script) /\ called' # 0
    BY <1>1, <2>1
  <2>3. pendingTransactions # << >> => ~WillAcceptTransaction
    BY <2>1 DEF ScriptInv
  <2>4. (pendingTransactions # << >> => ~WillAcceptTransaction)'
    <3>1. ASSUME NEW type, NEW addr, AddTransaction(type, addr)
          PROVE  (pendingTransactions # << >> => ~WillAcceptTransaction)'
      <4>1. CASE WillAcceptTransaction
        BY <2>3, <3>1, <4>1 DEF AddTransaction
      <4>2. CASE ~WillAcceptTransaction
        BY <3>1, <4>2 DEF AddTransaction, WillAcceptTransaction
      <4> QED
        BY <4>1, <4>2
    <3>2. CASE AddBarrier
      <4>1. CASE WillAcceptTransaction
        BY <2>3, <3>2, <4>1 DEF AddBarrier
      <4>2. CASE ~WillAcceptTransaction
        BY <3>2, <4>2 DEF AddBarrier, WillAcceptTransaction
      <4> QED
        BY <4>1, <4>2
    <3>3. CASE UNCHANGED vars
      BY <2>3, <3>3 DEF vars, controllerVars, WillAcceptTransaction
    <3> QED
      BY <1>2, <3>1, <3>2, <3>3 DEF MakeCall
  <2> QED
    BY <2>2, <2>4 DEF ScriptInv
<1>3. CASE Run
  <2>1. called' = called /\ called \in {0, Len(Script)}
    BY <1>3 DEF Run
  <2>2. pendingTransactions = << >> => pendingTransactions' = << >>
    BY <1>3 DEF Run, UpdateStep, BeginUpdate, AcceptPending, Bus, RefreshTimers, Command,
               Dispatch, EndUpdate
  <2> QED
    BY <1>1, <2>1, <2>2 DEF ScriptInv
<1>4. CASE UNCHANGED systemVars
  BY <1>4 DEF systemVars, vars, controllerVars, ScriptInv, WillAcceptTransaction
<1> QED
  BY <1>2, <1>3, <1>4 DEF SystemNext

(* ... and a run of the kernel is a behaviour of the channel.              *)
THEOREM KernelIsClient == SystemSpec => Spec /\ []ScriptInv
<1>1. SystemInit => Init /\ ScriptInv
  BY ScriptInit DEF SystemInit
<1>2. ScriptInv /\ [SystemNext]_systemVars => [Next]_vars
  BY SystemStep
<1>3. ScriptInv /\ [SystemNext]_systemVars => ScriptInv'
  BY ScriptNext
<1> QED
  BY <1>1, <1>2, <1>3, PTL DEF SystemSpec, Spec


-----------------------------------------------------------------------------
(* What a kernel has from its channel.                                     *)

(* One command at a time on the command bus and one burst on the data bus, *)
(* through the changes of mode and the accesses to the registers as well.  *)
THEOREM KernelBusesExclusive ==
  ASSUME DataFits
  PROVE  SystemSpec => []BusesExclusive
BY KernelIsClient, BusesExclusiveAlways, PTL

(* Each read of results gets the data it fetched, although returned data   *)
(* is matched by address and the reads that compute ask for the same       *)
(* addresses over and over.                                                *)
THEOREM KernelReadsOwnData == SystemSpec => OwnReadReturned
BY KernelIsClient, OwnReadReturnedAlways, PTL

(* Nothing but a rank that refuses a command can stop the program.         *)
THEOREM KernelOnlyRanksStop ==
  ASSUME DataFits
  PROVE  SystemSpec => [](fault \in {"none", "check"})
BY KernelIsClient, OnlyRanksStop, PTL

-----------------------------------------------------------------------------
(* The order of a kernel's accesses.                                       *)

(* The client of the abstract channel takes no step while update() runs.   *)
LEMMA UpdateAddsNothing ==
  ASSUME UpdateStep
  PROVE  ~(FlowPhase = "client" /\ FlowPhase' = "client")
  BY DEF UpdateStep, BeginUpdate, AcceptPending, Bus, RefreshTimers, Command, Dispatch,
         EndUpdate, FlowPhase

(* Between the calls of the script nothing is accepted past what waits.    *)
LEMMA KernelPatient ==
  ScriptInv /\ [SystemNext]_systemVars
    => [FlowProofs!Patient]_(FlowProofs!flowVars)
<1> SUFFICES ASSUME ScriptInv, [SystemNext]_systemVars
             PROVE  [FlowProofs!Patient]_(FlowProofs!flowVars)
  OBVIOUS
<1>1. CASE MakeCall
  <2>1. ~FlowProofs!Overtakes
    BY <1>1 DEF MakeCall, ScriptInv, FlowProofs!Overtakes, WillAcceptTransaction,
                FlowProofs!WillAcceptTransaction
  <2> QED
    BY <2>1 DEF FlowProofs!Patient
<1>2. CASE Run
  <2>1. ~(FlowPhase = "client" /\ FlowPhase' = "client")
    BY <1>2, UpdateAddsNothing DEF Run
  <2> QED
    BY <2>1 DEF FlowProofs!Patient, FlowProofs!AddTransaction, FlowProofs!AddBarrier
<1>3. CASE UNCHANGED systemVars
  <2>1. UNCHANGED vars
    BY <1>3 DEF systemVars
  <2>2. UNCHANGED FlowProofs!flowVars
    BY <2>1, SMTT(30) DEF vars, rankVars, commandQueueVars, controllerVars, clientVars,
            FlowProofs!flowVars, FlowPhase, InFlight, InQueues
  <2> QED
    BY <2>2
<1> QED
  BY <1>1, <1>2, <1>3 DEF SystemNext

(* A kernel streams its calls without asking willAcceptTransaction(), and  *)
(* still the queues keep the order of the calls on the way to each rank.   *)
LEMMA KernelInOrder ==
  ASSUME tRCDWR - AL + 1 >= BurstCycles
  PROVE  SystemSpec => FlowProofs!FlowSpec /\ []FlowProofs!OrderInv
<1>1. SystemSpec => Spec /\ []ScriptInv
  BY KernelIsClient
<1>2. Spec => FlowProofs!FlowSpec
  BY FlowHolds
<1>3. ScriptInv /\ [SystemNext]_systemVars => [FlowProofs!Patient]_(FlowProofs!flowVars)
  BY KernelPatient
<1>4. FlowProofs!FlowSpec /\ [][FlowProofs!Patient]_(FlowProofs!flowVars)
        => []FlowProofs!OrderInv
  BY FlowAssumptions, FlowProofs!OrderOfPatientClients, PTL
<1> QED
  BY <1>1, <1>2, <1>3, <1>4, PTL DEF SystemSpec

(* The writes of a program, its start, and the reads that run it reach one *)
(* burst in the order of the kernel's calls.                               *)
THEOREM KernelSameAddressOrder ==
  ASSUME tRCDWR - AL + 1 >= BurstCycles
  PROVE  SystemSpec => Flow!SameAddressOrder
<1>1. [\A t \in FlowProofs!Issued : \A u \in FlowProofs!Waiting :
          u.addr = t.addr => t.id <= u.id]_(FlowProofs!flowVars)
      => [\A t \in Flow!Issued : \A u \in Flow!Waiting :
          u.addr = t.addr => t.id <= u.id]_(Flow!flowVars)
  BY SamePlaces, SameIssued DEF Flow!flowVars, FlowProofs!flowVars
<1>2. SystemSpec => FlowProofs!FlowSpec /\ []FlowProofs!OrderInv
  BY KernelInOrder
<1>3. FlowProofs!FlowSpec /\ []FlowProofs!OrderInv => FlowProofs!SameAddressOrder
  BY FlowAssumptions, FlowProofs!SameAddressFromOrder, PTL
<1> QED
  BY <1>1, <1>2, <1>3, PTL DEF FlowProofs!SameAddressOrder, Flow!SameAddressOrder

(* Every barrier of a kernel that addBarrier() accepted holds: no access   *)
(* of the next step of the kernel goes to a rank while one of the step     *)
(* before still waits for it.  Module PIMProgram builds on this.           *)
THEOREM KernelBarrierOrder ==
  ASSUME tRCDWR - AL + 1 >= BurstCycles
  PROVE  SystemSpec => Flow!BarrierOrder
<1>1. [\A t \in FlowProofs!Issued : \A u \in FlowProofs!Waiting : \A f \in fences :
          (t.addr.rank = f.rank /\ u.addr.rank = f.rank /\ u.id <= f.id)
            => t.id <= f.id]_(FlowProofs!flowVars)
      => [\A t \in Flow!Issued : \A u \in Flow!Waiting : \A f \in fences :
          (t.addr.rank = f.rank /\ u.addr.rank = f.rank /\ u.id <= f.id)
            => t.id <= f.id]_(Flow!flowVars)
  BY SamePlaces, SameIssued DEF Flow!flowVars, FlowProofs!flowVars
<1>2. SystemSpec => FlowProofs!FlowSpec /\ []FlowProofs!OrderInv
  BY KernelInOrder
<1>3. FlowProofs!FlowSpec /\ []FlowProofs!OrderInv => FlowProofs!BarrierOrder
  BY FlowAssumptions, FlowProofs!BarrierFromOrder, PTL
<1> QED
  BY <1>1, <1>2, <1>3, PTL DEF FlowProofs!BarrierOrder, Flow!BarrierOrder

-----------------------------------------------------------------------------
(* The barriers of a kernel.  PIMKernel::addBarrier does not look whether  *)
(* MemorySystem::addBarrier found a transaction to tag.  It finds one      *)
(* unless the accesses so far fill the transaction queue exactly.          *)

(* The accesses among the first n calls; their number is the id of the     *)
(* last of them.                                                           *)
AccessesIn(n) == {k \in 1 .. n : Script[k] # Barrier}

Accesses(n) == Cardinality(AccessesIn(n))

(* The last access among the first n calls.                                *)
Newest(k, n) ==
  /\ k \in 1 .. n /\ Script[k] # Barrier
  /\ \A j \in k + 1 .. n : Script[j] = Barrier

BarriersKept ==
  \A i \in 1 .. called : \A k \in 1 .. i :
    Script[i] = Barrier /\ Newest(k, i) /\ Accesses(k) # TRANS_QUEUE_DEPTH =>
      [id |-> Accesses(k), rank |-> Script[k].addr.rank] \in fences

(* Until the last call nothing leaves the queues, so that they hold the    *)
(* accesses so far, and addBarrier looks at the queue with the newest one. *)
Filling == IF pendingTransactions = << >> THEN transactionQueue ELSE pendingTransactions

QueuesHoldCalls ==
  /\ Len(transactionQueue) <= TRANS_QUEUE_DEPTH
  /\ Len(transactionQueue) + Len(pendingTransactions) = Accesses(called)
  /\ \A k \in 1 .. called : Newest(k, called) => Last(Filling).addr = Script[k].addr

CallsInv ==
  /\ nextId = Accesses(called) + 1
  /\ called < Len(Script) => QueuesHoldCalls
  /\ BarriersKept

(* Each access counts once, and a barrier counts nothing.                  *)
LEMMA AccessesGrow ==
  ASSUME NEW n \in Nat
  PROVE  /\ Accesses(0) = 0 /\ Accesses(n) \in Nat
         /\ Accesses(n + 1) = Accesses(n) + (IF Script[n + 1] = Barrier THEN 0 ELSE 1)
         /\ \A m \in 0 .. n : Accesses(m) <= Accesses(n)
         /\ \A k \in 1 .. n : Newest(k, n) => Accesses(k) = Accesses(n) /\ Accesses(n) >= 1
<1>1. \A m \in 0 .. n + 1 : IsFiniteSet(AccessesIn(m)) /\ Accesses(m) \in Nat
  <2> TAKE m \in 0 .. n + 1
  <2>1. IsFiniteSet(1 .. m) /\ AccessesIn(m) \in SUBSET (1 .. m)
    BY FS_Interval DEF AccessesIn
  <2>2. IsFiniteSet(AccessesIn(m))
    BY <2>1, FS_Subset
  <2> QED
    BY <2>2, FS_CardinalityType DEF Accesses
<1>2. Accesses(0) = 0
  <2>1. AccessesIn(0) = {}
    BY DEF AccessesIn
  <2> QED
    BY <2>1, FS_EmptySet DEF Accesses
<1>3. Accesses(n + 1) = Accesses(n) + (IF Script[n + 1] = Barrier THEN 0 ELSE 1)
  <2>1. CASE Script[n + 1] = Barrier
    <3>1. AccessesIn(n + 1) = AccessesIn(n)
      BY <2>1 DEF AccessesIn
    <3> QED
      BY <1>1, <2>1, <3>1 DEF Accesses
  <2>2. CASE Script[n + 1] # Barrier
    <3>1. AccessesIn(n + 1) = AccessesIn(n) \cup {n + 1} /\ n + 1 \notin AccessesIn(n)
      BY <2>2 DEF AccessesIn
    <3>2. IsFiniteSet(AccessesIn(n))
      BY <1>1
    <3> QED
      BY <2>2, <3>1, <3>2, FS_AddElement DEF Accesses
  <2> QED
    BY <2>1, <2>2
<1>4. \A m \in 0 .. n : Accesses(m) <= Accesses(n)
  <2> TAKE m \in 0 .. n
  <2>1. AccessesIn(m) \in SUBSET AccessesIn(n)
    BY DEF AccessesIn
  <2>2. IsFiniteSet(AccessesIn(n))
    BY <1>1
  <2> QED
    BY <2>1, <2>2, FS_Subset DEF Accesses
<1>5. ASSUME NEW k \in 1 .. n, Newest(k, n)
      PROVE  Accesses(k) = Accesses(n) /\ Accesses(n) >= 1
  <2>1. AccessesIn(k) = AccessesIn(n) /\ k \in AccessesIn(n)
    BY <1>5 DEF AccessesIn, Newest
  <2>2. Accesses(n) # 0
    <3>1. IsFiniteSet(AccessesIn(n)) /\ AccessesIn(n) # {}
      BY <1>1, <2>1
    <3> QED
      BY <3>1, FS_EmptySet DEF Accesses
  <2>3. Accesses(n) \in Nat
    BY <1>1
  <2> QED
    BY <2>1, <2>2, <2>3 DEF Accesses
<1> QED
  BY <1>1, <1>2, <1>3, <1>4, <1>5

(* A barrier leaves the address of the transaction it tags alone.          *)
LEMMA TagLastAddress ==
  ASSUME NEW q \in Seq(Transactions), q # << >>
  PROVE  /\ TagLast(q) # << >> /\ Len(TagLast(q)) = Len(q)
         /\ Last(TagLast(q)).addr = Last(q).addr
<1>1. PICK n \in Nat : n = Len(q)
  BY LenProperties
<1>2. n >= 1 /\ DOMAIN q = 1 .. n /\ n \in 1 .. n
  BY <1>1, LenProperties, EmptySeq
<1>3. TagLast(q) = [q EXCEPT ![n] = [q[n] EXCEPT !.bar = TRUE]]
  BY <1>1 DEF TagLast
<1>4. q[n] \in Transactions
  BY <1>1, <1>2, ElementOfSeq
<1>5. [q[n] EXCEPT !.bar = TRUE].addr = q[n].addr
  BY <1>4 DEF Transactions
<1>6. TagLast(q)[n].addr = q[n].addr
  BY <1>2, <1>3, <1>5
<1>7. Len(TagLast(q)) = n
  BY <1>1, TagLastMember
<1>8. TagLast(q) # << >>
  BY <1>2, <1>7, EmptySeq
<1> QED
  BY <1>1, <1>6, <1>7, <1>8 DEF Last

(* What a call appends is the newest.                                      *)
LEMMA AppendNewest ==
  ASSUME NEW q \in Seq(Transactions), NEW t \in Transactions
  PROVE  /\ Append(q, t) # << >> /\ Len(Append(q, t)) = Len(q) + 1
         /\ Last(Append(q, t)) = t
<1>1. PICK n \in Nat : n = Len(q)
  BY LenProperties
<1>2. Append(q, t) # << >> /\ Len(Append(q, t)) = n + 1 /\ Append(q, t)[n + 1] = t
  BY <1>1, AppendMember
<1> QED
  BY <1>1, <1>2 DEF Last

LEMMA CallsInit == SystemInit => CallsInv
<1> SUFFICES ASSUME SystemInit PROVE CallsInv
  OBVIOUS
<1>1. /\ called = 0 /\ nextId = 1
      /\ transactionQueue = << >> /\ pendingTransactions = << >>
  BY DEF SystemInit, Init, ControllerInit
<1>2. Accesses(0) = 0
  BY AccessesGrow
<1>3. Len(transactionQueue) = 0 /\ Len(pendingTransactions) = 0
  BY <1>1, EmptySeq
<1>4. QueuesHoldCalls
  BY <1>1, <1>2, <1>3, ControllerAssumption DEF QueuesHoldCalls
<1>5. BarriersKept
  BY <1>1 DEF BarriersKept
<1> QED
  BY <1>1, <1>2, <1>4, <1>5 DEF CallsInv

(* What earlier barriers have fenced off stays so.                         *)
LEMMA BarriersStay ==
  ASSUME BarriersKept, called \in Nat, called' = called + 1, fences \subseteq fences',
         \A k \in 1 .. called + 1 :
           Script[called + 1] = Barrier /\ Newest(k, called + 1)
             /\ Accesses(k) # TRANS_QUEUE_DEPTH
           => [id |-> Accesses(k), rank |-> Script[k].addr.rank] \in fences'
  PROVE  BarriersKept'
<1> SUFFICES ASSUME NEW i \in 1 .. called + 1, NEW k \in 1 .. i,
                    Script[i] = Barrier, Newest(k, i), Accesses(k) # TRANS_QUEUE_DEPTH
             PROVE  [id |-> Accesses(k), rank |-> Script[k].addr.rank] \in fences'
  BY DEF BarriersKept, Newest, Accesses, AccessesIn
<1>1. CASE i = called + 1
  BY <1>1
<1>2. CASE i \in 1 .. called
  BY <1>2 DEF BarriersKept
<1> QED
  BY <1>1, <1>2

(* A call adds its access behind those so far, ...                         *)
LEMMA CallsAdd ==
  ASSUME ScriptInv, CallsInv, QueuesTyped, called < Len(Script), called' = called + 1,
         Script[called + 1] # Barrier,
         NEW type, NEW addr \in Addresses, type \in {"DATA_READ", "DATA_WRITE"},
         addr = Script[called + 1].addr, AddTransaction(type, addr)
  PROVE  CallsInv'
<1> DEFINE t == [id |-> nextId, type |-> type, addr |-> addr, bar |-> FALSE]
<1>1. called \in Nat /\ Len(Script) \in Nat
  BY ScriptLength DEF ScriptInv
<1>2. t \in Transactions /\ t.addr = addr /\ nextId' = nextId + 1 /\ fences' = fences
  BY DEF AddTransaction, QueuesTyped, Transactions
<1>3. Accesses(called) \in Nat /\ Accesses(called + 1) = Accesses(called) + 1
  BY <1>1, AccessesGrow
<1>4. \A k \in 1 .. called + 1 : Newest(k, called + 1) => k = called + 1
  BY <1>1 DEF Newest
<1>5. /\ Len(transactionQueue) <= TRANS_QUEUE_DEPTH
      /\ Len(transactionQueue) + Len(pendingTransactions) = Accesses(called)
      /\ pendingTransactions # << >> => ~WillAcceptTransaction
      /\ Len(transactionQueue) \in Nat /\ Len(pendingTransactions) \in Nat
  BY LenProperties DEF CallsInv, QueuesHoldCalls, ScriptInv, QueuesTyped
<1>6. /\ Len(transactionQueue') <= TRANS_QUEUE_DEPTH
      /\ Len(transactionQueue') + Len(pendingTransactions') = Accesses(called) + 1
      /\ Last(Filling') = t
  <2> HIDE DEF t
  <2>1. CASE WillAcceptTransaction
    <3>1. /\ pendingTransactions = << >> /\ pendingTransactions' = pendingTransactions
          /\ transactionQueue' = Append(transactionQueue, t)
      BY <1>5, <2>1 DEF AddTransaction, t
    <3>2. Len(transactionQueue') = Len(transactionQueue) + 1 /\ Last(transactionQueue') = t
      BY <1>2, <3>1, AppendNewest DEF QueuesTyped
    <3> QED
      BY <1>5, <2>1, <3>1, <3>2, ControllerAssumption DEF Filling, WillAcceptTransaction
  <2>2. CASE ~WillAcceptTransaction
    <3>1. /\ transactionQueue' = transactionQueue
          /\ pendingTransactions' = Append(pendingTransactions, t)
      BY <2>2 DEF AddTransaction, t
    <3>2. /\ Len(pendingTransactions') = Len(pendingTransactions) + 1
          /\ pendingTransactions' # << >> /\ Last(pendingTransactions') = t
      BY <1>2, <3>1, AppendNewest DEF QueuesTyped
    <3> QED
      BY <1>5, <3>1, <3>2 DEF Filling
  <2> QED
    BY <2>1, <2>2
<1>7. BarriersKept'
  <2>1. BarriersKept
    BY DEF CallsInv
  <2> QED
    BY <1>1, <1>2, <2>1, BarriersStay
<1>8. QueuesHoldCalls'
  <2> HIDE DEF t
  <2>1. (\A k \in 1 .. called : Newest(k, called) => Last(Filling).addr = Script[k].addr)'
    BY <1>1, <1>2, <1>4, <1>6 DEF Newest
  <2>2. (Len(transactionQueue) + Len(pendingTransactions) = Accesses(called))'
    BY <1>3, <1>6 DEF Accesses, AccessesIn
  <2> QED
    BY <1>6, <2>1, <2>2 DEF QueuesHoldCalls
<1>9. nextId' = (Accesses(called) + 1)'
  <2>1. (Accesses(called))' = Accesses(called + 1)
    BY DEF Accesses, AccessesIn
  <2> QED
    BY <1>2, <1>3, <2>1 DEF CallsInv
<1> QED
  BY <1>7, <1>8, <1>9 DEF CallsInv

(* ... a barrier tags the newest of them, ...                              *)
LEMMA CallsFence ==
  ASSUME ScriptInv, CallsInv, QueuesTyped, called < Len(Script), called' = called + 1,
         Script[called + 1] = Barrier, AddBarrier
  PROVE  CallsInv'
<1>1. called \in Nat /\ Len(Script) \in Nat
  BY ScriptLength DEF ScriptInv
<1>2. Accesses(called) \in Nat /\ Accesses(called + 1) = Accesses(called)
  <2>1. /\ Accesses(called) \in Nat
        /\ Accesses(called + 1) =
             Accesses(called) + (IF Script[called + 1] = Barrier THEN 0 ELSE 1)
    BY <1>1, AccessesGrow
  <2>2. Accesses(called + 1) = Accesses(called) + 0
    BY <2>1, Zenon
  <2> QED
    BY <2>1, <2>2
<1>3. \A k \in 1 .. called + 1 : Newest(k, called + 1) =>
        k \in 1 .. called /\ Newest(k, called) /\ Accesses(k) = Accesses(called)
  <2>1. \A k \in 1 .. called + 1 : Newest(k, called + 1) =>
          k \in 1 .. called /\ Newest(k, called)
    BY <1>1 DEF Newest
  <2> QED
    BY <1>1, <2>1, AccessesGrow
<1>4. /\ Filling # << >> /\ Filling \in Seq(Transactions)
      /\ fences' = fences \cup {[id |-> nextId - 1, rank |-> Last(Filling).addr.rank]}
      /\ nextId' = nextId
      /\ Filling' # << >> /\ Last(Filling').addr = Last(Filling).addr
      /\ Len(transactionQueue') = Len(transactionQueue)
      /\ Len(pendingTransactions') = Len(pendingTransactions)
  <2>1. CASE WillAcceptTransaction
    <3>1. pendingTransactions = << >> /\ transactionQueue # << >>
      BY <2>1 DEF ScriptInv, AddBarrier
    <3>2. /\ transactionQueue' = TagLast(transactionQueue)
          /\ pendingTransactions' = pendingTransactions
          /\ fences' = fences \cup Fence(transactionQueue)
      BY <2>1 DEF AddBarrier
    <3>3. /\ transactionQueue' # << >>
          /\ Len(transactionQueue') = Len(transactionQueue)
          /\ Last(transactionQueue').addr = Last(transactionQueue).addr
      BY <3>1, <3>2, TagLastAddress DEF QueuesTyped
    <3> QED
      BY <3>1, <3>2, <3>3 DEF Filling, Fence, AddBarrier, QueuesTyped
  <2>2. CASE ~WillAcceptTransaction
    <3>1. /\ pendingTransactions # << >>
          /\ pendingTransactions' = TagLast(pendingTransactions)
          /\ transactionQueue' = transactionQueue
          /\ fences' = fences \cup Fence(pendingTransactions)
      BY <2>2 DEF AddBarrier
    <3>2. /\ pendingTransactions' # << >>
          /\ Len(pendingTransactions') = Len(pendingTransactions)
          /\ Last(pendingTransactions').addr = Last(pendingTransactions).addr
      BY <3>1, TagLastAddress DEF QueuesTyped
    <3> QED
      BY <3>1, <3>2 DEF Filling, Fence, AddBarrier, QueuesTyped
  <2> QED
    BY <2>1, <2>2
<1>5. QueuesHoldCalls /\ nextId = Accesses(called) + 1 /\ BarriersKept
  BY DEF CallsInv
<1>6. BarriersKept'
  <2>1. \A k \in 1 .. called + 1 : Newest(k, called + 1) =>
          [id |-> Accesses(k), rank |-> Script[k].addr.rank] \in fences'
    <3> TAKE k \in 1 .. called + 1
    <3> HAVE Newest(k, called + 1)
    <3>1. k \in 1 .. called /\ Newest(k, called) /\ Accesses(k) = Accesses(called)
      BY <1>3
    <3>2. Last(Filling).addr = Script[k].addr
      BY <1>5, <3>1 DEF QueuesHoldCalls
    <3>3. nextId - 1 = Accesses(k)
      BY <1>2, <1>5, <3>1
    <3> QED
      BY <1>4, <3>2, <3>3
  <2>2. fences \subseteq fences'
    BY <1>4
  <2> QED
    BY <1>1, <1>5, <2>1, <2>2, BarriersStay
<1>7. QueuesHoldCalls'
  <2>1. (\A k \in 1 .. called : Newest(k, called) => Last(Filling).addr = Script[k].addr)'
    <3>1. \A k \in 1 .. called + 1 : Newest(k, called + 1) =>
            Last(Filling').addr = Script[k].addr
      BY <1>3, <1>4, <1>5 DEF QueuesHoldCalls
    <3> QED
      BY <3>1 DEF Newest
  <2>2. (Len(transactionQueue) + Len(pendingTransactions) = Accesses(called))'
    BY <1>2, <1>4, <1>5 DEF QueuesHoldCalls, Accesses, AccessesIn
  <2>3. (Len(transactionQueue) <= TRANS_QUEUE_DEPTH)'
    BY <1>4, <1>5 DEF QueuesHoldCalls
  <2> QED
    BY <2>1, <2>2, <2>3 DEF QueuesHoldCalls
<1>8. nextId' = (Accesses(called) + 1)'
  <2>1. (Accesses(called))' = Accesses(called + 1)
    BY DEF Accesses, AccessesIn
  <2> QED
    BY <1>2, <1>4, <1>5, <2>1
<1> QED
  BY <1>6, <1>7, <1>8 DEF CallsInv

(* ... and it finds nothing to tag only if there is nothing before it, or  *)
(* if the newest access was the last that the controller had room for.     *)
LEMMA CallsUntagged ==
  ASSUME ScriptInv, CallsInv, QueuesTyped, called < Len(Script), called' = called + 1,
         Script[called + 1] = Barrier, NothingToTag, UNCHANGED vars
  PROVE  CallsInv'
<1>1. called \in Nat /\ Len(Script) \in Nat
  BY ScriptLength DEF ScriptInv
<1>2. Accesses(called) \in Nat /\ Accesses(called + 1) = Accesses(called)
  <2>1. /\ Accesses(called) \in Nat
        /\ Accesses(called + 1) =
             Accesses(called) + (IF Script[called + 1] = Barrier THEN 0 ELSE 1)
    BY <1>1, AccessesGrow
  <2>2. Accesses(called + 1) = Accesses(called) + 0
    BY <2>1, Zenon
  <2> QED
    BY <2>1, <2>2
<1>3. \A k \in 1 .. called + 1 : Newest(k, called + 1) =>
        /\ k \in 1 .. called /\ Newest(k, called)
        /\ Accesses(k) = Accesses(called) /\ Accesses(called) >= 1
  <2>1. \A k \in 1 .. called + 1 : Newest(k, called + 1) =>
          k \in 1 .. called /\ Newest(k, called)
    BY <1>1 DEF Newest
  <2> QED
    BY <1>1, <2>1, AccessesGrow
<1>4. QueuesHoldCalls /\ nextId = Accesses(called) + 1 /\ BarriersKept
  BY DEF CallsInv
<1>5. /\ transactionQueue' = transactionQueue /\ pendingTransactions' = pendingTransactions
      /\ nextId' = nextId /\ fences' = fences
  BY DEF vars, controllerVars, clientVars
<1>6. Accesses(called) = 0 \/ Accesses(called) = TRANS_QUEUE_DEPTH
  <2>1. /\ Len(transactionQueue) \in Nat
        /\ Len(transactionQueue) <= TRANS_QUEUE_DEPTH
        /\ Len(transactionQueue) + Len(pendingTransactions) = Accesses(called)
    BY <1>4, LenProperties DEF QueuesHoldCalls, QueuesTyped
  <2>2. CASE WillAcceptTransaction
    <3>1. transactionQueue = << >> /\ pendingTransactions = << >>
      BY <2>2 DEF NothingToTag, ScriptInv
    <3> QED
      BY <2>1, <3>1, EmptySeq
  <2>3. CASE ~WillAcceptTransaction
    <3>1. Len(pendingTransactions) = 0
      BY <2>3, EmptySeq DEF NothingToTag
    <3> QED
      BY <2>1, <2>3, <3>1, ControllerAssumption DEF WillAcceptTransaction
  <2> QED
    BY <2>2, <2>3
<1>7. BarriersKept'
  <2>1. \A k \in 1 .. called + 1 :
          ~(Newest(k, called + 1) /\ Accesses(k) # TRANS_QUEUE_DEPTH)
    BY <1>3, <1>6
  <2> QED
    BY <1>1, <1>4, <1>5, <2>1, BarriersStay
<1>8. QueuesHoldCalls'
  <2>1. (\A k \in 1 .. called : Newest(k, called) => Last(Filling).addr = Script[k].addr)'
    <3>1. \A k \in 1 .. called + 1 : Newest(k, called + 1) => Last(Filling).addr = Script[k].addr
      BY <1>3, <1>4 DEF QueuesHoldCalls
    <3> QED
      BY <1>5, <3>1 DEF Newest, Filling
  <2>2. (Len(transactionQueue) + Len(pendingTransactions) = Accesses(called))'
    BY <1>2, <1>4, <1>5 DEF QueuesHoldCalls, Accesses, AccessesIn
  <2> QED
    BY <1>4, <1>5, <2>1, <2>2 DEF QueuesHoldCalls
<1>9. nextId' = (Accesses(called) + 1)'
  <2>1. (Accesses(called))' = Accesses(called + 1)
    BY DEF Accesses, AccessesIn
  <2> QED
    BY <1>2, <1>4, <1>5, <2>1
<1> QED
  BY <1>7, <1>8, <1>9 DEF CallsInv

(* While the channel runs there is either nothing yet or nothing to come.  *)
LEMMA CallsRun ==
  ASSUME ScriptInv, CallsInv, QueuesTyped, Run
  PROVE  CallsInv'
<1>1. called \in Nat /\ Len(Script) \in Nat
  BY ScriptLength DEF ScriptInv
<1>2. called' = called /\ called \in {0, Len(Script)}
  BY DEF Run
<1>3. nextId' = nextId /\ fences' = fences
  BY DEF Run, UpdateStep, BeginUpdate, AcceptPending, Bus, RefreshTimers, Command, Dispatch,
         EndUpdate, clientVars
<1>4. ASSUME called < Len(Script) PROVE QueuesHoldCalls'
  <2>1. called = 0 /\ Accesses(0) = 0 /\ QueuesHoldCalls /\ pendingTransactions = << >>
    BY <1>2, <1>4, AccessesGrow DEF CallsInv, ScriptInv
  <2>2. transactionQueue = << >>
    <3>1. Len(transactionQueue) \in Nat /\ Len(pendingTransactions) = 0
      BY <2>1, LenProperties, EmptySeq DEF QueuesTyped
    <3>2. Len(transactionQueue) = 0
      BY <2>1, <3>1 DEF QueuesHoldCalls
    <3> QED
      BY <3>2, EmptySeq DEF QueuesTyped
  <2>3. pendingTransactions' = << >> /\ transactionQueue' = << >>
    <3>1. Dispatchable = {}
      BY <2>2, EmptySeq DEF Dispatchable
    <3>2. UpdateStep
      BY DEF Run
    <3>3. CASE Dispatch
      BY <2>1, <2>2, <3>1, <3>3 DEF Dispatch, UpdateTransactionQueue
    <3>4. CASE AcceptPending
      BY <2>1, <2>2, <3>4 DEF AcceptPending
    <3>5. CASE BeginUpdate
      BY <2>1, <2>2, <3>5 DEF BeginUpdate
    <3>6. CASE Bus
      BY <2>1, <2>2, <3>6 DEF Bus, DriveBuses
    <3>7. CASE RefreshTimers
      BY <2>1, <2>2, <3>7 DEF RefreshTimers, UpdateRefresh
    <3>8. CASE Command
      BY <2>1, <2>2, <3>8 DEF Command, SendCommand
    <3>9. CASE EndUpdate
      BY <2>1, <2>2, <3>9 DEF EndUpdate, TickController
    <3> QED
      BY <3>2, <3>3, <3>4, <3>5, <3>6, <3>7, <3>8, <3>9 DEF UpdateStep
  <2>4. QueuesHoldCalls'
    BY <1>2, <2>1, <2>3, EmptySeq, ControllerAssumption
       DEF QueuesHoldCalls, Accesses, AccessesIn
  <2> QED
    BY <2>4
<1>5. BarriersKept'
  BY <1>2, <1>3 DEF CallsInv, BarriersKept, Newest, Accesses, AccessesIn
<1>6. nextId' = (Accesses(called) + 1)'
  BY <1>2, <1>3 DEF CallsInv, Accesses, AccessesIn
<1>7. called' < Len(Script) => QueuesHoldCalls'
  BY <1>2, <1>4
<1> QED
  BY <1>5, <1>6, <1>7 DEF CallsInv

LEMMA CallsNext ==
  QueuesTyped /\ ScriptInv /\ CallsInv /\ [SystemNext]_systemVars => CallsInv'
<1> SUFFICES ASSUME QueuesTyped, ScriptInv, CallsInv, [SystemNext]_systemVars
             PROVE  CallsInv'
  OBVIOUS
<1>1. CASE MakeCall
  <2> DEFINE e == Script[called + 1]
  <2>1. called < Len(Script) /\ called' = called + 1
    BY <1>1 DEF MakeCall
  <2>2. called + 1 \in 1 .. Len(Script)
    BY <2>1, ScriptLength DEF ScriptInv
  <2>3. e \in ToSet(Script)
    BY <2>2, ScriptAssumption, ToSetMember
  <2>4. e # Barrier => e.type \in {"DATA_READ", "DATA_WRITE"} /\ e.addr \in Addresses
    BY <2>3, ScriptAssumption
  <2>5. \/ e # Barrier /\ AddTransaction(e.type, e.addr)
        \/ e = Barrier /\ AddBarrier
        \/ e = Barrier /\ NothingToTag /\ UNCHANGED vars
    BY <1>1 DEF MakeCall
  <2>6. CASE e # Barrier /\ AddTransaction(e.type, e.addr)
    BY <2>1, <2>4, <2>6, CallsAdd
  <2>7. CASE e = Barrier /\ AddBarrier
    BY <2>1, <2>7, CallsFence
  <2>8. CASE e = Barrier /\ NothingToTag /\ UNCHANGED vars
    BY <2>1, <2>8, CallsUntagged
  <2> QED
    BY <2>5, <2>6, <2>7, <2>8
<1>2. CASE Run
  BY <1>2, CallsRun
<1>3. CASE UNCHANGED systemVars
  <2>1. /\ called' = called /\ nextId' = nextId /\ fences' = fences
        /\ transactionQueue' = transactionQueue
        /\ pendingTransactions' = pendingTransactions
    BY <1>3 DEF systemVars, vars, controllerVars, clientVars
  <2> QED
    BY <2>1 DEF CallsInv, QueuesHoldCalls, Filling, BarriersKept, Newest, Accesses, AccessesIn
<1> QED
  BY <1>1, <1>2, <1>3 DEF SystemNext

(* The n-th call of addTransaction makes transaction n, and no barrier of  *)
(* a kernel is lost unless exactly TRANS_QUEUE_DEPTH accesses were added   *)
(* before it (MemorySystem::addBarrier).                                   *)
THEOREM KernelBarriersKept == SystemSpec => [](CallsInv /\ BarriersKept)
<1>1. SystemInit => CallsInv
  BY CallsInit
<1>2. QueuesTyped /\ ScriptInv /\ CallsInv /\ [SystemNext]_systemVars => CallsInv'
  BY CallsNext
<1>3. ChannelTyped => QueuesTyped
  BY DEF ChannelTyped
<1>4. CallsInv => BarriersKept
  BY DEF CallsInv
<1> QED
  BY <1>1, <1>2, <1>3, <1>4, KernelIsClient, ReadsSpacedAlways, PTL DEF SystemSpec

(* Access u stands before the barrier of call i, whose rank it shares with *)
(* t, and that barrier was not lost.                                       *)
FencedOff(i, k, t, u) ==
  /\ Script[i] = Barrier /\ Newest(k, i) /\ Accesses(k) # TRANS_QUEUE_DEPTH
  /\ t.addr.rank = Script[k].addr.rank /\ u.addr.rank = Script[k].addr.rank
  /\ u.id <= Accesses(k)

StageOrder ==
  \A t \in Flow!Issued : \A u \in Flow!Waiting :
    \A i \in 1 .. Len(Script) : \A k \in 1 .. i :
      FencedOff(i, k, t, u) => t.id <= Accesses(k)

(* A barrier that has been called has its fence, and one that has not been *)
(* called has all accesses so far before it.                               *)
LEMMA StageStep ==
  ASSUME CallsInv, ScriptInv,
         \A t \in FlowProofs!Waiting : t.id < nextId /\ t.id \in Int,
         \A t \in FlowProofs!Issued : \A u \in FlowProofs!Waiting : \A f \in fences :
           (t.addr.rank = f.rank /\ u.addr.rank = f.rank /\ u.id <= f.id)
             => t.id <= f.id
  PROVE  StageOrder
<1> SUFFICES ASSUME NEW t \in FlowProofs!Issued, NEW u \in FlowProofs!Waiting,
                    NEW i \in 1 .. Len(Script), NEW k \in 1 .. i, FencedOff(i, k, t, u)
             PROVE  t.id <= Accesses(k)
  BY SamePlaces, SameIssued DEF StageOrder
<1>1. called \in Nat /\ Len(Script) \in Nat /\ i \in Nat /\ k \in 1 .. i
  BY ScriptLength DEF ScriptInv
<1>2. t.id < nextId /\ t.id \in Int /\ nextId = Accesses(called) + 1
  BY DEF FlowProofs!Issued, CallsInv
<1>3. CASE i \in 1 .. called
  <2>1. [id |-> Accesses(k), rank |-> Script[k].addr.rank] \in fences
    BY <1>3 DEF CallsInv, BarriersKept, FencedOff
  <2> DEFINE f == [id |-> Accesses(k), rank |-> Script[k].addr.rank]
  <2>2. f.id = Accesses(k) /\ f.rank = Script[k].addr.rank
    OBVIOUS
  <2>3. t.addr.rank = f.rank /\ u.addr.rank = f.rank /\ u.id <= f.id
    BY <2>2 DEF FencedOff
  <2> HIDE DEF f
  <2>4. t.id <= f.id
    BY <2>1, <2>3 DEF f
  <2> QED
    BY <2>2, <2>4
<1>4. CASE called < i
  <2>1. Accesses(k) = Accesses(i)
    BY <1>1, AccessesGrow DEF FencedOff
  <2>2. Accesses(called) <= Accesses(i)
    <3>1. \A m \in 0 .. i : Accesses(m) <= Accesses(i)
      BY <1>1, AccessesGrow, Zenon
    <3>2. called \in 0 .. i
      BY <1>1, <1>4
    <3> QED
      BY <3>1, <3>2, Zenon
  <2>3. Accesses(i) \in Nat /\ Accesses(called) \in Nat
    BY <1>1, AccessesGrow, Zenon
  <2> QED
    BY <1>2, <2>1, <2>2, <2>3
<1> QED
  BY <1>1, <1>3, <1>4

(* The accesses of a kernel reach the DRAM stage by stage: on the rank of  *)
(* the access it tags, each barrier of the script that is not lost as      *)
(* above keeps what was added behind it from being issued while anything   *)
(* before it waits.  This is what PIMProgram takes for granted.            *)
THEOREM KernelStagesInOrder ==
  ASSUME tRCDWR - AL + 1 >= BurstCycles
  PROVE  SystemSpec => [][StageOrder]_(Flow!flowVars)
<1>1. CallsInv /\ ScriptInv /\ FlowProofs!OrderInv
        /\ [\A t \in FlowProofs!Issued : \A u \in FlowProofs!Waiting : \A f \in fences :
              (t.addr.rank = f.rank /\ u.addr.rank = f.rank /\ u.id <= f.id)
                => t.id <= f.id]_(FlowProofs!flowVars)
      => [StageOrder]_(Flow!flowVars)
  <2>1. FlowProofs!OrderInv =>
          \A t \in FlowProofs!Waiting : t.id < nextId /\ t.id \in Int
    <3>1. FlowProofs!OrderInv => FlowProofs!FlowInv
      BY DEF FlowProofs!OrderInv
    <3>2. FlowProofs!FlowInv => FlowProofs!Waiting \subseteq FlowProofs!Transactions
                               /\ \A t \in FlowProofs!Waiting : t.id < nextId
      BY FlowAssumptions, FlowProofs!Placed
    <3>3. \A t \in FlowProofs!Transactions : t.id \in Int
      BY DEF FlowProofs!Transactions
    <3> QED
      BY <3>1, <3>2, <3>3
  <2>2. Flow!flowVars = FlowProofs!flowVars
    BY DEF Flow!flowVars, FlowProofs!flowVars
  <2>3. (Flow!flowVars)' = (FlowProofs!flowVars)'
    BY DEF Flow!flowVars, FlowProofs!flowVars
  <2> QED
    BY <2>1, <2>2, <2>3, StageStep
<1>2. SystemSpec => FlowProofs!FlowSpec /\ []FlowProofs!OrderInv
  BY KernelInOrder
<1>3. FlowProofs!FlowSpec /\ []FlowProofs!OrderInv => FlowProofs!BarrierOrder
  BY FlowAssumptions, FlowProofs!BarrierFromOrder, PTL
<1>4. SystemSpec => []ScriptInv
  BY KernelIsClient, PTL
<1>5. SystemSpec => []CallsInv
  BY KernelBarriersKept, PTL
<1> QED
  BY <1>1, <1>2, <1>3, <1>4, <1>5, PTL DEF FlowProofs!BarrierOrder

=============================================================================

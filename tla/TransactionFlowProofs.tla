------------------------ MODULE TransactionFlowProofs ------------------------
(***************************************************************************)
(* The path of a transaction. First what is where and how it is counted:   *)
(* FlowInv. Then the order of the accesses, for every driver that does not *)
(* add past what still waits in front of the controller: OrderInv is       *)
(* inductive, and every step of the scheduler from a state of OrderInv     *)
(* respects SameAddressOrder and BarrierOrder.                             *)
(***************************************************************************)
EXTENDS TransactionFlow, CommonLemmas, FiniteSetTheorems

-----------------------------------------------------------------------------
(* What each queue operation does to the ids in the queue.                 *)

(* The ids of a queue, by position.                                        *)
LEMMA SeqIdsMember ==
  ASSUME NEW q \in Seq(Transactions)
  PROVE  \A k : k \in SeqIds(q) <=> \E i \in 1 .. Len(q) : q[i].id = k
<1>1. ToSet(q) = {q[i] : i \in 1 .. Len(q)}
  BY LenProperties DEF ToSet
<1> QED
  BY <1>1 DEF SeqIds, Ids

(* A queue of transactions holds ids the client gave out.                  *)
LEMMA SeqIdsType ==
  ASSUME NEW q \in Seq(Transactions)
  PROVE  SeqIds(q) \subseteq 1 .. MaxTransactions
<1>1. \A i \in 1 .. Len(q) : q[i] \in Transactions
  BY ElementOfSeq
<1>2. \A t \in Transactions : t.id \in 1 .. MaxTransactions
  BY DEF Transactions
<1> QED
  BY <1>1, <1>2, SeqIdsMember

(* A queue of length 0 has no ids.                                         *)
LEMMA NoEntryIds ==
  ASSUME NEW q \in Seq(Transactions), Len(q) = 0
  PROVE  SeqIds(q) = {} /\ UniqueIds(q)
<1>1. \A k : k \in SeqIds(q) <=> \E i \in 1 .. Len(q) : q[i].id = k
  BY SeqIdsMember
<1>2. UniqueIds(q)
  BY DEF UniqueIds
<1> QED
  BY <1>1, <1>2

(* An empty queue has no ids.                                              *)
LEMMA EmptyIds ==
  ASSUME NEW q, q = << >>
  PROVE  SeqIds(q) = {} /\ UniqueIds(q)
<1>1. q \in Seq(Transactions) /\ Len(q) = 0
  BY EmptySeq
<1> QED
  BY <1>1, NoEntryIds

(* A queue without ids is empty.                                           *)
LEMMA NonEmptyIds ==
  ASSUME NEW q \in Seq(Transactions), SeqIds(q) = {}
  PROVE  q = << >>
<1> SUFFICES ASSUME q # << >> PROVE FALSE
  OBVIOUS
<1>1. Len(q) \in Nat \ {0}
  BY EmptySeq
<1>2. \E i \in 1 .. Len(q) : q[i].id = q[1].id
  BY <1>1
<1>3. \A k : k \in SeqIds(q) <=> \E i \in 1 .. Len(q) : q[i].id = k
  BY SeqIdsMember
<1> QED
  BY <1>2, <1>3

(* Appending adds one id (addTransaction, enqueue).                        *)
LEMMA AppendIds ==
  ASSUME NEW q \in Seq(Transactions), NEW t \in Transactions
  PROVE  /\ Append(q, t) \in Seq(Transactions)
         /\ Len(Append(q, t)) = Len(q) + 1
         /\ SeqIds(Append(q, t)) = SeqIds(q) \cup {t.id}
         /\ UniqueIds(q) /\ t.id \notin SeqIds(q) => UniqueIds(Append(q, t))
<1> DEFINE a == Append(q, t)
<1>1. /\ a \in Seq(Transactions)
      /\ Len(a) = Len(q) + 1
      /\ \A i \in 1 .. Len(q) : a[i] = q[i]
      /\ a[Len(q) + 1] = t
  BY AppendProperties
<1>2. Len(q) \in Nat
  BY LenProperties
<1> HIDE DEF a
<1>3. \A k : k \in SeqIds(a) <=> \E i \in 1 .. Len(a) : a[i].id = k
  BY <1>1, SeqIdsMember
<1>4. \A k : k \in SeqIds(q) <=> \E i \in 1 .. Len(q) : q[i].id = k
  BY SeqIdsMember
<1>5. SeqIds(a) = SeqIds(q) \cup {t.id}
  <2>1. \A i \in 1 .. Len(q) + 1 : i \in 1 .. Len(q) \/ i = Len(q) + 1
    BY <1>2
  <2>2. 1 .. Len(q) \subseteq 1 .. Len(q) + 1 /\ Len(q) + 1 \in 1 .. Len(q) + 1
    BY <1>2
  <2> QED
    BY <1>1, <1>3, <1>4, <2>1, <2>2
<1>6. UniqueIds(q) /\ t.id \notin SeqIds(q) => UniqueIds(a)
  <2> SUFFICES ASSUME UniqueIds(q), t.id \notin SeqIds(q),
                      NEW i \in 1 .. Len(a), NEW j \in 1 .. Len(a),
                      a[i].id = a[j].id
               PROVE  i = j
    BY DEF UniqueIds
  <2>1. /\ i \in 1 .. Len(q) \/ i = Len(q) + 1
        /\ j \in 1 .. Len(q) \/ j = Len(q) + 1
    BY <1>1, <1>2
  <2> QED
    BY <1>1, <1>4, <2>1 DEF UniqueIds
<1> QED
  BY <1>1, <1>5, <1>6 DEF a

(* Erasing an entry takes its id away (process_command, dispatch).         *)
LEMMA RemoveAtIds ==
  ASSUME NEW q \in Seq(Transactions), NEW i \in 1 .. Len(q), UniqueIds(q)
  PROVE  /\ RemoveAt(q, i) \in Seq(Transactions)
         /\ Len(RemoveAt(q, i)) = Len(q) - 1
         /\ SeqIds(RemoveAt(q, i)) = SeqIds(q) \ {q[i].id}
         /\ UniqueIds(RemoveAt(q, i))
<1> DEFINE a == RemoveAt(q, i)
           old == [j \in 1 .. Len(q) - 1 |-> IF j < i THEN j ELSE j + 1]
<1>1. /\ a \in Seq(Transactions)
      /\ Len(a) = Len(q) - 1
      /\ \A j \in 1 .. Len(q) - 1 : a[j] = q[old[j]]
  BY RemoveAtProperties
<1>2. Len(q) \in Nat /\ i \in Nat /\ i >= 1 /\ i <= Len(q)
  BY LenProperties
<1>3. /\ \A j \in 1 .. Len(q) - 1 : old[j] \in 1 .. Len(q) /\ old[j] # i
      /\ \A j, k \in 1 .. Len(q) - 1 : old[j] = old[k] => j = k
      /\ \A k \in 1 .. Len(q) : k # i => \E j \in 1 .. Len(q) - 1 : old[j] = k
  <2>1. \A k \in 1 .. Len(q) : k < i => k \in 1 .. Len(q) - 1 /\ old[k] = k
    BY <1>2
  <2>2. \A k \in 1 .. Len(q) :
          k > i => k - 1 \in 1 .. Len(q) - 1 /\ old[k - 1] = k
    BY <1>2
  <2>3. ASSUME NEW k \in 1 .. Len(q), k # i
        PROVE  \E j \in 1 .. Len(q) - 1 : old[j] = k
    <3>1. k < i \/ k > i
      BY <1>2, <2>3
    <3> HIDE DEF old
    <3> QED
      BY <2>1, <2>2, <3>1
  <2> QED
    BY <1>2, <2>3
<1> HIDE DEF a, old
<1>4. \A k : k \in SeqIds(a) <=> \E j \in 1 .. Len(a) : a[j].id = k
  BY <1>1, SeqIdsMember
<1>5. \A k : k \in SeqIds(q) <=> \E j \in 1 .. Len(q) : q[j].id = k
  BY SeqIdsMember
<1>6. SeqIds(a) = SeqIds(q) \ {q[i].id}
  <2> SUFFICES ASSUME NEW k
               PROVE  k \in SeqIds(a) <=> k \in SeqIds(q) /\ k # q[i].id
    OBVIOUS
  <2>1. ASSUME NEW j \in 1 .. Len(a), a[j].id = k
        PROVE  k \in SeqIds(q) /\ k # q[i].id
    <3>1. old[j] \in 1 .. Len(q) /\ old[j] # i /\ a[j] = q[old[j]]
      BY <1>1, <1>3
    <3> QED
      BY <1>5, <2>1, <3>1 DEF UniqueIds
  <2>2. ASSUME NEW m \in 1 .. Len(q), q[m].id = k, k # q[i].id
        PROVE  k \in SeqIds(a)
    <3>1. PICK j \in 1 .. Len(q) - 1 : old[j] = m
      BY <1>3, <2>2
    <3> QED
      BY <1>1, <1>4, <2>2, <3>1
  <2> QED
    BY <1>4, <1>5, <2>1, <2>2
<1>7. UniqueIds(a)
  <2> SUFFICES ASSUME NEW j \in 1 .. Len(a), NEW k \in 1 .. Len(a),
                      a[j].id = a[k].id
               PROVE  j = k
    BY DEF UniqueIds
  <2>0. /\ old[j] \in 1 .. Len(q) /\ a[j] = q[old[j]]
        /\ old[k] \in 1 .. Len(q) /\ a[k] = q[old[k]]
    BY <1>1, <1>3
  <2>1. old[j] = old[k]
    BY <2>0 DEF UniqueIds
  <2> QED
    BY <1>1, <1>3, <2>1
<1> QED
  BY <1>1, <1>6, <1>7 DEF a

(* Popping the front takes its id away (pop_front of the overflow).        *)
LEMMA TailIds ==
  ASSUME NEW q \in Seq(Transactions), q # << >>, UniqueIds(q)
  PROVE  /\ Head(q) \in Transactions
         /\ Head(q).id \in SeqIds(q)
         /\ Tail(q) \in Seq(Transactions)
         /\ SeqIds(Tail(q)) = SeqIds(q) \ {Head(q).id}
         /\ UniqueIds(Tail(q))
<1> DEFINE a == Tail(q)
<1>1. /\ Head(q) \in Transactions
      /\ a \in Seq(Transactions)
      /\ Len(a) = Len(q) - 1
      /\ \A i \in 1 .. Len(a) : a[i] = q[i + 1]
  BY HeadTailProperties
<1>2. Len(q) \in Nat /\ Len(q) >= 1
  BY EmptySeq
<1>3. Head(q) = q[1]
  BY <1>2
<1> HIDE DEF a
<1>4. \A k : k \in SeqIds(a) <=> \E j \in 1 .. Len(a) : a[j].id = k
  BY <1>1, SeqIdsMember
<1>5. \A k : k \in SeqIds(q) <=> \E j \in 1 .. Len(q) : q[j].id = k
  BY SeqIdsMember
<1>6. /\ 1 \in 1 .. Len(q)
      /\ \A i \in 1 .. Len(a) : i + 1 \in 1 .. Len(q) /\ i + 1 # 1
      /\ \A i \in 1 .. Len(q) : i # 1 => i - 1 \in 1 .. Len(a) /\ (i - 1) + 1 = i
  BY <1>1, <1>2
<1>7. SeqIds(a) = SeqIds(q) \ {q[1].id}
  <2> SUFFICES ASSUME NEW k
               PROVE  k \in SeqIds(a) <=> k \in SeqIds(q) /\ k # q[1].id
    OBVIOUS
  <2>1. ASSUME NEW j \in 1 .. Len(a), a[j].id = k
        PROVE  k \in SeqIds(q) /\ k # q[1].id
    BY <1>1, <1>5, <1>6, <2>1 DEF UniqueIds
  <2>2. ASSUME NEW m \in 1 .. Len(q), q[m].id = k, k # q[1].id
        PROVE  k \in SeqIds(a)
    <3>1. m - 1 \in 1 .. Len(a) /\ (m - 1) + 1 = m
      BY <1>6, <2>2
    <3>2. a[m - 1] = q[m]
      BY <1>1, <3>1
    <3> QED
      BY <1>4, <2>2, <3>1, <3>2
  <2> QED
    BY <1>4, <1>5, <2>1, <2>2
<1>8. UniqueIds(a)
  BY <1>1, <1>6 DEF UniqueIds
<1>9. q[1].id \in SeqIds(q)
  BY <1>5, <1>6
<1> QED
  BY <1>1, <1>3, <1>7, <1>8, <1>9 DEF a

(* Tagging an entry changes neither the length nor any id.                 *)
LEMMA TagLastIds ==
  ASSUME NEW q \in Seq(Transactions), q # << >>
  PROVE  /\ TagLast(q) \in Seq(Transactions)
         /\ Len(TagLast(q)) = Len(q)
         /\ SeqIds(TagLast(q)) = SeqIds(q)
         /\ UniqueIds(q) => UniqueIds(TagLast(q))
<1>1. Len(q) \in 1 .. Len(q) /\ Len(q) \in Nat
  BY EmptySeq, LenProperties
<1> DEFINE e == [q[Len(q)] EXCEPT !.bar = TRUE]
           a == TagLast(q)
<1>2. q[Len(q)] \in Transactions
  BY <1>1, ElementOfSeq
<1>3. e \in Transactions /\ e.id = q[Len(q)].id
  BY <1>2 DEF Transactions
<1>4. a = [q EXCEPT ![Len(q)] = e]
  BY DEF TagLast
<1> HIDE DEF e, a
<1>5. /\ a \in Seq(Transactions)
      /\ Len(a) = Len(q)
      /\ \A i \in 1 .. Len(q) : a[i].id = q[i].id
  BY <1>1, <1>3, <1>4, ExceptSeq
<1>6. SeqIds(a) = SeqIds(q)
  BY <1>5, SeqIdsMember, ZenonT(30)
<1>7. UniqueIds(q) => UniqueIds(a)
  BY <1>5 DEF UniqueIds
<1> QED
  BY <1>5, <1>6, <1>7 DEF a

-----------------------------------------------------------------------------
(* Counting.                                                               *)

HeldIds(tq, qs, F) == Ids(ToSet(tq) \cup F \cup QueuedIn(qs))

(* The ids the controller holds, stage by stage.                           *)
LEMMA HeldIdsMember ==
  ASSUME NEW tq, NEW qs, NEW F
  PROVE  \A k : k \in HeldIds(tq, qs, F) <=>
                  \/ k \in SeqIds(tq)
                  \/ k \in Ids(F)
                  \/ \E r \in Ranks : k \in SeqIds(qs[r])
BY DEF HeldIds, SeqIds, Ids, QueuedIn

(* They are finitely many.                                                 *)
LEMMA HeldIdsFinite ==
  ASSUME NEW tq \in Seq(Transactions), NEW qs \in [Ranks -> Seq(Transactions)],
         NEW F \in SUBSET Transactions
  PROVE  IsFiniteSet(HeldIds(tq, qs, F))
<1>1. Ids(F) \subseteq 1 .. MaxTransactions
  BY DEF Ids, Transactions
<1>2. \A r \in Ranks : SeqIds(qs[r]) \subseteq 1 .. MaxTransactions
  BY SeqIdsType
<1>3. HeldIds(tq, qs, F) \subseteq 1 .. MaxTransactions
  BY <1>1, <1>2, SeqIdsType, HeldIdsMember
<1>4. IsFiniteSet(1 .. MaxTransactions)
  BY FS_Interval, ClientAssumption
<1> QED
  BY <1>3, <1>4, FS_Subset

(* One id more.                                                            *)
LEMMA CountUp ==
  ASSUME NEW A, NEW B, NEW x, IsFiniteSet(A), x \notin A,
         \A k : k \in B <=> k \in A \/ k = x
  PROVE  Cardinality(B) = Cardinality(A) + 1
<1>1. B = A \cup {x}
  OBVIOUS
<1> QED
  BY <1>1, FS_AddElement

(* One id less.                                                            *)
LEMMA CountDown ==
  ASSUME NEW A, NEW B, NEW x, IsFiniteSet(A), x \in A,
         \A k : k \in B <=> k \in A /\ k # x
  PROVE  Cardinality(B) = Cardinality(A) - 1
<1>1. B = A \ {x}
  OBVIOUS
<1> QED
  BY <1>1, FS_RemoveElement

-----------------------------------------------------------------------------
(* Each step preserves FlowInv.                                            *)

(* The empty channel satisfies the invariant.                              *)
LEMMA FlowInitInv == FlowInit => FlowInv
<1> SUFFICES ASSUME FlowInit PROVE FlowInv
  OBVIOUS
<1>1. /\ pendingTransactions = << >>
      /\ transactionQueue = << >>
      /\ queues = [r \in Ranks |-> << >>]
      /\ inFlight = {}
      /\ numOnTheFlyTransactions = 0
      /\ nextId = 1 /\ fences = {} /\ running = FALSE /\ phase = "client"
  BY DEF FlowInit
<1>2. << >> \in Seq(Transactions) /\ Len(<< >>) = 0
  BY EmptySeq
<1>3. TypeOK
  <2>1. nextId \in 1 .. MaxTransactions + 1
    BY <1>1, ClientAssumption
  <2>2. queues \in [Ranks -> Seq(Transactions)]
    BY <1>1, <1>2
  <2>3. numOnTheFlyTransactions \in Int /\ phase \in Phases
    BY <1>1 DEF Phases
  <2>4. running \in BOOLEAN /\ inFlight \in SUBSET Transactions
        /\ fences \in SUBSET [id : 1 .. MaxTransactions, rank : Ranks]
    BY <1>1
  <2>5. pendingTransactions \in Seq(Transactions)
        /\ transactionQueue \in Seq(Transactions)
    BY <1>1, <1>2
  <2> QED
    BY <2>1, <2>2, <2>3, <2>4, <2>5 DEF TypeOK
<1>4. /\ SeqIds(pendingTransactions) = {} /\ UniqueIds(pendingTransactions)
      /\ SeqIds(transactionQueue) = {} /\ UniqueIds(transactionQueue)
      /\ \A r \in Ranks : SeqIds(queues[r]) = {} /\ UniqueIds(queues[r])
      /\ Ids(inFlight) = {}
  BY <1>1, EmptyIds DEF Ids
<1>5. OnePlace
  BY <1>1, <1>4 DEF OnePlace
<1>6. FreshId
  BY <1>4 DEF FreshId
<1>7. OverflowBacked
  BY <1>1, <1>2, QueueAssumption DEF OverflowBacked
<1>8. Accounting
  <2>1. HeldIds(transactionQueue, queues, inFlight) = {}
    BY <1>4, HeldIdsMember
  <2> QED
    BY <1>1, <2>1, FS_EmptySet DEF Accounting, HeldIds, Controlled
<1> QED
  BY <1>3, <1>5, <1>6, <1>7, <1>8 DEF FlowInv

(* AddTransaction gives out a fresh id and keeps the queue bound.          *)
LEMMA AddTransactionInv ==
  ASSUME FlowInv, NEW type \in {"DATA_READ", "DATA_WRITE"}, NEW addr \in Addresses,
         AddTransaction(type, addr)
  PROVE  FlowInv'
<1> DEFINE t == [id |-> nextId, type |-> type, addr |-> addr, bar |-> FALSE]
           T == SeqIds(transactionQueue)
           P == SeqIds(pendingTransactions)
           F == Ids(inFlight)
           Q == [r \in Ranks |-> SeqIds(queues[r])]
<1>1. /\ transactionQueue \in Seq(Transactions)
      /\ pendingTransactions \in Seq(Transactions)
      /\ queues \in [Ranks -> Seq(Transactions)]
      /\ inFlight \in SUBSET Transactions
      /\ nextId \in 1 .. MaxTransactions + 1
      /\ numOnTheFlyTransactions \in Int
  BY DEF FlowInv, TypeOK
<1>2. nextId \in 1 .. MaxTransactions /\ nextId' = nextId + 1
  BY <1>1, ClientAssumption DEF AddTransaction
<1>3. t \in Transactions /\ t.id = nextId
  BY <1>2 DEF Transactions
<1>4. UNCHANGED << queues, inFlight, fences, running, phase >> /\ phase = "client"
  BY DEF AddTransaction
<1>5. \/ /\ Len(transactionQueue) < TRANS_QUEUE_DEPTH
         /\ transactionQueue' = Append(transactionQueue, t)
         /\ numOnTheFlyTransactions' = numOnTheFlyTransactions + 1
         /\ pendingTransactions' = pendingTransactions
      \/ /\ ~(Len(transactionQueue) < TRANS_QUEUE_DEPTH)
         /\ pendingTransactions' = Append(pendingTransactions, t)
         /\ transactionQueue' = transactionQueue
         /\ numOnTheFlyTransactions' = numOnTheFlyTransactions
  BY DEF AddTransaction, Accept, WillAcceptTransaction
<1>6. Len(transactionQueue) \in Nat /\ Len(pendingTransactions) \in Nat
  BY <1>1, LenProperties
<1>7. OnePlace /\ FreshId /\ OverflowBacked /\ Accounting
  BY DEF FlowInv
<1>8. /\ nextId \notin T /\ nextId \notin P /\ nextId \notin F
      /\ \A r \in Ranks : nextId \notin SeqIds(queues[r])
  BY <1>2, <1>7 DEF FreshId
<1>9. 1 .. nextId - 1 \subseteq 1 .. nextId' - 1 /\ nextId \in 1 .. nextId' - 1
  BY <1>2
<1> HIDE DEF t
<1>10. CASE Len(transactionQueue) < TRANS_QUEUE_DEPTH
  <2>1. /\ transactionQueue' \in Seq(Transactions)
        /\ Len(transactionQueue') = Len(transactionQueue) + 1
        /\ SeqIds(transactionQueue') = T \cup {nextId}
        /\ UniqueIds(transactionQueue')
    BY <1>1, <1>3, <1>5, <1>7, <1>8, <1>10, AppendIds, ZenonT(30) DEF OnePlace
  <2>2. /\ pendingTransactions' = pendingTransactions
        /\ numOnTheFlyTransactions' = numOnTheFlyTransactions + 1
    BY <1>5, <1>10
  <2>3. TypeOK'
    BY <1>1, <1>2, <1>4, <2>1, <2>2, ClientAssumption DEF FlowInv, TypeOK
  <2>4. FreshId'
    BY <1>4, <1>7, <1>9, <2>1, <2>2 DEF FreshId
  <2>5. OnePlace'
    <3>1. /\ P \cap SeqIds(transactionQueue') = {}
          /\ SeqIds(transactionQueue') \cap F = {}
          /\ \A r \in Ranks : SeqIds(transactionQueue') \cap SeqIds(queues[r]) = {}
      BY <1>7, <1>8, <2>1 DEF OnePlace
    <3> QED
      BY <1>4, <1>7, <2>1, <2>2, <3>1 DEF OnePlace
  <2>6. OverflowBacked'
    BY <1>4, <1>6, <1>7, <1>10, <2>1, <2>2, QueueAssumption DEF OverflowBacked
  <2>7. Accounting'
    <3> DEFINE A == HeldIds(transactionQueue, queues, inFlight)
               B == HeldIds(transactionQueue', queues', inFlight')
    <3>1. IsFiniteSet(A)
      BY <1>1, HeldIdsFinite
    <3>2. \A k : k \in B <=> k \in A \/ k = nextId
      BY <1>4, <2>1, HeldIdsMember
    <3>3. nextId \notin A
      BY <1>8, HeldIdsMember
    <3>4. Cardinality(B) = Cardinality(A) + 1
      <4> HIDE DEF A, B
      <4> QED BY <3>1, <3>2, <3>3, CountUp
    <3> QED
      BY <1>7, <2>2, <3>4 DEF Accounting, HeldIds, Controlled
  <2> QED
    BY <2>3, <2>4, <2>5, <2>6, <2>7 DEF FlowInv
<1>11. CASE ~(Len(transactionQueue) < TRANS_QUEUE_DEPTH)
  <2>1. /\ pendingTransactions' \in Seq(Transactions)
        /\ SeqIds(pendingTransactions') = P \cup {nextId}
        /\ UniqueIds(pendingTransactions')
    BY <1>1, <1>3, <1>5, <1>7, <1>8, <1>11, AppendIds, ZenonT(30) DEF OnePlace
  <2>2. /\ transactionQueue' = transactionQueue
        /\ numOnTheFlyTransactions' = numOnTheFlyTransactions
    BY <1>5, <1>11
  <2>3. TypeOK'
    BY <1>1, <1>2, <1>4, <2>1, <2>2, ClientAssumption DEF FlowInv, TypeOK
  <2>4. FreshId'
    BY <1>4, <1>7, <1>9, <2>1, <2>2 DEF FreshId
  <2>5. OnePlace'
    BY <1>4, <1>7, <1>8, <2>1, <2>2, ZenonT(30) DEF OnePlace
  <2>6. OverflowBacked'
    BY <1>4, <1>6, <1>7, <1>11, <2>2, QueueAssumption DEF OverflowBacked
  <2>7. Accounting'
    BY <1>4, <1>7, <2>2 DEF Accounting, Controlled
  <2> QED
    BY <2>3, <2>4, <2>5, <2>6, <2>7 DEF FlowInv
<1> QED
  BY <1>10, <1>11

(* Only the tag of an entry changes; the fence names a transaction that    *)
(* has been added.                                                         *)
LEMMA AddBarrierInv ==
  ASSUME FlowInv, AddBarrier
  PROVE  FlowInv'
<1>1. /\ transactionQueue \in Seq(Transactions)
      /\ pendingTransactions \in Seq(Transactions)
      /\ queues \in [Ranks -> Seq(Transactions)]
      /\ inFlight \in SUBSET Transactions
      /\ nextId \in 1 .. MaxTransactions + 1
      /\ fences \in SUBSET [id : 1 .. MaxTransactions, rank : Ranks]
  BY DEF FlowInv, TypeOK
<1>2. OnePlace /\ FreshId /\ OverflowBacked /\ Accounting
  BY DEF FlowInv
<1>3. /\ queues' = queues /\ inFlight' = inFlight /\ nextId' = nextId
      /\ numOnTheFlyTransactions' = numOnTheFlyTransactions
      /\ running' = running /\ phase' = phase
  BY DEF AddBarrier
<1>4. PICK q \in {transactionQueue, pendingTransactions} :
        /\ q = BarrierTarget
        /\ q # << >>
  BY DEF AddBarrier, BarrierTarget
<1>5. q \in Seq(Transactions)
  BY <1>1, <1>4
<1>6. \/ /\ transactionQueue # << >>
         /\ transactionQueue' = TagLast(transactionQueue)
         /\ pendingTransactions' = pendingTransactions
      \/ /\ pendingTransactions # << >>
         /\ pendingTransactions' = TagLast(pendingTransactions)
         /\ transactionQueue' = transactionQueue
  BY DEF AddBarrier, BarrierTarget
<1>7. /\ transactionQueue' \in Seq(Transactions)
      /\ Len(transactionQueue') = Len(transactionQueue)
      /\ SeqIds(transactionQueue') = SeqIds(transactionQueue)
      /\ UniqueIds(transactionQueue')
      /\ pendingTransactions' \in Seq(Transactions)
      /\ SeqIds(pendingTransactions') = SeqIds(pendingTransactions)
      /\ UniqueIds(pendingTransactions')
      /\ pendingTransactions' # << >> => pendingTransactions # << >>
  BY <1>1, <1>2, <1>6, TagLastIds DEF OnePlace
<1>8. TypeOK'
  <2>1. nextId - 1 \in 1 .. MaxTransactions
    <3>1. SeqIds(q) # {}
      BY <1>4, <1>5, NonEmptyIds
    <3>2. SeqIds(q) \subseteq 1 .. nextId - 1
      BY <1>2, <1>4 DEF FreshId
    <3> QED
      BY <1>1, <3>1, <3>2, ClientAssumption
  <2>2. Last(BarrierTarget).addr.rank \in Ranks
    <3>1. Len(q) \in 1 .. Len(q)
      BY <1>4, <1>5, EmptySeq
    <3>2. Last(BarrierTarget) \in Transactions
      BY <1>4, <1>5, <3>1, ElementOfSeq DEF Last
    <3> QED
      BY <3>2, ClientAssumption DEF Transactions
  <2>3. fences' \in SUBSET [id : 1 .. MaxTransactions, rank : Ranks]
    BY <1>1, <2>1, <2>2 DEF AddBarrier
  <2> QED
    BY <1>3, <1>7, <2>3 DEF FlowInv, TypeOK
<1>9. OnePlace' /\ FreshId'
  BY <1>2, <1>3, <1>7 DEF OnePlace, FreshId
<1>10. OverflowBacked'
  BY <1>2, <1>3, <1>7 DEF OverflowBacked
<1>11. Accounting'
  <2>1. HeldIds(transactionQueue', queues', inFlight')
          = HeldIds(transactionQueue, queues, inFlight)
    <3> DEFINE A == HeldIds(transactionQueue, queues, inFlight)
               B == HeldIds(transactionQueue', queues', inFlight')
    <3>1. \A k : k \in B <=> k \in A
      BY <1>3, <1>7, HeldIdsMember
    <3> HIDE DEF A, B
    <3>2. A = B
      BY <3>1
    <3> QED
      BY <3>2 DEF A, B
  <2> QED
    BY <1>2, <1>3, <2>1 DEF Accounting, HeldIds, Controlled
<1> QED
  BY <1>8, <1>9, <1>10, <1>11 DEF FlowInv

(* Entering update(), leaving run(), or nothing at all.                    *)
LEMMA ClientIdleInv ==
  ASSUME FlowInv, BeginUpdate \/ RunReturns \/ UNCHANGED flowVars
  PROVE  FlowInv'
<1>1. UNCHANGED << pendingTransactions, transactionQueue, queues, inFlight,
                   numOnTheFlyTransactions, nextId, fences >>
  BY DEF BeginUpdate, RunReturns, flowVars
<1>2. \/ phase' = phase /\ running' \in {FALSE, running}
      \/ phase = "client" /\ phase' = "pending" /\ running' \in BOOLEAN
  BY DEF BeginUpdate, RunReturns, flowVars
<1>3. TypeOK'
  BY <1>1, <1>2 DEF FlowInv, TypeOK, Phases
<1>4. OnePlace' /\ FreshId' /\ Accounting'
  BY <1>1 DEF FlowInv, OnePlace, FreshId, Accounting, Controlled
<1>5. OverflowBacked'
  BY <1>1, <1>2 DEF FlowInv, OverflowBacked
<1> QED
  BY <1>3, <1>4, <1>5 DEF FlowInv

(* The head of the overflow moves into the controller and is counted.      *)
LEMMA AcceptPendingInv ==
  ASSUME FlowInv, AcceptPending
  PROVE  FlowInv'
<1> DEFINE h == Head(pendingTransactions)
           T == SeqIds(transactionQueue)
           P == SeqIds(pendingTransactions)
           F == Ids(inFlight)
<1>1. /\ transactionQueue \in Seq(Transactions)
      /\ pendingTransactions \in Seq(Transactions)
      /\ queues \in [Ranks -> Seq(Transactions)]
      /\ inFlight \in SUBSET Transactions
      /\ numOnTheFlyTransactions \in Int
      /\ Len(transactionQueue) \in Nat
  BY LenProperties DEF FlowInv, TypeOK
<1>2. OnePlace /\ FreshId /\ OverflowBacked /\ Accounting
  BY DEF FlowInv
<1>3. /\ queues' = queues /\ inFlight' = inFlight /\ nextId' = nextId
      /\ fences' = fences /\ running' = running
      /\ phase = "pending" /\ phase' = "write"
  BY DEF AcceptPending
<1>4. CASE ~(pendingTransactions # << >> /\ WillAcceptTransaction)
  <2>1. UNCHANGED << transactionQueue, pendingTransactions,
                     numOnTheFlyTransactions >>
    BY <1>4 DEF AcceptPending
  <2>2. TypeOK'
    BY <1>3, <2>1 DEF FlowInv, TypeOK, Phases
  <2>3. OnePlace' /\ FreshId' /\ Accounting'
    BY <1>2, <1>3, <2>1 DEF OnePlace, FreshId, Accounting, Controlled
  <2>4. OverflowBacked'
    BY <1>1, <1>2, <1>3, <1>4, <2>1, QueueAssumption
    DEF OverflowBacked, WillAcceptTransaction
  <2> QED
    BY <2>2, <2>3, <2>4 DEF FlowInv
<1>5. CASE pendingTransactions # << >> /\ WillAcceptTransaction
  <2>1. /\ transactionQueue' = Append(transactionQueue, h)
        /\ pendingTransactions' = Tail(pendingTransactions)
        /\ numOnTheFlyTransactions' = numOnTheFlyTransactions + 1
    BY <1>5 DEF AcceptPending, Accept
  <2>2. /\ h \in Transactions /\ h.id \in P
        /\ pendingTransactions' \in Seq(Transactions)
        /\ SeqIds(pendingTransactions') = P \ {h.id}
        /\ UniqueIds(pendingTransactions')
    BY <1>1, <1>2, <1>5, <2>1, TailIds DEF OnePlace
  <2>3. h.id \notin T
    BY <1>2, <2>2 DEF OnePlace
  <2> HIDE DEF h
  <2>4. /\ transactionQueue' \in Seq(Transactions)
        /\ Len(transactionQueue') = Len(transactionQueue) + 1
        /\ SeqIds(transactionQueue') = T \cup {h.id}
        /\ UniqueIds(transactionQueue')
    BY <1>1, <1>2, <2>1, <2>2, <2>3, AppendIds DEF OnePlace
  <2>5. TypeOK'
    BY <1>1, <1>3, <2>1, <2>2, <2>4 DEF FlowInv, TypeOK, Phases
  <2>6. FreshId'
    BY <1>2, <1>3, <2>2, <2>4 DEF FreshId
  <2>7. OnePlace'
    <3>1. /\ SeqIds(pendingTransactions') \cap SeqIds(transactionQueue') = {}
          /\ SeqIds(pendingTransactions') \cap F = {}
          /\ SeqIds(transactionQueue') \cap F = {}
      BY <1>2, <2>2, <2>4 DEF OnePlace
    <3>2. \A r \in Ranks :
            /\ SeqIds(pendingTransactions') \cap SeqIds(queues[r]) = {}
            /\ SeqIds(transactionQueue') \cap SeqIds(queues[r]) = {}
      BY <1>2, <2>2, <2>4 DEF OnePlace
    <3> QED
      BY <1>2, <1>3, <2>2, <2>4, <3>1, <3>2 DEF OnePlace
  <2>8. OverflowBacked'
    BY <1>1, <1>2, <1>3, <1>5, <2>4, QueueAssumption
    DEF OverflowBacked, WillAcceptTransaction
  <2>9. Accounting'
    <3> DEFINE A == HeldIds(transactionQueue, queues, inFlight)
               B == HeldIds(transactionQueue', queues', inFlight')
    <3>1. IsFiniteSet(A)
      BY <1>1, HeldIdsFinite
    <3>2. \A k : k \in B <=> k \in A \/ k = h.id
      BY <1>3, <2>4, HeldIdsMember
    <3>3. h.id \notin A
      BY <1>2, <2>2, HeldIdsMember DEF OnePlace
    <3>4. Cardinality(B) = Cardinality(A) + 1
      <4> HIDE DEF A, B
      <4> QED BY <3>1, <3>2, <3>3, CountUp
    <3> QED
      BY <1>2, <2>1, <3>4 DEF Accounting, HeldIds, Controlled
  <2> QED
    BY <2>5, <2>6, <2>7, <2>8, <2>9 DEF FlowInv
<1> QED
  BY <1>4, <1>5

(* A finished burst leaves the flight and is counted off.                  *)
LEMMA CompleteInv ==
  ASSUME FlowInv, CompleteWrite \/ CompleteRead
  PROVE  FlowInv'
<1> DEFINE F == Ids(inFlight)
<1>1. /\ transactionQueue \in Seq(Transactions)
      /\ queues \in [Ranks -> Seq(Transactions)]
      /\ inFlight \in SUBSET Transactions
      /\ numOnTheFlyTransactions \in Int
  BY DEF FlowInv, TypeOK
<1>2. OnePlace /\ FreshId /\ OverflowBacked /\ Accounting
  BY DEF FlowInv
<1>3. /\ pendingTransactions' = pendingTransactions
      /\ transactionQueue' = transactionQueue /\ queues' = queues
      /\ nextId' = nextId /\ fences' = fences /\ running' = running
      /\ \/ phase = "write" /\ phase' = "issue"
         \/ phase = "return" /\ phase' = "client"
  BY DEF CompleteWrite, CompleteRead, Complete
<1>4. OverflowBacked'
  BY <1>2, <1>3 DEF OverflowBacked
<1>5. CASE UNCHANGED << inFlight, numOnTheFlyTransactions >>
  <2>1. TypeOK'
    BY <1>3, <1>5 DEF FlowInv, TypeOK, Phases
  <2>2. OnePlace' /\ FreshId' /\ Accounting'
    BY <1>2, <1>3, <1>5 DEF OnePlace, FreshId, Accounting, Controlled
  <2> QED
    BY <1>4, <2>1, <2>2 DEF FlowInv
<1>6. ASSUME NEW t \in inFlight, inFlight' = inFlight \ {t},
             numOnTheFlyTransactions' = numOnTheFlyTransactions - 1
      PROVE  FlowInv'
  <2>1. inFlight' \in SUBSET Transactions /\ inFlight' \subseteq inFlight
    BY <1>1, <1>6
  <2>2. TypeOK'
    BY <1>1, <1>3, <1>6, <2>1 DEF FlowInv, TypeOK, Phases
  <2>3. Ids(inFlight') = F \ {t.id} /\ t.id \in F
    BY <1>2, <1>6 DEF OnePlace, Ids
  <2>4. OnePlace'
    BY <1>2, <1>3, <2>1, <2>3 DEF OnePlace
  <2>5. FreshId'
    BY <1>2, <1>3, <2>3 DEF FreshId
  <2>6. Accounting'
    <3> DEFINE A == HeldIds(transactionQueue, queues, inFlight)
               B == HeldIds(transactionQueue', queues', inFlight')
    <3>1. IsFiniteSet(A)
      BY <1>1, HeldIdsFinite
    <3>2. /\ t.id \notin SeqIds(transactionQueue)
          /\ \A r \in Ranks : t.id \notin SeqIds(queues[r])
      BY <1>2, <2>3 DEF OnePlace
    <3>3. \A k : k \in B <=> k \in A /\ k # t.id
      BY <1>3, <2>3, <3>2, HeldIdsMember
    <3>4. t.id \in A
      BY <2>3, HeldIdsMember
    <3>5. Cardinality(B) = Cardinality(A) - 1
      <4> HIDE DEF A, B
      <4> QED BY <3>1, <3>3, <3>4, CountDown
    <3> QED
      BY <1>2, <1>6, <3>5 DEF Accounting, HeldIds, Controlled
  <2> QED
    BY <1>4, <2>2, <2>4, <2>5, <2>6 DEF FlowInv
<1> QED
  BY <1>5, <1>6 DEF CompleteWrite, CompleteRead, Complete

(* An issued command moves from its queue to the flight.                   *)
LEMMA IssueInv ==
  ASSUME FlowInv, Issue
  PROVE  FlowInv'
<1> DEFINE F == Ids(inFlight)
<1>1. /\ transactionQueue \in Seq(Transactions)
      /\ queues \in [Ranks -> Seq(Transactions)]
      /\ inFlight \in SUBSET Transactions
  BY DEF FlowInv, TypeOK
<1>2. OnePlace /\ FreshId /\ OverflowBacked /\ Accounting
  BY DEF FlowInv
<1>3. /\ pendingTransactions' = pendingTransactions
      /\ transactionQueue' = transactionQueue
      /\ numOnTheFlyTransactions' = numOnTheFlyTransactions
      /\ nextId' = nextId /\ fences' = fences /\ running' = running
      /\ phase = "issue" /\ phase' = "dispatch"
  BY DEF Issue
<1>4. OverflowBacked'
  BY <1>2, <1>3 DEF OverflowBacked
<1>5. CASE UNCHANGED << queues, inFlight >>
  <2>1. TypeOK'
    BY <1>3, <1>5 DEF FlowInv, TypeOK, Phases
  <2>2. OnePlace' /\ FreshId' /\ Accounting'
    BY <1>2, <1>3, <1>5 DEF OnePlace, FreshId, Accounting, Controlled
  <2> QED
    BY <1>4, <2>1, <2>2 DEF FlowInv
<1>6. ASSUME NEW r \in Ranks, NEW i \in 1 .. Len(queues[r]),
             queues' = [queues EXCEPT ![r] = RemoveAt(queues[r], i)],
             inFlight' = inFlight \cup {queues[r][i]}
      PROVE  FlowInv'
  <2> DEFINE c == queues[r][i]
  <2>1. queues[r] \in Seq(Transactions) /\ UniqueIds(queues[r])
    BY <1>1, <1>2 DEF OnePlace
  <2>2. c \in Transactions /\ c.id \in SeqIds(queues[r])
    BY <1>6, <2>1, ElementOfSeq, SeqIdsMember
  <2>3. /\ RemoveAt(queues[r], i) \in Seq(Transactions)
        /\ SeqIds(RemoveAt(queues[r], i)) = SeqIds(queues[r]) \ {c.id}
        /\ UniqueIds(RemoveAt(queues[r], i))
    BY <1>6, <2>1, RemoveAtIds
  <2>4. /\ queues' \in [Ranks -> Seq(Transactions)]
        /\ queues'[r] = RemoveAt(queues[r], i)
        /\ \A s \in Ranks : s # r => queues'[s] = queues[s]
    BY <1>1, <1>6, <2>3
  <2>5. /\ \A s \in Ranks : UniqueIds(queues'[s])
        /\ SeqIds(queues'[r]) = SeqIds(queues[r]) \ {c.id}
        /\ \A s \in Ranks : SeqIds(queues'[s]) \subseteq SeqIds(queues[s])
    BY <1>2, <2>3, <2>4 DEF OnePlace
  <2>6. Ids(inFlight') = F \cup {c.id}
    BY <1>6 DEF Ids
  <2>7. inFlight' \in SUBSET Transactions
    BY <1>1, <1>6, <2>2
  <2>8. TypeOK'
    BY <1>3, <2>4, <2>7 DEF FlowInv, TypeOK, Phases
  <2>9. FreshId'
    BY <1>2, <1>3, <2>2, <2>5, <2>6 DEF FreshId
  <2>10. /\ c.id \notin SeqIds(pendingTransactions)
         /\ c.id \notin SeqIds(transactionQueue)
         /\ c.id \notin F
         /\ \A s \in Ranks : s # r => c.id \notin SeqIds(queues[s])
    BY <1>2, <2>2 DEF OnePlace
  <2>11. OnePlace'
    <3>1. \A t, u \in inFlight' : t.id = u.id => t = u
      BY <1>2, <1>6, <2>10 DEF OnePlace, Ids
    <3>2. \A s \in Ranks :
            /\ SeqIds(pendingTransactions) \cap SeqIds(queues'[s]) = {}
            /\ SeqIds(transactionQueue) \cap SeqIds(queues'[s]) = {}
      BY <1>2, <2>5 DEF OnePlace
    <3>3. \A s \in Ranks : SeqIds(queues'[s]) \cap Ids(inFlight') = {}
      <4>1. \A s \in Ranks : c.id \notin SeqIds(queues'[s])
        BY <2>4, <2>5, <2>10
      <4>2. \A s \in Ranks : SeqIds(queues[s]) \cap F = {}
        BY <1>2 DEF OnePlace
      <4> QED
        BY <2>5, <2>6, <4>1, <4>2
    <3>4. \A s, u \in Ranks :
            s # u => SeqIds(queues'[s]) \cap SeqIds(queues'[u]) = {}
      BY <1>2, <2>5 DEF OnePlace
    <3>5. /\ SeqIds(pendingTransactions) \cap Ids(inFlight') = {}
          /\ SeqIds(transactionQueue) \cap Ids(inFlight') = {}
      BY <1>2, <2>6, <2>10 DEF OnePlace
    <3> QED
      BY <1>2, <1>3, <2>5, <3>1, <3>2, <3>3, <3>4, <3>5 DEF OnePlace
  <2>12. Accounting'
    <3> DEFINE A == HeldIds(transactionQueue, queues, inFlight)
               B == HeldIds(transactionQueue', queues', inFlight')
    <3>1. \A k : k \in B <=> k \in A
      <4>1. \A k : (\E s \in Ranks : k \in SeqIds(queues[s])) <=>
                     (k = c.id \/ \E s \in Ranks : k \in SeqIds(queues'[s]))
        BY <2>2, <2>4, <2>5
      <4>2. transactionQueue' = transactionQueue
        BY <1>3
      <4> HIDE DEF c
      <4> QED
        BY <2>6, <4>1, <4>2, HeldIdsMember, SMTT(30)
    <3>2. A = B
      <4> HIDE DEF A, B
      <4> QED BY <3>1
    <3> QED
      BY <1>2, <1>3, <3>2 DEF Accounting, HeldIds, Controlled
  <2> QED
    BY <1>4, <2>8, <2>9, <2>11, <2>12 DEF FlowInv
<1> QED
  BY <1>5, <1>6 DEF Issue

(* A transaction becomes a command: it changes queues, and the command     *)
(* queue it enters is no longer empty.                                     *)
LEMMA DispatchInv ==
  ASSUME FlowInv, Dispatch
  PROVE  FlowInv'
<1> DEFINE F == Ids(inFlight)
           T == SeqIds(transactionQueue)
<1>1. /\ transactionQueue \in Seq(Transactions)
      /\ queues \in [Ranks -> Seq(Transactions)]
      /\ inFlight \in SUBSET Transactions
      /\ Len(transactionQueue) \in Nat
  BY LenProperties DEF FlowInv, TypeOK
<1>2. OnePlace /\ FreshId /\ OverflowBacked /\ Accounting
  BY DEF FlowInv
<1>3. /\ pendingTransactions' = pendingTransactions
      /\ inFlight' = inFlight
      /\ numOnTheFlyTransactions' = numOnTheFlyTransactions
      /\ nextId' = nextId /\ fences' = fences /\ running' = running
      /\ phase = "dispatch" /\ phase' = "return"
  BY DEF Dispatch
<1>4. CASE UNCHANGED << transactionQueue, queues >>
  <2>1. TypeOK'
    BY <1>3, <1>4 DEF FlowInv, TypeOK, Phases
  <2>2. OnePlace' /\ FreshId' /\ Accounting' /\ OverflowBacked'
    BY <1>2, <1>3, <1>4
    DEF OnePlace, FreshId, Accounting, Controlled, OverflowBacked
  <2> QED
    BY <2>1, <2>2 DEF FlowInv
<1>5. ASSUME NEW i \in 1 .. Len(transactionQueue),
             transactionQueue' = RemoveAt(transactionQueue, i),
             queues' = [queues EXCEPT ![transactionQueue[i].addr.rank] =
                          Append(@, transactionQueue[i])]
      PROVE  FlowInv'
  <2> DEFINE c == transactionQueue[i]
             r == c.addr.rank
  <2>1. c \in Transactions /\ c.id \in T
    BY <1>1, <1>5, ElementOfSeq, SeqIdsMember
  <2>2. r \in Ranks
    BY <2>1, ClientAssumption DEF Transactions
  <2>3. /\ transactionQueue' \in Seq(Transactions)
        /\ Len(transactionQueue') = Len(transactionQueue) - 1
        /\ SeqIds(transactionQueue') = T \ {c.id}
        /\ UniqueIds(transactionQueue')
    BY <1>1, <1>2, <1>5, RemoveAtIds DEF OnePlace
  <2>4. queues' = [queues EXCEPT ![r] = Append(queues[r], c)]
    BY <1>5
  <2> HIDE DEF c, r
  <2>5. /\ c.id \notin SeqIds(pendingTransactions)
        /\ c.id \notin F
        /\ \A s \in Ranks : c.id \notin SeqIds(queues[s])
    BY <1>2, <2>1 DEF OnePlace
  <2>6. /\ Append(queues[r], c) \in Seq(Transactions)
        /\ Len(Append(queues[r], c)) = Len(queues[r]) + 1
        /\ SeqIds(Append(queues[r], c)) = SeqIds(queues[r]) \cup {c.id}
        /\ UniqueIds(Append(queues[r], c))
    <3>1. queues[r] \in Seq(Transactions) /\ UniqueIds(queues[r])
      BY <1>1, <1>2, <2>2 DEF OnePlace
    <3> QED
      BY <2>1, <2>2, <2>5, <3>1, AppendIds
  <2>7. /\ queues' \in [Ranks -> Seq(Transactions)]
        /\ queues'[r] = Append(queues[r], c)
        /\ \A s \in Ranks : s # r => queues'[s] = queues[s]
    BY <1>1, <2>2, <2>4, <2>6
  <2>8. /\ \A s \in Ranks : UniqueIds(queues'[s])
        /\ SeqIds(queues'[r]) = SeqIds(queues[r]) \cup {c.id}
        /\ \A s \in Ranks : SeqIds(queues'[s]) \subseteq SeqIds(queues[s]) \cup {c.id}
    BY <1>2, <2>6, <2>7 DEF OnePlace
  <2>9. TypeOK'
    BY <1>3, <2>3, <2>7 DEF FlowInv, TypeOK, Phases
  <2>10. FreshId'
    BY <1>2, <1>3, <2>1, <2>3, <2>8 DEF FreshId
  <2>11. OnePlace'
    <3>1. SeqIds(pendingTransactions) \cap SeqIds(transactionQueue') = {}
      BY <1>2, <2>3 DEF OnePlace
    <3>2. SeqIds(transactionQueue') \cap F = {}
      BY <1>2, <2>3 DEF OnePlace
    <3>3. \A s \in Ranks :
            /\ SeqIds(pendingTransactions) \cap SeqIds(queues'[s]) = {}
            /\ SeqIds(transactionQueue') \cap SeqIds(queues'[s]) = {}
            /\ SeqIds(queues'[s]) \cap F = {}
      <4>1. \A s \in Ranks :
              /\ SeqIds(pendingTransactions) \cap SeqIds(queues[s]) = {}
              /\ T \cap SeqIds(queues[s]) = {}
              /\ SeqIds(queues[s]) \cap F = {}
        BY <1>2 DEF OnePlace
      <4>2. /\ c.id \notin SeqIds(transactionQueue')
            /\ SeqIds(transactionQueue') \subseteq T
        BY <2>3
      <4>3. \A s \in Ranks : SeqIds(queues'[s]) \subseteq SeqIds(queues[s]) \cup {c.id}
        BY <2>8
      <4> HIDE DEF F, T
      <4>4. \A s \in Ranks : SeqIds(pendingTransactions) \cap SeqIds(queues'[s]) = {}
        BY <2>5, <4>1, <4>3
      <4>5. \A s \in Ranks : SeqIds(transactionQueue') \cap SeqIds(queues'[s]) = {}
        BY <4>1, <4>2, <4>3
      <4>6. \A s \in Ranks : SeqIds(queues'[s]) \cap F = {}
        BY <2>5, <4>1, <4>3
      <4> QED
        BY <4>4, <4>5, <4>6
    <3>4. \A s, u \in Ranks :
            s # u => SeqIds(queues'[s]) \cap SeqIds(queues'[u]) = {}
      <4>1. \A s, u \in Ranks :
              s # u => SeqIds(queues[s]) \cap SeqIds(queues[u]) = {}
        BY <1>2 DEF OnePlace
      <4> SUFFICES ASSUME NEW s \in Ranks, NEW u \in Ranks, s # u
                   PROVE  SeqIds(queues'[s]) \cap SeqIds(queues'[u]) = {}
        OBVIOUS
      <4>2. CASE s # r /\ u # r
        BY <2>7, <4>1, <4>2
      <4>3. CASE s = r
        <5>1. queues'[u] = queues[u] /\ c.id \notin SeqIds(queues[u])
              /\ SeqIds(queues[r]) \cap SeqIds(queues[u]) = {}
          BY <2>2, <2>5, <2>7, <4>1, <4>3
        <5> QED
          BY <2>8, <4>3, <5>1
      <4>4. CASE u = r
        <5>1. queues'[s] = queues[s] /\ c.id \notin SeqIds(queues[s])
              /\ SeqIds(queues[r]) \cap SeqIds(queues[s]) = {}
          BY <2>2, <2>5, <2>7, <4>1, <4>4
        <5> QED
          BY <2>8, <4>4, <5>1
      <4> QED
        BY <4>2, <4>3, <4>4
    <3> QED
      BY <1>2, <1>3, <2>3, <2>8, <3>1, <3>2, <3>3, <3>4 DEF OnePlace
  <2>12. OverflowBacked'
    <3>1. queues'[r] # << >>
      <4>1. Len(queues[r]) \in Nat
        BY <1>1, <2>2, LenProperties
      <4>2. Len(queues'[r]) # 0
        BY <2>6, <2>7, <4>1
      <4> QED
        BY <4>2, EmptySeq
    <3>2. \E s \in Ranks : queues'[s] # << >>
      BY <2>2, <3>1
    <3> QED
      BY <1>1, <1>2, <1>3, <2>3, <3>2, QueueAssumption DEF OverflowBacked
  <2>13. Accounting'
    <3> DEFINE A == HeldIds(transactionQueue, queues, inFlight)
               B == HeldIds(transactionQueue', queues', inFlight')
    <3>1. \A k : k \in B <=> k \in A
      <4>1. \A k : (\E s \in Ranks : k \in SeqIds(queues'[s])) <=>
                     (k = c.id \/ \E s \in Ranks : k \in SeqIds(queues[s]))
        BY <2>2, <2>7, <2>8
      <4>2. inFlight' = inFlight
        BY <1>3
      <4> QED
        BY <2>1, <2>3, <4>1, <4>2, HeldIdsMember
    <3>2. A = B
      <4> HIDE DEF A, B
      <4> QED BY <3>1
    <3> QED
      BY <1>2, <1>3, <3>2 DEF Accounting, HeldIds, Controlled
  <2> QED
    BY <2>9, <2>10, <2>11, <2>12, <2>13 DEF FlowInv
<1> QED
  BY <1>4, <1>5 DEF Dispatch

(* FlowInv is inductive.                                                   *)
LEMMA FlowNextInv == FlowInv /\ [FlowNext]_flowVars => FlowInv'
<1> SUFFICES ASSUME FlowInv, [FlowNext]_flowVars PROVE FlowInv'
  OBVIOUS
<1>1. ASSUME NEW type \in {"DATA_READ", "DATA_WRITE"}, NEW addr \in Addresses,
             AddTransaction(type, addr)
      PROVE  FlowInv'
  BY <1>1, AddTransactionInv
<1>2. CASE AddBarrier
  BY <1>2, AddBarrierInv
<1>3. CASE BeginUpdate \/ RunReturns \/ UNCHANGED flowVars
  BY <1>3, ClientIdleInv
<1>4. CASE AcceptPending
  BY <1>4, AcceptPendingInv
<1>5. CASE CompleteWrite \/ CompleteRead
  BY <1>5, CompleteInv
<1>6. CASE Issue
  BY <1>6, IssueInv
<1>7. CASE Dispatch
  BY <1>7, DispatchInv
<1> QED
  BY <1>1, <1>2, <1>3, <1>4, <1>5, <1>6, <1>7
  DEF FlowNext, ClientStep, UpdateStep

(* When the counter reads 0 between two updates, nothing is left: the      *)
(* controller holds no id, so no command queue backs an overflow, and the  *)
(* controller is not full.                                                 *)
LEMMA InvNothingLeft == FlowInv => NothingLeftBehind
<1> SUFFICES ASSUME FlowInv, phase = "client", numOnTheFlyTransactions = 0
             PROVE  Waiting = {} /\ inFlight = {}
  BY DEF NothingLeftBehind
<1> DEFINE A == HeldIds(transactionQueue, queues, inFlight)
<1>1. /\ transactionQueue \in Seq(Transactions)
      /\ queues \in [Ranks -> Seq(Transactions)]
      /\ inFlight \in SUBSET Transactions
      /\ OverflowBacked
  BY DEF FlowInv, TypeOK
<1>2. A = {}
  <2>1. IsFiniteSet(A)
    BY <1>1, HeldIdsFinite
  <2>2. Cardinality(A) = 0
    BY DEF FlowInv, Accounting, HeldIds, Controlled
  <2> QED
    BY <2>1, <2>2, FS_EmptySet
<1>3. /\ \A k : k \notin SeqIds(transactionQueue)
      /\ \A k : k \notin Ids(inFlight)
      /\ \A r \in Ranks : \A k : k \notin SeqIds(queues[r])
  BY <1>2, HeldIdsMember
<1>4. inFlight = {}
  BY <1>3 DEF Ids
<1>5. transactionQueue = << >> /\ \A r \in Ranks : queues[r] = << >>
  <2>1. SeqIds(transactionQueue) = {} /\ \A r \in Ranks : SeqIds(queues[r]) = {}
    BY <1>3
  <2>2. \A r \in Ranks : queues[r] \in Seq(Transactions)
    BY <1>1
  <2> QED
    BY <1>1, <2>1, <2>2, NonEmptyIds
<1>6. pendingTransactions = << >>
  <2>1. Len(transactionQueue) = 0
    BY <1>5, EmptySeq
  <2> QED
    BY <1>1, <1>5, <2>1, QueueAssumption DEF OverflowBacked
<1>7. Waiting = {}
  <2>1. ToSet(<< >>) = {}
    BY EmptySeq DEF ToSet
  <2> QED
    BY <1>5, <1>6, <2>1 DEF Waiting, QueuedIn
<1> QED
  BY <1>4, <1>7

-----------------------------------------------------------------------------

(* FlowInv holds in every reachable state, for every number of ranks,      *)
(* every queue depth, every set of addresses and each kind of driver.      *)
THEOREM FlowInvariant == FlowSpec => []FlowInv
<1>1. FlowInit => FlowInv
  BY FlowInitInv
<1>2. FlowInv /\ [FlowNext]_flowVars => FlowInv'
  BY FlowNextInv
<1> QED
  BY <1>1, <1>2, PTL DEF FlowSpec

(* The queues of MemorySystem, MemoryController and CommandQueue only ever *)
(* hold transactions, and the barriers taken name transactions added.      *)
THEOREM FlowTypeCorrect == FlowSpec => []TypeOK
<1>1. FlowInv => TypeOK
  BY DEF FlowInv
<1> QED
  BY <1>1, FlowInvariant, PTL

(* numOnTheFlyTransactions counts exactly what the controller holds.       *)
THEOREM FlowAccounting == FlowSpec => []Accounting
<1>1. FlowInv => Accounting
  BY DEF FlowInv
<1> QED
  BY <1>1, FlowInvariant, PTL

(* A run() loop that polls hasPendingTransactions() never returns with     *)
(* work left, although pendingTransactions is not part of the count.       *)
THEOREM FlowNothingLeftBehind == FlowSpec => []NothingLeftBehind
<1>1. FlowInv => NothingLeftBehind
  BY InvNothingLeft
<1> QED
  BY <1>1, FlowInvariant, PTL

-----------------------------------------------------------------------------
(* The order of the accesses.                                              *)

(* The parts of a transaction the order is about.                          *)
LEMMA TransactionFields ==
  \A t \in Transactions : t.id \in Int /\ t.addr.rank \in Ranks
BY ClientAssumption DEF Transactions

-----------------------------------------------------------------------------
(* What each queue operation does to the order.                            *)

(* A newcomer with the largest id goes to the end (addTransaction, the     *)
(* overflow, enqueue).                                                     *)
LEMMA AppendOrder ==
  ASSUME NEW q \in Seq(Transactions), NEW t \in Transactions, Sorted(q),
         \A x \in ToSet(q) : x.id < t.id
  PROVE  /\ Sorted(Append(q, t))
         /\ \A x : x \in ToSet(Append(q, t)) <=> x \in ToSet(q) \/ x = t
<1> DEFINE a == Append(q, t)
<1>1. /\ a \in Seq(Transactions)
      /\ Len(a) = Len(q) + 1
      /\ \A i \in 1 .. Len(q) : a[i] = q[i]
      /\ a[Len(q) + 1] = t
  BY AppendProperties
<1>2. Len(q) \in Nat
  BY LenProperties
<1> HIDE DEF a
<1>3. \A x : x \in ToSet(a) <=> \E i \in 1 .. Len(a) : a[i] = x
  BY <1>1, ToSetMember
<1>4. \A x : x \in ToSet(q) <=> \E i \in 1 .. Len(q) : q[i] = x
  BY ToSetMember
<1>5. /\ \A i \in 1 .. Len(a) : i \in 1 .. Len(q) \/ i = Len(q) + 1
      /\ 1 .. Len(q) \subseteq 1 .. Len(a) /\ Len(q) + 1 \in 1 .. Len(a)
  BY <1>1, <1>2
<1>6. \A x : x \in ToSet(a) <=> x \in ToSet(q) \/ x = t
  BY <1>1, <1>3, <1>4, <1>5
<1>7. Sorted(a)
  <2> SUFFICES ASSUME NEW i \in 1 .. Len(a), NEW j \in 1 .. Len(a), i < j
               PROVE  a[i].id < a[j].id
    BY DEF Sorted
  <2>1. i \in 1 .. Len(q)
    BY <1>1, <1>2
  <2>2. a[i] = q[i] /\ q[i] \in ToSet(q)
    BY <1>1, <1>4, <2>1
  <2>3. CASE j = Len(q) + 1
    BY <1>1, <2>2, <2>3
  <2>4. CASE j \in 1 .. Len(q)
    BY <1>1, <2>1, <2>4 DEF Sorted
  <2> QED
    BY <1>5, <2>3, <2>4
<1> QED
  BY <1>6, <1>7 DEF a

(* Erasing an entry keeps the order of the others (process_command,        *)
(* dispatch).                                                              *)
LEMMA RemoveAtOrder ==
  ASSUME NEW q \in Seq(Transactions), NEW i \in 1 .. Len(q), Sorted(q)
  PROVE  /\ Sorted(RemoveAt(q, i))
         /\ \A x : x \in ToSet(RemoveAt(q, i)) <=> x \in ToSet(q) /\ x # q[i]
<1> DEFINE a == RemoveAt(q, i)
           old == [j \in 1 .. Len(q) - 1 |-> IF j < i THEN j ELSE j + 1]
<1>1. /\ a \in Seq(Transactions)
      /\ Len(a) = Len(q) - 1
      /\ \A j \in 1 .. Len(q) - 1 : a[j] = q[old[j]]
  BY RemoveAtProperties
<1>2. Len(q) \in Nat /\ i \in Nat /\ i >= 1 /\ i <= Len(q)
  BY LenProperties
<1>3. /\ \A j \in 1 .. Len(q) - 1 : old[j] \in 1 .. Len(q) /\ old[j] # i
      /\ \A j, k \in 1 .. Len(q) - 1 : j < k => old[j] < old[k]
      /\ \A k \in 1 .. Len(q) : k # i => \E j \in 1 .. Len(q) - 1 : old[j] = k
  <2>1. \A k \in 1 .. Len(q) : k < i => k \in 1 .. Len(q) - 1 /\ old[k] = k
    BY <1>2
  <2>2. \A k \in 1 .. Len(q) :
          k > i => k - 1 \in 1 .. Len(q) - 1 /\ old[k - 1] = k
    BY <1>2
  <2>3. ASSUME NEW k \in 1 .. Len(q), k # i
        PROVE  \E j \in 1 .. Len(q) - 1 : old[j] = k
    <3>1. k < i \/ k > i
      BY <1>2, <2>3
    <3> HIDE DEF old
    <3> QED
      BY <2>1, <2>2, <3>1
  <2> QED
    BY <1>2, <2>3
<1> HIDE DEF a, old
<1>4. \A x : x \in ToSet(a) <=> \E j \in 1 .. Len(a) : a[j] = x
  BY <1>1, ToSetMember
<1>5. /\ \A x : x \in ToSet(q) <=> \E j \in 1 .. Len(q) : q[j] = x
      /\ \A j \in 1 .. Len(q) : q[j].id \in Int
  BY ToSetMember, ElementOfSeq, TransactionFields
<1>6. \A j \in 1 .. Len(q) : j # i => q[j] # q[i]
  <2> SUFFICES ASSUME NEW j \in 1 .. Len(q), j # i PROVE q[j].id # q[i].id
    OBVIOUS
  <2>1. j < i \/ i < j
    BY <1>2
  <2>2. q[j].id < q[i].id \/ q[i].id < q[j].id
    BY <2>1 DEF Sorted
  <2> QED
    BY <1>5, <2>2
<1>7. \A x : x \in ToSet(a) <=> x \in ToSet(q) /\ x # q[i]
  <2>1. ASSUME NEW x, x \in ToSet(a) PROVE x \in ToSet(q) /\ x # q[i]
    <3>1. PICK j \in 1 .. Len(q) - 1 : a[j] = x
      BY <1>1, <1>4, <2>1
    <3>2. old[j] \in 1 .. Len(q) /\ old[j] # i /\ q[old[j]] = x
      BY <1>1, <1>3, <3>1
    <3> QED
      BY <1>5, <1>6, <3>2
  <2>2. ASSUME NEW x, x \in ToSet(q), x # q[i] PROVE x \in ToSet(a)
    <3>1. PICK k \in 1 .. Len(q) : q[k] = x
      BY <1>5, <2>2
    <3>2. PICK j \in 1 .. Len(q) - 1 : old[j] = k
      BY <1>3, <2>2, <3>1
    <3> QED
      BY <1>1, <1>4, <3>1, <3>2
  <2> QED
    BY <2>1, <2>2
<1>8. Sorted(a)
  <2> SUFFICES ASSUME NEW j \in 1 .. Len(a), NEW k \in 1 .. Len(a), j < k
               PROVE  a[j].id < a[k].id
    BY DEF Sorted
  <2>1. /\ a[j] = q[old[j]] /\ a[k] = q[old[k]] /\ old[j] < old[k]
        /\ old[j] \in 1 .. Len(q) /\ old[k] \in 1 .. Len(q)
    BY <1>1, <1>3
  <2> QED
    BY <2>1 DEF Sorted
<1> QED
  BY <1>7, <1>8 DEF a

(* The front of the overflow is its oldest entry.                          *)
LEMMA TailOrder ==
  ASSUME NEW q \in Seq(Transactions), q # << >>, Sorted(q)
  PROVE  /\ Sorted(Tail(q))
         /\ \A x : x \in ToSet(q) <=> x \in ToSet(Tail(q)) \/ x = Head(q)
         /\ \A x \in ToSet(Tail(q)) : Head(q).id < x.id
<1> DEFINE a == Tail(q)
<1>1. /\ a \in Seq(Transactions)
      /\ Len(a) = Len(q) - 1
      /\ \A i \in 1 .. Len(a) : a[i] = q[i + 1]
  BY HeadTailProperties
<1>2. Len(q) \in Nat /\ Len(q) >= 1
  BY EmptySeq
<1>3. Head(q) = q[1]
  BY <1>2
<1> HIDE DEF a
<1>4. \A x : x \in ToSet(a) <=> \E j \in 1 .. Len(a) : a[j] = x
  BY <1>1, ToSetMember
<1>5. \A x : x \in ToSet(q) <=> \E j \in 1 .. Len(q) : q[j] = x
  BY ToSetMember
<1>6. /\ 1 \in 1 .. Len(q)
      /\ \A i \in 1 .. Len(a) : i + 1 \in 1 .. Len(q) /\ 1 < i + 1
      /\ \A i \in 1 .. Len(q) : i # 1 => i - 1 \in 1 .. Len(a) /\ (i - 1) + 1 = i
      /\ \A i, j \in 1 .. Len(a) : i < j => i + 1 < j + 1
  BY <1>1, <1>2
<1>7. \A x : x \in ToSet(q) <=> x \in ToSet(a) \/ x = q[1]
  <2>1. ASSUME NEW m \in 1 .. Len(q), m # 1
        PROVE  q[m] \in ToSet(a)
    <3>1. m - 1 \in 1 .. Len(a) /\ (m - 1) + 1 = m
      BY <1>6, <2>1
    <3>2. a[m - 1] = q[m]
      BY <1>1, <3>1
    <3> QED
      BY <1>4, <3>1, <3>2
  <2> QED
    BY <1>1, <1>4, <1>5, <1>6, <2>1
<1>8. Sorted(a)
  BY <1>1, <1>6 DEF Sorted
<1>9. \A x \in ToSet(a) : q[1].id < x.id
  BY <1>1, <1>4, <1>6 DEF Sorted
<1> QED
  BY <1>3, <1>7, <1>8, <1>9 DEF a

Tagged(q) == [Last(q) EXCEPT !.bar = TRUE]

(* Tagging the newest entry changes that entry only, and only its tag.     *)
LEMMA TagLastOrder ==
  ASSUME NEW q \in Seq(Transactions), q # << >>, Sorted(q)
  PROVE  /\ Sorted(TagLast(q))
         /\ Last(q) \in ToSet(q)
         /\ \A x \in ToSet(q) : x.id <= Last(q).id
         /\ Tagged(q).id = Last(q).id /\ Tagged(q).addr = Last(q).addr /\ Tagged(q).bar
         /\ \A x : x \in ToSet(TagLast(q)) <=>
                     x = Tagged(q) \/ (x \in ToSet(q) /\ x # Last(q))
<1>1. Len(q) \in 1 .. Len(q) /\ Len(q) \in Nat /\ Last(q) = q[Len(q)]
  BY EmptySeq, LenProperties DEF Last
<1> DEFINE n == Len(q)
           e == Tagged(q)
           a == TagLast(q)
<1>2. q[n] \in Transactions
  BY <1>1, ElementOfSeq
<1>3. e \in Transactions /\ e.id = q[n].id /\ e.addr = q[n].addr /\ e.bar = TRUE
  BY <1>1, <1>2 DEF Transactions, Tagged
<1>4. a = [q EXCEPT ![n] = e]
  BY <1>1 DEF TagLast, Tagged
<1> HIDE DEF e, a
<1>5. /\ a \in Seq(Transactions)
      /\ Len(a) = Len(q)
      /\ a[n] = e
      /\ \A i \in 1 .. Len(q) : i # n => a[i] = q[i]
      /\ \A i \in 1 .. Len(q) : a[i].id = q[i].id
  BY <1>1, <1>3, <1>4, ExceptSeq
<1> HIDE DEF n
<1>6. \A x : x \in ToSet(a) <=> \E j \in 1 .. Len(a) : a[j] = x
  BY <1>5, ToSetMember
<1>7. /\ \A x : x \in ToSet(q) <=> \E j \in 1 .. Len(q) : q[j] = x
      /\ \A j \in 1 .. Len(q) : q[j].id \in Int
  BY ToSetMember, ElementOfSeq, TransactionFields
<1>8. n \in 1 .. Len(q) /\ Last(q) = q[n] /\ \A i \in 1 .. Len(q) : i # n => i < n
  BY <1>1 DEF n
<1>9. \A i \in 1 .. Len(q) : i # n => q[i].id < q[n].id
  BY <1>8 DEF Sorted
<1>10. \A i \in 1 .. Len(q) : i # n => q[i] # q[n]
  <2> SUFFICES ASSUME NEW i \in 1 .. Len(q), i # n PROVE q[i].id # q[n].id
    OBVIOUS
  <2> QED
    BY <1>7, <1>8, <1>9
<1>11. \A x : x \in ToSet(a) <=> x = e \/ (x \in ToSet(q) /\ x # q[n])
  BY <1>5, <1>6, <1>7, <1>8, <1>10
<1>12. \A x \in ToSet(q) : x.id <= q[n].id
  BY <1>7, <1>8, <1>9
<1>13. Sorted(a)
  BY <1>5 DEF Sorted
<1>14. q[n] \in ToSet(q)
  BY <1>7, <1>8
<1> QED
  BY <1>3, <1>8, <1>11, <1>12, <1>13, <1>14 DEF e, a

-----------------------------------------------------------------------------
(* What OrderInv says of the places of a transaction.                      *)

(* Every transaction in a queue is typed, older than the next id, and not  *)
(* in flight.                                                              *)
LEMMA Placed ==
  ASSUME FlowInv
  PROVE  /\ pendingTransactions \in Seq(Transactions)
         /\ transactionQueue \in Seq(Transactions)
         /\ \A r \in Ranks : queues[r] \in Seq(Transactions)
         /\ Waiting \subseteq Transactions
         /\ \A x \in Waiting : x.id < nextId /\ x \notin inFlight
         /\ nextId \in Int
<1>1. /\ pendingTransactions \in Seq(Transactions)
      /\ transactionQueue \in Seq(Transactions)
      /\ \A r \in Ranks : queues[r] \in Seq(Transactions)
      /\ nextId \in Int
  BY ClientAssumption DEF FlowInv, TypeOK
<1>2. /\ ToSet(pendingTransactions) \subseteq Transactions
      /\ ToSet(transactionQueue) \subseteq Transactions
      /\ \A r \in Ranks : ToSet(queues[r]) \subseteq Transactions
  BY <1>1, ToSetMember
<1>3. Waiting \subseteq Transactions
  BY <1>2 DEF Waiting, QueuedIn
<1>4. FreshId /\ OnePlace
  BY DEF FlowInv
<1>5. ASSUME NEW q, SeqIds(q) \subseteq 1 .. nextId - 1, SeqIds(q) \cap Ids(inFlight) = {}
      PROVE  \A x \in ToSet(q) : x.id < nextId /\ x \notin inFlight
  <2>1. \A k \in 1 .. nextId - 1 : k < nextId
    BY <1>1
  <2>2. \A x \in ToSet(q) : x.id \in SeqIds(q)
    BY DEF SeqIds, Ids
  <2>3. \A x \in inFlight : x.id \in Ids(inFlight)
    BY DEF Ids
  <2> QED
    BY <1>5, <2>1, <2>2, <2>3
<1>6. /\ \A x \in ToSet(pendingTransactions) : x.id < nextId /\ x \notin inFlight
      /\ \A x \in ToSet(transactionQueue) : x.id < nextId /\ x \notin inFlight
      /\ \A r \in Ranks : \A x \in ToSet(queues[r]) : x.id < nextId /\ x \notin inFlight
  BY <1>4, <1>5 DEF FreshId, OnePlace
<1> QED
  BY <1>1, <1>3, <1>6 DEF Waiting, QueuedIn

(* A newcomer would go past what waits in front of the controller.         *)
Overtakes == WillAcceptTransaction /\ pendingTransactions # << >>

(* What a client finds that does not overtake.                             *)
LEMMA NothingOvertaken ==
  ASSUME OrderInv, ~Overtakes, phase = "client", MayAdd
  PROVE  /\ WillAcceptTransaction => pendingTransactions = << >>
         /\ ~WillAcceptTransaction => Len(transactionQueue) = TRANS_QUEUE_DEPTH
         /\ CLIENT = "batch" => ~running
<1>1. Len(transactionQueue) \in Nat /\ Len(transactionQueue) <= TRANS_QUEUE_DEPTH
  BY LenProperties DEF OrderInv, FlowInv, TypeOK, OverflowBacked
<1>2. ~WillAcceptTransaction => Len(transactionQueue) = TRANS_QUEUE_DEPTH
  BY <1>1, QueueAssumption DEF WillAcceptTransaction
<1>3. CLIENT = "batch" => ~running
  BY DEF MayAdd
<1> QED
  BY <1>2, <1>3 DEF Overtakes

(* A batch client and a polite one do not: the one has run all it added,   *)
(* the other looks first.                                                  *)
LEMMA ClientsWait ==
  ASSUME OrderInv, CLIENT # "eager", phase = "client", MayAdd
  PROVE  ~Overtakes
<1>1. CLIENT = "batch" \/ CLIENT = "polite"
  BY ClientAssumption
<1>2. Len(transactionQueue) \in Nat /\ Len(transactionQueue) <= TRANS_QUEUE_DEPTH
  BY LenProperties DEF OrderInv, FlowInv, TypeOK, OverflowBacked
<1>3. CASE CLIENT = "batch"
  <2>1. ~running /\ NoOvertaking
    BY <1>3 DEF MayAdd, OrderInv
  <2>2. WillAcceptTransaction => Len(transactionQueue) # TRANS_QUEUE_DEPTH
    BY <1>2, QueueAssumption DEF WillAcceptTransaction
  <2> QED
    BY <1>3, <2>1, <2>2 DEF NoOvertaking, Overtakes
<1>4. CASE CLIENT = "polite"
  BY <1>4 DEF MayAdd, Overtakes
<1> QED
  BY <1>1, <1>3, <1>4

-----------------------------------------------------------------------------
(* Each step preserves OrderInv.                                           *)

(* The empty channel is in order.                                          *)
LEMMA OrderInit == FlowInit => OrderInv
<1> SUFFICES ASSUME FlowInit PROVE OrderInv
  OBVIOUS
<1>1. /\ pendingTransactions = << >>
      /\ transactionQueue = << >>
      /\ \A r \in Ranks : queues[r] = << >>
      /\ fences = {} /\ phase = "client"
  BY DEF FlowInit
<1>2. Len(<< >>) = 0 /\ ToSet(<< >>) = {}
  BY EmptySeq DEF ToSet
<1>3. Sorted(<< >>)
  BY <1>2 DEF Sorted
<1>4. QueuesSorted /\ PendingNewest /\ RankOrder
  BY <1>1, <1>2, <1>3 DEF QueuesSorted, PendingNewest, RankOrder
<1>5. NoOvertaking /\ Fenced
  BY <1>1 DEF NoOvertaking, Fenced
<1> QED
  BY <1>4, <1>5, FlowInitInv DEF OrderInv

(* A fence stays honoured when what waits is the same, or newer.           *)
LEMMA FencedUnchanged ==
  ASSUME Fenced, fences' = fences, nextId' >= nextId, nextId \in Int, nextId' \in Int,
         \A f \in fences : f.id \in Int,
         \A x : x \in Waiting => x \in Waiting',
         \A x : x \in Waiting' => x \in Waiting \/ x.id = nextId
  PROVE  Fenced'
<1> SUFFICES ASSUME NEW f \in fences
             PROVE  /\ f.id < nextId'
                    /\ Before(f)' # {} =>
                         \E e \in Before(f)' : e.bar /\ \A u \in Before(f)' : u.id <= e.id
  BY DEF Fenced
<1>1. f.id < nextId /\ f.id < nextId'
  BY DEF Fenced
<1>2. \A x : x.id = nextId => ~(x.id <= f.id)
  BY <1>1
<1>3. Before(f)' = Before(f)
  BY <1>2 DEF Before
<1> QED
  BY <1>1, <1>3 DEF Fenced

(* The fences name ids.                                                    *)
LEMMA FenceIds ==
  ASSUME FlowInv
  PROVE  \A f \in fences : f.id \in Int /\ f.rank \in Ranks
BY ClientAssumption DEF FlowInv, TypeOK

(* addTransaction: the newest goes behind everything.                      *)
LEMMA AddTransactionOrder ==
  ASSUME OrderInv, ~Overtakes,
         NEW type \in {"DATA_READ", "DATA_WRITE"}, NEW addr \in Addresses,
         AddTransaction(type, addr)
  PROVE  OrderInv'
<1> DEFINE t == [id |-> nextId, type |-> type, addr |-> addr, bar |-> FALSE]
<1>0. FlowInv /\ FlowInv'
  BY AddTransactionInv DEF OrderInv
<1>1. /\ phase = "client" /\ MayAdd /\ nextId <= MaxTransactions
      /\ nextId' = nextId + 1
      /\ queues' = queues /\ inFlight' = inFlight /\ fences' = fences
      /\ running' = running /\ phase' = phase
  BY DEF AddTransaction
<1>2. t \in Transactions
  BY <1>0, <1>1, ClientAssumption DEF FlowInv, TypeOK, Transactions
<1>3. t.id = nextId /\ t.addr.rank \in Ranks
  BY ClientAssumption
<1>4. \/ /\ WillAcceptTransaction
         /\ transactionQueue' = Append(transactionQueue, t)
         /\ pendingTransactions' = pendingTransactions
      \/ /\ ~WillAcceptTransaction
         /\ pendingTransactions' = Append(pendingTransactions, t)
         /\ transactionQueue' = transactionQueue
  BY DEF AddTransaction, Accept
<1> HIDE DEF t
<1>5. /\ pendingTransactions \in Seq(Transactions)
      /\ transactionQueue \in Seq(Transactions)
      /\ \A r \in Ranks : queues[r] \in Seq(Transactions)
      /\ nextId \in Int
      /\ \A x \in ToSet(pendingTransactions) : x.id < t.id
      /\ \A x \in ToSet(transactionQueue) : x.id < t.id
      /\ \A r \in Ranks : \A x \in ToSet(queues[r]) : x.id < t.id
  BY <1>0, <1>3, Placed DEF Waiting, QueuedIn
<1>6. QueuesSorted /\ PendingNewest /\ RankOrder /\ NoOvertaking /\ Fenced
  BY DEF OrderInv
<1>7. /\ WillAcceptTransaction => pendingTransactions = << >>
      /\ ~WillAcceptTransaction => Len(transactionQueue) = TRANS_QUEUE_DEPTH
      /\ CLIENT = "batch" => ~running
  BY <1>1, NothingOvertaken
<1>8. /\ Sorted(Append(transactionQueue, t)) /\ Sorted(Append(pendingTransactions, t))
      /\ \A x : x \in ToSet(Append(transactionQueue, t)) <=>
                  x \in ToSet(transactionQueue) \/ x = t
      /\ \A x : x \in ToSet(Append(pendingTransactions, t)) <=>
                  x \in ToSet(pendingTransactions) \/ x = t
  BY <1>2, <1>5, <1>6, AppendOrder DEF QueuesSorted
<1>9. QueuesSorted'
  BY <1>1, <1>4, <1>6, <1>8 DEF QueuesSorted
<1>10. PendingNewest'
  <2>1. CASE WillAcceptTransaction
    <3>1. pendingTransactions' = << >>
      BY <1>4, <1>7, <2>1
    <3>2. ToSet(<< >>) = {}
      BY EmptySeq DEF ToSet
    <3> QED
      BY <3>1, <3>2 DEF PendingNewest
  <2>2. CASE ~WillAcceptTransaction
    BY <1>1, <1>4, <1>5, <1>6, <1>8, <2>2 DEF PendingNewest
  <2> QED
    BY <2>1, <2>2
<1>11. RankOrder'
  BY <1>1, <1>4, <1>5, <1>6, <1>8 DEF RankOrder
<1>12. NoOvertaking'
  BY <1>1, <1>4, <1>7 DEF NoOvertaking
<1>13. Fenced'
  <2>1. \A x : x \in Waiting' <=> x \in Waiting \/ x = t
    BY <1>1, <1>4, <1>8 DEF Waiting, QueuedIn
  <2>2. nextId' >= nextId /\ nextId' \in Int
    BY <1>1, <1>5
  <2> QED
    BY <1>0, <1>1, <1>3, <1>5, <1>6, <2>1, <2>2, FenceIds, FencedUnchanged
<1> QED
  BY <1>0, <1>9, <1>10, <1>11, <1>12, <1>13 DEF OrderInv

(* addBarrier: what it tags is the last of everything added so far.        *)
LEMMA AddBarrierOrder ==
  ASSUME OrderInv, ~Overtakes, AddBarrier
  PROVE  OrderInv'
<1>0. FlowInv /\ FlowInv'
  BY AddBarrierInv DEF OrderInv
<1> DEFINE q == BarrierTarget
           l == Last(q)
           e == Tagged(q)
           f0 == [id |-> nextId - 1, rank |-> l.addr.rank]
<1>1. /\ phase = "client" /\ MayAdd /\ q # << >>
      /\ queues' = queues /\ inFlight' = inFlight /\ nextId' = nextId
      /\ running' = running /\ phase' = phase
      /\ fences' = fences \cup {f0}
  BY DEF AddBarrier
<1>2. \/ /\ WillAcceptTransaction
         /\ q = transactionQueue /\ transactionQueue' = TagLast(q)
         /\ pendingTransactions' = pendingTransactions
      \/ /\ ~WillAcceptTransaction
         /\ q = pendingTransactions /\ pendingTransactions' = TagLast(q)
         /\ transactionQueue' = transactionQueue
  BY DEF AddBarrier, BarrierTarget
<1>3. /\ pendingTransactions \in Seq(Transactions)
      /\ transactionQueue \in Seq(Transactions)
      /\ \A r \in Ranks : queues[r] \in Seq(Transactions)
      /\ nextId \in Int
      /\ Waiting \subseteq Transactions
      /\ \A x \in Waiting : x.id < nextId
  BY <1>0, Placed
<1>4. QueuesSorted /\ PendingNewest /\ RankOrder /\ NoOvertaking /\ Fenced
  BY DEF OrderInv
<1>5. /\ WillAcceptTransaction => pendingTransactions = << >>
      /\ CLIENT = "batch" => ~running
  BY <1>1, NothingOvertaken
<1>6. q \in Seq(Transactions) /\ Sorted(q)
  BY <1>2, <1>3, <1>4 DEF QueuesSorted
<1>7. /\ Sorted(TagLast(q))
      /\ l \in ToSet(q)
      /\ \A x \in ToSet(q) : x.id <= l.id
      /\ e.id = l.id /\ e.addr = l.addr /\ e.bar
      /\ \A x : x \in ToSet(TagLast(q)) <=> x = e \/ (x \in ToSet(q) /\ x # l)
  BY <1>1, <1>6, TagLastOrder
<1> HIDE DEF q, l, e
<1>8. l \in Waiting /\ l \in Transactions
  BY <1>2, <1>3, <1>7 DEF Waiting
<1>9. ToSet(<< >>) = {}
  BY EmptySeq DEF ToSet
<1>10. QueuesSorted'
  BY <1>1, <1>2, <1>4, <1>7 DEF QueuesSorted
<1>11. PendingNewest'
  <2>1. CASE WillAcceptTransaction
    BY <1>2, <1>5, <1>9, <2>1 DEF PendingNewest
  <2>2. CASE ~WillAcceptTransaction
    BY <1>1, <1>2, <1>4, <1>7, <2>2 DEF PendingNewest
  <2> QED
    BY <2>1, <2>2
<1>12. RankOrder'
  BY <1>1, <1>2, <1>4, <1>7 DEF RankOrder
<1>13. NoOvertaking'
  <2>1. Len(transactionQueue') = Len(transactionQueue)
    BY <1>1, <1>2, <1>6, TagLastIds
  <2>2. pendingTransactions' # << >> => pendingTransactions # << >>
    BY <1>1, <1>2
  <2> QED
    BY <1>1, <1>4, <2>1, <2>2 DEF NoOvertaking
<1>14. \A x : x \in Waiting' <=> x = e \/ (x \in Waiting /\ x # l)
  <2>1. CASE WillAcceptTransaction
    <3>1. /\ \A r \in Ranks : \A x \in ToSet(queues[r]) : x # l
          /\ \A x \in ToSet(pendingTransactions) : x # l
      <4>1. \A x \in ToSet(pendingTransactions) : x # l
        BY <1>5, <1>9, <2>1
      <4>2. l.id \in SeqIds(transactionQueue)
        BY <1>2, <1>7, <2>1 DEF SeqIds, Ids
      <4>3. \A r \in Ranks : l.id \notin SeqIds(queues[r])
        BY <1>0, <4>2 DEF FlowInv, OnePlace
      <4> QED
        BY <4>1, <4>3 DEF SeqIds, Ids
    <3> QED
      BY <1>1, <1>2, <1>7, <2>1, <3>1 DEF Waiting, QueuedIn
  <2>2. CASE ~WillAcceptTransaction
    <3>1. /\ \A r \in Ranks : \A x \in ToSet(queues[r]) : x # l
          /\ \A x \in ToSet(transactionQueue) : x # l
      <4>1. l.id \in SeqIds(pendingTransactions)
        BY <1>2, <1>7, <2>2 DEF SeqIds, Ids
      <4>2. /\ \A r \in Ranks : l.id \notin SeqIds(queues[r])
            /\ l.id \notin SeqIds(transactionQueue)
        BY <1>0, <4>1 DEF FlowInv, OnePlace
      <4> QED
        BY <4>2 DEF SeqIds, Ids
    <3> QED
      BY <1>1, <1>2, <1>7, <2>2, <3>1 DEF Waiting, QueuedIn
  <2> QED
    BY <2>1, <2>2
<1>15. \A x \in Waiting : x.addr.rank = l.addr.rank => x.id <= l.id
  <2>1. \A x \in Waiting : x.id \in Int /\ x.addr.rank \in Ranks
    BY <1>3, TransactionFields
  <2>2. CASE WillAcceptTransaction
    <3>1. \A x \in Waiting : x \in ToSet(q) \/ \E r \in Ranks : x \in ToSet(queues[r])
      BY <1>2, <1>5, <1>9, <2>2 DEF Waiting, QueuedIn
    <3>2. \A r \in Ranks : \A x \in ToSet(queues[r]) : x.addr.rank = l.addr.rank => x.id < l.id
      BY <1>2, <1>4, <1>7, <2>2 DEF RankOrder
    <3> QED
      BY <1>7, <1>8, <2>1, <3>1, <3>2
  <2>3. CASE ~WillAcceptTransaction
    <3>1. /\ \A r \in Ranks : \A x \in ToSet(queues[r]) : x.id < l.id
          /\ \A x \in ToSet(transactionQueue) : x.id < l.id
      BY <1>2, <1>4, <1>7, <2>3 DEF PendingNewest
    <3>2. \A x \in Waiting : x \in ToSet(q) \/ x.id < l.id
      BY <1>2, <2>3, <3>1 DEF Waiting, QueuedIn
    <3> QED
      BY <1>7, <1>8, <2>1, <3>2
  <2> QED
    BY <2>2, <2>3
<1>16. Fenced'
  <2> SUFFICES ASSUME NEW f \in fences', Before(f)' # {}
               PROVE  \E y \in Before(f)' : y.bar /\ \A u \in Before(f)' : u.id <= y.id
    <3>1. \A f \in fences : f.id < nextId
      BY <1>4 DEF Fenced
    <3>2. f0.id < nextId
      BY <1>3
    <3> QED
      BY <1>1, <3>1, <3>2 DEF Fenced
  <2>1. \A x : x \in Before(f)' <=>
                 /\ x = e \/ (x \in Waiting /\ x # l)
                 /\ x.addr.rank = f.rank /\ x.id <= f.id
    BY <1>14 DEF Before
  <2>2. CASE f = f0
    <3>1. l.id < nextId /\ l.id \in Int
      BY <1>3, <1>8, TransactionFields
    <3>2. e \in Before(f)'
      BY <1>3, <1>7, <2>1, <2>2, <3>1
    <3>3. \A u \in Before(f)' : u.id <= e.id
      BY <1>7, <1>15, <2>1, <2>2, <3>1
    <3> QED
      BY <1>7, <3>2, <3>3
  <2>3. CASE f \in fences
    <3>1. \A x : x \in Before(f) <=> x \in Waiting /\ x.addr.rank = f.rank /\ x.id <= f.id
      BY DEF Before
    <3>2. Before(f) # {}
      BY <1>7, <1>8, <2>1, <3>1
    <3>3. PICK y \in Before(f) : y.bar /\ \A u \in Before(f) : u.id <= y.id
      BY <1>4, <2>3, <3>2 DEF Fenced
    <3>4. CASE y = l
      BY <1>7, <1>8, <2>1, <3>1, <3>3, <3>4
    <3>5. CASE y # l
      BY <1>7, <1>8, <2>1, <3>1, <3>3, <3>5
    <3> QED
      BY <3>4, <3>5
  <2> QED
    BY <1>1, <2>2, <2>3
<1> QED
  BY <1>0, <1>10, <1>11, <1>12, <1>13, <1>16 DEF OrderInv

(* What does not move a transaction keeps the order.                       *)
LEMMA OrderUnmoved ==
  ASSUME OrderInv, FlowInv',
         UNCHANGED << pendingTransactions, transactionQueue, queues, nextId, fences >>,
         NoOvertaking'
  PROVE  OrderInv'
<1>1. QueuesSorted /\ PendingNewest /\ RankOrder /\ Fenced
  BY DEF OrderInv
<1>2. QueuesSorted' /\ PendingNewest' /\ RankOrder'
  BY <1>1 DEF QueuesSorted, PendingNewest, RankOrder
<1>3. Fenced'
  BY <1>1 DEF Fenced, Before, Waiting, QueuedIn
<1> QED
  BY <1>2, <1>3 DEF OrderInv

(* The run() loop starts a cycle or exits; it exits only with nothing left *)
(* over, so the next batch overtakes nothing.                              *)
LEMMA ClientIdleOrder ==
  ASSUME OrderInv, BeginUpdate \/ RunReturns \/ UNCHANGED flowVars
  PROVE  OrderInv'
<1>1. FlowInv'
  BY ClientIdleInv DEF OrderInv
<1>2. /\ UNCHANGED << pendingTransactions, transactionQueue, queues, nextId, fences >>
      /\ NoOvertaking
  BY DEF OrderInv, BeginUpdate, RunReturns, flowVars
<1>3. NoOvertaking'
  <2>1. CASE BeginUpdate
    BY <1>2, <2>1 DEF BeginUpdate, NoOvertaking
  <2>2. CASE RunReturns
    <3>1. phase = "client" /\ numOnTheFlyTransactions = 0 /\ phase' = phase
      BY <2>2 DEF RunReturns
    <3>2. Waiting = {}
      BY <3>1, InvNothingLeft DEF OrderInv, NothingLeftBehind
    <3>3. ToSet(pendingTransactions) = {}
      BY <3>2 DEF Waiting
    <3>4. pendingTransactions = << >>
      <4>1. pendingTransactions \in Seq(Transactions)
        BY DEF OrderInv, FlowInv, TypeOK
      <4>2. SeqIds(pendingTransactions) = {}
        BY <3>3 DEF SeqIds, Ids
      <4> QED
        BY <4>1, <4>2, NonEmptyIds
    <3> QED
      BY <1>2, <3>1, <3>4 DEF NoOvertaking
  <2>3. CASE UNCHANGED flowVars
    BY <1>2, <2>3 DEF flowVars, NoOvertaking
  <2> QED
    BY <2>1, <2>2, <2>3
<1> QED
  BY <1>1, <1>2, <1>3, OrderUnmoved

(* update(): the oldest of the overflow goes behind the controller's queue. *)
LEMMA AcceptPendingOrder ==
  ASSUME OrderInv, AcceptPending
  PROVE  OrderInv'
<1>0. FlowInv /\ FlowInv'
  BY AcceptPendingInv DEF OrderInv
<1>1. /\ queues' = queues /\ nextId' = nextId /\ fences' = fences
      /\ running' = running /\ phase = "pending" /\ phase' = "write"
  BY DEF AcceptPending
<1>2. QueuesSorted /\ PendingNewest /\ RankOrder /\ NoOvertaking /\ Fenced
  BY DEF OrderInv
<1>3. NoOvertaking'
  BY <1>1, <1>2 DEF NoOvertaking
<1>4. CASE ~(pendingTransactions # << >> /\ WillAcceptTransaction)
  <2>1. UNCHANGED << pendingTransactions, transactionQueue >>
    BY <1>4 DEF AcceptPending
  <2> QED
    BY <1>0, <1>1, <1>3, <2>1, OrderUnmoved
<1>5. CASE pendingTransactions # << >> /\ WillAcceptTransaction
  <2> DEFINE h == Head(pendingTransactions)
             p == Tail(pendingTransactions)
  <2>1. transactionQueue' = Append(transactionQueue, h) /\ pendingTransactions' = p
    BY <1>5 DEF AcceptPending, Accept
  <2>2. /\ pendingTransactions \in Seq(Transactions)
        /\ transactionQueue \in Seq(Transactions)
        /\ nextId \in Int
    BY <1>0, Placed
  <2>3. /\ Sorted(p)
        /\ \A x : x \in ToSet(pendingTransactions) <=> x \in ToSet(p) \/ x = h
        /\ \A x \in ToSet(p) : h.id < x.id
    BY <1>2, <1>5, <2>2, TailOrder DEF QueuesSorted
  <2>4. h \in Transactions
    BY <1>5, <2>2, HeadTailProperties
  <2> HIDE DEF h, p
  <2>5. /\ \A x \in ToSet(transactionQueue) : x.id < h.id
        /\ \A r \in Ranks : \A x \in ToSet(queues[r]) : x.id < h.id
    BY <1>2, <2>3 DEF PendingNewest
  <2>6. /\ Sorted(Append(transactionQueue, h))
        /\ \A x : x \in ToSet(Append(transactionQueue, h)) <=>
                    x \in ToSet(transactionQueue) \/ x = h
    BY <1>2, <2>2, <2>4, <2>5, AppendOrder DEF QueuesSorted
  <2>7. QueuesSorted' /\ PendingNewest' /\ RankOrder'
    <3>1. QueuesSorted'
      BY <1>1, <1>2, <2>1, <2>3, <2>6 DEF QueuesSorted
    <3>2. PendingNewest'
      BY <1>1, <1>2, <2>1, <2>3, <2>6 DEF PendingNewest
    <3>3. RankOrder'
      BY <1>1, <1>2, <2>1, <2>5, <2>6 DEF RankOrder
    <3> QED
      BY <3>1, <3>2, <3>3
  <2>8. Fenced'
    <3>1. \A x : x \in Waiting' <=> x \in Waiting
      BY <1>1, <2>1, <2>3, <2>6 DEF Waiting, QueuedIn
    <3>2. nextId' >= nextId /\ nextId' \in Int
      BY <1>1, <2>2
    <3> QED
      BY <1>0, <1>1, <1>2, <2>2, <3>1, <3>2, FenceIds, FencedUnchanged
  <2> QED
    BY <1>0, <1>3, <2>7, <2>8 DEF OrderInv
<1> QED
  BY <1>4, <1>5

(* A burst ends: nothing that waits moves.                                 *)
LEMMA CompleteOrder ==
  ASSUME OrderInv, CompleteWrite \/ CompleteRead
  PROVE  OrderInv'
<1>1. FlowInv'
  BY CompleteInv DEF OrderInv
<1>2. /\ UNCHANGED << pendingTransactions, transactionQueue, queues, nextId, fences, running >>
      /\ phase # "client"
  BY DEF CompleteWrite, CompleteRead, Complete
<1>3. NoOvertaking'
  BY <1>2 DEF OrderInv, NoOvertaking
<1> QED
  BY <1>1, <1>2, <1>3, OrderUnmoved

(* The waiting of a rank that is not behind the i-th of its queue is       *)
(* earlier in that queue.                                                  *)
LEMMA OlderIsAhead ==
  ASSUME OrderInv, NEW r \in Ranks, NEW i \in 1 .. Len(queues[r]),
         NEW u \in Waiting, u.addr.rank = r, u.id <= queues[r][i].id
  PROVE  \E j \in 1 .. i : queues[r][j] = u
<1> DEFINE c == queues[r][i]
<1>1. /\ queues[r] \in Seq(Transactions)
      /\ Waiting \subseteq Transactions
  BY Placed DEF OrderInv
<1>2. QueuesSorted /\ PendingNewest /\ RankOrder
  BY DEF OrderInv
<1>3. /\ \A x : x \in ToSet(queues[r]) <=> \E k \in 1 .. Len(queues[r]) : queues[r][k] = x
      /\ ToSet(queues[r]) \subseteq Transactions
  BY <1>1, ToSetMember
<1>4. c \in ToSet(queues[r]) /\ c.id \in Int /\ u.id \in Int
  BY <1>1, <1>3, TransactionFields
<1>5. ~(c.id < u.id)
  BY <1>4
<1>6. u \notin ToSet(pendingTransactions)
  BY <1>2, <1>4, <1>5 DEF PendingNewest
<1>7. u \notin ToSet(transactionQueue)
  BY <1>2, <1>4, <1>5 DEF RankOrder
<1>8. \A s \in Ranks : u \in ToSet(queues[s]) => s = r
  BY <1>2 DEF RankOrder
<1>9. u \in ToSet(queues[r])
  BY <1>6, <1>7, <1>8 DEF Waiting, QueuedIn
<1>10. PICK k \in 1 .. Len(queues[r]) : queues[r][k] = u
  BY <1>3, <1>9
<1>11. ~(i < k)
  BY <1>2, <1>5, <1>10 DEF QueuesSorted, Sorted
<1>12. k \in 1 .. i
  BY <1>1, <1>11, LenProperties
<1> QED
  BY <1>10, <1>12

(* The scheduler takes a command out of the middle of a queue; it takes a  *)
(* barrier only from the front, when nothing it fences off is left.        *)
LEMMA IssueOrder ==
  ASSUME OrderInv, Issue
  PROVE  OrderInv'
<1>0. FlowInv /\ FlowInv'
  BY IssueInv DEF OrderInv
<1>1. /\ pendingTransactions' = pendingTransactions
      /\ transactionQueue' = transactionQueue
      /\ nextId' = nextId /\ fences' = fences /\ running' = running
      /\ phase = "issue" /\ phase' = "dispatch"
  BY DEF Issue
<1>2. QueuesSorted /\ PendingNewest /\ RankOrder /\ NoOvertaking /\ Fenced
  BY DEF OrderInv
<1>3. NoOvertaking'
  BY <1>1, <1>2 DEF NoOvertaking
<1>4. CASE queues' = queues
  BY <1>0, <1>1, <1>3, <1>4, OrderUnmoved
<1>5. ASSUME NEW r \in Ranks, NEW i \in 1 .. Len(queues[r]),
             Eligible(queues[r], i),
             queues' = [queues EXCEPT ![r] = RemoveAt(queues[r], i)]
      PROVE  OrderInv'
  <2> DEFINE c == queues[r][i]
  <2>1. /\ queues \in [Ranks -> Seq(Transactions)]
        /\ \A s \in Ranks : queues[s] \in Seq(Transactions)
        /\ Waiting \subseteq Transactions
    BY <1>0, Placed DEF FlowInv, TypeOK
  <2>2. /\ Sorted(RemoveAt(queues[r], i))
        /\ \A x : x \in ToSet(RemoveAt(queues[r], i)) <=> x \in ToSet(queues[r]) /\ x # c
    BY <1>2, <1>5, <2>1, RemoveAtOrder DEF QueuesSorted
  <2>3. /\ queues'[r] = RemoveAt(queues[r], i)
        /\ \A s \in Ranks : s # r => queues'[s] = queues[s]
    BY <1>5, <2>1
  <2>4. c \in ToSet(queues[r])
    BY <2>1, ToSetMember
  <2>5. \A s \in Ranks : Sorted(queues'[s])
                         /\ \A x : x \in ToSet(queues'[s]) => x \in ToSet(queues[s])
    BY <1>2, <2>2, <2>3 DEF QueuesSorted
  <2> HIDE DEF c
  <2>6. QueuesSorted' /\ PendingNewest' /\ RankOrder'
    <3>1. QueuesSorted'
      BY <1>1, <1>2, <2>5 DEF QueuesSorted
    <3>2. PendingNewest'
      BY <1>1, <1>2, <2>5 DEF PendingNewest
    <3>3. RankOrder'
      BY <1>1, <1>2, <2>5 DEF RankOrder
    <3> QED
      BY <3>1, <3>2, <3>3
  <2>7. \A x \in Waiting : x = c \/ x \in Waiting'
    BY <1>1, <2>2, <2>3 DEF Waiting, QueuedIn
  <2>8. \A x \in Waiting' : x \in Waiting
    BY <1>1, <2>5 DEF Waiting, QueuedIn
  <2>9. c \notin Waiting'
    <3>1. c.id \in SeqIds(queues[r])
      BY <2>4 DEF SeqIds, Ids
    <3>2. /\ c.id \notin SeqIds(pendingTransactions) /\ c.id \notin SeqIds(transactionQueue)
          /\ \A s \in Ranks : s # r => c.id \notin SeqIds(queues[s])
      BY <1>0, <3>1 DEF FlowInv, OnePlace
    <3>3. /\ c \notin ToSet(pendingTransactions) /\ c \notin ToSet(transactionQueue)
          /\ \A s \in Ranks : s # r => c \notin ToSet(queues[s])
      BY <3>2 DEF SeqIds, Ids
    <3> QED
      BY <1>1, <2>2, <2>3, <3>3 DEF Waiting, QueuedIn
  <2>10. Fenced'
    <3> SUFFICES ASSUME NEW f \in fences, Before(f)' # {}
                 PROVE  \E e \in Before(f)' : e.bar /\ \A u \in Before(f)' : u.id <= e.id
      BY <1>1, <1>2 DEF Fenced
    <3>1. \A x : x \in Before(f) <=> x \in Waiting /\ x.addr.rank = f.rank /\ x.id <= f.id
      BY DEF Before
    <3>2. \A x : x \in Before(f)' <=> x \in Waiting' /\ x.addr.rank = f.rank /\ x.id <= f.id
      BY DEF Before
    <3>3. PICK e \in Before(f) : e.bar /\ \A u \in Before(f) : u.id <= e.id
      BY <1>2, <2>8, <3>1, <3>2 DEF Fenced
    <3>4. CASE e # c
      BY <2>7, <2>8, <3>1, <3>2, <3>3, <3>4
    <3>5. CASE e = c
      <4>1. i = 1
        BY <1>5, <3>3, <3>5 DEF Eligible, c
      <4>2. f.rank = r
        BY <1>2, <2>4, <3>1, <3>5 DEF RankOrder
      <4>3. PICK u : u \in Before(f)'
        OBVIOUS
      <4>4. u \in Waiting /\ u.addr.rank = r /\ u.id <= c.id /\ u # c
        BY <2>8, <2>9, <3>1, <3>2, <3>3, <3>5, <4>2, <4>3
      <4>5. \E j \in 1 .. i : queues[r][j] = u
        BY <4>4, OlderIsAhead DEF c
      <4> QED
        BY <4>1, <4>4, <4>5 DEF c
    <3> QED
      BY <3>4, <3>5
  <2> QED
    BY <1>0, <1>3, <2>6, <2>10 DEF OrderInv
<1> QED
  BY <1>4, <1>5 DEF Issue

(* dispatch(): of the transactions for one rank it can only take the       *)
(* first, which goes behind that rank's commands.                          *)
LEMMA DispatchOrder ==
  ASSUME OrderInv, Dispatch
  PROVE  OrderInv'
<1>0. FlowInv /\ FlowInv'
  BY DispatchInv DEF OrderInv
<1>1. /\ pendingTransactions' = pendingTransactions
      /\ nextId' = nextId /\ fences' = fences /\ running' = running
      /\ phase = "dispatch" /\ phase' = "return"
  BY DEF Dispatch
<1>2. QueuesSorted /\ PendingNewest /\ RankOrder /\ NoOvertaking /\ Fenced
  BY DEF OrderInv
<1>3. NoOvertaking'
  BY <1>1, <1>2 DEF NoOvertaking
<1>4. CASE transactionQueue' = transactionQueue /\ queues' = queues
  BY <1>0, <1>1, <1>3, <1>4, OrderUnmoved
<1>5. ASSUME NEW i \in 1 .. Len(transactionQueue),
             Dispatchable(i),
             transactionQueue' = RemoveAt(transactionQueue, i),
             queues' = [queues EXCEPT ![transactionQueue[i].addr.rank] =
                          Append(@, transactionQueue[i])]
      PROVE  OrderInv'
  <2> DEFINE c == transactionQueue[i]
             r == c.addr.rank
  <2>1. /\ queues \in [Ranks -> Seq(Transactions)]
        /\ transactionQueue \in Seq(Transactions)
        /\ Waiting \subseteq Transactions
        /\ nextId \in Int
    BY <1>0, Placed DEF FlowInv, TypeOK
  <2>2. c \in Transactions /\ c \in ToSet(transactionQueue)
    BY <2>1, ElementOfSeq, ToSetMember
  <2>3. r \in Ranks
    BY <2>2, TransactionFields
  <2>4. /\ Sorted(transactionQueue')
        /\ \A x : x \in ToSet(transactionQueue') <=> x \in ToSet(transactionQueue) /\ x # c
    BY <1>2, <1>5, <2>1, RemoveAtOrder DEF QueuesSorted
  <2>5. /\ Sorted(Append(queues[r], c))
        /\ \A x : x \in ToSet(Append(queues[r], c)) <=> x \in ToSet(queues[r]) \/ x = c
    <3>1. \A x \in ToSet(queues[r]) : x.id < c.id
      BY <1>2, <2>2, <2>3 DEF RankOrder
    <3>2. queues[r] \in Seq(Transactions) /\ Sorted(queues[r])
      BY <1>2, <2>1, <2>3 DEF QueuesSorted
    <3> HIDE DEF c, r
    <3> QED
      BY <2>2, <3>1, <3>2, AppendOrder
  <2>6. /\ queues'[r] = Append(queues[r], c)
        /\ \A s \in Ranks : s # r => queues'[s] = queues[s]
    BY <1>5, <2>1, <2>3
  <2>7. \A u \in ToSet(transactionQueue') : u.addr.rank = r => c.id < u.id
    <3> SUFFICES ASSUME NEW u \in ToSet(transactionQueue), u # c, u.addr.rank = r
                 PROVE  c.id < u.id
      BY <2>4
    <3>1. PICK j \in 1 .. Len(transactionQueue) : transactionQueue[j] = u
      BY <2>1, ToSetMember
    <3>2. j \notin 1 .. i - 1
      BY <1>5, <3>1 DEF Dispatchable
    <3>3. i < j
      BY <2>1, <3>1, <3>2, LenProperties
    <3> QED
      BY <1>2, <3>1, <3>3 DEF QueuesSorted, Sorted
  <2> HIDE DEF c, r
  <2>8. QueuesSorted'
    <3>1. \A s \in Ranks : Sorted(queues'[s])
      BY <1>2, <2>5, <2>6 DEF QueuesSorted
    <3> QED
      BY <1>1, <1>2, <2>4, <3>1 DEF QueuesSorted
  <2>9. PendingNewest'
    <3>1. \A s \in Ranks : \A x \in ToSet(queues'[s]) :
             x \in ToSet(queues[s]) \/ x \in ToSet(transactionQueue)
      BY <2>2, <2>5, <2>6
    <3> QED
      BY <1>1, <1>2, <2>4, <3>1 DEF PendingNewest
  <2>10. RankOrder'
    <3> SUFFICES ASSUME NEW s \in Ranks, NEW x \in ToSet(queues'[s])
                 PROVE  /\ x.addr.rank = s
                        /\ \A u \in ToSet(transactionQueue') :
                             u.addr.rank = s => x.id < u.id
      BY DEF RankOrder
    <3>1. CASE x \in ToSet(queues[s])
      BY <1>2, <2>4, <3>1 DEF RankOrder
    <3>2. CASE x \notin ToSet(queues[s])
      <4>1. s = r /\ x = c
        BY <2>5, <2>6, <3>2
      <4> QED
        BY <2>7, <4>1 DEF r
    <3> QED
      BY <3>1, <3>2
  <2>11. Fenced'
    <3>1. \A x : x \in Waiting' <=> x \in Waiting
      <4>1. \A x : (\E s \in Ranks : x \in ToSet(queues'[s])) <=>
                     (x = c \/ \E s \in Ranks : x \in ToSet(queues[s]))
        BY <2>3, <2>5, <2>6
      <4> QED
        BY <1>1, <2>2, <2>4, <4>1 DEF Waiting, QueuedIn
    <3>2. nextId' >= nextId /\ nextId' \in Int
      BY <1>1, <2>1
    <3> QED
      BY <1>0, <1>1, <1>2, <2>1, <3>1, <3>2, FenceIds, FencedUnchanged
  <2> QED
    BY <1>0, <1>3, <2>8, <2>9, <2>10, <2>11 DEF OrderInv
<1> QED
  BY <1>4, <1>5 DEF Dispatch

(* A client that overtakes nothing.                                        *)
Patient ==
  (\E type \in {"DATA_READ", "DATA_WRITE"}, addr \in Addresses : AddTransaction(type, addr))
    \/ AddBarrier => ~Overtakes

LEMMA ClientsPatient ==
  ASSUME CLIENT # "eager"
  PROVE  OrderInv => Patient
<1> SUFFICES ASSUME OrderInv,
                    \/ \E type \in {"DATA_READ", "DATA_WRITE"}, addr \in Addresses :
                         AddTransaction(type, addr)
                    \/ AddBarrier
             PROVE  ~Overtakes
  BY DEF Patient
<1>1. phase = "client" /\ MayAdd
  BY DEF AddTransaction, AddBarrier
<1> QED
  BY <1>1, ClientsWait

(* OrderInv is inductive for it.                                           *)
LEMMA OrderNext ==
  OrderInv /\ [FlowNext]_flowVars /\ [Patient]_flowVars => OrderInv'
<1> SUFFICES ASSUME OrderInv, [FlowNext]_flowVars, [Patient]_flowVars PROVE OrderInv'
  OBVIOUS
<1>0. CASE UNCHANGED flowVars
  BY <1>0, ClientIdleOrder
<1> SUFFICES ASSUME Patient PROVE OrderInv'
  BY <1>0
<1>1. ASSUME NEW type \in {"DATA_READ", "DATA_WRITE"}, NEW addr \in Addresses,
             AddTransaction(type, addr)
      PROVE  OrderInv'
  BY <1>1, AddTransactionOrder DEF Patient
<1>2. CASE AddBarrier
  BY <1>2, AddBarrierOrder DEF Patient
<1>3. CASE BeginUpdate \/ RunReturns \/ UNCHANGED flowVars
  BY <1>3, ClientIdleOrder
<1>4. CASE AcceptPending
  BY <1>4, AcceptPendingOrder
<1>5. CASE CompleteWrite \/ CompleteRead
  BY <1>5, CompleteOrder
<1>6. CASE Issue
  BY <1>6, IssueOrder
<1>7. CASE Dispatch
  BY <1>7, DispatchOrder
<1> QED
  BY <1>1, <1>2, <1>3, <1>4, <1>5, <1>6, <1>7
  DEF FlowNext, ClientStep, UpdateStep

-----------------------------------------------------------------------------
(* Only the scheduler issues, and what it issues was eligible.             *)
LEMMA IssuedByIssue ==
  ASSUME FlowInv, [FlowNext]_flowVars, NEW t \in Issued
  PROVE  \E r \in Ranks : \E i \in 1 .. Len(queues[r]) :
           Eligible(queues[r], i) /\ t = queues[r][i]
<1>1. t \in Waiting /\ t \in inFlight' /\ t \notin inFlight
  BY Placed DEF Issued
<1>2. ASSUME inFlight' \subseteq inFlight PROVE FALSE
  BY <1>1, <1>2
<1>3. \/ inFlight' \subseteq inFlight
      \/ Issue
  BY DEF FlowNext, ClientStep, UpdateStep, flowVars, AddTransaction, AddBarrier, BeginUpdate,
         RunReturns, AcceptPending, CompleteWrite, CompleteRead, Complete, Dispatch
<1> QED
  BY <1>1, <1>2, <1>3 DEF Issue

(* One step of the scheduler: nothing added before for the same burst is   *)
(* left behind.                                                            *)
LEMMA SameAddressStep ==
  ASSUME OrderInv, [FlowNext]_flowVars
  PROVE  \A t \in Issued : \A u \in Waiting : u.addr = t.addr => t.id <= u.id
<1> SUFFICES ASSUME NEW t \in Issued, NEW u \in Waiting, u.addr = t.addr, ~(t.id <= u.id)
             PROVE  FALSE
  OBVIOUS
<1>0. PICK r \in Ranks :
        \E i \in 1 .. Len(queues[r]) : Eligible(queues[r], i) /\ t = queues[r][i]
  BY IssuedByIssue DEF OrderInv
<1>1. PICK i \in 1 .. Len(queues[r]) : Eligible(queues[r], i) /\ t = queues[r][i]
  BY <1>0
<1>2. /\ queues[r] \in Seq(Transactions) /\ Waiting \subseteq Transactions
      /\ t \in Waiting
  BY Placed DEF OrderInv, Issued
<1>3. t \in ToSet(queues[r]) /\ t.id \in Int /\ u.id \in Int
  BY <1>1, <1>2, ToSetMember, TransactionFields
<1>4. u.addr.rank = r
  BY <1>3 DEF OrderInv, RankOrder
<1>5. PICK j \in 1 .. i : queues[r][j] = u
  BY <1>1, <1>3, <1>4, OlderIsAhead
<1>6. j = i \/ j \in 1 .. i - 1
  BY <1>1, <1>2, LenProperties
<1>7. j # i
  BY <1>1, <1>3, <1>5
<1> QED
  BY <1>1, <1>5, <1>6, <1>7 DEF Eligible

(* One step of the scheduler: what a barrier holds back stays behind.      *)
LEMMA BarrierStep ==
  ASSUME OrderInv, [FlowNext]_flowVars
  PROVE  \A t \in Issued : \A u \in Waiting : \A f \in fences :
           (t.addr.rank = f.rank /\ u.addr.rank = f.rank /\ u.id <= f.id) => t.id <= f.id
<1> SUFFICES ASSUME NEW t \in Issued, NEW u \in Waiting, NEW f \in fences,
                    t.addr.rank = f.rank, u.addr.rank = f.rank, u.id <= f.id,
                    ~(t.id <= f.id)
             PROVE  FALSE
  OBVIOUS
<1>0. PICK r \in Ranks :
        \E i \in 1 .. Len(queues[r]) : Eligible(queues[r], i) /\ t = queues[r][i]
  BY IssuedByIssue DEF OrderInv
<1>1. PICK i \in 1 .. Len(queues[r]) : Eligible(queues[r], i) /\ t = queues[r][i]
  BY <1>0
<1>2. /\ queues[r] \in Seq(Transactions) /\ Waiting \subseteq Transactions
      /\ t \in Waiting
  BY Placed DEF OrderInv, Issued
<1>3. t \in ToSet(queues[r]) /\ t.id \in Int /\ f.id \in Int
  BY <1>1, <1>2, ToSetMember, TransactionFields, FenceIds DEF OrderInv
<1>4. f.rank = r
  BY <1>3 DEF OrderInv, RankOrder
<1>5. PICK e \in Before(f) : e.bar
  BY DEF OrderInv, Fenced, Before
<1>6. e \in Waiting /\ e.addr.rank = r /\ e.id <= f.id /\ e.id \in Int
  BY <1>2, <1>4, <1>5, TransactionFields DEF Before
<1>7. e.id <= t.id /\ e # t
  BY <1>3, <1>6
<1>8. PICK j \in 1 .. i : queues[r][j] = e
  BY <1>1, <1>6, <1>7, OlderIsAhead
<1>9. j = i \/ j \in 1 .. i - 1
  BY <1>1, <1>2, LenProperties
<1>10. j \in 1 .. i - 1
  BY <1>1, <1>7, <1>8, <1>9
<1> QED
  BY <1>1, <1>5, <1>8, <1>10 DEF Eligible

-----------------------------------------------------------------------------

(* A driver that adds only when nothing older waits in front of the        *)
(* controller, or behind it there, finds the queues in the order of the    *)
(* adds on the way to each rank.                                           *)
THEOREM OrderOfPatientClients == FlowSpec /\ [][Patient]_flowVars => []OrderInv
<1>1. FlowInit => OrderInv
  BY OrderInit
<1>2. OrderInv /\ [FlowNext]_flowVars /\ [Patient]_flowVars => OrderInv'
  BY OrderNext
<1> QED
  BY <1>1, <1>2, PTL DEF FlowSpec

(* From such queues no access overtakes an older one to the same burst,    *)
(* although the scheduler picks commands from the middle of them.          *)
THEOREM SameAddressFromOrder == FlowSpec /\ []OrderInv => SameAddressOrder
<1>1. OrderInv /\ [FlowNext]_flowVars =>
        [\A t \in Issued : \A u \in Waiting : u.addr = t.addr => t.id <= u.id]_flowVars
  BY SameAddressStep
<1> QED
  BY <1>1, PTL DEF FlowSpec, SameAddressOrder

(* And a barrier that addBarrier() accepted holds back everything added    *)
(* after it, for the rank of what it tagged, until everything added before *)
(* it has been issued.                                                     *)
THEOREM BarrierFromOrder == FlowSpec /\ []OrderInv => BarrierOrder
<1>1. OrderInv /\ [FlowNext]_flowVars =>
        [\A t \in Issued : \A u \in Waiting : \A f \in fences :
           (t.addr.rank = f.rank /\ u.addr.rank = f.rank /\ u.id <= f.id)
             => t.id <= f.id]_flowVars
  BY BarrierStep
<1> QED
  BY <1>1, PTL DEF FlowSpec, BarrierOrder

(* For a driver that adds a batch and runs it to the end, and for one that *)
(* asks willAcceptTransaction() before each add, the queues keep the order *)
(* of the adds on the way to each rank, and every accepted barrier stays   *)
(* behind what it fences off.                                              *)
THEOREM OrderInvariant ==
  ASSUME CLIENT # "eager"
  PROVE  FlowSpec => []OrderInv
<1>1. FlowInit => OrderInv
  BY OrderInit
<1>2. OrderInv /\ [FlowNext]_flowVars => OrderInv'
  BY ClientsPatient, OrderNext
<1> QED
  BY <1>1, <1>2, PTL DEF FlowSpec

(* Under those drivers no access overtakes an older one to the same burst. *)
THEOREM SameAddressOrderAlways ==
  ASSUME CLIENT # "eager"
  PROVE  FlowSpec => SameAddressOrder
BY OrderInvariant, SameAddressFromOrder, PTL

(* Under those drivers a barrier holds back what was added after it.       *)
THEOREM BarrierOrderAlways ==
  ASSUME CLIENT # "eager"
  PROVE  FlowSpec => BarrierOrder
BY OrderInvariant, BarrierFromOrder, PTL

=============================================================================

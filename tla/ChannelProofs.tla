----------------------------- MODULE ChannelProofs --------------------------
(***************************************************************************)
(* Invariants of one channel, cycle by cycle, for every geometry and every *)
(* timing the assumptions allow: its types, its refresh timers and its     *)
(* read queue.  The second half shows that reads come back to those who    *)
(* asked for them, and that the cycle-accurate channel implements          *)
(* TransactionFlow.                                                        *)
(***************************************************************************)
EXTENDS MemorySystem, CommonLemmas

-----------------------------------------------------------------------------
(* The refresh timers.  updateRefresh looks only at the rank whose turn it *)
(* is; that is enough because the timers keep the distances of their start *)
(* values, and with them the cyclic order, for ever.                       *)

(* Those whose turn of this round is over are one interval ahead.          *)
InTurn ==
  /\ refreshCountdown \in [Ranks -> Int]
  /\ nextRefresh \in Ranks
  /\ \A r \in Ranks :
       refreshCountdown[r] =
         refreshCountdown[nextRefresh] + FirstRefresh(r) - FirstRefresh(nextRefresh)
           + (IF r < nextRefresh THEN tREFI ELSE 0)
  /\ refreshCountdown[nextRefresh] >= 0
  /\ phase \in {"command", "dispatch", "return"} => refreshCountdown[nextRefresh] >= 1

(* The first refreshes are staggered and fit into one interval.            *)
LEMMA FirstRefreshStaggered ==
  /\ \A r \in Ranks : FirstRefresh(r) \in Int /\ FirstRefresh(r) >= 1 /\ FirstRefresh(r) <= tREFI
  /\ \A r, s \in Ranks : r < s => FirstRefresh(r) < FirstRefresh(s)
<1> DEFINE n == NUM_RANKS
           k == tREFI \div n
<1>1. n \in Nat /\ n >= 1 /\ tREFI \in Nat /\ n <= tREFI
  BY GeometryAssumption, TimingAssumption
<1>2. k \in Nat /\ k >= 1 /\ n * k <= tREFI
  BY <1>1
<1> HIDE DEF k
<1>3. ASSUME NEW r \in Ranks
      PROVE  /\ k * (r + 1) \in Int /\ k * (r + 1) >= 1 /\ k * (r + 1) <= tREFI
  BY <1>1, <1>2, <1>3 DEF Ranks
<1>4. ASSUME NEW r \in Ranks, NEW s \in Ranks, r < s
      PROVE  k * (r + 1) < k * (s + 1)
  BY <1>1, <1>2, <1>4 DEF Ranks
<1> QED
  BY <1>3, <1>4 DEF FirstRefresh, k

(* The turn goes round.                                                    *)
LEMMA NextTurn ==
  ASSUME NEW r \in Ranks
  PROVE  /\ (r + 1) % NUM_RANKS \in Ranks
         /\ (r + 1) % NUM_RANKS = IF r + 1 < NUM_RANKS THEN r + 1 ELSE 0
<1>1. NUM_RANKS \in Nat /\ NUM_RANKS >= 1 /\ r \in Nat /\ r + 1 <= NUM_RANKS
  BY GeometryAssumption DEF Ranks
<1>2. CASE r + 1 < NUM_RANKS
  BY <1>1, <1>2 DEF Ranks
<1>3. CASE r + 1 = NUM_RANKS
  BY <1>1, <1>3 DEF Ranks
<1> QED
  BY <1>1, <1>2, <1>3

LEMMA InTurnInit == Init => InTurn
<1> SUFFICES ASSUME Init PROVE InTurn
  OBVIOUS
<1>1. /\ refreshCountdown = [r \in Ranks |-> FirstRefresh(r)]
      /\ nextRefresh = 0 /\ phase = "client"
  BY DEF Init, ControllerInit
<1>2. 0 \in Ranks /\ \A r \in Ranks : ~(r < 0)
  BY GeometryAssumption DEF Ranks
<1> QED
  BY <1>1, <1>2, FirstRefreshStaggered DEF InTurn

(* updateRefresh: the due rank starts its next interval, behind the others. *)
LEMMA InTurnRefresh ==
  ASSUME InTurn, RefreshTimers
  PROVE  InTurn'
<1> DEFINE n == nextRefresh
           m == (n + 1) % NUM_RANKS
           C == refreshCountdown
<1>1. phase = "refresh" /\ phase' = "command"
  BY DEF RefreshTimers
<1>2. /\ C \in [Ranks -> Int] /\ n \in Ranks /\ C[n] >= 0
      /\ \A r \in Ranks : C[r] = C[n] + FirstRefresh(r) - FirstRefresh(n)
                                   + (IF r < n THEN tREFI ELSE 0)
  BY DEF InTurn
<1>3. CASE C[n] # 0
  <2>1. C' = C /\ n' = n
    BY <1>3 DEF RefreshTimers, UpdateRefresh
  <2> QED
    BY <1>1, <1>2, <1>3, <2>1 DEF InTurn
<1>4. CASE C[n] = 0
  <2>1. C' = [C EXCEPT ![n] = tREFI] /\ n' = m
    BY <1>4 DEF RefreshTimers, UpdateRefresh
  <2>2. m \in Ranks /\ m = IF n + 1 < NUM_RANKS THEN n + 1 ELSE 0
    BY <1>2, NextTurn
  <2>3. tREFI \in Int /\ tREFI >= 1
    BY TimingAssumption
  <2>4. C' \in [Ranks -> Int] /\ C'[n] = tREFI /\ \A r \in Ranks : r # n => C'[r] = C[r]
    BY <1>2, <2>1, <2>3
  <2> DEFINE F == [r \in Ranks |-> FirstRefresh(r)]
  <2>5. /\ \A r \in Ranks : F[r] \in Int /\ F[r] >= 1 /\ F[r] <= tREFI
        /\ \A r, s \in Ranks : r < s => F[r] < F[s]
        /\ \A r \in Ranks : FirstRefresh(r) = F[r]
    BY FirstRefreshStaggered
  <2> HIDE DEF F, m
  <2>6. \A r \in Ranks : r \in Int /\ r >= 0 /\ r + 1 <= NUM_RANKS
    BY GeometryAssumption DEF Ranks
  <2>7. \A r \in Ranks : C[r] = F[r] - F[n] + (IF r < n THEN tREFI ELSE 0)
    BY <1>2, <1>4, <2>3, <2>5
  <2>8. CASE n + 1 < NUM_RANKS
    <3>1. m = n + 1
      BY <2>2, <2>8
    <3>2. C'[m] = F[m] - F[n] /\ C'[m] >= 1
      BY <1>2, <2>2, <2>3, <2>4, <2>5, <2>6, <2>7, <3>1
    <3>3. \A r \in Ranks : C'[r] = C'[m] + F[r] - F[m] + (IF r < m THEN tREFI ELSE 0)
      BY <1>2, <2>2, <2>3, <2>4, <2>5, <2>6, <2>7, <3>1, <3>2
    <3>4. phase' = "command" /\ C'[m] \in Int /\ C'[m] >= 0 /\ C' \in [Ranks -> Int]
      BY <1>1, <2>2, <2>4, <3>2
    <3>5. \A r \in Ranks : C'[r] = C'[n'] + FirstRefresh(r) - FirstRefresh(n')
                                     + (IF r < n' THEN tREFI ELSE 0)
      BY <2>1, <2>2, <2>5, <3>3
    <3>6. n' \in Ranks /\ C'[n'] >= 0 /\ C'[n'] >= 1
      BY <2>1, <2>2, <3>2, <3>4
    <3> HIDE DEF C, n
    <3> QED
      BY <3>4, <3>5, <3>6 DEF InTurn, C, n
  <2>9. CASE n + 1 = NUM_RANKS
    <3>1. m = 0
      BY <2>2, <2>6, <2>9
    <3>2. \A r \in Ranks : ~(r < m) /\ (r # n => r < n)
      BY <1>2, <2>6, <2>9, <3>1
    <3>3. C'[m] = F[m] - F[n] + tREFI /\ C'[m] >= 1
      BY <1>2, <2>2, <2>3, <2>4, <2>5, <2>6, <2>7, <3>2
    <3>4. \A r \in Ranks : C'[r] = C'[m] + F[r] - F[m]
      BY <1>2, <2>2, <2>3, <2>4, <2>5, <2>6, <2>7, <3>2, <3>3
    <3>5. C'[m] \in Int /\ C'[m] >= 0 /\ C' \in [Ranks -> Int]
      BY <2>2, <2>4, <3>3
    <3>6. \A r \in Ranks : C'[r] = C'[n'] + FirstRefresh(r) - FirstRefresh(n')
                                     + (IF r < n' THEN tREFI ELSE 0)
      BY <2>1, <2>2, <2>3, <2>4, <2>5, <3>2, <3>4
    <3>7. n' \in Ranks /\ C'[n'] >= 0 /\ C'[n'] >= 1
      BY <2>1, <2>2, <3>3, <3>5
    <3> HIDE DEF C, n
    <3> QED
      BY <3>5, <3>6, <3>7 DEF InTurn, C, n
  <2>10. n + 1 < NUM_RANKS \/ n + 1 = NUM_RANKS
    <3>1. n \in Ranks
      BY <1>2
    <3> QED
      BY <2>6, <3>1, GeometryAssumption
  <2> QED
    BY <2>8, <2>9, <2>10
<1> QED
  BY <1>3, <1>4

(* The end of update(): one cycle less for every rank.                     *)
LEMMA InTurnTick ==
  ASSUME InTurn, EndUpdate
  PROVE  InTurn'
<1>1. /\ phase = "return" /\ phase' = "client"
      /\ refreshCountdown' = [r \in Ranks |-> refreshCountdown[r] - 1]
      /\ nextRefresh' = nextRefresh
  BY DEF EndUpdate, TickController
<1>2. /\ refreshCountdown \in [Ranks -> Int] /\ nextRefresh \in Ranks
      /\ refreshCountdown[nextRefresh] >= 1
      /\ \A r \in Ranks :
           refreshCountdown[r] =
             refreshCountdown[nextRefresh] + FirstRefresh(r) - FirstRefresh(nextRefresh)
               + (IF r < nextRefresh THEN tREFI ELSE 0)
  BY <1>1 DEF InTurn
<1>3. refreshCountdown' \in [Ranks -> Int]
  BY <1>1, <1>2
<1>4. \A r \in Ranks : refreshCountdown'[r] = refreshCountdown[r] - 1
  BY <1>1
<1>5. tREFI \in Int
  BY TimingAssumption
<1> QED
  BY <1>1, <1>2, <1>3, <1>4, <1>5, FirstRefreshStaggered DEF InTurn

(* Every other step leaves the timers alone.                               *)
LEMMA InTurnNext == InTurn /\ [Next]_vars => InTurn'
<1> SUFFICES ASSUME InTurn, [Next]_vars PROVE InTurn'
  OBVIOUS
<1>1. CASE RefreshTimers
  BY <1>1, InTurnRefresh
<1>2. CASE EndUpdate
  BY <1>2, InTurnTick
<1>3. ASSUME UNCHANGED << refreshCountdown, nextRefresh >>,
             phase' \in {"dispatch", "return"} => phase \in {"command", "dispatch", "return"},
             phase' # "command" \/ phase' = phase
      PROVE  InTurn'
  BY <1>3 DEF InTurn
<1>4. CASE UNCHANGED vars
  BY <1>3, <1>4 DEF vars, controllerVars
<1>5. CASE ClientStep
  BY <1>3, <1>5 DEF ClientStep, AddTransaction, AddBarrier, RunReturns, ChannelUnchanged
<1>6. CASE BeginUpdate \/ AcceptPending
  BY <1>3, <1>6 DEF BeginUpdate, AcceptPending, ChannelUnchanged
<1>7. CASE Bus
  BY <1>3, <1>7 DEF Bus, DriveBuses
<1>8. CASE Command
  BY <1>3, <1>8 DEF Command, SendCommand
<1>9. CASE Dispatch
  BY <1>3, <1>9 DEF Dispatch, UpdateTransactionQueue
<1> QED
  BY <1>1, <1>2, <1>4, <1>5, <1>6, <1>7, <1>8, <1>9 DEF Next, UpdateStep

(* No refresh timer passes 0, although updateRefresh tests only the one    *)
(* whose turn it is: for every number of ranks up to tREFI.                *)
THEOREM RefreshOnScheduleAlways == Spec => []RefreshOnSchedule
<1>1. InTurn => RefreshOnSchedule
  <2> SUFFICES ASSUME InTurn, NEW r \in Ranks PROVE refreshCountdown[r] >= 0
    BY DEF RefreshOnSchedule
  <2>1. /\ nextRefresh \in Ranks
        /\ refreshCountdown[nextRefresh] \in Int /\ refreshCountdown[nextRefresh] >= 0
        /\ refreshCountdown[r] =
             refreshCountdown[nextRefresh] + FirstRefresh(r) - FirstRefresh(nextRefresh)
               + (IF r < nextRefresh THEN tREFI ELSE 0)
    BY DEF InTurn
  <2>2. r \in Int /\ nextRefresh \in Int /\ tREFI \in Int
    BY <2>1, GeometryAssumption, TimingAssumption DEF Ranks
  <2>3. /\ FirstRefresh(r) \in Int /\ FirstRefresh(nextRefresh) \in Int
        /\ FirstRefresh(r) >= 1 /\ FirstRefresh(nextRefresh) <= tREFI
        /\ nextRefresh < r => FirstRefresh(nextRefresh) < FirstRefresh(r)
    BY <2>1, FirstRefreshStaggered
  <2>4. CASE r < nextRefresh
    BY <2>1, <2>2, <2>3, <2>4
  <2>5. CASE r = nextRefresh
    BY <2>1, <2>5
  <2>6. CASE nextRefresh < r
    BY <2>1, <2>2, <2>3, <2>6
  <2> QED
    BY <2>2, <2>4, <2>5, <2>6
<1> QED
  BY <1>1, InTurnInit, InTurnNext, PTL DEF Spec

-----------------------------------------------------------------------------
(* A line of bursts in front of a data bus: reads behind a rank, write     *)
(* data behind the controller.                                             *)

(* A burst takes at least one cycle.                                       *)
LEMMA BurstLength == BurstCycles \in Nat /\ BurstCycles >= 1
  BY TimingAssumption DEF BurstCycles

(* What waits out its latency in front of a data bus, and what is on the   *)
(* bus.                                                                    *)
Latencies == [trans : Transactions, countdown : Int]
BusBursts == [trans : Transactions, cyclesLeft : Int]

(* The line in front of a data bus: readReturn and rankData of a rank, or  *)
(* writeData and outgoingData of the controller.                           *)
IsLine(q, out) == q \in Seq(Latencies) /\ out \in Seq(BusBursts) /\ IsShort(out)

(* Cycles until the last burst of the line has left the bus.               *)
Until(q, out) ==
  IF q # << >> THEN q[Len(q)].countdown + BurstCycles
  ELSE IF out # << >> THEN out[1].cyclesLeft ELSE 0

(* The bursts of a line follow each other without overlap.                 *)
Spaced(q, out) ==
  /\ \A i \in 1 .. Len(q) : q[i].countdown >= 1
  /\ \A i, j \in 1 .. Len(q) : i < j => q[j].countdown >= q[i].countdown + BurstCycles
  /\ out # << >> =>
       /\ out[1].cyclesLeft >= 1 /\ out[1].cyclesLeft <= BurstCycles
       /\ q # << >> => q[1].countdown >= out[1].cyclesLeft

(* The front of the line moves onto the bus; the burst on the bus ends.    *)
Starts(q) == q # << >> /\ Head(q).countdown = 1

Ends(out) == out # << >> /\ Head(out).cyclesLeft = 1

(* What a cycle does to a line: Rank::update for reads,                    *)
(* MemoryController::updateDataPacket for writes.                          *)
NextLatencies(q) == IF Starts(q) THEN Tail(CountReturns(q)) ELSE CountReturns(q)

NextBurst(q, out) ==
  IF Starts(q) THEN << [trans |-> Head(q).trans, cyclesLeft |-> BurstCycles] >>
  ELSE IF out = << >> \/ Ends(out) THEN << >>
  ELSE << [Head(out) EXCEPT !.cyclesLeft = @ - 1] >>

(* The two ways a line moves: its front takes the bus, or all of it just   *)
(* counts down.                                                            *)
MovesUp(q, out, q2, out2) ==
  /\ Starts(q)
  /\ q # << >> /\ out2 # << >>
  /\ out2[1].trans = q[1].trans
  /\ Len(q) >= 1 /\ Len(q2) = Len(q) - 1
  /\ \A i \in 1 .. Len(q2) :
       /\ i + 1 \in 1 .. Len(q)
       /\ q2[i].trans = q[i + 1].trans /\ q2[i].countdown = q[i + 1].countdown - 1

StaysPut(q, out, q2, out2) ==
  /\ ~Starts(q)
  /\ Len(q2) = Len(q)
  /\ \A i \in 1 .. Len(q) :
       q2[i].trans = q[i].trans /\ q2[i].countdown = q[i].countdown - 1
  /\ out = << >> => out2 = << >>
  /\ Ends(out) => out2 = << >>
  /\ (out # << >> /\ ~Ends(out)) => (out2 # << >> /\ out2[1].trans = out[1].trans)

(* The bus holds one burst.                                                *)
LEMMA OneBurst ==
  ASSUME NEW b \in BusBursts
  PROVE  << b >> \in Seq(BusBursts) /\ IsShort(<< b >>) /\ << b >> # << >> /\ << b >>[1] = b
  BY DEF IsShort

(* The front of a sequence that is not empty is its first element.         *)
LEMMA ShortFront ==
  ASSUME NEW S, NEW out \in Seq(S), out # << >>
  PROVE  Head(out) = out[1] /\ out[1] \in S
  BY TailMember

(* Counting down keeps the transactions and their order.                   *)
LEMMA Counted ==
  ASSUME NEW q \in Seq(Latencies)
  PROVE  /\ CountReturns(q) \in Seq(Latencies)
         /\ Len(CountReturns(q)) = Len(q)
         /\ \A i \in 1 .. Len(q) :
              /\ CountReturns(q)[i].trans = q[i].trans
              /\ CountReturns(q)[i].countdown = q[i].countdown - 1
         /\ q # << >> => CountReturns(q) # << >>
<1>1. PICK n \in Nat : n = Len(q)
  BY LenProperties
<1>2. DOMAIN q = 1 .. n
  BY <1>1, LenProperties
<1>3. \A i \in 1 .. n : q[i] \in Latencies
  BY <1>1, ElementOfSeq
<1> DEFINE c == CountReturns(q)
<1>4. c = [i \in 1 .. n |-> [q[i] EXCEPT !.countdown = @ - 1]]
  BY <1>2 DEF CountReturns
<1>5. \A i \in 1 .. n : [q[i] EXCEPT !.countdown = @ - 1] \in Latencies
  BY <1>3 DEF Latencies
<1>6. c \in [1 .. n -> Latencies]
  BY <1>4, <1>5
<1>7. c \in Seq(Latencies) /\ Len(c) = n
  <2> HIDE DEF c
  <2> QED BY <1>6, SeqDef, LenProperties
<1>8. \A i \in 1 .. n : c[i] = [q[i] EXCEPT !.countdown = @ - 1]
  BY <1>4
<1>9. \A i \in 1 .. n : c[i].trans = q[i].trans /\ c[i].countdown = q[i].countdown - 1
  <2> HIDE DEF c
  <2> QED BY <1>3, <1>8 DEF Latencies
<1> HIDE DEF c
<1>10. q # << >> => c # << >>
  BY <1>1, <1>7, EmptySeq
<1> QED
  BY <1>1, <1>7, <1>9, <1>10 DEF c

(* A cycle moves a line in one of the two ways.                            *)
LEMMA LineMoves ==
  ASSUME NEW q, NEW out, IsLine(q, out)
  PROVE  /\ IsLine(NextLatencies(q), NextBurst(q, out))
         /\ \/ MovesUp(q, out, NextLatencies(q), NextBurst(q, out))
            \/ StaysPut(q, out, NextLatencies(q), NextBurst(q, out))
<1> DEFINE c == CountReturns(q)
           q2 == NextLatencies(q)
           out2 == NextBurst(q, out)
<1>1. q \in Seq(Latencies) /\ out \in Seq(BusBursts) /\ IsShort(out)
  BY DEF IsLine
<1>2. /\ c \in Seq(Latencies) /\ Len(c) = Len(q)
      /\ \A i \in 1 .. Len(q) :
           c[i].trans = q[i].trans /\ c[i].countdown = q[i].countdown - 1
      /\ q # << >> => c # << >>
  BY <1>1, Counted
<1>3. Len(q) \in Nat
  BY <1>1, LenProperties
<1>4. q # << >> => Head(q) = q[1] /\ q[1] \in Latencies /\ Len(q) >= 1
  BY <1>1, <1>3, TailMember
<1>5. out # << >> => Head(out) = out[1] /\ out[1] \in BusBursts
  BY <1>1, ShortFront
<1>6. BurstCycles \in Int
  BY BurstLength
<1> HIDE DEF c
<1>7. CASE Starts(q)
  <2>1. q2 = Tail(c)
    BY <1>7 DEF NextLatencies, c
  <2>2. q # << >> /\ c # << >> /\ Head(q) = q[1] /\ q[1].countdown = 1 /\ q[1] \in Latencies
    BY <1>2, <1>4, <1>7 DEF Starts
  <2>3. /\ q2 \in Seq(Latencies) /\ Len(q2) = Len(c) - 1
        /\ \A i \in 1 .. Len(c) - 1 : q2[i] = c[i + 1]
    BY <1>2, <2>1, <2>2, TailMember
  <2>4. out2 = << [trans |-> q[1].trans, cyclesLeft |-> BurstCycles] >>
    BY <1>7, <2>2 DEF NextBurst
  <2>5. [trans |-> q[1].trans, cyclesLeft |-> BurstCycles] \in BusBursts
    BY <1>6, <2>2 DEF Latencies, BusBursts
  <2> HIDE DEF q2, out2
  <2>6. out2 \in Seq(BusBursts) /\ IsShort(out2) /\ out2 # << >> /\ out2[1].trans = q[1].trans
    BY <2>4, <2>5, OneBurst
  <2>8. /\ Len(q) >= 1 /\ Len(q2) = Len(q) - 1
        /\ \A i \in 1 .. Len(q2) : i + 1 \in 1 .. Len(q) /\ i \in 1 .. Len(c) - 1
    BY <1>2, <1>3, <1>4, <2>2, <2>3
  <2>9. \A i \in 1 .. Len(q2) :
          q2[i].trans = q[i + 1].trans /\ q2[i].countdown = q[i + 1].countdown - 1
    BY <1>2, <2>3, <2>8
  <2>10. MovesUp(q, out, q2, out2)
    BY <1>7, <2>2, <2>6, <2>8, <2>9 DEF MovesUp
  <2> QED
    BY <2>3, <2>6, <2>10 DEF IsLine, q2, out2
<1>8. CASE ~Starts(q)
  <2>1. q2 = c
    BY <1>8 DEF NextLatencies, c
  <2>2. CASE out = << >> \/ Ends(out)
    <3>1. out2 = << >>
      BY <1>8, <2>2 DEF NextBurst
    <3>2. out2 \in Seq(BusBursts) /\ IsShort(out2)
      BY <3>1, EmptySeq DEF IsShort
    <3> HIDE DEF q2, out2
    <3>3. StaysPut(q, out, q2, out2)
      BY <1>2, <1>8, <2>1, <2>2, <3>1 DEF StaysPut
    <3> QED
      BY <1>2, <2>1, <3>2, <3>3 DEF IsLine, q2, out2
  <2>3. CASE out # << >> /\ ~Ends(out)
    <3>1. out2 = << [out[1] EXCEPT !.cyclesLeft = @ - 1] >>
      BY <1>5, <1>8, <2>3 DEF NextBurst
    <3>2. /\ [out[1] EXCEPT !.cyclesLeft = @ - 1] \in BusBursts
          /\ [out[1] EXCEPT !.cyclesLeft = @ - 1].trans = out[1].trans
      BY <1>5, <2>3 DEF BusBursts
    <3> HIDE DEF q2, out2
    <3>3. out2 \in Seq(BusBursts) /\ IsShort(out2) /\ out2 # << >> /\ out2[1].trans = out[1].trans
      BY <3>1, <3>2, OneBurst
    <3>4. StaysPut(q, out, q2, out2)
      BY <1>2, <1>8, <2>1, <2>3, <3>3 DEF StaysPut
    <3> QED
      BY <1>2, <2>1, <3>3, <3>4 DEF IsLine, q2, out2
  <2> QED
    BY <2>2, <2>3
<1> QED
  BY <1>7, <1>8

(* A burst that starts finds the data pins free.                           *)
LEMMA PinsFree ==
  ASSUME NEW q, NEW out, IsLine(q, out), Spaced(q, out), Starts(q)
  PROVE  out = << >> \/ Ends(out)
<1> SUFFICES ASSUME out # << >> PROVE Head(out).cyclesLeft = 1
  BY DEF Ends
<1>1. q \in Seq(Latencies) /\ out \in Seq(BusBursts)
  BY DEF IsLine
<1>2. Head(out) = out[1] /\ out[1] \in BusBursts
  BY <1>1, ShortFront
<1>3. q # << >> /\ q[1].countdown = 1
  BY <1>1, ShortFront DEF Starts
<1>4. out[1].cyclesLeft >= 1 /\ q[1].countdown >= out[1].cyclesLeft
  BY <1>3 DEF Spaced
<1> QED
  BY <1>2, <1>3, <1>4 DEF BusBursts

(* What is on the data pins counts down to its end.                        *)
LEMMA BurstCounts ==
  ASSUME NEW q, NEW out, IsLine(q, out)
  PROVE  NextBurst(q, out) # << >> =>
           NextBurst(q, out)[1].cyclesLeft =
             IF Starts(q) THEN BurstCycles ELSE out[1].cyclesLeft - 1
<1> DEFINE out2 == NextBurst(q, out)
<1>1. out # << >> => Head(out) = out[1] /\ out[1] \in BusBursts
  BY ShortFront DEF IsLine
<1>2. CASE Starts(q)
  BY <1>2 DEF NextBurst
<1>3. CASE ~Starts(q) /\ (out = << >> \/ Ends(out))
  BY <1>3 DEF NextBurst
<1>4. CASE ~Starts(q) /\ out # << >> /\ ~Ends(out)
  <2>1. out2 = << [out[1] EXCEPT !.cyclesLeft = @ - 1] >>
    BY <1>1, <1>4 DEF NextBurst
  <2>2. [out[1] EXCEPT !.cyclesLeft = @ - 1].cyclesLeft = out[1].cyclesLeft - 1
    BY <1>1, <1>4 DEF BusBursts
  <2>3. out2[1] = [out[1] EXCEPT !.cyclesLeft = @ - 1]
    BY <2>1
  <2> QED
    BY <1>4, <2>2, <2>3
<1> QED
  <2>1. Starts(q) \/ (~Starts(q) /\ (out = << >> \/ Ends(out))) \/ (~Starts(q) /\ out # << >> /\ ~Ends(out))
    OBVIOUS
  <2> QED BY <1>2, <1>3, <1>4, <2>1

(* A cycle keeps the bursts of a line apart and brings its end one cycle   *)
(* nearer.                                                                 *)
LEMMA SpacingKept ==
  ASSUME NEW q, NEW out, IsLine(q, out), Spaced(q, out)
  PROVE  /\ Spaced(NextLatencies(q), NextBurst(q, out))
         /\ Until(q, out) \in Nat /\ Until(NextLatencies(q), NextBurst(q, out)) \in Nat
         /\ Until(NextLatencies(q), NextBurst(q, out)) =
              IF Until(q, out) = 0 THEN 0 ELSE Until(q, out) - 1
<1> DEFINE q2 == NextLatencies(q)
           out2 == NextBurst(q, out)
<1>1. IsLine(q2, out2) /\ (MovesUp(q, out, q2, out2) \/ StaysPut(q, out, q2, out2))
  BY LineMoves
<1>2. out2 # << >> => out2[1].cyclesLeft = IF Starts(q) THEN BurstCycles
                                                        ELSE out[1].cyclesLeft - 1
  BY BurstCounts
<1> HIDE DEF q2, out2
<1>3. PICK n \in Nat : n = Len(q)
  BY LenProperties DEF IsLine
<1>4. /\ n = 0 <=> q = << >>
      /\ Len(q2) = 0 <=> q2 = << >>
  BY <1>1, <1>3, EmptySeq DEF IsLine
<1>5. BurstCycles \in Nat /\ BurstCycles >= 1
  BY BurstLength
<1>11. q \in Seq(Latencies) /\ out \in Seq(BusBursts)
  BY DEF IsLine
<1>6. \A i \in 1 .. n : q[i].countdown \in Int
  <2>1. \A i \in 1 .. n : q[i] \in Latencies
    BY <1>3, <1>11, ElementOfSeq
  <2> QED
    BY <2>1 DEF Latencies
<1>7. /\ out # << >> => out[1].cyclesLeft \in Int /\ Head(out) = out[1]
      /\ q # << >> => Head(q) = q[1]
  <2>1. out # << >> => Head(out) = out[1] /\ out[1] \in BusBursts
    BY <1>11, ShortFront
  <2>2. q # << >> => Head(q) = q[1]
    BY <1>11, ShortFront
  <2> QED
    BY <2>1, <2>2 DEF BusBursts
<1>8. /\ \A i \in 1 .. n : q[i].countdown >= 1
      /\ \A i, j \in 1 .. n : i < j => q[j].countdown >= q[i].countdown + BurstCycles
      /\ out # << >> =>
           /\ out[1].cyclesLeft >= 1 /\ out[1].cyclesLeft <= BurstCycles
           /\ q # << >> => q[1].countdown >= out[1].cyclesLeft
  BY <1>3 DEF Spaced
<1>9. CASE MovesUp(q, out, q2, out2)
  <2>1. /\ n >= 1 /\ Len(q2) = n - 1 /\ q[1].countdown = 1
        /\ \A i \in 1 .. n - 1 : i + 1 \in 1 .. n /\ q2[i].countdown = q[i + 1].countdown - 1
        /\ q # << >> /\ out2 # << >> /\ Starts(q)
    BY <1>3, <1>7, <1>9 DEF MovesUp, Starts
  <2>2. out2[1].cyclesLeft = BurstCycles
    BY <1>2, <2>1
  <2>3. \A i \in 1 .. n - 1 : q2[i].countdown >= BurstCycles
    <3> SUFFICES ASSUME NEW i \in 1 .. n - 1 PROVE q2[i].countdown >= BurstCycles
      OBVIOUS
    <3>1. 1 < i + 1 /\ 1 \in 1 .. n /\ i + 1 \in 1 .. n
      BY <2>1
    <3>2. q[i + 1].countdown >= q[1].countdown + BurstCycles
      BY <1>8, <3>1
    <3>3. q[i + 1].countdown \in Int /\ q[1].countdown = 1
      BY <1>6, <2>1, <3>1
    <3>4. q2[i].countdown = q[i + 1].countdown - 1
      BY <2>1
    <3> QED
      BY <1>5, <3>2, <3>3, <3>4
  <2>4. \A i, j \in 1 .. n - 1 : i < j => q2[j].countdown >= q2[i].countdown + BurstCycles
    <3> SUFFICES ASSUME NEW i \in 1 .. n - 1, NEW j \in 1 .. n - 1, i < j
                 PROVE  q2[j].countdown >= q2[i].countdown + BurstCycles
      OBVIOUS
    <3>1. i + 1 < j + 1 /\ i + 1 \in 1 .. n /\ j + 1 \in 1 .. n
      OBVIOUS
    <3>2. q[j + 1].countdown >= q[i + 1].countdown + BurstCycles
      BY <1>8, <3>1
    <3>3. q[j + 1].countdown \in Int /\ q[i + 1].countdown \in Int
      BY <1>6, <3>1
    <3>4. q2[i].countdown = q[i + 1].countdown - 1 /\ q2[j].countdown = q[j + 1].countdown - 1
      BY <2>1
    <3> QED
      BY <1>5, <3>2, <3>3, <3>4
  <2>5. Spaced(q2, out2)
    <3>1. q2 # << >> => 1 \in 1 .. n - 1
      BY <1>4, <2>1
    <3>2. \A i \in 1 .. n - 1 : q2[i].countdown \in Int
      BY <1>6, <2>1
    <3> QED
      BY <1>5, <2>1, <2>2, <2>3, <2>4, <3>1, <3>2 DEF Spaced
  <2>6. Until(q, out) = q[n].countdown + BurstCycles /\ n \in 1 .. n
    BY <1>3, <2>1 DEF Until
  <2>7. CASE n = 1
    <3>1. Until(q, out) = 1 + BurstCycles /\ Until(q2, out2) = BurstCycles
      BY <1>4, <2>1, <2>2, <2>6, <2>7 DEF Until
    <3> QED
      BY <1>5, <2>5, <3>1 DEF q2, out2
  <2>8. CASE n # 1
    <3>1. n - 1 \in 1 .. n - 1 /\ (n - 1) + 1 = n /\ q2 # << >>
      BY <1>4, <2>1, <2>8
    <3>2. Until(q2, out2) = q2[n - 1].countdown + BurstCycles
      BY <2>1, <3>1 DEF Until
    <3>3. q2[n - 1].countdown = q[n].countdown - 1
      BY <2>1, <3>1
    <3>4. q[n].countdown \in Int /\ q[n].countdown >= 1
      BY <1>6, <1>8, <2>6
    <3> QED
      BY <1>5, <2>5, <2>6, <3>2, <3>3, <3>4 DEF q2, out2
  <2> QED
    BY <2>7, <2>8
<1>10. CASE StaysPut(q, out, q2, out2)
  <2>1. /\ Len(q2) = n /\ ~Starts(q)
        /\ \A i \in 1 .. n : q2[i].countdown = q[i].countdown - 1
        /\ out2 # << >> => out # << >> /\ ~Ends(out)
        /\ out # << >> /\ ~Ends(out) => out2 # << >>
    BY <1>3, <1>10 DEF StaysPut
  <2>2. q # << >> => q[1].countdown # 1 /\ 1 \in 1 .. n
    BY <1>4, <1>7, <2>1 DEF Starts
  <2>3. \A i \in 1 .. n : q[i].countdown >= 2
    <3>1. \A i \in 1 .. n : i = 1 \/ 1 < i
      OBVIOUS
    <3> QED
      BY <1>4, <1>5, <1>6, <1>8, <2>2, <3>1
  <2>4. \A i, j \in 1 .. n : i < j => q2[j].countdown >= q2[i].countdown + BurstCycles
    <3> SUFFICES ASSUME NEW i \in 1 .. n, NEW j \in 1 .. n, i < j
                 PROVE  q2[j].countdown >= q2[i].countdown + BurstCycles
      OBVIOUS
    <3>1. q[j].countdown >= q[i].countdown + BurstCycles
      BY <1>8
    <3>2. /\ q[j].countdown \in Int /\ q[i].countdown \in Int
          /\ q2[i].countdown = q[i].countdown - 1 /\ q2[j].countdown = q[j].countdown - 1
      BY <1>6, <2>1
    <3> QED
      BY <1>5, <3>1, <3>2
  <2>5. /\ q2 # << >> <=> q # << >>
        /\ out2 # << >> =>
             /\ out2[1].cyclesLeft = out[1].cyclesLeft - 1
             /\ out[1].cyclesLeft \in Int /\ out[1].cyclesLeft # 1 /\ out # << >>
    BY <1>2, <1>4, <1>7, <2>1 DEF Ends
  <2>6. Spaced(q2, out2)
    <3>1. \A i \in 1 .. n : q2[i].countdown >= 1
      BY <1>6, <2>1, <2>3
    <3>2. out2 # << >> =>
            /\ out2[1].cyclesLeft >= 1 /\ out2[1].cyclesLeft <= BurstCycles
            /\ q2 # << >> => q2[1].countdown >= out2[1].cyclesLeft
      <4> SUFFICES ASSUME out2 # << >>
                   PROVE  /\ out2[1].cyclesLeft >= 1 /\ out2[1].cyclesLeft <= BurstCycles
                          /\ q2 # << >> => q2[1].countdown >= out2[1].cyclesLeft
        OBVIOUS
      <4>1. /\ out2[1].cyclesLeft = out[1].cyclesLeft - 1
            /\ out[1].cyclesLeft \in Int /\ out[1].cyclesLeft # 1
            /\ out[1].cyclesLeft >= 1 /\ out[1].cyclesLeft <= BurstCycles
            /\ q # << >> => q[1].countdown >= out[1].cyclesLeft
        BY <1>8, <2>5
      <4>2. q2 # << >> =>
              /\ q[1].countdown >= out[1].cyclesLeft
              /\ q[1].countdown \in Int /\ q2[1].countdown = q[1].countdown - 1
        BY <1>6, <2>1, <2>2, <2>5, <4>1
      <4> QED
        BY <1>5, <4>1, <4>2
    <3> QED
      BY <2>1, <2>4, <3>1, <3>2 DEF Spaced
  <2>7. CASE q # << >>
    <3>1. n \in 1 .. n
      BY <1>4, <2>7
    <3>2. /\ Until(q, out) = q[n].countdown + BurstCycles
          /\ Until(q2, out2) = q2[n].countdown + BurstCycles
      BY <1>3, <2>1, <2>5, <2>7 DEF Until
    <3>3. q[n].countdown \in Int /\ q[n].countdown >= 2 /\ q2[n].countdown = q[n].countdown - 1
      BY <1>6, <2>1, <2>3, <3>1
    <3> QED
      BY <1>5, <2>6, <3>2, <3>3 DEF q2, out2
  <2>8. CASE q = << >>
    <3>1. /\ Until(q, out) = IF out # << >> THEN out[1].cyclesLeft ELSE 0
          /\ Until(q2, out2) = IF out2 # << >> THEN out2[1].cyclesLeft ELSE 0
      BY <2>5, <2>8 DEF Until
    <3>2. out # << >> => (Ends(out) <=> out[1].cyclesLeft = 1)
      BY <1>7 DEF Ends
    <3>3. CASE out = << >>
      BY <2>1, <2>6, <3>1, <3>3 DEF q2, out2
    <3>4. CASE out # << >> /\ Ends(out)
      BY <2>1, <2>6, <3>1, <3>2, <3>4 DEF q2, out2
    <3>5. CASE out # << >> /\ ~Ends(out)
      BY <1>7, <1>8, <2>1, <2>5, <2>6, <3>1, <3>2, <3>5 DEF q2, out2
    <3> QED
      BY <3>3, <3>4, <3>5
  <2> QED
    BY <2>7, <2>8
<1> QED
  BY <1>1, <1>9, <1>10

(* A burst that enters no earlier than the end of the last one keeps the   *)
(* bursts apart.                                                           *)
LEMMA LineEnters ==
  ASSUME NEW q, NEW out, IsLine(q, out), Spaced(q, out),
         NEW t \in Transactions, NEW c \in Nat, c >= 1, c >= Until(q, out)
  PROVE  /\ IsLine(Append(q, [trans |-> t, countdown |-> c]), out)
         /\ Spaced(Append(q, [trans |-> t, countdown |-> c]), out)
         /\ Until(Append(q, [trans |-> t, countdown |-> c]), out) = c + BurstCycles
<1> DEFINE e == [trans |-> t, countdown |-> c]
           a == Append(q, e)
<1>1. e \in Latencies /\ e.countdown = c
  BY DEF Latencies
<1>2. q \in Seq(Latencies) /\ out \in Seq(BusBursts) /\ IsShort(out)
  BY DEF IsLine
<1> HIDE DEF e
<1>3. /\ a \in Seq(Latencies) /\ a # << >> /\ Len(a) = Len(q) + 1
      /\ \A i \in 1 .. Len(q) + 1 : a[i] = IF i = Len(q) + 1 THEN e ELSE q[i]
  BY <1>1, <1>2, AppendMember
<1> HIDE DEF a
<1>4. PICK n \in Nat : n = Len(q)
  BY <1>2, LenProperties
<1>5. /\ Len(a) = n + 1 /\ a[n + 1] = e
      /\ \A i \in 1 .. n : a[i] = q[i]
      /\ n = 0 <=> q = << >>
  BY <1>2, <1>3, <1>4, EmptySeq
<1>6. /\ \A i \in 1 .. n : q[i].countdown \in Int /\ q[i].countdown >= 1
      /\ \A i, j \in 1 .. n : i < j => q[j].countdown >= q[i].countdown + BurstCycles
      /\ out # << >> =>
           /\ out[1].cyclesLeft \in Int
           /\ out[1].cyclesLeft >= 1 /\ out[1].cyclesLeft <= BurstCycles
           /\ q # << >> => q[1].countdown >= out[1].cyclesLeft
  <2>1. \A i \in 1 .. n : q[i] \in Latencies
    BY <1>2, <1>4, ElementOfSeq
  <2>2. out # << >> => out[1] \in BusBursts
    BY <1>2, ShortFront
  <2> QED
    BY <1>4, <2>1, <2>2 DEF Spaced, Latencies, BusBursts
<1>7. BurstCycles \in Int /\ BurstCycles >= 1
  BY BurstLength
<1>8. \A i \in 1 .. n : c >= q[i].countdown + BurstCycles
  <2> SUFFICES ASSUME NEW i \in 1 .. n PROVE c >= q[i].countdown + BurstCycles
    OBVIOUS
  <2>1. n \in 1 .. n /\ q # << >>
    BY <1>5
  <2>2. c >= q[n].countdown + BurstCycles
    BY <1>4, <2>1 DEF Until
  <2>3. i = n \/ i < n
    OBVIOUS
  <2> QED
    BY <1>6, <1>7, <2>1, <2>2, <2>3
<1>9. q = << >> /\ out # << >> => c >= out[1].cyclesLeft
  BY DEF Until
<1>10. Spaced(a, out)
  <2>1. \A i \in 1 .. n + 1 : i \in 1 .. n \/ i = n + 1
    OBVIOUS
  <2>2. \A i \in 1 .. n + 1 : a[i].countdown >= 1
    BY <1>1, <1>5, <1>6, <2>1
  <2>3. ASSUME NEW i \in 1 .. n + 1, NEW j \in 1 .. n + 1, i < j
        PROVE  a[j].countdown >= a[i].countdown + BurstCycles
    <3>1. i \in 1 .. n
      BY <2>3
    <3> QED
      BY <1>1, <1>5, <1>6, <1>8, <2>1, <2>3, <3>1
  <2>4. out # << >> => a[1].countdown >= out[1].cyclesLeft
    <3>1. CASE n = 0
      BY <1>1, <1>5, <1>9, <3>1
    <3>2. CASE n # 0
      <4>1. 1 \in 1 .. n
        BY <3>2
      <4> QED
        BY <1>5, <1>6, <3>2, <4>1
    <3> QED
      BY <3>1, <3>2
  <2> QED
    BY <1>5, <1>6, <2>2, <2>3, <2>4 DEF Spaced
<1>11. Until(a, out) = c + BurstCycles
  BY <1>1, <1>3, <1>5 DEF Until
<1> QED
  BY <1>2, <1>3, <1>10, <1>11 DEF IsLine, a, e

-----------------------------------------------------------------------------
(* Types, and what commands do to the times of the banks.                  *)

(* What a bank of the controller holds, and what is on the command bus.    *)
BankTypes ==
  [ state : {"Idle", "RowActive", "Precharging", "Refreshing"}, row : Nat,
    countdown : Nat, nextRead : Nat, nextWrite : Nat, nextPrecharge : Nat,
    nextActivate : Nat ]

BusCommands == [cmd : Commands, cyclesLeft : Int]

(* The part of TypeOK that the proofs about the channel need: the queues,  *)
(* ...                                                                     *)
QueuesTyped ==
  /\ transactionQueue \in Seq(Transactions)
  /\ pendingTransactions \in Seq(Transactions)
  /\ pendingReadTransactions \in Seq(Transactions)
  /\ returnTransaction \in Seq(Transactions)
  /\ queues \in [Ranks -> Seq(Transactions)]
  /\ nextId \in 1 .. MaxTransactions + 1

(* ... the lines of the ranks, ...                                         *)
ReadLinesTyped ==
  /\ readReturn \in [Ranks -> Seq(Latencies)]
  /\ rankData \in [Ranks -> Seq(BusBursts)]
  /\ \A r \in Ranks : IsLine(readReturn[r], rankData[r])

(* ... the buses ...                                                       *)
BusesTyped ==
  /\ IsLine(writeData, outgoingData)
  /\ outgoingCmd \in Seq(BusCommands) /\ IsShort(outgoingCmd)

(* ... and the rest.                                                       *)
ChannelTyped ==
  /\ QueuesTyped /\ ReadLinesTyped /\ BusesTyped
  /\ bankStates \in [Ranks -> [Banks -> BankTypes]]
  /\ refreshRank \in Ranks
  /\ nextRefresh \in Ranks

(* The parts of a transaction.                                             *)
LEMMA TransactionParts ==
  ASSUME NEW t \in Transactions
  PROVE  /\ t.addr \in Addresses /\ t.addr.rank \in Ranks /\ t.addr.bank \in Banks
         /\ t.addr.row \in Nat /\ t.addr.col \in Nat
         /\ t.type \in {"DATA_READ", "DATA_WRITE"}
         /\ t.addr \in Address
         /\ t.id \in 1 .. MaxTransactions
  BY SystemAssumption DEF Transactions, Address

(* max() is no less than either number.                                    *)
LEMMA PostponeUp ==
  ASSUME NEW a \in Nat, NEW b \in Nat
  PROVE  /\ Postpone(a, b) \in Nat /\ Postpone(a, b) >= a /\ Postpone(a, b) >= b
  BY DEF Postpone, Larger

(* A timer loses at most one cycle at a time.                              *)
LEMMA TickDown ==
  ASSUME NEW a \in Nat
  PROVE  Tick(a) \in Nat /\ Tick(a) >= a - 1
  BY DEF Tick, Larger

(* The delays between commands are natural numbers; those between two      *)
(* bursts of one direction leave room for a burst.                         *)
LEMMA DelayTypes ==
  /\ READ_TO_PRE_DELAY \in Nat /\ WRITE_TO_PRE_DELAY \in Nat
  /\ READ_TO_WRITE_DELAY \in Nat /\ WRITE_TO_READ_DELAY_B_LONG \in Nat
  /\ WRITE_TO_READ_DELAY_R \in Nat
  /\ \A g \in BOOLEAN : ColumnDelay(g) \in Nat /\ ColumnDelay(g) >= BurstCycles
  /\ \A g \in BOOLEAN : ActivateDelay(g) \in Nat
  /\ BurstCycles + tRTRS \in Nat /\ BurstCycles + tRTRS >= BurstCycles
  /\ tRCDRD - AL \in Nat /\ tRCDWR - AL \in Nat
  /\ tRC \in Nat /\ tRAS \in Nat /\ tRP \in Nat /\ tRFC \in Nat
<1>1. /\ AL \in Nat /\ tCCDS \in Nat /\ tCCDL \in Nat /\ tRCDRD \in Nat /\ tRCDWR \in Nat
      /\ tRAS \in Nat /\ tRC \in Nat /\ tRRDS \in Nat /\ tRRDL \in Nat /\ tRTPL \in Nat
      /\ tWR \in Nat /\ tWTRS \in Nat /\ tWTRL \in Nat /\ tRTRS \in Nat
      /\ RL \in Nat /\ WL \in Nat /\ tRP \in Nat /\ tRFC \in Nat
      /\ RL + BurstCycles + tRTRS >= WL /\ tRCDRD >= AL /\ tRCDWR >= AL
  BY TimingAssumption DEF BurstCycles
<1>2. BurstCycles \in Nat
  BY BurstLength
<1>3. READ_TO_PRE_DELAY \in Nat
  BY <1>1, <1>2 DEF READ_TO_PRE_DELAY, Larger
<1>4. READ_TO_WRITE_DELAY \in Nat
  BY <1>1, <1>2 DEF READ_TO_WRITE_DELAY
<1>5. WRITE_TO_READ_DELAY_R \in Nat
  BY <1>1, <1>2 DEF WRITE_TO_READ_DELAY_R, Larger
<1>6. WRITE_TO_PRE_DELAY \in Nat /\ WRITE_TO_READ_DELAY_B_LONG \in Nat
  BY <1>1, <1>2 DEF WRITE_TO_PRE_DELAY, WRITE_TO_READ_DELAY_B_LONG
<1>7. \A g \in BOOLEAN : ColumnDelay(g) \in Nat /\ ColumnDelay(g) >= BurstCycles
  BY <1>1, <1>2 DEF ColumnDelay, Larger
<1>8. \A g \in BOOLEAN : ActivateDelay(g) \in Nat
  BY <1>1 DEF ActivateDelay
<1>9. /\ BurstCycles + tRTRS \in Nat /\ BurstCycles + tRTRS >= BurstCycles
      /\ tRCDRD - AL \in Nat /\ tRCDWR - AL \in Nat
  BY <1>1, <1>2
<1> QED
  BY <1>1, <1>3, <1>4, <1>5, <1>6, <1>7, <1>8, <1>9

(* What a command does to the times of one bank.                           *)
Later(b, a) == a.nextRead >= b.nextRead /\ a.nextWrite >= b.nextWrite

(* setBankStatesRW only postpones.                                         *)
LEMMA ReadWritePostponed ==
  ASSUME NEW b \in BankTypes, NEW read \in Nat, NEW write \in Nat
  PROVE  /\ ReadWriteAfter(b, read, write) \in BankTypes
         /\ ReadWriteAfter(b, read, write).state = b.state
         /\ ReadWriteAfter(b, read, write).row = b.row
         /\ Later(b, ReadWriteAfter(b, read, write))
         /\ ReadWriteAfter(b, read, write).nextRead >= read
         /\ ReadWriteAfter(b, read, write).nextWrite >= write
<1>1. /\ Postpone(b.nextRead, read) \in Nat /\ Postpone(b.nextRead, read) >= b.nextRead
      /\ Postpone(b.nextRead, read) >= read
      /\ Postpone(b.nextWrite, write) \in Nat /\ Postpone(b.nextWrite, write) >= b.nextWrite
      /\ Postpone(b.nextWrite, write) >= write
  <2>1. b.nextRead \in Nat /\ b.nextWrite \in Nat
    BY DEF BankTypes
  <2> QED
    BY <2>1, PostponeUp
<1> QED
  BY <1>1 DEF ReadWriteAfter, BankTypes, Later

(* The same times for reads and writes.                                    *)
AsIs(b, a) == a.nextRead = b.nextRead /\ a.nextWrite = b.nextWrite /\ a.state = b.state

(* Postponing a PRECHARGE leaves reads and writes alone.                   *)
LEMMA PrechargePostponed ==
  ASSUME NEW b \in BankTypes, NEW d \in Nat
  PROVE  /\ [b EXCEPT !.nextPrecharge = Postpone(@, d)] \in BankTypes
         /\ AsIs(b, [b EXCEPT !.nextPrecharge = Postpone(@, d)])
         /\ [b EXCEPT !.nextActivate = Postpone(@, d)] \in BankTypes
         /\ AsIs(b, [b EXCEPT !.nextActivate = Postpone(@, d)])
<1>1. Postpone(b.nextPrecharge, d) \in Nat /\ Postpone(b.nextActivate, d) \in Nat
  <2>1. b.nextPrecharge \in Nat /\ b.nextActivate \in Nat
    BY DEF BankTypes
  <2> QED
    BY <2>1, PostponeUp
<1> QED
  BY <1>1 DEF BankTypes, AsIs

(* The parts of a command.                                                 *)
LEMMA CommandParts ==
  ASSUME NEW c \in Commands
  PROVE  /\ c.type \in {"ACTIVATE", "PRECHARGE", "REF", "READ", "WRITE"}
         /\ c.rank \in Ranks /\ c.bank \in Banks /\ c.row \in Nat
         /\ c.type \in {"READ", "WRITE"} => c.trans \in Transactions
  BY DEF Commands

(* A bank that the command reaches can be read or written only after the   *)
(* burst of the command, wherever its own burst is.                        *)
Separated(type, a) ==
  /\ type = "READ" => a.nextRead >= BurstCycles /\ a.nextWrite >= READ_TO_WRITE_DELAY
  /\ type = "WRITE" =>
       a.nextRead >= WL + BurstCycles - (tCMD + RL) /\ a.nextWrite >= BurstCycles

(* The spacings of a turnaround of the data bus are whole numbers of       *)
(* cycles.                                                                 *)
LEMMA Turnaround ==
  /\ WL + BurstCycles - (tCMD + RL) \in Int
  /\ WRITE_TO_READ_DELAY_B_LONG >= WL + BurstCycles - (tCMD + RL)
  /\ WRITE_TO_READ_DELAY_R >= WL + BurstCycles - (tCMD + RL)
<1>1. WL \in Nat /\ RL \in Nat /\ tCMD \in Nat /\ tWTRL \in Nat /\ tRTRS \in Nat
  BY TimingAssumption
<1>2. BurstCycles \in Nat
  BY BurstLength
<1> QED
  BY <1>1, <1>2 DEF WRITE_TO_READ_DELAY_B_LONG, WRITE_TO_READ_DELAY_R, Larger

(* What the bank's times are after a READ or a WRITE.                      *)
LEMMA SeparatedAfter ==
  ASSUME NEW s \in BankTypes, NEW d \in Nat, d >= BurstCycles
  PROVE  /\ Separated("READ", ReadWriteAfter(s, d, READ_TO_WRITE_DELAY))
         /\ Separated("WRITE", ReadWriteAfter(s, WRITE_TO_READ_DELAY_B_LONG, d))
         /\ Separated("WRITE", ReadWriteAfter(s, WRITE_TO_READ_DELAY_R, d))
<1>1. /\ READ_TO_WRITE_DELAY \in Nat /\ WRITE_TO_READ_DELAY_B_LONG \in Nat
      /\ WRITE_TO_READ_DELAY_R \in Nat /\ BurstCycles \in Nat
  BY DelayTypes, BurstLength
<1> DEFINE a1 == ReadWriteAfter(s, d, READ_TO_WRITE_DELAY)
           a2 == ReadWriteAfter(s, WRITE_TO_READ_DELAY_B_LONG, d)
           a3 == ReadWriteAfter(s, WRITE_TO_READ_DELAY_R, d)
<1>2. /\ a1 \in BankTypes /\ a1.nextRead >= d /\ a1.nextWrite >= READ_TO_WRITE_DELAY
      /\ a2 \in BankTypes /\ a2.nextRead >= WRITE_TO_READ_DELAY_B_LONG /\ a2.nextWrite >= d
      /\ a3 \in BankTypes /\ a3.nextRead >= WRITE_TO_READ_DELAY_R /\ a3.nextWrite >= d
  BY <1>1, ReadWritePostponed
<1> HIDE DEF a1, a2, a3
<1>3. /\ a1.nextRead \in Nat /\ a2.nextRead \in Nat /\ a2.nextWrite \in Nat
      /\ a3.nextRead \in Nat /\ a3.nextWrite \in Nat
  BY <1>2 DEF BankTypes
<1> DEFINE turn == WL + BurstCycles - (tCMD + RL)
<1>4. turn \in Int /\ WRITE_TO_READ_DELAY_B_LONG >= turn /\ WRITE_TO_READ_DELAY_R >= turn
  BY Turnaround
<1> HIDE DEF turn
<1>5. /\ a1.nextRead >= BurstCycles
      /\ a2.nextRead >= turn /\ a2.nextWrite >= BurstCycles
      /\ a3.nextRead >= turn /\ a3.nextWrite >= BurstCycles
  BY <1>1, <1>2, <1>3, <1>4
<1> QED
  BY <1>2, <1>5 DEF Separated, turn, a1, a2, a3

(* What a column command does to a bank of another rank.                   *)
LEMMA OtherRankBank ==
  ASSUME NEW s \in BankTypes, NEW type \in {"READ", "WRITE"}
  PROVE  /\ OtherRankAfter(s, type) \in BankTypes
         /\ OtherRankAfter(s, type).state = s.state
         /\ Later(s, OtherRankAfter(s, type))
         /\ s.state = "RowActive" => Separated(type, OtherRankAfter(s, type))
<1> DEFINE a == OtherRankAfter(s, type)
<1>0. s.nextRead \in Nat /\ s.nextWrite \in Nat
  BY DEF BankTypes
<1>1. CASE s.state # "RowActive"
  <2>1. a = s
    BY <1>1 DEF OtherRankAfter
  <2>2. Later(s, s)
    BY <1>0 DEF Later
  <2> HIDE DEF a
  <2>4. a \in BankTypes /\ a.state = s.state /\ Later(s, a)
    BY <2>1, <2>2
  <2> QED
    BY <1>1, <2>4 DEF a
<1> DEFINE d == BurstCycles + tRTRS
<1>4. d \in Nat /\ d >= BurstCycles /\ READ_TO_WRITE_DELAY \in Nat /\ WRITE_TO_READ_DELAY_R \in Nat
  BY DelayTypes
<1>2. CASE s.state = "RowActive" /\ type = "READ"
  <2>1. a = ReadWriteAfter(s, d, READ_TO_WRITE_DELAY)
    BY <1>2 DEF OtherRankAfter
  <2> HIDE DEF a, d
  <2>2. a \in BankTypes /\ a.state = s.state /\ Later(s, a)
    BY <1>4, <2>1, ReadWritePostponed
  <2>3. Separated(type, a)
    BY <1>2, <1>4, <2>1, SeparatedAfter
  <2> QED
    BY <2>2, <2>3 DEF a
<1>3. CASE s.state = "RowActive" /\ type = "WRITE"
  <2>1. a = ReadWriteAfter(s, WRITE_TO_READ_DELAY_R, d)
    BY <1>3 DEF OtherRankAfter
  <2> HIDE DEF a, d
  <2>2. a \in BankTypes /\ a.state = s.state /\ Later(s, a)
    BY <1>4, <2>1, ReadWritePostponed
  <2>3. Separated(type, a)
    BY <1>3, <1>4, <2>1, SeparatedAfter
  <2> QED
    BY <2>2, <2>3 DEF a
<1> QED
  BY <1>1, <1>2, <1>3

(* What a column command does to a bank of its own rank.                   *)
LEMMA SameRankBank ==
  ASSUME NEW s \in BankTypes, NEW type \in {"READ", "WRITE"}, NEW g \in BOOLEAN
  PROVE  /\ SameRankAfter(s, type, g) \in BankTypes
         /\ SameRankAfter(s, type, g).state = s.state
         /\ Later(s, SameRankAfter(s, type, g))
         /\ Separated(type, SameRankAfter(s, type, g))
<1> DEFINE a == SameRankAfter(s, type, g)
           d == ColumnDelay(g)
<1>1. d \in Nat /\ d >= BurstCycles /\ BurstCycles \in Nat
  BY DelayTypes, BurstLength
<1>2. READ_TO_WRITE_DELAY \in Nat /\ WRITE_TO_READ_DELAY_B_LONG \in Nat
  BY DelayTypes
<1>3. /\ type = "READ" => a = ReadWriteAfter(s, d, READ_TO_WRITE_DELAY)
      /\ type = "WRITE" => a = ReadWriteAfter(s, WRITE_TO_READ_DELAY_B_LONG, d)
  BY DEF SameRankAfter
<1> HIDE DEF a, d
<1>4. CASE type = "READ"
  <2>1. a = ReadWriteAfter(s, d, READ_TO_WRITE_DELAY)
    BY <1>3, <1>4
  <2>2. a \in BankTypes /\ a.state = s.state /\ Later(s, a)
    BY <1>1, <1>2, <2>1, ReadWritePostponed
  <2>3. Separated(type, a)
    BY <1>1, <1>4, <2>1, SeparatedAfter
  <2> QED
    BY <2>2, <2>3 DEF a
<1>5. CASE type = "WRITE"
  <2>1. a = ReadWriteAfter(s, WRITE_TO_READ_DELAY_B_LONG, d)
    BY <1>3, <1>5
  <2>2. a \in BankTypes /\ a.state = s.state /\ Later(s, a)
    BY <1>1, <1>2, <2>1, ReadWritePostponed
  <2>3. Separated(type, a)
    BY <1>1, <1>5, <2>1, SeparatedAfter
  <2> QED
    BY <2>2, <2>3 DEF a
<1> QED
  BY <1>4, <1>5

(* What a column command does to any bank.                                 *)
LEMMA ColumnBank ==
  ASSUME bankStates \in [Ranks -> [Banks -> BankTypes]],
         NEW c \in Commands, c.type \in {"READ", "WRITE"}, NEW r \in Ranks, NEW b \in Banks
  PROVE  /\ AfterColumn(r, b, c) \in BankTypes
         /\ AfterColumn(r, b, c).state = bankStates[r][b].state
         /\ Later(bankStates[r][b], AfterColumn(r, b, c))
         /\ r = c.rank \/ bankStates[r][b].state = "RowActive" =>
              Separated(c.type, AfterColumn(r, b, c))
<1> DEFINE s == bankStates[r][b]
           g == SameBankgroup(b, c.bank)
           moved == IF r # c.rank THEN OtherRankAfter(s, c.type)
                                  ELSE SameRankAfter(s, c.type, g)
           d == IF c.type = "READ" THEN READ_TO_PRE_DELAY ELSE WRITE_TO_PRE_DELAY
           a == AfterColumn(r, b, c)
<1>1. s \in BankTypes /\ g \in BOOLEAN
  BY DEF SameBankgroup
<1>2. d \in Nat
  BY DelayTypes
<1>3. a = IF r = c.rank /\ b = c.bank THEN [moved EXCEPT !.nextPrecharge = Postpone(@, d)] ELSE moved
  BY DEF AfterColumn
<1> HIDE DEF s, g, a, d
<1>4. /\ moved \in BankTypes /\ moved.state = s.state /\ Later(s, moved)
      /\ r = c.rank \/ s.state = "RowActive" => Separated(c.type, moved)
  BY <1>1, OtherRankBank, SameRankBank
<1> HIDE DEF moved
<1>5. a \in BankTypes /\ AsIs(moved, a)
  <2>1. CASE r = c.rank /\ b = c.bank
    BY <1>2, <1>3, <1>4, <2>1, PrechargePostponed
  <2>2. CASE ~(r = c.rank /\ b = c.bank)
    BY <1>3, <1>4, <2>2 DEF AsIs
  <2> QED
    BY <2>1, <2>2
<1> QED
  BY <1>4, <1>5 DEF AsIs, Later, Separated, s, a

(* What an ACTIVATE does to the banks of its rank: a row that was closed   *)
(* before is not written to until tRCDWR - AL cycles later.                *)
LEMMA ActivateBank ==
  ASSUME bankStates \in [Ranks -> [Banks -> BankTypes]],
         NEW c \in Commands, NEW b \in Banks
  PROVE  /\ AfterActivate(b, c) \in BankTypes
         /\ Later(bankStates[c.rank][b], AfterActivate(b, c))
         /\ AfterActivate(b, c).state = "RowActive" =>
              \/ bankStates[c.rank][b].state = "RowActive"
              \/ /\ AfterActivate(b, c).nextWrite >= tRCDWR - AL
                 /\ AfterActivate(b, c).nextRead >= tRCDRD - AL
<1> DEFINE s == bankStates[c.rank][b]
           a == AfterActivate(b, c)
           m == ReadWriteAfter(s, tRCDRD - AL, tRCDWR - AL)
<1>1. s \in BankTypes /\ c.row \in Nat
  BY CommandParts
<1>2. tRCDRD - AL \in Nat /\ tRCDWR - AL \in Nat /\ tRC \in Nat /\ tRAS \in Nat
  BY DelayTypes
<1>3. CASE b = c.bank
  <2>1. a = [m EXCEPT !.state = "RowActive", !.row = c.row,
               !.nextActivate = Postpone(@, tRC), !.nextPrecharge = Postpone(@, tRAS)]
    BY <1>3 DEF AfterActivate
  <2>2. m \in BankTypes /\ Later(s, m) /\ m.nextWrite >= tRCDWR - AL
        /\ m.nextRead >= tRCDRD - AL
    BY <1>1, <1>2, ReadWritePostponed
  <2> HIDE DEF a, m, s
  <2>3. Postpone(m.nextActivate, tRC) \in Nat /\ Postpone(m.nextPrecharge, tRAS) \in Nat
    <3>1. m.nextActivate \in Nat /\ m.nextPrecharge \in Nat
      BY <2>2 DEF BankTypes
    <3> QED
      BY <1>2, <3>1, PostponeUp
  <2> QED
    BY <1>1, <2>1, <2>2, <2>3 DEF BankTypes, Later, a, s
<1>4. CASE b # c.bank
  <2>1. a = [s EXCEPT !.nextActivate = Postpone(@, ActivateDelay(SameBankgroup(b, c.bank)))]
    BY <1>4 DEF AfterActivate
  <2>2. SameBankgroup(b, c.bank) \in BOOLEAN
    BY DEF SameBankgroup
  <2>3. ActivateDelay(SameBankgroup(b, c.bank)) \in Nat
    BY <2>2, DelayTypes
  <2> HIDE DEF a, s
  <2>4. a \in BankTypes /\ AsIs(s, a)
    BY <1>1, <2>1, <2>3, PrechargePostponed
  <2> QED
    BY <1>1, <2>4 DEF AsIs, Later, BankTypes, a, s
<1> QED
  BY <1>3, <1>4

(* What a PRECHARGE and a REF do: they close the bank.                     *)
LEMMA ClosedBank ==
  ASSUME NEW s \in BankTypes
  PROVE  /\ AfterPrecharge(s) \in BankTypes /\ Later(s, AfterPrecharge(s))
         /\ AfterPrecharge(s).state # "RowActive"
         /\ AfterRefresh(s) \in BankTypes /\ Later(s, AfterRefresh(s))
         /\ AfterRefresh(s).state # "RowActive"
<1>1. tRP \in Nat /\ tRFC \in Nat
  BY DelayTypes
<1>2. s.nextActivate \in Nat
  BY DEF BankTypes
<1>3. Postpone(s.nextActivate, tRP) \in Nat
  BY <1>1, <1>2, PostponeUp
<1>4. s.nextRead \in Nat /\ s.nextWrite \in Nat
  BY DEF BankTypes
<1> DEFINE p == AfterPrecharge(s)
           f == AfterRefresh(s)
<1>5. p = [s EXCEPT !.state = "Precharging", !.countdown = tRP,
                    !.nextActivate = Postpone(s.nextActivate, tRP)]
  BY DEF AfterPrecharge
<1>6. f = [s EXCEPT !.state = "Refreshing", !.countdown = tRFC, !.nextActivate = tRFC]
  BY DEF AfterRefresh
<1> HIDE DEF p, f
<1>7. p \in BankTypes /\ p.state # "RowActive" /\ p.nextRead = s.nextRead /\ p.nextWrite = s.nextWrite
  BY <1>1, <1>3, <1>5 DEF BankTypes
<1>8. f \in BankTypes /\ f.state # "RowActive" /\ f.nextRead = s.nextRead /\ f.nextWrite = s.nextWrite
  BY <1>1, <1>6 DEF BankTypes
<1> QED
  BY <1>4, <1>7, <1>8 DEF Later, p, f

(* What the command c may do to the times s of a bank of rank r.           *)
Retimed(c, r, s, a) ==
  /\ a \in BankTypes
  /\ Later(s, a)
  /\ a.state = "RowActive" =>
       \/ s.state = "RowActive"
       \/ a.nextWrite >= tRCDWR - AL /\ a.nextRead >= tRCDRD - AL
  /\ r = c.rank \/ a.state = "RowActive" => Separated(c.type, a)

(* What any command does to any bank.                                      *)
LEMMA BanksAfterCommand ==
  ASSUME bankStates \in [Ranks -> [Banks -> BankTypes]],
         NEW c \in Commands, bankStates' = BankStatesAfter(c)
  PROVE  /\ bankStates' \in [Ranks -> [Banks -> BankTypes]]
         /\ \A r \in Ranks : \A b \in Banks :
              Retimed(c, r, bankStates[r][b], bankStates'[r][b])
<1> DEFINE B == bankStates
           B2 == bankStates'
<1>1. /\ c.type \in {"ACTIVATE", "PRECHARGE", "REF", "READ", "WRITE"}
      /\ c.rank \in Ranks /\ c.bank \in Banks
  BY CommandParts
<1>2. \A r \in Ranks : \A b \in Banks : B[r][b] \in BankTypes
  OBVIOUS
<1>3. \A s \in BankTypes : Later(s, s)
  BY DEF Later, BankTypes
<1>4. \A r \in Ranks : \A b \in Banks : c.type \notin {"READ", "WRITE"} => Retimed(c, r, B[r][b], B[r][b])
  BY <1>2, <1>3 DEF Retimed, Separated
<1>5. CASE c.type \in {"READ", "WRITE"}
  <2>1. B2 = [r \in Ranks |-> [b \in Banks |-> AfterColumn(r, b, c)]]
    BY <1>5 DEF BankStatesAfter
  <2>2. \A r \in Ranks : \A b \in Banks : Retimed(c, r, B[r][b], AfterColumn(r, b, c))
    BY <1>5, ColumnBank DEF Retimed
  <2>3. \A r \in Ranks : \A b \in Banks : AfterColumn(r, b, c) \in BankTypes
    BY <2>2 DEF Retimed
  <2>4. B2 \in [Ranks -> [Banks -> BankTypes]]
    BY <2>1, <2>3
  <2>5. \A r \in Ranks : \A b \in Banks : B2[r][b] = AfterColumn(r, b, c)
    BY <2>1
  <2> QED
    BY <2>2, <2>4, <2>5
<1>6. CASE c.type = "ACTIVATE"
  <2>1. B2 = [B EXCEPT ![c.rank] = [b \in Banks |-> AfterActivate(b, c)]]
    BY <1>6 DEF BankStatesAfter
  <2>2. \A b \in Banks : Retimed(c, c.rank, B[c.rank][b], AfterActivate(b, c))
    BY <1>6, ActivateBank DEF Retimed, Separated
  <2>3. \A b \in Banks : AfterActivate(b, c) \in BankTypes
    BY <2>2 DEF Retimed
  <2>4. B2 \in [Ranks -> [Banks -> BankTypes]]
    BY <1>1, <2>1, <2>3
  <2>5. \A r \in Ranks : \A b \in Banks :
          B2[r][b] = IF r = c.rank THEN AfterActivate(b, c) ELSE B[r][b]
    BY <1>1, <2>1
  <2> QED
    BY <1>4, <1>6, <2>2, <2>4, <2>5
<1>7. CASE c.type = "PRECHARGE"
  <2>1. B2 = [B EXCEPT ![c.rank][c.bank] = AfterPrecharge(@)]
    BY <1>7 DEF BankStatesAfter
  <2>2. B[c.rank][c.bank] \in BankTypes
    BY <1>1, <1>2
  <2>3. /\ AfterPrecharge(B[c.rank][c.bank]) \in BankTypes
        /\ Retimed(c, c.rank, B[c.rank][c.bank], AfterPrecharge(B[c.rank][c.bank]))
    BY <1>7, <2>2, ClosedBank DEF Retimed, Separated
  <2>4. \A r \in Ranks : \A b \in Banks :
          B2[r][b] = IF r = c.rank /\ b = c.bank THEN AfterPrecharge(B[c.rank][c.bank])
                                                 ELSE B[r][b]
    BY <1>1, <2>1
  <2>5. B2 \in [Ranks -> [Banks -> BankTypes]]
    BY <1>1, <2>1, <2>3
  <2> QED
    BY <1>4, <1>7, <2>3, <2>4, <2>5
<1>8. CASE c.type = "REF"
  <2>1. B2 = [B EXCEPT ![c.rank] = [b \in Banks |-> AfterRefresh(B[c.rank][b])]]
    BY <1>8 DEF BankStatesAfter
  <2>2. \A b \in Banks : /\ AfterRefresh(B[c.rank][b]) \in BankTypes
                         /\ Retimed(c, c.rank, B[c.rank][b], AfterRefresh(B[c.rank][b]))
    BY <1>1, <1>2, <1>8, ClosedBank DEF Retimed, Separated
  <2>3. B2 \in [Ranks -> [Banks -> BankTypes]]
    BY <1>1, <2>1, <2>2
  <2>4. \A r \in Ranks : \A b \in Banks :
          B2[r][b] = IF r = c.rank THEN AfterRefresh(B[c.rank][b]) ELSE B[r][b]
    BY <1>1, <2>1
  <2> QED
    BY <1>4, <1>8, <2>2, <2>3, <2>4
<1> QED
  BY <1>1, <1>5, <1>6, <1>7, <1>8

(* What the step of the command queue comes to.                            *)
SendsColumn(r, i) ==
  /\ i \in ReadyColumns(r)
  /\ queues' = [queues EXCEPT ![r] = RemoveAt(queues[r], i)]
  /\ UpdateCommandQueue(ColumnCommand(queues[r][i]))

SendsOther(c) ==
  /\ c.type \notin {"READ", "WRITE"}
  /\ queues' = queues
  /\ UpdateCommandQueue(c)

SendsNone == UNCHANGED << queues, bankStates, writeData, outgoingCmd, fault >>

(* Command takes one of three ways: a column command leaves its queue,     *)
(* another command is made up, or nothing is sent.                         *)
LEMMA CommandSteps ==
  ASSUME ChannelTyped, Command
  PROVE  /\ refreshRank' = refreshRank
         /\ \/ \E r \in Ranks : \E i \in ReadyColumns(r) : SendsColumn(r, i)
            \/ \E c \in Commands : SendsOther(c)
            \/ SendsNone
<1> USE DEF commandQueueVars
<1>1. /\ SendRefresh \/ SendPrechargeForRefresh \/ SendColumn
           \/ SendActivate \/ SendPrecharge \/ SendNothing
  BY DEF Command, SendCommand
<1>2. refreshRank \in Ranks /\ 0 \in Banks
  BY GeometryAssumption DEF ChannelTyped, Banks
<1>3. \A r \in Ranks : \A b \in Banks : bankStates[r][b].row \in Nat
  BY DEF ChannelTyped, BankTypes
<1>4. \A r \in Ranks : \A b \in Banks :
        Precharge(r, b) \in Commands /\ Precharge(r, b).type = "PRECHARGE"
  BY <1>3 DEF Precharge, Commands
<1>5. \A r \in Ranks : ReadyColumns(r) \in SUBSET Nat /\ ReadyRows(r) \in SUBSET Nat
                         /\ ReadyColumns(r) \subseteq 1 .. Len(queues[r])
                         /\ ReadyRows(r) \subseteq 1 .. Len(queues[r])
  BY DEF ReadyColumns, ReadyRows
<1>6. CASE SendRefresh
  <2>1. Refresh(refreshRank) \in Commands /\ Refresh(refreshRank).type = "REF"
    BY <1>2 DEF Refresh, Commands
  <2> QED
    BY <1>6, <2>1 DEF SendRefresh, PopRefresh, SendsOther
<1>7. CASE SendPrechargeForRefresh
  <2>1. PICK b \in Banks : /\ PopPrechargeForRefresh(b)
                           /\ UpdateCommandQueue(Precharge(refreshRank, b))
    BY <1>7 DEF SendPrechargeForRefresh
  <2> QED
    BY <1>2, <1>4, <2>1 DEF PopPrechargeForRefresh, SendsOther
<1>8. CASE SendColumn
  <2>1. PICK r \in Ranks : PopColumn(r) /\ UpdateCommandQueue(ColumnCommand(NextColumn(r)))
    BY <1>8 DEF SendColumn
  <2> DEFINE i == Min(ReadyColumns(r))
  <2>2. i \in ReadyColumns(r)
    BY <1>5, <2>1, MinMember DEF PopColumn
  <2>3. queues' = [queues EXCEPT ![r] = RemoveAt(queues[r], i)] /\ refreshRank' = refreshRank
    BY <2>1 DEF PopColumn
  <2>4. NextColumn(r) = queues[r][i]
    BY DEF NextColumn
  <2> HIDE DEF i
  <2>5. SendsColumn(r, i)
    BY <2>1, <2>2, <2>3, <2>4 DEF SendsColumn
  <2> QED
    BY <2>2, <2>3, <2>5
<1>9. CASE SendActivate
  <2>1. PICK r \in Ranks : /\ PopActivate(r)
                           /\ UpdateCommandQueue(BankCommand("ACTIVATE", NextRow(r)))
    BY <1>9 DEF SendActivate
  <2>2. ReadyRows(r) # {}
    BY <2>1 DEF PopActivate, Turn, HasCommand
  <2>3. Min(ReadyRows(r)) \in 1 .. Len(queues[r])
    BY <1>5, <2>2, MinMember
  <2>4. queues[r][Min(ReadyRows(r))] \in Transactions
    BY <2>3, ElementOfSeq DEF ChannelTyped, QueuesTyped
  <2>5. /\ NextRow(r).rank \in Ranks /\ NextRow(r).bank \in Banks
        /\ NextRow(r).row \in Nat /\ NextRow(r).col \in Nat
    BY <2>4, TransactionParts DEF NextRow
  <2>6. /\ BankCommand("ACTIVATE", NextRow(r)) \in Commands
        /\ BankCommand("ACTIVATE", NextRow(r)).type = "ACTIVATE"
    BY <2>5 DEF BankCommand, Commands
  <2> QED
    BY <2>1, <2>6 DEF PopActivate, SendsOther
<1>10. CASE SendPrecharge
  <2>1. PICK p \in Unwanted : /\ PopPrecharge(p)
                              /\ UpdateCommandQueue(Precharge(p.rank, p.bank))
    BY <1>10 DEF SendPrecharge
  <2>2. p.rank \in Ranks /\ p.bank \in Banks
    BY <2>1 DEF Unwanted
  <2> QED
    BY <1>4, <2>1, <2>2 DEF PopPrecharge, SendsOther
<1>11. CASE SendNothing
  BY <1>11 DEF SendNothing, PopNothing, SendsNone
<1> QED
  BY <1>1, <1>6, <1>7, <1>8, <1>9, <1>10, <1>11

-----------------------------------------------------------------------------

(* The column command of a transaction.                                    *)
LEMMA ColumnCommandTyped ==
  ASSUME NEW t \in Transactions
  PROVE  /\ ColumnCommand(t) \in Commands
         /\ ColumnCommand(t).type = IF t.type = "DATA_READ" THEN "READ" ELSE "WRITE"
         /\ ColumnCommand(t).trans = t
         /\ ColumnCommand(t).rank = t.addr.rank
         /\ ColumnCommand(t).type \in {"READ", "WRITE"}
<1>1. /\ t.addr.rank \in Ranks /\ t.addr.bank \in Banks
      /\ t.addr.row \in Nat /\ t.addr.col \in Nat
      /\ t.type \in {"DATA_READ", "DATA_WRITE"}
  BY TransactionParts
<1> QED
  BY <1>1 DEF ColumnCommand, Commands

(* A barrier changes the tag of the newest entry and nothing else.         *)
LEMMA TagLastMember ==
  ASSUME NEW q \in Seq(Transactions), q # << >>
  PROVE  /\ TagLast(q) \in Seq(Transactions)
         /\ Len(TagLast(q)) = Len(q)
         /\ \A i \in 1 .. Len(q) : TagLast(q)[i].id = q[i].id
<1>1. PICK n \in Nat : n = Len(q)
  BY LenProperties
<1>2. n >= 1 /\ DOMAIN q = 1 .. n /\ n \in 1 .. n
  BY <1>1, LenProperties, EmptySeq
<1>3. q \in [1 .. n -> Transactions]
  BY <1>1, <1>2, LenProperties, ElementOfSeq
<1>4. TagLast(q) = [q EXCEPT ![n] = [q[n] EXCEPT !.bar = TRUE]]
  BY <1>1 DEF TagLast
<1>5. /\ [q[n] EXCEPT !.bar = TRUE] \in Transactions
      /\ [q[n] EXCEPT !.bar = TRUE].id = q[n].id
  <2>1. q[n] \in Transactions
    BY <1>2, <1>3
  <2> QED
    BY <2>1 DEF Transactions
<1>6. TagLast(q) \in [1 .. n -> Transactions]
  BY <1>2, <1>3, <1>4, <1>5
<1>7. TagLast(q) \in Seq(Transactions) /\ Len(TagLast(q)) = n
  BY <1>6, SeqDef, LenProperties
<1>8. \A i \in 1 .. n : TagLast(q)[i].id = q[i].id
  BY <1>2, <1>3, <1>4, <1>5
<1> QED
  BY <1>1, <1>7, <1>8

(* What a rank delivers: the burst that ends.                              *)
LEMMA DeliveredTyped ==
  ASSUME ReadLinesTyped, NEW r \in Ranks
  PROVE  /\ Delivered(r) \in Seq(Transactions) /\ IsShort(Delivered(r))
         /\ Delivered(r) # << >> <=> Ends(rankData[r])
         /\ \A x : x \in ToSet(Delivered(r)) <=>
                     Ends(rankData[r]) /\ x = rankData[r][1].trans
<1> DEFINE out == rankData[r]
           d == Delivered(r)
<1>1. out \in Seq(BusBursts)
  BY DEF ReadLinesTyped
<1>2. out # << >> => Head(out) = out[1] /\ out[1] \in BusBursts
  BY <1>1, ShortFront
<1>3. CASE Ends(out)
  <2>1. d = << out[1].trans >> /\ out[1].trans \in Transactions
    BY <1>2, <1>3 DEF Ends, Delivered, BusBursts
  <2> QED
    BY <1>3, <2>1, SingleMember
<1>4. CASE ~Ends(out)
  <2>1. d = << >>
    BY <1>4 DEF Ends, Delivered
  <2>2. << >> \in Seq(Transactions)
    BY EmptySeq
  <2> QED
    BY <1>4, <2>1, <2>2, EmptyMember
<1> QED
  BY <1>3, <1>4

(* All ranks deliver at once, in the order of their numbers.               *)
AllDelivered == FlattenSeq([i \in 1 .. NUM_RANKS |-> Delivered(i - 1)])

(* What all ranks deliver, each at most one burst.                         *)
LEMMA AllDeliveredTyped ==
  ASSUME ReadLinesTyped
  PROVE  /\ AllDelivered \in Seq(Transactions)
         /\ \A x : x \in ToSet(AllDelivered) <=> \E r \in Ranks : x \in ToSet(Delivered(r))
         /\ \A m, p \in 1 .. Len(AllDelivered) : m < p =>
              \E r, s \in Ranks : r # s /\ AllDelivered[m] \in ToSet(Delivered(r))
                                        /\ AllDelivered[p] \in ToSet(Delivered(s))
<1> DEFINE n == NUM_RANKS
           seqs == [i \in 1 .. n |-> Delivered(i - 1)]
           f == FlattenSeq(seqs)
<1>1. n \in Nat \ {0}
  BY GeometryAssumption
<1>2. /\ \A i \in 1 .. n : i - 1 \in Ranks
      /\ \A r \in Ranks : r + 1 \in 1 .. n /\ (r + 1) - 1 = r
      /\ \A i, j \in 1 .. n : i < j => i - 1 # j - 1
  BY <1>1 DEF Ranks
<1>3. \A i \in 1 .. n : seqs[i] = Delivered(i - 1)
  OBVIOUS
<1>4. seqs \in [1 .. n -> Seq(Transactions)]
  BY <1>2, DeliveredTyped
<1>5. \A i \in 1 .. n : IsShort(seqs[i])
  BY <1>2, <1>3, DeliveredTyped
<1> HIDE DEF seqs
<1>6. f \in Seq(Transactions) /\ FlattenedUpTo(seqs, n, f)
  BY <1>1, <1>4, <1>5, FlattenShort
<1>7. AllDelivered = f
  BY DEF AllDelivered, seqs
<1> HIDE DEF n, f
<1>8. \A x : x \in ToSet(f) <=> \E r \in Ranks : x \in ToSet(Delivered(r))
  <2>1. \A x : x \in ToSet(f) <=> \E i \in 1 .. n : x \in ToSet(seqs[i])
    BY <1>6 DEF FlattenedUpTo
  <2>2. ASSUME NEW x, NEW r \in Ranks, x \in ToSet(Delivered(r)) PROVE x \in ToSet(f)
    <3>1. r + 1 \in 1 .. n /\ seqs[r + 1] = Delivered(r)
      BY <1>2, <1>3
    <3> QED
      BY <2>1, <2>2, <3>1
  <2>3. ASSUME NEW x, x \in ToSet(f) PROVE \E r \in Ranks : x \in ToSet(Delivered(r))
    <3>1. PICK i \in 1 .. n : x \in ToSet(seqs[i])
      BY <2>1, <2>3
    <3> QED
      BY <1>2, <1>3, <3>1
  <2> QED
    BY <2>2, <2>3
<1>9. ASSUME NEW m \in 1 .. Len(f), NEW p \in 1 .. Len(f), m < p
      PROVE  \E r, s \in Ranks : r # s /\ f[m] \in ToSet(Delivered(r))
                                       /\ f[p] \in ToSet(Delivered(s))
  <2>1. \E i, j \in 1 .. n : i < j /\ f[m] \in ToSet(seqs[i]) /\ f[p] \in ToSet(seqs[j])
    BY <1>6, <1>9 DEF FlattenedUpTo
  <2> QED
    BY <1>2, <1>3, <2>1
<1> QED
  BY <1>6, <1>7, <1>8, <1>9

-----------------------------------------------------------------------------
(* What the steps of update() do to the lines.                             *)

(* BeginUpdate moves the lines of the ranks; what ends goes to             *)
(* returnTransaction.                                                      *)
LEMMA BeginSteps ==
  ASSUME ReadLinesTyped, BeginUpdate
  PROVE  /\ \A r \in Ranks : /\ readReturn'[r] = NextLatencies(readReturn[r])
                             /\ rankData'[r] = NextBurst(readReturn[r], rankData[r])
         /\ DOMAIN readReturn' = Ranks /\ DOMAIN rankData' = Ranks
         /\ returnTransaction' = returnTransaction \o AllDelivered
<1>1. \A r \in Ranks : Delivered(r) # << >> <=> Ends(rankData[r])
  BY DeliveredTyped
<1>2. \A r \in Ranks : ReturnStarts(r) <=> Starts(readReturn[r])
  BY DEF ReturnStarts, Starts
<1>3. readReturn' = [r \in Ranks |-> NextLatencies(readReturn[r])]
  BY <1>2 DEF BeginUpdate, UpdateRanks, NextLatencies
<1>4. rankData' = [r \in Ranks |-> NextBurst(readReturn[r], rankData[r])]
  BY <1>1, <1>2 DEF BeginUpdate, UpdateRanks, NextBurst
<1>5. returnTransaction' = returnTransaction \o AllDelivered
  BY DEF BeginUpdate, AllDelivered
<1> QED
  BY <1>3, <1>4, <1>5

(* The ways of the command bus: it is empty, ...                           *)
NothingOnBus ==
  outgoingCmd = << >> /\ outgoingCmd' = << >> /\ readReturn' = readReturn

(* ... the command is still under way, ...                                 *)
StillOnBus ==
  /\ outgoingCmd # << >>
  /\ outgoingCmd[1] \in BusCommands
  /\ outgoingCmd[1].cyclesLeft # 1
  /\ outgoingCmd' = << [outgoingCmd[1] EXCEPT !.cyclesLeft = @ - 1] >>
  /\ readReturn' = readReturn

(* ... or the command c reaches its rank.                                  *)
Arrives(c) ==
  /\ outgoingCmd # << >>
  /\ c = outgoingCmd[1].cmd
  /\ outgoingCmd[1].cyclesLeft = 1
  /\ outgoingCmd' = << >>
  /\ readReturn' =
       IF c.type = "READ"
         THEN [readReturn EXCEPT ![c.rank] =
                 Append(readReturn[c.rank], [trans |-> c.trans, countdown |-> RL])]
         ELSE readReturn

(* Bus moves the line of the write data and the command bus.               *)
LEMMA BusSteps ==
  ASSUME BusesTyped, Bus
  PROVE  /\ writeData' = NextLatencies(writeData)
         /\ outgoingData' = NextBurst(writeData, outgoingData)
         /\ rankData' = rankData
         /\ NothingOnBus \/ StillOnBus \/ \E c \in Commands : Arrives(c)
<1>1. outgoingCmd # << >> => Head(outgoingCmd) = outgoingCmd[1] /\ outgoingCmd[1] \in BusCommands
  BY ShortFront DEF BusesTyped
<1>2. (WriteStarts <=> Starts(writeData)) /\ (WriteEnds <=> Ends(outgoingData))
  BY DEF WriteStarts, WriteEnds, Starts, Ends
<1>3. WriteDataMoves /\ CommandTravels /\ rankData' = rankData
  BY DEF Bus, DriveBuses
<1>4. writeData' = NextLatencies(writeData)
  BY <1>2, <1>3 DEF WriteDataMoves, NextLatencies
<1>5. outgoingData' = NextBurst(writeData, outgoingData)
  BY <1>2, <1>3 DEF WriteDataMoves, NextBurst
<1>6. CASE CommandArrives
  <2>1. outgoingCmd # << >> /\ outgoingCmd[1].cyclesLeft = 1 /\ outgoingCmd' = << >>
    BY <1>1, <1>3, <1>6 DEF CommandArrives, CommandTravels
  <2>2. ReceiveCommand(outgoingCmd[1].cmd)
    BY <1>1, <1>6, <2>1 DEF Bus, DriveBuses
  <2>3. outgoingCmd[1].cmd \in Commands
    BY <1>1, <2>1 DEF BusCommands
  <2>4. Arrives(outgoingCmd[1].cmd)
    BY <2>1, <2>2 DEF ReceiveCommand, Arrives
  <2> QED
    BY <1>3, <1>4, <1>5, <2>3, <2>4
<1>7. CASE ~CommandArrives
  <2>1. readReturn' = readReturn
    BY <1>7 DEF Bus, DriveBuses
  <2>2. CASE outgoingCmd = << >>
    BY <1>3, <1>4, <1>5, <2>1, <2>2 DEF CommandTravels, NothingOnBus
  <2>3. CASE outgoingCmd # << >>
    BY <1>1, <1>3, <1>4, <1>5, <1>7, <2>1, <2>3 DEF CommandTravels, CommandArrives, StillOnBus
  <2> QED
    BY <2>2, <2>3
<1> QED
  BY <1>6, <1>7

(* Bus changes none of the times of the banks and opens none of them.      *)
LEMMA BusBanks ==
  ASSUME bankStates \in [Ranks -> [Banks -> BankTypes]], Bus
  PROVE  /\ bankStates' \in [Ranks -> [Banks -> BankTypes]]
         /\ \A r \in Ranks : \A b \in Banks :
              /\ bankStates'[r][b].nextRead = bankStates[r][b].nextRead
              /\ bankStates'[r][b].nextWrite = bankStates[r][b].nextWrite
              /\ bankStates'[r][b].state = "RowActive" => bankStates[r][b].state = "RowActive"
<1>1. bankStates' = [r \in Ranks |-> [b \in Banks |-> CountBank(bankStates[r][b])]]
  BY DEF Bus, DriveBuses, UpdateBankState
<1>2. ASSUME NEW s \in BankTypes
      PROVE  /\ CountBank(s) \in BankTypes
             /\ CountBank(s).nextRead = s.nextRead /\ CountBank(s).nextWrite = s.nextWrite
             /\ CountBank(s).state = "RowActive" => s.state = "RowActive"
  <2>1. s.countdown \in Nat
    BY DEF BankTypes
  <2>2. Tick(s.countdown) \in Nat
    BY <2>1, TickDown
  <2> QED
    BY <2>2 DEF CountBank, BankTypes
<1>3. \A r \in Ranks : \A b \in Banks : bankStates[r][b] \in BankTypes
  OBVIOUS
<1>4. \A r \in Ranks : \A b \in Banks : bankStates'[r][b] = CountBank(bankStates[r][b])
  BY <1>1
<1>5. \A r \in Ranks : \A b \in Banks : CountBank(bankStates[r][b]) \in BankTypes
  BY <1>2, <1>3
<1>6. bankStates' \in [Ranks -> [Banks -> BankTypes]]
  BY <1>1, <1>5
<1> QED
  BY <1>2, <1>3, <1>4, <1>6

(* The end of update() ticks the times of all banks.                       *)
LEMMA TickBanks ==
  ASSUME bankStates \in [Ranks -> [Banks -> BankTypes]], EndUpdate
  PROVE  /\ bankStates' \in [Ranks -> [Banks -> BankTypes]]
         /\ \A r \in Ranks : \A b \in Banks :
              /\ bankStates'[r][b].nextRead >= bankStates[r][b].nextRead - 1
              /\ bankStates'[r][b].nextWrite >= bankStates[r][b].nextWrite - 1
              /\ bankStates'[r][b].state = bankStates[r][b].state
<1>1. bankStates' = [r \in Ranks |-> [b \in Banks |-> TickBank(bankStates[r][b])]]
  BY DEF EndUpdate, TickController
<1>2. ASSUME NEW s \in BankTypes
      PROVE  /\ TickBank(s) \in BankTypes
             /\ TickBank(s).nextRead >= s.nextRead - 1 /\ TickBank(s).nextWrite >= s.nextWrite - 1
             /\ TickBank(s).state = s.state
  <2>1. /\ s.nextRead \in Nat /\ s.nextWrite \in Nat
        /\ s.nextPrecharge \in Nat /\ s.nextActivate \in Nat
    BY DEF BankTypes
  <2>2. /\ Tick(s.nextRead) \in Nat /\ Tick(s.nextRead) >= s.nextRead - 1
        /\ Tick(s.nextWrite) \in Nat /\ Tick(s.nextWrite) >= s.nextWrite - 1
        /\ Tick(s.nextPrecharge) \in Nat /\ Tick(s.nextActivate) \in Nat
    BY <2>1, TickDown
  <2> QED
    BY <2>2 DEF TickBank, BankTypes
<1>3. \A r \in Ranks : \A b \in Banks : bankStates[r][b] \in BankTypes
  OBVIOUS
<1>4. \A r \in Ranks : \A b \in Banks : bankStates'[r][b] = TickBank(bankStates[r][b])
  BY <1>1
<1>5. \A r \in Ranks : \A b \in Banks : TickBank(bankStates[r][b]) \in BankTypes
  BY <1>2, <1>3
<1>6. bankStates' \in [Ranks -> [Banks -> BankTypes]]
  BY <1>1, <1>5
<1> QED
  BY <1>2, <1>3, <1>4, <1>6

-----------------------------------------------------------------------------
(* The channel is typed.                                                   *)

(* The channel is typed at the start ...                                   *)
LEMMA ChannelTypedInit == Init => ChannelTyped
<1> SUFFICES ASSUME Init PROVE ChannelTyped
  OBVIOUS
<1>1. 0 \in Ranks /\ MaxTransactions \in Nat
  BY GeometryAssumption, SystemAssumption DEF Ranks
<1>2. IsLine(<< >>, << >>)
  BY EmptyMember, EmptySeq DEF IsLine
<1>3. QueuesTyped
  BY <1>1, EmptySeq DEF Init, RankInit, ControllerInit, CommandQueueInit, QueuesTyped
<1>4. ReadLinesTyped
  BY <1>2, EmptySeq DEF Init, RankInit, ReadLinesTyped
<1>5. BusesTyped
  BY <1>2, EmptySeq, EmptyMember DEF Init, ControllerInit, BusesTyped
<1>6. IdleBank \in BankTypes
  BY DEF IdleBank, BankTypes
<1>7. bankStates \in [Ranks -> [Banks -> BankTypes]] /\ refreshRank = 0 /\ nextRefresh = 0
  BY <1>6 DEF Init, ControllerInit, CommandQueueInit
<1> QED
  BY <1>1, <1>3, <1>4, <1>5, <1>7 DEF ChannelTyped

(* ... and each step keeps it so: the steps of the client, ...             *)
LEMMA ChannelTypedClient ==
  ASSUME ChannelTyped, ClientStep
  PROVE  ChannelTyped'
<1>1. /\ transactionQueue \in Seq(Transactions) /\ pendingTransactions \in Seq(Transactions)
      /\ nextId \in 1 .. MaxTransactions + 1 /\ MaxTransactions \in Nat
  BY SystemAssumption DEF ChannelTyped, QueuesTyped
<1>2. ASSUME ChannelUnchanged,
             transactionQueue' \in Seq(Transactions), pendingTransactions' \in Seq(Transactions),
             nextId' \in 1 .. MaxTransactions + 1
      PROVE  ChannelTyped'
  BY <1>2 DEF ChannelTyped, QueuesTyped, ReadLinesTyped, BusesTyped, ChannelUnchanged,
              rankVars, commandQueueVars
<1>3. ASSUME NEW type \in {"DATA_READ", "DATA_WRITE"}, NEW addr \in Addresses,
             AddTransaction(type, addr)
      PROVE  ChannelTyped'
  <2> DEFINE t == [id |-> nextId, type |-> type, addr |-> addr, bar |-> FALSE]
  <2>1. t \in Transactions /\ nextId' \in 1 .. MaxTransactions + 1
    BY <1>1, <1>3 DEF AddTransaction, Transactions
  <2>2. \A q \in Seq(Transactions) : Append(q, t) \in Seq(Transactions)
    BY <2>1, AppendMember
  <2>3. /\ transactionQueue' = Append(transactionQueue, t) \/ transactionQueue' = transactionQueue
        /\ \/ pendingTransactions' = Append(pendingTransactions, t)
           \/ pendingTransactions' = pendingTransactions
        /\ ChannelUnchanged
    BY <1>3 DEF AddTransaction
  <2> QED
    BY <1>1, <1>2, <2>1, <2>2, <2>3
<1>4. CASE AddBarrier
  <2>1. /\ \/ transactionQueue # << >> /\ transactionQueue' = TagLast(transactionQueue)
           \/ transactionQueue' = transactionQueue
        /\ \/ pendingTransactions # << >> /\ pendingTransactions' = TagLast(pendingTransactions)
           \/ pendingTransactions' = pendingTransactions
        /\ ChannelUnchanged /\ nextId' = nextId
    BY <1>4 DEF AddBarrier
  <2> QED
    BY <1>1, <1>2, <2>1, TagLastMember
<1>5. CASE RunReturns
  BY <1>1, <1>2, <1>5 DEF RunReturns
<1> QED
  BY <1>3, <1>4, <1>5 DEF ClientStep

(* ... the ranks, ...                                                      *)
LEMMA ChannelTypedBegin ==
  ASSUME ChannelTyped, BeginUpdate
  PROVE  ChannelTyped'
<1>1. /\ \A r \in Ranks : /\ readReturn'[r] = NextLatencies(readReturn[r])
                          /\ rankData'[r] = NextBurst(readReturn[r], rankData[r])
      /\ DOMAIN readReturn' = Ranks /\ DOMAIN rankData' = Ranks
      /\ returnTransaction' = returnTransaction \o AllDelivered
  BY BeginSteps DEF ChannelTyped
<1>2. returnTransaction' \in Seq(Transactions)
  BY <1>1, AllDeliveredTyped, ConcatProperties DEF ChannelTyped, QueuesTyped
<1>3. \A r \in Ranks : IsLine(readReturn[r], rankData[r])
  BY DEF ChannelTyped, ReadLinesTyped
<1>4. \A r \in Ranks : IsLine(readReturn'[r], rankData'[r])
  BY <1>1, <1>3, LineMoves
<1>5. /\ readReturn' = [r \in Ranks |-> readReturn'[r]]
      /\ rankData' = [r \in Ranks |-> rankData'[r]]
  BY DEF BeginUpdate, UpdateRanks
<1>6. \A r \in Ranks : readReturn'[r] \in Seq(Latencies) /\ rankData'[r] \in Seq(BusBursts)
  BY <1>4 DEF IsLine
<1>7. readReturn' \in [Ranks -> Seq(Latencies)] /\ rankData' \in [Ranks -> Seq(BusBursts)]
  BY <1>5, <1>6
<1>8. ReadLinesTyped'
  BY <1>4, <1>7 DEF ReadLinesTyped
<1> QED
  BY <1>2, <1>8 DEF BeginUpdate, commandQueueVars, ChannelTyped, QueuesTyped, BusesTyped

(* ... the accepted transaction, ...                                       *)
LEMMA ChannelTypedPending ==
  ASSUME ChannelTyped, AcceptPending
  PROVE  ChannelTyped'
<1>1. transactionQueue \in Seq(Transactions) /\ pendingTransactions \in Seq(Transactions)
  BY DEF ChannelTyped, QueuesTyped
<1>2. transactionQueue' \in Seq(Transactions) /\ pendingTransactions' \in Seq(Transactions)
  <2>1. CASE pendingTransactions # << >> /\ WillAcceptTransaction
    <3>1. /\ transactionQueue' = Append(transactionQueue, Head(pendingTransactions))
          /\ pendingTransactions' = Tail(pendingTransactions)
      BY <2>1 DEF AcceptPending
    <3>2. Head(pendingTransactions) \in Transactions /\ Tail(pendingTransactions) \in Seq(Transactions)
      BY <1>1, <2>1, TailMember
    <3> QED
      BY <1>1, <3>1, <3>2, AppendMember
  <2>2. CASE ~(pendingTransactions # << >> /\ WillAcceptTransaction)
    BY <1>1, <2>2 DEF AcceptPending
  <2> QED
    BY <2>1, <2>2
<1> QED
  BY <1>2 DEF AcceptPending, ChannelUnchanged, clientVars, rankVars, commandQueueVars,
              ChannelTyped, QueuesTyped, BusesTyped, ReadLinesTyped

(* ... the buses, ...                                                      *)
LEMMA ChannelTypedBus ==
  ASSUME ChannelTyped, Bus
  PROVE  ChannelTyped'
<1>1. /\ writeData' = NextLatencies(writeData)
      /\ outgoingData' = NextBurst(writeData, outgoingData)
      /\ rankData' = rankData
      /\ NothingOnBus \/ StillOnBus \/ \E c \in Commands : Arrives(c)
  BY BusSteps DEF ChannelTyped
<1>2. bankStates' \in [Ranks -> [Banks -> BankTypes]]
  BY BusBanks DEF ChannelTyped
<1>3. IsLine(writeData', outgoingData')
  BY <1>1, LineMoves DEF ChannelTyped, BusesTyped
<1>4. QueuesTyped' /\ refreshRank' \in Ranks /\ nextRefresh' \in Ranks
  BY DEF Bus, DriveBuses, clientVars, commandQueueVars, ChannelTyped, QueuesTyped
<1>5. /\ readReturn \in [Ranks -> Seq(Latencies)] /\ rankData \in [Ranks -> Seq(BusBursts)]
      /\ \A r \in Ranks : IsLine(readReturn[r], rankData[r])
      /\ outgoingCmd \in Seq(BusCommands) /\ IsShort(outgoingCmd)
  BY DEF ChannelTyped, ReadLinesTyped, BusesTyped
<1>6. << >> \in Seq(BusCommands) /\ IsShort(<< >>)
  BY EmptySeq, EmptyMember
<1>7. ASSUME readReturn' = readReturn PROVE ReadLinesTyped'
  BY <1>1, <1>5, <1>7 DEF ReadLinesTyped
<1>8. CASE NothingOnBus
  BY <1>2, <1>3, <1>4, <1>6, <1>7, <1>8 DEF NothingOnBus, ChannelTyped, BusesTyped
<1>9. CASE StillOnBus
  <2>1. [outgoingCmd[1] EXCEPT !.cyclesLeft = @ - 1] \in BusCommands
    BY <1>9 DEF StillOnBus, BusCommands
  <2>2. outgoingCmd' \in Seq(BusCommands) /\ IsShort(outgoingCmd')
    BY <1>9, <2>1, SingleMember DEF StillOnBus
  <2> QED
    BY <1>2, <1>3, <1>4, <1>7, <1>9, <2>2 DEF StillOnBus, ChannelTyped, BusesTyped
<1>10. ASSUME NEW c \in Commands, Arrives(c) PROVE ChannelTyped'
  <2>1. CASE c.type = "READ"
    <3> DEFINE e == [trans |-> c.trans, countdown |-> RL]
               s == c.rank
    <3>1. s \in Ranks /\ c.trans \in Transactions
      BY <2>1, CommandParts
    <3>2. e \in Latencies
      BY <3>1, TimingAssumption DEF Latencies
    <3> HIDE DEF e, s
    <3>3. readReturn' = [readReturn EXCEPT ![s] = Append(readReturn[s], e)]
      BY <1>10, <2>1 DEF Arrives, e, s
    <3>4. Append(readReturn[s], e) \in Seq(Latencies)
      BY <1>5, <3>1, <3>2, AppendMember
    <3>5. readReturn' \in [Ranks -> Seq(Latencies)]
      BY <1>5, <3>1, <3>3, <3>4
    <3>6. \A r \in Ranks : IsLine(readReturn'[r], rankData'[r])
      BY <1>1, <1>5, <3>5 DEF IsLine
    <3> QED
      BY <1>1, <1>2, <1>3, <1>4, <1>5, <1>6, <1>10, <3>5, <3>6
         DEF Arrives, ChannelTyped, BusesTyped, ReadLinesTyped
  <2>2. CASE c.type # "READ"
    BY <1>2, <1>3, <1>4, <1>6, <1>7, <1>10, <2>2 DEF Arrives, ChannelTyped, BusesTyped
  <2> QED
    BY <2>1, <2>2
<1> QED
  BY <1>1, <1>8, <1>9, <1>10

(* What goes onto the command bus and into the line of the write data.     *)
LEMMA UpdateTyped ==
  ASSUME ChannelTyped, NEW c \in Commands, UpdateCommandQueue(c), outgoingData' = outgoingData
  PROVE  BusesTyped' /\ bankStates' \in [Ranks -> [Banks -> BankTypes]]
<1>1. bankStates' \in [Ranks -> [Banks -> BankTypes]]
  BY BanksAfterCommand DEF UpdateCommandQueue, ChannelTyped
<1>2. IsLine(writeData, outgoingData)
  BY DEF ChannelTyped, BusesTyped
<1>3. writeData' \in Seq(Latencies)
  <2>1. writeData \in Seq(Latencies)
    BY <1>2 DEF IsLine
  <2>2. CASE c.type = "WRITE"
    <3>1. [trans |-> c.trans, countdown |-> WL] \in Latencies
      BY <2>2, CommandParts, TimingAssumption DEF Latencies
    <3>2. writeData' = Append(writeData, [trans |-> c.trans, countdown |-> WL])
      BY <2>2 DEF UpdateCommandQueue
    <3> QED
      BY <2>1, <3>1, <3>2, AppendMember
  <2>3. CASE c.type # "WRITE"
    BY <2>1, <2>3 DEF UpdateCommandQueue
  <2> QED
    BY <2>2, <2>3
<1>4. [cmd |-> c, cyclesLeft |-> tCMD] \in BusCommands
  BY TimingAssumption DEF BusCommands
<1>5. outgoingCmd' \in Seq(BusCommands) /\ IsShort(outgoingCmd')
  BY <1>4, SingleMember DEF UpdateCommandQueue
<1> QED
  BY <1>1, <1>2, <1>3, <1>5 DEF BusesTyped, IsLine

(* ... the command that is sent, ...                                       *)
LEMMA ChannelTypedCommand ==
  ASSUME ChannelTyped, Command
  PROVE  ChannelTyped'
<1>1. /\ refreshRank' = refreshRank
      /\ \/ \E r \in Ranks : \E i \in ReadyColumns(r) : SendsColumn(r, i)
         \/ \E c \in Commands : SendsOther(c)
         \/ SendsNone
  BY CommandSteps
<1>2. /\ UNCHANGED << transactionQueue, pendingReadTransactions, returnTransaction,
                      outgoingData, nextRefresh, readReturn, rankData, nextId,
                      pendingTransactions >>
  BY DEF Command, SendCommand, rankVars, clientVars
<1>3. ReadLinesTyped' /\ refreshRank' \in Ranks /\ nextRefresh' \in Ranks
  BY <1>1, <1>2 DEF ChannelTyped, ReadLinesTyped
<1>4. ASSUME queues' \in [Ranks -> Seq(Transactions)] PROVE QueuesTyped'
  BY <1>2, <1>4 DEF ChannelTyped, QueuesTyped
<1>5. queues \in [Ranks -> Seq(Transactions)]
  BY DEF ChannelTyped, QueuesTyped
<1>6. ASSUME NEW r \in Ranks, NEW i \in ReadyColumns(r), SendsColumn(r, i)
      PROVE  ChannelTyped'
  <2>1. i \in 1 .. Len(queues[r]) /\ queues[r] \in Seq(Transactions)
    BY <1>5 DEF ReadyColumns
  <2>2. queues[r][i] \in Transactions
    BY <2>1, ElementOfSeq
  <2>3. RemoveAt(queues[r], i) \in Seq(Transactions)
    BY <2>1, RemoveAtProperties
  <2>4. queues' \in [Ranks -> Seq(Transactions)]
    BY <1>5, <1>6, <2>3 DEF SendsColumn
  <2>5. BusesTyped' /\ bankStates' \in [Ranks -> [Banks -> BankTypes]]
    BY <1>2, <1>6, <2>2, ColumnCommandTyped, UpdateTyped DEF SendsColumn
  <2> QED
    BY <1>3, <1>4, <2>4, <2>5 DEF ChannelTyped
<1>7. ASSUME NEW c \in Commands, SendsOther(c) PROVE ChannelTyped'
  <2>1. BusesTyped' /\ bankStates' \in [Ranks -> [Banks -> BankTypes]]
    BY <1>2, <1>7, UpdateTyped DEF SendsOther
  <2> QED
    BY <1>3, <1>4, <1>5, <1>7, <2>1 DEF SendsOther, ChannelTyped
<1>8. CASE SendsNone
  BY <1>2, <1>3, <1>4, <1>5, <1>8 DEF SendsNone, ChannelTyped, BusesTyped
<1> QED
  BY <1>1, <1>6, <1>7, <1>8

(* ... the transaction that becomes a command, ...                         *)
LEMMA ChannelTypedDispatch ==
  ASSUME ChannelTyped, Dispatch
  PROVE  ChannelTyped'
<1>1. /\ transactionQueue \in Seq(Transactions)
      /\ pendingReadTransactions \in Seq(Transactions)
      /\ queues \in [Ranks -> Seq(Transactions)]
  BY DEF ChannelTyped, QueuesTyped
<1>2. /\ UNCHANGED << returnTransaction, outgoingData, outgoingCmd, writeData, nextRefresh,
                      readReturn, rankData, nextId, pendingTransactions, refreshRank, bankStates >>
  BY DEF Dispatch, UpdateTransactionQueue, rankVars, clientVars
<1>3. ASSUME transactionQueue' \in Seq(Transactions),
             pendingReadTransactions' \in Seq(Transactions),
             queues' \in [Ranks -> Seq(Transactions)]
      PROVE  ChannelTyped'
  BY <1>2, <1>3 DEF ChannelTyped, QueuesTyped, BusesTyped, ReadLinesTyped
<1>4. CASE Dispatchable = {}
  BY <1>1, <1>3, <1>4 DEF Dispatch, UpdateTransactionQueue
<1>5. CASE Dispatchable # {}
  <2> DEFINE i == Min(Dispatchable)
             t == transactionQueue[i]
             r == t.addr.rank
  <2>1. i \in 1 .. Len(transactionQueue)
    <3>1. Dispatchable \in SUBSET Nat /\ Dispatchable \subseteq 1 .. Len(transactionQueue)
      BY DEF Dispatchable
    <3> QED
      BY <1>5, <3>1, MinMember
  <2> HIDE DEF i
  <2>2. t \in Transactions
    BY <1>1, <2>1, ElementOfSeq
  <2>3. r \in Ranks
    BY <2>2, TransactionParts
  <2>4. /\ transactionQueue' = RemoveAt(transactionQueue, i)
        /\ queues' = [queues EXCEPT ![r] = Append(queues[r], t)]
        /\ pendingReadTransactions' = Append(pendingReadTransactions, t)
             \/ pendingReadTransactions' = pendingReadTransactions
    BY <1>5 DEF Dispatch, UpdateTransactionQueue, Enqueue, i
  <2> HIDE DEF t, r
  <2>5. transactionQueue' \in Seq(Transactions)
    BY <1>1, <2>1, <2>4, RemoveAtProperties
  <2>6. Append(queues[r], t) \in Seq(Transactions)
    BY <1>1, <2>2, <2>3, AppendMember
  <2>7. queues' \in [Ranks -> Seq(Transactions)]
    BY <1>1, <2>3, <2>4, <2>6
  <2>8. pendingReadTransactions' \in Seq(Transactions)
    <3>1. pendingReadTransactions \in Seq(Transactions)
      BY <1>1
    <3>2. Append(pendingReadTransactions, t) \in Seq(Transactions)
      BY <2>2, <3>1, AppendMember
    <3> QED
      BY <2>4, <3>1, <3>2
  <2> QED
    BY <1>3, <2>5, <2>7, <2>8
<1> QED
  BY <1>4, <1>5

(* ... the data that is returned, ...                                      *)
LEMMA ChannelTypedEnd ==
  ASSUME ChannelTyped, EndUpdate
  PROVE  ChannelTyped'
<1>1. pendingReadTransactions \in Seq(Transactions) /\ returnTransaction \in Seq(Transactions)
  BY DEF ChannelTyped, QueuesTyped
<1>2. bankStates' \in [Ranks -> [Banks -> BankTypes]]
  BY TickBanks DEF ChannelTyped
<1>3. UNCHANGED << transactionQueue, pendingTransactions, queues, outgoingData, outgoingCmd,
                   writeData, nextRefresh, readReturn, rankData, nextId, refreshRank >>
  BY DEF EndUpdate, TickController, TickRanks, clientVars, commandQueueVars
<1>4. pendingReadTransactions' \in Seq(Transactions) /\ returnTransaction' \in Seq(Transactions)
  <2>1. CASE ReturnReadData
    <3>1. Matches \in SUBSET Nat /\ Matches \subseteq 1 .. Len(pendingReadTransactions)
      BY DEF Matches
    <3>2. Min(Matches) \in 1 .. Len(pendingReadTransactions) /\ returnTransaction # << >>
      BY <2>1, <3>1, MinMember DEF ReturnReadData
    <3> QED
      BY <1>1, <2>1, <3>2, RemoveAtProperties, TailMember DEF ReturnReadData
  <2>2. CASE ReturnNothing \/ ReturnUnmatched
    BY <1>1, <2>2 DEF ReturnNothing, ReturnUnmatched
  <2> QED
    BY <2>1, <2>2 DEF EndUpdate
<1> QED
  BY <1>2, <1>3, <1>4 DEF ChannelTyped, QueuesTyped, BusesTyped, ReadLinesTyped

(* ... and so every step.                                                  *)
LEMMA ChannelTypedNext == ChannelTyped /\ [Next]_vars => ChannelTyped'
<1> SUFFICES ASSUME ChannelTyped, [Next]_vars PROVE ChannelTyped'
  OBVIOUS
<1>1. CASE ClientStep
  BY <1>1, ChannelTypedClient
<1>2. CASE RefreshTimers
  <2>1. nextRefresh' \in Ranks /\ refreshRank' \in Ranks
    BY <1>2, NextTurn DEF RefreshTimers, UpdateRefresh, NeedRefresh, ChannelTyped
  <2> QED
    BY <1>2, <2>1 DEF RefreshTimers, UpdateRefresh, clientVars, ChannelTyped, QueuesTyped,
                      BusesTyped, ReadLinesTyped
<1>3. CASE UNCHANGED vars
  BY <1>3 DEF vars, rankVars, commandQueueVars, controllerVars, clientVars, ChannelTyped,
              QueuesTyped, BusesTyped, ReadLinesTyped
<1> QED
  BY <1>1, <1>2, <1>3, ChannelTypedBegin, ChannelTypedPending, ChannelTypedBus,
     ChannelTypedCommand, ChannelTypedDispatch, ChannelTypedEnd DEF Next, UpdateStep

-----------------------------------------------------------------------------
(* The bursts of the reads of a rank do not overlap.                       *)

(* A bank's times are those after the last command until the end of        *)
(* update() ticks them.                                                    *)
Between == IF phase \in {"client", "pending", "bus"} THEN 1 ELSE 0

(* The lines of the ranks have moved on in this cycle, the command bus not *)
(* yet.                                                                    *)
Ranked == IF phase \in {"pending", "bus"} THEN 1 ELSE 0

(* All timers are those of the next cycle, the lines of the ranks not yet. *)
Ticked == IF phase = "client" THEN 1 ELSE 0

(* A READ of the rank is on the command bus.                               *)
ReadOnBus(r) ==
  outgoingCmd # << >> /\ outgoingCmd[1].cmd.type = "READ" /\ outgoingCmd[1].cmd.rank = r

(* Cycles until the last burst of the rank has left its pins.              *)
ReadUntil(r) == Until(readReturn[r], rankData[r])

(* A command on the bus arrives within tCMD cycles.                        *)
BusTimed == outgoingCmd # << >> => outgoingCmd[1].cyclesLeft \in 1 .. tCMD

(* The bursts of a rank do not overlap, and neither does the one of a READ *)
(* on the command bus; the banks of the rank accept no READ whose burst    *)
(* would.                                                                  *)
RankSpaced(r) ==
  /\ Spaced(readReturn[r], rankData[r])
  /\ ReadOnBus(r) => outgoingCmd[1].cyclesLeft + RL >= ReadUntil(r) + Ranked
  /\ \A b \in Banks :
       /\ bankStates[r][b].nextRead >= ReadUntil(r) - (tCMD + RL) - Ticked
       /\ ReadOnBus(r) =>
            bankStates[r][b].nextRead >=
              outgoingCmd[1].cyclesLeft + BurstCycles - tCMD - Between

(* This is what the invariants about reads rest on: nextRead, kept by the  *)
(* controller, protects the data pins of the ranks, which nobody tests.    *)
ReadsSpaced == BusTimed /\ \A r \in Ranks : RankSpaced(r)

(* The types of what the spacing is computed from.                         *)
LEMMA SpacedTypes ==
  ASSUME ChannelTyped, ReadsSpaced, NEW r \in Ranks
  PROVE  /\ ReadUntil(r) \in Nat
         /\ IsLine(readReturn[r], rankData[r])
         /\ \A b \in Banks : bankStates[r][b].nextRead \in Nat
         /\ outgoingCmd # << >> => outgoingCmd[1].cyclesLeft \in Int
         /\ tCMD \in Nat /\ tCMD >= 1 /\ RL \in Nat /\ RL >= 1
         /\ BurstCycles \in Nat /\ BurstCycles >= 1
<1>1. IsLine(readReturn[r], rankData[r]) /\ Spaced(readReturn[r], rankData[r])
  BY DEF ChannelTyped, ReadLinesTyped, ReadsSpaced, RankSpaced
<1>2. ReadUntil(r) \in Nat
  BY <1>1, SpacingKept DEF ReadUntil
<1>3. \A b \in Banks : bankStates[r][b].nextRead \in Nat
  BY DEF ChannelTyped, BankTypes
<1>4. outgoingCmd # << >> => outgoingCmd[1].cyclesLeft \in Int
  BY DEF ReadsSpaced, BusTimed
<1>5. RL \in Nat \ {0} /\ tCMD \in Nat \ {0}
  BY TimingAssumption
<1>6. RL >= 1 /\ tCMD >= 1
  BY <1>5
<1>7. BurstCycles \in Nat /\ BurstCycles >= 1
  BY BurstLength
<1> QED
  BY <1>1, <1>2, <1>3, <1>4, <1>5, <1>6, <1>7

(* The lines of the ranks move on, the command bus not yet.                *)
LEMMA ReadsSpacedBegin ==
  ASSUME ChannelTyped, ReadsSpaced, BeginUpdate
  PROVE  ReadsSpaced'
<1>1. outgoingCmd' = outgoingCmd /\ bankStates' = bankStates /\ phase = "client" /\ phase' = "pending"
  BY DEF BeginUpdate
<1>2. ASSUME NEW r \in Ranks PROVE RankSpaced(r)'
  <2> DEFINE u == ReadUntil(r)
             u2 == ReadUntil(r)'
             L == outgoingCmd[1].cyclesLeft
  <2>1. RankSpaced(r) /\ BusTimed
    BY DEF ReadsSpaced
  <2>2. /\ readReturn'[r] = NextLatencies(readReturn[r])
        /\ rankData'[r] = NextBurst(readReturn[r], rankData[r])
    BY BeginSteps DEF ChannelTyped
  <2>3. IsLine(readReturn[r], rankData[r]) /\ Spaced(readReturn[r], rankData[r])
    BY <2>1, SpacedTypes DEF RankSpaced
  <2>4. /\ Spaced(readReturn'[r], rankData'[r])
        /\ u2 = IF u = 0 THEN 0 ELSE u - 1
    BY <2>2, <2>3, SpacingKept DEF ReadUntil
  <2>5. /\ u \in Nat /\ tCMD \in Nat /\ RL \in Nat /\ RL >= 1 /\ BurstCycles \in Nat
        /\ \A b \in Banks : bankStates[r][b].nextRead \in Nat
        /\ outgoingCmd # << >> => L \in Int /\ L >= 1
    BY <2>1, SpacedTypes DEF BusTimed
  <2>6. Ticked = 1 /\ Ticked' = 0 /\ Ranked = 0 /\ Ranked' = 1 /\ Between = 1 /\ Between' = 1
    BY <1>1 DEF Ticked, Ranked, Between
  <2>7. ReadOnBus(r)' <=> ReadOnBus(r)
    BY <1>1 DEF ReadOnBus
  <2>8. ReadOnBus(r) => outgoingCmd # << >>
    BY DEF ReadOnBus
  <2> HIDE DEF u, u2, L
  <2>9. ReadOnBus(r) => L + RL >= u2 + 1
    <3>1. ReadOnBus(r) => L + RL >= u
      BY <2>1, <2>5, <2>6, <2>8 DEF RankSpaced, u, L
    <3> QED
      BY <2>4, <2>5, <2>8, <3>1
  <2>10. ASSUME NEW b \in Banks
         PROVE  /\ bankStates[r][b].nextRead >= u2 - (tCMD + RL)
                /\ ReadOnBus(r) => bankStates[r][b].nextRead >= L + BurstCycles - tCMD - 1
    <3>1. /\ bankStates[r][b].nextRead >= u - (tCMD + RL) - 1
          /\ ReadOnBus(r) => bankStates[r][b].nextRead >= L + BurstCycles - tCMD - 1
      BY <2>1, <2>6 DEF RankSpaced, u, L
    <3> QED
      BY <2>4, <2>5, <3>1
  <2>11. /\ ReadOnBus(r)' => outgoingCmd'[1].cyclesLeft + RL >= ReadUntil(r)' + Ranked'
    BY <1>1, <2>6, <2>7, <2>9 DEF L, u2
  <2>12. \A b \in Banks : 
           /\ bankStates'[r][b].nextRead >= ReadUntil(r)' - (tCMD + RL) - Ticked'
           /\ ReadOnBus(r)' =>
                bankStates'[r][b].nextRead >=
                  outgoingCmd'[1].cyclesLeft + BurstCycles - tCMD - Between'
    <3>1. u2 - (tCMD + RL) - 0 = u2 - (tCMD + RL)
      BY <2>4, <2>5
    <3> QED
      BY <1>1, <2>6, <2>7, <2>10, <3>1 DEF L, u2
  <2> QED
    BY <2>4, <2>11, <2>12 DEF RankSpaced
<1>3. BusTimed'
  BY <1>1 DEF ReadsSpaced, BusTimed
<1> QED
  BY <1>2, <1>3 DEF ReadsSpaced

(* The command bus moves on; a READ that arrives enters the line of its    *)
(* rank.                                                                   *)
LEMMA ReadsSpacedBus ==
  ASSUME ChannelTyped, ReadsSpaced, Bus
  PROVE  ReadsSpaced'
<1>1. /\ rankData' = rankData
      /\ NothingOnBus \/ StillOnBus \/ \E c \in Commands : Arrives(c)
  BY BusSteps DEF ChannelTyped
<1>2. phase = "bus" /\ phase' = "refresh"
  BY DEF Bus
<1>3. Ticked = 0 /\ Ticked' = 0 /\ Ranked = 1 /\ Ranked' = 0 /\ Between = 1 /\ Between' = 0
  BY <1>2 DEF Ticked, Ranked, Between
<1>4. \A r \in Ranks : \A b \in Banks :
        bankStates'[r][b].nextRead = bankStates[r][b].nextRead
  BY BusBanks DEF ChannelTyped
<1>5. tCMD \in Nat /\ tCMD >= 1
  BY TimingAssumption
<1>6. BusTimed
  BY DEF ReadsSpaced
<1>7. BusTimed'
  <2>1. CASE NothingOnBus
    BY <2>1 DEF NothingOnBus, BusTimed
  <2>2. CASE StillOnBus
    <3>1. outgoingCmd[1].cyclesLeft \in 2 .. tCMD /\ outgoingCmd[1] \in BusCommands
      BY <1>6, <2>2 DEF StillOnBus, BusTimed
    <3>2. outgoingCmd'[1].cyclesLeft = outgoingCmd[1].cyclesLeft - 1
      BY <2>2, <3>1 DEF StillOnBus, BusCommands
    <3> QED
      BY <1>5, <3>1, <3>2 DEF BusTimed
  <2>3. ASSUME NEW c \in Commands, Arrives(c) PROVE BusTimed'
    BY <2>3 DEF Arrives, BusTimed
  <2> QED
    BY <1>1, <2>1, <2>2, <2>3
<1>8. ASSUME NEW r \in Ranks PROVE RankSpaced(r)'
  <2> DEFINE u == ReadUntil(r)
             L == outgoingCmd[1].cyclesLeft
  <2>1. RankSpaced(r)
    BY DEF ReadsSpaced
  <2>2. /\ u \in Nat /\ RL \in Nat /\ RL >= 1 /\ BurstCycles \in Nat
        /\ \A b \in Banks : bankStates[r][b].nextRead \in Nat
        /\ outgoingCmd # << >> => L \in Int /\ L >= 1
    BY <1>6, SpacedTypes DEF BusTimed
  <2>3. /\ Spaced(readReturn[r], rankData[r])
        /\ ReadOnBus(r) => L + RL >= u + 1
        /\ \A b \in Banks :
             /\ bankStates[r][b].nextRead >= u - (tCMD + RL) - 0
             /\ ReadOnBus(r) => bankStates[r][b].nextRead >= L + BurstCycles - tCMD - 1
    BY <1>3, <2>1 DEF RankSpaced
  <2>4. ASSUME readReturn' = readReturn, ~(ReadOnBus(r)') PROVE RankSpaced(r)'
    <3>1. ReadUntil(r)' = u
      BY <1>1, <2>4 DEF ReadUntil
    <3> QED
      BY <1>1, <1>3, <1>4, <2>3, <2>4, <3>1 DEF RankSpaced
  <2>5. CASE NothingOnBus
    BY <2>4, <2>5 DEF NothingOnBus, ReadOnBus
  <2>6. CASE StillOnBus
    <3>1. outgoingCmd[1] \in BusCommands /\ outgoingCmd # << >> /\ readReturn' = readReturn
      BY <2>6 DEF StillOnBus
    <3>2. /\ outgoingCmd'[1].cyclesLeft = L - 1
          /\ outgoingCmd'[1].cmd = outgoingCmd[1].cmd
          /\ outgoingCmd' # << >>
      BY <2>6, <3>1 DEF StillOnBus, BusCommands
    <3>3. ReadUntil(r)' = u
      BY <1>1, <3>1 DEF ReadUntil
    <3>4. ReadOnBus(r)' <=> ReadOnBus(r)
      BY <3>1, <3>2 DEF ReadOnBus
    <3>5. L \in Int
      BY <2>2, <3>1
    <3> HIDE DEF u, L
    <3>6. ReadOnBus(r) => (L - 1) + RL >= u + 0
      BY <2>2, <2>3, <3>5
    <3>7. \A b \in Banks : ReadOnBus(r) =>
            bankStates[r][b].nextRead >= (L - 1) + BurstCycles - tCMD - 0
      BY <1>5, <2>2, <2>3, <3>5
    <3> QED
      BY <1>1, <1>3, <1>4, <2>3, <3>1, <3>2, <3>3, <3>4, <3>6, <3>7 DEF RankSpaced
  <2>7. ASSUME NEW c \in Commands, Arrives(c) PROVE RankSpaced(r)'
    <3>1. outgoingCmd # << >> /\ c = outgoingCmd[1].cmd /\ L = 1 /\ outgoingCmd' = << >>
      BY <2>7 DEF Arrives
    <3>2. ~(ReadOnBus(r)')
      BY <3>1 DEF ReadOnBus
    <3>3. CASE c.type = "READ" /\ c.rank = r
      <4> DEFINE e == [trans |-> c.trans, countdown |-> RL]
      <4>1. ReadOnBus(r)
        BY <3>1, <3>3 DEF ReadOnBus
      <4>2. readReturn'[r] = Append(readReturn[r], e)
        <5>1. readReturn \in [Ranks -> Seq(Latencies)]
          BY DEF ChannelTyped, ReadLinesTyped
        <5>2. readReturn' = [readReturn EXCEPT ![r] = Append(readReturn[r], e)]
          BY <2>7, <3>3 DEF Arrives
        <5> QED
          BY <5>1, <5>2
      <4>3. RL >= u
        <5> HIDE DEF u, L
        <5> QED
          BY <2>2, <2>3, <3>1, <4>1
      <4>4. c.trans \in Transactions
        BY <3>3, CommandParts
      <4>5. /\ Spaced(readReturn'[r], rankData'[r])
            /\ ReadUntil(r)' = RL + BurstCycles
        BY <1>1, <2>2, <2>3, <4>2, <4>3, <4>4, SpacedTypes, LineEnters DEF ReadUntil
      <4>6. \A b \in Banks : bankStates[r][b].nextRead >= (RL + BurstCycles) - (tCMD + RL) - 0
        <5> HIDE DEF u, L
        <5>1. \A b \in Banks : bankStates[r][b].nextRead >= 1 + BurstCycles - tCMD - 1
          BY <2>3, <3>1, <4>1
        <5> QED
          BY <1>5, <2>2, <5>1
      <4> QED
        BY <1>3, <1>4, <3>2, <4>5, <4>6 DEF RankSpaced
    <3>4. CASE ~(c.type = "READ" /\ c.rank = r)
      <4>1. readReturn'[r] = readReturn[r]
        <5>1. readReturn \in [Ranks -> Seq(Latencies)]
          BY DEF ChannelTyped, ReadLinesTyped
        <5> QED
          BY <2>7, <3>4, <5>1 DEF Arrives
      <4>2. ReadUntil(r)' = u
        BY <1>1, <4>1 DEF ReadUntil
      <4> QED
        BY <1>1, <1>3, <1>4, <2>3, <3>2, <4>1, <4>2 DEF RankSpaced
    <3> QED
      BY <3>3, <3>4
  <2> QED
    BY <1>1, <2>5, <2>6, <2>7
<1> QED
  BY <1>7, <1>8 DEF ReadsSpaced

(* Nothing happens to the lines, and no command arrives.                   *)
LEMMA ReadsSpacedIdle ==
  ASSUME ReadsSpaced, UNCHANGED << readReturn, rankData, outgoingCmd, bankStates >>,
         Ticked' = Ticked, Ranked' = Ranked, Between' = Between
  PROVE  ReadsSpaced'
<1>1. BusTimed'
  BY DEF ReadsSpaced, BusTimed
<1>2. ASSUME NEW r \in Ranks PROVE RankSpaced(r)'
  <2>1. RankSpaced(r)
    BY DEF ReadsSpaced
  <2>2. (ReadOnBus(r)' <=> ReadOnBus(r)) /\ ReadUntil(r)' = ReadUntil(r)
    BY DEF ReadOnBus, ReadUntil
  <2> QED
    BY <2>1, <2>2 DEF RankSpaced
<1> QED
  BY <1>1, <1>2 DEF ReadsSpaced

(* A READ is sent only when its bank accepts one, and postpones the        *)
(* others.                                                                 *)
LEMMA ReadsSpacedCommand ==
  ASSUME ChannelTyped, ReadsSpaced, Command
  PROVE  ReadsSpaced'
<1>1. \/ \E r \in Ranks : \E i \in ReadyColumns(r) : SendsColumn(r, i)
      \/ \E c \in Commands : SendsOther(c)
      \/ SendsNone
  BY CommandSteps
<1>2. phase = "command" /\ phase' = "dispatch" /\ readReturn' = readReturn /\ rankData' = rankData
  BY DEF Command, SendCommand, rankVars
<1>3. /\ Ticked = 0 /\ Ticked' = 0 /\ Ranked = 0 /\ Ranked' = 0 /\ Between = 0 /\ Between' = 0
  BY <1>2 DEF Ticked, Ranked, Between
<1>4. tCMD \in Nat /\ tCMD >= 1
  BY TimingAssumption
<1>5. \A r \in Ranks : ReadUntil(r)' = ReadUntil(r)
  BY <1>2 DEF ReadUntil
<1>6. ASSUME NEW c \in Commands, UpdateCommandQueue(c),
             c.type = "READ" =>
               \E b \in Banks : bankStates[c.rank][b].nextRead = 0
      PROVE  ReadsSpaced'
  <2>1. /\ outgoingCmd' # << >> /\ outgoingCmd'[1].cyclesLeft = tCMD
        /\ outgoingCmd'[1].cmd = c
    BY <1>6 DEF UpdateCommandQueue
  <2>2. BusTimed'
    BY <1>4, <2>1 DEF BusTimed
  <2>3. \A r \in Ranks : \A b \in Banks :
          Retimed(c, r, bankStates[r][b], bankStates'[r][b])
    BY <1>6, BanksAfterCommand DEF UpdateCommandQueue, ChannelTyped
  <2>4. ASSUME NEW r \in Ranks PROVE RankSpaced(r)'
    <3> DEFINE u == ReadUntil(r)
    <3>1. RankSpaced(r)
      BY DEF ReadsSpaced
    <3>2. /\ Spaced(readReturn[r], rankData[r])
          /\ \A b \in Banks : bankStates[r][b].nextRead >= u - (tCMD + RL) - 0
      BY <1>3, <3>1 DEF RankSpaced
    <3>3. /\ u \in Nat /\ RL \in Nat /\ BurstCycles \in Nat
          /\ \A b \in Banks : bankStates[r][b].nextRead \in Nat
      BY SpacedTypes
    <3>4. ReadOnBus(r)' <=> c.type = "READ" /\ c.rank = r
      BY <2>1 DEF ReadOnBus
    <3> HIDE DEF u
    <3>5. \A b \in Banks :
            /\ bankStates'[r][b].nextRead \in Nat
            /\ bankStates'[r][b].nextRead >= bankStates[r][b].nextRead
            /\ c.type = "READ" /\ c.rank = r => bankStates'[r][b].nextRead >= BurstCycles
      BY <2>3 DEF Retimed, Separated, Later, BankTypes
    <3>6. \A b \in Banks : bankStates'[r][b].nextRead >= u - (tCMD + RL) - 0
      BY <1>4, <3>2, <3>3, <3>5
    <3>7. c.type = "READ" /\ c.rank = r => tCMD + RL >= u + 0
      BY <1>4, <1>6, <3>2, <3>3
    <3>8. \A b \in Banks : c.type = "READ" /\ c.rank = r =>
            bankStates'[r][b].nextRead >= tCMD + BurstCycles - tCMD - 0
      BY <1>4, <3>3, <3>5
    <3> QED
      BY <1>2, <1>3, <1>5, <2>1, <3>2, <3>4, <3>6, <3>7, <3>8 DEF RankSpaced, u
  <2> QED
    BY <2>2, <2>4 DEF ReadsSpaced
<1>7. ASSUME NEW r \in Ranks, NEW i \in ReadyColumns(r), SendsColumn(r, i) PROVE ReadsSpaced'
  <2> DEFINE t == queues[r][i]
  <2>1. i \in 1 .. Len(queues[r]) /\ ColumnIssuable(t)
    BY DEF ReadyColumns
  <2>2. t \in Transactions
    BY <2>1, ElementOfSeq DEF ChannelTyped, QueuesTyped
  <2> HIDE DEF t
  <2>3. /\ ColumnCommand(t) \in Commands
        /\ ColumnCommand(t).type = "READ" => t.type = "DATA_READ"
        /\ ColumnCommand(t).rank = t.addr.rank
        /\ t.addr.bank \in Banks
    BY <2>2, ColumnCommandTyped, TransactionParts
  <2>4. ColumnCommand(t).type = "READ" => bankStates[t.addr.rank][t.addr.bank].nextRead = 0
    BY <2>1, <2>3 DEF ColumnIssuable
  <2>5. UpdateCommandQueue(ColumnCommand(t))
    BY <1>7 DEF SendsColumn, t
  <2> QED
    BY <1>6, <2>3, <2>4, <2>5
<1>8. ASSUME NEW c \in Commands, SendsOther(c) PROVE ReadsSpaced'
  BY <1>6, <1>8 DEF SendsOther
<1>9. CASE SendsNone
  BY <1>2, <1>3, <1>9, ReadsSpacedIdle DEF SendsNone
<1> QED
  BY <1>1, <1>7, <1>8, <1>9

(* The times tick.                                                         *)
LEMMA ReadsSpacedEnd ==
  ASSUME ChannelTyped, ReadsSpaced, EndUpdate
  PROVE  ReadsSpaced'
<1>1. /\ UNCHANGED << readReturn, rankData, outgoingCmd >>
      /\ phase = "return" /\ phase' = "client"
  BY DEF EndUpdate, TickController
<1>2. /\ Ticked = 0 /\ Ticked' = 1 /\ Ranked = 0 /\ Ranked' = 0 /\ Between = 0 /\ Between' = 1
  BY <1>1 DEF Ticked, Ranked, Between
<1>3. \A r \in Ranks : \A b \in Banks :
        /\ bankStates'[r][b].nextRead >= bankStates[r][b].nextRead - 1
        /\ bankStates'[r][b].nextRead \in Nat
  BY TickBanks DEF ChannelTyped, BankTypes
<1>4. ASSUME NEW r \in Ranks PROVE RankSpaced(r)'
  <2> DEFINE u == ReadUntil(r)
             L == outgoingCmd[1].cyclesLeft
  <2>1. RankSpaced(r)
    BY DEF ReadsSpaced
  <2>2. (ReadOnBus(r)' <=> ReadOnBus(r)) /\ ReadUntil(r)' = u
    BY <1>1 DEF ReadOnBus, ReadUntil
  <2>3. /\ Spaced(readReturn[r], rankData[r])
        /\ ReadOnBus(r) => L + RL >= u + 0
        /\ \A b \in Banks :
             /\ bankStates[r][b].nextRead >= u - (tCMD + RL) - 0
             /\ ReadOnBus(r) => bankStates[r][b].nextRead >= L + BurstCycles - tCMD - 0
    BY <1>2, <2>1 DEF RankSpaced
  <2>4. /\ u \in Nat /\ RL \in Nat /\ BurstCycles \in Nat /\ tCMD \in Nat
        /\ \A b \in Banks : bankStates[r][b].nextRead \in Nat
        /\ ReadOnBus(r) => L \in Int
    BY SpacedTypes DEF ReadOnBus
  <2> HIDE DEF u, L
  <2>5. \A b \in Banks : bankStates'[r][b].nextRead >= u - (tCMD + RL) - 1
    BY <1>3, <2>3, <2>4
  <2>6. \A b \in Banks : ReadOnBus(r) =>
          bankStates'[r][b].nextRead >= L + BurstCycles - tCMD - 1
    BY <1>3, <2>3, <2>4
  <2> QED
    BY <1>1, <1>2, <2>2, <2>3, <2>5, <2>6 DEF RankSpaced, u, L
<1>5. BusTimed'
  BY <1>1 DEF ReadsSpaced, BusTimed
<1> QED
  BY <1>4, <1>5 DEF ReadsSpaced

(* At the start nothing is under way.                                      *)
LEMMA ReadsSpacedInit == Init => ReadsSpaced
<1> SUFFICES ASSUME Init PROVE ReadsSpaced
  OBVIOUS
<1>1. /\ outgoingCmd = << >> /\ phase = "client"
      /\ \A r \in Ranks : readReturn[r] = << >> /\ rankData[r] = << >>
      /\ \A r \in Ranks : \A b \in Banks : bankStates[r][b].nextRead = 0
  BY DEF Init, ControllerInit, RankInit, IdleBank
<1>2. tCMD \in Nat /\ RL \in Nat
  BY TimingAssumption
<1>3. Len(<< >>) = 0
  BY EmptySeq
<1>4. Spaced(<< >>, << >>) /\ Until(<< >>, << >>) = 0
  BY <1>3 DEF Spaced, Until
<1>5. 0 >= 0 - (tCMD + RL) - 1
  BY <1>2
<1>6. \A r \in Ranks : ~ReadOnBus(r) /\ ReadUntil(r) = 0 /\ Ticked = 1
  BY <1>1, <1>4 DEF ReadOnBus, ReadUntil, Ticked
<1> QED
  BY <1>1, <1>4, <1>5, <1>6 DEF ReadsSpaced, RankSpaced, BusTimed

(* Every step keeps the bursts of the reads apart.                         *)
LEMMA ReadsSpacedNext == ChannelTyped /\ ReadsSpaced /\ [Next]_vars => ReadsSpaced'
<1> SUFFICES ASSUME ChannelTyped, ReadsSpaced, [Next]_vars PROVE ReadsSpaced'
  OBVIOUS
<1> USE DEF Ticked, Ranked, Between
<1>1. CASE ClientStep
  <2>1. ChannelUnchanged /\ phase' = phase
    BY <1>1 DEF ClientStep, AddTransaction, AddBarrier, RunReturns
  <2> QED
    BY <2>1, ReadsSpacedIdle DEF ChannelUnchanged, rankVars
<1>2. CASE AcceptPending
  BY <1>2, ReadsSpacedIdle DEF AcceptPending, ChannelUnchanged, rankVars
<1>3. CASE RefreshTimers
  BY <1>3, ReadsSpacedIdle DEF RefreshTimers, UpdateRefresh
<1>4. CASE Dispatch
  BY <1>4, ReadsSpacedIdle DEF Dispatch, UpdateTransactionQueue, rankVars
<1>5. CASE UNCHANGED vars
  BY <1>5, ReadsSpacedIdle DEF vars, rankVars, controllerVars
<1> QED
  BY <1>1, <1>2, <1>3, <1>4, <1>5, ReadsSpacedBegin, ReadsSpacedBus, ReadsSpacedCommand,
     ReadsSpacedEnd DEF Next, UpdateStep

(* The bursts of one rank never overlap: for every timing, the data pins   *)
(* of a rank carry one burst at a time, although Rank does not test it.    *)
THEOREM ReadsSpacedAlways == Spec => [](ChannelTyped /\ ReadsSpaced)
<1>1. Init => ChannelTyped /\ ReadsSpaced
  BY ChannelTypedInit, ReadsSpacedInit
<1>2. ChannelTyped /\ ReadsSpaced /\ [Next]_vars => (ChannelTyped /\ ReadsSpaced)'
  BY ChannelTypedNext, ReadsSpacedNext
<1> QED
  BY <1>1, <1>2, PTL DEF Spec


-----------------------------------------------------------------------------
(* The order of the reads.                                                 *)

(* Every transaction stands in a queue once.                               *)
DistinctIds(p) == \A i, j \in 1 .. Len(p) : p[i].id = p[j].id => i = j

(* x stands before y.                                                      *)
Older(p, x, y) == \E i, j \in 1 .. Len(p) : i < j /\ p[i] = x /\ p[j] = y

(* Reads of one address stay in the order of pendingReadTransactions p.    *)
Fifo(p, x, y) == x.addr = y.addr => Older(p, x, y)

(* Everything in X comes before everything in Y of the same address.       *)
Ahead(p, X, Y) == \A x \in X, y \in Y : Fifo(p, x, y)

(* A transaction that is appended is younger than all others.              *)
LEMMA OlderAppended ==
  ASSUME NEW p \in Seq(Transactions), NEW t \in Transactions
  PROVE  /\ \A x, y : Older(p, x, y) => Older(Append(p, t), x, y)
         /\ \A x \in ToSet(p) : Older(Append(p, t), x, t)
         /\ (DistinctIds(p) /\ \A x \in ToSet(p) : x.id # t.id) => DistinctIds(Append(p, t))
<1> DEFINE a == Append(p, t)
<1>1. PICK n \in Nat : n = Len(p)
  BY LenProperties
<1>2. /\ Len(a) = n + 1 /\ a[n + 1] = t
      /\ \A i \in 1 .. n : a[i] = p[i] /\ i \in 1 .. n + 1 /\ i < n + 1
      /\ \A i \in 1 .. n + 1 : i \in 1 .. n \/ i = n + 1
  BY <1>1, AppendMember
<1>3. \A x : x \in ToSet(p) <=> \E i \in 1 .. n : p[i] = x
  BY <1>1, ToSetMember
<1> HIDE DEF a
<1>4. \A x, y : Older(p, x, y) => Older(a, x, y)
  BY <1>1, <1>2 DEF Older
<1>5. \A x \in ToSet(p) : Older(a, x, t)
  BY <1>2, <1>3 DEF Older
<1>6. ASSUME DistinctIds(p), \A x \in ToSet(p) : x.id # t.id PROVE DistinctIds(a)
  <2>1. \A i \in 1 .. n : p[i].id # t.id
    BY <1>3, <1>6
  <2> QED
    BY <1>1, <1>2, <1>6, <2>1 DEF DistinctIds
<1> QED
  BY <1>4, <1>5, <1>6 DEF a

(* A transaction that is removed leaves the order of the others as it is.  *)
LEMMA OlderRemoved ==
  ASSUME NEW p \in Seq(Transactions), NEW i \in 1 .. Len(p), DistinctIds(p)
  PROVE  /\ \A x, y : Older(p, x, y) /\ x # p[i] /\ y # p[i] => Older(RemoveAt(p, i), x, y)
         /\ DistinctIds(RemoveAt(p, i))
         /\ \A x : x \in ToSet(RemoveAt(p, i)) <=> x \in ToSet(p) /\ x # p[i]
<1> DEFINE a == RemoveAt(p, i)
<1>1. PICK n \in Nat : n = Len(p)
  BY LenProperties
<1>2. /\ \A x \in ToSet(a) : x \in ToSet(p)
      /\ \A x \in ToSet(p) : x # p[i] => x \in ToSet(a)
      /\ (\A j \in 1 .. Len(p) : p[j] = p[i] => j = i) => p[i] \notin ToSet(a)
      /\ Len(a) = Len(p) - 1
  BY RemoveAtMember
<1>10. \A j \in 1 .. n - 1 : a[j] = p[IF j < i THEN j ELSE j + 1]
  BY <1>1, RemoveAtProperties
<1>11. i \in 1 .. n
  BY <1>1
<1>3. PICK old \in [1 .. n - 1 -> 1 .. n] :
           /\ \A j \in 1 .. n - 1 : a[j] = p[old[j]] /\ old[j] # i
           /\ \A j, k \in 1 .. n - 1 : j < k => old[j] < old[k]
           /\ \A k \in 1 .. n : k # i => \E j \in 1 .. n - 1 : old[j] = k
  <2> DEFINE old == [j \in 1 .. n - 1 |-> IF j < i THEN j ELSE j + 1]
  <2>1. old \in [1 .. n - 1 -> 1 .. n] /\ \A j \in 1 .. n - 1 : old[j] = IF j < i THEN j ELSE j + 1
    BY <1>11
  <2> HIDE DEF old, a
  <2>2. \A j \in 1 .. n - 1 : a[j] = p[old[j]] /\ old[j] # i
    BY <1>10, <1>11, <2>1
  <2>3. \A j, k \in 1 .. n - 1 : j < k => old[j] < old[k]
    BY <1>11, <2>1
  <2>4. ASSUME NEW k \in 1 .. n, k # i PROVE \E j \in 1 .. n - 1 : old[j] = k
    <3>1. CASE k < i
      <4>1. k \in 1 .. n - 1 /\ old[k] = k
        BY <1>11, <2>1, <3>1
      <4> QED BY <4>1
    <3>2. CASE ~(k < i)
      <4>1. k - 1 \in 1 .. n - 1 /\ old[k - 1] = k
        BY <1>11, <2>1, <2>4, <3>2
      <4> QED BY <4>1
    <3> QED BY <3>1, <3>2
  <2> QED
    BY <2>1, <2>2, <2>3, <2>4
<1>4. \A j, k \in 1 .. n : p[j].id = p[k].id => j = k
  BY <1>1 DEF DistinctIds
<1>5. p[i] \notin ToSet(a)
  BY <1>1, <1>2, <1>4
<1>9. Len(a) = n - 1
  BY <1>1, <1>2
<1> HIDE DEF a
<1>6. ASSUME NEW x, NEW y, Older(p, x, y), x # p[i], y # p[i] PROVE Older(a, x, y)
  <2>1. PICK j \in 1 .. n, k \in 1 .. n : j < k /\ p[j] = x /\ p[k] = y
    BY <1>1, <1>6 DEF Older
  <2>2. j # i /\ k # i
    BY <1>6, <2>1
  <2>3. PICK jj \in 1 .. n - 1 : old[jj] = j
    BY <1>3, <2>2
  <2>4. PICK kk \in 1 .. n - 1 : old[kk] = k
    BY <1>3, <2>2
  <2>5. jj < kk
    <3>1. jj = kk \/ kk < jj \/ jj < kk
      OBVIOUS
    <3>2. ~(k < j) /\ j # k
      BY <2>1
    <3> QED
      BY <1>3, <2>3, <2>4, <3>1, <3>2
  <2>6. a[jj] = x /\ a[kk] = y
    BY <1>3, <2>1, <2>3, <2>4
  <2> QED
    BY <1>9, <2>5, <2>6 DEF Older
<1>7. DistinctIds(a)
  <2> SUFFICES ASSUME NEW j \in 1 .. n - 1, NEW k \in 1 .. n - 1, a[j].id = a[k].id PROVE j = k
    BY <1>9 DEF DistinctIds
  <2>1. a[j] = p[old[j]] /\ a[k] = p[old[k]] /\ old[j] \in 1 .. n /\ old[k] \in 1 .. n
    BY <1>3
  <2>2. old[j] = old[k]
    BY <1>4, <2>1
  <2>3. j < k \/ k < j \/ j = k
    OBVIOUS
  <2>4. ~(old[j] < old[k]) /\ ~(old[k] < old[j])
    BY <2>1, <2>2
  <2> QED
    BY <1>3, <2>3, <2>4
<1>8. \A x : x \in ToSet(a) <=> x \in ToSet(p) /\ x # p[i]
  BY <1>2, <1>5
<1> QED
  BY <1>6, <1>7, <1>8 DEF a

(* Of two transactions only one is the older one.                          *)
LEMMA OlderOnce ==
  ASSUME NEW p \in Seq(Transactions), DistinctIds(p), NEW x, NEW y, Older(p, x, y)
  PROVE  ~Older(p, y, x)
<1>1. PICK i \in 1 .. Len(p), j \in 1 .. Len(p) : i < j /\ p[i] = x /\ p[j] = y
  BY DEF Older
<1> SUFFICES ASSUME NEW k \in 1 .. Len(p), NEW m \in 1 .. Len(p), k < m, p[k] = y, p[m] = x
             PROVE  FALSE
  BY DEF Older
<1>2. k = j /\ m = i
  BY <1>1 DEF DistinctIds
<1>3. Len(p) \in Nat
  BY LenProperties
<1> QED
  BY <1>1, <1>2, <1>3

-----------------------------------------------------------------------------
(* Where a read of the rank r can be: on the data pins of the rank, ...    *)
OnPins(r) == IF rankData[r] # << >> THEN {rankData[r][1].trans} ELSE {}

(* ... waiting out the latency, ...                                        *)
Latency(r) == {readReturn[r][i].trans : i \in 1 .. Len(readReturn[r])}

(* ... on the command bus, ...                                             *)
OnBus(r) == IF ReadOnBus(r) THEN {outgoingCmd[1].cmd.trans} ELSE {}

(* ... or in the command queue.                                            *)
QueuedReads(r) == {t \in ToSet(queues[r]) : t.type = "DATA_READ"}

(* Where a read of the rank r can be.                                      *)
AtRank(r) == OnPins(r) \cup Latency(r) \cup OnBus(r) \cup QueuedReads(r)

(* It is a read of this rank.                                              *)
Tracked(r) ==
  /\ \A x \in AtRank(r) : x.addr.rank = r
  /\ \A x \in ToSet(queues[r]) : x.addr.rank = r

(* Along the way to a rank and back, the reads of one address keep the     *)
(* order in which they became commands.                                    *)
RankInOrder(p, r) ==
  /\ Ahead(p, ToSet(returnTransaction), AtRank(r))
  /\ Ahead(p, OnPins(r), Latency(r)) /\ Ahead(p, OnPins(r), OnBus(r))
  /\ Ahead(p, OnPins(r), QueuedReads(r))
  /\ Ahead(p, Latency(r), OnBus(r)) /\ Ahead(p, Latency(r), QueuedReads(r))
  /\ Ahead(p, OnBus(r), QueuedReads(r))
  /\ \A i, j \in 1 .. Len(readReturn[r]) :
       i < j => Fifo(p, readReturn[r][i].trans, readReturn[r][j].trans)
  /\ \A i, j \in 1 .. Len(queues[r]) :
       i < j /\ queues[r][i].type = "DATA_READ" /\ queues[r][j].type = "DATA_READ"
         => Fifo(p, queues[r][i], queues[r][j])

(* pendingReadTransactions holds exactly the reads under way, in an order  *)
(* that the reads of each address keep.                                    *)
ReadsInOrder ==
  /\ DistinctIds(pendingReadTransactions)
  /\ \A x \in ToSet(pendingReadTransactions) : x.type = "DATA_READ"
  /\ \A x : x \in ToSet(pendingReadTransactions) <=>
             x \in ToSet(returnTransaction) \/ \E r \in Ranks : x \in AtRank(r)
  /\ \A i, j \in 1 .. Len(returnTransaction) : i < j =>
       Fifo(pendingReadTransactions, returnTransaction[i], returnTransaction[j])
  /\ \A r \in Ranks : Tracked(r) /\ RankInOrder(pendingReadTransactions, r)

(* The burst that ends moves from the pins to returnTransaction, the next  *)
(* read takes the pins.                                                    *)
LEMMA ReadsMoveUp ==
  ASSUME ChannelTyped, ReadsSpaced, BeginUpdate, NEW r \in Ranks,
         NEW p, RankInOrder(p, r)
  PROVE  /\ \A x : x \in OnPins(r) \cup Latency(r) <=>
                    x \in ToSet(Delivered(r)) \cup OnPins(r)' \cup Latency(r)'
         /\ \A x \in ToSet(Delivered(r)) : x \in OnPins(r)
         /\ Ahead(p, ToSet(Delivered(r)), OnPins(r)' \cup Latency(r)')
         /\ Ahead(p, OnPins(r)', Latency(r)')
         /\ \A i, j \in 1 .. Len(readReturn'[r]) :
              i < j => Fifo(p, readReturn'[r][i].trans, readReturn'[r][j].trans)
<1> DEFINE q == readReturn[r]
           out == rankData[r]
           q2 == readReturn'[r]
           out2 == rankData'[r]
<1>1. q2 = NextLatencies(q) /\ out2 = NextBurst(q, out)
  BY BeginSteps DEF ChannelTyped
<1>2. IsLine(q, out) /\ Spaced(q, out)
  BY DEF ReadsSpaced, RankSpaced, ChannelTyped, ReadLinesTyped
<1>3. IsLine(q2, out2) /\ (MovesUp(q, out, q2, out2) \/ StaysPut(q, out, q2, out2))
  BY <1>1, <1>2, LineMoves
<1>4. \A x : x \in ToSet(Delivered(r)) <=> Ends(out) /\ x = out[1].trans
  BY DeliveredTyped DEF ChannelTyped
<1>5. /\ OnPins(r) = IF out # << >> THEN {out[1].trans} ELSE {}
      /\ OnPins(r)' = IF out2 # << >> THEN {out2[1].trans} ELSE {}
      /\ Latency(r) = {q[i].trans : i \in 1 .. Len(q)}
      /\ Latency(r)' = {q2[i].trans : i \in 1 .. Len(q2)}
  BY DEF OnPins, Latency
<1>12. /\ \A x : x \in OnPins(r) <=> out # << >> /\ x = out[1].trans
       /\ \A x : x \in OnPins(r)' <=> out2 # << >> /\ x = out2[1].trans
  BY <1>5
<1>6. /\ Ahead(p, OnPins(r), Latency(r))
      /\ \A i, j \in 1 .. Len(q) : i < j => Fifo(p, q[i].trans, q[j].trans)
  BY DEF RankInOrder
<1>7. PICK n \in Nat : n = Len(q)
  BY <1>2, LenProperties DEF IsLine
<1>8. Ends(out) => out # << >>
  BY DEF Ends
<1> HIDE DEF q, out, q2, out2
<1>9. \A x \in ToSet(Delivered(r)) : x \in OnPins(r)
  BY <1>4, <1>5, <1>8
<1>10. CASE MovesUp(q, out, q2, out2)
  <2>1. out = << >> \/ Ends(out)
    BY <1>2, <1>10, PinsFree DEF MovesUp
  <2>2. /\ n >= 1 /\ Len(q2) = n - 1 /\ out2 # << >> /\ out2[1].trans = q[1].trans
        /\ \A i \in 1 .. n - 1 : i + 1 \in 1 .. n /\ q2[i].trans = q[i + 1].trans
    BY <1>7, <1>10 DEF MovesUp
  <2>3. /\ 1 \in 1 .. n
        /\ \A i \in 1 .. n : i = 1 \/ (1 < i /\ i - 1 \in 1 .. n - 1 /\ (i - 1) + 1 = i)
        /\ \A i \in 1 .. n - 1 : 1 < i + 1
        /\ \A i, j \in 1 .. n - 1 : i < j => i + 1 < j + 1
    BY <2>2
  <2>4. \A x : x \in Latency(r) <=> x = q[1].trans \/ x \in Latency(r)'
    <3>1. \A x : x \in Latency(r) <=> \E i \in 1 .. n : x = q[i].trans
      BY <1>5, <1>7
    <3>2. \A x : x \in Latency(r)' <=> \E i \in 1 .. n - 1 : x = q2[i].trans
      BY <1>5, <2>2
    <3>3. \A i \in 1 .. n : i # 1 => q[i].trans = q2[i - 1].trans
      BY <2>2, <2>3
    <3>4. ASSUME NEW x, x \in Latency(r) PROVE x = q[1].trans \/ x \in Latency(r)'
      <4>1. PICK i \in 1 .. n : x = q[i].trans
        BY <3>1, <3>4
      <4>2. i = 1 \/ (i - 1 \in 1 .. n - 1 /\ q[i].trans = q2[i - 1].trans)
        BY <2>3, <3>3
      <4> QED
        BY <3>2, <4>1, <4>2
    <3>5. ASSUME NEW x, x \in Latency(r)' PROVE x \in Latency(r)
      <4>1. PICK i \in 1 .. n - 1 : x = q2[i].trans
        BY <3>2, <3>5
      <4> QED
        BY <2>2, <3>1, <4>1
    <3>6. q[1].trans \in Latency(r)
      BY <2>3, <3>1
    <3> QED
      BY <3>4, <3>5, <3>6
  <2>5. \A x : x \in OnPins(r)' <=> x = q[1].trans
    BY <1>5, <2>2
  <2>6. \A x : x \in OnPins(r) <=> x \in ToSet(Delivered(r))
    BY <1>4, <1>8, <1>12, <2>1
  <2>7. Ahead(p, OnPins(r)', Latency(r)')
    <3>1. \A i \in 1 .. n - 1 : Fifo(p, q[1].trans, q2[i].trans)
      BY <1>6, <1>7, <2>2, <2>3
    <3> QED
      BY <1>5, <2>2, <2>5, <3>1 DEF Ahead
  <2>8. Ahead(p, ToSet(Delivered(r)), OnPins(r)' \cup Latency(r)')
    BY <1>6, <1>9, <2>4, <2>5 DEF Ahead
  <2>9. \A i, j \in 1 .. n - 1 : i < j => Fifo(p, q2[i].trans, q2[j].trans)
    BY <1>6, <1>7, <2>2, <2>3
  <2> QED
    BY <1>9, <2>2, <2>4, <2>5, <2>6, <2>7, <2>8, <2>9 DEF q2
<1>11. CASE StaysPut(q, out, q2, out2)
  <2>1. /\ Len(q2) = n
        /\ \A i \in 1 .. n : q2[i].trans = q[i].trans
        /\ out = << >> => out2 = << >>
        /\ Ends(out) => out2 = << >>
        /\ (out # << >> /\ ~Ends(out)) => (out2 # << >> /\ out2[1].trans = out[1].trans)
    BY <1>7, <1>11 DEF StaysPut
  <2>2. Latency(r)' = Latency(r)
    BY <1>5, <1>7, <2>1
  <2>3. \A x : x \in OnPins(r) <=> x \in ToSet(Delivered(r)) \/ x \in OnPins(r)'
    BY <1>4, <1>8, <1>12, <2>1
  <2>4. ToSet(Delivered(r)) = {} \/ OnPins(r)' = {}
    BY <1>4, <1>5, <2>1
  <2>5. Ahead(p, OnPins(r)', Latency(r)')
    BY <1>6, <2>2, <2>3 DEF Ahead
  <2>6. Ahead(p, ToSet(Delivered(r)), OnPins(r)' \cup Latency(r)')
    BY <1>6, <1>9, <2>2, <2>4 DEF Ahead
  <2>7. \A i, j \in 1 .. n : i < j => Fifo(p, q2[i].trans, q2[j].trans)
    BY <1>6, <1>7, <2>1
  <2> QED
    BY <1>9, <2>1, <2>2, <2>3, <2>5, <2>6, <2>7 DEF q2
<1> QED
  BY <1>3, <1>10, <1>11

-----------------------------------------------------------------------------
(* The steps of update() keep the order.                                   *)

(* The data of the ranks moves up.                                         *)
LEMMA ReadsInOrderBegin ==
  ASSUME ChannelTyped, ReadsSpaced, ReadsInOrder, BeginUpdate
  PROVE  ReadsInOrder'
<1> DEFINE p == pendingReadTransactions
           R == returnTransaction
           R2 == returnTransaction'
           New == UNION {ToSet(Delivered(r)) : r \in Ranks}
<1>1. p' = p /\ outgoingCmd' = outgoingCmd /\ queues' = queues
  BY DEF BeginUpdate, commandQueueVars
<1>2. \A r \in Ranks : OnBus(r)' = OnBus(r) /\ QueuedReads(r)' = QueuedReads(r)
  BY <1>1 DEF OnBus, ReadOnBus, QueuedReads
<1>3. R2 = R \o AllDelivered /\ R \in Seq(Transactions) /\ AllDelivered \in Seq(Transactions)
  BY BeginSteps, AllDeliveredTyped DEF ChannelTyped, QueuesTyped
<1>4. \A x : x \in ToSet(AllDelivered) <=> \E r \in Ranks : x \in ToSet(Delivered(r))
  BY AllDeliveredTyped DEF ChannelTyped
<1>5. \A x : x \in ToSet(R2) <=> x \in ToSet(R) \/ \E r \in Ranks : x \in ToSet(Delivered(r))
  BY <1>3, <1>4, ConcatMember
<1>6. ASSUME NEW r \in Ranks
      PROVE  /\ Tracked(r) /\ RankInOrder(p, r)
             /\ \A x : x \in OnPins(r) \cup Latency(r) <=>
                    x \in ToSet(Delivered(r)) \cup OnPins(r)' \cup Latency(r)'
             /\ \A x \in ToSet(Delivered(r)) : x \in OnPins(r)
             /\ Ahead(p, ToSet(Delivered(r)), OnPins(r)' \cup Latency(r)')
             /\ Ahead(p, OnPins(r)', Latency(r)')
             /\ \A i, j \in 1 .. Len(readReturn'[r]) :
                  i < j => Fifo(p, readReturn'[r][i].trans, readReturn'[r][j].trans)
  <2>1. Tracked(r) /\ RankInOrder(p, r)
    BY DEF ReadsInOrder
  <2> QED
    BY <2>1, ReadsMoveUp
<1>7. \A r \in Ranks : \A x :
        x \in AtRank(r) <=> x \in ToSet(Delivered(r)) \/ x \in AtRank(r)'
  <2> SUFFICES ASSUME NEW r \in Ranks, NEW x
               PROVE  x \in AtRank(r) <=> x \in ToSet(Delivered(r)) \/ x \in AtRank(r)'
    OBVIOUS
  <2>1. /\ x \in AtRank(r) <=> x \in OnPins(r) \cup Latency(r) \/ x \in OnBus(r) \/ x \in QueuedReads(r)
        /\ x \in AtRank(r)' <=> x \in OnPins(r)' \cup Latency(r)' \/ x \in OnBus(r) \/ x \in QueuedReads(r)
    BY <1>2 DEF AtRank
  <2>2. x \in OnPins(r) \cup Latency(r) <=>
          x \in ToSet(Delivered(r)) \/ x \in OnPins(r)' \cup Latency(r)'
    BY <1>6
  <2> QED
    BY <2>1, <2>2
<1>8. /\ DistinctIds(p) /\ \A x \in ToSet(p) : x.type = "DATA_READ"
      /\ \A x : x \in ToSet(p) <=> x \in ToSet(R) \/ \E r \in Ranks : x \in AtRank(r)
      /\ \A i, j \in 1 .. Len(R) : i < j => Fifo(p, R[i], R[j])
  BY DEF ReadsInOrder
<1>9. ASSUME NEW x, NEW y, NEW r \in Ranks, NEW s \in Ranks, r # s,
             x \in AtRank(r), y \in AtRank(s)
      PROVE  Fifo(p, x, y)
  <2>1. x.addr.rank = r /\ y.addr.rank = s
    BY <1>6, <1>9 DEF Tracked
  <2> QED
    BY <1>9, <2>1 DEF Fifo
<1>10. ASSUME NEW i \in 1 .. Len(R2), NEW j \in 1 .. Len(R2), i < j PROVE Fifo(p, R2[i], R2[j])
  <2>1. \/ /\ i \in 1 .. Len(R) /\ j \in 1 .. Len(R)
           /\ R2[i] = R[i] /\ R2[j] = R[j]
        \/ R2[i] \in ToSet(R) /\ R2[j] \in ToSet(AllDelivered)
        \/ /\ i - Len(R) \in 1 .. Len(AllDelivered) /\ j - Len(R) \in 1 .. Len(AllDelivered)
           /\ R2[i] = AllDelivered[i - Len(R)] /\ R2[j] = AllDelivered[j - Len(R)]
    BY <1>3, <1>10, ConcatMember
  <2>2. CASE /\ i \in 1 .. Len(R) /\ j \in 1 .. Len(R)
             /\ R2[i] = R[i] /\ R2[j] = R[j]
    BY <1>8, <1>10, <2>2
  <2>3. CASE R2[i] \in ToSet(R) /\ R2[j] \in ToSet(AllDelivered)
    <3>1. PICK r \in Ranks : R2[j] \in ToSet(Delivered(r))
      BY <1>4, <2>3
    <3>2. R2[j] \in AtRank(r)
      BY <1>7, <3>1
    <3> QED
      BY <1>6, <2>3, <3>2 DEF RankInOrder, Ahead
  <2>4. CASE /\ i - Len(R) \in 1 .. Len(AllDelivered) /\ j - Len(R) \in 1 .. Len(AllDelivered)
             /\ R2[i] = AllDelivered[i - Len(R)] /\ R2[j] = AllDelivered[j - Len(R)]
    <3>1. i - Len(R) < j - Len(R)
      <4>1. Len(R) \in Nat
        BY <1>3, LenProperties
      <4> QED
        BY <1>10, <4>1
    <3>2. \E r, s \in Ranks : r # s /\ R2[i] \in ToSet(Delivered(r)) /\ R2[j] \in ToSet(Delivered(s))
      BY <2>4, <3>1, AllDeliveredTyped DEF ChannelTyped
    <3> QED
      BY <1>7, <1>9, <3>2
  <2> QED
    BY <2>1, <2>2, <2>3, <2>4
<1>11. ASSUME NEW r \in Ranks PROVE Tracked(r)' /\ RankInOrder(p, r)'
  <2> DEFINE D == ToSet(Delivered(r))
             A == OnPins(r)
             B == Latency(r)
             A2 == OnPins(r)'
             B2 == Latency(r)'
             C == OnBus(r)
             Q == QueuedReads(r)
  <2>1. Tracked(r)'
    BY <1>1, <1>6, <1>7 DEF Tracked
  <2>2. /\ \A x : x \in A \cup B <=> x \in D \cup A2 \cup B2
        /\ \A x \in D : x \in A
        /\ Ahead(p, D, A2 \cup B2) /\ Ahead(p, A2, B2)
    BY <1>6
  <2>3. /\ Ahead(p, ToSet(R), AtRank(r))
        /\ Ahead(p, A, B) /\ Ahead(p, A, C) /\ Ahead(p, A, Q)
        /\ Ahead(p, B, C) /\ Ahead(p, B, Q) /\ Ahead(p, C, Q)
    BY <1>6 DEF RankInOrder
  <2>4. \A x : x \in AtRank(r)' <=> x \in A2 \/ x \in B2 \/ x \in C \/ x \in Q
    BY <1>2 DEF AtRank
  <2> HIDE DEF D, A, B, A2, B2, C, Q
  <2>5. /\ Ahead(p, A2, C) /\ Ahead(p, A2, Q) /\ Ahead(p, B2, C) /\ Ahead(p, B2, Q)
    BY <2>2, <2>3 DEF Ahead
  <2>6. ASSUME NEW x \in ToSet(R2), NEW y \in AtRank(r)' PROVE Fifo(p, x, y)
    <3>1. CASE x \in ToSet(R)
      BY <1>7, <2>3, <3>1 DEF Ahead
    <3>2. CASE x \in D
      BY <2>2, <2>3, <2>4, <3>2 DEF Ahead
    <3>3. ASSUME NEW s \in Ranks, s # r, x \in ToSet(Delivered(s)) PROVE Fifo(p, x, y)
      BY <1>7, <1>9, <3>3
    <3> QED
      BY <1>5, <3>1, <3>2, <3>3 DEF D
  <2>7. Ahead(p, ToSet(R2), AtRank(r)')
    BY <2>6 DEF Ahead
  <2>8. /\ \A i, j \in 1 .. Len(readReturn'[r]) :
             i < j => Fifo(p, readReturn'[r][i].trans, readReturn'[r][j].trans)
        /\ \A i, j \in 1 .. Len(queues[r]) :
             i < j /\ queues[r][i].type = "DATA_READ" /\ queues[r][j].type = "DATA_READ"
               => Fifo(p, queues[r][i], queues[r][j])
    BY <1>6 DEF RankInOrder
  <2>9. OnPins(r)' = A2 /\ Latency(r)' = B2 /\ OnBus(r)' = C /\ QueuedReads(r)' = Q
    BY <1>2 DEF A2, B2, C, Q
  <2> QED
    BY <1>1, <2>1, <2>2, <2>3, <2>5, <2>7, <2>8, <2>9 DEF RankInOrder
<1>12. \A x : x \in ToSet(p) <=> x \in ToSet(R2) \/ \E r \in Ranks : x \in AtRank(r)'
  BY <1>5, <1>7, <1>8
<1> QED
  BY <1>1, <1>8, <1>10, <1>11, <1>12 DEF ReadsInOrder

(* Nothing moves along the way of the reads.                               *)
LEMMA ReadsInOrderIdle ==
  ASSUME ReadsInOrder,
         UNCHANGED << pendingReadTransactions, returnTransaction, rankData, queues >>,
         \A r \in Ranks : readReturn'[r] = readReturn[r] /\ OnBus(r)' = OnBus(r)
  PROVE  ReadsInOrder'
<1>1. ASSUME NEW r \in Ranks
      PROVE  OnPins(r)' = OnPins(r) /\ Latency(r)' = Latency(r) /\ QueuedReads(r)' = QueuedReads(r)
  BY DEF OnPins, Latency, QueuedReads
<1>2. \A r \in Ranks : AtRank(r)' = AtRank(r)
  BY <1>1 DEF AtRank
<1>3. ASSUME NEW r \in Ranks
      PROVE  Tracked(r)' /\ RankInOrder(pendingReadTransactions, r)'
  <2>1. Tracked(r) /\ RankInOrder(pendingReadTransactions, r)
    BY DEF ReadsInOrder
  <2> QED
    BY <1>1, <1>2, <2>1 DEF Tracked, RankInOrder
<1>4. \A x : (\E r \in Ranks : x \in AtRank(r)') <=> \E r \in Ranks : x \in AtRank(r)
  BY <1>2
<1> QED
  BY <1>3, <1>4 DEF ReadsInOrder

(* A READ that reaches its rank joins the line at the end.                 *)
LEMMA ReadsInOrderBus ==
  ASSUME ChannelTyped, ReadsInOrder, Bus
  PROVE  ReadsInOrder'
<1>1. /\ rankData' = rankData
      /\ NothingOnBus \/ StillOnBus \/ \E c \in Commands : Arrives(c)
  BY BusSteps DEF ChannelTyped
<1>2. UNCHANGED << pendingReadTransactions, returnTransaction, rankData, queues >>
  BY DEF Bus, DriveBuses, commandQueueVars
<1>3. CASE NothingOnBus
  <2>1. \A r \in Ranks : readReturn'[r] = readReturn[r] /\ OnBus(r)' = OnBus(r)
    BY <1>3 DEF NothingOnBus, OnBus, ReadOnBus
  <2> QED
    BY <1>2, <2>1, ReadsInOrderIdle
<1>4. CASE StillOnBus
  <2>1. /\ outgoingCmd # << >> /\ outgoingCmd' # << >> /\ outgoingCmd'[1].cmd = outgoingCmd[1].cmd
        /\ readReturn' = readReturn
    <3>1. outgoingCmd[1] \in BusCommands
      BY <1>4 DEF StillOnBus
    <3> QED
      BY <1>4, <3>1 DEF StillOnBus, BusCommands
  <2>2. \A r \in Ranks : readReturn'[r] = readReturn[r] /\ OnBus(r)' = OnBus(r)
    BY <2>1 DEF OnBus, ReadOnBus
  <2> QED
    BY <1>2, <2>2, ReadsInOrderIdle
<1>5. ASSUME NEW c \in Commands, Arrives(c) PROVE ReadsInOrder'
  <2>1. outgoingCmd # << >> /\ c = outgoingCmd[1].cmd /\ outgoingCmd' = << >>
    BY <1>5 DEF Arrives
  <2>2. readReturn \in [Ranks -> Seq(Latencies)]
    BY DEF ChannelTyped, ReadLinesTyped
  <2>3. /\ \A r \in Ranks : OnBus(r)' = {}
        /\ \A r \in Ranks : \A x : x \in OnBus(r) <=> c.type = "READ" /\ c.rank = r /\ x = c.trans
    BY <2>1 DEF OnBus, ReadOnBus
  <2>4. CASE c.type # "READ"
    <3>1. \A r \in Ranks : readReturn'[r] = readReturn[r]
      BY <1>5, <2>4 DEF Arrives
    <3>2. \A r \in Ranks : OnBus(r)' = OnBus(r)
      BY <2>3, <2>4
    <3> QED
      BY <1>2, <3>1, <3>2, ReadsInOrderIdle
  <2>5. CASE c.type = "READ"
    <3> DEFINE s == c.rank
               e == [trans |-> c.trans, countdown |-> RL]
               q == readReturn[s]
               q2 == readReturn'[s]
               p == pendingReadTransactions
    <3>1. s \in Ranks /\ c.trans \in Transactions
      BY <2>5, CommandParts
    <3>2. e \in Latencies /\ e.trans = c.trans
      BY <3>1, TimingAssumption DEF Latencies
    <3>3. readReturn' = [readReturn EXCEPT ![s] = Append(q, e)]
      BY <1>5, <2>5 DEF Arrives
    <3> HIDE DEF e, s
    <3>4. q2 = Append(q, e) /\ \A r \in Ranks : r # s => readReturn'[r] = readReturn[r]
      BY <2>2, <3>1, <3>3
    <3>5. q \in Seq(Latencies)
      BY <2>2, <3>1
    <3>6. PICK n \in Nat : n = Len(q)
      BY <3>5, LenProperties
    <3>7. /\ Len(q2) = n + 1 /\ q2[n + 1] = e /\ \A i \in 1 .. n : q2[i] = q[i]
          /\ \A i \in 1 .. n + 1 : i \in 1 .. n \/ i = n + 1
          /\ \A i \in 1 .. n : i \in 1 .. n + 1
          /\ n + 1 \in 1 .. n + 1
      BY <3>2, <3>4, <3>5, <3>6, AppendMember
    <3>8. \A x : x \in Latency(s)' <=> x \in Latency(s) \/ x = c.trans
      <4>1. /\ \A x : x \in Latency(s) <=> \E i \in 1 .. n : x = q[i].trans
            /\ \A x : x \in Latency(s)' <=> \E i \in 1 .. n + 1 : x = q2[i].trans
        BY <3>6, <3>7 DEF Latency
      <4>2. \A x : x \in Latency(s) => x \in Latency(s)'
        BY <3>7, <4>1
      <4>3. c.trans \in Latency(s)'
        BY <3>2, <3>7, <4>1
      <4>4. \A x : x \in Latency(s)' => x \in Latency(s) \/ x = c.trans
        BY <3>2, <3>7, <4>1
      <4> QED
        BY <4>2, <4>3, <4>4
    <3>9. /\ \A r \in Ranks : OnPins(r)' = OnPins(r) /\ QueuedReads(r)' = QueuedReads(r)
          /\ \A r \in Ranks : r # s => Latency(r)' = Latency(r)
      BY <1>2, <3>4 DEF OnPins, QueuedReads, Latency
    <3>10. \A r \in Ranks : \A x : x \in OnBus(r) <=> r = s /\ x = c.trans
      BY <2>3, <2>5 DEF s
    <3>11. \A r \in Ranks : \A x : x \in AtRank(r)' <=> x \in AtRank(r)
      BY <2>3, <3>8, <3>9, <3>10 DEF AtRank
    <3>12. ASSUME NEW r \in Ranks PROVE Tracked(r)' /\ RankInOrder(p, r)'
      <4>1. Tracked(r) /\ RankInOrder(p, r)
        BY DEF ReadsInOrder
      <4>2. Tracked(r)'
        BY <1>2, <3>11, <4>1 DEF Tracked
      <4>3. /\ Ahead(p, ToSet(returnTransaction), AtRank(r))
            /\ Ahead(p, OnPins(r), Latency(r)) /\ Ahead(p, OnPins(r), OnBus(r))
            /\ Ahead(p, OnPins(r), QueuedReads(r))
            /\ Ahead(p, Latency(r), OnBus(r)) /\ Ahead(p, Latency(r), QueuedReads(r))
            /\ Ahead(p, OnBus(r), QueuedReads(r))
        BY <4>1 DEF RankInOrder
      <4>4. \A x : x \in Latency(r)' <=> x \in Latency(r) \/ x \in OnBus(r)
        BY <3>8, <3>9, <3>10
      <4>5. /\ Ahead(p, ToSet(returnTransaction), AtRank(r)')
            /\ Ahead(p, OnPins(r), Latency(r)') /\ Ahead(p, Latency(r)', QueuedReads(r))
        BY <3>11, <4>3, <4>4 DEF Ahead
      <4>6. Ahead(p, OnPins(r), {}) /\ Ahead(p, Latency(r)', {}) /\ Ahead(p, {}, QueuedReads(r))
        BY DEF Ahead
      <4>7. \A i, j \in 1 .. Len(readReturn'[r]) :
              i < j => Fifo(p, readReturn'[r][i].trans, readReturn'[r][j].trans)
        <5>1. CASE r # s
          BY <3>4, <4>1, <5>1 DEF RankInOrder
        <5>2. CASE r = s
          <6>1. \A i, j \in 1 .. n : i < j => Fifo(p, q[i].trans, q[j].trans)
            BY <3>6, <4>1, <5>2 DEF RankInOrder
          <6>2. \A i \in 1 .. n : q[i].trans \in Latency(s)
            BY <3>6 DEF Latency
          <6>3. \A i \in 1 .. n : Fifo(p, q[i].trans, c.trans)
            BY <3>1, <3>10, <4>3, <5>2, <6>2 DEF Ahead
          <6>4. ASSUME NEW i \in 1 .. n + 1, NEW j \in 1 .. n + 1, i < j
                PROVE  Fifo(p, q2[i].trans, q2[j].trans)
            <7>1. i \in 1 .. n /\ (j \in 1 .. n \/ j = n + 1)
              BY <6>4
            <7> QED
              BY <3>2, <3>7, <6>1, <6>3, <6>4, <7>1
          <6> QED
            BY <3>7, <5>2, <6>4
        <5> QED
          BY <5>1, <5>2
      <4>8. \A i, j \in 1 .. Len(queues[r]) :
              i < j /\ queues[r][i].type = "DATA_READ" /\ queues[r][j].type = "DATA_READ"
                => Fifo(p, queues[r][i], queues[r][j])
        BY <4>1 DEF RankInOrder
      <4> QED
        BY <1>2, <2>3, <3>9, <4>2, <4>3, <4>5, <4>6, <4>7, <4>8 DEF RankInOrder
    <3>13. \A x : (\E r \in Ranks : x \in AtRank(r)') <=> \E r \in Ranks : x \in AtRank(r)
      BY <3>11
    <3> QED
      BY <1>2, <3>12, <3>13 DEF ReadsInOrder
  <2> QED
    BY <2>4, <2>5
<1> QED
  BY <1>1, <1>3, <1>4, <1>5

(* The i-th command of a queue leaves it.                                  *)
Shortened(q, i, a) ==
  /\ \A x : x \in ToSet(q) <=> x = q[i] \/ x \in ToSet(a)
  /\ \A x \in ToSet(a) : \E j \in 1 .. Len(q) : j # i /\ q[j] = x
  /\ \A j, k \in 1 .. Len(a) : j < k =>
       \E jj, kk \in 1 .. Len(q) : jj < kk /\ a[j] = q[jj] /\ a[k] = q[kk]

(* Removing a command shortens a queue.                                    *)
LEMMA LeavesQueue ==
  ASSUME NEW q \in Seq(Transactions), NEW i \in 1 .. Len(q)
  PROVE  RemoveAt(q, i) \in Seq(Transactions) /\ Shortened(q, i, RemoveAt(q, i))
<1> DEFINE a == RemoveAt(q, i)
<1>1. PICK n \in Nat : n = Len(q)
  BY LenProperties
<1>2. /\ a \in Seq(Transactions) /\ Len(a) = n - 1
      /\ \A j \in 1 .. n - 1 : a[j] = IF j < i THEN q[j] ELSE q[j + 1]
  BY <1>1, RemoveAtProperties
<1>3. i \in 1 .. n
  BY <1>1
<1> HIDE DEF a
<1>4. /\ \A x : x \in ToSet(q) <=> \E j \in 1 .. n : q[j] = x
      /\ \A x : x \in ToSet(a) <=> \E j \in 1 .. n - 1 : a[j] = x
  <2>1. \A x : x \in ToSet(q) <=> \E j \in 1 .. n : q[j] = x
    BY <1>1, ToSetMember
  <2>2. \A x : x \in ToSet(a) <=> \E j \in 1 .. Len(a) : a[j] = x
    BY <1>2, ToSetMember
  <2> QED BY <1>2, <2>1, <2>2
<1> DEFINE old == [j \in 1 .. n - 1 |-> IF j < i THEN j ELSE j + 1]
<1>5. /\ \A j \in 1 .. n - 1 : old[j] \in 1 .. n /\ old[j] # i /\ a[j] = q[old[j]]
      /\ \A j, k \in 1 .. n - 1 : j < k => old[j] < old[k]
      /\ \A k \in 1 .. n : k # i => \E j \in 1 .. n - 1 : old[j] = k
  <2>1. \A j \in 1 .. n - 1 : old[j] = IF j < i THEN j ELSE j + 1
    OBVIOUS
  <2> HIDE DEF old
  <2>2. \A j \in 1 .. n - 1 : old[j] \in 1 .. n /\ old[j] # i /\ a[j] = q[old[j]]
    BY <1>2, <1>3, <2>1
  <2>3. \A j, k \in 1 .. n - 1 : j < k => old[j] < old[k]
    BY <1>3, <2>1
  <2>4. ASSUME NEW k \in 1 .. n, k # i PROVE \E j \in 1 .. n - 1 : old[j] = k
    <3>1. CASE k < i
      <4>1. k \in 1 .. n - 1 /\ old[k] = k
        BY <1>3, <2>1, <3>1
      <4> QED BY <4>1
    <3>2. CASE ~(k < i)
      <4>1. k - 1 \in 1 .. n - 1 /\ old[k - 1] = k
        BY <1>3, <2>1, <2>4, <3>2
      <4> QED BY <4>1
    <3> QED BY <3>1, <3>2
  <2> QED BY <2>2, <2>3, <2>4
<1> HIDE DEF old
<1>6. ASSUME NEW x \in ToSet(a) PROVE \E j \in 1 .. n : j # i /\ q[j] = x
  <2>1. PICK j \in 1 .. n - 1 : a[j] = x
    BY <1>4
  <2> QED
    BY <1>5, <2>1
<1>7. \A x : x \in ToSet(q) <=> x = q[i] \/ x \in ToSet(a)
  <2>1. ASSUME NEW x \in ToSet(q), x # q[i] PROVE x \in ToSet(a)
    <3>1. PICK k \in 1 .. n : q[k] = x
      BY <1>4
    <3>2. k # i
      BY <2>1, <3>1
    <3>3. PICK j \in 1 .. n - 1 : old[j] = k
      BY <1>5, <3>2
    <3> QED
      BY <1>4, <1>5, <3>1, <3>3
  <2>2. \A x \in ToSet(a) : x \in ToSet(q)
    BY <1>4, <1>6
  <2>3. q[i] \in ToSet(q)
    BY <1>3, <1>4
  <2> QED
    BY <2>1, <2>2, <2>3
<1>8. ASSUME NEW j \in 1 .. n - 1, NEW k \in 1 .. n - 1, j < k
      PROVE  \E jj, kk \in 1 .. n : jj < kk /\ a[j] = q[jj] /\ a[k] = q[kk]
  <2>1. old[j] \in 1 .. n /\ old[k] \in 1 .. n /\ old[j] < old[k] /\ a[j] = q[old[j]] /\ a[k] = q[old[k]]
    BY <1>5, <1>8
  <2> QED
    BY <2>1
<1>9. Shortened(q, i, a)
  BY <1>1, <1>2, <1>6, <1>7, <1>8 DEF Shortened
<1> QED
  BY <1>2, <1>9 DEF a

(* A READ leaves its queue for the command bus: no READ of the same burst  *)
(* stands before it, and none is on the bus, since pop() while a command   *)
(* is on the bus is a fault.                                               *)
LEMMA ReadsInOrderColumn ==
  ASSUME ChannelTyped, ReadsInOrder, Command, fault' = "none",
         NEW s \in Ranks, NEW i \in ReadyColumns(s), SendsColumn(s, i)
  PROVE  ReadsInOrder'
<1> DEFINE p == pendingReadTransactions
           q == queues[s]
           q2 == queues'[s]
           t == q[i]
           c == ColumnCommand(t)
<1>1. /\ UNCHANGED << pendingReadTransactions, returnTransaction, rankData, readReturn >>
  BY DEF Command, SendCommand, rankVars
<1>2. q \in Seq(Transactions) /\ queues \in [Ranks -> Seq(Transactions)]
  BY DEF ChannelTyped, QueuesTyped
<1>3. /\ i \in 1 .. Len(q)
      /\ \A j \in 1 .. i - 1 : ~SameBurst(q[j], t)
  BY DEF ReadyColumns
<1>4. t \in Transactions /\ t \in ToSet(q)
  BY <1>2, <1>3, ElementOfSeq, ToSetMember
<1>5. /\ q2 = RemoveAt(q, i)
      /\ \A r \in Ranks : r # s => queues'[r] = queues[r]
      /\ UpdateCommandQueue(c)
  BY <1>2 DEF SendsColumn
<1> HIDE DEF t, q, q2
<1>6. c.type = (IF t.type = "DATA_READ" THEN "READ" ELSE "WRITE") /\ c.trans = t /\ c.rank = t.addr.rank
  BY <1>4, ColumnCommandTyped
<1>7. t.addr.rank = s
  BY <1>4 DEF ReadsInOrder, Tracked, q
<1>8. /\ outgoingCmd = << >>
      /\ outgoingCmd' # << >> /\ outgoingCmd'[1].cmd = c
  BY <1>5 DEF UpdateCommandQueue
<1> HIDE DEF c
<1>9. /\ \A r \in Ranks : OnBus(r) = {}
      /\ \A r \in Ranks : \A x : x \in OnBus(r)' <=> t.type = "DATA_READ" /\ r = s /\ x = t
  BY <1>6, <1>7, <1>8 DEF OnBus, ReadOnBus
<1>16. Shortened(q, i, q2)
  BY <1>2, <1>3, <1>5, LeavesQueue
<1>10. /\ \A x : x \in ToSet(q) <=> x = t \/ x \in ToSet(q2)
       /\ \A x \in ToSet(q2) : \E j \in 1 .. Len(q) : j # i /\ q[j] = x
       /\ \A j, k \in 1 .. Len(q2) : j < k =>
            \E jj, kk \in 1 .. Len(q) : jj < kk /\ q2[j] = q[jj] /\ q2[k] = q[kk]
  BY <1>16 DEF Shortened, t
<1>11. /\ QueuedReads(s) = {x \in ToSet(q) : x.type = "DATA_READ"}
       /\ QueuedReads(s)' = {x \in ToSet(q2) : x.type = "DATA_READ"}
       /\ \A r \in Ranks : r # s => QueuedReads(r)' = QueuedReads(r)
       /\ \A r \in Ranks : OnPins(r)' = OnPins(r) /\ Latency(r)' = Latency(r)
  BY <1>1, <1>5 DEF QueuedReads, OnPins, Latency, q, q2
<1>12. \A r \in Ranks : \A x : x \in QueuedReads(r) <=> x \in OnBus(r)' \/ x \in QueuedReads(r)'
  BY <1>9, <1>10, <1>11
<1>13. \A r \in Ranks : \A x : x \in AtRank(r)' <=> x \in AtRank(r)
  BY <1>9, <1>11, <1>12 DEF AtRank
<1>14. ASSUME NEW r \in Ranks PROVE Tracked(r)' /\ RankInOrder(p, r)'
  <2>1. Tracked(r) /\ RankInOrder(p, r)
    BY DEF ReadsInOrder
  <2>2. \A x \in ToSet(queues'[r]) : x \in ToSet(queues[r])
    BY <1>5, <1>10 DEF q, q2
  <2>3. Tracked(r)'
    BY <1>13, <2>1, <2>2 DEF Tracked
  <2>4. /\ Ahead(p, ToSet(returnTransaction), AtRank(r))
        /\ Ahead(p, OnPins(r), Latency(r)) /\ Ahead(p, OnPins(r), QueuedReads(r))
        /\ Ahead(p, Latency(r), QueuedReads(r))
        /\ \A j, k \in 1 .. Len(readReturn[r]) :
             j < k => Fifo(p, readReturn[r][j].trans, readReturn[r][k].trans)
        /\ \A j, k \in 1 .. Len(queues[r]) :
              j < k /\ queues[r][j].type = "DATA_READ" /\ queues[r][k].type = "DATA_READ"
                => Fifo(p, queues[r][j], queues[r][k])
    BY <2>1 DEF RankInOrder
  <2>5. /\ Ahead(p, ToSet(returnTransaction), AtRank(r)')
        /\ Ahead(p, OnPins(r), OnBus(r)') /\ Ahead(p, OnPins(r), QueuedReads(r)')
        /\ Ahead(p, Latency(r), OnBus(r)') /\ Ahead(p, Latency(r), QueuedReads(r)')
    BY <1>12, <1>13, <2>4 DEF Ahead
  <2>6. Ahead(p, OnBus(r)', QueuedReads(r)')
    <3> SUFFICES ASSUME t.type = "DATA_READ", r = s,
                        NEW y \in ToSet(q2), y.type = "DATA_READ", t.addr = y.addr
                 PROVE  Older(p, t, y)
      BY <1>9, <1>11 DEF Ahead, Fifo
    <3>1. PICK j \in 1 .. Len(q) : j # i /\ q[j] = y
      BY <1>10
    <3>2. Len(q) \in Nat
      BY <1>2, LenProperties
    <3>3. j < i => j \in 1 .. i - 1
      BY <1>3, <3>2
    <3>4. ~(j < i)
      BY <1>3, <3>1, <3>3 DEF SameBurst
    <3>5. i < j
      BY <1>3, <3>1, <3>2, <3>4
    <3>6. Fifo(p, q[i], q[j])
      BY <1>3, <2>4, <3>1, <3>5 DEF q, t
    <3> QED
      BY <3>1, <3>6 DEF Fifo, t
  <2>7. \A j, k \in 1 .. Len(queues'[r]) :
              j < k /\ queues'[r][j].type = "DATA_READ" /\ queues'[r][k].type = "DATA_READ"
                => Fifo(p, queues'[r][j], queues'[r][k])
    <3>1. CASE r # s
      BY <1>5, <2>4, <3>1
    <3>2. CASE r = s
      <4> SUFFICES ASSUME NEW j \in 1 .. Len(q2), NEW k \in 1 .. Len(q2), j < k,
                          q2[j].type = "DATA_READ", q2[k].type = "DATA_READ"
                   PROVE  Fifo(p, q2[j], q2[k])
        BY <3>2 DEF q2
      <4>1. PICK jj \in 1 .. Len(q), kk \in 1 .. Len(q) :
              jj < kk /\ q2[j] = q[jj] /\ q2[k] = q[kk]
        BY <1>10
      <4> QED
        BY <2>4, <3>2, <4>1 DEF q
    <3> QED
      BY <3>1, <3>2
  <2> QED
    BY <1>1, <1>11, <2>3, <2>4, <2>5, <2>6, <2>7 DEF RankInOrder
<1>15. \A x : (\E r \in Ranks : x \in AtRank(r)') <=> \E r \in Ranks : x \in AtRank(r)
  BY <1>13
<1> QED
  BY <1>1, <1>14, <1>15 DEF ReadsInOrder

(* Whatever command is sent keeps the order.                               *)
LEMMA ReadsInOrderCommand ==
  ASSUME ChannelTyped, ReadsInOrder, Command, fault' = "none"
  PROVE  ReadsInOrder'
<1>1. \/ \E r \in Ranks : \E i \in ReadyColumns(r) : SendsColumn(r, i)
      \/ \E c \in Commands : SendsOther(c)
      \/ SendsNone
  BY CommandSteps
<1>2. /\ UNCHANGED << pendingReadTransactions, returnTransaction, rankData, readReturn >>
  BY DEF Command, SendCommand, rankVars
<1>3. ASSUME NEW c \in Commands, SendsOther(c) PROVE ReadsInOrder'
  <2>1. /\ outgoingCmd = << >> /\ queues' = queues
        /\ outgoingCmd'[1].cmd = c /\ c.type # "READ"
    BY <1>3 DEF SendsOther, UpdateCommandQueue
  <2>2. \A r \in Ranks : OnBus(r)' = OnBus(r)
    BY <2>1 DEF OnBus, ReadOnBus
  <2> QED
    BY <1>2, <2>1, <2>2, ReadsInOrderIdle
<1>4. CASE SendsNone
  <2>1. \A r \in Ranks : OnBus(r)' = OnBus(r)
    BY <1>4 DEF SendsNone, OnBus, ReadOnBus
  <2> QED
    BY <1>2, <1>4, <2>1, ReadsInOrderIdle DEF SendsNone
<1> QED
  BY <1>1, <1>3, <1>4, ReadsInOrderColumn

-----------------------------------------------------------------------------
(* Ids, and where a transaction is before it is returned.                  *)

(* The transactions of a line.                                             *)
OnWay(q) == {q[i].trans : i \in 1 .. Len(q)}

(* The transaction on the bus.                                             *)
OnWires(out) == IF out # << >> THEN {out[1].trans} ELSE {}

(* A line holds every transaction once.                                    *)
LineDistinct(q, out) ==
  /\ \A i, j \in 1 .. Len(q) : q[i].trans = q[j].trans => i = j
  /\ \A x \in OnWay(q) : x \notin OnWires(out)

(* A cycle moves a line without doubling or losing a transaction; it loses *)
(* the one whose burst ends.                                               *)
LEMMA LineSteps ==
  ASSUME NEW q, NEW out, IsLine(q, out), NEW q2, NEW out2,
         q2 = NextLatencies(q), out2 = NextBurst(q, out)
  PROVE  /\ \A x : x \in OnWay(q2) \/ x \in OnWires(out2) => x \in OnWay(q) \/ x \in OnWires(out)
         /\ (Starts(q) /\ out # << >> => Ends(out))
              => \A x : x \in OnWay(q) \/ x \in OnWires(out) =>
                   x \in OnWay(q2) \/ x \in OnWires(out2) \/ (Ends(out) /\ x = out[1].trans)
         /\ LineDistinct(q, out) =>
              /\ LineDistinct(q2, out2)
              /\ Ends(out) => out[1].trans \notin OnWay(q2) /\ out[1].trans \notin OnWires(out2)
<1>1. IsLine(q2, out2) /\ (MovesUp(q, out, q2, out2) \/ StaysPut(q, out, q2, out2))
  BY LineMoves
<1>2. PICK n \in Nat : n = Len(q)
  BY LenProperties DEF IsLine
<1>3. /\ \A x : x \in OnWay(q) <=> \E i \in 1 .. n : x = q[i].trans
      /\ \A x : x \in OnWires(out) <=> out # << >> /\ x = out[1].trans
      /\ \A x : x \in OnWires(out2) <=> out2 # << >> /\ x = out2[1].trans
      /\ Ends(out) => out # << >>
  BY <1>2 DEF OnWay, OnWires, Ends
<1>4. CASE MovesUp(q, out, q2, out2)
  <2>1. /\ n >= 1 /\ Len(q2) = n - 1 /\ out2 # << >> /\ out2[1].trans = q[1].trans /\ Starts(q)
        /\ \A i \in 1 .. n - 1 : i + 1 \in 1 .. n /\ q2[i].trans = q[i + 1].trans
    BY <1>2, <1>4 DEF MovesUp
  <2>2. /\ 1 \in 1 .. n
        /\ \A i \in 1 .. n : i # 1 => i - 1 \in 1 .. n - 1 /\ (i - 1) + 1 = i
        /\ \A i \in 1 .. n - 1 : 1 # i + 1
        /\ \A i, j \in 1 .. n - 1 : i + 1 = j + 1 => i = j
    BY <2>1
  <2>3. \A x : x \in OnWay(q2) <=> \E i \in 1 .. n - 1 : x = q2[i].trans
    BY <2>1 DEF OnWay
  <2>4. \A x : x \in OnWay(q2) => x \in OnWay(q)
    BY <1>3, <2>1, <2>3
  <2>5. q[1].trans \in OnWay(q)
    BY <1>3, <2>2
  <2>6. ASSUME NEW x \in OnWay(q), x # q[1].trans PROVE x \in OnWay(q2)
    <3>1. PICK i \in 1 .. n : x = q[i].trans
      BY <1>3
    <3>2. i # 1
      BY <2>6, <3>1
    <3>3. x = q2[i - 1].trans /\ i - 1 \in 1 .. n - 1
      BY <2>1, <2>2, <3>1, <3>2
    <3> QED
      BY <2>3, <3>3
  <2>7. ASSUME LineDistinct(q, out)
        PROVE  /\ LineDistinct(q2, out2)
               /\ Ends(out) => out[1].trans \notin OnWay(q2) /\ out[1].trans \notin OnWires(out2)
    <3>1. \A i, j \in 1 .. n : q[i].trans = q[j].trans => i = j
      BY <1>2, <2>7 DEF LineDistinct
    <3>2. \A i, j \in 1 .. n - 1 : q2[i].trans = q2[j].trans => i = j
      BY <2>1, <2>2, <3>1
    <3>3. \A i \in 1 .. n - 1 : q2[i].trans # q[1].trans
      BY <2>1, <2>2, <3>1
    <3>4. \A x \in OnWay(q2) : x \notin OnWires(out2)
      BY <1>3, <2>1, <2>3, <3>3
    <3>5. LineDistinct(q2, out2)
      BY <2>1, <3>2, <3>4 DEF LineDistinct
    <3>6. Ends(out) => out[1].trans \notin OnWay(q)
      BY <1>3, <2>7 DEF LineDistinct
    <3> QED
      BY <1>3, <2>1, <2>4, <2>5, <3>5, <3>6
  <2> QED
    BY <1>3, <2>1, <2>4, <2>5, <2>6, <2>7
<1>5. CASE StaysPut(q, out, q2, out2)
  <2>1. /\ Len(q2) = n
        /\ \A i \in 1 .. n : q2[i].trans = q[i].trans
        /\ out = << >> => out2 = << >>
        /\ Ends(out) => out2 = << >>
        /\ (out # << >> /\ ~Ends(out)) => (out2 # << >> /\ out2[1].trans = out[1].trans)
    BY <1>2, <1>5 DEF StaysPut
  <2>2. \A x : x \in OnWay(q2) <=> \E i \in 1 .. n : x = q2[i].trans
    BY <2>1 DEF OnWay
  <2>3. \A x : x \in OnWay(q2) <=> x \in OnWay(q)
    BY <1>3, <2>1, <2>2
  <2>4. ASSUME LineDistinct(q, out)
        PROVE  /\ LineDistinct(q2, out2)
               /\ Ends(out) => out[1].trans \notin OnWay(q2) /\ out[1].trans \notin OnWires(out2)
    <3>1. \A i, j \in 1 .. n : q[i].trans = q[j].trans => i = j
      BY <1>2, <2>4 DEF LineDistinct
    <3>2. \A x \in OnWay(q) : x \notin OnWires(out)
      BY <2>4 DEF LineDistinct
    <3>3. \A i, j \in 1 .. n : q2[i].trans = q2[j].trans => i = j
      BY <2>1, <3>1
    <3>4. \A x \in OnWay(q2) : x \notin OnWires(out2)
      BY <1>3, <2>1, <2>3, <3>2
    <3> QED
      BY <1>3, <2>1, <2>3, <3>2, <3>3, <3>4 DEF LineDistinct
  <2> QED
    BY <1>3, <2>1, <2>3, <2>4
<1> QED
  BY <1>1, <1>4, <1>5

-----------------------------------------------------------------------------
(* The writes whose command was sent and whose data was not.               *)
WritesOut == OnWay(writeData) \cup OnWires(outgoingData)

(* Not yet a command.                                                      *)
NotDispatched == ToSet(pendingTransactions) \cup ToSet(transactionQueue)

(* A command, and not yet done with.                                       *)
Dispatched == InQueues \cup ToSet(pendingReadTransactions) \cup WritesOut

(* Ids are given out once, and what waits in front of the command queues   *)
(* has not been dispatched before.                                         *)
FrontDistinct ==
  /\ DistinctIds(pendingTransactions) /\ DistinctIds(transactionQueue)
  /\ \A x \in ToSet(pendingTransactions), y \in ToSet(transactionQueue) : x.id # y.id
  /\ \A x \in NotDispatched : x.id < nextId
  /\ \A y \in Dispatched : y.id < nextId
  /\ \A x \in NotDispatched, y \in Dispatched : x.id # y.id

(* Transactions that finish change nothing.                                *)
LEMMA FrontDistinctKept ==
  ASSUME FrontDistinct, UNCHANGED << pendingTransactions, transactionQueue, nextId >>,
         \A x : x \in Dispatched' => x \in Dispatched
  PROVE  FrontDistinct'
  BY DEF FrontDistinct, NotDispatched

(* What has been dispatched are transactions.                              *)
LEMMA DispatchedTyped ==
  ASSUME ChannelTyped
  PROVE  Dispatched \subseteq Transactions
<1>1. /\ writeData \in Seq(Latencies) /\ outgoingData \in Seq(BusBursts)
      /\ queues \in [Ranks -> Seq(Transactions)] /\ pendingReadTransactions \in Seq(Transactions)
  BY DEF ChannelTyped, QueuesTyped, BusesTyped, IsLine
<1>2. OnWay(writeData) \subseteq Transactions
  <2>1. \A i \in 1 .. Len(writeData) : writeData[i] \in Latencies
    BY <1>1, ElementOfSeq
  <2> QED
    BY <2>1 DEF OnWay, Latencies
<1>3. OnWires(outgoingData) \subseteq Transactions
  <2>1. outgoingData # << >> => outgoingData[1] \in BusBursts
    BY <1>1, ShortFront
  <2> QED
    BY <2>1 DEF OnWires, BusBursts
<1>4. ToSet(pendingReadTransactions) \subseteq Transactions
  BY <1>1, ToSetMember
<1>5. InQueues \subseteq Transactions
  <2>1. \A r \in Ranks : ToSet(queues[r]) \subseteq Transactions
    BY <1>1, ToSetMember
  <2> QED
    BY <2>1 DEF InQueues
<1> QED
  BY <1>2, <1>3, <1>4, <1>5 DEF Dispatched, WritesOut

(* Taking the head of a queue.                                             *)
LEMMA TailIds ==
  ASSUME NEW q \in Seq(Transactions), q # << >>, DistinctIds(q)
  PROVE  /\ DistinctIds(Tail(q))
         /\ \A x \in ToSet(Tail(q)) : x \in ToSet(q) /\ x.id # Head(q).id
         /\ Head(q) \in ToSet(q)
<1> DEFINE a == Tail(q)
<1>1. PICK n \in Nat : n = Len(q)
  BY LenProperties
<1>2. /\ Head(q) = q[1] /\ n >= 1 /\ a \in Seq(Transactions) /\ Len(a) = n - 1
      /\ \A i \in 1 .. n - 1 : a[i] = q[i + 1] /\ i + 1 \in 1 .. n /\ i + 1 # 1
      /\ \A x : x \in ToSet(q) <=> x = q[1] \/ x \in ToSet(a)
  <2>1. /\ Len(q) \in Nat \ {0} /\ Head(q) = q[1] /\ a \in Seq(Transactions)
        /\ Len(a) = Len(q) - 1 /\ \A i \in 1 .. Len(q) - 1 : a[i] = q[i + 1]
        /\ \A x : x \in ToSet(q) <=> x = q[1] \/ x \in ToSet(a)
    BY TailMember
  <2> QED
    BY <1>1, <2>1
<1> HIDE DEF a
<1>3. \A i, j \in 1 .. n : q[i].id = q[j].id => i = j
  BY <1>1 DEF DistinctIds
<1>4. DistinctIds(a)
  <2> SUFFICES ASSUME NEW i \in 1 .. n - 1, NEW j \in 1 .. n - 1, a[i].id = a[j].id
               PROVE  i = j
    BY <1>2 DEF DistinctIds
  <2>1. /\ a[i] = q[i + 1] /\ i + 1 \in 1 .. n
        /\ a[j] = q[j + 1] /\ j + 1 \in 1 .. n
    BY <1>2
  <2>2. i + 1 = j + 1
    BY <1>3, <2>1
  <2> QED
    BY <2>2
<1>5. ASSUME NEW x \in ToSet(a) PROVE x.id # q[1].id
  <2>1. PICK i \in 1 .. n - 1 : a[i] = x
    <3>1. \A z : z \in ToSet(a) <=> \E i \in 1 .. Len(a) : a[i] = z
      BY <1>2, ToSetMember
    <3> QED BY <1>2, <1>5, <3>1
  <2>2. 1 \in 1 .. n
    BY <1>2
  <2> QED
    BY <1>2, <1>3, <2>1, <2>2
<1> QED
  BY <1>2, <1>4, <1>5 DEF a

(* A barrier changes no id.                                                *)
LEMMA TagIds ==
  ASSUME NEW q \in Seq(Transactions), q # << >>
  PROVE  /\ DistinctIds(q) => DistinctIds(TagLast(q))
         /\ \A x \in ToSet(TagLast(q)) : \E y \in ToSet(q) : x.id = y.id
<1> DEFINE a == TagLast(q)
<1>1. /\ a \in Seq(Transactions) /\ Len(a) = Len(q)
      /\ \A i \in 1 .. Len(q) : a[i].id = q[i].id
  BY TagLastMember
<1> HIDE DEF a
<1>2. DistinctIds(q) => DistinctIds(a)
  BY <1>1 DEF DistinctIds
<1>3. ASSUME NEW x \in ToSet(a) PROVE \E y \in ToSet(q) : x.id = y.id
  <2>1. PICK i \in 1 .. Len(q) : a[i] = x
    BY <1>1, ToSetMember
  <2>2. q[i] \in ToSet(q)
    BY ToSetMember
  <2> QED
    BY <1>1, <2>1, <2>2
<1> QED
  BY <1>2, <1>3 DEF a

(* A new transaction gets a new id.                                        *)
LEMMA FrontDistinctClient ==
  ASSUME ChannelTyped, FrontDistinct, ClientStep
  PROVE  FrontDistinct'
<1> DEFINE F == pendingTransactions
           T == transactionQueue
<1>1. F \in Seq(Transactions) /\ T \in Seq(Transactions) /\ nextId \in 1 .. MaxTransactions + 1
  BY DEF ChannelTyped, QueuesTyped
<1>2. /\ DistinctIds(F) /\ DistinctIds(T)
      /\ \A x \in ToSet(F), y \in ToSet(T) : x.id # y.id
      /\ \A x \in ToSet(F) : x.id < nextId
      /\ \A x \in ToSet(T) : x.id < nextId
      /\ \A y \in Dispatched : y.id < nextId
      /\ \A x \in ToSet(F), y \in Dispatched : x.id # y.id
      /\ \A x \in ToSet(T), y \in Dispatched : x.id # y.id
  BY DEF FrontDistinct, NotDispatched
<1>3. ChannelUnchanged => Dispatched' = Dispatched
  BY DEF ChannelUnchanged, Dispatched, WritesOut, InQueues, commandQueueVars
<1>4. ASSUME NEW type \in {"DATA_READ", "DATA_WRITE"}, NEW addr \in Addresses,
             AddTransaction(type, addr)
      PROVE  FrontDistinct'
  <2> DEFINE t == [id |-> nextId, type |-> type, addr |-> addr, bar |-> FALSE]
  <2>1. /\ nextId \in Nat /\ nextId' = nextId + 1 /\ nextId <= MaxTransactions /\ Dispatched' = Dispatched
        /\ \/ T' = Append(T, t) /\ F' = F
           \/ F' = Append(F, t) /\ T' = T
    BY <1>1, <1>3, <1>4 DEF AddTransaction
  <2>2. t \in Transactions /\ t.id = nextId
    BY <1>1, <2>1, SystemAssumption DEF Transactions
  <2> HIDE DEF t
  <2>3. /\ \A x \in ToSet(F) : x.id # t.id /\ x.id < nextId + 1
        /\ \A x \in ToSet(T) : x.id # t.id /\ x.id < nextId + 1
        /\ \A x \in Dispatched : x.id # t.id /\ x.id < nextId + 1
        /\ t.id < nextId + 1
    <3>4. ToSet(F) \subseteq Transactions /\ ToSet(T) \subseteq Transactions
      BY <1>1, ToSetMember
    <3>1. \A x \in ToSet(F) : x.id \in Nat
      BY <3>4 DEF Transactions
    <3>2. \A x \in ToSet(T) : x.id \in Nat
      BY <3>4 DEF Transactions
    <3>3. \A x \in Dispatched : x.id \in Nat
      BY DispatchedTyped DEF Transactions
    <3> QED
      BY <1>2, <2>1, <2>2, <3>1, <3>2, <3>3
  <2>4. CASE T' = Append(T, t) /\ F' = F
    <3>1. /\ \A x : x \in ToSet(T') <=> x \in ToSet(T) \/ x = t
          /\ DistinctIds(T')
      BY <1>1, <1>2, <2>2, <2>3, <2>4, AppendMember, OlderAppended
    <3> QED
      BY <1>2, <2>1, <2>3, <2>4, <3>1 DEF FrontDistinct, NotDispatched
  <2>5. CASE F' = Append(F, t) /\ T' = T
    <3>1. /\ \A x : x \in ToSet(F') <=> x \in ToSet(F) \/ x = t
          /\ DistinctIds(F')
      BY <1>1, <1>2, <2>2, <2>3, <2>5, AppendMember, OlderAppended
    <3> QED
      BY <1>2, <2>1, <2>3, <2>5, <3>1 DEF FrontDistinct, NotDispatched
  <2> QED
    BY <2>1, <2>4, <2>5
<1>5. CASE AddBarrier
  <2>1. /\ nextId' = nextId /\ Dispatched' = Dispatched
        /\ \/ T # << >> /\ T' = TagLast(T) /\ F' = F
           \/ F # << >> /\ F' = TagLast(F) /\ T' = T
    BY <1>3, <1>5 DEF AddBarrier
  <2>2. CASE T # << >> /\ T' = TagLast(T) /\ F' = F
    <3>1. /\ DistinctIds(T')
          /\ \A x \in ToSet(T') : \E y \in ToSet(T) : x.id = y.id
      BY <1>1, <1>2, <2>2, TagIds
    <3> QED
      BY <1>2, <2>1, <2>2, <3>1 DEF FrontDistinct, NotDispatched
  <2>3. CASE F # << >> /\ F' = TagLast(F) /\ T' = T
    <3>1. /\ DistinctIds(F')
          /\ \A x \in ToSet(F') : \E y \in ToSet(F) : x.id = y.id
      BY <1>1, <1>2, <2>3, TagIds
    <3> QED
      BY <1>2, <2>1, <2>3, <3>1 DEF FrontDistinct, NotDispatched
  <2> QED
    BY <2>1, <2>2, <2>3
<1>6. CASE RunReturns
  BY <1>3, <1>6, FrontDistinctKept DEF RunReturns
<1> QED
  BY <1>4, <1>5, <1>6 DEF ClientStep

(* The overflow moves into the transaction queue.                          *)
LEMMA FrontDistinctPending ==
  ASSUME ChannelTyped, FrontDistinct, AcceptPending
  PROVE  FrontDistinct'
<1> DEFINE F == pendingTransactions
           T == transactionQueue
<1>1. F \in Seq(Transactions) /\ T \in Seq(Transactions)
  BY DEF ChannelTyped, QueuesTyped
<1>2. /\ DistinctIds(F) /\ DistinctIds(T)
      /\ \A x \in ToSet(F), y \in ToSet(T) : x.id # y.id
      /\ \A x \in ToSet(F) : x.id < nextId
      /\ \A x \in ToSet(T) : x.id < nextId
      /\ \A y \in Dispatched : y.id < nextId
      /\ \A x \in ToSet(F), y \in Dispatched : x.id # y.id
      /\ \A x \in ToSet(T), y \in Dispatched : x.id # y.id
  BY DEF FrontDistinct, NotDispatched
<1>3. Dispatched' = Dispatched /\ nextId' = nextId
  BY DEF AcceptPending, clientVars, ChannelUnchanged, Dispatched, WritesOut, InQueues, commandQueueVars
<1>4. CASE F # << >> /\ WillAcceptTransaction
  <2> DEFINE t == Head(F)
  <2>1. T' = Append(T, t) /\ F' = Tail(F)
    BY <1>4 DEF AcceptPending
  <2>2. /\ DistinctIds(F')
        /\ \A x \in ToSet(F') : x \in ToSet(F) /\ x.id # t.id
        /\ t \in ToSet(F) /\ t \in Transactions
    BY <1>1, <1>2, <1>4, <2>1, TailIds, TailMember
  <2> HIDE DEF t
  <2>3. /\ \A x : x \in ToSet(T') <=> x \in ToSet(T) \/ x = t
        /\ DistinctIds(T')
    BY <1>1, <1>2, <2>1, <2>2, AppendMember, OlderAppended
  <2> QED
    BY <1>2, <1>3, <2>2, <2>3 DEF FrontDistinct, NotDispatched
<1>5. CASE ~(F # << >> /\ WillAcceptTransaction)
  BY <1>3, <1>5, FrontDistinctKept DEF AcceptPending
<1> QED
  BY <1>4, <1>5

(* Write data moves on.                                                    *)
LEMMA FrontDistinctBus ==
  ASSUME ChannelTyped, FrontDistinct, Bus
  PROVE  FrontDistinct'
<1>1. /\ writeData' = NextLatencies(writeData)
      /\ outgoingData' = NextBurst(writeData, outgoingData)
  BY BusSteps DEF ChannelTyped
<1>2. \A x : x \in WritesOut' => x \in WritesOut
  BY <1>1, LineSteps DEF WritesOut, ChannelTyped, BusesTyped
<1>3. UNCHANGED << pendingTransactions, transactionQueue, nextId, pendingReadTransactions, queues >>
  BY DEF Bus, DriveBuses, commandQueueVars, clientVars
<1>4. \A x : x \in Dispatched' => x \in Dispatched
  BY <1>2, <1>3 DEF Dispatched, InQueues
<1> QED
  BY <1>3, <1>4, FrontDistinctKept

(* A WRITE joins the line of the write data.                               *)
LEMMA WriteJoins ==
  ASSUME ChannelTyped, NEW t \in Transactions, UpdateCommandQueue(ColumnCommand(t)),
         outgoingData' = outgoingData
  PROVE  \A x : x \in WritesOut' <=> x \in WritesOut \/ (t.type # "DATA_READ" /\ x = t)
<1> DEFINE c == ColumnCommand(t)
           e == [trans |-> t, countdown |-> WL]
           q == writeData
<1>1. c.type = (IF t.type = "DATA_READ" THEN "READ" ELSE "WRITE") /\ c.trans = t
  BY ColumnCommandTyped
<1>2. writeData' = IF c.type = "WRITE" THEN Append(q, [trans |-> c.trans, countdown |-> WL]) ELSE q
  BY DEF UpdateCommandQueue
<1> HIDE DEF c
<1>3. CASE t.type = "DATA_READ"
  BY <1>1, <1>2, <1>3 DEF WritesOut
<1>4. CASE t.type # "DATA_READ"
  <2>1. writeData' = Append(q, e)
    BY <1>1, <1>2, <1>4
  <2>2. e \in Latencies /\ e.trans = t
    BY TimingAssumption DEF Latencies
  <2>3. q \in Seq(Latencies)
    BY DEF ChannelTyped, BusesTyped, IsLine
  <2>4. PICK n \in Nat : n = Len(q)
    BY <2>3, LenProperties
  <2> HIDE DEF e
  <2>5. /\ Len(writeData') = n + 1 /\ writeData'[n + 1] = e /\ \A i \in 1 .. n : writeData'[i] = q[i]
        /\ n + 1 \in 1 .. n + 1 /\ \A i \in 1 .. n : i \in 1 .. n + 1
        /\ \A i \in 1 .. n + 1 : i \in 1 .. n \/ i = n + 1
    BY <2>1, <2>2, <2>3, <2>4, AppendMember
  <2>6. /\ \A x : x \in OnWay(q) <=> \E i \in 1 .. n : x = q[i].trans
        /\ \A x : x \in OnWay(writeData)' <=> \E i \in 1 .. n + 1 : x = writeData'[i].trans
    BY <2>4, <2>5 DEF OnWay
  <2>7. \A x : x \in OnWay(q) => x \in OnWay(writeData)'
    BY <2>5, <2>6
  <2>8. t \in OnWay(writeData)'
    BY <2>2, <2>5, <2>6
  <2>9. \A x : x \in OnWay(writeData)' => x \in OnWay(q) \/ x = t
    BY <2>2, <2>5, <2>6
  <2> QED
    BY <1>4, <2>7, <2>8, <2>9 DEF WritesOut
<1> QED
  BY <1>3, <1>4

(* A command leaves its queue.                                             *)
LEMMA FrontDistinctCommand ==
  ASSUME ChannelTyped, FrontDistinct, Command
  PROVE  FrontDistinct'
<1>1. \/ \E r \in Ranks : \E i \in ReadyColumns(r) : SendsColumn(r, i)
      \/ \E c \in Commands : SendsOther(c)
      \/ SendsNone
  BY CommandSteps
<1>2. UNCHANGED << pendingTransactions, transactionQueue, nextId, pendingReadTransactions, outgoingData >>
  BY DEF Command, SendCommand, clientVars
<1>3. ASSUME queues' = queues, writeData' = writeData PROVE FrontDistinct'
  BY <1>2, <1>3, FrontDistinctKept DEF Dispatched, InQueues, WritesOut
<1>4. ASSUME NEW c \in Commands, SendsOther(c) PROVE FrontDistinct'
  BY <1>3, <1>4 DEF SendsOther, UpdateCommandQueue
<1>5. CASE SendsNone
  BY <1>3, <1>5 DEF SendsNone
<1>6. ASSUME NEW s \in Ranks, NEW i \in ReadyColumns(s), SendsColumn(s, i) PROVE FrontDistinct'
  <2> DEFINE t == queues[s][i]
  <2>1. queues \in [Ranks -> Seq(Transactions)] /\ i \in 1 .. Len(queues[s])
    BY DEF ChannelTyped, QueuesTyped, ReadyColumns
  <2>2. t \in Transactions /\ t \in ToSet(queues[s])
    BY <2>1, ElementOfSeq, ToSetMember
  <2>3. \A r \in Ranks : \A x : x \in ToSet(queues'[r]) => x \in ToSet(queues[r])
    <3>1. Shortened(queues[s], i, RemoveAt(queues[s], i))
      BY <2>1, LeavesQueue
    <3>2. \A x \in ToSet(RemoveAt(queues[s], i)) : x \in ToSet(queues[s])
      BY <3>1 DEF Shortened
    <3>3. \A r \in Ranks : queues'[r] = IF r = s THEN RemoveAt(queues[s], i) ELSE queues[r]
      BY <1>6, <2>1 DEF SendsColumn
    <3> QED
      BY <3>2, <3>3
  <2>4. \A x : x \in WritesOut' => x \in WritesOut \/ x = t
    BY <1>2, <1>6, <2>2, WriteJoins DEF SendsColumn
  <2>5. \A x : x \in Dispatched' => x \in Dispatched
    BY <1>2, <2>2, <2>3, <2>4 DEF Dispatched, InQueues
  <2> QED
    BY <1>2, <2>5, FrontDistinctKept
<1> QED
  BY <1>1, <1>4, <1>5, <1>6

(* What Dispatch does to the transaction it takes.                         *)
Dispatches(t) ==
  /\ t \in Transactions /\ t.addr.rank \in Ranks
  /\ t \in ToSet(transactionQueue)
  /\ \A x : x \in ToSet(transactionQueue') <=> x \in ToSet(transactionQueue) /\ x # t
  /\ DistinctIds(transactionQueue) => DistinctIds(transactionQueue')
  /\ \A x \in ToSet(transactionQueue') : x.id # t.id
  /\ queues' = [queues EXCEPT ![t.addr.rank] = Append(queues[t.addr.rank], t)]
  /\ pendingReadTransactions' =
       IF t.type = "DATA_READ" THEN Append(pendingReadTransactions, t)
                               ELSE pendingReadTransactions

(* Dispatch takes no transaction or exactly one.                           *)
LEMMA DispatchSteps ==
  ASSUME ChannelTyped, FrontDistinct, Dispatch
  PROVE  /\ UNCHANGED << returnTransaction, outgoingData, outgoingCmd, writeData, readReturn,
                         rankData, nextId, pendingTransactions >>
         /\ \/ UNCHANGED << transactionQueue, queues, pendingReadTransactions >>
            \/ \E t \in Transactions : Dispatches(t)
<1>1. UNCHANGED << returnTransaction, outgoingData, outgoingCmd, writeData, readReturn,
                   rankData, nextId, pendingTransactions >>
  BY DEF Dispatch, UpdateTransactionQueue, rankVars, clientVars
<1>2. CASE Dispatchable = {}
  BY <1>1, <1>2 DEF Dispatch, UpdateTransactionQueue
<1>3. CASE Dispatchable # {}
  <2> DEFINE T == transactionQueue
             i == Min(Dispatchable)
             t == T[i]
  <2>1. i \in 1 .. Len(T)
    <3>1. Dispatchable \in SUBSET Nat /\ Dispatchable \subseteq 1 .. Len(T)
      BY DEF Dispatchable
    <3> QED
      BY <1>3, <3>1, MinMember
  <2> HIDE DEF i
  <2>2. T \in Seq(Transactions) /\ DistinctIds(T)
    BY DEF ChannelTyped, QueuesTyped, FrontDistinct
  <2>3. t \in Transactions /\ t \in ToSet(T) /\ t.addr.rank \in Ranks
    BY <2>1, <2>2, ElementOfSeq, ToSetMember, TransactionParts
  <2>4. /\ T' = RemoveAt(T, i)
        /\ queues' = [queues EXCEPT ![t.addr.rank] = Append(queues[t.addr.rank], t)]
        /\ pendingReadTransactions' =
             IF t.type = "DATA_READ" THEN Append(pendingReadTransactions, t)
                                     ELSE pendingReadTransactions
    BY <1>3 DEF Dispatch, UpdateTransactionQueue, Enqueue, i
  <2>5. /\ DistinctIds(T') /\ \A x : x \in ToSet(T') <=> x \in ToSet(T) /\ x # t
    BY <2>1, <2>2, <2>4, OlderRemoved
  <2>6. \A x \in ToSet(T) : x.id = t.id => x = t
    <3>1. \A j \in 1 .. Len(T) : T[j].id = T[i].id => j = i
      BY <2>1, <2>2 DEF DistinctIds
    <3> QED
      BY <2>2, <3>1, ToSetMember
  <2> HIDE DEF t
  <2>7. \A x \in ToSet(T') : x.id # t.id
    BY <2>5, <2>6
  <2>8. Dispatches(t)
    BY <2>3, <2>4, <2>5, <2>7 DEF Dispatches
  <2> QED
    BY <1>1, <2>3, <2>8
<1> QED
  BY <1>2, <1>3

(* A transaction that is dispatched leaves the transaction queue.          *)
LEMMA FrontDistinctDispatch ==
  ASSUME ChannelTyped, FrontDistinct, Dispatch
  PROVE  FrontDistinct'
<1>1. UNCHANGED << returnTransaction, outgoingData, outgoingCmd, writeData, readReturn,
                   rankData, nextId, pendingTransactions >>
  BY DispatchSteps
<1>2. CASE UNCHANGED << transactionQueue, queues, pendingReadTransactions >>
  BY <1>1, <1>2, FrontDistinctKept DEF Dispatched, InQueues, WritesOut
<1>3. ASSUME NEW t \in Transactions, Dispatches(t) PROVE FrontDistinct'
  <2> DEFINE r == t.addr.rank
  <2>1. /\ queues \in [Ranks -> Seq(Transactions)] /\ pendingReadTransactions \in Seq(Transactions)
    BY DEF ChannelTyped, QueuesTyped
  <2>2. \A s \in Ranks : \A x \in ToSet(queues'[s]) : x \in ToSet(queues[s]) \/ x = t
    <3>1. /\ r \in Ranks /\ queues' = [queues EXCEPT ![r] = Append(queues[r], t)]
      BY <1>3 DEF Dispatches
    <3> HIDE DEF r
    <3>2. \A x : x \in ToSet(Append(queues[r], t)) <=> x \in ToSet(queues[r]) \/ x = t
      BY <2>1, <3>1, AppendMember
    <3>3. \A s \in Ranks : queues'[s] = IF s = r THEN Append(queues[r], t) ELSE queues[s]
      BY <2>1, <3>1
    <3> QED
      BY <3>2, <3>3
  <2>3. \A x \in ToSet(pendingReadTransactions') : x \in ToSet(pendingReadTransactions) \/ x = t
    BY <1>3, <2>1, AppendMember DEF Dispatches
  <2>4. \A x \in Dispatched' : x \in Dispatched \/ x = t
    BY <1>1, <2>2, <2>3 DEF Dispatched, InQueues, WritesOut
  <2>5. /\ t \in ToSet(transactionQueue)
        /\ \A x : x \in ToSet(transactionQueue') <=> x \in ToSet(transactionQueue) /\ x # t
        /\ DistinctIds(transactionQueue) => DistinctIds(transactionQueue')
        /\ \A x \in ToSet(transactionQueue') : x.id # t.id
    BY <1>3 DEF Dispatches
  <2>6. \A x \in ToSet(pendingTransactions) : x.id # t.id
    BY <2>5 DEF FrontDistinct
  <2>7. \A x \in NotDispatched' : x \in NotDispatched /\ x.id # t.id
    BY <1>1, <2>5, <2>6 DEF NotDispatched
  <2>8. t.id < nextId
    BY <2>5 DEF FrontDistinct, NotDispatched
  <2> QED
    BY <1>1, <2>4, <2>5, <2>7, <2>8 DEF FrontDistinct
<1> QED
  BY <1>2, <1>3, DispatchSteps

(* ReturnReadData takes the oldest pending read of the address.            *)
Returns(i) ==
  /\ returnTransaction # << >>
  /\ i \in 1 .. Len(pendingReadTransactions)
  /\ pendingReadTransactions[i].addr = returnTransaction[1].addr
  /\ \A j \in 1 .. Len(pendingReadTransactions) :
       pendingReadTransactions[j].addr = returnTransaction[1].addr => i <= j
  /\ pendingReadTransactions' = RemoveAt(pendingReadTransactions, i)
  /\ returnTransaction' = Tail(returnTransaction)

(* The end of update() returns the oldest pending read of the address that *)
(* came back, or nothing.                                                  *)
LEMMA EndSteps ==
  ASSUME EndUpdate
  PROVE  /\ UNCHANGED << pendingTransactions, transactionQueue, nextId, queues, outgoingCmd,
                         outgoingData, writeData, readReturn, rankData >>
         /\ \/ (\E i \in 1 .. Len(pendingReadTransactions) : Returns(i)) /\ fault' = fault
            \/ UNCHANGED << pendingReadTransactions, returnTransaction >>
                 /\ (fault' = fault \/ (returnTransaction # << >> /\ Matches = {}))
<1>1. UNCHANGED << pendingTransactions, transactionQueue, nextId, queues, outgoingCmd,
                   outgoingData, writeData, readReturn, rankData >>
  BY DEF EndUpdate, TickController, TickRanks, clientVars, commandQueueVars
<1>2. CASE ReturnReadData
  <2> DEFINE i == Min(Matches)
  <2>1. Matches \in SUBSET Nat /\ Matches # {} /\ Matches \subseteq 1 .. Len(pendingReadTransactions)
    BY <1>2 DEF Matches, ReturnReadData
  <2>2. i \in Matches /\ \A j \in Matches : i <= j
    BY <2>1, MinMember
  <2> HIDE DEF i
  <2>3. Returns(i)
    BY <1>2, <2>1, <2>2 DEF Returns, ReturnReadData, Matches, i
  <2> QED
    BY <1>1, <1>2, <2>1, <2>2, <2>3 DEF ReturnReadData
<1>3. CASE ReturnNothing
  BY <1>1, <1>3 DEF ReturnNothing
<1>4. CASE ReturnUnmatched
  BY <1>1, <1>4 DEF ReturnUnmatched
<1> QED
  BY <1>2, <1>3, <1>4 DEF EndUpdate

(* A read is returned.                                                     *)
LEMMA FrontDistinctEnd ==
  ASSUME ChannelTyped, FrontDistinct, EndUpdate
  PROVE  FrontDistinct'
<1>1. pendingReadTransactions \in Seq(Transactions)
  BY DEF ChannelTyped, QueuesTyped
<1>2. \A x \in ToSet(pendingReadTransactions') : x \in ToSet(pendingReadTransactions)
  <2>1. ASSUME NEW i \in 1 .. Len(pendingReadTransactions), Returns(i)
        PROVE  \A x \in ToSet(pendingReadTransactions') : x \in ToSet(pendingReadTransactions)
    <3>1. Shortened(pendingReadTransactions, i, RemoveAt(pendingReadTransactions, i))
      BY <1>1, LeavesQueue
    <3> QED
      BY <2>1, <3>1 DEF Returns, Shortened
  <2> QED
    BY <2>1, EndSteps
<1>3. UNCHANGED << pendingTransactions, transactionQueue, nextId, queues, outgoingData, writeData >>
  BY EndSteps
<1> QED
  BY <1>2, <1>3, FrontDistinctKept DEF Dispatched, InQueues, WritesOut

(* At the start there is no transaction.                                   *)
LEMMA FrontDistinctInit == Init => FrontDistinct
<1> SUFFICES ASSUME Init PROVE FrontDistinct
  OBVIOUS
<1>1. /\ pendingTransactions = << >> /\ transactionQueue = << >> /\ pendingReadTransactions = << >>
      /\ writeData = << >> /\ outgoingData = << >> /\ \A r \in Ranks : queues[r] = << >>
  BY DEF Init, ControllerInit, CommandQueueInit
<1>2. ToSet(<< >>) = {} /\ DistinctIds(<< >>) /\ OnWay(<< >>) = {} /\ OnWires(<< >>) = {}
  BY EmptyMember DEF DistinctIds, OnWay, OnWires
<1>3. InQueues = {}
  BY <1>1, <1>2 DEF InQueues
<1> QED
  BY <1>1, <1>2, <1>3 DEF FrontDistinct, NotDispatched, Dispatched, WritesOut

(* Every step keeps the ids apart.                                         *)
LEMMA FrontDistinctNext == ChannelTyped /\ FrontDistinct /\ [Next]_vars => FrontDistinct'
<1> SUFFICES ASSUME ChannelTyped, FrontDistinct, [Next]_vars PROVE FrontDistinct'
  OBVIOUS
<1>1. CASE ClientStep
  BY <1>1, FrontDistinctClient
<1>2. CASE BeginUpdate
  BY <1>2, FrontDistinctKept DEF BeginUpdate, Dispatched, InQueues, WritesOut, commandQueueVars
<1>3. CASE AcceptPending
  BY <1>3, FrontDistinctPending
<1>4. CASE Bus
  BY <1>4, FrontDistinctBus
<1>5. CASE RefreshTimers
  BY <1>5, FrontDistinctKept
     DEF RefreshTimers, UpdateRefresh, clientVars, Dispatched, InQueues, WritesOut
<1>6. CASE Command
  BY <1>6, FrontDistinctCommand
<1>7. CASE Dispatch
  BY <1>7, FrontDistinctDispatch
<1>8. CASE EndUpdate
  BY <1>8, FrontDistinctEnd
<1>9. CASE UNCHANGED vars
  BY <1>9, FrontDistinctKept
     DEF vars, clientVars, controllerVars, commandQueueVars, Dispatched, InQueues, WritesOut
<1> QED
  BY <1>1, <1>2, <1>3, <1>4, <1>5, <1>6, <1>7, <1>8, <1>9 DEF Next, UpdateStep

-----------------------------------------------------------------------------
(* A command that is dispatched joins its queue at the end.                *)
LEMMA ReadsInOrderDispatch ==
  ASSUME ChannelTyped, FrontDistinct, ReadsInOrder, Dispatch
  PROVE  ReadsInOrder'
<1>1. /\ UNCHANGED << returnTransaction, outgoingCmd, readReturn, rankData >>
  BY DispatchSteps
<1>2. \A r \in Ranks : OnBus(r)' = OnBus(r)
  BY <1>1 DEF OnBus, ReadOnBus
<1>3. CASE UNCHANGED << queues, pendingReadTransactions >>
  BY <1>1, <1>2, <1>3, ReadsInOrderIdle
<1>4. ASSUME NEW t \in Transactions, Dispatches(t) PROVE ReadsInOrder'
  <2> DEFINE s == t.addr.rank
             p == pendingReadTransactions
             p2 == pendingReadTransactions'
             q == queues[s]
             q2 == queues'[s]
             isRead == t.type = "DATA_READ"
  <2>1. /\ queues \in [Ranks -> Seq(Transactions)] /\ p \in Seq(Transactions)
        /\ returnTransaction \in Seq(Transactions)
    BY DEF ChannelTyped, QueuesTyped
  <2>2. /\ s \in Ranks /\ queues' = [queues EXCEPT ![s] = Append(q, t)]
        /\ p2 = IF isRead THEN Append(p, t) ELSE p
        /\ t \in ToSet(transactionQueue)
    BY <1>4 DEF Dispatches
  <2> HIDE DEF s
  <2>3. /\ q \in Seq(Transactions) /\ q2 = Append(q, t)
        /\ \A r \in Ranks : r # s => queues'[r] = queues[r]
    BY <2>1, <2>2
  <2>4. \A x \in ToSet(p) : x.id # t.id
    BY <2>2 DEF FrontDistinct, NotDispatched, Dispatched
  <2>5. /\ DistinctIds(p) /\ \A x \in ToSet(p) : x.type = "DATA_READ"
        /\ \A x : x \in ToSet(p) <=>
             x \in ToSet(returnTransaction) \/ \E r \in Ranks : x \in AtRank(r)
        /\ \A i, j \in 1 .. Len(returnTransaction) : i < j =>
             Fifo(p, returnTransaction[i], returnTransaction[j])
        /\ \A r \in Ranks : Tracked(r) /\ RankInOrder(p, r)
    BY DEF ReadsInOrder
  <2>6. /\ DistinctIds(p2)
        /\ \A x : x \in ToSet(p2) <=> x \in ToSet(p) \/ (isRead /\ x = t)
        /\ \A x, y : Fifo(p, x, y) => Fifo(p2, x, y)
        /\ \A x \in ToSet(p) : isRead => Fifo(p2, x, t)
    <3>1. CASE isRead
      BY <2>1, <2>2, <2>4, <2>5, <3>1, OlderAppended, AppendMember DEF Fifo
    <3>2. CASE ~isRead
      BY <2>2, <2>5, <3>2
    <3> QED BY <3>1, <3>2
  <2> HIDE DEF q, q2, p2
  <2>7. PICK n \in Nat : n = Len(q)
    BY <2>3, LenProperties
  <2>8. /\ Len(q2) = n + 1 /\ q2[n + 1] = t /\ \A i \in 1 .. n : q2[i] = q[i]
        /\ \A i \in 1 .. n + 1 : i \in 1 .. n \/ i = n + 1
        /\ \A i, j \in 1 .. n + 1 : i < j => i \in 1 .. n
        /\ \A x : x \in ToSet(q2) <=> x \in ToSet(q) \/ x = t
    BY <2>3, <2>7, AppendMember
  <2>9. /\ \A r \in Ranks : OnPins(r)' = OnPins(r) /\ Latency(r)' = Latency(r)
        /\ \A r \in Ranks : r # s => QueuedReads(r)' = QueuedReads(r)
        /\ \A x : x \in QueuedReads(s)' <=> x \in QueuedReads(s) \/ (isRead /\ x = t)
    BY <1>1, <2>3, <2>8 DEF OnPins, Latency, QueuedReads, q, q2
  <2>10. \A r \in Ranks : \A x : x \in AtRank(r)' <=> x \in AtRank(r) \/ (isRead /\ r = s /\ x = t)
    BY <1>2, <2>2, <2>9 DEF AtRank
  <2>11. \A r \in Ranks : \A x \in AtRank(r) : x \in ToSet(p)
    BY <2>5
  <2>12. \A x \in ToSet(returnTransaction) : x \in ToSet(p)
    BY <2>5
  <2>13. ASSUME NEW r \in Ranks PROVE Tracked(r)' /\ RankInOrder(p, r)'
    <3>1. Tracked(r) /\ RankInOrder(p, r)
      BY <2>5
    <3>2. Tracked(r)'
      <4>1. \A x \in AtRank(r)' : x.addr.rank = r
        BY <2>10, <3>1 DEF Tracked, s
      <4>2. \A x \in ToSet(queues'[r]) : x.addr.rank = r
        BY <2>3, <2>8, <3>1 DEF Tracked, s, q, q2
      <4> QED BY <4>1, <4>2 DEF Tracked
    <3>3. /\ Ahead(p, ToSet(returnTransaction), AtRank(r))
          /\ Ahead(p, OnPins(r), Latency(r)) /\ Ahead(p, OnPins(r), OnBus(r))
          /\ Ahead(p, OnPins(r), QueuedReads(r))
          /\ Ahead(p, Latency(r), OnBus(r)) /\ Ahead(p, Latency(r), QueuedReads(r))
          /\ Ahead(p, OnBus(r), QueuedReads(r))
          /\ \A i, j \in 1 .. Len(readReturn[r]) :
               i < j => Fifo(p, readReturn[r][i].trans, readReturn[r][j].trans)
          /\ \A i, j \in 1 .. Len(queues[r]) :
              i < j /\ queues[r][i].type = "DATA_READ" /\ queues[r][j].type = "DATA_READ"
                => Fifo(p, queues[r][i], queues[r][j])
      BY <3>1 DEF RankInOrder
    <3>4. ASSUME NEW X, \A x \in X : x \in ToSet(p), NEW Y, NEW Z, Ahead(p, X, Y),
                 \A z : z \in Z => z \in Y \/ (isRead /\ z = t)
          PROVE  Ahead(p2, X, Z)
      BY <2>6, <3>4 DEF Ahead
    <3>5. \A x : x \in QueuedReads(r)' => x \in QueuedReads(r) \/ (isRead /\ x = t)
      BY <2>9
    <3>6. /\ \A x \in OnPins(r) : x \in ToSet(p)
          /\ \A x \in Latency(r) : x \in ToSet(p)
          /\ \A x \in OnBus(r) : x \in ToSet(p)
      BY <2>11 DEF AtRank
    <3>7. /\ Ahead(p2, ToSet(returnTransaction), AtRank(r)')
          /\ Ahead(p2, OnPins(r), Latency(r)) /\ Ahead(p2, OnPins(r), OnBus(r))
          /\ Ahead(p2, OnPins(r), QueuedReads(r)')
          /\ Ahead(p2, Latency(r), OnBus(r)) /\ Ahead(p2, Latency(r), QueuedReads(r)')
          /\ Ahead(p2, OnBus(r), QueuedReads(r)')
      <4>1. Ahead(p2, ToSet(returnTransaction), AtRank(r)')
        BY <2>10, <2>12, <3>3, <3>4
      <4>2. Ahead(p2, OnPins(r), Latency(r)) /\ Ahead(p2, OnPins(r), OnBus(r))
        BY <2>6, <3>3 DEF Ahead
      <4>3. Ahead(p2, Latency(r), OnBus(r))
        BY <2>6, <3>3 DEF Ahead
      <4>4. Ahead(p2, OnPins(r), QueuedReads(r)')
        BY <3>3, <3>4, <3>5, <3>6
      <4>5. Ahead(p2, Latency(r), QueuedReads(r)')
        BY <3>3, <3>4, <3>5, <3>6
      <4>6. Ahead(p2, OnBus(r), QueuedReads(r)')
        BY <3>3, <3>4, <3>5, <3>6
      <4> QED BY <4>1, <4>2, <4>3, <4>4, <4>5, <4>6
    <3>8. \A i, j \in 1 .. Len(queues'[r]) :
              i < j /\ queues'[r][i].type = "DATA_READ" /\ queues'[r][j].type = "DATA_READ"
                => Fifo(p2, queues'[r][i], queues'[r][j])
      <4>1. CASE r # s
        BY <2>3, <2>6, <3>3, <4>1
      <4>2. CASE r = s
        <5> SUFFICES ASSUME NEW i \in 1 .. n + 1, NEW j \in 1 .. n + 1, i < j,
                            q2[i].type = "DATA_READ", q2[j].type = "DATA_READ"
                     PROVE  Fifo(p2, q2[i], q2[j])
          BY <2>8, <4>2 DEF q2
        <5>1. i \in 1 .. n /\ q2[i] = q[i] /\ (j \in 1 .. n \/ j = n + 1)
          BY <2>8
        <5>2. CASE j \in 1 .. n
          BY <2>6, <2>7, <2>8, <3>3, <4>2, <5>1, <5>2 DEF q
        <5>3. CASE j = n + 1
          <6>1. q[i] \in ToSet(q)
            BY <2>3, <2>7, <5>1, ToSetMember
          <6>2. q[i] \in QueuedReads(s)
            BY <5>1, <6>1 DEF QueuedReads, q
          <6>3. q[i] \in ToSet(p)
            BY <2>2, <2>11, <6>2 DEF AtRank
          <6> QED
            BY <2>6, <2>8, <5>1, <5>3, <6>3
        <5> QED BY <5>1, <5>2, <5>3
      <4> QED BY <4>1, <4>2
    <3>9. \A i, j \in 1 .. Len(readReturn[r]) :
               i < j => Fifo(p2, readReturn[r][i].trans, readReturn[r][j].trans)
      BY <2>6, <3>3
    <3> QED
      BY <1>1, <1>2, <2>9, <3>2, <3>7, <3>8, <3>9 DEF RankInOrder, p2
  <2>14. \A i, j \in 1 .. Len(returnTransaction) : i < j =>
             Fifo(p2, returnTransaction[i], returnTransaction[j])
    BY <2>5, <2>6
  <2>15. \A x \in ToSet(p2) : x.type = "DATA_READ"
    BY <2>5, <2>6
  <2>16. \A x : x \in ToSet(p2) <=>
             x \in ToSet(returnTransaction) \/ \E r \in Ranks : x \in AtRank(r)'
    BY <2>2, <2>5, <2>6, <2>10
  <2> QED
    BY <1>1, <2>6, <2>13, <2>14, <2>15, <2>16 DEF ReadsInOrder, p2
<1> QED
  BY <1>3, <1>4, DispatchSteps

(* The read that returned longest ago is the oldest pending read of its    *)
(* address, and it is nowhere else.                                        *)
LEMMA OldestReturns ==
  ASSUME ChannelTyped, ReadsInOrder, NEW i \in 1 .. Len(pendingReadTransactions), Returns(i)
  PROVE  /\ pendingReadTransactions[i] = returnTransaction[1]
         /\ \A m \in 1 .. Len(returnTransaction) :
              1 < m => returnTransaction[m] # returnTransaction[1]
         /\ \A r \in Ranks : returnTransaction[1] \notin AtRank(r)
<1> DEFINE p == pendingReadTransactions
           R == returnTransaction
           x == R[1]
<1>1. p \in Seq(Transactions) /\ R \in Seq(Transactions)
  BY DEF ChannelTyped, QueuesTyped
<1>2. /\ DistinctIds(p)
      /\ \A y : y \in ToSet(p) <=> y \in ToSet(R) \/ \E r \in Ranks : y \in AtRank(r)
      /\ \A m, k \in 1 .. Len(R) : m < k => Fifo(p, R[m], R[k])
      /\ \A r \in Ranks : Ahead(p, ToSet(R), AtRank(r))
  BY DEF ReadsInOrder, RankInOrder
<1>3. /\ R # << >> /\ p[i].addr = x.addr
      /\ \A j \in 1 .. Len(p) : p[j].addr = x.addr => i <= j
  BY DEF Returns
<1>4. 1 \in 1 .. Len(R) /\ Len(p) \in Nat
  <2>1. Len(R) \in Nat /\ Len(R) # 0
    BY <1>1, <1>3, LenProperties, EmptySeq
  <2>2. Len(p) \in Nat
    BY <1>1, LenProperties
  <2> QED BY <2>1, <2>2
<1>5. x \in ToSet(R) /\ x \in ToSet(p)
  BY <1>1, <1>2, <1>4, ToSetMember
<1> HIDE DEF x
<1>6. ASSUME Older(p, x, x) PROVE FALSE
  BY <1>1, <1>2, <1>6, OlderOnce
<1>7. \A m \in 1 .. Len(R) : 1 < m => R[m] # x
  BY <1>2, <1>4, <1>6 DEF Fifo, x
<1>8. \A r \in Ranks : x \notin AtRank(r)
  BY <1>2, <1>5, <1>6 DEF Ahead, Fifo
<1>9. p[i] = x
  <2>1. PICK k \in 1 .. Len(p) : p[k] = x
    BY <1>1, <1>5, ToSetMember
  <2>2. i <= k
    BY <1>3, <2>1
  <2> SUFFICES ASSUME p[i] # x PROVE FALSE
    OBVIOUS
  <2>3. i < k
    BY <1>4, <2>1, <2>2
  <2>4. Older(p, p[i], x)
    BY <2>1, <2>3 DEF Older
  <2>5. ~Older(p, x, p[i])
    BY <1>1, <1>2, <2>4, OlderOnce
  <2>6. p[i] \in ToSet(p)
    BY <1>1, ToSetMember
  <2>7. CASE p[i] \in ToSet(R)
    <3>1. PICK m \in 1 .. Len(R) : R[m] = p[i]
      BY <1>1, <2>7, ToSetMember
    <3>2. 1 < m
      BY <3>1 DEF x
    <3> QED
      BY <1>2, <1>3, <1>4, <2>5, <3>1, <3>2 DEF Fifo, x
  <2>8. ASSUME NEW r \in Ranks, p[i] \in AtRank(r) PROVE FALSE
    BY <1>2, <1>3, <1>5, <2>5, <2>8 DEF Ahead, Fifo
  <2> QED
    BY <1>2, <2>6, <2>7, <2>8
<1> QED
  BY <1>7, <1>8, <1>9 DEF x

(* The read that is returned is gone everywhere.                           *)
LEMMA ReadsInOrderEnd ==
  ASSUME ChannelTyped, ReadsInOrder, EndUpdate
  PROVE  ReadsInOrder'
<1>1. UNCHANGED << queues, outgoingCmd, readReturn, rankData >>
  BY EndSteps
<1>2. \A r \in Ranks : OnBus(r)' = OnBus(r)
  BY <1>1 DEF OnBus, ReadOnBus
<1>3. CASE UNCHANGED << pendingReadTransactions, returnTransaction >>
  BY <1>1, <1>2, <1>3, ReadsInOrderIdle
<1>4. ASSUME NEW i \in 1 .. Len(pendingReadTransactions), Returns(i) PROVE ReadsInOrder'
  <2> DEFINE p == pendingReadTransactions
             R == returnTransaction
             p2 == pendingReadTransactions'
             R2 == returnTransaction'
             x == R[1]
  <2>1. p \in Seq(Transactions) /\ R \in Seq(Transactions)
    BY DEF ChannelTyped, QueuesTyped
  <2>2. /\ p[i] = x /\ \A m \in 1 .. Len(R) : 1 < m => R[m] # x
        /\ \A r \in Ranks : x \notin AtRank(r)
    BY <1>4, OldestReturns
  <2>3. /\ DistinctIds(p)
        /\ \A y : y \in ToSet(p) <=> y \in ToSet(R) \/ \E r \in Ranks : y \in AtRank(r)
        /\ \A y \in ToSet(p) : y.type = "DATA_READ"
        /\ \A m, k \in 1 .. Len(R) : m < k => Fifo(p, R[m], R[k])
        /\ \A r \in Ranks : Tracked(r) /\ RankInOrder(p, r)
    BY DEF ReadsInOrder
  <2>4. R # << >> /\ p2 = RemoveAt(p, i) /\ R2 = Tail(R)
    BY <1>4 DEF Returns
  <2>5. /\ DistinctIds(p2)
        /\ \A y : y \in ToSet(p2) <=> y \in ToSet(p) /\ y # x
        /\ \A y, z : Older(p, y, z) /\ y # x /\ z # x => Older(p2, y, z)
    BY <2>1, <2>2, <2>3, <2>4, OlderRemoved
  <2>6. \A y, z : Fifo(p, y, z) /\ y # x /\ z # x => Fifo(p2, y, z)
    BY <2>5 DEF Fifo
  <2>7. PICK n \in Nat : n = Len(R)
    BY <2>1, LenProperties
  <2> HIDE DEF R2, p2
  <2>8. /\ n >= 1 /\ R2 \in Seq(Transactions) /\ Len(R2) = n - 1
        /\ \A m \in 1 .. n - 1 : R2[m] = R[m + 1] /\ m + 1 \in 1 .. n /\ 1 < m + 1
        /\ \A m, k \in 1 .. n - 1 : m < k => m + 1 < k + 1
        /\ \A y : y \in ToSet(R) <=> y = x \/ y \in ToSet(R2)
    <3>1. /\ Len(R) \in Nat \ {0} /\ R2 \in Seq(Transactions) /\ Len(R2) = Len(R) - 1
          /\ \A m \in 1 .. Len(R) - 1 : R2[m] = R[m + 1]
          /\ \A y : y \in ToSet(R) <=> y = R[1] \/ y \in ToSet(R2)
      BY <2>1, <2>4, TailMember
    <3> QED
      BY <2>7, <3>1
  <2> HIDE DEF x
  <2>9. \A m \in 1 .. n - 1 : R2[m] # x
    BY <2>2, <2>7, <2>8
  <2>10. x \notin ToSet(R2)
    <3>1. \A y : y \in ToSet(R2) <=> \E m \in 1 .. Len(R2) : R2[m] = y
      BY <2>8, ToSetMember
    <3>2. \A y \in ToSet(R2) : \E m \in 1 .. n - 1 : R2[m] = y
      BY <2>8, <3>1
    <3> QED
      BY <2>9, <3>2
  <2>11. \A r \in Ranks : AtRank(r)' = AtRank(r) /\ OnPins(r)' = OnPins(r)
            /\ Latency(r)' = Latency(r) /\ QueuedReads(r)' = QueuedReads(r)
    BY <1>1, <1>2 DEF AtRank, OnPins, Latency, QueuedReads
  <2>12. \A y : y \in ToSet(p2) <=> y \in ToSet(R2) \/ \E r \in Ranks : y \in AtRank(r)'
    BY <2>2, <2>3, <2>5, <2>8, <2>10, <2>11
  <2>13. \A m, k \in 1 .. n - 1 : m < k => Fifo(p2, R2[m], R2[k])
    <3> SUFFICES ASSUME NEW m \in 1 .. n - 1, NEW k \in 1 .. n - 1, m < k
                 PROVE  Fifo(p2, R2[m], R2[k])
      OBVIOUS
    <3>1. /\ R2[m] = R[m + 1] /\ m + 1 \in 1 .. n /\ R2[k] = R[k + 1] /\ k + 1 \in 1 .. n
          /\ m + 1 < k + 1
      BY <2>8
    <3>2. Fifo(p, R2[m], R2[k])
      BY <2>3, <2>7, <3>1
    <3> QED
      BY <2>6, <2>9, <3>2
  <2>14. ASSUME NEW r \in Ranks PROVE Tracked(r)' /\ RankInOrder(p, r)'
    <3>1. Tracked(r) /\ RankInOrder(p, r) /\ x \notin AtRank(r)
      BY <2>2, <2>3
    <3>2. Tracked(r)'
      BY <1>1, <2>11, <3>1 DEF Tracked
    <3>3. ASSUME NEW X, x \notin X, NEW Y, x \notin Y, Ahead(p, X, Y) PROVE Ahead(p2, X, Y)
      BY <2>6, <3>3 DEF Ahead
    <3>4. x \notin OnPins(r) /\ x \notin Latency(r) /\ x \notin OnBus(r) /\ x \notin QueuedReads(r)
      BY <3>1 DEF AtRank
    <3>5. /\ Ahead(p, ToSet(R), AtRank(r))
          /\ Ahead(p, OnPins(r), Latency(r)) /\ Ahead(p, OnPins(r), OnBus(r))
          /\ Ahead(p, OnPins(r), QueuedReads(r))
          /\ Ahead(p, Latency(r), OnBus(r)) /\ Ahead(p, Latency(r), QueuedReads(r))
          /\ Ahead(p, OnBus(r), QueuedReads(r))
          /\ \A m, k \in 1 .. Len(readReturn[r]) :
               m < k => Fifo(p, readReturn[r][m].trans, readReturn[r][k].trans)
          /\ \A m, k \in 1 .. Len(queues[r]) :
              m < k /\ queues[r][m].type = "DATA_READ" /\ queues[r][k].type = "DATA_READ"
                => Fifo(p, queues[r][m], queues[r][k])
      BY <3>1 DEF RankInOrder
    <3>6. /\ Ahead(p2, OnPins(r), Latency(r)) /\ Ahead(p2, OnPins(r), OnBus(r))
          /\ Ahead(p2, OnPins(r), QueuedReads(r))
      BY <3>3, <3>4, <3>5
    <3>7. /\ Ahead(p2, Latency(r), OnBus(r)) /\ Ahead(p2, Latency(r), QueuedReads(r))
          /\ Ahead(p2, OnBus(r), QueuedReads(r))
      BY <3>3, <3>4, <3>5
    <3>8. Ahead(p2, ToSet(R2), AtRank(r))
      <4>1. Ahead(p, ToSet(R2), AtRank(r))
        BY <2>8, <3>5 DEF Ahead
      <4> QED
        BY <2>10, <3>1, <3>3, <4>1
    <3>9. \A m, k \in 1 .. Len(readReturn[r]) :
               m < k => Fifo(p2, readReturn[r][m].trans, readReturn[r][k].trans)
      <4>1. \A m \in 1 .. Len(readReturn[r]) : readReturn[r][m].trans # x
        BY <3>4 DEF Latency
      <4> QED
        BY <2>6, <3>5, <4>1
    <3>10. \A m, k \in 1 .. Len(queues[r]) :
              m < k /\ queues[r][m].type = "DATA_READ" /\ queues[r][k].type = "DATA_READ"
                => Fifo(p2, queues[r][m], queues[r][k])
      <4>1. queues[r] \in Seq(Transactions)
        BY DEF ChannelTyped, QueuesTyped
      <4>2. \A m \in 1 .. Len(queues[r]) : queues[r][m] \in ToSet(queues[r])
        BY <4>1, ToSetMember
      <4>3. \A m \in 1 .. Len(queues[r]) : queues[r][m].type = "DATA_READ" => queues[r][m] # x
        BY <3>4, <4>2 DEF QueuedReads
      <4> QED
        BY <2>6, <3>5, <4>3
    <3> QED
      BY <1>1, <1>2, <2>11, <3>2, <3>6, <3>7, <3>8, <3>9, <3>10 DEF RankInOrder, p2, R2
  <2>15. \A y \in ToSet(p2) : y.type = "DATA_READ"
    BY <2>3, <2>5
  <2> QED
    BY <1>1, <2>5, <2>8, <2>12, <2>13, <2>14, <2>15 DEF ReadsInOrder, p2, R2
<1> QED
  BY <1>3, <1>4, EndSteps

-----------------------------------------------------------------------------
(* Reads and their data.                                                   *)

(* At the start there is no read.                                          *)
LEMMA ReadsInOrderInit == Init => ReadsInOrder
<1> SUFFICES ASSUME Init PROVE ReadsInOrder
  OBVIOUS
<1>1. /\ pendingReadTransactions = << >> /\ returnTransaction = << >> /\ outgoingCmd = << >>
      /\ \A r \in Ranks : queues[r] = << >> /\ readReturn[r] = << >> /\ rankData[r] = << >>
  BY DEF Init, RankInit, ControllerInit, CommandQueueInit
<1>2. ToSet(<< >>) = {} /\ DistinctIds(<< >>)
  BY EmptyMember DEF DistinctIds
<1>3. ASSUME NEW r \in Ranks
      PROVE  OnPins(r) = {} /\ Latency(r) = {} /\ OnBus(r) = {} /\ QueuedReads(r) = {} /\ AtRank(r) = {}
  <2>1. OnPins(r) = {} /\ Latency(r) = {} /\ OnBus(r) = {} /\ QueuedReads(r) = {}
    BY <1>1, <1>2 DEF OnPins, Latency, OnBus, ReadOnBus, QueuedReads
  <2> QED
    BY <2>1 DEF AtRank
<1>4. ASSUME NEW r \in Ranks PROVE Tracked(r) /\ RankInOrder(pendingReadTransactions, r)
  BY <1>1, <1>2, <1>3 DEF Tracked, RankInOrder, Ahead
<1> QED
  BY <1>1, <1>2, <1>3, <1>4 DEF ReadsInOrder

(* The inductive invariant behind OwnReadReturned. A fault ends the        *)
(* program, and with it the order.                                         *)
ReadsInv == ChannelTyped /\ ReadsSpaced /\ FrontDistinct /\ (fault = "none" => ReadsInOrder)

(* Where "nomatch" comes from, and who changes pendingReadTransactions.    *)
LEMMA FaultSteps ==
  ASSUME Next
  PROVE  /\ fault = "none"
         /\ fault' = "nomatch" => EndUpdate
         /\ ~EndUpdate => \/ pendingReadTransactions' = pendingReadTransactions
                          \/ Dispatch
<1>1. fault = "none" /\ (ClientStep \/ UpdateStep)
  BY DEF Next
<1>2. CASE ClientStep
  BY <1>1, <1>2 DEF ClientStep, AddTransaction, AddBarrier, RunReturns, ChannelUnchanged
<1>3. CASE BeginUpdate
  BY <1>1, <1>3 DEF BeginUpdate
<1>4. CASE AcceptPending
  BY <1>1, <1>4 DEF AcceptPending, ChannelUnchanged
<1>5. CASE Bus
  BY <1>1, <1>5 DEF Bus, DriveBuses
<1>6. CASE RefreshTimers
  BY <1>1, <1>6 DEF RefreshTimers, UpdateRefresh
<1>7. CASE Command
  <2>1. pendingReadTransactions' = pendingReadTransactions
    BY <1>7 DEF Command, SendCommand
  <2>2. fault' \in {"none", "cmdbus"}
    <3>1. \A c : UpdateCommandQueue(c) => fault' \in {"none", "cmdbus"}
      BY <1>1 DEF UpdateCommandQueue
    <3> QED
      BY <1>1, <1>7, <3>1 DEF Command, SendCommand, SendRefresh, SendPrechargeForRefresh, SendColumn,
                      SendActivate, SendPrecharge, SendNothing
  <2> QED
    BY <1>1, <2>1, <2>2
<1>8. CASE Dispatch
  BY <1>1, <1>8 DEF Dispatch, UpdateTransactionQueue, Enqueue
<1> QED
  BY <1>1, <1>2, <1>3, <1>4, <1>5, <1>6, <1>7, <1>8 DEF UpdateStep

(* Every step keeps the order, or ends the program.                        *)
LEMMA ReadsInOrderNext ==
  ASSUME ReadsInv, [Next]_vars, fault' = "none"
  PROVE  ReadsInOrder'
<1>1. CASE UNCHANGED vars
  <2>1. /\ fault' = fault
        /\ UNCHANGED << pendingReadTransactions, returnTransaction, rankData, queues,
                        readReturn, outgoingCmd >>
    BY <1>1 DEF vars, controllerVars, commandQueueVars, rankVars
  <2>2. \A r \in Ranks : readReturn'[r] = readReturn[r] /\ OnBus(r)' = OnBus(r)
    BY <2>1 DEF OnBus, ReadOnBus
  <2> QED
    BY <2>1, <2>2, ReadsInOrderIdle DEF ReadsInv
<1>2. CASE Next
  <2>1. ChannelTyped /\ ReadsSpaced /\ FrontDistinct /\ ReadsInOrder
    BY <1>2, FaultSteps DEF ReadsInv
  <2>2. ASSUME UNCHANGED << pendingReadTransactions, returnTransaction, rankData, queues,
                            readReturn, outgoingCmd >>
        PROVE  ReadsInOrder'
    <3>1. \A r \in Ranks : readReturn'[r] = readReturn[r] /\ OnBus(r)' = OnBus(r)
      BY <2>2 DEF OnBus, ReadOnBus
    <3> QED
      BY <2>1, <2>2, <3>1, ReadsInOrderIdle
  <2>3. CASE ClientStep
    BY <2>2, <2>3 DEF ClientStep, AddTransaction, AddBarrier, RunReturns, ChannelUnchanged,
                      rankVars, commandQueueVars
  <2>4. CASE BeginUpdate
    BY <2>1, <2>4, ReadsInOrderBegin
  <2>5. CASE AcceptPending
    BY <2>2, <2>5 DEF AcceptPending, ChannelUnchanged, rankVars, commandQueueVars
  <2>6. CASE Bus
    BY <2>1, <2>6, ReadsInOrderBus
  <2>7. CASE RefreshTimers
    BY <2>2, <2>7 DEF RefreshTimers, UpdateRefresh
  <2>8. CASE Command
    BY <2>1, <2>8, ReadsInOrderCommand
  <2>9. CASE Dispatch
    BY <2>1, <2>9, ReadsInOrderDispatch
  <2>10. CASE EndUpdate
    BY <2>1, <2>10, ReadsInOrderEnd
  <2> QED
    BY <1>2, <2>3, <2>4, <2>5, <2>6, <2>7, <2>8, <2>9, <2>10 DEF Next, UpdateStep
<1> QED
  BY <1>1, <1>2

(* The reads under way are known, at their rank and in their order,        *)
(* always.                                                                 *)
THEOREM ReadsInvAlways == Spec => []ReadsInv
<1>1. Init => ReadsInv
  BY ChannelTypedInit, ReadsSpacedInit, FrontDistinctInit, ReadsInOrderInit DEF ReadsInv
<1>2. ReadsInv /\ [Next]_vars => ReadsInv'
  BY ChannelTypedNext, ReadsSpacedNext, FrontDistinctNext, ReadsInOrderNext DEF ReadsInv
<1> QED
  BY <1>1, <1>2, PTL DEF Spec

(* Returned data is given to the very read that fetched it, and there      *)
(* always is one: matching by address alone is enough, for every geometry, *)
(* timing, queue depth, policy and client.                                 *)
THEOREM OwnReadReturnedAlways == Spec => OwnReadReturned
<1> DEFINE Own == /\ fault' # "nomatch"
                  /\ \A t \in ToSet(pendingReadTransactions) \ ToSet(pendingReadTransactions') :
                       t = Head(returnTransaction)
<1>1. ReadsInv /\ [Next]_vars =>
        [/\ fault' # "nomatch"
         /\ \A t \in ToSet(pendingReadTransactions) \ ToSet(pendingReadTransactions') :
              t = Head(returnTransaction)]_vars
  <2> SUFFICES ASSUME ReadsInv, Next PROVE Own
    OBVIOUS
  <2>1. /\ fault = "none" /\ ReadsInOrder /\ ChannelTyped /\ FrontDistinct
        /\ pendingReadTransactions \in Seq(Transactions) /\ returnTransaction \in Seq(Transactions)
    BY FaultSteps DEF ReadsInv, ChannelTyped, QueuesTyped
  <2>2. CASE EndUpdate
    <3>1. ASSUME NEW i \in 1 .. Len(pendingReadTransactions), Returns(i), fault' = fault PROVE Own
      <4>1. /\ pendingReadTransactions[i] = returnTransaction[1]
            /\ pendingReadTransactions' = RemoveAt(pendingReadTransactions, i)
            /\ returnTransaction # << >>
        BY <2>1, <3>1, OldestReturns DEF Returns
      <4>2. Shortened(pendingReadTransactions, i, RemoveAt(pendingReadTransactions, i))
        BY <2>1, LeavesQueue
      <4>3. \A x \in ToSet(pendingReadTransactions) :
              x = pendingReadTransactions[i] \/ x \in ToSet(pendingReadTransactions')
        BY <4>1, <4>2 DEF Shortened
      <4>4. Head(returnTransaction) = returnTransaction[1]
        BY <2>1, <4>1, HeadTailProperties
      <4> QED
        BY <2>1, <3>1, <4>1, <4>3, <4>4
    <3>2. CASE returnTransaction # << >> /\ Matches = {}
      <4>1. Head(returnTransaction) \in ToSet(returnTransaction)
        BY <2>1, <3>2, TailMember
      <4>2. Head(returnTransaction) \in ToSet(pendingReadTransactions)
        BY <2>1, <4>1 DEF ReadsInOrder
      <4>3. PICK k \in 1 .. Len(pendingReadTransactions) :
              pendingReadTransactions[k] = Head(returnTransaction)
        BY <2>1, <4>2, ToSetMember
      <4>4. k \in Matches
        BY <4>3 DEF Matches
      <4> QED
        BY <3>2, <4>4
    <3> QED
      BY <2>1, <2>2, <3>1, <3>2, EndSteps
  <2>3. CASE Dispatch /\ ~EndUpdate
    <3>1. \A x \in ToSet(pendingReadTransactions) : x \in ToSet(pendingReadTransactions')
      <4>1. ASSUME NEW t \in Transactions, Dispatches(t)
            PROVE  \A x \in ToSet(pendingReadTransactions) : x \in ToSet(pendingReadTransactions')
        BY <2>1, <4>1, AppendMember DEF Dispatches
      <4> QED
        BY <2>1, <2>3, <4>1, DispatchSteps
    <3> QED
      BY <2>3, <3>1, FaultSteps
  <2>4. CASE ~Dispatch /\ ~EndUpdate
    BY <2>4, FaultSteps
  <2> QED
    BY <2>2, <2>3, <2>4
<1> QED
  BY <1>1, ReadsInvAlways, PTL DEF Spec, OwnReadReturned

-----------------------------------------------------------------------------
(* The bursts of the writes.                                               *)

(* Cycles until the last burst of a write has left the data bus.           *)
WriteUntil == Until(writeData, outgoingData)

(* The line of the write data has moved on in this cycle.                  *)
Lately == IF phase \in {"refresh", "command"} THEN 1 ELSE 0

(* The bursts of the writes do not meet on the bus.                        *)
WritesSpaced ==
  /\ Spaced(writeData, outgoingData)
  /\ \A i \in 1 .. Len(writeData) : writeData[i].countdown <= WL - Lately
  /\ \A r \in Ranks : \A b \in Banks :
       bankStates[r][b].state = "RowActive" =>
         bankStates[r][b].nextWrite >= WriteUntil - WL - Between

(* The types of what the spacing of the writes is computed from.           *)
LEMMA WriteTypes ==
  ASSUME ChannelTyped, WritesSpaced
  PROVE  /\ IsLine(writeData, outgoingData) /\ Spaced(writeData, outgoingData)
         /\ WriteUntil \in Nat /\ WL \in Nat /\ WL >= 1
         /\ BurstCycles \in Nat /\ BurstCycles >= 1
         /\ \A i \in 1 .. Len(writeData) : writeData[i].countdown \in Int
         /\ \A r \in Ranks : \A b \in Banks :
              bankStates[r][b] \in BankTypes /\ bankStates[r][b].nextWrite \in Nat
<1>1. IsLine(writeData, outgoingData) /\ Spaced(writeData, outgoingData)
  BY DEF ChannelTyped, BusesTyped, WritesSpaced
<1>2. WriteUntil \in Nat
  BY <1>1, SpacingKept DEF WriteUntil
<1>3. \A i \in 1 .. Len(writeData) : writeData[i] \in Latencies
  BY <1>1, ElementOfSeq DEF IsLine
<1>4. \A r \in Ranks : \A b \in Banks :
        bankStates[r][b] \in BankTypes /\ bankStates[r][b].nextWrite \in Nat
  BY DEF ChannelTyped, BankTypes
<1>5. WL \in Nat \ {0}
  BY TimingAssumption
<1> QED
  BY <1>1, <1>2, <1>3, <1>4, <1>5, BurstLength DEF Latencies

(* With no write due later than WL - 1, the line is busy for at most WL -  *)
(* 1 + BL / 2 cycles.                                                      *)
LEMMA WriteUntilBound ==
  ASSUME ChannelTyped, WritesSpaced, Lately = 1
  PROVE  WriteUntil <= WL - 1 + BurstCycles
<1> DEFINE q == writeData
           out == outgoingData
<1>1. /\ q \in Seq(Latencies) /\ WL \in Nat /\ WL >= 1 /\ BurstCycles \in Nat
      /\ \A i \in 1 .. Len(q) : q[i].countdown \in Int
      /\ \A i \in 1 .. Len(q) : q[i].countdown <= WL - 1
      /\ out # << >> => out[1].cyclesLeft <= BurstCycles
  BY WriteTypes DEF WritesSpaced, Spaced, IsLine
<1>2. CASE q # << >>
  <2>1. PICK n \in Nat : n = Len(q)
    BY <1>1, LenProperties
  <2>2. n \in 1 .. n
    BY <1>1, <1>2, <2>1, EmptySeq
  <2>3. q[n].countdown \in Int /\ q[n].countdown <= WL - 1
    BY <1>1, <2>1, <2>2
  <2>4. WriteUntil = q[n].countdown + BurstCycles
    BY <1>2, <2>1 DEF WriteUntil, Until
  <2> QED
    BY <1>1, <2>3, <2>4
<1>3. CASE q = << >> /\ out # << >>
  <2>1. WriteUntil = out[1].cyclesLeft /\ out[1].cyclesLeft \in Int
    <3>1. out[1] \in BusBursts
      BY <1>3, WriteTypes, ShortFront DEF IsLine
    <3> QED
      BY <1>3, <3>1 DEF WriteUntil, Until, BusBursts
  <2> QED
    BY <1>1, <1>3, <2>1
<1>4. CASE q = << >> /\ out = << >>
  <2>1. WriteUntil = 0
    BY <1>4 DEF WriteUntil, Until
  <2> QED
    BY <1>1, <2>1
<1> QED
  BY <1>2, <1>3, <1>4

(* Nothing happens to the write data or the banks.                         *)
LEMMA WritesSpacedIdle ==
  ASSUME WritesSpaced, UNCHANGED << writeData, outgoingData, bankStates >>,
         Lately' = Lately, Between' = Between
  PROVE  WritesSpaced'
<1>1. WriteUntil' = WriteUntil
  BY DEF WriteUntil
<1> QED
  BY <1>1 DEF WritesSpaced

(* The line of the write data moves on.                                    *)
LEMMA WritesSpacedBus ==
  ASSUME ChannelTyped, WritesSpaced, Bus
  PROVE  WritesSpaced'
<1> DEFINE q == writeData
           out == outgoingData
           q2 == writeData'
           out2 == outgoingData'
           u == WriteUntil
           u2 == WriteUntil'
<1>1. /\ q2 = NextLatencies(q) /\ out2 = NextBurst(q, out)
  BY BusSteps DEF ChannelTyped
<1>2. /\ Lately = 0 /\ Lately' = 1 /\ Between = 1 /\ Between' = 0
  BY DEF Bus, Lately, Between
<1>3. IsLine(q, out) /\ Spaced(q, out) /\ u \in Nat /\ WL \in Nat /\ WL >= 1
  BY WriteTypes
<1>4. Spaced(q2, out2) /\ u2 \in Nat /\ u2 = IF u = 0 THEN 0 ELSE u - 1
  BY <1>1, <1>3, SpacingKept DEF WriteUntil
<1>5. /\ \A i \in 1 .. Len(q) : q[i].countdown \in Int
      /\ \A i \in 1 .. Len(q) : q[i].countdown <= WL - 0
  BY <1>2, WriteTypes DEF WritesSpaced
<1>6. \A i \in 1 .. Len(q2) : q2[i].countdown <= WL - 1
  <2>1. MovesUp(q, out, q2, out2) \/ StaysPut(q, out, q2, out2)
    BY <1>1, <1>3, LineMoves
  <2>2. \A i \in 1 .. Len(q2) : \E j \in 1 .. Len(q) : q2[i].countdown = q[j].countdown - 1
    BY <2>1 DEF MovesUp, StaysPut
  <2> HIDE DEF q, q2
  <2> SUFFICES ASSUME NEW i \in 1 .. Len(q2) PROVE q2[i].countdown <= WL - 1
    OBVIOUS
  <2>3. PICK j \in 1 .. Len(q) : q2[i].countdown = q[j].countdown - 1
    BY <2>2
  <2>4. q[j].countdown \in Int /\ q[j].countdown <= WL - 0
    BY <1>5
  <2> QED
    BY <1>3, <2>3, <2>4
<1>7. ASSUME NEW r \in Ranks, NEW b \in Banks, bankStates'[r][b].state = "RowActive"
      PROVE  bankStates'[r][b].nextWrite >= u2 - WL - 0
  <2> DEFINE w == bankStates[r][b].nextWrite
  <2>1. /\ bankStates'[r][b].nextWrite = w
        /\ bankStates[r][b].state = "RowActive"
    BY <1>7, BusBanks DEF ChannelTyped
  <2>2. w >= u - WL - 1 /\ w \in Nat
    BY <1>2, <2>1, WriteTypes DEF WritesSpaced
  <2> HIDE DEF w, u, u2
  <2>3. w >= u2 - WL - 0
    BY <1>3, <1>4, <2>2
  <2> QED
    BY <2>1, <2>3
<1> QED
  BY <1>2, <1>4, <1>6, <1>7 DEF WritesSpaced

(* A WRITE is sent only when its bank accepts one, and postpones those of  *)
(* all open rows. A row opened later accepts none for tRCDWR - AL cycles,  *)
(* which must be long enough for a burst.                                  *)
LEMMA WritesSpacedCommand ==
  ASSUME tRCDWR - AL + 1 >= BurstCycles, ChannelTyped, WritesSpaced, Command
  PROVE  WritesSpaced'
<1> DEFINE q == writeData
           out == outgoingData
           u == WriteUntil
<1>1. \/ \E r \in Ranks : \E i \in ReadyColumns(r) : SendsColumn(r, i)
      \/ \E c \in Commands : SendsOther(c)
      \/ SendsNone
  BY CommandSteps
<1>2. /\ outgoingData' = outgoingData
      /\ Lately = 1 /\ Lately' = 0 /\ Between = 0 /\ Between' = 0
  BY DEF Command, SendCommand, Lately, Between
<1>3. /\ IsLine(q, out) /\ Spaced(q, out) /\ u \in Nat /\ WL \in Nat /\ WL >= 1
      /\ BurstCycles \in Nat /\ u <= WL - 1 + BurstCycles
      /\ \A i \in 1 .. Len(q) : q[i].countdown \in Int
      /\ \A i \in 1 .. Len(q) : q[i].countdown <= WL - 1
      /\ \A r \in Ranks : \A b \in Banks :
           /\ bankStates[r][b] \in BankTypes /\ bankStates[r][b].nextWrite \in Nat
           /\ bankStates[r][b].state = "RowActive" => bankStates[r][b].nextWrite >= u - WL - 0
  BY <1>2, WriteTypes, WriteUntilBound DEF WritesSpaced
<1>4. tRCDWR - AL \in Nat
  BY DelayTypes
<1>12. \A i \in 1 .. Len(q) : q[i].countdown <= WL - 0
  BY <1>3
<1> HIDE DEF u
<1>5. ASSUME NEW c \in Commands, UpdateCommandQueue(c), c.type # "WRITE"
      PROVE  WritesSpaced'
  <2>1. writeData' = writeData
    BY <1>5 DEF UpdateCommandQueue
  <2>2. \A r \in Ranks : \A b \in Banks :
          Retimed(c, r, bankStates[r][b], bankStates'[r][b])
    BY <1>5, BanksAfterCommand DEF UpdateCommandQueue, ChannelTyped
  <2>3. ASSUME NEW r \in Ranks, NEW b \in Banks, bankStates'[r][b].state = "RowActive"
        PROVE  bankStates'[r][b].nextWrite >= u - WL - 0
    <3> DEFINE w == bankStates[r][b].nextWrite
               w2 == bankStates'[r][b].nextWrite
    <3>1. /\ w \in Nat /\ w2 \in Nat /\ w2 >= w
          /\ bankStates[r][b].state = "RowActive" \/ w2 >= tRCDWR - AL
          /\ bankStates[r][b].state = "RowActive" => w >= u - WL - 0
      BY <1>3, <2>2, <2>3 DEF Retimed, Later, BankTypes
    <3> HIDE DEF w, w2
    <3>2. w2 >= u - WL - 0
      BY <1>3, <1>4, <3>1
    <3> QED
      BY <3>2 DEF w2
  <2>4. WriteUntil' = u
    BY <1>2, <2>1 DEF WriteUntil, u
  <2> QED
    BY <1>2, <1>3, <1>12, <2>1, <2>3, <2>4 DEF WritesSpaced
<1>6. ASSUME NEW c \in Commands, UpdateCommandQueue(c), c.type = "WRITE",
             NEW b0 \in Banks, bankStates[c.rank][b0].nextWrite = 0,
             bankStates[c.rank][b0].state = "RowActive"
      PROVE  WritesSpaced'
  <2> DEFINE e == [trans |-> c.trans, countdown |-> WL]
             q2 == Append(q, e)
  <2>1. writeData' = q2
    BY <1>6 DEF UpdateCommandQueue
  <2>2. c.rank \in Ranks /\ c.trans \in Transactions
    BY <1>6, CommandParts
  <2>3. WL >= u
    BY <1>3, <1>6, <2>2
  <2>4. Spaced(q2, out) /\ Until(q2, out) = WL + BurstCycles
    BY <1>3, <2>2, <2>3, LineEnters DEF u, WriteUntil
  <2>5. \A r \in Ranks : \A b \in Banks :
          Retimed(c, r, bankStates[r][b], bankStates'[r][b])
    BY <1>6, BanksAfterCommand DEF UpdateCommandQueue, ChannelTyped
  <2>6. WriteUntil' = WL + BurstCycles
    BY <1>2, <2>1, <2>4 DEF WriteUntil
  <2>7. ASSUME NEW r \in Ranks, NEW b \in Banks, bankStates'[r][b].state = "RowActive"
        PROVE  bankStates'[r][b].nextWrite >= WL + BurstCycles - WL - 0
    <3>1. bankStates'[r][b].nextWrite \in Nat /\ bankStates'[r][b].nextWrite >= BurstCycles
      BY <1>6, <2>5, <2>7 DEF Retimed, Separated, BankTypes
    <3>2. WL + BurstCycles - WL - 0 = BurstCycles
      BY <1>3
    <3> QED
      BY <3>1, <3>2
  <2>8. \A i \in 1 .. Len(q2) : q2[i].countdown <= WL - 0
    <3>1. PICK n \in Nat : n = Len(q)
      BY <1>3, LenProperties DEF IsLine
    <3>2. e \in Latencies /\ e.countdown = WL
      BY <1>3, <2>2 DEF Latencies
    <3> HIDE DEF e
    <3>3. /\ Len(q2) = n + 1 /\ q2[n + 1] = e /\ \A i \in 1 .. n : q2[i] = q[i]
          /\ \A i \in 1 .. n + 1 : i \in 1 .. n \/ i = n + 1
      BY <1>3, <3>1, <3>2, AppendMember DEF IsLine
    <3>4. WL <= WL - 0
      BY <1>3
    <3> QED
      BY <1>12, <3>1, <3>2, <3>3, <3>4
  <2> HIDE DEF q2
  <2>9. Spaced(writeData', outgoingData')
    BY <1>2, <2>1, <2>4
  <2>10. \A i \in 1 .. Len(writeData') : writeData'[i].countdown <= WL - Lately'
    BY <1>2, <2>1, <2>8
  <2>11. \A r \in Ranks : \A b \in Banks :
           bankStates'[r][b].state = "RowActive" =>
             bankStates'[r][b].nextWrite >= WriteUntil' - WL - Between'
    <3>1. WriteUntil' - WL - Between' = WL + BurstCycles - WL - 0
      BY <1>2, <1>3, <2>6
    <3> QED
      BY <2>7, <3>1
  <2> QED
    BY <2>9, <2>10, <2>11 DEF WritesSpaced
<1>7. ASSUME NEW r \in Ranks, NEW i \in ReadyColumns(r), SendsColumn(r, i) PROVE WritesSpaced'
  <2> DEFINE t == queues[r][i]
  <2>1. i \in 1 .. Len(queues[r]) /\ ColumnIssuable(t)
    BY DEF ReadyColumns
  <2>2. t \in Transactions
    BY <2>1, ElementOfSeq DEF ChannelTyped, QueuesTyped
  <2> HIDE DEF t
  <2>3. /\ ColumnCommand(t) \in Commands
        /\ ColumnCommand(t).type = (IF t.type = "DATA_READ" THEN "READ" ELSE "WRITE")
        /\ ColumnCommand(t).rank = t.addr.rank
        /\ t.addr.bank \in Banks
    BY <2>2, ColumnCommandTyped, TransactionParts
  <2>4. /\ bankStates[t.addr.rank][t.addr.bank].state = "RowActive"
        /\ t.type # "DATA_READ" => bankStates[t.addr.rank][t.addr.bank].nextWrite = 0
    BY <2>1, <2>3 DEF ColumnIssuable
  <2>5. UpdateCommandQueue(ColumnCommand(t))
    BY <1>7 DEF SendsColumn, t
  <2> QED
    BY <1>5, <1>6, <2>3, <2>4, <2>5
<1>8. ASSUME NEW c \in Commands, SendsOther(c) PROVE WritesSpaced'
  BY <1>5, <1>8 DEF SendsOther
<1>9. CASE SendsNone
  <2>1. WriteUntil' = u /\ writeData' = writeData /\ bankStates' = bankStates
    BY <1>2, <1>9 DEF SendsNone, WriteUntil, u
  <2> QED
    BY <1>2, <1>3, <1>12, <2>1 DEF WritesSpaced
<1> QED
  BY <1>1, <1>7, <1>8, <1>9

(* The times tick.                                                         *)
LEMMA WritesSpacedEnd ==
  ASSUME ChannelTyped, WritesSpaced, EndUpdate
  PROVE  WritesSpaced'
<1>1. /\ UNCHANGED << writeData, outgoingData >>
      /\ Lately = 0 /\ Lately' = 0 /\ Between = 0 /\ Between' = 1
  BY DEF EndUpdate, TickController, Lately, Between
<1>2. WriteUntil' = WriteUntil
  BY <1>1 DEF WriteUntil
<1>3. WriteUntil \in Nat /\ WL \in Nat
  BY WriteTypes
<1>4. ASSUME NEW r \in Ranks, NEW b \in Banks, bankStates'[r][b].state = "RowActive"
      PROVE  bankStates'[r][b].nextWrite >= WriteUntil - WL - 1
  <2> DEFINE w == bankStates[r][b].nextWrite
             w2 == bankStates'[r][b].nextWrite
             u == WriteUntil
  <2>1. /\ w2 >= w - 1 /\ bankStates'[r][b] \in BankTypes
        /\ bankStates[r][b].state = "RowActive"
    BY <1>4, TickBanks DEF ChannelTyped
  <2>2. w >= u - WL - 0 /\ w \in Nat /\ w2 \in Nat
    BY <1>1, <2>1, WriteTypes DEF WritesSpaced, BankTypes
  <2> HIDE DEF w, w2, u
  <2>3. w2 >= u - WL - 1
    BY <1>3, <2>1, <2>2 DEF u
  <2> QED
    BY <2>3 DEF w2, u
<1> QED
  BY <1>1, <1>2, <1>4 DEF WritesSpaced

(* At the start no write is under way.                                     *)
LEMMA WritesSpacedInit == Init => WritesSpaced
<1> SUFFICES ASSUME Init PROVE WritesSpaced
  OBVIOUS
<1>1. /\ writeData = << >> /\ outgoingData = << >>
      /\ \A r \in Ranks : \A b \in Banks : bankStates[r][b].state # "RowActive"
  BY DEF Init, ControllerInit, IdleBank
<1>2. Len(<< >>) = 0
  BY EmptySeq
<1> QED
  BY <1>1, <1>2 DEF WritesSpaced, Spaced

(* Every step keeps the bursts of the writes apart.                        *)
LEMMA WritesSpacedNext ==
  ASSUME tRCDWR - AL + 1 >= BurstCycles
  PROVE  ChannelTyped /\ WritesSpaced /\ [Next]_vars => WritesSpaced'
<1> SUFFICES ASSUME ChannelTyped, WritesSpaced, [Next]_vars PROVE WritesSpaced'
  OBVIOUS
<1> USE DEF Lately, Between
<1>1. CASE ClientStep
  <2>1. ChannelUnchanged /\ phase' = phase
    BY <1>1 DEF ClientStep, AddTransaction, AddBarrier, RunReturns
  <2> QED
    BY <2>1, WritesSpacedIdle DEF ChannelUnchanged
<1>2. CASE BeginUpdate
  BY <1>2, WritesSpacedIdle DEF BeginUpdate
<1>3. CASE AcceptPending
  BY <1>3, WritesSpacedIdle DEF AcceptPending, ChannelUnchanged
<1>4. CASE RefreshTimers
  BY <1>4, WritesSpacedIdle DEF RefreshTimers, UpdateRefresh
<1>5. CASE Dispatch
  BY <1>5, WritesSpacedIdle DEF Dispatch, UpdateTransactionQueue
<1>6. CASE UNCHANGED vars
  BY <1>6, WritesSpacedIdle DEF vars, controllerVars
<1> QED
  BY <1>1, <1>2, <1>3, <1>4, <1>5, <1>6, WritesSpacedBus, WritesSpacedCommand, WritesSpacedEnd
     DEF Next, UpdateStep

(* A write that starts finds the data bus free.                            *)
LEMMA NoCollision ==
  ASSUME ChannelTyped, WritesSpaced
  PROVE  ~DataBusCollision
<1>1. Starts(writeData) => outgoingData = << >> \/ Ends(outgoingData)
  BY WriteTypes, PinsFree
<1> QED
  BY <1>1 DEF DataBusCollision, WriteStarts, WriteEnds, Starts, Ends

-----------------------------------------------------------------------------
(* Every command is in one place.                                          *)
CommandsOnce ==
  /\ \A x, y \in Dispatched : x.id = y.id => x = y
  /\ \A r \in Ranks : DistinctIds(queues[r]) /\ \A x \in ToSet(queues[r]) : x.addr.rank = r
  /\ \A x \in InQueues : x \notin WritesOut
  /\ LineDistinct(writeData, outgoingData)
  /\ \A x \in WritesOut : x.type # "DATA_READ"

(* Reads that return change nothing.                                       *)
LEMMA CommandsOnceKept ==
  ASSUME CommandsOnce, UNCHANGED << queues, writeData, outgoingData >>,
         \A x \in ToSet(pendingReadTransactions') : x \in ToSet(pendingReadTransactions)
  PROVE  CommandsOnce'
<1>1. InQueues' = InQueues /\ WritesOut' = WritesOut
  BY DEF InQueues, WritesOut
<1>2. \A x \in Dispatched' : x \in Dispatched
  BY <1>1 DEF Dispatched
<1> QED
  BY <1>1, <1>2 DEF CommandsOnce

(* The write data moves on.                                                *)
LEMMA CommandsOnceBus ==
  ASSUME ChannelTyped, CommandsOnce, Bus
  PROVE  CommandsOnce'
<1>1. /\ writeData' = NextLatencies(writeData)
      /\ outgoingData' = NextBurst(writeData, outgoingData)
      /\ IsLine(writeData, outgoingData) /\ LineDistinct(writeData, outgoingData)
  BY BusSteps DEF ChannelTyped, BusesTyped, CommandsOnce
<1>2. /\ \A x : x \in WritesOut' => x \in WritesOut
      /\ LineDistinct(writeData', outgoingData')
  BY <1>1, LineSteps DEF WritesOut
<1>3. UNCHANGED << pendingReadTransactions, queues >>
  BY DEF Bus, DriveBuses, commandQueueVars
<1>4. InQueues' = InQueues
  BY <1>3 DEF InQueues
<1>5. \A x : x \in Dispatched' => x \in Dispatched
  BY <1>2, <1>3, <1>4 DEF Dispatched
<1> QED
  BY <1>2, <1>3, <1>4, <1>5 DEF CommandsOnce

(* A column command leaves its queue for good.                             *)
LEMMA ColumnLeaves ==
  ASSUME ChannelTyped, CommandsOnce, NEW s \in Ranks, NEW i \in ReadyColumns(s), SendsColumn(s, i)
  PROVE  /\ queues[s][i] \in Transactions /\ queues[s][i] \in InQueues
         /\ \A x : x \in InQueues' <=> x \in InQueues /\ x # queues[s][i]
         /\ \A r \in Ranks : DistinctIds(queues'[r]) /\ \A x \in ToSet(queues'[r]) : x.addr.rank = r
<1> DEFINE t == queues[s][i]
           a == RemoveAt(queues[s], i)
<1>1. /\ queues \in [Ranks -> Seq(Transactions)] /\ i \in 1 .. Len(queues[s])
      /\ queues' = [queues EXCEPT ![s] = RemoveAt(queues[s], i)]
  BY DEF ChannelTyped, QueuesTyped, ReadyColumns, SendsColumn
<1>2. \A r \in Ranks : DistinctIds(queues[r]) /\ \A x \in ToSet(queues[r]) : x.addr.rank = r
  BY DEF CommandsOnce
<1>3. t \in Transactions /\ t \in ToSet(queues[s])
  BY <1>1, ElementOfSeq, ToSetMember
<1>4. DistinctIds(a) /\ \A x : x \in ToSet(a) <=> x \in ToSet(queues[s]) /\ x # t
  BY <1>1, <1>2, OlderRemoved
<1>5. \A r \in Ranks : queues'[r] = IF r = s THEN a ELSE queues[r]
  BY <1>1
<1> HIDE DEF t, a
<1>6. t.addr.rank = s
  BY <1>2, <1>3
<1>7. \A r \in Ranks : \A x : x \in ToSet(queues'[r]) <=> x \in ToSet(queues[r]) /\ x # t
  BY <1>2, <1>4, <1>5, <1>6
<1>8. /\ \A x : x \in InQueues <=> \E r \in Ranks : x \in ToSet(queues[r])
      /\ \A x : x \in InQueues' <=> \E r \in Ranks : x \in ToSet(queues'[r])
  BY DEF InQueues
<1>9. \A x : x \in InQueues' <=> x \in InQueues /\ x # t
  BY <1>7, <1>8
<1>10. \A r \in Ranks : DistinctIds(queues'[r]) /\ \A x \in ToSet(queues'[r]) : x.addr.rank = r
  BY <1>2, <1>4, <1>5, <1>7
<1> QED
  BY <1>3, <1>8, <1>9, <1>10 DEF t

(* A command leaves its queue, a WRITE for the line of the write data.     *)
LEMMA CommandsOnceCommand ==
  ASSUME ChannelTyped, CommandsOnce, Command
  PROVE  CommandsOnce'
<1>1. \/ \E r \in Ranks : \E i \in ReadyColumns(r) : SendsColumn(r, i)
      \/ \E c \in Commands : SendsOther(c)
      \/ SendsNone
  BY CommandSteps
<1>2. UNCHANGED << pendingReadTransactions, outgoingData >>
  BY DEF Command, SendCommand
<1>3. ASSUME NEW c \in Commands, SendsOther(c) PROVE CommandsOnce'
  BY <1>2, <1>3, CommandsOnceKept DEF SendsOther, UpdateCommandQueue
<1>4. CASE SendsNone
  BY <1>2, <1>4, CommandsOnceKept DEF SendsNone
<1>5. ASSUME NEW s \in Ranks, NEW i \in ReadyColumns(s), SendsColumn(s, i) PROVE CommandsOnce'
  <2> DEFINE t == queues[s][i]
             q == writeData
             e == [trans |-> t, countdown |-> WL]
  <2>1. /\ t \in Transactions /\ t \in InQueues
        /\ \A x : x \in InQueues' <=> x \in InQueues /\ x # t
        /\ \A r \in Ranks : DistinctIds(queues'[r]) /\ \A x \in ToSet(queues'[r]) : x.addr.rank = r
    BY <1>5, ColumnLeaves
  <2>2. UpdateCommandQueue(ColumnCommand(t))
    BY <1>5 DEF SendsColumn
  <2> HIDE DEF t
  <2>3. \A x : x \in WritesOut' <=> x \in WritesOut \/ (t.type # "DATA_READ" /\ x = t)
    BY <1>2, <2>1, <2>2, WriteJoins
  <2>4. /\ \A x, y \in Dispatched : x.id = y.id => x = y
        /\ \A x \in InQueues : x \notin WritesOut
        /\ LineDistinct(q, outgoingData)
        /\ \A x \in WritesOut : x.type # "DATA_READ"
    BY DEF CommandsOnce
  <2>5. \A x \in Dispatched' : x \in Dispatched
    BY <1>2, <2>1, <2>3 DEF Dispatched
  <2>6. LineDistinct(writeData, outgoingData)'
    <3>1. /\ ColumnCommand(t).type = (IF t.type = "DATA_READ" THEN "READ" ELSE "WRITE")
          /\ ColumnCommand(t).trans = t
      BY <2>1, ColumnCommandTyped
    <3>2. CASE t.type = "DATA_READ"
      BY <1>2, <2>2, <2>4, <3>1, <3>2 DEF UpdateCommandQueue
    <3>3. CASE t.type # "DATA_READ"
      <4>1. writeData' = Append(q, e)
        BY <2>2, <3>1, <3>3 DEF UpdateCommandQueue
      <4>2. e \in Latencies /\ e.trans = t
        BY <2>1, TimingAssumption DEF Latencies
      <4>3. q \in Seq(Latencies)
        BY DEF ChannelTyped, BusesTyped, IsLine
      <4>4. PICK n \in Nat : n = Len(q)
        BY <4>3, LenProperties
      <4> HIDE DEF e
      <4>5. /\ Len(writeData') = n + 1 /\ writeData'[n + 1] = e
            /\ \A j \in 1 .. n : writeData'[j] = q[j]
            /\ \A j \in 1 .. n + 1 : j \in 1 .. n \/ j = n + 1
        BY <4>1, <4>2, <4>3, <4>4, AppendMember
      <4>6. \A j \in 1 .. n : q[j].trans \in WritesOut
        BY <4>4 DEF WritesOut, OnWay
      <4>7. \A j \in 1 .. n : q[j].trans # t
        BY <2>1, <2>4, <4>6
      <4>8. \A x \in OnWires(outgoingData) : x # t
        BY <2>1, <2>4 DEF WritesOut
      <4>9. \A j, k \in 1 .. n : q[j].trans = q[k].trans => j = k
        BY <2>4, <4>4 DEF LineDistinct
      <4>10. \A j, k \in 1 .. n + 1 : writeData'[j].trans = writeData'[k].trans => j = k
        BY <4>2, <4>5, <4>7, <4>9
      <4>11. \A x \in OnWay(writeData)' : x \notin OnWires(outgoingData)
        <5>1. \A x \in OnWay(writeData)' : \E j \in 1 .. n + 1 : x = writeData'[j].trans
          BY <4>5 DEF OnWay
        <5>2. \A j \in 1 .. n : q[j].trans \notin OnWires(outgoingData)
          BY <2>4, <4>4 DEF LineDistinct, OnWay
        <5> QED
          BY <4>2, <4>5, <4>8, <5>1, <5>2
      <4> QED
        BY <1>2, <4>5, <4>10, <4>11 DEF LineDistinct
    <3> QED
      BY <3>2, <3>3
  <2> QED
    BY <1>2, <2>1, <2>3, <2>4, <2>5, <2>6 DEF CommandsOnce
<1> QED
  BY <1>1, <1>3, <1>4, <1>5

(* What a transaction is to the ranks before it is dispatched: nothing.    *)
LEMMA DispatchJoins ==
  ASSUME ChannelTyped, FrontDistinct, Dispatch, NEW t \in Transactions, Dispatches(t)
  PROVE  /\ \A x : x \in InQueues' <=> x \in InQueues \/ x = t
         /\ WritesOut' = WritesOut
         /\ \A x : x \in ToSet(pendingReadTransactions') <=>
                     x \in ToSet(pendingReadTransactions) \/ (t.type = "DATA_READ" /\ x = t)
         /\ \A x \in Dispatched : x.id # t.id
         /\ queues' = [queues EXCEPT ![t.addr.rank] = Append(queues[t.addr.rank], t)]
         /\ t.addr.rank \in Ranks
<1> DEFINE r == t.addr.rank
<1>1. /\ queues \in [Ranks -> Seq(Transactions)] /\ pendingReadTransactions \in Seq(Transactions)
  BY DEF ChannelTyped, QueuesTyped
<1>2. /\ r \in Ranks /\ queues' = [queues EXCEPT ![r] = Append(queues[r], t)]
      /\ t \in ToSet(transactionQueue)
  BY DEF Dispatches
<1>3. \A x : x \in ToSet(pendingReadTransactions') <=>
                     x \in ToSet(pendingReadTransactions) \/ (t.type = "DATA_READ" /\ x = t)
  BY <1>1, AppendMember DEF Dispatches
<1>4. WritesOut' = WritesOut
  BY DispatchSteps DEF WritesOut
<1>5. \A x \in Dispatched : x.id # t.id
  BY <1>2 DEF FrontDistinct, NotDispatched
<1> HIDE DEF r
<1>6. \A x : x \in ToSet(Append(queues[r], t)) <=> x \in ToSet(queues[r]) \/ x = t
  BY <1>1, <1>2, AppendMember
<1>7. \A s \in Ranks : queues'[s] = IF s = r THEN Append(queues[r], t) ELSE queues[s]
  BY <1>1, <1>2
<1>8. /\ \A x : x \in InQueues <=> \E s \in Ranks : x \in ToSet(queues[s])
      /\ \A x : x \in InQueues' <=> \E s \in Ranks : x \in ToSet(queues'[s])
  BY DEF InQueues
<1>9. \A x : x \in InQueues' <=> x \in InQueues \/ x = t
  BY <1>2, <1>6, <1>7, <1>8
<1> QED
  BY <1>2, <1>3, <1>4, <1>5, <1>9 DEF r

(* A new command joins its queue.                                          *)
LEMMA CommandsOnceDispatch ==
  ASSUME ChannelTyped, FrontDistinct, CommandsOnce, Dispatch
  PROVE  CommandsOnce'
<1>1. UNCHANGED << outgoingData, writeData >>
  BY DispatchSteps
<1>2. CASE UNCHANGED << queues, pendingReadTransactions >>
  BY <1>1, <1>2, CommandsOnceKept
<1>3. ASSUME NEW t \in Transactions, Dispatches(t) PROVE CommandsOnce'
  <2> DEFINE r == t.addr.rank
             q == queues[r]
  <2>1. /\ \A x : x \in InQueues' <=> x \in InQueues \/ x = t
        /\ WritesOut' = WritesOut
        /\ \A x : x \in ToSet(pendingReadTransactions') <=>
                     x \in ToSet(pendingReadTransactions) \/ (t.type = "DATA_READ" /\ x = t)
        /\ \A x \in Dispatched : x.id # t.id
        /\ queues' = [queues EXCEPT ![r] = Append(q, t)]
        /\ r \in Ranks
    BY <1>3, DispatchJoins
  <2>2. queues \in [Ranks -> Seq(Transactions)]
    BY DEF ChannelTyped, QueuesTyped
  <2>3. /\ \A x, y \in Dispatched : x.id = y.id => x = y
        /\ \A s \in Ranks : DistinctIds(queues[s]) /\ \A x \in ToSet(queues[s]) : x.addr.rank = s
        /\ \A x \in InQueues : x \notin WritesOut
        /\ LineDistinct(writeData, outgoingData)
        /\ \A x \in WritesOut : x.type # "DATA_READ"
    BY DEF CommandsOnce
  <2> HIDE DEF r
  <2>4. \A x : x \in Dispatched' => x \in Dispatched \/ x = t
    BY <2>1 DEF Dispatched
  <2>5. t \notin WritesOut
    BY <2>1 DEF Dispatched
  <2>6. \A x \in ToSet(q) : x.id # t.id
    BY <2>1 DEF Dispatched, InQueues
  <2>7. /\ DistinctIds(Append(q, t))
        /\ \A x : x \in ToSet(Append(q, t)) <=> x \in ToSet(q) \/ x = t
    BY <2>1, <2>2, <2>3, <2>6, AppendMember, OlderAppended
  <2> HIDE DEF q
  <2>8. \A s \in Ranks : queues'[s] = IF s = r THEN Append(q, t) ELSE queues[s]
    BY <2>1, <2>2
  <2>9. \A s \in Ranks : DistinctIds(queues'[s]) /\ \A x \in ToSet(queues'[s]) : x.addr.rank = s
    BY <2>1, <2>3, <2>7, <2>8 DEF q, r
  <2> QED
    BY <1>1, <2>1, <2>3, <2>4, <2>5, <2>9 DEF CommandsOnce
<1> QED
  BY <1>2, <1>3, DispatchSteps

(* Every step keeps every command in one place.                            *)
LEMMA CommandsOnceNext == ChannelTyped /\ FrontDistinct /\ CommandsOnce /\ [Next]_vars => CommandsOnce'
<1> SUFFICES ASSUME ChannelTyped, FrontDistinct, CommandsOnce, [Next]_vars PROVE CommandsOnce'
  OBVIOUS
<1>1. CASE ClientStep
  <2>1. ChannelUnchanged
    BY <1>1 DEF ClientStep, AddTransaction, AddBarrier, RunReturns
  <2> QED
    BY <2>1, CommandsOnceKept DEF ChannelUnchanged, commandQueueVars
<1>2. CASE BeginUpdate
  BY <1>2, CommandsOnceKept DEF BeginUpdate, commandQueueVars
<1>3. CASE AcceptPending
  BY <1>3, CommandsOnceKept DEF AcceptPending, ChannelUnchanged, commandQueueVars
<1>4. CASE RefreshTimers
  BY <1>4, CommandsOnceKept DEF RefreshTimers, UpdateRefresh
<1>5. CASE EndUpdate
  <2>1. pendingReadTransactions \in Seq(Transactions)
    BY DEF ChannelTyped, QueuesTyped
  <2>2. ASSUME NEW i \in 1 .. Len(pendingReadTransactions), Returns(i)
        PROVE  \A x \in ToSet(pendingReadTransactions') : x \in ToSet(pendingReadTransactions)
    <3>1. Shortened(pendingReadTransactions, i, RemoveAt(pendingReadTransactions, i))
      BY <2>1, LeavesQueue
    <3> QED
      BY <2>2, <3>1 DEF Returns, Shortened
  <2> QED
    BY <1>5, <2>2, EndSteps, CommandsOnceKept
<1>6. CASE UNCHANGED vars
  BY <1>6, CommandsOnceKept DEF vars, controllerVars, commandQueueVars
<1> QED
  BY <1>1, <1>2, <1>3, <1>4, <1>5, <1>6, CommandsOnceBus, CommandsOnceCommand,
     CommandsOnceDispatch DEF Next, UpdateStep

(* At the start there is no command.                                       *)
LEMMA CommandsOnceInit == Init => CommandsOnce
<1> SUFFICES ASSUME Init PROVE CommandsOnce
  OBVIOUS
<1>1. /\ pendingReadTransactions = << >>
      /\ writeData = << >> /\ outgoingData = << >> /\ \A r \in Ranks : queues[r] = << >>
  BY DEF Init, ControllerInit, CommandQueueInit
<1>2. /\ ToSet(<< >>) = {} /\ DistinctIds(<< >>) /\ OnWay(<< >>) = {} /\ OnWires(<< >>) = {}
      /\ LineDistinct(<< >>, << >>)
  BY EmptyMember DEF DistinctIds, OnWay, OnWires, LineDistinct
<1>3. InQueues = {} /\ WritesOut = {} /\ Dispatched = {}
  BY <1>1, <1>2 DEF InQueues, WritesOut, Dispatched
<1> QED
  BY <1>1, <1>2, <1>3 DEF CommandsOnce

-----------------------------------------------------------------------------
(* The refinement.                                                         *)

(* In flight is what left the queues and did not yet complete.             *)
LEMMA InFlightMember ==
  ASSUME ChannelTyped
  PROVE  \A x : x \in InFlight <=>
            (x \in ToSet(pendingReadTransactions) /\ x \notin InQueues) \/ x \in WritesOut
<1>1. writeData \in Seq(Latencies) /\ outgoingData \in Seq(BusBursts) /\ IsShort(outgoingData)
  BY DEF ChannelTyped, BusesTyped, IsLine
<1>2. \A w : w \in ToSet(writeData) <=> \E i \in 1 .. Len(writeData) : writeData[i] = w
  BY <1>1, ToSetMember
<1>3. \A w : w \in ToSet(outgoingData) <=> outgoingData # << >> /\ w = outgoingData[1]
  BY <1>1, ShortMember
<1>4. \A x : x \in WritesOut <=>
         (\E i \in 1 .. Len(writeData) : x = writeData[i].trans)
           \/ (outgoingData # << >> /\ x = outgoingData[1].trans)
  BY DEF WritesOut, OnWay, OnWires
<1>5. \A x : x \in WritesOut <=>
         (\E w \in ToSet(writeData) : x = w.trans) \/ (\E w \in ToSet(outgoingData) : x = w.trans)
  BY <1>2, <1>3, <1>4
<1> QED
  BY <1>5 DEF InFlight

(* The same after a step.                                                  *)
LEMMA InFlightNextMember ==
  ASSUME ChannelTyped'
  PROVE  \A x : x \in InFlight' <=>
            (x \in ToSet(pendingReadTransactions') /\ x \notin InQueues') \/ x \in WritesOut'
<1>1. writeData' \in Seq(Latencies) /\ outgoingData' \in Seq(BusBursts) /\ IsShort(outgoingData')
  BY DEF ChannelTyped, BusesTyped, IsLine
<1>2. \A w : w \in ToSet(writeData') <=> \E i \in 1 .. Len(writeData') : writeData'[i] = w
  BY <1>1, ToSetMember
<1>3. \A w : w \in ToSet(outgoingData') <=> outgoingData' # << >> /\ w = outgoingData'[1]
  BY <1>1, ShortMember
<1>4. \A x : x \in WritesOut' <=>
         (\E i \in 1 .. Len(writeData') : x = writeData'[i].trans)
           \/ (outgoingData' # << >> /\ x = outgoingData'[1].trans)
  BY DEF WritesOut, OnWay, OnWires
<1>5. \A x : x \in WritesOut' <=>
         (\E w \in ToSet(writeData') : x = w.trans) \/ (\E w \in ToSet(outgoingData') : x = w.trans)
  BY <1>2, <1>3, <1>4
<1> QED
  BY <1>5 DEF InFlight

(* Nothing moves in flight.                                                *)
LEMMA InFlightKept ==
  ASSUME UNCHANGED << pendingReadTransactions, queues, writeData, outgoingData >>
  PROVE  InFlight' = InFlight
BY DEF InFlight, InQueues

-----------------------------------------------------------------------------
(* Step by step, the channel does what TransactionFlow says. The client    *)
(* and the overflow are the same there.                                    *)
LEMMA FlowClient ==
  ASSUME ClientStep
  PROVE  Flow!ClientStep
<1>1. ChannelUnchanged /\ phase = "client" /\ phase' = phase
  BY DEF ClientStep, AddTransaction, AddBarrier, RunReturns
<1>2. InFlight' = InFlight /\ queues' = queues
  BY <1>1, InFlightKept DEF ChannelUnchanged, commandQueueVars
<1>3. FlowPhase = "client" /\ FlowPhase' = FlowPhase
  BY <1>1 DEF FlowPhase
<1>4. ASSUME NEW type \in {"DATA_READ", "DATA_WRITE"}, NEW addr \in Addresses,
             AddTransaction(type, addr)
      PROVE  Flow!AddTransaction(type, addr)
  BY <1>2, <1>3, <1>4
     DEF AddTransaction, Flow!AddTransaction, MayAdd, Flow!MayAdd, Flow!Accept,
         WillAcceptTransaction, Flow!WillAcceptTransaction
<1>5. ASSUME AddBarrier PROVE Flow!AddBarrier
  <2>1. Flow!WillAcceptTransaction <=> WillAcceptTransaction
    BY DEF Flow!WillAcceptTransaction, WillAcceptTransaction
  <2>2. Flow!MayAdd
    BY <1>5, <2>1 DEF AddBarrier, MayAdd, Flow!MayAdd
  <2>3. \A q : Flow!TagLast(q) = TagLast(q)
    BY DEF TagLast, Flow!TagLast
  <2>3a. \A q : Flow!Last(q) = Last(q)
    BY DEF Last, Flow!Last
  <2>4. UNCHANGED << queues, InFlight, numOnTheFlyTransactions, nextId, running, FlowPhase >>
    BY <1>2, <1>3, <1>5 DEF AddBarrier
  <2>5. CASE WillAcceptTransaction
    <3>1. /\ transactionQueue # << >> /\ transactionQueue' = TagLast(transactionQueue)
          /\ fences' = fences \cup {[id |-> nextId - 1, rank |-> Last(transactionQueue).addr.rank]}
          /\ pendingTransactions' = pendingTransactions
      BY <1>5, <2>5 DEF AddBarrier, Fence
    <3>2. Flow!BarrierTarget = transactionQueue
      BY <2>1, <2>5 DEF Flow!BarrierTarget
    <3> QED
      BY <1>3, <2>1, <2>2, <2>3, <2>3a, <2>4, <2>5, <3>1, <3>2 DEF Flow!AddBarrier
  <2>6. CASE ~WillAcceptTransaction
    <3>1. /\ pendingTransactions # << >> /\ pendingTransactions' = TagLast(pendingTransactions)
          /\ fences' = fences \cup {[id |-> nextId - 1, rank |-> Last(pendingTransactions).addr.rank]}
          /\ transactionQueue' = transactionQueue
      BY <1>5, <2>6 DEF AddBarrier, Fence
    <3>2. Flow!BarrierTarget = pendingTransactions
      BY <2>1, <2>6 DEF Flow!BarrierTarget
    <3> QED
      BY <1>3, <2>1, <2>2, <2>3, <2>3a, <2>4, <2>6, <3>1, <3>2 DEF Flow!AddBarrier
  <2> QED
    BY <2>5, <2>6
<1>6. ASSUME RunReturns PROVE Flow!RunReturns
  BY <1>2, <1>3, <1>6 DEF RunReturns, Flow!RunReturns
<1> QED
  BY <1>4, <1>5, <1>6 DEF ClientStep, Flow!ClientStep

(* The update begins.                                                      *)
LEMMA FlowBegin ==
  ASSUME BeginUpdate
  PROVE  Flow!BeginUpdate
<1>1. InFlight' = InFlight /\ queues' = queues
  BY InFlightKept DEF BeginUpdate, commandQueueVars
<1>2. FlowPhase = "client" /\ FlowPhase' = "pending"
  BY DEF FlowPhase, BeginUpdate
<1> QED
  BY <1>1, <1>2 DEF BeginUpdate, Flow!BeginUpdate

(* A transaction is accepted.                                              *)
LEMMA FlowPending ==
  ASSUME AcceptPending
  PROVE  Flow!AcceptPending
<1>1. InFlight' = InFlight /\ queues' = queues
  BY InFlightKept DEF AcceptPending, ChannelUnchanged, commandQueueVars
<1>2. FlowPhase = "pending" /\ FlowPhase' = "write"
  BY DEF FlowPhase, AcceptPending
<1> QED
  BY <1>1, <1>2 DEF AcceptPending, Flow!AcceptPending, clientVars, Flow!Accept,
                    WillAcceptTransaction, Flow!WillAcceptTransaction

(* Refreshes are no business of TransactionFlow.                           *)
LEMMA FlowRefresh ==
  ASSUME RefreshTimers
  PROVE  UNCHANGED Flow!flowVars
<1>1. InFlight' = InFlight /\ queues' = queues
  BY InFlightKept DEF RefreshTimers, UpdateRefresh
<1>2. FlowPhase = "issue" /\ FlowPhase' = "issue"
  BY DEF FlowPhase, RefreshTimers
<1> QED
  BY <1>1, <1>2 DEF RefreshTimers, UpdateRefresh, Flow!flowVars, clientVars

(* A write burst that ends completes a write in flight.                    *)
LEMMA FlowBus ==
  ASSUME ChannelTyped, ChannelTyped', ReadsInOrder, WritesSpaced, CommandsOnce,
         numOnTheFlyTransactions \in Int, Bus
  PROVE  Flow!CompleteWrite
<1> DEFINE q == writeData
           out == outgoingData
           p == pendingReadTransactions
           t == out[1].trans
<1>1. /\ writeData' = NextLatencies(q) /\ outgoingData' = NextBurst(q, out)
      /\ IsLine(q, out) /\ LineDistinct(q, out) /\ Spaced(q, out)
  BY BusSteps, WriteTypes DEF ChannelTyped, CommandsOnce
<1>2. UNCHANGED << pendingReadTransactions, queues, pendingTransactions, transactionQueue,
                   nextId, fences, running >>
  BY DEF Bus, DriveBuses, commandQueueVars, clientVars
<1>3. InQueues' = InQueues
  BY <1>2 DEF InQueues
<1>4. FlowPhase = "write" /\ FlowPhase' = "issue"
  BY DEF FlowPhase, Bus
<1>5. Starts(q) /\ out # << >> => Ends(out)
  BY <1>1, PinsFree
<1>6. /\ \A x : x \in WritesOut' => x \in WritesOut
      /\ \A x : x \in WritesOut => x \in WritesOut' \/ (Ends(out) /\ x = t)
      /\ Ends(out) => t \notin WritesOut'
  <2> DEFINE q2 == writeData'
             out2 == outgoingData'
  <2>1. /\ \A x : x \in WritesOut <=> x \in OnWay(q) \/ x \in OnWires(out)
        /\ \A x : x \in WritesOut' <=> x \in OnWay(q2) \/ x \in OnWires(out2)
    BY DEF WritesOut
  <2>2. q2 = NextLatencies(q) /\ out2 = NextBurst(q, out)
    BY <1>1
  <2> HIDE DEF q, q2, out, out2
  <2>3. \A x : x \in OnWay(q2) \/ x \in OnWires(out2) => x \in OnWay(q) \/ x \in OnWires(out)
    BY <1>1, <2>2, LineSteps
  <2>4. \A x : x \in OnWay(q) \/ x \in OnWires(out) =>
          x \in OnWay(q2) \/ x \in OnWires(out2) \/ (Ends(out) /\ x = out[1].trans)
    BY <1>1, <1>5, <2>2, LineSteps
  <2>5. Ends(out) => out[1].trans \notin OnWay(q2) /\ out[1].trans \notin OnWires(out2)
    BY <1>1, <2>2, LineSteps
  <2> QED
    BY <2>1, <2>3, <2>4, <2>5
<1>7. numOnTheFlyTransactions' = numOnTheFlyTransactions - (IF Ends(out) THEN 1 ELSE 0)
  BY DEF Bus, WriteEnds, Ends
<1>8. /\ \A x : x \in InFlight <=> (x \in ToSet(p) /\ x \notin InQueues) \/ x \in WritesOut
      /\ \A x : x \in InFlight' <=> (x \in ToSet(p) /\ x \notin InQueues) \/ x \in WritesOut'
  BY <1>2, <1>3, InFlightMember, InFlightNextMember
<1>9. CASE Ends(out)
  <2>1. t \in WritesOut
    BY <1>9 DEF WritesOut, OnWires, Ends
  <2>2. t \in InFlight /\ t \notin ToSet(p) /\ t.type # "DATA_READ"
    BY <1>8, <2>1 DEF CommandsOnce, ReadsInOrder
  <2>3. t \in Transactions
    BY <2>1, DispatchedTyped DEF Dispatched
  <2>4. t.type = "DATA_WRITE"
    BY <2>2, <2>3, TransactionParts
  <2>5. InFlight' = InFlight \ {t}
    BY <1>6, <1>8, <1>9, <2>2
  <2>6. numOnTheFlyTransactions' = numOnTheFlyTransactions - 1
    BY <1>7, <1>9
  <2> HIDE DEF t
  <2> QED
    BY <1>2, <1>4, <2>2, <2>4, <2>5, <2>6 DEF Flow!CompleteWrite, Flow!Complete
<1>10. CASE ~Ends(out)
  <2>1. InFlight' = InFlight
    BY <1>6, <1>8, <1>10
  <2>2. numOnTheFlyTransactions' = numOnTheFlyTransactions - 0
    BY <1>7, <1>10
  <2>3. numOnTheFlyTransactions' = numOnTheFlyTransactions
    BY <2>2
  <2> QED
    BY <1>2, <1>4, <2>1, <2>3 DEF Flow!CompleteWrite, Flow!Complete
<1> QED
  BY <1>9, <1>10

(* The command that leaves is one that may leave, and is in flight then.   *)
LEMMA FlowColumn ==
  ASSUME ChannelTyped, ChannelTyped', ReadsInOrder, CommandsOnce, Command,
         NEW s \in Ranks, NEW i \in ReadyColumns(s), SendsColumn(s, i)
  PROVE  /\ i \in 1 .. Len(queues[s])
         /\ Flow!Eligible(queues[s], i)
         /\ queues' = [queues EXCEPT ![s] = RemoveAt(queues[s], i)]
         /\ InFlight' = InFlight \cup {queues[s][i]}
<1> DEFINE t == queues[s][i]
           p == pendingReadTransactions
<1>1. /\ i \in 1 .. Len(queues[s])
      /\ queues' = [queues EXCEPT ![s] = RemoveAt(queues[s], i)]
      /\ UpdateCommandQueue(ColumnCommand(t))
      /\ p' = p /\ outgoingData' = outgoingData
  BY DEF SendsColumn, ReadyColumns, Command, SendCommand
<1>2. Flow!Eligible(queues[s], i)
  BY DEF Flow!Eligible, ReadyColumns, SameBurst
<1>3. /\ t \in Transactions /\ t \in InQueues
      /\ \A x : x \in InQueues' <=> x \in InQueues /\ x # t
  BY ColumnLeaves
<1>4. t \in ToSet(queues[s])
  <2>1. queues[s] \in Seq(Transactions)
    BY DEF ChannelTyped, QueuesTyped
  <2> QED
    BY <1>1, <2>1, ToSetMember
<1> HIDE DEF t
<1>5. \A x : x \in WritesOut' <=> x \in WritesOut \/ (t.type # "DATA_READ" /\ x = t)
  BY <1>1, <1>3, WriteJoins
<1>6. t.type = "DATA_READ" => t \in ToSet(p)
  BY <1>4 DEF ReadsInOrder, AtRank, QueuedReads
<1>7. t.type # "DATA_READ" => t \notin ToSet(p)
  BY DEF ReadsInOrder
<1>8. /\ \A x : x \in InFlight <=> (x \in ToSet(p) /\ x \notin InQueues) \/ x \in WritesOut
      /\ \A x : x \in InFlight' <=> (x \in ToSet(p') /\ x \notin InQueues') \/ x \in WritesOut'
  BY InFlightMember, InFlightNextMember
<1>9. \A x : x \in InFlight' <=> x \in InFlight \/ x = t
  BY <1>1, <1>3, <1>5, <1>6, <1>7, <1>8
<1> QED
  BY <1>1, <1>2, <1>9 DEF t

(* At most one eligible command is issued.                                 *)
LEMMA FlowCommand ==
  ASSUME ChannelTyped, ChannelTyped', ReadsInOrder, CommandsOnce, Command
  PROVE  Flow!Issue
<1>1. \/ \E r \in Ranks : \E i \in ReadyColumns(r) : SendsColumn(r, i)
      \/ \E c \in Commands : SendsOther(c)
      \/ SendsNone
  BY CommandSteps
<1>2. UNCHANGED << pendingReadTransactions, outgoingData, pendingTransactions, transactionQueue,
                   numOnTheFlyTransactions, nextId, fences, running >>
  BY DEF Command, SendCommand, clientVars
<1>3. FlowPhase = "issue" /\ FlowPhase' = "dispatch"
  BY DEF FlowPhase, Command
<1>4. \A q, j : Flow!RemoveAt(q, j) = RemoveAt(q, j)
  BY DEF RemoveAt, Flow!RemoveAt
<1>5. Flow!Ranks = Ranks
  BY DEF Flow!Ranks, Ranks
<1>6. ASSUME queues' = queues, writeData' = writeData PROVE Flow!Issue
  <2>1. InFlight' = InFlight
    BY <1>2, <1>6, InFlightKept
  <2> QED
    BY <1>2, <1>3, <1>6, <2>1 DEF Flow!Issue
<1>7. ASSUME NEW c \in Commands, SendsOther(c) PROVE Flow!Issue
  BY <1>6, <1>7 DEF SendsOther, UpdateCommandQueue
<1>8. CASE SendsNone
  BY <1>6, <1>8 DEF SendsNone
<1>9. ASSUME NEW s \in Ranks, NEW i \in ReadyColumns(s), SendsColumn(s, i) PROVE Flow!Issue
  <2>1. /\ i \in 1 .. Len(queues[s])
        /\ Flow!Eligible(queues[s], i)
        /\ queues' = [queues EXCEPT ![s] = Flow!RemoveAt(queues[s], i)]
        /\ InFlight' = InFlight \cup {queues[s][i]}
    BY <1>4, <1>9, FlowColumn
  <2> QED
    BY <1>2, <1>3, <1>5, <2>1 DEF Flow!Issue
<1> QED
  BY <1>1, <1>7, <1>8, <1>9

(* The first transaction with room in its queue is dispatched.             *)
LEMMA FlowDispatch ==
  ASSUME ChannelTyped, ChannelTyped', FrontDistinct, CommandsOnce, Dispatch
  PROVE  Flow!Dispatch
<1> DEFINE T == transactionQueue
<1>1. UNCHANGED << pendingTransactions, numOnTheFlyTransactions, nextId, fences, running,
                   writeData, outgoingData >>
  BY DEF Dispatch, UpdateTransactionQueue, clientVars
<1>2. FlowPhase = "dispatch" /\ FlowPhase' = "return"
  BY DEF FlowPhase, Dispatch
<1>3. \A q, j : Flow!RemoveAt(q, j) = RemoveAt(q, j)
  BY DEF RemoveAt, Flow!RemoveAt
<1>4. \A r : Flow!HasRoomFor(r) <=> HasRoomFor(r)
  BY DEF HasRoomFor, Flow!HasRoomFor
<1>5. CASE Dispatchable = {}
  <2>1. UNCHANGED << transactionQueue, queues, pendingReadTransactions >>
    BY <1>5 DEF Dispatch, UpdateTransactionQueue
  <2>2. InFlight' = InFlight
    BY <1>1, <2>1, InFlightKept
  <2>3. \A i \in 1 .. Len(T) : ~Flow!Dispatchable(i)
    BY <1>4, <1>5 DEF Dispatchable, Flow!Dispatchable
  <2> QED
    BY <1>1, <1>2, <2>1, <2>2, <2>3 DEF Flow!Dispatch
<1>6. CASE Dispatchable # {}
  <2> DEFINE i == Min(Dispatchable)
             t == T[i]
  <2>1. i \in 1 .. Len(T) /\ i \in Dispatchable /\ \A j \in Dispatchable : i <= j
    <3>1. Dispatchable \in SUBSET Nat /\ Dispatchable \subseteq 1 .. Len(T)
      BY DEF Dispatchable
    <3> QED
      BY <1>6, <3>1, MinMember
  <2>2. /\ T' = RemoveAt(T, i)
        /\ queues' = [queues EXCEPT ![t.addr.rank] = Append(@, t)]
        /\ pendingReadTransactions' =
             IF t.type = "DATA_READ" THEN Append(pendingReadTransactions, t)
                                     ELSE pendingReadTransactions
    BY <1>6 DEF Dispatch, UpdateTransactionQueue, Enqueue
  <2> HIDE DEF i
  <2>3. T \in Seq(Transactions) /\ DistinctIds(T)
    BY DEF ChannelTyped, QueuesTyped, FrontDistinct
  <2>4. PICK n \in Nat : n = Len(T)
    BY <2>3, LenProperties
  <2>5. Flow!Dispatchable(i)
    <3>1. HasRoomFor(T[i].addr.rank)
      BY <2>1 DEF Dispatchable
    <3>2. ASSUME NEW j \in 1 .. i - 1 PROVE ~HasRoomFor(T[j].addr.rank)
      <4>1. i \in 1 .. n
        BY <2>1, <2>4
      <4>2. j \in 1 .. n /\ ~(i <= j)
        BY <4>1
      <4>3. j \in 1 .. Len(T)
        BY <2>4, <4>2
      <4> QED
        BY <2>1, <4>2, <4>3 DEF Dispatchable
    <3> QED
      BY <1>4, <3>1, <3>2 DEF Flow!Dispatchable
  <2>6. t \in Transactions /\ t \in ToSet(T) /\ t.addr.rank \in Ranks
    BY <2>1, <2>3, ElementOfSeq, ToSetMember, TransactionParts
  <2>7. DistinctIds(T') /\ \A x : x \in ToSet(T') <=> x \in ToSet(T) /\ x # t
    BY <2>1, <2>2, <2>3, OlderRemoved
  <2>8. \A x \in ToSet(T) : x.id = t.id => x = t
    <3>1. \A j \in 1 .. Len(T) : T[j].id = T[i].id => j = i
      BY <2>1, <2>3 DEF DistinctIds
    <3> QED
      BY <2>3, <3>1, ToSetMember
  <2> HIDE DEF t
  <2>9. Dispatches(t)
    BY <2>2, <2>6, <2>7, <2>8 DEF Dispatches
  <2>10. /\ \A x : x \in InQueues' <=> x \in InQueues \/ x = t
         /\ WritesOut' = WritesOut
         /\ \A x : x \in ToSet(pendingReadTransactions') <=>
                     x \in ToSet(pendingReadTransactions) \/ (t.type = "DATA_READ" /\ x = t)
         /\ \A x \in Dispatched : x.id # t.id
    BY <2>6, <2>9, DispatchJoins
  <2>11. t \notin ToSet(pendingReadTransactions)
    BY <2>10 DEF Dispatched
  <2>12. \A x : x \in InFlight' <=> x \in InFlight
    BY <2>10, <2>11, InFlightMember, InFlightNextMember
  <2>13. InFlight' = InFlight
    BY <2>12
  <2>14. /\ T' = Flow!RemoveAt(T, i)
         /\ queues' = [queues EXCEPT ![t.addr.rank] = Append(@, t)]
    BY <1>3, <2>2
  <2> QED
    BY <1>1, <1>2, <2>1, <2>5, <2>13, <2>14 DEF Flow!Dispatch, t
<1> QED
  BY <1>5, <1>6

(* What is returned is a read in flight.                                   *)
LEMMA FlowEnd ==
  ASSUME ChannelTyped, ChannelTyped', ReadsInOrder, CommandsOnce, EndUpdate
  PROVE  Flow!CompleteRead
<1> DEFINE p == pendingReadTransactions
<1>1. UNCHANGED << pendingTransactions, transactionQueue, queues, nextId, fences, running,
                   outgoingData, writeData >>
  BY DEF EndUpdate, TickController, TickRanks, clientVars, commandQueueVars
<1>2. FlowPhase = "return" /\ FlowPhase' = "client"
  BY DEF FlowPhase, EndUpdate
<1>3. CASE ReturnReadData /\ numOnTheFlyTransactions' = numOnTheFlyTransactions - 1
  <2> DEFINE i == Min(Matches)
             x == p[i]
  <2>1. Matches \in SUBSET Nat /\ Matches # {} /\ Matches \subseteq 1 .. Len(p)
    BY <1>3 DEF Matches, ReturnReadData
  <2>2. i \in Matches /\ \A j \in Matches : i <= j
    BY <2>1, MinMember
  <2> HIDE DEF i
  <2>3. i \in 1 .. Len(p) /\ Returns(i)
    BY <1>3, <2>1, <2>2 DEF Returns, ReturnReadData, Matches, i
  <2>4. x = returnTransaction[1] /\ \A r \in Ranks : x \notin AtRank(r)
    BY <2>3, OldestReturns
  <2>5. p \in Seq(Transactions) /\ DistinctIds(p) /\ p' = RemoveAt(p, i)
    BY <2>3 DEF ChannelTyped, QueuesTyped, ReadsInOrder, Returns
  <2>6. x \in Transactions /\ x \in ToSet(p)
    BY <2>3, <2>5, ElementOfSeq, ToSetMember
  <2>7. \A y : y \in ToSet(p') <=> y \in ToSet(p) /\ y # x
    BY <2>3, <2>5, OlderRemoved
  <2> HIDE DEF x
  <2>8. x.type = "DATA_READ"
    BY <2>6 DEF ReadsInOrder
  <2>9. x \notin InQueues
    BY <2>4, <2>8 DEF InQueues, AtRank, QueuedReads
  <2>10. x \notin WritesOut
    BY <2>8 DEF CommandsOnce
  <2>11. InQueues' = InQueues /\ WritesOut' = WritesOut
    BY <1>1 DEF InQueues, WritesOut
  <2>12. x \in InFlight /\ \A y : y \in InFlight' <=> y \in InFlight /\ y # x
    BY <2>6, <2>7, <2>9, <2>10, <2>11, InFlightMember, InFlightNextMember
  <2>13. InFlight' = InFlight \ {x}
    BY <2>12
  <2> QED
    BY <1>1, <1>2, <1>3, <2>8, <2>12, <2>13 DEF Flow!CompleteRead, Flow!Complete
<1>4. CASE (ReturnNothing \/ ReturnUnmatched) /\ UNCHANGED numOnTheFlyTransactions
  <2>1. pendingReadTransactions' = pendingReadTransactions
    BY <1>4 DEF ReturnNothing, ReturnUnmatched
  <2>2. InFlight' = InFlight
    BY <1>1, <2>1, InFlightKept
  <2> QED
    BY <1>1, <1>2, <1>4, <2>2 DEF Flow!CompleteRead, Flow!Complete
<1> QED
  BY <1>3, <1>4 DEF EndUpdate

-----------------------------------------------------------------------------
(* The initial states correspond.                                          *)
LEMMA FlowStart == Init => Flow!FlowInit
<1> SUFFICES ASSUME Init PROVE Flow!FlowInit
  OBVIOUS
<1>1. /\ pendingReadTransactions = << >> /\ writeData = << >> /\ outgoingData = << >>
      /\ phase = "client"
  BY DEF Init, ControllerInit
<1>2. InFlight = {}
  BY <1>1, EmptyMember DEF InFlight
<1>3. FlowPhase = "client" /\ Flow!Ranks = Ranks
  BY <1>1 DEF FlowPhase, Flow!Ranks, Ranks
<1> QED
  BY <1>2, <1>3 DEF Init, ControllerInit, CommandQueueInit, Flow!FlowInit

(* The counter stays a number.                                             *)
LEMMA CounterKept ==
  numOnTheFlyTransactions \in Int /\ [Next]_vars => numOnTheFlyTransactions' \in Int
<1> SUFFICES ASSUME numOnTheFlyTransactions \in Int, [Next]_vars
             PROVE  numOnTheFlyTransactions' \in Int
  OBVIOUS
<1>1. \/ numOnTheFlyTransactions' = numOnTheFlyTransactions
      \/ numOnTheFlyTransactions' = numOnTheFlyTransactions + 1
      \/ numOnTheFlyTransactions' = numOnTheFlyTransactions - 1
      \/ numOnTheFlyTransactions' = numOnTheFlyTransactions - 0
  <2>1. CASE ClientStep
    BY <2>1 DEF ClientStep, AddTransaction, AddBarrier, RunReturns
  <2>2. CASE BeginUpdate
    BY <2>2 DEF BeginUpdate
  <2>3. CASE AcceptPending
    BY <2>3 DEF AcceptPending
  <2>4. CASE Bus
    BY <2>4 DEF Bus
  <2>5. CASE RefreshTimers \/ Command \/ Dispatch
    BY <2>5 DEF RefreshTimers, Command, Dispatch
  <2>6. CASE EndUpdate
    BY <2>6 DEF EndUpdate
  <2>7. CASE UNCHANGED vars
    BY <2>7 DEF vars
  <2> QED
    BY <2>1, <2>2, <2>3, <2>4, <2>5, <2>6, <2>7 DEF Next, UpdateStep
<1> QED
  BY <1>1

(* What the channel maintains so that it moves transactions that way.      *)
ChannelInv ==
  /\ ReadsInv
  /\ WritesSpaced
  /\ CommandsOnce
  /\ numOnTheFlyTransactions \in Int

(* It holds at the start ...                                               *)
LEMMA ChannelInvInit == Init => ChannelInv
  BY ChannelTypedInit, ReadsSpacedInit, FrontDistinctInit, ReadsInOrderInit, WritesSpacedInit,
     CommandsOnceInit DEF ReadsInv, ChannelInv, Init

(* ... and every step keeps it, provided a row is open for at least the    *)
(* length of a burst before it is written to.                              *)
LEMMA ChannelInvNext ==
  ASSUME tRCDWR - AL + 1 >= BurstCycles
  PROVE  ChannelInv /\ [Next]_vars => ChannelInv'
BY ChannelTypedNext, ReadsSpacedNext, FrontDistinctNext, ReadsInOrderNext, WritesSpacedNext,
   CommandsOnceNext, CounterKept DEF ReadsInv, ChannelInv

(* Every step of the channel is a step of TransactionFlow or leaves it as  *)
(* it is.                                                                  *)
LEMMA FlowStep ==
  ChannelInv /\ ChannelInv' /\ [Next]_vars => [Flow!FlowNext]_(Flow!flowVars)
<1> SUFFICES ASSUME ChannelInv, ChannelInv', [Next]_vars
             PROVE  Flow!FlowNext \/ UNCHANGED Flow!flowVars
  OBVIOUS
<1> USE DEF Flow!FlowNext, Flow!ClientStep, Flow!UpdateStep
<1>1. ChannelTyped /\ ChannelTyped' /\ FrontDistinct /\ WritesSpaced /\ CommandsOnce
      /\ numOnTheFlyTransactions \in Int
  BY DEF ChannelInv, ReadsInv
<1>2. Next => ReadsInOrder
  BY DEF ChannelInv, ReadsInv, Next
<1>3. CASE Next /\ ClientStep
  BY <1>3, FlowClient
<1>4. CASE Next /\ BeginUpdate
  BY <1>4, FlowBegin
<1>5. CASE Next /\ AcceptPending
  BY <1>5, FlowPending
<1>6. CASE Next /\ Bus
  BY <1>1, <1>2, <1>6, FlowBus
<1>7. CASE Next /\ RefreshTimers
  BY <1>7, FlowRefresh
<1>8. CASE Next /\ Command
  BY <1>1, <1>2, <1>8, FlowCommand
<1>9. CASE Next /\ Dispatch
  BY <1>1, <1>9, FlowDispatch
<1>10. CASE Next /\ EndUpdate
  BY <1>1, <1>2, <1>10, FlowEnd
<1>11. CASE UNCHANGED vars
  <2>1. InFlight' = InFlight
    BY <1>11, InFlightKept DEF vars, controllerVars, commandQueueVars
  <2>2. FlowPhase' = FlowPhase
    BY <1>11 DEF vars, FlowPhase
  <2> QED
    BY <1>11, <2>1, <2>2 DEF vars, controllerVars, commandQueueVars, clientVars, Flow!flowVars
<1> QED
  BY <1>3, <1>4, <1>5, <1>6, <1>7, <1>8, <1>9, <1>10, <1>11 DEF Next, UpdateStep

(* The cycle-accurate channel implements TransactionFlow: nothing is lost, *)
(* doubled or counted twice on the way through the controller, the buses   *)
(* and the ranks, whatever the geometry, the timing, the policy and the    *)
(* client. The one thing asked of the timing is that an ACTIVATE keeps     *)
(* writes of its row away for as long as a burst lasts, since the          *)
(* controller postpones writes only in rows that are open.                 *)
THEOREM ImplementsFlowAlways ==
  ASSUME tRCDWR - AL + 1 >= BurstCycles
  PROVE  Spec => ImplementsFlow
<1>1. Spec => []ChannelInv
  BY ChannelInvInit, ChannelInvNext, PTL DEF Spec
<1>2. ChannelInv /\ ChannelInv' /\ [Next]_vars => [Flow!FlowNext]_(Flow!flowVars)
  BY FlowStep
<1> QED
  BY <1>1, <1>2, FlowStart, PTL DEF Spec, ImplementsFlow, Flow!FlowSpec

-----------------------------------------------------------------------------

(* What TransactionFlow promises, the channel keeps.                       *)
FlowProofs == INSTANCE TransactionFlowProofs WITH inFlight <- InFlight, phase <- FlowPhase

(* The constants are as TransactionFlow assumes them to be.                *)
LEMMA FlowAssumptions ==
  /\ FlowProofs!QueueAssumption
  /\ FlowProofs!ClientAssumption
<1>1. NUM_RANKS \in Nat \ {0} /\ CMD_QUEUE_DEPTH \in Nat \ {0} /\ TRANS_QUEUE_DEPTH \in Nat \ {0}
  BY GeometryAssumption, CommandQueueAssumption, ControllerAssumption
<1>2. FlowProofs!QueueAssumption
  BY <1>1
<1>3. \A a \in Addresses : a.rank \in FlowProofs!Ranks
  BY SystemAssumption DEF Address, FlowProofs!Ranks, Ranks
<1>4. FlowProofs!ClientAssumption
  BY <1>3, SystemAssumption
<1> QED
  BY <1>2, <1>4

(* The two instances of TransactionFlow, the one of MemorySystem and the   *)
(* one that comes with the theorems, are the same.                         *)
LEMMA SameInit == Flow!FlowInit => FlowProofs!FlowInit
  BY DEF Flow!FlowInit, FlowProofs!FlowInit, Flow!Ranks, FlowProofs!Ranks

(* The same variables, ...                                                 *)
LEMMA SameVars == Flow!flowVars = FlowProofs!flowVars
  BY DEF Flow!flowVars, FlowProofs!flowVars

(* ... the same operators, ...                                             *)
LEMMA SameOperators ==
  /\ \A q, i : Flow!RemoveAt(q, i) = FlowProofs!RemoveAt(q, i)
  /\ \A q : Flow!Last(q) = FlowProofs!Last(q)
  /\ \A q : Flow!TagLast(q) = FlowProofs!TagLast(q)
  /\ \A q, i : Flow!Eligible(q, i) <=> FlowProofs!Eligible(q, i)
  /\ \A r : Flow!HasRoomFor(r) <=> FlowProofs!HasRoomFor(r)
  /\ Flow!Ranks = FlowProofs!Ranks
<1>1. \A q, i : Flow!RemoveAt(q, i) = FlowProofs!RemoveAt(q, i)
  BY DEF Flow!RemoveAt, FlowProofs!RemoveAt
<1>2. \A q : Flow!Last(q) = FlowProofs!Last(q)
  BY DEF Flow!Last, FlowProofs!Last
<1>3. \A q : Flow!TagLast(q) = FlowProofs!TagLast(q)
  BY DEF Flow!TagLast, FlowProofs!TagLast
<1>4. \A q, i : Flow!Eligible(q, i) <=> FlowProofs!Eligible(q, i)
  BY DEF Flow!Eligible, FlowProofs!Eligible
<1>5. \A r : Flow!HasRoomFor(r) <=> FlowProofs!HasRoomFor(r)
  BY DEF Flow!HasRoomFor, FlowProofs!HasRoomFor
<1>6. Flow!Ranks = FlowProofs!Ranks
  BY DEF Flow!Ranks, FlowProofs!Ranks
<1> QED
  BY <1>1, <1>2, <1>3, <1>4, <1>5, <1>6

(* ... the same transaction to dispatch, ...                               *)
LEMMA SameDispatchable == \A i : Flow!Dispatchable(i) <=> FlowProofs!Dispatchable(i)
  BY SameOperators DEF Flow!Dispatchable, FlowProofs!Dispatchable

(* ... the same steps ...                                                  *)
LEMMA SameNext == Flow!FlowNext => FlowProofs!FlowNext
<1>1. \A type, addr : Flow!AddTransaction(type, addr) => FlowProofs!AddTransaction(type, addr)
  BY DEF Flow!AddTransaction, Flow!MayAdd, Flow!WillAcceptTransaction, Flow!Accept,
         FlowProofs!AddTransaction, FlowProofs!MayAdd, FlowProofs!WillAcceptTransaction, FlowProofs!Accept
<1>2. Flow!AddBarrier => FlowProofs!AddBarrier
  BY SameOperators DEF Flow!AddBarrier, Flow!MayAdd, Flow!WillAcceptTransaction, Flow!BarrierTarget,
         FlowProofs!AddBarrier, FlowProofs!MayAdd, FlowProofs!WillAcceptTransaction, FlowProofs!BarrierTarget
<1>3. Flow!BeginUpdate => FlowProofs!BeginUpdate
  BY DEF Flow!BeginUpdate,
         FlowProofs!BeginUpdate
<1>4. Flow!RunReturns => FlowProofs!RunReturns
  BY DEF Flow!RunReturns,
         FlowProofs!RunReturns
<1>5. Flow!AcceptPending => FlowProofs!AcceptPending
  BY DEF Flow!AcceptPending, Flow!WillAcceptTransaction, Flow!Accept,
         FlowProofs!AcceptPending, FlowProofs!WillAcceptTransaction, FlowProofs!Accept
<1>6. Flow!CompleteWrite => FlowProofs!CompleteWrite
  BY DEF Flow!CompleteWrite, Flow!Complete,
         FlowProofs!CompleteWrite, FlowProofs!Complete
<1>7. Flow!CompleteRead => FlowProofs!CompleteRead
  BY DEF Flow!CompleteRead, Flow!Complete,
         FlowProofs!CompleteRead, FlowProofs!Complete
<1>8. Flow!Issue => FlowProofs!Issue
  BY SameOperators DEF Flow!Issue, FlowProofs!Issue
<1>9. Flow!Dispatch => FlowProofs!Dispatch
  BY SameOperators, SameDispatchable DEF Flow!Dispatch, FlowProofs!Dispatch
<1> QED
  BY <1>1, <1>2, <1>3, <1>4, <1>5, <1>6, <1>7, <1>8, <1>9
     DEF Flow!FlowNext, Flow!ClientStep, Flow!UpdateStep,
         FlowProofs!FlowNext, FlowProofs!ClientStep, FlowProofs!UpdateStep

(* ... and the same behaviours; ...                                        *)
LEMMA SameSpec == Flow!FlowSpec => FlowProofs!FlowSpec
<1>1. [Flow!FlowNext]_(Flow!flowVars) => [FlowProofs!FlowNext]_(FlowProofs!flowVars)
  BY SameNext DEF Flow!flowVars, FlowProofs!flowVars
<1> QED
  BY <1>1, SameInit, PTL DEF Flow!FlowSpec, FlowProofs!FlowSpec

(* ... transactions are in the same places, ...                            *)
LEMMA SamePlaces ==
  /\ \A S : Flow!Ids(S) = FlowProofs!Ids(S)
  /\ Flow!Controlled = FlowProofs!Controlled
  /\ Flow!Waiting = FlowProofs!Waiting
<1>1. \A S : Flow!Ids(S) = FlowProofs!Ids(S)
  BY DEF Flow!Ids, FlowProofs!Ids
<1>2. \A q : Flow!ToSet(q) = FlowProofs!ToSet(q)
  BY DEF Flow!ToSet, FlowProofs!ToSet
<1>3. Flow!QueuedIn(queues) = FlowProofs!QueuedIn(queues)
  BY <1>2, SameOperators DEF Flow!QueuedIn, FlowProofs!QueuedIn
<1> QED
  BY <1>1, <1>2, <1>3 DEF Flow!Controlled, FlowProofs!Controlled, Flow!Waiting, FlowProofs!Waiting

(* ... and the same are issued.                                            *)
LEMMA SameIssued == Flow!Issued = FlowProofs!Issued
<1>1. Flow!Waiting = FlowProofs!Waiting
  BY SamePlaces
<1>2. (Flow!Waiting = FlowProofs!Waiting)'
  BY <1>1, PTL
<1> QED
  BY <1>1, <1>2 DEF Flow!Issued, FlowProofs!Issued

(* The channel is a behaviour of TransactionFlow.                          *)
LEMMA FlowHolds ==
  ASSUME tRCDWR - AL + 1 >= BurstCycles
  PROVE  Spec => FlowProofs!FlowSpec
  BY ImplementsFlowAlways, SameSpec DEF ImplementsFlow

(* The counter that run() polls is the number of transactions that the     *)
(* controller of the cycle-accurate channel holds.                         *)
THEOREM ChannelAccounting ==
  ASSUME tRCDWR - AL + 1 >= BurstCycles
  PROVE  Spec => []Flow!Accounting
<1>1. FlowProofs!Accounting => Flow!Accounting
  BY SamePlaces DEF FlowProofs!Accounting, Flow!Accounting, FlowProofs!Cardinality, Flow!Cardinality
<1>2. Spec => FlowProofs!FlowSpec
  BY FlowHolds
<1>3. FlowProofs!FlowSpec => []FlowProofs!Accounting
  BY FlowAssumptions, FlowProofs!FlowAccounting, PTL
<1> QED
  BY <1>1, <1>2, <1>3, PTL

(* When it reads 0 between two updates nothing is left anywhere in the     *)
(* channel.                                                                *)
THEOREM ChannelNothingLeftBehind ==
  ASSUME tRCDWR - AL + 1 >= BurstCycles
  PROVE  Spec => []Flow!NothingLeftBehind
<1>1. FlowProofs!NothingLeftBehind => Flow!NothingLeftBehind
  BY SamePlaces DEF FlowProofs!NothingLeftBehind, Flow!NothingLeftBehind
<1>2. Spec => FlowProofs!FlowSpec
  BY FlowHolds
<1>3. FlowProofs!FlowSpec => []FlowProofs!NothingLeftBehind
  BY FlowAssumptions, FlowProofs!FlowNothingLeftBehind, PTL
<1> QED
  BY <1>1, <1>2, <1>3, PTL

(* The scheduler never reorders two accesses to one burst, for a client    *)
(* that adds a batch at a time or asks willAcceptTransaction() first.      *)
THEOREM ChannelSameAddressOrder ==
  ASSUME tRCDWR - AL + 1 >= BurstCycles, CLIENT # "eager"
  PROVE  Spec => Flow!SameAddressOrder
<1>1. [\A t \in FlowProofs!Issued : \A u \in FlowProofs!Waiting :
          u.addr = t.addr => t.id <= u.id]_(FlowProofs!flowVars)
      => [\A t \in Flow!Issued : \A u \in Flow!Waiting :
          u.addr = t.addr => t.id <= u.id]_(Flow!flowVars)
  BY SamePlaces, SameIssued DEF Flow!flowVars, FlowProofs!flowVars
<1>2. Spec => FlowProofs!FlowSpec
  BY FlowHolds
<1>3. FlowProofs!FlowSpec => FlowProofs!SameAddressOrder
  BY FlowAssumptions, FlowProofs!SameAddressOrderAlways, PTL
<1> QED
  BY <1>1, <1>2, <1>3, PTL DEF FlowProofs!SameAddressOrder, Flow!SameAddressOrder

(* And it honours every barrier that addBarrier() accepted.                *)
THEOREM ChannelBarrierOrder ==
  ASSUME tRCDWR - AL + 1 >= BurstCycles, CLIENT # "eager"
  PROVE  Spec => Flow!BarrierOrder
<1>1. [\A t \in FlowProofs!Issued : \A u \in FlowProofs!Waiting : \A f \in fences :
          (t.addr.rank = f.rank /\ u.addr.rank = f.rank /\ u.id <= f.id)
            => t.id <= f.id]_(FlowProofs!flowVars)
      => [\A t \in Flow!Issued : \A u \in Flow!Waiting : \A f \in fences :
          (t.addr.rank = f.rank /\ u.addr.rank = f.rank /\ u.id <= f.id)
            => t.id <= f.id]_(Flow!flowVars)
  BY SamePlaces, SameIssued DEF Flow!flowVars, FlowProofs!flowVars
<1>2. Spec => FlowProofs!FlowSpec
  BY FlowHolds
<1>3. FlowProofs!FlowSpec => FlowProofs!BarrierOrder
  BY FlowAssumptions, FlowProofs!BarrierOrderAlways, PTL
<1> QED
  BY <1>1, <1>2, <1>3, PTL DEF FlowProofs!BarrierOrder, Flow!BarrierOrder

=============================================================================

------------------------ MODULE ChannelTimingProofs -------------------------
(***************************************************************************)
(* What the timing of the controller guarantees: one burst at a time on    *)
(* the data bus, no command that a rank refuses, no refresh that is lost,  *)
(* no standstill but at a barrier; and with all of it the types.           *)
(***************************************************************************)
EXTENDS ChannelProofs, FiniteSetTheorems

(* The cycle has begun: bursts are one cycle nearer, and no command has    *)
(* been sent yet.                                                          *)
Lag == IF phase \in {"pending", "bus", "refresh", "command"} THEN 1 ELSE 0

(* A burst of the line starts x cycles from now.                           *)
StartsAt(q, out, x) ==
  \/ \E i \in 1 .. Len(q) : q[i].countdown = x
  \/ out # << >> /\ out[1].cyclesLeft - BurstCycles = x

(* What drives the data bus: each rank, and the controller with its        *)
(* writes.                                                                 *)
Lanes == 0 .. NUM_RANKS

(* A read of rank r puts its burst on the bus x cycles from now: it waits  *)
(* behind the rank, or its READ is still on the command bus.               *)
ReadSlot(r, x) ==
  \/ StartsAt(readReturn[r], rankData[r], x)
  \/ ReadOnBus(r) /\ x = outgoingCmd[1].cyclesLeft + RL - Ranked

(* A write burst starts x cycles from now.                                 *)
WriteSlot(x) == StartsAt(writeData, outgoingData, x + Ranked)

(* A burst of lane l starts x cycles from now.                             *)
Slot(l, x) == IF l = NUM_RANKS THEN WriteSlot(x) ELSE ReadSlot(l, x)

(* How far ahead a lane can have a burst: that of the command sent last.   *)
Latest(l) == IF l = NUM_RANKS THEN WL ELSE tCMD + RL

(* BusBursts of two lanes never overlap.                                      *)
Apart ==
  \A l, m \in Lanes : l # m =>
    \A x, y \in Int : Slot(l, x) /\ Slot(m, y) =>
      x + BurstCycles <= y \/ y + BurstCycles <= x

(* No burst is further away than that of a command sent in this cycle.     *)
InTime == \A l \in Lanes : \A x \in Int : Slot(l, x) => x <= Latest(l) - Lag

(* The banks whose times count. A column command postpones all banks of    *)
(* its own rank, and in the others those with an open row; a channel of a  *)
(* single rank has no others.                                              *)
Watched(r, b) == bankStates[r][b].state = "RowActive" \/ NUM_RANKS = 1

(* A bank accepts a column command no earlier than its burst would be      *)
(* clear of those of every other lane.                                     *)
BankClear(r, b) ==
  \A l \in Lanes : \A x \in Int : Slot(l, x) =>
    /\ l # r => bankStates[r][b].nextRead >= x + BurstCycles - (tCMD + RL) - Ticked
    /\ l # NUM_RANKS => bankStates[r][b].nextWrite >= x + BurstCycles - WL - Ticked

(* That of every bank that counts.                                         *)
Clear == \A r \in Ranks : \A b \in Banks : Watched(r, b) => BankClear(r, b)

(* The inductive invariant behind BusesExclusive.                          *)
DataApart == Apart /\ InTime /\ Clear

(* A command spends one cycle on the command bus, and no two writes        *)
(* collide.                                                                *)
OneCommand ==
  /\ phase \in {"refresh", "command"} => outgoingCmd = << >>
  /\ fault \notin {"cmdbus", "databus"}

(* What DataApart asks of the timing. A command takes one cycle and a      *)
(* change of direction at least one. With a second rank an ACTIVATE must   *)
(* also keep column commands of its row away until every burst sent before *)
(* it is clear of theirs, since the postponements of setBankStatesRW do    *)
(* not reach rows that are closed: ranks alone do not keep two bursts      *)
(* apart.                                                                  *)
DataFits ==
  /\ tCMD = 1 /\ tRTRS >= 1
  /\ tRCDWR - AL + 1 >= BurstCycles
  /\ \/ NUM_RANKS = 1
     \/ /\ tRCDWR - AL >= RL + BurstCycles - WL
        /\ tRCDRD - AL >= BurstCycles - 1
        /\ tRCDRD - AL >= WL + BurstCycles - RL - 2

(* Lanes and their latencies.                                              *)
LEMMA LaneParts ==
  /\ \A r \in Ranks : r \in Lanes /\ r # NUM_RANKS
  /\ \A l \in Lanes : l # NUM_RANKS => l \in Ranks
  /\ NUM_RANKS \in Lanes
  /\ NUM_RANKS = 1 => \A r, s \in Ranks : r = s
  /\ \A l \in Lanes : Latest(l) \in Nat
  /\ WL \in Nat /\ RL \in Nat /\ tCMD \in Nat /\ BurstCycles \in Nat /\ BurstCycles >= 1
<1>1. NUM_RANKS \in Nat \ {0}
  BY GeometryAssumption
<1>2. WL \in Nat /\ RL \in Nat /\ tCMD \in Nat
  BY TimingAssumption
<1>3. BurstCycles \in Nat /\ BurstCycles >= 1
  BY BurstLength
<1> QED
  BY <1>1, <1>2, <1>3 DEF Ranks, Lanes, Latest

(* One cycle brings every burst of a line one cycle nearer.                *)
LEMMA LineNearer ==
  ASSUME NEW q, NEW out, IsLine(q, out), NEW x \in Int,
         StartsAt(NextLatencies(q), NextBurst(q, out), x)
  PROVE  StartsAt(q, out, x + 1)
<1> DEFINE q2 == NextLatencies(q)
           out2 == NextBurst(q, out)
<1>1. MovesUp(q, out, q2, out2) \/ StaysPut(q, out, q2, out2)
  BY LineMoves
<1>2. out2 # << >> => out2[1].cyclesLeft = IF Starts(q) THEN BurstCycles
                                                        ELSE out[1].cyclesLeft - 1
  BY BurstCounts
<1>3. (\E i \in 1 .. Len(q2) : q2[i].countdown = x) \/ (out2 # << >> /\ out2[1].cyclesLeft - BurstCycles = x)
  BY DEF StartsAt
<1>4. q \in Seq(Latencies) /\ out \in Seq(BusBursts) /\ BurstCycles \in Nat
  BY BurstLength DEF IsLine
<1>5. \A i \in 1 .. Len(q) : q[i].countdown \in Int
  <2>1. \A i \in 1 .. Len(q) : q[i] \in Latencies
    BY <1>4, ElementOfSeq
  <2> QED
    BY <2>1 DEF Latencies
<1>6. out # << >> => out[1].cyclesLeft \in Int
  <2>1. out # << >> => out[1] \in BusBursts
    BY <1>4, ShortFront
  <2> QED
    BY <2>1 DEF BusBursts
<1> HIDE DEF q2, out2
<1>7. ASSUME NEW i \in 1 .. Len(q2), q2[i].countdown = x
      PROVE  StartsAt(q, out, x + 1)
  <2>1. \E j \in 1 .. Len(q) : q2[i].countdown = q[j].countdown - 1
    BY <1>1 DEF MovesUp, StaysPut
  <2>2. PICK j \in 1 .. Len(q) : q2[i].countdown = q[j].countdown - 1
    BY <2>1
  <2>3. q[j].countdown \in Int
    BY <1>5
  <2>4. q[j].countdown = x + 1
    BY <1>7, <2>2, <2>3
  <2> QED
    BY <2>4 DEF StartsAt
<1>8. ASSUME out2 # << >>, out2[1].cyclesLeft - BurstCycles = x
      PROVE  StartsAt(q, out, x + 1)
  <2>1. CASE Starts(q)
    <3>1. x = 0
      BY <1>2, <1>4, <1>8, <2>1
    <3>2. q # << >> /\ q[1].countdown = 1 /\ 1 \in 1 .. Len(q)
      <4>1. q # << >> /\ q[1].countdown = 1
        BY <1>4, <2>1, ShortFront DEF Starts
      <4>2. PICK n \in Nat : n = Len(q)
        BY <1>4, LenProperties
      <4>3. n # 0
        BY <1>4, <4>1, <4>2, EmptySeq
      <4> QED
        BY <4>1, <4>2, <4>3
    <3> QED
      BY <3>1, <3>2 DEF StartsAt
  <2>2. CASE ~Starts(q)
    <3>1. out # << >>
      BY <1>1, <1>8, <2>2 DEF MovesUp, StaysPut
    <3>2. out2[1].cyclesLeft = out[1].cyclesLeft - 1
      BY <1>2, <1>8, <2>2
    <3>3. out[1].cyclesLeft - BurstCycles = x + 1
      BY <1>4, <1>6, <1>8, <3>1, <3>2
    <3> QED
      BY <3>1, <3>3 DEF StartsAt
  <2> QED
    BY <2>1, <2>2
<1> QED
  BY <1>3, <1>7, <1>8

(* What is appended to a line starts when its countdown ends.              *)
LEMMA LineGains ==
  ASSUME NEW q, NEW out, IsLine(q, out), NEW e \in Latencies, NEW x,
         StartsAt(Append(q, e), out, x)
  PROVE  StartsAt(q, out, x) \/ x = e.countdown
<1>1. q \in Seq(Latencies)
  BY DEF IsLine
<1>2. PICK n \in Nat : n = Len(q)
  BY <1>1, LenProperties
<1>3. /\ Len(Append(q, e)) = n + 1 /\ Append(q, e)[n + 1] = e
      /\ \A i \in 1 .. n : Append(q, e)[i] = q[i]
      /\ \A i \in 1 .. n + 1 : i \in 1 .. n \/ i = n + 1
  BY <1>1, <1>2, AppendMember
<1> DEFINE a == Append(q, e)
<1> HIDE DEF a
<1>4. (\E i \in 1 .. n + 1 : a[i].countdown = x) \/ (out # << >> /\ out[1].cyclesLeft - BurstCycles = x)
  BY <1>3 DEF StartsAt, a
<1>5. \A i \in 1 .. n + 1 : (i \in 1 .. n /\ a[i] = q[i]) \/ a[i] = e
  BY <1>3 DEF a
<1> QED
  BY <1>2, <1>4, <1>5 DEF StartsAt

(* Every burst of the next state is one of this state, ...                 *)
SlotsKept == \A l \in Lanes : \A x \in Int : Slot(l, x)' => Slot(l, x)

(* ... or was one cycle further away.                                      *)
SlotsNearer == \A l \in Lanes : \A x \in Int : Slot(l, x)' => Slot(l, x + 1)

(* No bank accepts a column command earlier than it did.                   *)
BanksWait ==
  \A r \in Ranks : \A b \in Banks :
    /\ Watched(r, b)' => Watched(r, b)
    /\ bankStates'[r][b].nextRead + Ticked' >= bankStates[r][b].nextRead + Ticked
    /\ bankStates'[r][b].nextWrite + Ticked' >= bankStates[r][b].nextWrite + Ticked

(* The types of the times.                                                 *)
LEMMA TimeTypes ==
  ASSUME ChannelTyped
  PROVE  /\ Ticked \in {0, 1} /\ Lag \in {0, 1} /\ Ranked \in {0, 1}
         /\ \A r \in Ranks : \A b \in Banks :
              bankStates[r][b].nextRead \in Nat /\ bankStates[r][b].nextWrite \in Nat
  BY DEF Ticked, Lag, Ranked, ChannelTyped, BankTypes

(* Without a new burst, and with banks that wait as long, bursts stay      *)
(* apart.                                                                  *)
LEMMA DataApartKept ==
  ASSUME ChannelTyped, ChannelTyped', DataApart, SlotsKept, BanksWait, Lag' <= Lag
  PROVE  DataApart'
<1>1. Apart'
  <2>1. \A l \in Lanes : \A x \in Int : Slot(l, x)' => Slot(l, x)
    BY DEF SlotsKept
  <2> SUFFICES ASSUME NEW l \in Lanes, NEW m \in Lanes, l # m, NEW x \in Int, NEW y \in Int,
                      Slot(l, x)', Slot(m, y)'
               PROVE  x + BurstCycles <= y \/ y + BurstCycles <= x
    BY DEF Apart
  <2>2. Slot(l, x) /\ Slot(m, y)
    BY <2>1
  <2> QED
    BY <2>2 DEF DataApart, Apart
<1>2. InTime'
  <2> SUFFICES ASSUME NEW l \in Lanes, NEW x \in Int, Slot(l, x)'
               PROVE  x <= Latest(l) - Lag'
    BY DEF InTime, Latest
  <2>1. x <= Latest(l) - Lag
    BY DEF SlotsKept, DataApart, InTime
  <2>2. Latest(l) \in Int /\ Lag \in Int /\ Lag' \in Int
    BY LaneParts DEF Lag
  <2> QED
    BY <2>1, <2>2
<1>3. Clear'
  <2> SUFFICES ASSUME NEW r \in Ranks, NEW b \in Banks, Watched(r, b)',
                      NEW l \in Lanes, NEW x \in Int, Slot(l, x)'
               PROVE  /\ l # r => bankStates'[r][b].nextRead >= x + BurstCycles - (tCMD + RL) - Ticked'
                      /\ l # NUM_RANKS => bankStates'[r][b].nextWrite >= x + BurstCycles - WL - Ticked'
    BY DEF Clear, BankClear
  <2> DEFINE n == bankStates[r][b].nextRead
             w == bankStates[r][b].nextWrite
             n2 == bankStates'[r][b].nextRead
             w2 == bankStates'[r][b].nextWrite
             t == Ticked
             t2 == Ticked'
  <2>1. Slot(l, x) /\ Watched(r, b) /\ n2 + t2 >= n + t /\ w2 + t2 >= w + t
    BY DEF SlotsKept, BanksWait
  <2>2. /\ l # r => n >= x + BurstCycles - (tCMD + RL) - t
        /\ l # NUM_RANKS => w >= x + BurstCycles - WL - t
    BY <2>1 DEF DataApart, Clear, BankClear
  <2>3. t \in Int /\ t2 \in Int /\ n \in Int /\ w \in Int /\ n2 \in Int /\ w2 \in Int
    BY TimeTypes DEF Ticked, ChannelTyped, BankTypes
  <2>4. WL \in Int /\ RL \in Int /\ tCMD \in Int /\ BurstCycles \in Int
    BY LaneParts
  <2> HIDE DEF n, w, n2, w2, t, t2
  <2>5. l # r => n2 >= x + BurstCycles - (tCMD + RL) - t2
    BY <2>1, <2>2, <2>3, <2>4
  <2>6. l # NUM_RANKS => w2 >= x + BurstCycles - WL - t2
    BY <2>1, <2>2, <2>3, <2>4
  <2> QED
    BY <2>5, <2>6 DEF n2, w2, t2
<1> QED
  BY <1>1, <1>2, <1>3 DEF DataApart

(* Nothing happens to bursts and banks.                                    *)
LEMMA DataApartIdle ==
  ASSUME ChannelTyped, ChannelTyped', DataApart,
         UNCHANGED << readReturn, rankData, writeData, outgoingData, outgoingCmd, bankStates >>,
         Lag' = Lag, Ticked' = Ticked, Ranked' = Ranked
  PROVE  DataApart'
<1>1. SlotsKept
  <2>1. \A l \in Lanes : \A x \in Int : Slot(l, x)' <=> Slot(l, x)
    BY DEF Slot, ReadSlot, WriteSlot, StartsAt, ReadOnBus
  <2> QED
    BY <2>1 DEF SlotsKept
<1>2. BanksWait
  <2>1. \A r \in Ranks : \A b \in Banks : Watched(r, b)' => Watched(r, b)
    BY DEF Watched
  <2>2. \A r \in Ranks : \A b \in Banks :
          /\ bankStates[r][b].nextRead + Ticked >= bankStates[r][b].nextRead + Ticked
          /\ bankStates[r][b].nextWrite + Ticked >= bankStates[r][b].nextWrite + Ticked
    BY TimeTypes
  <2> QED
    BY <2>1, <2>2 DEF BanksWait
<1>3. Lag' <= Lag
  BY DEF Lag
<1> QED
  BY <1>1, <1>2, <1>3, DataApartKept

(* Rank::update brings the bursts of the reads nearer, and with the start  *)
(* of the cycle those of the writes.                                       *)
LEMMA DataApartBegin ==
  ASSUME ChannelTyped, ChannelTyped', DataApart, BeginUpdate
  PROVE  DataApart'
<1>1. /\ UNCHANGED << outgoingCmd, bankStates, writeData, outgoingData >>
      /\ phase = "client" /\ phase' = "pending"
  BY DEF BeginUpdate
<1>2. /\ Ticked = 1 /\ Ticked' = 0 /\ Lag = 0 /\ Lag' = 1 /\ Ranked = 0 /\ Ranked' = 1
  BY <1>1 DEF Ticked, Lag, Ranked
<1>3. SlotsNearer
  <2> SUFFICES ASSUME NEW l \in Lanes, NEW x \in Int, Slot(l, x)' PROVE Slot(l, x + 1)
    BY DEF SlotsNearer
  <2>1. CASE l = NUM_RANKS
    <3>1. StartsAt(writeData, outgoingData, x + 1)
      BY <1>1, <1>2, <2>1 DEF Slot, WriteSlot, StartsAt
    <3>2. (x + 1) + 0 = x + 1
      OBVIOUS
    <3> QED
      BY <1>2, <2>1, <3>1, <3>2 DEF Slot, WriteSlot
  <2>2. CASE l # NUM_RANKS
    <3>1. l \in Ranks
      BY <2>2, LaneParts
    <3>2. /\ readReturn'[l] = NextLatencies(readReturn[l])
          /\ rankData'[l] = NextBurst(readReturn[l], rankData[l])
          /\ IsLine(readReturn[l], rankData[l])
      BY <3>1, BeginSteps DEF ChannelTyped, ReadLinesTyped
    <3>3. ReadSlot(l, x)'
      BY <2>2 DEF Slot
    <3>4. CASE StartsAt(readReturn'[l], rankData'[l], x)
      <4>1. StartsAt(readReturn[l], rankData[l], x + 1)
        BY <3>2, <3>4, LineNearer
      <4> QED
        BY <2>2, <4>1 DEF Slot, ReadSlot
    <3>5. CASE ReadOnBus(l)' /\ x = outgoingCmd'[1].cyclesLeft + RL - Ranked'
      <4>1. ReadOnBus(l) /\ x = outgoingCmd[1].cyclesLeft + RL - 1
        BY <1>1, <1>2, <3>5 DEF ReadOnBus
      <4>2. outgoingCmd[1].cyclesLeft \in Int /\ RL \in Int
        <5>1. outgoingCmd[1] \in BusCommands
          BY <4>1, ShortFront DEF ChannelTyped, BusesTyped, ReadOnBus
        <5> QED
          BY <5>1, LaneParts DEF BusCommands
      <4>3. x + 1 = outgoingCmd[1].cyclesLeft + RL - 0
        BY <4>1, <4>2
      <4> QED
        BY <1>2, <2>2, <4>1, <4>3 DEF Slot, ReadSlot
    <3> QED
      BY <3>3, <3>4, <3>5 DEF ReadSlot, StartsAt
  <2> QED
    BY <2>1, <2>2
<1>4. WL \in Int /\ RL \in Int /\ tCMD \in Int /\ BurstCycles \in Int /\ \A l \in Lanes : Latest(l) \in Int
  BY LaneParts
<1>5. \A x \in Int : x + 1 \in Int
  OBVIOUS
<1>6. Apart'
  <2> SUFFICES ASSUME NEW l \in Lanes, NEW m \in Lanes, l # m, NEW x \in Int, NEW y \in Int,
                      Slot(l, x)', Slot(m, y)'
               PROVE  x + BurstCycles <= y \/ y + BurstCycles <= x
    BY DEF Apart
  <2>1. Slot(l, x + 1) /\ Slot(m, y + 1)
    BY <1>3 DEF SlotsNearer
  <2>2. (x + 1) + BurstCycles <= y + 1 \/ (y + 1) + BurstCycles <= x + 1
    BY <1>5, <2>1 DEF DataApart, Apart
  <2> QED
    BY <1>4, <2>2
<1>7. InTime'
  <2> SUFFICES ASSUME NEW l \in Lanes, NEW x \in Int, Slot(l, x)'
               PROVE  x <= Latest(l) - Lag'
    BY DEF InTime, Latest
  <2>1. Slot(l, x + 1)
    BY <1>3 DEF SlotsNearer
  <2>2. x + 1 <= Latest(l) - 0
    BY <1>2, <1>5, <2>1 DEF DataApart, InTime
  <2>3. x <= Latest(l) - 1
    BY <1>4, <2>2
  <2> QED
    BY <1>2, <2>3
<1>8. Clear'
  <2> SUFFICES ASSUME NEW r \in Ranks, NEW b \in Banks, Watched(r, b)',
                      NEW l \in Lanes, NEW x \in Int, Slot(l, x)'
               PROVE  /\ l # r => bankStates'[r][b].nextRead >= x + BurstCycles - (tCMD + RL) - Ticked'
                      /\ l # NUM_RANKS => bankStates'[r][b].nextWrite >= x + BurstCycles - WL - Ticked'
    BY DEF Clear, BankClear
  <2> DEFINE n == bankStates[r][b].nextRead
             w == bankStates[r][b].nextWrite
  <2>1. Slot(l, x + 1) /\ Watched(r, b)
    BY <1>1, <1>3 DEF SlotsNearer, Watched
  <2>2. /\ l # r => n >= (x + 1) + BurstCycles - (tCMD + RL) - 1
        /\ l # NUM_RANKS => w >= (x + 1) + BurstCycles - WL - 1
    BY <1>2, <1>5, <2>1 DEF DataApart, Clear, BankClear
  <2>3. n \in Int /\ w \in Int
    BY TimeTypes
  <2> HIDE DEF n, w
  <2>4. l # r => n >= x + BurstCycles - (tCMD + RL) - 0
    BY <1>4, <2>2, <2>3
  <2>5. l # NUM_RANKS => w >= x + BurstCycles - WL - 0
    BY <1>4, <2>2, <2>3
  <2> QED
    BY <1>1, <1>2, <2>4, <2>5 DEF n, w
<1> QED
  BY <1>6, <1>7, <1>8 DEF DataApart

(* A READ that reaches its rank becomes a burst that starts RL cycles      *)
(* later: the slot it had on the command bus. Write data moves on.         *)
LEMMA DataApartBus ==
  ASSUME ChannelTyped, ChannelTyped', DataApart, Bus
  PROVE  DataApart'
<1>1. /\ writeData' = NextLatencies(writeData)
      /\ outgoingData' = NextBurst(writeData, outgoingData)
      /\ rankData' = rankData
      /\ NothingOnBus \/ StillOnBus \/ \E c \in Commands : Arrives(c)
  BY BusSteps DEF ChannelTyped
<1>2. Ticked = 0 /\ Ticked' = 0 /\ Lag = 1 /\ Lag' = 1 /\ Ranked = 1 /\ Ranked' = 0
  BY DEF Bus, Ticked, Lag, Ranked
<1>3. ASSUME NEW x \in Int, WriteSlot(x)' PROVE WriteSlot(x)
  <2>1. StartsAt(writeData', outgoingData', x)
    <3>1. StartsAt(writeData', outgoingData', x + 0)
      BY <1>2, <1>3 DEF WriteSlot, StartsAt
    <3>2. x + 0 = x
      OBVIOUS
    <3> QED
      BY <3>1, <3>2
  <2>2. IsLine(writeData, outgoingData)
    BY DEF ChannelTyped, BusesTyped
  <2>3. StartsAt(writeData, outgoingData, x + 1)
    BY <1>1, <2>1, <2>2, LineNearer
  <2> QED
    BY <1>2, <2>3 DEF WriteSlot
<1>4. ASSUME NEW r \in Ranks, NEW x \in Int, ReadSlot(r, x)' PROVE ReadSlot(r, x)
  <2>1. \/ StartsAt(readReturn'[r], rankData'[r], x)
        \/ ReadOnBus(r)' /\ x = outgoingCmd'[1].cyclesLeft + RL - 0
    BY <1>2, <1>4 DEF ReadSlot, StartsAt
  <2>2. CASE NothingOnBus
    <3>1. ~(ReadOnBus(r)') /\ readReturn' = readReturn
      BY <2>2 DEF NothingOnBus, ReadOnBus
    <3> QED
      BY <1>1, <2>1, <3>1 DEF ReadSlot
  <2>3. CASE StillOnBus
    <3>1. /\ outgoingCmd # << >> /\ outgoingCmd[1] \in BusCommands /\ readReturn' = readReturn
          /\ outgoingCmd' = << [outgoingCmd[1] EXCEPT !.cyclesLeft = @ - 1] >>
      BY <2>3 DEF StillOnBus
    <3>2. /\ outgoingCmd'[1].cmd = outgoingCmd[1].cmd
          /\ outgoingCmd'[1].cyclesLeft = outgoingCmd[1].cyclesLeft - 1
          /\ outgoingCmd[1].cyclesLeft \in Int
      BY <3>1 DEF BusCommands
    <3>3. CASE StartsAt(readReturn'[r], rankData'[r], x)
      BY <1>1, <3>1, <3>3 DEF ReadSlot
    <3>4. CASE ReadOnBus(r)' /\ x = outgoingCmd'[1].cyclesLeft + RL - 0
      <4>1. ReadOnBus(r)
        BY <3>1, <3>2, <3>4 DEF ReadOnBus
      <4>2. x = outgoingCmd[1].cyclesLeft + RL - 1
        BY <3>2, <3>4, LaneParts
      <4> QED
        BY <1>2, <4>1, <4>2 DEF ReadSlot
    <3> QED
      BY <2>1, <3>3, <3>4
  <2>4. ASSUME NEW c \in Commands, Arrives(c) PROVE ReadSlot(r, x)
    <3>1. /\ outgoingCmd # << >> /\ c = outgoingCmd[1].cmd /\ outgoingCmd[1].cyclesLeft = 1
          /\ outgoingCmd' = << >>
      BY <2>4 DEF Arrives
    <3>2. StartsAt(readReturn'[r], rankData[r], x)
      BY <1>1, <2>1, <3>1 DEF ReadOnBus
    <3>3. CASE c.type = "READ" /\ c.rank = r
      <4> DEFINE e == [trans |-> c.trans, countdown |-> RL]
      <4>1. readReturn'[r] = Append(readReturn[r], e)
        <5>1. readReturn \in [Ranks -> Seq(Latencies)]
          BY DEF ChannelTyped, ReadLinesTyped
        <5>2. readReturn' = [readReturn EXCEPT ![r] = Append(readReturn[r], e)]
          BY <2>4, <3>3 DEF Arrives
        <5> QED
          BY <5>1, <5>2
      <4>2. e \in Latencies /\ e.countdown = RL
        BY <3>3, CommandParts, LaneParts DEF Latencies
      <4>3. IsLine(readReturn[r], rankData[r])
        BY DEF ChannelTyped, ReadLinesTyped
      <4> HIDE DEF e
      <4>4. StartsAt(readReturn[r], rankData[r], x) \/ x = RL
        BY <3>2, <4>1, <4>2, <4>3, LineGains
      <4>5. ReadOnBus(r) /\ RL = outgoingCmd[1].cyclesLeft + RL - 1
        BY <3>1, <3>3, LaneParts DEF ReadOnBus
      <4> QED
        BY <1>2, <4>4, <4>5 DEF ReadSlot
    <3>4. CASE ~(c.type = "READ" /\ c.rank = r)
      <4>1. readReturn'[r] = readReturn[r]
        <5>1. readReturn \in [Ranks -> Seq(Latencies)]
          BY DEF ChannelTyped, ReadLinesTyped
        <5> QED
          BY <2>4, <3>4, <5>1 DEF Arrives
      <4> QED
        BY <3>2, <4>1 DEF ReadSlot
    <3> QED
      BY <3>3, <3>4
  <2> QED
    BY <1>1, <2>2, <2>3, <2>4
<1>5. SlotsKept
  <2>1. ASSUME NEW l \in Lanes, NEW x \in Int, Slot(l, x)' PROVE Slot(l, x)
    <3>1. CASE l = NUM_RANKS
      <4>1. WriteSlot(x)'
        BY <2>1, <3>1 DEF Slot
      <4> QED
        BY <1>3, <3>1, <4>1 DEF Slot
    <3>2. CASE l # NUM_RANKS
      <4>1. ReadSlot(l, x)' /\ l \in Ranks
        BY <2>1, <3>2, LaneParts DEF Slot
      <4> QED
        BY <1>4, <3>2, <4>1 DEF Slot
    <3> QED
      BY <3>1, <3>2
  <2> QED
    BY <2>1 DEF SlotsKept
<1>6. BanksWait
  <2>1. \A r \in Ranks : \A b \in Banks :
          /\ bankStates'[r][b].nextRead = bankStates[r][b].nextRead
          /\ bankStates'[r][b].nextWrite = bankStates[r][b].nextWrite
          /\ Watched(r, b)' => Watched(r, b)
    BY BusBanks DEF ChannelTyped, Watched
  <2>2. \A r \in Ranks : \A b \in Banks :
          /\ bankStates[r][b].nextRead + 0 >= bankStates[r][b].nextRead + 0
          /\ bankStates[r][b].nextWrite + 0 >= bankStates[r][b].nextWrite + 0
    BY TimeTypes
  <2> QED
    BY <1>2, <2>1, <2>2 DEF BanksWait
<1> QED
  BY <1>2, <1>5, <1>6, DataApartKept

(* The times of the banks tick.                                            *)
LEMMA DataApartEnd ==
  ASSUME ChannelTyped, ChannelTyped', DataApart, EndUpdate
  PROVE  DataApart'
<1>1. /\ UNCHANGED << readReturn, rankData, writeData, outgoingData, outgoingCmd >>
      /\ phase = "return" /\ phase' = "client"
  BY DEF EndUpdate, TickController
<1>2. Ticked = 0 /\ Ticked' = 1 /\ Lag = 0 /\ Lag' = 0 /\ Ranked = 0 /\ Ranked' = 0
  BY <1>1 DEF Ticked, Lag, Ranked
<1>3. SlotsKept
  <2>1. \A l \in Lanes : \A x \in Int : Slot(l, x)' <=> Slot(l, x)
    BY <1>1, <1>2 DEF Slot, ReadSlot, WriteSlot, StartsAt, ReadOnBus
  <2> QED
    BY <2>1 DEF SlotsKept
<1>4. BanksWait
  <2>1. \A r \in Ranks : \A b \in Banks :
          /\ bankStates'[r][b].nextRead >= bankStates[r][b].nextRead - 1
          /\ bankStates'[r][b].nextWrite >= bankStates[r][b].nextWrite - 1
          /\ Watched(r, b)' => Watched(r, b)
          /\ bankStates'[r][b] \in BankTypes
    BY TickBanks DEF ChannelTyped, Watched
  <2>2. \A r \in Ranks : \A b \in Banks :
          bankStates'[r][b].nextRead \in Nat /\ bankStates'[r][b].nextWrite \in Nat
    BY <2>1 DEF BankTypes
  <2>3. \A r \in Ranks : \A b \in Banks :
          /\ bankStates'[r][b].nextRead + 1 >= bankStates[r][b].nextRead + 0
          /\ bankStates'[r][b].nextWrite + 1 >= bankStates[r][b].nextWrite + 0
    BY <2>1, <2>2, TimeTypes
  <2> QED
    BY <1>2, <2>1, <2>3 DEF BanksWait
<1> QED
  BY <1>2, <1>3, <1>4, DataApartKept

(* A command is sent only when its bank allows it.                         *)
Granted(c) ==
  /\ c.type = "READ" => \E b \in Banks : Watched(c.rank, b) /\ bankStates[c.rank][b].nextRead = 0
  /\ c.type = "WRITE" => \E b \in Banks : Watched(c.rank, b) /\ bankStates[c.rank][b].nextWrite = 0

(* The burst a command brings.                                             *)
NewSlot(c, l, x) ==
  \/ c.type = "READ" /\ l = c.rank /\ x = tCMD + RL
  \/ c.type = "WRITE" /\ l = NUM_RANKS /\ x = WL

(* Where in the cycle commands are sent.                                   *)
CommandPhase ==
  /\ Ticked = 0 /\ Ticked' = 0 /\ Lag = 1 /\ Lag' = 0 /\ Ranked = 0 /\ Ranked' = 0
  /\ UNCHANGED << readReturn, rankData, outgoingData >>

(* After a command there are the bursts from before, and its own.          *)
LEMMA SlotsAfterCommand ==
  ASSUME ChannelTyped, CommandPhase, NEW c \in Commands, UpdateCommandQueue(c),
         NEW l \in Lanes, NEW x \in Int, Slot(l, x)'
  PROVE  Slot(l, x) \/ NewSlot(c, l, x)
<1>1. /\ outgoingCmd' # << >> /\ outgoingCmd'[1].cyclesLeft = tCMD
      /\ outgoingCmd'[1].cmd = c
      /\ writeData' = IF c.type = "WRITE"
                        THEN Append(writeData, [trans |-> c.trans, countdown |-> WL])
                        ELSE writeData
  BY DEF UpdateCommandQueue
<1>2. CASE l = NUM_RANKS
  <2>1. StartsAt(writeData', outgoingData, x + 0)
    BY <1>2 DEF CommandPhase, Slot, WriteSlot, StartsAt
  <2>2. CASE c.type = "WRITE"
    <3> DEFINE e == [trans |-> c.trans, countdown |-> WL]
    <3>1. e \in Latencies /\ e.countdown = WL
      BY <2>2, CommandParts, LaneParts DEF Latencies
    <3>2. IsLine(writeData, outgoingData)
      BY DEF ChannelTyped, BusesTyped
    <3>3. writeData' = Append(writeData, e)
      BY <1>1, <2>2
    <3> HIDE DEF e
    <3>4. StartsAt(writeData, outgoingData, x + 0) \/ x + 0 = WL
      BY <2>1, <3>1, <3>2, <3>3, LineGains
    <3>5. x + 0 = x
      OBVIOUS
    <3> QED
      BY <1>2, <2>2, <3>4, <3>5 DEF CommandPhase, Slot, WriteSlot, NewSlot
  <2>3. CASE c.type # "WRITE"
    BY <1>1, <1>2, <2>1, <2>3 DEF CommandPhase, Slot, WriteSlot
  <2> QED
    BY <2>2, <2>3
<1>3. CASE l # NUM_RANKS
  <2>1. \/ StartsAt(readReturn[l], rankData[l], x)
        \/ c.type = "READ" /\ l = c.rank /\ x = tCMD + RL - 0
    BY <1>1, <1>3 DEF CommandPhase, Slot, ReadSlot, StartsAt, ReadOnBus
  <2>2. tCMD + RL - 0 = tCMD + RL
    BY LaneParts
  <2> QED
    BY <1>3, <2>1, <2>2 DEF Slot, ReadSlot, NewSlot
<1> QED
  BY <1>2, <1>3

(* The burst of a granted command comes after every other on the bus.      *)
LEMMA NewSlotLast ==
  ASSUME ChannelTyped, CommandPhase, DataApart, NEW c \in Commands, Granted(c),
         NEW l \in Lanes, NEW m \in Lanes, l # m, NEW x \in Int, NEW y \in Int,
         NewSlot(c, l, x), Slot(m, y)
  PROVE  y + BurstCycles <= x
<1>1. c.rank \in Ranks /\ c.rank # NUM_RANKS
  BY CommandParts, LaneParts
<1>2. WL \in Int /\ RL \in Int /\ tCMD \in Int /\ BurstCycles \in Int
  BY LaneParts
<1>3. \A b \in Banks : Watched(c.rank, b) =>
        /\ m # c.rank => bankStates[c.rank][b].nextRead >= y + BurstCycles - (tCMD + RL) - 0
        /\ m # NUM_RANKS => bankStates[c.rank][b].nextWrite >= y + BurstCycles - WL - 0
  BY <1>1 DEF DataApart, Clear, BankClear, CommandPhase
<1>4. CASE c.type = "READ" /\ l = c.rank /\ x = tCMD + RL
  <2>1. 0 >= y + BurstCycles - (tCMD + RL) - 0
    BY <1>1, <1>3, <1>4 DEF Granted
  <2> QED
    BY <1>2, <1>4, <2>1
<1>5. CASE c.type = "WRITE" /\ l = NUM_RANKS /\ x = WL
  <2>1. 0 >= y + BurstCycles - WL - 0
    BY <1>1, <1>3, <1>5 DEF Granted
  <2> QED
    BY <1>2, <1>5, <2>1
<1> QED
  BY <1>4, <1>5 DEF NewSlot

(* A granted command keeps bursts apart, and postpones the banks that      *)
(* count so that the next one will.                                        *)
LEMMA DataApartUpdate ==
  ASSUME DataFits, ChannelTyped, ChannelTyped', CommandPhase, DataApart,
         NEW c \in Commands, UpdateCommandQueue(c), Granted(c)
  PROVE  DataApart'
<1>1. /\ WL \in Int /\ RL \in Int /\ tCMD \in Int /\ BurstCycles \in Int
      /\ \A l \in Lanes : Latest(l) \in Int
  BY LaneParts
<1>2. Apart'
  <2> SUFFICES ASSUME NEW l \in Lanes, NEW m \in Lanes, l # m, NEW x \in Int, NEW y \in Int,
                      Slot(l, x)', Slot(m, y)'
               PROVE  x + BurstCycles <= y \/ y + BurstCycles <= x
    BY DEF Apart
  <2>1. (Slot(l, x) \/ NewSlot(c, l, x)) /\ (Slot(m, y) \/ NewSlot(c, m, y))
    BY SlotsAfterCommand
  <2>2. CASE Slot(l, x) /\ Slot(m, y)
    BY <2>2 DEF DataApart, Apart
  <2>3. CASE NewSlot(c, l, x) /\ Slot(m, y)
    BY <2>3, NewSlotLast
  <2>4. CASE NewSlot(c, m, y) /\ Slot(l, x)
    BY <2>4, NewSlotLast
  <2>5. ~(NewSlot(c, l, x) /\ NewSlot(c, m, y))
    BY DEF NewSlot
  <2> QED
    BY <2>1, <2>2, <2>3, <2>4, <2>5
<1>3. InTime'
  <2> SUFFICES ASSUME NEW l \in Lanes, NEW x \in Int, Slot(l, x)'
               PROVE  x <= Latest(l) - Lag'
    BY DEF InTime, Latest
  <2>1. CASE Slot(l, x)
    <3>1. x <= Latest(l) - 1
      BY <2>1 DEF CommandPhase, DataApart, InTime
    <3>2. x <= Latest(l) - 0
      BY <1>1, <3>1
    <3> QED
      BY <3>2 DEF CommandPhase
  <2>2. CASE NewSlot(c, l, x)
    <3>1. x = Latest(l)
      BY <2>2, CommandParts, LaneParts DEF NewSlot, Latest
    <3>2. x <= Latest(l) - 0
      BY <1>1, <3>1
    <3> QED
      BY <3>2 DEF CommandPhase
  <2> QED
    BY <2>1, <2>2, SlotsAfterCommand
<1>4. Clear'
  <2> SUFFICES ASSUME NEW r \in Ranks, NEW b \in Banks, Watched(r, b)',
                      NEW l \in Lanes, NEW x \in Int, Slot(l, x)'
               PROVE  /\ l # r => bankStates'[r][b].nextRead >= x + BurstCycles - (tCMD + RL) - Ticked'
                      /\ l # NUM_RANKS => bankStates'[r][b].nextWrite >= x + BurstCycles - WL - Ticked'
    BY DEF Clear, BankClear
  <2> DEFINE n == bankStates[r][b].nextRead
             w == bankStates[r][b].nextWrite
             n2 == bankStates'[r][b].nextRead
             w2 == bankStates'[r][b].nextWrite
  <2>1. Retimed(c, r, bankStates[r][b], bankStates'[r][b])
    BY BanksAfterCommand DEF UpdateCommandQueue, ChannelTyped
  <2>2. /\ n \in Int /\ w \in Int /\ n2 \in Int /\ w2 \in Int /\ n2 >= n /\ w2 >= w
    BY <2>1, TimeTypes DEF Retimed, Later, BankTypes
  <2>3. \/ Watched(r, b)
        \/ NUM_RANKS # 1 /\ w2 >= tRCDWR - AL /\ n2 >= tRCDRD - AL
    BY <2>1 DEF Retimed, Watched
  <2>4. r = c.rank \/ bankStates'[r][b].state = "RowActive"
    BY CommandParts, LaneParts DEF Watched
  <2>5. /\ c.type = "READ" => n2 >= BurstCycles /\ w2 >= READ_TO_WRITE_DELAY
        /\ c.type = "WRITE" => n2 >= WL + BurstCycles - (tCMD + RL) /\ w2 >= BurstCycles
    BY <2>1, <2>4 DEF Retimed, Separated
  <2>6. ASSUME Slot(l, x), Watched(r, b)
        PROVE  /\ l # r => n >= x + BurstCycles - (tCMD + RL) - 0
               /\ l # NUM_RANKS => w >= x + BurstCycles - WL - 0
    BY <2>6 DEF DataApart, Clear, BankClear, CommandPhase
  <2>7. Slot(l, x) => x <= Latest(l) - 1
    BY DEF DataApart, InTime, CommandPhase
  <2>8. tRCDRD - AL \in Int /\ tRCDWR - AL \in Int
    BY DelayTypes
  <2>9. tRTRS \in Int
    BY TimingAssumption
  <2> HIDE DEF n, w, n2, w2
  <2>10. CASE Slot(l, x) /\ Watched(r, b)
    <3>1. l # r => n2 >= x + BurstCycles - (tCMD + RL) - 0
      BY <1>1, <2>2, <2>6, <2>10
    <3>2. l # NUM_RANKS => w2 >= x + BurstCycles - WL - 0
      BY <1>1, <2>2, <2>6, <2>10
    <3> QED
      BY <3>1, <3>2 DEF CommandPhase, n2, w2
  <2>11. CASE Slot(l, x) /\ ~Watched(r, b)
    <3>1. /\ w2 >= tRCDWR - AL /\ n2 >= tRCDRD - AL
          /\ tRCDWR - AL >= RL + BurstCycles - WL
          /\ tRCDRD - AL >= BurstCycles - 1
          /\ tRCDRD - AL >= WL + BurstCycles - RL - 2
          /\ tCMD = 1
      BY <2>3, <2>11 DEF DataFits
    <3>2. CASE l = NUM_RANKS
      <4>1. x <= WL - 1
        BY <2>7, <2>11, <3>2 DEF Latest
      <4>2. n2 >= x + BurstCycles - (tCMD + RL) - 0
        BY <1>1, <2>2, <2>8, <3>1, <4>1
      <4> QED
        BY <3>2, <4>2 DEF CommandPhase, n2
    <3>3. CASE l # NUM_RANKS
      <4>1. x <= tCMD + RL - 1
        <5>1. Latest(l) = tCMD + RL /\ x <= Latest(l) - 1
          BY <2>7, <2>11, <3>3 DEF Latest
        <5> QED
          BY <1>1, <5>1
      <4>2. n2 >= x + BurstCycles - (tCMD + RL) - 0
        BY <1>1, <2>2, <2>8, <3>1, <4>1
      <4>3. w2 >= x + BurstCycles - WL - 0
        BY <1>1, <2>2, <2>8, <3>1, <4>1
      <4> QED
        BY <4>2, <4>3 DEF CommandPhase, n2, w2
    <3> QED
      BY <3>2, <3>3
  <2>12. CASE c.type = "READ" /\ l = c.rank /\ x = tCMD + RL
    <3>1. n2 >= x + BurstCycles - (tCMD + RL) - 0
      BY <1>1, <2>2, <2>5, <2>12
    <3>2. w2 >= RL + BurstCycles + tRTRS - WL /\ tRTRS >= 1 /\ tCMD = 1
      BY <2>5, <2>12 DEF READ_TO_WRITE_DELAY, DataFits
    <3>3. w2 >= x + BurstCycles - WL - 0
      BY <1>1, <2>2, <2>9, <2>12, <3>2
    <3> QED
      BY <3>1, <3>3 DEF CommandPhase, n2, w2
  <2>13. CASE c.type = "WRITE" /\ l = NUM_RANKS /\ x = WL
    <3>1. n2 >= x + BurstCycles - (tCMD + RL) - 0
      BY <1>1, <2>2, <2>5, <2>13
    <3> QED
      BY <2>13, <3>1 DEF CommandPhase, n2
  <2>14. Slot(l, x) \/ NewSlot(c, l, x)
    BY SlotsAfterCommand
  <2> QED
    BY <2>10, <2>11, <2>12, <2>13, <2>14 DEF NewSlot
<1> QED
  BY <1>2, <1>3, <1>4 DEF DataApart

(* Every command that is sent is granted.                                  *)
LEMMA DataApartCommand ==
  ASSUME DataFits, ChannelTyped, ChannelTyped', DataApart, Command
  PROVE  DataApart'
<1>1. \/ \E r \in Ranks : \E i \in ReadyColumns(r) : SendsColumn(r, i)
      \/ \E c \in Commands : SendsOther(c)
      \/ SendsNone
  BY CommandSteps
<1>2. CommandPhase
  BY DEF Command, SendCommand, rankVars, Ticked, Lag, Ranked, CommandPhase
<1>3. ASSUME NEW r \in Ranks, NEW i \in ReadyColumns(r), SendsColumn(r, i) PROVE DataApart'
  <2> DEFINE t == queues[r][i]
  <2>1. i \in 1 .. Len(queues[r]) /\ ColumnIssuable(t)
    BY DEF ReadyColumns
  <2>2. t \in Transactions
    BY <2>1, ElementOfSeq DEF ChannelTyped, QueuesTyped
  <2>3. UpdateCommandQueue(ColumnCommand(t))
    BY <1>3 DEF SendsColumn
  <2> HIDE DEF t
  <2>4. /\ ColumnCommand(t) \in Commands
        /\ ColumnCommand(t).type = (IF t.type = "DATA_READ" THEN "READ" ELSE "WRITE")
        /\ ColumnCommand(t).rank = t.addr.rank
        /\ t.addr.bank \in Banks
    BY <2>2, ColumnCommandTyped, TransactionParts
  <2>5. /\ bankStates[t.addr.rank][t.addr.bank].state = "RowActive"
        /\ t.type = "DATA_READ" => bankStates[t.addr.rank][t.addr.bank].nextRead = 0
        /\ t.type # "DATA_READ" => bankStates[t.addr.rank][t.addr.bank].nextWrite = 0
    BY <2>1, <2>4 DEF ColumnIssuable
  <2>6. Granted(ColumnCommand(t))
    BY <2>4, <2>5 DEF Granted, Watched
  <2> QED
    BY <1>2, <2>3, <2>4, <2>6, DataApartUpdate
<1>4. ASSUME NEW c \in Commands, SendsOther(c) PROVE DataApart'
  <2>1. UpdateCommandQueue(c) /\ Granted(c)
    BY <1>4 DEF SendsOther, Granted
  <2> QED
    BY <1>2, <2>1, DataApartUpdate
<1>5. CASE SendsNone
  <2>1. SlotsKept
    <3>1. \A l \in Lanes : \A x \in Int : Slot(l, x)' <=> Slot(l, x)
      BY <1>2, <1>5 DEF SendsNone, CommandPhase, Slot, ReadSlot, WriteSlot, StartsAt, ReadOnBus
    <3> QED
      BY <3>1 DEF SlotsKept
  <2>2. BanksWait
    <3>1. \A r \in Ranks : \A b \in Banks :
            /\ Watched(r, b)' => Watched(r, b)
            /\ bankStates'[r][b] = bankStates[r][b]
      BY <1>5 DEF SendsNone, Watched
    <3>2. \A r \in Ranks : \A b \in Banks :
            /\ bankStates[r][b].nextRead + 0 >= bankStates[r][b].nextRead + 0
            /\ bankStates[r][b].nextWrite + 0 >= bankStates[r][b].nextWrite + 0
      BY TimeTypes
    <3> QED
      BY <1>2, <3>1, <3>2 DEF BanksWait, CommandPhase
  <2>3. Lag' <= Lag
    BY <1>2 DEF CommandPhase
  <2> QED
    BY <2>1, <2>2, <2>3, DataApartKept
<1> QED
  BY <1>1, <1>3, <1>4, <1>5

(* At the start there is no burst.                                         *)
LEMMA DataApartInit == Init => DataApart
<1> SUFFICES ASSUME Init PROVE DataApart
  OBVIOUS
<1>1. /\ outgoingCmd = << >> /\ writeData = << >> /\ outgoingData = << >>
      /\ \A r \in Ranks : readReturn[r] = << >> /\ rankData[r] = << >>
  BY DEF Init, ControllerInit, RankInit
<1>2. Len(<< >>) = 0 /\ 1 .. 0 = {}
  BY EmptySeq
<1>3. \A x : ~StartsAt(<< >>, << >>, x)
  BY <1>2 DEF StartsAt
<1>4. \A l \in Lanes : \A x \in Int : ~Slot(l, x)
  <2>1. \A x \in Int : ~WriteSlot(x)
    BY <1>1, <1>3 DEF WriteSlot
  <2>2. \A r \in Ranks : \A x \in Int : ~ReadSlot(r, x)
    BY <1>1, <1>3 DEF ReadSlot, ReadOnBus
  <2> QED
    BY <2>1, <2>2, LaneParts DEF Slot
<1> QED
  BY <1>4 DEF DataApart, Apart, InTime, Clear, BankClear

(* Every step keeps bursts apart.                                          *)
LEMMA DataApartNext ==
  ASSUME DataFits
  PROVE  ChannelTyped /\ ChannelTyped' /\ DataApart /\ [Next]_vars => DataApart'
<1> SUFFICES ASSUME ChannelTyped, ChannelTyped', DataApart, [Next]_vars PROVE DataApart'
  OBVIOUS
<1> USE DEF Lag, Ticked, Ranked
<1>1. CASE ClientStep
  <2>1. ChannelUnchanged /\ phase' = phase
    BY <1>1 DEF ClientStep, AddTransaction, AddBarrier, RunReturns
  <2> QED
    BY <2>1, DataApartIdle DEF ChannelUnchanged, rankVars
<1>2. CASE AcceptPending
  BY <1>2, DataApartIdle DEF AcceptPending, ChannelUnchanged, rankVars
<1>3. CASE RefreshTimers
  BY <1>3, DataApartIdle DEF RefreshTimers, UpdateRefresh
<1>4. CASE Dispatch
  BY <1>4, DataApartIdle DEF Dispatch, UpdateTransactionQueue, rankVars
<1>5. CASE UNCHANGED vars
  BY <1>5, DataApartIdle DEF vars, rankVars, controllerVars
<1> QED
  BY <1>1, <1>2, <1>3, <1>4, <1>5, DataApartBegin, DataApartBus, DataApartCommand,
     DataApartEnd DEF Next, UpdateStep

(* A command spends one cycle on the command bus, and a write that starts  *)
(* finds the data bus free of writes.                                      *)
LEMMA OneCommandNext ==
  ASSUME tCMD = 1
  PROVE  ChannelTyped /\ ReadsSpaced /\ WritesSpaced /\ OneCommand /\ [Next]_vars => OneCommand'
<1> SUFFICES ASSUME ChannelTyped, ReadsSpaced, WritesSpaced, OneCommand, [Next]_vars
             PROVE  OneCommand'
  OBVIOUS
<1>1. CASE ClientStep
  <2>1. ChannelUnchanged /\ phase' = phase
    BY <1>1 DEF ClientStep, AddTransaction, AddBarrier, RunReturns
  <2> QED
    BY <2>1 DEF ChannelUnchanged, OneCommand
<1>2. CASE BeginUpdate \/ AcceptPending
  BY <1>2 DEF BeginUpdate, AcceptPending, ChannelUnchanged, OneCommand
<1>3. CASE Bus
  <2>1. outgoingCmd' = << >>
    <3>1. NothingOnBus \/ StillOnBus \/ \E c \in Commands : Arrives(c)
      BY <1>3, BusSteps DEF ChannelTyped
    <3>2. ~StillOnBus
      <4>1. 1 .. 1 = {1}
        OBVIOUS
      <4> QED
        BY <4>1 DEF StillOnBus, ReadsSpaced, BusTimed
    <3> QED
      BY <3>1, <3>2 DEF NothingOnBus, Arrives
  <2>2. fault' \in {"check", fault}
    BY <1>3, NoCollision DEF Bus, DriveBuses
  <2> QED
    BY <2>1, <2>2 DEF OneCommand
<1>4. CASE RefreshTimers
  BY <1>4 DEF RefreshTimers, UpdateRefresh, OneCommand
<1>5. CASE Command
  <2>1. phase = "command" /\ phase' = "dispatch"
    BY <1>5 DEF Command
  <2>2. outgoingCmd = << >>
    BY <2>1 DEF OneCommand
  <2>3. fault' = fault
    <3>1. \/ \E r \in Ranks : \E i \in ReadyColumns(r) : SendsColumn(r, i)
          \/ \E c \in Commands : SendsOther(c)
          \/ SendsNone
      BY <1>5, CommandSteps
    <3> QED
      BY <2>2, <3>1 DEF SendsColumn, SendsOther, SendsNone, UpdateCommandQueue
  <2> QED
    BY <2>1, <2>3 DEF OneCommand
<1>6. CASE Dispatch
  <2>1. phase' = "return" /\ fault' \in {fault, "enqueue"}
    BY <1>6 DEF Dispatch, UpdateTransactionQueue, Enqueue
  <2> QED
    BY <2>1 DEF OneCommand
<1>7. CASE EndUpdate
  <2>1. phase' = "client" /\ fault' \in {fault, "nomatch"}
    BY <1>7 DEF EndUpdate, ReturnReadData, ReturnNothing, ReturnUnmatched
  <2> QED
    BY <2>1 DEF OneCommand
<1>8. CASE UNCHANGED vars
  BY <1>8 DEF vars, controllerVars, OneCommand
<1> QED
  BY <1>1, <1>2, <1>3, <1>4, <1>5, <1>6, <1>7, <1>8 DEF Next, UpdateStep

(* What the channel maintains for its buses.                               *)
BusesInv == ChannelTyped /\ ReadsSpaced /\ WritesSpaced /\ DataApart /\ OneCommand

(* Two bursts that are on the data bus at once would overlap.              *)
LEMMA BusesInvImplies == ASSUME BusesInv PROVE BusesExclusive
<1>1. ChannelTyped /\ ReadsSpaced /\ WritesSpaced /\ DataApart /\ OneCommand
  BY DEF BusesInv
<1>2. BurstCycles \in Nat /\ NUM_RANKS \in Lanes
  BY LaneParts
<1>3. SUFFICES ASSUME phase = "refresh"
               PROVE  Cardinality({r \in Ranks : rankData[r] # << >>})
                        + Cardinality(ToSet(outgoingData)) <= 1
  BY <1>1 DEF BusesExclusive, OneCommand
<1>4. Ranked = 0
  BY <1>3 DEF Ranked
<1>5. outgoingData \in Seq(BusBursts) /\ IsShort(outgoingData)
  BY <1>1 DEF ChannelTyped, BusesTyped, IsLine
<1> DEFINE Busy == {r \in Ranks : rankData[r] # << >>}
<1>6. ASSUME NEW r \in Busy
      PROVE  \E x \in Int : Slot(r, x) /\ x <= 0 /\ x > 0 - BurstCycles
  <2>1. r \in Ranks /\ rankData[r] # << >> /\ r # NUM_RANKS
    BY LaneParts
  <2>2. rankData[r][1].cyclesLeft >= 1 /\ rankData[r][1].cyclesLeft <= BurstCycles
    BY <1>1, <2>1 DEF ReadsSpaced, RankSpaced, Spaced
  <2>3. rankData[r][1].cyclesLeft \in Int
    <3>1. rankData[r] \in Seq(BusBursts)
      BY <1>1, <2>1 DEF ChannelTyped, ReadLinesTyped, IsLine
    <3>2. rankData[r][1] \in BusBursts
      BY <2>1, <3>1, ShortFront
    <3> QED
      BY <3>2 DEF BusBursts
  <2> DEFINE x == rankData[r][1].cyclesLeft - BurstCycles
  <2>4. Slot(r, x)
    BY <2>1 DEF Slot, ReadSlot, StartsAt
  <2>5. x \in Int /\ x <= 0 /\ x > 0 - BurstCycles
    BY <1>2, <2>2, <2>3
  <2> HIDE DEF x
  <2> QED
    BY <2>4, <2>5
<1>7. ASSUME outgoingData # << >>
      PROVE  \E x \in Int : Slot(NUM_RANKS, x) /\ x <= 0 /\ x > 0 - BurstCycles
  <2>1. outgoingData[1].cyclesLeft >= 1 /\ outgoingData[1].cyclesLeft <= BurstCycles
    BY <1>1, <1>7 DEF WritesSpaced, Spaced
  <2>2. outgoingData[1].cyclesLeft \in Int
    <3>1. outgoingData[1] \in BusBursts
      BY <1>7, <1>5, ShortFront
    <3> QED
      BY <3>1 DEF BusBursts
  <2> DEFINE x == outgoingData[1].cyclesLeft - BurstCycles
  <2>3. x \in Int /\ x <= 0 /\ x > 0 - BurstCycles /\ x + 0 = x
    BY <1>2, <2>1, <2>2
  <2>4. StartsAt(writeData, outgoingData, x)
    BY <1>7 DEF StartsAt
  <2> HIDE DEF x
  <2>5. Slot(NUM_RANKS, x)
    BY <1>4, <2>3, <2>4 DEF Slot, WriteSlot
  <2> QED
    BY <2>3, <2>5
<1>8. ASSUME NEW l \in Lanes, NEW m \in Lanes, l # m,
             \E x \in Int : Slot(l, x) /\ x <= 0 /\ x > 0 - BurstCycles,
             \E y \in Int : Slot(m, y) /\ y <= 0 /\ y > 0 - BurstCycles
      PROVE  FALSE
  <2>1. PICK x \in Int : Slot(l, x) /\ x <= 0 /\ x > 0 - BurstCycles
    BY <1>8
  <2>2. PICK y \in Int : Slot(m, y) /\ y <= 0 /\ y > 0 - BurstCycles
    BY <1>8
  <2>3. x + BurstCycles <= y \/ y + BurstCycles <= x
    BY <1>1, <1>8, <2>1, <2>2 DEF DataApart, Apart
  <2> QED
    BY <1>2, <2>1, <2>2, <2>3
<1>9. Busy \subseteq Lanes /\ \A r \in Busy : r # NUM_RANKS
  BY LaneParts
<1>10. \A r, s \in Busy : r = s
  BY <1>6, <1>8, <1>9
<1>11. outgoingData # << >> => Busy = {}
  BY <1>2, <1>6, <1>7, <1>8, <1>9
<1>12. Cardinality({}) = 0 /\ \A x : Cardinality({x}) = 1
  BY FS_EmptySet, FS_Singleton
<1>13. Busy = {} \/ \E r : Busy = {r}
  BY <1>10
<1>14. ToSet(outgoingData) = {} \/ \E x : ToSet(outgoingData) = {x}
  <2>1. CASE outgoingData = << >>
    BY <2>1, EmptyMember
  <2>2. CASE outgoingData # << >>
    <3>1. \A w : w \in ToSet(outgoingData) <=> w = outgoingData[1]
      BY <1>5, <2>2, ShortMember
    <3> QED
      BY <3>1
  <2> QED
    BY <2>1, <2>2
<1>15. outgoingData = << >> => ToSet(outgoingData) = {}
  BY EmptyMember
<1> HIDE DEF Busy
<1>16. CASE Busy = {}
  <2>1. Cardinality(Busy) = 0 /\ Cardinality(ToSet(outgoingData)) \in {0, 1}
    BY <1>12, <1>14, <1>16
  <2> QED
    BY <2>1 DEF Busy
<1>17. CASE Busy # {}
  <2>1. Cardinality(Busy) = 1 /\ Cardinality(ToSet(outgoingData)) = 0
    BY <1>11, <1>12, <1>13, <1>15, <1>17
  <2> QED
    BY <2>1 DEF Busy
<1> QED
  BY <1>16, <1>17

(* At most one burst is on the data bus and one command on the command     *)
(* bus, in every cycle, whatever the geometry, the policy, the queues and  *)
(* the client, when the timing fits.                                       *)
THEOREM BusesExclusiveAlways ==
  ASSUME DataFits
  PROVE  Spec => []BusesExclusive
<1>1. Init => BusesInv
  <2>1. Init => OneCommand
    BY DEF Init, RankInit, ControllerInit, OneCommand
  <2> QED
    BY <2>1, ChannelTypedInit, ReadsSpacedInit, WritesSpacedInit, DataApartInit DEF BusesInv
<1>2. BusesInv /\ [Next]_vars => BusesInv'
  <2>1. tCMD = 1 /\ tRCDWR - AL + 1 >= BurstCycles
    BY DEF DataFits
  <2> QED
    BY <2>1, ChannelTypedNext, ReadsSpacedNext, WritesSpacedNext, DataApartNext, OneCommandNext
       DEF BusesInv
<1>3. BusesInv => BusesExclusive
  BY BusesInvImplies
<1> QED
  BY <1>1, <1>2, <1>3, PTL DEF Spec

-----------------------------------------------------------------------------

(* What a rank and the controller make of a command.                       *)

(* The client addresses rows of cells only, none of the rows that          *)
(* configure the PIM blocks.                                               *)
PlainRows == \A a \in Addresses : ~IsReservedRA(a.row)

(* What a bank of a rank holds.                                            *)
RankBankTypes ==
  [ state : {"Idle", "RowActive"}, row : Nat, nextRead : Nat, nextWrite : Nat,
    nextPrecharge : Nat, nextActivate : Nat ]

(* What a bank k of number b becomes when its rank receives a command.     *)
Received(c, b, k) == UpdateBank(k, c.type, c.row, b = c.bank, SameBankgroup(b, c.bank))

(* The least times a command leaves bank b with.                           *)
Demand(c, b) == Received(c, b, IdleRankBank)

(* The state and the row of a bank once a command has been received.       *)
Opened(c, b, k) ==
  CASE c.type = "ACTIVATE" /\ b = c.bank  -> [state |-> "RowActive", row |-> c.row]
    [] c.type = "PRECHARGE" /\ b = c.bank -> [state |-> "Idle", row |-> k.row]
    [] OTHER                              -> [state |-> k.state, row |-> k.row]

(* The controller takes a row for open exactly if it is.                   *)
SameRow(k, s) ==
  /\ s.state = "RowActive" <=> k.state = "RowActive"
  /\ s.state = "RowActive" => s.row = k.row

(* No time of the rank is more than d cycles later than the one the        *)
(* controller reckons with.                                                *)
Within(k, s, d) ==
  /\ k.nextRead <= s.nextRead + d /\ k.nextWrite <= s.nextWrite + d
  /\ k.nextPrecharge <= s.nextPrecharge + d

(* A postponement adds nothing to the times of before and the demand of    *)
(* the command.                                                            *)
NoLater(a, k, d) ==
  /\ a.nextRead <= k.nextRead \/ a.nextRead <= d.nextRead
  /\ a.nextWrite <= k.nextWrite \/ a.nextWrite <= d.nextWrite
  /\ a.nextPrecharge <= k.nextPrecharge \/ a.nextPrecharge <= d.nextPrecharge

(* From a write to a read in another bank group the rank waits no longer   *)
(* than in the same, where tWTRS <= tWTRL.                                 *)
LEMMA ShortDelay == tWTRS <= tWTRL => /\ WRITE_TO_READ_DELAY_B_SHORT \in Nat
                                      /\ WRITE_TO_READ_DELAY_B_SHORT <= WRITE_TO_READ_DELAY_B_LONG
<1>1. WL \in Nat /\ tWTRS \in Nat /\ tWTRL \in Nat
  BY TimingAssumption
<1>2. BurstCycles \in Nat
  BY BurstLength
<1> QED
  BY <1>1, <1>2 DEF WRITE_TO_READ_DELAY_B_SHORT, WRITE_TO_READ_DELAY_B_LONG

(* That wait is a number of cycles.                                        *)
LEMMA ShortDelayType == WRITE_TO_READ_DELAY_B_SHORT \in Nat
<1>1. WL \in Nat /\ tWTRS \in Nat
  BY TimingAssumption
<1>2. BurstCycles \in Nat
  BY BurstLength
<1> QED
  BY <1>1, <1>2 DEF WRITE_TO_READ_DELAY_B_SHORT

(* max() is one of its arguments.                                          *)
LEMMA PostponeEither ==
  ASSUME NEW a \in Nat, NEW b \in Nat
  PROVE  /\ Postpone(a, b) \in Nat
         /\ Postpone(a, b) <= a \/ Postpone(a, b) <= b
         /\ Postpone(0, b) = b
         /\ a <= a
  BY DEF Postpone, Larger

(* What a bank of a rank may be after a command: its times are those of    *)
(* before or the demand.                                                   *)
RankBankAfter(c, b, k, a) ==
  /\ a \in RankBankTypes
  /\ a.state = Opened(c, b, k).state /\ a.row = Opened(c, b, k).row
  /\ NoLater(a, k, Demand(c, b))
  /\ \/ a.nextActivate <= Demand(c, b).nextActivate
     \/ c.type # "REF" /\ a.nextActivate <= k.nextActivate

(* The bank the simulation starts with.                                    *)
LEMMA IdleTyped == IdleRankBank \in RankBankTypes
  BY DEF IdleRankBank, RankBankTypes

(* What a rank does with a command.                                        *)
LEMMA RankBank ==
  ASSUME NEW c \in Commands, NEW b \in Banks, NEW k \in RankBankTypes
  PROVE  RankBankAfter(c, b, k, Received(c, b, k))
<1> DEFINE g == SameBankgroup(b, c.bank)
           u(x) == Received(c, b, x)
           a == u(k)
           d == u(IdleRankBank)
<1>1. /\ c.type \in {"ACTIVATE", "PRECHARGE", "REF", "READ", "WRITE"}
      /\ c.row \in Nat /\ g \in BOOLEAN
  BY CommandParts DEF SameBankgroup
<1>2. /\ k.nextRead \in Nat /\ k.nextWrite \in Nat /\ k.nextPrecharge \in Nat
      /\ k.nextActivate \in Nat /\ k.row \in Nat /\ k.state \in {"Idle", "RowActive"}
  BY DEF RankBankTypes
<1>3. /\ IdleRankBank.nextRead = 0 /\ IdleRankBank.nextWrite = 0
      /\ IdleRankBank.nextPrecharge = 0 /\ IdleRankBank.nextActivate = 0
      /\ IdleRankBank \in RankBankTypes
  BY IdleTyped DEF IdleRankBank
<1>4. /\ READ_TO_PRE_DELAY \in Nat /\ WRITE_TO_PRE_DELAY \in Nat
      /\ READ_TO_WRITE_DELAY \in Nat /\ WRITE_TO_READ_DELAY_B_LONG \in Nat
      /\ WRITE_TO_READ_DELAY_B_SHORT \in Nat
      /\ ColumnDelay(g) \in Nat /\ ActivateDelay(g) \in Nat
      /\ tRCDRD - AL \in Nat /\ tRCDWR - AL \in Nat
      /\ tRC \in Nat /\ tRAS \in Nat /\ tRP \in Nat /\ tRFC \in Nat
  BY <1>1, DelayTypes, ShortDelayType
<1>5. \A n \in Nat : \A t \in Nat : /\ Postpone(n, t) \in Nat
                                    /\ Postpone(n, t) <= n \/ Postpone(n, t) <= t
                                    /\ Postpone(0, t) = t /\ n <= n
  BY PostponeEither
<1>6. \A n \in Nat : n <= n
  OBVIOUS
<1> DEFINE toWrite == IF g THEN WRITE_TO_READ_DELAY_B_LONG ELSE WRITE_TO_READ_DELAY_B_SHORT
<1>7. toWrite \in Nat
  BY <1>1, <1>4
<1> HIDE DEF g, toWrite
<1>8. Demand(c, b) = d
  BY DEF Demand
<1>9. CASE c.type = "READ"
  <2>1. \A x : u(x) = [x EXCEPT !.nextPrecharge = IF b = c.bank THEN Postpone(@, READ_TO_PRE_DELAY) ELSE @,
                        !.nextRead = Postpone(@, ColumnDelay(g)),
                        !.nextWrite = Postpone(@, READ_TO_WRITE_DELAY)]
    BY <1>9 DEF Received, UpdateBank, g
  <2>2. Opened(c, b, k).state = k.state /\ Opened(c, b, k).row = k.row
    BY <1>9 DEF Opened
  <2> HIDE DEF u
  <2>3. /\ d.nextRead = ColumnDelay(g) /\ d.nextWrite = READ_TO_WRITE_DELAY
        /\ d.nextPrecharge = IF b = c.bank THEN READ_TO_PRE_DELAY ELSE 0
    BY <1>3, <1>4, <1>5, <2>1 DEF RankBankTypes
  <2>4. /\ a.nextRead = Postpone(k.nextRead, ColumnDelay(g))
        /\ a.nextWrite = Postpone(k.nextWrite, READ_TO_WRITE_DELAY)
        /\ a.nextPrecharge = IF b = c.bank THEN Postpone(k.nextPrecharge, READ_TO_PRE_DELAY)
                                           ELSE k.nextPrecharge
        /\ a.nextActivate = k.nextActivate /\ a.state = k.state /\ a.row = k.row
    BY <2>1 DEF RankBankTypes
  <2>5. a \in RankBankTypes
    BY <1>2, <1>4, <1>5, <2>1 DEF RankBankTypes
  <2> HIDE DEF a, d
  <2>6. /\ Postpone(k.nextRead, ColumnDelay(g)) <= k.nextRead
           \/ Postpone(k.nextRead, ColumnDelay(g)) <= ColumnDelay(g)
        /\ Postpone(k.nextWrite, READ_TO_WRITE_DELAY) <= k.nextWrite
           \/ Postpone(k.nextWrite, READ_TO_WRITE_DELAY) <= READ_TO_WRITE_DELAY
        /\ Postpone(k.nextPrecharge, READ_TO_PRE_DELAY) <= k.nextPrecharge
           \/ Postpone(k.nextPrecharge, READ_TO_PRE_DELAY) <= READ_TO_PRE_DELAY
    BY <1>2, <1>4, <1>5
  <2>7. a.nextPrecharge <= k.nextPrecharge \/ a.nextPrecharge <= d.nextPrecharge
    <3>1. CASE b = c.bank
      BY <2>3, <2>4, <2>6, <3>1
    <3>2. CASE b # c.bank
      BY <1>2, <1>6, <2>4, <3>2
    <3> QED
      BY <3>1, <3>2
  <2>8. NoLater(a, k, d)
    BY <2>3, <2>4, <2>6, <2>7 DEF NoLater
  <2>9. c.type # "REF" /\ a.nextActivate <= k.nextActivate
    BY <1>2, <1>6, <1>9, <2>4
  <2> QED
    BY <1>8, <2>2, <2>4, <2>5, <2>8, <2>9 DEF RankBankAfter, a, u
<1>10. CASE c.type = "WRITE"
  <2>1. \A x : u(x) = [x EXCEPT !.nextPrecharge = IF b = c.bank THEN Postpone(@, WRITE_TO_PRE_DELAY) ELSE @,
                        !.nextRead = Postpone(@, toWrite),
                        !.nextWrite = Postpone(@, ColumnDelay(g))]
    BY <1>10 DEF Received, UpdateBank, g, toWrite
  <2>2. Opened(c, b, k).state = k.state /\ Opened(c, b, k).row = k.row
    BY <1>10 DEF Opened
  <2> HIDE DEF u
  <2>3. /\ d.nextRead = toWrite /\ d.nextWrite = ColumnDelay(g)
        /\ d.nextPrecharge = IF b = c.bank THEN WRITE_TO_PRE_DELAY ELSE 0
    BY <1>3, <1>4, <1>5, <1>7, <2>1 DEF RankBankTypes
  <2>4. /\ a.nextRead = Postpone(k.nextRead, toWrite)
        /\ a.nextWrite = Postpone(k.nextWrite, ColumnDelay(g))
        /\ a.nextPrecharge = IF b = c.bank THEN Postpone(k.nextPrecharge, WRITE_TO_PRE_DELAY)
                                           ELSE k.nextPrecharge
        /\ a.nextActivate = k.nextActivate /\ a.state = k.state /\ a.row = k.row
    BY <2>1 DEF RankBankTypes
  <2>5. a \in RankBankTypes
    BY <1>2, <1>4, <1>5, <1>7, <2>1 DEF RankBankTypes
  <2> HIDE DEF a, d
  <2>6. /\ Postpone(k.nextRead, toWrite) <= k.nextRead \/ Postpone(k.nextRead, toWrite) <= toWrite
        /\ Postpone(k.nextWrite, ColumnDelay(g)) <= k.nextWrite
           \/ Postpone(k.nextWrite, ColumnDelay(g)) <= ColumnDelay(g)
        /\ Postpone(k.nextPrecharge, WRITE_TO_PRE_DELAY) <= k.nextPrecharge
           \/ Postpone(k.nextPrecharge, WRITE_TO_PRE_DELAY) <= WRITE_TO_PRE_DELAY
    BY <1>2, <1>4, <1>5, <1>7
  <2>7. a.nextPrecharge <= k.nextPrecharge \/ a.nextPrecharge <= d.nextPrecharge
    <3>1. CASE b = c.bank
      BY <2>3, <2>4, <2>6, <3>1
    <3>2. CASE b # c.bank
      BY <1>2, <1>6, <2>4, <3>2
    <3> QED
      BY <3>1, <3>2
  <2>8. NoLater(a, k, d)
    BY <2>3, <2>4, <2>6, <2>7 DEF NoLater
  <2>9. c.type # "REF" /\ a.nextActivate <= k.nextActivate
    BY <1>2, <1>6, <1>10, <2>4
  <2> QED
    BY <1>8, <2>2, <2>4, <2>5, <2>8, <2>9 DEF RankBankAfter, a, u
<1>11. CASE c.type = "ACTIVATE" /\ b = c.bank
  <2>1. \A x : u(x) = [ state |-> "RowActive", row |-> c.row,
                        nextRead |-> tRCDRD - AL, nextWrite |-> tRCDWR - AL,
                        nextPrecharge |-> tRAS, nextActivate |-> tRC ]
    BY <1>11 DEF Received, UpdateBank
  <2>2. Opened(c, b, k).state = "RowActive" /\ Opened(c, b, k).row = c.row
    BY <1>11 DEF Opened
  <2> HIDE DEF u
  <2>3. a = d /\ a \in RankBankTypes /\ a.state = "RowActive" /\ a.row = c.row
    BY <1>1, <1>4, <2>1 DEF RankBankTypes
  <2> HIDE DEF a, d
  <2>4. a.nextRead \in Nat /\ a.nextWrite \in Nat /\ a.nextPrecharge \in Nat /\ a.nextActivate \in Nat
    BY <2>3 DEF RankBankTypes
  <2>5. NoLater(a, k, d) /\ a.nextActivate <= d.nextActivate
    BY <1>6, <2>3, <2>4 DEF NoLater
  <2> QED
    BY <1>8, <2>2, <2>3, <2>5 DEF RankBankAfter, a, u
<1>12. CASE c.type = "ACTIVATE" /\ b # c.bank
  <2>1. \A x : u(x) = [x EXCEPT !.nextActivate = Postpone(@, ActivateDelay(g))]
    BY <1>12 DEF Received, UpdateBank, g
  <2>2. Opened(c, b, k).state = k.state /\ Opened(c, b, k).row = k.row
    BY <1>12 DEF Opened
  <2> HIDE DEF u
  <2>3. d.nextActivate = ActivateDelay(g)
    BY <1>3, <1>4, <1>5, <2>1 DEF RankBankTypes
  <2>4. /\ a.nextRead = k.nextRead /\ a.nextWrite = k.nextWrite /\ a.nextPrecharge = k.nextPrecharge
        /\ a.nextActivate = Postpone(k.nextActivate, ActivateDelay(g))
        /\ a.state = k.state /\ a.row = k.row
    BY <2>1 DEF RankBankTypes
  <2>5. a \in RankBankTypes
    BY <1>2, <1>4, <1>5, <2>1 DEF RankBankTypes
  <2> HIDE DEF a, d
  <2>6. NoLater(a, k, d)
    BY <1>2, <1>6, <2>4 DEF NoLater
  <2>7. a.nextActivate <= k.nextActivate \/ a.nextActivate <= d.nextActivate
    <3>1. \/ Postpone(k.nextActivate, ActivateDelay(g)) <= k.nextActivate
          \/ Postpone(k.nextActivate, ActivateDelay(g)) <= ActivateDelay(g)
      BY <1>2, <1>4, <1>5
    <3> QED
      BY <2>3, <2>4, <3>1
  <2> QED
    BY <1>8, <1>12, <2>2, <2>4, <2>5, <2>6, <2>7 DEF RankBankAfter, a, u
<1>13. CASE c.type = "PRECHARGE" /\ b = c.bank
  <2>1. \A x : u(x) = [x EXCEPT !.state = "Idle", !.nextActivate = Postpone(@, tRP)]
    BY <1>13 DEF Received, UpdateBank
  <2>2. Opened(c, b, k).state = "Idle" /\ Opened(c, b, k).row = k.row
    BY <1>13 DEF Opened
  <2> HIDE DEF u
  <2>3. d.nextActivate = tRP
    BY <1>3, <1>4, <1>5, <2>1 DEF RankBankTypes
  <2>4. /\ a.nextRead = k.nextRead /\ a.nextWrite = k.nextWrite /\ a.nextPrecharge = k.nextPrecharge
        /\ a.nextActivate = Postpone(k.nextActivate, tRP)
        /\ a.state = "Idle" /\ a.row = k.row
    BY <2>1 DEF RankBankTypes
  <2>5. a \in RankBankTypes
    BY <1>2, <1>4, <1>5, <2>1 DEF RankBankTypes
  <2> HIDE DEF a, d
  <2>6. NoLater(a, k, d)
    BY <1>2, <1>6, <2>4 DEF NoLater
  <2>7. a.nextActivate <= k.nextActivate \/ a.nextActivate <= d.nextActivate
    <3>1. Postpone(k.nextActivate, tRP) <= k.nextActivate \/ Postpone(k.nextActivate, tRP) <= tRP
      BY <1>2, <1>4, <1>5
    <3> QED
      BY <2>3, <2>4, <3>1
  <2> QED
    BY <1>8, <1>13, <2>2, <2>4, <2>5, <2>6, <2>7 DEF RankBankAfter, a, u
<1>14. CASE c.type = "PRECHARGE" /\ b # c.bank
  <2>1. a = k
    BY <1>14 DEF Received, UpdateBank
  <2>2. Opened(c, b, k).state = k.state /\ Opened(c, b, k).row = k.row
    BY <1>14 DEF Opened
  <2> HIDE DEF a, d, u
  <2>3. NoLater(a, k, d) /\ a.nextActivate <= k.nextActivate
    BY <1>2, <1>6, <2>1 DEF NoLater
  <2>4. a \in RankBankTypes /\ a.state = k.state /\ a.row = k.row
    BY <2>1
  <2> QED
    BY <1>8, <1>14, <2>2, <2>3, <2>4 DEF RankBankAfter, a, u
<1>15. CASE c.type = "REF"
  <2>1. \A x : u(x) = [x EXCEPT !.nextActivate = tRFC]
    BY <1>15 DEF Received, UpdateBank
  <2>2. Opened(c, b, k).state = k.state /\ Opened(c, b, k).row = k.row
    BY <1>15 DEF Opened
  <2> HIDE DEF u
  <2>3. d.nextActivate = tRFC
    BY <1>3, <2>1 DEF RankBankTypes
  <2>4. /\ a.nextRead = k.nextRead /\ a.nextWrite = k.nextWrite /\ a.nextPrecharge = k.nextPrecharge
        /\ a.nextActivate = tRFC /\ a.state = k.state /\ a.row = k.row
    BY <2>1 DEF RankBankTypes
  <2>5. a \in RankBankTypes
    BY <1>2, <1>4, <2>1 DEF RankBankTypes
  <2> HIDE DEF a, d
  <2>6. NoLater(a, k, d)
    BY <1>2, <1>6, <2>4 DEF NoLater
  <2>7. a.nextActivate <= d.nextActivate
    BY <1>4, <1>6, <2>3, <2>4
  <2> QED
    BY <1>8, <2>2, <2>4, <2>5, <2>6, <2>7 DEF RankBankAfter, a, u
<1> QED
  BY <1>1, <1>9, <1>10, <1>11, <1>12, <1>13, <1>14, <1>15

(* The demand of every command, time by time.                              *)
LEMMA DemandParts ==
  ASSUME NEW c \in Commands, NEW b \in Banks
  PROVE  /\ Demand(c, b) \in RankBankTypes
         /\ c.type = "READ" =>
              /\ Demand(c, b).nextRead = ColumnDelay(SameBankgroup(b, c.bank))
              /\ Demand(c, b).nextWrite = READ_TO_WRITE_DELAY
              /\ Demand(c, b).nextPrecharge = (IF b = c.bank THEN READ_TO_PRE_DELAY ELSE 0)
              /\ Demand(c, b).nextActivate = 0
         /\ c.type = "WRITE" =>
              /\ Demand(c, b).nextRead = (IF SameBankgroup(b, c.bank) THEN WRITE_TO_READ_DELAY_B_LONG
                                                                   ELSE WRITE_TO_READ_DELAY_B_SHORT)
              /\ Demand(c, b).nextWrite = ColumnDelay(SameBankgroup(b, c.bank))
              /\ Demand(c, b).nextPrecharge = (IF b = c.bank THEN WRITE_TO_PRE_DELAY ELSE 0)
              /\ Demand(c, b).nextActivate = 0
         /\ c.type = "ACTIVATE" /\ b = c.bank =>
              /\ Demand(c, b).nextRead = tRCDRD - AL
              /\ Demand(c, b).nextWrite = tRCDWR - AL
              /\ Demand(c, b).nextPrecharge = tRAS
              /\ Demand(c, b).nextActivate = tRC
         /\ c.type \in {"ACTIVATE", "PRECHARGE", "REF"} /\ ~(c.type = "ACTIVATE" /\ b = c.bank) =>
              /\ Demand(c, b).nextRead = 0
              /\ Demand(c, b).nextWrite = 0
              /\ Demand(c, b).nextPrecharge = 0
              /\ Demand(c, b).nextActivate =
                   (IF c.type = "ACTIVATE" THEN ActivateDelay(SameBankgroup(b, c.bank))
                    ELSE IF c.type = "REF" THEN tRFC
                    ELSE IF b = c.bank THEN tRP ELSE 0)
<1> DEFINE g == SameBankgroup(b, c.bank)
           z == IdleRankBank
           d == Demand(c, b)
<1>1. /\ c.type \in {"ACTIVATE", "PRECHARGE", "REF", "READ", "WRITE"} /\ g \in BOOLEAN
  BY CommandParts DEF SameBankgroup
<1>2. \A t \in Nat : Postpone(0, t) = t
  BY PostponeEither
<1>3. /\ READ_TO_PRE_DELAY \in Nat /\ WRITE_TO_PRE_DELAY \in Nat
      /\ READ_TO_WRITE_DELAY \in Nat /\ WRITE_TO_READ_DELAY_B_LONG \in Nat
      /\ WRITE_TO_READ_DELAY_B_SHORT \in Nat
      /\ ColumnDelay(g) \in Nat /\ ActivateDelay(g) \in Nat /\ tRP \in Nat
  BY <1>1, DelayTypes, ShortDelayType
<1>4. d \in RankBankTypes
  BY RankBank, IdleTyped DEF RankBankAfter, Demand
<1>5. z = [ state |-> "Idle", row |-> 0, nextRead |-> 0, nextWrite |-> 0,
            nextPrecharge |-> 0, nextActivate |-> 0 ]
  BY DEF IdleRankBank
<1> DEFINE rd == ColumnDelay(g)
           tw == IF g THEN WRITE_TO_READ_DELAY_B_LONG ELSE WRITE_TO_READ_DELAY_B_SHORT
           ad == ActivateDelay(g)
<1>6. tw \in Nat
  BY <1>1, <1>3
<1>7. d = UpdateBank(z, c.type, c.row, b = c.bank, g)
  BY DEF Demand, Received
<1> HIDE DEF z, d
<1>8. CASE c.type = "READ"
  <2>1. d = [z EXCEPT !.nextPrecharge = IF b = c.bank THEN Postpone(@, READ_TO_PRE_DELAY) ELSE @,
                      !.nextRead = Postpone(@, rd), !.nextWrite = Postpone(@, READ_TO_WRITE_DELAY)]
    BY <1>7, <1>8 DEF UpdateBank
  <2> HIDE DEF rd
  <2>2. /\ d.nextRead = Postpone(0, rd) /\ d.nextWrite = Postpone(0, READ_TO_WRITE_DELAY)
        /\ d.nextPrecharge = (IF b = c.bank THEN Postpone(0, READ_TO_PRE_DELAY) ELSE 0)
        /\ d.nextActivate = 0
    BY <1>5, <2>1
  <2>3. /\ d.nextRead = rd /\ d.nextWrite = READ_TO_WRITE_DELAY
        /\ d.nextPrecharge = (IF b = c.bank THEN READ_TO_PRE_DELAY ELSE 0) /\ d.nextActivate = 0
    BY <1>2, <1>3, <2>2 DEF rd
  <2> QED
    BY <1>4, <1>8, <2>3 DEF d, rd
<1>9. CASE c.type = "WRITE"
  <2>1. d = [z EXCEPT !.nextPrecharge = IF b = c.bank THEN Postpone(@, WRITE_TO_PRE_DELAY) ELSE @,
                      !.nextRead = Postpone(@, tw), !.nextWrite = Postpone(@, rd)]
    BY <1>7, <1>9 DEF UpdateBank
  <2> HIDE DEF rd, tw
  <2>2. /\ d.nextRead = Postpone(0, tw) /\ d.nextWrite = Postpone(0, rd)
        /\ d.nextPrecharge = (IF b = c.bank THEN Postpone(0, WRITE_TO_PRE_DELAY) ELSE 0)
        /\ d.nextActivate = 0
    BY <1>5, <2>1
  <2>3. /\ d.nextRead = tw /\ d.nextWrite = rd
        /\ d.nextPrecharge = (IF b = c.bank THEN WRITE_TO_PRE_DELAY ELSE 0) /\ d.nextActivate = 0
    BY <1>2, <1>3, <1>6, <2>2 DEF rd
  <2> QED
    BY <1>4, <1>9, <2>3 DEF d, rd, tw
<1>10. CASE c.type = "ACTIVATE" /\ b = c.bank
  <2>1. d = [ state |-> "RowActive", row |-> c.row, nextRead |-> tRCDRD - AL,
              nextWrite |-> tRCDWR - AL, nextPrecharge |-> tRAS, nextActivate |-> tRC ]
    BY <1>7, <1>10 DEF UpdateBank
  <2>2. /\ d.nextRead = tRCDRD - AL /\ d.nextWrite = tRCDWR - AL
        /\ d.nextPrecharge = tRAS /\ d.nextActivate = tRC
    BY <2>1
  <2> QED
    BY <1>4, <1>10, <2>2 DEF d
<1>11. CASE c.type = "ACTIVATE" /\ b # c.bank
  <2>1. d = [z EXCEPT !.nextActivate = Postpone(@, ad)]
    BY <1>7, <1>11 DEF UpdateBank
  <2> HIDE DEF ad
  <2>2. /\ d.nextRead = 0 /\ d.nextWrite = 0 /\ d.nextPrecharge = 0
        /\ d.nextActivate = Postpone(0, ad)
    BY <1>5, <2>1
  <2>3. d.nextActivate = ad
    BY <1>2, <1>3, <2>2 DEF ad
  <2> QED
    BY <1>4, <1>11, <2>2, <2>3 DEF d, ad
<1>12. CASE c.type = "PRECHARGE" /\ b = c.bank
  <2>1. d = [z EXCEPT !.state = "Idle", !.nextActivate = Postpone(@, tRP)]
    BY <1>7, <1>12 DEF UpdateBank
  <2>2. /\ d.nextRead = 0 /\ d.nextWrite = 0 /\ d.nextPrecharge = 0
        /\ d.nextActivate = Postpone(0, tRP)
    BY <1>5, <2>1
  <2>3. d.nextActivate = tRP
    BY <1>2, <1>3, <2>2
  <2> QED
    BY <1>4, <1>12, <2>2, <2>3 DEF d
<1>13. CASE c.type = "PRECHARGE" /\ b # c.bank
  <2>1. d = z
    BY <1>7, <1>13 DEF UpdateBank
  <2>2. /\ d.nextRead = 0 /\ d.nextWrite = 0 /\ d.nextPrecharge = 0 /\ d.nextActivate = 0
    BY <1>5, <2>1
  <2> QED
    BY <1>4, <1>13, <2>2 DEF d
<1>14. CASE c.type = "REF"
  <2>1. d = [z EXCEPT !.nextActivate = tRFC]
    BY <1>7, <1>14 DEF UpdateBank
  <2>2. /\ d.nextRead = 0 /\ d.nextWrite = 0 /\ d.nextPrecharge = 0 /\ d.nextActivate = tRFC
    BY <1>5, <2>1
  <2> QED
    BY <1>4, <1>14, <2>2 DEF d
<1> QED
  BY <1>1, <1>8, <1>9, <1>10, <1>11, <1>12, <1>13, <1>14

(* The times of a bank of the controller only grow.                        *)
Postponed(s, a) ==
  /\ a.nextRead >= s.nextRead /\ a.nextWrite >= s.nextWrite
  /\ a.nextPrecharge >= s.nextPrecharge /\ a.nextActivate >= s.nextActivate

(* A row stays open, or closed.                                            *)
SameState(s, a) == a.state = s.state /\ a.row = s.row /\ a.countdown = s.countdown

(* A bank of the controller waits as long as demanded.                     *)
Meets(d, a) ==
  /\ d.nextRead <= a.nextRead /\ d.nextWrite <= a.nextWrite
  /\ d.nextPrecharge <= a.nextPrecharge /\ d.nextActivate <= a.nextActivate

(* The parts of a bank of the controller.                                  *)
LEMMA BankTimes ==
  ASSUME NEW s \in BankTypes
  PROVE  /\ s.nextRead \in Nat /\ s.nextWrite \in Nat /\ s.nextPrecharge \in Nat
         /\ s.nextActivate \in Nat /\ s.row \in Nat /\ s.countdown \in Nat
         /\ s.state \in {"Idle", "RowActive", "Precharging", "Refreshing"}
         /\ Postponed(s, s) /\ SameState(s, s)
<1>1. /\ s.nextRead \in Nat /\ s.nextWrite \in Nat /\ s.nextPrecharge \in Nat
      /\ s.nextActivate \in Nat /\ s.row \in Nat /\ s.countdown \in Nat
      /\ s.state \in {"Idle", "RowActive", "Precharging", "Refreshing"}
  BY DEF BankTypes
<1> QED
  BY <1>1 DEF Postponed, SameState

(* setBankStatesRW only postpones, reads and writes.                       *)
LEMMA ReadWriteMoved ==
  ASSUME NEW s \in BankTypes, NEW read \in Nat, NEW write \in Nat
  PROVE  /\ ReadWriteAfter(s, read, write) \in BankTypes
         /\ Postponed(s, ReadWriteAfter(s, read, write))
         /\ SameState(s, ReadWriteAfter(s, read, write))
         /\ ReadWriteAfter(s, read, write).nextRead >= read
         /\ ReadWriteAfter(s, read, write).nextWrite >= write
<1>1. /\ s.nextRead \in Nat /\ s.nextWrite \in Nat /\ s.nextPrecharge \in Nat
      /\ s.nextActivate \in Nat
      /\ s.nextPrecharge >= s.nextPrecharge /\ s.nextActivate >= s.nextActivate
  BY BankTimes DEF Postponed
<1>2. /\ Postpone(s.nextRead, read) \in Nat /\ Postpone(s.nextRead, read) >= s.nextRead
      /\ Postpone(s.nextRead, read) >= read
      /\ Postpone(s.nextWrite, write) \in Nat /\ Postpone(s.nextWrite, write) >= s.nextWrite
      /\ Postpone(s.nextWrite, write) >= write
  BY <1>1, PostponeUp
<1> DEFINE a == ReadWriteAfter(s, read, write)
<1>3. /\ a \in BankTypes /\ a.state = s.state /\ a.row = s.row /\ a.countdown = s.countdown
      /\ a.nextRead = Postpone(s.nextRead, read) /\ a.nextWrite = Postpone(s.nextWrite, write)
      /\ a.nextPrecharge = s.nextPrecharge /\ a.nextActivate = s.nextActivate
  BY <1>2 DEF ReadWriteAfter, BankTypes
<1> HIDE DEF a
<1>4. /\ a.nextRead >= s.nextRead /\ a.nextWrite >= s.nextWrite
      /\ a.nextPrecharge >= s.nextPrecharge /\ a.nextActivate >= s.nextActivate
      /\ a.nextRead >= read /\ a.nextWrite >= write
  BY <1>1, <1>2, <1>3
<1> QED
  BY <1>3, <1>4 DEF Postponed, SameState, a

(* So does postponing a PRECHARGE, or an ACTIVATE.                         *)
LEMMA PrechargeMoved ==
  ASSUME NEW s \in BankTypes, NEW d \in Nat
  PROVE  /\ [s EXCEPT !.nextPrecharge = Postpone(@, d)] \in BankTypes
         /\ Postponed(s, [s EXCEPT !.nextPrecharge = Postpone(@, d)])
         /\ SameState(s, [s EXCEPT !.nextPrecharge = Postpone(@, d)])
         /\ [s EXCEPT !.nextPrecharge = Postpone(@, d)].nextPrecharge >= d
         /\ [s EXCEPT !.nextActivate = Postpone(@, d)] \in BankTypes
         /\ Postponed(s, [s EXCEPT !.nextActivate = Postpone(@, d)])
         /\ SameState(s, [s EXCEPT !.nextActivate = Postpone(@, d)])
         /\ [s EXCEPT !.nextActivate = Postpone(@, d)].nextActivate >= d
<1>1. /\ s.nextRead \in Nat /\ s.nextWrite \in Nat /\ s.nextPrecharge \in Nat
      /\ s.nextActivate \in Nat
      /\ s.nextRead >= s.nextRead /\ s.nextWrite >= s.nextWrite
      /\ s.nextPrecharge >= s.nextPrecharge /\ s.nextActivate >= s.nextActivate
  BY BankTimes DEF Postponed
<1>2. \A n \in Nat : Postpone(n, d) \in Nat /\ Postpone(n, d) >= n /\ Postpone(n, d) >= d
  BY PostponeUp
<1> DEFINE p == [s EXCEPT !.nextPrecharge = Postpone(@, d)]
           q == [s EXCEPT !.nextActivate = Postpone(@, d)]
<1>3. /\ p \in BankTypes /\ p.state = s.state /\ p.row = s.row /\ p.countdown = s.countdown
      /\ p.nextRead = s.nextRead /\ p.nextWrite = s.nextWrite
      /\ p.nextPrecharge = Postpone(s.nextPrecharge, d) /\ p.nextActivate = s.nextActivate
  BY <1>1, <1>2 DEF BankTypes
<1>4. /\ q \in BankTypes /\ q.state = s.state /\ q.row = s.row /\ q.countdown = s.countdown
      /\ q.nextRead = s.nextRead /\ q.nextWrite = s.nextWrite
      /\ q.nextPrecharge = s.nextPrecharge /\ q.nextActivate = Postpone(s.nextActivate, d)
  BY <1>1, <1>2 DEF BankTypes
<1> HIDE DEF p, q
<1>5. p.nextPrecharge >= s.nextPrecharge /\ p.nextPrecharge >= d
  BY <1>1, <1>2, <1>3
<1>6. q.nextActivate >= s.nextActivate /\ q.nextActivate >= d
  BY <1>1, <1>2, <1>4
<1>7. Postponed(s, p) /\ Postponed(s, q)
  BY <1>1, <1>3, <1>4, <1>5, <1>6 DEF Postponed
<1> QED
  BY <1>3, <1>4, <1>5, <1>6, <1>7 DEF SameState, p, q

(* What becomes of a bank of the controller at its own rank.               *)
Settled(c, b, s, a) ==
  /\ c.type = "ACTIVATE" /\ b = c.bank =>
       a.state = "RowActive" /\ a.row = c.row /\ a.countdown = s.countdown
  /\ c.type = "PRECHARGE" /\ b = c.bank =>
       a.state = "Precharging" /\ a.row = s.row /\ a.countdown = tRP
  /\ c.type = "REF" => a.state = "Refreshing" /\ a.row = s.row /\ a.countdown = tRFC
  /\ c.type \in {"READ", "WRITE"} \/ (c.type \in {"ACTIVATE", "PRECHARGE"} /\ b # c.bank) =>
       SameState(s, a)

(* What a command does to a bank of the controller: it postpones, by the   *)
(* demand at least.                                                        *)
BankMoved(c, r, b, s, a) ==
  /\ a \in BankTypes
  /\ a.nextRead >= s.nextRead /\ a.nextWrite >= s.nextWrite
  /\ a.nextPrecharge >= s.nextPrecharge
  /\ (r = c.rank /\ c.type = "REF") \/ a.nextActivate >= s.nextActivate
  /\ r # c.rank => SameState(s, a)
  /\ r = c.rank => Settled(c, b, s, a) /\ Meets(Demand(c, b), a)

(* A column command, at a bank of another rank.                            *)
LEMMA OtherRankMoved ==
  ASSUME NEW s \in BankTypes, NEW type \in {"READ", "WRITE"}
  PROVE  /\ OtherRankAfter(s, type) \in BankTypes
         /\ Postponed(s, OtherRankAfter(s, type))
         /\ SameState(s, OtherRankAfter(s, type))
<1> DEFINE a == OtherRankAfter(s, type)
           d == BurstCycles + tRTRS
<1>1. d \in Nat /\ READ_TO_WRITE_DELAY \in Nat /\ WRITE_TO_READ_DELAY_R \in Nat
  BY DelayTypes
<1>2. \/ a = s
      \/ a = ReadWriteAfter(s, d, READ_TO_WRITE_DELAY)
      \/ a = ReadWriteAfter(s, WRITE_TO_READ_DELAY_R, d)
  BY DEF OtherRankAfter
<1> HIDE DEF a, d
<1>3. a \in BankTypes /\ Postponed(s, a) /\ SameState(s, a)
  <2>1. CASE a = s
    BY <2>1, BankTimes
  <2>2. CASE a = ReadWriteAfter(s, d, READ_TO_WRITE_DELAY)
    BY <1>1, <2>2, ReadWriteMoved
  <2>3. CASE a = ReadWriteAfter(s, WRITE_TO_READ_DELAY_R, d)
    BY <1>1, <2>3, ReadWriteMoved
  <2> QED
    BY <1>2, <2>1, <2>2, <2>3
<1> QED
  BY <1>3 DEF a

(* A column command, at any bank.                                          *)
LEMMA ColumnMoved ==
  ASSUME tWTRS <= tWTRL, bankStates \in [Ranks -> [Banks -> BankTypes]],
         NEW c \in Commands, c.type \in {"READ", "WRITE"}, NEW r \in Ranks, NEW b \in Banks
  PROVE  BankMoved(c, r, b, bankStates[r][b], AfterColumn(r, b, c))
<1> DEFINE s == bankStates[r][b]
           g == SameBankgroup(b, c.bank)
           n == SameRankAfter(s, c.type, g)
           e == IF c.type = "READ" THEN READ_TO_PRE_DELAY ELSE WRITE_TO_PRE_DELAY
           d == Demand(c, b)
           a == AfterColumn(r, b, c)
           cd == ColumnDelay(g)
<1>1. s \in BankTypes /\ g \in BOOLEAN
  BY DEF SameBankgroup
<1>2. /\ e \in Nat /\ cd \in Nat /\ READ_TO_WRITE_DELAY \in Nat
      /\ WRITE_TO_READ_DELAY_B_LONG \in Nat
      /\ READ_TO_PRE_DELAY \in Nat /\ WRITE_TO_PRE_DELAY \in Nat
  BY <1>1, DelayTypes
<1>3. CASE r # c.rank
  <2>1. a = OtherRankAfter(s, c.type)
    BY <1>3 DEF AfterColumn
  <2> HIDE DEF a, s
  <2>2. a \in BankTypes /\ Postponed(s, a) /\ SameState(s, a)
    BY <1>1, <2>1, OtherRankMoved
  <2> QED
    BY <1>3, <2>2 DEF BankMoved, Postponed, a, s
<1>4. CASE r = c.rank
  <2>1. a = IF b = c.bank THEN [n EXCEPT !.nextPrecharge = Postpone(@, e)] ELSE n
    BY <1>4 DEF AfterColumn
  <2>2. /\ c.type = "READ" => n = ReadWriteAfter(s, cd, READ_TO_WRITE_DELAY)
        /\ c.type = "WRITE" => n = ReadWriteAfter(s, WRITE_TO_READ_DELAY_B_LONG, cd)
    BY DEF SameRankAfter
  <2>3. /\ c.type = "READ" => e = READ_TO_PRE_DELAY
        /\ c.type = "WRITE" => e = WRITE_TO_PRE_DELAY
    OBVIOUS
  <2>4. /\ d \in RankBankTypes
        /\ c.type = "READ" => d.nextRead = cd /\ d.nextWrite = READ_TO_WRITE_DELAY
        /\ c.type = "WRITE" => d.nextRead <= WRITE_TO_READ_DELAY_B_LONG /\ d.nextWrite = cd
        /\ d.nextPrecharge = (IF b = c.bank THEN e ELSE 0)
        /\ d.nextActivate = 0
    <3>1. WRITE_TO_READ_DELAY_B_SHORT <= WRITE_TO_READ_DELAY_B_LONG
          /\ WRITE_TO_READ_DELAY_B_LONG <= WRITE_TO_READ_DELAY_B_LONG
      BY <1>2, ShortDelay
    <3> QED
      BY <2>3, <3>1, DemandParts
  <2>5. /\ d.nextRead \in Nat /\ d.nextWrite \in Nat
        /\ d.nextPrecharge \in Nat /\ d.nextActivate \in Nat
    BY <2>4 DEF RankBankTypes
  <2> HIDE DEF a, s, g, n, e, d, cd
  <2>6. /\ n \in BankTypes /\ Postponed(s, n) /\ SameState(s, n)
        /\ c.type = "READ" => n.nextRead >= cd /\ n.nextWrite >= READ_TO_WRITE_DELAY
        /\ c.type = "WRITE" => n.nextRead >= WRITE_TO_READ_DELAY_B_LONG /\ n.nextWrite >= cd
    <3>1. CASE c.type = "READ"
      BY <1>1, <1>2, <2>2, <3>1, ReadWriteMoved
    <3>2. CASE c.type = "WRITE"
      BY <1>1, <1>2, <2>2, <3>2, ReadWriteMoved
    <3> QED
      BY <3>1, <3>2
  <2>7. n.nextRead \in Nat /\ n.nextWrite \in Nat /\ n.nextPrecharge \in Nat /\ n.nextActivate \in Nat
    BY <2>6, BankTimes
  <2>8. d.nextRead <= n.nextRead /\ d.nextWrite <= n.nextWrite /\ d.nextActivate <= n.nextActivate
    <3>1. CASE c.type = "READ"
      BY <1>2, <2>4, <2>5, <2>6, <2>7, <3>1
    <3>2. CASE c.type = "WRITE"
      BY <1>2, <2>4, <2>5, <2>6, <2>7, <3>2
    <3> QED
      BY <3>1, <3>2
  <2>9. /\ a \in BankTypes /\ Postponed(n, a) /\ SameState(n, a)
        /\ b = c.bank => a.nextPrecharge >= e
        /\ b # c.bank => a = n
    <3>1. CASE b = c.bank
      <4>1. a = [n EXCEPT !.nextPrecharge = Postpone(@, e)]
        BY <2>1, <3>1
      <4> QED
        BY <1>2, <2>6, <3>1, <4>1, PrechargeMoved
    <3>2. CASE b # c.bank
      BY <2>1, <2>6, <3>2, BankTimes
    <3> QED
      BY <3>1, <3>2
  <2>10. a.nextRead \in Nat /\ a.nextWrite \in Nat /\ a.nextPrecharge \in Nat /\ a.nextActivate \in Nat
    BY <2>9, BankTimes
  <2>11. s.nextRead \in Nat /\ s.nextWrite \in Nat /\ s.nextPrecharge \in Nat /\ s.nextActivate \in Nat
    BY <1>1, BankTimes
  <2>12. Postponed(s, a)
    BY <2>6, <2>7, <2>9, <2>10, <2>11 DEF Postponed
  <2>13. SameState(s, a)
    BY <2>6, <2>9 DEF SameState
  <2>14. Meets(d, a)
    <3>1. /\ d.nextRead <= a.nextRead /\ d.nextWrite <= a.nextWrite
          /\ d.nextActivate <= a.nextActivate
      BY <2>5, <2>7, <2>8, <2>9, <2>10 DEF Postponed
    <3>2. d.nextPrecharge <= a.nextPrecharge
      <4>1. CASE b = c.bank
        BY <1>2, <2>4, <2>9, <2>10, <4>1
      <4>2. CASE b # c.bank
        BY <2>4, <2>10, <4>2
      <4> QED
        BY <4>1, <4>2
    <3> QED
      BY <3>1, <3>2 DEF Meets
  <2>15. Settled(c, b, s, a)
    BY <2>13 DEF Settled
  <2> QED
    BY <1>4, <2>9, <2>12, <2>14, <2>15 DEF BankMoved, Postponed, a, s, d
<1> QED
  BY <1>3, <1>4

(* An ACTIVATE, at the banks of its rank.                                  *)
LEMMA ActivateMoved ==
  ASSUME bankStates \in [Ranks -> [Banks -> BankTypes]],
         NEW c \in Commands, c.type = "ACTIVATE", NEW b \in Banks
  PROVE  BankMoved(c, c.rank, b, bankStates[c.rank][b], AfterActivate(b, c))
<1> DEFINE s == bankStates[c.rank][b]
           a == AfterActivate(b, c)
           d == Demand(c, b)
           ad == ActivateDelay(SameBankgroup(b, c.bank))
           m == ReadWriteAfter(s, tRCDRD - AL, tRCDWR - AL)
<1>1. s \in BankTypes /\ c.row \in Nat /\ c.rank \in Ranks
  BY CommandParts
<1>2. /\ tRCDRD - AL \in Nat /\ tRCDWR - AL \in Nat /\ tRC \in Nat /\ tRAS \in Nat
      /\ ad \in Nat
  BY DelayTypes DEF SameBankgroup
<1>3. /\ d \in RankBankTypes
      /\ b = c.bank => /\ d.nextRead = tRCDRD - AL /\ d.nextWrite = tRCDWR - AL
                       /\ d.nextPrecharge = tRAS /\ d.nextActivate = tRC
      /\ b # c.bank => /\ d.nextRead = 0 /\ d.nextWrite = 0
                       /\ d.nextPrecharge = 0 /\ d.nextActivate = ad
  BY DemandParts
<1>4. s.nextRead \in Nat /\ s.nextWrite \in Nat /\ s.nextPrecharge \in Nat /\ s.nextActivate \in Nat
  BY <1>1, BankTimes
<1>5. CASE b = c.bank
  <2>1. a = [m EXCEPT !.state = "RowActive", !.row = c.row,
               !.nextActivate = Postpone(@, tRC), !.nextPrecharge = Postpone(@, tRAS)]
    BY <1>5 DEF AfterActivate
  <2> HIDE DEF s
  <2>2. /\ m \in BankTypes /\ Postponed(s, m) /\ SameState(s, m)
        /\ m.nextRead >= tRCDRD - AL /\ m.nextWrite >= tRCDWR - AL
    BY <1>1, <1>2, ReadWriteMoved
  <2> HIDE DEF a, m, d
  <2>3. m.nextRead \in Nat /\ m.nextWrite \in Nat /\ m.nextPrecharge \in Nat /\ m.nextActivate \in Nat
    BY <2>2, BankTimes
  <2>4. /\ Postpone(m.nextActivate, tRC) \in Nat /\ Postpone(m.nextActivate, tRC) >= tRC
        /\ Postpone(m.nextActivate, tRC) >= m.nextActivate
        /\ Postpone(m.nextPrecharge, tRAS) \in Nat /\ Postpone(m.nextPrecharge, tRAS) >= tRAS
        /\ Postpone(m.nextPrecharge, tRAS) >= m.nextPrecharge
    BY <1>2, <2>3, PostponeUp
  <2>5. /\ a \in BankTypes /\ a.state = "RowActive" /\ a.row = c.row
        /\ a.countdown = m.countdown /\ a.nextRead = m.nextRead /\ a.nextWrite = m.nextWrite
        /\ a.nextPrecharge = Postpone(m.nextPrecharge, tRAS)
        /\ a.nextActivate = Postpone(m.nextActivate, tRC)
    BY <1>1, <2>1, <2>2, <2>4 DEF BankTypes
  <2>6. Meets(d, a)
    BY <1>2, <1>3, <1>5, <2>2, <2>3, <2>4, <2>5 DEF Meets
  <2>7. /\ a.nextRead >= s.nextRead /\ a.nextWrite >= s.nextWrite
        /\ a.nextPrecharge >= s.nextPrecharge /\ a.nextActivate >= s.nextActivate
    BY <1>4, <2>2, <2>3, <2>4, <2>5 DEF Postponed
  <2>8. Settled(c, b, s, a)
    BY <1>5, <2>2, <2>5 DEF Settled, SameState
  <2> QED
    BY <2>5, <2>6, <2>7, <2>8 DEF BankMoved, a, s, d
<1>6. CASE b # c.bank
  <2>1. a = [s EXCEPT !.nextActivate = Postpone(@, ad)]
    BY <1>6 DEF AfterActivate
  <2> HIDE DEF a, s, d, ad
  <2>2. /\ a \in BankTypes /\ Postponed(s, a) /\ SameState(s, a) /\ a.nextActivate >= ad
    BY <1>1, <1>2, <2>1, PrechargeMoved
  <2>3. a.nextRead \in Nat /\ a.nextWrite \in Nat /\ a.nextPrecharge \in Nat /\ a.nextActivate \in Nat
    BY <2>2, BankTimes
  <2>4. Meets(d, a)
    BY <1>2, <1>3, <1>6, <2>2, <2>3 DEF Meets
  <2>5. Settled(c, b, s, a)
    BY <1>6, <2>2 DEF Settled
  <2> QED
    BY <2>2, <2>4, <2>5 DEF BankMoved, Postponed, a, s, d
<1> QED
  BY <1>5, <1>6

(* A PRECHARGE and a REF.                                                  *)
LEMMA CloseMoved ==
  ASSUME bankStates \in [Ranks -> [Banks -> BankTypes]], NEW c \in Commands, NEW b \in Banks
  PROVE  /\ c.type = "PRECHARGE" /\ b = c.bank =>
              BankMoved(c, c.rank, b, bankStates[c.rank][b], AfterPrecharge(bankStates[c.rank][b]))
         /\ c.type = "PRECHARGE" /\ b # c.bank =>
              BankMoved(c, c.rank, b, bankStates[c.rank][b], bankStates[c.rank][b])
         /\ c.type = "REF" =>
              BankMoved(c, c.rank, b, bankStates[c.rank][b], AfterRefresh(bankStates[c.rank][b]))
<1> DEFINE s == bankStates[c.rank][b]
           d == Demand(c, b)
           p == AfterPrecharge(s)
           f == AfterRefresh(s)
<1>1. s \in BankTypes
  BY CommandParts
<1>2. tRP \in Nat /\ tRFC \in Nat
  BY DelayTypes
<1>3. /\ d \in RankBankTypes
      /\ c.type \in {"PRECHARGE", "REF"} =>
           d.nextRead = 0 /\ d.nextWrite = 0 /\ d.nextPrecharge = 0
      /\ c.type = "PRECHARGE" /\ b = c.bank => d.nextActivate = tRP
      /\ c.type = "PRECHARGE" /\ b # c.bank => d.nextActivate = 0
      /\ c.type = "REF" => d.nextActivate = tRFC
  BY DemandParts
<1>4. p = [s EXCEPT !.state = "Precharging", !.countdown = tRP,
                    !.nextActivate = Postpone(s.nextActivate, tRP)]
  BY DEF AfterPrecharge
<1>5. f = [s EXCEPT !.state = "Refreshing", !.countdown = tRFC, !.nextActivate = tRFC]
  BY DEF AfterRefresh
<1> HIDE DEF s, d, p, f
<1>6. /\ s.nextRead \in Nat /\ s.nextWrite \in Nat /\ s.nextPrecharge \in Nat
      /\ s.nextActivate \in Nat /\ Postponed(s, s) /\ SameState(s, s)
  BY <1>1, BankTimes
<1>7. /\ Postpone(s.nextActivate, tRP) \in Nat /\ Postpone(s.nextActivate, tRP) >= s.nextActivate
      /\ Postpone(s.nextActivate, tRP) >= tRP
  BY <1>2, <1>6, PostponeUp
<1>8. /\ p \in BankTypes /\ p.state = "Precharging" /\ p.row = s.row /\ p.countdown = tRP
      /\ p.nextRead = s.nextRead /\ p.nextWrite = s.nextWrite
      /\ p.nextPrecharge = s.nextPrecharge /\ p.nextActivate = Postpone(s.nextActivate, tRP)
  BY <1>1, <1>2, <1>4, <1>7 DEF BankTypes
<1>9. /\ f \in BankTypes /\ f.state = "Refreshing" /\ f.row = s.row /\ f.countdown = tRFC
      /\ f.nextRead = s.nextRead /\ f.nextWrite = s.nextWrite
      /\ f.nextPrecharge = s.nextPrecharge /\ f.nextActivate = tRFC
  BY <1>1, <1>2, <1>5 DEF BankTypes
<1>10. ASSUME c.type = "PRECHARGE", b = c.bank PROVE BankMoved(c, c.rank, b, s, p)
  <2>1. Meets(d, p)
    BY <1>2, <1>3, <1>6, <1>7, <1>8, <1>10 DEF Meets
  <2>2. Settled(c, b, s, p)
    BY <1>8, <1>10 DEF Settled
  <2>3. /\ p.nextRead >= s.nextRead /\ p.nextWrite >= s.nextWrite
        /\ p.nextPrecharge >= s.nextPrecharge /\ p.nextActivate >= s.nextActivate
    BY <1>6, <1>7, <1>8
  <2> QED
    BY <1>8, <2>1, <2>2, <2>3 DEF BankMoved, d
<1>11. ASSUME c.type = "PRECHARGE", b # c.bank PROVE BankMoved(c, c.rank, b, s, s)
  <2>1. Meets(d, s)
    BY <1>3, <1>6, <1>11 DEF Meets
  <2>2. Settled(c, b, s, s)
    BY <1>6, <1>11 DEF Settled
  <2> QED
    BY <1>1, <1>6, <2>1, <2>2 DEF BankMoved, Postponed, d
<1>12. ASSUME c.type = "REF" PROVE BankMoved(c, c.rank, b, s, f)
  <2>1. Meets(d, f)
    BY <1>2, <1>3, <1>6, <1>9, <1>12 DEF Meets
  <2>2. Settled(c, b, s, f)
    BY <1>9, <1>12 DEF Settled
  <2>3. /\ f.nextRead >= s.nextRead /\ f.nextWrite >= s.nextWrite
        /\ f.nextPrecharge >= s.nextPrecharge
    BY <1>6, <1>9
  <2> QED
    BY <1>9, <1>12, <2>1, <2>2, <2>3 DEF BankMoved, d
<1> QED
  BY <1>10, <1>11, <1>12 DEF s, p, f

(* What a command does to any bank of the controller.                      *)
LEMMA BanksMoved ==
  ASSUME tWTRS <= tWTRL, bankStates \in [Ranks -> [Banks -> BankTypes]],
         NEW c \in Commands, bankStates' = BankStatesAfter(c)
  PROVE  \A r \in Ranks : \A b \in Banks :
           BankMoved(c, r, b, bankStates[r][b], bankStates'[r][b])
<1> DEFINE B == bankStates
           B2 == bankStates'
<1>1. /\ c.type \in {"ACTIVATE", "PRECHARGE", "REF", "READ", "WRITE"}
      /\ c.rank \in Ranks /\ c.bank \in Banks
  BY CommandParts
<1>2. \A r \in Ranks : \A b \in Banks : B[r][b] \in BankTypes
  OBVIOUS
<1>3. \A r \in Ranks : \A b \in Banks : r # c.rank => BankMoved(c, r, b, B[r][b], B[r][b])
  BY <1>2, BankTimes DEF BankMoved, Postponed
<1>4. CASE c.type \in {"READ", "WRITE"}
  <2>1. B2 = [r \in Ranks |-> [b \in Banks |-> AfterColumn(r, b, c)]]
    BY <1>4 DEF BankStatesAfter
  <2>2. \A r \in Ranks : \A b \in Banks : B2[r][b] = AfterColumn(r, b, c)
    BY <2>1
  <2> QED
    BY <1>4, <2>2, ColumnMoved
<1>5. CASE c.type = "ACTIVATE"
  <2>1. B2 = [B EXCEPT ![c.rank] = [b \in Banks |-> AfterActivate(b, c)]]
    BY <1>5 DEF BankStatesAfter
  <2>2. \A r \in Ranks : \A b \in Banks :
          B2[r][b] = IF r = c.rank THEN AfterActivate(b, c) ELSE B[r][b]
    BY <1>1, <2>1
  <2> QED
    BY <1>3, <1>5, <2>2, ActivateMoved
<1>6. CASE c.type = "PRECHARGE"
  <2>1. B2 = [B EXCEPT ![c.rank][c.bank] = AfterPrecharge(@)]
    BY <1>6 DEF BankStatesAfter
  <2>2. \A r \in Ranks : \A b \in Banks :
          B2[r][b] = IF r = c.rank /\ b = c.bank THEN AfterPrecharge(B[c.rank][c.bank])
                                                 ELSE B[r][b]
    BY <1>1, <2>1
  <2>3. ASSUME NEW r \in Ranks, NEW b \in Banks PROVE BankMoved(c, r, b, B[r][b], B2[r][b])
    <3>1. CASE r = c.rank /\ b = c.bank
      BY <1>6, <2>2, <3>1, CloseMoved
    <3>2. CASE r = c.rank /\ b # c.bank
      BY <1>6, <2>2, <3>2, CloseMoved
    <3>3. CASE r # c.rank
      BY <1>3, <2>2, <3>3
    <3> QED
      BY <3>1, <3>2, <3>3
  <2> QED
    BY <2>3
<1>7. CASE c.type = "REF"
  <2>1. B2 = [B EXCEPT ![c.rank] = [b \in Banks |-> AfterRefresh(B[c.rank][b])]]
    BY <1>7 DEF BankStatesAfter
  <2>2. \A r \in Ranks : \A b \in Banks :
          B2[r][b] = IF r = c.rank THEN AfterRefresh(B[c.rank][b]) ELSE B[r][b]
    BY <1>1, <2>1
  <2> QED
    BY <1>3, <1>7, <2>2, CloseMoved
<1> QED
  BY <1>1, <1>4, <1>5, <1>6, <1>7

-----------------------------------------------------------------------------

(* What the controller knows of the ranks.                                 *)

(* A REF for rank r is on the command bus. It resets the time of the next  *)
(* ACTIVATE, which may have been later.                                    *)
RefComing(r) ==
  outgoingCmd # << >> /\ outgoingCmd[1].cmd.type = "REF" /\ outgoingCmd[1].cmd.rank = r

(* A bank of a rank, the command on the bus counted in.                    *)
Shown(r, b) ==
  IF outgoingCmd # << >> /\ outgoingCmd[1].cmd.rank = r
    THEN Opened(outgoingCmd[1].cmd, b, rankBanks[r][b]) ELSE rankBanks[r][b]

(* A bank counts down exactly while it closes or refreshes.                *)
Counts(s) == s.countdown = 0 <=> s.state \in {"Idle", "RowActive"}

(* The controller and the rank agree on a bank: the same row is open once  *)
(* the command on the bus is counted in, and every time of the rank is at  *)
(* most one cycle later than that of the controller, the cycle a command   *)
(* takes to arrive.                                                        *)
BankAgrees(r, b) ==
  /\ Counts(bankStates[r][b])
  /\ ~IsReservedRA(bankStates[r][b].row)
  /\ Within(rankBanks[r][b], bankStates[r][b], 1)
  /\ RefComing(r) \/ rankBanks[r][b].nextActivate <= bankStates[r][b].nextActivate + 1
  /\ SameRow(Shown(r, b), bankStates[r][b])

(* Bank k accepts a command in d cycles.                                   *)
Accepts(k, c, d) ==
  /\ c.type = "READ" => k.state = "RowActive" /\ k.row = c.row /\ k.nextRead <= d
  /\ c.type = "WRITE" => k.state = "RowActive" /\ k.row = c.row /\ k.nextWrite <= d
  /\ c.type = "ACTIVATE" => k.state = "Idle" /\ k.nextActivate <= d
  /\ c.type = "PRECHARGE" => k.state = "RowActive" /\ k.nextPrecharge <= d
  /\ c.type = "REF" => k.state = "Idle"

(* The command on the bus: the controller reckons with its demand already, *)
(* and the bank it is for accepts it as it arrives.                        *)
Fits(c) ==
  /\ ~IsReservedRA(c.row)
  /\ \A b \in Banks :
       /\ Within(Demand(c, b), bankStates[c.rank][b], Between)
       /\ Demand(c, b).nextActivate <= bankStates[c.rank][b].nextActivate + Between
       /\ b = c.bank \/ c.type = "REF" => Accepts(rankBanks[c.rank][b], c, 1 - Between)

(* Banks of the ranks; and all of them are in single-bank mode.            *)
RanksTyped ==
  rankBanks \in [Ranks -> [Banks -> RankBankTypes]] /\ mode \in [Ranks -> {"SB"}]

(* There may be no command.                                                *)
CommandFits == outgoingCmd # << >> => Fits(outgoingCmd[1].cmd)

(* The inductive invariant behind RanksAgree.                              *)
Agreement ==
  /\ \A r \in Ranks : \A b \in Banks : BankAgrees(r, b)
  /\ CommandFits
  /\ fault # "check"

(* A command leaves the bus in the cycle after the one it was sent in.     *)
BusFree == phase \in {"refresh", "command"} => outgoingCmd = << >>

(* When the controller may send a command.                                 *)
Permitted(c) ==
  /\ ~IsReservedRA(c.row)
  /\ LET s == bankStates[c.rank][c.bank] IN
     /\ c.type = "READ" => s.state = "RowActive" /\ s.row = c.row /\ s.nextRead = 0
     /\ c.type = "WRITE" => s.state = "RowActive" /\ s.row = c.row /\ s.nextWrite = 0
     /\ c.type = "ACTIVATE" => s.state = "Idle" /\ s.nextActivate = 0
     /\ c.type = "PRECHARGE" => s.state = "RowActive" /\ s.nextPrecharge = 0
  /\ c.type = "REF" => \A b \in Banks : bankStates[c.rank][b].state # "RowActive"

(* Row 0 is a row of cells.                                                *)
LEMMA PlainZero == ~IsReservedRA(0)
  BY DEF IsReservedRA

(* The types of the times.                                                 *)
LEMMA AgreeingTypes ==
  ASSUME ChannelTyped, RanksTyped, NEW r \in Ranks, NEW b \in Banks
  PROVE  /\ bankStates[r][b] \in BankTypes /\ rankBanks[r][b] \in RankBankTypes
         /\ bankStates[r][b].nextRead \in Nat /\ bankStates[r][b].nextWrite \in Nat
         /\ bankStates[r][b].nextPrecharge \in Nat /\ bankStates[r][b].nextActivate \in Nat
         /\ rankBanks[r][b].nextRead \in Nat /\ rankBanks[r][b].nextWrite \in Nat
         /\ rankBanks[r][b].nextPrecharge \in Nat /\ rankBanks[r][b].nextActivate \in Nat
         /\ rankBanks[r][b].state \in {"Idle", "RowActive"}
<1>1. bankStates[r][b] \in BankTypes /\ rankBanks[r][b] \in RankBankTypes
  BY DEF ChannelTyped, RanksTyped
<1> QED
  BY <1>1, BankTimes DEF RankBankTypes

(* Every command is sent when the bank it is for permits it.               *)
LEMMA PermittedSteps ==
  ASSUME PlainRows, ChannelTyped, CommandsOnce, Agreement, Command
  PROVE  (\E c \in Commands : UpdateCommandQueue(c) /\ Permitted(c)) \/ SendsNone
<1>1. \/ SendRefresh \/ SendPrechargeForRefresh \/ SendColumn
      \/ SendActivate \/ SendPrecharge \/ SendNothing
  BY DEF Command, SendCommand
<1>2. refreshRank \in Ranks /\ 0 \in Banks
  BY GeometryAssumption DEF ChannelTyped, Banks
<1>3. \A r \in Ranks : \A b \in Banks :
        bankStates[r][b].row \in Nat /\ ~IsReservedRA(bankStates[r][b].row)
  BY DEF ChannelTyped, BankTypes, Agreement, BankAgrees
<1>4. ASSUME NEW r \in Ranks, NEW b \in Banks, PrechargeIssuable(r, b)
      PROVE  Precharge(r, b) \in Commands /\ Permitted(Precharge(r, b))
  BY <1>3, <1>4 DEF Precharge, Commands, Permitted, PrechargeIssuable
<1>5. \A r \in Ranks : ReadyColumns(r) \in SUBSET Nat /\ ReadyRows(r) \in SUBSET Nat
                         /\ ReadyColumns(r) \subseteq 1 .. Len(queues[r])
                         /\ ReadyRows(r) \subseteq 1 .. Len(queues[r])
  BY DEF ReadyColumns, ReadyRows
<1>6. ASSUME NEW r \in Ranks, NEW i \in 1 .. Len(queues[r])
      PROVE  /\ queues[r][i] \in Transactions /\ queues[r][i].addr.rank = r
             /\ ~IsReservedRA(queues[r][i].addr.row)
  <2>1. queues[r] \in Seq(Transactions)
    BY DEF ChannelTyped, QueuesTyped
  <2>2. queues[r][i] \in Transactions
    BY <2>1, ElementOfSeq
  <2>3. queues[r][i] \in ToSet(queues[r])
    BY <2>1, ToSetMember
  <2>4. queues[r][i].addr.rank = r
    BY <2>3 DEF CommandsOnce
  <2>5. queues[r][i].addr \in Addresses
    BY <2>2, TransactionParts
  <2> QED
    BY <2>2, <2>4, <2>5 DEF PlainRows
<1>7. CASE SendRefresh
  <2>1. /\ Refresh(refreshRank) \in Commands /\ Refresh(refreshRank).type = "REF"
        /\ Refresh(refreshRank).rank = refreshRank /\ Refresh(refreshRank).row = 0
    BY <1>2 DEF Refresh, Commands
  <2>2. \A b \in Banks : bankStates[refreshRank][b].state # "RowActive"
    BY <1>7 DEF SendRefresh, PopRefresh, OpenBanks
  <2>3. Permitted(Refresh(refreshRank))
    BY <2>1, <2>2, PlainZero DEF Permitted
  <2> QED
    BY <1>7, <2>1, <2>3 DEF SendRefresh
<1>8. CASE SendPrechargeForRefresh
  <2>1. PICK b \in Banks : /\ PopPrechargeForRefresh(b)
                           /\ UpdateCommandQueue(Precharge(refreshRank, b))
    BY <1>8 DEF SendPrechargeForRefresh
  <2>2. ClosableBanks(refreshRank) \in SUBSET Nat
    BY DEF ClosableBanks, OpenBanks, Banks
  <2>3. b \in ClosableBanks(refreshRank)
    BY <2>1, <2>2, MinMember DEF PopPrechargeForRefresh
  <2>4. PrechargeIssuable(refreshRank, b)
    BY <2>3 DEF ClosableBanks
  <2> QED
    BY <1>2, <1>4, <2>1, <2>4
<1>9. CASE SendColumn
  <2>1. PICK r \in Ranks : PopColumn(r) /\ UpdateCommandQueue(ColumnCommand(NextColumn(r)))
    BY <1>9 DEF SendColumn
  <2> DEFINE i == Min(ReadyColumns(r))
             t == queues[r][i]
  <2>2. i \in ReadyColumns(r)
    BY <1>5, <2>1, MinMember DEF PopColumn
  <2>3. NextColumn(r) = t
    BY DEF NextColumn
  <2> HIDE DEF i
  <2>4. t \in Transactions /\ t.addr.rank = r /\ ~IsReservedRA(t.addr.row) /\ ColumnIssuable(t)
    BY <1>5, <1>6, <2>2 DEF ReadyColumns
  <2> HIDE DEF t
  <2>5. /\ ColumnCommand(t) \in Commands
        /\ ColumnCommand(t).type = (IF t.type = "DATA_READ" THEN "READ" ELSE "WRITE")
        /\ ColumnCommand(t).rank = t.addr.rank /\ ColumnCommand(t).bank = t.addr.bank
        /\ ColumnCommand(t).row = t.addr.row
    BY <2>4, ColumnCommandTyped DEF ColumnCommand
  <2>6. Permitted(ColumnCommand(t))
    BY <2>4, <2>5 DEF Permitted, ColumnIssuable
  <2> QED
    BY <2>1, <2>3, <2>5, <2>6
<1>10. CASE SendActivate
  <2>1. PICK r \in Ranks : /\ PopActivate(r)
                           /\ UpdateCommandQueue(BankCommand("ACTIVATE", NextRow(r)))
    BY <1>10 DEF SendActivate
  <2>2. ReadyRows(r) # {}
    BY <2>1 DEF PopActivate, Turn, HasCommand
  <2> DEFINE i == Min(ReadyRows(r))
             a == NextRow(r)
             c == BankCommand("ACTIVATE", a)
  <2>3. i \in ReadyRows(r)
    BY <1>5, <2>2, MinMember
  <2>4. a = queues[r][i].addr
    BY DEF NextRow
  <2> HIDE DEF i
  <2>5. /\ queues[r][i] \in Transactions /\ queues[r][i].addr.rank = r
        /\ ~IsReservedRA(queues[r][i].addr.row)
        /\ bankStates[r][queues[r][i].addr.bank].state = "Idle"
        /\ bankStates[r][queues[r][i].addr.bank].nextActivate = 0
    BY <1>5, <1>6, <2>3 DEF ReadyRows, ActivateIssuable
  <2> HIDE DEF a
  <2>6. /\ a.rank = r /\ a.bank \in Banks /\ a.row \in Nat /\ a.col \in Nat /\ ~IsReservedRA(a.row)
        /\ bankStates[r][a.bank].state = "Idle" /\ bankStates[r][a.bank].nextActivate = 0
    BY <2>4, <2>5, TransactionParts
  <2>7. c \in Commands /\ c.type = "ACTIVATE" /\ c.rank = r /\ c.bank = a.bank /\ c.row = a.row
    BY <2>6 DEF BankCommand, Commands
  <2>8. UpdateCommandQueue(c)
    BY <2>1 DEF a
  <2> HIDE DEF c
  <2>9. Permitted(c)
    BY <2>6, <2>7 DEF Permitted
  <2> QED
    BY <2>7, <2>8, <2>9
<1>11. CASE SendPrecharge
  <2>1. PICK p \in Unwanted : /\ PopPrecharge(p)
                              /\ UpdateCommandQueue(Precharge(p.rank, p.bank))
    BY <1>11 DEF SendPrecharge
  <2>2. p.rank \in Ranks /\ p.bank \in Banks /\ PrechargeIssuable(p.rank, p.bank)
    BY <2>1 DEF Unwanted
  <2> QED
    BY <1>4, <2>1, <2>2
<1>12. CASE SendNothing
  BY <1>12 DEF SendNothing, PopNothing, SendsNone, commandQueueVars
<1> QED
  BY <1>1, <1>7, <1>8, <1>9, <1>10, <1>11, <1>12

(* Nothing happens to the banks and the command bus.                       *)
LEMMA AgreementIdle ==
  ASSUME ChannelTyped, RanksTyped, Agreement,
         UNCHANGED << rankBanks, bankStates, outgoingCmd >>,
         Between' = Between, fault' # "check"
  PROVE  Agreement'
<1>1. \A r \in Ranks : \A b \in Banks : BankAgrees(r, b)'
  <2>1. \A r \in Ranks : \A b \in Banks : BankAgrees(r, b)
    BY DEF Agreement
  <2>2. \A r \in Ranks : \A b \in Banks : BankAgrees(r, b)' <=> BankAgrees(r, b)
    BY DEF BankAgrees, Shown, RefComing
  <2> QED
    BY <2>1, <2>2
<1>2. CommandFits'
  <2>1. CommandFits
    BY DEF Agreement
  <2> QED
    BY <2>1 DEF CommandFits, Fits
<1> QED
  BY <1>1, <1>2 DEF Agreement

(* A number that grows keeps what it bounds.                               *)
LEMMA StillWithin ==
  ASSUME NEW k \in Nat, NEW s \in Nat, NEW a \in Nat, k <= s + 1, a >= s
  PROVE  k <= a + 1
  OBVIOUS

(* A command that is sent.                                                 *)
LEMMA AgreementSent ==
  ASSUME tWTRS <= tWTRL, ChannelTyped, RanksTyped, Agreement, outgoingCmd = << >>,
         NEW c \in Commands, UpdateCommandQueue(c), Permitted(c),
         rankBanks' = rankBanks, Between' = 0
  PROVE  Agreement'
<1>1. /\ c.type \in {"ACTIVATE", "PRECHARGE", "REF", "READ", "WRITE"}
      /\ c.rank \in Ranks /\ c.bank \in Banks
  BY CommandParts
<1>2. /\ outgoingCmd' # << >> /\ outgoingCmd'[1].cmd = c /\ fault' = fault
      /\ bankStates' = BankStatesAfter(c)
  BY DEF UpdateCommandQueue
<1>3. \A r \in Ranks : \A b \in Banks : BankMoved(c, r, b, bankStates[r][b], bankStates'[r][b])
  BY <1>2, BanksMoved DEF ChannelTyped
<1>4. tRP \in Nat \ {0} /\ tRFC \in Nat \ {0}
  BY TimingAssumption
<1>5. ASSUME NEW r \in Ranks, NEW b \in Banks
      PROVE  BankAgrees(r, b)'
  <2> DEFINE s == bankStates[r][b]
             a == bankStates'[r][b]
             k == rankBanks[r][b]
  <2>1. BankMoved(c, r, b, s, a)
    BY <1>3
  <2>2. BankAgrees(r, b) /\ Shown(r, b) = k
    BY DEF Agreement, Shown
  <2>3. /\ Counts(s) /\ ~IsReservedRA(s.row) /\ Within(k, s, 1)
        /\ k.nextActivate <= s.nextActivate + 1 /\ SameRow(k, s)
    BY <2>2 DEF BankAgrees, RefComing
  <2>4. /\ s \in BankTypes /\ k \in RankBankTypes
        /\ s.nextRead \in Nat /\ s.nextWrite \in Nat /\ s.nextPrecharge \in Nat /\ s.nextActivate \in Nat
        /\ k.nextRead \in Nat /\ k.nextWrite \in Nat /\ k.nextPrecharge \in Nat /\ k.nextActivate \in Nat
    BY AgreeingTypes
  <2>5. rankBanks'[r][b] = k /\ (RefComing(r)' <=> c.type = "REF" /\ r = c.rank)
    BY <1>2 DEF RefComing
  <2>6. Shown(r, b)' = IF r = c.rank THEN Opened(c, b, k) ELSE k
    BY <1>2 DEF Shown
  <2>7. r = c.rank => /\ c.type = "ACTIVATE" /\ b = c.bank => s.state = "Idle"
                      /\ c.type = "PRECHARGE" /\ b = c.bank => s.state = "RowActive"
                      /\ c.type = "REF" => s.state # "RowActive"
                      /\ ~IsReservedRA(c.row)
    BY DEF Permitted
  <2>8. /\ r # c.rank => SameState(s, a)
        /\ r = c.rank => Settled(c, b, s, a)
        /\ a \in BankTypes
    BY <2>1 DEF BankMoved
  <2> HIDE DEF s, a, k
  <2>9. a.nextRead \in Nat /\ a.nextWrite \in Nat /\ a.nextPrecharge \in Nat /\ a.nextActivate \in Nat
    BY <2>8, BankTimes
  <2>10. Within(k, a, 1)
    <3>1. a.nextRead >= s.nextRead /\ a.nextWrite >= s.nextWrite /\ a.nextPrecharge >= s.nextPrecharge
      BY <2>1 DEF BankMoved
    <3>2. /\ k.nextRead <= s.nextRead + 1 /\ k.nextWrite <= s.nextWrite + 1
          /\ k.nextPrecharge <= s.nextPrecharge + 1
      BY <2>3 DEF Within
    <3>3. /\ k.nextRead <= a.nextRead + 1 /\ k.nextWrite <= a.nextWrite + 1
          /\ k.nextPrecharge <= a.nextPrecharge + 1
      BY <2>4, <2>9, <3>1, <3>2, StillWithin
    <3> QED
      BY <3>3 DEF Within
  <2>11. RefComing(r)' \/ k.nextActivate <= a.nextActivate + 1
    <3>1. (r = c.rank /\ c.type = "REF") \/ a.nextActivate >= s.nextActivate
      BY <2>1 DEF BankMoved
    <3>2. a.nextActivate >= s.nextActivate => k.nextActivate <= a.nextActivate + 1
      BY <2>3, <2>4, <2>9
    <3> QED
      BY <2>5, <3>1, <3>2
  <2>12. /\ Counts(a) /\ ~IsReservedRA(a.row)
         /\ SameRow(IF r = c.rank THEN Opened(c, b, k) ELSE k, a)
    <3>1. CASE r # c.rank
      BY <2>3, <2>8, <3>1 DEF SameState, Counts, SameRow
    <3>2. CASE r = c.rank /\ c.type = "ACTIVATE" /\ b = c.bank
      <4>1. a.state = "RowActive" /\ a.row = c.row /\ a.countdown = s.countdown
        BY <2>8, <3>2 DEF Settled
      <4>2. Opened(c, b, k) = [state |-> "RowActive", row |-> c.row]
        BY <3>2 DEF Opened
      <4>3. Counts(a)
        BY <2>3, <2>7, <3>2, <4>1 DEF Counts
      <4>4. SameRow(Opened(c, b, k), a)
        BY <4>1, <4>2 DEF SameRow
      <4> QED
        BY <2>7, <3>2, <4>1, <4>3, <4>4
    <3>3. CASE r = c.rank /\ c.type = "PRECHARGE" /\ b = c.bank
      <4>1. a.state = "Precharging" /\ a.row = s.row /\ a.countdown = tRP
        BY <2>8, <3>3 DEF Settled
      <4>2. Opened(c, b, k).state = "Idle"
        BY <3>3 DEF Opened
      <4>3. Counts(a)
        BY <1>4, <4>1 DEF Counts
      <4>4. SameRow(Opened(c, b, k), a)
        BY <4>1, <4>2 DEF SameRow
      <4> QED
        BY <2>3, <3>3, <4>1, <4>3, <4>4
    <3>4. CASE r = c.rank /\ c.type = "REF"
      <4>1. a.state = "Refreshing" /\ a.row = s.row /\ a.countdown = tRFC
        BY <2>8, <3>4 DEF Settled
      <4>2. Opened(c, b, k).state = k.state
        BY <3>4 DEF Opened
      <4>3. Counts(a)
        BY <1>4, <4>1 DEF Counts
      <4>4. k.state # "RowActive"
        BY <2>3, <2>7, <3>4 DEF SameRow
      <4>5. SameRow(Opened(c, b, k), a)
        BY <4>1, <4>2, <4>4 DEF SameRow
      <4> QED
        BY <2>3, <3>4, <4>1, <4>3, <4>5
    <3>5. CASE r = c.rank /\ (c.type \in {"READ", "WRITE"} \/ (c.type \in {"ACTIVATE", "PRECHARGE"} /\ b # c.bank))
      <4>1. SameState(s, a)
        BY <2>8, <3>5 DEF Settled
      <4>2. Opened(c, b, k).state = k.state /\ Opened(c, b, k).row = k.row
        BY <3>5 DEF Opened
      <4>3. Counts(a) /\ ~IsReservedRA(a.row) /\ SameRow(Opened(c, b, k), a)
        BY <2>3, <4>1, <4>2 DEF SameState, Counts, SameRow
      <4> QED
        BY <3>5, <4>3
    <3> QED
      BY <1>1, <3>1, <3>2, <3>3, <3>4, <3>5
  <2> QED
    BY <2>5, <2>6, <2>10, <2>11, <2>12 DEF BankAgrees, a, k
<1>6. CommandFits'
  <2>1. ~IsReservedRA(c.row)
    BY DEF Permitted
  <2>2. ASSUME NEW b \in Banks
        PROVE  /\ Within(Demand(c, b), bankStates'[c.rank][b], 0)
               /\ Demand(c, b).nextActivate <= bankStates'[c.rank][b].nextActivate + 0
               /\ b = c.bank \/ c.type = "REF" => Accepts(rankBanks'[c.rank][b], c, 1 - 0)
    <3> DEFINE s == bankStates[c.rank][b]
               a == bankStates'[c.rank][b]
               k == rankBanks[c.rank][b]
               d == Demand(c, b)
    <3>1. a \in BankTypes /\ Meets(d, a)
      BY <1>1, <1>3 DEF BankMoved
    <3>2. BankAgrees(c.rank, b) /\ Shown(c.rank, b) = k
      BY <1>1 DEF Agreement, Shown
    <3>3. Within(k, s, 1) /\ k.nextActivate <= s.nextActivate + 1 /\ SameRow(k, s)
      BY <3>2 DEF BankAgrees, RefComing
    <3>4. /\ s.nextRead \in Nat /\ s.nextWrite \in Nat /\ s.nextPrecharge \in Nat /\ s.nextActivate \in Nat
          /\ k.nextRead \in Nat /\ k.nextWrite \in Nat /\ k.nextPrecharge \in Nat /\ k.nextActivate \in Nat
          /\ k.state \in {"Idle", "RowActive"}
      BY <1>1, AgreeingTypes
    <3>5. d \in RankBankTypes
      BY DemandParts
    <3>6. /\ b = c.bank =>
               /\ c.type = "READ" => s.state = "RowActive" /\ s.row = c.row /\ s.nextRead = 0
               /\ c.type = "WRITE" => s.state = "RowActive" /\ s.row = c.row /\ s.nextWrite = 0
               /\ c.type = "ACTIVATE" => s.state = "Idle" /\ s.nextActivate = 0
               /\ c.type = "PRECHARGE" => s.state = "RowActive" /\ s.nextPrecharge = 0
          /\ c.type = "REF" => s.state # "RowActive"
      BY DEF Permitted
    <3> HIDE DEF s, a, k, d
    <3>7. /\ d.nextRead \in Nat /\ d.nextWrite \in Nat /\ d.nextPrecharge \in Nat /\ d.nextActivate \in Nat
          /\ a.nextRead \in Nat /\ a.nextWrite \in Nat /\ a.nextPrecharge \in Nat /\ a.nextActivate \in Nat
      BY <3>1, <3>5, BankTimes DEF RankBankTypes
    <3>8. Within(d, a, 0) /\ d.nextActivate <= a.nextActivate + 0
      BY <3>1, <3>7 DEF Meets, Within
    <3>9. ASSUME b = c.bank \/ c.type = "REF" PROVE Accepts(k, c, 1 - 0)
      <4>1. c.type = "READ" => k.state = "RowActive" /\ k.row = c.row /\ k.nextRead <= 1 - 0
        BY <3>3, <3>4, <3>6, <3>9 DEF Within, SameRow
      <4>2. c.type = "WRITE" => k.state = "RowActive" /\ k.row = c.row /\ k.nextWrite <= 1 - 0
        BY <3>3, <3>4, <3>6, <3>9 DEF Within, SameRow
      <4>3. c.type = "ACTIVATE" => k.state = "Idle" /\ k.nextActivate <= 1 - 0
        BY <3>3, <3>4, <3>6, <3>9 DEF SameRow
      <4>4. c.type = "PRECHARGE" => k.state = "RowActive" /\ k.nextPrecharge <= 1 - 0
        BY <3>3, <3>4, <3>6, <3>9 DEF Within, SameRow
      <4>5. c.type = "REF" => k.state = "Idle"
        BY <3>3, <3>4, <3>6 DEF SameRow
      <4> QED
        BY <4>1, <4>2, <4>3, <4>4, <4>5 DEF Accepts
    <3> QED
      BY <3>8, <3>9 DEF a, k, d
  <2>3. Fits(c)'
    BY <2>1, <2>2 DEF Fits
  <2> QED
    BY <1>2, <2>1, <2>2 DEF CommandFits, Fits
<1>7. fault' # "check"
  BY <1>2 DEF Agreement
<1> QED
  BY <1>5, <1>6, <1>7 DEF Agreement

(* Every command that is sent is permitted.                                *)
LEMMA AgreementCommand ==
  ASSUME tWTRS <= tWTRL, PlainRows, ChannelTyped, RanksTyped, CommandsOnce, BusFree,
         Agreement, Command
  PROVE  Agreement'
<1>1. phase = "command" /\ phase' = "dispatch" /\ outgoingCmd = << >> /\ rankBanks' = rankBanks
  BY DEF Command, SendCommand, rankVars, BusFree
<1>2. Between = 0 /\ Between' = 0
  BY <1>1 DEF Between
<1>3. CASE SendsNone
  <2>1. fault' # "check" /\ UNCHANGED << bankStates, outgoingCmd >>
    BY <1>3 DEF SendsNone, Agreement
  <2> QED
    BY <1>1, <1>2, <2>1, AgreementIdle
<1>4. ASSUME NEW c \in Commands, UpdateCommandQueue(c), Permitted(c) PROVE Agreement'
  BY <1>1, <1>2, <1>4, AgreementSent
<1> QED
  BY <1>3, <1>4, PermittedSteps

(* A time at the rank and one at the controller tick together.             *)
LEMMA TickOne ==
  ASSUME NEW k \in Nat, NEW s \in Nat
  PROVE  /\ Tick(k) \in Nat
         /\ k <= s + 1 => Tick(k) <= Tick(s) + 1
         /\ k <= s + 0 => k <= Tick(s) + 1
         /\ k <= 1 - 0 => Tick(k) <= 1 - 1
  BY DEF Tick, Larger

(* All times tick together.                                                *)
LEMMA AgreementEnd ==
  ASSUME ChannelTyped, RanksTyped, Agreement, EndUpdate
  PROVE  Agreement' /\ RanksTyped'
<1>1. /\ phase = "return" /\ phase' = "client" /\ outgoingCmd' = outgoingCmd
      /\ bankStates' = [r \in Ranks |-> [b \in Banks |-> TickBank(bankStates[r][b])]]
      /\ rankBanks' = [r \in Ranks |-> [b \in Banks |-> TickBank(rankBanks[r][b])]]
      /\ mode' = mode /\ fault' \in {fault, "nomatch"}
  BY DEF EndUpdate, TickController, TickRanks, ReturnReadData, ReturnNothing, ReturnUnmatched,
     modeVars, pimVars
<1>2. Between = 0 /\ Between' = 1
  BY <1>1 DEF Between
<1>3. ASSUME NEW s \in BankTypes
      PROVE  /\ TickBank(s).state = s.state /\ TickBank(s).row = s.row
             /\ TickBank(s).countdown = s.countdown
             /\ TickBank(s).nextRead = Tick(s.nextRead) /\ TickBank(s).nextWrite = Tick(s.nextWrite)
             /\ TickBank(s).nextPrecharge = Tick(s.nextPrecharge)
             /\ TickBank(s).nextActivate = Tick(s.nextActivate)
  BY DEF TickBank, BankTypes
<1>4. ASSUME NEW k \in RankBankTypes
      PROVE  /\ TickBank(k) \in RankBankTypes
             /\ TickBank(k).state = k.state /\ TickBank(k).row = k.row
             /\ TickBank(k).nextRead = Tick(k.nextRead) /\ TickBank(k).nextWrite = Tick(k.nextWrite)
             /\ TickBank(k).nextPrecharge = Tick(k.nextPrecharge)
             /\ TickBank(k).nextActivate = Tick(k.nextActivate)
  <2>1. /\ k.nextRead \in Nat /\ k.nextWrite \in Nat /\ k.nextPrecharge \in Nat /\ k.nextActivate \in Nat
    BY DEF RankBankTypes
  <2>2. /\ Tick(k.nextRead) \in Nat /\ Tick(k.nextWrite) \in Nat
        /\ Tick(k.nextPrecharge) \in Nat /\ Tick(k.nextActivate) \in Nat
    BY <2>1, TickOne
  <2> QED
    BY <2>2 DEF TickBank, RankBankTypes
<1>5. ASSUME NEW r \in Ranks, NEW b \in Banks
      PROVE  /\ bankStates'[r][b] = TickBank(bankStates[r][b])
             /\ rankBanks'[r][b] = TickBank(rankBanks[r][b])
  BY <1>1
<1>6. RanksTyped'
  <2>1. \A r \in Ranks : \A b \in Banks : TickBank(rankBanks[r][b]) \in RankBankTypes
    BY <1>4 DEF RanksTyped
  <2> QED
    BY <1>1, <2>1 DEF RanksTyped
<1>7. ASSUME NEW r \in Ranks, NEW b \in Banks
      PROVE  BankAgrees(r, b)'
  <2> DEFINE s == bankStates[r][b]
             k == rankBanks[r][b]
             s2 == bankStates'[r][b]
             k2 == rankBanks'[r][b]
  <2>1. BankAgrees(r, b)
    BY DEF Agreement
  <2>2. /\ s \in BankTypes /\ k \in RankBankTypes
        /\ s.nextRead \in Nat /\ s.nextWrite \in Nat /\ s.nextPrecharge \in Nat /\ s.nextActivate \in Nat
        /\ k.nextRead \in Nat /\ k.nextWrite \in Nat /\ k.nextPrecharge \in Nat /\ k.nextActivate \in Nat
    BY AgreeingTypes
  <2>3. s2 = TickBank(s) /\ k2 = TickBank(k)
    BY <1>5
  <2>4. /\ Counts(s) /\ ~IsReservedRA(s.row) /\ Within(k, s, 1)
        /\ RefComing(r) \/ k.nextActivate <= s.nextActivate + 1
        /\ SameRow(Shown(r, b), s)
    BY <2>1 DEF BankAgrees
  <2>5. RefComing(r)' <=> RefComing(r)
    BY <1>1 DEF RefComing
  <2>6. /\ s2.state = s.state /\ s2.row = s.row /\ s2.countdown = s.countdown
        /\ s2.nextRead = Tick(s.nextRead) /\ s2.nextWrite = Tick(s.nextWrite)
        /\ s2.nextPrecharge = Tick(s.nextPrecharge) /\ s2.nextActivate = Tick(s.nextActivate)
    BY <1>3, <2>2, <2>3
  <2>7. /\ k2.state = k.state /\ k2.row = k.row
        /\ k2.nextRead = Tick(k.nextRead) /\ k2.nextWrite = Tick(k.nextWrite)
        /\ k2.nextPrecharge = Tick(k.nextPrecharge) /\ k2.nextActivate = Tick(k.nextActivate)
    BY <1>4, <2>2, <2>3
  <2>8. Shown(r, b)'.state = Shown(r, b).state /\ Shown(r, b)'.row = Shown(r, b).row
    BY <1>1, <2>7 DEF Shown, Opened
  <2> HIDE DEF s, k, s2, k2
  <2>9. Counts(s2) /\ ~IsReservedRA(s2.row) /\ SameRow(Shown(r, b)', s2)
    BY <2>4, <2>6, <2>8 DEF Counts, SameRow
  <2>10. Within(k2, s2, 1)
    <3>1. /\ k.nextRead <= s.nextRead + 1 /\ k.nextWrite <= s.nextWrite + 1
          /\ k.nextPrecharge <= s.nextPrecharge + 1
      BY <2>4 DEF Within
    <3>2. /\ Tick(k.nextRead) <= Tick(s.nextRead) + 1 /\ Tick(k.nextWrite) <= Tick(s.nextWrite) + 1
          /\ Tick(k.nextPrecharge) <= Tick(s.nextPrecharge) + 1
      BY <2>2, <3>1, TickOne
    <3> QED
      BY <2>6, <2>7, <3>2 DEF Within
  <2>11. RefComing(r)' \/ k2.nextActivate <= s2.nextActivate + 1
    <3>1. k.nextActivate <= s.nextActivate + 1 => Tick(k.nextActivate) <= Tick(s.nextActivate) + 1
      BY <2>2, TickOne
    <3> QED
      BY <2>4, <2>5, <2>6, <2>7, <3>1
  <2> QED
    BY <2>9, <2>10, <2>11 DEF BankAgrees, s2, k2
<1>8. CommandFits'
  <2>1. CASE outgoingCmd = << >>
    BY <1>1, <2>1 DEF CommandFits
  <2>2. CASE outgoingCmd # << >>
    <3> DEFINE c == outgoingCmd[1].cmd
    <3>1. c \in Commands
      <4>1. outgoingCmd[1] \in BusCommands
        BY <2>2, ShortFront DEF ChannelTyped, BusesTyped
      <4> QED
        BY <4>1 DEF BusCommands
    <3>2. c.rank \in Ranks
      BY <3>1, CommandParts
    <3>3. Fits(c)
      BY <2>2 DEF Agreement, CommandFits
    <3> HIDE DEF c
    <3>4. ASSUME NEW b \in Banks
          PROVE  /\ Within(Demand(c, b), bankStates'[c.rank][b], 1)
                 /\ Demand(c, b).nextActivate <= bankStates'[c.rank][b].nextActivate + 1
                 /\ b = c.bank \/ c.type = "REF" => Accepts(rankBanks'[c.rank][b], c, 1 - 1)
      <4> DEFINE s == bankStates[c.rank][b]
                 k == rankBanks[c.rank][b]
                 s2 == bankStates'[c.rank][b]
                 k2 == rankBanks'[c.rank][b]
                 d == Demand(c, b)
      <4>1. /\ Within(d, s, 0) /\ d.nextActivate <= s.nextActivate + 0
            /\ b = c.bank \/ c.type = "REF" => Accepts(k, c, 1 - 0)
        BY <1>2, <3>3 DEF Fits
      <4>2. /\ s \in BankTypes /\ k \in RankBankTypes
            /\ s.nextRead \in Nat /\ s.nextWrite \in Nat /\ s.nextPrecharge \in Nat /\ s.nextActivate \in Nat
            /\ k.nextRead \in Nat /\ k.nextWrite \in Nat /\ k.nextPrecharge \in Nat /\ k.nextActivate \in Nat
        BY <3>2, AgreeingTypes
      <4>3. s2 = TickBank(s) /\ k2 = TickBank(k)
        BY <1>5, <3>2
      <4>4. /\ s2.nextRead = Tick(s.nextRead) /\ s2.nextWrite = Tick(s.nextWrite)
            /\ s2.nextPrecharge = Tick(s.nextPrecharge) /\ s2.nextActivate = Tick(s.nextActivate)
        BY <1>3, <4>2, <4>3
      <4>5. /\ k2.state = k.state /\ k2.row = k.row
            /\ k2.nextRead = Tick(k.nextRead) /\ k2.nextWrite = Tick(k.nextWrite)
            /\ k2.nextPrecharge = Tick(k.nextPrecharge) /\ k2.nextActivate = Tick(k.nextActivate)
        BY <1>4, <4>2, <4>3
      <4>6. d \in RankBankTypes
        BY <3>1, DemandParts
      <4> HIDE DEF s, k, s2, k2, d
      <4>7. /\ d.nextRead \in Nat /\ d.nextWrite \in Nat /\ d.nextPrecharge \in Nat /\ d.nextActivate \in Nat
        BY <4>6 DEF RankBankTypes
      <4>8. Within(d, s2, 1) /\ d.nextActivate <= s2.nextActivate + 1
        <5>1. /\ d.nextRead <= s.nextRead + 0 /\ d.nextWrite <= s.nextWrite + 0
              /\ d.nextPrecharge <= s.nextPrecharge + 0 /\ d.nextActivate <= s.nextActivate + 0
          BY <4>1 DEF Within
        <5>2. /\ d.nextRead <= Tick(s.nextRead) + 1 /\ d.nextWrite <= Tick(s.nextWrite) + 1
              /\ d.nextPrecharge <= Tick(s.nextPrecharge) + 1
              /\ d.nextActivate <= Tick(s.nextActivate) + 1
          BY <4>2, <4>7, <5>1, TickOne
        <5> QED
          BY <4>4, <5>2 DEF Within
      <4>9. ASSUME Accepts(k, c, 1 - 0) PROVE Accepts(k2, c, 1 - 1)
        <5>1. /\ k.nextRead <= 1 - 0 => Tick(k.nextRead) <= 1 - 1
              /\ k.nextWrite <= 1 - 0 => Tick(k.nextWrite) <= 1 - 1
              /\ k.nextPrecharge <= 1 - 0 => Tick(k.nextPrecharge) <= 1 - 1
              /\ k.nextActivate <= 1 - 0 => Tick(k.nextActivate) <= 1 - 1
          BY <4>2, TickOne
        <5> QED
          BY <4>5, <4>9, <5>1 DEF Accepts
      <4> QED
        BY <4>1, <4>8, <4>9 DEF s2, k2, d
    <3>5. ~IsReservedRA(c.row)
      BY <3>3 DEF Fits
    <3> QED
      BY <1>1, <1>2, <3>4, <3>5 DEF CommandFits, Fits, c
  <2> QED
    BY <2>1, <2>2
<1>9. fault' # "check"
  BY <1>1 DEF Agreement
<1> QED
  BY <1>6, <1>7, <1>8, <1>9 DEF Agreement

(* The row that switches the mode is reserved.                             *)
LEMMA ModeRowReserved == IsReservedRA(PIM_ABMR_RA)
  BY DEF IsReservedRA, PIM_ABMR_RA

(* updateBankState: a bank that closes or refreshes is idle in the end.    *)
LEMMA CountsOn ==
  ASSUME NEW s \in BankTypes, Counts(s)
  PROVE  /\ Counts(CountBank(s)) /\ CountBank(s).row = s.row
         /\ CountBank(s).nextRead = s.nextRead /\ CountBank(s).nextWrite = s.nextWrite
         /\ CountBank(s).nextPrecharge = s.nextPrecharge
         /\ CountBank(s).nextActivate = s.nextActivate
         /\ CountBank(s).state = "RowActive" <=> s.state = "RowActive"
<1> DEFINE a == CountBank(s)
           n == s.countdown
<1>1. n \in Nat
  BY BankTimes
<1>2. /\ a.countdown = Tick(n) /\ a.state = (IF n = 1 THEN "Idle" ELSE s.state)
      /\ a.row = s.row /\ a.nextRead = s.nextRead /\ a.nextWrite = s.nextWrite
      /\ a.nextPrecharge = s.nextPrecharge /\ a.nextActivate = s.nextActivate
  BY DEF CountBank, BankTypes
<1>3. n = 0 <=> s.state \in {"Idle", "RowActive"}
  BY DEF Counts
<1> HIDE DEF a, n
<1>4. Tick(n) = 0 <=> n \in {0, 1}
  BY <1>1 DEF Tick, Larger
<1>5. Counts(a)
  BY <1>2, <1>3, <1>4 DEF Counts
<1>6. a.state = "RowActive" <=> s.state = "RowActive"
  BY <1>2, <1>3
<1> QED
  BY <1>2, <1>5, <1>6 DEF a

(* A rank that is in single-bank mode stays there: the rows that switch    *)
(* the mode are reserved.                                                  *)
LEMMA ModeKept ==
  ASSUME RanksTyped, NEW c \in Commands, ~IsReservedRA(c.row), ReceiveCommand(c)
  PROVE  mode' = mode
<1>1. mode[c.rank] = "SB" /\ c.rank \in Ranks
  BY CommandParts DEF RanksTyped
<1>2. CASE AccessColumn(c)
  BY <1>1, <1>2 DEF AccessColumn, ExecutePIM, ControlPIM, WriteCrf, MoveData, IsPIMStep,
     IsRegisterWrite, pimVars
<1>3. CASE SwitchMode(c)
  <2>1. c.row # PIM_ABMR_RA
    BY ModeRowReserved
  <2>2. mode' = [mode EXCEPT ![c.rank] = mode[c.rank]]
    BY <1>1, <1>3, <2>1 DEF SwitchMode
  <2> QED
    BY <1>1, <2>2 DEF RanksTyped
<1> QED
  BY <1>2, <1>3 DEF ReceiveCommand

(* A rank finds a command that its banks accept in order.                  *)
LEMMA NotRefused ==
  ASSUME RanksTyped, NEW c \in Commands,
         \A b \in Banks : b = c.bank \/ c.type = "REF" => Accepts(rankBanks[c.rank][b], c, 0)
  PROVE  ~Refuses(c)
<1>1. /\ c.type \in {"ACTIVATE", "PRECHARGE", "REF", "READ", "WRITE"}
      /\ c.rank \in Ranks /\ c.bank \in Banks
  BY CommandParts
<1>2. mode[c.rank] = "SB"
  BY <1>1 DEF RanksTyped
<1>3. CASE c.type = "REF"
  <2>1. \A b \in Banks : rankBanks[c.rank][b].state = "Idle"
    BY <1>3 DEF Accepts
  <2> QED
    BY <1>3, <2>1 DEF Refuses, Check
<1>4. CASE c.type # "REF"
  <2> DEFINE k == rankBanks[c.rank][c.bank]
  <2>1. /\ k \in RankBankTypes /\ Accepts(k, c, 0)
    BY <1>1 DEF RanksTyped
  <2>2. /\ k.nextRead \in Nat /\ k.nextWrite \in Nat /\ k.nextPrecharge \in Nat /\ k.nextActivate \in Nat
    BY <2>1 DEF RankBankTypes
  <2> HIDE DEF k
  <2>3. /\ k.nextRead <= 0 => k.nextRead = 0 
        /\ k.nextWrite <= 0 => k.nextWrite = 0 
        /\ k.nextPrecharge <= 0 => k.nextPrecharge = 0 
        /\ k.nextActivate <= 0 => k.nextActivate = 0 
    BY <2>2
  <2>4. BankAllows(k, c.type, c.row)
    <3>1. CASE c.type = "READ"
      BY <2>1, <2>3, <3>1 DEF Accepts, BankAllows
    <3>2. CASE c.type = "WRITE"
      BY <2>1, <2>3, <3>2 DEF Accepts, BankAllows
    <3>3. CASE c.type = "ACTIVATE"
      BY <2>1, <2>3, <3>3 DEF Accepts, BankAllows
    <3>4. CASE c.type = "PRECHARGE"
      BY <2>1, <2>3, <3>4 DEF Accepts, BankAllows
    <3> QED
      BY <1>1, <1>4, <3>1, <3>2, <3>3, <3>4
  <2>5. Check(c)
    BY <1>2, <1>4, <2>4 DEF Check, k
  <2> QED
    BY <2>5 DEF Refuses
<1> QED
  BY <1>3, <1>4

(* A time that was within, or is demanded.                                 *)
LEMMA EitherWithin ==
  ASSUME NEW a \in Nat, NEW k \in Nat, NEW d \in Nat, NEW s \in Nat,
         a <= k \/ a <= d, k <= s + 1, d <= s + 1
  PROVE  a <= s + 1
  OBVIOUS

(* The command reaches its rank.                                           *)
LEMMA AgreementBus ==
  ASSUME tCMD = 1, ChannelTyped, ReadsSpaced, RanksTyped, Agreement, Bus
  PROVE  Agreement' /\ RanksTyped'
<1>1. /\ phase = "bus" /\ phase' = "refresh" /\ DriveBuses
      /\ bankStates' = [r \in Ranks |-> [b \in Banks |-> CountBank(bankStates[r][b])]]
  BY DEF Bus, DriveBuses, UpdateBankState
<1>2. Between = 1 /\ Between' = 0
  BY <1>1 DEF Between
<1>3. outgoingCmd # << >> =>
        /\ Head(outgoingCmd) = outgoingCmd[1] /\ outgoingCmd[1] \in BusCommands
        /\ outgoingCmd[1].cyclesLeft = 1
  <2>1. 1 .. 1 = {1}
    OBVIOUS
  <2> QED
    BY <2>1, ShortFront DEF ChannelTyped, BusesTyped, ReadsSpaced, BusTimed
<1>4. outgoingCmd' = << >>
  BY <1>1, <1>3 DEF DriveBuses, CommandTravels, CommandArrives
<1>5. CommandFits'
  BY <1>4 DEF CommandFits
<1>6. \A r \in Ranks : \A b \in Banks : BankAgrees(r, b)
  BY DEF Agreement
<1>7. ASSUME NEW r \in Ranks, NEW b \in Banks
      PROVE  LET s == bankStates[r][b]
                 a == bankStates'[r][b] IN
             /\ Counts(a) /\ ~IsReservedRA(a.row) /\ a.row = s.row
             /\ a.nextRead = s.nextRead /\ a.nextWrite = s.nextWrite
             /\ a.nextPrecharge = s.nextPrecharge /\ a.nextActivate = s.nextActivate
             /\ a.state = "RowActive" <=> s.state = "RowActive"
  <2>1. bankStates'[r][b] = CountBank(bankStates[r][b])
    BY <1>1
  <2>2. Counts(bankStates[r][b]) /\ ~IsReservedRA(bankStates[r][b].row) /\ bankStates[r][b] \in BankTypes
    BY <1>6, AgreeingTypes DEF BankAgrees
  <2> QED
    BY <2>1, <2>2, CountsOn
<1>8. CASE outgoingCmd = << >>
  <2>1. /\ UNCHANGED << mode, rankBanks >> /\ fault' # "check"
    BY <1>1, <1>8 DEF DriveBuses, CommandArrives, modeVars, pimVars, Agreement
  <2>2. ASSUME NEW r \in Ranks, NEW b \in Banks PROVE BankAgrees(r, b)'
    <3>1. Shown(r, b) = rankBanks[r][b] /\ Shown(r, b)' = rankBanks[r][b] /\ ~RefComing(r)
      BY <1>4, <1>8, <2>1 DEF Shown, RefComing
    <3>2. BankAgrees(r, b)
      BY <1>6
    <3> QED
      BY <1>7, <2>1, <3>1, <3>2 DEF BankAgrees, Within, SameRow
  <2> QED
    BY <1>5, <2>1, <2>2 DEF Agreement, RanksTyped
<1>9. CASE outgoingCmd # << >>
  <2> DEFINE c == outgoingCmd[1].cmd
  <2>1. c \in Commands
    BY <1>3, <1>9 DEF BusCommands
  <2>2. CommandArrives /\ Head(outgoingCmd).cmd = c
    BY <1>3, <1>9 DEF CommandArrives
  <2>3. ReceiveCommand(c) /\ (~Refuses(c) => fault' \in {"databus", fault})
    BY <1>1, <2>2 DEF DriveBuses
  <2>4. Fits(c)
    BY <1>9 DEF Agreement, CommandFits
  <2>5. \A r \in Ranks : \A b \in Banks :
          /\ Shown(r, b) = IF r = c.rank THEN Opened(c, b, rankBanks[r][b]) ELSE rankBanks[r][b]
          /\ RefComing(r) <=> c.type = "REF" /\ r = c.rank
          /\ Shown(r, b)' = rankBanks'[r][b]
    BY <1>4, <1>9 DEF Shown, RefComing
  <2> HIDE DEF c
  <2>6. c.rank \in Ranks /\ ~IsReservedRA(c.row)
    BY <2>1, <2>4, CommandParts DEF Fits
  <2>7. mode[c.rank] = "SB" /\ mode' = mode
    BY <2>1, <2>3, <2>6, ModeKept DEF RanksTyped
  <2>8. rankBanks' = [rankBanks EXCEPT ![c.rank] = [b \in Banks |-> Received(c, b, rankBanks[c.rank][b])]]
    <3>1. rankBanks' = [rankBanks EXCEPT ![c.rank] = BanksAfter(c)]
      BY <2>3, <2>6 DEF ReceiveCommand
    <3>2. BanksAfter(c) = [b \in Banks |-> Received(c, b, rankBanks[c.rank][b])]
      <4>1. \A b \in Banks : (TRUE => SameBankgroup(b, c.bank)) = SameBankgroup(b, c.bank)
        BY DEF SameBankgroup
      <4>2. BanksAfter(c) = [b \in Banks |->
              UpdateBank(rankBanks[c.rank][b], c.type, c.row, b = c.bank,
                         TRUE => SameBankgroup(b, c.bank))]
        BY <2>7 DEF BanksAfter
      <4> QED
        BY <4>1, <4>2 DEF Received
    <3> QED
      BY <3>1, <3>2
  <2>9. \A b \in Banks : RankBankAfter(c, b, rankBanks[c.rank][b], Received(c, b, rankBanks[c.rank][b]))
    BY <2>1, <2>6, RankBank DEF RanksTyped
  <2>10. \A r \in Ranks : \A b \in Banks :
           rankBanks'[r][b] = IF r = c.rank THEN Received(c, b, rankBanks[c.rank][b])
                                            ELSE rankBanks[r][b]
    BY <2>6, <2>8 DEF RanksTyped
  <2>11. RanksTyped'
    <3>1. \A b \in Banks : Received(c, b, rankBanks[c.rank][b]) \in RankBankTypes
      BY <2>9 DEF RankBankAfter
    <3>2. rankBanks' \in [Ranks -> [Banks -> RankBankTypes]]
      BY <2>6, <2>8, <3>1 DEF RanksTyped
    <3> QED
      BY <2>7, <3>2 DEF RanksTyped
  <2>12. ASSUME NEW r \in Ranks, NEW b \in Banks PROVE BankAgrees(r, b)'
    <3> DEFINE s == bankStates[r][b]
               a == bankStates'[r][b]
               k == rankBanks[r][b]
               k2 == rankBanks'[r][b]
               d == Demand(c, b)
    <3>1. /\ Counts(a) /\ ~IsReservedRA(a.row) /\ a.row = s.row
          /\ a.nextRead = s.nextRead /\ a.nextWrite = s.nextWrite
          /\ a.nextPrecharge = s.nextPrecharge /\ a.nextActivate = s.nextActivate
          /\ a.state = "RowActive" <=> s.state = "RowActive"
      BY <1>7
    <3>2. /\ Within(k, s, 1) /\ SameRow(Shown(r, b), s)
          /\ (c.type = "REF" /\ r = c.rank) \/ k.nextActivate <= s.nextActivate + 1
      BY <1>6, <2>5 DEF BankAgrees
    <3>3. k2 = IF r = c.rank THEN Received(c, b, rankBanks[c.rank][b]) ELSE k
      BY <2>10
    <3>4. Shown(r, b)' = k2 /\ Shown(r, b) = IF r = c.rank THEN Opened(c, b, k) ELSE k
      BY <2>5
    <3>5. /\ s.nextRead \in Nat /\ s.nextWrite \in Nat /\ s.nextPrecharge \in Nat /\ s.nextActivate \in Nat
          /\ k.nextRead \in Nat /\ k.nextWrite \in Nat /\ k.nextPrecharge \in Nat /\ k.nextActivate \in Nat
      BY AgreeingTypes
    <3>6. /\ k2.nextRead \in Nat /\ k2.nextWrite \in Nat /\ k2.nextPrecharge \in Nat /\ k2.nextActivate \in Nat
      <4>1. k2 \in RankBankTypes
        BY <2>11 DEF RanksTyped
      <4> QED
        BY <4>1 DEF RankBankTypes
    <3>7. d.nextRead \in Nat /\ d.nextWrite \in Nat /\ d.nextPrecharge \in Nat /\ d.nextActivate \in Nat
      BY <2>1, DemandParts DEF RankBankTypes
    <3>8. r = c.rank => /\ Within(d, s, 1) /\ d.nextActivate <= s.nextActivate + 1
                        /\ RankBankAfter(c, b, k, k2)
      BY <1>2, <2>4, <2>9, <3>3 DEF Fits
    <3> HIDE DEF s, a, k, k2, d
    <3>9. CASE r # c.rank
      <4>1. k2 = k /\ Shown(r, b) = k
        BY <3>3, <3>4, <3>9
      <4>2. Within(k2, a, 1) /\ k2.nextActivate <= a.nextActivate + 1
        BY <3>1, <3>2, <3>9, <4>1 DEF Within
      <4>3. SameRow(k2, a)
        BY <3>1, <3>2, <4>1 DEF SameRow
      <4> QED
        BY <3>1, <3>4, <4>2, <4>3 DEF BankAgrees, a, k2
    <3>10. CASE r = c.rank
      <4>1. /\ k2.nextRead <= k.nextRead \/ k2.nextRead <= d.nextRead
            /\ k2.nextWrite <= k.nextWrite \/ k2.nextWrite <= d.nextWrite
            /\ k2.nextPrecharge <= k.nextPrecharge \/ k2.nextPrecharge <= d.nextPrecharge
            /\ \/ k2.nextActivate <= d.nextActivate
               \/ c.type # "REF" /\ k2.nextActivate <= k.nextActivate
            /\ k2.state = Opened(c, b, k).state /\ k2.row = Opened(c, b, k).row
        BY <3>8, <3>10 DEF RankBankAfter, NoLater, d
      <4>2. /\ k.nextRead <= s.nextRead + 1 /\ d.nextRead <= s.nextRead + 1
            /\ k.nextWrite <= s.nextWrite + 1 /\ d.nextWrite <= s.nextWrite + 1
            /\ k.nextPrecharge <= s.nextPrecharge + 1 /\ d.nextPrecharge <= s.nextPrecharge + 1
            /\ d.nextActivate <= s.nextActivate + 1
            /\ c.type # "REF" => k.nextActivate <= s.nextActivate + 1
        BY <3>2, <3>8, <3>10 DEF Within
      <4>3. /\ k2.nextRead <= s.nextRead + 1 /\ k2.nextWrite <= s.nextWrite + 1
            /\ k2.nextPrecharge <= s.nextPrecharge + 1
        BY <3>5, <3>6, <3>7, <4>1, <4>2, EitherWithin
      <4>4. k2.nextActivate <= s.nextActivate + 1
        <5>1. CASE k2.nextActivate <= d.nextActivate
          BY <3>5, <3>6, <3>7, <4>2, <5>1, EitherWithin
        <5>2. CASE c.type # "REF" /\ k2.nextActivate <= k.nextActivate
          BY <3>5, <3>6, <3>7, <4>2, <5>2, EitherWithin
        <5> QED
          BY <4>1, <5>1, <5>2
      <4>5. SameRow(k2, a)
        BY <3>1, <3>2, <3>4, <3>10, <4>1 DEF SameRow
      <4>6. Within(k2, a, 1) /\ k2.nextActivate <= a.nextActivate + 1
        BY <3>1, <4>3, <4>4 DEF Within
      <4> QED
        BY <3>1, <3>4, <4>5, <4>6 DEF BankAgrees, a, k2
    <3> QED
      BY <3>9, <3>10
  <2>13. ~Refuses(c)
    <3>1. \A b \in Banks : b = c.bank \/ c.type = "REF" => Accepts(rankBanks[c.rank][b], c, 1 - 1)
      BY <1>2, <2>4 DEF Fits
    <3>2. 1 - 1 = 0
      OBVIOUS
    <3> QED
      BY <2>1, <3>1, <3>2, NotRefused
  <2>14. fault' # "check"
    BY <2>3, <2>13 DEF Agreement
  <2> QED
    BY <1>5, <2>11, <2>12, <2>14 DEF Agreement
<1> QED
  BY <1>8, <1>9

(* At the start all rows are closed and no time has to pass.               *)
LEMMA AgreementInit == Init => Agreement /\ RanksTyped /\ BusFree
<1> SUFFICES ASSUME Init PROVE Agreement /\ RanksTyped /\ BusFree
  OBVIOUS
<1>1. /\ rankBanks = [r \in Ranks |-> [b \in Banks |-> IdleRankBank]]
      /\ bankStates = [r \in Ranks |-> [b \in Banks |-> IdleBank]]
      /\ outgoingCmd = << >> /\ mode = [r \in Ranks |-> "SB"] /\ fault = "none"
  BY DEF Init, RankInit, PIMInit, ControllerInit
<1>2. RanksTyped
  BY <1>1, IdleTyped DEF RanksTyped
<1>3. \A r \in Ranks : \A b \in Banks : BankAgrees(r, b)
  <2>1. \A r \in Ranks : \A b \in Banks :
          rankBanks[r][b] = IdleRankBank /\ bankStates[r][b] = IdleBank /\ Shown(r, b) = IdleRankBank
    BY <1>1 DEF Shown
  <2>2. /\ Counts(IdleBank) /\ ~IsReservedRA(IdleBank.row) /\ Within(IdleRankBank, IdleBank, 1)
        /\ IdleRankBank.nextActivate <= IdleBank.nextActivate + 1 /\ SameRow(IdleRankBank, IdleBank)
    BY PlainZero DEF IdleBank, IdleRankBank, Counts, Within, SameRow
  <2> QED
    BY <2>1, <2>2 DEF BankAgrees
<1> QED
  BY <1>1, <1>2, <1>3 DEF Agreement, CommandFits, BusFree

(* Every step keeps it so, if a command takes one cycle.                   *)
LEMMA BusFreeNext ==
  ASSUME tCMD = 1
  PROVE  ChannelTyped /\ ReadsSpaced /\ BusFree /\ [Next]_vars => BusFree'
<1> SUFFICES ASSUME ChannelTyped, ReadsSpaced, BusFree, [Next]_vars PROVE BusFree'
  OBVIOUS
<1>1. CASE Bus
  <2>1. NothingOnBus \/ StillOnBus \/ \E c \in Commands : Arrives(c)
    BY <1>1, BusSteps DEF ChannelTyped
  <2>2. ~StillOnBus
    <3>1. 1 .. 1 = {1}
      OBVIOUS
    <3> QED
      BY <3>1 DEF StillOnBus, ReadsSpaced, BusTimed
  <2> QED
    BY <2>1, <2>2 DEF NothingOnBus, Arrives, BusFree
<1>2. CASE ClientStep
  BY <1>2 DEF ClientStep, AddTransaction, AddBarrier, RunReturns, ChannelUnchanged, BusFree
<1>3. CASE RefreshTimers
  BY <1>3 DEF RefreshTimers, UpdateRefresh, BusFree
<1>4. CASE BeginUpdate \/ AcceptPending \/ Command \/ Dispatch \/ EndUpdate
  BY <1>4 DEF BeginUpdate, AcceptPending, Command, Dispatch, EndUpdate, BusFree
<1>5. CASE UNCHANGED vars
  BY <1>5 DEF vars, controllerVars, BusFree
<1> QED
  BY <1>1, <1>2, <1>3, <1>4, <1>5 DEF Next, UpdateStep

(* Every step keeps the agreement.                                         *)
LEMMA AgreementNext ==
  ASSUME tCMD = 1, tWTRS <= tWTRL, PlainRows
  PROVE  ChannelTyped /\ ReadsSpaced /\ CommandsOnce /\ BusFree /\ RanksTyped /\ Agreement
           /\ [Next]_vars => Agreement' /\ RanksTyped'
<1> SUFFICES ASSUME ChannelTyped, ReadsSpaced, CommandsOnce, BusFree, RanksTyped, Agreement,
                    [Next]_vars
             PROVE  Agreement' /\ RanksTyped'
  OBVIOUS
<1>1. ASSUME UNCHANGED << rankBanks, bankStates, outgoingCmd, mode >>,
             Between' = Between, fault' # "check"
      PROVE  Agreement' /\ RanksTyped'
  BY <1>1, AgreementIdle DEF RanksTyped
<1> USE DEF Between
<1>2. CASE ClientStep
  <2>1. ChannelUnchanged /\ phase' = phase
    BY <1>2 DEF ClientStep, AddTransaction, AddBarrier, RunReturns
  <2> QED
    BY <1>1, <2>1 DEF ChannelUnchanged, rankVars, modeVars, pimVars, Agreement
<1>3. CASE BeginUpdate
  BY <1>1, <1>3 DEF BeginUpdate, UpdateRanks, modeVars, pimVars, Agreement
<1>4. CASE AcceptPending
  BY <1>1, <1>4 DEF AcceptPending, ChannelUnchanged, rankVars, modeVars, pimVars, Agreement
<1>5. CASE Bus
  BY <1>5, AgreementBus
<1>6. CASE RefreshTimers
  BY <1>1, <1>6 DEF RefreshTimers, UpdateRefresh, modeVars, pimVars, Agreement
<1>7. CASE Command
  <2>1. mode' = mode /\ rankBanks' = rankBanks
    BY <1>7 DEF Command, SendCommand, rankVars, modeVars, pimVars
  <2> QED
    BY <1>7, <2>1, AgreementCommand DEF RanksTyped
<1>8. CASE Dispatch
  <2>1. fault' \in {fault, "enqueue"}
    BY <1>8 DEF Dispatch, UpdateTransactionQueue, Enqueue
  <2> QED
    BY <1>1, <1>8, <2>1 DEF Dispatch, UpdateTransactionQueue, rankVars, modeVars, pimVars, Agreement
<1>9. CASE EndUpdate
  BY <1>9, AgreementEnd
<1>10. CASE UNCHANGED vars
  BY <1>1, <1>10 DEF vars, rankVars, controllerVars, modeVars, pimVars, Agreement
<1> QED
  BY <1>2, <1>3, <1>4, <1>5, <1>6, <1>7, <1>8, <1>9, <1>10 DEF Next, UpdateStep

(* No rank ever refuses a command: whatever the geometry, the policy, the  *)
(* queues and the client, the bookkeeping of the controller (BankState,    *)
(* setBankStates) is enough for every check of Rank::receiveFromBus, for   *)
(* rows of cells, if a command takes one cycle and a read after a write    *)
(* waits no longer in another bank group than in the same.                 *)
THEOREM RanksAgreeAlways ==
  ASSUME tCMD = 1, tWTRS <= tWTRL, PlainRows
  PROVE  Spec => []RanksAgree
<1> DEFINE Inv == /\ ChannelTyped /\ ReadsSpaced /\ FrontDistinct /\ CommandsOnce /\ BusFree
                  /\ RanksTyped /\ Agreement
<1>1. Init => Inv
  BY ChannelTypedInit, ReadsSpacedInit, FrontDistinctInit, CommandsOnceInit, AgreementInit
<1>2. Inv /\ [Next]_vars => Inv'
  BY ChannelTypedNext, ReadsSpacedNext, FrontDistinctNext, CommandsOnceNext, BusFreeNext,
     AgreementNext
<1>3. Inv => RanksAgree
  BY DEF Agreement, RanksAgree
<1> QED
  BY <1>1, <1>2, <1>3, PTL DEF Spec

-----------------------------------------------------------------------------

(* No refresh is lost.                                                     *)

(* At the start no refresh is expected.                                    *)
LEMMA RefreshNotLostInit == Init => RefreshNotLost
  BY DEF Init, RankInit, RefreshNotLost

(* Without a command on the bus the refresh is in the slot.                *)
LEMMA RefreshOnBusLost ==
  ASSUME outgoingCmd = << >>, RefreshNotLost, NEW r \in Ranks, rankRefreshWaiting[r]
  PROVE  refreshWaiting /\ refreshRank = r
  BY DEF RefreshNotLost

(* A rank stops to expect the refresh when it arrives.                     *)
LEMMA RefreshNotLostBus ==
  ASSUME tCMD = 1, ChannelTyped, ReadsSpaced, RefreshNotLost, rankRefreshWaiting \in [Ranks -> BOOLEAN], Bus
  PROVE  RefreshNotLost' /\ rankRefreshWaiting' \in [Ranks -> BOOLEAN]
<1>1. /\ refreshWaiting' = refreshWaiting /\ refreshRank' = refreshRank
      /\ \/ CommandArrives /\ ReceiveCommand(Head(outgoingCmd).cmd)
         \/ ~CommandArrives /\ rankRefreshWaiting' = rankRefreshWaiting
  BY DEF Bus, DriveBuses, commandQueueVars
<1>2. ASSUME outgoingCmd # << >>
      PROVE  /\ Head(outgoingCmd) = outgoingCmd[1] /\ outgoingCmd[1].cmd \in Commands
             /\ DOMAIN outgoingCmd = {1}
  <2>1. Head(outgoingCmd) = outgoingCmd[1] /\ outgoingCmd[1] \in BusCommands
    BY <1>2, ShortFront DEF ChannelTyped, BusesTyped
  <2>2. Len(outgoingCmd) = 1 /\ DOMAIN outgoingCmd = 1 .. Len(outgoingCmd)
    BY <1>2 DEF ChannelTyped, BusesTyped, IsShort
  <2>3. 1 .. 1 = {1}
    OBVIOUS
  <2> QED
    BY <2>1, <2>2, <2>3 DEF BusCommands
<1>3. NothingOnBus \/ StillOnBus \/ \E c \in Commands : Arrives(c)
  BY BusSteps DEF ChannelTyped
<1>4. ~StillOnBus
  <2>1. 1 .. 1 = {1}
    OBVIOUS
  <2> QED
    BY <2>1 DEF StillOnBus, ReadsSpaced, BusTimed
<1>5. CASE NothingOnBus
  <2>1. rankRefreshWaiting' = rankRefreshWaiting
    BY <1>1, <1>5 DEF NothingOnBus, CommandArrives
  <2>2. \A r \in Ranks : rankRefreshWaiting[r] => refreshWaiting /\ refreshRank = r
    BY <1>5, RefreshOnBusLost DEF NothingOnBus
  <2> QED
    BY <1>1, <2>1, <2>2 DEF RefreshNotLost
<1>6. CASE \E c \in Commands : Arrives(c)
  <2>1. PICK c \in Commands : Arrives(c)
    BY <1>6
  <2>2. /\ outgoingCmd # << >> /\ outgoingCmd[1].cmd = c /\ outgoingCmd[1].cyclesLeft = 1
    BY <2>1 DEF Arrives
  <2>3. rankRefreshWaiting' =
          [rankRefreshWaiting EXCEPT ![c.rank] = rankRefreshWaiting[c.rank] /\ c.type # "REF"]
    BY <1>1, <1>2, <2>2 DEF CommandArrives, ReceiveCommand
  <2>4. c.rank \in Ranks
    BY CommandParts
  <2>5. ASSUME NEW r \in Ranks, rankRefreshWaiting'[r] PROVE refreshWaiting /\ refreshRank = r
    <3>1. rankRefreshWaiting[r] /\ ~(c.rank = r /\ c.type = "REF")
      BY <2>3, <2>4, <2>5
    <3>2. ~(\E i \in DOMAIN outgoingCmd : outgoingCmd[i].cmd.type = "REF" /\ outgoingCmd[i].cmd.rank = r)
      BY <1>2, <2>2, <3>1
    <3> QED
      BY <3>1, <3>2 DEF RefreshNotLost
  <2>6. rankRefreshWaiting' \in [Ranks -> BOOLEAN]
    BY <2>3
  <2> QED
    BY <1>1, <2>5, <2>6 DEF RefreshNotLost
<1> QED
  BY <1>3, <1>4, <1>5, <1>6

(* The refresh leaves the slot for the command bus.                        *)
LEMMA RefreshNotLostCommand ==
  ASSUME BusFree, RefreshNotLost, Command
  PROVE  RefreshNotLost'
<1>1. /\ SendRefresh \/ SendPrechargeForRefresh \/ SendColumn
           \/ SendActivate \/ SendPrecharge \/ SendNothing
      /\ rankRefreshWaiting' = rankRefreshWaiting /\ refreshRank' = refreshRank
      /\ outgoingCmd = << >>
  BY DEF Command, SendCommand, BusFree, rankVars, SendRefresh, SendPrechargeForRefresh, SendColumn,
         SendActivate, SendPrecharge, SendNothing, PopRefresh, PopPrechargeForRefresh, PopColumn,
         PopActivate, PopPrecharge, PopNothing, commandQueueVars
<1>2. \A r \in Ranks : rankRefreshWaiting[r] => refreshWaiting /\ refreshRank = r
  BY <1>1, RefreshOnBusLost
<1>3. CASE SendRefresh
  <2>1. outgoingCmd' = << [cmd |-> Refresh(refreshRank), cyclesLeft |-> tCMD] >>
    BY <1>3 DEF SendRefresh, UpdateCommandQueue
  <2>2. /\ 1 \in DOMAIN outgoingCmd' /\ outgoingCmd'[1].cmd.type = "REF"
        /\ outgoingCmd'[1].cmd.rank = refreshRank
    BY <2>1 DEF Refresh
  <2> QED
    BY <1>1, <1>2, <2>2 DEF RefreshNotLost
<1>4. CASE ~SendRefresh
  <2>1. refreshWaiting' = refreshWaiting
    BY <1>1, <1>4 DEF SendPrechargeForRefresh, SendColumn, SendActivate, SendPrecharge, SendNothing,
          PopPrechargeForRefresh, PopColumn, PopActivate, PopPrecharge, PopNothing, commandQueueVars
  <2> QED
    BY <1>1, <1>2, <2>1 DEF RefreshNotLost
<1> QED
  BY <1>3, <1>4

(* The next refresh falls due after the slot has been emptied.             *)
SlotServed ==
  phase = "refresh" /\ refreshCountdown[nextRefresh] = 0 /\ refreshWaiting
    => refreshRank = nextRefresh

(* needRefresh fills the slot.                                             *)
LEMMA RefreshNotLostTimers ==
  ASSUME BusFree, SlotServed, ChannelTyped, rankRefreshWaiting \in [Ranks -> BOOLEAN],
         RefreshNotLost, RefreshTimers
  PROVE  RefreshNotLost' /\ rankRefreshWaiting' \in [Ranks -> BOOLEAN]
<1>1. /\ phase = "refresh" /\ outgoingCmd = << >> /\ nextRefresh \in Ranks
  BY DEF RefreshTimers, BusFree, ChannelTyped
<1>2. \A r \in Ranks : rankRefreshWaiting[r] => refreshWaiting /\ refreshRank = r
  BY <1>1, RefreshOnBusLost
<1>3. CASE refreshCountdown[nextRefresh] = 0
  <2>1. /\ refreshWaiting' = TRUE /\ refreshRank' = nextRefresh
        /\ rankRefreshWaiting' = [rankRefreshWaiting EXCEPT ![nextRefresh] = TRUE]
    BY <1>3 DEF RefreshTimers, UpdateRefresh, NeedRefresh
  <2>2. \A r \in Ranks : rankRefreshWaiting[r] => r = nextRefresh
    BY <1>1, <1>2, <1>3 DEF SlotServed
  <2>3. \A r \in Ranks : rankRefreshWaiting'[r] => r = nextRefresh
    BY <1>1, <2>1, <2>2
  <2>4. rankRefreshWaiting' \in [Ranks -> BOOLEAN]
    BY <1>1, <2>1
  <2> QED
    BY <2>1, <2>3, <2>4 DEF RefreshNotLost
<1>4. CASE refreshCountdown[nextRefresh] # 0
  <2>1. UNCHANGED << refreshWaiting, refreshRank, rankRefreshWaiting >>
    BY <1>4 DEF RefreshTimers, UpdateRefresh
  <2> QED
    BY <1>2, <2>1 DEF RefreshNotLost
<1> QED
  BY <1>3, <1>4

(* Every step keeps the refreshes.                                         *)
LEMMA RefreshNotLostNext ==
  ASSUME tCMD = 1
  PROVE  /\ ChannelTyped /\ ReadsSpaced /\ BusFree /\ rankRefreshWaiting \in [Ranks -> BOOLEAN]
         /\ RefreshNotLost /\ SlotServed /\ [Next]_vars
         => RefreshNotLost' /\ rankRefreshWaiting' \in [Ranks -> BOOLEAN]
<1> SUFFICES ASSUME ChannelTyped, ReadsSpaced, BusFree, rankRefreshWaiting \in [Ranks -> BOOLEAN],
                    RefreshNotLost, SlotServed, [Next]_vars
             PROVE  RefreshNotLost' /\ rankRefreshWaiting' \in [Ranks -> BOOLEAN]
  OBVIOUS
<1>1. CASE Bus
  BY <1>1, RefreshNotLostBus
<1>2. CASE Command
  <2>1. rankRefreshWaiting' = rankRefreshWaiting
    BY <1>2 DEF Command, SendCommand, rankVars
  <2> QED
    BY <1>2, <2>1, RefreshNotLostCommand
<1>3. CASE RefreshTimers
  BY <1>3, RefreshNotLostTimers
<1>4. CASE ClientStep \/ BeginUpdate \/ AcceptPending \/ Dispatch \/ EndUpdate \/ UNCHANGED vars
  <2>1. UNCHANGED << outgoingCmd, refreshWaiting, refreshRank, rankRefreshWaiting >>
    <3>1. CASE ClientStep \/ AcceptPending
      BY <3>1 DEF ClientStep, AddTransaction, AddBarrier, RunReturns, AcceptPending, ChannelUnchanged,
                  rankVars, commandQueueVars
    <3>2. CASE BeginUpdate
      BY <3>2 DEF BeginUpdate, UpdateRanks, commandQueueVars
    <3>3. CASE Dispatch
      BY <3>3 DEF Dispatch, UpdateTransactionQueue, rankVars
    <3>4. CASE EndUpdate
      BY <3>4 DEF EndUpdate, TickController, commandQueueVars
    <3>5. CASE UNCHANGED vars
      BY <3>5 DEF vars, rankVars, commandQueueVars, controllerVars
    <3> QED
      BY <1>4, <3>1, <3>2, <3>3, <3>4, <3>5
  <2> QED
    BY <2>1 DEF RefreshNotLost
<1> QED
  BY <1>1, <1>2, <1>3, <1>4 DEF Next, UpdateStep

(* For any number of ranks, a refresh is lost only by a second one that    *)
(* falls due while the first is still in the slot, in needRefresh; nothing *)
(* else on the way from the timer to the rank loses it.                    *)
THEOREM RefreshNotLostUnlessOverwritten ==
  ASSUME tCMD = 1
  PROVE  Spec /\ []SlotServed => []RefreshNotLost
<1> DEFINE Inv == /\ ChannelTyped /\ ReadsSpaced /\ FrontDistinct /\ CommandsOnce /\ BusFree
                  /\ rankRefreshWaiting \in [Ranks -> BOOLEAN] /\ RefreshNotLost
<1>1. Init => Inv
  BY ChannelTypedInit, ReadsSpacedInit, FrontDistinctInit, CommandsOnceInit, AgreementInit,
     RefreshNotLostInit DEF Init, RankInit
<1>2. Inv /\ SlotServed /\ [Next]_vars => Inv'
  BY ChannelTypedNext, ReadsSpacedNext, FrontDistinctNext, CommandsOnceNext, BusFreeNext,
     RefreshNotLostNext
<1>3. Inv => RefreshNotLost
  OBVIOUS
<1> QED
  BY <1>1, <1>2, <1>3, PTL DEF Spec

(* With one rank, as in the shipped configurations, no refresh is lost,    *)
(* however long the scheduler puts it off.                                 *)
THEOREM RefreshNotLostAlways ==
  ASSUME tCMD = 1, NUM_RANKS = 1
  PROVE  Spec => []RefreshNotLost
<1>1. ChannelTyped => SlotServed
  <2>1. Ranks = {0}
    BY DEF Ranks
  <2> QED
    BY <2>1 DEF ChannelTyped, SlotServed
<1>2. Spec => []ChannelTyped
  BY ChannelTypedInit, ChannelTypedNext, PTL DEF Spec
<1> QED
  BY <1>1, <1>2, RefreshNotLostUnlessOverwritten, PTL

-----------------------------------------------------------------------------

(* A queue stands still only at a barrier.                                 *)

(* The accesses to an open row in front of which no barrier stands.        *)
OnOpenRow(r) ==
  {i \in 1 .. Len(queues[r]) :
     /\ bankStates[r][queues[r][i].addr.bank].state = "RowActive"
     /\ bankStates[r][queues[r][i].addr.bank].row = queues[r][i].addr.row
     /\ \A j \in 1 .. i - 1 : ~queues[r][j].bar}

(* What a queue that stands still holds.                                   *)
LEMMA QueueParts ==
  ASSUME ChannelTyped, CommandsOnce, NEW r \in Ranks, NEW i \in 1 .. Len(queues[r])
  PROVE  /\ queues[r][i].addr.rank = r /\ queues[r][i].addr.bank \in Banks
         /\ queues[r][i].type \in {"DATA_READ", "DATA_WRITE"}
<1>1. queues[r] \in Seq(Transactions)
  BY DEF ChannelTyped, QueuesTyped
<1>2. queues[r][i] \in Transactions
  BY <1>1
<1>3. queues[r][i] \in ToSet(queues[r])
  BY <1>1, ToSetMember
<1> QED
  BY <1>2, <1>3, TransactionParts DEF CommandsOnce

(* With all timers expired, an access to an open row can be issued.        *)
LEMMA OpenRowIssuable ==
  ASSUME ChannelTyped, CommandsOnce, NEW r \in Ranks, TimersExpired(r),
         NEW i \in 1 .. Len(queues[r]),
         bankStates[r][queues[r][i].addr.bank].state = "RowActive",
         bankStates[r][queues[r][i].addr.bank].row = queues[r][i].addr.row
  PROVE  ColumnIssuable(queues[r][i])
<1>1. queues[r][i].addr.rank = r /\ queues[r][i].addr.bank \in Banks
  BY QueueParts
<1> QED
  BY <1>1 DEF TimersExpired, ColumnIssuable

(* The first access to an open row that no barrier holds back can only     *)
(* fail to be issued as a barrier itself.                                  *)
LEMMA FirstOnOpenRow ==
  ASSUME ChannelTyped, CommandsOnce, NEW r \in Ranks, TimersExpired(r),
         OnOpenRow(r) # {}, ReadyColumns(r) = {}
  PROVE  \E i \in 2 .. Len(queues[r]) : queues[r][i].bar /\ ColumnIssuable(queues[r][i])
<1> DEFINE i == Min(OnOpenRow(r))
<1>1. queues[r] \in Seq(Transactions) /\ Len(queues[r]) \in Nat
  BY DEF ChannelTyped, QueuesTyped
<1>2. OnOpenRow(r) \subseteq Nat
  <2>1. OnOpenRow(r) \subseteq 1 .. Len(queues[r])
    BY ZenonT(30) DEF OnOpenRow
  <2> QED
    BY <1>1, <2>1
<1>3. i \in OnOpenRow(r) /\ \A j \in OnOpenRow(r) : i <= j
  BY <1>2, MinMember
<1> HIDE DEF i
<1>4. /\ i \in 1 .. Len(queues[r])
      /\ bankStates[r][queues[r][i].addr.bank].state = "RowActive"
      /\ bankStates[r][queues[r][i].addr.bank].row = queues[r][i].addr.row
      /\ \A j \in 1 .. i - 1 : ~queues[r][j].bar
  BY <1>3 DEF OnOpenRow
<1>5. ColumnIssuable(queues[r][i])
  BY <1>4, OpenRowIssuable
<1>6. CASE queues[r][i].bar /\ i # 1
  <2>1. i \in 2 .. Len(queues[r])
    BY <1>1, <1>4, <1>6
  <2> QED
    BY <2>1, <1>5, <1>6
<1>7. CASE ~(queues[r][i].bar /\ i # 1)
  <2>1. PICK j \in 1 .. i - 1 : SameBurst(queues[r][j], queues[r][i])
    BY <1>4, <1>5, <1>7 DEF ReadyColumns
  <2>2. j \in 1 .. Len(queues[r]) /\ j < i /\ \A k \in 1 .. j - 1 : k \in 1 .. i - 1
    BY <1>1, <1>4
  <2>3. j \in OnOpenRow(r)
    BY <1>4, <2>1, <2>2 DEF OnOpenRow, SameBurst
  <2> QED
    BY <1>3, <2>2, <2>3, <1>4, <1>1
<1> QED
  BY <1>6, <1>7

(* A queue stands still only with a barrier on an open row.                *)
LEMMA StandsAtBarrier ==
  ASSUME ChannelTyped, CommandsOnce, RanksTyped, Agreement, NEW r \in Ranks, StandsStill(r)
  PROVE  \E i \in 2 .. Len(queues[r]) : queues[r][i].bar /\ ColumnIssuable(queues[r][i])
<1>1. /\ queues[r] # << >> /\ TimersExpired(r) /\ Unwanted = {}
      /\ ReadyColumns(r) = {} /\ ReadyRows(r) = {}
  BY DEF StandsStill, HasCommand
<1>2. queues[r] \in Seq(Transactions) /\ 1 \in 1 .. Len(queues[r]) /\ Len(queues[r]) \in Nat
  BY <1>1 DEF ChannelTyped, QueuesTyped
<1> DEFINE b == queues[r][1].addr.bank
<1>3. b \in Banks /\ mode[r] = "SB"
  BY <1>2, QueueParts DEF RanksTyped
<1>4. bankStates[r][b].state \in {"Idle", "RowActive"} /\ bankStates[r][b].nextPrecharge = 0
        /\ bankStates[r][b].nextActivate = 0
  BY <1>1, <1>3 DEF TimersExpired, Agreement, BankAgrees, Counts
<1>5. bankStates[r][b].state = "RowActive"
  <2>1. \A j \in 2 .. 1 : FALSE
    OBVIOUS
  <2>2. ~ActivateIssuable(r, b) \/ bankStates[r][b].state # "Idle"
    BY <1>1, <1>2, <2>1 DEF ReadyRows
  <2> QED
    BY <1>3, <1>4, <2>2 DEF ActivateIssuable
<1>6. RowWanted(r, b)
  <2> DEFINE p == [rank |-> r, bank |-> b]
  <2>1. p \in [rank : Ranks, bank : Banks] /\ p.rank = r /\ p.bank = b
    BY <1>3
  <2>2. PrechargeIssuable(r, b)
    BY <1>4, <1>5 DEF PrechargeIssuable
  <2> HIDE DEF p
  <2> QED
    BY <1>1, <2>1, <2>2 DEF Unwanted
<1>7. OnOpenRow(r) # {}
  BY <1>6 DEF RowWanted, OnOpenRow
<1> QED
  BY <1>1, <1>7, FirstOnOpenRow

(* The scheduler does not fall asleep: whatever waits in a queue, when     *)
(* nothing is left to wait for CommandQueue::pop sends a command, or an    *)
(* access behind a barrier keeps a row open that the front of the queue    *)
(* needs closed.                                                           *)
THEOREM StandstillOnlyAtBarrierAlways ==
  ASSUME tCMD = 1, tWTRS <= tWTRL, PlainRows
  PROVE  Spec => []StandstillOnlyAtBarrier
<1> DEFINE Inv == /\ ChannelTyped /\ ReadsSpaced /\ FrontDistinct /\ CommandsOnce /\ BusFree
                  /\ RanksTyped /\ Agreement
<1>1. Init => Inv
  BY ChannelTypedInit, ReadsSpacedInit, FrontDistinctInit, CommandsOnceInit, AgreementInit
<1>2. Inv /\ [Next]_vars => Inv'
  BY ChannelTypedNext, ReadsSpacedNext, FrontDistinctNext, CommandsOnceNext, BusFreeNext,
     AgreementNext
<1>3. Inv => StandstillOnlyAtBarrier
  BY StandsAtBarrier DEF StandstillOnlyAtBarrier
<1> QED
  BY <1>1, <1>2, <1>3, PTL DEF Spec

-----------------------------------------------------------------------------

(* What every variable holds.                                              *)

(* What the types still need: the cursors of the scheduler, ...            *)
CursorsTyped ==
  /\ nextRank \in Ranks
  /\ nextPRE \in [rank : Ranks, bank : Banks]
  /\ refreshWaiting \in BOOLEAN
  /\ rankRefreshWaiting \in [Ranks -> BOOLEAN]

(* ... the place in the cycle and the reason of an exit, ...               *)
ControlTyped ==
  /\ phase \in {"client", "pending", "bus", "refresh", "command", "dispatch", "return"}
  /\ fault \in {"none", "check", "cmdbus", "databus", "enqueue", "nomatch"}

(* ... the queues, which are asked for room before a command is added, ... *)
QueuesBounded == \A r \in Ranks : Len(queues[r]) <= CMD_QUEUE_DEPTH

(* ... the latency of reads, ...                                           *)
LatencyBounded == \A r \in Ranks : \A i \in 1 .. Len(readReturn[r]) : readReturn[r][i].countdown <= RL

(* ... and the registers of the ranks, which no plain row changes.         *)
RegistersUntouched ==
  PIMInit /\ abmr = [r \in Ranks |-> {}] /\ sbmr = [r \in Ranks |-> {}]

(* They hold at the start.                                                 *)
LEMMA TypesInit ==
  Init => CursorsTyped /\ ControlTyped /\ QueuesBounded /\ LatencyBounded /\ RegistersUntouched
<1> SUFFICES ASSUME Init
             PROVE  CursorsTyped /\ ControlTyped /\ QueuesBounded /\ LatencyBounded /\ RegistersUntouched
  OBVIOUS
<1>1. 0 \in Ranks /\ 0 \in Banks /\ CMD_QUEUE_DEPTH >= 0
  BY GeometryAssumption, CommandQueueAssumption DEF Ranks, Banks
<1>2. CursorsTyped /\ ControlTyped
  BY <1>1 DEF Init, ControllerInit, CommandQueueInit, RankInit, CursorsTyped, ControlTyped
<1>3. QueuesBounded
  BY <1>1, EmptyMember DEF Init, ControllerInit, CommandQueueInit, QueuesBounded
<1>4. LatencyBounded
  <2>1. \A r \in Ranks : readReturn[r] = << >>
    BY DEF Init, RankInit
  <2>2. \A i \in 1 .. 0 : FALSE
    OBVIOUS
  <2> QED
    BY <2>1, <2>2, EmptyMember DEF LatencyBounded
<1>5. RegistersUntouched
  BY DEF Init, RankInit, RegistersUntouched
<1> QED
  BY <1>2, <1>3, <1>4, <1>5

(* The cursors are set to ranks and banks only.                            *)
LEMMA CursorsTypedNext ==
  ASSUME ChannelTyped, CursorsTyped, [Next]_vars
  PROVE  CursorsTyped'
<1>1. CASE Command
  <2>1. rankRefreshWaiting' = rankRefreshWaiting
    BY <1>1 DEF Command, SendCommand, rankVars
  <2>2. /\ nextRank' \in Ranks /\ nextPRE' \in [rank : Ranks, bank : Banks]
        /\ refreshWaiting' \in BOOLEAN
    BY <1>1 DEF Command, SendCommand, SendRefresh, SendPrechargeForRefresh, SendColumn, SendActivate,
                SendPrecharge, SendNothing, PopRefresh, PopPrechargeForRefresh, PopColumn,
                PopActivate, PopPrecharge, PopNothing, Unwanted, commandQueueVars, CursorsTyped
  <2> QED
    BY <2>1, <2>2 DEF CursorsTyped
<1>2. CASE RefreshTimers
  BY <1>2 DEF RefreshTimers, UpdateRefresh, NeedRefresh, CursorsTyped
<1>3. CASE Bus
  <2>1. UNCHANGED << nextRank, nextPRE, refreshWaiting >>
    BY <1>3 DEF Bus, DriveBuses, commandQueueVars
  <2>2. \/ \E c : ReceiveCommand(c)
        \/ rankRefreshWaiting' = rankRefreshWaiting
    BY <1>3 DEF Bus, DriveBuses
  <2>3. rankRefreshWaiting' \in [Ranks -> BOOLEAN]
    BY <2>2 DEF ReceiveCommand, CursorsTyped
  <2> QED
    BY <2>1, <2>3 DEF CursorsTyped
<1>4. CASE ClientStep \/ BeginUpdate \/ AcceptPending \/ Dispatch \/ EndUpdate \/ UNCHANGED vars
  <2>1. UNCHANGED << nextRank, nextPRE, refreshWaiting, rankRefreshWaiting >>
    <3>1. CASE ClientStep \/ AcceptPending
      BY <3>1 DEF ClientStep, AddTransaction, AddBarrier, RunReturns, AcceptPending, ChannelUnchanged,
                  rankVars, commandQueueVars
    <3>2. CASE BeginUpdate
      BY <3>2 DEF BeginUpdate, UpdateRanks, commandQueueVars
    <3>3. CASE Dispatch
      BY <3>3 DEF Dispatch, UpdateTransactionQueue, rankVars
    <3>4. CASE EndUpdate
      BY <3>4 DEF EndUpdate, TickController, commandQueueVars
    <3>5. CASE UNCHANGED vars
      BY <3>5 DEF vars, rankVars, commandQueueVars, controllerVars
    <3> QED
      BY <1>4, <3>1, <3>2, <3>3, <3>4, <3>5
  <2> QED
    BY <2>1 DEF CursorsTyped
<1> QED
  BY <1>1, <1>2, <1>3, <1>4 DEF Next, UpdateStep

(* Every step names its successor and, at most, one fault.                 *)
LEMMA ControlTypedNext ==
  ASSUME ControlTyped, [Next]_vars
  PROVE  ControlTyped'
<1>1. CASE ClientStep
  BY <1>1 DEF ClientStep, AddTransaction, AddBarrier, RunReturns, ChannelUnchanged, ControlTyped
<1>2. CASE BeginUpdate
  BY <1>2 DEF BeginUpdate, ControlTyped
<1>3. CASE AcceptPending
  BY <1>3 DEF AcceptPending, ChannelUnchanged, ControlTyped
<1>4. CASE Bus
  BY <1>4 DEF Bus, DriveBuses, ControlTyped
<1>5. CASE RefreshTimers
  BY <1>5 DEF RefreshTimers, UpdateRefresh, ControlTyped
<1>6. CASE Command
  <2>1. \A c : UpdateCommandQueue(c) => fault' \in {fault, "cmdbus"}
    BY DEF UpdateCommandQueue
  <2>2. phase' = "dispatch" /\ fault' \in {fault, "cmdbus"}
    BY <1>6, <2>1 DEF Command, SendCommand, SendRefresh, SendPrechargeForRefresh, SendColumn,
                      SendActivate, SendPrecharge, SendNothing
  <2> QED
    BY <2>2 DEF ControlTyped
<1>7. CASE Dispatch
  BY <1>7 DEF Dispatch, UpdateTransactionQueue, Enqueue, ControlTyped
<1>8. CASE EndUpdate
  BY <1>8 DEF EndUpdate, ReturnReadData, ReturnNothing, ReturnUnmatched, ControlTyped
<1>9. CASE UNCHANGED vars
  BY <1>9 DEF vars, controllerVars, ControlTyped
<1> QED
  BY <1>1, <1>2, <1>3, <1>4, <1>5, <1>6, <1>7, <1>8, <1>9 DEF Next, UpdateStep

(* A command is added to a queue with room only.                           *)
LEMMA QueuesBoundedNext ==
  ASSUME ChannelTyped, QueuesBounded, [Next]_vars
  PROVE  QueuesBounded'
<1>1. queues \in [Ranks -> Seq(Transactions)] /\ \A r \in Ranks : Len(queues[r]) \in Nat
  BY DEF ChannelTyped, QueuesTyped
<1>2. CASE Dispatch
  <2>1. CASE Dispatchable = {}
    BY <1>2, <2>1 DEF Dispatch, UpdateTransactionQueue, QueuesBounded
  <2>2. CASE Dispatchable # {}
    <3> DEFINE t == transactionQueue[Min(Dispatchable)]
    <3>1. Dispatchable \in SUBSET Nat
      BY DEF Dispatchable
    <3>2. Min(Dispatchable) \in Dispatchable
      BY <2>2, <3>1, MinMember
    <3>3. Len(queues[t.addr.rank]) < CMD_QUEUE_DEPTH /\ t \in Transactions
      <4>1. Min(Dispatchable) \in 1 .. Len(transactionQueue) /\ HasRoomFor(t.addr.rank)
        BY <3>2 DEF Dispatchable
      <4>2. transactionQueue \in Seq(Transactions)
        BY DEF ChannelTyped, QueuesTyped
      <4>3. t \in Transactions
        BY <4>1, <4>2, ElementOfSeq
      <4> QED
        BY <4>1, <4>3 DEF HasRoomFor
    <3>4. queues' = [queues EXCEPT ![t.addr.rank] = Append(queues[t.addr.rank], t)]
      BY <1>2, <2>2 DEF Dispatch, UpdateTransactionQueue, Enqueue
    <3> HIDE DEF t
    <3>5. t.addr.rank \in Ranks
      BY <3>3, TransactionParts
    <3>6. Len(Append(queues[t.addr.rank], t)) = Len(queues[t.addr.rank]) + 1
      BY <1>1, <3>3, <3>5, AppendMember
    <3>7. Len(queues[t.addr.rank]) + 1 <= CMD_QUEUE_DEPTH
      BY <1>1, <3>3, <3>5, CommandQueueAssumption
    <3> QED
      BY <1>1, <3>4, <3>5, <3>6, <3>7 DEF QueuesBounded
  <2> QED
    BY <2>1, <2>2
<1>3. CASE Command
  <2>1. CASE queues' = queues
    BY <2>1 DEF QueuesBounded
  <2>2. CASE \E r \in Ranks : \E i \in ReadyColumns(r) : SendsColumn(r, i)
    <3>1. PICK r \in Ranks : \E i \in ReadyColumns(r) : SendsColumn(r, i)
      BY <2>2
    <3>2. PICK i \in ReadyColumns(r) : SendsColumn(r, i)
      BY <3>1
    <3>3. queues' = [queues EXCEPT ![r] = RemoveAt(queues[r], i)] /\ i \in 1 .. Len(queues[r])
      BY <3>2 DEF SendsColumn, ReadyColumns
    <3>4. Len(RemoveAt(queues[r], i)) = Len(queues[r]) - 1
      BY <1>1, <3>3, RemoveAtMember
    <3>5. Len(queues[r]) - 1 <= CMD_QUEUE_DEPTH
      BY <1>1, CommandQueueAssumption DEF QueuesBounded
    <3> QED
      BY <1>1, <3>3, <3>4, <3>5 DEF QueuesBounded
  <2> QED
    BY <1>3, <2>1, <2>2, CommandSteps DEF SendsOther, SendsNone
<1>4. CASE ClientStep \/ BeginUpdate \/ AcceptPending \/ Bus \/ RefreshTimers \/ EndUpdate \/ UNCHANGED vars
  <2>1. queues' = queues
    <3>1. CASE ClientStep \/ AcceptPending
      BY <3>1 DEF ClientStep, AddTransaction, AddBarrier, RunReturns, AcceptPending, ChannelUnchanged,
                  commandQueueVars
    <3>2. CASE BeginUpdate
      BY <3>2 DEF BeginUpdate, commandQueueVars
    <3>3. CASE Bus
      BY <3>3 DEF Bus, DriveBuses, commandQueueVars
    <3>4. CASE EndUpdate
      BY <3>4 DEF EndUpdate, TickController, commandQueueVars
    <3>5. CASE RefreshTimers \/ UNCHANGED vars
      BY <3>5 DEF RefreshTimers, UpdateRefresh, vars, commandQueueVars
    <3> QED
      BY <1>4, <3>1, <3>2, <3>3, <3>4, <3>5
  <2> QED
    BY <2>1 DEF QueuesBounded
<1> QED
  BY <1>2, <1>3, <1>4 DEF Next, UpdateStep

(* A READ joins the line with its latency, and the line counts down.       *)
LEMMA LatencyBoundedNext ==
  ASSUME ChannelTyped, LatencyBounded, [Next]_vars
  PROVE  LatencyBounded'
<1>1. \A r \in Ranks : readReturn[r] \in Seq(Latencies) /\ IsLine(readReturn[r], rankData[r])
  BY DEF ChannelTyped, ReadLinesTyped
<1>2. \A r \in Ranks : \A i \in 1 .. Len(readReturn[r]) : readReturn[r][i].countdown \in Int
  <2> TAKE r \in Ranks
  <2> TAKE i \in 1 .. Len(readReturn[r])
  <2>1. readReturn[r] \in Seq(Latencies)
    BY <1>1
  <2>2. readReturn[r][i] \in Latencies
    BY <2>1, ElementOfSeq
  <2> QED
    BY <2>2 DEF Latencies
<1>3. RL \in Nat
  BY TimingAssumption
<1>4. CASE BeginUpdate
  <2>1. ASSUME NEW r \in Ranks, NEW i \in 1 .. Len(readReturn'[r])
        PROVE  readReturn'[r][i].countdown <= RL
    <3> DEFINE q == readReturn[r]
               q2 == NextLatencies(readReturn[r])
               out2 == NextBurst(readReturn[r], rankData[r])
    <3>1. readReturn'[r] = q2
      BY <1>4, BeginSteps DEF ChannelTyped
    <3>2. MovesUp(q, rankData[r], q2, out2) \/ StaysPut(q, rankData[r], q2, out2)
      BY <1>1, LineMoves
    <3>3. \A k \in 1 .. Len(q) : q[k].countdown \in Int /\ q[k].countdown <= RL
      BY <1>2 DEF LatencyBounded
    <3>4. i \in 1 .. Len(q2)
      BY <2>1, <3>1
    <3> HIDE DEF q, q2, out2
    <3>5. \E k \in 1 .. Len(q) : q2[i].countdown = q[k].countdown - 1
      BY <3>2, <3>4 DEF MovesUp, StaysPut
    <3>6. q2[i].countdown <= RL
      BY <1>3, <3>3, <3>5
    <3> QED
      BY <3>1, <3>6
  <2> QED
    BY <2>1 DEF LatencyBounded
<1>5. CASE Bus
  <2>1. CASE readReturn' = readReturn
    BY <2>1 DEF LatencyBounded
  <2>2. CASE \E c \in Commands : Arrives(c)
    <3>1. PICK c \in Commands : Arrives(c)
      BY <2>2
    <3>2. CASE c.type = "READ"
      <4> DEFINE e == [trans |-> c.trans, countdown |-> RL]
      <4>1. e \in Latencies /\ c.rank \in Ranks /\ e.countdown = RL
        BY <1>3, <3>2, CommandParts DEF Latencies
      <4>2. readReturn' = [readReturn EXCEPT ![c.rank] = Append(readReturn[c.rank], e)]
        BY <3>1, <3>2 DEF Arrives
      <4> HIDE DEF e
      <4>3. /\ Len(Append(readReturn[c.rank], e)) = Len(readReturn[c.rank]) + 1
            /\ \A i \in 1 .. Len(readReturn[c.rank]) + 1 :
                 Append(readReturn[c.rank], e)[i] =
                   IF i = Len(readReturn[c.rank]) + 1 THEN e ELSE readReturn[c.rank][i]
        BY <1>1, <4>1, AppendMember
      <4>4. \A i \in 1 .. Len(readReturn[c.rank]) + 1 :
               i = Len(readReturn[c.rank]) + 1 \/ i \in 1 .. Len(readReturn[c.rank])
        BY <1>1, <4>1, LenProperties
      <4>5. \A i \in 1 .. Len(Append(readReturn[c.rank], e)) :
               Append(readReturn[c.rank], e)[i].countdown <= RL
        BY <1>3, <4>1, <4>3, <4>4 DEF LatencyBounded
      <4>6. readReturn \in [Ranks -> Seq(Latencies)]
        BY DEF ChannelTyped, ReadLinesTyped
      <4> QED
        BY <4>1, <4>2, <4>5, <4>6 DEF LatencyBounded
    <3>3. CASE c.type # "READ"
      BY <3>1, <3>3 DEF Arrives, LatencyBounded
    <3> QED
      BY <3>2, <3>3
  <2> QED
    BY <1>5, <2>1, <2>2, BusSteps DEF ChannelTyped, NothingOnBus, StillOnBus
<1>6. CASE ClientStep \/ AcceptPending \/ RefreshTimers \/ Command \/ Dispatch \/ EndUpdate \/ UNCHANGED vars
  <2>1. readReturn' = readReturn
    <3>1. CASE ClientStep \/ AcceptPending
      BY <3>1 DEF ClientStep, AddTransaction, AddBarrier, RunReturns, AcceptPending, ChannelUnchanged,
                  rankVars
    <3>2. CASE RefreshTimers \/ EndUpdate
      BY <3>2 DEF RefreshTimers, UpdateRefresh, EndUpdate
    <3>3. CASE Command \/ Dispatch
      BY <3>3 DEF Command, SendCommand, Dispatch, UpdateTransactionQueue, rankVars
    <3>4. CASE UNCHANGED vars
      BY <3>4 DEF vars, rankVars
    <3> QED
      BY <1>6, <3>1, <3>2, <3>3, <3>4
  <2> QED
    BY <2>1 DEF LatencyBounded
<1> QED
  BY <1>4, <1>5, <1>6 DEF Next, UpdateStep

(* A command for a plain row changes no register.                          *)
LEMMA RegistersKept ==
  ASSUME RegistersUntouched, NEW c \in Commands, ~IsReservedRA(c.row), ReceiveCommand(c)
  PROVE  RegistersUntouched'
<1>1. mode[c.rank] = "SB" /\ c.rank \in Ranks
  BY CommandParts DEF RegistersUntouched, PIMInit
<1>2. CASE AccessColumn(c) /\ UNCHANGED << abmr, sbmr >>
  <2>1. UNCHANGED pimVars
    BY <1>1, <1>2 DEF AccessColumn, ExecutePIM, ControlPIM, WriteCrf, MoveData, IsPIMStep, IsRegisterWrite
  <2> QED
    BY <1>2, <2>1 DEF pimVars, RegistersUntouched, PIMInit
<1>3. CASE SwitchMode(c)
  <2>1. c.row # PIM_ABMR_RA
    BY ModeRowReserved
  <2>2. /\ mode' = [mode EXCEPT ![c.rank] = mode[c.rank]]
        /\ abmr' = [abmr EXCEPT ![c.rank] = abmr[c.rank]]
        /\ sbmr' = [sbmr EXCEPT ![c.rank] = sbmr[c.rank]]
        /\ UNCHANGED << crf, control, pim >>
    BY <1>1, <1>3, <2>1 DEF SwitchMode
  <2>3. mode' = mode /\ abmr' = abmr /\ sbmr' = sbmr
    BY <2>2 DEF RegistersUntouched, PIMInit
  <2> QED
    BY <2>2, <2>3 DEF RegistersUntouched, PIMInit
<1> QED
  BY <1>2, <1>3 DEF ReceiveCommand

(* As no register row is ever opened, none is written.                     *)
LEMMA RegistersUntouchedNext ==
  ASSUME ChannelTyped, Agreement, RegistersUntouched, [Next]_vars
  PROVE  RegistersUntouched'
<1>1. CASE Bus
  <2>1. CASE CommandArrives
    <3> DEFINE c == Head(outgoingCmd).cmd
    <3>1. outgoingCmd # << >> /\ Head(outgoingCmd) = outgoingCmd[1] /\ outgoingCmd[1] \in BusCommands
      BY <2>1, ShortFront DEF CommandArrives, ChannelTyped, BusesTyped
    <3>2. c \in Commands /\ ~IsReservedRA(c.row) /\ ReceiveCommand(c)
      BY <1>1, <2>1, <3>1 DEF Bus, DriveBuses, BusCommands, Agreement, CommandFits, Fits
    <3> HIDE DEF c
    <3> QED
      BY <3>2, RegistersKept
  <2>2. CASE ~CommandArrives
    BY <1>1, <2>2 DEF Bus, DriveBuses, modeVars, pimVars, RegistersUntouched, PIMInit
  <2> QED
    BY <2>1, <2>2
<1>2. CASE ClientStep \/ BeginUpdate \/ AcceptPending \/ RefreshTimers \/ Command \/ Dispatch
             \/ EndUpdate \/ UNCHANGED vars
  <2>1. UNCHANGED modeVars
    <3>1. CASE ClientStep \/ AcceptPending
      BY <3>1 DEF ClientStep, AddTransaction, AddBarrier, RunReturns, AcceptPending, ChannelUnchanged,
                  rankVars
    <3>2. CASE RefreshTimers \/ EndUpdate
      BY <3>2 DEF RefreshTimers, UpdateRefresh, EndUpdate
    <3>3. CASE Command \/ Dispatch
      BY <3>3 DEF Command, SendCommand, Dispatch, UpdateTransactionQueue, rankVars
    <3>4. CASE UNCHANGED vars
      BY <3>4 DEF vars, rankVars
    <3>5. CASE BeginUpdate
      BY <3>5 DEF BeginUpdate, UpdateRanks
    <3> QED
      BY <1>2, <3>1, <3>2, <3>3, <3>4, <3>5
  <2> QED
    BY <2>1 DEF modeVars, pimVars, RegistersUntouched, PIMInit
<1> QED
  BY <1>1, <1>2 DEF Next, UpdateStep

(* What TransactionFlow contributes: the counter and the queue of the      *)
(* controller.                                                             *)
CountersTyped ==
  /\ numOnTheFlyTransactions \in Nat
  /\ Len(transactionQueue) <= TRANS_QUEUE_DEPTH
  /\ running \in BOOLEAN

(* FlowInv bounds them.                                                    *)
LEMMA FlowCounters == FlowProofs!FlowInv => CountersTyped
<1> SUFFICES ASSUME FlowProofs!FlowInv PROVE CountersTyped
  OBVIOUS
<1>1. FlowProofs!TypeOK /\ FlowProofs!Accounting /\ FlowProofs!OverflowBacked
  BY DEF FlowProofs!FlowInv
<1>2. Len(transactionQueue) <= TRANS_QUEUE_DEPTH /\ running \in BOOLEAN
  BY <1>1 DEF FlowProofs!OverflowBacked, FlowProofs!TypeOK
<1> DEFINE S == FlowProofs!Ids(FlowProofs!Controlled)
<1>3. numOnTheFlyTransactions = Cardinality(S)
  BY <1>1 DEF FlowProofs!Accounting, FlowProofs!Cardinality, Cardinality
<1>4. S \subseteq 1 .. MaxTransactions
  <2>1. /\ transactionQueue \in Seq(FlowProofs!Transactions)
        /\ queues \in [FlowProofs!Ranks -> Seq(FlowProofs!Transactions)]
        /\ InFlight \subseteq FlowProofs!Transactions
    BY <1>1 DEF FlowProofs!TypeOK
  <2>2. ASSUME NEW q \in Seq(FlowProofs!Transactions)
        PROVE  FlowProofs!ToSet(q) \subseteq FlowProofs!Transactions
    <3>1. FlowProofs!ToSet(q) = ToSet(q)
      BY DEF FlowProofs!ToSet, ToSet
    <3>2. \A x \in ToSet(q) : \E i \in 1 .. Len(q) : q[i] = x
      BY ToSetMember
    <3> QED
      BY <3>1, <3>2, ElementOfSeq
  <2>3. FlowProofs!QueuedIn(queues) \subseteq FlowProofs!Transactions
    BY <2>1, <2>2 DEF FlowProofs!QueuedIn
  <2>4. FlowProofs!Controlled \subseteq FlowProofs!Transactions
    BY <2>1, <2>2, <2>3 DEF FlowProofs!Controlled
  <2> QED
    BY <2>4 DEF FlowProofs!Ids, FlowProofs!Transactions
<1>5. IsFiniteSet(1 .. MaxTransactions)
  BY FS_Interval, SystemAssumption
<1>6. Cardinality(S) \in Nat
  <2> HIDE DEF S
  <2> QED
    BY <1>4, <1>5, FS_Subset, FS_CardinalityType
<1> QED
  BY <1>2, <1>3, <1>6 DEF CountersTyped

(* The parts of the type invariant, from what has been shown of each.      *)
ChannelTypeInv ==
  /\ ChannelInv
  /\ BusFree /\ RanksTyped /\ Agreement /\ InTurn
  /\ CursorsTyped /\ ControlTyped /\ QueuesBounded /\ LatencyBounded /\ RegistersUntouched

(* Banks have their times, and count exactly while they change.            *)
LEMMA BanksTypeCorrect ==
  ASSUME ChannelTypeInv
  PROVE  \A r \in Ranks, b \in Banks :
           /\ HasTimes(rankBanks[r][b]) /\ HasTimes(bankStates[r][b])
           /\ rankBanks[r][b].state \in {"Idle", "RowActive"}
           /\ bankStates[r][b].state \in {"Idle", "RowActive", "Precharging", "Refreshing"}
           /\ bankStates[r][b].countdown \in Nat
           /\ bankStates[r][b].countdown > 0
                 <=> bankStates[r][b].state \in {"Precharging", "Refreshing"}
<1> SUFFICES ASSUME NEW r \in Ranks, NEW b \in Banks
             PROVE  /\ HasTimes(rankBanks[r][b]) /\ HasTimes(bankStates[r][b])
                    /\ rankBanks[r][b].state \in {"Idle", "RowActive"}
                    /\ bankStates[r][b].state \in {"Idle", "RowActive", "Precharging", "Refreshing"}
                    /\ bankStates[r][b].countdown \in Nat
                    /\ bankStates[r][b].countdown > 0
                          <=> bankStates[r][b].state \in {"Precharging", "Refreshing"}
  OBVIOUS
<1>1. bankStates[r][b] \in BankTypes /\ rankBanks[r][b] \in RankBankTypes
  BY DEF ChannelTypeInv, ChannelInv, ReadsInv, ChannelTyped, RanksTyped
<1>2. Counts(bankStates[r][b])
  BY DEF ChannelTypeInv, Agreement, BankAgrees
<1>3. HasTimes(rankBanks[r][b])
  BY <1>1 DEF HasTimes, RankBankTypes
<1>4. HasTimes(bankStates[r][b])
  BY <1>1 DEF HasTimes, BankTypes
<1>5. /\ bankStates[r][b].state \in {"Idle", "RowActive", "Precharging", "Refreshing"}
      /\ bankStates[r][b].countdown \in Nat
      /\ rankBanks[r][b].state \in {"Idle", "RowActive"}
  BY <1>1 DEF BankTypes, RankBankTypes
<1>6. bankStates[r][b].countdown > 0 <=> bankStates[r][b].countdown # 0
  BY <1>5
<1> QED
  BY <1>2, <1>3, <1>4, <1>5, <1>6 DEF Counts

(* Registers hold what they started with.                                  *)
LEMMA RegistersTypeCorrect ==
  ASSUME RegistersUntouched
  PROVE  PIMTypeOK /\ \A r \in Ranks : abmr[r] \subseteq {0, 1, 8, 9} /\ sbmr[r] \subseteq {0, 1}
<1>1. 0 \in 0 .. 7 /\ 0 \in 0 .. CRF_WORDS - 1
  BY DEF CRF_WORDS
<1> QED
  BY <1>1 DEF RegistersUntouched, PIMInit, PIMTypeOK, ProgramStart

(* A line of bursts.                                                       *)
LEMMA LineTypeCorrect ==
  ASSUME NEW q, NEW out, IsLine(q, out), Spaced(q, out), NEW max \in Nat,
         \A i \in 1 .. Len(q) : q[i].countdown <= max
  PROVE  /\ \A i \in DOMAIN q : q[i].trans \in Transactions /\ q[i].countdown \in 1 .. max
         /\ \A i \in DOMAIN out : i = 1 /\ out[i].trans \in Transactions
                                      /\ out[i].cyclesLeft \in 1 .. BurstCycles
<1>1. q \in Seq(Latencies) /\ out \in Seq(BusBursts) /\ IsShort(out)
  BY DEF IsLine
<1>2. ASSUME NEW i \in DOMAIN q PROVE q[i].trans \in Transactions /\ q[i].countdown \in 1 .. max
  <2>1. i \in 1 .. Len(q)
    BY <1>1, LenProperties
  <2>2. q[i] \in Latencies
    BY <1>1, <2>1, ElementOfSeq
  <2>3. q[i].countdown >= 1 /\ q[i].countdown <= max
    BY <2>1 DEF Spaced
  <2> QED
    BY <2>2, <2>3 DEF Latencies
<1>3. ASSUME NEW i \in DOMAIN out
      PROVE  i = 1 /\ out[i].trans \in Transactions /\ out[i].cyclesLeft \in 1 .. BurstCycles
  <2>1. i \in 1 .. Len(out) /\ Len(out) \in Nat
    BY <1>1, LenProperties
  <2>2. out # << >>
    BY <2>1, EmptyMember
  <2>3. Len(out) <= 1
    <3>1. Len(out) = 0 \/ Len(out) = 1
      BY <1>1 DEF IsShort
    <3> QED
      BY <3>1
  <2>4. i = 1
    BY <2>1, <2>3
  <2>5. out[1] \in BusBursts /\ out[1].cyclesLeft >= 1 /\ out[1].cyclesLeft <= BurstCycles
    BY <1>1, <2>2, ShortFront DEF Spaced
  <2> QED
    BY <2>4, <2>5, BurstLength DEF BusBursts
<1> QED
  BY <1>2, <1>3

(* The whole of the type invariant.                                        *)
LEMMA ChannelTypeImplies == ASSUME ChannelTypeInv, CountersTyped PROVE TypeOK
<1>1. /\ ChannelTyped /\ ReadsSpaced /\ WritesSpaced /\ CursorsTyped /\ ControlTyped /\ QueuesBounded
      /\ LatencyBounded /\ RegistersUntouched /\ InTurn
  BY DEF ChannelTypeInv, ChannelInv, ReadsInv
<1>2. RL \in Nat /\ WL \in Nat
  BY TimingAssumption
<1>3. ASSUME NEW r \in Ranks
      PROVE  /\ \A i \in DOMAIN readReturn[r] :
                  readReturn[r][i].trans \in Transactions /\ readReturn[r][i].countdown \in 1 .. RL
             /\ \A i \in DOMAIN rankData[r] :
                  i = 1 /\ rankData[r][i].trans \in Transactions
                    /\ rankData[r][i].cyclesLeft \in 1 .. BurstCycles
             /\ queues[r] \in Seq(Transactions) /\ Len(queues[r]) <= CMD_QUEUE_DEPTH
  <2>1. IsLine(readReturn[r], rankData[r]) /\ Spaced(readReturn[r], rankData[r])
    BY <1>1 DEF ReadsSpaced, RankSpaced, ChannelTyped, ReadLinesTyped
  <2>2. \A i \in 1 .. Len(readReturn[r]) : readReturn[r][i].countdown <= RL
    BY <1>1 DEF LatencyBounded
  <2>3. queues[r] \in Seq(Transactions) /\ Len(queues[r]) <= CMD_QUEUE_DEPTH
    BY <1>1 DEF ChannelTyped, QueuesTyped, QueuesBounded
  <2> QED
    BY <1>2, <2>1, <2>2, <2>3, LineTypeCorrect
<1>4. /\ \A i \in DOMAIN outgoingData :
            i = 1 /\ outgoingData[i].trans \in Transactions
              /\ outgoingData[i].cyclesLeft \in 1 .. BurstCycles
      /\ \A i \in DOMAIN writeData :
            writeData[i].trans \in Transactions /\ writeData[i].countdown \in 1 .. WL
  <2>1. IsLine(writeData, outgoingData) /\ Spaced(writeData, outgoingData)
    BY <1>1 DEF WritesSpaced, ChannelTyped, BusesTyped
  <2>2. ASSUME NEW i \in 1 .. Len(writeData) PROVE writeData[i].countdown <= WL
    <3>1. writeData[i].countdown <= WL - Lately /\ Lately \in {0, 1}
      BY <1>1 DEF WritesSpaced, Lately
    <3>2. writeData[i] \in Latencies
      BY <2>1, ElementOfSeq DEF IsLine
    <3>3. writeData[i].countdown \in Int
      BY <3>2 DEF Latencies
    <3> QED
      BY <1>2, <3>1, <3>3
  <2> QED
    BY <1>2, <2>1, <2>2, LineTypeCorrect
<1>5. \A i \in DOMAIN outgoingCmd :
        i = 1 /\ outgoingCmd[i].cmd \in Commands /\ outgoingCmd[i].cyclesLeft \in 1 .. tCMD
  <2> SUFFICES ASSUME NEW i \in DOMAIN outgoingCmd
               PROVE  i = 1 /\ outgoingCmd[i].cmd \in Commands /\ outgoingCmd[i].cyclesLeft \in 1 .. tCMD
    OBVIOUS
  <2>1. outgoingCmd \in Seq(BusCommands) /\ IsShort(outgoingCmd)
    BY <1>1 DEF ChannelTyped, BusesTyped
  <2>2. i \in 1 .. Len(outgoingCmd) /\ Len(outgoingCmd) \in Nat
    BY <2>1, LenProperties
  <2>3. outgoingCmd # << >>
    BY <2>2, EmptyMember
  <2>4. i = 1
    <3>1. Len(outgoingCmd) = 0 \/ Len(outgoingCmd) = 1
      BY <2>1 DEF IsShort
    <3> QED
      BY <2>2, <3>1
  <2>5. outgoingCmd[1] \in BusCommands /\ outgoingCmd[1].cyclesLeft \in 1 .. tCMD
    BY <1>1, <2>1, <2>3, ShortFront DEF ReadsSpaced, BusTimed
  <2> QED
    BY <2>4, <2>5 DEF BusCommands
<1>6. /\ rankRefreshWaiting \in [Ranks -> BOOLEAN]
      /\ nextRank \in Ranks /\ nextPRE \in [rank : Ranks, bank : Banks] /\ refreshWaiting \in BOOLEAN
      /\ refreshRank \in Ranks /\ nextRefresh \in Ranks
      /\ refreshCountdown \in [Ranks -> Int]
      /\ fault \in {"none", "check", "cmdbus", "databus", "enqueue", "nomatch"}
      /\ phase \in {"client", "pending", "bus", "refresh", "command", "dispatch", "return"}
  BY <1>1 DEF CursorsTyped, ControlTyped, ChannelTyped, InTurn
<1>7. /\ transactionQueue \in Seq(Transactions) /\ pendingTransactions \in Seq(Transactions)
      /\ pendingReadTransactions \in Seq(Transactions) /\ returnTransaction \in Seq(Transactions)
      /\ nextId \in 1 .. MaxTransactions + 1
  BY <1>1 DEF ChannelTyped, QueuesTyped
<1>8. /\ numOnTheFlyTransactions \in Nat /\ Len(transactionQueue) <= TRANS_QUEUE_DEPTH
      /\ running \in BOOLEAN
  BY DEF CountersTyped
<1> QED
  BY <1>1, <1>3, <1>4, <1>5, <1>6, <1>7, <1>8, BanksTypeCorrect, RegistersTypeCorrect DEF TypeOK

(* Every variable of the channel holds what its C++ type can, the queues   *)
(* stay within their depth (so enqueue() never exits) and the unsigned     *)
(* counters never pass 0.                                                  *)
THEOREM ChannelTypeCorrect ==
  ASSUME tCMD = 1, tWTRS <= tWTRL, PlainRows, tRCDWR - AL + 1 >= BurstCycles
  PROVE  Spec => []TypeOK
<1>1. Init => ChannelTypeInv
  BY ChannelInvInit, AgreementInit, InTurnInit, TypesInit DEF ChannelTypeInv
<1>2. ChannelTypeInv /\ [Next]_vars => ChannelTypeInv'
  BY ChannelInvNext, BusFreeNext, AgreementNext, InTurnNext, CursorsTypedNext, ControlTypedNext,
     QueuesBoundedNext, LatencyBoundedNext, RegistersUntouchedNext
     DEF ChannelTypeInv, ChannelInv, ReadsInv
<1>3. Spec => []CountersTyped
  <2>1. Spec => FlowProofs!FlowSpec
    BY FlowHolds
  <2>2. FlowProofs!FlowSpec => []FlowProofs!FlowInv
    BY FlowAssumptions, FlowProofs!FlowInvariant, PTL
  <2> QED
    BY <2>1, <2>2, FlowCounters, PTL
<1>4. ChannelTypeInv /\ CountersTyped => TypeOK
  BY ChannelTypeImplies
<1> QED
  BY <1>1, <1>2, <1>3, <1>4, PTL DEF Spec

-----------------------------------------------------------------------------
(* What the program can be stopped for.                                    *)

(* A transaction is dispatched only to a queue with room.                  *)
LEMMA DispatchFits ==
  ASSUME Dispatch
  PROVE  fault' = fault
<1>1. CASE Dispatchable = {}
  BY <1>1 DEF Dispatch, UpdateTransactionQueue
<1>2. CASE Dispatchable # {}
  <2>1. Dispatchable \in SUBSET Nat
    BY DEF Dispatchable
  <2>2. Min(Dispatchable) \in Dispatchable
    BY <1>2, <2>1, MinMember
  <2> QED
    BY <1>2, <2>2 DEF Dispatch, UpdateTransactionQueue, Enqueue, Dispatchable
<1> QED
  BY <1>1, <1>2

(* What a step can stop the program for.                                   *)
LEMMA FaultKinds ==
  ASSUME [Next]_vars
  PROVE  fault' \in {fault, "check", "cmdbus", "databus", "nomatch"}
<1>1. CASE UNCHANGED vars
  BY <1>1 DEF vars
<1>2. CASE ClientStep
  BY <1>2 DEF ClientStep, AddTransaction, AddBarrier, RunReturns, ChannelUnchanged
<1>3. CASE BeginUpdate \/ AcceptPending \/ Bus \/ RefreshTimers
  BY <1>3 DEF BeginUpdate, AcceptPending, ChannelUnchanged, Bus, DriveBuses, RefreshTimers,
              UpdateRefresh
<1>4. CASE Command
  <2>1. \A c : UpdateCommandQueue(c) => fault' \in {fault, "cmdbus"}
    BY DEF UpdateCommandQueue
  <2> QED
    BY <1>4, <2>1 DEF Command, SendCommand, SendRefresh, SendPrechargeForRefresh, SendColumn,
                      SendActivate, SendPrecharge, SendNothing
<1>5. CASE Dispatch
  BY <1>5, DispatchFits
<1>6. CASE EndUpdate
  BY <1>6 DEF EndUpdate, ReturnReadData, ReturnNothing, ReturnUnmatched
<1> QED
  BY <1>1, <1>2, <1>3, <1>4, <1>5, <1>6 DEF Next, UpdateStep

(* Of the checks that end the program only that of the rank can fail: the  *)
(* controller never finds its buses taken or a queue full, and always      *)
(* finds the read that data belongs to.                                    *)
THEOREM OnlyRanksStop ==
  ASSUME DataFits
  PROVE  Spec => [](fault \in {"none", "check"})
<1> DEFINE Checked == fault \in {"none", "check"}
           Found   == fault' # "nomatch"
<1>1. Init => Checked
  BY DEF Init, RankInit
<1>2. Checked /\ [Next]_vars /\ BusesExclusive' /\ [Found]_vars => Checked'
  BY FaultKinds DEF BusesExclusive, vars
<1>3. OwnReadReturned => [][Found]_vars
  <2>1. [/\ fault' # "nomatch"
         /\ \A t \in ToSet(pendingReadTransactions) \ ToSet(pendingReadTransactions') :
              t = Head(returnTransaction)]_vars
        => [Found]_vars
    OBVIOUS
  <2> QED
    BY <2>1, PTL DEF OwnReadReturned
<1> QED
  BY <1>1, <1>2, <1>3, BusesExclusiveAlways, OwnReadReturnedAlways, PTL DEF Spec

(* A channel whose client stays away from the register rows never stops    *)
(* the program.                                                            *)
THEOREM ChannelNeverStops ==
  ASSUME DataFits, tWTRS <= tWTRL, PlainRows
  PROVE  Spec => [](fault = "none")
<1>1. tCMD = 1
  BY DEF DataFits
<1>2. fault \in {"none", "check"} /\ RanksAgree => fault = "none"
  BY DEF RanksAgree
<1> QED
  BY <1>1, <1>2, OnlyRanksStop, RanksAgreeAlways, PTL

=============================================================================

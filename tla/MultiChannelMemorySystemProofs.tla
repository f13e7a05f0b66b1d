-------------------- MODULE MultiChannelMemorySystemProofs --------------------
(***************************************************************************)
(* The clock crosser and the front end around it.                          *)
(***************************************************************************)
EXTENDS MultiChannelMemorySystem, CommonLemmas, SequenceTheorems

-----------------------------------------------------------------------------
(* NoDrift for any two clocks.                                             *)

LEMMA ClockInvInit == ClockInit => ClockInv
  BY ClockAssumption DEF ClockAssumption, ClockInit, ClockInv

LEMMA ClockInvNext == ClockInv /\ [ClockNext]_clockVars => ClockInv'
<1> SUFFICES ASSUME ClockInv, [ClockNext]_clockVars PROVE ClockInv'
  OBVIOUS
<1> USE ClockAssumption DEF ClockAssumption, ClockInv
<1>0. CASE \E cpuClkFreqHz \in CpuClkFreqHz : SetCPUClockSpeed(cpuClkFreqHz)
  <2> PICK cpuClkFreqHz \in CpuClkFreqHz : SetCPUClockSpeed(cpuClkFreqHz)
    BY <1>0
  <2> QED BY DEF SetCPUClockSpeed
<1>1. CASE ShortCircuit
  BY <1>1 DEF ShortCircuit
<1>2. CASE BeginUpdate
  BY <1>2 DEF BeginUpdate
<1>3. CASE Callback
  BY <1>3 DEF Callback
<1>4. CASE EndUpdate
  <2>1. CASE counter1 = counter2
    BY <1>4, <2>1 DEF EndUpdate, ResetCounters
  <2>2. CASE counter1 # counter2
    BY <1>4, <2>2 DEF EndUpdate
  <2> QED BY <2>1, <2>2
<1>5. CASE UNCHANGED clockVars
  BY <1>5 DEF clockVars
<1> QED BY <1>0, <1>1, <1>2, <1>3, <1>4, <1>5 DEF ClockNext

(* The callbacks keep to the ratio of the clocks for ever, whatever the    *)
(* clocks are (ClockDomainCrosser::update).                                *)
THEOREM NoDriftAlways == ClockSpec => []NoDrift
<1>1. ClockInv => NoDrift
  BY ClockAssumption DEF ClockAssumption, ClockInv, NoDrift
<1> QED BY <1>1, ClockInvInit, ClockInvNext, PTL DEF ClockSpec

-----------------------------------------------------------------------------
(* The two loops over the channels.                                        *)

(* Adding up one number for each channel.                                  *)
LEMMA SumDef ==
  ASSUME NEW f \in [Channels -> Int]
  PROVE  \E s \in [0 .. NUM_CHANS -> Int] :
           IsPartialSums(NUM_CHANS, f, s) /\ SumOver(f) = s[NUM_CHANS]
<1> DEFINE IsSum(u) == u = [c \in 0 .. NUM_CHANS |-> IF c = 0 THEN 0 ELSE u[c - 1] + f[c]]
           s == CHOOSE u : IsSum(u)
<1>1. NUM_CHANS \in Nat /\ f \in [1 .. NUM_CHANS -> Int]
  BY FrontAssumption DEF FrontAssumption, Channels
<1>2. PICK u \in [0 .. NUM_CHANS -> Int] : IsPartialSums(NUM_CHANS, f, u)
  BY <1>1, PartialSumsExist
<1>3. \A c \in 0 .. NUM_CHANS : u[c] = IF c = 0 THEN 0 ELSE u[c - 1] + f[c]
  BY <1>1, <1>2 DEF IsPartialSums
<1>4. u = [c \in 0 .. NUM_CHANS |-> u[c]]
  OBVIOUS
<1>5. IsSum(u)
  BY <1>3, <1>4
<1>6. IsSum(s)
  <2> HIDE DEF IsSum
  <2> QED BY <1>5
<1>7. SumOver(f) = s[NUM_CHANS]
  BY DEF SumOver
<1> HIDE DEF s
<1>8. IsPartialSums(NUM_CHANS, f, s)
  BY <1>1, <1>6 DEF IsPartialSums
<1>9. \A c \in 0 .. NUM_CHANS : s[c] \in Int
  BY <1>1, <1>8, PartialSumsType
<1>10. s = [c \in 0 .. NUM_CHANS |-> s[c]]
  BY <1>6
<1> QED
  BY <1>7, <1>8, <1>9, <1>10

LEMMA SumOfNaturals ==
  ASSUME NEW f \in [Channels -> Nat]
  PROVE  SumOver(f) \in Nat /\ \A c \in Channels : f[c] <= SumOver(f)
<1>1. NUM_CHANS \in Nat /\ f \in [1 .. NUM_CHANS -> Nat] /\ f \in [Channels -> Int]
  BY FrontAssumption DEF FrontAssumption, Channels
<1>2. PICK s \in [0 .. NUM_CHANS -> Int] :
        IsPartialSums(NUM_CHANS, f, s) /\ SumOver(f) = s[NUM_CHANS]
  BY <1>1, SumDef
<1> QED
  BY <1>1, <1>2, PartialSumsOfNaturals DEF Channels

LEMMA SumUpdate ==
  ASSUME NEW f \in [Channels -> Int], NEW c \in Channels, NEW g \in [Channels -> Int],
         AgreeExcept(NUM_CHANS, f, c, g)
  PROVE  SumOver(g) = SumOver(f) + (g[c] - f[c])
<1>1. /\ NUM_CHANS \in Nat /\ c \in 1 .. NUM_CHANS
      /\ f \in [1 .. NUM_CHANS -> Int] /\ g \in [1 .. NUM_CHANS -> Int]
  BY FrontAssumption DEF FrontAssumption, Channels
<1>2. PICK s \in [0 .. NUM_CHANS -> Int] :
        IsPartialSums(NUM_CHANS, f, s) /\ SumOver(f) = s[NUM_CHANS]
  BY SumDef
<1>3. PICK t \in [0 .. NUM_CHANS -> Int] :
        IsPartialSums(NUM_CHANS, g, t) /\ SumOver(g) = t[NUM_CHANS]
  BY SumDef
<1>4. t[NUM_CHANS] = s[NUM_CHANS] + (g[c] - f[c])
  BY <1>1, <1>2, <1>3, PartialSumsUpdate, ZenonT(30)
<1> QED
  BY <1>2, <1>3, <1>4

-----------------------------------------------------------------------------
(* The rows of the statistics.                                             *)

Field ==
  {<< "ms" >>} \cup ({"Power"} \X Channels \X (1 .. NUM_RANKS))
               \cup ({"Bandwidth"} \X Channels)

Csv == [names : Seq(Field), finalized : BOOLEAN, idx : Nat, line : Seq(Field),
        fields : Nat, epoch : Seq(Field)]

First == << << "ms" >> >>

LEMMA FieldsType ==
  First \in Seq(Field) /\ \A c \in Channels : ChannelFields(c) \in Seq(Field)
<1>1. First \in Seq(Field)
  BY DEF First, Field
<1>2. ASSUME NEW c \in Channels PROVE ChannelFields(c) \in Seq(Field)
  <2> DEFINE power == [r \in 1 .. NUM_RANKS |-> << "Power", c, r >>]
  <2>1. NUM_RANKS \in Nat
    BY FrontAssumption DEF FrontAssumption
  <2>2. \A r \in 1 .. NUM_RANKS : << "Power", c, r >> \in Field
    BY DEF Field
  <2>3. << "Bandwidth", c >> \in Field
    BY DEF Field
  <2>4. power \in [1 .. NUM_RANKS -> Field]
    BY <2>2
  <2> HIDE DEF power
  <2>5. power \in Seq(Field)
    BY <2>1, <2>4
  <2>6. Append(power, << "Bandwidth", c >>) \in Seq(Field)
    BY <2>3, <2>5, AppendProperties
  <2> QED BY <2>6 DEF ChannelFields, power
<1> QED BY <1>1, <1>2

(* What the names of a whole row are; vis says whether the channels print. *)
Printed(vis, names, c) == IF vis THEN names \o ChannelFields(c) ELSE names

Header(vis) ==
  LET upTo[c \in 0 .. NUM_CHANS] == IF c = 0 THEN First ELSE Printed(vis, upTo[c - 1], c)
  IN  upTo[NUM_CHANS]

IsHeader(vis, h) == h[0] = First /\ \A c \in Channels : h[c] = Printed(vis, h[c - 1], c)

LEMMA HeaderDef ==
  ASSUME NEW vis \in BOOLEAN
  PROVE  \E h \in [0 .. NUM_CHANS -> Seq(Field)] :
           IsHeader(vis, h) /\ Header(vis) = h[NUM_CHANS]
<1> DEFINE step == [c \in Channels |-> [q \in Seq(Field) |-> Printed(vis, q, c)]]
           IsRun(u) ==
             u = [c \in 0 .. NUM_CHANS |-> IF c = 0 THEN First ELSE Printed(vis, u[c - 1], c)]
           h == CHOOSE u : IsRun(u)
<1>1. NUM_CHANS \in Nat
  BY FrontAssumption DEF FrontAssumption
<1>2. \A c \in Channels, q \in Seq(Field) : Printed(vis, q, c) \in Seq(Field)
  BY FieldsType, ConcatProperties DEF Printed
<1>3. step \in [1 .. NUM_CHANS -> [Seq(Field) -> Seq(Field)]]
  BY <1>2 DEF Channels
<1>4. PICK u \in [0 .. NUM_CHANS -> Seq(Field)] : IsLoop(NUM_CHANS, First, step, u)
  <2> HIDE DEF step
  <2> QED BY <1>1, <1>3, FieldsType, LoopExists
<1>5. IsHeader(vis, u)
  <2>1. \A c \in Channels : c - 1 \in 0 .. NUM_CHANS
    BY <1>1 DEF Channels
  <2>2. \A c \in Channels : step[c][u[c - 1]] = Printed(vis, u[c - 1], c)
    BY <2>1
  <2> HIDE DEF step
  <2> QED BY <1>4, <2>2 DEF IsLoop, IsHeader, Channels
<1>6. u = [c \in 0 .. NUM_CHANS |-> u[c]]
  OBVIOUS
<1>7. \A c \in 0 .. NUM_CHANS :
        u[c] = IF c = 0 THEN First ELSE Printed(vis, u[c - 1], c)
  BY <1>1, <1>5 DEF IsHeader, Channels
<1>8. IsRun(u)
  BY <1>6, <1>7
<1>9. IsRun(h)
  <2> HIDE DEF IsRun
  <2> QED BY <1>8
<1>10. Header(vis) = h[NUM_CHANS]
  BY DEF Header
<1> HIDE DEF h
<1>11. IsHeader(vis, h)
  BY <1>1, <1>9 DEF IsHeader, Channels
<1>12. h = [c \in 0 .. NUM_CHANS |-> h[c]]
  BY <1>9
<1>13. \A c \in 0 .. NUM_CHANS : h[c] \in Seq(Field)
  <2> DEFINE P == {c \in 0 .. NUM_CHANS : h[c] \in Seq(Field)}
  <2>1. 0 \in P
    BY <1>1, <1>11, FieldsType DEF IsHeader
  <2>2. ASSUME NEW n \in 0 .. NUM_CHANS - 1, n \in P PROVE n + 1 \in P
    <3>1. n + 1 \in Channels /\ (n + 1) - 1 = n /\ n + 1 \in 0 .. NUM_CHANS
      BY <1>1 DEF Channels
    <3>2. h[n + 1] = Printed(vis, h[n], n + 1)
      BY <1>11, <3>1 DEF IsHeader
    <3>3. h[n] \in Seq(Field)
      BY <2>2
    <3>4. h[n + 1] \in Seq(Field)
      BY <1>2, <3>1, <3>2, <3>3
    <3> QED BY <3>1, <3>4
  <2>3. 0 .. NUM_CHANS \subseteq P
    <3> HIDE DEF P
    <3> QED BY <1>1, <2>1, <2>2, InductionUpTo
  <2> QED BY <2>3
<1> QED
  BY <1>10, <1>11, <1>12, <1>13

LEMMA WriteType ==
  ASSUME NEW csv \in Csv, NEW fields \in Seq(Field)
  PROVE  /\ Write(csv, fields) \in Csv
         /\ WriteThrough(Write(csv, fields)) \in Csv
<1>1. /\ csv.line \o fields \in Seq(Field)
      /\ csv.names \o fields \in Seq(Field)
      /\ csv.idx + Len(fields) \in Nat
  BY ConcatProperties, LenProperties DEF Csv
<1>2. << >> \in Seq(Field)
  BY EmptySeq
<1>3. Write(csv, fields) \in Csv
  BY <1>1 DEF Csv, Write
<1> QED
  BY <1>2, <1>3 DEF Csv, WriteThrough

LEMMA PrintChannelType ==
  ASSUME NEW csv \in Csv, NEW c \in Channels, NEW finalStats
  PROVE  PrintChannel(csv, c, finalStats) \in Csv
  BY FieldsType, WriteType DEF PrintChannel

(* The loop of printStats.                                                 *)
IsRow(csv, finalStats, w) ==
  /\ w[0] = Write(csv, First)
  /\ \A c \in Channels : w[c] = PrintChannel(w[c - 1], c, finalStats)

LEMMA RowDef ==
  ASSUME NEW csv \in Csv, NEW finalStats
  PROVE  \E w \in [0 .. NUM_CHANS -> Csv] :
           IsRow(csv, finalStats, w) /\ Row(csv, finalStats) = w[NUM_CHANS]
<1> DEFINE step == [c \in Channels |-> [v \in Csv |-> PrintChannel(v, c, finalStats)]]
           IsRun(u) == u = [c \in 0 .. NUM_CHANS |->
                              IF c = 0 THEN Write(csv, First)
                                       ELSE PrintChannel(u[c - 1], c, finalStats)]
           w == CHOOSE u : IsRun(u)
<1>1. NUM_CHANS \in Nat
  BY FrontAssumption DEF FrontAssumption
<1>2. \A c \in Channels, v \in Csv : PrintChannel(v, c, finalStats) \in Csv
  BY PrintChannelType
<1>3. step \in [1 .. NUM_CHANS -> [Csv -> Csv]] /\ Write(csv, First) \in Csv
  BY <1>2, FieldsType, WriteType DEF Channels
<1>4. PICK u \in [0 .. NUM_CHANS -> Csv] : IsLoop(NUM_CHANS, Write(csv, First), step, u)
  <2> HIDE DEF step
  <2> QED BY <1>1, <1>3, LoopExists
<1>5. IsRow(csv, finalStats, u)
  <2>1. \A c \in Channels : c - 1 \in 0 .. NUM_CHANS
    BY <1>1 DEF Channels
  <2>2. \A c \in Channels : step[c][u[c - 1]] = PrintChannel(u[c - 1], c, finalStats)
    BY <2>1
  <2> HIDE DEF step
  <2> QED BY <1>4, <2>2 DEF IsLoop, IsRow, Channels
<1>6. u = [c \in 0 .. NUM_CHANS |-> u[c]]
  OBVIOUS
<1>7. \A c \in 0 .. NUM_CHANS :
        u[c] = IF c = 0 THEN Write(csv, First) ELSE PrintChannel(u[c - 1], c, finalStats)
  BY <1>1, <1>5 DEF IsRow, Channels
<1>8. IsRun(u)
  BY <1>6, <1>7
<1>9. IsRun(w)
  <2> HIDE DEF IsRun
  <2> QED BY <1>8
<1>10. Row(csv, finalStats) = w[NUM_CHANS]
  BY DEF Row, First
<1> HIDE DEF w
<1>11. IsRow(csv, finalStats, w)
  BY <1>1, <1>9 DEF IsRow, Channels
<1>12. w = [c \in 0 .. NUM_CHANS |-> w[c]]
  BY <1>9
<1>13. \A c \in 0 .. NUM_CHANS : w[c] \in Csv
  <2> DEFINE P == {c \in 0 .. NUM_CHANS : w[c] \in Csv}
  <2>1. 0 \in P
    BY <1>1, <1>3, <1>11 DEF IsRow
  <2>2. ASSUME NEW n \in 0 .. NUM_CHANS - 1, n \in P PROVE n + 1 \in P
    <3>1. n + 1 \in Channels /\ (n + 1) - 1 = n /\ n + 1 \in 0 .. NUM_CHANS
      BY <1>1 DEF Channels
    <3>2. w[n + 1] = PrintChannel(w[n], n + 1, finalStats)
      BY <1>11, <3>1 DEF IsRow
    <3>3. w[n + 1] \in Csv
      BY <1>2, <2>2, <3>1, <3>2
    <3> QED BY <3>1, <3>3
  <2>3. 0 .. NUM_CHANS \subseteq P
    <3> HIDE DEF P
    <3> QED BY <1>1, <2>1, <2>2, InductionUpTo
  <2> QED BY <2>3
<1> QED
  BY <1>10, <1>11, <1>12, <1>13

(* How far the writer is after the channels up to c, h being their names.  *)
Gathers(csv, w, names) ==
  w.finalized = csv.finalized /\ w.fields = csv.fields /\ w.epoch = csv.epoch
    /\ w.names = names /\ w.line = << >> /\ w.idx = 0

FillsRow(csv, w, names, finalStats) ==
  w.finalized = csv.finalized /\ w.fields = csv.fields /\ w.epoch = csv.epoch
    /\ w.names = csv.names /\ w.idx = Len(names) /\ (~finalStats => w.line = names)

(* Before the header is written a row leaves its names; afterwards it has  *)
(* one value for each of them, in their order.                             *)
LEMMA RowWritten ==
  ASSUME NEW csv \in Csv, NEW finalStats \in BOOLEAN, VIS_FILE_OUTPUT \in BOOLEAN,
         csv.line = << >>, csv.idx = 0, ~csv.finalized => csv.names = << >>
  PROVE  /\ Row(csv, finalStats) \in Csv
         /\ Header(VIS_FILE_OUTPUT) \in Seq(Field)
         /\ ~csv.finalized => Gathers(csv, Row(csv, finalStats), Header(VIS_FILE_OUTPUT))
         /\ csv.finalized =>
              FillsRow(csv, Row(csv, finalStats), Header(VIS_FILE_OUTPUT), finalStats)
<1>0. NUM_CHANS \in Nat
  BY FrontAssumption DEF FrontAssumption
<1>1. PICK w \in [0 .. NUM_CHANS -> Csv] :
        IsRow(csv, finalStats, w) /\ Row(csv, finalStats) = w[NUM_CHANS]
  BY RowDef
<1>2. PICK h \in [0 .. NUM_CHANS -> Seq(Field)] :
        IsHeader(VIS_FILE_OUTPUT, h) /\ Header(VIS_FILE_OUTPUT) = h[NUM_CHANS]
  BY HeaderDef
<1> DEFINE Upto(c) == IF csv.finalized THEN FillsRow(csv, w[c], h[c], finalStats)
                                       ELSE Gathers(csv, w[c], h[c])
           P == {c \in 0 .. NUM_CHANS : Upto(c)}
<1>3. 0 \in P
  <2>1. w[0] = Write(csv, First) /\ h[0] = First
    BY <1>1, <1>2 DEF IsRow, IsHeader
  <2>2. << >> \o First = First /\ 0 + Len(First) = Len(First)
    BY FieldsType, ConcatEmptySeq, LenProperties
  <2>3. CASE csv.finalized
    <3>1. w[0] = [csv EXCEPT !.line = @ \o First, !.idx = @ + Len(First)]
      BY <2>1, <2>3 DEF Write
    <3>2. FillsRow(csv, w[0], h[0], finalStats)
      BY <2>1, <2>2, <3>1 DEF FillsRow, Csv
    <3> QED BY <1>0, <2>3, <3>2
  <2>4. CASE ~csv.finalized
    <3>1. w[0] = [csv EXCEPT !.names = @ \o First]
      BY <2>1, <2>4 DEF Write
    <3>2. Gathers(csv, w[0], h[0])
      BY <2>1, <2>2, <2>4, <3>1 DEF Gathers, Csv
    <3> QED BY <1>0, <2>4, <3>2
  <2> QED BY <2>3, <2>4
<1>4. ASSUME NEW n \in 0 .. NUM_CHANS - 1, n \in P PROVE n + 1 \in P
  <2>1. n + 1 \in Channels /\ (n + 1) - 1 = n /\ n + 1 \in 0 .. NUM_CHANS /\ n \in 0 .. NUM_CHANS
    BY <1>0 DEF Channels
  <2>2. /\ w[n + 1] = PrintChannel(w[n], n + 1, finalStats)
        /\ h[n + 1] = Printed(VIS_FILE_OUTPUT, h[n], n + 1)
    BY <1>1, <1>2, <2>1 DEF IsRow, IsHeader
  <2>3. w[n] \in Csv /\ h[n] \in Seq(Field) /\ Upto(n)
    BY <1>4, <2>1
  <2>4. CASE ~VIS_FILE_OUTPUT
    <3>1. w[n + 1] = w[n] /\ h[n + 1] = h[n]
      BY <2>2, <2>4 DEF PrintChannel, Printed
    <3> QED BY <2>1, <2>3, <3>1
  <2>5. CASE VIS_FILE_OUTPUT
    <3>1. PICK fs \in Seq(Field) : fs = ChannelFields(n + 1)
      BY <2>1, FieldsType
    <3>2. /\ h[n + 1] = h[n] \o fs
          /\ w[n + 1] = IF finalStats THEN WriteThrough(Write(w[n], fs)) ELSE Write(w[n], fs)
      BY <2>2, <2>5, <3>1 DEF PrintChannel, Printed
    <3>3. Len(h[n] \o fs) = Len(h[n]) + Len(fs)
      BY <2>3, ConcatProperties
    <3>4. CASE csv.finalized
      <4>1. FillsRow(csv, w[n], h[n], finalStats)
        BY <2>3, <3>4
      <4>2. Write(w[n], fs) = [w[n] EXCEPT !.line = @ \o fs, !.idx = @ + Len(fs)]
        BY <3>4, <4>1 DEF FillsRow, Write
      <4>3. FillsRow(csv, w[n + 1], h[n + 1], finalStats)
        BY <2>3, <3>2, <3>3, <4>1, <4>2, ZenonT(30) DEF FillsRow, WriteThrough, Csv
      <4> QED BY <2>1, <3>4, <4>3
    <3>5. CASE ~csv.finalized
      <4>1. Gathers(csv, w[n], h[n])
        BY <2>3, <3>5
      <4>2. Write(w[n], fs) = [w[n] EXCEPT !.names = @ \o fs]
        BY <3>5, <4>1 DEF Gathers, Write
      <4>3. Gathers(csv, w[n + 1], h[n + 1])
        BY <2>3, <3>2, <4>1, <4>2 DEF Gathers, WriteThrough, Csv
      <4> QED BY <2>1, <3>5, <4>3
    <3> QED BY <3>4, <3>5
  <2> QED BY <2>4, <2>5
<1>5. 0 .. NUM_CHANS \subseteq P
  <2> HIDE DEF P
  <2> QED BY <1>0, <1>3, <1>4, InductionUpTo
<1>6. Upto(NUM_CHANS)
  <2>1. NUM_CHANS \in 0 .. NUM_CHANS
    BY <1>0
  <2> HIDE DEF Upto
  <2> QED BY <1>5, <2>1
<1>7. w[NUM_CHANS] \in Csv /\ h[NUM_CHANS] \in Seq(Field)
  BY <1>0
<1> QED
  BY <1>1, <1>2, <1>6, <1>7

-----------------------------------------------------------------------------
(* The name of the .vis file is that of no file of an earlier run, or the  *)
(* bare one when all that are tried exist: 0 is tried first, and a suffix  *)
(* n in the place n + 2.                                                   *)
OwnName(n) ==
  \/ n \notin files
  \/ n = Bare /\ 0 .. maxNumber - 2 \subseteq files

LEMMA FreshName ==
  FilenameWithNumberSuffix \in 0 .. maxNumber /\ OwnName(FilenameWithNumberSuffix)
<1>0. maxNumber \in Nat \ {0, 1}
  BY FrontAssumption DEF FrontAssumption
<1> DEFINE later == [i \in 1 .. maxNumber - 1 |-> IF i = 1 THEN 1 ELSE i - 1]
           I == {i \in 1 .. Len(Candidates) : Candidates[i] \notin files}
<1>1. Candidates \in Seq(0 .. maxNumber - 1)
  <2>1. << 0 >> \in Seq(0 .. maxNumber - 1)
    BY <1>0
  <2>2. later \in [1 .. maxNumber - 1 -> 0 .. maxNumber - 1]
    BY <1>0
  <2> HIDE DEF later
  <2>3. later \in Seq(0 .. maxNumber - 1)
    BY <1>0, <2>2
  <2>4. << 0 >> \o later \in Seq(0 .. maxNumber - 1)
    BY <2>1, <2>3, ConcatProperties
  <2> QED BY <2>4 DEF Candidates, later
<1>2. SelectInSeq(Candidates, LAMBDA n : n \notin files) = IF I # {} THEN Min(I) ELSE 0
  BY DEF SelectInSeq
<1>3. CASE I = {}
  <2>1. FilenameWithNumberSuffix = maxNumber
    BY <1>2, <1>3 DEF FilenameWithNumberSuffix, Bare
  <2>2. ASSUME NEW n \in 0 .. maxNumber - 2
        PROVE  \E i \in 1 .. Len(Candidates) : Candidates[i] = n
    <3>1. /\ Len(<< 0 >>) = 1 /\ << 0 >>[1] = 0
          /\ << 0 >> \in Seq(Nat) /\ later \in Seq(Nat) /\ Len(later) = maxNumber - 1
          /\ \A i \in 1 .. maxNumber - 1 : later[i] = IF i = 1 THEN 1 ELSE i - 1
      BY <1>0
    <3>2. /\ Len(<< 0 >> \o later) = maxNumber
          /\ \A i \in 1 .. maxNumber :
               (<< 0 >> \o later)[i] = IF i <= 1 THEN << 0 >>[i] ELSE later[i - 1]
      <4> HIDE DEF later
      <4> QED BY <1>0, <3>1, ConcatProperties
    <3>3. CASE n = 0
      <4>1. Candidates[1] = n /\ 1 \in 1 .. Len(Candidates)
        BY <1>0, <3>1, <3>2, <3>3 DEF Candidates
      <4> QED BY <4>1
    <3>4. CASE n # 0
      <4>1. n + 2 \in 1 .. maxNumber /\ n + 1 \in 1 .. maxNumber - 1 /\ n + 1 # 1
        BY <1>0, <3>4
      <4>2. later[n + 1] = n
        BY <3>1, <4>1
      <4>3. Candidates[n + 2] = n /\ n + 2 \in 1 .. Len(Candidates)
        BY <1>0, <3>2, <4>1, <4>2 DEF Candidates
      <4> QED BY <4>3
    <3> QED BY <3>3, <3>4
  <2>3. 0 .. maxNumber - 2 \subseteq files
    BY <1>3, <2>2
  <2> QED BY <1>0, <2>1, <2>3 DEF OwnName, Bare
<1>4. CASE I # {}
  <2>1. I \in SUBSET Nat
    OBVIOUS
  <2> HIDE DEF I
  <2>2. \E i \in I : \A j \in I : i <= j
    BY <1>4, <2>1, LeastMember
  <2>3. Min(I) \in I
    BY <2>2 DEF Min
  <2>4. Min(I) # 0 /\ Min(I) \in 1 .. Len(Candidates) /\ Candidates[Min(I)] \notin files
    BY <2>3 DEF I
  <2>5. FilenameWithNumberSuffix = Candidates[Min(I)]
    BY <1>2, <1>4, <2>4 DEF FilenameWithNumberSuffix
  <2>6. Candidates[Min(I)] \in 0 .. maxNumber - 1
    BY <1>1, <2>4, ElementOfSeq
  <2> QED BY <1>0, <2>4, <2>5, <2>6 DEF OwnName
<1> QED BY <1>3, <1>4

-----------------------------------------------------------------------------
(* The inductive invariant.                                                *)

Counts == [pending : Nat, queued : 0 .. TRANS_QUEUE_DEPTH, commanded : 0 .. CMD_QUEUE_DEPTH,
           issued : Nat, total : Nat]

TypeInv ==
  /\ running \in BOOLEAN /\ thrown \in BOOLEAN /\ running => ~thrown
  /\ accepted \in 0 .. MaxTransactions
  /\ channels \in [Channels -> Counts]
  /\ channel \in 0 .. NUM_CHANS
  /\ currentClockCycle \in 0 .. EPOCH_LENGTH
  /\ VIS_FILE_OUTPUT \in BOOLEAN /\ visFilename \in BOOLEAN
  /\ visDataOut \in Closed .. maxNumber

(* What waits in front of a channel has the channel's own queue full       *)
(* behind it, or one short after a transaction has become a command; so a  *)
(* channel with anything in it says so.                                    *)
Backed(ch) ==
  /\ ch.issued <= ch.total
  /\ ch.pending > 0 => /\ ch.queued >= TRANS_QUEUE_DEPTH - 1
                       /\ ch.queued + ch.commanded > 0

Held(ch) == ch.pending + ch.queued + ch.commanded + ch.total

(* Nothing is lost between the client and the totals.                      *)
CountsInv ==
  /\ \A c \in Channels : Backed(channels[c])
  /\ accepted = SumOver([c \in Channels |-> Held(channels[c])])

(* Between two calls the writer is at the start of a line.                 *)
CsvInv ==
  /\ csvOut \in Csv
  /\ csvOut.line = << >> /\ csvOut.idx = 0
  /\ csvOut.fields \in {0, Len(csvOut.names)}
  /\ csvOut.epoch \in {<< >>, csvOut.names}
  /\ csvOut.names = IF csvOut.finalized THEN Header(VIS_FILE_OUTPUT) ELSE << >>

(* Until the first cycle no file is open.                                  *)
FilesInv ==
  (channel = 0 /\ currentClockCycle = 0 /\ ~thrown) => visDataOut = Closed

FrontInv == ClockInv /\ TypeInv /\ CountsInv /\ CsvInv /\ FilesInv

(* The front end's steps are steps of the clock-domain crosser.            *)
LEMMA FrontClock == [FrontNext]_frontVars => [ClockNext]_clockVars
<1> SUFFICES ASSUME [FrontNext]_frontVars PROVE [ClockNext]_clockVars
  OBVIOUS
<1> USE DEF clockVars
<1>1. CASE \E c \in Channels : AddTransaction(c)
  BY <1>1 DEF AddTransaction
<1>2. CASE SetSpeed
  BY <1>2 DEF SetSpeed, ClockNext
<1>3. CASE PrintStats
  BY <1>3 DEF PrintStats
<1>4. CASE Run \/ RunReturns
  BY <1>4 DEF Run, RunReturns
<1>5. CASE Update
  BY <1>5 DEF Update, ClockNext
<1>6. CASE ActualUpdate
  BY <1>6 DEF ActualUpdate, ClockNext
<1>7. CASE UpdateReturns
  BY <1>7 DEF UpdateReturns, ClockNext
<1>8. CASE \E c \in Channels : UpdateChannel(c)
  BY <1>8 DEF UpdateChannel
<1>9. CASE UNCHANGED frontVars
  BY <1>9 DEF frontVars
<1> QED BY <1>1, <1>2, <1>3, <1>4, <1>5, <1>6, <1>7, <1>8, <1>9 DEF FrontNext, Step

(* What update() does to one channel: nothing of it is lost.               *)
LEMMA UpdatedCounts ==
  ASSUME NEW ch \in Counts, Backed(ch), NEW new \in Updated(ch)
  PROVE  new \in Counts /\ Backed(new) /\ Held(new) = Held(ch)
<1> USE FrontAssumption DEF FrontAssumption
<1> DEFINE a == AcceptPending(ch)
<1>1. /\ a \in Counts /\ Held(a) = Held(ch) /\ a.issued <= a.total
      /\ a.pending > 0 => a.queued = TRANS_QUEUE_DEPTH
  <2>1. CASE ch.pending > 0 /\ ch.queued < TRANS_QUEUE_DEPTH
    <3>1. a = [ch EXCEPT !.pending = @ - 1, !.queued = @ + 1]
      BY <2>1 DEF AcceptPending, WillAcceptTransaction
    <3>2. /\ a.pending = ch.pending - 1 /\ a.queued = ch.queued + 1
          /\ a.commanded = ch.commanded /\ a.issued = ch.issued /\ a.total = ch.total
      BY <3>1 DEF Counts
    <3>3. ch.pending - 1 \in Nat /\ ch.queued + 1 \in 0 .. TRANS_QUEUE_DEPTH
      BY <2>1 DEF Counts
    <3>4. a \in Counts
      BY <3>1, <3>3 DEF Counts
    <3> HIDE DEF a
    <3> QED BY <2>1, <3>2, <3>4 DEF Counts, Held, Backed
  <2>2. CASE ~(ch.pending > 0 /\ ch.queued < TRANS_QUEUE_DEPTH)
    <3>1. a = ch
      BY <2>2 DEF AcceptPending, WillAcceptTransaction
    <3> QED BY <2>2, <3>1 DEF Counts, Backed
  <2> QED BY <2>1, <2>2
<1> HIDE DEF a
<1>2. PICK w \in [ended : 0 .. 1, sent : 0 .. 1, moved : 0 .. 1] :
        /\ w.ended <= a.issued /\ w.sent <= a.commanded /\ w.moved <= a.queued
        /\ a.commanded - w.sent + w.moved <= CMD_QUEUE_DEPTH
        /\ new = [a EXCEPT !.issued = @ - w.ended + w.sent,
                           !.commanded = @ - w.sent + w.moved,
                           !.queued = @ - w.moved, !.total = @ + w.sent]
  BY DEF Updated, a
<1>3. w.ended \in 0 .. 1 /\ w.sent \in 0 .. 1 /\ w.moved \in 0 .. 1
  OBVIOUS
<1>4. /\ a.pending \in Nat /\ a.queued \in 0 .. TRANS_QUEUE_DEPTH
      /\ a.commanded \in 0 .. CMD_QUEUE_DEPTH /\ a.issued \in Nat /\ a.total \in Nat
  BY <1>1 DEF Counts
<1>5. /\ new.pending = a.pending /\ new.queued = a.queued - w.moved
      /\ new.commanded = a.commanded - w.sent + w.moved
      /\ new.issued = a.issued - w.ended + w.sent /\ new.total = a.total + w.sent
  BY <1>1, <1>2 DEF Counts
<1>6. /\ a.queued - w.moved \in 0 .. TRANS_QUEUE_DEPTH
      /\ a.commanded - w.sent + w.moved \in 0 .. CMD_QUEUE_DEPTH
      /\ a.issued - w.ended + w.sent \in Nat /\ a.total + w.sent \in Nat
  BY <1>2, <1>3, <1>4
<1>7. new \in Counts
  BY <1>1, <1>2, <1>6 DEF Counts
<1>8. Backed(new)
  BY <1>1, <1>2, <1>3, <1>4, <1>5 DEF Backed
<1>9. Held(new) = Held(a)
  BY <1>3, <1>4, <1>5 DEF Held
<1> QED BY <1>1, <1>7, <1>8, <1>9

(* How the sum moves with one channel.                                     *)
LEMMA HeldSum ==
  ASSUME NEW old \in [Channels -> Counts], NEW new \in [Channels -> Counts],
         NEW c \in Channels, \A d \in Channels : d # c => new[d] = old[d]
  PROVE  SumOver([d \in Channels |-> Held(new[d])])
           = SumOver([d \in Channels |-> Held(old[d])]) + (Held(new[c]) - Held(old[c]))
<1>1. \A ch \in Counts : Held(ch) \in Int
  BY DEF Counts, Held
<1>2. PICK f \in [Channels -> Int] : f = [d \in Channels |-> Held(old[d])]
  BY <1>1
<1>3. PICK g \in [Channels -> Int] : g = [d \in Channels |-> Held(new[d])]
  BY <1>1
<1>4. AgreeExcept(NUM_CHANS, f, c, g)
  BY <1>2, <1>3 DEF AgreeExcept, Channels
<1>5. SumOver(g) = SumOver(f) + (g[c] - f[c])
  BY <1>4, SumUpdate
<1> QED BY <1>2, <1>3, <1>5

LEMMA FrontInvInit == FrontInit => FrontInv
<1> SUFFICES ASSUME FrontInit PROVE FrontInv
  OBVIOUS
<1> USE FrontAssumption DEF FrontAssumption
<1>1. ClockInv
  BY ClockInvInit DEF FrontInit
<1>2. TypeInv
  <2>1. Idle \in Counts
    BY DEF Idle, Counts
  <2>2. channels \in [Channels -> Counts]
    BY <2>1 DEF FrontInit
  <2> QED BY <2>2 DEF FrontInit, TypeInv, Closed
<1>3. CountsInv
  <2>1. \A c \in Channels : channels[c] = Idle
    BY DEF FrontInit
  <2>2. Held(Idle) = 0 /\ Backed(Idle)
    BY DEF Idle, Held, Backed
  <2>3. PICK f \in [Channels -> Nat] : f = [c \in Channels |-> Held(channels[c])]
    <3>1. \A c \in Channels : Held(channels[c]) \in Nat
      BY <2>1, <2>2
    <3>2. [c \in Channels |-> Held(channels[c])] \in [Channels -> Nat]
      BY <3>1
    <3> QED BY <3>2
  <2>4. SumOver(f) = 0
    <3>1. \A c \in Channels : f[c] = 0
      BY <2>1, <2>2, <2>3
    <3>2. PICK s \in [0 .. NUM_CHANS -> Int] :
            IsPartialSums(NUM_CHANS, f, s) /\ SumOver(f) = s[NUM_CHANS]
      <4>1. f \in [Channels -> Int]
        OBVIOUS
      <4> QED BY <4>1, SumDef
    <3> DEFINE P == {n \in 0 .. NUM_CHANS : s[n] = 0}
    <3>3. 0 \in P
      BY <3>2 DEF IsPartialSums
    <3>4. ASSUME NEW n \in 0 .. NUM_CHANS - 1, n \in P PROVE n + 1 \in P
      <4>1. n + 1 \in Channels /\ (n + 1) - 1 = n /\ n + 1 \in 0 .. NUM_CHANS
        BY DEF Channels
      <4>2. s[n + 1] = s[n] + f[n + 1]
        BY <3>2, <4>1 DEF IsPartialSums, Channels
      <4> QED BY <3>1, <3>4, <4>1, <4>2
    <3>5. 0 .. NUM_CHANS \subseteq P
      <4> HIDE DEF P
      <4> QED BY <3>3, <3>4, InductionUpTo
    <3> QED BY <3>2, <3>5
  <2> QED BY <2>1, <2>2, <2>3, <2>4 DEF CountsInv, FrontInit
<1>4. CsvInv
  <2>1. << >> \in Seq(Field) /\ Len(<< >>) = 0
    BY EmptySeq
  <2> QED BY <2>1 DEF FrontInit, CsvInv, Csv
<1>5. FilesInv
  BY DEF FrontInit, FilesInv
<1> QED BY <1>1, <1>2, <1>3, <1>4, <1>5 DEF FrontInv

(* The steps that touch the counts.                                        *)
LEMMA CountsNext ==
  ASSUME TypeInv, CountsInv, [FrontNext]_frontVars
  PROVE  CountsInv' /\ channels' \in [Channels -> Counts] /\ accepted' \in 0 .. MaxTransactions
<1> USE FrontAssumption DEF FrontAssumption
<1>1. ASSUME NEW c \in Channels, AddTransaction(c)
      PROVE  /\ CountsInv' /\ channels' \in [Channels -> Counts]
             /\ accepted' \in 0 .. MaxTransactions
  <2> DEFINE old == channels[c]
             new == IF WillAcceptTransaction(old) THEN [old EXCEPT !.queued = @ + 1]
                                                  ELSE [old EXCEPT !.pending = @ + 1]
  <2>1. old \in Counts /\ Backed(old)
    BY DEF TypeInv, CountsInv
  <2>2. channels' = [channels EXCEPT ![c] = new] /\ accepted' = accepted + 1
    BY <1>1 DEF AddTransaction
  <2> HIDE DEF old
  <2>3. new \in Counts /\ Backed(new) /\ Held(new) = Held(old) + 1
    <3>1. CASE old.queued < TRANS_QUEUE_DEPTH
      <4>1. new = [old EXCEPT !.queued = @ + 1]
        BY <3>1 DEF WillAcceptTransaction
      <4>2. old.queued + 1 \in 0 .. TRANS_QUEUE_DEPTH
        BY <2>1, <3>1 DEF Counts
      <4>3. new \in Counts
        BY <2>1, <4>1, <4>2 DEF Counts
      <4>4. /\ new.pending = old.pending /\ new.queued = old.queued + 1
            /\ new.commanded = old.commanded /\ new.issued = old.issued
            /\ new.total = old.total
        BY <2>1, <4>1 DEF Counts
      <4> HIDE DEF new
      <4> QED BY <2>1, <4>3, <4>4 DEF Counts, Held, Backed
    <3>2. CASE ~(old.queued < TRANS_QUEUE_DEPTH)
      <4>1. new = [old EXCEPT !.pending = @ + 1]
        BY <3>2 DEF WillAcceptTransaction
      <4>2. old.pending + 1 \in Nat
        BY <2>1 DEF Counts
      <4>3. new \in Counts
        BY <2>1, <4>1, <4>2 DEF Counts
      <4>4. /\ new.pending = old.pending + 1 /\ new.queued = old.queued
            /\ new.commanded = old.commanded /\ new.issued = old.issued
            /\ new.total = old.total
        BY <2>1, <4>1 DEF Counts
      <4> HIDE DEF new
      <4> QED BY <2>1, <3>2, <4>3, <4>4 DEF Counts, Held, Backed
    <3> QED BY <3>1, <3>2
  <2> HIDE DEF new
  <2>4. channels' \in [Channels -> Counts] /\ channels \in [Channels -> Counts]
    BY <2>2, <2>3 DEF TypeInv
  <2>5. channels'[c] = new /\ channels[c] = old
        /\ \A d \in Channels : d # c => channels'[d] = channels[d]
    BY <2>2, <2>4 DEF old
  <2>6. \A d \in Channels : Backed(channels'[d])
    BY <2>3, <2>5 DEF CountsInv
  <2>7. SumOver([d \in Channels |-> Held(channels'[d])])
          = SumOver([d \in Channels |-> Held(channels[d])]) + (Held(new) - Held(old))
    BY <2>4, <2>5, HeldSum
  <2>8. Held(old) \in Int /\ accepted \in Int
    BY <2>1 DEF Counts, Held, TypeInv
  <2>9. accepted' = SumOver([d \in Channels |-> Held(channels'[d])])
    BY <2>2, <2>3, <2>7, <2>8 DEF CountsInv
  <2>10. accepted' \in 0 .. MaxTransactions
    BY <1>1, <2>2 DEF AddTransaction, TypeInv
  <2> QED BY <2>4, <2>6, <2>9, <2>10 DEF CountsInv
<1>2. ASSUME NEW c \in Channels, UpdateChannel(c)
      PROVE  /\ CountsInv' /\ channels' \in [Channels -> Counts]
             /\ accepted' \in 0 .. MaxTransactions
  <2>1. PICK new \in Updated(channels[c]) : channels' = [channels EXCEPT ![c] = new]
    BY <1>2 DEF UpdateChannel
  <2>2. channels[c] \in Counts /\ Backed(channels[c])
    BY DEF TypeInv, CountsInv
  <2>3. new \in Counts /\ Backed(new) /\ Held(new) = Held(channels[c])
    BY <2>2, UpdatedCounts
  <2>4. channels' \in [Channels -> Counts] /\ channels \in [Channels -> Counts]
    BY <2>1, <2>3 DEF TypeInv
  <2>5. channels'[c] = new /\ \A d \in Channels : d # c => channels'[d] = channels[d]
    BY <2>1, <2>4
  <2>6. \A d \in Channels : Backed(channels'[d])
    BY <2>3, <2>5 DEF CountsInv
  <2>7. SumOver([d \in Channels |-> Held(channels'[d])])
          = SumOver([d \in Channels |-> Held(channels[d])]) + (Held(new) - Held(channels[c]))
    BY <2>4, <2>5, HeldSum
  <2>8. Held(channels[c]) \in Int /\ accepted \in Int /\ accepted' = accepted
    BY <1>2, <2>2 DEF Counts, Held, TypeInv, UpdateChannel, clientVars
  <2>9. accepted' = SumOver([d \in Channels |-> Held(channels'[d])])
    BY <2>3, <2>7, <2>8 DEF CountsInv
  <2> QED BY <2>4, <2>6, <2>8, <2>9 DEF CountsInv, TypeInv
<1>3. CASE UNCHANGED << channels, accepted >>
  BY <1>3 DEF CountsInv, TypeInv
<1>4. \/ \E c \in Channels : AddTransaction(c) \/ UpdateChannel(c)
      \/ UNCHANGED << channels, accepted >>
  BY DEF FrontNext, Step, SetSpeed, PrintStats, Run, RunReturns, Update, ActualUpdate,
         BeginActualUpdate, UpdateReturns, frontVars, clientVars
<1> QED BY <1>1, <1>2, <1>3, <1>4

(* The steps that touch the writer of the statistics.                      *)
LEMMA CsvNext ==
  ASSUME TypeInv, CsvInv, [FrontNext]_frontVars
  PROVE  CsvInv'
<1> DEFINE header == Header(VIS_FILE_OUTPUT)
<1>1. VIS_FILE_OUTPUT' = VIS_FILE_OUTPUT
  BY DEF FrontNext, Step, AddTransaction, SetSpeed, PrintStats, Run, RunReturns, Update,
         ActualUpdate, BeginActualUpdate, UpdateReturns, UpdateChannel, fileVars, frontVars
<1>2. /\ csvOut \in Csv /\ VIS_FILE_OUTPUT \in BOOLEAN
      /\ csvOut.line = << >> /\ csvOut.idx = 0
      /\ ~csvOut.finalized => csvOut.names = << >>
  BY DEF CsvInv, TypeInv
<1>3. ASSUME NEW finalStats \in BOOLEAN,
             \/ csvOut' = [Finalize(Row(csvOut, finalStats)) EXCEPT !.epoch = csvOut.epoch]
             \/ /\ ~finalStats
                /\ csvOut' = [Finalize(Row(csvOut, finalStats))
                                EXCEPT !.epoch = Row(csvOut, finalStats).line]
      PROVE  CsvInv'
  <2> DEFINE row == Row(csvOut, finalStats)
  <2>1. /\ row \in Csv /\ header \in Seq(Field)
        /\ ~csvOut.finalized => Gathers(csvOut, row, header)
        /\ csvOut.finalized => FillsRow(csvOut, row, header, finalStats)
    BY <1>2, RowWritten
  <2>2. << >> \in Seq(Field) /\ Len(<< >>) = 0 /\ Len(header) \in Nat
    BY <2>1, EmptySeq, LenProperties
  <2>3. PICK epoch : /\ epoch = csvOut.epoch \/ (~finalStats /\ epoch = row.line)
                     /\ csvOut' = [Finalize(row) EXCEPT !.epoch = epoch]
    BY <1>3
  <2>4. csvOut' = [Finalize(row) EXCEPT !.epoch = epoch]
    BY <2>3
  <2> HIDE DEF row, header
  <2>5. CASE csvOut.finalized
    <3>1. FillsRow(csvOut, row, header, finalStats) /\ csvOut.names = header
      BY <2>1, <2>5 DEF CsvInv, header
    <3>2. epoch \in {<< >>, header} /\ epoch \in Seq(Field)
      BY <2>1, <2>2, <2>3, <3>1 DEF CsvInv, FillsRow, Csv
    <3>3. csvOut' = [row EXCEPT !.fields = row.idx, !.idx = 0, !.line = << >>, !.epoch = epoch]
      BY <2>1, <2>4, <2>5, <3>1 DEF Finalize, FillsRow, Csv
    <3>4. /\ csvOut'.names = header /\ csvOut'.finalized = TRUE /\ csvOut'.idx = 0
          /\ csvOut'.line = << >> /\ csvOut'.fields = Len(header) /\ csvOut'.epoch = epoch
      BY <2>1, <2>5, <3>1, <3>3 DEF FillsRow, Csv
    <3>5. csvOut' \in Csv
      BY <2>1, <2>2, <3>1, <3>2, <3>3 DEF FillsRow, Csv
    <3>6. header = Header(VIS_FILE_OUTPUT')
      BY <1>1 DEF header
    <3> QED BY <3>2, <3>4, <3>5, <3>6 DEF CsvInv
  <2>6. CASE ~csvOut.finalized
    <3>1. Gathers(csvOut, row, header) /\ csvOut.names = << >>
      BY <1>2, <2>1, <2>6
    <3>2. csvOut.fields = 0 /\ csvOut.epoch = << >>
      BY <2>2, <3>1 DEF CsvInv
    <3>3. epoch = << >>
      BY <2>3, <3>1, <3>2 DEF Gathers
    <3>4. csvOut' = [row EXCEPT !.finalized = TRUE, !.epoch = << >>]
      BY <2>1, <2>4, <2>6, <3>1, <3>3 DEF Finalize, Gathers, Csv
    <3>5. /\ csvOut'.names = header /\ csvOut'.finalized = TRUE /\ csvOut'.idx = 0
          /\ csvOut'.line = << >> /\ csvOut'.fields = 0 /\ csvOut'.epoch = << >>
      BY <2>1, <3>1, <3>2, <3>4 DEF Gathers, Csv
    <3>6. csvOut' \in Csv
      BY <2>1, <2>2, <3>4 DEF Csv
    <3>7. header = Header(VIS_FILE_OUTPUT')
      BY <1>1 DEF header
    <3> QED BY <3>5, <3>6, <3>7 DEF CsvInv
  <2> QED BY <2>5, <2>6
<1>4. CASE PrintStats
  <2>0. PICK finalStats \in BOOLEAN : finalStats = TRUE
    OBVIOUS
  <2>1. csvOut' = Finalize(Row(csvOut, finalStats))
    BY <1>4, <2>0 DEF PrintStats
  <2>2. /\ Row(csvOut, finalStats) \in Csv
        /\ Row(csvOut, finalStats).epoch = csvOut.epoch
    BY <1>2, RowWritten DEF Gathers, FillsRow
  <2>3. /\ Finalize(Row(csvOut, finalStats)) \in Csv
        /\ Finalize(Row(csvOut, finalStats)).epoch = csvOut.epoch
    <3>1. << >> \in Seq(Field)
      BY EmptySeq
    <3> QED BY <2>2, <3>1 DEF Finalize, Csv
  <2>4. csvOut' = [Finalize(Row(csvOut, finalStats)) EXCEPT !.epoch = csvOut.epoch]
    BY <2>1, <2>3 DEF Csv
  <2> QED BY <1>3, <2>4
<1>5. CASE csvOut' = EpochRow(csvOut)
  <2>1. csvOut' = [Finalize(Row(csvOut, FALSE)) EXCEPT !.epoch = Row(csvOut, FALSE).line]
    BY <1>5 DEF EpochRow
  <2> QED BY <1>3, <2>1
<1>6. CASE UNCHANGED csvOut
  <2>1. Header(VIS_FILE_OUTPUT') = Header(VIS_FILE_OUTPUT)
    BY <1>1
  <2>2. csvOut' = csvOut
    BY <1>6
  <2>3. /\ csvOut' \in Csv
        /\ csvOut'.line = << >> /\ csvOut'.idx = 0
        /\ csvOut'.fields \in {0, Len(csvOut'.names)}
        /\ csvOut'.epoch \in {<< >>, csvOut'.names}
    BY <2>2 DEF CsvInv
  <2>4. csvOut'.names = IF csvOut'.finalized THEN Header(VIS_FILE_OUTPUT') ELSE << >>
    BY <2>1, <2>2 DEF CsvInv
  <2> QED BY <2>3, <2>4 DEF CsvInv
<1>7. PrintStats \/ csvOut' = EpochRow(csvOut) \/ UNCHANGED csvOut
  BY DEF FrontNext, Step, AddTransaction, SetSpeed, Run, RunReturns, Update, ActualUpdate,
         BeginActualUpdate, UpdateReturns, UpdateChannel, frontVars
<1> QED BY <1>4, <1>5, <1>6, <1>7

(* The first cycle opens a file of its own, and no other cycle opens any.  *)
LEMMA FilesNext ==
  ASSUME TypeInv, FilesInv, [FrontNext]_frontVars
  PROVE  /\ FilesInv'
         /\ visDataOut' \in Closed .. maxNumber
         /\ visDataOut' # visDataOut => visDataOut = Closed /\ OwnName(visDataOut')
<1> USE FrontAssumption DEF FrontAssumption
<1>1. ASSUME BeginActualUpdate, channel = 0, ~thrown
      PROVE  /\ FilesInv'
             /\ visDataOut' \in Closed .. maxNumber
             /\ visDataOut' # visDataOut => visDataOut = Closed /\ OwnName(visDataOut')
  <2>1. CASE currentClockCycle = 0
    <3>1. visDataOut = Closed
      BY <1>1, <2>1 DEF FilesInv
    <3>2. FilenameWithNumberSuffix \in 0 .. maxNumber /\ OwnName(FilenameWithNumberSuffix)
      BY FreshName
    <3>3. InitOutputFiles
      BY <1>1, <2>1 DEF BeginActualUpdate
    <3>4. CASE VIS_FILE_OUTPUT /\ visFilename
      <4>1. visDataOut' = FilenameWithNumberSuffix
        BY <3>3, <3>4 DEF InitOutputFiles
      <4>2. channel' = 1
        BY <1>1, <3>4 DEF BeginActualUpdate, CannotName
      <4> QED BY <3>1, <3>2, <4>1, <4>2 DEF FilesInv, Closed
    <3>5. CASE ~(VIS_FILE_OUTPUT /\ visFilename)
      <4>1. visDataOut' = visDataOut /\ files' = files
        BY <3>3, <3>5 DEF InitOutputFiles
      <4> QED BY <3>1, <4>1 DEF FilesInv, TypeInv
    <3> QED BY <3>4, <3>5
  <2>2. CASE currentClockCycle # 0
    <3>1. visDataOut' = visDataOut /\ currentClockCycle' = currentClockCycle
      BY <1>1, <2>2 DEF BeginActualUpdate
    <3> QED BY <2>2, <3>1 DEF FilesInv, TypeInv
  <2> QED BY <2>1, <2>2
<1>2. CASE \E c \in Channels : UpdateChannel(c)
  <2>1. PICK c \in Channels : UpdateChannel(c)
    BY <1>2
  <2>2. channel = c /\ channel # 0 /\ visDataOut' = visDataOut /\ files' = files
    BY <2>1 DEF UpdateChannel, fileVars, Channels
  <2>3. CASE channel = NUM_CHANS
    <3>1. currentClockCycle' = (currentClockCycle % EPOCH_LENGTH) + 1
      BY <2>1, <2>3 DEF UpdateChannel, AtLastChannel
    <3>2. currentClockCycle % EPOCH_LENGTH \in Nat
      BY DEF TypeInv
    <3>3. currentClockCycle' # 0
      BY <3>1, <3>2
    <3> QED BY <2>2, <3>3 DEF FilesInv, TypeInv
  <2>4. CASE channel # NUM_CHANS
    <3>1. channel' = channel + 1
      BY <2>1, <2>4 DEF UpdateChannel, AtLastChannel
    <3>2. channel' # 0
      BY <2>2, <3>1 DEF Channels
    <3> QED BY <2>2, <3>2 DEF FilesInv, TypeInv
  <2> QED BY <2>3, <2>4
<1>3. CASE UNCHANGED << channel, currentClockCycle, thrown, files, visDataOut >>
  BY <1>3 DEF FilesInv, TypeInv
<1>4. \/ BeginActualUpdate /\ channel = 0 /\ ~thrown
      \/ \E c \in Channels : UpdateChannel(c)
      \/ UNCHANGED << channel, currentClockCycle, thrown, files, visDataOut >>
  BY DEF FrontNext, Step, AddTransaction, SetSpeed, PrintStats, Run, RunReturns, Update,
         ActualUpdate, UpdateReturns, Between, fileVars, frontVars
<1> QED BY <1>1, <1>2, <1>3, <1>4

LEMMA TypeNext ==
  ASSUME TypeInv, CountsInv, FilesInv, [FrontNext]_frontVars
  PROVE  TypeInv'
<1> USE FrontAssumption DEF FrontAssumption
<1>1. channels' \in [Channels -> Counts] /\ accepted' \in 0 .. MaxTransactions
  BY CountsNext
<1>2. visDataOut' \in Closed .. maxNumber
  BY FilesNext
<1>3. VIS_FILE_OUTPUT' = VIS_FILE_OUTPUT /\ visFilename' = visFilename
  BY DEF FrontNext, Step, AddTransaction, SetSpeed, PrintStats, Run, RunReturns, Update,
         ActualUpdate, BeginActualUpdate, UpdateReturns, UpdateChannel, fileVars, frontVars
<1> DEFINE Rest == /\ running' \in BOOLEAN /\ thrown' \in BOOLEAN /\ running' => ~thrown'
                   /\ channel' \in 0 .. NUM_CHANS
                   /\ currentClockCycle' \in 0 .. EPOCH_LENGTH
<1>4. ASSUME BeginActualUpdate PROVE Rest
  <2>1. /\ currentClockCycle' = currentClockCycle
        /\ thrown' = CannotName
        /\ channel' = IF CannotName THEN 0 ELSE 1
        /\ running' = (running /\ ~CannotName)
    BY <1>4 DEF BeginActualUpdate
  <2>2. CASE CannotName
    <3>1. thrown' = TRUE /\ channel' = 0 /\ running' = FALSE
      BY <2>1, <2>2
    <3> QED BY <2>1, <3>1 DEF TypeInv
  <2>3. CASE ~CannotName
    <3>1. thrown' = FALSE /\ channel' = 1
      BY <2>1, <2>3
    <3>2. running' \in BOOLEAN
      BY <2>1
    <3> QED BY <2>1, <3>1, <3>2 DEF TypeInv
  <2> QED BY <2>2, <2>3
<1>5. ASSUME NEW c \in Channels, UpdateChannel(c) PROVE Rest
  <2>1. running' = running /\ thrown' = thrown
    BY <1>5 DEF UpdateChannel, clientVars
  <2>2. CASE channel = NUM_CHANS
    <3>1. channel' = 0 /\ currentClockCycle' = (currentClockCycle % EPOCH_LENGTH) + 1
      BY <1>5, <2>2 DEF UpdateChannel, AtLastChannel
    <3>2. currentClockCycle % EPOCH_LENGTH \in 0 .. EPOCH_LENGTH - 1
      BY DEF TypeInv
    <3>3. currentClockCycle' \in 0 .. EPOCH_LENGTH
      BY <3>1, <3>2
    <3> QED BY <2>1, <3>1, <3>3 DEF TypeInv
  <2>3. CASE channel # NUM_CHANS
    <3>1. channel' = channel + 1 /\ currentClockCycle' = currentClockCycle
      BY <1>5, <2>3 DEF UpdateChannel, AtLastChannel
    <3> QED BY <2>1, <2>3, <3>1 DEF TypeInv
  <2> QED BY <2>2, <2>3
<1>6. ASSUME Run PROVE Rest
  BY <1>6 DEF Run, Between, TypeInv
<1>7. ASSUME RunReturns PROVE Rest
  BY <1>7 DEF RunReturns, TypeInv
<1>8. ASSUME UNCHANGED << running, thrown, channel, currentClockCycle >> PROVE Rest
  BY <1>8 DEF TypeInv
<1>9. \/ BeginActualUpdate \/ \E c \in Channels : UpdateChannel(c)
      \/ Run \/ RunReturns
      \/ UNCHANGED << running, thrown, channel, currentClockCycle >>
  BY DEF FrontNext, Step, AddTransaction, SetSpeed, PrintStats, Update, ActualUpdate,
         UpdateReturns, clientVars, frontVars
<1>10. Rest
  BY <1>4, <1>5, <1>6, <1>7, <1>8, <1>9
<1> QED BY <1>1, <1>2, <1>3, <1>10 DEF TypeInv

LEMMA FrontInvNext == FrontInv /\ [FrontNext]_frontVars => FrontInv'
<1> SUFFICES ASSUME FrontInv, [FrontNext]_frontVars PROVE FrontInv'
  OBVIOUS
<1> USE DEF FrontInv
<1>1. ClockInv'
  BY FrontClock, ClockInvNext
<1>2. TypeInv'
  BY TypeNext
<1>3. CountsInv'
  BY CountsNext
<1>4. CsvInv'
  BY CsvNext
<1>5. FilesInv'
  BY FilesNext
<1> QED BY <1>1, <1>2, <1>3, <1>4, <1>5

LEMMA FrontInvAlways == FrontSpec => []FrontInv
  BY FrontInvInit, FrontInvNext, PTL DEF FrontSpec

-----------------------------------------------------------------------------
(* The queues of a channel never hold more than they have room for, and no *)
(* count passes the number of transactions that were added                 *)
(* (MultiChannelMemorySystem::addTransaction, MemoryController::update).   *)
THEOREM FrontTypeCorrect == FrontSpec => []FrontTypeOK
<1>1. FrontInv => FrontTypeOK
  <2> SUFFICES ASSUME FrontInv PROVE FrontTypeOK
    OBVIOUS
  <2>1. ASSUME NEW c \in Channels, NEW f \in DOMAIN Idle
        PROVE  channels[c][f] \in 0 .. MaxTransactions
    <3>1. channels[c] \in Counts /\ Backed(channels[c])
      BY DEF FrontInv, TypeInv, CountsInv
    <3>2. Held(channels[c]) <= accepted /\ accepted \in 0 .. MaxTransactions
      <4>1. \A d \in Channels : Held(channels[d]) \in Nat
        BY DEF FrontInv, TypeInv, Counts, Held
      <4>2. PICK g \in [Channels -> Nat] : g = [d \in Channels |-> Held(channels[d])]
        <5>1. [d \in Channels |-> Held(channels[d])] \in [Channels -> Nat]
          BY <4>1
        <5> QED BY <5>1
      <4>3. g[c] <= SumOver(g)
        BY SumOfNaturals
      <4> QED BY <4>2, <4>3 DEF FrontInv, TypeInv, CountsInv
    <3>3. f \in {"pending", "queued", "commanded", "issued", "total"}
      BY DEF Idle
    <3>4. MaxTransactions \in Nat
      BY FrontAssumption DEF FrontAssumption
    <3>5. /\ channels[c].pending \in 0 .. MaxTransactions
          /\ channels[c].queued \in 0 .. MaxTransactions
          /\ channels[c].commanded \in 0 .. MaxTransactions
          /\ channels[c].total \in 0 .. MaxTransactions
          /\ channels[c].issued \in 0 .. MaxTransactions
      BY <3>1, <3>2, <3>4, FrontAssumption DEF Counts, Held, Backed, FrontAssumption
    <3> QED BY <3>3, <3>5
  <2>2. \A c \in Channels : /\ channels[c].queued <= TRANS_QUEUE_DEPTH
                            /\ channels[c].commanded <= CMD_QUEUE_DEPTH
    BY FrontAssumption DEF FrontInv, TypeInv, Counts, FrontAssumption
  <2> QED BY <2>1, <2>2 DEF FrontInv, TypeInv, FrontTypeOK
<1> QED BY <1>1, FrontInvAlways, PTL

(* When hasPendingTransactions() says no, although it looks only at what   *)
(* the controllers hold, nothing waits in front of any of them either, and *)
(* the totals account for every transaction: for any number of channels,   *)
(* any depths of the queues and any interleaving with the client           *)
(* (MultiChannelMemorySystem::hasPendingTransactions).                     *)
THEOREM EveryAccessCountedAlways == FrontSpec => []EveryAccessCounted
<1>1. FrontInv => EveryAccessCounted
  <2> SUFFICES ASSUME FrontInv, ~hasPendingTransactions
               PROVE  /\ \A c \in Channels : channels[c].pending = 0
                      /\ accepted = SumOver([c \in Channels |-> channels[c].total])
    BY DEF EveryAccessCounted
  <2>1. ASSUME NEW c \in Channels
        PROVE  channels[c].pending = 0 /\ Held(channels[c]) = channels[c].total
    <3>1. channels[c] \in Counts /\ Backed(channels[c])
      BY DEF FrontInv, TypeInv, CountsInv
    <3>2. ~(channels[c].queued + channels[c].commanded + channels[c].issued > 0)
      BY DEF hasPendingTransactions
    <3>3. /\ channels[c].pending \in Nat /\ channels[c].queued \in Nat
          /\ channels[c].commanded \in Nat /\ channels[c].issued \in Nat
          /\ channels[c].total \in Nat
      BY <3>1, FrontAssumption DEF Counts, FrontAssumption
    <3>4. channels[c].queued = 0 /\ channels[c].commanded = 0
      BY <3>2, <3>3
    <3>5. channels[c].pending = 0
      BY <3>1, <3>3, <3>4 DEF Backed
    <3> QED BY <3>3, <3>4, <3>5 DEF Held
  <2>2. [c \in Channels |-> Held(channels[c])] = [c \in Channels |-> channels[c].total]
    BY <2>1
  <2>3. accepted = SumOver([c \in Channels |-> Held(channels[c])])
    BY DEF FrontInv, CountsInv
  <2> QED BY <2>1, <2>2, <2>3
<1> QED BY <1>1, FrontInvAlways, PTL

(* Every row of the statistics has as many values as the header has names, *)
(* and an epoch's values stand below their own names, whatever the numbers *)
(* of channels and ranks (MultiChannelMemorySystem::printStats, CSVWriter).*)
THEOREM RowsMatchHeaderAlways == FrontSpec => []RowsMatchHeader
<1>1. FrontInv => RowsMatchHeader
  BY DEF FrontInv, CsvInv, RowsMatchHeader
<1> QED BY <1>1, FrontInvAlways, PTL

(* A run opens one file, and empties none that an earlier run has left,    *)
(* however many there are: only the one of the bare name, and only when    *)
(* every name that FilenameWithNumberSuffix tries exists.                  *)
THEOREM FileAlwaysItsOwn == FrontSpec => OneFileOfItsOwn
<1>1. FrontInv /\ [FrontNext]_frontVars =>
        [visDataOut' # visDataOut =>
           /\ visDataOut = Closed
           /\ \/ visDataOut' \notin files
              \/ visDataOut' = Bare /\ 0 .. maxNumber - 2 \subseteq files]_frontVars
  BY FilesNext DEF FrontInv, OwnName
<1> QED BY <1>1, FrontInvAlways, PTL DEF FrontSpec, OneFileOfItsOwn

(* The callbacks keep to the ratio of the clocks in the whole front end:   *)
(* the client sets the speed before the first update only, and no          *)
(* exception, short circuit or end of a run disturbs the counters          *)
(* (MultiChannelMemorySystem::update, ClockDomainCrosser::update).         *)
THEOREM FrontNoDrift == FrontSpec => []NoDrift
<1>1. FrontInv => NoDrift
  BY ClockAssumption DEF ClockAssumption, FrontInv, ClockInv, NoDrift
<1> QED BY <1>1, FrontInvAlways, PTL

=============================================================================

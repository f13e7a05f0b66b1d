--------------------------- MODULE PIMProgramProofs ---------------------------
(***************************************************************************)
(* A kernel and its program are in step: whichever access comes next       *)
(* executes the instruction that the kernel meant it to, for any number of *)
(* tiles and vectors, any sequence of kernels, and any order of the        *)
(* accesses between two barriers.                                          *)
(*                                                                         *)
(* The argument looks at one rank at a time.  Leads(r, s, ..., d, e) says  *)
(* that the calls s, wherever they stand, take rank r from the state d to  *)
(* the state e and do what they are meant to on the way, in every order    *)
(* that the barriers among them allow.  Lists of calls that lead on from   *)
(* each other are put together (LeadsFurther, LeadsJoined), a group of     *)
(* accesses leads through the NUM_GRF executions of one word (LeadsGroup), *)
(* and so a whole kernel leads from one rest to the next (EltwiseFits,     *)
(* MatrixFits).  The invariant ControlInv says that what is still          *)
(* outstanding leads there.                                                *)
(***************************************************************************)
EXTENDS PIMProgram, CommonLemmas, FiniteSetTheorems

(* The remainders by two powers in turn.                                   *)
LEMMA NextRemainder ==
  ASSUME NEW v \in Nat, NEW d \in Nat \ {0}
  PROVE  v % (2 * d) = (v % d) + (IF (v \div d) % 2 = 1 THEN d ELSE 0)
<1> DEFINE q == v \div d
           m == v % d
           h == q \div 2
           b == q % 2
<1>1. v = d * q + m /\ q \in Nat /\ m \in 0 .. d - 1
  OBVIOUS
<1>2. q = 2 * h + b /\ h \in Nat /\ b \in 0 .. 1
  <2> HIDE DEF q
  <2> QED
    BY <1>1
<1>3. v = (2 * d) * h + (d * b + m)
  <2>1. d * (2 * h + b) = (2 * d) * h + d * b
    BY <1>2
  <2> HIDE DEF q, m, h, b
  <2> QED
    BY <1>1, <1>2, <2>1
<1>4. d * b + m \in 0 .. 2 * d - 1
  <2>1. b = 0 \/ b = 1
    BY <1>2
  <2> HIDE DEF q, m, h, b
  <2> QED
    BY <1>1, <2>1
<1>5. \A e \in Nat \ {0}, x \in Nat, r \in Nat : r < e => (e * x + r) % e = r
  OBVIOUS
<1>6. v % (2 * d) = d * b + m
  <2> DEFINE e == 2 * d
             r == d * b + m
  <2>1. e \in Nat \ {0} /\ r \in Nat /\ r < e
    BY <1>4
  <2>2. v = e * h + r
    BY <1>3
  <2> HIDE DEF q, m, h, b, e, r
  <2>3. (e * h + r) % e = r
    BY <1>2, <1>5, <2>1
  <2> QED
    BY <2>2, <2>3 DEF e, r
<1>7. d * b = IF b = 1 THEN d ELSE 0
  <2> HIDE DEF b
  <2> QED
    BY <1>2
<1> HIDE DEF q, m, h, b
<1> QED
  BY <1>1, <1>6, <1>7 DEF q, m, b

(* fromBit adds up the weights of the bits.                                *)
BitWeights(word, len, pos) ==
  [n \in 1 .. len |-> IF pos + n - 1 \in word THEN 2 ^ (n - 1) ELSE 0]

(* The sum of the weights, as partial sums.                                  *)
LEMMA FromBitSums ==
  ASSUME NEW word, NEW len \in 0 .. 31, NEW pos \in Nat
  PROVE  \E s \in [0 .. len -> Int] :
           IsPartialSums(len, BitWeights(word, len, pos), s) /\ fromBit(word, len, pos) = s[len]
<1> DEFINE f == BitWeights(word, len, pos)
           Low(g) == g = [n \in 0 .. len |->
             IF n = 0 THEN 0
             ELSE g[n - 1] + (IF pos + n - 1 \in word THEN 2 ^ (n - 1) ELSE 0)]
           low == CHOOSE g : Low(g)
<1>1. f \in [1 .. len -> Int]
  <2>1. \A n \in 1 .. len : n - 1 \in 0 .. 31
    OBVIOUS
  <2>2. \A n \in 1 .. len : 2 ^ (n - 1) \in Nat
    BY <2>1, PowerPositive
  <2> QED
    BY <2>2 DEF BitWeights
<1>2. PICK s \in [0 .. len -> Int] : IsPartialSums(len, f, s)
  <2> HIDE DEF f
  <2> QED
    BY <1>1, PartialSumsExist
<1>3. Low(s)
  <2>1. \A n \in 0 .. len : s[n] = IF n = 0 THEN 0 ELSE s[n - 1] + (IF pos + n - 1 \in word THEN 2 ^ (n - 1) ELSE 0)
    BY <1>2 DEF IsPartialSums, BitWeights
  <2> QED
    BY <2>1
<1>4. Low(low)
  BY <1>3
<1>5. low[0] = 0 /\ \A n \in 1 .. len : low[n] = low[n - 1] + f[n]
  <2>1. 0 \in 0 .. len /\ \A n \in 1 .. len : n \in 0 .. len
    OBVIOUS
  <2>2. 0 \in 0 .. len
    OBVIOUS
  <2>3. ASSUME NEW n \in 0 .. len
        PROVE  low[n] = IF n = 0 THEN 0
                        ELSE low[n - 1] + (IF pos + n - 1 \in word THEN 2 ^ (n - 1) ELSE 0)
    <3> HIDE DEF low
    <3> QED
      BY <1>4
  <2> HIDE DEF low, Low
  <2> QED
    BY <2>1, <2>3 DEF BitWeights
<1>6. IsPartialSums(len, f, low)
  BY <1>5 DEF IsPartialSums
<1>7. \A n \in 0 .. len : low[n] \in Int
  <2> HIDE DEF low, f
  <2> QED
    BY <1>1, <1>6, PartialSumsType
<1>8. low \in [0 .. len -> Int]
  <2>1. DOMAIN low = 0 .. len /\ low = [n \in 0 .. len |-> low[n]]
    BY <1>4
  <2> HIDE DEF low
  <2> QED
    BY <1>7, <2>1
<1>9. fromBit(word, len, pos) = low[len]
  BY DEF fromBit
<1> QED
  BY <1>6, <1>8, <1>9

(* A number that fits its field is read back.                              *)
LEMMA FieldReadBack ==
  ASSUME NEW word, NEW len \in 0 .. 31, NEW pos \in Nat, NEW val \in 0 .. 2 ^ len - 1,
         \A i \in 0 .. len - 1 : pos + i \in word <=> (val \div 2 ^ i) % 2 = 1
  PROVE  fromBit(word, len, pos) = val
<1> DEFINE f == BitWeights(word, len, pos)
<1>1. PICK s \in [0 .. len -> Int] :
        IsPartialSums(len, f, s) /\ fromBit(word, len, pos) = s[len]
  BY FromBitSums
<1> DEFINE P == {n \in 0 .. len : s[n] = val % 2 ^ n}
<1>2. val \in Nat /\ 2 ^ len \in Nat \ {0}
  BY PowerPositive
<1>3. 0 \in P
  BY <1>1, <1>2, Doubling DEF IsPartialSums
<1>4. ASSUME NEW n \in 0 .. len - 1, n \in P PROVE n + 1 \in P
  <2>1. n + 1 \in 1 .. len /\ (n + 1) - 1 = n /\ n \in 0 .. 30 /\ n \in 0 .. 31
    OBVIOUS
  <2>2. s[n + 1] = s[n] + f[n + 1]
    BY <1>1, <2>1 DEF IsPartialSums
  <2>3. pos + (n + 1) - 1 = pos + n
    OBVIOUS
  <2>4. f[n + 1] = IF pos + n \in word THEN 2 ^ n ELSE 0
    BY <2>1, <2>3 DEF BitWeights
  <2>5. pos + n \in word <=> (val \div 2 ^ n) % 2 = 1
    OBVIOUS
  <2>6. 2 ^ n \in Nat \ {0} /\ 2 ^ (n + 1) = 2 * 2 ^ n
    BY <2>1, Doubling, PowerPositive
  <2>7. val % (2 * 2 ^ n) = (val % (2 ^ n)) + (IF (val \div 2 ^ n) % 2 = 1 THEN 2 ^ n ELSE 0)
    BY <1>2, <2>6, NextRemainder
  <2> HIDE DEF f
  <2>8. s[n + 1] = val % 2 ^ (n + 1)
    BY <1>4, <2>2, <2>4, <2>5, <2>6, <2>7
  <2> QED
    BY <2>1, <2>8
<1>5. 0 .. len \subseteq P
  <2> HIDE DEF P
  <2>1. len \in Nat
    OBVIOUS
  <2> QED
    BY <1>3, <1>4, <2>1, InductionUpTo
<1>6. s[len] = val % 2 ^ len
  BY <1>5
<1>7. val % 2 ^ len = val
  <2> DEFINE d == 2 ^ len
  <2>1. d \in Nat \ {0} /\ val \in 0 .. d - 1
    BY <1>2
  <2> HIDE DEF d
  <2>2. val % d = val
    BY <2>1
  <2> QED
    BY <2>2 DEF d
<1> QED
  BY <1>1, <1>6, <1>7

(* An enumerator and its name.                                             *)
LEMMA CodeOfName ==
  ASSUME NEW n \in Nat, NEW names, DOMAIN names = 1 .. n, NEW k \in 1 .. n
  PROVE  /\ Code(names, names[k]) \in 0 .. n - 1
         /\ names[Code(names, names[k]) + 1] = names[k]
<1> DEFINE i == CHOOSE i \in DOMAIN names : names[i] = names[k]
<1>1. i \in 1 .. n /\ names[i] = names[k]
  OBVIOUS
<1>2. Code(names, names[k]) = i - 1
  BY DEF Code
<1> HIDE DEF i
<1>3. (i - 1) + 1 = i
  BY <1>1
<1> QED
  BY <1>1, <1>2, <1>3

(* A word of fields that do not overlap.                                   *)
IsLayout(at) ==
  /\ \A f \in DOMAIN at : at[f][1] \in 0 .. 31 /\ at[f][2] \in Nat /\ at[f][2] + at[f][1] <= 28
  /\ \A f, g \in DOMAIN at :
       f = g \/ at[f][2] + at[f][1] <= at[g][2] \/ at[g][2] + at[g][1] <= at[f][2]

WordOf(code, at, v) ==
  toBit(code, 4, 28) \cup UNION {toBit(v[f], at[f][1], at[f][2]) : f \in DOMAIN at}

(* The bits that toBit sets.                                                 *)
LEMMA BitMember ==
  ASSUME NEW val \in Int, NEW len \in Nat, NEW pos \in Nat, NEW p
  PROVE  p \in toBit(val, len, pos)
           <=> \E i \in 0 .. len - 1 : p = pos + i /\ (val \div 2 ^ i) % 2 = 1
  BY DEF toBit

(* From a word whose fields do not overlap each field is read back.          *)
LEMMA WordReadBack ==
  ASSUME NEW at, IsLayout(at), NEW code \in 0 .. 15, NEW v,
         \A f \in DOMAIN at : v[f] \in 0 .. 2 ^ at[f][1] - 1
  PROVE  /\ fromBit(WordOf(code, at, v), 4, 28) = code
         /\ \A f \in DOMAIN at : fromBit(WordOf(code, at, v), at[f][1], at[f][2]) = v[f]
<1> DEFINE word == WordOf(code, at, v)
<1>0. \A f \in DOMAIN at : at[f][1] \in Nat /\ at[f][2] \in Nat /\ v[f] \in Int
  <2> TAKE f \in DOMAIN at
  <2>1. at[f][1] \in 0 .. 31
    BY DEF IsLayout
  <2>2. 2 ^ at[f][1] \in Nat
    BY <2>1, PowerPositive
  <2> QED
    BY <2>1, <2>2 DEF IsLayout
<1>1. \A p : p \in word <=>
        \/ \E i \in 0 .. 4 - 1 : p = 28 + i /\ (code \div 2 ^ i) % 2 = 1
        \/ \E f \in DOMAIN at : \E i \in 0 .. at[f][1] - 1 :
             p = at[f][2] + i /\ (v[f] \div 2 ^ i) % 2 = 1
  <2>1. \A p : p \in toBit(code, 4, 28)
                 <=> \E i \in 0 .. 4 - 1 : p = 28 + i /\ (code \div 2 ^ i) % 2 = 1
    <3>1. code \in Int /\ 4 \in Nat /\ 28 \in Nat
      OBVIOUS
    <3> QED
      BY <3>1, BitMember, Zenon
  <2>2. \A f \in DOMAIN at : \A p : p \in toBit(v[f], at[f][1], at[f][2]) <=>
          \E i \in 0 .. at[f][1] - 1 : p = at[f][2] + i /\ (v[f] \div 2 ^ i) % 2 = 1
    BY <1>0, BitMember
  <2>3. \A p : p \in word <=> \/ p \in toBit(code, 4, 28)
                              \/ \E f \in DOMAIN at : p \in toBit(v[f], at[f][1], at[f][2])
    BY DEF WordOf
  <2> HIDE DEF word
  <2> TAKE p
  <2>4. (\E f \in DOMAIN at : p \in toBit(v[f], at[f][1], at[f][2])) <=>
          \E f \in DOMAIN at : \E i \in 0 .. at[f][1] - 1 :
             p = at[f][2] + i /\ (v[f] \div 2 ^ i) % 2 = 1
    BY <2>2, Zenon
  <2> QED
    BY <2>1, <2>3, <2>4, Zenon
<1> HIDE DEF word
<1>2. fromBit(word, 4, 28) = code
  <2>1. \A i \in 0 .. 4 - 1 : 28 + i \in word <=> (code \div 2 ^ i) % 2 = 1
    <3> TAKE i \in 0 .. 4 - 1
    <3>1. ASSUME NEW j \in 0 .. 4 - 1, 28 + i = 28 + j PROVE i = j
      BY <3>1
    <3>2. ASSUME NEW f \in DOMAIN at, NEW j \in 0 .. at[f][1] - 1 PROVE 28 + i # at[f][2] + j
      BY <1>0 DEF IsLayout
    <3> QED
      BY <1>1, <3>1, <3>2
  <2>2. code \in 0 .. 2 ^ 4 - 1 /\ 4 \in 0 .. 31 /\ 28 \in Nat
    <3>1. 2 ^ 4 = 16
      OBVIOUS
    <3> QED
      BY <3>1
  <2> QED
    BY <2>1, <2>2, FieldReadBack, Zenon
<1>3. ASSUME NEW f \in DOMAIN at PROVE fromBit(word, at[f][1], at[f][2]) = v[f]
  <2> DEFINE len == at[f][1]
             pos == at[f][2]
  <2>1. \A i \in 0 .. len - 1 : pos + i \in word <=> (v[f] \div 2 ^ i) % 2 = 1
    <3> TAKE i \in 0 .. len - 1
    <3>1. \A j \in 0 .. 4 - 1 : pos + i # 28 + j
      BY <1>0 DEF IsLayout
    <3>2. ASSUME NEW g \in DOMAIN at, NEW j \in 0 .. at[g][1] - 1, pos + i = at[g][2] + j
          PROVE  g = f /\ i = j
      <4>1. g = f
        BY <1>0, <3>2 DEF IsLayout
      <4> QED
        BY <1>0, <3>2, <4>1
    <3> QED
      BY <1>1, <3>1, <3>2, Zenon
  <2>2. len \in 0 .. 31 /\ pos \in Nat /\ v[f] \in 0 .. 2 ^ len - 1
    BY <1>0 DEF IsLayout
  <2> HIDE DEF len, pos
  <2>3. fromBit(word, len, pos) = v[f]
    BY <2>1, <2>2, FieldReadBack
  <2> QED
    BY <2>3 DEF len, pos
<1> QED
  BY <1>2, <1>3 DEF word

(* The types that the programs use, and what an instruction may hold.      *)
UsedTypes == {"NOP", "ADD", "MUL", "MAC", "FILL", "JUMP", "EXIT"}

Fits(cmd) ==
  /\ cmd.type \in UsedTypes
  /\ \A f \in DOMAIN EncodedFields(cmd.type) :
       IF IsOperand(f) THEN \E k \in 1 .. 8 : cmd[f] = PIMOpdType[k]
       ELSE cmd[f] \in 0 .. 2 ^ EncodedFields(cmd.type)[f][1] - 1

(* What is left of it in the CRF.                                          *)
InCrf(cmd) ==
  [f \in DOMAIN DefaultCmd |->
     IF f = "type" \/ f \in DOMAIN EncodedFields(cmd.type) THEN cmd[f] ELSE DefaultCmd[f]]

(* What each type encodes, it decodes from the same places (PIMCmd::toInt    *)
(* and PIMCmd::fromInt).                                                     *)
LEMMA Layouts ==
  ASSUME NEW type \in UsedTypes
  PROVE  /\ DecodedFields(type) = EncodedFields(type)
         /\ IsLayout(EncodedFields(type))
         /\ \A f \in DOMAIN EncodedFields(type) :
              /\ f \in DOMAIN DefaultCmd /\ f # "type"
              /\ IsOperand(f) => EncodedFields(type)[f][1] = 3
<1>1. CASE type = "NOP"
  <2>1. EncodedFields(type) = [loopCounter |-> << 11, 0 >>] /\ DecodedFields(type) = [loopCounter |-> << 11, 0 >>]
    BY <1>1 DEF EncodedFields, DecodedFields
  <2> QED
    BY <2>1 DEF IsLayout, IsOperand, DefaultCmd
<1>2. CASE type = "JUMP"
  <2>1. /\ EncodedFields(type) = [loopCounter |-> << 17, 11 >>, loopOffset |-> << 11, 0 >>]
        /\ DecodedFields(type) = [loopCounter |-> << 17, 11 >>, loopOffset |-> << 11, 0 >>]
    BY <1>2 DEF EncodedFields, DecodedFields
  <2> QED
    BY <2>1 DEF IsLayout, IsOperand, DefaultCmd
<1>3. CASE type = "FILL"
  <2>1. /\ EncodedFields(type) =
             [ dst |-> << 3, 25 >>, src0 |-> << 3, 22 >>, dstIdx |-> << 4, 8 >>,
               src0Idx |-> << 4, 4 >>, src1Idx |-> << 4, 0 >>, isRelu |-> << 1, 12 >> ]
        /\ DecodedFields(type) =
             [ dst |-> << 3, 25 >>, src0 |-> << 3, 22 >>, isRelu |-> << 1, 12 >>,
               dstIdx |-> << 4, 8 >>, src0Idx |-> << 4, 4 >>, src1Idx |-> << 4, 0 >> ]
    BY <1>3 DEF EncodedFields, DecodedFields
  <2>2. EncodedFields(type) = DecodedFields(type)
    BY <2>1
  <2>3. IsLayout(EncodedFields(type))
    BY <2>1 DEF IsLayout
  <2>4. \A f \in DOMAIN EncodedFields(type) :
              /\ f \in DOMAIN DefaultCmd /\ f # "type"
              /\ IsOperand(f) => EncodedFields(type)[f][1] = 3
    BY <2>1 DEF IsOperand, DefaultCmd
  <2> QED
    BY <2>2, <2>3, <2>4
<1>4. CASE type \in {"ADD", "MUL", "MAC"}
  <2>1. /\ EncodedFields(type) =
             [ dst |-> << 3, 25 >>, src0 |-> << 3, 22 >>, src1 |-> << 3, 19 >>,
               isAuto |-> << 1, 15 >>, dstIdx |-> << 4, 8 >>, src0Idx |-> << 4, 4 >>,
               src1Idx |-> << 4, 0 >> ]
        /\ DecodedFields(type) = EncodedFields(type)
    BY <1>4 DEF EncodedFields, DecodedFields
  <2>2. IsLayout(EncodedFields(type))
    BY <2>1 DEF IsLayout
  <2>3. \A f \in DOMAIN EncodedFields(type) :
              /\ f \in DOMAIN DefaultCmd /\ f # "type"
              /\ IsOperand(f) => EncodedFields(type)[f][1] = 3
    BY <2>1 DEF IsOperand, DefaultCmd
  <2> QED
    BY <2>1, <2>2, <2>3
<1>5. CASE type = "EXIT"
  <2>1. EncodedFields(type) = << >> /\ DecodedFields(type) = << >>
    BY <1>5 DEF EncodedFields, DecodedFields
  <2>2. DOMAIN EncodedFields(type) = {}
    BY <2>1
  <2> QED
    BY <2>1, <2>2 DEF IsLayout
<1> QED
  BY <1>1, <1>2, <1>3, <1>4, <1>5 DEF UsedTypes

(* An instruction that fits is read back from its word.                    *)
THEOREM InstructionReadBack ==
  ASSUME NEW cmd, Fits(cmd)
  PROVE  fromInt(DefaultCmd, toInt(cmd)) = InCrf(cmd)
<1> DEFINE type == cmd.type
           at == EncodedFields(cmd.type)
           v  == [f \in DOMAIN at |-> IF IsOperand(f) THEN Code(PIMOpdType, cmd[f]) ELSE cmd[f]]
           code == Code(PIMCmdType, cmd.type)
<1>1. type \in UsedTypes
  BY DEF Fits
<1>2. DOMAIN PIMCmdType = 1 .. 16 /\ DOMAIN PIMOpdType = 1 .. 8
  BY DEF PIMCmdType, PIMOpdType
<1>3. \E k \in 1 .. 16 : type = PIMCmdType[k]
  <2>1. /\ PIMCmdType[1] = "NOP" /\ PIMCmdType[2] = "ADD" /\ PIMCmdType[3] = "MUL"
        /\ PIMCmdType[4] = "MAC" /\ PIMCmdType[10] = "FILL" /\ PIMCmdType[15] = "JUMP"
        /\ PIMCmdType[16] = "EXIT"
    BY DEF PIMCmdType
  <2> QED
    BY <1>1, <2>1 DEF UsedTypes
<1>4. code \in 0 .. 15 /\ PIMCmdType[code + 1] = type
  <2>1. PICK k \in 1 .. 16 : type = PIMCmdType[k]
    BY <1>3
  <2>2. /\ Code(PIMCmdType, PIMCmdType[k]) \in 0 .. 16 - 1
        /\ PIMCmdType[Code(PIMCmdType, PIMCmdType[k]) + 1] = PIMCmdType[k]
    <3>1. 16 \in Nat
      OBVIOUS
    <3> QED
      BY <1>2, <3>1, CodeOfName, Zenon
  <2> QED
    BY <2>1, <2>2
<1>5. IsLayout(at) /\ DecodedFields(type) = at
  BY <1>1, Layouts
<1>6. \A f \in DOMAIN at : IsOperand(f) =>
        v[f] \in 0 .. 7 /\ PIMOpdType[v[f] + 1] = cmd[f] /\ at[f][1] = 3
  <2> TAKE f \in DOMAIN at
  <2> SUFFICES ASSUME IsOperand(f)
               PROVE v[f] \in 0 .. 7 /\ PIMOpdType[v[f] + 1] = cmd[f] /\ at[f][1] = 3
    OBVIOUS
  <2>1. PICK k \in 1 .. 8 : cmd[f] = PIMOpdType[k]
    BY DEF Fits
  <2>2. v[f] = Code(PIMOpdType, PIMOpdType[k])
    BY <2>1
  <2>3. at[f][1] = 3
    BY <1>1, Layouts
  <2>4. /\ Code(PIMOpdType, PIMOpdType[k]) \in 0 .. 8 - 1
        /\ PIMOpdType[Code(PIMOpdType, PIMOpdType[k]) + 1] = PIMOpdType[k]
    <3>1. 8 \in Nat
      OBVIOUS
    <3> QED
      BY <1>2, <3>1, CodeOfName, Zenon
  <2> HIDE DEF v, at
  <2> QED
    BY <2>1, <2>2, <2>3, <2>4
<1>7. \A f \in DOMAIN at : v[f] \in 0 .. 2 ^ at[f][1] - 1
  <2> TAKE f \in DOMAIN at
  <2>1. CASE IsOperand(f)
    <3>1. 2 ^ 3 = 8
      OBVIOUS
    <3>2. v[f] \in 0 .. 7 /\ at[f][1] = 3
      BY <1>6, <2>1
    <3> HIDE DEF v, at
    <3> QED
      BY <3>1, <3>2
  <2>2. CASE ~IsOperand(f)
    BY <2>2 DEF Fits
  <2> QED
    BY <2>1, <2>2
<1>8. toInt(cmd) = WordOf(code, at, v)
  <2>1. toInt(cmd) = toBit(code, 4, 28) \cup
          UNION {toBit(IF IsOperand(f) THEN Code(PIMOpdType, cmd[f]) ELSE cmd[f],
                       at[f][1], at[f][2]) : f \in DOMAIN at}
    BY DEF toInt
  <2>2. \A f \in DOMAIN at : v[f] = IF IsOperand(f) THEN Code(PIMOpdType, cmd[f]) ELSE cmd[f]
    OBVIOUS
  <2> HIDE DEF v, at, code
  <2> QED
    BY <2>1, <2>2 DEF WordOf
<1> DEFINE word == WordOf(code, at, v)
<1>9. /\ fromBit(word, 4, 28) = code
      /\ \A f \in DOMAIN at : fromBit(word, at[f][1], at[f][2]) = v[f]
  <2> HIDE DEF v, at, code
  <2> QED
    BY <1>4, <1>5, <1>7, WordReadBack
<1>10. fromInt(DefaultCmd, word) =
         [f \in DOMAIN DefaultCmd |->
            IF f = "type" THEN type
            ELSE IF f \in DOMAIN at
                   THEN IF IsOperand(f) THEN PIMOpdType[fromBit(word, at[f][1], at[f][2]) + 1]
                                        ELSE fromBit(word, at[f][1], at[f][2])
            ELSE DefaultCmd[f]]
  <2>1. PIMCmdType[fromBit(word, 4, 28) + 1] = type
    BY <1>4, <1>9
  <2> HIDE DEF word, at, v, code, type
  <2> QED
    BY <1>5, <2>1 DEF fromInt
<1>11. \A f \in DOMAIN at :
         cmd[f] = IF IsOperand(f) THEN PIMOpdType[fromBit(word, at[f][1], at[f][2]) + 1]
                                  ELSE fromBit(word, at[f][1], at[f][2])
  <2> TAKE f \in DOMAIN at
  <2>1. fromBit(word, at[f][1], at[f][2]) = v[f]
    BY <1>9
  <2>2. ~IsOperand(f) => v[f] = cmd[f]
    OBVIOUS
  <2> HIDE DEF word, at, v
  <2> QED
    BY <1>6, <2>1, <2>2
<1> HIDE DEF word, v, code
<1> QED
  BY <1>8, <1>10, <1>11 DEF InCrf, word

(* Sequences of anything.                                                  *)
IsSequence(s) == s \in Seq({s[i] : i \in DOMAIN s})

(* Any sequence is one of its own members.                                   *)
LEMMA SequenceOf ==
  ASSUME NEW S, NEW s \in Seq(S)
  PROVE  IsSequence(s)
<1>1. DOMAIN s = 1 .. Len(s) /\ Len(s) \in Nat /\ s \in [1 .. Len(s) -> S]
  OBVIOUS
<1>2. s \in [1 .. Len(s) -> {s[i] : i \in DOMAIN s}]
  BY <1>1
<1> QED
  BY <1>1, <1>2, SMTT(30) DEF IsSequence

(* Its length and its places.                                                *)
LEMMA SequenceParts ==
  ASSUME NEW s, IsSequence(s)
  PROVE  Len(s) \in Nat /\ DOMAIN s = 1 .. Len(s)
  BY DEF IsSequence

(* Two sequences one after the other.                                        *)
LEMMA Concatenation ==
  ASSUME NEW s, NEW t, IsSequence(s), IsSequence(t)
  PROVE  /\ IsSequence(s \o t)
         /\ Len(s \o t) = Len(s) + Len(t)
         /\ \A i \in 1 .. Len(s) : (s \o t)[i] = s[i]
         /\ \A i \in 1 .. Len(t) : (s \o t)[Len(s) + i] = t[i]
<1> DEFINE S == {s[i] : i \in DOMAIN s} \cup {t[i] : i \in DOMAIN t}
<1>1. s \in Seq(S) /\ t \in Seq(S)
  BY DEF IsSequence
<1> HIDE DEF S
<1>2. s \o t \in Seq(S) /\ Len(s \o t) = Len(s) + Len(t)
  BY <1>1
<1>3. Len(s) \in Nat /\ Len(t) \in Nat
  BY <1>1
<1>4. \A i \in 1 .. Len(s) + Len(t) : (s \o t)[i] = IF i <= Len(s) THEN s[i] ELSE t[i - Len(s)]
  BY <1>1
<1>5. \A i \in 1 .. Len(t) : (s \o t)[Len(s) + i] = t[i]
  <2> TAKE i \in 1 .. Len(t)
  <2>1. Len(s) + i \in 1 .. Len(s) + Len(t) /\ ~(Len(s) + i <= Len(s)) /\ (Len(s) + i) - Len(s) = i
    BY <1>3
  <2> QED
    BY <1>4, <2>1
<1>6. \A i \in 1 .. Len(s) : (s \o t)[i] = s[i]
  <2> TAKE i \in 1 .. Len(s)
  <2>1. i \in 1 .. Len(s) + Len(t) /\ i <= Len(s)
    BY <1>3
  <2> QED
    BY <1>4, <2>1
<1>7. IsSequence(s \o t)
  BY <1>2, SequenceOf
<1> QED
  BY <1>2, <1>5, <1>6, <1>7, Zenon

(* The sequence s stands in t behind its first p members.                  *)
OccursIn(t, p, s) ==
  /\ p \in Nat /\ p + Len(s) <= Len(t)
  /\ \A k \in 1 .. Len(s) : t[p + k] = s[k]

(* Where two stand one after the other, each stands.                         *)
LEMMA OccursConcatenated ==
  ASSUME NEW t, NEW p, NEW r, NEW s, IsSequence(r), IsSequence(s), IsSequence(t),
         OccursIn(t, p, r \o s)
  PROVE  OccursIn(t, p, r) /\ OccursIn(t, p + Len(r), s)
<1>1. Len(r) \in Nat /\ Len(s) \in Nat /\ Len(t) \in Nat
  BY SequenceParts
<1>2. Len(r \o s) = Len(r) + Len(s)
  BY Concatenation
<1>3. p \in Nat /\ p + (Len(r) + Len(s)) <= Len(t)
  BY <1>2 DEF OccursIn
<1>4. \A k \in 1 .. Len(r) + Len(s) : t[p + k] = (r \o s)[k]
  BY <1>2 DEF OccursIn
<1>5. \A k \in 1 .. Len(r) : t[p + k] = r[k]
  <2> TAKE k \in 1 .. Len(r)
  <2>1. k \in 1 .. Len(r) + Len(s)
    BY <1>1
  <2>2. (r \o s)[k] = r[k]
    BY Concatenation
  <2> QED
    BY <1>4, <2>1, <2>2
<1>6. \A k \in 1 .. Len(s) : t[(p + Len(r)) + k] = s[k]
  <2> TAKE k \in 1 .. Len(s)
  <2>1. Len(r) + k \in 1 .. Len(r) + Len(s) /\ (p + Len(r)) + k = p + (Len(r) + k)
    BY <1>1, <1>3
  <2>2. (r \o s)[Len(r) + k] = s[k]
    BY Concatenation
  <2> QED
    BY <1>4, <2>1, <2>2
<1> QED
  BY <1>1, <1>3, <1>5, <1>6 DEF OccursIn

-----------------------------------------------------------------------------
(* Loops of calls.                                                         *)

IsJoin(n, f, g) == g = [i \in 0 .. n |-> IF i = 0 THEN << >> ELSE g[i - 1] \o f[i - 1]]

(* The steps of a loop.                                                      *)
LEMMA JoinParts ==
  ASSUME NEW n \in Nat, NEW f, NEW g, IsJoin(n, f, g)
  PROVE  /\ DOMAIN g = 0 .. n /\ g[0] = << >>
         /\ \A i \in 0 .. n - 1 : g[i + 1] = g[i] \o f[i]
<1>1. DOMAIN g = 0 .. n
  BY DEF IsJoin
<1>2. \A i \in 0 .. n : g[i] = IF i = 0 THEN << >> ELSE g[i - 1] \o f[i - 1]
  BY DEF IsJoin
<1>3. g[0] = << >>
  <2>1. 0 \in 0 .. n
    OBVIOUS
  <2> QED
    BY <1>2, <2>1
<1>4. \A i \in 0 .. n - 1 : g[i + 1] = g[i] \o f[i]
  <2> TAKE i \in 0 .. n - 1
  <2>1. i + 1 \in 0 .. n /\ i + 1 # 0 /\ (i + 1) - 1 = i
    OBVIOUS
  <2> QED
    BY <1>2, <2>1
<1> QED
  BY <1>1, <1>3, <1>4

(* A loop of any number of passes has such a function, ...                   *)
LEMMA JoinExists ==
  ASSUME NEW f, NEW N \in Nat
  PROVE  \E g : IsJoin(N, f, g)
<1> DEFINE P == {n \in Nat : \E g : IsJoin(n, f, g)}
<1>1. 0 \in P
  <2>1. IsJoin(0, f, [i \in 0 .. 0 |-> << >>])
    BY DEF IsJoin
  <2> QED
    BY <2>1
<1>2. ASSUME NEW n \in 0 .. N - 1, n \in P PROVE n + 1 \in P
  <2>1. PICK g : IsJoin(n, f, g)
    BY <1>2
  <2>2. /\ DOMAIN g = 0 .. n /\ g[0] = << >>
        /\ \A i \in 0 .. n - 1 : g[i + 1] = g[i] \o f[i]
    <3>1. n \in Nat
      OBVIOUS
    <3> QED
      BY <2>1, <3>1, JoinParts
  <2> DEFINE h == [i \in 0 .. n + 1 |-> IF i = n + 1 THEN g[n] \o f[n] ELSE g[i]]
             k == [i \in 0 .. n + 1 |-> IF i = 0 THEN << >> ELSE h[i - 1] \o f[i - 1]]
  <2>3. ASSUME NEW i \in 0 .. n + 1 PROVE h[i] = k[i]
    <3>1. CASE i = 0
      <4>1. i # n + 1
        BY <3>1
      <4> QED
        BY <2>2, <3>1, <4>1
    <3>2. CASE i = n + 1
      <4>1. i - 1 = n /\ i # 0 /\ n \in 0 .. n + 1 /\ n # n + 1
        BY <3>2
      <4>2. h[n] = g[n] /\ h[i] = g[n] \o f[n]
        BY <3>2, <4>1
      <4>3. k[i] = h[n] \o f[n]
        BY <4>1
      <4> QED
        BY <4>2, <4>3
    <3>3. CASE i \in 1 .. n
      <4>1. i - 1 \in 0 .. n - 1 /\ (i - 1) + 1 = i /\ i - 1 \in 0 .. n + 1 /\ i - 1 # n + 1 /\ i # 0
        BY <3>3
      <4>2. g[i] = g[i - 1] \o f[i - 1]
        BY <2>2, <4>1
      <4>3. h[i - 1] = g[i - 1] /\ h[i] = g[i]
        BY <3>3, <4>1
      <4>4. k[i] = h[i - 1] \o f[i - 1]
        BY <4>1
      <4> QED
        BY <4>2, <4>3, <4>4
    <3>4. i = 0 \/ i = n + 1 \/ i \in 1 .. n
      OBVIOUS
    <3> QED
      BY <3>1, <3>2, <3>3, <3>4, Zenon
  <2>4. h = k
    <3>1. h = [i \in 0 .. n + 1 |-> h[i]] /\ k = [i \in 0 .. n + 1 |-> k[i]]
      OBVIOUS
    <3> HIDE DEF h, k
    <3> QED
      BY <2>3, <3>1
  <2>5. IsJoin(n + 1, f, h)
    <3> HIDE DEF h
    <3> QED
      BY <2>4 DEF IsJoin
  <2> QED
    BY <2>5
<1>3. 0 .. N \subseteq P
  <2> HIDE DEF P
  <2> QED
    BY <1>1, <1>2, InductionUpTo
<1> QED
  BY <1>3

(* ... and only one.                                                         *)
LEMMA JoinUnique ==
  ASSUME NEW f, NEW m \in Nat, NEW n \in 0 .. m, NEW g, NEW h, IsJoin(n, f, g), IsJoin(m, f, h)
  PROVE  g[n] = h[n]
<1> DEFINE P == {i \in 0 .. n : g[i] = h[i]}
<1>0. n \in Nat
  OBVIOUS
<1>1. /\ g[0] = << >> /\ \A i \in 0 .. n - 1 : g[i + 1] = g[i] \o f[i]
      /\ h[0] = << >> /\ \A i \in 0 .. m - 1 : h[i + 1] = h[i] \o f[i]
  BY <1>0, JoinParts, ZenonT(30)
<1>2. 0 \in P
  BY <1>0, <1>1
<1>3. ASSUME NEW i \in 0 .. n - 1, i \in P PROVE i + 1 \in P
  <2>1. i \in 0 .. m - 1 /\ i + 1 \in 0 .. n
    OBVIOUS
  <2> QED
    BY <1>1, <1>3, <2>1
<1>4. 0 .. n \subseteq P
  <2> HIDE DEF P
  <2> QED
    BY <1>0, <1>2, <1>3, InductionUpTo
<1> QED
  BY <1>4

(* A loop by its last pass.                                                  *)
LEMMA JoinedSteps ==
  ASSUME NEW f
  PROVE  /\ Joined(0, f) = << >>
         /\ \A n \in Nat : Joined(n + 1, f) = Joined(n, f) \o f[n]
<1>1. ASSUME NEW n \in Nat
      PROVE  \E g : IsJoin(n, f, g) /\ Joined(n, f) = g[n]
  <2> DEFINE g == CHOOSE g : IsJoin(n, f, g)
  <2>1. IsJoin(n, f, g)
    <3>1. \E k : IsJoin(n, f, k)
      BY JoinExists
    <3> QED
      BY <3>1
  <2>2. Joined(n, f) = g[n]
    BY DEF Joined, IsJoin
  <2> QED
    BY <2>1, <2>2
<1>2. Joined(0, f) = << >>
  <2>1. PICK g : IsJoin(0, f, g) /\ Joined(0, f) = g[0]
    BY <1>1
  <2> QED
    BY <2>1, JoinParts
<1>3. ASSUME NEW n \in Nat PROVE Joined(n + 1, f) = Joined(n, f) \o f[n]
  <2>1. PICK g : IsJoin(n, f, g) /\ Joined(n, f) = g[n]
    BY <1>1
  <2>2. PICK h : IsJoin(n + 1, f, h) /\ Joined(n + 1, f) = h[n + 1]
    BY <1>1
  <2>3. g[n] = h[n]
    <3>1. n + 1 \in Nat /\ n \in 0 .. n + 1
      OBVIOUS
    <3> QED
      BY <2>1, <2>2, <3>1, JoinUnique
  <2>4. h[n + 1] = h[n] \o f[n]
    <3>1. n + 1 \in Nat /\ n \in 0 .. (n + 1) - 1
      OBVIOUS
    <3> QED
      BY <2>2, <3>1, JoinParts
  <2> QED
    BY <2>1, <2>2, <2>3, <2>4
<1> QED
  BY <1>2, <1>3

(* A loop depends on its passes only.                                      *)
LEMMA JoinedAgree ==
  ASSUME NEW N \in Nat, NEW f, NEW g, \A i \in 0 .. N - 1 : f[i] = g[i]
  PROVE  Joined(N, f) = Joined(N, g)
<1> DEFINE P == {n \in 0 .. N : Joined(n, f) = Joined(n, g)}
<1>1. 0 \in P
  BY JoinedSteps
<1>2. ASSUME NEW n \in 0 .. N - 1, n \in P PROVE n + 1 \in P
  <2>1. n \in Nat /\ n + 1 \in 0 .. N
    OBVIOUS
  <2>2. Joined(n + 1, f) = Joined(n, f) \o f[n] /\ Joined(n + 1, g) = Joined(n, g) \o g[n]
    BY <2>1, JoinedSteps
  <2>3. Joined(n, f) = Joined(n, g)
    BY <1>2
  <2>4. Joined(n + 1, f) = Joined(n + 1, g)
    BY <2>2, <2>3
  <2> QED
    BY <2>1, <2>4
<1>3. 0 .. N \subseteq P
  <2> HIDE DEF P
  <2> QED
    BY <1>1, <1>2, InductionUpTo
<1> QED
  BY <1>3

(* A loop adds what its passes add.                                        *)
LEMMA JoinedType ==
  ASSUME NEW S, NEW N \in Nat, NEW f, \A i \in 0 .. N - 1 : f[i] \in Seq(S)
  PROVE  \A n \in 0 .. N : Joined(n, f) \in Seq(S)
<1> DEFINE P == {n \in 0 .. N : Joined(n, f) \in Seq(S)}
<1>1. 0 \in P
  <2>1. << >> \in Seq(S) /\ 0 \in 0 .. N
    OBVIOUS
  <2> QED
    BY <2>1, JoinedSteps
<1>2. ASSUME NEW n \in 0 .. N - 1, n \in P PROVE n + 1 \in P
  <2>1. n \in Nat /\ n + 1 \in 0 .. N /\ f[n] \in Seq(S) /\ Joined(n, f) \in Seq(S)
    BY <1>2
  <2>2. Joined(n + 1, f) = Joined(n, f) \o f[n]
    BY <2>1, JoinedSteps
  <2>3. Joined(n, f) \o f[n] \in Seq(S)
    BY <2>1
  <2> QED
    BY <2>1, <2>2, <2>3
<1>3. 0 .. N \subseteq P
  <2> HIDE DEF P
  <2> QED
    BY <1>1, <1>2, InductionUpTo
<1> QED
  BY <1>3

(* Passes of one length, one for each rank.                                *)
PassList(N, f, L, r) ==
  /\ Len(Joined(N, f)) = N * L
  /\ \A k \in 1 .. L : Joined(N, f)[r * L + k] = f[r][k]
  /\ \A j \in 1 .. N * L : \/ \E k \in 1 .. L : j = r * L + k
                           \/ \E m \in 0 .. N - 1 :
                                m # r /\ \E k \in 1 .. L : Joined(N, f)[j] = f[m][k]

(* Where the passes of a loop stand, if all have one length.                 *)
LEMMA Passes ==
  ASSUME NEW N \in Nat, NEW f, NEW L \in Nat,
         \A i \in 0 .. N - 1 : IsSequence(f[i]) /\ Len(f[i]) = L,
         NEW r \in 0 .. N - 1
  PROVE  PassList(N, f, L, r)
<1> DEFINE s(n) == Joined(n, f)
           Listed(n) == \A m \in 0 .. n - 1 : \A k \in 1 .. L : s(n)[m * L + k] = f[m][k]
           Others(n) == \A j \in 1 .. n * L :
                          \/ \E k \in 1 .. L : j = r * L + k
                          \/ \E m \in 0 .. n - 1 : m # r /\ \E k \in 1 .. L : s(n)[j] = f[m][k]
           P == {n \in 0 .. N : IsSequence(s(n)) /\ Len(s(n)) = n * L /\ Listed(n) /\ Others(n)}
<1>1. 0 \in P
  <2>1. s(0) = << >> /\ IsSequence(<< >>) /\ Len(<< >>) = 0 /\ 0 * L = 0
    BY JoinedSteps DEF IsSequence
  <2>2. Listed(0) /\ Others(0)
    BY <2>1
  <2> QED
    BY <2>1, <2>2
<1>2. ASSUME NEW n \in 0 .. N - 1, n \in P PROVE n + 1 \in P
  <2>1. n \in Nat /\ n + 1 \in 0 .. N /\ (n + 1) * L = n * L + L /\ n * L \in Nat /\ (n + 1) - 1 = n
    OBVIOUS
  <2>2. s(n + 1) = s(n) \o f[n]
    BY <2>1, JoinedSteps
  <2>3. IsSequence(s(n)) /\ Len(s(n)) = n * L /\ Listed(n) /\ Others(n) /\ IsSequence(f[n]) /\ Len(f[n]) = L
    BY <1>2
  <2>4. /\ IsSequence(s(n + 1)) /\ Len(s(n + 1)) = n * L + L
        /\ \A i \in 1 .. n * L : s(n + 1)[i] = s(n)[i]
        /\ \A i \in 1 .. L : s(n + 1)[n * L + i] = f[n][i]
    <3>1. /\ IsSequence(s(n) \o f[n])
          /\ Len(s(n) \o f[n]) = Len(s(n)) + Len(f[n])
          /\ \A i \in 1 .. Len(s(n)) : (s(n) \o f[n])[i] = s(n)[i]
          /\ \A i \in 1 .. Len(f[n]) : (s(n) \o f[n])[Len(s(n)) + i] = f[n][i]
      <4> HIDE DEF s, Listed, Others
      <4>1. PICK u : u = s(n)
        OBVIOUS
      <4>2. PICK v : v = f[n]
        OBVIOUS
      <4>3. IsSequence(u) /\ IsSequence(v)
        BY <2>3, <4>1, <4>2
      <4>4. /\ IsSequence(u \o v)
            /\ Len(u \o v) = Len(u) + Len(v)
            /\ \A i \in 1 .. Len(u) : (u \o v)[i] = u[i]
            /\ \A i \in 1 .. Len(v) : (u \o v)[Len(u) + i] = v[i]
        BY <4>3, Concatenation
      <4> QED
        BY <4>1, <4>2, <4>4, Zenon
    <3> HIDE DEF s, Listed, Others
    <3> QED
      BY <2>2, <2>3, <3>1
  <2> HIDE DEF s
  <2>5. Listed(n + 1)
    <3> SUFFICES ASSUME NEW m \in 0 .. n, NEW k \in 1 .. L PROVE s(n + 1)[m * L + k] = f[m][k]
      BY <2>1
    <3>1. CASE m = n
      BY <2>4, <3>1
    <3>2. CASE m # n
      <4>1. m \in 0 .. n - 1 /\ n - (m + 1) \in Nat
        BY <3>2
      <4>2. n * L = (m * L + L) + (n - (m + 1)) * L /\ m * L \in Nat /\ (n - (m + 1)) * L \in Nat
        BY <4>1
      <4>3. m * L + k \in 1 .. n * L
        BY <4>2
      <4> QED
        BY <2>3, <2>4, <4>1, <4>3
    <3> QED
      BY <3>1, <3>2
  <2>6. Others(n + 1)
    <3> SUFFICES ASSUME NEW j \in 1 .. n * L + L
                 PROVE  \/ \E k \in 1 .. L : j = r * L + k
                        \/ \E m \in 0 .. n : m # r /\ \E k \in 1 .. L : s(n + 1)[j] = f[m][k]
      BY <2>1
    <3>1. CASE j \in 1 .. n * L
      <4>1. s(n + 1)[j] = s(n)[j]
        BY <2>4, <3>1
      <4>2. \A m \in 0 .. n - 1 : m \in 0 .. n
        OBVIOUS
      <4>3. \/ \E k \in 1 .. L : j = r * L + k
            \/ \E m \in 0 .. n - 1 : m # r /\ \E k \in 1 .. L : s(n)[j] = f[m][k]
        BY <2>3, <3>1
      <4> QED
        BY <4>1, <4>2, <4>3, Zenon
    <3>2. CASE j \notin 1 .. n * L
      <4> DEFINE k == j - n * L
      <4>1. k \in 1 .. L /\ j = n * L + k /\ n \in 0 .. n
        BY <2>1, <3>2
      <4>2. s(n + 1)[j] = f[n][k]
        BY <2>4, <4>1
      <4> HIDE DEF k
      <4>3. CASE n = r
        BY <4>1, <4>3
      <4>4. CASE n # r
        BY <4>1, <4>2, <4>4
      <4> QED
        BY <4>3, <4>4
    <3> QED
      BY <3>1, <3>2
  <2> QED
    BY <2>1, <2>4, <2>5, <2>6
<1>3. 0 .. N \subseteq P
  <2> HIDE DEF P
  <2> QED
    BY <1>1, <1>2, InductionUpTo
<1>4. N \in P
  <2> HIDE DEF P
  <2> QED
    BY <1>3
<1> QED
  BY <1>4 DEF PassList

Driven == 0 .. NUM_PIM_RANKS - 1

-----------------------------------------------------------------------------
(* A rank on its own.                                                      *)

RankState(r) ==
  [mode |-> mode[r], crf |-> crf[r], control |-> control[r], pim |-> pim[r]]

StepsIn(s, c) ==
  /\ s.mode = "HAB_PIM"
  /\ s.control.op /\ ~s.pim.exit
  /\ (s.control.toggle \div 4) % 2 = 1 \/ ~IsReservedRA(c.row)
  /\ IF c.bank % 2 = 0 THEN s.control.toggle % 2 = 0 ELSE (s.control.toggle \div 2) % 2 = 0

TurnsIn(s) == PastJump(s.crf, PastJump(s.crf, PastJump(s.crf, s.pim)))

ExecutedIn(s) == s.crf[TurnsIn(s).pc]

WritesRegisterIn(s, c) ==
  s.mode # "SB" /\ ~StepsIn(s, c) /\ c.type = "WRITE" /\ c.row = PIM_REG_RA

Controlled(s, word) ==
  [s EXCEPT !.mode = ModeAfter(word), !.control = word, !.pim = Restarted(s.pim, word)]

Reprogrammed(code, burst, words) ==
  [i \in DOMAIN code |-> IF i \div 8 = burst THEN fromInt(DefaultCmd, words[(i % 8) + 1])
                                              ELSE code[i]]

After(s, c) ==
  IF StepsIn(s, c) THEN [s EXCEPT !.pim = Turned(s.crf, TurnsIn(s))]
  ELSE IF WritesRegisterIn(s, c) /\ c.col = 0 THEN Controlled(s, WriteData(c.trans.id))
  ELSE IF WritesRegisterIn(s, c) /\ c.col \in 4 .. 7
         THEN [s EXCEPT !.crf = Reprogrammed(s.crf, c.col - 4, WriteData(c.trans.id))]
  ELSE s

IntendedIn(s, c, e) ==
  /\ s.mode \in e.modes
  /\ IF StepsIn(s, c)
       THEN /\ ExecutedIn(s).type = e.step
            /\ "EVEN_BANK" \in {ExecutedIn(s).src0, ExecutedIn(s).src1} => c.bank % 2 = 0
            /\ "ODD_BANK" \in {ExecutedIn(s).src0, ExecutedIn(s).src1} => c.bank % 2 = 1
       ELSE e.step = "NONE"

UsedUpIn(s, c) ==
  WritesRegisterIn(s, c) /\ c.col = 0 /\ s.mode = "HAB_PIM" => ExecutedIn(s).type = "EXIT"

GoodState(s) ==
  /\ s = [mode |-> s.mode, crf |-> s.crf, control |-> s.control, pim |-> s.pim]
  /\ s.mode \in {"SB", "HAB", "HAB_PIM"}
  /\ DOMAIN s.crf = 0 .. CRF_WORDS - 1
  /\ s.control.op \in BOOLEAN /\ s.control.toggle \in 0 .. 7
  /\ s.pim.pc \in 0 .. CRF_WORDS - 1
  /\ s.pim.exit \in BOOLEAN
  /\ s.mode = "HAB_PIM" <=> s.control.op

Resting(s) == s.mode = "HAB" /\ GoodState(s)

RankShapes ==
  /\ mode = [r \in Ranks |-> mode[r]] /\ crf = [r \in Ranks |-> crf[r]]
  /\ control = [r \in Ranks |-> control[r]] /\ pim = [r \in Ranks |-> pim[r]]

(* The sequencer, seen from a rank on its own: whether an access executes an *)
(* instruction, and which.                                                   *)
LEMMA StaticRank ==
  ASSUME NEW c
  PROVE  /\ Turns(c.rank) = TurnsIn(RankState(c.rank))
         /\ Executed(c.rank) = ExecutedIn(RankState(c.rank))
         /\ IsPIMStep(c) <=> StepsIn(RankState(c.rank), c)
         /\ IsRegisterWrite(c) <=> WritesRegisterIn(RankState(c.rank), c)
<1>1. /\ RankState(c.rank).mode = mode[c.rank] /\ RankState(c.rank).crf = crf[c.rank]
      /\ RankState(c.rank).control = control[c.rank] /\ RankState(c.rank).pim = pim[c.rank]
  BY DEF RankState
<1>2. Turns(c.rank) = TurnsIn(RankState(c.rank))
  BY <1>1, Zenon DEF Turns, TurnsIn
<1>3. Executed(c.rank) = ExecutedIn(RankState(c.rank))
  BY <1>1, <1>2, Zenon DEF Executed, ExecutedIn
<1>4. IsPIMStep(c) <=> StepsIn(RankState(c.rank), c)
  BY <1>1 DEF IsPIMStep, Toggles, StepsIn
<1>5. IsRegisterWrite(c) <=> WritesRegisterIn(RankState(c.rank), c)
  BY <1>1, <1>4, Zenon DEF IsRegisterWrite, WritesRegisterIn
<1> QED
  BY <1>2, <1>3, <1>4, <1>5

(* The same for what a call means to achieve.                                *)
LEMMA StaticIntended ==
  ASSUME NEW c, NEW e
  PROVE  AsIntended(c, e) <=> IntendedIn(RankState(c.rank), c, e)
<1>1. RankState(c.rank).mode = mode[c.rank]
  BY DEF RankState
<1> QED
  BY <1>1, StaticRank, Zenon DEF AsIntended, IntendedIn

(* An access changes its rank, and only that.                              *)
LEMMA AccessOfRank ==
  ASSUME NEW c, c.rank \in Ranks, RankShapes, AccessColumn(c)
  PROVE  /\ RankState(c.rank)' = After(RankState(c.rank), c)
         /\ \A r \in Ranks : r # c.rank => RankState(r)' = RankState(r)
         /\ RankShapes'
<1> DEFINE s == RankState(c.rank)
           w == WriteData(c.trans.id)
<1>1. /\ s.mode = mode[c.rank] /\ s.crf = crf[c.rank]
      /\ s.control = control[c.rank] /\ s.pim = pim[c.rank]
      /\ s = [mode |-> mode[c.rank], crf |-> crf[c.rank],
              control |-> control[c.rank], pim |-> pim[c.rank]]
  BY DEF RankState
<1>2. /\ IsPIMStep(c) <=> StepsIn(s, c)
      /\ IsRegisterWrite(c) <=> WritesRegisterIn(s, c)
      /\ Turns(c.rank) = TurnsIn(s)
  BY StaticRank
<1>3. WritesRegisterIn(s, c) => ~StepsIn(s, c)
  BY DEF WritesRegisterIn
<1>4. CASE ExecutePIM(c)
  <2>1. pim' = [pim EXCEPT ![c.rank] = Turned(s.crf, TurnsIn(s))] /\ UNCHANGED << mode, crf, control >>
    BY <1>1, <1>2, <1>4, Zenon DEF ExecutePIM, DoPIM
  <2>2. After(s, c) = [s EXCEPT !.pim = Turned(s.crf, TurnsIn(s))]
    BY <1>2, <1>4 DEF After, ExecutePIM
  <2> HIDE DEF s
  <2>3. pim'[c.rank] = Turned(s.crf, TurnsIn(s)) /\ \A r \in Ranks : r # c.rank => pim'[r] = pim[r]
    BY <2>1 DEF RankShapes
  <2>4. RankShapes'
    BY <2>1 DEF RankShapes
  <2>5. RankState(c.rank)' = After(s, c)
    BY <1>1, <2>1, <2>2, <2>3 DEF RankState
  <2>6. \A r \in Ranks : r # c.rank => RankState(r)' = RankState(r)
    BY <2>1, <2>3 DEF RankState
  <2> QED
    BY <2>4, <2>5, <2>6 DEF s
<1>5. CASE ControlPIM(c)
  <2>1. /\ control' = [control EXCEPT ![c.rank] = w]
        /\ mode' = [mode EXCEPT ![c.rank] = ModeAfter(w)]
        /\ pim' = [pim EXCEPT ![c.rank] = Restarted(@, w)]
        /\ UNCHANGED crf
    BY <1>5 DEF ControlPIM
  <2>2. After(s, c) = Controlled(s, w)
    BY <1>2, <1>3, <1>5 DEF After, ControlPIM
  <2> HIDE DEF s, w
  <2>3. /\ control'[c.rank] = w /\ \A r \in Ranks : r # c.rank => control'[r] = control[r]
        /\ mode'[c.rank] = ModeAfter(w) /\ \A r \in Ranks : r # c.rank => mode'[r] = mode[r]
        /\ pim'[c.rank] = Restarted(pim[c.rank], w)
        /\ \A r \in Ranks : r # c.rank => pim'[r] = pim[r]
    BY <2>1 DEF RankShapes
  <2>4. RankShapes'
    BY <2>1 DEF RankShapes
  <2>5. RankState(c.rank)' = After(s, c)
    BY <1>1, <2>1, <2>2, <2>3 DEF RankState, Controlled
  <2>6. \A r \in Ranks : r # c.rank => RankState(r)' = RankState(r)
    BY <2>1, <2>3 DEF RankState
  <2> QED
    BY <2>4, <2>5, <2>6 DEF s
<1>6. CASE WriteCrf(c)
  <2>1. /\ crf' = [crf EXCEPT ![c.rank] = Reprogrammed(crf[c.rank], c.col - 4, w)]
        /\ UNCHANGED << mode, control, pim >>
    BY <1>6 DEF WriteCrf, Reprogrammed
  <2>2. After(s, c) = [s EXCEPT !.crf = Reprogrammed(s.crf, c.col - 4, w)]
    BY <1>2, <1>3, <1>6 DEF After, WriteCrf
  <2> HIDE DEF s, w
  <2>3. /\ crf'[c.rank] = Reprogrammed(crf[c.rank], c.col - 4, w)
        /\ \A r \in Ranks : r # c.rank => crf'[r] = crf[r]
    BY <2>1 DEF RankShapes
  <2>4. RankShapes'
    BY <2>1 DEF RankShapes
  <2>5. RankState(c.rank)' = After(s, c)
    BY <1>1, <2>1, <2>2, <2>3 DEF RankState
  <2>6. \A r \in Ranks : r # c.rank => RankState(r)' = RankState(r)
    BY <2>1, <2>3 DEF RankState
  <2> QED
    BY <2>4, <2>5, <2>6 DEF s
<1>7. CASE MoveData(c)
  <2>1. After(s, c) = s
    BY <1>2, <1>7 DEF After, MoveData
  <2>2. UNCHANGED << mode, crf, control, pim >>
    BY <1>7 DEF MoveData, pimVars
  <2> QED
    BY <2>1, <2>2 DEF RankState, RankShapes
<1> QED
  BY <1>4, <1>5, <1>6, <1>7 DEF AccessColumn

-----------------------------------------------------------------------------
(* The calls between two barriers, in any order.                           *)

CommandWith(b, e) ==
  [ type |-> IF e.type = "DATA_READ" THEN "READ" ELSE "WRITE",
    rank |-> e.addr.rank, bank |-> e.addr.bank, row |-> e.addr.row,
    col |-> e.addr.col, trans |-> [id |-> Contents(b, e.data)] ]

(* What a rank is like while some of the calls T are outstanding.          *)
Sound(F, T, t, b, full) ==
  \A left \in SUBSET T :
    /\ GoodState(F[left])
    /\ \A i \in left :
         /\ IntendedIn(F[left], CommandWith(b, t[i]), t[i])
         /\ full => UsedUpIn(F[left], CommandWith(b, t[i]))
         /\ F[left \ {i}] = After(F[left], CommandWith(b, t[i]))

Mine(r, t, p, q) == {i \in p + 1 .. q - 1 : InAllBankMode(t[i]) /\ t[i].addr.rank = r}

Stage(r, t, p, q, b, full, d, e) ==
  \E F : /\ Sound(F, Mine(r, t, p, q), t, b, full)
         /\ F[Mine(r, t, p, q)] = d /\ F[{}] = e

NextStop(t, p, q) == t[q] = Barrier /\ \A k \in p + 1 .. q - 1 : t[k] # Barrier

(* The n calls of t behind the p-th take a rank from the state d to e.     *)
Staged(r, t, p, n, b, full, a) ==
  \A i \in p .. p + n - 1 : \A j \in i + 1 .. p + n :
    (i = p \/ t[i] = Barrier) /\ NextStop(t, i, j) =>
      Stage(r, t, i, j, b, full, a[i], a[j])

Runs(r, t, p, n, b, full, d, e) ==
  /\ n > 0 => t[p + n] = Barrier
  /\ \E a : a[p] = d /\ a[p + n] = e /\ Staged(r, t, p, n, b, full, a)

(* No calls lead nowhere.                                                    *)
LEMMA RunsNothing ==
  ASSUME NEW r, NEW t, NEW p \in Nat, NEW b, NEW full, NEW d
  PROVE  Runs(r, t, p, 0, b, full, d, d)
<1> DEFINE a == [i \in {p} |-> d]
<1>1. a[p] = d /\ a[p + 0] = d
  OBVIOUS
<1>2. Staged(r, t, p, 0, b, full, a)
  BY DEF Staged
<1> QED
  BY <1>1, <1>2 DEF Runs

(* The calls up to the next barrier, and those behind it.                    *)
LEMMA RunsOn ==
  ASSUME NEW r, NEW t, NEW p \in Nat, NEW n \in Nat, NEW b, NEW full, NEW d, NEW e,
         Runs(r, t, p, n, b, full, d, e),
         NEW q \in p + 1 .. p + n, NextStop(t, p, q)
  PROVE  \E m : Stage(r, t, p, q, b, full, d, m) /\ Runs(r, t, q, p + n - q, b, full, m, e)
<1>1. PICK a : a[p] = d /\ a[p + n] = e /\ Staged(r, t, p, n, b, full, a)
  BY DEF Runs
<1>2. p \in p .. p + n - 1 /\ q \in Nat /\ p + n - q \in Nat /\ q + (p + n - q) = p + n
  OBVIOUS
<1>3. Stage(r, t, p, q, b, full, d, a[q])
  BY <1>1, <1>2 DEF Staged
<1>4. Staged(r, t, q, p + n - q, b, full, a)
  <2> SUFFICES ASSUME NEW i \in q .. p + n - 1, NEW j \in i + 1 .. p + n,
                      i = q \/ t[i] = Barrier, NextStop(t, i, j)
               PROVE  Stage(r, t, i, j, b, full, a[i], a[j])
    BY <1>2 DEF Staged
  <2>1. i \in p .. p + n - 1 /\ t[i] = Barrier
    BY DEF NextStop
  <2> QED
    BY <1>1, <2>1 DEF Staged
<1>5. t[p + n] = Barrier
  BY DEF Runs
<1>6. Runs(r, t, q, p + n - q, b, full, a[q], e)
  BY <1>1, <1>2, <1>4, <1>5 DEF Runs
<1> QED
  BY <1>3, <1>6

(* Calls one after the other.                                                *)
LEMMA RunsFurther ==
  ASSUME NEW r, NEW t, NEW p \in Nat, NEW n \in Nat, NEW m \in Nat, NEW b, NEW full,
         NEW d, NEW e, NEW f,
         Runs(r, t, p, n, b, full, d, e), Runs(r, t, p + n, m, b, full, e, f)
  PROVE  Runs(r, t, p, n + m, b, full, d, f)
<1>1. PICK a : a[p] = d /\ a[p + n] = e /\ Staged(r, t, p, n, b, full, a)
  BY DEF Runs
<1>2. PICK c : c[p + n] = e /\ c[(p + n) + m] = f /\ Staged(r, t, p + n, m, b, full, c)
  BY DEF Runs
<1> DEFINE k == [i \in p .. p + (n + m) |-> IF i <= p + n THEN a[i] ELSE c[i]]
<1>3. /\ \A i \in p .. p + n : k[i] = a[i]
      /\ \A i \in p + n .. p + (n + m) : k[i] = c[i]
      /\ (p + n) + m = p + (n + m)
  BY <1>1, <1>2
<1> HIDE DEF k
<1>4. k[p] = d /\ k[p + (n + m)] = f
  BY <1>1, <1>2, <1>3
<1>5. Staged(r, t, p, n + m, b, full, k)
  <2> SUFFICES ASSUME NEW i \in p .. p + (n + m) - 1, NEW j \in i + 1 .. p + (n + m),
                      i = p \/ t[i] = Barrier, NextStop(t, i, j)
               PROVE  Stage(r, t, i, j, b, full, k[i], k[j])
    BY DEF Staged
  <2>1. CASE j <= p + n
    <3>1. i \in p .. p + n - 1 /\ j \in i + 1 .. p + n /\ k[i] = a[i] /\ k[j] = a[j]
      BY <1>3, <2>1
    <3> QED
      BY <1>1, <3>1 DEF Staged
  <2>2. CASE i >= p + n
    <3>1. /\ i \in p + n .. (p + n) + m - 1 /\ j \in i + 1 .. (p + n) + m
          /\ k[i] = c[i] /\ k[j] = c[j]
      BY <1>3, <2>2
    <3>2. i = p + n \/ t[i] = Barrier
      BY <2>2
    <3> QED
      BY <1>2, <3>1, <3>2 DEF Staged
  <2>3. CASE i < p + n /\ p + n < j
    <3>1. n > 0 /\ p + n \in i + 1 .. j - 1
      BY <2>3
    <3> QED
      BY <3>1 DEF Runs, NextStop
  <2> QED
    BY <2>1, <2>2, <2>3
<1>6. n + m > 0 => t[p + (n + m)] = Barrier
  <2>1. CASE m > 0
    BY <1>3, <2>1 DEF Runs
  <2>2. CASE m = 0
    BY <2>2 DEF Runs
  <2> QED
    BY <2>1, <2>2
<1> QED
  BY <1>4, <1>5, <1>6 DEF Runs

Entry(x) == x # Barrier /\ InAllBankMode(x) => x.addr.rank \in Driven

IsEntries(s) == IsSequence(s) /\ \A i \in 1 .. Len(s) : Entry(s[i])

(* Wherever the calls s stand, they take the rank from d to e.             *)
Leads(r, s, b, full, d, e) ==
  /\ IsEntries(s)
  /\ \A t : \A p \in Nat :
       IsSequence(t) /\ OccursIn(t, p, s) => Runs(r, t, p, Len(s), b, full, d, e)

StoppedWord == [op |-> FALSE, toggle |-> 0, zero |-> {}]

FullyUsed(job) == job.kernel = "GEMVTREE" => job.tiles = 2

KernelsFit ==
  \A job \in Jobs : \A b : \A d : \A r \in Driven :
    b.stopped = StoppedWord /\ Resting(d) =>
      \E e : Resting(e) /\ Leads(r, Kernel(job), BuffersAfter(b, job), FullyUsed(job), d, e)

(* Lists of calls one after the other.                                       *)
LEMMA EntriesConcatenated ==
  ASSUME NEW s, NEW t, IsEntries(s), IsEntries(t)
  PROVE  IsEntries(s \o t)
<1>1. IsSequence(s) /\ IsSequence(t) /\ Len(s) \in Nat /\ Len(t) \in Nat
  BY SequenceParts DEF IsEntries
<1>2. /\ IsSequence(s \o t)
      /\ Len(s \o t) = Len(s) + Len(t)
      /\ \A i \in 1 .. Len(s) : (s \o t)[i] = s[i]
      /\ \A i \in 1 .. Len(t) : (s \o t)[Len(s) + i] = t[i]
  BY <1>1, Concatenation
<1>3. ASSUME NEW i \in 1 .. Len(s) + Len(t) PROVE Entry((s \o t)[i])
  <2>1. CASE i <= Len(s)
    BY <1>1, <1>2, <2>1 DEF IsEntries
  <2>2. CASE i > Len(s)
    <3>1. i - Len(s) \in 1 .. Len(t) /\ Len(s) + (i - Len(s)) = i
      BY <1>1, <2>2
    <3> QED
      BY <1>2, <3>1 DEF IsEntries
  <2> QED
    BY <1>1, <2>1, <2>2
<1> QED
  BY <1>2, <1>3 DEF IsEntries

(* A list of no calls.                                                       *)
LEMMA EmptySequence ==
  /\ IsSequence(<< >>) /\ Len(<< >>) = 0 /\ DOMAIN << >> = {}
  /\ IsEntries(<< >>)
<1>1. IsSequence(<< >>) /\ Len(<< >>) = 0 /\ DOMAIN << >> = {}
  BY DEF IsSequence
<1> QED
  BY <1>1 DEF IsEntries

(* The calls of a session grow by those of a kernel.                         *)
LEMMA SessionGrows ==
  ASSUME session \in Sessions
  PROVE  /\ SessionCalls[session][0] = << >>
         /\ Len(session) \in Nat
         /\ \A n \in 0 .. Len(session) - 1 :
              /\ session[n + 1] \in Jobs
              /\ SessionCalls[session][n + 1] = SessionCalls[session][n] \o Kernel(session[n + 1])
<1> DEFINE f(n) == [i \in 0 .. n - 1 |-> CallsOf[session[i + 1]]]
<1>1. session \in Seq(Jobs) /\ Len(session) \in Nat
  BY SessionsAssumption
<1>2. \A n \in 0 .. Len(session) : SessionCalls[session][n] = Joined(n, f(n))
  BY DEF SessionCalls, ForEach
<1> HIDE DEF f
<1>3. SessionCalls[session][0] = << >>
  <2>1. 0 \in 0 .. Len(session)
    BY <1>1
  <2>2. SessionCalls[session][0] = Joined(0, f(0))
    BY <1>2, <2>1, Zenon
  <2>3. Joined(0, f(0)) = << >>
    BY JoinedSteps, Zenon
  <2> QED
    BY <2>2, <2>3, Zenon
<1>4. ASSUME NEW n \in 0 .. Len(session) - 1
      PROVE  /\ session[n + 1] \in Jobs
             /\ SessionCalls[session][n + 1] = SessionCalls[session][n] \o Kernel(session[n + 1])
  <2>1. /\ n \in Nat /\ n + 1 \in 0 .. Len(session) /\ n \in 0 .. Len(session)
        /\ n + 1 \in 1 .. Len(session) /\ session[n + 1] \in Jobs
    BY <1>1
  <2>2. Joined(n + 1, f(n + 1)) = Joined(n, f(n + 1)) \o f(n + 1)[n]
    BY <2>1, JoinedSteps
  <2>3. f(n + 1)[n] = CallsOf[session[n + 1]]
    BY <2>1 DEF f
  <2>4. CallsOf[session[n + 1]] = Kernel(session[n + 1])
    BY <2>1 DEF CallsOf
  <2>5. \A i \in 0 .. n - 1 : f(n + 1)[i] = f(n)[i]
    BY <2>1 DEF f
  <2>6. Joined(n, f(n + 1)) = Joined(n, f(n))
    BY <2>1, <2>5, JoinedAgree
  <2> QED
    BY <1>2, <2>1, <2>2, <2>3, <2>4, <2>6
<1> QED
  BY <1>1, <1>3, <1>4

-----------------------------------------------------------------------------
(* The invariant.                                                          *)

Full == added > 0 /\ session[added].kernel = "GEMVTREE" => session[added].tiles = 2

Outstanding(r) == {i \in DOMAIN todo : todo[i].addr.rank = r}

OnCourse(r) ==
  \E F : \E e :
    /\ Sound(F, Outstanding(r), todo, buffers, Full)
    /\ F[Outstanding(r)] = RankState(r)
    /\ Resting(e)
    /\ Runs(r, Calls, barrier, Len(Calls) - barrier, buffers, Full, F[{}], e)

ControlInv ==
  /\ RankShapes
  /\ session \in Sessions /\ added \in 0 .. Len(session)
  /\ IsEntries(Calls)
  /\ barrier \in 0 .. Len(Calls)
  /\ DOMAIN todo \subseteq 1 .. barrier - 1
  /\ \A i \in DOMAIN todo : todo[i].addr.rank \in Driven
  /\ buffers.stopped = StoppedWord
  /\ \A r \in Ranks : GoodState(RankState(r))
  /\ \A r \in Driven : OnCourse(r)

(* The ranks that a kernel drives are among those of the channel.            *)
LEMMA DrivenRanks == Driven \subseteq Ranks
  BY KernelAssumption, GeometryAssumption DEF Driven, Ranks

(* The invariant holds at the start, ...                                     *)
LEMMA ControlInit == ProgramInit => ControlInv
<1> SUFFICES ASSUME ProgramInit PROVE ControlInv
  OBVIOUS
<1>1. session \in Sessions /\ added = 0 /\ barrier = 0 /\ todo = << >>
  BY DEF ProgramInit
<1>2. Calls = << >> /\ Len(session) \in Nat
  BY <1>1, SessionGrows DEF Calls
<1>3. RankShapes
  BY DEF ProgramInit, RankShapes
<1>4. \A r \in Ranks : Resting(RankState(r))
  <2> TAKE r \in Ranks
  <2>1. RankState(r) = [ mode |-> "HAB", crf |-> [i \in 0 .. CRF_WORDS - 1 |-> DefaultCmd],
                         control |-> [op |-> FALSE, toggle |-> 0, zero |-> {}],
                         pim |-> ProgramStart ]
    BY DEF ProgramInit, RankState
  <2> DEFINE s == RankState(r)
  <2>2. /\ s.mode = "HAB" /\ s.crf = [i \in 0 .. CRF_WORDS - 1 |-> DefaultCmd]
        /\ s.control = [op |-> FALSE, toggle |-> 0, zero |-> {}] /\ s.pim = ProgramStart
        /\ s = [mode |-> s.mode, crf |-> s.crf, control |-> s.control, pim |-> s.pim]
    BY <2>1
  <2> HIDE DEF s
  <2>3. s.control.op = FALSE /\ s.control.toggle = 0 /\ s.pim.pc = 0 /\ s.pim.exit = FALSE
    BY <2>2 DEF ProgramStart
  <2>4. DOMAIN s.crf = 0 .. CRF_WORDS - 1 /\ 0 \in 0 .. CRF_WORDS - 1
    BY <2>2 DEF CRF_WORDS
  <2>5. /\ s.control.op \in BOOLEAN /\ s.pim.exit \in BOOLEAN
        /\ ~s.control.op /\ s.mode # "HAB_PIM" /\ s.mode \in {"SB", "HAB", "HAB_PIM"}
    BY <2>2, <2>3
  <2>6. s.mode = "HAB_PIM" <=> s.control.op
    BY <2>5
  <2>7. s.control.toggle \in 0 .. 7 /\ s.pim.pc \in 0 .. CRF_WORDS - 1
    BY <2>3, <2>4
  <2>8. GoodState(s)
    BY <2>2, <2>4, <2>5, <2>6, <2>7, Zenon DEF GoodState
  <2>9. Resting(s)
    BY <2>2, <2>8 DEF Resting
  <2> QED
    BY <2>9 DEF s
<1>5. buffers.stopped = StoppedWord
  BY DEF ProgramInit, FreshBuffers, StoppedWord
<1>6. DOMAIN todo = {} /\ IsEntries(Calls) /\ Len(Calls) = 0
  BY <1>1, <1>2, EmptySequence
<1>7. ASSUME NEW r \in Driven PROVE OnCourse(r)
  <2> DEFINE s == RankState(r)
             F == [left \in {{}} |-> s]
  <2>1. Outstanding(r) = {}
    BY <1>6 DEF Outstanding
  <2>2. Resting(s)
    BY <1>4, DrivenRanks
  <2>3. F[{}] = s
    OBVIOUS
  <2>4. Sound(F, {}, todo, buffers, Full)
    <3> HIDE DEF F, s
    <3> QED
      BY <2>2, <2>3 DEF Sound, Resting
  <2>5. Runs(r, Calls, 0, 0, buffers, Full, s, s)
    BY RunsNothing
  <2>6. Len(Calls) - barrier = 0
    BY <1>1, <1>6
  <2> HIDE DEF F, s
  <2> QED
    BY <1>1, <2>1, <2>2, <2>3, <2>4, <2>5, <2>6 DEF OnCourse, s
<1> QED
  BY <1>1, <1>2, <1>3, <1>4, <1>5, <1>6, <1>7, DrivenRanks DEF ControlInv, Resting

(* ... a kernel keeps it when it is added: its calls lead on from where      *)
(* those before it end, ...                                                  *)
LEMMA ControlAdds ==
  ASSUME KernelsFit, ControlInv, AddKernel
  PROVE  ControlInv'
<1> DEFINE job == session[added + 1]
           k == Kernel(job)
<1>1. /\ added < Len(session) /\ todo = << >> /\ barrier = Len(Calls)
      /\ buffers' = BuffersAfter(buffers, job) /\ added' = added + 1
      /\ UNCHANGED << mode, crf, control, pim, session, barrier, todo >>
  BY DEF AddKernel, ClientMayAdd, NothingPending, pimVars
<1>2. /\ RankShapes /\ session \in Sessions /\ added \in 0 .. Len(session)
      /\ IsEntries(Calls) /\ barrier \in 0 .. Len(Calls)
      /\ DOMAIN todo = {} /\ buffers.stopped = StoppedWord
      /\ \A r \in Ranks : GoodState(RankState(r))
      /\ \A r \in Driven : OnCourse(r)
  BY <1>1, EmptySequence DEF ControlInv
<1>3. Len(session) \in Nat /\ added \in 0 .. Len(session) - 1
  BY <1>1, <1>2, SessionGrows
<1>4. job \in Jobs /\ Calls' = Calls \o k
  <2>1. SessionCalls[session][added + 1] = SessionCalls[session][added] \o Kernel(session[added + 1])
    BY <1>2, <1>3, SessionGrows
  <2>2. session[added + 1] \in Jobs
    BY <1>2, <1>3, SessionGrows
  <2>3. Calls' = SessionCalls'[session'][added']
    BY DEF Calls
  <2>4. SessionCalls' = SessionCalls
    OBVIOUS
  <2> QED
    BY <1>1, <2>1, <2>2, <2>3, <2>4 DEF Calls
<1>5. (RankShapes)' /\ \A r : RankState(r)' = RankState(r)
  BY <1>1, <1>2 DEF RankShapes, RankState
<1>6. buffers'.stopped = StoppedWord
  <2>1. buffers'.stopped = IF IsGemv(job) THEN buffers.stopped ELSE [op |-> FALSE, toggle |-> 0, zero |-> {}]
    BY <1>1, Zenon DEF BuffersAfter
  <2> QED
    BY <1>2, <2>1 DEF StoppedWord
<1>7. Full' <=> FullyUsed(job)
  <2>1. added' > 0 /\ session'[added'] = job
    BY <1>1, <1>3
  <2>2. Full' = (added' > 0 /\ session'[added'].kernel = "GEMVTREE" => session'[added'].tiles = 2)
    BY DEF Full
  <2> HIDE DEF job
  <2> QED
    BY <2>1, <2>2 DEF FullyUsed
<1> HIDE DEF job, k
<1>8. \A r \in Driven : \E e : Resting(e) /\ Leads(r, k, buffers', FullyUsed(job), RankState(r), e)
  <2> TAKE r \in Driven
  <2>1. Resting(RankState(r))
    <3>1. PICK F, e : /\ F[Outstanding(r)] = RankState(r) /\ Resting(e)
                      /\ Runs(r, Calls, barrier, Len(Calls) - barrier, buffers, Full, F[{}], e)
      BY <1>2 DEF OnCourse
    <3>2. Len(Calls) \in Nat /\ Len(Calls) - barrier = 0 /\ barrier + 0 = barrier
      BY <1>1, <1>2, SequenceParts DEF IsEntries
    <3>3. F[{}] = e
      BY <3>1, <3>2 DEF Runs
    <3>4. Outstanding(r) = {}
      BY <1>2 DEF Outstanding
    <3> QED
      BY <3>1, <3>3, <3>4
  <2> QED
    BY <1>1, <1>2, <1>4, <2>1 DEF KernelsFit, k
<1>9. \A r \in Driven : OnCourse(r)'
  <2> TAKE r \in Driven
  <2>1. PICK e : Resting(e) /\ Leads(r, k, buffers', FullyUsed(job), RankState(r), e)
    BY <1>8
  <2>2. IsSequence(k) /\ IsSequence(Calls) /\ Len(k) \in Nat /\ Len(Calls) \in Nat
    BY <1>2, <2>1, SequenceParts DEF Leads, IsEntries
  <2>3. /\ IsSequence(Calls \o k) /\ Len(Calls \o k) = Len(Calls) + Len(k)
        /\ \A i \in 1 .. Len(k) : (Calls \o k)[Len(Calls) + i] = k[i]
    BY <2>2, Concatenation
  <2>4. OccursIn(Calls \o k, Len(Calls), k)
    BY <2>2, <2>3 DEF OccursIn
  <2>5. Runs(r, Calls \o k, Len(Calls), Len(k), buffers', FullyUsed(job), RankState(r), e)
    BY <2>1, <2>2, <2>3, <2>4 DEF Leads
  <2>6. barrier' = Len(Calls) /\ Len(Calls') - barrier' = Len(k)
    BY <1>1, <1>4, <2>2, <2>3
  <2> DEFINE F == [left \in {{}} |-> RankState(r)]
  <2>7. F[{}] = RankState(r)
    OBVIOUS
  <2>8. Outstanding(r)' = {}
    BY <1>1, <1>2 DEF Outstanding
  <2>9. GoodState(RankState(r))
    BY <1>2, DrivenRanks
  <2> HIDE DEF F
  <2>10. Sound(F, {}, todo', buffers', Full')
    BY <2>7, <2>9 DEF Sound
  <2>11. Runs(r, Calls', barrier', Len(Calls') - barrier', buffers', Full', F[{}], e)
    <3>1. Full' = FullyUsed(job)
      BY <1>7 DEF Full, FullyUsed
    <3> QED
      BY <1>4, <2>5, <2>6, <2>7, <3>1
  <2>12. F[Outstanding(r)'] = RankState(r)'
    BY <1>5, <2>7, <2>8
  <2>13. Sound(F, Outstanding(r)', todo', buffers', Full')
    BY <2>8, <2>10
  <2> QED
    BY <2>1, <2>11, <2>12, <2>13, Zenon DEF OnCourse
<1>10. IsEntries(Calls') /\ barrier' \in 0 .. Len(Calls')
  <2>1. 0 \in Driven
    BY KernelAssumption DEF Driven
  <2>2. IsEntries(k)
    BY <1>8, <2>1 DEF Leads
  <2>3. Len(k) \in Nat /\ Len(Calls) \in Nat /\ IsSequence(k) /\ IsSequence(Calls)
    BY <1>2, <2>2, SequenceParts DEF IsEntries
  <2>4. Len(Calls \o k) = Len(Calls) + Len(k)
    BY <2>3, Concatenation
  <2>5. IsEntries(Calls \o k)
    BY <1>2, <2>2, EntriesConcatenated
  <2> QED
    BY <1>1, <1>2, <1>4, <2>3, <2>4, <2>5
<1> QED
  BY <1>1, <1>2, <1>3, <1>5, <1>6, <1>9, <1>10 DEF ControlInv

(* Some of the outstanding calls, under the same places.                     *)
LEMMA SoundSubset ==
  ASSUME NEW F, NEW T, NEW U, NEW t, NEW u, NEW b, NEW full,
         Sound(F, T, t, b, full), U \subseteq T, \A i \in U : u[i] = t[i]
  PROVE  Sound(F, U, u, b, full)
<1> SUFFICES ASSUME NEW left \in SUBSET U
             PROVE  /\ GoodState(F[left])
                    /\ \A i \in left :
                         /\ IntendedIn(F[left], CommandWith(b, u[i]), u[i])
                         /\ full => UsedUpIn(F[left], CommandWith(b, u[i]))
                         /\ F[left \ {i}] = After(F[left], CommandWith(b, u[i]))
  BY Zenon DEF Sound
<1>1. left \in SUBSET T
  OBVIOUS
<1>2. /\ GoodState(F[left])
      /\ \A i \in left :
           /\ IntendedIn(F[left], CommandWith(b, t[i]), t[i])
           /\ full => UsedUpIn(F[left], CommandWith(b, t[i]))
           /\ F[left \ {i}] = After(F[left], CommandWith(b, t[i]))
  BY <1>1, Zenon DEF Sound
<1>3. \A i \in left : u[i] = t[i]
  OBVIOUS
<1> QED
  BY <1>2, <1>3, Zenon

(* ... an access keeps it, whichever of the outstanding ones it is, ...      *)
LEMMA ControlArrives ==
  ASSUME ControlInv, NEW i \in DOMAIN todo, Arrive(i)
  PROVE  ControlInv'
<1>0. PICK c : c = CommandOf(todo[i])
  OBVIOUS
<1>1. /\ AccessColumn(c)
      /\ todo' = [k \in DOMAIN todo \ {i} |-> todo[k]]
      /\ UNCHANGED << session, added, buffers, barrier >>
  BY <1>0 DEF Arrive
<1>2. /\ RankShapes /\ session \in Sessions /\ added \in 0 .. Len(session)
      /\ IsEntries(Calls) /\ barrier \in 0 .. Len(Calls)
      /\ DOMAIN todo \subseteq 1 .. barrier - 1 /\ buffers.stopped = StoppedWord
      /\ \A k \in DOMAIN todo : todo[k].addr.rank \in Driven
      /\ \A r \in Ranks : GoodState(RankState(r))
      /\ \A r \in Driven : OnCourse(r)
  BY DEF ControlInv
<1>3. c.rank = todo[i].addr.rank /\ c = CommandWith(buffers, todo[i])
  BY <1>0 DEF CommandOf, CommandWith
<1>4. c.rank \in Driven /\ c.rank \in Ranks
  BY <1>2, <1>3, DrivenRanks
<1>5. /\ RankState(c.rank)' = After(RankState(c.rank), c)
      /\ \A r \in Ranks : r # c.rank => RankState(r)' = RankState(r)
      /\ RankShapes'
  BY <1>1, <1>2, <1>4, AccessOfRank, Zenon
<1>6. Calls' = Calls /\ Full' = Full
  <2>1. SessionCalls' = SessionCalls
    OBVIOUS
  <2> QED
    BY <1>1, <2>1 DEF Calls, Full
<1>7. DOMAIN todo' = DOMAIN todo \ {i} /\ \A k \in DOMAIN todo' : todo'[k] = todo[k]
  BY <1>1
<1>8. \A r : Outstanding(r)' = Outstanding(r) \ {i}
  BY <1>7 DEF Outstanding
<1>9. ASSUME NEW r \in Driven
      PROVE  OnCourse(r)' /\ GoodState(RankState(r)')
  <2>1. PICK F, e : /\ Sound(F, Outstanding(r), todo, buffers, Full)
                    /\ F[Outstanding(r)] = RankState(r)
                    /\ Resting(e)
                    /\ Runs(r, Calls, barrier, Len(Calls) - barrier, buffers, Full, F[{}], e)
    BY <1>2 DEF OnCourse
  <2>2. Sound(F, Outstanding(r)', todo', buffers', Full')
    <3>1. Outstanding(r)' \subseteq Outstanding(r)
      BY <1>8
    <3>2. \A k \in Outstanding(r)' : todo'[k] = todo[k]
      BY <1>7 DEF Outstanding
    <3>3. Sound(F, Outstanding(r)', todo', buffers, Full)
      BY <2>1, <3>1, <3>2, SoundSubset, Zenon
    <3> QED
      BY <1>1, <1>6, <3>3
  <2>3. F[Outstanding(r)'] = RankState(r)'
    <3>1. CASE r = c.rank
      <4>1. i \in Outstanding(r)
        BY <1>3, <3>1 DEF Outstanding
      <4>2. Outstanding(r) \in SUBSET Outstanding(r)
        OBVIOUS
      <4>3. F[Outstanding(r) \ {i}] = After(F[Outstanding(r)], CommandWith(buffers, todo[i]))
        BY <2>1, <4>1, <4>2, Zenon DEF Sound
      <4>4. Outstanding(r)' = Outstanding(r) \ {i}
        BY <1>8
      <4> QED
        BY <1>3, <1>5, <2>1, <3>1, <4>3, <4>4, Zenon
    <3>2. CASE r # c.rank
      <4>1. i \notin Outstanding(r)
        BY <1>3, <3>2 DEF Outstanding
      <4>2. Outstanding(r)' = Outstanding(r)
        BY <1>8, <4>1
      <4> QED
        BY <1>5, <2>1, <3>2, <4>2, DrivenRanks
    <3> QED
      BY <3>1, <3>2
  <2>4. GoodState(RankState(r)')
    <3>1. GoodState(F[Outstanding(r)'])
      BY <2>2, Zenon DEF Sound
    <3> QED
      BY <2>3, <3>1
  <2>5. Runs(r, Calls', barrier', Len(Calls') - barrier', buffers', Full', F[{}], e)
    BY <1>1, <1>6, <2>1
  <2>6. OnCourse(r)'
    BY <2>1, <2>2, <2>3, <2>5, Zenon DEF OnCourse
  <2> QED
    BY <2>4, <2>6
<1>10. \A r \in Ranks : GoodState(RankState(r)')
  <2> TAKE r \in Ranks
  <2>1. CASE r = c.rank
    BY <1>4, <1>9, <2>1
  <2>2. CASE r # c.rank
    BY <1>2, <1>5, <2>2
  <2> QED
    BY <2>1, <2>2
<1>11. (\A r \in Ranks : GoodState(RankState(r)))'
  BY <1>10 DEF GoodState, RankState
<1> QED
  BY <1>1, <1>2, <1>5, <1>6, <1>7, <1>9, <1>11 DEF ControlInv

(* ... a barrier keeps it, ...                                               *)
LEMMA ControlPasses ==
  ASSUME ControlInv, PassBarrier
  PROVE  ControlInv'
<1> DEFINE q == NextBarrier(barrier)
<1>1. /\ todo = << >> /\ barrier < Len(Calls) /\ barrier' = q
      /\ todo' = [i \in {i \in barrier + 1 .. q - 1 : InAllBankMode(Calls[i])} |-> Calls[i]]
      /\ UNCHANGED << mode, crf, control, pim, session, added, buffers >>
  BY DEF PassBarrier, pimVars
<1>2. /\ RankShapes /\ session \in Sessions /\ added \in 0 .. Len(session)
      /\ IsEntries(Calls) /\ barrier \in 0 .. Len(Calls)
      /\ DOMAIN todo = {} /\ buffers.stopped = StoppedWord
      /\ \A r \in Ranks : GoodState(RankState(r))
      /\ \A r \in Driven : OnCourse(r)
  BY <1>1, EmptySequence DEF ControlInv
<1>3. PICK n : n = Len(Calls)
  OBVIOUS
<1>a. /\ n \in Nat /\ n - barrier \in Nat \ {0} /\ barrier \in Nat
      /\ barrier + (n - barrier) = n
  <2>1. n \in Nat
    BY <1>2, <1>3, SequenceParts DEF IsEntries
  <2> QED
    BY <1>1, <1>2, <1>3, <2>1
<1>4. Calls' = Calls /\ Full' = Full /\ RankShapes' /\ \A r : RankState(r)' = RankState(r)
  <2>1. SessionCalls' = SessionCalls
    OBVIOUS
  <2> QED
    BY <1>1, <1>2, <2>1 DEF Calls, Full, RankShapes, RankState
<1>5. \A r \in Driven : \E F : \E e :
        /\ F[{}] = RankState(r) /\ Resting(e)
        /\ Runs(r, Calls, barrier, Len(Calls) - barrier, buffers, Full, F[{}], e)
  <2> TAKE r \in Driven
  <2>1. Outstanding(r) = {}
    BY <1>2 DEF Outstanding
  <2> QED
    BY <1>2, <2>1 DEF OnCourse
<1>6. Calls[n] = Barrier
  <2>1. 0 \in Driven
    BY KernelAssumption DEF Driven
  <2>2. PICK d, e : Runs(0, Calls, barrier, n - barrier, buffers, Full, d, e)
    BY <1>3, <1>5, <2>1
  <2>3. Calls[barrier + (n - barrier)] = Barrier
    <3>1. n - barrier > 0
      BY <1>a
    <3> QED
      BY <2>2, <3>1, Zenon DEF Runs
  <2> QED
    BY <1>a, <2>3
<1>7. q \in barrier + 1 .. n /\ NextStop(Calls, barrier, q)
  <2> DEFINE S == {i \in barrier + 1 .. n : Calls[i] = Barrier}
  <2>1. S \in SUBSET Nat /\ S # {}
    <3>1. n \in barrier + 1 .. n /\ barrier + 1 .. n \subseteq Nat
      BY <1>a
    <3> QED
      BY <1>6, <3>1
  <2>2. PICK m \in S : \A k \in S : m <= k
    <3> HIDE DEF S
    <3> QED
      BY <2>1, LeastMember
  <2>3. m \in barrier + 1 .. n /\ Calls[m] = Barrier
    OBVIOUS
  <2>4. \A k \in barrier + 1 .. m - 1 : Calls[k] # Barrier
    <3> SUFFICES ASSUME NEW k \in barrier + 1 .. m - 1, Calls[k] = Barrier PROVE FALSE
      OBVIOUS
    <3>1. k \in barrier + 1 .. n /\ k < m
      BY <1>a, <2>3
    <3>2. k \in S
      BY <3>1
    <3> HIDE DEF S
    <3>3. m <= k
      BY <2>2, <3>2
    <3> QED
      BY <1>a, <2>3, <3>1, <3>3
  <2>5. \E i \in barrier + 1 .. Len(Calls) :
          Calls[i] = Barrier /\ \A k \in barrier + 1 .. i - 1 : Calls[k] # Barrier
    BY <1>3, <2>3, <2>4
  <2>6. /\ NextBarrier(barrier) \in barrier + 1 .. Len(Calls)
        /\ Calls[NextBarrier(barrier)] = Barrier
        /\ \A k \in barrier + 1 .. NextBarrier(barrier) - 1 : Calls[k] # Barrier
    BY <2>5, Zenon DEF NextBarrier
  <2> QED
    BY <1>3, <2>6 DEF NextStop
<1> HIDE DEF q
<1>8. /\ DOMAIN todo' = {i \in barrier + 1 .. q - 1 : InAllBankMode(Calls[i])}
      /\ \A i \in DOMAIN todo' : todo'[i] = Calls[i]
  BY <1>1
<1>9. \A i \in DOMAIN todo' : i \in 1 .. q - 1 /\ todo'[i].addr.rank \in Driven
  <2> TAKE i \in DOMAIN todo'
  <2>1. i \in barrier + 1 .. q - 1 /\ InAllBankMode(Calls[i]) /\ todo'[i] = Calls[i]
    BY <1>8
  <2>2. i \in 1 .. n /\ i \in 1 .. q - 1
    BY <1>a, <1>7, <2>1
  <2>3. Calls[i] # Barrier
    BY <1>7, <2>1, Zenon DEF NextStop
  <2>4. Entry(Calls[i])
    BY <1>2, <1>3, <2>2, Zenon DEF IsEntries
  <2> QED
    BY <2>1, <2>2, <2>3, <2>4, Zenon DEF Entry
<1>10. ASSUME NEW r \in Driven PROVE OnCourse(r)'
  <2>1. PICK G, e : /\ G[{}] = RankState(r) /\ Resting(e)
                    /\ Runs(r, Calls, barrier, Len(Calls) - barrier, buffers, Full, G[{}], e)
    BY <1>5
  <2>2. \E m : /\ Stage(r, Calls, barrier, q, buffers, Full, G[{}], m)
               /\ Runs(r, Calls, q, barrier + (n - barrier) - q, buffers, Full, m, e)
    <3>1. q \in barrier + 1 .. barrier + (n - barrier) /\ n - barrier \in Nat
      BY <1>a, <1>7
    <3> QED
      BY <1>a, <1>3, <1>7, <2>1, <3>1, RunsOn, Zenon
  <2>3. PICK m : /\ Stage(r, Calls, barrier, q, buffers, Full, G[{}], m)
                 /\ Runs(r, Calls, q, Len(Calls) - q, buffers, Full, m, e)
    <3>1. barrier + (n - barrier) - q = n - q
      BY <1>a, <1>7
    <3> QED
      BY <1>3, <2>2, <3>1, Zenon
  <2>4. PICK F : /\ Sound(F, Mine(r, Calls, barrier, q), Calls, buffers, Full)
                 /\ F[Mine(r, Calls, barrier, q)] = G[{}] /\ F[{}] = m
    BY <2>3 DEF Stage
  <2>5. Outstanding(r)' = Mine(r, Calls, barrier, q)
    BY <1>8 DEF Outstanding, Mine
  <2>6. Sound(F, Outstanding(r)', todo', buffers', Full')
    <3>1. \A i \in Outstanding(r)' : todo'[i] = Calls[i]
      BY <1>8 DEF Outstanding
    <3>2. Sound(F, Outstanding(r)', todo', buffers, Full)
      BY <2>4, <2>5, <3>1, SoundSubset
    <3> QED
      BY <1>1, <1>4, <3>2
  <2>7. F[Outstanding(r)'] = RankState(r)'
    BY <1>4, <2>1, <2>4, <2>5
  <2>8. Runs(r, Calls', barrier', Len(Calls') - barrier', buffers', Full', F[{}], e)
    BY <1>1, <1>4, <2>3, <2>4
  <2> QED
    BY <2>1, <2>6, <2>7, <2>8, Zenon DEF OnCourse
<1>11. barrier' \in 0 .. Len(Calls)
  <2>1. q \in 0 .. n
    BY <1>a, <1>7
  <2> QED
    BY <1>1, <1>3, <2>1
<1>12. (\A r \in Ranks : GoodState(RankState(r)))'
  BY <1>2, <1>4
<1> QED
  BY <1>1, <1>2, <1>4, <1>8, <1>9, <1>10, <1>11, <1>12 DEF ControlInv

(* ... and so does every step.                                               *)
LEMMA ControlNext ==
  ASSUME KernelsFit, ControlInv, [ProgramNext]_programVars
  PROVE  ControlInv'
<1>1. CASE AddKernel
  BY <1>1, ControlAdds
<1>2. CASE \E i \in DOMAIN todo : Arrive(i)
  BY <1>2, ControlArrives
<1>3. CASE PassBarrier
  BY <1>3, ControlPasses
<1>4. CASE UNCHANGED programVars
  <2>1. UNCHANGED << mode, crf, control, pim, session, added, buffers, barrier, todo >>
    BY <1>4 DEF programVars, pimVars
  <2>2. SessionCalls' = SessionCalls
    OBVIOUS
  <2>3. Calls' = Calls /\ Full' = Full /\ RankShapes' = RankShapes
    BY <2>1, <2>2 DEF Calls, Full, RankShapes
  <2>4. \A r : Outstanding(r)' = Outstanding(r) /\ RankState(r)' = RankState(r)
    BY <2>1 DEF Outstanding, RankState
  <2>5. \A r \in Driven : OnCourse(r)'
    BY <2>1, <2>3, <2>4 DEF ControlInv, OnCourse
  <2>6. (\A r \in Ranks : GoodState(RankState(r)))'
    BY <2>4 DEF ControlInv
  <2> QED
    BY <2>1, <2>3, <2>5, <2>6 DEF ControlInv
<1> QED
  BY <1>1, <1>2, <1>3, <1>4 DEF ProgramNext

(* What the invariant says of the accesses that may come next.               *)
LEMMA ControlImplies ==
  ASSUME ControlInv
  PROVE  ProgramTypeOK /\ StepAsIntended /\ ProgramUsedUp
<1>1. ASSUME NEW i \in DOMAIN todo
      PROVE  /\ AsIntended(CommandOf(todo[i]), todo[i])
             /\ Full => (Stops(CommandOf(todo[i])) => Executed(CommandOf(todo[i]).rank).type = "EXIT")
  <2> DEFINE c == CommandOf(todo[i])
  <2>1. c.rank = todo[i].addr.rank /\ c = CommandWith(buffers, todo[i])
    BY DEF CommandOf, CommandWith
  <2> HIDE DEF c
  <2>2. c.rank \in Driven /\ OnCourse(c.rank)
    BY <2>1 DEF ControlInv
  <2>3. PICK F : /\ Sound(F, Outstanding(c.rank), todo, buffers, Full)
                 /\ F[Outstanding(c.rank)] = RankState(c.rank)
    BY <2>2 DEF OnCourse
  <2>4. i \in Outstanding(c.rank) /\ Outstanding(c.rank) \in SUBSET Outstanding(c.rank)
    BY <2>1 DEF Outstanding
  <2>5. /\ IntendedIn(RankState(c.rank), c, todo[i])
        /\ Full => UsedUpIn(RankState(c.rank), c)
    BY <2>1, <2>3, <2>4, Zenon DEF Sound
  <2>6. AsIntended(c, todo[i])
    BY <2>5, StaticIntended
  <2>7. Full => (Stops(c) => Executed(c.rank).type = "EXIT")
    <3>1. RankState(c.rank).mode = mode[c.rank]
      BY DEF RankState
    <3> QED
      BY <2>5, <3>1, StaticRank DEF Stops, UsedUpIn
  <2> QED
    BY <2>6, <2>7 DEF c
<1>2. StepAsIntended
  BY <1>1 DEF StepAsIntended
<1>3. ProgramUsedUp
  BY <1>1, Zenon DEF ProgramUsedUp, Full
<1>4. PIMTypeOK
  <2>1. \A r \in Ranks : /\ mode[r] \in {"SB", "HAB", "HAB_PIM"}
                         /\ DOMAIN crf[r] = 0 .. CRF_WORDS - 1
                         /\ control[r].op \in BOOLEAN /\ control[r].toggle \in 0 .. 7
                         /\ pim[r].pc \in 0 .. CRF_WORDS - 1
                         /\ pim[r].exit \in BOOLEAN
                         /\ mode[r] = "HAB_PIM" <=> control[r].op
    <3> TAKE r \in Ranks
    <3>1. GoodState(RankState(r))
      BY DEF ControlInv
    <3>2. /\ RankState(r).mode = mode[r] /\ RankState(r).crf = crf[r]
          /\ RankState(r).control = control[r] /\ RankState(r).pim = pim[r]
      BY DEF RankState
    <3> QED
      BY <3>1, <3>2, Zenon DEF GoodState
  <2>2. mode = [r \in Ranks |-> mode[r]]
    BY DEF ControlInv, RankShapes
  <2>3. mode \in [Ranks -> {"SB", "HAB", "HAB_PIM"}]
    BY <2>1, <2>2
  <2> QED
    BY <2>1, <2>3, Zenon DEF PIMTypeOK
<1>5. ProgramTypeOK
  BY <1>4 DEF ProgramTypeOK, ControlInv
<1> QED
  BY <1>2, <1>3, <1>5

(* Lists of calls lead on from each other.                                   *)
LEMMA LeadsFurther ==
  ASSUME NEW r, NEW s, NEW u, NEW b, NEW full, NEW d, NEW e, NEW f,
         Leads(r, s, b, full, d, e), Leads(r, u, b, full, e, f)
  PROVE  Leads(r, s \o u, b, full, d, f)
<1>1. IsEntries(s) /\ IsEntries(u) /\ IsSequence(s) /\ IsSequence(u)
  BY DEF Leads, IsEntries
<1>2. IsEntries(s \o u)
  BY <1>1, EntriesConcatenated
<1>3. Len(s) \in Nat /\ Len(u) \in Nat /\ Len(s \o u) = Len(s) + Len(u)
  BY <1>1, SequenceParts, Concatenation
<1>4. ASSUME NEW t, NEW p \in Nat, IsSequence(t), OccursIn(t, p, s \o u)
      PROVE  Runs(r, t, p, Len(s \o u), b, full, d, f)
  <2>1. OccursIn(t, p, s) /\ OccursIn(t, p + Len(s), u)
    BY <1>1, <1>4, OccursConcatenated
  <2>2. Runs(r, t, p, Len(s), b, full, d, e)
    BY <1>4, <2>1 DEF Leads
  <2>3. Runs(r, t, p + Len(s), Len(u), b, full, e, f)
    <3>1. p + Len(s) \in Nat
      BY <1>3
    <3> QED
      BY <1>4, <2>1, <3>1 DEF Leads
  <2>4. Runs(r, t, p, Len(s) + Len(u), b, full, d, f)
    BY <1>3, <2>2, <2>3, RunsFurther
  <2> QED
    BY <1>3, <2>4
<1> QED
  BY <1>2, <1>4 DEF Leads

(* No calls, no change.                                                      *)
LEMMA LeadsNothing ==
  ASSUME NEW r, NEW b, NEW full, NEW d
  PROVE  Leads(r, << >>, b, full, d, d)
  BY EmptySequence, RunsNothing DEF Leads

(* The passes of a loop lead on from each other.                             *)
LEMMA LeadsJoined ==
  ASSUME NEW r, NEW b, NEW full, NEW N \in Nat, NEW f, NEW D,
         \A i \in 0 .. N - 1 : Leads(r, f[i], b, full, D[i], D[i + 1])
  PROVE  Leads(r, Joined(N, f), b, full, D[0], D[N])
<1> DEFINE P == {n \in 0 .. N : Leads(r, Joined(n, f), b, full, D[0], D[n])}
<1>1. 0 \in P
  <2>1. Joined(0, f) = << >>
    BY JoinedSteps
  <2>2. Leads(r, Joined(0, f), b, full, D[0], D[0])
    BY <2>1, LeadsNothing
  <2> QED
    BY <2>2
<1>2. ASSUME NEW n \in 0 .. N - 1, n \in P PROVE n + 1 \in P
  <2>1. n \in Nat /\ n + 1 \in 0 .. N
    OBVIOUS
  <2>2. Joined(n + 1, f) = Joined(n, f) \o f[n]
    BY <2>1, JoinedSteps
  <2>3. Leads(r, Joined(n, f), b, full, D[0], D[n])
    BY <1>2
  <2>4. Leads(r, f[n], b, full, D[n], D[n + 1])
    OBVIOUS
  <2>5. Leads(r, Joined(n + 1, f), b, full, D[0], D[n + 1])
    BY <2>2, <2>3, <2>4, LeadsFurther
  <2> QED
    BY <2>1, <2>5
<1>3. 0 .. N \subseteq P
  <2> HIDE DEF P
  <2> QED
    BY <1>1, <1>2, InductionUpTo
<1>4. N \in P
  <2> HIDE DEF P
  <2> QED
    BY <1>3
<1> QED
  BY <1>4

(* Accesses that no program and no register minds.                         *)
IsQuiet(s) ==
  /\ IsSequence(s)
  /\ \A i \in 1 .. Len(s) : s[i] # Barrier => ~InAllBankMode(s[i])

(* Quiet lists one after the other, ...                                      *)
LEMMA QuietConcatenated ==
  ASSUME NEW s, NEW t, IsQuiet(s), IsQuiet(t)
  PROVE  IsQuiet(s \o t)
<1>1. IsSequence(s) /\ IsSequence(t) /\ Len(s) \in Nat /\ Len(t) \in Nat
  BY SequenceParts DEF IsQuiet
<1>2. /\ IsSequence(s \o t)
      /\ Len(s \o t) = Len(s) + Len(t)
      /\ \A i \in 1 .. Len(s) : (s \o t)[i] = s[i]
      /\ \A i \in 1 .. Len(t) : (s \o t)[Len(s) + i] = t[i]
  BY <1>1, Concatenation
<1>3. ASSUME NEW i \in 1 .. Len(s) + Len(t), (s \o t)[i] # Barrier PROVE ~InAllBankMode((s \o t)[i])
  <2>1. CASE i <= Len(s)
    <3>1. i \in 1 .. Len(s)
      BY <1>1, <2>1
    <3> QED
      BY <1>2, <1>3, <3>1 DEF IsQuiet
  <2>2. CASE i > Len(s)
    <3>1. i - Len(s) \in 1 .. Len(t) /\ Len(s) + (i - Len(s)) = i
      BY <1>1, <2>2
    <3> QED
      BY <1>2, <1>3, <3>1 DEF IsQuiet
  <2> QED
    BY <1>1, <2>1, <2>2
<1> QED
  BY <1>2, <1>3 DEF IsQuiet

(* ... and in a loop.                                                        *)
LEMMA QuietJoined ==
  ASSUME NEW N \in Nat, NEW f, \A i \in 0 .. N - 1 : IsQuiet(f[i])
  PROVE  IsQuiet(Joined(N, f))
<1> DEFINE P == {n \in 0 .. N : IsQuiet(Joined(n, f))}
<1>1. 0 \in P
  <2>1. Joined(0, f) = << >>
    BY JoinedSteps
  <2>2. IsQuiet(Joined(0, f))
    BY <2>1, EmptySequence DEF IsQuiet
  <2> QED
    BY <2>2
<1>2. ASSUME NEW n \in 0 .. N - 1, n \in P PROVE n + 1 \in P
  <2>1. n \in Nat /\ n + 1 \in 0 .. N
    OBVIOUS
  <2>2. Joined(n + 1, f) = Joined(n, f) \o f[n]
    BY <2>1, JoinedSteps
  <2>3. IsQuiet(Joined(n + 1, f))
    BY <1>2, <2>2, QuietConcatenated
  <2> QED
    BY <2>1, <2>3
<1>3. 0 .. N \subseteq P
  <2> HIDE DEF P
  <2> QED
    BY <1>1, <1>2, InductionUpTo
<1>4. N \in P
  <2> HIDE DEF P
  <2> QED
    BY <1>3
<1> QED
  BY <1>4

(* Nothing outstanding.                                                      *)
LEMMA SoundNothing ==
  ASSUME NEW t, NEW b, NEW full, NEW d, GoodState(d)
  PROVE  \E F : Sound(F, {}, t, b, full) /\ F[{}] = d
<1> DEFINE F == [left \in {{}} |-> d]
<1>1. F[{}] = d
  OBVIOUS
<1> HIDE DEF F
<1>2. Sound(F, {}, t, b, full)
  BY <1>1 DEF Sound
<1> QED
  BY <1>1, <1>2

(* Quiet accesses change no register, no program and no mode.                *)
LEMMA LeadsQuiet ==
  ASSUME NEW r, NEW s, NEW b, NEW full, NEW d, GoodState(d), IsQuiet(s),
         Len(s) > 0 => s[Len(s)] = Barrier
  PROVE  Leads(r, s, b, full, d, d)
<1>1. IsSequence(s) /\ Len(s) \in Nat
  BY SequenceParts DEF IsQuiet
<1>2. IsEntries(s)
  BY <1>1 DEF IsEntries, Entry, IsQuiet
<1>3. ASSUME NEW t, NEW p \in Nat, OccursIn(t, p, s)
      PROVE  Runs(r, t, p, Len(s), b, full, d, d)
  <2>1. \A k \in 1 .. Len(s) : t[p + k] = s[k]
    BY <1>3 DEF OccursIn
  <2>2. Len(s) > 0 => t[p + Len(s)] = Barrier
    BY <1>1, <2>1
  <2> DEFINE a == [i \in p .. p + Len(s) |-> d]
  <2>3. a[p] = d /\ a[p + Len(s)] = d /\ \A i \in p .. p + Len(s) : a[i] = d
    BY <1>1
  <2> HIDE DEF a
  <2>4. ASSUME NEW i \in p .. p + Len(s) - 1, NEW j \in i + 1 .. p + Len(s), NextStop(t, i, j)
        PROVE  Stage(r, t, i, j, b, full, a[i], a[j])
    <3>1. a[i] = d /\ a[j] = d
      BY <1>1, <2>3
    <3>2. Mine(r, t, i, j) = {}
      <4> SUFFICES ASSUME NEW k \in i + 1 .. j - 1, InAllBankMode(t[k]) PROVE FALSE
        BY DEF Mine
      <4>1. t[k] # Barrier
        BY <2>4 DEF NextStop
      <4>2. k - p \in 1 .. Len(s) /\ p + (k - p) = k
        BY <1>1
      <4>3. t[k] = s[k - p]
        BY <2>1, <4>2
      <4> QED
        BY <4>1, <4>2, <4>3 DEF IsQuiet
    <3> QED
      BY <3>1, <3>2, SoundNothing DEF Stage
  <2>5. Staged(r, t, p, Len(s), b, full, a)
    BY <2>4 DEF Staged
  <2> QED
    BY <2>2, <2>3, <2>5 DEF Runs
<1> QED
  BY <1>2, <1>3 DEF Leads

(* The calls before a barrier.                                             *)
LEMMA LeadsStage ==
  ASSUME NEW r, NEW s, NEW b, NEW full, NEW d, NEW e,
         IsEntries(s), \A i \in 1 .. Len(s) : s[i] # Barrier,
         Stage(r, s, 0, Len(s) + 1, b, full, d, e)
  PROVE  Leads(r, s \o << Barrier >>, b, full, d, e)
<1> DEFINE u == s \o << Barrier >>
           n == Len(s)
<1>1. IsSequence(s) /\ n \in Nat
  BY SequenceParts DEF IsEntries
<1>2. IsSequence(<< Barrier >>) /\ Len(<< Barrier >>) = 1 /\ << Barrier >>[1] = Barrier
  BY DEF IsSequence
<1>3. IsEntries(<< Barrier >>)
  BY <1>2 DEF IsEntries, Entry
<1>4. /\ IsEntries(u) /\ Len(u) = n + 1 /\ u[n + 1] = Barrier
      /\ \A i \in 1 .. n : u[i] = s[i]
  <2>1. /\ Len(s \o << Barrier >>) = Len(s) + Len(<< Barrier >>)
        /\ \A i \in 1 .. Len(s) : (s \o << Barrier >>)[i] = s[i]
        /\ \A i \in 1 .. Len(<< Barrier >>) : (s \o << Barrier >>)[Len(s) + i] = << Barrier >>[i]
    BY <1>1, <1>2, Concatenation
  <2> QED
    BY <1>2, <1>3, <2>1, EntriesConcatenated
<1> HIDE DEF u, n
<1>5. PICK G : /\ Sound(G, Mine(r, s, 0, n + 1), s, b, full)
               /\ G[Mine(r, s, 0, n + 1)] = d /\ G[{}] = e
  BY DEF Stage, n
<1>6. ASSUME NEW t, NEW p \in Nat, OccursIn(t, p, u)
      PROVE  Runs(r, t, p, n + 1, b, full, d, e)
  <2>1. \A k \in 1 .. n + 1 : t[p + k] = u[k]
    BY <1>4, <1>6 DEF OccursIn
  <2>2. t[p + (n + 1)] = Barrier /\ \A k \in 1 .. n : t[p + k] = s[k]
    BY <1>1, <1>4, <2>1
  <2>3. \A k \in p + 1 .. p + n : t[k] # Barrier /\ k - p \in 1 .. n /\ t[k] = s[k - p]
    <3> TAKE k \in p + 1 .. p + n
    <3>1. k - p \in 1 .. n /\ p + (k - p) = k
      BY <1>1
    <3> QED
      BY <2>2, <3>1 DEF n
  <2> DEFINE q == p + (n + 1)
             M == Mine(r, t, p, q)
             S == Mine(r, s, 0, n + 1)
             Back(left) == {i - p : i \in left}
             F == [left \in SUBSET M |-> G[Back(left)]]
  <2>4. \A i : i \in M <=> i \in p + 1 .. p + n /\ InAllBankMode(t[i]) /\ t[i].addr.rank = r
    BY <1>1 DEF Mine
  <2>5. \A i : i \in S <=> i \in 1 .. n /\ InAllBankMode(s[i]) /\ s[i].addr.rank = r
    BY <1>1 DEF Mine
  <2>6. \A i \in M : i - p \in S /\ i \in Int
    BY <2>3, <2>4, <2>5
  <2>7. Back(M) = S
    <3>1. ASSUME NEW k \in S PROVE k + p \in M /\ (k + p) - p = k
      <4>1. k \in 1 .. n /\ k + p \in p + 1 .. p + n /\ (k + p) - p = k
        BY <1>1, <2>5
      <4> QED
        BY <2>3, <2>4, <2>5, <4>1
    <3> HIDE DEF M, S
    <3> QED
      BY <2>6, <3>1
  <2>8. Back({}) = {}
    OBVIOUS
  <2>9. Sound(F, M, t, b, full)
    <3> SUFFICES ASSUME NEW left \in SUBSET M
                 PROVE  /\ GoodState(F[left])
                        /\ \A i \in left :
                             /\ IntendedIn(F[left], CommandWith(b, t[i]), t[i])
                             /\ full => UsedUpIn(F[left], CommandWith(b, t[i]))
                             /\ F[left \ {i}] = After(F[left], CommandWith(b, t[i]))
      BY Zenon DEF Sound
    <3>1. F[left] = G[Back(left)]
      OBVIOUS
    <3>2. Back(left) \in SUBSET S
      <4> HIDE DEF M, S
      <4> QED
        BY <2>6
    <3>3. /\ GoodState(G[Back(left)])
          /\ \A i \in Back(left) :
               /\ IntendedIn(G[Back(left)], CommandWith(b, s[i]), s[i])
               /\ full => UsedUpIn(G[Back(left)], CommandWith(b, s[i]))
               /\ G[Back(left) \ {i}] = After(G[Back(left)], CommandWith(b, s[i]))
      <4> HIDE DEF M, S, Back
      <4> QED
        BY <1>5, <3>2, Zenon DEF Sound, S
    <3>4. ASSUME NEW i \in left
          PROVE  /\ i - p \in Back(left) /\ t[i] = s[i - p]
                 /\ F[left \ {i}] = G[Back(left) \ {i - p}]
      <4>1. left \ {i} \in SUBSET M
        OBVIOUS
      <4>2. F[left \ {i}] = G[Back(left \ {i})]
        BY <4>1
      <4>3. Back(left \ {i}) = Back(left) \ {i - p}
        <5>1. \A j \in left : j \in Int
          BY <2>6
        <5> HIDE DEF M, S
        <5> QED
          BY <5>1
      <4>4. t[i] = s[i - p]
        BY <2>3, <2>4
      <4>5. i - p \in Back(left)
        OBVIOUS
      <4> QED
        BY <4>2, <4>3, <4>4, <4>5
    <3> HIDE DEF F, Back, M, S
    <3> QED
      BY <3>1, <3>3, <3>4
  <2>10. F[M] = d /\ F[{}] = e
    <3>1. F[M] = G[Back(M)] /\ F[{}] = G[Back({})]
      OBVIOUS
    <3> HIDE DEF F, Back, M, S
    <3> QED
      BY <1>5, <2>7, <2>8, <3>1 DEF S
  <2>11. Stage(r, t, p, q, b, full, d, e)
    <3> HIDE DEF F, q
    <3> QED
      BY <2>9, <2>10 DEF Stage
  <2> DEFINE a == [i \in p .. q |-> IF i = p THEN d ELSE e]
  <2>12. a[p] = d /\ a[p + (n + 1)] = e
    BY <1>1
  <2>13. Staged(r, t, p, n + 1, b, full, a)
    <3> SUFFICES ASSUME NEW i \in p .. p + (n + 1) - 1, NEW j \in i + 1 .. p + (n + 1),
                        i = p \/ t[i] = Barrier, NextStop(t, i, j)
                 PROVE  Stage(r, t, i, j, b, full, a[i], a[j])
      BY DEF Staged
    <3>1. i = p
      <4> SUFFICES ASSUME i # p PROVE FALSE
        OBVIOUS
      <4>1. i \in p + 1 .. p + n
        BY <1>1
      <4> QED
        BY <2>3, <4>1
    <3>2. j = q
      <4> SUFFICES ASSUME j # q PROVE FALSE
        OBVIOUS
      <4>1. j \in p + 1 .. p + n
        BY <1>1, <3>1
      <4> QED
        BY <2>3, <4>1 DEF NextStop
    <3>3. a[i] = d /\ a[j] = e
      BY <2>12, <3>1, <3>2
    <3> QED
      BY <2>11, <3>1, <3>2, <3>3
  <2> HIDE DEF a
  <2>14. n + 1 > 0 => t[p + (n + 1)] = Barrier
    BY <2>2
  <2> QED
    BY <2>12, <2>13, <2>14 DEF Runs
<1> QED
  BY <1>4, <1>6 DEF Leads, u

(* Calls that all do the same take the rank along a path, in any order.      *)
LEMMA StagePath ==
  ASSUME NEW r, NEW s, NEW b, NEW full, NEW n \in Nat, NEW lo \in Nat, NEW path,
         IsSequence(s), lo + n <= Len(s),
         \A j \in 1 .. Len(s) : (InAllBankMode(s[j]) /\ s[j].addr.rank = r) <=> j \in lo + 1 .. lo + n,
         \A m \in 0 .. n : GoodState(path[m]),
         \A m \in 0 .. n - 1 : \A j \in lo + 1 .. lo + n :
           /\ IntendedIn(path[m], CommandWith(b, s[j]), s[j])
           /\ full => UsedUpIn(path[m], CommandWith(b, s[j]))
           /\ path[m + 1] = After(path[m], CommandWith(b, s[j]))
  PROVE  Stage(r, s, 0, Len(s) + 1, b, full, path[0], path[n])
<1> DEFINE M == Mine(r, s, 0, Len(s) + 1)
           F == [left \in SUBSET M |-> path[n - Cardinality(left)]]
<1>1. Len(s) \in Nat
  BY SequenceParts
<1>2. M = lo + 1 .. lo + n
  BY <1>1 DEF Mine
<1> HIDE DEF M
<1>3. IsFiniteSet(M) /\ Cardinality(M) = n
  <2>1. lo + 1 \in Int /\ lo + n \in Int
    OBVIOUS
  <2>2. /\ IsFiniteSet(lo + 1 .. lo + n)
        /\ Cardinality(lo + 1 .. lo + n) = IF lo + 1 > lo + n THEN 0 ELSE (lo + n) - (lo + 1) + 1
    BY <2>1, FS_Interval
  <2>3. Cardinality(lo + 1 .. lo + n) = n
    BY <2>2
  <2> QED
    BY <1>2, <2>2, <2>3
<1>4. Sound(F, M, s, b, full)
  <2> SUFFICES ASSUME NEW left \in SUBSET M
               PROVE  /\ GoodState(F[left])
                      /\ \A i \in left :
                           /\ IntendedIn(F[left], CommandWith(b, s[i]), s[i])
                           /\ full => UsedUpIn(F[left], CommandWith(b, s[i]))
                           /\ F[left \ {i}] = After(F[left], CommandWith(b, s[i]))
    BY Zenon DEF Sound
  <2>1. IsFiniteSet(left) /\ Cardinality(left) \in 0 .. n
    <3>1. IsFiniteSet(left) /\ Cardinality(left) <= Cardinality(M)
      BY <1>3, FS_Subset
    <3>2. Cardinality(left) \in Nat
      BY <3>1, FS_CardinalityType
    <3> QED
      BY <1>3, <3>1, <3>2
  <2>2. F[left] = path[n - Cardinality(left)]
    OBVIOUS
  <2>3. GoodState(F[left])
    <3>1. n - Cardinality(left) \in 0 .. n
      BY <2>1
    <3> QED
      BY <2>2, <3>1
  <2>4. ASSUME NEW i \in left
        PROVE  /\ IntendedIn(F[left], CommandWith(b, s[i]), s[i])
               /\ full => UsedUpIn(F[left], CommandWith(b, s[i]))
               /\ F[left \ {i}] = After(F[left], CommandWith(b, s[i]))
    <3>1. IsFiniteSet(left \ {i}) /\ Cardinality(left \ {i}) = Cardinality(left) - 1
      BY <2>1, FS_RemoveElement
    <3>2. Cardinality(left \ {i}) \in Nat
      BY <3>1, FS_CardinalityType
    <3> DEFINE m == n - Cardinality(left)
    <3>3. m \in 0 .. n - 1 /\ n - Cardinality(left \ {i}) = m + 1
      BY <2>1, <3>1, <3>2
    <3>4. F[left \ {i}] = path[n - Cardinality(left \ {i})]
      <4>1. left \ {i} \in SUBSET M
        OBVIOUS
      <4> QED
        BY <4>1
    <3>5. i \in lo + 1 .. lo + n
      BY <1>2
    <3> HIDE DEF m, F
    <3>6. F[left] = path[m]
      BY <2>2 DEF m
    <3> QED
      BY <3>3, <3>4, <3>5, <3>6
  <2> QED
    BY <2>3, <2>4
<1>5. F[M] = path[0] /\ F[{}] = path[n]
  <2>1. F[M] = path[n - Cardinality(M)] /\ F[{}] = path[n - Cardinality({})]
    OBVIOUS
  <2>2. Cardinality({}) = 0
    BY FS_EmptySet
  <2>3. n - 0 = n /\ n - n = 0
    OBVIOUS
  <2> HIDE DEF F
  <2> QED
    BY <1>3, <2>1, <2>2, <2>3
<1> HIDE DEF F
<1> QED
  BY <1>4, <1>5 DEF Stage, M

(* Calls that do nothing to the rank, in any order.                          *)
LEMMA StageIdle ==
  ASSUME NEW r, NEW s, NEW b, NEW full, NEW d, GoodState(d),
         \A j \in 1 .. Len(s) : InAllBankMode(s[j]) /\ s[j].addr.rank = r =>
           /\ IntendedIn(d, CommandWith(b, s[j]), s[j])
           /\ full => UsedUpIn(d, CommandWith(b, s[j]))
           /\ After(d, CommandWith(b, s[j])) = d,
         IsSequence(s)
  PROVE  Stage(r, s, 0, Len(s) + 1, b, full, d, d)
<1> DEFINE M == Mine(r, s, 0, Len(s) + 1)
           F == [left \in SUBSET M |-> d]
<1>1. Len(s) \in Nat
  BY SequenceParts
<1>2. \A i \in M : i \in 1 .. Len(s) /\ InAllBankMode(s[i]) /\ s[i].addr.rank = r
  BY <1>1 DEF Mine
<1> HIDE DEF M
<1>3. \A left \in SUBSET M : F[left] = d
  OBVIOUS
<1> HIDE DEF F
<1>4. Sound(F, M, s, b, full)
  <2> SUFFICES ASSUME NEW left \in SUBSET M
               PROVE  /\ GoodState(F[left])
                      /\ \A i \in left :
                           /\ IntendedIn(F[left], CommandWith(b, s[i]), s[i])
                           /\ full => UsedUpIn(F[left], CommandWith(b, s[i]))
                           /\ F[left \ {i}] = After(F[left], CommandWith(b, s[i]))
    BY Zenon DEF Sound
  <2>1. F[left] = d /\ \A i \in left : F[left \ {i}] = d
    BY <1>3
  <2> QED
    BY <1>2, <2>1
<1>5. F[M] = d /\ F[{}] = d
  BY <1>3
<1> QED
  BY <1>4, <1>5 DEF Stage, M

-----------------------------------------------------------------------------
(* The calls of AddTransactionAll.                                         *)

RankPasses(n, C) == [m \in 0 .. NUM_PIM_RANKS - 1 |-> [k \in 1 .. n |-> C[m][k]]]

(* A list by its members.                                                    *)
LEMMA ListOf ==
  ASSUME NEW n \in Nat, NEW c
  PROVE  /\ IsSequence([k \in 1 .. n |-> c[k]]) /\ Len([k \in 1 .. n |-> c[k]]) = n
<1> DEFINE s == [k \in 1 .. n |-> c[k]]
<1>1. DOMAIN s = 1 .. n /\ s \in [1 .. n -> {s[i] : i \in DOMAIN s}]
  OBVIOUS
<1> HIDE DEF s
<1>2. s \in Seq({s[i] : i \in DOMAIN s}) /\ Len(s) = n
  BY <1>1
<1> QED
  BY <1>2 DEF IsSequence, s

(* The n calls C[m][1 .. n] of each rank m, and where those of r are.      *)
RankedCalls(s, n, C, r) ==
  /\ IsEntries(s) /\ Len(s) = NUM_PIM_RANKS * n
  /\ \A j \in 1 .. Len(s) : s[j] # Barrier
  /\ \A k \in 1 .. n : s[r * n + k] = C[r][k]
  /\ \A j \in 1 .. Len(s) : s[j].addr.rank = r <=> j \in r * n + 1 .. r * n + n
  /\ r * n \in Nat /\ r * n + n <= Len(s)

(* Where the calls of a rank stand.                                          *)
LEMMA RankCalls ==
  ASSUME NEW n \in Nat, NEW C, NEW r \in Driven,
         \A m \in Driven : \A k \in 1 .. n : C[m][k] # Barrier /\ C[m][k].addr.rank = m
  PROVE  RankedCalls(Joined(NUM_PIM_RANKS, RankPasses(n, C)), n, C, r)
<1> DEFINE f == RankPasses(n, C)
           N == NUM_PIM_RANKS
           s == Joined(N, f)
<1>1. N \in Nat /\ Driven = 0 .. N - 1
  BY KernelAssumption, GeometryAssumption DEF Driven
<1>2. \A m \in 0 .. N - 1 : IsSequence(f[m]) /\ Len(f[m]) = n /\ \A k \in 1 .. n : f[m][k] = C[m][k]
  <2> TAKE m \in 0 .. N - 1
  <2>1. f[m] = [k \in 1 .. n |-> C[m][k]]
    BY DEF RankPasses
  <2> HIDE DEF f
  <2> QED
    BY <2>1, ListOf
<1> HIDE DEF f, N
<1>3. \A q \in 0 .. N - 1 :
        /\ Len(s) = N * n
        /\ \A k \in 1 .. n : s[q * n + k] = f[q][k]
        /\ \A j \in 1 .. N * n :
             \/ \E k \in 1 .. n : j = q * n + k
             \/ \E m \in 0 .. N - 1 : m # q /\ \E k \in 1 .. n : s[j] = f[m][k]
  <2>1. \A i \in 0 .. N - 1 : IsSequence(f[i]) /\ Len(f[i]) = n
    BY <1>2
  <2> TAKE q \in 0 .. N - 1
  <2>2. PassList(N, f, n, q)
    BY <1>1, <2>1, Passes
  <2> QED
    BY <2>2 DEF PassList
<1>4. IsSequence(s)
  <2> DEFINE S == UNION {{f[m][k] : k \in 1 .. n} : m \in 0 .. N - 1}
  <2>1. \A m \in 0 .. N - 1 : f[m] \in Seq(S)
    <3> TAKE m \in 0 .. N - 1
    <3>1. IsSequence(f[m]) /\ DOMAIN f[m] = 1 .. n
      BY <1>2, SequenceParts
    <3>2. {f[m][k] : k \in DOMAIN f[m]} \subseteq S
      BY <3>1
    <3> HIDE DEF S
    <3> QED
      BY <3>1, <3>2 DEF IsSequence
  <2> HIDE DEF S
  <2>2. N \in 0 .. N
    BY <1>1
  <2>3. s \in Seq(S)
    BY <1>1, <2>1, <2>2, JoinedType
  <2> QED
    BY <2>3, SequenceOf
<1> HIDE DEF s
<1>5. r \in 0 .. N - 1
  BY <1>1
<1>6. Len(s) = N * n /\ N * n \in Nat
  BY <1>1, <1>3, <1>5
<1>7. ASSUME NEW j \in 1 .. Len(s)
      PROVE  \E m \in 0 .. N - 1 : \E k \in 1 .. n : s[j] = C[m][k]
  <2>1. CASE \E k \in 1 .. n : j = r * n + k
    <3>1. PICK k \in 1 .. n : j = r * n + k
      BY <2>1
    <3>2. s[r * n + k] = f[r][k]
      BY <1>3, <1>5, Zenon
    <3>3. s[j] = C[r][k]
      BY <1>2, <1>5, <3>1, <3>2, Zenon
    <3> QED
      BY <1>5, <3>3, Zenon
  <2>2. CASE \E m \in 0 .. N - 1 : m # r /\ \E k \in 1 .. n : s[j] = f[m][k]
    <3>1. PICK m \in 0 .. N - 1, k \in 1 .. n : s[j] = f[m][k]
      BY <2>2, Zenon
    <3>2. f[m][k] = C[m][k]
      BY <1>2, Zenon
    <3> QED
      BY <3>1, <3>2, Zenon
  <2>3. j \in 1 .. N * n
    BY <1>6
  <2>4. \/ \E k \in 1 .. n : j = r * n + k
        \/ \E m \in 0 .. N - 1 : m # r /\ \E k \in 1 .. n : s[j] = f[m][k]
    BY <1>3, <1>5, <2>3, Zenon
  <2> QED
    BY <2>1, <2>2, <2>4, Zenon
<1>8. ASSUME NEW j \in 1 .. Len(s)
      PROVE  s[j] # Barrier /\ s[j].addr.rank \in Driven
  <2>1. PICK m \in 0 .. N - 1 : \E k \in 1 .. n : s[j] = C[m][k]
    BY <1>7, Zenon
  <2>2. PICK k \in 1 .. n : s[j] = C[m][k]
    BY <2>1, Zenon
  <2>3. m \in Driven
    BY <1>1, Zenon
  <2>4. C[m][k] # Barrier /\ C[m][k].addr.rank = m
    BY <2>3, Zenon
  <2> QED
    BY <2>2, <2>3, <2>4, SMTT(30)
<1>9. r * n \in Nat /\ r * n + n <= N * n
  <2>1. PICK k \in Nat : N = (r + 1) + k
    <3>1. N - (r + 1) \in Nat /\ N = (r + 1) + (N - (r + 1))
      BY <1>1, <1>5
    <3> QED
      BY <3>1
  <2>2. r \in Nat
    BY <1>1, <1>5
  <2>3. ((r + 1) + k) * n = (r * n + n) + k * n /\ k * n \in Nat /\ r * n \in Nat
    BY <2>2
  <2>4. N * n = (r * n + n) + k * n /\ k * n \in Nat /\ r * n \in Nat
    BY <2>1, <2>3
  <2> QED
    BY <2>4
<1>10. \A j \in 1 .. Len(s) : s[j].addr.rank = r <=> j \in r * n + 1 .. r * n + n
  <2> TAKE j \in 1 .. Len(s)
  <2>1. CASE j \in r * n + 1 .. r * n + n
    <3>1. j - r * n \in 1 .. n /\ r * n + (j - r * n) = j
      BY <1>9, <2>1
    <3>2. s[j] = f[r][j - r * n]
      BY <1>3, <1>5, <3>1
    <3>3. s[j] = C[r][j - r * n]
      BY <1>2, <1>5, <3>1, <3>2
    <3> QED
      BY <2>1, <3>1, <3>3
  <2>2. CASE j \notin r * n + 1 .. r * n + n
    <3>1. ~ \E k \in 1 .. n : j = r * n + k
      BY <1>9, <2>2
    <3>0. j \in 1 .. N * n
      BY <1>6
    <3>2. PICK m \in 0 .. N - 1 : m # r /\ \E k \in 1 .. n : s[j] = f[m][k]
      BY <1>3, <1>5, <3>0, <3>1, Zenon
    <3>3. s[j].addr.rank = m
      BY <1>1, <1>2, <3>2
    <3> QED
      BY <2>2, <3>2, <3>3
  <2> QED
    BY <2>1, <2>2
<1>11. IsEntries(s)
  BY <1>4, <1>8 DEF IsEntries, Entry
<1>12. \A k \in 1 .. n : s[r * n + k] = C[r][k]
  BY <1>2, <1>3, <1>5
<1> QED
  BY <1>6, <1>8, <1>9, <1>10, <1>11, <1>12, Zenon DEF s, f, N, RankedCalls

CallsOfRanks(type, bank, row, col, note, n) ==
  [m \in Driven |-> [k \in 1 .. n |-> Call(type, m, bank, row, col + k - 1, note)]]

CallIs(e, c, type, rank, bank, row, col, note, b) ==
  /\ e # Barrier /\ e.addr.rank = rank /\ e.modes = note.modes
  /\ e.data = note.data /\ e.step = note.step
  /\ c.type = IF type = "DATA_READ" THEN "READ" ELSE "WRITE"
  /\ c.rank = rank /\ c.bank = bank
  /\ c.row = row + col \div NUM_COLS_PER_BL /\ c.col = col % NUM_COLS_PER_BL
  /\ c.trans.id = Contents(b, note.data)

(* A call and the command that it becomes.                                   *)
LEMMA CallFields ==
  ASSUME NEW type, NEW rank, NEW bank, NEW row, NEW col, NEW note, NEW b
  PROVE  CallIs(Call(type, rank, bank, row, col, note),
                CommandWith(b, Call(type, rank, bank, row, col, note)),
                type, rank, bank, row, col, note, b)
<1> DEFINE e == Call(type, rank, bank, row, col, note)
           c == CommandWith(b, e)
<1>1. /\ e.call = "addTransaction" /\ e.type = type
      /\ e.addr = [ rank |-> rank, bank |-> bank, row |-> row + col \div NUM_COLS_PER_BL,
                    col |-> col % NUM_COLS_PER_BL ]
      /\ e.data = note.data /\ e.modes = note.modes /\ e.step = note.step
  BY DEF Call
<1> HIDE DEF e
<1>2. /\ c.type = IF e.type = "DATA_READ" THEN "READ" ELSE "WRITE"
      /\ c.rank = e.addr.rank /\ c.bank = e.addr.bank /\ c.row = e.addr.row
      /\ c.col = e.addr.col /\ c.trans = [id |-> Contents(b, e.data)]
  BY DEF CommandWith
<1>3. e # Barrier
  <2>1. Barrier.call = "addBarrier"
    BY DEF Barrier
  <2> QED
    BY <1>1, <2>1
<1> HIDE DEF c
<1>4. /\ e.addr.rank = rank /\ e.addr.bank = bank
      /\ e.addr.row = row + col \div NUM_COLS_PER_BL
      /\ e.addr.col = col % NUM_COLS_PER_BL
  BY <1>1
<1>5. c.trans.id = Contents(b, note.data)
  BY <1>1, <1>2
<1> QED
  BY <1>1, <1>2, <1>3, <1>4, <1>5, Zenon DEF e, c, CallIs

(* The loop over the ranks in AddTransactionAll.                             *)
LEMMA RankCallsOf ==
  ASSUME NEW type, NEW bank, NEW row, NEW col, NEW note, NEW n \in Nat
  PROVE  ForEach(NUM_PIM_RANKS,
           LAMBDA r : [i \in 1 .. n |-> Call(type, r, bank, row, col + i - 1, note)])
         = Joined(NUM_PIM_RANKS, RankPasses(n, CallsOfRanks(type, bank, row, col, note, n)))
<1> DEFINE C == CallsOfRanks(type, bank, row, col, note, n)
           f == [r \in 0 .. NUM_PIM_RANKS - 1 |->
                   [i \in 1 .. n |-> Call(type, r, bank, row, col + i - 1, note)]]
<1>1. ForEach(NUM_PIM_RANKS,
        LAMBDA r : [i \in 1 .. n |-> Call(type, r, bank, row, col + i - 1, note)])
      = Joined(NUM_PIM_RANKS, f)
  BY DEF ForEach
<1>2. f = RankPasses(n, C)
  <2>1. ASSUME NEW m \in 0 .. NUM_PIM_RANKS - 1
        PROVE  [i \in 1 .. n |-> Call(type, m, bank, row, col + i - 1, note)]
               = [k \in 1 .. n |-> C[m][k]]
    <3>1. C[m] = [k \in 1 .. n |-> Call(type, m, bank, row, col + k - 1, note)]
      BY DEF CallsOfRanks, Driven
    <3> HIDE DEF C
    <3> QED
      BY <3>1
  <2> HIDE DEF C
  <2> QED
    BY <2>1 DEF RankPasses
<1> HIDE DEF f, C
<1> QED
  BY <1>1, <1>2 DEF C

(* The n calls of r stand behind the first lo, and the others are not its. *)
AccessList(s, lo, type, bank, row, col, note, n, r) ==
  /\ AddTransactionAll(type, bank, row, col, note, TRUE, n) = s \o << Barrier >>
  /\ AddTransactionAll(type, bank, row, col, note, FALSE, n) = s \o << >>
  /\ IsEntries(s) /\ lo + n <= Len(s)
  /\ \A j \in 1 .. Len(s) : s[j] # Barrier
  /\ \A j \in 1 .. Len(s) : (InAllBankMode(s[j]) /\ s[j].addr.rank = r) <=> j \in lo + 1 .. lo + n
  /\ \A k \in 1 .. n : s[lo + k] = Call(type, r, bank, row, col + k - 1, note)

(* The calls of AddTransactionAll, seen from one rank.                       *)
LEMMA AllAccesses ==
  ASSUME NEW type, NEW bank, NEW row, NEW col, NEW note, NEW n \in Nat, NEW r \in Driven,
         "SB" \notin note.modes
  PROVE  \E s : \E lo \in Nat : AccessList(s, lo, type, bank, row, col, note, n, r)
<1> DEFINE C == CallsOfRanks(type, bank, row, col, note, n)
           s == Joined(NUM_PIM_RANKS, RankPasses(n, C))
<1>1. \A m \in Driven : \A k \in 1 .. n : C[m][k] = Call(type, m, bank, row, col + k - 1, note)
  BY DEF CallsOfRanks
<1>2. /\ AddTransactionAll(type, bank, row, col, note, TRUE, n) = s \o << Barrier >>
      /\ AddTransactionAll(type, bank, row, col, note, FALSE, n) = s \o << >>
  <2>1. ForEach(NUM_PIM_RANKS,
           LAMBDA m : [i \in 1 .. n |-> Call(type, m, bank, row, col + i - 1, note)]) = s
    BY RankCallsOf
  <2> HIDE DEF s
  <2> QED
    BY <2>1 DEF AddTransactionAll, Fenced
<1> HIDE DEF C
<1>3. \A m \in Driven : \A k \in 1 .. n :
        C[m][k] # Barrier /\ C[m][k].addr.rank = m /\ InAllBankMode(C[m][k])
  <2> TAKE m \in Driven
  <2> TAKE k \in 1 .. n
  <2> DEFINE e == Call(type, m, bank, row, col + k - 1, note)
  <2>0. CallIs(e, CommandWith(e, e), type, m, bank, row, col + k - 1, note, e)
    BY CallFields, Zenon
  <2>1. /\ C[m][k] # Barrier /\ C[m][k].addr.rank = m /\ C[m][k].modes = note.modes
    <3>1. C[m][k] = e
      BY <1>1
    <3> HIDE DEF e
    <3> QED
      BY <2>0, <3>1, Zenon DEF CallIs
  <2> QED
    BY <2>1 DEF InAllBankMode
<1>4. /\ IsEntries(s) /\ Len(s) = NUM_PIM_RANKS * n
      /\ \A j \in 1 .. Len(s) : s[j] # Barrier
      /\ \A k \in 1 .. n : s[r * n + k] = C[r][k]
      /\ \A j \in 1 .. Len(s) : s[j].addr.rank = r <=> j \in r * n + 1 .. r * n + n
      /\ r * n \in Nat /\ r * n + n <= Len(s)
  <2>1. RankedCalls(Joined(NUM_PIM_RANKS, RankPasses(n, C)), n, C, r)
    BY <1>3, RankCalls
  <2> QED
    BY <2>1, Zenon DEF RankedCalls
<1> HIDE DEF s
<1>5. \A j \in 1 .. Len(s) :
        (InAllBankMode(s[j]) /\ s[j].addr.rank = r) <=> j \in r * n + 1 .. r * n + n
  <2> TAKE j \in 1 .. Len(s)
  <2>1. CASE j \in r * n + 1 .. r * n + n
    <3>1. j - r * n \in 1 .. n /\ r * n + (j - r * n) = j
      BY <1>4, <2>1
    <3>2. s[j] = C[r][j - r * n]
      BY <1>4, <3>1
    <3> QED
      BY <1>3, <1>4, <2>1, <3>1, <3>2
  <2>2. CASE j \notin r * n + 1 .. r * n + n
    BY <1>4, <2>2
  <2> QED
    BY <2>1, <2>2
<1>6. \A k \in 1 .. n : s[r * n + k] = Call(type, r, bank, row, col + k - 1, note)
  BY <1>1, <1>4
<1> QED
  BY <1>2, <1>4, <1>5, <1>6, Zenon DEF AccessList

Does(b, full, e, d, f) ==
  /\ IntendedIn(d, CommandWith(b, e), e)
  /\ full => UsedUpIn(d, CommandWith(b, e))
  /\ f = After(d, CommandWith(b, e))

(* The same access from every rank, n times, each with a barrier.          *)
LEMMA LeadsAccesses ==
  ASSUME NEW type, NEW bank, NEW row, NEW col, NEW note, NEW n \in Nat, NEW r \in Driven,
         NEW b, NEW full, NEW path,
         "SB" \notin note.modes,
         \A m \in 0 .. n : GoodState(path[m]),
         \A m \in 0 .. n - 1 : \A k \in 1 .. n :
           Does(b, full, Call(type, r, bank, row, col + k - 1, note), path[m], path[m + 1])
  PROVE  Leads(r, AddTransactionAll(type, bank, row, col, note, TRUE, n), b, full,
               path[0], path[n])
<1>0. PICK s : \E lo \in Nat : AccessList(s, lo, type, bank, row, col, note, n, r)
  BY AllAccesses
<1>00. PICK lo \in Nat : AccessList(s, lo, type, bank, row, col, note, n, r)
  BY <1>0
<1>1. /\ AddTransactionAll(type, bank, row, col, note, TRUE, n) = s \o << Barrier >>
      /\ IsEntries(s) /\ lo + n <= Len(s)
      /\ \A j \in 1 .. Len(s) : s[j] # Barrier
      /\ \A j \in 1 .. Len(s) : (InAllBankMode(s[j]) /\ s[j].addr.rank = r) <=> j \in lo + 1 .. lo + n
      /\ \A k \in 1 .. n : s[lo + k] = Call(type, r, bank, row, col + k - 1, note)
  BY <1>00, Zenon DEF AccessList
<1>2. IsSequence(s)
  BY <1>1 DEF IsEntries
<1>3. ASSUME NEW m \in 0 .. n - 1, NEW j \in lo + 1 .. lo + n
      PROVE  /\ IntendedIn(path[m], CommandWith(b, s[j]), s[j])
             /\ full => UsedUpIn(path[m], CommandWith(b, s[j]))
             /\ path[m + 1] = After(path[m], CommandWith(b, s[j]))
  <2>1. j - lo \in 1 .. n /\ lo + (j - lo) = j
    OBVIOUS
  <2>2. s[j] = Call(type, r, bank, row, col + (j - lo) - 1, note)
    BY <1>1, <2>1
  <2>3. Does(b, full, s[j], path[m], path[m + 1])
    BY <2>1, <2>2
  <2> QED
    BY <2>3, Zenon DEF Does
<1>4. Stage(r, s, 0, Len(s) + 1, b, full, path[0], path[n])
  BY <1>1, <1>2, <1>3, StagePath
<1>5. Leads(r, s \o << Barrier >>, b, full, path[0], path[n])
  BY <1>1, <1>4, LeadsStage
<1> QED
  BY <1>1, <1>5

-----------------------------------------------------------------------------
(* The sequencer.                                                          *)

TurnsOf(code, q) == PastJump(code, PastJump(code, PastJump(code, q)))

At(pc, lastJump, jumps, lastRepeat, repeats, exit) ==
  [ pc |-> pc, lastJump |-> lastJump, jumps |-> jumps,
    lastRepeat |-> lastRepeat, repeats |-> repeats, exit |-> exit ]

(* An instruction that executes NUM_GRF times.                             *)
RepeatsItself(cmd) ==
  \/ cmd.type = "FILL"
  \/ cmd.type \in {"ADD", "MUL", "MAC"} /\ cmd.isAuto = 1
  \/ cmd.type = "NOP" /\ cmd.isAuto = 0 /\ cmd.loopCounter = NUM_GRF - 1

Ends(code, k) == code[k].type = "EXIT"

(* A sequencer by its fields.                                                *)
LEMMA Shaped ==
  ASSUME NEW s, s = [f \in {"pc", "lastJump", "jumps", "lastRepeat", "repeats", "exit"} |-> s[f]]
  PROVE  s = At(s.pc, s.lastJump, s.jumps, s.lastRepeat, s.repeats, s.exit)
  BY DEF At

(* Its fields, and no other.                                                 *)
LEMMA Fields ==
  ASSUME NEW pc, NEW lj, NEW j, NEW lr, NEW x, NEW ex
  PROVE  /\ At(pc, lj, j, lr, x, ex).pc = pc
         /\ At(pc, lj, j, lr, x, ex).lastJump = lj
         /\ At(pc, lj, j, lr, x, ex).jumps = j
         /\ At(pc, lj, j, lr, x, ex).lastRepeat = lr
         /\ At(pc, lj, j, lr, x, ex).repeats = x
         /\ At(pc, lj, j, lr, x, ex).exit = ex
         /\ DOMAIN At(pc, lj, j, lr, x, ex) = {"pc", "lastJump", "jumps", "lastRepeat", "repeats", "exit"}
  BY DEF At

ArmRepeat(s, v, w) == [s EXCEPT !.lastRepeat = v, !.repeats = w]
SetRepeat(s, v)    == [s EXCEPT !.lastRepeat = v]
StepBack(s, v, w)  == [s EXCEPT !.pc = v, !.repeats = w]
GoOn(s, v, w)      == [s EXCEPT !.pc = v, !.exit = w]
ArmJump(s, v, w)   == [s EXCEPT !.lastJump = v, !.jumps = w]
JumpBack(s, v, w)  == [s EXCEPT !.pc = v, !.jumps = w]

(* One field set, ...                                                        *)
LEMMA Unset ==
  ASSUME NEW pc, NEW lj, NEW j, NEW lr, NEW x, NEW ex, NEW v
  PROVE  SetRepeat(At(pc, lj, j, lr, x, ex), v) = At(pc, lj, j, v, x, ex)
  BY DEF At, SetRepeat

(* ... and two of them.                                                      *)
LEMMA Updates ==
  ASSUME NEW pc, NEW lj, NEW j, NEW lr, NEW x, NEW ex, NEW v, NEW w
  PROVE  /\ ArmRepeat(At(pc, lj, j, lr, x, ex), v, w) = At(pc, lj, j, v, w, ex)
         /\ StepBack(At(pc, lj, j, lr, x, ex), v, w) = At(v, lj, j, lr, w, ex)
         /\ GoOn(At(pc, lj, j, lr, x, ex), v, w) = At(v, lj, j, lr, x, w)
         /\ ArmJump(At(pc, lj, j, lr, x, ex), v, w) = At(pc, v, w, lr, x, ex)
         /\ JumpBack(At(pc, lj, j, lr, x, ex), v, w) = At(v, lj, w, lr, x, ex)
<1> DEFINE s == At(pc, lj, j, lr, x, ex)
<1>1. ArmRepeat(s, v, w) = At(pc, lj, j, v, w, ex)
  <2>1. \A t : [t EXCEPT !.lastRepeat = v, !.repeats = w] = [[t EXCEPT !.lastRepeat = v] EXCEPT !.repeats = w]
    OBVIOUS
  <2>2. [s EXCEPT !.lastRepeat = v, !.repeats = w] = [[s EXCEPT !.lastRepeat = v] EXCEPT !.repeats = w]
    BY <2>1
  <2>3. [s EXCEPT !.lastRepeat = v] = At(pc, lj, j, v, x, ex)
    BY DEF At
  <2>4. [At(pc, lj, j, v, x, ex) EXCEPT !.repeats = w] = At(pc, lj, j, v, w, ex)
    BY DEF At
  <2> HIDE DEF s
  <2>5. [s EXCEPT !.lastRepeat = v, !.repeats = w] = At(pc, lj, j, v, w, ex)
    BY <2>2, <2>3, <2>4
  <2> QED
    BY <2>5 DEF ArmRepeat
<1>3. StepBack(s, v, w) = At(v, lj, j, lr, w, ex)
  <2>1. \A t : [t EXCEPT !.pc = v, !.repeats = w] = [[t EXCEPT !.pc = v] EXCEPT !.repeats = w]
    OBVIOUS
  <2>2. [s EXCEPT !.pc = v, !.repeats = w] = [[s EXCEPT !.pc = v] EXCEPT !.repeats = w]
    BY <2>1
  <2>3. [s EXCEPT !.pc = v] = At(v, lj, j, lr, x, ex)
    BY DEF At
  <2>4. [At(v, lj, j, lr, x, ex) EXCEPT !.repeats = w] = At(v, lj, j, lr, w, ex)
    BY DEF At
  <2> HIDE DEF s
  <2>5. [s EXCEPT !.pc = v, !.repeats = w] = At(v, lj, j, lr, w, ex)
    BY <2>2, <2>3, <2>4
  <2> QED
    BY <2>5 DEF StepBack
<1>4. GoOn(s, v, w) = At(v, lj, j, lr, x, w)
  <2>1. \A t : [t EXCEPT !.pc = v, !.exit = w] = [[t EXCEPT !.pc = v] EXCEPT !.exit = w]
    OBVIOUS
  <2>2. [s EXCEPT !.pc = v, !.exit = w] = [[s EXCEPT !.pc = v] EXCEPT !.exit = w]
    BY <2>1
  <2>3. [s EXCEPT !.pc = v] = At(v, lj, j, lr, x, ex)
    BY DEF At
  <2>4. [At(v, lj, j, lr, x, ex) EXCEPT !.exit = w] = At(v, lj, j, lr, x, w)
    BY DEF At
  <2> HIDE DEF s
  <2>5. [s EXCEPT !.pc = v, !.exit = w] = At(v, lj, j, lr, x, w)
    BY <2>2, <2>3, <2>4
  <2> QED
    BY <2>5 DEF GoOn
<1>5. ArmJump(s, v, w) = At(pc, v, w, lr, x, ex)
  <2>1. \A t : [t EXCEPT !.lastJump = v, !.jumps = w] = [[t EXCEPT !.lastJump = v] EXCEPT !.jumps = w]
    OBVIOUS
  <2>2. [s EXCEPT !.lastJump = v, !.jumps = w] = [[s EXCEPT !.lastJump = v] EXCEPT !.jumps = w]
    BY <2>1
  <2>3. [s EXCEPT !.lastJump = v] = At(pc, v, j, lr, x, ex)
    BY DEF At
  <2>4. [At(pc, v, j, lr, x, ex) EXCEPT !.jumps = w] = At(pc, v, w, lr, x, ex)
    BY DEF At
  <2> HIDE DEF s
  <2>5. [s EXCEPT !.lastJump = v, !.jumps = w] = At(pc, v, w, lr, x, ex)
    BY <2>2, <2>3, <2>4
  <2> QED
    BY <2>5 DEF ArmJump
<1>6. JumpBack(s, v, w) = At(v, lj, w, lr, x, ex)
  <2>1. \A t : [t EXCEPT !.pc = v, !.jumps = w] = [[t EXCEPT !.pc = v] EXCEPT !.jumps = w]
    OBVIOUS
  <2>2. [s EXCEPT !.pc = v, !.jumps = w] = [[s EXCEPT !.pc = v] EXCEPT !.jumps = w]
    BY <2>1
  <2>3. [s EXCEPT !.pc = v] = At(v, lj, j, lr, x, ex)
    BY DEF At
  <2>4. [At(v, lj, j, lr, x, ex) EXCEPT !.jumps = w] = At(v, lj, w, lr, x, ex)
    BY DEF At
  <2> HIDE DEF s
  <2>5. [s EXCEPT !.pc = v, !.jumps = w] = At(v, lj, w, lr, x, ex)
    BY <2>2, <2>3, <2>4
  <2> QED
    BY <2>5 DEF JumpBack
<1> QED
  BY <1>1, <1>3, <1>4, <1>5, <1>6, Zenon

(* One turn at an instruction that repeats itself.                         *)
Repeating(code, k, lj, j, lr, x, no) ==
  /\ lr # k => Turned(code, At(k, lj, j, lr, x, no)) =
       IF NUM_GRF > 1 THEN At(k, lj, j, k, NUM_GRF - 2, no)
                      ELSE At(k + 1, lj, j, -1, 0, Ends(code, k + 1))
  /\ lr = k => Turned(code, At(k, lj, j, lr, x, no)) =
       IF x > 0 THEN At(k, lj, j, k, x - 1, no)
                ELSE At(k + 1, lj, j, -1, x, Ends(code, k + 1))

(* A turn at an instruction that repeats itself counts down, from wherever   *)
(* the counter stands.                                                       *)
LEMMA TurnedRepeating ==
  ASSUME NEW code, NEW k \in Nat, NEW lj, NEW j, NEW lr \in Int, NEW x \in Int, NEW no,
         no = FALSE, RepeatsItself(code[k])
  PROVE  Repeating(code, k, lj, j, lr, x, no)
<1> DEFINE s == At(k, lj, j, lr, x, no)
           n == IF lr # k THEN NUM_GRF - 1 ELSE x
           a == At(k, lj, j, k, n, no)
           t == Repeated(s, NUM_GRF - 1)
<1>0. n \in Int /\ (lr # k => n = NUM_GRF - 1 /\ n \in Nat) /\ (lr = k => n = x)
  BY GrfAssumption
<1>1. /\ s.pc = k /\ s.lastRepeat = lr /\ s.exit = FALSE /\ s.repeats = x
  BY Fields
<1>2. code[k].type # "EXIT" /\ code[k].type # "JUMP"
  BY DEF RepeatsItself
<1>3. Turned(code, s) = GoOn(t, t.pc + 1, t.exit \/ code[t.pc + 1].type = "EXIT")
  BY <1>1, <1>2 DEF Turned, RepeatsItself, GoOn
<1> HIDE DEF n
<1>4. lr # k => ArmRepeat(s, k, n) = a
  BY Updates
<1>5. lr = k => s = a
  BY <1>0
<1>6. a.pc = k /\ a.repeats = n
  BY Fields
<1>7. t = IF n > 0 THEN StepBack(a, k - 1, n - 1) ELSE SetRepeat(a, -1)
  <2> HIDE DEF s, a
  <2>1. CASE lr # k
    <3>1. ArmRepeat(s, k, NUM_GRF - 1) = a
      BY <1>0, <1>4, <2>1
    <3> QED
      BY <1>1, <1>6, <2>1, <3>1 DEF Repeated, ArmRepeat, StepBack, SetRepeat
  <2>2. CASE lr = k
    BY <1>1, <1>5, <1>6, <2>2 DEF Repeated, StepBack, SetRepeat
  <2> QED
    BY <2>1, <2>2
<1> HIDE DEF t
<1>8. CASE n > 0
  <2>1. t = At(k - 1, lj, j, k, n - 1, no)
    BY <1>7, <1>8, Updates
  <2>2. t.pc + 1 = k /\ t.exit = no
    BY <2>1, Fields
  <2>3. (t.exit \/ code[t.pc + 1].type = "EXIT") = no
    BY <1>2, <2>2
  <2> HIDE DEF s
  <2>4. Turned(code, s) = GoOn(t, k, no)
    BY <1>3, <2>2, <2>3
  <2>5. Turned(code, s) = At(k, lj, j, k, n - 1, no)
    BY <2>1, <2>4, Updates
  <2>6. lr # k => NUM_GRF > 1 /\ n - 1 = NUM_GRF - 2
    BY <1>0, <1>8, GrfAssumption
  <2>7. lr = k => x > 0 /\ n - 1 = x - 1
    BY <1>0, <1>8
  <2> QED
    BY <2>5, <2>6, <2>7 DEF s, Repeating
<1>9. CASE ~(n > 0)
  <2>0. t = SetRepeat(a, -1)
    BY <1>7, <1>9
  <2>1. t = At(k, lj, j, -1, n, no)
    <3>1. PICK unset : unset = -1
      OBVIOUS
    <3>2. SetRepeat(At(k, lj, j, k, n, no), unset) = At(k, lj, j, unset, n, no)
      BY Unset
    <3> QED
      BY <2>0, <3>1, <3>2
  <2>2. t.pc + 1 = k + 1 /\ t.exit = FALSE
    BY <2>1, Fields
  <2> HIDE DEF s
  <2>3. (t.exit \/ code[t.pc + 1].type = "EXIT") = Ends(code, k + 1)
    BY <2>2 DEF Ends
  <2>4. Turned(code, s) = GoOn(t, k + 1, Ends(code, k + 1))
    BY <1>3, <2>2, <2>3
  <2> DEFINE done == Ends(code, k + 1)
  <2> HIDE DEF done
  <2>5. Turned(code, s) = At(k + 1, lj, j, -1, n, done)
    BY <2>1, <2>4, Updates DEF done
  <2>6. lr # k => ~(NUM_GRF > 1) /\ n = 0
    BY <1>0, <1>9, GrfAssumption
  <2>7. lr = k => ~(x > 0) /\ n = x
    BY <1>0, <1>9
  <2> QED
    BY <2>5, <2>6, <2>7 DEF s, done, Repeating
<1> QED
  BY <1>8, <1>9

(* The sequencer behind m of the NUM_GRF executions of the k-th word.      *)
Paced(code, k, lj, j, m) ==
  IF m < NUM_GRF THEN At(k, lj, j, k, NUM_GRF - 1 - m, FALSE)
                 ELSE At(k + 1, lj, j, -1, 0, Ends(code, k + 1))

(* Its first execution arms the counter, ...                                 *)
LEMMA PacedFirst ==
  ASSUME NEW code, NEW k \in Nat, NEW lj, NEW j, NEW lr \in Int, NEW x \in Int,
         RepeatsItself(code[k]), lr # k
  PROVE  Turned(code, At(k, lj, j, lr, x, FALSE)) = Paced(code, k, lj, j, 1)
<1>1. PICK no : no = FALSE
  OBVIOUS
<1>2. Repeating(code, k, lj, j, lr, x, no)
  BY <1>1, TurnedRepeating
<1>3. NUM_GRF - 1 - 1 = NUM_GRF - 2 /\ (1 < NUM_GRF <=> NUM_GRF > 1)
  BY GrfAssumption
<1> QED
  BY <1>1, <1>2, <1>3 DEF Paced, Repeating

(* ... each of the others counts down, and the last goes on.                 *)
LEMMA PacedAgain ==
  ASSUME NEW code, NEW k \in Nat, NEW lj, NEW j, NEW m \in 1 .. NUM_GRF - 1,
         RepeatsItself(code[k])
  PROVE  Turned(code, Paced(code, k, lj, j, m)) = Paced(code, k, lj, j, m + 1)
<1>1. PICK no : no = FALSE
  OBVIOUS
<1>2. PICK x \in Nat : x = NUM_GRF - 1 - m
  BY GrfAssumption
<1>0. k \in Int /\ x \in Int
  OBVIOUS
<1>3. Repeating(code, k, lj, j, k, x, no)
  BY <1>0, <1>1, TurnedRepeating
<1>4. Paced(code, k, lj, j, m) = At(k, lj, j, k, x, no)
  <2>1. m < NUM_GRF
    BY GrfAssumption
  <2> QED
    BY <1>1, <1>2, <2>1 DEF Paced
<1>5. /\ x > 0 <=> m + 1 < NUM_GRF
      /\ NUM_GRF - 1 - (m + 1) = x - 1
      /\ x > 0 \/ x = 0
  BY <1>2, GrfAssumption
<1> QED
  BY <1>1, <1>3, <1>4, <1>5 DEF Paced, Repeating

(* A rank whose program runs, and one whose program has been stopped.      *)
Running(code, z, q) ==
  [ mode |-> "HAB_PIM", crf |-> code,
    control |-> [op |-> TRUE, toggle |-> 0, zero |-> z], pim |-> q ]

Paused(code, q) == [mode |-> "HAB", crf |-> code, control |-> StoppedWord, pim |-> q]

IsCode(code) == DOMAIN code = 0 .. CRF_WORDS - 1

InRange(q) == q.pc \in 0 .. CRF_WORDS - 1 /\ q.exit \in BOOLEAN

(* A program that runs is a good state, ...                                  *)
LEMMA RunningGood ==
  ASSUME NEW code, NEW z, NEW q, IsCode(code), InRange(q)
  PROVE  GoodState(Running(code, z, q))
<1> DEFINE s == Running(code, z, q)
<1>1. s = [mode |-> s.mode, crf |-> s.crf, control |-> s.control, pim |-> s.pim]
  BY DEF Running
<1>2. s.mode \in {"SB", "HAB", "HAB_PIM"} /\ DOMAIN s.crf = 0 .. CRF_WORDS - 1 /\ s.control.toggle \in 0 .. 7
  BY DEF IsCode, Running
<1>3. s.pim.pc \in 0 .. CRF_WORDS - 1 /\ s.pim.exit \in BOOLEAN
  BY DEF InRange, Running
<1>4. s.control.op = TRUE /\ s.mode = "HAB_PIM"
  BY DEF Running
<1> HIDE DEF s
<1>5. s.control.op \in BOOLEAN /\ (s.mode = "HAB_PIM" <=> s.control.op)
  BY <1>4
<1>6. GoodState(s)
  BY <1>1, <1>2, <1>3, <1>5, Zenon DEF GoodState
<1> QED
  BY <1>6 DEF s

(* ... and one that was stopped is at rest.                                  *)
LEMMA PausedResting ==
  ASSUME NEW code, NEW q, IsCode(code), InRange(q)
  PROVE  Resting(Paused(code, q))
<1> DEFINE s == Paused(code, q)
<1>1. s = [mode |-> s.mode, crf |-> s.crf, control |-> s.control, pim |-> s.pim]
  BY DEF Paused
<1>2. /\ s.mode = "HAB" /\ s.crf = code /\ s.control = StoppedWord /\ s.pim = q
      /\ s.control.toggle = 0 /\ s.control.op = FALSE
  BY DEF Paused, StoppedWord
<1> HIDE DEF s
<1>3. s.mode \in {"SB", "HAB", "HAB_PIM"} /\ DOMAIN s.crf = 0 .. CRF_WORDS - 1 /\ s.control.toggle \in 0 .. 7
  BY <1>2 DEF IsCode
<1>4. s.pim.pc \in 0 .. CRF_WORDS - 1 /\ s.pim.exit \in BOOLEAN
  BY <1>2 DEF InRange
<1>5. s.control.op \in BOOLEAN /\ (s.mode = "HAB_PIM" <=> s.control.op)
  BY <1>2
<1>6. GoodState(s)
  BY <1>1, <1>3, <1>4, <1>5, Zenon DEF GoodState
<1> QED
  BY <1>2, <1>6 DEF s, Resting

(* An access to a cell executes an instruction.                            *)
LEMMA Stepping ==
  ASSUME NEW code, NEW z, NEW q, NEW c, ~q.exit, ~IsReservedRA(c.row)
  PROVE  /\ StepsIn(Running(code, z, q), c)
         /\ ExecutedIn(Running(code, z, q)) = code[TurnsOf(code, q).pc]
         /\ After(Running(code, z, q), c) = Running(code, z, Turned(code, TurnsOf(code, q)))
<1> DEFINE s == Running(code, z, q)
<1>1. s.mode = "HAB_PIM" /\ s.crf = code /\ s.control.op = TRUE /\ s.control.toggle = 0 /\ s.pim = q
  BY DEF Running
<1>0. PICK v : v = Turned(code, TurnsOf(code, q))
  OBVIOUS
<1>2. [s EXCEPT !.pim = v] = Running(code, z, v)
  <2> DEFINE word == [op |-> TRUE, toggle |-> 0, zero |-> z]
             t == [mode |-> "HAB_PIM", crf |-> code, control |-> word, pim |-> q]
  <2> HIDE DEF word
  <2>1. [t EXCEPT !.pim = v] = [mode |-> "HAB_PIM", crf |-> code, control |-> word, pim |-> v]
    OBVIOUS
  <2>2. s = t
    BY DEF Running, word
  <2>3. Running(code, z, v) = [mode |-> "HAB_PIM", crf |-> code, control |-> word, pim |-> v]
    BY DEF Running, word
  <2> HIDE DEF s, t
  <2> QED
    BY <2>1, <2>2, <2>3 DEF t
<1> HIDE DEF s
<1>3. StepsIn(s, c)
  <2>1. 0 % 2 = 0 /\ (0 \div 2) % 2 = 0
    OBVIOUS
  <2>2. s.control.op /\ ~s.pim.exit
    BY <1>1
  <2> QED
    BY <1>1, <2>1, <2>2 DEF StepsIn
<1>4. TurnsIn(s) = TurnsOf(code, q)
  BY <1>1, Zenon DEF TurnsIn, TurnsOf
<1>5. ExecutedIn(s) = code[TurnsOf(code, q).pc]
  BY <1>1, <1>4, Zenon DEF ExecutedIn
<1>6. After(s, c) = [s EXCEPT !.pim = v]
  BY <1>0, <1>1, <1>3, <1>4 DEF After
<1> QED
  BY <1>0, <1>2, <1>3, <1>5, <1>6 DEF s

(* The instruction gets the side of the bank that was addressed.           *)
SideFits(cmd, bank) ==
  /\ "EVEN_BANK" \in {cmd.src0, cmd.src1} => bank % 2 = 0
  /\ "ODD_BANK" \in {cmd.src0, cmd.src1} => bank % 2 = 1

(* Such an access does what it was meant to, if the word fits it.            *)
LEMMA Stepped ==
  ASSUME NEW code, NEW z, NEW q, NEW b, NEW full, NEW type, NEW r, NEW bank, NEW row, NEW col,
         NEW step, ~q.exit, ~IsReservedRA(row + col \div NUM_COLS_PER_BL),
         step = code[TurnsOf(code, q).pc].type, SideFits(code[TurnsOf(code, q).pc], bank)
  PROVE  Does(b, full, Call(type, r, bank, row, col, Executing(step)), Running(code, z, q),
              Running(code, z, Turned(code, TurnsOf(code, q))))
<1> DEFINE e == Call(type, r, bank, row, col, Executing(step))
           c == CommandWith(b, e)
           s == Running(code, z, q)
           x == code[TurnsOf(code, q).pc]
<1>1. CallIs(e, c, type, r, bank, row, col, Executing(step), b)
  BY CallFields
<1>2. Executing(step).modes = {"HAB_PIM"} /\ Executing(step).step = step
  BY DEF Executing
<1>3. s.mode = "HAB_PIM"
  BY DEF Running
<1> HIDE DEF e, c, s, x
<1>4. e.modes = {"HAB_PIM"} /\ e.step = step /\ c.bank = bank /\ c.row = row + col \div NUM_COLS_PER_BL
  BY <1>1, <1>2, Zenon DEF CallIs
<1>5. /\ StepsIn(s, c) /\ ExecutedIn(s) = x
      /\ After(s, c) = Running(code, z, Turned(code, TurnsOf(code, q)))
  <2>1. ~IsReservedRA(c.row)
    BY <1>4
  <2> QED
    BY <2>1, Stepping DEF s, x
<1>6. IntendedIn(s, c, e)
  <2>1. s.mode \in e.modes
    BY <1>3, <1>4
  <2>2. ExecutedIn(s).type = e.step
    BY <1>4, <1>5 DEF x
  <2>3. SideFits(x, bank)
    BY DEF x
  <2> QED
    BY <1>4, <1>5, <2>1, <2>2, <2>3, Zenon DEF IntendedIn, SideFits
<1>7. UsedUpIn(s, c)
  BY <1>5 DEF UsedUpIn, WritesRegisterIn
<1> QED
  BY <1>5, <1>6, <1>7, Zenon DEF Does, e, c, s

(* Without a jump there is nothing to skip.                                  *)
LEMMA NoJump ==
  ASSUME NEW code, NEW q, code[q.pc].type # "JUMP"
  PROVE  TurnsOf(code, q) = q
<1>1. PastJump(code, q) = q
  BY DEF PastJump
<1> QED
  BY <1>1, Zenon DEF TurnsOf

(* The accesses of one instruction that repeats itself.                    *)
LEMMA LeadsGroup ==
  ASSUME NEW code, NEW z, NEW q, NEW b, NEW full, NEW type, NEW r \in Driven,
         NEW bank, NEW row, NEW col \in Int, NEW step,
         NEW k \in 0 .. CRF_WORDS - 2, NEW lj, NEW j, NEW lr \in Int, NEW x \in Int,
         IsCode(code), q.pc \in 0 .. CRF_WORDS - 1, q.exit = FALSE,
         TurnsOf(code, q) = At(k, lj, j, lr, x, FALSE), lr # k,
         RepeatsItself(code[k]), step = code[k].type, SideFits(code[k], bank),
         InCells(row, col)
  PROVE  Leads(r, AddTransactionAll(type, bank, row, col, Executing(step), TRUE, NUM_GRF),
               b, full, Running(code, z, q),
               Running(code, z, At(k + 1, lj, j, -1, 0, Ends(code, k + 1))))
<1> DEFINE at(m) == IF m = 0 THEN q ELSE Paced(code, k, lj, j, m)
           path == [m \in 0 .. NUM_GRF |-> Running(code, z, at(m))]
           N == NUM_GRF
<1>1. N \in Nat /\ N > 0
  BY GrfAssumption
<1>2. k \in Nat /\ k \in 0 .. CRF_WORDS - 1 /\ k + 1 \in 0 .. CRF_WORDS - 1
  BY DEF CRF_WORDS
<1>3. \A m \in 1 .. N - 1 : Paced(code, k, lj, j, m).pc = k /\ Paced(code, k, lj, j, m).exit = FALSE
  <2> TAKE m \in 1 .. N - 1
  <2>1. m < NUM_GRF
    BY <1>1
  <2>2. Paced(code, k, lj, j, m) = At(k, lj, j, k, NUM_GRF - 1 - m, FALSE)
    BY <2>1 DEF Paced
  <2> QED
    BY <2>2 DEF At
<1>4. Paced(code, k, lj, j, N) = At(k + 1, lj, j, -1, 0, Ends(code, k + 1))
  <2>1. ~(N < NUM_GRF)
    BY <1>1
  <2> QED
    BY <2>1, Zenon DEF Paced
<1>5. InRange(At(k + 1, lj, j, -1, 0, Ends(code, k + 1)))
  <2> DEFINE ends == Ends(code, k + 1)
  <2>1. ends \in BOOLEAN
    BY DEF Ends
  <2> HIDE DEF ends
  <2>2. At(k + 1, lj, j, -1, 0, ends).pc = k + 1 /\ At(k + 1, lj, j, -1, 0, ends).exit = ends
    BY DEF At
  <2> QED
    BY <1>2, <2>1, <2>2 DEF InRange, ends
<1>6. \A m \in 0 .. N : GoodState(path[m])
  <2> TAKE m \in 0 .. N
  <2>1. CASE m = 0
    <3>1. InRange(q)
      BY DEF InRange
    <3> QED
      BY <2>1, <3>1, RunningGood
  <2>2. CASE m \in 1 .. N - 1
    <3>1. InRange(Paced(code, k, lj, j, m))
      BY <1>2, <1>3, <2>2 DEF InRange
    <3>2. path[m] = Running(code, z, Paced(code, k, lj, j, m))
      BY <2>2
    <3> QED
      BY <3>1, <3>2, RunningGood
  <2>3. CASE m = N
    <3>1. path[m] = Running(code, z, Paced(code, k, lj, j, N))
      BY <1>1, <2>3
    <3> QED
      BY <1>4, <1>5, <3>1, RunningGood
  <2> QED
    BY <1>1, <2>1, <2>2, <2>3
<1>7. \A m \in 0 .. N - 1 :
        /\ ~at(m).exit /\ TurnsOf(code, at(m)).pc = k
        /\ Turned(code, TurnsOf(code, at(m))) = at(m + 1)
  <2> TAKE m \in 0 .. N - 1
  <2>0. code[k].type # "JUMP"
    BY DEF RepeatsItself
  <2>1. CASE m = 0
    <3>1. at(m) = q /\ at(m + 1) = Paced(code, k, lj, j, 1)
      BY <2>1
    <3>2. TurnsOf(code, q).pc = k
      BY DEF At
    <3>3. Turned(code, TurnsOf(code, q)) = Paced(code, k, lj, j, 1)
      BY <1>2, PacedFirst, ZenonT(30)
    <3> QED
      BY <3>1, <3>2, <3>3
  <2>2. CASE m \in 1 .. N - 1
    <3>1. at(m) = Paced(code, k, lj, j, m) /\ at(m + 1) = Paced(code, k, lj, j, m + 1)
      BY <2>2
    <3>2. at(m).pc = k /\ ~at(m).exit
      BY <1>3, <2>2, <3>1
    <3>3. Turned(code, Paced(code, k, lj, j, m)) = Paced(code, k, lj, j, m + 1)
      BY <1>2, <2>2, PacedAgain
    <3> HIDE DEF at
    <3>4. TurnsOf(code, at(m)) = at(m)
      BY <2>0, <3>2, NoJump
    <3> QED
      BY <3>1, <3>2, <3>3, <3>4
  <2> QED
    BY <1>1, <2>1, <2>2
<1>8. \A m \in 0 .. N - 1 : \A i \in 1 .. N :
        Does(b, full, Call(type, r, bank, row, col + i - 1, Executing(step)), path[m], path[m + 1])
  <2> TAKE m \in 0 .. N - 1
  <2> TAKE i \in 1 .. N
  <2>1. path[m] = Running(code, z, at(m)) /\ path[m + 1] = Running(code, z, at(m + 1))
    BY <1>1
  <2>2. ~IsReservedRA(row + (col + i - 1) \div NUM_COLS_PER_BL)
    BY DEF InCells
  <2>3. /\ ~at(m).exit /\ TurnsOf(code, at(m)).pc = k
        /\ Turned(code, TurnsOf(code, at(m))) = at(m + 1)
    BY <1>7
  <2> HIDE DEF at, path
  <2>4. step = code[TurnsOf(code, at(m)).pc].type /\ SideFits(code[TurnsOf(code, at(m)).pc], bank)
    BY <2>3
  <2>5. Does(b, full, Call(type, r, bank, row, col + i - 1, Executing(step)), Running(code, z, at(m)),
             Running(code, z, Turned(code, TurnsOf(code, at(m)))))
    BY <2>2, <2>3, <2>4, Stepped
  <2> QED
    BY <2>1, <2>3, <2>5
<1>9. path[0] = Running(code, z, q) /\ path[N] = Running(code, z, At(k + 1, lj, j, -1, 0, Ends(code, k + 1)))
  BY <1>1, <1>4
<1>10. "SB" \notin Executing(step).modes
  BY DEF Executing
<1> HIDE DEF path, at
<1>11. Leads(r, AddTransactionAll(type, bank, row, col, Executing(step), TRUE, N), b, full, path[0], path[N])
  BY <1>1, <1>6, <1>8, <1>10, LeadsAccesses
<1> QED
  BY <1>9, <1>11

(* The jump at the p-th word: how often it still has to be taken, and      *)
(* which jump that is counted of.                                          *)
Count(p, c, lj, j) == IF lj # p /\ c > 0 THEN c ELSE j

Counted(p, c, lj) == IF lj # p /\ c > 0 THEN p ELSE lj

PastTheJump(code, p, c, o, lj, j, lr, x) ==
  /\ Count(p, c, lj, j) > 0 /\ code[p - o + 1].type # "JUMP" =>
       TurnsOf(code, At(p, lj, j, lr, x, FALSE)) =
         At(p - o + 1, Counted(p, c, lj), Count(p, c, lj, j) - 1, lr, x, Ends(code, p - o + 1))
  /\ ~(Count(p, c, lj, j) > 0) /\ code[p + 1].type # "JUMP" =>
       TurnsOf(code, At(p, lj, j, lr, x, FALSE)) =
         At(p + 1, Counted(p, c, lj), Count(p, c, lj, j), lr, x, Ends(code, p + 1))

(* One jump in a row.                                                        *)
LEMMA TurnsOnce ==
  ASSUME NEW code, NEW q, NEW t, code[q.pc].type = "JUMP", t = Turned(code, q),
         code[t.pc].type # "JUMP"
  PROVE  TurnsOf(code, q) = t
<1>1. PastJump(code, q) = t /\ PastJump(code, t) = t
  BY DEF PastJump
<1> QED
  BY <1>1, Zenon DEF TurnsOf

(* A jump is taken while it counts, and then passed.                         *)
LEMMA Jumps ==
  ASSUME NEW code, NEW p \in Nat, NEW c \in Nat, NEW o \in Nat, NEW lj \in Int, NEW j \in Int,
         NEW lr, NEW x,
         code[p].type = "JUMP", code[p].loopCounter = c, code[p].loopOffset = o
  PROVE  PastTheJump(code, p, c, o, lj, j, lr, x)
<1>0. PICK no : no = FALSE
  OBVIOUS
<1> DEFINE s == At(p, lj, j, lr, x, no)
           l == Counted(p, c, lj)
           n == Count(p, c, lj, j)
           a == At(p, l, n, lr, x, no)
           t == Jumped(s, code[p])
<1>1. s.pc = p /\ s.lastJump = lj /\ s.jumps = j /\ s.exit = no
  BY Fields
<1>2. Turned(code, s) = GoOn(t, t.pc + 1, t.exit \/ code[t.pc + 1].type = "EXIT")
  BY <1>1 DEF Turned, GoOn
<1>3. n \in Int
  BY DEF Count
<1>4. (IF lj # p /\ c > 0 THEN ArmJump(s, p, c) ELSE s) = a
  <2>1. ArmJump(s, p, c) = At(p, p, c, lr, x, no)
    BY Updates
  <2> QED
    BY <2>1 DEF Count, Counted
<1> HIDE DEF l, n
<1>5. a.pc = p /\ a.jumps = n /\ a.exit = no
  BY Fields
<1>6. t = IF n > 0 THEN JumpBack(a, p - o, n - 1) ELSE a
  <2> HIDE DEF s, a
  <2> QED
    BY <1>1, <1>4, <1>5 DEF Jumped, ArmJump, JumpBack
<1> HIDE DEF t
<1>7. code[s.pc].type = "JUMP"
  BY <1>1
<1>8. ASSUME n > 0, code[p - o + 1].type # "JUMP"
      PROVE  TurnsOf(code, s) = At(p - o + 1, l, n - 1, lr, x, Ends(code, p - o + 1))
  <2>1. t = At(p - o, l, n - 1, lr, x, no)
    BY <1>6, <1>8, Updates
  <2>2. t.pc = p - o /\ t.exit = FALSE
    BY <1>0, <2>1, Fields
  <2> DEFINE ends == Ends(code, p - o + 1)
  <2>3. (t.exit \/ code[t.pc + 1].type = "EXIT") = ends
    BY <2>2 DEF Ends
  <2> HIDE DEF ends
  <2>4. Turned(code, s) = GoOn(t, p - o + 1, ends)
    BY <1>2, <2>2, <2>3
  <2>5. PICK u : u = Turned(code, s)
    OBVIOUS
  <2>6. u = At(p - o + 1, l, n - 1, lr, x, ends)
    BY <2>1, <2>4, <2>5, Updates
  <2>7. u.pc = p - o + 1
    BY <2>6, Fields
  <2> HIDE DEF s
  <2>8. TurnsOf(code, s) = u
    BY <1>7, <1>8, <2>5, <2>7, TurnsOnce
  <2> QED
    BY <2>6, <2>8 DEF ends
<1>9. ASSUME ~(n > 0), code[p + 1].type # "JUMP"
      PROVE  TurnsOf(code, s) = At(p + 1, l, n, lr, x, Ends(code, p + 1))
  <2>1. t = At(p, l, n, lr, x, no)
    BY <1>6, <1>9
  <2>2. t.pc = p /\ t.exit = FALSE
    BY <1>0, <2>1, Fields
  <2> DEFINE ends == Ends(code, p + 1)
  <2>3. (t.exit \/ code[t.pc + 1].type = "EXIT") = ends
    BY <2>2 DEF Ends
  <2> HIDE DEF ends
  <2>4. Turned(code, s) = GoOn(t, p + 1, ends)
    BY <1>2, <2>2, <2>3
  <2>5. PICK u : u = Turned(code, s)
    OBVIOUS
  <2>6. u = At(p + 1, l, n, lr, x, ends)
    BY <2>1, <2>4, <2>5, Updates
  <2>7. u.pc = p + 1
    BY <2>6, Fields
  <2> HIDE DEF s
  <2>8. TurnsOf(code, s) = u
    BY <1>7, <1>9, <2>5, <2>7, TurnsOnce
  <2> QED
    BY <2>6, <2>8 DEF ends
<1>10. s = At(p, lj, j, lr, x, FALSE)
  BY <1>0
<1> HIDE DEF s
<1> QED
  BY <1>8, <1>9, <1>10, Zenon DEF PastTheJump, l, n

(* The next access executes the k-th word.                                 *)
Ready(code, q, k, lj, j) ==
  /\ q.pc \in 0 .. CRF_WORDS - 1 /\ q.exit = FALSE
  /\ \E x \in Int : TurnsOf(code, q) = At(k, lj, j, -1, x, FALSE)

(* The sequencer behind the k-th word.                                     *)
Next(code, k, lj, j) == At(k + 1, lj, j, -1, 0, Ends(code, k + 1))

(* The accesses of the word that comes next.                                 *)
LEMMA LeadsReady ==
  ASSUME NEW code, NEW z, NEW q, NEW b, NEW full, NEW type, NEW r \in Driven,
         NEW bank, NEW row, NEW col \in Int, NEW step,
         NEW k \in 0 .. CRF_WORDS - 2, NEW lj, NEW j,
         IsCode(code), Ready(code, q, k, lj, j),
         RepeatsItself(code[k]), step = code[k].type, SideFits(code[k], bank),
         InCells(row, col)
  PROVE  Leads(r, AddTransactionAll(type, bank, row, col, Executing(step), TRUE, NUM_GRF),
               b, full, Running(code, z, q), Running(code, z, Next(code, k, lj, j)))
<1>1. PICK x \in Int : TurnsOf(code, q) = At(k, lj, j, -1, x, FALSE)
  BY DEF Ready
<1>2. q.pc \in 0 .. CRF_WORDS - 1 /\ q.exit = FALSE /\ -1 \in Int /\ -1 # k
  BY DEF Ready, CRF_WORDS
<1>3. Leads(r, AddTransactionAll(type, bank, row, col, Executing(step), TRUE, NUM_GRF),
            b, full, Running(code, z, q),
            Running(code, z, At(k + 1, lj, j, -1, 0, Ends(code, k + 1))))
  BY <1>1, <1>2, LeadsGroup
<1> QED
  BY <1>3 DEF Next

(* A program starts with its first word.                                     *)
LEMMA ReadyStart ==
  ASSUME NEW code, code[0].type # "JUMP"
  PROVE  /\ Ready(code, ProgramStart, 0, -1, -1)
         /\ InRange(ProgramStart)
<1>1. ProgramStart = At(0, -1, -1, -1, -1, FALSE)
  BY DEF ProgramStart, At
<1>2. ProgramStart.pc = 0 /\ ProgramStart.exit = FALSE
  BY DEF ProgramStart
<1>3. TurnsOf(code, ProgramStart) = ProgramStart
  BY <1>2, NoJump
<1>4. 0 \in 0 .. CRF_WORDS - 1 /\ -1 \in Int
  BY DEF CRF_WORDS
<1> QED
  BY <1>1, <1>2, <1>3, <1>4 DEF Ready, InRange

NextIs(code, k, lj, j) ==
  /\ Next(code, k, lj, j).pc = k + 1
  /\ InRange(Next(code, k, lj, j))
  /\ code[k + 1].type = "EXIT" => Next(code, k, lj, j).exit = TRUE
  /\ code[k + 1].type # "EXIT" =>
       /\ Next(code, k, lj, j) = At(k + 1, lj, j, -1, 0, FALSE)
       /\ Next(code, k, lj, j).exit = FALSE

(* The sequencer behind a word: it ends there if an EXIT follows.            *)
LEMMA NextParts ==
  ASSUME NEW code, NEW k \in 0 .. CRF_WORDS - 2, NEW lj, NEW j
  PROVE  NextIs(code, k, lj, j)
<1> DEFINE ends == Ends(code, k + 1)
<1>1. ends \in BOOLEAN
  BY DEF Ends
<1> HIDE DEF ends
<1>2. At(k + 1, lj, j, -1, 0, ends).pc = k + 1 /\ At(k + 1, lj, j, -1, 0, ends).exit = ends
  BY DEF At
<1>3. Next(code, k, lj, j) = At(k + 1, lj, j, -1, 0, ends)
  BY DEF Next, ends
<1>4. k + 1 \in 0 .. CRF_WORDS - 1
  BY DEF CRF_WORDS
<1>5. (code[k + 1].type = "EXIT" => ends = TRUE) /\ (code[k + 1].type # "EXIT" => ends = FALSE)
  BY DEF ends, Ends
<1>6. InRange(Next(code, k, lj, j))
  BY <1>1, <1>2, <1>3, <1>4 DEF InRange
<1> HIDE DEF ends
<1> QED
  BY <1>2, <1>3, <1>5, <1>6 DEF NextIs

(* The word behind it comes next, ...                                        *)
LEMMA ReadyNext ==
  ASSUME NEW code, NEW k \in 0 .. CRF_WORDS - 2, NEW lj, NEW j,
         code[k + 1].type \notin {"JUMP", "EXIT"}
  PROVE  Ready(code, Next(code, k, lj, j), k + 1, lj, j)
<1> DEFINE q == Next(code, k, lj, j)
<1>1. NextIs(code, k, lj, j)
  BY NextParts
<1>2. q = At(k + 1, lj, j, -1, 0, FALSE) /\ q.pc = k + 1
  BY <1>1, Zenon DEF NextIs
<1>3. q.exit = FALSE
  BY <1>1, Zenon DEF NextIs
<1> HIDE DEF q
<1>4. TurnsOf(code, q) = q
  BY <1>2, NoJump
<1>5. k + 1 \in 0 .. CRF_WORDS - 1 /\ 0 \in Int
  BY DEF CRF_WORDS
<1>6. Ready(code, q, k + 1, lj, j)
  BY <1>2, <1>3, <1>4, <1>5 DEF Ready
<1> QED
  BY <1>6 DEF q

(* ... or the one that a jump goes back to, ...                              *)
LEMMA ReadyTaken ==
  ASSUME NEW code, NEW k \in 0 .. CRF_WORDS - 2, NEW lj \in Int, NEW j \in Int,
         NEW c \in Nat, NEW o \in Nat, NEW t, NEW nl, NEW nj,
         code[k + 1].type = "JUMP", code[k + 1].loopCounter = c, code[k + 1].loopOffset = o,
         Count(k + 1, c, lj, j) > 0, t = (k + 1) - o + 1, code[t].type \notin {"JUMP", "EXIT"},
         nl = Counted(k + 1, c, lj), nj = Count(k + 1, c, lj, j) - 1
  PROVE  Ready(code, Next(code, k, lj, j), t, nl, nj)
<1> DEFINE q == Next(code, k, lj, j)
           p == k + 1
<1>1. NextIs(code, k, lj, j) /\ code[k + 1].type # "EXIT"
  BY NextParts
<1>2. q = At(p, lj, j, -1, 0, FALSE) /\ q.pc = p
  BY <1>1, Zenon DEF NextIs
<1>3. q.exit = FALSE
  BY <1>1, Zenon DEF NextIs
<1>4. p \in Nat /\ p \in 0 .. CRF_WORDS - 1 /\ 0 \in Int
  BY DEF CRF_WORDS
<1> HIDE DEF q, p
<1>5. /\ code[p].type = "JUMP" /\ code[p].loopCounter = c /\ code[p].loopOffset = o
      /\ Count(p, c, lj, j) > 0 /\ t = p - o + 1
      /\ nl = Counted(p, c, lj) /\ nj = Count(p, c, lj, j) - 1
  BY DEF p
<1>6. PastTheJump(code, p, c, o, lj, j, -1, 0)
  BY <1>4, <1>5, Jumps
<1>7. TurnsOf(code, q) = At(t, nl, nj, -1, 0, Ends(code, t))
  BY <1>2, <1>5, <1>6 DEF PastTheJump
<1>8. Ends(code, t) = FALSE
  BY DEF Ends
<1>9. Ready(code, q, t, nl, nj)
  BY <1>2, <1>3, <1>4, <1>7, <1>8 DEF Ready
<1> QED
  BY <1>9 DEF q

(* ... or the one behind a jump that is passed.                              *)
LEMMA ReadyPassed ==
  ASSUME NEW code, NEW k \in 0 .. CRF_WORDS - 2, NEW lj \in Int, NEW j \in Int,
         NEW c \in Nat, NEW o \in Nat,
         code[k + 1].type = "JUMP", code[k + 1].loopCounter = c, code[k + 1].loopOffset = o,
         lj = k + 1 \/ c = 0, j = 0 \/ j < 0, code[k + 2].type # "JUMP"
  PROVE  /\ TurnsOf(code, Next(code, k, lj, j)) = At(k + 2, lj, j, -1, 0, Ends(code, k + 2))
         /\ code[k + 2].type # "EXIT" => Ready(code, Next(code, k, lj, j), k + 2, lj, j)
<1> DEFINE q == Next(code, k, lj, j)
           p == k + 1
<1>1. NextIs(code, k, lj, j) /\ code[k + 1].type # "EXIT"
  BY NextParts
<1>2. q = At(p, lj, j, -1, 0, FALSE) /\ q.pc = p
  BY <1>1, Zenon DEF NextIs
<1>3. q.exit = FALSE
  BY <1>1, Zenon DEF NextIs
<1>4. p \in Nat /\ p \in 0 .. CRF_WORDS - 1 /\ 0 \in Int /\ p + 1 = k + 2
  BY DEF CRF_WORDS
<1> HIDE DEF q
<1>5. /\ code[p].type = "JUMP" /\ code[p].loopCounter = c /\ code[p].loopOffset = o
      /\ ~(Count(p, c, lj, j) > 0) /\ Count(p, c, lj, j) = j /\ Counted(p, c, lj) = lj
  BY DEF Count, Counted
<1> HIDE DEF p
<1>6. PastTheJump(code, p, c, o, lj, j, -1, 0)
  BY <1>4, <1>5, Jumps
<1>7. TurnsOf(code, q) = At(k + 2, lj, j, -1, 0, Ends(code, k + 2))
  BY <1>2, <1>4, <1>5, <1>6 DEF PastTheJump
<1>8. code[k + 2].type # "EXIT" => Ready(code, q, k + 2, lj, j)
  <2> SUFFICES ASSUME code[k + 2].type # "EXIT" PROVE Ready(code, q, k + 2, lj, j)
    OBVIOUS
  <2>1. Ends(code, k + 2) = FALSE
    BY DEF Ends
  <2> QED
    BY <1>2, <1>3, <1>4, <1>7, <2>1 DEF Ready
<1> QED
  BY <1>7, <1>8 DEF q

(* The row of the registers, and its first column.                           *)
LEMMA RegisterRow ==
  /\ IsReservedRA(PIM_REG_RA) /\ PIM_REG_RA + 0 \div NUM_COLS_PER_BL = PIM_REG_RA
  /\ 0 % NUM_COLS_PER_BL = 0
<1>1. 2 ^ 13 = 8192
  OBVIOUS
<1>2. (16383 \div 8192) % 2 = 1
  OBVIOUS
<1>3. 0 \div NUM_COLS_PER_BL = 0 /\ 0 % NUM_COLS_PER_BL = 0
  BY LayoutAssumption
<1> QED
  BY <1>1, <1>2, <1>3 DEF IsReservedRA, PIM_REG_RA

(* What the register row is written with is there when it is written.      *)
Carries == \A id : WriteData(id) = Carried(id)

ControlCall(p, m, r) == Call("DATA_WRITE", r, 0, PIM_REG_RA, 0, Carrying(p, m))

ControlIs(e, c, p, m, b) ==
  /\ e.modes = {m} /\ e.step = "NONE" /\ c.type = "WRITE" /\ c.bank = 0
  /\ c.row = PIM_REG_RA /\ c.col = 0 /\ WriteData(c.trans.id) = Contents(b, p)

(* The write of a control word.                                              *)
LEMMA ControlFields ==
  ASSUME NEW p, NEW m, NEW r, NEW b, Carries
  PROVE  ControlIs(ControlCall(p, m, r), CommandWith(b, ControlCall(p, m, r)), p, m, b)
<1> DEFINE e == ControlCall(p, m, r)
           c == CommandWith(b, e)
<1>1. CallIs(e, c, "DATA_WRITE", r, 0, PIM_REG_RA, 0, Carrying(p, m), b)
  BY CallFields DEF ControlCall
<1>2. Carrying(p, m).modes = {m} /\ Carrying(p, m).step = "NONE" /\ Carrying(p, m).data = p
  BY DEF Carrying
<1>3. \A id : WriteData(id) = id
  BY DEF Carries, Carried
<1> HIDE DEF e, c
<1>4. /\ e.modes = {m} /\ e.step = "NONE" /\ c.type = "WRITE" /\ c.bank = 0
      /\ c.row = PIM_REG_RA /\ c.col = 0 /\ c.trans.id = Contents(b, p)
  BY <1>1, <1>2, RegisterRow DEF CallIs
<1>5. WriteData(c.trans.id) = Contents(b, p)
  BY <1>3, <1>4
<1> QED
  BY <1>4, <1>5, Zenon DEF e, c, ControlIs

(* A rank that takes a control word.                                         *)
LEMMA ControlledBy ==
  ASSUME NEW s, NEW word, NEW q,
         s = [mode |-> s.mode, crf |-> s.crf, control |-> s.control, pim |-> s.pim],
         q = Restarted(s.pim, word)
  PROVE  Controlled(s, word) =
           [mode |-> ModeAfter(word), crf |-> s.crf, control |-> word, pim |-> q]
<1> DEFINE m == ModeAfter(word)
<1>1. Controlled(s, word) = [s EXCEPT !.mode = m, !.control = word, !.pim = q]
  BY DEF Controlled
<1> HIDE DEF m
<1>2. [s EXCEPT !.mode = m, !.control = word, !.pim = q] =
        [[[s EXCEPT !.mode = m] EXCEPT !.control = word] EXCEPT !.pim = q]
  OBVIOUS
<1>3. [s EXCEPT !.mode = m] = [mode |-> m, crf |-> s.crf, control |-> s.control, pim |-> s.pim]
  OBVIOUS
<1>4. [[mode |-> m, crf |-> s.crf, control |-> s.control, pim |-> s.pim] EXCEPT !.control = word]
      = [mode |-> m, crf |-> s.crf, control |-> word, pim |-> s.pim]
  OBVIOUS
<1>5. [[mode |-> m, crf |-> s.crf, control |-> word, pim |-> s.pim] EXCEPT !.pim = q]
      = [mode |-> m, crf |-> s.crf, control |-> word, pim |-> q]
  OBVIOUS
<1> QED
  BY <1>1, <1>2, <1>3, <1>4, <1>5 DEF m

(* One access of every rank.                                               *)
LEMMA LeadsOnce ==
  ASSUME NEW type, NEW bank, NEW row, NEW col \in Int, NEW note, NEW r \in Driven,
         NEW b, NEW full, NEW d, NEW e, "SB" \notin note.modes, GoodState(d), GoodState(e),
         Does(b, full, Call(type, r, bank, row, col, note), d, e)
  PROVE  Leads(r, AddTransactionAll(type, bank, row, col, note, TRUE, 1), b, full, d, e)
<1> DEFINE path == [m \in 0 .. 1 |-> IF m = 0 THEN d ELSE e]
<1>1. path[0] = d /\ path[1] = e
  OBVIOUS
<1> HIDE DEF path
<1>2. \A m \in 0 .. 1 : GoodState(path[m])
  BY <1>1
<1>3. \A m \in 0 .. 1 - 1 : \A k \in 1 .. 1 :
        Does(b, full, Call(type, r, bank, row, col + k - 1, note), path[m], path[m + 1])
  <2> TAKE m \in 0 .. 1 - 1
  <2> TAKE k \in 1 .. 1
  <2>1. m = 0 /\ k = 1 /\ col + k - 1 = col /\ m + 1 = 1
    OBVIOUS
  <2> QED
    BY <1>1, <2>1
<1>4. Leads(r, AddTransactionAll(type, bank, row, col, note, TRUE, 1), b, full, path[0], path[1])
  BY <1>2, <1>3, LeadsAccesses
<1> QED
  BY <1>1, <1>4

(* Starting the program: the sequencer is reset (changePIMMode HAB to        *)
(* HAB_PIM).                                                                 *)
LEMMA LeadsStart ==
  ASSUME NEW r \in Driven, NEW b, NEW full, NEW d, NEW code, NEW z, Carries,
         Resting(d), d.crf = code, b.started = [op |-> TRUE, toggle |-> 0, zero |-> z]
  PROVE  Leads(r, ChangePIMMode("HAB", "HAB_PIM"), b, full, d, Running(code, z, ProgramStart))
<1> DEFINE p == << "bst_hab_pim_" >>
           e == ControlCall(p, "HAB", r)
           c == CommandWith(b, e)
           word == [op |-> TRUE, toggle |-> 0, zero |-> z]
           f == Running(code, z, ProgramStart)
<1>1. ControlIs(e, c, p, "HAB", b)
  BY ControlFields
<1>2. Contents(b, p) = word
  BY DEF Contents
<1>3. ModeAfter(word) = "HAB_PIM" /\ Restarted(d.pim, word) = ProgramStart
  BY DEF ModeAfter, Restarted
<1>4. f = [mode |-> "HAB_PIM", crf |-> code, control |-> word, pim |-> ProgramStart]
  BY DEF Running
<1>5. GoodState(f)
  <2>1. InRange(ProgramStart) /\ IsCode(code)
    BY DEF ProgramStart, InRange, CRF_WORDS, IsCode, Resting, GoodState
  <2> QED
    BY <2>1, RunningGood
<1>6. ChangePIMMode("HAB", "HAB_PIM") =
        AddTransactionAll("DATA_WRITE", 0, PIM_REG_RA, 0, Carrying(p, "HAB"), TRUE, 1)
  BY DEF ChangePIMMode
<1>7. d.mode = "HAB" /\ GoodState(d) /\ d = [mode |-> d.mode, crf |-> d.crf, control |-> d.control, pim |-> d.pim]
  BY DEF Resting, GoodState
<1> HIDE DEF e, c, f, word
<1>8. ~StepsIn(d, c) /\ WritesRegisterIn(d, c) /\ c.col = 0 /\ WriteData(c.trans.id) = word
  BY <1>1, <1>2, <1>7 DEF StepsIn, WritesRegisterIn, ControlIs
<1>9. After(d, c) = f
  <2>1. After(d, c) = Controlled(d, word)
    BY <1>8, Zenon DEF After
  <2>2. Controlled(d, word) = [mode |-> ModeAfter(word), crf |-> d.crf, control |-> word, pim |-> ProgramStart]
    BY <1>3, <1>7, ControlledBy
  <2> QED
    BY <1>3, <1>4, <2>1, <2>2
<1>10. Does(b, full, e, d, f)
  <2>1. IntendedIn(d, c, e)
    BY <1>1, <1>7, <1>8 DEF IntendedIn, ControlIs
  <2>2. UsedUpIn(d, c)
    BY <1>7 DEF UsedUpIn
  <2> QED
    BY <1>9, <2>1, <2>2, Zenon DEF Does, c
<1>11. "SB" \notin Carrying(p, "HAB").modes
  BY DEF Carrying
<1>12. Does(b, full, Call("DATA_WRITE", r, 0, PIM_REG_RA, 0, Carrying(p, "HAB")), d, f)
  BY <1>10 DEF e, ControlCall
<1> HIDE DEF p
<1>13. Leads(r, AddTransactionAll("DATA_WRITE", 0, PIM_REG_RA, 0, Carrying(p, "HAB"), TRUE, 1), b, full, d, f)
  <2>1. PICK zero \in Int : zero = 0
    OBVIOUS
  <2>2. PICK note : note = Carrying(p, "HAB")
    OBVIOUS
  <2>3. PICK type : type = "DATA_WRITE"
    OBVIOUS
  <2>4. Leads(r, AddTransactionAll(type, zero, PIM_REG_RA, zero, note, TRUE, 1), b, full, d, f)
    <3>1. Does(b, full, Call(type, r, zero, PIM_REG_RA, zero, note), d, f)
      BY <2>1, <2>2, <2>3, <1>12
    <3>2. "SB" \notin note.modes
      BY <2>2, <1>11
    <3> QED
      BY <3>1, <3>2, <1>5, <1>7, LeadsOnce
  <2> QED
    BY <2>1, <2>2, <2>3, <2>4
<1> QED
  BY <1>6, <1>13 DEF f, p

(* Stopping it: the mode goes back to HAB, and the next access would have    *)
(* found the EXIT.                                                           *)
LEMMA LeadsStop ==
  ASSUME NEW r \in Driven, NEW b, NEW full, NEW code, NEW z, NEW q, Carries,
         IsCode(code), InRange(q), b.stopped = StoppedWord,
         full => code[TurnsOf(code, q).pc].type = "EXIT"
  PROVE  Leads(r, ChangePIMMode("HAB_PIM", "HAB"), b, full, Running(code, z, q), Paused(code, q))
<1> DEFINE p == << "bst_hab_" >>
           e == ControlCall(p, "HAB_PIM", r)
           c == CommandWith(b, e)
           d == Running(code, z, q)
           f == Paused(code, q)
<1>1. ControlIs(e, c, p, "HAB_PIM", b)
  BY ControlFields
<1>2. Contents(b, p) = StoppedWord
  BY DEF Contents
<1>3. ModeAfter(StoppedWord) = "HAB" /\ Restarted(q, StoppedWord) = q
  BY DEF ModeAfter, Restarted, StoppedWord
<1>4. f = [mode |-> "HAB", crf |-> code, control |-> StoppedWord, pim |-> q]
  BY DEF Paused
<1>5. GoodState(d) /\ GoodState(f)
  BY RunningGood, PausedResting DEF Resting
<1>6. ChangePIMMode("HAB_PIM", "HAB") =
        AddTransactionAll("DATA_WRITE", 0, PIM_REG_RA, 0, Carrying(p, "HAB_PIM"), TRUE, 1)
  BY DEF ChangePIMMode
<1>7. /\ d.mode = "HAB_PIM" /\ d.crf = code /\ d.pim = q /\ d.control.toggle = 0
      /\ d = [mode |-> d.mode, crf |-> d.crf, control |-> d.control, pim |-> d.pim]
  BY DEF Running
<1>8. TurnsIn(d) = TurnsOf(code, q) /\ ExecutedIn(d) = code[TurnsOf(code, q).pc]
  <2> HIDE DEF d
  <2>1. TurnsIn(d) = TurnsOf(code, q)
    BY <1>7, Zenon DEF TurnsIn, TurnsOf
  <2> QED
    BY <1>7, <2>1, Zenon DEF ExecutedIn
<1> HIDE DEF e, c, d, f
<1>9. ~StepsIn(d, c) /\ WritesRegisterIn(d, c) /\ c.col = 0 /\ WriteData(c.trans.id) = StoppedWord
  <2>1. c.row = PIM_REG_RA /\ c.type = "WRITE" /\ c.col = 0 /\ WriteData(c.trans.id) = StoppedWord
    BY <1>1, <1>2 DEF ControlIs
  <2>2. ~StepsIn(d, c)
    <3>1. ~((0 \div 4) % 2 = 1)
      OBVIOUS
    <3> QED
      BY <1>7, <2>1, <3>1, RegisterRow DEF StepsIn
  <2> QED
    BY <1>7, <2>1, <2>2 DEF WritesRegisterIn
<1>10. After(d, c) = f
  <2>1. After(d, c) = Controlled(d, StoppedWord)
    BY <1>9, Zenon DEF After
  <2>2. Controlled(d, StoppedWord) = [mode |-> ModeAfter(StoppedWord), crf |-> d.crf, control |-> StoppedWord, pim |-> q]
    BY <1>3, <1>7, ControlledBy
  <2> QED
    BY <1>3, <1>4, <1>7, <2>1, <2>2
<1>11. Does(b, full, e, d, f)
  <2>1. IntendedIn(d, c, e)
    BY <1>1, <1>7, <1>9 DEF IntendedIn, ControlIs
  <2>2. full => UsedUpIn(d, c)
    BY <1>8 DEF UsedUpIn
  <2> QED
    BY <1>10, <2>1, <2>2, Zenon DEF Does, c
<1>12. "SB" \notin Carrying(p, "HAB_PIM").modes
  BY DEF Carrying
<1>13. Does(b, full, Call("DATA_WRITE", r, 0, PIM_REG_RA, 0, Carrying(p, "HAB_PIM")), d, f)
  BY <1>11 DEF e, ControlCall
<1> HIDE DEF p
<1>14. Leads(r, AddTransactionAll("DATA_WRITE", 0, PIM_REG_RA, 0, Carrying(p, "HAB_PIM"), TRUE, 1), b, full, d, f)
  <2>1. PICK zero \in Int : zero = 0
    OBVIOUS
  <2>2. PICK note : note = Carrying(p, "HAB_PIM")
    OBVIOUS
  <2>3. PICK type : type = "DATA_WRITE"
    OBVIOUS
  <2>4. Leads(r, AddTransactionAll(type, zero, PIM_REG_RA, zero, note, TRUE, 1), b, full, d, f)
    <3>1. Does(b, full, Call(type, r, zero, PIM_REG_RA, zero, note), d, f)
      BY <2>1, <2>2, <2>3, <1>13
    <3>2. "SB" \notin note.modes
      BY <2>2, <1>12
    <3> QED
      BY <3>1, <3>2, <1>5, LeadsOnce
  <2> QED
    BY <2>1, <2>2, <2>3, <2>4
<1> QED
  BY <1>6, <1>14 DEF d, f, p

(* Quiet accesses and a barrier behind them.                               *)
IsQuietStage(s) == IsQuiet(s) /\ Len(s) > 0 /\ s[Len(s)] = Barrier

(* A barrier alone.                                                          *)
LEMMA QuietBarrier == IsQuietStage(<< Barrier >>)
  BY DEF IsQuietStage, IsQuiet, IsSequence

(* Nothing at all.                                                           *)
LEMMA QuietNothing == IsQuiet(<< >>)
  BY EmptySequence DEF IsQuiet

(* Quiet accesses before a quiet stage.                                      *)
LEMMA QuietStage ==
  ASSUME NEW s, NEW t, IsQuiet(s), IsQuietStage(t)
  PROVE  IsQuietStage(s \o t)
<1>1. IsSequence(s) /\ IsSequence(t) /\ IsQuiet(t) /\ Len(s) \in Nat /\ Len(t) \in Nat /\ Len(t) > 0
  BY SequenceParts DEF IsQuiet, IsQuietStage
<1>2. IsQuiet(s \o t)
  BY <1>1, QuietConcatenated
<1>3. /\ Len(s \o t) = Len(s) + Len(t)
      /\ \A i \in 1 .. Len(t) : (s \o t)[Len(s) + i] = t[i]
  BY <1>1, Concatenation
<1>4. Len(t) \in 1 .. Len(t)
  BY <1>1
<1> QED
  BY <1>1, <1>2, <1>3, <1>4 DEF IsQuietStage

(* Calls that may reach a rank in SB are quiet.                              *)
LEMMA QuietCalls ==
  ASSUME NEW n \in Nat, NEW s, IsSequence(s), Len(s) = n,
         \A k \in 1 .. n : \E type : \E r : \E bank : \E row : \E col : \E note :
           s[k] = Call(type, r, bank, row, col, note) /\ "SB" \in note.modes
  PROVE  IsQuiet(s)
<1> SUFFICES ASSUME NEW k \in 1 .. n PROVE ~InAllBankMode(s[k])
  BY DEF IsQuiet
<1>1. PICK type, r, bank, row, col, note :
        s[k] = Call(type, r, bank, row, col, note) /\ "SB" \in note.modes
  OBVIOUS
<1>2. CallIs(Call(type, r, bank, row, col, note), CommandWith(0, Call(type, r, bank, row, col, note)),
             type, r, bank, row, col, note, 0)
  BY CallFields
<1>3. s[k].modes = note.modes
  BY <1>1, <1>2 DEF CallIs
<1> QED
  BY <1>1, <1>3 DEF InAllBankMode

(* The same for those of every rank.                                         *)
LEMMA QuietAccesses ==
  ASSUME NEW type, NEW bank, NEW row, NEW col, NEW note, NEW n \in Nat, "SB" \in note.modes
  PROVE  /\ IsQuiet(AddTransactionAll(type, bank, row, col, note, FALSE, n))
         /\ IsQuietStage(AddTransactionAll(type, bank, row, col, note, TRUE, n))
<1> DEFINE s == ForEach(NUM_PIM_RANKS,
                  LAMBDA r : [i \in 1 .. n |-> Call(type, r, bank, row, col + i - 1, note)])
           f == [r \in 0 .. NUM_PIM_RANKS - 1 |->
                   [i \in 1 .. n |-> Call(type, r, bank, row, col + i - 1, note)]]
<1>1. s = Joined(NUM_PIM_RANKS, f)
  BY DEF ForEach
<1>2. NUM_PIM_RANKS \in Nat
  BY KernelAssumption, GeometryAssumption
<1>3. \A r \in 0 .. NUM_PIM_RANKS - 1 : IsQuiet(f[r])
  <2> TAKE r \in 0 .. NUM_PIM_RANKS - 1
  <2> DEFINE g == [i \in 1 .. n |-> Call(type, r, bank, row, col + i - 1, note)]
             C == [i \in 1 .. n |-> Call(type, r, bank, row, col + i - 1, note)]
  <2>1. f[r] = g
    OBVIOUS
  <2>2. \A i \in 1 .. n : g[i] = Call(type, r, bank, row, col + i - 1, note)
    OBVIOUS
  <2>3. g = [i \in 1 .. n |-> g[i]]
    OBVIOUS
  <2> HIDE DEF g, f
  <2>4. IsSequence(g) /\ Len(g) = n
    BY <2>3, ListOf
  <2>5. IsQuiet(g)
    BY <2>2, <2>4, QuietCalls
  <2> QED
    BY <2>1, <2>5
<1> HIDE DEF f
<1>4. IsQuiet(s)
  BY <1>1, <1>2, <1>3, QuietJoined
<1>5. /\ AddTransactionAll(type, bank, row, col, note, FALSE, n) = s \o << >>
      /\ AddTransactionAll(type, bank, row, col, note, TRUE, n) = s \o << Barrier >>
  BY DEF AddTransactionAll, Fenced
<1> HIDE DEF s
<1> QED
  BY <1>4, <1>5, QuietNothing, QuietBarrier, QuietConcatenated, QuietStage

(* Parking,                                                                  *)
LEMMA QuietPark == IsQuiet(Park)
<1> DEFINE c(r, b, g) == Call("DATA_READ", r, g * BanksPerGroup + b, 2 ^ 13, 0, In({"SB", "HAB"}))
           G(r, b) == [g \in 0 .. NUM_BANK_GROUPS - 1 |-> << c(r, b, g) >>]
           B(r) == [b \in 0 .. BanksPerGroup - 1 |-> Joined(NUM_BANK_GROUPS, G(r, b))]
           R == [r \in 0 .. NUM_PIM_RANKS - 1 |-> Joined(BanksPerGroup, B(r))]
<1>1. Park = Joined(NUM_PIM_RANKS, R)
  BY DEF Park, ForEach
<1>2. NUM_PIM_RANKS \in Nat /\ NUM_BANK_GROUPS \in Nat /\ BanksPerGroup \in Nat
  BY KernelAssumption, GeometryAssumption DEF BanksPerGroup
<1>3. \A r, b, g : IsQuiet(<< c(r, b, g) >>)
  <2> TAKE r, b, g
  <2>1. c(r, b, g) = Call("DATA_READ", r, g * BanksPerGroup + b, 2 ^ 13, 0, In({"SB", "HAB"}))
    OBVIOUS
  <2>2. "SB" \in In({"SB", "HAB"}).modes
    BY DEF In
  <2> HIDE DEF c
  <2>3. IsSequence(<< c(r, b, g) >>) /\ Len(<< c(r, b, g) >>) = 1 /\ << c(r, b, g) >>[1] = c(r, b, g)
    BY DEF IsSequence
  <2> DEFINE s == << c(r, b, g) >>
  <2>4. \A k \in 1 .. 1 : s[k] = c(r, b, g)
    BY <2>3
  <2>7. IsSequence(s) /\ Len(s) = 1
    BY <2>3
  <2> HIDE DEF s
  <2>5. \A k \in 1 .. 1 : \E type : \E rank : \E bank : \E row : \E col : \E note :
           s[k] = Call(type, rank, bank, row, col, note) /\ "SB" \in note.modes
    BY <2>1, <2>2, <2>4
  <2>8. \E one \in Nat : one = 1
    OBVIOUS
  <2>9. PICK one \in Nat : one = 1
    BY <2>8
  <2>10. IsSequence(s) /\ Len(s) = one
    BY <2>7, <2>9
  <2>11. \A k \in 1 .. one : \E type : \E rank : \E bank : \E row : \E col : \E note :
           s[k] = Call(type, rank, bank, row, col, note) /\ "SB" \in note.modes
    BY <2>5, <2>9
  <2>6. IsQuiet(s)
    BY <2>10, <2>11, QuietCalls
  <2> QED
    BY <2>6 DEF s
<1> HIDE DEF c
<1>4. \A r, b : IsQuiet(Joined(NUM_BANK_GROUPS, G(r, b)))
  <2> TAKE r, b
  <2>1. \A g \in 0 .. NUM_BANK_GROUPS - 1 : IsQuiet(G(r, b)[g])
    BY <1>3
  <2> HIDE DEF G
  <2> QED
    BY <1>2, <2>1, QuietJoined
<1> HIDE DEF G
<1>5. \A r : IsQuiet(Joined(BanksPerGroup, B(r)))
  <2> TAKE r
  <2>1. \A b \in 0 .. BanksPerGroup - 1 : IsQuiet(B(r)[b])
    BY <1>4
  <2> HIDE DEF B
  <2> QED
    BY <1>2, <2>1, QuietJoined
<1> HIDE DEF B
<1>6. \A r \in 0 .. NUM_PIM_RANKS - 1 : IsQuiet(R[r])
  BY <1>5
<1> HIDE DEF R
<1> QED
  BY <1>1, <1>2, <1>6, QuietJoined

(* the switches between SB and HAB,                                          *)
LEMMA QuietModeChanges ==
  /\ IsQuietStage(ParkIn) /\ IsQuietStage(ParkOut)
  /\ IsQuietStage(ChangePIMMode("SB", "HAB"))
  /\ IsQuietStage(ChangePIMMode("HAB", "SB"))
<1>0. "SB" \in In({"SB", "HAB"}).modes
  BY DEF In
<1>1. IsQuietStage(Park \o << Barrier >>)
  BY QuietPark, QuietBarrier, QuietStage
<1>2. IsQuietStage(ParkOut)
  BY <1>1 DEF ParkOut
<1>3. IsQuietStage(ParkIn)
  <2>1. IsQuiet(<< Barrier >>)
    BY QuietBarrier DEF IsQuietStage
  <2>2. IsQuiet(<< Barrier >> \o Park)
    BY <2>1, QuietPark, QuietConcatenated
  <2>3. IsQuietStage((<< Barrier >> \o Park) \o << Barrier >>)
    BY <2>2, QuietBarrier, QuietStage
  <2> QED
    BY <2>3 DEF ParkIn
<1>4. IsQuietStage(ChangePIMMode("SB", "HAB"))
  <2> DEFINE a(i) == AddTransactionAll("DATA_WRITE",
                       << 0, 1, 2 * BanksPerGroup, 2 * BanksPerGroup + 1 >>[i + 1],
                       PIM_ABMR_RA, MODE_COLUMN, In({"SB", "HAB"}), FALSE, 1)
             f == [i \in 0 .. 4 - 1 |-> a(i)]
  <2>1. ChangePIMMode("SB", "HAB") = Joined(4, f) \o << Barrier >>
    BY DEF ChangePIMMode, ForEach
  <2>2. \A i : IsQuiet(a(i))
    BY <1>0, QuietAccesses
  <2> HIDE DEF a
  <2>3. \A i \in 0 .. 4 - 1 : IsQuiet(f[i])
    BY <2>2
  <2> HIDE DEF f
  <2>4. IsQuiet(Joined(4, f))
    BY <2>3, QuietJoined
  <2> QED
    BY <2>1, <2>4, QuietBarrier, QuietStage
<1>5. IsQuietStage(ChangePIMMode("HAB", "SB"))
  <2> DEFINE a == AddTransactionAll("DATA_WRITE", 0, PIM_SBMR_RA, MODE_COLUMN, In({"SB", "HAB"}), FALSE, 1)
             c == AddTransactionAll("DATA_WRITE", 1, PIM_SBMR_RA, MODE_COLUMN, In({"SB", "HAB"}), TRUE, 1)
  <2>1. ChangePIMMode("HAB", "SB") = a \o c
    BY DEF ChangePIMMode
  <2>2. IsQuiet(a) /\ IsQuietStage(c)
    BY <1>0, QuietAccesses
  <2> HIDE DEF a, c
  <2> QED
    BY <2>1, <2>2, QuietStage
<1> QED
  BY <1>2, <1>3, <1>4, <1>5

(* and clearing the zero row.                                                *)
LEMMA QuietZeroRow == IsQuiet(ClearZeroRow)
<1> DEFINE n == NUM_BANKS * NUM_GRF
           s == [i \in 1 .. n |-> Call("DATA_WRITE", 0, (i - 1) \div NUM_GRF, ZERO_ROW, (i - 1) % NUM_GRF,
                                       In({"SB"}))]
<1>1. n \in Nat
  BY GeometryAssumption, GrfAssumption
<1>2. ClearZeroRow = s
  BY DEF ClearZeroRow
<1> HIDE DEF n
<1>3. "SB" \in In({"SB"}).modes
  BY DEF In
<1>4. \A k \in 1 .. n : \E type : \E r : \E bank : \E row : \E col : \E note :
           s[k] = Call(type, r, bank, row, col, note) /\ "SB" \in note.modes
  <2> TAKE k \in 1 .. n
  <2>1. s[k] = Call("DATA_WRITE", 0, (k - 1) \div NUM_GRF, ZERO_ROW, (k - 1) % NUM_GRF, In({"SB"}))
    OBVIOUS
  <2> HIDE DEF s
  <2> QED
    BY <1>3, <2>1
<1>5. s = [i \in 1 .. n |-> s[i]]
  OBVIOUS
<1> HIDE DEF s
<1>6. IsSequence(s) /\ Len(s) = n
  BY <1>1, <1>5, ListOf
<1>7. IsQuiet(s)
  BY <1>1, <1>4, <1>6, QuietCalls
<1> QED
  BY <1>2, <1>7

(* A quiet stage leaves a rank as it is.                                     *)
LEMMA LeadsQuietStage ==
  ASSUME NEW r, NEW s, NEW b, NEW full, NEW d, GoodState(d), IsQuietStage(s)
  PROVE  Leads(r, s, b, full, d, d)
  BY LeadsQuiet DEF IsQuietStage

(* The registers of a rank take the input of a tile; no program minds.     *)
InputList(x, m) ==
  [g \in 1 .. NUM_GRF |-> Call("DATA_WRITE", m, 1, PIM_REG_RA, 7 + g,
                               Carrying(<< "i_data", x * NUM_GRF + g - 1 >>, "HAB_PIM"))]

(* A write to a vector register executes nothing.                            *)
LEMMA InputMoved ==
  ASSUME NEW code, NEW z, NEW q, NEW b, NEW full, NEW m, NEW g \in 1 .. NUM_GRF, NEW p,
         NUM_GRF + 7 < NUM_COLS_PER_BL
  PROVE  Does(b, full, Call("DATA_WRITE", m, 1, PIM_REG_RA, 7 + g, Carrying(p, "HAB_PIM")),
              Running(code, z, q), Running(code, z, q))
<1> DEFINE e == Call("DATA_WRITE", m, 1, PIM_REG_RA, 7 + g, Carrying(p, "HAB_PIM"))
           c == CommandWith(b, e)
           d == Running(code, z, q)
<1>1. CallIs(e, c, "DATA_WRITE", m, 1, PIM_REG_RA, 7 + g, Carrying(p, "HAB_PIM"), b)
  BY CallFields
<1>2. Carrying(p, "HAB_PIM").modes = {"HAB_PIM"} /\ Carrying(p, "HAB_PIM").step = "NONE"
  BY DEF Carrying
<1> HIDE DEF e, c
<1>3. e.modes = {"HAB_PIM"} /\ e.step = "NONE"
      /\ c.row = PIM_REG_RA + (7 + g) \div NUM_COLS_PER_BL /\ c.col = (7 + g) % NUM_COLS_PER_BL
  BY <1>1, <1>2 DEF CallIs
<1>4. (7 + g) \div NUM_COLS_PER_BL = 0 /\ (7 + g) % NUM_COLS_PER_BL = 7 + g
  <2>1. 7 + g \in 0 .. NUM_COLS_PER_BL - 1 /\ NUM_COLS_PER_BL \in Nat \ {0}
    BY LayoutAssumption, GrfAssumption
  <2>2. \A M \in Nat \ {0} : \A y \in 0 .. M - 1 : y \div M = 0 /\ y % M = y
    OBVIOUS
  <2> QED
    BY <2>1, <2>2
<1>5. c.row = PIM_REG_RA /\ c.col = 7 + g
  <2>1. PIM_REG_RA \in Int
    BY DEF PIM_REG_RA
  <2> QED
    BY <1>3, <1>4, <2>1
<1>6. IsReservedRA(c.row)
  BY <1>5, RegisterRow
<1>7. d.mode = "HAB_PIM" /\ d.control.toggle = 0
  BY DEF Running
<1> HIDE DEF d
<1>8. ~StepsIn(d, c)
  <2>1. (0 \div 4) % 2 # 1
    OBVIOUS
  <2> QED
    BY <1>6, <1>7, <2>1 DEF StepsIn
<1>9. c.col # 0 /\ c.col \notin 4 .. 7
  BY <1>5, GrfAssumption
<1>10. After(d, c) = d
  BY <1>8, <1>9, Zenon DEF After
<1>11. IntendedIn(d, c, e) /\ UsedUpIn(d, c)
  BY <1>3, <1>7, <1>8, <1>9, Zenon DEF IntendedIn, UsedUpIn
<1> QED
  BY <1>10, <1>11, Zenon DEF Does, c, d, e

(* The input for one rank leaves every rank's program where it is, ...       *)
LEMMA LeadsList ==
  ASSUME NEW r \in Driven, NEW code, NEW z, NEW q, NEW b, NEW full, NEW x, NEW m \in Driven,
         NUM_GRF + 7 < NUM_COLS_PER_BL, IsCode(code), InRange(q)
  PROVE  Leads(r, InputList(x, m) \o << Barrier >>, b, full, Running(code, z, q),
               Running(code, z, q))
<1> DEFINE s == InputList(x, m)
           d == Running(code, z, q)
<1>1. NUM_GRF \in Nat
  BY GrfAssumption
<1>2. \A g \in 1 .. NUM_GRF : s[g] = Call("DATA_WRITE", m, 1, PIM_REG_RA, 7 + g,
                               Carrying(<< "i_data", x * NUM_GRF + g - 1 >>, "HAB_PIM"))
  BY DEF InputList
<1>3. s = [g \in 1 .. NUM_GRF |-> s[g]]
  BY DEF InputList
<1> HIDE DEF s
<1>4. IsSequence(s) /\ Len(s) = NUM_GRF
  BY <1>1, <1>3, ListOf
<1>5. ASSUME NEW g \in 1 .. Len(s)
      PROVE  /\ s[g] # Barrier /\ s[g].addr.rank = m
             /\ IntendedIn(d, CommandWith(b, s[g]), s[g])
             /\ full => UsedUpIn(d, CommandWith(b, s[g]))
             /\ After(d, CommandWith(b, s[g])) = d
  <2> DEFINE p == << "i_data", x * NUM_GRF + g - 1 >>
  <2>1. s[g] = Call("DATA_WRITE", m, 1, PIM_REG_RA, 7 + g, Carrying(p, "HAB_PIM"))
    BY <1>2, <1>4
  <2> HIDE DEF p
  <2>2. g \in 1 .. NUM_GRF
    BY <1>4
  <2>3. Does(b, full, s[g], d, d)
    BY <2>1, <2>2, InputMoved
  <2>4. CallIs(s[g], CommandWith(b, s[g]), "DATA_WRITE", m, 1, PIM_REG_RA, 7 + g,
               Carrying(p, "HAB_PIM"), b)
    BY <2>1, CallFields
  <2> QED
    BY <2>3, <2>4, Zenon DEF Does, CallIs
<1>6. IsEntries(s) /\ \A i \in 1 .. Len(s) : s[i] # Barrier
  BY <1>4, <1>5 DEF IsEntries, Entry
<1>7. GoodState(d)
  BY RunningGood
<1> HIDE DEF d
<1>8. Stage(r, s, 0, Len(s) + 1, b, full, d, d)
  BY <1>4, <1>5, <1>7, StageIdle
<1> QED
  BY <1>6, <1>8, LeadsStage DEF s, d

InputCalls(x) == ForEach(NUM_PIM_RANKS, LAMBDA m : InputList(x, m) \o << Barrier >>)

(* ... and so does that for all of them.                                     *)
LEMMA LeadsInput ==
  ASSUME NEW r \in Driven, NEW code, NEW z, NEW q, NEW b, NEW full, NEW x,
         NUM_GRF + 7 < NUM_COLS_PER_BL, IsCode(code), InRange(q)
  PROVE  Leads(r, InputCalls(x), b, full, Running(code, z, q), Running(code, z, q))
<1> DEFINE f == [m \in 0 .. NUM_PIM_RANKS - 1 |-> InputList(x, m) \o << Barrier >>]
           d == Running(code, z, q)
           D == [i \in 0 .. NUM_PIM_RANKS |-> d]
<1>1. InputCalls(x) = Joined(NUM_PIM_RANKS, f)
  BY DEF InputCalls, ForEach
<1>2. NUM_PIM_RANKS \in Nat
  BY KernelAssumption, GeometryAssumption
<1>3. \A i \in 0 .. NUM_PIM_RANKS - 1 : Leads(r, f[i], b, full, D[i], D[i + 1])
  <2> TAKE i \in 0 .. NUM_PIM_RANKS - 1
  <2>1. i \in Driven /\ f[i] = InputList(x, i) \o << Barrier >>
    BY DEF Driven
  <2>2. D[i] = d /\ D[i + 1] = d
    BY <1>2
  <2> HIDE DEF f, D
  <2>3. Leads(r, f[i], b, full, d, d)
    BY <2>1, LeadsList
  <2> QED
    BY <2>2, <2>3
<1>4. D[0] = d /\ D[NUM_PIM_RANKS] = d
  BY <1>2
<1> HIDE DEF f, D
<1>5. Leads(r, Joined(NUM_PIM_RANKS, f), b, full, D[0], D[NUM_PIM_RANKS])
  BY <1>2, <1>3, LeadsJoined
<1> QED
  BY <1>1, <1>4, <1>5 DEF d

-----------------------------------------------------------------------------
(* Loading a program.                                                      *)

CrfCall(r, i) ==
  Call("DATA_WRITE", r, 1, PIM_REG_RA, 4 + i, Carrying(<< "crf_bst_", i >>, "HAB"))

CrfBurst(i) ==
  AddTransactionAll("DATA_WRITE", 1, PIM_REG_RA, 4 + i,
                    Carrying(<< "crf_bst_", i >>, "HAB"), FALSE, 1)

(* The calls s load the first n bursts of the CRF of r.                    *)
CrfList(s, r, n) ==
  /\ IsEntries(s)
  /\ \A j \in 1 .. Len(s) : s[j] # Barrier
  /\ \A j \in 1 .. Len(s) : InAllBankMode(s[j]) /\ s[j].addr.rank = r =>
       \E i \in 0 .. n - 1 : s[j] = CrfCall(r, i)
  /\ \A i \in 0 .. n - 1 : \E j \in 1 .. Len(s) :
       InAllBankMode(s[j]) /\ s[j].addr.rank = r /\ s[j] = CrfCall(r, i)

(* No burst,                                                                 *)
LEMMA CrfNothing ==
  ASSUME NEW r
  PROVE  CrfList(<< >>, r, 0)
  BY EmptySequence DEF CrfList

(* and one more.                                                             *)
LEMMA CrfFurther ==
  ASSUME NEW r \in Driven, NEW n \in Nat, NEW s, CrfList(s, r, n)
  PROVE  CrfList(s \o CrfBurst(n), r, n + 1)
<1> DEFINE note == Carrying(<< "crf_bst_", n >>, "HAB")
<1>1. "SB" \notin note.modes
  BY DEF Carrying
<1>2. PICK one \in Nat : one = 1
  OBVIOUS
<1>3. PICK type, bank : type = "DATA_WRITE" /\ bank = 1
  OBVIOUS
<1> HIDE DEF note
<1>4. PICK u : \E lo \in Nat : AccessList(u, lo, type, bank, PIM_REG_RA, 4 + n, note, one, r)
  BY <1>1, AllAccesses
<1>5. PICK lo \in Nat : AccessList(u, lo, type, bank, PIM_REG_RA, 4 + n, note, one, r)
  BY <1>4
<1>6. /\ AddTransactionAll(type, bank, PIM_REG_RA, 4 + n, note, FALSE, one) = u \o << >>
      /\ IsEntries(u) /\ lo + one <= Len(u)
      /\ \A j \in 1 .. Len(u) : u[j] # Barrier
      /\ \A j \in 1 .. Len(u) : (InAllBankMode(u[j]) /\ u[j].addr.rank = r) <=> j \in lo + 1 .. lo + one
      /\ \A k \in 1 .. one : u[lo + k] = Call(type, r, bank, PIM_REG_RA, 4 + n + k - 1, note)
  BY <1>5, Zenon DEF AccessList
<1>7. IsSequence(u) /\ Len(u) \in Nat
  BY <1>6, SequenceParts DEF IsEntries
<1>8. CrfBurst(n) = u
  <2>1. u \o << >> = u
    BY <1>7 DEF IsSequence
  <2> QED
    BY <1>2, <1>3, <1>6, <2>1 DEF CrfBurst, note
<1>9. u[lo + 1] = CrfCall(r, n)
  <2>1. 4 + n + 1 - 1 = 4 + n /\ 1 \in 1 .. one
    BY <1>2
  <2>2. u[lo + 1] = Call(type, r, bank, PIM_REG_RA, 4 + n, note)
    BY <1>6, <2>1
  <2> QED
    BY <1>3, <2>2 DEF CrfCall, note
<1>10. \A j \in 1 .. Len(u) : (InAllBankMode(u[j]) /\ u[j].addr.rank = r) <=> j = lo + 1
  BY <1>2, <1>6
<1>11. lo + 1 \in 1 .. Len(u)
  BY <1>2, <1>6, <1>7
<1>12. /\ IsEntries(s) /\ IsSequence(s) /\ Len(s) \in Nat
       /\ \A j \in 1 .. Len(s) : s[j] # Barrier
       /\ \A j \in 1 .. Len(s) : InAllBankMode(s[j]) /\ s[j].addr.rank = r =>
            \E i \in 0 .. n - 1 : s[j] = CrfCall(r, i)
       /\ \A i \in 0 .. n - 1 : \E j \in 1 .. Len(s) :
            InAllBankMode(s[j]) /\ s[j].addr.rank = r /\ s[j] = CrfCall(r, i)
  BY SequenceParts DEF CrfList, IsEntries
<1> DEFINE t == s \o u
<1>13. /\ IsEntries(t) /\ Len(t) = Len(s) + Len(u)
       /\ \A i \in 1 .. Len(s) : t[i] = s[i]
       /\ \A i \in 1 .. Len(u) : t[Len(s) + i] = u[i]
  BY <1>6, <1>7, <1>12, Concatenation, EntriesConcatenated
<1> HIDE DEF t
<1>14. ASSUME NEW j \in 1 .. Len(t)
       PROVE  \/ j \in 1 .. Len(s) /\ t[j] = s[j]
              \/ j - Len(s) \in 1 .. Len(u) /\ t[j] = u[j - Len(s)]
  <2>1. CASE j <= Len(s)
    BY <1>12, <1>13, <2>1
  <2>2. CASE j > Len(s)
    <3>1. j - Len(s) \in 1 .. Len(u) /\ Len(s) + (j - Len(s)) = j
      BY <1>7, <1>12, <1>13, <2>2
    <3> QED
      BY <1>13, <3>1
  <2> QED
    BY <1>12, <2>1, <2>2
<1>15. \A j \in 1 .. Len(t) : t[j] # Barrier
  BY <1>6, <1>12, <1>14
<1>16. ASSUME NEW j \in 1 .. Len(t), InAllBankMode(t[j]), t[j].addr.rank = r
       PROVE  \E i \in 0 .. (n + 1) - 1 : t[j] = CrfCall(r, i)
  <2>1. CASE j \in 1 .. Len(s) /\ t[j] = s[j]
    <3>1. PICK i \in 0 .. n - 1 : s[j] = CrfCall(r, i)
      BY <1>12, <1>16, <2>1
    <3> QED
      BY <2>1, <3>1
  <2>2. CASE j - Len(s) \in 1 .. Len(u) /\ t[j] = u[j - Len(s)]
    <3>1. t[j] = CrfCall(r, n)
      BY <1>9, <1>10, <1>16, <2>2
    <3> QED
      BY <3>1
  <2> QED
    BY <1>14, <2>1, <2>2
<1>17. ASSUME NEW i \in 0 .. (n + 1) - 1
       PROVE  \E j \in 1 .. Len(t) : InAllBankMode(t[j]) /\ t[j].addr.rank = r /\ t[j] = CrfCall(r, i)
  <2>1. CASE i \in 0 .. n - 1
    <3>1. PICK j \in 1 .. Len(s) : InAllBankMode(s[j]) /\ s[j].addr.rank = r /\ s[j] = CrfCall(r, i)
      BY <1>12, <2>1
    <3>2. j \in 1 .. Len(t) /\ t[j] = s[j]
      BY <1>7, <1>12, <1>13
    <3> QED
      BY <3>1, <3>2
  <2>2. CASE i = n
    <3>1. Len(s) + (lo + 1) \in 1 .. Len(t) /\ t[Len(s) + (lo + 1)] = u[lo + 1]
      BY <1>7, <1>11, <1>12, <1>13
    <3>2. InAllBankMode(u[lo + 1]) /\ u[lo + 1].addr.rank = r
      BY <1>10, <1>11
    <3> QED
      BY <1>9, <2>2, <3>1, <3>2
  <2> QED
    BY <2>1, <2>2
<1> QED
  BY <1>8, <1>13, <1>15, <1>16, <1>17 DEF CrfList, t

(* The CRF with the bursts that the calls T among s carry.                 *)
LoadedBy(code, b, s, T) ==
  IF T = {} THEN code
  ELSE [w \in 0 .. CRF_WORDS - 1 |->
          IF \E j \in T : s[j].addr.col = 4 + w \div 8
            THEN fromInt(DefaultCmd, b.crf[w \div 8][(w % 8) + 1]) ELSE code[w]]

Holding(d, code) == [mode |-> "HAB", crf |-> code, control |-> d.control, pim |-> d.pim]

(* A program does not wake a rank at rest.                                   *)
LEMMA HoldingRests ==
  ASSUME NEW d, Resting(d), NEW code, IsCode(code)
  PROVE  Resting(Holding(d, code))
  BY DEF Resting, GoodState, Holding, IsCode

CrfIs(e, c, i, b) ==
  /\ e.modes = {"HAB"} /\ e.step = "NONE" /\ e.addr.col = 4 + i /\ c.type = "WRITE"
  /\ c.row = PIM_REG_RA /\ c.col = 4 + i /\ WriteData(c.trans.id) = b.crf[i]

(* The write of a burst of the CRF.                                          *)
LEMMA CrfFields ==
  ASSUME NEW r, NEW i \in 0 .. 3, NEW b, Carries, NUM_COLS_PER_BL > 4 + i
  PROVE  CrfIs(CrfCall(r, i), CommandWith(b, CrfCall(r, i)), i, b)
<1> DEFINE p == << "crf_bst_", i >>
           e == Call("DATA_WRITE", r, 1, PIM_REG_RA, 4 + i, Carrying(p, "HAB"))
           c == CommandWith(b, e)
<1>1. CallIs(e, c, "DATA_WRITE", r, 1, PIM_REG_RA, 4 + i, Carrying(p, "HAB"), b)
  BY CallFields
<1>2. Carrying(p, "HAB").modes = {"HAB"} /\ Carrying(p, "HAB").step = "NONE"
      /\ Carrying(p, "HAB").data = p
  BY DEF Carrying
<1>3. Contents(b, p) = b.crf[i]
  BY DEF Contents
<1>4. e.addr.col = c.col
  BY DEF CommandWith
<1>5. CrfCall(r, i) = e
  BY DEF CrfCall
<1> HIDE DEF e, c, p
<1>6. (4 + i) \div NUM_COLS_PER_BL = 0 /\ (4 + i) % NUM_COLS_PER_BL = 4 + i
  <2>1. 4 + i \in 0 .. NUM_COLS_PER_BL - 1 /\ NUM_COLS_PER_BL \in Nat \ {0}
    BY LayoutAssumption
  <2>2. \A M \in Nat \ {0} : \A y \in 0 .. M - 1 : y \div M = 0 /\ y % M = y
    OBVIOUS
  <2> QED
    BY <2>1, <2>2
<1>7. PIM_REG_RA + 0 = PIM_REG_RA
  BY DEF PIM_REG_RA
<1>8. /\ e.modes = {"HAB"} /\ e.step = "NONE" /\ c.type = "WRITE"
      /\ c.row = PIM_REG_RA /\ c.col = 4 + i /\ c.trans.id = b.crf[i]
  BY <1>1, <1>2, <1>3, <1>6, <1>7 DEF CallIs
<1>9. WriteData(c.trans.id) = c.trans.id
  BY DEF Carries, Carried
<1>10. CrfIs(e, c, i, b)
  BY <1>4, <1>8, <1>9, Zenon DEF CrfIs
<1> QED
  BY <1>5, <1>10 DEF c

(* It replaces the eight words of that burst.                                *)
LEMMA CrfWritten ==
  ASSUME NEW d, Resting(d), NEW code, IsCode(code), NEW b, NEW r, NEW i \in 0 .. 3,
         Carries, NUM_COLS_PER_BL > 4 + i, NEW full
  PROVE  Does(b, full, CrfCall(r, i), Holding(d, code),
              Holding(d, Reprogrammed(code, i, b.crf[i])))
<1> DEFINE e == CrfCall(r, i)
           c == CommandWith(b, e)
           h == Holding(d, code)
           n == Reprogrammed(code, i, b.crf[i])
<1>1. CrfIs(e, c, i, b)
  BY CrfFields
<1>2. h.mode = "HAB" /\ h.crf = code
  BY DEF Holding
<1>3. [h EXCEPT !.crf = n] = Holding(d, n)
  <2> HIDE DEF n
  <2> QED
    BY DEF Holding
<1> HIDE DEF e, c, h
<1>4. ~StepsIn(h, c)
  BY <1>2 DEF StepsIn
<1>5. WritesRegisterIn(h, c)
  BY <1>1, <1>2, <1>4 DEF WritesRegisterIn, CrfIs
<1>6. c.col = 4 + i /\ c.col # 0 /\ c.col \in 4 .. 7 /\ c.col - 4 = i
  BY <1>1 DEF CrfIs
<1>7. WriteData(c.trans.id) = b.crf[i]
  BY <1>1 DEF CrfIs
<1>8. After(h, c) = [h EXCEPT !.crf = Reprogrammed(h.crf, c.col - 4, WriteData(c.trans.id))]
  BY <1>4, <1>5, <1>6, Zenon DEF After
<1>9. After(h, c) = Holding(d, n)
  BY <1>2, <1>3, <1>6, <1>7, <1>8
<1>10. e.modes = {"HAB"} /\ e.step = "NONE"
  BY <1>1, Zenon DEF CrfIs
<1>11. IntendedIn(h, c, e)
  BY <1>2, <1>4, <1>10 DEF IntendedIn
<1>12. UsedUpIn(h, c)
  BY <1>2 DEF UsedUpIn
<1> QED
  BY <1>9, <1>11, <1>12, Zenon DEF Does, c, e, h, n

Loaded(code, b, n) ==
  [w \in 0 .. CRF_WORDS - 1 |->
     IF w \div 8 < n THEN fromInt(DefaultCmd, b.crf[w \div 8][(w % 8) + 1]) ELSE code[w]]

(* One more of the bursts, whichever comes next.                             *)
LEMMA LoadedFurther ==
  ASSUME NEW code, IsCode(code), NEW b, NEW s, NEW T, NEW j, NEW i \in 0 .. 3,
         s[j].addr.col = 4 + i
  PROVE  /\ LoadedBy(code, b, s, T \cup {j}) = Reprogrammed(LoadedBy(code, b, s, T), i, b.crf[i])
         /\ IsCode(LoadedBy(code, b, s, T))
<1> DEFINE old == LoadedBy(code, b, s, T)
           new(w) == fromInt(DefaultCmd, b.crf[w \div 8][(w % 8) + 1])
           g == [w \in 0 .. CRF_WORDS - 1 |->
                   IF \E k \in T \cup {j} : s[k].addr.col = 4 + w \div 8 THEN new(w) ELSE code[w]]
<1>1. T \cup {j} # {}
  OBVIOUS
<1>2. LoadedBy(code, b, s, T \cup {j}) = g
  BY <1>1 DEF LoadedBy
<1>3. IsCode(old)
  BY DEF IsCode, LoadedBy
<1>4. ASSUME NEW w \in 0 .. CRF_WORDS - 1
      PROVE  g[w] = IF w \div 8 = i THEN fromInt(DefaultCmd, b.crf[i][(w % 8) + 1]) ELSE old[w]
  <2>1. g[w] = IF \E k \in T \cup {j} : s[k].addr.col = 4 + w \div 8 THEN new(w) ELSE code[w]
    OBVIOUS
  <2>2. old[w] = IF \E k \in T : s[k].addr.col = 4 + w \div 8 THEN new(w) ELSE code[w]
    BY DEF LoadedBy
  <2>3. s[j].addr.col = 4 + w \div 8 <=> w \div 8 = i
    <3>1. PICK v \in Int : v = w \div 8
      BY DEF CRF_WORDS
    <3> QED
      BY <3>1
  <2>4. w \div 8 = i => new(w) = fromInt(DefaultCmd, b.crf[i][(w % 8) + 1])
    OBVIOUS
  <2> HIDE DEF g, old, new
  <2>5. CASE w \div 8 = i
    BY <2>1, <2>3, <2>4, <2>5
  <2>6. CASE w \div 8 # i
    BY <2>1, <2>2, <2>3, <2>6
  <2> QED
    BY <2>5, <2>6
<1>5. g = [w \in 0 .. CRF_WORDS - 1 |-> g[w]]
  OBVIOUS
<1> HIDE DEF g, old
<1>6. Reprogrammed(old, i, b.crf[i]) =
        [w \in 0 .. CRF_WORDS - 1 |->
           IF w \div 8 = i THEN fromInt(DefaultCmd, b.crf[i][(w % 8) + 1]) ELSE old[w]]
  BY <1>3 DEF Reprogrammed, IsCode
<1>7. g = Reprogrammed(old, i, b.crf[i])
  BY <1>4, <1>5, <1>6
<1> QED
  BY <1>2, <1>3, <1>7 DEF old

(* Its column says which burst it is.                                        *)
LEMMA CrfColumn ==
  ASSUME NEW r, NEW i \in 0 .. 3, NUM_COLS_PER_BL > 4 + i, Carries
  PROVE  CrfCall(r, i).addr.col = 4 + i
  BY CrfFields DEF CrfIs

(* The bursts load the CRF in any order.                                     *)
LEMMA LeadsCrf ==
  ASSUME NEW r \in Driven, NEW n \in 1 .. 4, NEW s, CrfList(s, r, n), NEW b, NEW full,
         NEW d, Resting(d), Carries, NUM_COLS_PER_BL > 3 + n
  PROVE  Leads(r, s \o << Barrier >>, b, full, d, Holding(d, Loaded(d.crf, b, n)))
<1> DEFINE T == Mine(r, s, 0, Len(s) + 1)
           K(left) == LoadedBy(d.crf, b, s, T \ left)
           F == [left \in SUBSET T |-> Holding(d, K(left))]
           e == Holding(d, Loaded(d.crf, b, n))
<1>1. /\ IsEntries(s) /\ IsSequence(s) /\ Len(s) \in Nat
      /\ \A j \in 1 .. Len(s) : s[j] # Barrier
      /\ \A j \in 1 .. Len(s) : InAllBankMode(s[j]) /\ s[j].addr.rank = r =>
           \E i \in 0 .. n - 1 : s[j] = CrfCall(r, i)
      /\ \A i \in 0 .. n - 1 : \E j \in 1 .. Len(s) :
           InAllBankMode(s[j]) /\ s[j].addr.rank = r /\ s[j] = CrfCall(r, i)
  BY SequenceParts DEF CrfList, IsEntries
<1>2. T = {j \in 1 .. Len(s) : InAllBankMode(s[j]) /\ s[j].addr.rank = r}
  <2>1. 0 + 1 .. (Len(s) + 1) - 1 = 1 .. Len(s)
    BY <1>1
  <2> QED
    BY <2>1 DEF Mine
<1>3. IsCode(d.crf)
  BY DEF Resting, GoodState, IsCode
<1> HIDE DEF T
<1>4. ASSUME NEW j \in T
      PROVE  \E i \in 0 .. n - 1 : i \in 0 .. 3 /\ s[j] = CrfCall(r, i) /\ s[j].addr.col = 4 + i
                                 /\ NUM_COLS_PER_BL > 4 + i
  <2>1. PICK i \in 0 .. n - 1 : s[j] = CrfCall(r, i)
    BY <1>1, <1>2
  <2>2. i \in 0 .. 3 /\ NUM_COLS_PER_BL > 4 + i
    BY LayoutAssumption
  <2> QED
    BY <2>1, <2>2, CrfColumn
<1>5. \A left : IsCode(K(left))
  BY <1>3 DEF IsCode, LoadedBy
<1>6. \A left \in SUBSET T : F[left] = Holding(d, K(left))
  OBVIOUS
<1>7. ASSUME NEW left \in SUBSET T, NEW j \in left
      PROVE  Does(b, full, s[j], F[left], F[left \ {j}])
  <2>1. PICK i \in 0 .. n - 1 : i \in 0 .. 3 /\ s[j] = CrfCall(r, i) /\ s[j].addr.col = 4 + i
                                /\ NUM_COLS_PER_BL > 4 + i
    BY <1>4
  <2>2. T \ (left \ {j}) = (T \ left) \cup {j} /\ left \ {j} \in SUBSET T
    OBVIOUS
  <2> DEFINE t == T \ left
  <2>3. LoadedBy(d.crf, b, s, t \cup {j}) = Reprogrammed(LoadedBy(d.crf, b, s, t), i, b.crf[i])
    <3> HIDE DEF t
    <3> QED
      BY <1>3, <2>1, LoadedFurther
  <2>4. K(left \ {j}) = Reprogrammed(K(left), i, b.crf[i])
    BY <2>2, <2>3
  <2>5. F[left] = Holding(d, K(left)) /\ F[left \ {j}] = Holding(d, K(left \ {j}))
    BY <1>6, <2>2
  <2> HIDE DEF K, F
  <2>6. Does(b, full, CrfCall(r, i), Holding(d, K(left)),
              Holding(d, Reprogrammed(K(left), i, b.crf[i])))
    BY <1>5, <2>1, CrfWritten
  <2> QED
    BY <2>1, <2>4, <2>5, <2>6
<1>8. \A left \in SUBSET T : GoodState(F[left])
  <2> TAKE left \in SUBSET T
  <2> HIDE DEF K, F
  <2>1. Resting(Holding(d, K(left)))
    BY <1>5, HoldingRests
  <2> QED
    BY <1>6, <2>1 DEF Resting
<1>9. F[T] = d
  <2>1. T \ T = {}
    OBVIOUS
  <2>2. K(T) = d.crf
    BY <2>1 DEF LoadedBy
  <2>3. Holding(d, d.crf) = d
    BY DEF Resting, GoodState, Holding
  <2>4. F[T] = Holding(d, K(T))
    BY <1>6
  <2> HIDE DEF K, F
  <2> QED
    BY <2>2, <2>3, <2>4
<1>10. F[{}] = e
  <2>1. T \ {} = T
    OBVIOUS
  <2>2. T # {}
    BY <1>1, <1>2
  <2>3. K({}) = [w \in 0 .. CRF_WORDS - 1 |->
          IF \E j \in T : s[j].addr.col = 4 + w \div 8
            THEN fromInt(DefaultCmd, b.crf[w \div 8][(w % 8) + 1]) ELSE d.crf[w]]
    BY <2>1, <2>2 DEF LoadedBy
  <2>4. ASSUME NEW w \in 0 .. CRF_WORDS - 1
        PROVE  (\E j \in T : s[j].addr.col = 4 + w \div 8) <=> w \div 8 < n
    <3>1. PICK v \in Nat : v = w \div 8
      BY DEF CRF_WORDS
    <3>2. ASSUME NEW j \in T, s[j].addr.col = 4 + v PROVE v < n
      <4>1. PICK i \in 0 .. n - 1 : s[j].addr.col = 4 + i
        BY <1>4
      <4> QED
        BY <3>2, <4>1
    <3>3. ASSUME v < n PROVE \E j \in T : s[j].addr.col = 4 + v
      <4>1. v \in 0 .. n - 1 /\ v \in 0 .. 3 /\ NUM_COLS_PER_BL > 4 + v
        BY <3>3, LayoutAssumption
      <4>2. PICK j \in 1 .. Len(s) :
              InAllBankMode(s[j]) /\ s[j].addr.rank = r /\ s[j] = CrfCall(r, v)
        BY <1>1, <4>1
      <4>3. CrfCall(r, v).addr.col = 4 + v
        BY <4>1, CrfColumn
      <4>4. j \in T
        BY <1>2, <4>2
      <4> QED
        BY <4>2, <4>3, <4>4, Zenon
    <3> QED
      BY <3>1, <3>2, <3>3
  <2>5. K({}) = Loaded(d.crf, b, n)
    <3> HIDE DEF K
    <3> QED
      BY <2>3, <2>4 DEF Loaded
  <2>6. F[{}] = Holding(d, K({}))
    BY <1>6
  <2> HIDE DEF K, F
  <2> QED
    BY <2>5, <2>6
<1> HIDE DEF F, K
<1>11. Sound(F, T, s, b, full)
  BY <1>7, <1>8, Zenon DEF Sound, Does
<1>12. Stage(r, s, 0, Len(s) + 1, b, full, d, e)
  BY <1>9, <1>10, <1>11 DEF Stage, T
<1> HIDE DEF e
<1> QED
  BY <1>1, <1>12, LeadsStage DEF e

HoldsProgram(code, P) ==
  /\ IsCode(code)
  /\ \A w \in 0 .. Len(P) - 1 : code[w] = InCrf(P[w + 1])

(* The calls of ProgramCrf: one burst for each eight words.                  *)
LEMMA BurstsOf ==
  ASSUME NEW r \in Driven, NEW P, Len(P) \in 1 .. 16
  PROVE  \E n \in 1 .. 2 : \E s : /\ Len(P) <= 8 * n /\ 8 * (n - 1) < Len(P)
                                  /\ ProgramCrf(P) = s \o << Barrier >>
                                  /\ CrfList(s, r, n)
<1> DEFINE n == (Len(P) + 7) \div 8
           f == [i \in 0 .. n - 1 |-> CrfBurst(i)]
           s == Joined(n, f)
<1>1. n \in 1 .. 2 /\ Len(P) <= 8 * n /\ 8 * (n - 1) < Len(P)
  <2>1. PICK k \in 1 .. 16 : k = Len(P)
    OBVIOUS
  <2>2. (k + 7) \div 8 \in 1 .. 2 /\ k <= 8 * ((k + 7) \div 8) /\ 8 * ((k + 7) \div 8 - 1) < k
    OBVIOUS
  <2> QED
    BY <2>1, <2>2
<1>2. ProgramCrf(P) = s \o << Barrier >>
  BY DEF ProgramCrf, ForEach, CrfBurst
<1> HIDE DEF n
<1>3. \A i \in 0 .. n - 1 : f[i] = CrfBurst(i)
  OBVIOUS
<1> HIDE DEF f
<1>4. /\ Joined(0, f) = << >> /\ Joined(0 + 1, f) = Joined(0, f) \o f[0]
      /\ Joined(1 + 1, f) = Joined(1, f) \o f[1]
  BY JoinedSteps
<1>5. CrfList(Joined(0, f), r, 0)
  BY <1>4, CrfNothing
<1>6. CrfList(Joined(1, f), r, 1)
  <2>1. PICK z \in Nat : z = 0
    OBVIOUS
  <2>2. CrfList(Joined(z, f) \o CrfBurst(z), r, z + 1)
    BY <1>5, <2>1, CrfFurther
  <2>3. f[0] = CrfBurst(0)
    BY <1>1, <1>3
  <2>4. Joined(z, f) \o CrfBurst(z) = Joined(1, f) /\ z + 1 = 1
    BY <1>4, <2>1, <2>3
  <2> QED
    BY <2>2, <2>4
<1>7. CASE n = 1
  BY <1>1, <1>2, <1>6, <1>7
<1>8. CASE n = 2
  <2>1. PICK z \in Nat : z = 1
    OBVIOUS
  <2>2. CrfList(Joined(z, f) \o CrfBurst(z), r, z + 1)
    BY <1>6, <2>1, CrfFurther
  <2>3. f[1] = CrfBurst(1)
    BY <1>3, <1>8
  <2>4. Joined(z, f) \o CrfBurst(z) = Joined(2, f) /\ z + 1 = 2
    BY <1>4, <2>1, <2>3
  <2>5. CrfList(Joined(2, f), r, 2)
    BY <2>2, <2>4
  <2>6. CrfList(s, r, n)
    BY <1>8, <2>5
  <2> HIDE DEF s
  <2> QED
    BY <1>1, <1>2, <2>6
<1> QED
  BY <1>1, <1>7, <1>8

(* The words that the buffers hold.                                          *)
LEMMA BufferWords ==
  ASSUME NEW b, NEW job, NEW P, P = Program(job), IsSequence(P), Len(P) \in 1 .. 16,
         NEW w \in 0 .. Len(P) - 1
  PROVE  BuffersAfter(b, job).crf[w \div 8][(w % 8) + 1] = toInt(P[w + 1])
<1> DEFINE word(n) == toInt(IF n \in DOMAIN P THEN P[n] ELSE Nop(0))
<1>1. DOMAIN P = 1 .. Len(P)
  BY SequenceParts
<1>2. w \div 8 \in 0 .. 3 /\ (w \div 8) * 8 < Len(P) /\ (w % 8) + 1 \in 1 .. 8
      /\ (w \div 8) * 8 + ((w % 8) + 1) = w + 1 /\ w + 1 \in 1 .. Len(P)
  <2>1. PICK k \in 1 .. 16 : k = Len(P)
    OBVIOUS
  <2>4. w \in 0 .. k - 1
    BY <2>1
  <2>2. PICK x \in 0 .. 15 : x = w
    BY <2>4
  <2>3. x \div 8 \in 0 .. 3 /\ (x \div 8) * 8 <= x /\ (x % 8) + 1 \in 1 .. 8
        /\ (x \div 8) * 8 + ((x % 8) + 1) = x + 1
    OBVIOUS
  <2> QED
    BY <2>1, <2>2, <2>3
<1>3. BuffersAfter(b, job).crf =
        [i \in 0 .. 3 |-> IF i * 8 < Len(P) THEN [j \in 1 .. 8 |-> word(i * 8 + j)] ELSE b.crf[i]]
  BY DEF BuffersAfter
<1>4. word(w + 1) = toInt(P[w + 1])
  BY <1>1, <1>2
<1> HIDE DEF word
<1>5. PICK v, u : v = w \div 8 /\ u = (w % 8) + 1
  OBVIOUS
<1>6. BuffersAfter(b, job).crf[v] = [j \in 1 .. 8 |-> word(v * 8 + j)]
  BY <1>2, <1>3, <1>5
<1>7. BuffersAfter(b, job).crf[v][u] = word(v * 8 + u)
  BY <1>2, <1>5, <1>6
<1>8. v * 8 + u = w + 1
  BY <1>2, <1>5
<1> QED
  BY <1>4, <1>5, <1>7, <1>8

(* After ProgramCrf the CRF holds the program (PIMKernel::programCrf,        *)
(* PIMRank::writeHab).                                                       *)
LEMMA ProgramLoads ==
  ASSUME NEW r \in Driven, NEW job, NEW P, P = Program(job), IsSequence(P), Len(P) \in 1 .. 16,
         \A n \in 1 .. Len(P) : Fits(P[n]),
         NEW b, NEW full, NEW d, Resting(d), Carries, NUM_COLS_PER_BL > 5
  PROVE  \E e : /\ Resting(e) /\ HoldsProgram(e.crf, P)
                /\ Leads(r, ProgramCrf(P), BuffersAfter(b, job), full, d, e)
<1>1. PICK n \in 1 .. 2 : \E s : /\ Len(P) <= 8 * n /\ 8 * (n - 1) < Len(P)
                                 /\ ProgramCrf(P) = s \o << Barrier >>
                                 /\ CrfList(s, r, n)
  BY BurstsOf
<1>2. PICK s : /\ Len(P) <= 8 * n /\ 8 * (n - 1) < Len(P)
               /\ ProgramCrf(P) = s \o << Barrier >>
               /\ CrfList(s, r, n)
  BY <1>1
<1> DEFINE c == BuffersAfter(b, job)
           code == Loaded(d.crf, c, n)
           e == Holding(d, code)
<1>3. n \in 1 .. 4 /\ NUM_COLS_PER_BL > 3 + n
  BY LayoutAssumption
<1> HIDE DEF c
<1>4. Leads(r, s \o << Barrier >>, c, full, d, Holding(d, Loaded(d.crf, c, n)))
  BY <1>2, <1>3, LeadsCrf
<1>5. IsCode(code)
  BY DEF IsCode, Loaded
<1>6. ASSUME NEW w \in 0 .. Len(P) - 1 PROVE code[w] = InCrf(P[w + 1])
  <2>1. w \in 0 .. CRF_WORDS - 1 /\ w \div 8 < n /\ w + 1 \in 1 .. Len(P)
    BY <1>2 DEF CRF_WORDS
  <2>2. code[w] = fromInt(DefaultCmd, c.crf[w \div 8][(w % 8) + 1])
    BY <2>1 DEF Loaded
  <2>3. c.crf[w \div 8][(w % 8) + 1] = toInt(P[w + 1])
    BY BufferWords DEF c
  <2>4. code[w] = fromInt(DefaultCmd, toInt(P[w + 1]))
    BY <2>2, <2>3
  <2>5. Fits(P[w + 1])
    BY <2>1
  <2> HIDE DEF code
  <2> QED
    BY <2>4, <2>5, InstructionReadBack
<1> HIDE DEF code
<1>7. HoldsProgram(code, P)
  BY <1>5, <1>6 DEF HoldsProgram
<1>8. Resting(e) /\ e.crf = code
  BY <1>5, HoldingRests DEF Holding
<1> QED
  BY <1>2, <1>4, <1>7, <1>8 DEF c, code

-----------------------------------------------------------------------------
(* The instructions of the programs, as they are in the CRF.               *)

Serves(cmd, type, bank) == cmd.type = type /\ RepeatsItself(cmd) /\ SideFits(cmd, bank)

(* Widths of fields.                                                         *)
LEMMA OneBit == 2 ^ 1 = 2
  OBVIOUS

(* The width of an enumerator.                                               *)
LEMMA FourBits == 2 ^ 4 = 16
  OBVIOUS

(* The widths of the counters of loops.                                      *)
LEMMA Powers == 2 ^ 11 \in Nat /\ 2 ^ 17 \in Nat
  BY PowerPositive

(* The operands that the programs use.                                       *)
LEMMA OperandNames ==
  ASSUME NEW name \in {"A_OUT", "EVEN_BANK", "ODD_BANK", "GRF_A", "GRF_B"}
  PROVE  \E k \in 1 .. 8 : name = PIMOpdType[k]
<1>1. /\ PIMOpdType[1] = "A_OUT" /\ PIMOpdType[3] = "EVEN_BANK" /\ PIMOpdType[4] = "ODD_BANK"
      /\ PIMOpdType[5] = "GRF_A" /\ PIMOpdType[6] = "GRF_B"
  BY DEF PIMOpdType
<1> QED
  BY <1>1

SideOf(bank) == IF bank = 0 THEN "EVEN_BANK" ELSE "ODD_BANK"

(* A FILL, in the CRF, serves the accesses of its side,                      *)
LEMMA FillServes ==
  ASSUME NEW dst \in {"GRF_A", "GRF_B"}, NEW bank \in {0, 1}, NEW relu \in {0, 1}
  PROVE  /\ Fits(Fill(dst, SideOf(bank), relu))
         /\ Serves(InCrf(Fill(dst, SideOf(bank), relu)), "FILL", bank)
<1> DEFINE cmd == Fill(dst, SideOf(bank), relu)
           at == EncodedFields("FILL")
<1>1. /\ cmd.type = "FILL" /\ cmd.dst = dst /\ cmd.src0 = SideOf(bank) /\ cmd.isRelu = relu
      /\ cmd.dstIdx = 0 /\ cmd.src0Idx = 0 /\ cmd.src1Idx = 0
  BY DEF Fill, DefaultCmd
<1>2. /\ DOMAIN at = {"dst", "src0", "dstIdx", "src0Idx", "src1Idx", "isRelu"}
      /\ at.dstIdx[1] = 4 /\ at.src0Idx[1] = 4 /\ at.src1Idx[1] = 4 /\ at.isRelu[1] = 1
  BY DEF EncodedFields
<1>3. SideOf(bank) \in {"EVEN_BANK", "ODD_BANK"}
  BY DEF SideOf
<1>4. DOMAIN DefaultCmd = {"type", "dst", "src0", "src1", "src2", "loopCounter", "loopOffset",
                           "isAuto", "dstIdx", "src0Idx", "src1Idx", "isRelu"}
      /\ DefaultCmd.src1 = "A_OUT"
  BY DEF DefaultCmd
<1> HIDE DEF at
<1>5. (\E k \in 1 .. 8 : dst = PIMOpdType[k]) /\ (\E k \in 1 .. 8 : SideOf(bank) = PIMOpdType[k])
  BY <1>3, OperandNames
<1>6. /\ InCrf(cmd).type = "FILL" /\ InCrf(cmd).src0 = SideOf(bank) /\ InCrf(cmd).src1 = "A_OUT"
  <2>1. InCrf(cmd) = [f \in DOMAIN DefaultCmd |->
                       IF f = "type" \/ f \in DOMAIN at THEN cmd[f] ELSE DefaultCmd[f]]
    BY <1>1 DEF InCrf, at
  <2> HIDE DEF cmd
  <2> QED
    BY <1>1, <1>2, <1>4, <2>1
<1> HIDE DEF cmd
<1>7. Fits(cmd)
  <2>1. cmd.type \in UsedTypes
    BY <1>1 DEF UsedTypes
  <2>2. ASSUME NEW f \in DOMAIN at
        PROVE IF IsOperand(f) THEN \E k \in 1 .. 8 : cmd[f] = PIMOpdType[k]
              ELSE cmd[f] \in 0 .. 2 ^ at[f][1] - 1
    <3>1. CASE f = "dst"
      BY <1>1, <1>5, <3>1 DEF IsOperand
    <3>2. CASE f = "src0"
      BY <1>1, <1>5, <3>2 DEF IsOperand
    <3>3. CASE f \in {"dstIdx", "src0Idx", "src1Idx"}
      <4>1. cmd[f] = 0 /\ at[f][1] = 4 /\ ~IsOperand(f)
        BY <1>1, <1>2, <3>3 DEF IsOperand
      <4>2. 2 ^ at[f][1] = 16
        BY <4>1, FourBits
      <4> QED
        BY <4>1, <4>2
    <3>9. CASE f = "isRelu"
      <4>1. cmd[f] \in 0 .. 1 /\ at[f][1] = 1 /\ ~IsOperand(f)
        BY <1>1, <1>2, <3>9 DEF IsOperand
      <4>2. 2 ^ at[f][1] = 2
        BY <4>1, OneBit
      <4> QED
        BY <4>1, <4>2
    <3> QED
      BY <1>2, <3>1, <3>2, <3>3, <3>9
  <2> QED
    BY <1>1, <2>1, <2>2 DEF Fits, at
<1>8. Serves(InCrf(cmd), "FILL", bank)
  BY <1>6 DEF Serves, RepeatsItself, SideFits, SideOf
<1> QED
  BY <1>7, <1>8 DEF cmd

(* so does an operation with a bank operand,                                 *)
LEMMA AutoServes ==
  ASSUME NEW type \in {"ADD", "MUL", "MAC"}, NEW dst \in {"GRF_A", "GRF_B"},
         NEW src0 \in {"GRF_A", "GRF_B"}, NEW bank \in {0, 1}
  PROVE  /\ Fits(AutoCmd(type, dst, src0, SideOf(bank)))
         /\ Serves(InCrf(AutoCmd(type, dst, src0, SideOf(bank))), type, bank)
<1> DEFINE cmd == AutoCmd(type, dst, src0, SideOf(bank))
           at == EncodedFields(type)
<1>1. /\ cmd.type = type /\ cmd.dst = dst /\ cmd.src0 = src0 /\ cmd.src1 = SideOf(bank)
      /\ cmd.isAuto = 1 /\ cmd.dstIdx = 0 /\ cmd.src0Idx = 0 /\ cmd.src1Idx = 0
  BY DEF AutoCmd, DefaultCmd
<1>2. /\ DOMAIN at = {"dst", "src0", "src1", "isAuto", "dstIdx", "src0Idx", "src1Idx"}
      /\ at.dstIdx[1] = 4 /\ at.src0Idx[1] = 4 /\ at.src1Idx[1] = 4 /\ at.isAuto[1] = 1
  BY DEF EncodedFields
<1>3. SideOf(bank) \in {"EVEN_BANK", "ODD_BANK"}
  BY DEF SideOf
<1>4. DOMAIN DefaultCmd = {"type", "dst", "src0", "src1", "src2", "loopCounter", "loopOffset",
                           "isAuto", "dstIdx", "src0Idx", "src1Idx", "isRelu"}
  BY DEF DefaultCmd
<1> HIDE DEF at
<1>5. /\ \E k \in 1 .. 8 : dst = PIMOpdType[k]
      /\ \E k \in 1 .. 8 : src0 = PIMOpdType[k]
      /\ \E k \in 1 .. 8 : SideOf(bank) = PIMOpdType[k]
  BY <1>3, OperandNames
<1>6. /\ InCrf(cmd).type = type /\ InCrf(cmd).src0 = src0 /\ InCrf(cmd).src1 = SideOf(bank)
      /\ InCrf(cmd).isAuto = 1
  <2>1. InCrf(cmd) = [f \in DOMAIN DefaultCmd |->
                       IF f = "type" \/ f \in DOMAIN at THEN cmd[f] ELSE DefaultCmd[f]]
    BY <1>1 DEF InCrf, at
  <2> HIDE DEF cmd
  <2> QED
    BY <1>1, <1>2, <1>4, <2>1
<1> HIDE DEF cmd
<1>7. Fits(cmd)
  <2>1. cmd.type \in UsedTypes
    BY <1>1 DEF UsedTypes
  <2>2. ASSUME NEW f \in DOMAIN at
        PROVE IF IsOperand(f) THEN \E k \in 1 .. 8 : cmd[f] = PIMOpdType[k]
              ELSE cmd[f] \in 0 .. 2 ^ at[f][1] - 1
    <3>1. CASE f = "dst"
      BY <1>1, <1>5, <3>1 DEF IsOperand
    <3>2. CASE f = "src0"
      BY <1>1, <1>5, <3>2 DEF IsOperand
    <3>3. CASE f = "src1"
      BY <1>1, <1>5, <3>3 DEF IsOperand
    <3>4. CASE f \in {"dstIdx", "src0Idx", "src1Idx"}
      <4>1. cmd[f] = 0 /\ at[f][1] = 4 /\ ~IsOperand(f)
        BY <1>1, <1>2, <3>4 DEF IsOperand
      <4>2. 2 ^ at[f][1] = 16
        BY <4>1, FourBits
      <4> QED
        BY <4>1, <4>2
    <3>9. CASE f = "isAuto"
      <4>1. cmd[f] \in 0 .. 1 /\ at[f][1] = 1 /\ ~IsOperand(f)
        BY <1>1, <1>2, <3>9 DEF IsOperand
      <4>2. 2 ^ at[f][1] = 2
        BY <4>1, OneBit
      <4> QED
        BY <4>1, <4>2
    <3> QED
      BY <1>2, <3>1, <3>2, <3>3, <3>4, <3>9
  <2> QED
    BY <1>1, <2>1, <2>2 DEF Fits, at
<1>8. Serves(InCrf(cmd), type, bank)
  BY <1>6 DEF Serves, RepeatsItself, SideFits, SideOf
<1> QED
  BY <1>7, <1>8 DEF cmd

(* and a NOP those of any side.                                              *)
LEMMA NopServes ==
  ASSUME NEW bank, NUM_GRF <= 2 ^ 11
  PROVE  Fits(Nop(NUM_GRF - 1)) /\ Serves(InCrf(Nop(NUM_GRF - 1)), "NOP", bank)
<1> DEFINE cmd == Nop(NUM_GRF - 1)
           at == EncodedFields("NOP")
<1>0. NUM_GRF \in Nat \ {0}
  BY GrfAssumption
<1>1. cmd.type = "NOP" /\ cmd.loopCounter = NUM_GRF - 1
  BY DEF Nop, DefaultCmd
<1>2. DOMAIN at = {"loopCounter"} /\ at.loopCounter[1] = 11
  BY DEF EncodedFields
<1>4. DOMAIN DefaultCmd = {"type", "dst", "src0", "src1", "src2", "loopCounter", "loopOffset",
                           "isAuto", "dstIdx", "src0Idx", "src1Idx", "isRelu"}
      /\ DefaultCmd.src0 = "A_OUT" /\ DefaultCmd.src1 = "A_OUT" /\ DefaultCmd.isAuto = 0
  BY DEF DefaultCmd
<1> HIDE DEF at
<1>6. /\ InCrf(cmd).type = "NOP" /\ InCrf(cmd).src0 = "A_OUT" /\ InCrf(cmd).src1 = "A_OUT"
      /\ InCrf(cmd).isAuto = 0 /\ InCrf(cmd).loopCounter = NUM_GRF - 1
  <2>1. InCrf(cmd) = [f \in DOMAIN DefaultCmd |->
                       IF f = "type" \/ f \in DOMAIN at THEN cmd[f] ELSE DefaultCmd[f]]
    BY <1>1 DEF InCrf, at
  <2> HIDE DEF cmd
  <2> QED
    BY <1>1, <1>2, <1>4, <2>1
<1> HIDE DEF cmd
<1>7. Fits(cmd)
  <2>1. cmd.type \in UsedTypes
    BY <1>1 DEF UsedTypes
  <2>2. ASSUME NEW f \in DOMAIN at
        PROVE IF IsOperand(f) THEN \E k \in 1 .. 8 : cmd[f] = PIMOpdType[k]
              ELSE cmd[f] \in 0 .. 2 ^ at[f][1] - 1
    <3>1. cmd[f] = NUM_GRF - 1 /\ at[f][1] = 11 /\ ~IsOperand(f)
      BY <1>1, <1>2 DEF IsOperand
    <3>2. PICK top \in Nat : top = 2 ^ 11
      BY Powers
    <3>3. NUM_GRF - 1 \in 0 .. top - 1
      BY <1>0, <3>2
    <3> QED
      BY <3>1, <3>2, <3>3
  <2> QED
    BY <1>1, <2>1, <2>2 DEF Fits, at
<1>8. Serves(InCrf(cmd), "NOP", bank)
  <2> DEFINE i == InCrf(cmd)
  <2>1. /\ i.type = "NOP" /\ i.isAuto = 0 /\ i.loopCounter = NUM_GRF - 1
    BY <1>6
  <2>2. i.src0 = "A_OUT" /\ i.src1 = "A_OUT"
    BY <1>6
  <2> HIDE DEF i
  <2>3. "EVEN_BANK" \notin {i.src0, i.src1} /\ "ODD_BANK" \notin {i.src0, i.src1}
    BY <2>2
  <2>4. SideFits(i, bank)
    BY <2>3, Zenon DEF SideFits
  <2>5. RepeatsItself(i)
    BY <2>1, Zenon DEF RepeatsItself
  <2> QED
    BY <2>1, <2>4, <2>5, Zenon DEF Serves, i
<1> QED
  BY <1>7, <1>8, Zenon DEF cmd

IsJump(cmd, n, o) == cmd.type = "JUMP" /\ cmd.loopCounter = n /\ cmd.loopOffset = o

(* Counts are numbers.                                                       *)
LEMMA CanLoopNat ==
  ASSUME NEW n, CanLoop(n)
  PROVE  n \in Nat
<1>1. PICK top \in Nat : top = 2 ^ 17
  BY Powers
<1> QED
  BY <1>1 DEF CanLoop

(* A jump keeps its count and its offset.                                    *)
LEMMA JumpStays ==
  ASSUME NEW n, CanLoop(n), NEW o \in 0 .. 2 ^ 11 - 1
  PROVE  Fits(Jump(n, o)) /\ IsJump(InCrf(Jump(n, o)), n, o)
<1> DEFINE cmd == Jump(n, o)
           at == EncodedFields("JUMP")
<1>1. cmd.type = "JUMP" /\ cmd.loopCounter = n /\ cmd.loopOffset = o
  BY DEF Jump, DefaultCmd
<1>2. DOMAIN at = {"loopCounter", "loopOffset"} /\ at.loopCounter[1] = 17 /\ at.loopOffset[1] = 11
  BY DEF EncodedFields
<1>4. DOMAIN DefaultCmd = {"type", "dst", "src0", "src1", "src2", "loopCounter", "loopOffset",
                           "isAuto", "dstIdx", "src0Idx", "src1Idx", "isRelu"}
  BY DEF DefaultCmd
<1> HIDE DEF at
<1>6. InCrf(cmd).type = "JUMP" /\ InCrf(cmd).loopCounter = n /\ InCrf(cmd).loopOffset = o
  <2>1. InCrf(cmd) = [f \in DOMAIN DefaultCmd |->
                       IF f = "type" \/ f \in DOMAIN at THEN cmd[f] ELSE DefaultCmd[f]]
    BY <1>1 DEF InCrf, at
  <2> HIDE DEF cmd
  <2> QED
    BY <1>1, <1>2, <1>4, <2>1
<1> HIDE DEF cmd
<1>7. Fits(cmd)
  <2>1. cmd.type \in UsedTypes
    BY <1>1 DEF UsedTypes
  <2>2. ASSUME NEW f \in DOMAIN at
        PROVE IF IsOperand(f) THEN \E k \in 1 .. 8 : cmd[f] = PIMOpdType[k]
              ELSE cmd[f] \in 0 .. 2 ^ at[f][1] - 1
    <3>1. f \in {"loopCounter", "loopOffset"} /\ ~IsOperand(f)
      BY <1>2 DEF IsOperand
    <3>2. CASE f = "loopCounter"
      <4>1. cmd[f] = n /\ at[f][1] = 17
        BY <1>1, <1>2, <3>2
      <4> QED
        BY <3>1, <4>1 DEF CanLoop
    <3>3. CASE f = "loopOffset"
      <4>1. cmd[f] = o /\ at[f][1] = 11
        BY <1>1, <1>2, <3>3
      <4> QED
        BY <3>1, <4>1 DEF CanLoop
    <3> QED
      BY <3>1, <3>2, <3>3
  <2> QED
    BY <1>1, <2>1, <2>2 DEF Fits, at
<1>8. IsJump(InCrf(cmd), n, o)
  BY <1>6, Zenon DEF IsJump
<1> QED
  BY <1>7, <1>8, Zenon DEF cmd

(* An EXIT stays one.                                                        *)
LEMMA ExitStays == Fits(Exit) /\ InCrf(Exit).type = "EXIT"
<1>1. Exit.type = "EXIT"
  BY DEF Exit, DefaultCmd
<1>2. DOMAIN EncodedFields("EXIT") = {}
  <2>1. EncodedFields("EXIT") = << >>
    BY DEF EncodedFields
  <2> QED
    BY <2>1, EmptySequence
<1>3. "type" \in DOMAIN DefaultCmd
  BY DEF DefaultCmd
<1>4. Fits(Exit)
  BY <1>1, <1>2 DEF Fits, UsedTypes
<1>5. InCrf(Exit).type = "EXIT"
  BY <1>1, <1>3 DEF InCrf
<1> QED
  BY <1>4, <1>5

IsList(c, L) == IsSequence(c) /\ Len(c) = L

AppendedIs(t, c, x, L) ==
  /\ IsList(t, L + 1)
  /\ \A i \in 1 .. L : t[i] = c[i]
  /\ t[L + 1] = x

(* One more member.                                                          *)
LEMMA Appended ==
  ASSUME NEW c, NEW L, IsList(c, L), NEW x
  PROVE  L \in Nat /\ AppendedIs(c \o << x >>, c, x, L)
<1> DEFINE u == << x >>
<1>1. IsSequence(u) /\ Len(u) = 1 /\ u[1] = x
  BY DEF IsSequence
<1> HIDE DEF u
<1>6. IsSequence(c) /\ IsSequence(u) /\ Len(c) = L
  BY <1>1 DEF IsList
<1>2. /\ IsSequence(c \o u)
      /\ Len(c \o u) = Len(c) + Len(u)
      /\ \A i \in 1 .. Len(c) : (c \o u)[i] = c[i]
      /\ \A i \in 1 .. Len(u) : (c \o u)[Len(c) + i] = u[i]
  BY <1>6, Concatenation
<1>3. 1 \in 1 .. Len(u)
  BY <1>1
<1>4. (c \o u)[Len(c) + 1] = u[1]
  BY <1>2, <1>3
<1>5. Len(c) \in Nat
  BY <1>6, SequenceParts
<1> QED
  BY <1>1, <1>2, <1>4, <1>5, <1>6 DEF u, IsList, AppendedIs

LoopedIs(P, c, n, L) ==
  /\ IsSequence(P)
  /\ \A i \in 1 .. L : P[i] = c[i]
  /\ n = 0 => Len(P) = L + 1 /\ P[L + 1] = Exit
  /\ n # 0 => Len(P) = L + 2 /\ P[L + 1] = Jump(n, L + 1) /\ P[L + 2] = Exit

(* The words of a loop of words: with no further round it has no jump.       *)
LEMMA LoopedParts ==
  ASSUME NEW c, NEW n, NEW L, IsList(c, L)
  PROVE  LoopedIs(Looped(c, n), c, n, L)
<1>1. Len(c) = L
  BY DEF IsList
<1>2. /\ n = 0 => Looped(c, n) = (c \o << >>) \o << Exit >>
      /\ n # 0 => Looped(c, n) = (c \o << Jump(n, L + 1) >>) \o << Exit >>
  BY <1>1 DEF Looped
<1>3. c \o << >> = c
  BY DEF IsList, IsSequence
<1>4. CASE n = 0
  <2> DEFINE t == c \o << Exit >>
  <2>1. Looped(c, n) = t
    BY <1>2, <1>3, <1>4
  <2>2. AppendedIs(t, c, Exit, L)
    BY Appended
  <2> HIDE DEF t
  <2> QED
    BY <1>4, <2>1, <2>2 DEF LoopedIs, AppendedIs, IsList
<1>5. CASE n # 0
  <2> DEFINE w == c \o << Jump(n, L + 1) >>
             k == L + 1
             t == w \o << Exit >>
  <2>1. Looped(c, n) = t
    BY <1>2, <1>5
  <2>2. L \in Nat /\ AppendedIs(w, c, Jump(n, L + 1), L)
    BY Appended
  <2> HIDE DEF w
  <2>3. /\ L \in Nat /\ IsList(w, k)
        /\ \A i \in 1 .. L : w[i] = c[i]
        /\ w[L + 1] = Jump(n, L + 1)
    BY <2>2 DEF AppendedIs
  <2>4. AppendedIs(t, w, Exit, k)
    BY <2>3, Appended
  <2> HIDE DEF t
  <2>5. /\ IsSequence(t) /\ Len(t) = k + 1
        /\ \A i \in 1 .. k : t[i] = w[i]
        /\ t[k + 1] = Exit
    BY <2>4 DEF AppendedIs, IsList
  <2>6. L + 1 \in 1 .. k /\ k + 1 = L + 2 /\ \A i \in 1 .. L : i \in 1 .. k
    BY <2>3
  <2>7. IsSequence(t) /\ Len(t) = L + 2 /\ t[L + 2] = Exit
    BY <2>5, <2>6
  <2>8. t[L + 1] = Jump(n, L + 1)
    BY <2>3, <2>5, <2>6
  <2>9. \A i \in 1 .. L : t[i] = c[i]
    BY <2>3, <2>5, <2>6
  <2> QED
    BY <1>5, <2>1, <2>7, <2>8, <2>9 DEF LoopedIs
<1> QED
  BY <1>4, <1>5

(* The program Looped(c, n) in the CRF.                                    *)
LoopCode(code, c, n, L) ==
  /\ IsCode(code)
  /\ \A i \in 0 .. L - 1 : code[i] = InCrf(c[i + 1])
  /\ n = 0 => code[L].type = "EXIT"
  /\ n # 0 => IsJump(code[L], n, L + 1) /\ code[L + 1].type = "EXIT"

LoopLoads(P, c, n, L) ==
  /\ IsSequence(P) /\ Len(P) \in 1 .. 16
  /\ \A i \in 1 .. Len(P) : Fits(P[i])
  /\ \A code : HoldsProgram(code, P) => LoopCode(code, c, n, L)

FitList(c, L) == IsList(c, L) /\ \A i \in 1 .. L : Fits(c[i])

(* It fits the words, and what the CRF holds then.                           *)
LEMMA LoopedLoads ==
  ASSUME NEW c, NEW L \in 1 .. 14, FitList(c, L), NEW n, CanLoop(n)
  PROVE  LoopLoads(Looped(c, n), c, n, L)
<1> DEFINE P == Looped(c, n)
<1>1. /\ IsSequence(P)
      /\ \A i \in 1 .. L : P[i] = c[i]
      /\ n = 0 => Len(P) = L + 1 /\ P[L + 1] = Exit
      /\ n # 0 => Len(P) = L + 2 /\ P[L + 1] = Jump(n, L + 1) /\ P[L + 2] = Exit
  <2>1. LoopedIs(P, c, n, L)
    BY LoopedParts DEF FitList
  <2> HIDE DEF P
  <2> QED
    BY <2>1, Zenon DEF LoopedIs
<1> HIDE DEF P
<1>0. n \in Nat
  BY CanLoopNat
<1>2. L + 1 \in 0 .. 2 ^ 11 - 1
  <2>1. 2 ^ 11 = 2048
    OBVIOUS
  <2> QED
    BY <2>1, SMT
<1>3. Fits(Exit) /\ InCrf(Exit).type = "EXIT"
  BY ExitStays
<1>4. Fits(Jump(n, L + 1)) /\ IsJump(InCrf(Jump(n, L + 1)), n, L + 1)
  BY <1>2, JumpStays
<1>8. Len(P) = L + 1 \/ Len(P) = L + 2
  <2>1. (n = 0 => Len(P) = L + 1) /\ (n # 0 => Len(P) = L + 2)
    BY <1>1, Zenon
  <2> QED
    BY <2>1, Zenon
<1>9. PICK l \in Nat : l = Len(P)
  BY <1>8
<1>5. Len(P) \in 1 .. 16
  <2>3. PICK m \in 1 .. 14 : m = L
    OBVIOUS
  <2> HIDE DEF P
  <2>4. Len(P) = m + 1 \/ Len(P) = m + 2
    BY <1>8, <2>3
  <2>5. m + 1 \in 1 .. 16 /\ m + 2 \in 1 .. 16
    OBVIOUS
  <2> QED
    BY <2>4, <2>5, Zenon
<1>6. ASSUME NEW i \in 1 .. Len(P) PROVE Fits(P[i])
  <2>1. i \in 1 .. L \/ i = L + 1 \/ (n # 0 /\ i = L + 2)
    BY <1>1, SMTT(30)
  <2> QED
    BY <1>1, <1>3, <1>4, <2>1 DEF FitList
<1>7. ASSUME NEW code, HoldsProgram(code, P) PROVE LoopCode(code, c, n, L)
  <2>1. IsCode(code) /\ \A w \in 0 .. Len(P) - 1 : code[w] = InCrf(P[w + 1])
    BY <1>7 DEF HoldsProgram
  <2>2. ASSUME NEW i \in 0 .. L - 1 PROVE code[i] = InCrf(c[i + 1])
    <3>1. l = L + 1 \/ l = L + 2
      BY <1>8, <1>9, Zenon
    <3>2. i \in 0 .. l - 1 /\ i + 1 \in 1 .. L
      BY <3>1
    <3>3. code[i] = InCrf(P[i + 1])
      BY <1>9, <2>1, <3>2, Zenon
    <3>4. P[i + 1] = c[i + 1]
      BY <1>1, <3>2, Zenon
    <3> QED
      BY <3>3, <3>4
  <2>3. ASSUME n = 0 PROVE code[L].type = "EXIT"
    <3>1. L \in 0 .. Len(P) - 1
      BY <1>1, <2>3
    <3>2. code[L] = InCrf(P[L + 1])
      BY <2>1, <3>1
    <3> QED
      BY <1>1, <1>3, <2>3, <3>2
  <2>4. ASSUME n # 0 PROVE IsJump(code[L], n, L + 1) /\ code[L + 1].type = "EXIT"
    <3>1. L \in 0 .. Len(P) - 1 /\ L + 1 \in 0 .. Len(P) - 1 /\ (L + 1) + 1 = L + 2
      BY <1>1, <2>4
    <3>2. code[L] = InCrf(P[L + 1])
      BY <2>1, <3>1
    <3>3. code[L + 1] = InCrf(P[(L + 1) + 1])
      BY <2>1, <3>1
    <3>4. code[L + 1] = InCrf(P[L + 2])
      BY <3>1, <3>3
    <3> QED
      BY <1>1, <1>3, <1>4, <2>4, <3>2, <3>4
  <2> QED
    BY <2>1, <2>2, <2>3, <2>4 DEF LoopCode
<1> QED
  BY <1>1, <1>5, <1>6, <1>7 DEF LoopLoads, P

-----------------------------------------------------------------------------
(* Words 0 .. L - 1, each of which repeats itself, n times again.          *)

Loops(code, n, L) ==
  /\ IsCode(code) /\ L \in 1 .. 14 /\ n \in Nat
  /\ \A k \in 0 .. L - 1 : code[k].type \notin {"JUMP", "EXIT"} /\ RepeatsItself(code[k])
  /\ n = 0 => code[L].type = "EXIT"
  /\ n # 0 => IsJump(code[L], n, L + 1) /\ code[L + 1].type = "EXIT"

LoopOf(i, L) == IF i = 0 THEN -1 ELSE L

LeftOf(i, n) == IF i = 0 THEN -1 ELSE n - i

(* The sequencer before the k-th word in the i-th pass.                    *)
Reached(code, n, L, i, k) ==
  IF k = 0 THEN IF i = 0 THEN ProgramStart
                ELSE Next(code, L - 1, LoopOf(i - 1, L), LeftOf(i - 1, n))
  ELSE Next(code, k - 1, LoopOf(i, L), LeftOf(i, n))

(* The next access executes the k-th word, in every pass.                    *)
LEMMA ReachedReady ==
  ASSUME NEW code, NEW n, NEW L, Loops(code, n, L), NEW i \in 0 .. n, NEW k \in 0 .. L - 1
  PROVE  Ready(code, Reached(code, n, L, i, k), k, LoopOf(i, L), LeftOf(i, n))
<1>1. /\ IsCode(code) /\ L \in 1 .. 14 /\ n \in Nat
      /\ \A h \in 0 .. L - 1 : code[h].type \notin {"JUMP", "EXIT"}
      /\ n # 0 => code[L].type = "JUMP" /\ code[L].loopCounter = n /\ code[L].loopOffset = L + 1
  BY DEF Loops, IsJump
<1>2. CASE k = 0 /\ i = 0
  <2>1. code[0].type # "JUMP"
    BY <1>1
  <2>2. Ready(code, ProgramStart, 0, -1, -1)
    BY <2>1, ReadyStart
  <2> QED
    BY <1>2, <2>2 DEF Reached, LoopOf, LeftOf
<1>3. CASE k = 0 /\ i # 0
  <2> DEFINE lj == LoopOf(i - 1, L)
             j == LeftOf(i - 1, n)
             p == L - 1
  <2>1. /\ p \in 0 .. CRF_WORDS - 2 /\ p + 1 = L /\ lj \in Int /\ j \in Int /\ n \in Nat /\ L + 1 \in Nat
        /\ n # 0
    BY <1>1, <1>3 DEF LoopOf, LeftOf, CRF_WORDS
  <2>2. Count(p + 1, n, lj, j) = n - (i - 1) /\ Counted(p + 1, n, lj) = L
    BY <1>1, <1>3, <2>1 DEF Count, Counted, LoopOf, LeftOf
  <2>3. n - (i - 1) > 0 /\ LeftOf(i, n) = (n - (i - 1)) - 1 /\ LoopOf(i, L) = L
    BY <1>1, <1>3 DEF LoopOf, LeftOf
  <2> DEFINE t == (p + 1) - (L + 1) + 1
             o == L + 1
  <2>4. t = 0 /\ code[0].type \notin {"JUMP", "EXIT"}
    BY <1>1, <2>1
  <2>5. code[p + 1].type = "JUMP" /\ code[p + 1].loopCounter = n /\ code[p + 1].loopOffset = o
    BY <1>1, <2>1
  <2>6. Reached(code, n, L, i, k) = Next(code, p, lj, j)
    BY <1>3 DEF Reached
  <2>7. o \in Nat /\ t = (p + 1) - o + 1 /\ code[t].type \notin {"JUMP", "EXIT"}
    BY <2>1, <2>4
  <2>8. LoopOf(i, L) = Counted(p + 1, n, lj) /\ LeftOf(i, n) = Count(p + 1, n, lj, j) - 1
        /\ Count(p + 1, n, lj, j) > 0
    BY <2>2, <2>3
  <2> HIDE DEF lj, j, p, t, o
  <2>9. Ready(code, Next(code, p, lj, j), t, LoopOf(i, L), LeftOf(i, n))
    BY <2>1, <2>5, <2>7, <2>8, ReadyTaken
  <2> QED
    BY <1>3, <2>4, <2>6, <2>9
<1>4. CASE k # 0
  <2>1. k - 1 \in 0 .. CRF_WORDS - 2 /\ (k - 1) + 1 = k
    BY <1>1, <1>4 DEF CRF_WORDS
  <2>2. PICK h \in 0 .. CRF_WORDS - 2 : h = k - 1 /\ h + 1 = k
    BY <2>1
  <2>3. code[h + 1].type \notin {"JUMP", "EXIT"}
    BY <1>1, <2>2
  <2>4. Ready(code, Next(code, h, LoopOf(i, L), LeftOf(i, n)), h + 1, LoopOf(i, L), LeftOf(i, n))
    BY <2>3, ReadyNext
  <2>5. Reached(code, n, L, i, k) = Next(code, h, LoopOf(i, L), LeftOf(i, n))
    BY <1>4, <2>2 DEF Reached
  <2> QED
    BY <2>2, <2>4, <2>5
<1> QED
  BY <1>2, <1>3, <1>4

(* Behind the last word the next pass begins.                                *)
LEMMA ReachedAll ==
  ASSUME NEW code, NEW n, NEW L, Loops(code, n, L), NEW i \in Nat
  PROVE  Reached(code, n, L, i, L) = Reached(code, n, L, i + 1, 0)
<1>1. L # 0 /\ i + 1 # 0 /\ (i + 1) - 1 = i
  BY DEF Loops
<1> QED
  BY <1>1 DEF Reached

(* Behind the last pass the program has come to its end.                   *)
LEMMA ReachedEnd ==
  ASSUME NEW code, NEW n, NEW L, Loops(code, n, L)
  PROVE  /\ InRange(Reached(code, n, L, n, L))
         /\ code[TurnsOf(code, Reached(code, n, L, n, L)).pc].type = "EXIT"
<1>1. /\ IsCode(code) /\ L \in 1 .. 14 /\ n \in Nat
      /\ n = 0 => code[L].type = "EXIT"
      /\ n # 0 => /\ code[L].type = "JUMP" /\ code[L].loopCounter = n
                  /\ code[L].loopOffset = L + 1 /\ code[L + 1].type = "EXIT"
  BY DEF Loops, IsJump
<1> DEFINE lj == LoopOf(n, L)
           j == LeftOf(n, n)
           p == L - 1
           q == Next(code, p, lj, j)
<1>2. p \in 0 .. CRF_WORDS - 2 /\ p + 1 = L /\ p + 2 = L + 1 /\ lj \in Int /\ j \in Int /\ L + 1 \in Nat
  BY <1>1 DEF LoopOf, LeftOf, CRF_WORDS
<1>3. Reached(code, n, L, n, L) = q
  BY <1>1 DEF Reached
<1>4. (n # 0 => lj = p + 1 /\ j = 0) /\ (j = 0 \/ j < 0)
  BY <1>1, <1>2 DEF LoopOf, LeftOf
<1> HIDE DEF lj, j, p, q
<1>5. NextIs(code, p, lj, j)
  BY <1>2, NextParts
<1>6. InRange(q) /\ q.pc = L
  BY <1>2, <1>5 DEF NextIs, q
<1>7. CASE n = 0
  <2>1. code[q.pc].type = "EXIT"
    BY <1>1, <1>6, <1>7
  <2>2. TurnsOf(code, q) = q
    BY <2>1, NoJump
  <2> QED
    BY <1>3, <1>6, <2>1, <2>2
<1>8. CASE n # 0
  <2>1. PICK o \in Nat : o = L + 1
    BY <1>2
  <2>2. /\ code[p + 1].type = "JUMP" /\ code[p + 1].loopCounter = n /\ code[p + 1].loopOffset = o
        /\ code[p + 2].type = "EXIT" /\ code[p + 2].type # "JUMP"
    BY <1>1, <1>2, <1>8, <2>1
  <2>3. TurnsOf(code, Next(code, p, lj, j)) = At(p + 2, lj, j, -1, 0, Ends(code, p + 2))
    BY <1>1, <1>2, <1>4, <1>8, <2>2, ReadyPassed
  <2>4. TurnsOf(code, q).pc = p + 2
    BY <2>3, Fields DEF q
  <2> QED
    BY <1>3, <1>6, <2>2, <2>4
<1> QED
  BY <1>7, <1>8

(* The accesses of the k-th word.                                            *)
LEMMA LeadsWord ==
  ASSUME NEW code, NEW n, NEW L, Loops(code, n, L), NEW i \in 0 .. n, NEW k \in 0 .. L - 1,
         NEW z, NEW b, NEW full, NEW type, NEW r \in Driven, NEW bank, NEW row, NEW col \in Int,
         NEW step, Serves(code[k], step, bank), InCells(row, col)
  PROVE  Leads(r, AddTransactionAll(type, bank, row, col, Executing(step), TRUE, NUM_GRF),
               b, full, Running(code, z, Reached(code, n, L, i, k)),
               Running(code, z, Reached(code, n, L, i, k + 1)))
<1>1. k \in 0 .. CRF_WORDS - 2 /\ IsCode(code) /\ k + 1 # 0 /\ (k + 1) - 1 = k
  BY DEF Loops, CRF_WORDS
<1>2. Ready(code, Reached(code, n, L, i, k), k, LoopOf(i, L), LeftOf(i, n))
  BY ReachedReady
<1>3. RepeatsItself(code[k]) /\ step = code[k].type /\ SideFits(code[k], bank)
  BY DEF Serves
<1>4. Leads(r, AddTransactionAll(type, bank, row, col, Executing(step), TRUE, NUM_GRF),
            b, full, Running(code, z, Reached(code, n, L, i, k)),
            Running(code, z, Next(code, k, LoopOf(i, L), LeftOf(i, n))))
  BY <1>1, <1>2, <1>3, LeadsReady
<1>5. Reached(code, n, L, i, k + 1) = Next(code, k, LoopOf(i, L), LeftOf(i, n))
  BY <1>1 DEF Reached
<1> QED
  BY <1>4, <1>5

Loads(P) == IsSequence(P) /\ Len(P) \in 1 .. 16 /\ \A i \in 1 .. Len(P) : Fits(P[i])

EltwiseCode(code, type, n) ==
  /\ Loops(code, n, 6)
  /\ \A b \in 0 .. 1 : /\ Serves(code[3 * b], "FILL", b)
                       /\ Serves(code[3 * b + 1], type, b)
                       /\ Serves(code[3 * b + 2], "NOP", b)

ReluCode(code, n) ==
  /\ Loops(code, n, 4)
  /\ \A b \in 0 .. 1 : Serves(code[2 * b], "FILL", b) /\ Serves(code[2 * b + 1], "NOP", b)

(* EltwisePIMKernel, as it is in the CRF.                                    *)
LEMMA EltwiseLoads ==
  ASSUME NEW type \in {"ADD", "MUL"}, NEW n, CanLoop(n), NUM_GRF <= 2 ^ 11
  PROVE  /\ Loads(EltwisePIMKernel(type, n))
         /\ \A code : HoldsProgram(code, EltwisePIMKernel(type, n)) => EltwiseCode(code, type, n)
<1> DEFINE c == << Fill("GRF_A", "EVEN_BANK", 0), AutoCmd(type, "GRF_A", "GRF_A", "EVEN_BANK"),
                   Nop(NUM_GRF - 1),
                   Fill("GRF_B", "ODD_BANK", 0), AutoCmd(type, "GRF_B", "GRF_B", "ODD_BANK"),
                   Nop(NUM_GRF - 1) >>
           P == EltwisePIMKernel(type, n)
<1>1. P = Looped(c, n)
  BY DEF EltwisePIMKernel
<1>2. "EVEN_BANK" = SideOf(0) /\ "ODD_BANK" = SideOf(1)
  BY DEF SideOf
<1>3. /\ Fits(Fill("GRF_A", "EVEN_BANK", 0))
      /\ Serves(InCrf(Fill("GRF_A", "EVEN_BANK", 0)), "FILL", 0)
      /\ Fits(Fill("GRF_B", "ODD_BANK", 0))
      /\ Serves(InCrf(Fill("GRF_B", "ODD_BANK", 0)), "FILL", 1)
  <2>1. PICK even, odd, zero, one :
          even = "EVEN_BANK" /\ odd = "ODD_BANK" /\ zero = 0 /\ one = 1
    OBVIOUS
  <2>2. even = SideOf(zero) /\ odd = SideOf(one) /\ zero \in {0, 1} /\ one \in {0, 1}
    BY <1>2, <2>1
  <2>3. /\ Fits(Fill("GRF_A", even, zero)) /\ Serves(InCrf(Fill("GRF_A", even, zero)), "FILL", zero)
        /\ Fits(Fill("GRF_B", odd, zero)) /\ Serves(InCrf(Fill("GRF_B", odd, zero)), "FILL", one)
    BY <2>2, FillServes
  <2> QED
    BY <2>1, <2>3
<1>4. /\ Fits(AutoCmd(type, "GRF_A", "GRF_A", "EVEN_BANK"))
      /\ Serves(InCrf(AutoCmd(type, "GRF_A", "GRF_A", "EVEN_BANK")), type, 0)
      /\ Fits(AutoCmd(type, "GRF_B", "GRF_B", "ODD_BANK"))
      /\ Serves(InCrf(AutoCmd(type, "GRF_B", "GRF_B", "ODD_BANK")), type, 1)
  <2>1. PICK even, odd, zero, one :
          even = "EVEN_BANK" /\ odd = "ODD_BANK" /\ zero = 0 /\ one = 1
    OBVIOUS
  <2>2. even = SideOf(zero) /\ odd = SideOf(one) /\ zero \in {0, 1} /\ one \in {0, 1}
    BY <1>2, <2>1
  <2>3. /\ Fits(AutoCmd(type, "GRF_A", "GRF_A", even))
        /\ Serves(InCrf(AutoCmd(type, "GRF_A", "GRF_A", even)), type, zero)
        /\ Fits(AutoCmd(type, "GRF_B", "GRF_B", odd))
        /\ Serves(InCrf(AutoCmd(type, "GRF_B", "GRF_B", odd)), type, one)
    BY <2>2, AutoServes
  <2> QED
    BY <2>1, <2>3
<1>5. Fits(Nop(NUM_GRF - 1)) /\ \A bank : Serves(InCrf(Nop(NUM_GRF - 1)), "NOP", bank)
  BY NopServes
<1>6. IsList(c, 6)
  BY DEF IsList, IsSequence
<1>7. /\ c[1] = Fill("GRF_A", "EVEN_BANK", 0)
      /\ c[2] = AutoCmd(type, "GRF_A", "GRF_A", "EVEN_BANK")
      /\ c[3] = Nop(NUM_GRF - 1)
      /\ c[4] = Fill("GRF_B", "ODD_BANK", 0)
      /\ c[5] = AutoCmd(type, "GRF_B", "GRF_B", "ODD_BANK")
      /\ c[6] = Nop(NUM_GRF - 1)
  OBVIOUS
<1> HIDE DEF c, P
<1>8. FitList(c, 6)
  BY <1>3, <1>4, <1>5, <1>6, <1>7 DEF FitList
<1>9. LoopLoads(P, c, n, 6)
  <2>1. PICK L \in 1 .. 14 : L = 6
    OBVIOUS
  <2>2. LoopLoads(Looped(c, n), c, n, L)
    BY <1>8, <2>1, LoopedLoads
  <2> QED
    BY <1>1, <2>1, <2>2
<1>10. Loads(P)
  BY <1>9 DEF LoopLoads, Loads
<1>11. ASSUME NEW code, HoldsProgram(code, P) PROVE EltwiseCode(code, type, n)
  <2>1. LoopCode(code, c, n, 6)
    BY <1>9, <1>11 DEF LoopLoads
  <2>2. /\ IsCode(code)
        /\ \A i \in 0 .. 6 - 1 : code[i] = InCrf(c[i + 1])
        /\ n = 0 => code[6].type = "EXIT"
        /\ n # 0 => IsJump(code[6], n, 6 + 1) /\ code[6 + 1].type = "EXIT"
    BY <2>1 DEF LoopCode
  <2>3. /\ code[0] = InCrf(c[1]) /\ code[1] = InCrf(c[2]) /\ code[2] = InCrf(c[3])
        /\ code[3] = InCrf(c[4]) /\ code[4] = InCrf(c[5]) /\ code[5] = InCrf(c[6])
    BY <2>2
  <2>4. /\ Serves(code[0], "FILL", 0) /\ Serves(code[1], type, 0) /\ Serves(code[2], "NOP", 0)
        /\ Serves(code[3], "FILL", 1) /\ Serves(code[4], type, 1) /\ Serves(code[5], "NOP", 1)
    BY <1>3, <1>4, <1>5, <1>7, <2>3
  <2>5. ASSUME NEW k \in 0 .. 6 - 1
        PROVE  code[k].type \notin {"JUMP", "EXIT"} /\ RepeatsItself(code[k])
    <3>1. k = 0 \/ k = 1 \/ k = 2 \/ k = 3 \/ k = 4 \/ k = 5
      OBVIOUS
    <3>2. \E step \in {"FILL", "ADD", "MUL", "NOP"} : \E bank : Serves(code[k], step, bank)
      BY <2>4, <3>1
    <3> QED
      BY <3>2 DEF Serves
  <2>6. n \in Nat
    BY CanLoopNat
  <2>7. Loops(code, n, 6)
    BY <2>2, <2>5, <2>6 DEF Loops
  <2>8. ASSUME NEW b \in 0 .. 1
        PROVE /\ Serves(code[3 * b], "FILL", b) /\ Serves(code[3 * b + 1], type, b)
              /\ Serves(code[3 * b + 2], "NOP", b)
    <3>1. CASE b = 0
      BY <2>4, <3>1
    <3>2. CASE b = 1
      BY <2>4, <3>2
    <3> QED
      BY <3>1, <3>2
  <2> QED
    BY <2>7, <2>8 DEF EltwiseCode
<1> QED
  BY <1>10, <1>11 DEF P

(* ActPIMKernel, as it is in the CRF.                                        *)
LEMMA ReluLoads ==
  ASSUME NEW n, CanLoop(n), NUM_GRF <= 2 ^ 11
  PROVE  /\ Loads(ActPIMKernel(n))
         /\ \A code : HoldsProgram(code, ActPIMKernel(n)) => ReluCode(code, n)
<1> DEFINE c == << Fill("GRF_A", "EVEN_BANK", 1), Nop(NUM_GRF - 1),
                   Fill("GRF_B", "ODD_BANK", 1), Nop(NUM_GRF - 1) >>
           P == ActPIMKernel(n)
<1>1. P = Looped(c, n)
  BY DEF ActPIMKernel
<1>2. "EVEN_BANK" = SideOf(0) /\ "ODD_BANK" = SideOf(1)
  BY DEF SideOf
<1>3. /\ Fits(Fill("GRF_A", "EVEN_BANK", 1))
      /\ Serves(InCrf(Fill("GRF_A", "EVEN_BANK", 1)), "FILL", 0)
      /\ Fits(Fill("GRF_B", "ODD_BANK", 1))
      /\ Serves(InCrf(Fill("GRF_B", "ODD_BANK", 1)), "FILL", 1)
  <2>1. PICK even, odd, zero, one :
          even = "EVEN_BANK" /\ odd = "ODD_BANK" /\ zero = 0 /\ one = 1
    OBVIOUS
  <2>2. even = SideOf(zero) /\ odd = SideOf(one) /\ zero \in {0, 1} /\ one \in {0, 1}
    BY <1>2, <2>1
  <2>3. /\ Fits(Fill("GRF_A", even, one)) /\ Serves(InCrf(Fill("GRF_A", even, one)), "FILL", zero)
        /\ Fits(Fill("GRF_B", odd, one)) /\ Serves(InCrf(Fill("GRF_B", odd, one)), "FILL", one)
    BY <2>2, FillServes
  <2> QED
    BY <2>1, <2>3
<1>5. Fits(Nop(NUM_GRF - 1)) /\ \A bank : Serves(InCrf(Nop(NUM_GRF - 1)), "NOP", bank)
  BY NopServes
<1>6. IsList(c, 4)
  BY DEF IsList, IsSequence
<1>7. /\ c[1] = Fill("GRF_A", "EVEN_BANK", 1) /\ c[2] = Nop(NUM_GRF - 1)
      /\ c[3] = Fill("GRF_B", "ODD_BANK", 1) /\ c[4] = Nop(NUM_GRF - 1)
  OBVIOUS
<1> HIDE DEF c, P
<1>8. FitList(c, 4)
  BY <1>3, <1>5, <1>6, <1>7 DEF FitList
<1>9. LoopLoads(P, c, n, 4)
  <2>1. PICK L \in 1 .. 14 : L = 4
    OBVIOUS
  <2>2. LoopLoads(Looped(c, n), c, n, L)
    BY <1>8, <2>1, LoopedLoads
  <2> QED
    BY <1>1, <2>1, <2>2
<1>10. Loads(P)
  BY <1>9 DEF LoopLoads, Loads
<1>11. ASSUME NEW code, HoldsProgram(code, P) PROVE ReluCode(code, n)
  <2>1. LoopCode(code, c, n, 4)
    BY <1>9, <1>11 DEF LoopLoads
  <2>2. /\ IsCode(code)
        /\ \A i \in 0 .. 4 - 1 : code[i] = InCrf(c[i + 1])
        /\ n = 0 => code[4].type = "EXIT"
        /\ n # 0 => IsJump(code[4], n, 4 + 1) /\ code[4 + 1].type = "EXIT"
    BY <2>1 DEF LoopCode
  <2>3. /\ code[0] = InCrf(c[1]) /\ code[1] = InCrf(c[2]) /\ code[2] = InCrf(c[3])
        /\ code[3] = InCrf(c[4])
    BY <2>2
  <2>4. /\ Serves(code[0], "FILL", 0) /\ Serves(code[1], "NOP", 0)
        /\ Serves(code[2], "FILL", 1) /\ Serves(code[3], "NOP", 1)
    BY <1>3, <1>5, <1>7, <2>3
  <2>5. ASSUME NEW k \in 0 .. 4 - 1
        PROVE  code[k].type \notin {"JUMP", "EXIT"} /\ RepeatsItself(code[k])
    <3>1. k = 0 \/ k = 1 \/ k = 2 \/ k = 3
      OBVIOUS
    <3>2. \E step \in {"FILL", "NOP"} : \E bank : Serves(code[k], step, bank)
      BY <2>4, <3>1
    <3> QED
      BY <3>2 DEF Serves
  <2>6. n \in Nat
    BY CanLoopNat
  <2>7. Loops(code, n, 4)
    BY <2>2, <2>5, <2>6 DEF Loops
  <2>8. ASSUME NEW b \in 0 .. 1
        PROVE Serves(code[2 * b], "FILL", b) /\ Serves(code[2 * b + 1], "NOP", b)
    <3>1. CASE b = 0
      BY <2>4, <3>1
    <3>2. CASE b = 1
      BY <2>4, <3>2
    <3> QED
      BY <3>1, <3>2
  <2> QED
    BY <2>7, <2>8 DEF ReluCode
<1> QED
  BY <1>10, <1>11 DEF P

(* The accesses of one instruction to the cells of a bank.                 *)
Group(type, bank, row, col, step) ==
  AddTransactionAll(type, bank, row, col, Executing(step), TRUE, NUM_GRF)

(* Operand, operand and result of one side are in step with three words of   *)
(* the program.                                                              *)
LEMMA LeadsSide ==
  ASSUME NEW code, NEW type, NEW n, EltwiseCode(code, type, n), NEW i \in 0 .. n,
         NEW bank \in 0 .. 1, NEW col \in Int, NEW z, NEW b, NEW full, NEW r \in Driven,
         InCells(INPUT0_ROW, col), InCells(INPUT1_ROW, col), InCells(RESULT_ROW, col)
  PROVE  Leads(r, Group("DATA_READ", bank, INPUT0_ROW, col, "FILL")
                    \o Group("DATA_READ", bank, INPUT1_ROW, col, type)
                    \o Group("DATA_WRITE", bank, RESULT_ROW, col, "NOP"),
               b, full, Running(code, z, Reached(code, n, 6, i, 3 * bank)),
               Running(code, z, Reached(code, n, 6, i, 3 * (bank + 1))))
<1> DEFINE S(k) == Running(code, z, Reached(code, n, 6, i, k))
<1>1. PICK L, k0, k1, k2 : L = 6 /\ k0 = 3 * bank /\ k1 = 3 * bank + 1 /\ k2 = 3 * bank + 2
  OBVIOUS
<1>2. PICK read, write, fill, nop :
        read = "DATA_READ" /\ write = "DATA_WRITE" /\ fill = "FILL" /\ nop = "NOP"
  OBVIOUS
<1>3. /\ Loops(code, n, L) /\ k0 \in 0 .. L - 1 /\ k1 \in 0 .. L - 1 /\ k2 \in 0 .. L - 1
      /\ k0 + 1 = k1 /\ k1 + 1 = k2 /\ k2 + 1 = 3 * (bank + 1)
  BY <1>1 DEF EltwiseCode
<1>4. Serves(code[k0], fill, bank) /\ Serves(code[k1], type, bank) /\ Serves(code[k2], nop, bank)
  BY <1>1, <1>2 DEF EltwiseCode
<1>5. Leads(r, Group(read, bank, INPUT0_ROW, col, fill), b, full, S(k0), S(k1))
  <2>1. Leads(r, AddTransactionAll(read, bank, INPUT0_ROW, col, Executing(fill), TRUE, NUM_GRF),
              b, full, Running(code, z, Reached(code, n, L, i, k0)),
              Running(code, z, Reached(code, n, L, i, k0 + 1)))
    BY <1>3, <1>4, LeadsWord
  <2> QED
    BY <1>1, <1>3, <2>1 DEF Group
<1>6. Leads(r, Group(read, bank, INPUT1_ROW, col, type), b, full, S(k1), S(k2))
  <2>1. Leads(r, AddTransactionAll(read, bank, INPUT1_ROW, col, Executing(type), TRUE, NUM_GRF),
              b, full, Running(code, z, Reached(code, n, L, i, k1)),
              Running(code, z, Reached(code, n, L, i, k1 + 1)))
    BY <1>3, <1>4, LeadsWord
  <2> QED
    BY <1>1, <1>3, <2>1 DEF Group
<1>7. Leads(r, Group(write, bank, RESULT_ROW, col, nop), b, full, S(k2), S(k2 + 1))
  <2>1. Leads(r, AddTransactionAll(write, bank, RESULT_ROW, col, Executing(nop), TRUE, NUM_GRF),
              b, full, Running(code, z, Reached(code, n, L, i, k2)),
              Running(code, z, Reached(code, n, L, i, k2 + 1)))
    BY <1>3, <1>4, LeadsWord
  <2> QED
    BY <1>1, <2>1 DEF Group
<1> DEFINE A == Group(read, bank, INPUT0_ROW, col, fill)
           B == Group(read, bank, INPUT1_ROW, col, type)
           C == Group(write, bank, RESULT_ROW, col, nop)
<1>8. Leads(r, (A \o B) \o C, b, full, S(k0), S(k2 + 1))
  <2> HIDE DEF A, B, C, S
  <2>1. Leads(r, A \o B, b, full, S(k0), S(k2))
    BY <1>5, <1>6, LeadsFurther DEF A, B
  <2> QED
    BY <1>7, <2>1, LeadsFurther DEF C
<1> QED
  BY <1>1, <1>2, <1>3, <1>8

(* Operand and result of one side, with two.                                 *)
LEMMA LeadsReluSide ==
  ASSUME NEW code, NEW n, ReluCode(code, n), NEW i \in 0 .. n,
         NEW bank \in 0 .. 1, NEW col \in Int, NEW z, NEW b, NEW full, NEW r \in Driven,
         InCells(INPUT0_ROW, col), InCells(RESULT_ROW, col)
  PROVE  Leads(r, Group("DATA_READ", bank, INPUT0_ROW, col, "FILL")
                    \o Group("DATA_WRITE", bank, RESULT_ROW, col, "NOP"),
               b, full, Running(code, z, Reached(code, n, 4, i, 2 * bank)),
               Running(code, z, Reached(code, n, 4, i, 2 * (bank + 1))))
<1> DEFINE S(k) == Running(code, z, Reached(code, n, 4, i, k))
<1>1. PICK L, k0, k1 : L = 4 /\ k0 = 2 * bank /\ k1 = 2 * bank + 1
  OBVIOUS
<1>2. PICK read, write, fill, nop :
        read = "DATA_READ" /\ write = "DATA_WRITE" /\ fill = "FILL" /\ nop = "NOP"
  OBVIOUS
<1>3. /\ Loops(code, n, L) /\ k0 \in 0 .. L - 1 /\ k1 \in 0 .. L - 1
      /\ k0 + 1 = k1 /\ k1 + 1 = 2 * (bank + 1)
  BY <1>1 DEF ReluCode
<1>4. Serves(code[k0], fill, bank) /\ Serves(code[k1], nop, bank)
  BY <1>1, <1>2 DEF ReluCode
<1>5. Leads(r, Group(read, bank, INPUT0_ROW, col, fill), b, full, S(k0), S(k1))
  <2>1. Leads(r, AddTransactionAll(read, bank, INPUT0_ROW, col, Executing(fill), TRUE, NUM_GRF),
              b, full, Running(code, z, Reached(code, n, L, i, k0)),
              Running(code, z, Reached(code, n, L, i, k0 + 1)))
    BY <1>3, <1>4, LeadsWord
  <2> QED
    BY <1>1, <1>3, <2>1 DEF Group
<1>6. Leads(r, Group(write, bank, RESULT_ROW, col, nop), b, full, S(k1), S(k1 + 1))
  <2>1. Leads(r, AddTransactionAll(write, bank, RESULT_ROW, col, Executing(nop), TRUE, NUM_GRF),
              b, full, Running(code, z, Reached(code, n, L, i, k1)),
              Running(code, z, Reached(code, n, L, i, k1 + 1)))
    BY <1>3, <1>4, LeadsWord
  <2> QED
    BY <1>1, <2>1 DEF Group
<1> DEFINE A == Group(read, bank, INPUT0_ROW, col, fill)
           B == Group(write, bank, RESULT_ROW, col, nop)
<1>7. Leads(r, A \o B, b, full, S(k0), S(k1 + 1))
  <2> HIDE DEF A, B, S
  <2> QED
    BY <1>5, <1>6, LeadsFurther DEF A, B
<1> QED
  BY <1>1, <1>2, <1>3, <1>7

(* Two sides, n + 1 times.                                                 *)
Tiles(m, side) == Joined(m, [i \in 0 .. m - 1 |-> Joined(2, side[i])])

(* All tiles, both sides: the loop of the program is in step with that of    *)
(* the kernel.                                                               *)
LEMMA LeadsTiles ==
  ASSUME NEW code, NEW n \in Nat, NEW L, NEW h \in Nat, L = 2 * h, Loops(code, n, L),
         NEW z, NEW b, NEW full, NEW r, NEW side,
         \A i \in 0 .. n : \A bank \in 0 .. 1 :
           Leads(r, side[i][bank], b, full, Running(code, z, Reached(code, n, L, i, h * bank)),
                 Running(code, z, Reached(code, n, L, i, h * (bank + 1))))
  PROVE  Leads(r, Tiles(n + 1, side), b, full,
               Running(code, z, ProgramStart), Running(code, z, Reached(code, n, L, n, L)))
<1> DEFINE f == [i \in 0 .. (n + 1) - 1 |-> Joined(2, side[i])]
           S(i, k) == Running(code, z, Reached(code, n, L, i, k))
           D == [i \in 0 .. n + 1 |-> S(i, 0)]
<1>1. Tiles(n + 1, side) = Joined(n + 1, f)
  BY DEF Tiles
<1>2. ASSUME NEW i \in 0 .. n PROVE Leads(r, Joined(2, side[i]), b, full, S(i, 0), S(i, L))
  <2> DEFINE E == [bank \in 0 .. 2 |-> S(i, h * bank)]
             gi == side[i]
  <2>1. ASSUME NEW bank \in 0 .. 2 - 1 PROVE Leads(r, gi[bank], b, full, E[bank], E[bank + 1])
    <3>1. gi[bank] = side[i][bank] /\ E[bank] = S(i, h * bank) /\ E[bank + 1] = S(i, h * (bank + 1))
      BY <2>1
    <3>2. bank \in 0 .. 1
      BY <2>1
    <3> HIDE DEF gi, E
    <3> QED
      BY <3>1, <3>2
  <2>2. E[0] = S(i, h * 0) /\ E[2] = S(i, h * 2) /\ h * 0 = 0 /\ h * 2 = L
    OBVIOUS
  <2> HIDE DEF gi, E, S
  <2>3. PICK two \in Nat : two = 2
    OBVIOUS
  <2>4. Leads(r, Joined(two, gi), b, full, E[0], E[two])
    BY <2>1, <2>3, LeadsJoined
  <2> QED
    BY <2>2, <2>3, <2>4 DEF gi
<1>3. ASSUME NEW i \in 0 .. (n + 1) - 1 PROVE Leads(r, f[i], b, full, D[i], D[i + 1])
  <2>1. f[i] = Joined(2, side[i]) /\ D[i] = S(i, 0) /\ D[i + 1] = S(i + 1, 0)
    BY <1>3
  <2>2. S(i, L) = S(i + 1, 0)
    BY ReachedAll
  <2>3. i \in 0 .. n
    BY <1>3
  <2> HIDE DEF f, D, S
  <2> QED
    BY <1>2, <2>1, <2>2, <2>3
<1>4. D[0] = S(0, 0) /\ D[n + 1] = S(n + 1, 0)
  OBVIOUS
<1>5. S(0, 0) = Running(code, z, ProgramStart)
  BY DEF Reached
<1>6. S(n + 1, 0) = S(n, L)
  BY ReachedAll
<1> HIDE DEF f, D
<1>7. PICK m \in Nat : m = n + 1
  OBVIOUS
<1>8. Leads(r, Joined(m, f), b, full, D[0], D[m])
  BY <1>3, <1>7, LeadsJoined
<1> QED
  BY <1>1, <1>4, <1>5, <1>6, <1>7, <1>8

-----------------------------------------------------------------------------

(* The accesses of ADD and of MUL, from the start of the program to its end. *)
LEMMA LeadsAddOrMul ==
  ASSUME NEW job, job.tiles \in Nat \ {0}, NEW code, NEW n, n = job.tiles - 1,
         EltwiseCode(code, job.kernel, n), RegularEltwise(job),
         NEW z, NEW b, NEW full, NEW r \in Driven
  PROVE  Leads(r, ComputeAddOrMul(job), b, full, Running(code, z, ProgramStart),
               Running(code, z, Reached(code, n, 6, n, 6)))
<1> DEFINE s(i, bank) == Group("DATA_READ", bank, INPUT0_ROW, NUM_GRF * i, "FILL")
                           \o Group("DATA_READ", bank, INPUT1_ROW, NUM_GRF * i, job.kernel)
                           \o Group("DATA_WRITE", bank, RESULT_ROW, NUM_GRF * i, "NOP")
           side == [i \in 0 .. job.tiles - 1 |-> [bank \in 0 .. 2 - 1 |-> s(i, bank)]]
           f == [i \in 0 .. job.tiles - 1 |-> Joined(2, [bank \in 0 .. 2 - 1 |-> s(i, bank)])]
<1>1. ComputeAddOrMul(job) = Joined(job.tiles, f)
  BY DEF ComputeAddOrMul, ForEach, Group
<1>2. f = [i \in 0 .. job.tiles - 1 |-> Joined(2, side[i])]
  OBVIOUS
<1>3. n \in Nat /\ job.tiles = n + 1
  OBVIOUS
<1>4. \A i \in 0 .. n : \A bank \in 0 .. 1 : side[i][bank] = s(i, bank)
  BY <1>3, SMTT(30)
<1>5. ASSUME NEW i \in 0 .. n, NEW bank \in 0 .. 1
      PROVE  Leads(r, s(i, bank), b, full, Running(code, z, Reached(code, n, 6, i, 3 * bank)),
                   Running(code, z, Reached(code, n, 6, i, 3 * (bank + 1))))
  <2>1. PICK col \in Int : col = NUM_GRF * i
    BY GrfAssumption
  <2>2. InCells(INPUT0_ROW, col) /\ InCells(INPUT1_ROW, col) /\ InCells(RESULT_ROW, col)
    BY <2>1 DEF RegularEltwise
  <2>3. PICK type : type = job.kernel
    OBVIOUS
  <2>4. Leads(r, Group("DATA_READ", bank, INPUT0_ROW, col, "FILL")
                   \o Group("DATA_READ", bank, INPUT1_ROW, col, type)
                   \o Group("DATA_WRITE", bank, RESULT_ROW, col, "NOP"), b, full,
              Running(code, z, Reached(code, n, 6, i, 3 * bank)),
              Running(code, z, Reached(code, n, 6, i, 3 * (bank + 1))))
    BY <2>2, <2>3, LeadsSide
  <2> QED
    BY <2>1, <2>3, <2>4
<1> HIDE DEF s, side, f
<1>6. PICK L, h : L = 6 /\ h = 3
  OBVIOUS
<1>7. \A i \in 0 .. n : \A bank \in 0 .. 1 :
        Leads(r, side[i][bank], b, full, Running(code, z, Reached(code, n, L, i, h * bank)),
              Running(code, z, Reached(code, n, L, i, h * (bank + 1))))
  BY <1>4, <1>5, <1>6
<1>8. L = 2 * h /\ h \in Nat /\ Loops(code, n, L)
  BY <1>6 DEF EltwiseCode
<1>9. Leads(r, Tiles(n + 1, side), b, full,
            Running(code, z, ProgramStart), Running(code, z, Reached(code, n, L, n, L)))
  BY <1>3, <1>7, <1>8, LeadsTiles
<1> QED
  BY <1>1, <1>2, <1>3, <1>6, <1>9 DEF Tiles

(* The accesses of RELU.                                                     *)
LEMMA LeadsRelu ==
  ASSUME NEW job, job.tiles \in Nat \ {0}, NEW code, NEW n, n = job.tiles - 1,
         ReluCode(code, n), RegularEltwise(job),
         NEW z, NEW b, NEW full, NEW r \in Driven
  PROVE  Leads(r, ComputeRelu(job), b, full, Running(code, z, ProgramStart),
               Running(code, z, Reached(code, n, 4, n, 4)))
<1> DEFINE s(i, bank) == Group("DATA_READ", bank, INPUT0_ROW, NUM_GRF * i, "FILL")
                           \o Group("DATA_WRITE", bank, RESULT_ROW, NUM_GRF * i, "NOP")
           side == [i \in 0 .. job.tiles - 1 |-> [bank \in 0 .. 2 - 1 |-> s(i, bank)]]
           f == [i \in 0 .. job.tiles - 1 |-> Joined(2, [bank \in 0 .. 2 - 1 |-> s(i, bank)])]
<1>1. ComputeRelu(job) = Joined(job.tiles, f)
  BY DEF ComputeRelu, ForEach, Group
<1>2. f = [i \in 0 .. job.tiles - 1 |-> Joined(2, side[i])]
  OBVIOUS
<1>3. n \in Nat /\ job.tiles = n + 1
  OBVIOUS
<1>4. \A i \in 0 .. n : \A bank \in 0 .. 1 : side[i][bank] = s(i, bank)
  BY <1>3
<1>5. ASSUME NEW i \in 0 .. n, NEW bank \in 0 .. 1
      PROVE  Leads(r, s(i, bank), b, full, Running(code, z, Reached(code, n, 4, i, 2 * bank)),
                   Running(code, z, Reached(code, n, 4, i, 2 * (bank + 1))))
  <2>1. PICK col \in Int : col = NUM_GRF * i
    BY GrfAssumption
  <2>2. InCells(INPUT0_ROW, col) /\ InCells(RESULT_ROW, col)
    BY <2>1 DEF RegularEltwise
  <2>4. Leads(r, Group("DATA_READ", bank, INPUT0_ROW, col, "FILL")
                   \o Group("DATA_WRITE", bank, RESULT_ROW, col, "NOP"), b, full,
              Running(code, z, Reached(code, n, 4, i, 2 * bank)),
              Running(code, z, Reached(code, n, 4, i, 2 * (bank + 1))))
    BY <2>2, LeadsReluSide
  <2> QED
    BY <2>1, <2>4
<1> HIDE DEF s, side, f
<1>6. PICK L, h : L = 4 /\ h = 2
  OBVIOUS
<1>7. \A i \in 0 .. n : \A bank \in 0 .. 1 :
        Leads(r, side[i][bank], b, full, Running(code, z, Reached(code, n, L, i, h * bank)),
              Running(code, z, Reached(code, n, L, i, h * (bank + 1))))
  BY <1>4, <1>5, <1>6
<1>8. L = 2 * h /\ h \in Nat /\ Loops(code, n, L)
  BY <1>6 DEF ReluCode
<1>9. Leads(r, Tiles(n + 1, side), b, full,
            Running(code, z, ProgramStart), Running(code, z, Reached(code, n, L, n, L)))
  BY <1>3, <1>7, <1>8, LeadsTiles
<1> QED
  BY <1>1, <1>2, <1>3, <1>6, <1>9 DEF Tiles

-----------------------------------------------------------------------------
(* The kernels for vectors.                                                *)

(* What every kernel needs.                                                *)
RegularDevice == Carries /\ RegularSizes

EltwiseBody(job) == IF job.kernel = "RELU" THEN ComputeRelu(job) ELSE ComputeAddOrMul(job)

Ended(code, q) == InRange(q) /\ code[TurnsOf(code, q).pc].type = "EXIT"

(* A kernel for vectors uses its program up.                                 *)
LEMMA EltwiseEnds ==
  ASSUME NEW job \in Jobs, job.kernel \in {"ADD", "MUL", "RELU"}, RegularEltwise(job),
         RegularDevice, NEW code, HoldsProgram(code, Program(job)),
         NEW z, NEW b, NEW full, NEW r \in Driven
  PROVE  \E q : /\ Ended(code, q)
                /\ Leads(r, EltwiseBody(job), b, full, Running(code, z, ProgramStart),
                         Running(code, z, q))
<1> DEFINE n == job.tiles - 1
<1>1. job.tiles \in Nat \ {0}
  BY SessionsAssumption
<1>2. CanLoop(n) /\ NUM_GRF <= 2 ^ 11 /\ n = job.tiles - 1
  BY DEF RegularEltwise, RegularDevice, RegularSizes
<1> HIDE DEF n
<1>3. CASE job.kernel = "RELU"
  <2>1. Program(job) = ActPIMKernel(n)
    BY <1>2, <1>3 DEF Program
  <2>2. ReluCode(code, n)
    BY <1>2, <2>1, ReluLoads
  <2>3. Leads(r, ComputeRelu(job), b, full, Running(code, z, ProgramStart),
              Running(code, z, Reached(code, n, 4, n, 4)))
    BY <1>1, <1>2, <2>2, LeadsRelu
  <2>4. PICK L : L = 4
    OBVIOUS
  <2>5. Loops(code, n, L)
    BY <2>2, <2>4 DEF ReluCode
  <2>6. Ended(code, Reached(code, n, L, n, L))
    BY <2>5, ReachedEnd DEF Ended
  <2>7. EltwiseBody(job) = ComputeRelu(job)
    BY <1>3 DEF EltwiseBody
  <2> QED
    BY <2>3, <2>4, <2>6, <2>7
<1>4. CASE job.kernel \in {"ADD", "MUL"}
  <2>1. Program(job) = EltwisePIMKernel(job.kernel, n)
    BY <1>2, <1>4 DEF Program
  <2>2. EltwiseCode(code, job.kernel, n)
    BY <1>2, <1>4, <2>1, EltwiseLoads
  <2>3. Leads(r, ComputeAddOrMul(job), b, full, Running(code, z, ProgramStart),
              Running(code, z, Reached(code, n, 6, n, 6)))
    BY <1>1, <1>2, <2>2, LeadsAddOrMul
  <2>4. PICK L : L = 6
    OBVIOUS
  <2>5. Loops(code, n, L)
    BY <2>2, <2>4 DEF EltwiseCode
  <2>6. Ended(code, Reached(code, n, L, n, L))
    BY <2>5, ReachedEnd DEF Ended
  <2>7. EltwiseBody(job) = ComputeAddOrMul(job)
    BY <1>4 DEF EltwiseBody
  <2> QED
    BY <2>3, <2>4, <2>6, <2>7
<1> QED
  BY <1>3, <1>4

(* Its program fits the CRF and its words.                                   *)
LEMMA EltwiseProgramLoads ==
  ASSUME NEW job \in Jobs, job.kernel \in {"ADD", "MUL", "RELU"}, RegularEltwise(job), RegularDevice
  PROVE  Loads(Program(job))
<1> DEFINE n == job.tiles - 1
<1>2. CanLoop(n) /\ NUM_GRF <= 2 ^ 11 /\ n = job.tiles - 1
  BY DEF RegularEltwise, RegularDevice, RegularSizes
<1> HIDE DEF n
<1>3. CASE job.kernel = "RELU"
  <2>1. Program(job) = ActPIMKernel(n)
    BY <1>2, <1>3 DEF Program
  <2> QED
    BY <1>2, <2>1, ReluLoads
<1>4. CASE job.kernel \in {"ADD", "MUL"}
  <2>1. Program(job) = EltwisePIMKernel(job.kernel, n)
    BY <1>2, <1>4 DEF Program
  <2> QED
    BY <1>2, <1>4, <2>1, EltwiseLoads
<1> QED
  BY <1>3, <1>4

(* The program of a kernel is loaded by ProgramCrf.                        *)
LEMMA LeadsProgram ==
  ASSUME NEW r \in Driven, NEW job, Loads(Program(job)), RegularDevice,
         NEW b, NEW full, NEW d, Resting(d)
  PROVE  \E e : /\ Resting(e) /\ HoldsProgram(e.crf, Program(job))
                /\ Leads(r, ProgramCrf(Program(job)), BuffersAfter(b, job), full, d, e)
<1>1. PICK P : P = Program(job)
  OBVIOUS
<1>2. /\ IsSequence(P) /\ Len(P) \in 1 .. 16 /\ \A n \in 1 .. Len(P) : Fits(P[n])
      /\ Carries /\ NUM_COLS_PER_BL > 5
  BY <1>1 DEF Loads, RegularDevice, RegularSizes
<1>3. \E e : /\ Resting(e) /\ HoldsProgram(e.crf, P)
             /\ Leads(r, ProgramCrf(P), BuffersAfter(b, job), full, d, e)
  BY <1>1, <1>2, ProgramLoads
<1> QED
  BY <1>1, <1>3

(* A kernel for vectors, from one rest to the next: it is in step all the    *)
(* way.                                                                      *)
LEMMA EltwiseFits ==
  ASSUME NEW job \in Jobs, job.kernel \in {"ADD", "MUL", "RELU"}, RegularEltwise(job),
         RegularDevice, NEW b, NEW full, NEW d, Resting(d), NEW r \in Driven
  PROVE  \E e : Resting(e) /\ Leads(r, Kernel(job), BuffersAfter(b, job), full, d, e)
<1> DEFINE c == BuffersAfter(b, job)
           P == Program(job)
           p1 == ParkIn
           p2 == ChangePIMMode("SB", "HAB")
           p3 == ProgramCrf(P)
           p4 == ChangePIMMode("HAB", "HAB_PIM")
           p5 == EltwiseBody(job)
           p6 == ChangePIMMode("HAB_PIM", "HAB")
           p7 == ChangePIMMode("HAB", "SB")
           p8 == ParkOut
<1>1. Kernel(job) = (((((((p1 \o p2) \o p3) \o p4) \o p5) \o p6) \o p7) \o p8)
  <2>1. ~IsGemv(job)
    BY DEF IsGemv
  <2> QED
    BY <2>1 DEF Kernel, ExecuteEltwise, EltwiseBody
<1>2. c.stopped = StoppedWord /\ c.started = [op |-> TRUE, toggle |-> 0, zero |-> Zeroed(job)]
  <2>1. ~IsGemv(job)
    BY DEF IsGemv
  <2> QED
    BY <2>1 DEF BuffersAfter, StoppedWord
<1>3. PICK m : /\ Resting(m) /\ HoldsProgram(m.crf, P)
               /\ Leads(r, p3, c, full, d, m)
  BY EltwiseProgramLoads, LeadsProgram
<1> DEFINE code == m.crf
           z == Zeroed(job)
<1> HIDE DEF c, p1, p2, p3, p4, p5, p6, p7, p8
<1>4. Leads(r, p1, c, full, d, d) /\ Leads(r, p2, c, full, d, d)
  BY QuietModeChanges, LeadsQuietStage DEF Resting, p1, p2
<1>5. Leads(r, p4, c, full, m, Running(code, z, ProgramStart))
  BY <1>2, <1>3, LeadsStart DEF p4, RegularDevice, RegularSizes
<1>6. PICK q : /\ Ended(code, q)
               /\ Leads(r, p5, c, full, Running(code, z, ProgramStart), Running(code, z, q))
  BY <1>3, EltwiseEnds DEF p5
<1> DEFINE e == Paused(code, q)
<1>7. IsCode(code)
  BY <1>3 DEF HoldsProgram
<1>8. Resting(e)
  BY <1>6, <1>7, PausedResting DEF Ended
<1>9. Leads(r, p6, c, full, Running(code, z, q), e)
  BY <1>2, <1>6, <1>7, LeadsStop DEF p6, Ended, RegularDevice, RegularSizes
<1> HIDE DEF e, code, z
<1>10. Leads(r, p7, c, full, e, e) /\ Leads(r, p8, c, full, e, e)
  BY <1>8, QuietModeChanges, LeadsQuietStage DEF Resting, p7, p8
<1>11. Leads(r, p1 \o p2, c, full, d, d)
  BY <1>4, LeadsFurther
<1>12. Leads(r, (p1 \o p2) \o p3, c, full, d, m)
  BY <1>3, <1>11, LeadsFurther
<1>13. Leads(r, ((p1 \o p2) \o p3) \o p4, c, full, d, Running(code, z, ProgramStart))
  BY <1>5, <1>12, LeadsFurther
<1>14. Leads(r, (((p1 \o p2) \o p3) \o p4) \o p5, c, full, d, Running(code, z, q))
  BY <1>6, <1>13, LeadsFurther
<1>15. Leads(r, ((((p1 \o p2) \o p3) \o p4) \o p5) \o p6, c, full, d, e)
  BY <1>9, <1>14, LeadsFurther
<1>16. Leads(r, (((((p1 \o p2) \o p3) \o p4) \o p5) \o p6) \o p7, c, full, d, e)
  BY <1>10, <1>15, LeadsFurther
<1>17. Leads(r, ((((((p1 \o p2) \o p3) \o p4) \o p5) \o p6) \o p7) \o p8, c, full, d, e)
  BY <1>10, <1>16, LeadsFurther
<1> QED
  BY <1>1, <1>8, <1>17 DEF c

-----------------------------------------------------------------------------
(* A word that a jump behind it repeats: laps.                             *)

(* The jump at word p + 1 goes back to word p, c times.                    *)
Laps(code, p, c) ==
  /\ IsCode(code) /\ p \in 0 .. 12 /\ c \in Nat /\ c > 0
  /\ RepeatsItself(code[p]) /\ code[p].type \notin {"JUMP", "EXIT"}
  /\ IsJump(code[p + 1], c, 2)

(* The jump registers when word p is executed in lap t, and the sequencer  *)
(* before it, if lap 0 starts with q, lj and j.                            *)
LapJump(p, lj, t) == IF t = 0 THEN lj ELSE p + 1

LapLeft(c, j, t) == IF t = 0 THEN j ELSE c - t

Lap(code, q, p, c, lj, j, t) ==
  IF t = 0 THEN q ELSE Next(code, p, LapJump(p, lj, t - 1), LapLeft(c, j, t - 1))

LapStarts(code, q, p, lj, j) ==
  Ready(code, q, p, lj, j) /\ lj \in Int /\ j \in Int /\ lj # p + 1

(* In every lap the next access executes word p.                             *)
LEMMA LapReady ==
  ASSUME NEW code, NEW q, NEW p, NEW c, NEW lj, NEW j, Laps(code, p, c),
         LapStarts(code, q, p, lj, j), NEW t \in 0 .. c
  PROVE  Ready(code, Lap(code, q, p, c, lj, j, t), p, LapJump(p, lj, t), LapLeft(c, j, t))
<1>1. CASE t = 0
  BY <1>1 DEF Lap, LapJump, LapLeft, LapStarts
<1>2. CASE t # 0
  <2> DEFINE l == LapJump(p, lj, t - 1)
             m == LapLeft(c, j, t - 1)
             nl == LapJump(p, lj, t)
             nj == LapLeft(c, j, t)
  <2>1. /\ l \in Int /\ m \in Int
        /\ Count(p + 1, c, l, m) > 0 /\ nl = Counted(p + 1, c, l) /\ nj = Count(p + 1, c, l, m) - 1
    <3>1. CASE t = 1
      BY <3>1 DEF LapJump, LapLeft, LapStarts, Count, Counted, Laps
    <3>2. CASE t > 1
      BY <3>2 DEF LapJump, LapLeft, LapStarts, Count, Counted, Laps
    <3> QED
      BY <1>2, <3>1, <3>2
  <2>2. Lap(code, q, p, c, lj, j, t) = Next(code, p, l, m)
    BY <1>2 DEF Lap
  <2>3. p \in 0 .. CRF_WORDS - 2 /\ c \in Nat /\ 2 \in Nat /\ p = (p + 1) - 2 + 1
    BY DEF Laps, CRF_WORDS
  <2>4. PICK o \in Nat : o = 2
    OBVIOUS
  <2>5. /\ code[p + 1].type = "JUMP" /\ code[p + 1].loopCounter = c /\ code[p + 1].loopOffset = o
        /\ code[p].type \notin {"JUMP", "EXIT"} /\ p = (p + 1) - o + 1
    BY <2>3, <2>4 DEF Laps, IsJump
  <2> HIDE DEF l, m, nl, nj
  <2>6. Ready(code, Next(code, p, l, m), p, nl, nj)
    BY <2>1, <2>3, <2>5, ReadyTaken
  <2> QED
    BY <2>2, <2>6 DEF nl, nj
<1> QED
  BY <1>1, <1>2

(* Behind the last lap.                                                    *)
LEMMA LapLast ==
  ASSUME NEW code, NEW q, NEW p, NEW c, NEW lj, NEW j, Laps(code, p, c)
  PROVE  Lap(code, q, p, c, lj, j, c + 1) = Next(code, p, p + 1, 0)
<1>1. c \in Nat /\ c > 0
  BY DEF Laps
<1>2. c + 1 # 0 /\ (c + 1) - 1 = c /\ c # 0 /\ c - c = 0
  BY <1>1
<1> QED
  BY <1>2 DEF Lap, LapJump, LapLeft

(* The program counter stays in the CRF.                                     *)
LEMMA LapInRange ==
  ASSUME NEW code, NEW q, NEW p, NEW c, NEW lj, NEW j, Laps(code, p, c),
         LapStarts(code, q, p, lj, j), NEW t \in Nat
  PROVE  InRange(Lap(code, q, p, c, lj, j, t))
<1>1. CASE t = 0
  BY <1>1 DEF Lap, LapStarts, Ready, InRange
<1>2. CASE t # 0
  <2>1. p \in 0 .. CRF_WORDS - 2
    BY DEF Laps, CRF_WORDS
  <2>2. NextIs(code, p, LapJump(p, lj, t - 1), LapLeft(c, j, t - 1))
    BY <2>1, NextParts
  <2> QED
    BY <1>2, <2>2 DEF Lap, NextIs
<1> QED
  BY <1>1, <1>2

(* The accesses of one lap.                                                  *)
LEMMA LeadsLap ==
  ASSUME NEW code, NEW q, NEW p, NEW c, NEW lj, NEW j, Laps(code, p, c),
         LapStarts(code, q, p, lj, j), NEW t \in 0 .. c,
         NEW z, NEW b, NEW full, NEW type, NEW r \in Driven, NEW bank, NEW row, NEW col \in Int,
         NEW step, Serves(code[p], step, bank), InCells(row, col)
  PROVE  Leads(r, Group(type, bank, row, col, step), b, full,
               Running(code, z, Lap(code, q, p, c, lj, j, t)),
               Running(code, z, Lap(code, q, p, c, lj, j, t + 1)))
<1> DEFINE l == LapJump(p, lj, t)
           m == LapLeft(c, j, t)
           q0 == Lap(code, q, p, c, lj, j, t)
           q1 == Lap(code, q, p, c, lj, j, t + 1)
<1>1. Ready(code, q0, p, l, m)
  BY LapReady
<1>2. q1 = Next(code, p, l, m)
  <2>1. t + 1 # 0 /\ (t + 1) - 1 = t
    BY DEF Laps
  <2> QED
    BY <2>1 DEF Lap
<1>3. /\ p \in 0 .. CRF_WORDS - 2 /\ IsCode(code) /\ RepeatsItself(code[p])
      /\ step = code[p].type /\ SideFits(code[p], bank)
  BY DEF Laps, CRF_WORDS, Serves
<1> HIDE DEF l, m, q0, q1
<1>4. Leads(r, AddTransactionAll(type, bank, row, col, Executing(step), TRUE, NUM_GRF),
            b, full, Running(code, z, q0), Running(code, z, Next(code, p, l, m)))
  BY <1>1, <1>3, LeadsReady
<1> QED
  BY <1>2, <1>4 DEF Group, q0, q1

-----------------------------------------------------------------------------
(* A tile of a matrix: NUM_GRF laps, after the input.                      *)

Weights(job, input, output, bank) ==
  Joined(NUM_GRF, [m \in 0 .. NUM_GRF - 1 |->
    Group("DATA_READ", bank, 0, WeightCol(job, input, output) + m * NUM_GRF, "MAC")])

(* The two halves of computeGemv.                                            *)
LEMMA TileOf ==
  ASSUME NEW job, NEW input, NEW output, NEW batch, NEW bank
  PROVE  ComputeGemv(job, input, output, batch, bank)
           = InputCalls(batch * job.tiles + input) \o Weights(job, input, output, bank)
BY DEF ComputeGemv, InputCalls, InputList, Weights, WeightCol, Group, ForEach

(* The input executes nothing, the weights NUM_GRF laps.                     *)
LEMMA LeadsTile ==
  ASSUME NEW code, NEW q, NEW p, NEW c, NEW lj, NEW j, Laps(code, p, c),
         LapStarts(code, q, p, lj, j), NEW t \in Nat, t + NUM_GRF <= c + 1,
         NEW z, NEW b, NEW full, NEW r \in Driven,
         NEW job, NEW input, NEW output, NEW batch, NEW bank,
         InWeights(job, input, output), NUM_GRF + 7 < NUM_COLS_PER_BL,
         Serves(code[p], "MAC", bank)
  PROVE  Leads(r, ComputeGemv(job, input, output, batch, bank), b, full,
               Running(code, z, Lap(code, q, p, c, lj, j, t)),
               Running(code, z, Lap(code, q, p, c, lj, j, t + NUM_GRF)))
<1> DEFINE S(i) == Running(code, z, Lap(code, q, p, c, lj, j, i))
           f == [m \in 0 .. NUM_GRF - 1 |->
                   Group("DATA_READ", bank, 0, WeightCol(job, input, output) + m * NUM_GRF, "MAC")]
           D == [m \in 0 .. NUM_GRF |-> S(t + m)]
           x == batch * job.tiles + input
<1>1. NUM_GRF \in Nat
  BY GrfAssumption
<1>2. ASSUME NEW m \in 0 .. NUM_GRF - 1 PROVE Leads(r, f[m], b, full, D[m], D[m + 1])
  <2>1. PICK col \in Int : col = WeightCol(job, input, output) + m * NUM_GRF
    BY <1>1 DEF InWeights
  <2>2. InCells(0, col) /\ t + m \in 0 .. c
    BY <1>1, <2>1 DEF InWeights, Laps
  <2>3. PICK row, read, mac : row = 0 /\ read = "DATA_READ" /\ mac = "MAC"
    OBVIOUS
  <2>4. PICK i \in 0 .. c : i = t + m
    BY <2>2
  <2>5. InCells(row, col) /\ Serves(code[p], mac, bank)
    BY <2>2, <2>3
  <2>6. Leads(r, Group(read, bank, row, col, mac), b, full, S(i), S(i + 1))
    BY <2>4, <2>5, LeadsLap
  <2>7. i + 1 = t + (m + 1) /\ m \in 0 .. NUM_GRF /\ m + 1 \in 0 .. NUM_GRF
    BY <1>1, <2>4 DEF Laps
  <2>8. D[m] = S(i) /\ D[m + 1] = S(i + 1)
    BY <2>4, <2>7
  <2>9. f[m] = Group(read, bank, row, col, mac)
    BY <2>1, <2>3
  <2> HIDE DEF f, D, S
  <2> QED
    BY <2>6, <2>8, <2>9
<1>3. D[0] = S(t) /\ D[NUM_GRF] = S(t + NUM_GRF)
  BY <1>1
<1>4. InRange(Lap(code, q, p, c, lj, j, t)) /\ IsCode(code)
  BY LapInRange DEF Laps
<1>5. Leads(r, InputCalls(x), b, full, S(t), S(t))
  <2> HIDE DEF x
  <2> QED
    BY <1>4, LeadsInput
<1>6. Weights(job, input, output, bank) = Joined(NUM_GRF, f)
  BY DEF Weights
<1> HIDE DEF f, D, S, x
<1>7. Leads(r, Joined(NUM_GRF, f), b, full, D[0], D[NUM_GRF])
  BY <1>1, <1>2, LeadsJoined
<1>8. Leads(r, InputCalls(x) \o Joined(NUM_GRF, f), b, full, S(t), S(t + NUM_GRF))
  BY <1>3, <1>5, <1>7, LeadsFurther
<1> QED
  BY <1>6, <1>8, TileOf DEF S, x

(* n tiles, from lap t on.                                                 *)
LEMMA LeadsTilesOf ==
  ASSUME NEW code, NEW q, NEW p, NEW c, NEW lj, NEW j, Laps(code, p, c),
         LapStarts(code, q, p, lj, j), NEW n \in Nat, NUM_GRF * n = c + 1,
         NEW z, NEW b, NEW full, NEW r \in Driven,
         NEW job, NEW output, NEW batch, NEW bank, NEW f,
         \A i \in 0 .. n - 1 : \E input : /\ f[i] = ComputeGemv(job, input, output, batch, bank)
                                          /\ InWeights(job, input, output),
         NUM_GRF + 7 < NUM_COLS_PER_BL, Serves(code[p], "MAC", bank)
  PROVE  Leads(r, Joined(n, f), b, full,
               Running(code, z, q), Running(code, z, Next(code, p, p + 1, 0)))
<1> DEFINE S(i) == Running(code, z, Lap(code, q, p, c, lj, j, i))
           D == [i \in 0 .. n |-> S(NUM_GRF * i)]
<1>1. ASSUME NEW i \in 0 .. n - 1 PROVE Leads(r, f[i], b, full, D[i], D[i + 1])
  <2>1. PICK input : /\ f[i] = ComputeGemv(job, input, output, batch, bank)
                     /\ InWeights(job, input, output)
    OBVIOUS
  <2>2. PICK t \in Nat : t = NUM_GRF * i
    BY GrfAssumption
  <2>3. t + NUM_GRF = NUM_GRF * (i + 1)
    BY <2>2, GrfAssumption
  <2>4. t + NUM_GRF <= c + 1
    <3>1. PICK k \in Nat : n = (i + 1) + k
      <4>1. n - (i + 1) \in Nat /\ n = (i + 1) + (n - (i + 1))
        OBVIOUS
      <4> QED
        BY <4>1
    <3>2. NUM_GRF * n = NUM_GRF * (i + 1) + NUM_GRF * k
      BY <3>1, GrfAssumption
    <3>3. NUM_GRF * k \in Nat
      BY <3>1, GrfAssumption
    <3>4. NUM_GRF * (i + 1) \in Nat /\ c \in Nat
      BY GrfAssumption DEF Laps
    <3> QED
      BY <2>3, <3>2, <3>3, <3>4
  <2>5. Leads(r, ComputeGemv(job, input, output, batch, bank), b, full, S(t), S(t + NUM_GRF))
    BY <2>1, <2>4, LeadsTile
  <2>6. D[i] = S(t) /\ D[i + 1] = S(t + NUM_GRF)
    BY <2>2, <2>3
  <2> HIDE DEF D, S
  <2> QED
    BY <2>1, <2>5, <2>6
<1>2. D[0] = S(0) /\ D[n] = S(c + 1)
  <2>1. NUM_GRF * 0 = 0
    BY GrfAssumption
  <2> QED
    BY <2>1
<1>3. S(0) = Running(code, z, q)
  BY DEF Lap
<1>4. S(c + 1) = Running(code, z, Next(code, p, p + 1, 0))
  BY LapLast
<1> HIDE DEF D, S
<1>5. Leads(r, Joined(n, f), b, full, D[0], D[n])
  BY <1>1, LeadsJoined
<1> QED
  BY <1>2, <1>3, <1>4, <1>5

-----------------------------------------------------------------------------
(* The program of GEMV.                                                    *)

GemvCode(code, odd, even) ==
  /\ Laps(code, 0, even) /\ Serves(code[0], "MAC", 0)
  /\ Laps(code, 2, odd) /\ Serves(code[2], "MAC", 1)
  /\ Serves(code[4], "NOP", 1)
  /\ code[5].type = "EXIT"

(* GemvPIMKernel, as it is in the CRF: two words that jumps repeat.          *)
LEMMA GemvLoads ==
  ASSUME NEW odd, NEW even, CanLoop(odd), CanLoop(even), odd > 0, even > 0, NUM_GRF <= 2 ^ 11
  PROVE  /\ Loads(GemvPIMKernel(odd, even))
         /\ \A code : HoldsProgram(code, GemvPIMKernel(odd, even)) => GemvCode(code, odd, even)
<1> DEFINE w1 == Mac("EVEN_BANK")
           w2 == Jump(even, 2)
           w3 == Mac("ODD_BANK")
           w4 == Jump(odd, 2)
           w5 == Nop(NUM_GRF - 1)
           c == << w1, w2, w3, w4, w5 >>
           P == GemvPIMKernel(odd, even)
<1>1. Fits(w1) /\ Serves(InCrf(w1), "MAC", 0)
  <2>1. PICK type, dst, src0 : type = "MAC" /\ dst = "GRF_B" /\ src0 = "GRF_A"
    OBVIOUS
  <2>2. PICK bank \in {0, 1} : bank = 0
    OBVIOUS
  <2>3. /\ Fits(AutoCmd(type, dst, src0, SideOf(bank)))
        /\ Serves(InCrf(AutoCmd(type, dst, src0, SideOf(bank))), type, bank)
    BY <2>1, <2>2, AutoServes
  <2>4. w1 = AutoCmd(type, dst, src0, SideOf(bank))
    BY <2>1, <2>2 DEF Mac, SideOf
  <2> HIDE DEF w1
  <2> QED
    BY <2>1, <2>2, <2>3, <2>4
<1>2. Fits(w3) /\ Serves(InCrf(w3), "MAC", 1)
  <2>1. PICK type, dst, src0 : type = "MAC" /\ dst = "GRF_B" /\ src0 = "GRF_A"
    OBVIOUS
  <2>2. PICK bank \in {0, 1} : bank = 1
    OBVIOUS
  <2>3. /\ Fits(AutoCmd(type, dst, src0, SideOf(bank)))
        /\ Serves(InCrf(AutoCmd(type, dst, src0, SideOf(bank))), type, bank)
    BY <2>1, <2>2, AutoServes
  <2>4. w3 = AutoCmd(type, dst, src0, SideOf(bank))
    BY <2>1, <2>2 DEF Mac, SideOf
  <2> HIDE DEF w3
  <2> QED
    BY <2>1, <2>2, <2>3, <2>4
<1>3. PICK o : o = 2
  OBVIOUS
<1>4. o \in 0 .. 2 ^ 11 - 1
  <2>1. 2 ^ 11 \in Nat /\ 2 ^ 11 > 2
    BY Powers, Doubling, FourBits
  <2> QED
    BY <1>3, <2>1
<1>5. Fits(w2) /\ IsJump(InCrf(w2), even, 2)
  <2>1. Fits(Jump(even, o)) /\ IsJump(InCrf(Jump(even, o)), even, o)
    BY <1>4, JumpStays
  <2> QED
    BY <1>3, <2>1
<1>6. Fits(w4) /\ IsJump(InCrf(w4), odd, 2)
  <2>1. Fits(Jump(odd, o)) /\ IsJump(InCrf(Jump(odd, o)), odd, o)
    BY <1>4, JumpStays
  <2> QED
    BY <1>3, <2>1
<1>7. Fits(w5) /\ Serves(InCrf(w5), "NOP", 1)
  <2>1. PICK bank : bank = 1
    OBVIOUS
  <2>2. Fits(w5) /\ Serves(InCrf(w5), "NOP", bank)
    BY NopServes
  <2> QED
    BY <2>1, <2>2
<1>8. P = Looped(c, 0)
  BY DEF GemvPIMKernel
<1> HIDE DEF w1, w2, w3, w4, w5, P
<1>9. PICK L \in 1 .. 14 : L = 5
  OBVIOUS
<1>10. /\ IsList(c, L) /\ c[1] = w1 /\ c[2] = w2 /\ c[3] = w3 /\ c[4] = w4 /\ c[5] = w5
  BY <1>9 DEF IsList, IsSequence
<1> HIDE DEF c
<1>11. FitList(c, L)
  <2> SUFFICES ASSUME NEW i \in 1 .. L PROVE Fits(c[i])
    BY <1>10 DEF FitList
  <2>1. i \in {1, 2, 3, 4, 5}
    BY <1>9
  <2> QED
    BY <1>1, <1>2, <1>5, <1>6, <1>7, <1>10, <2>1
<1>12. PICK n : n = 0
  OBVIOUS
<1>13. CanLoop(n)
  <2>1. 2 ^ 17 \in Nat /\ 2 ^ 17 > 0
    BY Powers, PowerPositive
  <2> QED
    BY <1>12, <2>1 DEF CanLoop
<1>14. LoopLoads(P, c, n, L)
  BY <1>8, <1>11, <1>12, <1>13, LoopedLoads
<1>15. Loads(P)
  BY <1>14 DEF LoopLoads, Loads
<1>16. ASSUME NEW code, HoldsProgram(code, P) PROVE GemvCode(code, odd, even)
  <2>1. LoopCode(code, c, n, L)
    BY <1>14, <1>16 DEF LoopLoads
  <2>2. /\ IsCode(code) /\ code[5].type = "EXIT"
        /\ code[0] = InCrf(w1) /\ code[1] = InCrf(w2) /\ code[2] = InCrf(w3)
        /\ code[3] = InCrf(w4) /\ code[4] = InCrf(w5)
    BY <1>9, <1>10, <1>12, <2>1 DEF LoopCode
  <2>3. Serves(code[0], "MAC", 0) /\ Serves(code[2], "MAC", 1) /\ Serves(code[4], "NOP", 1)
    BY <1>1, <1>2, <1>7, <2>2
  <2>4. IsJump(code[1], even, 2) /\ IsJump(code[3], odd, 2)
    BY <1>5, <1>6, <2>2
  <2>5. odd \in Nat /\ even \in Nat
    BY CanLoopNat
  <2>6. code[0].type \notin {"JUMP", "EXIT"} /\ code[2].type \notin {"JUMP", "EXIT"}
        /\ RepeatsItself(code[0]) /\ RepeatsItself(code[2])
    BY <2>3 DEF Serves
  <2>7. Laps(code, 0, even) /\ Laps(code, 2, odd)
    BY <2>2, <2>4, <2>5, <2>6 DEF Laps
  <2> QED
    BY <2>2, <2>3, <2>7 DEF GemvCode
<1> QED
  BY <1>15, <1>16 DEF P

(* The even tiles and the odd ones are all tiles.                            *)
LEMMA TilesSplit ==
  ASSUME NEW job, job.tiles \in Nat \ {0}
  PROVE  /\ EvenTiles(job) \in Nat /\ OddTiles(job) \in Nat /\ EvenTiles(job) > 0
         /\ \A i \in 0 .. EvenTiles(job) - 1 : 2 * i \in 0 .. job.tiles - 1
         /\ \A i \in 0 .. OddTiles(job) - 1 : 2 * i + 1 \in 0 .. job.tiles - 1
         /\ job.tiles >= 2 => OddTiles(job) > 0
<1> DEFINE n == job.tiles
<1>1. n \in Nat /\ n > 0
  OBVIOUS
<1> HIDE DEF n
<1> QED
  BY <1>1 DEF EvenTiles, OddTiles, n

(* A pass of GEMV: the laps of both words are as many as the accesses to the *)
(* weights of their sides, though both jumps count in one register.          *)
LEMMA LeadsGemvPass ==
  ASSUME NEW job, job.tiles \in Nat \ {0}, RegularGemv(job), NEW code,
         GemvCode(code, NUM_GRF * OddTiles(job) - 1, NUM_GRF * EvenTiles(job) - 1),
         NEW z, NEW b, NEW full, NEW r \in Driven,
         NEW output \in 0 .. job.outputs - 1, NEW batch \in 0 .. job.batch - 1
  PROVE  Leads(r, GemvPass(job, output, batch), b, full,
               Running(code, z, ProgramStart), Running(code, z, Next(code, 4, 3, 0)))
<1> DEFINE E == EvenTiles(job)
           O == OddTiles(job)
           even == NUM_GRF * E - 1
           odd  == NUM_GRF * O - 1
           f == [i \in 0 .. E - 1 |-> ComputeGemv(job, 2 * i, output, batch, 0)]
           g == [i \in 0 .. O - 1 |-> ComputeGemv(job, 2 * i + 1, output, batch, 1)]
           q1 == Next(code, 0, 1, 0)
           q2 == Next(code, 2, 3, 0)
           q3 == Next(code, 4, 3, 0)
           S(q) == Running(code, z, q)
<1>1. GemvPass(job, output, batch) = (Joined(E, f) \o Joined(O, g))
         \o AddTransactionAll("DATA_WRITE", 1, 0, ResultCol(job, output, batch),
                              Executing("NOP"), TRUE, NUM_GRF)
  BY DEF GemvPass, ForEach
<1>2. E \in Nat /\ O \in Nat /\ NUM_GRF * E = even + 1 /\ NUM_GRF * O = odd + 1
  BY TilesSplit, GrfAssumption
<1>3. /\ Laps(code, 0, even) /\ Serves(code[0], "MAC", 0)
      /\ Laps(code, 2, odd) /\ Serves(code[2], "MAC", 1)
      /\ Serves(code[4], "NOP", 1) /\ code[5].type = "EXIT"
  BY DEF GemvCode
<1>4. NUM_GRF + 7 < NUM_COLS_PER_BL
  BY DEF RegularGemv
<1>5. \A i \in 0 .. E - 1 : /\ f[i] = ComputeGemv(job, 2 * i, output, batch, 0)
                            /\ InWeights(job, 2 * i, output)
  BY TilesSplit DEF RegularGemv
<1>6. \A i \in 0 .. O - 1 : /\ g[i] = ComputeGemv(job, 2 * i + 1, output, batch, 1)
                            /\ InWeights(job, 2 * i + 1, output)
  BY TilesSplit DEF RegularGemv
<1> HIDE DEF E, O, even, odd, f, g, q1, q2, q3, S
<1>7. Leads(r, Joined(E, f), b, full, S(ProgramStart), S(q1))
  <2>1. PICK p, bank, k : p = 0 /\ bank = 0 /\ k = -1
    OBVIOUS
  <2>2. LapStarts(code, ProgramStart, p, k, k)
    <3>1. code[0].type # "JUMP"
      BY <1>3 DEF Laps
    <3> QED
      BY <2>1, <3>1, ReadyStart DEF LapStarts
  <2>3. Laps(code, p, even) /\ Serves(code[p], "MAC", bank)
    BY <1>3, <2>1
  <2>4. \A i \in 0 .. E - 1 : \E input : /\ f[i] = ComputeGemv(job, input, output, batch, bank)
                                         /\ InWeights(job, input, output)
    BY <1>5, <2>1
  <2>5. Leads(r, Joined(E, f), b, full, Running(code, z, ProgramStart),
              Running(code, z, Next(code, p, p + 1, 0)))
    BY <1>2, <1>4, <2>2, <2>3, <2>4, LeadsTilesOf
  <2>6. q1 = Next(code, p, p + 1, 0)
    BY <2>1 DEF q1
  <2> QED
    BY <2>5, <2>6 DEF S
<1>8. Leads(r, Joined(O, g), b, full, S(q1), S(q2))
  <2>1. PICK p, bank, lj, j, o, k :
          p = 2 /\ bank = 1 /\ lj = 1 /\ j = 0 /\ o = 2 /\ k = 0
    OBVIOUS
  <2>2. LapStarts(code, q1, p, lj, j)
    <3>1. /\ code[k + 1].type = "JUMP" /\ code[k + 1].loopCounter = even
          /\ code[k + 1].loopOffset = o /\ even \in Nat
      BY <1>3, <2>1 DEF Laps, IsJump
    <3>2. code[k + 2].type \notin {"JUMP", "EXIT"}
      BY <1>3, <2>1 DEF Laps
    <3>3. /\ k \in 0 .. CRF_WORDS - 2 /\ lj \in Int /\ j \in Int /\ o \in Nat
          /\ lj = k + 1 /\ j = 0 /\ lj # p + 1 /\ k + 2 = p
      BY <2>1 DEF CRF_WORDS
    <3>4. Ready(code, Next(code, k, lj, j), k + 2, lj, j)
      BY <3>1, <3>2, <3>3, ReadyPassed
    <3>5. q1 = Next(code, k, lj, j)
      BY <2>1 DEF q1
    <3> QED
      BY <3>3, <3>4, <3>5 DEF LapStarts
  <2>3. Laps(code, p, odd) /\ Serves(code[p], "MAC", bank)
    BY <1>3, <2>1
  <2>4. \A i \in 0 .. O - 1 : \E input : /\ g[i] = ComputeGemv(job, input, output, batch, bank)
                                         /\ InWeights(job, input, output)
    BY <1>6, <2>1
  <2>5. Leads(r, Joined(O, g), b, full, Running(code, z, q1),
              Running(code, z, Next(code, p, p + 1, 0)))
    BY <1>2, <1>4, <2>2, <2>3, <2>4, LeadsTilesOf
  <2>6. q2 = Next(code, p, p + 1, 0)
    BY <2>1 DEF q2
  <2> QED
    BY <2>5, <2>6 DEF S
<1>9. Leads(r, AddTransactionAll("DATA_WRITE", 1, 0, ResultCol(job, output, batch),
                                 Executing("NOP"), TRUE, NUM_GRF), b, full, S(q2), S(q3))
  <2>1. PICK lj, j, o, k, p, row, bank, write, nop :
          /\ lj = 3 /\ j = 0 /\ o = 2 /\ k = 2 /\ p = 4 /\ row = 0 /\ bank = 1
          /\ write = "DATA_WRITE" /\ nop = "NOP"
    OBVIOUS
  <2>2. PICK col \in Int : col = ResultCol(job, output, batch) /\ InCells(row, col)
    BY <2>1 DEF RegularGemv, InResults
  <2>3. Ready(code, q2, p, lj, j)
    <3>1. /\ code[k + 1].type = "JUMP" /\ code[k + 1].loopCounter = odd
          /\ code[k + 1].loopOffset = o /\ odd \in Nat
      BY <1>3, <2>1 DEF Laps, IsJump
    <3>2. code[k + 2].type \notin {"JUMP", "EXIT"}
      BY <1>3, <2>1 DEF Serves
    <3>3. /\ k \in 0 .. CRF_WORDS - 2 /\ lj \in Int /\ j \in Int /\ o \in Nat
          /\ lj = k + 1 /\ j = 0 /\ k + 2 = p
      BY <2>1 DEF CRF_WORDS
    <3>4. Ready(code, Next(code, k, lj, j), k + 2, lj, j)
      BY <3>1, <3>2, <3>3, ReadyPassed
    <3>5. q2 = Next(code, k, lj, j)
      BY <2>1 DEF q2
    <3> QED
      BY <3>3, <3>4, <3>5
  <2>4. /\ p \in 0 .. CRF_WORDS - 2 /\ IsCode(code) /\ RepeatsItself(code[p])
        /\ nop = code[p].type /\ SideFits(code[p], bank)
    BY <1>3, <2>1 DEF Serves, Laps, CRF_WORDS
  <2>5. Leads(r, AddTransactionAll(write, bank, row, col, Executing(nop), TRUE, NUM_GRF),
              b, full, Running(code, z, q2), Running(code, z, Next(code, p, lj, j)))
    BY <2>2, <2>3, <2>4, LeadsReady
  <2>6. q3 = Next(code, p, lj, j)
    BY <2>1 DEF q3
  <2> QED
    BY <2>1, <2>2, <2>5, <2>6 DEF S
<1>10. Leads(r, Joined(E, f) \o Joined(O, g), b, full, S(ProgramStart), S(q2))
  BY <1>7, <1>8, LeadsFurther
<1>11. Leads(r, GemvPass(job, output, batch), b, full, S(ProgramStart), S(q3))
  BY <1>1, <1>9, <1>10, LeadsFurther
<1> QED
  BY <1>11 DEF S, q3

(* Behind the result the program has come to its end.                      *)
LEMMA GemvEnds ==
  ASSUME NEW code, code[5].type = "EXIT"
  PROVE  Ended(code, Next(code, 4, 3, 0))
<1>1. PICK k, lj : k = 4 /\ lj = 3
  OBVIOUS
<1> DEFINE q == Next(code, k, lj, 0)
<1>2. k \in 0 .. CRF_WORDS - 2 /\ k + 1 = 5
  BY <1>1 DEF CRF_WORDS
<1>3. NextIs(code, k, lj, 0)
  BY <1>2, NextParts
<1>4. q.pc = k + 1 /\ InRange(q)
  BY <1>3 DEF NextIs
<1> HIDE DEF q
<1>5. code[q.pc].type = "EXIT"
  BY <1>2, <1>4
<1>6. TurnsOf(code, q) = q
  BY <1>5, NoJump
<1>7. Ended(code, q)
  BY <1>4, <1>5, <1>6 DEF Ended
<1> QED
  BY <1>1, <1>7 DEF q

-----------------------------------------------------------------------------
(* The program of GEMVTREE.                                                *)

TreeHalf(h) ==
  << Mac(SideOf(h)), Jump(NUM_GRF - 1, 2), Nop(NUM_GRF - 1),
     AutoCmd("MUL", "GRF_B", "GRF_B", "EVEN_BANK") >>

(* One half of it, from word p on.                                         *)
HalfCode(code, p, h) ==
  /\ Laps(code, p, NUM_GRF - 1) /\ Serves(code[p], "MAC", h)
  /\ Serves(code[p + 2], "NOP", 1) /\ Serves(code[p + 3], "MUL", 0)

TreeCode(code, n) ==
  /\ IsCode(code) /\ n \in Nat
  /\ HalfCode(code, 0, 0) /\ HalfCode(code, 4, 1)
  /\ n = 0 => code[8].type = "EXIT"
  /\ n # 0 => IsJump(code[8], n, 9) /\ code[9].type = "EXIT"

(* A jump can count a group.                                                 *)
LEMMA LoopsOfGroup ==
  ASSUME NUM_GRF <= 2 ^ 11
  PROVE  CanLoop(NUM_GRF - 1)
<1>1. 2 ^ 17 >= 2 ^ 11 /\ 2 ^ 11 \in Nat /\ 2 ^ 17 \in Nat
  <2>1. /\ 2 ^ 11 \in Nat /\ 2 ^ 12 \in Nat /\ 2 ^ 13 \in Nat /\ 2 ^ 14 \in Nat
        /\ 2 ^ 15 \in Nat /\ 2 ^ 16 \in Nat /\ 2 ^ 17 \in Nat
    BY PowerPositive
  <2>2. /\ 2 ^ (11 + 1) = 2 * 2 ^ 11 /\ 2 ^ (12 + 1) = 2 * 2 ^ 12 /\ 2 ^ (13 + 1) = 2 * 2 ^ 13
        /\ 2 ^ (14 + 1) = 2 * 2 ^ 14 /\ 2 ^ (15 + 1) = 2 * 2 ^ 15 /\ 2 ^ (16 + 1) = 2 * 2 ^ 16
    BY Doubling
  <2>3. PICK a, b, c, d, e, f, g :
          /\ a = 2 ^ 11 /\ b = 2 ^ 12 /\ c = 2 ^ 13 /\ d = 2 ^ 14 /\ e = 2 ^ 15
          /\ f = 2 ^ 16 /\ g = 2 ^ 17
    OBVIOUS
  <2>4. b = 2 * a /\ c = 2 * b /\ d = 2 * c /\ e = 2 * d /\ f = 2 * e /\ g = 2 * f
    <3>1. 11 + 1 = 12 /\ 12 + 1 = 13 /\ 13 + 1 = 14 /\ 14 + 1 = 15 /\ 15 + 1 = 16 /\ 16 + 1 = 17
      OBVIOUS
    <3> QED
      BY <2>2, <2>3, <3>1
  <2>5. a \in Nat /\ g \in Nat
    BY <2>1, <2>3
  <2>6. g >= a
    BY <2>4, <2>5
  <2> QED
    BY <2>3, <2>5, <2>6
<1>2. NUM_GRF - 1 \in Nat
  BY GrfAssumption
<1>3. PICK a, g : a = 2 ^ 11 /\ g = 2 ^ 17
  OBVIOUS
<1>4. NUM_GRF - 1 \in 0 .. g - 1
  BY <1>1, <1>2, <1>3, GrfAssumption
<1> QED
  BY <1>3, <1>4 DEF CanLoop

(* What the words of a half are in the CRF.                                *)
HalfWords(c, p, h) ==
  /\ \A i \in 1 .. 4 : Fits(c[p + i])
  /\ Serves(InCrf(c[p + 1]), "MAC", h)
  /\ IsJump(InCrf(c[p + 2]), NUM_GRF - 1, 2)
  /\ Serves(InCrf(c[p + 3]), "NOP", 1)
  /\ Serves(InCrf(c[p + 4]), "MUL", 0)

(* The words of a half fit, and what they are in the CRF,                    *)
LEMMA HalfServes ==
  ASSUME NEW h \in {0, 1}, NUM_GRF <= 2 ^ 11, NEW c, NEW p \in Nat,
         \A i \in 1 .. 4 : c[p + i] = TreeHalf(h)[i]
  PROVE  HalfWords(c, p, h)
<1> DEFINE w1 == Mac(SideOf(h))
           w2 == Jump(NUM_GRF - 1, 2)
           w3 == Nop(NUM_GRF - 1)
           w4 == AutoCmd("MUL", "GRF_B", "GRF_B", "EVEN_BANK")
<1>1. Fits(w1) /\ Serves(InCrf(w1), "MAC", h)
  <2>1. PICK type, dst, src0 : type = "MAC" /\ dst = "GRF_B" /\ src0 = "GRF_A"
    OBVIOUS
  <2>2. /\ Fits(AutoCmd(type, dst, src0, SideOf(h)))
        /\ Serves(InCrf(AutoCmd(type, dst, src0, SideOf(h))), type, h)
    BY <2>1, AutoServes
  <2>3. w1 = AutoCmd(type, dst, src0, SideOf(h))
    BY <2>1 DEF Mac
  <2> HIDE DEF w1
  <2> QED
    BY <2>1, <2>2, <2>3
<1>2. Fits(w4) /\ Serves(InCrf(w4), "MUL", 0)
  <2>1. PICK type, dst, src0 : type = "MUL" /\ dst = "GRF_B" /\ src0 = "GRF_B"
    OBVIOUS
  <2>2. PICK bank \in {0, 1} : bank = 0
    OBVIOUS
  <2>3. /\ Fits(AutoCmd(type, dst, src0, SideOf(bank)))
        /\ Serves(InCrf(AutoCmd(type, dst, src0, SideOf(bank))), type, bank)
    BY <2>1, <2>2, AutoServes
  <2>4. w4 = AutoCmd(type, dst, src0, SideOf(bank))
    BY <2>1, <2>2 DEF SideOf
  <2> HIDE DEF w4
  <2> QED
    BY <2>1, <2>2, <2>3, <2>4
<1>3. PICK o : o = 2
  OBVIOUS
<1>4. o \in 0 .. 2 ^ 11 - 1
  <2>1. 2 ^ 11 \in Nat /\ 2 ^ 11 > 2
    BY Powers, Doubling, FourBits
  <2> QED
    BY <1>3, <2>1
<1>5. Fits(w2) /\ IsJump(InCrf(w2), NUM_GRF - 1, 2)
  <2>1. PICK n : n = NUM_GRF - 1
    OBVIOUS
  <2>2. Fits(Jump(n, o)) /\ IsJump(InCrf(Jump(n, o)), n, o)
    BY <1>4, <2>1, JumpStays, LoopsOfGroup
  <2> QED
    BY <1>3, <2>1, <2>2
<1>6. Fits(w3) /\ Serves(InCrf(w3), "NOP", 1)
  <2>1. PICK bank : bank = 1
    OBVIOUS
  <2>2. Fits(w3) /\ Serves(InCrf(w3), "NOP", bank)
    BY NopServes
  <2> QED
    BY <2>1, <2>2
<1>7. c[p + 1] = w1 /\ c[p + 2] = w2 /\ c[p + 3] = w3 /\ c[p + 4] = w4
  <2>1. TreeHalf(h) = << w1, w2, w3, w4 >>
    BY DEF TreeHalf
  <2> HIDE DEF w1, w2, w3, w4
  <2> QED
    BY <2>1
<1> HIDE DEF w1, w2, w3, w4
<1>8. \A i \in 1 .. 4 : Fits(c[p + i])
  <2> SUFFICES ASSUME NEW i \in 1 .. 4 PROVE Fits(c[p + i])
    OBVIOUS
  <2>1. i = 1 \/ i = 2 \/ i = 3 \/ i = 4
    OBVIOUS
  <2> QED
    BY <1>1, <1>2, <1>5, <1>6, <1>7, <2>1
<1> QED
  BY <1>1, <1>2, <1>5, <1>6, <1>7, <1>8 DEF HalfWords

(* from whatever word on they stand.                                         *)
LEMMA HalfInCode ==
  ASSUME NEW c, NEW p \in 0 .. 12, NEW h, HalfWords(c, p, h), NEW code, IsCode(code), NUM_GRF >= 2,
         \A i \in 0 .. 3 : code[p + i] = InCrf(c[p + i + 1])
  PROVE  HalfCode(code, p, h)
<1>1. /\ code[p + 0] = InCrf(c[p + 0 + 1]) /\ code[p + 1] = InCrf(c[p + 1 + 1])
      /\ code[p + 2] = InCrf(c[p + 2 + 1]) /\ code[p + 3] = InCrf(c[p + 3 + 1])
  OBVIOUS
<1>2. p + 0 = p /\ p + 1 + 1 = p + 2 /\ p + 2 + 1 = p + 3 /\ p + 3 + 1 = p + 4
  OBVIOUS
<1>3. /\ code[p] = InCrf(c[p + 1]) /\ code[p + 1] = InCrf(c[p + 2])
      /\ code[p + 2] = InCrf(c[p + 3]) /\ code[p + 3] = InCrf(c[p + 4])
  BY <1>1, <1>2, Zenon
<1>4. /\ Serves(code[p], "MAC", h) /\ IsJump(code[p + 1], NUM_GRF - 1, 2)
      /\ Serves(code[p + 2], "NOP", 1) /\ Serves(code[p + 3], "MUL", 0)
  BY <1>3, Zenon DEF HalfWords
<1>5. code[p].type \notin {"JUMP", "EXIT"} /\ RepeatsItself(code[p])
  BY <1>4 DEF Serves
<1>6. NUM_GRF - 1 \in Nat /\ NUM_GRF - 1 > 0
  BY GrfAssumption
<1>7. Laps(code, p, NUM_GRF - 1)
  BY <1>4, <1>5, <1>6 DEF Laps
<1> QED
  BY <1>4, <1>7 DEF HalfCode

(* GemvTreePIMKernel, as it is in the CRF: two halves and a jump around      *)
(* them.                                                                     *)
LEMMA TreeLoads ==
  ASSUME NEW n, CanLoop(n), NUM_GRF >= 2, NUM_GRF <= 2 ^ 11
  PROVE  /\ Loads(GemvTreePIMKernel(n))
         /\ \A code : HoldsProgram(code, GemvTreePIMKernel(n)) => TreeCode(code, n)
<1> DEFINE s == TreeHalf(0)
           t == TreeHalf(1)
           c == s \o t
           P == GemvTreePIMKernel(n)
<1>1. P = Looped(c, n)
  BY DEF GemvTreePIMKernel, TreeHalf, SideOf
<1>2. IsSequence(s) /\ IsSequence(t) /\ Len(s) = 4 /\ Len(t) = 4
  BY DEF TreeHalf, IsSequence
<1> HIDE DEF s, t, P
<1>3. PICK L \in 1 .. 14 : L = 8
  OBVIOUS
<1>4. /\ IsSequence(c) /\ Len(c) = 8
      /\ \A i \in 1 .. 4 : c[i] = s[i]
      /\ \A i \in 1 .. 4 : c[4 + i] = t[i]
  <2>1. PICK k : k = 4
    OBVIOUS
  <2>2. IsSequence(s) /\ IsSequence(t) /\ Len(s) = k /\ Len(t) = k
    BY <1>2, <2>1
  <2>3. /\ IsSequence(s \o t)
        /\ Len(s \o t) = Len(s) + Len(t)
        /\ \A i \in 1 .. Len(s) : (s \o t)[i] = s[i]
        /\ \A i \in 1 .. Len(t) : (s \o t)[Len(s) + i] = t[i]
    BY <2>2, Concatenation
  <2>4. /\ IsSequence(s \o t)
        /\ Len(s \o t) = k + k
        /\ \A i \in 1 .. k : (s \o t)[i] = s[i]
        /\ \A i \in 1 .. k : (s \o t)[k + i] = t[i]
    BY <2>2, <2>3, Zenon
  <2>5. PICK u : u = s \o t
    OBVIOUS
  <2>6. /\ IsSequence(u) /\ Len(u) = 8
        /\ \A i \in 1 .. 4 : u[i] = s[i]
        /\ \A i \in 1 .. 4 : u[4 + i] = t[i]
    <3>1. /\ IsSequence(u) /\ Len(u) = k + k
          /\ \A i \in 1 .. k : u[i] = s[i]
          /\ \A i \in 1 .. k : u[k + i] = t[i]
      BY <2>4, <2>5, Zenon
    <3> QED
      BY <2>1, <3>1
  <2> QED
    BY <2>5, <2>6, Zenon
<1> HIDE DEF c
<1>5. HalfWords(c, 0, 0) /\ HalfWords(c, 4, 1)
  <2>1. PICK p, h : p = 0 /\ h = 0
    OBVIOUS
  <2>2. \A i \in 1 .. 4 : c[p + i] = TreeHalf(h)[i]
    BY <1>4, <2>1 DEF s
  <2>3. HalfWords(c, p, h)
    BY <2>1, <2>2, HalfServes
  <2>4. PICK u, g : u = 4 /\ g = 1
    OBVIOUS
  <2>5. \A i \in 1 .. 4 : c[u + i] = TreeHalf(g)[i]
    BY <1>4, <2>4 DEF t
  <2>6. HalfWords(c, u, g)
    BY <2>4, <2>5, HalfServes
  <2> QED
    BY <2>1, <2>3, <2>4, <2>6
<1>6. FitList(c, L)
  <2>1. IsList(c, L)
    BY <1>3, <1>4 DEF IsList
  <2> SUFFICES ASSUME NEW i \in 1 .. L PROVE Fits(c[i])
    BY <2>1 DEF FitList
  <2>2. CASE i \in 1 .. 4
    <3>1. Fits(c[0 + i]) /\ 0 + i = i
      BY <1>5, <2>2 DEF HalfWords
    <3> QED
      BY <3>1
  <2>3. CASE i \in 5 .. 8
    <3>1. PICK k \in 1 .. 4 : i = 4 + k
      <4>1. i - 4 \in 1 .. 4 /\ i = 4 + (i - 4)
        BY <2>3
      <4> QED
        BY <4>1
    <3> QED
      BY <1>5, <3>1 DEF HalfWords
  <2> QED
    BY <1>3, <2>2, <2>3
<1>7. LoopLoads(P, c, n, L)
  BY <1>1, <1>6, LoopedLoads
<1>8. Loads(P)
  BY <1>7 DEF LoopLoads, Loads
<1>9. ASSUME NEW code, HoldsProgram(code, P) PROVE TreeCode(code, n)
  <2>1. LoopCode(code, c, n, L)
    BY <1>7, <1>9 DEF LoopLoads
  <2>2. /\ IsCode(code)
        /\ \A i \in 0 .. 7 : code[i] = InCrf(c[i + 1])
    BY <1>3, <2>1 DEF LoopCode
  <2>3. HalfCode(code, 0, 0)
    <3>1. PICK p, h : p = 0 /\ h = 0
      OBVIOUS
    <3>2. \A i \in 0 .. 3 : code[p + i] = InCrf(c[p + i + 1])
      BY <2>2, <3>1
    <3>3. HalfWords(c, p, h) /\ p \in 0 .. 12
      BY <1>5, <3>1
    <3>4. HalfCode(code, p, h)
      BY <2>2, <3>2, <3>3, HalfInCode
    <3> QED
      BY <3>1, <3>4
  <2>4. HalfCode(code, 4, 1)
    <3>1. PICK p, h : p = 4 /\ h = 1
      OBVIOUS
    <3>2. \A i \in 0 .. 3 : code[p + i] = InCrf(c[p + i + 1])
      BY <2>2, <3>1
    <3>3. HalfWords(c, p, h) /\ p \in 0 .. 12
      BY <1>5, <3>1
    <3>4. HalfCode(code, p, h)
      BY <2>2, <3>2, <3>3, HalfInCode
    <3> QED
      BY <3>1, <3>4
  <2>5. n = 0 => code[8].type = "EXIT"
    BY <1>3, <2>1 DEF LoopCode
  <2>6. n # 0 => IsJump(code[8], n, 9) /\ code[9].type = "EXIT"
    BY <1>3, <2>1 DEF LoopCode
  <2>7. n \in Nat
    BY CanLoopNat
  <2> QED
    BY <2>2, <2>3, <2>4, <2>5, <2>6, <2>7 DEF TreeCode
<1> QED
  BY <1>8, <1>9 DEF P

TreeTile(job, i, output, batch, bank, col) ==
  ComputeGemv(job, i, output, batch, bank)
    \o Group("DATA_WRITE", 1, 0, col, "NOP") \o Group("DATA_READ", 0, ZERO_ROW, 0, "MUL")

(* One half of the program: a tile, its result, and a group that clears    *)
(* the registers.                                                          *)
LEMMA LeadsHalf ==
  ASSUME NEW code, NEW p \in 0 .. 8, NEW h, HalfCode(code, p, h), NUM_GRF >= 2,
         NEW q, NEW lj, NEW j, LapStarts(code, q, p, lj, j),
         NEW z, NEW b, NEW full, NEW r \in Driven,
         NEW job, NEW input, NEW output, NEW batch, NEW col \in Int,
         InWeights(job, input, output), NUM_GRF + 7 < NUM_COLS_PER_BL,
         InCells(0, col), InCells(ZERO_ROW, 0)
  PROVE  Leads(r, TreeTile(job, input, output, batch, h, col), b, full,
               Running(code, z, q), Running(code, z, Next(code, p + 3, p + 1, 0)))
<1> DEFINE q1 == Next(code, p, p + 1, 0)
           q2 == Next(code, p + 2, p + 1, 0)
           q3 == Next(code, p + 3, p + 1, 0)
           A == ComputeGemv(job, input, output, batch, h)
           B == Group("DATA_WRITE", 1, 0, col, "NOP")
           C == Group("DATA_READ", 0, ZERO_ROW, 0, "MUL")
           S(x) == Running(code, z, x)
<1>1. PICK c : c = NUM_GRF - 1
  OBVIOUS
<1>2. c \in Nat /\ c + 1 = NUM_GRF /\ NUM_GRF \in Nat
  BY <1>1, GrfAssumption
<1>3. /\ Laps(code, p, c) /\ Serves(code[p], "MAC", h)
      /\ Serves(code[p + 2], "NOP", 1) /\ Serves(code[p + 3], "MUL", 0)
  BY <1>1 DEF HalfCode
<1>4. IsCode(code) /\ IsJump(code[p + 1], c, 2)
  BY <1>3 DEF Laps
<1>5. /\ p \in 0 .. CRF_WORDS - 2 /\ p + 2 \in 0 .. CRF_WORDS - 2 /\ p + 3 \in 0 .. CRF_WORDS - 2
      /\ p + 1 \in Int /\ (p + 2) + 1 = p + 3
  BY DEF CRF_WORDS
<1>6. Leads(r, A, b, full, S(q), S(q1))
  <2>1. PICK t \in Nat : t = 0
    OBVIOUS
  <2>2. t + NUM_GRF <= c + 1 /\ t + NUM_GRF = c + 1
    BY <1>2, <2>1
  <2> HIDE DEF S
  <2>3. Leads(r, A, b, full, Running(code, z, Lap(code, q, p, c, lj, j, t)),
              Running(code, z, Lap(code, q, p, c, lj, j, t + NUM_GRF)))
    BY <1>3, <2>2, LeadsTile
  <2>4. Lap(code, q, p, c, lj, j, t) = q
    BY <2>1 DEF Lap
  <2>5. Lap(code, q, p, c, lj, j, t + NUM_GRF) = q1
    BY <1>3, <2>2, LapLast
  <2> HIDE DEF A, q1
  <2> QED
    BY <2>3, <2>4, <2>5 DEF S
<1>7. Leads(r, B, b, full, S(q1), S(q2))
  <2>1. PICK l, m, o, row, bank, write, nop, k :
          /\ l = p + 1 /\ m = 0 /\ o = 2 /\ row = 0 /\ bank = 1
          /\ write = "DATA_WRITE" /\ nop = "NOP" /\ k = p + 2
    OBVIOUS
  <2>2. Ready(code, q1, k, l, m)
    <3>1. /\ code[p + 1].type = "JUMP" /\ code[p + 1].loopCounter = c
          /\ code[p + 1].loopOffset = o
      BY <1>4, <2>1 DEF IsJump
    <3>2. code[p + 2].type \notin {"JUMP", "EXIT"}
      BY <1>3 DEF Serves
    <3>3. l \in Int /\ m \in Int /\ o \in Nat /\ l = p + 1 /\ m = 0
      BY <2>1
    <3>4. Ready(code, Next(code, p, l, m), p + 2, l, m)
      BY <1>2, <1>5, <3>1, <3>2, <3>3, ReadyPassed
    <3> QED
      BY <2>1, <3>4
  <2>3. /\ k \in 0 .. CRF_WORDS - 2 /\ RepeatsItself(code[k])
        /\ nop = code[k].type /\ SideFits(code[k], bank) /\ InCells(row, col)
    BY <1>3, <1>5, <2>1 DEF Serves
  <2>4. Leads(r, AddTransactionAll(write, bank, row, col, Executing(nop), TRUE, NUM_GRF),
              b, full, Running(code, z, q1), Running(code, z, Next(code, k, l, m)))
    <3> HIDE DEF q1
    <3> QED
      BY <1>4, <2>2, <2>3, LeadsReady
  <2>5. B = AddTransactionAll(write, bank, row, col, Executing(nop), TRUE, NUM_GRF)
    BY <2>1 DEF Group
  <2>6. q2 = Next(code, k, l, m)
    BY <2>1
  <2> HIDE DEF q1, q2, B
  <2> QED
    BY <2>4, <2>5, <2>6
<1>8. Leads(r, C, b, full, S(q2), S(q3))
  <2>1. PICK l, m, row, col0, bank, read, mul, k :
          /\ l = p + 1 /\ m = 0 /\ row = ZERO_ROW /\ bank = 0 /\ col0 = 0
          /\ read = "DATA_READ" /\ mul = "MUL" /\ k = p + 3
    OBVIOUS
  <2>2. Ready(code, q2, k, l, m)
    <3>1. code[(p + 2) + 1].type \notin {"JUMP", "EXIT"}
      BY <1>3, <1>5 DEF Serves
    <3>2. PICK u : u = p + 2
      OBVIOUS
    <3>3. u \in 0 .. CRF_WORDS - 2 /\ code[u + 1].type \notin {"JUMP", "EXIT"}
      BY <1>5, <3>1, <3>2
    <3>4. Ready(code, Next(code, u, l, m), u + 1, l, m)
      BY <3>3, ReadyNext
    <3>5. u + 1 = k /\ q2 = Next(code, u, l, m)
      BY <1>5, <2>1, <3>2
    <3> QED
      BY <3>4, <3>5
  <2>3. /\ k \in 0 .. CRF_WORDS - 2 /\ RepeatsItself(code[k])
        /\ mul = code[k].type /\ SideFits(code[k], bank) /\ InCells(row, col0) /\ col0 \in Int
    BY <1>3, <1>5, <2>1 DEF Serves
  <2>4. Leads(r, AddTransactionAll(read, bank, row, col0, Executing(mul), TRUE, NUM_GRF),
              b, full, Running(code, z, q2), Running(code, z, Next(code, k, l, m)))
    <3> HIDE DEF q2
    <3> QED
      BY <1>4, <2>2, <2>3, LeadsReady
  <2>5. C = AddTransactionAll(read, bank, row, col0, Executing(mul), TRUE, NUM_GRF)
    BY <2>1 DEF Group
  <2>6. q3 = Next(code, k, l, m)
    BY <2>1
  <2> HIDE DEF q2, q3, C
  <2> QED
    BY <2>4, <2>5, <2>6
<1>9. TreeTile(job, input, output, batch, h, col) = (A \o B) \o C
  BY DEF TreeTile
<1> HIDE DEF A, B, C, S, q1, q2, q3
<1>10. Leads(r, A \o B, b, full, S(q), S(q2))
  BY <1>6, <1>7, LeadsFurther
<1>11. Leads(r, (A \o B) \o C, b, full, S(q), S(q3))
  BY <1>8, <1>10, LeadsFurther
<1> QED
  BY <1>9, <1>11 DEF S, q3

(* The sequencer before the i-th tile.                                     *)
TreeAt(code, i) ==
  IF i = 0 THEN ProgramStart
  ELSE IF i % 2 = 1 THEN Next(code, 3, 1, 0) ELSE Next(code, 7, 5, 0)

TreeStart(code, i, p) == \E lj, j : LapStarts(code, TreeAt(code, i), p, lj, j)

(* The program starts with its first half, ...                               *)
LEMMA TreeFirst ==
  ASSUME NEW code, NEW n, TreeCode(code, n)
  PROVE  TreeStart(code, 0, 0)
<1>1. code[0].type # "JUMP"
  BY DEF TreeCode, HalfCode, Laps
<1>2. PICK p, k : p = 0 /\ k = -1
  OBVIOUS
<1>3. LapStarts(code, ProgramStart, p, k, k)
  BY <1>1, <1>2, ReadyStart DEF LapStarts
<1>4. TreeAt(code, 0) = ProgramStart
  BY DEF TreeAt
<1> QED
  BY <1>2, <1>3, <1>4 DEF TreeStart

(* ... goes on with the second, ...                                          *)
LEMMA TreeOdd ==
  ASSUME NEW code, NEW n, TreeCode(code, n), NEW i \in Nat, i % 2 = 1
  PROVE  TreeStart(code, i, 4)
<1>1. PICK k, p, lj, j : k = 3 /\ p = 4 /\ lj = 1 /\ j = 0
  OBVIOUS
<1>2. code[p].type \notin {"JUMP", "EXIT"}
  BY <1>1 DEF TreeCode, HalfCode, Laps
<1>3. /\ k \in 0 .. CRF_WORDS - 2 /\ k + 1 = p /\ lj \in Int /\ j \in Int /\ lj # p + 1
  BY <1>1 DEF CRF_WORDS
<1>4. Ready(code, Next(code, k, lj, j), k + 1, lj, j)
  BY <1>2, <1>3, ReadyNext
<1>5. LapStarts(code, Next(code, k, lj, j), p, lj, j)
  BY <1>3, <1>4 DEF LapStarts
<1>6. TreeAt(code, i) = Next(code, 3, 1, 0)
  <2>1. i # 0
    OBVIOUS
  <2> QED
    BY <2>1, Zenon DEF TreeAt
<1> QED
  BY <1>1, <1>5, <1>6 DEF TreeStart

(* ... and back: the jump of a half has taken the register, so the jump      *)
(* around them is armed anew each time.                                      *)
LEMMA TreeEven ==
  ASSUME NEW code, NEW n, TreeCode(code, n), n # 0, NEW i \in Nat, i # 0, i % 2 # 1
  PROVE  TreeStart(code, i, 0)
<1>1. PICK k, p, lj, j, o, nl : k = 7 /\ p = 0 /\ lj = 5 /\ j = 0 /\ o = 9 /\ nl = 8
  OBVIOUS
<1>2. code[p].type \notin {"JUMP", "EXIT"}
  BY <1>1 DEF TreeCode, HalfCode, Laps
<1>3. /\ k \in 0 .. CRF_WORDS - 2 /\ k + 1 = nl /\ lj \in Int /\ j \in Int /\ o \in Nat
      /\ p = (k + 1) - o + 1
  BY <1>1 DEF CRF_WORDS
<1>4. /\ code[k + 1].type = "JUMP" /\ code[k + 1].loopCounter = n /\ code[k + 1].loopOffset = o
      /\ n \in Nat
  BY <1>1, <1>3 DEF TreeCode, IsJump
<1>5. PICK nj \in Int : nj = n - 1
  BY <1>4
<1>6. Count(k + 1, n, lj, j) > 0 /\ nl = Counted(k + 1, n, lj) /\ nj = Count(k + 1, n, lj, j) - 1
  BY <1>1, <1>4, <1>5 DEF Count, Counted
<1>7. Ready(code, Next(code, k, lj, j), p, nl, nj)
  BY <1>2, <1>3, <1>4, <1>6, ReadyTaken
<1>8. LapStarts(code, Next(code, k, lj, j), p, nl, nj)
  BY <1>1, <1>5, <1>7 DEF LapStarts
<1>9. TreeAt(code, i) = Next(code, 7, 5, 0)
  BY Zenon DEF TreeAt
<1> QED
  BY <1>1, <1>8, <1>9 DEF TreeStart

(* Numbers are even and odd in turn.                                         *)
LEMMA Parity ==
  ASSUME NEW i \in Nat
  PROVE  /\ i % 2 = 0 \/ i % 2 = 1
         /\ i % 2 = 0 <=> (i + 1) % 2 = 1
  OBVIOUS

(* With a third tile the program has its jump.                               *)
LEMMA MoreTiles ==
  ASSUME NEW job, job.tiles \in Nat \ {0}, NEW i \in 0 .. job.tiles - 1, i # 0, i % 2 = 0
  PROVE  EvenTiles(job) - 1 # 0
<1> DEFINE n == job.tiles
<1>1. n \in Nat /\ i <= n - 1 /\ i >= 2
  OBVIOUS
<1> HIDE DEF n
<1>2. (n + 1) \div 2 >= 2
  BY <1>1
<1> QED
  BY <1>2 DEF EvenTiles, n

(* A tile of GEMVTREE, its half in turn.                                     *)
LEMMA LeadsTreeTile ==
  ASSUME NEW job, job.tiles \in Nat \ {0}, RegularTree(job), NEW code,
         TreeCode(code, EvenTiles(job) - 1), NEW z, NEW b, NEW full, NEW r \in Driven,
         NEW output \in 0 .. job.outputs - 1, NEW batch \in 0 .. job.batch - 1,
         NEW i \in 0 .. job.tiles - 1
  PROVE  Leads(r, TreeTile(job, i, output, batch, i % 2, ResultCol(job, output, batch) + i * NUM_GRF),
               b, full, Running(code, z, TreeAt(code, i)), Running(code, z, TreeAt(code, i + 1)))
<1>1. PICK col \in Int : col = ResultCol(job, output, batch) + i * NUM_GRF /\ InCells(0, col)
  BY DEF RegularTree, InTreeResults
<1>2. InWeights(job, i, output) /\ NUM_GRF >= 2 /\ NUM_GRF + 7 < NUM_COLS_PER_BL /\ InCells(ZERO_ROW, 0)
  BY DEF RegularTree
<1>3. PICK n : n = EvenTiles(job) - 1
  OBVIOUS
<1>4. TreeCode(code, n) /\ i \in Nat /\ i + 1 # 0
  BY <1>3
<1>5. CASE i % 2 = 0
  <2>1. TreeStart(code, i, 0)
    <3>1. CASE i = 0
      BY <1>4, <3>1, TreeFirst
    <3>2. CASE i # 0
      <4>1. n # 0
        BY <1>3, <1>5, <3>2, MoreTiles
      <4>2. i % 2 # 1
        BY <1>5
      <4> QED
        BY <1>4, <3>2, <4>1, <4>2, TreeEven
    <3> QED
      BY <3>1, <3>2
  <2>2. PICK lj, j : LapStarts(code, TreeAt(code, i), 0, lj, j)
    BY <2>1 DEF TreeStart
  <2>3. PICK p, h : p = 0 /\ h = 0
    OBVIOUS
  <2>4. p \in 0 .. 8 /\ HalfCode(code, p, h) /\ LapStarts(code, TreeAt(code, i), p, lj, j)
    BY <1>4, <2>2, <2>3 DEF TreeCode
  <2>5. Leads(r, TreeTile(job, i, output, batch, h, col), b, full,
              Running(code, z, TreeAt(code, i)), Running(code, z, Next(code, p + 3, p + 1, 0)))
    BY <1>1, <1>2, <2>4, LeadsHalf
  <2>6. TreeAt(code, i + 1) = Next(code, 3, 1, 0)
    <3>1. (i + 1) % 2 = 1
      BY <1>4, <1>5, Parity
    <3> QED
      BY <1>4, <3>1, Zenon DEF TreeAt
  <2>7. TreeAt(code, i + 1) = Next(code, p + 3, p + 1, 0) /\ i % 2 = h
    BY <1>5, <2>3, <2>6
  <2> QED
    BY <1>1, <2>5, <2>7, Zenon
<1>6. CASE i % 2 = 1
  <2>2. PICK lj, j : LapStarts(code, TreeAt(code, i), 4, lj, j)
    BY <1>4, <1>6, TreeOdd DEF TreeStart
  <2>3. PICK p, h : p = 4 /\ h = 1
    OBVIOUS
  <2>4. p \in 0 .. 8 /\ HalfCode(code, p, h) /\ LapStarts(code, TreeAt(code, i), p, lj, j)
    BY <1>4, <2>2, <2>3 DEF TreeCode
  <2>5. Leads(r, TreeTile(job, i, output, batch, h, col), b, full,
              Running(code, z, TreeAt(code, i)), Running(code, z, Next(code, p + 3, p + 1, 0)))
    BY <1>1, <1>2, <2>4, LeadsHalf
  <2>6. TreeAt(code, i + 1) = Next(code, 7, 5, 0)
    <3>1. (i + 1) % 2 # 1
      <4>1. ~(i % 2 = 0)
        BY <1>6
      <4> QED
        BY <1>4, <4>1, Parity
    <3> QED
      BY <1>4, <3>1, Zenon DEF TreeAt
  <2>7. TreeAt(code, i + 1) = Next(code, p + 3, p + 1, 0) /\ i % 2 = h
    BY <1>6, <2>3, <2>6
  <2> QED
    BY <1>1, <2>5, <2>7, Zenon
<1> QED
  BY <1>4, <1>5, <1>6, Parity

(* All of them.                                                              *)
LEMMA LeadsTreePass ==
  ASSUME NEW job, job.tiles \in Nat \ {0}, RegularTree(job), NEW code,
         TreeCode(code, EvenTiles(job) - 1), NEW z, NEW b, NEW full, NEW r \in Driven,
         NEW output \in 0 .. job.outputs - 1, NEW batch \in 0 .. job.batch - 1
  PROVE  Leads(r, GemvTreePass(job, output, batch), b, full,
               Running(code, z, ProgramStart), Running(code, z, TreeAt(code, job.tiles)))
<1> DEFINE col(i) == ResultCol(job, output, batch) + i * NUM_GRF
           n == job.tiles
           f == [i \in 0 .. n - 1 |-> TreeTile(job, i, output, batch, i % 2, col(i))]
           D == [i \in 0 .. n |-> Running(code, z, TreeAt(code, i))]
<1>1. GemvTreePass(job, output, batch) = Joined(n, f)
  BY DEF GemvTreePass, ForEach, TreeTile, Group
<1>2. n \in Nat
  OBVIOUS
<1>3. ASSUME NEW i \in 0 .. n - 1 PROVE Leads(r, f[i], b, full, D[i], D[i + 1])
  <2>1. f[i] = TreeTile(job, i, output, batch, i % 2, col(i))
    OBVIOUS
  <2>2. D[i] = Running(code, z, TreeAt(code, i)) /\ D[i + 1] = Running(code, z, TreeAt(code, i + 1))
    BY <1>2
  <2>3. Leads(r, TreeTile(job, i, output, batch, i % 2, col(i)), b, full,
              Running(code, z, TreeAt(code, i)), Running(code, z, TreeAt(code, i + 1)))
    BY LeadsTreeTile
  <2> HIDE DEF f, D, col
  <2> QED
    BY <2>1, <2>2, <2>3
<1>4. D[0] = Running(code, z, ProgramStart) /\ D[n] = Running(code, z, TreeAt(code, n))
  BY <1>2 DEF TreeAt
<1> HIDE DEF f, D, n
<1>5. Leads(r, Joined(n, f), b, full, D[0], D[n])
  BY <1>2, <1>3, LeadsJoined
<1> QED
  BY <1>1, <1>4, <1>5 DEF n

(* Behind its last tile the program stays in the CRF, and with two tiles   *)
(* it has come to its end.                                                 *)
LEMMA TreeInRange ==
  ASSUME NEW code, NEW i \in Nat, i # 0
  PROVE  InRange(TreeAt(code, i))
<1>1. PICK k, l : k = 3 /\ l = 1
  OBVIOUS
<1>2. PICK m, o : m = 7 /\ o = 5
  OBVIOUS
<1>3. k \in 0 .. CRF_WORDS - 2 /\ m \in 0 .. CRF_WORDS - 2
  BY <1>1, <1>2 DEF CRF_WORDS
<1>4. NextIs(code, k, l, 0) /\ NextIs(code, m, o, 0)
  BY <1>3, NextParts
<1>5. InRange(Next(code, k, l, 0)) /\ InRange(Next(code, m, o, 0))
  BY <1>4, Zenon DEF NextIs
<1>6. TreeAt(code, i) = Next(code, 3, 1, 0) \/ TreeAt(code, i) = Next(code, 7, 5, 0)
  BY Zenon DEF TreeAt
<1> QED
  BY <1>1, <1>2, <1>5, <1>6

(* Behind the second it may have come to its end.                            *)
LEMMA TreeEnds ==
  ASSUME NEW code, code[8].type = "EXIT"
  PROVE  Ended(code, TreeAt(code, 2))
<1>1. PICK k, lj : k = 7 /\ lj = 5
  OBVIOUS
<1> DEFINE q == Next(code, k, lj, 0)
<1>2. k \in 0 .. CRF_WORDS - 2 /\ k + 1 = 8
  BY <1>1 DEF CRF_WORDS
<1>3. NextIs(code, k, lj, 0)
  BY <1>2, NextParts
<1>4. q.pc = k + 1 /\ InRange(q)
  BY <1>3 DEF NextIs
<1> HIDE DEF q
<1>5. code[q.pc].type = "EXIT"
  BY <1>2, <1>4
<1>6. TurnsOf(code, q) = q
  BY <1>5, NoJump
<1>7. Ended(code, q)
  BY <1>4, <1>5, <1>6 DEF Ended
<1>8. TreeAt(code, 2) = Next(code, 7, 5, 0)
  BY DEF TreeAt
<1> QED
  BY <1>1, <1>7, <1>8 DEF q

-----------------------------------------------------------------------------
(* The kernels for matrices.                                               *)

MatrixPass(job, output, batch) ==
  IF job.kernel = "GEMVTREE" THEN GemvTreePass(job, output, batch)
                             ELSE GemvPass(job, output, batch)

(* A pass over an output tile and a vector of the batch, once started,     *)
(* takes the sequencer to q.                                               *)
PassesTo(job, code, z, b, full, r, q) ==
  \A output \in 0 .. job.outputs - 1 : \A batch \in 0 .. job.batch - 1 :
    Leads(r, MatrixPass(job, output, batch), b, full, Running(code, z, ProgramStart),
          Running(code, z, q))

MatrixLoads(job) ==
  /\ Loads(Program(job))
  /\ \A code : HoldsProgram(code, Program(job)) =>
       IF job.kernel = "GEMVTREE" THEN TreeCode(code, EvenTiles(job) - 1)
       ELSE GemvCode(code, NUM_GRF * OddTiles(job) - 1, NUM_GRF * EvenTiles(job) - 1)

(* The program of a kernel for matrices fits the CRF and its words.          *)
LEMMA MatrixProgramLoads ==
  ASSUME NEW job \in Jobs, job.kernel \in {"GEMV", "GEMVTREE"}, RegularMatrix(job), RegularDevice
  PROVE  MatrixLoads(job)
<1>1. job.tiles \in Nat \ {0} /\ NUM_GRF <= 2 ^ 11
  BY SessionsAssumption DEF RegularDevice, RegularSizes
<1>2. CASE job.kernel = "GEMVTREE"
  <2>1. CanLoop(EvenTiles(job) - 1) /\ NUM_GRF >= 2
    BY <1>2 DEF RegularMatrix, RegularTree
  <2>2. PICK n : n = EvenTiles(job) - 1
    OBVIOUS
  <2>3. Program(job) = GemvTreePIMKernel(n)
    BY <1>2, <2>2 DEF Program
  <2>4. /\ Loads(GemvTreePIMKernel(n))
        /\ \A code : HoldsProgram(code, GemvTreePIMKernel(n)) => TreeCode(code, n)
    BY <1>1, <2>1, <2>2, TreeLoads
  <2> QED
    BY <1>2, <2>2, <2>3, <2>4, Zenon DEF MatrixLoads
<1>3. CASE job.kernel = "GEMV"
  <2>1. PICK odd, even : odd = NUM_GRF * OddTiles(job) - 1 /\ even = NUM_GRF * EvenTiles(job) - 1
    OBVIOUS
  <2>2. CanLoop(odd) /\ CanLoop(even) /\ NUM_GRF >= 2 /\ job.tiles >= 2
    BY <1>3, <2>1 DEF RegularMatrix, RegularGemv
  <2>3. odd > 0 /\ even > 0
    <3>1. PICK E \in Nat, O \in Nat : E = EvenTiles(job) /\ O = OddTiles(job) /\ E > 0 /\ O > 0
      BY <1>1, <2>2, TilesSplit
    <3>2. NUM_GRF * O >= NUM_GRF /\ NUM_GRF * E >= NUM_GRF
      <4>1. PICK u \in Nat, v \in Nat : E = 1 + u /\ O = 1 + v
        <5>1. E - 1 \in Nat /\ O - 1 \in Nat /\ E = 1 + (E - 1) /\ O = 1 + (O - 1)
          BY <3>1
        <5> QED
          BY <5>1
      <4>2. NUM_GRF * (1 + u) = NUM_GRF + NUM_GRF * u /\ NUM_GRF * (1 + v) = NUM_GRF + NUM_GRF * v
        BY GrfAssumption
      <4>3. NUM_GRF * u \in Nat /\ NUM_GRF * v \in Nat /\ NUM_GRF \in Nat
        BY GrfAssumption
      <4> QED
        BY <4>1, <4>2, <4>3
    <3>3. NUM_GRF * O \in Nat /\ NUM_GRF * E \in Nat /\ NUM_GRF \in Nat
      BY GrfAssumption
    <3> QED
      BY <2>1, <2>2, <3>1, <3>2, <3>3
  <2>4. Program(job) = GemvPIMKernel(odd, even)
    BY <1>3, <2>1 DEF Program
  <2>5. /\ Loads(GemvPIMKernel(odd, even))
        /\ \A code : HoldsProgram(code, GemvPIMKernel(odd, even)) => GemvCode(code, odd, even)
    BY <1>1, <2>2, <2>3, GemvLoads
  <2>6. job.kernel # "GEMVTREE"
    BY <1>3
  <2> QED
    BY <2>1, <2>4, <2>5, <2>6, Zenon DEF MatrixLoads
<1> QED
  BY <1>2, <1>3

(* Every pass takes the started program to the same place, for GEMV and for  *)
(* two tiles of GEMVTREE to its end.                                         *)
LEMMA MatrixPasses ==
  ASSUME NEW job \in Jobs, job.kernel \in {"GEMV", "GEMVTREE"}, RegularMatrix(job),
         MatrixLoads(job), NEW code, HoldsProgram(code, Program(job)),
         NEW z, NEW b, NEW full, NEW r \in Driven
  PROVE  \E q : /\ InRange(q)
                /\ FullyUsed(job) => Ended(code, q)
                /\ PassesTo(job, code, z, b, full, r, q)
<1>1. job.tiles \in Nat \ {0}
  BY SessionsAssumption
<1>2. CASE job.kernel = "GEMVTREE"
  <2>1. RegularTree(job) /\ TreeCode(code, EvenTiles(job) - 1)
    BY <1>2 DEF RegularMatrix, MatrixLoads
  <2>2. InRange(TreeAt(code, job.tiles))
    BY <1>1, TreeInRange
  <2>3. ASSUME FullyUsed(job) PROVE Ended(code, TreeAt(code, job.tiles))
    <3>1. job.tiles = 2
      BY <1>2, <2>3 DEF FullyUsed
    <3>2. EvenTiles(job) - 1 = 0
      BY <3>1 DEF EvenTiles
    <3>3. code[8].type = "EXIT"
      BY <2>1, <3>2 DEF TreeCode
    <3>4. Ended(code, TreeAt(code, 2))
      BY <3>3, TreeEnds
    <3> QED
      BY <3>1, <3>4, Zenon
  <2>4. PassesTo(job, code, z, b, full, r, TreeAt(code, job.tiles))
    <3> SUFFICES ASSUME NEW output \in 0 .. job.outputs - 1, NEW batch \in 0 .. job.batch - 1
                 PROVE  Leads(r, MatrixPass(job, output, batch), b, full,
                              Running(code, z, ProgramStart),
                              Running(code, z, TreeAt(code, job.tiles)))
      BY DEF PassesTo
    <3>1. MatrixPass(job, output, batch) = GemvTreePass(job, output, batch)
      BY <1>2 DEF MatrixPass
    <3>2. Leads(r, GemvTreePass(job, output, batch), b, full, Running(code, z, ProgramStart),
                Running(code, z, TreeAt(code, job.tiles)))
      BY <1>1, <2>1, LeadsTreePass
    <3> QED
      BY <3>1, <3>2
  <2> QED
    BY <2>2, <2>3, <2>4
<1>3. CASE job.kernel = "GEMV"
  <2>1. /\ RegularGemv(job)
        /\ GemvCode(code, NUM_GRF * OddTiles(job) - 1, NUM_GRF * EvenTiles(job) - 1)
    BY <1>3 DEF RegularMatrix, MatrixLoads
  <2>2. Ended(code, Next(code, 4, 3, 0))
    BY <2>1, GemvEnds DEF GemvCode
  <2>3. PassesTo(job, code, z, b, full, r, Next(code, 4, 3, 0))
    <3> SUFFICES ASSUME NEW output \in 0 .. job.outputs - 1, NEW batch \in 0 .. job.batch - 1
                 PROVE  Leads(r, MatrixPass(job, output, batch), b, full,
                              Running(code, z, ProgramStart),
                              Running(code, z, Next(code, 4, 3, 0)))
      BY DEF PassesTo
    <3>1. MatrixPass(job, output, batch) = GemvPass(job, output, batch)
      BY <1>3 DEF MatrixPass
    <3>2. Leads(r, GemvPass(job, output, batch), b, full, Running(code, z, ProgramStart),
                Running(code, z, Next(code, 4, 3, 0)))
      BY <1>1, <2>1, LeadsGemvPass
    <3> QED
      BY <3>1, <3>2
  <2> QED
    BY <2>2, <2>3 DEF Ended
<1> QED
  BY <1>2, <1>3

-----------------------------------------------------------------------------
(* Passes one after the other.                                             *)

(* From any state at rest with this program.                               *)
LeadsFrom(r, s, b, full, code, e) ==
  \A d : Resting(d) /\ d.crf = code => Leads(r, s, b, full, d, e)

(* Rounds from one rest to the next, with the same program.                  *)
LEMMA LeadsRepeated ==
  ASSUME NEW r, NEW b, NEW full, NEW code, NEW e, Resting(e), e.crf = code,
         NEW N \in Nat \ {0}, NEW f, \A i \in 0 .. N - 1 : LeadsFrom(r, f[i], b, full, code, e)
  PROVE  LeadsFrom(r, Joined(N, f), b, full, code, e)
<1> SUFFICES ASSUME NEW d, Resting(d), d.crf = code
             PROVE  Leads(r, Joined(N, f), b, full, d, e)
  BY DEF LeadsFrom
<1> DEFINE D == [i \in 0 .. N |-> IF i = 0 THEN d ELSE e]
<1>1. ASSUME NEW i \in 0 .. N - 1 PROVE Leads(r, f[i], b, full, D[i], D[i + 1])
  <2>1. D[i + 1] = e
    OBVIOUS
  <2>2. Resting(D[i]) /\ D[i].crf = code
    <3>1. D[i] = d \/ D[i] = e
      OBVIOUS
    <3> HIDE DEF D
    <3> QED
      BY <3>1
  <2> HIDE DEF D
  <2> QED
    BY <2>1, <2>2 DEF LeadsFrom
<1>2. D[0] = d /\ D[N] = e
  OBVIOUS
<1> HIDE DEF D
<1>3. Leads(r, Joined(N, f), b, full, D[0], D[N])
  BY <1>1, LeadsJoined
<1> QED
  BY <1>2, <1>3

MatrixRound(job, output, batch) ==
  ChangePIMMode("HAB", "HAB_PIM") \o MatrixPass(job, output, batch)
    \o ChangePIMMode("HAB_PIM", "HAB")

MatrixBody(job) ==
  Joined(job.outputs, [j \in 0 .. job.outputs - 1 |->
    Joined(job.batch, [b \in 0 .. job.batch - 1 |-> MatrixRound(job, j, b)])])

(* The program is started, run and stopped for every output tile and every   *)
(* vector of the batch.                                                      *)
LEMMA LeadsMatrix ==
  ASSUME NEW job \in Jobs, RegularDevice, NEW r \in Driven, NEW b, NEW full, NEW code, NEW z, NEW q,
         b.started = [op |-> TRUE, toggle |-> 0, zero |-> z], b.stopped = StoppedWord,
         IsCode(code), InRange(q), full => Ended(code, q),
         PassesTo(job, code, z, b, full, r, q)
  PROVE  LeadsFrom(r, MatrixBody(job), b, full, code, Paused(code, q))
<1> DEFINE e == Paused(code, q)
           p4 == ChangePIMMode("HAB", "HAB_PIM")
           p6 == ChangePIMMode("HAB_PIM", "HAB")
           f == [j \in 0 .. job.outputs - 1 |->
                   Joined(job.batch, [i \in 0 .. job.batch - 1 |-> MatrixRound(job, j, i)])]
<1>1. Resting(e)
  BY PausedResting
<1>2. e.crf = code
  BY DEF Paused
<1>3. job.outputs \in Nat \ {0} /\ job.batch \in Nat \ {0}
  BY SessionsAssumption
<1>4. ASSUME NEW output \in 0 .. job.outputs - 1, NEW batch \in 0 .. job.batch - 1
      PROVE  LeadsFrom(r, MatrixRound(job, output, batch), b, full, code, e)
  <2> SUFFICES ASSUME NEW d, Resting(d), d.crf = code
               PROVE  Leads(r, MatrixRound(job, output, batch), b, full, d, e)
    BY DEF LeadsFrom
  <2> DEFINE body == MatrixPass(job, output, batch)
  <2>1. Leads(r, p4, b, full, d, Running(code, z, ProgramStart))
    BY LeadsStart DEF RegularDevice, RegularSizes
  <2>2. Leads(r, body, b, full, Running(code, z, ProgramStart), Running(code, z, q))
    BY DEF PassesTo
  <2>3. Leads(r, p6, b, full, Running(code, z, q), e)
    BY LeadsStop DEF Ended, RegularDevice, RegularSizes
  <2>4. MatrixRound(job, output, batch) = (p4 \o body) \o p6
    BY DEF MatrixRound
  <2> HIDE DEF p4, p6, e, body
  <2>5. Leads(r, p4 \o body, b, full, d, Running(code, z, q))
    BY <2>1, <2>2, LeadsFurther
  <2>6. Leads(r, (p4 \o body) \o p6, b, full, d, e)
    BY <2>3, <2>5, LeadsFurther
  <2> QED
    BY <2>4, <2>6
<1>5. ASSUME NEW j \in 0 .. job.outputs - 1 PROVE LeadsFrom(r, f[j], b, full, code, e)
  <2> DEFINE g == [i \in 0 .. job.batch - 1 |-> MatrixRound(job, j, i)]
  <2>1. f[j] = Joined(job.batch, g)
    OBVIOUS
  <2>2. ASSUME NEW i \in 0 .. job.batch - 1 PROVE LeadsFrom(r, g[i], b, full, code, e)
    <3>1. g[i] = MatrixRound(job, j, i)
      OBVIOUS
    <3> QED
      BY <1>4, <3>1
  <2> HIDE DEF f, g, e
  <2>3. LeadsFrom(r, Joined(job.batch, g), b, full, code, e)
    BY <1>1, <1>2, <1>3, <2>2, LeadsRepeated
  <2> QED
    BY <2>1, <2>3
<1>6. MatrixBody(job) = Joined(job.outputs, f)
  BY DEF MatrixBody
<1> HIDE DEF f, e
<1>7. LeadsFrom(r, Joined(job.outputs, f), b, full, code, e)
  BY <1>1, <1>2, <1>3, <1>5, LeadsRepeated
<1> QED
  BY <1>6, <1>7 DEF e

(* A kernel for matrices, from one rest to the next: it is in step all the   *)
(* way.                                                                      *)
LEMMA MatrixFits ==
  ASSUME NEW job \in Jobs, job.kernel \in {"GEMV", "GEMVTREE"}, RegularMatrix(job),
         RegularDevice, NEW b, b.stopped = StoppedWord, NEW d, Resting(d), NEW r \in Driven
  PROVE  \E e : Resting(e) /\ Leads(r, Kernel(job), BuffersAfter(b, job), FullyUsed(job), d, e)
<1> DEFINE c == BuffersAfter(b, job)
           full == FullyUsed(job)
           P == Program(job)
           zero == IF job.kernel = "GEMVTREE" THEN ClearZeroRow ELSE << >>
           p0 == zero \o ParkIn
           p2 == ChangePIMMode("SB", "HAB")
           p3 == ProgramCrf(P)
           p5 == MatrixBody(job)
           p7 == ChangePIMMode("HAB", "SB")
           p8 == ParkOut
<1>1. Kernel(job) = (((((p0 \o p2) \o p3) \o p5) \o p7) \o p8)
  <2>1. IsGemv(job)
    BY DEF IsGemv
  <2>2. MatrixBody(job) =
          ForEach(job.outputs, LAMBDA j : ForEach(job.batch, LAMBDA i :
            ChangePIMMode("HAB", "HAB_PIM")
            \o (IF job.kernel = "GEMVTREE" THEN GemvTreePass(job, j, i) ELSE GemvPass(job, j, i))
            \o ChangePIMMode("HAB_PIM", "HAB")))
    BY DEF MatrixBody, MatrixRound, MatrixPass, ForEach
  <2> QED
    BY <2>1, <2>2 DEF Kernel, ExecuteGemv
<1>2. c.stopped = StoppedWord /\ c.started = [op |-> TRUE, toggle |-> 0, zero |-> Zeroed(job)]
  <2>1. IsGemv(job)
    BY DEF IsGemv
  <2> QED
    BY <2>1 DEF BuffersAfter
<1>3. MatrixLoads(job)
  BY MatrixProgramLoads
<1>4. PICK m : /\ Resting(m) /\ HoldsProgram(m.crf, P)
               /\ Leads(r, p3, c, full, d, m)
  <2>1. Loads(Program(job))
    BY <1>3 DEF MatrixLoads
  <2> QED
    BY <2>1, LeadsProgram
<1> DEFINE code == m.crf
           z == Zeroed(job)
<1> HIDE DEF c, full, P, zero, p0, p2, p3, p5, p7, p8
<1>5. Leads(r, p0, c, full, d, d) /\ Leads(r, p2, c, full, d, d)
  <2>1. IsQuiet(zero)
    BY QuietZeroRow, QuietNothing DEF zero
  <2>2. IsQuietStage(p0)
    BY <2>1, QuietModeChanges, QuietStage DEF p0
  <2>3. IsQuietStage(p2)
    BY QuietModeChanges DEF p2
  <2>4. GoodState(d)
    BY DEF Resting
  <2> QED
    BY <2>2, <2>3, <2>4, LeadsQuietStage
<1>6. IsCode(code)
  BY <1>4 DEF HoldsProgram
<1>7. PICK q : /\ InRange(q)
               /\ full => Ended(code, q)
               /\ PassesTo(job, code, z, c, full, r, q)
  <2>1. HoldsProgram(code, Program(job))
    BY <1>4 DEF P
  <2> HIDE DEF code, z
  <2>2. \E q : /\ InRange(q)
               /\ FullyUsed(job) => Ended(code, q)
               /\ PassesTo(job, code, z, c, full, r, q)
    BY <1>3, <2>1, MatrixPasses
  <2> QED
    BY <2>2 DEF full
<1> DEFINE e == Paused(code, q)
<1>8. Resting(e)
  BY <1>6, <1>7, PausedResting
<1>9. LeadsFrom(r, p5, c, full, code, e)
  <2>1. c.started = [op |-> TRUE, toggle |-> 0, zero |-> z]
    BY <1>2
  <2> HIDE DEF z, code
  <2> QED
    BY <1>2, <1>6, <1>7, <2>1, LeadsMatrix DEF p5
<1>10. Leads(r, p5, c, full, m, e)
  BY <1>4, <1>9 DEF LeadsFrom
<1> HIDE DEF e, code, z
<1>11. Leads(r, p7, c, full, e, e) /\ Leads(r, p8, c, full, e, e)
  BY <1>8, QuietModeChanges, LeadsQuietStage DEF Resting, p7, p8
<1>12. Leads(r, p0 \o p2, c, full, d, d)
  BY <1>5, LeadsFurther
<1>13. Leads(r, (p0 \o p2) \o p3, c, full, d, m)
  BY <1>4, <1>12, LeadsFurther
<1>14. Leads(r, ((p0 \o p2) \o p3) \o p5, c, full, d, e)
  BY <1>10, <1>13, LeadsFurther
<1>15. Leads(r, (((p0 \o p2) \o p3) \o p5) \o p7, c, full, d, e)
  BY <1>11, <1>14, LeadsFurther
<1>16. Leads(r, ((((p0 \o p2) \o p3) \o p5) \o p7) \o p8, c, full, d, e)
  BY <1>11, <1>15, LeadsFurther
<1> QED
  BY <1>1, <1>8, <1>16 DEF c, full

-----------------------------------------------------------------------------
(* The kernels of the sessions.                                            *)

RegularSessions ==
  /\ RegularDevice
  /\ \A job \in Jobs : RegularJob(job)

(* Every kernel of regular sessions is in step with its program, whatever    *)
(* ran before it.                                                            *)
LEMMA EveryKernelFits ==
  ASSUME RegularSessions
  PROVE  KernelsFit
<1> SUFFICES ASSUME NEW job \in Jobs, NEW b, NEW d, NEW r \in Driven,
                    b.stopped = StoppedWord, Resting(d)
             PROVE  \E e : /\ Resting(e)
                           /\ Leads(r, Kernel(job), BuffersAfter(b, job), FullyUsed(job), d, e)
  BY DEF KernelsFit
<1>1. job.kernel \in {"ADD", "MUL", "RELU", "GEMV", "GEMVTREE"}
  BY SessionsAssumption
<1>2. RegularDevice
  BY DEF RegularSessions
<1>3. CASE job.kernel \in {"ADD", "MUL", "RELU"}
  <2>1. RegularEltwise(job)
    BY <1>3 DEF RegularSessions, RegularJob, IsGemv
  <2>2. PICK full : full = FullyUsed(job)
    OBVIOUS
  <2>3. \E e : Resting(e) /\ Leads(r, Kernel(job), BuffersAfter(b, job), full, d, e)
    BY <1>2, <1>3, <2>1, EltwiseFits
  <2> QED
    BY <2>2, <2>3
<1>4. CASE job.kernel \in {"GEMV", "GEMVTREE"}
  <2>1. RegularMatrix(job)
    BY <1>4 DEF RegularSessions, RegularJob, IsGemv
  <2> QED
    BY <1>2, <1>4, <2>1, MatrixFits
<1> QED
  BY <1>1, <1>3, <1>4

(* Whatever is outstanding, the rank is on the way on which the calls of the *)
(* kernel lead it (PIMKernel.cpp, PIMRank::doPIM).                           *)
THEOREM ControlInvariant ==
  ASSUME RegularSessions
  PROVE  ProgramSpec => []ControlInv
<1>1. KernelsFit
  BY EveryKernelFits
<1>2. ProgramInit => ControlInv
  BY ControlInit
<1>3. ControlInv /\ [ProgramNext]_programVars => ControlInv'
  BY <1>1, ControlNext
<1> QED
  BY <1>2, <1>3, PTL DEF ProgramSpec

(* For regular kernels of any size, in any sequence, the program counter of  *)
(* PIMRank::doPIM, which checks nothing, stays inside the CRF, and the mode  *)
(* agrees with the control word.                                             *)
THEOREM ProgramTyped ==
  ASSUME RegularSessions
  PROVE  ProgramSpec => []ProgramTypeOK
<1>1. ControlInv => ProgramTypeOK
  BY ControlImplies
<1> QED
  BY <1>1, ControlInvariant, PTL

(* For regular kernels of any size, in any sequence and with the accesses    *)
(* between two barriers in any order, every access executes an instruction   *)
(* of the type that the kernel meant it to, on the side of the bank that it  *)
(* addressed (PIMKernel.cpp, PIMRank::doPIM).                                *)
THEOREM StepsAsIntended ==
  ASSUME RegularSessions
  PROVE  ProgramSpec => []StepAsIntended
<1>1. ControlInv => StepAsIntended
  BY ControlImplies
<1> QED
  BY <1>1, ControlInvariant, PTL

(* Regular kernels stop the sequencer only where its program has come to its *)
(* EXIT, so that no result stays behind in the registers (PIMKernel.cpp,     *)
(* PIMCmdGen).                                                               *)
THEOREM ProgramsUsedUp ==
  ASSUME RegularSessions
  PROVE  ProgramSpec => []ProgramUsedUp
<1>1. ControlInv => ProgramUsedUp
  BY ControlImplies
<1> QED
  BY <1>1, ControlInvariant, PTL

===============================================================================

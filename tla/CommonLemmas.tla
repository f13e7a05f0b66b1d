----------------------------- MODULE CommonLemmas -----------------------------
(***************************************************************************)
(* What the proofs of several modules need.  Induction over numbers and    *)
(* the recursive functions that stand for loops are in first-order form: a *)
(* set in place of the predicate, a function in place of the loop's body.  *)
(***************************************************************************)
EXTENDS Integers, SequencesExt, SequenceTheorems, WellFoundedInduction, TLAPS

LessThan == {p \in Nat \X Nat : p[1] < p[2]}

LEMMA LessThanWellFounded == IsWellFoundedOn(LessThan, Nat)
  BY NatLessThanWellFounded DEF OpToRel, LessThan

(* A set of numbers that is not empty has a least member.                  *)
LEMMA LeastMember ==
  ASSUME NEW T \in SUBSET Nat, T # {}
  PROVE  \E x \in T : \A y \in T : x <= y
<1>1. PICK x \in T : \A y \in T : ~ (<< y, x >> \in LessThan)
  BY LessThanWellFounded, WFMin
<1>2. \A y \in T : ~ (y < x)
  BY <1>1 DEF LessThan
<1> QED BY <1>2

(* The least member of a set of numbers, as the models pick it.            *)
LEMMA MinMember ==
  ASSUME NEW T \in SUBSET Nat, T # {}
  PROVE  Min(T) \in T /\ \A y \in T : Min(T) <= y
BY LeastMember DEF Min

(* A set of numbers with 0 and with the successor of each of its members   *)
(* below N has every number up to N.                                       *)
LEMMA InductionUpTo ==
  ASSUME NEW N \in Nat, NEW P, 0 \in P,
         \A n \in 0 .. N - 1 : n \in P => n + 1 \in P
  PROVE  0 .. N \subseteq P
<1> DEFINE T == (0 .. N) \ P
<1> SUFFICES ASSUME T # {} PROVE FALSE
  OBVIOUS
<1>1. PICK x \in T : \A y \in T : x <= y
  <2> T \in SUBSET Nat
    OBVIOUS
  <2> HIDE DEF T
  <2> QED BY LeastMember
<1>2. x - 1 \in 0 .. N - 1 /\ x - 1 \notin T
  BY <1>1
<1>3. x - 1 \in P /\ x = (x - 1) + 1
  BY <1>2
<1> QED
  BY <1>1, <1>2, <1>3

-----------------------------------------------------------------------------
(* Powers of two that fit an unsigned int.                                 *)

(* Each power is twice the one before.                                     *)
LEMMA Doubling ==
  /\ 2^0 = 1
  /\ \A k \in 0 .. 30 : 2^(k + 1) = 2 * 2^k
<1> DEFINE Doubles(k) == 2^(k + 1) = 2 * 2^k
<1>1. /\ Doubles(0) /\ Doubles(1) /\ Doubles(2) /\ Doubles(3) /\ Doubles(4) /\ Doubles(5)
      /\ Doubles(6) /\ Doubles(7) /\ Doubles(8) /\ Doubles(9) /\ Doubles(10) /\ Doubles(11)
      /\ Doubles(12) /\ Doubles(13) /\ Doubles(14) /\ Doubles(15) /\ Doubles(16) /\ Doubles(17)
      /\ Doubles(18) /\ Doubles(19) /\ Doubles(20) /\ Doubles(21) /\ Doubles(22) /\ Doubles(23)
      /\ Doubles(24) /\ Doubles(25) /\ Doubles(26) /\ Doubles(27) /\ Doubles(28) /\ Doubles(29)
      /\ Doubles(30)
  OBVIOUS
<1>2. \A k \in 0 .. 30 : Doubles(k)
  <2> HIDE DEF Doubles
  <2> QED
    BY <1>1
<1> QED
  BY <1>2

(* The powers in reach are positive.                                       *)
LEMMA PowerPositive == \A k \in 0 .. 31 : 2^k \in Nat \ {0}
<1> DEFINE P == {k \in 0 .. 31 : 2^k \in Nat \ {0}}
<1>1. 0 \in P
  BY Doubling
<1>2. ASSUME NEW n \in 0 .. 30, n \in P PROVE n + 1 \in P
  <2>1. 2^(n + 1) = 2 * 2^n
    BY Doubling
  <2>2. n + 1 \in 0 .. 31
    OBVIOUS
  <2> QED
    BY <1>2, <2>1, <2>2
<1>3. 0 .. 31 \subseteq P
  <2> HIDE DEF P
  <2>1. 0 .. 31 - 1 = 0 .. 30
    OBVIOUS
  <2> QED
    BY <1>1, <1>2, <2>1, InductionUpTo
<1> QED
  BY <1>3

-----------------------------------------------------------------------------
(* Loops.                                                                  *)

(* The loop whose n-th pass turns s into step[n][s] has a run.             *)
IsLoop(N, start, step, f) ==
  f[0] = start /\ \A n \in 1 .. N : f[n] = step[n][f[n - 1]]

LEMMA LoopExists ==
  ASSUME NEW N \in Nat, NEW S, NEW start \in S, NEW step \in [1 .. N -> [S -> S]]
  PROVE  \E f \in [0 .. N -> S] :
           IsLoop(N, start, step, f)
<1> DEFINE Run(k, f) == /\ f[0] = start
                        /\ \A n \in 1 .. k : f[n] = step[n][f[n - 1]]
           P == {k \in Nat : k <= N => \E f \in [0 .. k -> S] : Run(k, f)}
<1>1. 0 \in P
  <2>1. [n \in 0 .. 0 |-> start] \in [0 .. 0 -> S]
    OBVIOUS
  <2>2. Run(0, [n \in 0 .. 0 |-> start])
    OBVIOUS
  <2> QED BY <2>1, <2>2
<1>2. ASSUME NEW k \in 0 .. N - 1, k \in P PROVE k + 1 \in P
  <2>1. k \in Nat /\ k <= N /\ k + 1 \in Nat
    OBVIOUS
  <2>2. PICK f \in [0 .. k -> S] : Run(k, f)
    <3> HIDE DEF Run
    <3> QED BY <1>2, <2>1
  <2> DEFINE g == [n \in 0 .. k + 1 |-> IF n = k + 1 THEN step[k + 1][f[k]] ELSE f[n]]
  <2>3. step[k + 1][f[k]] \in S
    <3>1. k + 1 \in 1 .. N /\ f[k] \in S
      BY <2>1
    <3>2. step[k + 1] \in [S -> S]
      BY <3>1
    <3> QED BY <3>1, <3>2
  <2>4. g \in [0 .. k + 1 -> S]
    BY <2>1, <2>3
  <2>5. g[0] = start
    BY <2>1, <2>2
  <2>6. ASSUME NEW n \in 1 .. k + 1 PROVE g[n] = step[n][g[n - 1]]
    <3>1. CASE n = k + 1
      BY <2>1, <3>1
    <3>2. CASE n # k + 1
      BY <2>1, <2>2, <3>2
    <3> QED BY <3>1, <3>2
  <2>7. Run(k + 1, g)
    <3> HIDE DEF g
    <3> QED BY <2>5, <2>6
  <2> HIDE DEF g, Run
  <2> QED BY <2>1, <2>4, <2>7
<1>3. 0 .. N \subseteq P
  <2> HIDE DEF P
  <2> QED BY <1>1, <1>2, InductionUpTo
<1>4. N \in P
  BY <1>3
<1> QED
  BY <1>4 DEF IsLoop

-----------------------------------------------------------------------------
(* Adding up N numbers.                                                    *)

IsPartialSums(N, f, s) == s[0] = 0 /\ \A n \in 1 .. N : s[n] = s[n - 1] + f[n]

LEMMA PartialSumsExist ==
  ASSUME NEW N \in Nat, NEW f \in [1 .. N -> Int]
  PROVE  \E s \in [0 .. N -> Int] : IsPartialSums(N, f, s)
<1> DEFINE step == [n \in 1 .. N |-> [m \in Int |-> m + f[n]]]
<1>1. step \in [1 .. N -> [Int -> Int]] /\ 0 \in Int
  OBVIOUS
<1>2. PICK s \in [0 .. N -> Int] : IsLoop(N, 0, step, s)
  <2> HIDE DEF step
  <2> QED BY <1>1, LoopExists
<1>3. \A n \in 1 .. N : n - 1 \in 0 .. N
  OBVIOUS
<1>4. \A n \in 1 .. N : step[n][s[n - 1]] = s[n - 1] + f[n]
  BY <1>3
<1> HIDE DEF step
<1> QED BY <1>2, <1>4 DEF IsLoop, IsPartialSums

LEMMA PartialSumsType ==
  ASSUME NEW N \in Nat, NEW f \in [1 .. N -> Int], NEW s, IsPartialSums(N, f, s)
  PROVE  \A n \in 0 .. N : s[n] \in Int
<1> DEFINE P == {n \in 0 .. N : s[n] \in Int}
<1>1. 0 \in P
  BY DEF IsPartialSums
<1>2. ASSUME NEW n \in 0 .. N - 1, n \in P PROVE n + 1 \in P
  <2>1. n + 1 \in 1 .. N /\ (n + 1) - 1 = n /\ s[n] \in Int
    BY <1>2
  <2>2. s[n + 1] = s[n] + f[n + 1] /\ f[n + 1] \in Int
    BY <2>1 DEF IsPartialSums
  <2> QED BY <2>1, <2>2
<1>3. 0 .. N \subseteq P
  <2> HIDE DEF P
  <2> QED BY <1>1, <1>2, InductionUpTo
<1> QED BY <1>3

(* A sum of naturals is one, and none of them is more than it.             *)
LEMMA PartialSumsOfNaturals ==
  ASSUME NEW N \in Nat, NEW f \in [1 .. N -> Nat], NEW s \in [0 .. N -> Int],
         IsPartialSums(N, f, s)
  PROVE  s[N] \in Nat /\ \A n \in 1 .. N : f[n] <= s[N]
<1> DEFINE P == {n \in 0 .. N : s[n] >= 0 /\ \A m \in 1 .. n : f[m] <= s[n]}
<1>1. 0 \in P
  BY DEF IsPartialSums
<1>2. ASSUME NEW n \in 0 .. N - 1, n \in P PROVE n + 1 \in P
  <2>1. n + 1 \in 1 .. N /\ (n + 1) - 1 = n
    OBVIOUS
  <2>2. s[n + 1] = s[n] + f[n + 1]
    BY <2>1 DEF IsPartialSums
  <2>3. f[n + 1] \in Nat /\ s[n] \in Nat /\ s[n + 1] \in Int
    BY <1>2, <2>1
  <2>4. ASSUME NEW m \in 1 .. n + 1 PROVE f[m] <= s[n + 1]
    <3>1. CASE m = n + 1
      BY <2>2, <2>3, <3>1
    <3>2. CASE m # n + 1
      <4>1. f[m] \in Nat /\ f[m] <= s[n]
        BY <1>2, <3>2
      <4> QED BY <2>2, <2>3, <4>1, SMTT(30)
    <3> QED BY <3>1, <3>2
  <2> QED BY <2>1, <2>2, <2>3, <2>4
<1>3. 0 .. N \subseteq P
  <2> HIDE DEF P
  <2> QED BY <1>1, <1>2, InductionUpTo
<1>4. N \in P
  BY <1>3
<1> QED BY <1>4

(* Two sums that differ in one number differ by as much.                   *)
AgreeExcept(N, f, c, g) == \A n \in 1 .. N : n # c => g[n] = f[n]

LEMMA AddLater ==
  ASSUME NEW a \in Int, NEW b \in Int, NEW d \in Int
  PROVE  (a + d) + b = (a + b) + d /\ a + (b + d) = (a + b) + d
  OBVIOUS

LEMMA PartialSumsUpdate ==
  ASSUME NEW N \in Nat, NEW f \in [1 .. N -> Int], NEW c \in 1 .. N,
         NEW g \in [1 .. N -> Int], AgreeExcept(N, f, c, g),
         NEW s \in [0 .. N -> Int], IsPartialSums(N, f, s),
         NEW t \in [0 .. N -> Int], IsPartialSums(N, g, t)
  PROVE  t[N] = s[N] + (g[c] - f[c])
<1>1. PICK d \in Int : d = g[c] - f[c]
  OBVIOUS
<1>2. g[c] = f[c] + d
  BY <1>1
<1> DEFINE P == {n \in 0 .. N : t[n] = IF n < c THEN s[n] ELSE s[n] + d}
<1>3. 0 \in P
  BY DEF IsPartialSums
<1>4. ASSUME NEW n \in 0 .. N - 1, n \in P PROVE n + 1 \in P
  <2>1. n + 1 \in 1 .. N /\ (n + 1) - 1 = n
    OBVIOUS
  <2>2. s[n + 1] = s[n] + f[n + 1] /\ t[n + 1] = t[n] + g[n + 1]
    BY <2>1 DEF IsPartialSums
  <2>3. s[n] \in Int /\ t[n] \in Int /\ f[n + 1] \in Int
    BY <2>1, SMTT(30)
  <2>4. t[n] = IF n < c THEN s[n] ELSE s[n] + d
    BY <1>4
  <2>8. PICK x \in Int, y \in Int : x = s[n] /\ y = f[n + 1]
    BY <2>3
  <2>9. (x + d) + y = (x + y) + d /\ x + (y + d) = (x + y) + d
    BY AddLater
  <2>5. CASE n + 1 < c
    <3>1. t[n] = s[n] /\ g[n + 1] = f[n + 1]
      BY <2>1, <2>4, <2>5 DEF AgreeExcept
    <3> QED BY <2>1, <2>2, <2>5, <3>1
  <2>6. CASE n + 1 = c
    <3>0. n < c /\ g[n + 1] = g[c] /\ f[n + 1] = f[c]
      <4>1. n \in Nat /\ c \in Nat
        OBVIOUS
      <4>2. n < c
        BY <2>6, <4>1
      <4>3. g[n + 1] = g[c] /\ f[n + 1] = f[c]
        BY <2>6, Zenon
      <4> QED BY <4>2, <4>3
    <3>1. t[n] = s[n] /\ g[n + 1] = f[n + 1] + d
      BY <1>2, <2>4, <3>0, Zenon
    <3>2. t[n + 1] = s[n] + (f[n + 1] + d)
      BY <2>2, <3>1, Zenon
    <3>3. s[n] + (f[n + 1] + d) = (s[n] + f[n + 1]) + d
      BY <2>8, <2>9, Zenon
    <3>4. t[n + 1] = s[n + 1] + d
      BY <2>2, <3>2, <3>3, Zenon
    <3> QED BY <2>1, <2>6, <3>4
  <2>7. CASE n + 1 > c
    <3>1. t[n] = s[n] + d /\ g[n + 1] = f[n + 1]
      BY <2>1, <2>4, <2>7 DEF AgreeExcept
    <3>2. t[n + 1] = (s[n] + d) + f[n + 1]
      BY <2>2, <3>1, Zenon
    <3>3. (s[n] + d) + f[n + 1] = (s[n] + f[n + 1]) + d
      BY <2>8, <2>9, Zenon
    <3>4. t[n + 1] = s[n + 1] + d
      BY <2>2, <3>2, <3>3, Zenon
    <3> QED BY <2>1, <2>7, <3>4
  <2> QED BY <2>1, <2>5, <2>6, <2>7
<1>5. 0 .. N \subseteq P
  <2> HIDE DEF P
  <2> QED BY <1>3, <1>4, InductionUpTo
<1>6. N \in P
  BY <1>5
<1> QED BY <1>1, <1>6

-----------------------------------------------------------------------------
(* Queues.                                                                 *)

(* What a sequence holds, by position.                                     *)
LEMMA ToSetMember ==
  ASSUME NEW S, NEW q \in Seq(S)
  PROVE  /\ \A x : x \in ToSet(q) <=> \E i \in 1 .. Len(q) : q[i] = x
         /\ ToSet(q) \subseteq S
<1>1. ToSet(q) = {q[i] : i \in 1 .. Len(q)}
  BY LenProperties DEF ToSet
<1>2. \A i \in 1 .. Len(q) : q[i] \in S
  BY ElementOfSeq
<1> QED
  BY <1>1, <1>2

(* RemoveAt closes the gap and keeps every other entry in order.           *)
LEMMA RemoveAtProperties ==
  ASSUME NEW S, NEW q \in Seq(S), NEW i \in 1 .. Len(q)
  PROVE  /\ RemoveAt(q, i) \in Seq(S)
         /\ Len(RemoveAt(q, i)) = Len(q) - 1
         /\ \A j \in 1 .. Len(q) - 1 :
              RemoveAt(q, i)[j] = IF j < i THEN q[j] ELSE q[j + 1]
<1> DEFINE a == SubSeq(q, 1, i - 1)
           b == SubSeq(q, i + 1, Len(q))
<1>0. Len(q) \in Nat /\ i \in Nat /\ i >= 1 /\ i <= Len(q)
  BY LenProperties
<1>1. /\ a \in Seq(S)
      /\ Len(a) = i - 1
      /\ \A j \in 1 .. i - 1 : a[j] = q[j]
  BY <1>0, SubSeqProperties, ElementOfSeq
<1>2. /\ b \in Seq(S)
      /\ Len(b) = Len(q) - i
      /\ \A j \in 1 .. Len(q) - i : b[j] = q[j + i]
  BY <1>0, SubSeqProperties, ElementOfSeq
<1>3. RemoveAt(q, i) = a \o b
  BY DEF RemoveAt
<1> HIDE DEF a, b
<1>4. /\ a \o b \in Seq(S)
      /\ Len(a \o b) = Len(a) + Len(b)
      /\ \A j \in 1 .. Len(a) + Len(b) :
           (a \o b)[j] = IF j <= Len(a) THEN a[j] ELSE b[j - Len(a)]
  BY <1>1, <1>2, ConcatProperties
<1>5. Len(a \o b) = Len(q) - 1
  BY <1>0, <1>1, <1>2, <1>4
<1>6. ASSUME NEW j \in 1 .. Len(q) - 1
      PROVE  (a \o b)[j] = IF j < i THEN q[j] ELSE q[j + 1]
  <2>1. CASE j < i
    BY <1>0, <1>1, <1>2, <1>4, <2>1
  <2>2. CASE ~(j < i)
    <3>1. (a \o b)[j] = b[j - (i - 1)]
      BY <1>0, <1>1, <1>2, <1>4, <2>2
    <3>2. j - (i - 1) \in 1 .. Len(q) - i
      BY <1>0, <2>2
    <3>3. (j - (i - 1)) + i = j + 1
      BY <1>0
    <3> QED
      BY <1>2, <2>2, <3>1, <3>2, <3>3
  <2> QED
    BY <2>1, <2>2
<1> QED
  BY <1>3, <1>4, <1>5, <1>6

(* Appending to a sequence.                                                *)
LEMMA AppendMember ==
  ASSUME NEW S, NEW q \in Seq(S), NEW t \in S
  PROVE  /\ Append(q, t) \in Seq(S)
         /\ Append(q, t) # << >>
         /\ Len(Append(q, t)) = Len(q) + 1
         /\ \A i \in 1 .. Len(q) + 1 :
              Append(q, t)[i] = IF i = Len(q) + 1 THEN t ELSE q[i]
         /\ \A x : x \in ToSet(Append(q, t)) <=> x \in ToSet(q) \/ x = t
<1> DEFINE a == Append(q, t)
<1>1. /\ a \in Seq(S)
      /\ Len(a) = Len(q) + 1
      /\ \A i \in 1 .. Len(q) : a[i] = q[i]
      /\ a[Len(q) + 1] = t
      /\ a # << >>
  BY AppendProperties
<1>2. Len(q) \in Nat
  BY LenProperties
<1> HIDE DEF a
<1>3. \A x : x \in ToSet(a) <=> \E i \in 1 .. Len(a) : a[i] = x
  BY <1>1, ToSetMember
<1>4. \A x : x \in ToSet(q) <=> \E i \in 1 .. Len(q) : q[i] = x
  BY ToSetMember
<1>5. /\ \A i \in 1 .. Len(q) + 1 : i \in 1 .. Len(q) \/ i = Len(q) + 1
      /\ 1 .. Len(q) \subseteq 1 .. Len(a) /\ Len(q) + 1 \in 1 .. Len(a)
      /\ Len(q) + 1 \notin 1 .. Len(q)
  BY <1>1, <1>2
<1>6. \A x : x \in ToSet(a) <=> x \in ToSet(q) \/ x = t
  BY <1>1, <1>3, <1>4, <1>5
<1> QED
  BY <1>1, <1>5, <1>6 DEF a

(* Taking the front off a sequence.                                        *)
LEMMA TailMember ==
  ASSUME NEW S, NEW q \in Seq(S), q # << >>
  PROVE  /\ Len(q) \in Nat \ {0}
         /\ Head(q) = q[1] /\ q[1] \in S
         /\ Tail(q) \in Seq(S)
         /\ Len(Tail(q)) = Len(q) - 1
         /\ \A i \in 1 .. Len(q) - 1 : Tail(q)[i] = q[i + 1]
         /\ \A x : x \in ToSet(q) <=> x = q[1] \/ x \in ToSet(Tail(q))
<1> DEFINE a == Tail(q)
<1>1. /\ a \in Seq(S)
      /\ Len(a) = Len(q) - 1
      /\ \A i \in 1 .. Len(a) : a[i] = q[i + 1]
  BY HeadTailProperties
<1>2. Len(q) \in Nat /\ Len(q) >= 1 /\ Len(q) # 0
  BY EmptySeq
<1>3. Head(q) = q[1] /\ q[1] \in S
  BY <1>2, ElementOfSeq
<1> HIDE DEF a
<1>4. \A x : x \in ToSet(a) <=> \E j \in 1 .. Len(a) : a[j] = x
  BY <1>1, ToSetMember
<1>5. \A x : x \in ToSet(q) <=> \E j \in 1 .. Len(q) : q[j] = x
  BY ToSetMember
<1>6. /\ 1 \in 1 .. Len(q)
      /\ \A i \in 1 .. Len(a) : i + 1 \in 1 .. Len(q)
      /\ \A i \in 1 .. Len(q) : i # 1 => i - 1 \in 1 .. Len(a) /\ (i - 1) + 1 = i
  BY <1>1, <1>2
<1>7. \A x : x \in ToSet(q) <=> x = q[1] \/ x \in ToSet(a)
  <2>1. ASSUME NEW m \in 1 .. Len(q), m # 1
        PROVE  q[m] \in ToSet(a)
    <3>1. m - 1 \in 1 .. Len(a) /\ (m - 1) + 1 = m
      BY <1>6, <2>1
    <3>2. a[m - 1] = q[m]
      BY <1>1, <3>1
    <3> QED
      BY <1>4, <3>1, <3>2
  <2> QED
    BY <1>1, <1>4, <1>5, <1>6, <2>1
<1> QED
  BY <1>1, <1>2, <1>3, <1>7 DEF a

(* Taking an entry out of a sequence whose entries are all different.      *)
LEMMA RemoveAtMember ==
  ASSUME NEW S, NEW q \in Seq(S), NEW i \in 1 .. Len(q)
  PROVE  /\ RemoveAt(q, i) \in Seq(S)
         /\ Len(RemoveAt(q, i)) = Len(q) - 1
         /\ \E old \in [1 .. Len(q) - 1 -> 1 .. Len(q)] :
              /\ \A j \in 1 .. Len(q) - 1 : RemoveAt(q, i)[j] = q[old[j]] /\ old[j] # i
              /\ \A j, k \in 1 .. Len(q) - 1 : j < k => old[j] < old[k]
              /\ \A k \in 1 .. Len(q) : k # i => \E j \in 1 .. Len(q) - 1 : old[j] = k
         /\ \A x \in ToSet(RemoveAt(q, i)) : x \in ToSet(q)
         /\ \A x \in ToSet(q) : x # q[i] => x \in ToSet(RemoveAt(q, i))
         /\ (\A j \in 1 .. Len(q) : q[j] = q[i] => j = i) => q[i] \notin ToSet(RemoveAt(q, i))
<1> DEFINE a == RemoveAt(q, i)
           old == [j \in 1 .. Len(q) - 1 |-> IF j < i THEN j ELSE j + 1]
<1>1. /\ a \in Seq(S)
      /\ Len(a) = Len(q) - 1
      /\ \A j \in 1 .. Len(q) - 1 : a[j] = q[old[j]]
  BY RemoveAtProperties
<1>2. Len(q) \in Nat /\ i \in Nat /\ i >= 1 /\ i <= Len(q)
  BY LenProperties
<1>3. /\ \A j \in 1 .. Len(q) - 1 : old[j] \in 1 .. Len(q) /\ old[j] # i
      /\ \A j, k \in 1 .. Len(q) - 1 : j < k => old[j] < old[k]
      /\ \A k \in 1 .. Len(q) : k # i => \E j \in 1 .. Len(q) - 1 : old[j] = k
  <2>1. \A k \in 1 .. Len(q) : k < i => k \in 1 .. Len(q) - 1 /\ old[k] = k
    BY <1>2
  <2>2. \A k \in 1 .. Len(q) :
          k > i => k - 1 \in 1 .. Len(q) - 1 /\ old[k - 1] = k
    BY <1>2
  <2>3. ASSUME NEW k \in 1 .. Len(q), k # i
        PROVE  \E j \in 1 .. Len(q) - 1 : old[j] = k
    <3>1. k < i \/ k > i
      BY <1>2, <2>3
    <3> HIDE DEF old
    <3> QED
      BY <2>1, <2>2, <3>1
  <2> QED
    BY <1>2, <2>3
<1>4. old \in [1 .. Len(q) - 1 -> 1 .. Len(q)]
  BY <1>3
<1> HIDE DEF a, old
<1>5. \A x : x \in ToSet(a) <=> \E j \in 1 .. Len(a) : a[j] = x
  BY <1>1, ToSetMember
<1>6. \A x : x \in ToSet(q) <=> \E j \in 1 .. Len(q) : q[j] = x
  BY ToSetMember
<1>7. \A j \in 1 .. Len(a) : a[j] = q[old[j]] /\ old[j] \in 1 .. Len(q) /\ old[j] # i
  BY <1>1, <1>3, Zenon
<1>10. \A x \in ToSet(a) : x \in ToSet(q)
  BY <1>5, <1>6, <1>7, Zenon
<1>8. ASSUME NEW x \in ToSet(q), x # q[i]
      PROVE  x \in ToSet(a)
  <2>1. PICK k \in 1 .. Len(q) : q[k] = x
    BY <1>6
  <2>2. PICK j \in 1 .. Len(q) - 1 : old[j] = k
    BY <1>3, <1>8, <2>1
  <2> QED
    BY <1>1, <1>5, <2>1, <2>2
<1>9. (\A j \in 1 .. Len(q) : q[j] = q[i] => j = i) => q[i] \notin ToSet(a)
  <2> SUFFICES ASSUME \A j \in 1 .. Len(q) : q[j] = q[i] => j = i, q[i] \in ToSet(a)
               PROVE  FALSE
    OBVIOUS
  <2>1. PICK j \in 1 .. Len(a) : a[j] = q[i]
    BY <1>5
  <2> QED
    BY <1>7, <2>1
<1> QED
  BY <1>1, <1>3, <1>4, <1>8, <1>9, <1>10 DEF a

(* Sequences with no entry and with one.                                   *)
IsShort(q) == Len(q) = 0 \/ Len(q) = 1

LEMMA EmptyMember == Len(<< >>) = 0 /\ IsShort(<< >>) /\ \A x : x \notin ToSet(<< >>)
<1>1. Len(<< >>) = 0
  BY EmptySeq
<1> QED
  BY <1>1 DEF ToSet, IsShort

LEMMA SingleMember ==
  ASSUME NEW S, NEW t \in S
  PROVE  /\ << t >> \in Seq(S) /\ IsShort(<< t >>) /\ << t >> # << >>
         /\ Len(<< t >>) = 1 /\ << t >>[1] = t
         /\ \A x : x \in ToSet(<< t >>) <=> x = t
<1>1. << t >> \in Seq(S) /\ Len(<< t >>) = 1 /\ << t >>[1] = t /\ << t >> # << >>
  OBVIOUS
<1> DEFINE q == << t >>
<1>2. q \in Seq(S) /\ Len(q) = 1 /\ q[1] = t
  BY <1>1
<1> HIDE DEF q
<1>3. \A x : x \in ToSet(q) <=> x = t
  <2>1. \A x : x \in ToSet(q) <=> \E i \in 1 .. Len(q) : q[i] = x
    BY <1>2, ToSetMember
  <2> QED
    BY <1>2, <2>1
<1> QED
  BY <1>1, <1>3 DEF q, IsShort
(* Flattening a row of sequences with at most one entry each: what the     *)
(* result holds, and in which order.                                       *)
FlattenedUpTo(seqs, k, f) ==
  /\ \A x : x \in ToSet(f) <=> \E i \in 1 .. k : x \in ToSet(seqs[i])
  /\ \A m, p \in 1 .. Len(f) : m < p =>
       \E i, j \in 1 .. k : i < j /\ f[m] \in ToSet(seqs[i]) /\ f[p] \in ToSet(seqs[j])

ShortAppended(a, b, c) ==
  /\ \A x : x \in ToSet(c) <=> x \in ToSet(a) \/ x \in ToSet(b)
  /\ \A m, p \in 1 .. Len(c) : m < p =>
       /\ m \in 1 .. Len(a) /\ c[m] = a[m]
       /\ \/ p \in 1 .. Len(a) /\ c[p] = a[p]
          \/ c[p] \in ToSet(b)

LEMMA AppendShort ==
  ASSUME NEW S, NEW a \in Seq(S), NEW b \in Seq(S), IsShort(b)
  PROVE  a \o b \in Seq(S) /\ ShortAppended(a, b, a \o b)
<1> DEFINE c == a \o b
<1>1. /\ c \in Seq(S) /\ Len(c) = Len(a) + Len(b)
      /\ \A i \in 1 .. Len(a) + Len(b) : c[i] = IF i <= Len(a) THEN a[i] ELSE b[i - Len(a)]
  BY ConcatProperties
<1>2. Len(a) \in Nat /\ Len(b) \in Nat
  BY LenProperties
<1> HIDE DEF c
<1>3. /\ \A x : x \in ToSet(a) <=> \E i \in 1 .. Len(a) : a[i] = x
      /\ \A x : x \in ToSet(b) <=> \E i \in 1 .. Len(b) : b[i] = x
      /\ \A x : x \in ToSet(c) <=> \E i \in 1 .. Len(c) : c[i] = x
  BY <1>1, ToSetMember
<1>4. CASE Len(b) = 0
  <2>1. /\ 1 .. Len(c) = 1 .. Len(a) /\ \A i \in 1 .. Len(a) : c[i] = a[i]
        /\ \A x : x \notin ToSet(b)
    BY <1>1, <1>2, <1>3, <1>4
  <2>2. \A m, p \in 1 .. Len(c) : m < p => m \in 1 .. Len(a) /\ p \in 1 .. Len(a)
    BY <2>1
  <2> QED
    BY <1>1, <1>3, <2>1, <2>2 DEF c, ShortAppended
<1>5. CASE Len(b) = 1
  <2>1. /\ \A x : x \in ToSet(b) <=> b[1] = x
        /\ Len(c) = Len(a) + 1
    BY <1>1, <1>3, <1>5
  <2>2. /\ \A i \in 1 .. Len(c) : i \in 1 .. Len(a) \/ i = Len(a) + 1
        /\ Len(a) + 1 \in 1 .. Len(c) /\ \A i \in 1 .. Len(a) : i \in 1 .. Len(c)
        /\ \A m, p \in 1 .. Len(c) : m < p => m \in 1 .. Len(a)
    BY <1>2, <2>1
  <2>3. c[Len(a) + 1] = b[1] /\ \A i \in 1 .. Len(a) : c[i] = a[i]
    BY <1>1, <1>2, <1>5, <2>1
  <2>4. \A x : x \in ToSet(c) <=> x \in ToSet(a) \/ x \in ToSet(b)
    BY <1>3, <2>1, <2>2, <2>3
  <2>5. \A p \in 1 .. Len(c) : (p \in 1 .. Len(a) /\ c[p] = a[p]) \/ c[p] \in ToSet(b)
    BY <2>1, <2>2, <2>3
  <2>6. \A m, p \in 1 .. Len(c) : m < p => m \in 1 .. Len(a) /\ c[m] = a[m]
    BY <2>2, <2>3
  <2>7. \A m, p \in 1 .. Len(c) : m < p =>
          /\ m \in 1 .. Len(a) /\ c[m] = a[m]
          /\ \/ p \in 1 .. Len(a) /\ c[p] = a[p]
             \/ c[p] \in ToSet(b)
    BY <2>5, <2>6, Zenon
  <2> QED
    BY <1>1, <2>4, <2>7 DEF c, ShortAppended
<1> QED
  BY <1>4, <1>5 DEF IsShort

LEMMA FlattenedNext ==
  ASSUME NEW S, NEW a \in Seq(S), NEW seqs, NEW k \in Nat,
         seqs[k + 1] \in Seq(S), IsShort(seqs[k + 1]), FlattenedUpTo(seqs, k, a)
  PROVE  FlattenedUpTo(seqs, k + 1, a \o seqs[k + 1])
<1> DEFINE b == seqs[k + 1]
           c == a \o b
<1>0. b \in Seq(S) /\ IsShort(b)
  OBVIOUS
<1>1. /\ \A x : x \in ToSet(c) <=> x \in ToSet(a) \/ x \in ToSet(b)
      /\ \A m, p \in 1 .. Len(c) : m < p =>
           /\ m \in 1 .. Len(a) /\ c[m] = a[m]
           /\ \/ p \in 1 .. Len(a) /\ c[p] = a[p]
              \/ c[p] \in ToSet(b)
  <2> HIDE DEF b
  <2>1. ShortAppended(a, b, c)
    BY <1>0, AppendShort
  <2> HIDE DEF c
  <2> QED
    BY <2>1 DEF ShortAppended
<1>2. \A m \in 1 .. Len(a) : a[m] \in ToSet(a)
  BY ToSetMember
<1>3. /\ \A x : x \in ToSet(a) <=> \E i \in 1 .. k : x \in ToSet(seqs[i])
      /\ \A m, p \in 1 .. Len(a) : m < p =>
           \E i, j \in 1 .. k : i < j /\ a[m] \in ToSet(seqs[i]) /\ a[p] \in ToSet(seqs[j])
  BY DEF FlattenedUpTo
<1>4. /\ \A i \in 1 .. k + 1 : i \in 1 .. k \/ i = k + 1
      /\ \A i \in 1 .. k : i \in 1 .. k + 1 /\ i < k + 1
      /\ k + 1 \in 1 .. k + 1
  OBVIOUS
<1>5. ToSet(b) = ToSet(seqs[k + 1])
  OBVIOUS
<1> HIDE DEF b, c
<1>6. \A x : x \in ToSet(c) <=> \E i \in 1 .. k + 1 : x \in ToSet(seqs[i])
  BY <1>1, <1>3, <1>4, <1>5
<1>7. ASSUME NEW m \in 1 .. Len(c), NEW p \in 1 .. Len(c), m < p
      PROVE  \E i, j \in 1 .. k + 1 :
               i < j /\ c[m] \in ToSet(seqs[i]) /\ c[p] \in ToSet(seqs[j])
  <2>1. m \in 1 .. Len(a) /\ c[m] = a[m] /\ a[m] \in ToSet(a)
    BY <1>1, <1>2, <1>7
  <2>2. CASE p \in 1 .. Len(a) /\ c[p] = a[p]
    <3>1. PICK i \in 1 .. k, j \in 1 .. k :
            i < j /\ a[m] \in ToSet(seqs[i]) /\ a[p] \in ToSet(seqs[j])
      BY <1>3, <1>7, <2>1, <2>2
    <3> QED
      BY <1>4, <2>1, <2>2, <3>1
  <2>3. CASE c[p] \in ToSet(b)
    <3>1. \E i \in 1 .. k : a[m] \in ToSet(seqs[i])
      BY <1>3, <2>1
    <3> QED
      BY <1>4, <1>5, <2>1, <2>3, <3>1
  <2> QED
    BY <1>1, <1>7, <2>2, <2>3
<1> QED
  BY <1>6, <1>7 DEF FlattenedUpTo, b, c

(* FlattenSeq appends one sequence after the other.                        *)
FlattensTo(n, seqs, f) ==
  /\ f[0] = << >> /\ f[n] = FlattenSeq(seqs)
  /\ \A k \in 1 .. n : f[k] = f[k - 1] \o seqs[k]

LEMMA FlattenRuns ==
  ASSUME NEW S, NEW n \in Nat \ {0}, NEW seqs \in [1 .. n -> Seq(S)]
  PROVE  \E f \in [0 .. n -> Seq(S)] : FlattensTo(n, seqs, f)
<1> DEFINE step == [k \in 1 .. n |-> [s \in Seq(S) |-> s \o seqs[k]]]
           Flat(f) == [i \in 1 .. n |-> IF i = 1 THEN seqs[i] ELSE f[i - 1] \o seqs[i]]
           flatten == CHOOSE f : f = Flat(f)
<1>1. step \in [1 .. n -> [Seq(S) -> Seq(S)]]
  <2>1. \A k \in 1 .. n : \A s \in Seq(S) : s \o seqs[k] \in Seq(S)
    BY ConcatProperties
  <2> QED BY <2>1
<1>2. << >> \in Seq(S)
  BY EmptySeq
<1>3. PICK f \in [0 .. n -> Seq(S)] : IsLoop(n, << >>, step, f)
  <2> HIDE DEF step
  <2> QED BY <1>1, <1>2, LoopExists
<1>4. f[0] = << >> /\ \A k \in 1 .. n : f[k] = f[k - 1] \o seqs[k]
  <2>1. \A k \in 1 .. n : k - 1 \in 0 .. n
    OBVIOUS
  <2>2. \A k \in 1 .. n : f[k - 1] \in Seq(S)
    BY <2>1
  <2> QED BY <1>3, <2>2 DEF IsLoop
<1>5. f[1] = seqs[1]
  <2>1. 1 \in 1 .. n /\ 1 - 1 = 0
    OBVIOUS
  <2>2. f[1] = << >> \o seqs[1] /\ seqs[1] \in Seq(S)
    BY <1>4, <2>1, Zenon
  <2> QED BY <2>2, ConcatEmptySeq
<1> DEFINE g == [k \in 1 .. n |-> f[k]]
<1>6. g = Flat(g)
  <2>1. ASSUME NEW k \in 1 .. n, k # 1 PROVE f[k] = g[k - 1] \o seqs[k]
    <3>1. k - 1 \in 1 .. n
      BY <2>1
    <3>2. g[k - 1] = f[k - 1]
      BY <3>1
    <3> QED BY <1>4, <3>2
  <2>2. \A k \in 1 .. n : f[k] = IF k = 1 THEN seqs[k] ELSE g[k - 1] \o seqs[k]
    BY <1>5, <2>1, Zenon
  <2> QED BY <2>2, Zenon
<1>7. flatten = Flat(flatten)
  <2> HIDE DEF g, Flat
  <2> QED BY <1>6
<1> HIDE DEF flatten
<1>8. \A k \in 1 .. n : flatten[k] = IF k = 1 THEN seqs[k] ELSE flatten[k - 1] \o seqs[k]
  <2>1. flatten = [i \in 1 .. n |-> IF i = 1 THEN seqs[i] ELSE flatten[i - 1] \o seqs[i]]
    BY <1>7, Zenon
  <2> QED BY <2>1, Zenon
<1>9. \A k \in 1 .. n : flatten[k] = f[k]
  <2> DEFINE P == {k \in 0 .. n : k # 0 => flatten[k] = f[k]}
  <2>1. 0 \in P
    OBVIOUS
  <2>2. ASSUME NEW k \in 0 .. n - 1, k \in P PROVE k + 1 \in P
    <3>1. k + 1 \in 1 .. n /\ (k + 1) - 1 = k /\ (k # 0 => k + 1 # 1)
      OBVIOUS
    <3>2. CASE k = 0
      <4>1. k + 1 = 1 /\ 1 \in 1 .. n
        BY <3>1, <3>2
      <4>2. flatten[1] = f[1]
        BY <1>5, <1>8, <4>1, Zenon
      <4>3. flatten[k + 1] = f[k + 1] /\ k + 1 \in 0 .. n
        BY <3>1, <4>1, <4>2
      <4> QED BY <4>3
    <3>3. CASE k # 0
      <4>1. flatten[k] = f[k]
        BY <2>2, <3>3
      <4>2. flatten[k + 1] = flatten[k] \o seqs[k + 1]
        BY <1>8, <3>1, <3>3, Zenon
      <4>3. f[k + 1] = f[k] \o seqs[k + 1]
        BY <1>4, <3>1, Zenon
      <4>4. flatten[k + 1] = f[k + 1]
        BY <4>1, <4>2, <4>3, Zenon
      <4>5. k + 1 \in 0 .. n
        OBVIOUS
      <4> QED BY <4>4, <4>5
    <3> QED BY <3>2, <3>3
  <2>3. 0 .. n \subseteq P
    <3> HIDE DEF P
    <3> QED BY <2>1, <2>2, InductionUpTo
  <2> QED BY <2>3
<1>10. f[n] = FlattenSeq(seqs)
  <2>1. Len(seqs) = n
    BY LenProperties
  <2>2. seqs # << >>
    BY <2>1, EmptySeq
  <2>3. FlattenSeq(seqs) = flatten[n]
    BY <2>1, <2>2 DEF FlattenSeq, flatten
  <2> QED BY <1>9, <2>3
<1> QED
  BY <1>4, <1>10 DEF FlattensTo

LEMMA FlattenShort ==
  ASSUME NEW S, NEW n \in Nat \ {0}, NEW seqs \in [1 .. n -> Seq(S)],
         \A i \in 1 .. n : IsShort(seqs[i])
  PROVE  FlattenSeq(seqs) \in Seq(S) /\ FlattenedUpTo(seqs, n, FlattenSeq(seqs))
<1>0. PICK f \in [0 .. n -> Seq(S)] : FlattensTo(n, seqs, f)
  BY FlattenRuns
<1>1. /\ f[0] = << >> /\ f[n] = FlattenSeq(seqs)
      /\ \A k \in 1 .. n : f[k] = f[k - 1] \o seqs[k]
  BY <1>0 DEF FlattensTo
<1> DEFINE P == {k \in 0 .. n : FlattenedUpTo(seqs, k, f[k])}
<1>2. 0 \in P
  <2>1. Len(<< >>) = 0
    BY EmptySeq
  <2>2. \A x : x \notin ToSet(<< >>)
    BY <2>1 DEF ToSet
  <2>3. FlattenedUpTo(seqs, 0, << >>)
    BY <2>1, <2>2 DEF FlattenedUpTo
  <2> QED BY <1>1, <2>3
<1>3. ASSUME NEW k \in 0 .. n - 1, k \in P PROVE k + 1 \in P
  <2>1. k + 1 \in 1 .. n /\ (k + 1) - 1 = k /\ k \in 0 .. n /\ k + 1 \in 0 .. n /\ k \in Nat
    OBVIOUS
  <2>2. f[k] \in Seq(S) /\ seqs[k + 1] \in Seq(S) /\ IsShort(seqs[k + 1])
    BY <2>1
  <2>3. FlattenedUpTo(seqs, k, f[k])
    BY <1>3
  <2> HIDE DEF P
  <2>4. FlattenedUpTo(seqs, k + 1, f[k] \o seqs[k + 1])
    BY <2>1, <2>2, <2>3, FlattenedNext
  <2>5. f[k + 1] = f[k] \o seqs[k + 1]
    BY <1>1, <2>1, Zenon
  <2> QED BY <2>1, <2>4, <2>5 DEF P
<1>4. 0 .. n \subseteq P
  <2> HIDE DEF P
  <2> QED BY <1>2, <1>3, InductionUpTo
<1>5. FlattenedUpTo(seqs, n, f[n])
  BY <1>4
<1>6. f[n] \in Seq(S)
  OBVIOUS
<1> QED
  BY <1>1, <1>5, <1>6

(* Two sequences in a row: what they hold, and where two entries come      *)
(* from.                                                                   *)
LEMMA ConcatMember ==
  ASSUME NEW S, NEW a \in Seq(S), NEW b \in Seq(S)
  PROVE  /\ a \o b \in Seq(S)
         /\ \A x : x \in ToSet(a \o b) <=> x \in ToSet(a) \/ x \in ToSet(b)
         /\ \A m, p \in 1 .. Len(a \o b) : m < p =>
              \/ /\ m \in 1 .. Len(a) /\ p \in 1 .. Len(a)
                 /\ (a \o b)[m] = a[m] /\ (a \o b)[p] = a[p]
              \/ (a \o b)[m] \in ToSet(a) /\ (a \o b)[p] \in ToSet(b)
              \/ /\ m - Len(a) \in 1 .. Len(b) /\ p - Len(a) \in 1 .. Len(b)
                 /\ (a \o b)[m] = b[m - Len(a)] /\ (a \o b)[p] = b[p - Len(a)]
<1> DEFINE c == a \o b
<1>1. /\ c \in Seq(S) /\ Len(c) = Len(a) + Len(b)
      /\ \A i \in 1 .. Len(a) + Len(b) : c[i] = IF i <= Len(a) THEN a[i] ELSE b[i - Len(a)]
  BY ConcatProperties
<1> HIDE DEF c
<1>2. PICK n \in Nat : n = Len(a)
  BY LenProperties
<1>3. PICK k \in Nat : k = Len(b)
  BY LenProperties
<1>9. Len(c) = n + k /\ \A i \in 1 .. n + k : c[i] = IF i <= n THEN a[i] ELSE b[i - n]
  BY <1>1, <1>2, <1>3
<1>4. /\ \A i \in 1 .. n : i \in 1 .. n + k /\ c[i] = a[i]
      /\ \A i \in 1 .. k : n + i \in 1 .. n + k /\ c[n + i] = b[i]
      /\ \A i \in 1 .. n + k : i \in 1 .. n \/ (i > n /\ i - n \in 1 .. k /\ c[i] = b[i - n])
  <2>1. \A i \in 1 .. n : i \in 1 .. n + k /\ c[i] = a[i]
    BY <1>9
  <2>2. ASSUME NEW i \in 1 .. k PROVE n + i \in 1 .. n + k /\ c[n + i] = b[i]
    <3>1. n + i \in 1 .. n + k /\ ~(n + i <= n) /\ (n + i) - n = i
      OBVIOUS
    <3> QED BY <1>9, <3>1
  <2>3. ASSUME NEW i \in 1 .. n + k, i \notin 1 .. n PROVE i > n /\ i - n \in 1 .. k /\ c[i] = b[i - n]
    <3>1. i > n /\ i - n \in 1 .. k /\ ~(i <= n)
      BY <2>3
    <3> QED BY <1>9, <3>1
  <2> QED BY <2>1, <2>2, <2>3
<1>5. /\ \A x : x \in ToSet(a) <=> \E i \in 1 .. n : a[i] = x
      /\ \A x : x \in ToSet(b) <=> \E i \in 1 .. k : b[i] = x
      /\ \A x : x \in ToSet(c) <=> \E i \in 1 .. n + k : c[i] = x
  <2>1. \A x : x \in ToSet(a) <=> \E i \in 1 .. n : a[i] = x
    BY <1>2, ToSetMember
  <2>2. \A x : x \in ToSet(b) <=> \E i \in 1 .. k : b[i] = x
    BY <1>3, ToSetMember
  <2>3. \A x : x \in ToSet(c) <=> \E i \in 1 .. n + k : c[i] = x
    <3>1. c \in Seq(S) /\ Len(c) = n + k
      BY <1>1, <1>9
    <3>2. \A x : x \in ToSet(c) <=> \E i \in 1 .. Len(c) : c[i] = x
      BY <3>1, ToSetMember
    <3> QED BY <3>1, <3>2
  <2> QED BY <2>1, <2>2, <2>3
<1>6. \A x : x \in ToSet(c) <=> x \in ToSet(a) \/ x \in ToSet(b)
  BY <1>4, <1>5
<1>7. ASSUME NEW m \in 1 .. n + k, NEW p \in 1 .. n + k, m < p
      PROVE  \/ /\ m \in 1 .. n /\ p \in 1 .. n
                /\ c[m] = a[m] /\ c[p] = a[p]
             \/ c[m] \in ToSet(a) /\ c[p] \in ToSet(b)
             \/ /\ m - n \in 1 .. k /\ p - n \in 1 .. k
                /\ c[m] = b[m - n] /\ c[p] = b[p - n]
  <2>1. CASE m \in 1 .. n /\ p \in 1 .. n
    BY <1>4, <2>1
  <2>2. CASE m \in 1 .. n /\ p \notin 1 .. n
    BY <1>4, <1>5, <2>2
  <2>3. CASE m \notin 1 .. n
    <3>1. p \notin 1 .. n
      BY <1>7, <2>3
    <3> QED
      BY <1>4, <2>3, <3>1
  <2> QED
    BY <2>1, <2>2, <2>3
<1> QED
  BY <1>1, <1>2, <1>3, <1>6, <1>7 DEF c

(* What a register holds.                                                  *)
LEMMA ShortMember ==
  ASSUME NEW S, NEW out \in Seq(S), IsShort(out)
  PROVE  \A w : w \in ToSet(out) <=> out # << >> /\ w = out[1]
<1>1. Len(out) = 0 \/ Len(out) = 1
  BY DEF IsShort
<1>2. \A w : w \in ToSet(out) <=> \E i \in 1 .. Len(out) : out[i] = w
  BY ToSetMember
<1>3. Len(out) = 0 <=> out = << >>
  BY EmptySeq
<1>4. CASE Len(out) = 0
  <2>1. \A w : w \notin ToSet(out)
    BY <1>2, <1>4
  <2> QED
    BY <1>3, <1>4, <2>1
<1>5. CASE Len(out) = 1
  <2>1. 1 .. Len(out) = {1}
    BY <1>5
  <2>2. \A w : w \in ToSet(out) <=> out[1] = w
    BY <1>2, <2>1
  <2>3. Len(out) # 0
    BY <1>5
  <2> QED
    BY <1>3, <2>2, <2>3
<1> QED
  BY <1>1, <1>4, <1>5

=============================================================================

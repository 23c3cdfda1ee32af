--------------------------- MODULE AdaptiveProofs ---------------------------
(***************************************************************************)
(* Theorems about AdaptiveEngine, for every size of the rings, window and  *)
(* evaluation period, any number of energy levels and any readings.        *)
(***************************************************************************)
EXTENDS AdaptiveEngine, FiniteSetTheorems, SequenceTheorems,
        WellFoundedInduction, TLAPS

-----------------------------------------------------------------------------
(* Sequences of ages.                                                      *)

\* The oldest come first.
Sorted(s) == \A i, j \in 1..Len(s) : i <= j => s[i] >= s[j]

\* A set of natural numbers that is not empty has a least one.
LEMMA LeastNatural ==
  ASSUME NEW T \in SUBSET Nat, T # {}
  PROVE  \E x \in T : \A y \in T : x <= y
<1> DEFINE R == OpToRel(<, Nat)
<1>1. IsWellFoundedOn(R, Nat)
  BY NatLessThanWellFounded
<1>2. \A x, y \in Nat : y < x => <<y, x>> \in R
  BY DEF OpToRel
<1> HIDE DEF R
<1>3. PICK x \in T : \A y \in T : ~(<<y, x>> \in R)
  BY <1>1, WFMin
<1>4. \A y \in T : ~(y < x)
  BY <1>2, <1>3, Zenon
<1>5. \A y \in T : x <= y
  BY <1>4
<1> QED
  BY <1>5

\* If just the last k entries are at most a, there are k such entries.
LEMMA CountSuffix ==
  ASSUME NEW s \in Seq(Nat), NEW a \in Nat, NEW k \in 0..Len(s),
         \A i \in 1..Len(s) : s[i] <= a <=> i > Len(s) - k
  PROVE  AtMost(s, a) = k
<1>1. Len(s) \in Nat /\ DOMAIN s = 1..Len(s)
  OBVIOUS
<1>2. {i \in DOMAIN s : s[i] <= a} = (Len(s) - k + 1)..Len(s)
  BY <1>1
<1>3. Cardinality((Len(s) - k + 1)..Len(s)) = k
  BY <1>1, FS_Interval
<1> QED
  BY <1>2, <1>3 DEF AtMost

\* In a sorted sequence the entries up to a are the last ones.
LEMMA SuffixCount ==
  ASSUME NEW s \in Seq(Nat), Sorted(s), NEW a \in Nat
  PROVE  /\ AtMost(s, a) \in 0..Len(s)
         /\ \A i \in 1..Len(s) : s[i] <= a <=> i > Len(s) - AtMost(s, a)
<1>1. Len(s) \in Nat /\ \A i \in 1..Len(s) : s[i] \in Nat
  OBVIOUS
<1> DEFINE T == {i \in 1..Len(s) : s[i] <= a} \cup {Len(s) + 1}
<1>2. T \in SUBSET Nat /\ T # {}
  BY <1>1
<1>3. PICK f \in T : \A i \in T : f <= i
  BY <1>2, LeastNatural
<1>4. f \in 1..Len(s) + 1
  BY <1>1
<1> DEFINE k == Len(s) - f + 1
<1>5. k \in 0..Len(s) /\ Len(s) - k = f - 1
  BY <1>1, <1>4
<1>6. \A i \in 1..Len(s) : s[i] <= a <=> i > Len(s) - k
  <2> SUFFICES ASSUME NEW i \in 1..Len(s)
               PROVE  s[i] <= a <=> i >= f
    BY <1>1, <1>4, <1>5
  <2>1. ASSUME s[i] <= a
        PROVE  i >= f
    BY <1>3, <2>1
  <2>2. ASSUME i >= f
        PROVE  s[i] <= a
    <3>1. f \in 1..Len(s) /\ s[f] <= a
      BY <1>1, <1>4, <2>2
    <3>2. s[f] >= s[i]
      BY <2>2, <3>1, <1>1 DEF Sorted
    <3> QED
      BY <1>1, <3>1, <3>2
  <2> QED
    BY <2>1, <2>2
<1> HIDE DEF k
<1>7. AtMost(s, a) = k
  BY <1>5, <1>6, CountSuffix
<1> QED
  BY <1>5, <1>6, <1>7

\* More entries are at most b than at most a, if b is no less.
LEMMA CountMonotone ==
  ASSUME NEW s \in Seq(Nat), NEW a \in Nat, NEW b \in Nat, a <= b
  PROVE  /\ AtMost(s, a) \in Nat /\ AtMost(s, b) \in Nat
         /\ AtMost(s, a) <= AtMost(s, b)
<1> DEFINE A == {i \in DOMAIN s : s[i] <= a}
           B == {i \in DOMAIN s : s[i] <= b}
<1>1. /\ DOMAIN s = 1..Len(s) /\ Len(s) \in Nat
      /\ \A i \in DOMAIN s : s[i] \in Nat
  OBVIOUS
<1>2. IsFiniteSet(DOMAIN s)
  BY <1>1, FS_Interval
<1>3. A \in SUBSET B /\ B \in SUBSET DOMAIN s
  BY <1>1
<1>4. IsFiniteSet(A) /\ IsFiniteSet(B) /\ Cardinality(A) <= Cardinality(B)
  BY <1>2, <1>3, FS_Subset
<1>5. Cardinality(A) \in Nat /\ Cardinality(B) \in Nat
  BY <1>4, FS_CardinalityType
<1> QED
  BY <1>4, <1>5 DEF AtMost

\* Keeping the last k entries of a sequence.
LEMMA LastEntries ==
  ASSUME NEW s \in Seq(Nat), Sorted(s), NEW a \in Nat
  PROVE  /\ Young(s, a) \in Seq(0..a)
         /\ Len(Young(s, a)) = AtMost(s, a)
         /\ \A i \in 1..AtMost(s, a) :
              Young(s, a)[i] = s[Len(s) - AtMost(s, a) + i]
<1>0. Len(s) \in Nat /\ \A i \in 1..Len(s) : s[i] \in Nat
  OBVIOUS
<1>8. /\ AtMost(s, a) \in 0..Len(s)
      /\ \A i \in 1..Len(s) : s[i] <= a <=> i > Len(s) - AtMost(s, a)
  BY SuffixCount
<1> DEFINE k == AtMost(s, a)
<1> HIDE DEF k
<1>1. /\ Len(s) \in Nat /\ k \in 0..Len(s)
      /\ \A i \in 1..Len(s) : s[i] \in Nat
      /\ \A i \in 1..Len(s) : s[i] <= a <=> i > Len(s) - k
  BY <1>0, <1>8 DEF k
<1>2. \A i \in (Len(s) - k + 1)..Len(s) : s[i] \in 0..a
  BY <1>1
<1>3. Len(s) - k + 1 \in Int /\ Len(s) \in Int
  BY <1>1
<1>4. /\ SubSeq(s, Len(s) - k + 1, Len(s)) \in Seq(0..a)
      /\ Len(SubSeq(s, Len(s) - k + 1, Len(s))) =
           IF Len(s) - k + 1 <= Len(s) THEN Len(s) - (Len(s) - k + 1) + 1 ELSE 0
      /\ \A i \in 1..(Len(s) - (Len(s) - k + 1) + 1) :
           SubSeq(s, Len(s) - k + 1, Len(s))[i] = s[(Len(s) - k + 1) + i - 1]
  BY <1>2, <1>3, SubSeqProperties
<1>5. Young(s, a) = SubSeq(s, Len(s) - k + 1, Len(s))
  BY DEF Young, k
<1>6. Len(Young(s, a)) = k
  BY <1>1, <1>4, <1>5
<1>7. \A i \in 1..k : Young(s, a)[i] = s[Len(s) - k + i]
  BY <1>1, <1>4, <1>5
<1> QED
  BY <1>4, <1>5, <1>6, <1>7 DEF k

\* They are sorted too, and a younger limit counts the same.
LEMMA LastEntriesCount ==
  ASSUME NEW s \in Seq(Nat), Sorted(s), NEW a \in Nat, NEW b \in 0..a
  PROVE  /\ Sorted(Young(s, a))
         /\ AtMost(Young(s, a), b) = AtMost(s, b)
<1> DEFINE y == Young(s, a)
           k == AtMost(s, a)
           m == AtMost(s, b)
<1>1. Len(s) \in Nat /\ b \in Nat /\ \A i \in 1..Len(s) : s[i] \in Nat
  OBVIOUS
<1>2. /\ y \in Seq(0..a) /\ Len(y) = k
      /\ \A i \in 1..k : y[i] = s[Len(s) - k + i]
  BY LastEntries
<1>3. k \in 0..Len(s)
  BY SuffixCount
<1>4. /\ m \in 0..Len(s)
      /\ \A i \in 1..Len(s) : s[i] <= b <=> i > Len(s) - m
  BY <1>1, SuffixCount
<1>5. m <= k
  BY <1>1, CountMonotone
<1> HIDE DEF y, k, m
<1>6. Sorted(y)
  <2> SUFFICES ASSUME NEW i \in 1..Len(y), NEW j \in 1..Len(y), i <= j
               PROVE  y[i] >= y[j]
    BY DEF Sorted
  <2> DEFINE x == Len(s) - k + i
             z == Len(s) - k + j
  <2>1. x \in 1..Len(s) /\ z \in 1..Len(s) /\ x <= z
    BY <1>1, <1>2, <1>3
  <2>2. y[i] = s[x] /\ y[j] = s[z]
    BY <1>2
  <2> HIDE DEF x, z
  <2> QED
    BY <2>1, <2>2 DEF Sorted
<1>7. y \in Seq(Nat)
  BY <1>2, SeqMonotonic
<1>8. m \in 0..Len(y)
  BY <1>1, <1>2, <1>3, <1>4, <1>5
<1>9. \A i \in 1..Len(y) : y[i] <= b <=> i > Len(y) - m
  <2> TAKE i \in 1..Len(y)
  <2> DEFINE x == Len(s) - k + i
  <2>1. x \in 1..Len(s) /\ (x > Len(s) - m <=> i > Len(y) - m)
    BY <1>1, <1>2, <1>3, <1>4, <1>5
  <2>2. y[i] = s[x]
    BY <1>2
  <2> HIDE DEF x
  <2> QED
    BY <1>4, <2>1, <2>2
<1>10. AtMost(y, b) = m
  BY <1>1, <1>7, <1>8, <1>9, CountSuffix
<1> QED
  BY <1>6, <1>10 DEF y, m

\* The order of two ages outlasts a second and the limit.
LEMMA LesserMonotone ==
  \A x, y, limit \in Nat :
    x >= y => Lesser(x + 1, limit) >= Lesser(y + 1, limit)
  BY DEF Lesser

\* A second later: every age is one more, up to the limit.
LEMMA OlderEntries ==
  ASSUME NEW s \in Seq(Nat), NEW limit \in Nat
  PROVE  /\ Older(s, limit) \in Seq(0..limit)
         /\ Older(s, limit) \in Seq(Nat)
         /\ Len(Older(s, limit)) = Len(s)
         /\ \A i \in 1..Len(s) :
              Older(s, limit)[i] = Lesser(s[i] + 1, limit)
<1>1. Len(s) \in Nat /\ \A i \in 1..Len(s) : s[i] \in Nat
  OBVIOUS
<1>2. \A i \in 1..Len(s) :
        /\ Lesser(s[i] + 1, limit) \in 0..limit
        /\ Lesser(s[i] + 1, limit) \in Nat
  BY <1>1 DEF Lesser
<1> DEFINE o == Older(s, limit)
<1>3. o \in [1..Len(s) -> 0..limit] /\ o \in [1..Len(s) -> Nat]
  BY <1>2 DEF Older
<1>4. o \in Seq(0..limit) /\ o \in Seq(Nat)
  <2> HIDE DEF o
  <2>1. ASSUME NEW S, o \in [1..Len(s) -> S]
        PROVE  o \in Seq(S)
    <3>1. [1..Len(s) -> S] \in {[1..n -> S] : n \in Nat}
      BY <1>1
    <3>2. o \in UNION {[1..n -> S] : n \in Nat}
      BY <2>1, <3>1
    <3> QED
      BY <3>2, SeqDef
  <2> QED
    BY <1>3, <2>1
<1>5. Len(o) = Len(s)
  BY <1>1, <1>3, <1>4, LenProperties
<1> QED
  BY <1>4, <1>5 DEF Older

\* What was counted at an age is counted a second later at the next one.
LEMMA OlderCount ==
  ASSUME NEW s \in Seq(Nat), Sorted(s), NEW limit \in Nat
  PROVE  /\ Sorted(Older(s, limit))
         /\ \A a \in Nat : a + 1 < limit =>
              AtMost(Older(s, limit), a + 1) = AtMost(s, a)
<1> DEFINE o == Older(s, limit)
<1>1. Len(s) \in Nat /\ \A i \in 1..Len(s) : s[i] \in Nat
  OBVIOUS
<1>2. /\ o \in Seq(Nat) /\ Len(o) = Len(s)
      /\ \A i \in 1..Len(s) : o[i] = Lesser(s[i] + 1, limit)
  BY OlderEntries
<1>3. DOMAIN o = DOMAIN s /\ DOMAIN s = 1..Len(s)
  BY <1>2
<1> HIDE DEF o
<1>4. Sorted(o)
  <2> SUFFICES ASSUME NEW i \in 1..Len(o), NEW j \in 1..Len(o), i <= j
               PROVE  o[i] >= o[j]
    BY DEF Sorted
  <2>1. i \in 1..Len(s) /\ j \in 1..Len(s)
    BY <1>2
  <2>2. s[i] >= s[j]
    BY <2>1 DEF Sorted
  <2>3. /\ s[i] \in Nat /\ o[i] = Lesser(s[i] + 1, limit)
        /\ s[j] \in Nat /\ o[j] = Lesser(s[j] + 1, limit)
    BY <1>1, <1>2, <2>1
  <2> QED
    BY <2>2, <2>3, LesserMonotone
<1>5. ASSUME NEW a \in Nat, a + 1 < limit
      PROVE  AtMost(o, a + 1) = AtMost(s, a)
  <2>1. ASSUME NEW i \in 1..Len(s)
        PROVE  o[i] <= a + 1 <=> s[i] <= a
    <3>1. s[i] \in Nat /\ o[i] = Lesser(s[i] + 1, limit)
      BY <1>1, <1>2
    <3> QED
      BY <1>5, <3>1 DEF Lesser
  <2>2. {i \in DOMAIN o : o[i] <= a + 1} = {i \in DOMAIN s : s[i] <= a}
    BY <1>3, <2>1
  <2> QED
    BY <2>2 DEF AtMost
<1> QED
  BY <1>4, <1>5 DEF o

\* A new entry of age 0 counts at every age.
LEMMA NewEntry ==
  ASSUME NEW s \in Seq(Nat), Sorted(s)
  PROVE  /\ Append(s, 0) \in Seq(Nat) /\ Sorted(Append(s, 0))
         /\ \A a \in Nat : AtMost(Append(s, 0), a) = AtMost(s, a) + 1
<1> DEFINE n == Append(s, 0)
<1>1. Len(s) \in Nat /\ \A i \in 1..Len(s) : s[i] \in Nat
  OBVIOUS
<1>2. /\ n \in Seq(Nat) /\ Len(n) = Len(s) + 1
      /\ \A i \in 1..Len(s) : n[i] = s[i]
      /\ n[Len(s) + 1] = 0
  BY AppendProperties
<1> HIDE DEF n
<1>3. Sorted(n)
  <2> SUFFICES ASSUME NEW i \in 1..Len(n), NEW j \in 1..Len(n), i <= j
               PROVE  n[i] >= n[j]
    BY DEF Sorted
  <2>1. CASE j = Len(s) + 1
    <3>1. i \in 1..Len(s) \/ i = Len(s) + 1
      BY <1>1, <1>2
    <3>2. n[i] \in Nat /\ n[j] = 0
      BY <1>1, <1>2, <2>1, <3>1
    <3> QED
      BY <3>2
  <2>2. CASE j # Len(s) + 1
    <3>1. i \in 1..Len(s) /\ j \in 1..Len(s)
      BY <1>1, <1>2, <2>2
    <3> QED
      BY <1>2, <3>1 DEF Sorted
  <2> QED
    BY <2>1, <2>2
<1>4. ASSUME NEW a \in Nat
      PROVE  AtMost(n, a) = AtMost(s, a) + 1
  <2>1. /\ AtMost(s, a) \in 0..Len(s)
        /\ \A i \in 1..Len(s) : s[i] <= a <=> i > Len(s) - AtMost(s, a)
    BY SuffixCount
  <2> DEFINE k == AtMost(s, a)
  <2> HIDE DEF k
  <2>2. /\ k \in 0..Len(s)
        /\ \A i \in 1..Len(s) : s[i] <= a <=> i > Len(s) - k
    BY <2>1 DEF k
  <2>3. k + 1 \in 0..Len(n)
    BY <1>1, <1>2, <2>2
  <2>4. ASSUME NEW i \in 1..Len(n)
        PROVE  n[i] <= a <=> i > Len(n) - (k + 1)
    <3>1. CASE i = Len(s) + 1
      BY <1>1, <1>2, <2>2, <3>1
    <3>2. CASE i \in 1..Len(s)
      <4>1. n[i] = s[i] /\ (s[i] <= a <=> i > Len(s) - k)
        BY <1>2, <2>2, <3>2
      <4>2. Len(n) - (k + 1) = Len(s) - k
        BY <1>1, <1>2, <2>2
      <4> QED
        BY <4>1, <4>2
    <3> QED
      BY <1>1, <1>2, <3>1, <3>2
  <2>5. AtMost(n, a) = k + 1
    BY <1>2, <2>3, <2>4, CountSuffix
  <2> QED
    BY <2>5 DEF k
<1> QED
  BY <1>2, <1>3, <1>4 DEF n

-----------------------------------------------------------------------------
(* Types.                                                                  *)

\* The next slot of the ring of outcomes, without a remainder.
LEMMA NextSlot ==
  ASSUME pdrIdx \in 0..(PdrWindow - 1)
  PROVE  /\ NextIndex = IF pdrIdx = PdrWindow - 1 THEN 0 ELSE pdrIdx + 1
         /\ NextIndex \in 0..(PdrWindow - 1)
<1>1. PdrWindow \in Nat \ {0}
  BY SizeAssumption
<1>2. CASE pdrIdx = PdrWindow - 1
  <2>1. pdrIdx + 1 = PdrWindow
    BY <1>1, <1>2
  <2>2. PdrWindow % PdrWindow = 0
    BY <1>1, SMT
  <2> QED
    BY <1>1, <1>2, <2>1, <2>2 DEF NextIndex
<1>3. CASE pdrIdx # PdrWindow - 1
  <2>1. pdrIdx + 1 \in 0..(PdrWindow - 1)
    BY <1>1, <1>3
  <2>2. (pdrIdx + 1) % PdrWindow = pdrIdx + 1
    BY <1>1, <2>1, SMT
  <2> QED
    BY <1>3, <2>1, <2>2 DEF NextIndex
<1> QED
  BY <1>2, <1>3

\* Every evaluation takes the smoothed energy nearer to the reading, by a level
\* at least and never past it (adaptive_eval_cb, rounded towards the reading):
\* what Recovers and EmptyYields rest on, for any number of levels.
THEOREM EnergyApproaches ==
  ASSUME energyEma \in 0..Full, NEW raw \in 0..Full
  PROVE  /\ energyEma < raw => /\ energyEma < Smoothed(raw)
                               /\ Smoothed(raw) <= raw
         /\ energyEma > raw => /\ energyEma > Smoothed(raw)
                               /\ Smoothed(raw) >= raw
         /\ energyEma = raw => Smoothed(raw) = raw
         /\ Smoothed(raw) \in 0..Full
<1>1. Full \in Nat
  BY EnergyAssumption
<1>2. \A d \in Nat : d > 0 =>
        /\ (3 * d + 9) \div 10 \in Nat
        /\ (3 * d + 9) \div 10 >= 1 /\ (3 * d + 9) \div 10 <= d
  OBVIOUS
<1>3. CASE raw > energyEma
  <2>1. raw - energyEma \in Nat /\ raw - energyEma > 0
    BY <1>1, <1>3
  <2> DEFINE q == (3 * (raw - energyEma) + 9) \div 10
  <2>2. q \in Nat /\ q >= 1 /\ q <= raw - energyEma
    BY <1>2, <2>1
  <2>3. Smoothed(raw) = energyEma + q
    BY <1>3 DEF Smoothed
  <2> HIDE DEF q
  <2> QED
    BY <1>1, <1>3, <2>2, <2>3
<1>4. CASE raw < energyEma
  <2>1. energyEma - raw \in Nat /\ energyEma - raw > 0
    BY <1>1, <1>4
  <2> DEFINE q == (3 * (energyEma - raw) + 9) \div 10
  <2>2. q \in Nat /\ q >= 1 /\ q <= energyEma - raw
    BY <1>2, <2>1
  <2>3. ~(raw > energyEma)
    BY <1>1, <1>4
  <2>4. Smoothed(raw) = energyEma - q
    BY <2>3 DEF Smoothed
  <2> HIDE DEF q
  <2> QED
    BY <1>1, <1>4, <2>2, <2>4
<1>5. CASE raw = energyEma
  <2>1. ~(raw > energyEma) /\ energyEma - raw = 0
    BY <1>1, <1>5
  <2>2. Smoothed(raw) = energyEma - ((3 * 0 + 9) \div 10)
    BY <2>1 DEF Smoothed
  <2>3. (3 * 0 + 9) \div 10 = 0
    OBVIOUS
  <2>4. Smoothed(raw) = raw
    BY <1>1, <1>5, <2>2, <2>3
  <2> QED
    BY <1>1, <1>5, <2>4
<1> QED
  BY <1>1, <1>3, <1>4, <1>5

\* The history is sorted, as changes arrive in order.
Ages == TypeOK /\ Sorted(recent)

LEMMA AgesInit == Init => Ages
<1> SUFFICES ASSUME Init
             PROVE  Ages
  OBVIOUS
<1>1. /\ changeAge \in Seq(0..Forgotten) /\ Len(changeAge) = 0
      /\ recent \in Seq(0..Horizon) /\ Len(recent) = 0
      /\ outcomes \in Seq(0..1) /\ Len(outcomes) = 0
  BY DEF Init
<1>2. Sorted(recent)
  BY <1>1 DEF Sorted
<1>3. pdrWindow \in [0..(PdrWindow - 1) -> 0..1]
  BY DEF Init
<1> QED
  BY <1>1, <1>2, <1>3, SizeAssumption, EnergyAssumption DEF Init, Ages, TypeOK

\* What the sizes are as numbers, and the histories as sequences of ages.
LEMMA Sizes ==
  ASSUME TypeOK
  PROVE  /\ NMax \in Nat /\ NMax > 0 /\ Window \in Nat /\ Window > 0
         /\ EvalPeriod \in Nat /\ EvalPeriod > 0 /\ MaxRecent \in Nat
         /\ Horizon \in Nat /\ Forgotten \in Nat
         /\ Horizon >= Forgotten
         /\ changeAge \in Seq(Nat) /\ Len(changeAge) \in Nat
         /\ recent \in Seq(Nat) /\ Len(recent) \in Nat
         /\ evalIn \in 0..EvalPeriod
         /\ stab \in 0..NMax
<1>1. /\ NMax \in Nat /\ NMax > 0 /\ Window \in Nat /\ Window > 0
      /\ EvalPeriod \in Nat /\ EvalPeriod > 0 /\ MaxRecent \in Nat
  BY SizeAssumption
<1>2. Horizon \in Nat /\ Forgotten \in Nat /\ Horizon >= Forgotten
  BY <1>1 DEF Horizon, Forgotten
<1>3. 0..Forgotten \in SUBSET Nat /\ 0..Horizon \in SUBSET Nat
  BY <1>2
<1>4. changeAge \in Seq(0..Forgotten) /\ recent \in Seq(0..Horizon)
  BY DEF TypeOK
<1>5. changeAge \in Seq(Nat) /\ recent \in Seq(Nat)
  BY <1>3, <1>4, SeqMonotonic
<1>6. evalIn \in 0..EvalPeriod /\ stab \in 0..NMax
  BY DEF TypeOK
<1> QED
  BY <1>1, <1>2, <1>5, <1>6

\* What a second does to the history of changes.
LEMMA RecentAfterTick ==
  ASSUME TypeOK, Sorted(recent), Tick
  PROVE  /\ recent' \in Seq(0..Horizon) /\ Sorted(recent')
         /\ Len(recent') \in 0..Len(recent)
         /\ \A a \in Nat : a + 1 <= Horizon =>
              AtMost(recent', a + 1) = AtMost(recent, a)
         /\ \A j \in 0..(Len(recent) - 1) :
              IF j < Len(recent')
                THEN recent'[Len(recent') - j] = recent[Len(recent) - j] + 1
                ELSE recent[Len(recent) - j] + 1 > Horizon
<1>0. Horizon \in Nat /\ recent \in Seq(Nat) /\ Len(recent) \in Nat
  BY Sizes
<1>1. /\ Horizon \in Nat /\ Horizon + 1 \in Nat
      /\ recent \in Seq(Nat) /\ Len(recent) \in Nat
      /\ \A i \in 1..Len(recent) : recent[i] \in Nat
  BY <1>0
<1> DEFINE o == Older(recent, Horizon + 1)
           y == Young(o, Horizon)
           k == AtMost(o, Horizon)
<1>2. recent' = y
  BY DEF Tick
<1>3. /\ o \in Seq(Nat) /\ Len(o) = Len(recent)
      /\ \A i \in 1..Len(recent) :
           o[i] = Lesser(recent[i] + 1, Horizon + 1)
  BY <1>1, OlderEntries
<1>4. /\ Sorted(o)
      /\ \A a \in Nat : a + 1 < Horizon + 1 =>
           AtMost(o, a + 1) = AtMost(recent, a)
  BY <1>1, OlderCount
<1> HIDE DEF o
<1>5. y \in Seq(0..Horizon) /\ Len(y) = k
      /\ \A i \in 1..k : y[i] = o[Len(o) - k + i]
  BY <1>1, <1>3, <1>4, LastEntries
<1>6. /\ k \in 0..Len(o)
      /\ \A i \in 1..Len(o) : o[i] <= Horizon <=> i > Len(o) - k
  BY <1>1, <1>3, <1>4, SuffixCount
<1>7. /\ Sorted(y)
      /\ \A b \in 0..Horizon : AtMost(y, b) = AtMost(o, b)
  BY <1>1, <1>3, <1>4, LastEntriesCount
<1> HIDE DEF y, k
<1>8. ASSUME NEW a \in Nat, a + 1 <= Horizon
      PROVE  AtMost(y, a + 1) = AtMost(recent, a)
  <2>1. a + 1 \in 0..Horizon /\ a + 1 < Horizon + 1
    BY <1>1, <1>8
  <2> QED
    BY <1>4, <1>7, <2>1
<1>9. ASSUME NEW j \in 0..(Len(recent) - 1)
      PROVE  IF j < k THEN y[k - j] = recent[Len(recent) - j] + 1
             ELSE recent[Len(recent) - j] + 1 > Horizon
  <2> DEFINE i == Len(recent) - j
  <2>1. i \in 1..Len(recent)
    BY <1>1
  <2>8. recent[i] \in Nat /\ o[i] = Lesser(recent[i] + 1, Horizon + 1)
    BY <1>1, <1>3, <2>1
  <2>9. o[i] <= Horizon <=> i > Len(recent) - k
    BY <1>3, <1>6, <2>1
  <2>10. Len(recent) - j > Len(recent) - k <=> j < k
    <3>1. Len(recent) \in Nat /\ j \in Int /\ k \in Int
      BY <1>1, <1>6
    <3> QED
      BY <3>1
  <2>2. o[i] <= Horizon <=> j < k
    BY <2>9, <2>10
  <2>3. o[i] <= Horizon <=> recent[i] + 1 <= Horizon
    BY <1>1, <2>8 DEF Lesser
  <2>4. j < k => k - j \in 1..k /\ Len(o) - k + (k - j) = i
    BY <1>1, <1>3, <1>6
  <2>5. j < k => y[k - j] = o[i]
    BY <1>5, <2>4
  <2>6. j < k => o[i] = recent[i] + 1
    BY <1>1, <2>8, <2>2, <2>3 DEF Lesser
  <2>7. ~(j < k) => recent[i] + 1 > Horizon
    BY <1>1, <2>8, <2>2, <2>3
  <2> QED
    BY <2>5, <2>6, <2>7
<1> QED
  BY <1>2, <1>3, <1>5, <1>6, <1>7, <1>8, <1>9

\* A change of parent, to the history and to the ring.
LEMMA RecentAfterChange ==
  ASSUME TypeOK, Sorted(recent), ParentChanged
  PROVE  /\ recent' \in Seq(0..Horizon) /\ Sorted(recent')
         /\ Len(recent') = Len(recent) + 1
         /\ Len(recent') <= MaxRecent
         /\ \A i \in 1..Len(recent) : recent'[i] = recent[i]
         /\ recent'[Len(recent) + 1] = 0
         /\ \A a \in Nat : AtMost(recent', a) = AtMost(recent, a) + 1
<1>1. /\ Horizon \in Nat /\ 0 \in 0..Horizon /\ MaxRecent \in Nat
      /\ recent \in Seq(Nat) /\ Len(recent) \in Nat
  BY Sizes
<1>2. recent' = Append(recent, 0) /\ Len(recent) < MaxRecent
  BY DEF ParentChanged
<1>3. recent \in Seq(0..Horizon)
  BY DEF TypeOK
<1>4. /\ recent' \in Seq(0..Horizon) /\ Len(recent') = Len(recent) + 1
      /\ \A i \in 1..Len(recent) : recent'[i] = recent[i]
      /\ recent'[Len(recent) + 1] = 0
  BY <1>1, <1>2, <1>3, AppendProperties
<1>5. /\ Sorted(recent')
      /\ \A a \in Nat : AtMost(recent', a) = AtMost(recent, a) + 1
  BY <1>1, <1>2, NewEntry
<1> QED
  BY <1>1, <1>2, <1>4, <1>5

LEMMA RingAfterChange ==
  ASSUME TypeOK, ParentChanged
  PROVE  /\ changeAge' \in Seq(0..Forgotten)
         /\ Len(changeAge') = Lesser(Len(changeAge) + 1, NMax + 1)
         /\ changeAge'[Len(changeAge')] = 0
         /\ \A j \in 1..(Len(changeAge') - 1) :
              /\ j - 1 \in 0..(Len(changeAge) - 1)
              /\ changeAge'[Len(changeAge') - j] =
                   changeAge[Len(changeAge) - (j - 1)]
<1>1. /\ NMax \in Nat /\ Forgotten \in Nat /\ 0 \in 0..Forgotten
      /\ Len(changeAge) \in Nat
  BY Sizes
<1>2. changeAge \in Seq(0..Forgotten) /\ Len(changeAge) <= NMax + 1
  BY DEF TypeOK
<1>3. changeAge' = Push(changeAge)
  BY DEF ParentChanged
<1>4. CASE Len(changeAge) < NMax + 1
  <2>1. changeAge' = Append(changeAge, 0)
    BY <1>3, <1>4 DEF Push
  <2>2. /\ changeAge' \in Seq(0..Forgotten)
        /\ Len(changeAge') = Len(changeAge) + 1
        /\ \A i \in 1..Len(changeAge) : changeAge'[i] = changeAge[i]
        /\ changeAge'[Len(changeAge) + 1] = 0
    BY <1>1, <1>2, <2>1, AppendProperties
  <2>3. \A j \in 1..(Len(changeAge') - 1) :
          /\ j - 1 \in 0..(Len(changeAge) - 1)
          /\ Len(changeAge') - j = Len(changeAge) - (j - 1)
          /\ Len(changeAge') - j \in 1..Len(changeAge)
    BY <1>1, <2>2
  <2> QED
    BY <1>1, <1>4, <2>2, <2>3 DEF Lesser
<1>5. CASE ~(Len(changeAge) < NMax + 1)
  <2> DEFINE u == Tail(changeAge)
  <2>1. Len(changeAge) = NMax + 1 /\ changeAge # <<>>
    BY <1>1, <1>2, <1>5
  <2>2. changeAge' = Append(u, 0)
    BY <1>3, <1>5 DEF Push
  <2>3. /\ u \in Seq(0..Forgotten) /\ Len(u) = NMax
        /\ \A i \in 1..Len(u) : u[i] = changeAge[i + 1]
    BY <1>1, <1>2, <2>1, HeadTailProperties
  <2> HIDE DEF u
  <2>4. /\ changeAge' \in Seq(0..Forgotten)
        /\ Len(changeAge') = NMax + 1
        /\ \A i \in 1..NMax : changeAge'[i] = u[i]
        /\ changeAge'[NMax + 1] = 0
    BY <1>1, <2>2, <2>3, AppendProperties
  <2>5. ASSUME NEW j \in 1..(Len(changeAge') - 1)
        PROVE  /\ j - 1 \in 0..(Len(changeAge) - 1)
               /\ changeAge'[Len(changeAge') - j] =
                    changeAge[Len(changeAge) - (j - 1)]
    <3> DEFINE i == NMax + 1 - j
    <3>1. /\ i \in 1..NMax /\ j - 1 \in 0..(Len(changeAge) - 1)
          /\ Len(changeAge') - j = i
          /\ Len(changeAge) - (j - 1) = i + 1
      BY <1>1, <2>1, <2>4
    <3> HIDE DEF i
    <3> QED
      BY <2>3, <2>4, <3>1
  <2> QED
    BY <1>1, <2>1, <2>4, <2>5 DEF Lesser
<1> QED
  BY <1>4, <1>5

LEMMA AgesNext == Ages /\ [Next]_vars => Ages'
<1> SUFFICES ASSUME Ages, [Next]_vars
             PROVE  Ages'
  OBVIOUS
<1> USE DEF Ages
<1>1. CASE ParentChanged
  <2>1. /\ recent' \in Seq(0..Horizon) /\ Sorted(recent')
        /\ Len(recent') <= MaxRecent
    BY <1>1, RecentAfterChange
  <2>2. /\ changeAge' \in Seq(0..Forgotten)
        /\ Len(changeAge') = Lesser(Len(changeAge) + 1, NMax + 1)
    BY <1>1, RingAfterChange
  <2>3. NMax \in Nat /\ Len(changeAge) \in Nat
    BY Sizes
  <2>4. Len(changeAge') <= NMax + 1
    BY <2>2, <2>3 DEF Lesser
  <2> QED
    BY <1>1, <2>1, <2>2, <2>4
       DEF TypeOK, ParentChanged, pdrVars, evalVars, Horizon, Forgotten
<1>2. ASSUME NEW ok \in 0..1, RecordDao(ok)
      PROVE  Ages'
  <2>1. /\ pdrIdx \in 0..(PdrWindow - 1) /\ pdrCount \in 0..PdrWindow
        /\ pdrWindow \in [0..(PdrWindow - 1) -> 0..1]
        /\ outcomes \in Seq(0..1) /\ Len(outcomes) \in Nat
        /\ Len(outcomes) <= PdrWindow /\ PdrWindow \in Nat \ {0}
    BY SizeAssumption DEF TypeOK
  <2>2. pdrIdx' \in 0..(PdrWindow - 1)
    BY <1>2, <2>1, NextSlot DEF RecordDao
  <2>3. pdrCount' \in 0..PdrWindow
    BY <1>2, <2>1 DEF RecordDao, NextCount
  <2>4. pdrWindow' \in [0..(PdrWindow - 1) -> 0..1]
    BY <1>2, <2>1 DEF RecordDao
  <2>5. outcomes' \in Seq(0..1) /\ Len(outcomes') <= PdrWindow
    <3>1. CASE Len(outcomes) < PdrWindow
      <4>1. outcomes' = Append(outcomes, ok)
        BY <1>2, <3>1 DEF RecordDao
      <4> QED
        BY <2>1, <3>1, <4>1, AppendProperties
    <3>2. CASE ~(Len(outcomes) < PdrWindow)
      <4>1. outcomes' = Append(Tail(outcomes), ok)
        BY <1>2, <3>2 DEF RecordDao
      <4>2. outcomes # <<>>
        BY <2>1, <3>2
      <4>3. /\ Tail(outcomes) \in Seq(0..1)
            /\ Len(Tail(outcomes)) = Len(outcomes) - 1
        BY <2>1, <4>2, HeadTailProperties
      <4> QED
        BY <2>1, <3>2, <4>1, <4>3, AppendProperties
    <3> QED
      BY <3>1, <3>2
  <2> QED
    BY <1>2, <2>2, <2>3, <2>4, <2>5
       DEF TypeOK, RecordDao, ringVars, evalVars, Horizon, Forgotten
<1>3. ASSUME NEW file \in Readings \cup {NoFile}, Evaluate(file)
      PROVE  Ages'
  <2>1. ReadEnergy(file) \in 0..Full
    BY EnergyAssumption DEF ReadEnergy
  <2>2. Smoothed(ReadEnergy(file)) \in 0..Full
    BY <2>1, EnergyApproaches DEF TypeOK
  <2>3. /\ NMax \in Nat /\ EvalPeriod \in Nat
        /\ EvalPeriod \in 0..EvalPeriod
        /\ changeAge \in Seq(Nat) /\ Window \in Nat
    BY Sizes
  <2>4. AtMost(changeAge, Window) \in Nat
    BY <2>3, CountMonotone
  <2>5. ChangesInWindow \in 0..NMax
    BY <2>3, <2>4 DEF ChangesInWindow, Lesser
  <2> QED
    BY <1>3, <2>1, <2>2, <2>3, <2>5
       DEF TypeOK, Evaluate, ringVars, pdrVars, Horizon, Forgotten
<1>4. CASE Tick
  <2>1. /\ recent' \in Seq(0..Horizon) /\ Sorted(recent')
        /\ Len(recent') \in 0..Len(recent)
    BY <1>4, RecentAfterTick
  <2>2. /\ Forgotten \in Nat /\ changeAge \in Seq(Nat)
        /\ evalIn \in 0..EvalPeriod /\ EvalPeriod \in Nat
        /\ Len(recent) \in Nat /\ MaxRecent \in Nat
    BY Sizes
  <2>3. changeAge' \in Seq(0..Forgotten) /\ Len(changeAge') = Len(changeAge)
    BY <1>4, <2>2, OlderEntries DEF Tick
  <2>4. evalIn' \in 0..EvalPeriod
    BY <1>4, <2>2 DEF Tick
  <2>5. Len(recent') <= MaxRecent
    BY <2>1, <2>2 DEF TypeOK
  <2> QED
    BY <1>4, <2>1, <2>3, <2>4, <2>5
       DEF TypeOK, Tick, pdrVars, evalVars, Horizon, Forgotten
<1>5. CASE UNCHANGED vars
  BY <1>5 DEF vars, ringVars, pdrVars, evalVars, TypeOK, Sorted,
              Horizon, Forgotten
<1> QED
  BY <1>1, <1>2, <1>3, <1>4, <1>5 DEF Next

\* The rings stay rings, indices point into them, and counts and averages do
\* not leave their scales.
THEOREM Typing == Spec => []TypeOK
<1>1. Spec => []Ages
  BY AgesInit, AgesNext, PTL DEF Spec
<1>2. Ages => TypeOK
  BY DEF Ages
<1> QED
  BY <1>1, <1>2, PTL

-----------------------------------------------------------------------------
(* The ring of changes.                                                    *)

\* Counted from the latest, the entries of the ring are those of the history,
\* and those the history has forgotten are out of the window; only a full
\* ring has lost a change.
RingInv ==
  /\ Len(changeAge) < NMax + 1 => Len(recent) <= Len(changeAge)
  /\ \A j \in 0..(Len(changeAge) - 1) :
       changeAge[Len(changeAge) - j] =
         IF j < Len(recent) THEN Lesser(recent[Len(recent) - j], Forgotten)
         ELSE Forgotten

LEMMA RingInit == Init => RingInv
<1> SUFFICES ASSUME Init
             PROVE  RingInv
  OBVIOUS
<1>1. Len(changeAge) = 0 /\ Len(recent) = 0
  BY DEF Init
<1> QED
  BY <1>1 DEF RingInv

LEMMA RingNext == Ages /\ RingInv /\ [Next]_vars => RingInv'
<1> SUFFICES ASSUME Ages, RingInv, [Next]_vars
             PROVE  RingInv'
  OBVIOUS
<1>0. TypeOK /\ Sorted(recent)
  BY DEF Ages
<1> DEFINE L == Len(changeAge)
           R == Len(recent)
<1>1. /\ NMax \in Nat /\ Forgotten \in Nat /\ Forgotten > 0 /\ Horizon \in Nat
      /\ Horizon >= Forgotten /\ L \in Nat /\ R \in Nat
      /\ \A i \in 1..L : changeAge[i] \in Nat
      /\ \A i \in 1..R : recent[i] \in Nat
  <2>1. /\ changeAge \in Seq(Nat) /\ recent \in Seq(Nat)
        /\ Window \in Nat
    BY <1>0, Sizes
  <2>2. Forgotten > 0
    BY <2>1 DEF Forgotten
  <2>3. /\ \A i \in 1..L : changeAge[i] \in Nat
        /\ \A i \in 1..R : recent[i] \in Nat
    BY <2>1
  <2> QED
    BY <1>0, <2>2, <2>3, Sizes
<1>2. /\ L < NMax + 1 => R <= L
      /\ \A j \in 0..(L - 1) :
           changeAge[L - j] =
             IF j < R THEN Lesser(recent[R - j], Forgotten) ELSE Forgotten
  BY DEF RingInv
<1>3. Forgotten' = Forgotten
  BY DEF Forgotten
<1>4. CASE ParentChanged
  <2>1. /\ Len(recent') = R + 1
        /\ \A i \in 1..R : recent'[i] = recent[i]
        /\ recent'[R + 1] = 0
    BY <1>0, <1>4, RecentAfterChange
  <2>2. /\ Len(changeAge') = Lesser(L + 1, NMax + 1)
        /\ changeAge'[Len(changeAge')] = 0
        /\ \A j \in 1..(Len(changeAge') - 1) :
             /\ j - 1 \in 0..(L - 1)
             /\ changeAge'[Len(changeAge') - j] = changeAge[L - (j - 1)]
    BY <1>0, <1>4, RingAfterChange
  <2> DEFINE M == Len(changeAge')
  <2>3. M \in Nat /\ M >= 1
    BY <1>1, <2>2 DEF Lesser
  <2>4. M < NMax + 1 => Len(recent') <= M
    BY <1>1, <1>2, <2>1, <2>2 DEF Lesser
  <2>5. ASSUME NEW j \in 0..(M - 1)
        PROVE  changeAge'[M - j] =
                 IF j < Len(recent')
                   THEN Lesser(recent'[Len(recent') - j], Forgotten)
                   ELSE Forgotten
    <3> HIDE DEF L, R, M
    <3>1. CASE j = 0
      <4>1. changeAge'[M - j] = 0
        BY <2>2, <2>3, <3>1 DEF M
      <4>2. j < Len(recent') /\ recent'[Len(recent') - j] = 0
        BY <1>1, <2>1, <3>1
      <4> QED
        BY <1>1, <4>1, <4>2 DEF Lesser
    <3>2. CASE j # 0
      <4>1. j \in 1..(M - 1)
        BY <2>3, <3>2
      <4>2. j - 1 \in 0..(L - 1) /\ changeAge'[M - j] = changeAge[L - (j - 1)]
        BY <2>2, <4>1 DEF M
      <4>3. changeAge[L - (j - 1)] =
              IF j - 1 < R THEN Lesser(recent[R - (j - 1)], Forgotten)
              ELSE Forgotten
        BY <1>2, <4>2
      <4>4. j - 1 < R <=> j < Len(recent')
        BY <1>1, <2>1
      <4>5. j < Len(recent') =>
              /\ Len(recent') - j = R - (j - 1)
              /\ R - (j - 1) \in 1..R
        BY <1>1, <2>1, <4>1
      <4>6. j < Len(recent') =>
              recent'[Len(recent') - j] = recent[R - (j - 1)]
        BY <2>1, <4>5
      <4> QED
        BY <4>2, <4>3, <4>4, <4>6
    <3> QED
      BY <3>1, <3>2
  <2> QED
    BY <1>3, <2>4, <2>5 DEF RingInv
<1>5. ASSUME NEW ok \in 0..1, RecordDao(ok)
      PROVE  RingInv'
  BY <1>5 DEF RecordDao, ringVars, RingInv, Forgotten
<1>6. ASSUME NEW file \in Readings \cup {NoFile}, Evaluate(file)
      PROVE  RingInv'
  BY <1>6 DEF Evaluate, ringVars, RingInv, Forgotten
<1>7. CASE Tick
  <2>1. /\ Len(recent') \in 0..R
        /\ \A j \in 0..(R - 1) :
             IF j < Len(recent')
               THEN recent'[Len(recent') - j] = recent[R - j] + 1
               ELSE recent[R - j] + 1 > Horizon
    BY <1>0, <1>7, RecentAfterTick
  <2>2. changeAge \in Seq(Nat)
    BY <1>0, Sizes
  <2>3. /\ Len(changeAge') = L
        /\ \A i \in 1..L : changeAge'[i] = Lesser(changeAge[i] + 1, Forgotten)
    BY <1>1, <1>7, <2>2, OlderEntries DEF Tick
  <2>4. Len(changeAge') < NMax + 1 => Len(recent') <= Len(changeAge')
    BY <1>1, <1>2, <2>1, <2>3
  <2>5. ASSUME NEW j \in 0..(L - 1)
        PROVE  changeAge'[L - j] =
                 IF j < Len(recent')
                   THEN Lesser(recent'[Len(recent') - j], Forgotten)
                   ELSE Forgotten
    <3> HIDE DEF L, R
    <3>1. L - j \in 1..L
      BY <1>1
    <3>2. changeAge'[L - j] = Lesser(changeAge[L - j] + 1, Forgotten)
      BY <2>3, <3>1
    <3>3. CASE j < R
      <4>1. j \in 0..(R - 1) /\ R - j \in 1..R
        BY <1>1, <3>3
      <4>2. recent[R - j] \in Nat
        BY <1>1, <4>1
      <4>3. changeAge'[L - j] = Lesser(recent[R - j] + 1, Forgotten)
        <5>1. changeAge[L - j] = Lesser(recent[R - j], Forgotten)
          BY <1>2, <3>3
        <5> QED
          BY <1>1, <3>2, <4>2, <5>1 DEF Lesser
      <4>4. CASE j < Len(recent')
        BY <2>1, <4>1, <4>3, <4>4
      <4>5. CASE ~(j < Len(recent'))
        <5>1. recent[R - j] + 1 > Horizon
          BY <2>1, <4>1, <4>5
        <5>2. changeAge'[L - j] = Forgotten
          BY <1>1, <4>2, <4>3, <5>1 DEF Lesser
        <5> QED
          BY <4>5, <5>2
      <4> QED
        BY <4>4, <4>5
    <3>4. CASE ~(j < R)
      <4>1. ~(j < Len(recent'))
        BY <1>1, <2>1, <3>4
      <4>2. changeAge[L - j] = Forgotten
        BY <1>2, <3>4
      <4>3. changeAge'[L - j] = Forgotten
        BY <1>1, <3>2, <4>2 DEF Lesser
      <4> QED
        BY <4>1, <4>3
    <3> QED
      BY <3>3, <3>4
  <2> QED
    BY <1>3, <2>3, <2>4, <2>5 DEF RingInv
<1>8. CASE UNCHANGED vars
  BY <1>8 DEF vars, ringVars, RingInv, Forgotten
<1> QED
  BY <1>4, <1>5, <1>6, <1>7, <1>8 DEF Next

\* The ring says what the history says: in the window it has lost a change
\* only when it holds NMax others.
LEMMA RingExact == Ages /\ RingInv => StabilityExact
<1> SUFFICES ASSUME Ages, RingInv
             PROVE  StabilityExact
  OBVIOUS
<1>0. TypeOK /\ Sorted(recent)
  BY DEF Ages
<1> DEFINE L == Len(changeAge)
           R == Len(recent)
           k == AtMost(recent, Window)
<1>1. /\ NMax \in Nat /\ Window \in Nat /\ L \in Nat /\ R \in Nat
      /\ Forgotten = Window + 1 /\ L <= NMax + 1
      /\ changeAge \in Seq(Nat) /\ recent \in Seq(Nat)
      /\ \A i \in 1..R : recent[i] \in Nat
  <2>1. recent \in Seq(Nat)
    BY <1>0, Sizes
  <2>2. L <= NMax + 1
    BY <1>0 DEF TypeOK
  <2>3. \A i \in 1..R : recent[i] \in Nat
    BY <2>1
  <2>4. Forgotten = Window + 1
    BY DEF Forgotten
  <2> QED
    BY <1>0, <2>2, <2>3, <2>4, Sizes
<1>2. /\ L < NMax + 1 => R <= L
      /\ \A j \in 0..(L - 1) :
           changeAge[L - j] =
             IF j < R THEN Lesser(recent[R - j], Forgotten) ELSE Forgotten
  BY DEF RingInv
<1>3. /\ k \in 0..R
      /\ \A i \in 1..R : recent[i] <= Window <=> i > R - k
  BY <1>0, <1>1, SuffixCount
<1> DEFINE m == Lesser(L, k)
<1> HIDE DEF L, R, k
<1>4. m \in 0..L
  BY <1>1, <1>3 DEF Lesser
<1>5. ASSUME NEW i \in 1..L
      PROVE  changeAge[i] <= Window <=> i > L - m
  <2> DEFINE j == L - i
  <2>1. j \in 0..(L - 1) /\ L - j = i
    BY <1>1
  <2>2. i > L - m <=> j < k
    BY <1>1, <1>3, <2>1 DEF Lesser
  <2> HIDE DEF j, m
  <2>3. changeAge[i] =
          IF j < R THEN Lesser(recent[R - j], Forgotten) ELSE Forgotten
    BY <1>2, <2>1
  <2>4. CASE j < R
    <3>1. R - j \in 1..R
      BY <1>1, <2>1, <2>4
    <3>2. recent[R - j] \in Nat /\ (recent[R - j] <= Window <=> R - j > R - k)
      BY <1>1, <1>3, <3>1
    <3>3. changeAge[i] <= Window <=> recent[R - j] <= Window
      BY <1>1, <2>3, <2>4, <3>2 DEF Lesser
    <3>4. R - j > R - k <=> j < k
      BY <1>1, <1>3, <2>1
    <3> QED
      BY <2>2, <3>2, <3>3, <3>4
  <2>5. CASE ~(j < R)
    <3>1. ~(j < k)
      BY <1>1, <1>3, <2>1, <2>5
    <3>2. ~(changeAge[i] <= Window)
      BY <1>1, <2>3, <2>5
    <3> QED
      BY <2>2, <3>1, <3>2
  <2> QED
    BY <2>4, <2>5
<1>6. AtMost(changeAge, Window) = m
  <2> HIDE DEF m
  <2> QED
    BY <1>1, <1>4, <1>5, CountSuffix DEF L
<1>7. Lesser(m, NMax) = Lesser(k, NMax)
  BY <1>1, <1>2, <1>3 DEF Lesser
<1> QED
  BY <1>6, <1>7 DEF StabilityExact, ChangesInWindow, k

\* The ring of NMax + 1 timestamps, shifted when it is full, never miscounts
\* the changes of parent in the window.
THEOREM StabilityIsExact == Spec => []StabilityExact
<1>1. Init => Ages /\ RingInv
  BY AgesInit, RingInit
<1>2. (Ages /\ RingInv) /\ [Next]_vars => (Ages /\ RingInv)'
  BY AgesNext, RingNext
<1> QED
  BY <1>1, <1>2, RingExact, PTL DEF Spec

-----------------------------------------------------------------------------
(* The stored index.                                                       *)

\* The index was right at the last evaluation, evalIn seconds before the
\* next one.
StabInv ==
  LET since == EvalPeriod - evalIn
  IN  /\ stab <= AtMost(recent, Window + since)
      /\ stab >= Lesser(AtMost(recent, Window + since)
                          - AtMost(recent, since), NMax)

LEMMA StabInit == Init => StabInv
<1> SUFFICES ASSUME Init
             PROVE  StabInv
  OBVIOUS
<1>1. /\ recent = <<>> /\ stab = 0 /\ evalIn = EvalPeriod
      /\ Window \in Nat /\ NMax \in Nat /\ EvalPeriod \in Nat
  BY SizeAssumption DEF Init
<1>2. \A a \in Nat : AtMost(recent, a) = 0
  <2> TAKE a \in Nat
  <2>1. {i \in DOMAIN recent : recent[i] <= a} = {}
    BY <1>1
  <2> QED
    BY <2>1, FS_EmptySet DEF AtMost
<1>3. EvalPeriod - evalIn = 0
  BY <1>1
<1>4. AtMost(recent, Window + 0) = 0 /\ AtMost(recent, 0) = 0
  BY <1>1, <1>2
<1> QED
  BY <1>1, <1>3, <1>4 DEF StabInv, Lesser

LEMMA StabNext ==
  Ages /\ StabilityExact /\ StabInv /\ [Next]_vars => StabInv'
<1> SUFFICES ASSUME Ages, StabilityExact, StabInv, [Next]_vars
             PROVE  StabInv'
  OBVIOUS
<1>0. TypeOK /\ Sorted(recent)
  BY DEF Ages
<1> DEFINE e == EvalPeriod - evalIn
           w == AtMost(recent, Window + e)
           x == AtMost(recent, e)
<1>1. /\ NMax \in Nat /\ Window \in Nat /\ EvalPeriod \in Nat
      /\ evalIn \in 0..EvalPeriod /\ stab \in 0..NMax
      /\ Horizon = Window + EvalPeriod /\ recent \in Seq(Nat)
  BY <1>0, Sizes DEF Horizon
<1>2. e \in 0..EvalPeriod
  BY <1>1
<1>3. stab <= w /\ stab >= Lesser(w - x, NMax)
  BY DEF StabInv
<1>4. w \in Nat /\ x \in Nat
  BY <1>1, <1>2, CountMonotone
<1> HIDE DEF e, w, x
<1>5. CASE ParentChanged
  <2>1. \A a \in Nat : AtMost(recent', a) = AtMost(recent, a) + 1
    BY <1>0, <1>5, RecentAfterChange
  <2>2. stab' = stab /\ evalIn' = evalIn
    BY <1>5 DEF ParentChanged, evalVars
  <2>3. EvalPeriod - evalIn' = e
    BY <2>2 DEF e
  <2>4. AtMost(recent', Window + e) = w + 1 /\ AtMost(recent', e) = x + 1
    BY <1>1, <1>2, <2>1 DEF w, x
  <2> QED
    BY <1>1, <1>3, <1>4, <2>2, <2>3, <2>4 DEF StabInv, Lesser
<1>6. ASSUME NEW ok \in 0..1, RecordDao(ok)
      PROVE  StabInv'
  BY <1>6 DEF RecordDao, ringVars, evalVars, StabInv
<1>7. ASSUME NEW file \in Readings \cup {NoFile}, Evaluate(file)
      PROVE  StabInv'
  <2>1. /\ evalIn' = EvalPeriod /\ stab' = ChangesInWindow
        /\ recent' = recent
    BY <1>7 DEF Evaluate, ringVars
  <2>2. stab' = Lesser(AtMost(recent, Window), NMax)
    BY <2>1 DEF StabilityExact
  <2>3. AtMost(recent, Window) \in Nat /\ AtMost(recent, 0) \in Nat
    BY <1>1, CountMonotone
  <2>4. EvalPeriod - evalIn' = 0 /\ Window + 0 = Window
    BY <1>1, <2>1
  <2> QED
    BY <1>1, <2>1, <2>2, <2>3, <2>4 DEF StabInv, Lesser
<1>8. CASE Tick
  <2>1. \A a \in Nat : a + 1 <= Horizon =>
          AtMost(recent', a + 1) = AtMost(recent, a)
    BY <1>0, <1>8, RecentAfterTick
  <2>2. stab' = stab /\ evalIn' = evalIn - 1 /\ evalIn > 0
    BY <1>8 DEF Tick, evalVars
  <2>3. EvalPeriod - evalIn' = e + 1 /\ e + 1 <= EvalPeriod
    BY <1>1, <2>2 DEF e
  <2>4. AtMost(recent', (Window + e) + 1) = w /\ AtMost(recent', e + 1) = x
    BY <1>1, <1>2, <2>1, <2>3 DEF w, x
  <2>5. Window + (e + 1) = (Window + e) + 1
    BY <1>1, <1>2
  <2> QED
    BY <1>1, <1>3, <1>4, <2>2, <2>3, <2>4, <2>5 DEF StabInv
<1>9. CASE UNCHANGED vars
  BY <1>9 DEF vars, ringVars, evalVars, StabInv
<1> QED
  BY <1>5, <1>6, <1>7, <1>8, <1>9 DEF Next

LEMMA StabBounds == Ages /\ StabInv => PenaltyFresh
<1> SUFFICES ASSUME Ages, StabInv
             PROVE  PenaltyFresh
  OBVIOUS
<1>0. TypeOK
  BY DEF Ages
<1> DEFINE e == EvalPeriod - evalIn
           w == AtMost(recent, Window + e)
           x == AtMost(recent, e)
<1>1. /\ NMax \in Nat /\ Window \in Nat /\ EvalPeriod \in Nat
      /\ evalIn \in 0..EvalPeriod /\ stab \in 0..NMax
      /\ Horizon = Window + EvalPeriod /\ recent \in Seq(Nat)
  BY <1>0, Sizes DEF Horizon
<1>2. e \in Nat /\ e <= EvalPeriod
  BY <1>1
<1>3. stab <= w /\ stab >= Lesser(w - x, NMax)
  BY DEF StabInv
<1> HIDE DEF e
<1>4. /\ w \in Nat /\ AtMost(recent, Horizon) \in Nat
      /\ w <= AtMost(recent, Horizon)
  <2>1. Window + e \in Nat /\ Horizon \in Nat /\ Window + e <= Horizon
    BY <1>1, <1>2
  <2> QED
    BY <1>1, <2>1, CountMonotone
<1>5. AtMost(recent, Window) \in Nat /\ AtMost(recent, Window) <= w
  BY <1>1, <1>2, CountMonotone
<1>6. /\ x \in Nat /\ AtMost(recent, EvalPeriod) \in Nat
      /\ x <= AtMost(recent, EvalPeriod)
  BY <1>1, <1>2, CountMonotone
<1> QED
  BY <1>1, <1>3, <1>4, <1>5, <1>6 DEF PenaltyFresh, Lesser

StabAll == Ages /\ RingInv /\ StabInv

LEMMA StabAllInvariant == Spec => []StabAll
<1>1. Init => StabAll
  BY AgesInit, RingInit, StabInit DEF StabAll
<1>2. StabAll /\ [Next]_vars => StabAll'
  BY AgesNext, RingNext, RingExact, StabNext DEF StabAll
<1> QED
  BY <1>1, <1>2, PTL DEF Spec

\* The index that every poll reads is at most an evaluation period late.
THEOREM PenaltyIsFresh == Spec => []PenaltyFresh
<1>1. StabAll => PenaltyFresh
  BY StabBounds DEF StabAll
<1> QED
  BY <1>1, StabAllInvariant, PTL

\* What the score comes to with a full battery and every DAO delivered.
LEMMA FullScore ==
  ASSUME NEW r \in Nat, r > 0, NEW f \in Nat, f > 0,
         NEW n \in Nat, NEW k \in Nat,
         ~(8 * r * f * n + 6 * f * r * n + 6 * k * f * r >= 15 * r * f * n)
  PROVE  6 * k < n
<1> DEFINE p == r * f
<1>1. p \in Nat /\ p > 0
  BY SMT
<1>2. /\ 8 * r * f * n = 8 * (p * n) /\ 6 * f * r * n = 6 * (p * n)
      /\ 6 * k * f * r = p * (6 * k) /\ 15 * r * f * n = 15 * (p * n)
  BY SMT
<1>3. p * n \in Nat /\ p * (6 * k) \in Nat
  BY <1>1
<1> HIDE DEF p
<1>4. p * (6 * k) < p * n
  BY <1>2, <1>3
<1>5. \A a, b \in Nat : a >= b => p * a >= p * b
  BY <1>1, SMT
<1>6. 6 * k \in Nat
  OBVIOUS
<1> QED
  BY <1>4, <1>5, <1>6, <1>3

LEMMA EvidenceNeeded == Ages /\ PenaltyFresh => NeedsEvidence
<1> SUFFICES ASSUME Ages, PenaltyFresh, ~WantsClassS, energyEma = Full,
                    Delivered = Recorded
             PROVE  6 * AtMost(recent, Horizon) > 5 * NMax
  BY DEF NeedsEvidence
<1>0. TypeOK
  BY DEF Ages
<1>1. /\ NMax \in Nat /\ stab \in 0..NMax /\ recent \in Seq(Nat)
      /\ Horizon \in Nat
  BY <1>0, Sizes
<1>2. AtMost(recent, Horizon) \in Nat
  BY <1>1, CountMonotone
<1>3. Full \in Nat /\ Full > 0
  BY EnergyAssumption
<1>4. Recorded \in Nat /\ Recorded > 0
  <2>1. pdrCount \in Nat
    BY <1>0, SizeAssumption DEF TypeOK
  <2> QED
    BY <2>1 DEF Recorded
<1>5. NMax - stab \in Nat
  BY <1>1
<1>6. ~ReachesThreshold(Recorded, Recorded, Full, NMax - stab)
  BY DEF WantsClassS
<1>7. 6 * (NMax - stab) < NMax
  <2> DEFINE r == Recorded
             k == NMax - stab
  <2> HIDE DEF r, k
  <2>1. ~ReachesThreshold(r, r, Full, k)
    BY <1>6 DEF r, k
  <2>2. r \in Nat /\ r > 0 /\ k \in Nat
    BY <1>4, <1>5 DEF r, k
  <2>3. ~(8 * r * Full * NMax + 6 * Full * r * NMax + 6 * k * Full * r
            >= 15 * r * Full * NMax)
    BY <2>1 DEF ReachesThreshold
  <2>4. 6 * k < NMax
    BY <1>1, <1>3, <2>2, <2>3, FullScore
  <2> QED
    BY <2>4 DEF k
<1>8. stab <= AtMost(recent, Horizon)
  BY DEF PenaltyFresh
<1> QED
  BY <1>1, <1>2, <1>7, <1>8

\* Changes of parent alone do not make a healthy node class N before more than
\* five sixths of NMax of them fall within the horizon.
THEOREM EvidenceIsNeeded == Spec => []NeedsEvidence
<1>1. StabAll => Ages /\ PenaltyFresh
  BY StabBounds DEF StabAll
<1> QED
  BY <1>1, StabAllInvariant, EvidenceNeeded, PTL

-----------------------------------------------------------------------------
(* The window of outcomes.                                                 *)

\* Where the j-th of the recorded outcomes is, the oldest being the first.
SlotOf(idx, count, j) ==
  IF idx - count + j - 1 < 0 THEN idx - count + j - 1 + PdrWindow
  ELSE idx - count + j - 1

\* The ring holds the history, from the oldest outcome on.
PdrInv ==
  /\ pdrCount = Len(outcomes)
  /\ pdrCount < PdrWindow => pdrIdx = pdrCount
  /\ \A j \in 1..pdrCount :
       pdrWindow[SlotOf(pdrIdx, pdrCount, j)] = outcomes[j]

LEMMA PdrInit == Init => PdrInv
<1> SUFFICES ASSUME Init
             PROVE  PdrInv
  OBVIOUS
<1>1. pdrCount = 0 /\ pdrIdx = 0 /\ Len(outcomes) = 0
  BY DEF Init
<1> QED
  BY <1>1 DEF PdrInv

LEMMA PdrNext == TypeOK /\ PdrInv /\ [Next]_vars => PdrInv'
<1> SUFFICES ASSUME TypeOK, PdrInv, [Next]_vars
             PROVE  PdrInv'
  OBVIOUS
<1>1. CASE UNCHANGED pdrVars
  BY <1>1 DEF pdrVars, PdrInv, SlotOf
<1>2. ASSUME NEW ok \in 0..1, RecordDao(ok)
      PROVE  PdrInv'
  <2> DEFINE W == PdrWindow
  <2>1. /\ pdrIdx \in 0..(W - 1) /\ pdrCount \in 0..W
        /\ pdrWindow \in [0..(W - 1) -> 0..1]
        /\ outcomes \in Seq(0..1) /\ pdrCount = Len(outcomes)
        /\ W \in Nat /\ W > 0
    BY SizeAssumption DEF TypeOK, PdrInv
  <2>2. /\ pdrCount < W => pdrIdx = pdrCount
        /\ \A j \in 1..pdrCount :
             pdrWindow[SlotOf(pdrIdx, pdrCount, j)] = outcomes[j]
    BY DEF PdrInv
  <2>3. pdrIdx' = IF pdrIdx = W - 1 THEN 0 ELSE pdrIdx + 1
    BY <1>2, <2>1, NextSlot DEF RecordDao
  <2>4. /\ pdrCount' = IF pdrCount < W THEN pdrCount + 1 ELSE pdrCount
        /\ pdrWindow' = [pdrWindow EXCEPT ![pdrIdx] = ok]
        /\ outcomes' = Append(IF Len(outcomes) < W THEN outcomes
                              ELSE Tail(outcomes), ok)
    BY <1>2 DEF RecordDao, NextCount
  <2>5. CASE pdrCount < W
    <3>1. /\ outcomes' = Append(outcomes, ok) /\ pdrCount' = pdrCount + 1
          /\ pdrIdx = pdrCount
      BY <2>1, <2>2, <2>4, <2>5
    <3>2. /\ Len(outcomes') = pdrCount + 1
          /\ \A j \in 1..pdrCount : outcomes'[j] = outcomes[j]
          /\ outcomes'[pdrCount + 1] = ok
      BY <2>1, <3>1, AppendProperties
    <3>3. pdrCount' < W => pdrIdx' = pdrCount'
      BY <2>1, <2>3, <3>1
    <3>4. ASSUME NEW j \in 1..pdrCount'
          PROVE  SlotOf(pdrIdx', pdrCount', j) = j - 1
      <4>1. CASE pdrIdx = W - 1
        <5>1. pdrIdx' = 0 /\ pdrCount' = W /\ j \in 1..W
          BY <2>1, <2>3, <3>1, <4>1
        <5> QED
          BY <2>1, <5>1 DEF SlotOf
      <4>2. CASE pdrIdx # W - 1
        <5>1. pdrIdx' = pdrCount' /\ pdrCount' \in Nat
          BY <2>1, <2>3, <3>1, <4>2
        <5>2. \A c \in Nat : \A i \in 1..c : SlotOf(c, c, i) = i - 1
          BY DEF SlotOf
        <5> QED
          BY <5>1, <5>2
      <4> QED
        BY <4>1, <4>2
    <3>5. \A j \in 1..pdrCount : SlotOf(pdrIdx, pdrCount, j) = j - 1
      BY <2>1, <3>1 DEF SlotOf
    <3>6. ASSUME NEW j \in 1..pdrCount'
          PROVE  pdrWindow'[j - 1] = outcomes'[j]
      <4>1. CASE j = pdrCount + 1
        BY <2>1, <2>4, <3>1, <3>2, <4>1
      <4>2. CASE j # pdrCount + 1
        <5>1. /\ j \in 1..pdrCount /\ j - 1 \in 0..(W - 1)
              /\ j - 1 # pdrIdx
          BY <2>1, <3>1, <4>2
        <5>2. pdrWindow[j - 1] = outcomes[j]
          BY <2>2, <3>5, <5>1
        <5> QED
          BY <2>1, <2>4, <3>2, <5>1, <5>2
      <4> QED
        BY <4>1, <4>2
    <3> QED
      BY <3>1, <3>2, <3>3, <3>4, <3>6 DEF PdrInv, SlotOf
  <2>6. CASE ~(pdrCount < W)
    <3>1. /\ outcomes' = Append(Tail(outcomes), ok) /\ pdrCount' = W
          /\ pdrCount = W /\ Len(outcomes) = W /\ outcomes # <<>>
      BY <2>1, <2>4, <2>6
    <3>2. /\ Tail(outcomes) \in Seq(0..1) /\ Len(Tail(outcomes)) = W - 1
          /\ \A i \in 1..(W - 1) : Tail(outcomes)[i] = outcomes[i + 1]
      BY <2>1, <3>1, HeadTailProperties
    <3>3. /\ Len(outcomes') = W
          /\ \A j \in 1..(W - 1) : outcomes'[j] = outcomes[j + 1]
          /\ outcomes'[W] = ok
      BY <2>1, <3>1, <3>2, AppendProperties
    <3>4. ASSUME NEW j \in 1..W
          PROVE  pdrWindow'[SlotOf(pdrIdx', W, j)] = outcomes'[j]
      <4>1. CASE j = W
        <5>1. SlotOf(pdrIdx', W, j) = pdrIdx
          BY <2>1, <2>3, <4>1 DEF SlotOf
        <5> QED
          BY <2>1, <2>4, <3>3, <4>1, <5>1
      <4>2. CASE j # W
        <5>1. j \in 1..(W - 1) /\ j + 1 \in 1..W
          BY <2>1, <4>2
        <5>2. SlotOf(pdrIdx', W, j) = SlotOf(pdrIdx, W, j + 1)
          BY <2>1, <2>3, <5>1 DEF SlotOf
        <5>3. /\ SlotOf(pdrIdx, W, j + 1) \in 0..(W - 1)
              /\ SlotOf(pdrIdx, W, j + 1) # pdrIdx
          BY <2>1, <5>1 DEF SlotOf
        <5>4. pdrWindow[SlotOf(pdrIdx, W, j + 1)] = outcomes[j + 1]
          BY <2>2, <3>1, <5>1
        <5> HIDE DEF SlotOf
        <5> QED
          BY <2>1, <2>4, <3>3, <5>1, <5>2, <5>3, <5>4
      <4> QED
        BY <4>1, <4>2
    <3> QED
      BY <3>1, <3>3, <3>4 DEF PdrInv, SlotOf
  <2> QED
    BY <2>5, <2>6
<1>3. CASE ParentChanged
  BY <1>1, <1>3 DEF ParentChanged
<1>4. ASSUME NEW file \in Readings \cup {NoFile}, Evaluate(file)
      PROVE  PdrInv'
  BY <1>1, <1>4 DEF Evaluate
<1>5. CASE Tick
  BY <1>1, <1>5 DEF Tick
<1>6. CASE UNCHANGED vars
  BY <1>1, <1>6 DEF vars
<1> QED
  BY <1>2, <1>3, <1>4, <1>5, <1>6 DEF Next

\* The slots in use are the first pdrCount ones, each taken once.
LEMMA SlotsInUse ==
  ASSUME TypeOK, pdrCount < PdrWindow => pdrIdx = pdrCount
  PROVE  /\ \A j \in 1..pdrCount :
              SlotOf(pdrIdx, pdrCount, j) \in 0..(pdrCount - 1)
         /\ \A j, k \in 1..pdrCount :
              SlotOf(pdrIdx, pdrCount, j) = SlotOf(pdrIdx, pdrCount, k)
                => j = k
         /\ \A i \in 0..(pdrCount - 1) : \E j \in 1..pdrCount :
              SlotOf(pdrIdx, pdrCount, j) = i
<1>1. /\ pdrIdx \in 0..(PdrWindow - 1) /\ pdrCount \in 0..PdrWindow
      /\ PdrWindow \in Nat /\ PdrWindow > 0
  BY SizeAssumption DEF TypeOK
<1>2. \A j \in 1..pdrCount :
        SlotOf(pdrIdx, pdrCount, j) \in 0..(pdrCount - 1)
  BY <1>1 DEF SlotOf
<1>3. \A j, k \in 1..pdrCount :
        SlotOf(pdrIdx, pdrCount, j) = SlotOf(pdrIdx, pdrCount, k) => j = k
  BY <1>1 DEF SlotOf
<1>4. ASSUME NEW i \in 0..(pdrCount - 1)
      PROVE  \E j \in 1..pdrCount : SlotOf(pdrIdx, pdrCount, j) = i
  <2>1. CASE pdrCount < PdrWindow
    <3>1. i + 1 \in 1..pdrCount /\ SlotOf(pdrIdx, pdrCount, i + 1) = i
      BY <1>1, <2>1 DEF SlotOf
    <3> QED
      BY <3>1
  <2>2. CASE pdrCount = PdrWindow /\ i < pdrIdx
    <3> DEFINE j == i + 1 + pdrCount - pdrIdx
    <3>1. j \in 1..pdrCount /\ SlotOf(pdrIdx, pdrCount, j) = i
      BY <1>1, <2>2 DEF SlotOf
    <3> QED
      BY <3>1
  <2>3. CASE pdrCount = PdrWindow /\ i >= pdrIdx
    <3> DEFINE j == i + 1 - pdrIdx
    <3>1. j \in 1..pdrCount /\ SlotOf(pdrIdx, pdrCount, j) = i
      BY <1>1, <2>3 DEF SlotOf
    <3> QED
      BY <3>1
  <2> QED
    BY <1>1, <2>1, <2>2, <2>3
<1> QED
  BY <1>2, <1>3, <1>4

LEMMA PdrCounts == TypeOK /\ PdrInv => PdrExact
<1> SUFFICES ASSUME TypeOK, PdrInv
             PROVE  PdrExact
  OBVIOUS
<1> DEFINE Slot(j) == SlotOf(pdrIdx, pdrCount, j)
           A == {j \in 1..pdrCount : outcomes[j] = 1}
           B == {i \in 0..(pdrCount - 1) : pdrWindow[i] = 1}
           f == [j \in A |-> Slot(j)]
<1>1. /\ pdrCount = Len(outcomes) /\ pdrCount \in Nat
      /\ outcomes \in Seq(0..1) /\ DOMAIN outcomes = 1..pdrCount
  BY SizeAssumption DEF TypeOK, PdrInv
<1>2. \A j \in 1..pdrCount : pdrWindow[Slot(j)] = outcomes[j]
  BY DEF PdrInv
<1>3. /\ \A j \in 1..pdrCount : Slot(j) \in 0..(pdrCount - 1)
      /\ \A j, k \in 1..pdrCount : Slot(j) = Slot(k) => j = k
      /\ \A i \in 0..(pdrCount - 1) : \E j \in 1..pdrCount : Slot(j) = i
  BY SlotsInUse DEF PdrInv
<1> HIDE DEF Slot
<1>4. f \in [A -> B]
  BY <1>2, <1>3
<1>5. \A j, k \in A : f[j] = f[k] => j = k
  BY <1>3
<1>6. ASSUME NEW i \in B
      PROVE  \E j \in A : f[j] = i
  <2>1. PICK j \in 1..pdrCount : Slot(j) = i
    BY <1>3
  <2>2. j \in A
    BY <1>2, <2>1
  <2> QED
    BY <2>1, <2>2
<1>7. f \in Bijection(A, B)
  <2> HIDE DEF f, A, B
  <2>1. f \in Injection(A, B)
    BY <1>4, <1>5 DEF Injection, IsInjective
  <2>2. f \in Surjection(A, B)
    BY <1>4, <1>6 DEF Surjection
  <2> QED
    BY <2>1, <2>2 DEF Bijection
<1>8. ExistsBijection(A, B)
  BY <1>7 DEF ExistsBijection
<1>9. IsFiniteSet(A)
  <2>1. IsFiniteSet(1..pdrCount)
    BY <1>1, FS_Interval
  <2> QED
    BY <2>1, FS_Subset
<1>10. Cardinality(B) = Cardinality(A)
  <2> HIDE DEF A, B
  <2> QED
    BY <1>8, <1>9, FS_Bijection
<1> QED
  BY <1>1, <1>10 DEF PdrExact, Successes

\* However often the index has gone round, the PDR is that of the latest
\* outcomes.
THEOREM PdrIsExact == Spec => []PdrExact
<1>1. Init => Ages /\ PdrInv
  BY AgesInit, PdrInit
<1>2. (Ages /\ PdrInv) /\ [Next]_vars => (Ages /\ PdrInv)'
  BY AgesNext, PdrNext DEF Ages
<1>3. Ages /\ PdrInv => PdrExact
  BY PdrCounts DEF Ages
<1> QED
  BY <1>1, <1>2, <1>3, PTL DEF Spec

=============================================================================

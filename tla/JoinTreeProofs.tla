--------------------------- MODULE JoinTreeProofs ---------------------------
(***************************************************************************)
(* Theorems about JoinTree, for every set of nodes and links.              *)
(***************************************************************************)
EXTENDS JoinTree, WellFoundedInduction, TLAPS

\* The root is a member with rank 1, and members have ranks above 0.
MemberInv ==
  /\ member \subseteq Node /\ Root \in member
  /\ DOMAIN rank = Node /\ rank[Root] = 1
  /\ \A n \in member : rank[n] \in Nat \ {0}

DistanceInv == MemberInv /\ RankAtLeastDistance

-----------------------------------------------------------------------------
(* Ways.                                                                   *)

\* The root is no links away from itself.
LEMMA WayToRoot ==
  ASSUME NEW d \in Distances
  PROVE  Root \in Within[d]
<1> DEFINE w == [i \in 0..d |-> Root]
<1>1. d \in Nat
  BY DEF Distances
<1>2. w \in [0..d -> Node] /\ w[0] = Root /\ w[d] = Root
  BY <1>1, JoinAssumption
<1>3. \A i \in 1..d : i \in 0..d /\ i - 1 \in 0..d
  BY <1>1
<1>4. \A i \in 1..d : w[i] = w[i - 1]
  BY <1>3
<1>5. w \in Ways(d)
  BY <1>2, <1>4 DEF Ways
<1> QED
  BY <1>2, <1>5 DEF Within

\* One more link leads to the neighbours.
LEMMA LongerWay ==
  ASSUME NEW d \in Distances, d - 1 \in Distances,
         NEW m \in Within[d - 1], NEW n \in Node, Adjacent(n, m)
  PROVE  n \in Within[d]
<1>1. d \in Nat /\ d >= 1
  BY DEF Distances
<1>2. PICK v \in Ways(d - 1) : v[d - 1] = m
  BY DEF Within
<1>3. /\ v \in [0..(d - 1) -> Node] /\ v[0] = Root
      /\ \A i \in 1..(d - 1) : v[i] = v[i - 1] \/ Adjacent(v[i], v[i - 1])
  BY DEF Ways
<1> DEFINE w == [i \in 0..d |-> IF i = d THEN n ELSE v[i]]
<1>4. \A i \in 0..(d - 1) : i \in 0..d /\ w[i] = v[i]
  BY <1>1
<1>5. w \in [0..d -> Node] /\ w[d] = n
  BY <1>1, <1>3
<1>6. w[0] = Root
  BY <1>1, <1>3, <1>4
<1>7. ASSUME NEW i \in 1..d
      PROVE  w[i] = w[i - 1] \/ Adjacent(w[i], w[i - 1])
  <2>1. CASE i = d
    <3>1. w[i] = n /\ w[i - 1] = m
      BY <1>1, <1>2, <1>4, <1>5, <2>1
    <3> QED
      BY <3>1
  <2>2. CASE i # d
    <3>1. i \in 1..(d - 1) /\ i - 1 \in 0..(d - 1) /\ i \in 0..(d - 1)
      BY <1>1, <2>2
    <3>2. w[i] = v[i] /\ w[i - 1] = v[i - 1]
      BY <1>4, <3>1
    <3> QED
      BY <1>3, <3>1, <3>2
  <2> QED
    BY <2>1, <2>2
<1> HIDE DEF w
<1>8. w \in Ways(d)
  BY <1>5, <1>6, <1>7 DEF Ways
<1> QED
  BY <1>5, <1>8 DEF Within

\* A way ends at its last but one node or at a neighbour of it.
LEMMA ShorterWay ==
  ASSUME NEW d \in Distances, d # 0, NEW n \in Within[d]
  PROVE  /\ d - 1 \in Distances
         /\ \E m \in Within[d - 1] : n = m \/ Adjacent(n, m)
<1>1. d \in Nat /\ d >= 1 /\ d - 1 \in Distances
  BY JoinAssumption DEF Distances
<1>2. PICK v \in Ways(d) : v[d] = n
  BY DEF Within
<1>3. /\ v \in [0..d -> Node] /\ v[0] = Root
      /\ \A i \in 1..d : v[i] = v[i - 1] \/ Adjacent(v[i], v[i - 1])
  BY DEF Ways
<1> DEFINE w == [i \in 0..(d - 1) |-> v[i]]
<1>4. w \in [0..(d - 1) -> Node] /\ w[0] = Root /\ w[d - 1] = v[d - 1]
  BY <1>1, <1>3
<1>5. ASSUME NEW i \in 1..(d - 1)
      PROVE  w[i] = w[i - 1] \/ Adjacent(w[i], w[i - 1])
  <2>1. i \in 1..d /\ i \in 0..(d - 1) /\ i - 1 \in 0..(d - 1)
    BY <1>1
  <2>2. w[i] = v[i] /\ w[i - 1] = v[i - 1]
    BY <2>1
  <2> QED
    BY <1>3, <2>1, <2>2
<1> HIDE DEF w
<1>6. w \in Ways(d - 1)
  BY <1>4, <1>5 DEF Ways
<1>7. v[d - 1] \in Within[d - 1]
  BY <1>1, <1>4, <1>6 DEF Within
<1>8. d \in 1..d
  BY <1>1
<1>9. n = v[d - 1] \/ Adjacent(n, v[d - 1])
  BY <1>2, <1>3, <1>8
<1> QED
  BY <1>1, <1>7, <1>9

-----------------------------------------------------------------------------
LEMMA InitDistance == Init => DistanceInv
<1> SUFFICES ASSUME Init
             PROVE  DistanceInv
  OBVIOUS
<1>1. MemberInv
  BY JoinAssumption DEF Init, MemberInv
<1>2. RankAtLeastDistance
  BY WayToRoot DEF Init, RankAtLeastDistance
<1> QED
  BY <1>1, <1>2 DEF DistanceInv

\* A node whose new rank is above that of a member it has a link to is as
\* far away as the rank says.
LEMMA RankFar ==
  ASSUME DistanceInv, NEW n \in Node, NEW m \in member, NEW r \in 1..Size,
         Adjacent(n, m), rank[m] < r, NEW d \in Distances, r <= d + 1
  PROVE  n \in Within[d]
<1>1. rank[m] \in Nat \ {0}
  BY DEF DistanceInv, MemberInv
<1>2. d - 1 \in Distances /\ rank[m] <= (d - 1) + 1
  BY <1>1, JoinAssumption DEF Distances
<1>3. m \in Within[d - 1]
  BY <1>2 DEF DistanceInv, RankAtLeastDistance
<1> QED
  BY <1>2, <1>3, LongerWay

LEMMA NextDistance ==
  ASSUME DistanceInv, [Next]_treeVars
  PROVE  DistanceInv'
<1>1. ASSUME NEW n \in Node, NEW m \in Node, NEW r \in 1..Size, Join(n, m, r)
      PROVE  DistanceInv'
  <2>1. /\ n \notin member /\ m \in member /\ Adjacent(n, m) /\ rank[m] < r
        /\ member' = member \cup {n} /\ rank' = [rank EXCEPT ![n] = r]
    BY <1>1 DEF Join, MayJoin
  <2>2. MemberInv'
    BY <2>1, JoinAssumption DEF DistanceInv, MemberInv
  <2>3. RankAtLeastDistance'
    <3> SUFFICES ASSUME NEW d \in Distances, NEW k \in member',
                        rank'[k] <= d + 1
                 PROVE  k \in Within[d]
      BY DEF RankAtLeastDistance
    <3>1. CASE k = n
      <4>1. rank'[k] = r
        BY <2>1, <3>1 DEF DistanceInv, MemberInv
      <4> QED
        BY <2>1, <3>1, <4>1, RankFar
    <3>2. CASE k # n
      BY <2>1, <3>2 DEF DistanceInv, RankAtLeastDistance, MemberInv
    <3> QED
      BY <3>1, <3>2
  <2> QED
    BY <2>2, <2>3 DEF DistanceInv
<1>2. ASSUME NEW n \in Node, NEW m \in Node, NEW r \in 1..Size,
             Improve(n, m, r)
      PROVE  DistanceInv'
  <2>1. /\ n \in member \ {Root} /\ m \in member /\ Adjacent(n, m)
        /\ rank[m] < r
        /\ member' = member /\ rank' = [rank EXCEPT ![n] = r]
    BY <1>2 DEF Improve, MayImprove
  <2>2. MemberInv'
    BY <2>1, JoinAssumption DEF DistanceInv, MemberInv
  <2>3. RankAtLeastDistance'
    <3> SUFFICES ASSUME NEW d \in Distances, NEW k \in member,
                        rank'[k] <= d + 1
                 PROVE  k \in Within[d]
      BY <2>1 DEF RankAtLeastDistance
    <3>1. CASE k = n
      <4>1. rank'[k] = r
        BY <2>1, <3>1 DEF DistanceInv, MemberInv
      <4> QED
        BY <2>1, <3>1, <4>1, RankFar
    <3>2. CASE k # n
      BY <2>1, <3>2 DEF DistanceInv, RankAtLeastDistance, MemberInv
    <3> QED
      BY <3>1, <3>2
  <2> QED
    BY <2>2, <2>3 DEF DistanceInv
<1>3. CASE UNCHANGED treeVars
  BY <1>3 DEF treeVars, DistanceInv, MemberInv, RankAtLeastDistance
<1> QED
  BY <1>1, <1>2, <1>3 DEF Next, Move

\* In every network and every order of joining and improving, no rank is
\* below its node's distance from the root.
THEOREM DistancesKept == Spec => []RankAtLeastDistance
<1>1. DistanceInv => RankAtLeastDistance
  BY DEF DistanceInv
<1> QED
  BY <1>1, InitDistance, NextDistance, PTL DEF Spec

-----------------------------------------------------------------------------
\* A set of natural numbers that is not empty has a least one.
LEMMA LeastNatural ==
  ASSUME NEW T \in SUBSET Nat, T # {}
  PROVE  \E x \in T : \A y \in T : x <= y
<1> DEFINE R == OpToRel(<, Nat)
<1>1. IsWellFoundedOn(R, Nat)
  BY NatLessThanWellFounded
<1>2. \A x, y \in Nat : y < x => <<y, x>> \in R
  BY DEF OpToRel
<1> HIDE DEF R
<1>3. PICK x \in T : \A y \in T : ~(<<y, x>> \in R)
  BY <1>1, WFMin
<1>4. \A y \in T : ~(y < x)
  BY <1>2, <1>3, Zenon
<1>5. \A y \in T : x <= y
  BY <1>4
<1> QED
  BY <1>5

\* Of the distances at which some node has not joined, or has a rank too high,
\* the least is impossible: the node before it on the way has joined with a
\* rank low enough, so this one may join or improve.
LEMMA RestDistance ==
  ASSUME DistanceInv,
         \A n, m \in Node : \A r \in 1..Size :
           ~MayJoin(n, m, r) /\ ~MayImprove(n, m, r)
  PROVE  RankIsDistance
<1> DEFINE Reached(n, d) == n \in member /\ rank[n] <= d + 1
           T == {d \in Distances : \E n \in Within[d] : ~Reached(n, d)}
<1> SUFFICES ASSUME T # {}
             PROVE  FALSE
  BY DEF RankIsDistance
<1>1. T \in SUBSET Nat
  BY DEF Distances
<1>2. PICK d \in T : \A e \in T : d <= e
  BY <1>1, LeastNatural
<1>3. d \in Distances /\ d \in Nat
  BY DEF Distances
<1>4. PICK n \in Within[d] : ~Reached(n, d)
  BY <1>2
<1>5. n \in Node
  <2>1. PICK w \in Ways(d) : w[d] = n
    BY <1>3 DEF Within
  <2>2. w \in [0..d -> Node]
    BY DEF Ways
  <2> QED
    BY <1>3, <2>1, <2>2
<1>6. d # 0
  <2> SUFFICES ASSUME d = 0
               PROVE  FALSE
    OBVIOUS
  <2>1. n = Root
    BY <1>3, <1>4 DEF Within, Ways
  <2> QED
    BY <2>1, <1>4 DEF DistanceInv, MemberInv
<1>7. PICK m \in Within[d - 1] : n = m \/ Adjacent(n, m)
  BY <1>3, <1>6, ShorterWay
<1>8. d - 1 \in Distances /\ d - 1 \notin T
  BY <1>2, <1>3, <1>6, ShorterWay, <1>4
<1>9. m \in member /\ rank[m] <= d /\ rank[m] \in Nat /\ m \in Node
  <2>1. Reached(m, d - 1)
    BY <1>8
  <2> QED
    BY <2>1, <1>3 DEF DistanceInv, MemberInv
<1>10. d + 1 \in 1..Size
  BY <1>3, JoinAssumption DEF Distances
<1>11. n # m
  BY <1>3, <1>4, <1>9
<1>12. Adjacent(n, m)
  BY <1>7, <1>11
<1>13. rank[m] < d + 1
  BY <1>3, <1>9
<1>14. n \in member
  BY <1>5, <1>9, <1>10, <1>12, <1>13 DEF MayJoin
<1>15. rank[n] \in Nat /\ rank[n] > d + 1
  BY <1>3, <1>4, <1>14 DEF DistanceInv, MemberInv
<1>16. n # Root
  BY <1>3, <1>15 DEF DistanceInv, MemberInv
<1> QED
  BY <1>5, <1>9, <1>10, <1>12, <1>13, <1>14, <1>15, <1>16 DEF MayImprove

\* In every network a tree that cannot be improved any more has reached every
\* node that can be reached, at its distance.
THEOREM Resting == Spec => []RestsAtDistance
<1>1. DistanceInv => RestsAtDistance
  BY RestDistance DEF RestsAtDistance
<1> QED
  BY <1>1, InitDistance, NextDistance, PTL DEF Spec

=============================================================================

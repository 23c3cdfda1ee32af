------------------------------ MODULE JoinTree ------------------------------
(***************************************************************************)
(* What the forming of a DODAG promises, without DIOs, timers or buffers:  *)
(* nodes join one by one below a member they have a link to, keep the      *)
(* parent they joined with, and improve their rank as better ones become   *)
(* known, until every rank is the distance from the root.                  *)
(***************************************************************************)
EXTENDS Integers

CONSTANTS
  Node,    \* the nodes
  Root,    \* the member that is there from the start
  NoPeer,  \* the parent of a node that has none
  Link,    \* links, as sets of two nodes
  RankMax, \* the rank of a node that has not joined
  Size     \* the number of nodes, which no rank exceeds

ASSUME JoinAssumption == Root \in Node /\ NoPeer \notin Node /\ Size \in Nat

VARIABLES member, parent, rank

treeVars == <<member, parent, rank>>

Adjacent(n, m) == n # m /\ {n, m} \in Link

Init ==
  /\ member = {Root}
  /\ parent = [n \in Node |-> NoPeer]
  /\ rank = [n \in Node |-> IF n = Root THEN 1 ELSE RankMax]

\* mutant: a stored rank below the sender's
MayJoinAtAnyRank(n, m, r) ==
  n \notin member /\ m \in member /\ Adjacent(n, m)

\* m's rank is below r, or was a while ago.
MayJoin(n, m, r) ==
  n \notin member /\ m \in member /\ Adjacent(n, m) /\ rank[m] < r

\* n joins below m.
Join(n, m, r) ==
  /\ MayJoin(n, m, r)
  /\ member' = member \cup {n}
  /\ parent' = [parent EXCEPT ![n] = m]
  /\ rank' = [rank EXCEPT ![n] = r]

\* mutant: only the parent is believed
MayImproveByParent(n, m, r) ==
  n \in member \ {Root} /\ m = parent[n] /\ rank[m] < r /\ r < rank[n]

MayImprove(n, m, r) ==
  /\ n \in member \ {Root} /\ m \in member /\ Adjacent(n, m)
  /\ rank[m] < r /\ r < rank[n]

\* n learns of a shorter way, through m.
Improve(n, m, r) ==
  /\ MayImprove(n, m, r)
  /\ rank' = [rank EXCEPT ![n] = r]
  /\ UNCHANGED <<member, parent>>

Move(n) ==
  \E m \in Node : \E r \in 1..Size :
    Join(n, m, r) \/ Improve(n, m, r)

Next == \E n \in Node : Move(n)

Spec == Init /\ [][Next]_treeVars

FairSpec == Spec /\ \A n \in Node : WF_treeVars(Move(n))

-----------------------------------------------------------------------------
\* A node that can be reached is fewer links away than there are nodes.
Distances == 0..(Size - 1)

\* The ways from the root of at most d links.
Ways(d) ==
  {w \in [0..d -> Node] :
     /\ w[0] = Root
     /\ \A i \in 1..d : w[i] = w[i - 1] \/ Adjacent(w[i], w[i - 1])}

\* The nodes at most d links away from the root.
Within == [d \in Distances |-> {w[d] : w \in Ways(d)}]

\* A rank is a distance from the root (the root's own is 1) or more: nobody
\* is closer than the links allow, although ranks only ever improve.
RankAtLeastDistance ==
  \A d \in Distances : \A n \in member : rank[n] <= d + 1 => n \in Within[d]

\* Ranks settle at the distances, and every node that can be reached joins.
RankIsDistance ==
  \A d \in Distances : \A n \in Within[d] : n \in member /\ rank[n] <= d + 1

\* A tree in which nobody can join or improve has reached the distances: one
\* that is stuck above them, because of the order in which nodes heard of
\* each other, does not exist.
RestsAtDistance ==
  (\A n, m \in Node : \A r \in 1..Size :
     ~MayJoin(n, m, r) /\ ~MayImprove(n, m, r))
  => RankIsDistance

Settles == <>[]RankIsDistance

=============================================================================

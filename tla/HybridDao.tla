----------------------------- MODULE HybridDao -----------------------------
(***************************************************************************)
(* The downward half of HyMRPL: what the DAOs sent by process_dio do to    *)
(* the nodes that receive them, and what a change of class does to routes  *)
(* that are already there.                                                 *)
(*                                                                         *)
(*   AcceptDio    process_dio: join or refresh, then send DAOs             *)
(*   ProcessDao   process_dao: record children, install host routes or     *)
(*                feed the root's source tree, by mode and class           *)
(*   SwitchClass  a command or the adaptive engine changes the class       *)
(*                                                                         *)
(* DAOs are lost, delayed and superseded, and the root may restart.  DIOs  *)
(* are read as soon as they are sent and nobody loses its parent: late     *)
(* DIOs, crashes and repair are module Dodag's.                            *)
(***************************************************************************)
EXTENDS Integers, FiniteSets

CONSTANTS
  Node,         \* the daemons
  Root,         \* the node configured with dodag_root = true
  NoPeer,       \* no parent, no child, no route
  Link,         \* radio links, as sets of two nodes
  RankMax,      \* the rank of a node without a dag
  Mops,         \* modes of operation the root may be configured with
  Profiles,     \* classes the nodes may be configured with
  Switchable,   \* the nodes whose class may be switched
  MaxTargets,   \* MAX_DAO_TARGETS
  MaxSwitches,  \* bound on changes of class
  MaxRestarts   \* bound on restarts of the root

RootRank == 1
NonStoring == 1
Storing == {2, 3}
Hybrid == 6
Class == {"S", "N"}

ASSUME RootAssumption == Root \in Node /\ NoPeer \notin Node
ASSUME NodeAssumption == IsFiniteSet(Node)
ASSUME RankAssumption == RankMax \in Nat /\ Cardinality(Node) < RankMax
ASSUME BoundAssumption ==
  MaxTargets \in Nat \ {0} /\ MaxSwitches \in Nat /\ MaxRestarts \in Nat
ASSUME MopAssumption == Mops \subseteq 0..7
ASSUME ProfileAssumption ==
  Profiles \subseteq [Node -> Class] /\ Switchable \subseteq Node

VARIABLES
  mop,         \* dag->mop, the same everywhere: copied from the root's DIOs
  myRank,      \* dag->my_rank, RankMax before the node has a dag
  parent,      \* dag->parent->addr
  parentRank,  \* dag->parent->rank
  class,       \* dag->node_class
  child,       \* child[n][t]: the `from' of n's child t, or NoPeer
  via,         \* via[n][t]: next hop of n's host route to t, or NoPeer
  tree,        \* targets the root has inserted in its source routing tree
  dao,         \* dao[n][d]: targets of the DAO on its way from n to d
  switches,    \* changes of class so far
  restarts     \* restarts of the root so far

upVars == <<mop, myRank, parent, parentRank>>
downVars == <<child, via, tree>>
vars == <<upVars, class, downVars, dao, switches, restarts>>

NoRoutes == [n \in Node |-> NoPeer]

TypeOK ==
  /\ mop \in Mops
  /\ myRank \in [Node -> 0..RankMax]
  /\ parent \in [Node -> Node \cup {NoPeer}]
  /\ parentRank \in [Node -> 0..RankMax]
  /\ class \in [Node -> Class]
  /\ child \in [Node -> [Node -> Node \cup {NoPeer}]]
  /\ via \in [Node -> [Node -> Node \cup {NoPeer}]]
  /\ tree \subseteq Node
  /\ dao \in [Node -> [Node -> SUBSET Node]]
  /\ switches \in 0..MaxSwitches
  /\ restarts \in 0..MaxRestarts

Adjacent(n, m) == n # m /\ {n, m} \in Link

Children(n) == {t \in Node : child[n][t] # NoPeer}

\* mutant: class N aggregates its children as class S does
TargetsAnyClass(n) ==
  IF mop \in Storing \cup {Hybrid} THEN {n} \cup Children(n) ELSE {n}

\* dag_build_dao: the targets of n's DAO.
Targets(n) ==
  IF mop \in Storing \/ (mop = Hybrid /\ class[n] = "S")
    THEN {n} \cup Children(n)
    ELSE {n}

\* The switch at the end of process_dio, for parent p with stored rank r.
DaoDestinations(p, r) ==
  CASE mop \in Storing  -> {p}
    [] mop = NonStoring -> {Root}
    [] mop = Hybrid     -> IF r > RootRank THEN {p, Root} ELSE {p}
    [] OTHER            -> {}

Init ==
  /\ mop \in Mops
  /\ myRank = [n \in Node |-> IF n = Root THEN RootRank ELSE RankMax]
  /\ parent = [n \in Node |-> NoPeer]
  /\ parentRank = [n \in Node |-> RankMax]
  /\ class \in Profiles
  /\ child = [n \in Node |-> NoRoutes]
  /\ via = [n \in Node |-> NoRoutes]
  /\ tree = {}
  /\ dao = [n \in Node |-> [d \in Node |-> {}]]
  /\ switches = 0
  /\ restarts = 0

NextParent(n, m) == IF parent[n] = NoPeer THEN m ELSE parent[n]

\* mutant: also a node without a rank of its own is listened to
AcceptsAny(n, m) == myRank[n] # RootRank /\ myRank[m] <= parentRank[n]

\* n is no root, and the rank of m is no worse than the parent's.  That m has
\* a rank is no check of n's: a node without a dag sends no DIO, and none of
\* these nodes is ever invalidated.
Accepts(n, m) ==
  myRank[n] # RootRank /\ myRank[m] # RankMax /\ myRank[m] <= parentRank[n]

\* n reads a DIO of m no worse than its parent and sends its DAOs, each in
\* place of one that is still on its way.
AcceptDio(n, m) ==
  /\ Adjacent(n, m)
  /\ Accepts(n, m)
  /\ parent' = [parent EXCEPT ![n] = NextParent(n, m)]
  /\ parentRank' = [parentRank EXCEPT ![n] = myRank[m]]
  /\ myRank' = [myRank EXCEPT ![n] = myRank[m] + 1]
  /\ dao' = [dao EXCEPT ![n] =
               [d \in Node |->
                  IF d \in DaoDestinations(NextParent(n, m), myRank[m])
                    THEN Targets(n) ELSE @[d]]]
  /\ UNCHANGED <<mop, class, downVars, switches, restarts>>

\* dag_lookup_child_or_create for every target: who is known keeps its `from'.
ChildrenAfter(d, n) ==
  [t \in Node |->
     IF t \in dao[n][d] /\ child[d][t] = NoPeer THEN n ELSE child[d][t]]

\* Children of the root in hybrid mode, and all in non-storing mode, are
\* created too, but nothing ever reads them: they are left out here.
ReadsChildren(d) == mop \in Storing \/ (mop = Hybrid /\ myRank[d] # RootRank)

\* mutant: the hybrid root installs host routes too
InstallsRoutesAtRoot(d) ==
  mop \in Storing \/ (mop = Hybrid /\ class[d] = "S")

\* Hybrid mode: the root never does, whatever its class.
InstallsRoutes(d) ==
  \/ mop \in Storing
  \/ mop = Hybrid /\ myRank[d] # RootRank /\ class[d] = "S"

\* mutant: only the children this DAO created get a route
RoutesForNew(d, n) ==
  [t \in Node |->
     IF t \in dao[n][d] /\ child[d][t] = NoPeer THEN n ELSE via[d][t]]

\* A host route for every child, whichever DAO it came with.
RoutesAfter(d, n) ==
  [t \in Node |->
     IF ChildrenAfter(d, n)[t] # NoPeer THEN ChildrenAfter(d, n)[t]
     ELSE via[d][t]]

FeedsTree(d) == mop = NonStoring \/ (mop = Hybrid /\ myRank[d] = RootRank)

\* mutant: only the last target is processed, as in the original rpld
LastTarget(n, T, K) ==
  IF T = {n} THEN K = T ELSE K \subseteq T \ {n} /\ Cardinality(K) = 1

\* The targets kept by the handler's array, filled in the DAO's order: the
\* sender's own comes first.
Kept(n, T, K) ==
  /\ K \subseteq T /\ n \in K
  /\ Cardinality(K) = IF Cardinality(T) < MaxTargets THEN Cardinality(T)
                      ELSE MaxTargets

\* d reads the DAO of n.  The DAO-ACK it sends changes nothing anywhere.
ProcessDao(d, n) ==
  /\ dao[n][d] # {}
  /\ myRank[d] # RankMax
  /\ dao' = [dao EXCEPT ![n][d] = {}]
  /\ child' = IF ReadsChildren(d)
                THEN [child EXCEPT ![d] = ChildrenAfter(d, n)] ELSE child
  /\ via' = IF InstallsRoutes(d)
              THEN [via EXCEPT ![d] = RoutesAfter(d, n)] ELSE via
  /\ IF FeedsTree(d)
       THEN \E K \in SUBSET dao[n][d] :
              Kept(n, dao[n][d], K) /\ tree' = tree \cup K
       ELSE tree' = tree
  /\ UNCHANGED <<upVars, class, switches, restarts>>

\* The class is one byte of the dag: children and routes stay as they are.
SwitchClass(n) ==
  /\ n \in Switchable /\ mop = Hybrid
  /\ switches < MaxSwitches
  /\ switches' = switches + 1
  /\ class' = [class EXCEPT ![n] = IF @ = "S" THEN "N" ELSE "S"]
  /\ UNCHANGED <<upVars, downVars, dao, restarts>>

-----------------------------------------------------------------------------
(* The environment.                                                        *)

LoseDao(n, d) ==
  /\ dao[n][d] # {}
  /\ dao' = [dao EXCEPT ![n][d] = {}]
  /\ UNCHANGED <<upVars, class, downVars, switches, restarts>>

\* The root's daemon restarts: its memory and its socket are empty, the
\* kernel's routes are not.
RestartRoot ==
  /\ restarts < MaxRestarts
  /\ restarts' = restarts + 1
  /\ child' = [child EXCEPT ![Root] = NoRoutes]
  /\ tree' = {}
  /\ dao' = [n \in Node |-> [dao[n] EXCEPT ![Root] = {}]]
  /\ UNCHANGED <<upVars, class, via, switches>>

Next ==
  \/ \E n, m \in Node : AcceptDio(n, m) \/ ProcessDao(n, m) \/ LoseDao(n, m)
  \/ \E n \in Node : SwitchClass(n)
  \/ RestartRoot

Spec == Init /\ [][Next]_vars

\* Trickle timers keep firing, and of the DAOs that are sent again and again
\* from one node to another some get through.
Fairness ==
  \A n \in Node \ {Root} : \A m \in {d \in Node : Adjacent(n, d)} \cup {Root} :
    WF_vars(AcceptDio(n, m)) /\ SF_vars(ProcessDao(m, n))

FairSpec == Spec /\ Fairness

-----------------------------------------------------------------------------
(* Safety.                                                                 *)

\* t is y or below it: in every set that has y and is closed under "the
\* nodes whose parent is in it".
Below(t, y) ==
  \A S \in SUBSET Node :
    y \in S /\ (\A m \in Node : parent[m] \in S => m \in S) => t \in S

\* A host route leads down the tree, to a node whose parent is the route's
\* owner and which is the target or above it.
RoutesLeadDown ==
  \A n, t \in Node : via[n][t] # NoPeer =>
    parent[via[n][t]] = n /\ Below(t, via[n][t])

\* The next hop of a route has a route of its own to the target.
Continues(n, t) == via[n][t] \in {NoPeer, t} \/ via[via[n][t]][t] # NoPeer

\* While classes stay as configured, a chain of host routes never breaks
\* off: who aggregates a target has installed a route to it, whatever DAOs
\* were lost and in whatever order the others came.
PathsContinue == switches = 0 => \A n, t \in Node : Continues(n, t)

-----------------------------------------------------------------------------
(* Liveness.                                                               *)

\* A node that keeps its routes up to date: class S, or storing mode.
Maintains(n) == mop \in Storing \/ class[n] = "S"

\* Switches of class may leave a route whose next hop has none.  Once there
\* are no more of them, the DAOs that refresh the children close the gap at
\* every next hop that is of class S by then.
RoutesHeal ==
  <>[](\A n, t \in Node :
         via[n][t] # NoPeer /\ Maintains(via[n][t]) => Continues(n, t))

DaoDst(n) == DaoDestinations(parent[n], parentRank[n])

\* The root hears of n: by n's own DAO, or by that of a parent that
\* aggregates and whose targets fit in the root's array.
Announced(n) ==
  /\ parent[n] # NoPeer
  /\ \/ mop \in Storing
     \/ Root \in DaoDst(n)
     \/ /\ Root \in DaoDst(parent[n])
        /\ class[parent[n]] = "S"
        /\ Cardinality(Targets(parent[n])) <= MaxTargets

KnownToRoot(n) == IF mop \in Storing THEN via[Root][n] # NoPeer ELSE n \in tree

\* Whatever DAOs are lost and although nobody acts on a DAO-ACK, the root
\* ends up with a route to every node that is announced to it, after its own
\* restarts and everybody's switches too.
RootLearns ==
  \A n \in Node \ {Root} : <>[]Announced(n) => <>[]KnownToRoot(n)

-----------------------------------------------------------------------------
(* What the source's comments promise.                                     *)

\* README.md: "The switch is immediate, non-disruptive (100% PDR during
\* transition)": no route ever leads to a node that cannot go on.
SwitchKeepsPaths == \A n, t \in Node : Continues(n, t)

\* process.c: "always send DAO toward root so the root has full topology
\* visibility".
FullVisibility ==
  mop = Hybrid => <>[](\A n \in Node \ {Root} : KnownToRoot(n))

=============================================================================

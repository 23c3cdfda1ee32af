------------------------------- MODULE Dodag -------------------------------
(***************************************************************************)
(* The upward half of HyMRPL: a network of rpld daemons that form and      *)
(* repair one DODAG.  A daemon is one libev loop, so every handler is one  *)
(* atomic action:                                                          *)
(*                                                                         *)
(*   Trickle      trickle_cb / process_dis: multicast a DIO                *)
(*   ProcessDio   process_dio, with the default route it installs, the     *)
(*                DAOs it sends and the adaptive engine it notifies        *)
(*   ParentCheck  parent_check_cb: a silent parent is invalidated          *)
(*                                                                         *)
(* The environment ages parents, crashes and restarts daemons and cuts     *)
(* and heals radio links.  The DAO's content, and what its receivers do    *)
(* with it, is not part of this module: daoDst only records where the      *)
(* latest DAOs of a node went.                                             *)
(***************************************************************************)
EXTENDS Integers, FiniteSets

CONSTANTS
  Node,          \* the daemons, one interface and one DODAG each
  Root,          \* the node configured with dodag_root = true
  NoPeer,        \* dag->parent == NULL
  Link,          \* radio links, as sets of two nodes
  RankMax,       \* UINT16_MAX: the largest uint16_t, and the invalid rank
  Mop,           \* mode of operation, set by the root and copied from DIOs
  SilenceLimit,  \* trickle periods without a DIO before a parent is dead
  StabilityNMax, \* HYMRPL_STABILITY_NMAX
  MaxFaults      \* bound on the environment's faults

NoDio == -1      \* no DIO is waiting on a link
RootRank == 1    \* the rank every handler takes for "I am the root"

NonStoring == 1
Storing == {2, 3}
Hybrid == 6

ASSUME RootAssumption == Root \in Node /\ NoPeer \notin Node
ASSUME NodeAssumption == IsFiniteSet(Node)
ASSUME RankAssumption == RankMax \in Nat /\ Cardinality(Node) < RankMax
ASSUME LimitAssumption == SilenceLimit \in Nat \ {0} /\ MaxFaults \in Nat
ASSUME StabilityAssumption == StabilityNMax \in Nat
ASSUME LinkAssumption == Link \subseteq SUBSET Node
ASSUME MopAssumption == Mop \in 0..7

VARIABLES
  up,          \* the daemon is running
  dag,         \* the daemon holds a struct dag
  myRank,      \* dag->my_rank
  parent,      \* dag->parent->addr, or NoPeer
  parentRank,  \* dag->parent->rank
  route,       \* next hop of the kernel's default route
  daoDst,      \* where the latest batch of DAOs was sent
  silence,     \* whole trickle periods since dag->parent_last_seen
  changes,     \* adp->parent_change_count of the adaptive engine
  air,         \* air[m][n]: rank of the DIO from m that waits in n's socket
  cut,         \* links that are down
  faults       \* faults spent so far

daemonVars == <<dag, myRank, parent, parentRank, daoDst, silence, changes>>
vars == <<up, daemonVars, route, air, cut, faults>>

Rank == 0..RankMax

TypeOK ==
  /\ up \in [Node -> BOOLEAN]
  /\ dag \in [Node -> BOOLEAN]
  /\ myRank \in [Node -> Rank]
  /\ parent \in [Node -> Node \cup {NoPeer}]
  /\ parentRank \in [Node -> Rank]
  /\ route \in [Node -> Node \cup {NoPeer}]
  /\ daoDst \in [Node -> SUBSET Node]
  /\ silence \in [Node -> 0..SilenceLimit]
  /\ changes \in [Node -> 0..(StabilityNMax + 1)]
  /\ air \in [Node -> [Node -> NoDio..RankMax]]
  /\ cut \subseteq Link
  /\ faults \in 0..MaxFaults

Neighbours(n) == {m \in Node \ {n} : {n, m} \in Link \ cut}

RankUncut(r) == r + 1  \* mutant: a rank wider than uint16_t
RankOfParent(r) == r   \* mutant: the node takes its parent's rank

\* my_rank = rank + 1 is stored in a uint16_t.
RankAfter(r) == (r + 1) % (RankMax + 1)

\* hymrpl_adaptive_parent_changed: the number of recorded changes saturates
\* at the size of its timestamp array.
CountChange(k) == IF k < StabilityNMax + 1 THEN k + 1 ELSE k

\* The switch at the end of process_dio: p and r are dag->parent's address
\* and rank when it is reached, and the dodagid is the root's address.
DaoDestinations(p, r) ==
  CASE Mop \in Storing    -> {p}
    [] Mop = NonStoring   -> {Root}
    [] Mop = Hybrid       -> IF r > RootRank THEN {p, Root} ELSE {p}
    [] OTHER              -> {}

-----------------------------------------------------------------------------
(* Only the root has a dag before the first DIO: config_load creates it.   *)

Init ==
  /\ up = [n \in Node |-> TRUE]
  /\ dag = [n \in Node |-> (n = Root)]
  /\ myRank = [n \in Node |-> IF n = Root THEN RootRank ELSE RankMax]
  /\ parent = [n \in Node |-> NoPeer]
  /\ parentRank = [n \in Node |-> RankMax]
  /\ route = [n \in Node |-> NoPeer]
  /\ daoDst = [n \in Node |-> {}]
  /\ silence = [n \in Node |-> 0]
  /\ changes = [n \in Node |-> 0]
  /\ air = [m \in Node |-> [n \in Node |-> NoDio]]
  /\ cut = {}
  /\ faults = 0

\* m multicasts its rank, whatever that rank is; the neighbours in S get the
\* DIO, the others lose it.  A DIO still waiting from m is superseded.
Trickle(m, S) ==
  /\ up[m] /\ dag[m]
  /\ S \subseteq Neighbours(m)
  /\ air' = [air EXCEPT ![m] =
               [n \in Node |-> IF n \in S THEN myRank[m] ELSE @[n]]]
  /\ UNCHANGED <<up, daemonVars, route, cut, faults>>

\* n takes the DIO of m out of its socket.
Receive(n, m) ==
  /\ up[n]
  /\ air[m][n] # NoDio
  /\ air' = [air EXCEPT ![m][n] = NoDio]

NeverRoot(n) == FALSE  \* mutant: process_dio without its rank-1 return

\* Whoever has rank 1 believes it is the root, and drops every DIO.
ThinksItIsRoot(n) == dag[n] /\ myRank[n] = RootRank

IgnoreDio(n, m) ==
  /\ Receive(n, m)
  /\ ThinksItIsRoot(n)
  /\ UNCHANGED <<up, daemonVars, route, cut, faults>>

\* The dag is created, but there is no memory for its first peer: the node
\* stays without a parent and keeps the rank dag_create gave it.
NoMemoryForPeer(n, m) ==
  /\ Receive(n, m)
  /\ ~ThinksItIsRoot(n)
  /\ parent[n] = NoPeer
  /\ faults < MaxFaults
  /\ faults' = faults + 1
  /\ dag' = [dag EXCEPT ![n] = TRUE]
  /\ UNCHANGED <<up, myRank, parent, parentRank, daoDst, silence, changes,
                 route, cut>>

\* The parent n has once it has looked at who sent the DIO: the sender if it
\* had none (a new peer) or an invalidated one (adoption).
NextParent(n, m) ==
  IF parent[n] = NoPeer \/ parentRank[n] = RankMax THEN m ELSE parent[n]

Adopts(n, m) ==
  /\ parent[n] \notin {NoPeer, m}
  /\ parentRank[n] = RankMax

\* The part of process_dio that runs for every DIO: whoever is the parent
\* now is alive if it is the sender.
HearFrom(n, m) ==
  /\ dag' = [dag EXCEPT ![n] = TRUE]
  /\ parent' = [parent EXCEPT ![n] = NextParent(n, m)]
  /\ silence' = [silence EXCEPT ![n] = IF NextParent(n, m) = m THEN 0 ELSE @]
  /\ changes' = [changes EXCEPT ![n] =
                   IF Adopts(n, m) THEN CountChange(@) ELSE @]

\* mutant: the default route is installed only where there is none
TakeRankOldRoute(n, m, r) ==
  /\ route' = [route EXCEPT ![n] = IF @ = NoPeer THEN NextParent(n, m) ELSE @]
  /\ parentRank' = [parentRank EXCEPT ![n] = r]
  /\ myRank' = [myRank EXCEPT ![n] = RankAfter(r)]
  /\ daoDst' = [daoDst EXCEPT ![n] = DaoDestinations(NextParent(n, m), r)]

\* What process_dio does past its rank check.
TakeRank(n, m, r) ==
  /\ route' = [route EXCEPT ![n] = NextParent(n, m)]
  /\ parentRank' = [parentRank EXCEPT ![n] = r]
  /\ myRank' = [myRank EXCEPT ![n] = RankAfter(r)]
  /\ daoDst' = [daoDst EXCEPT ![n] = DaoDestinations(NextParent(n, m), r)]

\* mutant: no rank check
AcceptAnyRank(n, m) ==
  /\ Receive(n, m)
  /\ ~ThinksItIsRoot(n)
  /\ HearFrom(n, m)
  /\ TakeRank(n, m, air[m][n])
  /\ UNCHANGED <<up, cut, faults>>

\* mutant: a better rank counts only if the parent itself announces it
AcceptFromParent(n, m) ==
  /\ NextParent(n, m) = m
  /\ air[m][n] <= parentRank[n]
  /\ AcceptAnyRank(n, m)

\* A DIO whose rank is no worse than the parent's, from any neighbour, sets
\* the parent's rank, the node's own rank, the default route and sends DAOs.
AcceptDio(n, m) ==
  /\ Receive(n, m)
  /\ ~ThinksItIsRoot(n)
  /\ air[m][n] <= parentRank[n]
  /\ HearFrom(n, m)
  /\ TakeRank(n, m, air[m][n])
  /\ UNCHANGED <<up, cut, faults>>

\* A worse rank ends process_dio early, after the sender was looked at.
RefuseDio(n, m) ==
  /\ Receive(n, m)
  /\ ~ThinksItIsRoot(n)
  /\ air[m][n] > parentRank[n]
  /\ HearFrom(n, m)
  /\ UNCHANGED <<up, myRank, parentRank, route, daoDst, cut, faults>>

ProcessDio(n, m) ==
  \/ IgnoreDio(n, m)
  \/ NoMemoryForPeer(n, m)
  \/ AcceptDio(n, m)
  \/ RefuseDio(n, m)

\* mutant: the parent is invalidated, the node's own rank is not
ParentCheckKeepsRank(n) ==
  /\ up[n] /\ dag[n]
  /\ myRank[n] # RootRank
  /\ parent[n] # NoPeer
  /\ parentRank[n] # RankMax
  /\ silence[n] = SilenceLimit
  /\ parentRank' = [parentRank EXCEPT ![n] = RankMax]
  /\ changes' = [changes EXCEPT ![n] = CountChange(@)]
  /\ UNCHANGED <<up, dag, myRank, parent, daoDst, silence, route, air, cut,
                 faults>>

\* The liveness timer: early returns for a root, no parent, an invalid one
\* and one heard of recently.
ParentCheck(n) ==
  /\ up[n] /\ dag[n]
  /\ myRank[n] # RootRank
  /\ parent[n] # NoPeer
  /\ parentRank[n] # RankMax
  /\ silence[n] = SilenceLimit
  /\ parentRank' = [parentRank EXCEPT ![n] = RankMax]
  /\ myRank' = [myRank EXCEPT ![n] = RankMax]
  /\ changes' = [changes EXCEPT ![n] = CountChange(@)]
  /\ UNCHANGED <<up, dag, parent, daoDst, silence, route, air, cut, faults>>

-----------------------------------------------------------------------------
(* The environment.                                                        *)

Hearable(n, m) == up[m] /\ dag[m] /\ m \in Neighbours(n)

\* A trickle period passes without a DIO from n's parent.  That is a fault
\* only if the parent is there to be heard.
Age(n) ==
  /\ up[n] /\ parent[n] # NoPeer /\ silence[n] < SilenceLimit
  /\ silence' = [silence EXCEPT ![n] = @ + 1]
  /\ IF Hearable(n, parent[n])
       THEN faults < MaxFaults /\ faults' = faults + 1
       ELSE UNCHANGED faults
  /\ UNCHANGED <<up, dag, myRank, parent, parentRank, daoDst, changes,
                 route, air, cut>>

\* A daemon stops: its memory and its socket are gone, the kernel's routes
\* and the DIOs it has already sent are not.
Crash(n) ==
  /\ up[n]
  /\ faults < MaxFaults
  /\ faults' = faults + 1
  /\ up' = [up EXCEPT ![n] = FALSE]
  /\ dag' = [dag EXCEPT ![n] = FALSE]
  /\ myRank' = [myRank EXCEPT ![n] = RankMax]
  /\ parent' = [parent EXCEPT ![n] = NoPeer]
  /\ parentRank' = [parentRank EXCEPT ![n] = RankMax]
  /\ daoDst' = [daoDst EXCEPT ![n] = {}]
  /\ silence' = [silence EXCEPT ![n] = 0]
  /\ changes' = [changes EXCEPT ![n] = 0]
  /\ air' = [m \in Node |-> [air[m] EXCEPT ![n] = NoDio]]
  /\ UNCHANGED <<route, cut>>

\* main: a root reads its dag from the configuration, others start without.
Restart(n) ==
  /\ ~up[n]
  /\ up' = [up EXCEPT ![n] = TRUE]
  /\ dag' = [dag EXCEPT ![n] = (n = Root)]
  /\ myRank' = [myRank EXCEPT ![n] = IF n = Root THEN RootRank ELSE RankMax]
  /\ UNCHANGED <<parent, parentRank, daoDst, silence, changes, route, air,
                 cut, faults>>

CutLink(l) ==
  /\ l \in Link \ cut
  /\ faults < MaxFaults
  /\ faults' = faults + 1
  /\ cut' = cut \cup {l}
  /\ UNCHANGED <<up, daemonVars, route, air>>

HealLink(l) ==
  /\ l \in cut
  /\ cut' = cut \ {l}
  /\ UNCHANGED <<up, daemonVars, route, air, faults>>

Next ==
  \/ \E m \in Node : \E S \in SUBSET Node : Trickle(m, S)
  \/ \E n, m \in Node : ProcessDio(n, m)
  \/ \E n \in Node : ParentCheck(n) \/ Age(n) \/ Crash(n) \/ Restart(n)
  \/ \E l \in Link : CutLink(l) \/ HealLink(l)

Spec == Init /\ [][Next]_vars

\* What the event loops and the radio promise: every trickle timer keeps
\* firing and its DIOs get through again and again, waiting DIOs are read,
\* and the liveness timer keeps running.
Fairness ==
  /\ \A m, n \in Node :
       WF_vars(\E S \in SUBSET Node : n \in S /\ Trickle(m, S))
  /\ \A n, m \in Node : WF_vars(ProcessDio(n, m))
  /\ \A n \in Node : WF_vars(ParentCheck(n))
  /\ \A n \in Node : WF_vars(Age(n) /\ ~Hearable(n, parent[n]))

FairSpec == Spec /\ Fairness

-----------------------------------------------------------------------------
(* Safety.                                                                 *)

\* A node's rank is one more (in a uint16_t) than the rank it stored for its
\* parent, or both are invalid: no handler updates one without the other,
\* across joins, improvements, liveness timeouts and adoptions.
RankTracksParent ==
  \A n \in Node \ {Root} : dag[n] =>
    \/ myRank[n] = RankMax /\ parentRank[n] = RankMax
    \/ parent[n] # NoPeer /\ myRank[n] = RankAfter(parentRank[n])

\* The kernel's default route and the DAOs follow the parent: adopting a new
\* one never ends in process_dio's early return (rank worse than the
\* parent's) with the route and the DAOs still on the old one.
RouteFollowsParent ==
  \A n \in Node : parent[n] # NoPeer =>
    /\ route[n] = parent[n]
    /\ Mop \in Storing \cup {Hybrid} => parent[n] \in daoDst[n]

\* No non-empty set of nodes is closed under "my parent".
Acyclic ==
  \A S \in SUBSET Node : S # {} => \E n \in S : parent[n] \notin S

\* Loops are born of faults: as long as no daemon stopped, no link failed,
\* no memory ran out and no live parent was missed for a trickle period,
\* following parents from any node ends, at the root.
NoLoopWithoutFault == faults = 0 => Acyclic

\* A node that has a valid parent never worsens its rank while it keeps one,
\* and never replaces the parent by another: both need the liveness timer to
\* invalidate the parent first.  (What keeps ranks from counting up.)
KeepsParent(n) ==
  dag[n] /\ parent[n] # NoPeer /\ parentRank[n] # RankMax /\ dag'[n] =>
    /\ parent'[n] = parent[n]
    /\ myRank'[n] <= myRank[n] \/ parentRank'[n] = RankMax

StickyParent == [][\A n \in Node \ {Root} : KeepsParent(n)]_vars

-----------------------------------------------------------------------------
(* Liveness.                                                               *)

\* No neighbour offers a better rank than the one a node has.
RankOptimal ==
  \A n \in Node \ {Root} : \A m \in Neighbours(n) :
    dag[m] => dag[n] /\ myRank[n] <= myRank[m] + 1

\* Without faults every node joins and its rank settles at its distance from
\* the root, whatever the order in which DIOs arrive, wait and get lost.
Converges == (MaxFaults = 0) => <>[]RankOptimal

-----------------------------------------------------------------------------
(* What the source's comments promise.                                     *)

\* Every node is up and joined to the root by links that work.
Healthy ==
  /\ \A n \in Node : up[n]
  /\ \A S \in SUBSET Node : Root \in S /\ S # Node =>
       \E n \in S : \E m \in Node \ S : m \in Neighbours(n)

\* Nothing else goes wrong: no allocation failed and no rank has wrapped.
NoOtherFailure ==
  \A n \in Node \ {Root} : dag[n] => parent[n] # NoPeer /\ myRank[n] > RootRank

\* dag.h: the node invalidates a silent parent and "accepts the next DIO from
\* any neighbor - enabling reconvergence through alternative mesh paths".
Reconverges ==
  []NoOtherFailure /\ <>[]Healthy => <>[](Acyclic /\ \A n \in Node : dag[n])

=============================================================================

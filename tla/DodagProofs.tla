---------------------------- MODULE DodagProofs ----------------------------
(***************************************************************************)
(* Theorems about Dodag, for every finite network, every set of links and  *)
(* every sequence of faults.                                               *)
(***************************************************************************)
EXTENDS DodagTree, FiniteSetTheorems, TLAPS

LEMMA RankAfterRange == \A r \in Rank : RankAfter(r) \in Rank
  BY RankAssumption DEF Rank, RankAfter

\* The values process_dio can store for a parent's rank are a DIO's.
LEMMA WaitingRank ==
  ASSUME TypeOK, NEW n \in Node, NEW m \in Node, air[m][n] # NoDio
  PROVE  air[m][n] \in Rank
  BY DEF TypeOK, NoDio, Rank

LEMMA TakeRankType ==
  ASSUME TypeOK, NEW n \in Node, NEW m \in Node, NEW r \in Rank,
         TakeRank(n, m, r)
  PROVE  /\ route' \in [Node -> Node \cup {NoPeer}]
         /\ parentRank' \in [Node -> Rank]
         /\ myRank' \in [Node -> Rank]
         /\ daoDst' \in [Node -> SUBSET Node]
<1>1. NextParent(n, m) \in Node
  BY DEF TypeOK, NextParent
<1>2. DaoDestinations(NextParent(n, m), r) \in SUBSET Node
  BY <1>1, RootAssumption DEF DaoDestinations
<1>3. RankAfter(r) \in Rank
  BY RankAfterRange
<1> QED
  BY <1>1, <1>2, <1>3 DEF TypeOK, TakeRank

LEMMA HearFromType ==
  ASSUME TypeOK, NEW n \in Node, NEW m \in Node, HearFrom(n, m)
  PROVE  /\ dag' \in [Node -> BOOLEAN]
         /\ parent' \in [Node -> Node \cup {NoPeer}]
         /\ silence' \in [Node -> 0..SilenceLimit]
         /\ changes' \in [Node -> 0..(StabilityNMax + 1)]
<1>1. NextParent(n, m) \in Node
  BY DEF TypeOK, NextParent
<1>2. dag' \in [Node -> BOOLEAN]
  BY DEF TypeOK, HearFrom
<1>3. parent' \in [Node -> Node \cup {NoPeer}]
  BY <1>1 DEF TypeOK, HearFrom
<1>4. silence' \in [Node -> 0..SilenceLimit]
  BY LimitAssumption DEF TypeOK, HearFrom
<1>5. changes' \in [Node -> 0..(StabilityNMax + 1)]
  BY StabilityAssumption DEF TypeOK, HearFrom, CountChange
<1> QED
  BY <1>2, <1>3, <1>4, <1>5

LEMMA ReceiveType ==
  ASSUME TypeOK, NEW n \in Node, NEW m \in Node, Receive(n, m)
  PROVE  air' \in [Node -> [Node -> NoDio..RankMax]]
  BY RankAssumption DEF TypeOK, Receive, NoDio

LEMMA RankMaxType == RankMax \in Nat /\ RankMax > RootRank
<1>1. Cardinality(Node) \in Nat /\ Cardinality(Node) # 0
  BY RootAssumption, NodeAssumption, FS_CardinalityType, FS_EmptySet
<1> QED
  BY <1>1, RankAssumption DEF RootRank

LEMMA InitType == Init => TypeOK
<1> SUFFICES ASSUME Init PROVE TypeOK
  OBVIOUS
<1> USE RankMaxType DEF Init, Rank, RootRank
<1>1. /\ up \in [Node -> BOOLEAN]
      /\ dag \in [Node -> BOOLEAN]
  OBVIOUS
<1>2. /\ myRank \in [Node -> Rank]
      /\ parentRank \in [Node -> Rank]
  OBVIOUS
<1>3. /\ parent \in [Node -> Node \cup {NoPeer}]
      /\ route \in [Node -> Node \cup {NoPeer}]
      /\ daoDst \in [Node -> SUBSET Node]
  OBVIOUS
<1>4. /\ silence \in [Node -> 0..SilenceLimit]
      /\ changes \in [Node -> 0..(StabilityNMax + 1)]
      /\ faults \in 0..MaxFaults
  BY LimitAssumption, StabilityAssumption
<1>5. air \in [Node -> [Node -> NoDio..RankMax]]
  BY DEF NoDio
<1>6. cut \subseteq Link
  OBVIOUS
<1> QED
  BY <1>1, <1>2, <1>3, <1>4, <1>5, <1>6 DEF TypeOK

-----------------------------------------------------------------------------
LEMMA ProcessDioType ==
  ASSUME TypeOK, NEW n \in Node, NEW m \in Node, ProcessDio(n, m)
  PROVE  TypeOK'
<1>1. CASE IgnoreDio(n, m)
  BY <1>1, ReceiveType DEF TypeOK, IgnoreDio, daemonVars
<1>2. CASE NoMemoryForPeer(n, m)
  <2>1. Receive(n, m) /\ dag' \in [Node -> BOOLEAN] /\ faults' \in 0..MaxFaults
    BY <1>2, LimitAssumption DEF TypeOK, NoMemoryForPeer
  <2> QED
    BY <1>2, <2>1, ReceiveType DEF TypeOK, NoMemoryForPeer
<1>3. CASE AcceptDio(n, m)
  <2>1. /\ Receive(n, m) /\ HearFrom(n, m) /\ TakeRank(n, m, air[m][n])
        /\ UNCHANGED <<up, cut, faults>>
    BY <1>3 DEF AcceptDio
  <2>2. air[m][n] \in Rank
    BY <2>1, WaitingRank DEF Receive
  <2> QED
    BY <2>1, <2>2, ReceiveType, HearFromType, TakeRankType DEF TypeOK
<1>4. CASE RefuseDio(n, m)
  <2>1. /\ Receive(n, m) /\ HearFrom(n, m)
        /\ UNCHANGED <<up, myRank, parentRank, route, daoDst, cut, faults>>
    BY <1>4 DEF RefuseDio
  <2> QED
    BY <2>1, ReceiveType, HearFromType DEF TypeOK
<1> QED
  BY <1>1, <1>2, <1>3, <1>4 DEF ProcessDio

LEMMA EnvironmentType ==
  ASSUME TypeOK, NEW n \in Node, ParentCheck(n) \/ Age(n) \/ Crash(n) \/ Restart(n)
  PROVE  TypeOK'
<1> USE RankMaxType DEF Rank
<1>1. CASE ParentCheck(n)
  BY <1>1, StabilityAssumption DEF TypeOK, ParentCheck, CountChange
<1>2. CASE Age(n)
  BY <1>2, LimitAssumption DEF TypeOK, Age
<1>3. CASE Crash(n)
  <2>1. air' \in [Node -> [Node -> NoDio..RankMax]]
    BY <1>3 DEF TypeOK, Crash, NoDio
  <2>2. /\ silence' \in [Node -> 0..SilenceLimit]
        /\ changes' \in [Node -> 0..(StabilityNMax + 1)]
        /\ faults' \in 0..MaxFaults
    BY <1>3, LimitAssumption, StabilityAssumption DEF TypeOK, Crash
  <2> QED
    BY <1>3, <2>1, <2>2 DEF TypeOK, Crash
<1>4. CASE Restart(n)
  BY <1>4 DEF TypeOK, Restart, RootRank
<1> QED
  BY <1>1, <1>2, <1>3, <1>4

LEMMA NextType == TypeOK /\ [Next]_vars => TypeOK'
<1> SUFFICES ASSUME TypeOK, [Next]_vars PROVE TypeOK'
  OBVIOUS
<1>1. ASSUME NEW m \in Node, NEW S \in SUBSET Node, Trickle(m, S)
      PROVE  TypeOK'
  <2>1. air' \in [Node -> [Node -> NoDio..RankMax]]
    BY <1>1, RankMaxType DEF TypeOK, Trickle, Rank, NoDio
  <2> QED
    BY <1>1, <2>1 DEF TypeOK, Trickle, daemonVars
<1>2. ASSUME NEW n \in Node, NEW m \in Node, ProcessDio(n, m)
      PROVE  TypeOK'
  BY <1>2, ProcessDioType
<1>3. ASSUME NEW n \in Node, ParentCheck(n) \/ Age(n) \/ Crash(n) \/ Restart(n)
      PROVE  TypeOK'
  BY <1>3, EnvironmentType
<1>4. ASSUME NEW l \in Link, CutLink(l) \/ HealLink(l)
      PROVE  TypeOK'
  BY <1>4, LimitAssumption DEF TypeOK, CutLink, HealLink, daemonVars
<1>5. CASE UNCHANGED vars
  BY <1>5 DEF TypeOK, vars, daemonVars
<1> QED
  BY <1>1, <1>2, <1>3, <1>4, <1>5 DEF Next

\* Every variable of the daemons keeps its type: ranks stay in a uint16_t,
\* change counters in their array, waiting DIOs in their slots.
THEOREM Typing == Spec => []TypeOK
  BY InitType, NextType, PTL DEF Spec

-----------------------------------------------------------------------------
(***************************************************************************)
(* Under any faults, what a daemon holds about its parent is consistent.   *)
(* The two safety invariants need three more facts: a daemon that is down  *)
(* has no dag, one without a dag has no parent, and one without a parent   *)
(* has only invalid ranks (so that taking a first parent is always         *)
(* accepted and never stops at the rank check).                            *)
(***************************************************************************)
DaemonInv(n) ==
  /\ ~up[n] => ~dag[n]
  /\ ~dag[n] => parent[n] = NoPeer
  /\ parent[n] = NoPeer =>
       parentRank[n] = RankMax /\ (n # Root => myRank[n] = RankMax)
  /\ n # Root /\ dag[n] =>
       \/ myRank[n] = RankMax /\ parentRank[n] = RankMax
       \/ parent[n] # NoPeer /\ myRank[n] = RankAfter(parentRank[n])
  /\ parent[n] # NoPeer =>
       /\ route[n] = parent[n]
       /\ Mop \in Storing \cup {Hybrid} => parent[n] \in daoDst[n]

Local(n) == <<up[n], dag[n], parent[n], parentRank[n], myRank[n], route[n],
              daoDst[n]>>

LEMMA LocalFrame ==
  ASSUME NEW n \in Node, DaemonInv(n), Local(n)' = Local(n)
  PROVE  DaemonInv(n)'
  BY DEF DaemonInv, Local

LEMMA InitDaemon == Init => \A n \in Node : DaemonInv(n)
  BY RootAssumption DEF Init, DaemonInv

LEMMA AcceptDaemon ==
  ASSUME TypeOK, NEW n \in Node, NEW m \in Node, DaemonInv(n), AcceptDio(n, m)
  PROVE  DaemonInv(n)'
<1> DEFINE p == NextParent(n, m)
           r == air[m][n]
<1>1. /\ up'[n] = up[n] /\ up[n]
      /\ dag'[n] = TRUE
      /\ parent'[n] = p
      /\ parentRank'[n] = r
      /\ myRank'[n] = RankAfter(r)
      /\ route'[n] = p
      /\ daoDst'[n] = DaoDestinations(p, r)
  BY DEF TypeOK, AcceptDio, Receive, HearFrom, TakeRank
<1>2. p \in Node /\ p # NoPeer
  BY RootAssumption DEF TypeOK, NextParent
<1>3. Mop \in Storing \cup {Hybrid} => p \in DaoDestinations(p, r)
  BY DEF DaoDestinations, Storing, Hybrid, NonStoring
<1> HIDE DEF p, r
<1>4. RankAfter(parentRank[n])' = RankAfter(r)
  BY <1>1 DEF RankAfter
<1> QED
  BY <1>1, <1>2, <1>3, <1>4 DEF DaemonInv

LEMMA RefuseDaemon ==
  ASSUME TypeOK, NEW n \in Node, NEW m \in Node, DaemonInv(n), RefuseDio(n, m)
  PROVE  DaemonInv(n)'
<1>1. air[m][n] \in Rank /\ parentRank[n] \in Rank
  BY WaitingRank DEF RefuseDio, Receive, TypeOK
<1>2. parentRank[n] # RankMax
  BY <1>1, RankMaxType DEF RefuseDio, Rank
<1>3. parent[n] # NoPeer /\ dag[n]
  BY <1>2 DEF DaemonInv, TypeOK
<1>4. NextParent(n, m) = parent[n]
  BY <1>2, <1>3 DEF NextParent
<1>5. Local(n)' = Local(n)
  BY <1>3, <1>4 DEF RefuseDio, HearFrom, Local, TypeOK
<1> QED
  BY <1>5, LocalFrame

LEMMA NextDaemon ==
  TypeOK /\ (\A k \in Node : DaemonInv(k)) /\ [Next]_vars
    => (\A k \in Node : DaemonInv(k))'
<1> SUFFICES ASSUME TypeOK, \A k \in Node : DaemonInv(k), [Next]_vars,
                    NEW k \in Node
             PROVE  DaemonInv(k)'
  OBVIOUS
<1>0. DaemonInv(k)
  OBVIOUS
<1>1. ASSUME NEW m \in Node, NEW S \in SUBSET Node, Trickle(m, S)
      PROVE  DaemonInv(k)'
  BY <1>0, <1>1, LocalFrame DEF Trickle, Local, daemonVars
<1>2. ASSUME NEW n \in Node, NEW m \in Node, ProcessDio(n, m)
      PROVE  DaemonInv(k)'
  <2>1. CASE k # n
    <3>1. Local(k)' = Local(k)
      BY <1>2, <2>1 DEF ProcessDio, IgnoreDio, NoMemoryForPeer, AcceptDio,
         RefuseDio, HearFrom, TakeRank, Local, daemonVars, TypeOK
    <3> QED
      BY <1>0, <3>1, LocalFrame
  <2>2. CASE k = n /\ IgnoreDio(n, m)
    BY <1>0, <2>2, LocalFrame DEF IgnoreDio, Local, daemonVars
  <2>3. CASE k = n /\ NoMemoryForPeer(n, m)
    BY <1>0, <2>3 DEF NoMemoryForPeer, Receive, DaemonInv, TypeOK,
       ThinksItIsRoot
  <2>4. CASE k = n /\ AcceptDio(n, m)
    BY <1>0, <2>4, AcceptDaemon
  <2>5. CASE k = n /\ RefuseDio(n, m)
    BY <1>0, <2>5, RefuseDaemon
  <2> QED
    BY <1>2, <2>1, <2>2, <2>3, <2>4, <2>5 DEF ProcessDio
<1>3. ASSUME NEW n \in Node, ParentCheck(n)
      PROVE  DaemonInv(k)'
  <2>1. CASE k # n
    BY <1>0, <1>3, <2>1, LocalFrame DEF ParentCheck, Local, TypeOK
  <2>2. CASE k = n
    BY <1>0, <1>3, <2>2 DEF ParentCheck, DaemonInv, TypeOK
  <2> QED
    BY <2>1, <2>2
<1>4. ASSUME NEW n \in Node, Age(n)
      PROVE  DaemonInv(k)'
  BY <1>0, <1>4, LocalFrame DEF Age, Local
<1>5. ASSUME NEW n \in Node, Crash(n)
      PROVE  DaemonInv(k)'
  <2>1. CASE k # n
    BY <1>0, <1>5, <2>1, LocalFrame DEF Crash, Local, TypeOK
  <2>2. CASE k = n
    BY <1>0, <1>5, <2>2 DEF Crash, DaemonInv, TypeOK
  <2> QED
    BY <2>1, <2>2
<1>6. ASSUME NEW n \in Node, Restart(n)
      PROVE  DaemonInv(k)'
  <2>1. CASE k # n
    BY <1>0, <1>6, <2>1, LocalFrame DEF Restart, Local, TypeOK
  <2>2. CASE k = n
    BY <1>0, <1>6, <2>2 DEF Restart, DaemonInv, TypeOK
  <2> QED
    BY <2>1, <2>2
<1>7. ASSUME NEW l \in Link, CutLink(l) \/ HealLink(l)
      PROVE  DaemonInv(k)'
  BY <1>0, <1>7, LocalFrame DEF CutLink, HealLink, Local, daemonVars
<1>8. CASE UNCHANGED vars
  BY <1>0, <1>8, LocalFrame DEF Local, vars, daemonVars
<1> QED
  BY <1>1, <1>2, <1>3, <1>4, <1>5, <1>6, <1>7, <1>8 DEF Next

LEMMA DaemonInvariant == Spec => [](TypeOK /\ \A n \in Node : DaemonInv(n))
<1>1. Init => TypeOK /\ \A n \in Node : DaemonInv(n)
  BY InitType, InitDaemon
<1>2. TypeOK /\ (\A n \in Node : DaemonInv(n)) /\ [Next]_vars
        => (TypeOK /\ \A n \in Node : DaemonInv(n))'
  BY NextType, NextDaemon
<1> QED
  BY <1>1, <1>2, PTL DEF Spec

\* In every network and under any faults, no handler of rpld leaves my_rank
\* out of step with the rank stored for the parent.
THEOREM RanksTrack == Spec => []RankTracksParent
<1>1. (\A n \in Node : DaemonInv(n)) => RankTracksParent
  BY DEF DaemonInv, RankTracksParent
<1> QED
  BY <1>1, DaemonInvariant, PTL

\* In every network and under any faults, process_dio never takes or adopts
\* a parent without moving the default route and the DAOs to it.
THEOREM RoutesFollow == Spec => []RouteFollowsParent
<1>1. (\A n \in Node : DaemonInv(n)) => RouteFollowsParent
  BY DEF DaemonInv, RouteFollowsParent
<1> QED
  BY <1>1, DaemonInvariant, PTL

-----------------------------------------------------------------------------
(***************************************************************************)
(* Without faults.  A node joins below a member, so parents lead to the    *)
(* root; what could break that is an adoption, which needs an invalid rank *)
(* stored for the parent.  Ranks stay valid because they are bounded by    *)
(* the number of members: joining adds one to both.                        *)
(***************************************************************************)
Member == {n \in Node : dag[n]}

TreeInv ==
  /\ cut = {}
  /\ \A n \in Node : up[n] /\ silence[n] = 0
  /\ dag[Root] /\ parent[Root] = NoPeer /\ myRank[Root] = RootRank
  /\ \A n \in Node \ {Root} : dag[n] =>
       /\ parent[n] \in Member /\ parent[n] # n /\ {n, parent[n]} \in Link
       /\ RootRank <= parentRank[n] /\ parentRank[n] < RankMax
       /\ myRank[n] = parentRank[n] + 1
  /\ \A n \in Node : ~dag[n] => parent[n] = NoPeer /\ parentRank[n] = RankMax
  /\ \A n \in Member : RootRank <= myRank[n] /\ myRank[n] <= Cardinality(Member)
  /\ \A m, n \in Node : air[m][n] # NoDio =>
       /\ m \in Member /\ m # n /\ {n, m} \in Link
       /\ myRank[m] <= air[m][n] /\ air[m][n] <= Cardinality(Member)
  /\ Acyclic

LEMMA MemberCard ==
  ASSUME TypeOK
  PROVE  /\ IsFiniteSet(Member)
         /\ Cardinality(Member) \in Nat /\ Cardinality(Node) \in Nat
         /\ Cardinality(Member) <= Cardinality(Node)
         /\ Cardinality(Member) < RankMax
<1>1. Member \in SUBSET Node
  BY DEF Member
<1>2. IsFiniteSet(Member) /\ Cardinality(Member) <= Cardinality(Node)
  BY <1>1, NodeAssumption, FS_Subset
<1>3. Cardinality(Member) \in Nat /\ Cardinality(Node) \in Nat
  BY <1>2, NodeAssumption, FS_CardinalityType
<1> QED
  BY <1>2, <1>3, RankAssumption

\* What Acyclic, and the counting of members, need when n joins below m.
LEMMA JoinAcyclic ==
  ASSUME TypeOK, Acyclic, NEW n \in Node, NEW m \in Node, m # n,
         \A k \in Node : parent[k] # n,
         parent' = [parent EXCEPT ![n] = m]
  PROVE  Acyclic'
<1> SUFFICES ASSUME NEW S \in SUBSET Node, S # {}
             PROVE  \E k \in S : parent'[k] \notin S
  BY DEF Acyclic
<1>1. CASE n \notin S
  <2>1. PICK k \in S : parent[k] \notin S
    BY DEF Acyclic
  <2> QED
    BY <1>1, <2>1 DEF TypeOK
<1>2. CASE S = {n}
  BY <1>2 DEF TypeOK
<1>3. CASE n \in S /\ S # {n}
  <2>1. S \ {n} \in SUBSET Node /\ S \ {n} # {}
    BY <1>3
  <2>2. PICK k \in S \ {n} : parent[k] \notin S \ {n}
    BY <2>1 DEF Acyclic
  <2> QED
    BY <2>2 DEF TypeOK
<1> QED
  BY <1>1, <1>2, <1>3

LEMMA InitTree == Init => TreeInv
<1> SUFFICES ASSUME Init PROVE TreeInv
  OBVIOUS
<1>1. Member = {Root}
  BY RootAssumption DEF Init, Member
<1>2. Cardinality(Member) = 1
  BY <1>1, FS_Singleton
<1>3. Acyclic
  <2> SUFFICES ASSUME NEW S \in SUBSET Node, S # {}
               PROVE  \E k \in S : parent[k] \notin S
    BY DEF Acyclic
  <2>1. PICK k \in S : TRUE
    OBVIOUS
  <2> QED
    BY <2>1, RootAssumption DEF Init
<1>4. /\ cut = {}
      /\ \A n \in Node : up[n] /\ silence[n] = 0
      /\ dag[Root] /\ parent[Root] = NoPeer /\ myRank[Root] = RootRank
  BY RootAssumption DEF Init
<1>5. \A n \in Node \ {Root} : ~dag[n]
  BY DEF Init
<1>6. \A n \in Node : parent[n] = NoPeer /\ parentRank[n] = RankMax
  BY DEF Init
<1>7. \A n \in Member : RootRank <= myRank[n] /\ myRank[n] <= Cardinality(Member)
  BY <1>1, <1>2, <1>4 DEF RootRank
<1>8. \A m, n \in Node : air[m][n] = NoDio
  BY DEF Init
<1> QED
  BY <1>3, <1>4, <1>5, <1>6, <1>7, <1>8 DEF TreeInv

\* The four kinds of steps there are while no fault is spent.
LEMMA FaultFreeSteps ==
  ASSUME TypeOK, TreeInv, faults = 0, faults' = 0, Next
  PROVE  \/ \E m \in Node : \E S \in SUBSET Node : Trickle(m, S)
         \/ \E n, m \in Node :
              IgnoreDio(n, m) \/ AcceptDio(n, m) \/ RefuseDio(n, m)
<1>1. ASSUME NEW n \in Node, NEW m \in Node, NoMemoryForPeer(n, m)
      PROVE  FALSE
  BY <1>1 DEF NoMemoryForPeer
<1>2. ASSUME NEW n \in Node, ParentCheck(n)
      PROVE  FALSE
  BY <1>2, LimitAssumption DEF ParentCheck, TreeInv
<1>3. ASSUME NEW n \in Node, Age(n)
      PROVE  FALSE
  <2>1. n # Root /\ dag[n] /\ parent[n] \in Member /\ parent[n] # n
        /\ {n, parent[n]} \in Link
    BY <1>3 DEF Age, TreeInv
  <2>2. Hearable(n, parent[n])
    BY <2>1 DEF Hearable, Neighbours, TreeInv, Member
  <2> QED
    BY <1>3, <2>2 DEF Age
<1>4. ASSUME NEW n \in Node, Crash(n) \/ Restart(n)
      PROVE  FALSE
  BY <1>4 DEF Crash, Restart, TreeInv
<1>5. ASSUME NEW l \in Link, CutLink(l) \/ HealLink(l)
      PROVE  FALSE
  BY <1>5 DEF CutLink, HealLink, TreeInv
<1> QED
  BY <1>1, <1>2, <1>3, <1>4, <1>5 DEF Next, ProcessDio

\* An accepted DIO lets a new node join below its sender, or gives a member a
\* rank no worse than it had; then the sender's own rank is no larger.
LEMMA AcceptTree ==
  ASSUME TypeOK, TreeInv, NEW n \in Node, NEW m \in Node, AcceptDio(n, m)
  PROVE  /\ n # Root /\ m \in Member /\ m # n /\ {n, m} \in Link
         /\ air[m][n] \in Nat
         /\ myRank[m] <= air[m][n] /\ air[m][n] <= Cardinality(Member)
         /\ air[m][n] < RankMax
         /\ myRank' = [myRank EXCEPT ![n] = air[m][n] + 1]
         /\ parentRank' = [parentRank EXCEPT ![n] = air[m][n]]
         /\ dag' = [dag EXCEPT ![n] = TRUE]
         /\ Member' = Member \cup {n}
         /\ \/ n \notin Member /\ parent' = [parent EXCEPT ![n] = m]
            \/ n \in Member /\ parent' = parent /\ air[m][n] + 1 <= myRank[n]
<1>1. air[m][n] # NoDio /\ air[m][n] \in Rank
  BY WaitingRank DEF AcceptDio, Receive
<1>2. n # Root
  BY DEF AcceptDio, ThinksItIsRoot, TreeInv
<1>3. /\ m \in Member /\ m # n /\ {n, m} \in Link
      /\ myRank[m] <= air[m][n] /\ air[m][n] <= Cardinality(Member)
  BY <1>1 DEF TreeInv
<1>4. air[m][n] \in Nat /\ air[m][n] < RankMax
  BY <1>1, <1>3, MemberCard, RankMaxType DEF Rank
<1>5. RankAfter(air[m][n]) = air[m][n] + 1
  BY <1>4, RankMaxType DEF RankAfter
<1>6. /\ myRank' = [myRank EXCEPT ![n] = air[m][n] + 1]
      /\ parentRank' = [parentRank EXCEPT ![n] = air[m][n]]
      /\ dag' = [dag EXCEPT ![n] = TRUE]
      /\ parent' = [parent EXCEPT ![n] = NextParent(n, m)]
  BY <1>5 DEF AcceptDio, TakeRank, HearFrom
<1>7. Member' = Member \cup {n}
  BY <1>6 DEF Member, TypeOK
<1>8. CASE n \notin Member
  <2>1. NextParent(n, m) = m
    BY <1>8 DEF TreeInv, Member, NextParent
  <2> QED
    BY <1>2, <1>3, <1>4, <1>6, <1>7, <1>8, <2>1
<1>9. CASE n \in Member
  <2>1. /\ parent[n] # NoPeer /\ parentRank[n] # RankMax
        /\ myRank[n] = parentRank[n] + 1
    <3>1. /\ parent[n] \in Member /\ parentRank[n] < RankMax
          /\ myRank[n] = parentRank[n] + 1
      BY <1>2, <1>9 DEF TreeInv, Member
    <3>2. parentRank[n] \in Nat
      BY RankMaxType DEF TypeOK, Rank
    <3> QED
      BY <3>1, <3>2, RootAssumption, RankMaxType DEF Member
  <2>2. NextParent(n, m) = parent[n]
    BY <2>1 DEF NextParent
  <2>3. parent' = parent
    BY <1>6, <2>2 DEF TypeOK
  <2>4. air[m][n] <= parentRank[n] /\ parentRank[n] \in Nat
    BY RankMaxType DEF AcceptDio, TypeOK, Rank
  <2>5. air[m][n] + 1 <= myRank[n]
    BY <2>1, <1>4, <2>4
  <2> QED
    BY <1>2, <1>3, <1>4, <1>6, <1>7, <1>9, <2>3, <2>5
<1> QED
  BY <1>8, <1>9

\* A refused one changes nothing but the slot it waited in.
LEMMA RefuseTree ==
  ASSUME TypeOK, TreeInv, NEW n \in Node, NEW m \in Node, RefuseDio(n, m)
  PROVE  UNCHANGED <<up, dag, myRank, parent, parentRank, silence, cut>>
<1>1. air[m][n] \in Rank /\ parentRank[n] \in Rank
  BY WaitingRank DEF RefuseDio, Receive, TypeOK
<1>2. parentRank[n] # RankMax
  BY <1>1, RankMaxType DEF RefuseDio, Rank
<1>3. n # Root /\ dag[n] /\ parent[n] # NoPeer
  BY <1>2, RootAssumption DEF RefuseDio, ThinksItIsRoot, TreeInv, Member
<1>4. NextParent(n, m) = parent[n]
  BY <1>2, <1>3 DEF NextParent
<1>5. silence' = silence
  BY <1>4 DEF RefuseDio, HearFrom, TypeOK, TreeInv
<1> QED
  BY <1>3, <1>4, <1>5 DEF RefuseDio, HearFrom, TypeOK

\* TreeInv speaks of a waiting DIO only to bound its rank.
LEMMA AirFrame ==
  ASSUME TypeOK, TreeInv,
         UNCHANGED <<up, dag, myRank, parent, parentRank, silence, cut>>,
         \A k, j \in Node : air'[k][j] \in {air[k][j], NoDio} \/
            (air'[k][j] = myRank[k] /\ k \in Member /\ k # j /\ {j, k} \in Link)
  PROVE  TreeInv'
<1>1. Member' = Member
  BY DEF Member
<1>2. Acyclic'
  BY DEF TreeInv, Acyclic
<1>3. \A k, j \in Node : air'[k][j] # NoDio =>
       /\ k \in Member /\ k # j /\ {j, k} \in Link
       /\ myRank[k] <= air'[k][j] /\ air'[k][j] <= Cardinality(Member)
  <2> SUFFICES ASSUME NEW k \in Node, NEW j \in Node, air'[k][j] # NoDio
               PROVE  /\ k \in Member /\ k # j /\ {j, k} \in Link
                      /\ myRank[k] <= air'[k][j]
                      /\ air'[k][j] <= Cardinality(Member)
    OBVIOUS
  <2>1. CASE air'[k][j] = air[k][j]
    BY <2>1 DEF TreeInv
  <2>2. CASE air'[k][j] = myRank[k] /\ k \in Member /\ k # j /\ {j, k} \in Link
    <3>1. myRank[k] \in Nat
      BY RankMaxType DEF TypeOK, Rank
    <3>2. myRank[k] <= Cardinality(Member)
      BY <2>2 DEF TreeInv
    <3> QED
      BY <2>2, <3>1, <3>2
  <2> QED
    BY <2>1, <2>2
<1>4. /\ cut' = {}
      /\ \A k \in Node : up'[k] /\ silence'[k] = 0
      /\ dag'[Root] /\ parent'[Root] = NoPeer /\ myRank'[Root] = RootRank
  BY DEF TreeInv
<1>5. \A k \in Node \ {Root} : dag'[k] =>
       /\ parent'[k] \in Member' /\ parent'[k] # k /\ {k, parent'[k]} \in Link
       /\ RootRank <= parentRank'[k] /\ parentRank'[k] < RankMax
       /\ myRank'[k] = parentRank'[k] + 1
  BY <1>1 DEF TreeInv
<1>6. \A k \in Node : ~dag'[k] => parent'[k] = NoPeer /\ parentRank'[k] = RankMax
  BY DEF TreeInv
<1>7. \A k \in Member' :
        RootRank <= myRank'[k] /\ myRank'[k] <= Cardinality(Member')
  BY <1>1 DEF TreeInv
<1>8. \A k, j \in Node : air'[k][j] # NoDio =>
       /\ k \in Member' /\ k # j /\ {j, k} \in Link
       /\ myRank'[k] <= air'[k][j] /\ air'[k][j] <= Cardinality(Member')
  BY <1>1, <1>3
<1> QED
  BY <1>2, <1>4, <1>5, <1>6, <1>7, <1>8 DEF TreeInv

LEMMA AcceptKeepsTree ==
  ASSUME TypeOK, TreeInv, NEW n \in Node, NEW m \in Node, AcceptDio(n, m)
  PROVE  TreeInv'
<1> DEFINE r == air[m][n]
           C == Cardinality(Member)
<1>1. /\ n # Root /\ m \in Member /\ m # n /\ {n, m} \in Link
      /\ r \in Nat /\ myRank[m] <= r /\ r <= C /\ r < RankMax
      /\ myRank' = [myRank EXCEPT ![n] = r + 1]
      /\ parentRank' = [parentRank EXCEPT ![n] = r]
      /\ dag' = [dag EXCEPT ![n] = TRUE]
      /\ Member' = Member \cup {n}
      /\ \/ n \notin Member /\ parent' = [parent EXCEPT ![n] = m]
         \/ n \in Member /\ parent' = parent /\ r + 1 <= myRank[n]
  BY AcceptTree
<1>2. /\ air' = [air EXCEPT ![m][n] = NoDio]
      /\ UNCHANGED <<up, cut>>
      /\ silence' = [silence EXCEPT ![n] = IF NextParent(n, m) = m THEN 0 ELSE @]
  BY DEF AcceptDio, Receive, HearFrom
<1> HIDE DEF r
<1>3. RootRank <= myRank[m] /\ RootRank <= r
  <2>1. RootRank <= myRank[m]
    BY <1>1 DEF TreeInv
  <2>2. myRank[m] \in Nat
    BY RankMaxType DEF TypeOK, Rank
  <2> QED
    BY <1>1, <2>1, <2>2 DEF RootRank
<1>4. /\ C \in Nat /\ C <= Cardinality(Member') /\ Cardinality(Member') \in Nat
      /\ r + 1 <= Cardinality(Member')
  <2>1. IsFiniteSet(Member) /\ C \in Nat
    BY MemberCard
  <2>2. Cardinality(Member \cup {n}) = IF n \in Member THEN C ELSE C + 1
    BY <2>1, FS_AddElement
  <2>3. CASE n \in Member
    <3>1. myRank[n] <= C /\ myRank[n] \in Nat
      BY <2>3, RankMaxType DEF TreeInv, TypeOK, Rank
    <3>2. r + 1 <= myRank[n]
      BY <1>1, <2>3
    <3> HIDE DEF C
    <3> QED
      BY <1>1, <2>1, <2>2, <2>3, <3>1, <3>2
  <2>4. CASE n \notin Member
    <3> HIDE DEF C
    <3> QED
      BY <1>1, <2>1, <2>2, <2>4
  <2> QED
    BY <2>3, <2>4
<1>5. \A k \in Node : myRank[k] \in Nat /\ (k \in Member => myRank[k] <= C)
  BY RankMaxType DEF TreeInv, TypeOK, Rank
<1> HIDE DEF C
<1>6. /\ cut' = {}
      /\ \A k \in Node : up'[k] /\ silence'[k] = 0
      /\ dag'[Root] /\ parent'[Root] = NoPeer /\ myRank'[Root] = RootRank
  BY <1>1, <1>2, RootAssumption DEF TreeInv, TypeOK
<1>7. \A k \in Node \ {Root} : dag'[k] =>
       /\ parent'[k] \in Member' /\ parent'[k] # k /\ {k, parent'[k]} \in Link
       /\ RootRank <= parentRank'[k] /\ parentRank'[k] < RankMax
       /\ myRank'[k] = parentRank'[k] + 1
  <2> SUFFICES ASSUME NEW k \in Node \ {Root}, dag'[k]
               PROVE  /\ parent'[k] \in Member' /\ parent'[k] # k
                      /\ {k, parent'[k]} \in Link
                      /\ RootRank <= parentRank'[k] /\ parentRank'[k] < RankMax
                      /\ myRank'[k] = parentRank'[k] + 1
    OBVIOUS
  <2>1. CASE k # n
    <3>1. /\ parent'[k] = parent[k] /\ parentRank'[k] = parentRank[k]
          /\ myRank'[k] = myRank[k] /\ dag[k]
      BY <1>1, <2>1 DEF TypeOK
    <3>2. /\ parent[k] \in Member /\ parent[k] # k /\ {k, parent[k]} \in Link
          /\ RootRank <= parentRank[k] /\ parentRank[k] < RankMax
          /\ myRank[k] = parentRank[k] + 1
      BY <3>1 DEF TreeInv
    <3> QED
      BY <1>1, <3>1, <3>2
  <2>2. CASE k = n
    <3>1. parentRank'[k] = r /\ myRank'[k] = r + 1
      BY <1>1, <2>2 DEF TypeOK
    <3>2. parent'[k] \in Member' /\ parent'[k] # k /\ {k, parent'[k]} \in Link
      <4>1. CASE n \notin Member /\ parent' = [parent EXCEPT ![n] = m]
        <5>1. parent'[k] = m
          BY <2>2, <4>1 DEF TypeOK
        <5> QED
          BY <1>1, <2>2, <5>1
      <4>2. CASE n \in Member /\ parent' = parent
        <5>1. parent[k] \in Member /\ parent[k] # k /\ {k, parent[k]} \in Link
          BY <2>2, <4>2 DEF TreeInv, Member
        <5> QED
          BY <1>1, <4>2, <5>1
      <4> QED
        BY <1>1, <4>1, <4>2
    <3> QED
      BY <1>1, <1>3, <3>1, <3>2
  <2> QED
    BY <2>1, <2>2
<1>8. \A k \in Node : ~dag'[k] => parent'[k] = NoPeer /\ parentRank'[k] = RankMax
  BY <1>1 DEF TreeInv, TypeOK
<1>9. \A k \in Member' :
        RootRank <= myRank'[k] /\ myRank'[k] <= Cardinality(Member')
  <2> SUFFICES ASSUME NEW k \in Member'
               PROVE  RootRank <= myRank'[k] /\ myRank'[k] <= Cardinality(Member')
    OBVIOUS
  <2>1. CASE k = n
    <3>1. myRank'[k] = r + 1
      BY <1>1, <2>1 DEF TypeOK
    <3> QED
      BY <1>1, <1>4, <3>1 DEF RootRank
  <2>2. CASE k # n
    <3>1. k \in Member /\ k \in Node /\ myRank'[k] = myRank[k]
      BY <1>1, <2>2 DEF Member, TypeOK
    <3>2. RootRank <= myRank[k]
      BY <3>1 DEF TreeInv
    <3> QED
      BY <1>4, <1>5, <3>1, <3>2
  <2> QED
    BY <2>1, <2>2
<1>10. \A k, j \in Node : air'[k][j] # NoDio =>
       /\ k \in Member' /\ k # j /\ {j, k} \in Link
       /\ myRank'[k] <= air'[k][j] /\ air'[k][j] <= Cardinality(Member')
  <2> SUFFICES ASSUME NEW k \in Node, NEW j \in Node, air'[k][j] # NoDio
               PROVE  /\ k \in Member' /\ k # j /\ {j, k} \in Link
                      /\ myRank'[k] <= air'[k][j]
                      /\ air'[k][j] <= Cardinality(Member')
    OBVIOUS
  <2>1. air'[k][j] = air[k][j]
    BY <1>2 DEF TypeOK
  <2>2. /\ k \in Member /\ k # j /\ {j, k} \in Link
        /\ myRank[k] <= air[k][j] /\ air[k][j] <= C
    BY <2>1 DEF TreeInv, C
  <2>3. air[k][j] \in Nat
    BY <2>1, WaitingRank, RankMaxType DEF Rank
  <2>4. myRank'[k] <= myRank[k] /\ myRank'[k] \in Nat
    BY <1>1, <1>5, <2>2 DEF TypeOK
  <2> QED
    BY <1>1, <1>4, <1>5, <2>1, <2>2, <2>3, <2>4
<1>11. Acyclic'
  <2>1. CASE n \in Member
    BY <1>1, <2>1 DEF TreeInv, Acyclic
  <2>2. CASE n \notin Member
    <3>1. \A k \in Node : parent[k] # n
      <4> TAKE k \in Node
      <4>1. parent[k] = NoPeer \/ parent[k] \in Member
        BY DEF TreeInv
      <4> QED
        BY <2>2, <4>1, RootAssumption
    <3>2. Acyclic
      BY DEF TreeInv
    <3> QED
      BY <1>1, <2>2, <3>1, <3>2, JoinAcyclic
  <2> QED
    BY <2>1, <2>2
<1> QED
  BY <1>6, <1>7, <1>8, <1>9, <1>10, <1>11 DEF TreeInv

LEMMA NextTree ==
  ASSUME TypeOK, TreeInv, faults = 0, faults' = 0, [Next]_vars
  PROVE  TreeInv'
<1>1. ASSUME NEW m \in Node, NEW S \in SUBSET Node, Trickle(m, S)
      PROVE  TreeInv'
  <2>1. \A k, j \in Node : air'[k][j] = air[k][j] \/
          (air'[k][j] = myRank[k] /\ k \in Member /\ k # j /\ {j, k} \in Link)
    BY <1>1 DEF Trickle, Neighbours, Member, TypeOK
  <2>2. UNCHANGED <<up, dag, myRank, parent, parentRank, silence, cut>>
    BY <1>1 DEF Trickle, daemonVars
  <2> QED
    BY <2>1, <2>2, AirFrame
<1>2. ASSUME NEW n \in Node, NEW m \in Node, IgnoreDio(n, m) \/ RefuseDio(n, m)
      PROVE  TreeInv'
  <2>1. \A k, j \in Node : air'[k][j] \in {air[k][j], NoDio}
    BY <1>2 DEF IgnoreDio, RefuseDio, Receive, TypeOK
  <2>2. UNCHANGED <<up, dag, myRank, parent, parentRank, silence, cut>>
    BY <1>2, RefuseTree DEF IgnoreDio, daemonVars
  <2> QED
    BY <2>1, <2>2, AirFrame
<1>3. ASSUME NEW n \in Node, NEW m \in Node, AcceptDio(n, m)
      PROVE  TreeInv'
  BY <1>3, AcceptKeepsTree
<1>4. CASE UNCHANGED vars
  BY <1>4, AirFrame DEF vars, daemonVars
<1> QED
  BY <1>1, <1>2, <1>3, <1>4, FaultFreeSteps

LEMMA FaultsGrow == TypeOK /\ [Next]_vars /\ faults' = 0 => faults = 0
  BY LimitAssumption DEF TypeOK, Next, vars, Trickle, ProcessDio, IgnoreDio,
     NoMemoryForPeer, AcceptDio, RefuseDio, ParentCheck, Age, Crash, Restart,
     CutLink, HealLink

LEMMA TreeInvariant == Spec => [](faults = 0 => TreeInv)
<1>1. Init => TypeOK /\ (faults = 0 => TreeInv)
  BY InitType, InitTree
<1>2. TypeOK /\ (faults = 0 => TreeInv) /\ [Next]_vars
        => (faults = 0 => TreeInv)'
  BY FaultsGrow, NextTree
<1> QED
  BY <1>1, <1>2, Typing, PTL DEF Spec

\* In every network, as long as the environment has spent no fault, the
\* parents form no loop, whatever the order in which DIOs are sent, lost,
\* delayed and read.
THEOREM NoLoop == Spec => []NoLoopWithoutFault
<1>1. (faults = 0 => TreeInv) => NoLoopWithoutFault
  BY DEF TreeInv, NoLoopWithoutFault
<1> QED
  BY <1>1, TreeInvariant, PTL

-----------------------------------------------------------------------------
LEMMA AcceptSticks ==
  ASSUME TypeOK, NEW n \in Node \ {Root}, NEW m \in Node, DaemonInv(n),
         AcceptDio(n, m), dag[n], parent[n] # NoPeer, parentRank[n] # RankMax
  PROVE  parent'[n] = parent[n] /\ myRank'[n] <= myRank[n]
<1> DEFINE r == air[m][n]
           q == parentRank[n]
<1>1. NextParent(n, m) = parent[n]
  BY DEF NextParent
<1>2. parent'[n] = parent[n]
  BY <1>1 DEF AcceptDio, HearFrom, TypeOK
<1>3. r \in Rank /\ q \in Rank /\ r <= q
  BY WaitingRank DEF AcceptDio, Receive, TypeOK
<1>4. myRank'[n] = RankAfter(r) /\ myRank[n] = RankAfter(q)
  BY DEF AcceptDio, TakeRank, TypeOK, DaemonInv
<1> HIDE DEF r, q
<1>5. q < RankMax
  BY <1>3, RankMaxType DEF Rank, q
<1>6. RankAfter(r) = r + 1 /\ RankAfter(q) = q + 1
  BY <1>3, <1>5, RankMaxType DEF Rank, RankAfter
<1> QED
  BY <1>2, <1>3, <1>4, <1>6, RankMaxType DEF Rank

\* In every network and under any faults, only the liveness timer makes a
\* node give up a parent or a rank.
THEOREM ParentSticks == Spec => StickyParent
<1>1. TypeOK /\ (\A n \in Node : DaemonInv(n)) /\ [Next]_vars
        => [\A n \in Node \ {Root} : KeepsParent(n)]_vars
  <2> SUFFICES ASSUME TypeOK, \A n \in Node : DaemonInv(n), Next,
                      NEW k \in Node \ {Root}, dag[k], parent[k] # NoPeer,
                      parentRank[k] # RankMax, dag'[k]
               PROVE  /\ parent'[k] = parent[k]
                      /\ myRank'[k] <= myRank[k] \/ parentRank'[k] = RankMax
    BY DEF KeepsParent
  <2>0. myRank[k] \in Nat
    BY RankMaxType DEF TypeOK, Rank
  <2>1. ASSUME NEW n \in Node, NEW m \in Node, ProcessDio(n, m), k # n
        PROVE  parent'[k] = parent[k] /\ myRank'[k] = myRank[k]
    BY <2>1 DEF ProcessDio, IgnoreDio, NoMemoryForPeer, AcceptDio, RefuseDio,
       HearFrom, TakeRank, daemonVars, TypeOK
  <2>2. ASSUME NEW m \in Node, IgnoreDio(k, m) \/ NoMemoryForPeer(k, m)
                                 \/ RefuseDio(k, m)
        PROVE  parent'[k] = parent[k] /\ myRank'[k] = myRank[k]
    <3>1. NextParent(k, m) = parent[k]
      BY DEF NextParent
    <3> QED
      BY <2>2, <3>1 DEF IgnoreDio, NoMemoryForPeer, RefuseDio, HearFrom,
         daemonVars, TypeOK
  <2>3. ASSUME NEW m \in Node, AcceptDio(k, m)
        PROVE  parent'[k] = parent[k] /\ myRank'[k] <= myRank[k]
    BY <2>3, AcceptSticks
  <2>4. ASSUME NEW n \in Node, ParentCheck(n) \/ Age(n)
        PROVE  /\ parent'[k] = parent[k]
               /\ myRank'[k] = myRank[k] \/ parentRank'[k] = RankMax
    BY <2>4 DEF ParentCheck, Age, TypeOK
  <2>5. ASSUME NEW n \in Node, Crash(n) \/ Restart(n)
        PROVE  parent'[k] = parent[k] /\ myRank'[k] = myRank[k]
    <3>1. up[k]
      BY DEF DaemonInv, TypeOK
    <3>2. k # n
      BY <2>5, <3>1 DEF Crash, Restart, TypeOK
    <3> QED
      BY <2>5, <3>2 DEF Crash, Restart, TypeOK
  <2>6. ASSUME NEW l \in Link, CutLink(l) \/ HealLink(l)
        PROVE  parent'[k] = parent[k] /\ myRank'[k] = myRank[k]
    BY <2>6 DEF CutLink, HealLink, daemonVars
  <2>7. ASSUME NEW m \in Node, NEW S \in SUBSET Node, Trickle(m, S)
        PROVE  parent'[k] = parent[k] /\ myRank'[k] = myRank[k]
    BY <2>7 DEF Trickle, daemonVars
  <2> QED
    BY <2>0, <2>1, <2>2, <2>3, <2>4, <2>5, <2>6, <2>7 DEF Next, ProcessDio
<1> QED
  BY <1>1, DaemonInvariant, PTL DEF Spec, StickyParent

-----------------------------------------------------------------------------
(***************************************************************************)
(* Without faults, Dodag implements the safety part of JoinTree.           *)
(***************************************************************************)
LEMMA InitImplements == Init => Tree!Init
<1> SUFFICES ASSUME Init PROVE Tree!Init
  OBVIOUS
<1>1. {n \in Node : dag[n]} = {Root}
  BY RootAssumption DEF Init
<1> QED
  BY <1>1 DEF Init, Tree!Init, RootRank

LEMMA AcceptImplements ==
  ASSUME TypeOK, TreeInv, NEW n \in Node, NEW m \in Node, AcceptDio(n, m)
  PROVE  Tree!Next \/ UNCHANGED Tree!treeVars
<1> DEFINE r == air[m][n]
<1>1. /\ n # Root /\ m \in Member /\ m # n /\ {n, m} \in Link
      /\ r \in Nat /\ myRank[m] <= r /\ r <= Cardinality(Member)
      /\ myRank' = [myRank EXCEPT ![n] = r + 1]
      /\ Member' = Member \cup {n}
      /\ \/ n \notin Member /\ parent' = [parent EXCEPT ![n] = m]
         \/ n \in Member /\ parent' = parent /\ r + 1 <= myRank[n]
  BY AcceptTree
<1> HIDE DEF r
<1>2. Cardinality(Member) \in Nat /\ Cardinality(Node) \in Nat
      /\ Cardinality(Member) <= Cardinality(Node)
  BY MemberCard
<1>3. myRank[m] \in Nat /\ myRank[n] \in Nat
  BY RankMaxType DEF TypeOK, Rank
<1>4. r + 1 \in 1..Cardinality(Node) /\ myRank[m] < r + 1
  <2>1. r + 1 <= Cardinality(Node)
    <3>1. CASE n \in Member
      <4>1. r + 1 <= myRank[n] /\ myRank[n] <= Cardinality(Member)
        BY <1>1, <3>1 DEF TreeInv
      <4> QED
        BY <1>1, <1>2, <1>3, <4>1
    <3>2. CASE n \notin Member
      <4>1. Cardinality(Member) # Cardinality(Node)
        BY <3>2, NodeAssumption, FS_Subset DEF Member
      <4> QED
        BY <1>1, <1>2, <4>1
    <3> QED
      BY <3>1, <3>2
  <2> QED
    BY <1>1, <1>2, <1>3, <2>1
<1> PICK q \in Nat : q = r + 1
  BY <1>1
<1>5. Tree!Adjacent(n, m)
  BY <1>1 DEF Tree!Adjacent
<1>6. CASE n \notin Member
  <2>1. Tree!Join(n, m, q)
    BY <1>1, <1>4, <1>5, <1>6 DEF Tree!Join, Tree!MayJoin, Member
  <2>2. Tree!Move(n)
    BY <2>1, <1>4 DEF Tree!Move
  <2> QED
    BY <2>2 DEF Tree!Next
<1>7. CASE n \in Member /\ r + 1 < myRank[n]
  <2>1. Member' = Member /\ parent' = parent
    BY <1>1, <1>7
  <2>2. Tree!Improve(n, m, q)
    BY <1>1, <1>4, <1>5, <1>7, <2>1 DEF Tree!Improve, Tree!MayImprove,
       Member
  <2>3. Tree!Move(n)
    BY <2>2, <1>4 DEF Tree!Move
  <2> QED
    BY <2>3 DEF Tree!Next
<1>8. CASE n \in Member /\ r + 1 = myRank[n]
  <2>1. Member' = Member /\ parent' = parent /\ myRank' = myRank
    BY <1>1, <1>8 DEF TypeOK
  <2> QED
    BY <2>1 DEF Tree!treeVars, Member
<1> QED
  BY <1>1, <1>3, <1>6, <1>7, <1>8

LEMMA StepImplements ==
  ASSUME TypeOK, TreeInv, faults = 0, faults' = 0, [Next]_vars
  PROVE  [Tree!Next]_(Tree!treeVars)
<1>1. ASSUME NEW m \in Node, NEW S \in SUBSET Node, Trickle(m, S)
      PROVE  UNCHANGED Tree!treeVars
  BY <1>1 DEF Trickle, daemonVars, Tree!treeVars
<1>2. ASSUME NEW n \in Node, NEW m \in Node, IgnoreDio(n, m) \/ RefuseDio(n, m)
      PROVE  UNCHANGED Tree!treeVars
  <2>1. UNCHANGED <<dag, myRank, parent>>
    BY <1>2, RefuseTree DEF IgnoreDio, daemonVars
  <2> QED
    BY <2>1 DEF Tree!treeVars
<1>3. ASSUME NEW n \in Node, NEW m \in Node, AcceptDio(n, m)
      PROVE  [Tree!Next]_(Tree!treeVars)
  BY <1>3, AcceptImplements
<1>4. CASE UNCHANGED vars
  BY <1>4 DEF vars, daemonVars, Tree!treeVars
<1> QED
  BY <1>1, <1>2, <1>3, <1>4, FaultFreeSteps

\* In every network without faults, process_dio implements the joining of a
\* tree: each step joins a node below a member, improves a rank, or is
\* invisible.  (That it goes on until nothing can be improved is checked.)
THEOREM ImplementsTree ==
  ASSUME MaxFaults = 0
  PROVE  Spec => Tree!Spec
<1>1. TypeOK => faults = 0
  BY DEF TypeOK
<1>2. TypeOK /\ TypeOK' /\ (faults = 0 => TreeInv) /\ [Next]_vars
        => [Tree!Next]_(Tree!treeVars)
  <2>1. TypeOK' => faults' = 0
    BY DEF TypeOK
  <2> QED
    BY <1>1, <2>1, StepImplements
<1> QED
  BY <1>2, InitImplements, Typing, TreeInvariant, PTL DEF Spec, Tree!Spec

-----------------------------------------------------------------------------
\* What is proved of every tree that JoinTree forms, for the tree of the
\* daemons.
TreeProofs == INSTANCE JoinTreeProofs WITH
                member <- {n \in Node : dag[n]},
                parent <- parent,
                rank   <- myRank,
                Size   <- Cardinality(Node)

\* A step of the tree, as JoinTree's proofs see it.
LEMMA SameTree ==
  /\ Tree!Init => TreeProofs!Init
  /\ [Tree!Next]_(Tree!treeVars) => [TreeProofs!Next]_(TreeProofs!treeVars)
  /\ TreeProofs!RankAtLeastDistance => Tree!RankAtLeastDistance
<1>1. Tree!Init => TreeProofs!Init
  BY DEF Tree!Init, TreeProofs!Init
<1>2. [Tree!Next]_(Tree!treeVars) => [TreeProofs!Next]_(TreeProofs!treeVars)
  BY DEF Tree!Next, Tree!treeVars, Tree!Move, Tree!Join, Tree!MayJoin,
         Tree!Improve, Tree!MayImprove, Tree!Adjacent,
         TreeProofs!Next, TreeProofs!treeVars, TreeProofs!Move,
         TreeProofs!Join, TreeProofs!MayJoin, TreeProofs!Improve,
         TreeProofs!MayImprove, TreeProofs!Adjacent
<1>3. TreeProofs!RankAtLeastDistance => Tree!RankAtLeastDistance
  BY DEF Tree!RankAtLeastDistance, Tree!Distances, Tree!Within, Tree!Ways,
         Tree!Adjacent, TreeProofs!RankAtLeastDistance, TreeProofs!Distances,
         TreeProofs!Within, TreeProofs!Ways, TreeProofs!Adjacent
<1> QED
  BY <1>1, <1>2, <1>3

\* In every network, whatever DIOs are lost and delayed, no rank is below its
\* node's distance from the root before the first fault.
THEOREM NoRankTooLow == Spec => []DistanceWithoutFault
<1> DEFINE Far == faults = 0 => TreeProofs!DistanceInv
<1>1. Root \in Node /\ NoPeer \notin Node /\ Cardinality(Node) \in Nat
  BY RootAssumption, NodeAssumption, FS_CardinalityType
<1>2. Init => Far
  BY <1>1, InitImplements, SameTree, TreeProofs!InitDistance
<1>3. TypeOK /\ (faults = 0 => TreeInv) /\ Far /\ [Next]_vars => Far'
  <2> SUFFICES ASSUME TypeOK, faults = 0 => TreeInv, Far, [Next]_vars,
                      faults' = 0
               PROVE  TreeProofs!DistanceInv'
    OBVIOUS
  <2>1. faults = 0
    BY FaultsGrow
  <2>2. [TreeProofs!Next]_(TreeProofs!treeVars)
    BY <2>1, StepImplements, SameTree
  <2> QED
    BY <1>1, <2>1, <2>2, TreeProofs!NextDistance
<1>4. Far => DistanceWithoutFault
  BY SameTree DEF DistanceWithoutFault, TreeProofs!DistanceInv
<1> QED
  BY <1>2, <1>3, <1>4, Typing, TreeInvariant, PTL DEF Spec

=============================================================================

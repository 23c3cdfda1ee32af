---------------------------- MODULE HybridProofs ----------------------------
(***************************************************************************)
(* Theorems about HybridDao, for every finite network, every mode of       *)
(* operation and assignment of classes, and any loss, overtaking, restart  *)
(* of the root and bound on targets.                                       *)
(***************************************************************************)
EXTENDS HybridTree, FiniteSetTheorems, TLAPS

\* The nodes with a dag.
Joined == {n \in Node : myRank[n] # RankMax}

\* The root stays the root; all others have a rank above their parent's, and
\* no rank exceeds the number of nodes that have one.
UpInv ==
  /\ myRank[Root] = RootRank /\ parent[Root] = NoPeer
  /\ \A n \in Node : myRank[n] # RankMax =>
       myRank[n] \in 1..Cardinality(Joined)
  /\ \A n \in Node \ {Root} :
       IF parent[n] = NoPeer
         THEN myRank[n] = RankMax /\ parentRank[n] = RankMax
         ELSE /\ myRank[n] = parentRank[n] + 1 /\ parentRank[n] >= 1
              /\ myRank[n] # RankMax

\* A node that tells others of its children.
Aggregates(n) == mop \in Storing \/ (mop = Hybrid /\ class[n] = "S")

\* Whoever takes children from a DAO is the parent of its sender, and a
\* target is the sender or one of its children.
DaoInv ==
  \A y, d \in Node : dao[y][d] # {} =>
    /\ y # Root /\ parent[y] # NoPeer
    /\ mop \in Storing \/ (mop = Hybrid /\ d # Root) => parent[y] = d
    /\ \A t \in dao[y][d] \ {y} :
         child[y][t] # NoPeer /\ (switches = 0 => Aggregates(y))

\* A child came from a node below, and so did the DAO that named it there.
ChildDown ==
  \A n, t \in Node : child[n][t] # NoPeer =>
    parent[child[n][t]] = n /\ Below(t, child[n][t])

\* As long as nobody switches, children that are told of have routes.
ChildRoute ==
  switches = 0 => \A n, t \in Node : child[n][t] # NoPeer =>
    /\ child[n][t] = t \/ via[child[n][t]][t] # NoPeer
    /\ Aggregates(n) => via[n][t] # NoPeer

DownInv ==
  /\ TypeOK /\ UpInv /\ DaoInv
  /\ ChildDown /\ RoutesLeadDown
  /\ ChildRoute /\ PathsContinue

\* Who is below stays below: a parent once set is kept.
LEMMA BelowKept ==
  ASSUME NoPeer \notin Node,
         \A n \in Node : parent[n] # NoPeer => parent'[n] = parent[n],
         NEW t \in Node, NEW y \in Node, Below(t, y)
  PROVE  Below(t, y)'
<1> SUFFICES ASSUME NEW S \in SUBSET Node, y \in S,
                    \A m \in Node : parent'[m] \in S => m \in S
             PROVE  t \in S
  BY DEF Below
<1>1. \A m \in Node : parent[m] \in S => m \in S
  OBVIOUS
<1> QED
  BY <1>1 DEF Below

\* A node is below itself, and what is below a child is below the node.
LEMMA BelowChild ==
  /\ \A y \in Node : Below(y, y)
  /\ \A t, z \in Node : Below(t, z) => Below(t, parent[z])
  BY DEF Below

\* There are no children, routes or DAOs in the beginning.
LEMMA InitDown == Init => DownInv
<1> SUFFICES ASSUME Init
             PROVE  DownInv
  OBVIOUS
<1>1. /\ Root \in Node /\ NoPeer \notin Node /\ RankMax \in Nat
      /\ Cardinality(Node) \in Nat /\ Cardinality(Node) >= 1
      /\ 1 < RankMax
  <2>1. Cardinality(Node) # 0
    BY RootAssumption, NodeAssumption, FS_EmptySet
  <2>2. Cardinality(Node) \in Nat
    BY NodeAssumption, FS_CardinalityType
  <2> QED
    BY <2>1, <2>2, RootAssumption, RankAssumption
<1>2. TypeOK
  BY <1>1, ProfileAssumption, BoundAssumption
  DEF Init, TypeOK, NoRoutes, RootRank
<1>3. UpInv
  <2>1. Joined = {Root}
    BY <1>1 DEF Init, Joined, RootRank
  <2>2. Cardinality(Joined) = 1
    BY <2>1, FS_Singleton
  <2> QED
    BY <1>1, <2>2 DEF Init, UpInv, RootRank
<1>4. DaoInv
  BY DEF Init, DaoInv
<1>5. \A n, t \in Node : child[n][t] = NoPeer /\ via[n][t] = NoPeer
  BY DEF Init, NoRoutes
<1>6. ChildDown /\ RoutesLeadDown /\ ChildRoute /\ PathsContinue
  BY <1>5 DEF ChildDown, RoutesLeadDown, ChildRoute, PathsContinue, Continues
<1> QED
  BY <1>2, <1>3, <1>4, <1>6 DEF DownInv

-----------------------------------------------------------------------------
(* AcceptDio.                                                              *)

\* What a node that reads a DIO finds and leaves.
LEMMA Accepting ==
  ASSUME DownInv, NEW n \in Node, NEW m \in Node, AcceptDio(n, m)
  PROVE  /\ n # Root /\ n # m
         /\ myRank[m] # RankMax /\ myRank[m] \in Nat /\ myRank[m] >= 1
         /\ NextParent(n, m) \in Node
         /\ parent' = [parent EXCEPT ![n] = NextParent(n, m)]
         /\ \A k \in Node : parent[k] # NoPeer => parent'[k] = parent[k]
         /\ \A k \in Node : parent[k] = NoPeer /\ k # n => parent'[k] = NoPeer
         /\ UNCHANGED <<mop, class, child, via, tree, switches, restarts>>
<1> USE RootAssumption
<1>1. Accepts(n, m) /\ Adjacent(n, m)
  BY DEF AcceptDio
<1>2. n # Root /\ n # m
  BY <1>1 DEF Accepts, Adjacent, DownInv, UpInv
<1>3. Joined \in SUBSET Node /\ Cardinality(Joined) \in Nat
  BY NodeAssumption, FS_Subset, FS_CardinalityType DEF Joined
<1>4. myRank[m] # RankMax /\ myRank[m] \in Nat /\ myRank[m] >= 1
  BY <1>1, <1>3 DEF Accepts, DownInv, UpInv
<1>5. NextParent(n, m) \in Node
  BY DEF NextParent, DownInv, TypeOK
<1>6. /\ parent' = [parent EXCEPT ![n] = NextParent(n, m)]
      /\ UNCHANGED <<mop, class, child, via, tree, switches, restarts>>
  BY DEF AcceptDio, downVars
<1>7. parent \in [Node -> Node \cup {NoPeer}]
  BY DEF DownInv, TypeOK
<1>8. \A k \in Node : parent[k] # NoPeer => parent'[k] = parent[k]
  BY <1>6, <1>7 DEF NextParent
<1>9. \A k \in Node : parent[k] = NoPeer /\ k # n => parent'[k] = NoPeer
  BY <1>6, <1>7
<1> QED
  BY <1>2, <1>4, <1>5, <1>6, <1>8, <1>9

\* A new rank is within the number of nodes with a dag, the new one included.
LEMMA AcceptUp ==
  ASSUME DownInv, NEW n \in Node, NEW m \in Node, AcceptDio(n, m)
  PROVE  UpInv' /\ myRank'[n] \in 0..RankMax
<1> USE RootAssumption
<1>1. /\ n # Root /\ myRank[m] # RankMax /\ NextParent(n, m) \in Node
      /\ parent' = [parent EXCEPT ![n] = NextParent(n, m)]
  BY Accepting
<1>2. /\ myRank' = [myRank EXCEPT ![n] = myRank[m] + 1]
      /\ parentRank' = [parentRank EXCEPT ![n] = myRank[m]]
      /\ myRank[m] <= parentRank[n]
  BY DEF AcceptDio, Accepts
<1>3. /\ myRank \in [Node -> 0..RankMax] /\ parentRank \in [Node -> 0..RankMax]
      /\ parent \in [Node -> Node \cup {NoPeer}]
      /\ UpInv
  BY DEF DownInv, TypeOK
<1> DEFINE J == Joined
           K == Joined'
<1>4. /\ J \in SUBSET Node /\ K \in SUBSET Node
      /\ IsFiniteSet(J) /\ IsFiniteSet(K)
      /\ Cardinality(J) \in Nat /\ Cardinality(K) \in Nat
      /\ Cardinality(K) <= Cardinality(Node)
      /\ Cardinality(Node) \in Nat /\ RankMax \in Nat
      /\ Cardinality(Node) < RankMax
  BY NodeAssumption, RankAssumption, FS_Subset, FS_CardinalityType DEF Joined
<1>5. myRank[m] \in 1..Cardinality(J)
  BY <1>1, <1>3 DEF UpInv
<1>6. CASE parent[n] = NoPeer
  <2>1. n \notin J
    BY <1>1, <1>3, <1>6 DEF UpInv, Joined
  <2>2. /\ J \cup {n} \in SUBSET Node
        /\ Cardinality(J \cup {n}) = Cardinality(J) + 1
    BY <1>4, <2>1, FS_AddElement
  <2>3. Cardinality(J) + 1 <= Cardinality(Node)
    BY <1>4, <2>2, NodeAssumption, FS_Subset
  <2>4. myRank[m] + 1 \in 2..Cardinality(J) + 1 /\ myRank[m] + 1 < RankMax
    BY <1>4, <1>5, <2>3
  <2>5. K = J \cup {n}
    BY <1>2, <1>3, <2>4 DEF Joined
  <2>6. Cardinality(K) = Cardinality(J) + 1
    BY <2>2, <2>5
  <2> HIDE DEF J, K
  <2>7. \A k \in Node : myRank'[k] # RankMax => myRank'[k] \in 1..Cardinality(K)
    <3>1. \A k \in Node : myRank[k] # RankMax => myRank[k] \in 1..Cardinality(J)
      BY <1>3 DEF UpInv, J
    <3> QED
      BY <1>2, <1>3, <1>4, <2>4, <2>6, <3>1
  <2>8. \A k \in Node \ {Root} :
          IF parent'[k] = NoPeer
            THEN myRank'[k] = RankMax /\ parentRank'[k] = RankMax
            ELSE /\ myRank'[k] = parentRank'[k] + 1 /\ parentRank'[k] >= 1
                 /\ myRank'[k] # RankMax
    BY <1>1, <1>2, <1>3, <1>4, <1>5, <2>4 DEF UpInv
  <2>9. myRank'[Root] = RootRank /\ parent'[Root] = NoPeer
    BY <1>1, <1>2, <1>3 DEF UpInv
  <2> QED
    BY <1>2, <1>3, <2>4, <1>4, <2>7, <2>8, <2>9 DEF UpInv, K
<1>7. CASE parent[n] # NoPeer
  <2>1. /\ myRank[n] = parentRank[n] + 1 /\ parentRank[n] >= 1
        /\ parentRank[n] \in Nat /\ myRank[n] \in 1..Cardinality(J)
    BY <1>1, <1>3, <1>7 DEF UpInv
  <2>0. Cardinality(J) <= Cardinality(Node)
    BY <1>4, NodeAssumption, FS_Subset
  <2>2. myRank[m] + 1 <= myRank[n] /\ myRank[m] + 1 < RankMax
    BY <1>2, <2>1, <1>4, <1>5, <2>0
  <2>3. Cardinality(J) <= Cardinality(K)
    <3>1. J \subseteq K
      BY <1>2, <1>3, <2>2, <1>4 DEF Joined
    <3> QED
      BY <3>1, <1>4, FS_Subset
  <2>4. myRank[m] + 1 \in 2..RankMax /\ myRank[m] + 1 < RankMax
    BY <1>4, <1>5, <2>2
  <2>5. myRank[m] + 1 \in 1..Cardinality(K)
    BY <1>4, <1>5, <2>1, <2>2, <2>3
  <2> HIDE DEF J, K
  <2>6. \A k \in Node : myRank'[k] # RankMax => myRank'[k] \in 1..Cardinality(K)
    <3>1. \A k \in Node : myRank[k] # RankMax => myRank[k] \in 1..Cardinality(J)
      BY <1>3 DEF UpInv, J
    <3> QED
      BY <1>2, <1>3, <1>4, <2>3, <2>5, <3>1
  <2>7. \A k \in Node \ {Root} :
          IF parent'[k] = NoPeer
            THEN myRank'[k] = RankMax /\ parentRank'[k] = RankMax
            ELSE /\ myRank'[k] = parentRank'[k] + 1 /\ parentRank'[k] >= 1
                 /\ myRank'[k] # RankMax
    BY <1>1, <1>2, <1>3, <1>4, <1>5, <2>4 DEF UpInv
  <2>8. myRank'[Root] = RootRank /\ parent'[Root] = NoPeer
    BY <1>1, <1>2, <1>3 DEF UpInv
  <2> QED
    BY <1>2, <1>3, <1>4, <2>4, <2>6, <2>7, <2>8 DEF UpInv, K
<1> QED
  BY <1>6, <1>7

\* The new DAOs go to the parent, and in some modes to the root too.
LEMMA AcceptDaos ==
  ASSUME DownInv, NEW n \in Node, NEW m \in Node, AcceptDio(n, m)
  PROVE  DaoInv'
<1> DEFINE p == NextParent(n, m)
           D == DaoDestinations(p, myRank[m])
<1>1. /\ n # Root /\ p \in Node
      /\ parent' = [parent EXCEPT ![n] = p]
      /\ \A k \in Node : parent[k] # NoPeer => parent'[k] = parent[k]
      /\ UNCHANGED <<mop, class, child, switches>>
  BY Accepting
<1>2. dao' = [dao EXCEPT ![n] =
                [d \in Node |-> IF d \in D THEN Targets(n) ELSE @[d]]]
  BY DEF AcceptDio
<1>3. /\ dao \in [Node -> [Node -> SUBSET Node]]
      /\ parent \in [Node -> Node \cup {NoPeer}] /\ DaoInv
  BY DEF DownInv, TypeOK
<1>4. \A d \in D : mop \in Storing \/ (mop = Hybrid /\ d # Root) => d = p
  BY DEF DaoDestinations, Storing, NonStoring, Hybrid
<1>5. \A t \in Targets(n) \ {n} : child[n][t] # NoPeer /\ Aggregates(n)
  BY DEF Targets, Children, Aggregates
<1>6. \A y, d \in Node :
        dao'[y][d] = IF y = n /\ d \in D THEN Targets(n) ELSE dao[y][d]
  BY <1>2, <1>3
<1>7. parent'[n] = p /\ p # NoPeer
  BY <1>1, <1>3, RootAssumption
<1> HIDE DEF p, D
<1> SUFFICES ASSUME NEW y \in Node, NEW d \in Node, dao'[y][d] # {}
             PROVE  /\ y # Root /\ parent'[y] # NoPeer
                    /\ mop \in Storing \/ (mop = Hybrid /\ d # Root)
                         => parent'[y] = d
                    /\ \A t \in dao'[y][d] \ {y} :
                         /\ child[y][t] # NoPeer
                         /\ switches = 0 => Aggregates(y)
  BY <1>1 DEF DaoInv, Aggregates
<1>8. CASE y = n /\ d \in D
  BY <1>1, <1>4, <1>5, <1>6, <1>7, <1>8
<1>9. CASE ~(y = n /\ d \in D)
  <2>1. dao'[y][d] = dao[y][d] /\ dao[y][d] # {}
    BY <1>6, <1>9
  <2> QED
    BY <2>1, <1>1, <1>3 DEF DaoInv
<1> QED
  BY <1>8, <1>9

\* A parent once set is kept, so what led down still does.
LEMMA AcceptDown ==
  ASSUME DownInv, NEW n \in Node, NEW m \in Node, AcceptDio(n, m)
  PROVE  DownInv'
<1>1. /\ n # Root /\ NextParent(n, m) \in Node
      /\ parent' = [parent EXCEPT ![n] = NextParent(n, m)]
      /\ \A k \in Node : parent[k] # NoPeer => parent'[k] = parent[k]
      /\ UNCHANGED <<mop, class, child, via, tree, switches, restarts>>
  BY Accepting
<1>2. TypeOK'
  <2>1. /\ myRank' = [myRank EXCEPT ![n] = myRank[m] + 1]
        /\ parentRank' = [parentRank EXCEPT ![n] = myRank[m]]
        /\ dao' = [dao EXCEPT ![n] =
                     [d \in Node |->
                        IF d \in DaoDestinations(NextParent(n, m), myRank[m])
                          THEN Targets(n) ELSE @[d]]]
    BY DEF AcceptDio
  <2>2. TypeOK
    BY DEF DownInv
  <2>3. Targets(n) \in SUBSET Node
    BY DEF Targets, Children
  <2>4. myRank'[n] \in 0..RankMax
    BY AcceptUp
  <2>5. myRank' \in [Node -> 0..RankMax] /\ parentRank' \in [Node -> 0..RankMax]
    BY <2>1, <2>2, <2>4 DEF TypeOK
  <2>6. dao' \in [Node -> [Node -> SUBSET Node]]
    BY <2>1, <2>2, <2>3 DEF TypeOK
  <2>7. parent' \in [Node -> Node \cup {NoPeer}]
    BY <1>1, <2>2 DEF TypeOK
  <2> QED
    BY <1>1, <2>2, <2>5, <2>6, <2>7 DEF TypeOK
<1>3. UpInv' /\ DaoInv'
  BY AcceptUp, AcceptDaos
<1>4. /\ child \in [Node -> [Node -> Node \cup {NoPeer}]]
      /\ via \in [Node -> [Node -> Node \cup {NoPeer}]]
      /\ ChildDown /\ RoutesLeadDown /\ ChildRoute /\ PathsContinue
  BY DEF DownInv, TypeOK
<1>5. \A t, y \in Node : Below(t, y) => Below(t, y)'
  BY <1>1, BelowKept, RootAssumption
<1>6. ChildDown'
  <2> SUFFICES ASSUME NEW k \in Node, NEW t \in Node, child[k][t] # NoPeer
               PROVE  parent'[child[k][t]] = k /\ Below(t, child[k][t])'
    BY <1>1 DEF ChildDown
  <2>1. child[k][t] \in Node /\ k # NoPeer
    BY <1>4, RootAssumption
  <2>2. parent[child[k][t]] = k /\ Below(t, child[k][t])
    BY <1>4 DEF ChildDown
  <2>3. parent'[child[k][t]] = k
    BY <1>1, <2>1, <2>2
  <2>4. Below(t, child[k][t])'
    BY <1>1, <1>5, <2>1, <2>2 DEF Below
  <2> QED
    BY <2>3, <2>4
<1>7. RoutesLeadDown'
  <2> SUFFICES ASSUME NEW k \in Node, NEW t \in Node, via[k][t] # NoPeer
               PROVE  parent'[via[k][t]] = k /\ Below(t, via[k][t])'
    BY <1>1 DEF RoutesLeadDown
  <2>1. via[k][t] \in Node /\ k # NoPeer
    BY <1>4, RootAssumption
  <2>2. parent[via[k][t]] = k /\ Below(t, via[k][t])
    BY <1>4 DEF RoutesLeadDown
  <2>3. parent'[via[k][t]] = k
    BY <1>1, <2>1, <2>2
  <2>4. Below(t, via[k][t])'
    BY <1>1, <1>5, <2>1, <2>2 DEF Below
  <2> QED
    BY <2>3, <2>4
<1>8. ChildRoute' /\ PathsContinue'
  BY <1>1, <1>4 DEF ChildRoute, PathsContinue, Continues, Aggregates
<1> QED
  BY <1>2, <1>3, <1>6, <1>7, <1>8 DEF DownInv

-----------------------------------------------------------------------------
(* ProcessDao.                                                             *)

\* Children and routes only grow; a new child is a target of the DAO, a new
\* route goes where the child came from, and in a node that installs routes
\* every child has one.
LEMMA Processing ==
  ASSUME DownInv, NEW d \in Node, NEW n \in Node, ProcessDao(d, n)
  PROVE  /\ child' \in [Node -> [Node -> Node \cup {NoPeer}]]
         /\ via' \in [Node -> [Node -> Node \cup {NoPeer}]]
         /\ \A k, t \in Node :
              \/ child'[k][t] = child[k][t]
              \/ /\ k = d /\ ReadsChildren(d) /\ t \in dao[n][d]
                 /\ child[d][t] = NoPeer /\ child'[d][t] = n
         /\ \A k, t \in Node :
              \/ via'[k][t] = via[k][t]
              \/ k = d /\ child'[d][t] # NoPeer /\ via'[d][t] = child'[d][t]
         /\ InstallsRoutes(d) =>
              \A t \in Node : child'[d][t] # NoPeer => via'[d][t] # NoPeer
<1>1. /\ child \in [Node -> [Node -> Node \cup {NoPeer}]]
      /\ via \in [Node -> [Node -> Node \cup {NoPeer}]]
      /\ dao \in [Node -> [Node -> SUBSET Node]]
  BY DEF DownInv, TypeOK
<1>2. /\ child' = IF ReadsChildren(d)
                    THEN [child EXCEPT ![d] = ChildrenAfter(d, n)] ELSE child
      /\ via' = IF InstallsRoutes(d)
                  THEN [via EXCEPT ![d] = RoutesAfter(d, n)] ELSE via
  BY DEF ProcessDao
<1>3. InstallsRoutes(d) => ReadsChildren(d)
  BY DEF InstallsRoutes, ReadsChildren
<1>4. /\ ChildrenAfter(d, n) \in [Node -> Node \cup {NoPeer}]
      /\ \A t \in Node :
           ChildrenAfter(d, n)[t] =
             IF t \in dao[n][d] /\ child[d][t] = NoPeer THEN n ELSE child[d][t]
  BY <1>1 DEF ChildrenAfter
<1>5. /\ RoutesAfter(d, n) \in [Node -> Node \cup {NoPeer}]
      /\ \A t \in Node :
           RoutesAfter(d, n)[t] =
             IF ChildrenAfter(d, n)[t] # NoPeer THEN ChildrenAfter(d, n)[t]
             ELSE via[d][t]
  BY <1>1, <1>4 DEF RoutesAfter
<1>6. child' \in [Node -> [Node -> Node \cup {NoPeer}]]
  BY <1>1, <1>2, <1>4
<1>7. via' \in [Node -> [Node -> Node \cup {NoPeer}]]
  BY <1>1, <1>2, <1>5
<1>8. \A k, t \in Node :
        \/ child'[k][t] = child[k][t]
        \/ /\ k = d /\ ReadsChildren(d) /\ t \in dao[n][d]
           /\ child[d][t] = NoPeer /\ child'[d][t] = n
  BY <1>1, <1>2, <1>4
<1>9. ReadsChildren(d) => child'[d] = ChildrenAfter(d, n)
  BY <1>1, <1>2
<1>10. InstallsRoutes(d) => via'[d] = RoutesAfter(d, n)
  BY <1>1, <1>2
<1>11. \A k, t \in Node :
         \/ via'[k][t] = via[k][t]
         \/ k = d /\ child'[d][t] # NoPeer /\ via'[d][t] = child'[d][t]
  BY <1>1, <1>2, <1>3, <1>5, <1>9
<1>12. InstallsRoutes(d) =>
         \A t \in Node : child'[d][t] # NoPeer => via'[d][t] # NoPeer
  BY <1>3, <1>5, <1>9, <1>10
<1> QED
  BY <1>6, <1>7, <1>8, <1>11, <1>12

\* What a DAO names is below its sender, and its sender below the receiver.
LEMMA ProcessDown ==
  ASSUME DownInv, NEW d \in Node, NEW n \in Node, ProcessDao(d, n)
  PROVE  DownInv'
<1> USE RootAssumption
<1>1. /\ dao[n][d] # {}
      /\ dao' = [dao EXCEPT ![n][d] = {}]
      /\ UNCHANGED <<mop, myRank, parent, parentRank, class, switches,
                     restarts>>
  BY DEF ProcessDao, upVars
<1>2. TypeOK /\ UpInv /\ DaoInv
  BY DEF DownInv
<1>3. ChildDown /\ RoutesLeadDown /\ ChildRoute /\ PathsContinue
  BY DEF DownInv
<1>4. dao \in [Node -> [Node -> SUBSET Node]]
  BY <1>2 DEF TypeOK
<1>5. \A k, t \in Node : child[k][t] # NoPeer => child'[k][t] = child[k][t]
  BY Processing
<1>6. \A k, t \in Node : via[k][t] # NoPeer => via'[k][t] # NoPeer
  BY Processing
<1>7. /\ n # Root
      /\ ReadsChildren(d) => parent[n] = d
      /\ \A t \in dao[n][d] \ {n} :
           child[n][t] # NoPeer /\ (switches = 0 => Aggregates(n))
  BY <1>1, <1>2 DEF DaoInv, UpInv, ReadsChildren
<1>8. TypeOK'
  <2>1. dao' \in [Node -> [Node -> SUBSET Node]]
    BY <1>1, <1>4
  <2>2. tree' \in SUBSET Node
    BY <1>2, <1>4 DEF ProcessDao, Kept, TypeOK
  <2> QED
    BY <1>1, <1>2, <2>1, <2>2, Processing DEF TypeOK
<1>9. UpInv'
  BY <1>1, <1>2 DEF UpInv, Joined
<1>10. DaoInv'
  <2>1. \A y, e \in Node : dao'[y][e] # {} => dao'[y][e] = dao[y][e]
    BY <1>1, <1>4
  <2> SUFFICES ASSUME NEW y \in Node, NEW e \in Node, dao'[y][e] # {}
               PROVE  /\ y # Root /\ parent[y] # NoPeer
                      /\ mop \in Storing \/ (mop = Hybrid /\ e # Root)
                           => parent[y] = e
                      /\ \A t \in dao'[y][e] \ {y} :
                           /\ child'[y][t] # NoPeer
                           /\ switches = 0 => Aggregates(y)
    BY <1>1 DEF DaoInv, Aggregates
  <2>2. dao'[y][e] = dao[y][e] /\ dao[y][e] # {}
    BY <2>1
  <2> QED
    BY <2>2, <1>2, <1>4, <1>5 DEF DaoInv
<1>11. ChildDown'
  <2> SUFFICES ASSUME NEW k \in Node, NEW t \in Node, child'[k][t] # NoPeer
               PROVE  parent[child'[k][t]] = k /\ Below(t, child'[k][t])
    BY <1>1 DEF ChildDown, Below
  <2>1. CASE child'[k][t] = child[k][t]
    BY <2>1, <1>3 DEF ChildDown
  <2>2. CASE child'[k][t] # child[k][t]
    <3>1. /\ k = d /\ ReadsChildren(d) /\ t \in dao[n][d]
          /\ child'[k][t] = n
      BY <2>2, Processing
    <3>2. CASE t = n
      BY <3>1, <3>2, <1>7, BelowChild
    <3>3. CASE t # n
      <4>1. child[n][t] # NoPeer /\ child[n][t] \in Node
        BY <3>1, <3>3, <1>2, <1>7 DEF TypeOK
      <4>2. parent[child[n][t]] = n /\ Below(t, child[n][t])
        BY <4>1, <1>3 DEF ChildDown
      <4>3. Below(t, n)
        BY <4>1, <4>2, BelowChild
      <4> QED
        BY <3>1, <4>3, <1>7
    <3> QED
      BY <3>2, <3>3
  <2> QED
    BY <2>1, <2>2
<1>12. RoutesLeadDown'
  <2> SUFFICES ASSUME NEW k \in Node, NEW t \in Node, via'[k][t] # NoPeer
               PROVE  parent[via'[k][t]] = k /\ Below(t, via'[k][t])
    BY <1>1 DEF RoutesLeadDown, Below
  <2>1. CASE via'[k][t] = via[k][t]
    BY <2>1, <1>3 DEF RoutesLeadDown
  <2>2. CASE via'[k][t] # via[k][t]
    <3>1. k = d /\ child'[d][t] # NoPeer /\ via'[d][t] = child'[d][t]
      BY <2>2, Processing
    <3>2. parent[child'[d][t]] = d /\ Below(t, child'[d][t])
      BY <3>1, <1>1, <1>11 DEF ChildDown, Below
    <3> QED
      BY <3>1, <3>2
  <2> QED
    BY <2>1, <2>2
<1>13. ChildRoute'
  <2> SUFFICES ASSUME switches = 0,
                      NEW k \in Node, NEW t \in Node, child'[k][t] # NoPeer
               PROVE  /\ child'[k][t] = t \/ via'[child'[k][t]][t] # NoPeer
                      /\ Aggregates(k) => via'[k][t] # NoPeer
    BY <1>1 DEF ChildRoute, Aggregates
  <2>1. CASE child'[k][t] = child[k][t]
    <3>1. child[k][t] \in Node
      BY <2>1, <1>2 DEF TypeOK
    <3> QED
      BY <2>1, <3>1, <1>3, <1>6 DEF ChildRoute
  <2>2. CASE child'[k][t] # child[k][t]
    <3>1. k = d /\ ReadsChildren(d) /\ t \in dao[n][d] /\ child'[k][t] = n
      BY <2>2, Processing
    <3>2. t = n \/ via'[n][t] # NoPeer
      BY <3>1, <1>3, <1>6, <1>7 DEF ChildRoute
    <3>3. Aggregates(d) => InstallsRoutes(d)
      BY <3>1 DEF Aggregates, InstallsRoutes, ReadsChildren
    <3>4. Aggregates(d) => via'[d][t] # NoPeer
      BY <3>1, <3>3, Processing
    <3> QED
      BY <3>1, <3>2, <3>4
  <2> QED
    BY <2>1, <2>2
<1>14. PathsContinue'
  <2> SUFFICES ASSUME switches = 0, NEW k \in Node, NEW t \in Node,
                      via'[k][t] # NoPeer, via'[k][t] # t
               PROVE  via'[via'[k][t]][t] # NoPeer
    BY <1>1 DEF PathsContinue, Continues
  <2>1. CASE via'[k][t] = via[k][t]
    <3>1. via[k][t] \in Node
      BY <2>1, <1>2 DEF TypeOK
    <3> QED
      BY <2>1, <3>1, <1>3, <1>6 DEF PathsContinue, Continues
  <2>2. CASE via'[k][t] # via[k][t]
    BY <2>2, <1>1, <1>13, Processing DEF ChildRoute
  <2> QED
    BY <2>1, <2>2
<1> QED
  BY <1>8, <1>9, <1>10, <1>11, <1>12, <1>13, <1>14 DEF DownInv

-----------------------------------------------------------------------------
(* The other steps.                                                        *)

\* A DAO that is lost takes nothing away.
LEMMA LoseDown ==
  ASSUME DownInv, NEW n \in Node, NEW d \in Node, LoseDao(n, d)
  PROVE  DownInv'
<1>1. /\ dao' = [dao EXCEPT ![n][d] = {}]
      /\ UNCHANGED <<mop, myRank, parent, parentRank, class, child, via, tree,
                     switches, restarts>>
  BY DEF LoseDao, upVars, downVars
<1>2. TypeOK /\ UpInv /\ DaoInv /\ ChildDown /\ RoutesLeadDown
      /\ ChildRoute /\ PathsContinue
  BY DEF DownInv
<1>3. dao \in [Node -> [Node -> SUBSET Node]]
  BY <1>2 DEF TypeOK
<1>4. TypeOK'
  <2>1. dao' \in [Node -> [Node -> SUBSET Node]]
    BY <1>1, <1>3
  <2> QED
    BY <1>1, <1>2, <2>1 DEF TypeOK
<1>5. DaoInv'
  <2>1. \A y, e \in Node : dao'[y][e] # {} => dao'[y][e] = dao[y][e]
    BY <1>1, <1>3
  <2> QED
    BY <1>1, <1>2, <2>1 DEF DaoInv, Aggregates
<1>6. UpInv' /\ ChildDown' /\ RoutesLeadDown'
  BY <1>1, <1>2 DEF UpInv, Joined, ChildDown, RoutesLeadDown, Below
<1>7. ChildRoute' /\ PathsContinue'
  BY <1>1, <1>2 DEF ChildRoute, PathsContinue, Continues, Aggregates
<1> QED
  BY <1>4, <1>5, <1>6, <1>7 DEF DownInv

\* A switch of class leaves children and routes as they are.
LEMMA SwitchDown ==
  ASSUME DownInv, NEW n \in Node, SwitchClass(n)
  PROVE  DownInv'
<1>1. /\ switches < MaxSwitches /\ switches' = switches + 1
      /\ class' = [class EXCEPT ![n] = IF @ = "S" THEN "N" ELSE "S"]
      /\ UNCHANGED <<mop, myRank, parent, parentRank, child, via, tree, dao,
                     restarts>>
  BY DEF SwitchClass, upVars, downVars
<1>2. TypeOK /\ UpInv /\ DaoInv /\ ChildDown /\ RoutesLeadDown
  BY DEF DownInv
<1>3. /\ switches' \in 0..MaxSwitches /\ switches' # 0
      /\ class' \in [Node -> Class]
  BY <1>1, <1>2, BoundAssumption DEF TypeOK, Class
<1>4. TypeOK'
  BY <1>1, <1>2, <1>3 DEF TypeOK
<1>5. UpInv' /\ ChildDown' /\ RoutesLeadDown'
  BY <1>1, <1>2 DEF UpInv, Joined, ChildDown, RoutesLeadDown, Below
<1>6. DaoInv' /\ ChildRoute' /\ PathsContinue'
  BY <1>1, <1>2, <1>3 DEF DaoInv, ChildRoute, PathsContinue
<1> QED
  BY <1>4, <1>5, <1>6 DEF DownInv

\* The root sends no DAOs, so nobody misses the children it forgets.
LEMMA RestartDown ==
  ASSUME DownInv, RestartRoot
  PROVE  DownInv'
<1> USE RootAssumption
<1>1. /\ restarts < MaxRestarts /\ restarts' = restarts + 1
      /\ child' = [child EXCEPT ![Root] = NoRoutes]
      /\ tree' = {}
      /\ dao' = [n \in Node |-> [dao[n] EXCEPT ![Root] = {}]]
      /\ UNCHANGED <<mop, myRank, parent, parentRank, class, via, switches>>
  BY DEF RestartRoot, upVars
<1>0. UNCHANGED <<mop, myRank, parent, parentRank, class, via, switches>>
  BY <1>1
<1>2. TypeOK /\ UpInv /\ DaoInv /\ ChildDown /\ RoutesLeadDown
      /\ ChildRoute /\ PathsContinue
  BY DEF DownInv
<1>3. /\ dao \in [Node -> [Node -> SUBSET Node]]
      /\ child \in [Node -> [Node -> Node \cup {NoPeer}]]
  BY <1>2 DEF TypeOK
<1>4. TypeOK'
  <2>1. /\ dao' \in [Node -> [Node -> SUBSET Node]]
        /\ child' \in [Node -> [Node -> Node \cup {NoPeer}]]
    BY <1>1, <1>3 DEF NoRoutes
  <2>2. restarts' \in 0..MaxRestarts
    BY <1>1, <1>2, BoundAssumption DEF TypeOK
  <2> QED
    BY <1>1, <1>2, <2>1, <2>2 DEF TypeOK
<1>5. \A n, t \in Node : child'[n][t] # NoPeer => child'[n][t] = child[n][t]
  BY <1>1, <1>3 DEF NoRoutes
<1>6. \A n \in Node \ {Root} : child'[n] = child[n]
  BY <1>1, <1>3
<1>7. DaoInv'
  <2>1. \A y, e \in Node : dao'[y][e] # {} => dao'[y][e] = dao[y][e]
    BY <1>1, <1>3
  <2> SUFFICES ASSUME NEW y \in Node, NEW e \in Node, dao'[y][e] # {}
               PROVE  /\ y # Root /\ parent[y] # NoPeer
                      /\ mop \in Storing \/ (mop = Hybrid /\ e # Root)
                           => parent[y] = e
                      /\ \A t \in dao'[y][e] \ {y} :
                           /\ child'[y][t] # NoPeer
                           /\ switches = 0 => Aggregates(y)
    BY <1>0 DEF DaoInv, Aggregates
  <2>2. dao'[y][e] = dao[y][e] /\ dao[y][e] # {}
    BY <2>1
  <2> QED
    BY <2>2, <1>2, <1>3, <1>6 DEF DaoInv
<1>8. UpInv' /\ RoutesLeadDown' /\ PathsContinue'
  <2>1. UpInv'
    BY <1>0, <1>2 DEF UpInv, Joined
  <2>2. RoutesLeadDown'
    BY <1>0, <1>2 DEF RoutesLeadDown, Below
  <2>3. PathsContinue'
    BY <1>0, <1>2 DEF PathsContinue, Continues
  <2> QED
    BY <2>1, <2>2, <2>3
<1>9. ChildDown'
  BY <1>1, <1>2, <1>5 DEF ChildDown, Below
<1>10. ChildRoute'
  BY <1>1, <1>2, <1>5 DEF ChildRoute, Aggregates
<1> QED
  BY <1>4, <1>7, <1>8, <1>9, <1>10 DEF DownInv

-----------------------------------------------------------------------------
\* The inductive invariant holds throughout.
LEMMA Down == Spec => []DownInv
<1>1. ASSUME DownInv, [Next]_vars
      PROVE  DownInv'
  <2>1. CASE \E n, m \in Node : AcceptDio(n, m)
    BY <1>1, <2>1, AcceptDown
  <2>2. CASE \E n, m \in Node : ProcessDao(n, m)
    BY <1>1, <2>2, ProcessDown
  <2>3. CASE \E n, m \in Node : LoseDao(n, m)
    BY <1>1, <2>3, LoseDown
  <2>4. CASE \E n \in Node : SwitchClass(n)
    BY <1>1, <2>4, SwitchDown
  <2>5. CASE RestartRoot
    BY <1>1, <2>5, RestartDown
  <2>6. CASE UNCHANGED vars
    <3>1. UNCHANGED <<mop, myRank, parent, parentRank, class, child, via, tree,
                      dao, switches, restarts>>
      BY <2>6 DEF vars, upVars, downVars
    <3>2. TypeOK /\ UpInv /\ DaoInv /\ ChildDown /\ RoutesLeadDown
          /\ ChildRoute /\ PathsContinue
      BY <1>1 DEF DownInv
    <3>3. TypeOK'
      BY <3>1, <3>2 DEF TypeOK
    <3>4. UpInv' /\ DaoInv'
      BY <3>1, <3>2 DEF UpInv, Joined, DaoInv, Aggregates
    <3>5. ChildDown' /\ RoutesLeadDown'
      BY <3>1, <3>2 DEF ChildDown, RoutesLeadDown, Below
    <3>6. ChildRoute' /\ PathsContinue'
      BY <3>1, <3>2 DEF ChildRoute, PathsContinue, Continues, Aggregates
    <3> QED
      BY <3>3, <3>4, <3>5, <3>6 DEF DownInv
  <2> QED
    BY <1>1, <2>1, <2>2, <2>3, <2>4, <2>5, <2>6 DEF Next
<1> QED
  BY InitDown, <1>1, PTL DEF Spec

\* Ranks, tables, trees and DAOs keep their types; no rank grows past
\* RankMax, for as many nodes as there are ranks (process_dio, process_dao).
THEOREM Typing == Spec => []TypeOK
<1>1. DownInv => TypeOK
  BY DEF DownInv
<1> QED
  BY <1>1, Down, PTL

\* A host route leads to a child, and the target is that child or below it
\* (process_dao), in every mode, whatever is lost, switched or restarted.
THEOREM RoutesGoDown == Spec => []RoutesLeadDown
<1>1. DownInv => RoutesLeadDown
  BY DEF DownInv
<1> QED
  BY <1>1, Down, PTL

\* While classes stay as configured, no chain of host routes breaks off
\* (process_dao), in every mode and for every assignment of classes.
THEOREM PathsGoOn == Spec => []PathsContinue
<1>1. DownInv => PathsContinue
  BY DEF DownInv
<1> QED
  BY <1>1, Down, PTL

-----------------------------------------------------------------------------
(* HybridDao implements JoinTree.                                          *)

LEMMA InitTree == Init => Tree!Init
<1> SUFFICES ASSUME Init
             PROVE  Tree!Init
  OBVIOUS
<1>1. RankMax # 1
  <2>1. Cardinality(Node) # 0 /\ Cardinality(Node) \in Nat
    BY RootAssumption, NodeAssumption, FS_EmptySet, FS_CardinalityType
  <2> QED
    BY <2>1, RankAssumption
<1>2. {n \in Node : myRank[n] # RankMax} = {Root}
  BY <1>1, RootAssumption DEF Init, RootRank
<1> QED
  BY <1>2 DEF Init, Tree!Init, RootRank

\* An accepted DIO lets its reader join or improve, or changes no rank.
LEMMA AcceptTree ==
  ASSUME DownInv, NEW n \in Node, NEW m \in Node, AcceptDio(n, m)
  PROVE  TreeStep
<1> USE RootAssumption
<1>1. /\ n # Root /\ myRank[m] # RankMax /\ myRank[m] \in Nat
      /\ myRank[m] >= 1 /\ NextParent(n, m) \in Node
      /\ parent' = [parent EXCEPT ![n] = NextParent(n, m)]
  BY Accepting
<1>2. /\ myRank' = [myRank EXCEPT ![n] = myRank[m] + 1]
      /\ myRank[m] <= parentRank[n] /\ Adjacent(n, m)
  BY DEF AcceptDio, Accepts
<1>3. /\ myRank \in [Node -> 0..RankMax] /\ parentRank \in [Node -> 0..RankMax]
      /\ parent \in [Node -> Node \cup {NoPeer}]
      /\ UpInv
  BY DEF DownInv, TypeOK
<1> DEFINE J == {k \in Node : myRank[k] # RankMax}
           K == {k \in Node : myRank'[k] # RankMax}
           r == myRank[m] + 1
<1>4. r # RankMax /\ r \in 1..Cardinality(Node)
  <2>1. UpInv'
    BY AcceptUp
  <2>2. myRank'[n] = r /\ parent'[n] # NoPeer
    BY <1>1, <1>2, <1>3
  <2>3. r # RankMax
    BY <1>1, <2>1, <2>2 DEF UpInv
  <2>4. r \in 1..Cardinality(Joined')
    BY <2>1, <2>2, <2>3 DEF UpInv
  <2>5. Joined' \in SUBSET Node
    BY DEF Joined
  <2>6. /\ Cardinality(Joined') \in Nat /\ Cardinality(Node) \in Nat
        /\ Cardinality(Joined') <= Cardinality(Node)
    BY <2>5, NodeAssumption, FS_Subset, FS_CardinalityType
  <2> HIDE DEF r
  <2> QED
    BY <2>3, <2>4, <2>6
<1>5. K = J \cup {n}
  BY <1>2, <1>3, <1>4
<1>6. m \in J /\ myRank[m] < r /\ Tree!Adjacent(n, m)
  BY <1>1, <1>2 DEF Adjacent, Tree!Adjacent
<1>7. CASE parent[n] = NoPeer
  <2>1. n \notin J /\ NextParent(n, m) = m
    BY <1>1, <1>3, <1>7 DEF UpInv, NextParent
  <2>2. PICK q \in 1..Cardinality(Node) : q = r
    BY <1>4
  <2>3. Tree!Join(n, m, q)
    BY <1>1, <1>2, <1>5, <1>6, <2>1, <2>2 DEF Tree!Join, Tree!MayJoin
  <2>4. Tree!Move(n)
    BY <2>3 DEF Tree!Move
  <2> QED
    BY <2>4 DEF TreeStep, Tree!Next
<1>8. CASE parent[n] # NoPeer
  <2>1. parent' = parent
    BY <1>1, <1>3, <1>8 DEF NextParent
  <2>2. /\ myRank[n] = parentRank[n] + 1 /\ myRank[n] # RankMax
        /\ parentRank[n] \in Nat
    BY <1>1, <1>3, <1>8, RankAssumption DEF UpInv
  <2>3. K = J
    BY <1>5, <2>2
  <2>4. CASE myRank[m] = parentRank[n]
    <3>1. myRank' = myRank
      BY <1>2, <1>3, <2>2, <2>4
    <3> QED
      BY <2>1, <3>1 DEF TreeStep, Tree!treeVars
  <2>5. CASE myRank[m] # parentRank[n]
    <3>1. r < myRank[n] /\ n \in J \ {Root}
      BY <1>1, <1>2, <2>2, <2>5
    <3>2. PICK q \in 1..Cardinality(Node) : q = r
      BY <1>4
    <3>3. Tree!Improve(n, m, q)
      BY <1>2, <1>6, <2>1, <2>3, <3>1, <3>2 DEF Tree!Improve, Tree!MayImprove
    <3>4. Tree!Move(n)
      BY <3>3 DEF Tree!Move
    <3> QED
      BY <3>4 DEF TreeStep, Tree!Next
  <2> QED
    BY <2>4, <2>5
<1> QED
  BY <1>7, <1>8

LEMMA NextTree == DownInv /\ [Next]_vars => TreeStep
<1> SUFFICES ASSUME DownInv, [Next]_vars
             PROVE  TreeStep
  OBVIOUS
<1>1. CASE UNCHANGED upVars
  BY <1>1 DEF upVars, TreeStep, Tree!treeVars
<1>2. ASSUME NEW n \in Node, NEW m \in Node, AcceptDio(n, m)
      PROVE  TreeStep
  BY <1>2, AcceptTree
<1>3. CASE \E n, m \in Node : ProcessDao(n, m) \/ LoseDao(n, m)
  BY <1>1, <1>3 DEF ProcessDao, LoseDao
<1>4. CASE \E n \in Node : SwitchClass(n)
  BY <1>1, <1>4 DEF SwitchClass
<1>5. CASE RestartRoot
  BY <1>1, <1>5 DEF RestartRoot
<1>6. CASE UNCHANGED vars
  BY <1>1, <1>6 DEF vars
<1> QED
  BY <1>2, <1>3, <1>4, <1>5, <1>6 DEF Next

\* process_dio, which sends DAOs by mode and class, forms the tree of
\* JoinTree in every mode: classes, DAOs and restarts of the root do not
\* touch it.
THEOREM ImplementsTree == Spec => JoinsTree /\ Tree!Spec
<1>1. Spec => Tree!Init /\ [][TreeStep]_vars
  BY InitTree, NextTree, Down, PTL DEF Spec
<1>2. [TreeStep]_vars => [Tree!Next]_(Tree!treeVars)
  BY DEF TreeStep, vars, upVars, Tree!treeVars
<1>3. Tree!Init /\ [][TreeStep]_vars => Tree!Spec
  BY <1>2, PTL DEF Tree!Spec
<1> QED
  BY <1>1, <1>3, PTL DEF JoinsTree

=============================================================================

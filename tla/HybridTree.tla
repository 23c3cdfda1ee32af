----------------------------- MODULE HybridTree -----------------------------
(***************************************************************************)
(* HybridDao implements JoinTree: the members are the nodes with a rank of *)
(* their own.  Dodag, where DIOs are lost and late, implements it as long  *)
(* as nothing fails; so the tree that DAOs travel up is the one that DIOs  *)
(* build.                                                                  *)
(***************************************************************************)
EXTENDS HybridDao

Tree == INSTANCE JoinTree WITH
          member <- {n \in Node : myRank[n] # RankMax},
          parent <- parent,
          rank   <- myRank,
          Size   <- Cardinality(Node)

\* A step of the tree, or none; TLC decides first what most steps are.
TreeStep == UNCHANGED Tree!treeVars \/ Tree!Next

\* Tree!Spec: whatever class a node has, whatever DAOs are lost and however
\* often the root restarts, process_dio does no more than join the tree below
\* a member and improve ranks in it: nobody moves, leaves or gets worse.
JoinsTree == Tree!Init /\ [][TreeStep]_vars

=============================================================================

------------------------------ MODULE DodagTree ------------------------------
(***************************************************************************)
(* Without faults, Dodag implements JoinTree: the members are the nodes    *)
(* that hold a dag, and a rank is the node's my_rank.                      *)
(***************************************************************************)
EXTENDS Dodag

Tree == INSTANCE JoinTree WITH
          member <- {n \in Node : dag[n]},
          parent <- parent,
          rank   <- myRank,
          Size   <- Cardinality(Node)

\* For MaxFaults = 0: however DIOs are sent, lost and delayed, process_dio
\* does no more than join a tree and improve ranks in it, and the event loops
\* go on until nothing can be improved.
FormsTree == Tree!FairSpec

\* As long as nothing has failed, and although DIOs are lost and overtake the
\* changes they report, no daemon believes itself nearer to the root than the
\* links allow.
DistanceWithoutFault == faults = 0 => Tree!RankAtLeastDistance

=============================================================================

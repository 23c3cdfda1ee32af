-------------------------- MODULE MCParentLiveness --------------------------
(***************************************************************************)
(* An instance of ParentLiveness for TLC.                                  *)
(***************************************************************************)
EXTENDS ParentLiveness

\* A root with period 9 is silent longer than a node with period 1 waits.
SomePeriods == {1, 5, 9}

=============================================================================

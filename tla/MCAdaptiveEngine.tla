-------------------------- MODULE MCAdaptiveEngine --------------------------
(***************************************************************************)
(* An instance of AdaptiveEngine for TLC.                                  *)
(***************************************************************************)
EXTENDS AdaptiveEngine

\* With Full = 5 and NMax = 3 no score is exactly the threshold.
EmptyOrFull == {0, 5}

=============================================================================

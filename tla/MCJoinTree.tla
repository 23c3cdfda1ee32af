----------------------------- MODULE MCJoinTree -----------------------------
(* JoinTree on five nodes with a cycle and a tail.                         *)
EXTENDS JoinTree

CONSTANTS root, a, b, c, d

MCNode == {root, a, b, c, d}
MCLink == {{root, a}, {root, b}, {a, b}, {a, c}, {b, c}, {c, d}}
MCRankMax == 65535

=============================================================================

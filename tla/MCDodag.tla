------------------------------ MODULE MCDodag ------------------------------
(***************************************************************************)
(* Instances of Dodag for TLC.  RankMax keeps its real value, 65535: ranks *)
(* stay small or wrap, so the width costs no states.                       *)
(***************************************************************************)
EXTENDS DodagTree, TLC

CONSTANTS root, a, b, c

MCRankMax == 65535

\* Root, a and b all hear each other.
Triangle == {root, a, b}
TriangleLinks == {{root, a}, {root, b}, {a, b}}
TriangleSymmetry == Permutations({a, b})

\* root - a - b.
LineLinks == {{root, a}, {a, b}}

\* root - {a, b} - c: c is two hops away by either side.
Diamond == {root, a, b, c}
DiamondLinks == {{root, a}, {root, b}, {a, c}, {b, c}}
DiamondSymmetry == Permutations({a, b})

=============================================================================

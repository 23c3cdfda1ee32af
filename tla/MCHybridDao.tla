---------------------------- MODULE MCHybridDao ----------------------------
(***************************************************************************)
(* Instances of HybridDao for TLC.                                         *)
(***************************************************************************)
EXTENDS HybridTree

CONSTANTS root, a, b, c

\* root - a - b - c, with a link from b to the root as well: b may join
\* below a and hear the root later.
Kite == {root, a, b, c}
KiteLinks == {{root, a}, {a, b}, {root, b}, {b, c}}

\* root - a - b - c.
LineLinks == {{root, a}, {a, b}, {b, c}}

Triangle == {root, a, b}
TriangleLinks == {{root, a}, {root, b}, {a, b}}

\* The class of the root and of a leaf never matters.
InnerProfiles == {f \in [Kite -> Class] : f[root] = "S" /\ f[c] = "S"}
Inner == {a, b}

TriangleProfiles == {f \in [Triangle -> Class] : f[root] = "S"}

EveryMop == {1, 2, 6}
OnlyHybrid == {6}

=============================================================================

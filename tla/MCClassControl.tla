--------------------------- MODULE MCClassControl ---------------------------
(* ClassControl with two interfaces and two senders.  The ratios of the    *)
(* code's times are kept where they matter: an interval is longer than the *)
(* hysteresis, a minute is longer than what the counter allows intervals.  *)
EXTENDS ClassControl, TLC

CONSTANTS s1, s2

Senders == {s1, s2}
SenderSymmetry == Permutations(Senders)
OneSender == {s1}
OneInterface == {1}
TwoInterfaces == {1, 2}

=============================================================================

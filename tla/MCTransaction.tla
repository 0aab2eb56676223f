--------------------------- MODULE MCTransaction ---------------------------
(* Small instances of Transaction for TLC. *)
EXTENDS Transaction, TLC

CONSTANTS w1, w2, o1

TwoWindows == {w1, w2}
WindowsAndOutput == {w1, w2, o1}
WindowAndOutput == {w1, o1}
OneWindow == {w1}

Symmetry == Permutations(TwoWindows)
=============================================================================

-------------------------- MODULE MCXdgShellView ---------------------------
(* Small instances of XdgShellView for TLC. *)
EXTENDS XdgShellView, TLC

CONSTANTS w1, w2, o1

OneWindow == {w1}
TwoWindows == {w1, w2}
WindowAndOutput == {w1, o1}

=============================================================================

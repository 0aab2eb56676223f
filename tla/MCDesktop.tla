------------------------------ MODULE MCDesktop ------------------------------
(* Small instances of what clients and the pointer do to windows, for TLC.    *)
(* As in MCInput one of the components, part, moves in a behaviour.           *)
EXTENDS Seatop, Xwayland, WorkspaceProtocol

CONSTANTS Parts, a, b, k1, k2
VARIABLE part

\* Of the operations: a column of two windows, room for a stacked one, and a binding of
\* the right button on title bars.
TwoWindows == {a, b}
TwoColumns == {k1, k2}
OneColumn == <<k1>>
BothInIt == [c \in TwoColumns |-> IF c = k1 THEN <<a, b>> ELSE << >>]
SecondStacked == {k2}
EdgeAndCorner == {{"left"}, {"bottom", "right"}}
OneMouseBinding == <<[buttons |-> {"right"}, release |-> FALSE, regions |-> {"titlebar"}, input |-> "*"]>>
SameWindows == Permutations({a, b})

-----------------------------------------------------------------------------

MCInit == part \in Parts /\ SeatopInit /\ XwaylandInit /\ WpInit

MCNext ==
  /\ UNCHANGED part
  /\ \/ part = "seatop" /\ SeatopNext /\ UNCHANGED <<xwVars, wpVars>>
     \/ part = "xwayland" /\ XwaylandNext /\ UNCHANGED <<soVars, wpVars>>
     \/ part = "workspaces" /\ WpNext /\ UNCHANGED <<soVars, xwVars>>

MCSpec == MCInit /\ [][MCNext]_<<soVars, xwVars, wpVars, part>>
=============================================================================

---------------------------- MODULE AtomicLayout ----------------------------
(***************************************************************************)
(* What hayward's transactions promise (include/hayward/tree/transaction.h *)
(* lines 13-28): changes to the wanted layout are never shown one by one.  *)
(* The layout that every client is told about is a snapshot of the whole   *)
(* wanted layout, taken at one instant, and that snapshot reaches the      *)
(* screen in one step, before the next snapshot is taken.                  *)
(***************************************************************************)

CONSTANTS Node,         \* everything that takes part in a transaction
          Look          \* what a node may look like on the screen

VARIABLES wanted,       \* the layout being edited
          agreed,       \* the snapshot the clients are being told about
          shown,        \* the layout on the screen
          settling      \* TRUE between a snapshot and its appearance

vars == <<wanted, agreed, shown, settling>>

Layouts == [Node -> Look]

TypeOK == /\ wanted \in Layouts
          /\ agreed \in Layouts
          /\ shown \in Layouts
          /\ settling \in BOOLEAN

Init == /\ wanted \in Layouts
        /\ agreed = wanted
        /\ shown = wanted
        /\ settling = FALSE

\* The layout is edited; nothing else moves.
Edit == /\ wanted' \in Layouts
        /\ UNCHANGED <<agreed, shown, settling>>

\* A snapshot of the whole layout, after last adjustments, is sent out.
Snapshot == /\ ~settling
            /\ wanted' \in Layouts
            /\ agreed' = wanted'
            /\ settling' = TRUE
            /\ UNCHANGED shown

\* The whole snapshot appears at once.
Show == /\ settling
        /\ shown' = agreed
        /\ settling' = FALSE
        /\ UNCHANGED <<wanted, agreed>>

Next == Edit \/ Snapshot \/ Show

Spec == Init /\ [][Next]_vars
=============================================================================

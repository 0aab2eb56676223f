------------------------------- MODULE MCTree -------------------------------
(* Small instances of Tree for TLC. *)
EXTENDS Tree

CONSTANTS w1, w2, w3, o1, o2

TwoWindows == {w1, w2}
ThreeWindows == {w1, w2, w3}
OneWindow == {w1}
OneOutput == {o1}
TwoOutputs == {o1, o2}

\* The second output is to the right of the first.
SideBySide == {<<o1, "right", o2>>, <<o2, "left", o1>>}

WindowSymmetry == Permutations(Window)

\* Marks that change nothing: Arrange would make them itself, or they are on
\* nodes it does not look at, which are marked when they come into its sight.
Redundant ==
  LET s == tree.activeWorkspace
      columns == IF s \in tree.dirty THEN {} ELSE ToSet(tree.columns[s])
      tiles == UNION {ToSet(tree.children[c]) : c \in columns \ tree.dirty}
      floats == IF s \in tree.dirty THEN {} ELSE ToSet(tree.floating[s])
      shown == {tree.pShown[o] : o \in Output \ tree.dirty}
  IN  IF Root \in tree.dirty THEN tree.dirty \ {Root}
      ELSE tree.dirty \ ({s} \cup Output \cup columns \cup tiles \cup floats \cup shown)

View == [tree EXCEPT !.dirty = @ \ Redundant]

\* The tree without its marks and copies, and without the names of columns.  Only
\* Arrange reads marks and copies, and what it changes is not in this view: for
\* properties of the tree alone.
Structure ==
  LET Shape(c) == <<tree.colOutput[c], tree.children[c], tree.activeChild[c]>>
  IN  <<tree.workspaces, tree.activeWorkspace, tree.outputs, tree.activeOutput,
        [s \in Workspace |-> [i \in DOMAIN tree.columns[s] |-> Shape(tree.columns[s][i])]],
        [s \in Workspace |-> IndexIn(tree.columns[s], tree.activeColumn[s])],
        tree.floating, tree.focusMode, tree.status, tree.output, tree.history,
        tree.fullscreen, tree.fullscreenWindows, tree.overlay, tree.focused, tree.crashed>>
=============================================================================

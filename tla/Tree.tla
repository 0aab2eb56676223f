-------------------------------- MODULE Tree --------------------------------
(***************************************************************************)
(* hayward's window tree: workspaces hold columns of tiling windows and a  *)
(* stack of floating ones, outputs hold stacks of fullscreen windows, and  *)
(* at every level something is active; what is active at the top has the   *)
(* focus, unless a layer surface or an unmanaged one took it.              *)
(* (src/src/tree/root.c, workspace.c, column.c, window.c and output.c, the *)
(* commands that change the tree, and the handlers that map and unmap.)    *)
(*                                                                         *)
(* The tree is one record.  An operator of this module is a function of    *)
(* the C code: it takes the tree and returns the tree the function leaves  *)
(* behind.  An action is a callback of the event loop or a command, which  *)
(* runs to its end.  `dirty' holds the nodes marked for the transaction    *)
(* that Arrange prepares: it copies what is dirty, and only that, into the *)
(* pending copies, whose names begin with p.                               *)
(*                                                                         *)
(* Left out: geometry, urgency, column layouts, windows being moved with   *)
(* the pointer, and outputs that go away.                                  *)
(***************************************************************************)
EXTENDS Naturals, FiniteSets, Sequences, SequencesExt

CONSTANTS Window, Workspace, Column, Output,
          Root, None,
          FirstWorkspace, \* the workspace main() creates
          Adjacent,       \* <<o, d, p>>: output p is the next one in direction d
          Inputs          \* the rarer kinds of input that are in use

Direction == {"left", "right", "up", "down"}

ASSUME NodesAssumption ==
  /\ FirstWorkspace \in Workspace
  /\ Adjacent \subseteq Output \X Direction \X Output
  /\ Inputs \subseteq {"touch", "hover", "mouse binding", "other output"}
  /\ None \notin Window \cup Workspace \cup Column \cup Output \cup {Root}

VARIABLE tree

Node == Window \cup Workspace \cup Column \cup Output \cup {Root}
BlankLook == [kind |-> "none", state |-> "none", focused |-> FALSE, full |-> FALSE]

\* Sets of windows, columns, ... that a pointer can be NULL in.
Maybe(S) == S \cup {None}

Alive(t) == {w \in Window : t.status[w] = "alive"}
Outputs(t) == ToSet(t.outputs)

Mark(t, nodes) == [t EXCEPT !.dirty = @ \cup nodes]
IndexIn(s, e) == SelectInSeq(s, LAMBDA x : x = e)

-----------------------------------------------------------------------------
(* What is active. *)

IsFloating(t, w) == t.workspace[w] # None /\ t.column[w] = None
IsTiling(t, w) == t.column[w] # None

\* workspace_get_active_tiling_window, .._floating_window, .._window
ActiveTiling(t, s) ==
  IF t.activeColumn[s] = None THEN None ELSE t.activeChild[t.activeColumn[s]]
ActiveFloating(t, s) ==
  IF t.floating[s] = << >> THEN None ELSE Last(t.floating[s])
ActiveWindow(t, s) ==
  IF t.focusMode[s] = "tiling" THEN ActiveTiling(t, s) ELSE ActiveFloating(t, s)

\* root_get_focused_window, root_get_focused_surface
FocusedWindow(t) ==
  IF t.overlay = None THEN ActiveWindow(t, t.activeWorkspace) ELSE None
Focus(t) == IF t.overlay = None THEN FocusedWindow(t) ELSE t.overlay

\* workspace_get_fullscreen_window_for_output
FullscreenFor(t, o) ==
  IF t.fullscreenWindows[o] = << >> THEN None ELSE Last(t.fullscreenWindows[o])

\* The places of the columns of a workspace that are on an output.
ColumnsOn(t, s, o) == {i \in DOMAIN t.columns[s] : t.colOutput[t.columns[s][i]] = o}

\* The first or last of some elements of a list, if there is one.
FirstOf(list, places) == IF places = {} THEN None ELSE list[Min(places)]
LastOf(list, places) == IF places = {} THEN None ELSE list[Max(places)]

\* workspace_get_column_first, .._last, .._before, .._after
ColumnFirst(t, s, o) == FirstOf(t.columns[s], ColumnsOn(t, s, o))
ColumnLast(t, s, o) == LastOf(t.columns[s], ColumnsOn(t, s, o))
ColumnBefore(t, c) ==
  LET s == t.colWorkspace[c]
      i == IndexIn(t.columns[s], c)
  IN  LastOf(t.columns[s], {j \in ColumnsOn(t, s, t.colOutput[c]) : j < i})
ColumnAfter(t, c) ==
  LET s == t.colWorkspace[c]
      i == IndexIn(t.columns[s], c)
  IN  FirstOf(t.columns[s], {j \in ColumnsOn(t, s, t.colOutput[c]) : j > i})

LastOr(s) == IF s = << >> THEN None ELSE Last(s)
NextIn(s, e) == LET i == IndexIn(s, e) IN IF i < Len(s) THEN s[i + 1] ELSE None
PrevIn(s, e) == LET i == IndexIn(s, e) IN IF i > 1 THEN s[i - 1] ELSE None

\* root_get_output_in_direction
OutputInDirection(t, o, d) ==
  LET beside == {p \in Outputs(t) : <<o, d, p>> \in Adjacent}
  IN  IF beside = {} THEN None ELSE CHOOSE p \in beside : TRUE

-----------------------------------------------------------------------------
(* Windows and where they belong. *)

\* window_reconcile_tiling
ReconcileTiling(t, w, c) ==
  [t EXCEPT !.workspace[w] = t.colWorkspace[c], !.column[w] = c,
            !.history[w] = <<t.colOutput[c]>>, !.output[w] = t.colOutput[c],
            !.dirty = @ \cup {w}]

\* window_reconcile_floating
ReconcileFloating(t, w, s) ==
  [t EXCEPT !.workspace[w] = s, !.column[w] = None, !.dirty = @ \cup {w}]

\* window_reconcile_detached
ReconcileDetached(t, w) ==
  [t EXCEPT !.workspace[w] = None, !.column[w] = None, !.dirty = @ \cup {w}]

\* column_insert_child: i is the position the window will have.
InsertChild(t, c, w, i) ==
  LET first == IF t.children[c] = << >> THEN [t EXCEPT !.activeChild[c] = w] ELSE t
      listed == [first EXCEPT !.children[c] = InsertAt(@, i, w)]
  IN  Mark(ReconcileTiling(listed, w, c), {c})

\* column_add_child
AddChild(t, c, w) == InsertChild(t, c, w, Len(t.children[c]) + 1)

\* column_add_sibling: next to a window that stays the active child if it is.
AddSibling(t, fixed, w, after) ==
  LET c == t.column[fixed]
      i == IndexIn(t.children[c], fixed)
      listed == [t EXCEPT !.children[c] = InsertAt(@, IF after THEN i + 1 ELSE i, w)]
  IN  Mark(ReconcileTiling(ReconcileTiling(listed, fixed, c), w, c), {c})

\* Next to the active child of the column, if it has one.
AddBesideActive(t, c, sibling, w) ==
  IF sibling # None THEN AddSibling(t, sibling, w, TRUE) ELSE AddChild(t, c, w)

\* Mutant: no other child becomes active.
RemoveChildNoneActive(t, c, w) ==
  LET unlisted == [t EXCEPT !.children[c] = RemoveFirst(@, w),
                            !.activeChild[c] = IF @ = w THEN None ELSE @]
  IN  Mark(ReconcileDetached(unlisted, w), {c})

\* column_remove_child
RemoveChild(t, c, w) ==
  LET i == IndexIn(t.children[c], w)
      rest == RemoveFirst(t.children[c], w)
      next == IF rest = << >> THEN None ELSE rest[IF i > 1 THEN i - 1 ELSE 1]
      unlisted == [t EXCEPT !.children[c] = rest,
                            !.activeChild[c] = IF @ = w THEN next ELSE @]
      chosen == IF t.activeChild[c] = w /\ next # None
                  THEN ReconcileTiling(unlisted, next, c) ELSE unlisted
  IN  Mark(ReconcileDetached(chosen, w), {c})

\* column_set_active_child
SetActiveChild(t, c, w) ==
  LET prev == t.activeChild[c]
      chosen == ReconcileTiling([t EXCEPT !.activeChild[c] = w], w, c)
  IN  IF prev = w THEN t
      ELSE Mark(IF prev = None THEN chosen ELSE ReconcileTiling(chosen, prev, c), {c})

\* workspace_add_floating
AddFloating(t, s, w) ==
  LET prev == ActiveFloating(t, s)
      listed == [t EXCEPT !.floating[s] = Append(@, w)]
      placed == IF t.history[w] # << >> THEN listed
                ELSE [listed EXCEPT !.history[w] = <<t.activeOutput>>,
                                    !.output[w] = t.activeOutput]
      added == ReconcileFloating(placed, w, s)
  IN  Mark(IF prev = None THEN added ELSE ReconcileFloating(added, prev, s), {s})

\* Mutant: the focus mode is reset whatever is left.
RemoveFloatingTilingMode(t, s, w) ==
  LET rest == RemoveFirst(t.floating[s], w)
      unlisted == [t EXCEPT !.floating[s] = rest, !.focusMode[s] = "tiling"]
  IN  ReconcileDetached(unlisted, w)

\* workspace_remove_floating
RemoveFloating(t, s, w) ==
  LET rest == RemoveFirst(t.floating[s], w)
      unlisted == [t EXCEPT !.floating[s] = rest,
                            !.focusMode[s] = IF rest = << >> THEN "tiling" ELSE @]
      tiling == ActiveTiling(t, s)
      chosen == IF rest # << >> THEN ReconcileFloating(unlisted, Last(rest), s)
                ELSE IF tiling # None
                       THEN ReconcileTiling(unlisted, tiling, t.column[tiling])
                       ELSE unlisted
  IN  ReconcileDetached(IF w \in t.fullscreen THEN Mark(chosen, {t.output[w]})
                                              ELSE chosen, w)

\* window_detach
Detach(t, w) ==
  IF IsTiling(t, w) THEN RemoveChild(t, t.column[w], w)
  ELSE IF IsFloating(t, w) THEN RemoveFloating(t, t.workspace[w], w)
  ELSE t

\* window_fullscreen_on_output, which asserts that the window's output is in its
\* history.  A window that is fullscreen elsewhere stays on that output's list.
FullscreenOn(t, w, o) ==
  LET current == t.output[w]
      left == IF w \notin t.fullscreen THEN t
              ELSE Mark([t EXCEPT !.fullscreenWindows[o] = RemoveFirst(@, w)], {current})
      marked == Mark(left, {t.workspace[w], t.column[w]} \ {None})
      others == RemoveFirst(t.history[w], o)
      moved == IF o = current THEN marked
               ELSE [marked EXCEPT
                       !.history[w] = InsertAt(others, IndexIn(others, current), o),
                       !.output[w] = o]
  IN  IF w \in t.fullscreen /\ o = current THEN t
      ELSE IF o # current /\ ~Contains(others, current) THEN [t EXCEPT !.crashed = TRUE]
      ELSE [moved EXCEPT !.fullscreenWindows[o] = Append(@, w),
                         !.fullscreen = @ \cup {w}, !.dirty = @ \cup {o}]

\* Mutant: the container of the window is not marked either.
UnfullscreenUnmarked(t, w) ==
  [t EXCEPT !.fullscreen = @ \ {w},
            !.fullscreenWindows = [o \in Output |-> RemoveFirst(@[o], w)]]

\* window_unfullscreen: the output itself is not marked dirty.
Unfullscreen(t, w) ==
  LET unlisted == [t EXCEPT !.fullscreen = @ \ {w},
                            !.fullscreenWindows = [o \in Output |-> RemoveFirst(@[o], w)]]
      c == t.column[w]
      home == t.colOutput[c]
      others == RemoveFirst(t.history[w], home)
      returned == IF home = t.output[w] THEN unlisted
                  ELSE [unlisted EXCEPT
                          !.history[w] = InsertAt(others, IndexIn(others, t.output[w]), home),
                          !.output[w] = home]
  IN  IF w \notin t.fullscreen THEN t
      ELSE IF IsTiling(t, w) THEN Mark(returned, {c})
      ELSE Mark(unlisted, {t.workspace[w]})

\* Mutant: a fullscreen window stays on the lists of its outputs.
BeginDestroyListed(t, w) ==
  [Detach(t, w) EXCEPT !.history[w] = << >>, !.status[w] = "dead", !.dirty = @ \cup {w}]

\* window_begin_destroy: a fullscreen window leaves the outputs in its history.
BeginDestroy(t, w) ==
  LET left == Detach(t, w)
      on == IF w \in t.fullscreen THEN ToSet(left.history[w]) ELSE {}
  IN  [left EXCEPT !.fullscreenWindows =
                     [o \in Output |-> IF o \in on THEN RemoveFirst(@[o], w) ELSE @[o]],
                   !.history[w] = << >>, !.status[w] = "dead",
                   !.dirty = @ \cup on \cup {w}]

-----------------------------------------------------------------------------
(* Columns and workspaces come and go. *)

\* A column nothing refers to: column_create allocates one.
Unused(t, c) ==
  /\ \A s \in Workspace : ~Contains(t.columns[s], c) /\ t.activeColumn[s] # c
  /\ ~Contains(t.pColumns, c)
  /\ \A w \in Window : t.column[w] # c

NewColumn(t) == CHOOSE c \in Column : Unused(t, c)

\* workspace_insert_column_first, .._last
InsertColumn(t, s, o, i, c) ==
  [t EXCEPT !.columns[s] = InsertAt(@, i, c),
            !.colWorkspace[c] = s, !.colOutput[c] = o, !.dirty = @ \cup {c, s}]
InsertFirst(t, s, o) == InsertColumn(t, s, o, 1, NewColumn(t))
InsertLast(t, s, o) == InsertColumn(t, s, o, Len(t.columns[s]) + 1, NewColumn(t))

\* workspace_create
CreateWorkspace(t, s) ==
  IF s \in t.workspaces THEN t
  ELSE [t EXCEPT !.workspaces = @ \cup {s}, !.dirty = @ \cup {s, Root}]

\* Mutant: the active workspace is not spared.
WorkspaceConsiderDestroyActive(t, s) ==
  IF s \notin t.workspaces \/ t.columns[s] # << >> \/ t.floating[s] # << >>
    THEN t
    ELSE [t EXCEPT !.workspaces = @ \ {s}, !.dirty = @ \cup {s, Root}]

\* workspace_consider_destroy
WorkspaceConsiderDestroy(t, s) ==
  IF \/ s \notin t.workspaces \/ s = t.activeWorkspace
     \/ t.columns[s] # << >> \/ t.floating[s] # << >>
    THEN t
    ELSE [t EXCEPT !.workspaces = @ \ {s}, !.dirty = @ \cup {s, Root}]

\* Mutant: the destroyed column stays the active one.
ColumnConsiderDestroyActive(t, c) ==
  LET s == t.colWorkspace[c]
      unlisted == [t EXCEPT !.columns[s] = RemoveFirst(@, c)]
  IN  IF t.children[c] # << >> THEN t
      ELSE Mark(WorkspaceConsiderDestroy(unlisted, s), {c, s})

\* column_consider_destroy: the next active column is the last one before it on
\* its output, or else the first one after it.
ColumnConsiderDestroy(t, c) ==
  LET s == t.colWorkspace[c]
      next == IF ColumnBefore(t, c) # None THEN ColumnBefore(t, c) ELSE ColumnAfter(t, c)
      unlisted == [t EXCEPT !.columns[s] = RemoveFirst(@, c),
                            !.activeColumn[s] = IF @ = c THEN next ELSE @]
      marked == IF t.activeColumn[s] = c THEN Mark(unlisted, {next} \ {None})
                                         ELSE unlisted
  IN  IF t.children[c] # << >> THEN t
      ELSE Mark(WorkspaceConsiderDestroy(marked, s), {c, s})

\* Where a window goes that is to be tiled on an output of a workspace: its
\* active column, its first one, or a new one.
ColumnFor(t, s, o) ==
  LET active == t.activeColumn[s]
  IN  IF active # None /\ t.colOutput[active] = o THEN active
      ELSE ColumnFirst(t, s, o)
EnsureColumn(t, s, o) == IF ColumnFor(t, s, o) # None THEN t ELSE InsertFirst(t, s, o)

-----------------------------------------------------------------------------
(* Focus. *)

\* Mutant: the active output does not follow the window.
SetActiveWindowHere(t, s, w) ==
  LET chosen ==
        IF w = None
          THEN [t EXCEPT !.activeColumn[s] = None, !.focusMode[s] = "tiling"]
        ELSE IF IsFloating(t, w)
          THEN ReconcileFloating([t EXCEPT !.floating[s] = Append(RemoveFirst(@, w), w),
                                           !.focusMode[s] = "floating"], w, s)
          ELSE [SetActiveChild(t, t.column[w], w) EXCEPT
                  !.activeColumn[s] = t.column[w], !.focusMode[s] = "tiling"]
  IN  IF w = ActiveWindow(t, s) THEN t ELSE Mark(chosen, {s})

\* workspace_set_active_window
SetActiveWindow(t, s, w) ==
  LET prev == ActiveWindow(t, s)
      c == t.column[w]
      chosen ==
        IF w = None
          THEN [t EXCEPT !.activeColumn[s] = None, !.focusMode[s] = "tiling"]
        ELSE IF IsFloating(t, w)
          THEN ReconcileFloating([t EXCEPT !.floating[s] = Append(RemoveFirst(@, w), w),
                                           !.focusMode[s] = "floating"], w, s)
          ELSE [SetActiveChild(t, c, w) EXCEPT
                  !.activeColumn[s] = c, !.focusMode[s] = "tiling",
                  !.activeOutput = IF s = t.activeWorkspace THEN t.colOutput[c] ELSE @]
      released == IF prev = None THEN chosen
                  ELSE IF IsFloating(t, prev) THEN ReconcileFloating(chosen, prev, s)
                  ELSE ReconcileTiling(chosen, prev, t.column[prev])
  IN  IF w = prev THEN t ELSE Mark(released, {s})

\* root_set_active_workspace
SetActiveWorkspace(t, s) ==
  LET old == t.activeWorkspace
      active == t.activeColumn[s]
      left == WorkspaceConsiderDestroy([t EXCEPT !.activeWorkspace = s], old)
      there == IF active = None THEN left
               ELSE [left EXCEPT !.activeOutput = t.colOutput[active]]
  IN  IF s = old THEN t ELSE Mark(there, {old, s, Root} \cup Outputs(t))

\* root_set_focused_window, which asserts that the window is in a workspace
SetFocusedWindow(t, w) ==
  LET s == t.workspace[w]
  IN  IF s = None THEN [t EXCEPT !.crashed = TRUE]
      ELSE SetActiveWindow(SetActiveWorkspace([t EXCEPT !.overlay = None], s), s, w)

\* root_set_focused_layer and root_set_focused_surface, with a surface
SetFocusedLayer(t) == [t EXCEPT !.overlay = "layer"]
SetFocusedSurface(t) ==
  [SetActiveWindow(t, t.activeWorkspace, None) EXCEPT !.overlay = "unmanaged"]

\* root_commit_focus
CommitFocus(t) ==
  LET old == t.focused
      new == FocusedWindow(t)
      lost == IF old \in Alive(t) /\ old # new THEN {old, t.column[old]} \ {None} ELSE {}
  IN  Mark([t EXCEPT !.focused = Focus(t)], lost \cup ({new} \ {None, old}))

-----------------------------------------------------------------------------
(* Arranging: root_handle_transaction_before_commit. *)

\* The last fullscreen window of the active workspace: output_arrange.
VisibleFullscreen(t, o) ==
  LastOr(SelectSeq(t.fullscreenWindows[o],
                   LAMBDA w : t.workspace[w] = t.activeWorkspace))

\* What window_arrange and window_get_theme make of a window.
LookOf(t, w) ==
  LET s == t.workspace[w]
      c == t.column[w]
  IN  [kind |-> IF c = None THEN "floating"
                ELSE IF Head(t.children[c]) = w THEN "tiled head" ELSE "tiled",
       state |-> IF ActiveWindow(t, s) = w THEN "focused"
                 ELSE IF c # None /\ t.activeChild[c] = w THEN "active" ELSE "inactive",
       focused |-> s = t.activeWorkspace /\ ActiveWindow(t, s) = w,
       full |-> w \in t.fullscreen]

\* root_arrange for the root itself
ArrangeRoot(t) ==
  IF Root \notin t.dirty THEN t
  ELSE Mark([t EXCEPT !.pWorkspace = t.activeWorkspace],
            {t.activeWorkspace} \cup Outputs(t))

\* workspace_arrange
ArrangeWorkspace(t) ==
  LET s == t.pWorkspace
      floating == SelectSeq(t.floating[s], LAMBDA w : w \notin t.fullscreen)
  IN  IF s \notin t.dirty THEN t
      ELSE Mark([t EXCEPT !.pColumns = t.columns[s], !.pFloating = floating],
                ToSet(t.columns[s]) \cup ToSet(floating))

\* column_arrange, for every column of the workspace
ArrangeColumns(t) ==
  LET due == ToSet(t.pColumns) \cap t.dirty
  IN  Mark([t EXCEPT !.pChildren =
              [c \in Column |-> IF c \in due THEN t.children[c] ELSE @[c]]],
           UNION {ToSet(t.children[c]) : c \in due})

\* output_arrange, for every output
ArrangeOutputs(t) ==
  LET due == Outputs(t) \cap t.dirty
  IN  Mark([t EXCEPT !.pShown =
              [o \in Output |-> IF o \in due THEN VisibleFullscreen(t, o) ELSE @[o]]],
           {VisibleFullscreen(t, o) : o \in due} \ {None})

\* The windows window_arrange is called for: by the workspace, and by the outputs.
ReachedInWorkspace(t) ==
  ToSet(t.pFloating) \cup UNION {ToSet(t.pChildren[c]) : c \in ToSet(t.pColumns)}
Reached(t) == ReachedInWorkspace(t) \cup ({t.pShown[o] : o \in Output} \ {None})

\* window_arrange: a window that has left the tree has no workspace to look at.
ArrangeWindows(t) ==
  LET due == Reached(t) \cap t.dirty
  IN  IF \E w \in due : t.workspace[w] = None
        THEN [t EXCEPT !.crashed = TRUE]
        ELSE [t EXCEPT !.pLook = [w \in Window |-> IF w \in due THEN LookOf(t, w)
                                                                ELSE @[w]]]

Arranged(t) ==
  ArrangeWindows(ArrangeOutputs(ArrangeColumns(ArrangeWorkspace(ArrangeRoot(t)))))

-----------------------------------------------------------------------------
(* Memory: what nothing refers to may be allocated anew, and a copy that will *)
(* be made again before it is read has no value worth keeping.                *)

Else(S, f, blank) == [x \in DOMAIN f |-> IF x \in S THEN blank ELSE f[x]]

\* The copies without those that the next Arrange overwrites before reading.
Settled(t) ==
  LET columns == IF {Root, t.pWorkspace} \cap t.dirty = {} THEN t.pColumns ELSE << >>
      floating == IF {Root, t.pWorkspace} \cap t.dirty = {} THEN t.pFloating ELSE << >>
      shown == Else(IF Root \in t.dirty THEN Output ELSE Output \cap t.dirty, t.pShown, None)
      kept == [t EXCEPT !.pColumns = columns, !.pFloating = floating, !.pShown = shown,
                        !.pChildren = Else((Column \ ToSet(columns)) \cup t.dirty, @, << >>)]
  IN  [kept EXCEPT !.pLook = Else((Window \ Reached(kept)) \cup t.dirty, @, BlankLook)]

Forgotten(t) ==
  LET columns == {c \in Column : Unused(t, c)}
      windows == {w \in Window : /\ t.status[w] = "dead"
                                 /\ w \notin Reached(t)
                                 /\ \A o \in Output : ~Contains(t.fullscreenWindows[o], w)}
  IN  [t EXCEPT
         !.dirty = @ \ (columns \cup windows \cup (Workspace \ t.workspaces)),
         !.children = Else(columns, @, << >>), !.activeChild = Else(columns, @, None),
         !.colWorkspace = Else(columns, @, None), !.colOutput = Else(columns, @, None),
         !.activeColumn = Else(Workspace \ t.workspaces, @, None),
         !.focusMode = Else(Workspace \ t.workspaces, @, "tiling"),
         !.status = Else(windows, @, "absent"), !.output = Else(windows, @, None),
         !.fullscreen = @ \ windows]

Become(t) == tree' = Forgotten(Settled(t))

-----------------------------------------------------------------------------
(* The callbacks and commands. *)

Init ==
  tree = [workspaces |-> {FirstWorkspace}, activeWorkspace |-> FirstWorkspace,
          outputs |-> << >>, activeOutput |-> None,
          columns |-> [s \in Workspace |-> << >>],
          floating |-> [s \in Workspace |-> << >>],
          activeColumn |-> [s \in Workspace |-> None],
          focusMode |-> [s \in Workspace |-> "tiling"],
          children |-> [c \in Column |-> << >>],
          activeChild |-> [c \in Column |-> None],
          colWorkspace |-> [c \in Column |-> None],
          colOutput |-> [c \in Column |-> None],
          status |-> [w \in Window |-> "absent"],
          workspace |-> [w \in Window |-> None],
          column |-> [w \in Window |-> None],
          output |-> [w \in Window |-> None],
          history |-> [w \in Window |-> << >>],
          fullscreen |-> {},
          fullscreenWindows |-> [o \in Output |-> << >>],
          overlay |-> None, focused |-> None,
          dirty |-> {Root, FirstWorkspace},
          pWorkspace |-> FirstWorkspace, pColumns |-> << >>, pFloating |-> << >>,
          pChildren |-> [c \in Column |-> << >>],
          pShown |-> [o \in Output |-> None],
          pLook |-> [w \in Window |-> BlankLook],
          crashed |-> FALSE]

\* handle_new_output, output_enable
NewOutput(o) ==
  /\ o \notin Outputs(tree)
  /\ Become(Mark([tree EXCEPT !.outputs = Append(@, o),
                              !.activeOutput = IF @ = None THEN o ELSE @], {Root}))

\* should_focus of both shells
ShouldFocus(t, w) ==
  /\ t.workspace[w] = t.activeWorkspace
  /\ FullscreenFor(t, t.output[w]) \in {None, w}

\* hwd_xdg_shell_view_handle_wlr_surface_map; the handler of XWayland windows
\* does the same.  The assertion asks for an output.
Map(w, floats, full, o) ==
  LET s == tree.activeWorkspace
      sibling == ActiveTiling(tree, s)
      created == Mark([tree EXCEPT !.status[w] = "alive"], {w})
      placed ==
        IF floats THEN AddFloating(created, s, w)
        ELSE IF sibling # None THEN AddSibling(created, sibling, w, TRUE)
        ELSE AddChild(InsertFirst(created, s, o), NewColumn(created), w)
      shown == IF full THEN FullscreenOn(placed, w, o) ELSE placed
      chosen == IF ShouldFocus(shown, w) THEN SetFocusedWindow(shown, w) ELSE shown
  IN  /\ tree.status[w] = "absent"
      /\ o \in Outputs(tree)
      /\ o = tree.activeOutput \/ "other output" \in Inputs
      /\ Become(CommitFocus(chosen))

\* Mutant: the emptied column is kept.
UnmapKeepingColumn(w) ==
  LET s == tree.workspace[w]
      cleaned == WorkspaceConsiderDestroy(BeginDestroy(tree, w), s)
  IN  /\ w \in Alive(tree)
      /\ Become(CommitFocus(Mark(cleaned, {s} \cap cleaned.workspaces)))

\* hwd_xdg_shell_view_handle_wlr_surface_unmap
Unmap(w) ==
  LET c == tree.column[w]
      s == tree.workspace[w]
      left == BeginDestroy(tree, w)
      cleaned == WorkspaceConsiderDestroy(
                   IF c = None THEN left ELSE ColumnConsiderDestroy(left, c), s)
  IN  /\ w \in Alive(tree)
      /\ Become(CommitFocus(Mark(cleaned, {s} \cap cleaned.workspaces)))

\* hwd_xdg_shell_view_handle_wlr_toplevel_request_fullscreen
RequestFullscreen(w, full, o) ==
  /\ w \in Alive(tree)
  /\ o \in Outputs(tree)
  /\ o = tree.output[w] \/ (full /\ "other output" \in Inputs)
  /\ Become(Mark(IF full THEN FullscreenOn(tree, w, o) ELSE Unfullscreen(tree, w), {w}))

\* A click on a window, the pointer entering it, or an activation request.
FocusWindow(w) ==
  /\ w \in Alive(tree)
  /\ Become(CommitFocus(SetFocusedWindow(tree, w)))

\* handle_touch_down on a surface that accepts touch
TouchDown(w) ==
  /\ "touch" \in Inputs
  /\ w \in Alive(tree)
  /\ Become(SetFocusedWindow(tree, w))

\* handle_button on an empty part of the workspace
ClickWorkspace ==
  /\ tree.outputs # << >>
  /\ Become(CommitFocus(SetActiveWindow(tree, tree.activeWorkspace, None)))

\* check_focus_follows_mouse over a gap or a layer surface of another output
HoverOutput(o) ==
  /\ "hover" \in Inputs
  /\ o \in Outputs(tree) \ {tree.activeOutput}
  /\ FocusedWindow(tree) # None
  /\ Become(CommitFocus([tree EXCEPT !.activeOutput = o]))

\* handle_map and handle_unmap of layer_shell.c, a click on a layer surface
FocusLayer == /\ tree.overlay # "layer"
              /\ Become(CommitFocus(SetFocusedLayer(tree)))
LayerUnmapped == /\ tree.overlay = "layer"
                 /\ Become(CommitFocus([tree EXCEPT !.overlay = None]))

\* hwd_xwayland_unmanaged_handle_xsurface_map; unmapping does not clear it.
FocusUnmanaged == Become(CommitFocus(SetFocusedSurface(tree)))

\* The window a command runs on: the focused one, or for a binding of a mouse
\* button the one under the pointer (execute_command).
CommandWindow(w) ==
  /\ tree.outputs # << >>
  /\ w = FocusedWindow(tree) \/ ("mouse binding" \in Inputs /\ w \in Alive(tree))

\* cmd_workspace
CmdWorkspace(s) ==
  /\ tree.outputs # << >>
  /\ Become(CommitFocus(Mark(SetActiveWorkspace(CreateWorkspace(tree, s), s), {Root})))

\* Mutant: the window is added before it is detached from where it was.
MoveToColumnTwice(t, w, c, d) ==
  IF t.column[w] = c THEN t ELSE AddBesideActive(t, c, t.activeChild[c], w)

\* move_window_to_column_from_maybe_direction
MoveToColumn(t, w, c, d) ==
  LET i == IF d = "down" THEN 1 ELSE Len(t.children[c]) + 1
  IN  IF t.column[w] = c THEN t
      ELSE IF d \in {"up", "down"} THEN InsertChild(Detach(t, w), c, w, i)
      ELSE AddBesideActive(Detach(t, w), c, t.activeChild[c], w)

\* move_window_to_workspace
MoveToWorkspace(t, w, s) ==
  LET ready == EnsureColumn(t, s, t.output[w])
  IN  IF t.workspace[w] = s THEN t
      ELSE IF IsFloating(t, w) THEN AddFloating(Detach(t, w), s, w)
      ELSE MoveToColumn(ready, w,
                        IF ColumnFor(t, s, t.output[w]) # None
                          THEN ColumnFor(t, s, t.output[w]) ELSE NewColumn(t), "none")

\* cmd_move_window
CmdMoveToWorkspace(w, s) ==
  LET c == tree.column[w]
      old == tree.workspace[w]
      moved == SetActiveWindow(MoveToWorkspace(CreateWorkspace(tree, s), w, s), s, w)
      cleaned == WorkspaceConsiderDestroy(
                   IF c = None THEN moved ELSE ColumnConsiderDestroy(moved, c), old)
  IN  /\ CommandWindow(w)
      /\ Become(CommitFocus(Mark(cleaned, {s} \cup ({old} \cap cleaned.workspaces))))

\* window_tiling_move_to_next_output: the caller's output is passed on, which is
\* the window's own, and the active column is looked at before it is checked.
MoveToNextOutput(t, w, o, d) ==
  LET s == t.workspace[w]
      active == t.activeColumn[s]
      c == IF d = "down" /\ t.colOutput[active] = o THEN active
           ELSE IF d = "left" THEN ColumnLast(t, s, o) ELSE ColumnFirst(t, s, o)
  IN  IF OutputInDirection(t, o, d) = None THEN t
      ELSE IF active = None THEN [t EXCEPT !.crashed = TRUE]
      ELSE MoveToColumn(t, w, c, d)

\* Up and down in window_tiling_move_in_direction.
MoveInColumn(t, w, d) ==
  LET siblings == t.children[t.column[w]]
      fixed == IF d = "up" THEN PrevIn(siblings, w) ELSE NextIn(siblings, w)
  IN  IF fixed = None THEN MoveToNextOutput(t, w, t.output[w], d)
      ELSE AddSibling(Detach(t, w), fixed, w, d = "down")

\* Left and right in window_tiling_move_in_direction.
MoveAcross(t, w, d) ==
  LET c == t.column[w]
      s == t.colWorkspace[c]
      near == IF d = "left" THEN ColumnBefore(t, c) ELSE ColumnAfter(t, c)
      wider == IF d = "left" THEN InsertFirst(t, s, t.colOutput[c])
                             ELSE InsertLast(t, s, t.colOutput[c])
  IN  IF near # None THEN MoveToColumn(t, w, near, d)
      ELSE IF Len(t.children[c]) = 1 THEN MoveToNextOutput(t, w, t.colOutput[c], d)
      ELSE MoveToColumn(wider, w, NewColumn(t), d)

\* cmd_move_in_direction of a tiling window: the focus is moved, not committed.
CmdMoveTiling(w, d) ==
  LET moved == IF d \in {"up", "down"} THEN MoveInColumn(tree, w, d)
                                       ELSE MoveAcross(tree, w, d)
      cleaned == Mark(ColumnConsiderDestroy(moved, tree.column[w]),
                      {tree.workspace[w], moved.workspace[w]})
  IN  /\ CommandWindow(w)
      /\ IsTiling(tree, w) /\ w \notin tree.fullscreen
      /\ moved # tree \/ OutputInDirection(tree, tree.output[w], d) # None
      /\ Become(IF moved.crashed THEN moved ELSE SetFocusedWindow(cleaned, w))

\* cmd_move_in_direction of a floating window: the output nearest to where it
\* ends up becomes its history, and window->output is left alone.
CmdMoveFloating(w, o) ==
  /\ CommandWindow(w)
  /\ IsFloating(tree, w) /\ w \notin tree.fullscreen
  /\ o \in Outputs(tree)
  /\ Become(Mark([tree EXCEPT !.history[w] = <<o>>], {w}))

\* cmd_move_in_direction of a fullscreen window
CmdMoveFullscreen(w, d) ==
  LET o == OutputInDirection(tree, tree.output[w], d)
  IN  /\ CommandWindow(w)
      /\ "other output" \in Inputs
      /\ w \in tree.fullscreen
      /\ o # None
      /\ Become(FullscreenOn(tree, w, o))

\* Mutant: the window floats and stays in its column.
FloatAttached(t, w) == AddFloating(t, t.workspace[w], w)

\* The two ways of cmd_floating.
Float(t, w) ==
  LET c == t.column[w]
      moved == AddFloating(Detach(t, w), t.workspace[w], w)
  IN  IF c = None THEN moved ELSE ColumnConsiderDestroy(moved, c)

Unfloat(t, w) ==
  LET s == t.workspace[w]
      left == Detach(t, w)
      ready == EnsureColumn(left, s, t.output[w])
      c == IF ColumnFor(left, s, t.output[w]) # None
             THEN ColumnFor(left, s, t.output[w]) ELSE NewColumn(left)
  IN  AddBesideActive(ready, c, ready.activeChild[c], w)

CmdFloating(w, enable) ==
  LET s == tree.workspace[w]
      moved == IF enable THEN Float(tree, w) ELSE Unfloat(tree, w)
  IN  /\ CommandWindow(w)
      /\ Become(Mark(IF ActiveWindow(tree, s) = w THEN SetActiveWindow(moved, s, w)
                                                  ELSE moved, {s}))

\* cmd_fullscreen
CmdFullscreen(w, enable) ==
  /\ CommandWindow(w)
  /\ Become(IF enable THEN FullscreenOn(tree, w, tree.output[w]) ELSE Unfullscreen(tree, w))

\* Mutant: the focus is changed and not committed.
CmdFocusModeUncommitted(floating) ==
  LET s == tree.activeWorkspace
      w == IF floating THEN ActiveFloating(tree, s) ELSE ActiveTiling(tree, s)
  IN  /\ tree.outputs # << >>
      /\ w # None
      /\ Become(SetActiveWindow(tree, s, w))

\* focus_mode: `focus floating', `focus tiling' and `focus mode_toggle'.
CmdFocusMode(floating) ==
  LET s == tree.activeWorkspace
      w == IF floating THEN ActiveFloating(tree, s) ELSE ActiveTiling(tree, s)
  IN  /\ tree.outputs # << >>
      /\ w # None
      /\ Become(CommitFocus(SetActiveWindow(tree, s, w)))

\* get_window_in_output_direction
WindowOnOutput(t, o, d) ==
  LET s == t.activeWorkspace
      c == IF d = "left" THEN ColumnLast(t, s, o) ELSE ColumnFirst(t, s, o)
  IN  IF FullscreenFor(t, o) # None THEN FullscreenFor(t, o)
      ELSE IF d \in {"up", "down"} THEN ActiveTiling(t, s)
      ELSE IF c = None THEN None ELSE t.activeChild[c]

\* window_get_in_direction_tiling: the neighbour, or what the configured
\* wrapping makes of the edge.
TilingNeighbours(t, w, d) ==
  LET c == t.column[w]
      o == OutputInDirection(t, t.output[w], d)
      beyond == IF o = None THEN None ELSE WindowOnOutput(t, o, d)
      near == CASE d = "up" -> PrevIn(t.children[c], w)
                [] d = "down" -> NextIn(t.children[c], w)
                [] d = "left" -> ColumnBefore(t, c)
                [] d = "right" -> ColumnAfter(t, c)
      wrap == CASE d = "up" -> Last(t.children[c])
                [] d = "down" -> Head(t.children[c])
                [] d = "left" -> ColumnLast(t, t.workspace[w], t.colOutput[c])
                [] d = "right" -> ColumnFirst(t, t.workspace[w], t.colOutput[c])
      Child(x) == IF d \in {"up", "down"} THEN x ELSE t.activeChild[x]
  IN  IF w \in t.fullscreen THEN {beyond}
      ELSE IF near # None THEN {Child(near)}
      ELSE {beyond, Child(wrap)}

\* window_get_in_direction_floating: geometry decides.
FloatingNeighbours(t, w) == Maybe(ToSet(t.floating[t.workspace[w]])) \ {w}

\* cmd_focus with a direction, when a window has the focus
CmdFocus(d) ==
  LET w == FocusedWindow(tree)
  IN  /\ tree.outputs # << >>
      /\ w # None
      /\ \E next \in IF IsFloating(tree, w) /\ w \notin tree.fullscreen
                       THEN FloatingNeighbours(tree, w) ELSE TilingNeighbours(tree, w, d) :
           /\ next # None
           /\ Become(CommitFocus(SetFocusedWindow(tree, next)))

\* cmd_focus with a direction, when no window has the focus
CmdFocusOutput(d) ==
  LET o == OutputInDirection(tree, tree.activeOutput, d)
      w == WindowOnOutput(tree, o, d)
  IN  /\ tree.outputs # << >>
      /\ FocusedWindow(tree) = None
      /\ o # None
      /\ Become(CommitFocus(
           IF w # None THEN SetFocusedWindow(tree, w)
           ELSE [SetActiveWindow(tree, tree.activeWorkspace, None) EXCEPT !.activeOutput = o]))

\* The idle callback that starts a transaction: the pending state of what is
\* dirty is made anew and committed.
Arrange ==
  /\ tree.dirty # {}
  /\ Become([Arranged(tree) EXCEPT !.dirty = {}])

-----------------------------------------------------------------------------

ClientStep ==
  \/ \E w \in Window, floats, full \in BOOLEAN, o \in Output : Map(w, floats, full, o)
  \/ \E w \in Window : Unmap(w)
  \/ \E w \in Window, full \in BOOLEAN, o \in Output : RequestFullscreen(w, full, o)
  \/ FocusLayer \/ LayerUnmapped \/ FocusUnmanaged

InputStep ==
  \/ \E w \in Window : FocusWindow(w) \/ TouchDown(w)
  \/ ClickWorkspace
  \/ \E o \in Output : HoverOutput(o)

CommandStep ==
  \/ \E s \in Workspace : CmdWorkspace(s)
  \/ \E w \in Window, s \in Workspace : CmdMoveToWorkspace(w, s)
  \/ \E w \in Window, d \in Direction : CmdMoveTiling(w, d) \/ CmdMoveFullscreen(w, d)
  \/ \E w \in Window, o \in Output : CmdMoveFloating(w, o)
  \/ \E w \in Window, enable \in BOOLEAN : CmdFloating(w, enable) \/ CmdFullscreen(w, enable)
  \/ \E floating \in BOOLEAN : CmdFocusMode(floating)
  \/ \E d \in Direction : CmdFocus(d) \/ CmdFocusOutput(d)

\* A bound of the model: a step may need a new column.
ColumnLeft == {c \in Column : Unused(tree, c)} # {}

Next ==
  /\ ~tree.crashed
  /\ \/ \E o \in Output : NewOutput(o)
     \/ ColumnLeft /\ ClientStep
     \/ ColumnLeft /\ InputStep
     \/ ColumnLeft /\ CommandStep
     \/ Arrange

Spec == Init /\ [][Next]_tree
-----------------------------------------------------------------------------
(* Properties. *)

Listed(S) == \A f \in S : \A i, j \in DOMAIN f : f[i] = f[j] => i = j

TreeTypeOK ==
  /\ tree.workspaces \subseteq Workspace /\ tree.activeWorkspace \in tree.workspaces
  /\ tree.activeOutput \in Maybe(Outputs(tree)) /\ Outputs(tree) \subseteq Output
  /\ \A s \in Workspace : /\ ToSet(tree.columns[s]) \subseteq Column
                          /\ ToSet(tree.floating[s]) \subseteq Window
                          /\ tree.activeColumn[s] \in Maybe(Column)
                          /\ tree.focusMode[s] \in {"tiling", "floating"}
  /\ \A c \in Column : /\ ToSet(tree.children[c]) \subseteq Window
                       /\ tree.activeChild[c] \in Maybe(Window)
                       /\ tree.colWorkspace[c] \in Maybe(Workspace)
                       /\ tree.colOutput[c] \in Maybe(Output)
  /\ \A w \in Window : /\ tree.status[w] \in {"absent", "alive", "dead"}
                       /\ tree.workspace[w] \in Maybe(Workspace)
                       /\ tree.column[w] \in Maybe(Column)
                       /\ tree.output[w] \in Maybe(Output)
                       /\ ToSet(tree.history[w]) \subseteq Output
  /\ tree.fullscreen \subseteq Window
  /\ tree.overlay \in Maybe({"layer", "unmanaged"})
  /\ tree.focused \in Maybe(Window) \cup {"layer", "unmanaged"}
  /\ tree.dirty \subseteq Node
  /\ tree.crashed \in BOOLEAN

\* Lists and pointers agree: a living window is in exactly one place of the
\* tree, which is where its pointers say it is, a column likewise, and nothing
\* that died is left in any of them (root_validate, lines 579-629).
PlacedOnce ==
  /\ Listed({tree.columns[s] : s \in Workspace} \cup {tree.floating[s] : s \in Workspace}
              \cup {tree.children[c] : c \in Column})
  /\ \A w \in Window :
       /\ w \in Alive(tree) <=> tree.workspace[w] \in tree.workspaces
       /\ \A c \in Column : Contains(tree.children[c], w) <=> tree.column[w] = c
       /\ \A s \in Workspace : Contains(tree.floating[s], w)
                                 <=> tree.workspace[w] = s /\ tree.column[w] = None
       /\ IsTiling(tree, w) => tree.workspace[w] = tree.colWorkspace[tree.column[w]]
  /\ \A s \in Workspace : \A c \in ToSet(tree.columns[s]) : tree.colWorkspace[c] = s
  /\ \A c \in Column : tree.children[c] # << >>
                         => Contains(tree.columns[tree.colWorkspace[c]], c)

\* The path of active nodes never leads astray: an active column is one of its
\* workspace, an active child one of its column, a column that has windows has
\* an active one, and a workspace in floating mode has a floating window.
ActivePathIsValid ==
  /\ \A s \in Workspace :
       /\ tree.activeColumn[s] \in Maybe(ToSet(tree.columns[s]))
       /\ tree.focusMode[s] = "floating" => tree.floating[s] # << >>
  /\ \A s \in Workspace : \A c \in ToSet(tree.columns[s]) :
       /\ tree.children[c] # << >> => Contains(tree.children[c], tree.activeChild[c])
       /\ tree.children[c] = << >> => tree.activeChild[c] = None

\* Containers disappear with their last window: no column stays empty, and no
\* workspace but the active one (column_consider_destroy after every removal).
NothingStaysEmpty ==
  /\ \A s \in Workspace : \A c \in ToSet(tree.columns[s]) : tree.children[c] # << >>
  /\ \A s \in tree.workspaces \ {tree.activeWorkspace} :
       tree.columns[s] # << >> \/ tree.floating[s] # << >>

\* The structure of the tree survives every kind of input: whatever the order of
\* commands, clicks and requests, the lists and back pointers of columns,
\* workspaces and windows agree and the path of active nodes stays on them.
StructureIsSound == PlacedOnce /\ ActivePathIsValid

\* The same, and nothing that lost its last window stays behind, also when
\* windows move between outputs (cmd_move_in_direction).
TreeIsSound == StructureIsSound /\ NothingStaysEmpty

\* Marking only what changed is enough: whenever a transaction starts, what is
\* about to be drawn is what arranging everything anew would give, for every
\* column, window, title bar and focus mark of the active workspace (fullscreen
\* windows are the subject of ShownIsLastFullscreen).
ArrangementIsCurrent ==
  LET done == Arranged(tree)
      fresh == Arranged(Mark(tree, Node))
  IN  done.crashed
      \/ /\ done.pWorkspace = fresh.pWorkspace
         /\ done.pColumns = fresh.pColumns /\ done.pFloating = fresh.pFloating
         /\ \A c \in ToSet(fresh.pColumns) : done.pChildren[c] = fresh.pChildren[c]
         /\ \A w \in ReachedInWorkspace(fresh) : done.pLook[w] = fresh.pLook[w]

\* The focus that was announced is the one the tree implies whenever a
\* transaction may start (the assertion of root.c line 127).
FocusIsCommitted == tree.focused = Focus(tree)

\* In tiling mode the active output is the one of the active column (root.c
\* lines 654-658: "Validate that the correct output is focused if workspace is
\* in tiling mode").
ActiveOutputIsFocused ==
  LET s == tree.activeWorkspace
  IN  tree.focusMode[s] = "tiling" /\ tree.activeColumn[s] # None
        => tree.activeOutput = tree.colOutput[tree.activeColumn[s]]

\* A fullscreen window is on the list of its output and of no other, and the
\* lists hold living fullscreen windows only (root.c lines 598-601, 631-641).
FullscreenIsListed ==
  \A o \in Output : \A w \in Window :
    Contains(tree.fullscreenWindows[o], w)
      <=> w \in Alive(tree) \cap tree.fullscreen /\ tree.output[w] = o

\* output.h lines 44-47: "The visible fullscreen window is the last window on
\* the current workspace in this list".  What the next transaction will draw:
ShownIsLastFullscreen ==
  \A o \in Outputs(tree) : Arranged(tree).pShown[o] = VisibleFullscreen(tree, o)

\* A window that goes away takes the focus with it only if it had it.
UnmapKeepsFocus ==
  [][\A w \in Alive(tree) \ Alive(tree') :
       FocusedWindow(tree) # w => Focus(tree') = Focus(tree) /\ tree'.focused = Focus(tree)]_tree
=============================================================================

------------------------------- MODULE Seatop -------------------------------
(***************************************************************************)
(* The interactive operations of a seat: pressing on a surface             *)
(* (input/seatop_down.c), moving a window (seatop_move.c), resizing one    *)
(* (seatop_resize_tiling.c, seatop_resize_floating.c), and the default     *)
(* operation that begins them (seatop_default.c).                          *)
(*                                                                         *)
(* An operation keeps pointers to windows and columns from one event to    *)
(* the next, while commands and clients change the tree under it.  Where   *)
(* the pointer is becomes a choice: the window and the edges it is over,   *)
(* the place a dragged window would snap to.  The tree is one workspace on *)
(* one output and a window is there in a column or floating, or away on    *)
(* another workspace; what has the focus is left to module Tree.           *)
(***************************************************************************)
EXTENDS Naturals, FiniteSets, SequencesExt

CONSTANTS
  Window,
  Column,         \* names for columns; creating one waits for a free name
  StartColumns,   \* the columns at the start
  StartChildren,  \* and their windows; the others float
  Stacked,        \* the columns whose layout is L_STACKED
  Edges,          \* edges of a window that the pointer may be over: {"left"}, {"top", "left"}...
  MouseBindings,  \* config->current_mode->mouse_bindings
  MaxButtons      \* bounds cursor->pressed_button_count

NoWindow == "no window"
NoColumn == "no column"
Elsewhere == "column elsewhere"  \* stands for the columns of other workspaces

\* At the start a window is in one place at most, and columns are there to hold windows.
ASSUME StartAssumption ==
  /\ NoWindow \notin Window /\ NoColumn \notin Column /\ Elsewhere \notin Column
  /\ StartColumns \in Seq(Column) /\ IsInjective(StartColumns)
  /\ StartChildren \in [Column -> Seq(Window)]
  /\ \A c \in Column :
       /\ IsInjective(StartChildren[c])
       /\ StartChildren[c] # << >> => c \in ToSet(StartColumns)
       /\ \A d \in Column \ {c} : ToSet(StartChildren[c]) \cap ToSet(StartChildren[d]) = {}

Corners == {e \in Edges : Cardinality(e) = 2}

VARIABLE so  \* the seat's operation and the tree, as far as operations go
soVars == <<so>>

\* seat->seatop_impl and seat->seatop_data.  Away tells whether cmd_move_window has
\* taken a window away since the operation began.
NoOp == [kind |-> "default", window |-> NoWindow, edges |-> {}, reached |-> FALSE, dest |-> NoColumn,
         hBox |-> NoColumn, hSib |-> NoColumn, vSib |-> NoWindow, pressed |-> {}, away |-> FALSE]

\* Where a window is: window->column, window_is_floating, window_is_alive.
ColumnOf(s, w) ==
  LET in == {c \in ToSet(s.columns) : w \in ToSet(s.children[c])}
  IN  IF in # {} THEN CHOOSE c \in in : TRUE
      ELSE IF w \in s.away \ s.floating THEN Elsewhere ELSE NoColumn
IsAlive(s, w) == w \in s.floating \/ ColumnOf(s, w) # NoColumn
IsColumn(s, c) == c \in ToSet(s.columns) \cup {Elsewhere}

\* An assertion fails or freed memory is used: the model stops there.
Fail(s) == [s EXCEPT !.failed = TRUE]
Unless(bad, s, next) == IF bad THEN Fail(s) ELSE next

Neighbour(seq, x, step) ==
  LET i == (CHOOSE j \in DOMAIN seq : seq[j] = x) + step IN IF i \in DOMAIN seq THEN {seq[i]} ELSE {}
Only(set, otherwise) == IF set = {} THEN otherwise ELSE CHOOSE x \in set : TRUE
ColumnBeside(s, c, step) == Only(IF c \in ToSet(s.columns) THEN Neighbour(s.columns, c, step) ELSE {}, NoColumn)
WindowBeside(s, w, step) ==
  LET c == ColumnOf(s, w)
  IN  Only(IF c \in ToSet(s.columns) THEN Neighbour(s.children[c], w, step) ELSE {}, NoWindow)

-----------------------------------------------------------------------------
(* The tree under an operation. *)

\* window_detach
Detach(s, w) ==
  [s EXCEPT !.children = [c \in Column |-> RemoveFirst(@[c], w)],
            !.floating = @ \ {w}, !.away = @ \ {w}]

\* column_consider_destroy
ConsiderDestroy(s, c) ==
  IF c \in Column /\ s.children[c] = << >> THEN [s EXCEPT !.columns = RemoveFirst(@, c)] ELSE s

\* A name that no live or remembered column has.
FreeColumns(s) == Column \ (ToSet(s.columns) \cup {s.op.dest, s.op.hBox, s.op.hSib} \cup s.preview)

\* column_create and workspace_insert_column_*, at position i
InsertColumn(s, c, i) == [s EXCEPT !.columns = InsertAt(@, i, c), !.children[c] = << >>]

\* column_add_sibling, after the window
AddSibling(s, fixed, w) ==
  LET c == ColumnOf(s, fixed)
  IN  CASE c = NoColumn -> Fail(s)
        [] c = Elsewhere -> [s EXCEPT !.away = @ \cup {w}]
        [] OTHER -> LET i == CHOOSE j \in DOMAIN s.children[c] : s.children[c][j] = fixed
                    IN  [s EXCEPT !.children[c] = InsertAt(@, i + 1, w)]

\* column_insert_child
InsertFirst(s, c, w) == Unless(~IsColumn(s, c), s, [s EXCEPT !.children[c] = InsertAt(@, 1, w)])

\* window_set_resizing and column_set_resizing: only the client reads the flags
SetResizing(s, w) == Unless(~IsAlive(s, w), s, s)
ColumnSetResizing(s, c) == Unless(~IsColumn(s, c), s, s)

-----------------------------------------------------------------------------
(* Beginning and ending operations. *)

\* seatop_end, with handle_end of a move and of a press
End(s) ==
  [s EXCEPT !.moving = IF s.op.kind = "move" THEN @ \ {s.op.window} ELSE @, !.op = NoOp]

\* seatop_begin_default; handle_rebase only looks at what is under the cursor
BeginDefault(s) == End(s)

\* seatop_begin_down and seatop_begin_down_on_surface
BeginDown(s, w) == [End(s) EXCEPT !.op.kind = "down", !.op.window = w]

\* seatop_begin_move
BeginMove(s, w) == [End(s) EXCEPT !.op.kind = "move", !.op.window = w]

\* seatop_begin_resize_floating
BeginResizeFloating(s, w) == [SetResizing(End(s), w) EXCEPT !.op.kind = "resize floating", !.op.window = w]

\* seatop_begin_resize_tiling
BeginResizeTiling(s, w, edges) ==
  LET horizontal == edges \cap {"left", "right"} # {}
      box == IF horizontal THEN ColumnOf(s, w) ELSE NoColumn
      hSib == IF horizontal THEN ColumnBeside(s, box, IF "left" \in edges THEN -1 ELSE 1) ELSE NoColumn
      vertical == edges \cap {"top", "bottom"} # {}
      vSib == IF vertical THEN WindowBeside(s, w, IF "top" \in edges THEN -1 ELSE 1) ELSE NoWindow
      wide == IF hSib = NoColumn THEN End(s) ELSE ColumnSetResizing(ColumnSetResizing(End(s), box), hSib)
      high == IF vertical THEN SetResizing(SetResizing(wide, w), vSib) ELSE wide
  IN  [high EXCEPT !.op.kind = "resize tiling", !.op.window = w, !.op.edges = edges,
                   !.op.hBox = box, !.op.hSib = hSib, !.op.vSib = vSib]

-----------------------------------------------------------------------------
(* What is under the pointer, and bindings of its buttons. *)

\* window_edge_is_external compares one edge: a corner never is.
EdgeIsExternal(s, w, edges) ==
  \/ edges = {"left"} /\ ColumnBeside(s, ColumnOf(s, w), -1) = NoColumn
  \/ edges = {"right"} /\ ColumnBeside(s, ColumnOf(s, w), 1) = NoColumn
  \/ edges = {"top"} /\ WindowBeside(s, w, -1) = NoWindow
  \/ edges = {"bottom"} /\ WindowBeside(s, w, 1) = NoWindow

\* find_resize_edge, of a window that find_edge found the pointer on an edge of
ResizeEdge(s, w, edges) ==
  IF w \in s.floating THEN edges
  ELSE IF EdgeIsExternal(s, w, edges) THEN {}
  ELSE IF ColumnOf(s, w) \in Stacked /\ edges \in {{"top"}, {"bottom"}} THEN {} ELSE edges

\* What seat_get_target_at and find_edge may report: a window on this workspace that
\* is not being dragged, at its edges, title bar or contents.
Spot(s) ==
  LET hit == {w \in Window : IsAlive(s, w) /\ w \notin s.away \cup s.moving}
      spots == {[window |-> w, part |-> p, edges |-> {}] : w \in hit, p \in {"titlebar", "contents"}}
      edges == {[window |-> w, part |-> "border", edges |-> e] :
                  w \in hit \ s.fullscreen, e \in Edges}
      others == {[window |-> NoWindow, part |-> p, edges |-> {}] : p \in {"workspace", "layer", "unmanaged"}}
  IN  spots \cup edges \cup others

\* get_active_mouse_binding: the first match for the pointer itself, or else the first
\* for any device
MouseBinding(pressed, release, part) ==
  LET Matches(b) == b.buttons = pressed /\ b.release = release
                    /\ part \in b.regions \cup (IF Cardinality(b.regions) = 3 THEN {"workspace"} ELSE {})
      some == SelectSeq(MouseBindings, Matches)
      exact == SelectSeq(some, LAMBDA b : b.input # "*")
  IN  some # << >> /\ (exact # << >> \/ Head(some).input = "*")

-----------------------------------------------------------------------------
(* Buttons. *)

\* handle_button of seatop_default.c, for a press that no binding handles.  A mapped
\* window has a surface under its contents; button is "left" or "right", as
\* floating_mod_inverse has it.
DefaultPress(s, spot, button, mod) ==
  LET w == spot.window
      onEdge == button = "left" /\ spot.part = "border" /\ ResizeEdge(s, w, spot.edges) # {}
      byMod == button = "right" /\ mod
      moves == w \notin s.fullscreen /\ (mod \/ spot.part = "titlebar")
      down == IF spot.part = "contents" THEN {BeginDown(s, w)} ELSE {s}
      onTiled == IF onEdge THEN {BeginResizeTiling(s, w, spot.edges)}
                 ELSE IF byMod THEN {BeginResizeTiling(s, w, e) : e \in Corners}
                 ELSE IF moves THEN {BeginMove(s, w)} ELSE down
      onFloating == IF moves /\ button = "left" THEN {BeginMove(s, w)}
                    ELSE IF w \notin s.fullscreen /\ (onEdge \/ byMod) THEN {BeginResizeFloating(s, w)}
                    ELSE down
  IN  IF w = NoWindow THEN {IF spot.part = "layer" THEN BeginDown(s, w) ELSE s}
      ELSE IF w \in s.floating THEN onFloating ELSE onTiled

\* handle_button of seatop_default.c: the buttons that bindings are matched with are
\* those pressed since the operation began.
DefaultButton(s, pressing, spot, button, mod) ==
  LET with == s.op.pressed \cup {button}
      bound == IF pressing THEN MouseBinding(with, FALSE, spot.part)
               ELSE MouseBinding(s.op.pressed, TRUE, spot.part)
      now == [s EXCEPT !.op.pressed = IF pressing THEN with ELSE @ \ {button}]
  IN  IF bound \/ ~pressing THEN {now} ELSE DefaultPress(now, spot, button, mod)

\* finalize_move
FinalizeMove(s) ==
  LET w == s.op.window
      d == s.op.dest
      from == Detach(s, w)
      placed == IF s.target[d] # NoWindow THEN AddSibling(from, s.target[d], w) ELSE InsertFirst(from, d, w)
      done == [placed EXCEPT !.preview = @ \ {d}, !.target[d] = NoWindow]
      dropped == IF d = NoColumn THEN Unless(w \notin s.floating, s, s)
                 ELSE Unless(~IsColumn(s, d), s, done)
  IN  IF s.op.reached THEN BeginDefault([dropped EXCEPT !.moving = @ \ {w}]) ELSE BeginDefault(s)

\* handle_button of seatop_resize_tiling.c
FinishResizeTiling(s) ==
  LET e == s.op
      wide == IF e.hBox = NoColumn THEN s
              ELSE ColumnSetResizing(ColumnSetResizing(s, e.hBox), e.hSib)
      high == IF e.edges \cap {"top", "bottom"} = {} THEN wide
              ELSE Unless(ColumnOf(s, e.window) = NoColumn, s, SetResizing(SetResizing(wide, e.window), e.vSib))
  IN  BeginDefault(high)

\* The button handlers of the other operations: they end when no button is down.
ReleaseOp(s) ==
  IF s.buttons > 0 THEN s
  ELSE CASE s.op.kind = "move" -> FinalizeMove(s)
         [] s.op.kind = "resize tiling" -> FinishResizeTiling(s)
         [] s.op.kind = "resize floating" -> BeginDefault(SetResizing(s, s.op.window))
         [] OTHER -> BeginDefault(s)

\* seatop_button.  A press that a touch or a tool simulates is not counted.
SeatopButton(pressing, counted) ==
  LET n == so.buttons
      now == IF ~counted THEN n ELSE IF pressing THEN n + 1 ELSE IF n > 0 THEN n - 1 ELSE n
      s == [so EXCEPT !.buttons = now]
  IN  /\ ~so.failed /\ now <= MaxButtons
      /\ IF so.op.kind = "default"
         THEN \E spot \in Spot(so), button \in {"left", "right"}, mod \in BOOLEAN :
                so' \in DefaultButton(s, pressing, spot, button, mod)
         ELSE so' = ReleaseOp(s)

\* seatop_tablet_tool_tip, for a tool that is not simulated; resizing has no handler.
ToolTip(down) ==
  /\ ~so.failed
  /\ CASE so.op.kind = "default" /\ down ->
            \E w \in {p.window : p \in {q \in Spot(so) : q.part # "workspace"}}, mod \in BOOLEAN :
              so' = IF w = NoWindow THEN so
                    ELSE IF mod /\ w \notin so.fullscreen THEN BeginMove(so, w) ELSE BeginDown(so, w)
       [] so.op.kind = "down" /\ ~down -> so' = BeginDefault(so)
       [] so.op.kind = "move" /\ ~down -> so' = FinalizeMove(so)
       [] OTHER -> UNCHANGED so

-----------------------------------------------------------------------------
(* Motion. *)

\* do_detach
DoDetach(s) ==
  LET w == s.op.window
      old == ColumnOf(s, w)
      float == [ConsiderDestroy(Detach(s, w), old) EXCEPT !.floating = @ \cup {w},
                                                         !.away = IF w \in s.away THEN @ \cup {w} ELSE @]
      now == IF w \in s.floating THEN s ELSE float
  IN  [now EXCEPT !.op.reached = TRUE, !.moving = @ \cup {w}]

\* Where the dragged window may snap to: a new column at position i, or a column.
Snaps(s) ==
  {<<"new", i>> : i \in IF FreeColumns(s) = {} THEN {} ELSE 1..(Len(s.columns) + 1)}
    \cup {<<"column", c>> : c \in ToSet(s.columns)} \cup {<<"none", NoColumn>>}

\* handle_pointer_motion_postthreshold
PostThreshold(s, leaves, snap) ==
  LET d == s.op.dest
      left == ConsiderDestroy([s EXCEPT !.preview = @ \ {d}, !.target[d] = NoWindow, !.op.dest = NoColumn], d)
      c == IF snap[1] = "new" THEN CHOOSE f \in FreeColumns(s) : TRUE ELSE snap[2]
      room == IF snap[1] = "new" THEN InsertColumn(s, c, snap[2]) ELSE s
  IN  IF s.op.window \notin s.floating THEN Fail(s)
      ELSE IF d # NoColumn THEN Unless(~IsColumn(s, d), s, IF leaves THEN left ELSE s)
      ELSE IF snap[1] = "none" THEN s
      ELSE [room EXCEPT !.preview = @ \cup {c}, !.op.dest = c]

\* handle_pointer_motion of a resize, which changes sizes only
ResizeMotion(s) ==
  LET e == s.op
      gone == \/ e.hBox # NoColumn /\ ~IsColumn(s, e.hBox)
              \/ e.kind = "resize floating" /\ ~IsAlive(s, e.window)
  IN  Unless(gone, s, s)

\* seatop_pointer_motion and seatop_tablet_tool_motion.  A window that has just left
\* its snapping target may find another at the same motion.
SeatopMotion ==
  /\ ~so.failed
  /\ CASE so.op.kind = "move" /\ ~so.op.reached -> so' = DoDetach(so) \/ UNCHANGED so
       [] so.op.kind = "move" /\ so.op.reached ->
            \E leaves \in BOOLEAN :
              LET s == IF leaves /\ so.op.dest # NoColumn THEN PostThreshold(so, TRUE, <<"none", NoColumn>>) ELSE so
              IN  IF s.failed THEN so' = s ELSE \E snap \in Snaps(s) : so' = PostThreshold(s, FALSE, snap)
       [] so.op.kind \in {"resize tiling", "resize floating"} -> so' = ResizeMotion(so)
       [] OTHER -> UNCHANGED so

\* column_arrange chooses the window that the dragged one would go below.
Arrange(c, w) ==
  /\ ~so.failed /\ c \in so.preview /\ c \in ToSet(so.columns)
  /\ so' = [so EXCEPT !.target[c] = w]

-----------------------------------------------------------------------------
(* Windows go away or move. *)

\* Mutant: the destination of a move outlives the windows that leave it.
UnrefKeepingDestination(s, w) == IF s.op.window = w THEN BeginDefault(s) ELSE s

\* seatop_unref: handle_unref of each operation
Unref(s, w) ==
  LET d == s.op.dest
      cleared == IF d = NoColumn THEN s
                 ELSE ConsiderDestroy([s EXCEPT !.preview = @ \ {d}, !.target[d] = NoWindow,
                                                !.op.dest = NoColumn], d)
      \* e->window is NULL when seatop_end looks for the window that was moving
      forgotten == [cleared EXCEPT !.op.window = NoWindow]
      ends == s.op.window = w \/ (s.op.kind = "resize tiling"
                                  /\ (s.op.hSib = ColumnOf(s, w) \/ s.op.vSib = w))
  IN  IF s.op.kind = "move" THEN IF s.op.window = w THEN BeginDefault(forgotten) ELSE cleared
      ELSE IF ends THEN BeginDefault(s) ELSE s

\* window_begin_destroy, and the column goes with its last window
Unmap(w) ==
  /\ ~so.failed /\ IsAlive(so, w)
  /\ LET s == Unref(so, w)
         gone == ConsiderDestroy(Detach(s, w), ColumnOf(s, w))
     IN  so' = [gone EXCEPT !.fullscreen = @ \ {w}, !.moving = @ \ {w}]

\* The layer surface or the popup that was pressed is destroyed.
SurfaceDestroyed == ~so.failed /\ so.op.kind = "down" /\ so.op.window = NoWindow /\ so' = BeginDefault(so)

\* cmd_move_in_direction of a tiled window, to another place of this workspace: the
\* operation is told afterwards.
MoveInDirection(w, c, i) ==
  LET old == ColumnOf(so, w)
  IN  /\ ~so.failed /\ w \notin so.fullscreen \cup so.away \cup so.floating /\ old # NoColumn
      /\ c \in ToSet(so.columns) /\ i \in {1, Len(Detach(so, w).children[c]) + 1}
      /\ so' = Unref(ConsiderDestroy([Detach(so, w) EXCEPT !.children[c] = InsertAt(@, i, w)], old), w)

\* cmd_move_window: no operation is told.
MoveToWorkspace(w) ==
  LET old == ColumnOf(so, w)
      gone == ConsiderDestroy(Detach(so, w), old)
  IN  /\ ~so.failed /\ IsAlive(so, w) /\ w \notin so.away
      /\ so' = [gone EXCEPT !.floating = IF old = NoColumn THEN @ \cup {w} ELSE @,
                            !.away = @ \cup {w}, !.op.away = @ \/ so.op.kind # "default"]

\* cmd_floating
Floating(w) ==
  LET s == Unref(so, w)
      old == ColumnOf(s, w)
  IN  /\ ~so.failed /\ IsAlive(so, w) /\ w \notin so.away
      /\ IF old # NoColumn THEN so' = [ConsiderDestroy(Detach(s, w), old) EXCEPT !.floating = @ \cup {w}]
         ELSE \E c \in ToSet(s.columns) : so' = InsertFirst(Detach(s, w), c, w)

\* window_fullscreen and window_unfullscreen
Fullscreen(w) ==
  /\ ~so.failed /\ IsAlive(so, w) /\ w \notin so.away
  /\ so' = [Unref(so, w) EXCEPT !.fullscreen = IF w \in @ THEN @ \ {w} ELSE @ \cup {w}]

\* A client asks for a move or a resize of its window, at the last button event.
RequestMove(w) == ~so.failed /\ IsAlive(so, w) /\ w \notin so.fullscreen /\ so' = BeginMove(so, w)
RequestResize(w) == ~so.failed /\ w \in so.floating /\ so' = BeginResizeFloating(so, w)

SeatopInit ==
  so = [columns |-> StartColumns, children |-> StartChildren,
        floating |-> Window \ UNION {ToSet(StartChildren[c]) : c \in Column}, away |-> {},
        fullscreen |-> {}, moving |-> {}, preview |-> {},
        target |-> [c \in Column \cup {NoColumn} |-> NoWindow], op |-> NoOp, buttons |-> 0, failed |-> FALSE]

SeatopNext ==
  \/ \E pressing, counted \in BOOLEAN : SeatopButton(pressing, counted)
  \/ \E down \in BOOLEAN : ToolTip(down)
  \/ SeatopMotion
  \/ \E c \in Column, w \in Window \cup {NoWindow} : w \in ToSet(so.children[c]) \cup {NoWindow} /\ Arrange(c, w)
  \/ \E w \in Window :
       \/ Unmap(w) \/ MoveToWorkspace(w) \/ Floating(w) \/ Fullscreen(w)
       \/ RequestMove(w) \/ RequestResize(w)
       \/ \E c \in Column, i \in 1..Cardinality(Window) : MoveInDirection(w, c, i)
  \/ SurfaceDestroyed

SeatopSpec == SeatopInit /\ [][SeatopNext]_soVars

-----------------------------------------------------------------------------
(* Properties. *)

\* Whatever closes, floats, moves or goes fullscreen in the middle of an operation, it
\* refers to a live window, a dragged window floats and is drawn as moving, and the
\* columns and windows that will be changed with it still exist; only a command that
\* moves windows to another workspace is not told to operations.
OperationIsLive ==
  LET e == so.op IN
  ~so.failed =>
    /\ e.window # NoWindow => IsAlive(so, e.window)
    /\ e.reached => e.window \in so.floating \cap so.moving
    /\ ~e.away =>
         /\ \A c \in {e.dest, e.hBox} \ {NoColumn} : IsColumn(so, c)
         /\ e.vSib # NoWindow => ColumnOf(so, e.vSib) = ColumnOf(so, e.window)

\* Not so, and checked by no run (README, section 4): no assertion of the tree fails under an
\* operation ("assert(window != NULL)", window.c 1122; "assert(column != NULL)", column.c 694).
NoOperationFails == ~so.failed
=============================================================================

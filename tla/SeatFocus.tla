------------------------------ MODULE SeatFocus ------------------------------
(***************************************************************************)
(* Who may have a seat's focus: the session lock (lock.c), layer surfaces  *)
(* that take the focus (desktop/layer_shell.c), and what follows the focus *)
(* of a seat (input/seat.c): the keyboard, tablet pads (input/tablet.c)    *)
(* and the active pointer constraint (input/cursor.c).                     *)
(*                                                                         *)
(* The root's focus is pending until root_commit_focus, which tells the    *)
(* seat if the surface changed.  Which window becomes active when another  *)
(* one goes is a choice (see Tree), and what the input method relay does   *)
(* with the same focus is in InputMethodRelay.                             *)
(*                                                                         *)
(* Modelled from their use: the surface wlroots sends keys to, whether     *)
(* surfaces exist, and the lifetime of constraints.                        *)
(***************************************************************************)
EXTENDS FiniteSets

CONSTANTS
  Windows,      \* surfaces of windows
  Layers,       \* keyboard-interactive surfaces of the top and overlay layers
  LockSurfaces,
  ClientOf,     \* the client of a surface
  TabletAware   \* the surfaces that accept a tablet

FocusSurface == Windows \cup Layers \cup LockSurfaces
NoSurface == "no surface"
NoClient == "no client"

\* A surface has one role and one client.
ASSUME ClientAssumption ==
  /\ DOMAIN ClientOf = FocusSurface /\ TabletAware \subseteq FocusSurface
  /\ Windows \cap Layers = {} /\ NoSurface \notin FocusSurface
  /\ \A c \in FocusSurface : ClientOf[c] # NoClient

LockClient == {ClientOf[k] : k \in LockSurfaces}

VARIABLE sf
focusVars == <<sf>>

\* root_get_focused_surface
RootFocus(s) == IF s.layer # NoSurface THEN s.layer ELSE s.window
\* root_get_focused_window
FocusedWindow(s) == IF s.layer # NoSurface THEN NoSurface ELSE s.window

-----------------------------------------------------------------------------
(* Pointer constraints: at most one for a surface, active or not. *)

\* Wlr_pointer_constraint_v1_send_deactivated destroys a constraint of one shot, and
\* handle_constraint_destroy is called.
Deactivate(s, c) == IF s.constraint[c] = "oneshot" THEN [s EXCEPT !.constraint[c] = "none"] ELSE s

\* hwd_cursor_constrain, to the constraint of surface c or to none
Constrain(s, c) ==
  LET left == IF s.active = NoSurface THEN s ELSE Deactivate(s, s.active)
  IN  IF ~s.allow \/ s.active = c THEN s ELSE [left EXCEPT !.active = c, !.hears = c]

\* handle_constraint_destroy
DestroyConstraint(s, c) ==
  LET gone == [s EXCEPT !.constraint[c] = "none"]
  IN  IF s.active = c THEN [gone EXCEPT !.active = NoSurface, !.hears = NoSurface] ELSE gone

\* wlr_pointer_constraints_v1_constraint_for_surface
ConstraintOf(s, c) == IF s.constraint[c] = "none" THEN NoSurface ELSE c

-----------------------------------------------------------------------------
(* The focus of the seat. *)

\* seat_is_input_allowed
IsInputAllowed(s, c) == s.exclusive = ClientOf[c] \/ (s.exclusive = NoClient /\ ~s.locked)

\* seat_keyboard_notify_enter, and hwd_tablet_pad_notify_enter of the seat's pads
NotifyEnter(s, c) == [s EXCEPT !.keyboard = c, !.pad = IF c \in TabletAware THEN c ELSE NoSurface]

\* Mutant: the lock is not asked.
SendFocusAlways(s, c) == Constrain(NotifyEnter(s, c), ConstraintOf(s, c))

\* seat_send_focus
SendFocus(s, c) == IF IsInputAllowed(s, c) THEN Constrain(NotifyEnter(s, c), ConstraintOf(s, c)) ELSE s

\* Mutant: the constraint of the surface that loses the focus stays.
SendUnfocusConstrained(s) == [s EXCEPT !.keyboard = NoSurface]

\* seat_send_unfocus, which tells no pad
SendUnfocus(s) == [Constrain(s, NoSurface) EXCEPT !.keyboard = NoSurface]

\* root_commit_focus, and seat_commit_focus if the root's surface changed
RootCommitFocus(s) ==
  LET new == RootFocus(s)
      left == IF s.seat # NoSurface THEN SendUnfocus(s) ELSE s
      entered == IF new # NoSurface THEN SendFocus(left, new) ELSE left
      told == IF s.seat = new THEN s ELSE [entered EXCEPT !.seat = new]
  IN  IF s.root = new THEN s ELSE [told EXCEPT !.root = new]

\* hwd_force_focus
ForceKeyboard(s, c) == NotifyEnter(s, c)

\* seat_set_exclusive_client, of a client: root_set_focused_window asserts that it gets a
\* window, and gets none.
SetExclusiveClient(s, client) ==
  LET layer == IF s.layer # NoSurface /\ ClientOf[s.layer] # client THEN [s EXCEPT !.layer = NoSurface] ELSE s
      window == FocusedWindow(layer)
  IN  IF window # NoSurface /\ ClientOf[window] # client THEN [layer EXCEPT !.crashed = TRUE]
      ELSE [layer EXCEPT !.exclusive = client]

\* wl_surface's destruction: wlroots takes the keyboard, pads and constraints away
SurfaceDestroyedOf(s, c) ==
  LET free == IF s.constraint[c] = "none" THEN s ELSE DestroyConstraint(s, c)
  IN  [free EXCEPT !.keyboard = IF @ = c THEN NoSurface ELSE @,
                   !.pad = IF @ = c THEN NoSurface ELSE @]

-----------------------------------------------------------------------------
(* Windows and layer surfaces. *)

\* A window is mapped or clicked on: root_set_focused_window.
FocusWindow(w) ==
  sf' = RootCommitFocus([sf EXCEPT !.open = @ \cup {w}, !.layer = NoSurface, !.window = w])

\* A window is unmapped and destroyed; another one of the workspace becomes active.
CloseWindow(w, next) ==
  /\ w \in sf.open /\ next \in (sf.open \ {w}) \cup {NoSurface}
  /\ (sf.window # w => next = sf.window)
  /\ sf' = SurfaceDestroyedOf(RootCommitFocus([sf EXCEPT !.open = @ \ {w}, !.window = next]), w)

\* The workspace is left for one without windows, or with others.
SwitchWorkspace(w) == w \in sf.open \cup {NoSurface} /\ sf' = RootCommitFocus([sf EXCEPT !.window = w])

\* handle_map, of an interactive surface
LayerMap(l) ==
  /\ l \notin sf.mapped
  /\ sf' = RootCommitFocus([sf EXCEPT !.mapped = @ \cup {l}, !.known = @ \cup {l}, !.layer = l])

\* handle_unmap, and handle_node_destroy when the client destroys its surface: an exclusive
\* client's other layer is made the pending focus.
LayerUnmap(l, destroyed) ==
  LET unmapped == [sf EXCEPT !.mapped = @ \ {l}]
      left == IF l \in sf.known /\ sf.layer = l THEN RootCommitFocus([unmapped EXCEPT !.layer = NoSurface]) ELSE unmapped
      others == {o \in left.mapped \cap left.known : ClientOf[o] = ClientOf[l]}
      passes == destroyed /\ l \in sf.known /\ left.exclusive = ClientOf[l] /\ others # {}
      gone == IF destroyed THEN [SurfaceDestroyedOf(left, l) EXCEPT !.known = @ \ {l}] ELSE left
  IN  /\ l \in sf.mapped
      /\ IF passes THEN \E o \in others : sf' = [gone EXCEPT !.layer = o] ELSE sf' = gone

\* handle_output_destroy, when the output of the layer surfaces is disabled: their nodes go,
\* and with them the listeners.
LayerOutputGone == sf.known # {} /\ sf' = [sf EXCEPT !.known = {}]

\* A click on a layer surface that is there
FocusLayer(l) == l \in sf.mapped \cap sf.known /\ sf' = RootCommitFocus([sf EXCEPT !.layer = l])

-----------------------------------------------------------------------------
(* The session lock. *)

\* handle_session_lock; a second lock is destroyed.
Lock(c) ==
  /\ c \in LockClient /\ sf.lock = NoClient
  /\ sf' = SetExclusiveClient([sf EXCEPT !.locked = TRUE, !.lock = c, !.shown = FALSE], c)

\* handle_new_surface and handle_surface_map
LockSurfaceMap(k) ==
  /\ k \notin sf.lockMapped /\ sf.lock = ClientOf[k]
  /\ sf' = [ForceKeyboard(sf, k) EXCEPT !.lockMapped = @ \cup {k}, !.shown = TRUE]

\* handle_surface_destroy
LockSurfaceDestroy(k) ==
  k \in sf.lockMapped /\ sf' = [SurfaceDestroyedOf(sf, k) EXCEPT !.lockMapped = @ \ {k}]

\* handle_unlock; the exclusive client stays.
Unlock == sf.lock # NoClient /\ sf' = [sf EXCEPT !.locked = FALSE, !.lock = NoClient, !.shown = FALSE]

\* handle_abandon: the client is gone, and with it its surfaces.
Abandon ==
  LET bare == [sf EXCEPT !.lockMapped = {}, !.keyboard = IF @ \in LockSurfaces THEN NoSurface ELSE @,
                         !.pad = IF @ \in LockSurfaces THEN NoSurface ELSE @]
  IN  sf.lock # NoClient /\ sf' = [bare EXCEPT !.lock = NoClient, !.exclusive = NoClient]

-----------------------------------------------------------------------------
(* Constraints. *)

\* handle_pointer_constraint: constrained at once if the window has the root's focus
NewConstraint(c, lifetime) ==
  LET new == [sf EXCEPT !.constraint[c] = lifetime]
  IN  /\ c \in sf.open /\ sf.constraint[c] = "none"
      /\ sf' = IF FocusedWindow(sf) = c THEN Constrain(new, c) ELSE new

ConstraintDestroy(c) == sf.constraint[c] # "none" /\ sf' = DestroyConstraint(sf, c)

\* seat_cmd_pointer_constraint: "disable" is stored after the cursor is freed, "escape"
\* only frees it.
PointerConstraint(op) ==
  sf' = CASE op = "enable" -> [sf EXCEPT !.allow = TRUE]
          [] op = "disable" -> [Constrain(sf, NoSurface) EXCEPT !.allow = FALSE]
          [] op = "escape" -> Constrain(sf, NoSurface)

FocusInit ==
  sf = [open |-> {}, window |-> NoSurface, layer |-> NoSurface, mapped |-> {}, known |-> {},
        root |-> NoSurface, seat |-> NoSurface, keyboard |-> NoSurface, pad |-> NoSurface,
        locked |-> FALSE, lock |-> NoClient, exclusive |-> NoClient, lockMapped |-> {}, shown |-> FALSE,
        constraint |-> [c \in FocusSurface |-> "none"], active |-> NoSurface, hears |-> NoSurface,
        allow |-> TRUE, crashed |-> FALSE]

FocusNext ==
  /\ ~sf.crashed
  /\ \/ \E w \in Windows : FocusWindow(w) \/ \E next \in Windows \cup {NoSurface} : CloseWindow(w, next)
     \/ \E w \in Windows \cup {NoSurface} : SwitchWorkspace(w)
     \/ \E l \in Layers : LayerMap(l) \/ FocusLayer(l) \/ \E destroyed \in BOOLEAN : LayerUnmap(l, destroyed)
     \/ LayerOutputGone
     \/ \E c \in LockClient : Lock(c)
     \/ \E k \in LockSurfaces : LockSurfaceMap(k) \/ LockSurfaceDestroy(k)
     \/ Unlock \/ Abandon
     \/ \E c \in Windows : ConstraintDestroy(c) \/ \E life \in {"oneshot", "persistent"} : NewConstraint(c, life)
     \/ \E op \in {"enable", "disable", "escape"} : PointerConstraint(op)

FocusSpec == FocusInit /\ [][FocusNext]_focusVars

-----------------------------------------------------------------------------
(* Properties. *)

\* Once a lock surface is shown and until the lock is taken away, whatever maps, closes
\* or is focused underneath, keys and pads go to the locking client or nowhere ("If
\* exclusive_client is set, no other clients will receive input events", seat.h 72).
LockedInputIsKept ==
  sf.locked /\ sf.shown /\ ~sf.crashed =>
    \A c \in {sf.keyboard, sf.pad} \ {NoSurface} : ClientOf[c] \in LockClient

\* A pointer constraint is active only for the surface that has the seat's focus, exists
\* until it is no longer active, and the cursor hears of the commits of its surface
\* ("assert(constraint->surface == data)", cursor.c 897); a focused layer is mapped,
\* as long as its output was not disabled.
FocusIsHeld ==
  LET committed == sf.root = RootFocus(sf) IN
  /\ sf.hears = sf.active
  /\ sf.active # NoSurface => sf.constraint[sf.active] # "none" /\ (committed => sf.seat = sf.active)
  /\ sf.layer \in sf.known => sf.layer \in sf.mapped
  /\ sf.root \in sf.known /\ committed => sf.root \in sf.mapped

\* Locking finds the root as it may be ("assert(window != NULL)", root.c 426).
LockingSucceeds == ~sf.crashed
=============================================================================

------------------------------- MODULE Cursor -------------------------------
(***************************************************************************)
(* The cursor of a seat (input/cursor.c): its image and when it is hidden, *)
(* and the pointer that it simulates for clients that understand neither   *)
(* touch nor tablets (also input/tablet.c).                                *)
(*                                                                         *)
(* A handler changes several of these things through helpers that call     *)
(* each other, so handlers are operators on the cursor, a record, and an   *)
(* action applies one of them.  Where the pointer is becomes a choice: of  *)
(* the surface that is there, what matters is which events it accepts.     *)
(* What the seat's operation does with a simulated button is in Seatop.    *)
(*                                                                         *)
(* Modelled from their use: what wlroots displays, and the touch points    *)
(* that it has told clients of.                                            *)
(***************************************************************************)
EXTENDS Integers, FiniteSets

CONSTANTS
  Finger,      \* touch ids
  Images,      \* xcursor names and surfaces that clients set
  Surfaces,    \* those of Images that are surfaces
  ToolButtons, \* the buttons of the tablet tool
  Pressable    \* bounds cursor->pressed_button_count

ASSUME ImageAssumption == Surfaces \subseteq Images /\ "left_ptr" \in Images \ Surfaces

Nothing == "nothing"  \* no image

VARIABLE cu
cursorVars == <<cu>>

-----------------------------------------------------------------------------
(* Images. *)

\* Wlr_cursor_set_xcursor, wlr_cursor_set_surface and wlr_cursor_unset_image
Show(s, image) == [s EXCEPT !.shown = image]

\* cursor_set_image.  The name that is current already is not set again; image is
\* NULL while a surface is set.
SetImage(s, image) ==
  LET current == IF s.image \in Surfaces THEN Nothing ELSE s.image
      set == [s EXCEPT !.image = image]
  IN  IF ~s.pointer THEN s
      ELSE IF s.hidden \/ (image # Nothing /\ image = current) THEN set ELSE Show(set, image)

\* cursor_set_image_surface
SetImageSurface(s, surface) ==
  LET set == [s EXCEPT !.image = surface]
  IN  IF ~s.pointer THEN s ELSE IF s.hidden THEN set ELSE Show(set, surface)

\* cursor_hide
Hide(s) == [Show(s, Nothing) EXCEPT !.hidden = TRUE]

\* cursor_get_timeout: whether there is one
Timeout(s) == s.buttons = 0 /\ s.hideAfter

\* wl_event_source_timer_update(hide_source, cursor_get_timeout())
UpdateTimer(s) == [s EXCEPT !.timer = Timeout(s), !.fresh = TRUE]

\* Mutant: the image is not forgotten, so that setting it again does nothing.
UnhideKeepingImage(s) ==
  LET visible == [s EXCEPT !.hidden = FALSE]
  IN  IF ~s.hidden THEN s
      ELSE IF s.image \in Surfaces THEN UpdateTimer(SetImageSurface(visible, s.image))
      ELSE UpdateTimer(SetImage(visible, s.image))

\* cursor_unhide
Unhide(s) ==
  LET visible == [s EXCEPT !.hidden = FALSE]
  IN  IF ~s.hidden THEN s
      ELSE IF s.image \in Surfaces THEN UpdateTimer(SetImageSurface(visible, s.image))
      ELSE UpdateTimer(SetImage([visible EXCEPT !.image = Nothing], s.image))

\* cursor_handle_activity_from_device
Activity(s, device) == IF device = "touch" THEN UpdateTimer(s) ELSE Unhide(UpdateTimer(s))

\* cursor_notify_key_press: the configuration is looked up once
KeyPress(s) ==
  LET known == IF s.whenTyping = "default" THEN [s EXCEPT !.whenTyping = s.hideTyping] ELSE s
  IN  IF s.hidden THEN s ELSE IF known.whenTyping = "enable" THEN Hide(known) ELSE known

-----------------------------------------------------------------------------
(* Simulated buttons. *)

\* dispatch_cursor_button, for a button that a finger, the tip or the buttons of a
\* tool press and release
Dispatch(s, who, pressing) == [s EXCEPT !.pressed = IF pressing THEN @ \cup {who} ELSE @ \ {who}]

\* handle_touch_down.  The surface at the finger accepts touch or not, or its client
\* is refused input, or there is none.
HandleTouchDown(s, f, at) ==
  LET now == [Hide(Activity(s, "touch")) EXCEPT !.fingers = @ \cup {f}, !.touchId = f]
  IN  CASE at = "touch" -> [now EXCEPT !.touches = @ \cup {f}]
        [] at \in {"plain", "none"} /\ ~s.simulating ->
             Dispatch([now EXCEPT !.simulating = TRUE, !.pointerTouchId = f], "finger", TRUE)
        [] OTHER -> now

\* handle_touch_up
HandleTouchUp(s, f) ==
  LET now == [Activity(s, "touch") EXCEPT !.fingers = @ \ {f}]
  IN  IF ~s.simulating THEN [now EXCEPT !.touches = @ \ {f}]
      ELSE IF s.pointerTouchId # s.touchId THEN now
      ELSE Dispatch([now EXCEPT !.pointerTouchUp = TRUE], "finger", FALSE)

\* Mutant: the frame that follows any event ends the simulation.
TouchFrameEnding(s) ==
  IF s.simulating THEN [s EXCEPT !.pointerTouchUp = FALSE, !.simulating = FALSE] ELSE s

\* handle_touch_frame
HandleTouchFrame(s) ==
  IF s.simulating /\ s.pointerTouchUp
  THEN [s EXCEPT !.pointerTouchUp = FALSE, !.simulating = FALSE] ELSE s

\* handle_tool_tip
HandleToolTip(s, down, at) ==
  LET now == [Activity(s, "tool") EXCEPT !.tip = down]
  IN  IF s.simulatingTip /\ ~down THEN Dispatch([now EXCEPT !.simulatingTip = FALSE], "tip", FALSE)
      ELSE IF at = "tablet" \/ ~down THEN now  \* seatop_tablet_tool_tip
      ELSE Dispatch([now EXCEPT !.simulatingTip = TRUE], "tip", TRUE)

\* handle_tool_button: the first button of the tool is the pointer's right button
HandleToolButton(s, b, pressing, at) ==
  LET now == [Activity(s, "tool") EXCEPT !.toolDown = IF pressing THEN @ \cup {b} ELSE @ \ {b}]
      counted == [now EXCEPT !.toolButtons = IF pressing THEN @ + 1 ELSE @ - 1]
  IN  IF at = "tablet" THEN now
      ELSE IF s.toolButtons = (IF pressing THEN 0 ELSE 1) THEN Dispatch(counted, "tool", pressing)
      ELSE counted

-----------------------------------------------------------------------------
(* Actions. *)

\* The surfaces that a finger or a tool may be at.
At == {"none", "plain", "touch", "tablet", "refused"}

TouchDown(f, at) == f \notin cu.fingers /\ at # "tablet" /\ cu' = HandleTouchDown(cu, f, at)
TouchUp(f) == f \in cu.fingers /\ cu' = HandleTouchUp(cu, f)
TouchMotion == cu.fingers # {} /\ cu' = Activity(cu, "touch")
TouchFrame == cu' = HandleTouchFrame(cu)

\* A tool comes near, and hwd_tablet_tool_configure makes it known before it is used;
\* handle_tablet_tool_position then moves the client's tool or the simulated pointer.
ToolProximity(near) ==
  /\ cu.tool # near /\ cu.toolDown = {} /\ ~cu.tip
  /\ cu' = [Activity(cu, "tool") EXCEPT !.tool = near]
ToolMotion == cu.tool /\ cu' = Activity(cu, "tool")
ToolTipEvent(down, at) ==
  cu.tool /\ cu.tip # down /\ at \in {"none", "tablet"} /\ cu' = HandleToolTip(cu, down, at)
ToolButton(b, pressing, at) ==
  /\ cu.tool /\ (b \in cu.toolDown) # pressing /\ at \in {"none", "tablet"}
  /\ cu.toolButtons \in -Cardinality(ToolButtons)..Cardinality(ToolButtons)
  /\ cu' = HandleToolButton(cu, b, pressing, at)

\* handle_pointer_motion_relative and _absolute, handle_pointer_axis, the gestures
PointerActivity == cu.pointer /\ cu' = Activity(cu, "pointer")

\* handle_pointer_button: the counter first, so that the timer sees it
PointerButton(pressing) ==
  /\ cu.pointer /\ (pressing => cu.buttons < Pressable)
  /\ LET n == IF pressing THEN cu.buttons + 1 ELSE IF cu.buttons > 0 THEN cu.buttons - 1 ELSE 0
     IN  cu' = Activity([cu EXCEPT !.buttons = n], "pointer")

\* hide_notify
HideNotify == cu.timer /\ cu' = [Hide(cu) EXCEPT !.timer = FALSE]

\* handle_keyboard_key calls cursor_notify_key_press.
CursorKeyPress == cu' = KeyPress(cu)

\* handle_request_pointer_set_cursor and handle_tablet_tool_set_cursor, of the client
\* that has the focus; handle_image_surface_destroy; seatop_default.c sets names.
ClientSetsCursor(image) == image \in Surfaces \cup {Nothing} /\ cu' = SetImageSurface(cu, image)
SurfaceGone == cu.image \in Surfaces /\ cu' = SetImage(cu, Nothing)
SetCursorName(image) == image \in Images \ Surfaces /\ cu' = SetImage(cu, image)

\* seat_update_capabilities, when the last pointer goes or the first one comes
Capabilities ==
  cu' = IF cu.pointer THEN [SetImage(cu, Nothing) EXCEPT !.pointer = FALSE]
        ELSE SetImage([cu EXCEPT !.pointer = TRUE], "left_ptr")

\* seat_configure_xcursor
ConfigureXcursor == cu' = SetImage(SetImage(cu, Nothing), "left_ptr")

\* seat_cmd_hide_cursor
HideCursorTimeout(set) == cu' = [cu EXCEPT !.hideAfter = set, !.fresh = FALSE]
HideWhenTyping(set) == cu' = [cu EXCEPT !.hideTyping = set, !.whenTyping = "default"]

CursorInit ==
  cu = [image |-> Nothing, shown |-> Nothing, hidden |-> FALSE, timer |-> FALSE, fresh |-> FALSE,
        hideAfter |-> FALSE, hideTyping |-> "disable", whenTyping |-> "default", pointer |-> FALSE,
        buttons |-> 0, fingers |-> {}, touches |-> {}, touchId |-> 0, simulating |-> FALSE,
        pointerTouchId |-> 0, pointerTouchUp |-> FALSE, tool |-> FALSE, tip |-> FALSE,
        simulatingTip |-> FALSE, toolDown |-> {}, toolButtons |-> 0, pressed |-> {}]

CursorNext ==
  \/ \E f \in Finger : TouchUp(f) \/ \E at \in At : TouchDown(f, at)
  \/ TouchMotion \/ TouchFrame
  \/ ToolMotion \/ \E near \in BOOLEAN : ToolProximity(near)
  \/ \E down \in BOOLEAN, at \in At :
       ToolTipEvent(down, at) \/ \E b \in ToolButtons : ToolButton(b, down, at)
  \/ PointerActivity \/ \E pressing \in BOOLEAN : PointerButton(pressing)
  \/ HideNotify \/ CursorKeyPress
  \/ \E image \in Images \cup {Nothing} : ClientSetsCursor(image) \/ SetCursorName(image)
  \/ SurfaceGone \/ Capabilities \/ ConfigureXcursor
  \/ \E set \in BOOLEAN : HideCursorTimeout(set)
  \/ \E set \in {"enable", "disable"} : HideWhenTyping(set)

CursorSpec == CursorInit /\ [][CursorNext]_cursorVars

-----------------------------------------------------------------------------
(* Properties. *)

\* Whoever sets, hides or takes away an image, what is displayed is the image that is
\* current unless the cursor is hidden; a visible cursor will be hidden after the
\* timeout that is configured, but not while a button is pressed ("Do not hide
\* cursor unless all buttons are released", cursor.c 202).
CursorIsShown ==
  /\ cu.shown = IF cu.hidden THEN Nothing ELSE cu.image
  /\ cu.fresh /\ ~cu.hidden /\ cu.hideAfter /\ cu.buttons = 0 => cu.timer
  /\ cu.buttons > 0 => ~cu.timer

\* A press that a finger or the tip of a tool simulates is released when the finger
\* or the tip is lifted, wherever that is ("so drags are not aborted when over a
\* surface supporting touch and multi touch events don't interfere", cursor.c 470).
SimulatedPressesEnd ==
  /\ "finger" \in cu.pressed => cu.simulating /\ cu.pointerTouchId \in cu.fingers
  /\ "tip" \in cu.pressed => cu.tip
=============================================================================

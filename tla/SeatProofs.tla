----------------------------- MODULE SeatProofs -----------------------------
(***************************************************************************)
(* Proofs about the cursor of a seat, about what has the seat's focus, and *)
(* about its operations, for every set of fingers, images, surfaces,       *)
(* clients, windows and columns.  The handlers of Cursor, SeatFocus and    *)
(* Seatop are operators on a record, so most lemmas say what one of these  *)
(* operators makes of any record, and a step follows from the lemmas on    *)
(* the operators that its handler calls.                                   *)
(***************************************************************************)
EXTENDS Cursor, SeatFocus, Seatop, DataTheorems

-----------------------------------------------------------------------------
(* The invariant of the cursor. *)

CursorRecord ==
  [image : Images \cup {Nothing}, shown : Images \cup {Nothing}, hidden : BOOLEAN, timer : BOOLEAN,
   fresh : BOOLEAN, hideAfter : BOOLEAN, hideTyping : {"enable", "disable"},
   whenTyping : {"default", "enable", "disable"}, pointer : BOOLEAN, buttons : Nat,
   fingers : SUBSET Finger, touches : SUBSET Finger, touchId : Finger \cup {0},
   simulating : BOOLEAN, pointerTouchId : Finger \cup {0}, pointerTouchUp : BOOLEAN,
   tool : BOOLEAN, tip : BOOLEAN, simulatingTip : BOOLEAN, toolDown : SUBSET ToolButtons,
   toolButtons : Int, pressed : SUBSET {"finger", "tip", "tool"}]

\* A seat without a pointer has no image, so that there is none to show when it is unhidden.
ShownInv(s) ==
  /\ s.shown = IF s.hidden THEN Nothing ELSE s.image
  /\ ~s.pointer => s.image = Nothing

TimerInv(s) ==
  /\ s.fresh /\ ~s.hidden /\ s.hideAfter /\ s.buttons = 0 => s.timer
  /\ s.buttons > 0 => ~s.timer

\* The simulated presses, and the flags that say how they will end.
PressInv(s) ==
  /\ "finger" \in s.pressed => s.simulating /\ ~s.pointerTouchUp
  /\ s.pointerTouchUp => s.simulating
  /\ "tip" \in s.pressed => s.tip /\ s.simulatingTip

\* With a single finger, the one that simulates the pointer is the last one put down.
FingerInv(s) ==
  /\ "finger" \in s.pressed => s.pointerTouchId \in s.fingers
  /\ s.fingers # {} => s.touchId \in Finger

CursorInv(s) == s \in CursorRecord /\ ShownInv(s) /\ TimerInv(s) /\ PressInv(s)

\* What the helpers that show and hide the image leave alone.
SamePresses(s, t) ==
  /\ t.pressed = s.pressed /\ t.simulating = s.simulating /\ t.pointerTouchUp = s.pointerTouchUp
  /\ t.tip = s.tip /\ t.simulatingTip = s.simulatingTip
  /\ t.fingers = s.fingers /\ t.touchId = s.touchId /\ t.pointerTouchId = s.pointerTouchId
SameTimer(s, t) ==
  /\ t.timer = s.timer /\ t.fresh = s.fresh /\ t.hideAfter = s.hideAfter /\ t.buttons = s.buttons

-----------------------------------------------------------------------------
(* The helpers. *)

\* Storing an image and showing it, or only storing it while the cursor is hidden.
LEMMA StoreAndShow ==
  ASSUME NEW s \in CursorRecord, s.pointer, NEW image \in Images \cup {Nothing},
         NEW t, \/ t = Show([s EXCEPT !.image = image], image) /\ ~s.hidden
                \/ t = [s EXCEPT !.image = image] /\ ShownInv(s) /\ (s.hidden \/ image = s.image)
  PROVE  /\ t \in CursorRecord /\ ShownInv(t) /\ SameTimer(s, t) /\ SamePresses(s, t)
         /\ t.hidden = s.hidden /\ t.pointer = s.pointer /\ t.image = image
<1> USE DEF CursorRecord, ShownInv, SameTimer, SamePresses
<1>1. CASE t = Show([s EXCEPT !.image = image], image) /\ ~s.hidden
  BY <1>1 DEF Show
<1>2. CASE t = [s EXCEPT !.image = image] /\ ShownInv(s) /\ (s.hidden \/ image = s.image)
  BY <1>2
<1> QED
  BY <1>1, <1>2

\* cursor_set_image and cursor_set_image_surface, of a cursor whose image is shown
LEMMA SetImageShows ==
  ASSUME NEW s \in CursorRecord, ShownInv(s), NEW image \in Images \cup {Nothing},
         NEW t, t = SetImage(s, image) \/ t = SetImageSurface(s, image)
  PROVE  /\ t \in CursorRecord /\ ShownInv(t) /\ SameTimer(s, t) /\ SamePresses(s, t)
         /\ t.hidden = s.hidden /\ t.pointer = s.pointer
         /\ s.pointer => t.image = image
<1>1. CASE ~s.pointer
  BY <1>1 DEF SetImage, SetImageSurface, SameTimer, SamePresses
<1>2. CASE s.pointer
  <2>1. \/ t = Show([s EXCEPT !.image = image], image) /\ ~s.hidden
        \/ t = [s EXCEPT !.image = image] /\ ShownInv(s) /\ (s.hidden \/ image = s.image)
    BY <1>2 DEF SetImage, SetImageSurface
  <2> QED
    BY <1>2, <2>1, StoreAndShow
<1> QED
  BY <1>1, <1>2 DEF CursorRecord

\* cursor_hide
LEMMA HideHides ==
  ASSUME NEW s \in CursorRecord, ShownInv(s)
  PROVE  /\ Hide(s) \in CursorRecord /\ ShownInv(Hide(s)) /\ Hide(s).hidden
         /\ SameTimer(s, Hide(s)) /\ SamePresses(s, Hide(s))
BY DEF CursorRecord, ShownInv, Hide, Show, SameTimer, SamePresses

\* wl_event_source_timer_update, with what cursor_get_timeout returns
LEMMA UpdateTimerArms ==
  ASSUME NEW s \in CursorRecord, ShownInv(s)
  PROVE  /\ UpdateTimer(s) \in CursorRecord /\ ShownInv(UpdateTimer(s)) /\ TimerInv(UpdateTimer(s))
         /\ SamePresses(s, UpdateTimer(s))
<1> DEFINE t == [s EXCEPT !.timer = Timeout(s), !.fresh = TRUE]
<1>1. Timeout(s) \in BOOLEAN
  BY DEF Timeout
<1>2. t \in CursorRecord
  BY <1>1 DEF CursorRecord
<1>3. t.timer = Timeout(s) /\ t.hideAfter = s.hideAfter /\ t.buttons = s.buttons /\ s.hideAfter \in BOOLEAN /\ s.buttons \in Nat
      /\ t.shown = s.shown /\ t.hidden = s.hidden /\ t.image = s.image /\ t.pointer = s.pointer
  BY DEF CursorRecord
<1>4. SamePresses(s, t)
  BY DEF CursorRecord, SamePresses
<1> HIDE DEF t
<1>5. t.timer => t.buttons = 0
  BY <1>3 DEF Timeout
<1>6. t.hideAfter /\ t.buttons = 0 => t.timer
  BY <1>3 DEF Timeout
<1>7. t.buttons > 0 => t.buttons # 0
  BY <1>3
<1>8. TimerInv(t) /\ ShownInv(t)
  BY <1>3, <1>5, <1>6, <1>7 DEF TimerInv, ShownInv
<1> QED
  BY <1>2, <1>4, <1>8 DEF UpdateTimer, t

\* cursor_unhide: the image that was current while the cursor was hidden is shown again.
LEMMA UnhideShows ==
  ASSUME NEW s \in CursorRecord, ShownInv(s), TimerInv(s)
  PROVE  /\ Unhide(s) \in CursorRecord /\ ShownInv(Unhide(s)) /\ TimerInv(Unhide(s))
         /\ SamePresses(s, Unhide(s))
<1> DEFINE visible == [s EXCEPT !.hidden = FALSE]
           bare == [visible EXCEPT !.image = Nothing]
<1>1. CASE ~s.hidden
  BY <1>1 DEF Unhide, SamePresses
<1>2. CASE s.hidden
  <2>1. visible \in CursorRecord /\ bare \in CursorRecord /\ SamePresses(s, visible) /\ SamePresses(s, bare)
        /\ visible.hidden = FALSE /\ bare.hidden = FALSE /\ visible.pointer = s.pointer /\ bare.pointer = s.pointer
        /\ visible.shown = Nothing /\ bare.shown = Nothing /\ bare.image = Nothing
        /\ s.image \in Images \cup {Nothing}
    BY <1>2 DEF CursorRecord, SamePresses, ShownInv
  <2>2. CASE s.image \in Surfaces
    <3> DEFINE t == SetImageSurface(visible, s.image)
    <3>1. t \in CursorRecord /\ ShownInv(t) /\ SamePresses(s, t)
      <4>1. CASE ~visible.pointer
        BY <1>2, <2>1, <4>1 DEF SetImageSurface, ShownInv, CursorRecord
      <4>2. CASE visible.pointer
        <5>1. t = Show([visible EXCEPT !.image = s.image], s.image)
          BY <2>1, <4>2 DEF SetImageSurface
        <5> HIDE DEF visible, t
        <5>2. t \in CursorRecord /\ ShownInv(t) /\ SamePresses(visible, t)
          BY <2>1, <4>2, <5>1, StoreAndShow
        <5> QED
          BY <2>1, <5>2 DEF SamePresses
      <4> QED
        BY <4>1, <4>2
    <3>2. Unhide(s) = UpdateTimer(t)
      BY <1>2, <2>2 DEF Unhide
    <3> QED
      BY <3>1, <3>2, UpdateTimerArms DEF SamePresses
  <2>3. CASE s.image \notin Surfaces
    <3> DEFINE t == SetImage(bare, s.image)
    <3>1. ShownInv(bare)
      BY <2>1 DEF ShownInv
    <3>2. t \in CursorRecord /\ ShownInv(t) /\ SamePresses(bare, t)
      BY <2>1, <3>1, SetImageShows
    <3>3. Unhide(s) = UpdateTimer(t)
      BY <1>2, <2>3 DEF Unhide
    <3> QED
      BY <2>1, <3>2, <3>3, UpdateTimerArms DEF SamePresses
  <2> QED
    BY <2>2, <2>3
<1> QED
  BY <1>1, <1>2 DEF CursorRecord

\* cursor_handle_activity_from_device: it leaves the timer as it should be, however it was.
LEMMA ActivityArms ==
  ASSUME NEW s \in CursorRecord, ShownInv(s), NEW device
  PROVE  /\ Activity(s, device) \in CursorRecord /\ ShownInv(Activity(s, device))
         /\ TimerInv(Activity(s, device)) /\ SamePresses(s, Activity(s, device))
BY UpdateTimerArms, UnhideShows DEF Activity, SamePresses

\* cursor_notify_key_press
LEMMA KeyPressHides ==
  ASSUME NEW s \in CursorRecord, CursorInv(s)
  PROVE  CursorInv(KeyPress(s)) /\ SamePresses(s, KeyPress(s))
<1> DEFINE known == IF s.whenTyping = "default" THEN [s EXCEPT !.whenTyping = s.hideTyping] ELSE s
<1>1. known \in CursorRecord /\ ShownInv(known) /\ SameTimer(s, known) /\ SamePresses(s, known)
      /\ known.hidden = s.hidden
  BY DEF CursorInv, CursorRecord, ShownInv, SameTimer, SamePresses
<1>2. KeyPress(s) \in {s, known, Hide(known)}
  BY DEF KeyPress
<1>3. CursorInv(known)
  BY <1>1 DEF CursorInv, TimerInv, PressInv, SameTimer, SamePresses
<1>4. CursorInv(Hide(known)) /\ SamePresses(s, Hide(known))
  <2> HIDE DEF known
  <2> QED
    BY <1>1, <1>3, HideHides DEF CursorInv, TimerInv, PressInv, SameTimer, SamePresses
<1> HIDE DEF known
<1> QED
  BY <1>1, <1>2, <1>3, <1>4 DEF SamePresses

-----------------------------------------------------------------------------
(* The handlers of events. *)

\* The handlers that leave the presses alone keep what is said of them.
LEMMA PressesKept ==
  ASSUME NEW s, NEW t, SamePresses(s, t)
  PROVE  (PressInv(s) => PressInv(t)) /\ (FingerInv(s) => FingerInv(t))
BY DEF SamePresses, PressInv, FingerInv

\* A press or a release that is simulated, and the flags that come with it, show no image.
SameImage(s, t) ==
  /\ t.image = s.image /\ t.shown = s.shown /\ t.hidden = s.hidden /\ t.pointer = s.pointer
  /\ SameTimer(s, t)
LEMMA ImageKept ==
  ASSUME NEW s, NEW t, SameImage(s, t)
  PROVE  (ShownInv(s) => ShownInv(t)) /\ (TimerInv(s) => TimerInv(t))
BY DEF SameImage, SameTimer, ShownInv, TimerInv

\* A finger goes down: the cursor is hidden, and the first finger that is over no surface
\* that takes touch simulates the pointer.
LEMMA TouchDownInv ==
  ASSUME NEW s \in CursorRecord, CursorInv(s), NEW f \in Finger, NEW at
  PROVE  /\ CursorInv(HandleTouchDown(s, f, at))
         /\ FingerInv(s) => FingerInv(HandleTouchDown(s, f, at))
<1> DEFINE h == Hide(Activity(s, "touch"))
           now == [h EXCEPT !.fingers = @ \cup {f}, !.touchId = f]
           told == [now EXCEPT !.touches = @ \cup {f}]
           pressed == [[now EXCEPT !.simulating = TRUE, !.pointerTouchId = f] EXCEPT !.pressed = @ \cup {"finger"}]
<1>1. h \in CursorRecord /\ ShownInv(h) /\ TimerInv(h) /\ SamePresses(s, h)
  <2>1. LET a == Activity(s, "touch") IN a \in CursorRecord /\ ShownInv(a) /\ TimerInv(a) /\ SamePresses(s, a)
    BY ActivityArms DEF CursorInv
  <2> QED
    BY <2>1, HideHides DEF TimerInv, SameTimer, SamePresses
<1>2. HandleTouchDown(s, f, at) \in {now, told} \/ (HandleTouchDown(s, f, at) = pressed /\ ~s.simulating)
  BY DEF HandleTouchDown, Dispatch
<1> HIDE DEF h
<1>3. now \in CursorRecord /\ told \in CursorRecord /\ pressed \in CursorRecord
  BY <1>1 DEF CursorRecord
<1>4. SameImage(h, now) /\ SameImage(h, told) /\ SameImage(h, pressed)
  BY <1>1 DEF SameImage, SameTimer, CursorRecord
<1>5. PressInv(s) /\ PressInv(h) /\ (FingerInv(s) => FingerInv(h)) /\ h.simulating = s.simulating
  BY <1>1, PressesKept DEF CursorInv, SamePresses
<1>6. PressInv(now) /\ PressInv(told) /\ (~s.simulating => PressInv(pressed))
  BY <1>1, <1>5 DEF PressInv, CursorRecord
<1>7. FingerInv(h) => FingerInv(now) /\ FingerInv(told) /\ FingerInv(pressed)
  BY <1>1 DEF FingerInv, CursorRecord
<1> HIDE DEF now, told, pressed
<1> QED
  BY <1>1, <1>2, <1>3, <1>4, <1>5, <1>6, <1>7, ImageKept DEF CursorInv

\* There is one finger: with two, a simulated press may outlive its finger (README, section 4).
OneFinger == \A f, g \in Finger : f = g

\* A finger goes up: if it simulated the pointer, the press is released.
LEMMA TouchUpInv ==
  ASSUME NEW s \in CursorRecord, CursorInv(s), NEW f \in s.fingers
  PROVE  /\ CursorInv(HandleTouchUp(s, f))
         /\ OneFinger /\ FingerInv(s) => FingerInv(HandleTouchUp(s, f))
<1> DEFINE a == Activity(s, "touch")
           now == [a EXCEPT !.fingers = @ \ {f}]
           told == [now EXCEPT !.touches = @ \ {f}]
           released == [[now EXCEPT !.pointerTouchUp = TRUE] EXCEPT !.pressed = @ \ {"finger"}]
<1>1. a \in CursorRecord /\ ShownInv(a) /\ TimerInv(a) /\ SamePresses(s, a)
  BY ActivityArms DEF CursorInv
<1>2. LET t == HandleTouchUp(s, f)
      IN  \/ t = told /\ ~s.simulating
          \/ t = now /\ s.pointerTouchId # s.touchId
          \/ t = released /\ s.simulating
  BY DEF HandleTouchUp, Dispatch
<1> HIDE DEF a
<1>3. now \in CursorRecord /\ told \in CursorRecord /\ released \in CursorRecord
  BY <1>1 DEF CursorRecord
<1>4. SameImage(a, now) /\ SameImage(a, told) /\ SameImage(a, released)
  BY <1>1 DEF SameImage, SameTimer, CursorRecord
<1>5. PressInv(s) /\ PressInv(a) /\ (FingerInv(s) => FingerInv(a)) /\ SamePresses(s, a)
  BY <1>1, PressesKept DEF CursorInv
<1>6. PressInv(now) /\ PressInv(told) /\ (s.simulating => PressInv(released))
  BY <1>1, <1>5 DEF PressInv, CursorRecord, SamePresses
<1>7. ASSUME OneFinger, FingerInv(s)
      PROVE  /\ ~s.simulating => FingerInv(told)
             /\ s.pointerTouchId # s.touchId => FingerInv(now)
             /\ FingerInv(released)
  <2>1. s.fingers = {f} /\ s.touchId = f /\ (s.pointerTouchId \in s.fingers => s.pointerTouchId = f)
    BY <1>7 DEF OneFinger, FingerInv, CursorRecord
  <2> QED
    BY <1>1, <1>5, <1>7, <2>1 DEF FingerInv, SamePresses, CursorRecord, PressInv
<1> HIDE DEF now, told, released
<1> QED
  BY <1>1, <1>2, <1>3, <1>4, <1>6, <1>7, ImageKept DEF CursorInv

\* The frame that follows the event that lifts the finger ends the simulation.
LEMMA TouchFrameInv ==
  ASSUME NEW s \in CursorRecord, CursorInv(s)
  PROVE  CursorInv(HandleTouchFrame(s)) /\ (FingerInv(s) => FingerInv(HandleTouchFrame(s)))
<1> DEFINE t == [s EXCEPT !.pointerTouchUp = FALSE, !.simulating = FALSE]
<1>1. CASE s.simulating /\ s.pointerTouchUp
  <2>1. t \in CursorRecord /\ SameImage(s, t)
    BY DEF CursorRecord, SameImage, SameTimer
  <2>2. PressInv(t) /\ (FingerInv(s) => FingerInv(t))
    BY <1>1 DEF CursorInv, CursorRecord, PressInv, FingerInv
  <2> HIDE DEF t
  <2>3. CursorInv(t)
    BY <2>1, <2>2, ImageKept DEF CursorInv
  <2> QED
    BY <1>1, <2>2, <2>3 DEF HandleTouchFrame, t
<1>2. CASE ~(s.simulating /\ s.pointerTouchUp)
  BY <1>2 DEF HandleTouchFrame
<1> QED
  BY <1>1, <1>2

\* The tip of a tool: what it pressed where there was no tablet surface is released wherever
\* it is lifted.
LEMMA ToolTipInv ==
  ASSUME NEW s \in CursorRecord, CursorInv(s), NEW down \in BOOLEAN, NEW at
  PROVE  /\ CursorInv(HandleToolTip(s, down, at))
         /\ FingerInv(s) => FingerInv(HandleToolTip(s, down, at))
<1> DEFINE a == Activity(s, "tool")
           now == [a EXCEPT !.tip = down]
           pressed == [[now EXCEPT !.simulatingTip = TRUE] EXCEPT !.pressed = @ \cup {"tip"}]
           released == [[now EXCEPT !.simulatingTip = FALSE] EXCEPT !.pressed = @ \ {"tip"}]
<1>1. a \in CursorRecord /\ ShownInv(a) /\ TimerInv(a) /\ SamePresses(s, a)
  BY ActivityArms DEF CursorInv
<1>2. LET t == HandleToolTip(s, down, at)
      IN  \/ t = released
          \/ t = now /\ (down \/ ~s.simulatingTip)
          \/ t = pressed /\ down
  BY DEF HandleToolTip, Dispatch
<1> HIDE DEF a
<1>3. now \in CursorRecord /\ pressed \in CursorRecord /\ released \in CursorRecord
  <2>1. now \in CursorRecord
    BY <1>1 DEF CursorRecord
  <2> HIDE DEF now
  <2>2. pressed \in CursorRecord
    BY <2>1 DEF CursorRecord
  <2>3. released \in CursorRecord
    BY <2>1 DEF CursorRecord
  <2> QED
    BY <2>1, <2>2, <2>3
<1>4. SameImage(a, now) /\ SameImage(a, pressed) /\ SameImage(a, released)
  BY <1>1 DEF SameImage, SameTimer, CursorRecord
<1>5. PressInv(s) /\ PressInv(a) /\ (FingerInv(s) => FingerInv(a)) /\ SamePresses(s, a)
  BY <1>1, PressesKept DEF CursorInv
<1>6. PressInv(released) /\ (down \/ ~s.simulatingTip => PressInv(now)) /\ (down => PressInv(pressed))
  BY <1>1, <1>5 DEF PressInv, CursorRecord, SamePresses
<1>7. FingerInv(a) => FingerInv(now) /\ FingerInv(pressed) /\ FingerInv(released)
  BY <1>1 DEF FingerInv, CursorRecord
<1> HIDE DEF now, pressed, released
<1> QED
  BY <1>1, <1>2, <1>3, <1>4, <1>5, <1>6, <1>7, ImageKept DEF CursorInv

\* The buttons of a tool press and release a button of their own.
LEMMA ToolButtonInv ==
  ASSUME NEW s \in CursorRecord, CursorInv(s), NEW b \in ToolButtons, NEW pressing \in BOOLEAN, NEW at
  PROVE  /\ CursorInv(HandleToolButton(s, b, pressing, at))
         /\ FingerInv(s) => FingerInv(HandleToolButton(s, b, pressing, at))
<1> DEFINE a == Activity(s, "tool")
           now == [a EXCEPT !.toolDown = IF pressing THEN @ \cup {b} ELSE @ \ {b}]
           counted == [now EXCEPT !.toolButtons = IF pressing THEN @ + 1 ELSE @ - 1]
           told == [counted EXCEPT !.pressed = IF pressing THEN @ \cup {"tool"} ELSE @ \ {"tool"}]
<1>1. a \in CursorRecord /\ ShownInv(a) /\ TimerInv(a) /\ SamePresses(s, a)
  BY ActivityArms DEF CursorInv
<1>2. HandleToolButton(s, b, pressing, at) \in {now, counted, told}
  BY DEF HandleToolButton, Dispatch
<1> HIDE DEF a
<1>3. now \in CursorRecord /\ counted \in CursorRecord /\ told \in CursorRecord
  <2>1. now \in CursorRecord
    BY <1>1 DEF CursorRecord
  <2>2. counted \in CursorRecord
    <3>1. now.toolButtons \in Int
      BY <2>1 DEF CursorRecord
    <3>2. (IF pressing THEN now.toolButtons + 1 ELSE now.toolButtons - 1) \in Int
      BY <3>1
    <3> HIDE DEF now
    <3> QED
      BY <2>1, <3>2 DEF CursorRecord
  <2>3. told \in CursorRecord
    <3> HIDE DEF counted
    <3> QED
      BY <2>2 DEF CursorRecord
  <2> QED
    BY <2>1, <2>2, <2>3
<1>4. SameImage(a, now) /\ SameImage(a, counted) /\ SameImage(a, told)
  BY <1>1 DEF SameImage, SameTimer, CursorRecord
<1>5. PressInv(s) /\ PressInv(a) /\ (FingerInv(s) => FingerInv(a)) /\ SamePresses(s, a)
  BY <1>1, PressesKept DEF CursorInv
<1>6. PressInv(now) /\ PressInv(counted) /\ PressInv(told)
  BY <1>1, <1>5 DEF PressInv, CursorRecord
<1>7. FingerInv(a) => FingerInv(now) /\ FingerInv(counted) /\ FingerInv(told)
  BY <1>1 DEF FingerInv, CursorRecord
<1> HIDE DEF now, counted, told
<1> QED
  BY <1>1, <1>2, <1>3, <1>4, <1>5, <1>6, <1>7, ImageKept DEF CursorInv

\* A button of the pointer is counted before the timer is looked at.
LEMMA PointerButtonInv ==
  ASSUME NEW s \in CursorRecord, CursorInv(s), NEW n \in Nat, NEW t, t = Activity([s EXCEPT !.buttons = n], "pointer")
  PROVE  CursorInv(t) /\ (FingerInv(s) => FingerInv(t))
<1> DEFINE counted == [s EXCEPT !.buttons = n]
<1>1. counted \in CursorRecord /\ ShownInv(counted) /\ SamePresses(s, counted)
  BY DEF CursorInv, CursorRecord, ShownInv, SamePresses
<1> HIDE DEF counted
<1>2. t \in CursorRecord /\ ShownInv(t) /\ TimerInv(t) /\ SamePresses(counted, t)
  BY <1>1, ActivityArms DEF counted
<1> QED
  BY <1>1, <1>2, PressesKept DEF CursorInv, SamePresses

\* Setting an image, and activity, keep the invariant.
LEMMA ImageInv ==
  ASSUME NEW s \in CursorRecord, CursorInv(s), NEW image \in Images \cup {Nothing}, NEW t,
         t = SetImage(s, image) \/ t = SetImageSurface(s, image) \/ \E device : t = Activity(s, device)
  PROVE  CursorInv(t) /\ (FingerInv(s) => FingerInv(t))
<1>1. CASE t = SetImage(s, image) \/ t = SetImageSurface(s, image)
  BY <1>1, SetImageShows, PressesKept DEF CursorInv, TimerInv, SameTimer
<1>2. ASSUME NEW device, t = Activity(s, device)
      PROVE  CursorInv(t) /\ (FingerInv(s) => FingerInv(t))
  BY <1>2, ActivityArms, PressesKept DEF CursorInv
<1> QED
  BY <1>1, <1>2

-----------------------------------------------------------------------------
(* The steps and the theorems of the cursor. *)

LEMMA InitCursorInv == CursorInit => CursorInv(cu) /\ FingerInv(cu)
BY DEF CursorInit, CursorInv, CursorRecord, ShownInv, TimerInv, PressInv, FingerInv

\* Every handler preserves the invariant.  What is said of the finger that simulates the
\* pointer needs one finger, and only when a finger is lifted.
LEMMA NextCursorInv ==
  ASSUME CursorInv(cu), [CursorNext]_cursorVars
  PROVE  CursorInv(cu') /\ (OneFinger /\ FingerInv(cu) => FingerInv(cu'))
<1> DEFINE Kept == CursorInv(cu') /\ (OneFinger /\ FingerInv(cu) => FingerInv(cu'))
<1>0. cu \in CursorRecord /\ ShownInv(cu) /\ TimerInv(cu) /\ PressInv(cu) /\ Nothing \in Images \cup {Nothing}
      /\ "left_ptr" \in Images /\ Surfaces \subseteq Images
  BY ImageAssumption DEF CursorInv
<1>1. ASSUME NEW f \in Finger, TouchUp(f) \/ \E at \in At : TouchDown(f, at) PROVE Kept
  BY <1>0, <1>1, TouchUpInv, TouchDownInv DEF TouchUp, TouchDown
<1>2. ASSUME TouchMotion \/ ToolMotion \/ PointerActivity PROVE Kept
  BY <1>0, <1>2, ImageInv DEF TouchMotion, ToolMotion, PointerActivity
<1>3. ASSUME TouchFrame PROVE Kept
  BY <1>0, <1>3, TouchFrameInv DEF TouchFrame
<1>4. ASSUME NEW near \in BOOLEAN, ToolProximity(near) PROVE Kept
  <2> DEFINE a == Activity(cu, "tool")
             t == [a EXCEPT !.tool = near]
  <2>1. CursorInv(a) /\ (FingerInv(cu) => FingerInv(a)) /\ a \in CursorRecord
    BY <1>0, ImageInv DEF CursorInv
  <2>2. cu' = t
    BY <1>4 DEF ToolProximity
  <2> HIDE DEF a
  <2>3. t \in CursorRecord /\ SameImage(a, t) /\ SamePresses(a, t)
    BY <2>1 DEF CursorRecord, SameImage, SameTimer, SamePresses
  <2> HIDE DEF t
  <2> QED
    BY <2>1, <2>2, <2>3, ImageKept, PressesKept DEF CursorInv
<1>5. ASSUME NEW down \in BOOLEAN, NEW at \in At,
             ToolTipEvent(down, at) \/ \E b \in ToolButtons : ToolButton(b, down, at)
      PROVE  Kept
  BY <1>0, <1>5, ToolTipInv, ToolButtonInv DEF ToolTipEvent, ToolButton
<1>6. ASSUME NEW pressing \in BOOLEAN, PointerButton(pressing) PROVE Kept
  <2> DEFINE n == IF pressing THEN cu.buttons + 1 ELSE IF cu.buttons > 0 THEN cu.buttons - 1 ELSE 0
  <2>1. cu.buttons \in Nat
    BY <1>0 DEF CursorRecord
  <2>2. n \in Nat
    BY <2>1
  <2>3. cu' = Activity([cu EXCEPT !.buttons = n], "pointer")
    BY <1>6 DEF PointerButton
  <2> HIDE DEF n
  <2> QED
    BY <1>0, <2>2, <2>3, PointerButtonInv
<1>7. ASSUME HideNotify PROVE Kept
  <2> DEFINE h == Hide(cu)
             t == [h EXCEPT !.timer = FALSE]
  <2>1. h \in CursorRecord /\ ShownInv(h) /\ h.hidden /\ SamePresses(cu, h)
    BY <1>0, HideHides
  <2>2. cu' = t
    BY <1>7 DEF HideNotify
  <2> HIDE DEF h
  <2>3. t \in CursorRecord /\ ShownInv(t) /\ TimerInv(t) /\ SamePresses(h, t)
    BY <2>1 DEF CursorRecord, ShownInv, TimerInv, SamePresses
  <2> HIDE DEF t
  <2> QED
    BY <1>0, <2>1, <2>2, <2>3, PressesKept DEF CursorInv
<1>8. ASSUME CursorKeyPress PROVE Kept
  BY <1>0, <1>8, KeyPressHides, PressesKept DEF CursorKeyPress
<1>9. ASSUME NEW image \in Images \cup {Nothing}, ClientSetsCursor(image) \/ SetCursorName(image) PROVE Kept
  BY <1>0, <1>9, ImageInv DEF ClientSetsCursor, SetCursorName
<1>10. ASSUME SurfaceGone PROVE Kept
  BY <1>0, <1>10, ImageInv DEF SurfaceGone
<1>11. ASSUME Capabilities PROVE Kept
  <2>1. CASE cu.pointer
    <3> DEFINE a == SetImage(cu, Nothing)
               t == [a EXCEPT !.pointer = FALSE]
    <3>1. CursorInv(a) /\ (FingerInv(cu) => FingerInv(a)) /\ a \in CursorRecord /\ a.image = Nothing
      BY <1>0, <2>1, ImageInv, SetImageShows DEF CursorInv
    <3>2. cu' = t
      BY <1>11, <2>1 DEF Capabilities
    <3> HIDE DEF a
    <3>4. t \in CursorRecord
      BY <3>1 DEF CursorRecord
    <3>5. /\ t.pointer = FALSE /\ t.image = a.image /\ t.shown = a.shown /\ t.hidden = a.hidden
          /\ t.fresh = a.fresh /\ t.hideAfter = a.hideAfter /\ t.buttons = a.buttons /\ t.timer = a.timer
      BY <3>1 DEF CursorRecord
    <3>6. SamePresses(a, t)
      BY <3>1 DEF CursorRecord, SamePresses
    <3>3. t \in CursorRecord /\ ShownInv(t) /\ TimerInv(t) /\ SamePresses(a, t)
      BY <3>1, <3>4, <3>5, <3>6 DEF CursorInv, ShownInv, TimerInv
    <3> HIDE DEF t
    <3> QED
      BY <3>1, <3>2, <3>3, PressesKept DEF CursorInv
  <2>2. CASE ~cu.pointer
    <3> DEFINE a == [cu EXCEPT !.pointer = TRUE]
    <3>1. a \in CursorRecord /\ ShownInv(a) /\ TimerInv(a) /\ SamePresses(cu, a)
      BY <1>0 DEF CursorRecord, ShownInv, TimerInv, SamePresses
    <3>2. cu' = SetImage(a, "left_ptr")
      BY <1>11, <2>2 DEF Capabilities
    <3>3. CursorInv(a) /\ (FingerInv(cu) => FingerInv(a))
      BY <1>0, <3>1, PressesKept DEF CursorInv
    <3> HIDE DEF a
    <3> QED
      BY <1>0, <3>1, <3>2, <3>3, ImageInv
  <2> QED
    BY <2>1, <2>2
<1>12. ASSUME ConfigureXcursor PROVE Kept
  <2> DEFINE a == SetImage(cu, Nothing)
  <2>1. CursorInv(a) /\ (FingerInv(cu) => FingerInv(a)) /\ a \in CursorRecord
    BY <1>0, ImageInv DEF CursorInv
  <2> HIDE DEF a
  <2>2. cu' = SetImage(a, "left_ptr")
    BY <1>12 DEF ConfigureXcursor, a
  <2> QED
    BY <1>0, <2>1, <2>2, ImageInv
<1>13. ASSUME \/ \E set \in BOOLEAN : HideCursorTimeout(set)
              \/ \E set \in {"enable", "disable"} : HideWhenTyping(set)
       PROVE  Kept
  <2>1. cu' \in CursorRecord /\ ShownInv(cu') /\ TimerInv(cu') /\ SamePresses(cu, cu')
    <3>1. ASSUME NEW set \in BOOLEAN, HideCursorTimeout(set)
          PROVE  cu' \in CursorRecord /\ ShownInv(cu') /\ TimerInv(cu') /\ SamePresses(cu, cu')
      BY <1>0, <3>1 DEF HideCursorTimeout, CursorRecord, ShownInv, TimerInv, SamePresses
    <3>2. ASSUME NEW set \in {"enable", "disable"}, HideWhenTyping(set)
          PROVE  cu' \in CursorRecord /\ ShownInv(cu') /\ TimerInv(cu') /\ SamePresses(cu, cu')
      BY <1>0, <3>2 DEF HideWhenTyping, CursorRecord, ShownInv, TimerInv, SamePresses
    <3> QED
      BY <1>13, <3>1, <3>2
  <2> QED
    BY <1>0, <2>1, PressesKept DEF CursorInv
<1>14. CASE UNCHANGED cursorVars
  BY <1>14 DEF cursorVars
<1> QED
  BY <1>1, <1>2, <1>3, <1>4, <1>5, <1>6, <1>7, <1>8, <1>9, <1>10, <1>11, <1>12, <1>13, <1>14 DEF CursorNext

\* What is displayed is the image that is current, unless the cursor is hidden, whoever
\* sets, hides or takes it away; the timer that hides it runs when it should.
THEOREM ImageIsCurrent == CursorSpec => []CursorIsShown
<1>1. CursorInit => CursorInv(cu)
  BY InitCursorInv
<1>2. CursorInv(cu) /\ [CursorNext]_cursorVars => CursorInv(cu)'
  BY NextCursorInv
<1>3. CursorInv(cu) => CursorIsShown
  BY DEF CursorInv, ShownInv, TimerInv, CursorIsShown
<1> QED
  BY <1>1, <1>2, <1>3, PTL DEF CursorSpec

\* With one finger, of whatever id, every press that a finger or the tip of a tool simulates
\* is held by it: it was released if the finger or the tip has been lifted.
THEOREM SimulatedPressesAreHeld == OneFinger => (CursorSpec => []SimulatedPressesEnd)
<1> SUFFICES ASSUME OneFinger PROVE CursorSpec => []SimulatedPressesEnd
  OBVIOUS
<1> DEFINE Inv == CursorInv(cu) /\ FingerInv(cu)
<1>1. CursorInit => Inv
  BY InitCursorInv
<1>2. Inv /\ [CursorNext]_cursorVars => Inv'
  BY NextCursorInv
<1>3. Inv => SimulatedPressesEnd
  BY DEF CursorInv, PressInv, FingerInv, SimulatedPressesEnd
<1> QED
  BY <1>1, <1>2, <1>3, PTL DEF CursorSpec

-----------------------------------------------------------------------------
(* The invariant of the focus. *)

NoneOr(S) == S \cup {NoSurface}
FocusRecord ==
  [open : SUBSET Windows, window : NoneOr(Windows), layer : NoneOr(Layers), mapped : SUBSET Layers,
   known : SUBSET Layers, root : NoneOr(FocusSurface), seat : NoneOr(FocusSurface),
   keyboard : NoneOr(FocusSurface), pad : NoneOr(FocusSurface), locked : BOOLEAN,
   lock : LockClient \cup {NoClient}, exclusive : LockClient \cup {NoClient},
   lockMapped : SUBSET LockSurfaces, shown : BOOLEAN,
   constraint : [FocusSurface -> {"none", "oneshot", "persistent"}], active : NoneOr(FocusSurface),
   hears : NoneOr(FocusSurface), allow : BOOLEAN, crashed : BOOLEAN]

\* Where keys and pad events may go while a lock is shown.
Locker(c) == c # NoSurface => ClientOf[c] \in LockClient
LockedInv(s) == s.locked /\ s.shown => Locker(s.keyboard) /\ Locker(s.pad)

ConstraintInv(s) ==
  /\ s.hears = s.active
  /\ s.active # NoSurface => s.constraint[s.active] # "none"
  /\ ~s.allow => s.active = NoSurface

CoreInv(s) == s \in FocusRecord /\ LockedInv(s) /\ ConstraintInv(s) /\ s.seat = s.root

\* The constraint that is active is that of the seat's focus.
ActiveInv(s) == s.active # NoSurface => s.active = s.seat
\* A focus that is not committed yet is that of a layer, or the root has none.
CommitInv(s) == ~s.crashed /\ s.root # RootFocus(s) /\ s.layer = NoSurface => s.window = NoSurface
LayerInv(s) == s.layer \in s.known => s.layer \in s.mapped
HeldInv(s) == ActiveInv(s) /\ CommitInv(s) /\ LayerInv(s)

\* What a change of keyboard, pad and constraints leaves alone, and what a commit of the
\* root's focus does.
SameFocus(s, t) ==
  /\ t.window = s.window /\ t.layer = s.layer /\ t.mapped = s.mapped /\ t.known = s.known
  /\ t.exclusive = s.exclusive /\ t.allow = s.allow /\ t.crashed = s.crashed
  /\ t.locked = s.locked /\ t.shown = s.shown /\ t.lock = s.lock /\ t.open = s.open
SameSeat(s, t) == SameFocus(s, t) /\ t.root = s.root /\ t.seat = s.seat

-----------------------------------------------------------------------------
(* The helpers. *)

\* hwd_cursor_constrain: the constraint that was active is deactivated, and one of one shot
\* goes with that.
LEMMA ConstrainHolds ==
  ASSUME NEW s, CoreInv(s), NEW c \in NoneOr(FocusSurface), c # NoSurface => s.constraint[c] # "none"
  PROVE  LET t == Constrain(s, c)
         IN  /\ CoreInv(t) /\ SameSeat(s, t) /\ t.keyboard = s.keyboard /\ t.pad = s.pad
             /\ t.active \in {c, s.active} /\ (s.allow => t.active = c)
<1> DEFINE t == Constrain(s, c)
           left == IF s.active = NoSurface THEN s ELSE Deactivate(s, s.active)
           moved == [left EXCEPT !.active = c, !.hears = c]
<1>0. s \in FocusRecord /\ ConstraintInv(s) /\ LockedInv(s) /\ s.seat = s.root
  BY DEF CoreInv
<1>1. CASE ~s.allow \/ s.active = c
  <2>1. t = s
    BY <1>1 DEF Constrain
  <2> QED
    BY <1>0, <1>1, <2>1 DEF CoreInv, SameSeat, SameFocus
<1>2. CASE s.allow /\ s.active # c
  <2>1. t = moved
    BY <1>2 DEF Constrain
  <2>2. /\ left \in FocusRecord /\ SameSeat(s, left) /\ left.keyboard = s.keyboard /\ left.pad = s.pad
        /\ \A d \in FocusSurface : d # s.active => left.constraint[d] = s.constraint[d]
    <3>1. CASE s.active = NoSurface \/ s.constraint[s.active] # "oneshot"
      <4>1. left = s
        BY <3>1 DEF Deactivate
      <4> QED
        BY <1>0, <4>1 DEF SameSeat, SameFocus
    <3>2. CASE s.active # NoSurface /\ s.constraint[s.active] = "oneshot"
      <4>1. left = [s EXCEPT !.constraint = [s.constraint EXCEPT ![s.active] = "none"]]
        BY <1>0, <3>2 DEF Deactivate, FocusRecord
      <4>2. s.constraint \in [FocusSurface -> {"none", "oneshot", "persistent"}]
        BY <1>0 DEF FocusRecord
      <4>3. [s.constraint EXCEPT ![s.active] = "none"] \in [FocusSurface -> {"none", "oneshot", "persistent"}]
        BY <4>2
      <4> QED
        BY <1>0, <4>1, <4>2, <4>3 DEF FocusRecord, SameSeat, SameFocus
    <3> QED
      BY <3>1, <3>2
  <2> HIDE DEF left
  <2>3. moved \in FocusRecord
    BY <2>2 DEF FocusRecord
  <2>4. /\ moved.active = c /\ moved.hears = c /\ moved.constraint = left.constraint /\ SameSeat(left, moved)
        /\ moved.keyboard = left.keyboard /\ moved.pad = left.pad
    BY <2>2 DEF FocusRecord, SameSeat, SameFocus
  <2> HIDE DEF moved
  <2>5. ConstraintInv(moved)
    BY <1>2, <2>2, <2>4 DEF ConstraintInv, SameSeat, SameFocus, NoneOr
  <2> QED
    BY <1>0, <1>2, <2>1, <2>2, <2>3, <2>4, <2>5 DEF CoreInv, LockedInv, SameSeat, SameFocus
<1> QED
  BY <1>0, <1>1, <1>2 DEF FocusRecord

\* seat_send_focus: a surface that the lock refuses gets nothing.
LEMMA SendFocusHolds ==
  ASSUME NEW s, CoreInv(s), NEW c \in FocusSurface
  PROVE  LET t == SendFocus(s, c)
         IN  CoreInv(t) /\ SameSeat(s, t) /\ t.active \in {c, NoSurface, s.active}
<1> DEFINE n == NotifyEnter(s, c)
<1>0. s \in FocusRecord /\ ConstraintInv(s) /\ LockedInv(s) /\ s.seat = s.root
  BY DEF CoreInv
<1>1. CASE IsInputAllowed(s, c)
  <2>1. s.locked => ClientOf[c] \in LockClient
    BY <1>0, <1>1, ClientAssumption DEF IsInputAllowed, FocusRecord
  <2>2. n \in FocusRecord /\ SameSeat(s, n) /\ n.active = s.active /\ n.hears = s.hears /\ n.constraint = s.constraint
        /\ n.keyboard = c /\ n.pad \in {c, NoSurface}
    <3> DEFINE p == IF c \in TabletAware THEN c ELSE NoSurface
    <3>1. c \in NoneOr(FocusSurface) /\ p \in NoneOr(FocusSurface) /\ p \in {c, NoSurface}
      BY DEF NoneOr
    <3>2. n = [s EXCEPT !.keyboard = c, !.pad = p]
      BY DEF NotifyEnter
    <3> HIDE DEF p, n
    <3> QED
      BY <1>0, <3>1, <3>2 DEF FocusRecord, SameSeat, SameFocus
  <2> HIDE DEF n
  <2>3. CoreInv(n)
    BY <1>0, <2>1, <2>2 DEF CoreInv, ConstraintInv, LockedInv, Locker, SameSeat, SameFocus
  <2>4. ConstraintOf(n, c) \in NoneOr(FocusSurface) /\ ConstraintOf(n, c) \in {c, NoSurface}
        /\ (ConstraintOf(n, c) # NoSurface => n.constraint[ConstraintOf(n, c)] # "none")
    BY DEF ConstraintOf, NoneOr
  <2>5. SendFocus(s, c) = Constrain(n, ConstraintOf(n, c))
    BY <1>1 DEF SendFocus, n, NotifyEnter, ConstraintOf
  <2> DEFINE t == Constrain(n, ConstraintOf(n, c))
  <2>6. CoreInv(t) /\ SameSeat(n, t) /\ t.active \in {ConstraintOf(n, c), n.active}
    BY <2>3, <2>4, ConstrainHolds
  <2> HIDE DEF t
  <2>7. SameSeat(s, t)
    BY <2>2, <2>6 DEF SameSeat, SameFocus
  <2> QED
    BY <2>2, <2>4, <2>5, <2>6, <2>7 DEF t
<1>2. CASE ~IsInputAllowed(s, c)
  BY <1>2 DEF SendFocus, SameSeat, SameFocus
<1> QED
  BY <1>1, <1>2

\* seat_send_unfocus: no constraint is active afterwards.
LEMMA SendUnfocusHolds ==
  ASSUME NEW s, CoreInv(s)
  PROVE  LET t == SendUnfocus(s)
         IN  CoreInv(t) /\ SameSeat(s, t) /\ t.active = NoSurface
<1> DEFINE a == Constrain(s, NoSurface)
           t == [a EXCEPT !.keyboard = NoSurface]
<1>1. CoreInv(a) /\ SameSeat(s, a) /\ a.active \in {NoSurface, s.active} /\ (s.allow => a.active = NoSurface)
  BY ConstrainHolds DEF NoneOr
<1>2. a \in FocusRecord /\ a.active = NoSurface
  BY <1>1 DEF CoreInv, ConstraintInv
<1> HIDE DEF a
<1>3. /\ t \in FocusRecord /\ SameSeat(a, t) /\ t.active = a.active /\ t.hears = a.hears /\ t.constraint = a.constraint
      /\ t.keyboard = NoSurface /\ t.pad = a.pad
  BY <1>2 DEF FocusRecord, SameSeat, SameFocus, NoneOr
<1>4. SendUnfocus(s) = t
  BY DEF SendUnfocus, a
<1> HIDE DEF t
<1>5. CoreInv(t)
  BY <1>1, <1>3 DEF CoreInv, ConstraintInv, LockedInv, Locker, SameSeat, SameFocus
<1>6. SameSeat(s, t)
  BY <1>1, <1>3 DEF SameSeat, SameFocus
<1> QED
  BY <1>2, <1>3, <1>4, <1>5, <1>6

\* root_commit_focus: the seat has the root's focus, and no constraint of another surface.
LEMMA RootCommitHolds ==
  ASSUME NEW s, CoreInv(s)
  PROVE  LET t == RootCommitFocus(s)
         IN  /\ CoreInv(t) /\ SameFocus(s, t) /\ t.root = RootFocus(t)
             /\ ActiveInv(s) => ActiveInv(t) /\ (t.root = s.root \/ t.active \in {t.seat, NoSurface})
<1> DEFINE new == RootFocus(s)
           left == IF s.seat # NoSurface THEN SendUnfocus(s) ELSE s
           entered == IF new # NoSurface THEN SendFocus(left, new) ELSE left
           t == [entered EXCEPT !.seat = new, !.root = new]
<1>0. s \in FocusRecord /\ s.seat = s.root /\ new \in NoneOr(FocusSurface)
  BY DEF CoreInv, FocusRecord, RootFocus, NoneOr, FocusSurface
<1>1. CASE s.root = new
  BY <1>1 DEF RootCommitFocus, SameFocus
<1>2. CASE s.root # new
  <2>1. CoreInv(left) /\ SameSeat(s, left) /\ (ActiveInv(s) => left.active = NoSurface)
    BY <1>0, SendUnfocusHolds DEF ActiveInv, SameSeat, SameFocus
  <2>2. RootCommitFocus(s) = [[entered EXCEPT !.seat = new] EXCEPT !.root = new]
    BY <1>0, <1>2 DEF RootCommitFocus
  <2> HIDE DEF left
  <2>3. CoreInv(entered) /\ SameSeat(left, entered) /\ entered.active \in {new, NoSurface, left.active}
    BY <1>0, <2>1, SendFocusHolds DEF SameSeat, SameFocus, NoneOr
  <2> HIDE DEF entered
  <2>4. entered \in FocusRecord
    BY <2>3 DEF CoreInv
  <2>5. RootCommitFocus(s) = t
    BY <2>2, <2>4 DEF FocusRecord
  <2>6. /\ t \in FocusRecord /\ SameFocus(entered, t) /\ t.active = entered.active /\ t.hears = entered.hears
        /\ t.constraint = entered.constraint /\ t.keyboard = entered.keyboard /\ t.pad = entered.pad
        /\ t.seat = new /\ t.root = new
    BY <1>0, <2>4 DEF FocusRecord, SameFocus
  <2> HIDE DEF t
  <2>7. CoreInv(t)
    BY <2>3, <2>6 DEF CoreInv, ConstraintInv, LockedInv, SameFocus
  <2>8. SameFocus(s, t)
    BY <2>1, <2>3, <2>6 DEF SameSeat, SameFocus
  <2>9. t.root = RootFocus(t)
    BY <2>6, <2>8 DEF RootFocus, SameFocus
  <2> QED
    BY <2>1, <2>3, <2>5, <2>6, <2>7, <2>8, <2>9 DEF ActiveInv
<1> QED
  BY <1>1, <1>2

\* The destruction of a constraint ends it if it is active.
LEMMA DestroyConstraintHolds ==
  ASSUME NEW s, CoreInv(s), NEW c \in FocusSurface
  PROVE  LET t == DestroyConstraint(s, c)
         IN  /\ CoreInv(t) /\ SameSeat(s, t) /\ t.active \in {NoSurface, s.active}
             /\ t.keyboard = s.keyboard /\ t.pad = s.pad
<1> DEFINE gone == [s EXCEPT !.constraint[c] = "none"]
           ended == [gone EXCEPT !.active = NoSurface, !.hears = NoSurface]
<1>0. s \in FocusRecord /\ ConstraintInv(s) /\ LockedInv(s) /\ s.seat = s.root
      /\ s.constraint \in [FocusSurface -> {"none", "oneshot", "persistent"}]
  BY DEF CoreInv, FocusRecord
<1>1. /\ gone \in FocusRecord /\ SameSeat(s, gone) /\ gone.active = s.active /\ gone.hears = s.hears
      /\ gone.keyboard = s.keyboard /\ gone.pad = s.pad
      /\ \A d \in FocusSurface : d # c => gone.constraint[d] = s.constraint[d]
  <2>1. gone = [s EXCEPT !.constraint = [s.constraint EXCEPT ![c] = "none"]]
    BY <1>0 DEF FocusRecord
  <2>2. [s.constraint EXCEPT ![c] = "none"] \in [FocusSurface -> {"none", "oneshot", "persistent"}]
    BY <1>0
  <2> QED
    BY <1>0, <2>1, <2>2 DEF FocusRecord, SameSeat, SameFocus
<1>2. DestroyConstraint(s, c) = IF s.active = c THEN ended ELSE gone
  BY DEF DestroyConstraint
<1> HIDE DEF gone
<1>3. CASE s.active = c
  <2>1. ended \in FocusRecord /\ SameSeat(gone, ended) /\ ended.active = NoSurface /\ ended.hears = NoSurface
        /\ ended.keyboard = gone.keyboard /\ ended.pad = gone.pad
    <3>1. gone \in FocusRecord /\ NoSurface \in NoneOr(FocusSurface)
      BY <1>1 DEF NoneOr
    <3> QED
      BY <3>1 DEF FocusRecord, SameSeat, SameFocus
  <2> HIDE DEF ended
  <2> QED
    BY <1>0, <1>1, <1>2, <1>3, <2>1 DEF CoreInv, ConstraintInv, LockedInv, SameSeat, SameFocus
<1>4. CASE s.active # c
  <2>1. s.active # NoSurface => s.active \in FocusSurface
    BY <1>0 DEF FocusRecord, NoneOr
  <2> QED
    BY <1>0, <1>1, <1>2, <1>4, <2>1 DEF CoreInv, ConstraintInv, LockedInv, SameSeat, SameFocus
<1> QED
  BY <1>3, <1>4

\* The destruction of a surface takes the keyboard, the pads and the constraint from it.
LEMMA SurfaceDestroyedHolds ==
  ASSUME NEW s, CoreInv(s), NEW c \in FocusSurface
  PROVE  LET t == SurfaceDestroyedOf(s, c)
         IN  CoreInv(t) /\ SameSeat(s, t) /\ t.active \in {NoSurface, s.active}
<1> DEFINE free == IF s.constraint[c] = "none" THEN s ELSE DestroyConstraint(s, c)
           t == [free EXCEPT !.keyboard = IF @ = c THEN NoSurface ELSE @, !.pad = IF @ = c THEN NoSurface ELSE @]
<1>1. CoreInv(free) /\ SameSeat(s, free) /\ free.active \in {NoSurface, s.active}
  BY DestroyConstraintHolds DEF SameSeat, SameFocus
<1>2. SurfaceDestroyedOf(s, c) = t
  BY DEF SurfaceDestroyedOf
<1> HIDE DEF free
<1>3. free \in FocusRecord
  BY <1>1 DEF CoreInv
<1>4. /\ t \in FocusRecord /\ SameSeat(free, t) /\ t.active = free.active /\ t.hears = free.hears
      /\ t.constraint = free.constraint
      /\ t.keyboard \in {NoSurface, free.keyboard} /\ t.pad \in {NoSurface, free.pad}
  <2> DEFINE k == IF free.keyboard = c THEN NoSurface ELSE free.keyboard
             p == IF free.pad = c THEN NoSurface ELSE free.pad
  <2>1. k \in NoneOr(FocusSurface) /\ k \in {NoSurface, free.keyboard} /\ p \in NoneOr(FocusSurface) /\ p \in {NoSurface, free.pad}
    BY <1>3 DEF FocusRecord, NoneOr
  <2>2. t = [free EXCEPT !.keyboard = k, !.pad = p]
    BY <1>3 DEF FocusRecord
  <2> HIDE DEF k, p, t
  <2> QED
    BY <1>3, <2>1, <2>2 DEF FocusRecord, SameSeat, SameFocus
<1> HIDE DEF t
<1>5. CoreInv(t)
  BY <1>1, <1>4 DEF CoreInv, ConstraintInv, LockedInv, Locker, SameSeat, SameFocus
<1>6. SameSeat(s, t)
  BY <1>1, <1>4 DEF SameSeat, SameFocus
<1> QED
  BY <1>1, <1>2, <1>4, <1>5, <1>6

\* What an edit of the root's focus, before it is committed, leaves alone.
Edited(s, e) ==
  /\ e \in FocusRecord
  /\ e.keyboard = s.keyboard /\ e.pad = s.pad /\ e.active = s.active /\ e.hears = s.hears
  /\ e.constraint = s.constraint /\ e.root = s.root /\ e.seat = s.seat /\ e.exclusive = s.exclusive
  /\ e.locked = s.locked /\ e.shown = s.shown /\ e.allow = s.allow /\ e.crashed = s.crashed

LEMMA EditedHolds ==
  ASSUME NEW s, CoreInv(s), NEW e, Edited(s, e)
  PROVE  CoreInv(e) /\ (ActiveInv(s) => ActiveInv(e))
BY DEF Edited, CoreInv, LockedInv, ConstraintInv, ActiveInv

\* An edit and its commit keep the invariant, if the edit focuses a layer that is mapped.
LEMMA EditAndCommit ==
  ASSUME NEW s, CoreInv(s), NEW e, Edited(s, e), NEW t, t = RootCommitFocus(e)
  PROVE  /\ CoreInv(t) /\ t.mapped = e.mapped /\ t.known = e.known /\ t.layer = e.layer /\ t.exclusive = e.exclusive
         /\ t.window = e.window /\ t.crashed = e.crashed /\ t.root = RootFocus(t)
         /\ ActiveInv(s) /\ LayerInv(e) => HeldInv(t)
<1>1. CoreInv(e) /\ (ActiveInv(s) => ActiveInv(e))
  BY EditedHolds
<1>2. CoreInv(t) /\ SameFocus(e, t) /\ t.root = RootFocus(t) /\ (ActiveInv(e) => ActiveInv(t))
  BY <1>1, RootCommitHolds
<1>3. (LayerInv(e) => LayerInv(t)) /\ CommitInv(t)
  BY <1>2 DEF LayerInv, CommitInv, SameFocus
<1> QED
  BY <1>1, <1>2, <1>3 DEF SameFocus, HeldInv

-----------------------------------------------------------------------------
(* The steps. *)

\* The client of a session lock has no windows of its own: with one, its pointer constraint
\* may be active although a layer surface has the focus (README, section 4).
NoLockingWindows == \A w \in Windows : ClientOf[w] \notin LockClient

Kept == CoreInv(sf') /\ (NoLockingWindows /\ HeldInv(sf) => HeldInv(sf'))

\* Windows are focused, closed and left: the root's focus is committed at once.
LEMMA WindowsKept ==
  ASSUME CoreInv(sf), NEW w \in NoneOr(Windows),
         \/ w \in Windows /\ FocusWindow(w)
         \/ w \in Windows /\ \E next \in Windows \cup {NoSurface} : CloseWindow(w, next)
         \/ SwitchWorkspace(w)
  PROVE  Kept
<1>0. sf \in FocusRecord
  BY DEF CoreInv
<1>1. ASSUME w \in Windows, FocusWindow(w) PROVE Kept
  <2> DEFINE e == [sf EXCEPT !.open = @ \cup {w}, !.layer = NoSurface, !.window = w]
  <2>1. Edited(sf, e) /\ e.layer = NoSurface /\ e.known \subseteq Layers
    <3>1. NoSurface \in NoneOr(Layers)
      BY DEF NoneOr
    <3> QED
      BY <1>0, <1>1, <3>1 DEF FocusRecord, Edited
  <2>2. sf' = RootCommitFocus(e)
    BY <1>1 DEF FocusWindow
  <2> HIDE DEF e
  <2>3. LayerInv(e)
    BY <2>1, ClientAssumption DEF LayerInv, FocusSurface
  <2> QED
    BY <2>1, <2>2, <2>3, EditAndCommit DEF Kept, HeldInv
<1>2. ASSUME w \in Windows, NEW next \in Windows \cup {NoSurface}, CloseWindow(w, next) PROVE Kept
  <2> DEFINE e == [sf EXCEPT !.open = @ \ {w}, !.window = next]
             t == RootCommitFocus(e)
  <2>1. Edited(sf, e) /\ e.layer = sf.layer /\ e.known = sf.known /\ e.mapped = sf.mapped
    <3>1. next \in NoneOr(Windows)
      BY DEF NoneOr
    <3> QED
      BY <1>0, <3>1 DEF FocusRecord, Edited
  <2>2. sf' = SurfaceDestroyedOf(t, w)
    BY <1>2 DEF CloseWindow
  <2> HIDE DEF e
  <2>3. CoreInv(t) /\ (HeldInv(sf) => HeldInv(t)) /\ w \in FocusSurface
    BY <1>2, <2>1, EditAndCommit DEF HeldInv, LayerInv, FocusSurface
  <2> HIDE DEF t
  <2>4. CoreInv(sf') /\ SameSeat(t, sf') /\ sf'.active \in {NoSurface, t.active}
    BY <2>2, <2>3, SurfaceDestroyedHolds
  <2> QED
    BY <2>3, <2>4 DEF Kept, HeldInv, ActiveInv, CommitInv, LayerInv, RootFocus, SameSeat, SameFocus
<1>3. ASSUME SwitchWorkspace(w) PROVE Kept
  <2> DEFINE e == [sf EXCEPT !.window = w]
  <2>1. Edited(sf, e) /\ e.layer = sf.layer /\ e.known = sf.known /\ e.mapped = sf.mapped
    BY <1>0 DEF FocusRecord, Edited
  <2>2. sf' = RootCommitFocus(e)
    BY <1>3 DEF SwitchWorkspace
  <2> HIDE DEF e
  <2> QED
    BY <2>1, <2>2, EditAndCommit DEF Kept, HeldInv, LayerInv
<1> QED
  BY <1>1, <1>2, <1>3

\* Layer surfaces are mapped and focused, and their output may go.
LEMMA LayersKept ==
  ASSUME CoreInv(sf), NEW l \in Layers, LayerMap(l) \/ FocusLayer(l) \/ LayerOutputGone
  PROVE  Kept
<1>0. sf \in FocusRecord /\ l \in NoneOr(Layers)
  BY DEF CoreInv, NoneOr
<1>1. ASSUME LayerMap(l) PROVE Kept
  <2> DEFINE e == [sf EXCEPT !.mapped = @ \cup {l}, !.known = @ \cup {l}, !.layer = l]
  <2>1. Edited(sf, e) /\ e.layer = l /\ l \in e.mapped
    BY <1>0 DEF FocusRecord, Edited
  <2>2. sf' = RootCommitFocus(e)
    BY <1>1 DEF LayerMap
  <2> HIDE DEF e
  <2> QED
    BY <2>1, <2>2, EditAndCommit DEF Kept, HeldInv, LayerInv
<1>2. ASSUME FocusLayer(l) PROVE Kept
  <2> DEFINE e == [sf EXCEPT !.layer = l]
  <2>1. Edited(sf, e) /\ e.layer = l /\ l \in e.mapped
    BY <1>0, <1>2 DEF FocusLayer, FocusRecord, Edited
  <2>2. sf' = RootCommitFocus(e)
    BY <1>2 DEF FocusLayer
  <2> HIDE DEF e
  <2> QED
    BY <2>1, <2>2, EditAndCommit DEF Kept, HeldInv, LayerInv
<1>3. ASSUME LayerOutputGone PROVE Kept
  <2>1. Edited(sf, sf') /\ sf'.layer = sf.layer /\ sf'.window = sf.window /\ sf'.known = {}
    BY <1>0, <1>3 DEF LayerOutputGone, FocusRecord, Edited
  <2> QED
    BY <2>1, EditedHolds DEF Kept, HeldInv, CommitInv, LayerInv, RootFocus, Edited
<1> QED
  BY <1>1, <1>2, <1>3

\* A layer surface is unmapped or destroyed; an exclusive client's other one has the focus
\* of the root from then on, but not yet that of the seat.
LEMMA LayerUnmapKept ==
  ASSUME CoreInv(sf), NEW l \in Layers, NEW destroyed \in BOOLEAN, LayerUnmap(l, destroyed)
  PROVE  Kept
<1> DEFINE unmapped == [sf EXCEPT !.mapped = @ \ {l}]
           free == [unmapped EXCEPT !.layer = NoSurface]
           left == IF l \in sf.known /\ sf.layer = l THEN RootCommitFocus(free) ELSE unmapped
           dead == [SurfaceDestroyedOf(left, l) EXCEPT !.known = @ \ {l}]
           gone == IF destroyed THEN dead ELSE left
           others == {o \in left.mapped \cap left.known : ClientOf[o] = ClientOf[l]}
<1>0. sf \in FocusRecord
  BY DEF CoreInv
<1>1. sf' = gone \/ (destroyed /\ \E o \in others : sf' = [gone EXCEPT !.layer = o])
  BY DEF LayerUnmap
<1>2. /\ Edited(sf, unmapped) /\ unmapped.layer = sf.layer /\ unmapped.window = sf.window
      /\ unmapped.known = sf.known /\ unmapped.mapped = sf.mapped \ {l}
  BY <1>0 DEF FocusRecord, Edited
<1>3. Edited(sf, free) /\ free.layer = NoSurface /\ free.known \subseteq Layers /\ free.mapped = sf.mapped \ {l}
  <2>1. free = [sf EXCEPT !.mapped = @ \ {l}, !.layer = NoSurface] /\ NoSurface \in NoneOr(Layers)
    BY <1>0 DEF FocusRecord, NoneOr
  <2> HIDE DEF free
  <2> QED
    BY <1>0, <2>1 DEF FocusRecord, Edited
<1> HIDE DEF unmapped, free
<1>4. CoreInv(left) /\ (HeldInv(sf) => HeldInv(left)) /\ left.mapped = sf.mapped \ {l}
  <2>1. CASE l \in sf.known /\ sf.layer = l
    <3>1. LayerInv(free)
      BY <1>3, ClientAssumption DEF LayerInv, FocusSurface
    <3> QED
      BY <1>3, <2>1, <3>1, EditAndCommit DEF HeldInv
  <2>2. CASE ~(l \in sf.known /\ sf.layer = l)
    <3>1. left = unmapped /\ CoreInv(unmapped) /\ (ActiveInv(sf) => ActiveInv(unmapped))
      BY <1>2, <2>2, EditedHolds
    <3>2. HeldInv(sf) => CommitInv(unmapped) /\ LayerInv(unmapped)
      BY <1>2, <2>2 DEF HeldInv, CommitInv, LayerInv, RootFocus, Edited
    <3> QED
      BY <1>2, <3>1, <3>2 DEF HeldInv
  <2> QED
    BY <2>1, <2>2
<1> HIDE DEF left
<1>5. CoreInv(dead) /\ (HeldInv(left) => HeldInv(dead)) /\ dead.mapped = left.mapped /\ dead.known = left.known \ {l}
  <2> DEFINE d == SurfaceDestroyedOf(left, l)
  <2>1. CoreInv(d) /\ SameSeat(left, d) /\ d.active \in {NoSurface, left.active}
    BY <1>4, SurfaceDestroyedHolds DEF FocusSurface
  <2> HIDE DEF d
  <2>2. d \in FocusRecord
    BY <2>1 DEF CoreInv
  <2>3. Edited(d, dead) /\ dead.known = d.known \ {l} /\ dead.mapped = d.mapped /\ dead.layer = d.layer /\ dead.window = d.window
    BY <2>2 DEF d, FocusRecord, Edited
  <2> HIDE DEF dead
  <2>4. CoreInv(dead) /\ dead.mapped = left.mapped /\ dead.known = left.known \ {l}
    BY <2>1, <2>3, EditedHolds DEF SameSeat, SameFocus
  <2>5. HeldInv(left) => ActiveInv(dead) /\ CommitInv(dead) /\ LayerInv(dead)
    BY <2>1, <2>3 DEF HeldInv, ActiveInv, CommitInv, LayerInv, RootFocus, SameSeat, SameFocus, Edited
  <2> QED
    BY <2>4, <2>5 DEF HeldInv
<1> HIDE DEF dead
<1>6. CASE sf' = gone
  BY <1>4, <1>5, <1>6 DEF Kept
<1>7. ASSUME destroyed, NEW o \in others, sf' = [gone EXCEPT !.layer = o] PROVE Kept
  <2>1. sf' = [dead EXCEPT !.layer = o] /\ o \in dead.mapped /\ dead \in FocusRecord
    BY <1>5, <1>7 DEF CoreInv
  <2>2. o \in Layers
    BY <2>1 DEF FocusRecord
  <2>3. Edited(dead, sf') /\ sf'.layer = o /\ sf'.mapped = dead.mapped
    BY <2>1, <2>2 DEF FocusRecord, Edited, NoneOr
  <2>4. CommitInv(sf') /\ LayerInv(sf')
    BY <2>1, <2>2, <2>3, ClientAssumption DEF CommitInv, LayerInv, FocusSurface
  <2> QED
    BY <1>4, <1>5, <2>3, <2>4, EditedHolds DEF Kept, HeldInv
<1> QED
  BY <1>1, <1>6, <1>7

\* A session is locked: only the exclusive client, the lock's, will get input.
LEMMA LockKept ==
  ASSUME CoreInv(sf), NEW c \in LockClient, Lock(c)
  PROVE  Kept
<1> DEFINE e == [sf EXCEPT !.locked = TRUE, !.lock = c, !.shown = FALSE]
           layer == IF e.layer # NoSurface /\ ClientOf[e.layer] # c THEN [e EXCEPT !.layer = NoSurface] ELSE e
           window == FocusedWindow(layer)
           crash == [layer EXCEPT !.crashed = TRUE]
           held == [layer EXCEPT !.exclusive = c]
           refused == window # NoSurface /\ ClientOf[window] # c
<1>0. sf \in FocusRecord /\ ConstraintInv(sf) /\ sf.seat = sf.root
  BY DEF CoreInv
<1>1. sf' = IF refused THEN crash ELSE held
  BY DEF Lock, SetExclusiveClient
<1>2. /\ e \in FocusRecord /\ SameSeat([e EXCEPT !.locked = sf.locked, !.lock = sf.lock, !.shown = sf.shown], sf)
      /\ e.active = sf.active /\ e.hears = sf.hears /\ e.constraint = sf.constraint /\ e.shown = FALSE
      /\ e.layer = sf.layer /\ e.window = sf.window /\ e.mapped = sf.mapped /\ e.known = sf.known
      /\ e.root = sf.root /\ e.seat = sf.seat /\ e.crashed = sf.crashed /\ e.allow = sf.allow
  BY <1>0 DEF FocusRecord, SameSeat, SameFocus
<1> HIDE DEF e
<1>3. /\ layer \in FocusRecord /\ layer.layer \in {e.layer, NoSurface} /\ layer.window = e.window
      /\ layer.active = e.active /\ layer.hears = e.hears /\ layer.constraint = e.constraint /\ layer.shown = FALSE
      /\ layer.mapped = e.mapped /\ layer.known = e.known /\ layer.allow = e.allow
      /\ layer.root = e.root /\ layer.seat = e.seat /\ layer.crashed = e.crashed
  <2>1. NoSurface \in NoneOr(Layers)
    BY DEF NoneOr
  <2> QED
    BY <1>2, <2>1 DEF FocusRecord
<1> HIDE DEF layer
<1>4. /\ sf' \in FocusRecord /\ sf'.layer = layer.layer /\ sf'.window = layer.window
      /\ sf'.active = layer.active /\ sf'.hears = layer.hears /\ sf'.constraint = layer.constraint /\ sf'.shown = FALSE
      /\ sf'.mapped = layer.mapped /\ sf'.known = layer.known /\ sf'.allow = layer.allow
      /\ sf'.root = layer.root /\ sf'.seat = layer.seat
      /\ \/ sf'.crashed
         \/ layer.layer # NoSurface \/ layer.window = NoSurface \/ ClientOf[layer.window] = c
  <2>1. CASE refused
    BY <1>1, <1>3, <2>1 DEF FocusRecord
  <2>2. CASE ~refused
    BY <1>1, <1>3, <2>2 DEF FocusRecord, FocusedWindow
  <2> QED
    BY <2>1, <2>2
<1>5. CoreInv(sf')
  BY <1>0, <1>2, <1>3, <1>4 DEF CoreInv, ConstraintInv, LockedInv
<1>6. HeldInv(sf) => ActiveInv(sf') /\ LayerInv(sf')
  <2>1. NoSurface \notin sf.known
    BY <1>0, ClientAssumption DEF FocusRecord, FocusSurface
  <2> QED
    BY <1>2, <1>3, <1>4, <2>1 DEF HeldInv, ActiveInv, LayerInv
<1>7. NoLockingWindows => CommitInv(sf')
  <2>1. layer.window = NoSurface \/ layer.window \in Windows
    BY <1>3 DEF FocusRecord, NoneOr
  <2> QED
    BY <1>4, <2>1 DEF NoLockingWindows, CommitInv
<1> QED
  BY <1>5, <1>6, <1>7 DEF Kept, HeldInv

\* A lock surface is mapped and gets the focus by force.
LEMMA LockSurfaceMapKept ==
  ASSUME CoreInv(sf), NEW k \in LockSurfaces, LockSurfaceMap(k)
  PROVE  Kept
<1> DEFINE p == IF k \in TabletAware THEN k ELSE NoSurface
<1>0. sf \in FocusRecord /\ ConstraintInv(sf) /\ sf.seat = sf.root
  BY DEF CoreInv
<1>1. k \in NoneOr(FocusSurface) /\ p \in NoneOr(FocusSurface) /\ p \in {k, NoSurface} /\ ClientOf[k] \in LockClient
  BY DEF NoneOr, FocusSurface, LockClient
<1>2. sf' = [[sf EXCEPT !.keyboard = k, !.pad = p] EXCEPT !.lockMapped = @ \cup {k}, !.shown = TRUE]
  BY DEF LockSurfaceMap, ForceKeyboard, NotifyEnter
<1> HIDE DEF p
<1>3. /\ sf' \in FocusRecord /\ sf'.keyboard = k /\ sf'.pad = p
      /\ sf'.active = sf.active /\ sf'.hears = sf.hears /\ sf'.constraint = sf.constraint
      /\ sf'.layer = sf.layer /\ sf'.window = sf.window /\ sf'.mapped = sf.mapped /\ sf'.known = sf.known
      /\ sf'.root = sf.root /\ sf'.seat = sf.seat /\ sf'.crashed = sf.crashed /\ sf'.allow = sf.allow
  BY <1>0, <1>1, <1>2 DEF FocusRecord
<1> QED
  BY <1>0, <1>1, <1>3 DEF Kept, CoreInv, ConstraintInv, LockedInv, Locker, HeldInv, ActiveInv, LayerInv, CommitInv, RootFocus

\* The lock or its surfaces go.
LEMMA LockGoneKept ==
  ASSUME CoreInv(sf), Unlock \/ Abandon \/ \E k \in LockSurfaces : LockSurfaceDestroy(k)
  PROVE  Kept
<1> DEFINE Others(s, t) ==
             /\ t \in FocusRecord /\ t.active \in {s.active, NoSurface}
             /\ t.layer = s.layer /\ t.window = s.window /\ t.mapped = s.mapped /\ t.known = s.known
             /\ t.root = s.root /\ t.seat = s.seat /\ t.crashed = s.crashed /\ t.allow = s.allow
<1>0. sf \in FocusRecord /\ ConstraintInv(sf) /\ LockedInv(sf) /\ sf.seat = sf.root
  BY DEF CoreInv
<1>1. ASSUME Unlock PROVE Kept
  <2>1. Others(sf, sf') /\ sf'.locked = FALSE /\ sf'.active = sf.active /\ sf'.hears = sf.hears /\ sf'.constraint = sf.constraint
    BY <1>0, <1>1 DEF Unlock, FocusRecord
  <2> QED
    BY <1>0, <2>1 DEF Kept, CoreInv, ConstraintInv, LockedInv, HeldInv, ActiveInv, LayerInv, CommitInv, RootFocus
<1>2. ASSUME Abandon PROVE Kept
  <2> DEFINE k == IF sf.keyboard \in LockSurfaces THEN NoSurface ELSE sf.keyboard
             p == IF sf.pad \in LockSurfaces THEN NoSurface ELSE sf.pad
  <2>1. k \in NoneOr(FocusSurface) /\ p \in NoneOr(FocusSurface) /\ k \in {NoSurface, sf.keyboard} /\ p \in {NoSurface, sf.pad}
    BY <1>0 DEF FocusRecord, NoneOr
  <2>2. sf' = [[sf EXCEPT !.lockMapped = {}, !.keyboard = k, !.pad = p] EXCEPT !.lock = NoClient, !.exclusive = NoClient]
    BY <1>0, <1>2 DEF Abandon, FocusRecord
  <2> HIDE DEF k, p
  <2>3. /\ Others(sf, sf') /\ sf'.keyboard = k /\ sf'.pad = p /\ sf'.locked = sf.locked /\ sf'.shown = sf.shown
        /\ sf'.active = sf.active /\ sf'.hears = sf.hears /\ sf'.constraint = sf.constraint
    BY <1>0, <2>1, <2>2 DEF FocusRecord
  <2> QED
    BY <1>0, <2>1, <2>3 DEF Kept, CoreInv, ConstraintInv, LockedInv, Locker, HeldInv, ActiveInv, LayerInv, CommitInv, RootFocus
<1>3. ASSUME NEW k \in LockSurfaces, LockSurfaceDestroy(k) PROVE Kept
  <2> DEFINE d == SurfaceDestroyedOf(sf, k)
  <2>1. CoreInv(d) /\ SameSeat(sf, d) /\ d.active \in {NoSurface, sf.active}
    BY SurfaceDestroyedHolds DEF FocusSurface
  <2>2. sf' = [d EXCEPT !.lockMapped = @ \ {k}]
    BY <1>3 DEF LockSurfaceDestroy
  <2> HIDE DEF d
  <2>3. d \in FocusRecord
    BY <2>1 DEF CoreInv
  <2>4. Edited(d, sf') /\ sf'.layer = d.layer /\ sf'.window = d.window /\ sf'.mapped = d.mapped /\ sf'.known = d.known
    BY <2>2, <2>3 DEF FocusRecord, Edited
  <2> QED
    BY <2>1, <2>4, EditedHolds DEF Kept, HeldInv, ActiveInv, LayerInv, CommitInv, RootFocus, SameSeat, SameFocus, Edited
<1> QED
  BY <1>1, <1>2, <1>3

\* Constraints are made and destroyed by clients, and released by a command.
LEMMA ConstraintsKept ==
  ASSUME CoreInv(sf), ~sf.crashed,
         \/ \E c \in Windows : ConstraintDestroy(c) \/ \E life \in {"oneshot", "persistent"} : NewConstraint(c, life)
         \/ \E op \in {"enable", "disable", "escape"} : PointerConstraint(op)
  PROVE  Kept
<1>0. sf \in FocusRecord /\ ConstraintInv(sf) /\ LockedInv(sf) /\ sf.seat = sf.root /\ NoSurface \in NoneOr(FocusSurface)
      /\ sf.constraint \in [FocusSurface -> {"none", "oneshot", "persistent"}]
  BY DEF CoreInv, NoneOr, FocusRecord
<1>a. ASSUME NEW s, NEW t, SameSeat(s, t), t.active \in {NoSurface, s.active}, HeldInv(s) PROVE HeldInv(t)
  BY <1>a DEF HeldInv, ActiveInv, LayerInv, CommitInv, RootFocus, SameSeat, SameFocus
<1>1. ASSUME NEW c \in Windows, ConstraintDestroy(c) PROVE Kept
  BY <1>1, <1>a, DestroyConstraintHolds DEF ConstraintDestroy, Kept, FocusSurface
<1>2. ASSUME NEW c \in Windows, NEW life \in {"oneshot", "persistent"}, NewConstraint(c, life) PROVE Kept
  <2> DEFINE new == [sf EXCEPT !.constraint[c] = life]
  <2>0. c \in FocusSurface /\ c \in NoneOr(FocusSurface) /\ c # NoSurface
    BY ClientAssumption DEF FocusSurface, NoneOr
  <2>1. /\ new \in FocusRecord /\ SameSeat(sf, new) /\ new.active = sf.active /\ new.hears = sf.hears
        /\ new.keyboard = sf.keyboard /\ new.pad = sf.pad /\ new.constraint[c] = life
        /\ \A d \in FocusSurface : d # c => new.constraint[d] = sf.constraint[d]
    <3>1. new = [sf EXCEPT !.constraint = [sf.constraint EXCEPT ![c] = life]]
      BY <1>0 DEF FocusRecord
    <3>2. [sf.constraint EXCEPT ![c] = life] \in [FocusSurface -> {"none", "oneshot", "persistent"}]
      BY <1>0
    <3> QED
      BY <1>0, <2>0, <3>1, <3>2 DEF FocusRecord, SameSeat, SameFocus
  <2>2. sf' = IF FocusedWindow(sf) = c THEN Constrain(new, c) ELSE new
    BY <1>2 DEF NewConstraint
  <2> HIDE DEF new
  <2>3. CoreInv(new)
    BY <1>0, <2>1 DEF CoreInv, LockedInv, ConstraintInv, SameSeat, SameFocus, FocusRecord, NoneOr
  <2>4. HeldInv(sf) => HeldInv(new)
    BY <2>1, <1>a
  <2>5. CASE FocusedWindow(sf) # c
    BY <2>2, <2>3, <2>4, <2>5 DEF Kept
  <2>6. CASE FocusedWindow(sf) = c
    <3>1. CoreInv(sf') /\ SameSeat(new, sf') /\ sf'.active \in {c, new.active}
      BY <2>0, <2>1, <2>2, <2>3, <2>6, ConstrainHolds
    <3>2. sf.layer = NoSurface /\ sf.window = c
      BY <2>0, <2>6 DEF FocusedWindow
    <3>3. CommitInv(sf) => sf.seat = c
      BY <1>0, <2>0, <3>2 DEF CommitInv, RootFocus
    <3>4. HeldInv(new) /\ sf.seat = c => HeldInv(sf')
      BY <2>1, <3>1 DEF HeldInv, ActiveInv, LayerInv, CommitInv, RootFocus, SameSeat, SameFocus
    <3> QED
      BY <2>4, <3>1, <3>3, <3>4 DEF Kept, HeldInv
  <2> QED
    BY <2>5, <2>6
<1>3. ASSUME NEW op \in {"enable", "disable", "escape"}, PointerConstraint(op) PROVE Kept
  <2> DEFINE a == Constrain(sf, NoSurface)
  <2>1. CoreInv(a) /\ SameSeat(sf, a) /\ a.active \in {NoSurface, sf.active} /\ (sf.allow => a.active = NoSurface)
    BY <1>0, ConstrainHolds
  <2>2. a \in FocusRecord /\ a.active = NoSurface /\ ConstraintInv(a) /\ LockedInv(a) /\ a.seat = a.root
    BY <2>1 DEF CoreInv, ConstraintInv, SameSeat, SameFocus
  <2>3. \/ sf' = [sf EXCEPT !.allow = TRUE]
        \/ sf' = [a EXCEPT !.allow = FALSE]
        \/ sf' = a
    BY <1>3 DEF PointerConstraint
  <2> HIDE DEF a
  <2>4. CASE sf' = [sf EXCEPT !.allow = TRUE]
    <3>1. /\ sf' \in FocusRecord /\ sf'.keyboard = sf.keyboard /\ sf'.pad = sf.pad /\ sf'.locked = sf.locked /\ sf'.shown = sf.shown
          /\ sf'.active = sf.active /\ sf'.hears = sf.hears /\ sf'.constraint = sf.constraint /\ sf'.allow = TRUE
          /\ sf'.layer = sf.layer /\ sf'.window = sf.window /\ sf'.mapped = sf.mapped /\ sf'.known = sf.known
          /\ sf'.root = sf.root /\ sf'.seat = sf.seat /\ sf'.crashed = sf.crashed
      BY <1>0, <2>4 DEF FocusRecord
    <3> QED
      BY <1>0, <3>1 DEF Kept, CoreInv, ConstraintInv, LockedInv, HeldInv, ActiveInv, LayerInv, CommitInv, RootFocus
  <2>5. CASE sf' = [a EXCEPT !.allow = FALSE]
    <3>1. /\ sf' \in FocusRecord /\ sf'.keyboard = a.keyboard /\ sf'.pad = a.pad /\ sf'.locked = a.locked /\ sf'.shown = a.shown
          /\ sf'.active = a.active /\ sf'.hears = a.hears /\ sf'.constraint = a.constraint /\ sf'.allow = FALSE
          /\ sf'.layer = a.layer /\ sf'.window = a.window /\ sf'.mapped = a.mapped /\ sf'.known = a.known
          /\ sf'.root = a.root /\ sf'.seat = a.seat /\ sf'.crashed = a.crashed
      BY <2>2, <2>5 DEF FocusRecord
    <3>2. HeldInv(sf) => HeldInv(a)
      BY <1>a, <2>1
    <3> QED
      BY <2>2, <3>1, <3>2 DEF Kept, CoreInv, ConstraintInv, LockedInv, HeldInv, ActiveInv, LayerInv, CommitInv, RootFocus
  <2>6. CASE sf' = a
    BY <1>a, <2>1, <2>6 DEF Kept
  <2> QED
    BY <2>3, <2>4, <2>5, <2>6
<1> QED
  BY <1>1, <1>2, <1>3

-----------------------------------------------------------------------------
(* The theorems of the focus. *)

LEMMA InitFocusInv == FocusInit => CoreInv(sf) /\ HeldInv(sf)
BY ClientAssumption DEF FocusInit, CoreInv, FocusRecord, NoneOr, LockedInv, ConstraintInv, HeldInv,
   ActiveInv, CommitInv, LayerInv, RootFocus

LEMMA NextFocusInv ==
  ASSUME CoreInv(sf), [FocusNext]_focusVars
  PROVE  CoreInv(sf') /\ (NoLockingWindows /\ HeldInv(sf) => HeldInv(sf'))
<1>1. ASSUME FocusNext PROVE Kept
  <2>1. ASSUME NEW w \in Windows, FocusWindow(w) \/ \E next \in Windows \cup {NoSurface} : CloseWindow(w, next)
        PROVE  Kept
    BY <2>1, WindowsKept DEF NoneOr
  <2>2. ASSUME NEW w \in Windows \cup {NoSurface}, SwitchWorkspace(w) PROVE Kept
    BY <2>2, WindowsKept DEF NoneOr
  <2>3. ASSUME NEW l \in Layers, LayerMap(l) \/ FocusLayer(l) \/ \E destroyed \in BOOLEAN : LayerUnmap(l, destroyed)
        PROVE  Kept
    BY <2>3, LayersKept, LayerUnmapKept
  <2>4. ASSUME LayerOutputGone PROVE Kept
    <3>1. PICK l : l \in sf.known
      BY <2>4 DEF LayerOutputGone
    <3>2. l \in Layers
      BY <3>1 DEF CoreInv, FocusRecord
    <3> QED
      BY <2>4, <3>2, LayersKept
  <2>5. ASSUME NEW c \in LockClient, Lock(c) PROVE Kept
    BY <2>5, LockKept
  <2>6. ASSUME NEW k \in LockSurfaces, LockSurfaceMap(k) \/ LockSurfaceDestroy(k) PROVE Kept
    BY <2>6, LockSurfaceMapKept, LockGoneKept
  <2>7. ASSUME Unlock \/ Abandon PROVE Kept
    BY <2>7, LockGoneKept
  <2>8. ASSUME \/ \E c \in Windows : ConstraintDestroy(c) \/ \E life \in {"oneshot", "persistent"} : NewConstraint(c, life)
               \/ \E op \in {"enable", "disable", "escape"} : PointerConstraint(op)
        PROVE  Kept
    BY <1>1, <2>8, ConstraintsKept DEF FocusNext
  <2> QED
    BY <1>1, <2>1, <2>2, <2>3, <2>4, <2>5, <2>6, <2>7, <2>8 DEF FocusNext
<1>2. CASE UNCHANGED focusVars
  BY <1>2 DEF focusVars
<1> QED
  BY <1>1, <1>2 DEF Kept

\* Once a lock surface is shown and until the lock is taken away, keys and pad events go to
\* the locking client or nowhere, whatever is mapped, closed or focused underneath.
THEOREM LockKeepsInput == FocusSpec => []LockedInputIsKept
<1>1. FocusInit => CoreInv(sf)
  BY InitFocusInv
<1>2. CoreInv(sf) /\ [FocusNext]_focusVars => CoreInv(sf)'
  BY NextFocusInv
<1>3. CoreInv(sf) => LockedInputIsKept
  BY DEF CoreInv, LockedInv, Locker, LockedInputIsKept
<1> QED
  BY <1>1, <1>2, <1>3, PTL DEF FocusSpec

\* A pointer constraint is active only for the surface that has the seat's focus, and until
\* it is gone; the focus is never left on a layer surface that was unmapped.
THEOREM FocusHeld == NoLockingWindows => (FocusSpec => []FocusIsHeld)
<1> SUFFICES ASSUME NoLockingWindows PROVE FocusSpec => []FocusIsHeld
  OBVIOUS
<1> DEFINE Inv == CoreInv(sf) /\ HeldInv(sf)
<1>1. FocusInit => Inv
  BY InitFocusInv
<1>2. Inv /\ [FocusNext]_focusVars => Inv'
  BY NextFocusInv
<1>3. Inv => FocusIsHeld
  <2> SUFFICES ASSUME Inv PROVE FocusIsHeld
    OBVIOUS
  <2>1. ASSUME sf.root \in sf.known, sf.root = RootFocus(sf) PROVE sf.root \in sf.mapped
    <3>1. sf.root \in Layers /\ sf.window \in NoneOr(Windows)
      BY <2>1 DEF CoreInv, FocusRecord
    <3>2. sf.root = sf.layer
      BY <2>1, <3>1, ClientAssumption DEF RootFocus, NoneOr, FocusSurface
    <3> QED
      BY <2>1, <3>2 DEF HeldInv, LayerInv
  <2> QED
    BY <2>1 DEF CoreInv, ConstraintInv, HeldInv, ActiveInv, LayerInv, FocusIsHeld
<1> QED
  BY <1>1, <1>2, <1>3, PTL DEF FocusSpec

-----------------------------------------------------------------------------
(* Operations of a seat: the inductive invariant.                          *)

SoFields ==
  {"columns", "children", "floating", "away", "fullscreen", "moving", "preview", "target", "op",
   "buttons", "failed"}
\* A window is in one place at most, in a column of the workspace, floating, or away, and
\* a list holds nothing twice.
In(s, w, c) == w \in ToSet(s.children[c])
SoType(s) ==
  /\ DOMAIN s = SoFields
  /\ s.columns \in Seq(Column) /\ s.children \in [Column -> Seq(Window)]
  /\ s.floating \subseteq Window /\ s.away \subseteq Window /\ s.moving \subseteq Window
  /\ DOMAIN s.target = Column \cup {NoColumn}
  /\ s.failed \in BOOLEAN
PlaceInv(s) ==
  /\ SoType(s)
  /\ IsInjective(s.columns)
  /\ \A c \in Column : IsInjective(s.children[c])
  /\ \A w, c : c \in Column /\ In(s, w, c) =>
       /\ c \in ToSet(s.columns) /\ w \notin s.floating /\ w \notin s.away
       /\ \A d \in Column : In(s, w, d) => d = c

\* What an operation refers to, as long as it does.  Only a move knows a destination and only
\* a resize in a column what is beside the window, and that changes no place while it lasts
\* unless a window is taken away.
Lives(s, w) == w \in s.floating \/ w \in s.away \/ \E c \in Column : In(s, w, c)
OpInv(s) ==
  LET e == s.op
  IN  /\ DOMAIN e = DOMAIN NoOp
      /\ e.window = NoWindow \/ (e.window \in Window /\ Lives(s, e.window))
      /\ e.kind = "move" => e.window # NoWindow
      /\ e.kind # "move" => ~e.reached
      /\ e.reached => e.window \in s.floating /\ e.window \in s.moving
      /\ ~e.reached => e.dest = NoColumn
      /\ e.dest # NoColumn => e.dest \in Column /\ (e.away \/ e.dest \in ToSet(s.columns))
      /\ e.kind # "resize tiling" => e.hBox = NoColumn /\ e.vSib = NoWindow
      /\ ~e.away /\ (e.hBox # NoColumn \/ e.vSib # NoWindow) =>
           \E c \in Column :
             /\ In(s, e.window, c) /\ e.hBox \in {NoColumn, c}
             /\ e.vSib # NoWindow => e.vSib \in Window /\ In(s, e.vSib, c)
SoInv(s) == PlaceInv(s) /\ (s.failed \/ OpInv(s))

\* The places of the other windows stay.
Apart(s, t, w) ==
  \A v : v # w =>
    /\ (v \in s.floating <=> v \in t.floating) /\ (v \in s.away <=> v \in t.away)
    /\ \A c \in Column : In(s, v, c) <=> In(t, v, c)

-----------------------------------------------------------------------------
(* Operations of a seat: places.                                           *)

\* window->column and window_is_alive
LEMMA PlaceOf ==
  ASSUME NEW s, PlaceInv(s), NEW w
  PROVE  /\ \A c \in Column : In(s, w, c) => ColumnOf(s, w) = c
         /\ (\A c \in Column : ~In(s, w, c)) =>
              ColumnOf(s, w) = IF w \in s.away /\ w \notin s.floating THEN Elsewhere ELSE NoColumn
         /\ IsAlive(s, w) <=> Lives(s, w)
<1> DEFINE in == {c \in ToSet(s.columns) : w \in ToSet(s.children[c])}
<1>1. ToSet(s.columns) \subseteq Column
  BY DEF PlaceInv, SoType, ToSet
<1>2. NoColumn # Elsewhere /\ NoColumn \notin Column
  BY StartAssumption DEF NoColumn, Elsewhere
<1>3. ASSUME NEW c \in Column, In(s, w, c) PROVE ColumnOf(s, w) = c
  <2>1. in = {c}
    BY <1>1, <1>3 DEF PlaceInv, In
  <2> HIDE DEF in
  <2>2. (CHOOSE d \in in : TRUE) = c
    BY <2>1
  <2> QED
    BY <2>1, <2>2 DEF ColumnOf, in
<1>4. ASSUME \A c \in Column : ~In(s, w, c)
      PROVE  ColumnOf(s, w) = IF w \in s.away /\ w \notin s.floating THEN Elsewhere ELSE NoColumn
  <2>1. in = {}
    BY <1>1, <1>4 DEF In
  <2> QED
    BY <2>1 DEF ColumnOf
<1>5. IsAlive(s, w) <=> Lives(s, w)
  <2>1. CASE \E c \in Column : In(s, w, c)
    <3>1. ColumnOf(s, w) # NoColumn
      BY <1>2, <1>3, <2>1
    <3> QED
      BY <2>1, <3>1 DEF IsAlive, Lives
  <2>2. CASE \A c \in Column : ~In(s, w, c)
    BY <1>2, <1>4, <2>2 DEF IsAlive, Lives
  <2> QED
    BY <2>1, <2>2
<1> QED
  BY <1>3, <1>4, <1>5

\* window_detach
LEMMA DetachEffect ==
  ASSUME NEW s, PlaceInv(s), NEW w
  PROVE  LET t == Detach(s, w)
         IN  /\ PlaceInv(t) /\ Apart(s, t, w) /\ ~Lives(t, w)
             /\ t.columns = s.columns /\ t.moving = s.moving /\ t.op = s.op /\ t.failed = s.failed
             /\ t.target = s.target /\ t.preview = s.preview
<1> DEFINE t == Detach(s, w)
<1>0. SoType(s)
  BY DEF PlaceInv
<1>1. /\ DOMAIN t = SoFields /\ t.columns = s.columns /\ t.moving = s.moving /\ t.op = s.op /\ t.failed = s.failed
      /\ t.target = s.target /\ t.preview = s.preview
      /\ t.floating = s.floating \ {w} /\ t.away = s.away \ {w}
      /\ t.children = [c \in Column |-> RemoveFirst(s.children[c], w)]
  BY <1>0 DEF Detach, SoType, SoFields
<1> HIDE DEF t
<1>2. ASSUME NEW c \in Column
      PROVE  /\ t.children[c] \in Seq(Window) /\ IsInjective(t.children[c])
             /\ ToSet(t.children[c]) = ToSet(s.children[c]) \ {w}
  <2>1. s.children[c] \in Seq(Window) /\ IsInjective(s.children[c])
    BY DEF PlaceInv, SoType
  <2>2. t.children[c] = RemoveFirst(s.children[c], w)
    BY <1>1
  <2> QED
    BY <2>1, <2>2, RemoveFirstSet
<1>3. t.children \in [Column -> Seq(Window)]
  BY <1>1, <1>2
<1>4. \A v, c : c \in Column => (In(t, v, c) <=> In(s, v, c) /\ v # w)
  BY <1>2 DEF In
<1>5. SoType(t)
  BY <1>0, <1>1, <1>3 DEF SoType
<1>6. PlaceInv(t)
  BY <1>1, <1>2, <1>4, <1>5 DEF PlaceInv
<1>7. Apart(s, t, w) /\ ~Lives(t, w)
  BY <1>1, <1>4 DEF Apart, Lives
<1> QED
  BY <1>1, <1>6, <1>7 DEF t

\* column_consider_destroy: only a column that has no window goes.
LEMMA ConsiderDestroyEffect ==
  ASSUME NEW s, PlaceInv(s), NEW c
  PROVE  LET t == ConsiderDestroy(s, c)
         IN  /\ PlaceInv(t) /\ \A w : Apart(s, t, w)
             /\ t.children = s.children /\ t.floating = s.floating /\ t.away = s.away /\ t.moving = s.moving
             /\ t.op = s.op /\ t.failed = s.failed /\ t.target = s.target /\ t.preview = s.preview
             /\ ToSet(t.columns) \subseteq ToSet(s.columns)
             /\ c \in Column /\ s.children[c] = << >> => c \notin ToSet(t.columns)
             /\ \A d : d \in ToSet(s.columns) /\ d # c => d \in ToSet(t.columns)
<1> DEFINE t == ConsiderDestroy(s, c)
<1>0. SoType(s)
  BY DEF PlaceInv
<1>1. CASE ~(c \in Column /\ s.children[c] = << >>)
  <2>1. t = s
    BY <1>1 DEF ConsiderDestroy
  <2> QED
    BY <1>1, <2>1 DEF Apart
<1>2. CASE c \in Column /\ s.children[c] = << >>
  <2>1. t = [s EXCEPT !.columns = RemoveFirst(s.columns, c)]
    BY <1>2 DEF ConsiderDestroy
  <2>2. /\ DOMAIN t = SoFields /\ t.columns = RemoveFirst(s.columns, c)
        /\ t.children = s.children /\ t.floating = s.floating /\ t.away = s.away /\ t.moving = s.moving
        /\ t.op = s.op /\ t.failed = s.failed /\ t.target = s.target /\ t.preview = s.preview
    BY <1>0, <2>1 DEF SoType, SoFields
  <2> HIDE DEF t
  <2>3. /\ t.columns \in Seq(Column) /\ IsInjective(t.columns)
        /\ ToSet(t.columns) = ToSet(s.columns) \ {c}
    BY <1>0, <2>2, RemoveFirstSet DEF SoType, PlaceInv
  <2>4. SoType(t)
    BY <1>0, <2>2, <2>3 DEF SoType
  <2>5. \A v : ~In(s, v, c)
    BY <1>2 DEF In, ToSet
  <2>6. \A v, d : In(t, v, d) <=> In(s, v, d)
    BY <2>2 DEF In
  <2>7. PlaceInv(t)
    BY <2>2, <2>3, <2>4, <2>5, <2>6 DEF PlaceInv
  <2>8. \A w : Apart(s, t, w)
    BY <2>2, <2>6 DEF Apart
  <2> QED
    BY <2>2, <2>3, <2>7, <2>8 DEF t
<1> QED
  BY <1>1, <1>2

\* Windows float, are away or are no more, and what refers to no place changes.
LEMMA SettleEffect ==
  ASSUME NEW s, PlaceInv(s), NEW w \in Window, \A c \in Column : ~In(s, w, c),
         NEW t, DOMAIN t = SoFields, t.columns = s.columns, t.children = s.children,
         t.floating \in {s.floating, s.floating \cup {w}}, t.away \in {s.away, s.away \cup {w}},
         t.moving \subseteq Window, DOMAIN t.target = DOMAIN s.target, t.failed \in BOOLEAN
  PROVE  PlaceInv(t) /\ Apart(s, t, w)
<1>1. \A v, d : In(t, v, d) <=> In(s, v, d)
  BY DEF In
<1>2. SoType(t)
  BY DEF PlaceInv, SoType
<1> QED
  BY <1>1, <1>2 DEF PlaceInv, Apart

\* The same with no window that is concerned.
LEMMA QuietEffect ==
  ASSUME NEW s, PlaceInv(s),
         NEW t, DOMAIN t = SoFields, t.columns = s.columns, t.children = s.children,
         t.floating = s.floating, t.away = s.away,
         t.moving \subseteq Window, DOMAIN t.target = DOMAIN s.target, t.failed \in BOOLEAN
  PROVE  PlaceInv(t) /\ \A w : Apart(s, t, w)
<1>1. \A v, d : In(t, v, d) <=> In(s, v, d)
  BY DEF In
<1>2. SoType(t)
  BY DEF PlaceInv, SoType
<1> QED
  BY <1>1, <1>2 DEF PlaceInv, Apart

\* A window that was taken out is put into a column.
LEMMA InsertEffect ==
  ASSUME NEW s, PlaceInv(s), NEW w \in Window, ~Lives(s, w),
         NEW c \in Column, c \in ToSet(s.columns), NEW i \in 1..(Len(s.children[c]) + 1)
  PROVE  LET t == [s EXCEPT !.children[c] = InsertAt(@, i, w)]
         IN  /\ PlaceInv(t) /\ Apart(s, t, w) /\ In(t, w, c)
             /\ t.columns = s.columns /\ t.floating = s.floating /\ t.away = s.away /\ t.moving = s.moving
             /\ t.op = s.op /\ t.failed = s.failed /\ t.target = s.target /\ t.preview = s.preview
             /\ \A d \in Column : d # c => t.children[d] = s.children[d]
<1> DEFINE t == [s EXCEPT !.children[c] = InsertAt(@, i, w)]
<1>0. SoType(s)
  BY DEF PlaceInv
<1>1. /\ DOMAIN t = SoFields /\ t.columns = s.columns /\ t.floating = s.floating /\ t.away = s.away
      /\ t.moving = s.moving /\ t.op = s.op /\ t.failed = s.failed /\ t.target = s.target /\ t.preview = s.preview
      /\ t.children = [s.children EXCEPT ![c] = InsertAt(s.children[c], i, w)]
  BY <1>0 DEF SoType, SoFields
<1> HIDE DEF t
<1>2. s.children \in [Column -> Seq(Window)] /\ s.children[c] \in Seq(Window)
  BY <1>0 DEF SoType
<1>3. t.children[c] = InsertAt(s.children[c], i, w) /\ \A d \in Column : d # c => t.children[d] = s.children[d]
  BY <1>1, <1>2
<1>4. w \notin ToSet(s.children[c]) /\ IsInjective(s.children[c])
  BY DEF Lives, In, PlaceInv
<1>5. /\ t.children[c] \in Seq(Window) /\ IsInjective(t.children[c])
      /\ ToSet(t.children[c]) = ToSet(s.children[c]) \cup {w}
  BY <1>2, <1>3, <1>4, InsertAtSet
<1>6. \A v, d : d \in Column => (In(t, v, d) <=> In(s, v, d) \/ (v = w /\ d = c))
  BY <1>3, <1>5 DEF In
<1>7. SoType(t)
  BY <1>0, <1>1, <1>2, <1>5 DEF SoType
<1>8. w \notin s.floating /\ w \notin s.away /\ \A d \in Column : ~In(s, w, d)
  BY DEF Lives
<1>9. \A d \in Column : IsInjective(t.children[d])
  BY <1>3, <1>5 DEF PlaceInv
<1>10. PlaceInv(t)
  BY <1>1, <1>6, <1>7, <1>8, <1>9 DEF PlaceInv
<1>11. Apart(s, t, w) /\ In(t, w, c)
  BY <1>1, <1>6 DEF Apart
<1> QED
  BY <1>1, <1>3, <1>10, <1>11 DEF t

-----------------------------------------------------------------------------
(* Operations of a seat: what an operation refers to.                      *)

\* OpInv, but for what it says of a window that is about to go or has just been put
\* somewhere else, and of the destination.
OpBut(s, w) ==
  LET e == s.op
  IN  /\ DOMAIN e = DOMAIN NoOp
      /\ e.window = NoWindow \/ (e.window \in Window /\ (e.window = w \/ Lives(s, e.window)))
      /\ e.kind = "move" => e.window # NoWindow
      /\ e.kind # "move" => ~e.reached
      /\ e.reached /\ e.window # w => e.window \in s.floating /\ e.window \in s.moving
      /\ ~e.reached => e.dest = NoColumn
      /\ e.dest # NoColumn => e.dest \in Column
      /\ e.kind # "resize tiling" => e.hBox = NoColumn /\ e.vSib = NoWindow
      /\ ~e.away /\ (e.hBox # NoColumn \/ e.vSib # NoWindow) /\ e.window # w /\ e.vSib # w =>
           \E c \in Column :
             /\ In(s, e.window, c) /\ e.hBox \in {NoColumn, c}
             /\ e.vSib # NoWindow => e.vSib \in Window /\ In(s, e.vSib, c)

LEMMA OpHoldsBut ==
  ASSUME NEW s, OpInv(s), NEW w
  PROVE  OpBut(s, w)
BY DEF OpInv, OpBut

LEMMA ButKept ==
  ASSUME NEW s, NEW w, OpBut(s, w), NEW t, Apart(s, t, w), t.op = s.op, s.moving \ {w} \subseteq t.moving
  PROVE  OpBut(t, w)
BY DEF OpBut, Apart, Lives

LEMMA ButIsAll ==
  ASSUME NEW s, NEW w, OpBut(s, w), s.op.window # w, s.op.vSib # w,
         s.op.dest = NoColumn \/ s.op.away \/ s.op.dest \in ToSet(s.columns)
  PROVE  OpInv(s)
BY DEF OpBut, OpInv

\* Nothing changes that an operation refers to.
LEMMA OpKept ==
  ASSUME NEW s, OpInv(s), NEW t, \A w : Apart(s, t, w), t.op = s.op, s.moving \subseteq t.moving,
         s.op.dest = NoColumn \/ s.op.away \/ s.op.dest \in ToSet(t.columns)
  PROVE  OpInv(t)
<1>1. \A v : /\ v \in s.floating <=> v \in t.floating
             /\ v \in s.away <=> v \in t.away
             /\ \A c \in Column : In(s, v, c) <=> In(t, v, c)
  <2> SUFFICES ASSUME NEW v
               PROVE  /\ v \in s.floating <=> v \in t.floating
                      /\ v \in s.away <=> v \in t.away
                      /\ \A c \in Column : In(s, v, c) <=> In(t, v, c)
    OBVIOUS
  <2>1. PICK u : u # v
    <3>1. (CHOOSE x : x \notin {v}) # v
      BY NoSetContainsEverything
    <3> QED
      BY <3>1
  <2> QED
    BY <2>1 DEF Apart
<1> QED
  BY <1>1 DEF OpInv, Lives

\* The parts of an operation that count.
SameOp(e, f) ==
  /\ DOMAIN f = DOMAIN e /\ f.kind = e.kind /\ f.window = e.window /\ f.reached = e.reached
  /\ f.dest = e.dest /\ f.hBox = e.hBox /\ f.vSib = e.vSib /\ (e.away => f.away)
LEMMA OpSame ==
  ASSUME NEW s, OpInv(s), NEW t, SameOp(s.op, t.op), t.children = s.children,
         t.floating = s.floating, t.away = s.away, t.moving = s.moving, t.columns = s.columns
  PROVE  OpInv(t)
<1>1. \A w : Lives(s, w) => Lives(t, w)
  BY DEF Lives, In
<1> QED
  BY <1>1 DEF OpInv, SameOp, In

\* seatop_end
LEMMA EndEffect ==
  ASSUME NEW s, PlaceInv(s)
  PROVE  LET t == End(s)
         IN  /\ PlaceInv(t) /\ \A w : Apart(s, t, w)
             /\ OpInv(t) /\ t.op = NoOp /\ t.columns = s.columns /\ t.children = s.children
             /\ t.floating = s.floating /\ t.away = s.away /\ t.failed = s.failed
             /\ t.target = s.target /\ t.preview = s.preview
             /\ t.moving \subseteq s.moving
<1> DEFINE t == End(s)
<1>1. /\ DOMAIN t = SoFields /\ t.columns = s.columns /\ t.children = s.children /\ t.op = NoOp
      /\ t.floating = s.floating /\ t.away = s.away /\ t.failed = s.failed
      /\ t.target = s.target /\ t.preview = s.preview /\ t.moving \subseteq s.moving
  BY DEF End, PlaceInv, SoType, SoFields
<1> HIDE DEF t
<1>2. PlaceInv(t) /\ \A w : Apart(s, t, w)
  BY <1>1, QuietEffect DEF PlaceInv, SoType
<1>3. OpInv(t)
  BY <1>1 DEF OpInv, NoOp
<1> QED
  BY <1>1, <1>2, <1>3 DEF t

\* A dragged window leaves the place it would snap to, and the column goes if it was made for it.
LEMMA LeaveEffect ==
  ASSUME NEW s, PlaceInv(s), DOMAIN s.op = DOMAIN NoOp, NEW d
  PROVE  LET t == ConsiderDestroy([s EXCEPT !.preview = @ \ {d}, !.target[d] = NoWindow, !.op.dest = NoColumn], d)
         IN  /\ PlaceInv(t) /\ \A v : Apart(s, t, v)
             /\ t.children = s.children /\ t.floating = s.floating /\ t.away = s.away
             /\ t.failed = s.failed /\ t.moving = s.moving
             /\ DOMAIN t.op = DOMAIN NoOp /\ t.op.dest = NoColumn
             /\ t.op.window = s.op.window /\ t.op.vSib = s.op.vSib /\ t.op.hBox = s.op.hBox
             /\ t.op.kind = s.op.kind /\ t.op.reached = s.op.reached /\ t.op.away = s.op.away
             /\ ToSet(t.columns) \subseteq ToSet(s.columns)
<1> DEFINE before == [s EXCEPT !.preview = @ \ {d}, !.target[d] = NoWindow, !.op.dest = NoColumn]
<1>1. SoType(s)
  BY DEF PlaceInv
<1>2. /\ DOMAIN before = SoFields /\ before.columns = s.columns /\ before.children = s.children
      /\ before.floating = s.floating /\ before.away = s.away /\ before.moving = s.moving
      /\ before.failed = s.failed /\ before.target = [s.target EXCEPT ![d] = NoWindow]
      /\ DOMAIN before.op = DOMAIN NoOp /\ before.op.dest = NoColumn
      /\ before.op.window = s.op.window /\ before.op.vSib = s.op.vSib /\ before.op.hBox = s.op.hBox
      /\ before.op.kind = s.op.kind /\ before.op.reached = s.op.reached /\ before.op.away = s.op.away
  BY <1>1 DEF SoType, SoFields, NoOp
<1> HIDE DEF before
<1>3. PlaceInv(before) /\ \A v : Apart(s, before, v)
  BY <1>1, <1>2, QuietEffect DEF SoType
<1> DEFINE t == ConsiderDestroy(before, d)
<1>4. /\ PlaceInv(t) /\ \A v : Apart(before, t, v)
      /\ t.children = before.children /\ t.floating = before.floating /\ t.away = before.away
      /\ t.moving = before.moving /\ t.op = before.op /\ t.failed = before.failed
      /\ ToSet(t.columns) \subseteq ToSet(before.columns)
  BY <1>3, ConsiderDestroyEffect
<1> HIDE DEF t
<1>5. \A v : Apart(s, t, v)
  BY <1>3, <1>4 DEF Apart
<1> QED
  BY <1>2, <1>4, <1>5 DEF t, before

\* seatop_unref, of a window that may already be somewhere else
LEMMA UnrefEffect ==
  ASSUME NEW s, PlaceInv(s), NEW w \in Window, OpBut(s, w)
  PROVE  LET t == Unref(s, w)
         IN  /\ PlaceInv(t) /\ \A v : Apart(s, t, v)
             /\ OpInv(t) /\ t.op.window # w /\ t.op.vSib # w /\ t.op.dest = NoColumn
             /\ t.children = s.children /\ t.floating = s.floating /\ t.away = s.away /\ t.failed = s.failed
             /\ ToSet(t.columns) \subseteq ToSet(s.columns)
<1> DEFINE t == Unref(s, w)
           d == s.op.dest
           cleared == IF d = NoColumn THEN s
                      ELSE ConsiderDestroy([s EXCEPT !.preview = @ \ {d}, !.target[d] = NoWindow,
                                                     !.op.dest = NoColumn], d)
           forgotten == [cleared EXCEPT !.op.window = NoWindow]
<1>0. SoType(s) /\ DOMAIN s.op = DOMAIN NoOp /\ w # NoWindow /\ NoOp.window = NoWindow /\ NoOp.vSib = NoWindow
      /\ NoOp.dest = NoColumn
  BY StartAssumption DEF PlaceInv, OpBut, NoOp
<1>1. /\ PlaceInv(cleared) /\ \A v : Apart(s, cleared, v)
      /\ cleared.children = s.children /\ cleared.floating = s.floating /\ cleared.away = s.away
      /\ cleared.failed = s.failed /\ cleared.moving = s.moving
      /\ DOMAIN cleared.op = DOMAIN NoOp /\ cleared.op.dest = NoColumn
      /\ cleared.op.window = s.op.window /\ cleared.op.vSib = s.op.vSib /\ cleared.op.hBox = s.op.hBox
      /\ cleared.op.kind = s.op.kind /\ cleared.op.reached = s.op.reached /\ cleared.op.away = s.op.away
      /\ ToSet(cleared.columns) \subseteq ToSet(s.columns)
  <2>1. CASE d = NoColumn
    BY <1>0, <2>1 DEF Apart
  <2>2. CASE d # NoColumn
    <3> DEFINE left == ConsiderDestroy([s EXCEPT !.preview = @ \ {d}, !.target[d] = NoWindow, !.op.dest = NoColumn], d)
    <3>1. /\ PlaceInv(left) /\ \A v : Apart(s, left, v)
          /\ left.children = s.children /\ left.floating = s.floating /\ left.away = s.away
          /\ left.failed = s.failed /\ left.moving = s.moving
          /\ DOMAIN left.op = DOMAIN NoOp /\ left.op.dest = NoColumn
          /\ left.op.window = s.op.window /\ left.op.vSib = s.op.vSib /\ left.op.hBox = s.op.hBox
          /\ left.op.kind = s.op.kind /\ left.op.reached = s.op.reached /\ left.op.away = s.op.away
          /\ ToSet(left.columns) \subseteq ToSet(s.columns)
      BY <1>0, LeaveEffect
    <3> HIDE DEF left
    <3>2. cleared = left
      BY <2>2 DEF left
    <3> QED
      BY <3>1, <3>2
  <2> QED
    BY <2>1, <2>2
<1>2. t = IF s.op.kind = "move" THEN IF s.op.window = w THEN BeginDefault(forgotten) ELSE cleared
          ELSE IF s.op.window = w \/ (s.op.kind = "resize tiling" /\ (s.op.hSib = ColumnOf(s, w) \/ s.op.vSib = w))
               THEN BeginDefault(s) ELSE s
  BY DEF Unref
<1> HIDE DEF t
<1>3. CASE s.op.kind = "move" /\ s.op.window = w
  <2>1. /\ DOMAIN forgotten = SoFields /\ forgotten.columns = cleared.columns /\ forgotten.children = s.children
        /\ forgotten.floating = s.floating /\ forgotten.away = s.away /\ forgotten.moving = s.moving
        /\ forgotten.failed = s.failed /\ forgotten.target = cleared.target
    <3> HIDE DEF cleared
    <3> QED
      BY <1>1 DEF PlaceInv, SoType, SoFields
  <2>2. PlaceInv(forgotten) /\ \A v : Apart(cleared, forgotten, v)
    <3> HIDE DEF cleared, forgotten
    <3> QED
      BY <1>1, <2>1, QuietEffect DEF PlaceInv, SoType
  <2> HIDE DEF cleared, forgotten
  <2>3. t = End(forgotten)
    BY <1>2, <1>3 DEF BeginDefault
  <2>4. /\ PlaceInv(t) /\ \A v : Apart(forgotten, t, v)
        /\ OpInv(t) /\ t.op = NoOp /\ t.columns = forgotten.columns /\ t.children = forgotten.children
        /\ t.floating = forgotten.floating /\ t.away = forgotten.away /\ t.failed = forgotten.failed
    BY <2>2, <2>3, EndEffect
  <2>5. \A v : Apart(s, t, v)
    BY <1>1, <2>2, <2>4 DEF Apart
  <2> QED
    BY <1>0, <1>1, <2>1, <2>4, <2>5 DEF t
<1>4. CASE s.op.kind = "move" /\ s.op.window # w
  <2> HIDE DEF cleared
  <2>1. t = cleared
    BY <1>2, <1>4
  <2>2. /\ t.op.window = s.op.window /\ t.op.vSib = s.op.vSib /\ t.op.dest = NoColumn /\ s.op.vSib = NoWindow
        /\ DOMAIN t.op = DOMAIN NoOp /\ t.op.kind = s.op.kind /\ t.op.reached = s.op.reached
        /\ t.op.hBox = s.op.hBox /\ t.op.away = s.op.away
    BY <1>0, <1>1, <1>4, <2>1 DEF OpBut
  <2>3. OpBut(t, w)
    BY <1>1, <2>1, <2>2 DEF OpBut, Apart, Lives
  <2>4. OpInv(t)
    BY <1>0, <1>4, <2>2, <2>3, ButIsAll
  <2> QED
    BY <1>0, <1>1, <1>4, <2>1, <2>2, <2>4 DEF t
<1>5. CASE /\ s.op.kind # "move"
           /\ s.op.window = w \/ (s.op.kind = "resize tiling" /\ (s.op.hSib = ColumnOf(s, w) \/ s.op.vSib = w))
  <2>1. t = End(s)
    BY <1>2, <1>5 DEF BeginDefault
  <2> QED
    BY <1>0, <2>1, EndEffect DEF t
<1>6. CASE /\ s.op.kind # "move"
           /\ ~(s.op.window = w \/ (s.op.kind = "resize tiling" /\ (s.op.hSib = ColumnOf(s, w) \/ s.op.vSib = w)))
  <2>1. t = s
    BY <1>2, <1>6
  <2>2. s.op.dest = NoColumn /\ s.op.vSib # w
    BY <1>0, <1>6 DEF OpBut
  <2>3. OpInv(s)
    BY <1>6, <2>2, ButIsAll
  <2> QED
    BY <1>6, <2>1, <2>2, <2>3 DEF t, Apart
<1> QED
  BY <1>3, <1>4, <1>5, <1>6

-----------------------------------------------------------------------------
(* Operations of a seat: beginning and ending.                             *)

\* Nothing but that an assertion may have failed.
Checked(s, t) ==
  /\ DOMAIN t = SoFields /\ t.columns = s.columns /\ t.children = s.children
  /\ t.floating = s.floating /\ t.away = s.away /\ t.moving = s.moving
  /\ t.op = s.op /\ t.target = s.target /\ t.preview = s.preview
  /\ t.failed \in BOOLEAN /\ (s.failed => t.failed)

LEMMA UnlessChecks ==
  ASSUME NEW s, SoType(s), NEW bad
  PROVE  Checked(s, Unless(bad, s, s)) /\ Checked(s, Fail(s)) /\ Fail(s).failed
BY DEF Unless, Fail, Checked, SoType, SoFields

LEMMA CheckedEffect ==
  ASSUME NEW s, PlaceInv(s), NEW t, Checked(s, t)
  PROVE  PlaceInv(t) /\ (\A w : Apart(s, t, w)) /\ (OpInv(s) => OpInv(t))
<1>1. PlaceInv(t) /\ \A w : Apart(s, t, w)
  BY QuietEffect DEF Checked, PlaceInv, SoType
<1>2. OpInv(s) => OpInv(t)
  BY <1>1, OpKept DEF Checked, OpInv
<1> QED
  BY <1>1, <1>2

LEMMA FailEffect ==
  ASSUME NEW s, PlaceInv(s)
  PROVE  SoInv(Fail(s)) /\ PlaceInv(Fail(s)) /\ Fail(s).failed
<1>1. Checked(s, Fail(s)) /\ Fail(s).failed
  BY UnlessChecks DEF PlaceInv
<1> QED
  BY <1>1, CheckedEffect DEF SoInv

\* Whatever is checked when it begins, an operation of a window that lives refers to nothing else.
LEMMA BeginsWith ==
  ASSUME NEW s, PlaceInv(s), NEW w \in Window \cup {NoWindow}, w = NoWindow \/ Lives(s, w),
         NEW kind \in {"down", "move", "resize floating"}, kind = "move" => w # NoWindow,
         NEW begun, Checked(End(s), begun)
  PROVE  SoInv([begun EXCEPT !.op.kind = kind, !.op.window = w])
<1> DEFINE t == [begun EXCEPT !.op.kind = kind, !.op.window = w]
           ended == End(s)
<1>1. /\ PlaceInv(ended) /\ \A v : Apart(s, ended, v)
      /\ ended.op = NoOp /\ ended.floating = s.floating /\ ended.away = s.away /\ ended.children = s.children
  BY EndEffect
<1>2. Checked(ended, begun)
  OBVIOUS
<1> HIDE DEF ended
<1>3. PlaceInv(begun) /\ begun.op = NoOp
  BY <1>1, <1>2, CheckedEffect DEF Checked
<1>4. /\ DOMAIN t = SoFields /\ t.columns = begun.columns /\ t.children = begun.children
      /\ t.floating = begun.floating /\ t.away = begun.away /\ t.moving = begun.moving
      /\ t.target = begun.target /\ t.failed = begun.failed
      /\ t.op = [NoOp EXCEPT !.kind = kind, !.window = w]
  BY <1>3 DEF PlaceInv, SoType, SoFields
<1> HIDE DEF t
<1>5. PlaceInv(t)
  <2>1. SoType(begun)
    BY <1>3 DEF PlaceInv
  <2> QED
    BY <1>3, <1>4, <2>1, QuietEffect DEF SoType
<1>6. /\ DOMAIN t.op = DOMAIN NoOp /\ t.op.kind = kind /\ t.op.window = w /\ t.op.reached = FALSE
      /\ t.op.dest = NoColumn /\ t.op.hBox = NoColumn /\ t.op.vSib = NoWindow
  BY <1>4 DEF NoOp
<1>7. w = NoWindow \/ Lives(t, w)
  BY <1>1, <1>2, <1>4 DEF Lives, In, Checked
<1>8. OpInv(t)
  BY <1>6, <1>7 DEF OpInv
<1> QED
  BY <1>5, <1>8 DEF SoInv, t

\* seatop_begin_down, seatop_begin_move, seatop_begin_resize_floating
LEMMA BeginKeeps ==
  ASSUME NEW s, PlaceInv(s), NEW w, (w \in Window /\ Lives(s, w)) \/ w = NoWindow
  PROVE  /\ SoInv(BeginDefault(s)) /\ SoInv(BeginDown(s, w))
         /\ w # NoWindow => SoInv(BeginMove(s, w)) /\ SoInv(BeginResizeFloating(s, w))
<1>1. PlaceInv(End(s)) /\ OpInv(End(s))
  BY EndEffect
<1>2. SoType(End(s))
  BY <1>1 DEF PlaceInv
<1>3. Checked(End(s), End(s))
  BY <1>2 DEF Checked, SoType
<1>4. Checked(End(s), SetResizing(End(s), w))
  BY <1>2, UnlessChecks DEF SetResizing
<1>5. SoInv([End(s) EXCEPT !.op.kind = "down", !.op.window = w])
  BY <1>3, BeginsWith
<1>6. w # NoWindow => SoInv([End(s) EXCEPT !.op.kind = "move", !.op.window = w])
  BY <1>3, BeginsWith
<1>7. w # NoWindow => SoInv([SetResizing(End(s), w) EXCEPT !.op.kind = "resize floating", !.op.window = w])
  BY <1>4, BeginsWith
<1> QED
  BY <1>1, <1>5, <1>6, <1>7 DEF BeginDefault, BeginDown, BeginMove, BeginResizeFloating, SoInv

\* What is beside a window in its column is a window of the column.
LEMMA WindowBesideIs ==
  ASSUME NEW s, PlaceInv(s), NEW w, NEW c \in Column, In(s, w, c), NEW step
  PROVE  LET v == WindowBeside(s, w, step) IN v = NoWindow \/ (v \in Window /\ In(s, v, c))
<1> DEFINE near == IF c \in ToSet(s.columns) THEN Neighbour(s.children[c], w, step) ELSE {}
<1>1. ColumnOf(s, w) = c
  BY PlaceOf
<1>2. WindowBeside(s, w, step) = Only(near, NoWindow)
  BY <1>1 DEF WindowBeside
<1>3. ToSet(s.children[c]) \subseteq Window
  BY DEF PlaceInv, SoType, ToSet
<1>4. near \subseteq ToSet(s.children[c])
  BY DEF Neighbour, ToSet
<1> HIDE DEF near
<1>5. Only(near, NoWindow) = NoWindow \/ Only(near, NoWindow) \in near
  BY DEF Only
<1> QED
  BY <1>2, <1>3, <1>4, <1>5 DEF In

\* seatop_begin_resize_tiling: the column and the window beside are where the window is.
LEMMA BeginResizeTilingKeeps ==
  ASSUME NEW s, PlaceInv(s), NEW w \in Window, NEW c \in Column, In(s, w, c), NEW edges
  PROVE  SoInv(BeginResizeTiling(s, w, edges))
<1> DEFINE horizontal == edges \cap {"left", "right"} # {}
           box == IF horizontal THEN ColumnOf(s, w) ELSE NoColumn
           hSib == IF horizontal THEN ColumnBeside(s, box, IF "left" \in edges THEN -1 ELSE 1) ELSE NoColumn
           vertical == edges \cap {"top", "bottom"} # {}
           vSib == IF vertical THEN WindowBeside(s, w, IF "top" \in edges THEN -1 ELSE 1) ELSE NoWindow
           ended == End(s)
           wide == IF hSib = NoColumn THEN ended ELSE ColumnSetResizing(ColumnSetResizing(ended, box), hSib)
           high == IF vertical THEN SetResizing(SetResizing(wide, w), vSib) ELSE wide
           t == [high EXCEPT !.op.kind = "resize tiling", !.op.window = w, !.op.edges = edges,
                             !.op.hBox = box, !.op.hSib = hSib, !.op.vSib = vSib]
<1>0. BeginResizeTiling(s, w, edges) = t
  BY DEF BeginResizeTiling
<1>1. box \in {NoColumn, c}
  BY PlaceOf
<1>2. vSib = NoWindow \/ (vSib \in Window /\ In(s, vSib, c))
  BY WindowBesideIs
<1>3. PlaceInv(ended) /\ ended.op = NoOp /\ ended.children = s.children
  BY EndEffect
<1> HIDE DEF horizontal, box, hSib, vertical, vSib, ended
<1>4. SoType(ended)
  BY <1>3 DEF PlaceInv
<1>5. Checked(ended, high)
  <2>1. ASSUME NEW x, SoType(x), Checked(ended, x), NEW bad
        PROVE  SoType(Unless(bad, x, x)) /\ Checked(ended, Unless(bad, x, x))
    <3>1. Checked(x, Unless(bad, x, x))
      BY <2>1, UnlessChecks
    <3> QED
      BY <2>1, <3>1 DEF Checked, SoType
  <2>2. Checked(ended, ended)
    BY <1>4 DEF Checked, SoType
  <2>3. SoType(wide) /\ Checked(ended, wide)
    BY <1>4, <2>1, <2>2 DEF ColumnSetResizing
  <2> HIDE DEF wide
  <2> QED
    BY <2>1, <2>3 DEF SetResizing
<1> HIDE DEF high
<1>6. PlaceInv(high) /\ high.op = NoOp /\ high.children = s.children
  BY <1>3, <1>5, CheckedEffect DEF Checked
<1>7. /\ DOMAIN t = SoFields /\ t.columns = high.columns /\ t.children = high.children
      /\ t.floating = high.floating /\ t.away = high.away /\ t.moving = high.moving
      /\ t.target = high.target /\ t.failed = high.failed
      /\ t.op = [NoOp EXCEPT !.kind = "resize tiling", !.window = w, !.edges = edges,
                             !.hBox = box, !.hSib = hSib, !.vSib = vSib]
  BY <1>6 DEF PlaceInv, SoType, SoFields
<1> HIDE DEF t
<1>8. PlaceInv(t)
  <2>1. SoType(high)
    BY <1>6 DEF PlaceInv
  <2> QED
    BY <1>6, <1>7, <2>1, QuietEffect DEF SoType
<1>9. /\ DOMAIN t.op = DOMAIN NoOp /\ t.op.kind = "resize tiling" /\ t.op.window = w /\ t.op.reached = FALSE
      /\ t.op.dest = NoColumn /\ t.op.hBox = box /\ t.op.vSib = vSib
  BY <1>7 DEF NoOp
<1>10. In(t, w, c) /\ (vSib = NoWindow \/ (vSib \in Window /\ In(t, vSib, c)))
  BY <1>2, <1>6, <1>7 DEF In
<1>11. OpInv(t)
  BY <1>1, <1>9, <1>10 DEF OpInv, Lives
<1> QED
  BY <1>0, <1>8, <1>11 DEF SoInv

\* What is under the pointer is a window of this workspace, or none.
LEMMA SpotIs ==
  ASSUME NEW s, PlaceInv(s), NEW spot \in Spot(s)
  PROVE  \/ spot.window = NoWindow /\ spot.part \in {"workspace", "layer", "unmanaged"}
         \/ /\ spot.window \in Window /\ Lives(s, spot.window) /\ spot.window \notin s.away
            /\ spot.part \in {"titlebar", "contents", "border"}
<1> DEFINE hit == {w \in Window : IsAlive(s, w) /\ w \notin s.away \cup s.moving}
<1>1. \A w \in hit : w \in Window /\ Lives(s, w) /\ w \notin s.away
  BY PlaceOf
<1> HIDE DEF hit
<1>2. Spot(s) = {[window |-> w, part |-> p, edges |-> {}] : w \in hit, p \in {"titlebar", "contents"}}
                \cup {[window |-> w, part |-> "border", edges |-> e] : w \in hit \ s.fullscreen, e \in Edges}
                \cup {[window |-> NoWindow, part |-> p, edges |-> {}] : p \in {"workspace", "layer", "unmanaged"}}
  BY DEF Spot, hit
<1>3. CASE spot \in {[window |-> w, part |-> p, edges |-> {}] : w \in hit, p \in {"titlebar", "contents"}}
  BY <1>1, <1>3
<1>4. CASE spot \in {[window |-> w, part |-> "border", edges |-> e] : w \in hit \ s.fullscreen, e \in Edges}
  BY <1>1, <1>4
<1>5. CASE spot \in {[window |-> NoWindow, part |-> p, edges |-> {}] : p \in {"workspace", "layer", "unmanaged"}}
  BY <1>5
<1> QED
  BY <1>2, <1>3, <1>4, <1>5

\* handle_button of seatop_default.c
LEMMA DefaultPressKeeps ==
  ASSUME NEW s, SoInv(s), NEW spot, NEW button, NEW mod,
         \/ spot.window = NoWindow /\ spot.part \in {"workspace", "layer", "unmanaged"}
         \/ /\ spot.window \in Window /\ Lives(s, spot.window) /\ spot.window \notin s.away
            /\ spot.part \in {"titlebar", "contents", "border"},
         NEW t \in DefaultPress(s, spot, button, mod)
  PROVE  SoInv(t)
<1> DEFINE w == spot.window
           begun == {BeginMove(s, w), BeginResizeFloating(s, w), BeginDown(s, w), s}
           tiled == {BeginResizeTiling(s, w, spot.edges)} \cup {BeginResizeTiling(s, w, e) : e \in Corners}
<1>1. PlaceInv(s)
  BY DEF SoInv
<1>2. CASE w = NoWindow
  <2>1. t \in {s, BeginDown(s, w)}
    BY <1>2 DEF DefaultPress
  <2> QED
    BY <1>1, <1>2, <2>1, BeginKeeps
<1>3. CASE w # NoWindow
  <2>1. w \in Window /\ Lives(s, w) /\ w \notin s.away
    BY <1>3
  <2>2. \A u \in begun : SoInv(u)
    BY <1>1, <1>3, <2>1, BeginKeeps
  <2>3. CASE w \in s.floating
    <3>1. t \in begun
      BY <1>3, <2>3 DEF DefaultPress
    <3> QED
      BY <2>2, <3>1
  <2>4. CASE w \notin s.floating
    <3>1. t \in begun \cup tiled
      BY <1>3, <2>4 DEF DefaultPress
    <3>2. \A e : SoInv(BeginResizeTiling(s, w, e))
      BY <1>1, <2>1, <2>4, BeginResizeTilingKeeps DEF Lives
    <3> QED
      BY <2>2, <3>1, <3>2
  <2> QED
    BY <2>3, <2>4
<1> QED
  BY <1>2, <1>3

\* A button is counted, and remembered for bindings.
LEMMA PressedKeeps ==
  ASSUME NEW s, PlaceInv(s), OpInv(s), NEW buttons, NEW pressed
  PROVE  LET u == [s EXCEPT !.buttons = buttons]
             t == [u EXCEPT !.op.pressed = pressed]
         IN  /\ PlaceInv(u) /\ OpInv(u) /\ PlaceInv(t) /\ OpInv(t)
             /\ \A w : Lives(s, w) <=> Lives(t, w)
             /\ t.away = s.away
<1> DEFINE u == [s EXCEPT !.buttons = buttons]
           t == [u EXCEPT !.op.pressed = pressed]
<1>1. SoType(s) /\ DOMAIN s.op = DOMAIN NoOp
  BY DEF PlaceInv, OpInv
<1>2. /\ DOMAIN u = SoFields /\ u.columns = s.columns /\ u.children = s.children
      /\ u.floating = s.floating /\ u.away = s.away /\ u.moving = s.moving
      /\ u.target = s.target /\ u.failed = s.failed /\ u.op = s.op
  BY <1>1 DEF SoType, SoFields
<1> HIDE DEF u
<1>3. /\ DOMAIN t = SoFields /\ t.columns = s.columns /\ t.children = s.children
      /\ t.floating = s.floating /\ t.away = s.away /\ t.moving = s.moving
      /\ t.target = s.target /\ t.failed = s.failed /\ t.op = [s.op EXCEPT !.pressed = pressed]
  BY <1>2 DEF SoFields
<1> HIDE DEF t
<1>4. SameOp(s.op, u.op) /\ SameOp(s.op, t.op)
  BY <1>1, <1>2, <1>3 DEF SameOp, NoOp
<1>5. PlaceInv(u) /\ OpInv(u)
  BY <1>1, <1>2, <1>4, QuietEffect, OpSame DEF SoType
<1>6. PlaceInv(t) /\ OpInv(t)
  BY <1>1, <1>3, <1>4, QuietEffect, OpSame DEF SoType
<1> QED
  BY <1>3, <1>5, <1>6 DEF Lives, In, t, u

\* handle_button of seatop_resize_tiling.c
LEMMA FinishResizeTilingKeeps ==
  ASSUME NEW s, PlaceInv(s)
  PROVE  SoInv(FinishResizeTiling(s))
<1> DEFINE e == s.op
           wide == IF e.hBox = NoColumn THEN s ELSE ColumnSetResizing(ColumnSetResizing(s, e.hBox), e.hSib)
           high == IF e.edges \cap {"top", "bottom"} = {} THEN wide
                   ELSE Unless(ColumnOf(s, e.window) = NoColumn, s, SetResizing(SetResizing(wide, e.window), e.vSib))
<1>1. ASSUME NEW x, SoType(x), Checked(s, x), NEW bad
      PROVE  SoType(Unless(bad, x, x)) /\ Checked(s, Unless(bad, x, x))
  <2>1. Checked(x, Unless(bad, x, x))
    BY <1>1, UnlessChecks
  <2> QED
    BY <1>1, <2>1 DEF Checked, SoType
<1>2. SoType(s) /\ Checked(s, s)
  BY DEF PlaceInv, SoType, Checked
<1>3. SoType(wide) /\ Checked(s, wide)
  BY <1>1, <1>2 DEF ColumnSetResizing
<1> HIDE DEF wide
<1>4. Checked(s, SetResizing(SetResizing(wide, e.window), e.vSib))
  BY <1>1, <1>3 DEF SetResizing
<1>5. Checked(s, high)
  BY <1>2, <1>3, <1>4, UnlessChecks DEF Unless
<1> HIDE DEF high
<1>6. PlaceInv(high)
  BY <1>5, CheckedEffect
<1>7. SoInv(End(high))
  BY <1>6, EndEffect DEF SoInv
<1> QED
  BY <1>7 DEF FinishResizeTiling, BeginDefault, high, wide

\* column_insert_child, of a window that was taken out
LEMMA InsertFirstEffect ==
  ASSUME NEW s, PlaceInv(s), NEW w \in Window, ~Lives(s, w), NEW c \in Column
  PROVE  LET t == InsertFirst(s, c, w)
         IN  /\ PlaceInv(t) /\ Apart(s, t, w) /\ t.op = s.op /\ t.moving = s.moving /\ t.columns = s.columns
             /\ t.target = s.target /\ t.preview = s.preview
             /\ c \in ToSet(s.columns) => t.failed = s.failed /\ In(t, w, c)
<1> DEFINE t == InsertFirst(s, c, w)
           u == [s EXCEPT !.children[c] = InsertAt(@, 1, w)]
<1>1. CASE c \in ToSet(s.columns)
  <2>1. t = u
    BY <1>1 DEF InsertFirst, IsColumn, Unless
  <2>2. 1 \in 1..(Len(s.children[c]) + 1)
    <3>1. s.children[c] \in Seq(Window)
      BY DEF PlaceInv, SoType
    <3> QED
      BY <3>1
  <2>i. PICK i \in 1..(Len(s.children[c]) + 1) : i = 1
    BY <2>2
  <2>u. u = [s EXCEPT !.children[c] = InsertAt(@, i, w)]
    BY <2>i
  <2> HIDE DEF u
  <2>3. /\ PlaceInv(u) /\ Apart(s, u, w) /\ In(u, w, c) /\ u.op = s.op /\ u.moving = s.moving
        /\ u.columns = s.columns /\ u.failed = s.failed /\ u.target = s.target /\ u.preview = s.preview
    BY <1>1, <2>u, InsertEffect
  <2> QED
    BY <2>1, <2>3
<1>2. CASE c \notin ToSet(s.columns)
  <2>1. t = Fail(s)
    BY <1>2, StartAssumption DEF InsertFirst, IsColumn, Unless
  <2>2. Checked(s, Fail(s))
    BY UnlessChecks DEF PlaceInv
  <2> QED
    BY <1>2, <2>1, <2>2, CheckedEffect DEF Checked
<1> QED
  BY <1>1, <1>2

\* column_add_sibling, of a window that was taken out
LEMMA AddSiblingEffect ==
  ASSUME NEW s, PlaceInv(s), NEW w \in Window, ~Lives(s, w), NEW fixed
  PROVE  LET t == AddSibling(s, fixed, w)
         IN  PlaceInv(t) /\ t.op = s.op /\ t.moving = s.moving /\ t.target = s.target /\ t.preview = s.preview
<1> DEFINE t == AddSibling(s, fixed, w)
           c == ColumnOf(s, fixed)
<1>0. SoType(s) /\ NoColumn # Elsewhere /\ NoColumn \notin Column /\ Elsewhere \notin Column
  BY StartAssumption DEF PlaceInv, NoColumn, Elsewhere
<1>1. CASE \E d \in Column : In(s, fixed, d)
  <2>1. PICK d \in Column : In(s, fixed, d)
    BY <1>1
  <2>2. c = d /\ d \in ToSet(s.columns)
    BY <2>1, PlaceOf DEF PlaceInv
  <2> DEFINE i == CHOOSE j \in DOMAIN s.children[d] : s.children[d][j] = fixed
  <2>3. i \in DOMAIN s.children[d]
    BY <2>1 DEF In, ToSet
  <2> HIDE DEF i
  <2>4. i + 1 \in 1..(Len(s.children[d]) + 1)
    <3>1. s.children[d] \in Seq(Window)
      BY <1>0 DEF SoType
    <3> QED
      BY <2>3, <3>1
  <2>5. t = [s EXCEPT !.children[d] = InsertAt(@, i + 1, w)]
    BY <1>0, <2>2 DEF AddSibling, i
  <2> QED
    BY <2>2, <2>4, <2>5, InsertEffect
<1>2. CASE \A d \in Column : ~In(s, fixed, d)
  <2>1. c \in {NoColumn, Elsewhere}
    BY <1>2, PlaceOf
  <2>2. CASE c = NoColumn
    <3>1. t = Fail(s)
      BY <1>0, <2>2 DEF AddSibling
    <3>2. Checked(s, Fail(s))
      BY UnlessChecks DEF PlaceInv
    <3> QED
      BY <3>1, <3>2, CheckedEffect DEF Checked
  <2>3. CASE c = Elsewhere
    <3>1. t = [s EXCEPT !.away = @ \cup {w}]
      BY <1>0, <2>3 DEF AddSibling
    <3>2. /\ DOMAIN t = SoFields /\ t.columns = s.columns /\ t.children = s.children /\ t.floating = s.floating
          /\ t.away = s.away \cup {w} /\ t.moving = s.moving /\ t.target = s.target /\ t.failed = s.failed
          /\ t.op = s.op /\ t.preview = s.preview
      BY <1>0, <3>1 DEF SoType, SoFields
    <3> HIDE DEF t
    <3>3. PlaceInv(t)
      BY <1>0, <3>2, SettleEffect DEF SoType, Lives
    <3> QED
      BY <3>2, <3>3 DEF t
  <2> QED
    BY <2>1, <2>2, <2>3
<1> QED
  BY <1>1, <1>2

\* finalize_move
LEMMA FinalizeMoveKeeps ==
  ASSUME NEW s, PlaceInv(s), OpInv(s), s.op.kind = "move"
  PROVE  SoInv(FinalizeMove(s))
<1> DEFINE w == s.op.window
           d == s.op.dest
           from == Detach(s, w)
           placed == IF s.target[d] # NoWindow THEN AddSibling(from, s.target[d], w) ELSE InsertFirst(from, d, w)
           done == [placed EXCEPT !.preview = @ \ {d}, !.target[d] = NoWindow]
           dropped == IF d = NoColumn THEN Unless(w \notin s.floating, s, s) ELSE Unless(~IsColumn(s, d), s, done)
           rest == [dropped EXCEPT !.moving = @ \ {w}]
<1>1. w \in Window /\ d \in Column \cup {NoColumn}
  BY DEF OpInv
<1>2. PlaceInv(from) /\ ~Lives(from, w) /\ from.moving = s.moving
  BY DetachEffect
<1>3. PlaceInv(dropped)
  <2>1. CASE d = NoColumn
    <3>1. Checked(s, Unless(w \notin s.floating, s, s))
      BY UnlessChecks DEF PlaceInv
    <3> QED
      BY <2>1, <3>1, CheckedEffect
  <2>2. CASE d # NoColumn
    <3> HIDE DEF w, from
    <3>1. PlaceInv(placed)
      BY <1>1, <1>2, <2>2, AddSiblingEffect, InsertFirstEffect
    <3> HIDE DEF placed
    <3>2. SoType(placed)
      BY <3>1 DEF PlaceInv
    <3>3. /\ DOMAIN done = SoFields /\ done.columns = placed.columns /\ done.children = placed.children
          /\ done.floating = placed.floating /\ done.away = placed.away /\ done.moving = placed.moving
          /\ done.failed = placed.failed /\ DOMAIN done.target = DOMAIN placed.target
      BY <3>2 DEF SoType, SoFields
    <3> HIDE DEF done
    <3>4. PlaceInv(done)
      BY <3>1, <3>2, <3>3, QuietEffect DEF SoType
    <3>5. PlaceInv(Fail(s))
      BY FailEffect
    <3> QED
      BY <2>2, <3>4, <3>5 DEF Unless
  <2> QED
    BY <2>1, <2>2
<1> HIDE DEF dropped
<1>4. PlaceInv(rest)
  <2>1. SoType(dropped)
    BY <1>3 DEF PlaceInv
  <2>2. /\ DOMAIN rest = SoFields /\ rest.columns = dropped.columns /\ rest.children = dropped.children
        /\ rest.floating = dropped.floating /\ rest.away = dropped.away /\ rest.moving \subseteq Window
        /\ rest.failed = dropped.failed /\ rest.target = dropped.target
    BY <2>1 DEF SoType, SoFields
  <2> HIDE DEF rest
  <2> QED
    BY <1>3, <2>1, <2>2, QuietEffect DEF SoType
<1>5. FinalizeMove(s) = IF s.op.reached THEN BeginDefault(rest) ELSE BeginDefault(s)
  BY DEF FinalizeMove, dropped
<1> HIDE DEF rest
<1>6. SoInv(BeginDefault(rest)) /\ SoInv(BeginDefault(s))
  BY <1>4, BeginKeeps
<1> QED
  BY <1>5, <1>6

\* seatop_button, in another operation than the default one
LEMMA ReleaseOpKeeps ==
  ASSUME NEW s, PlaceInv(s), OpInv(s)
  PROVE  SoInv(ReleaseOp(s))
<1>1. SoInv(s) /\ SoInv(BeginDefault(s))
  BY BeginKeeps DEF SoInv
<1>2. SoInv(BeginDefault(SetResizing(s, s.op.window)))
  <2>1. Checked(s, SetResizing(s, s.op.window))
    BY UnlessChecks DEF PlaceInv, SetResizing
  <2>2. PlaceInv(SetResizing(s, s.op.window))
    BY <2>1, CheckedEffect
  <2> QED
    BY <2>2, BeginKeeps
<1>3. SoInv(FinishResizeTiling(s)) /\ (s.op.kind = "move" => SoInv(FinalizeMove(s)))
  BY FinishResizeTilingKeeps, FinalizeMoveKeeps
<1> QED
  BY <1>1, <1>2, <1>3 DEF ReleaseOp

-----------------------------------------------------------------------------
(* Operations of a seat: motion.                                           *)

\* do_detach
LEMMA DoDetachKeeps ==
  ASSUME NEW s, PlaceInv(s), OpInv(s), s.op.kind = "move", ~s.op.reached
  PROVE  SoInv(DoDetach(s))
<1> DEFINE w == s.op.window
           gone == ConsiderDestroy(Detach(s, w), ColumnOf(s, w))
           float == [gone EXCEPT !.floating = @ \cup {w}, !.away = IF w \in s.away THEN @ \cup {w} ELSE @]
           now == IF w \in s.floating THEN s ELSE float
           t == [now EXCEPT !.op.reached = TRUE, !.moving = @ \cup {w}]
<1>1. w \in Window /\ DOMAIN s.op = DOMAIN NoOp
  BY DEF OpInv
<1>2. PlaceInv(now) /\ now.op = s.op /\ w \in now.floating
  <2>1. CASE w \in s.floating
    BY <2>1
  <2>2. CASE w \notin s.floating
    <3>1. PlaceInv(Detach(s, w)) /\ ~Lives(Detach(s, w), w) /\ Detach(s, w).op = s.op
      BY DetachEffect
    <3>2. PlaceInv(gone) /\ gone.op = s.op /\ \A c \in Column : ~In(gone, w, c)
      BY <3>1, ConsiderDestroyEffect DEF Lives, In
    <3> HIDE DEF gone
    <3>3. SoType(gone)
      BY <3>2 DEF PlaceInv
    <3>4. /\ DOMAIN float = SoFields /\ float.columns = gone.columns /\ float.children = gone.children
          /\ float.floating = gone.floating \cup {w} /\ float.away \in {gone.away, gone.away \cup {w}}
          /\ float.moving = gone.moving /\ float.target = gone.target /\ float.failed = gone.failed
          /\ float.op = gone.op
      BY <3>3 DEF SoType, SoFields
    <3> HIDE DEF float, w
    <3>5. PlaceInv(float)
      BY <1>1, <3>2, <3>3, <3>4, SettleEffect DEF SoType
    <3> QED
      BY <2>2, <3>2, <3>4, <3>5
  <2> QED
    BY <2>1, <2>2
<1> HIDE DEF now
<1>3. SoType(now)
  BY <1>2 DEF PlaceInv
<1>4. /\ DOMAIN t = SoFields /\ t.columns = now.columns /\ t.children = now.children
      /\ t.floating = now.floating /\ t.away = now.away /\ t.moving = now.moving \cup {w}
      /\ t.target = now.target /\ t.failed = now.failed
      /\ t.op = [s.op EXCEPT !.reached = TRUE]
  BY <1>2, <1>3 DEF SoType, SoFields
<1>5. DoDetach(s) = t
  BY DEF DoDetach, now
<1> HIDE DEF t
<1>6. PlaceInv(t)
  BY <1>1, <1>2, <1>3, <1>4, QuietEffect DEF SoType
<1>7. /\ DOMAIN t.op = DOMAIN NoOp /\ t.op.window = w /\ t.op.kind = "move" /\ t.op.reached = TRUE
      /\ t.op.dest = NoColumn /\ t.op.hBox = NoColumn /\ t.op.vSib = NoWindow /\ w # NoWindow
  BY <1>1, <1>4 DEF NoOp, OpInv
<1>8. OpInv(t)
  BY <1>1, <1>2, <1>4, <1>7 DEF OpInv, Lives
<1> QED
  BY <1>5, <1>6, <1>8 DEF SoInv

\* column_create and workspace_insert_column_*, under a free name
LEMMA InsertColumnEffect ==
  ASSUME NEW s, PlaceInv(s), NEW c \in Column, c \notin ToSet(s.columns), NEW i \in 1..(Len(s.columns) + 1)
  PROVE  LET t == InsertColumn(s, c, i)
         IN  /\ PlaceInv(t) /\ \A w : Apart(s, t, w)
             /\ c \in ToSet(t.columns) /\ t.op = s.op /\ t.moving = s.moving
<1> DEFINE t == InsertColumn(s, c, i)
<1>0. SoType(s)
  BY DEF PlaceInv
<1>1. /\ DOMAIN t = SoFields /\ t.columns = InsertAt(s.columns, i, c) /\ t.children = [s.children EXCEPT ![c] = << >>]
      /\ t.floating = s.floating /\ t.away = s.away /\ t.moving = s.moving /\ t.op = s.op
      /\ t.target = s.target /\ t.failed = s.failed
  BY <1>0 DEF InsertColumn, SoType, SoFields
<1> HIDE DEF t
<1>2. t.columns \in Seq(Column) /\ IsInjective(t.columns) /\ ToSet(t.columns) = ToSet(s.columns) \cup {c}
  BY <1>0, <1>1, InsertAtSet DEF SoType, PlaceInv
<1>3. s.children \in [Column -> Seq(Window)]
  BY <1>0 DEF SoType
<1>4. t.children[c] = << >> /\ \A d \in Column : d # c => t.children[d] = s.children[d]
  BY <1>1, <1>3
<1>5. t.children \in [Column -> Seq(Window)]
  BY <1>1, <1>3
<1>6. \A w : ~In(s, w, c)
  BY DEF PlaceInv
<1>7. \A w : ~In(t, w, c)
  BY <1>4 DEF In, ToSet
<1>8. \A w, d : d \in Column => (In(t, w, d) <=> In(s, w, d))
  BY <1>4, <1>6, <1>7 DEF In
<1>9. \A d \in Column : IsInjective(t.children[d])
  <2>1. IsInjective(t.children[c])
    BY <1>4 DEF IsInjective
  <2> QED
    BY <1>4, <2>1 DEF PlaceInv
<1>10. PlaceInv(t)
  BY <1>0, <1>1, <1>2, <1>5, <1>8, <1>9 DEF PlaceInv, SoType
<1>11. \A w : Apart(s, t, w)
  BY <1>1, <1>8 DEF Apart
<1> QED
  BY <1>1, <1>2, <1>10, <1>11 DEF t

\* handle_pointer_motion_postthreshold
LEMMA PostThresholdKeeps ==
  ASSUME NEW s, PlaceInv(s), OpInv(s), s.op.kind = "move", s.op.reached,
         NEW leaves \in BOOLEAN, NEW snap \in Snaps(s)
  PROVE  LET t == PostThreshold(s, leaves, snap)
         IN  PlaceInv(t) /\ OpInv(t) /\ t.op.kind = "move" /\ t.op.reached
<1> DEFINE d == s.op.dest
           left == ConsiderDestroy([s EXCEPT !.preview = @ \ {d}, !.target[d] = NoWindow, !.op.dest = NoColumn], d)
           c == IF snap[1] = "new" THEN CHOOSE f \in FreeColumns(s) : TRUE ELSE snap[2]
           room == IF snap[1] = "new" THEN InsertColumn(s, c, snap[2]) ELSE s
           placed == [room EXCEPT !.preview = @ \cup {c}, !.op.dest = c]
           t == PostThreshold(s, leaves, snap)
<1>0. SoType(s) /\ s.op.window \in s.floating /\ DOMAIN s.op = DOMAIN NoOp
  BY DEF PlaceInv, OpInv
<1>1. t = IF d # NoColumn THEN Unless(~IsColumn(s, d), s, IF leaves THEN left ELSE s)
          ELSE IF snap[1] = "none" THEN s ELSE placed
  BY <1>0 DEF PostThreshold
<1>2. CASE d # NoColumn
  <2>1. /\ PlaceInv(left) /\ \A v : Apart(s, left, v)
        /\ left.children = s.children /\ left.floating = s.floating /\ left.away = s.away
        /\ left.failed = s.failed /\ left.moving = s.moving
        /\ DOMAIN left.op = DOMAIN NoOp /\ left.op.dest = NoColumn
        /\ left.op.window = s.op.window /\ left.op.vSib = s.op.vSib /\ left.op.hBox = s.op.hBox
        /\ left.op.kind = s.op.kind /\ left.op.reached = s.op.reached /\ left.op.away = s.op.away
        /\ ToSet(left.columns) \subseteq ToSet(s.columns)
    BY <1>0, LeaveEffect
  <2> HIDE DEF left
  <2>2. OpInv(left)
    BY <2>1 DEF OpInv, Lives
  <2>3. Checked(s, Fail(s))
    BY <1>0, UnlessChecks
  <2>4. PlaceInv(Fail(s)) /\ OpInv(Fail(s)) /\ Fail(s).op = s.op
    BY <2>3, CheckedEffect DEF Checked
  <2>5. t \in {Fail(s), left, s}
    BY <1>1, <1>2 DEF Unless
  <2> HIDE DEF t
  <2> QED
    BY <2>1, <2>2, <2>4, <2>5 DEF t
<1>3. CASE d = NoColumn /\ snap[1] = "none"
  BY <1>1, <1>3
<1>4. CASE d = NoColumn /\ snap[1] # "none"
  <2>1. t = placed
    BY <1>1, <1>4
  <2>2. PlaceInv(room) /\ (\A w : Apart(s, room, w)) /\ c \in ToSet(room.columns) /\ room.op = s.op
        /\ room.moving = s.moving /\ c \in Column
    <3>1. CASE snap[1] = "new"
      <4>1. PICK i \in 1..(Len(s.columns) + 1) : snap = <<"new", i>> /\ FreeColumns(s) # {}
        BY <3>1 DEF Snaps
      <4>2. c \in FreeColumns(s) /\ room = InsertColumn(s, c, i)
        BY <3>1, <4>1
      <4> HIDE DEF c, room
      <4>3. c \in Column /\ c \notin ToSet(s.columns)
        BY <4>2 DEF FreeColumns
      <4> QED
        BY <4>2, <4>3, InsertColumnEffect
    <3>2. CASE snap[1] # "new"
      <4>1. PICK k \in ToSet(s.columns) : snap = <<"column", k>>
        BY <1>4, <3>2 DEF Snaps
      <4>2. c = k /\ room = s
        BY <3>2, <4>1
      <4>3. ToSet(s.columns) \subseteq Column
        BY <1>0 DEF SoType, ToSet
      <4> QED
        BY <4>2, <4>3 DEF Apart
    <3> QED
      BY <3>1, <3>2
  <2> HIDE DEF c, room
  <2>3. SoType(room)
    BY <2>2 DEF PlaceInv
  <2>4. OpInv(room)
    BY <1>4, <2>2, OpKept
  <2>5. /\ DOMAIN placed = SoFields /\ placed.columns = room.columns /\ placed.children = room.children
        /\ placed.floating = room.floating /\ placed.away = room.away /\ placed.moving = room.moving
        /\ placed.target = room.target /\ placed.failed = room.failed
        /\ placed.op = [s.op EXCEPT !.dest = c]
    BY <2>2, <2>3 DEF SoType, SoFields
  <2> HIDE DEF placed
  <2>6. PlaceInv(placed)
    BY <2>2, <2>3, <2>5, QuietEffect DEF SoType
  <2>7. /\ DOMAIN placed.op = DOMAIN NoOp /\ placed.op.window = s.op.window /\ placed.op.kind = "move"
        /\ placed.op.reached = s.op.reached /\ placed.op.dest = c /\ placed.op.hBox = s.op.hBox
        /\ placed.op.vSib = s.op.vSib /\ placed.op.away = s.op.away
    BY <1>0, <2>5 DEF NoOp
  <2>8. OpInv(placed)
    BY <2>2, <2>4, <2>5, <2>7 DEF OpInv, Lives, In
  <2> HIDE DEF t
  <2> QED
    BY <2>1, <2>6, <2>7, <2>8 DEF t
<1> QED
  BY <1>2, <1>3, <1>4

-----------------------------------------------------------------------------
(* Operations of a seat: every step keeps the invariant.                   *)

LEMMA ApartThen ==
  ASSUME NEW s, NEW t, NEW u, NEW w, Apart(s, t, w), Apart(t, u, w)
  PROVE  Apart(s, u, w)
BY DEF Apart

\* A window moves that the operation does not refer to.
LEMMA Relocate ==
  ASSUME NEW s, OpInv(s), NEW w, s.op.window # w, s.op.vSib # w, s.op.dest = NoColumn,
         NEW t, PlaceInv(t), Apart(s, t, w), t.op = s.op, s.moving \ {w} \subseteq t.moving
  PROVE  OpInv(t)
<1>1. OpBut(t, w)
  BY OpHoldsBut, ButKept
<1> QED
  BY <1>1, ButIsAll

\* What the operation does not refer to and no place depends on.
LEMMA TrifleKeeps ==
  ASSUME NEW s, PlaceInv(s), OpInv(s),
         NEW t, DOMAIN t = SoFields, t.columns = s.columns, t.children = s.children,
         t.floating = s.floating, t.away = s.away, t.moving = s.moving,
         DOMAIN t.target = DOMAIN s.target, t.failed = s.failed, t.op = s.op
  PROVE  SoInv(t)
<1>1. SoType(s)
  BY DEF PlaceInv
<1>2. PlaceInv(t)
  BY <1>1, QuietEffect DEF SoType
<1>3. OpInv(t)
  BY OpSame DEF SameOp
<1> QED
  BY <1>2, <1>3 DEF SoInv

LEMMA InitKeeps == ASSUME SeatopInit PROVE SoInv(so)
<1>1. /\ DOMAIN so = SoFields /\ so.columns = StartColumns /\ so.children = StartChildren
      /\ so.floating = Window \ UNION {ToSet(StartChildren[c]) : c \in Column} /\ so.away = {}
      /\ so.moving = {} /\ DOMAIN so.target = Column \cup {NoColumn} /\ so.op = NoOp /\ so.failed = FALSE
  BY DEF SeatopInit, SoFields
<1>2. SoType(so)
  BY <1>1, StartAssumption DEF SoType
<1>3. ASSUME NEW w, NEW c \in Column, In(so, w, c)
      PROVE  /\ c \in ToSet(so.columns) /\ w \notin so.floating /\ w \notin so.away
             /\ \A d \in Column : In(so, w, d) => d = c
  <2>1. w \in ToSet(StartChildren[c])
    BY <1>1, <1>3 DEF In
  <2>2. StartChildren[c] # << >>
    BY <2>1 DEF ToSet
  <2>3. \A d \in Column : In(so, w, d) => d = c
    BY <1>1, <2>1, StartAssumption DEF In
  <2> QED
    BY <1>1, <2>1, <2>2, <2>3, StartAssumption
<1>4. PlaceInv(so)
  BY <1>1, <1>2, <1>3, StartAssumption DEF PlaceInv
<1>5. OpInv(so)
  BY <1>1 DEF OpInv, NoOp
<1> QED
  BY <1>4, <1>5 DEF SoInv

LEMMA SeatopButtonKeeps ==
  ASSUME PlaceInv(so), OpInv(so), NEW pressing \in BOOLEAN, NEW counted \in BOOLEAN, SeatopButton(pressing, counted)
  PROVE  SoInv(so')
<1> DEFINE n == so.buttons
           now == IF ~counted THEN n ELSE IF pressing THEN n + 1 ELSE IF n > 0 THEN n - 1 ELSE n
           s == [so EXCEPT !.buttons = now]
<1>1. CASE so.op.kind = "default"
  <2>1. PICK spot \in Spot(so), button \in {"left", "right"}, mod \in BOOLEAN :
          so' \in DefaultButton(s, pressing, spot, button, mod)
    BY <1>1 DEF SeatopButton
  <2> DEFINE with == s.op.pressed \cup {button}
             bound == IF pressing THEN MouseBinding(with, FALSE, spot.part)
                      ELSE MouseBinding(s.op.pressed, TRUE, spot.part)
             pressed == IF pressing THEN with ELSE s.op.pressed \ {button}
             t == [s EXCEPT !.op.pressed = pressed]
  <2>2. so' = t \/ so' \in DefaultPress(t, spot, button, mod)
    <3>1. so' \in IF bound \/ ~pressing THEN {t} ELSE DefaultPress(t, spot, button, mod)
      BY <2>1 DEF DefaultButton
    <3> HIDE DEF t, bound
    <3> QED
      BY <3>1
  <2> HIDE DEF pressed, now
  <2>3. /\ PlaceInv(t) /\ OpInv(t) /\ \A w : Lives(so, w) <=> Lives(t, w)
        /\ t.away = so.away
    BY PressedKeeps
  <2> HIDE DEF t
  <2>4. SoInv(t)
    BY <2>3 DEF SoInv
  <2>5. \/ spot.window = NoWindow /\ spot.part \in {"workspace", "layer", "unmanaged"}
        \/ /\ spot.window \in Window /\ Lives(so, spot.window) /\ spot.window \notin so.away
           /\ spot.part \in {"titlebar", "contents", "border"}
    BY SpotIs
  <2>6. so' \in DefaultPress(t, spot, button, mod) => SoInv(so')
    BY <2>3, <2>4, <2>5, DefaultPressKeeps
  <2> QED
    BY <2>2, <2>4, <2>6
<1>2. CASE so.op.kind # "default"
  <2>1. so' = ReleaseOp(s)
    BY <1>2 DEF SeatopButton
  <2> HIDE DEF now
  <2>2. PlaceInv(s) /\ OpInv(s)
    BY PressedKeeps
  <2> HIDE DEF s
  <2> QED
    BY <2>1, <2>2, ReleaseOpKeeps
<1> QED
  BY <1>1, <1>2

LEMMA ToolTipKeeps ==
  ASSUME PlaceInv(so), OpInv(so), NEW down \in BOOLEAN, ToolTip(down)
  PROVE  SoInv(so')
<1>0. SoInv(so) /\ SoInv(BeginDefault(so))
  BY BeginKeeps DEF SoInv
<1>1. CASE so.op.kind = "default" /\ down
  <2>1. PICK w \in {p.window : p \in {q \in Spot(so) : q.part # "workspace"}}, mod \in BOOLEAN :
          so' = IF w = NoWindow THEN so
                ELSE IF mod /\ w \notin so.fullscreen THEN BeginMove(so, w) ELSE BeginDown(so, w)
    BY <1>1 DEF ToolTip
  <2>2. w # NoWindow => w \in Window /\ Lives(so, w)
    BY SpotIs
  <2>3. w # NoWindow => SoInv(BeginMove(so, w)) /\ SoInv(BeginDown(so, w))
    BY <2>2, BeginKeeps
  <2> QED
    BY <1>0, <2>1, <2>3
<1>2. CASE so.op.kind = "down" /\ ~down
  BY <1>0, <1>2 DEF ToolTip
<1>3. CASE so.op.kind = "move" /\ ~down
  BY <1>3, FinalizeMoveKeeps DEF ToolTip
<1>4. CASE ~(so.op.kind = "default" /\ down) /\ ~(so.op.kind = "down" /\ ~down) /\ ~(so.op.kind = "move" /\ ~down)
  <2>1. so' = so
    BY <1>4 DEF ToolTip
  <2> QED
    BY <1>0, <2>1
<1> QED
  BY <1>1, <1>2, <1>3, <1>4

LEMMA SeatopMotionKeeps ==
  ASSUME PlaceInv(so), OpInv(so), SeatopMotion
  PROVE  SoInv(so')
<1>0. SoInv(so)
  BY DEF SoInv
<1>1. CASE so.op.kind = "move" /\ ~so.op.reached
  <2>1. so' = DoDetach(so) \/ so' = so
    BY <1>1 DEF SeatopMotion
  <2> QED
    BY <1>0, <1>1, <2>1, DoDetachKeeps
<1>2. CASE so.op.kind = "move" /\ so.op.reached
  <2>1. PICK leaves \in BOOLEAN :
          LET s == IF leaves /\ so.op.dest # NoColumn THEN PostThreshold(so, TRUE, <<"none", NoColumn>>) ELSE so
          IN  IF s.failed THEN so' = s ELSE \E snap \in Snaps(s) : so' = PostThreshold(s, FALSE, snap)
    BY <1>2 DEF SeatopMotion
  <2> DEFINE s == IF leaves /\ so.op.dest # NoColumn THEN PostThreshold(so, TRUE, <<"none", NoColumn>>) ELSE so
  <2>2. <<"none", NoColumn>> \in Snaps(so)
    BY DEF Snaps
  <2>3. LET t == PostThreshold(so, TRUE, <<"none", NoColumn>>)
        IN  PlaceInv(t) /\ OpInv(t) /\ t.op.kind = "move" /\ t.op.reached
    BY <1>2, <2>2, PostThresholdKeeps
  <2>4. PlaceInv(s) /\ OpInv(s) /\ s.op.kind = "move" /\ s.op.reached
    BY <1>2, <2>3
  <2>5. so' = s \/ \E snap \in Snaps(s) : so' = PostThreshold(s, FALSE, snap)
    BY <2>1
  <2> HIDE DEF s
  <2>6. \A snap \in Snaps(s) : SoInv(PostThreshold(s, FALSE, snap))
    BY <2>4, PostThresholdKeeps DEF SoInv
  <2> QED
    BY <2>4, <2>5, <2>6 DEF SoInv
<1>3. CASE so.op.kind \in {"resize tiling", "resize floating"}
  <2>1. so' = ResizeMotion(so)
    BY <1>3 DEF SeatopMotion
  <2>2. Checked(so, ResizeMotion(so))
    BY UnlessChecks DEF ResizeMotion, PlaceInv
  <2> QED
    BY <2>1, <2>2, CheckedEffect DEF SoInv
<1>4. CASE so.op.kind \notin {"move", "resize tiling", "resize floating"}
  <2>1. so' = so
    BY <1>4 DEF SeatopMotion
  <2> QED
    BY <1>0, <2>1
<1> QED
  BY <1>1, <1>2, <1>3, <1>4

\* window_begin_destroy
LEMMA UnmapKeeps ==
  ASSUME PlaceInv(so), OpInv(so), NEW w \in Window, Unmap(w)
  PROVE  SoInv(so')
<1> DEFINE s == Unref(so, w)
           out == Detach(s, w)
           gone == ConsiderDestroy(out, ColumnOf(s, w))
           t == [gone EXCEPT !.fullscreen = @ \ {w}, !.moving = @ \ {w}]
<1>1. /\ PlaceInv(s) /\ OpInv(s) /\ s.op.window # w /\ s.op.vSib # w /\ s.op.dest = NoColumn
  BY OpHoldsBut, UnrefEffect
<1> HIDE DEF s
<1>2. PlaceInv(out) /\ Apart(s, out, w) /\ out.op = s.op /\ out.moving = s.moving
  BY <1>1, DetachEffect
<1> HIDE DEF out
<1>3. PlaceInv(gone) /\ Apart(out, gone, w) /\ gone.op = out.op /\ gone.moving = out.moving
  BY <1>2, ConsiderDestroyEffect
<1> HIDE DEF gone
<1>4. SoType(gone)
  BY <1>3 DEF PlaceInv
<1>5. /\ DOMAIN t = SoFields /\ t.columns = gone.columns /\ t.children = gone.children
      /\ t.floating = gone.floating /\ t.away = gone.away /\ t.moving = gone.moving \ {w}
      /\ t.target = gone.target /\ t.failed = gone.failed /\ t.op = gone.op
  BY <1>4 DEF SoType, SoFields
<1>6. so' = t
  BY DEF Unmap, s, out, gone
<1> HIDE DEF t
<1>7. PlaceInv(t) /\ Apart(gone, t, w)
  BY <1>3, <1>4, <1>5, QuietEffect DEF SoType
<1>8. Apart(s, t, w)
  BY <1>2, <1>3, <1>7, ApartThen
<1>9. OpInv(t)
  BY <1>1, <1>2, <1>3, <1>5, <1>7, <1>8, Relocate
<1> QED
  BY <1>6, <1>7, <1>9 DEF SoInv

\* cmd_move_window: only what has been told of windows that are taken away may refer to one.
LEMMA MoveToWorkspaceKeeps ==
  ASSUME PlaceInv(so), OpInv(so), NEW w \in Window, MoveToWorkspace(w)
  PROVE  SoInv(so')
<1> DEFINE old == ColumnOf(so, w)
           out == Detach(so, w)
           gone == ConsiderDestroy(out, old)
           t == [gone EXCEPT !.floating = IF old = NoColumn THEN @ \cup {w} ELSE @,
                             !.away = @ \cup {w}, !.op.away = @ \/ so.op.kind # "default"]
<1>0. DOMAIN so.op = DOMAIN NoOp /\ w \notin so.away /\ so' = t
  BY DEF OpInv, MoveToWorkspace
<1>1. PlaceInv(out) /\ Apart(so, out, w) /\ ~Lives(out, w) /\ out.op = so.op /\ out.moving = so.moving
  BY DetachEffect
<1> HIDE DEF out
<1>2. /\ PlaceInv(gone) /\ Apart(out, gone, w) /\ gone.op = so.op /\ gone.moving = so.moving
      /\ gone.children = out.children /\ gone.floating = out.floating /\ gone.away = out.away
  BY <1>1, ConsiderDestroyEffect
<1> HIDE DEF gone
<1>3. SoType(gone) /\ \A c \in Column : ~In(gone, w, c)
  BY <1>1, <1>2 DEF PlaceInv, Lives, In
<1>4. w \in so.floating => old = NoColumn
  BY PlaceOf DEF PlaceInv
<1> HIDE DEF old
<1>5. /\ DOMAIN t = SoFields /\ t.columns = gone.columns /\ t.children = gone.children
      /\ t.floating \in {gone.floating, gone.floating \cup {w}} /\ t.away = gone.away \cup {w}
      /\ t.moving = gone.moving /\ t.target = gone.target /\ t.failed = gone.failed
      /\ w \in so.floating => w \in t.floating
      /\ t.op = [so.op EXCEPT !.away = so.op.away \/ so.op.kind # "default"]
  BY <1>2, <1>3, <1>4 DEF SoType, SoFields
<1> HIDE DEF t
<1>6. PlaceInv(t) /\ Apart(gone, t, w)
  BY <1>2, <1>3, <1>5, SettleEffect DEF SoType
<1>7. Apart(so, t, w)
  BY <1>1, <1>2, <1>6, ApartThen
<1>8. /\ DOMAIN t.op = DOMAIN NoOp /\ t.op.window = so.op.window /\ t.op.kind = so.op.kind
      /\ t.op.reached = so.op.reached /\ t.op.dest = so.op.dest /\ t.op.hBox = so.op.hBox /\ t.op.vSib = so.op.vSib
      /\ so.op.kind # "default" => t.op.away
  BY <1>0, <1>5 DEF NoOp
<1>9. w \in t.away /\ t.moving = so.moving
  BY <1>2, <1>5
<1>10. so.op.window # NoWindow => so.op.window \in Window /\ Lives(t, so.op.window)
  BY <1>7, <1>9 DEF OpInv, Apart, Lives
<1>11. so.op.reached => so.op.window \in t.floating
  BY <1>5, <1>7 DEF OpInv, Apart
<1>12. OpInv(t)
  BY <1>8, <1>9, <1>10, <1>11 DEF OpInv
<1> QED
  BY <1>0, <1>6, <1>12 DEF SoInv

\* cmd_floating
LEMMA FloatingKeeps ==
  ASSUME PlaceInv(so), OpInv(so), NEW w \in Window, Floating(w)
  PROVE  SoInv(so')
<1> DEFINE s == Unref(so, w)
           old == ColumnOf(s, w)
           out == Detach(s, w)
           gone == ConsiderDestroy(out, old)
           t == [gone EXCEPT !.floating = @ \cup {w}]
<1>0. so' = t \/ \E c \in ToSet(s.columns) : so' = InsertFirst(out, c, w)
  BY DEF Floating
<1>1. /\ PlaceInv(s) /\ OpInv(s) /\ s.op.window # w /\ s.op.vSib # w /\ s.op.dest = NoColumn
  BY OpHoldsBut, UnrefEffect
<1> HIDE DEF s, old
<1>2. /\ PlaceInv(out) /\ Apart(s, out, w) /\ ~Lives(out, w) /\ out.op = s.op /\ out.moving = s.moving
      /\ out.columns = s.columns
  BY <1>1, DetachEffect
<1> HIDE DEF out
<1>3. CASE so' = t
  <2>1. /\ PlaceInv(gone) /\ Apart(out, gone, w) /\ gone.op = out.op /\ gone.moving = out.moving
        /\ gone.children = out.children
    BY <1>2, ConsiderDestroyEffect
  <2> HIDE DEF gone
  <2>2. SoType(gone) /\ \A c \in Column : ~In(gone, w, c)
    BY <1>2, <2>1 DEF PlaceInv, Lives, In
  <2>3. /\ DOMAIN t = SoFields /\ t.columns = gone.columns /\ t.children = gone.children
        /\ t.floating = gone.floating \cup {w} /\ t.away = gone.away /\ t.moving = gone.moving
        /\ t.target = gone.target /\ t.failed = gone.failed /\ t.op = gone.op
    BY <2>2 DEF SoType, SoFields
  <2> HIDE DEF t
  <2>4. PlaceInv(t) /\ Apart(gone, t, w)
    BY <2>1, <2>2, <2>3, SettleEffect DEF SoType
  <2>5. Apart(s, t, w)
    BY <1>2, <2>1, <2>4, ApartThen
  <2>6. OpInv(t)
    BY <1>1, <1>2, <2>1, <2>3, <2>4, <2>5, Relocate
  <2> QED
    BY <1>3, <2>4, <2>6 DEF SoInv
<1>4. ASSUME NEW c \in ToSet(s.columns), so' = InsertFirst(out, c, w)
      PROVE  SoInv(so')
  <2>1. c \in Column
    BY <1>1 DEF PlaceInv, SoType, ToSet
  <2> DEFINE u == InsertFirst(out, c, w)
  <2>2. PlaceInv(u) /\ Apart(out, u, w) /\ u.op = out.op /\ u.moving = out.moving
    BY <1>2, <2>1, InsertFirstEffect
  <2> HIDE DEF u
  <2>3. Apart(s, u, w)
    BY <1>2, <2>2, ApartThen
  <2>4. OpInv(u)
    BY <1>1, <1>2, <2>2, <2>3, Relocate
  <2> QED
    BY <1>4, <2>2, <2>4 DEF SoInv, u
<1> QED
  BY <1>0, <1>3, <1>4

\* window_fullscreen and window_unfullscreen
LEMMA FullscreenKeeps ==
  ASSUME PlaceInv(so), OpInv(so), NEW w \in Window, Fullscreen(w)
  PROVE  SoInv(so')
<1> DEFINE s == Unref(so, w)
           t == [s EXCEPT !.fullscreen = IF w \in @ THEN @ \ {w} ELSE @ \cup {w}]
<1>1. PlaceInv(s) /\ OpInv(s)
  BY OpHoldsBut, UnrefEffect
<1>2. so' = t
  BY DEF Fullscreen
<1> HIDE DEF s
<1>3. SoType(s)
  BY <1>1 DEF PlaceInv
<1>4. /\ DOMAIN t = SoFields /\ t.columns = s.columns /\ t.children = s.children
      /\ t.floating = s.floating /\ t.away = s.away /\ t.moving = s.moving
      /\ t.target = s.target /\ t.failed = s.failed /\ t.op = s.op
  BY <1>3 DEF SoType, SoFields
<1> HIDE DEF t
<1> QED
  BY <1>1, <1>2, <1>4, TrifleKeeps

\* cmd_move_in_direction: the operation is told of the window when it has moved.
LEMMA MoveInDirectionKeeps ==
  ASSUME PlaceInv(so), OpInv(so), NEW w \in Window, NEW c \in Column, NEW i, MoveInDirection(w, c, i)
  PROVE  SoInv(so')
<1> DEFINE old == ColumnOf(so, w)
           out == Detach(so, w)
           put == [out EXCEPT !.children[c] = InsertAt(@, i, w)]
           gone == ConsiderDestroy(put, old)
<1>0. c \in ToSet(so.columns) /\ i \in {1, Len(out.children[c]) + 1} /\ so' = Unref(gone, w)
  BY DEF MoveInDirection
<1>1. /\ PlaceInv(out) /\ Apart(so, out, w) /\ ~Lives(out, w) /\ out.op = so.op /\ out.moving = so.moving
      /\ out.columns = so.columns
  BY DetachEffect
<1> HIDE DEF out, old
<1>2. i \in 1..(Len(out.children[c]) + 1)
  <2>1. out.children[c] \in Seq(Window)
    BY <1>1 DEF PlaceInv, SoType
  <2> QED
    BY <1>0, <2>1
<1>3. PlaceInv(put) /\ Apart(out, put, w) /\ put.op = out.op /\ put.moving = out.moving
  BY <1>0, <1>1, <1>2, InsertEffect
<1> HIDE DEF put
<1>4. PlaceInv(gone) /\ Apart(put, gone, w) /\ gone.op = put.op /\ gone.moving = put.moving
  BY <1>3, ConsiderDestroyEffect
<1> HIDE DEF gone
<1>5. Apart(so, gone, w)
  BY <1>1, <1>3, <1>4, ApartThen
<1>6. OpBut(gone, w)
  BY <1>1, <1>3, <1>4, <1>5, OpHoldsBut, ButKept
<1>7. PlaceInv(Unref(gone, w)) /\ OpInv(Unref(gone, w))
  BY <1>4, <1>6, UnrefEffect
<1> QED
  BY <1>0, <1>7 DEF SoInv

\* column_arrange
LEMMA ArrangeKeeps ==
  ASSUME PlaceInv(so), OpInv(so), NEW c \in Column, NEW w, Arrange(c, w)
  PROVE  SoInv(so')
<1>1. SoType(so)
  BY DEF PlaceInv
<1>2. so' = [so EXCEPT !.target[c] = w]
  BY DEF Arrange
<1>3. /\ DOMAIN so' = SoFields /\ so'.columns = so.columns /\ so'.children = so.children
      /\ so'.floating = so.floating /\ so'.away = so.away /\ so'.moving = so.moving
      /\ DOMAIN so'.target = DOMAIN so.target /\ so'.failed = so.failed /\ so'.op = so.op
  BY <1>1, <1>2 DEF SoType, SoFields
<1> QED
  BY <1>3, TrifleKeeps

LEMMA SeatopNextKeeps ==
  ASSUME SoInv(so), [SeatopNext]_soVars
  PROVE  SoInv(so')
<1>1. CASE UNCHANGED soVars
  BY <1>1 DEF soVars
<1>2. CASE SeatopNext /\ so.failed
  BY <1>2 DEF SeatopNext, SeatopButton, ToolTip, SeatopMotion, Unmap, MoveToWorkspace, Floating, Fullscreen,
              RequestMove, RequestResize, MoveInDirection, SurfaceDestroyed, Arrange
<1>3. CASE SeatopNext /\ ~so.failed
  <2>1. PlaceInv(so) /\ OpInv(so)
    BY <1>3 DEF SoInv
  <2>2. ASSUME NEW w \in Window, RequestMove(w) PROVE SoInv(so')
    BY <2>1, <2>2, PlaceOf, BeginKeeps, StartAssumption DEF RequestMove
  <2>3. ASSUME NEW w \in Window, RequestResize(w) PROVE SoInv(so')
    BY <2>1, <2>3, BeginKeeps, StartAssumption DEF RequestResize, Lives
  <2>4. ASSUME SurfaceDestroyed PROVE SoInv(so')
    BY <2>1, <2>4, BeginKeeps DEF SurfaceDestroyed
  <2> QED
    BY <1>3, <2>1, <2>2, <2>3, <2>4, SeatopButtonKeeps, ToolTipKeeps, SeatopMotionKeeps, ArrangeKeeps, UnmapKeeps,
       MoveToWorkspaceKeeps, FloatingKeeps, FullscreenKeeps, MoveInDirectionKeeps DEF SeatopNext
<1> QED
  BY <1>1, <1>2, <1>3

\* seatop_*.c: whatever happens to windows, and in whatever order, an operation refers only to
\* windows that live and to columns that are there, but for a window moved to another workspace.
THEOREM OperationsLive == SeatopSpec => []OperationIsLive
<1>1. ASSUME SoInv(so) PROVE OperationIsLive
  <2> SUFFICES ASSUME ~so.failed, PlaceInv(so), OpInv(so) PROVE OperationIsLive
    BY <1>1 DEF SoInv, OperationIsLive
  <2> DEFINE e == so.op
  <2>1. e.window # NoWindow => IsAlive(so, e.window)
    BY PlaceOf DEF OpInv
  <2>2. ASSUME ~e.away, e.hBox # NoColumn \/ e.vSib # NoWindow
        PROVE  /\ e.hBox # NoColumn => IsColumn(so, e.hBox)
               /\ e.vSib # NoWindow => ColumnOf(so, e.vSib) = ColumnOf(so, e.window)
    <3>1. PICK c \in Column : /\ In(so, e.window, c) /\ e.hBox \in {NoColumn, c}
                              /\ e.vSib # NoWindow => e.vSib \in Window /\ In(so, e.vSib, c)
      BY <2>2 DEF OpInv
    <3>2. c \in ToSet(so.columns)
      BY <3>1 DEF PlaceInv
    <3> QED
      BY <3>1, <3>2, PlaceOf DEF IsColumn
  <2>3. e.reached => e.window \in so.floating \cap so.moving
    BY DEF OpInv
  <2>4. ~e.away /\ e.dest # NoColumn => IsColumn(so, e.dest)
    BY DEF OpInv, IsColumn
  <2> QED
    BY <2>1, <2>2, <2>3, <2>4 DEF OperationIsLive
<1>2. SeatopInit => SoInv(so)
  BY InitKeeps
<1>3. SoInv(so) /\ [SeatopNext]_soVars => SoInv(so)'
  BY SeatopNextKeeps
<1> QED
  BY <1>1, <1>2, <1>3, PTL DEF SeatopSpec
=============================================================================

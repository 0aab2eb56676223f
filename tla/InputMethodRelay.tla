------------------------- MODULE InputMethodRelay -------------------------
(***************************************************************************)
(* The keyboard focus of a seat (input/seat.c) and the input method relay  *)
(* that follows it (input/text_input.c).                                   *)
(*                                                                         *)
(* Clients bind text inputs; one input method may be connected to the      *)
(* seat.  A text input is entered when a surface of its client has the     *)
(* focus and an input method is there; until then the surface is pending.  *)
(* What an input method and a text input say to each other (preedit text,  *)
(* surroundings) is left out, but for whether the input method is active.  *)
(*                                                                         *)
(* Modelled from their use: what wlroots keeps of a text input (its        *)
(* focused surface, whether it is enabled), the keyboard focus, and drags, *)
(* during which wlroots ignores changes of the keyboard focus.             *)
(***************************************************************************)
EXTENDS Naturals, SequencesExt

CONSTANTS
  Client,
  Surface,      \* surfaces that can have the root's focus
  LockSurface,  \* surfaces of a session lock: the focus is forced on them
  TextInput,
  Owner,        \* the client of a surface or a text input
  None

AnySurface == Surface \cup LockSurface
Maybe(S) == S \cup {None}

ASSUME OwnerAssumption == Owner \in [AnySurface \cup TextInput -> Client]
ASSUME NoneAssumption == None \notin AnySurface \cup TextInput

VARIABLES
  focusedSurface,  \* seat->focused_surface
  keyboard,        \* the surface wlroots sends keys to
  allowed,         \* the clients that seat_is_input_allowed accepts
  dragging,
  textInputs,      \* relay->text_inputs, the latest first
  pendingFocus,    \* text_input->pending_focused_surface
  entered,         \* text_input->input->focused_surface
  enabled,         \* text_input->input->current_enabled
  inputMethod,     \* relay->input_method is connected
  active,          \* the input method was activated, and not deactivated since
  crashed          \* an assertion of set_focus failed

seatVars == <<focusedSurface, keyboard, allowed, dragging>>
clientVars == <<textInputs, enabled>>
relayVars == <<pendingFocus, entered, inputMethod, active, crashed>>
vars == <<seatVars, clientVars, relayVars>>

RelayTypeOK ==
  /\ focusedSurface \in Maybe(Surface)
  /\ keyboard \in Maybe(AnySurface)
  /\ allowed \subseteq Client
  /\ dragging \in BOOLEAN
  /\ textInputs \in Seq(TextInput) /\ IsInjective(textInputs)
  /\ pendingFocus \in [TextInput -> Maybe(AnySurface)]
  /\ entered \in [TextInput -> Maybe(AnySurface)]
  /\ enabled \subseteq ToSet(textInputs)
  /\ inputMethod \in BOOLEAN
  /\ active \in BOOLEAN
  /\ crashed \in BOOLEAN
  /\ \A t \in TextInput \ ToSet(textInputs) : pendingFocus[t] = None /\ entered[t] = None

Init ==
  /\ focusedSurface = None
  /\ keyboard = None
  /\ allowed = Client
  /\ dragging = FALSE
  /\ textInputs = << >>
  /\ pendingFocus = [t \in TextInput |-> None]
  /\ entered = [t \in TextInput |-> None]
  /\ enabled = {}
  /\ inputMethod = FALSE
  /\ active = FALSE
  /\ crashed = FALSE

-----------------------------------------------------------------------------
(* The relay. *)

\* relay_get_focusable_text_input and relay_get_focused_text_input take the first
\* text input of the list that is in such a set.
IsFirst(t, S) ==
  \E i \in DOMAIN textInputs :
    textInputs[i] = t /\ t \in S /\ \A j \in 1..(i - 1) : textInputs[j] \notin S
Focusable == {t \in ToSet(textInputs) : pendingFocus[t] # None}
Focused == {t \in ToSet(textInputs) : entered[t] # None}

\* The cases of hwd_input_method_relay_set_focus for one text input of the list:
\* it leaves another surface, and it gets the new one, unless it already has it.
Leaves(t, s) == t \in Focused \ Focusable /\ entered[t] # s
Gets(t, s) ==
  /\ t \in ToSet(textInputs) /\ Owner[t] = Owner[s]
  /\ t \in Focusable \/ entered[t] # s

\* Mutant: a surface that is pending stays so when another one gets the focus.
FocusTextInputsKeeping(s) ==
  /\ pendingFocus' = [t \in TextInput |->
                        IF Gets(t, s) /\ ~inputMethod THEN s ELSE pendingFocus[t]]
  /\ entered' = [t \in TextInput |->
                   IF Gets(t, s) /\ inputMethod THEN s
                   ELSE IF Leaves(t, s) THEN None ELSE entered[t]]
  /\ active' = (active /\ \A t \in TextInput : ~Leaves(t, s))

\* Mutant: a text input leaves without being disabled.
FocusTextInputsActive(s) ==
  /\ pendingFocus' = [t \in TextInput |->
                        IF (Gets(t, s) /\ ~inputMethod) \/ pendingFocus[t] = s THEN s ELSE None]
  /\ entered' = [t \in TextInput |->
                   IF Gets(t, s) /\ inputMethod THEN s
                   ELSE IF Leaves(t, s) THEN None ELSE entered[t]]
  /\ UNCHANGED active

FocusTextInputs(s) ==
  /\ pendingFocus' = [t \in TextInput |->
                        IF (Gets(t, s) /\ ~inputMethod) \/ pendingFocus[t] = s THEN s ELSE None]
  /\ entered' = [t \in TextInput |->
                   IF Gets(t, s) /\ inputMethod THEN s
                   ELSE IF Leaves(t, s) THEN None ELSE entered[t]]
  /\ active' = (active /\ \A t \in TextInput : ~Leaves(t, s))

\* hwd_input_method_relay_set_focus.  It asserts of every text input that it is not
\* both focused and pending.
SetFocus(s) ==
  /\ crashed' = (Focusable \cap Focused # {})
  /\ IF crashed' THEN UNCHANGED <<pendingFocus, entered, active>> ELSE FocusTextInputs(s)
  /\ UNCHANGED inputMethod

-----------------------------------------------------------------------------
(* The seat. *)

\* seat_send_focus, when input is allowed; and hwd_force_focus, which does not ask.
\* wlroots ignores the enter while something is dragged.
Enter(s, drag) == keyboard' = (IF drag THEN keyboard ELSE s) /\ SetFocus(s)

\* seat_commit_focus: the root announces that its focus has changed to s.
CommitFocus(s) ==
  LET left == IF focusedSurface # None /\ ~dragging THEN None ELSE keyboard
  IN  /\ ~crashed /\ s # focusedSurface
      /\ focusedSurface' = s
      /\ IF s # None /\ Owner[s] \in allowed
           THEN Enter(s, dragging)
           ELSE keyboard' = left /\ UNCHANGED relayVars
      /\ UNCHANGED <<allowed, dragging, clientVars>>

\* handle_surface_map of lock.c.
ForceFocus(s) ==
  /\ ~crashed /\ allowed = {Owner[s]}
  /\ Enter(s, dragging)
  /\ UNCHANGED <<focusedSurface, allowed, dragging, clientVars>>

\* A session is locked by a client, unlocked, or its lock is abandoned.
LockChanged(clients) ==
  /\ ~crashed
  /\ allowed' = clients
  /\ UNCHANGED <<focusedSurface, keyboard, dragging, clientVars, relayVars>>

StartDrag ==
  /\ ~crashed /\ ~dragging
  /\ dragging' = TRUE
  /\ UNCHANGED <<focusedSurface, keyboard, allowed, clientVars, relayVars>>

\* drag_handle_destroy: the enter that the drag suppressed is sent again.
DragDestroy ==
  /\ ~crashed /\ dragging
  /\ dragging' = FALSE
  /\ IF focusedSurface # None /\ Owner[focusedSurface] \in allowed
       THEN Enter(focusedSurface, FALSE)
       ELSE UNCHANGED <<keyboard, relayVars>>
  /\ UNCHANGED <<focusedSurface, allowed, clientVars>>

-----------------------------------------------------------------------------
(* Input methods and text inputs. *)

\* Mutant: the pending surface is not forgotten once it is entered.
ConnectStillPending ==
  /\ ~crashed /\ ~inputMethod
  /\ inputMethod' = TRUE
  /\ entered' = [t \in TextInput |->
                   IF IsFirst(t, Focusable) THEN pendingFocus[t] ELSE entered[t]]
  /\ UNCHANGED <<seatVars, clientVars, pendingFocus, active, crashed>>

\* relay_handle_input_method; a second input method is refused.
Connect ==
  /\ ~crashed /\ ~inputMethod
  /\ inputMethod' = TRUE
  /\ entered' = [t \in TextInput |->
                   IF IsFirst(t, Focusable) THEN pendingFocus[t] ELSE entered[t]]
  /\ pendingFocus' = [t \in TextInput |->
                        IF IsFirst(t, Focusable) THEN None ELSE pendingFocus[t]]
  /\ UNCHANGED <<seatVars, clientVars, active, crashed>>

\* Mutant: the surface is kept, and the text input does not leave it.
DisconnectStillEntered ==
  /\ ~crashed /\ inputMethod
  /\ inputMethod' = FALSE /\ active' = FALSE
  /\ pendingFocus' = [t \in TextInput |->
                        IF IsFirst(t, Focused) THEN entered[t] ELSE pendingFocus[t]]
  /\ UNCHANGED <<seatVars, clientVars, entered, crashed>>

\* handle_im_destroy
Disconnect ==
  /\ ~crashed /\ inputMethod
  /\ inputMethod' = FALSE /\ active' = FALSE
  /\ pendingFocus' = [t \in TextInput |->
                        IF IsFirst(t, Focused) THEN entered[t] ELSE pendingFocus[t]]
  /\ entered' = [t \in TextInput |-> IF IsFirst(t, Focused) THEN None ELSE entered[t]]
  /\ UNCHANGED <<seatVars, clientVars, crashed>>

\* hwd_text_input_create: at the head of the list, and not told of the focus.
NewTextInput(t) ==
  /\ ~crashed /\ t \notin ToSet(textInputs)
  /\ textInputs' = <<t>> \o textInputs
  /\ UNCHANGED <<seatVars, enabled, relayVars>>

\* handle_text_input_enable, which does not ask whether the text input is focused
Enable(t) ==
  /\ ~crashed /\ t \in ToSet(textInputs) \ enabled
  /\ enabled' = enabled \cup {t}
  /\ active' = (active \/ inputMethod)
  /\ UNCHANGED <<seatVars, textInputs, pendingFocus, entered, inputMethod, crashed>>

\* handle_text_input_disable
Disable(t) ==
  /\ ~crashed /\ t \in enabled
  /\ enabled' = enabled \ {t}
  /\ active' = (active /\ entered[t] = None)
  /\ UNCHANGED <<seatVars, textInputs, pendingFocus, entered, inputMethod, crashed>>

\* Mutant: the listener of the pending surface is left behind.
TextInputDestroyPending(t) ==
  /\ ~crashed
  /\ \E i \in DOMAIN textInputs : textInputs[i] = t /\ textInputs' = RemoveAt(textInputs, i)
  /\ active' = (active /\ t \notin enabled)
  /\ enabled' = enabled \ {t}
  /\ entered' = [entered EXCEPT ![t] = None]
  /\ UNCHANGED <<seatVars, pendingFocus, inputMethod, crashed>>

\* handle_text_input_destroy
TextInputDestroy(t) ==
  /\ ~crashed
  /\ \E i \in DOMAIN textInputs : textInputs[i] = t /\ textInputs' = RemoveAt(textInputs, i)
  /\ active' = (active /\ t \notin enabled)
  /\ enabled' = enabled \ {t}
  /\ pendingFocus' = [pendingFocus EXCEPT ![t] = None]
  /\ entered' = [entered EXCEPT ![t] = None]
  /\ UNCHANGED <<seatVars, inputMethod, crashed>>

\* handle_pending_focused_surface_destroy, and what wlroots drops.  The surface has
\* been unmapped, so that the root's focus is elsewhere.
SurfaceDestroy(s) ==
  /\ ~crashed /\ s # focusedSurface
  /\ pendingFocus' = [t \in TextInput |-> IF pendingFocus[t] = s THEN None ELSE pendingFocus[t]]
  /\ entered' = [t \in TextInput |-> IF entered[t] = s THEN None ELSE entered[t]]
  /\ keyboard' = IF keyboard = s THEN None ELSE keyboard
  /\ UNCHANGED <<focusedSurface, allowed, dragging, clientVars, inputMethod, active, crashed>>

Next ==
  \/ \E s \in Maybe(Surface) : CommitFocus(s)
  \/ \E s \in LockSurface : ForceFocus(s)
  \/ \E clients \in {Client, {}} \cup {{c} : c \in Client} : LockChanged(clients)
  \/ StartDrag
  \/ DragDestroy
  \/ Connect
  \/ Disconnect
  \/ \E t \in TextInput : NewTextInput(t) \/ Enable(t) \/ Disable(t) \/ TextInputDestroy(t)
  \/ \E s \in AnySurface : SurfaceDestroy(s)

Spec == Init /\ [][Next]_vars

-----------------------------------------------------------------------------
(* Properties. *)

\* All text inputs that are focused, or are to be, are so for one surface, and it
\* is one of their own client ("at most one will be focused", text_input.h 16, if
\* every client binds one).
OneTextFocus ==
  /\ \A t, u \in TextInput :
       \A s \in {pendingFocus[t], entered[t]} \ {None} :
         \A r \in {pendingFocus[u], entered[u]} \ {None} : s = r
  /\ \A t \in TextInput :
       \A s \in {pendingFocus[t], entered[t]} \ {None} : Owner[s] = Owner[t]

\* A text input is focused or waits for it, never both: what set_focus asserts of
\* every one of them (text_input.c 331 and 336).
FocusedOrPending == \A t \in TextInput : pendingFocus[t] = None \/ entered[t] = None

\* A text input waits for an input method only while there is none, and is not
\* focused without one, although input methods come and go at any time.
WaitsForInputMethod ==
  \A t \in TextInput : IF inputMethod THEN pendingFocus[t] = None ELSE entered[t] = None

\* An input method does not go on composing for a text input that the focus has
\* left: when one leaves a surface for another, the input method is deactivated.
StopsWithFocus ==
  [][\A s \in Surface : CommitFocus(s) /\ active /\ Owner[s] \in allowed
       /\ (\E t \in Focused : entered[t] # s) => ~active']_vars
=============================================================================

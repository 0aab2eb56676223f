------------------------------ MODULE MCInput ------------------------------
(* Small instances of the input components for TLC.  They share no state,   *)
(* so in a behaviour one of them, part, moves and the others stay as they   *)
(* are at the start: a run checks them all, and its states add up.          *)
EXTENDS InputMethodRelay, Bindings, InputManager, Cursor, SeatFocus

CONSTANTS Parts, editor, locker, e1, e2, l1, lock, te, te2, tl
VARIABLE part

\* Of the relay: an editor with two surfaces, and a session lock.
TwoClients == {editor, locker}
ThreeSurfaces == {e1, e2, l1}
OneLockSurface == {lock}
OnePerClient == {te, tl}
TwoOfOne == {te, te2, tl}
OwnerOf == [x \in {e1, e2, l1, lock, te, te2, tl} \ ({te2} \ TextInput) |->
              IF x \in {e1, e2, te, te2} THEN editor ELSE locker]

\* Of the bindings: for the same key, bindings of a lock, a layout group and a device,
\* with commands that change the list; for two keys, bindings on release.
Binding(keys, input, group, flags, command) ==
  [keys |-> keys, mods |-> {}, input |-> input, group |-> group, flags |-> flags, command |-> command]
ForLock == Binding({"a"}, "*", 0, {"locked"}, "exec")
ForGroup == Binding({"a"}, "*", 1, {"norepeat"}, "reload")
ForDevice == Binding({"a"}, "keyboard", 0, {"inhibited"}, "rebind")
OnRelease == Binding({"a"}, "*", 0, {"release"}, "exec")
Plain == Binding({"a"}, "*", 0, {}, "unbind")
SomeKeyConfigs == {[default |-> <<ForLock, ForGroup, ForDevice>>, other |-> << >>],
                   [default |-> <<OnRelease, Plain>>, other |-> << >>]}
OnSwitch(trigger, flags, command) == [type |-> "lid", trigger |-> trigger, flags |-> flags, command |-> command]
SomeSwitchLines == <<OnSwitch("on", {"reload"}, "exec"), OnSwitch("toggle", {"locked"}, "exec"),
                     OnSwitch("on", {"reload"}, "mode")>>

\* Of the devices: keyboards that a second seat attaches or is the fallback of, with
\* keymaps for all inputs, for a type and for a device; a pointer mapped to an output.
SeatLine(sc) == [kind |-> "seat", sc |-> sc]
InputLine(id, option, value) == [kind |-> "input", ic |-> [NewInput(id) EXCEPT ![option] = value]]
Attach1 == SeatLine([NewSeat("seat1") EXCEPT !.attach = {"k1"}])
Fallback1 == SeatLine([NewSeat("seat1") EXCEPT !.fallback = "yes"])
Ungrouped == SeatLine([NewSeat("*") EXCEPT !.grouping = "none"])
KeyboardsFr == InputLine("keyboard", "keymap", "fr")
SomeFiles == {<<Attach1, InputLine("p", "map", "o")>>, <<Fallback1, KeyboardsFr>>,
              <<Ungrouped, InputLine("*", "keymap", "de"), InputLine("k1", "keymap", "us")>>}
SomeCommands == {Attach1, KeyboardsFr}
TypeOfDevice == [d \in Device |-> IF d = "p" THEN "pointer" ELSE "keyboard"]

\* Of the focus: two clients with a window, of which one has a layer surface, and the
\* client of the lock with a layer surface of its own.
ClientOfSurface ==
  [c \in {"w1", "w2", "l1", "l2", "k"} |-> CASE c = "l1" -> "w1" [] c \in {"l2", "k"} -> "locker" [] OTHER -> c]

-----------------------------------------------------------------------------

One(S) == CHOOSE x \in S : TRUE

MCInit ==
  /\ part \in Parts
  /\ Init /\ BindingsInit /\ IMInit /\ CursorInit /\ FocusInit
  /\ part # "bindings" => file = One(KeyConfigs) /\ ~grouped
  /\ part # "devices" => imFile = One(Files)

MCNext ==
  /\ UNCHANGED part
  /\ \/ part = "relay" /\ Next /\ UNCHANGED <<bindingVars, imVars, cursorVars, focusVars>>
     \/ part = "bindings" /\ BindingsNext /\ UNCHANGED <<vars, imVars, cursorVars, focusVars>>
     \/ part = "devices" /\ IMNext /\ UNCHANGED <<vars, bindingVars, cursorVars, focusVars>>
     \/ part = "cursor" /\ CursorNext /\ UNCHANGED <<vars, bindingVars, imVars, focusVars>>
     \/ part = "focus" /\ FocusNext /\ UNCHANGED <<vars, bindingVars, imVars, cursorVars>>

MCSpec == MCInit /\ [][MCNext]_<<vars, bindingVars, imVars, cursorVars, focusVars, part>>

\* The type invariants of the three components that have one.
InputTypeOK == RelayTypeOK /\ BindingsTypeOK /\ IMTypeOK
=============================================================================

------------------------------ MODULE Bindings ------------------------------
(***************************************************************************)
(* The keys of one keyboard (input/keyboard.c), the bindings they run      *)
(* (commands/bind.c, commands/mode.c), the switches of the seat            *)
(* (input/switch.c), and the reload that replaces all bindings (config.c). *)
(*                                                                         *)
(* A key event updates the shortcut state, runs at most one binding, and   *)
(* is otherwise sent to the keyboard grab of an input method or to the     *)
(* focused client.  A binding is a record; the keyboard refers to the one  *)
(* that runs on release and to the one that repeats, and such a reference  *)
(* says whether the binding it points to has been freed.                   *)
(*                                                                         *)
(* Of the three shortcut states the one of keycodes stands for all, so     *)
(* that key ids are keys and pressed_keys is a set.  Modelled from their   *)
(* use: what wlroots takes a client to hold down, and the grab.            *)
(***************************************************************************)
EXTENDS Naturals, FiniteSets, SequencesExt

CONSTANTS
  Key,
  Modifier,    \* the keys that are modifiers
  VtKey,       \* the keys that switch to another virtual terminal
  KeysCap,     \* HWD_KEYBOARD_PRESSED_KEYS_CAP
  RepeatRate,  \* of the input configuration, 0 if keys do not repeat
  KeyConfigs,  \* what the file may bind: [mode -> sequence of bindings]
  SwitchLines  \* the bindswitch lines of the file

ASSUME KeyAssumption == Modifier \cup VtKey \subseteq Key
ASSUME RateAssumption == RepeatRate \in Nat /\ KeysCap \in Nat

NoBinding == [command |-> "none"]
NoRef == [binding |-> NoBinding, memory |-> "live"]
Ref(b) == [binding |-> b, memory |-> "live"]
Mode == {"default", "other"}
Flag == {"release", "locked", "inhibited", "norepeat"}
CommandName == {"exec", "mode", "reload", "unbind", "rebind"}
KeyBinding == [keys : SUBSET Key, mods : SUBSET Modifier, input : STRING, group : Nat,
               flags : SUBSET Flag, command : CommandName]
ASSUME FileAssumption == KeyConfigs \subseteq [Mode -> Seq(KeyBinding)]

VARIABLES
  down,            \* the keys that are physically down
  shortcut,        \* keyboard->state_keycodes
  pressedSent,     \* the keys of keyboard->state_pressed_sent
  clientDown,      \* the keys that clients were told are down, not yet that they are up
  overflowed,      \* keys of clientDown that were not recorded: the list was full
  held,            \* keyboard->held_binding
  repeat,          \* keyboard->repeat_binding
  repeatTimer,     \* keyboard->key_repeat_source is armed
  modes,           \* config->modes: the key bindings of each
  mode,            \* config->current_mode
  switch,          \* the type and the state of a switch, as far as they are known
  file,            \* the key bindings in the configuration file
  reloading,       \* an idle callback will reload the configuration
  inputInhibited,  \* an exclusive client or a session lock
  shortcutsInhibited, grab, \* the focused client's inhibitor; an input method's grab
  grouped,         \* the keyboard is a member of a keyboard group
  usedFreed        \* a binding was used after it had been freed

keyVars == <<down, shortcut, pressedSent, clientDown, overflowed, held, repeat, repeatTimer>>
configVars == <<modes, mode, switch, file, reloading>>
seatKeyVars == <<inputInhibited, shortcutsInhibited, grab, grouped>>
bindingVars == <<keyVars, configVars, seatKeyVars, usedFreed>>

BindingsTypeOK ==
  /\ down \subseteq Key /\ overflowed \subseteq Key
  /\ shortcut.pressed \subseteq Key /\ pressedSent \subseteq Key /\ clientDown \subseteq Key
  /\ Cardinality(shortcut.pressed) <= KeysCap /\ Cardinality(pressedSent) <= KeysCap
  /\ shortcut.mods \subseteq Modifier
  /\ mode \in Mode /\ DOMAIN modes = Mode
  /\ \A m \in Mode : \A i \in DOMAIN modes[m] : modes[m][i].flags \subseteq Flag
  /\ repeatTimer => repeat # NoRef
  /\ {reloading, inputInhibited, shortcutsInhibited, grab, grouped, usedFreed} \subseteq BOOLEAN

-----------------------------------------------------------------------------
(* Lists of bindings. *)

\* binding_key_compare: everything but the command, and the flags that do not
\* generate conflicts.
SameTrigger(a, b) ==
  /\ a.keys = b.keys /\ a.mods = b.mods /\ a.input = b.input /\ a.group = b.group
  /\ a.flags \ {"norepeat"} = b.flags \ {"norepeat"}

\* binding_upsert
Upsert(list, b) ==
  LET same == {i \in DOMAIN list : SameTrigger(list[i], b)}
  IN  IF same = {} THEN Append(list, b)
      ELSE [list EXCEPT ![CHOOSE i \in same : \A j \in same : i <= j] = b]

\* The bindings of a file, which cmd_bindsym_or_bindcode adds line by line.
Loaded(f) == [m \in Mode |-> FoldLeft(Upsert, << >>, f[m])]

\* binding_switch_compare
SameSwitch(a, b) ==
  a.type = b.type /\ a.trigger = b.trigger /\ ("locked" \in a.flags) = ("locked" \in b.flags)

\* cmd_bind_or_unbind_switch and switch_binding_add, line by line
SwitchBindings ==
  LET Add(list, b) ==
        IF \E i \in DOMAIN list : SameSwitch(list[i], b)
        THEN [i \in DOMAIN list |-> IF SameSwitch(list[i], b) THEN b ELSE list[i]]
        ELSE Append(list, b)
  IN  FoldLeft(Add, << >>, SwitchLines)

-----------------------------------------------------------------------------
(* The shortcut state. *)

\* state_erase_key
EraseKey(s, k) == [s EXCEPT !.pressed = @ \ {k}, !.current = "none"]

\* state_add_key
AddKey(s, k) ==
  IF Cardinality(s.pressed) >= KeysCap THEN s
  ELSE [s EXCEPT !.pressed = @ \cup {k}, !.current = k]

\* update_shortcut_state
UpdateShortcut(s, k, pressing, mods) ==
  LET clean == IF mods # s.mods /\ s.last # "none" THEN EraseKey(s, s.last) ELSE s
      seen == [clean EXCEPT !.mods = mods]
  IN  IF pressing THEN [AddKey(seen, k) EXCEPT !.last = k] ELSE EraseKey(seen, k)

-----------------------------------------------------------------------------
(* get_active_binding. *)

\* A binding that the state, the modifiers and the locks allow.  The keyboard is
\* the device "keyboard", in the layout group 1; group 0 stands for none.
Matches(b, s, mods, release) ==
  /\ b.mods = mods
  /\ ("release" \in b.flags) = release
  /\ inputInhibited => "locked" \in b.flags
  /\ shortcutsInhibited => "inhibited" \in b.flags
  /\ b.group \in {0, 1}
  /\ b.input = "keyboard" \/ (b.input = "*" /\ ~grouped)
  /\ IF Cardinality(s.pressed) = Cardinality(b.keys) THEN s.pressed = b.keys
     ELSE b.keys = {s.current}

\* Mutant: the layout group is preferred before the device.
KeepsGroupFirst(c, b) ==
  LET Has(x, f) == f \in x.flags
  IN  \/ c.group = 1
      \/ c.input = "keyboard" /\ b.input = "*"
      \/ c.input = b.input /\ (c.group = 0) = (b.group = 0) /\ Has(c, "locked") = inputInhibited

\* The current match c is kept and b, which matches too, is passed over: one rule
\* for each "continue".
Keeps(c, b) ==
  LET Has(x, f) == f \in x.flags
      sameInput == c.input = b.input
      sameGroupSet == (c.group = 0) = (b.group = 0)
  IN  \/ /\ sameInput /\ sameGroupSet
         /\ Has(c, "locked") = Has(b, "locked") /\ Has(c, "inhibited") = Has(b, "inhibited")
      \/ c.input = "keyboard" /\ b.input = "*"
      \/ sameInput /\ c.group = 1
      \/ sameInput /\ sameGroupSet /\ Has(c, "locked") = inputInhibited
      \/ /\ sameInput /\ sameGroupSet /\ Has(c, "locked") = Has(b, "locked")
         /\ Has(c, "inhibited") = shortcutsInhibited

\* The perfect match that ends the search would be kept to its end.
ActiveBinding(s, mods, release) ==
  FoldLeft(LAMBDA c, b : IF Matches(b, s, mods, release) /\ (c = NoBinding \/ ~Keeps(c, b))
                         THEN b ELSE c,
           NoBinding, modes[mode])

-----------------------------------------------------------------------------
(* Commands. *)

\* What is left of a reference when the bindings in freed are freed.
Freed(ref, freed, memory) ==
  IF ref # NoRef /\ ref.memory = "live" /\ ref.binding \in freed
  THEN [ref EXCEPT !.memory = memory] ELSE ref

\* cmd_mode, of a mode that exists
CmdMode(command) == IF command = "mode" THEN "other" ELSE mode

\* The commands that bindings run, with the references as they are when it is called.
\* "unbind" (binding_remove) and "rebind" (binding_add, with another command) name
\* some binding of the current mode; nothing happens if there is none.
Execute(command, h, r) ==
  LET list == modes[mode]
      Change(i, new) ==
        /\ modes' = [modes EXCEPT ![mode] = new]
        /\ held' = Freed(h, {list[i]}, "unbound")
        /\ repeat' = Freed(r, {list[i]}, "unbound")
  IN  /\ mode' = CmdMode(command)
      /\ reloading' = (reloading \/ command = "reload")
      /\ CASE command = "unbind" /\ list # << >> ->
                \E i \in DOMAIN list : Change(i, RemoveAt(list, i))
           [] command = "rebind" /\ list # << >> ->
                \E i \in DOMAIN list : Change(i, Upsert(list, [list[i] EXCEPT !.command = "exec"]))
           [] OTHER -> modes' = modes /\ held' = h /\ repeat' = r

\* seat_execute_command: a binding that a reference points to is run; once it has been
\* freed, anything may happen, and the model stops.
ExecuteRef(ref, h, r) ==
  IF ref.memory = "live" THEN Execute(ref.binding.command, h, r) /\ UNCHANGED usedFreed
  ELSE /\ usedFreed' = TRUE /\ held' = h /\ repeat' = r /\ UNCHANGED <<modes, mode, reloading>>

-----------------------------------------------------------------------------
(* Events. *)

\* Mutant: the release of a key that a binding handles is kept from the client.
SendKeyUnlessHandled(k, pressing, handled) ==
  LET consumed == handled \/ (pressing /\ k \in VtKey)
      full == Cardinality(pressedSent) >= KeysCap
  IN  /\ pressedSent' = IF ~pressing THEN pressedSent \ {k}
                        ELSE IF consumed \/ grab \/ full THEN pressedSent
                        ELSE pressedSent \cup {k}
      /\ clientDown' = IF ~pressing /\ k \in pressedSent /\ ~handled THEN clientDown \ {k}
                       ELSE IF pressing /\ ~consumed /\ ~grab THEN clientDown \cup {k}
                       ELSE clientDown
      /\ overflowed' = IF pressing /\ ~consumed /\ ~grab /\ full
                       THEN overflowed \cup {k} ELSE overflowed

\* The end of handle_key_event: a release goes to the client if its press did, other
\* events that nothing has handled to the grab, or else presses to the client.
SendKey(k, pressing, handled) ==
  LET consumed == handled \/ (pressing /\ k \in VtKey)
      full == Cardinality(pressedSent) >= KeysCap
  IN  /\ pressedSent' = IF ~pressing THEN pressedSent \ {k}
                        ELSE IF consumed \/ grab \/ full THEN pressedSent
                        ELSE pressedSent \cup {k}
      /\ clientDown' = IF ~pressing /\ k \in pressedSent THEN clientDown \ {k}
                       ELSE IF pressing /\ ~consumed /\ ~grab THEN clientDown \cup {k}
                       ELSE clientDown
      /\ overflowed' = IF pressing /\ ~consumed /\ ~grab /\ full
                       THEN overflowed \cup {k} ELSE overflowed

\* handle_key_event.  wlroots reports a key before it updates the modifiers.
HandleKeyEvent(k, pressing) ==
  LET mods == down \cap Modifier
      s == UpdateShortcut(shortcut, k, pressing, mods)
      released == ActiveBinding(s, mods, TRUE)
      binding == IF pressing THEN ActiveBinding(s, mods, FALSE) ELSE NoBinding
      isHeld == held # NoRef /\ held = Ref(released)
      heldNow == IF pressing /\ released # NoBinding THEN Ref(released)
                 ELSE IF isHeld THEN held ELSE NoRef
      runsHeld == ~pressing /\ held # NoRef /\ ~isHeld
      repeats == binding # NoBinding /\ "norepeat" \notin binding.flags
      repeatNow == IF repeats THEN Ref(binding) ELSE NoRef
      handled == runsHeld \/ binding # NoBinding
  IN  /\ shortcut' = s
      /\ repeatTimer' = repeats
      /\ IF runsHeld THEN ExecuteRef(held, heldNow, repeatNow)
         ELSE IF binding # NoBinding THEN ExecuteRef(Ref(binding), heldNow, repeatNow)
         ELSE held' = heldNow /\ repeat' = repeatNow /\ UNCHANGED <<modes, mode, reloading, usedFreed>>
      /\ IF grouped /\ ~handled THEN UNCHANGED <<pressedSent, clientDown, overflowed>>
         ELSE SendKey(k, pressing, handled)
      /\ UNCHANGED <<switch, file, seatKeyVars>>

PressKey(k) == ~usedFreed /\ k \notin down /\ down' = down \cup {k} /\ HandleKeyEvent(k, TRUE)
ReleaseKey(k) == ~usedFreed /\ k \in down /\ down' = down \ {k} /\ HandleKeyEvent(k, FALSE)

\* handle_keyboard_repeat: the next event is queued before the command runs.
KeyboardRepeat ==
  /\ ~usedFreed /\ repeatTimer
  /\ repeatTimer' = (RepeatRate > 0)
  /\ ExecuteRef(repeat, held, repeat)
  /\ UNCHANGED <<down, shortcut, pressedSent, clientDown, overflowed, switch, file, seatKeyVars>>

\* execute_binding of a switch: the last binding that applies, unless an earlier one
\* is made for the lock as it is.
SwitchBinding(sw, reload) ==
  LET Applies(b) ==
        /\ b.type = sw.type /\ b.trigger \in {sw.state, "toggle"}
        /\ reload => b.trigger # "toggle" /\ "reload" \in b.flags
        /\ inputInhibited => "locked" \in b.flags
      some == SelectSeq(SwitchBindings, Applies)
      exact == SelectSeq(some, LAMBDA b : ("locked" \in b.flags) = inputInhibited)
  IN  IF some = << >> THEN NoBinding ELSE IF exact = << >> THEN Last(some) ELSE Head(exact)

\* handle_switch_toggle
SwitchToggle(type, state) ==
  /\ ~usedFreed
  /\ switch' = [type |-> type, state |-> state]
  /\ Execute(SwitchBinding(switch', FALSE).command, held, repeat)
  /\ UNCHANGED <<down, shortcut, pressedSent, clientDown, overflowed, repeatTimer, file,
                 seatKeyVars, usedFreed>>

\* do_reload, load_main_config and free_config: the inputs are reset, which disarms
\* the repeat timer, the file is read, switches are triggered again, and the old
\* bindings are freed.
DoReload ==
  LET retriggered == SwitchBinding(switch, TRUE).command
  IN  /\ ~usedFreed /\ reloading
      /\ modes' = Loaded(file)
      /\ mode' = IF retriggered = "mode" THEN "other" ELSE "default"
      /\ held' = Freed(held, {held.binding}, "reloaded")
      /\ repeat' = NoRef
      /\ repeatTimer' = FALSE
      /\ reloading' = FALSE
      /\ UNCHANGED <<down, shortcut, pressedSent, clientDown, overflowed, switch, file,
                     seatKeyVars, usedFreed>>

\* Locks, inhibitors and grabs come and go.
SeatChanges ==
  /\ ~usedFreed
  /\ \/ inputInhibited' = ~inputInhibited /\ UNCHANGED <<shortcutsInhibited, grab>>
     \/ shortcutsInhibited' = ~shortcutsInhibited /\ UNCHANGED <<inputInhibited, grab>>
     \/ grab' = ~grab /\ UNCHANGED <<inputInhibited, shortcutsInhibited>>
  /\ UNCHANGED <<keyVars, configVars, grouped, usedFreed>>

BindingsInit ==
  /\ down = {}
  /\ shortcut = [pressed |-> {}, current |-> "none", last |-> "none", mods |-> {}]
  /\ pressedSent = {} /\ clientDown = {} /\ overflowed = {}
  /\ held = NoRef /\ repeat = NoRef /\ repeatTimer = FALSE
  /\ file \in KeyConfigs
  /\ modes = Loaded(file)
  /\ mode = "default"
  /\ switch = [type |-> "lid", state |-> "off"]
  /\ reloading = FALSE
  /\ inputInhibited = FALSE /\ shortcutsInhibited = FALSE /\ grab = FALSE
  /\ grouped \in BOOLEAN
  /\ usedFreed = FALSE

BindingsNext ==
  \/ \E k \in Key : PressKey(k) \/ ReleaseKey(k)
  \/ KeyboardRepeat
  \/ \E type \in {"lid", "tablet"}, state \in {"on", "off"} : SwitchToggle(type, state)
  \/ DoReload
  \/ SeatChanges

BindingsSpec == BindingsInit /\ [][BindingsNext]_bindingVars

-----------------------------------------------------------------------------
(* Properties. *)

\* Whatever bindings, grabs and full lists do to the events in between, a client
\* is told that a key is up when it was told that it is down; a key stays down for
\* it only if the list of pressed keys was full ("also send the released event",
\* keyboard.c 588).
ClientKeysAreDown ==
  /\ pressedSent \subseteq down \cap clientDown
  /\ clientDown \subseteq pressedSent \cup overflowed

\* Of the bindings that match, no other one is more specific than the one that
\* runs: first the device, then the layout group, then the lock decides (the
\* comments of keyboard.c 305 to 320).
BestBindingRuns ==
  \A release \in BOOLEAN, mods \in SUBSET Modifier :
    LET Rank(b) == <<b.input = "keyboard", b.group = 1, ("locked" \in b.flags) = inputInhibited>>
        Below(p, q) == \E n \in 1..3 : ~p[n] /\ q[n] /\ \A m \in 1..(n - 1) : p[m] = q[m]
        candidates == {b \in ToSet(modes[mode]) : Matches(b, shortcut, mods, release)}
        best == ActiveBinding(shortcut, mods, release)
    IN  IF candidates = {} THEN best = NoBinding
        ELSE best \in candidates /\ \A b \in candidates : ~Below(Rank(best), Rank(b))

\* No binding is used after it has been freed ("to avoid use-after-frees we
\* schedule the reload to happen using an idle event", reload.c 52).
NoFreedBinding == ~usedFreed
=============================================================================

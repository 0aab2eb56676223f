--------------------------- MODULE BindingsProofs ---------------------------
(***************************************************************************)
(* Proofs about the keys of a keyboard and their bindings, for every set   *)
(* of keys, size of the lists and configuration file.                      *)
(***************************************************************************)
EXTENDS Bindings, DataTheorems, SequenceTheorems

-----------------------------------------------------------------------------
(* The inductive invariant. *)

\* A key that a client holds down is one whose release will be sent, or one that the full
\* list forgot; a member of a keyboard group sends nothing.
KeysInv ==
  /\ pressedSent \subseteq down \cap clientDown
  /\ clientDown \subseteq pressedSent \cup overflowed
  /\ grouped => clientDown = {}

Shortcut == [pressed : SUBSET Key, current : Key \cup {"none"}, last : Key \cup {"none"}, mods : SUBSET Modifier]
\* Both lists of pressed keys stay within HWD_KEYBOARD_PRESSED_KEYS_CAP.
Fits(S) == IsFiniteSet(S) /\ Cardinality(S) <= KeysCap
ListsInv ==
  /\ down \subseteq Key /\ clientDown \subseteq Key /\ overflowed \subseteq Key /\ pressedSent \subseteq Key
  /\ shortcut \in Shortcut
  /\ Fits(shortcut.pressed) /\ Fits(pressedSent)

\* Every list of bindings is made of bindings of the file.
ModesInv ==
  /\ file \in KeyConfigs /\ mode \in Mode
  /\ modes \in [Mode -> Seq(KeyBinding)]

FlagsInv ==
  /\ repeatTimer => repeat # NoRef
  /\ {reloading, inputInhibited, shortcutsInhibited, grab, grouped, usedFreed} \subseteq BOOLEAN

BInv == KeysInv /\ ListsInv /\ ModesInv /\ FlagsInv

-----------------------------------------------------------------------------
(* Lists of bindings. *)

\* binding_upsert makes a list of bindings of one.
LEMMA UpsertType ==
  ASSUME NEW list \in Seq(KeyBinding), NEW b \in KeyBinding
  PROVE  Upsert(list, b) \in Seq(KeyBinding)
<1> DEFINE same == {i \in DOMAIN list : SameTrigger(list[i], b)}
           first == CHOOSE i \in same : \A j \in same : i <= j
<1>1. CASE same = {}
  BY <1>1 DEF Upsert
<1>2. CASE same # {}
  <2>1. Upsert(list, b) = [list EXCEPT ![first] = b]
    BY <1>2 DEF Upsert
  <2>2. DOMAIN list = 1..Len(list) /\ Len(list) \in Nat /\ list \in [1..Len(list) -> KeyBinding]
    OBVIOUS
  <2> HIDE DEF first
  <2>3. [list EXCEPT ![first] = b] \in [1..Len(list) -> KeyBinding]
    BY <2>2
  <2> QED
    BY <2>1, <2>2, <2>3
<1> QED
  BY <1>1, <1>2

\* binding_remove
LEMMA RemoveType ==
  ASSUME NEW list \in Seq(KeyBinding), NEW i \in DOMAIN list
  PROVE  RemoveAt(list, i) \in Seq(KeyBinding)
<1>1. i \in 1..Len(list) /\ Len(list) \in Nat
  OBVIOUS
<1>2. \A j \in 1..(i - 1) : list[j] \in KeyBinding
  BY <1>1
<1>3. \A j \in (i + 1)..Len(list) : list[j] \in KeyBinding
  BY <1>1
<1>4. SubSeq(list, 1, i - 1) \in Seq(KeyBinding)
  BY <1>1, <1>2, SubSeqProperties
<1>5. SubSeq(list, i + 1, Len(list)) \in Seq(KeyBinding)
  BY <1>1, <1>3, SubSeqProperties
<1> QED
  BY <1>4, <1>5 DEF RemoveAt

\* What FoldLeft picks from a set of places in a list is one of them.
LEMMA LastPlace ==
  ASSUME NEW S, NEW list \in Seq(S), NEW z \in SUBSET DOMAIN list, z # {}
  PROVE  Max(z) \in z
<1>1. z \in SUBSET Int /\ IsFiniteSet(z)
  <2>1. DOMAIN list = 1..Len(list) /\ Len(list) \in Nat
    OBVIOUS
  <2>2. IsFiniteSet(1..Len(list))
    BY <2>1, FS_Interval
  <2> QED
    BY <2>1, <2>2, FS_Subset
<1>2. \E n \in z : \A m \in z : n >= m
  BY <1>1, LargestNumber
<1> QED
  BY <1>2 DEF Max

\* The places in a list, and the pick of FoldLeft as a function on them.
LEMMA Places ==
  ASSUME NEW S, NEW list \in Seq(S)
  PROVE  LET D == DOMAIN list
             pick == [z \in SUBSET D |-> Max(z)]
         IN  IsFiniteSet(D) /\ \A z \in SUBSET D : z # {} => pick[z] = Max(z) /\ pick[z] \in z
<1>1. DOMAIN list = 1..Len(list) /\ Len(list) \in Nat
  OBVIOUS
<1>2. IsFiniteSet(DOMAIN list)
  BY <1>1, FS_Interval
<1> QED
  BY <1>2, LastPlace

\* The bindings of a file make lists of bindings, whatever lines replace others.
LEMMA LoadedType ==
  ASSUME NEW list \in Seq(KeyBinding)
  PROVE  FoldLeft(Upsert, << >>, list) \in Seq(KeyBinding)
<1> DEFINE D == DOMAIN list
           T == Seq(KeyBinding)
           Step(iter) == [z \in SUBSET D |->
                            IF z = {} THEN << >> ELSE Upsert(iter[z \ {Max(z)}], list[Max(z)])]
           op == [p \in D \X T |-> Upsert(p[2], list[p[1]])]
           pick == [z \in SUBSET D |-> Max(z)]
           chosen == CHOOSE iter : iter = Step(iter)
           G == {z \in SUBSET D : chosen[z] \in T}
<1>1. FoldLeft(Upsert, << >>, list) = chosen[D]
  BY DEF FoldLeft, MapThenFoldSet
<1>2. IsFiniteSet(D) /\ \A z \in SUBSET D : z # {} => pick[z] = Max(z) /\ pick[z] \in z
  BY Places
<1>3. \A i \in D, t \in T : Upsert(t, list[i]) \in T
  BY UpsertType
<1>4. op \in [D \X T -> T] /\ << >> \in T
  BY <1>3
<1>5. \E f \in [SUBSET D -> T] : IsFold(f, D, << >>, op, pick)
  <2>1. IsPick(pick, D)
    BY <1>2 DEF IsPick
  <2> HIDE DEF op, pick, D, T
  <2> QED
    BY <1>2, <1>4, <2>1, RecursionOnSubsets
<1>6. \E iter : iter = Step(iter)
  <2>1. PICK f \in [SUBSET D -> T] : \A z \in SUBSET D :
          f[z] = IF z = {} THEN << >> ELSE op[<<pick[z], f[z \ {pick[z]}]>>]
    BY <1>5 DEF IsFold
  <2>2. ASSUME NEW z \in SUBSET D, z # {} PROVE f[z] = Upsert(f[z \ {Max(z)}], list[Max(z)])
    <3>1. pick[z] = Max(z) /\ Max(z) \in D /\ f[z \ {Max(z)}] \in T
      BY <1>2, <2>2
    <3> QED
      BY <2>1, <2>2, <3>1
  <2>3. f = Step(f)
    BY <2>1, <2>2
  <2> QED
    BY <2>3
<1>7. chosen = Step(chosen)
  BY <1>6
<1>8. \A z \in SUBSET D : chosen[z] = IF z = {} THEN << >> ELSE Upsert(chosen[z \ {Max(z)}], list[Max(z)])
  BY <1>7
<1> HIDE DEF chosen
<1>9. D \in G
  <2>1. G \in SUBSET SUBSET D /\ {} \in G
    <3>1. chosen[{}] = << >>
      BY <1>8
    <3> QED
      BY <1>4, <3>1
  <2>2. ASSUME NEW z \in SUBSET D, z # {}
        PROVE  \E x \in z : z \ {x} \in G => z \in G
    <3>1. Max(z) \in z
      BY <1>2, <2>2
    <3>2. z \ {Max(z)} \in G => z \in G
      BY <1>3, <1>8, <2>2, <3>1
    <3> QED
      BY <3>1, <3>2
  <2> HIDE DEF G, D
  <2> QED
    BY <1>2, <2>1, <2>2, SubsetInduction
<1> QED
  BY <1>1, <1>9

-----------------------------------------------------------------------------
(* Steps that several events have in common. *)

\* A reference to a binding does not get lost when the binding is freed.
LEMMA FreedIsNoted ==
  ASSUME NEW ref, NEW freed, NEW memory, memory # "live", ref # NoRef
  PROVE  Freed(ref, freed, memory) # NoRef
<1>1. [ref EXCEPT !.memory = memory] # NoRef
  BY DEF NoRef
<1> QED
  BY <1>1 DEF Freed

\* A command leaves lists of bindings, a mode that exists, and the binding that repeats,
\* which may have been freed.
LEMMA ExecuteKeeps ==
  ASSUME ModesInv, FlagsInv, NEW command, NEW h, NEW r, Execute(command, h, r)
  PROVE  /\ modes' \in [Mode -> Seq(KeyBinding)] /\ mode' \in Mode /\ reloading' \in BOOLEAN
         /\ r # NoRef => repeat' # NoRef
<1> DEFINE list == modes[mode]
           Change(i, new) ==
             /\ modes' = [modes EXCEPT ![mode] = new]
             /\ held' = Freed(h, {list[i]}, "unbound")
             /\ repeat' = Freed(r, {list[i]}, "unbound")
<1>1. list \in Seq(KeyBinding)
  BY DEF ModesInv
<1>2. mode' \in Mode /\ reloading' \in BOOLEAN
  BY DEF Execute, ModesInv, FlagsInv, CmdMode, Mode
<1>3. \/ \E i \in DOMAIN list : Change(i, RemoveAt(list, i))
      \/ \E i \in DOMAIN list : Change(i, Upsert(list, [list[i] EXCEPT !.command = "exec"]))
      \/ modes' = modes /\ held' = h /\ repeat' = r
  BY DEF Execute
<1>4. ASSUME NEW i \in DOMAIN list, NEW new \in Seq(KeyBinding), Change(i, new)
      PROVE  modes' \in [Mode -> Seq(KeyBinding)] /\ (r # NoRef => repeat' # NoRef)
  <2>1. modes' \in [Mode -> Seq(KeyBinding)]
    BY <1>4 DEF ModesInv
  <2>2. r # NoRef => repeat' # NoRef
    BY <1>4, FreedIsNoted
  <2> QED
    BY <2>1, <2>2
<1>5. ASSUME NEW i \in DOMAIN list
      PROVE  Upsert(list, [list[i] EXCEPT !.command = "exec"]) \in Seq(KeyBinding)
  <2>1. list[i] \in KeyBinding
    BY <1>1
  <2>2. \A b \in KeyBinding : [b EXCEPT !.command = "exec"] \in KeyBinding
    BY DEF KeyBinding, CommandName
  <2> QED
    BY <1>1, <2>1, <2>2, UpsertType
<1>6. \A i \in DOMAIN list : RemoveAt(list, i) \in Seq(KeyBinding)
  BY <1>1, RemoveType
<1> HIDE DEF list, Change
<1>7. modes' \in [Mode -> Seq(KeyBinding)] /\ (r # NoRef => repeat' # NoRef)
  <2>1. CASE modes' = modes /\ held' = h /\ repeat' = r
    BY <2>1 DEF ModesInv
  <2> QED
    BY <1>3, <1>4, <1>5, <1>6, <2>1
<1> QED
  BY <1>2, <1>7

\* A binding that has been freed does nothing more to the lists.
LEMMA ExecuteRefKeeps ==
  ASSUME ModesInv, FlagsInv, NEW ref, NEW h, NEW r, ExecuteRef(ref, h, r)
  PROVE  /\ modes' \in [Mode -> Seq(KeyBinding)] /\ mode' \in Mode /\ reloading' \in BOOLEAN
         /\ r # NoRef => repeat' # NoRef
         /\ usedFreed' \in BOOLEAN
<1>1. CASE ref.memory = "live"
  <2>1. Execute(ref.binding.command, h, r) /\ usedFreed' = usedFreed
    BY <1>1 DEF ExecuteRef
  <2>2. usedFreed \in BOOLEAN
    BY DEF FlagsInv
  <2> QED
    BY <2>1, <2>2, ExecuteKeeps
<1>2. CASE ref.memory # "live"
  BY <1>2 DEF ExecuteRef, ModesInv, FlagsInv
<1> QED
  BY <1>1, <1>2

\* A list of pressed keys stays within its bound when a key is left out of it, and when one
\* is added while there is room.
LEMMA ListFits ==
  ASSUME NEW S, Fits(S), NEW k
  PROVE  /\ Fits(S \ {k})
         /\ Cardinality(S) < KeysCap => Fits(S \cup {k})
<1>1. IsFiniteSet(S) /\ Cardinality(S) \in Nat /\ KeysCap \in Nat
  BY FS_CardinalityType, RateAssumption DEF Fits
<1>2. IsFiniteSet(S \ {k}) /\ Cardinality(S \ {k}) \in Nat /\ Cardinality(S \ {k}) <= Cardinality(S)
  <2>1. S \ {k} \in SUBSET S
    OBVIOUS
  <2> QED
    BY <1>1, <2>1, FS_Subset, FS_CardinalityType
<1>3. IsFiniteSet(S \cup {k}) /\ (Cardinality(S \cup {k}) = Cardinality(S) \/ Cardinality(S \cup {k}) = Cardinality(S) + 1)
  BY <1>1, FS_AddElement
<1> QED
  BY <1>1, <1>2, <1>3 DEF Fits

\* update_shortcut_state
LEMMA ShortcutKeeps ==
  ASSUME NEW s \in Shortcut, Fits(s.pressed), NEW k \in Key, NEW pressing \in BOOLEAN, NEW mods \in SUBSET Modifier
  PROVE  UpdateShortcut(s, k, pressing, mods) \in Shortcut /\ Fits(UpdateShortcut(s, k, pressing, mods).pressed)
<1>1. ASSUME NEW t \in Shortcut, Fits(t.pressed), NEW x
      PROVE  EraseKey(t, x) \in Shortcut /\ Fits(EraseKey(t, x).pressed)
  <2>1. EraseKey(t, x) \in Shortcut /\ EraseKey(t, x).pressed = t.pressed \ {x}
    BY DEF EraseKey, Shortcut
  <2> QED
    BY <1>1, <2>1, ListFits
<1>2. ASSUME NEW t \in Shortcut, Fits(t.pressed)
      PROVE  AddKey(t, k) \in Shortcut /\ Fits(AddKey(t, k).pressed)
  <2>1. Cardinality(t.pressed) \in Nat /\ KeysCap \in Nat
    BY <1>2, FS_CardinalityType, RateAssumption DEF Fits
  <2>2. CASE Cardinality(t.pressed) >= KeysCap
    BY <1>2, <2>2 DEF AddKey
  <2>3. CASE Cardinality(t.pressed) < KeysCap
    <3>1. AddKey(t, k) = [t EXCEPT !.pressed = @ \cup {k}, !.current = k]
      BY <2>1, <2>3 DEF AddKey
    <3>2. AddKey(t, k) = [pressed |-> t.pressed \cup {k}, current |-> k, last |-> t.last, mods |-> t.mods]
      BY <3>1 DEF Shortcut
    <3>3. t.pressed \cup {k} \in SUBSET Key /\ t.last \in Key \cup {"none"} /\ t.mods \in SUBSET Modifier
      BY DEF Shortcut
    <3>4. AddKey(t, k) \in Shortcut /\ AddKey(t, k).pressed = t.pressed \cup {k}
      BY <3>2, <3>3 DEF Shortcut
    <3> QED
      BY <1>2, <2>3, <3>4, ListFits
  <2> QED
    BY <2>1, <2>2, <2>3
<1> DEFINE clean == IF mods # s.mods /\ s.last # "none" THEN EraseKey(s, s.last) ELSE s
           seen == [clean EXCEPT !.mods = mods]
<1>3. clean \in Shortcut /\ Fits(clean.pressed)
  BY <1>1
<1> HIDE DEF clean
<1>4. seen \in Shortcut /\ Fits(seen.pressed)
  <2>1. seen \in Shortcut /\ seen.pressed = clean.pressed
    BY <1>3 DEF Shortcut
  <2> QED
    BY <1>3, <2>1
<1> HIDE DEF seen
<1>5. UpdateShortcut(s, k, pressing, mods) =
        IF pressing THEN [AddKey(seen, k) EXCEPT !.last = k] ELSE EraseKey(seen, k)
  BY DEF UpdateShortcut, clean, seen
<1>6. CASE pressing
  <2> DEFINE t == AddKey(seen, k)
  <2>1. t \in Shortcut /\ Fits(t.pressed)
    BY <1>2, <1>4
  <2> HIDE DEF t
  <2>2. [t EXCEPT !.last = k] \in Shortcut /\ [t EXCEPT !.last = k].pressed = t.pressed
    BY <2>1 DEF Shortcut
  <2> QED
    BY <1>5, <1>6, <2>1, <2>2 DEF t
<1>7. CASE ~pressing
  BY <1>1, <1>4, <1>5, <1>7
<1> QED
  BY <1>6, <1>7

-----------------------------------------------------------------------------
(* The events keep the invariant. *)

\* What the end of handle_key_event sends and records, of a key that is pressed or released.
LEMMA SendKeyKeeps ==
  ASSUME KeysInv, ListsInv, NEW k \in Key, NEW pressing \in BOOLEAN, NEW handled \in BOOLEAN,
         down' = IF pressing THEN down \cup {k} ELSE down \ {k},
         grouped' = grouped,
         grouped /\ ~handled => pressedSent' = pressedSent /\ clientDown' = clientDown /\ overflowed' = overflowed,
         ~(grouped /\ ~handled) => SendKey(k, pressing, handled)
  PROVE  /\ KeysInv'
         /\ down' \subseteq Key /\ clientDown' \subseteq Key /\ overflowed' \subseteq Key /\ pressedSent' \subseteq Key
         /\ Fits(pressedSent')
<1> DEFINE sent == SendKey(k, pressing, handled)
<1>1. Cardinality(pressedSent) \in Nat /\ KeysCap \in Nat
  BY FS_CardinalityType, RateAssumption DEF ListsInv, Fits
<1>2. CASE grouped /\ ~handled
  BY <1>2 DEF KeysInv, ListsInv
<1>3. CASE ~(grouped /\ ~handled)
  <2>1. KeysInv'
    BY <1>3 DEF KeysInv, SendKey
  <2>2. /\ down' \subseteq Key /\ clientDown' \subseteq Key /\ overflowed' \subseteq Key
        /\ pressedSent' \subseteq Key
    BY <1>3 DEF ListsInv, SendKey
  <2>3. Fits(pressedSent')
    <3>1. \/ pressedSent' = pressedSent
          \/ pressedSent' = pressedSent \ {k}
          \/ Cardinality(pressedSent) < KeysCap /\ pressedSent' = pressedSent \cup {k}
      BY <1>1, <1>3 DEF SendKey
    <3> QED
      BY <3>1, ListFits DEF ListsInv
  <2> QED
    BY <2>1, <2>2, <2>3
<1> QED
  BY <1>2, <1>3

\* handle_key_event
LEMMA KeyEventKeeps ==
  ASSUME BInv, NEW k \in Key, NEW pressing \in BOOLEAN,
         down' = IF pressing THEN down \cup {k} ELSE down \ {k},
         HandleKeyEvent(k, pressing)
  PROVE  BInv'
<1> DEFINE mods == down \cap Modifier
           s == UpdateShortcut(shortcut, k, pressing, mods)
           released == ActiveBinding(s, mods, TRUE)
           binding == IF pressing THEN ActiveBinding(s, mods, FALSE) ELSE NoBinding
           isHeld == held # NoRef /\ held = Ref(released)
           heldNow == IF pressing /\ released # NoBinding THEN Ref(released)
                      ELSE IF isHeld THEN held ELSE NoRef
           runsHeld == ~pressing /\ held # NoRef /\ ~isHeld
           repeats == binding # NoBinding /\ "norepeat" \notin binding.flags
           repeatNow == IF repeats THEN Ref(binding) ELSE NoRef
           handled == runsHeld \/ binding # NoBinding
<1>1. /\ shortcut' = s
      /\ repeatTimer' = repeats
      /\ \/ ExecuteRef(held, heldNow, repeatNow)
         \/ ExecuteRef(Ref(binding), heldNow, repeatNow)
         \/ held' = heldNow /\ repeat' = repeatNow /\ UNCHANGED <<modes, mode, reloading, usedFreed>>
      /\ IF grouped /\ ~handled THEN UNCHANGED <<pressedSent, clientDown, overflowed>>
         ELSE SendKey(k, pressing, handled)
      /\ UNCHANGED <<switch, file, seatKeyVars>>
  BY DEF HandleKeyEvent
<1>2. repeats => repeatNow # NoRef
  BY DEF Ref, NoRef
<1>3. handled \in BOOLEAN /\ repeats \in BOOLEAN
  OBVIOUS
<1>4. mods \in SUBSET Modifier
  OBVIOUS
<1> HIDE DEF mods, binding, released, isHeld, heldNow, runsHeld, repeats, repeatNow, handled
<1>5. shortcut' \in Shortcut /\ Fits(shortcut'.pressed)
  BY <1>1, <1>4, ShortcutKeeps DEF BInv, ListsInv
<1> HIDE DEF s
<1>6. KeysInv' /\ ListsInv'
  <2>1. /\ grouped' = grouped
        /\ grouped /\ ~handled => pressedSent' = pressedSent /\ clientDown' = clientDown /\ overflowed' = overflowed
        /\ ~(grouped /\ ~handled) => SendKey(k, pressing, handled)
    BY <1>1 DEF seatKeyVars
  <2>2. /\ KeysInv'
        /\ down' \subseteq Key /\ clientDown' \subseteq Key /\ overflowed' \subseteq Key
        /\ pressedSent' \subseteq Key
        /\ Fits(pressedSent')
    BY <1>3, <2>1, SendKeyKeeps DEF BInv
  <2> QED
    BY <1>5, <2>2 DEF ListsInv, Fits
<1>7. /\ modes' \in [Mode -> Seq(KeyBinding)] /\ mode' \in Mode /\ reloading' \in BOOLEAN
      /\ repeatNow # NoRef => repeat' # NoRef
      /\ usedFreed' \in BOOLEAN
  <2>1. CASE ExecuteRef(held, heldNow, repeatNow)
    BY <2>1, ExecuteRefKeeps DEF BInv
  <2>2. CASE ExecuteRef(Ref(binding), heldNow, repeatNow)
    BY <2>2, ExecuteRefKeeps DEF BInv
  <2>3. CASE held' = heldNow /\ repeat' = repeatNow /\ UNCHANGED <<modes, mode, reloading, usedFreed>>
    BY <2>3 DEF BInv, ModesInv, FlagsInv
  <2> QED
    BY <1>1, <2>1, <2>2, <2>3
<1>8. ModesInv'
  BY <1>1, <1>7 DEF BInv, ModesInv
<1>9. FlagsInv'
  BY <1>1, <1>2, <1>7 DEF BInv, FlagsInv, seatKeyVars
<1> QED
  BY <1>6, <1>8, <1>9 DEF BInv

\* handle_keyboard_repeat
LEMMA RepeatKeeps ==
  ASSUME BInv, KeyboardRepeat
  PROVE  BInv'
<1>1. /\ modes' \in [Mode -> Seq(KeyBinding)] /\ mode' \in Mode /\ reloading' \in BOOLEAN
      /\ repeat # NoRef => repeat' # NoRef
      /\ usedFreed' \in BOOLEAN
  BY ExecuteRefKeeps DEF BInv, KeyboardRepeat
<1>2. repeat # NoRef
  BY DEF KeyboardRepeat, BInv, FlagsInv
<1>3. /\ UNCHANGED <<down, shortcut, pressedSent, clientDown, overflowed, file, seatKeyVars>>
  BY DEF KeyboardRepeat
<1>4. KeysInv' /\ ListsInv'
  BY <1>3 DEF BInv, KeysInv, ListsInv, seatKeyVars, Fits
<1>5. ModesInv'
  BY <1>1, <1>3 DEF BInv, ModesInv
<1>6. FlagsInv'
  BY <1>1, <1>2, <1>3 DEF BInv, FlagsInv, seatKeyVars
<1> QED
  BY <1>4, <1>5, <1>6 DEF BInv

\* handle_switch_toggle
LEMMA SwitchKeeps ==
  ASSUME BInv, NEW type, NEW state, SwitchToggle(type, state)
  PROVE  BInv'
<1>1. /\ modes' \in [Mode -> Seq(KeyBinding)] /\ mode' \in Mode /\ reloading' \in BOOLEAN
      /\ repeat # NoRef => repeat' # NoRef
  <2> DEFINE command == SwitchBinding(switch', FALSE).command
  <2>1. Execute(command, held, repeat)
    BY DEF SwitchToggle
  <2> HIDE DEF command
  <2> QED
    BY <2>1, ExecuteKeeps DEF BInv
<1>2. UNCHANGED <<down, shortcut, pressedSent, clientDown, overflowed, repeatTimer, file, seatKeyVars, usedFreed>>
  BY DEF SwitchToggle
<1>3. KeysInv' /\ ListsInv'
  BY <1>2 DEF BInv, KeysInv, ListsInv, seatKeyVars, Fits
<1>4. ModesInv'
  BY <1>1, <1>2 DEF BInv, ModesInv
<1>5. FlagsInv'
  BY <1>1, <1>2 DEF BInv, FlagsInv, seatKeyVars
<1> QED
  BY <1>3, <1>4, <1>5 DEF BInv

\* do_reload: whatever the file binds, in whatever order.
LEMMA FileMakesModes ==
  ASSUME NEW f \in KeyConfigs
  PROVE  Loaded(f) \in [Mode -> Seq(KeyBinding)]
<1>1. f \in [Mode -> Seq(KeyBinding)]
  BY FileAssumption
<1>2. \A m \in Mode : FoldLeft(Upsert, << >>, f[m]) \in Seq(KeyBinding)
  BY <1>1, LoadedType
<1> QED
  BY <1>2 DEF Loaded

\* do_reload
LEMMA ReloadKeeps ==
  ASSUME BInv, DoReload
  PROVE  BInv'
<1>1. modes' \in [Mode -> Seq(KeyBinding)]
  BY FileMakesModes DEF DoReload, BInv, ModesInv
<1>2. mode' \in Mode /\ repeatTimer' = FALSE /\ reloading' = FALSE
  BY DEF DoReload, Mode
<1>3. UNCHANGED <<down, shortcut, pressedSent, clientDown, overflowed, file, seatKeyVars, usedFreed>>
  BY DEF DoReload
<1>4. KeysInv' /\ ListsInv'
  BY <1>3 DEF BInv, KeysInv, ListsInv, seatKeyVars, Fits
<1>5. ModesInv'
  BY <1>1, <1>2, <1>3 DEF BInv, ModesInv
<1>6. FlagsInv'
  BY <1>2, <1>3 DEF BInv, FlagsInv, seatKeyVars
<1> QED
  BY <1>4, <1>5, <1>6 DEF BInv

\* At start nothing is pressed, and the bindings are those of the file.
LEMMA BInvAtStart ==
  ASSUME BindingsInit
  PROVE  BInv
<1>1. KeysInv
  BY DEF BindingsInit, KeysInv
<1>2. ListsInv
  <2>1. Fits({})
    BY FS_EmptySet, RateAssumption DEF Fits
  <2> QED
    BY <2>1 DEF BindingsInit, ListsInv, Shortcut
<1>3. ModesInv
  BY FileMakesModes DEF BindingsInit, ModesInv, Mode
<1>4. FlagsInv
  BY DEF BindingsInit, FlagsInv
<1> QED
  BY <1>1, <1>2, <1>3, <1>4 DEF BInv

\* Every step keeps the invariant.
LEMMA BInvStep ==
  ASSUME BInv, [BindingsNext]_bindingVars
  PROVE  BInv'
<1>1. ASSUME NEW k \in Key, PressKey(k) PROVE BInv'
  BY <1>1, KeyEventKeeps DEF PressKey
<1>2. ASSUME NEW k \in Key, ReleaseKey(k) PROVE BInv'
  BY <1>2, KeyEventKeeps DEF ReleaseKey
<1>3. CASE KeyboardRepeat
  BY <1>3, RepeatKeeps
<1>4. ASSUME NEW type \in {"lid", "tablet"}, NEW state \in {"on", "off"}, SwitchToggle(type, state)
      PROVE  BInv'
  BY <1>4, SwitchKeeps
<1>5. CASE DoReload
  BY <1>5, ReloadKeeps
<1>6. CASE SeatChanges
  <2>1. KeysInv' /\ ListsInv' /\ ModesInv'
    BY <1>6 DEF SeatChanges, keyVars, configVars, BInv, KeysInv, ListsInv, ModesInv, Fits
  <2>2. FlagsInv'
    BY <1>6 DEF SeatChanges, keyVars, configVars, BInv, FlagsInv
  <2> QED
    BY <2>1, <2>2 DEF BInv
<1>7. CASE UNCHANGED bindingVars
  BY <1>7 DEF bindingVars, keyVars, configVars, seatKeyVars, BInv, KeysInv, ListsInv, ModesInv, FlagsInv, Fits
<1> QED
  BY <1>1, <1>2, <1>3, <1>4, <1>5, <1>6, <1>7 DEF BindingsNext

\* The invariant holds throughout.
LEMMA BInvHolds == BindingsSpec => []BInv
<1>1. BInv /\ [BindingsNext]_bindingVars => BInv'
  BY BInvStep
<1> QED
  BY <1>1, BInvAtStart, PTL DEF BindingsSpec

\* Every variable keeps its type, the lists of pressed keys their bound, and a repeat timer
\* that is armed has a binding (input/keyboard.c).
THEOREM BindingsTyped == BindingsSpec => []BindingsTypeOK
<1>1. ASSUME BInv PROVE BindingsTypeOK
  <2> USE <1>1 DEF BInv
  <2>1. /\ down \subseteq Key /\ overflowed \subseteq Key
        /\ shortcut.pressed \subseteq Key /\ pressedSent \subseteq Key /\ clientDown \subseteq Key
        /\ Cardinality(shortcut.pressed) <= KeysCap /\ Cardinality(pressedSent) <= KeysCap
        /\ shortcut.mods \subseteq Modifier
    BY DEF ListsInv, Fits, Shortcut
  <2>2. /\ mode \in Mode /\ DOMAIN modes = Mode
        /\ \A m \in Mode : \A i \in DOMAIN modes[m] : modes[m][i].flags \subseteq Flag
    <3>1. ASSUME NEW m \in Mode, NEW i \in DOMAIN modes[m] PROVE modes[m][i].flags \subseteq Flag
      <4>1. modes[m] \in Seq(KeyBinding)
        BY DEF ModesInv
      <4>2. modes[m][i] \in KeyBinding
        BY <4>1
      <4> QED
        BY <4>2 DEF KeyBinding
    <3> QED
      BY <3>1 DEF ModesInv
  <2> QED
    BY <2>1, <2>2 DEF BindingsTypeOK, FlagsInv
<1> QED
  BY <1>1, BInvHolds, PTL

\* Whatever bindings run, however often lists overflow and configurations are reloaded, a
\* client is told that a key is up when it was told that it is down (handle_key_event).
THEOREM KeysComeUp == BindingsSpec => []ClientKeysAreDown
<1>1. BInv => ClientKeysAreDown
  BY DEF BInv, KeysInv, ClientKeysAreDown
<1> QED
  BY <1>1, BInvHolds, PTL

-----------------------------------------------------------------------------
(* get_active_binding *)

\* Bindings for the layout group, of a device, that the same modifiers and kind of event
\* can run are all for the lock or none is: between two of them the rule that prefers the
\* group keeps the first, before the rule for the lock is reached (keyboard.c 309).
GroupsDecide ==
  \A x, y \in ToSet(modes[mode]) :
    (x.group = 1 /\ y.group = 1 /\ x.input = y.input /\ x.mods = y.mods
     /\ ("release" \in x.flags) = ("release" \in y.flags))
    => ("locked" \in x.flags) = ("locked" \in y.flags)

\* c is no less specific than b.
LockFits(b) == ("locked" \in b.flags) = inputInhibited
NotBelow(c, b) ==
  LET sameInput == (b.input = "keyboard") = (c.input = "keyboard")
  IN  /\ b.input = "keyboard" => c.input = "keyboard"
      /\ sameInput /\ b.group = 1 => c.group = 1
      /\ sameInput /\ (b.group = 1) = (c.group = 1) /\ LockFits(b) => LockFits(c)

\* It is what the ranks say.
LEMMA RankOrder ==
  ASSUME NEW c, NEW b, NotBelow(c, b)
  PROVE  LET Rank(x) == <<x.input = "keyboard", x.group = 1, ("locked" \in x.flags) = inputInhibited>>
             Below(p, q) == \E n \in 1..3 : ~p[n] /\ q[n] /\ \A m \in 1..(n - 1) : p[m] = q[m]
         IN  ~Below(Rank(c), Rank(b))
<1> DEFINE Rank(x) == <<x.input = "keyboard", x.group = 1, ("locked" \in x.flags) = inputInhibited>>
<1> SUFFICES ASSUME NEW n \in 1..3, ~Rank(c)[n], Rank(b)[n], \A m \in 1..(n - 1) : Rank(c)[m] = Rank(b)[m]
             PROVE  FALSE
  OBVIOUS
<1>1. CASE n = 1
  BY <1>1 DEF NotBelow
<1>2. CASE n = 2
  <2>1. Rank(c)[1] = Rank(b)[1]
    BY <1>2
  <2> QED
    BY <1>2, <2>1 DEF NotBelow
<1>3. CASE n = 3
  <2>1. Rank(c)[1] = Rank(b)[1] /\ Rank(c)[2] = Rank(b)[2]
    BY <1>3
  <2> QED
    BY <1>3, <2>1 DEF NotBelow, LockFits
<1> QED
  BY <1>1, <1>2, <1>3

\* The order is one: of two bindings one is no less specific, and so on along a list.
LEMMA NotBelowTransitive ==
  ASSUME NEW b, NEW c, NEW x, NotBelow(b, c), NotBelow(c, x)
  PROVE  NotBelow(b, x)
BY DEF NotBelow, LockFits

\* One round of the loop: the current match is kept if it is no less specific, and replaced
\* if the other one is.
LEMMA KeepsBetter ==
  ASSUME NEW c \in ToSet(modes[mode]), NEW b \in ToSet(modes[mode]), GroupsDecide,
         NEW mods, NEW release \in BOOLEAN,
         Matches(c, shortcut, mods, release), Matches(b, shortcut, mods, release)
  PROVE  IF Keeps(c, b) THEN NotBelow(c, b) ELSE NotBelow(b, c)
<1>1. /\ c.group \in {0, 1} /\ b.group \in {0, 1}
      /\ c.input \in {"keyboard", "*"} /\ b.input \in {"keyboard", "*"}
      /\ c.mods = b.mods
      /\ ("release" \in c.flags) = ("release" \in b.flags)
  BY DEF Matches
<1>2. c.group = 1 /\ b.group = 1 /\ c.input = b.input => ("locked" \in c.flags) = ("locked" \in b.flags)
  BY <1>1 DEF GroupsDecide
<1>3. CASE Keeps(c, b)
  BY <1>1, <1>2, <1>3 DEF Keeps, NotBelow, LockFits
<1>4. CASE ~Keeps(c, b)
  BY <1>1, <1>2, <1>4 DEF Keeps, NotBelow, LockFits
<1> QED
  BY <1>3, <1>4

\* The match after the bindings at the places z: none if none of them matches, or else one
\* of them that no other one is more specific than.
MatchOf(c, z, list, mods, release) ==
  LET matching == {i \in z : Matches(list[i], shortcut, mods, release)}
  IN  IF matching = {} THEN c = NoBinding
      ELSE (\E i \in matching : c = list[i]) /\ \A i \in matching : NotBelow(c, list[i])

\* The loop, one binding further.
LEMMA NextMatch ==
  ASSUME BInv, GroupsDecide, NEW mods, NEW release \in BOOLEAN,
         NEW z \in SUBSET DOMAIN modes[mode], NEW i \in z, NEW c,
         MatchOf(c, z \ {i}, modes[mode], mods, release)
  PROVE  LET b == modes[mode][i]
             next == IF Matches(b, shortcut, mods, release) /\ (c = NoBinding \/ ~Keeps(c, b)) THEN b ELSE c
         IN  MatchOf(next, z, modes[mode], mods, release)
<1> DEFINE list == modes[mode]
           b == list[i]
           M(x) == Matches(x, shortcut, mods, release)
           next == IF M(b) /\ (c = NoBinding \/ ~Keeps(c, b)) THEN b ELSE c
           before == {j \in z \ {i} : M(list[j])}
           after == {j \in z : M(list[j])}
<1>1. list \in Seq(KeyBinding) /\ \A j \in DOMAIN list : list[j] \in KeyBinding /\ list[j] \in ToSet(list)
  BY DEF BInv, ModesInv, ToSet
<1>2. \A j \in DOMAIN list : list[j] # NoBinding
  <2>1. \A x \in KeyBinding : x # NoBinding
    BY DEF KeyBinding, NoBinding
  <2> QED
    BY <1>1, <2>1
<1>3. IF before = {} THEN c = NoBinding
      ELSE (\E j \in before : c = list[j]) /\ \A j \in before : NotBelow(c, list[j])
  BY DEF MatchOf
<1>4. SUFFICES IF after = {} THEN next = NoBinding
               ELSE (\E j \in after : next = list[j]) /\ \A j \in after : NotBelow(next, list[j])
  BY DEF MatchOf
<1>5. after = IF M(b) THEN before \cup {i} ELSE before
  OBVIOUS
<1>6. CASE ~M(b)
  BY <1>3, <1>5, <1>6
<1>7. CASE M(b) /\ before = {}
  <2>1. next = b /\ after = {i}
    BY <1>3, <1>5, <1>7
  <2>2. NotBelow(b, b)
    BY DEF NotBelow
  <2> QED
    BY <2>1, <2>2
<1>8. CASE M(b) /\ before # {}
  <2>1. PICK k \in before : c = list[k]
    BY <1>3, <1>8
  <2>2. c \in ToSet(list) /\ b \in ToSet(list) /\ M(c) /\ c # NoBinding
    BY <1>1, <1>2, <2>1
  <2>3. IF Keeps(c, b) THEN NotBelow(c, b) ELSE NotBelow(b, c)
    BY <1>8, <2>2, KeepsBetter
  <2>4. \A j \in before : NotBelow(c, list[j])
    BY <1>3, <1>8
  <2>5. CASE Keeps(c, b)
    BY <1>5, <1>8, <2>1, <2>2, <2>3, <2>4, <2>5
  <2>6. CASE ~Keeps(c, b)
    <3>1. next = b /\ after = before \cup {i}
      BY <1>5, <1>8, <2>6
    <3>2. \A j \in before : NotBelow(b, list[j])
      BY <2>3, <2>4, <2>6, NotBelowTransitive
    <3>3. NotBelow(b, b)
      BY DEF NotBelow
    <3> QED
      BY <3>1, <3>2, <3>3
  <2> QED
    BY <2>5, <2>6
<1> QED
  BY <1>6, <1>7, <1>8

\* The whole loop, over all the bindings of the mode.
LEMMA LoopFindsMatch ==
  ASSUME BInv, GroupsDecide, NEW mods, NEW release \in BOOLEAN
  PROVE  MatchOf(ActiveBinding(shortcut, mods, release), DOMAIN modes[mode], modes[mode], mods, release)
<1> DEFINE list == modes[mode]
           D == DOMAIN list
           T == KeyBinding \cup {NoBinding}
           Round(c, b) == IF Matches(b, shortcut, mods, release) /\ (c = NoBinding \/ ~Keeps(c, b))
                          THEN b ELSE c
           Step(iter) == [z \in SUBSET D |->
                            IF z = {} THEN NoBinding ELSE Round(iter[z \ {Max(z)}], list[Max(z)])]
           op == [p \in D \X T |-> Round(p[2], list[p[1]])]
           pick == [z \in SUBSET D |-> Max(z)]
           chosen == CHOOSE iter : iter = Step(iter)
           G == {z \in SUBSET D : MatchOf(chosen[z], z, list, mods, release)}
<1>1. ActiveBinding(shortcut, mods, release) = chosen[D]
  BY DEF ActiveBinding, FoldLeft, MapThenFoldSet
<1>2. list \in Seq(KeyBinding)
  BY DEF BInv, ModesInv
<1>3. IsFiniteSet(D) /\ \A z \in SUBSET D : z # {} => pick[z] = Max(z) /\ pick[z] \in z
  BY <1>2, Places
<1>4. \A i \in D, t \in T : Round(t, list[i]) \in T
  <2>1. \A i \in D : list[i] \in KeyBinding
    BY <1>2
  <2> QED
    BY <2>1
<1> HIDE DEF Round
<1>5. op \in [D \X T -> T] /\ NoBinding \in T
  BY <1>4
<1>6. \E f \in [SUBSET D -> T] : IsFold(f, D, NoBinding, op, pick)
  <2>1. IsPick(pick, D)
    BY <1>3 DEF IsPick
  <2> HIDE DEF op, pick, D, T
  <2> QED
    BY <1>3, <1>5, <2>1, RecursionOnSubsets
<1>7. \E iter : iter = Step(iter)
  <2>1. PICK f \in [SUBSET D -> T] : \A z \in SUBSET D :
          f[z] = IF z = {} THEN NoBinding ELSE op[<<pick[z], f[z \ {pick[z]}]>>]
    BY <1>6 DEF IsFold
  <2>2. ASSUME NEW z \in SUBSET D, z # {} PROVE f[z] = Round(f[z \ {Max(z)}], list[Max(z)])
    <3>1. pick[z] = Max(z) /\ Max(z) \in D /\ f[z \ {Max(z)}] \in T
      BY <1>3, <2>2
    <3> QED
      BY <2>1, <2>2, <3>1
  <2>3. f = Step(f)
    BY <2>1, <2>2
  <2> QED
    BY <2>3
<1>8. \A z \in SUBSET D : chosen[z] = IF z = {} THEN NoBinding ELSE Round(chosen[z \ {Max(z)}], list[Max(z)])
  <2>1. chosen = Step(chosen)
    BY <1>7
  <2> QED
    BY <2>1
<1> HIDE DEF chosen
<1>9. D \in G
  <2>1. G \in SUBSET SUBSET D /\ {} \in G
    <3>1. chosen[{}] = NoBinding
      BY <1>8
    <3> QED
      BY <3>1 DEF MatchOf
  <2>2. ASSUME NEW z \in SUBSET D, z # {}
        PROVE  \E x \in z : z \ {x} \in G => z \in G
    <3>1. Max(z) \in z
      BY <1>3, <2>2
    <3>2. ASSUME z \ {Max(z)} \in G PROVE z \in G
      <4>1. MatchOf(chosen[z \ {Max(z)}], z \ {Max(z)}, list, mods, release)
        BY <3>2
      <4>2. chosen[z] = Round(chosen[z \ {Max(z)}], list[Max(z)])
        BY <1>8, <2>2
      <4>3. MatchOf(Round(chosen[z \ {Max(z)}], list[Max(z)]), z, list, mods, release)
        BY <3>1, <4>1, NextMatch DEF Round
      <4> QED
        BY <4>2, <4>3
    <3> QED
      BY <3>1, <3>2
  <2> HIDE DEF G, D
  <2> QED
    BY <1>3, <2>1, <2>2, SubsetInduction
<1> QED
  BY <1>1, <1>9

\* Where the layout group does not leave the lock open, the binding that runs is one that
\* matches, and no other one that matches is more specific (get_active_binding).
THEOREM BestMatchRuns == BindingsSpec => [](GroupsDecide => BestBindingRuns)
<1>1. ASSUME BInv, GroupsDecide PROVE BestBindingRuns
  <2> SUFFICES ASSUME NEW release \in BOOLEAN, NEW mods \in SUBSET Modifier
               PROVE  LET Rank(b) == <<b.input = "keyboard", b.group = 1, ("locked" \in b.flags) = inputInhibited>>
                          Below(p, q) == \E n \in 1..3 : ~p[n] /\ q[n] /\ \A m \in 1..(n - 1) : p[m] = q[m]
                          candidates == {b \in ToSet(modes[mode]) : Matches(b, shortcut, mods, release)}
                          best == ActiveBinding(shortcut, mods, release)
                      IN  IF candidates = {} THEN best = NoBinding
                          ELSE best \in candidates /\ \A b \in candidates : ~Below(Rank(best), Rank(b))
    BY DEF BestBindingRuns
  <2> DEFINE list == modes[mode]
             best == ActiveBinding(shortcut, mods, release)
             candidates == {b \in ToSet(list) : Matches(b, shortcut, mods, release)}
             matching == {i \in DOMAIN list : Matches(list[i], shortcut, mods, release)}
  <2>1. IF matching = {} THEN best = NoBinding
        ELSE (\E i \in matching : best = list[i]) /\ \A i \in matching : NotBelow(best, list[i])
    BY <1>1, LoopFindsMatch DEF MatchOf
  <2>2. candidates = {list[i] : i \in matching}
    BY DEF ToSet
  <2> HIDE DEF best
  <2>3. IF candidates = {} THEN best = NoBinding
        ELSE best \in candidates /\ \A b \in candidates : NotBelow(best, b)
    BY <2>1, <2>2
  <2> QED
    BY <2>3, RankOrder DEF best
<1> QED
  BY <1>1, BInvHolds, PTL
=============================================================================

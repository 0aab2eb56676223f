---------------------------- MODULE InputManager ----------------------------
(***************************************************************************)
(* The input devices, the seats they are attached to, and the input and    *)
(* seat configuration they follow (input/input_manager.c, the device half  *)
(* of input/seat.c, the groups of input/keyboard.c, config/input.c,        *)
(* config/seat.c, and the reload of config.c).                             *)
(*                                                                         *)
(* A handler walks over seats and devices and changes both as it goes, so  *)
(* handlers are operators on the whole state, a record, and an action      *)
(* applies one of them.  A line of the configuration is a record that sets *)
(* one option of one input or seat.  Keymap and repeat rate, which are     *)
(* compared and set together, are one value; of the other options the      *)
(* output that an input is mapped to stands for all.                       *)
(***************************************************************************)
EXTENDS Naturals, SequencesExt

CONSTANTS
  Device,      \* the devices that may be plugged in, or created by clients
  DeviceType,  \* their type: "keyboard", "pointer" or "switch"
  Virtual,     \* the devices that clients create
  Output,      \* outputs, by name
  Files,       \* the contents of the configuration file: sequences of lines
  Commands     \* the input and seat lines that may be executed later

ASSUME DeviceAssumption == Virtual \subseteq Device /\ DOMAIN DeviceType = Device

DefaultSeat == "seat0"
NoGroup == [seat |-> "none", keymap |-> "none"]
NewSeat(name) == [name |-> name, fallback |-> "unset", attach |-> {}, grouping |-> "default"]
NewInput(id) == [id |-> id, type |-> "none", keymap |-> "none", map |-> "default"]

VARIABLE im   \* server.input, the seats, and the configuration
VARIABLE imFile \* the contents of the configuration file

imVars == <<im, imFile>>

\* Lists of records with a name or an identifier.
Named(list, n) == SelectSeq(list, LAMBDA x : x.name = n)
Identified(list, id) == SelectSeq(list, LAMBDA x : x.id = id)

-----------------------------------------------------------------------------
(* Seat configurations. *)

\* merge_seat_config
MergeSeat(dest, source) ==
  [dest EXCEPT !.fallback = IF source.fallback = "unset" THEN @ ELSE source.fallback,
               !.attach = @ \cup source.attach,
               !.grouping = IF source.grouping = "default" THEN @ ELSE source.grouping]

\* store_seat_config
StoreSeat(list, sc) ==
  LET merged == [i \in DOMAIN list |-> IF sc.name = "*" \/ list[i].name = sc.name
                                       THEN MergeSeat(list[i], sc) ELSE list[i]]
      wildcard == Named(list, "*")
  IN  IF Named(list, sc.name) # << >> THEN merged
      ELSE Append(merged, IF wildcard = << >> THEN sc
                          ELSE MergeSeat(MergeSeat(NewSeat(sc.name), wildcard[1]), sc))

\* seat_get_config, as a sequence of at most one
SeatConfig(m, s) == Named(m.seatConfigs, s)
\* seat_get_config_by_name("*") if there is none for the seat
SeatOrWildcard(m, s) == SeatConfig(m, s) \o Named(m.seatConfigs, "*")

Attaches(m, s, d) == \E i \in DOMAIN SeatConfig(m, s) : SeatConfig(m, s)[i].attach \cap {"*", d} # {}
IsFallback(m, s) == \E i \in DOMAIN SeatConfig(m, s) : SeatConfig(m, s)[i].fallback = "yes"
Grouped(m, s) == SeatOrWildcard(m, s) = << >> \/ SeatOrWildcard(m, s)[1].grouping # "none"

-----------------------------------------------------------------------------
(* Input configurations. *)

\* merge_input_config
MergeInput(dest, source) ==
  [dest EXCEPT !.keymap = IF source.keymap = "none" THEN @ ELSE source.keymap,
               !.map = IF source.map = "default" THEN @ ELSE source.map]

\* A device's identifier is its own; "type:" identifiers are the types.
IsType(id) == id \in {DeviceType[d] : d \in Device}

\* set_input_type
KnownType(m, id) == IF id \in ToSet(m.devices) THEN DeviceType[id] ELSE "none"

\* store_input_config, of a configuration whose keymap compiles.
StoreInput(m, ic) ==
  LET list == IF IsType(ic.id) THEN m.typeConfigs ELSE m.inputConfigs
      type == KnownType(m, ic.id)
      ofType == Identified(m.typeConfigs, type)
      wildcard == Identified(m.inputConfigs, "*")
      bases == ofType \o wildcard
      base == IF bases = << >> THEN NewInput(ic.id) ELSE MergeInput(NewInput(ic.id), bases[1])
      untyped == ofType = << >> /\ wildcard # << >>
      new == [MergeInput(base, ic) EXCEPT !.type = IF untyped THEN "none" ELSE type]
      Takes(other) == ic.id \in {"*", other.id} \/ (IsType(ic.id) /\ other.type = ic.id)
      Spread(l) == [i \in DOMAIN l |-> IF Takes(l[i]) THEN MergeInput(l[i], ic) ELSE l[i]]
      fresh == Identified(list, ic.id) = << >>
      Add(l, mine) == IF mine /\ fresh THEN Append(l, new) ELSE l
  IN  [m EXCEPT !.inputConfigs = Add(Spread(@), ~IsType(ic.id)),
                !.typeConfigs = Add(Spread(@), IsType(ic.id))]

\* apply_input_type_config
ApplyInputType(m, d) ==
  LET ofType == Identified(m.typeConfigs, DeviceType[d])
      Retyped(ic) == [MergeInput(MergeInput(NewInput(d), ofType[1]), ic) EXCEPT !.type = DeviceType[d]]
  IN  IF ofType = << >> THEN m
      ELSE [m EXCEPT !.inputConfigs = [i \in DOMAIN @ |-> IF @[i].id = d THEN Retyped(@[i]) ELSE @[i]]]

\* input_device_get_config, as a sequence whose head counts
InputConfig(m, d) ==
  Identified(m.inputConfigs, d) \o Identified(m.typeConfigs, DeviceType[d])
  \o Identified(m.inputConfigs, "*") \o <<NewInput("none")>>

Keymap(m, d) == LET k == InputConfig(m, d)[1].keymap IN IF k = "none" THEN "us" ELSE k

-----------------------------------------------------------------------------
(* Keyboards and their groups.  A wlr_keyboard is a member of at most one  *)
(* group, of whichever of its seats; a group has the keymap of its members *)
(* and exists as long as it has any.                                       *)

Group(s, keymap) == [seat |-> s, keymap |-> keymap]

\* What a seat may have as its keyboard: nothing, a device's keyboard, or a group's.
NoKeyboard == <<"none", NoGroup>>
DeviceKeyboard(d) == <<d, NoGroup>>
GroupKeyboard(g) == <<"group", g>>

\* hwd_keyboard_group_remove
GroupRemove(m, d) ==
  LET g == m.group[d]
      left == [m EXCEPT !.group[d] = NoGroup]
      empty == \A e \in Device \ {d} : m.group[e] # g
  IN  IF g # NoGroup /\ empty /\ m.seat[g.seat].keyboard = GroupKeyboard(g)
      THEN [left EXCEPT !.seat[g.seat].keyboard = NoKeyboard] ELSE left

\* hwd_keyboard_group_remove_invalid
GroupRemoveInvalid(m, s, d) ==
  IF m.group[d] # NoGroup /\ (~Grouped(m, s) \/ m.group[d].keymap # m.seat[s].keymap[d])
  THEN GroupRemove(m, d) ELSE m

\* hwd_keyboard_group_add
GroupAdd(m, s, d) ==
  IF m.group[d] # NoGroup \/ d \in Virtual \/ ~Grouped(m, s) THEN m
  ELSE [m EXCEPT !.group[d] = Group(s, m.seat[s].keymap[d])]

\* hwd_keyboard_configure
KeyboardConfigure(m, s, d) ==
  LET set == [m EXCEPT !.seat[s].keymap[d] = Keymap(m, d)]
      grouped == GroupAdd(GroupRemoveInvalid(set, s, d), s, d)
  IN  [grouped EXCEPT !.seat[s].keyboard = DeviceKeyboard(d)]

\* hwd_keyboard_destroy
KeyboardDestroy(m, s, d) ==
  LET left == GroupRemove(m, d)
  IN  [left EXCEPT !.seat[s].keymap[d] = "none",
                   !.seat[s].keyboard = IF @ = DeviceKeyboard(d) THEN NoKeyboard ELSE @]

-----------------------------------------------------------------------------
(* The devices of a seat. *)

On(m, s, d) == d \in ToSet(m.seat[s].devices)

\* hwd_input_configure_libinput_device: "*" is no output's name.
ConfigureLibinput(m, d) ==
  LET map == InputConfig(m, d)[1].map
  IN  [m EXCEPT !.silent = IF map # "default" /\ map \notin m.outputs THEN @ \cup {d} ELSE @ \ {d}]

\* seat_apply_input_config, of a device that is not built in and whose backend names
\* no output.
ApplyInputConfig(m, s, d) ==
  LET map == InputConfig(m, d)[1].map
  IN  IF map = "*" THEN [m EXCEPT !.seat[s].mapped[d] = "none"]
      ELSE IF map \in m.outputs THEN [m EXCEPT !.seat[s].mapped[d] = map] ELSE m

\* seat_configure_device
ConfigureDevice(m, s, d) ==
  IF ~On(m, s, d) THEN m
  ELSE IF DeviceType[d] = "keyboard" THEN KeyboardConfigure(m, s, d) ELSE ApplyInputConfig(m, s, d)

\* seat_reset_device
ResetDevice(m, s, d) ==
  IF ~On(m, s, d) THEN m
  ELSE CASE DeviceType[d] = "keyboard" -> KeyboardConfigure(m, s, d)
         [] DeviceType[d] = "pointer" -> [m EXCEPT !.seat[s].mapped[d] = "none"]
         [] OTHER -> m

\* seat_update_capabilities
UpdateCapabilities(m, s) ==
  [m EXCEPT !.seat[s].caps = {DeviceType[d] : d \in ToSet(m.seat[s].devices)} \ {"switch"}]

\* seat_add_device
AddDevice(m, s, d) ==
  IF On(m, s, d) THEN ConfigureDevice(m, s, d)
  ELSE UpdateCapabilities(ConfigureDevice([m EXCEPT !.seat[s].devices = <<d>> \o @], s, d), s)

\* seat_device_destroy
SeatDeviceDestroy(m, s, d) ==
  LET destroyed == IF DeviceType[d] = "keyboard" THEN KeyboardDestroy(m, s, d) ELSE m
  IN  [destroyed EXCEPT !.seat[s].devices = SelectSeq(@, LAMBDA e : e # d),
                        !.seat[s].mapped[d] = "none"]

\* seat_remove_device
RemoveDevice(m, s, d) ==
  IF On(m, s, d) THEN UpdateCapabilities(SeatDeviceDestroy(m, s, d), s) ELSE m

-----------------------------------------------------------------------------
(* Seats. *)

NoSeatState == [devices |-> << >>, keymap |-> [d \in Device |-> "none"], keyboard |-> NoKeyboard,
                caps |-> {}, mapped |-> [d \in Device |-> "none"]]

\* input_manager_get_seat(name, true) and seat_create
GetSeat(m, s) == IF s \in ToSet(m.seats) THEN m ELSE [m EXCEPT !.seats = <<s>> \o @]

\* seat_destroy
SeatDestroy(m, s) ==
  LET emptied == FoldLeft(LAMBDA n, d : SeatDeviceDestroy(n, s, d), m, m.seat[s].devices)
  IN  [emptied EXCEPT !.seats = SelectSeq(@, LAMBDA t : t # s), !.seat[s] = NoSeatState]

\* seat_apply_config
SeatApplyConfig(m, s) == FoldLeft(LAMBDA n, d : ConfigureDevice(n, s, d), m, m.seat[s].devices)

\* Mutant: a device that is attached to a seat stays with the fallback seats.
AttachKeeping(m, d) ==
  LET attached == {s \in ToSet(m.seats) : Attaches(m, s, d)}
      Wanted(s) == s \in attached \/ IsFallback(m, s)
  IN  FoldLeft(LAMBDA n, s : IF Wanted(s) THEN AddDevice(n, s, d) ELSE RemoveDevice(n, s, d), m, m.seats)

\* The second half of input_manager_apply_seat_config, for one device.
Attach(m, d) ==
  LET attached == {s \in ToSet(m.seats) : Attaches(m, s, d)}
      Wanted(s) == IF attached = {} THEN IsFallback(m, s) ELSE s \in attached
  IN  FoldLeft(LAMBDA n, s : IF Wanted(s) THEN AddDevice(n, s, d) ELSE RemoveDevice(n, s, d), m, m.seats)

\* input_manager_apply_seat_config
ApplySeatConfig(m, name) ==
  LET with == IF name = "*" THEN m ELSE GetSeat(m, name)
      named == IF name = "*" THEN with.seats ELSE <<name>>
      applied == FoldLeft(SeatApplyConfig, with, named)
  IN  FoldLeft(Attach, applied, applied.devices)

\* input_manager_verify_fallback_seat
VerifyFallback(m) ==
  IF \E s \in ToSet(m.seats) : \E i \in DOMAIN SeatConfig(m, s) : SeatConfig(m, s)[i].fallback # "unset"
  THEN m
  ELSE LET with == GetSeat(m, DefaultSeat)
           sc == [NewSeat(DefaultSeat) EXCEPT !.fallback = "yes"]
       IN  ApplySeatConfig([with EXCEPT !.seatConfigs = StoreSeat(@, sc)], DefaultSeat)

\* input_manager_configure_input and input_manager_reset_input
ConfigureInput(m, d) == FoldLeft(LAMBDA n, s : ConfigureDevice(n, s, d), ConfigureLibinput(m, d), m.seats)
ResetInput(m, d) ==
  FoldLeft(LAMBDA n, s : ResetDevice(n, s, d), [m EXCEPT !.silent = @ \ {d}], m.seats)

\* input_manager_apply_input_config
ApplyInput(m, id) ==
  FoldLeft(LAMBDA n, d : IF id \in {"*", d, DeviceType[d]} THEN ConfigureInput(n, d) ELSE n,
           m, m.devices)

-----------------------------------------------------------------------------
(* Commands, the configuration file and the reload. *)

\* cmd_seat and cmd_input: what a line stores
Store(m, line) ==
  IF line.kind = "seat" THEN [m EXCEPT !.seatConfigs = StoreSeat(@, line.sc)] ELSE StoreInput(m, line.ic)

\* cmd_seat and cmd_input of a line that is not read from the file
Run(m, line) ==
  LET stored == Store(m, line)
  IN  IF line.kind = "seat" THEN ApplySeatConfig(stored, line.sc.name) ELSE ApplyInput(stored, line.ic.id)

\* seat_cmd_attach defers its line until the configuration is active.
IsDeferred(line) == line.kind = "seat" /\ line.sc.attach # {}

\* destroy_removed_seats
DestroyRemovedSeats(m, old) ==
  LET removed == SelectSeq(old, LAMBDA sc : /\ sc.name # "*" /\ SeatConfig(m, sc.name) = << >>
                                            /\ sc.name \in ToSet(m.seats))
  IN  FoldLeft(LAMBDA n, sc : SeatDestroy(n, sc.name), m, removed)

\* load_main_config of an active configuration
Reload(m, lines) ==
  LET blank == [m EXCEPT !.seatConfigs = << >>, !.inputConfigs = << >>, !.typeConfigs = << >>]
      reset == FoldLeft(ResetInput, blank, blank.devices)
      verified == VerifyFallback(FoldLeft(Store, reset, lines))
      inputs == FoldLeft(LAMBDA n, ic : ApplyInput(n, ic.id), verified,
                         verified.inputConfigs \o verified.typeConfigs)
      seats == FoldLeft(LAMBDA n, sc : ApplySeatConfig(n, sc.name), inputs, inputs.seatConfigs)
  IN  DestroyRemovedSeats(seats, m.seatConfigs)

\* handle_new_input
HandleNewInput(m, d) ==
  LET known == VerifyFallback(ConfigureLibinput(ApplyInputType([m EXCEPT !.devices = <<d>> \o @], d), d))
      attached == {s \in ToSet(known.seats) : Attaches(known, s, d)}
      Wanted(s) == IF attached = {} THEN IsFallback(known, s) ELSE s \in attached
  IN  FoldLeft(LAMBDA n, s : IF Wanted(s) THEN AddDevice(n, s, d) ELSE n, known, known.seats)

\* handle_device_destroy
HandleDeviceDestroy(m, d) ==
  LET removed == FoldLeft(LAMBDA n, s : RemoveDevice(n, s, d), m, m.seats)
  IN  [removed EXCEPT !.devices = SelectSeq(@, LAMBDA e : e # d), !.silent = @ \ {d}]

\* handle_virtual_keyboard and handle_virtual_pointer, for a seat that the client
\* names or, failing that, the default seat
HandleVirtual(m, d, s) == AddDevice(GetSeat([m EXCEPT !.devices = <<d>> \o @], s), s, d)

-----------------------------------------------------------------------------
(* Actions. *)

Plug(d) == d \notin Virtual /\ d \notin ToSet(im.devices) /\ im' = HandleNewInput(im, d) /\ UNCHANGED imFile
Create(d, s) ==
  /\ d \in Virtual /\ d \notin ToSet(im.devices)
  /\ im' = HandleVirtual(im, d, s) /\ UNCHANGED imFile
Unplug(d) == d \in ToSet(im.devices) /\ im' = HandleDeviceDestroy(im, d) /\ UNCHANGED imFile

\* Start-up ends and the deferred lines are run.
Activate ==
  /\ ~im.active
  /\ im' = FoldLeft(Run, [im EXCEPT !.active = TRUE], SelectSeq(imFile, IsDeferred))
  /\ UNCHANGED imFile

Command(line) == im.active /\ im' = Run(im, line) /\ UNCHANGED imFile

\* The file is edited and the configuration reloaded.
ReloadFile(lines) == im.active /\ imFile' = lines /\ im' = Reload(im, lines)

\* A key is pressed or a modifier changes: the seat's keyboard is the group, or the
\* keyboard itself if it is in none (handle_modifier_event).
KeyEvent(d) ==
  /\ DeviceType[d] = "keyboard" /\ d \in ToSet(im.devices)
  /\ im' = IF im.group[d] # NoGroup THEN [im EXCEPT !.seat[im.group[d].seat].keyboard = GroupKeyboard(im.group[d])]
           ELSE [im EXCEPT !.seat = [s \in DOMAIN @ |->
                   IF On(im, s, d) THEN [@[s] EXCEPT !.keyboard = DeviceKeyboard(d)] ELSE @[s]]]
  /\ UNCHANGED imFile

\* output_enable configures cursors; output_disable configures all inputs, and
\* wlroots takes the mappings to an output away with it.
OutputEnable(o) == o \notin im.outputs /\ im' = [im EXCEPT !.outputs = @ \cup {o}] /\ UNCHANGED imFile
OutputDisable(o) ==
  LET gone == [im EXCEPT !.outputs = @ \ {o},
                         !.seat = [s \in DOMAIN @ |-> [@[s] EXCEPT !.mapped =
                                     [d \in Device |-> IF @[d] = o THEN "none" ELSE @[d]]]]]
  IN  o \in im.outputs /\ im' = FoldLeft(ConfigureInput, gone, gone.devices) /\ UNCHANGED imFile

\* The names of seats that the files, the commands and the default bring about.
SeatName ==
  LET lines == {l \in Commands \cup UNION {ToSet(f) : f \in Files} : l.kind = "seat"}
  IN  ({DefaultSeat} \cup {l.sc.name : l \in lines}) \ {"*"}

IMInit ==
  /\ imFile \in Files
  /\ im = FoldLeft(Store,
            [devices |-> << >>, seats |-> <<DefaultSeat>>, seat |-> [s \in SeatName |-> NoSeatState],
             group |-> [d \in Device |-> NoGroup], silent |-> {}, outputs |-> Output, active |-> FALSE,
             seatConfigs |-> << >>, inputConfigs |-> << >>, typeConfigs |-> << >>],
            SelectSeq(imFile, LAMBDA l : ~IsDeferred(l)))

IMNext ==
  \/ \E d \in Device : Plug(d) \/ Unplug(d) \/ KeyEvent(d)
  \/ \E d \in Device : \E s \in ToSet(im.seats) \cup {DefaultSeat} : Create(d, s)
  \/ Activate
  \/ \E line \in Commands : Command(line)
  \/ \E lines \in Files : ReloadFile(lines)
  \/ \E o \in Output : OutputEnable(o) \/ OutputDisable(o)

IMSpec == IMInit /\ [][IMNext]_imVars

-----------------------------------------------------------------------------
(* Properties. *)

IMTypeOK ==
  /\ IsInjective(im.devices) /\ ToSet(im.devices) \subseteq Device
  /\ IsInjective(im.seats) /\ ToSet(im.seats) \subseteq SeatName
  /\ \A s \in SeatName : /\ IsInjective(im.seat[s].devices)
                         /\ ToSet(im.seat[s].devices) \subseteq ToSet(im.devices)
                         /\ s \notin ToSet(im.seats) => im.seat[s] = NoSeatState
  /\ im.outputs \subseteq Output /\ im.silent \subseteq ToSet(im.devices)

\* A group's members are keyboards of the group's seat with the group's keymap, and
\* grouping is on; the keyboard that a seat sends to clients is one of its devices
\* or groups ("Cannot find hwd_keyboard for seat keyboard", seat.c 214).
KeyboardsAreKnown ==
  /\ \A d \in Device : LET g == im.group[d] IN
       g # NoGroup => /\ d \notin Virtual /\ On(im, g.seat, d) /\ im.seat[g.seat].keymap[d] = g.keymap
                      /\ Grouped(im, g.seat)
  /\ \A s \in ToSet(im.seats) : im.seat[s].keyboard \in
       {NoKeyboard} \cup {DeviceKeyboard(d) : d \in ToSet(im.seat[s].devices)}
         \cup {GroupKeyboard(g) : g \in {h \in Range(im.group) : h.seat = s}}

\* Whatever order devices, seats, commands and reloads come in, a plugged-in device
\* is on the seats that its configuration attaches it to and else on the fallback
\* seats ("try to add it to a seat and if no seat has it attached, add it to the
\* fallback seats", input_manager.c 535), its keyboards have the keymap that is
\* configured for it, the keyboards of groups and of seats are theirs, and a seat offers
\* clients what its devices can do.
DevicesFollowConfig ==
  /\ KeyboardsAreKnown
  /\ \A s \in ToSet(im.seats) :
       /\ im.seat[s].caps = {DeviceType[d] : d \in ToSet(im.seat[s].devices)} \ {"switch"}
       /\ \A d \in ToSet(im.devices) :
            LET attached == {t \in ToSet(im.seats) : Attaches(im, t, d)}
            IN  /\ d \notin Virtual => On(im, s, d) = IF attached = {} THEN IsFallback(im, s) ELSE s \in attached
                /\ On(im, s, d) /\ DeviceType[d] = "keyboard" => im.seat[s].keymap[d] = Keymap(im, d)

\* Not so, and checked by no run (README, section 4): a device that is mapped to an output
\* sends events while that output is there
\* ("otherwise, if ic->send_events is unset and a mapped output just came online
\* after being disabled, we'd remain stuck sending no events", libinput.c 236).
OnlineInputSendsEvents ==
  \A d \in ToSet(im.devices) \ Virtual : InputConfig(im, d)[1].map \in im.outputs => d \notin im.silent
=============================================================================

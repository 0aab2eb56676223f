# hayward in TLA+

hayward is a tiling Wayland compositor written in C on top of wlroots. This
directory holds TLA+ models of its logic, the TLC configurations that check
them on small instances, and proofs that TLAPS checks. Definitions are
translated from the C source; comments in the modules name the functions.
`PROJECT.json` maps every definition to the lines it models.

The program is one thread around one event loop. There is no preemption: what
makes it hard is that a callback of the loop (a client request, a timer, an idle
source, an input event) leaves state behind that the next callback, in an order
nobody chose, has to find consistent. Every model therefore has one action per
callback or command, which does everything the callback does, and inside a
callback only the emission of a signal is split into steps, because listeners
run in an order that depends on when they were registered.

## 1. Inventory

| component (source) | state | operations | who it talks to | what is hard, what makes it correct |
|---|---|---|---|---|
| transaction manager (`tree/transaction.c`) | phase, `queued`, idle source, timer, `num_waiting`, three signals | ensure_queued, idle `handle_commit`, acquire and release of commit locks, `handle_timeout`, `transaction_progress` | every tree node registers commit, apply and after_apply listeners; views take locks | answers, timers and edits in any order; the counter may not wrap; no change may be lost; the screen must change in whole steps |
| window tree and focus (`tree/root.c`, `workspace.c`, `column.c`, `window.c`, `output.c`) | workspaces, columns of windows, floating windows, fullscreen lists of outputs, active child at every level, focus, three copies of all of it | map, unmap, fullscreen and activate requests, clicks and hovers, commands, hot-plugging, arranging | shells, commands, seat operations, the transaction manager | pointers kept in both directions, containers that must disappear when empty, a focus computed from five fields, copies that are refreshed only for what was marked dirty |
| xdg-shell views (`desktop/xdg_shell.c`) | last configured size and state, awaited serial | commit of a window, surface commit, map, unmap, requests | transaction manager (locks), tree (map and unmap), clients | requests are coalesced and answered out of step with transactions |
| XWayland views (`desktop/xwayland.c`) | as above, plus unmanaged surfaces | map, unmap, configure requests, override-redirect changes | tree, root focus, seat | a surface changes its kind at run time; unmanaged surfaces take the focus |
| layer shell (`desktop/layer_shell.c`) | surfaces per layer, exclusive zones, keyboard interactivity | map, commit, unmap, output destruction | root focus, output arrangement | a focused surface is unmapped or loses its output |
| seats and focus (`input/seat.c`) | keyboard focus, exclusive client, devices, operation | set focus, add and remove devices, begin operations | root focus signals, input method relay, cursor | the exclusive client of a lock screen; devices that come and go |
| seat operations (`input/seatop_*.c`) | the running operation and the windows it refers to | begin, button, motion, unref, end | tree, cursor | the window under the operation is destroyed |
| cursors (`input/cursor.c`) | focused surface, constraint, hide timer | motion, buttons, touch, constraints | seat operations, root focus | a constraint outlives its surface; touch takes another path than the pointer |
| keyboards, switches, tablets (`input/keyboard.c`, `switch.c`, `tablet.c`) | pressed keys, held binding, repeat timer, groups | key, modifiers, repeat, keymap change | commands, seat, configuration | press and release must match the same binding; bounded arrays |
| input method relay (`input/text_input.c`) | text inputs, the input method, pending focus | focus changes, enable, disable, connect, disconnect | seat focus | the input method connects and disconnects in between |
| input manager (`input/input_manager.c`, `libinput.c`) | devices, seats | new device, seat assignment, configuration | configuration, seats | seats must exist and devices be attached exactly as configured |
| session lock (`lock.c`) | the lock, its surfaces, abandoned flag | lock, unlock, abandon, new output | seats, root focus | lock client dies; outputs appear while locked |
| workspace protocol (`desktop/hwd_workspace_management_v1.c`) | handles per client, idle source | create, destroy, focus | tree after a transaction | a client binds in the middle of changes |
| output management (`desktop/wlr_output_management_v1.c`) | heads announced | apply, test | outputs, layout | test must not change anything |
| idle inhibitors (`desktop/idle_inhibit_v1.c`) | inhibitors | create, destroy, check | views | an inhibitor outlives its window |
| frame scheduler (`scheduler.c`) | last presentation, refresh period, repaint timer | frame, present, buffers | outputs, clients | rounding and past deadlines |
| configuration and commands (`config.c`, `commands.c`, `commands/*.c`, `config/*.c`) | bindings, seats, inputs, options | load, reload, each command | everything | a reload while old objects are in use |
| lists (`list.c`) | a growing array of pointers | add, insert, move, remove, stable sort | everything | indices at the ends |
| xdg activation, decorations, drag icons, scene nodes, theme, start-up, haywardnag | little or none | pass-through | wlroots, files | drawing and I/O: not modelled |

`PROJECT.json` lists them with the files, and every hazard with its line.

## 2. Modules

| module | models | state and actions |
|---|---|---|
| `AtomicLayout` | what transactions promise (`transaction.h` 13-28) | `wanted`, `agreed`, `shown`; Edit, Snapshot, Show |
| `Transaction` | `tree/transaction.c` with the listeners of the tree's nodes | `phase`, `queued`, `numWaiting`, ... are the fields of `struct hwd_transaction_manager`; `dirty`, `onApply`, `onAfterApply` are membership of a node in the three signals; `pending`, `committed`, `current` the copies of its state. One action per callback (Create, Edit, BeginDestroy, HandleCommit, EndConfigure, HandleTimeout) and one per listener call (CommitNode, ApplyNode, AfterApplyNode) |
| `XdgShellView` | the configure handshake of `desktop/xdg_shell.c`, composed with `Transaction` (EXTENDS it, and joins its actions with those of the view and its client) | `configured`, `configureSerial`, `force` are the view's fields; `scheduled`, `sent`, `answered`, `rendered` are wlroots and the client, modelled from their use |
| `TransactionProofs` | theorems on `Transaction` and on `XdgShellView`, and that the latter implements the former | |
| `Tree` | the window tree: `tree/root.c`, `workspace.c`, `column.c`, `window.c`, `output.c`, the handlers that map, unmap and focus, and the commands that change the tree | one record `tree`, whose fields are those of the C structs (`columns[s]` is `workspace->columns`, `colOutput[c]` is `column->output`, ...). An operator is a C function from tree to tree; an action is a callback or a command |
| `TreeProofs`, `TidyProofs` | theorems on `Tree`: structure, focus and fullscreen; what may stay empty and the active output | |
| `InputMethodRelay` | `input/text_input.c`, with the part of `input/seat.c` that gives it the focus | `textInputs` is `relay->text_inputs`, `pendingFocus` and `entered` what a text input waits for and is focused on, `inputMethod` whether one is connected, `active` what it was last told, `focusedSurface` is `seat->focused_surface`, `keyboard` the surface wlroots sends keys to. One action per signal handler; the root's focus and the lock's choice of clients are inputs |
| `InputMethodRelayProofs` | theorems on `InputMethodRelay` | |
| `Bindings` | the keys of one keyboard (`input/keyboard.c`), the bindings they run (`commands/bind.c`, `mode.c`), switches (`input/switch.c`) and the reload that replaces all bindings (`config.c`, `commands/reload.c`) | `shortcut`, `pressedSent`, `held`, `repeat` are fields of `struct hwd_keyboard`; `modes` is `config->modes`; a reference to a binding says whether the binding has been freed. PressKey, ReleaseKey, KeyboardRepeat, SwitchToggle, DoReload, and the locks, inhibitors and grabs that come and go (SeatChanges) |
| `InputManager` | `input/input_manager.c`, `libinput.c`, the devices of `input/seat.c`, keyboard groups (`keyboard.c` 764-1046), `config/seat.c`, `config/input.c`, the lines of the file that configure them | one record `im`: `server.input`, its seats with their devices and groups, the stored configurations. Plug, Create, Unplug, Activate, Command, ReloadFile, KeyEvent, OutputEnable, OutputDisable |
| `Cursor` | `input/cursor.c`: images, hiding, the pointer that is simulated for touch and tablets | one record `cu` with the fields of `struct hwd_cursor`; an action per event of a device, timer or client |
| `SeatFocus` | what the root's focus does to a seat: keyboard focus, tablet pads, pointer constraints, with `lock.c` and the focus of `desktop/layer_shell.c` | one record `sf`; windows, layer surfaces and lock surfaces that map, unmap, get the focus or lock |
| `Seatop` | `input/seatop_*.c`: the operation of a seat, and the columns and windows it refers to | one record `so`: `op` is `seat->seatop_impl` and `seat->seatop_data`, the rest is the workspace it works on. Buttons, tips, motion, and everything that happens to windows meanwhile |
| `Xwayland` | `desktop/xwayland.c` | one record `xw`: for each X11 surface, its object (a view, an unmanaged surface), association, listeners, window and focus; one action per event of the X server's side, user or transaction |
| `WorkspaceProtocol` | `desktop/hwd_workspace_management_v1.c`, with the parts of `tree/workspace.c` and `root.c` that call it | one record `wp`: handles, what each client was told, the idle source, and the workspaces |
| `BindingsProofs`, `SeatProofs`, `DesktopProofs` | theorems on `Bindings`; `Cursor`, `SeatFocus` and `Seatop`; `Xwayland` and `WorkspaceProtocol` | |
| `DataTheorems` | what folds and sequences compute, for those proofs | |
| `MCTransaction`, `MCXdgShellView`, `MCTree` | instances for TLC: sets of nodes, symmetry, views | |
| `MCInput` | `InputMethodRelay`, `Bindings`, `InputManager`, `Cursor` and `SeatFocus` in one run | the variable `part` names the one that moves, the others stay as they start: the components share no variable, so nothing is lost, and their states add up instead of being multiplied |
| `MCDesktop` | `Seatop`, `Xwayland` and `WorkspaceProtocol`, in the same way | |

`Transaction` abstracts what the tree is: a node's state is one of a few looks,
and any node may be edited whenever code of the compositor can run. `Tree`
abstracts what a transaction is: `Arrange` is the callback
`root_handle_transaction_before_commit`, which rebuilds the pending copies of
the nodes that are marked, and `dirty` is the input that `Transaction` takes for
granted. `Transaction` shows that what is marked reaches the screen atomically,
`Tree` that what has changed is marked (`ArrangementIsCurrent`).

Modules that describe a state with many fields which helpers of the code change
in turn (`Tree`, `InputManager`, `Cursor`, `SeatFocus`, `Seatop`, `Xwayland`,
`WorkspaceProtocol`) keep it in one record. An operator then is a C function from
state to state, and calls compose as they do in the source. Where the components
meet, each takes the others as inputs that may come at any time:

- `SeatFocus` contains `root_commit_focus` and says which surface of which client
  gets the keyboard. `InputMethodRelay` takes that as an input (CommitFocus,
  LockChanged), `Bindings` takes from it whether input is inhibited.
- `Cursor` says when a finger or a tool presses and releases a button of the
  pointer, `Seatop` what the operation of the seat makes of it; a press that is
  simulated is not counted in `pressed_button_count`, which is why `SeatopButton`
  has the parameter `counted`.
- `Seatop` and `Xwayland` reduce the tree to the one workspace that matters to
  them, `Tree` has all of it without operations.
- `Xwayland` and `XdgShellView` reduce or share the transaction manager of
  `Transaction`.

A C assertion that fails, or memory that is used after it was freed, stops a model:
its record is marked (`failed`, `crashed`) and no step follows, so that invariants
are about the states a running program can be in. Whether a model stops at all
is a property of its own, and where it does it is in section 4.

Some representations in `Tree`:

- `tree.overlay` stands for the pair `active_unmanaged`, `active_layer`, and
  `tree.focused` for the triple that `root_commit_focus` keeps of what it last
  announced.
- `tree.crashed` says that the program has stopped: at the assertion of
  `root_set_focused_window` or `window_fullscreen_on_output`, or at a NULL
  pointer in `window_get_theme` or `window_tiling_move_to_output_from_direction`.
  No step follows.
- `Settled` drops pending copies that the next `Arrange` overwrites before it
  reads them; `Forgotten` recycles columns that nothing refers to and windows
  that are dead and on no list. Both keep the state space finite and neither is
  visible to an operator of the code.
- The marks a C function makes are unions with `dirty`, in no order: all of them
  are flags.

What `Inputs` turns on are kinds of input after which an invariant of the other
runs no longer holds (section 4): `touch`, `hover` (focus follows the mouse over
a gap), `mouse binding` (a command runs on a window that is not focused) and
`other output` (a window goes fullscreen on another output than its own).

## 3. Bounds

| bound | value | why it is enough |
|---|---|---|
| windows, outputs in `Transaction` | two windows, or two and an output | the manager treats nodes alike; two windows give every order of answers, and the output is a participant that nobody waits for. The proofs hold for any number |
| looks of a node | one, or two | two layouts are needed to tell an old snapshot from a new one |
| `MaxSerial` | 3 | a superseded request, the one waited for and a later one |
| windows in `Tree` | three on one output; two when copies or two outputs are checked; one with every kind of input | three give a column with a middle child, two columns one of which has two windows, and a floating stack beside them; two give every case in which the focus passes from one window to another |
| workspaces in `Tree` | two | one shown and one hidden, which is created and destroyed over and over |
| columns in `Tree` | six, or three | an unused column must be at hand for a step to be taken (`ColumnLeft`). Six is never reached in the runs that use it. Three are reached, because a `floating disable` on a window that already is tiled can leave an empty column behind, each time another one |
| text inputs | one of each of two clients | what a text input does depends on whether the focus is on its own client, and on whether it is the first that waits. With two of one client assertions fail (section 4) |
| surfaces in `InputMethodRelay` | two of one client, one of the other, and one of a lock | the focus moves within a client, between clients, and is forced |
| outputs in `Tree` | one, or two side by side | moves to the left and the right cross outputs, moves up and down do not |
| keys in `Bindings` | a modifier, a key with bindings and one that switches terminals; `KeysCap` 2 | the list of pressed keys (32 in the code) overflows with the third key; more keys only repeat it |
| bindings | two files: three bindings of one key for a lock, a layout group and a device, with commands that reload and rebind; one on release and one that unbinds | each pair of preferences meets, each way to free a binding is taken while one is held or repeats |
| devices in `InputManager` | two keyboards and a virtual one, two seats, an output; three files and two commands | attachment, fallback and wildcard seats, keymaps for all inputs, a type and a device, groups of two keyboards and of one |
| fingers, tools in `Cursor` | one finger, one tool with a tip and a button | with two fingers `SimulatedPressesEnd` does not hold (section 4) |
| surfaces in `SeatFocus` | a window of each of two clients, a layer surface of one of them and one of the locking client, a lock surface; a constraint on any window | each kind of focus of `root_get_focused_surface` occurs, with each relation of its client to the lock's |
| windows in `Seatop` | two in a column, room for a second, stacked one; an edge and a corner; one mouse binding | a dragged window leaves an empty column or one with a sibling; the siblings of a tiled resize exist or not |
| `MaxButtons`, `Pressable` | 1 | counts beyond one only delay the end of an operation |
| X11 surfaces | a view that may change its kind, and a menu that may be its child | parents, children and the focus that passes between the two kinds; one geometry besides none |
| clients, workspaces in `WorkspaceProtocol` | two and two | a client that binds early and one that binds late, a workspace that is left and one that is shown |

`MCTree` has two TLC views. `View` drops marks that change nothing. `Structure`
drops all marks and copies and the names of columns: only `Arrange` reads marks
and copies and it writes nothing else (besides stopping the program), so
invariants of the tree alone may be checked on it.

## 4. Runs

Passing runs:

| run | shows |
|---|---|
| `transaction` | `LocksAreCounted`: `num_waiting` is the number of clients still to answer; `CallbacksAreSafe`: no callback finds a phase that an assertion excludes; `WaitIsBounded`: whoever waits has a timer; `NoLostChange`: what is marked during a transaction gets one of its own; `FrozenOnlyInTransaction`, `NoUseAfterFree`: buffers and nodes live exactly as long as needed. `ChangesAreCommitted`, `TransactionsEnd`, under the fairness of section 5; `LayoutIsAtomic`: `Transaction` implements `AtomicLayout`. The timer may fail to be created |
| `xdg_handshake` | `ReadyMeansRendered`: no answer to an old request ends a wait; `AnswerIsComing`: the awaited request exists until it is answered |
| `tree_one_output` | `PlacedOnce`: lists and back pointers agree; `ActivePathIsValid`; `NothingStaysEmpty`; `FocusIsCommitted`: no callback leaves an unannounced focus; `FullscreenIsListed`; `UnmapKeepsFocus` |
| `tree_copies` | `ArrangementIsCurrent`: arranging what is marked gives what arranging everything would |
| `tree_two_outputs` | `TreeIsSound`, the first three together, with columns on two outputs, and `ActiveOutputIsFocused` |
| `tree_all_inputs` | one window, and every kind of input, commands on a window that has not got the focus included: `StructureIsSound`, which is `PlacedOnce` and `ActivePathIsValid`, survives |
| `input`, text inputs | `OneTextFocus`: text inputs are focused on, or wait for, one surface at a time; `FocusedOrPending` and `WaitsForInputMethod`: never both, and which of the two depends on the input method; `StopsWithFocus`: it is deactivated when the focus leaves its text input |
| `input`, keys | `ClientKeysAreDown`: who was told of a press is told of the release, whatever bindings, locks and grabs do in between; `BestBindingRuns`: of the bindings that match, none is more specific than the one that runs |
| `input`, devices | `DevicesFollowConfig`: after any order of hot-plugging, commands and reloads, devices are on the seats the configuration says, with its keymaps; groups hold keyboards with one keymap; a seat offers what its devices can do |
| `input`, cursor | `CursorIsShown`: what is displayed is the current image unless hidden, and the timer runs when it should; `SimulatedPressesEnd`: a press simulated by a finger or a tip ends with it |
| `input`, focus | `LockedInputIsKept`: under a lock nobody else gets keys or pads; `FocusIsHeld`: a constraint is active only for the focused surface, a focused layer surface is mapped |
| `desktop`, operations | `OperationIsLive`: an operation only refers to live windows and columns, whatever closes, floats or moves during it |
| `desktop`, XWayland | `SurfacesAreShown`: a surface is shown as long as it is mapped and leaves no listener behind; `ActiveIsFocused`; `WaitCanEnd`: a transaction waits only for a window that was asked for what it waits for |
| `desktop`, workspaces | `ClientsKeepUp`: clients have a resource of each handle, know its state, and get a `done` after all they are told |

Violation runs: each checks one statement of a comment or an assertion of the
repository that the code does not keep. The details and the quotations are in
`PROJECT.json`, `findings`.

| run | what happens |
|---|---|
| `tree_shown` | a window that leaves fullscreen stays the one its output draws; if it then closes, the next transaction looks up its workspace, which is NULL |
| `bindings_reload` | a binding that runs on release is held while a reload or an unbind frees it, and its release runs it |
| `session_lock` | a lock takes the focus from another client's window by focusing no window, which is asserted not to happen |
| `workspace_focus` | a workspace that is left is never arranged again, so its clients are not told that it lost the focus, nor that it is gone |

Disagreements seen while modelling that have no run of their own. Where a property
states one, it is named, and no run checks it:

Transactions and the tree:

- A window that is unmapped while its client is waited for keeps its lock
  (`xdg_shell.c` 498): the others wait for nobody until the timeout, while
  `transaction.h` 21 says "We then wait for all the views to respond". With
  `WaitsOnlyForTheLiving` as an invariant TLC shows it.
- `window_reconcile_tiling` (`window.c` 529) resets the output of a window that is
  fullscreen on another one, whose list keeps it, also when it closes; `root.c` 600
  asserts otherwise. With `"other output"` in `Inputs`, `FullscreenIsListed` fails, and
  so do `NothingStaysEmpty` and `ActiveOutputIsFocused`.
- `handle_touch_down` (`cursor.c` 462) calls `root_set_focused_window` without
  `root_commit_focus`, so that the next transaction starts with a focus nobody
  announced, which `root.c` 127 asserts cannot be. With `"touch"` in `Inputs`,
  `FocusIsCommitted` fails.
- `check_focus_follows_mouse` (`seatop_default.c` 633 and 653) sets the active
  output when the pointer is over a gap of another output and leaves the active
  column alone; `root_validate` (`root.c` 652-656) asserts that they agree. With
  `"hover"` in `Inputs`, `ActiveOutputIsFocused` fails.
- `cmd_floating` (`floating.c`) does not look at the column that a window leaves when it is tiled
  already: `floating disable` on it, run by a binding of a mouse button, takes it to the
  active column and may leave its own column empty. With `"mouse binding"` in `Inputs`,
  `NothingStaysEmpty` and `ActiveOutputIsFocused` fail.
- `workspace_get_fullscreen_window_for_output` (`workspace.c` 981) never looks at
  its workspace: a fullscreen window of a hidden workspace keeps a window that
  opens from the focus, while `output.h` 46 speaks of the last window "on the
  current workspace".
- `workspace_add_floating` (`workspace.c` 617) makes a floating window that opens
  under a fullscreen floating one the active one, and so gives it the focus that
  `should_focus` (`xdg_shell.c` 543) refused it.
- `cmd_move_in_direction` (`move.c` 383) replaces the output history of a floating
  window and leaves `window->output` alone; `root_validate` (`root.c` 563-576)
  asserts that the output is the first of the history.
- `window_tiling_move_to_next_output` (`move.c` 168) finds the next output and
  passes on the one the window is on: moving a window left or right beyond the
  edge of its output does nothing, and "Returns true if moved" (172) is true.
- `seat_send_unfocus` (`seat.c` 802) does not tell the relay: when nothing has the
  focus any more, or the new surface is refused it by a lock, a text input stays
  focused, while `text_input.h` 21 calls its focus "a subset of keyboard focus".
- `view_notify_ready_by_serial` (`xdg_shell.c` 310) counts only an answer with the
  very serial it noted. A focus change schedules another request; a client that
  acknowledges only the later one is waited for until the timeout.

Input:

- `relay_handle_input_method` (`text_input.c` 299) enters only the first of the text
  inputs that wait; with two of one client the second is later focused and pending
  at once, which line 331 asserts cannot be: `FocusedOrPending` fails.
- The release of a key whose press an input method's grab got is not sent to the grab
  when it runs a held binding; the handler of a group's leave event forgets the keys that
  were sent and tells nobody (`keyboard.c` 655); repeating and held bindings
  without `--locked` run on after a lock.
- A keyboard that moves to another seat is in no group until it is configured again;
  seats that the file names are only created by `attach` lines, so that the
  fallback of `seat seat1 fallback true` is another one after each of the first two
  reloads; `apply_input_type_config` at plugging makes the precedence of types
  depend on the order of devices.
- `output_enable` (`output.c` 164) does not configure inputs, so that a device mapped to
  an output that was off keeps sending no events, which the comment at `libinput.c` 236
  means to prevent (`OnlineInputSendsEvents`); `map_to_output *` disables a device.
- `handle_touch_up` compares the finger that simulates the pointer with the last one that
  was put down (`cursor.c` 491): with two fingers a simulated press may stay for ever
  (`SimulatedPressesEnd` with `Finger = {1, 2}`), which is why the run has one.
- Of two bindings that match, `get_active_binding` first prefers the one for the current
  layout group, and under "Prefer correct group for matching inputs" (`keyboard.c` 309)
  keeps the first also when the second is for the same group and has the right lock state,
  which "Prefer correct lock state for matching input+group" announces. `BestBindingRuns`
  holds where two bindings for a group that are otherwise alike agree on `--locked`
  (`GroupsDecide`), as those of the runs do, and is proved under it.
- If the client that locks the session also owns a window, `seat_send_focus` accepts its
  window, and its constraint stays active while a layer surface has the focus that
  the lock refuses the keyboard: `FocusIsHeld` fails. It is checked and proved
  for lock clients that have no windows (`NoLockingWindows`).
- A tool's button that is pressed beside and released over a surface that understands
  tablets stays down; `handle_tool_tip` dereferences the data of a tool that was
  never near.
- A reload that disables pointer constraints leaves the active one active
  (`cursor.c` 1362).
- `handle_unlock` (`lock.c` 99) leaves the exclusive client that `handle_session_lock`
  set, which `handle_abandon` resets: other clients get no input after unlocking.
  A focus change under the lock takes the keyboard from the lock surface.
- An output that is disabled while its layer surface has the focus takes the listeners
  away: the root's focus is left dangling when the client unmaps the surface.
  `handle_new_surface` uses the first output without asking whether there is one.

Windows and their clients:

- Operations (`NoOperationFails`): resizing a tiled window at a corner without a neighbour
  passes NULL to `column_set_resizing` or `window_set_resizing`, which assert; `handle_unref` of
  a tiled resize reads its data after freeing it; `cmd_move_window` does not end operations and
  leaves them with a window of another workspace; of a move, `handle_unref` clears the
  window before `handle_end` looks for it, so that it is drawn as moving for ever.
  A client that requests a move again during one leaks the preview column.
- X11 (`NoDeadWindow`): `self->window` is not reset when a view is unmapped, although
  `xwayland.h` says "NULL if unmapped and transactions finished": title, hints and parents go to
  a dead window. `geometry`, "Updated on every commit", never is. Changing
  override-redirect while associated leaves the old object's listeners. An unmanaged surface
  that is unmapped without a focusable parent keeps the focus. A request to leave
  fullscreen is not granted.
- The workspace protocol: `destroy` of a handle has no handler, a request for the focus no
  listener, a client that binds late is not told which workspace has the focus
  ("All initial properties", xml 62), and the end of a handle is followed by no `done` of
  its own.
- Output management: applying a configuration never enables or disables an output in the
  tree, and testing one still adds it to the layout.

Deadlock is not checked: a compositor with nothing to do waits, and models stop when
the program does.

## 5. Fairness

`FairSpec` of `Transaction` is the only specification with fairness. It asks
that the idle source runs (`StartCommit`), that an armed timer fires
(`HandleTimeout`) and that a signal emission in progress goes on (`Emission`).
All three are what the event loop does by itself. Clients and users get none: a
client may stay silent for ever, and `TransactionsEnd` shows that the timer is
enough.

## 6. Proofs

`TransactionProofs` proves, for every finite set of windows, every set of other
nodes and every value of the debug flags, that the properties of
`transaction` are invariants and that `Transaction` implements
`AtomicLayout`. It assumes what `Transaction` assumes of its constants
(`WindowAssumption`, `LookAssumption`, `FlagAssumption`) and nothing else.

None of the properties is inductive by itself. The inductive invariant `IInv`
adds what the code relies on without saying so:

- `EmissionInv`: while a signal is emitted, the listeners still to be called are
  exactly those linked into it, so that a listener that marks its node dirty
  again cannot slip into the emission in progress;
- `PhaseInv`: which lists are empty in which phase. A node leaves the apply list
  before it can be marked again and applied a second time, and saved buffers
  belong to windows that are to be applied;
- `ManagerInv`: the idle source is only armed when idle, the timer exactly when
  waiting, and a dirty node outside of the commit means `queued`;
- `NodeInv`: death goes through `pending`, `committed` and `current` in this
  order, and is never followed by a mark. This is what makes freeing safe;
- `CopyInv`: a copy is behind the one before it only while its node is on the
  list whose emission makes it. Atomicity follows from it: when an emission ends,
  every node's next copy is up to date;
- `LocksAreCounted`, whose preservation needs the cardinality lemmas
  `AcquireCounts` and `ReleaseCounts`.

There is one lemma per action (`...Step`), joined in `NextInv`, and for the
refinement one per action again (`...Mapped`), which says that the action is a
step of `AtomicLayout` or changes nothing it sees. `MappedNext` joins those,
`Implements` is the result. TLC checked `IInv` before it was proved.

`InputMethodRelayProofs` proves, for every set of clients, surfaces and text
inputs, that `OneTextFocus` holds whatever the clients bind and do, and that
`WaitsForInputMethod` and with it `FocusedOrPending`, the assertions of
`hwd_input_method_relay_set_focus`, hold if every client binds one text input
(`OnePerClient`): the assumption without which the assertions fail (section 4). `RelayTypeOK` and `OneTextFocus` are inductive together: a
surface that two text inputs share is given to both by the same call of
`set_focus`, and the other steps only move it within a text input or clear it
(`Recedes`). That the list has no element twice, a part of the type invariant, is
what makes the first text input that waits the only one.

`TransactionProofs` also proves that the views and their clients add nothing to the
manager: every step of `XdgShellView` is a step of `Transaction` or changes nothing it
sees (`ViewsAreTransactional`). All that is shown of `Spec`
therefore holds of `XSpec`, and `XInv` only has to speak of serials. For each
window it says that the serials of the requests under way are distinct, increase and are
above the answered one (`SerialInv`), that the request which is awaited shows what was
committed (`LookInv`), that a window that is waited for is one that holds a lock
(`FrozenInv`), and that its request is scheduled, sent or answered (`ComingInv`).
`ReadyMeansRendered` and `AnswerIsComing` follow, for any number of windows
and any bound on the serials.

The other modules are about records, which handlers change by calling helpers. There
is one lemma for each such operator, which says what it makes of *any* record that
satisfies the invariant or the part of it that holds at that point of the handler;
an event follows from the lemmas of what its handler calls.

- `SeatProofs`, the cursor. `CursorInv` says that what is displayed is the image unless
  hidden, and nothing without a pointer (`ShownInv`), that the timer runs when it should
  and never with a button down (`TimerInv`), and how a simulated press will end
  (`PressInv`). `ImageIsCurrent` is proved for all images, buttons and fingers;
  `SimulatedPressesAreHeld` needs `FingerInv`, the finger that simulates the
  pointer is the last put down, which only one finger makes true: the hypothesis
  `OneFinger` is the limit of the code that section 4 describes.
- `SeatProofs`, the focus. `CoreInv` relates the seat to the root's focus and the
  constraint that is active to the one its client was told of; `LockKeepsInput` needs
  nothing more. `FocusHeld` needs `HeldInv`: between a change of the tree and
  `root_commit_focus` the seat's focus is the old one, and only when it is a layer
  surface or no window has the focus may a callback end so (`CommitInv`).
  Its hypothesis is `NoLockingWindows` (section 4). `ClientAssumption` says that every
  surface belongs to a client, and nothing about which.
- `SeatProofs`, the operations. `PlaceInv` says that a window is in one place at most and that
  lists hold nothing twice: an invariant of the tree that makes taking a window from
  its list the same as taking it from the set, and lets `ColumnOf` speak of *the* column.
  `OpInv` says what an operation refers to: a move knows a destination only once the window
  floats, and what a resize in a column refers to is in the column of its window,
  unless a window was taken to another workspace meanwhile. `handle_unref` is called before a
  window goes by some callers and after it has moved by others: `OpBut` is `OpInv` but for
  what it says of that window, is kept by moving it, and becomes `OpInv` again by the call.
- `BindingsProofs`, for every configuration file, set of keys and capacity of the lists.
  `KeysInv` is the reason for `ClientKeysAreDown`: a key that a client holds is one whose
  press the keyboard remembers to have sent, or one that the full list forgot, and
  a keyboard in a group sends nothing. The lists stay within their capacity
  (`BindingsTyped`) because a key is appended only where there is room, by an
  induction on their sizes. `BestMatchRuns` is an induction along the list of bindings, of
  which the fold in `get_active_binding` keeps one: the one kept so far is no less
  specific than those seen, and the preference is transitive as far as it has to be.
  Hypothesis: `GroupsDecide` (section 4).
- `DesktopProofs`, the workspace protocol. `ToldInv` says what each client knows of each
  handle while messages are queued, `DoneInv` that a `done` which is owed has an idle source
  that will send it, `AliveInv` that the active workspace does not die. The loops over
  resources and handles are folds of sets; what each does to one element is a
  lemma, and `DataTheorems` turns it into a lemma on the loop.
- `DesktopProofs`, X11 surfaces. `XwInv` is the invariant between callbacks: either an
  assertion failed, or `Inner` holds and every surface is `AtRest`: mapped, shown,
  listened to and holding a window together or not at all, except for one that
  changed its kind while associated, whose old listeners are gone. Within a handler, one
  surface is not at rest and `Inner` (types, live windows, the focus of root, tree and
  windows, what was asked for and what wlroots has) is what the lemmas of helpers
  keep. `SurfacesAreShown`, `ActiveIsFocused` and `WaitCanEnd` are consequences.

`TreeProofs` is about the window tree, for every set of windows, workspaces, columns and
outputs and, but for the hypotheses named below, every kind of input.

- *Structure.* `Inv` is what holds of the tree at every moment: the types of its fields
  (`TreeType`, `OtherType`), lists and pointers that agree (`PlaceInv`), active nodes that
  are where the path looks for them (`PathInv`), and of outputs (`OutputInv`) that a column
  is on a connected one, that a tiling window which is not fullscreen is on that of its
  column, and that the history of a window in the tree has the output it is on. Between
  two helpers of a command a window is in no list at all, so `Inv` says nothing of
  how many places a living window has: `Homed` does, that it has one, and holds
  between callbacks. `Good` is both. `OutputInv` is not in the properties, but
  without it `ColumnFirst` and `ColumnLast` might not exist where
  `window_tiling_move_to_next_output` uses what they return.
  There is a lemma for each C function, about *any* record that satisfies `Inv`, with what
  the function leaves alone (`Same`, `Tiled`, `Moves`, `Stays`), and one for each
  callback and command (`...Good`). That `Become` forgets what nothing refers to does no harm
  is `BecomeKeeps`.
- *Focus.* `FocusAlwaysCommitted` shows that whoever can change the focus announces it. A callback
  either ends with `root_commit_focus`, or what it changes are fields that the focus does not
  depend on. The frames that say so (`Places`, `Turns`) need no invariant. The
  exception is `cmd_move_in_direction`, which focuses the window it moves and commits
  nothing: the window had the focus, and still has it. Hypothesis: `FocusMovesAloud`, no touch and no
  bindings of mouse buttons, the limits of section 4.
- *Closing windows.* `UnmapNeverStealsFocus` is an action property: `Steady` steps, all
  but unmapping, let no living window die, and unmapping a window that has not got the focus
  takes it from where it was without changing what is active in the active workspace, whether it
  is tiled (`DetachActive`) or floats, and whether its column and workspace go with it
  (`CleanedActive`).
- *Fullscreen.* `FullscreenAlwaysListed` needs that the lists hold nothing twice (`WellListed`)
  and that a living window has a history to find its lists by. Hypothesis: `OneOutput`. With
  two outputs a window may stay on the list of one it has left (section 4).
- *Tidiness* (`TidyProofs`). `NothingStaysEmptyAlways` and `ActiveOutputAlways` are proved of
  one invariant. `Tidy` says that no living column is without windows, that a living
  workspace is the active one or has something in it, that
  the active column of the active workspace is on the active output whatever the focus
  mode (`There`), and that a tiling window is on the output of its column even when it is
  fullscreen (`Lined`), without which a command would choose the wrong column, since it looks
  for one on the output of a window. While a handler runs, columns and workspaces may
  be empty: `TidyBut(t, B, S)` is `Tidy` but for the columns `B` and the workspaces `S`. A window
  that is moved leaves at most its old column and workspace so (`Shifts`, `ShiftTidy`), and
  `column_consider_destroy` and `workspace_consider_destroy`, which the handler calls
  last, remove them (`CleanedTidy`, `WorkspaceDestroyTidy`). With `StructureAlways` this is
  `TreeSoundAlways`. Hypothesis: `Calm`, no `hover`, `mouse binding` or `other output` among
  the inputs. It leaves none to spare for `ActiveOutputIsFocused`: in runs with two windows and two
  outputs each of the three breaks it, and the last two break `NothingStaysEmpty` too
  (section 4).

Apart from these hypotheses (`OneFinger`, `NoLockingWindows`, `GroupsDecide`, `OnePerClient`,
`FocusMovesAloud`, `OneOutput`, `Calm`), each of which is a statement of its theorem,
assumptions on constants are about names and starting points only: a `NoWindow` or `None` is
no window or surface, the entries of a configuration file are bindings, every surface has a
client, and a window is in one column at most before the first event.
`TLC` evaluates them for every run.

`DataTheorems` shows that folds over finite sets and over sequences keep what each of their
steps keeps, and what `InsertAt`, `RemoveAt`, `Append` and `RemoveFirst` do to the elements
of a list. The induction is over the subsets of a set, stated with sets instead of
an operator, which is a form that the provers can use.

Only model-checked:

- of `Tree`: `ArrangementIsCurrent`, which compares two runs of `Arrange` and depends on what
  every earlier step has marked;
- `DevicesFollowConfig`, `StopsWithFocus`, and `InputTypeOK` as the conjunction that
  it is (the parts on text inputs, keys, cursor and focus are proved);
- liveness (`ChangesAreCommitted`, `TransactionsEnd`), which needs `ENABLED`;
- the disagreements of section 4.

## 7. Not modelled

- Geometry: positions, sizes, fractions, gaps and hit tests. Where geometry
  decides (focusing in a direction among floating windows, the output a floating
  window is moved to) the model chooses any candidate.
- Outputs that go away. `handle_destroy` (`output.c` 384) calls
  `output_begin_destroy`, which asserts that the output is disabled, before it
  disables it: with assertions the program stops, so there is no evacuation to
  model. A disabled output is never produced by any other path.
- Mapping a window when there is no output, which an assertion excludes.
- `move window to workspace next`, which creates a workspace without a name.
- Urgency, the sizes that resizing sets, popups, decorations, titles.
- Coordinates of the pointer, the region a constraint confines it to, scrolling, gestures
  and other events that are only passed on.
- Selections, drags beyond the keyboard focus they take, idle notifications.
- Settings of libinput other than whether a device sends events.
- Parsing: lines, variables, includes, keysyms and their translation to keycodes.
- The frame scheduler: `max_render_time` is never set, so its delay is never positive
  and its timer never armed.
- Idle inhibitors, lists and output management, which keep no state that another event
  could find stale, except as noted in section 4.
- The components marked `not_modelled` in `PROJECT.json`, with the reason there.

## 8. Plan

1. Done: all models, and the proof modules of section 2.
2. Theorems next: `ArrangementIsCurrent` of `Tree`, `DevicesFollowConfig` of `InputManager`.
3. The composition of `Cursor` with `Seatop`, and of `SeatFocus` with
   `InputMethodRelay`, on one set of surfaces.

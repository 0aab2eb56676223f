---------------------------- MODULE XdgShellView ----------------------------
(***************************************************************************)
(* The configure handshake of xdg-shell windows with their clients         *)
(* (src/src/desktop/xdg_shell.c), composed with the transaction manager.   *)
(* A view compares the state its window is about to commit with what it    *)
(* last configured, asks the client for the difference, remembers the      *)
(* serial of the request and blocks the transaction until the client       *)
(* commits a surface that acknowledges exactly that serial.                *)
(*                                                                         *)
(* External, from how the code uses them: wlr_xdg_surface_schedule_configure*)
(* returns the serial of the request that an idle callback of wlroots will *)
(* send, one request for any number of calls before it; a client commits   *)
(* requests in the order they were sent, but may skip to a later one.      *)
(* Each window has a view of its own: mapping a surface again is mapping   *)
(* another window.                                                         *)
(***************************************************************************)
EXTENDS Transaction, Sequences, SequencesExt

CONSTANT MaxSerial      \* bound on the serials handed out per surface

ASSUME SerialAssumption == MaxSerial \in Nat

VARIABLES
  configured,       \* what the view last asked for: configured_width etc.
  configureSerial,  \* self->configure_serial, 0 if none
  force,            \* self->force_reconfigure
  scheduled,        \* the serial of the request not sent yet, 0 if none
  sent,             \* requests sent and not yet superseded by an answer
  lastSerial,       \* the last serial handed out for the surface
  answered,         \* the serial the surface's last commit acknowledged
  rendered          \* the look of the surface's last commit

viewVars == <<configured, configureSerial, force>>
clientVars == <<scheduled, sent, lastSerial, answered, rendered>>
xdgVars == <<vars, viewVars, clientVars>>

XInit ==
  /\ Init
  /\ configured = [w \in Window |-> Blank]
  /\ configureSerial = [w \in Window |-> 0]
  /\ force = [w \in Window |-> FALSE]
  /\ scheduled = [w \in Window |-> 0]
  /\ sent = [w \in Window |-> << >>]
  /\ lastSerial = [w \in Window |-> 0]
  /\ answered = [w \in Window |-> 0]
  /\ rendered = [w \in Window |-> Blank]

-----------------------------------------------------------------------------

\* wlr_xdg_surface_schedule_configure: the serial it returns is scheduled'[w].
Schedule(w) ==
  IF scheduled[w] # 0
    THEN UNCHANGED <<scheduled, lastSerial>>
    ELSE /\ lastSerial[w] < MaxSerial
         /\ lastSerial' = [lastSerial EXCEPT ![w] = lastSerial[w] + 1]
         /\ scheduled' = [scheduled EXCEPT ![w] = lastSerial'[w]]

\* What makes the view's window_commit handler ask for a new configuration.
NeedsConfigure(w) == force[w] \/ configured[w] # pending[w]

\* Mutant: the view waits for a request of its own although one was scheduled.
XCommitWindowOwnSerial(w, visible) ==
  IF visible /\ status[w] = "live" /\ NeedsConfigure(w)
    THEN /\ CommitNode(w, TRUE)
         /\ force' = [force EXCEPT ![w] = FALSE]
         /\ configured' = [configured EXCEPT ![w] = pending[w]]
         /\ Schedule(w)
         /\ configureSerial' = [configureSerial EXCEPT ![w] =
                                  IF lastSerial[w] < MaxSerial THEN lastSerial[w] + 1
                                                               ELSE lastSerial[w]]
         /\ UNCHANGED <<sent, answered, rendered>>
    ELSE CommitNode(w, FALSE) /\ UNCHANGED <<viewVars, clientVars>>

\* window_handle_transaction_commit with the view's handler, which does nothing
\* for a window that is not visible.
XCommitWindow(w, visible) ==
  IF visible /\ status[w] = "live" /\ NeedsConfigure(w)
    THEN /\ CommitNode(w, TRUE)
         /\ force' = [force EXCEPT ![w] = FALSE]
         /\ configured' = [configured EXCEPT ![w] = pending[w]]
         /\ Schedule(w)
         /\ configureSerial' = [configureSerial EXCEPT ![w] = scheduled'[w]]
         /\ UNCHANGED <<sent, answered, rendered>>
    ELSE CommitNode(w, FALSE) /\ UNCHANGED <<viewVars, clientVars>>

\* handle_root_focus_changed: wlr_xdg_toplevel_set_activated schedules a request.
FocusChanged(w) ==
  /\ MayEdit
  /\ status[w] = "live"
  /\ Schedule(w)
  /\ UNCHANGED <<vars, viewVars, sent, answered, rendered>>

\* handle_wlr_toplevel_request_fullscreen: reconfigure even if nothing changes.
RequestFullscreen(w, v) ==
  /\ LoopFree
  /\ Edit(w, v)
  /\ force' = [force EXCEPT ![w] = TRUE]
  /\ UNCHANGED <<configured, configureSerial, clientVars>>

\* The idle callback of wlroots that sends the scheduled request.
SendConfigure(w) ==
  /\ LoopFree
  /\ scheduled[w] # 0
  /\ sent' = [sent EXCEPT ![w] = Append(@, [serial |-> scheduled[w],
                                            look |-> configured[w]])]
  /\ scheduled' = [scheduled EXCEPT ![w] = 0]
  /\ UNCHANGED <<vars, viewVars, lastSerial, answered, rendered>>

\* Mutant: any answer ends the wait.
IsReadyAnySerial(w, serial) == w \in configuring /\ configureSerial[w] # 0

\* view_notify_ready_by_serial
IsReady(w, serial) ==
  /\ w \in configuring
  /\ configureSerial[w] # 0
  /\ serial = configureSerial[w]

\* handle_wlr_surface_commit: the client acknowledges its i-th outstanding
\* request and commits a surface that looks like it.
ClientCommit(w, i, resized) ==
  /\ LoopFree
  /\ status[w] = "live"
  /\ i \in DOMAIN sent[w]
  /\ answered' = [answered EXCEPT ![w] = sent[w][i].serial]
  /\ rendered' = [rendered EXCEPT ![w] = sent[w][i].look]
  /\ sent' = [sent EXCEPT ![w] = SubSeq(@, i + 1, Len(@))]
  /\ IF IsReady(w, sent[w][i].serial) THEN EndConfigure(w, resized)
     ELSE IF resized THEN Edit(w, pending[w])
     ELSE UNCHANGED vars
  /\ UNCHANGED <<viewVars, scheduled, lastSerial>>

\* handle_wlr_surface_unmap: the view stops listening; its requests are void.
\* Nothing releases the lock the window may hold.
Unmap(w) ==
  /\ BeginDestroy(w)
  /\ scheduled' = [scheduled EXCEPT ![w] = 0]
  /\ sent' = [sent EXCEPT ![w] = << >>]
  /\ UNCHANGED <<viewVars, lastSerial, answered, rendered>>

-----------------------------------------------------------------------------

ViewStep ==
  \/ \E w \in Window, visible \in BOOLEAN : XCommitWindow(w, visible)
  \/ \E w \in Window : FocusChanged(w)
  \/ \E w \in Window, v \in Layout : RequestFullscreen(w, v)
  \/ \E w \in Window : SendConfigure(w)
  \/ \E w \in Window, resized \in BOOLEAN :
       \E i \in DOMAIN sent[w] : ClientCommit(w, i, resized)
  \/ \E w \in Window : Unmap(w)

\* The steps of the manager and of other nodes that no view takes part in.
ManagerStep ==
  /\ \/ \E n \in Node : status[n] = "absent" /\ Create(n)
     \/ \E n \in Node : \E v \in Layout : Edit(n, v)
     \/ \E n \in Node \ Window : BeginDestroy(n) \/ CommitNode(n, FALSE)
     \/ StartCommit
     \/ HandleTimeout
     \/ \E gotTimer \in BOOLEAN : FinishCommit(gotTimer)
     \/ \E n \in Node : ApplyNode(n) \/ AfterApplyNode(n)
     \/ FinishApply
     \/ FinishAfterApply
  /\ UNCHANGED <<viewVars, clientVars>>

XNext == ViewStep \/ ManagerStep

XSpec == XInit /\ [][XNext]_xdgVars
-----------------------------------------------------------------------------
(* Properties. *)

\* A window that stopped holding up the transaction did so because its client
\* drew what was committed: an answer to a request of an earlier transaction
\* that timed out, or to one a focus change scheduled before, ends no wait
\* (view_notify_ready_by_serial, lines 301-317).
ReadyMeansRendered ==
  phase \in {"WAITING_CONFIRM", "APPLY"} =>
    \A w \in frozen \cap onApply : w \in configuring \/ status[w] = "dead"
                                                     \/ rendered[w] = committed[w]

\* The answer a window waits for can still come: its request is scheduled, sent
\* or superseded by a later one, never withdrawn (lines 238-241).
AnswerIsComing ==
  phase = "WAITING_CONFIRM" =>
    \A w \in configuring : status[w] = "live" =>
       \/ scheduled[w] >= configureSerial[w]
       \/ \E i \in DOMAIN sent[w] : sent[w][i].serial >= configureSerial[w]
       \/ answered[w] > configureSerial[w]
=============================================================================

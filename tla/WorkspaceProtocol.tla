-------------------------- MODULE WorkspaceProtocol --------------------------
(***************************************************************************)
(* What clients are told of workspaces                                     *)
(* (desktop/hwd_workspace_management_v1.c), by the transaction of each     *)
(* workspace (tree/workspace.c).                                           *)
(*                                                                         *)
(* A client that binds the manager gets a handle for each workspace, and   *)
(* events on it.  "done" ends a batch of events: it is sent by an idle     *)
(* callback that the first change since the last batch requests.  A        *)
(* workspace dies when it is left empty; a dead one is not used again.     *)
(* Names are as constant as in the code; told are the events of a client   *)
(* on a handle: whether it has one, and the last value of "focused".       *)
(***************************************************************************)
EXTENDS FiniteSetsExt

CONSTANTS
  Manager,   \* the clients' bindings of the manager
  Workspace

NoWorkspace == "no workspace"
NoHandle == [open |-> FALSE, focused |-> "untold"]
NewHandle == [NoHandle EXCEPT !.open = TRUE]

VARIABLE wp
wpVars == <<wp>>

-----------------------------------------------------------------------------
(* Handles. *)

\* manager_set_dirty: idle is whether idle_source is set, queued whether it will run.
ManagerSetDirty(s) == IF s.idle THEN s ELSE [s EXCEPT !.idle = TRUE, !.queued = TRUE]

\* The managers in to are told something about handle w, which is what Event makes of it.
Tell(s, to, w, Event(_)) ==
  LET Told(m) == IF m \in to THEN [s.told[m] EXCEPT ![w] = Event(s.told[m][w])] ELSE s.told[m]
  IN  [s EXCEPT !.told = [m \in Manager |-> Told(m)], !.batch = @ \cup to]

\* create_workspace_resource_for_resource
NewResource(s, to, w) == Tell(s, to, w, LAMBDA h : NewHandle)

\* Those who have a resource for handle w; a manager that has been stopped keeps its own.
Resources(s, w) == {m \in Manager : s.told[m][w].open}

\* hwd_workspace_handle_v1_create, hwd_workspace_handle_v1_set_name
HandleCreate(s, w) ==
  ManagerSetDirty(NewResource([s EXCEPT !.handles = @ \cup {w}, !.focused = @ \ {w}], s.listed, w))

\* hwd_workspace_handle_v1_destroy, which requests no "done"
HandleDestroy(s, w) ==
  Tell([s EXCEPT !.handles = @ \ {w}], Resources(s, w), w, LAMBDA h : NoHandle)

\* hwd_workspace_handle_v1_set_focused
HandleSetFocused(s, w, focused) ==
  LET set == [s EXCEPT !.focused = IF focused THEN @ \cup {w} ELSE @ \ {w}]
  IN  IF focused = (w \in s.focused) THEN s
      ELSE ManagerSetDirty(Tell(set, Resources(s, w), w,
                                LAMBDA h : [h EXCEPT !.focused = IF focused THEN "yes" ELSE "no"]))

-----------------------------------------------------------------------------
(* The manager's clients. *)

\* manager_handle_bind: it has no resource of a handle before.
BindManager(s, m) ==
  LET told == [s EXCEPT !.told[m] = [w \in Workspace |-> IF w \in s.handles THEN NewHandle ELSE NoHandle]]
  IN  [told EXCEPT !.listed = @ \cup {m}, !.batch = @ \ {m}, !.bound = @ \cup {m}]

\* Mutant: the idle source is not forgotten once it has run.
SendDoneOnce(s) == [s EXCEPT !.batch = @ \ s.listed, !.queued = FALSE]

\* manager_idle_send_done
SendDone(s) == [s EXCEPT !.batch = @ \ s.listed, !.queued = FALSE, !.idle = FALSE]

Bind(m) == m \notin wp.bound \cup wp.stopped /\ wp' = BindManager(wp, m)
IdleSendDone == wp.queued /\ wp' = SendDone(wp)

\* manager_handle_stop: resources of handles stay, and hear of them.
Stop(m) ==
  /\ m \in wp.bound
  /\ wp' = [wp EXCEPT !.listed = @ \ {m}, !.bound = @ \ {m}, !.stopped = @ \cup {m}]

-----------------------------------------------------------------------------
(* Workspaces. *)

\* workspace_consider_destroy
WorkspaceConsiderDestroy(s, w) ==
  IF w \in s.alive /\ w \notin s.used /\ w # s.activeWorkspace
  THEN [s EXCEPT !.alive = @ \ {w}, !.dirty = @ \cup {w}, !.rootDirty = TRUE] ELSE s

\* root_set_active_workspace
SetActiveWorkspace(s, w) ==
  LET old == s.activeWorkspace
      left == WorkspaceConsiderDestroy([s EXCEPT !.activeWorkspace = w], old)
  IN  IF w = old THEN s ELSE [left EXCEPT !.dirty = @ \cup ({w, old} \cap Workspace), !.rootDirty = TRUE]

\* workspace_create, of a name that no workspace has had; it may be switched to.
CreateWorkspace(w, switches) ==
  LET new == [wp EXCEPT !.alive = @ \cup {w}, !.fresh = @ \ {w}, !.dirty = @ \cup {w}, !.rootDirty = TRUE]
  IN  /\ w \in wp.fresh
      /\ wp' = IF switches \/ wp.activeWorkspace = NoWorkspace THEN SetActiveWorkspace(new, w) ELSE new

SwitchTo(w) == w \in wp.alive \ {wp.activeWorkspace} /\ wp' = SetActiveWorkspace(wp, w)

\* A window or a column is added to a workspace, or its last one goes.
Use(w) == w \in wp.alive \ wp.used /\ wp' = [wp EXCEPT !.used = @ \cup {w}, !.dirty = @ \cup {w}]
Vacate(w) ==
  w \in wp.used /\ wp' = WorkspaceConsiderDestroy([wp EXCEPT !.used = @ \ {w}, !.dirty = @ \cup {w}], w)

-----------------------------------------------------------------------------
(* The transaction. *)

\* root_arrange and workspace_arrange: only the active workspace gets a new pending state.
RootArrange(s) ==
  LET w == s.activeWorkspace
      dirty == IF s.rootDirty THEN s.dirty \cup {w} ELSE s.dirty
  IN  [s EXCEPT !.dirty = dirty,
                !.pendingFocused = IF w \in dirty THEN @ \cup {w} ELSE @,
                !.pendingDead = IF w \in dirty /\ w \notin s.alive THEN @ \cup {w} ELSE @]

\* workspace_handle_transaction_commit
WorkspaceCommit(s, w) ==
  LET with == IF w \in s.handles THEN s ELSE HandleCreate(s, w)
  IN  IF w \in s.pendingDead THEN IF w \in s.handles THEN HandleDestroy(s, w) ELSE s
      ELSE HandleSetFocused(with, w, w \in s.pendingFocused)

\* The dirty workspaces commit, in an order that no client can tell.
TransactionCommit ==
  LET s == RootArrange(wp)
  IN  /\ wp.activeWorkspace # NoWorkspace /\ (wp.dirty # {} \/ wp.rootDirty)
      /\ wp' = [FoldSet(LAMBDA w, t : WorkspaceCommit(t, w), s, s.dirty) EXCEPT !.dirty = {}, !.rootDirty = FALSE]

WpInit ==
  wp = [fresh |-> Workspace, alive |-> {}, used |-> {}, activeWorkspace |-> NoWorkspace,
        dirty |-> {}, rootDirty |-> FALSE, pendingFocused |-> {}, pendingDead |-> {},
        handles |-> {}, focused |-> {}, idle |-> FALSE, queued |-> FALSE, listed |-> {}, bound |-> {},
        stopped |-> {}, batch |-> {}, told |-> [m \in Manager |-> [w \in Workspace |-> NoHandle]]]

WpNext ==
  \/ \E m \in Manager : Bind(m) \/ Stop(m)
  \/ IdleSendDone
  \/ \E w \in Workspace : SwitchTo(w) \/ Use(w) \/ Vacate(w) \/ \E b \in BOOLEAN : CreateWorkspace(w, b)
  \/ TransactionCommit

WpSpec == WpInit /\ [][WpNext]_wpVars

-----------------------------------------------------------------------------
(* Properties. *)

\* Whenever it bound the manager, a client that did not stop has a resource of each handle
\* that exists, what it was told last of the focus is what the handle has, and a "done" will
\* follow what it was told since the last one, however changes, the idle callback and new
\* clients come together ("for all existing workspaces when the workspace manager global is
\* bound", hwd-workspace-management-unstable-v1.xml 62).
ClientsKeepUp ==
  /\ \A m \in wp.bound : wp.handles = {w \in Workspace : wp.told[m][w].open}
  /\ \A m \in Manager, w \in wp.handles :
       wp.told[m][w].focused # "untold" => (wp.told[m][w].focused = "yes") = (w \in wp.focused)
  /\ wp.batch \cap wp.bound # {} => wp.queued

\* Once nothing is pending, a client is not told that a workspace is focused which is not
\* ("when a workspace is focused or unfocused", unstable-v1.xml 152).
FocusIsExclusive ==
  wp.dirty = {} /\ ~wp.rootDirty /\ ~wp.queued =>
    \A m \in wp.bound, w \in Workspace : wp.told[m][w].focused = "yes" => w = wp.activeWorkspace
=============================================================================

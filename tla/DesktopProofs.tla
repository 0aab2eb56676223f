---------------------------- MODULE DesktopProofs ----------------------------
(***************************************************************************)
(* Proofs about what clients are told of workspaces, and about X11         *)
(* surfaces, for any number of clients, workspaces and surfaces.           *)
(***************************************************************************)
EXTENDS Xwayland, WorkspaceProtocol, DataTheorems

-----------------------------------------------------------------------------
(* The workspace management protocol.                                      *)

Heard == [open : BOOLEAN, focused : {"untold", "yes", "no"}]
WpState ==
  [fresh : SUBSET Workspace, alive : SUBSET Workspace, used : SUBSET Workspace,
   activeWorkspace : Workspace \cup {NoWorkspace}, dirty : SUBSET Workspace, rootDirty : BOOLEAN,
   pendingFocused : SUBSET Workspace, pendingDead : {{}}, handles : SUBSET Workspace,
   focused : SUBSET Workspace, idle : BOOLEAN, queued : BOOLEAN, listed : SUBSET Manager,
   bound : SUBSET Manager, stopped : SUBSET Manager, batch : SUBSET Manager,
   told : [Manager -> [Workspace -> Heard]]]

\* What a client was told of a handle: nothing but of those that exist, nothing of the
\* focus but what it is, and everything if it still listens.
ToldInv(s) ==
  \A m \in Manager, w \in Workspace :
    /\ s.told[m][w].open => w \in s.handles
    /\ w \in s.handles /\ m \in s.bound => s.told[m][w].open
    /\ ~s.told[m][w].open => s.told[m][w].focused = "untold"
    /\ s.told[m][w].focused # "untold" => (s.told[m][w].focused = "yes") = (w \in s.focused)

\* A "done" that is owed has been requested: the idle source is forgotten when it has
\* run, and handles, whose end requests none, do not end.
DoneInv(s) ==
  /\ s.listed = s.bound
  /\ s.idle = s.queued
  /\ s.batch \cap s.bound # {} => s.queued

\* The active workspace does not die, so that nothing dead is ever committed.
AliveInv(s) ==
  /\ s.activeWorkspace \in s.alive \cup {NoWorkspace}
  /\ IsFiniteSet(s.dirty)

WpInv(s) == s \in WpState /\ ToldInv(s) /\ DoneInv(s) /\ AliveInv(s)

\* manager_set_dirty
LEMMA SetDirtyKeeps ==
  ASSUME NEW s \in WpState, ToldInv(s), AliveInv(s), s.listed = s.bound, s.idle = s.queued
  PROVE  WpInv(ManagerSetDirty(s)) /\ ManagerSetDirty(s).handles = s.handles
<1> DEFINE t == [s EXCEPT !.idle = TRUE, !.queued = TRUE]
<1>1. CASE s.idle
  <2>1. ManagerSetDirty(s) = s
    BY <1>1 DEF ManagerSetDirty
  <2>2. s.queued
    BY <1>1
  <2>3. WpInv(s)
    BY <2>2 DEF WpInv, DoneInv
  <2> QED
    BY <2>1, <2>3
<1>2. CASE ~s.idle
  <2>1. ManagerSetDirty(s) = t
    BY <1>2 DEF ManagerSetDirty
  <2>2. t \in WpState
    BY DEF WpState
  <2>3. /\ t.told = s.told /\ t.handles = s.handles /\ t.bound = s.bound /\ t.focused = s.focused
        /\ t.listed = s.listed /\ t.idle = TRUE /\ t.queued = TRUE
        /\ t.activeWorkspace = s.activeWorkspace /\ t.alive = s.alive /\ t.dirty = s.dirty
    BY DEF WpState
  <2> HIDE DEF t
  <2>4. ToldInv(t) /\ DoneInv(t)
    BY <2>3 DEF ToldInv, DoneInv
  <2>5. AliveInv(t)
    BY <2>3 DEF AliveInv
  <2> QED
    BY <2>1, <2>2, <2>3, <2>4, <2>5 DEF WpInv
<1> QED
  BY <1>1, <1>2

\* hwd_workspace_handle_v1_create, of a workspace that has no handle
LEMMA HandleCreateKeeps ==
  ASSUME NEW s, WpInv(s), NEW w \in Workspace, w \notin s.handles
  PROVE  WpInv(HandleCreate(s, w)) /\ w \in HandleCreate(s, w).handles
<1> DEFINE new == [s EXCEPT !.handles = @ \cup {w}, !.focused = @ \ {w}]
           told == [m \in Manager |-> IF m \in s.listed
                      THEN [s.told[m] EXCEPT ![w] = NewHandle] ELSE s.told[m]]
           t == [new EXCEPT !.told = told, !.batch = @ \cup s.listed]
<1>1. s \in WpState /\ s.listed = s.bound
  BY DEF WpInv, DoneInv
<1>2. new \in WpState /\ new.told = s.told /\ new.batch = s.batch
      /\ new.handles = s.handles \cup {w} /\ new.focused = s.focused \ {w}
      /\ new.listed = s.listed /\ new.bound = s.bound /\ new.idle = s.idle /\ new.queued = s.queued
      /\ new.activeWorkspace = s.activeWorkspace /\ new.alive = s.alive /\ new.dirty = s.dirty
  BY <1>1 DEF WpState
<1> HIDE DEF new
<1>3. NewResource(new, s.listed, w) = t
  <2>2. told = [m \in Manager |-> IF m \in s.listed
                  THEN [new.told[m] EXCEPT ![w] = NewHandle] ELSE new.told[m]]
    BY <1>2
  <2>3. t = [new EXCEPT !.told = told, !.batch = new.batch \cup s.listed]
    BY <1>2
  <2> HIDE DEF told, t
  <2> QED
    BY <2>2, <2>3 DEF NewResource, Tell
<1>4. NewHandle \in Heard /\ NewHandle.open /\ NewHandle.focused = "untold"
  BY DEF NewHandle, NoHandle, Heard
<1>5. /\ told \in [Manager -> [Workspace -> Heard]]
      /\ \A m \in Manager, v \in Workspace :
           told[m][v] = IF m \in s.listed /\ v = w THEN NewHandle ELSE s.told[m][v]
  BY <1>1, <1>4 DEF WpState
<1> HIDE DEF told
<1>6. t \in WpState /\ t.told = told
      /\ t.handles = s.handles \cup {w} /\ t.focused = s.focused \ {w}
      /\ t.listed = s.listed /\ t.bound = s.bound /\ t.idle = s.idle /\ t.queued = s.queued
      /\ t.activeWorkspace = s.activeWorkspace /\ t.alive = s.alive /\ t.dirty = s.dirty
  BY <1>2, <1>5 DEF WpState
<1> HIDE DEF t
<1>7. ToldInv(t)
  BY <1>1, <1>4, <1>5, <1>6 DEF WpInv, ToldInv
<1>8. AliveInv(t) /\ t.listed = t.bound /\ t.idle = t.queued
  BY <1>6 DEF WpInv, AliveInv, DoneInv
<1>9. HandleCreate(s, w) = ManagerSetDirty(t)
  BY <1>3 DEF HandleCreate, new
<1> QED
  BY <1>6, <1>7, <1>8, <1>9, SetDirtyKeeps

\* hwd_workspace_handle_v1_set_focused, of a handle that exists
LEMMA SetFocusedKeeps ==
  ASSUME NEW s, WpInv(s), NEW w \in s.handles, NEW focused \in BOOLEAN
  PROVE  WpInv(HandleSetFocused(s, w, focused))
<1> DEFINE set == [s EXCEPT !.focused = IF focused THEN @ \cup {w} ELSE @ \ {w}]
           yes == IF focused THEN "yes" ELSE "no"
           told == [m \in Manager |-> IF m \in Resources(s, w)
                      THEN [s.told[m] EXCEPT ![w] = [s.told[m][w] EXCEPT !.focused = yes]] ELSE s.told[m]]
           t == [set EXCEPT !.told = told, !.batch = @ \cup Resources(s, w)]
<1>1. s \in WpState /\ w \in Workspace
  BY DEF WpInv, WpState
<1>2. CASE focused = (w \in s.focused)
  BY <1>2 DEF HandleSetFocused
<1>3. CASE focused # (w \in s.focused)
  <2>1. set \in WpState /\ set.told = s.told /\ set.batch = s.batch
        /\ set.focused = (IF focused THEN s.focused \cup {w} ELSE s.focused \ {w})
        /\ set.handles = s.handles
        /\ set.listed = s.listed /\ set.bound = s.bound /\ set.idle = s.idle /\ set.queued = s.queued
        /\ set.activeWorkspace = s.activeWorkspace /\ set.alive = s.alive /\ set.dirty = s.dirty
    BY <1>1 DEF WpState
  <2> HIDE DEF set
  <2>2. Tell(set, Resources(s, w), w, LAMBDA h : [h EXCEPT !.focused = IF focused THEN "yes" ELSE "no"]) = t
    <3>1. told = [m \in Manager |-> IF m \in Resources(s, w)
                    THEN [set.told[m] EXCEPT ![w] = [set.told[m][w] EXCEPT !.focused = IF focused THEN "yes" ELSE "no"]]
                    ELSE set.told[m]]
      BY <2>1
    <3>2. t = [set EXCEPT !.told = told, !.batch = set.batch \cup Resources(s, w)]
      BY <2>1
    <3> HIDE DEF told, t
    <3> QED
      BY <3>1, <3>2 DEF Tell
  <2>3. HandleSetFocused(s, w, focused) = ManagerSetDirty(t)
    BY <1>3, <2>2 DEF HandleSetFocused, set
  <2>4. yes \in {"yes", "no"} /\ (yes = "yes") = focused
    OBVIOUS
  <2>5. /\ told \in [Manager -> [Workspace -> Heard]]
        /\ \A m \in Manager, v \in Workspace :
             /\ told[m][v].open <=> s.told[m][v].open
             /\ told[m][v].focused = IF s.told[m][w].open /\ v = w THEN yes ELSE s.told[m][v].focused
    <3> HIDE DEF yes
    <3>1. s.told \in [Manager -> [Workspace -> Heard]]
      BY <1>1 DEF WpState
    <3>2. \A h \in Heard : LET e == [h EXCEPT !.focused = yes]
                            IN  e \in Heard /\ e.open = h.open /\ e.focused = yes
      BY <2>4 DEF Heard
    <3>3. \A m \in Manager : m \in Resources(s, w) <=> s.told[m][w].open
      BY DEF Resources
    <3>4. ASSUME NEW m \in Manager
          PROVE  /\ told[m] \in [Workspace -> Heard]
                 /\ \A v \in Workspace :
                      /\ told[m][v].open <=> s.told[m][v].open
                      /\ told[m][v].focused = IF s.told[m][w].open /\ v = w THEN yes ELSE s.told[m][v].focused
      <4>1. CASE s.told[m][w].open
        <5> DEFINE e == [s.told[m][w] EXCEPT !.focused = yes]
        <5>1. s.told[m][w] \in Heard /\ m \in Resources(s, w)
          BY <1>1, <3>1, <3>3, <4>1
        <5>2. e \in Heard /\ e.open = s.told[m][w].open /\ e.focused = yes
          BY <3>2, <5>1
        <5>3. told[m] = [s.told[m] EXCEPT ![w] = e]
          BY <5>1
        <5> HIDE DEF e
        <5> QED
          BY <1>1, <3>1, <4>1, <5>2, <5>3
      <4>2. CASE ~s.told[m][w].open
        BY <3>1, <3>3, <4>2
      <4> QED
        BY <4>1, <4>2
    <3>5. told \in [Manager -> [Workspace -> Heard]]
      BY <3>4
    <3> QED
      BY <3>4, <3>5
  <2> HIDE DEF told, yes
  <2>6. t \in WpState /\ t.told = told
        /\ t.handles = s.handles /\ t.focused = (IF focused THEN s.focused \cup {w} ELSE s.focused \ {w})
        /\ t.listed = s.listed /\ t.bound = s.bound /\ t.idle = s.idle /\ t.queued = s.queued
        /\ t.activeWorkspace = s.activeWorkspace /\ t.alive = s.alive /\ t.dirty = s.dirty
    <3>1. Resources(s, w) \in SUBSET Manager
      BY DEF Resources
    <3> QED
      BY <2>1, <2>5, <3>1 DEF WpState
  <2> HIDE DEF t
  <2>7. ToldInv(t)
    BY <1>1, <2>4, <2>5, <2>6 DEF WpInv, ToldInv
  <2>8. AliveInv(t) /\ t.listed = t.bound /\ t.idle = t.queued
    BY <2>6 DEF WpInv, AliveInv, DoneInv
  <2> QED
    BY <2>3, <2>6, <2>7, <2>8, SetDirtyKeeps
<1> QED
  BY <1>2, <1>3

\* What does not touch handles or batches leaves what clients were told as it is.
LEMMA SameTold ==
  ASSUME NEW s, NEW t, WpInv(s), t \in WpState, AliveInv(t),
         t.told = s.told, t.handles = s.handles, t.focused = s.focused, t.batch = s.batch,
         t.idle = s.idle, t.queued = s.queued, t.listed = s.listed, t.bound = s.bound
  PROVE  WpInv(t)
<1>1. ToldInv(t)
  BY DEF WpInv, ToldInv
<1>2. DoneInv(t)
  BY DEF WpInv, DoneInv
<1> QED
  BY <1>1, <1>2 DEF WpInv

\* manager_handle_bind: a client that is new is told of each handle.
LEMMA BindKeeps ==
  ASSUME NEW m \in Manager, WpInv(wp), Bind(m)
  PROVE  WpInv(wp')
<1> DEFINE heard == [w \in Workspace |-> IF w \in wp.handles THEN NewHandle ELSE NoHandle]
           told == [wp EXCEPT !.told[m] = heard]
           t == [told EXCEPT !.listed = @ \cup {m}, !.batch = @ \ {m}, !.bound = @ \cup {m}]
<1>1. wp' = t /\ wp \in WpState
  BY DEF Bind, BindManager, WpInv
<1>2. heard \in [Workspace -> Heard]
      /\ \A w \in Workspace : (heard[w].open <=> w \in wp.handles) /\ heard[w].focused = "untold"
  BY DEF NewHandle, NoHandle, Heard
<1> HIDE DEF heard
<1>3. told \in WpState /\ told.told = [wp.told EXCEPT ![m] = heard]
      /\ told.handles = wp.handles /\ told.focused = wp.focused /\ told.batch = wp.batch
      /\ told.idle = wp.idle /\ told.queued = wp.queued /\ told.listed = wp.listed
      /\ told.bound = wp.bound /\ told.activeWorkspace = wp.activeWorkspace /\ told.alive = wp.alive
      /\ told.dirty = wp.dirty
  BY <1>1, <1>2 DEF WpState
<1> HIDE DEF told
<1>4. t \in WpState /\ t.told = [wp.told EXCEPT ![m] = heard]
      /\ t.handles = wp.handles /\ t.focused = wp.focused /\ t.batch = wp.batch \ {m}
      /\ t.idle = wp.idle /\ t.queued = wp.queued /\ t.listed = wp.listed \cup {m}
      /\ t.bound = wp.bound \cup {m} /\ t.activeWorkspace = wp.activeWorkspace /\ t.alive = wp.alive
      /\ t.dirty = wp.dirty
  BY <1>3 DEF WpState
<1> HIDE DEF t
<1>5. \A n \in Manager : t.told[n] = IF n = m THEN heard ELSE wp.told[n]
  BY <1>1, <1>4 DEF WpState
<1>6. ToldInv(t)
  BY <1>2, <1>4, <1>5 DEF WpInv, ToldInv
<1>7. DoneInv(t)
  BY <1>4 DEF WpInv, DoneInv
<1>8. AliveInv(t)
  BY <1>4 DEF WpInv, AliveInv
<1> QED
  BY <1>1, <1>4, <1>6, <1>7, <1>8 DEF WpInv

\* manager_idle_send_done
LEMMA SendDoneKeeps ==
  ASSUME WpInv(wp), IdleSendDone
  PROVE  WpInv(wp')
<1> DEFINE t == [wp EXCEPT !.batch = @ \ wp.listed, !.queued = FALSE, !.idle = FALSE]
<1>1. wp' = t /\ wp \in WpState
  BY DEF IdleSendDone, SendDone, WpInv
<1>2. t \in WpState
  BY <1>1 DEF WpState
<1>3. t.told = wp.told
      /\ t.handles = wp.handles /\ t.focused = wp.focused /\ t.batch = wp.batch \ wp.listed
      /\ t.idle = FALSE /\ t.queued = FALSE /\ t.listed = wp.listed
      /\ t.bound = wp.bound /\ t.activeWorkspace = wp.activeWorkspace /\ t.alive = wp.alive
      /\ t.dirty = wp.dirty
  BY <1>1 DEF WpState
<1> HIDE DEF t
<1>4. ToldInv(t)
  BY <1>3 DEF WpInv, ToldInv
<1>5. DoneInv(t)
  BY <1>3 DEF WpInv, DoneInv
<1>6. AliveInv(t)
  BY <1>3 DEF WpInv, AliveInv
<1> QED
  BY <1>1, <1>2, <1>4, <1>5, <1>6 DEF WpInv

\* manager_handle_stop
LEMMA StopKeeps ==
  ASSUME NEW m \in Manager, WpInv(wp), Stop(m)
  PROVE  WpInv(wp')
<1> DEFINE t == [wp EXCEPT !.listed = @ \ {m}, !.bound = @ \ {m}, !.stopped = @ \cup {m}]
<1>1. wp' = t /\ wp \in WpState
  BY DEF Stop, WpInv
<1>2. t \in WpState
  BY <1>1 DEF WpState
<1>3. t.told = wp.told
      /\ t.handles = wp.handles /\ t.focused = wp.focused /\ t.batch = wp.batch
      /\ t.idle = wp.idle /\ t.queued = wp.queued /\ t.listed = wp.listed \ {m}
      /\ t.bound = wp.bound \ {m} /\ t.activeWorkspace = wp.activeWorkspace /\ t.alive = wp.alive
      /\ t.dirty = wp.dirty
  BY <1>1 DEF WpState
<1> HIDE DEF t
<1>4. ToldInv(t)
  BY <1>3 DEF WpInv, ToldInv
<1>5. DoneInv(t)
  BY <1>3 DEF WpInv, DoneInv
<1>6. AliveInv(t)
  BY <1>3 DEF WpInv, AliveInv
<1> QED
  BY <1>1, <1>2, <1>4, <1>5, <1>6 DEF WpInv

\* A finite set of workspaces stays finite with one more.
LEMMA OneMoreIsFinite ==
  ASSUME NEW S, IsFiniteSet(S), NEW x
  PROVE  IsFiniteSet(S \cup {x})
BY FS_AddElement

\* workspace_consider_destroy: the active workspace does not die.
LEMMA ConsiderDestroyKeeps ==
  ASSUME NEW s, WpInv(s), NEW w
  PROVE  WpInv(WorkspaceConsiderDestroy(s, w))
         /\ WorkspaceConsiderDestroy(s, w).activeWorkspace = s.activeWorkspace
<1> DEFINE t == [s EXCEPT !.alive = @ \ {w}, !.dirty = @ \cup {w}, !.rootDirty = TRUE]
<1>1. CASE ~(w \in s.alive /\ w \notin s.used /\ w # s.activeWorkspace)
  BY <1>1 DEF WorkspaceConsiderDestroy
<1>2. CASE w \in s.alive /\ w \notin s.used /\ w # s.activeWorkspace
  <2>1. WorkspaceConsiderDestroy(s, w) = t
    BY <1>2 DEF WorkspaceConsiderDestroy
  <2>2. s \in WpState /\ t \in WpState
    BY <1>2 DEF WpInv, WpState
  <2>3. /\ t.told = s.told /\ t.handles = s.handles /\ t.focused = s.focused /\ t.batch = s.batch
        /\ t.idle = s.idle /\ t.queued = s.queued /\ t.listed = s.listed /\ t.bound = s.bound
        /\ t.activeWorkspace = s.activeWorkspace /\ t.alive = s.alive \ {w} /\ t.dirty = s.dirty \cup {w}
    BY <2>2 DEF WpState
  <2> HIDE DEF t
  <2>4. AliveInv(t)
    <3>1. IsFiniteSet(t.dirty)
      <4>1. IsFiniteSet(s.dirty)
        BY DEF WpInv, AliveInv
      <4> QED
        BY <2>3, <4>1, OneMoreIsFinite
    <3>2. t.activeWorkspace \in t.alive \cup {NoWorkspace}
      BY <1>2, <2>3 DEF WpInv, AliveInv
    <3> QED
      BY <3>1, <3>2 DEF AliveInv
  <2> QED
    BY <2>1, <2>2, <2>3, <2>4, SameTold
<1> QED
  BY <1>1, <1>2

\* root_set_active_workspace, of one that is alive
LEMMA SetActiveKeeps ==
  ASSUME NEW s, WpInv(s), NEW w \in s.alive
  PROVE  WpInv(SetActiveWorkspace(s, w))
<1> DEFINE old == s.activeWorkspace
           switched == [s EXCEPT !.activeWorkspace = w]
           left == WorkspaceConsiderDestroy(switched, old)
           t == [left EXCEPT !.dirty = @ \cup ({w, old} \cap Workspace), !.rootDirty = TRUE]
<1>1. s \in WpState /\ w \in Workspace
  BY DEF WpInv, WpState
<1>2. switched \in WpState
      /\ switched.told = s.told /\ switched.handles = s.handles /\ switched.focused = s.focused
      /\ switched.batch = s.batch /\ switched.idle = s.idle /\ switched.queued = s.queued
      /\ switched.listed = s.listed /\ switched.bound = s.bound
      /\ switched.activeWorkspace = w /\ switched.alive = s.alive /\ switched.dirty = s.dirty
  BY <1>1 DEF WpState
<1> HIDE DEF switched
<1>3. AliveInv(switched)
  BY <1>2 DEF WpInv, AliveInv
<1>4. WpInv(switched)
  BY <1>2, <1>3, SameTold
<1>5. WpInv(left) /\ left.activeWorkspace = w
  BY <1>2, <1>4, ConsiderDestroyKeeps
<1> HIDE DEF left
<1>6. left \in WpState
  BY <1>5 DEF WpInv
<1>7. t \in WpState
      /\ t.told = left.told /\ t.handles = left.handles /\ t.focused = left.focused
      /\ t.batch = left.batch /\ t.idle = left.idle /\ t.queued = left.queued
      /\ t.listed = left.listed /\ t.bound = left.bound
      /\ t.activeWorkspace = w /\ t.alive = left.alive /\ t.dirty = left.dirty \cup ({w, old} \cap Workspace)
  BY <1>5, <1>6 DEF WpState
<1> HIDE DEF t
<1>8. AliveInv(t)
  <2>1. IsFiniteSet(left.dirty) /\ w \in left.alive \cup {NoWorkspace}
    BY <1>5 DEF WpInv, AliveInv
  <2>2. IsFiniteSet(left.dirty \cup {w}) /\ IsFiniteSet((left.dirty \cup {w}) \cup {old})
    BY <2>1, OneMoreIsFinite
  <2>3. t.dirty \in SUBSET ((left.dirty \cup {w}) \cup {old})
    BY <1>7
  <2>4. IsFiniteSet(t.dirty)
    BY <2>2, <2>3, FS_Subset
  <2> QED
    BY <1>7, <2>1, <2>4 DEF AliveInv
<1>9. WpInv(t)
  BY <1>5, <1>7, <1>8, SameTold
<1>10. CASE w = old
  BY <1>10 DEF SetActiveWorkspace
<1>11. CASE w # old
  BY <1>9, <1>11 DEF SetActiveWorkspace, t, left, switched
<1> QED
  BY <1>10, <1>11

\* Workspaces come, are switched to, used and vacated.
LEMMA CreateKeeps ==
  ASSUME NEW w \in Workspace, NEW switches \in BOOLEAN, WpInv(wp), CreateWorkspace(w, switches)
  PROVE  WpInv(wp')
<1> DEFINE new == [wp EXCEPT !.alive = @ \cup {w}, !.fresh = @ \ {w}, !.dirty = @ \cup {w}, !.rootDirty = TRUE]
<1>1. wp' = new \/ wp' = SetActiveWorkspace(new, w)
  BY DEF CreateWorkspace
<1>2. wp \in WpState
  BY DEF WpInv
<1>3. new \in WpState
      /\ new.told = wp.told /\ new.handles = wp.handles /\ new.focused = wp.focused
      /\ new.batch = wp.batch /\ new.idle = wp.idle /\ new.queued = wp.queued
      /\ new.listed = wp.listed /\ new.bound = wp.bound
      /\ new.activeWorkspace = wp.activeWorkspace /\ new.alive = wp.alive \cup {w}
      /\ new.dirty = wp.dirty \cup {w}
  BY <1>2 DEF WpState
<1> HIDE DEF new
<1>4. AliveInv(new)
  <2>1. IsFiniteSet(new.dirty)
    <3>1. IsFiniteSet(wp.dirty)
      BY DEF WpInv, AliveInv
    <3>2. IsFiniteSet(wp.dirty \cup {w})
      BY <3>1, OneMoreIsFinite
    <3>3. new.dirty = wp.dirty \cup {w}
      BY <1>3
    <3> QED
      BY <3>2, <3>3
  <2>2. new.activeWorkspace \in new.alive \cup {NoWorkspace}
    BY <1>3 DEF WpInv, AliveInv
  <2> QED
    BY <2>1, <2>2 DEF AliveInv
<1>5. WpInv(new)
  BY <1>3, <1>4, SameTold
<1> QED
  BY <1>1, <1>3, <1>5, SetActiveKeeps

\* A window or a column is added to a workspace, or its last one goes.
LEMMA UseAndVacateKeep ==
  ASSUME NEW w \in Workspace, WpInv(wp), Use(w) \/ Vacate(w)
  PROVE  WpInv(wp')
<1>1. wp \in WpState
  BY DEF WpInv
<1>2. ASSUME NEW used \in SUBSET Workspace
      PROVE  WpInv([wp EXCEPT !.used = used, !.dirty = @ \cup {w}])
  <2> DEFINE t == [wp EXCEPT !.used = used, !.dirty = @ \cup {w}]
  <2>1. t \in WpState
        /\ t.told = wp.told /\ t.handles = wp.handles /\ t.focused = wp.focused
        /\ t.batch = wp.batch /\ t.idle = wp.idle /\ t.queued = wp.queued
        /\ t.listed = wp.listed /\ t.bound = wp.bound
        /\ t.activeWorkspace = wp.activeWorkspace /\ t.alive = wp.alive /\ t.dirty = wp.dirty \cup {w}
    BY <1>1 DEF WpState
  <2> HIDE DEF t
  <2>2. AliveInv(t)
    BY <2>1, OneMoreIsFinite DEF WpInv, AliveInv
  <2>3. WpInv(t)
    BY <2>1, <2>2, SameTold
  <2> QED
    BY <2>3 DEF t
<1>3. wp.used \cup {w} \in SUBSET Workspace /\ wp.used \ {w} \in SUBSET Workspace
  BY <1>1 DEF WpState
<1>4. CASE Use(w)
  BY <1>2, <1>3, <1>4 DEF Use
<1>5. CASE Vacate(w)
  <2> DEFINE t == [wp EXCEPT !.used = @ \ {w}, !.dirty = @ \cup {w}]
  <2>1. WpInv(t) /\ wp' = WorkspaceConsiderDestroy(t, w)
    BY <1>2, <1>3, <1>5 DEF Vacate
  <2> HIDE DEF t
  <2> QED
    BY <2>1, ConsiderDestroyKeeps
<1> QED
  BY <1>4, <1>5

\* root_arrange, of an active workspace: it is alive, so that nothing dead is arranged.
LEMMA ArrangeKeeps ==
  ASSUME NEW s, WpInv(s), s.activeWorkspace # NoWorkspace
  PROVE  WpInv(RootArrange(s))
<1> DEFINE w == s.activeWorkspace
           dirty == IF s.rootDirty THEN s.dirty \cup {w} ELSE s.dirty
           pending == IF w \in dirty THEN s.pendingFocused \cup {w} ELSE s.pendingFocused
           t == [s EXCEPT !.dirty = dirty, !.pendingFocused = pending, !.pendingDead = s.pendingDead]
<1>1. s \in WpState /\ w \in s.alive /\ w \in Workspace
  BY DEF WpInv, AliveInv, WpState
<1>2. RootArrange(s) = t
  BY <1>1 DEF RootArrange
<1>3. dirty \in SUBSET Workspace /\ pending \in SUBSET Workspace /\ IsFiniteSet(dirty)
  BY <1>1, OneMoreIsFinite DEF WpState, WpInv, AliveInv
<1> HIDE DEF dirty, pending
<1>4. t \in WpState
      /\ t.told = s.told /\ t.handles = s.handles /\ t.focused = s.focused
      /\ t.batch = s.batch /\ t.idle = s.idle /\ t.queued = s.queued
      /\ t.listed = s.listed /\ t.bound = s.bound
      /\ t.activeWorkspace = s.activeWorkspace /\ t.alive = s.alive /\ t.dirty = dirty
  BY <1>1, <1>3 DEF WpState
<1> HIDE DEF t
<1>5. AliveInv(t)
  BY <1>1, <1>3, <1>4 DEF AliveInv
<1> QED
  BY <1>2, <1>4, <1>5, SameTold

\* workspace_handle_transaction_commit
LEMMA CommitKeeps ==
  ASSUME NEW s, WpInv(s), NEW w \in Workspace
  PROVE  WpInv(WorkspaceCommit(s, w))
<1> DEFINE with == IF w \in s.handles THEN s ELSE HandleCreate(s, w)
           focused == w \in s.pendingFocused
<1>1. w \notin s.pendingDead
  BY DEF WpInv, WpState
<1>2. WpInv(with) /\ w \in with.handles
  BY HandleCreateKeeps
<1>3. WorkspaceCommit(s, w) = HandleSetFocused(with, w, focused) /\ focused \in BOOLEAN
  BY <1>1 DEF WorkspaceCommit
<1> HIDE DEF with, focused
<1> QED
  BY <1>2, <1>3, SetFocusedKeeps

\* A transaction: the dirty workspaces commit one after the other, in any order.
LEMMA TransactionKeeps ==
  ASSUME WpInv(wp), TransactionCommit
  PROVE  WpInv(wp')
<1> DEFINE s == RootArrange(wp)
           D == s.dirty
           T == {t \in WpState : WpInv(t)}
           First(z) == CHOOSE x \in z : TRUE
           Step(iter) == [z \in SUBSET D |->
                            IF z = {} THEN s ELSE WorkspaceCommit(iter[z \ {First(z)}], First(z))]
           op == [p \in D \X T |-> WorkspaceCommit(p[2], p[1])]
           pick == [z \in SUBSET D |-> First(z)]
           chosen == CHOOSE iter : iter = Step(iter)
           G == {z \in SUBSET D : chosen[z] \in T}
           t == [chosen[D] EXCEPT !.dirty = {}, !.rootDirty = FALSE]
<1>1. wp' = t
  BY DEF TransactionCommit, FoldSet, MapThenFoldSet
<1>2. WpInv(s)
  BY ArrangeKeeps DEF TransactionCommit
<1>3. \A x : WpInv(x) => x \in T
  BY DEF WpInv
<1>4. s \in T /\ IsFiniteSet(D) /\ D \subseteq Workspace
  BY <1>2, <1>3 DEF WpInv, AliveInv, WpState
<1> HIDE DEF s
<1>5. \A w \in D, x \in T : WorkspaceCommit(x, w) \in T
  BY <1>3, <1>4, CommitKeeps
<1>6. op \in [D \X T -> T]
  BY <1>5
<1>7. \A z \in SUBSET D : z # {} => First(z) \in z
  OBVIOUS
<1> HIDE DEF First, T, D
<1>8. \E f \in [SUBSET D -> T] : IsFold(f, D, s, op, pick)
  <2>1. IsPick(pick, D)
    BY <1>7 DEF IsPick
  <2> HIDE DEF op, pick
  <2> QED
    BY <1>4, <1>6, <2>1, RecursionOnSubsets
<1>9. \E iter : iter = Step(iter)
  <2>1. PICK f \in [SUBSET D -> T] : \A z \in SUBSET D :
          f[z] = IF z = {} THEN s ELSE op[<<pick[z], f[z \ {pick[z]}]>>]
    BY <1>8 DEF IsFold
  <2>2. ASSUME NEW z \in SUBSET D, z # {} PROVE f[z] = WorkspaceCommit(f[z \ {First(z)}], First(z))
    <3>1. pick[z] = First(z) /\ First(z) \in D /\ f[z \ {First(z)}] \in T
      BY <1>7, <2>2
    <3> QED
      BY <2>1, <2>2, <3>1
  <2>3. f = Step(f)
    BY <2>1, <2>2
  <2> QED
    BY <2>3
<1>10. \A z \in SUBSET D :
         chosen[z] = IF z = {} THEN s ELSE WorkspaceCommit(chosen[z \ {First(z)}], First(z))
  <2>1. chosen = Step(chosen)
    BY <1>9
  <2> QED
    BY <2>1
<1> HIDE DEF chosen
<1>11. D \in G
  <2>1. G \in SUBSET SUBSET D /\ {} \in G
    BY <1>4, <1>10
  <2>2. ASSUME NEW z \in SUBSET D, z # {}
        PROVE  \E x \in z : z \ {x} \in G => z \in G
    <3>1. First(z) \in z /\ First(z) \in D
      BY <1>7, <2>2
    <3>2. z \ {First(z)} \in G => z \in G
      BY <1>5, <1>10, <2>2, <3>1
    <3> QED
      BY <3>1, <3>2
  <2> HIDE DEF G
  <2> QED
    BY <1>4, <2>1, <2>2, SubsetInduction
<1> DEFINE last == chosen[D]
<1>12. WpInv(last) /\ last \in WpState
  BY <1>11 DEF T
<1> HIDE DEF last
<1>13. WpInv([last EXCEPT !.dirty = {}, !.rootDirty = FALSE])
  <2> DEFINE u == [last EXCEPT !.dirty = {}, !.rootDirty = FALSE]
  <2>1. u \in WpState
        /\ u.told = last.told /\ u.handles = last.handles /\ u.focused = last.focused
        /\ u.batch = last.batch /\ u.idle = last.idle /\ u.queued = last.queued
        /\ u.listed = last.listed /\ u.bound = last.bound
        /\ u.activeWorkspace = last.activeWorkspace /\ u.alive = last.alive /\ u.dirty = {}
    BY <1>12 DEF WpState
  <2> HIDE DEF u
  <2>2. AliveInv(u)
    BY <1>12, <2>1, FS_EmptySet DEF WpInv, AliveInv
  <2>3. WpInv(u)
    BY <1>12, <2>1, <2>2, SameTold
  <2> QED
    BY <2>3 DEF u
<1> QED
  BY <1>1, <1>13 DEF last

\* The invariant holds throughout.
LEMMA WpInvHolds == WpSpec => []WpInv(wp)
<1>1. ASSUME WpInit PROVE WpInv(wp)
  <2> DEFINE told == [m \in Manager |-> [w \in Workspace |-> NoHandle]]
  <2>1. told \in [Manager -> [Workspace -> Heard]]
        /\ \A m \in Manager, w \in Workspace : ~told[m][w].open /\ told[m][w].focused = "untold"
    BY DEF NoHandle, Heard
  <2>2. wp.told = told /\ wp.handles = {} /\ wp.listed = {} /\ wp.bound = {} /\ wp.batch = {}
        /\ wp.idle = FALSE /\ wp.queued = FALSE /\ wp.activeWorkspace = NoWorkspace /\ wp.dirty = {}
    BY <1>1 DEF WpInit
  <2>3. wp \in WpState
    <3> HIDE DEF told
    <3> QED
      BY <1>1, <2>1 DEF WpInit, WpState, told
  <2> HIDE DEF told
  <2>4. ToldInv(wp) /\ DoneInv(wp)
    BY <2>1, <2>2 DEF ToldInv, DoneInv
  <2>5. AliveInv(wp)
    BY <2>2, FS_EmptySet DEF AliveInv
  <2> QED
    BY <2>3, <2>4, <2>5 DEF WpInv
<1>2. ASSUME WpInv(wp), [WpNext]_wpVars PROVE WpInv(wp')
  <2>1. ASSUME NEW m \in Manager, Bind(m) PROVE WpInv(wp')
    BY <1>2, <2>1, BindKeeps
  <2>2. ASSUME NEW m \in Manager, Stop(m) PROVE WpInv(wp')
    BY <1>2, <2>2, StopKeeps
  <2>3. CASE IdleSendDone
    BY <1>2, <2>3, SendDoneKeeps
  <2>4. ASSUME NEW w \in Workspace, SwitchTo(w) PROVE WpInv(wp')
    BY <1>2, <2>4, SetActiveKeeps DEF SwitchTo
  <2>5. ASSUME NEW w \in Workspace, Use(w) \/ Vacate(w) PROVE WpInv(wp')
    BY <1>2, <2>5, UseAndVacateKeep
  <2>6. ASSUME NEW w \in Workspace, NEW b \in BOOLEAN, CreateWorkspace(w, b) PROVE WpInv(wp')
    BY <1>2, <2>6, CreateKeeps
  <2>7. CASE TransactionCommit
    BY <1>2, <2>7, TransactionKeeps
  <2>8. CASE UNCHANGED wpVars
    BY <1>2, <2>8 DEF wpVars
  <2> QED
    BY <1>2, <2>1, <2>2, <2>3, <2>4, <2>5, <2>6, <2>7, <2>8 DEF WpNext
<1>3. WpInv(wp) /\ [WpNext]_wpVars => WpInv(wp)'
  BY <1>2
<1> QED
  BY <1>1, <1>3, PTL DEF WpSpec

\* However changes, the idle callback and new clients come together, a client that did not
\* stop has a resource of each handle, knows its focus, and is sent a "done" for what it was
\* told (manager_handle_bind, manager_set_dirty, workspace_handle_transaction_commit).
THEOREM ClientsAreTold == WpSpec => []ClientsKeepUp
<1>1. ASSUME WpInv(wp) PROVE ClientsKeepUp
  <2>1. \A m \in wp.bound : wp.handles = {w \in Workspace : wp.told[m][w].open}
    BY <1>1 DEF WpInv, WpState, ToldInv
  <2>2. \A m \in Manager, w \in wp.handles :
          wp.told[m][w].focused # "untold" => (wp.told[m][w].focused = "yes") = (w \in wp.focused)
    BY <1>1 DEF WpInv, WpState, ToldInv
  <2>3. wp.batch \cap wp.bound # {} => wp.queued
    BY <1>1 DEF WpInv, DoneInv
  <2> QED
    BY <2>1, <2>2, <2>3 DEF ClientsKeepUp
<1> QED
  BY <1>1, WpInvHolds, PTL

-----------------------------------------------------------------------------
(* X11 surfaces: the inductive invariant.                                  *)

Fields ==
  {"object", "redirect", "parent", "associated", "mapped", "listening", "stale", "switched", "shown",
   "window", "floating", "full", "wantsFull", "minimized", "floatSize", "content", "geometry", "own",
   "configured", "configuring", "lost", "dirty", "phase", "active", "unmanaged", "surface", "focused",
   "told", "failed"}

\* As much of the types as the proofs need.
XType(s) ==
  /\ DOMAIN s = Fields
  /\ s.object \in [XSurface -> {"none", "view", "unmanaged"}]
  /\ s.window \in [XSurface -> {"none", "live", "dead"}]
  /\ DOMAIN s.content = XSurface /\ DOMAIN s.geometry = XSurface /\ DOMAIN s.configured = XSurface
  /\ s.associated \subseteq XSurface /\ s.listening \subseteq XSurface /\ s.stale \subseteq XSurface
  /\ s.switched \subseteq XSurface /\ s.shown \subseteq XSurface /\ s.told \subseteq XSurface
  /\ s.mapped \subseteq s.associated /\ s.configuring \subseteq XSurface

\* A live window is that of a view that is shown, and the active window is live.
LiveInv(s) ==
  /\ \A x \in XSurface : IsLive(s, x) => s.object[x] = "view" /\ x \in s.shown
  /\ s.active # None => s.active \in XSurface /\ IsLive(s, s.active)

\* The root's focus is where the tree or an unmanaged surface has it, and the window that
\* was told so is the one.
FocusOf(s) == IF s.unmanaged # None THEN s.unmanaged ELSE s.active
WindowOf(s) == IF s.unmanaged # None THEN None ELSE s.active
FocInv(s) ==
  /\ s.surface = FocusOf(s) /\ s.focused = WindowOf(s)
  /\ \A x \in s.told \ s.switched : x = s.focused /\ IsLive(s, x) /\ x \notin s.minimized

\* What a window was asked for is what wlroots has, until the client moves it while it is
\* unmapped; nothing was asked of a new view.
WaitInv(s) ==
  /\ \A x \in s.configuring :
       /\ IsLive(s, x) /\ s.configured[x].geometry = s.content[x]
       /\ s.geometry[x] = s.content[x] \/ x \in s.own
  /\ \A x \in XSurface : s.object[x] = "view" =>
       x \in s.own \/ s.configured[x].geometry = s.geometry[x] \/ s.configured[x] = NoConfigure

\* A surface that is shown, mapped and listened to is so in all respects, unless it changed
\* its kind while it was associated: then its listeners are gone, and the next thing that
\* wlroots tells of it is the end.
AtRest(s, x) ==
  IF x \in s.switched THEN x \in s.associated /\ x \notin s.listening
  ELSE /\ x \in s.shown <=> x \in s.mapped
       /\ IsLive(s, x) <=> s.object[x] = "view" /\ x \in s.mapped
       /\ x \in s.listening <=> x \in s.associated
       /\ x \notin s.stale
       /\ x \in s.associated => s.object[x] # "none"
SurfInv(s) == \A x \in XSurface : AtRest(s, x)

Inner(s) == XType(s) /\ LiveInv(s) /\ FocInv(s) /\ WaitInv(s) /\ s.failed = "no"
Failed(s) == XType(s) /\ s.failed # "no" /\ s.configuring = {}
XwInv(s) == Failed(s) \/ (Inner(s) /\ SurfInv(s))

Base(s) == <<s.object, s.associated, s.mapped, s.listening, s.stale, s.switched, s.shown, s.window, s.failed>>
Foc(s) == <<s.active, s.unmanaged, s.surface, s.focused, s.told, s.minimized>>
Size(s) == <<s.geometry, s.content, s.own, s.configured>>

\* The model has stopped: nothing is waited for.
LEMMA FailIsFailed ==
  ASSUME NEW why, why # "no"
  PROVE  Failed(XFail(why))
<1> DEFINE t == [Initially EXCEPT !.failed = why]
<1>1. DOMAIN Initially = Fields
  BY DEF Initially, Fields
<1>2. /\ Initially.object = [x \in XSurface |-> "none"] /\ Initially.window = [x \in XSurface |-> "none"]
      /\ Initially.content = [x \in XSurface |-> Zero] /\ Initially.geometry = [x \in XSurface |-> Zero]
      /\ Initially.configured = [x \in XSurface |-> NoConfigure]
      /\ Initially.associated = {} /\ Initially.listening = {} /\ Initially.stale = {}
      /\ Initially.switched = {} /\ Initially.shown = {} /\ Initially.told = {}
      /\ Initially.mapped = {} /\ Initially.configuring = {}
  BY DEF Initially
<1>3. /\ DOMAIN t = Fields /\ t.failed = why
      /\ t.object = Initially.object /\ t.window = Initially.window
      /\ t.content = Initially.content /\ t.geometry = Initially.geometry
      /\ t.configured = Initially.configured
      /\ t.associated = {} /\ t.listening = {} /\ t.stale = {}
      /\ t.switched = {} /\ t.shown = {} /\ t.told = {} /\ t.mapped = {} /\ t.configuring = {}
  BY <1>1, <1>2 DEF Fields
<1> HIDE DEF t
<1>4. XType(t)
  BY <1>2, <1>3 DEF XType
<1> QED
  BY <1>3, <1>4 DEF Failed, XFail, t

\* Requests, timers and the user change nothing that matters here.
LEMMA Quiet ==
  ASSUME NEW s, Inner(s), SurfInv(s), NEW t, DOMAIN t = Fields, Base(t) = Base(s), Foc(t) = Foc(s), Size(t) = Size(s),
         t.configuring \subseteq s.configuring
  PROVE  Inner(t) /\ SurfInv(t)
<1>1. /\ t.object = s.object /\ t.associated = s.associated /\ t.mapped = s.mapped
      /\ t.listening = s.listening /\ t.stale = s.stale /\ t.switched = s.switched
      /\ t.shown = s.shown /\ t.window = s.window /\ t.failed = s.failed
  BY DEF Base
<1>2. /\ t.active = s.active /\ t.unmanaged = s.unmanaged /\ t.surface = s.surface
      /\ t.focused = s.focused /\ t.told = s.told /\ t.minimized = s.minimized
  BY DEF Foc
<1>3. t.geometry = s.geometry /\ t.content = s.content /\ t.own = s.own /\ t.configured = s.configured
  BY DEF Size
<1>4. XType(t)
  BY <1>1, <1>2, <1>3 DEF Inner, XType
<1>5. LiveInv(t)
  BY <1>1, <1>2 DEF Inner, LiveInv, IsLive
<1>6. FocInv(t)
  BY <1>1, <1>2 DEF Inner, FocInv, FocusOf, WindowOf, IsLive
<1>7. WaitInv(t)
  BY <1>1, <1>3 DEF Inner, WaitInv, IsLive
<1>8. SurfInv(t)
  BY <1>1 DEF SurfInv, AtRest, IsLive
<1> QED
  BY <1>1, <1>4, <1>5, <1>6, <1>7, <1>8 DEF Inner

-----------------------------------------------------------------------------
(* X11 surfaces: the focus.                                                *)

\* root_commit_focus
LEMMA CommitFocusEffect ==
  ASSUME NEW s, XType(s)
  PROVE  LET t == XCommitFocus(s)
         IN  /\ XType(t) /\ Base(t) = Base(s) /\ Size(t) = Size(s) /\ t.configuring = s.configuring
             /\ t.active = s.active /\ t.unmanaged = s.unmanaged
             /\ t.surface = FocusOf(s) /\ t.focused = WindowOf(s)
             /\ IF s.surface = FocusOf(s) THEN t.told = s.told /\ t.minimized = s.minimized
                ELSE /\ t.told = (s.told \ s.shown) \cup ({WindowOf(s)} \cap s.shown)
                     /\ t.minimized = s.minimized \ ({WindowOf(s)} \cap (s.shown \ s.told))
<1> DEFINE new == [s EXCEPT !.surface = FocusOf(s), !.focused = WindowOf(s)]
           told == (s.told \ s.shown) \cup ({WindowOf(s)} \cap s.shown)
           minimized == s.minimized \ ({WindowOf(s)} \cap (s.shown \ s.told))
           t == [new EXCEPT !.told = told, !.minimized = minimized]
<1>1. DOMAIN s = Fields
  BY DEF XType
<1>2. /\ DOMAIN new = Fields /\ Base(new) = Base(s) /\ Size(new) = Size(s) /\ new.configuring = s.configuring
      /\ new.active = s.active /\ new.unmanaged = s.unmanaged
      /\ new.surface = FocusOf(s) /\ new.focused = WindowOf(s)
      /\ new.told = s.told /\ new.minimized = s.minimized
  BY <1>1 DEF Fields, Base, Size
<1> HIDE DEF new
<1>3. /\ DOMAIN t = Fields /\ Base(t) = Base(s) /\ Size(t) = Size(s) /\ t.configuring = s.configuring
      /\ t.active = s.active /\ t.unmanaged = s.unmanaged
      /\ t.surface = FocusOf(s) /\ t.focused = WindowOf(s)
      /\ t.told = told /\ t.minimized = minimized
  BY <1>2 DEF Fields, Base, Size
<1> HIDE DEF t
<1>4. XType(new) /\ XType(t)
  BY <1>2, <1>3 DEF XType, Base, Size
<1>5. XCommitFocus(s) = IF s.surface = FocusOf(s) THEN new ELSE t
  BY <1>2 DEF XCommitFocus, FocusOf, WindowOf, new, t
<1> QED
  BY <1>2, <1>3, <1>4, <1>5

\* The focus is consistent after it is committed, if a window that was told of it is shown
\* and, when the focus stays where it is, still the one.
LEMMA FocusKept ==
  ASSUME NEW s, XType(s), s.failed = "no", WaitInv(s),
         s.active # None => s.active \in XSurface /\ IsLive(s, s.active),
         \A x \in s.told \ s.switched :
           /\ x \in s.shown /\ x \notin s.minimized
           /\ s.surface = FocusOf(s) => x = WindowOf(s) /\ IsLive(s, x)
  PROVE  LET t == XCommitFocus(s)
         IN  XType(t) /\ FocInv(t) /\ WaitInv(t) /\ Base(t) = Base(s) /\ t.active = s.active
<1> DEFINE t == XCommitFocus(s)
<1>1. /\ XType(t) /\ Base(t) = Base(s) /\ Size(t) = Size(s) /\ t.configuring = s.configuring
      /\ t.active = s.active /\ t.unmanaged = s.unmanaged
      /\ t.surface = FocusOf(s) /\ t.focused = WindowOf(s)
      /\ IF s.surface = FocusOf(s) THEN t.told = s.told /\ t.minimized = s.minimized
         ELSE /\ t.told = (s.told \ s.shown) \cup ({WindowOf(s)} \cap s.shown)
              /\ t.minimized = s.minimized \ ({WindowOf(s)} \cap (s.shown \ s.told))
  BY CommitFocusEffect
<1> HIDE DEF t
<1>2. t.object = s.object /\ t.window = s.window /\ t.switched = s.switched
  BY <1>1 DEF Base
<1>3. t.geometry = s.geometry /\ t.content = s.content /\ t.own = s.own /\ t.configured = s.configured
  BY <1>1 DEF Size
<1>4. WaitInv(t)
  BY <1>1, <1>2, <1>3 DEF WaitInv, IsLive
<1>5. FocusOf(t) = FocusOf(s) /\ WindowOf(t) = WindowOf(s)
  BY <1>1 DEF FocusOf, WindowOf
<1>6. ASSUME NEW x \in t.told \ t.switched
      PROVE  x = WindowOf(s) /\ IsLive(s, x) /\ x \notin t.minimized
  <2>1. CASE s.surface = FocusOf(s)
    BY <1>1, <1>2, <1>6, <2>1
  <2>2. CASE s.surface # FocusOf(s)
    <3>1. x \in s.told => x \in s.shown /\ x \notin s.minimized
      BY <1>2, <1>6
    <3>2. x = WindowOf(s) /\ x \in s.shown
      BY <1>1, <1>6, <2>2, <3>1
    <3>3. x # None
      BY <3>2, NameAssumption DEF XType
    <3>4. IsLive(s, x)
      BY <3>2, <3>3 DEF WindowOf
    <3>5. x \notin t.minimized
      BY <1>1, <2>2, <3>1, <3>2
    <3> QED
      BY <3>2, <3>4, <3>5
  <2> QED
    BY <2>1, <2>2
<1>7. FocInv(t)
  BY <1>1, <1>2, <1>5, <1>6 DEF FocInv, IsLive
<1> QED
  BY <1>1, <1>4, <1>7 DEF t

\* What a window that was told of the focus is, in a state at rest.
LEMMA ToldWindow ==
  ASSUME NEW s, Inner(s), NEW x \in s.told \ s.switched
  PROVE  /\ x \in XSurface /\ x # None /\ x = s.active /\ s.unmanaged = None /\ x = s.surface
         /\ IsLive(s, x) /\ s.object[x] = "view" /\ x \in s.shown /\ x \notin s.minimized
<1>1. x \in XSurface /\ x # None
  BY NameAssumption DEF Inner, XType
<1>2. x = s.focused /\ IsLive(s, x) /\ x \notin s.minimized
  BY DEF Inner, FocInv
<1>3. x = s.active /\ s.unmanaged = None /\ x = s.surface
  BY <1>1, <1>2 DEF Inner, FocInv, FocusOf, WindowOf
<1> QED
  BY <1>1, <1>2, <1>3 DEF Inner, LiveInv

\* Committing the focus again changes nothing that matters.
LEMMA CommitAgain ==
  ASSUME NEW s, Inner(s)
  PROVE  LET t == XCommitFocus(s) IN Inner(t) /\ Base(t) = Base(s)
<1> DEFINE t == XCommitFocus(s)
<1>1. XType(t) /\ FocInv(t) /\ WaitInv(t) /\ Base(t) = Base(s) /\ t.active = s.active
  <2>1. \A x \in s.told \ s.switched :
          /\ x \in s.shown /\ x \notin s.minimized
          /\ s.surface = FocusOf(s) => x = WindowOf(s) /\ IsLive(s, x)
    BY ToldWindow DEF WindowOf
  <2>2. s.active # None => s.active \in XSurface /\ IsLive(s, s.active)
    BY DEF Inner, LiveInv
  <2> QED
    BY <2>1, <2>2, FocusKept DEF Inner
<1> HIDE DEF t
<1>2. t.object = s.object /\ t.window = s.window /\ t.shown = s.shown /\ t.failed = s.failed
  BY <1>1 DEF Base
<1>3. LiveInv(t)
  BY <1>1, <1>2 DEF Inner, LiveInv, IsLive
<1> QED
  BY <1>1, <1>2, <1>3 DEF Inner, t

\* The user or a client gives the focus to a window that is live, or to none of these.
LEMMA FocusWindowKeeps ==
  ASSUME NEW s, Inner(s), NEW x, x = None \/ (x \in XSurface /\ IsLive(s, x))
  PROVE  LET t == XCommitFocus(FocusXWindow(s, x)) IN Inner(t) /\ Base(t) = Base(s)
<1> DEFINE f == FocusXWindow(s, x)
           t == XCommitFocus(f)
<1>1. /\ DOMAIN f = Fields /\ f.active = x /\ f.unmanaged = None /\ Base(f) = Base(s) /\ Size(f) = Size(s)
      /\ f.configuring = s.configuring /\ f.surface = s.surface /\ f.told = s.told /\ f.minimized = s.minimized
  <2>1. DOMAIN s = Fields
    BY DEF Inner, XType
  <2> QED
    BY <2>1 DEF FocusXWindow, Fields, Base, Size
<1> HIDE DEF f
<1>2. /\ f.object = s.object /\ f.window = s.window /\ f.switched = s.switched /\ f.shown = s.shown
      /\ f.failed = s.failed
  BY <1>1 DEF Base
<1>3. f.geometry = s.geometry /\ f.content = s.content /\ f.own = s.own /\ f.configured = s.configured
  BY <1>1 DEF Size
<1>4. XType(f)
  BY <1>1, <1>3 DEF Inner, XType, Base
<1>5. WaitInv(f)
  BY <1>1, <1>2, <1>3 DEF Inner, WaitInv, IsLive
<1>6. ASSUME NEW y \in f.told \ f.switched
      PROVE  /\ y \in f.shown /\ y \notin f.minimized
             /\ f.surface = FocusOf(f) => y = WindowOf(f) /\ IsLive(f, y)
  BY <1>1, <1>2, <1>6, ToldWindow DEF FocusOf, WindowOf, IsLive
<1>7. f.failed = "no" /\ (f.active # None => f.active \in XSurface /\ IsLive(f, f.active))
  BY <1>1, <1>2 DEF Inner, IsLive
<1>8. XType(t) /\ FocInv(t) /\ WaitInv(t) /\ Base(t) = Base(f) /\ t.active = f.active
  BY <1>4, <1>5, <1>6, <1>7, FocusKept
<1> HIDE DEF t
<1>9. t.object = s.object /\ t.window = s.window /\ t.shown = s.shown /\ t.failed = s.failed
  BY <1>1, <1>8 DEF Base
<1>10. LiveInv(t)
  BY <1>1, <1>8, <1>9 DEF Inner, LiveInv, IsLive
<1> QED
  BY <1>1, <1>8, <1>9, <1>10 DEF Inner, t, f

\* The focus goes to a surface that is no view, or stays with one that was none.
LEMMA FocusUnmanagedKeeps ==
  ASSUME NEW s, Inner(s), NEW x, x # None, \A y \in s.told \ s.switched : y # x
  PROVE  LET t == XCommitFocus(FocusUnmanaged(s, x)) IN Inner(t) /\ Base(t) = Base(s)
<1> DEFINE f == FocusUnmanaged(s, x)
           t == XCommitFocus(f)
<1>1. /\ DOMAIN f = Fields /\ f.active = None /\ f.unmanaged = x /\ Base(f) = Base(s) /\ Size(f) = Size(s)
      /\ f.configuring = s.configuring /\ f.surface = s.surface /\ f.told = s.told /\ f.minimized = s.minimized
  <2>1. DOMAIN s = Fields
    BY DEF Inner, XType
  <2> QED
    BY <2>1 DEF FocusUnmanaged, Fields, Base, Size
<1> HIDE DEF f
<1>2. /\ f.object = s.object /\ f.window = s.window /\ f.switched = s.switched /\ f.shown = s.shown
      /\ f.failed = s.failed
  BY <1>1 DEF Base
<1>3. f.geometry = s.geometry /\ f.content = s.content /\ f.own = s.own /\ f.configured = s.configured
  BY <1>1 DEF Size
<1>4. XType(f)
  BY <1>1, <1>3 DEF Inner, XType, Base
<1>5. WaitInv(f)
  BY <1>1, <1>2, <1>3 DEF Inner, WaitInv, IsLive
<1>6. ASSUME NEW y \in f.told \ f.switched
      PROVE  /\ y \in f.shown /\ y \notin f.minimized
             /\ f.surface = FocusOf(f) => y = WindowOf(f) /\ IsLive(f, y)
  BY <1>1, <1>2, <1>6, ToldWindow DEF FocusOf
<1>7. f.failed = "no" /\ (f.active # None => f.active \in XSurface /\ IsLive(f, f.active))
  BY <1>1, <1>2 DEF Inner
<1>8. XType(t) /\ FocInv(t) /\ WaitInv(t) /\ Base(t) = Base(f) /\ t.active = f.active
  BY <1>4, <1>5, <1>6, <1>7, FocusKept
<1> HIDE DEF t
<1>9. t.object = s.object /\ t.window = s.window /\ t.shown = s.shown /\ t.failed = s.failed
  BY <1>1, <1>8 DEF Base
<1>10. LiveInv(t)
  BY <1>1, <1>8, <1>9 DEF Inner, LiveInv, IsLive
<1> QED
  BY <1>1, <1>8, <1>9, <1>10 DEF Inner, t, f

-----------------------------------------------------------------------------
(* X11 surfaces: the handlers of both kinds.                               *)

\* All surfaces but x are as they were.
Besides(s, t, x) ==
  /\ t.associated = s.associated /\ t.mapped = s.mapped /\ t.switched = s.switched
  /\ \A y \in XSurface \ {x} :
       /\ t.object[y] = s.object[y] /\ t.window[y] = s.window[y]
       /\ y \in t.shown <=> y \in s.shown
       /\ y \in t.listening <=> y \in s.listening
       /\ y \in t.stale <=> y \in s.stale

\* hwd_xwayland_view_handle_xsurface_map
LEMMA MapViewKeeps ==
  ASSUME NEW s, Inner(s), NEW x \in XSurface, s.object[x] = "view",
         NEW floats, NEW focuses \in BOOLEAN, NEW natural
  PROVE  LET t == MapView(s, x, floats, focuses, natural)
         IN  \/ Failed(t)
             \/ /\ Inner(t) /\ Besides(s, t, x)
                /\ x \notin s.shown /\ x \in t.shown /\ IsLive(t, x) /\ t.object[x] = "view"
                /\ t.listening = s.listening /\ t.stale = s.stale
<1> DEFINE window == [s EXCEPT !.window[x] = "live", !.shown = @ \cup {x}, !.dirty = @ \cup {x},
                          !.floating = IF floats THEN @ \cup {x} ELSE @ \ {x},
                          !.floatSize[x] = natural, !.content[x] = Zero,
                          !.full = IF x \in s.wantsFull THEN @ \cup {x} ELSE @ \ {x}]
           f == IF focuses THEN FocusXWindow(window, x) ELSE window
           t == XCommitFocus(f)
<1>1. \/ Failed(MapView(s, x, floats, focuses, natural))
      \/ x \notin s.shown /\ MapView(s, x, floats, focuses, natural) = t
  <2> DEFINE p == s.parent[x]
             noView == p # None /\ s.object[p] # "view"
             deadWindow == p # None /\ f.window[p] = "dead"
  <2>1. MapView(s, x, floats, focuses, natural) =
          IF x \in s.shown THEN XFail("surface") ELSE IF noView THEN XFail("no view")
          ELSE IF deadWindow THEN XFail("dead window") ELSE t
    BY Zenon DEF MapView
  <2> HIDE DEF noView, deadWindow, t
  <2>2. \/ \E why \in {"surface", "no view", "dead window"} : MapView(s, x, floats, focuses, natural) = XFail(why)
        \/ x \notin s.shown /\ MapView(s, x, floats, focuses, natural) = t
    BY <2>1
  <2> QED
    BY <2>2, FailIsFailed
<1>2. SUFFICES ASSUME x \notin s.shown
               PROVE  /\ Inner(t) /\ Besides(s, t, x)
                      /\ x \in t.shown /\ IsLive(t, x) /\ t.object[x] = "view"
                      /\ t.listening = s.listening /\ t.stale = s.stale
  BY <1>1
<1>3. XType(s) /\ DOMAIN s = Fields /\ ~IsLive(s, x) /\ x # s.active /\ x # None /\ x \notin s.configuring
  <2>1. ~IsLive(s, x)
    BY <1>2 DEF Inner, LiveInv
  <2>2. x # None
    BY NameAssumption
  <2>3. x # s.active /\ x \notin s.configuring
    BY <2>1, <2>2 DEF Inner, LiveInv, WaitInv
  <2> QED
    BY <2>1, <2>2, <2>3 DEF Inner, XType
<1>4. /\ DOMAIN window = Fields
      /\ window.object = s.object /\ window.associated = s.associated /\ window.mapped = s.mapped
      /\ window.listening = s.listening /\ window.stale = s.stale /\ window.switched = s.switched
      /\ window.shown = s.shown \cup {x} /\ window.window = [s.window EXCEPT ![x] = "live"]
      /\ window.failed = s.failed
      /\ window.geometry = s.geometry /\ window.content = [s.content EXCEPT ![x] = Zero]
      /\ window.own = s.own /\ window.configured = s.configured /\ window.configuring = s.configuring
      /\ window.active = s.active /\ window.unmanaged = s.unmanaged /\ window.surface = s.surface
      /\ window.told = s.told /\ window.minimized = s.minimized
  BY <1>3 DEF Fields
<1> HIDE DEF window
<1>5. /\ DOMAIN f = Fields
      /\ f.object = s.object /\ f.associated = s.associated /\ f.mapped = s.mapped
      /\ f.listening = s.listening /\ f.stale = s.stale /\ f.switched = s.switched
      /\ f.shown = s.shown \cup {x} /\ f.window = [s.window EXCEPT ![x] = "live"]
      /\ f.failed = s.failed
      /\ f.geometry = s.geometry /\ f.content = [s.content EXCEPT ![x] = Zero]
      /\ f.own = s.own /\ f.configured = s.configured /\ f.configuring = s.configuring
      /\ f.active = (IF focuses THEN x ELSE s.active)
      /\ f.unmanaged = (IF focuses THEN None ELSE s.unmanaged) /\ f.surface = s.surface
      /\ f.told = s.told /\ f.minimized = s.minimized
  <2>1. CASE focuses
    BY <1>4, <2>1 DEF FocusXWindow, Fields
  <2>2. CASE ~focuses
    BY <1>4, <2>2
  <2> QED
    BY <2>1, <2>2
<1> HIDE DEF f
<1>6. XType(f)
  BY <1>3, <1>5 DEF XType
<1>7. IsLive(f, x) /\ \A y \in XSurface \ {x} : f.window[y] = s.window[y] /\ (IsLive(f, y) <=> IsLive(s, y))
  BY <1>3, <1>5 DEF XType, IsLive
<1>8. WaitInv(f)
  BY <1>3, <1>5, <1>7 DEF Inner, WaitInv, XType
<1>9. f.active # None => f.active \in XSurface /\ IsLive(f, f.active)
  BY <1>3, <1>5, <1>7 DEF Inner, LiveInv
<1>10. ASSUME NEW y \in f.told \ f.switched
       PROVE  /\ y \in f.shown /\ y \notin f.minimized
              /\ f.surface = FocusOf(f) => y = WindowOf(f) /\ IsLive(f, y)
  <2>1. /\ y \in XSurface /\ y # None /\ y = s.active /\ s.unmanaged = None /\ y = s.surface
        /\ IsLive(s, y) /\ y \in s.shown /\ y \notin s.minimized
    BY <1>5, ToldWindow
  <2>2. y # x /\ IsLive(f, y)
    BY <1>3, <1>7, <2>1
  <2> QED
    BY <1>3, <1>5, <2>1, <2>2 DEF FocusOf, WindowOf
<1>11. XType(t) /\ FocInv(t) /\ WaitInv(t) /\ Base(t) = Base(f) /\ t.active = f.active
  <2>1. f.failed = "no"
    BY <1>5 DEF Inner
  <2> QED
    BY <1>6, <1>8, <1>9, <1>10, <2>1, FocusKept
<1> HIDE DEF t
<1>12. /\ t.object = f.object /\ t.window = f.window /\ t.shown = f.shown /\ t.failed = f.failed
       /\ t.listening = f.listening /\ t.stale = f.stale
       /\ t.associated = f.associated /\ t.mapped = f.mapped /\ t.switched = f.switched
  BY <1>11 DEF Base
<1>13. LiveInv(t)
  BY <1>5, <1>7, <1>9, <1>11, <1>12 DEF Inner, LiveInv, IsLive
<1>14. Inner(t)
  BY <1>5, <1>11, <1>12, <1>13 DEF Inner
<1>15. Besides(s, t, x)
  BY <1>5, <1>7, <1>12 DEF Besides
<1> QED
  BY <1>5, <1>7, <1>12, <1>14, <1>15 DEF IsLive

\* hwd_xwayland_view_handle_unmap: what becomes active is live, and not this one.
LEMMA UnmapViewKeeps ==
  ASSUME NEW s, Inner(s), NEW x \in XSurface, s.object[x] = "view",
         NEW next, next = None \/ (next \in XSurface \ {x} /\ IsLive(s, next))
  PROVE  LET t == UnmapView(s, x, next)
         IN  \/ Failed(t)
             \/ /\ Inner(t) /\ Besides(s, t, x)
                /\ x \notin t.shown /\ ~IsLive(t, x) /\ t.object[x] = "view"
                /\ t.listening = s.listening /\ t.stale = s.stale
<1> DEFINE gone == [s EXCEPT !.window[x] = "dead", !.dirty = @ \cup {x}, !.full = @ \ {x}, !.floating = @ \ {x},
                        !.content[x] = Zero, !.floatSize[x] = Zero,
                        !.lost = @ \/ x \in s.configuring, !.configuring = @ \ {x}]
           f == IF s.active = x THEN [gone EXCEPT !.active = next] ELSE gone
           left == XCommitFocus(f)
           t == [left EXCEPT !.shown = @ \ {x}]
<1>1. Failed(UnmapView(s, x, next)) \/ UnmapView(s, x, next) = t
  <2>1. UnmapView(s, x, next) = XFail("surface") \/ UnmapView(s, x, next) = t
    BY DEF UnmapView
  <2> QED
    BY <2>1, FailIsFailed
<1>2. SUFFICES /\ Inner(t) /\ Besides(s, t, x)
               /\ x \notin t.shown /\ ~IsLive(t, x) /\ t.object[x] = "view"
               /\ t.listening = s.listening /\ t.stale = s.stale
  BY <1>1
<1>3. XType(s) /\ DOMAIN s = Fields /\ x # None
  BY NameAssumption DEF Inner, XType
<1>4. /\ DOMAIN gone = Fields
      /\ gone.object = s.object /\ gone.associated = s.associated /\ gone.mapped = s.mapped
      /\ gone.listening = s.listening /\ gone.stale = s.stale /\ gone.switched = s.switched
      /\ gone.shown = s.shown /\ gone.window = [s.window EXCEPT ![x] = "dead"]
      /\ gone.failed = s.failed
      /\ gone.geometry = s.geometry /\ gone.content = [s.content EXCEPT ![x] = Zero]
      /\ gone.own = s.own /\ gone.configured = s.configured /\ gone.configuring = s.configuring \ {x}
      /\ gone.active = s.active /\ gone.unmanaged = s.unmanaged /\ gone.surface = s.surface
      /\ gone.told = s.told /\ gone.minimized = s.minimized
  BY <1>3 DEF Fields
<1> HIDE DEF gone
<1>5. /\ DOMAIN f = Fields
      /\ f.object = s.object /\ f.associated = s.associated /\ f.mapped = s.mapped
      /\ f.listening = s.listening /\ f.stale = s.stale /\ f.switched = s.switched
      /\ f.shown = s.shown /\ f.window = [s.window EXCEPT ![x] = "dead"]
      /\ f.failed = s.failed
      /\ f.geometry = s.geometry /\ f.content = [s.content EXCEPT ![x] = Zero]
      /\ f.own = s.own /\ f.configured = s.configured /\ f.configuring = s.configuring \ {x}
      /\ f.active = (IF s.active = x THEN next ELSE s.active)
      /\ f.unmanaged = s.unmanaged /\ f.surface = s.surface
      /\ f.told = s.told /\ f.minimized = s.minimized
  <2>1. CASE s.active = x
    BY <1>4, <2>1 DEF Fields
  <2>2. CASE s.active # x
    BY <1>4, <2>2
  <2> QED
    BY <2>1, <2>2
<1> HIDE DEF f
<1>6. XType(f)
  BY <1>3, <1>5 DEF XType
<1>7. ~IsLive(f, x) /\ \A y \in XSurface \ {x} : f.window[y] = s.window[y] /\ (IsLive(f, y) <=> IsLive(s, y))
  BY <1>3, <1>5 DEF XType, IsLive
<1>8. WaitInv(f)
  BY <1>3, <1>5, <1>7 DEF Inner, WaitInv, XType
<1>9. f.active # None => f.active \in XSurface /\ IsLive(f, f.active)
  BY <1>3, <1>5, <1>7 DEF Inner, LiveInv
<1>10. ASSUME NEW y \in f.told \ f.switched
       PROVE  /\ y \in f.shown /\ y \notin f.minimized
              /\ f.surface = FocusOf(f) => y = WindowOf(f) /\ IsLive(f, y)
  <2>1. /\ y \in XSurface /\ y # None /\ y = s.active /\ s.unmanaged = None /\ y = s.surface
        /\ IsLive(s, y) /\ y \in s.shown /\ y \notin s.minimized
    BY <1>5, ToldWindow
  <2>2. f.surface = FocusOf(f) => y = f.active
    BY <1>5, <2>1 DEF FocusOf
  <2> QED
    BY <1>5, <1>9, <2>1, <2>2 DEF WindowOf
<1>11. XType(left) /\ FocInv(left) /\ WaitInv(left) /\ Base(left) = Base(f) /\ left.active = f.active
  <2>1. f.failed = "no"
    BY <1>5 DEF Inner
  <2> QED
    BY <1>6, <1>8, <1>9, <1>10, <2>1, FocusKept
<1> HIDE DEF left
<1>12. /\ left.object = f.object /\ left.window = f.window /\ left.shown = f.shown /\ left.failed = f.failed
       /\ left.listening = f.listening /\ left.stale = f.stale
       /\ left.associated = f.associated /\ left.mapped = f.mapped /\ left.switched = f.switched
  BY <1>11 DEF Base
<1>13. /\ DOMAIN t = Fields
       /\ t.object = f.object /\ t.window = f.window /\ t.shown = s.shown \ {x} /\ t.failed = f.failed
       /\ t.listening = f.listening /\ t.stale = f.stale
       /\ t.associated = f.associated /\ t.mapped = f.mapped /\ t.switched = f.switched
       /\ Size(t) = Size(left) /\ t.configuring = left.configuring
       /\ Foc(t) = Foc(left)
  <2>1. DOMAIN left = Fields
    BY <1>11 DEF XType
  <2> QED
    BY <1>5, <1>12, <2>1 DEF Fields, Size, Foc
<1> HIDE DEF t
<1>14. t.geometry = left.geometry /\ t.content = left.content /\ t.own = left.own /\ t.configured = left.configured
  BY <1>13 DEF Size
<1>15. /\ t.active = left.active /\ t.unmanaged = left.unmanaged /\ t.surface = left.surface
       /\ t.focused = left.focused /\ t.told = left.told /\ t.minimized = left.minimized
  BY <1>13 DEF Foc
<1>16. XType(t)
  BY <1>6, <1>5, <1>11, <1>12, <1>13, <1>14, <1>15 DEF XType
<1>17. LiveInv(t)
  BY <1>5, <1>7, <1>9, <1>11, <1>12, <1>13, <1>15 DEF Inner, LiveInv, IsLive
<1>18. FocInv(t)
  BY <1>11, <1>12, <1>13, <1>15 DEF FocInv, FocusOf, WindowOf, IsLive
<1>19. WaitInv(t)
  BY <1>11, <1>12, <1>13, <1>14 DEF WaitInv, IsLive
<1>20. Inner(t)
  BY <1>5, <1>13, <1>16, <1>17, <1>18, <1>19 DEF Inner
<1>21. Besides(s, t, x)
  BY <1>5, <1>7, <1>13 DEF Besides
<1> QED
  BY <1>5, <1>7, <1>13, <1>20, <1>21 DEF IsLive

\* A surface that is no view was not told of the focus, nor is it active.
LEMMA NoView ==
  ASSUME NEW s, Inner(s), NEW x \in XSurface, s.object[x] # "view"
  PROVE  ~IsLive(s, x) /\ x # s.active /\ x \notin s.configuring /\ \A y \in s.told \ s.switched : y # x
<1>1. ~IsLive(s, x) /\ x # None
  BY NameAssumption DEF Inner, LiveInv
<1>2. x # s.active /\ x \notin s.configuring
  BY <1>1 DEF Inner, LiveInv, WaitInv
<1>3. \A y \in s.told \ s.switched : y # x
  BY <1>1, ToldWindow
<1> QED
  BY <1>1, <1>2, <1>3

\* A surface that is no view is shown or hidden.
LEMMA ShowUnmanaged ==
  ASSUME NEW s, Inner(s), NEW x \in XSurface, s.object[x] # "view", NEW shown,
         shown = s.shown \cup {x} \/ shown = s.shown \ {x}
  PROVE  LET t == [s EXCEPT !.shown = shown]
         IN  /\ Inner(t) /\ Besides(s, t, x) /\ t.shown = shown /\ t.object = s.object /\ t.window = s.window
             /\ t.listening = s.listening /\ t.stale = s.stale /\ t.told = s.told /\ t.switched = s.switched
             /\ t.associated = s.associated /\ t.parent = s.parent
<1> DEFINE t == [s EXCEPT !.shown = shown]
<1>1. DOMAIN s = Fields /\ XType(s)
  BY DEF Inner, XType
<1>2. /\ DOMAIN t = Fields /\ t.object = s.object /\ t.associated = s.associated /\ t.mapped = s.mapped
      /\ t.listening = s.listening /\ t.stale = s.stale /\ t.switched = s.switched
      /\ t.shown = shown /\ t.window = s.window /\ t.failed = s.failed /\ t.parent = s.parent
      /\ t.active = s.active /\ t.unmanaged = s.unmanaged /\ t.surface = s.surface
      /\ t.focused = s.focused /\ t.told = s.told /\ t.minimized = s.minimized
      /\ t.geometry = s.geometry /\ t.content = s.content /\ t.own = s.own /\ t.configured = s.configured
      /\ t.configuring = s.configuring
  BY <1>1 DEF Fields
<1> HIDE DEF t
<1>3. XType(t)
  BY <1>1, <1>2 DEF XType
<1>4. LiveInv(t)
  BY <1>2, NoView DEF Inner, LiveInv, IsLive
<1>5. FocInv(t)
  BY <1>2 DEF Inner, FocInv, FocusOf, WindowOf, IsLive
<1>6. WaitInv(t)
  BY <1>2 DEF Inner, WaitInv, IsLive
<1>7. Besides(s, t, x)
  BY <1>2 DEF Besides
<1>8. Inner(t)
  BY <1>2, <1>3, <1>4, <1>5, <1>6 DEF Inner
<1> QED
  BY <1>2, <1>7, <1>8 DEF t

\* hwd_xwayland_unmanaged_handle_xsurface_map
LEMMA MapUnmanagedKeeps ==
  ASSUME NEW s, Inner(s), NEW x \in XSurface, s.object[x] # "view", NEW focuses \in BOOLEAN
  PROVE  LET t == MapUnmanaged(s, x, focuses)
         IN  /\ Inner(t) /\ Besides(s, t, x) /\ x \in t.shown /\ t.object = s.object /\ t.window = s.window
             /\ t.listening = s.listening /\ t.stale = s.stale
<1> DEFINE shown == [s EXCEPT !.shown = @ \cup {x}]
           t == MapUnmanaged(s, x, focuses)
<1>1. /\ Inner(shown) /\ Besides(s, shown, x) /\ shown.shown = s.shown \cup {x}
      /\ shown.object = s.object /\ shown.window = s.window
      /\ shown.listening = s.listening /\ shown.stale = s.stale
  BY ShowUnmanaged
<1>2. t = XCommitFocus(IF focuses THEN FocusUnmanaged(shown, x) ELSE shown)
  BY DEF MapUnmanaged
<1> HIDE DEF shown
<1>3. Inner(t) /\ Base(t) = Base(shown)
  <2>1. CASE focuses
    <3>1. x # None /\ \A y \in shown.told \ shown.switched : y # x
      BY <1>1, NoView, NameAssumption
    <3> QED
      BY <1>1, <1>2, <2>1, <3>1, FocusUnmanagedKeeps
  <2>2. CASE ~focuses
    BY <1>1, <1>2, <2>2, CommitAgain
  <2> QED
    BY <2>1, <2>2
<1> HIDE DEF t
<1>4. Besides(s, t, x)
  BY <1>1, <1>3 DEF Besides, Base
<1> QED
  BY <1>1, <1>3, <1>4 DEF Base, t

\* hwd_xwayland_unmanaged_handle_xsurface_unmap
LEMMA UnmapUnmanagedKeeps ==
  ASSUME NEW s, Inner(s), NEW x \in XSurface, s.object[x] # "view", NEW parentFocuses \in BOOLEAN
  PROVE  LET t == UnmapUnmanaged(s, x, parentFocuses)
         IN  /\ Inner(t) /\ Besides(s, t, x) /\ x \notin t.shown /\ t.object = s.object /\ t.window = s.window
             /\ t.listening = s.listening /\ t.stale = s.stale
<1> DEFINE gone == [s EXCEPT !.shown = @ \ {x}]
           p == s.parent[x]
           returns == s.surface = x /\ p # None /\ p \in s.associated /\ parentFocuses
           t == UnmapUnmanaged(s, x, parentFocuses)
<1>1. /\ Inner(gone) /\ Besides(s, gone, x) /\ gone.shown = s.shown \ {x}
      /\ gone.object = s.object /\ gone.window = s.window
      /\ gone.listening = s.listening /\ gone.stale = s.stale
      /\ gone.told = s.told /\ gone.switched = s.switched
  BY ShowUnmanaged
<1>2. t = XCommitFocus(IF returns THEN FocusUnmanaged(gone, p) ELSE gone)
  BY DEF UnmapUnmanaged
<1> HIDE DEF gone
<1>3. Inner(t) /\ Base(t) = Base(gone)
  <2>1. CASE returns
    <3>1. ASSUME NEW y \in gone.told \ gone.switched PROVE FALSE
      <4>1. y \in s.told \ s.switched
        BY <1>1, <3>1
      <4>2. y = s.surface /\ y # x
        BY <4>1, ToldWindow, NoView
      <4> QED
        BY <2>1, <4>2
    <3> QED
      BY <1>1, <1>2, <2>1, <3>1, FocusUnmanagedKeeps
  <2>2. CASE ~returns
    BY <1>1, <1>2, <2>2, CommitAgain
  <2> QED
    BY <2>1, <2>2
<1> HIDE DEF t
<1>4. Besides(s, t, x)
  BY <1>1, <1>3 DEF Besides, Base
<1> QED
  BY <1>1, <1>3, <1>4 DEF Base, t

\* hwd_xwayland_view_handle_destroy and hwd_xwayland_unmanaged_handle_xsurface_destroy, of a
\* surface that is not live: its listeners may stay behind.
LEMMA ObjectGoes ==
  ASSUME NEW s, Inner(s), NEW x \in XSurface, ~IsLive(s, x),
         NEW t, t = DestroyUnmanaged(s, x) \/ (x \notin s.shown /\ t = DestroyView(s, x))
  PROVE  /\ Inner(t) /\ Besides(s, t, x) /\ t.object[x] = "none" /\ ~IsLive(t, x)
         /\ x \in t.shown <=> x \in s.shown
         /\ x \notin t.listening /\ (x \notin s.listening => t.stale = s.stale)
<1> DEFINE stale == IF x \in s.listening THEN s.stale \cup {x} ELSE s.stale
<1>1. DOMAIN s = Fields /\ XType(s)
  BY DEF Inner, XType
<1>2. /\ DOMAIN t = Fields /\ t.object = [s.object EXCEPT ![x] = "none"]
      /\ t.window \in {s.window, [s.window EXCEPT ![x] = "none"]}
      /\ t.stale = stale /\ t.listening = s.listening \ {x}
      /\ t.associated = s.associated /\ t.mapped = s.mapped /\ t.switched = s.switched
      /\ t.shown = s.shown /\ t.failed = s.failed /\ Foc(t) = Foc(s) /\ Size(t) = Size(s)
      /\ t.configuring = s.configuring
  <2>1. CASE t = DestroyUnmanaged(s, x)
    BY <1>1, <2>1 DEF DestroyUnmanaged, Fields, Foc, Size
  <2>2. CASE x \notin s.shown /\ t = DestroyView(s, x)
    BY <1>1, <2>2 DEF DestroyView, Fields, Foc, Size
  <2> QED
    BY <2>1, <2>2
<1>3. /\ t.active = s.active /\ t.unmanaged = s.unmanaged /\ t.surface = s.surface
      /\ t.focused = s.focused /\ t.told = s.told /\ t.minimized = s.minimized
  BY <1>2 DEF Foc
<1>4. t.geometry = s.geometry /\ t.content = s.content /\ t.own = s.own /\ t.configured = s.configured
  BY <1>2 DEF Size
<1>5. /\ ~IsLive(t, x) /\ t.object[x] = "none"
      /\ \A y \in XSurface \ {x} : t.window[y] = s.window[y] /\ t.object[y] = s.object[y] /\ (IsLive(t, y) <=> IsLive(s, y))
  BY <1>1, <1>2 DEF XType, IsLive
<1>6. XType(t)
  BY <1>1, <1>2, <1>3, <1>4 DEF XType
<1>7. LiveInv(t)
  BY <1>2, <1>3, <1>5 DEF Inner, LiveInv
<1>8. FocInv(t)
  <2>1. \A y \in t.told \ t.switched : y \in XSurface /\ y # x
    BY <1>2, <1>3, ToldWindow
  <2> QED
    BY <1>2, <1>3, <1>5, <2>1 DEF Inner, FocInv, FocusOf, WindowOf
<1>9. WaitInv(t)
  BY <1>1, <1>2, <1>4, <1>5 DEF Inner, WaitInv, XType
<1>10. Besides(s, t, x)
  BY <1>2, <1>5 DEF Besides
<1> QED
  BY <1>2, <1>5, <1>6, <1>7, <1>8, <1>9, <1>10 DEF Inner

\* create_xwayland_view and hwd_xwayland_create_unmanaged
LEMMA ObjectComes ==
  ASSUME NEW s, Inner(s), NEW x \in XSurface, s.object[x] = "none",
         NEW t, t = CreateView(s, x) \/ t = CreateUnmanaged(s, x)
  PROVE  /\ Inner(t) /\ Besides(s, t, x) /\ ~IsLive(t, x)
         /\ t.object[x] = IF t = CreateView(s, x) THEN "view" ELSE "unmanaged"
         /\ x \in t.shown <=> x \in s.shown
         /\ x \notin t.listening /\ t.stale = s.stale
<1>1. DOMAIN s = Fields /\ XType(s)
  BY DEF Inner, XType
<1>2. ~IsLive(s, x) /\ x # s.active /\ x \notin s.configuring /\ \A y \in s.told \ s.switched : y # x
  BY NoView
<1>3. /\ DOMAIN t = Fields
      /\ t.object = [s.object EXCEPT ![x] = IF t = CreateView(s, x) THEN "view" ELSE "unmanaged"]
      /\ t.window \in {s.window, [s.window EXCEPT ![x] = "none"]}
      /\ t.stale = s.stale /\ t.listening = s.listening \ {x}
      /\ t.associated = s.associated /\ t.mapped = s.mapped /\ t.switched = s.switched
      /\ t.shown = s.shown /\ t.failed = s.failed
      /\ t.configuring = s.configuring
      /\ t.active = s.active /\ t.unmanaged = s.unmanaged /\ t.surface = s.surface
      /\ t.focused = s.focused /\ t.told \subseteq s.told /\ t.minimized = s.minimized
      /\ t.geometry = s.geometry /\ t.content = s.content /\ t.own = s.own
      /\ t.configured = IF t = CreateView(s, x) THEN [s.configured EXCEPT ![x] = NoConfigure] ELSE s.configured
  <2>1. CASE t = CreateView(s, x)
    BY <1>1, <2>1 DEF CreateView, Fields
  <2>2. CASE t # CreateView(s, x)
    BY <1>1, <2>2 DEF CreateUnmanaged, Fields
  <2> QED
    BY <2>1, <2>2
<1>4. /\ ~IsLive(t, x) /\ t.object[x] = IF t = CreateView(s, x) THEN "view" ELSE "unmanaged"
      /\ \A y \in XSurface \ {x} : t.window[y] = s.window[y] /\ t.object[y] = s.object[y] /\ (IsLive(t, y) <=> IsLive(s, y))
  BY <1>1, <1>2, <1>3 DEF XType, IsLive
<1>5. XType(t)
  BY <1>1, <1>3 DEF XType
<1>6. LiveInv(t)
  BY <1>2, <1>3, <1>4 DEF Inner, LiveInv
<1>7. FocInv(t)
  <2>1. \A y \in t.told \ t.switched : y \in s.told \ s.switched /\ y \in XSurface /\ y # x
    BY <1>2, <1>3, ToldWindow
  <2> QED
    BY <1>3, <1>4, <2>1 DEF Inner, FocInv, FocusOf, WindowOf
<1>8. WaitInv(t)
  <2>1. \A y \in XSurface \ {x} : t.configured[y] = s.configured[y]
    BY <1>1, <1>3 DEF XType
  <2>2. t.object[x] = "view" => t.configured[x] = NoConfigure
    BY <1>1, <1>3, <1>4 DEF XType
  <2>3. ASSUME NEW y \in t.configuring
        PROVE  /\ IsLive(t, y) /\ t.configured[y].geometry = t.content[y]
               /\ t.geometry[y] = t.content[y] \/ y \in t.own
    <3>1. y \in XSurface \ {x} /\ y \in s.configuring
      BY <1>1, <1>2, <1>3, <2>3 DEF XType
    <3> QED
      BY <1>3, <1>4, <2>1, <3>1 DEF Inner, WaitInv
  <2>4. ASSUME NEW y \in XSurface, t.object[y] = "view"
        PROVE  y \in t.own \/ t.configured[y].geometry = t.geometry[y] \/ t.configured[y] = NoConfigure
    <3>1. CASE y = x
      BY <2>2, <2>4, <3>1
    <3>2. CASE y # x
      BY <1>3, <1>4, <2>1, <2>4, <3>2 DEF Inner, WaitInv
    <3> QED
      BY <3>1, <3>2
  <2> QED
    BY <2>3, <2>4 DEF WaitInv
<1>9. Besides(s, t, x)
  BY <1>3, <1>4 DEF Besides
<1> QED
  BY <1>3, <1>4, <1>5, <1>6, <1>7, <1>8, <1>9 DEF Inner

\* A mapped surface is handed to the object that it has, and is shown.
LEMMA HandleMapKeeps ==
  ASSUME NEW s, Inner(s), NEW x \in XSurface, NEW c \in MapChoice
  PROVE  LET t == HandleMap(s, x, c)
         IN  \/ Failed(t)
             \/ /\ Inner(t) /\ Besides(s, t, x)
                /\ x \in t.shown /\ (IsLive(t, x) <=> t.object[x] = "view") /\ t.object[x] = s.object[x]
                /\ t.listening = s.listening /\ t.stale = s.stale
<1>1. c.focuses \in BOOLEAN
  BY DEF MapChoice
<1>2. CASE s.object[x] = "view"
  <2>1. HandleMap(s, x, c) = MapView(s, x, c.floats, c.focuses, c.natural)
    BY <1>2 DEF HandleMap
  <2> QED
    BY <1>1, <1>2, <2>1, MapViewKeeps
<1>3. CASE s.object[x] # "view"
  <2>1. HandleMap(s, x, c) = MapUnmanaged(s, x, c.focuses)
    BY <1>3 DEF HandleMap
  <2> DEFINE t == MapUnmanaged(s, x, c.focuses)
  <2>2. /\ Inner(t) /\ Besides(s, t, x) /\ x \in t.shown /\ t.object = s.object /\ t.window = s.window
        /\ t.listening = s.listening /\ t.stale = s.stale
    BY <1>1, <1>3, MapUnmanagedKeeps
  <2> HIDE DEF t
  <2>3. ~IsLive(t, x)
    BY <1>3, <2>2, NoView DEF IsLive
  <2> QED
    BY <1>3, <2>1, <2>2, <2>3 DEF t
<1> QED
  BY <1>2, <1>3

\* A surface that is unmapped is hidden.
LEMMA HandleUnmapKeeps ==
  ASSUME NEW s, Inner(s), NEW x \in XSurface, NEW c, c.returns \in BOOLEAN,
         c.next = None \/ (c.next \in XSurface \ {x} /\ IsLive(s, c.next))
  PROVE  LET t == HandleUnmap(s, x, c)
         IN  \/ Failed(t)
             \/ /\ Inner(t) /\ Besides(s, t, x)
                /\ x \notin t.shown /\ ~IsLive(t, x) /\ t.object[x] = s.object[x]
                /\ t.listening = s.listening /\ t.stale = s.stale
<1>1. CASE s.object[x] = "view"
  <2>1. HandleUnmap(s, x, c) = UnmapView(s, x, c.next)
    BY <1>1 DEF HandleUnmap
  <2> QED
    BY <1>1, <2>1, UnmapViewKeeps
<1>2. CASE s.object[x] # "view"
  <2>1. HandleUnmap(s, x, c) = UnmapUnmanaged(s, x, c.returns)
    BY <1>2 DEF HandleUnmap
  <2> DEFINE t == UnmapUnmanaged(s, x, c.returns)
  <2>2. /\ Inner(t) /\ Besides(s, t, x) /\ x \notin t.shown /\ t.object = s.object /\ t.window = s.window
        /\ t.listening = s.listening /\ t.stale = s.stale
    BY <1>2, UnmapUnmanagedKeeps
  <2> HIDE DEF t
  <2>3. ~IsLive(t, x)
    BY <1>2, <2>2, NoView DEF IsLive
  <2> QED
    BY <2>1, <2>2, <2>3 DEF t
<1> QED
  BY <1>1, <1>2

-----------------------------------------------------------------------------
(* X11 surfaces: the events of wlroots.                                    *)

\* What happens to one surface leaves the others as they are.
Others(s, t, x) ==
  \A y \in XSurface \ {x} :
    /\ t.object[y] = s.object[y] /\ t.window[y] = s.window[y]
    /\ y \in t.shown <=> y \in s.shown
    /\ y \in t.listening <=> y \in s.listening
    /\ y \in t.stale <=> y \in s.stale
    /\ y \in t.associated <=> y \in s.associated
    /\ y \in t.mapped <=> y \in s.mapped
    /\ y \in t.switched <=> y \in s.switched
LEMMA OthersAtRest ==
  ASSUME NEW s, NEW t, NEW x, SurfInv(s), Others(s, t, x), x \in XSurface => AtRest(t, x)
  PROVE  SurfInv(t)
<1>1. ASSUME NEW y \in XSurface \ {x} PROVE AtRest(t, y)
  <2>1. AtRest(s, y)
    BY DEF SurfInv
  <2>2. IsLive(t, y) <=> IsLive(s, y)
    BY DEF Others, IsLive
  <2> QED
    BY <2>1, <2>2 DEF Others, AtRest
<1> QED
  BY <1>1 DEF SurfInv

\* It does so step by step.
LEMMA OthersChain ==
  ASSUME NEW s, NEW t, NEW u, NEW x, Others(s, t, x), Others(t, u, x) \/ Besides(t, u, x)
  PROVE  Others(s, u, x)
BY DEF Others, Besides

\* The lists that wlroots and the listeners keep change.
LEMMA Relisted ==
  ASSUME NEW s, Inner(s), NEW t, DOMAIN t = Fields, t.object = s.object, t.window = s.window,
         t.shown = s.shown, t.failed = s.failed, Foc(t) = Foc(s), Size(t) = Size(s),
         t.configuring = s.configuring, s.switched \subseteq t.switched, t.switched \subseteq XSurface,
         t.associated \subseteq XSurface, t.listening \subseteq XSurface, t.stale \subseteq XSurface,
         t.mapped \subseteq t.associated
  PROVE  Inner(t)
<1>1. /\ t.active = s.active /\ t.unmanaged = s.unmanaged /\ t.surface = s.surface
      /\ t.focused = s.focused /\ t.told = s.told /\ t.minimized = s.minimized
  BY DEF Foc
<1>2. t.geometry = s.geometry /\ t.content = s.content /\ t.own = s.own /\ t.configured = s.configured
  BY DEF Size
<1>3. XType(t)
  BY <1>1, <1>2 DEF Inner, XType
<1>4. LiveInv(t)
  BY <1>1 DEF Inner, LiveInv, IsLive
<1>5. FocInv(t)
  BY <1>1 DEF Inner, FocInv, FocusOf, WindowOf, IsLive
<1>6. WaitInv(t)
  BY <1>2 DEF Inner, WaitInv, IsLive
<1> QED
  BY <1>3, <1>4, <1>5, <1>6 DEF Inner

\* hwd_xwayland_handle_new_surface
LEMMA NewSurfaceKeeps ==
  ASSUME Inner(xw), SurfInv(xw), NEW x \in XSurface, NewSurface(x)
  PROVE  XwInv(xw')
<1>1. xw.object[x] = "none" /\ (xw' = CreateView(xw, x) \/ xw' = CreateUnmanaged(xw, x))
  BY DEF NewSurface, Listed
<1>2. /\ Inner(xw') /\ Besides(xw, xw', x) /\ ~IsLive(xw', x)
      /\ x \in xw'.shown <=> x \in xw.shown
      /\ x \notin xw'.listening /\ xw'.stale = xw.stale
  BY <1>1, ObjectComes
<1>3. AtRest(xw, x)
  BY DEF SurfInv
<1>4. AtRest(xw', x)
  <2>1. xw.mapped \subseteq xw.associated
    BY DEF Inner, XType
  <2> QED
    BY <1>1, <1>2, <1>3, <2>1 DEF AtRest, Besides
<1>5. Others(xw, xw', x)
  BY <1>2 DEF Others, Besides
<1> QED
  BY <1>2, <1>4, <1>5, OthersAtRest DEF XwInv

\* handle_xsurface_associate and handle_xsurface_dissociate, of both kinds
LEMMA AssociationKeeps ==
  ASSUME Inner(xw), SurfInv(xw), NEW x \in XSurface, Associate(x) \/ Dissociate(x)
  PROVE  XwInv(xw')
<1>1. DOMAIN xw = Fields /\ XType(xw) /\ AtRest(xw, x)
  BY DEF Inner, XType, SurfInv
<1>2. CASE Associate(x)
  <2>1. /\ DOMAIN xw' = Fields /\ xw'.object = xw.object /\ xw'.window = xw.window
        /\ xw'.shown = xw.shown /\ xw'.failed = xw.failed /\ Foc(xw') = Foc(xw) /\ Size(xw') = Size(xw)
        /\ xw'.configuring = xw.configuring /\ xw'.switched = xw.switched
        /\ xw'.associated = xw.associated \cup {x} /\ xw'.listening = xw.listening \cup {x}
        /\ xw'.stale = xw.stale \ {x} /\ xw'.mapped = xw.mapped
    BY <1>1, <1>2 DEF Associate, Fields, Foc, Size
  <2>2. xw.object[x] # "none" /\ x \notin xw.associated
    BY <1>2 DEF Associate, Listed
  <2>3. Inner(xw')
    BY <1>1, <2>1, Relisted DEF XType
  <2>4. AtRest(xw', x)
    BY <1>1, <2>1, <2>2 DEF AtRest, IsLive
  <2>5. Others(xw, xw', x)
    BY <2>1 DEF Others
  <2> QED
    BY <2>3, <2>4, <2>5, OthersAtRest DEF XwInv
<1>3. CASE Dissociate(x)
  <2>1. CASE x \notin xw.listening
    <3>1. xw' = XFail("listener")
      BY <1>3, <2>1 DEF Dissociate, HandleDissociate
    <3> QED
      BY <3>1, FailIsFailed DEF XwInv
  <2>2. CASE x \in xw.listening
    <3>1. x \in xw.associated \ xw.mapped
          /\ xw' = [xw EXCEPT !.associated = @ \ {x}, !.listening = @ \ {x}]
      BY <1>3, <2>2 DEF Dissociate, HandleDissociate
    <3>2. /\ DOMAIN xw' = Fields /\ xw'.object = xw.object /\ xw'.window = xw.window
          /\ xw'.shown = xw.shown /\ xw'.failed = xw.failed /\ Foc(xw') = Foc(xw) /\ Size(xw') = Size(xw)
          /\ xw'.configuring = xw.configuring /\ xw'.switched = xw.switched
          /\ xw'.associated = xw.associated \ {x} /\ xw'.listening = xw.listening \ {x}
          /\ xw'.stale = xw.stale /\ xw'.mapped = xw.mapped
      BY <1>1, <3>1 DEF Fields, Foc, Size
    <3>3. Inner(xw')
      BY <1>1, <3>1, <3>2, Relisted DEF XType
    <3>4. AtRest(xw', x)
      BY <1>1, <2>2, <3>1, <3>2 DEF AtRest, IsLive
    <3>5. Others(xw, xw', x)
      BY <3>2 DEF Others
    <3> QED
      BY <3>3, <3>4, <3>5, OthersAtRest DEF XwInv
  <2> QED
    BY <2>1, <2>2
<1> QED
  BY <1>2, <1>3

\* The wl_surface is mapped, and the surface is shown unless nothing listens.
LEMMA MapKeeps ==
  ASSUME Inner(xw), SurfInv(xw), NEW x \in XSurface, NEW c \in MapChoice, XMap(x, c)
  PROVE  XwInv(xw')
<1> DEFINE mapped == [xw EXCEPT !.mapped = @ \cup {x}]
<1>1. DOMAIN xw = Fields /\ XType(xw) /\ AtRest(xw, x) /\ x \in xw.associated \ xw.mapped
  BY DEF Inner, XType, SurfInv, XMap
<1>2. /\ DOMAIN mapped = Fields /\ mapped.object = xw.object /\ mapped.window = xw.window
      /\ mapped.shown = xw.shown /\ mapped.failed = xw.failed /\ Foc(mapped) = Foc(xw) /\ Size(mapped) = Size(xw)
      /\ mapped.configuring = xw.configuring /\ mapped.switched = xw.switched
      /\ mapped.associated = xw.associated /\ mapped.listening = xw.listening
      /\ mapped.stale = xw.stale /\ mapped.mapped = xw.mapped \cup {x}
  BY <1>1 DEF Fields, Foc, Size
<1>3. xw' = IF x \in xw.stale THEN XFail("listener")
            ELSE IF x \in xw.listening THEN HandleMap(mapped, x, c) ELSE mapped
  BY DEF XMap
<1> HIDE DEF mapped
<1>4. Inner(mapped) /\ Others(xw, mapped, x)
  <2>1. Inner(mapped)
    BY <1>1, <1>2, Relisted DEF XType
  <2> QED
    BY <1>2, <2>1 DEF Others
<1>5. CASE x \in xw.stale
  BY <1>3, <1>5, FailIsFailed DEF XwInv
<1>6. CASE x \notin xw.stale /\ x \in xw.listening
  <2> DEFINE t == HandleMap(mapped, x, c)
  <2>1. xw' = t
    BY <1>3, <1>6
  <2>2. \/ Failed(t)
        \/ /\ Inner(t) /\ Besides(mapped, t, x)
           /\ x \in t.shown /\ (IsLive(t, x) <=> t.object[x] = "view") /\ t.object[x] = mapped.object[x]
           /\ t.listening = mapped.listening /\ t.stale = mapped.stale
    BY <1>4, HandleMapKeeps
  <2> HIDE DEF t
  <2>3. CASE Failed(t)
    BY <2>1, <2>3 DEF XwInv
  <2>4. CASE ~Failed(t)
    <3>1. /\ Inner(t) /\ Besides(mapped, t, x)
          /\ x \in t.shown /\ (IsLive(t, x) <=> t.object[x] = "view") /\ t.object[x] = mapped.object[x]
          /\ t.listening = mapped.listening /\ t.stale = mapped.stale
      BY <2>2, <2>4
    <3>2. AtRest(t, x)
      BY <1>1, <1>2, <1>6, <3>1 DEF AtRest, Besides
    <3>3. Others(xw, t, x)
      BY <1>4, <3>1, OthersChain
    <3> QED
      BY <2>1, <3>1, <3>2, <3>3, OthersAtRest DEF XwInv
  <2> QED
    BY <2>3, <2>4
<1>7. CASE x \notin xw.stale /\ x \notin xw.listening
  <2>1. AtRest(mapped, x)
    BY <1>1, <1>2, <1>7 DEF AtRest
  <2>2. xw' = mapped
    BY <1>3, <1>7
  <2> QED
    BY <1>4, <2>1, <2>2, OthersAtRest DEF XwInv
<1> QED
  BY <1>5, <1>6, <1>7

\* What is found out when a surface is unmapped.
LEMMA ChoiceOfUnmap ==
  ASSUME NEW x \in XSurface, NEW c \in UnmapChoice(x)
  PROVE  c.returns \in BOOLEAN /\ (c.next = None \/ (c.next \in XSurface \ {x} /\ IsLive(xw, c.next)))
BY DEF UnmapChoice

\* The wl_surface is unmapped, and the surface is hidden unless nothing listens.
LEMMA UnmapKeeps ==
  ASSUME Inner(xw), SurfInv(xw), NEW x \in XSurface, NEW c \in UnmapChoice(x), XUnmap(x, c)
  PROVE  XwInv(xw')
<1> DEFINE unmapped == [xw EXCEPT !.mapped = @ \ {x}]
<1>1. DOMAIN xw = Fields /\ XType(xw) /\ AtRest(xw, x) /\ x \in xw.mapped /\ x \in xw.associated
  BY DEF Inner, XType, SurfInv, XUnmap
<1>2. /\ DOMAIN unmapped = Fields /\ unmapped.object = xw.object /\ unmapped.window = xw.window
      /\ unmapped.shown = xw.shown /\ unmapped.failed = xw.failed
      /\ Foc(unmapped) = Foc(xw) /\ Size(unmapped) = Size(xw)
      /\ unmapped.configuring = xw.configuring /\ unmapped.switched = xw.switched
      /\ unmapped.associated = xw.associated /\ unmapped.listening = xw.listening
      /\ unmapped.stale = xw.stale /\ unmapped.mapped = xw.mapped \ {x}
  BY <1>1 DEF Fields, Foc, Size
<1>3. xw' = IF x \in xw.stale THEN XFail("listener")
            ELSE IF x \in xw.listening THEN HandleUnmap(unmapped, x, c) ELSE unmapped
  BY DEF XUnmap
<1> HIDE DEF unmapped
<1>4. Inner(unmapped) /\ Others(xw, unmapped, x)
  <2>1. Inner(unmapped)
    BY <1>1, <1>2, Relisted DEF XType
  <2> QED
    BY <1>2, <2>1 DEF Others
<1>5. CASE x \in xw.stale
  BY <1>3, <1>5, FailIsFailed DEF XwInv
<1>6. CASE x \notin xw.stale /\ x \in xw.listening
  <2> DEFINE t == HandleUnmap(unmapped, x, c)
  <2>1. xw' = t
    BY <1>3, <1>6
  <2>2. \/ Failed(t)
        \/ /\ Inner(t) /\ Besides(unmapped, t, x)
           /\ x \notin t.shown /\ ~IsLive(t, x) /\ t.object[x] = unmapped.object[x]
           /\ t.listening = unmapped.listening /\ t.stale = unmapped.stale
    <3>1. c.returns \in BOOLEAN /\ (c.next = None \/ (c.next \in XSurface \ {x} /\ IsLive(unmapped, c.next)))
      BY <1>2, ChoiceOfUnmap DEF IsLive
    <3> QED
      BY <1>4, <3>1, HandleUnmapKeeps
  <2> HIDE DEF t
  <2>3. CASE Failed(t)
    BY <2>1, <2>3 DEF XwInv
  <2>4. CASE ~Failed(t)
    <3>1. /\ Inner(t) /\ Besides(unmapped, t, x)
          /\ x \notin t.shown /\ ~IsLive(t, x) /\ t.object[x] = unmapped.object[x]
          /\ t.listening = unmapped.listening /\ t.stale = unmapped.stale
      BY <2>2, <2>4
    <3>2. AtRest(t, x)
      BY <1>1, <1>2, <1>6, <3>1 DEF AtRest, Besides
    <3>3. Others(xw, t, x)
      BY <1>4, <3>1, OthersChain
    <3> QED
      BY <2>1, <3>1, <3>2, <3>3, OthersAtRest DEF XwInv
  <2> QED
    BY <2>3, <2>4
<1>7. CASE x \notin xw.stale /\ x \notin xw.listening
  <2>1. AtRest(unmapped, x)
    BY <1>1, <1>2, <1>7 DEF AtRest
  <2>2. xw' = unmapped
    BY <1>3, <1>7
  <2> QED
    BY <1>4, <2>1, <2>2, OthersAtRest DEF XwInv
<1> QED
  BY <1>5, <1>6, <1>7

\* handle_xsurface_override_redirect.  A surface that is associated loses its listeners; one
\* that is not begins anew.
LEMMA OverrideRedirectKeeps ==
  ASSUME Inner(xw), SurfInv(xw), NEW x \in XSurface, NEW c \in UnmapChoice(x),
         NEW d \in IF Mapped(xw, x) THEN MapChoice ELSE {NoChoice}, OverrideRedirect(x, c, d)
  PROVE  XwInv(xw')
<1> DEFINE mapped == Mapped(xw, x)
           s == [xw EXCEPT !.redirect = IF x \in @ THEN @ \ {x} ELSE @ \cup {x},
                           !.switched = IF x \in xw.associated THEN @ \cup {x} ELSE @]
           left == IF mapped THEN HandleUnmap(s, x, c) ELSE s
           destroyed == IF s.object[x] = "view" THEN DestroyView(left, x) ELSE DestroyUnmanaged(left, x)
           new == IF s.object[x] = "view" THEN CreateUnmanaged(destroyed, x) ELSE CreateView(destroyed, x)
<1>1. xw' = IF left.failed # "no" THEN left ELSE IF mapped THEN HandleMap(new, x, d) ELSE new
  BY DEF OverrideRedirect
<1>2. DOMAIN xw = Fields /\ XType(xw) /\ AtRest(xw, x)
  BY DEF Inner, XType, SurfInv
<1>3. /\ DOMAIN s = Fields /\ s.object = xw.object /\ s.window = xw.window
      /\ s.shown = xw.shown /\ s.failed = xw.failed /\ Foc(s) = Foc(xw) /\ Size(s) = Size(xw)
      /\ s.configuring = xw.configuring
      /\ s.switched = (IF x \in xw.associated THEN xw.switched \cup {x} ELSE xw.switched)
      /\ s.associated = xw.associated /\ s.listening = xw.listening
      /\ s.stale = xw.stale /\ s.mapped = xw.mapped
  BY <1>2 DEF Fields, Foc, Size
<1> HIDE DEF s
<1>4. Inner(s) /\ Others(xw, s, x)
  <2>1. Inner(s)
    BY <1>2, <1>3, Relisted DEF XType
  <2> QED
    BY <1>3, <2>1 DEF Others
<1>5. mapped <=> x \in xw.mapped
  BY DEF Mapped
<1>6. \/ Failed(left)
      \/ /\ Inner(left) /\ Others(xw, left, x) /\ left.object[x] = s.object[x]
         /\ left.listening = s.listening /\ left.stale = s.stale
         /\ left.associated = s.associated /\ left.switched = s.switched /\ left.mapped = s.mapped
         /\ IF mapped THEN x \notin left.shown ELSE left = s
  <2>1. CASE mapped
    <3>1. c.returns \in BOOLEAN /\ (c.next = None \/ (c.next \in XSurface \ {x} /\ IsLive(s, c.next)))
      BY <1>3, ChoiceOfUnmap DEF IsLive
    <3> DEFINE t == HandleUnmap(s, x, c)
    <3>2. \/ Failed(t)
          \/ /\ Inner(t) /\ Besides(s, t, x)
             /\ x \notin t.shown /\ ~IsLive(t, x) /\ t.object[x] = s.object[x]
             /\ t.listening = s.listening /\ t.stale = s.stale
      BY <1>4, <3>1, HandleUnmapKeeps
    <3>3. left = t
      BY <2>1
    <3> HIDE DEF t, left
    <3>4. Besides(s, t, x) => Others(xw, t, x) /\ t.associated = s.associated /\ t.switched = s.switched /\ t.mapped = s.mapped
      BY <1>4, OthersChain DEF Besides
    <3> QED
      BY <2>1, <3>2, <3>3, <3>4
  <2>2. CASE ~mapped
    BY <1>4, <2>2
  <2> QED
    BY <2>1, <2>2
<1> HIDE DEF left
<1>7. CASE left.failed # "no"
  <2>1. Failed(left)
    BY <1>6, <1>7 DEF Inner
  <2> QED
    BY <1>1, <1>7, <2>1 DEF XwInv
<1>8. CASE left.failed = "no"
  <2>1. /\ Inner(left) /\ Others(xw, left, x) /\ left.object[x] = s.object[x]
        /\ left.listening = s.listening /\ left.stale = s.stale
        /\ left.associated = s.associated /\ left.switched = s.switched /\ left.mapped = s.mapped
        /\ IF mapped THEN x \notin left.shown ELSE left = s
    BY <1>6, <1>8 DEF Failed
  <2>2. CASE s.object[x] = "view" /\ x \in left.shown
    <3>1. ~mapped /\ destroyed = XFail("surface") /\ new = CreateUnmanaged(XFail("surface"), x)
      BY <2>1, <2>2 DEF DestroyView
    <3>2. Failed(CreateUnmanaged(XFail("surface"), x))
      <4> DEFINE f == XFail("surface")
                 t == [f EXCEPT !.object[x] = "unmanaged", !.listening = @ \ {x}]
      <4>1. Failed(f)
        BY FailIsFailed
      <4> HIDE DEF f
      <4>2. DOMAIN f = Fields
        BY <4>1 DEF Failed, XType
      <4>3. /\ DOMAIN t = Fields /\ t.object = [f.object EXCEPT ![x] = "unmanaged"]
            /\ t.listening = f.listening \ {x} /\ t.window = f.window /\ Size(t) = Size(f)
            /\ t.associated = f.associated /\ t.stale = f.stale /\ t.switched = f.switched
            /\ t.shown = f.shown /\ t.told = f.told /\ t.mapped = f.mapped
            /\ t.configuring = f.configuring /\ t.failed = f.failed
        BY <4>2 DEF Fields, Size
      <4>4. Failed(t)
        <5> HIDE DEF t
        <5>1. t.content = f.content /\ t.geometry = f.geometry /\ t.configured = f.configured
          BY <4>3 DEF Size
        <5> QED
          BY <4>1, <4>3, <5>1 DEF Failed, XType
      <4> QED
        BY <4>4 DEF CreateUnmanaged, f
    <3> QED
      BY <1>1, <1>8, <3>1, <3>2 DEF XwInv
  <2>3. CASE ~(s.object[x] = "view" /\ x \in left.shown)
    <3>1. ~IsLive(left, x)
      BY <2>1, <2>3 DEF Inner, LiveInv
    <3>2. /\ Inner(destroyed) /\ Besides(left, destroyed, x) /\ destroyed.object[x] = "none"
          /\ x \in destroyed.shown <=> x \in left.shown
          /\ x \notin destroyed.listening /\ (x \notin left.listening => destroyed.stale = left.stale)
      BY <2>1, <2>3, <3>1, ObjectGoes
    <3> HIDE DEF destroyed
    <3>3. /\ Inner(new) /\ Besides(destroyed, new, x) /\ ~IsLive(new, x)
          /\ new.object[x] # "none"
          /\ x \in new.shown <=> x \in destroyed.shown
          /\ x \notin new.listening /\ new.stale = destroyed.stale
      BY <3>2, ObjectComes
    <3> HIDE DEF new
    <3>4. Others(xw, new, x)
      BY <2>1, <3>2, <3>3, OthersChain
    <3>5. new.associated = xw.associated /\ new.mapped = xw.mapped /\ new.switched = s.switched
      BY <1>3, <2>1, <3>2, <3>3 DEF Besides
    <3>6. CASE ~mapped
      <4>1. AtRest(new, x)
        BY <1>2, <1>3, <1>5, <2>1, <3>2, <3>3, <3>5, <3>6 DEF AtRest
      <4> QED
        BY <1>1, <1>8, <3>3, <3>4, <3>6, <4>1, OthersAtRest DEF XwInv
    <3>7. CASE mapped
      <4> DEFINE t == HandleMap(new, x, d)
      <4>1. d \in MapChoice
        BY <3>7
      <4>2. \/ Failed(t)
            \/ Inner(t) /\ Besides(new, t, x) /\ t.listening = new.listening
        BY <3>3, <4>1, HandleMapKeeps
      <4>3. xw' = t
        BY <1>1, <1>8, <3>7
      <4> HIDE DEF t
      <4>4. x \in xw.associated
        BY <1>2, <1>5, <3>7 DEF XType
      <4>5. CASE Inner(t) /\ Besides(new, t, x) /\ t.listening = new.listening
        <5>1. AtRest(t, x)
          BY <1>3, <3>3, <3>5, <4>4, <4>5 DEF AtRest, Besides
        <5>2. Others(xw, t, x)
          BY <3>4, <4>5, OthersChain
        <5> QED
          BY <4>3, <4>5, <5>1, <5>2, OthersAtRest DEF XwInv
      <4> QED
        BY <4>2, <4>3, <4>5 DEF XwInv
    <3> QED
      BY <3>6, <3>7
  <2> QED
    BY <2>2, <2>3
<1> QED
  BY <1>7, <1>8

\* A surface that is destroyed has been dissociated before.
LEMMA DestroyKeeps ==
  ASSUME Inner(xw), SurfInv(xw), NEW x \in XSurface, XDestroy(x)
  PROVE  XwInv(xw')
<1> DEFINE s == IF xw.object[x] = "view" THEN DestroyView(xw, x) ELSE DestroyUnmanaged(xw, x)
<1>1. x \notin xw.associated
  BY DEF XDestroy
<1>2. /\ x \notin xw.switched /\ x \notin xw.mapped /\ x \notin xw.shown /\ ~IsLive(xw, x)
      /\ x \notin xw.listening /\ x \notin xw.stale
  <2>1. AtRest(xw, x) /\ xw.mapped \subseteq xw.associated
    BY DEF SurfInv, Inner, XType
  <2> QED
    BY <1>1, <2>1 DEF AtRest
<1>3. /\ Inner(s) /\ Besides(xw, s, x) /\ s.object[x] = "none" /\ ~IsLive(s, x)
      /\ x \in s.shown <=> x \in xw.shown
      /\ x \notin s.listening /\ s.stale = xw.stale
  BY <1>2, ObjectGoes
<1>4. /\ DOMAIN xw' = DOMAIN s /\ (DOMAIN s = Fields =>
          /\ xw'.object = s.object /\ xw'.window = s.window
          /\ xw'.shown = s.shown /\ xw'.failed = s.failed
          /\ xw'.active = s.active /\ xw'.unmanaged = s.unmanaged /\ xw'.surface = s.surface
          /\ xw'.focused = s.focused /\ xw'.told = s.told /\ xw'.minimized = s.minimized \ {x}
          /\ xw'.geometry = [s.geometry EXCEPT ![x] = Zero] /\ xw'.content = s.content
          /\ xw'.own = s.own \ {x} /\ xw'.configured = s.configured
          /\ xw'.configuring = s.configuring /\ xw'.switched = s.switched \ {x}
          /\ xw'.associated = s.associated /\ xw'.listening = s.listening
          /\ xw'.stale = s.stale /\ xw'.mapped = s.mapped)
  <2> HIDE DEF s
  <2>1. xw' = [s EXCEPT !.switched = @ \ {x}, !.own = @ \ {x}, !.wantsFull = @ \ {x},
                        !.redirect = IF x \in Menus THEN @ \cup {x} ELSE @ \ {x},
                        !.minimized = @ \ {x}, !.geometry[x] = Zero,
                        !.parent = [y \in XSurface |-> IF s.parent[y] = x \/ y = x THEN None ELSE s.parent[y]]]
    BY DEF XDestroy, s
  <2> QED
    BY <2>1 DEF Fields
<1> HIDE DEF s
<1>5. DOMAIN s = Fields /\ XType(s)
  BY <1>3 DEF Inner, XType
<1>6. s.switched = xw.switched
  BY <1>3 DEF Besides
<1>7. x \notin s.configuring /\ x \notin s.told
  <2>1. \A y \in s.told \ s.switched : y # x
    BY <1>3, NoView
  <2> QED
    BY <1>2, <1>3, <1>6, <2>1, NoView
<1>8. XType(xw')
  BY <1>4, <1>5 DEF XType
<1>9. LiveInv(xw')
  BY <1>3, <1>4, <1>5 DEF Inner, LiveInv, IsLive
<1>10. FocInv(xw')
  BY <1>3, <1>4, <1>5, <1>7 DEF Inner, FocInv, FocusOf, WindowOf, IsLive
<1>11. WaitInv(xw')
  BY <1>3, <1>4, <1>5, <1>7 DEF Inner, WaitInv, IsLive, XType
<1>12. Inner(xw')
  BY <1>3, <1>4, <1>5, <1>8, <1>9, <1>10, <1>11 DEF Inner
<1>13. AtRest(xw', x)
  BY <1>1, <1>2, <1>3, <1>4, <1>5, <1>6 DEF AtRest, IsLive, Besides
<1>14. Others(xw, xw', x)
  BY <1>3, <1>4, <1>5 DEF Others, Besides
<1> QED
  BY <1>12, <1>13, <1>14, OthersAtRest DEF XwInv

-----------------------------------------------------------------------------
(* X11 surfaces: requests, the user and transactions.                      *)

\* Handlers that change no surface leave the surfaces as they are.
LEMMA SameSurfaces ==
  ASSUME NEW s, NEW t, Base(t) = Base(s), SurfInv(s)
  PROVE  SurfInv(t)
<1>1. /\ t.object = s.object /\ t.associated = s.associated /\ t.mapped = s.mapped
      /\ t.listening = s.listening /\ t.stale = s.stale /\ t.switched = s.switched
      /\ t.shown = s.shown /\ t.window = s.window
  BY DEF Base
<1> QED
  BY <1>1 DEF SurfInv, AtRest, IsLive

\* What is asked of windows may change if it stays true.
LEMMA AskedAgain ==
  ASSUME NEW s, Inner(s), SurfInv(s), NEW t, DOMAIN t = Fields, Base(t) = Base(s), Foc(t) = Foc(s),
         DOMAIN t.content = XSurface, DOMAIN t.geometry = XSurface, DOMAIN t.configured = XSurface,
         t.configuring \subseteq XSurface, WaitInv(t)
  PROVE  XwInv(t)
<1>1. /\ t.object = s.object /\ t.associated = s.associated /\ t.mapped = s.mapped
      /\ t.listening = s.listening /\ t.stale = s.stale /\ t.switched = s.switched
      /\ t.shown = s.shown /\ t.window = s.window /\ t.failed = s.failed
  BY DEF Base
<1>2. /\ t.active = s.active /\ t.unmanaged = s.unmanaged /\ t.surface = s.surface
      /\ t.focused = s.focused /\ t.told = s.told /\ t.minimized = s.minimized
  BY DEF Foc
<1>3. XType(t)
  BY <1>1, <1>2 DEF Inner, XType
<1>4. LiveInv(t)
  BY <1>1, <1>2 DEF Inner, LiveInv, IsLive
<1>5. FocInv(t)
  BY <1>1, <1>2 DEF Inner, FocInv, FocusOf, WindowOf, IsLive
<1>6. SurfInv(t)
  BY SameSurfaces
<1> QED
  BY <1>1, <1>3, <1>4, <1>5, <1>6 DEF Inner, XwInv

\* Hints, titles, parents and the wish to be fullscreen are requests that move nothing.
LEMMA RequestKeeps ==
  ASSUME Inner(xw), SurfInv(xw), NEW x \in XSurface,
         \/ \E p \in XSurface \cup {None} : SetParent(x, p)
         \/ SetHints(x)
         \/ \E wish \in BOOLEAN : XRequestFullscreen(x, wish)
         \/ UserFullscreen(x)
  PROVE  XwInv(xw')
<1>1. DOMAIN xw = Fields
  BY DEF Inner, XType
<1>2. CASE \E p \in XSurface \cup {None} : SetParent(x, p)
  <2>1. PICK p \in XSurface \cup {None} : SetParent(x, p)
    BY <1>2
  <2> DEFINE t == [xw EXCEPT !.parent[x] = p]
  <2>2. xw' = XFail("dead window") \/ xw' = t
    BY <2>1 DEF SetParent
  <2>3. /\ DOMAIN t = Fields /\ Base(t) = Base(xw) /\ Foc(t) = Foc(xw) /\ Size(t) = Size(xw)
        /\ t.configuring = xw.configuring
    BY <1>1 DEF Fields, Base, Foc, Size
  <2> HIDE DEF t
  <2>4. Inner(t) /\ SurfInv(t)
    BY <2>3, Quiet
  <2> QED
    BY <2>2, <2>4, FailIsFailed DEF XwInv
<1>3. CASE SetHints(x)
  <2> DEFINE t == [xw EXCEPT !.dirty = @ \cup {x}]
  <2>2. xw' = XFail("dead window") \/ xw' = t
    BY <1>3 DEF SetHints
  <2>3. /\ DOMAIN t = Fields /\ Base(t) = Base(xw) /\ Foc(t) = Foc(xw) /\ Size(t) = Size(xw)
        /\ t.configuring = xw.configuring
    BY <1>1 DEF Fields, Base, Foc, Size
  <2> HIDE DEF t
  <2>4. Inner(t) /\ SurfInv(t)
    BY <2>3, Quiet
  <2> QED
    BY <2>2, <2>4, FailIsFailed DEF XwInv
<1>4. CASE \E wish \in BOOLEAN : XRequestFullscreen(x, wish)
  <2>1. PICK wish \in BOOLEAN : XRequestFullscreen(x, wish)
    BY <1>4
  <2> DEFINE s == [xw EXCEPT !.wantsFull = IF wish THEN @ \cup {x} ELSE @ \ {x}]
             t == [s EXCEPT !.full = @ \cup {x}, !.dirty = @ \cup {x}]
  <2>2. xw' = s \/ xw' = t
    BY <2>1 DEF XRequestFullscreen
  <2>3. /\ DOMAIN s = Fields /\ Base(s) = Base(xw) /\ Foc(s) = Foc(xw) /\ Size(s) = Size(xw)
        /\ s.configuring = xw.configuring
    BY <1>1 DEF Fields, Base, Foc, Size
  <2> HIDE DEF s
  <2>4. /\ DOMAIN t = Fields /\ Base(t) = Base(s) /\ Foc(t) = Foc(s) /\ Size(t) = Size(s)
        /\ t.configuring = s.configuring
    BY <2>3 DEF Fields, Base, Foc, Size
  <2> HIDE DEF t
  <2>5. Inner(s) /\ SurfInv(s) /\ Inner(t) /\ SurfInv(t)
    BY <2>3, <2>4, Quiet
  <2> QED
    BY <2>2, <2>5 DEF XwInv
<1>5. CASE UserFullscreen(x)
  <2>1. /\ DOMAIN xw' = Fields /\ Base(xw') = Base(xw) /\ Foc(xw') = Foc(xw) /\ Size(xw') = Size(xw)
        /\ xw'.configuring = xw.configuring
    BY <1>1, <1>5 DEF UserFullscreen, Fields, Base, Foc, Size
  <2> QED
    BY <2>1, Quiet DEF XwInv
<1> QED
  BY <1>2, <1>3, <1>4, <1>5

\* handle_xsurface_request_configure: only a surface that the layout does not place is moved,
\* and nobody waits for it.
LEMMA RequestConfigureKeeps ==
  ASSUME Inner(xw), SurfInv(xw), NEW x \in XSurface, NEW g \in Geometry, RequestConfigure(x, g)
  PROVE  XwInv(xw')
<1>1. DOMAIN xw = Fields /\ XType(xw) /\ WaitInv(xw)
  BY DEF Inner, XType
<1>2. CASE ~IsView(x)
  <2> DEFINE t == [xw EXCEPT !.geometry[x] = g]
  <2>1. xw' = t
    BY <1>2 DEF RequestConfigure
  <2>2. /\ DOMAIN t = Fields /\ Base(t) = Base(xw) /\ Foc(t) = Foc(xw)
        /\ t.geometry = [xw.geometry EXCEPT ![x] = g] /\ t.content = xw.content /\ t.own = xw.own
        /\ t.configured = xw.configured /\ t.configuring = xw.configuring
    BY <1>1 DEF Fields, Base, Foc
  <2> HIDE DEF t
  <2>3. x \notin xw.configuring /\ xw.object[x] # "view"
    BY <1>2, NoView DEF IsView
  <2>4. t.object = xw.object /\ t.window = xw.window
    BY <2>2 DEF Base
  <2>5. WaitInv(t)
    BY <1>1, <2>2, <2>3, <2>4 DEF WaitInv, IsLive, XType
  <2> QED
    BY <1>1, <2>1, <2>2, <2>5, AskedAgain DEF XType
<1>3. CASE IsView(x) /\ ~Mapped(xw, x)
  <2> DEFINE t == [xw EXCEPT !.geometry[x] = g, !.own = @ \cup {x}]
  <2>1. xw' = t
    BY <1>3 DEF RequestConfigure
  <2>2. /\ DOMAIN t = Fields /\ Base(t) = Base(xw) /\ Foc(t) = Foc(xw)
        /\ t.geometry = [xw.geometry EXCEPT ![x] = g] /\ t.content = xw.content /\ t.own = xw.own \cup {x}
        /\ t.configured = xw.configured /\ t.configuring = xw.configuring
    BY <1>1 DEF Fields, Base, Foc
  <2> HIDE DEF t
  <2>4. t.object = xw.object /\ t.window = xw.window
    BY <2>2 DEF Base
  <2>5. WaitInv(t)
    BY <1>1, <2>2, <2>4 DEF WaitInv, IsLive, XType
  <2> QED
    BY <1>1, <2>1, <2>2, <2>5, AskedAgain DEF XType
<1>4. CASE IsView(x) /\ Mapped(xw, x)
  <2> DEFINE t == [xw EXCEPT !.dirty = @ \cup {x}]
  <2>2. xw' = XFail("dead window") \/ xw' = t
    BY <1>4 DEF RequestConfigure
  <2>3. /\ DOMAIN t = Fields /\ Base(t) = Base(xw) /\ Foc(t) = Foc(xw) /\ Size(t) = Size(xw)
        /\ t.configuring = xw.configuring
    BY <1>1 DEF Fields, Base, Foc, Size
  <2> HIDE DEF t
  <2>4. Inner(t) /\ SurfInv(t)
    BY <2>3, Quiet
  <2> QED
    BY <2>2, <2>4, FailIsFailed DEF XwInv
<1> QED
  BY <1>2, <1>3, <1>4

\* handle_xsurface_request_minimize: the window that has the focus is not minimized.
LEMMA RequestMinimizeKeeps ==
  ASSUME Inner(xw), SurfInv(xw), NEW x \in XSurface, NEW wish \in BOOLEAN, RequestMinimize(x, wish)
  PROVE  XwInv(xw')
<1> DEFINE hides == wish /\ ~(xw.unmanaged = None /\ xw.active = x)
           t == [xw EXCEPT !.minimized = IF hides THEN @ \cup {x} ELSE @ \ {x}]
<1>1. DOMAIN xw = Fields /\ XType(xw)
  BY DEF Inner, XType
<1>2. xw' = t
  BY DEF RequestMinimize
<1>3. /\ DOMAIN t = Fields /\ Base(t) = Base(xw) /\ Size(t) = Size(xw) /\ t.configuring = xw.configuring
      /\ t.active = xw.active /\ t.unmanaged = xw.unmanaged /\ t.surface = xw.surface
      /\ t.focused = xw.focused /\ t.told = xw.told
      /\ t.minimized = IF hides THEN xw.minimized \cup {x} ELSE xw.minimized \ {x}
  BY <1>1 DEF Fields, Base, Size
<1> HIDE DEF t
<1>4. /\ t.object = xw.object /\ t.associated = xw.associated /\ t.mapped = xw.mapped
      /\ t.listening = xw.listening /\ t.stale = xw.stale /\ t.switched = xw.switched
      /\ t.shown = xw.shown /\ t.window = xw.window /\ t.failed = xw.failed
  BY <1>3 DEF Base
<1>5. t.geometry = xw.geometry /\ t.content = xw.content /\ t.own = xw.own /\ t.configured = xw.configured
  BY <1>3 DEF Size
<1>6. XType(t)
  BY <1>1, <1>3, <1>4, <1>5 DEF XType
<1>7. LiveInv(t) /\ WaitInv(t)
  BY <1>3, <1>4, <1>5 DEF Inner, LiveInv, WaitInv, IsLive
<1>8. FocInv(t)
  <2>1. ASSUME NEW y \in t.told \ t.switched
        PROVE  y = t.focused /\ IsLive(t, y) /\ y \notin t.minimized
    <3>1. y = xw.active /\ xw.unmanaged = None /\ y \notin xw.minimized
      BY <1>3, <1>4, <2>1, ToldWindow
    <3>2. y \notin t.minimized
      BY <1>3, <3>1
    <3> QED
      BY <1>3, <1>4, <3>2 DEF Inner, FocInv, IsLive
  <2> QED
    BY <1>3, <2>1 DEF Inner, FocInv, FocusOf, WindowOf
<1>9. SurfInv(t)
  BY <1>3, SameSurfaces
<1> QED
  BY <1>2, <1>4, <1>6, <1>7, <1>8, <1>9 DEF Inner, XwInv

\* handle_xsurface_request_activate, and the user's focus.
LEMMA ActivateKeeps ==
  ASSUME Inner(xw), SurfInv(xw),
         \/ \E x \in XSurface : RequestActivate(x)
         \/ \E x \in XSurface \cup {None} : UserFocus(x)
  PROVE  XwInv(xw')
<1>1. CASE \E x \in XSurface : RequestActivate(x)
  <2>1. PICK x \in XSurface : RequestActivate(x)
    BY <1>1
  <2>2. CASE IsView(x) /\ IsLive(xw, x) /\ Mapped(xw, x)
    <3>1. xw' = XCommitFocus(FocusXWindow(xw, x))
      BY <2>1, <2>2 DEF RequestActivate
    <3>2. Inner(xw') /\ Base(xw') = Base(xw)
      BY <2>2, <3>1, FocusWindowKeeps
    <3> QED
      BY <3>2, SameSurfaces DEF XwInv
  <2>3. CASE ~IsView(x) /\ x \in xw.associated /\ Mapped(xw, x)
    <3>1. xw' = XCommitFocus(FocusUnmanaged(xw, x))
      BY <2>1, <2>3 DEF RequestActivate
    <3>2. x # None /\ \A y \in xw.told \ xw.switched : y # x
      BY <2>3, NoView, NameAssumption DEF IsView
    <3>3. Inner(xw') /\ Base(xw') = Base(xw)
      BY <3>1, <3>2, FocusUnmanagedKeeps
    <3> QED
      BY <3>3, SameSurfaces DEF XwInv
  <2>4. xw' = xw \/ xw' = XFail("no surface") \/ (IsView(x) /\ IsLive(xw, x) /\ Mapped(xw, x))
                 \/ (~IsView(x) /\ x \in xw.associated /\ Mapped(xw, x))
    BY <2>1 DEF RequestActivate
  <2>5. CASE xw' = xw
    BY <2>5 DEF XwInv
  <2>6. CASE xw' = XFail("no surface")
    BY <2>6, FailIsFailed DEF XwInv
  <2> QED
    BY <2>2, <2>3, <2>4, <2>5, <2>6
<1>2. CASE \E x \in XSurface \cup {None} : UserFocus(x)
  <2>1. PICK x \in XSurface \cup {None} : UserFocus(x)
    BY <1>2
  <2>2. /\ x = None \/ (x \in XSurface /\ IsLive(xw, x))
        /\ xw' = XCommitFocus(FocusXWindow(xw, x))
    BY <2>1 DEF UserFocus
  <2>3. Inner(xw') /\ Base(xw') = Base(xw)
    BY <2>2, FocusWindowKeeps
  <2> QED
    BY <2>3, SameSurfaces DEF XwInv
<1> QED
  BY <1>1, <1>2

\* handle_xsurface_commit, the timer, and the end of a transaction: fewer are waited for.
LEMMA FewerAreWaitedFor ==
  ASSUME Inner(xw), SurfInv(xw),
         \/ \E x \in XSurface, g \in Geometry : ClientCommit(x, g)
         \/ XTimeout
         \/ ApplyTransaction
  PROVE  XwInv(xw')
<1>1. DOMAIN xw = Fields
  BY DEF Inner, XType
<1>2. CASE \E x \in XSurface, g \in Geometry : ClientCommit(x, g)
  <2>1. PICK x \in XSurface, g \in Geometry : ClientCommit(x, g)
    BY <1>2
  <2> DEFINE sized == [xw EXCEPT !.floatSize[x] = Zero, !.dirty = @ \cup {x}]
             resized == IF x \in xw.floating THEN sized ELSE xw
             answered == [resized EXCEPT !.configuring = @ \ {x}]
             applying == [answered EXCEPT !.phase = "applying"]
  <2>2. xw' = resized \/ xw' = answered \/ xw' = applying
    BY <2>1 DEF ClientCommit
  <2>3. /\ DOMAIN sized = Fields /\ Base(sized) = Base(xw) /\ Foc(sized) = Foc(xw) /\ Size(sized) = Size(xw)
        /\ sized.configuring = xw.configuring
    BY <1>1 DEF Fields, Base, Foc, Size
  <2> HIDE DEF sized
  <2>4. Inner(resized) /\ SurfInv(resized)
    BY <2>3, Quiet
  <2>5. DOMAIN resized = Fields
    BY <1>1, <2>3
  <2> HIDE DEF resized
  <2>6. /\ DOMAIN answered = Fields /\ Base(answered) = Base(resized) /\ Foc(answered) = Foc(resized)
        /\ Size(answered) = Size(resized) /\ answered.configuring \subseteq resized.configuring
    BY <2>5 DEF Fields, Base, Foc, Size
  <2> HIDE DEF answered
  <2>7. Inner(answered) /\ SurfInv(answered)
    BY <2>4, <2>6, Quiet
  <2>8. /\ DOMAIN applying = Fields /\ Base(applying) = Base(answered) /\ Foc(applying) = Foc(answered)
        /\ Size(applying) = Size(answered) /\ applying.configuring \subseteq answered.configuring
    BY <2>6 DEF Fields, Base, Foc, Size
  <2> HIDE DEF applying
  <2>9. Inner(applying) /\ SurfInv(applying)
    BY <2>7, <2>8, Quiet
  <2> QED
    BY <2>2, <2>4, <2>7, <2>9 DEF XwInv
<1>3. CASE XTimeout
  <2>1. /\ DOMAIN xw' = Fields /\ Base(xw') = Base(xw) /\ Foc(xw') = Foc(xw) /\ Size(xw') = Size(xw)
        /\ xw'.configuring = xw.configuring
    BY <1>1, <1>3 DEF XTimeout, Fields, Base, Foc, Size
  <2> QED
    BY <2>1, Quiet DEF XwInv
<1>4. CASE ApplyTransaction
  <2>1. /\ DOMAIN xw' = Fields /\ Base(xw') = Base(xw) /\ Foc(xw') = Foc(xw) /\ Size(xw') = Size(xw)
        /\ xw'.configuring = {}
    BY <1>1, <1>4 DEF ApplyTransaction, Fields, Base, Foc, Size
  <2> QED
    BY <2>1, Quiet DEF XwInv
<1> QED
  BY <1>2, <1>3, <1>4

\* What a transaction asks of the windows it arranges (hwd_xwayland_view_handle_window_commit):
\* where the geometry is not new it is the one that wlroots has, for a window that was never
\* asked for anything has a size of zero only if it floats, and then nothing is new.
LEMMA AskEffect ==
  ASSUME NEW s, DOMAIN s = Fields, NEW asked
  PROVE  LET t == Ask(s, asked)
             resized == {x \in asked : s.configured[x].geometry # s.content[x]}
         IN  /\ DOMAIN t = Fields /\ Base(t) = Base(s) /\ Foc(t) = Foc(s) /\ t.content = s.content
             /\ t.configured = [x \in XSurface |-> IF x \in asked THEN Layout(s, x) ELSE s.configured[x]]
             /\ t.geometry = [x \in XSurface |-> IF x \in resized THEN s.content[x] ELSE s.geometry[x]]
             /\ t.own = s.own \ resized /\ t.configuring = asked
BY DEF Ask, Fields, Base, Foc

LEMMA BeginTransactionKeeps ==
  ASSUME Inner(xw), SurfInv(xw), NEW visible \in SUBSET XSurface, NEW g \in Geometry, BeginTransaction(visible, g)
  PROVE  XwInv(xw')
<1> DEFINE live == {x \in xw.dirty : IsLive(xw, x)}
           content == [x \in XSurface |-> IF x \notin live THEN xw.content[x]
                                          ELSE IF x \in xw.floating \ xw.full THEN xw.floatSize[x] ELSE g]
           arranged == [xw EXCEPT !.content = content]
           asked == {x \in visible : xw.configured[x] # Layout(arranged, x)}
           resized == {x \in asked : xw.configured[x].geometry # content[x]}
           t == Ask(arranged, asked)
<1>1. DOMAIN xw = Fields /\ XType(xw) /\ WaitInv(xw)
  BY DEF Inner, XType
<1>2. /\ DOMAIN arranged = Fields /\ arranged.configured = xw.configured /\ arranged.content = content
      /\ arranged.own = xw.own /\ arranged.geometry = xw.geometry
      /\ arranged.floating = xw.floating /\ arranged.full = xw.full
      /\ Base(arranged) = Base(xw) /\ Foc(arranged) = Foc(xw)
  BY <1>1 DEF Fields, Base, Foc
<1>3. /\ visible \subseteq live
      /\ xw' = [Configure(arranged, visible) EXCEPT !.dirty = {},
                  !.phase = IF Configure(arranged, visible).configuring = {} THEN "applying" ELSE "waiting"]
  BY DEF BeginTransaction
<1>4. Configure(arranged, visible) = t
  BY <1>2 DEF Configure
<1>5. \A x \in XSurface : Layout(arranged, x) = [tiled |-> x \notin xw.floating, full |-> x \in xw.full, geometry |-> content[x]]
  BY <1>2 DEF Layout
<1> HIDE DEF arranged
<1>6. /\ DOMAIN t = Fields /\ Base(t) = Base(xw) /\ Foc(t) = Foc(xw) /\ t.content = content
      /\ t.configured = [x \in XSurface |-> IF x \in asked THEN Layout(arranged, x) ELSE xw.configured[x]]
      /\ t.geometry = [x \in XSurface |-> IF x \in resized THEN content[x] ELSE xw.geometry[x]]
      /\ t.own = xw.own \ resized /\ t.configuring = asked
  BY <1>2, AskEffect
<1> HIDE DEF t
<1>7. /\ DOMAIN xw' = Fields /\ Base(xw') = Base(t) /\ Foc(xw') = Foc(t)
      /\ xw'.content = t.content /\ xw'.configured = t.configured /\ xw'.geometry = t.geometry
      /\ xw'.own = t.own /\ xw'.configuring = t.configuring
  BY <1>3, <1>4, <1>6 DEF Fields, Base, Foc
<1>8. xw'.object = xw.object /\ xw'.window = xw.window
  BY <1>6, <1>7 DEF Base
<1>9. ASSUME NEW x \in asked
      PROVE  /\ x \in XSurface /\ IsLive(xw, x) /\ xw.object[x] = "view"
             /\ x \in resized \/ x \in xw.own \/ xw.geometry[x] = content[x]
  <2>1. x \in XSurface /\ x \in live /\ xw.configured[x] # Layout(arranged, x)
    BY <1>3
  <2>2. IsLive(xw, x) /\ xw.object[x] = "view"
    BY <2>1 DEF Inner, LiveInv
  <2>3. x \in resized \/ xw.configured[x].geometry = content[x]
    OBVIOUS
  <2>4. x \in xw.own \/ xw.configured[x].geometry = xw.geometry[x] \/ xw.configured[x] = NoConfigure
    BY <1>1, <2>1, <2>2 DEF WaitInv
  <2>5. ASSUME xw.configured[x] = NoConfigure, content[x] = Zero
        PROVE  FALSE
    <3>1. x \in xw.floating \ xw.full
      BY <2>1, <2>5, NameAssumption
    <3>2. Layout(arranged, x) = NoConfigure
      <4>1. (x \notin xw.floating) = FALSE /\ (x \in xw.full) = FALSE
        BY <3>1
      <4>2. Layout(arranged, x) = [tiled |-> x \notin xw.floating, full |-> x \in xw.full, geometry |-> content[x]]
        BY <1>5, <2>1
      <4> HIDE DEF content
      <4> QED
        BY Zenon, <2>5, <4>1, <4>2 DEF NoConfigure
    <3> QED
      BY <2>1, <2>5, <3>2
  <2>6. NoConfigure.geometry = Zero
    BY DEF NoConfigure
  <2> HIDE DEF content, resized
  <2> QED
    BY <2>1, <2>2, <2>3, <2>4, <2>5, <2>6
<1>10. asked \subseteq XSurface /\ resized \subseteq asked
  OBVIOUS
<1>11. \A x \in asked : xw'.configured[x].geometry = content[x]
  BY <1>5, <1>6, <1>7, <1>10
<1>12. \A x \in resized : xw'.geometry[x] = content[x]
  BY <1>6, <1>7, <1>10
<1>13. \A x \in XSurface \ resized : xw'.geometry[x] = xw.geometry[x] /\ (x \in xw.own => x \in xw'.own)
  BY <1>6, <1>7
<1>14. \A x \in XSurface \ asked : xw'.configured[x] = xw.configured[x]
  BY <1>6, <1>7
<1> HIDE DEF content, asked, resized
<1>15. WaitInv(xw')
  <2>1. ASSUME NEW x \in xw'.configuring
        PROVE  /\ IsLive(xw', x) /\ xw'.configured[x].geometry = xw'.content[x]
               /\ xw'.geometry[x] = xw'.content[x] \/ x \in xw'.own
    BY <1>6, <1>7, <1>8, <1>9, <1>10, <1>11, <1>12, <1>13 DEF IsLive
  <2>2. ASSUME NEW x \in XSurface, xw'.object[x] = "view"
        PROVE  x \in xw'.own \/ xw'.configured[x].geometry = xw'.geometry[x] \/ xw'.configured[x] = NoConfigure
    <3>1. CASE x \in asked
      BY <1>9, <1>11, <1>12, <1>13, <3>1
    <3>2. CASE x \notin asked
      BY <1>1, <1>8, <1>10, <1>13, <1>14, <2>2, <3>2 DEF WaitInv
    <3> QED
      BY <3>1, <3>2
  <2> QED
    BY <2>1, <2>2 DEF WaitInv
<1>16. DOMAIN xw'.content = XSurface /\ DOMAIN xw'.geometry = XSurface /\ DOMAIN xw'.configured = XSurface
  BY <1>6, <1>7 DEF content
<1> QED
  BY <1>6, <1>7, <1>10, <1>15, <1>16, AskedAgain

-----------------------------------------------------------------------------
(* X11 surfaces: the results.                                              *)

\* The invariant holds at the start.
LEMMA XwInvInit == XwaylandInit => XwInv(xw)
<1> SUFFICES ASSUME XwaylandInit PROVE XwInv(xw)
  OBVIOUS
<1>1. DOMAIN xw = Fields
  BY DEF XwaylandInit, Initially, Fields
<1>2. /\ xw.object = [x \in XSurface |-> "none"] /\ xw.window = [x \in XSurface |-> "none"]
      /\ xw.content = [x \in XSurface |-> Zero] /\ xw.geometry = [x \in XSurface |-> Zero]
      /\ xw.configured = [x \in XSurface |-> NoConfigure]
      /\ xw.associated = {} /\ xw.listening = {} /\ xw.stale = {}
      /\ xw.switched = {} /\ xw.shown = {} /\ xw.told = {} /\ xw.mapped = {} /\ xw.configuring = {}
      /\ xw.active = None /\ xw.unmanaged = None /\ xw.surface = None /\ xw.focused = None
      /\ xw.failed = "no"
  BY DEF XwaylandInit, Initially
<1>3. XType(xw)
  BY <1>1, <1>2 DEF XType
<1>4. LiveInv(xw) /\ FocInv(xw) /\ WaitInv(xw)
  BY <1>2 DEF LiveInv, FocInv, WaitInv, FocusOf, WindowOf, IsLive
<1>5. SurfInv(xw)
  BY <1>2 DEF SurfInv, AtRest, IsLive
<1> QED
  BY <1>2, <1>3, <1>4, <1>5 DEF Inner, XwInv

\* Every event, request, timer and transaction keeps the invariant.
LEMMA XwInvStep == XwInv(xw) /\ [XwaylandNext]_xwVars => XwInv(xw')
<1> SUFFICES ASSUME XwInv(xw), [XwaylandNext]_xwVars PROVE XwInv(xw')
  OBVIOUS
<1>1. CASE UNCHANGED xwVars
  BY <1>1 DEF xwVars
<1>2. CASE XwaylandNext
  <2>1. Inner(xw) /\ SurfInv(xw)
    BY <1>2 DEF XwaylandNext, XwInv, Failed
  <2>2. CASE ApplyTransaction \/ XTimeout
    BY <2>1, <2>2, FewerAreWaitedFor
  <2>3. CASE \E x \in XSurface \cup {None} : UserFocus(x)
    BY <2>1, <2>3, ActivateKeeps
  <2>4. CASE \E visible \in SUBSET XSurface, g \in Geometry : BeginTransaction(visible, g)
    BY <2>1, <2>4, BeginTransactionKeeps
  <2>5. ASSUME NEW x \in XSurface,
               \/ NewSurface(x) \/ Associate(x) \/ Dissociate(x) \/ XDestroy(x)
               \/ SetHints(x) \/ RequestActivate(x) \/ UserFullscreen(x)
               \/ \E d \in MapChoice : XMap(x, d)
               \/ \E c \in UnmapChoice(x) :
                    XUnmap(x, c) \/ \E d \in IF Mapped(xw, x) THEN MapChoice ELSE {NoChoice} : OverrideRedirect(x, c, d)
               \/ \E p \in XSurface \cup {None} : SetParent(x, p)
               \/ \E g \in Geometry : RequestConfigure(x, g) \/ ClientCommit(x, g)
               \/ \E wish \in BOOLEAN : XRequestFullscreen(x, wish) \/ RequestMinimize(x, wish)
        PROVE  XwInv(xw')
    <3>1. CASE NewSurface(x)
      BY <2>1, <3>1, NewSurfaceKeeps
    <3>2. CASE Associate(x) \/ Dissociate(x)
      BY <2>1, <3>2, AssociationKeeps
    <3>3. CASE XDestroy(x)
      BY <2>1, <3>3, DestroyKeeps
    <3>4. CASE \/ SetHints(x) \/ UserFullscreen(x)
               \/ \E p \in XSurface \cup {None} : SetParent(x, p)
               \/ \E wish \in BOOLEAN : XRequestFullscreen(x, wish)
      BY <2>1, <3>4, RequestKeeps
    <3>5. CASE RequestActivate(x)
      BY <2>1, <3>5, ActivateKeeps
    <3>6. CASE \E d \in MapChoice : XMap(x, d)
      BY <2>1, <3>6, MapKeeps
    <3>7. CASE \E c \in UnmapChoice(x) : XUnmap(x, c)
      BY <2>1, <3>7, UnmapKeeps
    <3>8. CASE \E c \in UnmapChoice(x) :
                 \E d \in IF Mapped(xw, x) THEN MapChoice ELSE {NoChoice} : OverrideRedirect(x, c, d)
      BY <2>1, <3>8, OverrideRedirectKeeps
    <3>9. CASE \E g \in Geometry : RequestConfigure(x, g)
      BY <2>1, <3>9, RequestConfigureKeeps
    <3>10. CASE \E g \in Geometry : ClientCommit(x, g)
      BY <2>1, <3>10, FewerAreWaitedFor
    <3>11. CASE \E wish \in BOOLEAN : RequestMinimize(x, wish)
      BY <2>1, <3>11, RequestMinimizeKeeps
    <3> QED
      BY <2>5, <3>1, <3>2, <3>3, <3>4, <3>5, <3>6, <3>7, <3>8, <3>9, <3>10, <3>11
  <2> QED
    BY <1>2, <2>2, <2>3, <2>4, <2>5 DEF XwaylandNext
<1> QED
  BY <1>1, <1>2

\* The invariant holds in every state.
LEMMA XwInvHolds == XwaylandSpec => []XwInv(xw)
<1>1. XwInv(xw) /\ [XwaylandNext]_xwVars => XwInv(xw)'
  BY XwInvStep DEF XwInv, Failed, Inner, SurfInv, XType, LiveInv, FocInv, WaitInv, AtRest, FocusOf, WindowOf, IsLive
<1> QED
  BY XwInvInit, <1>1, PTL DEF XwaylandSpec

\* A surface that did not change its kind while it was associated is shown, has a window and is
\* listened to exactly as long as wlroots has it so (hwd_xwayland_view_handle_xsurface_map and
\* _unmap, the unmanaged ones, and the listeners that association adds and removes).
THEOREM SurfacesShown == XwaylandSpec => []SurfacesAreShown
<1>1. ASSUME XwInv(xw) PROVE SurfacesAreShown
  BY <1>1 DEF XwInv, Failed, SurfInv, AtRest, SurfacesAreShown
<1> QED
  BY <1>1, XwInvHolds, PTL

\* However maps, unmaps, activations and unmanaged surfaces follow each other, a client believes
\* that its window is active only while the root has its focus there, and such a window is not
\* minimized (root_commit_focus, handle_root_focus_changed, handle_xsurface_request_minimize).
THEOREM ActiveHasFocus == XwaylandSpec => []ActiveIsFocused
<1>1. ASSUME XwInv(xw) PROVE ActiveIsFocused
  BY <1>1 DEF XwInv, Failed, Inner, FocInv, ActiveIsFocused
<1> QED
  BY <1>1, XwInvHolds, PTL

\* A window that the transaction waits for is live and has been asked for the geometry whose
\* arrival ends the wait (hwd_xwayland_view_handle_window_commit, handle_xsurface_commit), unless
\* the client placed it while it was unmapped.
THEOREM WaitsCanEnd == XwaylandSpec => []WaitCanEnd
<1>1. ASSUME XwInv(xw) PROVE WaitCanEnd
  BY <1>1 DEF XwInv, Failed, Inner, WaitInv, WaitCanEnd
<1> QED
  BY <1>1, XwInvHolds, PTL
=============================================================================

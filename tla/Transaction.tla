---------------------------- MODULE Transaction -----------------------------
(***************************************************************************)
(* The transaction manager of hayward (src/src/tree/transaction.c) and the *)
(* objects that take part in its transactions: windows, columns,           *)
(* workspaces, outputs and the root.  Every participant keeps its state    *)
(* three times, `pending', `committed' and `current', and registers        *)
(* listeners on the manager's commit, apply and after_apply signals.       *)
(*                                                                         *)
(* The compositor is a single thread around one event loop.  A callback of *)
(* the loop (the idle source, the timer, a client request) runs to its end *)
(* before the next starts: `phase' is IDLE or WAITING_CONFIRM between two  *)
(* callbacks and has another value while the manager is emitting a signal, *)
(* when the only steps are the calls of the listeners and the end of the   *)
(* emission.  `emitting' holds the listeners the emission still has to     *)
(* call: wl_signal_emit_mutable does not call listeners added meanwhile.   *)
(*                                                                         *)
(* When a layout changes, and to what, is decided by the rest of the       *)
(* compositor: here a node may be edited at any time the code can run.     *)
(***************************************************************************)
EXTENDS Integers, FiniteSets

CONSTANTS Node,         \* every object that takes part in transactions
          Window,       \* the windows among them: only they wait for a client
          Layout,       \* the states a live node may be arranged into
          Blank,        \* the zeroed state of a node that was never arranged
          Gone,         \* any state whose `dead' flag is set
          NoAtomic,     \* debug.noatomic
          TxnWait,      \* debug.txn_wait
          TimerMayFail  \* wl_event_loop_add_timer may return NULL

ASSUME WindowAssumption == Window \subseteq Node /\ IsFiniteSet(Window)
ASSUME LookAssumption == Blank \notin Layout /\ Gone \notin Layout /\ Blank # Gone
ASSUME FlagAssumption == /\ NoAtomic \in BOOLEAN
                         /\ TxnWait \in BOOLEAN
                         /\ TimerMayFail \in BOOLEAN

VARIABLES
  phase, queued, idle, timer, numWaiting,   \* struct hwd_transaction_manager
  emitting,      \* listeners still to be called by the emission in progress
  dirty,         \* nodes whose `dirty' flag is set: linked into events.commit
  onApply,       \* nodes linked into events.apply
  onAfterApply,  \* nodes linked into events.after_apply
  pending, committed, current,              \* the three copies of the state
  status,        \* "absent": not allocated; "dead": destruction has begun
  configuring,   \* windows with is_configuring set
  frozen         \* windows with a saved_content_tree

managerVars == <<phase, queued, idle, timer, numWaiting, emitting>>
nodeVars == <<dirty, onApply, onAfterApply, pending, committed, current, status>>
windowVars == <<configuring, frozen>>
vars == <<managerVars, nodeVars, windowVars>>

State == Layout \cup {Blank, Gone}
Phase == {"IDLE", "COMMIT", "WAITING_CONFIRM", "APPLY", "AFTER_APPLY"}

\* debug.txn_wait adds this much to num_waiting, so that no reply ends the wait.
Inflation == 1000000

Live == {n \in Node : status[n] = "live"}

\* The event loop is between two callbacks.
LoopFree == phase \in {"IDLE", "WAITING_CONFIRM"}

TypeOK ==
  /\ phase \in Phase
  /\ queued \in BOOLEAN
  /\ idle \in BOOLEAN
  /\ timer \in {"off", "armed"}
  /\ numWaiting \in Nat
  /\ emitting \subseteq Node
  /\ dirty \subseteq Node
  /\ onApply \subseteq Node
  /\ onAfterApply \subseteq Node
  /\ pending \in [Node -> State]
  /\ committed \in [Node -> State]
  /\ current \in [Node -> State]
  /\ status \in [Node -> {"absent", "live", "dead"}]
  /\ configuring \subseteq Window
  /\ frozen \subseteq Window

Init ==
  /\ phase = "IDLE"
  /\ queued = FALSE
  /\ idle = FALSE
  /\ timer = "off"
  /\ numWaiting = 0
  /\ emitting = {}
  /\ dirty = {}
  /\ onApply = {}
  /\ onAfterApply = {}
  /\ pending = [n \in Node |-> Blank]
  /\ committed = [n \in Node |-> Blank]
  /\ current = [n \in Node |-> Blank]
  /\ status = [n \in Node |-> "absent"]
  /\ configuring = {}
  /\ frozen = {}

-----------------------------------------------------------------------------
(* Marking nodes dirty. *)

\* hwd_transaction_manager_ensure_queued
EnsureQueued ==
  /\ queued' = TRUE
  /\ idle' = (idle \/ phase = "IDLE")

\* window_set_dirty and its four siblings: nothing happens to a dirty node.
SetDirty(n) ==
  /\ dirty' = dirty \cup {n}
  /\ IF n \in dirty THEN UNCHANGED <<queued, idle>> ELSE EnsureQueued

\* Code of the compositor may run: a callback of the loop, or a listener of the
\* root's scene_changed signal, emitted while the manager emits after_apply.
MayEdit == LoopFree \/ phase = "AFTER_APPLY"

\* window_create: the struct is zeroed and marked dirty.
Create(n) ==
  /\ LoopFree
  /\ status[n] = "absent"
  /\ status' = [status EXCEPT ![n] = "live"]
  /\ SetDirty(n)
  /\ UNCHANGED <<phase, timer, numWaiting, emitting, onApply, onAfterApply,
                 pending, committed, current, windowVars>>

\* A layout operation writes the pending state of a live node and marks it
\* dirty; it may also mark it dirty and leave the writing to root_arrange.
Edit(n, v) ==
  /\ MayEdit
  /\ status[n] = "live"
  /\ pending' = [pending EXCEPT ![n] = v]
  /\ SetDirty(n)
  /\ UNCHANGED <<phase, timer, numWaiting, emitting, onApply, onAfterApply,
                 committed, current, status, windowVars>>

\* window_begin_destroy: `dead' is set on the node, not yet on its states.
BeginDestroy(n) ==
  /\ LoopFree
  /\ status[n] = "live"
  /\ status' = [status EXCEPT ![n] = "dead"]
  /\ SetDirty(n)
  /\ UNCHANGED <<phase, timer, numWaiting, emitting, onApply, onAfterApply,
                 pending, committed, current, windowVars>>

-----------------------------------------------------------------------------
(* The commit half of a transaction. *)

\* handle_commit up to the emission of events.commit.  The root's before_commit
\* listener arranges the tree: it marks more live nodes dirty (`marked') and
\* writes the pending state of dirty nodes it reaches; a dead one that it
\* reaches gets its `dead' flag copied.  `queued' is reset only afterwards.
HandleCommit(marked, arrangement) ==
  /\ LoopFree
  /\ idle
  /\ idle' = FALSE
  /\ phase' = "COMMIT"
  /\ queued' = FALSE
  /\ dirty' = dirty \cup marked
  /\ emitting' = dirty'
  /\ pending' = [n \in Node |-> IF n \in DOMAIN arrangement THEN arrangement[n]
                                                            ELSE pending[n]]
  /\ UNCHANGED <<timer, numWaiting, onApply, onAfterApply, committed, current,
                 status, windowVars>>

\* The arrangements root_arrange may make of the nodes `reached'.
Arrangements(reached) ==
  {a \in [reached -> Layout \cup {Gone}] :
     \A n \in reached : a[n] = Gone <=> status[n] = "dead"}

\* window_begin_configure and hwd_transaction_manager_acquire_commit_lock.
BeginConfigure(w) ==
  IF w \in configuring
    THEN UNCHANGED <<configuring, frozen, numWaiting>>
    ELSE /\ configuring' = configuring \cup {w}
         /\ frozen' = frozen \cup {w}
         /\ numWaiting' = numWaiting + 1

\* A node's commit listener.  The view of a live window may ask its client for
\* a new configuration; the view of an unmapped one no longer listens.
CommitNode(n, configure) ==
  /\ phase = "COMMIT"
  /\ n \in emitting
  /\ emitting' = emitting \ {n}
  /\ dirty' = dirty \ {n}
  /\ onApply' = onApply \cup {n}
  /\ configure => n \in Window \cap Live
  /\ IF configure THEN BeginConfigure(n) ELSE UNCHANGED <<windowVars, numWaiting>>
  /\ committed' = [committed EXCEPT ![n] = pending[n]]
  /\ UNCHANGED <<phase, queued, idle, timer, onAfterApply, pending, current, status>>

\* transaction_progress, called with num_waiting set to `waiting'.
Progress(waiting) ==
  /\ numWaiting' = waiting
  /\ IF waiting > 0
       THEN phase' = "WAITING_CONFIRM" /\ UNCHANGED emitting
       ELSE phase' = "APPLY" /\ emitting' = onApply

\* How many answers handle_commit decides to wait for.
ToWaitFor == IF NoAtomic THEN 0
             ELSE IF TxnWait THEN numWaiting + Inflation ELSE numWaiting

\* Mutant: the timer is created but never armed.
FinishCommitUnarmed(gotTimer) ==
  /\ phase = "COMMIT"
  /\ emitting = {}
  /\ gotTimer \/ TimerMayFail
  /\ Progress(ToWaitFor)
  /\ UNCHANGED <<timer, queued, idle, nodeVars, windowVars>>

\* handle_commit after the emission of events.commit.
FinishCommit(gotTimer) ==
  /\ phase = "COMMIT"
  /\ emitting = {}
  /\ gotTimer \/ TimerMayFail
  /\ IF ToWaitFor > 0 /\ gotTimer
       THEN timer' = "armed" /\ Progress(ToWaitFor)
       ELSE UNCHANGED timer /\ Progress(0)
  /\ UNCHANGED <<queued, idle, nodeVars, windowVars>>

-----------------------------------------------------------------------------
(* The end of the wait, and the apply half. *)

\* Mutant: window_end_configure without its early return.
EndConfigureUnchecked(w, resized) ==
  /\ LoopFree
  /\ status[w] = "live"
  /\ IF resized THEN SetDirty(w) ELSE UNCHANGED <<dirty, queued, idle>>
  /\ configuring' = configuring \ {w}
  /\ timer' = IF numWaiting = 1 THEN "off" ELSE timer
  /\ Progress(numWaiting - 1)
  /\ UNCHANGED <<onApply, onAfterApply, pending, committed, current, status, frozen>>

\* Mutant: the last answer leaves the timer running.
EndConfigureStillArmed(w, resized) ==
  /\ LoopFree
  /\ w \in configuring
  /\ status[w] = "live"
  /\ IF resized THEN SetDirty(w) ELSE UNCHANGED <<dirty, queued, idle>>
  /\ configuring' = configuring \ {w}
  /\ Progress(numWaiting - 1)
  /\ UNCHANGED <<timer, onApply, onAfterApply, pending, committed, current, status, frozen>>

\* The surface commit handler of a mapped window whose client did what it was
\* asked for: window_end_configure and hwd_transaction_manager_release_commit_lock.
\* A floating window that changed its size (`resized') is marked dirty first.
EndConfigure(w, resized) ==
  /\ LoopFree
  /\ w \in configuring
  /\ status[w] = "live"
  /\ IF resized THEN SetDirty(w) ELSE UNCHANGED <<dirty, queued, idle>>
  /\ configuring' = configuring \ {w}
  /\ timer' = IF numWaiting = 1 THEN "off" ELSE timer
  /\ Progress(numWaiting - 1)
  /\ UNCHANGED <<onApply, onAfterApply, pending, committed, current, status, frozen>>

\* handle_timeout: locks that were not released are forgotten.
HandleTimeout ==
  /\ LoopFree
  /\ timer = "armed"
  /\ timer' = "off"
  /\ Progress(0)
  /\ UNCHANGED <<queued, idle, nodeVars, windowVars>>

\* Mutant: locks that timed out are not forgotten.
ApplyNodeStillConfiguring(n) ==
  /\ phase = "APPLY"
  /\ n \in emitting
  /\ emitting' = emitting \ {n}
  /\ onApply' = onApply \ {n}
  /\ frozen' = frozen \ {n}
  /\ onAfterApply' = IF committed[n] = Gone THEN onAfterApply \cup {n} ELSE onAfterApply
  /\ current' = [current EXCEPT ![n] = committed[n]]
  /\ UNCHANGED <<phase, queued, idle, timer, numWaiting, dirty, pending, committed, status,
                 configuring>>

\* Mutant: content is only unfrozen if the client did not answer.
ApplyNodeStillFrozen(n) ==
  /\ phase = "APPLY"
  /\ n \in emitting
  /\ emitting' = emitting \ {n}
  /\ onApply' = onApply \ {n}
  /\ configuring' = configuring \ {n}
  /\ frozen' = IF n \in configuring THEN frozen \ {n} ELSE frozen
  /\ onAfterApply' = IF committed[n] = Gone THEN onAfterApply \cup {n} ELSE onAfterApply
  /\ current' = [current EXCEPT ![n] = committed[n]]
  /\ UNCHANGED <<phase, queued, idle, timer, numWaiting, dirty, pending, committed, status>>

\* Mutant: what is shown is what is wanted now, not what was committed.
ApplyNodePending(n) ==
  /\ phase = "APPLY"
  /\ n \in emitting
  /\ emitting' = emitting \ {n}
  /\ onApply' = onApply \ {n}
  /\ configuring' = configuring \ {n}
  /\ frozen' = frozen \ {n}
  /\ onAfterApply' = IF committed[n] = Gone THEN onAfterApply \cup {n} ELSE onAfterApply
  /\ current' = [current EXCEPT ![n] = pending[n]]
  /\ UNCHANGED <<phase, queued, idle, timer, numWaiting, dirty, pending, committed, status>>

\* A node's apply listener.
ApplyNode(n) ==
  /\ phase = "APPLY"
  /\ n \in emitting
  /\ emitting' = emitting \ {n}
  /\ onApply' = onApply \ {n}
  /\ configuring' = configuring \ {n}
  /\ frozen' = frozen \ {n}
  /\ onAfterApply' = IF committed[n] = Gone THEN onAfterApply \cup {n} ELSE onAfterApply
  /\ current' = [current EXCEPT ![n] = committed[n]]
  /\ UNCHANGED <<phase, queued, idle, timer, numWaiting, dirty, pending, committed, status>>

FinishApply ==
  /\ phase = "APPLY"
  /\ emitting = {}
  /\ phase' = "AFTER_APPLY"
  /\ emitting' = onAfterApply
  /\ UNCHANGED <<queued, idle, timer, numWaiting, nodeVars, windowVars>>

\* Mutant: the listener stays linked when the node is freed.
AfterApplyNodeLinked(n) ==
  /\ phase = "AFTER_APPLY"
  /\ n \in emitting
  /\ emitting' = emitting \ {n}
  /\ status' = [status EXCEPT ![n] = "absent"]
  /\ pending' = [pending EXCEPT ![n] = Blank]
  /\ committed' = [committed EXCEPT ![n] = Blank]
  /\ current' = [current EXCEPT ![n] = Blank]
  /\ UNCHANGED <<phase, queued, idle, timer, numWaiting, dirty, onApply, onAfterApply,
                 windowVars>>

\* A node's after_apply listener: the node is freed.
AfterApplyNode(n) ==
  /\ phase = "AFTER_APPLY"
  /\ n \in emitting
  /\ emitting' = emitting \ {n}
  /\ onAfterApply' = onAfterApply \ {n}
  /\ status' = [status EXCEPT ![n] = "absent"]
  /\ pending' = [pending EXCEPT ![n] = Blank]
  /\ committed' = [committed EXCEPT ![n] = Blank]
  /\ current' = [current EXCEPT ![n] = Blank]
  /\ UNCHANGED <<phase, queued, idle, timer, numWaiting, dirty, onApply, windowVars>>

\* Mutant: nobody looks at `queued' when the transaction ends.
FinishAfterApplyForgetful ==
  /\ phase = "AFTER_APPLY"
  /\ emitting = {}
  /\ phase' = "IDLE"
  /\ UNCHANGED <<queued, idle, timer, numWaiting, emitting, nodeVars, windowVars>>

\* The end of transaction_progress: changes made meanwhile get their own turn.
FinishAfterApply ==
  /\ phase = "AFTER_APPLY"
  /\ emitting = {}
  /\ phase' = "IDLE"
  /\ idle' = (idle \/ queued)
  /\ UNCHANGED <<queued, timer, numWaiting, emitting, nodeVars, windowVars>>

-----------------------------------------------------------------------------

\* Steps the manager takes by itself, inside a callback.
Emission ==
  \/ \E n \in Node, configure \in BOOLEAN : CommitNode(n, configure)
  \/ \E gotTimer \in BOOLEAN : FinishCommit(gotTimer)
  \/ \E n \in Node : ApplyNode(n)
  \/ FinishApply
  \/ \E n \in Node : AfterApplyNode(n)
  \/ FinishAfterApply

StartCommit ==
  \E marked \in SUBSET Live :
    \E reached \in SUBSET (dirty \cup marked) :
      \E arrangement \in Arrangements(reached) : HandleCommit(marked, arrangement)

Next ==
  \/ \E n \in Node : Create(n)
  \/ \E n \in Node : \E v \in Layout \cup {pending[n]} : Edit(n, v)
  \/ \E n \in Node : BeginDestroy(n)
  \/ StartCommit
  \/ \E w \in Window, resized \in BOOLEAN : EndConfigure(w, resized)
  \/ HandleTimeout
  \/ Emission

Spec == Init /\ [][Next]_vars

\* The event loop runs its idle sources and expired timers, and a callback that
\* has started goes on; clients and users owe nothing.
Fairness == WF_vars(StartCommit) /\ WF_vars(HandleTimeout) /\ WF_vars(Emission)

FairSpec == Spec /\ Fairness
-----------------------------------------------------------------------------
(* Properties. *)

\* num_waiting is the number of windows whose client still has to answer, with
\* the inflation of debug.txn_wait while waiting, and nobody is waited for
\* outside a transaction: a lock is neither leaked nor released twice.
LocksAreCounted ==
  /\ phase = "COMMIT" => numWaiting = Cardinality(configuring)
  /\ phase = "WAITING_CONFIRM" =>
       numWaiting = Cardinality(configuring) + (IF TxnWait THEN Inflation ELSE 0)
  /\ phase \notin {"COMMIT", "WAITING_CONFIRM"} => numWaiting = 0

\* The assertions of transaction.c hold whatever callback the loop runs next: a
\* lock is only released, and the timer only fires, while a transaction waits
\* (lines 61, 185, 186), and a transaction only starts when none is in progress,
\* which line 104 assumes.
CallbacksAreSafe ==
  LoopFree =>
    /\ configuring # {} => phase = "WAITING_CONFIRM" /\ numWaiting > 0
    /\ timer = "armed" => phase = "WAITING_CONFIRM"
    /\ idle => phase = "IDLE"

\* A transaction that waits always has a timer to end the wait, and a client is
\* only waited for by a window that is part of the transaction.
WaitIsBounded ==
  phase = "WAITING_CONFIRM" => /\ timer = "armed"
                               /\ numWaiting > 0
                               /\ configuring \subseteq onApply

\* No change is lost: a state that differs from the next copy of itself is on
\* the list of the phase that will copy it, and a dirty node always has a
\* transaction coming, also when it was marked during the previous one.
NoLostChange ==
  /\ \A n \in Node : pending[n] # committed[n] => n \in dirty
  /\ \A n \in Node : committed[n] # current[n] => n \in onApply
  /\ dirty # {} => \/ idle
                   \/ phase = "COMMIT" /\ dirty \subseteq emitting
                   \/ phase \notin {"IDLE", "COMMIT"} /\ queued

\* transaction.h lines 20-23: "We then wait for all the views to respond with
\* their new surface sizes.  When all are ready, or when a timeout has passed,
\* we apply the updates".  A transaction should not wait only for windows that
\* are gone: nobody is left to respond for them.  The code does not promise this
\* and no run checks it (README, section 4).
WaitsOnlyForTheLiving ==
  phase = "WAITING_CONFIRM" => \E w \in configuring : status[w] = "live"

\* A window shows its saved buffers only while a transaction is in progress,
\* and window_freeze_content never finds any saved already (window.c line 70).
FrozenOnlyInTransaction ==
  /\ phase \in {"IDLE", "AFTER_APPLY"} => frozen = {}
  /\ phase = "COMMIT" => frozen \cap emitting = {}
  /\ configuring \subseteq frozen

\* A freed node is on no list of the manager, and only nodes whose death is on
\* the screen are freed (the assertion of the after_apply listeners).
NoUseAfterFree ==
  /\ \A n \in dirty \cup onApply \cup onAfterApply \cup configuring :
       status[n] # "absent"
  /\ \A n \in onAfterApply : current[n] = Gone /\ status[n] = "dead"
  /\ phase = "AFTER_APPLY" => onAfterApply \cap dirty = {}

\* The layout on the screen, the layout sent to the clients and the layout being
\* edited are those of AtomicLayout.  Nodes that are not drawn look Blank.
Drawn(s) == IF s = Gone THEN Blank ELSE s

Wanted == [n \in Node |-> Drawn(pending[n])]
Agreed == [n \in Node |-> Drawn(IF phase = "COMMIT" /\ n \in emitting
                                  THEN pending[n] ELSE committed[n])]
Shown == [n \in Node |-> Drawn(IF phase = "APPLY" /\ n \in emitting
                                 THEN committed[n] ELSE current[n])]
Settling == phase \in {"COMMIT", "WAITING_CONFIRM"}

Atomic == INSTANCE AtomicLayout WITH
  Look <- Layout \cup {Blank}, wanted <- Wanted, agreed <- Agreed,
  shown <- Shown, settling <- Settling

\* Whatever is wanted, whoever answers or times out, the screen only ever shows
\* whole snapshots of the layout.
LayoutIsAtomic == Atomic!Spec

\* Every node marked dirty reaches a transaction, and every transaction ends:
\* neither a silent client nor a stream of changes can hold one up for ever.
ChangesAreCommitted == \A n \in Node : n \in dirty ~> n \notin dirty
TransactionsEnd == phase # "IDLE" ~> phase = "IDLE"
=============================================================================

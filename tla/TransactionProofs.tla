------------------------- MODULE TransactionProofs --------------------------
(***************************************************************************)
(* Proofs about Transaction for every set of nodes, windows and layouts.   *)
(* One inductive invariant, IInv, carries all the safety properties.       *)
(* The last part is about XdgShellView, for every set of windows and every *)
(* bound on serials: the views add nothing that the transaction manager    *)
(* could not do by itself, so all that is shown of Spec holds of XSpec,    *)
(* and an answer ends a wait only if it shows what was committed.          *)
(***************************************************************************)
EXTENDS XdgShellView, FiniteSetTheorems, SequenceTheorems, TLAPS

-----------------------------------------------------------------------------
(* The inductive invariant: what the phase says about the manager's lists. *)

\* Between callbacks nothing is being emitted; during an emission, `emitting'
\* is exactly the list of the signal, because nobody joins it meanwhile.
EmissionInv ==
  /\ LoopFree => emitting = {}
  /\ phase = "COMMIT" => emitting = dirty
  /\ phase = "APPLY" => emitting = onApply
  /\ phase = "AFTER_APPLY" => emitting = onAfterApply

\* Which lists are empty in which phase.
PhaseInv ==
  /\ phase \in {"IDLE", "AFTER_APPLY"} => onApply = {}
  /\ phase \in {"IDLE", "COMMIT", "WAITING_CONFIRM"} => onAfterApply = {}
  /\ phase = "COMMIT" => onApply \cap dirty = {}
  /\ configuring \subseteq frozen
  /\ frozen \subseteq onApply

\* When the idle source, the timer and the counter are in use.
ManagerInv ==
  /\ idle => phase = "IDLE"
  /\ timer = "armed" <=> phase = "WAITING_CONFIRM"
  /\ phase = "WAITING_CONFIRM" => numWaiting > 0
  /\ phase # "COMMIT" /\ dirty # {} => queued
  /\ phase = "IDLE" /\ queued => idle

\* The life of a node: death travels through pending, committed and current,
\* and a node whose death was committed is never dirty again.
NodeInv ==
  /\ \A n \in Node : pending[n] = Gone => status[n] = "dead"
  /\ \A n \in Node : committed[n] = Gone =>
                       n \notin dirty /\ pending[n] = Gone
  /\ \A n \in Node : current[n] = Gone <=> n \in onAfterApply
  /\ \A n \in Node : current[n] = Gone => committed[n] = Gone
  /\ \A n \in Node : status[n] = "absent" => n \notin dirty \cup onApply

\* Each copy of a node's state is behind the one before it only while the node
\* is on the list whose emission will copy it.
CopyInv ==
  /\ \A n \in Node : pending[n] # committed[n] => n \in dirty
  /\ \A n \in Node : committed[n] # current[n] => n \in onApply

IInv == /\ TypeOK
        /\ EmissionInv
        /\ PhaseInv
        /\ ManagerInv
        /\ NodeInv
        /\ CopyInv
        /\ LocksAreCounted

-----------------------------------------------------------------------------
(* The number of windows being waited for. *)

\* A set of windows is finite, and has as many members as the counter says.
LEMMA WindowsAreFinite ==
  ASSUME NEW S \in SUBSET Window
  PROVE  IsFiniteSet(S) /\ Cardinality(S) \in Nat
BY WindowAssumption, FS_Subset, FS_CardinalityType

\* Acquiring a lock for a window that has none adds one (acquire_commit_lock).
LEMMA AcquireCounts ==
  ASSUME NEW S \in SUBSET Window, NEW w \in Window, w \notin S
  PROVE  Cardinality(S \cup {w}) = Cardinality(S) + 1
BY WindowsAreFinite, FS_AddElement

\* Releasing the lock of a window that has one takes one away, and there was
\* one to take (release_commit_lock, whose assertion this is).
LEMMA ReleaseCounts ==
  ASSUME NEW S \in SUBSET Window, NEW w \in S
  PROVE  Cardinality(S \ {w}) = Cardinality(S) - 1 /\ Cardinality(S) > 0
<1>1. IsFiniteSet(S) /\ Cardinality(S) \in Nat
  BY WindowsAreFinite
<1>2. Cardinality(S \ {w}) = Cardinality(S) - 1
  BY <1>1, FS_RemoveElement
<1>3. Cardinality(S \ {w}) \in Nat
  BY WindowsAreFinite
<1> QED
  BY <1>1, <1>2, <1>3

\* The inflation of debug.txn_wait makes any count positive.
LEMMA InflationIsPositive == Inflation \in Nat /\ Inflation > 0
BY SMT DEF Inflation

\* An empty set of windows means a zero count.
LEMMA NobodyToWaitFor == Cardinality({}) = 0
BY FS_EmptySet

-----------------------------------------------------------------------------
(* Every step preserves the invariant: one lemma per action. *)

\* A new node is dirty and unknown to every other list.
LEMMA CreateStep ==
  ASSUME IInv, NEW n \in Node, Create(n)
  PROVE  IInv'
<1> USE DEF IInv, TypeOK, EmissionInv, PhaseInv, ManagerInv, NodeInv, CopyInv,
            LoopFree, State, Phase
<1>1. TypeOK'
  BY DEF Create, SetDirty, EnsureQueued, windowVars
<1>2. EmissionInv'
  BY DEF Create, SetDirty, EnsureQueued, windowVars
<1>3. PhaseInv'
  BY DEF Create, SetDirty, EnsureQueued, windowVars
<1>4. ManagerInv'
  BY DEF Create, SetDirty, EnsureQueued, windowVars
<1>5. NodeInv'
  BY DEF Create, SetDirty, EnsureQueued, windowVars
<1>6. CopyInv'
  BY DEF Create, SetDirty, EnsureQueued, windowVars
<1>7. LocksAreCounted'
  BY DEF Create, SetDirty, EnsureQueued, windowVars, LocksAreCounted
<1> QED
  BY <1>1, <1>2, <1>3, <1>4, <1>5, <1>6, <1>7 DEF IInv

\* An edit only reaches the pending state of a live node.
LEMMA EditStep ==
  ASSUME IInv, NEW n \in Node, NEW v \in Layout \cup {pending[n]}, Edit(n, v)
  PROVE  IInv'
<1>0. v \in State
  BY DEF IInv, TypeOK, State
<1>1. TypeOK'
  <2>1. TypeOK
    BY DEF IInv
  <2>2. pending' \in [Node -> State]
    BY <1>0, <2>1 DEF Edit, TypeOK
  <2>3. dirty' \subseteq Node /\ queued' \in BOOLEAN /\ idle' \in BOOLEAN
    BY <2>1 DEF Edit, SetDirty, EnsureQueued, TypeOK
  <2> QED
    BY <2>1, <2>2, <2>3 DEF Edit, windowVars, TypeOK
<1> USE DEF IInv, TypeOK, EmissionInv, PhaseInv, ManagerInv, NodeInv, CopyInv,
            LoopFree, State, Phase
<1>2. EmissionInv'
  BY DEF Edit, MayEdit, SetDirty, EnsureQueued, windowVars
<1>3. PhaseInv'
  BY DEF Edit, MayEdit, SetDirty, EnsureQueued, windowVars
<1>4. ManagerInv'
  BY DEF Edit, MayEdit, SetDirty, EnsureQueued, windowVars
<1>5. NodeInv'
  BY LookAssumption DEF Edit, MayEdit, SetDirty, EnsureQueued, windowVars
<1>6. CopyInv'
  BY DEF Edit, MayEdit, SetDirty, EnsureQueued, windowVars
<1>7. LocksAreCounted'
  BY DEF Edit, MayEdit, SetDirty, EnsureQueued, windowVars, LocksAreCounted
<1> QED
  BY <1>1, <1>2, <1>3, <1>4, <1>5, <1>6, <1>7 DEF IInv

\* Death is marked on the node before any of its states.
LEMMA BeginDestroyStep ==
  ASSUME IInv, NEW n \in Node, BeginDestroy(n)
  PROVE  IInv'
<1> USE DEF IInv, TypeOK, EmissionInv, PhaseInv, ManagerInv, NodeInv, CopyInv,
            LoopFree, State, Phase
<1>1. TypeOK'
  BY DEF BeginDestroy, SetDirty, EnsureQueued, windowVars
<1>2. EmissionInv'
  BY DEF BeginDestroy, SetDirty, EnsureQueued, windowVars
<1>3. PhaseInv'
  BY DEF BeginDestroy, SetDirty, EnsureQueued, windowVars
<1>4. ManagerInv'
  BY DEF BeginDestroy, SetDirty, EnsureQueued, windowVars
<1>5. NodeInv'
  BY DEF BeginDestroy, SetDirty, EnsureQueued, windowVars
<1>6. CopyInv'
  BY DEF BeginDestroy, SetDirty, EnsureQueued, windowVars
<1>7. LocksAreCounted'
  BY DEF BeginDestroy, SetDirty, EnsureQueued, windowVars, LocksAreCounted
<1> QED
  BY <1>1, <1>2, <1>3, <1>4, <1>5, <1>6, <1>7 DEF IInv

\* The root's before_commit listener only rewrites nodes that are on the list.
LEMMA HandleCommitStep ==
  ASSUME IInv, NEW marked \in SUBSET Live, NEW reached \in SUBSET (dirty \cup marked),
         NEW arrangement \in Arrangements(reached), HandleCommit(marked, arrangement)
  PROVE  IInv'
<1> USE DEF IInv, TypeOK, EmissionInv, PhaseInv, ManagerInv, NodeInv, CopyInv,
            LoopFree, State, Phase
<1>1. TypeOK'
  BY DEF HandleCommit, Live, Arrangements, windowVars
<1>2. EmissionInv'
  BY DEF HandleCommit, Live, Arrangements, windowVars
<1>3. PhaseInv'
  BY DEF HandleCommit, Live, Arrangements, windowVars
<1>4. ManagerInv'
  BY DEF HandleCommit, Live, Arrangements, windowVars
<1>5. NodeInv'
  BY DEF HandleCommit, Live, Arrangements, windowVars
<1>6. CopyInv'
  BY DEF HandleCommit, Live, Arrangements, windowVars
<1>7. LocksAreCounted'
  BY LookAssumption, NobodyToWaitFor DEF HandleCommit, Live, Arrangements, windowVars, LocksAreCounted
<1> QED
  BY <1>1, <1>2, <1>3, <1>4, <1>5, <1>6, <1>7 DEF IInv

\* The commit listener moves a node to the apply list, with a lock if it is a
\* window whose client was asked for something.
LEMMA CommitNodeStep ==
  ASSUME IInv, NEW n \in Node, NEW configure \in BOOLEAN, CommitNode(n, configure)
  PROVE  IInv'
<1> USE DEF IInv, TypeOK, EmissionInv, PhaseInv, ManagerInv, NodeInv, CopyInv,
            LoopFree, State, Phase
<1>1. TypeOK'
  BY WindowAssumption DEF CommitNode, BeginConfigure, Live, windowVars
<1>2. EmissionInv'
  BY DEF CommitNode, BeginConfigure, Live, windowVars
<1>3. PhaseInv'
  BY DEF CommitNode, BeginConfigure, Live, windowVars
<1>4. ManagerInv'
  BY DEF CommitNode, BeginConfigure, Live, windowVars
<1>5. NodeInv'
  BY DEF CommitNode, BeginConfigure, Live, windowVars
<1>6. CopyInv'
  BY DEF CommitNode, BeginConfigure, Live, windowVars
<1>7. LocksAreCounted'
  BY AcquireCounts DEF CommitNode, BeginConfigure, Live, windowVars, LocksAreCounted
<1> QED
  BY <1>1, <1>2, <1>3, <1>4, <1>5, <1>6, <1>7 DEF IInv

\* handle_commit arms a timer exactly when it leaves somebody to wait for.
LEMMA FinishCommitStep ==
  ASSUME IInv, NEW gotTimer \in BOOLEAN, FinishCommit(gotTimer)
  PROVE  IInv'
<1> USE DEF IInv, TypeOK, EmissionInv, PhaseInv, ManagerInv, NodeInv, CopyInv,
            LoopFree, State, Phase
<1>1. TypeOK'
  BY WindowsAreFinite, InflationIsPositive, FlagAssumption DEF FinishCommit, ToWaitFor, Progress, nodeVars, windowVars
<1>2. EmissionInv'
  BY DEF FinishCommit, ToWaitFor, Progress, nodeVars, windowVars
<1>3. PhaseInv'
  BY DEF FinishCommit, ToWaitFor, Progress, nodeVars, windowVars
<1>4. ManagerInv'
  BY DEF FinishCommit, ToWaitFor, Progress, nodeVars, windowVars
<1>5. NodeInv'
  BY DEF FinishCommit, ToWaitFor, Progress, nodeVars, windowVars
<1>6. CopyInv'
  BY DEF FinishCommit, ToWaitFor, Progress, nodeVars, windowVars
<1>7. LocksAreCounted'
  BY DEF FinishCommit, ToWaitFor, Progress, nodeVars, windowVars, LocksAreCounted
<1> QED
  BY <1>1, <1>2, <1>3, <1>4, <1>5, <1>6, <1>7 DEF IInv

\* An answer releases one lock; the last one disarms the timer.
LEMMA EndConfigureStep ==
  ASSUME IInv, NEW w \in Window, NEW resized \in BOOLEAN,
         EndConfigure(w, resized)
  PROVE  IInv'
<1> USE DEF IInv, TypeOK, EmissionInv, PhaseInv, ManagerInv, NodeInv, CopyInv,
            LoopFree, State, Phase
<1>1. TypeOK'
  <2>1. numWaiting > 0 /\ w \in Node
    BY WindowAssumption DEF EndConfigure
  <2>2. dirty' \subseteq Node /\ queued' \in BOOLEAN /\ idle' \in BOOLEAN
    <3>1. CASE resized /\ w \notin dirty
      BY <2>1, <3>1 DEF EndConfigure, SetDirty, EnsureQueued
    <3>2. CASE resized /\ w \in dirty
      BY <2>1, <3>2 DEF EndConfigure, SetDirty
    <3>3. CASE ~resized
      BY <3>3 DEF EndConfigure
    <3> QED
      BY <3>1, <3>2, <3>3
  <2>3. phase' \in Phase /\ numWaiting' \in Nat /\ emitting' \subseteq Node
    BY <2>1 DEF EndConfigure, Progress
  <2>4. timer' \in {"off", "armed"} /\ configuring' \subseteq Window
    BY DEF EndConfigure
  <2> QED
    BY <2>2, <2>3, <2>4 DEF EndConfigure
<1>2. EmissionInv'
  BY DEF EndConfigure, SetDirty, EnsureQueued, Progress
<1>3. PhaseInv'
  BY DEF EndConfigure, SetDirty, EnsureQueued, Progress
<1>4. ManagerInv'
  BY DEF EndConfigure, SetDirty, EnsureQueued, Progress
<1>5. NodeInv'
  BY DEF EndConfigure, SetDirty, EnsureQueued, Progress
<1>6. CopyInv'
  BY DEF EndConfigure, SetDirty, EnsureQueued, Progress
<1>7. LocksAreCounted'
  <2>1. phase = "WAITING_CONFIRM"
    BY DEF EndConfigure
  <2>2. /\ Cardinality(configuring') = Cardinality(configuring) - 1
        /\ Cardinality(configuring) \in Nat
        /\ Cardinality(configuring') \in Nat
    BY ReleaseCounts, WindowsAreFinite DEF EndConfigure
  <2>3. numWaiting = Cardinality(configuring) + (IF TxnWait THEN Inflation ELSE 0)
    BY <2>1 DEF LocksAreCounted
  <2>4. numWaiting \in Nat /\ numWaiting > 0
    BY <2>1
  <2>5. /\ numWaiting' = numWaiting - 1
        /\ \/ phase' = "WAITING_CONFIRM"
           \/ phase' = "APPLY" /\ numWaiting' = 0
    <3>1. CASE numWaiting - 1 > 0
      BY <3>1 DEF EndConfigure, Progress
    <3>2. CASE ~(numWaiting - 1 > 0)
      BY <2>4, <3>2 DEF EndConfigure, Progress
    <3> QED
      BY <3>1, <3>2
  <2>6. numWaiting' = Cardinality(configuring')
                        + (IF TxnWait THEN Inflation ELSE 0)
    BY <2>2, <2>3, <2>5, InflationIsPositive, FlagAssumption
  <2> QED
    BY <2>5, <2>6 DEF LocksAreCounted
<1> QED
  BY <1>1, <1>2, <1>3, <1>4, <1>5, <1>6, <1>7 DEF IInv

\* A timeout forgets every lock.
LEMMA HandleTimeoutStep ==
  ASSUME IInv, HandleTimeout
  PROVE  IInv'
<1> USE DEF IInv, TypeOK, EmissionInv, PhaseInv, ManagerInv, NodeInv, CopyInv,
            LoopFree, State, Phase
<1>1. TypeOK'
  BY DEF HandleTimeout, Progress, nodeVars, windowVars
<1>2. EmissionInv'
  BY DEF HandleTimeout, Progress, nodeVars, windowVars
<1>3. PhaseInv'
  BY DEF HandleTimeout, Progress, nodeVars, windowVars
<1>4. ManagerInv'
  BY DEF HandleTimeout, Progress, nodeVars, windowVars
<1>5. NodeInv'
  BY DEF HandleTimeout, Progress, nodeVars, windowVars
<1>6. CopyInv'
  BY DEF HandleTimeout, Progress, nodeVars, windowVars
<1>7. LocksAreCounted'
  BY DEF HandleTimeout, Progress, nodeVars, windowVars, LocksAreCounted
<1> QED
  BY <1>1, <1>2, <1>3, <1>4, <1>5, <1>6, <1>7 DEF IInv

\* The apply listener makes the committed state current.
LEMMA ApplyNodeStep ==
  ASSUME IInv, NEW n \in Node, ApplyNode(n)
  PROVE  IInv'
<1> USE DEF IInv, TypeOK, EmissionInv, PhaseInv, ManagerInv, NodeInv, CopyInv,
            LoopFree, State, Phase
<1>1. TypeOK'
  BY DEF ApplyNode
<1>2. EmissionInv'
  BY DEF ApplyNode
<1>3. PhaseInv'
  BY DEF ApplyNode
<1>4. ManagerInv'
  BY DEF ApplyNode
<1>5. NodeInv'
  BY DEF ApplyNode
<1>6. CopyInv'
  BY DEF ApplyNode
<1>7. LocksAreCounted'
  BY DEF ApplyNode, LocksAreCounted
<1> QED
  BY <1>1, <1>2, <1>3, <1>4, <1>5, <1>6, <1>7 DEF IInv

\* Once every listener has applied, nothing is frozen or waited for.
LEMMA FinishApplyStep ==
  ASSUME IInv, FinishApply
  PROVE  IInv'
<1> USE DEF IInv, TypeOK, EmissionInv, PhaseInv, ManagerInv, NodeInv, CopyInv,
            LoopFree, State, Phase
<1>1. TypeOK'
  BY DEF FinishApply, nodeVars, windowVars
<1>2. EmissionInv'
  BY DEF FinishApply, nodeVars, windowVars
<1>3. PhaseInv'
  BY DEF FinishApply, nodeVars, windowVars
<1>4. ManagerInv'
  BY DEF FinishApply, nodeVars, windowVars
<1>5. NodeInv'
  BY DEF FinishApply, nodeVars, windowVars
<1>6. CopyInv'
  BY DEF FinishApply, nodeVars, windowVars
<1>7. LocksAreCounted'
  BY DEF FinishApply, nodeVars, windowVars, LocksAreCounted
<1> QED
  BY <1>1, <1>2, <1>3, <1>4, <1>5, <1>6, <1>7 DEF IInv

\* Only nodes that left every list are freed.
LEMMA AfterApplyNodeStep ==
  ASSUME IInv, NEW n \in Node, AfterApplyNode(n)
  PROVE  IInv'
<1> USE DEF IInv, TypeOK, EmissionInv, PhaseInv, ManagerInv, NodeInv, CopyInv,
            LoopFree, State, Phase
<1>1. TypeOK'
  BY DEF AfterApplyNode, windowVars
<1>2. EmissionInv'
  BY DEF AfterApplyNode, windowVars
<1>3. PhaseInv'
  BY DEF AfterApplyNode, windowVars
<1>4. ManagerInv'
  BY DEF AfterApplyNode, windowVars
<1>5. NodeInv'
  BY LookAssumption DEF AfterApplyNode, windowVars
<1>6. CopyInv'
  BY DEF AfterApplyNode, windowVars
<1>7. LocksAreCounted'
  BY DEF AfterApplyNode, windowVars, LocksAreCounted
<1> QED
  BY <1>1, <1>2, <1>3, <1>4, <1>5, <1>6, <1>7 DEF IInv

\* Nodes marked during a transaction get the next one.
LEMMA FinishAfterApplyStep ==
  ASSUME IInv, FinishAfterApply
  PROVE  IInv'
<1> USE DEF IInv, TypeOK, EmissionInv, PhaseInv, ManagerInv, NodeInv, CopyInv,
            LoopFree, State, Phase
<1>1. TypeOK'
  BY DEF FinishAfterApply, nodeVars, windowVars
<1>2. EmissionInv'
  BY DEF FinishAfterApply, nodeVars, windowVars
<1>3. PhaseInv'
  BY DEF FinishAfterApply, nodeVars, windowVars
<1>4. ManagerInv'
  BY DEF FinishAfterApply, nodeVars, windowVars
<1>5. NodeInv'
  BY DEF FinishAfterApply, nodeVars, windowVars
<1>6. CopyInv'
  BY DEF FinishAfterApply, nodeVars, windowVars
<1>7. LocksAreCounted'
  BY DEF FinishAfterApply, nodeVars, windowVars, LocksAreCounted
<1> QED
  BY <1>1, <1>2, <1>3, <1>4, <1>5, <1>6, <1>7 DEF IInv

-----------------------------------------------------------------------------
(* The invariant holds, and with it every safety property. *)

\* Nothing is allocated, listed or waited for when the compositor starts.
LEMMA InitInv == Init => IInv
<1> SUFFICES ASSUME Init PROVE IInv
  OBVIOUS
<1> USE DEF Init
<1>1. TypeOK
  BY DEF TypeOK, State, Phase
<1>2. EmissionInv
  BY DEF EmissionInv, LoopFree
<1>3. PhaseInv
  BY DEF PhaseInv
<1>4. ManagerInv
  BY DEF ManagerInv
<1>5. NodeInv
  BY LookAssumption DEF NodeInv
<1>6. CopyInv
  BY DEF CopyInv
<1>7. LocksAreCounted
  BY DEF LocksAreCounted
<1> QED
  BY <1>1, <1>2, <1>3, <1>4, <1>5, <1>6, <1>7 DEF IInv

\* The invariant speaks of the variables alone.
LEMMA StutterStep == ASSUME IInv, UNCHANGED vars PROVE IInv'
BY DEF vars, managerVars, nodeVars, windowVars, IInv, TypeOK, EmissionInv,
       PhaseInv, ManagerInv, NodeInv, CopyInv, LocksAreCounted, LoopFree

\* IInv is inductive.
LEMMA NextInv == IInv /\ [Next]_vars => IInv'
<1> SUFFICES ASSUME IInv, [Next]_vars PROVE IInv'
  OBVIOUS
<1>1. CASE \E n \in Node : Create(n)
  BY <1>1, CreateStep
<1>2. CASE \E n \in Node : \E v \in Layout \cup {pending[n]} : Edit(n, v)
  BY <1>2, EditStep
<1>3. CASE \E n \in Node : BeginDestroy(n)
  BY <1>3, BeginDestroyStep
<1>4. CASE StartCommit
  BY <1>4, HandleCommitStep DEF StartCommit
<1>5. CASE \E w \in Window, resized \in BOOLEAN : EndConfigure(w, resized)
  BY <1>5, EndConfigureStep
<1>6. CASE HandleTimeout
  BY <1>6, HandleTimeoutStep
<1>7. CASE Emission
  BY <1>7, CommitNodeStep, FinishCommitStep, ApplyNodeStep, FinishApplyStep,
     AfterApplyNodeStep, FinishAfterApplyStep DEF Emission
<1>8. CASE UNCHANGED vars
  BY <1>8, StutterStep
<1> QED
  BY <1>1, <1>2, <1>3, <1>4, <1>5, <1>6, <1>7, <1>8 DEF Next

\* IInv holds in every state the manager can reach.
THEOREM Invariance == Spec => []IInv
BY InitInv, NextInv, PTL DEF Spec

\* Every variable of the manager and of the nodes keeps its type.
THEOREM TypeCorrect == Spec => []TypeOK
<1>1. IInv => TypeOK
  BY DEF IInv
<1> QED
  BY <1>1, Invariance, PTL

\* num_waiting counts the windows whose client still has to answer.
THEOREM LocksCounted == Spec => []LocksAreCounted
<1>1. IInv => LocksAreCounted
  BY DEF IInv
<1> QED
  BY <1>1, Invariance, PTL

\* No callback of the event loop runs into an assertion of transaction.c.
THEOREM CallbacksSafe == Spec => []CallbacksAreSafe
<1>1. IInv => CallbacksAreSafe
  BY DEF IInv, PhaseInv, ManagerInv, LoopFree, CallbacksAreSafe
<1> QED
  BY <1>1, Invariance, PTL

\* A transaction never waits without a timer to end the wait.
THEOREM WaitBounded == Spec => []WaitIsBounded
<1>1. IInv => WaitIsBounded
  BY DEF IInv, PhaseInv, ManagerInv, WaitIsBounded
<1> QED
  BY <1>1, Invariance, PTL

\* Every change has a transaction coming that will show it.
THEOREM ChangesKept == Spec => []NoLostChange
<1>1. IInv => NoLostChange
  BY DEF IInv, TypeOK, Phase, EmissionInv, ManagerInv, CopyInv, NoLostChange
<1> QED
  BY <1>1, Invariance, PTL

\* Saved buffers never outlive their transaction.
THEOREM FrozenBounded == Spec => []FrozenOnlyInTransaction
<1>1. IInv => FrozenOnlyInTransaction
  BY DEF IInv, EmissionInv, PhaseInv, FrozenOnlyInTransaction
<1> QED
  BY <1>1, Invariance, PTL

\* A freed node is on no list of the manager.
THEOREM UseAfterFree == Spec => []NoUseAfterFree
<1>1. IInv => NoUseAfterFree
  BY DEF IInv, TypeOK, PhaseInv, NodeInv, NoUseAfterFree
<1> QED
  BY <1>1, Invariance, PTL

-----------------------------------------------------------------------------
(* Transaction implements AtomicLayout. *)

\* The three layouts of AtomicLayout are well-typed in every state of IInv.
LEMMA MappedTypes ==
  ASSUME IInv
  PROVE  /\ Wanted \in [Node -> Layout \cup {Blank}]
         /\ Agreed \in [Node -> Layout \cup {Blank}]
         /\ Shown \in [Node -> Layout \cup {Blank}]
         /\ Settling \in BOOLEAN
BY DEF IInv, TypeOK, State, Wanted, Agreed, Shown, Settling, Drawn

\* Creating a node draws nothing.
LEMMA CreateMapped ==
  ASSUME IInv, NEW n \in Node, Create(n)
  PROVE  UNCHANGED <<Wanted, Agreed, Shown, Settling>>
<1> USE DEF IInv, TypeOK, EmissionInv, PhaseInv, ManagerInv, NodeInv, CopyInv,
            LoopFree, State
<1>1. Wanted' = Wanted
  BY DEF Create, Wanted, Drawn
<1>2. Agreed' = Agreed
  BY DEF Create, Agreed, Drawn
<1>3. Shown' = Shown
  BY DEF Create, Shown, Drawn
<1>4. Settling' = Settling
  BY DEF Create, Settling
<1> QED
  BY <1>1, <1>2, <1>3, <1>4

\* Marking a node dead draws nothing.
LEMMA BeginDestroyMapped ==
  ASSUME IInv, NEW n \in Node, BeginDestroy(n)
  PROVE  UNCHANGED <<Wanted, Agreed, Shown, Settling>>
<1> USE DEF IInv, TypeOK, EmissionInv, PhaseInv, ManagerInv, NodeInv, CopyInv,
            LoopFree, State
<1>1. Wanted' = Wanted
  BY DEF BeginDestroy, Wanted, Drawn
<1>2. Agreed' = Agreed
  BY DEF BeginDestroy, Agreed, Drawn
<1>3. Shown' = Shown
  BY DEF BeginDestroy, Shown, Drawn
<1>4. Settling' = Settling
  BY DEF BeginDestroy, Settling
<1> QED
  BY <1>1, <1>2, <1>3, <1>4

\* A commit listener does what the snapshot already stands for.
LEMMA CommitNodeMapped ==
  ASSUME IInv, NEW n \in Node, NEW configure \in BOOLEAN, CommitNode(n, configure)
  PROVE  UNCHANGED <<Wanted, Agreed, Shown, Settling>>
<1> USE DEF IInv, TypeOK, EmissionInv, PhaseInv, ManagerInv, NodeInv, CopyInv,
            LoopFree, State
<1>1. Wanted' = Wanted
  BY DEF CommitNode, Wanted, Drawn
<1>2. Agreed' = Agreed
  BY DEF CommitNode, Agreed, Drawn
<1>3. Shown' = Shown
  BY DEF CommitNode, Shown, Drawn
<1>4. Settling' = Settling
  BY DEF CommitNode, Settling
<1> QED
  BY <1>1, <1>2, <1>3, <1>4

\* An apply listener does what Show already stands for.
LEMMA ApplyNodeMapped ==
  ASSUME IInv, NEW n \in Node, ApplyNode(n)
  PROVE  UNCHANGED <<Wanted, Agreed, Shown, Settling>>
<1> USE DEF IInv, TypeOK, EmissionInv, PhaseInv, ManagerInv, NodeInv, CopyInv,
            LoopFree, State
<1>1. Wanted' = Wanted
  BY DEF ApplyNode, Wanted, Drawn
<1>2. Agreed' = Agreed
  BY DEF ApplyNode, Agreed, Drawn
<1>3. Shown' = Shown
  BY DEF ApplyNode, Shown, Drawn
<1>4. Settling' = Settling
  BY DEF ApplyNode, Settling
<1> QED
  BY <1>1, <1>2, <1>3, <1>4

\* The end of the apply emission draws nothing.
LEMMA FinishApplyMapped ==
  ASSUME IInv, FinishApply
  PROVE  UNCHANGED <<Wanted, Agreed, Shown, Settling>>
<1> USE DEF IInv, TypeOK, EmissionInv, PhaseInv, ManagerInv, NodeInv, CopyInv,
            LoopFree, State
<1>1. Wanted' = Wanted
  BY DEF FinishApply, nodeVars, Wanted, Drawn
<1>2. Agreed' = Agreed
  BY DEF FinishApply, nodeVars, Agreed, Drawn
<1>3. Shown' = Shown
  BY DEF FinishApply, nodeVars, Shown, Drawn
<1>4. Settling' = Settling
  BY DEF FinishApply, nodeVars, Settling
<1> QED
  BY <1>1, <1>2, <1>3, <1>4

\* A freed node was no longer drawn.
LEMMA AfterApplyNodeMapped ==
  ASSUME IInv, NEW n \in Node, AfterApplyNode(n)
  PROVE  UNCHANGED <<Wanted, Agreed, Shown, Settling>>
<1> USE DEF IInv, TypeOK, EmissionInv, PhaseInv, ManagerInv, NodeInv, CopyInv,
            LoopFree, State
<1>1. Wanted' = Wanted
  BY DEF AfterApplyNode, Wanted, Drawn
<1>2. Agreed' = Agreed
  BY DEF AfterApplyNode, Agreed, Drawn
<1>3. Shown' = Shown
  BY DEF AfterApplyNode, Shown, Drawn
<1>4. Settling' = Settling
  BY DEF AfterApplyNode, Settling
<1> QED
  BY <1>1, <1>2, <1>3, <1>4

\* The end of a transaction draws nothing.
LEMMA FinishAfterApplyMapped ==
  ASSUME IInv, FinishAfterApply
  PROVE  UNCHANGED <<Wanted, Agreed, Shown, Settling>>
<1> USE DEF IInv, TypeOK, EmissionInv, PhaseInv, ManagerInv, NodeInv, CopyInv,
            LoopFree, State
<1>1. Wanted' = Wanted
  BY DEF FinishAfterApply, nodeVars, Wanted, Drawn
<1>2. Agreed' = Agreed
  BY DEF FinishAfterApply, nodeVars, Agreed, Drawn
<1>3. Shown' = Shown
  BY DEF FinishAfterApply, nodeVars, Shown, Drawn
<1>4. Settling' = Settling
  BY DEF FinishAfterApply, nodeVars, Settling
<1> QED
  BY <1>1, <1>2, <1>3, <1>4

\* An edit moves the wanted layout alone.
LEMMA EditMapped ==
  ASSUME IInv, NEW n \in Node, NEW v \in Layout \cup {pending[n]}, Edit(n, v)
  PROVE  Atomic!Edit
<1> USE DEF IInv
<1>1. Wanted' \in [Node -> Layout \cup {Blank}]
  BY EditStep DEF TypeOK, State, Wanted, Drawn
<1>2. Agreed' = Agreed
  BY DEF Edit, MayEdit, LoopFree, Agreed, Drawn
<1>3. Shown' = Shown
  BY DEF Edit, MayEdit, LoopFree, Shown, Drawn
<1>4. Settling' = Settling
  BY DEF Edit, Settling
<1> QED
  BY <1>1, <1>2, <1>3, <1>4 DEF Atomic!Edit, Atomic!Layouts

\* handle_commit takes the snapshot: whatever is not on the commit list was
\* committed as it is wanted (CopyInv).
LEMMA HandleCommitMapped ==
  ASSUME IInv, NEW marked \in SUBSET Live, NEW reached \in SUBSET (dirty \cup marked),
         NEW arrangement \in Arrangements(reached), HandleCommit(marked, arrangement)
  PROVE  Atomic!Snapshot
<1> USE DEF IInv
<1>1. ~Settling /\ Settling'
  BY DEF ManagerInv, HandleCommit, Settling
<1>2. Wanted' \in [Node -> Layout \cup {Blank}]
  BY HandleCommitStep DEF TypeOK, State, Wanted, Drawn
<1>3. Agreed' = Wanted'
  <2>1. ASSUME NEW n \in Node
        PROVE  Agreed'[n] = Wanted'[n]
    <3>1. CASE n \in dirty'
      BY <3>1 DEF HandleCommit, Agreed, Wanted
    <3>2. CASE n \notin dirty'
      <4>1. pending'[n] = committed'[n]
        BY <3>2, HandleCommitStep DEF CopyInv
      <4> QED
        BY <4>1 DEF Agreed, Wanted
    <3> QED
      BY <3>1, <3>2
  <2> QED
    BY <2>1 DEF Agreed, Wanted
<1>4. Shown' = Shown
  BY <1>1 DEF HandleCommit, LoopFree, Shown, Drawn
<1> QED
  BY <1>1, <1>2, <1>3, <1>4 DEF Atomic!Snapshot, Atomic!Layouts

\* Whenever the wait ends, every node that differs from what was agreed is on
\* the apply list (CopyInv), so entering APPLY shows the whole snapshot.
LEMMA ProgressMapped ==
  ASSUME IInv, NEW waiting \in Int, Progress(waiting), emitting = {},
         phase \in {"COMMIT", "WAITING_CONFIRM"},
         UNCHANGED <<onApply, pending, committed, current>>
  PROVE  Atomic!Show \/ UNCHANGED <<Wanted, Agreed, Shown, Settling>>
<1> USE DEF IInv
<1>1. Wanted' = Wanted
  BY DEF Wanted, Drawn
<1>2. CASE waiting > 0
  <2>1. phase' = "WAITING_CONFIRM" /\ emitting' = {}
    BY <1>2 DEF Progress
  <2>2. Agreed' = Agreed
    BY <2>1 DEF Agreed, Drawn
  <2>3. Shown' = Shown
    BY <2>1 DEF Shown, Drawn
  <2> QED
    BY <1>1, <2>1, <2>2, <2>3 DEF Settling
<1>3. CASE ~(waiting > 0)
  <2>1. phase' = "APPLY" /\ emitting' = onApply
    BY <1>3 DEF Progress
  <2>2. Agreed' = Agreed
    BY <2>1 DEF Agreed, Drawn
  <2>3. Shown' = Agreed
    <3>1. ASSUME NEW n \in Node, n \notin onApply
          PROVE  current[n] = committed[n]
      BY <3>1 DEF CopyInv
    <3> QED
      BY <2>1, <3>1 DEF Agreed, Shown, Drawn
  <2> QED
    BY <1>1, <2>1, <2>2, <2>3 DEF Settling, Atomic!Show
<1> QED
  BY <1>2, <1>3

\* The end of handle_commit shows the snapshot if nobody is waited for, and
\* otherwise leaves the three layouts alone.
LEMMA FinishCommitMapped ==
  ASSUME IInv, NEW gotTimer \in BOOLEAN, FinishCommit(gotTimer)
  PROVE  Atomic!Show \/ UNCHANGED <<Wanted, Agreed, Shown, Settling>>
<1>1. ToWaitFor \in Int
  BY InflationIsPositive DEF ToWaitFor, IInv, TypeOK
<1> QED
  BY <1>1, ProgressMapped DEF FinishCommit, nodeVars

\* An answer, or the timeout, shows the snapshot when it ends the wait.
LEMMA AnswerMapped ==
  ASSUME IInv, (\E w \in Window, resized \in BOOLEAN : EndConfigure(w, resized)) \/ HandleTimeout
  PROVE  Atomic!Show \/ UNCHANGED <<Wanted, Agreed, Shown, Settling>>
<1>1. phase = "WAITING_CONFIRM" /\ emitting = {}
  BY DEF IInv, PhaseInv, ManagerInv, EmissionInv, LoopFree, EndConfigure, HandleTimeout
<1>2. UNCHANGED <<onApply, pending, committed, current>>
  BY DEF EndConfigure, HandleTimeout, nodeVars
<1>3. numWaiting - 1 \in Int
  BY DEF IInv, TypeOK
<1>4. Progress(numWaiting - 1) \/ Progress(0)
  BY DEF EndConfigure, HandleTimeout
<1> QED
  BY <1>1, <1>2, <1>3, <1>4, ProgressMapped

\* Before anything is created nothing is drawn and nothing is settling.
LEMMA MappedInit == Init => Atomic!Init
<1> SUFFICES ASSUME Init PROVE Atomic!Init
  OBVIOUS
<1>1. Wanted \in [Node -> Layout \cup {Blank}]
  BY InitInv, MappedTypes
<1>2. Agreed = Wanted /\ Shown = Wanted
  BY DEF Init, Wanted, Agreed, Shown
<1>3. Settling = FALSE
  BY DEF Init, Settling
<1> QED
  BY <1>1, <1>2, <1>3 DEF Atomic!Init, Atomic!Layouts

\* Every step of the manager is a step of AtomicLayout or draws nothing.
LEMMA MappedNext == IInv /\ [Next]_vars => [Atomic!Next]_(Atomic!vars)
<1> SUFFICES ASSUME IInv, [Next]_vars
             PROVE  Atomic!Next \/ UNCHANGED <<Wanted, Agreed, Shown, Settling>>
  BY DEF Atomic!vars
<1> USE DEF Atomic!Next
<1>1. CASE \E n \in Node : Create(n)
  BY <1>1, CreateMapped
<1>2. CASE \E n \in Node : \E v \in Layout \cup {pending[n]} : Edit(n, v)
  BY <1>2, EditMapped
<1>3. CASE \E n \in Node : BeginDestroy(n)
  BY <1>3, BeginDestroyMapped
<1>4. CASE StartCommit
  BY <1>4, HandleCommitMapped DEF StartCommit
<1>5. CASE (\E w \in Window, resized \in BOOLEAN : EndConfigure(w, resized)) \/ HandleTimeout
  BY <1>5, AnswerMapped
<1>6. CASE Emission
  BY <1>6, CommitNodeMapped, FinishCommitMapped, ApplyNodeMapped,
     FinishApplyMapped, AfterApplyNodeMapped, FinishAfterApplyMapped DEF Emission
<1>7. CASE UNCHANGED vars
  BY <1>7 DEF vars, managerVars, nodeVars, Wanted, Agreed, Shown, Settling
<1> QED
  BY <1>1, <1>2, <1>3, <1>4, <1>5, <1>6, <1>7 DEF Next

\* Whatever is edited, whoever answers, and whether or not the wait times out,
\* the screen only shows whole snapshots of the wanted layout.
THEOREM Implements == Spec => LayoutIsAtomic
<1>1. Init => Atomic!Init
  BY MappedInit
<1>2. IInv /\ [Next]_vars => [Atomic!Next]_(Atomic!vars)
  BY MappedNext
<1> QED
  BY <1>1, <1>2, Invariance, PTL DEF Spec, LayoutIsAtomic, Atomic!Spec

-----------------------------------------------------------------------------
(* The views implement the manager. *)

\* A view's commit handler is a commit listener, which asks or does not ask; a client's
\* commit is an answer, an edit by its client, or nothing to the manager.
LEMMA ViewStepMapped == ASSUME ViewStep PROVE [Next]_vars
<1>0. Window \subseteq Node
  BY WindowAssumption
<1>1. ASSUME NEW w \in Window, NEW visible \in BOOLEAN, XCommitWindow(w, visible)
      PROVE  Next
  <2>1. \E configure \in BOOLEAN : CommitNode(w, configure)
    BY <1>1 DEF XCommitWindow
  <2> QED
    BY <1>0, <2>1 DEF Next, Emission
<1>2. ASSUME NEW w \in Window, FocusChanged(w) PROVE UNCHANGED vars
  BY <1>2 DEF FocusChanged
<1>3. ASSUME NEW w \in Window, NEW v \in Layout, RequestFullscreen(w, v) PROVE Next
  BY <1>0, <1>3 DEF RequestFullscreen, Next
<1>4. ASSUME NEW w \in Window, SendConfigure(w) PROVE UNCHANGED vars
  BY <1>4 DEF SendConfigure
<1>5. ASSUME NEW w \in Window, NEW resized \in BOOLEAN, NEW i \in DOMAIN sent[w],
             ClientCommit(w, i, resized)
      PROVE  [Next]_vars
  <2>1. \/ EndConfigure(w, resized)
        \/ Edit(w, pending[w])
        \/ UNCHANGED vars
    BY <1>5 DEF ClientCommit
  <2> QED
    BY <1>0, <2>1 DEF Next
<1>6. ASSUME NEW w \in Window, Unmap(w) PROVE Next
  BY <1>0, <1>6 DEF Unmap, Next
<1> QED
  BY <1>1, <1>2, <1>3, <1>4, <1>5, <1>6 DEF ViewStep

\* What no view takes part in is a step of the manager as it is.
LEMMA ManagerStepMapped == ASSUME ManagerStep PROVE Next
BY DEF ManagerStep, Next, Emission

LEMMA MappedXNext == ASSUME [XNext]_xdgVars PROVE [Next]_vars
BY ViewStepMapped, ManagerStepMapped DEF XNext, xdgVars

\* The transactions of xdg-shell windows are transactions: whatever is proved of Spec holds
\* of the system with its views and clients.
THEOREM ViewsAreTransactional == XSpec => Spec
<1>1. XInit => Init
  BY DEF XInit
<1>2. [XNext]_xdgVars => [Next]_vars
  BY MappedXNext
<1> QED
  BY <1>1, <1>2, PTL DEF XSpec, Spec

-----------------------------------------------------------------------------
(* The inductive invariant of a view and its client. *)

Request == [serial : Nat, look : State]

XTypeInv ==
  /\ configured \in [Window -> State] /\ rendered \in [Window -> State]
  /\ force \in [Window -> BOOLEAN]
  /\ lastSerial \in [Window -> Nat] /\ scheduled \in [Window -> Nat]
  /\ configureSerial \in [Window -> Nat] /\ answered \in [Window -> Nat]
  /\ sent \in [Window -> Seq(Request)]

\* Serials are handed out in order: the scheduled request has the last one, those that were
\* sent come before it and are in order, and an answer leaves only later ones.
SerialInv(w) ==
  /\ scheduled[w] \in {0, lastSerial[w]}
  /\ configureSerial[w] <= lastSerial[w] /\ answered[w] <= lastSerial[w]
  /\ scheduled[w] # 0 => answered[w] < scheduled[w]
  /\ \A i \in DOMAIN sent[w] :
       /\ answered[w] < sent[w][i].serial /\ sent[w][i].serial <= lastSerial[w]
       /\ scheduled[w] # 0 => sent[w][i].serial < scheduled[w]
  /\ \A i, j \in DOMAIN sent[w] : i < j => sent[w][i].serial < sent[w][j].serial

\* The request that a view waits for, and those after it, ask for what it configured last.
LookInv(w) ==
  \A i \in DOMAIN sent[w] :
    sent[w][i].serial >= configureSerial[w] => sent[w][i].look = configured[w]

\* A live window that shows its saved buffers was configured for what it committed; one
\* that is no longer waited for has drawn that, and its older requests are superseded.
FrozenInv(w) ==
  /\ phase = "COMMIT" /\ w \in frozen => w \in configuring
  /\ w \in frozen /\ status[w] = "live" => configured[w] = committed[w] /\ configureSerial[w] > 0
  /\ w \in frozen \ configuring /\ status[w] = "live" =>
       rendered[w] = committed[w] /\ answered[w] >= configureSerial[w]

\* The answer can still come, unless one to a later request came instead.
ComingInv(w) ==
  w \in configuring /\ status[w] = "live" =>
    \/ scheduled[w] >= configureSerial[w]
    \/ \E i \in DOMAIN sent[w] : sent[w][i].serial >= configureSerial[w]
    \/ answered[w] > configureSerial[w]

ViewInv(w) == SerialInv(w) /\ LookInv(w) /\ FrozenInv(w) /\ ComingInv(w)
XInv == XTypeInv /\ \A w \in Window : ViewInv(w)

-----------------------------------------------------------------------------
(* Every step preserves the invariant. *)

LEMMA InitXInv == XInit => XInv
<1> SUFFICES ASSUME XInit PROVE XInv
  OBVIOUS
<1>1. XTypeInv
  BY DEF XInit, XTypeInv, State
<1>2. ASSUME NEW w \in Window PROVE ViewInv(w)
  BY DEF XInit, Init, ViewInv, SerialInv, LookInv, FrozenInv, ComingInv
<1> QED
  BY <1>1, <1>2 DEF XInv

\* The requests of a client, as the solvers need them.
LEMMA RequestTypes ==
  ASSUME XTypeInv, NEW w \in Window
  PROVE  /\ sent[w] \in Seq(Request) /\ Len(sent[w]) \in Nat /\ DOMAIN sent[w] = 1..Len(sent[w])
         /\ \A i \in DOMAIN sent[w] : sent[w][i] \in Request /\ sent[w][i].serial \in Nat
         /\ configureSerial[w] \in Nat /\ answered[w] \in Nat
         /\ lastSerial[w] \in Nat /\ scheduled[w] \in Nat
<1>1. sent[w] \in Seq(Request)
  BY DEF XTypeInv
<1>2. Len(sent[w]) \in Nat /\ DOMAIN sent[w] = 1..Len(sent[w])
  BY <1>1
<1>3. ASSUME NEW i \in DOMAIN sent[w] PROVE sent[w][i] \in Request
  BY <1>1, <1>2
<1>4. \A r \in Request : r.serial \in Nat
  BY DEF Request
<1>5. configureSerial[w] \in Nat /\ answered[w] \in Nat /\ lastSerial[w] \in Nat /\ scheduled[w] \in Nat
  BY DEF XTypeInv
<1> QED
  BY <1>1, <1>2, <1>3, <1>4, <1>5

\* A step that leaves a window, its view and its client alone preserves what is said of it.
Untouched(w) ==
  /\ UNCHANGED <<configured[w], configureSerial[w], scheduled[w], sent[w], lastSerial[w], answered[w], rendered[w]>>
  /\ UNCHANGED <<status[w], committed[w]>> /\ (phase' = "COMMIT" => phase = "COMMIT")
  /\ (w \in frozen' <=> w \in frozen) /\ (w \in configuring' <=> w \in configuring)

LEMMA UntouchedKeeps ==
  ASSUME NEW w \in Window, ViewInv(w), Untouched(w)
  PROVE  ViewInv(w)'
<1>1. SerialInv(w)'
  BY DEF ViewInv, Untouched, SerialInv
<1>2. LookInv(w)'
  BY DEF ViewInv, Untouched, LookInv
<1>3. FrozenInv(w)'
  BY DEF ViewInv, Untouched, FrozenInv
<1>4. ComingInv(w)'
  BY DEF ViewInv, Untouched, ComingInv
<1> QED
  BY <1>1, <1>2, <1>3, <1>4 DEF ViewInv

\* What no view takes part in leaves requests and answers alone: a window is frozen only by
\* its own commit listener, and dies, is committed or freed only when it is not frozen.
LEMMA ManagerStepXInv == ASSUME IInv, XInv, ManagerStep PROVE XInv'
<1>1. XTypeInv'
  BY DEF XInv, XTypeInv, ManagerStep, viewVars, clientVars
<1> SUFFICES ASSUME NEW w \in Window PROVE ViewInv(w)'
  BY <1>1 DEF XInv
<1>2. SerialInv(w)' /\ LookInv(w)'
  BY DEF XInv, ViewInv, SerialInv, LookInv, ManagerStep, viewVars, clientVars
<1>3. w \in Node /\ ViewInv(w) /\ UNCHANGED <<viewVars, clientVars>>
  BY WindowAssumption DEF XInv, ManagerStep
<1> USE <1>3 DEF ViewInv, FrozenInv, ComingInv, viewVars, clientVars, IInv
<1>4. ASSUME NEW n \in Node, status[n] = "absent" /\ Create(n)
      PROVE  FrozenInv(w)' /\ ComingInv(w)'
  BY <1>4 DEF Create, windowVars, NodeInv, PhaseInv, TypeOK
<1>5. ASSUME NEW n \in Node, NEW v \in Layout, Edit(n, v)
      PROVE  FrozenInv(w)' /\ ComingInv(w)'
  BY <1>5 DEF Edit, windowVars
<1>6. ASSUME NEW n \in Node \ Window, BeginDestroy(n) \/ CommitNode(n, FALSE)
      PROVE  FrozenInv(w)' /\ ComingInv(w)'
  BY <1>6 DEF BeginDestroy, CommitNode, windowVars, TypeOK
<1>7. ASSUME StartCommit
      PROVE  FrozenInv(w)' /\ ComingInv(w)'
  BY <1>7 DEF StartCommit, HandleCommit, windowVars, PhaseInv, ManagerInv
<1>8. ASSUME HandleTimeout \/ (\E gotTimer \in BOOLEAN : FinishCommit(gotTimer)) \/ FinishApply \/ FinishAfterApply
      PROVE  FrozenInv(w)' /\ ComingInv(w)'
  BY <1>8 DEF HandleTimeout, FinishCommit, FinishApply, FinishAfterApply, Progress, nodeVars, windowVars
<1>9. ASSUME NEW n \in Node, ApplyNode(n)
      PROVE  FrozenInv(w)' /\ ComingInv(w)'
  BY <1>9 DEF ApplyNode, TypeOK
<1>10. ASSUME NEW n \in Node, AfterApplyNode(n)
      PROVE  FrozenInv(w)' /\ ComingInv(w)'
  BY <1>10 DEF AfterApplyNode, windowVars, TypeOK, PhaseInv
<1> QED
  BY <1>2, <1>4, <1>5, <1>6, <1>7, <1>8, <1>9, <1>10 DEF ManagerStep

\* Scheduling keeps the request that is scheduled, or hands out the next serial.
LEMMA ScheduleHandsOut ==
  ASSUME XTypeInv, NEW v \in Window, Schedule(v)
  PROVE  /\ lastSerial' \in [Window -> Nat] /\ scheduled' \in [Window -> Nat]
         /\ \/ scheduled[v] # 0 /\ UNCHANGED <<scheduled, lastSerial>>
            \/ /\ scheduled[v] = 0 /\ lastSerial'[v] = lastSerial[v] + 1
               /\ scheduled'[v] = lastSerial[v] + 1
         /\ \A w \in Window \ {v} : scheduled'[w] = scheduled[w] /\ lastSerial'[w] = lastSerial[w]
<1>1. CASE scheduled[v] # 0
  BY <1>1 DEF Schedule, XTypeInv
<1>2. CASE scheduled[v] = 0
  <2>1. lastSerial' = [lastSerial EXCEPT ![v] = lastSerial[v] + 1]
    BY <1>2 DEF Schedule
  <2>2. lastSerial[v] + 1 \in Nat /\ lastSerial' \in [Window -> Nat] /\ lastSerial'[v] = lastSerial[v] + 1
    BY <2>1 DEF XTypeInv
  <2>3. scheduled' = [scheduled EXCEPT ![v] = lastSerial'[v]]
    BY <1>2 DEF Schedule
  <2> QED
    BY <1>2, <2>1, <2>2, <2>3 DEF XTypeInv
<1> QED
  BY <1>1, <1>2

\* The manager's part of a commit: w leaves the emission, and becomes frozen if it asks.
LEMMA XCommitWindowXInv ==
  ASSUME IInv, XInv, NEW v \in Window, NEW visible \in BOOLEAN, XCommitWindow(v, visible)
  PROVE  XInv'
<1>1. v \in Node /\ v \in emitting /\ v \notin frozen /\ phase = "COMMIT" /\ phase' = "COMMIT"
  BY WindowAssumption DEF XCommitWindow, CommitNode, IInv, PhaseInv, EmissionInv
<1>2. UNCHANGED status /\ committed' = [committed EXCEPT ![v] = pending[v]]
  BY DEF XCommitWindow, CommitNode
<1>3. CASE visible /\ status[v] = "live" /\ NeedsConfigure(v)
  <2>1. /\ configuring' = configuring \cup {v} /\ frozen' = frozen \cup {v}
        /\ configured' = [configured EXCEPT ![v] = pending[v]]
        /\ configureSerial' = [configureSerial EXCEPT ![v] = scheduled'[v]]
        /\ force' = [force EXCEPT ![v] = FALSE] /\ UNCHANGED <<sent, answered, rendered>>
    BY <1>1, <1>3 DEF XCommitWindow, CommitNode, BeginConfigure, IInv, PhaseInv
  <2>2. /\ lastSerial' \in [Window -> Nat] /\ scheduled' \in [Window -> Nat]
        /\ \/ scheduled[v] # 0 /\ UNCHANGED <<scheduled, lastSerial>>
           \/ /\ scheduled[v] = 0 /\ lastSerial'[v] = lastSerial[v] + 1
              /\ scheduled'[v] = lastSerial[v] + 1
        /\ \A w \in Window \ {v} : scheduled'[w] = scheduled[w] /\ lastSerial'[w] = lastSerial[w]
    BY <1>3, ScheduleHandsOut DEF XCommitWindow, XInv
  <2>3. XTypeInv'
    BY <1>1, <2>1, <2>2 DEF XInv, XTypeInv, IInv, TypeOK
  <2>4. ASSUME NEW w \in Window \ {v} PROVE ViewInv(w)'
    <3>1. Untouched(w)
      BY <1>1, <1>2, <2>1, <2>2, <2>4, WindowAssumption DEF XInv, XTypeInv, IInv, TypeOK, Untouched
    <3> QED
      BY <3>1, UntouchedKeeps DEF XInv
  <2>5. ViewInv(v) /\ sent'[v] = sent[v] /\ answered'[v] = answered[v]
    BY <2>1 DEF XInv
  <2>6. configureSerial'[v] = scheduled'[v] /\ lastSerial'[v] = scheduled'[v] /\ scheduled'[v] > 0
        /\ \/ scheduled'[v] = scheduled[v] /\ scheduled[v] # 0
           \/ scheduled[v] = 0 /\ scheduled'[v] = lastSerial[v] + 1
    <3>1. configureSerial'[v] = scheduled'[v]
      BY <2>1 DEF XInv, XTypeInv
    <3>2. scheduled[v] \in {0, lastSerial[v]} /\ scheduled[v] \in Nat /\ lastSerial[v] \in Nat
      BY <2>5, RequestTypes DEF ViewInv, SerialInv, XInv
    <3> QED
      BY <2>2, <3>1, <3>2
  <2>7. SerialInv(v)'
    BY <2>5, <2>6, RequestTypes DEF XInv, ViewInv, SerialInv
  <2>8. LookInv(v)'
    BY <2>5, <2>6, RequestTypes DEF XInv, ViewInv, SerialInv, LookInv
  <2>9. FrozenInv(v)'
    BY <1>1, <1>2, <2>1, <2>6 DEF XInv, XTypeInv, FrozenInv, IInv, TypeOK
  <2>10. ComingInv(v)'
    BY <2>6, <2>3, RequestTypes DEF ComingInv, XTypeInv
  <2> QED
    BY <2>3, <2>4, <2>7, <2>8, <2>9, <2>10 DEF XInv, ViewInv
<1>4. CASE ~(visible /\ status[v] = "live" /\ NeedsConfigure(v))
  <2>1. UNCHANGED <<viewVars, clientVars, windowVars>>
    BY <1>4 DEF XCommitWindow, CommitNode
  <2>2. XTypeInv'
    BY <2>1 DEF viewVars, clientVars, XInv, XTypeInv
  <2>3. ASSUME NEW w \in Window \ {v} PROVE ViewInv(w)'
    <3>1. Untouched(w)
      BY <1>1, <1>2, <2>1, <2>3, WindowAssumption DEF IInv, TypeOK, Untouched, viewVars, clientVars, windowVars
    <3> QED
      BY <3>1, UntouchedKeeps DEF XInv
  <2>4. ViewInv(v)'
    BY <1>1, <1>2, <2>1 DEF viewVars, clientVars, windowVars, XInv, ViewInv, SerialInv, LookInv,
      FrozenInv, ComingInv, IInv, PhaseInv
  <2> QED
    BY <2>2, <2>3, <2>4 DEF XInv
<1> QED
  BY <1>3, <1>4

\* A focus change adds a request after those that were sent.
LEMMA FocusChangedXInv ==
  ASSUME IInv, XInv, NEW v \in Window, FocusChanged(v)
  PROVE  XInv'
<1>1. /\ lastSerial' \in [Window -> Nat] /\ scheduled' \in [Window -> Nat]
      /\ \/ scheduled[v] # 0 /\ UNCHANGED <<scheduled, lastSerial>>
         \/ /\ scheduled[v] = 0 /\ lastSerial'[v] = lastSerial[v] + 1
            /\ scheduled'[v] = lastSerial[v] + 1
      /\ \A w \in Window \ {v} : scheduled'[w] = scheduled[w] /\ lastSerial'[w] = lastSerial[w]
  BY ScheduleHandsOut DEF FocusChanged, XInv
<1>2. UNCHANGED <<vars, viewVars, sent, answered, rendered>>
  BY DEF FocusChanged
<1>3. XTypeInv'
  BY <1>1, <1>2 DEF viewVars, XInv, XTypeInv
<1>4. ASSUME NEW w \in Window \ {v} PROVE ViewInv(w)'
  <2>1. Untouched(w)
    BY <1>1, <1>2, <1>4 DEF vars, managerVars, nodeVars, windowVars, viewVars, Untouched
  <2> QED
    BY <2>1, UntouchedKeeps DEF XInv
<1>5. ViewInv(v) /\ UNCHANGED <<sent[v], answered[v], configureSerial[v], configured[v]>>
  BY <1>2 DEF viewVars, XInv
<1>6. SerialInv(v)'
  BY <1>1, <1>5, RequestTypes DEF XInv, ViewInv, SerialInv
<1>7. LookInv(v)'
  BY <1>5 DEF ViewInv, LookInv
<1>8. FrozenInv(v)'
  BY <1>2, <1>5 DEF vars, managerVars, nodeVars, windowVars, viewVars, ViewInv, FrozenInv
<1>9. ComingInv(v)'
  BY <1>1, <1>2, <1>5, RequestTypes DEF vars, managerVars, nodeVars, windowVars, XInv, ViewInv, SerialInv, ComingInv
<1> QED
  BY <1>3, <1>4, <1>6, <1>7, <1>8, <1>9 DEF XInv, ViewInv

\* A client's wish only changes what is pending.
LEMMA RequestFullscreenXInv ==
  ASSUME IInv, XInv, NEW v \in Window, NEW look \in Layout, RequestFullscreen(v, look)
  PROVE  XInv'
<1> USE DEF RequestFullscreen, Edit, windowVars, clientVars, XInv
<1>1. XTypeInv'
  BY DEF XTypeInv
<1>2. ASSUME NEW w \in Window PROVE ViewInv(w)'
  BY DEF XTypeInv, ViewInv, SerialInv, LookInv, FrozenInv, ComingInv
<1> QED
  BY <1>1, <1>2

\* The request that is sent asks for what the view configured last.
LEMMA SendConfigureXInv ==
  ASSUME IInv, XInv, NEW v \in Window, SendConfigure(v)
  PROVE  XInv'
<1> DEFINE new == [serial |-> scheduled[v], look |-> configured[v]]
<1>1. /\ sent' = [sent EXCEPT ![v] = Append(sent[v], new)]
      /\ scheduled' = [scheduled EXCEPT ![v] = 0] /\ scheduled[v] # 0
      /\ UNCHANGED <<vars, viewVars, lastSerial, answered, rendered>>
  BY DEF SendConfigure
<1>2. sent[v] \in Seq(Request) /\ new \in Request
  BY DEF XInv, XTypeInv, Request
<1>3. XTypeInv'
  BY <1>1, <1>2 DEF viewVars, XInv, XTypeInv
<1>4. ASSUME NEW w \in Window \ {v} PROVE ViewInv(w)'
  BY <1>1, <1>4 DEF vars, managerVars, nodeVars, windowVars, viewVars, XInv, XTypeInv, ViewInv,
    SerialInv, LookInv, FrozenInv, ComingInv
<1>5. ViewInv(v) /\ scheduled[v] = lastSerial[v]
  BY <1>1 DEF XInv, ViewInv, SerialInv
<1>6. /\ Len(sent'[v]) = Len(sent[v]) + 1 /\ DOMAIN sent'[v] = 1..(Len(sent[v]) + 1)
      /\ DOMAIN sent[v] = 1..Len(sent[v]) /\ Len(sent[v]) \in Nat
      /\ \A i \in DOMAIN sent[v] : sent'[v][i] = sent[v][i]
      /\ sent'[v][Len(sent[v]) + 1] = new
  BY <1>1, <1>2 DEF XInv, XTypeInv
<1>7. /\ configureSerial[v] \in Nat /\ answered[v] \in Nat /\ lastSerial[v] \in Nat /\ scheduled[v] \in Nat
      /\ \A i \in DOMAIN sent[v] : sent[v][i].serial \in Nat
      /\ configureSerial'[v] = configureSerial[v] /\ answered'[v] = answered[v] /\ lastSerial'[v] = lastSerial[v]
      /\ configured'[v] = configured[v] /\ scheduled'[v] = 0
      /\ new.serial = scheduled[v] /\ new.look = configured[v]
  BY <1>1, RequestTypes DEF viewVars, XInv, XTypeInv
<1> HIDE DEF new
<1>8. SerialInv(v)'
  BY <1>1, <1>5, <1>6, <1>7 DEF ViewInv, SerialInv
<1>9. LookInv(v)'
  BY <1>5, <1>6, <1>7 DEF ViewInv, LookInv
<1>10. FrozenInv(v)'
  BY <1>1, <1>5 DEF vars, managerVars, nodeVars, windowVars, viewVars, ViewInv, FrozenInv
<1>11. ComingInv(v)'
  BY <1>1, <1>5, <1>6, <1>7 DEF vars, managerVars, nodeVars, windowVars, ViewInv, ComingInv
<1> QED
  BY <1>3, <1>4, <1>8, <1>9, <1>10, <1>11 DEF XInv, ViewInv

\* What is left of a sequence when its first k members are dropped.
LEMMA RestOfSequence ==
  ASSUME NEW S, NEW s \in Seq(S), NEW k \in 1..Len(s), NEW t, t = SubSeq(s, k + 1, Len(s))
  PROVE  /\ \A i \in DOMAIN t : i + k \in DOMAIN s /\ i > 0 /\ i \in Nat /\ t[i] = s[i + k]
         /\ \A i \in DOMAIN s : i > k => i - k \in DOMAIN t /\ t[i - k] = s[i]
<1>1. DOMAIN s = 1..Len(s) /\ Len(s) \in Nat /\ k \in Nat
  OBVIOUS
<1>2. k + 1 \in 1..(Len(s) + 1) /\ Len(s) \in (k + 1 - 1)..Len(s)
  BY <1>1
<1>3. t \in Seq(S) /\ Len(t) = IF k + 1 <= Len(s) THEN Len(s) - (k + 1) + 1 ELSE 0
  BY <1>2, SubSeqProperties
<1>4. \A i \in 1..(Len(s) - (k + 1) + 1) : t[i] = s[(k + 1) + i - 1]
  BY <1>2, SubSeqProperties
<1>5. DOMAIN t = 1..(Len(s) - k)
  BY <1>1, <1>3
<1>6. ASSUME NEW i \in 1..(Len(s) - k) PROVE t[i] = s[i + k] /\ i + k \in 1..Len(s)
  <2>1. (k + 1) + i - 1 = i + k /\ i + k \in 1..Len(s)
    BY <1>1
  <2> QED
    BY <1>1, <1>4, <2>1
<1>7. ASSUME NEW i \in 1..Len(s), i > k PROVE i - k \in DOMAIN t /\ t[i - k] = s[i]
  <2>1. i - k \in 1..(Len(s) - k) /\ (i - k) + k = i
    BY <1>1, <1>7
  <2> QED
    BY <1>5, <1>6, <2>1
<1> QED
  BY <1>1, <1>5, <1>6, <1>7

\* An answer ends the wait only with what the view configured, and leaves later requests.
LEMMA ClientCommitXInv ==
  ASSUME IInv, XInv, NEW v \in Window, NEW resized \in BOOLEAN, NEW k \in DOMAIN sent[v],
         ClientCommit(v, k, resized)
  PROVE  XInv'
<1>1. /\ sent' = [sent EXCEPT ![v] = SubSeq(sent[v], k + 1, Len(sent[v]))]
      /\ answered' = [answered EXCEPT ![v] = sent[v][k].serial]
      /\ rendered' = [rendered EXCEPT ![v] = sent[v][k].look]
      /\ UNCHANGED <<viewVars, scheduled, lastSerial>>
  BY DEF ClientCommit
<1>2. /\ sent[v] \in Seq(Request) /\ Len(sent[v]) \in Nat /\ k \in 1..Len(sent[v])
      /\ sent[v][k] \in Request /\ sent[v][k].serial \in Nat /\ sent[v][k].look \in State
  BY RequestTypes DEF XInv, Request
<1>3. SubSeq(sent[v], k + 1, Len(sent[v])) \in Seq(Request)
  BY <1>2
<1>4. XTypeInv'
  BY <1>1, <1>2, <1>3 DEF viewVars, XInv, XTypeInv
<1>5. /\ sent'[v] = SubSeq(sent[v], k + 1, Len(sent[v]))
      /\ answered'[v] = sent[v][k].serial /\ rendered'[v] = sent[v][k].look
      /\ UNCHANGED <<scheduled[v], lastSerial[v], configureSerial[v], configured[v]>>
  BY <1>1 DEF viewVars, XInv, XTypeInv
<1>6. /\ \A i \in DOMAIN sent'[v] : i + k \in DOMAIN sent[v] /\ i > 0 /\ i \in Nat /\ sent'[v][i] = sent[v][i + k]
      /\ \A i \in DOMAIN sent[v] : i > k => i - k \in DOMAIN sent'[v] /\ sent'[v][i - k] = sent[v][i]
  <2> DEFINE s == sent[v]
             t == sent'[v]
  <2>1. s \in Seq(Request) /\ k \in 1..Len(s) /\ t = SubSeq(s, k + 1, Len(s))
    BY <1>2, <1>5
  <2> HIDE DEF s, t
  <2>2. /\ \A i \in DOMAIN t : i + k \in DOMAIN s /\ i > 0 /\ i \in Nat /\ t[i] = s[i + k]
        /\ \A i \in DOMAIN s : i > k => i - k \in DOMAIN t /\ t[i - k] = s[i]
    BY <2>1, RestOfSequence
  <2> QED
    BY <2>2 DEF s, t
<1>8. ViewInv(v)
  BY DEF XInv
<1>9. /\ UNCHANGED <<status, committed, frozen>> /\ phase' # "COMMIT" /\ status[v] = "live"
      /\ \/ configuring' = configuring \ {v} /\ IsReady(v, sent[v][k].serial)
         \/ configuring' = configuring /\ ~IsReady(v, sent[v][k].serial)
  <2>1. LoopFree /\ phase # "COMMIT"
    BY DEF ClientCommit, LoopFree
  <2>2. CASE IsReady(v, sent[v][k].serial)
    BY <2>2 DEF ClientCommit, EndConfigure, Progress
  <2>3. CASE ~IsReady(v, sent[v][k].serial)
    BY <2>1, <2>3 DEF ClientCommit, Edit, vars, managerVars, nodeVars, windowVars
  <2> QED
    BY <2>2, <2>3
<1>10. ASSUME NEW w \in Window \ {v} PROVE ViewInv(w)'
  <2>1. Untouched(w)
    BY <1>1, <1>9, <1>10 DEF viewVars, XInv, XTypeInv, Untouched
  <2> QED
    BY <2>1, UntouchedKeeps DEF XInv
<1>11. /\ k \in DOMAIN sent[v] /\ k \in Nat /\ DOMAIN sent[v] \subseteq Nat
       /\ \A i \in DOMAIN sent[v] : sent[v][i].serial \in Nat
       /\ configureSerial[v] \in Nat /\ answered[v] \in Nat /\ lastSerial[v] \in Nat /\ scheduled[v] \in Nat
  BY <1>2, RequestTypes DEF XInv
<1>12. SerialInv(v)'
  <2>1. /\ scheduled'[v] \in {0, lastSerial'[v]}
        /\ configureSerial'[v] <= lastSerial'[v] /\ answered'[v] <= lastSerial'[v]
        /\ scheduled'[v] # 0 => answered'[v] < scheduled'[v]
    BY <1>5, <1>8, <1>11 DEF ViewInv, SerialInv
  <2>2. ASSUME NEW i \in DOMAIN sent'[v]
        PROVE  /\ answered'[v] < sent'[v][i].serial /\ sent'[v][i].serial <= lastSerial'[v]
               /\ scheduled'[v] # 0 => sent'[v][i].serial < scheduled'[v]
    <3>1. i + k \in DOMAIN sent[v] /\ k < i + k /\ sent'[v][i] = sent[v][i + k]
      BY <1>6, <1>11
    <3> QED
      BY <1>5, <1>8, <1>11, <3>1 DEF ViewInv, SerialInv
  <2>3. ASSUME NEW i \in DOMAIN sent'[v], NEW j \in DOMAIN sent'[v], i < j
        PROVE  sent'[v][i].serial < sent'[v][j].serial
    <3>1. i + k \in DOMAIN sent[v] /\ j + k \in DOMAIN sent[v] /\ i + k < j + k
      BY <1>6, <1>11, <2>3
    <3> QED
      BY <1>6, <1>8, <3>1 DEF ViewInv, SerialInv
  <2> QED
    BY <2>1, <2>2, <2>3 DEF SerialInv
<1>13. LookInv(v)'
  BY <1>5, <1>6, <1>8 DEF ViewInv, LookInv
<1>14. FrozenInv(v)'
  BY <1>5, <1>8, <1>9, <1>11 DEF ViewInv, SerialInv, LookInv, FrozenInv, IsReady
<1>15. ComingInv(v)'
  <2> SUFFICES ASSUME v \in configuring' PROVE
        \/ scheduled'[v] >= configureSerial'[v]
        \/ \E i \in DOMAIN sent'[v] : sent'[v][i].serial >= configureSerial'[v]
        \/ answered'[v] > configureSerial'[v]
    BY DEF ComingInv
  <2>1. v \in configuring /\ ~IsReady(v, sent[v][k].serial)
    BY <1>9
  <2>2. sent[v][k].serial # configureSerial[v]
    BY <1>8, <1>9, <1>11, <2>1 DEF IsReady, ViewInv, SerialInv
  <2>3. CASE scheduled[v] >= configureSerial[v]
    BY <1>5, <2>3
  <2>4. CASE answered[v] > configureSerial[v]
    BY <1>5, <1>8, <1>11, <2>4 DEF ViewInv, SerialInv
  <2>5. ASSUME NEW i \in DOMAIN sent[v], sent[v][i].serial >= configureSerial[v]
        PROVE  \/ answered'[v] > configureSerial'[v]
               \/ \E j \in DOMAIN sent'[v] : sent'[v][j].serial >= configureSerial'[v]
    <3>1. CASE i > k
      BY <1>5, <1>6, <2>5, <3>1
    <3>2. CASE i <= k
      <4>1. sent[v][i].serial <= sent[v][k].serial
        BY <1>8, <1>11, <3>2 DEF ViewInv, SerialInv
      <4> QED
        BY <1>5, <1>11, <2>2, <2>5, <4>1
    <3> QED
      BY <1>11, <3>1, <3>2
  <2> QED
    BY <1>8, <1>9, <2>1, <2>3, <2>4, <2>5 DEF ViewInv, ComingInv
<1> QED
  BY <1>4, <1>10, <1>12, <1>13, <1>14, <1>15 DEF XInv, ViewInv

\* The view of a dead window waits for nothing that could come.
LEMMA UnmapXInv ==
  ASSUME IInv, XInv, NEW v \in Window, Unmap(v)
  PROVE  XInv'
<1>1. /\ scheduled' = [scheduled EXCEPT ![v] = 0] /\ sent' = [sent EXCEPT ![v] = << >>]
      /\ UNCHANGED <<viewVars, lastSerial, answered, rendered>>
      /\ UNCHANGED <<phase, committed, frozen, configuring>>
      /\ status' = [status EXCEPT ![v] = "dead"]
  BY DEF Unmap, BeginDestroy, windowVars
<1>2. XTypeInv'
  BY <1>1 DEF viewVars, XInv, XTypeInv
<1>3. ASSUME NEW w \in Window \ {v} PROVE ViewInv(w)'
  <2>1. Untouched(w)
    BY <1>1, <1>3, WindowAssumption DEF viewVars, XInv, XTypeInv, IInv, TypeOK, Untouched
  <2> QED
    BY <2>1, UntouchedKeeps DEF XInv
<1>4. ViewInv(v) /\ sent'[v] = << >> /\ scheduled'[v] = 0 /\ status'[v] = "dead"
  BY <1>1, WindowAssumption DEF XInv, XTypeInv, IInv, TypeOK
<1>5. ViewInv(v)'
  BY <1>1, <1>4 DEF viewVars, ViewInv, SerialInv, LookInv, FrozenInv, ComingInv
<1> QED
  BY <1>2, <1>3, <1>5 DEF XInv

\* Every step of the views, their clients and the manager preserves the invariant.
LEMMA NextXInv == ASSUME IInv, XInv, [XNext]_xdgVars PROVE XInv'
<1>1. CASE ViewStep
  BY <1>1, XCommitWindowXInv, FocusChangedXInv, RequestFullscreenXInv, SendConfigureXInv,
     ClientCommitXInv, UnmapXInv DEF ViewStep
<1>2. CASE ManagerStep
  BY <1>2, ManagerStepXInv
<1>3. CASE UNCHANGED xdgVars
  <2>1. UNCHANGED <<viewVars, clientVars>> /\ UNCHANGED vars
    BY <1>3 DEF xdgVars
  <2>2. XTypeInv'
    BY <2>1 DEF viewVars, clientVars, XInv, XTypeInv
  <2>3. ASSUME NEW w \in Window PROVE ViewInv(w)'
    <3>1. Untouched(w)
      BY <2>1 DEF viewVars, clientVars, vars, managerVars, nodeVars, windowVars, Untouched
    <3> QED
      BY <3>1, UntouchedKeeps DEF XInv
  <2> QED
    BY <2>2, <2>3 DEF XInv
<1> QED
  BY <1>1, <1>2, <1>3 DEF XNext

-----------------------------------------------------------------------------
(* The theorems. *)

\* What the views remember of their requests is true of what their clients were sent and
\* have answered, in every reachable state.
THEOREM ViewsAreConsistent == XSpec => []XInv
<1>1. XInit => XInv
  BY InitXInv
<1>2. IInv /\ XInv /\ [XNext]_xdgVars => XInv'
  BY NextXInv
<1>3. XSpec => []IInv
  BY ViewsAreTransactional, Invariance
<1> QED
  BY <1>1, <1>2, <1>3, PTL DEF XSpec

\* Neither a late answer to a request of a transaction that timed out, nor the answer to a
\* request that a focus change scheduled, ends the wait of a window: one that stopped
\* holding up the transaction has drawn what was committed.
THEOREM AnswersAreCurrent == XSpec => []ReadyMeansRendered
<1>1. IInv /\ XInv => ReadyMeansRendered
  <2> SUFFICES ASSUME IInv, XInv, phase \in {"WAITING_CONFIRM", "APPLY"},
                      NEW w \in frozen \cap onApply, w \notin configuring, status[w] # "dead"
               PROVE  rendered[w] = committed[w]
    BY DEF ReadyMeansRendered
  <2>1. w \in Window /\ w \in Node /\ status[w] = "live"
    BY WindowAssumption DEF IInv, TypeOK, NodeInv, PhaseInv, ManagerInv
  <2> QED
    BY <2>1 DEF XInv, ViewInv, FrozenInv
<1>2. XSpec => []IInv
  BY ViewsAreTransactional, Invariance
<1> QED
  BY <1>1, <1>2, ViewsAreConsistent, PTL

\* No step withdraws the request that a view waits for: until its client answered a later
\* one, it is scheduled or was sent.
THEOREM AnswersCanCome == XSpec => []AnswerIsComing
<1>1. IInv /\ XInv => AnswerIsComing
  BY DEF IInv, TypeOK, XInv, ViewInv, ComingInv, AnswerIsComing
<1> QED
  BY <1>1, ViewsAreTransactional, Invariance, ViewsAreConsistent, PTL
=============================================================================

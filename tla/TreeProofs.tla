----------------------------- MODULE TreeProofs -----------------------------
(***************************************************************************)
(* Proofs about the window tree, for every set of windows, workspaces,     *)
(* columns and outputs, every arrangement of the outputs and every set of  *)
(* inputs.  The functions of the code are operators on a record, so most   *)
(* lemmas say what one of them makes of any record that satisfies the      *)
(* invariant, and a step follows from the lemmas on the functions that its *)
(* handler calls.                                                          *)
(***************************************************************************)
EXTENDS Tree, DataTheorems

-----------------------------------------------------------------------------
(* The invariant. *)

Fields ==
  {"workspaces", "activeWorkspace", "outputs", "activeOutput", "columns", "floating", "activeColumn",
   "focusMode", "children", "activeChild", "colWorkspace", "colOutput", "status", "workspace", "column",
   "output", "history", "fullscreen", "fullscreenWindows", "overlay", "focused", "dirty",
   "pWorkspace", "pColumns", "pFloating", "pChildren", "pShown", "pLook", "crashed"}

\* The two trees differ in no other field.
Same(t, r, changed) == DOMAIN r = Fields /\ \A f \in Fields \ changed : r[f] = t[f]

\* What is noted beside the tree: the focus, the marks and the copies.
Notes == {"overlay", "focused", "dirty", "crashed",
          "pWorkspace", "pColumns", "pFloating", "pChildren", "pShown", "pLook"}

TreeType(t) ==
  /\ DOMAIN t = Fields
  /\ t.workspaces \subseteq Workspace /\ t.activeWorkspace \in t.workspaces
  /\ t.columns \in [Workspace -> Seq(Column)] /\ t.floating \in [Workspace -> Seq(Window)]
  /\ t.activeColumn \in [Workspace -> Maybe(Column)]
  /\ t.focusMode \in [Workspace -> {"tiling", "floating"}]
  /\ t.children \in [Column -> Seq(Window)] /\ t.activeChild \in [Column -> Maybe(Window)]
  /\ t.colWorkspace \in [Column -> Maybe(Workspace)] /\ t.colOutput \in [Column -> Maybe(Output)]
  /\ t.workspace \in [Window -> Maybe(Workspace)] /\ t.column \in [Window -> Maybe(Column)]
NoteType(t) ==
  /\ t.overlay \in Maybe({"layer", "unmanaged"})
  /\ t.focused \in Maybe(Window) \cup {"layer", "unmanaged"}
  /\ t.dirty \subseteq Node
  /\ t.crashed \in BOOLEAN
OtherType(t) ==
  /\ t.outputs \in Seq(Output) /\ t.activeOutput \in Maybe(Outputs(t))
  /\ t.status \in [Window -> {"absent", "alive", "dead"}]
  /\ t.output \in [Window -> Maybe(Outputs(t))] /\ t.history \in [Window -> Seq(Outputs(t))]
  /\ t.fullscreen \subseteq Window /\ t.fullscreenWindows \in [Output -> Seq(Window)]
  /\ NoteType(t)

\* Lists and pointers agree, also for a workspace that is not there and a window that is
\* out of the tree while a handler runs.
PlaceInv(t) ==
  /\ \A s \in Workspace : IsInjective(t.columns[s]) /\ IsInjective(t.floating[s])
  /\ \A c \in Column : IsInjective(t.children[c])
  /\ \A w \in Window : \A c \in Column : w \in ToSet(t.children[c]) <=> t.column[w] = c
  /\ \A w \in Window : \A s \in Workspace :
       w \in ToSet(t.floating[s]) <=> t.workspace[w] = s /\ t.column[w] = None
  /\ \A w \in Window : t.column[w] # None =>
       t.workspace[w] \in Workspace /\ t.column[w] \in ToSet(t.columns[t.workspace[w]])
  /\ \A s \in Workspace : \A c \in ToSet(t.columns[s]) : t.colWorkspace[c] = s
  /\ \A s \in Workspace \ t.workspaces : t.columns[s] = << >> /\ t.floating[s] = << >>

\* The path of active nodes; also a column that is in no workspace has an active child
\* exactly if it has children.
PathInv(t) ==
  /\ \A s \in Workspace : /\ t.activeColumn[s] \in Maybe(ToSet(t.columns[s]))
                          /\ t.focusMode[s] = "floating" => t.floating[s] # << >>
  /\ \A c \in Column : IF t.children[c] = << >> THEN t.activeChild[c] = None
                       ELSE t.activeChild[c] \in ToSet(t.children[c])

\* Where windows are shown: a column is on an output that is there, a tiling window on the
\* output of its column unless it is fullscreen, and the history of a tiling window has its
\* output, next to which others are put in.  What has a place or a history is alive.
OutputInv(t) ==
  /\ \A s \in Workspace : \A c \in ToSet(t.columns[s]) : t.colOutput[c] \in Outputs(t)
  /\ \A w \in Window :
       /\ t.column[w] # None => t.output[w] \in ToSet(t.history[w])
       /\ t.column[w] # None /\ w \notin t.fullscreen => t.output[w] = t.colOutput[t.column[w]]
       /\ t.workspace[w] # None => t.history[w] # << >>
       /\ t.history[w] # << >> \/ w \in t.fullscreen => t.output[w] \in Outputs(t)
       /\ IsInjective(t.history[w])
       /\ t.history[w] # << >> => t.status[w] = "alive"
  /\ t.outputs # << >> => t.activeOutput \in Outputs(t)

Inv(t) == TreeType(t) /\ OtherType(t) /\ PlaceInv(t) /\ PathInv(t) /\ OutputInv(t)

\* Between handlers every window that is alive is in the tree.
Homed(t) == \A w \in Window : t.status[w] = "alive" => t.workspace[w] # None

-----------------------------------------------------------------------------
(* Lists. *)

LEMMA EmptyList ==
  ASSUME NEW S, NEW s \in Seq(S)
  PROVE  /\ ToSet(s) \subseteq S
         /\ s = << >> <=> ToSet(s) = {}
         /\ \A e : Contains(s, e) <=> e \in ToSet(s)
         /\ s # << >> => /\ Last(s) \in ToSet(s) /\ Head(s) \in ToSet(s)
                         /\ Len(s) \in 1..Len(s) /\ 1 \in 1..Len(s)
                         /\ s[1] \in ToSet(s)
<1>1. DOMAIN s = 1..Len(s) /\ Len(s) \in Nat /\ \A i \in 1..Len(s) : s[i] \in S
  OBVIOUS
<1>2. s = << >> <=> Len(s) = 0
  OBVIOUS
<1>3. s # << >> => Len(s) \in 1..Len(s) /\ 1 \in 1..Len(s)
  BY <1>1, <1>2
<1>4. ToSet(s) \subseteq S
  BY <1>1 DEF ToSet
<1>5. s = << >> => ToSet(s) = {}
  BY DEF ToSet
<1>6. s # << >> => s[1] \in ToSet(s) /\ s[Len(s)] \in ToSet(s)
  BY <1>1, <1>3 DEF ToSet
<1>7. s # << >> => Last(s) = s[Len(s)] /\ Head(s) = s[1]
  BY DEF Last
<1>8. \A e : Contains(s, e) <=> e \in ToSet(s)
  BY <1>1 DEF Contains, ToSet
<1> QED
  BY <1>3, <1>4, <1>5, <1>6, <1>7, <1>8

\* What a pointer to a position of a list finds.
LEMMA IndexFound ==
  ASSUME NEW S, NEW s \in Seq(S), NEW e, e \in ToSet(s)
  PROVE  IndexIn(s, e) \in 1..Len(s) /\ s[IndexIn(s, e)] = e
BY FirstPlace DEF IndexIn

\* RemoveFirst of a list, with or without repetitions.
LEMMA RemoveFirstType ==
  ASSUME NEW S, NEW s \in Seq(S), NEW e
  PROVE  RemoveFirst(s, e) \in Seq(S) /\ (e \notin ToSet(s) => RemoveFirst(s, e) = s)
<1>1. CASE e \notin ToSet(s)
  <2>1. RemoveFirst(s, e) = s
    BY <1>1 DEF RemoveFirst, ToSet
  <2> QED
    BY <2>1
<1>2. CASE e \in ToSet(s)
  <2> DEFINE i == SelectInSeq(s, LAMBDA x : x = e)
  <2>1. RemoveFirst(s, e) = RemoveAt(s, i)
    BY <1>2 DEF RemoveFirst, ToSet
  <2>2. i \in 1..Len(s) /\ s[i] = e
    BY <1>2, FirstPlace
  <2> HIDE DEF i
  <2> QED
    BY <1>2, <2>1, <2>2, RemoveAtElements
<1> QED
  BY <1>1, <1>2

\* The neighbours of an element of a list, if it has any, are other elements.
LEMMA Neighbours ==
  ASSUME NEW S, NEW s \in Seq(S), IsInjective(s), NEW e \in ToSet(s)
  PROVE  /\ NextIn(s, e) # None => NextIn(s, e) \in ToSet(s) \ {e}
         /\ PrevIn(s, e) # None => PrevIn(s, e) \in ToSet(s) \ {e}
<1> DEFINE i == IndexIn(s, e)
<1>1. i \in 1..Len(s) /\ s[i] = e
  BY IndexFound
<1> HIDE DEF i
<1>2. DOMAIN s = 1..Len(s) /\ Len(s) \in Nat
  OBVIOUS
<1>3. \A m, n \in 1..Len(s) : s[m] = s[n] => m = n
  BY <1>2 DEF IsInjective
<1>4. ASSUME i < Len(s)
      PROVE  s[i + 1] \in ToSet(s) \ {e}
  <2>1. i + 1 \in 1..Len(s) /\ i + 1 # i
    BY <1>1, <1>2, <1>4
  <2> QED
    BY <1>1, <1>2, <1>3, <2>1 DEF ToSet
<1>5. ASSUME i > 1
      PROVE  s[i - 1] \in ToSet(s) \ {e}
  <2>1. i - 1 \in 1..Len(s) /\ i - 1 # i
    BY <1>1, <1>2, <1>5
  <2> QED
    BY <1>1, <1>2, <1>3, <2>1 DEF ToSet
<1> QED
  BY <1>4, <1>5 DEF NextIn, PrevIn, i

\* The first and the last of some elements of a list, if there are any, are among them.
LEMMA PickedPlace ==
  ASSUME NEW S, NEW s \in Seq(S), NEW places \in SUBSET DOMAIN s
  PROVE  /\ places # {} => \E i \in places : FirstOf(s, places) = s[i]
         /\ places # {} => \E i \in places : LastOf(s, places) = s[i]
         /\ places = {} => FirstOf(s, places) = None /\ LastOf(s, places) = None
<1>1. DOMAIN s = 1..Len(s) /\ Len(s) \in Nat
  OBVIOUS
<1>2. ASSUME places # {}
      PROVE  Min(places) \in places /\ Max(places) \in places
  <2>1. places \in SUBSET Nat /\ places \in SUBSET Int /\ IsFiniteSet(places)
    <3>1. IsFiniteSet(1..Len(s))
      BY <1>1, FS_Interval
    <3> QED
      BY <1>1, <3>1, FS_Subset
  <2>2. \E n \in places : \A m \in places : n <= m
    BY <1>2, <2>1, LeastNumber
  <2>3. \E n \in places : \A m \in places : n >= m
    BY <1>2, <2>1, LargestNumber
  <2>4. Min(places) \in places
    BY <2>2 DEF Min
  <2>5. Max(places) \in places
    BY <2>3 DEF Max
  <2> QED
    BY <2>4, <2>5
<1> QED
  BY <1>2 DEF FirstOf, LastOf

LEMMA SingleList ==
  ASSUME NEW S, NEW e \in S
  PROVE  /\ <<e>> \in Seq(S) /\ <<e>> # << >> /\ ToSet(<<e>>) = {e} /\ IsInjective(<<e>>)
<1>1. <<e>> \in Seq(S) /\ Len(<<e>>) = 1 /\ <<e>>[1] = e /\ DOMAIN <<e>> = {1}
  OBVIOUS
<1>2. ToSet(<<e>>) = {e}
  BY <1>1 DEF ToSet
<1>3. IsInjective(<<e>>)
  BY <1>1 DEF IsInjective
<1> QED
  BY <1>1, <1>2, <1>3

-----------------------------------------------------------------------------
(* Functions that are changed in one place. *)

Put(f, x, v) == [f EXCEPT ![x] = v]

-----------------------------------------------------------------------------
(* What the fields depend on. *)

LEMMA SameSame ==
  ASSUME NEW t, NEW r, NEW q, NEW F, NEW G, Same(t, r, F), Same(r, q, G)
  PROVE  Same(t, q, F \cup G)
BY DEF Same

\* Notes are beside the tree.
LEMMA Quiet ==
  ASSUME NEW t, Inv(t), NEW r, Same(t, r, Notes), NoteType(r)
  PROVE  Inv(r)
<1>1. /\ DOMAIN r = Fields /\ r.workspaces = t.workspaces /\ r.activeWorkspace = t.activeWorkspace
      /\ r.columns = t.columns /\ r.floating = t.floating /\ r.activeColumn = t.activeColumn
      /\ r.focusMode = t.focusMode /\ r.children = t.children /\ r.activeChild = t.activeChild
      /\ r.colWorkspace = t.colWorkspace /\ r.colOutput = t.colOutput
      /\ r.workspace = t.workspace /\ r.column = t.column
      /\ r.outputs = t.outputs /\ r.activeOutput = t.activeOutput /\ r.status = t.status
      /\ r.output = t.output /\ r.history = t.history
      /\ r.fullscreen = t.fullscreen /\ r.fullscreenWindows = t.fullscreenWindows
  BY DEF Same, Fields, Notes
<1>2. TreeType(r)
  BY <1>1 DEF Inv, TreeType
<1>3. OtherType(r)
  BY <1>1 DEF Inv, OtherType, Outputs
<1>4. PlaceInv(r)
  BY <1>1 DEF Inv, PlaceInv
<1>5. PathInv(r)
  BY <1>1 DEF Inv, PathInv
<1>6. OutputInv(r)
  BY <1>1 DEF Inv, OutputInv, Outputs
<1> QED
  BY <1>2, <1>3, <1>4, <1>5, <1>6 DEF Inv

\* Marking nodes
LEMMA MarkEffect ==
  ASSUME NEW t, DOMAIN t = Fields, NEW nodes
  PROVE  LET r == Mark(t, nodes)
         IN  Same(t, r, {"dirty"}) /\ r.dirty = t.dirty \cup nodes
BY DEF Mark, Same, Fields

LEMMA MarkKeeps ==
  ASSUME NEW t, Inv(t), NEW nodes, nodes \subseteq Node
  PROVE  LET r == Mark(t, nodes)
         IN  Inv(r) /\ Same(t, r, {"dirty"})
<1> DEFINE r == Mark(t, nodes)
<1>1. DOMAIN t = Fields /\ NoteType(t)
  BY DEF Inv, TreeType, OtherType
<1>2. Same(t, r, {"dirty"}) /\ r.dirty = t.dirty \cup nodes
  BY <1>1, MarkEffect
<1> HIDE DEF r
<1>3. Same(t, r, Notes) /\ r.overlay = t.overlay /\ r.focused = t.focused /\ r.crashed = t.crashed
  BY <1>2 DEF Same, Notes, Fields
<1>4. NoteType(r)
  BY <1>1, <1>2, <1>3 DEF NoteType
<1> QED
  BY <1>2, <1>3, <1>4, Quiet DEF r

\* A window that handlers reconcile is shown on the output of its column, one that starts
\* to float on some output.
ShownAnew(r, w) ==
  /\ IF r.column[w] = None THEN r.output[w] \in Outputs(r)
                           ELSE r.output[w] = r.colOutput[r.column[w]]
  /\ r.history[w] = <<r.output[w]>> /\ r.status[w] = "alive"
ShownAsBefore(t, r, w) ==
  /\ r.output[w] = t.output[w] /\ r.history[w] = t.history[w]
  /\ r.column[w] \in {t.column[w], None} /\ (r.workspace[w] # None => t.history[w] # << >>)

\* Windows that stay where they are shown, or are reconciled with the column they are in.
LEMMA ShownStill ==
  ASSUME NEW t, Inv(t), NEW r, TreeType(r), NoteType(r), PlaceInv(r),
         r.outputs = t.outputs, r.activeOutput = t.activeOutput, r.colOutput = t.colOutput,
         r.status = t.status, r.fullscreen = t.fullscreen, r.fullscreenWindows = t.fullscreenWindows,
         \A s \in Workspace : ToSet(r.columns[s]) \subseteq ToSet(t.columns[s]),
         r.output = [x \in Window |-> r.output[x]], r.history = [x \in Window |-> r.history[x]],
         \A w \in Window : ShownAnew(r, w) \/ ShownAsBefore(t, r, w)
  PROVE  OtherType(r) /\ OutputInv(r)
<1>1. Outputs(r) = Outputs(t)
  BY DEF Outputs
<1>2. \A s \in Workspace : \A c \in ToSet(r.columns[s]) : r.colOutput[c] \in Outputs(r)
  BY <1>1 DEF Inv, OutputInv
<1>3. ASSUME NEW w \in Window
      PROVE  /\ r.output[w] \in Maybe(Outputs(r)) /\ r.history[w] \in Seq(Outputs(r))
             /\ r.column[w] # None => r.output[w] \in ToSet(r.history[w])
             /\ r.column[w] # None /\ w \notin r.fullscreen => r.output[w] = r.colOutput[r.column[w]]
             /\ r.workspace[w] # None => r.history[w] # << >>
             /\ r.history[w] # << >> \/ w \in r.fullscreen => r.output[w] \in Outputs(r)
             /\ IsInjective(r.history[w])
             /\ r.history[w] # << >> => r.status[w] = "alive"
  <2>1. CASE ShownAnew(r, w)
    <3>1. r.column[w] # None => r.column[w] \in ToSet(r.columns[r.workspace[w]]) /\ r.workspace[w] \in Workspace
      BY DEF PlaceInv
    <3>2. r.output[w] \in Outputs(r)
      BY <1>2, <2>1, <3>1 DEF ShownAnew
    <3>3. r.history[w] \in Seq(Outputs(r)) /\ r.history[w] # << >> /\ r.output[w] \in ToSet(r.history[w])
          /\ IsInjective(r.history[w])
      BY <2>1, <3>2, SingleList DEF ShownAnew
    <3> QED
      BY <2>1, <3>2, <3>3 DEF ShownAnew, Maybe
  <2>2. CASE ShownAsBefore(t, r, w)
    <3>1. /\ t.output[w] \in Maybe(Outputs(t)) /\ t.history[w] \in Seq(Outputs(t))
          /\ t.column[w] # None => t.output[w] \in ToSet(t.history[w])
          /\ t.column[w] # None /\ w \notin t.fullscreen => t.output[w] = t.colOutput[t.column[w]]
          /\ t.history[w] # << >> \/ w \in t.fullscreen => t.output[w] \in Outputs(t)
          /\ IsInjective(t.history[w])
          /\ t.history[w] # << >> => t.status[w] = "alive"
      BY DEF Inv, OtherType, OutputInv
    <3> QED
      BY <1>1, <2>2, <3>1 DEF ShownAsBefore
  <2> QED
    BY <2>1, <2>2
<1>4. OtherType(r)
  <2>1. /\ t.outputs \in Seq(Output) /\ t.activeOutput \in Maybe(Outputs(t))
        /\ t.status \in [Window -> {"absent", "alive", "dead"}]
        /\ t.fullscreen \subseteq Window /\ t.fullscreenWindows \in [Output -> Seq(Window)]
    BY DEF Inv, OtherType
  <2>2. r.output \in [Window -> Maybe(Outputs(r))] /\ r.history \in [Window -> Seq(Outputs(r))]
    BY <1>3
  <2> QED
    BY <1>1, <2>1, <2>2 DEF OtherType
<1>5. r.outputs # << >> => r.activeOutput \in Outputs(r)
  BY <1>1 DEF Inv, OutputInv
<1> QED
  BY <1>2, <1>3, <1>4, <1>5 DEF OutputInv

-----------------------------------------------------------------------------
(* Windows are reconciled with where they are put. *)

LEMMA ReconcileTilingEffect ==
  ASSUME NEW t, DOMAIN t = Fields, NEW w, NEW c
  PROVE  LET r == ReconcileTiling(t, w, c)
         IN  /\ Same(t, r, {"workspace", "column", "history", "output", "dirty"})
             /\ r.workspace = Put(t.workspace, w, t.colWorkspace[c])
             /\ r.column = Put(t.column, w, c)
             /\ r.history = Put(t.history, w, <<t.colOutput[c]>>)
             /\ r.output = Put(t.output, w, t.colOutput[c])
             /\ r.dirty = t.dirty \cup {w}
BY DEF ReconcileTiling, Same, Fields, Put

LEMMA ReconcileFloatingEffect ==
  ASSUME NEW t, DOMAIN t = Fields, NEW w, NEW s
  PROVE  LET r == ReconcileFloating(t, w, s)
         IN  /\ Same(t, r, {"workspace", "column", "dirty"})
             /\ r.workspace = Put(t.workspace, w, s)
             /\ r.column = Put(t.column, w, None)
             /\ r.dirty = t.dirty \cup {w}
BY DEF ReconcileFloating, Same, Fields, Put

LEMMA ReconcileDetachedEffect ==
  ASSUME NEW t, DOMAIN t = Fields, NEW w
  PROVE  LET r == ReconcileDetached(t, w)
         IN  /\ Same(t, r, {"workspace", "column", "dirty"})
             /\ r.workspace = Put(t.workspace, w, None)
             /\ r.column = Put(t.column, w, None)
             /\ r.dirty = t.dirty \cup {w}
BY DEF ReconcileDetached, Same, Fields, Put

\* A window of a column is in the workspace that the column is in.
LEMMA ChildHome ==
  ASSUME NEW t, Inv(t), NEW w \in Window, NEW c \in Column, t.column[w] = c
  PROVE  /\ c # None /\ w \in ToSet(t.children[c]) /\ t.children[c] # << >>
         /\ t.workspace[w] \in t.workspaces /\ t.workspace[w] \in Workspace /\ t.workspace[w] # None
         /\ t.colWorkspace[c] = t.workspace[w] /\ c \in ToSet(t.columns[t.workspace[w]])
<1>1. PlaceInv(t) /\ TreeType(t)
  BY DEF Inv
<1>2. c # None /\ None \notin Workspace
  BY NodesAssumption
<1>3. t.workspace[w] \in Workspace /\ c \in ToSet(t.columns[t.workspace[w]]) /\ w \in ToSet(t.children[c])
  BY <1>1, <1>2 DEF PlaceInv
<1>4. t.colWorkspace[c] = t.workspace[w]
  BY <1>1, <1>3 DEF PlaceInv
<1>5. t.children[c] # << >> /\ t.columns[t.workspace[w]] # << >>
  BY <1>3 DEF ToSet
<1>6. t.workspace[w] \in t.workspaces
  BY <1>1, <1>3, <1>5 DEF PlaceInv
<1> QED
  BY <1>2, <1>3, <1>4, <1>5, <1>6

\* A floating window is in a workspace that is there.
LEMMA FloatingHome ==
  ASSUME NEW t, Inv(t), NEW w \in Window, NEW s \in Workspace, t.workspace[w] = s, t.column[w] = None
  PROVE  w \in ToSet(t.floating[s]) /\ t.floating[s] # << >> /\ s \in t.workspaces
<1>1. w \in ToSet(t.floating[s])
  BY DEF Inv, PlaceInv
<1>2. t.floating[s] # << >>
  BY <1>1 DEF ToSet
<1> QED
  BY <1>1, <1>2 DEF Inv, PlaceInv

\* A window that is in the tree is in a workspace that is there.
LEMMA WindowHome ==
  ASSUME NEW t, Inv(t), NEW w \in Window
  PROVE  /\ t.workspace[w] # None <=> t.workspace[w] \in t.workspaces
         /\ t.workspace[w] # None => t.workspace[w] \in Workspace
         /\ t.workspace[w] = None => t.column[w] = None
<1>1. t.workspace[w] \in Maybe(Workspace) /\ t.column[w] \in Maybe(Column) /\ t.workspaces \subseteq Workspace
  BY DEF Inv, TreeType
<1>2. None \notin Workspace /\ None \notin Column
  BY NodesAssumption
<1>3. CASE t.column[w] # None
  BY <1>1, <1>2, <1>3, ChildHome DEF Maybe
<1>4. CASE t.column[w] = None
  BY <1>1, <1>2, <1>4, FloatingHome DEF Maybe
<1> QED
  BY <1>3, <1>4

\* A window that is in a column is reconciled with it: only where it is shown may change.
LEMMA ReconcileTilingKeeps ==
  ASSUME NEW t, Inv(t), NEW w \in Window, NEW c \in Column, t.column[w] = c
  PROVE  LET r == ReconcileTiling(t, w, c)
         IN  Inv(r) /\ Same(t, r, {"history", "output", "dirty"})
<1> DEFINE r == ReconcileTiling(t, w, c)
<1>1. DOMAIN t = Fields /\ TreeType(t) /\ PlaceInv(t) /\ PathInv(t) /\ OtherType(t)
  BY DEF Inv, TreeType
<1>2. /\ Same(t, r, {"workspace", "column", "history", "output", "dirty"})
      /\ r.workspace = Put(t.workspace, w, t.colWorkspace[c])
      /\ r.column = Put(t.column, w, c)
      /\ r.history = Put(t.history, w, <<t.colOutput[c]>>)
      /\ r.output = Put(t.output, w, t.colOutput[c])
      /\ r.dirty = t.dirty \cup {w}
  BY <1>1, ReconcileTilingEffect
<1> HIDE DEF r
<1>3. t.workspace[w] = t.colWorkspace[c]
  BY ChildHome
<1>4. r.workspace = t.workspace /\ r.column = t.column
  <2>1. t.workspace \in [Window -> Maybe(Workspace)] /\ t.column \in [Window -> Maybe(Column)]
    BY <1>1 DEF TreeType
  <2> QED
    BY <1>2, <1>3, <2>1 DEF Put
<1>5. Same(t, r, {"history", "output", "dirty"})
  BY <1>2, <1>4 DEF Same
<1>6. /\ DOMAIN r = Fields /\ r.workspaces = t.workspaces /\ r.activeWorkspace = t.activeWorkspace
      /\ r.columns = t.columns /\ r.floating = t.floating /\ r.activeColumn = t.activeColumn
      /\ r.focusMode = t.focusMode /\ r.children = t.children /\ r.activeChild = t.activeChild
      /\ r.colWorkspace = t.colWorkspace /\ r.colOutput = t.colOutput
      /\ r.outputs = t.outputs /\ r.activeOutput = t.activeOutput /\ r.status = t.status
      /\ r.fullscreen = t.fullscreen /\ r.fullscreenWindows = t.fullscreenWindows
      /\ r.overlay = t.overlay /\ r.focused = t.focused /\ r.crashed = t.crashed
  BY <1>5 DEF Same, Fields, Put
<1>7. TreeType(r)
  BY <1>1, <1>4, <1>6 DEF TreeType
<1>8. PlaceInv(r)
  BY <1>1, <1>4, <1>6 DEF PlaceInv
<1>9. PathInv(r)
  BY <1>1, <1>4, <1>6 DEF PathInv
<1>10. NoteType(r)
  BY <1>1, <1>2, <1>6 DEF NoteType, OtherType, Node
<1>11. c # None /\ t.status[w] = "alive"
  <2>1. c # None /\ t.workspace[w] # None
    BY ChildHome
  <2> QED
    BY <2>1 DEF Inv, OutputInv
<1>12. \A x \in Window : ShownAnew(r, x) \/ ShownAsBefore(t, r, x)
  <2> SUFFICES ASSUME NEW x \in Window PROVE ShownAnew(r, x) \/ ShownAsBefore(t, r, x)
    OBVIOUS
  <2>0. t.output \in [Window -> Maybe(Outputs(t))] /\ t.history \in [Window -> Seq(Outputs(t))]
    BY <1>1 DEF OtherType
  <2>1. CASE x = w
    BY <1>1, <1>2, <1>4, <1>6, <1>11, <2>0, <2>1 DEF Put, ShownAnew
  <2>2. CASE x # w
    BY <1>1, <1>2, <1>4, <2>0, <2>2 DEF Put, ShownAsBefore, Inv, OutputInv
  <2> QED
    BY <2>1, <2>2
<1>13. r.output = [x \in Window |-> r.output[x]] /\ r.history = [x \in Window |-> r.history[x]]
  BY <1>1, <1>2 DEF Put, OtherType
<1>14. OtherType(r) /\ OutputInv(r)
  BY <1>6, <1>7, <1>8, <1>10, <1>12, <1>13, ShownStill
<1> QED
  BY <1>5, <1>7, <1>8, <1>9, <1>14 DEF Inv, r

LEMMA ReconcileFloatingKeeps ==
  ASSUME NEW t, Inv(t), NEW w \in Window, NEW s \in Workspace, w \in ToSet(t.floating[s])
  PROVE  LET r == ReconcileFloating(t, w, s)
         IN  Inv(r) /\ Same(t, r, {"dirty"})
<1> DEFINE r == ReconcileFloating(t, w, s)
<1>1. DOMAIN t = Fields /\ TreeType(t) /\ NoteType(t) /\ t.workspace[w] = s /\ t.column[w] = None
  BY DEF Inv, TreeType, OtherType, PlaceInv
<1>2. /\ Same(t, r, {"workspace", "column", "dirty"})
      /\ r.workspace = Put(t.workspace, w, s) /\ r.column = Put(t.column, w, None)
      /\ r.dirty = t.dirty \cup {w}
  BY <1>1, ReconcileFloatingEffect
<1> HIDE DEF r
<1>3. r.workspace = t.workspace /\ r.column = t.column
  <2>1. t.workspace \in [Window -> Maybe(Workspace)] /\ t.column \in [Window -> Maybe(Column)]
    BY <1>1 DEF TreeType
  <2> QED
    BY <1>1, <1>2, <2>1 DEF Put
<1>4. Same(t, r, {"dirty"})
  BY <1>2, <1>3 DEF Same
<1>5. Same(t, r, Notes) /\ r.overlay = t.overlay /\ r.focused = t.focused /\ r.crashed = t.crashed
  BY <1>4 DEF Same, Notes, Fields
<1>6. NoteType(r)
  BY <1>1, <1>2, <1>5 DEF NoteType, Node
<1> QED
  BY <1>4, <1>5, <1>6, Quiet DEF r

-----------------------------------------------------------------------------
(* Windows are put into columns and taken from them. *)

ColumnFields == {"children", "activeChild", "workspace", "column", "history", "output", "dirty"}

\* A window that was out of the tree is listed by a column.
LEMMA ChildPut ==
  ASSUME NEW t, Inv(t), NEW w \in Window, t.workspace[w] = None,
         NEW c \in Column, NEW s \in Workspace, c \in ToSet(t.columns[s]),
         NEW q \in Seq(Window), IsInjective(q), ToSet(q) = ToSet(t.children[c]) \cup {w},
         NEW r, Same(t, r, ColumnFields),
         r.children = Put(t.children, c, q),
         r.activeChild = IF t.children[c] = << >> THEN Put(t.activeChild, c, w) ELSE t.activeChild,
         r.workspace = Put(t.workspace, w, s),
         r.column = Put(t.column, w, c)
  PROVE  TreeType(r) /\ PlaceInv(r) /\ PathInv(r)
<1>1. /\ DOMAIN r = Fields /\ r.workspaces = t.workspaces /\ r.activeWorkspace = t.activeWorkspace
      /\ r.columns = t.columns /\ r.floating = t.floating /\ r.activeColumn = t.activeColumn
      /\ r.focusMode = t.focusMode /\ r.colWorkspace = t.colWorkspace /\ r.colOutput = t.colOutput
  BY DEF Same, Fields, ColumnFields
<1>2. TreeType(t) /\ PlaceInv(t) /\ PathInv(t)
  BY DEF Inv
<1>3. /\ t.children \in [Column -> Seq(Window)] /\ t.activeChild \in [Column -> Maybe(Window)]
      /\ t.workspace \in [Window -> Maybe(Workspace)] /\ t.column \in [Window -> Maybe(Column)]
  BY <1>2 DEF TreeType
<1>4. c # None /\ s # None /\ t.column[w] = None /\ w # None
  BY NodesAssumption, WindowHome
<1>5. TreeType(r)
  <2>1. r.children \in [Column -> Seq(Window)]
    BY <1>3 DEF Put
  <2>2. r.activeChild \in [Column -> Maybe(Window)]
    BY <1>3 DEF Put, Maybe
  <2>3. r.workspace \in [Window -> Maybe(Workspace)] /\ r.column \in [Window -> Maybe(Column)]
    BY <1>3 DEF Put, Maybe
  <2> QED
    BY <1>1, <1>2, <2>1, <2>2, <2>3 DEF TreeType
<1>6. \A x \in Window : /\ r.workspace[x] = IF x = w THEN s ELSE t.workspace[x]
                        /\ r.column[x] = IF x = w THEN c ELSE t.column[x]
  BY <1>3 DEF Put
<1>7. \A d \in Column : r.children[d] = IF d = c THEN q ELSE t.children[d]
  BY <1>3 DEF Put
<1>8. PlaceInv(r)
  <2>1. \A d \in Column : IsInjective(r.children[d])
    BY <1>2, <1>7 DEF PlaceInv
  <2>2. ASSUME NEW x \in Window, NEW d \in Column
        PROVE  x \in ToSet(r.children[d]) <=> r.column[x] = d
    <3>1. x \in ToSet(t.children[d]) <=> t.column[x] = d
      BY <1>2 DEF PlaceInv
    <3>2. d # None
      BY NodesAssumption
    <3> QED
      BY <1>4, <1>6, <1>7, <3>1, <3>2
  <2>3. ASSUME NEW x \in Window, NEW u \in Workspace
        PROVE  x \in ToSet(r.floating[u]) <=> r.workspace[x] = u /\ r.column[x] = None
    <3>1. x \in ToSet(t.floating[u]) <=> t.workspace[x] = u /\ t.column[x] = None
      BY <1>2 DEF PlaceInv
    <3>2. u # None
      BY NodesAssumption
    <3> QED
      BY <1>1, <1>4, <1>6, <3>1, <3>2
  <2>4. ASSUME NEW x \in Window, r.column[x] # None
        PROVE  r.workspace[x] \in Workspace /\ r.column[x] \in ToSet(r.columns[r.workspace[x]])
    BY <1>1, <1>2, <1>6, <2>4 DEF PlaceInv
  <2> QED
    BY <1>1, <1>2, <2>1, <2>2, <2>3, <2>4 DEF PlaceInv
<1>9. PathInv(r)
  <2>1. ASSUME NEW d \in Column
        PROVE  IF r.children[d] = << >> THEN r.activeChild[d] = None
               ELSE r.activeChild[d] \in ToSet(r.children[d])
    <3>1. IF t.children[d] = << >> THEN t.activeChild[d] = None
          ELSE t.activeChild[d] \in ToSet(t.children[d])
      BY <1>2 DEF PathInv
    <3>2. q # << >>
      BY EmptyList
    <3>3. CASE d = c
      BY <1>3, <1>7, <3>1, <3>2, <3>3 DEF Put
    <3>4. CASE d # c
      BY <1>3, <1>7, <3>1, <3>4 DEF Put
    <3> QED
      BY <3>3, <3>4
  <2> QED
    BY <1>1, <1>2, <2>1 DEF PathInv
<1> QED
  BY <1>5, <1>8, <1>9

\* A window is taken from the list of its column: the next active child is another child.
LEMMA ChildTake ==
  ASSUME NEW t, Inv(t), NEW w \in Window, NEW c \in Column, t.column[w] = c, NEW next,
         LET rest == RemoveFirst(t.children[c], w)
         IN  IF rest = << >> THEN next = None ELSE next \in ToSet(rest),
         NEW r, Same(t, r, ColumnFields),
         r.children = Put(t.children, c, RemoveFirst(t.children[c], w)),
         r.activeChild = Put(t.activeChild, c, IF t.activeChild[c] = w THEN next ELSE t.activeChild[c]),
         r.workspace = Put(t.workspace, w, None),
         r.column = Put(t.column, w, None)
  PROVE  TreeType(r) /\ PlaceInv(r) /\ PathInv(r)
<1> DEFINE q == RemoveFirst(t.children[c], w)
<1>1. /\ DOMAIN r = Fields /\ r.workspaces = t.workspaces /\ r.activeWorkspace = t.activeWorkspace
      /\ r.columns = t.columns /\ r.floating = t.floating /\ r.activeColumn = t.activeColumn
      /\ r.focusMode = t.focusMode /\ r.colWorkspace = t.colWorkspace /\ r.colOutput = t.colOutput
  BY DEF Same, Fields, ColumnFields
<1>2. TreeType(t) /\ PlaceInv(t) /\ PathInv(t)
  BY DEF Inv
<1>3. /\ t.children \in [Column -> Seq(Window)] /\ t.activeChild \in [Column -> Maybe(Window)]
      /\ t.workspace \in [Window -> Maybe(Workspace)] /\ t.column \in [Window -> Maybe(Column)]
  BY <1>2 DEF TreeType
<1>4. c # None /\ t.children[c] # << >> /\ IsInjective(t.children[c])
  BY <1>2, ChildHome DEF PlaceInv
<1>5. q \in Seq(Window) /\ IsInjective(q) /\ ToSet(q) = ToSet(t.children[c]) \ {w}
  BY <1>3, <1>4, RemoveFirstSet
<1>q. IF q = << >> THEN next = None ELSE next \in ToSet(q)
  OBVIOUS
<1>f. r.children = Put(t.children, c, q)
  OBVIOUS
<1> HIDE DEF q
<1>6. TreeType(r)
  <2>1. r.children \in [Column -> Seq(Window)]
    BY <1>3, <1>5, <1>f DEF Put
  <2>2. next \in Maybe(Window)
    BY <1>5, <1>q, EmptyList DEF Maybe
  <2>3. r.activeChild \in [Column -> Maybe(Window)]
    BY <1>3, <2>2 DEF Put
  <2>4. r.workspace \in [Window -> Maybe(Workspace)] /\ r.column \in [Window -> Maybe(Column)]
    BY <1>3 DEF Put, Maybe
  <2> QED
    BY <1>1, <1>2, <2>1, <2>3, <2>4 DEF TreeType
<1>7. \A x \in Window : /\ r.workspace[x] = IF x = w THEN None ELSE t.workspace[x]
                        /\ r.column[x] = IF x = w THEN None ELSE t.column[x]
  BY <1>3 DEF Put
<1>8. \A d \in Column : r.children[d] = IF d = c THEN q ELSE t.children[d]
  BY <1>3, <1>f DEF Put
<1>9. PlaceInv(r)
  <2>1. \A d \in Column : IsInjective(r.children[d])
    BY <1>2, <1>5, <1>8 DEF PlaceInv
  <2>2. ASSUME NEW x \in Window, NEW d \in Column
        PROVE  x \in ToSet(r.children[d]) <=> r.column[x] = d
    <3>1. x \in ToSet(t.children[d]) <=> t.column[x] = d
      BY <1>2 DEF PlaceInv
    <3>2. d # None
      BY NodesAssumption
    <3> QED
      BY <1>4, <1>5, <1>7, <1>8, <3>1, <3>2
  <2>3. ASSUME NEW x \in Window, NEW u \in Workspace
        PROVE  x \in ToSet(r.floating[u]) <=> r.workspace[x] = u /\ r.column[x] = None
    <3>1. x \in ToSet(t.floating[u]) <=> t.workspace[x] = u /\ t.column[x] = None
      BY <1>2 DEF PlaceInv
    <3>2. u # None
      BY NodesAssumption
    <3> QED
      BY <1>1, <1>4, <1>7, <3>1, <3>2
  <2>4. ASSUME NEW x \in Window, r.column[x] # None
        PROVE  r.workspace[x] \in Workspace /\ r.column[x] \in ToSet(r.columns[r.workspace[x]])
    BY <1>1, <1>2, <1>7, <2>4 DEF PlaceInv
  <2> QED
    BY <1>1, <1>2, <2>1, <2>2, <2>3, <2>4 DEF PlaceInv
<1>10. PathInv(r)
  <2>1. ASSUME NEW d \in Column
        PROVE  IF r.children[d] = << >> THEN r.activeChild[d] = None
               ELSE r.activeChild[d] \in ToSet(r.children[d])
    <3>1. IF t.children[d] = << >> THEN t.activeChild[d] = None
          ELSE t.activeChild[d] \in ToSet(t.children[d])
      BY <1>2 DEF PathInv
    <3>2. CASE d = c
      <4>1. q = << >> <=> ToSet(q) = {}
        BY <1>5, EmptyList
      <4>2. r.activeChild[d] = IF t.activeChild[d] = w THEN next ELSE t.activeChild[d]
        BY <1>3, <3>2 DEF Put
      <4>3. w # None
        BY NodesAssumption
      <4> QED
        BY <1>4, <1>5, <1>8, <1>q, <3>1, <3>2, <4>1, <4>2, <4>3
    <3>3. CASE d # c
      BY <1>3, <1>8, <3>1, <3>3 DEF Put
    <3> QED
      BY <3>2, <3>3
  <2> QED
    BY <1>1, <1>2, <2>1 DEF PathInv
<1> QED
  BY <1>6, <1>9, <1>10

\* A window that was out of the tree has become a child of a column.
Joins(t, r, w, s, c, list) ==
  /\ Same(t, r, ColumnFields)
  /\ r.children = Put(t.children, c, list)
  /\ r.activeChild = IF t.children[c] = << >> THEN Put(t.activeChild, c, w) ELSE t.activeChild
  /\ r.workspace = Put(t.workspace, w, s)
  /\ r.column = Put(t.column, w, c)
  /\ r.history = Put(t.history, w, <<t.colOutput[c]>>)
  /\ r.output = Put(t.output, w, t.colOutput[c])
  /\ r.dirty = t.dirty \cup {w, c}

\* Where a window belongs is all that changed of where windows belong.
Moved(t, r, w, s, c) == r.workspace = Put(t.workspace, w, s) /\ r.column = Put(t.column, w, c)

LEMMA JoinsKeeps ==
  ASSUME NEW t, Inv(t), NEW w \in Window, t.workspace[w] = None, t.status[w] = "alive",
         NEW c \in Column, NEW s \in Workspace, c \in ToSet(t.columns[s]),
         NEW q \in Seq(Window), IsInjective(q), ToSet(q) = ToSet(t.children[c]) \cup {w},
         NEW r, Joins(t, r, w, s, c, q)
  PROVE  Inv(r) /\ Same(t, r, ColumnFields) /\ Moved(t, r, w, s, c)
<1>1. TreeType(t) /\ OtherType(t) /\ PlaceInv(t) /\ DOMAIN t = Fields
  BY DEF Inv, TreeType
<1>3. /\ Same(t, r, ColumnFields)
      /\ r.children = Put(t.children, c, q)
      /\ r.activeChild = IF t.children[c] = << >> THEN Put(t.activeChild, c, w) ELSE t.activeChild
      /\ r.workspace = Put(t.workspace, w, s)
      /\ r.column = Put(t.column, w, c)
      /\ r.history = Put(t.history, w, <<t.colOutput[c]>>)
      /\ r.output = Put(t.output, w, t.colOutput[c])
      /\ r.dirty = t.dirty \cup {w, c}
  BY DEF Joins
<1>6. TreeType(r) /\ PlaceInv(r) /\ PathInv(r)
  BY <1>3, ChildPut
<1>7. /\ r.outputs = t.outputs /\ r.activeOutput = t.activeOutput /\ r.colOutput = t.colOutput
      /\ r.status = t.status /\ r.fullscreen = t.fullscreen /\ r.fullscreenWindows = t.fullscreenWindows
      /\ r.columns = t.columns /\ r.overlay = t.overlay /\ r.focused = t.focused /\ r.crashed = t.crashed
  BY <1>3 DEF Same, Fields, ColumnFields
<1>8. NoteType(r)
  BY <1>1, <1>3, <1>7 DEF NoteType, OtherType, Node
<1>9. \A x \in Window : ShownAnew(r, x) \/ ShownAsBefore(t, r, x)
  <2> SUFFICES ASSUME NEW x \in Window PROVE ShownAnew(r, x) \/ ShownAsBefore(t, r, x)
    OBVIOUS
  <2>0. /\ t.output \in [Window -> Maybe(Outputs(t))] /\ t.history \in [Window -> Seq(Outputs(t))]
        /\ t.workspace \in [Window -> Maybe(Workspace)] /\ t.column \in [Window -> Maybe(Column)]
    BY <1>1 DEF OtherType, TreeType
  <2>1. CASE x = w
    <3>1. c # None
      BY NodesAssumption
    <3> QED
      BY <1>3, <1>7, <2>0, <2>1, <3>1 DEF Put, ShownAnew
  <2>2. CASE x # w
    BY <1>3, <2>0, <2>2 DEF Put, ShownAsBefore, Inv, OutputInv
  <2> QED
    BY <2>1, <2>2
<1>10. r.output = [x \in Window |-> r.output[x]] /\ r.history = [x \in Window |-> r.history[x]]
  BY <1>1, <1>3 DEF Put, OtherType
<1>11. OtherType(r) /\ OutputInv(r)
  BY <1>6, <1>7, <1>8, <1>9, <1>10, ShownStill
<1> QED
  BY <1>3, <1>6, <1>11 DEF Inv, Moved

LEMMA InsertChildJoins ==
  ASSUME NEW t, DOMAIN t = Fields, NEW c, NEW w, NEW i
  PROVE  Joins(t, InsertChild(t, c, w, i), w, t.colWorkspace[c], c, InsertAt(t.children[c], i, w))
<1> DEFINE first == IF t.children[c] = << >> THEN [t EXCEPT !.activeChild[c] = w] ELSE t
           listed == [first EXCEPT !.children[c] = InsertAt(@, i, w)]
           placed == ReconcileTiling(listed, w, c)
           r == Mark(placed, {c})
<1>1. /\ Same(t, first, {"activeChild"})
      /\ first.activeChild = IF t.children[c] = << >> THEN Put(t.activeChild, c, w) ELSE t.activeChild
  BY DEF Same, Fields, Put
<1> HIDE DEF first
<1>2. Same(first, listed, {"children"}) /\ listed.children = Put(first.children, c, InsertAt(first.children[c], i, w))
  BY <1>1 DEF Same, Fields, Put
<1> HIDE DEF listed
<1>3. /\ Same(t, listed, {"children", "activeChild"}) /\ DOMAIN listed = Fields
      /\ listed.children = Put(t.children, c, InsertAt(t.children[c], i, w))
      /\ listed.activeChild = IF t.children[c] = << >> THEN Put(t.activeChild, c, w) ELSE t.activeChild
  BY <1>1, <1>2 DEF Same, Fields, Put
<1>4. /\ Same(listed, placed, {"workspace", "column", "history", "output", "dirty"})
      /\ placed.workspace = Put(listed.workspace, w, listed.colWorkspace[c])
      /\ placed.column = Put(listed.column, w, c)
      /\ placed.history = Put(listed.history, w, <<listed.colOutput[c]>>)
      /\ placed.output = Put(listed.output, w, listed.colOutput[c])
      /\ placed.dirty = listed.dirty \cup {w}
  BY <1>3, ReconcileTilingEffect
<1> HIDE DEF placed
<1>5. Same(placed, r, {"dirty"}) /\ r.dirty = placed.dirty \cup {c}
  BY <1>4, MarkEffect DEF Same
<1> HIDE DEF r
<1>6. Same(t, r, ColumnFields)
  BY <1>3, <1>4, <1>5 DEF Same, ColumnFields
<1>7. /\ listed.workspace = t.workspace /\ listed.colWorkspace = t.colWorkspace
      /\ listed.column = t.column /\ listed.history = t.history /\ listed.colOutput = t.colOutput
      /\ listed.output = t.output /\ listed.dirty = t.dirty
  BY <1>3 DEF Same, Fields, Put
<1>8. /\ r.children = listed.children /\ r.activeChild = listed.activeChild
      /\ r.workspace = placed.workspace /\ r.column = placed.column
      /\ r.history = placed.history /\ r.output = placed.output
  BY <1>4, <1>5 DEF Same, Fields, Put
<1>9. InsertChild(t, c, w, i) = r
  BY DEF InsertChild, first, listed, placed, r
<1>10. Joins(t, r, w, t.colWorkspace[c], c, InsertAt(t.children[c], i, w))
  BY <1>3, <1>4, <1>5, <1>6, <1>7, <1>8 DEF Joins
<1> QED
  BY <1>9, <1>10

\* column_insert_child, of a window that is out of the tree
LEMMA InsertChildKeeps ==
  ASSUME NEW t, Inv(t), NEW w \in Window, t.workspace[w] = None, t.status[w] = "alive",
         NEW c \in Column, NEW s \in Workspace, c \in ToSet(t.columns[s]),
         NEW i \in 1..(Len(t.children[c]) + 1)
  PROVE  LET r == InsertChild(t, c, w, i)
         IN  Inv(r) /\ Same(t, r, ColumnFields) /\ Moved(t, r, w, s, c)
<1> DEFINE r == InsertChild(t, c, w, i)
           q == InsertAt(t.children[c], i, w)
<1>1. TreeType(t) /\ PlaceInv(t) /\ DOMAIN t = Fields
  BY DEF Inv, TreeType
<1>2. t.colWorkspace[c] = s
  BY <1>1 DEF PlaceInv
<1>3. Joins(t, r, w, t.colWorkspace[c], c, q)
  BY <1>1, InsertChildJoins
<1> HIDE DEF r
<1>4. t.children[c] \in Seq(Window) /\ IsInjective(t.children[c]) /\ w \notin ToSet(t.children[c])
  <2>1. t.children[c] \in Seq(Window) /\ IsInjective(t.children[c])
    BY <1>1 DEF TreeType, PlaceInv
  <2>2. t.column[w] = None /\ c # None
    BY WindowHome, NodesAssumption
  <2> QED
    BY <1>1, <2>1, <2>2 DEF PlaceInv
<1>5. q \in Seq(Window) /\ IsInjective(q) /\ ToSet(q) = ToSet(t.children[c]) \cup {w}
  BY <1>4, InsertAtSet
<1> HIDE DEF q
<1>6. Inv(r) /\ Same(t, r, ColumnFields) /\ Moved(t, r, w, s, c)
  BY <1>2, <1>3, <1>5, JoinsKeeps
<1> QED
  BY <1>6 DEF r

\* column_add_child
LEMMA AddChildKeeps ==
  ASSUME NEW t, Inv(t), NEW w \in Window, t.workspace[w] = None, t.status[w] = "alive",
         NEW c \in Column, NEW s \in Workspace, c \in ToSet(t.columns[s])
  PROVE  LET r == AddChild(t, c, w)
         IN  Inv(r) /\ Same(t, r, ColumnFields) /\ Moved(t, r, w, s, c)
<1>1. t.children[c] \in Seq(Window)
  BY DEF Inv, TreeType
<1>2. Len(t.children[c]) + 1 \in 1..(Len(t.children[c]) + 1)
  BY <1>1
<1> QED
  BY <1>2, InsertChildKeeps DEF AddChild

\* What window_reconcile_tiling sets
Tiled(t, r, w, c) ==
  /\ Same(t, r, {"workspace", "column", "history", "output", "dirty"})
  /\ r.workspace = Put(t.workspace, w, t.colWorkspace[c])
  /\ r.column = Put(t.column, w, c)
  /\ r.history = Put(t.history, w, <<t.colOutput[c]>>)
  /\ r.output = Put(t.output, w, t.colOutput[c])
  /\ r.dirty = t.dirty \cup {w}

LEMMA ReconcileTilingSets ==
  ASSUME NEW t, DOMAIN t = Fields, NEW w, NEW c
  PROVE  Tiled(t, ReconcileTiling(t, w, c), w, c)
BY ReconcileTilingEffect DEF Tiled

\* A list of a column that has a window more
Lists(t, r, c, list) == Same(t, r, {"children"}) /\ r.children = Put(t.children, c, list)

\* column_add_sibling, of a window that is out of the tree
LEMMA AddSiblingKeeps ==
  ASSUME NEW t, Inv(t), NEW w \in Window, t.workspace[w] = None, t.status[w] = "alive",
         NEW fixed \in Window, NEW c \in Column, t.column[fixed] = c, NEW after \in BOOLEAN
  PROVE  LET r == AddSibling(t, fixed, w, after)
         IN  Inv(r) /\ Same(t, r, ColumnFields) /\ Moved(t, r, w, t.workspace[fixed], c)
<1> DEFINE i == IndexIn(t.children[c], fixed)
           j == IF after THEN i + 1 ELSE i
           q == InsertAt(t.children[c], j, w)
           listed == [t EXCEPT !.children[c] = q]
           a == ReconcileTiling(listed, fixed, c)
           b == ReconcileTiling(a, w, c)
           r == Mark(b, {c})
           u == ReconcileTiling(t, fixed, c)
<1>1. TreeType(t) /\ PlaceInv(t) /\ DOMAIN t = Fields
  BY DEF Inv, TreeType
<1>2. /\ fixed \in ToSet(t.children[c]) /\ t.children[c] # << >> /\ t.workspace[fixed] \in Workspace
      /\ t.colWorkspace[c] = t.workspace[fixed] /\ c \in ToSet(t.columns[t.workspace[fixed]])
  BY ChildHome
<1>3. t.children[c] \in Seq(Window) /\ IsInjective(t.children[c]) /\ w \notin ToSet(t.children[c]) /\ w # fixed
  <2>1. t.children[c] \in Seq(Window) /\ IsInjective(t.children[c])
    BY <1>1 DEF TreeType, PlaceInv
  <2>2. t.column[w] = None /\ c # None
    BY WindowHome, NodesAssumption
  <2> QED
    BY <1>1, <2>1, <2>2 DEF PlaceInv
<1>4. j \in 1..(Len(t.children[c]) + 1)
  <2>1. i \in 1..Len(t.children[c]) /\ Len(t.children[c]) \in Nat
    BY <1>2, <1>3, IndexFound
  <2> HIDE DEF i
  <2> QED
    BY <2>1
<1>5. AddSibling(t, fixed, w, after) = r
  BY DEF AddSibling
<1> HIDE DEF j
<1>6. q \in Seq(Window) /\ IsInjective(q) /\ ToSet(q) = ToSet(t.children[c]) \cup {w}
  BY <1>3, <1>4, InsertAtSet
<1> HIDE DEF q
<1>7. Lists(t, listed, c, q) /\ DOMAIN listed = Fields
  BY <1>1 DEF Lists, Same, Fields, Put
<1> HIDE DEF listed
<1>8. Tiled(listed, a, fixed, c)
  BY <1>7, ReconcileTilingSets
<1>9. Tiled(a, b, w, c)
  BY <1>8, ReconcileTilingSets DEF Tiled, Same
<1>10. Same(b, r, {"dirty"}) /\ r.dirty = b.dirty \cup {c}
  BY <1>9, MarkEffect DEF Tiled, Same
<1>11. Inv(u) /\ Same(t, u, {"history", "output", "dirty"})
  BY ReconcileTilingKeeps
<1>12. Tiled(t, u, fixed, c)
  BY <1>1, ReconcileTilingSets
<1> HIDE DEF a, b, r, u
<1>13. Joins(u, r, w, t.workspace[fixed], c, q)
  <2>1. Same(u, r, ColumnFields)
    BY <1>7, <1>8, <1>9, <1>10, <1>11 DEF Lists, Tiled, Same, ColumnFields
  <2>2. r.children = Put(u.children, c, q) /\ u.children = t.children
    BY <1>7, <1>8, <1>9, <1>10, <1>11 DEF Lists, Tiled, Same, Fields
  <2>3. r.activeChild = u.activeChild
    BY <1>7, <1>8, <1>9, <1>10, <1>11 DEF Lists, Tiled, Same, Fields
  <2>4. /\ listed.workspace = t.workspace /\ listed.column = t.column /\ listed.history = t.history
        /\ listed.output = t.output /\ listed.dirty = t.dirty
        /\ listed.colWorkspace = t.colWorkspace /\ listed.colOutput = t.colOutput
        /\ u.colOutput = t.colOutput
    BY <1>7, <1>11 DEF Lists, Same, Fields
  <2>5. a.workspace = u.workspace /\ a.column = u.column /\ a.history = u.history /\ a.output = u.output
        /\ a.dirty = u.dirty
    BY <1>8, <1>12, <2>4 DEF Tiled
  <2>6. a.colWorkspace = t.colWorkspace /\ a.colOutput = t.colOutput
    BY <1>8, <2>4 DEF Tiled, Same, Fields
  <2>7. /\ r.workspace = b.workspace /\ r.column = b.column /\ r.history = b.history
        /\ r.output = b.output /\ r.dirty = b.dirty \cup {c}
    BY <1>10 DEF Same, Fields
  <2>8. /\ r.workspace = Put(u.workspace, w, t.workspace[fixed]) /\ r.column = Put(u.column, w, c)
        /\ r.history = Put(u.history, w, <<u.colOutput[c]>>) /\ r.output = Put(u.output, w, u.colOutput[c])
        /\ r.dirty = u.dirty \cup {w, c}
    BY <1>2, <1>9, <2>4, <2>5, <2>6, <2>7 DEF Tiled
  <2> QED
    BY <1>2, <2>1, <2>2, <2>3, <2>8 DEF Joins
<1>14. /\ u.workspace = t.workspace /\ u.column = t.column /\ u.status = t.status
       /\ u.columns = t.columns /\ u.children = t.children
  BY <1>11 DEF Same, Fields
<1>15. Inv(r) /\ Same(u, r, ColumnFields) /\ Moved(u, r, w, t.workspace[fixed], c)
  <2>1. /\ u.workspace[w] = None /\ u.status[w] = "alive" /\ t.workspace[fixed] \in Workspace
        /\ c \in ToSet(u.columns[t.workspace[fixed]]) /\ ToSet(q) = ToSet(u.children[c]) \cup {w}
    BY <1>2, <1>6, <1>14
  <2> QED
    BY <1>6, <1>11, <1>13, <2>1, JoinsKeeps
<1>16. Same(t, r, ColumnFields)
  BY <1>11, <1>15 DEF Same, ColumnFields
<1>17. Moved(t, r, w, t.workspace[fixed], c)
  BY <1>14, <1>15 DEF Moved
<1> QED
  BY <1>5, <1>15, <1>16, <1>17

\* AddBesideActive, with the active child of the column
LEMMA AddBesideActiveKeeps ==
  ASSUME NEW t, Inv(t), NEW w \in Window, t.workspace[w] = None, t.status[w] = "alive",
         NEW c \in Column, NEW s \in Workspace, c \in ToSet(t.columns[s]),
         NEW sibling \in Maybe(ToSet(t.children[c]))
  PROVE  LET r == AddBesideActive(t, c, sibling, w)
         IN  Inv(r) /\ Same(t, r, ColumnFields) /\ Moved(t, r, w, s, c)
<1>1. CASE sibling = None
  BY <1>1, AddChildKeeps DEF AddBesideActive
<1>2. CASE sibling # None
  <2>1. sibling \in ToSet(t.children[c]) /\ t.children[c] \in Seq(Window)
    BY <1>2 DEF Maybe, Inv, TreeType
  <2>2. sibling \in Window /\ t.column[sibling] = c
    BY <2>1, EmptyList DEF Inv, PlaceInv
  <2>3. t.workspace[sibling] = t.colWorkspace[c] /\ t.colWorkspace[c] = s
    BY <2>2, ChildHome DEF Inv, PlaceInv
  <2> QED
    BY <1>2, <2>2, <2>3, AddSiblingKeeps DEF AddBesideActive
<1> QED
  BY <1>1, <1>2

\* The child that becomes active: the one before the removed one, or else the first.
LEMMA NextChild ==
  ASSUME NEW S, NEW s \in Seq(S), NEW e \in ToSet(s), RemoveFirst(s, e) # << >>
  PROVE  LET i == IndexIn(s, e)
             rest == RemoveFirst(s, e)
         IN  rest[IF i > 1 THEN i - 1 ELSE 1] \in ToSet(rest)
<1> DEFINE i == IndexIn(s, e)
           rest == RemoveFirst(s, e)
           k == IF i > 1 THEN i - 1 ELSE 1
<1>1. i \in 1..Len(s) /\ Len(s) \in Nat
  BY IndexFound
<1>2. rest = RemoveAt(s, i)
  BY DEF RemoveFirst, ToSet, IndexIn
<1> HIDE DEF i
<1>3. rest \in Seq(S) /\ Len(rest) = Len(s) - 1
  BY <1>1, <1>2, RemoveAtElements
<1>n. rest # << >>
  OBVIOUS
<1> HIDE DEF rest
<1>4. Len(rest) \in 1..Len(rest)
  BY <1>3, <1>n, EmptyList
<1>5. k \in 1..Len(rest)
  BY <1>1, <1>3, <1>4
<1> HIDE DEF k
<1>6. rest[k] \in ToSet(rest)
  BY <1>3, <1>5 DEF ToSet
<1> QED
  BY <1>6 DEF k, rest, i

\* A window has left the list of a column.
Leaves(t, r, w, c, next) ==
  /\ Same(t, r, {"children", "activeChild", "workspace", "column", "dirty"})
  /\ r.children = Put(t.children, c, RemoveFirst(t.children[c], w))
  /\ r.activeChild = Put(t.activeChild, c, IF t.activeChild[c] = w THEN next ELSE t.activeChild[c])
  /\ r.workspace = Put(t.workspace, w, None)
  /\ r.column = Put(t.column, w, None)
  /\ r.dirty = t.dirty \cup {w, c}

LEMMA LeavesKeeps ==
  ASSUME NEW t, Inv(t), NEW w \in Window, NEW c \in Column, t.column[w] = c, NEW next,
         LET rest == RemoveFirst(t.children[c], w)
         IN  IF rest = << >> THEN next = None ELSE next \in ToSet(rest),
         NEW r, Leaves(t, r, w, c, next)
  PROVE  Inv(r) /\ Same(t, r, ColumnFields) /\ Moved(t, r, w, None, None)
<1>1. Same(t, r, ColumnFields) /\ Moved(t, r, w, None, None)
  BY DEF Leaves, Same, ColumnFields, Moved
<1>2. TreeType(r) /\ PlaceInv(r) /\ PathInv(r)
  BY <1>1, ChildTake DEF Leaves
<1>3. /\ r.outputs = t.outputs /\ r.activeOutput = t.activeOutput /\ r.colOutput = t.colOutput
      /\ r.status = t.status /\ r.fullscreen = t.fullscreen /\ r.fullscreenWindows = t.fullscreenWindows
      /\ r.columns = t.columns /\ r.overlay = t.overlay /\ r.focused = t.focused /\ r.crashed = t.crashed
      /\ r.output = t.output /\ r.history = t.history
  BY DEF Leaves, Same, Fields
<1>4. NoteType(r)
  BY <1>3 DEF Leaves, NoteType, Inv, OtherType, Node
<1>5. TreeType(t) /\ OtherType(t)
  BY DEF Inv
<1>6. \A x \in Window : ShownAnew(r, x) \/ ShownAsBefore(t, r, x)
  <2> SUFFICES ASSUME NEW x \in Window PROVE ShownAsBefore(t, r, x)
    OBVIOUS
  <2>1. t.workspace \in [Window -> Maybe(Workspace)] /\ t.column \in [Window -> Maybe(Column)]
    BY <1>5 DEF TreeType
  <2>2. r.workspace[x] \in {t.workspace[x], None} /\ r.column[x] \in {t.column[x], None}
    BY <1>1, <2>1 DEF Moved, Put
  <2> QED
    BY <1>3, <2>2 DEF ShownAsBefore, Inv, OutputInv
<1>7. r.output = [x \in Window |-> r.output[x]] /\ r.history = [x \in Window |-> r.history[x]]
  BY <1>3, <1>5 DEF OtherType
<1>8. OtherType(r) /\ OutputInv(r)
  BY <1>2, <1>3, <1>4, <1>6, <1>7, ShownStill
<1> QED
  BY <1>1, <1>2, <1>8 DEF Inv

\* What window_reconcile_detached sets
Unplaced(t, r, w) ==
  /\ Same(t, r, {"workspace", "column", "dirty"})
  /\ r.workspace = Put(t.workspace, w, None)
  /\ r.column = Put(t.column, w, None)
  /\ r.dirty = t.dirty \cup {w}

LEMMA ReconcileDetachedSets ==
  ASSUME NEW t, DOMAIN t = Fields, NEW w
  PROVE  Unplaced(t, ReconcileDetached(t, w), w)
BY ReconcileDetachedEffect DEF Unplaced

\* A list of a column that has a window less
Unlists(t, r, c, list, active) ==
  /\ Same(t, r, {"children", "activeChild"})
  /\ r.children = Put(t.children, c, list) /\ r.activeChild = Put(t.activeChild, c, active)

\* column_remove_child
LEMMA RemoveChildKeeps ==
  ASSUME NEW t, Inv(t), NEW w \in Window, NEW c \in Column, t.column[w] = c
  PROVE  LET r == RemoveChild(t, c, w)
         IN  Inv(r) /\ Same(t, r, ColumnFields) /\ Moved(t, r, w, None, None)
<1> DEFINE i == IndexIn(t.children[c], w)
           rest == RemoveFirst(t.children[c], w)
           next == IF rest = << >> THEN None ELSE rest[IF i > 1 THEN i - 1 ELSE 1]
           active == IF t.activeChild[c] = w THEN next ELSE t.activeChild[c]
           unlisted == [t EXCEPT !.children[c] = rest, !.activeChild[c] = active]
           again == t.activeChild[c] = w /\ next # None
           a == IF again THEN ReconcileTiling(unlisted, next, c) ELSE unlisted
           b == ReconcileDetached(a, w)
           r == Mark(b, {c})
           u == IF again THEN ReconcileTiling(t, next, c) ELSE t
<1>1. TreeType(t) /\ PlaceInv(t) /\ DOMAIN t = Fields
  BY DEF Inv, TreeType
<1>2. /\ w \in ToSet(t.children[c]) /\ t.workspace[w] \in Workspace
      /\ t.colWorkspace[c] = t.workspace[w] /\ c \in ToSet(t.columns[t.workspace[w]])
  BY ChildHome
<1>3. t.children[c] \in Seq(Window) /\ IsInjective(t.children[c])
  BY <1>1 DEF TreeType, PlaceInv
<1>4. RemoveChild(t, c, w) = r
  BY DEF RemoveChild
<1>5. rest \in Seq(Window) /\ ToSet(rest) = ToSet(t.children[c]) \ {w}
  BY <1>3, RemoveFirstSet
<1>6. IF rest = << >> THEN next = None ELSE next \in ToSet(rest)
  BY <1>2, <1>3, NextChild
<1>r. rest = RemoveFirst(t.children[c], w)
  OBVIOUS
<1> HIDE DEF rest, next
<1>7. next # None => next \in Window /\ t.column[next] = c /\ next # w
  <2>1. next # None => next \in ToSet(t.children[c]) /\ next \in Window /\ next # w
    BY <1>3, <1>5, <1>6, EmptyList
  <2> QED
    BY <1>1, <2>1 DEF PlaceInv
<1>8. Unlists(t, unlisted, c, rest, active) /\ DOMAIN unlisted = Fields
  BY <1>1 DEF Unlists, Same, Fields, Put
<1>w. active = IF t.activeChild[c] = w THEN next ELSE t.activeChild[c]
  OBVIOUS
<1> HIDE DEF unlisted, active
<1>9. IF again THEN Tiled(unlisted, a, next, c) ELSE a = unlisted
  BY <1>8, ReconcileTilingSets
<1>10. IF again THEN Tiled(t, u, next, c) ELSE u = t
  BY <1>1, ReconcileTilingSets
<1>11. Inv(u) /\ Same(t, u, {"history", "output", "dirty"})
  <2>1. CASE again
    BY <1>7, <2>1, ReconcileTilingKeeps
  <2>2. CASE ~again
    BY <1>1, <2>2 DEF Same
  <2> QED
    BY <2>1, <2>2
<1> HIDE DEF again
<1>12. DOMAIN a = Fields
  BY <1>8, <1>9 DEF Tiled, Same
<1> HIDE DEF a
<1>13. Unplaced(a, b, w)
  BY <1>12, ReconcileDetachedSets
<1>14. Same(b, r, {"dirty"}) /\ r.dirty = b.dirty \cup {c}
  BY <1>13, MarkEffect DEF Unplaced, Same
<1> HIDE DEF b, r, u
<1>15. /\ u.workspace = t.workspace /\ u.column = t.column /\ u.children = t.children
       /\ u.activeChild = t.activeChild
  BY <1>11 DEF Same, Fields
<1>16. Leaves(u, r, w, c, next)
  <2>1. /\ Same(u, a, {"children", "activeChild"})
        /\ a.workspace = u.workspace /\ a.column = u.column /\ a.dirty = u.dirty
        /\ a.children = Put(u.children, c, rest) /\ a.activeChild = Put(u.activeChild, c, active)
    <3>1. CASE again
      <4>1. /\ Tiled(unlisted, a, next, c) /\ Tiled(t, u, next, c)
            /\ Unlists(t, unlisted, c, rest, active)
        BY <1>8, <1>9, <1>10, <3>1
      <4>2. /\ unlisted.workspace = t.workspace /\ unlisted.column = t.column
            /\ unlisted.history = t.history /\ unlisted.output = t.output /\ unlisted.dirty = t.dirty
            /\ unlisted.colWorkspace = t.colWorkspace /\ unlisted.colOutput = t.colOutput
            /\ unlisted.children = Put(t.children, c, rest)
            /\ unlisted.activeChild = Put(t.activeChild, c, active)
        BY <4>1 DEF Unlists, Same, Fields
      <4>3. /\ a.workspace = u.workspace /\ a.column = u.column /\ a.dirty = u.dirty
            /\ a.history = u.history /\ a.output = u.output
        BY <4>1, <4>2 DEF Tiled
      <4>4. /\ a.children = Put(u.children, c, rest) /\ a.activeChild = Put(u.activeChild, c, active)
        BY <1>15, <4>1, <4>2 DEF Tiled, Same, Fields
      <4>5. Same(u, a, {"children", "activeChild"})
        BY <4>1, <4>3 DEF Tiled, Unlists, Same
      <4> QED
        BY <4>3, <4>4, <4>5
    <3>2. CASE ~again
      <4>1. a = unlisted /\ u = t /\ Unlists(t, unlisted, c, rest, active)
        BY <1>8, <1>9, <1>10, <3>2
      <4> QED
        BY <4>1 DEF Unlists, Same, Fields
    <3> QED
      BY <3>1, <3>2
  <2>2. /\ r.workspace = b.workspace /\ r.column = b.column /\ r.children = b.children
        /\ r.activeChild = b.activeChild
    BY <1>14 DEF Same, Fields
  <2>3. b.children = a.children /\ b.activeChild = a.activeChild
    BY <1>13 DEF Unplaced, Same, Fields
  <2>4. /\ r.workspace = Put(u.workspace, w, None) /\ r.column = Put(u.column, w, None)
        /\ r.dirty = u.dirty \cup {w, c}
        /\ r.children = Put(u.children, c, RemoveFirst(u.children[c], w))
        /\ r.activeChild = Put(u.activeChild, c, IF u.activeChild[c] = w THEN next ELSE u.activeChild[c])
    BY <1>13, <1>14, <1>15, <1>r, <1>w, <2>1, <2>2, <2>3 DEF Unplaced
  <2>5. Same(u, r, {"children", "activeChild", "workspace", "column", "dirty"})
    BY <1>13, <1>14, <2>1 DEF Unplaced, Same
  <2> QED
    BY <2>4, <2>5 DEF Leaves
<1>17. Inv(r) /\ Same(u, r, ColumnFields) /\ Moved(u, r, w, None, None)
  <2>1. u.column[w] = c /\ IF RemoveFirst(u.children[c], w) = << >> THEN next = None
                           ELSE next \in ToSet(RemoveFirst(u.children[c], w))
    BY <1>6, <1>15, <1>r
  <2> QED
    BY <1>11, <1>16, <2>1, LeavesKeeps
<1>18. Same(t, r, ColumnFields) /\ Moved(t, r, w, None, None)
  BY <1>11, <1>15, <1>17 DEF Same, ColumnFields, Moved
<1> QED
  BY <1>4, <1>17, <1>18

-----------------------------------------------------------------------------
(* Active children. *)

\* What column_set_active_child may change
ActiveFields == {"activeChild", "history", "output", "dirty"}

LEMMA ActiveChildKeeps ==
  ASSUME NEW t, Inv(t), NEW w \in Window, NEW c \in Column, t.column[w] = c
  PROVE  LET r == [t EXCEPT !.activeChild[c] = w]
         IN  Inv(r) /\ Same(t, r, {"activeChild"}) /\ r.activeChild = Put(t.activeChild, c, w)
<1> DEFINE r == [t EXCEPT !.activeChild[c] = w]
<1>1. TreeType(t) /\ OtherType(t) /\ PlaceInv(t) /\ PathInv(t) /\ OutputInv(t) /\ DOMAIN t = Fields
  BY DEF Inv, TreeType
<1>2. Same(t, r, {"activeChild"}) /\ r.activeChild = Put(t.activeChild, c, w)
  BY <1>1 DEF Same, Fields, Put
<1> HIDE DEF r
<1>3. t.activeChild \in [Column -> Maybe(Window)]
  BY <1>1 DEF TreeType
<1>4. r.activeChild \in [Column -> Maybe(Window)] /\ r.activeChild[c] = w
      /\ \A d \in Column \ {c} : r.activeChild[d] = t.activeChild[d]
  BY <1>2, <1>3 DEF Put, Maybe
<1>5. TreeType(r)
  BY <1>1, <1>2, <1>4 DEF TreeType, Same, Fields
<1>6. OtherType(r)
  BY <1>1, <1>2 DEF OtherType, NoteType, Outputs, Same, Fields
<1>7. PlaceInv(r)
  BY <1>1, <1>2 DEF PlaceInv, Same, Fields
<1>8. PathInv(r)
  <2>1. w \in ToSet(t.children[c]) /\ t.children[c] # << >>
    BY ChildHome
  <2>2. /\ r.children = t.children /\ r.columns = t.columns /\ r.floating = t.floating
        /\ r.activeColumn = t.activeColumn /\ r.focusMode = t.focusMode
    BY <1>2 DEF Same, Fields
  <2> QED
    BY <1>1, <1>4, <2>1, <2>2 DEF PathInv
<1>9. OutputInv(r)
  BY <1>1, <1>2 DEF OutputInv, Outputs, Same, Fields
<1> QED
  BY <1>2, <1>5, <1>6, <1>7, <1>8, <1>9 DEF Inv, r

\* column_set_active_child
LEMMA SetActiveChildKeeps ==
  ASSUME NEW t, Inv(t), NEW w \in Window, NEW c \in Column, t.column[w] = c
  PROVE  LET r == SetActiveChild(t, c, w)
         IN  Inv(r) /\ Same(t, r, ActiveFields) /\ r.activeChild[c] = w
<1> DEFINE prev == t.activeChild[c]
           a == [t EXCEPT !.activeChild[c] = w]
           b == ReconcileTiling(a, w, c)
           d == IF prev = None THEN b ELSE ReconcileTiling(b, prev, c)
           r == Mark(d, {c})
<1>1. SetActiveChild(t, c, w) = IF prev = w THEN t ELSE r
  BY DEF SetActiveChild
<1>2. prev # None => prev \in Window /\ t.column[prev] = c
  <2>1. t.children[c] # << >> /\ t.children[c] \in Seq(Window)
    <3>1. t.children[c] # << >>
      BY ChildHome
    <3> QED
      BY <3>1 DEF Inv, TreeType
  <2>2. prev \in ToSet(t.children[c])
    BY <2>1 DEF Inv, PathInv
  <2> QED
    BY <2>1, <2>2, EmptyList DEF Inv, PlaceInv
<1> HIDE DEF prev
<1>3. Inv(a) /\ Same(t, a, {"activeChild"}) /\ a.activeChild = Put(t.activeChild, c, w)
  BY ActiveChildKeeps
<1> HIDE DEF a
<1>4. a.column = t.column
  BY <1>3 DEF Same, Fields
<1>5. Inv(b) /\ Same(a, b, {"history", "output", "dirty"})
  BY <1>3, <1>4, ReconcileTilingKeeps
<1> HIDE DEF b
<1>6. b.column = t.column
  BY <1>4, <1>5 DEF Same, Fields
<1>7. Inv(d) /\ Same(b, d, {"history", "output", "dirty"})
  <2>1. CASE prev = None
    BY <1>5, <2>1 DEF Same
  <2>2. CASE prev # None
    BY <1>2, <1>5, <1>6, <2>2, ReconcileTilingKeeps
  <2> QED
    BY <2>1, <2>2
<1> HIDE DEF d
<1>8. {c} \subseteq Node
  BY DEF Node
<1>9. Inv(r) /\ Same(d, r, {"dirty"})
  BY <1>7, <1>8, MarkKeeps
<1> HIDE DEF r
<1>10. Same(t, r, ActiveFields)
  BY <1>3, <1>5, <1>7, <1>9 DEF Same, ActiveFields
<1>11. r.activeChild[c] = w
  <2>1. r.activeChild = Put(t.activeChild, c, w)
    BY <1>3, <1>5, <1>7, <1>9 DEF Same, Fields
  <2>2. t.activeChild \in [Column -> Maybe(Window)]
    BY DEF Inv, TreeType
  <2> QED
    BY <2>1, <2>2 DEF Put
<1>12. Same(t, t, ActiveFields)
  BY DEF Same, Inv, TreeType
<1> QED
  BY <1>1, <1>9, <1>10, <1>11, <1>12 DEF prev

-----------------------------------------------------------------------------
(* Floating windows. *)

\* The active tiling window of a workspace is in its active column, the active floating one
\* on its stack.
LEMMA ActiveTilingHome ==
  ASSUME NEW t, Inv(t), NEW s \in Workspace, ActiveTiling(t, s) # None
  PROVE  LET x == ActiveTiling(t, s)
         IN  x \in Window /\ t.activeColumn[s] \in Column /\ t.column[x] = t.activeColumn[s]
             /\ t.workspace[x] = s /\ t.activeColumn[s] \in ToSet(t.columns[s])
<1> DEFINE c == t.activeColumn[s]
           x == t.activeChild[c]
<1>1. TreeType(t) /\ PlaceInv(t) /\ PathInv(t)
  BY DEF Inv
<1>2. c # None /\ x # None /\ ActiveTiling(t, s) = x
  BY DEF ActiveTiling
<1>3. c \in ToSet(t.columns[s]) /\ t.columns[s] \in Seq(Column)
  BY <1>1, <1>2 DEF PathInv, TreeType, Maybe
<1>4. c \in Column
  BY <1>3, EmptyList
<1>5. x \in ToSet(t.children[c]) /\ t.children[c] \in Seq(Window)
  BY <1>1, <1>2, <1>4 DEF PathInv, TreeType
<1>6. x \in Window
  BY <1>5, EmptyList
<1> HIDE DEF c, x
<1>7. t.column[x] = c
  BY <1>1, <1>4, <1>5, <1>6 DEF PlaceInv
<1>8. t.workspace[x] = t.colWorkspace[c] /\ t.colWorkspace[c] = s
  <2>1. t.workspace[x] = t.colWorkspace[c]
    BY <1>4, <1>6, <1>7, ChildHome
  <2> QED
    BY <1>1, <1>3, <2>1 DEF PlaceInv
<1> QED
  BY <1>2, <1>3, <1>4, <1>6, <1>7, <1>8 DEF c

LEMMA ActiveFloatingHome ==
  ASSUME NEW t, Inv(t), NEW s \in Workspace, ActiveFloating(t, s) # None
  PROVE  LET x == ActiveFloating(t, s)
         IN  x \in Window /\ x \in ToSet(t.floating[s]) /\ t.workspace[x] = s /\ t.column[x] = None
<1>1. t.floating[s] \in Seq(Window)
  BY DEF Inv, TreeType
<1>2. ActiveFloating(t, s) \in ToSet(t.floating[s]) /\ ActiveFloating(t, s) \in Window
  BY <1>1, EmptyList DEF ActiveFloating
<1> QED
  BY <1>2 DEF Inv, PlaceInv

\* What workspace_add_floating and workspace_remove_floating change
FloatFields == {"floating", "focusMode", "workspace", "column", "history", "output", "dirty"}

\* A window that was out of the tree has become a floating one.
Floats(t, r, w, s) ==
  /\ Same(t, r, {"floating", "workspace", "column", "history", "output", "dirty"})
  /\ r.floating = Put(t.floating, s, Append(t.floating[s], w))
  /\ r.workspace = Put(t.workspace, w, s)
  /\ r.column = Put(t.column, w, None)
  /\ r.history = IF t.history[w] # << >> THEN t.history ELSE Put(t.history, w, <<t.activeOutput>>)
  /\ r.output = IF t.history[w] # << >> THEN t.output ELSE Put(t.output, w, t.activeOutput)
  /\ r.dirty = t.dirty \cup {w}

LEMMA FloatsKeeps ==
  ASSUME NEW t, Inv(t), NEW w \in Window, t.workspace[w] = None, t.status[w] = "alive",
         NEW s \in t.workspaces, t.history[w] # << >> \/ t.outputs # << >>,
         NEW r, Floats(t, r, w, s)
  PROVE  /\ Inv(r) /\ Same(t, r, FloatFields) /\ Moved(t, r, w, s, None)
         /\ r.floating = Put(t.floating, s, Append(t.floating[s], w))
<1> DEFINE q == Append(t.floating[s], w)
<1>1. TreeType(t) /\ OtherType(t) /\ PlaceInv(t) /\ PathInv(t) /\ OutputInv(t)
  BY DEF Inv
<1>2. /\ Same(t, r, FloatFields) /\ r.floating = Put(t.floating, s, q)
      /\ r.workspace = Put(t.workspace, w, s) /\ r.column = Put(t.column, w, None)
      /\ r.history = IF t.history[w] # << >> THEN t.history ELSE Put(t.history, w, <<t.activeOutput>>)
      /\ r.output = IF t.history[w] # << >> THEN t.output ELSE Put(t.output, w, t.activeOutput)
      /\ r.dirty = t.dirty \cup {w}
  BY DEF Floats, Same, FloatFields
<1>3. /\ DOMAIN r = Fields /\ r.workspaces = t.workspaces /\ r.activeWorkspace = t.activeWorkspace
      /\ r.columns = t.columns /\ r.activeColumn = t.activeColumn /\ r.focusMode = t.focusMode
      /\ r.children = t.children /\ r.activeChild = t.activeChild
      /\ r.colWorkspace = t.colWorkspace /\ r.colOutput = t.colOutput
      /\ r.outputs = t.outputs /\ r.activeOutput = t.activeOutput /\ r.status = t.status
      /\ r.fullscreen = t.fullscreen /\ r.fullscreenWindows = t.fullscreenWindows
      /\ r.overlay = t.overlay /\ r.focused = t.focused /\ r.crashed = t.crashed
  BY DEF Floats, Same, Fields
<1>4. /\ t.floating \in [Workspace -> Seq(Window)] /\ t.workspaces \subseteq Workspace
      /\ t.workspace \in [Window -> Maybe(Workspace)] /\ t.column \in [Window -> Maybe(Column)]
      /\ t.output \in [Window -> Maybe(Outputs(t))] /\ t.history \in [Window -> Seq(Outputs(t))]
  BY <1>1 DEF TreeType, OtherType
<1>5. s \in Workspace /\ s # None /\ t.column[w] = None /\ t.column[w] \notin Column
  BY <1>4, NodesAssumption, WindowHome
<1>6. w \notin ToSet(t.floating[s])
  BY <1>1, <1>5 DEF PlaceInv
<1>7. q \in Seq(Window) /\ q # << >> /\ ToSet(q) = ToSet(t.floating[s]) \cup {w} /\ IsInjective(q)
  <2>1. t.floating[s] \in Seq(Window) /\ IsInjective(t.floating[s])
    BY <1>1, <1>4, <1>5 DEF PlaceInv
  <2> QED
    BY <1>6, <2>1, AppendSet
<1> HIDE DEF q
<1>8. \A u \in Workspace : r.floating[u] = IF u = s THEN q ELSE t.floating[u]
  BY <1>2, <1>4 DEF Put
<1>9. \A x \in Window : /\ r.workspace[x] = IF x = w THEN s ELSE t.workspace[x]
                        /\ r.column[x] = t.column[x]
  BY <1>2, <1>4, <1>5 DEF Put
<1>10. TreeType(r)
  <2>1. r.floating \in [Workspace -> Seq(Window)]
    BY <1>2, <1>4, <1>7 DEF Put
  <2>2. r.workspace \in [Window -> Maybe(Workspace)] /\ r.column \in [Window -> Maybe(Column)]
    BY <1>2, <1>4, <1>5 DEF Put, Maybe
  <2> QED
    BY <1>1, <1>3, <2>1, <2>2 DEF TreeType
<1>11. PlaceInv(r)
  <2>1. \A u \in Workspace : IsInjective(r.floating[u])
    BY <1>1, <1>7, <1>8 DEF PlaceInv
  <2>2. \A x \in Window : \A d \in Column : x \in ToSet(r.children[d]) <=> r.column[x] = d
    BY <1>1, <1>3, <1>9 DEF PlaceInv
  <2>3. ASSUME NEW x \in Window, NEW u \in Workspace
        PROVE  x \in ToSet(r.floating[u]) <=> r.workspace[x] = u /\ r.column[x] = None
    <3>1. x \in ToSet(t.floating[u]) <=> t.workspace[x] = u /\ t.column[x] = None
      BY <1>1 DEF PlaceInv
    <3>2. u # None
      BY NodesAssumption
    <3> QED
      BY <1>5, <1>7, <1>8, <1>9, <3>1, <3>2
  <2>4. ASSUME NEW x \in Window, r.column[x] # None
        PROVE  r.workspace[x] \in Workspace /\ r.column[x] \in ToSet(r.columns[r.workspace[x]])
    BY <1>1, <1>3, <1>5, <1>9, <2>4 DEF PlaceInv
  <2>5. \A u \in Workspace \ r.workspaces : r.columns[u] = << >> /\ r.floating[u] = << >>
    BY <1>1, <1>3, <1>8 DEF PlaceInv
  <2> QED
    BY <1>1, <1>3, <2>1, <2>2, <2>3, <2>4, <2>5 DEF PlaceInv
<1>12. PathInv(r)
  BY <1>1, <1>3, <1>7, <1>8 DEF PathInv
<1>13. NoteType(r)
  BY <1>1, <1>2, <1>3 DEF NoteType, OtherType, Node
<1>14. \A x \in Window : ShownAnew(r, x) \/ ShownAsBefore(t, r, x)
  <2> SUFFICES ASSUME NEW x \in Window PROVE ShownAnew(r, x) \/ ShownAsBefore(t, r, x)
    OBVIOUS
  <2>1. CASE x # w \/ t.history[w] # << >>
    <3>1. r.output[x] = t.output[x] /\ r.history[x] = t.history[x]
      BY <1>2, <1>4, <2>1 DEF Put
    <3> QED
      BY <1>1, <1>9, <2>1, <3>1 DEF ShownAsBefore, OutputInv
  <2>2. CASE x = w /\ t.history[w] = << >>
    <3>1. r.output[w] = t.activeOutput /\ r.history[w] = <<t.activeOutput>>
      BY <1>2, <1>4, <2>2 DEF Put
    <3>2. t.activeOutput \in Outputs(t) /\ Outputs(r) = Outputs(t)
      BY <1>1, <1>3, <2>2 DEF OutputInv, Outputs
    <3> QED
      BY <1>3, <1>5, <1>9, <2>2, <3>1, <3>2 DEF ShownAnew
  <2> QED
    BY <2>1, <2>2
<1>15. r.output = [x \in Window |-> r.output[x]] /\ r.history = [x \in Window |-> r.history[x]]
  BY <1>2, <1>4 DEF Put
<1>16. OtherType(r) /\ OutputInv(r)
  BY <1>3, <1>10, <1>11, <1>13, <1>14, <1>15, ShownStill
<1> QED
  BY <1>2, <1>10, <1>11, <1>12, <1>16 DEF Inv, Moved, q

\* What window_reconcile_floating sets
Afloat(t, r, w, s) ==
  /\ Same(t, r, {"workspace", "column", "dirty"})
  /\ r.workspace = Put(t.workspace, w, s) /\ r.column = Put(t.column, w, None)
  /\ r.dirty = t.dirty \cup {w}

LEMMA ReconcileFloatingSets ==
  ASSUME NEW t, DOMAIN t = Fields, NEW w, NEW s
  PROVE  Afloat(t, ReconcileFloating(t, w, s), w, s)
BY ReconcileFloatingEffect DEF Afloat

\* workspace_add_floating, of a window that is out of the tree
LEMMA AddFloatingKeeps ==
  ASSUME NEW t, Inv(t), NEW w \in Window, t.workspace[w] = None, t.status[w] = "alive",
         NEW s \in t.workspaces, t.history[w] # << >> \/ t.outputs # << >>
  PROVE  LET r == AddFloating(t, s, w)
         IN  Inv(r) /\ Same(t, r, FloatFields) /\ Moved(t, r, w, s, None)
<1> DEFINE prev == ActiveFloating(t, s)
           listed == [t EXCEPT !.floating[s] = Append(@, w)]
           placed == IF t.history[w] # << >> THEN listed
                     ELSE [listed EXCEPT !.history[w] = <<t.activeOutput>>,
                                         !.output[w] = t.activeOutput]
           a == ReconcileFloating(placed, w, s)
           b == IF prev = None THEN a ELSE ReconcileFloating(a, prev, s)
           r == Mark(b, {s})
<1>1. DOMAIN t = Fields /\ s \in Workspace /\ t.floating \in [Workspace -> Seq(Window)]
  BY DEF Inv, TreeType
<1>2. AddFloating(t, s, w) = r
  BY DEF AddFloating
<1>3. /\ Same(t, listed, {"floating"}) /\ listed.floating = Put(t.floating, s, Append(t.floating[s], w))
  BY <1>1 DEF Same, Fields, Put
<1> HIDE DEF listed
<1>4. /\ Same(listed, placed, {"history", "output"})
      /\ placed.history = IF t.history[w] # << >> THEN listed.history
                          ELSE Put(listed.history, w, <<t.activeOutput>>)
      /\ placed.output = IF t.history[w] # << >> THEN listed.output
                         ELSE Put(listed.output, w, t.activeOutput)
  BY <1>3 DEF Same, Fields, Put
<1> HIDE DEF placed
<1>5. Afloat(placed, a, w, s)
  BY <1>4, ReconcileFloatingSets DEF Same
<1> HIDE DEF a
<1>6. Floats(t, a, w, s)
  <2>1. Same(t, a, {"floating", "workspace", "column", "history", "output", "dirty"})
    BY <1>3, <1>4, <1>5 DEF Afloat, Same
  <2>2. /\ listed.history = t.history /\ listed.output = t.output /\ placed.floating = listed.floating
        /\ placed.workspace = t.workspace /\ placed.column = t.column /\ placed.dirty = t.dirty
    BY <1>3, <1>4 DEF Same, Fields
  <2>3. a.floating = placed.floating /\ a.history = placed.history /\ a.output = placed.output
    BY <1>5 DEF Afloat, Same, Fields
  <2> QED
    BY <1>3, <1>4, <1>5, <2>1, <2>2, <2>3 DEF Afloat, Floats
<1>7. /\ Inv(a) /\ Same(t, a, FloatFields) /\ Moved(t, a, w, s, None)
      /\ a.floating = Put(t.floating, s, Append(t.floating[s], w))
  BY <1>6, FloatsKeeps
<1>8. Inv(b) /\ Same(a, b, {"dirty"})
  <2>1. CASE prev = None
    BY <1>7, <2>1 DEF Same, Inv, TreeType
  <2>2. CASE prev # None
    <3>1. prev \in ToSet(t.floating[s]) /\ prev \in Window
      BY <1>1, <2>2, ActiveFloatingHome
    <3>2. ToSet(Append(t.floating[s], w)) = ToSet(t.floating[s]) \cup {w}
      BY <1>1, AppendSet
    <3>3. a.floating[s] = Append(t.floating[s], w)
      BY <1>1, <1>7 DEF Put
    <3> HIDE DEF prev
    <3>4. prev \in ToSet(a.floating[s])
      BY <3>1, <3>2, <3>3
    <3> QED
      BY <1>1, <1>7, <2>2, <3>1, <3>4, ReconcileFloatingKeeps
  <2> QED
    BY <2>1, <2>2
<1> HIDE DEF b
<1>9. {s} \subseteq Node
  BY <1>1 DEF Node
<1>10. Inv(r) /\ Same(b, r, {"dirty"})
  BY <1>8, <1>9, MarkKeeps
<1> HIDE DEF r
<1>11. Same(t, r, FloatFields)
  BY <1>7, <1>8, <1>10 DEF Same, FloatFields
<1>12. Moved(t, r, w, s, None)
  <2>1. r.workspace = a.workspace /\ r.column = a.column
    BY <1>8, <1>10 DEF Same, Fields
  <2> QED
    BY <1>7, <2>1 DEF Moved
<1> QED
  BY <1>2, <1>10, <1>11, <1>12

\* A floating window has left the tree.
Unfloats(t, r, w, s) ==
  /\ Same(t, r, {"floating", "focusMode", "workspace", "column", "dirty"})
  /\ r.floating = Put(t.floating, s, RemoveFirst(t.floating[s], w))
  /\ r.focusMode = Put(t.focusMode, s, IF RemoveFirst(t.floating[s], w) = << >> THEN "tiling"
                                       ELSE t.focusMode[s])
  /\ r.workspace = Put(t.workspace, w, None)
  /\ r.column = Put(t.column, w, None)
  /\ r.dirty \subseteq Node

LEMMA UnfloatsKeeps ==
  ASSUME NEW t, Inv(t), NEW w \in Window, NEW s \in Workspace, t.workspace[w] = s, t.column[w] = None,
         NEW r, Unfloats(t, r, w, s)
  PROVE  Inv(r) /\ Same(t, r, FloatFields) /\ Moved(t, r, w, None, None)
<1> DEFINE q == RemoveFirst(t.floating[s], w)
<1>1. TreeType(t) /\ OtherType(t) /\ PlaceInv(t) /\ PathInv(t) /\ OutputInv(t)
  BY DEF Inv
<1>2. /\ Same(t, r, FloatFields) /\ r.floating = Put(t.floating, s, q)
      /\ r.focusMode = Put(t.focusMode, s, IF q = << >> THEN "tiling" ELSE t.focusMode[s])
      /\ r.workspace = Put(t.workspace, w, None) /\ r.column = Put(t.column, w, None)
      /\ r.dirty \subseteq Node
  BY DEF Unfloats, Same, FloatFields
<1>3. /\ DOMAIN r = Fields /\ r.workspaces = t.workspaces /\ r.activeWorkspace = t.activeWorkspace
      /\ r.columns = t.columns /\ r.activeColumn = t.activeColumn
      /\ r.children = t.children /\ r.activeChild = t.activeChild
      /\ r.colWorkspace = t.colWorkspace /\ r.colOutput = t.colOutput
      /\ r.outputs = t.outputs /\ r.activeOutput = t.activeOutput /\ r.status = t.status
      /\ r.fullscreen = t.fullscreen /\ r.fullscreenWindows = t.fullscreenWindows
      /\ r.overlay = t.overlay /\ r.focused = t.focused /\ r.crashed = t.crashed
      /\ r.output = t.output /\ r.history = t.history
  BY DEF Unfloats, Same, Fields
<1>4. /\ t.floating \in [Workspace -> Seq(Window)] /\ t.workspaces \subseteq Workspace
      /\ t.focusMode \in [Workspace -> {"tiling", "floating"}]
      /\ t.workspace \in [Window -> Maybe(Workspace)] /\ t.column \in [Window -> Maybe(Column)]
      /\ t.output \in [Window -> Maybe(Outputs(t))] /\ t.history \in [Window -> Seq(Outputs(t))]
  BY <1>1 DEF TreeType, OtherType
<1>5. s # None /\ s \in t.workspaces
  BY NodesAssumption, FloatingHome
<1>7. q \in Seq(Window) /\ ToSet(q) = ToSet(t.floating[s]) \ {w} /\ IsInjective(q)
  <2>1. t.floating[s] \in Seq(Window) /\ IsInjective(t.floating[s])
    BY <1>1, <1>4 DEF PlaceInv
  <2> QED
    BY <2>1, RemoveFirstSet
<1> HIDE DEF q
<1>8. \A u \in Workspace : /\ r.floating[u] = IF u = s THEN q ELSE t.floating[u]
                           /\ r.focusMode[u] = IF u = s /\ q = << >> THEN "tiling" ELSE t.focusMode[u]
  BY <1>2, <1>4 DEF Put
<1>9. \A x \in Window : /\ r.workspace[x] = IF x = w THEN None ELSE t.workspace[x]
                        /\ r.column[x] = t.column[x]
  BY <1>2, <1>4 DEF Put
<1>10. TreeType(r)
  <2>1. r.floating \in [Workspace -> Seq(Window)]
    BY <1>2, <1>4, <1>7 DEF Put
  <2>2. r.workspace \in [Window -> Maybe(Workspace)] /\ r.column \in [Window -> Maybe(Column)]
    BY <1>2, <1>4 DEF Put, Maybe
  <2>3. r.focusMode \in [Workspace -> {"tiling", "floating"}]
    BY <1>2, <1>4 DEF Put
  <2> QED
    BY <1>1, <1>3, <2>1, <2>2, <2>3 DEF TreeType
<1>11. PlaceInv(r)
  <2>1. \A u \in Workspace : IsInjective(r.floating[u])
    BY <1>1, <1>7, <1>8 DEF PlaceInv
  <2>2. \A x \in Window : \A d \in Column : x \in ToSet(r.children[d]) <=> r.column[x] = d
    BY <1>1, <1>3, <1>9 DEF PlaceInv
  <2>3. ASSUME NEW x \in Window, NEW u \in Workspace
        PROVE  x \in ToSet(r.floating[u]) <=> r.workspace[x] = u /\ r.column[x] = None
    <3>1. x \in ToSet(t.floating[u]) <=> t.workspace[x] = u /\ t.column[x] = None
      BY <1>1 DEF PlaceInv
    <3>2. u # None
      BY NodesAssumption
    <3> QED
      BY <1>7, <1>8, <1>9, <3>1, <3>2
  <2>4. ASSUME NEW x \in Window, r.column[x] # None
        PROVE  r.workspace[x] \in Workspace /\ r.column[x] \in ToSet(r.columns[r.workspace[x]])
    BY <1>1, <1>3, <1>9, <2>4 DEF PlaceInv
  <2>5. \A u \in Workspace \ r.workspaces : r.columns[u] = << >> /\ r.floating[u] = << >>
    BY <1>1, <1>3, <1>5, <1>8 DEF PlaceInv
  <2> QED
    BY <1>1, <1>3, <2>1, <2>2, <2>3, <2>4, <2>5 DEF PlaceInv
<1>12. PathInv(r)
  BY <1>1, <1>3, <1>8 DEF PathInv
<1>13. NoteType(r)
  BY <1>1, <1>2, <1>3 DEF NoteType, OtherType
<1>14. \A x \in Window : ShownAnew(r, x) \/ ShownAsBefore(t, r, x)
  BY <1>1, <1>3, <1>9 DEF ShownAsBefore, OutputInv
<1>15. r.output = [x \in Window |-> r.output[x]] /\ r.history = [x \in Window |-> r.history[x]]
  BY <1>3, <1>4
<1>16. OtherType(r) /\ OutputInv(r)
  BY <1>3, <1>10, <1>11, <1>13, <1>14, <1>15, ShownStill
<1> QED
  BY <1>2, <1>10, <1>11, <1>12, <1>16 DEF Inv, Moved

\* A stack of floating windows that has a window less
Unstacks(t, r, s, list) ==
  /\ Same(t, r, {"floating", "focusMode"})
  /\ r.floating = Put(t.floating, s, list)
  /\ r.focusMode = Put(t.focusMode, s, IF list = << >> THEN "tiling" ELSE t.focusMode[s])

\* The window that comes to the fore is reconciled with where it is already, in both.
Alike(t, u, a, b, s) ==
  \/ u = t /\ b = a
  \/ \E x \in Window : Tiled(t, u, x, t.column[x]) /\ Tiled(a, b, x, t.column[x])
  \/ \E x \in Window : Afloat(t, u, x, s) /\ Afloat(a, b, x, s)

LEMMA ReconcileAfterUnstacking ==
  ASSUME NEW t, Inv(t), NEW s, NEW list, NEW a, Unstacks(t, a, s, list), NEW u, NEW b,
         Same(t, u, {"workspace", "column", "history", "output", "dirty"}), Alike(t, u, a, b, s)
  PROVE  Unstacks(u, b, s, list)
<1>1. /\ a.workspace = t.workspace /\ a.column = t.column /\ a.history = t.history /\ a.output = t.output
      /\ a.dirty = t.dirty /\ a.colWorkspace = t.colWorkspace /\ a.colOutput = t.colOutput
      /\ Same(t, a, {"floating", "focusMode"})
      /\ a.floating = Put(t.floating, s, list)
      /\ a.focusMode = Put(t.focusMode, s, IF list = << >> THEN "tiling" ELSE t.focusMode[s])
  BY DEF Unstacks, Same, Fields
<1>2. CASE u = t /\ b = a
  BY <1>1, <1>2
<1>3. ASSUME NEW x \in Window, Tiled(t, u, x, t.column[x]), Tiled(a, b, x, t.column[x])
      PROVE  Same(u, b, {"floating", "focusMode"}) /\ b.floating = a.floating /\ b.focusMode = a.focusMode
  <2>1. /\ b.workspace = u.workspace /\ b.column = u.column /\ b.history = u.history
        /\ b.output = u.output /\ b.dirty = u.dirty
    BY <1>1, <1>3 DEF Tiled
  <2>2. Same(u, b, {"floating", "focusMode"})
    BY <1>1, <1>3, <2>1 DEF Tiled, Same
  <2>3. b.floating = a.floating /\ b.focusMode = a.focusMode
    BY <1>3 DEF Tiled, Same, Fields
  <2> QED
    BY <2>2, <2>3
<1>4. ASSUME NEW x \in Window, Afloat(t, u, x, s), Afloat(a, b, x, s)
      PROVE  Same(u, b, {"floating", "focusMode"}) /\ b.floating = a.floating /\ b.focusMode = a.focusMode
  <2>1. b.workspace = u.workspace /\ b.column = u.column /\ b.dirty = u.dirty
    BY <1>1, <1>4 DEF Afloat
  <2>2. Same(u, b, {"floating", "focusMode"})
    BY <1>1, <1>4, <2>1 DEF Afloat, Same
  <2>3. b.floating = a.floating /\ b.focusMode = a.focusMode
    BY <1>4 DEF Afloat, Same, Fields
  <2> QED
    BY <2>2, <2>3
<1>5. Same(u, b, {"floating", "focusMode"}) /\ b.floating = a.floating /\ b.focusMode = a.focusMode
  BY <1>1, <1>2, <1>3, <1>4 DEF Alike
<1>6. u.floating = t.floating /\ u.focusMode = t.focusMode
  BY DEF Same, Fields
<1> QED
  BY <1>1, <1>5, <1>6 DEF Unstacks

\* workspace_remove_floating
LEMMA RemoveFloatingKeeps ==
  ASSUME NEW t, Inv(t), NEW w \in Window, NEW s \in Workspace, t.workspace[w] = s, t.column[w] = None
  PROVE  LET r == RemoveFloating(t, s, w)
         IN  /\ Inv(r) /\ Same(t, r, FloatFields) /\ Moved(t, r, w, None, None)
<1> DEFINE rest == RemoveFirst(t.floating[s], w)
           a == [t EXCEPT !.floating[s] = rest,
                          !.focusMode[s] = IF rest = << >> THEN "tiling" ELSE @]
           tiling == ActiveTiling(t, s)
           b == IF rest # << >> THEN ReconcileFloating(a, Last(rest), s)
                ELSE IF tiling # None THEN ReconcileTiling(a, tiling, t.column[tiling]) ELSE a
           u == IF rest # << >> THEN ReconcileFloating(t, Last(rest), s)
                ELSE IF tiling # None THEN ReconcileTiling(t, tiling, t.column[tiling]) ELSE t
           d == IF w \in t.fullscreen THEN Mark(b, {t.output[w]}) ELSE b
           r == ReconcileDetached(d, w)
<1>1. TreeType(t) /\ PlaceInv(t) /\ DOMAIN t = Fields
  BY DEF Inv, TreeType
<1>2. RemoveFloating(t, s, w) = r
  BY DEF RemoveFloating
<1>3. rest \in Seq(Window) /\ ToSet(rest) = ToSet(t.floating[s]) \ {w}
  <2>1. t.floating[s] \in Seq(Window) /\ IsInjective(t.floating[s])
    BY <1>1 DEF TreeType, PlaceInv
  <2> QED
    BY <2>1, RemoveFirstSet
<1>r. rest = RemoveFirst(t.floating[s], w)
  OBVIOUS
<1> HIDE DEF rest
<1>4. Unstacks(t, a, s, rest) /\ DOMAIN a = Fields
  BY <1>1 DEF Unstacks, Same, Fields, Put
<1> HIDE DEF a
<1>5. rest # << >> => Last(rest) \in Window /\ Last(rest) \in ToSet(t.floating[s])
  BY <1>3, EmptyList
<1>6. tiling # None => tiling \in Window /\ t.column[tiling] \in Column
  <2>1. tiling # None => /\ tiling \in Window /\ t.activeColumn[s] \in Column
                         /\ t.column[tiling] = t.activeColumn[s]
    BY ActiveTilingHome
  <2> HIDE DEF tiling
  <2> QED
    BY <2>1
<1> HIDE DEF tiling
<1>7. Alike(t, u, a, b, s)
  <2>1. CASE rest # << >>
    <3>1. Afloat(t, u, Last(rest), s) /\ Afloat(a, b, Last(rest), s)
      BY <1>1, <1>4, <2>1, ReconcileFloatingSets
    <3> QED
      BY <1>5, <2>1, <3>1 DEF Alike
  <2>2. CASE rest = << >> /\ tiling # None
    <3>1. Tiled(t, u, tiling, t.column[tiling]) /\ Tiled(a, b, tiling, t.column[tiling])
      BY <1>1, <1>4, <2>2, ReconcileTilingSets
    <3> QED
      BY <1>6, <2>2, <3>1 DEF Alike
  <2> QED
    BY <2>1, <2>2 DEF Alike
<1>8. Inv(u) /\ Same(t, u, {"history", "output", "dirty"})
  <2>1. CASE rest # << >>
    <3>1. Inv(u) /\ Same(t, u, {"dirty"})
      BY <1>5, <2>1, ReconcileFloatingKeeps
    <3> QED
      BY <3>1 DEF Same
  <2>2. CASE rest = << >> /\ tiling # None
    BY <1>6, <2>2, ReconcileTilingKeeps
  <2>3. CASE rest = << >> /\ tiling = None
    BY <1>1, <2>3 DEF Same
  <2> QED
    BY <2>1, <2>2, <2>3
<1> HIDE DEF b, u
<1>9. /\ Same(u, b, {"floating", "focusMode"})
      /\ b.floating = Put(t.floating, s, rest)
      /\ b.focusMode = Put(t.focusMode, s, IF rest = << >> THEN "tiling" ELSE t.focusMode[s])
  <2>1. Same(t, u, {"workspace", "column", "history", "output", "dirty"})
    BY <1>8 DEF Same
  <2>2. Unstacks(u, b, s, rest)
    BY <1>4, <1>7, <2>1, ReconcileAfterUnstacking
  <2>3. u.floating = t.floating /\ u.focusMode = t.focusMode
    BY <1>8 DEF Same, Fields
  <2> QED
    BY <2>2, <2>3 DEF Unstacks
<1>10. u.dirty \subseteq Node /\ b.dirty = u.dirty
  BY <1>8, <1>9 DEF Inv, OtherType, NoteType, Same, Fields
<1>11. Same(b, d, {"dirty"}) /\ d.dirty \subseteq Node
  <2>1. CASE w \in t.fullscreen
    <3>1. t.output[w] \in Outputs(t) /\ t.outputs \in Seq(Output)
      BY <2>1 DEF Inv, OutputInv, OtherType
    <3>2. t.output[w] \in Output
      BY <3>1, EmptyList DEF Outputs
    <3>3. Same(b, d, {"dirty"}) /\ d.dirty = b.dirty \cup {t.output[w]}
      BY <1>9, <2>1, MarkEffect DEF Same
    <3> QED
      BY <1>10, <3>2, <3>3 DEF Node
  <2>2. CASE w \notin t.fullscreen
    BY <1>9, <1>10, <2>2 DEF Same
  <2> QED
    BY <2>1, <2>2
<1> HIDE DEF d
<1>12. Unplaced(d, r, w)
  BY <1>11, ReconcileDetachedSets DEF Same
<1> HIDE DEF r
<1>13. /\ u.workspace = t.workspace /\ u.column = t.column /\ u.floating = t.floating
       /\ u.focusMode = t.focusMode
  BY <1>8 DEF Same, Fields
<1>14. Unfloats(u, r, w, s)
  <2>1. /\ d.floating = b.floating /\ d.focusMode = b.focusMode
        /\ d.workspace = u.workspace /\ d.column = u.column
    BY <1>9, <1>11 DEF Same, Fields
  <2>2. r.floating = d.floating /\ r.focusMode = d.focusMode
    BY <1>12 DEF Unplaced, Same, Fields
  <2>3. r.dirty \subseteq Node
    BY <1>11, <1>12 DEF Unplaced, Node
  <2>4. Same(u, r, {"floating", "focusMode", "workspace", "column", "dirty"})
    BY <1>9, <1>11, <1>12 DEF Unplaced, Same
  <2>5. /\ r.workspace = Put(u.workspace, w, None) /\ r.column = Put(u.column, w, None)
        /\ r.floating = Put(u.floating, s, RemoveFirst(u.floating[s], w))
        /\ r.focusMode = Put(u.focusMode, s, IF RemoveFirst(u.floating[s], w) = << >> THEN "tiling"
                                             ELSE u.focusMode[s])
    BY <1>9, <1>12, <1>13, <1>r, <2>1, <2>2 DEF Unplaced
  <2> QED
    BY <2>3, <2>4, <2>5 DEF Unfloats
<1>15. Inv(r) /\ Same(u, r, FloatFields) /\ Moved(u, r, w, None, None)
  BY <1>8, <1>13, <1>14, UnfloatsKeeps
<1>16. Same(t, r, FloatFields) /\ Moved(t, r, w, None, None)
  BY <1>8, <1>13, <1>15 DEF Same, FloatFields, Moved
<1> QED
  BY <1>2, <1>15, <1>16

\* What window_detach changes
DetachFields == ColumnFields \cup FloatFields

\* window_detach
LEMMA DetachKeeps ==
  ASSUME NEW t, Inv(t), NEW w \in Window
  PROVE  LET r == Detach(t, w)
         IN  Inv(r) /\ Same(t, r, DetachFields) /\ Moved(t, r, w, None, None)
<1> DEFINE r == Detach(t, w)
<1>1. t.workspace \in [Window -> Maybe(Workspace)] /\ t.column \in [Window -> Maybe(Column)]
      /\ DOMAIN t = Fields
  BY DEF Inv, TreeType
<1>2. CASE IsTiling(t, w)
  <2>1. t.column[w] \in Column
    BY <1>1, <1>2 DEF IsTiling, Maybe
  <2>2. Inv(r) /\ Same(t, r, ColumnFields) /\ Moved(t, r, w, None, None)
    BY <1>2, <2>1, RemoveChildKeeps DEF Detach
  <2> QED
    BY <2>2 DEF Same, DetachFields
<1>3. CASE IsFloating(t, w)
  <2>1. t.column[w] = None /\ t.workspace[w] \in Workspace /\ ~IsTiling(t, w)
    BY <1>1, <1>3 DEF IsFloating, IsTiling, Maybe
  <2>2. Inv(r) /\ Same(t, r, FloatFields) /\ Moved(t, r, w, None, None)
    BY <1>3, <2>1, RemoveFloatingKeeps DEF Detach
  <2> QED
    BY <2>2 DEF Same, DetachFields
<1>4. CASE ~IsTiling(t, w) /\ ~IsFloating(t, w)
  <2>1. t.workspace[w] = None /\ t.column[w] = None /\ r = t
    BY <1>4 DEF IsTiling, IsFloating, Detach
  <2> QED
    BY <1>1, <2>1 DEF Same, Moved, Put
<1> QED
  BY <1>2, <1>3, <1>4

-----------------------------------------------------------------------------
(* Fullscreen windows. *)

\* What is beside the structure of the tree
OtherFields == Notes \cup {"outputs", "activeOutput", "status", "output", "history",
                           "fullscreen", "fullscreenWindows"}

\* What the invariant says of where a window is shown
Shown(t, w) ==
  /\ t.output[w] \in Maybe(Outputs(t)) /\ t.history[w] \in Seq(Outputs(t))
  /\ t.column[w] # None => t.output[w] \in ToSet(t.history[w])
  /\ t.column[w] # None /\ w \notin t.fullscreen => t.output[w] = t.colOutput[t.column[w]]
  /\ t.workspace[w] # None => t.history[w] # << >>
  /\ t.history[w] # << >> \/ w \in t.fullscreen => t.output[w] \in Outputs(t)
  /\ IsInjective(t.history[w])
  /\ t.history[w] # << >> => t.status[w] = "alive"

LEMMA ShownWell ==
  ASSUME NEW t, Inv(t), NEW w \in Window
  PROVE  Shown(t, w)
BY DEF Inv, OtherType, OutputInv, Shown

LEMMA BesideKeeps ==
  ASSUME NEW t, Inv(t), NEW r, Same(t, r, OtherFields),
         r.outputs = t.outputs, r.activeOutput = t.activeOutput,
         r.status \in [Window -> {"absent", "alive", "dead"}],
         r.fullscreen \subseteq Window, r.fullscreenWindows \in [Output -> Seq(Window)], NoteType(r),
         r.output = [x \in Window |-> r.output[x]], r.history = [x \in Window |-> r.history[x]],
         \A x \in Window : Shown(r, x)
  PROVE  Inv(r)
<1>1. TreeType(t) /\ OtherType(t) /\ PlaceInv(t) /\ PathInv(t) /\ OutputInv(t)
  BY DEF Inv
<1>2. /\ DOMAIN r = Fields /\ r.workspaces = t.workspaces /\ r.activeWorkspace = t.activeWorkspace
      /\ r.columns = t.columns /\ r.floating = t.floating /\ r.activeColumn = t.activeColumn
      /\ r.focusMode = t.focusMode /\ r.children = t.children /\ r.activeChild = t.activeChild
      /\ r.colWorkspace = t.colWorkspace /\ r.colOutput = t.colOutput
      /\ r.workspace = t.workspace /\ r.column = t.column
  BY DEF Same, Fields, OtherFields, Notes
<1>3. Outputs(r) = Outputs(t)
  BY DEF Outputs
<1>4. TreeType(r)
  BY <1>1, <1>2 DEF TreeType
<1>5. PlaceInv(r)
  BY <1>1, <1>2 DEF PlaceInv
<1>6. PathInv(r)
  BY <1>1, <1>2 DEF PathInv
<1>7. OutputInv(r)
  BY <1>1, <1>2, <1>3 DEF OutputInv, Shown
<1>8. OtherType(r)
  <2>1. r.output \in [Window -> Maybe(Outputs(r))] /\ r.history \in [Window -> Seq(Outputs(r))]
    BY DEF Shown
  <2>2. r.outputs \in Seq(Output) /\ r.activeOutput \in Maybe(Outputs(r))
    BY <1>1, <1>3 DEF OtherType
  <2> QED
    BY <2>1, <2>2 DEF OtherType
<1> QED
  BY <1>4, <1>5, <1>6, <1>7, <1>8 DEF Inv

\* Where a window is shown depends on nothing else.
LEMMA ShownSame ==
  ASSUME NEW t, NEW r, NEW w, Shown(t, w), r.outputs = t.outputs, r.colOutput = t.colOutput,
         r.output[w] = t.output[w], r.history[w] = t.history[w], r.column[w] = t.column[w],
         r.workspace[w] = t.workspace[w], r.status[w] = t.status[w],
         w \in r.fullscreen <=> w \in t.fullscreen
  PROVE  Shown(r, w)
BY DEF Shown, Outputs

\* What is a node
LEMMA PlaceNodes ==
  ASSUME NEW t, Inv(t)
  PROVE  /\ Outputs(t) \subseteq Output /\ Outputs(t) \subseteq Node
         /\ \A w \in Window : {t.workspace[w], t.column[w]} \ {None} \subseteq Node
<1>1. Outputs(t) \subseteq Output
  <2>1. t.outputs \in Seq(Output)
    BY DEF Inv, OtherType
  <2> QED
    BY <2>1, EmptyList DEF Outputs
<1>2. t.workspace \in [Window -> Maybe(Workspace)] /\ t.column \in [Window -> Maybe(Column)]
  BY DEF Inv, TreeType
<1> QED
  BY <1>1, <1>2 DEF Node, Maybe

\* An output is put into the history of a window next to the one that is there.
LEMMA HistoryInsert ==
  ASSUME NEW S, NEW h \in Seq(S), IsInjective(h), NEW o \in S, NEW current, current \in ToSet(RemoveFirst(h, o))
  PROVE  LET others == RemoveFirst(h, o)
             q == InsertAt(others, IndexIn(others, current), o)
         IN  q \in Seq(S) /\ IsInjective(q) /\ o \in ToSet(q) /\ q # << >> /\ h # << >>
<1> DEFINE others == RemoveFirst(h, o)
           i == IndexIn(others, current)
           q == InsertAt(others, i, o)
<1>1. others \in Seq(S) /\ IsInjective(others) /\ ToSet(others) = ToSet(h) \ {o}
  BY RemoveFirstSet
<1>2. current \in ToSet(others)
  OBVIOUS
<1> HIDE DEF others
<1>3. i \in 1..Len(others) /\ Len(others) \in Nat
  BY <1>1, <1>2, IndexFound
<1> HIDE DEF i
<1>4. i \in 1..(Len(others) + 1) /\ o \notin ToSet(others)
  BY <1>1, <1>3
<1>5. q \in Seq(S) /\ IsInjective(q) /\ ToSet(q) = ToSet(others) \cup {o} /\ q # << >>
  BY <1>1, <1>4, InsertAtSet
<1>6. h # << >>
  BY <1>1, <1>2 DEF ToSet
<1> HIDE DEF q
<1>7. q \in Seq(S) /\ IsInjective(q) /\ o \in ToSet(q) /\ q # << >> /\ h # << >>
  BY <1>5, <1>6
<1> QED
  BY <1>7 DEF q, i, others

\* What window_fullscreen_on_output changes
FullscreenFields == {"fullscreenWindows", "fullscreen", "history", "output", "dirty", "crashed"}

\* A window has become fullscreen, and its history is q.
Fills(t, r, w, o, q) ==
  /\ Same(t, r, FullscreenFields) /\ r.crashed = t.crashed
  /\ r.history = Put(t.history, w, q) /\ r.output = Put(t.output, w, o)
  /\ r.fullscreen = t.fullscreen \cup {w}
  /\ r.fullscreenWindows \in [Output -> Seq(Window)]
  /\ r.dirty \subseteq Node

LEMMA FillsKeeps ==
  ASSUME NEW t, Inv(t), NEW w \in Window, NEW o \in Outputs(t), NEW q \in Seq(Outputs(t)),
         IsInjective(q), t.column[w] # None => o \in ToSet(q), q = << >> <=> t.history[w] = << >>,
         NEW r, Fills(t, r, w, o, q)
  PROVE  Inv(r)
<1>1. /\ Same(t, r, OtherFields) /\ NoteType(t) /\ TreeType(t)
      /\ t.status \in [Window -> {"absent", "alive", "dead"}] /\ t.fullscreen \subseteq Window
      /\ t.output \in [Window -> Maybe(Outputs(t))] /\ t.history \in [Window -> Seq(Outputs(t))]
  BY DEF Inv, OtherType, Fills, Same, OtherFields, FullscreenFields, Notes
<1>2. /\ r.outputs = t.outputs /\ r.activeOutput = t.activeOutput /\ r.status = t.status
      /\ r.column = t.column /\ r.workspace = t.workspace /\ r.colOutput = t.colOutput
      /\ r.overlay = t.overlay /\ r.focused = t.focused /\ r.crashed = t.crashed
      /\ r.fullscreen = t.fullscreen \cup {w} /\ r.dirty \subseteq Node
      /\ r.fullscreenWindows \in [Output -> Seq(Window)]
  BY DEF Fills, Same, Fields, FullscreenFields
<1>3. NoteType(r)
  BY <1>1, <1>2 DEF NoteType
<1>4. /\ r.output = [x \in Window |-> IF x = w THEN o ELSE t.output[x]]
      /\ r.history = [x \in Window |-> IF x = w THEN q ELSE t.history[x]]
  BY <1>1 DEF Fills, Put
<1>5. ASSUME NEW x \in Window PROVE Shown(r, x)
  <2>1. CASE x = w
    <3>1. Shown(t, w)
      BY ShownWell
    <3>2. r.output[w] = o /\ r.history[w] = q /\ Outputs(r) = Outputs(t)
      BY <1>2, <1>4 DEF Outputs
    <3> QED
      BY <1>2, <2>1, <3>1, <3>2 DEF Shown, Maybe
  <2>2. CASE x # w
    BY <1>2, <1>4, <2>2, ShownWell, ShownSame
  <2> QED
    BY <2>1, <2>2
<1>6. r.output = [x \in Window |-> r.output[x]] /\ r.history = [x \in Window |-> r.history[x]]
  BY <1>4
<1> QED
  BY <1>1, <1>2, <1>3, <1>5, <1>6, BesideKeeps

\* An assertion of the code fails.
LEMMA CrashKeeps ==
  ASSUME NEW t, Inv(t)
  PROVE  LET r == [t EXCEPT !.crashed = TRUE] IN Inv(r) /\ Same(t, r, {"crashed"})
<1> DEFINE r == [t EXCEPT !.crashed = TRUE]
<1>1. DOMAIN t = Fields /\ NoteType(t)
  BY DEF Inv, TreeType, OtherType
<1>2. Same(t, r, {"crashed"}) /\ r.crashed = TRUE
  BY <1>1 DEF Same, Fields
<1> HIDE DEF r
<1>3. Same(t, r, Notes) /\ NoteType(r)
  BY <1>1, <1>2 DEF Same, Notes, Fields, NoteType
<1>4. Inv(r)
  BY <1>3, Quiet
<1> QED
  BY <1>2, <1>4 DEF r

\* window_fullscreen_on_output
LEMMA FullscreenOnKeeps ==
  ASSUME NEW t, Inv(t), NEW w \in Window, NEW o \in Outputs(t)
  PROVE  LET r == FullscreenOn(t, w, o) IN Inv(r) /\ Same(t, r, FullscreenFields)
<1> DEFINE current == t.output[w]
           left == IF w \notin t.fullscreen THEN t
                   ELSE Mark([t EXCEPT !.fullscreenWindows[o] = RemoveFirst(@, w)], {current})
           marked == Mark(left, {t.workspace[w], t.column[w]} \ {None})
           others == RemoveFirst(t.history[w], o)
           h == InsertAt(others, IndexIn(others, current), o)
           moved == IF o = current THEN marked
                    ELSE [marked EXCEPT !.history[w] = h, !.output[w] = o]
           r == [moved EXCEPT !.fullscreenWindows[o] = Append(@, w),
                              !.fullscreen = @ \cup {w}, !.dirty = @ \cup {o}]
           q == IF o = current THEN t.history[w] ELSE h
<1>1. /\ DOMAIN t = Fields /\ o \in Output /\ o \in Node /\ t.dirty \subseteq Node
      /\ t.fullscreenWindows \in [Output -> Seq(Window)]
      /\ t.output \in [Window -> Maybe(Outputs(t))] /\ t.history \in [Window -> Seq(Outputs(t))]
  <2>1. o \in Output /\ o \in Node
    BY PlaceNodes
  <2> QED
    BY <2>1 DEF Inv, TreeType, OtherType, NoteType
<1>2. FullscreenOn(t, w, o) =
        IF w \in t.fullscreen /\ o = current THEN t
        ELSE IF o # current /\ ~Contains(others, current) THEN [t EXCEPT !.crashed = TRUE]
        ELSE r
  BY DEF FullscreenOn
<1>3. /\ Same(t, left, {"fullscreenWindows", "dirty"}) /\ left.dirty \subseteq Node
      /\ left.fullscreenWindows \in [Output -> Seq(Window)]
  <2>1. CASE w \notin t.fullscreen
    BY <1>1, <2>1 DEF Same
  <2>2. CASE w \in t.fullscreen
    <3>1. current \in Node
      <4>1. current \in Outputs(t)
        BY <2>2 DEF Inv, OutputInv
      <4> QED
        BY <4>1, PlaceNodes
    <3> DEFINE a == [t EXCEPT !.fullscreenWindows[o] = RemoveFirst(@, w)]
    <3>2. Same(t, a, {"fullscreenWindows"}) /\ DOMAIN a = Fields
          /\ a.fullscreenWindows = Put(t.fullscreenWindows, o, RemoveFirst(t.fullscreenWindows[o], w))
      BY <1>1 DEF Same, Fields, Put
    <3>3. left = Mark(a, {current})
      BY <2>2
    <3> HIDE DEF a
    <3>4. Same(a, left, {"dirty"}) /\ left.dirty = a.dirty \cup {current}
      BY <3>2, <3>3, MarkEffect
    <3>5. RemoveFirst(t.fullscreenWindows[o], w) \in Seq(Window)
      BY <1>1, RemoveFirstType
    <3>6. a.fullscreenWindows \in [Output -> Seq(Window)]
      BY <1>1, <3>2, <3>5 DEF Put
    <3> HIDE DEF left
    <3> QED
      BY <1>1, <3>1, <3>2, <3>4, <3>6 DEF Same, Fields
  <2> QED
    BY <2>1, <2>2
<1> HIDE DEF left
<1>4. Same(left, marked, {"dirty"}) /\ marked.dirty \subseteq Node
  <2>1. {t.workspace[w], t.column[w]} \ {None} \subseteq Node
    BY PlaceNodes
  <2>2. Same(left, marked, {"dirty"}) /\ marked.dirty = left.dirty \cup ({t.workspace[w], t.column[w]} \ {None})
    BY <1>3, MarkEffect DEF Same
  <2> HIDE DEF marked
  <2> QED
    BY <1>3, <2>1, <2>2
<1> HIDE DEF marked
<1>5. /\ Same(t, marked, {"fullscreenWindows", "dirty"})
      /\ marked.fullscreenWindows \in [Output -> Seq(Window)]
  BY <1>3, <1>4 DEF Same, Fields
<1>6. Contains(others, current) <=> current \in ToSet(others)
  <2>1. others \in Seq(Outputs(t))
    BY <1>1, RemoveFirstType
  <2> QED
    BY <2>1, EmptyList
<1>h. h = InsertAt(others, IndexIn(others, current), o)
  OBVIOUS
<1>o. others = RemoveFirst(t.history[w], o)
  OBVIOUS
<1> HIDE DEF h
<1>7. /\ Same(marked, moved, {"history", "output"})
      /\ moved.history = (IF o = current THEN marked.history ELSE Put(marked.history, w, h))
      /\ moved.output = (IF o = current THEN marked.output ELSE Put(marked.output, w, o))
  BY <1>5 DEF Same, Fields, Put
<1> HIDE DEF moved
<1>8. /\ Same(t, moved, {"fullscreenWindows", "dirty", "history", "output"})
      /\ DOMAIN moved = Fields
      /\ moved.history = Put(t.history, w, q) /\ moved.output = Put(t.output, w, o)
      /\ moved.fullscreenWindows \in [Output -> Seq(Window)] /\ moved.dirty \subseteq Node
  <2>1. marked.history = t.history /\ marked.output = t.output
    BY <1>5 DEF Same, Fields
  <2>2. o = current => Put(t.history, w, t.history[w]) = t.history /\ Put(t.output, w, o) = t.output
    BY <1>1 DEF Put
  <2> QED
    BY <1>4, <1>5, <1>7, <2>1, <2>2 DEF Same, Fields
<1>9. Fills(t, r, w, o, q)
  <2>1. /\ Same(moved, r, {"fullscreenWindows", "fullscreen", "dirty"})
        /\ r.fullscreenWindows = Put(moved.fullscreenWindows, o, Append(moved.fullscreenWindows[o], w))
        /\ r.fullscreen = moved.fullscreen \cup {w} /\ r.dirty = moved.dirty \cup {o}
    BY <1>8 DEF Same, Fields, Put
  <2> HIDE DEF r, q
  <2>2. r.fullscreenWindows \in [Output -> Seq(Window)]
    <3>1. Append(moved.fullscreenWindows[o], w) \in Seq(Window)
      BY <1>1, <1>8
    <3> QED
      BY <1>1, <1>8, <2>1, <3>1 DEF Put
  <2>3. /\ Same(t, r, FullscreenFields) /\ r.crashed = t.crashed /\ r.fullscreen = t.fullscreen \cup {w}
        /\ r.history = moved.history /\ r.output = moved.output
    BY <1>8, <2>1 DEF Same, Fields, FullscreenFields
  <2> QED
    BY <1>1, <1>8, <2>1, <2>2, <2>3 DEF Fills
<1> HIDE DEF r
<1>10. ASSUME o = current \/ Contains(others, current)
       PROVE  Inv(r)
  <2>1. Shown(t, w)
    BY ShownWell
  <2>2. CASE o = current
    <3>1. /\ q \in Seq(Outputs(t)) /\ IsInjective(q) /\ (t.column[w] # None => o \in ToSet(q))
          /\ (q = << >> <=> t.history[w] = << >>)
      BY <2>1, <2>2 DEF Shown
    <3> HIDE DEF q
    <3> QED
      BY <1>9, <3>1, FillsKeeps
  <2>3. CASE o # current
    <3>1. current \in ToSet(others)
      BY <1>6, <1>10, <2>3
    <3>2. t.history[w] \in Seq(Outputs(t)) /\ IsInjective(t.history[w])
      BY <2>1 DEF Shown
    <3> HIDE DEF others, current
    <3>3. h \in Seq(Outputs(t)) /\ IsInjective(h) /\ o \in ToSet(h) /\ h # << >> /\ t.history[w] # << >>
      BY <1>h, <1>o, <3>1, <3>2, HistoryInsert
    <3>4. /\ q \in Seq(Outputs(t)) /\ IsInjective(q) /\ (t.column[w] # None => o \in ToSet(q))
          /\ (q = << >> <=> t.history[w] = << >>)
      BY <2>3, <3>3
    <3> HIDE DEF q
    <3> QED
      BY <1>9, <3>4, FillsKeeps
  <2> QED
    BY <2>2, <2>3
<1>11. Inv([t EXCEPT !.crashed = TRUE]) /\ Same(t, [t EXCEPT !.crashed = TRUE], FullscreenFields)
  <2>1. Inv([t EXCEPT !.crashed = TRUE]) /\ Same(t, [t EXCEPT !.crashed = TRUE], {"crashed"})
    BY CrashKeeps
  <2> DEFINE k == [t EXCEPT !.crashed = TRUE]
  <2> HIDE DEF k
  <2>2. Same(t, k, {"crashed"}) => Same(t, k, FullscreenFields)
    BY DEF Same, FullscreenFields
  <2> QED
    BY <2>1, <2>2 DEF k
<1>12. Same(t, t, FullscreenFields) /\ Same(t, r, FullscreenFields)
  BY <1>1, <1>9 DEF Same, Fills
<1> QED
  BY <1>2, <1>10, <1>11, <1>12

\* A window is no longer fullscreen, and is shown on output o with history q.
Unfills(t, r, w, o, q) ==
  /\ Same(t, r, FullscreenFields) /\ r.crashed = t.crashed
  /\ r.history = Put(t.history, w, q) /\ r.output = Put(t.output, w, o)
  /\ r.fullscreen = t.fullscreen \ {w}
  /\ r.fullscreenWindows \in [Output -> Seq(Window)]
  /\ r.dirty \subseteq Node

LEMMA UnfillsKeeps ==
  ASSUME NEW t, Inv(t), NEW w \in Window, NEW o \in Outputs(t), NEW q \in Seq(Outputs(t)),
         IsInjective(q), t.column[w] # None => o \in ToSet(q) /\ o = t.colOutput[t.column[w]],
         q = << >> <=> t.history[w] = << >>,
         NEW r, Unfills(t, r, w, o, q)
  PROVE  Inv(r)
<1>1. /\ Same(t, r, OtherFields) /\ NoteType(t) /\ TreeType(t)
      /\ t.status \in [Window -> {"absent", "alive", "dead"}] /\ t.fullscreen \subseteq Window
      /\ t.output \in [Window -> Maybe(Outputs(t))] /\ t.history \in [Window -> Seq(Outputs(t))]
  BY DEF Inv, OtherType, Unfills, Same, OtherFields, FullscreenFields, Notes
<1>2. /\ r.outputs = t.outputs /\ r.activeOutput = t.activeOutput /\ r.status = t.status
      /\ r.column = t.column /\ r.workspace = t.workspace /\ r.colOutput = t.colOutput
      /\ r.overlay = t.overlay /\ r.focused = t.focused /\ r.crashed = t.crashed
      /\ r.fullscreen = t.fullscreen \ {w} /\ r.dirty \subseteq Node
      /\ r.fullscreenWindows \in [Output -> Seq(Window)]
  BY DEF Unfills, Same, Fields, FullscreenFields
<1>3. NoteType(r)
  BY <1>1, <1>2 DEF NoteType
<1>4. /\ r.output = [x \in Window |-> IF x = w THEN o ELSE t.output[x]]
      /\ r.history = [x \in Window |-> IF x = w THEN q ELSE t.history[x]]
  BY <1>1 DEF Unfills, Put
<1>5. ASSUME NEW x \in Window PROVE Shown(r, x)
  <2>1. CASE x = w
    <3>1. Shown(t, w)
      BY ShownWell
    <3>2. r.output[w] = o /\ r.history[w] = q /\ Outputs(r) = Outputs(t)
      BY <1>2, <1>4 DEF Outputs
    <3> QED
      BY <1>2, <2>1, <3>1, <3>2 DEF Shown, Maybe
  <2>2. CASE x # w
    BY <1>2, <1>4, <2>2, ShownWell, ShownSame
  <2> QED
    BY <2>1, <2>2
<1>6. r.output = [x \in Window |-> r.output[x]] /\ r.history = [x \in Window |-> r.history[x]]
  BY <1>4
<1> QED
  BY <1>1, <1>2, <1>3, <1>5, <1>6, BesideKeeps

\* window_unfullscreen, of a window that is in the tree
LEMMA UnfullscreenKeeps ==
  ASSUME NEW t, Inv(t), NEW w \in Window, t.workspace[w] # None
  PROVE  LET r == Unfullscreen(t, w) IN Inv(r) /\ Same(t, r, FullscreenFields)
<1> DEFINE lists == [o \in Output |-> RemoveFirst(t.fullscreenWindows[o], w)]
           a == [t EXCEPT !.fullscreen = @ \ {w}, !.fullscreenWindows = lists]
           c == t.column[w]
           home == t.colOutput[c]
           others == RemoveFirst(t.history[w], home)
           h == InsertAt(others, IndexIn(others, t.output[w]), home)
           b == IF home = t.output[w] THEN a ELSE [a EXCEPT !.history[w] = h, !.output[w] = home]
           tiled == Mark(b, {c})
           floating == Mark(a, {t.workspace[w]})
           q == IF home = t.output[w] THEN t.history[w] ELSE h
<1>1. /\ DOMAIN t = Fields /\ t.dirty \subseteq Node /\ t.fullscreen \subseteq Window
      /\ t.fullscreenWindows \in [Output -> Seq(Window)]
      /\ t.output \in [Window -> Maybe(Outputs(t))] /\ t.history \in [Window -> Seq(Outputs(t))]
      /\ t.column \in [Window -> Maybe(Column)]
  BY DEF Inv, TreeType, OtherType, NoteType
<1>2. Unfullscreen(t, w) = IF w \notin t.fullscreen THEN t
                           ELSE IF IsTiling(t, w) THEN tiled ELSE floating
  BY DEF Unfullscreen
<1>3. /\ Same(t, a, {"fullscreen", "fullscreenWindows"}) /\ DOMAIN a = Fields
      /\ a.fullscreen = t.fullscreen \ {w} /\ a.fullscreenWindows = lists
  BY <1>1 DEF Same, Fields
<1>4. lists \in [Output -> Seq(Window)]
  <2>1. \A o \in Output : RemoveFirst(t.fullscreenWindows[o], w) \in Seq(Window)
    BY <1>1, RemoveFirstType
  <2> QED
    BY <2>1
<1> HIDE DEF a, lists
<1>5. Shown(t, w) /\ t.history[w] # << >>
  BY ShownWell DEF Inv, OutputInv
<1>6. t.output[w] \in Outputs(t)
  BY <1>5 DEF Shown
<1>7. ASSUME IsTiling(t, w) PROVE Inv(tiled) /\ Same(t, tiled, FullscreenFields)
  <2>1. c \in Column /\ c # None
    BY <1>1, <1>7 DEF IsTiling, Maybe
  <2>2. c \in ToSet(t.columns[t.workspace[w]]) /\ t.workspace[w] \in Workspace
    BY <2>1, ChildHome
  <2>3. home \in Outputs(t)
    BY <2>2 DEF Inv, OutputInv
  <2>h. h = InsertAt(others, IndexIn(others, t.output[w]), home) /\ others = RemoveFirst(t.history[w], home)
    OBVIOUS
  <2> HIDE DEF h, others
  <2>4. home # t.output[w] =>
          h \in Seq(Outputs(t)) /\ IsInjective(h) /\ home \in ToSet(h) /\ h # << >>
    <3>1. t.history[w] \in Seq(Outputs(t)) /\ IsInjective(t.history[w]) /\ t.output[w] \in ToSet(t.history[w])
      BY <1>5, <2>1 DEF Shown
    <3>2. home # t.output[w] => t.output[w] \in ToSet(others)
      BY <2>h, <3>1, RemoveFirstSet
    <3> HIDE DEF home
    <3> QED
      BY <2>3, <2>h, <3>1, <3>2, HistoryInsert
  <2>5. /\ q \in Seq(Outputs(t)) /\ IsInjective(q) /\ home \in ToSet(q) /\ q # << >>
    BY <1>5, <2>1, <2>4 DEF Shown
  <2>6. /\ Same(a, b, {"history", "output"})
        /\ b.history = (IF home = t.output[w] THEN a.history ELSE Put(a.history, w, h))
        /\ b.output = (IF home = t.output[w] THEN a.output ELSE Put(a.output, w, home))
    BY <1>3 DEF Same, Fields, Put
  <2> HIDE DEF b
  <2>7. a.history = t.history /\ a.output = t.output
    BY <1>3 DEF Same, Fields
  <2>8. b.history = Put(t.history, w, q) /\ b.output = Put(t.output, w, home)
    <3>1. home = t.output[w] => Put(t.history, w, t.history[w]) = t.history /\ Put(t.output, w, home) = t.output
      BY <1>1 DEF Put
    <3> QED
      BY <2>6, <2>7, <3>1
  <2>9. Same(b, tiled, {"dirty"}) /\ tiled.dirty = b.dirty \cup {c}
    BY <2>6, MarkEffect DEF Same
  <2> HIDE DEF tiled, q
  <2>10. Unfills(t, tiled, w, home, q)
    <3>1. /\ tiled.history = b.history /\ tiled.output = b.output /\ tiled.fullscreen = a.fullscreen
          /\ tiled.fullscreenWindows = a.fullscreenWindows /\ b.dirty = t.dirty
          /\ tiled.crashed = t.crashed
      BY <1>3, <2>6, <2>9 DEF Same, Fields
    <3>2. Same(t, tiled, FullscreenFields)
      BY <1>3, <2>6, <2>9 DEF Same, FullscreenFields
    <3>3. tiled.dirty \subseteq Node
      BY <1>1, <2>1, <2>9, <3>1 DEF Node
    <3> QED
      BY <1>3, <1>4, <2>8, <3>1, <3>2, <3>3 DEF Unfills
  <2>11. Inv(tiled)
    <3> HIDE DEF home
    <3>1. t.column[w] # None => home \in ToSet(q) /\ home = t.colOutput[t.column[w]]
      BY <2>5 DEF home
    <3> QED
      BY <1>5, <2>3, <2>5, <2>10, <3>1, UnfillsKeeps
  <2> QED
    BY <2>10, <2>11 DEF Unfills
<1>8. ASSUME ~IsTiling(t, w) PROVE Inv(floating) /\ Same(t, floating, FullscreenFields)
  <2>1. t.column[w] = None
    BY <1>8 DEF IsTiling
  <2>2. Same(a, floating, {"dirty"}) /\ floating.dirty = a.dirty \cup {t.workspace[w]}
    BY <1>3, MarkEffect
  <2> HIDE DEF floating
  <2>3. t.workspace[w] \in Node
    <3>1. {t.workspace[w], t.column[w]} \ {None} \subseteq Node
      BY PlaceNodes
    <3> QED
      BY <3>1
  <2>4. Unfills(t, floating, w, t.output[w], t.history[w])
    <3>1. /\ floating.history = t.history /\ floating.output = t.output /\ floating.fullscreen = a.fullscreen
          /\ floating.fullscreenWindows = a.fullscreenWindows /\ a.dirty = t.dirty
          /\ floating.crashed = t.crashed
      BY <1>3, <2>2 DEF Same, Fields
    <3>2. Same(t, floating, FullscreenFields)
      BY <1>3, <2>2 DEF Same, FullscreenFields
    <3>3. floating.dirty \subseteq Node
      BY <1>1, <2>2, <2>3, <3>1
    <3>4. Put(t.history, w, t.history[w]) = t.history /\ Put(t.output, w, t.output[w]) = t.output
      BY <1>1 DEF Put
    <3> QED
      BY <1>3, <1>4, <3>1, <3>2, <3>3, <3>4 DEF Unfills
  <2>5. t.history[w] \in Seq(Outputs(t)) /\ IsInjective(t.history[w])
    BY <1>5 DEF Shown
  <2>6. Inv(floating)
    BY <1>6, <2>1, <2>4, <2>5, UnfillsKeeps
  <2> QED
    BY <2>4, <2>6 DEF Unfills
<1>9. Same(t, t, FullscreenFields)
  BY <1>1 DEF Same
<1> QED
  BY <1>2, <1>7, <1>8, <1>9

-----------------------------------------------------------------------------
(* Windows are destroyed. *)

\* What window_begin_destroy changes
DestroyFields == DetachFields \cup {"fullscreenWindows", "status"}

\* window_begin_destroy
LEMMA BeginDestroyKeeps ==
  ASSUME NEW t, Inv(t), NEW w \in Window
  PROVE  LET r == BeginDestroy(t, w)
         IN  /\ Inv(r) /\ Same(t, r, DestroyFields) /\ Moved(t, r, w, None, None)
             /\ r.status = Put(t.status, w, "dead")
<1> DEFINE a == Detach(t, w)
           on == IF w \in t.fullscreen THEN ToSet(a.history[w]) ELSE {}
           lists == [o \in Output |-> IF o \in on THEN RemoveFirst(a.fullscreenWindows[o], w)
                                      ELSE a.fullscreenWindows[o]]
           r == [a EXCEPT !.fullscreenWindows = lists, !.history[w] = << >>, !.status[w] = "dead",
                          !.dirty = @ \cup on \cup {w}]
<1>1. BeginDestroy(t, w) = r
  BY DEF BeginDestroy
<1>2. Inv(a) /\ Same(t, a, DetachFields) /\ Moved(t, a, w, None, None)
  BY DetachKeeps
<1> HIDE DEF a
<1>3. /\ TreeType(a) /\ NoteType(a) /\ a.dirty \subseteq Node /\ DOMAIN a = Fields /\ a.fullscreen \subseteq Window
      /\ a.status \in [Window -> {"absent", "alive", "dead"}]
      /\ a.fullscreenWindows \in [Output -> Seq(Window)]
      /\ a.output \in [Window -> Maybe(Outputs(a))] /\ a.history \in [Window -> Seq(Outputs(a))]
  BY <1>2 DEF Inv, TreeType, OtherType, NoteType
<1>4. on \subseteq Node
  <2>1. a.history[w] \in Seq(Outputs(a))
    BY <1>3
  <2>2. ToSet(a.history[w]) \subseteq Outputs(a) /\ Outputs(a) \subseteq Node
    BY <1>2, <2>1, EmptyList, PlaceNodes
  <2> QED
    BY <2>2
<1> HIDE DEF on
<1>5. lists \in [Output -> Seq(Window)]
  <2>1. \A o \in Output : RemoveFirst(a.fullscreenWindows[o], w) \in Seq(Window)
    BY <1>3, RemoveFirstType
  <2> QED
    BY <1>3, <2>1
<1> HIDE DEF lists
<1>6. /\ Same(a, r, {"fullscreenWindows", "history", "status", "dirty"})
      /\ r.fullscreenWindows = lists /\ r.history = Put(a.history, w, << >>)
      /\ r.status = Put(a.status, w, "dead") /\ r.dirty = a.dirty \cup on \cup {w}
  BY <1>3 DEF Same, Fields, Put
<1> HIDE DEF r
<1>7. /\ r.outputs = a.outputs /\ r.activeOutput = a.activeOutput /\ r.output = a.output
      /\ r.column = a.column /\ r.workspace = a.workspace /\ r.colOutput = a.colOutput
      /\ r.overlay = a.overlay /\ r.focused = a.focused /\ r.crashed = a.crashed
      /\ r.fullscreen = a.fullscreen
  BY <1>6 DEF Same, Fields
<1>8. a.column[w] = None /\ a.workspace[w] = None
  <2>1. t.workspace \in [Window -> Maybe(Workspace)] /\ t.column \in [Window -> Maybe(Column)]
    BY DEF Inv, TreeType
  <2> QED
    BY <1>2, <2>1 DEF Moved, Put
<1>9. ASSUME NEW x \in Window PROVE Shown(r, x)
  <2>1. CASE x = w
    <3>1. Shown(a, w)
      BY <1>2, ShownWell
    <3>2. r.history[w] = << >> /\ Outputs(r) = Outputs(a) /\ IsInjective(<< >>)
          /\ << >> \in Seq(Outputs(r))
      BY <1>3, <1>6, <1>7 DEF Put, Outputs, IsInjective
    <3> QED
      BY <1>7, <1>8, <2>1, <3>1, <3>2 DEF Shown
  <2>2. CASE x # w
    <3>1. r.history[x] = a.history[x] /\ r.status[x] = a.status[x]
      BY <1>3, <1>6, <2>2 DEF Put
    <3> QED
      BY <1>2, <1>7, <3>1, ShownWell, ShownSame
  <2> QED
    BY <2>1, <2>2
<1>10. r.output = [x \in Window |-> r.output[x]] /\ r.history = [x \in Window |-> r.history[x]]
       /\ r.status \in [Window -> {"absent", "alive", "dead"}]
  BY <1>3, <1>6, <1>7 DEF Put
<1>11. NoteType(r)
  BY <1>3, <1>4, <1>6, <1>7 DEF NoteType, Node
<1>12. Same(a, r, OtherFields)
  BY <1>6 DEF Same, OtherFields, Notes
<1>13. Inv(r)
  BY <1>2, <1>3, <1>5, <1>6, <1>7, <1>9, <1>10, <1>11, <1>12, BesideKeeps
<1>14. Same(t, r, DestroyFields) /\ Moved(t, r, w, None, None)
  BY <1>2, <1>6, <1>7 DEF Same, DestroyFields, DetachFields, ColumnFields, FloatFields, Moved
<1>15. r.status = Put(t.status, w, "dead")
  BY <1>2, <1>6 DEF Same, Fields, DetachFields, ColumnFields, FloatFields
<1> QED
  BY <1>1, <1>13, <1>14, <1>15

-----------------------------------------------------------------------------
(* Columns. *)

\* The first, last or next column on an output is one of the workspace.
LEMMA EndColumns ==
  ASSUME NEW t, Inv(t), NEW s \in Workspace, NEW o
  PROVE  /\ ColumnFirst(t, s, o) # None => /\ ColumnFirst(t, s, o) \in ToSet(t.columns[s])
                                           /\ t.colOutput[ColumnFirst(t, s, o)] = o
         /\ ColumnLast(t, s, o) # None => /\ ColumnLast(t, s, o) \in ToSet(t.columns[s])
                                          /\ t.colOutput[ColumnLast(t, s, o)] = o
<1> DEFINE places == ColumnsOn(t, s, o)
<1>1. t.columns[s] \in Seq(Column)
  BY DEF Inv, TreeType
<1>2. places \in SUBSET DOMAIN t.columns[s] /\ \A i \in places : t.colOutput[t.columns[s][i]] = o
  BY DEF ColumnsOn
<1>3. \A i \in DOMAIN t.columns[s] : t.columns[s][i] \in ToSet(t.columns[s])
  BY <1>1 DEF ToSet
<1>4. /\ ColumnFirst(t, s, o) = FirstOf(t.columns[s], places)
      /\ ColumnLast(t, s, o) = LastOf(t.columns[s], places)
  BY DEF ColumnFirst, ColumnLast
<1> HIDE DEF places
<1>5. /\ places # {} => \E i \in places : ColumnFirst(t, s, o) = t.columns[s][i]
      /\ places # {} => \E i \in places : ColumnLast(t, s, o) = t.columns[s][i]
      /\ places = {} => ColumnFirst(t, s, o) = None /\ ColumnLast(t, s, o) = None
  BY <1>1, <1>2, <1>4, PickedPlace
<1> QED
  BY <1>2, <1>3, <1>5

LEMMA BesideColumns ==
  ASSUME NEW t, Inv(t), NEW s \in Workspace, NEW c \in ToSet(t.columns[s])
  PROVE  /\ ColumnBefore(t, c) # None => /\ ColumnBefore(t, c) \in ToSet(t.columns[s]) \ {c}
                                         /\ t.colOutput[ColumnBefore(t, c)] = t.colOutput[c]
         /\ ColumnAfter(t, c) # None => /\ ColumnAfter(t, c) \in ToSet(t.columns[s]) \ {c}
                                        /\ t.colOutput[ColumnAfter(t, c)] = t.colOutput[c]
<1> DEFINE list == t.columns[s]
           i == IndexIn(list, c)
           before == {j \in ColumnsOn(t, s, t.colOutput[c]) : j < i}
           after == {j \in ColumnsOn(t, s, t.colOutput[c]) : j > i}
<1>1. list \in Seq(Column) /\ IsInjective(list) /\ t.colWorkspace[c] = s
  BY DEF Inv, TreeType, PlaceInv
<1>2. i \in 1..Len(list) /\ list[i] = c /\ Len(list) \in Nat /\ DOMAIN list = 1..Len(list)
  BY <1>1, IndexFound
<1>3. ColumnBefore(t, c) = LastOf(list, before) /\ ColumnAfter(t, c) = FirstOf(list, after)
  BY <1>1 DEF ColumnBefore, ColumnAfter
<1>l. list = t.columns[s]
  OBVIOUS
<1> HIDE DEF list, i
<1>4. /\ before \in SUBSET DOMAIN list /\ after \in SUBSET DOMAIN list
      /\ \A j \in before \cup after : j # i /\ t.colOutput[list[j]] = t.colOutput[c] /\ j \in DOMAIN list
  BY <1>2, <1>l DEF ColumnsOn
<1>5. \A j \in before \cup after : list[j] \in ToSet(list) \ {c}
  BY <1>1, <1>2, <1>4 DEF ToSet, IsInjective
<1> HIDE DEF before, after
<1>6. /\ before # {} => \E j \in before : ColumnBefore(t, c) = list[j]
      /\ before = {} => ColumnBefore(t, c) = None
  BY <1>1, <1>3, <1>4, PickedPlace
<1>7. /\ after # {} => \E j \in after : ColumnAfter(t, c) = list[j]
      /\ after = {} => ColumnAfter(t, c) = None
  BY <1>1, <1>3, <1>4, PickedPlace
<1> QED
  BY <1>4, <1>5, <1>6, <1>7, <1>l

\* A column that a window may be put into is one of the workspace, on the output.
LEMMA ColumnForHome ==
  ASSUME NEW t, Inv(t), NEW s \in Workspace, NEW o, ColumnFor(t, s, o) # None
  PROVE  ColumnFor(t, s, o) \in ToSet(t.columns[s])
<1>1. CASE t.activeColumn[s] # None /\ t.colOutput[t.activeColumn[s]] = o
  BY <1>1 DEF ColumnFor, Inv, PathInv, Maybe
<1>2. CASE ~(t.activeColumn[s] # None /\ t.colOutput[t.activeColumn[s]] = o)
  <2>1. ColumnFor(t, s, o) = ColumnFirst(t, s, o)
    BY <1>2 DEF ColumnFor
  <2> QED
    BY <2>1, EndColumns
<1> QED
  BY <1>1, <1>2

\* A column nothing refers to has no children.
LEMMA UnusedColumn ==
  ASSUME NEW t, Inv(t), NEW c \in Column, Unused(t, c)
  PROVE  /\ t.children[c] = << >> /\ t.activeChild[c] = None
         /\ \A s \in Workspace : c \notin ToSet(t.columns[s]) /\ t.activeColumn[s] # c
         /\ \A w \in Window : t.column[w] # c
<1>1. \A s \in Workspace : t.columns[s] \in Seq(Column)
  BY DEF Inv, TreeType
<1>2. /\ \A s \in Workspace : c \notin ToSet(t.columns[s]) /\ t.activeColumn[s] # c
      /\ \A w \in Window : t.column[w] # c
  BY <1>1, EmptyList DEF Unused
<1>3. t.children[c] \in Seq(Window)
  BY DEF Inv, TreeType
<1>4. ToSet(t.children[c]) = {}
  <2>1. \A w \in Window : w \notin ToSet(t.children[c])
    BY <1>2 DEF Inv, PlaceInv
  <2> QED
    BY <1>3, <2>1, EmptyList
<1>5. t.children[c] = << >>
  BY <1>3, <1>4, EmptyList
<1> QED
  BY <1>2, <1>5 DEF Inv, PathInv

\* There is a column left for column_create to allocate.
HasUnused(t) == \E c \in Column : Unused(t, c)

LEMMA NewColumnUnused ==
  ASSUME NEW t, HasUnused(t)
  PROVE  NewColumn(t) \in Column /\ Unused(t, NewColumn(t))
BY DEF HasUnused, NewColumn

\* What decides if a column is unused
LEMMA UnusedStays ==
  ASSUME NEW t, NEW r, HasUnused(t), r.columns = t.columns, r.activeColumn = t.activeColumn,
         r.pColumns = t.pColumns, \A x \in Window : r.column[x] \in {t.column[x], None}
  PROVE  HasUnused(r)
<1>1. PICK c \in Column : Unused(t, c)
  BY DEF HasUnused
<1>2. c # None
  BY NodesAssumption
<1>3. Unused(r, c)
  BY <1>1, <1>2 DEF Unused
<1> QED
  BY <1>3 DEF HasUnused

\* What a new column changes
NewFields == {"columns", "colWorkspace", "colOutput", "dirty"}

\* A workspace has got a column more, and none has lost any.
Widens(t, r, s, c) ==
  /\ Same(t, r, NewFields)
  /\ c \in ToSet(r.columns[s])
  /\ \A u \in Workspace : ToSet(t.columns[u]) \subseteq ToSet(r.columns[u])

\* workspace_insert_column_first, .._last
LEMMA InsertColumnKeeps ==
  ASSUME NEW t, Inv(t), NEW s \in t.workspaces, NEW o \in Outputs(t), NEW c \in Column, Unused(t, c),
         NEW i \in 1..(Len(t.columns[s]) + 1)
  PROVE  LET r == InsertColumn(t, s, o, i, c) IN Inv(r) /\ Widens(t, r, s, c)
<1> DEFINE q == InsertAt(t.columns[s], i, c)
           r == InsertColumn(t, s, o, i, c)
<1>1. /\ TreeType(t) /\ OtherType(t) /\ PlaceInv(t) /\ PathInv(t) /\ OutputInv(t) /\ NoteType(t)
      /\ DOMAIN t = Fields /\ t.workspaces \subseteq Workspace
      /\ t.columns \in [Workspace -> Seq(Column)]
      /\ t.colWorkspace \in [Column -> Maybe(Workspace)] /\ t.colOutput \in [Column -> Maybe(Output)]
  BY DEF Inv, TreeType, OtherType
<1>2. s \in Workspace /\ o \in Output /\ s \in Node /\ c \in Node
  <2>1. s \in Workspace
    BY <1>1
  <2> QED
    BY <2>1, PlaceNodes DEF Node
<1>3. /\ Same(t, r, NewFields)
      /\ r.columns = Put(t.columns, s, q) /\ r.colWorkspace = Put(t.colWorkspace, c, s)
      /\ r.colOutput = Put(t.colOutput, c, o) /\ r.dirty = t.dirty \cup {c, s}
  BY <1>1 DEF InsertColumn, Same, Fields, NewFields, Put
<1> HIDE DEF r
<1>4. /\ t.children[c] = << >> /\ t.activeChild[c] = None
      /\ \A u \in Workspace : c \notin ToSet(t.columns[u]) /\ t.activeColumn[u] # c
      /\ \A w \in Window : t.column[w] # c
  BY UnusedColumn
<1>5. q \in Seq(Column) /\ ToSet(q) = ToSet(t.columns[s]) \cup {c} /\ IsInjective(q)
  <2>1. t.columns[s] \in Seq(Column) /\ IsInjective(t.columns[s]) /\ c \notin ToSet(t.columns[s])
    BY <1>1, <1>2, <1>4 DEF PlaceInv
  <2> QED
    BY <2>1, InsertAtSet
<1> HIDE DEF q
<1>6. \A u \in Workspace : r.columns[u] = IF u = s THEN q ELSE t.columns[u]
  BY <1>1, <1>3 DEF Put
<1>7. \A d \in Column : /\ r.colWorkspace[d] = IF d = c THEN s ELSE t.colWorkspace[d]
                        /\ r.colOutput[d] = IF d = c THEN o ELSE t.colOutput[d]
  BY <1>1, <1>3 DEF Put
<1>8. /\ DOMAIN r = Fields /\ r.workspaces = t.workspaces /\ r.activeWorkspace = t.activeWorkspace
      /\ r.floating = t.floating /\ r.activeColumn = t.activeColumn /\ r.focusMode = t.focusMode
      /\ r.children = t.children /\ r.activeChild = t.activeChild
      /\ r.workspace = t.workspace /\ r.column = t.column
      /\ r.outputs = t.outputs /\ r.activeOutput = t.activeOutput /\ r.status = t.status
      /\ r.output = t.output /\ r.history = t.history
      /\ r.fullscreen = t.fullscreen /\ r.fullscreenWindows = t.fullscreenWindows
      /\ r.overlay = t.overlay /\ r.focused = t.focused /\ r.crashed = t.crashed
      /\ Outputs(r) = Outputs(t)
  BY <1>3 DEF Same, Fields, NewFields, Outputs
<1>9. TreeType(r)
  <2>1. r.columns \in [Workspace -> Seq(Column)]
    BY <1>1, <1>3, <1>5 DEF Put
  <2>2. r.colWorkspace \in [Column -> Maybe(Workspace)] /\ r.colOutput \in [Column -> Maybe(Output)]
    BY <1>1, <1>2, <1>3 DEF Put, Maybe
  <2> QED
    BY <1>1, <1>8, <2>1, <2>2 DEF TreeType
<1>10. \A u \in Workspace : ToSet(t.columns[u]) \subseteq ToSet(r.columns[u])
  BY <1>5, <1>6
<1>11. PlaceInv(r)
  <2>1. \A u \in Workspace : IsInjective(r.columns[u]) /\ IsInjective(r.floating[u])
    BY <1>1, <1>5, <1>6, <1>8 DEF PlaceInv
  <2>2. ASSUME NEW x \in Window, r.column[x] # None
        PROVE  r.workspace[x] \in Workspace /\ r.column[x] \in ToSet(r.columns[r.workspace[x]])
    <3>1. t.workspace[x] \in Workspace /\ t.column[x] \in ToSet(t.columns[t.workspace[x]])
      BY <1>1, <1>8, <2>2 DEF PlaceInv
    <3> QED
      BY <1>8, <1>10, <3>1
  <2>3. ASSUME NEW u \in Workspace, NEW d \in ToSet(r.columns[u])
        PROVE  r.colWorkspace[d] = u
    <3>1. d \in Column
      <4>1. r.columns[u] \in Seq(Column)
        BY <1>9 DEF TreeType
      <4> QED
        BY <4>1, EmptyList
    <3>2. CASE d = c
      BY <1>4, <1>6, <1>7, <2>3, <3>1, <3>2
    <3>3. CASE d # c
      BY <1>1, <1>5, <1>6, <1>7, <2>3, <3>1, <3>3 DEF PlaceInv
    <3> QED
      BY <3>2, <3>3
  <2>4. \A u \in Workspace \ r.workspaces : r.columns[u] = << >> /\ r.floating[u] = << >>
    BY <1>1, <1>6, <1>8 DEF PlaceInv
  <2> QED
    BY <1>1, <1>8, <2>1, <2>2, <2>3, <2>4 DEF PlaceInv
<1>12. PathInv(r)
  BY <1>1, <1>8, <1>10 DEF PathInv, Maybe
<1>13. OtherType(r)
  <2>1. NoteType(r)
    BY <1>1, <1>2, <1>3, <1>8 DEF NoteType
  <2> QED
    BY <1>1, <1>8, <2>1 DEF OtherType
<1>14. OutputInv(r)
  <2>1. ASSUME NEW u \in Workspace, NEW d \in ToSet(r.columns[u])
        PROVE  r.colOutput[d] \in Outputs(r)
    <3>1. d \in Column
      <4>1. r.columns[u] \in Seq(Column)
        BY <1>9 DEF TreeType
      <4> QED
        BY <4>1, EmptyList
    <3> QED
      BY <1>1, <1>5, <1>6, <1>7, <1>8, <2>1, <3>1 DEF OutputInv
  <2>2. ASSUME NEW x \in Window, r.column[x] # None
        PROVE  r.colOutput[r.column[x]] = t.colOutput[t.column[x]]
    <3>1. t.column[x] \in Column /\ t.column[x] # c
      BY <1>1, <1>4, <1>8, <2>2 DEF TreeType, Maybe
    <3> QED
      BY <1>7, <1>8, <3>1
  <2> QED
    BY <1>1, <1>8, <2>1, <2>2 DEF OutputInv
<1>15. Widens(t, r, s, c)
  BY <1>2, <1>3, <1>5, <1>6, <1>10 DEF Widens
<1> QED
  BY <1>9, <1>11, <1>12, <1>13, <1>14, <1>15 DEF Inv, r

\* workspace_insert_column_first, .._last, with the column that is created
LEMMA InsertNewKeeps ==
  ASSUME NEW t, Inv(t), HasUnused(t), NEW s \in t.workspaces, NEW o \in Outputs(t)
  PROVE  /\ Inv(InsertFirst(t, s, o)) /\ Widens(t, InsertFirst(t, s, o), s, NewColumn(t))
         /\ Inv(InsertLast(t, s, o)) /\ Widens(t, InsertLast(t, s, o), s, NewColumn(t))
<1> DEFINE n == Len(t.columns[s])
<1>1. n \in Nat
  <2>1. t.columns[s] \in Seq(Column)
    BY DEF Inv, TreeType
  <2> QED
    BY <2>1
<1>2. 1 \in 1..(n + 1) /\ n + 1 \in 1..(n + 1)
  BY <1>1
<1>3. NewColumn(t) \in Column /\ Unused(t, NewColumn(t))
  BY NewColumnUnused
<1> QED
  BY <1>2, <1>3, InsertColumnKeeps DEF InsertFirst, InsertLast

\* The column that EnsureColumn finds or creates
ColumnThere(t, s, o) == IF ColumnFor(t, s, o) # None THEN ColumnFor(t, s, o) ELSE NewColumn(t)

LEMMA EnsureColumnKeeps ==
  ASSUME NEW t, Inv(t), HasUnused(t), NEW s \in t.workspaces, NEW o \in Outputs(t)
  PROVE  LET r == EnsureColumn(t, s, o)
         IN  Inv(r) /\ Widens(t, r, s, ColumnThere(t, s, o)) /\ ColumnThere(t, s, o) \in Column
<1>1. s \in Workspace /\ t.columns[s] \in Seq(Column) /\ DOMAIN t = Fields
  BY DEF Inv, TreeType
<1>2. CASE ColumnFor(t, s, o) # None
  <2>1. ColumnFor(t, s, o) \in ToSet(t.columns[s])
    BY <1>1, <1>2, ColumnForHome
  <2>2. ColumnFor(t, s, o) \in Column
    BY <1>1, <2>1, EmptyList
  <2> QED
    BY <1>1, <1>2, <2>1, <2>2 DEF EnsureColumn, ColumnThere, Widens, Same
<1>3. CASE ColumnFor(t, s, o) = None
  <2>1. Inv(InsertFirst(t, s, o)) /\ Widens(t, InsertFirst(t, s, o), s, NewColumn(t)) /\ NewColumn(t) \in Column
    BY InsertNewKeeps, NewColumnUnused
  <2> QED
    BY <1>3, <2>1 DEF EnsureColumn, ColumnThere
<1> QED
  BY <1>2, <1>3

-----------------------------------------------------------------------------
(* Workspaces. *)

\* Only which workspaces there are has changed.
LEMMA WorkspacesKeep ==
  ASSUME NEW t, Inv(t), NEW r, Same(t, r, {"workspaces", "dirty"}), r.dirty \subseteq Node,
         r.workspaces \subseteq Workspace, t.activeWorkspace \in r.workspaces,
         \A s \in Workspace \ r.workspaces : t.columns[s] = << >> /\ t.floating[s] = << >>
  PROVE  Inv(r)
<1>1. TreeType(t) /\ OtherType(t) /\ PlaceInv(t) /\ PathInv(t) /\ OutputInv(t) /\ NoteType(t)
  BY DEF Inv, OtherType
<1>2. /\ DOMAIN r = Fields /\ r.activeWorkspace = t.activeWorkspace
      /\ r.columns = t.columns /\ r.floating = t.floating /\ r.activeColumn = t.activeColumn
      /\ r.focusMode = t.focusMode /\ r.children = t.children /\ r.activeChild = t.activeChild
      /\ r.colWorkspace = t.colWorkspace /\ r.colOutput = t.colOutput
      /\ r.workspace = t.workspace /\ r.column = t.column
      /\ r.outputs = t.outputs /\ r.activeOutput = t.activeOutput /\ r.status = t.status
      /\ r.output = t.output /\ r.history = t.history
      /\ r.fullscreen = t.fullscreen /\ r.fullscreenWindows = t.fullscreenWindows
      /\ r.overlay = t.overlay /\ r.focused = t.focused /\ r.crashed = t.crashed
      /\ Outputs(r) = Outputs(t)
  BY DEF Same, Fields, Outputs
<1>3. TreeType(r)
  BY <1>1, <1>2 DEF TreeType
<1>4. OtherType(r)
  BY <1>1, <1>2 DEF OtherType, NoteType
<1>5. PlaceInv(r)
  BY <1>1, <1>2 DEF PlaceInv
<1>6. PathInv(r)
  BY <1>1, <1>2 DEF PathInv
<1>7. OutputInv(r)
  BY <1>1, <1>2 DEF OutputInv
<1> QED
  BY <1>3, <1>4, <1>5, <1>6, <1>7 DEF Inv

\* workspace_create
LEMMA CreateWorkspaceKeeps ==
  ASSUME NEW t, Inv(t), NEW s \in Workspace
  PROVE  LET r == CreateWorkspace(t, s)
         IN  Inv(r) /\ Same(t, r, {"workspaces", "dirty"}) /\ r.workspaces = t.workspaces \cup {s}
<1> DEFINE r == [t EXCEPT !.workspaces = @ \cup {s}, !.dirty = @ \cup {s, Root}]
<1>1. /\ DOMAIN t = Fields /\ t.dirty \subseteq Node /\ t.workspaces \subseteq Workspace
      /\ t.activeWorkspace \in t.workspaces
      /\ \A u \in Workspace \ t.workspaces : t.columns[u] = << >> /\ t.floating[u] = << >>
  BY DEF Inv, TreeType, OtherType, NoteType, PlaceInv
<1>2. /\ Same(t, r, {"workspaces", "dirty"})
      /\ r.workspaces = t.workspaces \cup {s} /\ r.dirty = t.dirty \cup {s, Root}
  BY <1>1 DEF Same, Fields
<1>3. CreateWorkspace(t, s) = IF s \in t.workspaces THEN t ELSE r
  BY DEF CreateWorkspace
<1> HIDE DEF r
<1>4. r.dirty \subseteq Node /\ r.workspaces \subseteq Workspace
  BY <1>1, <1>2 DEF Node
<1>5. Inv(r)
  BY <1>1, <1>2, <1>4, WorkspacesKeep
<1>6. Same(t, t, {"workspaces", "dirty"})
  BY <1>1 DEF Same
<1> QED
  BY <1>2, <1>3, <1>5, <1>6

\* workspace_consider_destroy
LEMMA WorkspaceConsiderDestroyKeeps ==
  ASSUME NEW t, Inv(t), NEW s
  PROVE  LET r == WorkspaceConsiderDestroy(t, s)
         IN  Inv(r) /\ Same(t, r, {"workspaces", "dirty"})
<1> DEFINE r == [t EXCEPT !.workspaces = @ \ {s}, !.dirty = @ \cup {s, Root}]
           spared == \/ s \notin t.workspaces \/ s = t.activeWorkspace
                     \/ t.columns[s] # << >> \/ t.floating[s] # << >>
<1>1. /\ DOMAIN t = Fields /\ t.dirty \subseteq Node /\ t.workspaces \subseteq Workspace
      /\ t.activeWorkspace \in t.workspaces
      /\ \A u \in Workspace \ t.workspaces : t.columns[u] = << >> /\ t.floating[u] = << >>
  BY DEF Inv, TreeType, OtherType, NoteType, PlaceInv
<1>2. /\ Same(t, r, {"workspaces", "dirty"})
      /\ r.workspaces = t.workspaces \ {s} /\ r.dirty = t.dirty \cup {s, Root}
  BY <1>1 DEF Same, Fields
<1>3. WorkspaceConsiderDestroy(t, s) = IF spared THEN t ELSE r
  BY DEF WorkspaceConsiderDestroy
<1> HIDE DEF r
<1>4. CASE spared
  BY <1>1, <1>3, <1>4 DEF Same
<1>5. CASE ~spared
  <2>1. /\ r.dirty \subseteq Node /\ r.workspaces \subseteq Workspace /\ t.activeWorkspace \in r.workspaces
        /\ \A u \in Workspace \ r.workspaces : t.columns[u] = << >> /\ t.floating[u] = << >>
    BY <1>1, <1>2, <1>5 DEF Node
  <2>2. Inv(r)
    BY <1>2, <2>1, WorkspacesKeep
  <2> QED
    BY <1>2, <1>3, <1>5, <2>2
<1> QED
  BY <1>4, <1>5

-----------------------------------------------------------------------------
(* Columns are destroyed. *)

\* An empty column has left the list of its workspace.
Narrows(t, r, s, c, next) ==
  /\ Same(t, r, {"columns", "activeColumn", "dirty"})
  /\ r.columns = Put(t.columns, s, RemoveFirst(t.columns[s], c))
  /\ r.activeColumn = Put(t.activeColumn, s, IF t.activeColumn[s] = c THEN next ELSE t.activeColumn[s])
  /\ r.dirty \subseteq Node

LEMMA NarrowsKeeps ==
  ASSUME NEW t, Inv(t), NEW s \in Workspace, NEW c \in ToSet(t.columns[s]), t.children[c] = << >>,
         NEW next \in Maybe(ToSet(t.columns[s]) \ {c}), NEW r, Narrows(t, r, s, c, next)
  PROVE  Inv(r)
<1> DEFINE q == RemoveFirst(t.columns[s], c)
<1>1. /\ TreeType(t) /\ OtherType(t) /\ PlaceInv(t) /\ PathInv(t) /\ OutputInv(t) /\ NoteType(t)
      /\ t.columns \in [Workspace -> Seq(Column)]
      /\ t.activeColumn \in [Workspace -> Maybe(Column)]
      /\ t.column \in [Window -> Maybe(Column)]
  BY DEF Inv, TreeType, OtherType
<1>2. /\ DOMAIN r = Fields /\ r.workspaces = t.workspaces /\ r.activeWorkspace = t.activeWorkspace
      /\ r.floating = t.floating /\ r.focusMode = t.focusMode
      /\ r.children = t.children /\ r.activeChild = t.activeChild
      /\ r.colWorkspace = t.colWorkspace /\ r.colOutput = t.colOutput
      /\ r.workspace = t.workspace /\ r.column = t.column
      /\ r.outputs = t.outputs /\ r.activeOutput = t.activeOutput /\ r.status = t.status
      /\ r.output = t.output /\ r.history = t.history
      /\ r.fullscreen = t.fullscreen /\ r.fullscreenWindows = t.fullscreenWindows
      /\ r.overlay = t.overlay /\ r.focused = t.focused /\ r.crashed = t.crashed
      /\ Outputs(r) = Outputs(t)
  BY DEF Narrows, Same, Fields, Outputs
<1>3. /\ r.columns = Put(t.columns, s, q) /\ r.dirty \subseteq Node
      /\ r.activeColumn = Put(t.activeColumn, s, IF t.activeColumn[s] = c THEN next ELSE t.activeColumn[s])
  BY DEF Narrows
<1>4. q \in Seq(Column) /\ ToSet(q) = ToSet(t.columns[s]) \ {c} /\ IsInjective(q)
  <2>1. t.columns[s] \in Seq(Column) /\ IsInjective(t.columns[s])
    BY <1>1 DEF PlaceInv
  <2> QED
    BY <2>1, RemoveFirstSet
<1> HIDE DEF q
<1>5. ToSet(t.columns[s]) \subseteq Column
  <2>1. t.columns[s] \in Seq(Column)
    BY <1>1
  <2> QED
    BY <2>1, EmptyList
<1>6. \A u \in Workspace :
        /\ r.columns[u] = IF u = s THEN q ELSE t.columns[u]
        /\ r.activeColumn[u] = IF u = s /\ t.activeColumn[u] = c THEN next ELSE t.activeColumn[u]
  BY <1>1, <1>3 DEF Put
<1>7. TreeType(r)
  <2>1. r.columns \in [Workspace -> Seq(Column)]
    BY <1>1, <1>3, <1>4 DEF Put
  <2>2. r.activeColumn \in [Workspace -> Maybe(Column)]
    BY <1>1, <1>3, <1>5 DEF Put, Maybe
  <2> QED
    BY <1>1, <1>2, <2>1, <2>2 DEF TreeType
<1>8. \A x \in Window : t.column[x] # c
  <2>1. c \in Column
    BY <1>5
  <2>2. \A x \in Window : x \notin ToSet(t.children[c])
    BY DEF ToSet
  <2> QED
    BY <1>1, <2>1, <2>2 DEF PlaceInv
<1>9. PlaceInv(r)
  <2>1. \A u \in Workspace : IsInjective(r.columns[u]) /\ IsInjective(r.floating[u])
    BY <1>1, <1>2, <1>4, <1>6 DEF PlaceInv
  <2>2. ASSUME NEW x \in Window, r.column[x] # None
        PROVE  r.workspace[x] \in Workspace /\ r.column[x] \in ToSet(r.columns[r.workspace[x]])
    <3>1. t.workspace[x] \in Workspace /\ t.column[x] \in ToSet(t.columns[t.workspace[x]]) /\ t.column[x] # c
      BY <1>1, <1>2, <1>8, <2>2 DEF PlaceInv
    <3> QED
      BY <1>2, <1>4, <1>6, <3>1
  <2>3. \A u \in Workspace : ToSet(r.columns[u]) \subseteq ToSet(t.columns[u])
    BY <1>4, <1>6
  <2>4. \A u \in Workspace : \A d \in ToSet(r.columns[u]) : r.colWorkspace[d] = u
    <3> SUFFICES ASSUME NEW u \in Workspace, NEW d \in ToSet(r.columns[u]) PROVE t.colWorkspace[d] = u
      BY <1>2
    <3>1. d \in ToSet(t.columns[u])
      BY <2>3
    <3> QED
      BY <1>1, <3>1 DEF PlaceInv
  <2>5. \A u \in Workspace \ r.workspaces : r.columns[u] = << >> /\ r.floating[u] = << >>
    <3>1. t.columns[s] # << >>
      BY DEF ToSet
    <3> QED
      BY <1>1, <1>2, <1>6, <3>1 DEF PlaceInv
  <2> QED
    BY <1>1, <1>2, <2>1, <2>2, <2>4, <2>5 DEF PlaceInv
<1>10. PathInv(r)
  <2>1. ASSUME NEW u \in Workspace PROVE r.activeColumn[u] \in Maybe(ToSet(r.columns[u]))
    <3>1. t.activeColumn[u] \in Maybe(ToSet(t.columns[u]))
      BY <1>1 DEF PathInv
    <3> QED
      BY <1>4, <1>6, <3>1 DEF Maybe
  <2> QED
    BY <1>1, <1>2, <2>1 DEF PathInv
<1>11. OtherType(r)
  <2>1. NoteType(r)
    BY <1>1, <1>2, <1>3 DEF NoteType
  <2> QED
    BY <1>1, <1>2, <2>1 DEF OtherType
<1>12. OutputInv(r)
  <2>1. \A u \in Workspace : ToSet(r.columns[u]) \subseteq ToSet(t.columns[u])
    BY <1>4, <1>6
  <2> QED
    BY <1>1, <1>2, <2>1 DEF OutputInv
<1> QED
  BY <1>7, <1>9, <1>10, <1>11, <1>12 DEF Inv

\* column_consider_destroy
LEMMA ColumnConsiderDestroyKeeps ==
  ASSUME NEW t, Inv(t), NEW s \in Workspace, NEW c \in ToSet(t.columns[s])
  PROVE  LET r == ColumnConsiderDestroy(t, c)
         IN  Inv(r) /\ Same(t, r, {"columns", "activeColumn", "workspaces", "dirty"})
<1> DEFINE next == IF ColumnBefore(t, c) # None THEN ColumnBefore(t, c) ELSE ColumnAfter(t, c)
           rest == RemoveFirst(t.columns[s], c)
           unlisted == [t EXCEPT !.columns[s] = rest,
                                 !.activeColumn[s] = IF @ = c THEN next ELSE @]
           marked == IF t.activeColumn[s] = c THEN Mark(unlisted, {next} \ {None}) ELSE unlisted
           a == WorkspaceConsiderDestroy(marked, s)
           r == Mark(a, {c, s})
<1>1. /\ DOMAIN t = Fields /\ t.colWorkspace[c] = s /\ t.columns[s] \in Seq(Column) /\ t.dirty \subseteq Node
  BY DEF Inv, TreeType, PlaceInv, OtherType, NoteType
<1>2. ColumnConsiderDestroy(t, c) = IF t.children[c] # << >> THEN t ELSE r
  BY <1>1 DEF ColumnConsiderDestroy
<1>3. next \in Maybe(ToSet(t.columns[s]) \ {c})
  BY BesideColumns DEF Maybe
<1>4. c \in Column /\ {next} \ {None} \subseteq Node /\ {c, s} \subseteq Node
  BY <1>1, <1>3, EmptyList DEF Node, Maybe
<1>r. rest = RemoveFirst(t.columns[s], c)
  OBVIOUS
<1> HIDE DEF next, rest
<1>5. /\ Same(t, unlisted, {"columns", "activeColumn"}) /\ DOMAIN unlisted = Fields
      /\ unlisted.columns = Put(t.columns, s, rest)
      /\ unlisted.activeColumn = Put(t.activeColumn, s, IF t.activeColumn[s] = c THEN next
                                                        ELSE t.activeColumn[s])
  BY <1>1 DEF Same, Fields, Put
<1> HIDE DEF unlisted
<1>6. Same(unlisted, marked, {"dirty"}) /\ marked.dirty \subseteq Node
  <2>1. unlisted.dirty = t.dirty
    BY <1>5 DEF Same, Fields
  <2>2. CASE t.activeColumn[s] = c
    <3>1. Same(unlisted, marked, {"dirty"}) /\ marked.dirty = unlisted.dirty \cup ({next} \ {None})
      BY <1>5, <2>2, MarkEffect
    <3> HIDE DEF marked
    <3> QED
      BY <1>1, <1>4, <2>1, <3>1
  <2>3. CASE t.activeColumn[s] # c
    BY <1>1, <1>5, <2>1, <2>3 DEF Same
  <2> QED
    BY <2>2, <2>3
<1> HIDE DEF marked
<1>7. Narrows(t, marked, s, c, next)
  <2>1. marked.columns = unlisted.columns /\ marked.activeColumn = unlisted.activeColumn
    BY <1>6 DEF Same, Fields
  <2>2. Same(t, marked, {"columns", "activeColumn", "dirty"})
    BY <1>5, <1>6 DEF Same
  <2> QED
    BY <1>5, <1>6, <1>r, <2>1, <2>2 DEF Narrows
<1>8. CASE t.children[c] = << >>
  <2>1. Inv(marked)
    BY <1>3, <1>7, <1>8, NarrowsKeeps
  <2>2. Inv(a) /\ Same(marked, a, {"workspaces", "dirty"})
    BY <2>1, WorkspaceConsiderDestroyKeeps
  <2> HIDE DEF a
  <2>3. Inv(r) /\ Same(a, r, {"dirty"})
    BY <1>4, <2>2, MarkKeeps
  <2> HIDE DEF r
  <2>4. Same(t, r, {"columns", "activeColumn", "workspaces", "dirty"})
    BY <1>7, <2>2, <2>3 DEF Narrows, Same
  <2> QED
    BY <1>2, <1>8, <2>3, <2>4
<1>9. CASE t.children[c] # << >>
  BY <1>1, <1>2, <1>9 DEF Same
<1> QED
  BY <1>8, <1>9

-----------------------------------------------------------------------------
(* What is active in a workspace. *)

\* What workspace_set_active_window may change
FocusFields == {"activeColumn", "focusMode", "floating", "activeOutput"} \cup ActiveFields

LEMMA PointersKeep ==
  ASSUME NEW t, Inv(t), NEW r, Same(t, r, {"activeColumn", "focusMode", "floating", "activeOutput"}),
         r.activeColumn \in [Workspace -> Maybe(Column)],
         r.focusMode \in [Workspace -> {"tiling", "floating"}],
         r.floating \in [Workspace -> Seq(Window)],
         \A u \in Workspace : /\ r.activeColumn[u] \in Maybe(ToSet(t.columns[u]))
                              /\ ToSet(r.floating[u]) = ToSet(t.floating[u]) /\ IsInjective(r.floating[u])
                              /\ r.focusMode[u] = "floating" => r.floating[u] # << >>,
         r.activeOutput \in Maybe(Outputs(t)), t.outputs # << >> => r.activeOutput \in Outputs(t)
  PROVE  Inv(r)
<1>1. TreeType(t) /\ OtherType(t) /\ PlaceInv(t) /\ PathInv(t) /\ OutputInv(t)
  BY DEF Inv
<1>2. /\ DOMAIN r = Fields /\ r.workspaces = t.workspaces /\ r.activeWorkspace = t.activeWorkspace
      /\ r.columns = t.columns /\ r.children = t.children /\ r.activeChild = t.activeChild
      /\ r.colWorkspace = t.colWorkspace /\ r.colOutput = t.colOutput
      /\ r.workspace = t.workspace /\ r.column = t.column
      /\ r.outputs = t.outputs /\ r.status = t.status
      /\ r.output = t.output /\ r.history = t.history
      /\ r.fullscreen = t.fullscreen /\ r.fullscreenWindows = t.fullscreenWindows
      /\ r.overlay = t.overlay /\ r.focused = t.focused /\ r.crashed = t.crashed
      /\ r.dirty = t.dirty /\ Outputs(r) = Outputs(t)
  BY DEF Same, Fields, Outputs
<1>3. TreeType(r)
  BY <1>1, <1>2 DEF TreeType
<1>4. OtherType(r)
  BY <1>1, <1>2 DEF OtherType, NoteType
<1>5. PlaceInv(r)
  <2>1. \A u \in Workspace \ r.workspaces : r.columns[u] = << >> /\ r.floating[u] = << >>
    <3> SUFFICES ASSUME NEW u \in Workspace \ r.workspaces PROVE r.floating[u] = << >>
      BY <1>1, <1>2 DEF PlaceInv
    <3>1. t.floating[u] = << >> /\ t.floating[u] \in Seq(Window) /\ r.floating[u] \in Seq(Window)
      BY <1>1, <1>2 DEF PlaceInv, TreeType
    <3>2. ToSet(t.floating[u]) = {}
      BY <3>1, EmptyList
    <3>3. ToSet(r.floating[u]) = {}
      BY <3>2
    <3> QED
      BY <3>1, <3>3, EmptyList
  <2> QED
    BY <1>1, <1>2, <2>1 DEF PlaceInv
<1>6. PathInv(r)
  BY <1>1, <1>2 DEF PathInv
<1>7. OutputInv(r)
  BY <1>1, <1>2 DEF OutputInv
<1> QED
  BY <1>3, <1>4, <1>5, <1>6, <1>7 DEF Inv

\* The active window of a workspace is one of its windows.
LEMMA ActiveWindowHome ==
  ASSUME NEW t, Inv(t), NEW s \in Workspace, ActiveWindow(t, s) # None
  PROVE  ActiveWindow(t, s) \in Window /\ t.workspace[ActiveWindow(t, s)] = s
<1>1. CASE t.focusMode[s] = "tiling"
  <2>1. ActiveWindow(t, s) = ActiveTiling(t, s)
    BY <1>1 DEF ActiveWindow
  <2> QED
    BY <2>1, ActiveTilingHome
<1>2. CASE t.focusMode[s] # "tiling"
  <2>1. ActiveWindow(t, s) = ActiveFloating(t, s)
    BY <1>2 DEF ActiveWindow
  <2> QED
    BY <2>1, ActiveFloatingHome
<1> QED
  BY <1>1, <1>2

\* A window is reconciled with its column, or with its place in the workspace.
Reconcile(t, r, w, s) ==
  IF IsFloating(t, w) THEN ReconcileFloating(r, w, s) ELSE ReconcileTiling(r, w, t.column[w])

LEMMA ReconcileKeeps ==
  ASSUME NEW t, NEW r, Inv(r), r.workspace = t.workspace, r.column = t.column,
         NEW s \in Workspace, NEW w \in Window, t.workspace[w] = s
  PROVE  LET q == Reconcile(t, r, w, s) IN Inv(q) /\ Same(r, q, {"history", "output", "dirty"})
<1>1. r.column \in [Window -> Maybe(Column)] /\ s # None
  BY NodesAssumption DEF Inv, TreeType
<1>2. CASE IsFloating(t, w)
  <2>1. w \in ToSet(r.floating[s])
    BY <1>2, FloatingHome DEF IsFloating
  <2>2. Inv(ReconcileFloating(r, w, s)) /\ Same(r, ReconcileFloating(r, w, s), {"dirty"})
    BY <2>1, ReconcileFloatingKeeps
  <2> QED
    BY <1>2, <2>2 DEF Reconcile, Same
<1>3. CASE ~IsFloating(t, w)
  <2>1. r.column[w] \in Column
    BY <1>1, <1>3 DEF IsFloating, Maybe
  <2> QED
    BY <1>3, <2>1, ReconcileTilingKeeps DEF Reconcile
<1> QED
  BY <1>2, <1>3

\* The three ways to choose the window
LEMMA ChooseNone ==
  ASSUME NEW t, Inv(t), NEW s \in Workspace
  PROVE  LET r == [t EXCEPT !.activeColumn[s] = None, !.focusMode[s] = "tiling"]
         IN  Inv(r) /\ Same(t, r, {"activeColumn", "focusMode"})
<1> DEFINE r == [t EXCEPT !.activeColumn[s] = None, !.focusMode[s] = "tiling"]
<1>1. /\ t.activeColumn \in [Workspace -> Maybe(Column)] /\ t.floating \in [Workspace -> Seq(Window)]
      /\ t.focusMode \in [Workspace -> {"tiling", "floating"}] /\ DOMAIN t = Fields
      /\ t.activeOutput \in Maybe(Outputs(t)) /\ (t.outputs # << >> => t.activeOutput \in Outputs(t))
  BY DEF Inv, TreeType, OtherType, OutputInv
<1>2. /\ Same(t, r, {"activeColumn", "focusMode"}) /\ r.activeColumn = Put(t.activeColumn, s, None)
      /\ r.focusMode = Put(t.focusMode, s, "tiling")
  BY <1>1 DEF Same, Fields, Put
<1> HIDE DEF r
<1>3. /\ r.activeColumn \in [Workspace -> Maybe(Column)]
      /\ r.focusMode \in [Workspace -> {"tiling", "floating"}]
  BY <1>1, <1>2 DEF Put, Maybe
<1>4. r.floating = t.floating /\ r.activeOutput = t.activeOutput
  BY <1>2 DEF Same, Fields
<1>5. \A u \in Workspace : /\ r.activeColumn[u] \in Maybe(ToSet(t.columns[u]))
                           /\ ToSet(r.floating[u]) = ToSet(t.floating[u]) /\ IsInjective(r.floating[u])
                           /\ r.focusMode[u] = "floating" => r.floating[u] # << >>
  <2> SUFFICES ASSUME NEW u \in Workspace
               PROVE  /\ r.activeColumn[u] \in Maybe(ToSet(t.columns[u]))
                      /\ r.focusMode[u] = "floating" => t.floating[u] # << >>
                      /\ IsInjective(t.floating[u])
    BY <1>4
  <2>1. /\ t.activeColumn[u] \in Maybe(ToSet(t.columns[u])) /\ IsInjective(t.floating[u])
        /\ t.focusMode[u] = "floating" => t.floating[u] # << >>
    BY DEF Inv, PathInv, PlaceInv
  <2>2. /\ r.activeColumn[u] = IF u = s THEN None ELSE t.activeColumn[u]
        /\ r.focusMode[u] = IF u = s THEN "tiling" ELSE t.focusMode[u]
    BY <1>1, <1>2 DEF Put
  <2> QED
    BY <2>1, <2>2 DEF Maybe
<1>6. Same(t, r, {"activeColumn", "focusMode", "floating", "activeOutput"})
  BY <1>2 DEF Same
<1>7. Inv(r)
  BY <1>1, <1>3, <1>4, <1>5, <1>6, PointersKeep
<1> QED
  BY <1>2, <1>7 DEF r

LEMMA ChooseFloating ==
  ASSUME NEW t, Inv(t), NEW s \in Workspace, NEW w \in ToSet(t.floating[s])
  PROVE  LET r == [t EXCEPT !.floating[s] = Append(RemoveFirst(@, w), w), !.focusMode[s] = "floating"]
         IN  Inv(r) /\ Same(t, r, {"floating", "focusMode"})
<1> DEFINE q == Append(RemoveFirst(t.floating[s], w), w)
           r == [t EXCEPT !.floating[s] = q, !.focusMode[s] = "floating"]
<1>1. /\ t.activeColumn \in [Workspace -> Maybe(Column)] /\ t.floating \in [Workspace -> Seq(Window)]
      /\ t.focusMode \in [Workspace -> {"tiling", "floating"}] /\ DOMAIN t = Fields
      /\ t.activeOutput \in Maybe(Outputs(t)) /\ (t.outputs # << >> => t.activeOutput \in Outputs(t))
  BY DEF Inv, TreeType, OtherType, OutputInv
<1>2. q \in Seq(Window) /\ q # << >> /\ ToSet(q) = ToSet(t.floating[s]) /\ IsInjective(q)
  <2>1. t.floating[s] \in Seq(Window) /\ IsInjective(t.floating[s])
    BY <1>1 DEF Inv, PlaceInv
  <2>2. /\ RemoveFirst(t.floating[s], w) \in Seq(Window) /\ IsInjective(RemoveFirst(t.floating[s], w))
        /\ ToSet(RemoveFirst(t.floating[s], w)) = ToSet(t.floating[s]) \ {w}
    BY <2>1, RemoveFirstSet
  <2>3. w \in Window
    BY <2>1, EmptyList
  <2>4. /\ q \in Seq(Window) /\ q # << >> /\ IsInjective(q)
        /\ ToSet(q) = (ToSet(t.floating[s]) \ {w}) \cup {w}
    BY <2>2, <2>3, AppendSet
  <2> QED
    BY <2>4
<1> HIDE DEF q
<1>3. /\ Same(t, r, {"floating", "focusMode"}) /\ r.floating = Put(t.floating, s, q)
      /\ r.focusMode = Put(t.focusMode, s, "floating")
  BY <1>1 DEF Same, Fields, Put
<1> HIDE DEF r
<1>4. r.floating \in [Workspace -> Seq(Window)] /\ r.focusMode \in [Workspace -> {"tiling", "floating"}]
  BY <1>1, <1>2, <1>3 DEF Put
<1>5. r.activeColumn = t.activeColumn /\ r.activeOutput = t.activeOutput
  BY <1>3 DEF Same, Fields
<1>6. \A u \in Workspace : /\ r.activeColumn[u] \in Maybe(ToSet(t.columns[u]))
                           /\ ToSet(r.floating[u]) = ToSet(t.floating[u]) /\ IsInjective(r.floating[u])
                           /\ r.focusMode[u] = "floating" => r.floating[u] # << >>
  <2> SUFFICES ASSUME NEW u \in Workspace
               PROVE  /\ r.activeColumn[u] \in Maybe(ToSet(t.columns[u]))
                      /\ ToSet(r.floating[u]) = ToSet(t.floating[u]) /\ IsInjective(r.floating[u])
                      /\ r.focusMode[u] = "floating" => r.floating[u] # << >>
    OBVIOUS
  <2>1. /\ t.activeColumn[u] \in Maybe(ToSet(t.columns[u])) /\ IsInjective(t.floating[u])
        /\ t.focusMode[u] = "floating" => t.floating[u] # << >>
    BY DEF Inv, PathInv, PlaceInv
  <2>2. /\ r.floating[u] = IF u = s THEN q ELSE t.floating[u]
        /\ r.focusMode[u] = IF u = s THEN "floating" ELSE t.focusMode[u]
    BY <1>1, <1>3 DEF Put
  <2> QED
    BY <1>2, <1>5, <2>1, <2>2
<1>7. Same(t, r, {"activeColumn", "focusMode", "floating", "activeOutput"})
  BY <1>3 DEF Same
<1>8. Inv(r)
  BY <1>1, <1>4, <1>5, <1>6, <1>7, PointersKeep
<1> QED
  BY <1>3, <1>8 DEF r, q

LEMMA ChooseTiling ==
  ASSUME NEW t, Inv(t), NEW s \in Workspace, NEW c \in ToSet(t.columns[s]), NEW o \in Outputs(t) \cup {t.activeOutput}
  PROVE  LET r == [t EXCEPT !.activeColumn[s] = c, !.focusMode[s] = "tiling", !.activeOutput = o]
         IN  Inv(r) /\ Same(t, r, {"activeColumn", "focusMode", "activeOutput"})
<1> DEFINE r == [t EXCEPT !.activeColumn[s] = c, !.focusMode[s] = "tiling", !.activeOutput = o]
<1>1. /\ t.activeColumn \in [Workspace -> Maybe(Column)] /\ t.floating \in [Workspace -> Seq(Window)]
      /\ t.focusMode \in [Workspace -> {"tiling", "floating"}] /\ DOMAIN t = Fields
      /\ t.activeOutput \in Maybe(Outputs(t)) /\ (t.outputs # << >> => t.activeOutput \in Outputs(t))
      /\ t.columns[s] \in Seq(Column)
  BY DEF Inv, TreeType, OtherType, OutputInv
<1>2. c \in Column
  BY <1>1, EmptyList
<1>3. /\ Same(t, r, {"activeColumn", "focusMode", "activeOutput"})
      /\ r.activeColumn = Put(t.activeColumn, s, c)
      /\ r.focusMode = Put(t.focusMode, s, "tiling") /\ r.activeOutput = o
  BY <1>1 DEF Same, Fields, Put
<1> HIDE DEF r
<1>4. /\ r.activeColumn \in [Workspace -> Maybe(Column)]
      /\ r.focusMode \in [Workspace -> {"tiling", "floating"}]
  BY <1>1, <1>2, <1>3 DEF Put, Maybe
<1>5. r.floating = t.floating
  BY <1>3 DEF Same, Fields
<1>6. \A u \in Workspace : /\ r.activeColumn[u] \in Maybe(ToSet(t.columns[u]))
                           /\ ToSet(r.floating[u]) = ToSet(t.floating[u]) /\ IsInjective(r.floating[u])
                           /\ r.focusMode[u] = "floating" => r.floating[u] # << >>
  <2> SUFFICES ASSUME NEW u \in Workspace
               PROVE  /\ r.activeColumn[u] \in Maybe(ToSet(t.columns[u]))
                      /\ r.focusMode[u] = "floating" => t.floating[u] # << >>
                      /\ IsInjective(t.floating[u])
    BY <1>5
  <2>1. /\ t.activeColumn[u] \in Maybe(ToSet(t.columns[u])) /\ IsInjective(t.floating[u])
        /\ t.focusMode[u] = "floating" => t.floating[u] # << >>
    BY DEF Inv, PathInv, PlaceInv
  <2>2. /\ r.activeColumn[u] = IF u = s THEN c ELSE t.activeColumn[u]
        /\ r.focusMode[u] = IF u = s THEN "tiling" ELSE t.focusMode[u]
    BY <1>1, <1>3 DEF Put
  <2> QED
    BY <2>1, <2>2 DEF Maybe
<1>7. Same(t, r, {"activeColumn", "focusMode", "floating", "activeOutput"})
  BY <1>3 DEF Same
<1>8. r.activeOutput \in Maybe(Outputs(t)) /\ (t.outputs # << >> => r.activeOutput \in Outputs(t))
  BY <1>1, <1>3 DEF Maybe
<1>9. r.floating \in [Workspace -> Seq(Window)]
  BY <1>1, <1>5
<1>10. Inv(r)
  BY <1>4, <1>6, <1>7, <1>8, <1>9, PointersKeep
<1> QED
  BY <1>3, <1>10 DEF r

\* What SetActiveWindow makes of the window, before the one that was active is reconciled
Chosen(t, s, w) ==
  IF w = None THEN [t EXCEPT !.activeColumn[s] = None, !.focusMode[s] = "tiling"]
  ELSE IF IsFloating(t, w)
    THEN ReconcileFloating([t EXCEPT !.floating[s] = Append(RemoveFirst(@, w), w),
                                     !.focusMode[s] = "floating"], w, s)
  ELSE [SetActiveChild(t, t.column[w], w) EXCEPT
          !.activeColumn[s] = t.column[w], !.focusMode[s] = "tiling",
          !.activeOutput = IF s = t.activeWorkspace THEN t.colOutput[t.column[w]] ELSE @]

LEMMA ChosenKeeps ==
  ASSUME NEW t, Inv(t), NEW s \in Workspace, NEW w \in Maybe(Window), w # None => t.workspace[w] = s
  PROVE  LET r == Chosen(t, s, w) IN Inv(r) /\ Same(t, r, FocusFields)
<1> DEFINE r == Chosen(t, s, w)
<1>1. CASE w = None
  <2>1. Inv(r) /\ Same(t, r, {"activeColumn", "focusMode"})
    BY <1>1, ChooseNone DEF Chosen
  <2> QED
    BY <2>1 DEF Same, FocusFields
<1>2. CASE w # None /\ IsFloating(t, w)
  <2> DEFINE a == [t EXCEPT !.floating[s] = Append(RemoveFirst(@, w), w), !.focusMode[s] = "floating"]
  <2>1. w \in Window /\ t.column[w] = None /\ t.workspace[w] = s
    BY <1>2 DEF IsFloating, Maybe
  <2>2. w \in ToSet(t.floating[s])
    BY <2>1, FloatingHome
  <2>3. Inv(a) /\ Same(t, a, {"floating", "focusMode"})
    BY <2>2, ChooseFloating
  <2>4. r = ReconcileFloating(a, w, s)
    BY <1>2 DEF Chosen
  <2> HIDE DEF a, r
  <2>5. a.workspace = t.workspace /\ a.column = t.column
    BY <2>3 DEF Same, Fields
  <2>6. w \in ToSet(a.floating[s])
    BY <2>1, <2>3, <2>5, FloatingHome
  <2>7. Inv(r) /\ Same(a, r, {"dirty"})
    BY <2>1, <2>3, <2>4, <2>6, ReconcileFloatingKeeps
  <2>8. Same(t, r, FocusFields)
    BY <2>3, <2>7 DEF Same, FocusFields, ActiveFields
  <2> QED
    BY <2>7, <2>8 DEF r
<1>3. CASE w # None /\ ~IsFloating(t, w)
  <2> DEFINE c == t.column[w]
             a == SetActiveChild(t, c, w)
             o == IF s = t.activeWorkspace THEN t.colOutput[c] ELSE a.activeOutput
             b == [a EXCEPT !.activeColumn[s] = c, !.focusMode[s] = "tiling", !.activeOutput = o]
  <2>1. w \in Window /\ t.workspace[w] = s /\ s # None /\ c # None /\ c \in Maybe(Column)
    <3>1. w \in Window /\ t.workspace[w] = s /\ s # None
      BY <1>3, NodesAssumption DEF Maybe
    <3> QED
      BY <1>3, <3>1 DEF IsFloating, Inv, TreeType
  <2>2. c \in Column /\ c \in ToSet(t.columns[s])
    <3>1. c \in Column
      BY <2>1 DEF Maybe
    <3> QED
      BY <2>1, <3>1, ChildHome
  <2>3. Inv(a) /\ Same(t, a, ActiveFields)
    BY <2>1, <2>2, SetActiveChildKeeps
  <2>4. r = b
    BY <1>3 DEF Chosen
  <2> HIDE DEF a, c
  <2>5. a.columns = t.columns /\ a.outputs = t.outputs
    BY <2>3 DEF Same, Fields, ActiveFields
  <2>6. o \in Outputs(a) \cup {a.activeOutput}
    <3>1. t.colOutput[c] \in Outputs(t)
      BY <2>2 DEF Inv, OutputInv
    <3> QED
      BY <2>5, <3>1 DEF Outputs
  <2> HIDE DEF o
  <2>7. Inv(b) /\ Same(a, b, {"activeColumn", "focusMode", "activeOutput"})
    BY <2>2, <2>3, <2>5, <2>6, ChooseTiling
  <2> HIDE DEF b, r
  <2>8. Same(t, b, FocusFields)
    BY <2>3, <2>7 DEF Same, FocusFields, ActiveFields
  <2> QED
    BY <2>4, <2>7, <2>8 DEF r
<1> QED
  BY <1>1, <1>2, <1>3

\* workspace_set_active_window, with a window of the workspace or none
LEMMA SetActiveWindowKeeps ==
  ASSUME NEW t, Inv(t), NEW s \in Workspace, NEW w \in Maybe(Window), w # None => t.workspace[w] = s
  PROVE  LET r == SetActiveWindow(t, s, w) IN Inv(r) /\ Same(t, r, FocusFields)
<1> DEFINE prev == ActiveWindow(t, s)
           a == Chosen(t, s, w)
           b == IF prev = None THEN a ELSE Reconcile(t, a, prev, s)
           r == Mark(b, {s})
<1>1. SetActiveWindow(t, s, w) = IF w = prev THEN t ELSE r
  BY DEF SetActiveWindow, Chosen, Reconcile
<1>2. Inv(a) /\ Same(t, a, FocusFields)
  BY ChosenKeeps
<1>3. prev # None => prev \in Window /\ t.workspace[prev] = s
  BY ActiveWindowHome
<1> HIDE DEF a, prev
<1>4. a.workspace = t.workspace /\ a.column = t.column
  BY <1>2 DEF Same, Fields, FocusFields, ActiveFields
<1>5. Inv(b) /\ Same(a, b, {"history", "output", "dirty"})
  <2>1. CASE prev = None
    BY <1>2, <2>1 DEF Same
  <2>2. CASE prev # None
    BY <1>2, <1>3, <1>4, <2>2, ReconcileKeeps
  <2> QED
    BY <2>1, <2>2
<1> HIDE DEF b
<1>6. {s} \subseteq Node
  BY DEF Node
<1>7. Inv(r) /\ Same(b, r, {"dirty"})
  BY <1>5, <1>6, MarkKeeps
<1> HIDE DEF r
<1>8. Same(t, r, FocusFields)
  BY <1>2, <1>5, <1>7 DEF Same, FocusFields, ActiveFields
<1>9. Same(t, t, FocusFields)
  BY DEF Same, Inv, TreeType
<1> QED
  BY <1>1, <1>7, <1>8, <1>9

-----------------------------------------------------------------------------
(* The focus. *)

\* The active workspace, and the active output, are changed.
LEMMA RootKeeps ==
  ASSUME NEW t, Inv(t), NEW r, Same(t, r, {"activeWorkspace", "activeOutput"}),
         r.activeWorkspace \in t.workspaces, r.activeOutput \in Outputs(t) \cup {t.activeOutput}
  PROVE  Inv(r)
<1>1. /\ TreeType(t) /\ OtherType(t) /\ PlaceInv(t) /\ PathInv(t) /\ OutputInv(t)
      /\ r.activeOutput \in Maybe(Outputs(t)) /\ (t.outputs # << >> => r.activeOutput \in Outputs(t))
  BY DEF Inv, OtherType, OutputInv, Maybe
<1>2. /\ DOMAIN r = Fields /\ r.workspaces = t.workspaces
      /\ r.columns = t.columns /\ r.floating = t.floating /\ r.activeColumn = t.activeColumn
      /\ r.focusMode = t.focusMode /\ r.children = t.children /\ r.activeChild = t.activeChild
      /\ r.colWorkspace = t.colWorkspace /\ r.colOutput = t.colOutput
      /\ r.workspace = t.workspace /\ r.column = t.column
      /\ r.outputs = t.outputs /\ r.status = t.status
      /\ r.output = t.output /\ r.history = t.history
      /\ r.fullscreen = t.fullscreen /\ r.fullscreenWindows = t.fullscreenWindows
      /\ r.overlay = t.overlay /\ r.focused = t.focused /\ r.crashed = t.crashed
      /\ r.dirty = t.dirty /\ Outputs(r) = Outputs(t)
  BY DEF Same, Fields, Outputs
<1>3. TreeType(r)
  BY <1>1, <1>2 DEF TreeType
<1>4. OtherType(r)
  BY <1>1, <1>2 DEF OtherType, NoteType
<1>5. PlaceInv(r)
  BY <1>1, <1>2 DEF PlaceInv
<1>6. PathInv(r)
  BY <1>1, <1>2 DEF PathInv
<1>7. OutputInv(r)
  BY <1>1, <1>2 DEF OutputInv
<1> QED
  BY <1>3, <1>4, <1>5, <1>6, <1>7 DEF Inv

\* root_set_active_workspace
LEMMA SetActiveWorkspaceKeeps ==
  ASSUME NEW t, Inv(t), NEW s \in t.workspaces
  PROVE  LET r == SetActiveWorkspace(t, s)
         IN  /\ Inv(r) /\ Same(t, r, {"activeWorkspace", "workspaces", "activeOutput", "dirty"})
             /\ r.activeWorkspace = s
<1> DEFINE old == t.activeWorkspace
           active == t.activeColumn[s]
           a == [t EXCEPT !.activeWorkspace = s]
           b == WorkspaceConsiderDestroy(a, old)
           c == IF active = None THEN b ELSE [b EXCEPT !.activeOutput = t.colOutput[active]]
           r == Mark(c, {old, s, Root} \cup Outputs(t))
<1>1. SetActiveWorkspace(t, s) = IF s = old THEN t ELSE r
  BY DEF SetActiveWorkspace
<1>2. DOMAIN t = Fields /\ s \in Workspace /\ old \in Workspace
  BY DEF Inv, TreeType
<1>3. Same(t, a, {"activeWorkspace"}) /\ a.activeWorkspace = s
  BY <1>2 DEF Same, Fields
<1> HIDE DEF a
<1>4. Inv(a)
  <2>1. a.activeOutput = t.activeOutput /\ Same(t, a, {"activeWorkspace", "activeOutput"})
    BY <1>3 DEF Same, Fields
  <2> QED
    BY <1>3, <2>1, RootKeeps
<1>5. Inv(b) /\ Same(a, b, {"workspaces", "dirty"})
  BY <1>4, WorkspaceConsiderDestroyKeeps
<1> HIDE DEF b
<1>6. active # None => t.colOutput[active] \in Outputs(t)
  <2>1. active # None => active \in ToSet(t.columns[s])
    BY <1>2 DEF Inv, PathInv, Maybe
  <2> QED
    BY <1>2, <2>1 DEF Inv, OutputInv
<1>7. Inv(c) /\ Same(b, c, {"activeOutput"})
  <2>1. CASE active = None
    BY <1>5, <2>1 DEF Same
  <2>2. CASE active # None
    <3>1. DOMAIN b = Fields /\ Outputs(b) = Outputs(t) /\ b.activeWorkspace \in b.workspaces
      BY <1>3, <1>5 DEF Inv, TreeType, Same, Fields, Outputs
    <3>2. Same(b, c, {"activeOutput"}) /\ c.activeOutput = t.colOutput[active]
      BY <2>2, <3>1 DEF Same, Fields
    <3> HIDE DEF c
    <3>3. c.activeWorkspace = b.activeWorkspace /\ Same(b, c, {"activeWorkspace", "activeOutput"})
      BY <3>2 DEF Same, Fields
    <3> QED
      BY <1>5, <1>6, <2>2, <3>1, <3>2, <3>3, RootKeeps
  <2> QED
    BY <2>1, <2>2
<1> HIDE DEF c
<1>8. {old, s, Root} \cup Outputs(t) \subseteq Node
  BY <1>2, PlaceNodes DEF Node
<1>9. Inv(r) /\ Same(c, r, {"dirty"})
  BY <1>7, <1>8, MarkKeeps
<1> HIDE DEF r
<1>10. Same(t, r, {"activeWorkspace", "workspaces", "activeOutput", "dirty"}) /\ r.activeWorkspace = s
  BY <1>3, <1>5, <1>7, <1>9 DEF Same, Fields
<1>11. Same(t, t, {"activeWorkspace", "workspaces", "activeOutput", "dirty"})
  BY <1>2 DEF Same
<1> QED
  BY <1>1, <1>9, <1>10, <1>11

\* What takes the focus from the windows
LEMMA OverlayKeeps ==
  ASSUME NEW t, Inv(t), NEW x \in Maybe({"layer", "unmanaged"})
  PROVE  LET r == [t EXCEPT !.overlay = x] IN Inv(r) /\ Same(t, r, {"overlay"})
<1> DEFINE r == [t EXCEPT !.overlay = x]
<1>1. DOMAIN t = Fields /\ NoteType(t)
  BY DEF Inv, TreeType, OtherType
<1>2. Same(t, r, {"overlay"}) /\ r.overlay = x
  BY <1>1 DEF Same, Fields
<1> HIDE DEF r
<1>3. Same(t, r, Notes) /\ NoteType(r)
  BY <1>1, <1>2 DEF Same, Notes, Fields, NoteType
<1>4. Inv(r)
  BY <1>3, Quiet
<1> QED
  BY <1>2, <1>4 DEF r

\* What root_set_focused_window may change
RootFields == FocusFields \cup {"overlay", "activeWorkspace", "workspaces", "crashed"}

\* root_set_focused_window
LEMMA SetFocusedWindowKeeps ==
  ASSUME NEW t, Inv(t), NEW w \in Window
  PROVE  LET r == SetFocusedWindow(t, w) IN Inv(r) /\ Same(t, r, RootFields)
<1> DEFINE s == t.workspace[w]
           a == [t EXCEPT !.overlay = None]
           b == SetActiveWorkspace(a, s)
           r == SetActiveWindow(b, s, w)
           crash == [t EXCEPT !.crashed = TRUE]
<1>1. SetFocusedWindow(t, w) = IF s = None THEN crash ELSE r
  BY DEF SetFocusedWindow
<1>2. Inv(crash) /\ Same(t, crash, RootFields)
  <2>1. Inv(crash) /\ Same(t, crash, {"crashed"})
    BY CrashKeeps
  <2> HIDE DEF crash
  <2> QED
    BY <2>1 DEF Same, RootFields
<1>3. ASSUME s # None PROVE Inv(r) /\ Same(t, r, RootFields)
  <2>1. s \in t.workspaces /\ s \in Workspace
    BY <1>3, WindowHome
  <2>2. Inv(a) /\ Same(t, a, {"overlay"})
    BY OverlayKeeps DEF Maybe
  <2> HIDE DEF a
  <2>3. a.workspaces = t.workspaces
    BY <2>2 DEF Same, Fields
  <2>4. Inv(b) /\ Same(a, b, {"activeWorkspace", "workspaces", "activeOutput", "dirty"})
    BY <2>1, <2>2, <2>3, SetActiveWorkspaceKeeps
  <2> HIDE DEF b
  <2>5. b.workspace = t.workspace
    BY <2>2, <2>4 DEF Same, Fields
  <2>6. Inv(r) /\ Same(b, r, FocusFields)
    <3>1. w \in Maybe(Window) /\ b.workspace[w] = s
      BY <2>5 DEF Maybe
    <3> HIDE DEF s
    <3> QED
      BY <2>1, <2>4, <3>1, SetActiveWindowKeeps
  <2> HIDE DEF r
  <2>7. Same(t, r, RootFields)
    BY <2>2, <2>4, <2>6 DEF Same, RootFields, FocusFields, ActiveFields
  <2> QED
    BY <2>6, <2>7
<1> QED
  BY <1>1, <1>2, <1>3

\* The window that has the focus is one, or nothing has.
LEMMA FocusType ==
  ASSUME NEW t, Inv(t)
  PROVE  /\ FocusedWindow(t) \in Maybe(Window)
         /\ Focus(t) \in Maybe(Window) \cup {"layer", "unmanaged"}
         /\ FocusedWindow(t) # None => t.workspace[FocusedWindow(t)] = t.activeWorkspace
<1>1. t.activeWorkspace \in Workspace /\ t.overlay \in Maybe({"layer", "unmanaged"})
  BY DEF Inv, TreeType, OtherType, NoteType
<1> DEFINE x == ActiveWindow(t, t.activeWorkspace)
<1>2. x # None => x \in Window /\ t.workspace[x] = t.activeWorkspace
  BY <1>1, ActiveWindowHome
<1>3. FocusedWindow(t) = IF t.overlay = None THEN x ELSE None
  BY DEF FocusedWindow
<1> HIDE DEF x
<1> QED
  BY <1>1, <1>2, <1>3 DEF Focus, Maybe

\* root_commit_focus
LEMMA CommitFocusKeeps ==
  ASSUME NEW t, Inv(t)
  PROVE  LET r == CommitFocus(t)
         IN  Inv(r) /\ Same(t, r, {"focused", "dirty"}) /\ r.focused = Focus(t)
<1> DEFINE old == t.focused
           new == FocusedWindow(t)
           lost == IF old \in Alive(t) /\ old # new THEN {old, t.column[old]} \ {None} ELSE {}
           nodes == lost \cup ({new} \ {None, old})
           a == [t EXCEPT !.focused = Focus(t)]
           r == Mark(a, nodes)
<1>1. CommitFocus(t) = r
  BY DEF CommitFocus
<1>2. DOMAIN t = Fields /\ NoteType(t)
  BY DEF Inv, TreeType, OtherType
<1>3. nodes \subseteq Node
  <2>1. new \in Maybe(Window)
    BY FocusType
  <2>2. old \in Alive(t) => {old, t.column[old]} \ {None} \subseteq Node
    BY PlaceNodes DEF Alive, Node
  <2> HIDE DEF new, old
  <2> QED
    BY <2>1, <2>2 DEF Node, Maybe
<1>4. Same(t, a, {"focused"}) /\ a.focused = Focus(t)
  BY <1>2 DEF Same, Fields
<1> HIDE DEF a, nodes
<1>5. Same(t, a, Notes) /\ NoteType(a)
  <2>1. a.overlay = t.overlay /\ a.dirty = t.dirty /\ a.crashed = t.crashed
    BY <1>4 DEF Same, Fields
  <2>2. Focus(t) \in Maybe(Window) \cup {"layer", "unmanaged"}
    BY FocusType
  <2> QED
    BY <1>2, <1>4, <2>1, <2>2 DEF Same, Notes, NoteType
<1>6. Inv(a)
  BY <1>5, Quiet
<1>7. Inv(r) /\ Same(a, r, {"dirty"})
  BY <1>3, <1>6, MarkKeeps
<1> HIDE DEF r
<1>8. Same(t, r, {"focused", "dirty"}) /\ r.focused = Focus(t)
  BY <1>4, <1>7 DEF Same, Fields
<1> QED
  BY <1>1, <1>7, <1>8

-----------------------------------------------------------------------------
(* Transactions, and what is forgotten. *)

\* What is noted for the transactions
Copies == {"dirty", "crashed", "pWorkspace", "pColumns", "pFloating", "pChildren", "pShown", "pLook"}

\* Copying changes nothing of the tree itself.
Copied(t, r) == Same(t, r, Copies) /\ r.crashed \in {t.crashed, TRUE}

LEMMA ArrangedCopied ==
  ASSUME NEW t, DOMAIN t = Fields
  PROVE  Copied(t, Arranged(t))
<1>1. ASSUME NEW a, DOMAIN a = Fields PROVE Copied(a, ArrangeRoot(a))
  BY <1>1 DEF ArrangeRoot, Mark, Copied, Same, Fields, Copies
<1>2. ASSUME NEW a, DOMAIN a = Fields PROVE Copied(a, ArrangeWorkspace(a))
  BY <1>2 DEF ArrangeWorkspace, Mark, Copied, Same, Fields, Copies
<1>3. ASSUME NEW a, DOMAIN a = Fields PROVE Copied(a, ArrangeColumns(a))
  BY <1>3 DEF ArrangeColumns, Mark, Copied, Same, Fields, Copies
<1>4. ASSUME NEW a, DOMAIN a = Fields PROVE Copied(a, ArrangeOutputs(a))
  BY <1>4 DEF ArrangeOutputs, Mark, Copied, Same, Fields, Copies
<1>5. ASSUME NEW a, DOMAIN a = Fields PROVE Copied(a, ArrangeWindows(a))
  BY <1>5 DEF ArrangeWindows, Mark, Copied, Same, Fields, Copies
<1>6. \A a, b, c : Copied(a, b) /\ Copied(b, c) => Copied(a, c)
  BY DEF Copied, Same
<1>7. \A a, b : Copied(a, b) => DOMAIN b = Fields
  BY DEF Copied, Same
<1> DEFINE a == ArrangeRoot(t)
           b == ArrangeWorkspace(a)
           c == ArrangeColumns(b)
           d == ArrangeOutputs(c)
<1>8. Copied(t, a) /\ DOMAIN a = Fields
  BY <1>1, <1>7
<1> HIDE DEF a
<1>9. Copied(t, b) /\ DOMAIN b = Fields
  BY <1>2, <1>6, <1>7, <1>8
<1> HIDE DEF b
<1>10. Copied(t, c) /\ DOMAIN c = Fields
  BY <1>3, <1>6, <1>7, <1>9
<1> HIDE DEF c
<1>11. Copied(t, d) /\ DOMAIN d = Fields
  BY <1>4, <1>6, <1>7, <1>10
<1> HIDE DEF d
<1>12. Copied(t, ArrangeWindows(d))
  BY <1>5, <1>6, <1>11
<1> QED
  BY <1>12 DEF Arranged, a, b, c, d

LEMMA ArrangedKeeps ==
  ASSUME NEW t, Inv(t)
  PROVE  LET r == [Arranged(t) EXCEPT !.dirty = {}] IN Inv(r) /\ Same(t, r, Copies)
<1> DEFINE a == Arranged(t)
           r == [a EXCEPT !.dirty = {}]
<1>1. DOMAIN t = Fields /\ NoteType(t)
  BY DEF Inv, TreeType, OtherType
<1>2. Copied(t, a)
  BY <1>1, ArrangedCopied
<1> HIDE DEF a
<1>3. Same(t, r, Copies) /\ r.dirty = {} /\ r.crashed \in {t.crashed, TRUE}
  BY <1>2 DEF Copied, Same, Fields, Copies
<1> HIDE DEF r
<1>4. Same(t, r, Notes) /\ r.overlay = t.overlay /\ r.focused = t.focused
  BY <1>3 DEF Same, Fields, Copies, Notes
<1>5. NoteType(r)
  BY <1>1, <1>3, <1>4 DEF NoteType
<1>6. Inv(r)
  BY <1>4, <1>5, Quiet
<1> QED
  BY <1>3, <1>6 DEF r, a

LEMMA SettledKeeps ==
  ASSUME NEW t, Inv(t)
  PROVE  Inv(Settled(t)) /\ Same(t, Settled(t), Copies) /\ Settled(t).dirty = t.dirty
<1> DEFINE r == Settled(t)
<1>1. DOMAIN t = Fields /\ NoteType(t)
  BY DEF Inv, TreeType, OtherType
<1>2. /\ DOMAIN r = Fields /\ r.workspaces = t.workspaces /\ r.activeWorkspace = t.activeWorkspace
      /\ r.outputs = t.outputs /\ r.activeOutput = t.activeOutput
      /\ r.columns = t.columns /\ r.floating = t.floating /\ r.activeColumn = t.activeColumn
      /\ r.focusMode = t.focusMode /\ r.children = t.children /\ r.activeChild = t.activeChild
      /\ r.colWorkspace = t.colWorkspace /\ r.colOutput = t.colOutput
      /\ r.status = t.status /\ r.workspace = t.workspace /\ r.column = t.column
      /\ r.output = t.output /\ r.history = t.history
      /\ r.fullscreen = t.fullscreen /\ r.fullscreenWindows = t.fullscreenWindows
      /\ r.overlay = t.overlay /\ r.focused = t.focused /\ r.crashed = t.crashed
      /\ r.dirty = t.dirty
  BY <1>1 DEF Settled, Fields
<1> HIDE DEF r
<1>3. Same(t, r, Copies) /\ Same(t, r, Notes)
  BY <1>2 DEF Same, Fields, Copies, Notes
<1>4. NoteType(r)
  BY <1>1, <1>2 DEF NoteType
<1>5. Inv(r)
  BY <1>3, <1>4, Quiet
<1> QED
  BY <1>2, <1>3, <1>5 DEF r

\* What Forgotten may change
ForgetFields ==
  {"dirty", "children", "activeChild", "colWorkspace", "colOutput", "activeColumn", "focusMode",
   "status", "output", "fullscreen"}

\* Nodes that are not in the tree are forgotten, and nothing else.
Forgets(t, r, columns, windows, nodes) ==
  /\ Same(t, r, ForgetFields)
  /\ r.dirty = t.dirty \ nodes
  /\ r.children = Else(columns, t.children, << >>) /\ r.activeChild = Else(columns, t.activeChild, None)
  /\ r.colWorkspace = Else(columns, t.colWorkspace, None)
  /\ r.colOutput = Else(columns, t.colOutput, None)
  /\ r.activeColumn = Else(Workspace \ t.workspaces, t.activeColumn, None)
  /\ r.focusMode = Else(Workspace \ t.workspaces, t.focusMode, "tiling")
  /\ r.status = Else(windows, t.status, "absent") /\ r.output = Else(windows, t.output, None)
  /\ r.fullscreen = t.fullscreen \ windows

LEMMA ForgetsKeeps ==
  ASSUME NEW t, Inv(t), NEW r, NEW columns, NEW windows, NEW nodes, Forgets(t, r, columns, windows, nodes),
         \A c \in Column \cap columns : /\ \A s \in Workspace : c \notin ToSet(t.columns[s])
                                        /\ \A w \in Window : t.column[w] # c,
         \A w \in Window \cap windows : t.status[w] = "dead"
  PROVE  Inv(r) /\ (Homed(t) => Homed(r))
<1>1. /\ TreeType(t) /\ OtherType(t) /\ PlaceInv(t) /\ PathInv(t) /\ OutputInv(t) /\ NoteType(t)
      /\ DOMAIN t = Fields
      /\ t.columns \in [Workspace -> Seq(Column)] /\ t.floating \in [Workspace -> Seq(Window)]
      /\ t.activeColumn \in [Workspace -> Maybe(Column)]
      /\ t.focusMode \in [Workspace -> {"tiling", "floating"}]
      /\ t.children \in [Column -> Seq(Window)] /\ t.activeChild \in [Column -> Maybe(Window)]
      /\ t.colWorkspace \in [Column -> Maybe(Workspace)] /\ t.colOutput \in [Column -> Maybe(Output)]
      /\ t.status \in [Window -> {"absent", "alive", "dead"}]
      /\ t.output \in [Window -> Maybe(Outputs(t))]
  BY DEF Inv, TreeType, OtherType
<1>2. /\ DOMAIN r = Fields /\ r.workspaces = t.workspaces /\ r.activeWorkspace = t.activeWorkspace
      /\ r.outputs = t.outputs /\ r.activeOutput = t.activeOutput
      /\ r.columns = t.columns /\ r.floating = t.floating
      /\ r.workspace = t.workspace /\ r.column = t.column /\ r.history = t.history
      /\ r.fullscreenWindows = t.fullscreenWindows
      /\ r.overlay = t.overlay /\ r.focused = t.focused /\ r.crashed = t.crashed
      /\ r.dirty = t.dirty \ nodes /\ r.fullscreen = t.fullscreen \ windows
      /\ Outputs(r) = Outputs(t)
  BY DEF Forgets, Same, Fields, ForgetFields, Outputs
<1>2a. ASSUME NEW c \in Column \cap columns, NEW w \in Window PROVE w \notin ToSet(t.children[c])
  <2>1. w \in ToSet(t.children[c]) <=> t.column[w] = c
    BY <1>1 DEF PlaceInv
  <2>2. t.column[w] # c
    OBVIOUS
  <2> QED
    BY <2>1, <2>2
<1>3. r.children = t.children
  <2>1. ASSUME NEW c \in Column \cap columns PROVE t.children[c] = << >>
    <3>1. \A w \in Window : w \notin ToSet(t.children[c])
      BY <1>2a
    <3>2. t.children[c] \in Seq(Window)
      BY <1>1
    <3> QED
      BY <3>1, <3>2, EmptyList
  <2> QED
    BY <1>1, <2>1 DEF Forgets, Else
<1>4. r.activeChild = t.activeChild
  <2>1. ASSUME NEW c \in Column \cap columns PROVE t.activeChild[c] = None
    <3>1. \A w \in Window : w \notin ToSet(t.children[c])
      BY <1>2a
    <3>2. t.activeChild[c] \in Maybe(Window)
      BY <1>1
    <3> QED
      BY <1>1, <3>1, <3>2 DEF PathInv, Maybe
  <2> QED
    BY <1>1, <2>1 DEF Forgets, Else
<1>5. r.activeColumn = t.activeColumn /\ r.focusMode = t.focusMode
  <2>1. ASSUME NEW s \in Workspace \ t.workspaces PROVE t.activeColumn[s] = None /\ t.focusMode[s] = "tiling"
    <3>1. t.columns[s] = << >> /\ t.floating[s] = << >>
      BY <1>1 DEF PlaceInv
    <3>2. t.activeColumn[s] \in Maybe(ToSet(t.columns[s])) /\ t.focusMode[s] # "floating"
      BY <1>1, <3>1 DEF PathInv
    <3>3. ToSet(t.columns[s]) = {}
      BY <3>1 DEF ToSet
    <3> QED
      BY <1>1, <3>2, <3>3 DEF Maybe
  <2> QED
    BY <1>1, <2>1 DEF Forgets, Else
<1>6. /\ r.colWorkspace \in [Column -> Maybe(Workspace)] /\ r.colOutput \in [Column -> Maybe(Output)]
      /\ \A c \in Column \ columns : r.colWorkspace[c] = t.colWorkspace[c] /\ r.colOutput[c] = t.colOutput[c]
  BY <1>1 DEF Forgets, Else, Maybe
<1>7. /\ r.status \in [Window -> {"absent", "alive", "dead"}] /\ r.output \in [Window -> Maybe(Outputs(t))]
      /\ \A w \in Window \ windows : r.status[w] = t.status[w] /\ r.output[w] = t.output[w]
      /\ \A w \in Window \cap windows : r.status[w] = "absent"
  BY <1>1 DEF Forgets, Else, Maybe
<1>8. ASSUME NEW s \in Workspace, NEW c \in ToSet(t.columns[s])
      PROVE  c \in Column \ columns
  <2>1. t.columns[s] \in Seq(Column)
    BY <1>1
  <2>2. c \in Column
    BY <2>1, EmptyList
  <2> QED
    BY <2>2
<1>9. ASSUME NEW w \in Window, w \in windows
      PROVE  t.history[w] = << >> /\ t.workspace[w] = None /\ t.column[w] = None
  <2>1. t.history[w] = << >> /\ t.workspace[w] = None
    BY <1>1, <1>9 DEF OutputInv
  <2> QED
    BY <1>1, <2>1, NodesAssumption DEF PlaceInv
<1>10. TreeType(r)
  BY <1>1, <1>2, <1>3, <1>4, <1>5, <1>6 DEF TreeType
<1>11. OtherType(r)
  <2>1. NoteType(r)
    BY <1>1, <1>2 DEF NoteType
  <2> QED
    BY <1>1, <1>2, <1>7, <2>1 DEF OtherType
<1>12. PlaceInv(r)
  <2>1. \A s \in Workspace : \A c \in ToSet(r.columns[s]) : r.colWorkspace[c] = s
    BY <1>1, <1>2, <1>6, <1>8 DEF PlaceInv
  <2> QED
    BY <1>1, <1>2, <1>3, <2>1 DEF PlaceInv
<1>13. PathInv(r)
  BY <1>1, <1>2, <1>3, <1>4, <1>5 DEF PathInv
<1>14. OutputInv(r)
  <2>1. \A s \in Workspace : \A c \in ToSet(r.columns[s]) : r.colOutput[c] \in Outputs(r)
    BY <1>1, <1>2, <1>6, <1>8 DEF OutputInv
  <2>2. ASSUME NEW w \in Window
        PROVE  /\ r.column[w] # None => r.output[w] \in ToSet(r.history[w])
               /\ r.column[w] # None /\ w \notin r.fullscreen => r.output[w] = r.colOutput[r.column[w]]
               /\ r.workspace[w] # None => r.history[w] # << >>
               /\ r.history[w] # << >> \/ w \in r.fullscreen => r.output[w] \in Outputs(r)
               /\ IsInjective(r.history[w])
               /\ r.history[w] # << >> => r.status[w] = "alive"
    <3>0. /\ t.column[w] # None => t.output[w] \in ToSet(t.history[w])
          /\ t.column[w] # None /\ w \notin t.fullscreen => t.output[w] = t.colOutput[t.column[w]]
          /\ t.workspace[w] # None => t.history[w] # << >>
          /\ t.history[w] # << >> \/ w \in t.fullscreen => t.output[w] \in Outputs(t)
          /\ IsInjective(t.history[w])
          /\ t.history[w] # << >> => t.status[w] = "alive"
      BY <1>1 DEF OutputInv
    <3>1. CASE w \in windows
      BY <1>2, <1>9, <3>0, <3>1
    <3>2. CASE w \notin windows
      <4>1. t.column[w] # None => t.colOutput[t.column[w]] = r.colOutput[t.column[w]]
        <5>1. t.column[w] # None => t.workspace[w] \in Workspace /\ t.column[w] \in ToSet(t.columns[t.workspace[w]])
          BY <1>1 DEF PlaceInv
        <5> QED
          BY <1>6, <1>8, <5>1
      <4> QED
        BY <1>2, <1>7, <3>0, <3>2, <4>1
    <3> QED
      BY <3>1, <3>2
  <2> QED
    BY <1>1, <1>2, <2>1, <2>2 DEF OutputInv
<1>15. Homed(t) => Homed(r)
  <2> SUFFICES ASSUME Homed(t), NEW w \in Window, r.status[w] = "alive" PROVE r.workspace[w] # None
    BY DEF Homed
  <2>1. t.status[w] = "alive"
    BY <1>7
  <2> QED
    BY <1>2, <2>1 DEF Homed
<1> QED
  BY <1>10, <1>11, <1>12, <1>13, <1>14, <1>15 DEF Inv

\* What an action leaves behind
LEMMA BecomeKeeps ==
  ASSUME NEW t, Inv(t), Homed(t), Become(t)
  PROVE  Inv(tree') /\ Homed(tree')
<1> DEFINE q == Settled(t)
           columns == {c \in Column : Unused(q, c)}
           windows == {w \in Window : /\ q.status[w] = "dead"
                                      /\ w \notin Reached(q)
                                      /\ \A o \in Output : ~Contains(q.fullscreenWindows[o], w)}
           nodes == columns \cup windows \cup (Workspace \ q.workspaces)
           r == Forgotten(q)
<1>1. Inv(q) /\ Same(t, q, Copies)
  BY SettledKeeps
<1>2. tree' = r
  BY DEF Become
<1> HIDE DEF q
<1>3. Homed(q)
  <2>1. q.status = t.status /\ q.workspace = t.workspace
    BY <1>1 DEF Same, Fields, Copies
  <2> QED
    BY <2>1 DEF Homed
<1>4. DOMAIN q = Fields
  BY <1>1 DEF Inv, TreeType
<1>5. Forgets(q, r, columns, windows, nodes)
  BY <1>4 DEF Forgotten, Forgets, Same, Fields, ForgetFields
<1>6. \A c \in Column \cap columns : /\ \A s \in Workspace : c \notin ToSet(q.columns[s])
                                     /\ \A w \in Window : q.column[w] # c
  <2> SUFFICES ASSUME NEW c \in Column, Unused(q, c)
               PROVE  /\ \A s \in Workspace : c \notin ToSet(q.columns[s])
                      /\ \A w \in Window : q.column[w] # c
    OBVIOUS
  <2> QED
    BY <1>1, UnusedColumn
<1>7. \A w \in Window \cap windows : q.status[w] = "dead"
  OBVIOUS
<1> HIDE DEF columns, windows, nodes, r
<1>8. Inv(r) /\ (Homed(q) => Homed(r))
  BY <1>1, <1>5, <1>6, <1>7, ForgetsKeeps
<1> QED
  BY <1>2, <1>3, <1>8

-----------------------------------------------------------------------------
(* Moving windows. *)

\* What moving a window may change
MoveFields == DetachFields \cup NewFields \cup {"crashed"}

\* No window has left the tree, and no column its workspace.
Stays(t, r) ==
  /\ \A x \in Window : t.workspace[x] # None => r.workspace[x] # None
  /\ \A u \in Workspace : ToSet(t.columns[u]) \subseteq ToSet(r.columns[u])

\* A window in the tree has been moved within it.
Moves(t, r) == Inv(r) /\ Same(t, r, MoveFields) /\ Stays(t, r)

LEMMA MovesTwice ==
  ASSUME NEW t, NEW r, NEW q, Moves(t, r), Moves(r, q)
  PROVE  Moves(t, q)
BY DEF Moves, Same, Stays

LEMMA MovesNowhere ==
  ASSUME NEW t, Inv(t)
  PROVE  Moves(t, t)
BY DEF Moves, Same, Stays, Inv, TreeType

\* A window of the tree is alive, and on an output.
LEMMA WindowShown ==
  ASSUME NEW t, Inv(t), NEW w \in Window, t.workspace[w] # None
  PROVE  /\ t.status[w] = "alive" /\ t.history[w] # << >> /\ t.output[w] \in Outputs(t)
         /\ t.outputs # << >>
<1>1. t.status[w] = "alive" /\ t.history[w] # << >> /\ t.output[w] \in Outputs(t)
  BY DEF Inv, OutputInv
<1>2. t.outputs \in Seq(Output)
  BY DEF Inv, OtherType
<1>3. t.outputs # << >>
  BY <1>1, <1>2, EmptyList DEF Outputs
<1> QED
  BY <1>1, <1>3

\* The window that is detached and put elsewhere
LEMMA DetachedThen ==
  ASSUME NEW t, Inv(t), NEW w \in Window, NEW a, Same(t, a, DetachFields), Moved(t, a, w, None, None),
         NEW r, Inv(r), Same(a, r, DetachFields), NEW s \in Workspace, NEW c, Moved(a, r, w, s, c)
  PROVE  Moves(t, r) /\ r.workspace[w] = s /\ Same(t, r, DetachFields) /\ Moved(t, r, w, s, c)
<1>1. t.workspace \in [Window -> Maybe(Workspace)] /\ s # None
      /\ t.column \in [Window -> Maybe(Column)]
  BY NodesAssumption DEF Inv, TreeType
<1>2. /\ a.workspace = [t.workspace EXCEPT ![w] = None] /\ r.workspace = [a.workspace EXCEPT ![w] = s]
      /\ a.column = [t.column EXCEPT ![w] = None] /\ r.column = [a.column EXCEPT ![w] = c]
  BY DEF Moved, Put
<1>3. r.workspace[w] = s /\ \A x \in Window \ {w} : r.workspace[x] = t.workspace[x]
  BY <1>1, <1>2
<1>4. Same(t, r, MoveFields) /\ Same(t, r, DetachFields)
  BY DEF Same, MoveFields
<1>5. r.columns = t.columns
  BY DEF Same, Fields, DetachFields, ColumnFields, FloatFields
<1>6. r.workspace = [t.workspace EXCEPT ![w] = s] /\ r.column = [t.column EXCEPT ![w] = c]
  BY <1>1, <1>2
<1> QED
  BY <1>1, <1>3, <1>4, <1>5, <1>6 DEF Moves, Stays, Moved, Put

\* Detaching a window leaves the children of the other columns.
LEMMA DetachChildren ==
  ASSUME NEW t, Inv(t), NEW w \in Window, NEW c \in Column, t.column[w] # c
  PROVE  Detach(t, w).children[c] = t.children[c]
<1>1. DOMAIN t = Fields /\ t.children \in [Column -> Seq(Window)] /\ t.column \in [Window -> Maybe(Column)]
  BY DEF Inv, TreeType
<1>2. CASE IsTiling(t, w)
  <2> DEFINE b == t.column[w]
             i == IndexIn(t.children[b], w)
             rest == RemoveFirst(t.children[b], w)
             next == IF rest = << >> THEN None ELSE rest[IF i > 1 THEN i - 1 ELSE 1]
             unlisted == [t EXCEPT !.children[b] = rest,
                                   !.activeChild[b] = IF @ = w THEN next ELSE @]
             chosen == IF t.activeChild[b] = w /\ next # None
                         THEN ReconcileTiling(unlisted, next, b) ELSE unlisted
  <2>1. Detach(t, w) = Mark(ReconcileDetached(chosen, w), {b})
    BY <1>2 DEF Detach, RemoveChild
  <2>2. DOMAIN unlisted = Fields /\ unlisted.children = [t.children EXCEPT ![b] = rest]
    BY <1>1 DEF Fields
  <2>3. b # c
    OBVIOUS
  <2> HIDE DEF b, rest, next, i, unlisted
  <2>4. DOMAIN chosen = Fields /\ chosen.children = unlisted.children
    BY <2>2 DEF ReconcileTiling, Fields
  <2> HIDE DEF chosen
  <2>5. Mark(ReconcileDetached(chosen, w), {b}).children = chosen.children
    BY <2>4 DEF Mark, ReconcileDetached, Fields
  <2> QED
    BY <1>1, <2>1, <2>2, <2>3, <2>4, <2>5
<1>3. CASE ~IsTiling(t, w) /\ IsFloating(t, w)
  <2> DEFINE s == t.workspace[w]
             rest == RemoveFirst(t.floating[s], w)
             unlisted == [t EXCEPT !.floating[s] = rest,
                                   !.focusMode[s] = IF rest = << >> THEN "tiling" ELSE @]
             tiling == ActiveTiling(t, s)
             chosen == IF rest # << >> THEN ReconcileFloating(unlisted, Last(rest), s)
                       ELSE IF tiling # None
                              THEN ReconcileTiling(unlisted, tiling, t.column[tiling])
                              ELSE unlisted
             marked == IF w \in t.fullscreen THEN Mark(chosen, {t.output[w]}) ELSE chosen
  <2>1. Detach(t, w) = ReconcileDetached(marked, w)
    BY <1>3 DEF Detach, RemoveFloating
  <2>2. DOMAIN unlisted = Fields /\ unlisted.children = t.children
    BY <1>1 DEF Fields
  <2> HIDE DEF rest, tiling, unlisted, s
  <2>3. DOMAIN chosen = Fields /\ chosen.children = t.children
    BY <2>2 DEF ReconcileTiling, ReconcileFloating, Fields
  <2> HIDE DEF chosen
  <2>4. DOMAIN marked = Fields /\ marked.children = t.children
    BY <2>3 DEF Mark, Fields
  <2> HIDE DEF marked
  <2>5. ReconcileDetached(marked, w).children = t.children
    BY <2>4 DEF ReconcileDetached, Fields
  <2> QED
    BY <2>1, <2>5
<1>4. CASE ~IsTiling(t, w) /\ ~IsFloating(t, w)
  BY <1>4 DEF Detach
<1> QED
  BY <1>2, <1>3, <1>4

\* move_window_to_column_from_maybe_direction
LEMMA MoveToColumnKeeps ==
  ASSUME NEW t, Inv(t), NEW w \in Window, t.workspace[w] # None,
         NEW s \in Workspace, NEW c \in ToSet(t.columns[s]), NEW d
  PROVE  LET r == MoveToColumn(t, w, c, d)
         IN  /\ Moves(t, r) /\ r.workspace[w] = s
             /\ IF t.column[w] = c THEN r = t ELSE Same(t, r, DetachFields) /\ Moved(t, r, w, s, c)
<1> DEFINE i == IF d = "down" THEN 1 ELSE Len(t.children[c]) + 1
           a == Detach(t, w)
           r == IF d \in {"up", "down"} THEN InsertChild(a, c, w, i)
                ELSE AddBesideActive(a, c, t.activeChild[c], w)
<1>1. MoveToColumn(t, w, c, d) = IF t.column[w] = c THEN t ELSE r
  BY DEF MoveToColumn
<1>2. c \in Column
  <2>1. t.columns[s] \in Seq(Column)
    BY DEF Inv, TreeType
  <2> QED
    BY <2>1, EmptyList
<1>3. t.status[w] = "alive"
  BY WindowShown
<1>4. CASE t.column[w] = c
  <2>1. t.colWorkspace[c] = s
    BY DEF Inv, PlaceInv
  <2>2. t.workspace[w] = s
    BY <1>2, <1>4, <2>1, ChildHome
  <2> QED
    BY <1>1, <1>4, <2>2, MovesNowhere
<1>5. CASE t.column[w] # c
  <2>1. a.children[c] = t.children[c]
    BY <1>2, <1>5, DetachChildren
  <2>2. Inv(a) /\ Same(t, a, DetachFields) /\ Moved(t, a, w, None, None)
    BY DetachKeeps
  <2> HIDE DEF a
  <2>3. a.columns = t.columns /\ a.status = t.status
    BY <2>2 DEF Same, Fields, DetachFields, ColumnFields, FloatFields
  <2>4. t.workspace \in [Window -> Maybe(Workspace)]
    BY DEF Inv, TreeType
  <2>5. a.workspace[w] = None
    BY <2>2, <2>4 DEF Moved, Put
  <2>6. t.children[c] \in Seq(Window) /\ t.activeChild[c] \in Maybe(ToSet(a.children[c]))
    BY <1>2, <2>1 DEF Inv, TreeType, PathInv, Maybe
  <2>7. i \in 1..(Len(a.children[c]) + 1)
    BY <2>1, <2>6
  <2>8. a.status[w] = "alive" /\ c \in ToSet(a.columns[s])
    BY <1>3, <2>3
  <2>9. Inv(r) /\ Same(a, r, ColumnFields) /\ Moved(a, r, w, s, c)
    <3> DEFINE x == t.activeChild[c]
               r1 == InsertChild(a, c, w, i)
               r2 == AddBesideActive(a, c, x, w)
    <3>1. Inv(r1) /\ Same(a, r1, ColumnFields) /\ Moved(a, r1, w, s, c)
      <4> HIDE DEF i
      <4> QED
        BY <1>2, <2>2, <2>5, <2>7, <2>8, InsertChildKeeps
    <3>2. Inv(r2) /\ Same(a, r2, ColumnFields) /\ Moved(a, r2, w, s, c)
      <4> HIDE DEF x
      <4> QED
        BY <1>2, <2>2, <2>5, <2>6, <2>8, AddBesideActiveKeeps DEF x
    <3>3. r = r1 \/ r = r2
      OBVIOUS
    <3> HIDE DEF r, r1, r2
    <3> QED
      BY <3>1, <3>2, <3>3
  <2> HIDE DEF r
  <2>10. Same(a, r, DetachFields)
    BY <2>9 DEF Same, DetachFields
  <2>11. Moves(t, r) /\ r.workspace[w] = s /\ Same(t, r, DetachFields) /\ Moved(t, r, w, s, c)
    BY <2>2, <2>9, <2>10, DetachedThen
  <2> QED
    BY <1>1, <1>5, <2>11
<1> QED
  BY <1>4, <1>5

\* A window is detached and starts to float, there or in another workspace.
LEMMA FloatThere ==
  ASSUME NEW t, Inv(t), NEW w \in Window, t.workspace[w] # None, NEW s \in t.workspaces
  PROVE  LET r == AddFloating(Detach(t, w), s, w)
         IN  /\ Moves(t, r) /\ r.workspace[w] = s
             /\ Same(t, r, DetachFields) /\ Moved(t, r, w, s, None)
<1> DEFINE a == Detach(t, w)
           r == AddFloating(a, s, w)
<1>1. t.status[w] = "alive" /\ t.outputs # << >>
  BY WindowShown
<1>2. Inv(a) /\ Same(t, a, DetachFields) /\ Moved(t, a, w, None, None)
  BY DetachKeeps
<1> HIDE DEF a
<1>3. a.workspaces = t.workspaces /\ a.status = t.status /\ a.outputs = t.outputs
  BY <1>2 DEF Same, Fields, DetachFields, ColumnFields, FloatFields
<1>4. t.workspace \in [Window -> Maybe(Workspace)] /\ s \in Workspace
  BY DEF Inv, TreeType
<1>5. a.workspace[w] = None
  BY <1>2, <1>4 DEF Moved, Put
<1>6. Inv(r) /\ Same(a, r, FloatFields) /\ Moved(a, r, w, s, None)
  BY <1>1, <1>2, <1>3, <1>5, AddFloatingKeeps
<1> HIDE DEF r
<1>7. Same(a, r, DetachFields)
  BY <1>6 DEF Same, DetachFields
<1>8. Moves(t, r) /\ r.workspace[w] = s /\ Same(t, r, DetachFields) /\ Moved(t, r, w, s, None)
  BY <1>2, <1>4, <1>6, <1>7, DetachedThen
<1> QED
  BY <1>8 DEF r, a

\* A workspace with a column more
LEMMA WidensMoves ==
  ASSUME NEW t, NEW r, NEW s, NEW c, Inv(r), Widens(t, r, s, c)
  PROVE  Moves(t, r) /\ r.workspace = t.workspace /\ r.column = t.column /\ r.children = t.children
         /\ c \in ToSet(r.columns[s])
<1>1. Same(t, r, NewFields)
  BY DEF Widens
<1>2. Same(t, r, MoveFields)
  BY <1>1 DEF Same, MoveFields
<1>3. r.workspace = t.workspace /\ r.column = t.column /\ r.children = t.children
  BY <1>1 DEF Same, Fields, NewFields
<1> QED
  BY <1>2, <1>3 DEF Moves, Stays, Widens

\* move_window_to_workspace
LEMMA MoveToWorkspaceKeeps ==
  ASSUME NEW t, Inv(t), HasUnused(t), NEW w \in Window, t.workspace[w] # None, NEW s \in t.workspaces
  PROVE  LET r == MoveToWorkspace(t, w, s)
         IN  Moves(t, r) /\ r.workspace[w] = s
<1> DEFINE o == t.output[w]
           ready == EnsureColumn(t, s, o)
           c == ColumnThere(t, s, o)
           tiled == MoveToColumn(ready, w, c, "none")
           afloat == AddFloating(Detach(t, w), s, w)
<1>1. MoveToWorkspace(t, w, s) = IF t.workspace[w] = s THEN t
                                 ELSE IF IsFloating(t, w) THEN afloat ELSE tiled
  BY DEF MoveToWorkspace, ColumnThere
<1>2. o \in Outputs(t) /\ s \in Workspace
  BY WindowShown DEF Inv, TreeType
<1>3. Inv(ready) /\ Widens(t, ready, s, c)
  BY <1>2, EnsureColumnKeeps
<1> HIDE DEF ready, c
<1>4. Moves(t, ready) /\ ready.workspace = t.workspace /\ c \in ToSet(ready.columns[s])
  BY <1>3, WidensMoves
<1>5. Moves(ready, tiled) /\ tiled.workspace[w] = s
  BY <1>2, <1>3, <1>4, MoveToColumnKeeps
<1> HIDE DEF tiled
<1>6. Moves(t, tiled)
  BY <1>4, <1>5, MovesTwice
<1>7. Moves(t, afloat) /\ afloat.workspace[w] = s
  BY FloatThere
<1> HIDE DEF afloat
<1> QED
  BY <1>1, <1>5, <1>6, <1>7, MovesNowhere

\* An output that a column is on has a first and a last column.
LEMMA EndsThere ==
  ASSUME NEW t, Inv(t), NEW s \in Workspace, NEW c \in ToSet(t.columns[s])
  PROVE  /\ ColumnFirst(t, s, t.colOutput[c]) \in ToSet(t.columns[s])
         /\ ColumnLast(t, s, t.colOutput[c]) \in ToSet(t.columns[s])
<1> DEFINE places == ColumnsOn(t, s, t.colOutput[c])
<1>1. t.columns[s] \in Seq(Column)
  BY DEF Inv, TreeType
<1>2. places \in SUBSET DOMAIN t.columns[s]
  BY DEF ColumnsOn
<1>3. PICK i \in DOMAIN t.columns[s] : t.columns[s][i] = c
  BY DEF ToSet
<1>4. places # {}
  BY <1>3 DEF ColumnsOn
<1>5. \A j \in DOMAIN t.columns[s] : t.columns[s][j] \in ToSet(t.columns[s])
  BY <1>1 DEF ToSet
<1>6. /\ ColumnFirst(t, s, t.colOutput[c]) = FirstOf(t.columns[s], places)
      /\ ColumnLast(t, s, t.colOutput[c]) = LastOf(t.columns[s], places)
  BY DEF ColumnFirst, ColumnLast
<1> HIDE DEF places
<1>7. /\ \E j \in places : ColumnFirst(t, s, t.colOutput[c]) = t.columns[s][j]
      /\ \E j \in places : ColumnLast(t, s, t.colOutput[c]) = t.columns[s][j]
  BY <1>1, <1>2, <1>4, <1>6, PickedPlace
<1> QED
  BY <1>2, <1>5, <1>7

\* window_tiling_move_to_next_output
LEMMA MoveToNextOutputKeeps ==
  ASSUME NEW t, Inv(t), NEW w \in Window, NEW b \in Column, t.column[w] = b, NEW d
  PROVE  Moves(t, MoveToNextOutput(t, w, t.colOutput[b], d))
<1> DEFINE o == t.colOutput[b]
           s == t.workspace[w]
           active == t.activeColumn[s]
           c == IF d = "down" /\ t.colOutput[active] = o THEN active
                ELSE IF d = "left" THEN ColumnLast(t, s, o) ELSE ColumnFirst(t, s, o)
           crash == [t EXCEPT !.crashed = TRUE]
           r == MoveToColumn(t, w, c, d)
<1>1. MoveToNextOutput(t, w, o, d) = IF OutputInDirection(t, o, d) = None THEN t
                                     ELSE IF active = None THEN crash ELSE r
  BY DEF MoveToNextOutput
<1>2. s \in Workspace /\ s # None /\ b \in ToSet(t.columns[s])
  BY ChildHome
<1>3. Moves(t, crash)
  <2>1. Inv(crash) /\ Same(t, crash, {"crashed"})
    BY CrashKeeps
  <2> HIDE DEF crash
  <2>2. crash.workspace = t.workspace /\ crash.columns = t.columns /\ Same(t, crash, MoveFields)
    BY <2>1 DEF Same, Fields, MoveFields
  <2> QED
    BY <2>1, <2>2 DEF Moves, Stays
<1>4. ASSUME active # None PROVE Moves(t, r)
  <2>1. active \in ToSet(t.columns[s])
    BY <1>2, <1>4 DEF Inv, PathInv, Maybe
  <2>2. ColumnFirst(t, s, o) \in ToSet(t.columns[s]) /\ ColumnLast(t, s, o) \in ToSet(t.columns[s])
    BY <1>2, EndsThere
  <2>3. c \in ToSet(t.columns[s])
    BY <2>1, <2>2
  <2> HIDE DEF c
  <2> QED
    BY <1>2, <2>3, MoveToColumnKeeps
<1> HIDE DEF r, crash
<1> QED
  BY <1>1, <1>3, <1>4, MovesNowhere

\* A window moves to the other side of one beside it in its column.
LEMMA MoveBesideKeeps ==
  ASSUME NEW t, Inv(t), NEW w \in Window, NEW b \in Column, t.column[w] = b, NEW d,
         LET siblings == t.children[b]
         IN  (IF d = "up" THEN PrevIn(siblings, w) ELSE NextIn(siblings, w)) # None
  PROVE  LET siblings == t.children[b]
             fixed == IF d = "up" THEN PrevIn(siblings, w) ELSE NextIn(siblings, w)
             r == AddSibling(Detach(t, w), fixed, w, d = "down")
         IN  Moves(t, r) /\ Same(t, r, DetachFields) /\ Moved(t, r, w, t.workspace[w], b)
<1> DEFINE siblings == t.children[b]
           fixed == IF d = "up" THEN PrevIn(siblings, w) ELSE NextIn(siblings, w)
           after == d = "down"
           a == Detach(t, w)
           r == AddSibling(a, fixed, w, after)
<1>1. b # None /\ w \in ToSet(t.children[b]) /\ t.workspace[w] \in Workspace /\ t.workspace[w] # None
      /\ t.colWorkspace[b] = t.workspace[w] /\ b \in ToSet(t.columns[t.workspace[w]])
  BY ChildHome
<1>2. siblings \in Seq(Window) /\ IsInjective(siblings)
  BY DEF Inv, TreeType, PlaceInv
<1>3. fixed \in ToSet(siblings) \ {w}
  BY <1>1, <1>2, Neighbours
<1>4. fixed \in Window /\ t.column[fixed] = b /\ fixed # w
  <2>1. fixed \in Window /\ fixed # w
    BY <1>2, <1>3, EmptyList
  <2> QED
    BY <1>3, <2>1 DEF Inv, PlaceInv
<1>5. Inv(a) /\ Same(t, a, DetachFields) /\ Moved(t, a, w, None, None)
  BY DetachKeeps
<1> HIDE DEF a, fixed, siblings
<1>6. t.workspace \in [Window -> Maybe(Workspace)] /\ t.column \in [Window -> Maybe(Column)]
  BY DEF Inv, TreeType
<1>7. a.workspace[w] = None /\ a.column[fixed] = b /\ a.workspace[fixed] = t.workspace[fixed]
  BY <1>4, <1>5, <1>6 DEF Moved, Put
<1>8. a.status[w] = "alive"
  <2>1. t.status[w] = "alive"
    BY <1>1, WindowShown
  <2> QED
    BY <1>5, <2>1 DEF Same, Fields, DetachFields, ColumnFields, FloatFields
<1>9. t.workspace[fixed] = t.workspace[w]
  <2>1. t.colWorkspace[b] = t.workspace[fixed]
    BY <1>4, ChildHome
  <2> QED
    BY <1>1, <2>1
<1>10. after \in BOOLEAN
  OBVIOUS
<1> HIDE DEF after
<1>11. Inv(r) /\ Same(a, r, ColumnFields) /\ Moved(a, r, w, t.workspace[w], b)
  <2>1. Inv(r) /\ Same(a, r, ColumnFields) /\ Moved(a, r, w, a.workspace[fixed], b)
    BY <1>4, <1>5, <1>7, <1>8, <1>10, AddSiblingKeeps
  <2> HIDE DEF r
  <2> QED
    BY <1>7, <1>9, <2>1
<1> HIDE DEF r
<1>12. Same(a, r, DetachFields)
  BY <1>11 DEF Same, DetachFields
<1>13. Moves(t, r) /\ Same(t, r, DetachFields) /\ Moved(t, r, w, t.workspace[w], b)
  BY <1>1, <1>5, <1>11, <1>12, DetachedThen
<1> QED
  BY <1>13 DEF r, a, fixed, siblings, after

\* Up and down in window_tiling_move_in_direction
LEMMA MoveInColumnKeeps ==
  ASSUME NEW t, Inv(t), NEW w \in Window, NEW b \in Column, t.column[w] = b, w \notin t.fullscreen, NEW d
  PROVE  Moves(t, MoveInColumn(t, w, d))
<1> DEFINE siblings == t.children[b]
           fixed == IF d = "up" THEN PrevIn(siblings, w) ELSE NextIn(siblings, w)
           r == AddSibling(Detach(t, w), fixed, w, d = "down")
<1>1. t.output[w] = t.colOutput[b]
  BY ChildHome DEF Inv, OutputInv
<1>2. MoveInColumn(t, w, d) = IF fixed = None THEN MoveToNextOutput(t, w, t.colOutput[b], d) ELSE r
  BY <1>1 DEF MoveInColumn
<1>3. fixed # None => Moves(t, r)
  BY MoveBesideKeeps
<1>4. Moves(t, MoveToNextOutput(t, w, t.colOutput[b], d))
  BY MoveToNextOutputKeeps
<1> HIDE DEF r, fixed
<1> QED
  BY <1>2, <1>3, <1>4

\* Left and right in window_tiling_move_in_direction
LEMMA MoveAcrossKeeps ==
  ASSUME NEW t, Inv(t), HasUnused(t), NEW w \in Window, NEW b \in Column, t.column[w] = b, NEW d
  PROVE  Moves(t, MoveAcross(t, w, d))
<1> DEFINE s == t.colWorkspace[b]
           o == t.colOutput[b]
           near == IF d = "left" THEN ColumnBefore(t, b) ELSE ColumnAfter(t, b)
           wider == IF d = "left" THEN InsertFirst(t, s, o) ELSE InsertLast(t, s, o)
           c == NewColumn(t)
           across == MoveToColumn(t, w, near, d)
           next == MoveToNextOutput(t, w, o, d)
           own == MoveToColumn(wider, w, c, d)
<1>1. MoveAcross(t, w, d) = IF near # None THEN across
                            ELSE IF Len(t.children[b]) = 1 THEN next ELSE own
  BY DEF MoveAcross
<1>2. t.workspace[w] # None /\ s \in Workspace /\ s \in t.workspaces /\ b \in ToSet(t.columns[s])
  BY ChildHome
<1>3. o \in Outputs(t)
  BY <1>2 DEF Inv, OutputInv
<1>4. near # None => Moves(t, across)
  <2>1. near # None => near \in ToSet(t.columns[s])
    BY <1>2, BesideColumns
  <2> HIDE DEF near
  <2> QED
    BY <1>2, <2>1, MoveToColumnKeeps
<1>5. Moves(t, next)
  BY MoveToNextOutputKeeps
<1>6. Moves(t, own)
  <2>1. Inv(wider) /\ Widens(t, wider, s, c)
    BY <1>2, <1>3, InsertNewKeeps
  <2> HIDE DEF wider, c
  <2>2. Moves(t, wider) /\ wider.workspace = t.workspace /\ c \in ToSet(wider.columns[s])
    BY <2>1, WidensMoves
  <2>3. Moves(wider, own)
    BY <1>2, <2>1, <2>2, MoveToColumnKeeps
  <2> HIDE DEF own
  <2> QED
    BY <2>2, <2>3, MovesTwice
<1> HIDE DEF across, next, own, near
<1> QED
  BY <1>1, <1>4, <1>5, <1>6

-----------------------------------------------------------------------------
(* Between handlers. *)

\* What holds of the tree whenever the event loop waits
Good(t) == Inv(t) /\ Homed(t)

LEMMA GoodSame ==
  ASSUME NEW t, Good(t), NEW r, Inv(r), NEW F, Same(t, r, F), "status" \notin F, "workspace" \notin F
  PROVE  Good(r)
<1>1. r.status = t.status /\ r.workspace = t.workspace
  BY DEF Same, Fields
<1> QED
  BY <1>1 DEF Good, Homed

LEMMA GoodMoves ==
  ASSUME NEW t, Good(t), NEW r, Moves(t, r)
  PROVE  Good(r)
<1>1. r.status = t.status
  BY DEF Moves, Same, Fields, MoveFields, DetachFields, ColumnFields, FloatFields, NewFields
<1> QED
  BY <1>1 DEF Good, Homed, Moves, Stays

LEMMA GoodBecome ==
  ASSUME NEW t, Good(t), Become(t)
  PROVE  Good(tree')
BY BecomeKeeps DEF Good

LEMMA GoodMark ==
  ASSUME NEW t, Good(t), NEW nodes, nodes \subseteq Node
  PROVE  Good(Mark(t, nodes))
<1> DEFINE r == Mark(t, nodes)
<1>1. Inv(r) /\ Same(t, r, {"dirty"})
  BY MarkKeeps DEF Good
<1> HIDE DEF r
<1>2. Good(r)
  BY <1>1, GoodSame
<1> QED
  BY <1>2 DEF r

LEMMA GoodCommit ==
  ASSUME NEW t, Good(t)
  PROVE  Good(CommitFocus(t))
<1> DEFINE r == CommitFocus(t)
<1>1. Inv(r) /\ Same(t, r, {"focused", "dirty"})
  BY CommitFocusKeeps DEF Good
<1> HIDE DEF r
<1>2. Good(r)
  BY <1>1, GoodSame
<1> QED
  BY <1>2 DEF r

LEMMA GoodActiveWindow ==
  ASSUME NEW t, Good(t), NEW s \in Workspace, NEW w \in Maybe(Window), w # None => t.workspace[w] = s
  PROVE  Good(SetActiveWindow(t, s, w))
<1> DEFINE r == SetActiveWindow(t, s, w)
<1>1. Inv(r) /\ Same(t, r, FocusFields)
  BY SetActiveWindowKeeps DEF Good
<1>2. "status" \notin FocusFields /\ "workspace" \notin FocusFields
  BY DEF FocusFields, ActiveFields
<1> HIDE DEF r
<1>3. Good(r)
  BY <1>1, <1>2, GoodSame
<1> QED
  BY <1>3 DEF r

LEMMA GoodFocusedWindow ==
  ASSUME NEW t, Good(t), NEW w \in Window
  PROVE  Good(SetFocusedWindow(t, w))
<1> DEFINE r == SetFocusedWindow(t, w)
<1>1. Inv(r) /\ Same(t, r, RootFields)
  BY SetFocusedWindowKeeps DEF Good
<1>2. "status" \notin RootFields /\ "workspace" \notin RootFields
  BY DEF RootFields, FocusFields, ActiveFields
<1> HIDE DEF r
<1>3. Good(r)
  BY <1>1, <1>2, GoodSame
<1> QED
  BY <1>3 DEF r

LEMMA GoodFullscreen ==
  ASSUME NEW t, Good(t), NEW w \in Window, t.workspace[w] # None, NEW o \in Outputs(t)
  PROVE  Good(FullscreenOn(t, w, o)) /\ Good(Unfullscreen(t, w))
<1> DEFINE r == FullscreenOn(t, w, o)
           q == Unfullscreen(t, w)
<1>1. Inv(r) /\ Same(t, r, FullscreenFields)
  BY FullscreenOnKeeps DEF Good
<1>2. Inv(q) /\ Same(t, q, FullscreenFields)
  BY UnfullscreenKeeps DEF Good
<1>3. "status" \notin FullscreenFields /\ "workspace" \notin FullscreenFields
  BY DEF FullscreenFields
<1> HIDE DEF r, q
<1>4. Good(r) /\ Good(q)
  BY <1>1, <1>2, <1>3, GoodSame
<1> QED
  BY <1>4 DEF r, q

LEMMA GoodWorkspaces ==
  ASSUME NEW t, Good(t), NEW s
  PROVE  /\ Good(WorkspaceConsiderDestroy(t, s))
         /\ s \in Workspace => Good(CreateWorkspace(t, s))
         /\ s \in t.workspaces => Good(SetActiveWorkspace(t, s))
<1> DEFINE a == WorkspaceConsiderDestroy(t, s)
           b == CreateWorkspace(t, s)
           c == SetActiveWorkspace(t, s)
<1>1. Inv(a) /\ Same(t, a, {"workspaces", "dirty"})
  BY WorkspaceConsiderDestroyKeeps DEF Good
<1>2. s \in Workspace => Inv(b) /\ Same(t, b, {"workspaces", "dirty"})
  BY CreateWorkspaceKeeps DEF Good
<1>3. s \in t.workspaces => Inv(c) /\ Same(t, c, {"activeWorkspace", "workspaces", "activeOutput", "dirty"})
  BY SetActiveWorkspaceKeeps DEF Good
<1> HIDE DEF a, b, c
<1>4. Good(a)
  BY <1>1, GoodSame
<1>5. s \in Workspace => Good(b)
  BY <1>2, GoodSame
<1>6. s \in t.workspaces => Good(c)
  BY <1>3, GoodSame
<1> QED
  BY <1>4, <1>5, <1>6 DEF a, b, c

\* The column that a window has left, if it was in one, is destroyed when it is empty.
Cleaned(t, c) == IF c = None THEN t ELSE ColumnConsiderDestroy(t, c)

LEMMA GoodCleaned ==
  ASSUME NEW t, Good(t), NEW s, NEW c, c # None => s \in Workspace /\ c \in ToSet(t.columns[s])
  PROVE  Good(Cleaned(t, c)) /\ Cleaned(t, c).workspace = t.workspace
<1> DEFINE r == ColumnConsiderDestroy(t, c)
<1>1. CASE c = None
  BY <1>1 DEF Cleaned
<1>2. CASE c # None
  <2>1. Inv(r) /\ Same(t, r, {"columns", "activeColumn", "workspaces", "dirty"})
    BY <1>2, ColumnConsiderDestroyKeeps DEF Good
  <2>2. Cleaned(t, c) = r
    BY <1>2 DEF Cleaned
  <2> HIDE DEF r
  <2>3. Good(r)
    BY <2>1, GoodSame
  <2>4. r.workspace = t.workspace
    BY <2>1 DEF Same, Fields
  <2> QED
    BY <2>2, <2>3, <2>4
<1> QED
  BY <1>1, <1>2

\* A window that is detached leaves a column to be allocated, if there was one.
LEMMA UnusedWhenDetached ==
  ASSUME NEW t, Inv(t), HasUnused(t), NEW w \in Window, NEW a, Same(t, a, DetachFields),
         Moved(t, a, w, None, None)
  PROVE  HasUnused(a)
<1>1. a.columns = t.columns /\ a.activeColumn = t.activeColumn /\ a.pColumns = t.pColumns
  BY DEF Same, Fields, DetachFields, ColumnFields, FloatFields
<1>2. t.column \in [Window -> Maybe(Column)] /\ a.column = [t.column EXCEPT ![w] = None]
  BY DEF Inv, TreeType, Moved, Put
<1>3. \A x \in Window : a.column[x] \in {t.column[x], None}
  BY <1>2
<1> QED
  BY <1>1, <1>3, UnusedStays

\* cmd_floating, enabled
LEMMA FloatGood ==
  ASSUME NEW t, Good(t), NEW w \in Window, t.workspace[w] # None
  PROVE  Good(Float(t, w)) /\ Float(t, w).workspace[w] = t.workspace[w]
<1> DEFINE s == t.workspace[w]
           c == t.column[w]
           moved == AddFloating(Detach(t, w), s, w)
<1>1. Inv(t)
  BY DEF Good
<1>2. s \in t.workspaces /\ s \in Workspace
  BY <1>1, WindowHome
<1>3. Moves(t, moved) /\ moved.workspace[w] = s
  BY <1>1, <1>2, FloatThere
<1>4. c # None => c \in ToSet(t.columns[s])
  BY <1>1 DEF Inv, PlaceInv
<1>5. Float(t, w) = Cleaned(moved, c)
  BY DEF Float, Cleaned
<1> HIDE DEF moved, c, s
<1>6. Good(moved)
  BY <1>3, GoodMoves
<1>7. c # None => c \in ToSet(moved.columns[s])
  BY <1>2, <1>3, <1>4 DEF Moves, Stays
<1>8. Good(Cleaned(moved, c)) /\ Cleaned(moved, c).workspace = moved.workspace
  BY <1>2, <1>6, <1>7, GoodCleaned
<1> QED
  BY <1>3, <1>5, <1>8 DEF s

\* cmd_floating, disabled
LEMMA UnfloatGood ==
  ASSUME NEW t, Good(t), HasUnused(t), NEW w \in Window, t.workspace[w] # None
  PROVE  Good(Unfloat(t, w)) /\ Unfloat(t, w).workspace[w] = t.workspace[w]
<1> DEFINE s == t.workspace[w]
           o == t.output[w]
           a == Detach(t, w)
           b == EnsureColumn(a, s, o)
           c == ColumnThere(a, s, o)
           x == b.activeChild[c]
           r == AddBesideActive(b, c, x, w)
<1>1. Unfloat(t, w) = r
  BY DEF Unfloat, ColumnThere
<1>2. Inv(t) /\ s \in t.workspaces /\ s \in Workspace /\ o \in Outputs(t) /\ t.status[w] = "alive"
  BY WindowHome, WindowShown DEF Good
<1>3. Inv(a) /\ Same(t, a, DetachFields) /\ Moved(t, a, w, None, None)
  BY <1>2, DetachKeeps
<1> HIDE DEF a, o
<1>4. HasUnused(a)
  BY <1>2, <1>3, UnusedWhenDetached
<1>5. a.workspaces = t.workspaces /\ Outputs(a) = Outputs(t) /\ a.status = t.status
  BY <1>3 DEF Same, Fields, DetachFields, ColumnFields, FloatFields, Outputs
<1>6. a.workspace[w] = None
  BY <1>2, <1>3 DEF Moved, Put, Inv, TreeType
<1> HIDE DEF s
<1>7. Inv(b) /\ Widens(a, b, s, c) /\ c \in Column
  BY <1>2, <1>3, <1>4, <1>5, EnsureColumnKeeps
<1> HIDE DEF b, c
<1>8. Moves(a, b) /\ b.workspace = a.workspace /\ b.column = a.column /\ c \in ToSet(b.columns[s])
  BY <1>7, WidensMoves
<1>9. b.status[w] = "alive"
  BY <1>2, <1>5, <1>7 DEF Widens, Same, Fields, NewFields
<1>10. x \in Maybe(ToSet(b.children[c]))
  BY <1>7 DEF Inv, PathInv, Maybe
<1>11. b.workspace[w] = None
  BY <1>6, <1>8
<1> HIDE DEF x
<1>12. Inv(r) /\ Same(b, r, ColumnFields) /\ Moved(b, r, w, s, c)
  BY <1>2, <1>7, <1>8, <1>9, <1>10, <1>11, AddBesideActiveKeeps
<1> HIDE DEF r
<1>13. r.workspace[w] = s /\ \A y \in Window \ {w} : r.workspace[y] = t.workspace[y]
  <2>1. /\ t.workspace \in [Window -> Maybe(Workspace)] /\ a.workspace = [t.workspace EXCEPT ![w] = None]
        /\ r.workspace = [a.workspace EXCEPT ![w] = s]
    BY <1>2, <1>3, <1>8, <1>12 DEF Moved, Put, Inv, TreeType
  <2> QED
    BY <2>1
<1>14. r.status = t.status
  <2>1. b.status = a.status
    BY <1>7 DEF Widens, Same, Fields, NewFields
  <2>2. r.status = b.status
    BY <1>12 DEF Same, Fields, ColumnFields
  <2> QED
    BY <1>5, <2>1, <2>2
<1>15. s # None
  BY DEF s
<1>16. Homed(r)
  BY <1>13, <1>14, <1>15 DEF Good, Homed
<1> QED
  BY <1>1, <1>12, <1>13, <1>16 DEF Good, s

\* What the focus may be moved to is a window.
LEMMA WindowOnOutputType ==
  ASSUME NEW t, Inv(t), NEW o \in Output, NEW d
  PROVE  WindowOnOutput(t, o, d) \in Maybe(Window)
<1> DEFINE s == t.activeWorkspace
           c == IF d = "left" THEN ColumnLast(t, s, o) ELSE ColumnFirst(t, s, o)
<1>1. s \in Workspace /\ t.columns[s] \in Seq(Column) /\ t.activeChild \in [Column -> Maybe(Window)]
  BY DEF Inv, TreeType
<1>2. FullscreenFor(t, o) \in Maybe(Window)
  <2>1. t.fullscreenWindows[o] \in Seq(Window)
    BY DEF Inv, OtherType
  <2>2. t.fullscreenWindows[o] # << >> => Last(t.fullscreenWindows[o]) \in Window
    BY <2>1, EmptyList
  <2> QED
    BY <2>2 DEF FullscreenFor, Maybe
<1>3. ActiveTiling(t, s) \in Maybe(Window)
  BY <1>1, ActiveTilingHome DEF Maybe
<1>4. c # None => t.activeChild[c] \in Maybe(Window)
  <2>1. c # None => c \in ToSet(t.columns[s])
    BY <1>1, EndColumns
  <2>2. c # None => c \in Column
    BY <1>1, <2>1, EmptyList
  <2> HIDE DEF c
  <2> QED
    BY <1>1, <2>2
<1>5. None \in Maybe(Window)
  BY DEF Maybe
<1>6. WindowOnOutput(t, o, d) = IF FullscreenFor(t, o) # None THEN FullscreenFor(t, o)
                                ELSE IF d \in {"up", "down"} THEN ActiveTiling(t, s)
                                ELSE IF c = None THEN None ELSE t.activeChild[c]
  BY DEF WindowOnOutput
<1> HIDE DEF c, s
<1> QED
  BY <1>2, <1>3, <1>4, <1>5, <1>6

\* root_get_output_in_direction finds one of the outputs.
LEMMA NextOutput ==
  ASSUME NEW t, Inv(t), NEW o, NEW d
  PROVE  OutputInDirection(t, o, d) # None
           => OutputInDirection(t, o, d) \in Outputs(t) /\ OutputInDirection(t, o, d) \in Output
<1> DEFINE beside == {p \in Outputs(t) : <<o, d, p>> \in Adjacent}
<1>1. OutputInDirection(t, o, d) = IF beside = {} THEN None ELSE CHOOSE p \in beside : TRUE
  BY DEF OutputInDirection
<1>2. beside # {} => (CHOOSE p \in beside : TRUE) \in beside
  OBVIOUS
<1>3. Outputs(t) \subseteq Output
  BY PlaceNodes
<1> QED
  BY <1>1, <1>2, <1>3

\* window_get_in_direction
LEMMA NeighbourType ==
  ASSUME NEW t, Inv(t), NEW w \in Window, t.workspace[w] # None, NEW d \in Direction
  PROVE  /\ IsFloating(t, w) => FloatingNeighbours(t, w) \subseteq Maybe(Window)
         /\ ~(IsFloating(t, w) /\ w \notin t.fullscreen)
              => TilingNeighbours(t, w, d) \subseteq Maybe(Window)
<1> DEFINE c == t.column[w]
           s == t.workspace[w]
           o == OutputInDirection(t, t.output[w], d)
           beyond == IF o = None THEN None ELSE WindowOnOutput(t, o, d)
           near == CASE d = "up" -> PrevIn(t.children[c], w)
                     [] d = "down" -> NextIn(t.children[c], w)
                     [] d = "left" -> ColumnBefore(t, c)
                     [] d = "right" -> ColumnAfter(t, c)
           wrap == CASE d = "up" -> Last(t.children[c])
                     [] d = "down" -> Head(t.children[c])
                     [] d = "left" -> ColumnLast(t, s, t.colOutput[c])
                     [] d = "right" -> ColumnFirst(t, s, t.colOutput[c])
           Child(x) == IF d \in {"up", "down"} THEN x ELSE t.activeChild[x]
<1>1. s \in Workspace
  BY WindowHome
<1>2. FloatingNeighbours(t, w) \subseteq Maybe(Window)
  <2>1. t.floating[s] \in Seq(Window)
    BY <1>1 DEF Inv, TreeType
  <2>2. ToSet(t.floating[s]) \subseteq Window
    BY <2>1, EmptyList
  <2> QED
    BY <2>2 DEF FloatingNeighbours, Maybe
<1>3. beyond \in Maybe(Window)
  <2>1. o # None => o \in Output
    BY NextOutput
  <2> HIDE DEF o
  <2>2. o # None => WindowOnOutput(t, o, d) \in Maybe(Window)
    BY <2>1, WindowOnOutputType
  <2> QED
    BY <2>2 DEF Maybe
<1>4. TilingNeighbours(t, w, d) = IF w \in t.fullscreen THEN {beyond}
                                  ELSE IF near # None THEN {Child(near)} ELSE {beyond, Child(wrap)}
  BY DEF TilingNeighbours
<1>5. ASSUME ~IsFloating(t, w)
      PROVE  (near # None => Child(near) \in Maybe(Window)) /\ Child(wrap) \in Maybe(Window)
  <2>1. c \in Column
    BY <1>5 DEF IsFloating, Inv, TreeType, Maybe
  <2>2. t.children[c] \in Seq(Window) /\ IsInjective(t.children[c]) /\ t.columns[s] \in Seq(Column)
        /\ t.activeChild \in [Column -> Maybe(Window)]
    BY <1>1, <2>1 DEF Inv, TreeType, PlaceInv
  <2>3. w \in ToSet(t.children[c]) /\ t.children[c] # << >> /\ c \in ToSet(t.columns[s])
    BY <2>1, ChildHome
  <2>4. CASE d \in {"up", "down"}
    <3>1. ToSet(t.children[c]) \subseteq Window
      BY <2>2, EmptyList
    <3>2. /\ PrevIn(t.children[c], w) # None => PrevIn(t.children[c], w) \in ToSet(t.children[c])
          /\ NextIn(t.children[c], w) # None => NextIn(t.children[c], w) \in ToSet(t.children[c])
      BY <2>2, <2>3, Neighbours
    <3>3. Last(t.children[c]) \in ToSet(t.children[c]) /\ Head(t.children[c]) \in ToSet(t.children[c])
      BY <2>2, <2>3, EmptyList
    <3>4. near \in {PrevIn(t.children[c], w), NextIn(t.children[c], w)}
          /\ wrap \in {Last(t.children[c]), Head(t.children[c])}
      BY <2>4
    <3>5. \A y : Child(y) = y
      BY <2>4
    <3> HIDE DEF near, wrap, Child
    <3> QED
      BY <3>1, <3>2, <3>3, <3>4, <3>5 DEF Maybe
  <2>5. CASE d \in {"left", "right"}
    <3>1. ToSet(t.columns[s]) \subseteq Column
      BY <2>2, EmptyList
    <3>2. /\ ColumnBefore(t, c) # None => ColumnBefore(t, c) \in ToSet(t.columns[s])
          /\ ColumnAfter(t, c) # None => ColumnAfter(t, c) \in ToSet(t.columns[s])
      BY <1>1, <2>3, BesideColumns
    <3>3. /\ ColumnLast(t, s, t.colOutput[c]) \in ToSet(t.columns[s])
          /\ ColumnFirst(t, s, t.colOutput[c]) \in ToSet(t.columns[s])
      BY <1>1, <2>3, EndsThere
    <3>4. /\ near \in {ColumnBefore(t, c), ColumnAfter(t, c)}
          /\ wrap \in {ColumnLast(t, s, t.colOutput[c]), ColumnFirst(t, s, t.colOutput[c])}
      BY <2>5
    <3>5. \A y \in Column : Child(y) \in Maybe(Window)
      BY <2>2, <2>5
    <3> HIDE DEF near, wrap, Child
    <3> QED
      BY <3>1, <3>2, <3>3, <3>4, <3>5
  <2> QED
    BY <2>4, <2>5 DEF Direction
<1> HIDE DEF near, wrap, Child, beyond
<1> QED
  BY <1>2, <1>3, <1>4, <1>5

-----------------------------------------------------------------------------
(* The callbacks and commands. *)

LEMMA InitGood == Init => Good(tree)
<1> SUFFICES ASSUME Init PROVE Good(tree)
  OBVIOUS
<1>1. /\ DOMAIN tree = Fields
      /\ tree.workspaces = {FirstWorkspace} /\ tree.activeWorkspace = FirstWorkspace
      /\ tree.outputs = << >> /\ tree.activeOutput = None
      /\ tree.columns = [s \in Workspace |-> << >>] /\ tree.floating = [s \in Workspace |-> << >>]
      /\ tree.activeColumn = [s \in Workspace |-> None]
      /\ tree.focusMode = [s \in Workspace |-> "tiling"]
      /\ tree.children = [c \in Column |-> << >>] /\ tree.activeChild = [c \in Column |-> None]
      /\ tree.colWorkspace = [c \in Column |-> None] /\ tree.colOutput = [c \in Column |-> None]
      /\ tree.status = [w \in Window |-> "absent"]
      /\ tree.workspace = [w \in Window |-> None] /\ tree.column = [w \in Window |-> None]
      /\ tree.output = [w \in Window |-> None] /\ tree.history = [w \in Window |-> << >>]
      /\ tree.fullscreen = {} /\ tree.fullscreenWindows = [o \in Output |-> << >>]
      /\ tree.overlay = None /\ tree.focused = None
      /\ tree.dirty = {Root, FirstWorkspace} /\ tree.crashed = FALSE
  BY DEF Init, Fields
<1>2. ToSet(<< >>) = {} /\ IsInjective(<< >>) /\ \A S : << >> \in Seq(S)
  BY DEF ToSet, IsInjective
<1>3. FirstWorkspace \in Workspace /\ None \notin Workspace /\ None \notin Column /\ None \notin Window
  BY NodesAssumption
<1>4. TreeType(tree)
  BY <1>1, <1>2, <1>3 DEF TreeType, Maybe
<1>5. OtherType(tree)
  <2>1. NoteType(tree)
    BY <1>1, <1>3 DEF NoteType, Maybe, Node
  <2> QED
    BY <1>1, <1>2, <2>1 DEF OtherType, Maybe
<1>6. PlaceInv(tree)
  BY <1>1, <1>2, <1>3 DEF PlaceInv
<1>7. PathInv(tree)
  BY <1>1, <1>2 DEF PathInv, Maybe
<1>8. OutputInv(tree)
  BY <1>1, <1>2 DEF OutputInv
<1>9. Homed(tree)
  BY <1>1 DEF Homed
<1> QED
  BY <1>4, <1>5, <1>6, <1>7, <1>8, <1>9 DEF Good, Inv

\* The outputs with one more
LEMMA OutputsGrow ==
  ASSUME NEW t, Good(t), NEW o \in Output, NEW r,
         Same(t, r, {"outputs", "activeOutput"}), r.outputs = Append(t.outputs, o),
         r.activeOutput = IF t.activeOutput = None THEN o ELSE t.activeOutput
  PROVE  Good(r)
<1>1. /\ TreeType(t) /\ OtherType(t) /\ PlaceInv(t) /\ PathInv(t) /\ OutputInv(t) /\ NoteType(t)
      /\ t.outputs \in Seq(Output) /\ t.activeOutput \in Maybe(Outputs(t))
      /\ t.output \in [Window -> Maybe(Outputs(t))] /\ t.history \in [Window -> Seq(Outputs(t))]
  BY DEF Good, Inv, OtherType
<1>2. /\ DOMAIN r = Fields /\ r.workspaces = t.workspaces /\ r.activeWorkspace = t.activeWorkspace
      /\ r.columns = t.columns /\ r.floating = t.floating /\ r.activeColumn = t.activeColumn
      /\ r.focusMode = t.focusMode /\ r.children = t.children /\ r.activeChild = t.activeChild
      /\ r.colWorkspace = t.colWorkspace /\ r.colOutput = t.colOutput
      /\ r.workspace = t.workspace /\ r.column = t.column
      /\ r.status = t.status /\ r.output = t.output /\ r.history = t.history
      /\ r.fullscreen = t.fullscreen /\ r.fullscreenWindows = t.fullscreenWindows
      /\ r.overlay = t.overlay /\ r.focused = t.focused /\ r.crashed = t.crashed
      /\ r.dirty = t.dirty
  BY DEF Same, Fields
<1>3. r.outputs \in Seq(Output) /\ Outputs(r) = Outputs(t) \cup {o}
  BY <1>1, AppendSet DEF Outputs
<1>4. r.activeOutput \in Outputs(r)
  BY <1>1, <1>3 DEF Maybe
<1>5. r.output \in [Window -> Maybe(Outputs(r))] /\ r.history \in [Window -> Seq(Outputs(r))]
  <2>1. r.output \in [Window -> Maybe(Outputs(r))]
    BY <1>1, <1>2, <1>3 DEF Maybe
  <2>2. ASSUME NEW w \in Window PROVE r.history[w] \in Seq(Outputs(r))
    <3>1. t.history[w] \in Seq(Outputs(t)) /\ Outputs(t) \subseteq Outputs(r)
      BY <1>1, <1>3
    <3> HIDE DEF Outputs
    <3>2. t.history[w] \in Seq(Outputs(r))
      BY <3>1
    <3> QED
      BY <1>2, <3>2
  <2> QED
    BY <1>1, <1>2, <2>1, <2>2
<1>6. TreeType(r)
  BY <1>1, <1>2 DEF TreeType
<1>7. OtherType(r)
  <2>1. NoteType(r)
    BY <1>1, <1>2 DEF NoteType
  <2>2. r.status \in [Window -> {"absent", "alive", "dead"}] /\ r.fullscreen \subseteq Window
        /\ r.fullscreenWindows \in [Output -> Seq(Window)]
    BY <1>1, <1>2 DEF OtherType
  <2> QED
    BY <1>3, <1>4, <1>5, <2>1, <2>2 DEF OtherType, Maybe
<1>8. PlaceInv(r)
  BY <1>1, <1>2 DEF PlaceInv
<1>9. PathInv(r)
  BY <1>1, <1>2 DEF PathInv
<1>10. OutputInv(r)
  BY <1>1, <1>2, <1>3, <1>4 DEF OutputInv
<1>11. Homed(r)
  BY <1>2 DEF Good, Homed
<1> QED
  BY <1>6, <1>7, <1>8, <1>9, <1>10, <1>11 DEF Good, Inv

LEMMA NewOutputGood ==
  ASSUME Good(tree), NEW o \in Output, NewOutput(o)
  PROVE  Good(tree')
<1> DEFINE a == [tree EXCEPT !.outputs = Append(@, o), !.activeOutput = IF @ = None THEN o ELSE @]
<1>1. DOMAIN tree = Fields
  BY DEF Good, Inv, TreeType
<1>2. /\ Same(tree, a, {"outputs", "activeOutput"}) /\ a.outputs = Append(tree.outputs, o)
      /\ a.activeOutput = IF tree.activeOutput = None THEN o ELSE tree.activeOutput
  BY <1>1 DEF Same, Fields
<1>3. Become(Mark(a, {Root}))
  BY DEF NewOutput
<1> HIDE DEF a
<1>4. Good(a)
  BY <1>2, OutputsGrow
<1>5. Good(Mark(a, {Root}))
  BY <1>4, GoodMark DEF Node
<1> QED
  BY <1>3, <1>5, GoodBecome

\* A window of the tree; what a command runs on.
LEMMA AliveHome ==
  ASSUME Good(tree), NEW w \in Window, w \in Alive(tree) \/ w = FocusedWindow(tree)
  PROVE  tree.workspace[w] # None
<1>1. CASE w \in Alive(tree)
  BY <1>1 DEF Good, Homed, Alive
<1>2. CASE w = FocusedWindow(tree)
  <2>1. w # None /\ tree.activeWorkspace \in Workspace /\ None \notin Workspace
    BY NodesAssumption DEF Good, Inv, TreeType
  <2>2. tree.workspace[w] = tree.activeWorkspace
    BY <1>2, <2>1, FocusType DEF Good
  <2> QED
    BY <2>1, <2>2
<1> QED
  BY <1>1, <1>2

LEMMA CommandHome ==
  ASSUME Good(tree), NEW w \in Window, CommandWindow(w)
  PROVE  tree.workspace[w] # None
BY AliveHome DEF CommandWindow

LEMMA FocusSteps ==
  ASSUME Good(tree), NEW w \in Window, FocusWindow(w) \/ TouchDown(w)
  PROVE  Good(tree')
<1> DEFINE r == SetFocusedWindow(tree, w)
<1>1. Become(CommitFocus(r)) \/ Become(r)
  BY DEF FocusWindow, TouchDown
<1>2. Good(r)
  BY GoodFocusedWindow
<1> HIDE DEF r
<1>3. Good(CommitFocus(r))
  BY <1>2, GoodCommit
<1> QED
  BY <1>1, <1>2, <1>3, GoodBecome

\* No window of the active workspace is active any more.
LEMMA NoWindowGood ==
  ASSUME Good(tree)
  PROVE  Good(SetActiveWindow(tree, tree.activeWorkspace, None))
<1>1. tree.activeWorkspace \in Workspace /\ None \in Maybe(Window)
  BY DEF Good, Inv, TreeType, Maybe
<1> QED
  BY <1>1, GoodActiveWindow

LEMMA OverlayGood ==
  ASSUME NEW t, Good(t), NEW x \in Maybe({"layer", "unmanaged"})
  PROVE  Good([t EXCEPT !.overlay = x])
<1> DEFINE r == [t EXCEPT !.overlay = x]
<1>1. Inv(r) /\ Same(t, r, {"overlay"})
  BY OverlayKeeps DEF Good
<1> HIDE DEF r
<1>2. Good(r)
  BY <1>1, GoodSame
<1> QED
  BY <1>2 DEF r

\* The active output is another one.
LEMMA ActiveOutputGood ==
  ASSUME NEW t, Good(t), NEW o \in Outputs(t)
  PROVE  Good([t EXCEPT !.activeOutput = o])
<1> DEFINE r == [t EXCEPT !.activeOutput = o]
<1>1. DOMAIN t = Fields /\ t.activeWorkspace \in t.workspaces /\ Inv(t)
  BY DEF Good, Inv, TreeType
<1>2. Same(t, r, {"activeWorkspace", "activeOutput"}) /\ r.activeOutput = o
      /\ r.activeWorkspace = t.activeWorkspace
  BY <1>1 DEF Same, Fields
<1> HIDE DEF r
<1>3. Inv(r)
  BY <1>1, <1>2, RootKeeps
<1>4. Good(r)
  BY <1>2, <1>3, GoodSame
<1> QED
  BY <1>4 DEF r

LEMMA OtherFocusSteps ==
  ASSUME Good(tree),
         \/ ClickWorkspace \/ FocusLayer \/ LayerUnmapped \/ FocusUnmanaged
         \/ \E o \in Output : HoverOutput(o)
  PROVE  Good(tree')
<1> DEFINE none == SetActiveWindow(tree, tree.activeWorkspace, None)
<1>0. \A t : Good(t) /\ Become(CommitFocus(t)) => Good(tree')
  BY GoodCommit, GoodBecome
<1>1. Good(none)
  BY NoWindowGood
<1> HIDE DEF none
<1>2. CASE ClickWorkspace
  BY <1>0, <1>1, <1>2 DEF ClickWorkspace, none
<1>3. CASE FocusLayer
  <2>1. Good([tree EXCEPT !.overlay = "layer"])
    BY OverlayGood DEF Maybe
  <2> QED
    BY <1>0, <1>3, <2>1 DEF FocusLayer, SetFocusedLayer
<1>4. CASE LayerUnmapped
  <2>1. Good([tree EXCEPT !.overlay = None])
    BY OverlayGood DEF Maybe
  <2> QED
    BY <1>0, <1>4, <2>1 DEF LayerUnmapped
<1>5. CASE FocusUnmanaged
  <2>1. Good([none EXCEPT !.overlay = "unmanaged"])
    BY <1>1, OverlayGood DEF Maybe
  <2> QED
    BY <1>0, <1>5, <2>1 DEF FocusUnmanaged, SetFocusedSurface, none
<1>6. ASSUME NEW o \in Output, HoverOutput(o) PROVE Good(tree')
  <2>1. o \in Outputs(tree) /\ Become(CommitFocus([tree EXCEPT !.activeOutput = o]))
    BY <1>6 DEF HoverOutput
  <2>2. Good([tree EXCEPT !.activeOutput = o])
    BY <2>1, ActiveOutputGood
  <2> QED
    BY <1>0, <2>1, <2>2
<1> QED
  BY <1>2, <1>3, <1>4, <1>5, <1>6

LEMMA RequestFullscreenGood ==
  ASSUME Good(tree), NEW w \in Window, NEW full \in BOOLEAN, NEW o \in Output, RequestFullscreen(w, full, o)
  PROVE  Good(tree')
<1> DEFINE r == IF full THEN FullscreenOn(tree, w, o) ELSE Unfullscreen(tree, w)
<1>1. w \in Alive(tree) /\ o \in Outputs(tree) /\ Become(Mark(r, {w}))
  BY DEF RequestFullscreen
<1>2. tree.workspace[w] # None
  BY <1>1, AliveHome
<1>3. Good(r)
  BY <1>1, <1>2, GoodFullscreen
<1> HIDE DEF r
<1>4. Good(Mark(r, {w}))
  BY <1>3, GoodMark DEF Node
<1> QED
  BY <1>1, <1>4, GoodBecome

LEMMA CmdFullscreenGood ==
  ASSUME Good(tree), NEW w \in Window, NEW enable \in BOOLEAN, CmdFullscreen(w, enable)
  PROVE  Good(tree')
<1> DEFINE r == IF enable THEN FullscreenOn(tree, w, tree.output[w]) ELSE Unfullscreen(tree, w)
<1>1. tree.workspace[w] # None /\ Become(r)
  BY CommandHome DEF CmdFullscreen
<1>2. tree.output[w] \in Outputs(tree)
  BY <1>1, WindowShown DEF Good
<1>3. Good(r)
  BY <1>1, <1>2, GoodFullscreen
<1> HIDE DEF r
<1> QED
  BY <1>1, <1>3, GoodBecome

LEMMA CmdMoveFullscreenGood ==
  ASSUME Good(tree), NEW w \in Window, NEW d \in Direction, CmdMoveFullscreen(w, d)
  PROVE  Good(tree')
<1> DEFINE o == OutputInDirection(tree, tree.output[w], d)
           r == FullscreenOn(tree, w, o)
<1>1. tree.workspace[w] # None /\ Become(r) /\ o # None
  BY CommandHome DEF CmdMoveFullscreen
<1>2. o \in Outputs(tree)
  BY <1>1, NextOutput DEF Good
<1> HIDE DEF o
<1>3. Good(r)
  BY <1>1, <1>2, GoodFullscreen
<1> HIDE DEF r
<1> QED
  BY <1>1, <1>3, GoodBecome

LEMMA CmdFloatingGood ==
  ASSUME Good(tree), HasUnused(tree), NEW w \in Window, NEW enable \in BOOLEAN, CmdFloating(w, enable)
  PROVE  Good(tree')
<1> DEFINE s == tree.workspace[w]
           moved == IF enable THEN Float(tree, w) ELSE Unfloat(tree, w)
           r == IF ActiveWindow(tree, s) = w THEN SetActiveWindow(moved, s, w) ELSE moved
<1>1. tree.workspace[w] # None /\ Become(Mark(r, {s}))
  BY CommandHome DEF CmdFloating
<1>2. s \in Workspace
  BY <1>1, WindowHome DEF Good
<1>3. Good(moved) /\ moved.workspace[w] = s
  BY <1>1, FloatGood, UnfloatGood
<1> HIDE DEF moved
<1>4. Good(SetActiveWindow(moved, s, w))
  <2> HIDE DEF s
  <2>1. w \in Maybe(Window)
    BY DEF Maybe
  <2> QED
    BY <1>2, <1>3, <2>1, GoodActiveWindow
<1>5. Good(r)
  BY <1>3, <1>4
<1> HIDE DEF r
<1>6. Good(Mark(r, {s}))
  BY <1>2, <1>5, GoodMark DEF Node
<1> QED
  BY <1>1, <1>6, GoodBecome

LEMMA CmdFocusModeGood ==
  ASSUME Good(tree), NEW floating \in BOOLEAN, CmdFocusMode(floating)
  PROVE  Good(tree')
<1> DEFINE s == tree.activeWorkspace
           w == IF floating THEN ActiveFloating(tree, s) ELSE ActiveTiling(tree, s)
           r == SetActiveWindow(tree, s, w)
<1>1. w # None /\ Become(CommitFocus(r))
  BY DEF CmdFocusMode
<1>2. s \in Workspace /\ Inv(tree)
  BY DEF Good, Inv, TreeType
<1>3. w \in Window /\ tree.workspace[w] = s
  <2>1. CASE floating
    <3>1. ActiveFloating(tree, s) # None
      BY <1>1, <2>1
    <3>2. ActiveFloating(tree, s) \in Window /\ tree.workspace[ActiveFloating(tree, s)] = s
      BY <1>2, <3>1, ActiveFloatingHome
    <3> QED
      BY <2>1, <3>2
  <2>2. CASE ~floating
    <3>1. ActiveTiling(tree, s) # None
      BY <1>1, <2>2
    <3>2. ActiveTiling(tree, s) \in Window /\ tree.workspace[ActiveTiling(tree, s)] = s
      BY <1>2, <3>1, ActiveTilingHome
    <3> QED
      BY <2>2, <3>2
  <2> QED
    BY <2>1, <2>2
<1> HIDE DEF w, s
<1>4. Good(r)
  BY <1>2, <1>3, GoodActiveWindow DEF Maybe
<1> HIDE DEF r
<1>5. Good(CommitFocus(r))
  BY <1>4, GoodCommit
<1> QED
  BY <1>1, <1>5, GoodBecome

LEMMA CmdFocusGood ==
  ASSUME Good(tree), NEW d \in Direction, CmdFocus(d)
  PROVE  Good(tree')
<1> DEFINE w == FocusedWindow(tree)
<1>1. w # None /\ Inv(tree)
  BY DEF CmdFocus, Good
<1>2. w \in Window
  BY <1>1, FocusType DEF Maybe
<1>3. tree.workspace[w] # None
  <2>1. w = FocusedWindow(tree)
    OBVIOUS
  <2> HIDE DEF w
  <2> QED
    BY <1>2, <2>1, AliveHome
<1>4. PICK next \in IF IsFloating(tree, w) /\ w \notin tree.fullscreen
                      THEN FloatingNeighbours(tree, w) ELSE TilingNeighbours(tree, w, d) :
        next # None /\ Become(CommitFocus(SetFocusedWindow(tree, next)))
  BY DEF CmdFocus
<1> HIDE DEF w
<1>5. next \in Maybe(Window)
  <2>1. /\ IsFloating(tree, w) => FloatingNeighbours(tree, w) \subseteq Maybe(Window)
        /\ ~(IsFloating(tree, w) /\ w \notin tree.fullscreen)
             => TilingNeighbours(tree, w, d) \subseteq Maybe(Window)
    BY <1>1, <1>2, <1>3, NeighbourType
  <2> QED
    BY <1>4, <2>1
<1>6. next \in Window
  BY <1>4, <1>5 DEF Maybe
<1>7. Good(SetFocusedWindow(tree, next))
  BY <1>6, GoodFocusedWindow
<1>8. Good(CommitFocus(SetFocusedWindow(tree, next)))
  BY <1>7, GoodCommit
<1> QED
  BY <1>4, <1>8, GoodBecome

LEMMA CmdFocusOutputGood ==
  ASSUME Good(tree), NEW d \in Direction, CmdFocusOutput(d)
  PROVE  Good(tree')
<1> DEFINE o == OutputInDirection(tree, tree.activeOutput, d)
           w == WindowOnOutput(tree, o, d)
           none == SetActiveWindow(tree, tree.activeWorkspace, None)
           r == IF w # None THEN SetFocusedWindow(tree, w) ELSE [none EXCEPT !.activeOutput = o]
<1>1. o # None /\ Become(CommitFocus(r))
  BY DEF CmdFocusOutput
<1>2. o \in Outputs(tree) /\ o \in Output
  BY <1>1, NextOutput DEF Good
<1> HIDE DEF o
<1>3. w \in Maybe(Window)
  BY <1>2, WindowOnOutputType DEF Good
<1>4. Good(none) /\ Outputs(none) = Outputs(tree)
  <2>1. Good(none)
    BY NoWindowGood
  <2>2. tree.activeWorkspace \in Workspace /\ None \in Maybe(Window) /\ Inv(tree)
    BY DEF Good, Inv, TreeType, Maybe
  <2>3. Same(tree, none, FocusFields)
    BY <2>2, SetActiveWindowKeeps
  <2> HIDE DEF none
  <2> QED
    BY <2>1, <2>3 DEF Same, Fields, FocusFields, ActiveFields, Outputs
<1> HIDE DEF none, w
<1>5. Good(r)
  <2>1. CASE w # None
    BY <1>3, <2>1, GoodFocusedWindow DEF Maybe
  <2>2. CASE w = None
    BY <1>2, <1>4, <2>2, ActiveOutputGood
  <2> QED
    BY <2>1, <2>2
<1> HIDE DEF r
<1>6. Good(CommitFocus(r))
  BY <1>5, GoodCommit
<1> QED
  BY <1>1, <1>6, GoodBecome

LEMMA CmdWorkspaceGood ==
  ASSUME Good(tree), NEW s \in Workspace, CmdWorkspace(s)
  PROVE  Good(tree')
<1> DEFINE a == CreateWorkspace(tree, s)
           b == SetActiveWorkspace(a, s)
<1>1. Become(CommitFocus(Mark(b, {Root})))
  BY DEF CmdWorkspace
<1>2. Good(a)
  BY GoodWorkspaces
<1>3. s \in a.workspaces
  <2>1. a.workspaces = tree.workspaces \cup {s}
    BY CreateWorkspaceKeeps DEF Good
  <2> QED
    BY <2>1
<1> HIDE DEF a
<1>4. Good(b)
  BY <1>2, <1>3, GoodWorkspaces
<1> HIDE DEF b
<1>5. Good(Mark(b, {Root}))
  BY <1>4, GoodMark DEF Node
<1>6. Good(CommitFocus(Mark(b, {Root})))
  BY <1>5, GoodCommit
<1> QED
  BY <1>1, <1>6, GoodBecome

LEMMA ArrangeGood ==
  ASSUME Good(tree), Arrange
  PROVE  Good(tree')
<1> DEFINE r == [Arranged(tree) EXCEPT !.dirty = {}]
<1>1. Inv(r) /\ Same(tree, r, Copies)
  BY ArrangedKeeps DEF Good
<1>2. "status" \notin Copies /\ "workspace" \notin Copies
  BY DEF Copies
<1>3. Become(r)
  BY DEF Arrange
<1> HIDE DEF r
<1>4. Good(r)
  BY <1>1, <1>2, GoodSame
<1> QED
  BY <1>3, <1>4, GoodBecome

LEMMA FloatingHistoryKeeps ==
  ASSUME NEW t, Inv(t), NEW w \in Window, t.workspace[w] # None, t.column[w] = None, NEW o \in Outputs(t)
  PROVE  LET r == [t EXCEPT !.history[w] = <<o>>] IN Inv(r) /\ Same(t, r, {"history"})
<1> DEFINE r == [t EXCEPT !.history[w] = <<o>>]
<1>2. Inv(t) /\ DOMAIN t = Fields /\ t.history \in [Window -> Seq(Outputs(t))]
      /\ NoteType(t) /\ t.status \in [Window -> {"absent", "alive", "dead"}]
      /\ t.fullscreen \subseteq Window /\ t.fullscreenWindows \in [Output -> Seq(Window)]
      /\ t.output \in [Window -> Maybe(Outputs(t))]
  BY DEF Inv, TreeType, OtherType
<1>3. Same(t, r, {"history"}) /\ r.history = Put(t.history, w, <<o>>)
  BY <1>2 DEF Same, Fields, Put
<1> HIDE DEF r
<1>4. /\ Same(t, r, OtherFields) /\ r.outputs = t.outputs /\ r.activeOutput = t.activeOutput
      /\ r.status = t.status /\ r.output = t.output /\ r.column = t.column
      /\ r.workspace = t.workspace /\ r.colOutput = t.colOutput
      /\ r.fullscreen = t.fullscreen /\ r.fullscreenWindows = t.fullscreenWindows
      /\ r.overlay = t.overlay /\ r.focused = t.focused /\ r.dirty = t.dirty
      /\ r.crashed = t.crashed /\ Outputs(r) = Outputs(t)
  BY <1>3 DEF Same, Fields, OtherFields, Notes, Outputs
<1>5. NoteType(r)
  BY <1>2, <1>4 DEF NoteType
<1>6. r.history[w] = <<o>> /\ \A x \in Window \ {w} : r.history[x] = t.history[x]
  BY <1>2, <1>3 DEF Put
<1>7. r.history = [x \in Window |-> r.history[x]] /\ r.output = [x \in Window |-> r.output[x]]
  BY <1>2, <1>3, <1>4 DEF Put
<1>8. ASSUME NEW x \in Window PROVE Shown(r, x)
  <2>1. Shown(t, x)
    BY <1>2, ShownWell
  <2>2. CASE x # w
    <3>1. r.history[x] = t.history[x]
      BY <1>6, <2>2
    <3> QED
      BY <1>4, <2>1, <3>1, ShownSame
  <2>3. CASE x = w
    <3>1. <<o>> \in Seq(Outputs(t)) /\ <<o>> # << >> /\ IsInjective(<<o>>)
      BY SingleList
    <3>2. t.status[w] = "alive" /\ t.output[w] \in Outputs(t)
      BY <1>2, WindowShown
    <3> QED
      BY <1>4, <1>6, <2>3, <3>1, <3>2 DEF Shown, Maybe
  <2> QED
    BY <2>2, <2>3
<1>9. Inv(r)
  BY <1>2, <1>4, <1>5, <1>7, <1>8, BesideKeeps
<1> QED
  BY <1>3, <1>9 DEF r

LEMMA CmdMoveFloatingGood ==
  ASSUME Good(tree), NEW w \in Window, NEW o \in Output, CmdMoveFloating(w, o)
  PROVE  Good(tree')
<1> DEFINE r == [tree EXCEPT !.history[w] = <<o>>]
<1>1. tree.workspace[w] # None /\ tree.column[w] = None /\ o \in Outputs(tree) /\ Become(Mark(r, {w}))
  BY CommandHome DEF CmdMoveFloating, IsFloating
<1>2. Inv(r) /\ Same(tree, r, {"history"})
  BY <1>1, FloatingHistoryKeeps DEF Good
<1> HIDE DEF r
<1>3. Good(r)
  BY <1>2, GoodSame
<1>4. Good(Mark(r, {w}))
  BY <1>3, GoodMark DEF Node
<1> QED
  BY <1>1, <1>4, GoodBecome

LEMMA CmdMoveTilingGood ==
  ASSUME Good(tree), HasUnused(tree), NEW w \in Window, NEW d \in Direction, CmdMoveTiling(w, d)
  PROVE  Good(tree')
<1> DEFINE b == tree.column[w]
           s == tree.workspace[w]
           moved == IF d \in {"up", "down"} THEN MoveInColumn(tree, w, d) ELSE MoveAcross(tree, w, d)
           nodes == {s, moved.workspace[w]}
           cleaned == Mark(ColumnConsiderDestroy(moved, b), nodes)
           r == IF moved.crashed THEN moved ELSE SetFocusedWindow(cleaned, w)
<1>1. b # None /\ w \notin tree.fullscreen /\ Become(r)
  BY DEF CmdMoveTiling, IsTiling
<1>2. Inv(tree) /\ b \in Column
  BY <1>1 DEF Good, Inv, TreeType, Maybe
<1>3. s # None /\ s \in Workspace /\ b \in ToSet(tree.columns[s])
  BY <1>2, ChildHome
<1>4. Moves(tree, moved)
  BY <1>1, <1>2, MoveInColumnKeeps, MoveAcrossKeeps
<1> HIDE DEF moved, b
<1>5. Good(moved)
  BY <1>4, GoodMoves
<1>6. b \in ToSet(moved.columns[s])
  BY <1>3, <1>4 DEF Moves, Stays
<1>7. nodes \subseteq Node
  <2>1. moved.workspace[w] \in Workspace
    BY <1>3, <1>4, WindowHome DEF Moves, Stays
  <2> QED
    BY <1>3, <2>1 DEF Node
<1>8. Good(ColumnConsiderDestroy(moved, b))
  <2>1. ColumnConsiderDestroy(moved, b) = Cleaned(moved, b)
    BY <1>1 DEF Cleaned
  <2>2. Good(Cleaned(moved, b))
    BY <1>3, <1>5, <1>6, GoodCleaned
  <2> QED
    BY <2>1, <2>2
<1> HIDE DEF nodes
<1>9. Good(cleaned)
  BY <1>7, <1>8, GoodMark
<1> HIDE DEF cleaned
<1>10. Good(SetFocusedWindow(cleaned, w))
  BY <1>9, GoodFocusedWindow
<1>11. Good(r)
  BY <1>5, <1>10
<1> HIDE DEF r
<1> QED
  BY <1>1, <1>11, GoodBecome

LEMMA CmdMoveToWorkspaceGood ==
  ASSUME Good(tree), HasUnused(tree), NEW w \in Window, NEW s \in Workspace, CmdMoveToWorkspace(w, s)
  PROVE  Good(tree')
<1> DEFINE c == tree.column[w]
           old == tree.workspace[w]
           a == CreateWorkspace(tree, s)
           b == MoveToWorkspace(a, w, s)
           moved == SetActiveWindow(b, s, w)
           left == Cleaned(moved, c)
           cleaned == WorkspaceConsiderDestroy(left, old)
           nodes == {s} \cup ({old} \cap cleaned.workspaces)
<1>1. old # None /\ Become(CommitFocus(Mark(cleaned, nodes)))
  BY CommandHome DEF CmdMoveToWorkspace, Cleaned
<1>2. Inv(tree) /\ DOMAIN tree = Fields
  BY DEF Good, Inv, TreeType
<1>3. c # None => old \in Workspace /\ c \in ToSet(tree.columns[old])
  BY <1>2 DEF Inv, PlaceInv
<1>4. Good(a) /\ Same(tree, a, {"workspaces", "dirty"}) /\ a.workspaces = tree.workspaces \cup {s}
  BY <1>2, GoodWorkspaces, CreateWorkspaceKeeps
<1> HIDE DEF a
<1>5. a.columns = tree.columns /\ a.workspace = tree.workspace /\ a.column = tree.column
      /\ a.activeColumn = tree.activeColumn /\ a.pColumns = tree.pColumns
  BY <1>4 DEF Same, Fields
<1>6. HasUnused(a)
  BY <1>5, UnusedStays
<1>7. Moves(a, b) /\ b.workspace[w] = s
  BY <1>1, <1>4, <1>5, <1>6, MoveToWorkspaceKeeps DEF Good
<1> HIDE DEF b
<1>8. Good(b)
  BY <1>4, <1>7, GoodMoves
<1>9. Good(moved) /\ moved.columns = b.columns
  <2>1. w \in Maybe(Window)
    BY DEF Maybe
  <2>2. Good(moved)
    BY <1>7, <1>8, <2>1, GoodActiveWindow
  <2>3. Same(b, moved, FocusFields)
    BY <1>7, <1>8, <2>1, SetActiveWindowKeeps DEF Good
  <2> HIDE DEF moved
  <2> QED
    BY <2>2, <2>3 DEF Same, Fields, FocusFields, ActiveFields
<1> HIDE DEF moved, c, old
<1>10. c # None => old \in Workspace /\ c \in ToSet(moved.columns[old])
  BY <1>3, <1>5, <1>7, <1>9 DEF Moves, Stays
<1>11. Good(left)
  BY <1>9, <1>10, GoodCleaned
<1> HIDE DEF left
<1>12. Good(cleaned)
  BY <1>11, GoodWorkspaces
<1> HIDE DEF cleaned
<1>13. nodes \subseteq Node
  BY <1>12 DEF Good, Inv, TreeType, Node
<1> HIDE DEF nodes
<1>14. Good(Mark(cleaned, nodes))
  BY <1>12, <1>13, GoodMark
<1>15. Good(CommitFocus(Mark(cleaned, nodes)))
  BY <1>14, GoodCommit
<1> QED
  BY <1>1, <1>15, GoodBecome

LEMMA UnmapGood ==
  ASSUME Good(tree), NEW w \in Window, Unmap(w)
  PROVE  Good(tree')
<1> DEFINE c == tree.column[w]
           s == tree.workspace[w]
           left == BeginDestroy(tree, w)
           narrow == Cleaned(left, c)
           cleaned == WorkspaceConsiderDestroy(narrow, s)
           nodes == {s} \cap cleaned.workspaces
<1>1. Become(CommitFocus(Mark(cleaned, nodes)))
  BY DEF Unmap, Cleaned
<1>2. Inv(tree) /\ tree.status \in [Window -> {"absent", "alive", "dead"}]
      /\ tree.workspace \in [Window -> Maybe(Workspace)]
  BY DEF Good, Inv, TreeType, OtherType
<1>3. c # None => s \in Workspace /\ c \in ToSet(tree.columns[s])
  BY <1>2 DEF Inv, PlaceInv
<1>4. /\ Inv(left) /\ Same(tree, left, DestroyFields) /\ Moved(tree, left, w, None, None)
      /\ left.status = Put(tree.status, w, "dead")
  BY <1>2, BeginDestroyKeeps
<1> HIDE DEF left, c, s
<1>5. left.columns = tree.columns
  BY <1>4 DEF Same, Fields, DestroyFields, DetachFields, ColumnFields, FloatFields
<1>6. Homed(left)
  <2>1. left.status = [tree.status EXCEPT ![w] = "dead"] /\ left.workspace = [tree.workspace EXCEPT ![w] = None]
    BY <1>4 DEF Put, Moved
  <2> SUFFICES ASSUME NEW x \in Window, left.status[x] = "alive" PROVE left.workspace[x] # None
    BY DEF Homed
  <2>2. x # w
    BY <1>2, <2>1
  <2>3. tree.status[x] = "alive" /\ left.workspace[x] = tree.workspace[x]
    BY <1>2, <2>1, <2>2
  <2> QED
    BY <2>3 DEF Good, Homed
<1>7. Good(left)
  BY <1>4, <1>6 DEF Good
<1>8. Good(narrow)
  BY <1>3, <1>5, <1>7, GoodCleaned
<1> HIDE DEF narrow
<1>9. Good(cleaned)
  BY <1>8, GoodWorkspaces
<1> HIDE DEF cleaned
<1>10. nodes \subseteq Node
  BY <1>9 DEF Good, Inv, TreeType, Node
<1> HIDE DEF nodes
<1>11. Good(Mark(cleaned, nodes))
  BY <1>9, <1>10, GoodMark
<1>12. Good(CommitFocus(Mark(cleaned, nodes)))
  BY <1>11, GoodCommit
<1> QED
  BY <1>1, <1>12, GoodBecome

\* A window is created.
LEMMA CreatedKeeps ==
  ASSUME NEW t, Inv(t), NEW w \in Window, t.status[w] = "absent"
  PROVE  LET r == Mark([t EXCEPT !.status[w] = "alive"], {w})
         IN  /\ Inv(r) /\ Same(t, r, {"status", "dirty"}) /\ r.status = Put(t.status, w, "alive")
             /\ r.workspace[w] = None /\ r.history[w] = << >>
<1> DEFINE a == [t EXCEPT !.status[w] = "alive"]
           r == Mark(a, {w})
<1>1. DOMAIN t = Fields /\ NoteType(t) /\ t.status \in [Window -> {"absent", "alive", "dead"}]
      /\ t.fullscreen \subseteq Window /\ t.fullscreenWindows \in [Output -> Seq(Window)]
      /\ t.output \in [Window -> Maybe(Outputs(t))] /\ t.history \in [Window -> Seq(Outputs(t))]
  BY DEF Inv, TreeType, OtherType
<1>2. Same(t, a, {"status"}) /\ a.status = Put(t.status, w, "alive")
  BY <1>1 DEF Same, Fields, Put
<1> HIDE DEF a
<1>3. t.history[w] = << >> /\ t.workspace[w] = None
  BY DEF Inv, OutputInv
<1>4. /\ Same(t, a, OtherFields) /\ a.outputs = t.outputs /\ a.activeOutput = t.activeOutput
      /\ a.output = t.output /\ a.column = t.column /\ a.history = t.history
      /\ a.workspace = t.workspace /\ a.colOutput = t.colOutput
      /\ a.fullscreen = t.fullscreen /\ a.fullscreenWindows = t.fullscreenWindows
      /\ a.overlay = t.overlay /\ a.focused = t.focused /\ a.dirty = t.dirty
      /\ a.crashed = t.crashed /\ Outputs(a) = Outputs(t)
  BY <1>2 DEF Same, Fields, OtherFields, Notes, Outputs
<1>5. NoteType(a)
  BY <1>1, <1>4 DEF NoteType
<1>6. /\ a.status \in [Window -> {"absent", "alive", "dead"}]
      /\ a.status[w] = "alive" /\ \A x \in Window \ {w} : a.status[x] = t.status[x]
  BY <1>1, <1>2 DEF Put
<1>7. ASSUME NEW x \in Window PROVE Shown(a, x)
  <2>1. Shown(t, x)
    BY ShownWell
  <2>2. a.status[x] = "alive" \/ a.status[x] = t.status[x]
    BY <1>6
  <2> QED
    BY <1>4, <2>1, <2>2 DEF Shown
<1>8. a.history = [x \in Window |-> a.history[x]] /\ a.output = [x \in Window |-> a.output[x]]
  BY <1>1, <1>4
<1>9. Inv(a)
  BY <1>1, <1>4, <1>5, <1>6, <1>7, <1>8, BesideKeeps
<1>10. Inv(r) /\ Same(a, r, {"dirty"})
  BY <1>9, MarkKeeps DEF Node
<1> HIDE DEF r
<1>11. Same(t, r, {"status", "dirty"}) /\ r.status = a.status /\ r.workspace = t.workspace /\ r.history = t.history
  BY <1>2, <1>10 DEF Same, Fields
<1> QED
  BY <1>2, <1>3, <1>10, <1>11 DEF r, a

\* The window that is created is put into a workspace.
LEMMA PlacedGood ==
  ASSUME NEW t, Good(t), NEW w \in Window, t.status[w] = "absent",
         NEW a, a.status = Put(t.status, w, "alive"), a.workspace = t.workspace,
         NEW r, Inv(r), r.status = a.status, NEW s \in Workspace, NEW c, Moved(a, r, w, s, c)
  PROVE  Good(r) /\ r.workspace[w] = s
<1>1. t.status \in [Window -> {"absent", "alive", "dead"}] /\ t.workspace \in [Window -> Maybe(Workspace)]
  BY DEF Good, Inv, TreeType, OtherType
<1>2. r.status = [t.status EXCEPT ![w] = "alive"] /\ r.workspace = [t.workspace EXCEPT ![w] = s]
  BY DEF Put, Moved
<1>3. r.workspace[w] = s /\ \A x \in Window \ {w} : r.workspace[x] = t.workspace[x] /\ r.status[x] = t.status[x]
  BY <1>1, <1>2
<1>4. s # None
  BY NodesAssumption
<1>5. Homed(r)
  BY <1>3, <1>4 DEF Good, Homed
<1> QED
  BY <1>3, <1>5 DEF Good

\* What the map handlers have made of the tree before the window is fullscreen or focused
Created(t, w) == Mark([t EXCEPT !.status[w] = "alive"], {w})
Placed(t, w, floats, o) ==
  LET s == t.activeWorkspace
      sibling == ActiveTiling(t, s)
      a == Created(t, w)
  IN  IF floats THEN AddFloating(a, s, w)
      ELSE IF sibling # None THEN AddSibling(a, sibling, w, TRUE)
      ELSE AddChild(InsertFirst(a, s, o), NewColumn(a), w)

LEMMA PlacedInTree ==
  ASSUME Good(tree), HasUnused(tree), NEW w \in Window, tree.status[w] = "absent",
         NEW floats \in BOOLEAN, NEW o \in Output, o \in Outputs(tree)
  PROVE  LET placed == Placed(tree, w, floats, o)
         IN  /\ Good(placed) /\ placed.workspace[w] = tree.activeWorkspace
             /\ Outputs(placed) = Outputs(tree)
<1> DEFINE s == tree.activeWorkspace
           x == ActiveTiling(tree, s)
           a == Created(tree, w)
           c == NewColumn(a)
           b == InsertFirst(a, s, o)
           afloat == AddFloating(a, s, w)
           beside == AddSibling(a, x, w, TRUE)
           alone == AddChild(b, c, w)
           placed == IF floats THEN afloat ELSE IF x # None THEN beside ELSE alone
<1>1. tree.status[w] = "absent" /\ o \in Outputs(tree) /\ Placed(tree, w, floats, o) = placed
  BY DEF Placed
<1>2. Inv(tree) /\ DOMAIN tree = Fields /\ s \in tree.workspaces /\ s \in Workspace
      /\ tree.outputs \in Seq(Output)
      /\ tree.status \in [Window -> {"absent", "alive", "dead"}]
  BY DEF Good, Inv, TreeType, OtherType
<1>3. /\ Inv(a) /\ Same(tree, a, {"status", "dirty"}) /\ a.status = Put(tree.status, w, "alive")
      /\ a.workspace[w] = None
  BY <1>1, <1>2, CreatedKeeps DEF Created
<1> HIDE DEF a
<1>4. /\ a.workspaces = tree.workspaces /\ a.workspace = tree.workspace /\ a.column = tree.column
      /\ a.outputs = tree.outputs /\ a.columns = tree.columns /\ a.activeColumn = tree.activeColumn
      /\ a.pColumns = tree.pColumns /\ Outputs(a) = Outputs(tree)
  BY <1>3 DEF Same, Fields, Outputs
<1>5. a.status[w] = "alive" /\ a.outputs # << >>
  <2>1. a.status[w] = "alive"
    BY <1>2, <1>3 DEF Put
  <2>2. tree.outputs # << >>
    BY <1>1, <1>2, EmptyList DEF Outputs
  <2> QED
    BY <1>4, <2>1, <2>2
<1>6. Good(afloat) /\ afloat.workspace[w] = s
  <2>1. Inv(afloat) /\ Same(a, afloat, FloatFields) /\ Moved(a, afloat, w, s, None)
    BY <1>2, <1>3, <1>4, <1>5, AddFloatingKeeps
  <2> HIDE DEF afloat
  <2>2. afloat.status = a.status
    BY <2>1 DEF Same, Fields, FloatFields
  <2> HIDE DEF s
  <2> QED
    BY <1>1, <1>2, <1>3, <1>4, <2>1, <2>2, PlacedGood
<1>7. x # None => Good(beside) /\ beside.workspace[w] = s
  <2> SUFFICES ASSUME x # None PROVE Good(beside) /\ beside.workspace[w] = s
    OBVIOUS
  <2> DEFINE y == tree.activeColumn[s]
  <2>1. x \in Window /\ y \in Column /\ tree.column[x] = y /\ tree.workspace[x] = s
    BY <1>2, ActiveTilingHome
  <2>2. a.column[x] = y /\ a.workspace[x] = s
    BY <1>4, <2>1
  <2> HIDE DEF x, y
  <2>3. Inv(beside) /\ Same(a, beside, ColumnFields) /\ Moved(a, beside, w, a.workspace[x], y)
    BY <1>3, <1>5, <2>1, <2>2, AddSiblingKeeps
  <2> HIDE DEF beside, s
  <2>4. beside.status = a.status
    BY <2>3 DEF Same, Fields, ColumnFields
  <2> QED
    BY <1>1, <1>2, <1>3, <1>4, <2>2, <2>3, <2>4, PlacedGood
<1>8. Good(alone) /\ alone.workspace[w] = s
  <2>1. HasUnused(a)
    BY <1>4, UnusedStays
  <2>2. Inv(b) /\ Widens(a, b, s, c) /\ c \in Column
    BY <1>1, <1>2, <1>3, <1>4, <2>1, InsertNewKeeps, NewColumnUnused
  <2> HIDE DEF b, c, s
  <2>3. b.workspace = a.workspace /\ b.status = a.status /\ b.column = a.column /\ c \in ToSet(b.columns[s])
    BY <2>2 DEF Widens, Same, Fields, NewFields
  <2>4. b.workspace[w] = None /\ b.status[w] = "alive"
    BY <1>3, <1>5, <2>3
  <2>5. Inv(alone) /\ Same(b, alone, ColumnFields) /\ Moved(b, alone, w, s, c)
    BY <1>2, <2>2, <2>3, <2>4, AddChildKeeps
  <2> HIDE DEF alone
  <2>6. alone.status = b.status
    BY <2>5 DEF Same, Fields, ColumnFields
  <2>7. b.status = Put(tree.status, w, "alive") /\ b.workspace = tree.workspace
    BY <1>3, <1>4, <2>3
  <2> QED
    BY <1>1, <1>2, <2>5, <2>6, <2>7, PlacedGood
<1>9. Good(placed) /\ placed.workspace[w] = s /\ Outputs(placed) = Outputs(tree)
  <2>1. Good(placed) /\ placed.workspace[w] = s
    BY <1>6, <1>7, <1>8
  <2>2. Outputs(placed) = Outputs(tree)
    <3>1. afloat.outputs = tree.outputs
      <4>1. Same(a, afloat, FloatFields)
        BY <1>2, <1>3, <1>4, <1>5, AddFloatingKeeps
      <4> HIDE DEF afloat
      <4> QED
        BY <1>4, <4>1 DEF Same, Fields, FloatFields
    <3>2. x # None => beside.outputs = tree.outputs
      <4>1. x # None => x \in Window /\ tree.activeColumn[s] \in Column /\ a.column[x] = tree.activeColumn[s]
        BY <1>2, <1>4, ActiveTilingHome
      <4> HIDE DEF x
      <4>2. x # None => Same(a, beside, ColumnFields)
        BY <1>3, <1>5, <4>1, AddSiblingKeeps
      <4> HIDE DEF beside
      <4> QED
        BY <1>4, <4>2 DEF Same, Fields, ColumnFields
    <3>3. alone.outputs = tree.outputs
      <4>1. HasUnused(a)
        BY <1>4, UnusedStays
      <4>2. Inv(b) /\ Widens(a, b, s, c) /\ c \in Column
        BY <1>1, <1>2, <1>3, <1>4, <4>1, InsertNewKeeps, NewColumnUnused
      <4> HIDE DEF b, c, s
      <4>3. b.workspace = a.workspace /\ b.status = a.status /\ c \in ToSet(b.columns[s])
            /\ b.outputs = a.outputs
        BY <4>2 DEF Widens, Same, Fields, NewFields
      <4>4. b.workspace[w] = None /\ b.status[w] = "alive"
        BY <1>3, <1>5, <4>3
      <4>5. Same(b, alone, ColumnFields)
        BY <1>2, <4>2, <4>3, <4>4, AddChildKeeps
      <4> HIDE DEF alone
      <4> QED
        BY <1>4, <4>3, <4>5 DEF Same, Fields, ColumnFields
    <3> HIDE DEF afloat, beside, alone, x
    <3> QED
      BY <3>1, <3>2, <3>3 DEF Outputs
  <2> QED
    BY <2>1, <2>2
<1> HIDE DEF placed
<1> QED
  BY <1>1, <1>9

LEMMA MapGood ==
  ASSUME Good(tree), HasUnused(tree), NEW w \in Window, NEW floats \in BOOLEAN, NEW full \in BOOLEAN,
         NEW o \in Output, Map(w, floats, full, o)
  PROVE  Good(tree')
<1> DEFINE placed == Placed(tree, w, floats, o)
           shown == IF full THEN FullscreenOn(placed, w, o) ELSE placed
           chosen == IF ShouldFocus(shown, w) THEN SetFocusedWindow(shown, w) ELSE shown
<1>1. tree.status[w] = "absent" /\ o \in Outputs(tree) /\ Become(CommitFocus(chosen))
  BY DEF Map, Placed, Created
<1>2. Good(placed) /\ placed.workspace[w] = tree.activeWorkspace /\ Outputs(placed) = Outputs(tree)
  BY <1>1, PlacedInTree
<1> HIDE DEF placed
<1>3. tree.activeWorkspace # None
  BY NodesAssumption DEF Good, Inv, TreeType
<1>4. Good(shown)
  <2>1. Good(FullscreenOn(placed, w, o))
    BY <1>1, <1>2, <1>3, GoodFullscreen
  <2> QED
    BY <1>2, <2>1
<1> HIDE DEF shown
<1>5. Good(chosen)
  <2>1. Good(SetFocusedWindow(shown, w))
    BY <1>4, GoodFocusedWindow
  <2> QED
    BY <1>4, <2>1
<1> HIDE DEF chosen
<1>6. Good(CommitFocus(chosen))
  BY <1>5, GoodCommit
<1> QED
  BY <1>1, <1>6, GoodBecome

-----------------------------------------------------------------------------
(* The theorems. *)

LEMMA NextGood == Good(tree) /\ [Next]_tree => Good(tree')
<1> SUFFICES ASSUME Good(tree), [Next]_tree PROVE Good(tree')
  OBVIOUS
<1>1. CASE UNCHANGED tree
  BY <1>1
<1>2. ColumnLeft => HasUnused(tree)
  BY DEF ColumnLeft, HasUnused
<1>3. ASSUME NEW o \in Output, NewOutput(o) PROVE Good(tree')
  BY <1>3, NewOutputGood
<1>4. ASSUME ColumnLeft, ClientStep PROVE Good(tree')
  <2>1. ASSUME NEW w \in Window, NEW floats \in BOOLEAN, NEW full \in BOOLEAN, NEW o \in Output,
               Map(w, floats, full, o)
        PROVE  Good(tree')
    BY <1>2, <1>4, <2>1, MapGood
  <2>2. ASSUME NEW w \in Window, Unmap(w) PROVE Good(tree')
    BY <2>2, UnmapGood
  <2>3. ASSUME NEW w \in Window, NEW full \in BOOLEAN, NEW o \in Output, RequestFullscreen(w, full, o)
        PROVE  Good(tree')
    BY <2>3, RequestFullscreenGood
  <2>4. CASE FocusLayer \/ LayerUnmapped \/ FocusUnmanaged
    BY <2>4, OtherFocusSteps
  <2> QED
    BY <1>4, <2>1, <2>2, <2>3, <2>4 DEF ClientStep
<1>5. ASSUME InputStep PROVE Good(tree')
  <2>1. ASSUME NEW w \in Window, FocusWindow(w) \/ TouchDown(w) PROVE Good(tree')
    BY <2>1, FocusSteps
  <2>2. CASE ClickWorkspace \/ \E o \in Output : HoverOutput(o)
    BY <2>2, OtherFocusSteps
  <2> QED
    BY <1>5, <2>1, <2>2 DEF InputStep
<1>6. ASSUME ColumnLeft, CommandStep PROVE Good(tree')
  <2>1. ASSUME NEW s \in Workspace, CmdWorkspace(s) PROVE Good(tree')
    BY <2>1, CmdWorkspaceGood
  <2>2. ASSUME NEW w \in Window, NEW s \in Workspace, CmdMoveToWorkspace(w, s) PROVE Good(tree')
    BY <1>2, <1>6, <2>2, CmdMoveToWorkspaceGood
  <2>3. ASSUME NEW w \in Window, NEW d \in Direction, CmdMoveTiling(w, d) PROVE Good(tree')
    BY <1>2, <1>6, <2>3, CmdMoveTilingGood
  <2>4. ASSUME NEW w \in Window, NEW d \in Direction, CmdMoveFullscreen(w, d) PROVE Good(tree')
    BY <2>4, CmdMoveFullscreenGood
  <2>5. ASSUME NEW w \in Window, NEW o \in Output, CmdMoveFloating(w, o) PROVE Good(tree')
    BY <2>5, CmdMoveFloatingGood
  <2>6. ASSUME NEW w \in Window, NEW enable \in BOOLEAN, CmdFloating(w, enable) PROVE Good(tree')
    BY <1>2, <1>6, <2>6, CmdFloatingGood
  <2>7. ASSUME NEW w \in Window, NEW enable \in BOOLEAN, CmdFullscreen(w, enable) PROVE Good(tree')
    BY <2>7, CmdFullscreenGood
  <2>8. ASSUME NEW floating \in BOOLEAN, CmdFocusMode(floating) PROVE Good(tree')
    BY <2>8, CmdFocusModeGood
  <2>9. ASSUME NEW d \in Direction, CmdFocus(d) PROVE Good(tree')
    BY <2>9, CmdFocusGood
  <2>10. ASSUME NEW d \in Direction, CmdFocusOutput(d) PROVE Good(tree')
    BY <2>10, CmdFocusOutputGood
  <2> QED
    BY <1>6, <2>1, <2>2, <2>3, <2>4, <2>5, <2>6, <2>7, <2>8, <2>9, <2>10 DEF CommandStep
<1>7. CASE Arrange
  BY <1>7, ArrangeGood
<1> QED
  BY <1>1, <1>3, <1>4, <1>5, <1>6, <1>7 DEF Next

\* The inductive invariant of the window tree
TreeInv == Good(tree)

\* Whatever clients, input and commands do, in any order, between two callbacks
\* the invariant holds and every living window is in the tree.
THEOREM TreeGood == Spec => []TreeInv
<1>1. Init => TreeInv
  BY InitGood DEF TreeInv
<1>2. TreeInv /\ [Next]_tree => TreeInv'
  BY NextGood DEF TreeInv
<1> QED
  BY <1>1, <1>2, PTL DEF Spec

\* Every field of the tree has its type; in particular an active workspace is
\* one that is there, and an active output one that is connected (root.c).
THEOREM TreeTyped == Spec => []TreeTypeOK
<1>1. TreeInv => TreeTypeOK
  <2> SUFFICES ASSUME Good(tree) PROVE TreeTypeOK
    BY DEF TreeInv
  <2>1. /\ TreeType(tree) /\ OtherType(tree) /\ NoteType(tree) /\ Outputs(tree) \subseteq Output
    BY PlaceNodes DEF Good, Inv, OtherType
  <2>2. \A s \in Workspace : ToSet(tree.columns[s]) \subseteq Column /\ ToSet(tree.floating[s]) \subseteq Window
    <3> SUFFICES ASSUME NEW s \in Workspace
                 PROVE  ToSet(tree.columns[s]) \subseteq Column /\ ToSet(tree.floating[s]) \subseteq Window
      OBVIOUS
    <3>1. tree.columns[s] \in Seq(Column) /\ tree.floating[s] \in Seq(Window)
      BY <2>1 DEF TreeType
    <3> QED
      BY <3>1, EmptyList
  <2>3. \A c \in Column : ToSet(tree.children[c]) \subseteq Window
    <3> SUFFICES ASSUME NEW c \in Column PROVE ToSet(tree.children[c]) \subseteq Window
      OBVIOUS
    <3>1. tree.children[c] \in Seq(Window)
      BY <2>1 DEF TreeType
    <3> QED
      BY <3>1, EmptyList
  <2>4. \A w \in Window : ToSet(tree.history[w]) \subseteq Output
    <3> SUFFICES ASSUME NEW w \in Window PROVE ToSet(tree.history[w]) \subseteq Output
      OBVIOUS
    <3>1. tree.history[w] \in Seq(Outputs(tree))
      BY <2>1 DEF OtherType
    <3>2. ToSet(tree.history[w]) \subseteq Outputs(tree)
      BY <3>1, EmptyList
    <3> QED
      BY <2>1, <3>2
  <2>5. \A w \in Window : tree.output[w] \in Maybe(Output)
    BY <2>1 DEF OtherType, Maybe
  <2>6. tree.activeOutput \in Maybe(Outputs(tree)) /\ tree.status \in [Window -> {"absent", "alive", "dead"}]
        /\ tree.fullscreen \subseteq Window
    BY <2>1 DEF OtherType
  <2>7. /\ tree.overlay \in Maybe({"layer", "unmanaged"})
        /\ tree.focused \in Maybe(Window) \cup {"layer", "unmanaged"}
        /\ tree.dirty \subseteq Node /\ tree.crashed \in BOOLEAN
    BY <2>1 DEF NoteType
  <2>8. /\ tree.workspaces \subseteq Workspace /\ tree.activeWorkspace \in tree.workspaces
        /\ \A s \in Workspace : /\ tree.activeColumn[s] \in Maybe(Column)
                                /\ tree.focusMode[s] \in {"tiling", "floating"}
        /\ \A c \in Column : /\ tree.activeChild[c] \in Maybe(Window)
                             /\ tree.colWorkspace[c] \in Maybe(Workspace)
                             /\ tree.colOutput[c] \in Maybe(Output)
        /\ \A w \in Window : tree.workspace[w] \in Maybe(Workspace) /\ tree.column[w] \in Maybe(Column)
    BY <2>1 DEF TreeType
  <2>9. \A w \in Window : tree.status[w] \in {"absent", "alive", "dead"}
    BY <2>6
  <2> QED
    BY <2>1, <2>2, <2>3, <2>4, <2>5, <2>6, <2>7, <2>8, <2>9 DEF TreeTypeOK
<1> QED
  BY <1>1, TreeGood, PTL

\* Lists and pointers agree: a living window is in exactly one place of the
\* tree, which is where its pointers say it is (root_validate, lines 579-629),
\* after every sequence of commands, clicks, requests and transactions.
THEOREM PlacedOnceAlways == Spec => []PlacedOnce
<1>1. TreeInv => PlacedOnce
  <2> SUFFICES ASSUME Good(tree) PROVE PlacedOnce
    BY DEF TreeInv
  <2>1. Inv(tree) /\ PlaceInv(tree) /\ TreeType(tree) /\ Homed(tree)
    BY DEF Good, Inv
  <2>2. Listed({tree.columns[s] : s \in Workspace} \cup {tree.floating[s] : s \in Workspace}
                 \cup {tree.children[c] : c \in Column})
    <3>1. \A s \in Workspace : IsInjective(tree.columns[s]) /\ IsInjective(tree.floating[s])
      BY <2>1 DEF PlaceInv
    <3>2. \A c \in Column : IsInjective(tree.children[c])
      BY <2>1 DEF PlaceInv
    <3> QED
      BY <3>1, <3>2 DEF Listed, IsInjective
  <2>3. ASSUME NEW w \in Window
        PROVE  /\ w \in Alive(tree) <=> tree.workspace[w] \in tree.workspaces
               /\ \A c \in Column : Contains(tree.children[c], w) <=> tree.column[w] = c
               /\ \A s \in Workspace : Contains(tree.floating[s], w)
                                         <=> tree.workspace[w] = s /\ tree.column[w] = None
               /\ IsTiling(tree, w) => tree.workspace[w] = tree.colWorkspace[tree.column[w]]
    <3>1. w \in Alive(tree) <=> tree.workspace[w] # None
      BY <2>1 DEF Alive, Homed, Inv, OutputInv
    <3>2. tree.workspace[w] # None <=> tree.workspace[w] \in tree.workspaces
      BY <2>1, WindowHome
    <3>3. \A c \in Column : Contains(tree.children[c], w) <=> tree.column[w] = c
      <4> SUFFICES ASSUME NEW c \in Column PROVE Contains(tree.children[c], w) <=> tree.column[w] = c
        OBVIOUS
      <4>1. tree.children[c] \in Seq(Window)
        BY <2>1 DEF TreeType
      <4>2. Contains(tree.children[c], w) <=> w \in ToSet(tree.children[c])
        BY <4>1, EmptyList
      <4> QED
        BY <2>1, <4>2 DEF PlaceInv
    <3>4. \A s \in Workspace : Contains(tree.floating[s], w)
                                 <=> tree.workspace[w] = s /\ tree.column[w] = None
      <4> SUFFICES ASSUME NEW s \in Workspace
                   PROVE  Contains(tree.floating[s], w) <=> tree.workspace[w] = s /\ tree.column[w] = None
        OBVIOUS
      <4>1. tree.floating[s] \in Seq(Window)
        BY <2>1 DEF TreeType
      <4>2. Contains(tree.floating[s], w) <=> w \in ToSet(tree.floating[s])
        BY <4>1, EmptyList
      <4> QED
        BY <2>1, <4>2 DEF PlaceInv
    <3>5. IsTiling(tree, w) => tree.workspace[w] = tree.colWorkspace[tree.column[w]]
      BY <2>1 DEF IsTiling, PlaceInv
    <3> QED
      BY <3>1, <3>2, <3>3, <3>4, <3>5
  <2>4. \A s \in Workspace : \A c \in ToSet(tree.columns[s]) : tree.colWorkspace[c] = s
    BY <2>1 DEF PlaceInv
  <2>5. ASSUME NEW c \in Column, tree.children[c] # << >>
        PROVE  Contains(tree.columns[tree.colWorkspace[c]], c)
    <3>1. tree.children[c] \in Seq(Window)
      BY <2>1 DEF TreeType
    <3>2. tree.children[c][1] \in ToSet(tree.children[c]) /\ ToSet(tree.children[c]) \subseteq Window
      BY <2>5, <3>1, EmptyList
    <3> DEFINE w == tree.children[c][1]
    <3>3. w \in Window /\ tree.column[w] = c
      BY <2>1, <3>2 DEF PlaceInv
    <3> HIDE DEF w
    <3>4. tree.colWorkspace[c] = tree.workspace[w] /\ tree.workspace[w] \in Workspace
          /\ c \in ToSet(tree.columns[tree.workspace[w]])
      BY <2>1, <3>3, ChildHome
    <3>5. tree.columns[tree.workspace[w]] \in Seq(Column)
      BY <2>1, <3>4 DEF TreeType
    <3> QED
      BY <3>4, <3>5, EmptyList
  <2> QED
    BY <2>2, <2>3, <2>4, <2>5 DEF PlacedOnce
<1> QED
  BY <1>1, TreeGood, PTL

\* The path of active nodes never leads astray: an active column is one of its
\* workspace, an active child one of its column, and a workspace in floating
\* mode has a floating window (workspace_set_active_window, column_remove_child,
\* column_consider_destroy, workspace_remove_floating).
THEOREM ActivePathAlways == Spec => []ActivePathIsValid
<1>1. TreeInv => ActivePathIsValid
  <2> SUFFICES ASSUME Good(tree) PROVE ActivePathIsValid
    BY DEF TreeInv
  <2>1. PathInv(tree) /\ TreeType(tree)
    BY DEF Good, Inv
  <2>2. \A s \in Workspace : /\ tree.activeColumn[s] \in Maybe(ToSet(tree.columns[s]))
                             /\ tree.focusMode[s] = "floating" => tree.floating[s] # << >>
    BY <2>1 DEF PathInv
  <2>3. ASSUME NEW s \in Workspace, NEW c \in ToSet(tree.columns[s])
        PROVE  /\ tree.children[c] # << >> => Contains(tree.children[c], tree.activeChild[c])
               /\ tree.children[c] = << >> => tree.activeChild[c] = None
    <3>1. tree.columns[s] \in Seq(Column)
      BY <2>1 DEF TreeType
    <3>2. c \in Column
      BY <3>1, EmptyList
    <3>3. tree.children[c] \in Seq(Window)
      BY <2>1, <3>2 DEF TreeType
    <3>4. \A e : Contains(tree.children[c], e) <=> e \in ToSet(tree.children[c])
      BY <3>3, EmptyList
    <3> QED
      BY <2>1, <3>2, <3>4 DEF PathInv
  <2> QED
    BY <2>2, <2>3 DEF ActivePathIsValid
<1> QED
  BY <1>1, TreeGood, PTL

\* The structure of the tree survives every kind of input: lists, back pointers
\* and the path of active nodes agree whatever the order of commands, clicks,
\* touches and requests.
THEOREM StructureAlways == Spec => []StructureIsSound
BY PlacedOnceAlways, ActivePathAlways, PTL DEF StructureIsSound
-----------------------------------------------------------------------------
(* What an operator leaves alone, whatever the tree: these lemmas need no   *)
(* invariant.                                                               *)

\* What placing windows, columns and workspaces may change
PlaceFields ==
  {"workspaces", "columns", "activeColumn", "floating", "focusMode", "children", "activeChild",
   "colWorkspace", "colOutput", "workspace", "column", "history", "output", "dirty"}
Places(t, r) == DOMAIN t = Fields => Same(t, r, PlaceFields)

\* What else moving the focus may change
TurnFields == PlaceFields \cup {"activeOutput", "activeWorkspace", "overlay", "crashed"}
Turns(t, r) == DOMAIN t = Fields => Same(t, r, TurnFields)

LEMMA PlacesOn ==
  ASSUME NEW t, NEW r, Places(t, r)
  PROVE  /\ Turns(t, r)
         /\ \A q : Places(r, q) => Places(t, q)
         /\ \A q : Turns(r, q) => Turns(t, q)
<1>1. DOMAIN t = Fields => DOMAIN r = Fields /\ Turns(t, r)
  BY DEF Places, Turns, Same, TurnFields
<1>2. Turns(t, r)
  BY <1>1 DEF Turns
<1>3. ASSUME NEW q, Places(r, q) PROVE Places(t, q)
  BY <1>1, <1>3 DEF Places, Same
<1>4. ASSUME NEW q, Turns(r, q) PROVE Turns(t, q)
  BY <1>1, <1>2, <1>4 DEF Turns, Same
<1> QED
  BY <1>2, <1>3, <1>4

LEMMA TurnsOn ==
  ASSUME NEW t, NEW r, Turns(t, r), NEW q, Turns(r, q)
  PROVE  Turns(t, q)
BY DEF Turns, Same

LEMMA PlacesItself ==
  ASSUME NEW t
  PROVE  Places(t, t) /\ Turns(t, t)
BY DEF Places, Turns, Same

LEMMA ReconcilePlaces ==
  ASSUME NEW t, NEW w, NEW c
  PROVE  /\ Places(t, Mark(t, w))
         /\ Places(t, ReconcileTiling(t, w, c))
         /\ Places(t, ReconcileFloating(t, w, c))
         /\ Places(t, ReconcileDetached(t, w))
<1> SUFFICES ASSUME DOMAIN t = Fields
             PROVE  /\ Same(t, Mark(t, w), PlaceFields)
                    /\ Same(t, ReconcileTiling(t, w, c), PlaceFields)
                    /\ Same(t, ReconcileFloating(t, w, c), PlaceFields)
                    /\ Same(t, ReconcileDetached(t, w), PlaceFields)
  BY DEF Places
<1>1. Same(t, Mark(t, w), PlaceFields)
  BY DEF Mark, Same, Fields, PlaceFields
<1>2. Same(t, ReconcileTiling(t, w, c), PlaceFields)
  BY DEF ReconcileTiling, Same, Fields, PlaceFields
<1>3. Same(t, ReconcileFloating(t, w, c), PlaceFields)
  BY DEF ReconcileFloating, Same, Fields, PlaceFields
<1>4. Same(t, ReconcileDetached(t, w), PlaceFields)
  BY DEF ReconcileDetached, Same, Fields, PlaceFields
<1> QED
  BY <1>1, <1>2, <1>3, <1>4

LEMMA ChildrenPlaces ==
  ASSUME NEW t, NEW c, NEW w, NEW i, NEW after
  PROVE  /\ Places(t, InsertChild(t, c, w, i)) /\ Places(t, AddChild(t, c, w))
         /\ Places(t, AddSibling(t, c, w, after)) /\ Places(t, AddBesideActive(t, c, i, w))
<1>1. ASSUME NEW d, NEW x, NEW j PROVE Places(t, InsertChild(t, d, x, j))
  <2> DEFINE first == IF t.children[d] = << >> THEN [t EXCEPT !.activeChild[d] = x] ELSE t
             listed == [first EXCEPT !.children[d] = InsertAt(@, j, x)]
             placed == ReconcileTiling(listed, x, d)
  <2>1. InsertChild(t, d, x, j) = Mark(placed, {d})
    BY DEF InsertChild
  <2>2. Places(t, first)
    BY DEF Places, Same, Fields, PlaceFields
  <2> HIDE DEF first
  <2>3. Places(first, listed)
    BY DEF Places, Same, Fields, PlaceFields
  <2> HIDE DEF listed
  <2>4. Places(listed, placed) /\ Places(placed, Mark(placed, {d}))
    BY ReconcilePlaces
  <2> HIDE DEF placed
  <2> QED
    BY <2>1, <2>2, <2>3, <2>4, PlacesOn
<1>2. ASSUME NEW fixed, NEW later PROVE Places(t, AddSibling(t, fixed, w, later))
  <2> DEFINE b == t.column[fixed]
             j == IndexIn(t.children[b], fixed)
             listed == [t EXCEPT !.children[b] = InsertAt(@, IF later THEN j + 1 ELSE j, w)]
             fixedThen == ReconcileTiling(listed, fixed, b)
             placed == ReconcileTiling(fixedThen, w, b)
  <2>1. AddSibling(t, fixed, w, later) = Mark(placed, {b})
    BY DEF AddSibling
  <2>2. Places(t, listed)
    BY DEF Places, Same, Fields, PlaceFields
  <2> HIDE DEF listed
  <2>3. Places(listed, fixedThen) /\ Places(fixedThen, placed) /\ Places(placed, Mark(placed, {b}))
    BY ReconcilePlaces
  <2> HIDE DEF placed, fixedThen
  <2> QED
    BY <2>1, <2>2, <2>3, PlacesOn
<1>3. Places(t, AddChild(t, c, w))
  BY <1>1 DEF AddChild
<1>4. Places(t, AddBesideActive(t, c, i, w))
  BY <1>2, <1>3 DEF AddBesideActive
<1> QED
  BY <1>1, <1>2, <1>3, <1>4

LEMMA SetActiveChildPlaces ==
  ASSUME NEW t, NEW c, NEW w
  PROVE  Places(t, SetActiveChild(t, c, w))
<1> DEFINE prev == t.activeChild[c]
           put == [t EXCEPT !.activeChild[c] = w]
           chosen == ReconcileTiling(put, w, c)
           both == ReconcileTiling(chosen, prev, c)
           r == IF prev = None THEN chosen ELSE both
<1>1. SetActiveChild(t, c, w) = IF prev = w THEN t ELSE Mark(r, {c})
  BY DEF SetActiveChild
<1>2. Places(t, put)
  BY DEF Places, Same, Fields, PlaceFields
<1> HIDE DEF put
<1>3. Places(put, chosen) /\ Places(chosen, both) /\ Places(r, Mark(r, {c}))
  BY ReconcilePlaces
<1> HIDE DEF chosen, both
<1>4. Places(t, r)
  BY <1>2, <1>3, PlacesOn
<1> HIDE DEF r
<1> QED
  BY <1>1, <1>3, <1>4, PlacesOn, PlacesItself

LEMMA DetachPlaces ==
  ASSUME NEW t, NEW w
  PROVE  Places(t, Detach(t, w))
<1>1. ASSUME NEW c PROVE Places(t, RemoveChild(t, c, w))
  <2> DEFINE i == IndexIn(t.children[c], w)
             rest == RemoveFirst(t.children[c], w)
             next == IF rest = << >> THEN None ELSE rest[IF i > 1 THEN i - 1 ELSE 1]
             unlisted == [t EXCEPT !.children[c] = rest,
                                   !.activeChild[c] = IF @ = w THEN next ELSE @]
             tiled == ReconcileTiling(unlisted, next, c)
             chosen == IF t.activeChild[c] = w /\ next # None THEN tiled ELSE unlisted
             out == ReconcileDetached(chosen, w)
  <2>1. RemoveChild(t, c, w) = Mark(out, {c})
    BY DEF RemoveChild
  <2>2. Places(t, unlisted)
    BY DEF Places, Same, Fields, PlaceFields
  <2> HIDE DEF unlisted
  <2>3. Places(unlisted, tiled) /\ Places(chosen, out) /\ Places(out, Mark(out, {c}))
    BY ReconcilePlaces
  <2> HIDE DEF tiled, out, next
  <2>4. Places(t, chosen)
    BY <2>2, <2>3, PlacesOn
  <2> HIDE DEF chosen
  <2> QED
    BY <2>1, <2>3, <2>4, PlacesOn
<1>2. ASSUME NEW s PROVE Places(t, RemoveFloating(t, s, w))
  <2> DEFINE rest == RemoveFirst(t.floating[s], w)
             unlisted == [t EXCEPT !.floating[s] = rest,
                                   !.focusMode[s] = IF rest = << >> THEN "tiling" ELSE @]
             tiling == ActiveTiling(t, s)
             last == ReconcileFloating(unlisted, Last(rest), s)
             tiled == ReconcileTiling(unlisted, tiling, t.column[tiling])
             chosen == IF rest # << >> THEN last ELSE IF tiling # None THEN tiled ELSE unlisted
             shown == Mark(chosen, {t.output[w]})
             there == IF w \in t.fullscreen THEN shown ELSE chosen
  <2>1. RemoveFloating(t, s, w) = ReconcileDetached(there, w)
    BY DEF RemoveFloating
  <2>2. Places(t, unlisted)
    BY DEF Places, Same, Fields, PlaceFields
  <2> HIDE DEF unlisted
  <2>3. /\ Places(unlisted, last) /\ Places(unlisted, tiled)
        /\ Places(chosen, shown) /\ Places(there, ReconcileDetached(there, w))
    BY ReconcilePlaces
  <2> HIDE DEF last, tiled, shown, rest, tiling
  <2>4. Places(t, chosen)
    BY <2>2, <2>3, PlacesOn
  <2> HIDE DEF chosen
  <2>5. Places(t, there)
    BY <2>3, <2>4, PlacesOn
  <2> HIDE DEF there
  <2> QED
    BY <2>1, <2>3, <2>5, PlacesOn
<1> QED
  BY <1>1, <1>2, PlacesItself DEF Detach

LEMMA AddFloatingPlaces ==
  ASSUME NEW t, NEW s, NEW w
  PROVE  Places(t, AddFloating(t, s, w))
<1> DEFINE prev == ActiveFloating(t, s)
           listed == [t EXCEPT !.floating[s] = Append(@, w)]
           shown == [listed EXCEPT !.history[w] = <<t.activeOutput>>, !.output[w] = t.activeOutput]
           placed == IF t.history[w] # << >> THEN listed ELSE shown
           added == ReconcileFloating(placed, w, s)
           both == ReconcileFloating(added, prev, s)
           r == IF prev = None THEN added ELSE both
<1>1. AddFloating(t, s, w) = Mark(r, {s})
  BY DEF AddFloating
<1>2. Places(t, listed)
  BY DEF Places, Same, Fields, PlaceFields
<1> HIDE DEF listed
<1>3. Places(listed, shown)
  BY DEF Places, Same, Fields, PlaceFields
<1> HIDE DEF shown
<1>4. Places(placed, added) /\ Places(added, both) /\ Places(r, Mark(r, {s}))
  BY ReconcilePlaces
<1> HIDE DEF added, both, prev
<1>5. Places(t, placed)
  BY <1>2, <1>3, PlacesOn
<1> HIDE DEF placed
<1>6. Places(t, r)
  BY <1>4, <1>5, PlacesOn
<1> HIDE DEF r
<1> QED
  BY <1>1, <1>4, <1>6, PlacesOn

LEMMA ContainersPlace ==
  ASSUME NEW t, NEW s, NEW o, NEW i, NEW c
  PROVE  /\ Places(t, InsertColumn(t, s, o, i, c))
         /\ Places(t, InsertFirst(t, s, o)) /\ Places(t, InsertLast(t, s, o))
         /\ Places(t, EnsureColumn(t, s, o))
         /\ Places(t, CreateWorkspace(t, s)) /\ Places(t, WorkspaceConsiderDestroy(t, s))
<1>1. ASSUME NEW j, NEW d PROVE Places(t, InsertColumn(t, s, o, j, d))
  BY DEF InsertColumn, Places, Same, Fields, PlaceFields
<1>2. Places(t, InsertFirst(t, s, o)) /\ Places(t, InsertLast(t, s, o))
  BY <1>1 DEF InsertFirst, InsertLast
<1>3. Places(t, EnsureColumn(t, s, o))
  BY <1>2, PlacesItself DEF EnsureColumn
<1>4. Places(t, CreateWorkspace(t, s))
  BY DEF CreateWorkspace, Places, Same, Fields, PlaceFields
<1>5. Places(t, WorkspaceConsiderDestroy(t, s))
  BY DEF WorkspaceConsiderDestroy, Places, Same, Fields, PlaceFields
<1> QED
  BY <1>1, <1>2, <1>3, <1>4, <1>5

LEMMA CleanedPlaces ==
  ASSUME NEW t, NEW c
  PROVE  Places(t, ColumnConsiderDestroy(t, c)) /\ Places(t, Cleaned(t, c))
<1> DEFINE s == t.colWorkspace[c]
           next == IF ColumnBefore(t, c) # None THEN ColumnBefore(t, c) ELSE ColumnAfter(t, c)
           unlisted == [t EXCEPT !.columns[s] = RemoveFirst(@, c),
                                 !.activeColumn[s] = IF @ = c THEN next ELSE @]
           nextThen == Mark(unlisted, {next} \ {None})
           marked == IF t.activeColumn[s] = c THEN nextThen ELSE unlisted
           left == WorkspaceConsiderDestroy(marked, s)
<1>1. ColumnConsiderDestroy(t, c) = IF t.children[c] # << >> THEN t ELSE Mark(left, {c, s})
  BY DEF ColumnConsiderDestroy
<1> HIDE DEF next
<1>2. Places(t, unlisted)
  BY DEF Places, Same, Fields, PlaceFields
<1> HIDE DEF unlisted
<1>3. Places(unlisted, nextThen) /\ Places(marked, left) /\ Places(left, Mark(left, {c, s}))
  BY ReconcilePlaces, ContainersPlace
<1> HIDE DEF nextThen, left
<1>4. Places(t, marked)
  BY <1>2, <1>3, PlacesOn
<1> HIDE DEF marked
<1>5. Places(t, ColumnConsiderDestroy(t, c))
  BY <1>1, <1>3, <1>4, PlacesOn, PlacesItself
<1> QED
  BY <1>5, PlacesItself DEF Cleaned

LEMMA MovePlaces ==
  ASSUME NEW t, NEW w, NEW c, NEW s, NEW d
  PROVE  /\ Places(t, MoveToColumn(t, w, c, d)) /\ Places(t, MoveToWorkspace(t, w, s))
         /\ Places(t, Float(t, w)) /\ Places(t, Unfloat(t, w))
<1>1. ASSUME NEW q, NEW x, NEW e, Places(t, q) PROVE Places(t, MoveToColumn(q, w, x, e))
  <2> DEFINE a == Detach(q, w)
             i == IF e = "down" THEN 1 ELSE Len(q.children[x]) + 1
             inserted == InsertChild(a, x, w, i)
             beside == AddBesideActive(a, x, q.activeChild[x], w)
  <2>1. MoveToColumn(q, w, x, e) = IF q.column[w] = x THEN q
                                   ELSE IF e \in {"up", "down"} THEN inserted ELSE beside
    BY DEF MoveToColumn
  <2>2. Places(q, a)
    BY DetachPlaces
  <2> HIDE DEF a
  <2>3. Places(a, inserted) /\ Places(a, beside)
    BY ChildrenPlaces
  <2> HIDE DEF inserted, beside
  <2> QED
    BY <1>1, <2>1, <2>2, <2>3, PlacesOn
<1>2. Places(t, MoveToColumn(t, w, c, d))
  BY <1>1, PlacesItself
<1>3. ASSUME NEW u PROVE Places(t, AddFloating(Detach(t, w), u, w))
  <2> DEFINE a == Detach(t, w)
  <2>1. Places(t, a)
    BY DetachPlaces
  <2> HIDE DEF a
  <2>2. Places(a, AddFloating(a, u, w))
    BY AddFloatingPlaces
  <2>3. Places(t, AddFloating(a, u, w))
    BY <2>1, <2>2, PlacesOn
  <2> QED
    BY <2>3 DEF a
<1>4. Places(t, MoveToWorkspace(t, w, s))
  <2> DEFINE ready == EnsureColumn(t, s, t.output[w])
             x == ColumnThere(t, s, t.output[w])
             tiled == MoveToColumn(ready, w, x, "none")
  <2>1. MoveToWorkspace(t, w, s) = IF t.workspace[w] = s THEN t
                                   ELSE IF IsFloating(t, w) THEN AddFloating(Detach(t, w), s, w)
                                   ELSE tiled
    BY DEF MoveToWorkspace, ColumnThere
  <2>2. Places(t, ready)
    BY ContainersPlace
  <2> HIDE DEF x, ready
  <2>3. Places(t, tiled)
    BY <1>1, <2>2
  <2> QED
    BY <1>3, <2>1, <2>3, PlacesItself
<1>5. Places(t, Float(t, w))
  <2> DEFINE c1 == t.column[w]
             q == AddFloating(Detach(t, w), t.workspace[w], w)
  <2>1. Float(t, w) = IF c1 = None THEN q ELSE ColumnConsiderDestroy(q, c1)
    BY DEF Float
  <2>2. Places(t, q)
    BY <1>3
  <2> HIDE DEF q
  <2>3. Places(q, ColumnConsiderDestroy(q, c1))
    BY CleanedPlaces
  <2> QED
    BY <2>1, <2>2, <2>3, PlacesOn
<1>6. Places(t, Unfloat(t, w))
  <2> DEFINE u == t.workspace[w]
             left == Detach(t, w)
             ready == EnsureColumn(left, u, t.output[w])
             x == ColumnThere(left, u, t.output[w])
             q == AddBesideActive(ready, x, ready.activeChild[x], w)
  <2>1. Unfloat(t, w) = q
    BY DEF Unfloat, ColumnThere
  <2>2. Places(t, left)
    BY DetachPlaces
  <2> HIDE DEF left
  <2>3. Places(left, ready)
    BY ContainersPlace
  <2> HIDE DEF ready, x
  <2>4. Places(ready, q)
    BY ChildrenPlaces
  <2> HIDE DEF q
  <2> QED
    BY <2>1, <2>2, <2>3, <2>4, PlacesOn
<1> QED
  BY <1>2, <1>4, <1>5, <1>6

\* A move to the next output changes places, or is the one that reads a NULL column.
LEMMA TilingMovePlaces ==
  ASSUME NEW t, NEW w, NEW d
  PROVE  LET crash == [t EXCEPT !.crashed = TRUE]
         IN  /\ Places(t, MoveInColumn(t, w, d)) \/ MoveInColumn(t, w, d) = crash
             /\ Places(t, MoveAcross(t, w, d)) \/ MoveAcross(t, w, d) = crash
<1> DEFINE crash == [t EXCEPT !.crashed = TRUE]
<1>1. ASSUME NEW o PROVE Places(t, MoveToNextOutput(t, w, o, d)) \/ MoveToNextOutput(t, w, o, d) = crash
  <2> DEFINE s == t.workspace[w]
             active == t.activeColumn[s]
             c == IF d = "down" /\ t.colOutput[active] = o THEN active
                  ELSE IF d = "left" THEN ColumnLast(t, s, o) ELSE ColumnFirst(t, s, o)
             r == MoveToColumn(t, w, c, d)
  <2>1. MoveToNextOutput(t, w, o, d) = IF OutputInDirection(t, o, d) = None THEN t
                                       ELSE IF active = None THEN crash ELSE r
    BY DEF MoveToNextOutput
  <2> HIDE DEF c
  <2>2. Places(t, r)
    BY MovePlaces
  <2> HIDE DEF r, active, crash
  <2> QED
    BY <2>1, <2>2, PlacesItself
<1>2. Places(t, MoveInColumn(t, w, d)) \/ MoveInColumn(t, w, d) = crash
  <2> DEFINE siblings == t.children[t.column[w]]
             fixed == IF d = "up" THEN PrevIn(siblings, w) ELSE NextIn(siblings, w)
             a == Detach(t, w)
             r == AddSibling(a, fixed, w, d = "down")
  <2>1. MoveInColumn(t, w, d) = IF fixed = None THEN MoveToNextOutput(t, w, t.output[w], d) ELSE r
    BY DEF MoveInColumn
  <2> HIDE DEF fixed
  <2>2. Places(t, a)
    BY DetachPlaces
  <2> HIDE DEF a
  <2>3. Places(a, r)
    BY ChildrenPlaces
  <2> HIDE DEF r
  <2>4. Places(t, r)
    BY <2>2, <2>3, PlacesOn
  <2> QED
    BY <1>1, <2>1, <2>4
<1>3. Places(t, MoveAcross(t, w, d)) \/ MoveAcross(t, w, d) = crash
  <2> DEFINE c == t.column[w]
             s == t.colWorkspace[c]
             near == IF d = "left" THEN ColumnBefore(t, c) ELSE ColumnAfter(t, c)
             wider == IF d = "left" THEN InsertFirst(t, s, t.colOutput[c])
                                    ELSE InsertLast(t, s, t.colOutput[c])
             across == MoveToColumn(t, w, near, d)
             own == MoveToColumn(wider, w, NewColumn(t), d)
  <2>1. MoveAcross(t, w, d) = IF near # None THEN across
                              ELSE IF Len(t.children[c]) = 1 THEN MoveToNextOutput(t, w, t.colOutput[c], d)
                              ELSE own
    BY DEF MoveAcross
  <2>2. Places(t, wider)
    BY ContainersPlace
  <2> HIDE DEF near, wider
  <2>3. Places(t, across) /\ Places(wider, own)
    BY MovePlaces
  <2> HIDE DEF across, own
  <2>4. Places(t, own)
    BY <2>2, <2>3, PlacesOn
  <2> QED
    BY <1>1, <2>1, <2>3, <2>4
<1> QED
  BY <1>2, <1>3

LEMMA FocusTurns ==
  ASSUME NEW t, NEW s, NEW w
  PROVE  /\ Turns(t, SetActiveWindow(t, s, w)) /\ Turns(t, SetActiveWorkspace(t, s))
         /\ Turns(t, SetFocusedWindow(t, w)) /\ Turns(t, SetFocusedSurface(t))
<1>1. ASSUME NEW q, NEW u, NEW x PROVE Turns(q, SetActiveWindow(q, u, x))
  <2> DEFINE prev == ActiveWindow(q, u)
             c == q.column[x]
             none == [q EXCEPT !.activeColumn[u] = None, !.focusMode[u] = "tiling"]
             raised == [q EXCEPT !.floating[u] = Append(RemoveFirst(@, x), x), !.focusMode[u] = "floating"]
             stacked == ReconcileFloating(raised, x, u)
             child == SetActiveChild(q, c, x)
             tiled == [child EXCEPT
                         !.activeColumn[u] = c, !.focusMode[u] = "tiling",
                         !.activeOutput = IF u = q.activeWorkspace THEN q.colOutput[c] ELSE @]
             chosen == IF x = None THEN none ELSE IF IsFloating(q, x) THEN stacked ELSE tiled
             released == IF prev = None THEN chosen
                         ELSE IF IsFloating(q, prev) THEN ReconcileFloating(chosen, prev, u)
                         ELSE ReconcileTiling(chosen, prev, q.column[prev])
  <2>1. SetActiveWindow(q, u, x) = IF x = prev THEN q ELSE Mark(released, {u})
    BY DEF SetActiveWindow
  <2>2. Places(q, none)
    BY DEF Places, Same, Fields, PlaceFields
  <2>3. Places(q, raised)
    BY DEF Places, Same, Fields, PlaceFields
  <2> HIDE DEF none, raised, prev
  <2>4. Places(raised, stacked) /\ Places(q, child)
    BY ReconcilePlaces, SetActiveChildPlaces
  <2> HIDE DEF child, stacked
  <2>5. Turns(child, tiled)
    BY DEF Turns, Same, Fields, TurnFields, PlaceFields
  <2> HIDE DEF tiled
  <2>6. Turns(q, chosen)
    BY <2>2, <2>3, <2>4, <2>5, PlacesOn
  <2> HIDE DEF chosen
  <2>7. /\ Places(chosen, ReconcileFloating(chosen, prev, u))
        /\ Places(chosen, ReconcileTiling(chosen, prev, q.column[prev]))
        /\ Places(released, Mark(released, {u}))
    BY ReconcilePlaces
  <2>8. Turns(chosen, released) /\ Turns(released, Mark(released, {u}))
    BY <2>7, PlacesOn, PlacesItself
  <2> HIDE DEF released
  <2> QED
    BY <2>1, <2>6, <2>8, TurnsOn, PlacesItself
<1>2. ASSUME NEW q, NEW u PROVE Turns(q, SetActiveWorkspace(q, u))
  <2> DEFINE old == q.activeWorkspace
             active == q.activeColumn[u]
             put == [q EXCEPT !.activeWorkspace = u]
             left == WorkspaceConsiderDestroy(put, old)
             there == IF active = None THEN left ELSE [left EXCEPT !.activeOutput = q.colOutput[active]]
             nodes == {old, u, Root} \cup Outputs(q)
  <2>1. SetActiveWorkspace(q, u) = IF u = old THEN q ELSE Mark(there, nodes)
    BY DEF SetActiveWorkspace
  <2>2. Turns(q, put)
    BY DEF Turns, Same, Fields, TurnFields, PlaceFields
  <2> HIDE DEF put
  <2>3. Places(put, left) /\ Places(there, Mark(there, nodes))
    BY ContainersPlace, ReconcilePlaces
  <2> HIDE DEF left, nodes
  <2>4. Turns(left, there)
    BY DEF Turns, Same, Fields, TurnFields, PlaceFields
  <2> HIDE DEF there
  <2> QED
    BY <2>1, <2>2, <2>3, <2>4, TurnsOn, PlacesOn, PlacesItself
<1>3. Turns(t, SetFocusedWindow(t, w))
  <2> DEFINE u == t.workspace[w]
             bare == [t EXCEPT !.overlay = None]
             there == SetActiveWorkspace(bare, u)
             r == SetActiveWindow(there, u, w)
             crash == [t EXCEPT !.crashed = TRUE]
  <2>1. SetFocusedWindow(t, w) = IF u = None THEN crash ELSE r
    BY DEF SetFocusedWindow
  <2>2. Turns(t, bare) /\ Turns(t, crash)
    BY DEF Turns, Same, Fields, TurnFields, PlaceFields
  <2> HIDE DEF bare, crash, u
  <2>3. Turns(bare, there)
    BY <1>2
  <2> HIDE DEF there
  <2>4. Turns(there, r)
    BY <1>1
  <2> HIDE DEF r
  <2> QED
    BY <2>1, <2>2, <2>3, <2>4, TurnsOn
<1>4. Turns(t, SetFocusedSurface(t))
  <2> DEFINE r == SetActiveWindow(t, t.activeWorkspace, None)
             q == [r EXCEPT !.overlay = "unmanaged"]
  <2>1. SetFocusedSurface(t) = q
    BY DEF SetFocusedSurface
  <2>2. Turns(t, r)
    BY <1>1
  <2> HIDE DEF r
  <2>3. Turns(r, q)
    BY DEF Turns, Same, Fields, TurnFields, PlaceFields
  <2> HIDE DEF q
  <2> QED
    BY <2>1, <2>2, <2>3, TurnsOn
<1> QED
  BY <1>1, <1>2, <1>3, <1>4

-----------------------------------------------------------------------------
(* The focus that was announced is the one the tree implies.                *)

\* What the focus is read from
PathFields == {"overlay", "activeWorkspace", "focusMode", "activeColumn", "activeChild", "floating"}

LEMMA PathSame ==
  ASSUME NEW t, NEW r, NEW F, Same(t, r, F), F \cap PathFields = {}
  PROVE  /\ \A s : ActiveWindow(r, s) = ActiveWindow(t, s)
         /\ FocusedWindow(r) = FocusedWindow(t) /\ Focus(r) = Focus(t)
<1>1. /\ r.overlay = t.overlay /\ r.activeWorkspace = t.activeWorkspace /\ r.focusMode = t.focusMode
      /\ r.activeColumn = t.activeColumn /\ r.activeChild = t.activeChild /\ r.floating = t.floating
  BY DEF Same, Fields, PathFields
<1>2. \A s : ActiveWindow(r, s) = ActiveWindow(t, s)
  BY <1>1 DEF ActiveWindow, ActiveTiling, ActiveFloating
<1> QED
  BY <1>1, <1>2 DEF FocusedWindow, Focus

\* What is forgotten after a step has no part in the focus.
LEMMA BecomeFocus ==
  ASSUME TreeType(tree'), NEW t, Become(t)
  PROVE  DOMAIN t = Fields /\ Focus(tree') = Focus(t) /\ tree'.focused = t.focused
<1> DEFINE q == Settled(t)
           columns == {c \in Column : Unused(q, c)}
           hidden == Workspace \ q.workspaces
           s == q.activeWorkspace
           c == q.activeColumn[s]
<1>1. tree' = Forgotten(q)
  BY DEF Become
<1>2. DOMAIN t = Fields
  <2>1. DOMAIN tree' = DOMAIN q
    BY <1>1 DEF Forgotten
  <2>2. DOMAIN q = DOMAIN t
    BY DEF Settled
  <2> QED
    BY <2>1, <2>2 DEF TreeType
<1>3. Same(t, q, Copies)
  BY <1>2 DEF Settled, Same, Fields, Copies
<1> HIDE DEF q
<1>4. DOMAIN q = Fields
  BY <1>3 DEF Same
<1>5. /\ tree'.activeChild = Else(columns, q.activeChild, None)
      /\ tree'.activeColumn = Else(hidden, q.activeColumn, None)
      /\ tree'.focusMode = Else(hidden, q.focusMode, "tiling")
      /\ tree'.workspaces = q.workspaces /\ tree'.activeWorkspace = s
      /\ tree'.floating = q.floating /\ tree'.overlay = q.overlay /\ tree'.focused = q.focused
  BY <1>1, <1>4 DEF Forgotten, Fields
<1>6. s \in Workspace /\ s \notin hidden
  BY <1>5 DEF TreeType
<1>7. /\ DOMAIN q.activeColumn = Workspace /\ DOMAIN q.focusMode = Workspace
      /\ DOMAIN q.activeChild = Column
  BY <1>5 DEF TreeType, Else
<1>8. tree'.activeColumn[s] = c /\ tree'.focusMode[s] = q.focusMode[s]
  BY <1>5, <1>6, <1>7 DEF Else
<1>9. c \in Maybe(Column)
  BY <1>6, <1>8 DEF TreeType
<1>10. c # None => tree'.activeChild[c] = q.activeChild[c]
  <2>1. c # None => c \in Column
    BY <1>9 DEF Maybe
  <2>2. c \notin columns
    BY <1>6 DEF Unused
  <2> QED
    BY <1>5, <1>7, <2>1, <2>2 DEF Else
<1>11. Focus(tree') = Focus(q)
  BY <1>5, <1>8, <1>10 DEF Focus, FocusedWindow, ActiveWindow, ActiveTiling, ActiveFloating
<1>12. Focus(q) = Focus(t)
  BY <1>3, PathSame DEF Copies, PathFields
<1>13. q.focused = t.focused
  BY <1>3 DEF Same, Fields, Copies
<1> QED
  BY <1>2, <1>5, <1>11, <1>12, <1>13

\* A step that ends with root_commit_focus
LEMMA CommitsFocus ==
  ASSUME TreeType(tree'), NEW t, Become(CommitFocus(t))
  PROVE  FocusIsCommitted' /\ tree'.focused = Focus(t)
<1> DEFINE r == CommitFocus(t)
<1>1. DOMAIN r = Fields /\ Focus(tree') = Focus(r) /\ tree'.focused = r.focused
  BY BecomeFocus
<1>2. DOMAIN t = Fields
  BY <1>1 DEF CommitFocus, Mark
<1>3. Same(t, r, {"focused", "dirty"}) /\ r.focused = Focus(t)
  BY <1>2 DEF CommitFocus, Mark, Same, Fields
<1> HIDE DEF r
<1>4. Focus(r) = Focus(t)
  BY <1>3, PathSame DEF PathFields
<1> QED
  BY <1>1, <1>3, <1>4 DEF FocusIsCommitted

\* A step that leaves alone what the focus is read from and what was announced
LEMMA LeavesFocus ==
  ASSUME TreeType(tree'), FocusIsCommitted, NEW t, Become(t), NEW F, Same(tree, t, F),
         F \cap (PathFields \cup {"focused"}) = {}
  PROVE  FocusIsCommitted'
<1>1. Focus(tree') = Focus(t) /\ tree'.focused = t.focused
  BY BecomeFocus
<1>2. Focus(t) = Focus(tree)
  BY PathSame
<1>3. t.focused = tree.focused
  BY DEF Same, Fields
<1> QED
  BY <1>1, <1>2, <1>3 DEF FocusIsCommitted

\* workspace_set_active_window makes the window the active one.
LEMMA ActiveWindowIsSet ==
  ASSUME NEW t, Inv(t), NEW s \in Workspace, NEW w \in Window, t.workspace[w] = s
  PROVE  ActiveWindow(SetActiveWindow(t, s, w), s) = w
<1> DEFINE prev == ActiveWindow(t, s)
           c == t.column[w]
           raised == [t EXCEPT !.floating[s] = Append(RemoveFirst(@, w), w), !.focusMode[s] = "floating"]
           stacked == ReconcileFloating(raised, w, s)
           child == SetActiveChild(t, c, w)
           tiled == [child EXCEPT
                       !.activeColumn[s] = c, !.focusMode[s] = "tiling",
                       !.activeOutput = IF s = t.activeWorkspace THEN t.colOutput[c] ELSE @]
           chosen == IF w = None THEN [t EXCEPT !.activeColumn[s] = None, !.focusMode[s] = "tiling"]
                     ELSE IF IsFloating(t, w) THEN stacked ELSE tiled
           released == IF prev = None THEN chosen
                       ELSE IF IsFloating(t, prev) THEN ReconcileFloating(chosen, prev, s)
                       ELSE ReconcileTiling(chosen, prev, t.column[prev])
           r == Mark(released, {s})
<1>1. SetActiveWindow(t, s, w) = IF w = prev THEN t ELSE r
  BY DEF SetActiveWindow
<1>2. /\ DOMAIN t = Fields /\ w # None /\ s # None
      /\ t.floating \in [Workspace -> Seq(Window)] /\ t.focusMode \in [Workspace -> {"tiling", "floating"}]
      /\ t.activeColumn \in [Workspace -> Maybe(Column)] /\ c \in Maybe(Column)
      /\ t.activeChild \in [Column -> Maybe(Window)]
  BY NodesAssumption DEF Inv, TreeType
<1>3. Same(chosen, r, {"workspace", "column", "history", "output", "dirty"})
  <2>1. DOMAIN chosen = Fields
    <3>1. Turns(t, child)
      BY SetActiveChildPlaces, PlacesOn
    <3>2. DOMAIN child = Fields
      BY <1>2, <3>1 DEF Turns, Same
    <3> HIDE DEF child
    <3> QED
      BY <1>2, <3>2 DEF ReconcileFloating
  <2> HIDE DEF chosen, prev
  <2>2. Same(chosen, released, {"workspace", "column", "history", "output", "dirty"})
    BY <2>1 DEF ReconcileFloating, ReconcileTiling, Same, Fields
  <2> HIDE DEF released
  <2>3. Same(released, r, {"dirty"})
    BY <2>2, MarkEffect DEF Same
  <2> QED
    BY <2>2, <2>3 DEF Same
<1>4. ASSUME IsFloating(t, w)
      PROVE  ActiveWindow(chosen, s) = w
  <2>1. chosen = stacked
    BY <1>2, <1>4
  <2>2. /\ stacked.floating = [t.floating EXCEPT ![s] = Append(RemoveFirst(@, w), w)]
        /\ stacked.focusMode = [t.focusMode EXCEPT ![s] = "floating"]
    BY <1>2 DEF ReconcileFloating, Fields
  <2> HIDE DEF chosen, stacked
  <2> DEFINE rest == RemoveFirst(t.floating[s], w)
  <2>3. rest \in Seq(Window)
    BY <1>2, RemoveFirstType
  <2>4. stacked.floating[s] = Append(rest, w) /\ stacked.focusMode[s] = "floating"
    BY <1>2, <2>2
  <2> HIDE DEF rest
  <2>5. Append(rest, w) # << >> /\ Last(Append(rest, w)) = w
    BY <2>3 DEF Last
  <2> QED
    BY <2>1, <2>4, <2>5 DEF ActiveWindow, ActiveFloating
<1>5. ASSUME ~IsFloating(t, w)
      PROVE  ActiveWindow(chosen, s) = w
  <2>1. chosen = tiled /\ c # None /\ c \in Column
    BY <1>2, <1>5 DEF IsFloating, Maybe
  <2>2. Inv(child) /\ child.activeChild[c] = w
    BY <2>1, SetActiveChildKeeps
  <2>3. DOMAIN child = Fields /\ DOMAIN child.activeColumn = Workspace /\ DOMAIN child.focusMode = Workspace
    BY <2>2 DEF Inv, TreeType
  <2> HIDE DEF child
  <2>4. tiled.activeColumn[s] = c /\ tiled.focusMode[s] = "tiling" /\ tiled.activeChild[c] = w
    BY <2>2, <2>3 DEF Fields
  <2> HIDE DEF tiled, chosen, c
  <2> QED
    BY <2>1, <2>4 DEF ActiveWindow, ActiveTiling
<1> HIDE DEF chosen, r
<1>6. ActiveWindow(r, s) = ActiveWindow(chosen, s)
  BY <1>3, PathSame DEF PathFields
<1> QED
  BY <1>1, <1>4, <1>5, <1>6

\* root_set_focused_window gives the window the focus.
LEMMA FocusedWindowIsSet ==
  ASSUME NEW t, Inv(t), NEW w \in Window, t.workspace[w] # None
  PROVE  Focus(SetFocusedWindow(t, w)) = w /\ SetFocusedWindow(t, w).focused = t.focused
<1> DEFINE s == t.workspace[w]
           bare == [t EXCEPT !.overlay = None]
           there == SetActiveWorkspace(bare, s)
           r == SetActiveWindow(there, s, w)
<1>1. SetFocusedWindow(t, w) = r
  BY DEF SetFocusedWindow
<1>2. s \in Workspace /\ s \in t.workspaces
  BY WindowHome
<1>3. Inv(bare) /\ Same(t, bare, {"overlay"})
  BY OverlayKeeps DEF Maybe
<1>4. bare.overlay = None
  BY DEF Inv, TreeType, Fields
<1> HIDE DEF bare
<1>5. bare.workspaces = t.workspaces /\ bare.workspace = t.workspace
  BY <1>3 DEF Same, Fields
<1>6. /\ Inv(there) /\ Same(bare, there, {"activeWorkspace", "workspaces", "activeOutput", "dirty"})
      /\ there.activeWorkspace = s
  BY <1>2, <1>3, <1>5, SetActiveWorkspaceKeeps
<1> HIDE DEF there
<1>7. there.workspace = t.workspace /\ there.overlay = None
  BY <1>4, <1>5, <1>6 DEF Same, Fields
<1>8. Inv(r) /\ Same(there, r, FocusFields)
  BY <1>2, <1>6, <1>7, SetActiveWindowKeeps DEF Maybe
<1>9. ActiveWindow(r, s) = w
  BY <1>2, <1>6, <1>7, ActiveWindowIsSet
<1> HIDE DEF r
<1>10. r.overlay = None /\ r.activeWorkspace = s
  BY <1>6, <1>7, <1>8 DEF Same, Fields, FocusFields, ActiveFields
<1>11. r.focused = t.focused
  BY <1>3, <1>6, <1>8 DEF Same, Fields, FocusFields, ActiveFields
<1> QED
  BY <1>1, <1>9, <1>10, <1>11 DEF Focus, FocusedWindow

\* The parts of cmd_move_in_direction for a tiling window
TilingMoved(t, w, d) == IF d \in {"up", "down"} THEN MoveInColumn(t, w, d) ELSE MoveAcross(t, w, d)
TilingCleaned(t, w, d) ==
  Mark(ColumnConsiderDestroy(TilingMoved(t, w, d), t.column[w]),
       {t.workspace[w], TilingMoved(t, w, d).workspace[w]})

LEMMA TilingMovedGood ==
  ASSUME NEW t, Good(t), HasUnused(t), NEW w \in Window, NEW d, IsTiling(t, w), w \notin t.fullscreen
  PROVE  /\ Good(TilingMoved(t, w, d)) /\ Good(TilingCleaned(t, w, d))
         /\ TilingCleaned(t, w, d).workspace[w] # None
<1> DEFINE b == t.column[w]
           s == t.workspace[w]
           moved == TilingMoved(t, w, d)
           nodes == {s, moved.workspace[w]}
           left == ColumnConsiderDestroy(moved, b)
<1>1. b # None
  BY DEF IsTiling
<1>2. Inv(t) /\ b \in Column
  BY <1>1 DEF Good, Inv, TreeType, Maybe
<1>3. s # None /\ s \in Workspace /\ b \in ToSet(t.columns[s])
  BY <1>2, ChildHome
<1>4. Moves(t, moved)
  BY <1>1, <1>2, MoveInColumnKeeps, MoveAcrossKeeps DEF TilingMoved
<1>5. TilingCleaned(t, w, d) = Mark(left, nodes)
  BY DEF TilingCleaned
<1> HIDE DEF moved, b
<1>6. Good(moved)
  BY <1>4, GoodMoves
<1>7. b \in ToSet(moved.columns[s]) /\ moved.workspace[w] # None
  BY <1>3, <1>4 DEF Moves, Stays
<1>8. nodes \subseteq Node
  <2>1. moved.workspace[w] \in Workspace
    BY <1>4, <1>7, WindowHome DEF Moves
  <2> QED
    BY <1>3, <2>1 DEF Node
<1>9. Good(left) /\ left.workspace = moved.workspace
  <2>1. left = Cleaned(moved, b)
    BY <1>1 DEF Cleaned
  <2>2. Good(Cleaned(moved, b)) /\ Cleaned(moved, b).workspace = moved.workspace
    BY <1>3, <1>6, <1>7, GoodCleaned
  <2> QED
    BY <2>1, <2>2
<1> HIDE DEF nodes, left
<1>10. Good(Mark(left, nodes))
  BY <1>8, <1>9, GoodMark
<1>11. Mark(left, nodes).workspace = left.workspace
  <2>1. DOMAIN left = Fields
    BY <1>9 DEF Good, Inv, TreeType
  <2>2. Same(left, Mark(left, nodes), {"dirty"})
    BY <2>1, MarkEffect
  <2> QED
    BY <2>2 DEF Same, Fields
<1> QED
  BY <1>5, <1>6, <1>7, <1>9, <1>10, <1>11 DEF moved

\* The focus is only moved to and from windows that have it, and announced at once
\* (assertion of root.c line 127): not by touch, nor by a command that a button runs on
\* the window under the pointer.
FocusMovesAloud == Inputs \cap {"touch", "mouse binding"} = {}

LEMMA CmdMoveTilingFocus ==
  ASSUME FocusMovesAloud, Good(tree), HasUnused(tree), Good(tree'), ~tree.crashed, FocusIsCommitted,
         NEW w \in Window, NEW d \in Direction, CmdMoveTiling(w, d)
  PROVE  FocusIsCommitted'
<1> DEFINE moved == TilingMoved(tree, w, d)
           left == ColumnConsiderDestroy(moved, tree.column[w])
           nodes == {tree.workspace[w], moved.workspace[w]}
           cleaned == TilingCleaned(tree, w, d)
           crash == [tree EXCEPT !.crashed = TRUE]
<1>1. /\ IsTiling(tree, w) /\ w \notin tree.fullscreen
      /\ Become(IF moved.crashed THEN moved ELSE SetFocusedWindow(cleaned, w))
  BY DEF CmdMoveTiling, TilingMoved, TilingCleaned
<1>2. TreeType(tree') /\ DOMAIN tree = Fields
  BY DEF Good, Inv, TreeType
<1>3. w = FocusedWindow(tree) /\ w # None
  BY NodesAssumption DEF CmdMoveTiling, CommandWindow, FocusMovesAloud
<1>4. tree.focused = w
  BY <1>3 DEF FocusIsCommitted, Focus, FocusedWindow
<1>5. /\ Good(cleaned) /\ cleaned.workspace[w] # None
  BY <1>1, TilingMovedGood
<1>6. cleaned = Mark(left, nodes)
  BY DEF TilingCleaned
<1>7. Places(tree, moved) \/ moved = crash
  BY TilingMovePlaces DEF TilingMoved
<1>8. Same(tree, crash, {"crashed"})
  BY <1>2 DEF Same, Fields
<1> HIDE DEF moved, nodes
<1>9. Places(moved, left) /\ Places(left, Mark(left, nodes))
  BY CleanedPlaces, ReconcilePlaces
<1> HIDE DEF left, cleaned, crash
<1>10. moved.focused = w /\ DOMAIN moved = Fields
  BY <1>2, <1>4, <1>7, <1>8 DEF Places, Same, Fields, PlaceFields
<1>11. cleaned.focused = w
  <2>1. Places(moved, cleaned)
    BY <1>6, <1>9, PlacesOn
  <2> QED
    BY <1>10, <2>1 DEF Places, Same, Fields, PlaceFields
<1>12. CASE moved.crashed
  <2>1. Become(moved)
    BY <1>1, <1>12
  <2>2. CASE moved = crash
    BY <1>2, <1>8, <2>1, <2>2, LeavesFocus DEF PathFields
  <2>3. CASE Places(tree, moved)
    <3>1. tree.crashed
      BY <1>2, <1>12, <2>3 DEF Places, Same, Fields, PlaceFields
    <3> QED
      BY <3>1
  <2> QED
    BY <1>7, <2>2, <2>3
<1>13. CASE ~moved.crashed
  <2> DEFINE r == SetFocusedWindow(cleaned, w)
  <2>1. Become(r)
    BY <1>1, <1>13
  <2>2. Focus(r) = w /\ r.focused = w
    BY <1>5, <1>11, FocusedWindowIsSet DEF Good
  <2> HIDE DEF r
  <2> QED
    BY <1>2, <2>1, <2>2, BecomeFocus DEF FocusIsCommitted
<1> QED
  BY <1>12, <1>13

LEMMA CmdFloatingFocus ==
  ASSUME FocusMovesAloud, Good(tree), HasUnused(tree), Good(tree'), FocusIsCommitted,
         NEW w \in Window, NEW enable \in BOOLEAN, CmdFloating(w, enable)
  PROVE  FocusIsCommitted'
<1> DEFINE s == tree.workspace[w]
           moved == IF enable THEN Float(tree, w) ELSE Unfloat(tree, w)
           r == SetActiveWindow(moved, s, w)
           marked == Mark(r, {s})
<1>1. TreeType(tree') /\ DOMAIN tree = Fields
  BY DEF Good, Inv, TreeType
<1>2. w = FocusedWindow(tree) /\ w # None
  BY NodesAssumption DEF CmdFloating, CommandWindow, FocusMovesAloud
<1>3. tree.focused = w /\ tree.overlay = None /\ w = ActiveWindow(tree, tree.activeWorkspace)
  BY <1>2 DEF FocusIsCommitted, Focus, FocusedWindow
<1>4. s = tree.activeWorkspace /\ s \in Workspace /\ s # None
  BY <1>2, FocusType, NodesAssumption DEF Good, Inv, TreeType
<1>5. Become(marked)
  BY <1>3, <1>4 DEF CmdFloating
<1>6. Good(moved) /\ moved.workspace[w] = s
  BY <1>4, FloatGood, UnfloatGood
<1>7. Places(tree, moved)
  BY MovePlaces
<1> HIDE DEF moved, s
<1>8. ActiveWindow(r, s) = w /\ Same(moved, r, FocusFields)
  BY <1>4, <1>6, ActiveWindowIsSet, SetActiveWindowKeeps DEF Good, Maybe
<1> HIDE DEF r
<1>9. Same(r, marked, {"dirty"})
  BY <1>8, MarkEffect DEF Same
<1> HIDE DEF marked
<1>10. marked.overlay = None /\ marked.activeWorkspace = s /\ marked.focused = w
  BY <1>1, <1>3, <1>4, <1>7, <1>8, <1>9
  DEF Places, Same, Fields, PlaceFields, FocusFields, ActiveFields
<1>11. ActiveWindow(marked, s) = w
  BY <1>8, <1>9, PathSame DEF PathFields
<1>12. Focus(marked) = w
  BY <1>10, <1>11 DEF Focus, FocusedWindow
<1> QED
  BY <1>1, <1>5, <1>10, <1>12, BecomeFocus DEF FocusIsCommitted

\* Requests and commands that make a window fullscreen, or no longer, change little else.
LEMMA FullscreenSteps ==
  ASSUME Good(tree), NEW w \in Window,
         \/ \E full \in BOOLEAN, o \in Output : RequestFullscreen(w, full, o)
         \/ \E enable \in BOOLEAN : CmdFullscreen(w, enable)
         \/ \E d \in Direction : CmdMoveFullscreen(w, d)
  PROVE  \E r : Become(r) /\ Same(tree, r, FullscreenFields)
<1> DEFINE Filled(o) == FullscreenOn(tree, w, o)
           emptied == Unfullscreen(tree, w)
<1>1. tree.workspace[w] # None
  BY AliveHome, CommandHome DEF RequestFullscreen, CmdFullscreen, CmdMoveFullscreen
<1>2. Inv(tree)
  BY DEF Good
<1>3. PICK r : /\ r = emptied \/ \E o \in Outputs(tree) : r = Filled(o)
               /\ Become(r) \/ Become(Mark(r, {w}))
  <2>1. tree.output[w] \in Outputs(tree)
    BY <1>1, <1>2, WindowShown
  <2>2. ASSUME NEW full \in BOOLEAN, NEW o \in Output, RequestFullscreen(w, full, o)
        PROVE  Become(Mark(IF full THEN Filled(o) ELSE emptied, {w})) /\ o \in Outputs(tree)
    BY <2>2 DEF RequestFullscreen
  <2>3. ASSUME NEW enable \in BOOLEAN, CmdFullscreen(w, enable)
        PROVE  Become(IF enable THEN Filled(tree.output[w]) ELSE emptied)
    BY <2>3 DEF CmdFullscreen
  <2>4. ASSUME NEW d \in Direction, CmdMoveFullscreen(w, d)
        PROVE  \E o \in Outputs(tree) : Become(Filled(o))
    BY <1>2, <2>4, NextOutput DEF CmdMoveFullscreen
  <2> HIDE DEF Filled, emptied
  <2> QED
    BY <2>1, <2>2, <2>3, <2>4
<1>4. Same(tree, r, FullscreenFields)
  BY <1>1, <1>2, <1>3, FullscreenOnKeeps, UnfullscreenKeeps
<1>5. Same(tree, Mark(r, {w}), FullscreenFields)
  BY <1>4, MarkEffect DEF Same, FullscreenFields
<1> QED
  BY <1>3, <1>4, <1>5

\* They leave the focus alone.
LEMMA FullscreenFocus ==
  ASSUME Good(tree), Good(tree'), FocusIsCommitted, NEW w \in Window,
         \/ \E full \in BOOLEAN, o \in Output : RequestFullscreen(w, full, o)
         \/ \E enable \in BOOLEAN : CmdFullscreen(w, enable)
         \/ \E d \in Direction : CmdMoveFullscreen(w, d)
  PROVE  FocusIsCommitted'
<1>1. PICK r : Become(r) /\ Same(tree, r, FullscreenFields)
  BY FullscreenSteps
<1>2. TreeType(tree')
  BY DEF Good, Inv
<1>3. FullscreenFields \cap (PathFields \cup {"focused"}) = {}
  BY DEF FullscreenFields, PathFields
<1> QED
  BY <1>1, <1>2, <1>3, LeavesFocus

\* New outputs, moves of floating windows and transactions do not touch the focus.
LEMMA QuietFocus ==
  ASSUME Good(tree), Good(tree'), FocusIsCommitted,
         \/ \E o \in Output : NewOutput(o)
         \/ \E w \in Window, o \in Output : CmdMoveFloating(w, o)
         \/ Arrange
  PROVE  FocusIsCommitted'
<1>1. TreeType(tree') /\ DOMAIN tree = Fields /\ Inv(tree)
  BY DEF Good, Inv, TreeType
<1>2. ASSUME NEW o \in Output, NewOutput(o) PROVE FocusIsCommitted'
  <2> DEFINE r == Mark([tree EXCEPT !.outputs = Append(@, o),
                                    !.activeOutput = IF @ = None THEN o ELSE @], {Root})
  <2>1. Become(r)
    BY <1>2 DEF NewOutput
  <2>2. Same(tree, r, {"outputs", "activeOutput", "dirty"})
    BY <1>1 DEF Mark, Same, Fields
  <2> HIDE DEF r
  <2> QED
    BY <1>1, <2>1, <2>2, LeavesFocus DEF PathFields
<1>3. ASSUME NEW w \in Window, NEW o \in Output, CmdMoveFloating(w, o) PROVE FocusIsCommitted'
  <2> DEFINE r == Mark([tree EXCEPT !.history[w] = <<o>>], {w})
  <2>1. Become(r)
    BY <1>3 DEF CmdMoveFloating
  <2>2. Same(tree, r, {"history", "dirty"})
    BY <1>1 DEF Mark, Same, Fields
  <2> HIDE DEF r
  <2> QED
    BY <1>1, <2>1, <2>2, LeavesFocus DEF PathFields
<1>4. ASSUME Arrange PROVE FocusIsCommitted'
  <2> DEFINE r == [Arranged(tree) EXCEPT !.dirty = {}]
  <2>1. Become(r)
    BY <1>4 DEF Arrange
  <2>2. Same(tree, r, Copies)
    BY <1>1, ArrangedKeeps
  <2> HIDE DEF r
  <2> QED
    BY <1>1, <2>1, <2>2, LeavesFocus DEF PathFields, Copies
<1> QED
  BY <1>2, <1>3, <1>4

\* The other callbacks and commands end with root_commit_focus.
Commits == \E t : Become(CommitFocus(t))

LEMMA EventsCommit ==
  /\ \A w \in Window, floats \in BOOLEAN, full \in BOOLEAN, o \in Output : Map(w, floats, full, o) => Commits
  /\ \A w \in Window : Unmap(w) \/ FocusWindow(w) => Commits
  /\ FocusLayer \/ LayerUnmapped \/ FocusUnmanaged \/ ClickWorkspace => Commits
  /\ \A o \in Output : HoverOutput(o) => Commits
<1>1. ASSUME NEW w \in Window, NEW floats \in BOOLEAN, NEW full \in BOOLEAN, NEW o \in Output,
             Map(w, floats, full, o)
      PROVE  Commits
  BY <1>1, Zenon DEF Map, Commits
<1>2. ASSUME NEW w \in Window, Unmap(w) PROVE Commits
  BY <1>2, Zenon DEF Unmap, Commits
<1>3. ASSUME NEW w \in Window, FocusWindow(w) PROVE Commits
  BY <1>3, Zenon DEF FocusWindow, Commits
<1>4. FocusLayer => Commits
  BY Zenon DEF FocusLayer, Commits
<1>5. LayerUnmapped => Commits
  BY Zenon DEF LayerUnmapped, Commits
<1>6. FocusUnmanaged => Commits
  BY Zenon DEF FocusUnmanaged, Commits
<1>7. ClickWorkspace => Commits
  BY Zenon DEF ClickWorkspace, Commits
<1>8. ASSUME NEW o \in Output, HoverOutput(o) PROVE Commits
  BY <1>8, Zenon DEF HoverOutput, Commits
<1> QED
  BY <1>1, <1>2, <1>3, <1>4, <1>5, <1>6, <1>7, <1>8

LEMMA CommandsCommit ==
  /\ \A s \in Workspace : CmdWorkspace(s) => Commits
  /\ \A w \in Window, s \in Workspace : CmdMoveToWorkspace(w, s) => Commits
  /\ \A floating \in BOOLEAN : CmdFocusMode(floating) => Commits
  /\ \A d \in Direction : CmdFocus(d) \/ CmdFocusOutput(d) => Commits
<1>1. ASSUME NEW s \in Workspace, CmdWorkspace(s) PROVE Commits
  BY <1>1, Zenon DEF CmdWorkspace, Commits
<1>2. ASSUME NEW w \in Window, NEW s \in Workspace, CmdMoveToWorkspace(w, s) PROVE Commits
  BY <1>2, Zenon DEF CmdMoveToWorkspace, Commits
<1>3. ASSUME NEW floating \in BOOLEAN, CmdFocusMode(floating) PROVE Commits
  BY <1>3, Zenon DEF CmdFocusMode, Commits
<1>4. ASSUME NEW d \in Direction, CmdFocus(d) PROVE Commits
  BY <1>4, Zenon DEF CmdFocus, Commits
<1>5. ASSUME NEW d \in Direction, CmdFocusOutput(d) PROVE Commits
  BY <1>5, Zenon DEF CmdFocusOutput, Commits
<1> QED
  BY <1>1, <1>2, <1>3, <1>4, <1>5

LEMMA NextFocus ==
  FocusMovesAloud /\ TreeInv /\ FocusIsCommitted /\ [Next]_tree => FocusIsCommitted'
<1> SUFFICES ASSUME FocusMovesAloud, Good(tree), FocusIsCommitted, [Next]_tree
             PROVE  FocusIsCommitted'
  BY DEF TreeInv
<1>1. Good(tree')
  BY NextGood
<1>2. CASE UNCHANGED tree
  BY <1>2 DEF FocusIsCommitted, Focus, FocusedWindow, ActiveWindow, ActiveTiling, ActiveFloating
<1>3. CASE Next
  <2>1. ~tree.crashed /\ (ColumnLeft => HasUnused(tree))
    BY <1>3 DEF Next, ColumnLeft, HasUnused
  <2>2. Commits => FocusIsCommitted'
    BY <1>1, CommitsFocus DEF Commits, Good, Inv
  <2>3. CASE ClientStep
    BY <1>1, <2>2, <2>3, EventsCommit, FullscreenFocus DEF ClientStep
  <2>4. CASE InputStep
    <3>1. \A w \in Window : ~TouchDown(w)
      BY DEF TouchDown, FocusMovesAloud
    <3> QED
      BY <2>2, <2>4, <3>1, EventsCommit DEF InputStep
  <2>5. CASE ColumnLeft /\ CommandStep
    <3>1. \A w \in Window, d \in Direction : CmdMoveTiling(w, d) => FocusIsCommitted'
      BY <1>1, <2>1, <2>5, CmdMoveTilingFocus
    <3>2. \A w \in Window, enable \in BOOLEAN : CmdFloating(w, enable) => FocusIsCommitted'
      BY <1>1, <2>1, <2>5, CmdFloatingFocus
    <3> QED
      BY <1>1, <2>2, <2>5, <3>1, <3>2, CommandsCommit, FullscreenFocus, QuietFocus DEF CommandStep
  <2>6. CASE Arrange \/ \E o \in Output : NewOutput(o)
    BY <1>1, <2>6, QuietFocus
  <2> QED
    BY <1>3, <2>3, <2>4, <2>5, <2>6 DEF Next
<1> QED
  BY <1>2, <1>3

\* Whenever the event loop waits, and so whenever a transaction may start, the focus that
\* was announced is the one the tree implies, the assertion of root.c line 127, unless the
\* program is used by touch or runs commands with a button on other windows than the focused.
THEOREM FocusAlwaysCommitted == FocusMovesAloud => (Spec => []FocusIsCommitted)
<1> SUFFICES ASSUME FocusMovesAloud PROVE Spec => []FocusIsCommitted
  OBVIOUS
<1>1. Init => TreeInv
  BY InitGood DEF TreeInv
<1>2. TreeInv /\ [Next]_tree => TreeInv'
  BY NextGood DEF TreeInv
<1>3. ASSUME Init PROVE FocusIsCommitted
  <2>1. /\ tree.activeWorkspace = FirstWorkspace /\ tree.overlay = None /\ tree.focused = None
        /\ tree.focusMode = [s \in Workspace |-> "tiling"]
        /\ tree.activeColumn = [s \in Workspace |-> None]
    BY <1>3 DEF Init
  <2>2. tree.focusMode[FirstWorkspace] = "tiling" /\ tree.activeColumn[FirstWorkspace] = None
    BY <2>1, NodesAssumption
  <2> QED
    BY <2>1, <2>2 DEF FocusIsCommitted, Focus, FocusedWindow, ActiveWindow, ActiveTiling
<1>4. TreeInv /\ FocusIsCommitted /\ [Next]_tree => FocusIsCommitted'
  BY NextFocus
<1> QED
  BY <1>1, <1>2, <1>3, <1>4, PTL DEF Spec

-----------------------------------------------------------------------------
(* Which steps may change who is alive and who is fullscreen.               *)

Steady(t, r) ==
  /\ DOMAIN r = Fields /\ r.status = t.status
  /\ r.fullscreen = t.fullscreen /\ r.fullscreenWindows = t.fullscreenWindows

LEMMA TurnsSteady ==
  ASSUME NEW t, DOMAIN t = Fields, NEW r, Turns(t, r)
  PROVE  Steady(t, r)
BY DEF Turns, Same, Fields, TurnFields, PlaceFields, Steady

LEMMA SteadyOn ==
  ASSUME NEW t, NEW r, Steady(t, r)
  PROVE  /\ \A q : Turns(r, q) => Steady(t, q)
         /\ \A nodes : Steady(t, Mark(r, nodes))
         /\ Steady(t, CommitFocus(r))
<1>1. \A q : Turns(r, q) => Steady(t, q)
  BY TurnsSteady DEF Steady
<1>2. \A nodes : Steady(t, Mark(r, nodes))
  BY DEF Steady, Mark, Fields
<1>3. Steady(t, CommitFocus(r))
  BY DEF Steady, CommitFocus, Mark, Fields
<1> QED
  BY <1>1, <1>2, <1>3

SteadyStep == \E t : Become(t) /\ Steady(tree, t)

LEMMA SteadyEvents ==
  ASSUME DOMAIN tree = Fields
  PROVE  /\ \A w \in Window : FocusWindow(w) \/ TouchDown(w) => SteadyStep
         /\ FocusLayer \/ LayerUnmapped \/ FocusUnmanaged \/ ClickWorkspace \/ Arrange => SteadyStep
         /\ \A o \in Output : HoverOutput(o) \/ NewOutput(o) => SteadyStep
<1>1. ASSUME NEW w \in Window, FocusWindow(w) PROVE SteadyStep
  <2> DEFINE r == SetFocusedWindow(tree, w)
  <2>1. Steady(tree, r)
    BY FocusTurns, TurnsSteady
  <2>2. Become(CommitFocus(r))
    BY <1>1 DEF FocusWindow
  <2> HIDE DEF r
  <2> QED
    BY <2>1, <2>2, SteadyOn DEF SteadyStep
<1>2. ASSUME NEW w \in Window, TouchDown(w) PROVE SteadyStep
  <2> DEFINE r == SetFocusedWindow(tree, w)
  <2>1. Steady(tree, r)
    BY FocusTurns, TurnsSteady
  <2>2. Become(r)
    BY <1>2 DEF TouchDown
  <2> HIDE DEF r
  <2> QED
    BY <2>1, <2>2 DEF SteadyStep
<1>3. ASSUME FocusLayer PROVE SteadyStep
  <2> DEFINE r == SetFocusedLayer(tree)
  <2>1. Steady(tree, r)
    BY DEF SetFocusedLayer, Steady, Fields
  <2>2. Become(CommitFocus(r))
    BY <1>3 DEF FocusLayer
  <2> HIDE DEF r
  <2> QED
    BY <2>1, <2>2, SteadyOn DEF SteadyStep
<1>4. ASSUME LayerUnmapped PROVE SteadyStep
  <2> DEFINE r == [tree EXCEPT !.overlay = None]
  <2>1. Steady(tree, r)
    BY DEF Steady, Fields
  <2>2. Become(CommitFocus(r))
    BY <1>4 DEF LayerUnmapped
  <2> HIDE DEF r
  <2> QED
    BY <2>1, <2>2, SteadyOn DEF SteadyStep
<1>5. ASSUME FocusUnmanaged PROVE SteadyStep
  <2> DEFINE r == SetFocusedSurface(tree)
  <2>1. Steady(tree, r)
    BY FocusTurns, TurnsSteady
  <2>2. Become(CommitFocus(r))
    BY <1>5 DEF FocusUnmanaged
  <2> HIDE DEF r
  <2> QED
    BY <2>1, <2>2, SteadyOn DEF SteadyStep
<1>6. ASSUME ClickWorkspace PROVE SteadyStep
  <2> DEFINE r == SetActiveWindow(tree, tree.activeWorkspace, None)
  <2>1. Steady(tree, r)
    BY FocusTurns, TurnsSteady
  <2>2. Become(CommitFocus(r))
    BY <1>6 DEF ClickWorkspace
  <2> HIDE DEF r
  <2> QED
    BY <2>1, <2>2, SteadyOn DEF SteadyStep
<1>7. ASSUME Arrange PROVE SteadyStep
  <2> DEFINE a == Arranged(tree)
             r == [a EXCEPT !.dirty = {}]
  <2>1. Same(tree, a, Copies)
    BY ArrangedCopied DEF Copied
  <2>2. Become(r)
    BY <1>7 DEF Arrange
  <2> HIDE DEF a
  <2>3. Steady(tree, r)
    BY <2>1 DEF Steady, Same, Fields, Copies
  <2> HIDE DEF r
  <2> QED
    BY <2>2, <2>3 DEF SteadyStep
<1>8. ASSUME NEW o \in Output, HoverOutput(o) PROVE SteadyStep
  <2> DEFINE r == [tree EXCEPT !.activeOutput = o]
  <2>1. Steady(tree, r)
    BY DEF Steady, Fields
  <2>2. Become(CommitFocus(r))
    BY <1>8 DEF HoverOutput
  <2> HIDE DEF r
  <2> QED
    BY <2>1, <2>2, SteadyOn DEF SteadyStep
<1>9. ASSUME NEW o \in Output, NewOutput(o) PROVE SteadyStep
  <2> DEFINE r == [tree EXCEPT !.outputs = Append(@, o), !.activeOutput = IF @ = None THEN o ELSE @]
  <2>1. Steady(tree, r)
    BY DEF Steady, Fields
  <2>2. Become(Mark(r, {Root}))
    BY <1>9 DEF NewOutput
  <2> HIDE DEF r
  <2> QED
    BY <2>1, <2>2, SteadyOn DEF SteadyStep
<1> QED
  BY <1>1, <1>2, <1>3, <1>4, <1>5, <1>6, <1>7, <1>8, <1>9

LEMMA SteadyCommands ==
  ASSUME DOMAIN tree = Fields
  PROVE  /\ \A s \in Workspace : CmdWorkspace(s) => SteadyStep
         /\ \A w \in Window, s \in Workspace : CmdMoveToWorkspace(w, s) => SteadyStep
         /\ \A w \in Window, d \in Direction : CmdMoveTiling(w, d) => SteadyStep
         /\ \A w \in Window, o \in Output : CmdMoveFloating(w, o) => SteadyStep
         /\ \A w \in Window, enable \in BOOLEAN : CmdFloating(w, enable) => SteadyStep
         /\ \A floating \in BOOLEAN : CmdFocusMode(floating) => SteadyStep
         /\ \A d \in Direction : CmdFocus(d) \/ CmdFocusOutput(d) => SteadyStep
<1>1. ASSUME NEW s \in Workspace, CmdWorkspace(s) PROVE SteadyStep
  <2> DEFINE a == CreateWorkspace(tree, s)
             r == SetActiveWorkspace(a, s)
  <2>1. Steady(tree, a)
    BY ContainersPlace, PlacesOn, TurnsSteady
  <2> HIDE DEF a
  <2>2. Steady(tree, r)
    BY <2>1, FocusTurns, SteadyOn
  <2>3. Become(CommitFocus(Mark(r, {Root})))
    BY <1>1 DEF CmdWorkspace, a
  <2> HIDE DEF r
  <2>4. Steady(tree, Mark(r, {Root}))
    BY <2>2, SteadyOn
  <2> QED
    BY <2>3, <2>4, SteadyOn DEF SteadyStep
<1>2. ASSUME NEW w \in Window, NEW s \in Workspace, CmdMoveToWorkspace(w, s) PROVE SteadyStep
  <2> DEFINE c == tree.column[w]
             old == tree.workspace[w]
             a == CreateWorkspace(tree, s)
             b == MoveToWorkspace(a, w, s)
             moved == SetActiveWindow(b, s, w)
             left == Cleaned(moved, c)
             cleaned == WorkspaceConsiderDestroy(left, old)
             nodes == {s} \cup ({old} \cap cleaned.workspaces)
  <2>1. Become(CommitFocus(Mark(cleaned, nodes)))
    BY <1>2 DEF CmdMoveToWorkspace, Cleaned
  <2>2. Steady(tree, a)
    BY ContainersPlace, PlacesOn, TurnsSteady
  <2> HIDE DEF a
  <2>3. Steady(tree, b)
    BY <2>2, MovePlaces, PlacesOn, SteadyOn
  <2> HIDE DEF b
  <2>4. Steady(tree, moved)
    BY <2>3, FocusTurns, SteadyOn
  <2> HIDE DEF moved
  <2>5. Steady(tree, left)
    BY <2>4, CleanedPlaces, PlacesOn, SteadyOn
  <2> HIDE DEF left
  <2>6. Steady(tree, cleaned)
    BY <2>5, ContainersPlace, PlacesOn, SteadyOn
  <2> HIDE DEF cleaned, nodes
  <2>7. Steady(tree, Mark(cleaned, nodes))
    BY <2>6, SteadyOn
  <2> QED
    BY <2>1, <2>7, SteadyOn DEF SteadyStep
<1>3. ASSUME NEW w \in Window, NEW d \in Direction, CmdMoveTiling(w, d) PROVE SteadyStep
  <2> DEFINE moved == TilingMoved(tree, w, d)
             left == ColumnConsiderDestroy(moved, tree.column[w])
             nodes == {tree.workspace[w], moved.workspace[w]}
             cleaned == TilingCleaned(tree, w, d)
             shown == SetFocusedWindow(cleaned, w)
             crash == [tree EXCEPT !.crashed = TRUE]
  <2>1. Become(IF moved.crashed THEN moved ELSE shown)
    BY <1>3 DEF CmdMoveTiling, TilingMoved, TilingCleaned
  <2>2. cleaned = Mark(left, nodes)
    BY DEF TilingCleaned
  <2>3. Steady(tree, crash)
    BY DEF Steady, Fields
  <2>4. Steady(tree, moved)
    <3>1. Places(tree, moved) \/ moved = crash
      BY TilingMovePlaces DEF TilingMoved
    <3> HIDE DEF moved, crash
    <3> QED
      BY <2>3, <3>1, PlacesOn, TurnsSteady
  <2> HIDE DEF moved, nodes
  <2>5. Steady(tree, left)
    BY <2>4, CleanedPlaces, PlacesOn, SteadyOn
  <2> HIDE DEF left, cleaned
  <2>6. Steady(tree, cleaned)
    BY <2>2, <2>5, SteadyOn
  <2>7. Steady(tree, shown)
    BY <2>6, FocusTurns, SteadyOn
  <2> HIDE DEF shown
  <2> QED
    BY <2>1, <2>4, <2>7 DEF SteadyStep
<1>4. ASSUME NEW w \in Window, NEW o \in Output, CmdMoveFloating(w, o) PROVE SteadyStep
  <2> DEFINE r == [tree EXCEPT !.history[w] = <<o>>]
  <2>1. Steady(tree, r)
    BY DEF Steady, Fields
  <2>2. Become(Mark(r, {w}))
    BY <1>4 DEF CmdMoveFloating
  <2> HIDE DEF r
  <2> QED
    BY <2>1, <2>2, SteadyOn DEF SteadyStep
<1>5. ASSUME NEW w \in Window, NEW enable \in BOOLEAN, CmdFloating(w, enable) PROVE SteadyStep
  <2> DEFINE s == tree.workspace[w]
             moved == IF enable THEN Float(tree, w) ELSE Unfloat(tree, w)
             active == SetActiveWindow(moved, s, w)
             r == IF ActiveWindow(tree, s) = w THEN active ELSE moved
  <2>1. Become(Mark(r, {s}))
    BY <1>5 DEF CmdFloating
  <2>2. Steady(tree, moved)
    BY MovePlaces, PlacesOn, TurnsSteady
  <2> HIDE DEF moved, s
  <2>3. Steady(tree, active)
    BY <2>2, FocusTurns, SteadyOn
  <2> HIDE DEF active
  <2>4. Steady(tree, r)
    BY <2>2, <2>3
  <2> HIDE DEF r
  <2> QED
    BY <2>1, <2>4, SteadyOn DEF SteadyStep
<1>6. ASSUME NEW floating \in BOOLEAN, CmdFocusMode(floating) PROVE SteadyStep
  <2> DEFINE s == tree.activeWorkspace
             w == IF floating THEN ActiveFloating(tree, s) ELSE ActiveTiling(tree, s)
             r == SetActiveWindow(tree, s, w)
  <2>1. Become(CommitFocus(r))
    BY <1>6 DEF CmdFocusMode
  <2> HIDE DEF w, s
  <2>2. Steady(tree, r)
    BY FocusTurns, TurnsSteady
  <2> HIDE DEF r
  <2> QED
    BY <2>1, <2>2, SteadyOn DEF SteadyStep
<1>7. ASSUME NEW d \in Direction, CmdFocus(d) PROVE SteadyStep
  <2>1. PICK next : Become(CommitFocus(SetFocusedWindow(tree, next)))
    BY <1>7, Zenon DEF CmdFocus
  <2> DEFINE r == SetFocusedWindow(tree, next)
  <2>2. Steady(tree, r)
    BY FocusTurns, TurnsSteady
  <2> HIDE DEF r
  <2> QED
    BY <2>1, <2>2, SteadyOn DEF SteadyStep, r
<1>8. ASSUME NEW d \in Direction, CmdFocusOutput(d) PROVE SteadyStep
  <2> DEFINE o == OutputInDirection(tree, tree.activeOutput, d)
             w == WindowOnOutput(tree, o, d)
             shown == SetFocusedWindow(tree, w)
             none == SetActiveWindow(tree, tree.activeWorkspace, None)
             beside == [none EXCEPT !.activeOutput = o]
             r == IF w # None THEN shown ELSE beside
  <2>1. Become(CommitFocus(r))
    BY <1>8 DEF CmdFocusOutput
  <2> HIDE DEF w, o
  <2>2. Steady(tree, shown) /\ Steady(tree, none)
    BY FocusTurns, TurnsSteady
  <2> HIDE DEF shown, none
  <2>3. Steady(tree, beside)
    BY <2>2 DEF Steady, Fields
  <2> HIDE DEF beside
  <2>4. Steady(tree, r)
    BY <2>2, <2>3
  <2> HIDE DEF r
  <2> QED
    BY <2>1, <2>4, SteadyOn DEF SteadyStep
<1> QED
  BY <1>1, <1>2, <1>3, <1>4, <1>5, <1>6, <1>7, <1>8

\* Placing a window that was created
LEMMA PlacedSteady ==
  ASSUME DOMAIN tree = Fields, NEW w, NEW floats, NEW o
  PROVE  Steady(Created(tree, w), Placed(tree, w, floats, o))
<1> DEFINE s == tree.activeWorkspace
           x == ActiveTiling(tree, s)
           a == Created(tree, w)
           b == InsertFirst(a, s, o)
           afloat == AddFloating(a, s, w)
           beside == AddSibling(a, x, w, TRUE)
           alone == AddChild(b, NewColumn(a), w)
           placed == IF floats THEN afloat ELSE IF x # None THEN beside ELSE alone
<1>1. Placed(tree, w, floats, o) = placed
  BY DEF Placed
<1>2. DOMAIN a = Fields
  BY DEF Created, Mark
<1>3. Places(a, b) /\ Places(a, afloat) /\ Places(a, beside) /\ Places(b, alone)
  BY ContainersPlace, AddFloatingPlaces, ChildrenPlaces
<1> HIDE DEF a, b, afloat, beside, alone, x
<1>4. Places(a, placed)
  BY <1>3, PlacesOn
<1> HIDE DEF placed
<1> QED
  BY <1>1, <1>2, <1>4, PlacesOn, TurnsSteady DEF a

-----------------------------------------------------------------------------
(* A window that goes away takes the focus with it only if it had it.       *)

LEMMA LastStays ==
  ASSUME NEW S, NEW s \in Seq(S), NEW e \in ToSet(s), Last(s) # e
  PROVE  RemoveFirst(s, e) # << >> /\ Last(RemoveFirst(s, e)) = Last(s)
<1> DEFINE i == IndexIn(s, e)
           rest == RemoveFirst(s, e)
<1>1. i \in 1..Len(s) /\ s[i] = e /\ Len(s) \in Nat
  BY IndexFound
<1>2. rest = RemoveAt(s, i)
  BY DEF RemoveFirst, ToSet, IndexIn
<1>3. Last(s) = s[Len(s)]
  BY DEF Last
<1> HIDE DEF i
<1>4. i < Len(s) /\ Len(s) - 1 \in 1..(Len(s) - 1)
  BY <1>1, <1>3
<1>5. /\ rest \in Seq(S) /\ Len(rest) = Len(s) - 1
      /\ \A j \in 1..Len(rest) : rest[j] = IF j < i THEN s[j] ELSE s[j + 1]
  <2> HIDE DEF rest
  <2>1. i \in 1..Len(s)
    BY <1>1
  <2>2. LET t == RemoveAt(s, i)
        IN  /\ t \in Seq(S) /\ Len(t) = Len(s) - 1
            /\ \A j \in 1..Len(t) : t[j] = IF j < i THEN s[j] ELSE s[j + 1]
    BY <2>1, RemoveAtElements
  <2> QED
    BY <1>2, <2>2
<1> HIDE DEF rest
<1>6. Last(rest) = rest[Len(s) - 1] /\ rest # << >>
  BY <1>4, <1>5 DEF Last
<1>7. rest[Len(s) - 1] = s[Len(s)]
  BY <1>1, <1>4, <1>5
<1> QED
  BY <1>3, <1>6, <1>7 DEF rest

\* What removing a window makes of the fields that the active window is read from
LEMMA RemoveChildPath ==
  ASSUME NEW t, DOMAIN t = Fields, DOMAIN t.activeChild = Column, NEW c, NEW w
  PROVE  LET r == RemoveChild(t, c, w)
         IN  /\ r.activeColumn = t.activeColumn /\ r.focusMode = t.focusMode /\ r.floating = t.floating
             /\ \A e \in Column : t.activeChild[e] # w => r.activeChild[e] = t.activeChild[e]
<1> DEFINE i == IndexIn(t.children[c], w)
           rest == RemoveFirst(t.children[c], w)
           next == IF rest = << >> THEN None ELSE rest[IF i > 1 THEN i - 1 ELSE 1]
           unlisted == [t EXCEPT !.children[c] = rest, !.activeChild[c] = IF @ = w THEN next ELSE @]
           chosen == IF t.activeChild[c] = w /\ next # None
                       THEN ReconcileTiling(unlisted, next, c) ELSE unlisted
           r == Mark(ReconcileDetached(chosen, w), {c})
<1>1. RemoveChild(t, c, w) = r
  BY DEF RemoveChild
<1> HIDE DEF next, rest
<1>2. /\ Same(t, unlisted, {"children", "activeChild"})
      /\ unlisted.activeChild = Put(t.activeChild, c, IF t.activeChild[c] = w THEN next ELSE t.activeChild[c])
  BY DEF Same, Fields, Put
<1> HIDE DEF unlisted
<1>3. Same(unlisted, chosen, {"workspace", "column", "history", "output", "dirty"})
  BY <1>2 DEF ReconcileTiling, Same, Fields
<1> HIDE DEF chosen
<1>4. Same(chosen, r, {"workspace", "column", "dirty"})
  BY <1>3 DEF Mark, ReconcileDetached, Same, Fields
<1> HIDE DEF r
<1>5. /\ r.activeColumn = t.activeColumn /\ r.focusMode = t.focusMode /\ r.floating = t.floating
      /\ r.activeChild = unlisted.activeChild
  BY <1>2, <1>3, <1>4 DEF Same, Fields
<1>6. ASSUME NEW e \in Column, t.activeChild[e] # w PROVE r.activeChild[e] = t.activeChild[e]
  BY <1>2, <1>5, <1>6 DEF Put
<1> QED
  BY <1>1, <1>5, <1>6

LEMMA RemoveFloatingPath ==
  ASSUME NEW t, DOMAIN t = Fields, NEW s, NEW w
  PROVE  LET r == RemoveFloating(t, s, w)
             rest == RemoveFirst(t.floating[s], w)
         IN  /\ r.activeColumn = t.activeColumn /\ r.activeChild = t.activeChild
             /\ r.floating = Put(t.floating, s, rest)
             /\ r.focusMode = Put(t.focusMode, s, IF rest = << >> THEN "tiling" ELSE t.focusMode[s])
<1> DEFINE rest == RemoveFirst(t.floating[s], w)
           unlisted == [t EXCEPT !.floating[s] = rest,
                                 !.focusMode[s] = IF rest = << >> THEN "tiling" ELSE @]
           tiling == ActiveTiling(t, s)
           chosen == IF rest # << >> THEN ReconcileFloating(unlisted, Last(rest), s)
                     ELSE IF tiling # None THEN ReconcileTiling(unlisted, tiling, t.column[tiling])
                     ELSE unlisted
           marked == IF w \in t.fullscreen THEN Mark(chosen, {t.output[w]}) ELSE chosen
           r == ReconcileDetached(marked, w)
<1>1. RemoveFloating(t, s, w) = r
  BY DEF RemoveFloating
<1> HIDE DEF rest, tiling
<1>2. /\ Same(t, unlisted, {"floating", "focusMode"})
      /\ unlisted.floating = Put(t.floating, s, rest)
      /\ unlisted.focusMode = Put(t.focusMode, s, IF rest = << >> THEN "tiling" ELSE t.focusMode[s])
  BY DEF Same, Fields, Put
<1> HIDE DEF unlisted
<1>3. Same(unlisted, chosen, {"workspace", "column", "history", "output", "dirty"})
  BY <1>2 DEF ReconcileTiling, ReconcileFloating, Same, Fields
<1> HIDE DEF chosen
<1>4. Same(chosen, marked, {"dirty"})
  BY <1>3 DEF Mark, Same, Fields
<1> HIDE DEF marked
<1>5. Same(marked, r, {"workspace", "column", "dirty"})
  BY <1>4 DEF ReconcileDetached, Same, Fields
<1> HIDE DEF r
<1>6. /\ r.activeColumn = t.activeColumn /\ r.activeChild = t.activeChild
      /\ r.focusMode = unlisted.focusMode /\ r.floating = unlisted.floating
  BY <1>2, <1>3, <1>4, <1>5 DEF Same, Fields
<1> QED
  BY <1>1, <1>2, <1>6 DEF rest

\* Detaching a window changes the active window of a workspace only if it is that.
LEMMA DetachActive ==
  ASSUME NEW t, Inv(t), NEW w \in Window, NEW s \in Workspace, ActiveWindow(t, s) # w
  PROVE  ActiveWindow(Detach(t, w), s) = ActiveWindow(t, s)
<1>1. /\ DOMAIN t = Fields /\ t.activeChild \in [Column -> Maybe(Window)]
      /\ t.focusMode \in [Workspace -> {"tiling", "floating"}] /\ t.floating \in [Workspace -> Seq(Window)]
      /\ t.column \in [Window -> Maybe(Column)] /\ t.workspace \in [Window -> Maybe(Workspace)]
      /\ t.activeColumn \in [Workspace -> Maybe(Column)]
  BY DEF Inv, TreeType
<1>2. CASE IsTiling(t, w)
  <2> DEFINE c == t.column[w]
             r == RemoveChild(t, c, w)
             a == t.activeColumn[s]
  <2>1. Detach(t, w) = r
    BY <1>2 DEF Detach
  <2>2. /\ r.activeColumn = t.activeColumn /\ r.focusMode = t.focusMode /\ r.floating = t.floating
        /\ \A e \in Column : t.activeChild[e] # w => r.activeChild[e] = t.activeChild[e]
    <3> HIDE DEF c
    <3> QED
      BY <1>1, RemoveChildPath
  <2> HIDE DEF r
  <2>3. ActiveFloating(r, s) = ActiveFloating(t, s)
    BY <2>2 DEF ActiveFloating
  <2>4. ASSUME t.focusMode[s] = "tiling" PROVE ActiveTiling(r, s) = ActiveTiling(t, s)
    <3>1. CASE a = None
      BY <2>2, <3>1 DEF ActiveTiling
    <3>2. CASE a # None
      <4>1. a \in Column /\ t.activeChild[a] # w
        BY <1>1, <2>4, <3>2 DEF Maybe, ActiveWindow, ActiveTiling
      <4>2. r.activeChild[a] = t.activeChild[a]
        BY <2>2, <4>1
      <4> QED
        BY <2>2, <3>2, <4>2 DEF ActiveTiling
    <3> QED
      BY <3>1, <3>2
  <2> QED
    BY <2>1, <2>2, <2>3, <2>4 DEF ActiveWindow
<1>3. CASE ~IsTiling(t, w) /\ IsFloating(t, w)
  <2> DEFINE u == t.workspace[w]
             rest == RemoveFirst(t.floating[u], w)
             r == RemoveFloating(t, u, w)
  <2>1. Detach(t, w) = r
    BY <1>3 DEF Detach
  <2>2. u \in Workspace /\ w \in ToSet(t.floating[u]) /\ t.floating[u] # << >>
    BY <1>1, <1>3, FloatingHome DEF IsFloating, Maybe
  <2>3. /\ r.activeColumn = t.activeColumn /\ r.activeChild = t.activeChild
        /\ r.floating = Put(t.floating, u, rest)
        /\ r.focusMode = Put(t.focusMode, u, IF rest = << >> THEN "tiling" ELSE t.focusMode[u])
    BY <1>1, RemoveFloatingPath
  <2> HIDE DEF r
  <2>4. ActiveTiling(r, s) = ActiveTiling(t, s)
    BY <2>3 DEF ActiveTiling
  <2>5. CASE u # s
    <3>1. r.floating[s] = t.floating[s] /\ r.focusMode[s] = t.focusMode[s]
      <4> HIDE DEF u, rest
      <4> QED
        BY <1>1, <2>2, <2>3, <2>5 DEF Put
    <3> QED
      BY <2>1, <2>4, <3>1 DEF ActiveWindow, ActiveFloating
  <2>6. CASE u = s /\ t.focusMode[s] = "tiling"
    <3>1. r.focusMode[s] = "tiling"
      <4> HIDE DEF u, rest
      <4> QED
        BY <1>1, <2>2, <2>3, <2>6 DEF Put
    <3> QED
      BY <2>1, <2>4, <2>6, <3>1 DEF ActiveWindow
  <2>7. CASE u = s /\ t.focusMode[s] # "tiling"
    <3>1. Last(t.floating[u]) # w
      BY <2>2, <2>7 DEF ActiveWindow, ActiveFloating
    <3>2. rest # << >> /\ Last(rest) = Last(t.floating[u])
      <4>1. t.floating[u] \in Seq(Window)
        BY <1>1, <2>2
      <4> QED
        BY <2>2, <3>1, <4>1, LastStays
    <3>3. r.floating[s] = rest /\ r.focusMode[s] = t.focusMode[s]
      <4> HIDE DEF u, rest
      <4> QED
        BY <1>1, <2>2, <2>3, <2>7, <3>2 DEF Put
    <3> QED
      BY <2>1, <2>2, <2>7, <3>2, <3>3 DEF ActiveWindow, ActiveFloating
  <2> QED
    BY <2>5, <2>6, <2>7
<1>4. CASE ~IsTiling(t, w) /\ ~IsFloating(t, w)
  BY <1>4 DEF Detach
<1> QED
  BY <1>2, <1>3, <1>4

\* A column that is destroyed has no window, so that it is not on the path to the active one.
LEMMA CleanedActive ==
  ASSUME NEW t, Inv(t), NEW c \in Column, t.colWorkspace[c] \in Workspace, NEW s \in Workspace,
         t.children[c] = << >> => ActiveWindow(t, s) # None \/ t.activeColumn[s] # c
  PROVE  ActiveWindow(ColumnConsiderDestroy(t, c), s) = ActiveWindow(t, s)
<1> DEFINE u == t.colWorkspace[c]
           next == IF ColumnBefore(t, c) # None THEN ColumnBefore(t, c) ELSE ColumnAfter(t, c)
           unlisted == [t EXCEPT !.columns[u] = RemoveFirst(@, c),
                                 !.activeColumn[u] = IF @ = c THEN next ELSE @]
           marked == IF t.activeColumn[u] = c THEN Mark(unlisted, {next} \ {None}) ELSE unlisted
           left == WorkspaceConsiderDestroy(marked, u)
           r == Mark(left, {c, u})
<1>1. ColumnConsiderDestroy(t, c) = IF t.children[c] # << >> THEN t ELSE r
  BY DEF ColumnConsiderDestroy
<1>2. /\ DOMAIN t = Fields /\ t.activeColumn \in [Workspace -> Maybe(Column)]
      /\ t.children[c] = << >> => t.activeChild[c] = None
  BY DEF Inv, TreeType, PathInv
<1> HIDE DEF next
<1>3. /\ Same(t, unlisted, {"columns", "activeColumn"})
      /\ unlisted.activeColumn = Put(t.activeColumn, u, IF t.activeColumn[u] = c THEN next ELSE t.activeColumn[u])
  BY <1>2 DEF Same, Fields, Put
<1> HIDE DEF unlisted
<1>4. Same(unlisted, marked, {"dirty"})
  BY <1>3 DEF Mark, Same, Fields
<1> HIDE DEF marked
<1>5. Same(marked, left, {"workspaces", "dirty"})
  BY <1>4 DEF WorkspaceConsiderDestroy, Same, Fields
<1> HIDE DEF left
<1>6. Same(left, r, {"dirty"})
  BY <1>5, MarkEffect DEF Same
<1> HIDE DEF r
<1>7. /\ r.focusMode = t.focusMode /\ r.floating = t.floating /\ r.activeChild = t.activeChild
      /\ r.activeColumn = unlisted.activeColumn
  BY <1>3, <1>4, <1>5, <1>6 DEF Same, Fields
<1>8. CASE t.activeColumn[s] # c
  <2>1. r.activeColumn[s] = t.activeColumn[s]
    <3> HIDE DEF u
    <3> QED
      BY <1>2, <1>3, <1>7, <1>8 DEF Put
  <2>2. ActiveWindow(r, s) = ActiveWindow(t, s)
    BY <1>7, <2>1 DEF ActiveWindow, ActiveTiling, ActiveFloating
  <2> QED
    BY <1>1, <2>2
<1>9. CASE t.children[c] = << >> /\ t.activeColumn[s] = c
  <2>1. t.activeColumn[s] # None => ActiveTiling(t, s) = None
    BY <1>2, <1>9 DEF ActiveTiling
  <2>2. t.focusMode[s] # "tiling"
    BY <1>9, <2>1 DEF ActiveWindow, ActiveTiling
  <2>3. ActiveWindow(r, s) = ActiveWindow(t, s)
    BY <1>7, <2>2 DEF ActiveWindow, ActiveFloating
  <2> QED
    BY <1>1, <2>3
<1> QED
  BY <1>1, <1>8, <1>9

\* A living window is not forgotten.
LEMMA AliveStays ==
  ASSUME Inv(tree'), NEW t, Become(t)
  PROVE  Alive(t) \subseteq Alive(tree')
<1> DEFINE q == Settled(t)
           gone == {w \in Window : /\ q.status[w] = "dead"
                                   /\ w \notin Reached(q)
                                   /\ \A o \in Output : ~Contains(q.fullscreenWindows[o], w)}
<1>1. tree' = Forgotten(q) /\ DOMAIN t = Fields
  BY BecomeFocus DEF Become, Inv
<1>2. Same(t, q, Copies)
  BY <1>1 DEF Settled, Same, Fields, Copies
<1> HIDE DEF q
<1>3. q.status = t.status /\ DOMAIN q = Fields
  BY <1>2 DEF Same, Fields, Copies
<1>4. tree'.status = Else(gone, q.status, "absent")
  BY <1>1, <1>3 DEF Forgotten, Fields
<1>5. \A w \in gone : t.status[w] = "dead"
  BY <1>3
<1> HIDE DEF gone
<1> SUFFICES ASSUME NEW w \in Window, t.status[w] = "alive" PROVE tree'.status[w] = "alive"
  BY DEF Alive
<1>6. w \in DOMAIN q.status /\ w \notin gone
  BY <1>4, <1>5 DEF Inv, OtherType, Else
<1> QED
  BY <1>3, <1>4, <1>5, <1>6 DEF Else

\* A window of a workspace dies, and the focus stays if the window did not have it.
LEMMA UnmapFocus ==
  ASSUME Good(tree), Good(tree'), NEW w \in Window, Unmap(w)
  PROVE  /\ Alive(tree) \ Alive(tree') \subseteq {w}
         /\ FocusedWindow(tree) # w => Focus(tree') = Focus(tree) /\ tree'.focused = Focus(tree)
<1> DEFINE c == tree.column[w]
           s == tree.workspace[w]
           a == Detach(tree, w)
           left == BeginDestroy(tree, w)
           narrow == Cleaned(left, c)
           cleaned == WorkspaceConsiderDestroy(narrow, s)
           nodes == {s} \cap cleaned.workspaces
           marked == Mark(cleaned, nodes)
           active == tree.activeWorkspace
<1>1. Become(CommitFocus(marked))
  BY DEF Unmap, Cleaned
<1>2. /\ Inv(tree) /\ DOMAIN tree = Fields /\ TreeType(tree') /\ Inv(tree') /\ active \in Workspace
      /\ tree.status \in [Window -> {"absent", "alive", "dead"}]
      /\ None \notin Window
  BY NodesAssumption DEF Good, Inv, TreeType, OtherType
<1>3. /\ c # None => s \in Workspace /\ c \in ToSet(tree.columns[s]) /\ c \in Column
      /\ c # None => tree.children[c] # << >> /\ tree.activeChild[c] \in Window
  <2> SUFFICES ASSUME c # None
               PROVE  /\ s \in Workspace /\ c \in ToSet(tree.columns[s]) /\ c \in Column
                      /\ tree.children[c] # << >> /\ tree.activeChild[c] \in Window
    OBVIOUS
  <2>1. c \in Column /\ tree.children \in [Column -> Seq(Window)]
    BY <1>2 DEF Inv, TreeType, Maybe
  <2>2. s \in Workspace /\ c \in ToSet(tree.columns[s]) /\ w \in ToSet(tree.children[c])
    BY <1>2, <2>1 DEF Inv, PlaceInv
  <2>3. tree.children[c] \in Seq(Window)
    BY <2>1
  <2>4. tree.children[c] # << >> /\ ToSet(tree.children[c]) \subseteq Window
    BY <2>2, <2>3, EmptyList
  <2>5. tree.activeChild[c] \in ToSet(tree.children[c])
    BY <1>2, <2>1, <2>4 DEF Inv, PathInv
  <2> QED
    BY <2>1, <2>2, <2>4, <2>5
<1>4. /\ Inv(left) /\ Same(tree, left, DestroyFields) /\ left.status = Put(tree.status, w, "dead")
  BY <1>2, BeginDestroyKeeps
<1>5. Inv(a) /\ Same(tree, a, DetachFields)
  BY <1>2, DetachKeeps
<1>6. Same(a, left, {"fullscreenWindows", "history", "status", "dirty"})
  <2>1. DOMAIN a = Fields
    BY <1>5 DEF Same
  <2> HIDE DEF a
  <2> QED
    BY <2>1 DEF BeginDestroy, Same, Fields, a
<1>7. FocusedWindow(tree) # w => ActiveWindow(left, active) = ActiveWindow(tree, active)
                                    \/ tree.overlay # None
  <2> SUFFICES ASSUME FocusedWindow(tree) # w, tree.overlay = None
               PROVE  ActiveWindow(left, active) = ActiveWindow(tree, active)
    OBVIOUS
  <2>1. ActiveWindow(tree, active) # w
    BY DEF FocusedWindow
  <2>2. ActiveWindow(a, active) = ActiveWindow(tree, active)
    BY <1>2, <2>1, DetachActive
  <2> HIDE DEF a, left
  <2> QED
    BY <1>6, <2>2, PathSame DEF PathFields
<1> HIDE DEF a, left
<1>8. /\ left.columns = tree.columns /\ left.activeColumn = tree.activeColumn
      /\ left.overlay = tree.overlay /\ left.activeWorkspace = active
  BY <1>4 DEF Same, Fields, DestroyFields, DetachFields, ColumnFields, FloatFields
<1>9. Steady(left, marked)
  <2>0. DOMAIN left = Fields
    BY <1>4 DEF Same
  <2>1. Steady(left, narrow)
    BY <2>0, CleanedPlaces, PlacesOn, TurnsSteady
  <2> HIDE DEF narrow
  <2>2. Steady(left, cleaned)
    BY <2>1, ContainersPlace, PlacesOn, SteadyOn
  <2> HIDE DEF cleaned
  <2> QED
    BY <2>2, SteadyOn
<1>10. Alive(tree) \ Alive(tree') \subseteq {w}
  <2>1. CommitFocus(marked).status = left.status
    BY <1>9, SteadyOn DEF Steady
  <2>2. Alive(CommitFocus(marked)) \subseteq Alive(tree')
    BY <1>1, <1>2, AliveStays
  <2> HIDE DEF marked
  <2>3. \A x \in Window \ {w} : left.status[x] = tree.status[x]
    BY <1>2, <1>4 DEF Put
  <2> QED
    BY <2>1, <2>2, <2>3 DEF Alive
<1>11. ASSUME FocusedWindow(tree) # w
       PROVE  Focus(marked) = Focus(tree)
  <2>1. Same(left, narrow, {"columns", "activeColumn", "workspaces", "dirty"})
    <3>1. CASE c = None
      BY <1>4, <3>1 DEF Cleaned, Same
    <3>2. CASE c # None
      BY <1>3, <1>4, <1>8, <3>2, ColumnConsiderDestroyKeeps DEF Cleaned
    <3> QED
      BY <3>1, <3>2
  <2>2. narrow.overlay = tree.overlay /\ narrow.activeWorkspace = active
    BY <1>8, <2>1 DEF Same, Fields
  <2>3. tree.overlay = None => ActiveWindow(narrow, active) = ActiveWindow(tree, active)
    <3> SUFFICES ASSUME tree.overlay = None
                 PROVE  ActiveWindow(narrow, active) = ActiveWindow(tree, active)
      OBVIOUS
    <3>2. ActiveWindow(left, active) = ActiveWindow(tree, active)
      BY <1>7, <1>11
    <3>3. CASE c = None
      BY <3>2, <3>3 DEF Cleaned
    <3>4. CASE c # None
      <4>1. left.colWorkspace[c] \in Workspace
        BY <1>3, <1>4, <1>8, <3>4 DEF Inv, PlaceInv
      <4>2. ASSUME tree.activeColumn[active] = c
            PROVE  ActiveWindow(tree, active) # None
        <5>1. CASE tree.focusMode[active] = "tiling"
          BY <1>2, <1>3, <3>4, <4>2, <5>1 DEF ActiveWindow, ActiveTiling
        <5>2. CASE tree.focusMode[active] # "tiling"
          <6>1. tree.floating[active] # << >> /\ tree.floating[active] \in Seq(Window)
            BY <1>2, <5>2 DEF Inv, TreeType, PathInv
          <6>2. Last(tree.floating[active]) \in Window
            BY <6>1, EmptyList
          <6> QED
            BY <1>2, <5>2, <6>1, <6>2 DEF ActiveWindow, ActiveFloating
        <5> QED
          BY <5>1, <5>2
      <4>3. ActiveWindow(ColumnConsiderDestroy(left, c), active) = ActiveWindow(left, active)
        <5> HIDE DEF c, active
        <5> QED
          BY <1>2, <1>3, <1>4, <1>8, <3>2, <3>4, <4>1, <4>2, CleanedActive
      <4> QED
        BY <3>2, <3>4, <4>3 DEF Cleaned
    <3> QED
      BY <3>3, <3>4
  <2>4. Focus(narrow) = Focus(tree)
    BY <2>2, <2>3 DEF Focus, FocusedWindow
  <2>5. DOMAIN narrow = Fields
    BY <2>1 DEF Same
  <2> HIDE DEF narrow
  <2>6. Same(narrow, cleaned, {"workspaces", "dirty"})
    BY <2>5 DEF WorkspaceConsiderDestroy, Same, Fields
  <2> HIDE DEF cleaned
  <2>7. Same(cleaned, marked, {"dirty"})
    BY <2>6, MarkEffect DEF Same
  <2> HIDE DEF marked
  <2> QED
    BY <2>4, <2>6, <2>7, PathSame DEF PathFields
<1> HIDE DEF marked
<1>12. FocusIsCommitted' /\ tree'.focused = Focus(marked)
  BY <1>1, <1>2, CommitsFocus
<1> QED
  BY <1>10, <1>11, <1>12 DEF FocusIsCommitted

\* A window is mapped, and the others live on.
LEMMA MapSteady ==
  ASSUME Good(tree), Good(tree'), NEW w \in Window, NEW floats \in BOOLEAN, NEW full \in BOOLEAN,
         NEW o \in Output, Map(w, floats, full, o)
  PROVE  Alive(tree) \subseteq Alive(tree')
<1> DEFINE a == Created(tree, w)
           placed == Placed(tree, w, floats, o)
           filled == FullscreenOn(placed, w, o)
           shown == IF full THEN filled ELSE placed
           focused == SetFocusedWindow(shown, w)
           chosen == IF ShouldFocus(shown, w) THEN focused ELSE shown
           r == CommitFocus(chosen)
<1>1. Become(r)
  BY DEF Map, Placed, Created
<1>2. DOMAIN tree = Fields /\ tree.status \in [Window -> {"absent", "alive", "dead"}] /\ Inv(tree')
  BY DEF Good, Inv, TreeType, OtherType
<1>3. DOMAIN a = Fields /\ a.status = Put(tree.status, w, "alive")
  BY <1>2 DEF Created, Mark, Put, Fields
<1>6. DOMAIN placed = Fields /\ placed.status = a.status
  BY <1>2, PlacedSteady DEF Steady
<1> HIDE DEF a
<1> HIDE DEF placed
<1>7. DOMAIN filled = Fields /\ filled.status = placed.status
  BY <1>6 DEF FullscreenOn, Mark, Fields
<1> HIDE DEF filled
<1>8. DOMAIN shown = Fields /\ shown.status = a.status
  BY <1>6, <1>7
<1> HIDE DEF shown
<1>9. Steady(shown, focused)
  BY <1>8, FocusTurns, TurnsSteady
<1> HIDE DEF focused
<1>10. DOMAIN chosen = Fields /\ chosen.status = a.status
  BY <1>8, <1>9 DEF Steady
<1> HIDE DEF chosen
<1>11. r.status = a.status
  BY <1>10 DEF CommitFocus, Mark, Fields
<1> HIDE DEF r
<1>12. Alive(r) \subseteq Alive(tree')
  BY <1>1, <1>2, AliveStays
<1>13. Alive(tree) \subseteq Alive(r)
  BY <1>2, <1>3, <1>11 DEF Alive, Put
<1> QED
  BY <1>12, <1>13

\* A window that goes away takes the focus with it only if it had it, whether it was tiling
\* or floating, and whatever containers go away with it (column_remove_child,
\* workspace_remove_floating, column_consider_destroy).
THEOREM UnmapNeverStealsFocus == Spec => UnmapKeepsFocus
<1> DEFINE Kept == \A w \in Alive(tree) \ Alive(tree') :
                     FocusedWindow(tree) # w => Focus(tree') = Focus(tree) /\ tree'.focused = Focus(tree)
<1>1. Init => TreeInv
  BY InitGood DEF TreeInv
<1>2. TreeInv /\ [Next]_tree => TreeInv'
  BY NextGood DEF TreeInv
<1>3. TreeInv /\ TreeInv' /\ [Next]_tree => [Kept]_tree
  <2> SUFFICES ASSUME Good(tree), Good(tree'), Next PROVE Kept
    BY DEF TreeInv
  <2>1. DOMAIN tree = Fields /\ Inv(tree')
    BY DEF Good, Inv, TreeType
  <2>2. SteadyStep => Kept
    <3> SUFFICES ASSUME NEW t, Become(t), Steady(tree, t) PROVE Kept
      BY DEF SteadyStep
    <3>1. Alive(tree) = Alive(t)
      BY DEF Steady, Alive
    <3> QED
      BY <2>1, <3>1, AliveStays
  <2>3. ASSUME NEW r, Become(r), Same(tree, r, FullscreenFields) PROVE Kept
    <3>1. Alive(tree) = Alive(r)
      BY <2>3 DEF Same, Fields, FullscreenFields, Alive
    <3> QED
      BY <2>1, <2>3, <3>1, AliveStays
  <2>4. ASSUME NEW w \in Window,
               \/ \E full \in BOOLEAN, o \in Output : RequestFullscreen(w, full, o)
               \/ \E enable \in BOOLEAN : CmdFullscreen(w, enable)
               \/ \E d \in Direction : CmdMoveFullscreen(w, d)
        PROVE  Kept
    <3> HIDE DEF Kept
    <3> QED
      BY <2>3, <2>4, FullscreenSteps
  <2>5. ASSUME NEW w \in Window, Unmap(w) PROVE Kept
    BY <2>5, UnmapFocus
  <2>6. ASSUME NEW w \in Window, NEW floats \in BOOLEAN, NEW full \in BOOLEAN, NEW o \in Output,
               Map(w, floats, full, o)
        PROVE  Kept
    BY <2>6, MapSteady
  <2> HIDE DEF Kept
  <2>7. ClientStep => Kept
    BY <2>1, <2>2, <2>4, <2>5, <2>6, SteadyEvents DEF ClientStep
  <2>8. InputStep => Kept
    BY <2>1, <2>2, SteadyEvents DEF InputStep
  <2>9. CommandStep => Kept
    BY <2>1, <2>2, <2>4, SteadyCommands DEF CommandStep
  <2>10. Arrange \/ (\E o \in Output : NewOutput(o)) => Kept
    BY <2>1, <2>2, SteadyEvents
  <2> QED
    BY <2>7, <2>8, <2>9, <2>10 DEF Next
<1> QED
  BY <1>1, <1>2, <1>3, PTL DEF Spec, UnmapKeepsFocus

-----------------------------------------------------------------------------
(* The lists of fullscreen windows, where there is one output.              *)

OneOutput == \A o, p \in Output : o = p

\* An output lists the living fullscreen windows, each once, and a window that is created
\* is not fullscreen yet.
WellListed(t) ==
  /\ \A o \in Output : IsInjective(t.fullscreenWindows[o])
  /\ \A o \in Output : \A w \in Window :
       w \in ToSet(t.fullscreenWindows[o]) <=> w \in t.fullscreen /\ t.status[w] = "alive"
  /\ \A w \in Window : t.status[w] = "absent" => w \notin t.fullscreen

LEMMA WellListedSteady ==
  ASSUME NEW t, NEW r, Steady(t, r), WellListed(t)
  PROVE  WellListed(r)
BY DEF Steady, WellListed

\* What nothing refers to any more is forgotten.
LEMMA WellListedBecome ==
  ASSUME Inv(tree'), NEW t, Become(t), WellListed(t), t.fullscreenWindows \in [Output -> Seq(Window)]
  PROVE  WellListed(tree')
<1> DEFINE q == Settled(t)
           gone == {w \in Window : /\ q.status[w] = "dead"
                                   /\ w \notin Reached(q)
                                   /\ \A o \in Output : ~Contains(q.fullscreenWindows[o], w)}
<1>1. tree' = Forgotten(q) /\ DOMAIN t = Fields
  BY BecomeFocus DEF Become, Inv
<1>2. Same(t, q, Copies)
  BY <1>1 DEF Settled, Same, Fields, Copies
<1> HIDE DEF q
<1>3. /\ q.status = t.status /\ q.fullscreen = t.fullscreen
      /\ q.fullscreenWindows = t.fullscreenWindows /\ DOMAIN q = Fields
  BY <1>2 DEF Same, Fields, Copies
<1>4. /\ tree'.status = Else(gone, t.status, "absent") /\ tree'.fullscreen = t.fullscreen \ gone
      /\ tree'.fullscreenWindows = t.fullscreenWindows
  BY <1>1, <1>3 DEF Forgotten, Fields
<1>5. \A w \in gone : t.status[w] = "dead"
  BY <1>3
<1> HIDE DEF gone
<1>6. DOMAIN t.status = Window
  BY <1>4 DEF Inv, OtherType, Else
<1>7. \A w \in Window : tree'.status[w] = IF w \in gone THEN "absent" ELSE t.status[w]
  BY <1>4, <1>6 DEF Else
<1>8. \A w \in Window : /\ tree'.status[w] = "alive" <=> t.status[w] = "alive"
                        /\ t.status[w] = "alive" => w \notin gone
                        /\ tree'.status[w] = "absent" => w \in gone \/ t.status[w] = "absent"
  BY <1>5, <1>7
<1> QED
  BY <1>4, <1>8 DEF WellListed

\* The only output is that of every window of the tree.
LEMMA OnlyOutput ==
  ASSUME OneOutput, NEW t, Inv(t), NEW w \in Window, t.workspace[w] # None, NEW o \in Output
  PROVE  t.output[w] = o
<1>1. t.output[w] \in Outputs(t)
  BY WindowShown
<1>2. Outputs(t) \subseteq Output
  BY PlaceNodes
<1> QED
  BY <1>1, <1>2 DEF OneOutput

\* window_fullscreen_on_output and window_unfullscreen keep the lists.
LEMMA WellListedFullscreen ==
  ASSUME OneOutput, NEW t, Good(t), WellListed(t), NEW w \in Window, t.workspace[w] # None, t.status[w] = "alive",
         NEW o \in Output
  PROVE  WellListed(FullscreenOn(t, w, o)) /\ WellListed(Unfullscreen(t, w))
<1>1. /\ DOMAIN t = Fields /\ t.fullscreenWindows \in [Output -> Seq(Window)]
      /\ t.output[w] = o
  BY OnlyOutput DEF Good, Inv, TreeType, OtherType
<1>2. WellListed(FullscreenOn(t, w, o))
  <2> DEFINE r == FullscreenOn(t, w, o)
             list == Append(t.fullscreenWindows[o], w)
  <2>1. CASE w \in t.fullscreen
    BY <1>1, <2>1 DEF FullscreenOn
  <2>2. CASE w \notin t.fullscreen
    <3>1. /\ r.fullscreenWindows = [t.fullscreenWindows EXCEPT ![o] = list]
          /\ r.fullscreen = t.fullscreen \cup {w} /\ r.status = t.status
      BY <1>1, <2>2 DEF FullscreenOn, Mark, Fields
    <3> HIDE DEF r
    <3>2. IsInjective(list) /\ ToSet(list) = ToSet(t.fullscreenWindows[o]) \cup {w}
      <4>1. t.fullscreenWindows[o] \in Seq(Window) /\ w \notin ToSet(t.fullscreenWindows[o])
        BY <1>1, <2>2 DEF WellListed
      <4> QED
        BY <4>1, AppendSet DEF WellListed
    <3> HIDE DEF list
    <3>3. \A p \in Output : p = o
      BY DEF OneOutput
    <3>4. r.fullscreenWindows[o] = list
      BY <1>1, <3>1
    <3>5. WellListed(r)
      BY <3>1, <3>2, <3>3, <3>4 DEF WellListed
    <3> QED
      BY <3>5 DEF r
  <2> QED
    BY <2>1, <2>2
<1>3. WellListed(Unfullscreen(t, w))
  <2> DEFINE r == Unfullscreen(t, w)
             lists == [p \in Output |-> RemoveFirst(t.fullscreenWindows[p], w)]
  <2>1. CASE w \notin t.fullscreen
    BY <2>1 DEF Unfullscreen
  <2>2. CASE w \in t.fullscreen
    <3>1. /\ r.fullscreenWindows = lists
          /\ r.fullscreen = t.fullscreen \ {w} /\ r.status = t.status
      BY <1>1, <2>2 DEF Unfullscreen, Mark, Fields
    <3> HIDE DEF r
    <3>2. \A p \in Output : /\ lists[p] = RemoveFirst(t.fullscreenWindows[p], w)
                            /\ t.fullscreenWindows[p] \in Seq(Window)
                            /\ IsInjective(t.fullscreenWindows[p])
      BY <1>1 DEF WellListed
    <3> HIDE DEF lists
    <3>3. \A p \in Output : IsInjective(lists[p]) /\ ToSet(lists[p]) = ToSet(t.fullscreenWindows[p]) \ {w}
      BY <3>2, RemoveFirstSet
    <3>4. WellListed(r)
      BY <3>1, <3>3 DEF WellListed
    <3> QED
      BY <3>4 DEF r
  <2> QED
    BY <2>1, <2>2
<1> QED
  BY <1>2, <1>3

\* A window that is taken out of the tree keeps its history until it is destroyed.
LEMMA HistoryStays ==
  ASSUME NEW t, Inv(t), NEW w \in Window, t.workspace[w] # None
  PROVE  Detach(t, w).history[w] # << >>
<1>1. /\ DOMAIN t = Fields /\ t.history \in [Window -> Seq(Outputs(t))] /\ t.history[w] # << >>
  BY DEF Inv, TreeType, OtherType, OutputInv
<1>2. ASSUME NEW q, NEW v, NEW d, DOMAIN q = Fields, DOMAIN q.history = Window, q.history[w] # << >>
      PROVE  LET r == ReconcileTiling(q, v, d)
             IN  DOMAIN r = Fields /\ DOMAIN r.history = Window /\ r.history[w] # << >>
  BY <1>2 DEF ReconcileTiling, Fields
<1>3. CASE IsTiling(t, w)
  <2> DEFINE c == t.column[w]
             i == IndexIn(t.children[c], w)
             rest == RemoveFirst(t.children[c], w)
             next == IF rest = << >> THEN None ELSE rest[IF i > 1 THEN i - 1 ELSE 1]
             unlisted == [t EXCEPT !.children[c] = rest, !.activeChild[c] = IF @ = w THEN next ELSE @]
             tiled == ReconcileTiling(unlisted, next, c)
             chosen == IF t.activeChild[c] = w /\ next # None THEN tiled ELSE unlisted
             r == Mark(ReconcileDetached(chosen, w), {c})
  <2>1. Detach(t, w) = r
    BY <1>3 DEF Detach, RemoveChild
  <2>2. DOMAIN unlisted = Fields /\ unlisted.history = t.history
    BY <1>1 DEF Fields
  <2> HIDE DEF unlisted, next
  <2>3. DOMAIN tiled = Fields /\ tiled.history[w] # << >>
    BY <1>1, <1>2, <2>2
  <2> HIDE DEF tiled
  <2>4. DOMAIN chosen = Fields /\ chosen.history[w] # << >>
    BY <1>1, <2>2, <2>3
  <2> HIDE DEF chosen
  <2>5. r.history = chosen.history
    BY <2>4 DEF ReconcileDetached, Mark, Fields
  <2> QED
    BY <2>1, <2>4, <2>5
<1>4. CASE ~IsTiling(t, w) /\ IsFloating(t, w)
  <2> DEFINE s == t.workspace[w]
             rest == RemoveFirst(t.floating[s], w)
             unlisted == [t EXCEPT !.floating[s] = rest,
                                   !.focusMode[s] = IF rest = << >> THEN "tiling" ELSE @]
             tiling == ActiveTiling(t, s)
             last == ReconcileFloating(unlisted, Last(rest), s)
             tiled == ReconcileTiling(unlisted, tiling, t.column[tiling])
             chosen == IF rest # << >> THEN last ELSE IF tiling # None THEN tiled ELSE unlisted
             marked == IF w \in t.fullscreen THEN Mark(chosen, {t.output[w]}) ELSE chosen
             r == ReconcileDetached(marked, w)
  <2>1. Detach(t, w) = r
    BY <1>4 DEF Detach, RemoveFloating
  <2>2. DOMAIN unlisted = Fields /\ unlisted.history = t.history
    BY <1>1 DEF Fields
  <2> HIDE DEF unlisted, tiling, rest
  <2>3. DOMAIN tiled = Fields /\ tiled.history[w] # << >>
    BY <1>1, <1>2, <2>2
  <2>4. DOMAIN last = Fields /\ last.history = t.history
    BY <2>2 DEF ReconcileFloating, Fields
  <2> HIDE DEF tiled, last
  <2>5. DOMAIN chosen = Fields /\ chosen.history[w] # << >>
    BY <1>1, <2>2, <2>3, <2>4
  <2> HIDE DEF chosen
  <2>6. DOMAIN marked = Fields /\ marked.history = chosen.history
    BY <2>5 DEF Mark, Fields
  <2> HIDE DEF marked
  <2>7. r.history = marked.history
    BY <2>6 DEF ReconcileDetached, Fields
  <2> QED
    BY <2>1, <2>5, <2>6, <2>7
<1>5. CASE ~IsTiling(t, w) /\ ~IsFloating(t, w)
  BY <1>1, <1>5 DEF Detach
<1> QED
  BY <1>3, <1>4, <1>5

\* A window that dies leaves the list of its output.
LEMMA WellListedDestroy ==
  ASSUME OneOutput, NEW t, Good(t), WellListed(t), NEW w \in Window, t.status[w] = "alive"
  PROVE  WellListed(BeginDestroy(t, w))
<1> DEFINE a == Detach(t, w)
           on == IF w \in t.fullscreen THEN ToSet(a.history[w]) ELSE {}
           lists == [o \in Output |-> IF o \in on THEN RemoveFirst(a.fullscreenWindows[o], w)
                                      ELSE a.fullscreenWindows[o]]
           r == [a EXCEPT !.fullscreenWindows = lists, !.history[w] = << >>, !.status[w] = "dead",
                          !.dirty = @ \cup on \cup {w}]
<1>1. BeginDestroy(t, w) = r
  BY DEF BeginDestroy
<1>2. t.workspace[w] # None /\ Inv(t)
  BY DEF Good, Homed
<1>3. Inv(a) /\ Same(t, a, DetachFields)
  BY <1>2, DetachKeeps
<1>4. a.history[w] # << >>
  BY <1>2, HistoryStays
<1> HIDE DEF a
<1>5. /\ DOMAIN a = Fields /\ a.fullscreenWindows = t.fullscreenWindows /\ a.fullscreen = t.fullscreen
      /\ a.status = t.status /\ a.outputs = t.outputs
  BY <1>3 DEF Same, Fields, DetachFields, ColumnFields, FloatFields
<1>6. /\ a.fullscreenWindows \in [Output -> Seq(Window)] /\ a.history[w] \in Seq(Outputs(a))
      /\ a.status \in [Window -> {"absent", "alive", "dead"}]
  BY <1>3 DEF Inv, OtherType
<1>7. w \in t.fullscreen => \A o \in Output : o \in on
  <2>1. ToSet(a.history[w]) # {} /\ ToSet(a.history[w]) \subseteq Outputs(a) /\ Outputs(a) \subseteq Output
    BY <1>3, <1>4, <1>6, EmptyList, PlaceNodes
  <2> QED
    BY <2>1 DEF OneOutput
<1> HIDE DEF on
<1>8. /\ r.fullscreenWindows = lists /\ r.fullscreen = t.fullscreen
      /\ r.status = [t.status EXCEPT ![w] = "dead"]
  BY <1>5 DEF Fields
<1>9. \A o \in Output : /\ a.fullscreenWindows[o] \in Seq(Window) /\ IsInjective(a.fullscreenWindows[o])
                        /\ lists[o] = IF o \in on THEN RemoveFirst(a.fullscreenWindows[o], w)
                                      ELSE a.fullscreenWindows[o]
  BY <1>5, <1>6 DEF WellListed
<1> HIDE DEF lists, r
<1>10. \A o \in Output : /\ IsInjective(lists[o])
                         /\ ToSet(lists[o]) = ToSet(t.fullscreenWindows[o]) \ {w}
  <2> SUFFICES ASSUME NEW o \in Output
               PROVE  IsInjective(lists[o]) /\ ToSet(lists[o]) = ToSet(t.fullscreenWindows[o]) \ {w}
    OBVIOUS
  <2>1. CASE o \in on
    BY <1>5, <1>9, <2>1, RemoveFirstSet
  <2>2. CASE o \notin on
    BY <1>5, <1>7, <1>9, <2>2 DEF WellListed
  <2> QED
    BY <2>1, <2>2
<1>11. r.status[w] = "dead" /\ \A x \in Window \ {w} : r.status[x] = t.status[x]
  BY <1>5, <1>6, <1>8
<1> QED
  BY <1>1, <1>8, <1>10, <1>11 DEF WellListed

\* The steps that are not steady keep the lists too.
LEMMA UnmapLists ==
  ASSUME OneOutput, Good(tree), Good(tree'), WellListed(tree), NEW w \in Window, Unmap(w)
  PROVE  WellListed(tree')
<1> DEFINE c == tree.column[w]
           s == tree.workspace[w]
           left == BeginDestroy(tree, w)
           narrow == Cleaned(left, c)
           cleaned == WorkspaceConsiderDestroy(narrow, s)
           nodes == {s} \cap cleaned.workspaces
           marked == Mark(cleaned, nodes)
           r == CommitFocus(marked)
<1>1. Become(r) /\ tree.status[w] = "alive"
  BY DEF Unmap, Cleaned, Alive
<1>2. WellListed(left) /\ Inv(left)
  BY <1>1, WellListedDestroy, BeginDestroyKeeps DEF Good
<1>3. DOMAIN left = Fields /\ left.fullscreenWindows \in [Output -> Seq(Window)]
  BY <1>2 DEF Inv, TreeType, OtherType
<1> HIDE DEF left, c, s
<1>4. Steady(left, narrow)
  BY <1>3, CleanedPlaces, PlacesOn, TurnsSteady
<1> HIDE DEF narrow
<1>5. Steady(left, cleaned)
  BY <1>4, ContainersPlace, PlacesOn, SteadyOn
<1> HIDE DEF cleaned, nodes
<1>6. Steady(left, marked)
  BY <1>5, SteadyOn
<1> HIDE DEF marked
<1>7. Steady(left, r)
  BY <1>6, SteadyOn
<1>8. WellListed(r) /\ r.fullscreenWindows \in [Output -> Seq(Window)]
  BY <1>2, <1>3, <1>7, WellListedSteady DEF Steady
<1> HIDE DEF r
<1> QED
  BY <1>1, <1>8, WellListedBecome DEF Good

LEMMA FullscreenLists ==
  ASSUME OneOutput, Good(tree), Good(tree'), WellListed(tree), NEW w \in Window,
         \/ \E full \in BOOLEAN, o \in Output : RequestFullscreen(w, full, o)
         \/ \E enable \in BOOLEAN : CmdFullscreen(w, enable)
         \/ \E d \in Direction : CmdMoveFullscreen(w, d)
  PROVE  WellListed(tree')
<1> DEFINE Full(o) == FullscreenOn(tree, w, o)
           emptied == Unfullscreen(tree, w)
<1>1. tree.workspace[w] # None /\ Inv(tree)
  BY AliveHome, CommandHome DEF RequestFullscreen, CmdFullscreen, CmdMoveFullscreen, Good
<1>2. tree.status[w] = "alive"
  BY <1>1 DEF Inv, OutputInv
<1>3. PICK r : /\ r = emptied \/ \E o \in Output : o \in Outputs(tree) /\ r = Full(o)
               /\ Become(r) \/ Become(Mark(r, {w}))
  <2>1. tree.output[w] \in Outputs(tree) /\ Outputs(tree) \subseteq Output
    BY <1>1, WindowShown, PlaceNodes
  <2>2. ASSUME NEW full \in BOOLEAN, NEW o \in Output, RequestFullscreen(w, full, o)
        PROVE  Become(Mark(IF full THEN Full(o) ELSE emptied, {w})) /\ o \in Outputs(tree)
    BY <2>2 DEF RequestFullscreen
  <2>3. ASSUME NEW enable \in BOOLEAN, CmdFullscreen(w, enable)
        PROVE  Become(IF enable THEN Full(tree.output[w]) ELSE emptied)
    BY <2>3 DEF CmdFullscreen
  <2>4. ASSUME NEW d \in Direction, CmdMoveFullscreen(w, d)
        PROVE  \E o \in Outputs(tree) : Become(Full(o))
    BY <1>1, <2>4, NextOutput DEF CmdMoveFullscreen
  <2> HIDE DEF Full, emptied
  <2> QED
    BY <2>1, <2>2, <2>3, <2>4
<1>4. WellListed(r) /\ Inv(r)
  <2>1. WellListed(emptied) /\ Inv(emptied)
    <3>1. tree.output[w] \in Output
      BY <1>1, WindowShown, PlaceNodes
    <3> QED
      BY <1>1, <1>2, <3>1, WellListedFullscreen, UnfullscreenKeeps
  <2>2. \A o \in Output : o \in Outputs(tree) => WellListed(Full(o)) /\ Inv(Full(o))
    BY <1>1, <1>2, WellListedFullscreen, FullscreenOnKeeps
  <2> HIDE DEF Full, emptied
  <2> QED
    BY <1>3, <2>1, <2>2
<1>5. Inv(Mark(r, {w})) /\ Steady(r, Mark(r, {w}))
  <2>1. DOMAIN r = Fields
    BY <1>4 DEF Inv, TreeType
  <2>2. Steady(r, r)
    BY <2>1 DEF Steady
  <2> QED
    BY <1>4, <2>2, SteadyOn, MarkKeeps DEF Node
<1>6. WellListed(Mark(r, {w}))
  BY <1>4, <1>5, WellListedSteady
<1> QED
  BY <1>3, <1>4, <1>5, <1>6, WellListedBecome DEF Good, Inv, OtherType

LEMMA MapLists ==
  ASSUME OneOutput, Good(tree), HasUnused(tree), Good(tree'), WellListed(tree), NEW w \in Window,
         NEW floats \in BOOLEAN, NEW full \in BOOLEAN, NEW o \in Output, Map(w, floats, full, o)
  PROVE  WellListed(tree')
<1> DEFINE a == Created(tree, w)
           placed == Placed(tree, w, floats, o)
           shown == IF full THEN FullscreenOn(placed, w, o) ELSE placed
           focused == SetFocusedWindow(shown, w)
           chosen == IF ShouldFocus(shown, w) THEN focused ELSE shown
           r == CommitFocus(chosen)
<1>1. Become(r) /\ tree.status[w] = "absent" /\ o \in Outputs(tree)
  BY DEF Map, Placed, Created
<1>2. DOMAIN tree = Fields /\ tree.status \in [Window -> {"absent", "alive", "dead"}]
  BY DEF Good, Inv, TreeType, OtherType
<1>3. /\ DOMAIN a = Fields /\ a.status = [tree.status EXCEPT ![w] = "alive"]
      /\ a.fullscreen = tree.fullscreen /\ a.fullscreenWindows = tree.fullscreenWindows
  BY <1>2 DEF Created, Mark, Fields
<1>4. WellListed(a)
  <2>1. a.status[w] = "alive" /\ \A v \in Window \ {w} : a.status[v] = tree.status[v]
    BY <1>2, <1>3
  <2> HIDE DEF a
  <2> QED
    BY <1>1, <1>3, <2>1 DEF WellListed
<1>5. /\ Good(placed) /\ placed.workspace[w] # None /\ o \in Outputs(placed)
      /\ Steady(a, placed)
  <2>1. tree.activeWorkspace # None
    BY NodesAssumption DEF Good, Inv, TreeType
  <2> QED
    BY <1>1, <1>2, <2>1, PlacedInTree, PlacedSteady
<1> HIDE DEF placed, a
<1>6. WellListed(shown) /\ Good(shown)
  <2>1. WellListed(placed) /\ placed.status[w] = "alive"
    BY <1>2, <1>3, <1>4, <1>5, WellListedSteady DEF Steady
  <2> QED
    BY <1>5, <2>1, WellListedFullscreen, GoodFullscreen
<1> HIDE DEF shown
<1>7. DOMAIN shown = Fields /\ shown.fullscreenWindows \in [Output -> Seq(Window)]
  BY <1>6 DEF Good, Inv, TreeType, OtherType
<1>8. Steady(shown, chosen)
  <2>1. Steady(shown, focused) /\ Steady(shown, shown)
    BY <1>7, FocusTurns, TurnsSteady DEF Steady
  <2> HIDE DEF focused
  <2> QED
    BY <2>1
<1> HIDE DEF chosen
<1>9. Steady(shown, r)
  BY <1>8, SteadyOn
<1> HIDE DEF r
<1>10. WellListed(r) /\ r.fullscreenWindows \in [Output -> Seq(Window)]
  BY <1>6, <1>7, <1>9, WellListedSteady DEF Steady
<1> QED
  BY <1>1, <1>10, WellListedBecome DEF Good

LEMMA SteadyLists ==
  ASSUME Good(tree'), WellListed(tree), SteadyStep,
         tree.fullscreenWindows \in [Output -> Seq(Window)]
  PROVE  WellListed(tree')
<1>1. PICK t : Become(t) /\ Steady(tree, t)
  BY DEF SteadyStep
<1>2. WellListed(t) /\ t.fullscreenWindows \in [Output -> Seq(Window)]
  BY <1>1, WellListedSteady DEF Steady
<1> QED
  BY <1>1, <1>2, WellListedBecome DEF Good

LEMMA NextLists ==
  OneOutput /\ TreeInv /\ WellListed(tree) /\ TreeInv' /\ [Next]_tree => WellListed(tree')
<1> SUFFICES ASSUME OneOutput, Good(tree), WellListed(tree), Good(tree'), [Next]_tree
             PROVE  WellListed(tree')
  BY DEF TreeInv
<1>1. CASE UNCHANGED tree
  BY <1>1
<1>2. CASE Next
  <2>1. /\ DOMAIN tree = Fields /\ tree.fullscreenWindows \in [Output -> Seq(Window)]
        /\ ColumnLeft => HasUnused(tree)
    BY DEF Good, Inv, TreeType, OtherType, ColumnLeft, HasUnused
  <2>2. SteadyStep => WellListed(tree')
    BY <2>1, SteadyLists
  <2>3. ColumnLeft /\ ClientStep => WellListed(tree')
    BY <2>1, <2>2, SteadyEvents, MapLists, UnmapLists, FullscreenLists DEF ClientStep
  <2>4. InputStep => WellListed(tree')
    BY <2>1, <2>2, SteadyEvents DEF InputStep
  <2>5. CommandStep => WellListed(tree')
    BY <2>1, <2>2, SteadyCommands, FullscreenLists DEF CommandStep
  <2>6. Arrange \/ (\E o \in Output : NewOutput(o)) => WellListed(tree')
    BY <2>1, <2>2, SteadyEvents
  <2> QED
    BY <1>2, <2>3, <2>4, <2>5, <2>6 DEF Next
<1> QED
  BY <1>1, <1>2

\* Where there is one output, its list holds the living fullscreen windows, each once, and
\* no other: the assertions of root.c, lines 598-601 and 631-641, hold.
THEOREM FullscreenAlwaysListed == OneOutput => (Spec => []FullscreenIsListed)
<1> SUFFICES ASSUME OneOutput PROVE Spec => []FullscreenIsListed
  OBVIOUS
<1>1. Init => TreeInv
  BY InitGood DEF TreeInv
<1>2. TreeInv /\ [Next]_tree => TreeInv'
  BY NextGood DEF TreeInv
<1>3. ASSUME Init PROVE WellListed(tree)
  <2>1. /\ tree.fullscreenWindows = [o \in Output |-> << >>] /\ tree.fullscreen = {}
    BY <1>3 DEF Init
  <2>2. \A o \in Output : tree.fullscreenWindows[o] = << >>
    BY <2>1
  <2>3. ToSet(<< >>) = {} /\ IsInjective(<< >>)
    BY DEF ToSet, IsInjective
  <2> QED
    BY <2>1, <2>2, <2>3 DEF WellListed
<1>4. TreeInv /\ WellListed(tree) /\ TreeInv' /\ [Next]_tree => (WellListed(tree))'
  BY NextLists
<1>5. TreeInv /\ WellListed(tree) => FullscreenIsListed
  <2> SUFFICES ASSUME Good(tree), WellListed(tree), NEW o \in Output, NEW w \in Window
               PROVE  Contains(tree.fullscreenWindows[o], w)
                        <=> w \in Alive(tree) \cap tree.fullscreen /\ tree.output[w] = o
    BY DEF TreeInv, FullscreenIsListed
  <2>1. tree.fullscreenWindows[o] \in Seq(Window)
    BY DEF Good, Inv, OtherType
  <2>2. Contains(tree.fullscreenWindows[o], w) <=> w \in ToSet(tree.fullscreenWindows[o])
    BY <2>1, EmptyList
  <2>3. w \in Alive(tree) => tree.output[w] = o
    BY AliveHome, OnlyOutput DEF Good
  <2> QED
    BY <2>2, <2>3 DEF WellListed, Alive
<1> QED
  BY <1>1, <1>2, <1>3, <1>4, <1>5, PTL DEF Spec
=============================================================================

----------------------------- MODULE TidyProofs -----------------------------
(***************************************************************************)
(* Proofs that the window tree is kept tidy: a column or a workspace goes  *)
(* with its last window, and the active output is the one of the active    *)
(* column.  Handlers leave a tree untidy for a while: a window that moves  *)
(* leaves a column and a workspace behind that may be empty, which the     *)
(* handler then considers for destruction.  So the lemmas say which column *)
(* and which workspaces may be empty after each function, and a handler is *)
(* right if none is left at its end.                                       *)
(***************************************************************************)
EXTENDS TreeProofs

-----------------------------------------------------------------------------
(* Tiling windows are on the output of their column, fullscreen or not.     *)

Lined(t) ==
  /\ DOMAIN t = Fields /\ DOMAIN t.column = Window /\ DOMAIN t.output = Window
  /\ \A w \in Window : t.column[w] # None => t.output[w] = t.colOutput[t.column[w]]

LEMMA LinedSame ==
  ASSUME NEW t, Lined(t), NEW r, NEW F, Same(t, r, F),
         "column" \notin F, "output" \notin F, "colOutput" \notin F
  PROVE  Lined(r)
<1>1. DOMAIN r = Fields /\ r.column = t.column /\ r.output = t.output /\ r.colOutput = t.colOutput
  BY DEF Same, Fields
<1> QED
  BY <1>1 DEF Lined

LEMMA LinedTiled ==
  ASSUME NEW t, Lined(t), NEW r, NEW w, NEW c, Tiled(t, r, w, c)
  PROVE  Lined(r)
<1>1. /\ DOMAIN r = Fields /\ r.colOutput = t.colOutput
      /\ r.column = [t.column EXCEPT ![w] = c] /\ r.output = [t.output EXCEPT ![w] = t.colOutput[c]]
  BY DEF Tiled, Same, Fields, Put
<1> QED
  BY <1>1 DEF Lined

LEMMA LinedOut ==
  ASSUME NEW t, Lined(t), NEW r, NEW w, DOMAIN r = Fields, r.column = Put(t.column, w, None),
         r.output = t.output, r.colOutput = t.colOutput
  PROVE  Lined(r)
<1>1. r.column = [t.column EXCEPT ![w] = None]
  BY DEF Put
<1> QED
  BY <1>1 DEF Lined

LEMMA ReconcileLined ==
  ASSUME NEW t, Lined(t), NEW w, NEW c
  PROVE  /\ Lined(Mark(t, w)) /\ Lined(ReconcileTiling(t, w, c))
         /\ Lined(ReconcileFloating(t, w, c)) /\ Lined(ReconcileDetached(t, w))
<1>1. DOMAIN t = Fields
  BY DEF Lined
<1>2. Lined(Mark(t, w))
  <2> DEFINE r == Mark(t, w)
  <2>1. Same(t, r, {"dirty"})
    BY <1>1, MarkEffect
  <2> HIDE DEF r
  <2>2. Lined(r)
    BY <2>1, LinedSame
  <2> QED
    BY <2>2 DEF r
<1>3. Lined(ReconcileTiling(t, w, c))
  BY <1>1, ReconcileTilingSets, LinedTiled
<1>4. Lined(ReconcileFloating(t, w, c))
  <2> DEFINE r == ReconcileFloating(t, w, c)
  <2>1. Afloat(t, r, w, c)
    BY <1>1, ReconcileFloatingSets
  <2> HIDE DEF r
  <2>2. Lined(r)
    BY <2>1, LinedOut DEF Afloat, Same, Fields
  <2> QED
    BY <2>2 DEF r
<1>5. Lined(ReconcileDetached(t, w))
  <2> DEFINE r == ReconcileDetached(t, w)
  <2>1. Unplaced(t, r, w)
    BY <1>1, ReconcileDetachedSets
  <2> HIDE DEF r
  <2>2. Lined(r)
    BY <2>1, LinedOut DEF Unplaced, Same, Fields
  <2> QED
    BY <2>2 DEF r
<1> QED
  BY <1>2, <1>3, <1>4, <1>5

LEMMA ChildrenLined ==
  ASSUME NEW t, Lined(t), NEW c, NEW w, NEW i, NEW after
  PROVE  /\ Lined(InsertChild(t, c, w, i)) /\ Lined(AddChild(t, c, w))
         /\ Lined(AddSibling(t, c, w, after)) /\ Lined(AddBesideActive(t, c, i, w))
<1>1. ASSUME NEW d, NEW x, NEW j PROVE Lined(InsertChild(t, d, x, j))
  <2> DEFINE first == IF t.children[d] = << >> THEN [t EXCEPT !.activeChild[d] = x] ELSE t
             listed == [first EXCEPT !.children[d] = InsertAt(@, j, x)]
             placed == ReconcileTiling(listed, x, d)
  <2>1. InsertChild(t, d, x, j) = Mark(placed, {d})
    BY DEF InsertChild
  <2>2. Lined(first)
    BY DEF Lined, Fields
  <2> HIDE DEF first
  <2>3. Lined(listed)
    BY <2>2 DEF Lined, Fields
  <2> HIDE DEF listed
  <2>4. Lined(placed)
    BY <2>3, ReconcileLined
  <2> HIDE DEF placed
  <2> QED
    BY <2>1, <2>4, ReconcileLined
<1>2. ASSUME NEW fixed, NEW later PROVE Lined(AddSibling(t, fixed, w, later))
  <2> DEFINE b == t.column[fixed]
             j == IndexIn(t.children[b], fixed)
             listed == [t EXCEPT !.children[b] = InsertAt(@, IF later THEN j + 1 ELSE j, w)]
             fixedThen == ReconcileTiling(listed, fixed, b)
             placed == ReconcileTiling(fixedThen, w, b)
  <2>1. AddSibling(t, fixed, w, later) = Mark(placed, {b})
    BY DEF AddSibling
  <2>2. Lined(listed)
    BY DEF Lined, Fields
  <2> HIDE DEF listed
  <2>3. Lined(fixedThen)
    BY <2>2, ReconcileLined
  <2> HIDE DEF fixedThen
  <2>4. Lined(placed)
    BY <2>3, ReconcileLined
  <2> HIDE DEF placed
  <2> QED
    BY <2>1, <2>4, ReconcileLined
<1>3. Lined(AddChild(t, c, w))
  BY <1>1 DEF AddChild
<1>4. Lined(AddBesideActive(t, c, i, w))
  BY <1>2, <1>3 DEF AddBesideActive
<1> QED
  BY <1>1, <1>2, <1>3, <1>4

LEMMA SetActiveChildLined ==
  ASSUME NEW t, Lined(t), NEW c, NEW w
  PROVE  Lined(SetActiveChild(t, c, w))
<1> DEFINE prev == t.activeChild[c]
           put == [t EXCEPT !.activeChild[c] = w]
           chosen == ReconcileTiling(put, w, c)
           both == ReconcileTiling(chosen, prev, c)
           r == IF prev = None THEN chosen ELSE both
<1>1. SetActiveChild(t, c, w) = IF prev = w THEN t ELSE Mark(r, {c})
  BY DEF SetActiveChild
<1>2. Lined(put)
  BY DEF Lined, Fields
<1> HIDE DEF put
<1>3. Lined(chosen)
  BY <1>2, ReconcileLined
<1> HIDE DEF chosen
<1>4. Lined(both)
  BY <1>3, ReconcileLined
<1> HIDE DEF both
<1>5. Lined(r)
  BY <1>3, <1>4
<1> HIDE DEF r
<1> QED
  BY <1>1, <1>5, ReconcileLined

LEMMA DetachLined ==
  ASSUME NEW t, Lined(t), NEW w
  PROVE  Lined(Detach(t, w))
<1>1. ASSUME NEW c PROVE Lined(RemoveChild(t, c, w))
  <2> DEFINE i == IndexIn(t.children[c], w)
             rest == RemoveFirst(t.children[c], w)
             next == IF rest = << >> THEN None ELSE rest[IF i > 1 THEN i - 1 ELSE 1]
             unlisted == [t EXCEPT !.children[c] = rest,
                                   !.activeChild[c] = IF @ = w THEN next ELSE @]
             tiled == ReconcileTiling(unlisted, next, c)
             chosen == IF t.activeChild[c] = w /\ next # None THEN tiled ELSE unlisted
             out == ReconcileDetached(chosen, w)
  <2>1. RemoveChild(t, c, w) = Mark(out, {c})
    BY DEF RemoveChild
  <2> HIDE DEF rest, next
  <2>2. Lined(unlisted)
    BY DEF Lined, Fields
  <2> HIDE DEF unlisted
  <2>3. Lined(tiled)
    BY <2>2, ReconcileLined
  <2> HIDE DEF tiled
  <2>4. Lined(chosen)
    BY <2>2, <2>3
  <2> HIDE DEF chosen
  <2>5. Lined(out)
    BY <2>4, ReconcileLined
  <2> HIDE DEF out
  <2> QED
    BY <2>1, <2>5, ReconcileLined
<1>2. ASSUME NEW s PROVE Lined(RemoveFloating(t, s, w))
  <2> DEFINE rest == RemoveFirst(t.floating[s], w)
             unlisted == [t EXCEPT !.floating[s] = rest,
                                   !.focusMode[s] = IF rest = << >> THEN "tiling" ELSE @]
             tiling == ActiveTiling(t, s)
             last == ReconcileFloating(unlisted, Last(rest), s)
             tiled == ReconcileTiling(unlisted, tiling, t.column[tiling])
             chosen == IF rest # << >> THEN last ELSE IF tiling # None THEN tiled ELSE unlisted
             shown == Mark(chosen, {t.output[w]})
             there == IF w \in t.fullscreen THEN shown ELSE chosen
  <2>1. RemoveFloating(t, s, w) = ReconcileDetached(there, w)
    BY DEF RemoveFloating
  <2> HIDE DEF rest, tiling
  <2>2. Lined(unlisted)
    BY DEF Lined, Fields
  <2> HIDE DEF unlisted
  <2>3. Lined(last) /\ Lined(tiled)
    BY <2>2, ReconcileLined
  <2> HIDE DEF last, tiled
  <2>4. Lined(chosen)
    BY <2>2, <2>3
  <2> HIDE DEF chosen
  <2>5. Lined(there)
    BY <2>4, ReconcileLined
  <2> HIDE DEF there
  <2> QED
    BY <2>1, <2>5, ReconcileLined
<1> QED
  BY <1>1, <1>2 DEF Detach

LEMMA AddFloatingLined ==
  ASSUME NEW t, Lined(t), NEW s, NEW w
  PROVE  Lined(AddFloating(t, s, w))
<1> DEFINE prev == ActiveFloating(t, s)
           listed == [t EXCEPT !.floating[s] = Append(@, w)]
           shown == [listed EXCEPT !.history[w] = <<t.activeOutput>>, !.output[w] = t.activeOutput]
           placed == IF t.history[w] # << >> THEN listed ELSE shown
           added == ReconcileFloating(placed, w, s)
           both == ReconcileFloating(added, prev, s)
           r == IF prev = None THEN added ELSE both
<1>1. AddFloating(t, s, w) = Mark(r, {s})
  BY DEF AddFloating
<1> HIDE DEF prev
<1>2. Lined(listed)
  BY DEF Lined, Fields
<1>3. Lined(added)
  <2>1. CASE placed = listed
    <3> HIDE DEF listed, placed
    <3> QED
      BY <1>2, <2>1, ReconcileLined
  <2>2. CASE placed = shown
    <3>1. /\ DOMAIN shown = Fields /\ shown.column = t.column /\ shown.colOutput = t.colOutput
          /\ shown.output = [t.output EXCEPT ![w] = t.activeOutput]
      BY DEF Lined, Fields
    <3> HIDE DEF listed, shown, placed
    <3>2. Afloat(shown, added, w, s)
      BY <2>2, <3>1, ReconcileFloatingSets
    <3> HIDE DEF added
    <3>3. /\ DOMAIN added = Fields /\ added.colOutput = t.colOutput
          /\ added.column = [t.column EXCEPT ![w] = None]
          /\ added.output = [t.output EXCEPT ![w] = t.activeOutput]
      BY <3>1, <3>2 DEF Afloat, Same, Fields, Put
    <3> QED
      BY <3>3 DEF Lined
  <2> HIDE DEF listed, shown
  <2> QED
    BY <2>1, <2>2
<1> HIDE DEF added
<1>4. Lined(both)
  BY <1>3, ReconcileLined
<1> HIDE DEF both
<1>5. Lined(r)
  BY <1>3, <1>4
<1> HIDE DEF r
<1> QED
  BY <1>1, <1>5, ReconcileLined

\* A window that goes fullscreen on the output it is on is shown where it was.
LEMMA FullscreenThere ==
  ASSUME NEW t, Lined(t), NEW w \in Window
  PROVE  /\ Same(t, FullscreenOn(t, w, t.output[w]), {"fullscreenWindows", "fullscreen", "dirty"})
         /\ Same(t, Unfullscreen(t, w), {"fullscreenWindows", "fullscreen", "dirty"})
<1> DEFINE F == {"fullscreenWindows", "fullscreen", "dirty"}
<1>1. DOMAIN t = Fields
  BY DEF Lined
<1>2. Same(t, FullscreenOn(t, w, t.output[w]), F)
  <2> DEFINE o == t.output[w]
             gone == Mark([t EXCEPT !.fullscreenWindows[o] = RemoveFirst(@, w)], {o})
             left == IF w \notin t.fullscreen THEN t ELSE gone
             marked == Mark(left, {t.workspace[w], t.column[w]} \ {None})
             r == [marked EXCEPT !.fullscreenWindows[o] = Append(@, w),
                                 !.fullscreen = @ \cup {w}, !.dirty = @ \cup {o}]
  <2>1. FullscreenOn(t, w, o) = IF w \in t.fullscreen THEN t ELSE r
    BY DEF FullscreenOn
  <2>2. Same(t, t, F)
    BY <1>1 DEF Same
  <2>3. Same(t, gone, F)
    BY <1>1 DEF Same, Mark, Fields
  <2> HIDE DEF gone
  <2>4. Same(t, left, F)
    BY <2>2, <2>3
  <2> HIDE DEF left
  <2>5. Same(t, marked, F)
    BY <2>4 DEF Same, Mark, Fields
  <2> HIDE DEF marked
  <2>6. Same(t, r, F)
    BY <2>5 DEF Same, Fields
  <2> HIDE DEF r, F, o
  <2> QED
    BY <2>1, <2>2, <2>6 DEF o
<1>3. Same(t, Unfullscreen(t, w), F)
  <2> DEFINE c == t.column[w]
             unlisted == [t EXCEPT !.fullscreen = @ \ {w},
                            !.fullscreenWindows = [o \in Output |-> RemoveFirst(@[o], w)]]
             home == t.colOutput[c]
             others == RemoveFirst(t.history[w], home)
             back == [unlisted EXCEPT
                        !.history[w] = InsertAt(others, IndexIn(others, t.output[w]), home),
                        !.output[w] = home]
             returned == IF home = t.output[w] THEN unlisted ELSE back
             tiled == Mark(returned, {c})
             afloat == Mark(unlisted, {t.workspace[w]})
  <2>1. Unfullscreen(t, w) = IF w \notin t.fullscreen THEN t
                             ELSE IF IsTiling(t, w) THEN tiled ELSE afloat
    BY DEF Unfullscreen
  <2>2. Same(t, t, F) /\ Same(t, unlisted, F)
    BY <1>1 DEF Same, Fields
  <2>3. IsTiling(t, w) => returned = unlisted
    BY DEF Lined, IsTiling
  <2> HIDE DEF unlisted, back
  <2>4. Same(t, afloat, F)
    BY <2>2 DEF Same, Mark, Fields
  <2> HIDE DEF returned
  <2>5. IsTiling(t, w) => Same(t, tiled, F)
    BY <2>2, <2>3 DEF Same, Mark, Fields
  <2> HIDE DEF tiled, afloat
  <2> QED
    BY <2>1, <2>2, <2>4, <2>5
<1> QED
  BY <1>2, <1>3

LEMMA BeginDestroyLined ==
  ASSUME NEW t, Lined(t), NEW w
  PROVE  Lined(BeginDestroy(t, w))
<1> DEFINE left == Detach(t, w)
           on == IF w \in t.fullscreen THEN ToSet(left.history[w]) ELSE {}
           r == [left EXCEPT !.fullscreenWindows =
                               [o \in Output |-> IF o \in on THEN RemoveFirst(@[o], w) ELSE @[o]],
                             !.history[w] = << >>, !.status[w] = "dead",
                             !.dirty = @ \cup on \cup {w}]
<1>1. BeginDestroy(t, w) = r
  BY DEF BeginDestroy
<1>2. Lined(left)
  BY DetachLined
<1> HIDE DEF left, on
<1>3. Lined(r)
  BY <1>2 DEF Lined, Fields
<1> QED
  BY <1>1, <1>3

LEMMA SetActiveWindowLined ==
  ASSUME NEW t, Lined(t), NEW s, NEW w
  PROVE  Lined(SetActiveWindow(t, s, w))
<1> DEFINE prev == ActiveWindow(t, s)
           none == [t EXCEPT !.activeColumn[s] = None, !.focusMode[s] = "tiling"]
           raised == [t EXCEPT !.floating[s] = Append(RemoveFirst(@, w), w), !.focusMode[s] = "floating"]
           afloat == ReconcileFloating(raised, w, s)
           c == t.column[w]
           child == SetActiveChild(t, c, w)
           tiled == [child EXCEPT !.activeColumn[s] = c, !.focusMode[s] = "tiling",
                       !.activeOutput = IF s = t.activeWorkspace THEN t.colOutput[c] ELSE @]
           chosen == IF w = None THEN none ELSE IF IsFloating(t, w) THEN afloat ELSE tiled
           released == IF prev = None THEN chosen
                       ELSE IF IsFloating(t, prev) THEN ReconcileFloating(chosen, prev, s)
                       ELSE ReconcileTiling(chosen, prev, t.column[prev])
<1>1. SetActiveWindow(t, s, w) = IF w = prev THEN t ELSE Mark(released, {s})
  BY DEF SetActiveWindow
<1> HIDE DEF prev
<1>2. Lined(none) /\ Lined(raised)
  BY DEF Lined, Fields
<1>3. Lined(child)
  BY SetActiveChildLined
<1> HIDE DEF raised, child
<1>4. Lined(afloat)
  BY <1>2, ReconcileLined
<1>5. Lined(tiled)
  BY <1>3 DEF Lined, Fields
<1> HIDE DEF none, afloat, tiled
<1>6. Lined(chosen)
  BY <1>2, <1>4, <1>5
<1> HIDE DEF chosen
<1>7. Lined(ReconcileFloating(chosen, prev, s)) /\ Lined(ReconcileTiling(chosen, prev, t.column[prev]))
  BY <1>6, ReconcileLined
<1>8. Lined(released)
  BY <1>6, <1>7
<1> HIDE DEF released
<1> QED
  BY <1>1, <1>8, ReconcileLined

\* A new column is one that no window is in.
LEMMA InsertColumnLined ==
  ASSUME NEW t, Inv(t), Lined(t), NEW s, NEW o, NEW i, NEW c \in Column, Unused(t, c)
  PROVE  Lined(InsertColumn(t, s, o, i, c))
<1> DEFINE r == InsertColumn(t, s, o, i, c)
<1>1. /\ DOMAIN r = Fields /\ r.column = t.column /\ r.output = t.output
      /\ r.colOutput = [t.colOutput EXCEPT ![c] = o]
  BY DEF InsertColumn, Lined, Fields
<1>2. /\ t.column \in [Window -> Maybe(Column)] /\ t.colOutput \in [Column -> Maybe(Output)]
      /\ \A w \in Window : t.column[w] # c
  BY DEF Inv, TreeType, Unused
<1> HIDE DEF r
<1>3. \A w \in Window : t.column[w] # None => r.colOutput[t.column[w]] = t.colOutput[t.column[w]]
  BY <1>1, <1>2 DEF Maybe
<1>4. Lined(r)
  BY <1>1, <1>3 DEF Lined
<1> QED
  BY <1>4 DEF r

LEMMA ColumnsLined ==
  ASSUME NEW t, Inv(t), Lined(t), HasUnused(t), NEW s, NEW o
  PROVE  /\ Lined(InsertFirst(t, s, o)) /\ Lined(InsertLast(t, s, o)) /\ Lined(EnsureColumn(t, s, o))
<1>1. NewColumn(t) \in Column /\ Unused(t, NewColumn(t))
  BY NewColumnUnused
<1>2. Lined(InsertFirst(t, s, o)) /\ Lined(InsertLast(t, s, o))
  BY <1>1, InsertColumnLined DEF InsertFirst, InsertLast
<1> QED
  BY <1>2 DEF EnsureColumn

-----------------------------------------------------------------------------
(* One window moves.                                                        *)

ShiftFields == DestroyFields \cup NewFields

\* Only w has another place than before, and only columns of C are new.
Shifts(t, r, w, C) ==
  /\ Inv(r) /\ Lined(r) /\ Same(t, r, ShiftFields)
  /\ \A x \in Window \ {w} : r.column[x] = t.column[x] /\ r.workspace[x] = t.workspace[x]
  /\ \A u \in Workspace : /\ ToSet(t.columns[u]) \subseteq ToSet(r.columns[u])
                          /\ ToSet(r.columns[u]) \subseteq ToSet(t.columns[u]) \cup C
                          /\ \A c \in ToSet(t.columns[u]) : r.colOutput[c] = t.colOutput[c]

LEMMA ShiftsNowhere ==
  ASSUME NEW t, Inv(t), Lined(t), NEW w
  PROVE  Shifts(t, t, w, {})
BY DEF Shifts, Same, Lined

LEMMA ShiftsTwice ==
  ASSUME NEW t, NEW r, NEW q, NEW w, NEW C, NEW D, Shifts(t, r, w, C), Shifts(r, q, w, D)
  PROVE  Shifts(t, q, w, C \cup D)
<1>1. Same(t, q, ShiftFields)
  BY DEF Shifts, Same
<1>2. \A x \in Window \ {w} : q.column[x] = t.column[x] /\ q.workspace[x] = t.workspace[x]
  BY DEF Shifts
<1>3. ASSUME NEW u \in Workspace
      PROVE  /\ ToSet(t.columns[u]) \subseteq ToSet(q.columns[u])
             /\ ToSet(q.columns[u]) \subseteq ToSet(t.columns[u]) \cup (C \cup D)
             /\ \A c \in ToSet(t.columns[u]) : q.colOutput[c] = t.colOutput[c]
  BY DEF Shifts
<1> QED
  BY <1>1, <1>2, <1>3 DEF Shifts

LEMMA MovedShifts ==
  ASSUME NEW t, Inv(t), NEW r, Inv(r), Lined(r), Same(t, r, DestroyFields), NEW w \in Window,
         NEW s, NEW c, Moved(t, r, w, s, c)
  PROVE  Shifts(t, r, w, {}) /\ r.workspace[w] = s /\ r.column[w] = c
<1>1. /\ t.workspace \in [Window -> Maybe(Workspace)] /\ t.column \in [Window -> Maybe(Column)]
      /\ r.workspace = [t.workspace EXCEPT ![w] = s] /\ r.column = [t.column EXCEPT ![w] = c]
  BY DEF Inv, TreeType, Moved, Put
<1>2. r.columns = t.columns /\ r.colOutput = t.colOutput
  BY DEF Same, Fields, DestroyFields, DetachFields, ColumnFields, FloatFields
<1>3. Same(t, r, ShiftFields)
  BY DEF Same, ShiftFields
<1> QED
  BY <1>1, <1>2, <1>3 DEF Shifts

LEMMA DetachedShifts ==
  ASSUME NEW t, Inv(t), NEW r, Inv(r), Lined(r), Same(t, r, DetachFields), NEW w \in Window,
         NEW s, NEW c, Moved(t, r, w, s, c)
  PROVE  Shifts(t, r, w, {}) /\ r.workspace[w] = s /\ r.column[w] = c
<1>1. Same(t, r, DestroyFields)
  BY DEF Same, DestroyFields
<1> QED
  BY <1>1, MovedShifts

LEMMA InsertColumnShifts ==
  ASSUME NEW t, Inv(t), Lined(t), NEW s \in t.workspaces, NEW o \in Outputs(t), NEW c \in Column,
         Unused(t, c), NEW i \in 1..(Len(t.columns[s]) + 1), NEW w
  PROVE  LET r == InsertColumn(t, s, o, i, c)
         IN  Shifts(t, r, w, {c}) /\ r.column = t.column /\ r.workspace = t.workspace
<1> DEFINE r == InsertColumn(t, s, o, i, c)
<1>1. Inv(r) /\ Widens(t, r, s, c)
  BY InsertColumnKeeps
<1>2. Lined(r)
  BY InsertColumnLined
<1>3. /\ r.columns = [t.columns EXCEPT ![s] = InsertAt(@, i, c)]
      /\ r.colOutput = [t.colOutput EXCEPT ![c] = o]
  BY DEF InsertColumn, Lined, Fields
<1> HIDE DEF r
<1>4. /\ t.columns \in [Workspace -> Seq(Column)] /\ t.colOutput \in [Column -> Maybe(Output)]
      /\ s \in Workspace
  BY DEF Inv, TreeType
<1>5. ToSet(InsertAt(t.columns[s], i, c)) = ToSet(t.columns[s]) \cup {c}
  BY <1>4, InsertAtSet
<1>6. \A u \in Workspace : c \notin ToSet(t.columns[u]) /\ ToSet(t.columns[u]) \subseteq Column
  BY <1>4, UnusedColumn, EmptyList
<1>7. Same(t, r, NewFields)
  BY <1>1 DEF Widens
<1>8. r.column = t.column /\ r.workspace = t.workspace /\ Same(t, r, ShiftFields)
  BY <1>7 DEF Same, Fields, NewFields, ShiftFields
<1>9. ASSUME NEW u \in Workspace
      PROVE  /\ ToSet(t.columns[u]) \subseteq ToSet(r.columns[u])
             /\ ToSet(r.columns[u]) \subseteq ToSet(t.columns[u]) \cup {c}
             /\ \A b \in ToSet(t.columns[u]) : r.colOutput[b] = t.colOutput[b]
  <2>1. ToSet(r.columns[u]) \in {ToSet(t.columns[u]), ToSet(t.columns[u]) \cup {c}}
    <3>1. CASE u = s
      BY <1>3, <1>4, <1>5, <3>1
    <3>2. CASE u # s
      BY <1>3, <1>4, <3>2
    <3> QED
      BY <3>1, <3>2
  <2>2. ToSet(t.columns[u]) \subseteq ToSet(r.columns[u])
    BY <1>1 DEF Widens
  <2>3. \A b \in ToSet(t.columns[u]) : r.colOutput[b] = t.colOutput[b]
    BY <1>3, <1>4, <1>6
  <2> QED
    BY <2>1, <2>2, <2>3
<1>10. Shifts(t, r, w, {c})
  BY <1>1, <1>2, <1>8, <1>9 DEF Shifts
<1> QED
  BY <1>8, <1>10 DEF r

LEMMA ColumnsShift ==
  ASSUME NEW t, Inv(t), Lined(t), HasUnused(t), NEW s \in t.workspaces, NEW o \in Outputs(t), NEW w
  PROVE  /\ LET r == InsertFirst(t, s, o)
            IN  Shifts(t, r, w, {NewColumn(t)}) /\ r.column = t.column /\ r.workspace = t.workspace
         /\ LET r == InsertLast(t, s, o)
            IN  Shifts(t, r, w, {NewColumn(t)}) /\ r.column = t.column /\ r.workspace = t.workspace
         /\ LET r == EnsureColumn(t, s, o)
            IN  /\ Shifts(t, r, w, {ColumnThere(t, s, o)})
                /\ r.column = t.column /\ r.workspace = t.workspace
<1> DEFINE c == NewColumn(t)
           first == InsertFirst(t, s, o)
           last == InsertLast(t, s, o)
<1>1. c \in Column /\ Unused(t, c)
  BY NewColumnUnused
<1>2. t.columns[s] \in Seq(Column)
  BY DEF Inv, TreeType
<1>3. 1 \in 1..(Len(t.columns[s]) + 1) /\ Len(t.columns[s]) + 1 \in 1..(Len(t.columns[s]) + 1)
  BY <1>2
<1>4. first = InsertColumn(t, s, o, 1, c) /\ last = InsertColumn(t, s, o, Len(t.columns[s]) + 1, c)
  BY DEF InsertFirst, InsertLast
<1> HIDE DEF c, first, last
<1>5. Shifts(t, first, w, {c}) /\ first.column = t.column /\ first.workspace = t.workspace
  BY <1>1, <1>3, <1>4, InsertColumnShifts
<1>6. Shifts(t, last, w, {c}) /\ last.column = t.column /\ last.workspace = t.workspace
  BY <1>1, <1>3, <1>4, InsertColumnShifts
<1>7. Shifts(t, t, w, {ColumnThere(t, s, o)})
  BY ShiftsNowhere DEF Shifts
<1>8. EnsureColumn(t, s, o) = IF ColumnFor(t, s, o) # None THEN t ELSE first
  BY DEF EnsureColumn, first
<1>9. ColumnFor(t, s, o) = None => ColumnThere(t, s, o) = c
  BY DEF ColumnThere, c
<1> HIDE DEF ColumnThere
<1>10. LET r == EnsureColumn(t, s, o)
       IN  /\ Shifts(t, r, w, {ColumnThere(t, s, o)})
           /\ r.column = t.column /\ r.workspace = t.workspace
  BY <1>5, <1>7, <1>8, <1>9
<1> QED
  BY <1>5, <1>6, <1>10 DEF first, last, c

\* Where w is now is the only column that may be new.
Shifted(t, r, w) == Shifts(t, r, w, {r.column[w]})

LEMMA ShiftsShifted ==
  ASSUME NEW t, NEW r, NEW w, NEW C, Shifts(t, r, w, C), C \subseteq {r.column[w]}
  PROVE  Shifted(t, r, w)
<1>1. ASSUME NEW u \in Workspace
      PROVE  ToSet(r.columns[u]) \subseteq ToSet(t.columns[u]) \cup {r.column[w]}
  <2>1. ToSet(r.columns[u]) \subseteq ToSet(t.columns[u]) \cup C
    BY DEF Shifts
  <2> QED
    BY <2>1
<1> QED
  BY <1>1 DEF Shifts, Shifted

LEMMA MoveToColumnShifts ==
  ASSUME NEW t, Inv(t), Lined(t), NEW w \in Window, t.workspace[w] # None,
         NEW s \in Workspace, NEW c \in ToSet(t.columns[s]), NEW d
  PROVE  LET r == MoveToColumn(t, w, c, d)
         IN  Shifts(t, r, w, {}) /\ r.workspace[w] = s /\ r.column[w] = c
<1> DEFINE r == MoveToColumn(t, w, c, d)
<1>1. /\ Moves(t, r) /\ r.workspace[w] = s
      /\ IF t.column[w] = c THEN r = t ELSE Same(t, r, DetachFields) /\ Moved(t, r, w, s, c)
  BY MoveToColumnKeeps
<1>2. Lined(r)
  <2> DEFINE i == IF d = "down" THEN 1 ELSE Len(t.children[c]) + 1
             a == Detach(t, w)
             x == t.activeChild[c]
             r1 == InsertChild(a, c, w, i)
             r2 == AddBesideActive(a, c, x, w)
  <2>1. r = IF t.column[w] = c THEN t ELSE IF d \in {"up", "down"} THEN r1 ELSE r2
    BY DEF MoveToColumn
  <2>2. Lined(a)
    BY DetachLined
  <2> HIDE DEF a, i, x
  <2>3. Lined(r1) /\ Lined(r2)
    BY <2>2, ChildrenLined
  <2> HIDE DEF r1, r2, r
  <2> QED
    BY <2>1, <2>3
<1> HIDE DEF r
<1>3. CASE t.column[w] = c
  BY <1>1, <1>3, ShiftsNowhere DEF r
<1>4. CASE t.column[w] # c
  <2>1. Inv(r) /\ Same(t, r, DetachFields) /\ Moved(t, r, w, s, c)
    BY <1>1, <1>4 DEF Moves
  <2>2. Shifts(t, r, w, {}) /\ r.workspace[w] = s /\ r.column[w] = c
    BY <1>2, <2>1, DetachedShifts
  <2> QED
    BY <2>2 DEF r
<1> QED
  BY <1>3, <1>4

LEMMA FloatThereShifts ==
  ASSUME NEW t, Inv(t), Lined(t), NEW w \in Window, t.workspace[w] # None, NEW s \in t.workspaces
  PROVE  LET r == AddFloating(Detach(t, w), s, w)
         IN  Shifted(t, r, w) /\ r.workspace[w] = s /\ r.column[w] = None
<1> DEFINE a == Detach(t, w)
           r == AddFloating(a, s, w)
<1>1. Moves(t, r) /\ Same(t, r, DetachFields) /\ Moved(t, r, w, s, None)
  BY FloatThere
<1>2. Lined(a)
  BY DetachLined
<1> HIDE DEF a
<1>3. Lined(r) /\ Inv(r)
  BY <1>1, <1>2, AddFloatingLined DEF Moves
<1> HIDE DEF r
<1>4. Shifts(t, r, w, {}) /\ r.workspace[w] = s /\ r.column[w] = None
  BY <1>1, <1>3, DetachedShifts
<1>5. Shifted(t, r, w)
  BY <1>4, ShiftsShifted
<1> QED
  BY <1>4, <1>5 DEF r, a

\* A column is there, or is made, and the window moves to it.
LEMMA WidenedShifts ==
  ASSUME NEW t, Inv(t), NEW w \in Window, t.workspace[w] # None, NEW s \in Workspace,
         NEW wider, NEW c, Shifts(t, wider, w, {c}), wider.workspace = t.workspace,
         c \in ToSet(wider.columns[s]), NEW d
  PROVE  LET r == MoveToColumn(wider, w, c, d)
         IN  Shifted(t, r, w) /\ r.workspace[w] = s /\ r.column[w] = c
<1> DEFINE r == MoveToColumn(wider, w, c, d)
<1>1. Inv(wider) /\ Lined(wider)
  BY DEF Shifts
<1>2. Shifts(wider, r, w, {}) /\ r.workspace[w] = s /\ r.column[w] = c
  BY <1>1, MoveToColumnShifts
<1> HIDE DEF r
<1>3. Shifts(t, r, w, {c} \cup {})
  BY <1>2, ShiftsTwice
<1>4. Shifted(t, r, w)
  BY <1>2, <1>3, ShiftsShifted
<1> QED
  BY <1>2, <1>4 DEF r

LEMMA MoveToWorkspaceShifts ==
  ASSUME NEW t, Inv(t), Lined(t), HasUnused(t), NEW w \in Window, t.workspace[w] # None,
         NEW s \in t.workspaces
  PROVE  LET r == MoveToWorkspace(t, w, s)
         IN  Shifted(t, r, w) /\ r.workspace[w] = s
<1> DEFINE o == t.output[w]
           ready == EnsureColumn(t, s, o)
           c == ColumnThere(t, s, o)
           tiled == MoveToColumn(ready, w, c, "none")
           afloat == AddFloating(Detach(t, w), s, w)
<1>1. MoveToWorkspace(t, w, s) = IF t.workspace[w] = s THEN t
                                 ELSE IF IsFloating(t, w) THEN afloat ELSE tiled
  BY DEF MoveToWorkspace, ColumnThere
<1>2. o \in Outputs(t) /\ s \in Workspace
  BY WindowShown DEF Inv, TreeType
<1>3. Widens(t, ready, s, c) /\ Shifts(t, ready, w, {c}) /\ ready.workspace = t.workspace
  BY <1>2, EnsureColumnKeeps, ColumnsShift
<1> HIDE DEF ready, c
<1>4. c \in ToSet(ready.columns[s])
  BY <1>3 DEF Widens
<1>5. Shifted(t, tiled, w) /\ tiled.workspace[w] = s
  BY <1>2, <1>3, <1>4, WidenedShifts
<1>6. Shifted(t, afloat, w) /\ afloat.workspace[w] = s
  BY FloatThereShifts
<1>7. Shifted(t, t, w)
  BY ShiftsNowhere, ShiftsShifted
<1> HIDE DEF afloat, tiled
<1> QED
  BY <1>1, <1>5, <1>6, <1>7

LEMMA MoveToNextOutputShifts ==
  ASSUME NEW t, Inv(t), Lined(t), NEW w \in Window, NEW b \in Column, t.column[w] = b,
         t.activeColumn[t.workspace[w]] # None, NEW d
  PROVE  LET r == MoveToNextOutput(t, w, t.colOutput[b], d)
         IN  Shifted(t, r, w) /\ r.workspace[w] = t.workspace[w]
<1> DEFINE o == t.colOutput[b]
           s == t.workspace[w]
           active == t.activeColumn[s]
           c == IF d = "down" /\ t.colOutput[active] = o THEN active
                ELSE IF d = "left" THEN ColumnLast(t, s, o) ELSE ColumnFirst(t, s, o)
           r == MoveToColumn(t, w, c, d)
<1>1. MoveToNextOutput(t, w, o, d) = IF OutputInDirection(t, o, d) = None THEN t ELSE r
  BY DEF MoveToNextOutput
<1>2. s \in Workspace /\ s # None /\ b \in ToSet(t.columns[s])
  BY ChildHome
<1>3. active \in ToSet(t.columns[s])
  BY <1>2 DEF Inv, PathInv, Maybe
<1>4. ColumnFirst(t, s, o) \in ToSet(t.columns[s]) /\ ColumnLast(t, s, o) \in ToSet(t.columns[s])
  BY <1>2, EndsThere
<1>5. c \in ToSet(t.columns[s])
  BY <1>3, <1>4
<1> HIDE DEF c
<1>6. Shifts(t, r, w, {}) /\ r.workspace[w] = s
  BY <1>2, <1>5, MoveToColumnShifts
<1> HIDE DEF r
<1>7. Shifted(t, r, w) /\ Shifted(t, t, w)
  BY <1>6, ShiftsNowhere, ShiftsShifted
<1> QED
  BY <1>1, <1>6, <1>7

LEMMA MoveInColumnShifts ==
  ASSUME NEW t, Inv(t), Lined(t), NEW w \in Window, NEW b \in Column, t.column[w] = b,
         t.activeColumn[t.workspace[w]] # None, NEW d
  PROVE  LET r == MoveInColumn(t, w, d)
         IN  Shifted(t, r, w) /\ r.workspace[w] = t.workspace[w]
<1> DEFINE siblings == t.children[b]
           fixed == IF d = "up" THEN PrevIn(siblings, w) ELSE NextIn(siblings, w)
           after == d = "down"
           a == Detach(t, w)
           r == AddSibling(a, fixed, w, after)
           next == MoveToNextOutput(t, w, t.colOutput[b], d)
<1>1. b # None
  BY ChildHome
<1>2. t.output[w] = t.colOutput[b]
  BY <1>1 DEF Lined
<1>3. MoveInColumn(t, w, d) = IF fixed = None THEN next ELSE r
  BY <1>2 DEF MoveInColumn
<1>4. ASSUME fixed # None
      PROVE  Shifted(t, r, w) /\ r.workspace[w] = t.workspace[w]
  <2>1. Moves(t, r) /\ Same(t, r, DetachFields) /\ Moved(t, r, w, t.workspace[w], b)
    BY <1>4, MoveBesideKeeps
  <2>2. Lined(a)
    BY DetachLined
  <2> HIDE DEF a, fixed, after
  <2>3. Lined(r) /\ Inv(r)
    BY <2>1, <2>2, ChildrenLined DEF Moves
  <2> HIDE DEF r
  <2>4. Shifts(t, r, w, {}) /\ r.workspace[w] = t.workspace[w]
    BY <2>1, <2>3, DetachedShifts
  <2> QED
    BY <2>4, ShiftsShifted
<1>5. Shifted(t, next, w) /\ next.workspace[w] = t.workspace[w]
  BY MoveToNextOutputShifts
<1> HIDE DEF r, fixed, next
<1> QED
  BY <1>3, <1>4, <1>5

LEMMA MoveAcrossShifts ==
  ASSUME NEW t, Inv(t), Lined(t), HasUnused(t), NEW w \in Window, NEW b \in Column, t.column[w] = b,
         t.activeColumn[t.workspace[w]] # None, NEW d
  PROVE  LET r == MoveAcross(t, w, d)
         IN  Shifted(t, r, w) /\ r.workspace[w] = t.workspace[w]
<1> DEFINE s == t.colWorkspace[b]
           o == t.colOutput[b]
           near == IF d = "left" THEN ColumnBefore(t, b) ELSE ColumnAfter(t, b)
           wider == IF d = "left" THEN InsertFirst(t, s, o) ELSE InsertLast(t, s, o)
           c == NewColumn(t)
           across == MoveToColumn(t, w, near, d)
           next == MoveToNextOutput(t, w, o, d)
           own == MoveToColumn(wider, w, c, d)
<1>1. MoveAcross(t, w, d) = IF near # None THEN across
                            ELSE IF Len(t.children[b]) = 1 THEN next ELSE own
  BY DEF MoveAcross
<1>2. /\ t.workspace[w] # None /\ t.workspace[w] = s /\ s \in Workspace /\ s \in t.workspaces
      /\ b \in ToSet(t.columns[s])
  BY ChildHome
<1>3. o \in Outputs(t)
  BY <1>2 DEF Inv, OutputInv
<1>4. ASSUME near # None PROVE Shifted(t, across, w) /\ across.workspace[w] = s
  <2>1. near \in ToSet(t.columns[s])
    BY <1>2, <1>4, BesideColumns
  <2> HIDE DEF near
  <2>2. Shifts(t, across, w, {}) /\ across.workspace[w] = s
    BY <1>2, <2>1, MoveToColumnShifts
  <2> HIDE DEF across
  <2> QED
    BY <2>2, ShiftsShifted
<1>5. Shifted(t, next, w) /\ next.workspace[w] = s
  BY <1>2, MoveToNextOutputShifts
<1>6. Shifted(t, own, w) /\ own.workspace[w] = s
  <2>1. /\ Shifts(t, InsertFirst(t, s, o), w, {c}) /\ InsertFirst(t, s, o).workspace = t.workspace
        /\ Shifts(t, InsertLast(t, s, o), w, {c}) /\ InsertLast(t, s, o).workspace = t.workspace
    BY <1>2, <1>3, ColumnsShift
  <2>2. Widens(t, InsertFirst(t, s, o), s, c) /\ Widens(t, InsertLast(t, s, o), s, c)
    BY <1>2, <1>3, InsertNewKeeps
  <2>3. Shifts(t, wider, w, {c}) /\ wider.workspace = t.workspace /\ Widens(t, wider, s, c)
    BY <2>1, <2>2
  <2> HIDE DEF wider, c
  <2>4. c \in ToSet(wider.columns[s])
    BY <2>3 DEF Widens
  <2> QED
    BY <1>2, <2>3, <2>4, WidenedShifts
<1> HIDE DEF across, next, own, near
<1> QED
  BY <1>1, <1>2, <1>4, <1>5, <1>6

LEMMA TilingMovedShifts ==
  ASSUME NEW t, Inv(t), Lined(t), HasUnused(t), NEW w \in Window, t.column[w] # None,
         t.activeColumn[t.workspace[w]] # None, NEW d
  PROVE  LET r == TilingMoved(t, w, d)
         IN  Shifted(t, r, w) /\ r.workspace[w] = t.workspace[w]
<1>1. t.column[w] \in Column
  BY DEF Inv, TreeType, Maybe
<1> QED
  BY <1>1, MoveInColumnShifts, MoveAcrossShifts DEF TilingMoved

LEMMA UnfloatShifts ==
  ASSUME NEW t, Inv(t), Lined(t), HasUnused(t), NEW w \in Window, t.workspace[w] # None
  PROVE  LET r == Unfloat(t, w)
         IN  /\ Shifted(t, r, w) /\ r.workspace[w] = t.workspace[w]
             /\ r.column[w] = ColumnThere(Detach(t, w), t.workspace[w], t.output[w])
<1> DEFINE s == t.workspace[w]
           o == t.output[w]
           a == Detach(t, w)
           b == EnsureColumn(a, s, o)
           c == ColumnThere(a, s, o)
           x == b.activeChild[c]
           r == AddBesideActive(b, c, x, w)
<1>1. Unfloat(t, w) = r
  BY DEF Unfloat, ColumnThere
<1>2. s \in t.workspaces /\ s \in Workspace /\ o \in Outputs(t) /\ t.status[w] = "alive"
  BY WindowHome, WindowShown
<1>3. Inv(a) /\ Same(t, a, DetachFields) /\ Moved(t, a, w, None, None) /\ Lined(a)
  BY DetachKeeps, DetachLined
<1> HIDE DEF a, o
<1>4. HasUnused(a)
  BY <1>2, <1>3, UnusedWhenDetached
<1>5. a.workspaces = t.workspaces /\ Outputs(a) = Outputs(t) /\ a.status = t.status
  BY <1>3 DEF Same, Fields, DetachFields, ColumnFields, FloatFields, Outputs
<1>6. Shifts(t, a, w, {}) /\ a.workspace[w] = None
  BY <1>3, DetachedShifts
<1> HIDE DEF s
<1>7. Inv(b) /\ Widens(a, b, s, c) /\ c \in Column
  BY <1>2, <1>3, <1>4, <1>5, EnsureColumnKeeps
<1>8. Shifts(a, b, w, {c}) /\ b.workspace = a.workspace
  <2>1. Inv(a) /\ Lined(a) /\ HasUnused(a) /\ s \in a.workspaces /\ o \in Outputs(a)
    BY <1>2, <1>3, <1>4, <1>5
  <2>2. Shifts(a, b, w, {c}) /\ b.column = a.column /\ b.workspace = a.workspace
    BY <2>1, ColumnsShift
  <2> QED
    BY <2>2
<1> HIDE DEF b, c
<1>9. c \in ToSet(b.columns[s]) /\ b.status[w] = "alive" /\ b.workspace[w] = None /\ Lined(b)
  BY <1>2, <1>5, <1>6, <1>7, <1>8 DEF Shifts, Widens, Same, Fields, NewFields
<1>10. x \in Maybe(ToSet(b.children[c]))
  BY <1>7 DEF Inv, PathInv, Maybe
<1> HIDE DEF x
<1>11. Inv(r) /\ Same(b, r, ColumnFields) /\ Moved(b, r, w, s, c) /\ Lined(r)
  BY <1>2, <1>7, <1>9, <1>10, AddBesideActiveKeeps, ChildrenLined
<1> HIDE DEF r
<1>12. Same(b, r, DestroyFields)
  BY <1>11 DEF Same, DestroyFields, DetachFields
<1>13. Shifts(b, r, w, {}) /\ r.workspace[w] = s /\ r.column[w] = c
  BY <1>7, <1>11, <1>12, MovedShifts
<1>14. Shifts(t, b, w, {} \cup {c})
  BY <1>6, <1>8, ShiftsTwice
<1>15. Shifts(t, r, w, ({} \cup {c}) \cup {})
  BY <1>13, <1>14, ShiftsTwice
<1>16. Shifted(t, r, w)
  BY <1>13, <1>15, ShiftsShifted
<1> QED
  BY <1>1, <1>13, <1>16 DEF s, c, o, a

-----------------------------------------------------------------------------
(* A tidy tree: nothing is empty, and the active output is the active one's. *)

\* Every column but those of B has a window.
OccupiedBut(t, B) ==
  \A s \in Workspace : \A c \in ToSet(t.columns[s]) \ B : \E x \in Window : t.column[x] = c

\* Every workspace but the active one and those of S has a window.
InhabitedBut(t, S) ==
  \A s \in t.workspaces \ ({t.activeWorkspace} \cup S) : \E x \in Window : t.workspace[x] = s

\* An active column is on the active output, whatever the focus mode.
There(t) ==
  LET c == t.activeColumn[t.activeWorkspace]
  IN  c # None => t.activeOutput = t.colOutput[c]

TidyBut(t, B, S) == Lined(t) /\ There(t) /\ OccupiedBut(t, B) /\ InhabitedBut(t, S)
Tidy(t) == TidyBut(t, {}, {})

TidyFields == {"columns", "column", "workspace", "workspaces", "activeWorkspace", "activeColumn",
               "activeOutput", "colOutput", "output"}

LEMMA TidySame ==
  ASSUME NEW t, NEW B, NEW S, TidyBut(t, B, S), NEW r, NEW F, Same(t, r, F), F \cap TidyFields = {}
  PROVE  TidyBut(r, B, S)
<1>1. /\ "columns" \notin F /\ "column" \notin F /\ "workspace" \notin F /\ "workspaces" \notin F
      /\ "activeWorkspace" \notin F /\ "activeColumn" \notin F /\ "activeOutput" \notin F
      /\ "colOutput" \notin F /\ "output" \notin F
  BY DEF TidyFields
<1>2. /\ r.columns = t.columns /\ r.column = t.column /\ r.workspace = t.workspace
      /\ r.workspaces = t.workspaces /\ r.activeWorkspace = t.activeWorkspace
      /\ r.activeColumn = t.activeColumn /\ r.activeOutput = t.activeOutput
      /\ r.colOutput = t.colOutput
  BY <1>1 DEF Same, Fields
<1>3. Lined(r)
  BY <1>1, LinedSame DEF TidyBut
<1> QED
  BY <1>2, <1>3 DEF TidyBut, There, OccupiedBut, InhabitedBut

LEMMA TidyMark ==
  ASSUME NEW t, NEW B, NEW S, TidyBut(t, B, S), NEW nodes
  PROVE  TidyBut(Mark(t, nodes), B, S)
<1> DEFINE r == Mark(t, nodes)
<1>1. Same(t, r, {"dirty"})
  BY MarkEffect DEF TidyBut, Lined
<1>2. {"dirty"} \cap TidyFields = {}
  BY DEF TidyFields
<1> HIDE DEF r
<1>3. TidyBut(r, B, S)
  BY <1>1, <1>2, TidySame
<1> QED
  BY <1>3 DEF r

\* The column a window is in is not empty, and neither is its workspace.
LEMMA TidyBy ==
  ASSUME NEW t, NEW B, NEW S, TidyBut(t, B, S), NEW w \in Window
  PROVE  /\ TidyBut(t, B \ {t.column[w]}, S)
         /\ TidyBut(t, B, S \ {t.workspace[w]})
         /\ TidyBut(t, B, S \ {t.activeWorkspace})
BY DEF TidyBut, OccupiedBut, InhabitedBut

\* What a window leaves behind may be empty.
LEMMA ShiftTidy ==
  ASSUME NEW t, Inv(t), NEW S, TidyBut(t, {}, S), NEW w \in Window, NEW r, Shifted(t, r, w)
  PROVE  /\ Inv(r) /\ r.activeWorkspace = t.activeWorkspace
         /\ TidyBut(r, {t.column[w]}, (S \cup {t.workspace[w]}) \ {r.workspace[w]})
<1>1. /\ Inv(r) /\ Lined(r) /\ r.workspaces = t.workspaces /\ r.activeWorkspace = t.activeWorkspace
      /\ r.activeColumn = t.activeColumn /\ r.activeOutput = t.activeOutput
      /\ \A x \in Window \ {w} : r.column[x] = t.column[x] /\ r.workspace[x] = t.workspace[x]
  BY DEF Shifted, Shifts, Same, Fields, ShiftFields, DestroyFields, DetachFields, ColumnFields,
         FloatFields, NewFields
<1>2. There(r)
  <2> DEFINE s == t.activeWorkspace
             c == t.activeColumn[s]
  <2>1. s \in Workspace
    BY DEF Inv, TreeType
  <2>2. c # None => c \in ToSet(t.columns[s])
    BY <2>1 DEF Inv, PathInv, Maybe
  <2>3. c # None => r.colOutput[c] = t.colOutput[c]
    BY <2>1, <2>2 DEF Shifted, Shifts
  <2> QED
    BY <1>1, <2>3 DEF TidyBut, There
<1>3. OccupiedBut(r, {t.column[w]})
  <2>1. SUFFICES ASSUME NEW s \in Workspace, NEW c \in ToSet(r.columns[s]), c # t.column[w]
                 PROVE  \E x \in Window : r.column[x] = c
    BY DEF OccupiedBut
  <2>2. c \in ToSet(t.columns[s]) \/ c = r.column[w]
    BY DEF Shifted, Shifts
  <2>3. CASE c = r.column[w]
    BY <2>3
  <2>4. CASE c \in ToSet(t.columns[s])
    <3>1. PICK x \in Window : t.column[x] = c
      BY <2>4 DEF TidyBut, OccupiedBut
    <3>2. r.column[x] = c
      BY <1>1, <2>1, <3>1
    <3> QED
      BY <3>2
  <2> QED
    BY <2>2, <2>3, <2>4
<1>4. InhabitedBut(r, (S \cup {t.workspace[w]}) \ {r.workspace[w]})
  BY <1>1 DEF TidyBut, InhabitedBut
<1> QED
  BY <1>1, <1>2, <1>3, <1>4 DEF TidyBut

LEMMA WorkspaceDestroyTidy ==
  ASSUME NEW t, Inv(t), NEW B, NEW S, TidyBut(t, B, S), NEW u \in Workspace,
         \A c \in ToSet(t.columns[u]) : \E x \in Window : t.column[x] = c
  PROVE  LET r == WorkspaceConsiderDestroy(t, u)
         IN  /\ TidyBut(r, B, S \ {u}) /\ Inv(r) /\ Same(t, r, {"workspaces", "dirty"})
<1> DEFINE r == WorkspaceConsiderDestroy(t, u)
<1>1. Inv(r) /\ Same(t, r, {"workspaces", "dirty"})
  BY WorkspaceConsiderDestroyKeeps
<1>2. \/ r.workspaces = t.workspaces \ {u}
      \/ /\ r.workspaces = t.workspaces
         /\ u \notin t.workspaces \/ u = t.activeWorkspace \/ t.columns[u] # << >> \/ t.floating[u] # << >>
  <2>1. DOMAIN t = Fields
    BY DEF Inv, TreeType
  <2> QED
    BY <2>1 DEF WorkspaceConsiderDestroy, Fields
<1> HIDE DEF r
<1>3. /\ r.columns = t.columns /\ r.column = t.column /\ r.workspace = t.workspace
      /\ r.activeWorkspace = t.activeWorkspace /\ r.activeColumn = t.activeColumn
      /\ r.activeOutput = t.activeOutput /\ r.colOutput = t.colOutput
  BY <1>1 DEF Same, Fields
<1>4. Lined(r)
  BY <1>1, LinedSame DEF TidyBut
<1>5. ASSUME t.columns[u] # << >> \/ t.floating[u] # << >>
      PROVE  \E x \in Window : t.workspace[x] = u
  <2>1. t.columns[u] \in Seq(Column) /\ t.floating[u] \in Seq(Window)
    BY DEF Inv, TreeType
  <2>2. CASE t.columns[u] # << >>
    <3>1. PICK c \in ToSet(t.columns[u]) : TRUE
      BY <2>1, <2>2, EmptyList
    <3>2. PICK x \in Window : t.column[x] = c
      BY <3>1
    <3>3. c \in Column /\ t.colWorkspace[c] = u
      BY <2>1, <3>1, EmptyList DEF Inv, PlaceInv
    <3>4. t.workspace[x] = u
      BY <3>2, <3>3, ChildHome
    <3> QED
      BY <3>4
  <2>3. CASE t.floating[u] # << >>
    <3>1. PICK x \in ToSet(t.floating[u]) : TRUE
      BY <2>1, <2>3, EmptyList
    <3>2. x \in Window
      BY <2>1, <3>1, EmptyList
    <3>3. t.workspace[x] = u
      BY <3>1, <3>2 DEF Inv, PlaceInv
    <3> QED
      BY <3>2, <3>3
  <2> QED
    BY <1>5, <2>2, <2>3
<1>6. InhabitedBut(r, S \ {u})
  BY <1>2, <1>3, <1>5 DEF TidyBut, InhabitedBut
<1>7. There(r) /\ OccupiedBut(r, B)
  BY <1>3 DEF TidyBut, There, OccupiedBut
<1>8. TidyBut(r, B, S \ {u})
  BY <1>4, <1>6, <1>7 DEF TidyBut
<1> QED
  BY <1>1, <1>8 DEF r

\* An empty column goes, and the next active one is on the same output.
LEMMA NarrowsTidy ==
  ASSUME NEW t, Inv(t), NEW S, NEW s \in Workspace, NEW c \in ToSet(t.columns[s]), t.children[c] = << >>,
         TidyBut(t, {c}, S), NEW next \in Maybe(ToSet(t.columns[s]) \ {c}),
         next # None => t.colOutput[next] = t.colOutput[c], NEW r, Narrows(t, r, s, c, next)
  PROVE  Inv(r) /\ TidyBut(r, {}, S)
<1>1. Inv(r)
  BY NarrowsKeeps
<1>2. /\ Same(t, r, {"columns", "activeColumn", "dirty"})
      /\ r.columns = [t.columns EXCEPT ![s] = RemoveFirst(t.columns[s], c)]
      /\ r.activeColumn = [t.activeColumn EXCEPT ![s] = IF t.activeColumn[s] = c THEN next
                                                        ELSE t.activeColumn[s]]
  BY DEF Narrows, Put
<1>3. /\ r.column = t.column /\ r.workspace = t.workspace /\ r.workspaces = t.workspaces
      /\ r.activeWorkspace = t.activeWorkspace /\ r.activeOutput = t.activeOutput
      /\ r.colOutput = t.colOutput
  BY <1>2 DEF Same, Fields
<1>4. /\ t.columns \in [Workspace -> Seq(Column)] /\ t.activeColumn \in [Workspace -> Maybe(Column)]
      /\ \A u \in Workspace : IsInjective(t.columns[u])
      /\ \A u \in Workspace : \A b \in ToSet(t.columns[u]) : t.colWorkspace[b] = u
      /\ t.activeWorkspace \in Workspace
  BY DEF Inv, TreeType, PlaceInv
<1>5. ToSet(RemoveFirst(t.columns[s], c)) = ToSet(t.columns[s]) \ {c}
  BY <1>4, RemoveFirstSet
<1>6. Lined(r)
  BY <1>2, LinedSame DEF TidyBut
<1>7. OccupiedBut(r, {})
  <2>1. SUFFICES ASSUME NEW u \in Workspace, NEW b \in ToSet(r.columns[u])
                 PROVE  \E x \in Window : r.column[x] = b
    BY DEF OccupiedBut
  <2>2. b \in ToSet(t.columns[u]) /\ b # c
    <3>1. CASE u = s
      BY <1>2, <1>4, <1>5, <2>1, <3>1
    <3>2. CASE u # s
      <4>1. r.columns[u] = t.columns[u]
        BY <1>2, <1>4, <3>2
      <4>2. t.colWorkspace[c] = s
        BY <1>4
      <4> QED
        BY <1>4, <2>1, <3>2, <4>1, <4>2
    <3> QED
      BY <3>1, <3>2
  <2> QED
    BY <1>3, <2>2 DEF TidyBut, OccupiedBut
<1>8. There(r)
  <2>1. CASE t.activeWorkspace = s /\ t.activeColumn[s] = c
    <3>1. r.activeColumn[s] = next /\ t.activeOutput = t.colOutput[c]
      <4>1. c # None
        <5>1. c \in Column
          BY <1>4, EmptyList
        <5> QED
          BY <5>1, NodesAssumption
      <4> QED
        BY <1>2, <1>4, <2>1, <4>1 DEF TidyBut, There
    <3> QED
      BY <1>3, <2>1, <3>1 DEF There
  <2>2. CASE ~(t.activeWorkspace = s /\ t.activeColumn[s] = c)
    <3>1. r.activeColumn[t.activeWorkspace] = t.activeColumn[t.activeWorkspace]
      BY <1>2, <1>4, <2>2
    <3> QED
      BY <1>3, <3>1 DEF TidyBut, There
  <2> QED
    BY <2>1, <2>2
<1>9. InhabitedBut(r, S)
  BY <1>3 DEF TidyBut, InhabitedBut
<1> QED
  BY <1>1, <1>6, <1>7, <1>8, <1>9 DEF TidyBut

LEMMA ColumnDestroyTidy ==
  ASSUME NEW t, Inv(t), NEW S, NEW s \in Workspace, NEW c \in ToSet(t.columns[s]), TidyBut(t, {c}, S)
  PROVE  LET r == ColumnConsiderDestroy(t, c)
         IN  /\ TidyBut(r, {}, S \ {s}) /\ Inv(r)
             /\ Same(t, r, {"columns", "activeColumn", "workspaces", "dirty"})
<1> DEFINE next == IF ColumnBefore(t, c) # None THEN ColumnBefore(t, c) ELSE ColumnAfter(t, c)
           unlisted == [t EXCEPT !.columns[s] = RemoveFirst(@, c),
                                 !.activeColumn[s] = IF @ = c THEN next ELSE @]
           marked == IF t.activeColumn[s] = c THEN Mark(unlisted, {next} \ {None}) ELSE unlisted
           a == WorkspaceConsiderDestroy(marked, s)
           r == Mark(a, {c, s})
           all == ColumnConsiderDestroy(t, c)
<1>1. /\ DOMAIN t = Fields /\ t.colWorkspace[c] = s /\ t.columns[s] \in Seq(Column)
      /\ t.dirty \subseteq Node
  BY DEF Inv, TreeType, PlaceInv, OtherType, NoteType
<1>2. all = IF t.children[c] # << >> THEN t ELSE r
  BY <1>1 DEF ColumnConsiderDestroy
<1>3. Inv(all) /\ Same(t, all, {"columns", "activeColumn", "workspaces", "dirty"})
  BY ColumnConsiderDestroyKeeps
<1>4. /\ next \in Maybe(ToSet(t.columns[s]) \ {c})
      /\ next # None => t.colOutput[next] = t.colOutput[c]
  BY BesideColumns DEF Maybe
<1>5. c \in Column /\ {next} \ {None} \subseteq Node
  BY <1>1, <1>4, EmptyList DEF Node, Maybe
<1> HIDE DEF next, all
<1>6. CASE t.children[c] = << >>
  <2>1. /\ Same(t, unlisted, {"columns", "activeColumn"}) /\ unlisted.dirty = t.dirty
        /\ unlisted.columns = Put(t.columns, s, RemoveFirst(t.columns[s], c))
        /\ unlisted.activeColumn = Put(t.activeColumn, s, IF t.activeColumn[s] = c THEN next
                                                          ELSE t.activeColumn[s])
    BY <1>1 DEF Same, Fields, Put
  <2> HIDE DEF unlisted
  <2>2. /\ Same(t, marked, {"columns", "activeColumn", "dirty"}) /\ marked.dirty \subseteq Node
        /\ marked.columns = unlisted.columns /\ marked.activeColumn = unlisted.activeColumn
    BY <1>1, <1>5, <2>1 DEF Same, Mark, Fields
  <2> HIDE DEF marked
  <2>3. Narrows(t, marked, s, c, next)
    BY <2>1, <2>2 DEF Narrows
  <2>4. Inv(marked) /\ TidyBut(marked, {}, S)
    BY <1>4, <1>6, <2>3, NarrowsTidy
  <2>5. TidyBut(a, {}, S \ {s})
    <3>1. \A b \in ToSet(marked.columns[s]) : \E x \in Window : marked.column[x] = b
      BY <2>4 DEF TidyBut, OccupiedBut
    <3> QED
      BY <2>4, <3>1, WorkspaceDestroyTidy
  <2> HIDE DEF a
  <2>6. TidyBut(r, {}, S \ {s})
    BY <2>5, TidyMark
  <2> HIDE DEF r
  <2> QED
    BY <1>2, <1>3, <1>6, <2>6 DEF all
<1>7. CASE t.children[c] # << >>
  <2>1. t.children[c] \in Seq(Window)
    BY <1>5 DEF Inv, TreeType
  <2>2. PICK x \in ToSet(t.children[c]) : TRUE
    BY <1>7, <2>1, EmptyList
  <2>3. x \in Window
    BY <2>1, <2>2, EmptyList
  <2>4. t.column[x] = c
    BY <1>5, <2>2, <2>3 DEF Inv, PlaceInv
  <2>5. t.workspace[x] = s
    BY <1>1, <1>5, <2>3, <2>4, ChildHome
  <2>6. TidyBut(t, {c} \ {c}, S)
    BY <2>3, <2>4, TidyBy
  <2>7. TidyBut(t, {c} \ {c}, S \ {s})
    BY <2>3, <2>5, <2>6, TidyBy
  <2> HIDE DEF r
  <2> QED
    BY <1>2, <1>3, <1>7, <2>7 DEF all
<1> QED
  BY <1>6, <1>7

LEMMA CleanedTidy ==
  ASSUME NEW t, Inv(t), NEW S, NEW s \in Workspace, NEW c,
         c # None => c \in ToSet(t.columns[s]), TidyBut(t, {c}, S)
  PROVE  LET r == Cleaned(t, c)
         IN  /\ TidyBut(r, {}, IF c = None THEN S ELSE S \ {s}) /\ Inv(r)
             /\ Same(t, r, {"columns", "activeColumn", "workspaces", "dirty"})
<1>1. CASE c = None
  <2>1. OccupiedBut(t, {})
    <3>1. \A u \in Workspace : ToSet(t.columns[u]) \subseteq Column
      BY EmptyList DEF Inv, TreeType
    <3>2. None \notin Column
      BY NodesAssumption
    <3> QED
      BY <1>1, <3>1, <3>2 DEF TidyBut, OccupiedBut
  <2>2. Same(t, t, {"columns", "activeColumn", "workspaces", "dirty"})
    BY DEF Same, Inv, TreeType
  <2> QED
    BY <1>1, <2>1, <2>2 DEF TidyBut, Cleaned
<1>2. CASE c # None
  <2>1. Cleaned(t, c) = ColumnConsiderDestroy(t, c)
    BY <1>2 DEF Cleaned
  <2> QED
    BY <1>2, <2>1, ColumnDestroyTidy
<1> QED
  BY <1>1, <1>2

\* What workspace_set_active_window does to the active column and output.
Points(t, r, s, w) ==
  \/ r.activeColumn = t.activeColumn /\ r.activeOutput = t.activeOutput
  \/ r.activeColumn = Put(t.activeColumn, s, None) /\ r.activeOutput = t.activeOutput
  \/ /\ r.activeColumn = Put(t.activeColumn, s, t.column[w])
     /\ r.activeOutput = IF s = t.activeWorkspace THEN t.colOutput[t.column[w]] ELSE t.activeOutput

LEMMA ChosenPoints ==
  ASSUME NEW t, Inv(t), NEW s \in Workspace, NEW w \in Maybe(Window), w # None => t.workspace[w] = s
  PROVE  LET r == Chosen(t, s, w)
         IN  /\ Points(t, r, s, w)
             /\ w = None => r.activeColumn = Put(t.activeColumn, s, None) /\ r.activeOutput = t.activeOutput
<1> DEFINE r == Chosen(t, s, w)
           none == [t EXCEPT !.activeColumn[s] = None, !.focusMode[s] = "tiling"]
           raised == [t EXCEPT !.floating[s] = Append(RemoveFirst(@, w), w), !.focusMode[s] = "floating"]
           afloat == ReconcileFloating(raised, w, s)
           c == t.column[w]
           child == SetActiveChild(t, c, w)
           tiled == [child EXCEPT !.activeColumn[s] = c, !.focusMode[s] = "tiling",
                       !.activeOutput = IF s = t.activeWorkspace THEN t.colOutput[c] ELSE @]
<1>1. r = IF w = None THEN none ELSE IF IsFloating(t, w) THEN afloat ELSE tiled
  BY DEF Chosen
<1>2. DOMAIN t = Fields
  BY DEF Inv, TreeType
<1>3. none.activeColumn = Put(t.activeColumn, s, None) /\ none.activeOutput = t.activeOutput
  BY <1>2 DEF Fields, Put
<1>4. afloat.activeColumn = t.activeColumn /\ afloat.activeOutput = t.activeOutput
  <2>1. Same(t, raised, {"floating", "focusMode"})
    BY <1>2 DEF Same, Fields
  <2> HIDE DEF raised
  <2>2. Afloat(raised, afloat, w, s)
    BY <2>1, ReconcileFloatingSets DEF Same
  <2> HIDE DEF afloat
  <2> QED
    BY <2>1, <2>2 DEF Afloat, Same, Fields
<1>5. ASSUME w # None, ~IsFloating(t, w)
      PROVE  /\ tiled.activeColumn = Put(t.activeColumn, s, c)
             /\ tiled.activeOutput = IF s = t.activeWorkspace THEN t.colOutput[c] ELSE t.activeOutput
  <2>1. w \in Window /\ t.workspace[w] = s /\ s # None
    BY <1>5, NodesAssumption DEF Maybe
  <2>2. c \in Column
    BY <1>5, <2>1 DEF IsFloating, Inv, TreeType, Maybe
  <2>3. Same(t, child, ActiveFields)
    BY <2>1, <2>2, SetActiveChildKeeps
  <2> HIDE DEF child
  <2>4. DOMAIN child = Fields /\ child.activeColumn = t.activeColumn /\ child.activeOutput = t.activeOutput
    BY <2>3 DEF Same, Fields, ActiveFields
  <2> QED
    BY <2>4 DEF Fields, Put
<1> HIDE DEF r, none, afloat, tiled
<1>6. Points(t, r, s, w)
  BY <1>1, <1>3, <1>4, <1>5 DEF Points
<1>7. w = None => r.activeColumn = Put(t.activeColumn, s, None) /\ r.activeOutput = t.activeOutput
  BY <1>1, <1>3
<1> QED
  BY <1>6, <1>7 DEF r

LEMMA SetActiveWindowPoints ==
  ASSUME NEW t, Inv(t), NEW s \in Workspace, NEW w \in Maybe(Window), w # None => t.workspace[w] = s
  PROVE  LET r == SetActiveWindow(t, s, w)
         IN  /\ Points(t, r, s, w)
             /\ w = None /\ ActiveWindow(t, s) # None
                  => r.activeColumn = Put(t.activeColumn, s, None) /\ r.activeOutput = t.activeOutput
<1> DEFINE prev == ActiveWindow(t, s)
           a == Chosen(t, s, w)
           b == IF prev = None THEN a ELSE Reconcile(t, a, prev, s)
           r == Mark(b, {s})
<1>1. SetActiveWindow(t, s, w) = IF w = prev THEN t ELSE r
  BY DEF SetActiveWindow, Chosen, Reconcile
<1>2. /\ Inv(a) /\ Same(t, a, FocusFields) /\ Points(t, a, s, w)
      /\ w = None => a.activeColumn = Put(t.activeColumn, s, None) /\ a.activeOutput = t.activeOutput
  BY ChosenKeeps, ChosenPoints
<1>3. prev # None => prev \in Window /\ t.workspace[prev] = s
  BY ActiveWindowHome
<1> HIDE DEF a, prev
<1>4. a.workspace = t.workspace /\ a.column = t.column
  BY <1>2 DEF Same, Fields, FocusFields, ActiveFields
<1>5. Inv(b) /\ Same(a, b, {"history", "output", "dirty"})
  <2>1. CASE prev = None
    BY <1>2, <2>1 DEF Same
  <2>2. CASE prev # None
    BY <1>2, <1>3, <1>4, <2>2, ReconcileKeeps
  <2> QED
    BY <2>1, <2>2
<1> HIDE DEF b
<1>6. Same(b, r, {"dirty"})
  BY <1>5, MarkEffect DEF Same
<1> HIDE DEF r
<1>7. r.activeColumn = a.activeColumn /\ r.activeOutput = a.activeOutput
  BY <1>5, <1>6 DEF Same, Fields
<1>8. Points(t, r, s, w) /\ Points(t, t, s, w)
  BY <1>2, <1>7 DEF Points
<1> QED
  BY <1>1, <1>2, <1>7, <1>8 DEF prev

LEMMA SetActiveWindowTidy ==
  ASSUME NEW t, Inv(t), NEW B, NEW S, TidyBut(t, B, S), NEW s \in Workspace, NEW w \in Maybe(Window),
         w # None => t.workspace[w] = s
  PROVE  LET r == SetActiveWindow(t, s, w)
         IN  TidyBut(r, B, S) /\ Inv(r) /\ Same(t, r, FocusFields)
<1> DEFINE r == SetActiveWindow(t, s, w)
<1>1. Inv(r) /\ Same(t, r, FocusFields)
  BY SetActiveWindowKeeps
<1>2. Points(t, r, s, w)
  BY SetActiveWindowPoints
<1>3. Lined(r)
  BY SetActiveWindowLined DEF TidyBut
<1> HIDE DEF r
<1>4. /\ r.columns = t.columns /\ r.column = t.column /\ r.workspace = t.workspace
      /\ r.workspaces = t.workspaces /\ r.activeWorkspace = t.activeWorkspace
      /\ r.colOutput = t.colOutput
  BY <1>1 DEF Same, Fields, FocusFields, ActiveFields
<1>5. There(r)
  <2>1. t.activeColumn \in [Workspace -> Maybe(Column)] /\ t.activeWorkspace \in Workspace
    BY DEF Inv, TreeType
  <2>2. CASE s = t.activeWorkspace
    BY <1>2, <1>4, <2>1, <2>2 DEF TidyBut, There, Points, Put
  <2>3. CASE s # t.activeWorkspace
    BY <1>2, <1>4, <2>1, <2>3 DEF TidyBut, There, Points, Put
  <2> QED
    BY <2>2, <2>3
<1>6. OccupiedBut(r, B) /\ InhabitedBut(r, S)
  BY <1>4 DEF TidyBut, OccupiedBut, InhabitedBut
<1>7. TidyBut(r, B, S)
  BY <1>3, <1>5, <1>6 DEF TidyBut
<1> QED
  BY <1>1, <1>7 DEF r

LEMMA SetActiveWorkspaceTidy ==
  ASSUME NEW t, Inv(t), NEW S, TidyBut(t, {}, S), NEW s \in t.workspaces
  PROVE  LET r == SetActiveWorkspace(t, s)
         IN  /\ TidyBut(r, {}, S \ {s}) /\ Inv(r) /\ r.activeWorkspace = s
             /\ Same(t, r, {"activeWorkspace", "workspaces", "activeOutput", "dirty"})
<1> DEFINE all == SetActiveWorkspace(t, s)
           old == t.activeWorkspace
           active == t.activeColumn[s]
           a == [t EXCEPT !.activeWorkspace = s, !.activeOutput = IF active = None THEN @ ELSE t.colOutput[active]]
           a0 == [t EXCEPT !.activeWorkspace = s]
           b == WorkspaceConsiderDestroy(a, old)
           b0 == WorkspaceConsiderDestroy(a0, old)
           c == IF active = None THEN b0 ELSE [b0 EXCEPT !.activeOutput = t.colOutput[active]]
           nodes == {old, s, Root} \cup Outputs(t)
<1>1. all = IF s = old THEN t ELSE Mark(c, nodes)
  BY DEF SetActiveWorkspace
<1>2. /\ Inv(all) /\ Same(t, all, {"activeWorkspace", "workspaces", "activeOutput", "dirty"})
      /\ all.activeWorkspace = s
  BY SetActiveWorkspaceKeeps
<1>3. DOMAIN t = Fields /\ s \in Workspace /\ old \in Workspace
  BY DEF Inv, TreeType
<1> HIDE DEF all
<1>4. CASE s = old
  <2>1. TidyBut(t, {}, S \ {s})
    BY <1>4 DEF TidyBut, InhabitedBut
  <2> QED
    BY <1>1, <1>2, <1>4, <2>1 DEF all
<1>5. CASE s # old
  <2>1. c = b
    BY <1>3 DEF WorkspaceConsiderDestroy, Fields
  <2>2. /\ Same(t, a, {"activeWorkspace", "activeOutput"}) /\ a.activeWorkspace = s
        /\ a.activeOutput = IF active = None THEN t.activeOutput ELSE t.colOutput[active]
    BY <1>3 DEF Same, Fields
  <2> HIDE DEF a
  <2>3. Inv(a)
    <3>1. active # None => active \in ToSet(t.columns[s])
      BY <1>3 DEF Inv, PathInv, Maybe
    <3>2. active # None => t.colOutput[active] \in Outputs(t)
      BY <1>3, <3>1 DEF Inv, OutputInv
    <3> HIDE DEF active
    <3> QED
      BY <2>2, <3>2, RootKeeps
  <2>4. /\ a.columns = t.columns /\ a.column = t.column /\ a.workspace = t.workspace
        /\ a.workspaces = t.workspaces /\ a.activeColumn = t.activeColumn
        /\ a.colOutput = t.colOutput
    BY <2>2 DEF Same, Fields
  <2>5. Lined(a)
    BY <2>2, LinedSame DEF TidyBut
  <2>6. There(a)
    BY <2>2, <2>4 DEF There
  <2>7. OccupiedBut(a, {}) /\ InhabitedBut(a, (S \cup {old}) \ {s})
    BY <2>2, <2>4 DEF TidyBut, OccupiedBut, InhabitedBut
  <2>8. TidyBut(a, {}, (S \cup {old}) \ {s})
    BY <2>5, <2>6, <2>7 DEF TidyBut
  <2>9. TidyBut(b, {}, ((S \cup {old}) \ {s}) \ {old})
    <3>1. \A e \in ToSet(a.columns[old]) : \E x \in Window : a.column[x] = e
      BY <1>3, <2>8 DEF TidyBut, OccupiedBut
    <3> QED
      BY <1>3, <2>3, <2>8, <3>1, WorkspaceDestroyTidy
  <2> HIDE DEF b
  <2>10. TidyBut(b, {}, S \ {s})
    BY <2>9 DEF TidyBut, InhabitedBut
  <2> HIDE DEF c, nodes
  <2>11. TidyBut(Mark(b, nodes), {}, S \ {s})
    BY <2>10, TidyMark
  <2> QED
    BY <1>1, <1>2, <1>5, <2>1, <2>11 DEF all
<1> QED
  BY <1>4, <1>5

LEMMA SetFocusedWindowTidy ==
  ASSUME NEW t, Inv(t), NEW S, TidyBut(t, {}, S), NEW w \in Window, t.workspace[w] # None
  PROVE  TidyBut(SetFocusedWindow(t, w), {}, S)
<1> DEFINE s == t.workspace[w]
           a == [t EXCEPT !.overlay = None]
           b == SetActiveWorkspace(a, s)
           r == SetActiveWindow(b, s, w)
<1>1. SetFocusedWindow(t, w) = r
  BY DEF SetFocusedWindow
<1>2. s \in t.workspaces /\ s \in Workspace
  BY WindowHome
<1>3. Inv(a) /\ Same(t, a, {"overlay"})
  BY OverlayKeeps DEF Maybe
<1> HIDE DEF a
<1>4. a.workspaces = t.workspaces /\ a.workspace = t.workspace
  BY <1>3 DEF Same, Fields
<1>5. TidyBut(a, {}, S)
  BY <1>3, TidySame DEF TidyFields
<1>6. /\ Inv(b) /\ TidyBut(b, {}, S \ {s})
      /\ Same(a, b, {"activeWorkspace", "workspaces", "activeOutput", "dirty"})
  BY <1>2, <1>3, <1>4, <1>5, SetActiveWorkspaceTidy
<1> HIDE DEF b
<1>7. b.workspace[w] = s /\ w \in Maybe(Window)
  BY <1>4, <1>6 DEF Same, Fields, Maybe
<1>8. TidyBut(b, {}, S)
  BY <1>6 DEF TidyBut, InhabitedBut
<1> HIDE DEF s
<1>9. TidyBut(r, {}, S)
  BY <1>2, <1>6, <1>7, <1>8, SetActiveWindowTidy
<1> QED
  BY <1>1, <1>9

LEMMA CreateWorkspaceTidy ==
  ASSUME NEW t, Inv(t), Tidy(t), NEW s \in Workspace
  PROVE  LET r == CreateWorkspace(t, s)
         IN  TidyBut(r, {}, {s}) /\ Inv(r) /\ Same(t, r, {"workspaces", "dirty"}) /\ s \in r.workspaces
<1> DEFINE r == CreateWorkspace(t, s)
<1>1. Inv(r) /\ Same(t, r, {"workspaces", "dirty"}) /\ r.workspaces = t.workspaces \cup {s}
  BY CreateWorkspaceKeeps
<1> HIDE DEF r
<1>2. /\ r.columns = t.columns /\ r.column = t.column /\ r.workspace = t.workspace
      /\ r.activeWorkspace = t.activeWorkspace /\ r.activeColumn = t.activeColumn
      /\ r.activeOutput = t.activeOutput /\ r.colOutput = t.colOutput
  BY <1>1 DEF Same, Fields
<1>3. Lined(r)
  BY <1>1, LinedSame DEF Tidy, TidyBut
<1>4. TidyBut(r, {}, {s})
  BY <1>1, <1>2, <1>3 DEF Tidy, TidyBut, There, OccupiedBut, InhabitedBut
<1>5. s \in r.workspaces
  BY <1>1
<1> QED
  BY <1>1, <1>4, <1>5 DEF r

LEMMA CommitTidy ==
  ASSUME NEW t, Inv(t), Tidy(t)
  PROVE  Tidy(CommitFocus(t))
<1> DEFINE r == CommitFocus(t)
<1>1. Same(t, r, {"focused", "dirty"})
  BY CommitFocusKeeps
<1> HIDE DEF r
<1>2. Tidy(r)
  BY <1>1, TidySame DEF Tidy, TidyFields
<1> QED
  BY <1>2 DEF r

LEMMA BecomeTidy ==
  ASSUME NEW t, Inv(t), Tidy(t), Become(t)
  PROVE  Tidy(tree')
<1> DEFINE q == Settled(t)
           columns == {c \in Column : Unused(q, c)}
           windows == {w \in Window : /\ q.status[w] = "dead"
                                      /\ w \notin Reached(q)
                                      /\ \A o \in Output : ~Contains(q.fullscreenWindows[o], w)}
           nodes == columns \cup windows \cup (Workspace \ q.workspaces)
           r == Forgotten(q)
<1>1. Inv(q) /\ Same(t, q, Copies)
  BY SettledKeeps
<1>2. tree' = r
  BY DEF Become
<1> HIDE DEF q
<1>3. TidyBut(q, {}, {})
  BY <1>1, TidySame DEF Tidy, TidyFields, Copies
<1>4. DOMAIN q = Fields
  BY <1>1 DEF Inv, TreeType
<1>5. Forgets(q, r, columns, windows, nodes)
  BY <1>4 DEF Forgotten, Forgets, Same, Fields, ForgetFields
<1>6. \A c \in columns : /\ \A s \in Workspace : c \notin ToSet(q.columns[s])
                         /\ \A w \in Window : q.column[w] # c
  BY <1>1, UnusedColumn
<1>7. \A w \in windows : q.status[w] = "dead"
  OBVIOUS
<1> HIDE DEF columns, windows, nodes, r
<1>8. /\ r.columns = q.columns /\ r.column = q.column /\ r.workspace = q.workspace
      /\ r.workspaces = q.workspaces /\ r.activeWorkspace = q.activeWorkspace
      /\ r.activeOutput = q.activeOutput /\ DOMAIN r = Fields
      /\ r.activeColumn = Else(Workspace \ q.workspaces, q.activeColumn, None)
      /\ r.colOutput = Else(columns, q.colOutput, None)
      /\ r.output = Else(windows, q.output, None)
  BY <1>5 DEF Forgets, Same, Fields, ForgetFields
<1>9. /\ q.activeColumn \in [Workspace -> Maybe(Column)] /\ q.colOutput \in [Column -> Maybe(Output)]
      /\ q.columns \in [Workspace -> Seq(Column)] /\ q.column \in [Window -> Maybe(Column)]
      /\ q.activeWorkspace \in q.workspaces /\ q.activeWorkspace \in Workspace
  BY <1>1 DEF Inv, TreeType
<1>10. Lined(r)
  <2>1. ASSUME NEW w \in Window, q.column[w] # None
        PROVE  r.output[w] = q.output[w] /\ r.colOutput[q.column[w]] = q.colOutput[q.column[w]]
    <3>1. q.column[w] \in Column
      BY <1>9, <2>1 DEF Maybe
    <3>2. q.workspace[w] # None
      BY <1>1, <2>1, WindowHome
    <3>3. q.status[w] = "alive"
      BY <1>1, <3>2, WindowShown
    <3>4. w \notin windows /\ q.column[w] \notin columns
      BY <1>6, <1>7, <3>3
    <3>5. DOMAIN q.output = Window
      BY <1>3 DEF TidyBut, Lined
    <3> QED
      BY <1>8, <1>9, <3>1, <3>4, <3>5 DEF Else
  <2>2. DOMAIN r.output = Window /\ DOMAIN r.column = Window
    BY <1>3, <1>8 DEF TidyBut, Lined, Else
  <2> QED
    BY <1>3, <1>8, <2>1, <2>2 DEF TidyBut, Lined
<1>11. There(r)
  <2> DEFINE s == q.activeWorkspace
             c == q.activeColumn[s]
  <2>1. r.activeColumn[s] = c
    BY <1>8, <1>9 DEF Else
  <2>2. c # None => c \in ToSet(q.columns[s])
    BY <1>1, <1>9 DEF Inv, PathInv, Maybe
  <2>3. c # None => c \in Column /\ c \notin columns
    BY <1>6, <1>9, <2>2 DEF Maybe
  <2>4. c # None => r.colOutput[c] = q.colOutput[c]
    BY <1>8, <1>9, <2>3 DEF Else
  <2> QED
    BY <1>3, <1>8, <2>1, <2>4 DEF TidyBut, There
<1>12. OccupiedBut(r, {}) /\ InhabitedBut(r, {})
  BY <1>3, <1>8 DEF TidyBut, OccupiedBut, InhabitedBut
<1> QED
  BY <1>2, <1>10, <1>11, <1>12 DEF Tidy, TidyBut

-----------------------------------------------------------------------------
(* The handlers leave a tidy tree, when input is calm: windows are not sent *)
(* to other outputs, the pointer changes no output's focus, and a command   *)
(* runs on the window that has the focus.                                   *)

Calm == Inputs \subseteq {"touch"}

LEMMA EndTidy ==
  ASSUME NEW t, Inv(t), Tidy(t),
         \/ Become(t) \/ Become(CommitFocus(t))
         \/ \E nodes \in SUBSET Node : Become(Mark(t, nodes)) \/ Become(CommitFocus(Mark(t, nodes)))
  PROVE  Tidy(tree')
<1>1. ASSUME NEW q, Inv(q), Tidy(q), Become(q) \/ Become(CommitFocus(q)) PROVE Tidy(tree')
  <2>1. Tidy(CommitFocus(q)) /\ Inv(CommitFocus(q))
    BY <1>1, CommitTidy, CommitFocusKeeps
  <2> QED
    BY <1>1, <2>1, BecomeTidy
<1>2. ASSUME NEW nodes \in SUBSET Node PROVE Tidy(Mark(t, nodes)) /\ Inv(Mark(t, nodes))
  BY <1>2, TidyMark, MarkKeeps DEF Tidy
<1> QED
  BY <1>1, <1>2

LEMMA InitTidy == Init => Tidy(tree)
<1> SUFFICES ASSUME Init PROVE Tidy(tree)
  OBVIOUS
<1>1. /\ DOMAIN tree = Fields
      /\ tree.workspaces = {FirstWorkspace} /\ tree.activeWorkspace = FirstWorkspace
      /\ tree.columns = [s \in Workspace |-> << >>] /\ tree.activeColumn = [s \in Workspace |-> None]
      /\ tree.column = [w \in Window |-> None] /\ tree.output = [w \in Window |-> None]
  BY DEF Init, Fields
<1>2. ToSet(<< >>) = {}
  BY DEF ToSet
<1>0. FirstWorkspace \in Workspace
  BY NodesAssumption
<1>3. Lined(tree) /\ There(tree)
  BY <1>0, <1>1, <1>2 DEF Lined, There
<1>4. OccupiedBut(tree, {}) /\ InhabitedBut(tree, {})
  BY <1>0, <1>1, <1>2 DEF OccupiedBut, InhabitedBut
<1> QED
  BY <1>3, <1>4 DEF Tidy, TidyBut

LEMMA NewOutputTidy ==
  ASSUME Good(tree), Tidy(tree), NEW o \in Output, NewOutput(o)
  PROVE  Tidy(tree')
<1> DEFINE a == [tree EXCEPT !.outputs = Append(@, o), !.activeOutput = IF @ = None THEN o ELSE @]
<1>1. DOMAIN tree = Fields /\ Inv(tree)
  BY DEF Good, Inv, TreeType
<1>2. /\ Same(tree, a, {"outputs", "activeOutput"}) /\ a.outputs = Append(tree.outputs, o)
      /\ a.activeOutput = IF tree.activeOutput = None THEN o ELSE tree.activeOutput
  BY <1>1 DEF Same, Fields
<1>3. Become(Mark(a, {Root}))
  BY DEF NewOutput
<1> HIDE DEF a
<1>4. Inv(a)
  BY <1>2, OutputsGrow DEF Good
<1>5. There(a)
  <2> DEFINE s == tree.activeWorkspace
             c == tree.activeColumn[s]
  <2>1. s \in Workspace
    BY <1>1 DEF Inv, TreeType
  <2>2. c # None => c \in ToSet(tree.columns[s])
    BY <1>1, <2>1 DEF Inv, PathInv, Maybe
  <2>3. c # None => tree.colOutput[c] \in Output
    BY <1>1, <2>1, <2>2, PlaceNodes DEF Inv, OutputInv
  <2>4. c # None => tree.activeOutput = tree.colOutput[c] /\ tree.activeOutput # None
    BY <2>3, NodesAssumption DEF Tidy, TidyBut, There
  <2>5. a.activeWorkspace = s /\ a.activeColumn = tree.activeColumn /\ a.colOutput = tree.colOutput
    BY <1>2 DEF Same, Fields
  <2> QED
    BY <1>2, <2>4, <2>5 DEF There
<1>6. Lined(a)
  BY <1>2, LinedSame DEF Tidy, TidyBut
<1>7. OccupiedBut(a, {}) /\ InhabitedBut(a, {})
  <2>1. /\ a.columns = tree.columns /\ a.column = tree.column /\ a.workspace = tree.workspace
        /\ a.workspaces = tree.workspaces /\ a.activeWorkspace = tree.activeWorkspace
    BY <1>2 DEF Same, Fields
  <2> QED
    BY <2>1 DEF Tidy, TidyBut, OccupiedBut, InhabitedBut
<1>8. Tidy(a)
  BY <1>5, <1>6, <1>7 DEF Tidy, TidyBut
<1> QED
  BY <1>3, <1>4, <1>8, EndTidy DEF Node

LEMMA FocusTidy ==
  ASSUME NEW t, Inv(t), Tidy(t), NEW w \in Window, t.workspace[w] # None
  PROVE  Inv(SetFocusedWindow(t, w)) /\ Tidy(SetFocusedWindow(t, w))
BY SetFocusedWindowKeeps, SetFocusedWindowTidy DEF Tidy

LEMMA FocusStepsTidy ==
  ASSUME Good(tree), Tidy(tree), NEW w \in Window, FocusWindow(w) \/ TouchDown(w)
  PROVE  Tidy(tree')
<1> DEFINE r == SetFocusedWindow(tree, w)
<1>1. w \in Alive(tree) /\ (Become(CommitFocus(r)) \/ Become(r))
  BY DEF FocusWindow, TouchDown
<1>2. tree.workspace[w] # None
  BY <1>1, AliveHome
<1>3. Inv(r) /\ Tidy(r)
  BY <1>2, FocusTidy DEF Good
<1> HIDE DEF r
<1> QED
  BY <1>1, <1>3, EndTidy

LEMMA OverlayTidy ==
  ASSUME NEW t, Inv(t), Tidy(t), NEW x \in Maybe({"layer", "unmanaged"})
  PROVE  LET r == [t EXCEPT !.overlay = x] IN Inv(r) /\ Tidy(r)
<1> DEFINE r == [t EXCEPT !.overlay = x]
<1>1. Inv(r) /\ Same(t, r, {"overlay"})
  BY OverlayKeeps
<1> HIDE DEF r
<1>2. Tidy(r)
  BY <1>1, TidySame DEF Tidy, TidyFields
<1> QED
  BY <1>1, <1>2 DEF r

LEMMA NoWindowTidy ==
  ASSUME Good(tree), Tidy(tree)
  PROVE  LET r == SetActiveWindow(tree, tree.activeWorkspace, None)
         IN  Inv(r) /\ Tidy(r) /\ Same(tree, r, FocusFields)
<1>1. tree.activeWorkspace \in Workspace /\ None \in Maybe(Window) /\ Inv(tree)
  BY DEF Good, Inv, TreeType, Maybe
<1> QED
  BY <1>1, SetActiveWindowTidy DEF Tidy

LEMMA OtherFocusTidy ==
  ASSUME Good(tree), Tidy(tree), ClickWorkspace \/ FocusLayer \/ LayerUnmapped \/ FocusUnmanaged
  PROVE  Tidy(tree')
<1> DEFINE none == SetActiveWindow(tree, tree.activeWorkspace, None)
           over == [none EXCEPT !.overlay = "unmanaged"]
           layer == [tree EXCEPT !.overlay = "layer"]
           bare == [tree EXCEPT !.overlay = None]
<1>1. Inv(none) /\ Tidy(none)
  BY NoWindowTidy
<1>2. Inv(layer) /\ Tidy(layer) /\ Inv(bare) /\ Tidy(bare)
  BY OverlayTidy DEF Good, Maybe
<1>3. \/ Become(CommitFocus(none)) \/ Become(CommitFocus(over))
      \/ Become(CommitFocus(layer)) \/ Become(CommitFocus(bare))
  BY DEF ClickWorkspace, FocusLayer, LayerUnmapped, FocusUnmanaged, SetFocusedLayer, SetFocusedSurface
<1> HIDE DEF none, layer, bare
<1>4. Inv(over) /\ Tidy(over)
  BY <1>1, OverlayTidy DEF Maybe
<1> HIDE DEF over
<1> QED
  BY <1>1, <1>2, <1>3, <1>4, EndTidy

LEMMA ArrangeTidy ==
  ASSUME Good(tree), Tidy(tree), Arrange
  PROVE  Tidy(tree')
<1> DEFINE r == [Arranged(tree) EXCEPT !.dirty = {}]
<1>1. Inv(r) /\ Same(tree, r, Copies)
  BY ArrangedKeeps DEF Good
<1>2. Become(r)
  BY DEF Arrange
<1> HIDE DEF r
<1>3. Tidy(r)
  BY <1>1, TidySame DEF Tidy, TidyFields, Copies
<1> QED
  BY <1>1, <1>2, <1>3, EndTidy

LEMMA CmdWorkspaceTidy ==
  ASSUME Good(tree), Tidy(tree), NEW s \in Workspace, CmdWorkspace(s)
  PROVE  Tidy(tree')
<1> DEFINE a == CreateWorkspace(tree, s)
           b == SetActiveWorkspace(a, s)
<1>1. Become(CommitFocus(Mark(b, {Root})))
  BY DEF CmdWorkspace
<1>2. TidyBut(a, {}, {s}) /\ Inv(a) /\ s \in a.workspaces
  BY CreateWorkspaceTidy DEF Good
<1> HIDE DEF a
<1>3. Inv(b) /\ TidyBut(b, {}, {s} \ {s})
  BY <1>2, SetActiveWorkspaceTidy
<1> HIDE DEF b
<1>4. {s} \ {s} = {} /\ {Root} \in SUBSET Node
  BY DEF Node
<1>5. Tidy(b)
  BY <1>3, <1>4 DEF Tidy
<1> QED
  BY <1>1, <1>3, <1>4, <1>5, EndTidy

LEMMA CmdFocusModeTidy ==
  ASSUME Good(tree), Tidy(tree), NEW floating \in BOOLEAN, CmdFocusMode(floating)
  PROVE  Tidy(tree')
<1> DEFINE s == tree.activeWorkspace
           w == IF floating THEN ActiveFloating(tree, s) ELSE ActiveTiling(tree, s)
           r == SetActiveWindow(tree, s, w)
<1>1. w # None /\ Become(CommitFocus(r))
  BY DEF CmdFocusMode
<1>2. s \in Workspace /\ Inv(tree)
  BY DEF Good, Inv, TreeType
<1>3. w \in Window /\ tree.workspace[w] = s
  <2>1. CASE floating
    <3>1. ActiveFloating(tree, s) # None
      BY <1>1, <2>1
    <3>2. ActiveFloating(tree, s) \in Window /\ tree.workspace[ActiveFloating(tree, s)] = s
      BY <1>2, <3>1, ActiveFloatingHome
    <3> QED
      BY <2>1, <3>2
  <2>2. CASE ~floating
    <3>1. ActiveTiling(tree, s) # None
      BY <1>1, <2>2
    <3>2. ActiveTiling(tree, s) \in Window /\ tree.workspace[ActiveTiling(tree, s)] = s
      BY <1>2, <3>1, ActiveTilingHome
    <3> QED
      BY <2>2, <3>2
  <2> QED
    BY <2>1, <2>2
<1> HIDE DEF w, s
<1>4. w \in Maybe(Window)
  BY <1>3 DEF Maybe
<1>5. TidyBut(tree, {}, {})
  BY DEF Tidy
<1>6. Inv(r) /\ TidyBut(r, {}, {})
  BY <1>2, <1>3, <1>4, <1>5, SetActiveWindowTidy
<1> HIDE DEF r
<1>7. Tidy(r)
  BY <1>6 DEF Tidy
<1> QED
  BY <1>1, <1>6, <1>7, EndTidy

\* Also if root_set_focused_window fails its assertion.
LEMMA AnyFocusTidy ==
  ASSUME NEW t, Inv(t), Tidy(t), NEW w \in Window
  PROVE  Inv(SetFocusedWindow(t, w)) /\ Tidy(SetFocusedWindow(t, w))
<1>1. CASE t.workspace[w] # None
  BY <1>1, FocusTidy
<1>2. CASE t.workspace[w] = None
  <2> DEFINE r == [t EXCEPT !.crashed = TRUE]
  <2>1. SetFocusedWindow(t, w) = r
    BY <1>2 DEF SetFocusedWindow
  <2>2. Inv(r) /\ Same(t, r, {"crashed"})
    BY CrashKeeps
  <2> HIDE DEF r
  <2>3. Tidy(r)
    BY <2>2, TidySame DEF Tidy, TidyFields
  <2> QED
    BY <2>1, <2>2, <2>3
<1> QED
  BY <1>1, <1>2

LEMMA CmdFocusTidy ==
  ASSUME Good(tree), Tidy(tree), NEW d \in Direction, CmdFocus(d)
  PROVE  Tidy(tree')
<1> DEFINE w == FocusedWindow(tree)
<1>1. w # None /\ Inv(tree)
  BY DEF CmdFocus, Good
<1>2. w \in Window
  BY <1>1, FocusType DEF Maybe
<1>3. tree.workspace[w] # None
  <2>1. w = FocusedWindow(tree)
    OBVIOUS
  <2> HIDE DEF w
  <2> QED
    BY <1>2, <2>1, AliveHome
<1>4. PICK next \in IF IsFloating(tree, w) /\ w \notin tree.fullscreen
                      THEN FloatingNeighbours(tree, w) ELSE TilingNeighbours(tree, w, d) :
        next # None /\ Become(CommitFocus(SetFocusedWindow(tree, next)))
  BY DEF CmdFocus
<1> HIDE DEF w
<1>5. next \in Maybe(Window)
  <2>1. /\ IsFloating(tree, w) => FloatingNeighbours(tree, w) \subseteq Maybe(Window)
        /\ ~(IsFloating(tree, w) /\ w \notin tree.fullscreen)
             => TilingNeighbours(tree, w, d) \subseteq Maybe(Window)
    BY <1>1, <1>2, <1>3, NeighbourType
  <2> QED
    BY <1>4, <2>1
<1>6. next \in Window
  BY <1>4, <1>5 DEF Maybe
<1>7. Inv(SetFocusedWindow(tree, next)) /\ Tidy(SetFocusedWindow(tree, next))
  BY <1>1, <1>6, AnyFocusTidy
<1> QED
  BY <1>4, <1>7, EndTidy

\* Without a focused window, and after workspace_set_active_window with none, there
\* is no active column.
LEMMA NoActiveColumn ==
  ASSUME Good(tree), Tidy(tree)
  PROVE  LET r == SetActiveWindow(tree, tree.activeWorkspace, None)
         IN  r.activeColumn[tree.activeWorkspace] = None
<1> DEFINE s == tree.activeWorkspace
           r == SetActiveWindow(tree, s, None)
           c == tree.activeColumn[s]
<1>1. Inv(tree) /\ s \in Workspace /\ None \in Maybe(Window)
  BY DEF Good, Inv, TreeType, Maybe
<1>2. tree.activeColumn \in [Workspace -> Maybe(Column)] /\ tree.columns[s] \in Seq(Column)
  BY <1>1 DEF Inv, TreeType
<1>3. CASE ActiveWindow(tree, s) # None
  <2>1. r.activeColumn = Put(tree.activeColumn, s, None)
    BY <1>1, <1>3, SetActiveWindowPoints
  <2> QED
    BY <1>1, <1>2, <2>1 DEF Put
<1>4. CASE ActiveWindow(tree, s) = None
  <2>1. r = tree
    BY <1>4 DEF SetActiveWindow
  <2>2. tree.focusMode[s] = "tiling"
    <3>1. tree.focusMode[s] \in {"tiling", "floating"} /\ tree.floating[s] \in Seq(Window)
      BY <1>1 DEF Inv, TreeType
    <3>2. tree.focusMode[s] = "floating" => tree.floating[s] # << >>
      BY <1>1 DEF Inv, PathInv
    <3>3. tree.floating[s] # << >> => ActiveFloating(tree, s) \in Window
      BY <3>1, EmptyList DEF ActiveFloating
    <3>4. None \notin Window
      BY NodesAssumption
    <3> QED
      BY <1>4, <3>1, <3>2, <3>3, <3>4 DEF ActiveWindow
  <2>3. c = None
    <3>1. SUFFICES ASSUME c # None PROVE FALSE
      OBVIOUS
    <3>2. c \in ToSet(tree.columns[s]) /\ c \in Column
      BY <1>1, <1>2, <3>1 DEF Inv, PathInv, Maybe
    <3>3. PICK x \in Window : tree.column[x] = c
      BY <1>1, <3>2 DEF Tidy, TidyBut, OccupiedBut
    <3>4. tree.children[c] # << >>
      BY <1>1, <3>2, <3>3, ChildHome
    <3>5. tree.activeChild[c] \in ToSet(tree.children[c]) /\ tree.children[c] \in Seq(Window)
      BY <1>1, <3>2, <3>4 DEF Inv, PathInv, TreeType
    <3>6. tree.activeChild[c] \in Window
      BY <3>5, EmptyList
    <3>7. tree.activeChild[c] = None
      BY <1>4, <2>2, <3>1 DEF ActiveWindow, ActiveTiling
    <3> QED
      BY <3>6, <3>7, NodesAssumption
  <2> QED
    BY <2>1, <2>3
<1> QED
  BY <1>3, <1>4

LEMMA CmdFocusOutputTidy ==
  ASSUME Good(tree), Tidy(tree), NEW d \in Direction, CmdFocusOutput(d)
  PROVE  Tidy(tree')
<1> DEFINE o == OutputInDirection(tree, tree.activeOutput, d)
           w == WindowOnOutput(tree, o, d)
           s == tree.activeWorkspace
           none == SetActiveWindow(tree, s, None)
           moved == [none EXCEPT !.activeOutput = o]
           r == IF w # None THEN SetFocusedWindow(tree, w) ELSE moved
<1>1. o # None /\ Become(CommitFocus(r))
  BY DEF CmdFocusOutput
<1>2. o \in Outputs(tree) /\ o \in Output
  BY <1>1, NextOutput DEF Good
<1> HIDE DEF o
<1>3. w \in Maybe(Window)
  BY <1>2, WindowOnOutputType DEF Good
<1>4. Inv(none) /\ Tidy(none) /\ Same(tree, none, FocusFields)
  BY NoWindowTidy
<1>5. none.activeColumn[s] = None
  BY NoActiveColumn
<1> HIDE DEF none, w
<1>6. DOMAIN none = Fields /\ none.activeWorkspace = s /\ Outputs(none) = Outputs(tree)
      /\ none.activeWorkspace \in none.workspaces
  BY <1>4 DEF Same, Fields, FocusFields, ActiveFields, Outputs, Inv, TreeType
<1>7. Same(none, moved, {"activeWorkspace", "activeOutput"}) /\ moved.activeOutput = o
      /\ moved.activeWorkspace = s
  BY <1>6 DEF Same, Fields
<1> HIDE DEF moved, s
<1>8. Inv(moved)
  BY <1>2, <1>4, <1>6, <1>7, RootKeeps
<1>9. /\ moved.columns = none.columns /\ moved.column = none.column /\ moved.workspace = none.workspace
      /\ moved.workspaces = none.workspaces /\ moved.activeColumn = none.activeColumn
  BY <1>7 DEF Same, Fields
<1>10. Lined(moved)
  BY <1>4, <1>7, LinedSame DEF Tidy, TidyBut
<1>11. Tidy(moved)
  BY <1>4, <1>5, <1>6, <1>7, <1>9, <1>10 DEF Tidy, TidyBut, There, OccupiedBut, InhabitedBut
<1>12. Inv(r) /\ Tidy(r)
  <2>1. CASE w # None
    <3>1. w \in Window
      BY <1>3, <2>1 DEF Maybe
    <3>2. Inv(SetFocusedWindow(tree, w)) /\ Tidy(SetFocusedWindow(tree, w))
      BY <3>1, AnyFocusTidy DEF Good
    <3> QED
      BY <2>1, <3>2
  <2>2. CASE w = None
    BY <1>8, <1>11, <2>2
  <2> QED
    BY <2>1, <2>2
<1> HIDE DEF r
<1> QED
  BY <1>1, <1>12, EndTidy

LEMMA CmdMoveFloatingTidy ==
  ASSUME Good(tree), Tidy(tree), NEW w \in Window, NEW o \in Output, CmdMoveFloating(w, o)
  PROVE  Tidy(tree')
<1> DEFINE r == [tree EXCEPT !.history[w] = <<o>>]
<1>1. tree.workspace[w] # None /\ tree.column[w] = None /\ o \in Outputs(tree) /\ Become(Mark(r, {w}))
  BY CommandHome DEF CmdMoveFloating, IsFloating
<1>2. Inv(tree) /\ DOMAIN tree = Fields
  BY DEF Good, Inv, TreeType
<1>3. Same(tree, r, {"history"})
  BY <1>2 DEF Same, Fields
<1>4. Inv(r)
  BY <1>1, FloatingHistoryKeeps DEF Good
<1> HIDE DEF r
<1>5. Tidy(r)
  BY <1>3, TidySame DEF Tidy, TidyFields
<1>6. {w} \in SUBSET Node
  BY DEF Node
<1> QED
  BY <1>1, <1>4, <1>5, <1>6, EndTidy

LEMMA FullscreenTidy ==
  ASSUME NEW t, Good(t), Tidy(t), NEW w \in Window, t.workspace[w] # None
  PROVE  /\ Inv(FullscreenOn(t, w, t.output[w])) /\ Tidy(FullscreenOn(t, w, t.output[w]))
         /\ Inv(Unfullscreen(t, w)) /\ Tidy(Unfullscreen(t, w))
<1> DEFINE o == t.output[w]
           r == FullscreenOn(t, w, o)
           q == Unfullscreen(t, w)
<1>1. o \in Outputs(t)
  BY WindowShown DEF Good
<1>2. Inv(r) /\ Inv(q)
  <2> HIDE DEF o
  <2> QED
    BY <1>1, GoodFullscreen DEF Good
<1>3. /\ Same(t, r, {"fullscreenWindows", "fullscreen", "dirty"})
      /\ Same(t, q, {"fullscreenWindows", "fullscreen", "dirty"})
  BY FullscreenThere DEF Tidy, TidyBut
<1> HIDE DEF r, q
<1>4. Tidy(r) /\ Tidy(q)
  BY <1>3, TidySame DEF Tidy, TidyFields
<1> QED
  BY <1>2, <1>4 DEF r, q

LEMMA RequestFullscreenTidy ==
  ASSUME Good(tree), Tidy(tree), Calm, NEW w \in Window, NEW o \in Output, NEW full \in BOOLEAN,
         RequestFullscreen(w, full, o)
  PROVE  Tidy(tree')
<1> DEFINE r == FullscreenOn(tree, w, tree.output[w])
           q == Unfullscreen(tree, w)
<1>1. tree.workspace[w] # None
  BY AliveHome DEF RequestFullscreen
<1>2. Inv(r) /\ Tidy(r) /\ Inv(q) /\ Tidy(q)
  BY <1>1, FullscreenTidy
<1>3. o = tree.output[w]
  BY DEF Calm, RequestFullscreen
<1>4. Become(Mark(r, {w})) \/ Become(Mark(q, {w}))
  BY <1>3 DEF RequestFullscreen
<1> HIDE DEF r, q
<1>5. {w} \in SUBSET Node
  BY DEF Node
<1> QED
  BY <1>2, <1>4, <1>5, EndTidy

LEMMA CmdFullscreenTidy ==
  ASSUME Good(tree), Tidy(tree), NEW w \in Window, NEW full \in BOOLEAN, CmdFullscreen(w, full)
  PROVE  Tidy(tree')
<1> DEFINE r == FullscreenOn(tree, w, tree.output[w])
           q == Unfullscreen(tree, w)
<1>1. tree.workspace[w] # None
  BY CommandHome DEF CmdFullscreen
<1>2. Inv(r) /\ Tidy(r) /\ Inv(q) /\ Tidy(q)
  BY <1>1, FullscreenTidy
<1>3. Become(r) \/ Become(q)
  BY DEF CmdFullscreen
<1> HIDE DEF r, q
<1> QED
  BY <1>2, <1>3, EndTidy

\* No window is in no column and in no workspace.
LEMMA TidyNone ==
  ASSUME NEW t, Inv(t), NEW B, NEW S, TidyBut(t, B, S)
  PROVE  TidyBut(t, B \ {None}, S \ {None})
<1>1. \A s \in Workspace : None \notin ToSet(t.columns[s])
  <2> TAKE s \in Workspace
  <2>1. t.columns[s] \in Seq(Column)
    BY DEF Inv, TreeType
  <2>2. ToSet(t.columns[s]) \subseteq Column
    BY <2>1, EmptyList
  <2> QED
    BY <2>2, NodesAssumption
<1>2. None \notin t.workspaces
  BY NodesAssumption DEF Inv, TreeType
<1>3. OccupiedBut(t, B \ {None})
  BY <1>1 DEF TidyBut, OccupiedBut
<1>4. InhabitedBut(t, S \ {None})
  BY <1>2 DEF TidyBut, InhabitedBut
<1> QED
  BY <1>3, <1>4 DEF TidyBut

\* A window that was in one place, or in none, is now in another, or in none.
LEMMA ShiftCleanedTidy ==
  ASSUME NEW t, Inv(t), Tidy(t), NEW w \in Window, t.workspace[w] # None, NEW r, Shifted(t, r, w)
  PROVE  LET q == Cleaned(r, t.column[w])
         IN  Inv(q) /\ TidyBut(q, {}, {t.workspace[w]} \ {r.workspace[w]})
<1> DEFINE c == t.column[w]
           s == t.workspace[w]
           u == r.workspace[w]
           S == ({} \cup {s}) \ {u}
           q == Cleaned(r, c)
<1>1. s \in Workspace
  BY WindowHome
<1>2. c # None => c \in ToSet(t.columns[s])
  BY DEF Inv, PlaceInv
<1>3. Inv(r) /\ TidyBut(r, {c}, S)
  BY ShiftTidy DEF Tidy
<1>4. ToSet(t.columns[s]) \subseteq ToSet(r.columns[s])
  BY <1>1 DEF Shifted, Shifts
<1> HIDE DEF c, s, u
<1>5. c # None => c \in ToSet(r.columns[s])
  BY <1>2, <1>4
<1> HIDE DEF S
<1>6. Inv(q) /\ TidyBut(q, {}, IF c = None THEN S ELSE S \ {s})
  BY <1>1, <1>3, <1>5, CleanedTidy
<1> HIDE DEF q
<1>7. TidyBut(q, {}, {s} \ {u})
  BY <1>6 DEF S, TidyBut, InhabitedBut
<1> QED
  BY <1>6, <1>7 DEF q, c, s, u

LEMMA UnmapTidy ==
  ASSUME Good(tree), Tidy(tree), NEW w \in Window, Unmap(w)
  PROVE  Tidy(tree')
<1> DEFINE c == tree.column[w]
           s == tree.workspace[w]
           left == BeginDestroy(tree, w)
           narrow == Cleaned(left, c)
           cleaned == WorkspaceConsiderDestroy(narrow, s)
           nodes == {s} \cap cleaned.workspaces
<1>1. w \in Alive(tree) /\ Become(CommitFocus(Mark(cleaned, nodes)))
  BY DEF Unmap, Cleaned
<1>2. Inv(tree) /\ s # None /\ s \in Workspace
  BY <1>1, AliveHome, WindowHome DEF Good
<1>3. /\ Inv(left) /\ Same(tree, left, DestroyFields) /\ Moved(tree, left, w, None, None)
      /\ Lined(left)
  BY <1>2, BeginDestroyKeeps, BeginDestroyLined DEF Tidy, TidyBut
<1> HIDE DEF left
<1>4. Shifts(tree, left, w, {}) /\ left.workspace[w] = None
  BY <1>2, <1>3, MovedShifts
<1>5. Shifted(tree, left, w)
  BY <1>4, ShiftsShifted
<1>6. Inv(narrow) /\ TidyBut(narrow, {}, {s} \ {None})
  BY <1>2, <1>4, <1>5, ShiftCleanedTidy
<1> HIDE DEF narrow, s
<1>7. \A e \in ToSet(narrow.columns[s]) : \E x \in Window : narrow.column[x] = e
  BY <1>2, <1>6 DEF TidyBut, OccupiedBut
<1>8. TidyBut(cleaned, {}, ({s} \ {None}) \ {s}) /\ Inv(cleaned)
  BY <1>2, <1>6, <1>7, WorkspaceDestroyTidy
<1>9. ({s} \ {None}) \ {s} = {}
  OBVIOUS
<1> HIDE DEF cleaned
<1>10. Tidy(cleaned)
  BY <1>8, <1>9 DEF Tidy
<1>11. nodes \in SUBSET Node
  BY <1>2 DEF Node
<1> HIDE DEF nodes
<1> QED
  BY <1>1, <1>8, <1>10, <1>11, EndTidy

\* When input is calm a command runs on the window that has the focus.
LEMMA CalmCommand ==
  ASSUME Good(tree), Calm, NEW w \in Window, CommandWindow(w)
  PROVE  /\ tree.workspace[w] = tree.activeWorkspace /\ tree.workspace[w] # None
         /\ tree.column[w] # None => tree.activeColumn[tree.activeWorkspace] = tree.column[w]
<1> DEFINE s == tree.activeWorkspace
<1>1. Inv(tree) /\ s \in Workspace /\ w # None
  BY NodesAssumption DEF Good, Inv, TreeType
<1>2. w = FocusedWindow(tree)
  BY DEF CommandWindow, Calm
<1>3. w = ActiveWindow(tree, s)
  BY <1>1, <1>2 DEF FocusedWindow
<1>4. tree.workspace[w] = s /\ s # None
  BY <1>1, <1>3, ActiveWindowHome, NodesAssumption
<1>5. ASSUME tree.column[w] # None PROVE tree.activeColumn[s] = tree.column[w]
  <2>1. w = ActiveFloating(tree, s) => tree.column[w] = None
    BY <1>1, ActiveFloatingHome
  <2>2. w = ActiveTiling(tree, s)
    BY <1>3, <1>5, <2>1 DEF ActiveWindow
  <2> QED
    BY <1>1, <2>2, ActiveTilingHome
<1> QED
  BY <1>4, <1>5

LEMMA CmdMoveTilingTidy ==
  ASSUME Good(tree), Tidy(tree), Calm, HasUnused(tree), ~tree.crashed,
         NEW w \in Window, NEW d \in Direction, CmdMoveTiling(w, d)
  PROVE  Tidy(tree')
<1> DEFINE b == tree.column[w]
           s == tree.workspace[w]
           moved == TilingMoved(tree, w, d)
           nodes == {s, moved.workspace[w]}
           narrow == ColumnConsiderDestroy(moved, b)
           cleaned == Mark(narrow, nodes)
           r == IF moved.crashed THEN moved ELSE SetFocusedWindow(cleaned, w)
<1>1. b # None /\ CommandWindow(w) /\ Become(r)
  BY DEF CmdMoveTiling, IsTiling, TilingMoved
<1>2. Inv(tree) /\ Lined(tree) /\ s # None /\ s \in Workspace
  BY <1>1, CommandHome, WindowHome DEF Good, Tidy, TidyBut
<1>3. tree.activeColumn[tree.workspace[w]] # None
  BY <1>1, CalmCommand
<1>4. Shifted(tree, moved, w) /\ moved.workspace[w] = s
  BY <1>1, <1>2, <1>3, TilingMovedShifts
<1> HIDE DEF moved
<1>5. ~moved.crashed
  <2>1. moved.crashed = tree.crashed
    BY <1>4 DEF Shifted, Shifts, Same, Fields, ShiftFields, DestroyFields, DetachFields, ColumnFields,
                FloatFields, NewFields
  <2> QED
    BY <2>1
<1>6. narrow = Cleaned(moved, b)
  BY <1>1 DEF Cleaned
<1>7. Inv(narrow) /\ TidyBut(narrow, {}, {s} \ {s})
  BY <1>2, <1>4, <1>6, ShiftCleanedTidy
<1> HIDE DEF narrow
<1>8. Tidy(narrow)
  <2>1. {s} \ {s} = {}
    OBVIOUS
  <2> QED
    BY <1>7, <2>1 DEF Tidy
<1>9. nodes \in SUBSET Node
  BY <1>2, <1>4 DEF Node
<1> HIDE DEF nodes
<1>10. Inv(cleaned) /\ Tidy(cleaned)
  BY <1>7, <1>8, <1>9, MarkKeeps, TidyMark DEF Tidy
<1> HIDE DEF cleaned
<1>11. Inv(SetFocusedWindow(cleaned, w)) /\ Tidy(SetFocusedWindow(cleaned, w))
  BY <1>10, AnyFocusTidy
<1>12. Become(SetFocusedWindow(cleaned, w))
  BY <1>1, <1>5
<1> QED
  BY <1>11, <1>12, EndTidy

LEMMA CmdMoveToWorkspaceTidy ==
  ASSUME Good(tree), Tidy(tree), HasUnused(tree), NEW w \in Window, NEW s \in Workspace,
         CmdMoveToWorkspace(w, s)
  PROVE  Tidy(tree')
<1> DEFINE c == tree.column[w]
           old == tree.workspace[w]
           a == CreateWorkspace(tree, s)
           b == MoveToWorkspace(a, w, s)
           moved == SetActiveWindow(b, s, w)
           left == Cleaned(moved, c)
           cleaned == WorkspaceConsiderDestroy(left, old)
           nodes == {s} \cup ({old} \cap cleaned.workspaces)
           S == ({s} \cup {old}) \ {s}
<1>1. old # None /\ Become(CommitFocus(Mark(cleaned, nodes)))
  BY CommandHome DEF CmdMoveToWorkspace, Cleaned
<1>2. Inv(tree) /\ old \in Workspace
  BY <1>1, WindowHome DEF Good
<1>3. c # None => c \in ToSet(tree.columns[old])
  BY <1>2 DEF Inv, PlaceInv
<1>4. TidyBut(a, {}, {s}) /\ Inv(a) /\ Same(tree, a, {"workspaces", "dirty"}) /\ s \in a.workspaces
  BY <1>2, CreateWorkspaceTidy
<1> HIDE DEF a
<1>5. a.columns = tree.columns /\ a.workspace = tree.workspace /\ a.column = tree.column
      /\ a.activeColumn = tree.activeColumn /\ a.pColumns = tree.pColumns
  BY <1>4 DEF Same, Fields
<1>6. HasUnused(a) /\ Lined(a) /\ a.workspace[w] # None
  BY <1>1, <1>4, <1>5, UnusedStays DEF TidyBut
<1>7. Shifted(a, b, w) /\ b.workspace[w] = s
  BY <1>4, <1>6, MoveToWorkspaceShifts
<1> HIDE DEF b
<1>8. Inv(b) /\ TidyBut(b, {a.column[w]}, ({s} \cup {a.workspace[w]}) \ {b.workspace[w]})
  BY <1>4, <1>7, ShiftTidy
<1>9. Inv(b) /\ TidyBut(b, {c}, S)
  BY <1>5, <1>7, <1>8
<1>10. ToSet(a.columns[old]) \subseteq ToSet(b.columns[old])
  BY <1>2, <1>7 DEF Shifted, Shifts
<1> HIDE DEF c, old, S
<1>11. Inv(moved) /\ TidyBut(moved, {c}, S) /\ moved.columns = b.columns
  <2>1. w \in Maybe(Window)
    BY DEF Maybe
  <2>2. Inv(moved) /\ TidyBut(moved, {c}, S) /\ Same(b, moved, FocusFields)
    BY <1>7, <1>9, <2>1, SetActiveWindowTidy
  <2> HIDE DEF moved
  <2> QED
    BY <2>2 DEF Same, Fields, FocusFields, ActiveFields
<1> HIDE DEF moved
<1>12. c # None => c \in ToSet(moved.columns[old])
  BY <1>3, <1>5, <1>10, <1>11
<1>13. Inv(left) /\ TidyBut(left, {}, IF c = None THEN S ELSE S \ {old})
  BY <1>2, <1>11, <1>12, CleanedTidy
<1> HIDE DEF left
<1>14. TidyBut(left, {}, {old})
  BY <1>13 DEF S, TidyBut, InhabitedBut
<1>15. \A e \in ToSet(left.columns[old]) : \E x \in Window : left.column[x] = e
  BY <1>2, <1>14 DEF TidyBut, OccupiedBut
<1>16. TidyBut(cleaned, {}, {old} \ {old}) /\ Inv(cleaned)
  BY <1>2, <1>13, <1>14, <1>15, WorkspaceDestroyTidy
<1>17. {old} \ {old} = {}
  OBVIOUS
<1> HIDE DEF cleaned
<1>18. Tidy(cleaned)
  BY <1>16, <1>17 DEF Tidy
<1>19. nodes \in SUBSET Node
  BY <1>2 DEF Node
<1> HIDE DEF nodes
<1> QED
  BY <1>1, <1>16, <1>18, <1>19, EndTidy

LEMMA UnfloatTidy ==
  ASSUME Good(tree), Tidy(tree), Calm, HasUnused(tree), NEW w \in Window, CommandWindow(w)
  PROVE  LET r == Unfloat(tree, w)
         IN  Inv(r) /\ Tidy(r) /\ r.workspace[w] = tree.workspace[w]
<1> DEFINE c == tree.column[w]
           s == tree.workspace[w]
           left == Detach(tree, w)
           r == Unfloat(tree, w)
<1>1. Inv(tree) /\ Lined(tree) /\ s # None /\ s \in Workspace
  BY CommandHome, WindowHome DEF Good, Tidy, TidyBut
<1>2. /\ Shifted(tree, r, w) /\ r.workspace[w] = s
      /\ r.column[w] = ColumnThere(left, s, tree.output[w])
  BY <1>1, UnfloatShifts
<1>3. Inv(left) /\ Same(tree, left, DetachFields)
  BY <1>1, DetachKeeps
<1> HIDE DEF r
<1>4. Inv(r) /\ TidyBut(r, {c}, ({} \cup {s}) \ {s})
  <2>1. Inv(r) /\ TidyBut(r, {tree.column[w]}, ({} \cup {tree.workspace[w]}) \ {r.workspace[w]})
    BY <1>1, <1>2, ShiftTidy DEF Tidy
  <2> QED
    BY <1>2, <2>1
<1>5. ({} \cup {s}) \ {s} = {}
  OBVIOUS
<1>6. TidyBut(r, {c}, {})
  BY <1>4, <1>5
<1>7. ASSUME c = None PROVE Tidy(r)
  <2>1. TidyBut(r, {c} \ {None}, {} \ {None})
    BY <1>4, <1>6, TidyNone
  <2>2. {c} \ {None} = {} /\ {} \ {None} = {}
    BY <1>7
  <2> QED
    BY <2>1, <2>2 DEF Tidy
<1>8. ASSUME c # None PROVE Tidy(r)
  <2>1. tree.activeColumn[s] = c
    BY <1>8, CalmCommand
  <2>2. tree.output[w] = tree.colOutput[c]
    BY <1>1, <1>8 DEF Lined
  <2> HIDE DEF left, s, c
  <2>3. left.activeColumn = tree.activeColumn /\ left.colOutput = tree.colOutput
    BY <1>3 DEF Same, Fields, DetachFields, ColumnFields, FloatFields
  <2>4. ColumnThere(left, s, tree.output[w]) = c
    BY <1>8, <2>1, <2>2, <2>3 DEF ColumnThere, ColumnFor
  <2>5. TidyBut(r, {c} \ {r.column[w]}, {})
    BY <1>6, TidyBy
  <2>6. {c} \ {r.column[w]} = {}
    BY <1>2, <2>4
  <2> QED
    BY <2>5, <2>6 DEF Tidy
<1> QED
  BY <1>2, <1>4, <1>7, <1>8 DEF r

LEMMA CmdFloatingTidy ==
  ASSUME Good(tree), Tidy(tree), Calm, HasUnused(tree), NEW w \in Window, NEW enable \in BOOLEAN,
         CmdFloating(w, enable)
  PROVE  Tidy(tree')
<1> DEFINE s == tree.workspace[w]
           c == tree.column[w]
           afloat == AddFloating(Detach(tree, w), s, w)
           narrow == Cleaned(afloat, c)
           moved == IF enable THEN Float(tree, w) ELSE Unfloat(tree, w)
           r == IF ActiveWindow(tree, s) = w THEN SetActiveWindow(moved, s, w) ELSE moved
<1>1. CommandWindow(w) /\ Become(Mark(r, {s}))
  BY DEF CmdFloating
<1>2. Inv(tree) /\ Lined(tree) /\ s # None /\ s \in Workspace /\ s \in tree.workspaces
  BY <1>1, CommandHome, WindowHome DEF Good, Tidy, TidyBut
<1>3. Float(tree, w) = narrow
  BY DEF Float, Cleaned
<1>4. Shifted(tree, afloat, w) /\ afloat.workspace[w] = s
  BY <1>2, FloatThereShifts
<1> HIDE DEF afloat
<1>5. Inv(narrow) /\ TidyBut(narrow, {}, {s} \ {s})
  BY <1>2, <1>4, ShiftCleanedTidy
<1>6. {s} \ {s} = {}
  OBVIOUS
<1>7. Inv(moved) /\ Tidy(moved)
  BY <1>1, <1>3, <1>5, <1>6, UnfloatTidy DEF Tidy
<1>8. moved.workspace[w] = s
  BY <1>2, FloatGood, UnfloatGood
<1> HIDE DEF moved
<1>9. Inv(r) /\ Tidy(r)
  <2> HIDE DEF s
  <2>1. w \in Maybe(Window) /\ TidyBut(moved, {}, {})
    BY <1>7 DEF Maybe, Tidy
  <2>2. Inv(SetActiveWindow(moved, s, w)) /\ TidyBut(SetActiveWindow(moved, s, w), {}, {})
    BY <1>2, <1>7, <1>8, <2>1, SetActiveWindowTidy
  <2> QED
    BY <1>7, <2>2 DEF Tidy
<1> HIDE DEF r
<1>10. {s} \in SUBSET Node
  BY <1>2 DEF Node
<1> QED
  BY <1>1, <1>9, <1>10, EndTidy

\* A floating window that was shown nowhere is shown on the active output.
LEMMA AddFloatingOutput ==
  ASSUME NEW t, Inv(t), NEW w \in Window, NEW s \in Workspace, t.history[w] = << >>
  PROVE  AddFloating(t, s, w).output[w] = t.activeOutput
<1> DEFINE prev == ActiveFloating(t, s)
           listed == [t EXCEPT !.floating[s] = Append(@, w)]
           placed == [listed EXCEPT !.history[w] = <<t.activeOutput>>, !.output[w] = t.activeOutput]
           added == ReconcileFloating(placed, w, s)
           beside == ReconcileFloating(added, prev, s)
           last == IF prev = None THEN added ELSE beside
           r == Mark(last, {s})
<1>1. AddFloating(t, s, w) = r
  BY DEF AddFloating
<1>2. DOMAIN t = Fields /\ t.output \in [Window -> Maybe(Outputs(t))]
  BY DEF Inv, TreeType, OtherType
<1>3. Same(t, listed, {"floating"})
  BY <1>2 DEF Same, Fields
<1> HIDE DEF listed
<1>4. DOMAIN placed = Fields /\ placed.output = [listed.output EXCEPT ![w] = t.activeOutput]
  BY <1>3 DEF Same, Fields
<1> HIDE DEF placed
<1>5. DOMAIN added = Fields /\ added.output = placed.output
  BY <1>4 DEF ReconcileFloating, Fields
<1> HIDE DEF added
<1>6. DOMAIN beside = Fields /\ beside.output = added.output
  BY <1>5 DEF ReconcileFloating, Fields
<1> HIDE DEF beside
<1>7. DOMAIN last = Fields /\ last.output = added.output
  BY <1>5, <1>6
<1> HIDE DEF last
<1>8. r.output = last.output
  BY <1>7 DEF Mark, Fields
<1>9. listed.output = t.output
  BY <1>3 DEF Same, Fields
<1> HIDE DEF r
<1> QED
  BY <1>1, <1>2, <1>4, <1>5, <1>7, <1>8, <1>9

LEMMA PlacedShifts ==
  ASSUME Good(tree), Tidy(tree), HasUnused(tree), NEW w \in Window, tree.status[w] = "absent",
         NEW floats \in BOOLEAN, NEW o \in Outputs(tree), o = tree.activeOutput
  PROVE  LET a == Created(tree, w)
             r == Placed(tree, w, floats, o)
         IN  /\ Inv(a) /\ Tidy(a) /\ a.workspace[w] = None /\ a.column[w] = None
             /\ Shifted(a, r, w) /\ r.output[w] = o
<1> DEFINE s == tree.activeWorkspace
           x == ActiveTiling(tree, s)
           y == tree.activeColumn[s]
           a == Created(tree, w)
           c == NewColumn(a)
           b == InsertFirst(a, s, o)
           afloat == AddFloating(a, s, w)
           beside == AddSibling(a, x, w, TRUE)
           alone == AddChild(b, c, w)
           placed == IF floats THEN afloat ELSE IF x # None THEN beside ELSE alone
<1>1. Placed(tree, w, floats, o) = placed
  BY DEF Placed
<1>2. Inv(tree) /\ s \in tree.workspaces /\ s \in Workspace /\ tree.outputs \in Seq(Output)
      /\ tree.status \in [Window -> {"absent", "alive", "dead"}]
  BY DEF Good, Inv, TreeType, OtherType
<1>3. /\ Inv(a) /\ Same(tree, a, {"status", "dirty"}) /\ a.status = Put(tree.status, w, "alive")
      /\ a.workspace[w] = None /\ a.history[w] = << >>
  BY <1>2, CreatedKeeps DEF Created
<1> HIDE DEF a
<1>4. /\ a.workspaces = tree.workspaces /\ a.workspace = tree.workspace /\ a.column = tree.column
      /\ a.outputs = tree.outputs /\ a.columns = tree.columns /\ a.activeColumn = tree.activeColumn
      /\ a.pColumns = tree.pColumns /\ Outputs(a) = Outputs(tree) /\ a.colOutput = tree.colOutput
      /\ a.activeOutput = tree.activeOutput
  BY <1>3 DEF Same, Fields, Outputs
<1>5. a.status[w] = "alive" /\ a.outputs # << >> /\ a.column[w] = None
  <2>1. a.status[w] = "alive"
    BY <1>2, <1>3 DEF Put
  <2>2. tree.outputs # << >>
    BY <1>2, EmptyList DEF Outputs
  <2>3. a.column[w] = None
    BY <1>3, WindowHome
  <2> QED
    BY <1>4, <2>1, <2>2, <2>3
<1>6. Tidy(a) /\ Lined(a)
  BY <1>3, TidySame DEF Tidy, TidyFields, TidyBut
<1>7. Shifted(a, afloat, w) /\ afloat.output[w] = o
  <2>1. afloat.output[w] = o
    BY <1>2, <1>3, <1>4, AddFloatingOutput
  <2>2. Inv(afloat) /\ Same(a, afloat, FloatFields) /\ Moved(a, afloat, w, s, None) /\ Lined(afloat)
    BY <1>2, <1>3, <1>4, <1>5, <1>6, AddFloatingKeeps, AddFloatingLined
  <2> HIDE DEF afloat, s
  <2>3. Same(a, afloat, DetachFields)
    BY <2>2 DEF Same, DetachFields
  <2>4. Shifts(a, afloat, w, {})
    BY <1>3, <2>2, <2>3, DetachedShifts
  <2> QED
    BY <2>1, <2>4, ShiftsShifted
<1>8. ASSUME x # None PROVE Shifted(a, beside, w) /\ beside.output[w] = o
  <2>1. x \in Window /\ y \in Column /\ tree.column[x] = y /\ tree.workspace[x] = s
    BY <1>2, <1>8, ActiveTilingHome
  <2>2. tree.colOutput[y] = o
    BY <2>1, NodesAssumption DEF Tidy, TidyBut, There
  <2>3. a.column[x] = y /\ a.colOutput[y] = o
    BY <1>4, <2>1, <2>2
  <2> HIDE DEF x, y
  <2>4. Inv(beside) /\ Same(a, beside, ColumnFields) /\ Moved(a, beside, w, a.workspace[x], y) /\ Lined(beside)
    BY <1>3, <1>5, <1>6, <2>1, <2>3, AddSiblingKeeps, ChildrenLined
  <2> HIDE DEF beside, s
  <2>5. Same(a, beside, DetachFields)
    BY <2>4 DEF Same, DetachFields
  <2>6. Shifts(a, beside, w, {}) /\ beside.column[w] = y
    BY <1>3, <2>4, <2>5, DetachedShifts
  <2>7. beside.colOutput = a.colOutput
    BY <2>4 DEF Same, Fields, ColumnFields
  <2>8. beside.output[w] = o
    BY <2>1, <2>3, <2>4, <2>6, <2>7, NodesAssumption DEF Lined
  <2> QED
    BY <2>6, <2>8, ShiftsShifted
<1>9. Shifted(a, alone, w) /\ alone.output[w] = o
  <2>1. HasUnused(a)
    BY <1>4, UnusedStays
  <2>2. Inv(b) /\ Widens(a, b, s, c) /\ c \in Column
    BY <1>2, <1>3, <1>4, <2>1, InsertNewKeeps, NewColumnUnused
  <2>3. Shifts(a, b, w, {c})
    BY <1>2, <1>3, <1>4, <1>6, <2>1, ColumnsShift
  <2>4. b.colOutput[c] = o
    <3>1. DOMAIN a = Fields /\ a.colOutput \in [Column -> Maybe(Output)]
      BY <1>3 DEF Inv, TreeType
    <3> HIDE DEF c, s
    <3> QED
      BY <2>2, <3>1 DEF InsertFirst, InsertColumn, Fields, c
  <2> HIDE DEF b, c, s
  <2>5. b.workspace = a.workspace /\ b.status = a.status /\ b.column = a.column /\ c \in ToSet(b.columns[s])
    BY <2>2 DEF Widens, Same, Fields, NewFields
  <2>6. b.workspace[w] = None /\ b.status[w] = "alive" /\ Lined(b)
    BY <1>3, <1>5, <2>3, <2>5 DEF Shifts
  <2>7. Inv(alone) /\ Same(b, alone, ColumnFields) /\ Moved(b, alone, w, s, c) /\ Lined(alone)
    BY <1>2, <2>2, <2>5, <2>6, AddChildKeeps, ChildrenLined
  <2> HIDE DEF alone
  <2>8. Same(b, alone, DetachFields)
    BY <2>7 DEF Same, DetachFields
  <2>9. Shifts(b, alone, w, {}) /\ alone.column[w] = c
    BY <2>2, <2>7, <2>8, DetachedShifts
  <2>10. Shifts(a, alone, w, {c} \cup {})
    BY <2>3, <2>9, ShiftsTwice
  <2>11. Shifted(a, alone, w)
    BY <2>9, <2>10, ShiftsShifted
  <2>12. alone.colOutput = b.colOutput
    BY <2>7 DEF Same, Fields, ColumnFields
  <2>13. alone.output[w] = o
    BY <2>2, <2>4, <2>7, <2>9, <2>12, NodesAssumption DEF Lined
  <2> QED
    BY <2>11, <2>13
<1> HIDE DEF afloat, beside, alone
<1>10. Shifted(a, placed, w) /\ placed.output[w] = o
  BY <1>7, <1>8, <1>9
<1> HIDE DEF placed
<1> QED
  BY <1>1, <1>3, <1>5, <1>6, <1>10 DEF a

LEMMA MapTidy ==
  ASSUME Good(tree), Tidy(tree), Calm, HasUnused(tree), NEW w \in Window, NEW floats \in BOOLEAN,
         NEW full \in BOOLEAN, NEW o \in Output, Map(w, floats, full, o)
  PROVE  Tidy(tree')
<1> DEFINE a == Created(tree, w)
           placed == Placed(tree, w, floats, o)
           shown == IF full THEN FullscreenOn(placed, w, o) ELSE placed
           chosen == IF ShouldFocus(shown, w) THEN SetFocusedWindow(shown, w) ELSE shown
<1>1. tree.status[w] = "absent" /\ o \in Outputs(tree) /\ Become(CommitFocus(chosen))
  BY DEF Map, Placed, Created
<1>2. o = tree.activeOutput
  BY DEF Map, Calm
<1>3. Good(placed) /\ placed.workspace[w] = tree.activeWorkspace
  BY <1>1, PlacedInTree
<1>4. /\ Inv(a) /\ Tidy(a) /\ a.workspace[w] = None /\ a.column[w] = None
      /\ Shifted(a, placed, w) /\ placed.output[w] = o
  BY <1>1, <1>2, PlacedShifts
<1> HIDE DEF placed, a
<1>5. placed.workspace[w] # None
  BY <1>3, NodesAssumption DEF Good, Inv, TreeType
<1>6. Tidy(placed)
  <2>1. TidyBut(a, {}, {})
    BY <1>4 DEF Tidy
  <2>2. TidyBut(placed, {a.column[w]}, ({} \cup {a.workspace[w]}) \ {placed.workspace[w]})
    BY <1>4, <2>1, ShiftTidy
  <2>3. TidyBut(placed, {a.column[w]} \ {None}, (({} \cup {a.workspace[w]}) \ {placed.workspace[w]}) \ {None})
    BY <1>3, <2>2, TidyNone DEF Good
  <2>4. {a.column[w]} \ {None} = {} /\ (({} \cup {a.workspace[w]}) \ {placed.workspace[w]}) \ {None} = {}
    BY <1>4
  <2> QED
    BY <2>3, <2>4 DEF Tidy
<1>7. Inv(shown) /\ Tidy(shown)
  <2>1. Inv(FullscreenOn(placed, w, placed.output[w])) /\ Tidy(FullscreenOn(placed, w, placed.output[w]))
    BY <1>3, <1>5, <1>6, FullscreenTidy
  <2> QED
    BY <1>3, <1>4, <1>6, <2>1 DEF Good
<1> HIDE DEF shown
<1>8. Inv(chosen) /\ Tidy(chosen)
  BY <1>7, AnyFocusTidy
<1> HIDE DEF chosen
<1> QED
  BY <1>1, <1>8, EndTidy

-----------------------------------------------------------------------------
(* The theorems. *)

LEMMA NextTidy ==
  ASSUME Calm, Good(tree), Tidy(tree), [Next]_tree
  PROVE  Tidy(tree')
<1>1. CASE UNCHANGED tree
  BY <1>1
<1>2. ColumnLeft => HasUnused(tree)
  BY DEF ColumnLeft, HasUnused
<1>3. ASSUME NEW o \in Output, NewOutput(o) PROVE Tidy(tree')
  BY <1>3, NewOutputTidy
<1>4. ASSUME ColumnLeft, ClientStep PROVE Tidy(tree')
  <2>1. ASSUME NEW w \in Window, NEW floats \in BOOLEAN, NEW full \in BOOLEAN, NEW o \in Output,
               Map(w, floats, full, o)
        PROVE  Tidy(tree')
    BY <1>2, <1>4, <2>1, MapTidy
  <2>2. ASSUME NEW w \in Window, Unmap(w) PROVE Tidy(tree')
    BY <2>2, UnmapTidy
  <2>3. ASSUME NEW w \in Window, NEW full \in BOOLEAN, NEW o \in Output, RequestFullscreen(w, full, o)
        PROVE  Tidy(tree')
    BY <2>3, RequestFullscreenTidy
  <2>4. CASE FocusLayer \/ LayerUnmapped \/ FocusUnmanaged
    BY <2>4, OtherFocusTidy
  <2> QED
    BY <1>4, <2>1, <2>2, <2>3, <2>4 DEF ClientStep
<1>5. ASSUME InputStep PROVE Tidy(tree')
  <2>1. ASSUME NEW w \in Window, FocusWindow(w) \/ TouchDown(w) PROVE Tidy(tree')
    BY <2>1, FocusStepsTidy
  <2>2. CASE ClickWorkspace
    BY <2>2, OtherFocusTidy
  <2>3. ASSUME NEW o \in Output PROVE ~HoverOutput(o)
    BY DEF Calm, HoverOutput
  <2> QED
    BY <1>5, <2>1, <2>2, <2>3 DEF InputStep
<1>6. ASSUME ColumnLeft, CommandStep, ~tree.crashed PROVE Tidy(tree')
  <2>1. ASSUME NEW s \in Workspace, CmdWorkspace(s) PROVE Tidy(tree')
    BY <2>1, CmdWorkspaceTidy
  <2>2. ASSUME NEW w \in Window, NEW s \in Workspace, CmdMoveToWorkspace(w, s) PROVE Tidy(tree')
    BY <1>2, <1>6, <2>2, CmdMoveToWorkspaceTidy
  <2>3. ASSUME NEW w \in Window, NEW d \in Direction, CmdMoveTiling(w, d) PROVE Tidy(tree')
    BY <1>2, <1>6, <2>3, CmdMoveTilingTidy
  <2>4. ASSUME NEW w \in Window, NEW d \in Direction PROVE ~CmdMoveFullscreen(w, d)
    BY DEF Calm, CmdMoveFullscreen
  <2>5. ASSUME NEW w \in Window, NEW o \in Output, CmdMoveFloating(w, o) PROVE Tidy(tree')
    BY <2>5, CmdMoveFloatingTidy
  <2>6. ASSUME NEW w \in Window, NEW enable \in BOOLEAN, CmdFloating(w, enable) PROVE Tidy(tree')
    BY <1>2, <1>6, <2>6, CmdFloatingTidy
  <2>7. ASSUME NEW w \in Window, NEW enable \in BOOLEAN, CmdFullscreen(w, enable) PROVE Tidy(tree')
    BY <2>7, CmdFullscreenTidy
  <2>8. ASSUME NEW floating \in BOOLEAN, CmdFocusMode(floating) PROVE Tidy(tree')
    BY <2>8, CmdFocusModeTidy
  <2>9. ASSUME NEW d \in Direction, CmdFocus(d) PROVE Tidy(tree')
    BY <2>9, CmdFocusTidy
  <2>10. ASSUME NEW d \in Direction, CmdFocusOutput(d) PROVE Tidy(tree')
    BY <2>10, CmdFocusOutputTidy
  <2> QED
    BY <1>6, <2>1, <2>2, <2>3, <2>4, <2>5, <2>6, <2>7, <2>8, <2>9, <2>10 DEF CommandStep
<1>7. CASE Arrange
  BY <1>7, ArrangeTidy
<1> QED
  BY <1>1, <1>3, <1>4, <1>5, <1>6, <1>7 DEF Next

\* The inductive invariant of a tidy tree
TidyInv == Good(tree) /\ Tidy(tree)

LEMMA TidyAlways == Calm => (Spec => []TidyInv)
<1> SUFFICES ASSUME Calm PROVE Spec => []TidyInv
  OBVIOUS
<1>1. Init => TidyInv
  BY InitGood, InitTidy DEF TidyInv
<1>2. TidyInv /\ [Next]_tree => TidyInv'
  BY NextGood, NextTidy DEF TidyInv
<1> QED
  BY <1>1, <1>2, PTL DEF Spec

\* Containers disappear with their last window: whatever is opened, closed,
\* moved, floated and tiled again, no column stays empty, and no workspace but
\* the active one (column_consider_destroy and workspace_consider_destroy).
THEOREM NothingStaysEmptyAlways == Calm => (Spec => []NothingStaysEmpty)
<1> SUFFICES ASSUME Calm PROVE Spec => []NothingStaysEmpty
  OBVIOUS
<1>1. Spec => []TidyInv
  BY TidyAlways
<1>2. TidyInv => NothingStaysEmpty
  <2> SUFFICES ASSUME Good(tree), Tidy(tree) PROVE NothingStaysEmpty
    BY DEF TidyInv
  <2>1. Inv(tree)
    BY DEF Good
  <2>2. ASSUME NEW s \in Workspace, NEW c \in ToSet(tree.columns[s]) PROVE tree.children[c] # << >>
    <3>1. PICK x \in Window : tree.column[x] = c
      BY <2>2 DEF Tidy, TidyBut, OccupiedBut
    <3>2. c \in Column
      <4>1. tree.columns[s] \in Seq(Column)
        BY <2>1 DEF Inv, TreeType
      <4> QED
        BY <4>1, EmptyList
    <3> QED
      BY <2>1, <3>1, <3>2, ChildHome
  <2>3. ASSUME NEW s \in tree.workspaces \ {tree.activeWorkspace}
        PROVE  tree.columns[s] # << >> \/ tree.floating[s] # << >>
    <3>1. PICK x \in Window : tree.workspace[x] = s
      BY <2>3 DEF Tidy, TidyBut, InhabitedBut
    <3>2. s \in Workspace /\ tree.column[x] \in Maybe(Column)
      BY <2>1 DEF Inv, TreeType
    <3>3. CASE tree.column[x] = None
      BY <2>1, <3>1, <3>2, <3>3, FloatingHome
    <3>4. CASE tree.column[x] # None
      <4>1. tree.column[x] \in ToSet(tree.columns[s])
        BY <2>1, <3>1, <3>4 DEF Inv, PlaceInv
      <4> QED
        BY <4>1 DEF ToSet
    <3> QED
      BY <3>3, <3>4
  <2> QED
    BY <2>2, <2>3 DEF NothingStaysEmpty
<1> QED
  BY <1>1, <1>2, PTL

\* The whole of what root_validate asks of the tree at once: lists and pointers
\* agree, the path of active nodes stays on them and nothing stays empty, also
\* when windows move between outputs (cmd_move_in_direction).
THEOREM TreeSoundAlways == Calm => (Spec => []TreeIsSound)
<1> SUFFICES ASSUME Calm PROVE Spec => []TreeIsSound
  OBVIOUS
<1>1. Spec => []NothingStaysEmpty
  BY NothingStaysEmptyAlways
<1>2. Spec => []StructureIsSound
  BY StructureAlways
<1>3. StructureIsSound /\ NothingStaysEmpty => TreeIsSound
  BY DEF TreeIsSound
<1> QED
  BY <1>1, <1>2, <1>3, PTL

\* The output that is active is the one of the active column (root.c lines
\* 654-658), however often the active workspace, column or window changes and
\* whichever column takes over from one that is destroyed.
THEOREM ActiveOutputAlways == Calm => (Spec => []ActiveOutputIsFocused)
<1> SUFFICES ASSUME Calm PROVE Spec => []ActiveOutputIsFocused
  OBVIOUS
<1>1. Spec => []TidyInv
  BY TidyAlways
<1>2. TidyInv => ActiveOutputIsFocused
  BY DEF TidyInv, Tidy, TidyBut, There, ActiveOutputIsFocused
<1> QED
  BY <1>1, <1>2, PTL
=============================================================================

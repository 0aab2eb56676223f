---------------------- MODULE InputMethodRelayProofs ----------------------
(***************************************************************************)
(* Proofs about InputMethodRelay for every set of clients, surfaces and    *)
(* text inputs.  OneTextFocus holds whatever clients do; that no text      *)
(* input is focused and pending at once needs clients that bind one each.  *)
(***************************************************************************)
EXTENDS InputMethodRelay, SequenceTheorems, TLAPS

-----------------------------------------------------------------------------
(* The list of text inputs. *)

\* Removing a position from a list of distinct elements leaves the others.
LEMMA RemoveAtType ==
  ASSUME NEW S, NEW q \in Seq(S), IsInjective(q), NEW i \in DOMAIN q
  PROVE  /\ RemoveAt(q, i) \in Seq(S)
         /\ IsInjective(RemoveAt(q, i))
         /\ ToSet(RemoveAt(q, i)) = ToSet(q) \ {q[i]}
<1> DEFINE r == RemoveAt(q, i)
<1> DEFINE before == SubSeq(q, 1, i - 1)
           after == SubSeq(q, i + 1, Len(q))
<1>a. /\ before \in Seq(S) /\ Len(before) = i - 1
      /\ \A j \in 1..(i - 1) : before[j] = q[j]
  BY SubSeqProperties
<1>b. /\ after \in Seq(S) /\ Len(after) = Len(q) - i
      /\ \A j \in 1..(Len(q) - i) : after[j] = q[i + j]
  BY SubSeqProperties
<1>c. r = before \o after
  BY DEF RemoveAt
<1>0. /\ Len(q) \in Nat /\ i \in 1..Len(q) /\ DOMAIN q = 1..Len(q)
      /\ \A j \in 1..Len(q) : q[j] \in S
  OBVIOUS
<1>d. /\ r \in Seq(S) /\ Len(r) = Len(before) + Len(after)
      /\ \A j \in 1..(Len(before) + Len(after)) :
           r[j] = IF j <= Len(before) THEN before[j] ELSE after[j - Len(before)]
  <2> HIDE DEF before, after, r
  <2> QED
    BY <1>a, <1>b, <1>c, ConcatProperties
<1>1. /\ r \in Seq(S) /\ Len(r) = Len(q) - 1 /\ DOMAIN r = 1..Len(r)
      /\ \A j \in 1..(Len(q) - 1) : r[j] = IF j < i THEN q[j] ELSE q[j + 1]
  <2> HIDE DEF before, after, r
  <2>1. r \in Seq(S) /\ Len(r) = Len(q) - 1 /\ DOMAIN r = 1..Len(r)
    BY <1>0, <1>a, <1>b, <1>d
  <2>2. ASSUME NEW j \in 1..(Len(q) - 1)
        PROVE  r[j] = IF j < i THEN q[j] ELSE q[j + 1]
    <3>1. CASE j < i
      BY <1>0, <1>a, <1>b, <1>d, <3>1
    <3>2. CASE j >= i
      <4>1. r[j] = after[j - (i - 1)]
        BY <1>0, <1>a, <1>b, <1>d, <3>2
      <4>2. j - (i - 1) \in 1..(Len(q) - i) /\ i + (j - (i - 1)) = j + 1
        BY <1>0, <3>2
      <4> QED
        BY <1>b, <3>2, <4>1, <4>2
    <3> QED
      BY <1>0, <3>1, <3>2
  <2> QED
    BY <2>1, <2>2
<1> HIDE DEF r
<1>2. IsInjective(r)
  <2> SUFFICES ASSUME NEW a \in 1..Len(r), NEW b \in 1..Len(r), r[a] = r[b]
               PROVE  a = b
    BY <1>1 DEF IsInjective
  <2> DEFINE at(j) == IF j < i THEN j ELSE j + 1
  <2>0. /\ at(a) \in 1..Len(q) /\ at(b) \in 1..Len(q)
        /\ q[at(a)] = q[at(b)]
    BY <1>0, <1>1
  <2>1. at(a) = at(b)
    BY <1>0, <2>0 DEF IsInjective
  <2> QED
    BY <1>0, <2>1
<1>3. ToSet(r) \subseteq ToSet(q) \ {q[i]}
  <2> SUFFICES ASSUME NEW j \in 1..(Len(q) - 1)
               PROVE  r[j] \in ToSet(q) \ {q[i]}
    BY <1>1 DEF ToSet
  <2>1. CASE j < i
    BY <1>0, <1>1, <2>1 DEF ToSet, IsInjective
  <2>2. CASE j >= i
    BY <1>0, <1>1, <2>2 DEF ToSet, IsInjective
  <2> QED
    BY <1>0, <2>1, <2>2
<1>4. ASSUME NEW k \in DOMAIN q, k # i
      PROVE  q[k] \in ToSet(r)
  <2>1. CASE k < i
    BY <1>0, <1>1, <2>1 DEF ToSet
  <2>2. CASE k > i
    <3>1. k - 1 \in DOMAIN r /\ r[k - 1] = q[k]
      BY <1>0, <1>1, <2>2
    <3> QED
      BY <3>1 DEF ToSet
  <2> QED
    BY <1>0, <1>4, <2>1, <2>2
<1>5. ToSet(q) \ {q[i]} \subseteq ToSet(r)
  BY <1>4 DEF ToSet
<1> QED
  BY <1>1, <1>2, <1>3, <1>5 DEF r

\* Adding a new element in front keeps a list's elements distinct.
LEMMA AddInFront ==
  ASSUME NEW S, NEW q \in Seq(S), IsInjective(q), NEW e \in S, e \notin ToSet(q)
  PROVE  /\ <<e>> \o q \in Seq(S)
         /\ IsInjective(<<e>> \o q)
         /\ ToSet(<<e>> \o q) = ToSet(q) \cup {e}
<1> DEFINE r == <<e>> \o q
<1>0. Len(q) \in Nat /\ DOMAIN q = 1..Len(q)
  OBVIOUS
<1>a. <<e>> \in Seq(S) /\ Len(<<e>>) = 1 /\ <<e>>[1] = e
  OBVIOUS
<1>b. /\ r \in Seq(S) /\ Len(r) = 1 + Len(q)
      /\ \A j \in 1..(1 + Len(q)) : r[j] = IF j <= 1 THEN <<e>>[j] ELSE q[j - 1]
  BY <1>a, ConcatProperties, Zenon
<1>1. /\ r \in Seq(S) /\ DOMAIN r = 1..(Len(q) + 1) /\ r[1] = e
      /\ \A j \in 1..Len(q) : r[j + 1] = q[j]
      /\ \A j \in 2..(Len(q) + 1) : r[j] = q[j - 1] /\ j - 1 \in DOMAIN q
  <2> HIDE DEF r
  <2> QED
    BY <1>0, <1>a, <1>b
<1> HIDE DEF r
<1>2. IsInjective(r)
  <2> SUFFICES ASSUME NEW a \in 1..(Len(q) + 1), NEW b \in 1..(Len(q) + 1), r[a] = r[b]
               PROVE  a = b
    BY <1>1 DEF IsInjective
  <2>0. \A j \in 2..(Len(q) + 1) : r[j] # e
    BY <1>1 DEF ToSet
  <2>1. CASE a = 1 \/ b = 1
    BY <1>0, <1>1, <2>0, <2>1
  <2>2. CASE a > 1 /\ b > 1
    <3>1. q[a - 1] = q[b - 1]
      BY <1>0, <1>1, <2>2
    <3> QED
      BY <1>0, <1>1, <2>2, <3>1 DEF IsInjective
  <2> QED
    BY <1>0, <2>1, <2>2
<1>3. ToSet(r) \subseteq ToSet(q) \cup {e}
  BY <1>0, <1>1 DEF ToSet
<1>4. ToSet(q) \cup {e} \subseteq ToSet(r)
  BY <1>0, <1>1 DEF ToSet
<1> QED
  BY <1>1, <1>2, <1>3, <1>4 DEF r

-----------------------------------------------------------------------------
(* All text inputs are focused, or wait, for one surface of their client. *)

IInv == RelayTypeOK /\ OneTextFocus

LEMMA InitInv == Init => IInv
<1> SUFFICES ASSUME Init PROVE IInv
  OBVIOUS
<1>1. textInputs \in Seq(TextInput) /\ IsInjective(textInputs)
  BY DEF Init, IsInjective
<1>2. RelayTypeOK
  BY <1>1 DEF Init, RelayTypeOK, Maybe
<1>3. OneTextFocus
  BY DEF Init, OneTextFocus
<1> QED
  BY <1>2, <1>3 DEF IInv

\* The text inputs do not come nearer to any surface.
Recedes ==
  \A t \in TextInput :
    /\ pendingFocus'[t] \in {pendingFocus[t], entered[t], None}
    /\ entered'[t] \in {pendingFocus[t], entered[t], None}

\* A step that only moves surfaces between a text input's two fields, or clears
\* them, keeps OneTextFocus.
LEMMA RecedesKeeps ==
  ASSUME OneTextFocus, Recedes
  PROVE  OneTextFocus'
BY DEF OneTextFocus, Recedes

\* The types of the two fields, and of text inputs that are not listed.
FieldsOK ==
  /\ pendingFocus \in [TextInput -> Maybe(AnySurface)]
  /\ entered \in [TextInput -> Maybe(AnySurface)]
  /\ \A t \in TextInput \ ToSet(textInputs) : pendingFocus[t] = None /\ entered[t] = None

\* set_focus leaves every text input with the new surface or with none.
LEMMA SetFocusStep ==
  ASSUME IInv, NEW s \in AnySurface, SetFocus(s), UNCHANGED clientVars
  PROVE  FieldsOK' /\ OneTextFocus' /\ active' \in BOOLEAN /\ inputMethod' \in BOOLEAN /\ crashed' \in BOOLEAN
<1> USE DEF clientVars
<1>0. /\ s # None
      /\ inputMethod' = inputMethod /\ inputMethod \in BOOLEAN /\ active \in BOOLEAN
      /\ textInputs' = textInputs
      /\ FieldsOK
  BY NoneAssumption DEF IInv, RelayTypeOK, FieldsOK, SetFocus
<1>1. crashed' \in BOOLEAN
  BY DEF SetFocus
<1>2. CASE crashed'
  BY <1>0, <1>1, <1>2, RecedesKeeps DEF SetFocus, IInv, FieldsOK, Recedes, OneTextFocus
<1>3. CASE ~crashed'
  <2>1. FocusTextInputs(s) /\ Focusable \cap Focused = {}
    BY <1>3 DEF SetFocus
  <2>2. ASSUME NEW t \in TextInput
        PROVE  /\ pendingFocus'[t] \in {s, None} /\ entered'[t] \in {s, None}
               /\ s \in {pendingFocus'[t], entered'[t]} => Owner[s] = Owner[t]
               /\ t \notin ToSet(textInputs) => pendingFocus'[t] = None /\ entered'[t] = None
    <3>1. pendingFocus'[t] = IF (Gets(t, s) /\ ~inputMethod) \/ pendingFocus[t] = s THEN s ELSE None
      BY <2>1 DEF FocusTextInputs
    <3>2. entered'[t] = IF Gets(t, s) /\ inputMethod THEN s
                        ELSE IF Leaves(t, s) THEN None ELSE entered[t]
      BY <2>1 DEF FocusTextInputs
    <3>3. s \in {pendingFocus[t], entered[t]} => Owner[s] = Owner[t]
      BY <1>0 DEF IInv, OneTextFocus
    <3>4. Gets(t, s) => Owner[s] = Owner[t] /\ t \in ToSet(textInputs)
      BY DEF Gets
    <3>5. entered[t] \notin {s, None} => Leaves(t, s)
      BY <1>0, <2>1 DEF Leaves, Focused, FieldsOK
    <3>6. t \notin ToSet(textInputs) => pendingFocus[t] = None /\ entered[t] = None
      BY <1>0 DEF FieldsOK
    <3> QED
      BY <1>0, <3>1, <3>2, <3>3, <3>4, <3>5, <3>6
  <2>3. FieldsOK'
    <3>1. \A t \in TextInput : pendingFocus'[t] \in Maybe(AnySurface) /\ entered'[t] \in Maybe(AnySurface)
      BY <2>2 DEF Maybe
    <3>2. /\ pendingFocus' = [t \in TextInput |-> pendingFocus'[t]]
          /\ entered' = [t \in TextInput |-> entered'[t]]
      BY <2>1 DEF FocusTextInputs
    <3> QED
      BY <1>0, <2>2, <3>1, <3>2 DEF FieldsOK
  <2>4. OneTextFocus'
    BY <2>2 DEF OneTextFocus
  <2>5. active' \in BOOLEAN
    BY <2>1 DEF FocusTextInputs
  <2> QED
    BY <1>0, <1>1, <2>3, <2>4, <2>5
<1> QED
  BY <1>2, <1>3

\* A step that tells the relay of a surface, or tells it nothing, keeps IInv if it
\* keeps the types of the seat.
LEMMA SeatStep ==
  ASSUME IInv,
         (\E s \in AnySurface : SetFocus(s)) \/ UNCHANGED relayVars,
         UNCHANGED clientVars,
         focusedSurface' \in Maybe(Surface), keyboard' \in Maybe(AnySurface),
         allowed' \subseteq Client, dragging' \in BOOLEAN
  PROVE  IInv'
<1>1. CASE \E s \in AnySurface : SetFocus(s)
  BY <1>1, SetFocusStep DEF IInv, RelayTypeOK, FieldsOK, clientVars
<1>2. CASE UNCHANGED relayVars
  BY <1>2 DEF IInv, RelayTypeOK, OneTextFocus, relayVars, clientVars
<1> QED
  BY <1>1, <1>2

LEMMA CommitFocusStep ==
  ASSUME IInv, NEW s \in Maybe(Surface), CommitFocus(s)
  PROVE  IInv'
<1>1. /\ UNCHANGED <<allowed, dragging, clientVars>> /\ focusedSurface' = s
      /\ \/ s \in AnySurface /\ Enter(s, dragging)
         \/ UNCHANGED relayVars /\ keyboard' \in {keyboard, None}
  BY DEF CommitFocus, Maybe, AnySurface
<1>2. keyboard' \in Maybe(AnySurface)
  BY <1>1 DEF Enter, IInv, RelayTypeOK, Maybe
<1> QED
  BY <1>1, <1>2, SeatStep DEF Enter, IInv, RelayTypeOK, clientVars

LEMMA ForceFocusStep ==
  ASSUME IInv, NEW s \in LockSurface, ForceFocus(s)
  PROVE  IInv'
<1>1. s \in AnySurface /\ Enter(s, dragging)
  BY DEF ForceFocus, AnySurface
<1>2. keyboard' \in Maybe(AnySurface)
  BY <1>1 DEF Enter, IInv, RelayTypeOK, Maybe
<1> QED
  BY <1>1, <1>2, SeatStep DEF ForceFocus, Enter, IInv, RelayTypeOK

LEMMA LockChangedStep ==
  ASSUME IInv, NEW clients \in {Client, {}} \cup {{c} : c \in Client}, LockChanged(clients)
  PROVE  IInv'
<1>1. clients \subseteq Client
  OBVIOUS
<1> QED
  BY <1>1, SeatStep DEF LockChanged, IInv, RelayTypeOK

LEMMA StartDragStep ==
  ASSUME IInv, StartDrag
  PROVE  IInv'
BY SeatStep DEF StartDrag, IInv, RelayTypeOK

LEMMA DragDestroyStep ==
  ASSUME IInv, DragDestroy
  PROVE  IInv'
<1>1. /\ UNCHANGED <<focusedSurface, allowed, clientVars>> /\ dragging' = FALSE
      /\ \/ focusedSurface \in AnySurface /\ Enter(focusedSurface, FALSE)
         \/ UNCHANGED <<keyboard, relayVars>>
  BY DEF DragDestroy, IInv, RelayTypeOK, Maybe, AnySurface
<1>2. keyboard' \in Maybe(AnySurface)
  BY <1>1 DEF Enter, IInv, RelayTypeOK, Maybe
<1> QED
  BY <1>1, <1>2, SeatStep DEF Enter, IInv, RelayTypeOK

\* A step that leaves the list alone and only clears fields, or moves them within
\* a text input, keeps IInv if it keeps the other types.
LEMMA RecedesStep ==
  ASSUME IInv, Recedes, UNCHANGED <<focusedSurface, allowed, dragging, clientVars>>,
         pendingFocus' = [t \in TextInput |-> pendingFocus'[t]],
         entered' = [t \in TextInput |-> entered'[t]],
         keyboard' \in Maybe(AnySurface),
         inputMethod' \in BOOLEAN, active' \in BOOLEAN, crashed' \in BOOLEAN
  PROVE  IInv'
<1>1. FieldsOK'
  <2>1. \A t \in TextInput : pendingFocus'[t] \in Maybe(AnySurface) /\ entered'[t] \in Maybe(AnySurface)
    BY DEF IInv, RelayTypeOK, Recedes, Maybe
  <2>2. \A t \in TextInput \ ToSet(textInputs') : pendingFocus'[t] = None /\ entered'[t] = None
    BY DEF IInv, RelayTypeOK, Recedes, clientVars
  <2> QED
    BY <2>1, <2>2 DEF FieldsOK
<1>2. OneTextFocus'
  BY RecedesKeeps DEF IInv
<1> QED
  BY <1>1, <1>2 DEF IInv, RelayTypeOK, FieldsOK, clientVars

LEMMA ConnectStep ==
  ASSUME IInv, Connect
  PROVE  IInv'
<1>1. Recedes
  BY DEF Connect, Recedes
<1> QED
  BY <1>1, RecedesStep DEF Connect, seatVars, IInv, RelayTypeOK

LEMMA DisconnectStep ==
  ASSUME IInv, Disconnect
  PROVE  IInv'
<1>1. Recedes
  BY DEF Disconnect, Recedes
<1> QED
  BY <1>1, RecedesStep DEF Disconnect, seatVars, IInv, RelayTypeOK

LEMMA SurfaceDestroyStep ==
  ASSUME IInv, NEW s \in AnySurface, SurfaceDestroy(s)
  PROVE  IInv'
<1>1. Recedes
  BY DEF SurfaceDestroy, Recedes
<1>2. keyboard' \in Maybe(AnySurface)
  BY DEF SurfaceDestroy, IInv, RelayTypeOK, Maybe
<1> QED
  BY <1>1, <1>2, RecedesStep DEF SurfaceDestroy, IInv, RelayTypeOK

LEMMA NewTextInputStep ==
  ASSUME IInv, NEW t \in TextInput, NewTextInput(t)
  PROVE  IInv'
<1>1. /\ textInputs' \in Seq(TextInput) /\ IsInjective(textInputs')
      /\ ToSet(textInputs') = ToSet(textInputs) \cup {t}
  BY AddInFront DEF NewTextInput, IInv, RelayTypeOK
<1>2. RelayTypeOK'
  BY <1>1 DEF NewTextInput, seatVars, relayVars, IInv, RelayTypeOK
<1>3. OneTextFocus'
  BY RecedesKeeps DEF NewTextInput, relayVars, IInv, Recedes
<1> QED
  BY <1>2, <1>3 DEF IInv

LEMMA EnableStep ==
  ASSUME IInv, NEW t \in TextInput, Enable(t) \/ Disable(t)
  PROVE  IInv'
<1>1. /\ UNCHANGED <<seatVars, textInputs, pendingFocus, entered, inputMethod, crashed>>
      /\ enabled' \subseteq ToSet(textInputs) /\ active' \in BOOLEAN
  BY DEF Enable, Disable, IInv, RelayTypeOK
<1>2. OneTextFocus'
  BY <1>1, RecedesKeeps DEF IInv, Recedes
<1>3. RelayTypeOK'
  BY <1>1 DEF IInv, RelayTypeOK, seatVars
<1> QED
  BY <1>2, <1>3 DEF IInv

LEMMA TextInputDestroyStep ==
  ASSUME IInv, NEW t \in TextInput, TextInputDestroy(t)
  PROVE  IInv'
<1>1. PICK i \in DOMAIN textInputs : textInputs[i] = t /\ textInputs' = RemoveAt(textInputs, i)
  BY DEF TextInputDestroy
<1>2. /\ textInputs' \in Seq(TextInput) /\ IsInjective(textInputs')
      /\ ToSet(textInputs') = ToSet(textInputs) \ {t}
  BY <1>1, RemoveAtType DEF IInv, RelayTypeOK
<1>3. Recedes
  BY DEF TextInputDestroy, Recedes, IInv, RelayTypeOK
<1>4. OneTextFocus'
  BY <1>3, RecedesKeeps DEF IInv
<1>5. RelayTypeOK'
  BY <1>2 DEF TextInputDestroy, seatVars, IInv, RelayTypeOK, Maybe
<1> QED
  BY <1>4, <1>5 DEF IInv

LEMMA NextInv == IInv /\ [Next]_vars => IInv'
<1> SUFFICES ASSUME IInv, [Next]_vars PROVE IInv'
  OBVIOUS
<1>1. CASE UNCHANGED vars
  BY <1>1 DEF vars, seatVars, clientVars, relayVars, IInv, RelayTypeOK, OneTextFocus
<1>2. CASE Next
  BY <1>2, CommitFocusStep, ForceFocusStep, LockChangedStep, StartDragStep, DragDestroyStep,
     ConnectStep, DisconnectStep, NewTextInputStep, EnableStep, TextInputDestroyStep,
     SurfaceDestroyStep DEF Next
<1> QED
  BY <1>1, <1>2

LEMMA Invariance == Spec => []IInv
BY InitInv, NextInv, PTL DEF Spec

\* The seat and the relay keep their types; a text input that is gone is linked to
\* no surface.
THEOREM RelayTypeCorrect == Spec => []RelayTypeOK
<1>1. IInv => RelayTypeOK
  BY DEF IInv
<1> QED
  BY <1>1, Invariance, PTL

\* However many text inputs the clients bind, and however input methods come and
\* go, there is one surface at a time that text inputs are focused on, or wait for.
THEOREM OneFocus == Spec => []OneTextFocus
<1>1. IInv => OneTextFocus
  BY DEF IInv
<1> QED
  BY <1>1, Invariance, PTL

-----------------------------------------------------------------------------
(* When every client binds one text input. *)

OnePerClient == \A t, u \in TextInput : Owner[t] = Owner[u] => t = u

\* Then one text input at most is focused or waits, so that the relay, which looks
\* for the first of a kind, finds the only one.
LEMMA OnlyOne ==
  ASSUME OnePerClient, OneTextFocus, NEW t \in TextInput, NEW u \in TextInput,
         {pendingFocus[t], entered[t]} # {None}, {pendingFocus[u], entered[u]} # {None}
  PROVE  t = u
<1>1. PICK s \in {pendingFocus[t], entered[t]} \ {None} : TRUE
  OBVIOUS
<1>2. PICK r \in {pendingFocus[u], entered[u]} \ {None} : TRUE
  OBVIOUS
<1>3. s = r /\ Owner[s] = Owner[t] /\ Owner[r] = Owner[u]
  BY DEF OneTextFocus
<1> QED
  BY <1>3 DEF OnePerClient

LEMMA OnlyIsFirst ==
  ASSUME IInv, OnePerClient, NEW t \in TextInput, NEW S \in {Focusable, Focused}, t \in S
  PROVE  IsFirst(t, S)
<1>1. PICK i \in DOMAIN textInputs : textInputs[i] = t
  BY DEF Focusable, Focused, ToSet
<1>2. DOMAIN textInputs = 1..Len(textInputs) /\ Len(textInputs) \in Nat
  BY DEF IInv, RelayTypeOK
<1>3. ASSUME NEW j \in 1..(i - 1), textInputs[j] \in S
      PROVE  FALSE
  <2>1. j \in DOMAIN textInputs /\ j # i /\ textInputs[j] \in TextInput
    BY <1>2 DEF IInv, RelayTypeOK
  <2>2. /\ {pendingFocus[t], entered[t]} # {None}
        /\ {pendingFocus[textInputs[j]], entered[textInputs[j]]} # {None}
    BY <1>3 DEF Focusable, Focused
  <2>3. textInputs[j] = t
    BY <2>1, <2>2, OnlyOne DEF IInv
  <2> QED
    BY <1>1, <2>1, <2>3 DEF IInv, RelayTypeOK, IsInjective
<1> QED
  BY <1>1, <1>3 DEF IsFirst

\* set_focus enters text inputs if there is an input method, and else keeps them for
\* later.
LEMMA SetFocusWaits ==
  ASSUME IInv, WaitsForInputMethod, NEW s \in AnySurface, SetFocus(s)
  PROVE  WaitsForInputMethod'
<1>1. s # None /\ inputMethod' = inputMethod
  BY NoneAssumption DEF SetFocus
<1>2. CASE crashed'
  BY <1>2 DEF SetFocus, WaitsForInputMethod
<1>3. CASE ~crashed'
  <2>1. FocusTextInputs(s)
    BY <1>3 DEF SetFocus
  <2>2. ASSUME NEW t \in TextInput
        PROVE  IF inputMethod THEN pendingFocus'[t] = None ELSE entered'[t] = None
    <3>1. CASE inputMethod
      BY <1>1, <2>1, <3>1 DEF FocusTextInputs, WaitsForInputMethod
    <3>2. CASE ~inputMethod
      BY <2>1, <3>2 DEF FocusTextInputs, WaitsForInputMethod
    <3> QED
      BY <3>1, <3>2
  <2> QED
    BY <1>1, <2>2 DEF WaitsForInputMethod
<1> QED
  BY <1>2, <1>3

LEMMA ConnectWaits ==
  ASSUME IInv, OnePerClient, WaitsForInputMethod, Connect
  PROVE  WaitsForInputMethod'
<1>1. ASSUME NEW t \in TextInput
      PROVE  pendingFocus'[t] = None
  <2>1. CASE pendingFocus[t] = None
    BY <2>1 DEF Connect
  <2>2. CASE pendingFocus[t] # None
    <3>1. t \in Focusable
      BY <2>2 DEF Focusable, IInv, RelayTypeOK
    <3>2. IsFirst(t, Focusable)
      BY <3>1, OnlyIsFirst
    <3> QED
      BY <3>2 DEF Connect
  <2> QED
    BY <2>1, <2>2
<1>2. inputMethod'
  BY DEF Connect
<1> QED
  BY <1>1, <1>2 DEF WaitsForInputMethod

LEMMA DisconnectWaits ==
  ASSUME IInv, OnePerClient, WaitsForInputMethod, Disconnect
  PROVE  WaitsForInputMethod'
<1>1. ASSUME NEW t \in TextInput
      PROVE  entered'[t] = None
  <2>1. CASE entered[t] = None
    BY <2>1 DEF Disconnect
  <2>2. CASE entered[t] # None
    <3>1. t \in Focused
      BY <2>2 DEF Focused, IInv, RelayTypeOK
    <3>2. IsFirst(t, Focused)
      BY <3>1, OnlyIsFirst
    <3> QED
      BY <3>2 DEF Disconnect
  <2> QED
    BY <2>1, <2>2
<1>2. ~inputMethod'
  BY DEF Disconnect
<1> QED
  BY <1>1, <1>2 DEF WaitsForInputMethod

\* The other steps clear fields, or leave them alone.
LEMMA OtherWaits ==
  ASSUME IInv, WaitsForInputMethod, UNCHANGED inputMethod,
         \A t \in TextInput : /\ pendingFocus'[t] \in {pendingFocus[t], None}
                              /\ entered'[t] \in {entered[t], None}
  PROVE  WaitsForInputMethod'
BY DEF WaitsForInputMethod

LEMMA NextWaits ==
  ASSUME IInv, OnePerClient, WaitsForInputMethod, [Next]_vars
  PROVE  WaitsForInputMethod'
<1>1. CASE \E s \in AnySurface : SetFocus(s)
  BY <1>1, SetFocusWaits
<1>2. CASE UNCHANGED relayVars
  BY <1>2, OtherWaits DEF relayVars
<1>3. CASE Connect
  BY <1>3, ConnectWaits
<1>4. CASE Disconnect
  BY <1>4, DisconnectWaits
<1>5. ASSUME NEW t \in TextInput, NewTextInput(t) \/ Enable(t) \/ Disable(t) \/ TextInputDestroy(t)
      PROVE  WaitsForInputMethod'
  <2>1. /\ UNCHANGED inputMethod
        /\ \A u \in TextInput : /\ pendingFocus'[u] \in {pendingFocus[u], None}
                                 /\ entered'[u] \in {entered[u], None}
    BY <1>5 DEF NewTextInput, Enable, Disable, TextInputDestroy, relayVars, IInv, RelayTypeOK
  <2> QED
    BY <2>1, OtherWaits
<1>6. ASSUME NEW s \in AnySurface, SurfaceDestroy(s)
      PROVE  WaitsForInputMethod'
  BY <1>6, OtherWaits DEF SurfaceDestroy
<1>7. ASSUME NEW s \in Maybe(Surface), CommitFocus(s)
      PROVE  (\E r \in AnySurface : SetFocus(r)) \/ UNCHANGED relayVars
  BY <1>7 DEF CommitFocus, Enter, Maybe, AnySurface
<1>8. ASSUME NEW s \in LockSurface, ForceFocus(s)
      PROVE  \E r \in AnySurface : SetFocus(r)
  BY <1>8 DEF ForceFocus, Enter, AnySurface
<1>9. DragDestroy => (\E r \in AnySurface : SetFocus(r)) \/ UNCHANGED relayVars
  BY DEF DragDestroy, Enter, AnySurface, Maybe, IInv, RelayTypeOK
<1>10. StartDrag \/ UNCHANGED vars => UNCHANGED relayVars
  BY DEF StartDrag, vars
<1>11. ASSUME NEW c \in {Client, {}} \cup {{d} : d \in Client}, LockChanged(c)
       PROVE  UNCHANGED relayVars
  BY <1>11 DEF LockChanged
<1> QED
  BY <1>1, <1>2, <1>3, <1>4, <1>5, <1>6, <1>7, <1>8, <1>9, <1>10, <1>11 DEF Next

\* If every client binds one text input, those that are focused are so for as long as
\* an input method is there, and the others wait only while there is none.
THEOREM Waiting == OnePerClient => (Spec => []WaitsForInputMethod)
<1> SUFFICES ASSUME OnePerClient PROVE Spec => []WaitsForInputMethod
  OBVIOUS
<1>1. Init => WaitsForInputMethod
  BY DEF Init, WaitsForInputMethod
<1>2. IInv /\ WaitsForInputMethod /\ [Next]_vars => WaitsForInputMethod'
  BY NextWaits
<1> QED
  BY <1>1, <1>2, Invariance, PTL DEF Spec

\* The assertions of hwd_input_method_relay_set_focus hold then.
THEOREM AssertionsHold == OnePerClient => (Spec => []FocusedOrPending)
<1> SUFFICES ASSUME OnePerClient PROVE Spec => []FocusedOrPending
  OBVIOUS
<1>1. Spec => []WaitsForInputMethod
  BY Waiting
<1>2. WaitsForInputMethod => FocusedOrPending
  BY DEF WaitsForInputMethod, FocusedOrPending
<1> QED
  BY <1>1, <1>2, PTL
=============================================================================

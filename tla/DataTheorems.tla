---------------------------- MODULE DataTheorems ----------------------------
(***************************************************************************)
(* What operators on data compute that the modules share: the folds of     *)
(* Folds, FiniteSetsExt and SequencesExt, and the sequences that elements  *)
(* are put into and taken from.                                            *)
(***************************************************************************)
EXTENDS Integers, SequencesExt, FiniteSetTheorems, WellFoundedInduction, TLAPS

-----------------------------------------------------------------------------
(* Folds are defined by a CHOOSE of a recursive function on the subsets of   *)
(* a finite set: RecursionOnSubsets shows that there is one, so that the     *)
(* chosen one obeys the recursion, and SubsetInduction what follows for the  *)
(* whole set.  Both are about sets and functions alone, without a parameter  *)
(* that is an operator, so that they can be used.                            *)

\* A set of numbers that has members has a least one.
LEMMA LeastNumber ==
  ASSUME NEW S \in SUBSET Nat, S # {}
  PROVE  \E n \in S : \A m \in S : n <= m
<1> DEFINE Less == {p \in Nat \X Nat : p[1] < p[2]}
<1>1. IsWellFoundedOn(Less, Nat)
  BY NatLessThanWellFounded DEF OpToRel
<1>2. PICK n \in S : \A m \in S : <<m, n>> \notin Less
  <2> HIDE DEF Less
  <2> QED
    BY <1>1, WFMin
<1>3. ASSUME NEW m \in S PROVE n <= m
  <2>1. m \in Nat /\ n \in Nat /\ <<m, n>> \notin Less
    BY <1>2
  <2>2. ~(m < n)
    BY <2>1
  <2> QED
    BY <2>1, <2>2
<1> QED
  BY <1>3

\* A set of numbers that has zero, and the next of each that it has, has them all.
LEMMA CountingUp ==
  ASSUME NEW S \in SUBSET Nat, 0 \in S, \A n \in S : n + 1 \in S
  PROVE  S = Nat
<1> SUFFICES ASSUME Nat \ S # {} PROVE FALSE
  OBVIOUS
<1>1. PICK n \in Nat \ S : \A m \in Nat \ S : n <= m
  BY LeastNumber
<1>2. n # 0 /\ n - 1 \in Nat /\ n - 1 \notin Nat \ S
  BY <1>1
<1> QED
  BY <1>1, <1>2

\* A family of subsets of a finite set that has the empty one, and each one that it has with
\* some member left out, has the whole set: what holds of the empty fold and is kept by
\* each step holds of the fold.
THEOREM SubsetInduction ==
  ASSUME NEW D, IsFiniteSet(D), NEW G \in SUBSET SUBSET D, {} \in G,
         \A z \in SUBSET D : z # {} => \E x \in z : z \ {x} \in G => z \in G
  PROVE  D \in G
<1> DEFINE S == {n \in Nat : \A z \in SUBSET D : Cardinality(z) = n => z \in G}
<1>1. \A z \in SUBSET D : IsFiniteSet(z) /\ Cardinality(z) \in Nat
  BY FS_Subset, FS_CardinalityType
<1>2. 0 \in S
  BY <1>1, FS_EmptySet
<1>3. ASSUME NEW n \in S
      PROVE  n + 1 \in S
  <2> SUFFICES ASSUME NEW z \in SUBSET D, Cardinality(z) = n + 1
               PROVE  z \in G
    OBVIOUS
  <2>1. z # {}
    BY FS_EmptySet
  <2>2. PICK x \in z : z \ {x} \in G => z \in G
    BY <2>1
  <2>3. Cardinality(z \ {x}) = n
    <3>1. n \in Nat /\ IsFiniteSet(z) /\ x \in z
      BY <1>1, <2>1
    <3>2. Cardinality(z \ {x}) = Cardinality(z) - 1
      BY <3>1, FS_RemoveElement
    <3> QED
      BY <3>1, <3>2
  <2> QED
    BY <2>2, <2>3
<1>4. S = Nat
  <2> HIDE DEF S
  <2>1. S \in SUBSET Nat
    BY DEF S
  <2> QED
    BY <1>2, <1>3, <2>1, CountingUp
<1> QED
  BY <1>1, <1>4

\* What a fold picks from a set that has members is one of them.
IsPick(pick, D) == \A z \in SUBSET D : z # {} => pick[z] \in z

\* f combines what is picked from a set with its value of the rest.
IsFold(f, D, b, op, pick) ==
  \A z \in SUBSET D : f[z] = IF z = {} THEN b ELSE op[<<pick[z], f[z \ {pick[z]}]>>]

\* There is a function on the subsets of a finite set that takes a member, as pick says, and
\* combines it with its value of the rest: the one that MapThenFoldSet chooses.
THEOREM RecursionOnSubsets ==
  ASSUME NEW D, IsFiniteSet(D), NEW T, NEW b \in T, NEW op \in [D \X T -> T],
         NEW pick, IsPick(pick, D)
  PROVE  \E f \in [SUBSET D -> T] : IsFold(f, D, b, op, pick)
<1> DEFINE Next(f, z) == IF z = {} THEN b ELSE op[<<pick[z], f[z \ {pick[z]}]>>]
           S == {n \in Nat : \E f \in [SUBSET D -> T] :
                   \A z \in SUBSET D : Cardinality(z) <= n => f[z] = Next(f, z)}
<1>1. \A z \in SUBSET D : IsFiniteSet(z) /\ Cardinality(z) \in Nat
  BY FS_Subset, FS_CardinalityType
<1>2. 0 \in S
  <2>1. \A z \in SUBSET D : Cardinality(z) <= 0 => z = {}
    BY <1>1, FS_EmptySet
  <2>2. [z \in SUBSET D |-> b] \in [SUBSET D -> T]
    OBVIOUS
  <2> QED
    BY <2>1, <2>2
<1>3. ASSUME NEW n \in S
      PROVE  n + 1 \in S
  <2>1. PICK f \in [SUBSET D -> T] :
          \A z \in SUBSET D : Cardinality(z) <= n => f[z] = Next(f, z)
    OBVIOUS
  <2> DEFINE g == [z \in SUBSET D |-> Next(f, z)]
  <2>2. g \in [SUBSET D -> T]
    BY DEF IsPick
  <2>3. ASSUME NEW z \in SUBSET D, Cardinality(z) <= n + 1
        PROVE  g[z] = Next(g, z)
    <3>1. CASE z = {}
      BY <3>1
    <3>2. CASE z # {}
      <4> DEFINE y == z \ {pick[z]}
      <4>1. y \in SUBSET D /\ Cardinality(y) <= n
        BY <1>1, <2>3, <3>2, FS_RemoveElement DEF IsPick
      <4>2. g[y] = f[y]
        BY <2>1, <4>1
      <4> QED
        BY <3>2, <4>2
    <3> QED
      BY <3>1, <3>2
  <2>4. \E h \in [SUBSET D -> T] :
          \A z \in SUBSET D : Cardinality(z) <= n + 1 => h[z] = Next(h, z)
    <3> HIDE DEF g, Next
    <3> QED
      BY <2>2, <2>3
  <2>5. n + 1 \in Nat
    OBVIOUS
  <2> QED
    BY <2>4, <2>5
<1>4. S = Nat
  <2> HIDE DEF S
  <2>1. S \in SUBSET Nat
    BY DEF S
  <2> QED
    BY <1>2, <1>3, <2>1, CountingUp
<1>5. Cardinality(D) \in S
  BY <1>1, <1>4
<1>6. \A z \in SUBSET D : Cardinality(z) <= Cardinality(D)
  BY FS_Subset
<1> QED
  BY <1>5, <1>6 DEF IsFold

\* A finite set of integers that has members has a largest one: what FoldLeft picks.
LEMMA LargestNumber ==
  ASSUME NEW S \in SUBSET Int, IsFiniteSet(S), S # {}
  PROVE  \E n \in S : \A m \in S : n >= m
<1> DEFINE G == {z \in SUBSET S : z = {} \/ \E n \in z : \A m \in z : n >= m}
<1>1. ASSUME NEW z \in SUBSET S, z # {}, NEW x \in z, z \ {x} \in G
      PROVE  z \in G
  <2>1. CASE z \ {x} = {}
    <3>1. \A m \in z : m = x /\ x >= m
      BY <2>1
    <3> QED
      BY <3>1
  <2>2. CASE z \ {x} # {}
    <3>1. PICK n \in z \ {x} : \A m \in z \ {x} : n >= m
      BY <1>1, <2>2
    <3>2. x \in Int /\ n \in Int /\ \A m \in z : m \in Int
      OBVIOUS
    <3>3. CASE n >= x
      BY <3>1, <3>2, <3>3
    <3>4. CASE ~(n >= x)
      <4>1. \A m \in z : x >= m
        BY <3>1, <3>2, <3>4
      <4> QED
        BY <4>1
    <3> QED
      BY <3>3, <3>4
  <2> QED
    BY <2>1, <2>2
<1>2. G \in SUBSET SUBSET S /\ {} \in G
  OBVIOUS
<1> HIDE DEF G
<1>3. \A z \in SUBSET S : z # {} => \E x \in z : z \ {x} \in G => z \in G
  BY <1>1
<1>4. S \in G
  BY <1>2, <1>3, SubsetInduction
<1> QED
  BY <1>4 DEF G

-----------------------------------------------------------------------------
(* Sequences.  SelectSeq is unknown to the provers, RemoveFirst is not.      *)

\* An element is put into a sequence.
LEMMA InsertAtElements ==
  ASSUME NEW S, NEW s \in Seq(S), NEW e \in S, NEW i \in 1..(Len(s) + 1)
  PROVE  LET t == InsertAt(s, i, e)
         IN  /\ t \in Seq(S) /\ Len(t) = Len(s) + 1
             /\ \A j \in 1..Len(t) : t[j] = IF j < i THEN s[j] ELSE IF j = i THEN e ELSE s[j - 1]
<1> DEFINE a == SubSeq(s, 1, i - 1)
           b == SubSeq(s, i, Len(s))
           t == (a \o <<e>>) \o b
<1>1. Len(s) \in Nat /\ i \in Nat /\ i - 1 \in 0..Len(s) /\ \A j \in 1..Len(s) : s[j] \in S
  OBVIOUS
<1>2. a \in Seq(S) /\ Len(a) = i - 1 /\ \A j \in 1..(i - 1) : a[j] = s[j]
  BY <1>1
<1>3. b \in Seq(S) /\ Len(b) = Len(s) - i + 1 /\ \A j \in 1..(Len(s) - i + 1) : b[j] = s[i + j - 1]
  BY <1>1
<1> HIDE DEF a, b
<1>4. a \o <<e>> \in Seq(S) /\ Len(a \o <<e>>) = i /\ (a \o <<e>>)[i] = e
      /\ \A j \in 1..(i - 1) : (a \o <<e>>)[j] = s[j]
  BY <1>1, <1>2
<1> DEFINE c == a \o <<e>>
<1>c. c \in Seq(S) /\ Len(c) = i /\ c[i] = e /\ \A j \in 1..(i - 1) : c[j] = s[j]
  BY <1>4
<1> HIDE DEF c
<1>5. /\ c \o b \in Seq(S) /\ Len(c \o b) = Len(s) + 1
      /\ \A j \in 1..Len(c) : (c \o b)[j] = c[j]
      /\ \A j \in (Len(c) + 1)..(Len(s) + 1) : (c \o b)[j] = b[j - Len(c)]
  BY <1>1, <1>3, <1>c
<1>6. InsertAt(s, i, e) = c \o b
  BY DEF InsertAt, a, b, c
<1>7. ASSUME NEW j \in 1..(Len(s) + 1)
      PROVE  (c \o b)[j] = IF j < i THEN s[j] ELSE IF j = i THEN e ELSE s[j - 1]
  <2>1. CASE j < i
    <3>1. j \in 1..(i - 1)
      BY <1>1, <2>1
    <3>2. j \in 1..Len(c)
      BY <1>1, <1>c, <3>1
    <3> QED
      BY <1>c, <1>5, <2>1, <3>1, <3>2
  <2>2. CASE j = i
    <3>1. j \in 1..Len(c)
      BY <1>1, <1>c, <2>2
    <3> QED
      BY <1>c, <1>5, <2>2, <3>1
  <2>3. CASE j > i
    <3>1. j \in (Len(c) + 1)..(Len(s) + 1) /\ j - i \in 1..(Len(s) - i + 1) /\ i + (j - i) - 1 = j - 1
      BY <1>1, <1>c, <2>3
    <3>2. (c \o b)[j] = b[j - i] /\ b[j - i] = s[j - 1]
      BY <1>3, <1>c, <1>5, <3>1
    <3> QED
      BY <1>1, <2>3, <3>2
  <2>4. j < i \/ j = i \/ j > i
    BY <1>1
  <2> QED
    BY Zenon, <2>1, <2>2, <2>3, <2>4
<1> QED
  BY <1>1, <1>5, <1>6, <1>7

\* An element is taken from a sequence.
LEMMA RemoveAtElements ==
  ASSUME NEW S, NEW s \in Seq(S), NEW i \in 1..Len(s)
  PROVE  LET t == RemoveAt(s, i)
         IN  /\ t \in Seq(S) /\ Len(t) = Len(s) - 1
             /\ \A j \in 1..Len(t) : t[j] = IF j < i THEN s[j] ELSE s[j + 1]
<1> DEFINE a == SubSeq(s, 1, i - 1)
           b == SubSeq(s, i + 1, Len(s))
<1>1. Len(s) \in Nat /\ i \in Nat /\ i - 1 \in 0..Len(s) /\ \A j \in 1..Len(s) : s[j] \in S
  OBVIOUS
<1>2. a \in Seq(S) /\ Len(a) = i - 1 /\ \A j \in 1..(i - 1) : a[j] = s[j]
  BY <1>1
<1>3. b \in Seq(S) /\ Len(b) = Len(s) - i /\ \A j \in 1..(Len(s) - i) : b[j] = s[i + j]
  BY <1>1
<1> HIDE DEF a, b
<1>5. /\ a \o b \in Seq(S) /\ Len(a \o b) = Len(s) - 1
      /\ \A j \in 1..Len(a) : (a \o b)[j] = a[j]
      /\ \A j \in (Len(a) + 1)..(Len(s) - 1) : (a \o b)[j] = b[j - Len(a)]
  BY <1>1, <1>2, <1>3
<1>6. RemoveAt(s, i) = a \o b
  BY DEF RemoveAt, a, b
<1>7. ASSUME NEW j \in 1..(Len(s) - 1)
      PROVE  (a \o b)[j] = IF j < i THEN s[j] ELSE s[j + 1]
  <2>1. CASE j < i
    <3>1. j \in 1..(i - 1) /\ j \in 1..Len(a)
      BY <1>1, <1>2, <2>1
    <3> QED
      BY <1>2, <1>5, <2>1, <3>1
  <2>3. CASE ~(j < i)
    <3>1. j \in (Len(a) + 1)..(Len(s) - 1) /\ j - (i - 1) \in 1..(Len(s) - i) /\ i + (j - (i - 1)) = j + 1
      BY <1>1, <1>2, <2>3
    <3>2. (a \o b)[j] = b[j - (i - 1)] /\ b[j - (i - 1)] = s[j + 1]
      BY <1>2, <1>3, <1>5, <3>1
    <3> QED
      BY <1>1, <2>3, <3>2
  <2> QED
    BY <1>1, <2>1, <2>3
<1> QED
  BY <1>1, <1>5, <1>6, <1>7

\* The elements of a sequence with one more.
LEMMA InsertAtSet ==
  ASSUME NEW S, NEW s \in Seq(S), NEW e \in S, NEW i \in 1..(Len(s) + 1)
  PROVE  LET t == InsertAt(s, i, e)
         IN  /\ t \in Seq(S) /\ t # << >> /\ ToSet(t) = ToSet(s) \cup {e}
             /\ IsInjective(s) /\ e \notin ToSet(s) => IsInjective(t)
<1> DEFINE t == InsertAt(s, i, e)
<1>1. /\ t \in Seq(S) /\ Len(t) = Len(s) + 1
      /\ \A j \in 1..Len(t) : t[j] = IF j < i THEN s[j] ELSE IF j = i THEN e ELSE s[j - 1]
  BY InsertAtElements
<1> HIDE DEF t
<1>2. DOMAIN t = 1..(Len(s) + 1) /\ DOMAIN s = 1..Len(s) /\ Len(s) \in Nat /\ i \in Nat
  BY <1>1
<1>3. ToSet(t) \subseteq ToSet(s) \cup {e}
  <2> SUFFICES ASSUME NEW j \in 1..(Len(s) + 1), t[j] # e PROVE t[j] \in ToSet(s)
    BY <1>2 DEF ToSet
  <2>1. j # i /\ (j < i => j \in 1..Len(s)) /\ (j > i => j - 1 \in 1..Len(s)) /\ (j < i \/ j > i)
    BY <1>1, <1>2
  <2>2. t[j] = IF j < i THEN s[j] ELSE s[j - 1]
    BY <1>1, <1>2, <2>1
  <2> QED
    BY <1>2, <2>1, <2>2 DEF ToSet
<1>4. ToSet(s) \cup {e} \subseteq ToSet(t)
  <2>1. t[i] = e /\ i \in DOMAIN t
    BY <1>1, <1>2
  <2>2. ASSUME NEW j \in 1..Len(s) PROVE s[j] \in ToSet(t)
    <3>1. CASE j < i
      <4>1. j \in DOMAIN t /\ t[j] = s[j]
        BY <1>1, <1>2, <3>1
      <4> QED
        BY <4>1 DEF ToSet
    <3>2. CASE ~(j < i)
      <4>1. j + 1 \in DOMAIN t /\ t[j + 1] = s[j]
        BY <1>1, <1>2, <3>2
      <4> QED
        BY <4>1 DEF ToSet
    <3> QED
      BY <3>1, <3>2
  <2> QED
    BY <1>2, <2>1, <2>2 DEF ToSet
<1>5. ASSUME IsInjective(s), e \notin ToSet(s)
      PROVE  IsInjective(t)
  <2> SUFFICES ASSUME NEW j \in 1..(Len(s) + 1), NEW k \in 1..(Len(s) + 1), t[j] = t[k], j < k PROVE FALSE
    BY <1>2 DEF IsInjective
  <2>1. \A m \in 1..Len(s) : s[m] # e
    BY <1>2, <1>5 DEF ToSet
  <2>2. \A m, n \in 1..Len(s) : s[m] = s[n] => m = n
    BY <1>2, <1>5 DEF IsInjective
  <2>3. CASE k < i
    BY <1>1, <1>2, <2>2, <2>3
  <2>4. CASE k = i
    BY <1>1, <1>2, <2>1, <2>4
  <2>5. CASE k > i /\ j = i
    BY <1>1, <1>2, <2>1, <2>5
  <2>6. CASE k > i /\ j < i
    <3>1. t[j] = s[j] /\ t[k] = s[k - 1] /\ j \in 1..Len(s) /\ k - 1 \in 1..Len(s) /\ j # k - 1
      BY <1>1, <1>2, <2>6
    <3> QED
      BY <2>2, <3>1
  <2>7. CASE k > i /\ j > i
    <3>1. t[j] = s[j - 1] /\ t[k] = s[k - 1] /\ j - 1 \in 1..Len(s) /\ k - 1 \in 1..Len(s) /\ j - 1 # k - 1
      BY <1>1, <1>2, <2>7
    <3> QED
      BY <2>2, <3>1
  <2>8. j \in Int /\ k \in Int /\ i \in Int
    BY <1>2
  <2> QED
    BY <2>3, <2>4, <2>5, <2>6, <2>7, <2>8
<1>6. t # << >>
  BY <1>1, <1>2
<1> QED
  BY <1>1, <1>3, <1>4, <1>5, <1>6 DEF t

\* The last element is one more.
LEMMA AppendSet ==
  ASSUME NEW S, NEW s \in Seq(S), NEW e \in S
  PROVE  LET t == Append(s, e)
         IN  /\ t \in Seq(S) /\ t # << >> /\ ToSet(t) = ToSet(s) \cup {e} /\ Last(t) = e
             /\ IsInjective(s) /\ e \notin ToSet(s) => IsInjective(t)
<1> DEFINE t == Append(s, e)
<1>1. /\ t \in Seq(S) /\ Len(t) = Len(s) + 1 /\ t[Len(t)] = e
      /\ \A j \in 1..Len(s) : t[j] = s[j]
  OBVIOUS
<1> HIDE DEF t
<1>2. DOMAIN t = 1..(Len(s) + 1) /\ DOMAIN s = 1..Len(s) /\ Len(s) \in Nat
  BY <1>1
<1>3. ToSet(t) = ToSet(s) \cup {e}
  <2>1. ToSet(t) \subseteq ToSet(s) \cup {e}
    <3> SUFFICES ASSUME NEW j \in 1..(Len(s) + 1), t[j] # e PROVE t[j] \in ToSet(s)
      BY <1>2 DEF ToSet
    <3>1. j \in 1..Len(s)
      BY <1>1, <1>2
    <3> QED
      BY <1>1, <1>2, <3>1 DEF ToSet
  <2>2. e \in ToSet(t)
    <3>1. Len(t) \in DOMAIN t
      BY <1>1, <1>2
    <3> QED
      BY <1>1, <3>1 DEF ToSet
  <2>3. ASSUME NEW j \in 1..Len(s) PROVE s[j] \in ToSet(t)
    <3>1. j \in DOMAIN t
      BY <1>2
    <3> QED
      BY <1>1, <3>1 DEF ToSet
  <2> QED
    BY <1>2, <2>1, <2>2, <2>3 DEF ToSet
<1>4. ASSUME IsInjective(s), e \notin ToSet(s)
      PROVE  IsInjective(t)
  <2> SUFFICES ASSUME NEW j \in 1..(Len(s) + 1), NEW k \in 1..(Len(s) + 1), t[j] = t[k], j < k PROVE FALSE
    BY <1>2 DEF IsInjective
  <2>1. \A m \in 1..Len(s) : s[m] # e
    BY <1>2, <1>4 DEF ToSet
  <2>2. \A m, n \in 1..Len(s) : s[m] = s[n] => m = n
    BY <1>2, <1>4 DEF IsInjective
  <2>3. j \in 1..Len(s) /\ t[j] = s[j]
    BY <1>1, <1>2
  <2>4. CASE k \in 1..Len(s)
    <3>1. t[k] = s[k]
      BY <1>1, <2>4
    <3>2. j # k
      BY <1>2
    <3> QED
      BY <2>2, <2>3, <2>4, <3>1, <3>2
  <2>5. CASE k = Len(t)
    BY <1>1, <2>1, <2>3, <2>5
  <2>6. k \in 1..Len(s) \/ k = Len(t)
    BY <1>1, <1>2
  <2> QED
    BY <2>4, <2>5, <2>6
<1>5. t # << >> /\ Last(t) = e
  BY <1>1, <1>2 DEF Last
<1> QED
  BY <1>1, <1>3, <1>4, <1>5 DEF t

\* The first place of an element is one of its places.
LEMMA FirstPlace ==
  ASSUME NEW S, NEW s \in Seq(S), NEW e, e \in ToSet(s)
  PROVE  LET i == SelectInSeq(s, LAMBDA x : x = e) IN i \in 1..Len(s) /\ s[i] = e
<1> DEFINE I == {i \in 1..Len(s) : s[i] = e}
<1>1. I # {} /\ I \in SUBSET Nat
  BY DEF ToSet
<1>2. SelectInSeq(s, LAMBDA x : x = e) = CHOOSE i \in I : \A j \in I : i =< j
  BY <1>1 DEF SelectInSeq, Min
<1>3. \E i \in I : \A j \in I : i =< j
  BY <1>1, LeastNumber
<1> QED
  BY <1>2, <1>3

\* The elements of a sequence without one of them.
LEMMA RemoveFirstSet ==
  ASSUME NEW S, NEW s \in Seq(S), NEW e, IsInjective(s)
  PROVE  LET t == RemoveFirst(s, e)
         IN  t \in Seq(S) /\ ToSet(t) = ToSet(s) \ {e} /\ IsInjective(t)
<1>1. CASE e \notin ToSet(s)
  <2>1. RemoveFirst(s, e) = s
    BY <1>1 DEF RemoveFirst, ToSet
  <2> QED
    BY <1>1, <2>1
<1>2. CASE e \in ToSet(s)
  <2> DEFINE i == SelectInSeq(s, LAMBDA x : x = e)
             t == RemoveFirst(s, e)
  <2>1. i \in 1..Len(s) /\ s[i] = e
    BY <1>2, FirstPlace
  <2>2. t = RemoveAt(s, i)
    BY <1>2 DEF RemoveFirst, ToSet
  <2> HIDE DEF i, t
  <2>3. /\ t \in Seq(S) /\ Len(t) = Len(s) - 1
        /\ \A j \in 1..Len(t) : t[j] = IF j < i THEN s[j] ELSE s[j + 1]
    BY <2>1, <2>2, RemoveAtElements
  <2>4. DOMAIN t = 1..(Len(s) - 1) /\ DOMAIN s = 1..Len(s) /\ Len(s) \in Nat /\ i \in Nat
    BY <2>1, <2>3
  <2>5. \A m, n \in 1..Len(s) : s[m] = s[n] => m = n
    BY <2>4 DEF IsInjective
  <2>6. ToSet(t) \subseteq ToSet(s) \ {e}
    <3> SUFFICES ASSUME NEW j \in 1..(Len(s) - 1) PROVE t[j] \in ToSet(s) \ {e}
      BY <2>4 DEF ToSet
    <3>1. PICK m \in 1..Len(s) : t[j] = s[m] /\ m # i
      <4>1. CASE j < i
        BY <2>1, <2>3, <2>4, <4>1
      <4>2. CASE ~(j < i)
        <5>1. j + 1 \in 1..Len(s) /\ j + 1 # i /\ t[j] = s[j + 1]
          BY <2>1, <2>3, <2>4, <4>2
        <5> QED
          BY <5>1
      <4> QED
        BY <4>1, <4>2
    <3> QED
      BY <2>1, <2>4, <2>5, <3>1 DEF ToSet
  <2>7. ToSet(s) \ {e} \subseteq ToSet(t)
    <3> SUFFICES ASSUME NEW j \in 1..Len(s), s[j] # e PROVE s[j] \in ToSet(t)
      BY <2>4 DEF ToSet
    <3>1. CASE j < i
      <4>1. j \in DOMAIN t /\ t[j] = s[j]
        BY <2>1, <2>3, <2>4, <3>1
      <4> QED
        BY <4>1 DEF ToSet
    <3>2. CASE j > i
      <4>1. j - 1 \in DOMAIN t /\ t[j - 1] = s[j]
        BY <2>1, <2>3, <2>4, <3>2
      <4> QED
        BY <4>1 DEF ToSet
    <3>3. j < i \/ j > i
      BY <2>1, <2>4
    <3> QED
      BY <3>1, <3>2, <3>3
  <2>8. IsInjective(t)
    <3> SUFFICES ASSUME NEW j \in 1..(Len(s) - 1), NEW k \in 1..(Len(s) - 1), t[j] = t[k], j < k PROVE FALSE
      BY <2>4 DEF IsInjective
    <3>1. CASE k < i
      BY <2>1, <2>3, <2>4, <2>5, <3>1
    <3>2. CASE ~(k < i) /\ j < i
      <4>1. t[j] = s[j] /\ t[k] = s[k + 1] /\ j \in 1..Len(s) /\ k + 1 \in 1..Len(s) /\ j # k + 1
        BY <2>1, <2>3, <2>4, <3>2
      <4> QED
        BY <2>5, <4>1
    <3>3. CASE ~(j < i)
      <4>1. t[j] = s[j + 1] /\ t[k] = s[k + 1] /\ j + 1 \in 1..Len(s) /\ k + 1 \in 1..Len(s) /\ j + 1 # k + 1
        BY <2>1, <2>3, <2>4, <3>3
      <4> QED
        BY <2>5, <4>1
    <3> QED
      BY <3>1, <3>2, <3>3
  <2> QED
    BY <2>3, <2>6, <2>7, <2>8 DEF t
<1> QED
  BY <1>1, <1>2
=============================================================================

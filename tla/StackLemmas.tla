----------------------------- MODULE StackLemmas -----------------------------
(***************************************************************************)
(* Facts that the proofs of the other modules share: sequences used as     *)
(* stacks (what Append pushes, Last and Front find again), induction over  *)
(* the natural numbers, how many elements of a sequence lie in a set, and  *)
(* sequences joined into one.                                              *)
(***************************************************************************)
EXTENDS Integers, SequencesExt, SequenceTheorems, FiniteSetTheorems, TLAPS

\* A pushed element is on top and popping it restores the stack
\* (every states.push() / states.pop() pair of the parser).
LEMMA AppendFacts ==
  ASSUME NEW S, NEW s \in Seq(S), NEW x \in S
  PROVE  /\ Append(s, x) \in Seq(S)
         /\ Append(s, x) # <<>>
         /\ Len(Append(s, x)) = Len(s) + 1
         /\ \A i \in 1..Len(s) : Append(s, x)[i] = s[i]
         /\ Append(s, x)[Len(s) + 1] = x
         /\ Last(Append(s, x)) = x
         /\ Front(Append(s, x)) = s
BY DEF Last, Front

\* Popping a stack that is not empty leaves its other elements as they are.
LEMMA FrontFacts ==
  ASSUME NEW S, NEW s \in Seq(S), s # <<>>
  PROVE  /\ Front(s) \in Seq(S)
         /\ Last(s) \in S
         /\ Last(s) = s[Len(s)]
         /\ Len(s) \in Nat \ {0}
         /\ Len(Front(s)) = Len(s) - 1
         /\ \A i \in 1..(Len(s) - 1) : Front(s)[i] = s[i]
<1>1. Len(s) \in Nat \ {0}
  BY LenProperties, EmptySeq
<1>2. Last(s) \in S
  BY <1>1, ElementOfSeq DEF Last
<1> DEFINE n == Len(s) - 1
           f == SubSeq(s, 1, n)
<1>3. /\ n \in Nat
      /\ \A i \in 1..n : s[i] \in S
  BY <1>1, ElementOfSeq
<1>4. /\ f \in Seq(S)
      /\ Len(f) = IF 1 <= n THEN n - 1 + 1 ELSE 0
      /\ \A i \in 1 .. n - 1 + 1 : f[i] = s[1 + i - 1]
  <2> HIDE DEF n
  <2> QED BY <1>3, SubSeqProperties
<1>5. Len(f) = n
  <2> HIDE DEF n, f
  <2> QED BY <1>3, <1>4
<1>6. ASSUME NEW i \in 1..n PROVE f[i] = s[i]
  <2>1. n - 1 + 1 = n /\ 1 + i - 1 = i
    BY <1>3
  <2> HIDE DEF n, f
  <2> QED BY <1>4, <2>1
<1>7. Front(s) = f
  BY DEF Front
<1>8. Last(s) = s[Len(s)]
  BY DEF Last
<1> HIDE DEF f
<1> QED BY <1>1, <1>2, <1>4, <1>5, <1>6, <1>7, <1>8

\* Pushing what was popped restores the stack.
LEMMA PopPush ==
  ASSUME NEW S, NEW s \in Seq(S), s # <<>>
  PROVE  Append(Front(s), Last(s)) = s
<1> DEFINE t == Append(Front(s), Last(s))
<1>1. /\ Front(s) \in Seq(S) /\ Last(s) \in S /\ Last(s) = s[Len(s)]
      /\ Len(s) \in Nat \ {0} /\ Len(Front(s)) = Len(s) - 1
      /\ \A i \in 1..(Len(s) - 1) : Front(s)[i] = s[i]
  BY FrontFacts
<1>2. /\ t \in Seq(S) /\ Len(t) = Len(Front(s)) + 1
      /\ \A i \in 1..Len(Front(s)) : t[i] = Front(s)[i]
      /\ t[Len(Front(s)) + 1] = Last(s)
  BY <1>1, AppendFacts
<1> HIDE DEF t
<1>3. Len(t) = Len(s) /\ \A i \in 1..Len(t) : t[i] = s[i]
  <2>1. \A i \in 1..Len(s) : i \in 1..(Len(s) - 1) \/ i = Len(Front(s)) + 1
    BY <1>1
  <2>2. Len(Front(s)) + 1 = Len(s)
    BY <1>1
  <2> QED BY <1>1, <1>2, <2>1, <2>2
<1>4. t = s
  BY <1>2, <1>3, SeqEqual
<1> QED BY <1>4 DEF t

-----------------------------------------------------------------------------
\* A set of numbers that is not empty has a least element: the intervals up to
\* its elements, finite sets, have one that no other lies strictly within.
LEMMA LeastOf ==
  ASSUME NEW T \in SUBSET Nat, T # {}
  PROVE  \E m \in T : \A n \in T : m <= n
<1> DEFINE Below == {0..t : t \in T}
<1>1. Below \subseteq FiniteSubsetsOf(Nat)
  <2> SUFFICES ASSUME NEW t \in T PROVE 0..t \in FiniteSubsetsOf(Nat)
    OBVIOUS
  <2>1. IsFiniteSet(0..t) /\ 0..t \in SUBSET Nat
    BY FS_Interval
  <2> QED BY <2>1 DEF FiniteSubsetsOf
<1>2. Below # {}
  OBVIOUS
<1>3. PICK x \in Below : \A y \in Below : <<y, x>> \notin StrictSubsetOrdering(Nat)
  <2> HIDE DEF Below
  <2> QED BY <1>1, <1>2, FS_StrictSubsetOrderingWellFounded, WFMin
<1>4. PICK m \in T : x = 0..m
  BY <1>3
<1>5. ASSUME NEW n \in T, n < m PROVE FALSE
  <2>1. 0..n \subseteq x /\ m \in x /\ m \notin 0..n
    BY <1>4, <1>5
  <2>2. <<0..n, x>> \in (SUBSET Nat) \X (SUBSET Nat)
    BY <1>4
  <2>3. <<0..n, x>> \in StrictSubsetOrdering(Nat)
    BY <2>1, <2>2 DEF StrictSubsetOrdering
  <2> QED BY <1>3, <2>3
<1> QED BY <1>5

\* A bounded one has a greatest element.
LEMMA GreatestOf ==
  ASSUME NEW T \in SUBSET Nat, T # {}, NEW b \in Nat, \A t \in T : t <= b
  PROVE  \E m \in T : \A n \in T : n <= m
<1> DEFINE D == {b - t : t \in T}
<1>1. D \in SUBSET Nat /\ D # {}
  <2>1. \A t \in T : b - t \in Nat
    OBVIOUS
  <2> QED BY <2>1
<1>2. PICK d \in D : \A e \in D : d <= e
  <2> HIDE DEF D
  <2> QED BY <1>1, LeastOf
<1>3. PICK m \in T : d = b - m
  BY <1>2
<1>4. ASSUME NEW n \in T PROVE n <= m
  <2>1. b - n \in D
    OBVIOUS
  <2> QED BY <1>2, <1>3, <2>1
<1> QED BY <1>4

\* Induction over the natural numbers, for a property given as the set of
\* the numbers that have it.
LEMMA NatSetInduction ==
  ASSUME NEW T, 0 \in T, \A n \in Nat : n \in T => n + 1 \in T
  PROVE  Nat \subseteq T
<1> SUFFICES ASSUME Nat \ T # {} PROVE FALSE
  OBVIOUS
<1>1. PICK m \in Nat \ T : \A n \in Nat \ T : m <= n
  BY LeastOf
<1>2. m - 1 \in Nat /\ m - 1 \in T /\ m - 1 + 1 = m
  BY <1>1
<1> QED BY <1>1, <1>2

-----------------------------------------------------------------------------
\* How many of the first n elements of a sequence are in X.
CountIn(s, X, n) == Cardinality({i \in 1..n : s[i] \in X})

\* The count grows by the next element.
LEMMA CountFacts ==
  ASSUME NEW s, NEW X, NEW n \in Nat
  PROVE  /\ CountIn(s, X, 0) = 0
         /\ CountIn(s, X, n) \in 0..n
         /\ CountIn(s, X, n + 1) = CountIn(s, X, n) + (IF s[n + 1] \in X THEN 1 ELSE 0)
<1> DEFINE C(k) == {i \in 1..k : s[i] \in X}
<1>1. ASSUME NEW k \in Nat
      PROVE  IsFiniteSet(C(k)) /\ Cardinality(C(k)) \in Nat /\ Cardinality(C(k)) <= k
  <2>1. IsFiniteSet(1..k) /\ Cardinality(1..k) = k /\ C(k) \subseteq 1..k
    BY FS_Interval
  <2> QED BY <2>1, FS_Subset, FS_CardinalityType
<1>2. C(0) = {} /\ Cardinality(C(0)) = 0
  BY FS_EmptySet
<1>3. CASE s[n + 1] \in X
  <2>1. C(n + 1) = C(n) \cup {n + 1} /\ n + 1 \notin C(n)
    BY <1>3
  <2>2. IsFiniteSet(C(n))
    BY <1>1
  <2>3. Cardinality(C(n + 1)) = Cardinality(C(n)) + 1
    <3> HIDE DEF C
    <3> QED BY <2>1, <2>2, FS_AddElement
  <2> QED BY <1>1, <1>2, <1>3, <2>3 DEF CountIn
<1>4. CASE s[n + 1] \notin X
  <2>1. C(n + 1) = C(n)
    BY <1>4
  <2> QED BY <1>1, <1>2, <1>4, <2>1, SMTT(30) DEF CountIn
<1> QED BY <1>3, <1>4

LEMMA CountNext ==
  ASSUME NEW s, NEW X, NEW n \in Nat
  PROVE  /\ s[n + 1] \in X => CountIn(s, X, n + 1) = CountIn(s, X, n) + 1
         /\ s[n + 1] \notin X => CountIn(s, X, n + 1) = CountIn(s, X, n)
BY CountFacts

\* Sequences that agree up to n have the same count.
LEMMA CountSame ==
  ASSUME NEW s, NEW t, NEW X, NEW n \in Nat, \A i \in 1..n : s[i] \in X <=> t[i] \in X
  PROVE  CountIn(s, X, n) = CountIn(t, X, n)
BY DEF CountIn

\* Where a sequence goes on as another, its count does.
Continues(s, l, t, n) == \A i \in 1..n : s[l + i] = t[i]

LEMMA CountContinues ==
  ASSUME NEW s, NEW t, NEW X, NEW l \in Nat, NEW n \in Nat, Continues(s, l, t, n)
  PROVE  CountIn(s, X, l + n) = CountIn(s, X, l) + CountIn(t, X, n)
<1> DEFINE T == {k \in Nat : k <= n => CountIn(s, X, l + k) = CountIn(s, X, l) + CountIn(t, X, k)}
<1>1. 0 \in T
  <2>1. l + 0 = l /\ CountIn(t, X, 0) = 0 /\ CountIn(s, X, l) \in Int
    BY CountFacts
  <2> QED BY <2>1
<1>2. ASSUME NEW k \in Nat, k \in T PROVE k + 1 \in T
  <2> SUFFICES ASSUME k + 1 <= n
               PROVE  CountIn(s, X, l + (k + 1)) = CountIn(s, X, l) + CountIn(t, X, k + 1)
    OBVIOUS
  <2>1. CountIn(s, X, l + k) = CountIn(s, X, l) + CountIn(t, X, k)
    BY <1>2
  <2>2. l + (k + 1) = (l + k) + 1 /\ l + k \in Nat /\ s[l + (k + 1)] = t[k + 1]
    BY DEF Continues
  <2>3. /\ CountIn(s, X, (l + k) + 1) = CountIn(s, X, l + k) + (IF s[(l + k) + 1] \in X THEN 1 ELSE 0)
        /\ CountIn(t, X, k + 1) = CountIn(t, X, k) + (IF t[k + 1] \in X THEN 1 ELSE 0)
        /\ CountIn(s, X, l) \in Int /\ CountIn(t, X, k) \in Int
    BY <2>2, CountFacts
  <2> QED BY <2>1, <2>2, <2>3
<1>3. n \in T
  <2> HIDE DEF T
  <2> QED BY <1>1, <1>2, NatSetInduction
<1> QED BY <1>3

LEMMA CountShift ==
  ASSUME NEW s, NEW t, NEW X, NEW l \in Nat, NEW n \in Nat,
         \A i \in 1..n : s[l + i] = t[i]
  PROVE  CountIn(s, X, l + n) = CountIn(s, X, l) + CountIn(t, X, n)
<1>1. Continues(s, l, t, n)
  BY DEF Continues
<1> QED BY <1>1, CountContinues

\* If the count is zero none of the elements is in the set.
LEMMA CountNone ==
  ASSUME NEW s, NEW X, NEW n \in Nat, CountIn(s, X, n) = 0
  PROVE  \A i \in 1..n : s[i] \notin X
<1> DEFINE C == {i \in 1..n : s[i] \in X}
<1>1. IsFiniteSet(1..n) /\ C \subseteq 1..n
  BY FS_Interval
<1>2. IsFiniteSet(C)
  BY <1>1, FS_Subset
<1>3. C = {}
  <2>1. Cardinality(C) = 0
    BY DEF CountIn
  <2> HIDE DEF C
  <2> QED BY <1>2, <2>1, FS_EmptySet
<1> QED BY <1>3

\* The count of a stack with one more element.
LEMMA CountPushed ==
  ASSUME NEW S, NEW s \in Seq(S), NEW x \in S, NEW X
  PROVE  /\ CountIn(Append(s, x), X, Len(s) + 1) = CountIn(s, X, Len(s)) + (IF x \in X THEN 1 ELSE 0)
         /\ CountIn(s, X, Len(s)) \in 0..Len(s)
<1> DEFINE t == Append(s, x)
           n == Len(s)
<1>1. n \in Nat /\ t[n + 1] = x /\ \A i \in 1..n : t[i] = s[i]
  BY AppendFacts
<1> HIDE DEF t, n
<1>2. CountIn(t, X, n + 1) = CountIn(t, X, n) + (IF t[n + 1] \in X THEN 1 ELSE 0)
  <2>1. n \in Nat
    BY <1>1
  <2>2. x \in X => CountIn(t, X, n + 1) = CountIn(t, X, n) + 1
    BY <1>1, CountNext
  <2>3. x \notin X => CountIn(t, X, n + 1) = CountIn(t, X, n)
    BY <1>1, CountNext
  <2>4. CountIn(t, X, n) \in 0..n
    BY <2>1, CountFacts
  <2>5. CASE x \in X
    BY <1>1, <2>2, <2>5
  <2>6. CASE x \notin X
    BY <1>1, <2>3, <2>4, <2>6
  <2> QED BY <2>5, <2>6
<1>3. CountIn(t, X, n) = CountIn(s, X, n)
  BY <1>1, CountSame
<1>4. CountIn(s, X, n) \in 0..n
  BY <1>1, CountFacts
<1> QED BY <1>1, <1>2, <1>3, <1>4 DEF t, n

-----------------------------------------------------------------------------
\* The function by which FlattenSeq is defined: f[i] joins the first i sequences.
Joins(f, ss, n) == f = [i \in 1..n |-> IF i = 1 THEN ss[i] ELSE f[i - 1] \o ss[i]]

LEMMA JoinsUnfold ==
  ASSUME NEW ss, Len(ss) \in Nat \ {0}
  PROVE  FlattenSeq(ss) = (CHOOSE f : Joins(f, ss, Len(ss)))[Len(ss)]
BY DEF FlattenSeq, Joins

LEMMA JoinsNext ==
  ASSUME NEW f, NEW ss, NEW n, NEW k \in Nat, k + 1 \in 1..n, Joins(f, ss, n)
  PROVE  f[k + 1] = IF k = 0 THEN ss[k + 1] ELSE f[k] \o ss[k + 1]
<1>1. PICK j : j = k + 1
  OBVIOUS
<1>2. f[j] = IF j = 1 THEN ss[j] ELSE f[j - 1] \o ss[j]
  <2>1. f = [i \in 1..n |-> IF i = 1 THEN ss[i] ELSE f[i - 1] \o ss[i]]
    BY DEF Joins
  <2>2. j \in 1..n
    BY <1>1
  <2>3. [i \in 1..n |-> IF i = 1 THEN ss[i] ELSE f[i - 1] \o ss[i]][j]
          = IF j = 1 THEN ss[j] ELSE f[j - 1] \o ss[j]
    BY <2>2
  <2> QED BY <2>1, <2>3, Zenon
<1>3. j - 1 = k /\ (j = 1 <=> k = 0)
  BY <1>1
<1>4. CASE k = 0
  BY <1>1, <1>2, <1>3, <1>4
<1>5. CASE k # 0
  BY <1>1, <1>2, <1>3, <1>5
<1> QED BY <1>4, <1>5

LEMMA JoinsExist ==
  ASSUME NEW ss, NEW n \in Nat
  PROVE  \E f : Joins(f, ss, n)
<1> DEFINE T == {k \in Nat : \E f : Joins(f, ss, k)}
<1>1. 0 \in T
  <2>1. Joins([i \in 1..0 |-> 0], ss, 0)
    BY DEF Joins
  <2> QED BY <2>1
<1>2. ASSUME NEW k \in Nat, k \in T PROVE k + 1 \in T
  <2>1. PICK f : Joins(f, ss, k)
    BY <1>2
  <2> DEFINE g == [i \in 1..(k + 1) |-> IF i = 1 THEN ss[i] ELSE f[i - 1] \o ss[i]]
  <2>2. \A i \in 1..k : g[i] = f[i]
    <3>1. \A i \in 1..k : i \in 1..(k + 1)
      OBVIOUS
    <3> QED BY <2>1, <3>1 DEF Joins
  <2>3. g = [i \in 1..(k + 1) |-> IF i = 1 THEN ss[i] ELSE g[i - 1] \o ss[i]]
    <3>1. \A i \in 1..(k + 1) : i = 1 \/ i - 1 \in 1..k
      OBVIOUS
    <3>2. \A i \in 1..(k + 1) : i # 1 => g[i - 1] = f[i - 1]
      BY <2>2, <3>1
    <3> HIDE DEF g
    <3>3. g = [i \in 1..(k + 1) |-> IF i = 1 THEN ss[i] ELSE f[i - 1] \o ss[i]]
      BY DEF g
    <3> QED BY <3>2, <3>3
  <2>4. Joins(g, ss, k + 1)
    BY <2>3 DEF Joins
  <2> QED BY <2>4
<1> HIDE DEF T
<1>3. Nat \subseteq T
  BY <1>1, <1>2, NatSetInduction
<1> QED BY <1>3 DEF T

\* Joining is unique, and only what is joined matters.
AgreeTo(s, t, n) == \A i \in 1..n : s[i] = t[i]

LEMMA JoinsAgree ==
  ASSUME NEW ss, NEW tt, NEW n \in Nat, NEW m \in Nat, n <= m, AgreeTo(ss, tt, n),
         NEW f, NEW g, Joins(f, ss, n), Joins(g, tt, m)
  PROVE  AgreeTo(f, g, n)
<1> DEFINE T == {k \in Nat : k \in 1..n => f[k] = g[k]}
<1>1. 0 \in T
  OBVIOUS
<1>2. ASSUME NEW k \in Nat, k \in T PROVE k + 1 \in T
  <2> SUFFICES ASSUME k + 1 \in 1..n PROVE f[k + 1] = g[k + 1]
    OBVIOUS
  <2>1. k + 1 \in 1..m /\ (k # 0 => k \in 1..n)
    OBVIOUS
  <2>2. f[k + 1] = IF k = 0 THEN ss[k + 1] ELSE f[k] \o ss[k + 1]
    BY <2>1, JoinsNext
  <2>3. g[k + 1] = IF k = 0 THEN tt[k + 1] ELSE g[k] \o tt[k + 1]
    BY <2>1, JoinsNext
  <2>4. k \in 1..n => f[k] = g[k]
    BY <1>2
  <2>5. ss[k + 1] = tt[k + 1]
    BY DEF AgreeTo
  <2> QED BY <2>1, <2>2, <2>3, <2>4, <2>5
<1> HIDE DEF T
<1>3. Nat \subseteq T
  BY <1>1, <1>2, NatSetInduction
<1> QED BY <1>3 DEF T, AgreeTo

\* FlattenSeq joins what is pushed to what is there.
LEMMA FlattenPushed ==
  ASSUME NEW S, NEW ss \in Seq(Seq(S)), NEW x \in Seq(S)
  PROVE  FlattenSeq(Append(ss, x)) = FlattenSeq(ss) \o x
<1> DEFINE n == Len(ss)
           tt == Append(ss, x)
           f == CHOOSE f : Joins(f, ss, n)
           g == CHOOSE g : Joins(g, tt, n + 1)
<1>1. /\ n \in Nat /\ Len(tt) = n + 1 /\ tt[n + 1] = x
      /\ \A i \in 1..n : tt[i] = ss[i]
  BY LenProperties, AppendFacts
<1> HIDE DEF n, tt
<1>2. Joins(g, tt, n + 1)
  <2>1. \E h : Joins(h, tt, n + 1)
    <3>1. n + 1 \in Nat
      BY <1>1
    <3> QED BY <3>1, JoinsExist
  <2> QED BY <2>1
<1>3. FlattenSeq(tt) = g[n + 1]
  BY <1>1, JoinsUnfold
<1>4. g[n + 1] = IF n = 0 THEN x ELSE g[n] \o x
  <2>1. n + 1 \in 1..(n + 1)
    BY <1>1
  <2> HIDE DEF g
  <2> QED BY <1>1, <1>2, <2>1, JoinsNext
<1>5. CASE n = 0
  <2>1. FlattenSeq(ss) = <<>>
    BY <1>5, EmptySeq DEF FlattenSeq, n
  <2> QED BY <1>3, <1>4, <1>5, <2>1, ConcatEmptySeq DEF tt
<1>6. CASE n # 0
  <2>1. Joins(f, ss, n)
    <3>1. \E h : Joins(h, ss, n)
      BY <1>1, JoinsExist
    <3> QED BY <3>1
  <2>2. FlattenSeq(ss) = f[n]
    BY <1>1, <1>6, JoinsUnfold DEF n
  <2> HIDE DEF f, g
  <2>3. f[n] = g[n]
    <3>1. n \in 1..n /\ n + 1 \in Nat /\ n <= n + 1 /\ AgreeTo(ss, tt, n)
      BY <1>1, <1>6 DEF AgreeTo
    <3>2. AgreeTo(f, g, n)
      BY <1>1, <1>2, <2>1, <3>1, JoinsAgree
    <3> QED BY <3>1, <3>2 DEF AgreeTo
  <2> QED BY <1>1, <1>3, <1>4, <1>6, <2>2, <2>3 DEF tt
<1> QED BY <1>5, <1>6

\* What is joined of sequences over S is a sequence over S.
LEMMA JoinsTyped ==
  ASSUME NEW S, NEW ss \in Seq(Seq(S)), NEW f, Joins(f, ss, Len(ss))
  PROVE  \A k \in 1..Len(ss) : f[k] \in Seq(S)
<1> DEFINE n == Len(ss)
           T == {k \in Nat : k \in 1..n => f[k] \in Seq(S)}
<1>1. n \in Nat /\ \A i \in 1..n : ss[i] \in Seq(S)
  BY LenProperties, ElementOfSeq
<1>2. Joins(f, ss, n)
  OBVIOUS
<1> HIDE DEF n
<1>3. 0 \in T
  OBVIOUS
<1>4. ASSUME NEW k \in Nat, k \in T PROVE k + 1 \in T
  <2> SUFFICES ASSUME k + 1 \in 1..n PROVE f[k + 1] \in Seq(S)
    OBVIOUS
  <2>1. f[k + 1] = IF k = 0 THEN ss[k + 1] ELSE f[k] \o ss[k + 1]
    BY <1>2, JoinsNext
  <2>2. ss[k + 1] \in Seq(S)
    BY <1>1
  <2>3. k # 0 => f[k] \in Seq(S)
    <3>1. k # 0 => k \in 1..n
      BY <1>1
    <3> QED BY <1>4, <3>1
  <2>4. k # 0 => f[k] \o ss[k + 1] \in Seq(S)
    BY <2>2, <2>3, ConcatProperties
  <2> QED BY <2>1, <2>2, <2>4
<1> HIDE DEF T
<1>5. Nat \subseteq T
  BY <1>3, <1>4, NatSetInduction
<1> QED BY <1>5 DEF T, n

LEMMA FlattenTyped ==
  ASSUME NEW S, NEW ss \in Seq(Seq(S))
  PROVE  FlattenSeq(ss) \in Seq(S)
<1>1. CASE Len(ss) = 0
  <2>1. FlattenSeq(ss) = <<>>
    BY <1>1, EmptySeq DEF FlattenSeq
  <2> QED BY <2>1
<1>2. CASE Len(ss) # 0
  <2>1. Len(ss) \in Nat \ {0}
    BY <1>2, LenProperties
  <2>2. \E f : Joins(f, ss, Len(ss))
    BY <2>1, JoinsExist
  <2>3. FlattenSeq(ss) = (CHOOSE f : Joins(f, ss, Len(ss)))[Len(ss)]
    BY <2>1, JoinsUnfold
  <2> QED BY <2>1, <2>2, <2>3, JoinsTyped
<1> QED BY <1>1, <1>2

\* What is joined has the elements of its parts.
LEMMA FlattenMembers ==
  ASSUME NEW S, NEW ss \in Seq(Seq(S))
  PROVE  \A x : x \in Range(FlattenSeq(ss)) <=> \E i \in 1..Len(ss) : x \in Range(ss[i])
<1> DEFINE n == Len(ss)
           f == CHOOSE f : Joins(f, ss, n)
           Parts(k) == {x \in S : \E i \in 1..k : x \in Range(ss[i])}
           T == {k \in Nat : k \in 1..n => f[k] \in Seq(S) /\ Range(f[k]) = Parts(k)}
<1>1. n \in Nat /\ \A i \in 1..n : ss[i] \in Seq(S) /\ Range(ss[i]) \subseteq S
  <2>1. n \in Nat /\ \A i \in 1..n : ss[i] \in Seq(S)
    BY LenProperties, ElementOfSeq
  <2> QED BY <2>1, RangeOfSeq
<1>2. Joins(f, ss, n)
  <2>1. \E h : Joins(h, ss, n)
    BY <1>1, JoinsExist
  <2> QED BY <2>1
<1>3. CASE n = 0
  <2>1. FlattenSeq(ss) = <<>> /\ Range(<<>>) = {}
    BY <1>3, EmptySeq DEF FlattenSeq, Range
  <2> QED BY <1>3, <2>1
<1>4. CASE n # 0
  <2>1. FlattenSeq(ss) = f[n]
    BY <1>1, <1>4, JoinsUnfold
  <2> HIDE DEF n, f
  <2>2. 0 \in T
    OBVIOUS
  <2>3. ASSUME NEW k \in Nat, k \in T PROVE k + 1 \in T
    <3> SUFFICES ASSUME k + 1 \in 1..n
                 PROVE  f[k + 1] \in Seq(S) /\ Range(f[k + 1]) = Parts(k + 1)
      OBVIOUS
    <3>1. f[k + 1] = IF k = 0 THEN ss[k + 1] ELSE f[k] \o ss[k + 1]
      BY <1>2, JoinsNext
    <3>2. ss[k + 1] \in Seq(S) /\ Range(ss[k + 1]) \subseteq S
      BY <1>1
    <3>3. Parts(k + 1) = Parts(k) \cup Range(ss[k + 1])
      <4>1. \A i : i \in 1..(k + 1) <=> i \in 1..k \/ i = k + 1
        OBVIOUS
      <4> QED BY <3>2, <4>1
    <3>4. CASE k = 0
      <4>1. Parts(k) = {}
        BY <3>4
      <4> QED BY <3>1, <3>2, <3>3, <3>4, <4>1
    <3>5. CASE k # 0
      <4>1. f[k] \in Seq(S) /\ Range(f[k]) = Parts(k)
        BY <1>1, <2>3, <3>5
      <4>2. f[k] \o ss[k + 1] \in Seq(S)
        BY <3>2, <4>1, ConcatProperties
      <4>3. Range(f[k] \o ss[k + 1]) = Range(f[k]) \cup Range(ss[k + 1])
        BY <3>2, <4>1, RangeConcatenation
      <4> QED BY <3>1, <3>3, <3>5, <4>1, <4>2, <4>3
    <3> QED BY <3>4, <3>5
  <2> HIDE DEF T
  <2>4. Nat \subseteq T
    BY <2>2, <2>3, NatSetInduction
  <2>5. n \in 1..n
    BY <1>1, <1>4
  <2>6. Range(f[n]) = Parts(n)
    BY <1>1, <2>4, <2>5 DEF T
  <2> QED BY <1>1, <2>1, <2>6 DEF n
<1> QED BY <1>3, <1>4

-----------------------------------------------------------------------------
\* How many of the elements of a sequence are in X.
CountOf(s, X) == CountIn(s, X, Len(s))

LEMMA CountJoined ==
  ASSUME NEW S, NEW s \in Seq(S), NEW t \in Seq(S), NEW X
  PROVE  CountOf(s \o t, X) = CountOf(s, X) + CountOf(t, X)
<1>1. /\ Len(s) \in Nat /\ Len(t) \in Nat /\ Len(s \o t) = Len(s) + Len(t)
      /\ \A i \in 1..Len(s) : (s \o t)[i] = s[i]
  BY ConcatProperties, LenProperties
<1>2. \A i \in 1..Len(t) : (s \o t)[Len(s) + i] = t[i]
  BY <1>1
<1>3. CountIn(s \o t, X, Len(s) + Len(t)) = CountIn(s \o t, X, Len(s)) + CountIn(t, X, Len(t))
  <2> DEFINE u == s \o t
  <2>1. PICK l \in Nat, m \in Nat : l = Len(s) /\ m = Len(t)
    BY <1>1
  <2>2. Continues(u, l, t, m)
    BY <1>2, <2>1 DEF Continues
  <2> HIDE DEF u
  <2>3. CountIn(u, X, l + m) = CountIn(u, X, l) + CountIn(t, X, m)
    BY <2>1, <2>2, CountContinues
  <2> QED BY <2>1, <2>3 DEF u
<1>4. CountIn(s \o t, X, Len(s)) = CountIn(s, X, Len(s))
  BY <1>1, CountSame, ZenonT(40)
<1> QED BY <1>1, <1>3, <1>4 DEF CountOf

LEMMA CountTyped ==
  ASSUME NEW S, NEW s \in Seq(S), NEW X
  PROVE  CountOf(s, X) \in Nat
BY LenProperties, CountFacts DEF CountOf

\* One of the sequences joined is replaced by another.
SameBut(ss, tt, k) == /\ Len(tt) = Len(ss)
                      /\ \A i \in 1..Len(ss) : i # k => tt[i] = ss[i]

Traded(s, t, x, y, X) == CountOf(s, X) + CountOf(y, X) = CountOf(t, X) + CountOf(x, X)

LEMMA JoinsReplaced ==
  ASSUME NEW S, NEW ss \in Seq(Seq(S)), NEW tt \in Seq(Seq(S)), NEW k \in 1..Len(ss),
         SameBut(ss, tt, k), NEW X,
         NEW f, NEW g, Joins(f, ss, Len(ss)), Joins(g, tt, Len(ss))
  PROVE  Traded(f[Len(ss)], g[Len(ss)], ss[k], tt[k], X)
<1> DEFINE n == Len(ss)
           Same(j) == CountOf(f[j], X) + CountOf(tt[k], X) = CountOf(g[j], X) + CountOf(ss[k], X)
           T == {d \in Nat : k + d <= n => Same(k + d)}
<1>1. /\ n \in Nat /\ \A i \in 1..n : ss[i] \in Seq(S) /\ tt[i] \in Seq(S)
      /\ \A i \in 1..n : f[i] \in Seq(S) /\ g[i] \in Seq(S)
  BY LenProperties, ElementOfSeq, JoinsTyped DEF SameBut
<1>2. Joins(f, ss, n) /\ Joins(g, tt, n) /\ k \in 1..n
  BY DEF SameBut
<1>3. \A i \in 1..n : /\ CountOf(ss[i], X) \in Nat /\ CountOf(tt[i], X) \in Nat
                      /\ CountOf(f[i], X) \in Nat /\ CountOf(g[i], X) \in Nat
  BY <1>1, CountTyped
<1>4. \A i \in 1..n : i # k => tt[i] = ss[i]
  BY DEF SameBut
<1> HIDE DEF n
<1>5. k - 1 \in 1..n => f[k - 1] = g[k - 1]
  <2> SUFFICES ASSUME k - 1 \in 1..n PROVE f[k - 1] = g[k - 1]
    OBVIOUS
  <2>1. PICK m \in Nat : m = k - 1
    OBVIOUS
  <2>2. AgreeTo(ss, tt, m) /\ m <= n /\ m \in 1..m
    BY <1>1, <1>4, <2>1 DEF AgreeTo
  <2>3. Joins([i \in 1..m |-> f[i]], ss, m)
    <3>1. \A i \in 1..m : f[i] = IF i = 1 THEN ss[i] ELSE f[i - 1] \o ss[i]
      <4>1. ASSUME NEW i \in 1..m PROVE f[i] = IF i = 1 THEN ss[i] ELSE f[i - 1] \o ss[i]
        <5>1. PICK p \in Nat : p + 1 = i /\ p = i - 1
          BY <2>1
        <5>2. p + 1 \in 1..n
          BY <1>1, <2>2, <5>1
        <5>3. f[p + 1] = IF p = 0 THEN ss[p + 1] ELSE f[p] \o ss[p + 1]
          BY <1>2, <5>2, JoinsNext
        <5> QED BY <5>1, <5>3
      <4> QED BY <4>1
    <3>2. \A i \in 1..m : i # 1 => i - 1 \in 1..m
      BY <2>1
    <3> QED BY <3>1, <3>2 DEF Joins
  <2>4. AgreeTo([i \in 1..m |-> f[i]], g, m)
    BY <1>1, <1>2, <2>2, <2>3, JoinsAgree
  <2> QED BY <2>1, <2>2, <2>4 DEF AgreeTo
<1>6. 0 \in T
  <2> SUFFICES Same(k)
    BY <1>2
  <2>1. PICK m \in Nat : m + 1 = k /\ k - 1 = m
    <3>1. k - 1 \in Nat /\ k - 1 + 1 = k
      BY <1>2
    <3> QED BY <3>1
  <2>2. /\ f[k] = IF m = 0 THEN ss[k] ELSE f[m] \o ss[k]
        /\ g[k] = IF m = 0 THEN tt[k] ELSE g[m] \o tt[k]
    BY <1>2, <2>1, JoinsNext, ZenonT(40)
  <2>3. CASE m = 0
    BY <1>2, <1>3, <2>2, <2>3
  <2>4. CASE m # 0
    <3>1. m \in 1..n /\ f[m] = g[m] /\ f[m] \in Seq(S) /\ ss[k] \in Seq(S) /\ tt[k] \in Seq(S)
      <4>1. m \in 1..n
        BY <1>1, <1>2, <2>1, <2>4
      <4>2. f[m] = g[m]
        BY <1>5, <2>1, <4>1
      <4> QED BY <1>1, <1>2, <4>1, <4>2
    <3>2. /\ CountOf(f[m] \o ss[k], X) = CountOf(f[m], X) + CountOf(ss[k], X)
          /\ CountOf(f[m] \o tt[k], X) = CountOf(f[m], X) + CountOf(tt[k], X)
      BY <3>1, CountJoined
    <3> QED BY <1>2, <1>3, <2>2, <2>4, <3>1, <3>2
  <2> QED BY <2>3, <2>4
<1>7. ASSUME NEW d \in Nat, d \in T PROVE d + 1 \in T
  <2> SUFFICES ASSUME k + (d + 1) <= n PROVE Same(k + (d + 1))
    OBVIOUS
  <2>1. PICK j \in Nat, i \in Nat : j = k + d /\ i = j + 1
    <3>1. k + d \in Nat /\ k + d + 1 \in Nat
      BY <1>2
    <3> QED BY <3>1
  <2>2. /\ j \in Nat \ {0} /\ i = k + (d + 1) /\ i \in 1..n /\ j \in 1..n /\ i # k
    BY <1>1, <1>2, <2>1
  <2>3. f[i] = f[j] \o ss[i] /\ g[i] = g[j] \o tt[i]
    <3>1. /\ f[j + 1] = IF j = 0 THEN ss[j + 1] ELSE f[j] \o ss[j + 1]
          /\ g[j + 1] = IF j = 0 THEN tt[j + 1] ELSE g[j] \o tt[j + 1]
      <4>1. j + 1 \in 1..n
        BY <2>1, <2>2
      <4> QED BY <1>2, <4>1, JoinsNext
    <3> QED BY <2>1, <2>2, <3>1
  <2>4. Same(j)
    BY <1>7, <2>1, <2>2
  <2>5. /\ tt[i] = ss[i] /\ ss[i] \in Seq(S)
        /\ f[j] \in Seq(S) /\ g[j] \in Seq(S)
    BY <1>1, <1>4, <2>2
  <2>6. /\ CountOf(f[i], X) = CountOf(f[j], X) + CountOf(ss[i], X)
        /\ CountOf(g[i], X) = CountOf(g[j], X) + CountOf(ss[i], X)
    BY <2>3, <2>5, CountJoined, SMTT(30)
  <2>7. Same(i)
    <3>1. /\ CountOf(f[j], X) \in Nat /\ CountOf(g[j], X) \in Nat /\ CountOf(ss[i], X) \in Nat
          /\ CountOf(tt[k], X) \in Nat /\ CountOf(ss[k], X) \in Nat
      BY <1>2, <1>3, <2>2
    <3>2. PICK a, b, c, e, x : /\ a = CountOf(f[j], X) /\ b = CountOf(tt[k], X)
                               /\ c = CountOf(g[j], X) /\ e = CountOf(ss[k], X)
                               /\ x = CountOf(ss[i], X)
      OBVIOUS
    <3>3. (a + x) + b = (c + x) + e
      <4>1. a \in Nat /\ b \in Nat /\ c \in Nat /\ e \in Nat /\ x \in Nat
        BY <3>1, <3>2
      <4>2. a + b = c + e
        BY <2>4, <3>2
      <4> QED BY <4>1, <4>2
    <3> QED BY <2>6, <3>2, <3>3
  <2> QED BY <2>2, <2>7
<1> HIDE DEF T
<1>8. Nat \subseteq T
  BY <1>6, <1>7, NatSetInduction
<1>9. PICK d \in Nat : k + d = n
  <2>1. n - k \in Nat /\ k + (n - k) = n
    BY <1>1, <1>2
  <2> QED BY <2>1
<1>10. Same(n)
  <2>1. d \in T /\ k + d <= n
    BY <1>1, <1>8, <1>9
  <2>2. Same(k + d)
    BY <2>1 DEF T
  <2> QED BY <1>9, <2>2
<1> QED BY <1>10 DEF n, Traded

LEMMA FlattenReplaced ==
  ASSUME NEW S, NEW ss \in Seq(Seq(S)), NEW tt \in Seq(Seq(S)), NEW k \in 1..Len(ss),
         SameBut(ss, tt, k), NEW X
  PROVE  Traded(FlattenSeq(ss), FlattenSeq(tt), ss[k], tt[k], X)
<1>1. Len(ss) \in Nat \ {0} /\ Len(ss) \in Nat
  BY LenProperties
<1>2. /\ FlattenSeq(ss) = (CHOOSE f : Joins(f, ss, Len(ss)))[Len(ss)]
      /\ FlattenSeq(tt) = (CHOOSE f : Joins(f, tt, Len(ss)))[Len(ss)]
  BY <1>1, JoinsUnfold DEF SameBut
<1>3. (\E f : Joins(f, ss, Len(ss))) /\ (\E f : Joins(f, tt, Len(ss)))
  BY <1>1, JoinsExist
<1> DEFINE f == CHOOSE h : Joins(h, ss, Len(ss))
           g == CHOOSE h : Joins(h, tt, Len(ss))
<1>4. Joins(f, ss, Len(ss)) /\ Joins(g, tt, Len(ss))
  BY <1>3
<1>5. FlattenSeq(ss) = f[Len(ss)] /\ FlattenSeq(tt) = g[Len(ss)]
  BY <1>2
<1> HIDE DEF f, g
<1>6. PICK ff, gg : ff = f /\ gg = g
  OBVIOUS
<1>7. Joins(ff, ss, Len(ss)) /\ Joins(gg, tt, Len(ss))
  BY <1>4, <1>6
<1>8. Traded(ff[Len(ss)], gg[Len(ss)], ss[k], tt[k], X)
  BY <1>7, JoinsReplaced
<1> QED BY <1>5, <1>6, <1>8
=============================================================================

---------------------------- MODULE ReaderProofs ----------------------------
(***************************************************************************)
(* Proofs about the reader, for any inputs, any lengths asked for and any  *)
(* way the source cuts its buffers.                                        *)
(*                                                                         *)
(* The positions of the characters are sums of widths, added up by the     *)
(* recursive function of Start: SumsExist says that there is one, by       *)
(* induction, and StartFacts, StartsGrow and TotalFacts what the rest      *)
(* needs of it.  The sets of characters that the buffer holds and that     *)
(* push_char accepts are intervals (DecodableSpan, AcceptedSpan).          *)
(*                                                                         *)
(* The invariant, Stands(k), says that a reader of UTF-8 stands behind k   *)
(* characters: they are what is queued, in order, and the two counts of    *)
(* bytes, that of the BufRead and the reader's own, are where they end.    *)
(* UTF-16 is left out: there the code loses its place, as the run          *)
(* reader_utf16 shows.                                                     *)
(***************************************************************************)
EXTENDS ReaderProps, StackLemmas

\* The function by which Start adds up the widths.
Sums(f, chars, first) ==
  f = [k \in 0..Len(chars) |-> IF k = 0 THEN first ELSE f[k - 1] + chars[k].width]

LEMMA SumsExist ==
  ASSUME NEW chars, NEW first, Len(chars) \in Nat
  PROVE  \E f : Sums(f, chars, first)
<1> DEFINE Partly(f, n) ==
             f = [k \in 0..n |-> IF k = 0 THEN first ELSE f[k - 1] + chars[k].width]
           T == {n \in Nat : \E f : Partly(f, n)}
<1>1. 0 \in T
  <2> DEFINE g == [k \in 0..0 |-> first]
  <2>1. \A k \in 0..0 : k = 0
    OBVIOUS
  <2>2. Partly(g, 0)
    BY <2>1
  <2> HIDE DEF g
  <2> QED BY <2>2
<1>2. ASSUME NEW n \in Nat, n \in T PROVE n + 1 \in T
  <2>1. PICK f : Partly(f, n)
    BY <1>2
  <2>2. PICK m \in Nat : m = n + 1
    OBVIOUS
  <2> DEFINE g == [k \in 0..m |-> IF k = 0 THEN first ELSE f[k - 1] + chars[k].width]
  <2>3. \A k \in 0..n : g[k] = f[k]
    <3> SUFFICES ASSUME NEW k \in 0..n PROVE g[k] = f[k]
      OBVIOUS
    <3>1. k \in 0..m
      BY <2>2
    <3>2. g[k] = IF k = 0 THEN first ELSE f[k - 1] + chars[k].width
      BY <3>1
    <3>3. f[k] = IF k = 0 THEN first ELSE f[k - 1] + chars[k].width
      <4>1. f = [i \in 0..n |-> IF i = 0 THEN first ELSE f[i - 1] + chars[i].width]
        BY <2>1
      <4>2. [i \in 0..n |-> IF i = 0 THEN first ELSE f[i - 1] + chars[i].width][k]
              = IF k = 0 THEN first ELSE f[k - 1] + chars[k].width
        OBVIOUS
      <4> QED BY <4>1, <4>2, Zenon
    <3> QED BY <3>2, <3>3
  <2>4. g = [k \in 0..m |-> IF k = 0 THEN first ELSE g[k - 1] + chars[k].width]
    <3>1. \A k \in 0..m : k # 0 => k - 1 \in 0..n
      BY <2>2
    <3>2. g = [k \in 0..m |-> IF k = 0 THEN first ELSE f[k - 1] + chars[k].width]
      OBVIOUS
    <3> HIDE DEF g
    <3>3. \A k \in 0..m : k # 0 => g[k - 1] = f[k - 1]
      BY <2>3, <3>1
    <3> QED BY <3>2, <3>3
  <2>5. Partly(g, m)
    BY <2>4
  <2> QED BY <2>2, <2>5
<1> HIDE DEF T
<1>3. Nat \subseteq T
  BY <1>1, <1>2, NatSetInduction
<1>4. PICK f : Partly(f, Len(chars))
  BY <1>3 DEF T
<1> QED BY <1>4 DEF Sums

-----------------------------------------------------------------------------
\* Where the characters begin.
LEMMA InputFacts ==
  ASSUME input \in Inputs
  PROVE  /\ Chars \in Seq([width : 1..4, kind : CharKind])
         /\ Len(Chars) \in Nat
         /\ \A i \in 1..Len(Chars) : Chars[i].width \in 1..4 /\ Chars[i].kind \in CharKind
         /\ MarkWidth \in Nat /\ input.cut \in Nat
         /\ input.cut > 0 => Len(Chars) # 0 /\ input.cut < Chars[Len(Chars)].width
<1>1. /\ Chars \in Seq([width : 1..4, kind : CharKind])
      /\ input.sniffed \in {0, 2, 3} /\ input.cut \in Nat
      /\ input.cut > 0 => Chars # <<>> /\ input.cut < Last(Chars).width
  BY ReaderAssumption DEF ReaderAssumption, Chars
<1>2. Len(Chars) \in Nat /\ (Chars # <<>> => Len(Chars) # 0)
  BY <1>1, EmptySeq, LenProperties
<1>3. ASSUME NEW i \in 1..Len(Chars)
      PROVE  Chars[i].width \in 1..4 /\ Chars[i].kind \in CharKind
  <2>1. Chars[i] \in [width : 1..4, kind : CharKind]
    BY <1>1, ElementOfSeq
  <2> QED BY <2>1
<1>4. MarkWidth \in Nat
  BY <1>1 DEF MarkWidth
<1>5. input.cut > 0 => Len(Chars) # 0 /\ input.cut < Chars[Len(Chars)].width
  BY <1>1, <1>2 DEF Last
<1> QED BY <1>1, <1>2, <1>3, <1>4, <1>5

\* After k characters.
At(k) == Start(k + 1)

LEMMA StartFacts ==
  ASSUME input \in Inputs
  PROVE  /\ At(0) = MarkWidth
         /\ \A k \in 0..Len(Chars) : At(k) \in Nat
         /\ \A j \in Nat, k \in 1..Len(Chars) : k = j + 1 => At(k) = At(j) + Chars[k].width
<1> DEFINE f == CHOOSE h : Sums(h, Chars, MarkWidth)
           n == Len(Chars)
           T == {k \in Nat : k <= n => f[k] \in Nat}
<1>1. /\ n \in Nat /\ MarkWidth \in Nat
      /\ \A i \in 1..n : Chars[i].width \in 1..4
  BY InputFacts
<1>2. Sums(f, Chars, MarkWidth)
  BY <1>1, SumsExist
<1>3. \A i : Start(i) = f[i - 1]
  BY DEF Start, Sums
<1>4. \A k \in 0..n : f[k] = IF k = 0 THEN MarkWidth ELSE f[k - 1] + Chars[k].width
  <2> SUFFICES ASSUME NEW k \in 0..n
               PROVE  f[k] = IF k = 0 THEN MarkWidth ELSE f[k - 1] + Chars[k].width
    OBVIOUS
  <2> HIDE DEF f
  <2>1. f = [i \in 0..n |-> IF i = 0 THEN MarkWidth ELSE f[i - 1] + Chars[i].width]
    BY <1>2 DEF Sums
  <2>2. [i \in 0..n |-> IF i = 0 THEN MarkWidth ELSE f[i - 1] + Chars[i].width][k]
          = IF k = 0 THEN MarkWidth ELSE f[k - 1] + Chars[k].width
    OBVIOUS
  <2> QED BY <2>1, <2>2, Zenon
<1> HIDE DEF f, n
<1>5. \A k \in 0..n : At(k) = f[k]
  <2>1. \A k \in 0..n : (k + 1) - 1 = k
    BY <1>1
  <2> QED BY <1>3, <2>1 DEF At
<1>6. \A j \in Nat, k \in 1..n : k = j + 1 => f[k] = f[j] + Chars[k].width /\ j \in 0..n
  <2> SUFFICES ASSUME NEW j \in Nat, NEW k \in 1..n, k = j + 1
               PROVE  f[k] = f[j] + Chars[k].width /\ j \in 0..n
    OBVIOUS
  <2>1. k \in 0..n /\ k # 0 /\ k - 1 = j /\ j \in 0..n
    BY <1>1
  <2> QED BY <1>4, <2>1
<1>7. 0 \in T /\ f[0] = MarkWidth
  BY <1>1, <1>4
<1>8. ASSUME NEW j \in Nat, j \in T PROVE j + 1 \in T
  <2> SUFFICES ASSUME j + 1 <= n PROVE f[j + 1] \in Nat
    OBVIOUS
  <2>1. PICK k \in 1..n : k = j + 1
    BY <1>1
  <2>2. f[j] \in Nat
    BY <1>1, <1>8
  <2>3. f[k] = f[j] + Chars[k].width /\ Chars[k].width \in 1..4
    BY <1>1, <1>6, <2>1
  <2>4. f[k] \in Nat
    BY <2>2, <2>3
  <2> QED BY <2>1, <2>4
<1>9. Nat \subseteq T
  <2> HIDE DEF T
  <2> QED BY <1>7, <1>8, NatSetInduction
<1>10. \A k \in 0..n : f[k] \in Nat
  BY <1>1, <1>9
<1>11. 0 \in 0..n
  BY <1>1
<1>12. \A j \in Nat, k \in 1..n : k = j + 1 => At(k) = At(j) + Chars[k].width
  <2>1. \A k \in 1..n : k \in 0..n
    BY <1>1
  <2> QED BY <1>5, <1>6, <2>1
<1> QED BY <1>5, <1>7, <1>10, <1>11, <1>12 DEF n

\* They begin one after the other.
LEMMA StartsGrow ==
  ASSUME input \in Inputs, NEW i \in 0..Len(Chars), NEW j \in 0..Len(Chars), i < j
  PROVE  At(i) < At(j)
<1> DEFINE n == Len(Chars)
           T == {d \in Nat : (i + 1) + d <= n => At(i) < At((i + 1) + d)}
<1>1. /\ n \in Nat /\ \A k \in 1..n : Chars[k].width \in 1..4
  BY InputFacts
<1>2. /\ \A k \in 0..n : At(k) \in Nat
      /\ \A h \in Nat, k \in 1..n : k = h + 1 => At(k) = At(h) + Chars[k].width
  BY StartFacts
<1> HIDE DEF n
<1>3. ASSUME NEW h \in Nat, NEW k \in 1..n, k = h + 1
      PROVE  At(h) \in Nat /\ At(k) \in Nat /\ At(h) < At(k)
  <2>1. h \in 0..n /\ k \in 0..n
    BY <1>1, <1>3
  <2>2. At(k) = At(h) + Chars[k].width /\ Chars[k].width \in 1..4
    BY <1>1, <1>2, <1>3
  <2> QED BY <1>2, <2>1, <2>2
<1>4. 0 \in T
  <2> SUFFICES ASSUME (i + 1) + 0 <= n PROVE At(i) < At((i + 1) + 0)
    OBVIOUS
  <2>1. PICK k \in 1..n : k = i + 1
    BY <1>1
  <2>2. (i + 1) + 0 = k /\ i \in Nat
    BY <2>1
  <2> QED BY <1>3, <2>1, <2>2
<1>5. ASSUME NEW d \in Nat, d \in T PROVE d + 1 \in T
  <2> SUFFICES ASSUME (i + 1) + (d + 1) <= n PROVE At(i) < At((i + 1) + (d + 1))
    OBVIOUS
  <2>1. PICK h \in Nat, k \in 1..n : h = (i + 1) + d /\ k = h + 1
    <3>1. (i + 1) + d \in Nat /\ ((i + 1) + d) + 1 \in 1..n
      BY <1>1
    <3> QED BY <3>1
  <2>2. (i + 1) + (d + 1) = k /\ h <= n /\ i \in 0..n
    BY <1>1, <2>1 DEF n
  <2>3. At(h) \in Nat /\ At(k) \in Nat /\ At(h) < At(k)
    BY <1>3, <2>1
  <2>4. At(i) < At(h) /\ At(i) \in Nat
    BY <1>2, <1>5, <2>1, <2>2
  <2>5. At(i) < At(k)
    BY <2>3, <2>4
  <2> QED BY <2>2, <2>5
<1>6. Nat \subseteq T
  <2> HIDE DEF T
  <2> QED BY <1>4, <1>5, NatSetInduction
<1>7. PICK d \in Nat : (i + 1) + d = j /\ j <= n
  <2>1. j - (i + 1) \in Nat /\ (i + 1) + (j - (i + 1)) = j
    BY <1>1 DEF n
  <2> QED BY <2>1, <1>1 DEF n
<1> QED BY <1>6, <1>7

\* The last character is cut short, but not left out.
LEMMA TotalFacts ==
  ASSUME input \in Inputs
  PROVE  /\ Total \in Nat /\ Total = At(Len(Chars)) - input.cut
         /\ \A k \in 0..Len(Chars) : k # Len(Chars) => At(k) < Total
         /\ At(Len(Chars)) = Total <=> input.cut = 0
         /\ MarkWidth <= Total
<1> DEFINE n == Len(Chars)
<1>1. /\ n \in Nat /\ MarkWidth \in Nat /\ input.cut \in Nat
      /\ input.cut > 0 => n # 0 /\ input.cut < Chars[n].width
      /\ \A i \in 1..n : Chars[i].width \in 1..4
  BY InputFacts
<1>2. /\ At(0) = MarkWidth
      /\ \A k \in 0..n : At(k) \in Nat
      /\ \A j \in Nat, k \in 1..n : k = j + 1 => At(k) = At(j) + Chars[k].width
  BY StartFacts
<1>3. PICK e \in Nat, c \in Nat : e = At(n) /\ c = input.cut /\ Total = e - c
  <2>1. n \in 0..n
    BY <1>1
  <2> QED BY <1>1, <1>2, <2>1 DEF Total, At
<1>4. CASE n = 0
  <2>1. c = 0 /\ e = MarkWidth
    BY <1>1, <1>2, <1>3, <1>4
  <2>2. \A k \in 0..n : k = n
    BY <1>4
  <2> QED BY <1>3, <2>1, <2>2
<1>5. CASE n # 0
  <2>1. PICK h \in Nat, w \in Nat : n = h + 1 /\ w = Chars[n].width /\ w > 0 /\ n \in 1..n
    <3>1. n - 1 \in Nat /\ n = (n - 1) + 1 /\ n \in 1..n
      BY <1>1, <1>5
    <3>2. Chars[n].width \in 1..4
      BY <1>1, <3>1
    <3>3. PICK w \in Nat : w = Chars[n].width /\ w > 0
      BY <3>2
    <3> QED BY <3>1, <3>3
  <2>2. PICK b \in Nat : b = At(h) /\ e = b + w
    <3>1. h \in 0..n
      BY <1>1, <2>1
    <3> QED BY <1>2, <1>3, <2>1, <3>1
  <2>3. c < w
    BY <1>1, <1>3, <2>1
  <2>4. b < e - c /\ e - c \in Nat
    BY <2>2, <2>3
  <2>5. ASSUME NEW k \in 0..n, k # n PROVE At(k) < Total
    <3>1. k \in Nat /\ k <= h /\ h \in 0..n
      BY <1>1, <2>1, <2>5
    <3>2. CASE k = h
      BY <1>3, <2>2, <2>4, <3>2
    <3>3. CASE k < h
      <4>1. At(k) < At(h)
        BY <3>1, <3>3, StartsGrow DEF n
      <4>2. At(k) \in Nat
        BY <1>2
      <4> QED BY <1>3, <2>2, <2>4, <4>1, <4>2
    <3> QED BY <3>1, <3>2, <3>3
  <2>6. 0 \in 0..n /\ 0 # n
    BY <1>1, <1>5
  <2>7. MarkWidth <= Total
    <3>1. At(0) < Total
      BY <2>5, <2>6
    <3> QED BY <1>1, <1>2, <1>3, <2>4, <3>1
  <2>8. e = Total <=> c = 0
    BY <1>3
  <2> QED BY <1>3, <2>4, <2>5, <2>7, <2>8 DEF n
<1> QED BY <1>4, <1>5

\* The character that begins where k characters end.
LEMMA CharAfter ==
  ASSUME input \in Inputs, NEW k \in 0..Len(Chars), k # Len(Chars)
  PROVE  /\ CharAt(At(k)) = k + 1 /\ k + 1 \in 1..Len(Chars)
         /\ Start(k + 1) = At(k) /\ Start((k + 1) + 1) = At(k + 1)
<1>1. Len(Chars) \in Nat
  BY InputFacts
<1>2. PICK i \in 1..Len(Chars) : i = k + 1 /\ Start(i) = At(k)
  BY <1>1 DEF At
<1>3. ASSUME NEW j \in 1..Len(Chars), Start(j) = At(k) PROVE j = i
  <2>1. PICK h \in 0..Len(Chars) : j = h + 1
    <3>1. j - 1 \in 0..Len(Chars) /\ j = (j - 1) + 1
      BY <1>1
    <3> QED BY <3>1
  <2>2. At(h) = At(k)
    BY <1>3, <2>1 DEF At
  <2>3. At(h) \in Nat
    BY StartFacts
  <2>4. ~(h < k) /\ ~(k < h)
    BY <2>2, <2>3, StartsGrow
  <2> QED BY <1>1, <1>2, <2>1, <2>4
<1>4. CharAt(At(k)) = i
  BY <1>2, <1>3 DEF CharAt
<1> QED BY <1>2, <1>4 DEF At

-----------------------------------------------------------------------------
\* Characters that follow one another.
Unbroken(D, k, n) == /\ D \subseteq (k + 1)..n
                     /\ \A j \in D : \A i \in (k + 1)..j : i \in D

IsSpan(D, k, n) == \E m \in k..n : D = (k + 1)..m

LEMMA Span ==
  ASSUME NEW k \in Nat, NEW n \in Nat, NEW D, k <= n, Unbroken(D, k, n)
  PROVE  IsSpan(D, k, n)
<1> SUFFICES \E m \in k..n : D = (k + 1)..m
  BY DEF IsSpan
<1>1. CASE D = {}
  <2>1. (k + 1)..k = {} /\ k \in k..n
    OBVIOUS
  <2> QED BY <1>1, <2>1
<1>2. CASE D # {}
  <2>1. D \in SUBSET Nat /\ \A t \in D : t <= n
    BY DEF Unbroken
  <2>2. PICK m \in D : \A t \in D : t <= m
    BY <1>2, <2>1, GreatestOf
  <2>3. m \in k..n
    BY DEF Unbroken
  <2>4. D = (k + 1)..m
    <3>1. ASSUME NEW i \in D PROVE i \in (k + 1)..m
      BY <2>2 DEF Unbroken
    <3>2. ASSUME NEW i \in (k + 1)..m PROVE i \in D
      BY DEF Unbroken
    <3> QED BY <3>1, <3>2
  <2> QED BY <2>3, <2>4
<1> QED BY <1>1, <1>2

\* The characters that the buffer holds.
LEMMA DecodableSpan ==
  ASSUME input \in Inputs, NEW k \in 0..Len(Chars), NEW l \in Nat
  PROVE  \E m \in k..Len(Chars) : /\ Decodable(At(k), l) = (k + 1)..m
                                  /\ m # k => At(m) <= l
<1> DEFINE n == Len(Chars)
           D == Decodable(At(k), l)
<1>1. n \in Nat /\ k \in Nat /\ k <= n
  BY InputFacts
<1>2. ASSUME NEW j \in 1..n
      PROVE  /\ Start(j) >= At(k) <=> j \in (k + 1)..n
             /\ Start(j + 1) = At(j) /\ At(j) \in Nat
  <2>1. PICK h \in 0..n : j = h + 1
    <3>1. j - 1 \in 0..n /\ j = (j - 1) + 1
      BY <1>1
    <3> QED BY <3>1
  <2>2. Start(j) = At(h) /\ Start(j + 1) = At(j) /\ j \in 0..n
    BY <2>1 DEF At
  <2>3. At(h) \in Nat /\ At(j) \in Nat /\ At(k) \in Nat
    BY <2>2, StartFacts DEF n
  <2>4. CASE h < k
    <3>1. At(h) < At(k)
      BY <2>4, StartsGrow DEF n
    <3> QED BY <1>1, <2>1, <2>2, <2>3, <2>4, <3>1
  <2>5. CASE h = k
    BY <1>1, <2>1, <2>2, <2>3, <2>5
  <2>6. CASE h > k
    <3>1. At(k) < At(h)
      BY <2>6, StartsGrow DEF n
    <3> QED BY <1>1, <2>1, <2>2, <2>3, <2>6, <3>1
  <2> QED BY <1>1, <2>4, <2>5, <2>6
<1>3. \A j \in D : j \in 1..n /\ j \in (k + 1)..n /\ At(j) <= l
  BY <1>2 DEF Decodable
<1>4. ASSUME NEW j \in D, NEW i \in (k + 1)..j PROVE i \in D
  <2>1. /\ j \in 1..n /\ j \in (k + 1)..n /\ At(j) <= l
        /\ \A h \in 1..j : Start(h) >= At(k) => Chars[h].kind # "invalid"
    BY <1>3 DEF Decodable
  <2>2. i \in 1..n /\ i \in (k + 1)..n /\ i <= j /\ i \in 0..n /\ j \in 0..n
    BY <1>1, <2>1
  <2>3. At(i) <= l
    <3>1. CASE i = j
      BY <2>1, <3>1
    <3>2. CASE i # j
      <4>1. i < j
        BY <1>1, <2>1, <2>2, <3>2
      <4>2. At(i) < At(j) /\ At(i) \in Nat /\ At(j) \in Nat
        BY <2>2, <4>1, StartsGrow, StartFacts DEF n
      <4> QED BY <2>1, <4>2
    <3> QED BY <3>1, <3>2
  <2>4. Start(i) >= At(k) /\ Start(i + 1) <= l
    BY <1>2, <2>2, <2>3
  <2>5. \A h \in 1..i : h \in 1..j
    BY <2>1, <2>2
  <2> QED BY <2>1, <2>2, <2>4, <2>5 DEF Decodable
<1>5. D \subseteq (k + 1)..n
  BY <1>3
<1>6. PICK m \in k..n : D = (k + 1)..m
  <2> HIDE DEF D, n
  <2>1. Unbroken(D, k, n)
    BY <1>4, <1>5 DEF Unbroken
  <2>2. IsSpan(D, k, n)
    BY <1>1, <2>1, Span
  <2> QED BY <2>2 DEF IsSpan
<1>7. m # k => At(m) <= l
  <2> SUFFICES ASSUME m # k PROVE At(m) <= l
    OBVIOUS
  <2>1. m \in (k + 1)..m
    BY <1>1
  <2> QED BY <1>3, <1>6, <2>1
<1> QED BY <1>6, <1>7

\* Those up to the first that push_char refuses.
AcceptsUpTo(js, k, m) ==
  \E a \in k..m : /\ a + 1 \in js /\ Chars[a + 1].kind = "control"
                  /\ Accepted(js) = (k + 1)..a

LEMMA AcceptedSpan ==
  ASSUME NEW k \in Nat, NEW m \in Nat, k <= m, NEW js, js = (k + 1)..m, Controls(js) # {}
  PROVE  AcceptsUpTo(js, k, m)
<1>1. Controls(js) \in SUBSET Nat /\ Controls(js) \subseteq js
  BY DEF Controls
<1>2. PICK c \in Controls(js) : \A i \in Controls(js) : c <= i
  BY <1>1, LeastOf
<1>3. c \in js /\ Chars[c].kind = "control"
  BY DEF Controls
<1>4. PICK a \in k..m : a + 1 = c
  <2>1. c - 1 \in k..m /\ (c - 1) + 1 = c
    BY <1>3
  <2> QED BY <2>1
<1>5. Accepted(js) = (k + 1)..a
  <2>1. ASSUME NEW j \in Accepted(js) PROVE j \in (k + 1)..a
    <3>1. j \in js /\ j < c
      BY <1>2 DEF Accepted
    <3> QED BY <1>3, <1>4, <3>1
  <2>2. ASSUME NEW j \in (k + 1)..a PROVE j \in Accepted(js)
    <3>1. j \in js /\ j < c /\ c \in Nat /\ j \in Nat
      BY <1>3, <1>4
    <3>2. \A i \in Controls(js) : j < i
      BY <1>1, <1>2, <3>1
    <3> QED BY <3>1, <3>2 DEF Accepted
  <2> QED BY <2>1, <2>2
<1> QED BY <1>3, <1>4, <1>5 DEF AcceptsUpTo

\* The first k characters, in order.
InPlace(s, k) == s \in Seq(Nat) /\ Len(s) = k /\ \A i \in 1..k : s[i] = i

LEMMA SpanEnds ==
  ASSUME NEW k \in Nat, NEW m \in Nat, k < m
  PROVE  Min((k + 1)..m) = k + 1 /\ Max((k + 1)..m) = m /\ (k + 1)..m # {}
<1>1. PICK j \in Nat : j = k + 1 /\ j \in j..m /\ m \in j..m
  OBVIOUS
<1>2. /\ \A y \in j..m : j <= y /\ m >= y
      /\ \A x \in j..m : (\A y \in j..m : x <= y) => x = j
      /\ \A x \in j..m : (\A y \in j..m : x >= y) => x = m
  BY <1>1
<1>3. Min(j..m) = j
  BY <1>1, <1>2 DEF Min
<1>4. Max(j..m) = m
  BY <1>1, <1>2 DEF Max
<1> QED BY <1>1, <1>3, <1>4

LEMMA QueueSpan ==
  ASSUME NEW k \in Nat, NEW m \in Nat, k <= m, InPlace(decoded, k),
         NEW js, js = (k + 1)..m, Queue(js)
  PROVE  InPlace(decoded', m)
<1>1. PICK d \in Nat : m = k + d
  <2>1. m - k \in Nat /\ m = k + (m - k)
    OBVIOUS
  <2> QED BY <2>1
<1>2. Cardinality(js) = d
  <2>1. k + 1 \in Int /\ m \in Int
    OBVIOUS
  <2>2. Cardinality((k + 1)..m) = IF k + 1 > m THEN 0 ELSE m - (k + 1) + 1
    BY <2>1, FS_Interval
  <2> QED BY <1>1, <2>2
<1> DEFINE more == [i \in 1..Cardinality(js) |-> Min(js) + i - 1]
<1>3. more = [i \in 1..d |-> k + i]
  <2>1. CASE d = 0
    BY <1>2, <2>1
  <2>2. CASE d # 0
    <3>1. Min(js) = k + 1
      BY <1>1, <2>2, SpanEnds
    <3>2. \A i \in 1..d : (k + 1) + i - 1 = k + i
      BY <1>1
    <3> QED BY <1>2, <3>1, <3>2
  <2> QED BY <2>1, <2>2
<1>4. PICK t : t = [i \in 1..d |-> k + i] /\ decoded' = decoded \o t
  BY <1>3 DEF Queue
<1>5. t \in Seq(Nat) /\ Len(t) = d /\ \A i \in 1..d : t[i] = k + i
  <2>1. \A i \in 1..d : k + i \in Nat
    OBVIOUS
  <2>2. t \in [1..d -> Nat]
    BY <1>4, <2>1
  <2> QED BY <1>4, <2>2
<1>6. PICK old \in Seq(Nat) : old = decoded /\ Len(old) = k
  BY DEF InPlace
<1> DEFINE s == old \o t
<1>7. /\ s \in Seq(Nat) /\ Len(s) = k + d
      /\ \A i \in 1..k : s[i] = i
      /\ \A i \in 1..d : s[k + i] = k + i
  <2>0. old \in Seq(Nat) /\ t \in Seq(Nat)
    BY <1>5, <1>6
  <2>1. /\ old \o t \in Seq(Nat) /\ Len(old \o t) = Len(old) + Len(t)
        /\ \A i \in 1..Len(old) : (old \o t)[i] = old[i]
    BY <2>0, ConcatProperties
  <2>2. \A i \in 1..Len(t) : (old \o t)[Len(old) + i] = t[i]
    BY <1>5
  <2>3. \A i \in 1..k : old[i] = i
    BY <1>6 DEF InPlace
  <2> QED BY <1>5, <1>6, <2>1, <2>2, <2>3
<1> HIDE DEF s
<1>8. \A i \in 1..m : s[i] = i
  <2> SUFFICES ASSUME NEW i \in 1..m PROVE s[i] = i
    OBVIOUS
  <2>1. CASE i <= k
    <3>1. i \in 1..k
      BY <2>1
    <3> QED BY <1>7, <3>1
  <2>2. CASE i > k
    <3>1. i - k \in 1..d /\ k + (i - k) = i
      BY <1>1, <2>2
    <3> QED BY <1>7, <3>1
  <2> QED BY <2>1, <2>2
<1>9. decoded' = s
  BY <1>4, <1>6 DEF s
<1> QED BY <1>1, <1>7, <1>8, <1>9 DEF InPlace

LEMMA WidthSpan ==
  ASSUME input \in Inputs, NEW k \in 0..Len(Chars), NEW m \in k..Len(Chars),
         NEW js, js = (k + 1)..m
  PROVE  /\ Width(js) = At(m) - At(k) /\ At(k) + Width(js) = At(m)
         /\ At(m) \in Nat /\ At(k) \in Nat /\ m \in 0..Len(Chars)
<1>1. Len(Chars) \in Nat /\ m \in 0..Len(Chars)
  BY InputFacts
<1>2. At(m) \in Nat /\ At(k) \in Nat
  BY <1>1, StartFacts
<1>3. CASE m = k
  <2>1. js = {}
    BY <1>1, <1>3
  <2> QED BY <1>1, <1>2, <1>3, <2>1 DEF Width
<1>4. CASE m # k
  <2>1. k < m /\ k \in Nat /\ m \in Nat
    BY <1>1, <1>4
  <2>2. Min(js) = k + 1 /\ Max(js) = m /\ js # {}
    BY <2>1, SpanEnds
  <2>3. Width(js) = At(m) - At(k)
    BY <2>2 DEF Width, At
  <2> QED BY <1>1, <1>2, <2>3
<1> QED BY <1>3, <1>4

-----------------------------------------------------------------------------
\* The invariant.
Running == at \in {"idle", "reading"}
GenuineMark == input.sniffed > 0 => input.isMark

Malformed(k) == \/ k = Len(Chars) - 1 /\ input.cut > 0
                \/ k < Len(Chars) /\ Chars[k + 1].kind # "valid"

\* The reader of UTF-8 stands behind k characters: those are queued, the bytes
\* up to there are counted, and consumed unless it has failed.
Stands(k) ==
  /\ InPlace(decoded, k)
  /\ offset = At(k) - MarkWidth
  /\ limit \in Nat /\ limit <= Total
  /\ encoding \in {"Any", "Utf8"}
  /\ eof => k = Len(Chars) /\ input.cut = 0
  /\ Running => pos = IF encoding = "Any" THEN 0 ELSE At(k)
  /\ Running /\ encoding = "Any" => k = 0
  /\ at \in {"failed", "panic"} /\ GenuineMark => Malformed(k)

ReaderInv == /\ input \in Inputs
             /\ Utf8Input => \E k \in 0..Len(Chars) : Stands(k)

\* A step reads the same input.
LEMMA InputKept ==
  ASSUME input' = input
  PROVE  /\ \A k : At(k)' = At(k) /\ Malformed(k)' = Malformed(k)
         /\ MarkWidth' = MarkWidth /\ Total' = Total /\ Chars' = Chars
         /\ GenuineMark' = GenuineMark /\ Utf8Input' = Utf8Input
BY DEF At, Start, Malformed, MarkWidth, Total, Chars, GenuineMark, Utf8Input

\* What a step has to show.
LEMMA StandsNext ==
  ASSUME input' = input, NEW k,
         InPlace(decoded', k), offset' = At(k) - MarkWidth,
         NEW l \in Nat, l = limit', l <= Total,
         encoding' \in {"Any", "Utf8"},
         eof' => k = Len(Chars) /\ input.cut = 0,
         at' \in {"idle", "reading"} => pos' = IF encoding' = "Any" THEN 0 ELSE At(k),
         at' \in {"idle", "reading"} /\ encoding' = "Any" => k = 0,
         at' \in {"failed", "panic"} /\ GenuineMark => Malformed(k)
  PROVE  Stands(k)'
<1>1. /\ At(k)' = At(k) /\ Malformed(k)' = Malformed(k)
      /\ MarkWidth' = MarkWidth /\ Total' = Total /\ Chars' = Chars
      /\ GenuineMark' = GenuineMark
  BY InputKept
<1>2. (offset = At(k) - MarkWidth)'
  BY <1>1
<1>3. (limit \in Nat /\ limit <= Total)'
  BY <1>1
<1>4. (InPlace(decoded, k))'
  BY DEF InPlace
<1> QED BY <1>1, <1>2, <1>3, <1>4 DEF Stands, Running

\* Where the buffer may end.
LEMMA FilledFacts ==
  ASSUME input \in Inputs, limit \in Nat, limit <= Total, pos \in Nat, NEW l \in Filled
  PROVE  l \in Nat /\ l <= Total
<1>1. Total \in Nat
  BY TotalFacts
<1> QED BY <1>1 DEF Filled

LEMMA ConsumedFacts ==
  ASSUME input \in Inputs, limit \in Nat, limit <= Total, NEW p \in Nat, Consumed(p)
  PROVE  pos' = p /\ \E l \in Nat : l = limit' /\ l <= Total
<1>1. Total \in Nat
  BY TotalFacts
<1>2. PICK l : l = limit'
  OBVIOUS
<1>3. l \in IF limit >= p THEN {limit} ELSE p..Total
  BY <1>2 DEF Consumed
<1>4. l \in Nat /\ l <= Total
  BY <1>1, <1>3
<1> QED BY <1>2, <1>4 DEF Consumed

-----------------------------------------------------------------------------
\* The steps of a reader of UTF-8.
StandsSomewhere == \E k \in 0..Len(Chars) : Stands(k)

LEMMA StandsFacts ==
  ASSUME input \in Inputs, NEW k \in 0..Len(Chars), Stands(k)
  PROVE  /\ At(k) \in Nat /\ MarkWidth \in Nat /\ Total \in Nat /\ k \in Nat
         /\ offset = At(k) - MarkWidth /\ limit \in Nat /\ limit <= Total
         /\ InPlace(decoded, k)
         /\ Running => pos \in Nat
BY InputFacts, StartFacts, TotalFacts DEF Stands

LEMMA QuietStep ==
  ASSUME NEW k, Stands(k), cache \/ Take \/ Enough \/ ReadError \/ UNCHANGED readerVars
  PROVE  Stands(k)'
<1>1. UNCHANGED <<input, pos, limit, decoded, offset, eof, encoding>>
  BY DEF cache, Take, Enough, ReadError, readerVars
<1>2. \/ at' = at
      \/ Running /\ at' \in {"idle", "reading", "broken"}
  BY DEF cache, Take, Enough, ReadError, readerVars, Reading, Answer, Running
<1>3. PICK l \in Nat : l = limit' /\ l <= Total
  BY <1>1 DEF Stands
<1>4. at' \in {"idle", "reading"} => Running
  BY <1>2 DEF Running
<1>5. at' \in {"failed", "panic"} => at = at'
  BY <1>2
<1>6. InPlace(decoded', k)
  BY <1>1 DEF Stands
<1> QED BY <1>1, <1>3, <1>4, <1>5, <1>6, StandsNext DEF Stands

LEMMA EncodingStep ==
  ASSUME input \in Inputs, Utf8Input, NEW k \in 0..Len(Chars), Stands(k), determine_encoding
  PROVE  Stands(k)'
<1>1. /\ Running /\ encoding = "Any" /\ ~eof /\ at = "reading"
      /\ input' = input /\ decoded' = decoded /\ offset' = offset
  BY DEF determine_encoding, Reading, Running
<1>2. k = 0 /\ pos = 0 /\ InPlace(decoded', k) /\ limit \in Nat /\ limit <= Total
  BY <1>1 DEF Stands
<1>3. PICK w \in Nat, t \in Nat : w = MarkWidth /\ t = Total /\ At(k) = w /\ w <= t
  BY <1>2, InputFacts, StartFacts, TotalFacts
<1>4. offset' = At(k) - MarkWidth
  BY <1>1 DEF Stands
<1>5. CASE /\ Total = 0
           /\ eof' = TRUE /\ Answer("idle") /\ UNCHANGED <<encoding, pos, limit>>
  <2>1. w = 0 /\ At(k) = Total
    BY <1>3, <1>5
  <2>2. Len(Chars) = k
    BY <1>3, <2>1, TotalFacts
  <2>3. input.cut = 0
    BY <2>1, <2>2, TotalFacts
  <2>4. at' = "idle" /\ encoding' = "Any" /\ pos' = 0
    BY <1>1, <1>2, <1>5 DEF Answer
  <2>5. PICK l \in Nat : l = limit' /\ l <= Total
    BY <1>2, <1>5
  <2> QED BY <1>1, <1>2, <1>4, <2>2, <2>3, <2>4, <2>5, StandsNext
<1>6. CASE /\ Total > 0 /\ input.sniffed = 0
           /\ limit' \in Filled
           /\ encoding' = "Utf8" /\ UNCHANGED <<pos, eof, at>>
  <2>1. w = 0 /\ pos' = At(k) /\ at' = "reading" /\ ~eof'
    BY <1>1, <1>2, <1>3, <1>6 DEF MarkWidth
  <2>2. PICK l : l = limit' /\ l \in Filled
    BY <1>6
  <2>3. l \in Nat /\ l <= Total
    BY <1>2, <2>2, FilledFacts
  <2> QED BY <1>1, <1>2, <1>4, <1>6, <2>1, <2>2, <2>3, StandsNext
<1>7. CASE /\ Total > 0 /\ input.sniffed > 0
           /\ Consumed(Min({input.sniffed, Total}))
           /\ IF input.isMark
              THEN encoding' = (IF input.sniffed = 2 THEN "Utf16" ELSE "Utf8") /\ UNCHANGED at
              ELSE Answer("failed") /\ UNCHANGED encoding
           /\ UNCHANGED eof
  <2>1. PICK q \in Nat : q = input.sniffed
    BY ReaderAssumption DEF ReaderAssumption
  <2>2. PICK p \in Nat : p = Min({input.sniffed, Total}) /\ (q <= t => p = q)
    <3>1. PICK p \in {q, t} : \A y \in {q, t} : p <= y
      BY <1>3
    <3>2. \A x \in {q, t} : (\A y \in {q, t} : x <= y) => x = p
      BY <3>1, <1>3
    <3>3. Min({q, t}) = p
      BY <3>1, <3>2 DEF Min
    <3> QED BY <1>3, <2>1, <3>1, <3>3
  <2>3. pos' = p /\ \E l \in Nat : l = limit' /\ l <= Total
    BY <1>2, <1>7, <2>2, ConsumedFacts
  <2>4. PICK l \in Nat : l = limit' /\ l <= Total
    BY <2>3
  <2>5. ~eof'
    BY <1>1, <1>7
  <2>6. CASE input.isMark
    <3>1. encoding' = "Utf8" /\ at' = "reading"
      BY <1>1, <1>7, <2>6 DEF Utf8Input
    <3>2. w = q
      BY <1>3, <2>1, <2>6 DEF MarkWidth
    <3>3. pos' = At(k)
      BY <1>3, <2>2, <2>3, <3>2
    <3> QED BY <1>1, <1>2, <1>4, <2>4, <2>5, <3>1, <3>3, StandsNext
  <2>7. CASE ~input.isMark
    <3>1. at' = "failed" /\ encoding' = "Any" /\ ~GenuineMark
      BY <1>1, <1>7, <2>7 DEF Answer, GenuineMark
    <3> QED BY <1>1, <1>2, <1>4, <2>4, <2>5, <3>1, StandsNext
  <2> QED BY <2>6, <2>7
<1> QED BY <1>5, <1>6, <1>7 DEF determine_encoding

LEMMA EndStep ==
  ASSUME input \in Inputs, NEW k \in 0..Len(Chars), Stands(k), EndOfInput
  PROVE  Stands(k)'
<1>1. /\ Running /\ encoding # "Any" /\ encoding' = encoding /\ pos = Total /\ pos' = pos
      /\ at' = "idle" /\ input' = input /\ decoded' = decoded /\ offset' = offset
      /\ limit' = limit
  BY DEF EndOfInput, Reading, Running, Answer
<1>2. pos = At(k) /\ encoding' \in {"Any", "Utf8"} /\ offset' = At(k) - MarkWidth
  BY <1>1 DEF Stands
<1>3. k = Len(Chars)
  BY <1>1, <1>2, TotalFacts
<1>4. input.cut = 0
  BY <1>1, <1>2, <1>3, TotalFacts
<1>5. PICK l \in Nat : l = limit' /\ l <= Total
  BY <1>1 DEF Stands
<1>6. InPlace(decoded', k)
  BY <1>1 DEF Stands
<1> QED BY <1>1, <1>2, <1>3, <1>4, <1>5, <1>6, StandsNext

\* What a reader that decodes UTF-8 finds.
LEMMA DecodingFacts ==
  ASSUME input \in Inputs, NEW k \in 0..Len(Chars), Stands(k),
         Reading, encoding = "Utf8", pos < Total
  PROVE  /\ pos = At(k) /\ k # Len(Chars) /\ ~eof /\ at = "reading"
         /\ k + 1 \in 0..Len(Chars) /\ At(k + 1) = At(k) + Chars[k + 1].width
         /\ At(k + 1) \in Nat
<1>1. pos = At(k) /\ ~eof /\ at = "reading"
  BY DEF Stands, Reading, Running
<1>2. k # Len(Chars)
  <2> SUFFICES ASSUME k = Len(Chars) PROVE FALSE
    OBVIOUS
  <2>1. PICK e \in Nat, c \in Nat : e = At(k) /\ c = input.cut
    BY InputFacts, StandsFacts
  <2>2. Total = e - c
    BY <2>1, TotalFacts
  <2> QED BY <1>1, <2>1, <2>2
<1>3. PICK i \in 1..Len(Chars) : i = k + 1 /\ i \in 0..Len(Chars) /\ k \in Nat
  BY <1>2, InputFacts
<1>4. At(i) = At(k) + Chars[i].width /\ At(i) \in Nat
  BY <1>3, StartFacts
<1> QED BY <1>1, <1>2, <1>3, <1>4

LEMMA BufferedStep ==
  ASSUME input \in Inputs, NEW k \in 0..Len(Chars), Stands(k), read_utf8_buffered
  PROVE  StandsSomewhere'
<1>1. /\ Reading /\ encoding = "Utf8" /\ pos < Total
      /\ input' = input /\ eof' = eof /\ encoding' = encoding
  BY DEF read_utf8_buffered
<1>2. /\ pos = At(k) /\ k # Len(Chars) /\ ~eof /\ at = "reading"
  BY <1>1, DecodingFacts
<1>3. /\ At(k) \in Nat /\ MarkWidth \in Nat /\ Total \in Nat /\ k \in Nat
      /\ offset = At(k) - MarkWidth /\ limit \in Nat /\ limit <= Total
      /\ InPlace(decoded, k) /\ Len(Chars) \in Nat
  BY StandsFacts, InputFacts
<1>4. PICK l : l = limit' /\ l \in Filled
  BY DEF read_utf8_buffered
<1>5. l \in Nat /\ l <= Total
  BY <1>2, <1>3, <1>4, FilledFacts
<1>6. PICK js : js = Decodable(pos, limit')
  OBVIOUS
<1>7. PICK m \in k..Len(Chars) : js = (k + 1)..m /\ (m # k => At(m) <= l)
  BY <1>2, <1>4, <1>5, <1>6, DecodableSpan
<1>8. /\ At(k) + Width(js) = At(m) /\ At(m) \in Nat /\ m \in 0..Len(Chars) /\ m \in Nat
      /\ k <= m
  BY <1>3, <1>7, WidthSpan
<1>9. ASSUME NEW a \in k..m, NEW as, as = (k + 1)..a, Queue(as), offset' = offset + Width(as)
      PROVE  /\ InPlace(decoded', a) /\ offset' = At(a) - MarkWidth
             /\ a \in 0..Len(Chars) /\ At(a) \in Nat
  <2>1. a \in Nat /\ k <= a /\ a \in k..Len(Chars)
    BY <1>3, <1>7
  <2>2. InPlace(decoded', a)
    BY <1>3, <1>9, <2>1, QueueSpan
  <2>3. Width(as) = At(a) - At(k) /\ At(a) \in Nat /\ a \in 0..Len(Chars)
    BY <1>9, <2>1, WidthSpan
  <2> QED BY <1>3, <1>9, <2>2, <2>3
<1>10. ASSUME NEW a \in 0..Len(Chars), InPlace(decoded', a), offset' = At(a) - MarkWidth,
              \/ at' = "failed" /\ Malformed(a)
              \/ at' = "reading" /\ pos' = At(a)
       PROVE  StandsSomewhere'
  <2>1. Stands(a)'
    BY <1>1, <1>2, <1>4, <1>5, <1>10, StandsNext
  <2>2. a \in 0..Len(Chars')
    BY <1>1, InputKept
  <2> QED BY <2>1, <2>2 DEF StandsSomewhere
<1>11. CASE /\ Controls(js) # {}
            /\ Queue(Accepted(js))
            /\ offset' = offset + Width(Accepted(js))
            /\ Answer("failed")
  <2>1. PICK a \in k..m : /\ a + 1 \in js /\ Chars[a + 1].kind = "control"
                          /\ Accepted(js) = (k + 1)..a
    <3>1. k \in Nat /\ m \in Nat /\ k <= m /\ js = (k + 1)..m /\ Controls(js) # {}
      BY <1>3, <1>7, <1>8, <1>11
    <3>2. AcceptsUpTo(js, k, m)
      BY <3>1, AcceptedSpan
    <3> QED BY <3>2 DEF AcceptsUpTo
  <2>2. /\ InPlace(decoded', a) /\ offset' = At(a) - MarkWidth /\ a \in 0..Len(Chars)
    BY <1>9, <1>11, <2>1
  <2>3. Malformed(a)
    <3>1. a < Len(Chars)
      BY <1>3, <1>7, <1>8, <2>1
    <3> QED BY <2>1, <3>1 DEF Malformed
  <2>4. at' = "failed"
    BY <1>11 DEF Answer
  <2> QED BY <1>10, <2>2, <2>3, <2>4
<1>12. m \in k..m
  BY <1>3, <1>8
<1>13. CASE InvalidUtf8(js, At(m))
  <2>1. /\ At(m) < limit' /\ Chars[CharAt(At(m))].kind = "invalid"
        /\ Queue(js) /\ offset' = offset + Width(js) /\ at' = "failed"
    BY <1>13 DEF InvalidUtf8, Answer
  <2>2. /\ InPlace(decoded', m) /\ offset' = At(m) - MarkWidth
    BY <1>7, <1>9, <1>12, <2>1
  <2>3. m # Len(Chars)
    <3> SUFFICES ASSUME m = Len(Chars) PROVE FALSE
      OBVIOUS
    <3>1. PICK e \in Nat, c \in Nat : e = At(m) /\ c = input.cut
      BY <1>8, InputFacts
    <3>2. Total = e - c
      BY <3>1, TotalFacts
    <3> QED BY <1>4, <1>5, <2>1, <3>1, <3>2
  <2>4. CharAt(At(m)) = m + 1
    BY <1>8, <2>3, CharAfter
  <2>5. Malformed(m)
    <3>1. m < Len(Chars)
      BY <1>3, <1>8, <2>3
    <3> QED BY <2>1, <2>4, <3>1 DEF Malformed
  <2> QED BY <1>8, <1>10, <2>1, <2>2, <2>5
<1>14. CASE /\ Queue(js) /\ offset' = offset + Width(js)
            /\ pos' = At(m) /\ UNCHANGED at
  <2>1. /\ InPlace(decoded', m) /\ offset' = At(m) - MarkWidth
    BY <1>7, <1>9, <1>12, <1>14
  <2> QED BY <1>2, <1>8, <1>10, <1>14, <2>1
<1>15. pos + Width(js) = At(m)
  BY <1>2, <1>8
<1> QED BY <1>6, <1>11, <1>13, <1>14, <1>15 DEF read_utf8_buffered

LEMMA UnbufferedStep ==
  ASSUME input \in Inputs, NEW k \in 0..Len(Chars), Stands(k), read_utf8_char_unbuffered
  PROVE  StandsSomewhere'
<1>1. /\ Reading /\ encoding = "Utf8" /\ pos < Total
      /\ input' = input /\ eof' = eof /\ encoding' = encoding
  BY DEF read_utf8_char_unbuffered
<1>2. PICK i : i = k + 1
  OBVIOUS
<1>3. /\ pos = At(k) /\ k # Len(Chars) /\ ~eof /\ at = "reading"
      /\ i \in 0..Len(Chars) /\ At(i) = At(k) + Chars[i].width /\ At(i) \in Nat
  BY <1>1, <1>2, DecodingFacts
<1>4. CharAt(pos) = i /\ Start(i + 1) = At(i)
  BY <1>2, <1>3, CharAfter
<1>5. /\ At(k) \in Nat /\ MarkWidth \in Nat /\ Total \in Nat /\ k \in Nat
      /\ offset = At(k) - MarkWidth /\ limit \in Nat /\ limit <= Total
      /\ InPlace(decoded, k) /\ Len(Chars) \in Nat
      /\ Chars[i].width \in 1..4
  <2>1. i \in 1..Len(Chars)
    BY <1>2, <1>3, InputFacts
  <2> QED BY <2>1, StandsFacts, InputFacts
<1>6. ASSUME NEW a \in 0..Len(Chars), InPlace(decoded', a), offset' = At(a) - MarkWidth,
             NEW p \in Nat, Consumed(p),
             \/ at' = "failed" /\ Malformed(a)
             \/ at' = "reading" /\ p = At(a)
      PROVE  StandsSomewhere'
  <2>1. pos' = p /\ \E l \in Nat : l = limit' /\ l <= Total
    BY <1>5, <1>6, ConsumedFacts
  <2>2. PICK l \in Nat : l = limit' /\ l <= Total
    BY <2>1
  <2>3. Stands(a)'
    BY <1>1, <1>3, <1>6, <2>1, <2>2, StandsNext
  <2>4. a \in 0..Len(Chars')
    BY <1>1, InputKept
  <2> QED BY <2>3, <2>4 DEF StandsSomewhere
<1>7. k < Len(Chars)
  BY <1>3, <1>5
<1>8. CASE At(i) > Total
  <2>1. /\ Consumed(Total) /\ at' = "failed" /\ decoded' = decoded /\ offset' = offset
    BY <1>4, <1>8 DEF read_utf8_char_unbuffered, Answer
  <2>2. i = Len(Chars)
    <3> SUFFICES ASSUME i # Len(Chars) PROVE FALSE
      OBVIOUS
    <3>1. At(i) < Total
      BY <1>3, TotalFacts
    <3> QED BY <1>3, <1>5, <1>8, <3>1
  <2>3. input.cut \in Nat /\ input.cut # 0
    BY <1>3, <1>5, <1>8, <2>2, TotalFacts, InputFacts
  <2>4. k = Len(Chars) - 1 /\ input.cut > 0
    BY <1>2, <1>5, <2>2, <2>3
  <2>5. Malformed(k)
    BY <2>4 DEF Malformed
  <2> QED BY <1>5, <1>6, <2>1, <2>5
<1>9. CASE ~(At(i) > Total) /\ Chars[i].kind = "valid"
  <2>1. /\ Consumed(At(i)) /\ Queue({i}) /\ offset' = offset + Chars[i].width /\ at' = "reading"
    BY <1>3, <1>4, <1>9 DEF read_utf8_char_unbuffered
  <2>2. {i} = (k + 1)..i /\ i \in Nat /\ k <= i
    BY <1>2, <1>5
  <2>3. InPlace(decoded', i)
    BY <1>5, <2>1, <2>2, QueueSpan
  <2>4. offset' = At(i) - MarkWidth
    <3>1. PICK b \in Nat, w \in Nat, c \in Nat : b = At(k) /\ w = MarkWidth /\ c = Chars[i].width
      BY <1>5
    <3>2. At(i) = b + c
      BY <1>3, <3>1
    <3>3. offset' = (b - w) + c
      BY <1>5, <2>1, <3>1
    <3> QED BY <3>1, <3>2, <3>3
  <2> QED BY <1>3, <1>6, <2>1, <2>3, <2>4
<1>10. CASE ~(At(i) > Total) /\ Chars[i].kind # "valid"
  <2>1. /\ Consumed(At(i)) /\ at' = "failed" /\ decoded' = decoded /\ offset' = offset
    BY <1>4, <1>10 DEF read_utf8_char_unbuffered, Answer
  <2>2. Malformed(k)
    BY <1>2, <1>7, <1>10 DEF Malformed
  <2> QED BY <1>3, <1>5, <1>6, <2>1, <2>2
<1> QED BY <1>8, <1>9, <1>10

-----------------------------------------------------------------------------
LEMMA ReaderInitial == ReaderInit => ReaderInv
<1> SUFFICES ASSUME ReaderInit PROVE ReaderInv
  OBVIOUS
<1>1. input \in Inputs
  BY DEF ReaderInit
<1>2. /\ At(0) = MarkWidth /\ MarkWidth \in Nat /\ Total \in Nat /\ 0 \in 0..Len(Chars)
  BY <1>1, InputFacts, StartFacts, TotalFacts
<1>3. InPlace(decoded, 0)
  BY DEF ReaderInit, InPlace
<1>4. Stands(0)
  BY <1>2, <1>3 DEF ReaderInit, Stands
<1> QED BY <1>1, <1>2, <1>4 DEF ReaderInv

LEMMA ReaderStep == ReaderInv /\ [ReaderNext]_readerVars => ReaderInv'
<1> SUFFICES ASSUME ReaderInv, [ReaderNext]_readerVars PROVE ReaderInv'
  OBVIOUS
<1>1. input \in Inputs /\ input' = input
  BY DEF ReaderInv, ReaderNext, readerVars, cache, Take, update_buffer, Turn, ReadError, Enough,
     determine_encoding, EndOfInput, read_utf8_buffered, read_utf8_char_unbuffered,
     read_utf16_buffered, read_utf16_char_unbuffered
<1>2. (input \in Inputs)'
  BY <1>1
<1>3. SUFFICES ASSUME Utf8Input PROVE StandsSomewhere'
  <2>1. Utf8Input' = Utf8Input
    BY <1>1, InputKept
  <2> QED BY <1>2, <1>3, <2>1 DEF ReaderInv, StandsSomewhere
<1>4. PICK k \in 0..Len(Chars) : Stands(k)
  BY <1>3 DEF ReaderInv
<1>5. ASSUME Stands(k)' PROVE StandsSomewhere'
  <2>1. k \in 0..Len(Chars')
    BY <1>1, InputKept
  <2> QED BY <1>5, <2>1 DEF StandsSomewhere
<1>6. CASE cache \/ Take \/ Enough \/ ReadError \/ UNCHANGED readerVars
  BY <1>4, <1>5, <1>6, QuietStep
<1>7. CASE determine_encoding
  BY <1>1, <1>3, <1>4, <1>5, <1>7, EncodingStep
<1>8. CASE EndOfInput
  BY <1>1, <1>4, <1>5, <1>8, EndStep
<1>9. CASE read_utf8_buffered
  BY <1>1, <1>4, <1>9, BufferedStep
<1>10. CASE read_utf8_char_unbuffered
  BY <1>1, <1>4, <1>10, UnbufferedStep
<1>11. CASE read_utf16_buffered \/ read_utf16_char_unbuffered
  <2>1. encoding = "Utf16"
    BY <1>11 DEF read_utf16_buffered, read_utf16_char_unbuffered
  <2>2. encoding \in {"Any", "Utf8"}
    BY <1>4 DEF Stands
  <2> QED BY <2>1, <2>2
<1> QED BY <1>6, <1>7, <1>8, <1>9, <1>10, <1>11 DEF ReaderNext, update_buffer, Turn

\* The invariant: wherever the buffers end, a reader of UTF-8 stands behind a
\* character of the input, with those before it in its queue, counted and,
\* unless it has failed, consumed.
THEOREM ReaderInvariant == ReaderSpec => []ReaderInv
<1> QED BY ReaderInitial, ReaderStep, PTL DEF ReaderSpec

\* The characters come out of read_utf8_buffered and read_utf8_char_unbuffered
\* each once and in order, whatever the input and wherever its buffers end.
THEOREM AlwaysDecodedInOrder == ReaderSpec => []DecodedInOrder
<1>1. ReaderInv => DecodedInOrder
  <2> SUFFICES ASSUME ReaderInv, Utf8Input PROVE InOrder
    BY DEF DecodedInOrder
  <2>1. PICK k \in 0..Len(Chars) : Stands(k)
    BY DEF ReaderInv
  <2>2. decoded \in Seq(Nat) /\ Len(decoded) = k /\ \A i \in 1..k : decoded[i] = i
    BY <2>1 DEF Stands, InPlace
  <2>3. decoded = [i \in 1..Len(decoded) |-> i]
    BY <2>2
  <2> QED BY <2>1, <2>2, <2>3 DEF InOrder, Stands
<1> QED BY <1>1, ReaderInvariant, PTL

\* The offset of an error is that of the first character not decoded.
THEOREM OffsetAlwaysInPlace == ReaderSpec => []OffsetInPlace
<1>1. ReaderInv => OffsetInPlace
  <2> SUFFICES ASSUME ReaderInv, Utf8Input PROVE offset = Start(Len(decoded) + 1) - MarkWidth
    BY DEF OffsetInPlace
  <2>1. PICK k \in 0..Len(Chars) : Stands(k)
    BY DEF ReaderInv
  <2> QED BY <2>1 DEF Stands, InPlace, At
<1> QED BY <1>1, ReaderInvariant, PTL

\* What the reader refuses is malformed there, when a byte that announces a
\* byte order mark always begins one: determine_encoding refuses the others.
THEOREM RefusesOnlyMalformed ==
  ASSUME \A i \in Inputs : i.sniffed > 0 => i.isMark
  PROVE  ReaderSpec => []OnlyMalformedRefused
<1>1. ReaderInv => OnlyMalformedRefused
  <2> SUFFICES ASSUME ReaderInv, Utf8Input, at \in {"failed", "panic"}
               PROVE  \/ Len(decoded) = Len(Chars) - 1 /\ input.cut > 0
                      \/ Len(decoded) < Len(Chars) /\ Chars[Len(decoded) + 1].kind # "valid"
    BY DEF OnlyMalformedRefused
  <2>1. PICK k \in 0..Len(Chars) : Stands(k)
    BY DEF ReaderInv
  <2>2. GenuineMark
    BY DEF ReaderInv, GenuineMark
  <2>3. Malformed(k) /\ Len(decoded) = k
    BY <2>1, <2>2 DEF Stands, InPlace
  <2> QED BY <2>3 DEF Malformed
<1> QED BY <1>1, ReaderInvariant, PTL
=============================================================================

--------------------------- MODULE TextLayoutProofs ---------------------------
(***************************************************************************)
(* Lemmas about TextField and TextLayout, for texts of any length: what    *)
(* the cuts and splices of a text are made of, that the scans of a command *)
(* find the row or the nearest word, and what becomes of the list of lines *)
(* when a part of a text is replaced.                                      *)
(*                                                                         *)
(* Rows count line breaks, lists of lines are told apart item by item.     *)
(* The lines of a text, a line break and another text are those of the     *)
(* one and then those of the other (GlueLines); a block of whole lines can *)
(* therefore be replaced by what has other lines, and the rest of the list *)
(* and every caret's column in it stay (BlockReplaced).                    *)
(***************************************************************************)
EXTENDS TextLayout, SequenceTheorems, FiniteSetTheorems, WellFoundedInduction, TLAPS

(* The text, and what is found in it. *)

\* A nonempty set of numbers has a smallest one.
LEMMA SmallestIsOne ==
  ASSUME NEW S \in SUBSET Nat, S # {}
  PROVE  Smallest(S) \in S /\ \A y \in S : Smallest(S) <= y
<1>1. PICK x \in S : \A y \in S : ~(<<y, x>> \in OpToRel(<, Nat))
  BY WFMin, NatLessThanWellFounded
<1>2. \A y \in S : x <= y
  <2> SUFFICES ASSUME NEW y \in S PROVE x <= y
    OBVIOUS
  <2>1. ~(y < x)
    BY <1>1 DEF OpToRel
  <2> QED BY <2>1
<1> QED BY <1>2 DEF Smallest

\* A nonempty set of numbers with a bound has a largest one.
LEMMA LargestIsOne ==
  ASSUME NEW n \in Nat, NEW S \in SUBSET (0..n), S # {}
  PROVE  Largest(S) \in S /\ \A y \in S : y <= Largest(S)
<1> DEFINE T == {n - x : x \in S}
<1>1. T \in SUBSET Nat /\ T # {}
  <2>1. \A x \in S : n - x \in Nat
    OBVIOUS
  <2> QED BY <2>1
<1>2. Smallest(T) \in T /\ \A y \in T : Smallest(T) <= y
  BY <1>1, SmallestIsOne
<1>3. PICK x \in S : Smallest(T) = n - x
  BY <1>2
<1>4. \A y \in S : y <= x
  BY <1>2, <1>3
<1> QED BY <1>4 DEF Largest

\* What the cuts of a text are made of, and how long they are.
LEMMA CutTypes ==
  ASSUME NEW t \in Seq(Char), NEW k \in Nat
  PROVE  /\ Take(t, k) \in Seq(Char) /\ Len(Take(t, k)) = AtMost(k, Len(t))
         /\ Drop(t, k) \in Seq(Char) /\ Len(Drop(t, k)) = IF k <= Len(t) THEN Len(t) - k ELSE 0
<1>1. Len(t) \in Nat /\ \A i \in 1..Len(t) : t[i] \in Char
  OBVIOUS
<1>2. AtMost(k, Len(t)) \in 0..Len(t)
  BY <1>1 DEF AtMost
<1>3. Take(t, k) \in Seq(Char) /\ Len(Take(t, k)) = AtMost(k, Len(t))
  <2>1. \A i \in 1..AtMost(k, Len(t)) : t[i] \in Char
    BY <1>1, <1>2
  <2> QED BY <1>2, <2>1, SubSeqProperties DEF Take
<1>4. Drop(t, k) \in Seq(Char) /\ Len(Drop(t, k)) = IF k <= Len(t) THEN Len(t) - k ELSE 0
  <2>1. \A i \in k + 1..Len(t) : t[i] \in Char
    BY <1>1
  <2>2. /\ SubSeq(t, k + 1, Len(t)) \in Seq(Char)
        /\ Len(SubSeq(t, k + 1, Len(t))) = IF k + 1 <= Len(t) THEN Len(t) - (k + 1) + 1 ELSE 0
    BY <1>1, <2>1, SubSeqProperties
  <2> QED BY <1>1, <2>2 DEF Drop
<1> QED BY <1>3, <1>4

\* A splice of a text.
LEMMA SpliceTypes ==
  ASSUME NEW t \in Seq(Char), NEW s \in Nat, NEW e \in Nat, s <= e, NEW new \in Seq(Char)
  PROVE  /\ Splice(t, s, e, new) \in Seq(Char)
         /\ e <= Len(t) => Len(Splice(t, s, e, new)) = Len(t) - (e - s) + Len(new)
<1> DEFINE head == Take(t, s)
           tail == Drop(t, e)
<1>1. /\ head \in Seq(Char) /\ Len(head) = AtMost(s, Len(t))
      /\ tail \in Seq(Char) /\ Len(tail) = IF e <= Len(t) THEN Len(t) - e ELSE 0
  BY CutTypes
<1>2. Splice(t, s, e, new) = (head \o new) \o tail
  BY DEF Splice
<1> HIDE DEF head, tail
<1>3. head \o new \in Seq(Char) /\ Len(head \o new) = Len(head) + Len(new)
  BY <1>1, ConcatProperties
<1>4. /\ (head \o new) \o tail \in Seq(Char)
      /\ Len((head \o new) \o tail) = Len(head \o new) + Len(tail)
  BY <1>1, <1>3, ConcatProperties
<1>5. e <= Len(t) => AtMost(s, Len(t)) = s
  BY DEF AtMost
<1>6. Len(t) \in Nat /\ Len(new) \in Nat
  OBVIOUS
<1>7. e <= Len(t) => Len(head) = s /\ Len(tail) = Len(t) - e
  BY <1>1, <1>5
<1>8. Splice(t, s, e, new) \in Seq(Char)
  BY <1>2, <1>4
<1>9. Len(Splice(t, s, e, new)) = Len(head) + Len(new) + Len(tail)
  BY <1>2, <1>3, <1>4
<1>10. e <= Len(t) => Len(Splice(t, s, e, new)) = s + Len(new) + (Len(t) - e)
  BY <1>7, <1>9
<1>11. s + Len(new) + (Len(t) - e) = Len(t) - (e - s) + Len(new)
  BY <1>6
<1> QED BY <1>8, <1>10, <1>11

\* A stretch of a text.
LEMMA SliceTypes ==
  ASSUME NEW t \in Seq(Char), NEW s \in Nat, NEW e \in Nat
  PROVE  Slice(t, s, e) \in Seq(Char)
BY CutTypes DEF Slice

\* A word before the caret ends at it or before it.
LEMMA WordBeforeTypes ==
  ASSUME NEW t \in Seq(Char), NEW c \in Nat, WordBefore(t, c) # None
  PROVE  /\ WordBefore(t, c) \in Nat \X Nat
         /\ WordBefore(t, c)[1] < WordBefore(t, c)[2] /\ WordBefore(t, c)[2] <= c
<1> DEFINE words == {i \in 1..c : t[i] \in WordChar}
           last == Largest(words)
           starts == {i \in 0..last - 1 : i = 0 \/ t[i] \notin WordChar}
<1>1. words # {} /\ WordBefore(t, c) = <<Largest(starts), last>>
  BY DEF WordBefore
<1>2. words \in SUBSET (0..c)
  OBVIOUS
<1>3. last \in words
  BY <1>1, <1>2, LargestIsOne
<1> HIDE DEF last
<1>4. last \in 1..c
  BY <1>3
<1>5. starts \in SUBSET (0..last - 1) /\ 0 \in starts /\ last - 1 \in Nat
  BY <1>4
<1>6. Largest(starts) \in starts
  BY <1>5, LargestIsOne
<1>7. Largest(starts) \in 0..last - 1
  BY <1>6
<1> QED BY <1>1, <1>4, <1>7

\* A word after the caret.
LEMMA WordAfterTypes ==
  ASSUME NEW t \in Seq(Char), NEW c \in Nat, NEW n \in Nat,
         WordAfter(t, c, n) # None, WordAfter(t, c, n) # Unreadable
  PROVE  /\ WordAfter(t, c, n) \in Nat \X Nat
         /\ WordAfter(t, c, n)[1] < WordAfter(t, c, n)[2] /\ WordAfter(t, c, n)[2] <= n
<1> DEFINE known == AtMost(n, Len(t))
           words == {i \in c + 1..known : t[i] \in WordChar}
           first == Smallest(words)
           ends == {i \in first..known : i = n \/ (i < known /\ t[i + 1] \notin WordChar)}
<1>1. words # {} /\ ends # {} /\ WordAfter(t, c, n) = <<first - 1, Smallest(ends)>>
  BY DEF WordAfter
<1>2. known \in Nat /\ known <= n
  BY DEF AtMost
<1>3. first \in words
  <2>1. words \in SUBSET Nat
    BY <1>2
  <2> QED BY <1>1, <2>1, SmallestIsOne
<1> HIDE DEF first
<1>4. first \in c + 1..known
  BY <1>3
<1>5. Smallest(ends) \in ends
  <2>1. ends \in SUBSET Nat
    BY <1>2, <1>4
  <2> QED BY <1>1, <2>1, SmallestIsOne
<1>6. Smallest(ends) \in first..known
  BY <1>5
<1> QED BY <1>1, <1>2, <1>4, <1>6

\* The line at the caret holds the caret.
LEMMA LineAroundTypes ==
  ASSUME NEW t \in Seq(Char), NEW c \in Nat, NEW n \in Nat, LineAround(t, c, n) # Unreadable
  PROVE  /\ LineAround(t, c, n) \in Nat \X Nat
         /\ LineAround(t, c, n)[1] <= c /\ c <= LineAround(t, c, n)[2]
<1> DEFINE known == AtMost(n, Len(t))
           ends == {i \in c..known : i = n \/ (i < known /\ t[i + 1] = Newline)}
           starts == {i \in 0..c : i = 0 \/ t[i] = Newline}
<1>1. ends # {} /\ LineAround(t, c, n) = <<Largest(starts), Smallest(ends)>>
  BY DEF LineAround
<1>2. known \in Nat
  BY DEF AtMost
<1>3. Smallest(ends) \in ends
  <2>1. ends \in SUBSET Nat
    BY <1>2
  <2> QED BY <1>1, <2>1, SmallestIsOne
<1>4. Largest(starts) \in starts
  <2>1. starts \in SUBSET (0..c) /\ 0 \in starts
    OBVIOUS
  <2> QED BY <2>1, LargestIsOne
<1>5. Smallest(ends) \in c..known /\ Largest(starts) \in 0..c
  BY <1>3, <1>4
<1> QED BY <1>1, <1>2, <1>5

-----------------------------------------------------------------------------
(* Types. *)

\* Typing over a stretch of the field.
LEMMA TypedTypes ==
  ASSUME FieldOK, NEW s \in Nat, NEW e \in Nat, s <= e, e <= Len(text), NEW new \in Seq(Char),
         Typed(s, e, new)
  PROVE  FieldOK' /\ text' \in Seq(Char)
<1>1. text' = Splice(text, s, e, new) /\ caret' = s + Len(new) /\ sels' = <<>>
  BY DEF Typed
<1>2. text' \in Seq(Char) /\ Len(text') = Len(text) - (e - s) + Len(new)
  BY <1>1, SpliceTypes DEF FieldOK
<1>3. Len(text) \in Nat /\ Len(new) \in Nat
  BY DEF FieldOK
<1>4. caret' \in 0..Len(text')
  BY <1>1, <1>2, <1>3
<1> QED BY <1>1, <1>2, <1>4 DEF FieldOK

\* The user's typing keeps all types.
LEMMA ForeignTypes ==
  ASSUME TypeOK, Foreign
  PROVE  TypeOK' /\ UNCHANGED <<reading, pc, outcome, base>>
<1> USE DEF TypeOK
<1>1. caret \in Nat /\ caret <= Len(text) /\ Len(text) \in Nat
  BY DEF FieldOK
<1>2. sels # <<>> => /\ sels[1][1] \in Nat /\ sels[1][2] \in Nat
                     /\ sels[1][1] <= sels[1][2] /\ sels[1][2] <= Len(text)
  <2> SUFFICES ASSUME sels # <<>>
               PROVE  /\ sels[1][1] \in Nat /\ sels[1][2] \in Nat
                      /\ sels[1][1] <= sels[1][2] /\ sels[1][2] <= Len(text)
    OBVIOUS
  <2>1. 1 \in DOMAIN sels /\ sels[1] \in Nat \X Nat
    BY DEF FieldOK
  <2> QED BY <2>1 DEF FieldOK
<1>3. <<"t">> \in Seq(Char) /\ <<>> \in Seq(Char)
  BY DEF Char, WordChar
<1>4. PICK s \in Nat, e \in Nat, new \in Seq(Char) : s <= e /\ e <= Len(text) /\ Typed(s, e, new)
  <2>1. CASE Typed(TypesAt[1], TypesAt[2], <<"t">>)
    <3>1. /\ TypesAt[1] \in Nat /\ TypesAt[2] \in Nat
          /\ TypesAt[1] <= TypesAt[2] /\ TypesAt[2] <= Len(text)
      BY <1>1, <1>2 DEF TypesAt
    <3> QED BY <1>3, <2>1, <3>1
  <2>2. CASE caret > 0 /\ Typed(caret - 1, caret, <<>>)
    <3>1. caret - 1 \in Nat /\ caret - 1 <= caret
      BY <1>1, <2>2
    <3> QED BY <1>1, <1>3, <2>2, <3>1
  <2>3. CASE sels # <<>> /\ Typed(sels[1][1], sels[1][2], <<>>)
    BY <1>2, <1>3, <2>3
  <2>4. CASE Typed(0, 0, <<>>)
    <3>1. 0 \in Nat /\ 0 <= 0 /\ 0 <= Len(text)
      BY <1>1
    <3> QED BY <1>3, <2>4, <3>1
  <2> QED BY <2>1, <2>2, <2>3, <2>4 DEF Foreign
<1>5. FieldOK' /\ text' \in Seq(Char)
  BY <1>4, TypedTypes
<1>6. /\ UNCHANGED <<reading, pc, outcome, base>> /\ held' \subseteq held \cup {text'}
      /\ foreign' = foreign + 1 /\ foreign < MaxForeign
  BY <1>4 DEF Typed
<1>7. foreign' \in 0..MaxForeign
  BY <1>6, FieldAssumption
<1> QED BY <1>5, <1>6, <1>7 DEF reading

-----------------------------------------------------------------------------
(* Cutting and joining. *)

\* z has n elements: up to m those of x, then those of y.
IsJoin(S, z, m, n, x, y) ==
  /\ z \in Seq(S) /\ Len(z) = n
  /\ \A k \in 1..n : z[k] = IF k <= m THEN x[k] ELSE y[k - m]

\* z is t with new in the place of what lies between s and e.
IsSplice(S, z, t, s, e, new) ==
  /\ z \in Seq(S) /\ Len(z) = Len(t) - (e - s) + Len(new)
  /\ \A k \in 1..Len(z) : z[k] = IF k <= s THEN t[k]
                                 ELSE IF k <= s + Len(new) THEN new[k - s]
                                 ELSE t[k - s - Len(new) + e]

\* m is what lies between s and e.
IsSlice(S, m, t, s, e) ==
  m \in Seq(S) /\ Len(m) = e - s /\ \A k \in 1..e - s : m[k] = t[s + k]

\* The elements of a join.
LEMMA JoinElements ==
  ASSUME NEW S, NEW x \in Seq(S), NEW y \in Seq(S), NEW m, NEW n,
         Len(x) = m, n = m + Len(y)
  PROVE  IsJoin(S, x \o y, m, n, x, y)
BY ConcatProperties DEF IsJoin

\* The characters of the cuts of a sequence.
LEMMA CutElements ==
  ASSUME NEW S, NEW t \in Seq(S), NEW k \in 0..Len(t)
  PROVE  /\ Take(t, k) \in Seq(S) /\ Len(Take(t, k)) = k /\ \A i \in 1..k : Take(t, k)[i] = t[i]
         /\ Drop(t, k) \in Seq(S) /\ Len(Drop(t, k)) = Len(t) - k
         /\ \A i \in 1..Len(t) - k : Drop(t, k)[i] = t[k + i]
<1>1. Len(t) \in Nat /\ \A i \in 1..Len(t) : t[i] \in S
  OBVIOUS
<1>2. Take(t, k) \in Seq(S) /\ Len(Take(t, k)) = k /\ \A i \in 1..k : Take(t, k)[i] = t[i]
  <2>1. Take(t, k) = SubSeq(t, 1, k)
    BY <1>1 DEF Take, AtMost
  <2>2. \A i \in 1..k : t[i] \in S
    BY <1>1
  <2>3. /\ SubSeq(t, 1, k) \in Seq(S) /\ Len(SubSeq(t, 1, k)) = IF 1 <= k THEN k - 1 + 1 ELSE 0
        /\ \A i \in 1..k - 1 + 1 : SubSeq(t, 1, k)[i] = t[1 + i - 1]
    BY <1>1, <2>2, SubSeqProperties
  <2> QED BY <1>1, <2>1, <2>3
<1>3. /\ Drop(t, k) \in Seq(S) /\ Len(Drop(t, k)) = Len(t) - k
      /\ \A i \in 1..Len(t) - k : Drop(t, k)[i] = t[k + i]
  <2>1. \A i \in k + 1..Len(t) : t[i] \in S
    BY <1>1
  <2>2. /\ SubSeq(t, k + 1, Len(t)) \in Seq(S)
        /\ Len(SubSeq(t, k + 1, Len(t))) = IF k + 1 <= Len(t) THEN Len(t) - (k + 1) + 1 ELSE 0
        /\ \A i \in 1..Len(t) - (k + 1) + 1 : SubSeq(t, k + 1, Len(t))[i] = t[(k + 1) + i - 1]
    BY <1>1, <2>1, SubSeqProperties
  <2> QED BY <1>1, <2>2 DEF Drop
<1> QED BY <1>2, <1>3

\* The characters of a stretch.
LEMMA SliceElements ==
  ASSUME NEW S, NEW t \in Seq(S), NEW s \in Nat, NEW e \in Nat, s <= e, e <= Len(t)
  PROVE  IsSlice(S, Slice(t, s, e), t, s, e)
<1>1. e \in 0..Len(t)
  OBVIOUS
<1>2. Take(t, e) \in Seq(S) /\ Len(Take(t, e)) = e /\ \A i \in 1..e : Take(t, e)[i] = t[i]
  BY <1>1, CutElements
<1>3. s \in 0..Len(Take(t, e))
  BY <1>2
<1>4. /\ Slice(t, s, e) \in Seq(S) /\ Len(Slice(t, s, e)) = Len(Take(t, e)) - s
      /\ \A i \in 1..Len(Take(t, e)) - s : Slice(t, s, e)[i] = Take(t, e)[s + i]
  BY ZenonT(30), <1>2, <1>3, CutElements DEF Slice
<1> QED BY <1>2, <1>4 DEF IsSlice

\* The characters of a splice.
LEMMA SpliceElements ==
  ASSUME NEW S, NEW t \in Seq(S), NEW s \in Nat, NEW e \in Nat, s <= e, e <= Len(t),
         NEW new \in Seq(S)
  PROVE  IsSplice(S, Splice(t, s, e, new), t, s, e, new)
<1> DEFINE head == Take(t, s)
           tail == Drop(t, e)
           front == head \o new
           m == s + Len(new)
           n == m + (Len(t) - e)
           z == front \o tail
<1>1. Len(t) \in Nat /\ Len(new) \in Nat
  OBVIOUS
<1>2. /\ head \in Seq(S) /\ Len(head) = s /\ \A i \in 1..s : head[i] = t[i]
      /\ tail \in Seq(S) /\ Len(tail) = Len(t) - e
      /\ \A i \in 1..Len(t) - e : tail[i] = t[e + i]
  <2>1. s \in 0..Len(t) /\ e \in 0..Len(t)
    BY <1>1
  <2> QED BY <2>1, CutElements
<1>3. Splice(t, s, e, new) = z
  BY DEF Splice
<1> HIDE DEF head, tail
<1>4. IsJoin(S, front, s, m, head, new)
  BY <1>2, JoinElements
<1>5. IsJoin(S, z, m, n, front, tail)
  <2>1. front \in Seq(S) /\ Len(front) = m
    BY <1>4 DEF IsJoin
  <2>2. m \in Nat /\ n = m + Len(tail)
    BY <1>1, <1>2
  <2> HIDE DEF front, m, n
  <2> QED BY <1>2, <2>1, <2>2, JoinElements
<1> HIDE DEF front, z
<1>6. z \in Seq(S) /\ Len(z) = Len(t) - (e - s) + Len(new)
  BY <1>1, <1>5 DEF IsJoin
<1>7. ASSUME NEW k \in 1..Len(z)
      PROVE  z[k] = IF k <= s THEN t[k]
                    ELSE IF k <= s + Len(new) THEN new[k - s]
                    ELSE t[k - s - Len(new) + e]
  <2>1. k \in 1..n /\ z[k] = IF k <= m THEN front[k] ELSE tail[k - m]
    BY <1>5 DEF IsJoin
  <2>2. k <= m => front[k] = IF k <= s THEN head[k] ELSE new[k - s]
    BY <1>1, <1>4 DEF IsJoin
  <2>3. k <= s => head[k] = t[k]
    BY <1>1, <1>2
  <2>4. ~(k <= m) => tail[k - m] = t[k - s - Len(new) + e]
    <3> SUFFICES ASSUME ~(k <= m) PROVE tail[k - m] = t[k - s - Len(new) + e]
      OBVIOUS
    <3>1. k - m \in 1..Len(t) - e /\ e + (k - m) = k - s - Len(new) + e
      BY <1>1, <2>1
    <3> QED BY <1>2, <3>1
  <2>5. k <= s => k <= m
    BY <1>1
  <2> QED BY <2>1, <2>2, <2>3, <2>4, <2>5
<1> QED BY <1>3, <1>6, <1>7 DEF IsSplice

\* Changing part of a stretch changes the whole by the changed stretch.
LEMMA SpliceInside ==
  ASSUME NEW S, NEW t \in Seq(S), NEW a \in Nat, NEW b \in Nat, NEW d \in Nat, NEW e \in Nat,
         a <= b, b <= d, d <= e, e <= Len(t), NEW new \in Seq(S)
  PROVE  Splice(t, b, d, new) = Splice(t, a, e, Splice(Slice(t, a, e), b - a, d - a, new))
<1> DEFINE m == Slice(t, a, e)
           y == Splice(m, b - a, d - a, new)
           x == Splice(t, b, d, new)
           z == Splice(t, a, e, y)
<1>0. Len(t) \in Nat /\ Len(new) \in Nat /\ a <= e /\ b <= Len(t) /\ a <= Len(t) /\ d <= Len(t)
  OBVIOUS
<1>1. IsSlice(S, m, t, a, e)
  BY <1>0, SliceElements
<1>2. IsSplice(S, y, m, b - a, d - a, new)
  <2>1. b - a \in Nat /\ d - a \in Nat /\ b - a <= d - a /\ d - a <= Len(m) /\ m \in Seq(S)
    BY <1>0, <1>1 DEF IsSlice
  <2> QED BY <2>1, SpliceElements
<1>3. IsSplice(S, x, t, b, d, new)
  BY <1>0, SpliceElements
<1>4. IsSplice(S, z, t, a, e, y)
  <2>1. y \in Seq(S)
    BY <1>2 DEF IsSplice
  <2> QED BY <1>0, <2>1, SpliceElements
<1> HIDE DEF m, y, x, z
<1>5. /\ Len(m) = e - a /\ Len(y) = e - a - (d - b) + Len(new)
      /\ x \in Seq(S) /\ z \in Seq(S) /\ Len(x) = Len(t) - (d - b) + Len(new) /\ Len(x) = Len(z)
  BY <1>0, <1>1, <1>2, <1>3, <1>4 DEF IsSlice, IsSplice
<1>6. \A k \in 1..Len(x) : x[k] = z[k]
  <2> SUFFICES ASSUME NEW k \in 1..Len(x) PROVE x[k] = z[k]
    OBVIOUS
  <2>1. x[k] = IF k <= b THEN t[k] ELSE IF k <= b + Len(new) THEN new[k - b]
               ELSE t[k - b - Len(new) + d]
    BY <1>3 DEF IsSplice
  <2>2. z[k] = IF k <= a THEN t[k] ELSE IF k <= a + Len(y) THEN y[k - a]
               ELSE t[k - a - Len(y) + e]
    BY <1>4, <1>5 DEF IsSplice
  <2>n. k \in Nat /\ Len(new) \in Nat /\ Len(y) = e - a - (d - b) + Len(new)
    BY <1>0, <1>5
  <2>3. CASE k <= a
    <3>1. k <= b
      BY <1>0, <2>n, <2>3
    <3> QED BY <2>1, <2>2, <2>3, <3>1
  <2>5. CASE a + Len(y) < k
    <3>1. ~(k <= b) /\ ~(k <= b + Len(new)) /\ ~(k <= a) /\ ~(k <= a + Len(y))
      BY <1>0, <2>n, <2>5
    <3>2. k - b - Len(new) + d = k - a - Len(y) + e
      BY <1>0, <2>n
    <3> QED BY <2>1, <2>2, <3>1, <3>2
  <2>4. CASE a < k /\ k <= a + Len(y)
    <3>1. k - a \in 1..Len(y)
      BY <1>0, <1>5, <2>4
    <3>2. y[k - a] = IF k - a <= b - a THEN m[k - a]
                     ELSE IF k - a <= b - a + Len(new) THEN new[k - a - (b - a)]
                     ELSE m[k - a - (b - a) - Len(new) + (d - a)]
      BY <1>2, <3>1 DEF IsSplice
    <3>3. k <= b => m[k - a] = t[k]
      <4> SUFFICES ASSUME k <= b PROVE m[k - a] = t[k]
        OBVIOUS
      <4>1. k - a \in 1..e - a /\ a + (k - a) = k
        BY <1>0, <3>1
      <4> QED BY <1>1, <4>1 DEF IsSlice
    <3>4. b + Len(new) < k => m[k - b - Len(new) + d - a] = t[k - b - Len(new) + d]
      <4> SUFFICES ASSUME b + Len(new) < k
                   PROVE  m[k - b - Len(new) + d - a] = t[k - b - Len(new) + d]
        OBVIOUS
      <4> DEFINE i == k - b - Len(new) + d - a
      <4>1. i \in 1..e - a /\ a + i = k - b - Len(new) + d
        BY <1>0, <1>5, <2>4
      <4> QED BY <1>1, <4>1 DEF IsSlice
    <3>5. /\ k - a <= b - a <=> k <= b
          /\ k - a <= b - a + Len(new) <=> k <= b + Len(new)
          /\ k - a - (b - a) = k - b
          /\ k - a - (b - a) - Len(new) + (d - a) = k - b - Len(new) + d - a
      BY <1>0
    <3>6. z[k] = y[k - a]
      BY <1>0, <2>2, <2>4
    <3>7. k <= b + Len(new) \/ b + Len(new) < k
      BY <1>0
    <3> QED BY <2>1, <3>2, <3>3, <3>4, <3>5, <3>6, <3>7
  <2> QED BY <1>0, <2>n, <2>3, <2>4, <2>5
<1> QED BY <1>5, <1>6, SeqEqual DEF x, z, y, m

\* Putting a stretch back where it is changes nothing.
LEMMA SpliceBack ==
  ASSUME NEW S, NEW t \in Seq(S), NEW a \in Nat, NEW e \in Nat, a <= e, e <= Len(t)
  PROVE  Splice(t, a, e, Slice(t, a, e)) = t
<1> DEFINE m == Slice(t, a, e)
           z == Splice(t, a, e, m)
<1>1. IsSlice(S, m, t, a, e)
  BY SliceElements
<1>2. IsSplice(S, z, t, a, e, m)
  <2>1. m \in Seq(S)
    BY <1>1 DEF IsSlice
  <2> QED BY <2>1, SpliceElements
<1> HIDE DEF m, z
<1>3. Len(t) \in Nat /\ Len(m) = e - a /\ Len(z) = Len(t) /\ z \in Seq(S)
  BY <1>1, <1>2 DEF IsSlice, IsSplice
<1>4. \A k \in 1..Len(z) : z[k] = t[k]
  <2> SUFFICES ASSUME NEW k \in 1..Len(z) PROVE z[k] = t[k]
    OBVIOUS
  <2>1. z[k] = IF k <= a THEN t[k] ELSE IF k <= a + Len(m) THEN m[k - a]
               ELSE t[k - a - Len(m) + e]
    BY <1>2 DEF IsSplice
  <2>2. a < k /\ k <= e => m[k - a] = t[k]
    <3> SUFFICES ASSUME a < k, k <= e PROVE m[k - a] = t[k]
      OBVIOUS
    <3>1. k - a \in 1..e - a /\ a + (k - a) = k
      BY <1>3
    <3> QED BY <1>1, <3>1 DEF IsSlice
  <2> QED BY <1>3, <2>1, <2>2
<1> QED BY <1>3, <1>4, SeqEqual DEF z, m

-----------------------------------------------------------------------------
(* Rows. *)

\* The line breaks before an offset.
BreaksUpTo(t, c) == {i \in 1..c : t[i] = Newline}

\* A row is a number from 1 on.
LEMMA RowType ==
  ASSUME NEW t, NEW c \in Nat
  PROVE  /\ Row(t, c) \in Nat /\ 1 <= Row(t, c) /\ IsFiniteSet(BreaksUpTo(t, c))
         /\ Row(t, c) = 1 + Cardinality(BreaksUpTo(t, c))
<1>1. IsFiniteSet(1..c)
  BY FS_Interval
<1>2. IsFiniteSet(BreaksUpTo(t, c))
  BY <1>1, FS_Subset DEF BreaksUpTo
<1>3. Cardinality(BreaksUpTo(t, c)) \in Nat
  BY <1>2, FS_CardinalityType
<1>4. Row(t, c) = 1 + Cardinality(BreaksUpTo(t, c))
  BY DEF Row, BreaksUpTo
<1> QED BY <1>2, <1>3, <1>4

\* A text begins in its first row.
LEMMA RowZero == ASSUME NEW t PROVE Row(t, 0) = 1
<1>1. BreaksUpTo(t, 0) = {}
  BY DEF BreaksUpTo
<1>2. Cardinality({}) = 0
  BY FS_EmptySet
<1> QED BY <1>1, <1>2, RowType

\* A row ends at each line break.
LEMMA RowStep ==
  ASSUME NEW t, NEW c \in Nat
  PROVE  Row(t, c + 1) = IF t[c + 1] = Newline THEN Row(t, c) + 1 ELSE Row(t, c)
<1>1. /\ Row(t, c) = 1 + Cardinality(BreaksUpTo(t, c)) /\ IsFiniteSet(BreaksUpTo(t, c))
      /\ Row(t, c) \in Nat
  BY RowType
<1>2. Row(t, c + 1) = 1 + Cardinality(BreaksUpTo(t, c + 1))
  BY RowType
<1>3. CASE t[c + 1] = Newline
  <2>1. BreaksUpTo(t, c + 1) = BreaksUpTo(t, c) \cup {c + 1} /\ c + 1 \notin BreaksUpTo(t, c)
    BY <1>3 DEF BreaksUpTo
  <2>2. Cardinality(BreaksUpTo(t, c) \cup {c + 1}) = Cardinality(BreaksUpTo(t, c)) + 1
    BY <1>1, <2>1, FS_AddElement
  <2>3. Cardinality(BreaksUpTo(t, c)) \in Nat
    BY <1>1, FS_CardinalityType
  <2> QED BY <1>1, <1>2, <1>3, <2>1, <2>2, <2>3
<1>4. CASE t[c + 1] # Newline
  <2>1. BreaksUpTo(t, c + 1) = BreaksUpTo(t, c)
    BY <1>4 DEF BreaksUpTo
  <2> QED BY <1>1, <1>2, <1>4, <2>1
<1> QED BY <1>3, <1>4

\* Rows grow with the offset, and only line breaks make them.
LEMMA RowOrder ==
  ASSUME NEW t, NEW a \in Nat, NEW b \in Nat, a <= b
  PROVE  /\ Row(t, a) <= Row(t, b)
         /\ (\A i \in a + 1..b : t[i] # Newline) => Row(t, a) = Row(t, b)
<1>1. IsFiniteSet(BreaksUpTo(t, b)) /\ IsFiniteSet(BreaksUpTo(t, a))
  BY RowType
<1>2. BreaksUpTo(t, a) \in SUBSET BreaksUpTo(t, b)
  BY DEF BreaksUpTo
<1>3. Cardinality(BreaksUpTo(t, a)) <= Cardinality(BreaksUpTo(t, b))
  BY <1>1, <1>2, FS_Subset
<1>4. Cardinality(BreaksUpTo(t, a)) \in Nat /\ Cardinality(BreaksUpTo(t, b)) \in Nat
  BY <1>1, FS_CardinalityType
<1>5. /\ Row(t, a) = 1 + Cardinality(BreaksUpTo(t, a))
      /\ Row(t, b) = 1 + Cardinality(BreaksUpTo(t, b))
  BY RowType
<1>6. (\A i \in a + 1..b : t[i] # Newline) => BreaksUpTo(t, a) = BreaksUpTo(t, b)
  BY DEF BreaksUpTo
<1> QED BY <1>3, <1>4, <1>5, <1>6

\* A line break lies between two rows.
LEMMA RowCrossed ==
  ASSUME NEW t, NEW a \in Nat, NEW b \in Nat, NEW i \in a + 1..b, t[i] = Newline
  PROVE  Row(t, a) < Row(t, b)
<1>1. i - 1 \in Nat /\ a <= i - 1 /\ i \in Nat /\ i <= b /\ i - 1 + 1 = i
  OBVIOUS
<1>2. Row(t, i) = Row(t, i - 1) + 1
  BY <1>1, RowStep
<1>3. Row(t, a) <= Row(t, i - 1) /\ Row(t, i) <= Row(t, b)
  BY <1>1, RowOrder
<1>4. Row(t, a) \in Nat /\ Row(t, i - 1) \in Nat /\ Row(t, i) \in Nat /\ Row(t, b) \in Nat
  BY <1>1, RowType
<1> QED BY <1>2, <1>3, <1>4

\* Texts that begin alike have the same rows there.
LEMMA RowSame ==
  ASSUME NEW t, NEW u, NEW c \in Nat, \A i \in 1..c : t[i] = u[i]
  PROVE  Row(t, c) = Row(u, c)
<1>1. {i \in 1..c : t[i] = Newline} = {i \in 1..c : u[i] = Newline}
  OBVIOUS
<1> QED BY <1>1 DEF Row

\* The smallest and the largest of a stretch of offsets.
LEMMA EndsOfRange ==
  ASSUME NEW i \in Nat, NEW j \in Nat, i <= j
  PROVE  Smallest(i..j) = i /\ Largest(i..j) = j
<1>1. Smallest(i..j) \in i..j /\ \A y \in i..j : Smallest(i..j) <= y
  <2>1. i..j \in SUBSET Nat /\ i..j # {}
    OBVIOUS
  <2> QED BY <2>1, SmallestIsOne
<1>2. Largest(i..j) \in i..j /\ \A y \in i..j : y <= Largest(i..j)
  <2>1. i..j \in SUBSET (0..j) /\ i..j # {}
    OBVIOUS
  <2> QED BY <2>1, LargestIsOne
<1>3. Smallest(i..j) <= i /\ j <= Largest(i..j)
  BY <1>1, <1>2
<1> QED BY <1>1, <1>2, <1>3

\* <<i, j>> is a line of t.
IsLine(t, i, j) ==
  /\ i \in 0..Len(t) /\ j \in i..Len(t)
  /\ i = 0 \/ t[i] = Newline
  /\ j = Len(t) \/ t[j + 1] = Newline
  /\ \A k \in i + 1..j : t[k] # Newline

\* A row is a line.
LEMMA RowIsLine ==
  ASSUME NEW t \in Seq(Char), NEW i, NEW j, IsLine(t, i, j), NEW c \in i..j
  PROVE  /\ Offsets(t, Row(t, c)) = i..j
         /\ Smallest(Offsets(t, Row(t, c))) = i /\ Largest(Offsets(t, Row(t, c))) = j
         /\ LineIn(t, Row(t, c)) = Slice(t, i, j) /\ Column(t, c) = c - i
<1>1. /\ i \in Nat /\ j \in Nat /\ c \in Nat /\ i <= j /\ j <= Len(t) /\ Len(t) \in Nat
      /\ i <= c /\ c <= j
  BY DEF IsLine
<1>2. ASSUME NEW d \in 0..Len(t)
      PROVE  Row(t, d) = Row(t, c) <=> d \in i..j
  <2>1. Row(t, d) \in Nat /\ Row(t, c) \in Nat
    BY <1>1, RowType
  <2>2. CASE d < i
    <3>1. t[i] = Newline /\ i \in d + 1..c
      BY <1>1, <2>2 DEF IsLine
    <3>2. Row(t, d) < Row(t, c)
      BY <1>1, <3>1, RowCrossed
    <3> QED BY <1>1, <2>1, <2>2, <3>2
  <2>3. CASE j < d
    <3>1. t[j + 1] = Newline /\ j + 1 \in c + 1..d
      BY <1>1, <2>3 DEF IsLine
    <3>2. Row(t, c) < Row(t, d)
      BY <1>1, <3>1, RowCrossed
    <3> QED BY <1>1, <2>1, <2>3, <3>2
  <2>4. CASE i <= d /\ d <= j
    <3>1. \A k \in i + 1..d : t[k] # Newline
      BY <1>1, <2>4 DEF IsLine
    <3>2. \A k \in i + 1..c : t[k] # Newline
      BY <1>1 DEF IsLine
    <3>3. Row(t, i) = Row(t, d)
      BY <1>1, <2>4, <3>1, RowOrder
    <3>4. Row(t, i) = Row(t, c)
      BY <1>1, <3>2, RowOrder
    <3> QED BY <1>1, <2>4, <3>3, <3>4
  <2> QED BY <1>1, <2>2, <2>3, <2>4
<1>3. Offsets(t, Row(t, c)) = i..j
  BY <1>1, <1>2 DEF Offsets
<1>4. Smallest(i..j) = i /\ Largest(i..j) = j
  BY <1>1, EndsOfRange
<1> QED BY <1>3, <1>4 DEF LineIn, Column

\* The scan for the line at the caret finds the caret's row.
LEMMA LineAroundIsLine ==
  ASSUME NEW t \in Seq(Char), NEW c \in 0..Len(t)
  PROVE  \E i, j \in Nat : /\ LineAround(t, c, Len(t)) = <<i, j>> /\ IsLine(t, i, j)
                           /\ i <= c /\ c <= j
<1> DEFINE n == Len(t)
           ends == {i \in c..n : i = n \/ (i < n /\ t[i + 1] = Newline)}
           starts == {i \in 0..c : i = 0 \/ t[i] = Newline}
           i == Largest(starts)
           j == Smallest(ends)
<1>1. n \in Nat /\ AtMost(n, Len(t)) = n /\ c \in Nat /\ c <= n
  BY DEF AtMost
<1>2. j \in ends /\ \A k \in ends : j <= k
  <2>1. ends \in SUBSET Nat /\ n \in ends
    BY <1>1
  <2> QED BY <2>1, SmallestIsOne
<1>3. i \in starts /\ \A k \in starts : k <= i
  <2>1. starts \in SUBSET (0..c) /\ 0 \in starts
    BY <1>1
  <2> QED BY <1>1, <2>1, LargestIsOne
<1>4. LineAround(t, c, n) = <<i, j>>
  BY <1>1, <1>2 DEF LineAround
<1> HIDE DEF i, j
<1>5. \A k \in i + 1..j : t[k] # Newline
  <2> SUFFICES ASSUME NEW k \in i + 1..j, t[k] = Newline PROVE FALSE
    OBVIOUS
  <2>1. k \in Nat /\ i < k /\ k <= j
    BY <1>1, <1>2, <1>3
  <2>2. CASE k <= c
    <3>1. k \in starts
      BY <1>1, <2>1, <2>2
    <3> QED BY <1>1, <1>3, <2>1, <3>1
  <2>3. CASE c < k
    <3>1. k - 1 \in ends
      BY <1>1, <1>2, <2>1, <2>3
    <3> QED BY <1>1, <1>2, <2>1, <3>1
  <2> QED BY <1>1, <2>1, <2>2, <2>3
<1>6. i \in 0..c /\ j \in c..n /\ (i = 0 \/ t[i] = Newline) /\ (j = n \/ t[j + 1] = Newline)
  BY <1>2, <1>3
<1>7. IsLine(t, i, j) /\ i \in Nat /\ j \in Nat /\ i <= c /\ c <= j
  BY <1>1, <1>5, <1>6 DEF IsLine
<1> QED BY <1>4, <1>7

\* Every row up to the last one has an offset.
LEMMA RowHit ==
  ASSUME NEW t \in Seq(Char), NEW r \in 1..Row(t, Len(t))
  PROVE  Offsets(t, r) # {}
<1> DEFINE above == {c \in 0..Len(t) : r <= Row(t, c)}
           c == Smallest(above)
<1>1. Len(t) \in Nat /\ Row(t, Len(t)) \in Nat /\ r \in Nat /\ 1 <= r
  <2>1. Len(t) \in Nat
    OBVIOUS
  <2> QED BY <2>1, RowType
<1>2. c \in above /\ \A d \in above : c <= d
  <2>1. above \in SUBSET Nat /\ Len(t) \in above
    BY <1>1
  <2> QED BY <2>1, SmallestIsOne
<1> HIDE DEF c
<1>3. c \in Nat /\ c <= Len(t) /\ r <= Row(t, c) /\ Row(t, c) \in Nat
  BY <1>1, <1>2, RowType
<1>4. Row(t, c) <= r
  <2>1. CASE c = 0
    BY <1>1, <2>1, RowZero
  <2>2. CASE c > 0
    <3>1. c - 1 \in Nat /\ c - 1 + 1 = c
      BY <1>3, <2>2
    <3>2. c - 1 \notin above
      BY <1>2, <1>3, <2>2
    <3>3. Row(t, c - 1) < r
      <4>1. ~(r <= Row(t, c - 1)) /\ Row(t, c - 1) \in Nat
        BY <1>3, <3>1, <3>2, RowType
      <4> QED BY <1>1, <4>1
    <3>4. Row(t, c) <= Row(t, c - 1) + 1
      <4>1. Row(t, c - 1) \in Nat
        BY <3>1, RowType
      <4>2. Row(t, c - 1 + 1) \in {Row(t, c - 1), Row(t, c - 1) + 1}
        BY <3>1, RowStep
      <4> QED BY <3>1, <4>1, <4>2
    <3>5. Row(t, c - 1) \in Nat
      BY <3>1, RowType
    <3> QED BY <1>1, <1>3, <3>3, <3>4, <3>5
  <2> QED BY <1>3, <2>1, <2>2
<1>5. c \in Offsets(t, r)
  BY <1>1, <1>3, <1>4 DEF Offsets
<1> QED BY <1>5

-----------------------------------------------------------------------------
(* The lines of a text are those before a line break and those after it. *)

\* x is a, a line break, and b.
IsGlued(x, a, b) ==
  /\ x \in Seq(Char) /\ Len(x) = Len(a) + 1 + Len(b)
  /\ \A k \in 1..Len(x) : x[k] = IF k <= Len(a) THEN a[k]
                                 ELSE IF k = Len(a) + 1 THEN Newline ELSE b[k - Len(a) - 1]

Glue(a, b) == a \o <<Newline>> \o b

\* The characters of two texts with a line break between them.
LEMMA GlueElements ==
  ASSUME NEW a \in Seq(Char), NEW b \in Seq(Char)
  PROVE  IsGlued(Glue(a, b), a, b)
<1> DEFINE f == a \o <<Newline>>
           m == Len(a) + 1
           n == m + Len(b)
<1>1. Len(a) \in Nat /\ Len(b) \in Nat /\ <<Newline>> \in Seq(Char) /\ Len(<<Newline>>) = 1
      /\ <<Newline>>[1] = Newline
  BY DEF Char
<1>2. IsJoin(Char, f, Len(a), m, a, <<Newline>>)
  BY <1>1, JoinElements
<1>3. f \in Seq(Char) /\ Len(f) = m
  BY <1>2 DEF IsJoin
<1>4. Glue(a, b) = f \o b
  BY DEF Glue
<1> HIDE DEF f
<1>5. IsJoin(Char, f \o b, m, n, f, b)
  <2> HIDE DEF m, n
  <2>1. n = m + Len(b)
    BY DEF n
  <2> QED BY <1>3, <2>1, JoinElements
<1>6. ASSUME NEW k \in 1..n
      PROVE  (f \o b)[k] = IF k <= Len(a) THEN a[k]
                           ELSE IF k = Len(a) + 1 THEN Newline ELSE b[k - Len(a) - 1]
  <2>1. (f \o b)[k] = IF k <= m THEN f[k] ELSE b[k - m]
    BY <1>5 DEF IsJoin
  <2>2. k <= m => f[k] = IF k <= Len(a) THEN a[k] ELSE <<Newline>>[k - Len(a)]
    BY <1>1, <1>2 DEF IsJoin
  <2>3. k <= m /\ ~(k <= Len(a)) => k = Len(a) + 1 /\ k - Len(a) = 1
    BY <1>1
  <2>4. ~(k <= m) => ~(k <= Len(a)) /\ k # Len(a) + 1 /\ k - m = k - Len(a) - 1
    BY <1>1
  <2>5. k = Len(a) + 1 => k <= m
    BY <1>1
  <2> QED BY <1>1, <2>1, <2>2, <2>3, <2>4, <2>5
<1>7. f \o b \in Seq(Char) /\ Len(f \o b) = n
  BY <1>5 DEF IsJoin
<1> QED BY <1>4, <1>6, <1>7 DEF IsGlued

\* A row in the second part comes after all of the first part.
LEMMA GlueRows ==
  ASSUME NEW x, NEW a \in Seq(Char), NEW b \in Seq(Char), IsGlued(x, a, b)
  PROVE  /\ \A c \in 0..Len(a) : Row(x, c) = Row(a, c)
         /\ \A c \in 0..Len(b) : Row(x, Len(a) + 1 + c) = Row(a, Len(a)) + Row(b, c)
<1> DEFINE n == Len(a)
           bad == {c \in 0..Len(b) : Row(x, n + 1 + c) # Row(a, n) + Row(b, c)}
           c0 == Smallest(bad)
<1>1. n \in Nat /\ Len(b) \in Nat /\ Len(x) = n + 1 + Len(b)
  BY DEF IsGlued
<1>2. \A c \in 0..n : Row(x, c) = Row(a, c)
  <2> SUFFICES ASSUME NEW c \in 0..n PROVE Row(x, c) = Row(a, c)
    OBVIOUS
  <2>1. \A i \in 1..c : x[i] = a[i]
    BY <1>1 DEF IsGlued
  <2> QED BY <2>1, RowSame
<1>3. Row(x, n + 1) = Row(a, n) + 1
  <2>1. x[n + 1] = Newline
    BY <1>1 DEF IsGlued
  <2>2. Row(x, n) = Row(a, n)
    BY <1>1, <1>2
  <2> QED BY <1>1, <2>1, <2>2, RowStep
<1>4. bad = {}
  <2> SUFFICES ASSUME bad # {} PROVE FALSE
    OBVIOUS
  <2>1. c0 \in bad /\ \A d \in bad : c0 <= d
    <3>1. bad \in SUBSET Nat
      BY <1>1
    <3> QED BY <3>1, SmallestIsOne
  <2> HIDE DEF c0
  <2>2. c0 \in 0..Len(b) /\ Row(x, n + 1 + c0) # Row(a, n) + Row(b, c0)
    BY <2>1
  <2>3. CASE c0 = 0
    <3>1. n + 1 + 0 = n + 1
      BY <1>1
    <3> QED BY <1>3, <2>2, <2>3, <3>1, RowZero
  <2>4. CASE c0 # 0
    <3> DEFINE d == c0 - 1
    <3>1. d \in Nat /\ d \in 0..Len(b) /\ d + 1 = c0 /\ d < c0 /\ d + 1 \in 1..Len(b)
          /\ n + 1 + d \in Nat /\ (n + 1 + d) + 1 = n + 1 + c0
      BY <1>1, <2>2, <2>4
    <3>2. d \notin bad
      BY <1>1, <2>1, <2>2, <3>1
    <3> HIDE DEF d
    <3>3. Row(x, n + 1 + d) = Row(a, n) + Row(b, d)
      BY <3>1, <3>2
    <3>4. x[n + 1 + c0] = b[d + 1]
      <4>1. n + 1 + c0 \in 1..Len(x) /\ ~(n + 1 + c0 <= n) /\ n + 1 + c0 # n + 1
            /\ (n + 1 + c0) - n - 1 = d + 1
        BY <1>1, <2>2, <3>1, <2>4
      <4> QED BY <1>1, <4>1 DEF IsGlued
    <3>5. Row(x, n + 1 + c0) = IF b[d + 1] = Newline THEN Row(x, n + 1 + d) + 1 ELSE Row(x, n + 1 + d)
      <4>1. Row(x, (n + 1 + d) + 1) =
              IF x[(n + 1 + d) + 1] = Newline THEN Row(x, n + 1 + d) + 1 ELSE Row(x, n + 1 + d)
        BY <3>1, RowStep
      <4> QED BY <3>1, <3>4, <4>1
    <3>6. Row(b, c0) = IF b[d + 1] = Newline THEN Row(b, d) + 1 ELSE Row(b, d)
      <4>1. Row(b, d + 1) = IF b[d + 1] = Newline THEN Row(b, d) + 1 ELSE Row(b, d)
        BY <3>1, RowStep
      <4> QED BY <3>1, <4>1
    <3>7. Row(a, n) \in Nat /\ Row(b, d) \in Nat
      BY <1>1, <3>1, RowType
    <3> QED BY <2>2, <3>3, <3>5, <3>6, <3>7
  <2> QED BY <2>3, <2>4
<1> QED BY <1>2, <1>4

\* The ends of a set of offsets that is moved.
LEMMA MovedEnds ==
  ASSUME NEW n \in Nat, NEW S \in SUBSET (0..n), S # {}, NEW k \in Nat
  PROVE  /\ Smallest({k + c : c \in S}) = k + Smallest(S)
         /\ Largest({k + c : c \in S}) = k + Largest(S)
         /\ Smallest(S) \in S /\ Largest(S) \in S /\ Smallest(S) <= Largest(S)
<1> DEFINE T == {k + c : c \in S}
<1>1. Smallest(S) \in S /\ \A y \in S : Smallest(S) <= y
  <2>1. S \in SUBSET Nat
    OBVIOUS
  <2> QED BY <2>1, SmallestIsOne
<1>2. Largest(S) \in S /\ \A y \in S : y <= Largest(S)
  BY LargestIsOne
<1>3. T \in SUBSET (0..k + n) /\ T # {} /\ T \in SUBSET Nat
  <2>1. \A c \in S : k + c \in 0..k + n /\ k + c \in Nat
    OBVIOUS
  <2>2. \A y \in T : \E c \in S : y = k + c
    OBVIOUS
  <2>3. PICK c \in S : TRUE
    OBVIOUS
  <2>4. k + c \in T
    BY <2>3
  <2> HIDE DEF T
  <2> QED BY <2>1, <2>2, <2>4
<1>4. Smallest(T) \in T /\ \A y \in T : Smallest(T) <= y
  BY <1>3, SmallestIsOne
<1>5. Largest(T) \in T /\ \A y \in T : y <= Largest(T)
  <2>1. k + n \in Nat
    OBVIOUS
  <2> QED BY <1>3, <2>1, LargestIsOne
<1>6. k + Smallest(S) \in T /\ k + Largest(S) \in T
  <2>1. \A c \in S : k + c \in T
    OBVIOUS
  <2> QED BY <1>1, <1>2, <2>1
<1>7. PICK p \in S, q \in S : Smallest(T) = k + p /\ Largest(T) = k + q
  BY <1>4, <1>5
<1>8. /\ Smallest(T) <= k + Smallest(S) /\ k + Largest(S) <= Largest(T)
      /\ Smallest(S) <= p /\ q <= Largest(S)
  BY <1>1, <1>2, <1>4, <1>5, <1>6, <1>7
<1>9. Smallest(S) \in Nat /\ Largest(S) \in Nat /\ p \in Nat /\ q \in Nat /\ Smallest(S) <= Largest(S)
  <2>1. \A y \in S : y \in Nat
    OBVIOUS
  <2> QED BY <1>1, <1>2, <2>1
<1> HIDE DEF T
<1>10. Smallest(T) = k + Smallest(S) /\ Largest(T) = k + Largest(S)
  BY <1>7, <1>8, <1>9
<1> QED BY <1>1, <1>2, <1>9, <1>10 DEF T

\* The offsets of a row of either part.
LEMMA GlueOffsets ==
  ASSUME NEW x, NEW a \in Seq(Char), NEW b \in Seq(Char), IsGlued(x, a, b)
  PROVE  /\ \A r \in 1..Row(a, Len(a)) : Offsets(x, r) = Offsets(a, r)
         /\ \A r \in Nat : 1 <= r =>
              Offsets(x, Row(a, Len(a)) + r) = {Len(a) + 1 + c : c \in Offsets(b, r)}
<1> DEFINE n == Len(a)
           R == Row(a, n)
<1>1. /\ n \in Nat /\ Len(b) \in Nat /\ Len(x) = n + 1 + Len(b) /\ R \in Nat /\ 1 <= R
  <2>1. n \in Nat /\ Len(b) \in Nat /\ Len(x) = n + 1 + Len(b)
    BY DEF IsGlued
  <2> QED BY <2>1, RowType
<1>2. \A c \in 0..n : Row(x, c) = Row(a, c) /\ Row(a, c) <= R /\ Row(a, c) \in Nat
  <2> SUFFICES ASSUME NEW c \in 0..n
               PROVE  Row(x, c) = Row(a, c) /\ Row(a, c) <= R /\ Row(a, c) \in Nat
    OBVIOUS
  <2>1. c \in Nat /\ c <= n
    BY <1>1
  <2> QED BY <1>1, <2>1, GlueRows, RowOrder, RowType
<1>3. \A c \in 0..Len(b) : /\ Row(x, n + 1 + c) = R + Row(b, c)
                           /\ Row(b, c) \in Nat /\ 1 <= Row(b, c)
  <2> SUFFICES ASSUME NEW c \in 0..Len(b)
               PROVE  Row(x, n + 1 + c) = R + Row(b, c) /\ Row(b, c) \in Nat /\ 1 <= Row(b, c)
    OBVIOUS
  <2>1. c \in Nat
    BY <1>1
  <2>2. Row(x, n + 1 + c) = R + Row(b, c)
    BY GlueRows
  <2> QED BY <2>1, <2>2, RowType
<1> HIDE DEF R
<1>4. ASSUME NEW c \in 0..Len(x)
      PROVE  c \in 0..n \/ (c - n - 1 \in 0..Len(b) /\ n + 1 + (c - n - 1) = c)
  BY <1>1
<1>5. ASSUME NEW r \in 1..R
      PROVE  Offsets(x, r) = Offsets(a, r)
  <2>1. ASSUME NEW c \in 0..Len(x), Row(x, c) = r PROVE c \in 0..n /\ Row(a, c) = r
    <3>1. CASE c \in 0..n
      BY <1>2, <2>1, <3>1
    <3>2. CASE c - n - 1 \in 0..Len(b) /\ n + 1 + (c - n - 1) = c
      <4>1. Row(x, c) = R + Row(b, c - n - 1) /\ 1 <= Row(b, c - n - 1) /\ Row(b, c - n - 1) \in Nat
        BY <1>3, <3>2
      <4> QED BY <1>1, <2>1, <4>1
    <3> QED BY <1>4, <3>1, <3>2
  <2>2. ASSUME NEW c \in 0..n, Row(a, c) = r PROVE c \in 0..Len(x) /\ Row(x, c) = r
    BY <1>1, <1>2, <2>2
  <2> QED BY <2>1, <2>2 DEF Offsets
<1>6. ASSUME NEW r \in Nat, 1 <= r
      PROVE  Offsets(x, R + r) = {n + 1 + c : c \in Offsets(b, r)}
  <2>1. ASSUME NEW c \in 0..Len(x), Row(x, c) = R + r
        PROVE  c - n - 1 \in 0..Len(b) /\ n + 1 + (c - n - 1) = c /\ Row(b, c - n - 1) = r
    <3>1. CASE c \in 0..n
      BY <1>1, <1>2, <1>6, <2>1, <3>1
    <3>2. CASE c - n - 1 \in 0..Len(b) /\ n + 1 + (c - n - 1) = c
      <4>1. Row(x, c) = R + Row(b, c - n - 1) /\ Row(b, c - n - 1) \in Nat
        BY <1>3, <3>2
      <4> QED BY <1>1, <2>1, <3>2, <4>1
    <3> QED BY <1>4, <3>1, <3>2
  <2>2. ASSUME NEW c \in 0..Len(b), Row(b, c) = r
        PROVE  n + 1 + c \in 0..Len(x) /\ Row(x, n + 1 + c) = R + r
    BY <1>1, <1>3, <2>2
  <2>3. Offsets(x, R + r) \subseteq {n + 1 + c : c \in Offsets(b, r)}
    <3> SUFFICES ASSUME NEW c \in 0..Len(x), Row(x, c) = R + r
                 PROVE  c \in {n + 1 + d : d \in Offsets(b, r)}
      BY DEF Offsets
    <3> DEFINE d == c - n - 1
    <3>1. d \in 0..Len(b) /\ n + 1 + d = c /\ Row(b, d) = r
      BY <2>1
    <3> HIDE DEF d
    <3>2. d \in Offsets(b, r)
      BY <3>1 DEF Offsets
    <3> QED BY <3>1, <3>2
  <2>4. {n + 1 + c : c \in Offsets(b, r)} \subseteq Offsets(x, R + r)
    <3> SUFFICES ASSUME NEW c \in Offsets(b, r) PROVE n + 1 + c \in Offsets(x, R + r)
      OBVIOUS
    <3>1. c \in 0..Len(b) /\ Row(b, c) = r
      BY DEF Offsets
    <3>2. n + 1 + c \in 0..Len(x) /\ Row(x, n + 1 + c) = R + r
      BY <2>2, <3>1
    <3> QED BY <3>2 DEF Offsets
  <2> QED BY <2>3, <2>4
<1> QED BY <1>5, <1>6 DEF R

-----------------------------------------------------------------------------
\* The same characters lie in t between s and e and in u between b and d.
Alike(t, s, e, u, b, d) ==
  /\ s \in Nat /\ e \in Nat /\ s <= e /\ e <= Len(t)
  /\ b \in Nat /\ d \in Nat /\ b <= d /\ d <= Len(u)
  /\ e - s = d - b /\ \A k \in 1..e - s : t[s + k] = u[b + k]

\* The same characters make the same stretch.
LEMMA SliceSame ==
  ASSUME NEW t \in Seq(Char), NEW u \in Seq(Char),
         NEW s, NEW e, NEW b, NEW d, Alike(t, s, e, u, b, d)
  PROVE  Slice(t, s, e) = Slice(u, b, d)
<1>1. IsSlice(Char, Slice(t, s, e), t, s, e) /\ IsSlice(Char, Slice(u, b, d), u, b, d)
  BY SliceElements DEF Alike
<1>2. /\ Slice(t, s, e) \in Seq(Char) /\ Slice(u, b, d) \in Seq(Char)
      /\ Len(Slice(t, s, e)) = e - s /\ Len(Slice(u, b, d)) = e - s
      /\ \A k \in 1..e - s : Slice(t, s, e)[k] = t[s + k] /\ Slice(u, b, d)[k] = u[b + k]
  BY <1>1 DEF IsSlice, Alike
<1> DEFINE p == Slice(t, s, e)
           q == Slice(u, b, d)
           n == e - s
<1>3. p \in Seq(Char) /\ q \in Seq(Char) /\ Len(p) = n /\ Len(q) = n /\ \A k \in 1..n : p[k] = q[k]
  <2>1. \A k \in 1..n : p[k] = t[s + k] /\ q[k] = u[b + k] /\ t[s + k] = u[b + k]
    BY <1>2 DEF Alike
  <2> QED BY <1>2, <2>1
<1> HIDE DEF p, q, n
<1>4. p = q
  BY <1>3, SeqEqual
<1> QED BY <1>4 DEF p, q

\* The first and the last offset in a row.
LEMMA RowEnds ==
  ASSUME NEW t \in Seq(Char), NEW r \in 1..Row(t, Len(t))
  PROVE  /\ Smallest(Offsets(t, r)) \in Nat /\ Largest(Offsets(t, r)) \in Nat
         /\ Smallest(Offsets(t, r)) <= Largest(Offsets(t, r)) /\ Largest(Offsets(t, r)) <= Len(t)
         /\ Offsets(t, r) \in SUBSET (0..Len(t)) /\ Offsets(t, r) # {}
<1> DEFINE S == Offsets(t, r)
<1>1. Len(t) \in Nat /\ S \in SUBSET (0..Len(t)) /\ S # {}
  BY RowHit DEF Offsets
<1> HIDE DEF S
<1>2. Smallest(S) \in S /\ \A y \in S : Smallest(S) <= y
  <2>1. S \in SUBSET Nat
    BY <1>1
  <2> QED BY <1>1, <2>1, SmallestIsOne
<1>3. Largest(S) \in S
  BY <1>1, LargestIsOne
<1>4. \A y \in S : y \in Nat /\ y <= Len(t)
  BY <1>1
<1> QED BY <1>1, <1>2, <1>3, <1>4 DEF S

\* The lines of a text.
LEMMA LinesType ==
  ASSUME NEW t \in Seq(Char)
  PROVE  /\ Lines(t) \in Seq(Seq(Char)) /\ Len(Lines(t)) = Row(t, Len(t))
         /\ Row(t, Len(t)) \in Nat \ {0}
         /\ \A r \in 1..Row(t, Len(t)) : Lines(t)[r] = LineIn(t, r)
<1>1. Row(t, Len(t)) \in Nat /\ 1 <= Row(t, Len(t))
  <2>1. Len(t) \in Nat
    OBVIOUS
  <2> QED BY <2>1, RowType
<1>2. \A r \in 1..Row(t, Len(t)) : LineIn(t, r) \in Seq(Char)
  <2> SUFFICES ASSUME NEW r \in 1..Row(t, Len(t)) PROVE LineIn(t, r) \in Seq(Char)
    OBVIOUS
  <2>1. Smallest(Offsets(t, r)) \in Nat /\ Largest(Offsets(t, r)) \in Nat
    BY RowEnds
  <2> QED BY <2>1, SliceTypes DEF LineIn
<1> DEFINE R == Row(t, Len(t))
           f == [r \in 1..R |-> LineIn(t, r)]
<1>3. Lines(t) = f
  BY DEF Lines
<1> HIDE DEF R
<1>4. f \in Seq(Seq(Char)) /\ Len(f) = R /\ \A r \in 1..R : f[r] = LineIn(t, r)
  <2>1. R \in Nat
    BY <1>1 DEF R
  <2>2. \A r \in 1..R : LineIn(t, r) \in Seq(Char)
    BY <1>2 DEF R
  <2>3. f \in [1..R -> Seq(Char)]
    BY <2>2
  <2> HIDE DEF f
  <2>4. f \in Seq(Seq(Char)) /\ Len(f) = R
    BY <2>1, <2>3, SeqDef, LenProperties
  <2> QED BY <2>4 DEF f
<1> QED BY <1>1, <1>3, <1>4 DEF R

\* Cutting a text at a line break cuts its list of lines.
LEMMA GlueLines ==
  ASSUME NEW x, NEW a \in Seq(Char), NEW b \in Seq(Char), IsGlued(x, a, b)
  PROVE  Lines(x) = Lines(a) \o Lines(b)
<1> DEFINE n == Len(a)
           A == Row(a, n)
           B == Row(b, Len(b))
           X == Row(x, Len(x))
<1>1. x \in Seq(Char) /\ n \in Nat /\ Len(b) \in Nat /\ Len(x) = n + 1 + Len(b)
  BY DEF IsGlued
<1>2. X = A + B
  <2>1. Row(x, n + 1 + Len(b)) = A + B
    <3>1. \A c \in 0..Len(b) : Row(x, n + 1 + c) = A + Row(b, c)
      BY GlueRows
    <3>2. Len(b) \in 0..Len(b)
      BY <1>1
    <3> QED BY <3>1, <3>2
  <2> QED BY <1>1, <2>1
<1>3. /\ Lines(a) \in Seq(Seq(Char)) /\ Len(Lines(a)) = A /\ A \in Nat
      /\ \A r \in 1..A : Lines(a)[r] = LineIn(a, r)
  BY LinesType
<1>4. /\ Lines(b) \in Seq(Seq(Char)) /\ Len(Lines(b)) = B /\ B \in Nat
      /\ \A r \in 1..B : Lines(b)[r] = LineIn(b, r)
  BY LinesType
<1>5. /\ Lines(x) \in Seq(Seq(Char)) /\ Len(Lines(x)) = X
      /\ \A r \in 1..X : Lines(x)[r] = LineIn(x, r)
  BY <1>1, LinesType
<1>6. \A r \in 1..A : LineIn(x, r) = LineIn(a, r)
  <2> SUFFICES ASSUME NEW r \in 1..A PROVE LineIn(x, r) = LineIn(a, r)
    OBVIOUS
  <2> DEFINE s == Smallest(Offsets(a, r))
             e == Largest(Offsets(a, r))
  <2>1. Offsets(x, r) = Offsets(a, r)
    BY GlueOffsets
  <2>2. s \in Nat /\ e \in Nat /\ s <= e /\ e <= n
    BY RowEnds
  <2>3. LineIn(x, r) = Slice(x, s, e) /\ LineIn(a, r) = Slice(a, s, e)
    BY <2>1 DEF LineIn
  <2> HIDE DEF s, e
  <2>4. \A k \in 1..e - s : x[s + k] = a[s + k]
    <3> SUFFICES ASSUME NEW k \in 1..e - s PROVE x[s + k] = a[s + k]
      OBVIOUS
    <3>1. s + k \in 1..Len(x) /\ s + k <= n
      BY <1>1, <2>2
    <3> QED BY <3>1 DEF IsGlued
  <2>5. e <= Len(x)
    BY <1>1, <2>2
  <2>6. Slice(x, s, e) = Slice(a, s, e)
    <3>1. Alike(x, s, e, a, s, e)
      BY <2>2, <2>4, <2>5 DEF Alike
    <3> QED BY <1>1, <3>1, SliceSame
  <2> QED BY <2>3, <2>6
<1>7. \A r \in 1..B : LineIn(x, A + r) = LineIn(b, r)
  <2> SUFFICES ASSUME NEW r \in 1..B PROVE LineIn(x, A + r) = LineIn(b, r)
    OBVIOUS
  <2> DEFINE S == Offsets(b, r)
             s == Smallest(S)
             e == Largest(S)
  <2>1. Offsets(x, A + r) = {n + 1 + c : c \in S}
    <3>1. r \in Nat /\ 1 <= r
      BY <1>4
    <3>2. \A q \in Nat : 1 <= q => Offsets(x, A + q) = {n + 1 + c : c \in Offsets(b, q)}
      BY ZenonT(30), GlueOffsets
    <3> QED BY <3>1, <3>2
  <2>2. s \in Nat /\ e \in Nat /\ s <= e /\ e <= Len(b) /\ S \in SUBSET (0..Len(b)) /\ S # {}
    BY RowEnds
  <2>3. n + 1 \in Nat
    BY <1>1
  <2> HIDE DEF S
  <2>4. /\ Smallest({n + 1 + c : c \in S}) = n + 1 + s
        /\ Largest({n + 1 + c : c \in S}) = n + 1 + e
    BY <1>1, <2>2, <2>3, MovedEnds
  <2>5. LineIn(x, A + r) = Slice(x, n + 1 + s, n + 1 + e) /\ LineIn(b, r) = Slice(b, s, e)
    BY <2>1, <2>4 DEF LineIn, S
  <2> HIDE DEF s, e
  <2>6. \A k \in 1..e - s : x[n + 1 + s + k] = b[s + k]
    <3> SUFFICES ASSUME NEW k \in 1..e - s PROVE x[n + 1 + s + k] = b[s + k]
      OBVIOUS
    <3>1. /\ n + 1 + s + k \in 1..Len(x) /\ ~(n + 1 + s + k <= n) /\ n + 1 + s + k # n + 1
          /\ (n + 1 + s + k) - n - 1 = s + k
      BY <1>1, <2>2
    <3> QED BY <3>1 DEF IsGlued
  <2> DEFINE b2 == n + 1 + s
             d2 == n + 1 + e
  <2>7. b2 \in Nat /\ d2 \in Nat /\ b2 <= d2 /\ d2 <= Len(x) /\ d2 - b2 = e - s
    BY <1>1, <2>2
  <2>8. \A k \in 1..d2 - b2 : x[b2 + k] = b[s + k]
    BY <2>6, <2>7
  <2> HIDE DEF b2, d2
  <2>9. Slice(x, b2, d2) = Slice(b, s, e)
    <3>1. Alike(x, b2, d2, b, s, e)
      BY <2>2, <2>7, <2>8 DEF Alike
    <3> QED BY <1>1, <3>1, SliceSame
  <2> QED BY <2>5, <2>9 DEF b2, d2
<1> HIDE DEF A, B, X
<1>8. IsJoin(Seq(Char), Lines(a) \o Lines(b), A, X, Lines(a), Lines(b))
  BY <1>2, <1>3, <1>4, JoinElements
<1>9. \A r \in 1..X : Lines(x)[r] = (Lines(a) \o Lines(b))[r]
  <2> SUFFICES ASSUME NEW r \in 1..X PROVE Lines(x)[r] = (Lines(a) \o Lines(b))[r]
    OBVIOUS
  <2>1. (Lines(a) \o Lines(b))[r] = IF r <= A THEN Lines(a)[r] ELSE Lines(b)[r - A]
    BY <1>8 DEF IsJoin
  <2>2. CASE r <= A
    <3>1. r \in 1..A
      BY <1>2, <1>3, <1>4, <2>2
    <3> QED BY <1>3, <1>5, <1>6, <2>1, <2>2, <3>1
  <2>3. CASE ~(r <= A)
    <3>1. r - A \in 1..B /\ A + (r - A) = r
      BY <1>2, <1>3, <1>4, <2>3
    <3>2. LineIn(x, A + (r - A)) = LineIn(b, r - A)
      BY <1>7, <3>1
    <3> QED BY <1>4, <1>5, <2>1, <2>3, <3>1, <3>2
  <2> QED BY <2>2, <2>3
<1>10. Lines(a) \o Lines(b) \in Seq(Seq(Char)) /\ Len(Lines(a) \o Lines(b)) = X
  BY <1>8 DEF IsJoin
<1> QED BY <1>5, <1>9, <1>10, SeqEqual

\* Columns count from the line break.
LEMMA GlueColumns ==
  ASSUME NEW x, NEW a \in Seq(Char), NEW b \in Seq(Char), IsGlued(x, a, b)
  PROVE  /\ \A c \in 0..Len(a) : Column(x, c) = Column(a, c)
         /\ \A c \in 0..Len(b) : Column(x, Len(a) + 1 + c) = Column(b, c)
<1> DEFINE n == Len(a)
<1>1. n \in Nat /\ Len(b) \in Nat
  OBVIOUS
<1>2. ASSUME NEW c \in 0..n PROVE Column(x, c) = Column(a, c)
  <2>1. Row(x, c) = Row(a, c)
    BY GlueRows
  <2>2. Row(a, c) \in Nat /\ 1 <= Row(a, c) /\ Row(a, c) <= Row(a, n) /\ Row(a, n) \in Nat
    BY <1>1, RowType, RowOrder
  <2>3. Offsets(x, Row(a, c)) = Offsets(a, Row(a, c))
    <3>1. \A r \in 1..Row(a, n) : Offsets(x, r) = Offsets(a, r)
      BY GlueOffsets
    <3> QED BY <2>2, <3>1
  <2> QED BY <2>1, <2>3 DEF Column
<1>3. ASSUME NEW c \in 0..Len(b) PROVE Column(x, n + 1 + c) = Column(b, c)
  <2> DEFINE r == Row(b, c)
             S == Offsets(b, r)
             f == n + 1 + c
             R == Row(a, n) + r
             T == Offsets(x, R)
  <2>1. Row(x, f) = R
    BY GlueRows
  <2>2. r \in Nat /\ 1 <= r
    BY <1>1, RowType
  <2>3. T = {n + 1 + d : d \in S}
    <3>1. \A q \in Nat : 1 <= q => Offsets(x, Row(a, n) + q) = {n + 1 + d : d \in Offsets(b, q)}
      BY ZenonT(30), GlueOffsets
    <3> QED BY <2>2, <3>1
  <2>4. S \in SUBSET (0..Len(b)) /\ S # {}
    <3>1. c \in S
      BY DEF Offsets
    <3> QED BY <3>1 DEF Offsets
  <2>5. n + 1 \in Nat /\ f \in Nat /\ f = n + 1 + c
    BY <1>1
  <2>6. Column(b, c) = c - Smallest(S)
    BY DEF Column
  <2> HIDE DEF R, f
  <2>7. Column(x, f) = f - Smallest(T)
    BY <2>1 DEF Column
  <2> HIDE DEF S, T
  <2>8. Smallest({n + 1 + d : d \in S}) = n + 1 + Smallest(S) /\ Smallest(S) \in S
    BY <1>1, <2>4, <2>5, MovedEnds
  <2>9. Smallest(S) \in Nat
    <3>1. \A d \in S : d \in Nat
      BY <2>4
    <3> QED BY <2>8, <3>1
  <2>10. Smallest(T) = n + 1 + Smallest(S)
    BY <2>3, <2>8
  <2>11. Column(x, f) = Column(b, c)
    BY <1>1, <2>5, <2>6, <2>7, <2>9, <2>10
  <2> QED BY <2>11 DEF f
<1> QED BY <1>2, <1>3

\* A text without a line break is one line.
LEMMA OneLine ==
  ASSUME NEW y \in Seq(Char), \A k \in 1..Len(y) : y[k] # Newline
  PROVE  Lines(y) = <<y>> /\ \A c \in 0..Len(y) : Row(y, c) = 1 /\ Column(y, c) = c
<1> DEFINE n == Len(y)
<1>1. n \in Nat /\ IsLine(y, 0, n)
  <2>1. n \in Nat
    OBVIOUS
  <2> QED BY <2>1 DEF IsLine
<1>2. \A c \in 0..n : Row(y, c) = 1
  <2> SUFFICES ASSUME NEW c \in 0..n PROVE Row(y, c) = 1
    OBVIOUS
  <2>1. 0 \in Nat /\ c \in Nat /\ 0 <= c /\ (\A i \in 0 + 1..c : y[i] # Newline)
    BY <1>1
  <2>2. Row(y, 0) = Row(y, c)
    BY <2>1, RowOrder
  <2> QED BY <2>2, RowZero
<1>3. \A c \in 0..n : Column(y, c) = c - 0 /\ LineIn(y, Row(y, c)) = Slice(y, 0, n)
  BY <1>1, RowIsLine
<1>4. Slice(y, 0, n) = y
  <2>1. 0 \in Nat /\ 0 <= n /\ n <= Len(y)
    BY <1>1
  <2>2. IsSlice(Char, Slice(y, 0, n), y, 0, n)
    BY <1>1, <2>1, SliceElements
  <2>3. Slice(y, 0, n) \in Seq(Char) /\ Len(Slice(y, 0, n)) = n
        /\ \A k \in 1..n : Slice(y, 0, n)[k] = y[k]
    BY <1>1, <2>2 DEF IsSlice
  <2> QED BY <2>3, SeqEqual
<1>5. LineIn(y, 1) = y /\ Row(y, n) = 1
  <2>1. n \in 0..n
    BY <1>1
  <2> QED BY <1>2, <1>3, <1>4, <2>1
<1>6. Lines(y) = <<y>>
  <2>1. Lines(y) \in Seq(Seq(Char)) /\ Len(Lines(y)) = 1 /\ Lines(y)[1] = y
    <3>1. 1 \in 1..Row(y, Len(y))
      BY <1>5
    <3>2. Lines(y) \in Seq(Seq(Char)) /\ Len(Lines(y)) = 1
      BY <1>5, LinesType
    <3>3. Lines(y)[1] = LineIn(y, 1)
      BY <3>1, LinesType
    <3> QED BY <1>5, <3>2, <3>3
  <2>2. Len(<<y>>) = 1 /\ <<y>>[1] = y /\ <<y>> \in Seq(Seq(Char))
    OBVIOUS
  <2> HIDE DEF n
  <2>3. \A k \in 1..1 : Lines(y)[k] = <<y>>[k]
    BY <2>1, <2>2
  <2> QED BY <2>1, <2>2, <2>3, SeqEqual
<1>7. \A c \in 0..n : c - 0 = c
  BY <1>1
<1> QED BY <1>2, <1>3, <1>6, <1>7

-----------------------------------------------------------------------------
\* From a to e lie whole lines of t.
IsBlock(t, a, e) ==
  /\ a \in 0..Len(t) /\ e \in a..Len(t)
  /\ a = 0 \/ t[a] = Newline
  /\ e = Len(t) \/ t[e + 1] = Newline

\* The lines before the block and those after it.
Above(t, a) == IF a = 0 THEN <<>> ELSE Lines(Take(t, a - 1))
Below(t, e) == IF e = Len(t) THEN <<>> ELSE Lines(Drop(t, e + 1))

\* The lines of x are p, those of y, and q; y is at offset a.
IsFramed(x, p, y, q, a) ==
  /\ Lines(x) = (p \o Lines(y)) \o q
  /\ \A k \in 0..Len(y) : Row(x, a + k) = Len(p) + Row(y, k) /\ Column(x, a + k) = Column(y, k)

\* Joining lists in either order.
LEMMA Associative ==
  ASSUME NEW S, NEW x \in Seq(S), NEW y \in Seq(S), NEW z \in Seq(S)
  PROVE  x \o (y \o z) = (x \o y) \o z
BY SMTT(30), ConcatAssociative

\* What a block is replaced by, and all that follows it.
LEMMA Following ==
  ASSUME NEW t \in Seq(Char), NEW e \in 0..Len(t), e = Len(t) \/ t[e + 1] = Newline,
         NEW y \in Seq(Char)
  PROVE  \E z : /\ IsJoin(Char, z, Len(y), Len(y) + (Len(t) - e), y, Drop(t, e))
                /\ IsFramed(z, <<>>, y, Below(t, e), 0)
                /\ Below(t, e) \in Seq(Seq(Char))
<1>1. Len(t) \in Nat /\ Len(y) \in Nat /\ e \in Nat /\ e <= Len(t)
  OBVIOUS
<1>2. /\ Drop(t, e) \in Seq(Char) /\ Len(Drop(t, e)) = Len(t) - e
      /\ \A k \in 1..Len(t) - e : Drop(t, e)[k] = t[e + k]
  BY CutElements
<1> DEFINE z == y \o Drop(t, e)
<1>3. IsJoin(Char, z, Len(y), Len(y) + (Len(t) - e), y, Drop(t, e))
  BY <1>2, JoinElements
<1>4. Lines(y) \in Seq(Seq(Char))
  BY LinesType
<1>5. CASE e = Len(t)
  <2>1. Drop(t, e) = <<>>
    BY <1>1, <1>2, <1>5
  <2>2. z = y
    BY <2>1
  <2>3. Below(t, e) = <<>> /\ (<<>> \o Lines(y)) \o <<>> = Lines(y) /\ Len(<<>>) = 0
    BY <1>4, <1>5 DEF Below
  <2>4. \A k \in 0..Len(y) : 0 + k = k /\ Row(y, k) \in Nat /\ 0 + Row(y, k) = Row(y, k)
    BY <1>1, RowType
  <2>5. IsFramed(z, <<>>, y, Below(t, e), 0)
    BY <2>2, <2>3, <2>4 DEF IsFramed
  <2>6. Below(t, e) \in Seq(Seq(Char))
    BY <2>3
  <2> QED BY <1>3, <2>5, <2>6
<1>6. CASE e # Len(t)
  <2> DEFINE b == Drop(t, e + 1)
  <2>1. t[e + 1] = Newline /\ e + 1 \in 0..Len(t)
    BY <1>1, <1>6
  <2>2. /\ b \in Seq(Char) /\ Len(b) = Len(t) - (e + 1)
        /\ \A k \in 1..Len(t) - (e + 1) : b[k] = t[e + 1 + k]
    BY <2>1, CutElements
  <2> HIDE DEF b, z
  <2>3. z \in Seq(Char) /\ Len(z) = Len(y) + 1 + Len(b)
    BY <1>1, <1>3, <2>2 DEF IsJoin
  <2>4. ASSUME NEW k \in 1..Len(z)
        PROVE  z[k] = IF k <= Len(y) THEN y[k] ELSE IF k = Len(y) + 1 THEN Newline
                      ELSE b[k - Len(y) - 1]
    <3>1. z[k] = IF k <= Len(y) THEN y[k] ELSE Drop(t, e)[k - Len(y)]
      BY <1>1, <1>3, <2>2, <2>3 DEF IsJoin
    <3>2. k > Len(y) => Drop(t, e)[k - Len(y)] = t[e + (k - Len(y))]
      <4> SUFFICES ASSUME k > Len(y) PROVE Drop(t, e)[k - Len(y)] = t[e + (k - Len(y))]
        OBVIOUS
      <4>1. k - Len(y) \in 1..Len(t) - e
        BY <1>1, <2>2, <2>3
      <4> QED BY <1>2, <4>1
    <3>3. k = Len(y) + 1 => e + (k - Len(y)) = e + 1
      BY <1>1
    <3>4. k > Len(y) /\ k # Len(y) + 1 => b[k - Len(y) - 1] = t[e + (k - Len(y))]
      <4> SUFFICES ASSUME k > Len(y), k # Len(y) + 1
                   PROVE  b[k - Len(y) - 1] = t[e + (k - Len(y))]
        OBVIOUS
      <4>1. k - Len(y) - 1 \in 1..Len(t) - (e + 1) /\ e + 1 + (k - Len(y) - 1) = e + (k - Len(y))
        BY <1>1, <2>2, <2>3
      <4> QED BY <2>2, <4>1
    <3> QED BY <1>1, <2>1, <3>1, <3>2, <3>3, <3>4
  <2>5. IsGlued(z, y, b)
    BY <2>3, <2>4 DEF IsGlued
  <2>6. Lines(z) = Lines(y) \o Lines(b) /\ Lines(b) \in Seq(Seq(Char))
    BY <2>2, <2>5, GlueLines, LinesType
  <2>7. \A k \in 0..Len(y) : Row(z, k) = Row(y, k) /\ Column(z, k) = Column(y, k)
    BY <2>2, <2>5, GlueRows, GlueColumns
  <2>8. \A k \in 0..Len(y) : 0 + k = k /\ Row(y, k) \in Nat /\ 0 + Row(y, k) = Row(y, k)
    BY <1>1, RowType
  <2>9. Below(t, e) = Lines(b) /\ <<>> \o Lines(y) = Lines(y) /\ Len(<<>>) = 0
    BY <1>4, <1>6 DEF Below, b
  <2>10. IsFramed(z, <<>>, y, Below(t, e), 0)
    BY <2>6, <2>7, <2>8, <2>9 DEF IsFramed
  <2> QED BY <1>3, <2>6, <2>9, <2>10
<1> QED BY <1>5, <1>6

\* Replacing whole lines replaces them in the list of lines.
LEMMA BlockReplaced ==
  ASSUME NEW t \in Seq(Char), NEW a, NEW e, IsBlock(t, a, e), NEW y \in Seq(Char)
  PROVE  /\ IsFramed(Splice(t, a, e, y), Above(t, a), y, Below(t, e), a)
         /\ Above(t, a) \in Seq(Seq(Char)) /\ Below(t, e) \in Seq(Seq(Char))
<1>1. /\ a \in Nat /\ e \in Nat /\ a <= e /\ e <= Len(t) /\ Len(t) \in Nat /\ Len(y) \in Nat
      /\ a \in 0..Len(t) /\ e \in 0..Len(t)
  BY DEF IsBlock
<1> DEFINE n == Len(y)
           q == Below(t, e)
           m == n + (Len(t) - e)
           x == Splice(t, a, e, y)
<1>2. PICK z : /\ IsJoin(Char, z, n, m, y, Drop(t, e))
               /\ IsFramed(z, <<>>, y, q, 0) /\ q \in Seq(Seq(Char))
  BY <1>1, Following DEF IsBlock
<1>3. IsSplice(Char, x, t, a, e, y)
  BY <1>1, SpliceElements
<1>4. /\ Len(Drop(t, e)) = Len(t) - e
      /\ \A k \in 1..Len(t) - e : Drop(t, e)[k] = t[e + k]
  BY <1>1, CutElements
<1>5. z \in Seq(Char) /\ Len(z) = m /\ x \in Seq(Char) /\ Len(x) = a + m
  BY <1>1, <1>2, <1>3 DEF IsJoin, IsSplice
<1>6. ASSUME NEW k \in 1..m
      PROVE  z[k] = IF k <= n THEN y[k] ELSE t[e + (k - n)]
  <2>1. z[k] = IF k <= n THEN y[k] ELSE Drop(t, e)[k - n]
    BY <1>2 DEF IsJoin
  <2>2. ~(k <= n) => k - n \in 1..Len(t) - e
    BY <1>1
  <2>3. ~(k <= n) => Drop(t, e)[k - n] = t[e + (k - n)]
    BY <1>4, <2>2
  <2> QED BY <2>1, <2>3
<1> HIDE DEF x
<1>7. ASSUME NEW k \in 1..m PROVE x[a + k] = z[k]
  <2> DEFINE i == a + k
  <2>1. /\ i \in 1..Len(x) /\ ~(i <= a) /\ i - a = k /\ i - a - n + e = e + (k - n)
        /\ (i <= a + n <=> k <= n)
    BY <1>1, <1>5
  <2> HIDE DEF i
  <2>2. x[i] = IF i <= a THEN t[i] ELSE IF i <= a + n THEN y[i - a] ELSE t[i - a - n + e]
    BY <1>3, <2>1 DEF IsSplice
  <2>3. x[i] = IF k <= n THEN y[k] ELSE t[e + (k - n)]
    BY <2>1, <2>2
  <2>4. x[i] = z[k]
    BY <1>6, <2>3
  <2> QED BY <2>4 DEF i
<1>8. \A k \in 1..a : x[k] = t[k]
  <2> SUFFICES ASSUME NEW k \in 1..a PROVE x[k] = t[k]
    OBVIOUS
  <2>1. k \in 1..Len(x) /\ k <= a
    BY <1>1, <1>5
  <2>2. x[k] = IF k <= a THEN t[k] ELSE IF k <= a + Len(y) THEN y[k - a]
               ELSE t[k - a - Len(y) + e]
    BY <1>3, <2>1 DEF IsSplice
  <2> QED BY <2>1, <2>2
<1>9. Lines(y) \in Seq(Seq(Char)) /\ Lines(z) = (<<>> \o Lines(y)) \o q
  BY <1>2, LinesType DEF IsFramed
<1>10. Lines(z) = Lines(y) \o q
  BY <1>9
<1>11. \A k \in 0..n : /\ Row(z, k) = Row(y, k) /\ Column(z, k) = Column(y, k)
                       /\ k \in Nat /\ Row(y, k) \in Nat
  <2> SUFFICES ASSUME NEW k \in 0..n
               PROVE  /\ Row(z, k) = Row(y, k) /\ Column(z, k) = Column(y, k)
                      /\ k \in Nat /\ Row(y, k) \in Nat
    OBVIOUS
  <2>1. k \in Nat /\ 0 + k = k /\ Row(y, k) \in Nat
    BY <1>1, RowType
  <2>2. Row(z, 0 + k) = Len(<<>>) + Row(y, k) /\ Column(z, 0 + k) = Column(y, k)
    BY <1>2 DEF IsFramed
  <2>3. Len(<<>>) = 0
    OBVIOUS
  <2> QED BY <2>1, <2>2, <2>3
<1>12. CASE a = 0
  <2>1. x = z
    <3>1. \A k \in 1..Len(x) : x[k] = z[k]
      <4> SUFFICES ASSUME NEW k \in 1..Len(x) PROVE x[k] = z[k]
        OBVIOUS
      <4>1. k \in 1..m /\ a + k = k
        BY <1>5, <1>12
      <4> QED BY <1>7, <4>1
    <3>2. Len(x) = Len(z)
      BY <1>1, <1>5, <1>12
    <3> QED BY <1>5, <3>1, <3>2, SeqEqual
  <2>2. Above(t, a) = <<>>
    BY <1>12 DEF Above
  <2>3. IsFramed(x, <<>>, y, q, a)
    BY <1>2, <1>12, <2>1
  <2> QED BY <1>2, <2>2, <2>3 DEF x
<1>13. CASE a # 0
  <2> DEFINE b == Take(t, a - 1)
             p == Lines(b)
  <2>1. a - 1 \in 0..Len(t) /\ t[a] = Newline
    BY <1>1, <1>13 DEF IsBlock
  <2>2. b \in Seq(Char) /\ Len(b) = a - 1 /\ \A k \in 1..a - 1 : b[k] = t[k]
    BY ZenonT(30), <2>1, CutElements
  <2> HIDE DEF b
  <2>3. p \in Seq(Seq(Char)) /\ Len(p) = Row(b, Len(b))
    BY <2>2, LinesType
  <2>4. IsGlued(x, b, z)
    <3>1. Len(x) = Len(b) + 1 + Len(z)
      BY <1>1, <1>5, <2>2
    <3>2. ASSUME NEW k \in 1..Len(x)
          PROVE  x[k] = IF k <= Len(b) THEN b[k] ELSE IF k = Len(b) + 1 THEN Newline
                        ELSE z[k - Len(b) - 1]
      <4>1. CASE k <= Len(b)
        <5>1. k \in 1..a - 1 /\ k \in 1..a
          BY <1>1, <2>2, <4>1
        <5> QED BY <1>8, <2>2, <4>1, <5>1
      <4>2. CASE k = Len(b) + 1
        <5>1. k = a /\ a \in 1..a /\ ~(k <= Len(b))
          BY <1>1, <1>13, <2>2, <4>2
        <5> QED BY <1>8, <2>1, <4>2, <5>1
      <4>3. CASE k > Len(b) + 1
        <5> DEFINE i == k - Len(b) - 1
        <5>1. i \in 1..m /\ a + i = k
          BY <1>1, <1>5, <2>2, <4>3
        <5>2. x[a + i] = z[i]
          BY <1>7, <5>1
        <5>3. ~(k <= Len(b)) /\ k # Len(b) + 1
          BY <1>1, <2>2, <4>3
        <5> QED BY <5>1, <5>2, <5>3
      <4>4. Len(b) \in Nat
        BY <2>2
      <4> QED BY <4>1, <4>2, <4>3, <4>4
    <3> QED BY <1>5, <3>1, <3>2 DEF IsGlued
  <2>5. Lines(x) = p \o (Lines(y) \o q)
    <3>1. Lines(x) = p \o Lines(z)
      BY <1>5, <2>2, <2>4, GlueLines
    <3> QED BY <1>10, <3>1
  <2>6. p \o (Lines(y) \o q) = (p \o Lines(y)) \o q
    <3>1. Lines(y) \in Seq(Seq(Char)) /\ q \in Seq(Seq(Char))
      BY <1>2, <1>9
    <3> DEFINE l == Lines(y)
               S == Seq(Char)
    <3>2. p \in Seq(S) /\ l \in Seq(S) /\ q \in Seq(S)
      BY <2>3, <3>1
    <3> HIDE DEF p, q, l, S
    <3>3. p \o (l \o q) = (p \o l) \o q
      BY SMTT(30), <3>2, Associative
    <3> QED BY <3>3 DEF l
  <2>7. ASSUME NEW k \in 0..n
        PROVE  Row(x, a + k) = Len(p) + Row(y, k) /\ Column(x, a + k) = Column(y, k)
    <3>1. k \in 0..Len(z) /\ Len(b) + 1 + k = a + k
      BY SMTT(30), <1>1, <1>5, <2>2
    <3>2. /\ Row(x, Len(b) + 1 + k) = Row(b, Len(b)) + Row(z, k)
          /\ Column(x, Len(b) + 1 + k) = Column(z, k)
      BY <1>5, <2>2, <2>4, <3>1, GlueRows, GlueColumns
    <3> QED BY <1>11, <2>3, <3>1, <3>2
  <2>8. IsFramed(x, p, y, q, a)
    BY <2>5, <2>6, <2>7 DEF IsFramed
  <2>9. Above(t, a) = p
    BY <1>13 DEF Above, b
  <2> QED BY <1>2, <2>3, <2>8, <2>9 DEF x
<1> QED BY <1>12, <1>13

\* A block as it is.
LEMMA BlockOf ==
  ASSUME NEW t \in Seq(Char), NEW a, NEW e, IsBlock(t, a, e)
  PROVE  IsFramed(t, Above(t, a), Slice(t, a, e), Below(t, e), a)
<1>1. a \in Nat /\ e \in Nat /\ a <= e /\ e <= Len(t)
  BY DEF IsBlock
<1>2. Slice(t, a, e) \in Seq(Char)
  BY <1>1, SliceTypes
<1>3. Splice(t, a, e, Slice(t, a, e)) = t
  BY <1>1, SpliceBack
<1> QED BY <1>2, <1>3, BlockReplaced

-----------------------------------------------------------------------------
\* Cutting at either end.
LEMMA CutEnds ==
  ASSUME NEW S, NEW m \in Seq(S)
  PROVE  /\ Take(m, 0) = <<>> /\ Drop(m, 0) = m
         /\ Take(m, Len(m)) = m /\ Drop(m, Len(m)) = <<>>
<1> DEFINE n == Len(m)
           a == Take(m, 0)
           b == Drop(m, 0)
           c == Take(m, n)
           d == Drop(m, n)
<1>1. n \in Nat /\ 0 \in 0..n /\ n \in 0..n
  OBVIOUS
<1>2. /\ a \in Seq(S) /\ Len(a) = 0
      /\ b \in Seq(S) /\ Len(b) = n - 0 /\ \A k \in 1..n - 0 : b[k] = m[0 + k]
  BY <1>1, CutElements
<1>3. /\ c \in Seq(S) /\ Len(c) = n /\ \A k \in 1..n : c[k] = m[k]
      /\ d \in Seq(S) /\ Len(d) = n - n
  BY <1>1, CutElements
<1>4. n - 0 = n /\ n - n = 0 /\ \A k \in 1..n : 0 + k = k
  BY <1>1
<1> HIDE DEF a, b, c, d
<1>5. a = <<>> /\ d = <<>>
  BY <1>2, <1>3, <1>4
<1>6. c = m
  BY <1>3, SeqEqual
<1>7. b = m
  BY <1>2, <1>4, SeqEqual
<1> QED BY <1>5, <1>6, <1>7 DEF a, b, c, d

\* Cutting where two sequences were joined.
LEMMA CutJoin ==
  ASSUME NEW S, NEW x \in Seq(S), NEW y \in Seq(S)
  PROVE  Take(x \o y, Len(x)) = x /\ Drop(x \o y, Len(x)) = y /\ Len(x \o y) = Len(x) + Len(y)
<1> DEFINE m == Len(x)
           n == Len(x) + Len(y)
           z == x \o y
           a == Take(z, m)
           b == Drop(z, m)
<1>1. m \in Nat /\ Len(y) \in Nat /\ m \in 0..n /\ n - m = Len(y)
  OBVIOUS
<1>2. IsJoin(S, z, m, n, x, y)
  BY JoinElements
<1> HIDE DEF z
<1>3. z \in Seq(S) /\ Len(z) = n
  BY <1>2 DEF IsJoin
<1>4. /\ a \in Seq(S) /\ Len(a) = m /\ \A k \in 1..m : a[k] = z[k]
      /\ b \in Seq(S) /\ Len(b) = n - m /\ \A k \in 1..n - m : b[k] = z[m + k]
  <2>1. m \in 0..Len(z)
    BY <1>1, <1>3
  <2>2. /\ a \in Seq(S) /\ Len(a) = m /\ \A k \in 1..m : a[k] = z[k]
        /\ b \in Seq(S) /\ Len(b) = Len(z) - m
        /\ \A k \in 1..Len(z) - m : b[k] = z[m + k]
    BY <1>3, <2>1, CutElements
  <2> QED BY <1>3, <2>2
<1>5. \A k \in 1..m : z[k] = x[k]
  BY <1>1, <1>2 DEF IsJoin
<1>6. \A k \in 1..Len(y) : z[m + k] = y[k]
  <2> SUFFICES ASSUME NEW k \in 1..Len(y) PROVE z[m + k] = y[k]
    OBVIOUS
  <2> DEFINE i == m + k
  <2>1. i \in 1..n /\ ~(i <= m) /\ i - m = k
    BY <1>1
  <2> HIDE DEF i
  <2>2. z[i] = IF i <= m THEN x[i] ELSE y[i - m]
    BY <1>2, <2>1 DEF IsJoin
  <2>3. z[i] = y[k]
    BY <2>1, <2>2
  <2> QED BY <2>3 DEF i
<1> HIDE DEF a, b
<1>7. a = x
  <2>1. Len(a) = Len(x) /\ \A k \in 1..Len(a) : a[k] = x[k]
    BY <1>4, <1>5
  <2> QED BY <1>4, <2>1, SeqEqual
<1>8. b = y
  <2>1. Len(b) = Len(y) /\ \A k \in 1..Len(b) : b[k] = y[k]
    BY <1>1, <1>4, <1>6
  <2> QED BY <1>4, <2>1, SeqEqual
<1> QED BY <1>3, <1>7, <1>8 DEF a, b, z

\* Splicing all of a sequence, its beginning or its end.
LEMMA SpliceEnds ==
  ASSUME NEW S, NEW m \in Seq(S), NEW new \in Seq(S), NEW k \in 0..Len(m)
  PROVE  /\ Splice(m, 0, Len(m), new) = new
         /\ Splice(m, 0, k, new) = new \o Drop(m, k)
         /\ Splice(m, k, Len(m), new) = Take(m, k) \o new
<1>1. Take(m, 0) = <<>> /\ Drop(m, Len(m)) = <<>>
  BY CutEnds
<1>2. <<>> \o new = new
  OBVIOUS
<1>3. Splice(m, 0, Len(m), new) = new
  <2>1. Splice(m, 0, Len(m), new) = (<<>> \o new) \o <<>>
    BY <1>1 DEF Splice
  <2>2. new \o <<>> = new
    OBVIOUS
  <2> QED BY <1>2, <2>1, <2>2
<1>4. Splice(m, 0, k, new) = new \o Drop(m, k)
  BY <1>1, <1>2 DEF Splice
<1>5. Splice(m, k, Len(m), new) = Take(m, k) \o new
  <2> DEFINE u == Take(m, k) \o new
  <2>1. Take(m, k) \in Seq(S)
    BY CutElements
  <2>2. u \in Seq(S)
    BY <2>1, ConcatProperties
  <2>3. Splice(m, k, Len(m), new) = u \o <<>>
    BY <1>1 DEF Splice
  <2> HIDE DEF u
  <2>4. u \o <<>> = u
    BY <2>2
  <2> QED BY <2>3, <2>4 DEF u
<1> QED BY <1>3, <1>4, <1>5

\* From s to g is, of what lies between a and e, the part from b to d.
Within(a, e, b, d, s, g) ==
  /\ a \in Nat /\ e \in Nat /\ b \in Nat /\ d \in Nat /\ s \in Nat /\ g \in Nat
  /\ s = a + b /\ g = a + d /\ b <= d /\ g <= e

\* Changing part of a stretch.
LEMMA SpliceWithin ==
  ASSUME NEW S, NEW t \in Seq(S), NEW a, NEW e, NEW b, NEW d, NEW s, NEW g,
         Within(a, e, b, d, s, g), e <= Len(t), NEW new \in Seq(S)
  PROVE  Splice(t, s, g, new) = Splice(t, a, e, Splice(Slice(t, a, e), b, d, new))
<1>1. /\ a \in Nat /\ e \in Nat /\ s \in Nat /\ g \in Nat /\ a <= s /\ s <= g /\ g <= e
      /\ s - a = b /\ g - a = d
  BY DEF Within
<1>2. Splice(t, s, g, new) = Splice(t, a, e, Splice(Slice(t, a, e), s - a, g - a, new))
  BY <1>1, SpliceInside
<1> QED BY <1>1, <1>2

\* In l stands p up to a, then m up to e, then q.
IsList(S, l, p, m, q, a, e) ==
  /\ p \in Seq(S) /\ m \in Seq(S) /\ q \in Seq(S) /\ l = (p \o m) \o q
  /\ a = Len(p) /\ e = a + Len(m)

\* The middle of a list, and changing it.
LEMMA Middle ==
  ASSUME NEW S, NEW p, NEW m, NEW q, NEW l, NEW a, NEW e, IsList(S, l, p, m, q, a, e)
  PROVE  /\ l \in Seq(S) /\ Len(l) = e + Len(q)
         /\ Take(l, a) = p /\ Drop(l, e) = q /\ Slice(l, a, e) = m
         /\ a \in Nat /\ e \in Nat /\ a <= e /\ e <= Len(l)
<1> DEFINE f == p \o m
           g == m \o q
<1>1. /\ p \in Seq(S) /\ m \in Seq(S) /\ q \in Seq(S) /\ l = f \o q
      /\ a \in Nat /\ Len(m) \in Nat /\ Len(q) \in Nat /\ e \in Nat
      /\ a = Len(p) /\ e = a + Len(m)
  BY DEF IsList
<1>2. f \in Seq(S) /\ Len(f) = e /\ Take(f, a) = p /\ Drop(f, a) = m
  BY <1>1, CutJoin, ConcatProperties
<1>3. f \o q = p \o g
  BY SMTT(30), <1>1, ConcatAssociative
<1>4. g \in Seq(S)
  BY <1>1, ConcatProperties
<1> HIDE DEF f, g
<1>5. l \in Seq(S) /\ Take(l, e) = f /\ Drop(l, e) = q /\ Len(l) = e + Len(q)
  <2>1. f \o q \in Seq(S)
    BY <1>1, <1>2, ConcatProperties
  <2>2. Take(f \o q, Len(f)) = f /\ Drop(f \o q, Len(f)) = q /\ Len(f \o q) = Len(f) + Len(q)
    BY <1>1, <1>2, CutJoin
  <2> QED BY <1>1, <1>2, <2>1, <2>2
<1>6. Slice(l, a, e) = m
  BY <1>2, <1>5 DEF Slice
<1>7. Take(p \o g, Len(p)) = p
  BY <1>1, <1>4, CutJoin
<1>8. a <= e /\ e <= Len(l)
  BY <1>1, <1>5
<1> QED BY <1>1, <1>3, <1>5, <1>6, <1>7, <1>8

\* A splice inside the middle part of a join is a splice of that part.
LEMMA SpliceMiddle ==
  ASSUME NEW S, NEW p, NEW m, NEW q, NEW l, NEW a, NEW e, IsList(S, l, p, m, q, a, e),
         NEW new \in Seq(S), NEW b, NEW d, NEW s, NEW g, Within(a, e, b, d, s, g)
  PROVE  Splice(l, s, g, new) = (p \o Splice(m, b, d, new)) \o q
<1> DEFINE y == Splice(m, b, d, new)
<1>1. /\ l \in Seq(S) /\ e <= Len(l)
      /\ Take(l, a) = p /\ Drop(l, e) = q /\ Slice(l, a, e) = m
  BY Middle
<1>2. Splice(l, s, g, new) = Splice(l, a, e, Splice(Slice(l, a, e), b, d, new))
  BY <1>1, SpliceWithin
<1>3. Splice(l, s, g, new) = Splice(l, a, e, y)
  BY <1>1, <1>2
<1>4. Splice(l, a, e, y) = (p \o y) \o q
  BY <1>1 DEF Splice
<1> QED BY <1>3, <1>4

\* The items of the middle part.
LEMMA MiddleItem ==
  ASSUME NEW S, NEW p, NEW m, NEW q, NEW l, NEW a, NEW e, IsList(S, l, p, m, q, a, e),
         NEW k \in 1..Len(m)
  PROVE  l[a + k] = m[k]
<1> DEFINE w == Slice(l, a, e)
<1>1. /\ l \in Seq(S) /\ a \in Nat /\ e \in Nat /\ a <= e /\ e <= Len(l) /\ w = m
  BY Middle
<1>2. k \in 1..e - a
  BY <1>1 DEF IsList
<1>3. IsSlice(S, w, l, a, e)
  BY <1>1, SliceElements
<1>4. \A i \in 1..e - a : m[i] = l[a + i]
  BY <1>1, <1>3 DEF IsSlice
<1> QED BY <1>2, <1>4

-----------------------------------------------------------------------------
(* Lines next to each other. *)

Plain(m) == \A k \in 1..Len(m) : m[k] # Newline

\* The line from i to j is m, between the lines p and the lines q.
HasLine(t, i, j, p, m, q) ==
  /\ p \in Seq(Seq(Char)) /\ q \in Seq(Seq(Char)) /\ m \in Seq(Char) /\ Len(m) = j - i /\ Plain(m)
  /\ Lines(t) = (p \o <<m>>) \o q
  /\ \A c \in i..j : Row(t, c) = Len(p) + 1 /\ Column(t, c) = c - i

\* The line from i to j is m1, and the next one, that ends at k, is m2.
HasPair(t, i, j, k, p, m1, m2, q) ==
  /\ p \in Seq(Seq(Char)) /\ q \in Seq(Seq(Char))
  /\ m1 \in Seq(Char) /\ Len(m1) = j - i /\ Plain(m1)
  /\ m2 \in Seq(Char) /\ Len(m2) = k - (j + 1) /\ Plain(m2)
  /\ Lines(t) = (p \o <<m1, m2>>) \o q
  /\ \A c \in i..j : Row(t, c) = Len(p) + 1 /\ Column(t, c) = c - i
  /\ \A c \in j + 1..k : Row(t, c) = Len(p) + 2 /\ Column(t, c) = c - (j + 1)

\* A list of two.
LEMMA TwoItems ==
  ASSUME NEW S, NEW x \in S, NEW y \in S
  PROVE  <<x>> \o <<y>> = <<x, y>> /\ <<x, y>> \in Seq(S)
<1> DEFINE a == <<x>>
           b == <<y>>
           c == <<x, y>>
<1>1. /\ a \in Seq(S) /\ Len(a) = 1 /\ a[1] = x /\ b \in Seq(S) /\ Len(b) = 1 /\ b[1] = y
      /\ c \in Seq(S) /\ Len(c) = 2 /\ c[1] = x /\ c[2] = y
  OBVIOUS
<1> HIDE DEF a, b, c
<1>2. IsJoin(S, a \o b, 1, 2, a, b)
  <2>1. 2 = 1 + Len(b)
    BY <1>1
  <2> QED BY <1>1, <2>1, JoinElements
<1>3. a \o b \in Seq(S) /\ Len(a \o b) = 2
  BY <1>2 DEF IsJoin
<1>4. (a \o b)[1] = x /\ (a \o b)[2] = y
  <2>1. 1 \in 1..2 /\ 2 \in 1..2 /\ 1 <= 1 /\ ~(2 <= 1) /\ 2 - 1 = 1
    OBVIOUS
  <2> QED BY <1>1, <1>2, <2>1 DEF IsJoin
<1>5. \A k \in 1..2 : (a \o b)[k] = c[k]
  <2>1. \A k \in 1..2 : k = 1 \/ k = 2
    OBVIOUS
  <2> QED BY <1>1, <1>4, <2>1
<1>6. a \o b = c
  BY <1>1, <1>3, <1>5, SeqEqual
<1> QED BY <1>1, <1>6 DEF a, b, c

\* Instead of a block stands the line y.
LEMMA PutLine ==
  ASSUME NEW t \in Seq(Char), NEW a, NEW e, IsBlock(t, a, e), NEW y \in Seq(Char), Plain(y)
  PROVE  LET x == Splice(t, a, e, y)
         IN HasLine(x, a, a + Len(y), Above(t, a), y, Below(t, e))
<1> DEFINE x == Splice(t, a, e, y)
           p == Above(t, a)
           q == Below(t, e)
           j == a + Len(y)
<1>1. IsFramed(x, p, y, q, a) /\ p \in Seq(Seq(Char)) /\ q \in Seq(Seq(Char))
  BY BlockReplaced
<1>2. Lines(y) = <<y>> /\ \A c \in 0..Len(y) : Row(y, c) = 1 /\ Column(y, c) = c
  BY OneLine DEF Plain
<1>3. a \in Nat /\ Len(y) \in Nat
  BY DEF IsBlock
<1> HIDE DEF x, p, q
<1>4. Lines(x) = (p \o <<y>>) \o q
  BY <1>1, <1>2 DEF IsFramed
<1>5. ASSUME NEW c \in a..j PROVE Row(x, c) = Len(p) + 1 /\ Column(x, c) = c - a
  <2> DEFINE k == c - a
  <2>1. k \in 0..Len(y) /\ a + k = c
    BY <1>3
  <2> HIDE DEF k
  <2>2. Row(x, a + k) = Len(p) + Row(y, k) /\ Column(x, a + k) = Column(y, k)
    BY <1>1, <2>1 DEF IsFramed
  <2> QED BY <1>2, <2>1, <2>2 DEF k
<1>6. Len(y) = j - a
  BY <1>3
<1> HIDE DEF j
<1>7. HasLine(x, a, j, p, y, q)
  BY <1>1, <1>4, <1>5, <1>6 DEF HasLine
<1> QED BY <1>7 DEF x, p, q, j

\* Instead of a block stand the lines y1 and y2.
LEMMA PutPair ==
  ASSUME NEW t \in Seq(Char), NEW a, NEW e, IsBlock(t, a, e),
         NEW y1 \in Seq(Char), Plain(y1), NEW y2 \in Seq(Char), Plain(y2)
  PROVE  LET x == Splice(t, a, e, Glue(y1, y2))
             j == a + Len(y1)
         IN HasPair(x, a, j, j + 1 + Len(y2), Above(t, a), y1, y2, Below(t, e))
<1> DEFINE y == Glue(y1, y2)
           x == Splice(t, a, e, y)
           p == Above(t, a)
           q == Below(t, e)
           n == Len(y1)
           j == a + n
           k == j + 1 + Len(y2)
<1>1. IsGlued(y, y1, y2)
  BY GlueElements
<1> HIDE DEF y
<1>2. y \in Seq(Char) /\ Len(y) = n + 1 + Len(y2)
  BY <1>1 DEF IsGlued
<1>3. IsFramed(x, p, y, q, a) /\ p \in Seq(Seq(Char)) /\ q \in Seq(Seq(Char))
  BY <1>2, BlockReplaced
<1>4. /\ Lines(y1) = <<y1>> /\ \A c \in 0..n : Row(y1, c) = 1 /\ Column(y1, c) = c
      /\ Lines(y2) = <<y2>> /\ \A c \in 0..Len(y2) : Row(y2, c) = 1 /\ Column(y2, c) = c
  BY OneLine DEF Plain
<1>5. a \in Nat /\ n \in Nat /\ Len(y2) \in Nat
  BY DEF IsBlock
<1>6. Lines(y) = <<y1, y2>>
  <2>1. Lines(y) = <<y1>> \o <<y2>>
    BY ZenonT(30), <1>1, <1>4, GlueLines
  <2>2. <<y1>> \o <<y2>> = <<y1, y2>>
    BY TwoItems
  <2> QED BY <2>1, <2>2
<1> HIDE DEF x, p, q
<1>7. Lines(x) = (p \o <<y1, y2>>) \o q
  BY <1>3, <1>6 DEF IsFramed
<1>8. ASSUME NEW c \in a..j PROVE Row(x, c) = Len(p) + 1 /\ Column(x, c) = c - a
  <2> DEFINE i == c - a
  <2>1. i \in 0..Len(y) /\ i \in 0..n /\ a + i = c
    BY <1>2, <1>5
  <2> HIDE DEF i
  <2>2. Row(x, a + i) = Len(p) + Row(y, i) /\ Column(x, a + i) = Column(y, i)
    BY <1>3, <2>1 DEF IsFramed
  <2>3. Row(y, i) = Row(y1, i) /\ Column(y, i) = Column(y1, i)
    BY <1>1, <2>1, GlueRows, GlueColumns
  <2> QED BY <1>4, <2>1, <2>2, <2>3 DEF i
<1>9. ASSUME NEW c \in j + 1..k PROVE Row(x, c) = Len(p) + 2 /\ Column(x, c) = c - (j + 1)
  <2> DEFINE i == c - (j + 1)
             g == n + 1 + i
  <2>1. g \in 0..Len(y) /\ i \in 0..Len(y2) /\ a + g = c
    BY <1>2, <1>5
  <2>2. Row(y, g) = Row(y1, n) + Row(y2, i) /\ Column(y, g) = Column(y2, i)
    <3>1. /\ \A d \in 0..Len(y2) : Row(y, n + 1 + d) = Row(y1, n) + Row(y2, d)
          /\ \A d \in 0..Len(y2) : Column(y, n + 1 + d) = Column(y2, d)
      BY ZenonT(30), <1>1, GlueRows, GlueColumns
    <3> HIDE DEF i
    <3> QED BY <2>1, <3>1
  <2> HIDE DEF i, g
  <2>3. Row(x, a + g) = Len(p) + Row(y, g) /\ Column(x, a + g) = Column(y, g)
    BY <1>3, <2>1 DEF IsFramed
  <2>4. n \in 0..n /\ Len(p) \in Nat
    BY <1>3, <1>5
  <2>5. Row(y1, n) = 1 /\ Row(y2, i) = 1 /\ Column(y2, i) = i
    BY <1>4, <2>1, <2>4
  <2>6. Row(x, c) = Len(p) + (1 + 1) /\ Column(x, c) = i
    BY <2>1, <2>2, <2>3, <2>5
  <2> QED BY <2>4, <2>6 DEF i
<1>10. Len(y1) = j - a /\ Len(y2) = k - (j + 1)
  BY <1>5
<1> HIDE DEF j, k
<1>11. HasPair(x, a, j, k, p, y1, y2, q)
  BY <1>3, <1>7, <1>8, <1>9, <1>10 DEF HasPair
<1> QED BY <1>11 DEF x, p, q, y, j, k

\* A line of a text and its place in the list.
LEMMA LineOf ==
  ASSUME NEW t \in Seq(Char), NEW i, NEW j, IsLine(t, i, j)
  PROVE  /\ IsBlock(t, i, j)
         /\ HasLine(t, i, j, Above(t, i), Slice(t, i, j), Below(t, j))
<1> DEFINE m == Slice(t, i, j)
<1>1. IsBlock(t, i, j) /\ i \in Nat /\ j \in Nat /\ i <= j /\ j <= Len(t)
  BY DEF IsLine, IsBlock
<1>2. m \in Seq(Char) /\ Len(m) = j - i /\ Plain(m)
  <2>1. IsSlice(Char, m, t, i, j)
    BY <1>1, SliceElements
  <2>2. \A k \in 1..j - i : t[i + k] # Newline
    <3> SUFFICES ASSUME NEW k \in 1..j - i PROVE t[i + k] # Newline
      OBVIOUS
    <3>1. i + k \in i + 1..j
      BY <1>1
    <3> QED BY <3>1 DEF IsLine
  <2> HIDE DEF m
  <2> QED BY <2>1, <2>2 DEF IsSlice, Plain
<1>3. Splice(t, i, j, m) = t
  BY <1>1, SpliceBack
<1>4. i + Len(m) = j
  BY <1>1, <1>2
<1> HIDE DEF m
<1>5. HasLine(Splice(t, i, j, m), i, i + Len(m), Above(t, i), m, Below(t, j))
  BY <1>1, <1>2, PutLine
<1> QED BY <1>1, <1>3, <1>4, <1>5 DEF m

\* Two lines of a text that follow each other.
LEMMA PairOf ==
  ASSUME NEW t \in Seq(Char), NEW i, NEW j, NEW k, IsLine(t, i, j), IsLine(t, j + 1, k)
  PROVE  /\ IsBlock(t, i, k)
         /\ Slice(t, i, k) = Glue(Slice(t, i, j), Slice(t, j + 1, k))
         /\ HasPair(t, i, j, k, Above(t, i), Slice(t, i, j), Slice(t, j + 1, k), Below(t, k))
<1> DEFINE m1 == Slice(t, i, j)
           m2 == Slice(t, j + 1, k)
           m == Slice(t, i, k)
           y == Glue(m1, m2)
<1>1. /\ IsBlock(t, i, k) /\ i \in Nat /\ j \in Nat /\ k \in Nat /\ i <= j /\ j + 1 <= k
      /\ k <= Len(t) /\ Len(t) \in Nat /\ j + 1 \in Nat /\ j <= Len(t) /\ i <= k
  BY DEF IsLine, IsBlock
<1>2. t[j + 1] = Newline
  BY <1>1 DEF IsLine
<1>3. /\ m1 \in Seq(Char) /\ Len(m1) = j - i /\ Plain(m1)
      /\ m2 \in Seq(Char) /\ Len(m2) = k - (j + 1) /\ Plain(m2)
  BY LineOf DEF HasLine
<1>4. IsSlice(Char, m1, t, i, j) /\ IsSlice(Char, m2, t, j + 1, k) /\ IsSlice(Char, m, t, i, k)
  BY <1>1, SliceElements
<1>5. IsGlued(y, m1, m2)
  BY <1>3, GlueElements
<1> HIDE DEF m1, m2, m, y
<1>6. m \in Seq(Char) /\ y \in Seq(Char) /\ Len(m) = k - i /\ Len(y) = k - i
  BY <1>1, <1>3, <1>4, <1>5 DEF IsSlice, IsGlued
<1>7. ASSUME NEW c \in 1..k - i PROVE m[c] = y[c]
  <2>1. m[c] = t[i + c]
    BY <1>4 DEF IsSlice
  <2>2. y[c] = IF c <= j - i THEN m1[c] ELSE IF c = j - i + 1 THEN Newline ELSE m2[c - (j - i) - 1]
    BY <1>3, <1>5, <1>6 DEF IsGlued
  <2>3. CASE c <= j - i
    <3>1. c \in 1..j - i
      BY <1>1, <2>3
    <3> QED BY <1>4, <2>1, <2>2, <2>3, <3>1 DEF IsSlice
  <2>4. CASE c = j - i + 1
    <3>1. i + c = j + 1 /\ ~(c <= j - i)
      BY <1>1, <2>4
    <3> QED BY <1>2, <2>1, <2>2, <2>4, <3>1
  <2>5. CASE c > j - i + 1
    <3> DEFINE d == c - (j - i) - 1
    <3>1. d \in 1..k - (j + 1) /\ (j + 1) + d = i + c /\ ~(c <= j - i) /\ c # j - i + 1
      BY <1>1, <2>5
    <3> HIDE DEF d
    <3>2. m2[d] = t[(j + 1) + d]
      BY <1>4, <3>1 DEF IsSlice
    <3> QED BY <2>1, <2>2, <3>1, <3>2 DEF d
  <2> QED BY <1>1, <2>3, <2>4, <2>5
<1>8. m = y
  <2>1. \A c \in 1..Len(m) : m[c] = y[c]
    BY <1>6, <1>7
  <2> QED BY <1>6, <2>1, SeqEqual
<1>9. Splice(t, i, k, m) = t
  BY <1>1, SpliceBack DEF m
<1> DEFINE g == i + Len(m1)
           h == g + 1 + Len(m2)
<1>10. HasPair(Splice(t, i, k, Glue(m1, m2)), i, g, h, Above(t, i), m1, m2, Below(t, k))
  BY <1>1, <1>3, PutPair
<1>11. g = j /\ h = k
  BY <1>1, <1>3
<1> HIDE DEF g, h
<1>12. HasPair(t, i, j, k, Above(t, i), m1, m2, Below(t, k))
  BY <1>8, <1>9, <1>10, <1>11 DEF y
<1> QED BY <1>1, <1>8, <1>12 DEF m1, m2, m, y

\* There is a line after each line break, and one before it.
LEMMA NextLine ==
  ASSUME NEW t \in Seq(Char), NEW i, NEW j, IsLine(t, i, j), j < Len(t)
  PROVE  \E k : IsLine(t, j + 1, k)
<1>1. j \in Nat /\ j + 1 \in 0..Len(t) /\ t[j + 1] = Newline /\ Len(t) \in Nat
  BY DEF IsLine
<1>2. PICK x \in Nat, y \in Nat : IsLine(t, x, y) /\ x <= j + 1 /\ j + 1 <= y
  BY <1>1, LineAroundIsLine
<1>3. x = j + 1
  BY <1>1, <1>2 DEF IsLine
<1> QED BY <1>2, <1>3

\* A line that is not the first one has one before it.
LEMMA LineBefore ==
  ASSUME NEW t \in Seq(Char), NEW i, NEW j, IsLine(t, i, j), i > 0
  PROVE  i - 1 \in Nat /\ i - 1 + 1 = i /\ \E k \in Nat : IsLine(t, k, i - 1)
<1> DEFINE c == i - 1
<1>1. i \in Nat /\ i \in 0..Len(t) /\ c \in 0..Len(t) /\ t[i] = Newline /\ Len(t) \in Nat /\ c + 1 = i
      /\ c \in Nat
  BY DEF IsLine
<1> HIDE DEF c
<1>2. PICK x \in Nat, y \in Nat : IsLine(t, x, y) /\ x <= c /\ c <= y
  BY <1>1, LineAroundIsLine
<1>3. y = c
  BY <1>1, <1>2 DEF IsLine
<1>4. IsLine(t, x, c)
  BY <1>2, <1>3
<1> QED BY <1>1, <1>2, <1>4 DEF c

-----------------------------------------------------------------------------
(* Changing a part of one line or of two. *)

\* A change inside a line that leaves one line.
LEMMA LineToLine ==
  ASSUME NEW t \in Seq(Char), NEW i, NEW j, IsLine(t, i, j), NEW b, NEW d, NEW s, NEW g,
         Within(i, j, b, d, s, g), NEW new \in Seq(Char), NEW y \in Seq(Char), Plain(y),
         Splice(Slice(t, i, j), b, d, new) = y
  PROVE  HasLine(Splice(t, s, g, new), i, i + Len(y), Above(t, i), y, Below(t, j))
<1>1. IsBlock(t, i, j)
  BY LineOf
<1>2. j <= Len(t)
  BY <1>1 DEF IsBlock
<1>3. Splice(t, s, g, new) = Splice(t, i, j, Splice(Slice(t, i, j), b, d, new))
  BY <1>2, SpliceWithin
<1>4. Splice(t, s, g, new) = Splice(t, i, j, y)
  BY <1>3
<1> QED BY <1>1, <1>4, PutLine

\* A change inside a line that leaves two.
LEMMA LineToPair ==
  ASSUME NEW t \in Seq(Char), NEW i, NEW j, IsLine(t, i, j), NEW b, NEW d, NEW s, NEW g,
         Within(i, j, b, d, s, g), NEW new \in Seq(Char),
         NEW y1 \in Seq(Char), Plain(y1), NEW y2 \in Seq(Char), Plain(y2),
         Splice(Slice(t, i, j), b, d, new) = Glue(y1, y2)
  PROVE  HasPair(Splice(t, s, g, new), i, i + Len(y1), i + Len(y1) + 1 + Len(y2),
                 Above(t, i), y1, y2, Below(t, j))
<1>1. IsBlock(t, i, j)
  BY LineOf
<1>2. j <= Len(t)
  BY <1>1 DEF IsBlock
<1>3. Splice(t, s, g, new) = Splice(t, i, j, Splice(Slice(t, i, j), b, d, new))
  BY <1>2, SpliceWithin
<1>4. Splice(t, s, g, new) = Splice(t, i, j, Glue(y1, y2))
  BY <1>3
<1> QED BY <1>1, <1>4, PutPair

\* A change across two lines that leaves one.
LEMMA PairToLine ==
  ASSUME NEW t \in Seq(Char), NEW i, NEW j, NEW k, IsLine(t, i, j), IsLine(t, j + 1, k),
         NEW b, NEW d, NEW s, NEW g, Within(i, k, b, d, s, g),
         NEW new \in Seq(Char), NEW y \in Seq(Char), Plain(y),
         Splice(Glue(Slice(t, i, j), Slice(t, j + 1, k)), b, d, new) = y
  PROVE  HasLine(Splice(t, s, g, new), i, i + Len(y), Above(t, i), y, Below(t, k))
<1>1. IsBlock(t, i, k)
  BY PairOf
<1>2. k <= Len(t)
  BY <1>1 DEF IsBlock
<1>3. Slice(t, i, k) = Glue(Slice(t, i, j), Slice(t, j + 1, k))
  BY PairOf
<1>4. Splice(t, s, g, new) = Splice(t, i, k, Splice(Slice(t, i, k), b, d, new))
  BY <1>2, SpliceWithin
<1>5. Splice(t, s, g, new) = Splice(t, i, k, y)
  BY <1>3, <1>4
<1> QED BY <1>1, <1>5, PutLine

\* The parts of two glued lines.
LEMMA GlueCuts ==
  ASSUME NEW a \in Seq(Char), NEW b \in Seq(Char)
  PROVE  /\ Glue(a, b) \in Seq(Char) /\ Len(Glue(a, b)) = Len(a) + 1 + Len(b)
         /\ Take(Glue(a, b), Len(a)) = a /\ Drop(Glue(a, b), Len(a) + 1) = b
<1> DEFINE nl == <<Newline>>
           f == a \o nl
<1>1. nl \in Seq(Char) /\ Len(nl) = 1
  BY DEF Char
<1>2. Glue(a, b) = f \o b /\ f \in Seq(Char) /\ Len(f) = Len(a) + 1
  BY <1>1, ConcatProperties DEF Glue
<1>3. Glue(a, b) = a \o (nl \o b) /\ nl \o b \in Seq(Char)
  BY <1>1, ConcatAssociative, ConcatProperties DEF Glue
<1> HIDE DEF f, nl
<1>4. Drop(f \o b, Len(f)) = b /\ Len(f \o b) = Len(f) + Len(b) /\ f \o b \in Seq(Char)
  BY <1>2, CutJoin, ConcatProperties
<1>5. Take(a \o (nl \o b), Len(a)) = a
  BY <1>3, CutJoin
<1> QED BY <1>2, <1>3, <1>4, <1>5

-----------------------------------------------------------------------------
(* Changing the list of lines. *)

\* Row r of the list l is m; rows r and f of it are m1 and m2.
IsRow(l, r, p, m, q) == l = (p \o <<m>>) \o q /\ r = Len(p) + 1
IsRows(l, r, f, p, m1, m2, q) == l = (p \o <<m1, m2>>) \o q /\ r = Len(p) + 1 /\ f = Len(p) + 2

\* The list l is p, m and q; changing its middle, or the beginning or the end of that.
Parts(l, p, m, q, a, e, new, k, b) ==
  /\ Splice(l, a, e, new) = (p \o new) \o q
  /\ Splice(l, a, b, new) = (p \o (new \o Drop(m, k))) \o q
  /\ Splice(l, b, e, new) = (p \o (Take(m, k) \o new)) \o q

\* Changing the middle of a list, or its beginning or end.
LEMMA SpliceParts ==
  ASSUME NEW S, NEW p, NEW m, NEW q, NEW l, NEW a, NEW e, IsList(S, l, p, m, q, a, e),
         NEW new \in Seq(S), NEW k, NEW b, Within(a, e, 0, k, a, b)
  PROVE  Parts(l, p, m, q, a, e, new, k, b)
<1> DEFINE n == Len(m)
<1>1. m \in Seq(S) /\ n \in Nat /\ e = a + n /\ a \in Nat
  BY DEF IsList
<1>2. k \in 0..n /\ Within(a, e, 0, n, a, e) /\ Within(a, e, k, n, b, e)
  BY <1>1 DEF Within
<1> HIDE DEF n
<1>3. /\ Splice(m, 0, n, new) = new /\ Splice(m, 0, k, new) = new \o Drop(m, k)
      /\ Splice(m, k, n, new) = Take(m, k) \o new
  BY ZenonT(30), <1>1, <1>2, SpliceEnds DEF n
<1>4. Splice(l, a, e, new) = (p \o Splice(m, 0, n, new)) \o q
  <2>1. Within(a, e, 0, n, a, e)
    BY <1>2
  <2> QED BY <2>1, SpliceMiddle
<1>5. Splice(l, a, b, new) = (p \o Splice(m, 0, k, new)) \o q
  BY SpliceMiddle
<1>6. Splice(l, b, e, new) = (p \o Splice(m, k, n, new)) \o q
  <2>1. Within(a, e, k, n, b, e)
    BY <1>2
  <2> QED BY <2>1, SpliceMiddle
<1> QED BY <1>3, <1>4, <1>5, <1>6 DEF Parts

\* Changing, preceding and following row r; taking out one row of two, or both.
RowParts(l, r, p, m, q, new) ==
  /\ Splice(l, r - 1, r, new) = (p \o new) \o q
  /\ Splice(l, r - 1, r - 1, new) = (p \o (new \o <<m>>)) \o q
  /\ Splice(l, r, r, new) = (p \o (<<m>> \o new)) \o q
  /\ l[r] = m /\ Len(l) = Len(p) + 1 + Len(q) /\ r \in Nat /\ r = Len(p) + 1
PairParts(l, r, f, p, m1, m2, q, new) ==
  /\ Splice(l, r - 1, f, new) = (p \o new) \o q
  /\ Splice(l, r - 1, r, <<>>) = (p \o <<m2>>) \o q
  /\ Splice(l, r, f, <<>>) = (p \o <<m1>>) \o q
  /\ l[r] = m1 /\ l[f] = m2 /\ Len(l) = Len(p) + 2 + Len(q)
  /\ Len(p) \in Nat /\ Len(q) \in Nat
  /\ r \in Nat /\ f \in Nat /\ r = Len(p) + 1 /\ f = Len(p) + 2

\* Splices of a list around one of its rows.
LEMMA ListLine ==
  ASSUME NEW S, NEW p \in Seq(S), NEW m \in S, NEW q \in Seq(S), NEW new \in Seq(S), NEW l, NEW r,
         IsRow(l, r, p, m, q)
  PROVE  RowParts(l, r, p, m, q, new)
<1> DEFINE one == <<m>>
           a == Len(p)
           b == r - 1
<1>1. one \in Seq(S) /\ Len(one) = 1 /\ one[1] = m /\ a \in Nat
  OBVIOUS
<1>0. r \in Nat /\ r = a + 1 /\ b = a
  BY <1>1 DEF IsRow
<1>2. IsList(S, l, p, one, q, a, r)
  BY <1>1 DEF IsList, IsRow
<1>3. Within(a, r, 0, 0, a, a) /\ Within(a, r, 0, 1, a, r)
  BY <1>0, <1>1 DEF Within
<1> HIDE DEF one, a, b
<1>4. Drop(one, 0) = one /\ Take(one, 1) = one
  BY <1>1, CutEnds
<1>5. Parts(l, p, one, q, a, r, new, 0, a)
  <2>1. Within(a, r, 0, 0, a, a)
    BY <1>3
  <2> QED BY <1>2, <2>1, SpliceParts
<1>6. Parts(l, p, one, q, a, r, new, 1, r)
  <2>1. Within(a, r, 0, 1, a, r)
    BY <1>3
  <2> QED BY <1>2, <2>1, SpliceParts
<1>7. /\ Splice(l, b, r, new) = (p \o new) \o q
      /\ Splice(l, b, b, new) = (p \o (new \o one)) \o q
      /\ Splice(l, r, r, new) = (p \o (one \o new)) \o q
  BY <1>0, <1>4, <1>5, <1>6 DEF Parts
<1>8. l[r] = m
  <2>1. 1 \in 1..Len(one) /\ a + 1 = r
    BY <1>0, <1>1
  <2>2. l[a + 1] = one[1]
    BY <1>2, <2>1, MiddleItem
  <2> QED BY <1>1, <2>1, <2>2
<1>9. Len(l) = r + Len(q)
  BY <1>2, Middle
<1> QED BY <1>0, <1>7, <1>8, <1>9 DEF one, b, a, RowParts

\* Splices of a list around two of its rows.
LEMMA ListPair ==
  ASSUME NEW S, NEW p \in Seq(S), NEW m1 \in S, NEW m2 \in S, NEW q \in Seq(S), NEW new \in Seq(S),
         NEW l, NEW r, NEW f, IsRows(l, r, f, p, m1, m2, q)
  PROVE  PairParts(l, r, f, p, m1, m2, q, new)
<1> DEFINE x == <<m1>>
           y == <<m2>>
           two == <<m1, m2>>
           none == <<>>
           a == Len(p)
           b == r - 1
<1>1. /\ x \in Seq(S) /\ y \in Seq(S) /\ two = x \o y /\ two \in Seq(S) /\ Len(two) = 2
      /\ two[1] = m1 /\ two[2] = m2 /\ a \in Nat /\ Len(x) = 1
  <2>1. two = x \o y /\ two \in Seq(S)
    BY TwoItems
  <2>2. Len(two) = 2 /\ two[1] = m1 /\ two[2] = m2
    OBVIOUS
  <2> QED BY <2>1, <2>2
<1>0. r \in Nat /\ f \in Nat /\ a + 1 = r /\ a + 2 = f /\ b = a
  BY <1>1 DEF IsRows
<1>2. IsList(S, l, p, two, q, a, f)
  BY <1>1 DEF IsList, IsRows
<1>3. Within(a, f, 0, 1, a, r)
  BY <1>0, <1>1 DEF Within
<1>4. none \in Seq(S) /\ none \o y = y /\ x \o none = x
  BY <1>1
<1> HIDE DEF x, y, two, a, b, none
<1>11. Take(two, 1) = x /\ Drop(two, 1) = y
  <2>1. Take(x \o y, Len(x)) = x /\ Drop(x \o y, Len(x)) = y
    BY <1>1, CutJoin
  <2> QED BY <1>1, <2>1
<1>6. Parts(l, p, two, q, a, f, new, 1, r)
  BY <1>2, <1>3, SpliceParts
<1>7. Parts(l, p, two, q, a, f, none, 1, r)
  <2>1. none \in Seq(S)
    BY <1>4
  <2> QED BY <2>1, <1>2, <1>3, SpliceParts
<1>9. l[r] = m1 /\ l[f] = m2
  <2>1. 1 \in 1..Len(two) /\ 2 \in 1..Len(two)
    BY <1>1
  <2>2. l[a + 1] = two[1] /\ l[a + 2] = two[2]
    BY <1>2, <2>1, MiddleItem
  <2> QED BY <1>0, <1>1, <2>2
<1>10. Len(l) = f + Len(q)
  BY <1>2, Middle
<1>12. /\ Splice(l, b, r, none) = (p \o y) \o q
       /\ Splice(l, r, f, none) = (p \o x) \o q
       /\ Splice(l, b, f, new) = (p \o new) \o q
  BY <1>0, <1>4, <1>6, <1>7, <1>11 DEF Parts
<1>13. Len(q) \in Nat
  OBVIOUS
<1> QED BY <1>0, <1>1, <1>9, <1>10, <1>12, <1>13 DEF x, y, b, a, none, PairParts

-----------------------------------------------------------------------------
(* The word next to the caret. *)

\* The word before the caret is the nearest one, if there is one.
LEMMA WordBeforeNearest ==
  ASSUME NEW t \in Seq(Char), NEW c \in 0..Len(t), op[2] = "previous"
  PROVE  /\ WordBefore(t, c) = None => /\ \A i, j \in 0..Len(t) : ~Nearest(t, c, i, j)
                                       /\ \A i \in 1..c : t[i] \notin WordChar
         /\ WordBefore(t, c) # None =>
              \E i, j \in 0..Len(t) : WordBefore(t, c) = <<i, j>> /\ Nearest(t, c, i, j)
<1> DEFINE words == {i \in 1..c : t[i] \in WordChar}
           last == Largest(words)
           starts == {i \in 0..last - 1 : i = 0 \/ t[i] \notin WordChar}
           first == Largest(starts)
<1>1. c \in Nat /\ Len(t) \in Nat /\ c <= Len(t)
  OBVIOUS
<1>2. CASE words = {}
  <2>1. WordBefore(t, c) = None
    BY <1>2 DEF WordBefore
  <2>2. ASSUME NEW i \in 0..Len(t), NEW j \in 0..Len(t), Nearest(t, c, i, j) PROVE FALSE
    <3>1. i < j /\ j <= c /\ \A k \in i + 1..j : t[k] \in WordChar
      BY <2>2 DEF Nearest
    <3>2. j \in i + 1..j /\ j \in 1..c
      BY <1>1, <3>1
    <3> QED BY <1>2, <3>1, <3>2
  <2>3. \A i \in 1..c : t[i] \notin WordChar
    BY <1>2
  <2> QED BY <2>1, <2>2, <2>3
<1>3. CASE words # {}
  <2>1. WordBefore(t, c) = <<first, last>>
    BY <1>3 DEF WordBefore
  <2>2. last \in words /\ \A y \in words : y <= last
    <3>1. words \in SUBSET (0..c)
      BY <1>1
    <3> QED BY <1>1, <1>3, <3>1, LargestIsOne
  <2> HIDE DEF last
  <2>3. last \in 1..c /\ t[last] \in WordChar /\ last - 1 \in Nat /\ last \in Nat
    BY <2>2
  <2>4. first \in starts /\ \A y \in starts : y <= first
    <3>1. starts \in SUBSET (0..last - 1) /\ 0 \in starts
      BY <2>3
    <3> QED BY <2>3, <3>1, LargestIsOne
  <2> HIDE DEF first
  <2>5. first \in 0..last - 1 /\ (first = 0 \/ t[first] \notin WordChar) /\ first \in Nat
    BY <2>3, <2>4
  <2>6. ASSUME NEW k \in first + 1..last PROVE t[k] \in WordChar
    <3>1. CASE k = last
      BY <2>3, <3>1
    <3>2. CASE k # last
      <4>1. k \in 0..last - 1 /\ k > first /\ k \in Nat
        BY <2>3, <2>5, <3>2
      <4>2. k \notin starts
        BY <2>4, <2>5, <4>1
      <4> QED BY <4>1, <4>2
    <3> QED BY <3>1, <3>2
  <2>7. ASSUME NEW k \in last + 1..c PROVE t[k] \notin WordChar
    <3>1. k \in 1..c /\ ~(k <= last)
      BY <1>1, <2>3
    <3> QED BY <2>2, <3>1
  <2>8. Nearest(t, c, first, last)
    <3>1. first < last /\ last <= c
      BY <1>1, <2>3, <2>5
    <3>2. first \in 1..Len(t) => t[first] \notin WordChar
      BY <2>5
    <3> QED BY <2>6, <2>7, <3>1, <3>2 DEF Nearest
  <2>9. first \in 0..Len(t) /\ last \in 0..Len(t)
    BY <1>1, <2>3, <2>5
  <2>10. WordBefore(t, c) # None
    <3>1. <<first, last>> \in Nat \X Nat
      BY <2>3, <2>5
    <3> QED BY <2>1, <3>1, FieldAssumption
  <2> QED BY <2>1, <2>8, <2>9, <2>10
<1> QED BY <1>2, <1>3

\* So is the word after it.
LEMMA WordAfterNearest ==
  ASSUME NEW t \in Seq(Char), NEW c \in 0..Len(t), op[2] # "previous"
  PROVE  LET w == WordAfter(t, c, Len(t))
         IN /\ w = None => \A i, j \in 0..Len(t) : ~Nearest(t, c, i, j)
            /\ w # None => \E i, j \in 0..Len(t) : w = <<i, j>> /\ Nearest(t, c, i, j)
<1> DEFINE n == Len(t)
           known == AtMost(n, n)
           words == {i \in c + 1..known : t[i] \in WordChar}
           first == Smallest(words)
           ends == {i \in first..known : i = n \/ (i < known /\ t[i + 1] \notin WordChar)}
           last == Smallest(ends)
           w == WordAfter(t, c, n)
<1>1. c \in Nat /\ n \in Nat /\ c <= n /\ known = n
  BY DEF AtMost
<1>2. CASE words = {}
  <2>1. w = None
    BY <1>1, <1>2 DEF WordAfter
  <2>2. ASSUME NEW i \in 0..n, NEW j \in 0..n, Nearest(t, c, i, j) PROVE FALSE
    <3>1. i < j /\ c <= i /\ \A k \in i + 1..j : t[k] \in WordChar
      BY <2>2 DEF Nearest
    <3>2. j \in i + 1..j /\ j \in c + 1..known
      BY <1>1, <3>1
    <3> QED BY <1>2, <3>1, <3>2
  <2> QED BY <2>1, <2>2
<1>3. CASE words # {}
  <2>1. first \in words /\ \A y \in words : first <= y
    <3>1. words \in SUBSET Nat
      BY <1>1
    <3> QED BY <1>3, <3>1, SmallestIsOne
  <2>0. w = IF ends = {} THEN Unreadable ELSE <<first - 1, last>>
    BY <1>3 DEF WordAfter
  <2> HIDE DEF first
  <2>3. /\ first \in c + 1..n /\ t[first] \in WordChar /\ first - 1 \in Nat /\ first \in Nat
        /\ first <= n
    BY <1>1, <2>1
  <2>4. n \in ends
    BY <1>1, <2>3
  <2>5. last \in ends /\ \A y \in ends : last <= y
    <3>1. ends \in SUBSET Nat
      BY <1>1, <2>3
    <3> QED BY <2>4, <3>1, SmallestIsOne
  <2>6. w = <<first - 1, last>>
    BY <2>0, <2>4
  <2> HIDE DEF last, w
  <2>7. last \in first..n /\ (last = n \/ t[last + 1] \notin WordChar) /\ last \in Nat
    BY <1>1, <2>3, <2>5
  <2>8. ASSUME NEW k \in first - 1 + 1..last PROVE t[k] \in WordChar
    <3>1. CASE k = first
      BY <2>3, <3>1
    <3>2. CASE k # first
      <4>1. k - 1 \in first..known /\ k - 1 < last /\ k - 1 \in Nat /\ k - 1 + 1 = k
            /\ k - 1 < known
        BY <1>1, <2>3, <2>7, <3>2
      <4>2. k - 1 \notin ends
        BY <2>5, <2>7, <4>1
      <4> QED BY <4>1, <4>2
    <3> QED BY <3>1, <3>2
  <2>9. ASSUME NEW k \in c + 1..first - 1 PROVE t[k] \notin WordChar
    <3>1. k \in c + 1..known /\ ~(first <= k)
      BY <1>1, <2>3
    <3> QED BY <2>1, <3>1
  <2>10. Nearest(t, c, first - 1, last)
    <3>1. first - 1 < last /\ c <= first - 1
      BY <1>1, <2>3, <2>7
    <3>2. last + 1 \in 1..Len(t) => t[last + 1] \notin WordChar
      BY <1>1, <2>7
    <3> QED BY <2>8, <2>9, <3>1, <3>2 DEF Nearest
  <2>11. first - 1 \in 0..n /\ last \in 0..n
    BY <1>1, <2>3, <2>7
  <2>12. w # None
    <3>1. <<first - 1, last>> \in Nat \X Nat
      BY <2>3, <2>7
    <3> QED BY <2>6, <3>1, FieldAssumption
  <2>13. \E i, j \in 0..n : w = <<i, j>> /\ Nearest(t, c, i, j)
    BY <2>6, <2>10, <2>11
  <2> QED BY <2>12, <2>13 DEF w
<1> QED BY <1>2, <1>3
=============================================================================

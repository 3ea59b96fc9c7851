--------------------------- MODULE SeqFilterProofs ---------------------------
(***************************************************************************)
(* Induction over numbers and over sequences, stated for sets, and what    *)
(* Filter does with a sequence of any length.                              *)
(***************************************************************************)
EXTENDS SeqFilter, SequenceTheorems, WellFoundedInduction, TLAPS

(* A set that holds 0 and the successor of each number in it holds them all: *)
(* the least number outside it would have a predecessor inside.            *)
LEMMA NumberInduction ==
  ASSUME NEW P, 0 \in P, \A n \in Nat : n \in P => n + 1 \in P
  PROVE  Nat \subseteq P
  <1> SUFFICES ASSUME NEW m \in Nat, m \notin P PROVE FALSE
    OBVIOUS
  <1> DEFINE R == OpToRel(<, Nat)
             T == Nat \ P
  <1>1. PICK x \in T : \A y \in T : ~ (<<y, x>> \in R)
    <2>1. IsWellFoundedOn(R, Nat)
      BY NatLessThanWellFounded
    <2>2. T \subseteq Nat /\ T # {}
      OBVIOUS
    <2> HIDE DEF R, T
    <2> QED
      BY <2>1, <2>2, WFMin
  <1>2. x # 0 /\ x - 1 \in T
    OBVIOUS
  <1>3. <<x - 1, x>> \in R
    BY <1>2 DEF OpToRel
  <1> QED
    BY <1>1, <1>2, <1>3

(* A set of sequences that holds the empty one and is closed under Append. *)
LEMMA SequenceInduction ==
  ASSUME NEW S, NEW P, <<>> \in P, \A s \in Seq(S), e \in S : s \in P => Append(s, e) \in P
  PROVE  Seq(S) \subseteq P
  <1> SUFFICES ASSUME NEW s \in Seq(S) PROVE s \in P
    OBVIOUS
  <1> DEFINE T == { n \in Nat : n <= Len(s) => SubSeq(s, 1, n) \in P }
  <1>0. Len(s) \in Nat /\ \A i \in 1 .. Len(s) : s[i] \in S
    BY ElementOfSeq, LenProperties
  <1>1. 0 \in T
    <2>1. SubSeq(s, 1, 0) = <<>>
      BY SubSeqEmpty
    <2> QED
      BY <2>1
  <1>2. ASSUME NEW n \in Nat, n \in T PROVE n + 1 \in T
    <2> SUFFICES ASSUME n + 1 <= Len(s) PROVE SubSeq(s, 1, n + 1) \in P
      OBVIOUS
    <2>1. SubSeq(s, 1, n) \in P
      BY <1>0, <1>2
    <2>2. SubSeq(s, 1, n) \in Seq(S) /\ s[n + 1] \in S
      BY <1>0, SubSeqProperties
    <2>3. SubSeq(s, 1, n + 1) = Append(SubSeq(s, 1, n), s[n + 1])
      BY <1>0, SubSeqRecursiveSecond
    <2> QED
      BY <2>1, <2>2, <2>3
  <1>3. Len(s) \in T
    <2> HIDE DEF T
    <2> QED
      BY <1>0, <1>1, <1>2, NumberInduction
  <1>4. SubSeq(s, 1, Len(s)) = s
    BY SubSeqFull
  <1>5. Len(s) <= Len(s) => SubSeq(s, 1, Len(s)) \in P
    BY <1>3, Zenon
  <1>6. SubSeq(s, 1, Len(s)) \in P
    <2>1. Len(s) <= Len(s)
      BY <1>0
    <2> QED
      BY <1>5, <2>1
  <1> QED
    BY <1>4, <1>6, Zenon

-----------------------------------------------------------------------------

(* What a function that filters the beginnings of s is.                    *)
Filters(f, s, keep, n) ==
  f = [i \in 0 .. n |-> IF i = 0 THEN <<>>
                        ELSE IF s[i] \in keep THEN Append(f[i - 1], s[i]) ELSE f[i - 1]]

LEMMA FiltersStep ==
  ASSUME NEW f, NEW s, NEW keep, NEW n \in Nat, Filters(f, s, keep, n), NEW i \in 1 .. n
  PROVE  f[i] = IF s[i] \in keep THEN Append(f[i - 1], s[i]) ELSE f[i - 1]
  <1>1. i \in 0 .. n /\ i # 0
    OBVIOUS
  <1>2. f = [j \in 0 .. n |-> IF j = 0 THEN <<>>
                              ELSE IF s[j] \in keep THEN Append(f[j - 1], s[j]) ELSE f[j - 1]]
    BY DEF Filters
  <1> QED
    BY <1>1, <1>2, Zenon

(* There is one for every length, so the recursion defines something.      *)
LEMMA FiltersExists ==
  ASSUME NEW s, NEW keep, NEW n \in Nat
  PROVE  \E f : Filters(f, s, keep, n)
  <1> DEFINE T == { m \in Nat : \E f : Filters(f, s, keep, m) }
  <1>1. 0 \in T
    <2>1. Filters([i \in 0 .. 0 |-> <<>>], s, keep, 0)
      BY DEF Filters
    <2> QED
      BY <2>1
  <1>2. ASSUME NEW m \in Nat, m \in T PROVE m + 1 \in T
    <2>1. PICK f : Filters(f, s, keep, m)
      BY <1>2
    <2>2. PICK g : g = [i \in 0 .. m + 1 |-> IF i <= m THEN f[i]
                          ELSE IF s[i] \in keep THEN Append(f[i - 1], s[i]) ELSE f[i - 1]]
      OBVIOUS
    <2>3. DOMAIN g = 0 .. m + 1 /\ g = [i \in 0 .. m + 1 |-> g[i]]
      BY <2>2
    <2>4. ASSUME NEW i \in 0 .. m + 1
          PROVE  g[i] = IF i = 0 THEN <<>>
                        ELSE IF s[i] \in keep THEN Append(g[i - 1], s[i]) ELSE g[i - 1]
      <3>1. CASE i = 0
        BY <2>1, <2>2, <3>1 DEF Filters
      <3>2. CASE i # 0 /\ i <= m
        <4>1. g[i] = f[i] /\ g[i - 1] = f[i - 1]
          BY <2>2, <3>2
        <4>2. f[i] = IF s[i] \in keep THEN Append(f[i - 1], s[i]) ELSE f[i - 1]
          BY <2>1, <3>2, FiltersStep
        <4> QED
          BY <3>2, <4>1, <4>2
      <3>3. CASE i = m + 1
        <4>1. g[i - 1] = f[i - 1]
          BY <2>2, <3>3
        <4> QED
          BY <2>2, <3>3, <4>1
      <3> QED
        BY <3>1, <3>2, <3>3
    <2>5. Filters(g, s, keep, m + 1)
      BY <2>3, <2>4 DEF Filters
    <2> QED
      BY <2>5
  <1> HIDE DEF T
  <1>3. n \in T
    BY <1>1, <1>2, NumberInduction
  <1> QED
    BY <1>3 DEF T

LEMMA FilterIs ==
  ASSUME NEW s, NEW keep, Len(s) \in Nat
  PROVE  \E f : Filters(f, s, keep, Len(s)) /\ Filter(s, keep) = f[Len(s)]
  <1> DEFINE f == CHOOSE f : Filters(f, s, keep, Len(s))
  <1>1. Filters(f, s, keep, Len(s))
    BY FiltersExists
  <1>2. Filter(s, keep) = f[Len(s)]
    BY DEF Filter, Filters
  <1> QED
    BY <1>1, <1>2

LEMMA FilterEmpty ==
  ASSUME NEW keep
  PROVE  Filter(<<>>, keep) = <<>>
  <1>1. Len(<<>>) = 0
    BY EmptySeq
  <1>2. PICK f : Filters(f, <<>>, keep, 0) /\ Filter(<<>>, keep) = f[0]
    BY <1>1, FilterIs
  <1> QED
    BY <1>2 DEF Filters

(* The filters of two sequences agree as far as the sequences do.          *)
LEMMA FiltersAgree ==
  ASSUME NEW s, NEW t, NEW keep, NEW m \in Nat, NEW n \in Nat, NEW f, NEW g, m <= n,
         Filters(f, s, keep, m), Filters(g, t, keep, n), \A i \in 1 .. m : s[i] = t[i]
  PROVE  f[m] = g[m]
  <1> DEFINE T == { k \in Nat : k <= m => f[k] = g[k] }
  <1>1. 0 \in T
    BY DEF Filters
  <1>2. ASSUME NEW k \in Nat, k \in T PROVE k + 1 \in T
    <2> SUFFICES ASSUME k + 1 <= m PROVE f[k + 1] = g[k + 1]
      OBVIOUS
    <2>1. f[k] = g[k] /\ s[k + 1] = t[k + 1]
      BY <1>2
    <2>2. k + 1 \in 1 .. m /\ k + 1 \in 1 .. n /\ k + 1 - 1 = k
      OBVIOUS
    <2>3. f[k + 1] = IF s[k + 1] \in keep THEN Append(f[k], s[k + 1]) ELSE f[k]
      BY <2>2, FiltersStep
    <2>4. g[k + 1] = IF t[k + 1] \in keep THEN Append(g[k], t[k + 1]) ELSE g[k]
      BY <2>2, FiltersStep
    <2> QED
      BY <2>1, <2>3, <2>4
  <1>3. m \in T
    <2> HIDE DEF T
    <2> QED
      BY <1>1, <1>2, NumberInduction
  <1> QED
    BY <1>3

LEMMA FilterAppend ==
  ASSUME NEW S, NEW s \in Seq(S), NEW e \in S, NEW keep
  PROVE  Filter(Append(s, e), keep) = IF e \in keep THEN Append(Filter(s, keep), e) ELSE Filter(s, keep)
  <1>1. PICK t : t = Append(s, e)
    OBVIOUS
  <1>2. /\ Len(s) \in Nat /\ Len(t) = Len(s) + 1
        /\ t[Len(s) + 1] = e /\ \A i \in 1 .. Len(s) : s[i] = t[i]
    BY <1>1, AppendProperties, LenProperties
  <1>3. PICK f : Filters(f, s, keep, Len(s)) /\ Filter(s, keep) = f[Len(s)]
    BY <1>2, FilterIs
  <1>4. PICK g : Filters(g, t, keep, Len(s) + 1) /\ Filter(t, keep) = g[Len(s) + 1]
    BY <1>2, FilterIs
  <1>5. f[Len(s)] = g[Len(s)]
    BY <1>2, <1>3, <1>4, FiltersAgree
  <1>6. g[Len(s) + 1] = IF e \in keep THEN Append(g[Len(s)], e) ELSE g[Len(s)]
    <2>1. Len(s) + 1 \in 1 .. Len(s) + 1 /\ Len(s) + 1 - 1 = Len(s) /\ Len(s) + 1 \in Nat
      BY <1>2
    <2> QED
      BY <1>2, <1>4, <2>1, FiltersStep
  <1> QED
    BY <1>1, <1>3, <1>4, <1>5, <1>6

LEMMA FilterType ==
  ASSUME NEW S, NEW s \in Seq(S), NEW keep
  PROVE  /\ Filter(s, keep) \in Seq(S)
         /\ \A j \in 1 .. Len(Filter(s, keep)) : Filter(s, keep)[j] \in keep
         /\ \A j \in 1 .. Len(Filter(s, keep)) : \E i \in 1 .. Len(s) : Filter(s, keep)[j] = s[i]
  <1> DEFINE Good(t) ==
        /\ Filter(t, keep) \in Seq(S)
        /\ \A j \in 1 .. Len(Filter(t, keep)) : Filter(t, keep)[j] \in keep
        /\ \A j \in 1 .. Len(Filter(t, keep)) : \E i \in 1 .. Len(t) : Filter(t, keep)[j] = t[i]
      T == { t \in Seq(S) : Good(t) }
  <1>1. <<>> \in T
    <2>1. Filter(<<>>, keep) = <<>> /\ Len(<<>>) = 0 /\ <<>> \in Seq(S)
      BY FilterEmpty, EmptySeq
    <2>2. Good(<<>>)
      <3>1. PICK empty : empty = <<>>
        OBVIOUS
      <3>2. Filter(empty, keep) = empty /\ Len(empty) = 0 /\ empty \in Seq(S)
        BY <2>1, <3>1, Zenon
      <3>3. Good(empty)
        BY <3>2
      <3> QED
        BY <3>1, <3>3
    <2> QED
      BY <2>1, <2>2, Zenon
  <1>2. ASSUME NEW t \in Seq(S), NEW e \in S, t \in T PROVE Append(t, e) \in T
    <2>1. PICK u, f, g : u = Append(t, e) /\ f = Filter(t, keep) /\ g = Filter(u, keep)
      OBVIOUS
    <2>2. g = IF e \in keep THEN Append(f, e) ELSE f
      BY <2>1, FilterAppend
    <2>3. /\ u \in Seq(S) /\ Len(u) = Len(t) + 1 /\ Len(t) \in Nat
          /\ u[Len(t) + 1] = e /\ \A i \in 1 .. Len(t) : u[i] = t[i]
      BY <2>1, AppendProperties, LenProperties
    <2>4. /\ f \in Seq(S) /\ \A j \in 1 .. Len(f) : f[j] \in keep
          /\ \A j \in 1 .. Len(f) : \E i \in 1 .. Len(t) : f[j] = t[i]
      BY <1>2, <2>1
    <2>5. \A j \in 1 .. Len(f) : \E i \in 1 .. Len(u) : f[j] = u[i]
      <3> SUFFICES ASSUME NEW j \in 1 .. Len(f) PROVE \E i \in 1 .. Len(u) : f[j] = u[i]
        OBVIOUS
      <3>1. PICK i \in 1 .. Len(t) : f[j] = t[i]
        BY <2>4
      <3> QED
        BY <2>3, <3>1
    <2>6. CASE e \notin keep
      <3>1. Filter(u, keep) = f
        BY <2>1, <2>2, <2>6
      <3>2. Good(u)
        BY <2>4, <2>5, <3>1
      <3> QED
        BY <2>1, <2>3, <3>2, Zenon
    <2>7. CASE e \in keep
      <3>1. g = Append(f, e)
        BY <2>2, <2>7
      <3>2. /\ g \in Seq(S) /\ Len(g) = Len(f) + 1 /\ Len(f) \in Nat
            /\ g[Len(f) + 1] = e /\ \A j \in 1 .. Len(f) : g[j] = f[j]
        BY <2>4, <3>1, AppendProperties, LenProperties
      <3>3. ASSUME NEW j \in 1 .. Len(g) PROVE g[j] \in keep /\ \E i \in 1 .. Len(u) : g[j] = u[i]
        <4>1. CASE j = Len(f) + 1
          BY <2>3, <2>7, <3>2, <4>1
        <4>2. CASE j \in 1 .. Len(f)
          BY <2>4, <2>5, <3>2, <4>2
        <4> QED
          BY <3>2, <4>1, <4>2
      <3> QED
        BY <2>1, <2>3, <3>2, <3>3
    <2> QED
      BY <2>6, <2>7
  <1>3. s \in T
    <2> HIDE DEF T
    <2>1. \A t \in Seq(S), e \in S : t \in T => Append(t, e) \in T
      BY <1>2
    <2>2. Seq(S) \subseteq T
      BY <1>1, <2>1, SequenceInduction
    <2> QED
      BY <2>2
  <1> QED
    BY <1>3

(* Only which of the elements are kept counts.                             *)
LEMMA FilterSame ==
  ASSUME NEW s, NEW keep, NEW other, Len(s) \in Nat,
         \A i \in 1 .. Len(s) : s[i] \in keep <=> s[i] \in other
  PROVE  Filter(s, keep) = Filter(s, other)
  <1>1. PICK f : Filters(f, s, keep, Len(s)) /\ Filter(s, keep) = f[Len(s)]
    BY FilterIs
  <1>2. PICK g : Filters(g, s, other, Len(s)) /\ Filter(s, other) = g[Len(s)]
    BY FilterIs
  <1> DEFINE T == { k \in Nat : k <= Len(s) => f[k] = g[k] }
  <1>3. 0 \in T
    BY <1>1, <1>2 DEF Filters
  <1>4. ASSUME NEW k \in Nat, k \in T PROVE k + 1 \in T
    <2> SUFFICES ASSUME k + 1 <= Len(s) PROVE f[k + 1] = g[k + 1]
      OBVIOUS
    <2>1. f[k] = g[k]
      BY <1>4
    <2>2. k + 1 \in 1 .. Len(s) /\ k + 1 - 1 = k
      OBVIOUS
    <2>3. f[k + 1] = IF s[k + 1] \in keep THEN Append(f[k], s[k + 1]) ELSE f[k]
      BY <1>1, <2>2, FiltersStep
    <2>4. g[k + 1] = IF s[k + 1] \in other THEN Append(g[k], s[k + 1]) ELSE g[k]
      BY <1>2, <2>2, FiltersStep
    <2> QED
      BY <2>1, <2>2, <2>3, <2>4
  <1>5. Len(s) \in T
    <2> HIDE DEF T
    <2> QED
      BY <1>3, <1>4, NumberInduction
  <1> QED
    BY <1>1, <1>2, <1>5

AppendsLast(s, t, e) == Append(s \o t, e) = s \o Append(t, e)

LEMMA ConcatAppends ==
  ASSUME NEW S, NEW s \in Seq(S), NEW t \in Seq(S), NEW e \in S
  PROVE  AppendsLast(s, t, e)
  BY DEF AppendsLast

LEMMA FilterConcat ==
  ASSUME NEW S, NEW s \in Seq(S), NEW t \in Seq(S), NEW keep
  PROVE  Filter(s \o t, keep) = Filter(s, keep) \o Filter(t, keep)
  <1> DEFINE T == { u \in Seq(S) : Filter(s \o u, keep) = Filter(s, keep) \o Filter(u, keep) }
  <1>0. Filter(s, keep) \in Seq(S)
    BY FilterType
  <1>1. <<>> \in T
    <2>1. s \o <<>> = s /\ <<>> \in Seq(S) /\ Filter(s, keep) \o <<>> = Filter(s, keep)
      BY <1>0, ConcatEmptySeq, EmptySeq
    <2>2. Filter(<<>>, keep) = <<>>
      BY FilterEmpty
    <2>3. Filter(s \o <<>>, keep) = Filter(s, keep) \o Filter(<<>>, keep)
      BY <2>1, <2>2, Zenon
    <2> QED
      BY <2>1, <2>3, Zenon
  <1>2. ASSUME NEW u \in Seq(S), NEW e \in S, u \in T PROVE Append(u, e) \in T
    <2>1. PICK v, w, f, g : v = Append(u, e) /\ w = s \o u /\ f = Filter(u, keep) /\ g = Filter(s, keep)
      OBVIOUS
    <2>2. v \in Seq(S) /\ w \in Seq(S) /\ f \in Seq(S) /\ g \in Seq(S)
      BY <1>0, <2>1, AppendProperties, ConcatProperties, FilterType
    <2>3. s \o v = Append(w, e)
      <3>1. AppendsLast(s, u, e)
        BY ConcatAppends
      <3> QED
        BY <2>1, <3>1, Zenon DEF AppendsLast
    <2>4. Filter(w, keep) = g \o f
      BY <1>2, <2>1
    <2>5. Filter(s \o v, keep) = IF e \in keep THEN Append(g \o f, e) ELSE g \o f
      <3>1. Filter(Append(w, e), keep) = IF e \in keep THEN Append(Filter(w, keep), e) ELSE Filter(w, keep)
        BY <2>2, FilterAppend, Zenon
      <3> QED
        BY <2>3, <2>4, <3>1, Zenon
    <2>6. Filter(v, keep) = IF e \in keep THEN Append(f, e) ELSE f
      BY <2>1, FilterAppend
    <2>7. Append(g \o f, e) = g \o Append(f, e)
      <3>1. AppendsLast(g, f, e)
        BY <2>2, ConcatAppends
      <3> QED
        BY <3>1, Zenon DEF AppendsLast
    <2>8. Filter(s \o v, keep) = g \o Filter(v, keep)
      BY <2>5, <2>6, <2>7
    <2> QED
      BY <2>1, <2>2, <2>8
  <1>3. t \in T
    <2> HIDE DEF T
    <2>1. \A u \in Seq(S), e \in S : u \in T => Append(u, e) \in T
      BY <1>2
    <2>2. Seq(S) \subseteq T
      BY <1>1, <2>1, SequenceInduction
    <2> QED
      BY <2>2
  <1> QED
    BY <1>3

(* Nothing that is kept is lost.                                           *)
LEMMA FilterHolds ==
  ASSUME NEW S, NEW s \in Seq(S), NEW keep
  PROVE  \A i \in 1 .. Len(s) : s[i] \in keep =>
           \E j \in 1 .. Len(Filter(s, keep)) : Filter(s, keep)[j] = s[i]
  <1> DEFINE Good(t) == \A i \in 1 .. Len(t) : t[i] \in keep =>
                          \E j \in 1 .. Len(Filter(t, keep)) : Filter(t, keep)[j] = t[i]
             T == { t \in Seq(S) : Good(t) }
  <1>1. <<>> \in T
    <2>1. PICK empty : empty = <<>>
      OBVIOUS
    <2>2. empty \in Seq(S) /\ Len(empty) = 0
      BY <2>1, EmptySeq
    <2> QED
      BY <2>1, <2>2
  <1>2. ASSUME NEW t \in Seq(S), NEW e \in S, t \in T PROVE Append(t, e) \in T
    <2>1. PICK u, f, g : u = Append(t, e) /\ f = Filter(t, keep) /\ g = Filter(u, keep)
      OBVIOUS
    <2>2. g = IF e \in keep THEN Append(f, e) ELSE f
      BY <2>1, FilterAppend
    <2>3. /\ u \in Seq(S) /\ Len(u) = Len(t) + 1 /\ Len(t) \in Nat
          /\ u[Len(t) + 1] = e /\ \A i \in 1 .. Len(t) : u[i] = t[i]
      BY <2>1, AppendProperties, LenProperties
    <2>4. f \in Seq(S) /\ \A i \in 1 .. Len(t) : t[i] \in keep => \E j \in 1 .. Len(f) : f[j] = t[i]
      BY <1>2, <2>1, FilterType
    <2>5. /\ Len(f) \in Nat /\ Len(g) >= Len(f) /\ \A j \in 1 .. Len(f) : g[j] = f[j]
          /\ e \in keep => Len(g) = Len(f) + 1 /\ g[Len(f) + 1] = e
      <3>1. CASE e \in keep
        BY <2>2, <2>4, <3>1, AppendProperties, LenProperties
      <3>2. CASE e \notin keep
        BY <2>2, <2>4, <3>2, LenProperties
      <3> QED
        BY <3>1, <3>2
    <2>6. ASSUME NEW i \in 1 .. Len(u), u[i] \in keep PROVE \E j \in 1 .. Len(g) : g[j] = u[i]
      <3>1. CASE i = Len(t) + 1
        <4>1. Len(f) + 1 \in 1 .. Len(g) /\ g[Len(f) + 1] = u[i]
          BY <2>3, <2>5, <2>6, <3>1, LenProperties
        <4> QED
          BY <4>1
      <3>2. CASE i \in 1 .. Len(t)
        <4>1. PICK j \in 1 .. Len(f) : f[j] = t[i]
          BY <2>3, <2>4, <2>6, <3>2
        <4>2. j \in 1 .. Len(g) /\ g[j] = u[i]
          BY <2>2, <2>3, <2>5, <3>2, <4>1, LenProperties
        <4> QED
          BY <4>2
      <3> QED
        BY <2>3, <3>1, <3>2
    <2> QED
      BY <2>1, <2>3, <2>6
  <1>3. s \in T
    <2> HIDE DEF T
    <2>1. \A t \in Seq(S), e \in S : t \in T => Append(t, e) \in T
      BY <1>2
    <2>2. Seq(S) \subseteq T
      BY <1>1, <2>1, SequenceInduction
    <2> QED
      BY <2>2
  <1> QED
    BY <1>3

-----------------------------------------------------------------------------
(* How often an element is in a sequence.                                  *)

Times(s, e) == Len(Filter(s, {e}))

LEMMA TimesAppend ==
  ASSUME NEW S, NEW s \in Seq(S), NEW x \in S, NEW e
  PROVE  Times(Append(s, x), e) = IF x = e THEN Times(s, e) + 1 ELSE Times(s, e)
  <1>1. PICK f, g : f = Filter(s, {e}) /\ g = Filter(Append(s, x), {e})
    OBVIOUS
  <1>2. g = (IF x \in {e} THEN Append(f, x) ELSE f) /\ f \in Seq(S)
    <2>1. PICK keep : keep = {e}
      OBVIOUS
    <2>2. Filter(Append(s, x), keep) = IF x \in keep THEN Append(Filter(s, keep), x) ELSE Filter(s, keep)
      BY FilterAppend, Zenon
    <2>3. Filter(s, keep) \in Seq(S)
      BY FilterType, Zenon
    <2> QED
      BY <1>1, <2>1, <2>2, <2>3, Zenon
  <1>3. Len(g) = IF x = e THEN Len(f) + 1 ELSE Len(f)
    BY <1>2, AppendProperties
  <1> QED
    BY <1>1, <1>3 DEF Times

LEMMA TimesConcat ==
  ASSUME NEW S, NEW s \in Seq(S), NEW t \in Seq(S), NEW e
  PROVE  Times(s \o t, e) = Times(s, e) + Times(t, e)
  <1>1. PICK f, g, h : f = Filter(s, {e}) /\ g = Filter(t, {e}) /\ h = Filter(s \o t, {e})
    OBVIOUS
  <1>2. f \in Seq(S) /\ g \in Seq(S) /\ h = f \o g
    <2>1. f \in Seq(S) /\ g \in Seq(S)
      BY <1>1, FilterType
    <2>2. Filter(s \o t, {e}) = Filter(s, {e}) \o Filter(t, {e})
      BY FilterConcat
    <2>3. h = f \o g
      BY <1>1, <2>2, Zenon
    <2> QED
      BY <2>1, <2>3
  <1>3. Len(h) = Len(f) + Len(g)
    BY <1>2, ConcatProperties
  <1> QED
    BY <1>1, <1>3 DEF Times

LEMMA TimesEmpty ==
  ASSUME NEW e
  PROVE  Times(<<>>, e) = 0
  <1>1. Filter(<<>>, {e}) = <<>> /\ Len(<<>>) = 0
    BY FilterEmpty, EmptySeq
  <1> QED
    BY <1>1, Zenon DEF Times

(* It is not zero if it is in the sequence, two at two places, three at three.*)
LEMMA TimesCounts ==
  ASSUME NEW S, NEW s \in Seq(S), NEW e
  PROVE  /\ Times(s, e) \in Nat
         /\ Times(s, e) > 0 <=> \E i \in 1 .. Len(s) : s[i] = e
         /\ \A i, j \in 1 .. Len(s) : i < j /\ s[i] = e /\ s[j] = e => Times(s, e) >= 2
         /\ \A i, j, k \in 1 .. Len(s) :
              i < j /\ j < k /\ s[i] = e /\ s[j] = e /\ s[k] = e => Times(s, e) >= 3
  <1> DEFINE Good(t) ==
        /\ Times(t, e) \in Nat
        /\ Times(t, e) > 0 <=> \E i \in 1 .. Len(t) : t[i] = e
        /\ \A i, j \in 1 .. Len(t) : i < j /\ t[i] = e /\ t[j] = e => Times(t, e) >= 2
        /\ \A i, j, k \in 1 .. Len(t) :
             i < j /\ j < k /\ t[i] = e /\ t[j] = e /\ t[k] = e => Times(t, e) >= 3
      T == { t \in Seq(S) : Good(t) }
  <1>1. <<>> \in T
    <2>1. PICK empty : empty = <<>>
      OBVIOUS
    <2>2. empty \in Seq(S) /\ Len(empty) = 0 /\ Times(empty, e) = 0
      BY <2>1, EmptySeq, TimesEmpty
    <2> QED
      BY <2>1, <2>2
  <1>2. ASSUME NEW t \in Seq(S), NEW x \in S, t \in T PROVE Append(t, x) \in T
    <2>1. PICK u, m, n : u = Append(t, x) /\ m = Times(t, e) /\ n = Times(u, e)
      OBVIOUS
    <2>2. n = IF x = e THEN m + 1 ELSE m
      BY <2>1, TimesAppend
    <2>3. /\ u \in Seq(S) /\ Len(u) = Len(t) + 1 /\ Len(t) \in Nat
          /\ u[Len(t) + 1] = x /\ \A i \in 1 .. Len(t) : u[i] = t[i]
      BY <2>1, AppendProperties, LenProperties
    <2>4. /\ m \in Nat
          /\ m > 0 <=> \E i \in 1 .. Len(t) : t[i] = e
          /\ \A i, j \in 1 .. Len(t) : i < j /\ t[i] = e /\ t[j] = e => m >= 2
          /\ \A i, j, k \in 1 .. Len(t) :
               i < j /\ j < k /\ t[i] = e /\ t[j] = e /\ t[k] = e => m >= 3
      BY <1>2, <2>1
    <2>5. n \in Nat /\ (n > 0 <=> \E i \in 1 .. Len(u) : u[i] = e)
      <3>1. CASE x = e
        <4>1. Len(t) + 1 \in 1 .. Len(u)
          BY <2>3
        <4> QED
          BY <2>2, <2>3, <2>4, <3>1, <4>1
      <3>2. CASE x # e
        <4>1. \A i \in 1 .. Len(u) : u[i] = e => i \in 1 .. Len(t)
          BY <2>3, <3>2
        <4>2. \A i \in 1 .. Len(t) : i \in 1 .. Len(u)
          BY <2>3
        <4> QED
          BY <2>2, <2>3, <2>4, <3>2, <4>1, <4>2
      <3> QED
        BY <3>1, <3>2
    <2>6. ASSUME NEW i \in 1 .. Len(u), NEW j \in 1 .. Len(u), i < j, u[i] = e, u[j] = e
          PROVE  n >= 2
      <3>1. i \in 1 .. Len(t) /\ t[i] = e
        BY <2>3, <2>6
      <3>2. CASE j = Len(t) + 1
        BY <2>2, <2>3, <2>4, <2>6, <3>1, <3>2
      <3>3. CASE j \in 1 .. Len(t)
        BY <2>2, <2>3, <2>4, <2>6, <3>1, <3>3
      <3> QED
        BY <2>3, <3>2, <3>3
    <2>7. ASSUME NEW i \in 1 .. Len(u), NEW j \in 1 .. Len(u), NEW k \in 1 .. Len(u),
                 i < j, j < k, u[i] = e, u[j] = e, u[k] = e
          PROVE  n >= 3
      <3>1. i \in 1 .. Len(t) /\ t[i] = e /\ j \in 1 .. Len(t) /\ t[j] = e
        BY <2>3, <2>7
      <3>2. CASE k = Len(t) + 1
        BY <2>2, <2>3, <2>4, <2>7, <3>1, <3>2
      <3>3. CASE k \in 1 .. Len(t)
        BY <2>2, <2>3, <2>4, <2>7, <3>1, <3>3
      <3> QED
        BY <2>3, <3>2, <3>3
    <2>8. Good(u)
      BY <2>1, <2>5, <2>6, <2>7
    <2> QED
      BY <2>1, <2>3, <2>8
  <1>3. s \in T
    <2> HIDE DEF T
    <2>1. \A t \in Seq(S), x \in S : t \in T => Append(t, x) \in T
      BY <1>2
    <2>2. Seq(S) \subseteq T
      BY <1>1, <2>1, SequenceInduction
    <2> QED
      BY <2>2
  <1> QED
    BY <1>3

(* An element that is at one place at most is counted once at most.        *)
LEMMA TimesOnce ==
  ASSUME NEW S, NEW s \in Seq(S), NEW e,
         \A i, j \in 1 .. Len(s) : i < j => ~ (s[i] = e /\ s[j] = e)
  PROVE  Times(s, e) <= 1
  <1> DEFINE Once(t) == \A i, j \in 1 .. Len(t) : i < j => ~ (t[i] = e /\ t[j] = e)
             T == { t \in Seq(S) : Once(t) => Times(t, e) <= 1 }
  <1>1. <<>> \in T
    <2>1. <<>> \in Seq(S) /\ Times(<<>>, e) = 0
      BY EmptySeq, TimesEmpty
    <2>2. Times(<<>>, e) <= 1
      BY <2>1
    <2> QED
      BY <2>1, <2>2, Zenon
  <1>2. ASSUME NEW t \in Seq(S), NEW x \in S, t \in T PROVE Append(t, x) \in T
    <2>1. PICK u, m, n : u = Append(t, x) /\ m = Times(t, e) /\ n = Times(u, e)
      OBVIOUS
    <2>2. n = IF x = e THEN m + 1 ELSE m
      BY <2>1, TimesAppend
    <2>3. /\ u \in Seq(S) /\ Len(u) = Len(t) + 1 /\ Len(t) \in Nat
          /\ u[Len(t) + 1] = x /\ \A i \in 1 .. Len(t) : u[i] = t[i]
      BY <2>1, AppendProperties, LenProperties
    <2>4. m \in Nat /\ (m > 0 => \E i \in 1 .. Len(t) : t[i] = e)
      BY <2>1, TimesCounts
    <2>5. ASSUME Once(u) PROVE n <= 1
      <3>1. Once(t)
        BY <2>3, <2>5
      <3>2. m <= 1
        BY <1>2, <2>1, <3>1
      <3>3. CASE x # e
        BY <2>2, <2>4, <3>2, <3>3
      <3>4. CASE x = e
        <4>1. \A i \in 1 .. Len(t) : t[i] # e
          BY <2>3, <2>5, <3>4
        <4> QED
          BY <2>2, <2>4, <3>4, <4>1
      <3> QED
        BY <3>3, <3>4
    <2> QED
      BY <2>1, <2>3, <2>5
  <1>3. s \in T
    <2> HIDE DEF T
    <2>1. \A t \in Seq(S), x \in S : t \in T => Append(t, x) \in T
      BY <1>2
    <2>2. Seq(S) \subseteq T
      BY <1>1, <2>1, SequenceInduction
    <2> QED
      BY <2>2
  <1> QED
    BY <1>3

(* A kept element is kept as often as it was there.                        *)
LEMMA TimesKept ==
  ASSUME NEW S, NEW s \in Seq(S), NEW keep, NEW e \in keep
  PROVE  Times(Filter(s, keep), e) = Times(s, e)
  <1> DEFINE T == { t \in Seq(S) : Times(Filter(t, keep), e) = Times(t, e) }
  <1>1. <<>> \in T
    <2>1. <<>> \in Seq(S) /\ Filter(<<>>, keep) = <<>>
      BY EmptySeq, FilterEmpty
    <2> QED
      BY <2>1
  <1>2. ASSUME NEW t \in Seq(S), NEW x \in S, t \in T PROVE Append(t, x) \in T
    <2>1. PICK u, f, g : u = Append(t, x) /\ f = Filter(t, keep) /\ g = Filter(u, keep)
      OBVIOUS
    <2>2. g = (IF x \in keep THEN Append(f, x) ELSE f) /\ f \in Seq(S)
      <3>1. g = IF x \in keep THEN Append(f, x) ELSE f
        BY <2>1, FilterAppend
      <3>2. f \in Seq(S)
        BY <2>1, FilterType
      <3> QED
        BY <3>1, <3>2
    <2>3. PICK m, n : m = Times(t, e) /\ n = Times(u, e)
      OBVIOUS
    <2>4. n = IF x = e THEN m + 1 ELSE m
      BY <2>1, <2>3, TimesAppend
    <2>5. Times(f, e) = m
      BY <1>2, <2>1, <2>3
    <2>6. CASE x \in keep
      <3>1. g = Append(f, x)
        BY <2>2, <2>6
      <3>2. Times(Append(f, x), e) = IF x = e THEN Times(f, e) + 1 ELSE Times(f, e)
        BY <2>2, TimesAppend
      <3>3. Times(g, e) = n
        BY <2>4, <2>5, <3>1, <3>2
      <3> QED
        BY <2>1, <2>3, <3>3, AppendProperties
    <2>7. CASE x \notin keep
      <3>1. g = f /\ x # e
        BY <2>2, <2>7
      <3>2. Times(g, e) = n
        BY <2>4, <2>5, <3>1
      <3> QED
        BY <2>1, <2>3, <3>2, AppendProperties
    <2> QED
      BY <2>6, <2>7
  <1>3. s \in T
    <2> HIDE DEF T
    <2>1. \A t \in Seq(S), x \in S : t \in T => Append(t, x) \in T
      BY <1>2
    <2>2. Seq(S) \subseteq T
      BY <1>1, <2>1, SequenceInduction
    <2> QED
      BY <2>2
  <1> QED
    BY <1>3
=============================================================================

--------------------------- MODULE SeqFilterProofs ---------------------------
(***************************************************************************)
(* What Among leaves of a list, for lists of every length.                 *)
(*                                                                         *)
(* The provers cannot instantiate an induction principle over a predicate. *)
(* A set of numbers will do in its place: WFMin is about sets.             *)
(***************************************************************************)
EXTENDS MajorList, Integers, SequenceTheorems, WellFoundedInduction, TLAPS

\* Induction, for a set of numbers.
LEMMA SetInduction ==
    ASSUME NEW T \in SUBSET Nat, 0 \in T, \A n \in T : n + 1 \in T
    PROVE  T = Nat
  <1> DEFINE R == OpToRel(<, Nat)
             C == Nat \ T
  <1> SUFFICES ASSUME C # {} PROVE FALSE
    OBVIOUS
  <1>1. IsWellFoundedOn(R, Nat)
    BY NatLessThanWellFounded
  <1>2. C \subseteq Nat
    OBVIOUS
  <1> HIDE DEF R, C
  <1>3. PICK x \in C : \A y \in C : ~(<<y, x>> \in R)
    BY <1>1, <1>2, WFMin
  <1>4. \A y \in C : ~(y < x)
    BY <1>3, <1>2 DEF R, OpToRel
  <1>5. x \in Nat /\ x # 0 /\ x \notin T
    BY DEF C
  <1>6. x - 1 \in Nat /\ x - 1 < x /\ (x - 1) + 1 = x
    BY <1>5
  <1>7. x - 1 \in T
    BY <1>4, <1>6 DEF C
  <1> QED
    BY <1>5, <1>6, <1>7

\* Induction over lists: what is true of the empty one, and of a list with one
\* more element whenever it is of the list.
LEMMA ListInduction ==
    ASSUME NEW S, NEW L \in SUBSET Seq(S), <<>> \in L,
           \A s \in L : \A x \in S : Append(s, x) \in L
    PROVE  L = Seq(S)
  <1> DEFINE T == {n \in Nat : \A s \in Seq(S) : Len(s) = n => s \in L}
  <1>1. 0 \in T
    OBVIOUS
  <1>2. ASSUME NEW n \in T PROVE n + 1 \in T
    <2> SUFFICES ASSUME NEW s \in Seq(S), Len(s) = n + 1 PROVE s \in L
      OBVIOUS
    <2>0. n \in Nat /\ s # <<>>
      OBVIOUS
    <2>1. PICK front \in Seq(S), x \in S : s = Append(front, x)
      BY <2>0, SequenceEmptyOrAppend
    <2>2. Len(front) = n
      BY <2>0, <2>1
    <2> QED
      BY <2>1, <2>2
  <1>3. T = Nat
    <2> HIDE DEF T
    <2>1. T \in SUBSET Nat
      BY DEF T
    <2> QED
      BY <1>1, <1>2, <2>1, SetInduction
  <1>4. ASSUME NEW s \in Seq(S) PROVE s \in L
    <2>1. Len(s) \in T
      BY <1>3
    <2> QED
      BY <2>1
  <1> QED
    BY <1>4

-----------------------------------------------------------------------------
\* The function that Among is defined by, up to the n-th element.
Filters(f, s, T, n) ==
    f = [i \in 0..n |->
            IF i = 0 THEN <<>>
            ELSE IF s[i] \in T THEN Append(f[i - 1], s[i]) ELSE f[i - 1]]

LEMMA FilterExists ==
    ASSUME NEW s, NEW T, NEW n \in Nat PROVE \E f : Filters(f, s, T, n)
  <1> DEFINE N == {m \in Nat : \E f : Filters(f, s, T, m)}
  <1>1. 0 \in N
    <2> DEFINE f == [i \in 0..0 |-> <<>>]
    <2>1. Filters(f, s, T, 0)
      BY DEF Filters
    <2> QED
      BY <2>1
  <1>2. ASSUME NEW m \in N PROVE m + 1 \in N
    <2>1. PICK f : Filters(f, s, T, m)
      OBVIOUS
    <2> DEFINE Next(last) == IF s[m + 1] \in T THEN Append(last, s[m + 1]) ELSE last
               g == [i \in 0..m + 1 |-> IF i = m + 1 THEN Next(f[m]) ELSE f[i]]
    <2>2. \A i \in 0..m : g[i] = f[i]
      OBVIOUS
    <2>3. g[m + 1] = Next(g[m])
      OBVIOUS
    <2>4. \A i \in 0..m : f[i] = IF i = 0 THEN <<>>
                                 ELSE IF s[i] \in T THEN Append(f[i - 1], s[i]) ELSE f[i - 1]
      BY <2>1 DEF Filters
    <2>5. \A i \in 0..m + 1 : g[i] = IF i = 0 THEN <<>>
                                 ELSE IF s[i] \in T THEN Append(g[i - 1], s[i]) ELSE g[i - 1]
      BY <2>2, <2>3, <2>4
    <2>6. Filters(g, s, T, m + 1)
      <3>1. g = [i \in 0..m + 1 |-> g[i]]
        OBVIOUS
      <3> HIDE DEF g
      <3> QED
        BY <2>5, <3>1 DEF Filters
    <2> QED
      BY <2>6
  <1>3. N = Nat
    <2> HIDE DEF N
    <2>1. N \in SUBSET Nat
      BY DEF N
    <2> QED
      BY <1>1, <1>2, <2>1, SetInduction
  <1> QED
    BY <1>3

\* Two of them agree as far as their lists do.
LEMMA FilterUnique ==
    ASSUME NEW s, NEW t, NEW T, NEW n \in Nat, NEW m \in Nat, n <= m,
           NEW f, Filters(f, s, T, n), NEW g, Filters(g, t, T, m),
           \A i \in 1..n : s[i] = t[i]
    PROVE  f[n] = g[n]
  <1> DEFINE N == {i \in Nat : i <= n => f[i] = g[i]}
  <1>0. /\ \A i \in 0..n : f[i] = IF i = 0 THEN <<>>
              ELSE IF s[i] \in T THEN Append(f[i - 1], s[i]) ELSE f[i - 1]
        /\ \A i \in 0..m : g[i] = IF i = 0 THEN <<>>
              ELSE IF t[i] \in T THEN Append(g[i - 1], t[i]) ELSE g[i - 1]
    BY DEF Filters
  <1>1. 0 \in N
    BY <1>0
  <1>2. ASSUME NEW i \in N PROVE i + 1 \in N
    BY <1>0
  <1>3. N = Nat
    <2> HIDE DEF N
    <2>1. N \in SUBSET Nat
      BY DEF N
    <2> QED
      BY <1>1, <1>2, <2>1, SetInduction
  <1> QED
    BY <1>3

LEMMA AmongFilters ==
    ASSUME NEW S, NEW s \in Seq(S), NEW T
    PROVE  \E f : Filters(f, s, T, Len(s)) /\ Among(s, T) = f[Len(s)]
  <1> DEFINE f == CHOOSE f : Filters(f, s, T, Len(s))
  <1>1. Filters(f, s, T, Len(s))
    <2>1. \E g : Filters(g, s, T, Len(s))
      BY LenProperties, FilterExists
    <2> QED
      BY <2>1, Zenon
  <1>2. Among(s, T) = f[Len(s)]
    BY Zenon DEF Among, Filters
  <1> QED
    BY <1>1, <1>2

\* By which Among is known from one element to the next.
LEMMA AmongNone == ASSUME NEW T PROVE Among(<<>>, T) = <<>>
  <1>1. PICK f : Filters(f, <<>>, T, 0) /\ Among(<<>>, T) = f[0]
    BY <<>> \in Seq({}), Len(<<>>) = 0, AmongFilters
  <1> QED
    BY <1>1 DEF Filters

LEMMA AmongAppend ==
    ASSUME NEW S, NEW s \in Seq(S), NEW x \in S, NEW T
    PROVE  Among(Append(s, x), T) =
               IF x \in T THEN Append(Among(s, T), x) ELSE Among(s, T)
  <1> DEFINE t == Append(s, x)
             n == Len(s)
  <1>1. t \in Seq(S) /\ Len(t) = n + 1 /\ t[n + 1] = x /\ \A i \in 1..n : s[i] = t[i]
    OBVIOUS
  <1> HIDE DEF t
  <1>2. PICK f : Filters(f, s, T, n) /\ Among(s, T) = f[n]
    BY AmongFilters
  <1>3. PICK g : Filters(g, t, T, n + 1) /\ Among(t, T) = g[n + 1]
    BY <1>1, AmongFilters
  <1>4. f[n] = g[n]
    BY <1>1, <1>2, <1>3, FilterUnique
  <1>5. g[n + 1] = IF t[n + 1] \in T THEN Append(g[n], t[n + 1]) ELSE g[n]
    <2>1. n \in Nat
      BY LenProperties
    <2> HIDE DEF n
    <2>2. n + 1 \in 0..n + 1 /\ n + 1 # 0 /\ (n + 1) - 1 = n
      BY <2>1
    <2> QED
      BY <1>3, <2>2 DEF Filters
  <1> QED
    BY <1>1, <1>2, <1>3, <1>4, <1>5 DEF t

-----------------------------------------------------------------------------
\* What it leaves is a list of the elements that were there and are in the set.
LEMMA AmongType ==
    ASSUME NEW S, NEW s \in Seq(S), NEW T
    PROVE  Among(s, T) \in Seq(S) /\ Len(Among(s, T)) <= Len(s)
  <1> DEFINE Shorter(t) == Among(t, T) \in Seq(S) /\ Len(Among(t, T)) <= Len(t)
             L == {t \in Seq(S) : Shorter(t)}
  <1>1. <<>> \in L
    <2>1. Among(<<>>, T) = <<>> /\ <<>> \in Seq(S) /\ Len(<<>>) = 0
      BY AmongNone, EmptySeq
    <2>2. Among(<<>>, T) \in Seq(S) /\ Len(Among(<<>>, T)) = Len(<<>>)
      BY <2>1, Zenon
    <2>3. Shorter(<<>>)
      BY <2>1, <2>2
    <2> HIDE DEF Shorter
    <2> QED
      BY <2>1, <2>3
  <1>2. ASSUME NEW t \in L, NEW x \in S PROVE Append(t, x) \in L
    <2>1. t \in Seq(S) /\ Among(t, T) \in Seq(S) /\ Len(Among(t, T)) <= Len(t)
      OBVIOUS
    <2>2. Among(Append(t, x), T) = IF x \in T THEN Append(Among(t, T), x) ELSE Among(t, T)
      BY <2>1, AmongAppend
    <2>3. /\ Append(t, x) \in Seq(S) /\ Append(Among(t, T), x) \in Seq(S)
          /\ Len(Append(t, x)) = Len(t) + 1
          /\ Len(Append(Among(t, T), x)) = Len(Among(t, T)) + 1
          /\ Len(t) \in Nat /\ Len(Among(t, T)) \in Nat
      BY <2>1, AppendProperties, LenProperties
    <2>4. Shorter(Append(t, x))
      <3>1. CASE x \in T
        BY <2>1, <2>2, <2>3, <3>1
      <3>2. CASE x \notin T
        BY <2>1, <2>2, <2>3, <3>2
      <3> QED
        BY <3>1, <3>2
    <2> HIDE DEF Shorter
    <2> QED
      BY <2>3, <2>4
  <1>3. L = Seq(S)
    <2> HIDE DEF L
    <2>1. L \in SUBSET Seq(S)
      BY DEF L
    <2> QED
      BY <1>1, <1>2, <2>1, ListInduction
  <1> QED
    BY <1>3

LEMMA RangeAppend ==
    ASSUME NEW S, NEW s \in Seq(S), NEW x \in S
    PROVE  Range(Append(s, x)) = Range(s) \cup {x}
  <1>1. /\ Append(s, x) \in Seq(S) /\ Len(Append(s, x)) = Len(s) + 1 /\ Len(s) \in Nat
        /\ \A i \in 1..Len(s) : Append(s, x)[i] = s[i]
        /\ Append(s, x)[Len(s) + 1] = x
    BY AppendProperties, LenProperties
  <1>2. Range(s) = {s[i] : i \in 1..Len(s)}
    BY RangeEquality
  <1>3. Range(Append(s, x)) = {Append(s, x)[i] : i \in 1..Len(s) + 1}
    BY <1>1, RangeEquality
  <1>4. 1..Len(s) + 1 = (1..Len(s)) \cup {Len(s) + 1}
    BY <1>1
  <1> HIDE DEF Range
  <1> QED
    BY <1>1, <1>2, <1>3, <1>4

LEMMA AmongRange ==
    ASSUME NEW S, NEW s \in Seq(S), NEW T
    PROVE  Range(Among(s, T)) = Range(s) \cap T
  <1> DEFINE L == {t \in Seq(S) : Range(Among(t, T)) = Range(t) \cap T}
  <1>1. <<>> \in L
    BY AmongNone, EmptySeq DEF Range
  <1>2. ASSUME NEW t \in L, NEW x \in S PROVE Append(t, x) \in L
    <2>1. Append(t, x) \in Seq(S) /\ Among(t, T) \in Seq(S)
      BY AppendProperties, AmongType
    <2>2. Range(Append(t, x)) = Range(t) \cup {x}
      BY RangeAppend
    <2>3. Among(Append(t, x), T) = IF x \in T THEN Append(Among(t, T), x) ELSE Among(t, T)
      BY AmongAppend
    <2>4. Range(Append(Among(t, T), x)) = Range(Among(t, T)) \cup {x}
      BY <2>1, RangeAppend
    <2>5. Range(Among(t, T)) = Range(t) \cap T
      OBVIOUS
    <2> QED
      BY <2>1, <2>2, <2>3, <2>4, <2>5
  <1>3. L = Seq(S)
    <2> HIDE DEF L
    <2>1. L \in SUBSET Seq(S)
      BY DEF L
    <2> QED
      BY <1>1, <1>2, <2>1, ListInduction
  <1> QED
    BY <1>3

\* Part by part.
\* An element put behind two lists is behind the second.
Behind(s, t, x) == Append(s \o t, x) = s \o Append(t, x)

LEMMA AppendInConcat ==
    ASSUME NEW S, NEW s \in Seq(S), NEW t \in Seq(S), NEW x \in S
    PROVE  Behind(s, t, x)
  <1>1. <<x>> \in Seq(S) /\ s \o t \in Seq(S)
    BY ConcatProperties
  <1>2. Append(t, x) = t \o <<x>>
    BY AppendIsConcat
  <1>3. Append(s \o t, x) = (s \o t) \o <<x>>
    BY <1>1, AppendIsConcat
  <1>4. (s \o t) \o <<x>> = s \o (t \o <<x>>)
    BY <1>1, ConcatAssociative
  <1> QED
    BY <1>2, <1>3, <1>4, Zenon DEF Behind

LEMMA AmongConcat ==
    ASSUME NEW S, NEW s \in Seq(S), NEW t \in Seq(S), NEW T
    PROVE  Among(s \o t, T) = Among(s, T) \o Among(t, T)
  <1> DEFINE L == {u \in Seq(S) : Among(s \o u, T) = Among(s, T) \o Among(u, T)}
  <1>1. <<>> \in L
    BY AmongNone, EmptySeq, ConcatEmptySeq, AmongType
  <1>2. ASSUME NEW u \in L, NEW x \in S PROVE Append(u, x) \in L
    <2>1. s \o u \in Seq(S) /\ Append(u, x) \in Seq(S)
      BY ConcatProperties, AppendProperties
    <2>2. s \o Append(u, x) = Append(s \o u, x)
      <3>1. Behind(s, u, x)
        BY AppendInConcat
      <3> QED
        BY <3>1, Zenon DEF Behind
    <2>3. Among(s \o Append(u, x), T) =
             IF x \in T THEN Append(Among(s \o u, T), x) ELSE Among(s \o u, T)
      <3>1. ASSUME NEW v \in Seq(S)
            PROVE  Among(Append(v, x), T) = IF x \in T THEN Append(Among(v, T), x) ELSE Among(v, T)
        BY AmongAppend
      <3> QED
        BY <2>1, <2>2, <3>1
    <2>4. Among(Append(u, x), T) = IF x \in T THEN Append(Among(u, T), x) ELSE Among(u, T)
      BY AmongAppend
    <2>5. Append(Among(s, T) \o Among(u, T), x) = Among(s, T) \o Append(Among(u, T), x)
      <3> DEFINE a == Among(s, T)
                 b == Among(u, T)
      <3>1. a \in Seq(S) /\ b \in Seq(S)
        BY AmongType
      <3> HIDE DEF a, b
      <3>2. Behind(a, b, x)
        BY <3>1, AppendInConcat
      <3> QED
        BY <3>2, Zenon DEF Behind, a, b
    <2> QED
      BY <2>1, <2>3, <2>4, <2>5
  <1>3. L = Seq(S)
    <2> HIDE DEF L
    <2>1. L \in SUBSET Seq(S)
      BY DEF L
    <2> QED
      BY <1>1, <1>2, <2>1, ListInduction
  <1> QED
    BY <1>3

\* Only what the set says of the list's own elements matters.
LEMMA AmongSame ==
    ASSUME NEW S, NEW s \in Seq(S), NEW T, NEW U, Range(s) \cap T = Range(s) \cap U
    PROVE  Among(s, T) = Among(s, U)
  <1> DEFINE L == {t \in Seq(S) : Range(t) \cap T = Range(t) \cap U => Among(t, T) = Among(t, U)}
  <1>1. <<>> \in L
    BY AmongNone, EmptySeq
  <1>2. ASSUME NEW t \in L, NEW x \in S PROVE Append(t, x) \in L
    <2>1. Append(t, x) \in Seq(S) /\ Range(Append(t, x)) = Range(t) \cup {x}
      BY RangeAppend, AppendProperties
    <2>2. Among(Append(t, x), T) = IF x \in T THEN Append(Among(t, T), x) ELSE Among(t, T)
      BY AmongAppend
    <2>3. Among(Append(t, x), U) = IF x \in U THEN Append(Among(t, U), x) ELSE Among(t, U)
      BY AmongAppend
    <2>4. ASSUME Range(Append(t, x)) \cap T = Range(Append(t, x)) \cap U
          PROVE  Among(t, T) = Among(t, U) /\ (x \in T <=> x \in U)
      <3>1. x \in T <=> x \in U
        BY <2>1, <2>4
      <3>2. Range(t) \cap T = Range(t) \cap U
        BY <2>1, <2>4
      <3> QED
        BY <3>1, <3>2
    <2> QED
      BY <2>1, <2>2, <2>3, <2>4
  <1>3. L = Seq(S)
    <2> HIDE DEF L
    <2>1. L \in SUBSET Seq(S)
      BY DEF L
    <2> QED
      BY <1>1, <1>2, <2>1, ListInduction
  <1> QED
    BY <1>3

\* All of the list, and nothing of it.
LEMMA AmongAll ==
    ASSUME NEW S, NEW s \in Seq(S), NEW T, Range(s) \subseteq T
    PROVE  Among(s, T) = s
  <1> DEFINE L == {t \in Seq(S) : Range(t) \subseteq T => Among(t, T) = t}
  <1>1. <<>> \in L
    BY AmongNone, EmptySeq
  <1>2. ASSUME NEW t \in L, NEW x \in S PROVE Append(t, x) \in L
    BY AmongAppend, RangeAppend, AppendProperties
  <1>3. L = Seq(S)
    <2> HIDE DEF L
    <2>1. L \in SUBSET Seq(S)
      BY DEF L
    <2> QED
      BY <1>1, <1>2, <2>1, ListInduction
  <1> QED
    BY <1>3

LEMMA AmongNothing ==
    ASSUME NEW S, NEW s \in Seq(S), NEW T, Range(s) \cap T = {}
    PROVE  Among(s, T) = <<>>
  <1> DEFINE r == Among(s, T)
  <1>1. r \in Seq(S) /\ Range(r) = {}
    BY AmongType, AmongRange
  <1> HIDE DEF r
  <1>2. ASSUME r # <<>> PROVE FALSE
    <2>1. Len(r) \in Nat \ {0} /\ DOMAIN r = 1..Len(r)
      BY <1>1, <1>2, EmptySeq, LenProperties
    <2>2. r[1] \in Range(r)
      BY <2>1 DEF Range
    <2> QED
      BY <1>1, <2>2
  <1> QED
    BY <1>2 DEF r

\* Twice is once.
LEMMA AmongAmong ==
    ASSUME NEW S, NEW s \in Seq(S), NEW T, NEW U
    PROVE  Among(Among(s, T), U) = Among(s, T \cap U)
  <1> DEFINE L == {t \in Seq(S) : Among(Among(t, T), U) = Among(t, T \cap U)}
  <1>1. <<>> \in L
    BY AmongNone, EmptySeq
  <1>2. ASSUME NEW t \in L, NEW x \in S PROVE Append(t, x) \in L
    <2>1. Among(t, T) \in Seq(S) /\ Append(t, x) \in Seq(S)
      BY AmongType, AppendProperties
    <2>2. Among(Append(t, x), T) = IF x \in T THEN Append(Among(t, T), x) ELSE Among(t, T)
      BY AmongAppend
    <2>3. Among(Append(t, x), T \cap U) =
             IF x \in T \cap U THEN Append(Among(t, T \cap U), x) ELSE Among(t, T \cap U)
      BY AmongAppend
    <2>4. Among(Append(Among(t, T), x), U) =
             IF x \in U THEN Append(Among(Among(t, T), U), x) ELSE Among(Among(t, T), U)
      BY <2>1, AmongAppend
    <2>5. Among(Among(t, T), U) = Among(t, T \cap U)
      OBVIOUS
    <2>6. Among(Among(Append(t, x), T), U) = Among(Append(t, x), T \cap U)
      <3> HIDE DEF L
      <3>1. CASE x \in T /\ x \in U
        BY <2>2, <2>3, <2>4, <2>5, <3>1
      <3>2. CASE x \in T /\ x \notin U
        BY <2>2, <2>3, <2>4, <2>5, <3>2
      <3>3. CASE x \notin T
        BY <2>2, <2>3, <2>5, <3>3
      <3> QED
        BY <3>1, <3>2, <3>3
    <2> QED
      BY <2>1, <2>6
  <1>3. L = Seq(S)
    <2> HIDE DEF L
    <2>1. L \in SUBSET Seq(S)
      BY DEF L
    <2> QED
      BY <1>1, <1>2, <2>1, ListInduction
  <1> QED
    BY <1>3

\* Remembering a major puts it in front, and what was in front stays listed.
LEMMA RememberedList ==
    ASSUME NEW S, NEW old \in Seq(S), NEW m \in S
    PROVE  LET list == Remembered(old, m)
           IN /\ list \in Seq(S) /\ list # <<>> /\ list[1] = m
              /\ old # <<>> /\ old[1] # m => old[1] \in Elements(list)
  <1> DEFINE kept == Among(old, Elements(old) \ {m})
             list == <<m>> \o kept
  <1>1. kept \in Seq(S) /\ <<m>> \in Seq(S)
    BY AmongType
  <1>2. /\ list \in Seq(S) /\ Len(list) = 1 + Len(kept) /\ list[1] = m
        /\ \A i \in 1..Len(kept) : list[i + 1] = kept[i]
    <2> HIDE DEF kept
    <2> QED
      BY <1>1
  <1>3. Len(kept) \in Nat
    BY <1>1, LenProperties
  <1>4. ASSUME old # <<>>, old[1] # m PROVE Len(kept) >= 1 /\ kept[1] = old[1]
    <2> DEFINE x == old[1]
               T == Elements(old) \ {m}
    <2>1. x \in S /\ Tail(old) \in Seq(S) /\ <<x>> \in Seq(S) /\ old = <<x>> \o Tail(old)
      BY <1>4
    <2>2. x \in T
      <3>1. 1 \in DOMAIN old
        BY <1>4, LenProperties, EmptySeq
      <3> QED
        BY <1>4, <3>1 DEF Elements
    <2> HIDE DEF x, T
    <2>3. Among(<<x>>, T) = <<x>>
      <3>1. Range(<<x>>) \subseteq T
        BY <2>2 DEF Range
      <3> QED
        BY <2>1, <3>1, AmongAll
    <2>4. kept = <<x>> \o Among(Tail(old), T)
      <3>1. Among(<<x>> \o Tail(old), T) = Among(<<x>>, T) \o Among(Tail(old), T)
        <4> DEFINE one == <<x>>
                   rest == Tail(old)
        <4>1. one \in Seq(S) /\ rest \in Seq(S)
          BY <2>1
        <4> HIDE DEF one, rest
        <4>2. Among(one \o rest, T) = Among(one, T) \o Among(rest, T)
          BY <4>1, AmongConcat
        <4> QED
          BY <4>2 DEF one, rest
      <3>2. kept = Among(old, T)
        BY DEF T
      <3> QED
        BY <2>1, <2>3, <3>1, <3>2, Zenon
    <2>5. Among(Tail(old), T) \in Seq(S)
      BY <2>1, AmongType
    <2>6. x = old[1]
      BY DEF x
    <2> HIDE DEF kept
    <2>7. Len(kept) >= 1 /\ kept[1] = x
      <3> DEFINE rest == Among(Tail(old), T)
      <3>1. kept = <<x>> \o rest /\ rest \in Seq(S)
        BY <2>4, <2>5
      <3> HIDE DEF rest
      <3> QED
        BY <2>1, <3>1
    <2> QED
      BY <2>6, <2>7
  <1> DEFINE most == IF Len(list) < UvmKept THEN Len(list) ELSE UvmKept
             cut == SubSeq(list, 1, most)
  <1>5. Remembered(old, m) = cut
    BY DEF Remembered
  <1> HIDE DEF kept, list
  <1>6. /\ most \in 1..2 /\ most <= Len(list)
        /\ Len(kept) >= 1 => most = 2
    BY <1>2, <1>3 DEF UvmKept
  <1>7. /\ cut \in Seq(S) /\ Len(cut) = most /\ \A i \in 1..most : cut[i] = list[i]
    BY <1>2, <1>6, SubSeqProperties, ElementOfSeq
  <1>8. cut # <<>> /\ cut[1] = m
    BY <1>2, <1>6, <1>7
  <1>9. ASSUME old # <<>>, old[1] # m PROVE old[1] \in Elements(cut)
    <2>1. 2 \in 1..most /\ cut[2] = old[1]
      <3>1. Len(kept) >= 1 /\ kept[1] = old[1]
        BY <1>4, <1>9
      <3>2. list[1 + 1] = kept[1] /\ most = 2
        BY <1>2, <1>3, <1>6, <3>1
      <3> HIDE DEF most, cut
      <3> QED
        BY <1>7, <3>1, <3>2
    <2>2. DOMAIN cut = 1..most
      BY <1>7, LenProperties
    <2> QED
      BY <2>1, <2>2 DEF Elements
  <1> QED
    BY <1>5, <1>7, <1>8, <1>9

\* What the file holds after a note: the list it was, or one that begins with
\* the major in use; no other major comes in, and the newest stays listed.
LEMMA NotedList ==
    ASSUME NEW S, NEW list \in Seq(S), NEW uvm \in SUBSET S, \A m, n \in uvm : m = n
    PROVE  LET new == Noted(list, list, uvm)
           IN /\ new \in Seq(S)
              /\ Elements(new) \subseteq Elements(list) \cup uvm
              /\ uvm # {} => new # <<>> /\ new[1] \in uvm
              /\ list # <<>> => list[1] \in Elements(new)
  <1> DEFINE new == Noted(list, list, uvm)
  <1>1. list # <<>> => list[1] \in Elements(list)
    <2>1. list # <<>> => 1 \in DOMAIN list
      BY LenProperties, EmptySeq
    <2> QED
      BY <2>1 DEF Elements
  <1>2. CASE uvm = {} \/ (list # <<>> /\ Head(list) \in uvm)
    <2>1. new = list
      BY <1>2 DEF Noted
    <2>2. uvm # {} => list # <<>> /\ list[1] \in uvm
      BY <1>2
    <2> HIDE DEF new
    <2> QED
      BY <1>1, <2>1, <2>2 DEF new
  <1>3. CASE ~(uvm = {} \/ (list # <<>> /\ Head(list) \in uvm))
    <2>1. PICK m \in uvm : new = Remembered(list, m)
      BY <1>3 DEF Noted
    <2> DEFINE T == Elements(list) \cup {m}
    <2>2. list \in Seq(T)
      <3>1. Len(list) \in Nat /\ list \in [1..Len(list) -> S] /\ DOMAIN list = 1..Len(list)
        BY LenProperties
      <3>2. list \in [1..Len(list) -> T]
        BY <3>1 DEF Elements
      <3> QED
        BY <3>1, <3>2, SeqDef
    <2> HIDE DEF T, new
    <2>3. new \in Seq(T) /\ new # <<>> /\ new[1] = m
          /\ (list # <<>> /\ list[1] # m => list[1] \in Elements(new))
      <3>1. m \in T
        BY DEF T
      <3> QED
        BY <2>1, <2>2, <3>1, RememberedList
    <2>4. new \in Seq(S)
      BY <2>1, RememberedList
    <2>5. Elements(new) \subseteq Elements(list) \cup uvm
      BY <2>3 DEF Elements, T
    <2>6. list # <<>> => list[1] # m
      BY <1>3, <2>1
    <2> QED
      BY <2>1, <2>3, <2>4, <2>5, <2>6 DEF new
  <1> QED
    BY <1>2, <1>3
=============================================================================

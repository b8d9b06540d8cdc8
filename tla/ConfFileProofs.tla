--------------------------- MODULE ConfFileProofs ---------------------------
(***************************************************************************)
(* What splicing does to a file and what a document becomes in it, for     *)
(* files of every length, lines of every kind, inventories of every number *)
(* of cards and documents of every shape: every property of module         *)
(* ConfFile.                                                               *)
(***************************************************************************)
EXTENDS ConfFile, SeqFilterProofs, FiniteSetTheorems, FunctionTheorems

\* The least and the greatest of some numbers.
LEMMA LeastOf ==
    ASSUME NEW T \in SUBSET Nat, T # {}
    PROVE  Min(T) \in T /\ \A n \in T : Min(T) <= n
  <1> DEFINE R == OpToRel(<, Nat)
  <1>1. IsWellFoundedOn(R, Nat)
    BY NatLessThanWellFounded
  <1> HIDE DEF R
  <1>2. PICK x \in T : \A y \in T : ~(<<y, x>> \in R)
    BY <1>1, WFMin
  <1>3. \A y \in T : ~(y < x)
    BY <1>2 DEF R, OpToRel
  <1>4. \A y \in T : x <= y
    BY <1>3
  <1> QED
    BY <1>4 DEF Min

LEMMA GreatestOf ==
    ASSUME NEW n \in Nat, NEW T \in SUBSET (0..n), T # {}
    PROVE  Max(T) \in T /\ \A m \in T : m <= Max(T)
  <1> DEFINE D == {n - m : m \in T}
  <1>1. D \in SUBSET Nat /\ D # {}
    <2>1. \A m \in T : m \in 0..n /\ n - m \in Nat
      OBVIOUS
    <2>2. D \subseteq Nat
      BY <2>1
    <2> QED
      BY <2>2
  <1>2. Min(D) \in D /\ \A d \in D : Min(D) <= d
    <2> HIDE DEF D
    <2> QED
      BY <1>1, LeastOf
  <1>3. PICK x \in T : Min(D) = n - x
    BY <1>2
  <1>4. ASSUME NEW m \in T PROVE m <= x
    <2>1. n - m \in D
      OBVIOUS
    <2>2. n - x <= n - m
      BY <1>2, <1>3, <2>1
    <2> QED
      BY <2>2
  <1>5. \A m \in T : x >= m
    BY <1>4
  <1> QED
    BY <1>5 DEF Max

-----------------------------------------------------------------------------
\* Lines of a file, in two.

LEMMA Lists == ASSUME NEW S, NEW s \in Seq(S) PROVE ToSet(s) = Range(s)
  BY DEF ToSet, Range

LEMMA OwnLines == ASSUME NEW S, NEW s \in Seq(S) PROVE s \in Seq(Range(s)) /\ Range(s) \subseteq S
  <1>1. s \in [1..Len(s) -> S] /\ Len(s) \in Nat
    BY LenProperties
  <1>2. s \in [1..Len(s) -> Range(s)] /\ Range(s) \subseteq S
    BY <1>1 DEF Range
  <1> QED
    BY <1>1, <1>2, SeqDef

LEMMA RangeConcat ==
    ASSUME NEW S, NEW s \in Seq(S), NEW t \in Seq(S)
    PROVE  Range(s \o t) = Range(s) \cup Range(t)
  BY RangeConcatenation

\* The managed and the other lines of a list, by a set the lines are from.
LEMMA ManagedIn ==
    ASSUME NEW S, NEW s \in Seq(S), NEW o
    PROVE  /\ ManagedSeq(s, o) = Among(s, ManagedLines(S, o))
           /\ ForeignSeq(s, o) = Among(s, S \ ManagedLines(S, o))
  <1>1. ToSet(s) = Range(s) /\ Range(s) \subseteq S
    BY Lists, OwnLines
  <1>2. Range(s) \cap ManagedLines(Range(s), o) = Range(s) \cap ManagedLines(S, o)
    BY <1>1 DEF ManagedLines
  <1>3. Range(s) \cap (Range(s) \ ManagedLines(Range(s), o)) = Range(s) \cap (S \ ManagedLines(S, o))
    BY <1>1 DEF ManagedLines
  <1>4. Among(s, ManagedLines(Range(s), o)) = Among(s, ManagedLines(S, o))
    BY <1>2, AmongSame
  <1>5. Among(s, Range(s) \ ManagedLines(Range(s), o)) = Among(s, S \ ManagedLines(S, o))
    BY <1>3, AmongSame
  <1> QED
    BY <1>1, <1>4, <1>5 DEF ManagedSeq, ForeignSeq

-----------------------------------------------------------------------------
\* The blank lines at the end.

\* Where the last line is that is not blank.
LEMMA TrimmedFacts ==
    ASSUME NEW S, NEW s \in Seq(S)
    PROVE  \E n \in 0..Len(s) :
              /\ Trimmed(s) = SubSeq(s, 1, n)
              /\ n # 0 => s[n] # Blank
              /\ \A i \in n + 1..Len(s) : s[i] = Blank
  <1> DEFINE kept == {i \in DOMAIN s : s[i] # Blank}
  <1>1. Len(s) \in Nat /\ DOMAIN s = 1..Len(s)
    BY LenProperties
  <1>2. CASE kept = {}
    <2>1. Trimmed(s) = <<>>
      BY <1>2, Zenon DEF Trimmed
    <2>2. SubSeq(s, 1, 0) = <<>>
      BY SubSeqEmpty
    <2> QED
      BY <1>1, <1>2, <2>1, <2>2
  <1>3. CASE kept # {}
    <2>1. kept \in SUBSET (0..Len(s))
      BY <1>1
    <2>2. Trimmed(s) = SubSeq(s, 1, Max(kept))
      BY <1>3, Zenon DEF Trimmed
    <2>3. Max(kept) \in kept /\ \A i \in kept : i <= Max(kept)
      <3> HIDE DEF kept
      <3> QED
        BY <1>1, <1>3, <2>1, GreatestOf
    <2>4. Max(kept) \in 1..Len(s) /\ s[Max(kept)] # Blank
      BY <1>1, <2>3
    <2>5. ASSUME NEW i \in Max(kept) + 1..Len(s) PROVE s[i] = Blank
      <3>1. i \in DOMAIN s /\ ~(i <= Max(kept))
        BY <1>1, <2>4
      <3> QED
        BY <2>3, <3>1
    <2> HIDE DEF kept
    <2> QED
      BY <1>1, <2>2, <2>4, <2>5
  <1> QED
    BY <1>2, <1>3

\* By that line, a trimmed list is known.
LEMMA TrimmedIs ==
    ASSUME NEW S, NEW s \in Seq(S), NEW n \in 0..Len(s), n # 0 => s[n] # Blank,
           \A i \in n + 1..Len(s) : s[i] = Blank
    PROVE  Trimmed(s) = SubSeq(s, 1, n)
  <1>1. PICK m \in 0..Len(s) :
              /\ Trimmed(s) = SubSeq(s, 1, m)
              /\ m # 0 => s[m] # Blank
              /\ \A i \in m + 1..Len(s) : s[i] = Blank
    BY TrimmedFacts
  <1>2. Len(s) \in Nat
    BY LenProperties
  <1>3. ~(m < n)
    <2> SUFFICES ASSUME m < n PROVE FALSE
      OBVIOUS
    <2>1. n \in m + 1..Len(s) /\ n # 0
      BY <1>2
    <2> QED
      BY <1>1, <2>1
  <1>4. ~(n < m)
    <2> SUFFICES ASSUME n < m PROVE FALSE
      OBVIOUS
    <2>1. m \in n + 1..Len(s) /\ m # 0
      BY <1>2
    <2> QED
      BY <1>1, <2>1
  <1>5. m = n
    BY <1>2, <1>3, <1>4
  <1> QED
    BY <1>1, <1>5

LEMMA TrimmedType ==
    ASSUME NEW S, NEW s \in Seq(S)
    PROVE  /\ Trimmed(s) \in Seq(S)
           /\ Len(Trimmed(s)) <= Len(s)
           /\ Trimmed(s) # <<>> => Trimmed(s)[Len(Trimmed(s))] # Blank
           /\ Range(Trimmed(s)) \subseteq Range(s)
           /\ Range(s) \ {Blank} \subseteq Range(Trimmed(s))
  <1>1. PICK n \in 0..Len(s) :
              /\ Trimmed(s) = SubSeq(s, 1, n)
              /\ n # 0 => s[n] # Blank
              /\ \A i \in n + 1..Len(s) : s[i] = Blank
    BY TrimmedFacts
  <1>2. Len(s) \in Nat /\ DOMAIN s = 1..Len(s) /\ \A i \in 1..Len(s) : s[i] \in S
    BY LenProperties, ElementOfSeq
  <1> DEFINE t == SubSeq(s, 1, n)
  <1>3. /\ t \in Seq(S) /\ Len(t) = n /\ \A i \in 1..n : t[i] = s[i]
    <2>1. \A i \in 1..n : s[i] \in S
      BY <1>2
    <2>2. /\ SubSeq(s, 1, n) \in Seq(S)
          /\ Len(SubSeq(s, 1, n)) = IF 1 <= n THEN n - 1 + 1 ELSE 0
          /\ \A i \in 1..n - 1 + 1 : SubSeq(s, 1, n)[i] = s[1 + i - 1]
      BY <2>1, SubSeqProperties
    <2> QED
      BY <1>2, <2>2
  <1> HIDE DEF t
  <1>4. t # <<>> => n # 0
    BY <1>3, EmptySeq
  <1>5. Range(t) = {t[i] : i \in 1..n} /\ Range(s) = {s[i] : i \in 1..Len(s)}
    BY <1>3, RangeEquality
  <1>6. Range(t) \subseteq Range(s)
    BY <1>2, <1>3, <1>5
  <1>7. Range(s) \ {Blank} \subseteq Range(t)
    <2> SUFFICES ASSUME NEW i \in 1..Len(s), s[i] # Blank PROVE s[i] \in Range(t)
      BY <1>5
    <2>1. i \in 1..n
      BY <1>1, <1>2
    <2> QED
      BY <1>3, <1>5, <2>1
  <1>8. Trimmed(s) = t
    BY <1>1 DEF t
  <1>9. t # <<>> => t[Len(t)] # Blank
    <2>1. n # 0 => n \in 1..n
      BY <1>2
    <2> QED
      BY <1>1, <1>3, <1>4, <2>1
  <1> QED
    BY <1>2, <1>3, <1>6, <1>7, <1>8, <1>9

\* A separator before a section is no line of the list.
Separator(after) == IF after = <<>> THEN <<>> ELSE <<Blank>>

LEMMA SeparatorType ==
    ASSUME NEW S, Blank \in S, NEW after
    PROVE  Separator(after) \in Seq(S) /\ Range(Separator(after)) \subseteq {Blank}
  <1>1. CASE after = <<>>
    BY <1>1, EmptySeq DEF Separator, Range
  <1>2. CASE after # <<>>
    <2>1. Separator(after) = <<Blank>>
      BY <1>2 DEF Separator
    <2>2. <<Blank>> \in Seq(S) /\ DOMAIN <<Blank>> = {1} /\ <<Blank>>[1] = Blank
      OBVIOUS
    <2> QED
      BY <2>1, <2>2 DEF Range
  <1> QED
    BY <1>1, <1>2

\* A list in two.
LEMMA Halves ==
    ASSUME NEW S, NEW s \in Seq(S), NEW n \in 0..Len(s)
    PROVE  /\ SubSeq(s, 1, n) \in Seq(S) /\ Len(SubSeq(s, 1, n)) = n
           /\ SubSeq(s, n + 1, Len(s)) \in Seq(S)
           /\ SubSeq(s, 1, n) \o SubSeq(s, n + 1, Len(s)) = s
           /\ Range(SubSeq(s, 1, n)) \subseteq Range(s)
           /\ Range(SubSeq(s, n + 1, Len(s))) \subseteq Range(s)
  <1>1. Len(s) \in Nat /\ n \in Nat /\ n <= Len(s) /\ \A i \in 1..Len(s) : s[i] \in S
    BY LenProperties, ElementOfSeq
  <1>2. \A i \in 1..n : s[i] \in S
    BY <1>1
  <1>3. \A i \in n + 1..Len(s) : s[i] \in S
    BY <1>1
  <1>4. SubSeq(s, 1, n) \in Seq(S) /\ Len(SubSeq(s, 1, n)) = n
    BY <1>1, <1>2, SubSeqProperties
  <1>5. SubSeq(s, n + 1, Len(s)) \in Seq(S)
    BY <1>1, <1>3, SubSeqProperties
  <1>6. SubSeq(s, 1, n) \o SubSeq(s, n + 1, Len(s)) = s
    <2>1. 1 \in 1..Len(s) + 1 /\ n \in 1 - 1..Len(s) /\ Len(s) \in n..Len(s)
      BY <1>1
    <2>2. SubSeq(s, 1, n) \o SubSeq(s, n + 1, Len(s)) = SubSeq(s, 1, Len(s))
      BY <2>1, ConcatAdjacentSubSeq
    <2> QED
      BY <2>2, SubSeqFull
  <1>7. Range(s) = Range(SubSeq(s, 1, n)) \cup Range(SubSeq(s, n + 1, Len(s)))
    <2> DEFINE f == SubSeq(s, 1, n)
               b == SubSeq(s, n + 1, Len(s))
    <2>1. f \in Seq(S) /\ b \in Seq(S) /\ f \o b = s
      BY <1>4, <1>5, <1>6
    <2> HIDE DEF f, b
    <2>2. Range(f \o b) = Range(f) \cup Range(b)
      BY <2>1, RangeConcat
    <2>3. Range(s) = Range(f) \cup Range(b)
      BY <2>1, <2>2
    <2> QED
      BY <2>3 DEF f, b
  <1> QED
    BY <1>4, <1>5, <1>6, <1>7

\* And back.
LEMMA HalvesOf ==
    ASSUME NEW S, NEW s \in Seq(S), NEW t \in Seq(S)
    PROVE  /\ SubSeq(s \o t, 1, Len(s)) = s
           /\ SubSeq(s \o t, Len(s) + 1, Len(s) + Len(t)) = t
  <1>1. /\ s \o t \in Seq(S) /\ Len(s \o t) = Len(s) + Len(t) /\ Len(s) \in Nat /\ Len(t) \in Nat
        /\ \A i \in 1..Len(s) + Len(t) : (s \o t)[i] = IF i <= Len(s) THEN s[i] ELSE t[i - Len(s)]
    BY ConcatProperties, LenProperties
  <1> DEFINE u == s \o t
             f == SubSeq(u, 1, Len(s))
             b == SubSeq(u, Len(s) + 1, Len(s) + Len(t))
  <1>2. \A i \in 1..Len(s) + Len(t) : u[i] \in S
    BY <1>1, ElementOfSeq
  <1> HIDE DEF u
  <1>3. f \in Seq(S) /\ Len(f) = Len(s) /\ \A i \in 1..Len(s) : f[i] = u[i]
    <2>1. \A i \in 1..Len(s) : u[i] \in S
      BY <1>1, <1>2
    <2>2. /\ f \in Seq(S) /\ Len(f) = IF 1 <= Len(s) THEN Len(s) - 1 + 1 ELSE 0
          /\ \A i \in 1..Len(s) - 1 + 1 : f[i] = u[1 + i - 1]
      BY <1>1, <2>1, SubSeqProperties
    <2> HIDE DEF f
    <2> QED
      BY <1>1, <2>2
  <1>4. b \in Seq(S) /\ Len(b) = Len(t) /\ \A i \in 1..Len(t) : b[i] = u[Len(s) + i]
    <2>1. \A i \in Len(s) + 1..Len(s) + Len(t) : u[i] \in S
      BY <1>1, <1>2
    <2>2. /\ b \in Seq(S)
          /\ Len(b) = IF Len(s) + 1 <= Len(s) + Len(t) THEN (Len(s) + Len(t)) - (Len(s) + 1) + 1 ELSE 0
          /\ \A i \in 1..(Len(s) + Len(t)) - (Len(s) + 1) + 1 : b[i] = u[(Len(s) + 1) + i - 1]
      BY <1>1, <2>1, SubSeqProperties
    <2> HIDE DEF b
    <2>3. (Len(s) + Len(t)) - (Len(s) + 1) + 1 = Len(t)
      BY <1>1
    <2>4. \A i \in 1..Len(t) : (Len(s) + 1) + i - 1 = Len(s) + i
      BY <1>1
    <2>5. Len(b) = Len(t)
      BY <1>1, <2>2
    <2> QED
      BY <2>2, <2>3, <2>4, <2>5
  <1> HIDE DEF f, b
  <1>5. f = s
    <2>1. \A i \in 1..Len(f) : f[i] = s[i]
      BY <1>1, <1>3 DEF u
    <2> QED
      BY <1>3, <2>1, SeqEqual
  <1>6. b = t
    <2>1. ASSUME NEW i \in 1..Len(t) PROVE b[i] = t[i]
      <3>1. Len(s) + i \in 1..Len(s) + Len(t) /\ ~(Len(s) + i <= Len(s)) /\ (Len(s) + i) - Len(s) = i
        BY <1>1
      <3> QED
        BY <1>1, <1>4, <3>1 DEF u
    <2> QED
      BY <1>4, <2>1, SeqEqual
  <1> QED
    BY <1>5, <1>6 DEF f, b, u

\* A list that is trimmed stays it when a separator has been added.
LEMMA TrimmedSeparated ==
    ASSUME NEW S, Blank \in S, NEW t \in Seq(S), t # <<>> => t[Len(t)] # Blank, NEW after
    PROVE  Trimmed(t \o Separator(after)) = t
  <1> DEFINE sep == Separator(after)
  <1>1. sep \in Seq(S) /\ Range(sep) \subseteq {Blank}
    BY SeparatorType
  <1> HIDE DEF sep
  <1> DEFINE s == t \o sep
  <1>2. /\ s \in Seq(S) /\ Len(s) = Len(t) + Len(sep) /\ Len(t) \in Nat /\ Len(sep) \in Nat
        /\ \A i \in 1..Len(t) + Len(sep) : s[i] = IF i <= Len(t) THEN t[i] ELSE sep[i - Len(t)]
    BY <1>1, ConcatProperties, LenProperties
  <1>3. \A j \in 1..Len(sep) : sep[j] = Blank
    BY <1>1, LenProperties DEF Range
  <1> HIDE DEF s
  <1>4. \A i \in Len(t) + 1..Len(s) : s[i] = Blank
    <2> SUFFICES ASSUME NEW i \in Len(t) + 1..Len(s) PROVE s[i] = Blank
      OBVIOUS
    <2>1. i \in 1..Len(t) + Len(sep) /\ ~(i <= Len(t)) /\ i - Len(t) \in 1..Len(sep)
      BY <1>2
    <2> QED
      BY <1>2, <1>3, <2>1
  <1>5. Len(t) # 0 => s[Len(t)] # Blank
    <2> SUFFICES ASSUME Len(t) # 0 PROVE s[Len(t)] # Blank
      OBVIOUS
    <2>1. t # <<>> /\ Len(t) \in 1..Len(t) + Len(sep) /\ Len(t) <= Len(t)
      BY <1>2, EmptySeq
    <2> QED
      BY <1>2, <2>1
  <1>6. Len(t) \in 0..Len(s)
    BY <1>2
  <1>7. Trimmed(s) = SubSeq(s, 1, Len(t))
    BY <1>2, <1>4, <1>5, <1>6, TrimmedIs
  <1>8. SubSeq(t \o sep, 1, Len(t)) = t
    BY <1>1, HalvesOf
  <1> QED
    BY <1>7, <1>8 DEF s, sep

-----------------------------------------------------------------------------
\* What splice does to the lines.

Others(s, o) == Trimmed(ForeignSeq(s, o))
Cut(s, o) == Min({At(s, o), Len(Others(s, o))})

LEMMA OthersType ==
    ASSUME NEW S, NEW s \in Seq(S), NEW o
    PROVE  /\ Others(s, o) \in Seq(S)
           /\ Others(s, o) # <<>> => Others(s, o)[Len(Others(s, o))] # Blank
           /\ Range(Others(s, o)) \subseteq Range(s) \ ManagedLines(S, o)
           /\ (Range(s) \ ManagedLines(S, o)) \ {Blank} \subseteq Range(Others(s, o))
  <1> DEFINE f == ForeignSeq(s, o)
  <1>1. f \in Seq(S) /\ Range(f) = Range(s) \ ManagedLines(S, o)
    <2>1. f = Among(s, S \ ManagedLines(S, o))
      BY ManagedIn
    <2>2. f \in Seq(S) /\ Range(f) = Range(s) \cap (S \ ManagedLines(S, o))
      BY <2>1, AmongType, AmongRange
    <2>3. Range(s) \subseteq S
      BY OwnLines
    <2> QED
      BY <2>2, <2>3
  <1> HIDE DEF f
  <1>2. /\ Trimmed(f) \in Seq(S)
        /\ Trimmed(f) # <<>> => Trimmed(f)[Len(Trimmed(f))] # Blank
        /\ Range(Trimmed(f)) \subseteq Range(f)
        /\ Range(f) \ {Blank} \subseteq Range(Trimmed(f))
    BY <1>1, TrimmedType
  <1>3. Others(s, o) = Trimmed(f)
    BY DEF Others, f
  <1> QED
    BY <1>1, <1>2, <1>3

LEMMA AtType ==
    ASSUME NEW S, NEW s \in Seq(S), NEW o
    PROVE  At(s, o) \in Nat
  <1> DEFINE found == {i \in DOMAIN s : IsManaged(s[i], o)}
  <1>1. DOMAIN s = 1..Len(s) /\ Len(s) \in Nat
    BY LenProperties
  <1>2. CASE found = {}
    BY <1>1, <1>2 DEF At
  <1>3. CASE found # {}
    <2>1. found \in SUBSET Nat
      BY <1>1
    <2>2. Min(found) \in found
      <3> HIDE DEF found
      <3> QED
        BY <1>3, <2>1, LeastOf
    <2>3. Min(found) \in 1..Len(s)
      BY <1>1, <2>2
    <2>4. At(s, o) = Min(found) - 1
      BY <1>3 DEF At
    <2> QED
      BY <1>1, <2>3, <2>4
  <1> QED
    BY <1>2, <1>3

LEMMA CutType ==
    ASSUME NEW S, NEW s \in Seq(S), NEW o
    PROVE  Cut(s, o) \in 0..Len(Others(s, o)) /\ (At(s, o) <= Len(Others(s, o)) => Cut(s, o) = At(s, o))
  <1> DEFINE a == At(s, o)
             n == Len(Others(s, o))
  <1>1. a \in Nat /\ n \in Nat
    BY AtType, OthersType, LenProperties
  <1>2. Cut(s, o) = Min({a, n})
    BY DEF Cut
  <1> HIDE DEF a, n
  <1>3. {a, n} \in SUBSET Nat /\ {a, n} # {}
    BY <1>1
  <1>4. Min({a, n}) \in {a, n} /\ \A m \in {a, n} : Min({a, n}) <= m
    BY <1>3, LeastOf
  <1> QED
    BY <1>1, <1>2, <1>4 DEF a, n

\* Lists, and one list behind another, under names the provers do not take apart.
Texts(S) == Seq(S)
Joint(s, t) == s \o t

\* What is before the tool's lines, those, and what is behind them.
Three(f, d, b) == f \o d \o b

LEMMA ThreeOfFour ==
    ASSUME NEW S, NEW f \in Texts(S), NEW d \in Texts(S), NEW e \in Texts(S), NEW u \in Texts(S)
    PROVE  Joint(Three(f, d, e), u) = Three(f, d, Joint(e, u))
  <1> USE DEF Texts
  <1> DEFINE g == f \o d
  <1>1. g \in Seq(S)
    BY ConcatProperties
  <1> HIDE DEF g
  <1>2. g \o e \o u = g \o (e \o u)
    BY <1>1, ConcatAssociative
  <1> QED
    BY <1>2, Zenon DEF Three, Joint, g

LEMMA Shifted ==
    ASSUME NEW S, NEW f \in Texts(S), NEW e \in Texts(S), NEW u \in Texts(S),
           NEW b, b = Joint(e, u), NEW w, w = Joint(f, e)
    PROVE  Joint(f, b) = Joint(w, u)
  BY ConcatAssociative DEF Texts, Joint

\* Where the parts of three lists are.
LEMMA Placed ==
    ASSUME NEW S, NEW f \in Texts(S), NEW d \in Texts(S), NEW b \in Texts(S)
    PROVE  /\ SubSeq(Three(f, d, b), 1, Len(f)) = f
           /\ SubSeq(Three(f, d, b), Len(f) + 1, Len(f) + Len(d)) = d
  <1> USE DEF Texts
  <1> DEFINE g == f \o d
             h == d \o b
  <1>1. g \in Seq(S) /\ Len(g) = Len(f) + Len(d) /\ h \in Seq(S) /\ Len(d) \in Nat /\ Len(f) \in Nat
    BY ConcatProperties, LenProperties
  <1>2. g \o b = f \o h
    BY ConcatAssociative
  <1>3. SubSeq(g, Len(f) + 1, Len(f) + Len(d)) = d
    BY HalvesOf
  <1> HIDE DEF g, h
  <1>4. SubSeq(g \o b, 1, Len(f)) = f
    BY <1>1, <1>2, HalvesOf
  <1>5. SubSeq(g \o b, Len(f) + 1, Len(f) + Len(d)) = SubSeq(g, Len(f) + 1, Len(f) + Len(d))
    <2>1. CASE Len(d) = 0
      BY <1>1, <2>1, SubSeqEmpty
    <2>2. CASE Len(d) # 0
      <3>1. Len(f) + 1 \in 1..Len(g) /\ Len(f) + Len(d) \in 1..Len(g)
        BY <1>1, <2>2
      <3> QED
        BY <1>1, <3>1, SubSeqOfConcat1
    <2> QED
      BY <2>1, <2>2
  <1> QED
    BY <1>3, <1>4, <1>5 DEF g, Three

\* The lines of three lists.
Threefold(S, f, d, b, s) ==
    /\ s \in Seq(S)
    /\ Len(s) = Len(f) + Len(d) + Len(b)
    /\ Range(s) = Range(f) \cup Range(d) \cup Range(b)
    /\ \A i \in 1..Len(f) : s[i] = f[i]
    /\ Len(d) # 0 => s[Len(f) + 1] = d[1]
    /\ d = <<>> => s = Joint(f, b)
    /\ SubSeq(s, 1, Len(f)) = f
    /\ SubSeq(s, Len(f) + 1, Len(f) + Len(d)) = d

LEMMA ThreeType ==
    ASSUME NEW S, NEW f \in Texts(S), NEW d \in Texts(S), NEW b \in Texts(S), NEW s, s = Three(f, d, b)
    PROVE  Threefold(S, f, d, b, s)
  <1> USE DEF Texts
  <1> DEFINE g == f \o d
  <1>1. /\ g \in Seq(S) /\ Len(g) = Len(f) + Len(d) /\ Range(g) = Range(f) \cup Range(d)
        /\ \A i \in 1..Len(f) + Len(d) : g[i] = IF i <= Len(f) THEN f[i] ELSE d[i - Len(f)]
        /\ Len(f) \in Nat /\ Len(d) \in Nat /\ Len(b) \in Nat
    BY ConcatProperties, LenProperties, RangeConcat
  <1>2. d = <<>> => g = f
    BY ConcatEmptySeq
  <1>3. s = g \o b
    BY Zenon DEF Three
  <1> HIDE DEF g
  <1>4. /\ s \in Seq(S) /\ Len(s) = Len(g) + Len(b) /\ Range(s) = Range(g) \cup Range(b)
        /\ \A i \in 1..Len(g) + Len(b) : s[i] = IF i <= Len(g) THEN g[i] ELSE b[i - Len(g)]
    <2>1. b \in Seq(S) /\ g \in Seq(S)
      BY <1>1
    <2>2. g \o b \in Seq(S) /\ Len(g \o b) = Len(g) + Len(b) /\ Range(g \o b) = Range(g) \cup Range(b)
      BY <2>1, ConcatProperties, RangeConcat
    <2>3. \A i \in 1..Len(g) + Len(b) : (g \o b)[i] = IF i <= Len(g) THEN g[i] ELSE b[i - Len(g)]
      BY <2>1, ConcatProperties
    <2> QED
      BY <1>3, <2>2, <2>3, Zenon
  <1>5. \A i \in 1..Len(f) : s[i] = f[i]
    BY <1>1, <1>4
  <1>6. Len(d) # 0 => s[Len(f) + 1] = d[1]
    <2> SUFFICES ASSUME Len(d) # 0 PROVE s[Len(f) + 1] = d[1]
      OBVIOUS
    <2>1. /\ Len(f) + 1 \in 1..Len(g) + Len(b) /\ Len(f) + 1 \in 1..Len(f) + Len(d)
          /\ Len(f) + 1 <= Len(g) /\ ~(Len(f) + 1 <= Len(f)) /\ (Len(f) + 1) - Len(f) = 1
      BY <1>1
    <2> QED
      BY <1>1, <1>4, <2>1
  <1>7. d = <<>> => s = Joint(f, b)
    BY <1>2, <1>3, Zenon DEF Joint
  <1>8. SubSeq(s, 1, Len(f)) = f /\ SubSeq(s, Len(f) + 1, Len(f) + Len(d)) = d
    BY Placed
  <1>9. s \in Seq(S) /\ Len(s) = Len(f) + Len(d) + Len(b) /\ Range(s) = Range(f) \cup Range(d) \cup Range(b)
    BY <1>1, <1>4
  <1> QED
    BY <1>5, <1>6, <1>7, <1>8, <1>9 DEF Threefold

LEMMA SpliceIs ==
    ASSUME NEW S, Blank \in S, NEW s \in Seq(S), NEW after, NEW d \in Seq(S), NEW o
    PROVE  SpliceSeq(s, after, d, o) =
              Three(SubSeq(Others(s, o), 1, Cut(s, o)), d,
                    Joint(SubSeq(Others(s, o), Cut(s, o) + 1, Len(Others(s, o))), Separator(after)))
  <1> DEFINE f == SubSeq(Others(s, o), 1, Cut(s, o))
             e == SubSeq(Others(s, o), Cut(s, o) + 1, Len(Others(s, o)))
             u == Separator(after)
  <1>1. SpliceSeq(s, after, d, o) = Joint(Three(f, d, e), u)
    BY Zenon DEF SpliceSeq, Others, Cut, Separator, Three, Joint
  <1>2. u \in Seq(S)
    BY SeparatorType
  <1>3. f \in Seq(S) /\ e \in Seq(S)
    <2> DEFINE out == Others(s, o)
               n == Cut(s, o)
    <2>1. out \in Seq(S) /\ n \in 0..Len(out)
      BY OthersType, CutType
    <2> HIDE DEF out, n
    <2>2. SubSeq(out, 1, n) \in Seq(S) /\ SubSeq(out, n + 1, Len(out)) \in Seq(S)
      BY <2>1, Halves
    <2> QED
      BY <2>2 DEF out, n
  <1> HIDE DEF f, e, u
  <1>4. Joint(Three(f, d, e), u) = Three(f, d, Joint(e, u))
    <2>1. f \in Texts(S) /\ d \in Texts(S) /\ e \in Texts(S) /\ u \in Texts(S)
      BY <1>2, <1>3 DEF Texts
    <2> QED
      BY <2>1, ThreeOfFour
  <1> QED
    BY <1>1, <1>4, Zenon DEF f, e, u

\* Lines of others, some of the tool's, and lines of others again.
Parted(S, o, f, d, b) ==
    /\ Range(d) \subseteq ManagedLines(S, o)
    /\ Range(f) \cap ManagedLines(S, o) = {} /\ Range(b) \cap ManagedLines(S, o) = {}

Sorted(o, f, d, b, s) ==
    /\ ManagedSeq(s, o) = d
    /\ ForeignSeq(s, o) = Joint(f, b)
    /\ At(s, o) = IF d = <<>> THEN Len(s) ELSE Len(f)

LEMMA Joined ==
    ASSUME NEW S, NEW o, NEW f \in Texts(S), NEW d \in Texts(S), NEW b \in Texts(S),
           Parted(S, o, f, d, b)
    PROVE  ManagedSeq(Three(f, d, b), o) = d /\ ForeignSeq(Three(f, d, b), o) = Joint(f, b)
  <1> USE DEF Texts, Parted
  <1> DEFINE M == ManagedLines(S, o)
             F == S \ M
  <1>1. Range(f) \subseteq F /\ Range(b) \subseteq F /\ Range(d) \cap F = {}
    BY OwnLines
  <1>2. f \o d \in Seq(S) /\ f \o d \o b \in Seq(S)
    BY ConcatProperties
  <1>3. ManagedSeq(f \o d \o b, o) = Among(f \o d \o b, M) /\ ForeignSeq(f \o d \o b, o) = Among(f \o d \o b, F)
    BY <1>2, ManagedIn
  <1> HIDE DEF M, F
  <1>4. ASSUME NEW T PROVE Among(f \o d \o b, T) = Among(f, T) \o Among(d, T) \o Among(b, T)
    <2>1. Among(f \o d, T) = Among(f, T) \o Among(d, T)
      BY AmongConcat
    <2> DEFINE g == f \o d
    <2>2. g \in Seq(S)
      BY <1>2
    <2> HIDE DEF g
    <2>3. Among(g \o b, T) = Among(g, T) \o Among(b, T)
      BY <2>2, AmongConcat
    <2> QED
      BY <2>1, <2>3 DEF g
  <1>5. Among(f, M) = <<>> /\ Among(d, M) = d /\ Among(b, M) = <<>>
    BY AmongAll, AmongNothing DEF M
  <1>6. Among(f, F) = f /\ Among(d, F) = <<>> /\ Among(b, F) = b
    BY <1>1, AmongAll, AmongNothing
  <1>7. Among(f \o d \o b, M) = <<>> \o d \o <<>> /\ Among(f \o d \o b, F) = f \o <<>> \o b
    BY <1>4, <1>5, <1>6
  <1>8. <<>> \o d = d /\ d \o <<>> = d /\ f \o <<>> = f
    BY ConcatEmptySeq
  <1>10. ManagedSeq(f \o d \o b, o) = d /\ ForeignSeq(f \o d \o b, o) = f \o b
    BY <1>3, <1>7, <1>8
  <1> QED
    BY <1>10, Zenon DEF Three, Joint

\* Where the first of the tool's lines is among them.
LEMMA JoinedAt ==
    ASSUME NEW S, NEW o, NEW f \in Texts(S), NEW d \in Texts(S), NEW b \in Texts(S),
           Parted(S, o, f, d, b), NEW s, s = Three(f, d, b)
    PROVE  Sorted(o, f, d, b, s)
  <1> DEFINE found == {i \in DOMAIN s : IsManaged(s[i], o)}
  <1>0. Threefold(S, f, d, b, s)
    BY ThreeType
  <1>0a. ManagedSeq(s, o) = d /\ ForeignSeq(s, o) = Joint(f, b)
    BY Joined
  <1> USE DEF Texts, Parted
  <1>1. Range(f) \subseteq S /\ Range(b) \subseteq S
    BY OwnLines
  <1>2. /\ \A l \in Range(f) \cup Range(b) : ~IsManaged(l, o)
        /\ \A l \in Range(d) : IsManaged(l, o)
    BY <1>1 DEF ManagedLines
  <1>3. /\ s \in Seq(S)
        /\ Len(s) = Len(f) + Len(d) + Len(b)
        /\ Range(s) = Range(f) \cup Range(d) \cup Range(b)
        /\ \A i \in 1..Len(f) : s[i] = f[i]
        /\ Len(d) # 0 => s[Len(f) + 1] = d[1]
    BY <1>0 DEF Threefold
  <1>4. DOMAIN s = 1..Len(s) /\ Len(f) \in Nat /\ Len(d) \in Nat /\ Len(b) \in Nat /\ Len(s) \in Nat
    BY <1>3, LenProperties
  <1>5. ASSUME d = <<>> PROVE At(s, o) = Len(s)
    <2>1. Range(d) = {}
      BY <1>5 DEF Range
    <2>2. found = {}
      BY <1>2, <1>3, <2>1 DEF Range
    <2> QED
      BY <2>2, Zenon DEF At
  <1>6. ASSUME d # <<>> PROVE At(s, o) = Len(f)
    <2>1. Len(d) # 0
      BY <1>6, EmptySeq
    <2>2. \A i \in 1..Len(f) : ~IsManaged(s[i], o)
      <3>1. \A i \in 1..Len(f) : f[i] \in Range(f)
        BY LenProperties DEF Range
      <3> QED
        BY <1>2, <1>3, <3>1
    <2>3. IsManaged(s[Len(f) + 1], o)
      <3>1. d[1] \in Range(d)
        BY <1>4, <2>1, LenProperties DEF Range
      <3> QED
        BY <1>2, <1>3, <2>1, <3>1
    <2>4. Len(f) + 1 \in found
      BY <1>3, <1>4, <2>1, <2>3
    <2>5. \A i \in found : i \in Nat /\ Len(f) + 1 <= i
      BY <1>4, <2>2
    <2>6. At(s, o) = Min(found) - 1
      BY <2>4, Zenon DEF At
    <2> HIDE DEF found
    <2>7. Min(found) \in found /\ \A n \in found : Min(found) <= n
      <3>1. found \in SUBSET Nat /\ found # {}
        BY <2>4, <2>5
      <3> QED
        BY <3>1, LeastOf
    <2>8. Min(found) \in Nat /\ Min(found) <= Len(f) + 1 /\ Len(f) + 1 <= Min(found)
      BY <2>4, <2>5, <2>7
    <2> QED
      BY <1>4, <2>6, <2>8
  <1>7. At(s, o) = IF d = <<>> THEN Len(s) ELSE Len(f)
    BY <1>5, <1>6, Zenon
  <1> QED
    BY <1>0a, <1>7, Zenon DEF Sorted

\* All there is to say of one splice: what it leaves of others' lines, where
\* the new ones stand, and that the next one finds nothing to do.
WellSpliced(S, s, after, d, o, once) ==
    /\ once \in Seq(S)
    /\ Range(once) \subseteq Range(Others(s, o)) \cup Range(d) \cup {Blank}
    /\ Range(Others(s, o)) \cup Range(d) \subseteq Range(once)
    /\ ManagedSeq(once, o) = d
    /\ Others(once, o) = Others(s, o)
    /\ SpliceSeq(once, after, d, o) = once
    /\ SubSeq(once, 1, Cut(s, o)) = SubSeq(Others(s, o), 1, Cut(s, o))
    /\ SubSeq(once, Cut(s, o) + 1, Cut(s, o) + Len(d)) = d

LEMMA Spliced ==
    ASSUME NEW S, Blank \in S, NEW o, ~IsManaged(Blank, o), NEW s \in Seq(S), NEW after,
           NEW d \in Seq(S), Range(d) \subseteq ManagedLines(S, o),
           NEW once, once = SpliceSeq(s, after, d, o)
    PROVE  WellSpliced(S, s, after, d, o, once)
  <1> DEFINE out == Others(s, o)
             n == Cut(s, o)
             sep == Separator(after)
             f == SubSeq(out, 1, n)
             e == SubSeq(out, n + 1, Len(out))
             b == Joint(e, sep)
  <1>1. /\ out \in Seq(S) /\ (out # <<>> => out[Len(out)] # Blank)
        /\ Range(out) \cap ManagedLines(S, o) = {}
    BY OthersType
  <1>2. n \in 0..Len(out)
    BY CutType
  <1>3. sep \in Seq(S) /\ Range(sep) \subseteq {Blank}
    BY SeparatorType
  <1>4. Trimmed(out \o sep) = out
    BY <1>1, TrimmedSeparated
  <1>5. once = Three(f, d, b)
    BY SpliceIs, Zenon
  <1>5a. Cut(s, o) = n /\ Others(s, o) = out
    OBVIOUS
  <1> HIDE DEF out, n, sep
  <1>6. /\ f \in Seq(S) /\ Len(f) = n /\ e \in Seq(S) /\ Joint(f, e) = out
        /\ Range(f) \subseteq Range(out) /\ Range(e) \subseteq Range(out)
    BY <1>1, <1>2, Halves DEF Joint
  <1> HIDE DEF f, e
  <1>7. b \in Seq(S) /\ Range(b) = Range(e) \cup Range(sep)
    BY <1>3, <1>6, ConcatProperties, RangeConcat DEF Joint
  <1>8. Range(f) \cap ManagedLines(S, o) = {} /\ Range(b) \cap ManagedLines(S, o) = {}
    BY <1>1, <1>3, <1>6, <1>7 DEF ManagedLines
  <1>9. Joint(f, b) = Joint(out, sep)
    <2>1. f \in Texts(S) /\ e \in Texts(S) /\ sep \in Texts(S)
      BY <1>3, <1>6 DEF Texts
    <2> QED
      BY <1>6, <2>1, Shifted
  <1> HIDE DEF b
  <1>10. f \in Texts(S) /\ d \in Texts(S) /\ b \in Texts(S)
    BY <1>6, <1>7 DEF Texts
  <1>10a. Parted(S, o, f, d, b)
    BY <1>8 DEF Parted
  <1>10b. Threefold(S, f, d, b, once)
    BY <1>5, <1>10, ThreeType
  <1>10c. Sorted(o, f, d, b, once)
    BY <1>5, <1>10, <1>10a, JoinedAt
  <1>11. /\ once \in Seq(S) /\ ManagedSeq(once, o) = d /\ ForeignSeq(once, o) = Joint(f, b)
         /\ Range(once) = Range(f) \cup Range(d) \cup Range(b)
    BY <1>10b, <1>10c DEF Threefold, Sorted
  <1>12. Others(once, o) = out
    BY <1>4, <1>9, <1>11, Zenon DEF Others, Joint
  <1>13. At(once, o) = IF d = <<>> THEN Len(once) ELSE n
    BY <1>6, <1>10c DEF Sorted
  <1>14. Range(once) = Range(out) \cup Range(d) \cup Range(sep)
    <2>1. Range(out) = Range(f) \cup Range(e)
      BY <1>6, RangeConcat DEF Joint
    <2> QED
      BY <1>7, <1>11, <2>1
  <1>15. SubSeq(once, 1, n) = f /\ SubSeq(once, n + 1, n + Len(d)) = d
    BY <1>6, <1>10b DEF Threefold
  <1>16. SpliceSeq(once, after, d, o) = once
    <2>1. SpliceSeq(once, after, d, o) =
             Three(SubSeq(out, 1, Cut(once, o)), d, Joint(SubSeq(out, Cut(once, o) + 1, Len(out)), sep))
      <3>1. SpliceSeq(once, after, d, o) =
              Three(SubSeq(Others(once, o), 1, Cut(once, o)), d,
                    Joint(SubSeq(Others(once, o), Cut(once, o) + 1, Len(Others(once, o))),
                          Separator(after)))
        BY <1>11, SpliceIs
      <3> QED
        BY <1>12, <3>1, Zenon DEF sep
    <2>2. CASE d # <<>>
      <3>1. Cut(once, o) = n
        BY <1>2, <1>11, <1>12, <1>13, <2>2, CutType
      <3> QED
        BY <1>5, <2>1, <3>1, Zenon DEF f, e, b
    <2>3. CASE d = <<>>
      <3>1. once = Joint(out, sep)
        BY <1>9, <1>10b, <2>3 DEF Threefold
      <3>2. Len(out) <= Len(once) /\ Len(out) \in Nat /\ Len(once) \in Nat
        BY <1>1, <1>3, <1>11, <3>1, ConcatProperties, LenProperties DEF Joint
      <3>3. Cut(once, o) = Len(out)
        <4>1. Cut(once, o) = Min({Len(once), Len(out)})
          BY <1>12, <1>13, <2>3, Zenon DEF Cut
        <4>2. {Len(once), Len(out)} \in SUBSET Nat /\ {Len(once), Len(out)} # {}
          BY <3>2
        <4> DEFINE T == {Len(once), Len(out)}
        <4>3. Min(T) \in T /\ \A m \in T : Min(T) <= m
          <5> HIDE DEF T
          <5>1. T \in SUBSET Nat /\ T # {}
            BY <4>2 DEF T
          <5> QED
            BY <5>1, LeastOf
        <4> QED
          BY <3>2, <4>1, <4>3
      <3>4. SubSeq(out, 1, Len(out)) = out /\ SubSeq(out, Len(out) + 1, Len(out)) = <<>>
        BY <1>1, <3>2, SubSeqFull, SubSeqEmpty
      <3>5. out \o <<>> = out /\ <<>> \o sep = sep
        BY <1>1, <1>3, ConcatEmptySeq
      <3>6. SpliceSeq(once, after, d, o) = out \o <<>> \o (<<>> \o sep)
        BY <2>1, <2>3, <3>3, <3>4, Zenon DEF Three, Joint
      <3> QED
        BY <3>1, <3>5, <3>6, Zenon DEF Joint
    <2> QED
      BY <2>2, <2>3
  <1>17. Range(once) \subseteq Range(out) \cup Range(d) \cup {Blank} /\ Range(out) \cup Range(d) \subseteq Range(once)
    BY <1>3, <1>14
  <1>18. SubSeq(once, 1, n) = SubSeq(out, 1, n)
    BY <1>15 DEF f
  <1> QED
    BY <1>5a, <1>11, <1>12, <1>15, <1>16, <1>17, <1>18 DEF WellSpliced

-----------------------------------------------------------------------------
\* What the tool writes is its own.

\* The lines of a block: cards by their minors, and the others.
CardLines(cards) == [i \in DOMAIN cards |-> Allow(NvidiaMajor, cards[i].minor)]
ModesetLines(caps) ==
    IF caps \cap {"graphics", "display"} # {} THEN <<Allow(NvidiaMajor, ModesetMinor)>> ELSE <<>>
CtlLines == <<Allow(NvidiaMajor, CtlMinor)>>
Major(uvm) == CHOOSE m \in uvm : TRUE
UvmLines(uvm) ==
    IF uvm = {} THEN <<>> ELSE <<Allow(Major(uvm), 0), Allow(Major(uvm), 1)>>
HookLines(gpus) == <<HookLine, EnvLine(VisibleDevices, {g.uuid : g \in gpus})>>
CapsLines(caps) == IF caps = {} THEN <<>> ELSE <<EnvLine(DriverCapabilities, caps)>>
CudaLines(cuda) == IF cuda = {} THEN <<>> ELSE <<EnvLine(RequireCuda, cuda)>>

LEMMA RenderParts ==
    ASSUME NEW gpus, gpus # {}, NEW caps, NEW cuda, NEW uvm
    PROVE  RenderSeq(gpus, caps, cuda, uvm) =
              CardLines(ByMinor(gpus)) \o ModesetLines(caps) \o CtlLines \o UvmLines(uvm)
              \o HookLines(gpus) \o CapsLines(caps) \o CudaLines(cuda)
  BY Zenon DEF RenderSeq, CardLines, ModesetLines, CtlLines, UvmLines, Major, HookLines,
               CapsLines, CudaLines

\* Of up to two lines.
LEMMA Few ==
    ASSUME NEW x, NEW y
    PROVE  /\ <<>> \in Seq({}) /\ Range(<<>>) = {}
           /\ <<x>> \in Seq({x}) /\ Range(<<x>>) = {x}
           /\ <<x, y>> \in Seq({x, y}) /\ Range(<<x, y>>) = {x, y}
  <1>1. <<>> \in Seq({}) /\ Range(<<>>) = {}
    BY EmptySeq DEF Range
  <1>2. <<x>> \in Seq({x}) /\ Range(<<x>>) = {x}
    <2>1. DOMAIN <<x>> = {1} /\ <<x>>[1] = x
      OBVIOUS
    <2> QED
      BY <2>1 DEF Range
  <1>3. <<x, y>> \in Seq({x, y}) /\ Range(<<x, y>>) = {x, y}
    <2>1. DOMAIN <<x, y>> = {1, 2} /\ <<x, y>>[1] = x /\ <<x, y>>[2] = y
      OBVIOUS
    <2>2. Range(<<x, y>>) = {x, y}
      BY <2>1 DEF Range
    <2> QED
      BY <2>2
  <1> QED
    BY <1>1, <1>2, <1>3

\* A list of its own lines.
Listed(s, T) == s \in Seq(T) /\ Range(s) = T

LEMMA ListedBehind ==
    ASSUME NEW S, NEW T, NEW s, NEW t, Listed(s, S), Listed(t, T)
    PROVE  Listed(s \o t, S \cup T)
  <1> DEFINE U == S \cup T
  <1>1. s \in Seq(S) /\ t \in Seq(T) /\ Range(s) = S /\ Range(t) = T
    BY DEF Listed
  <1>2. s \in Seq(U) /\ t \in Seq(U)
    <2>1. S \subseteq U /\ T \subseteq U
      OBVIOUS
    <2> HIDE DEF U
    <2> QED
      BY <1>1, <2>1, SeqMonotonic
  <1> HIDE DEF U
  <1>3. s \o t \in Seq(U) /\ Range(s \o t) = Range(s) \cup Range(t)
    BY <1>2, ConcatProperties, RangeConcat
  <1>4. U = S \cup T
    BY DEF U
  <1> QED
    BY <1>1, <1>3, <1>4 DEF Listed

LEMMA RenderListed ==
    ASSUME NEW gpus, gpus # {}, NEW caps, NEW cuda, NEW uvm,
           NEW C, Listed(CardLines(ByMinor(gpus)), C)
    PROVE  Listed(RenderSeq(gpus, caps, cuda, uvm),
              C \cup Range(ModesetLines(caps)) \cup {Allow(NvidiaMajor, CtlMinor)}
                \cup Range(UvmLines(uvm))
                \cup {HookLine, EnvLine(VisibleDevices, {g.uuid : g \in gpus})}
                \cup Range(CapsLines(caps)) \cup Range(CudaLines(cuda)))
  <1> DEFINE a == CardLines(ByMinor(gpus))
             m == ModesetLines(caps)
             c == CtlLines
             u == UvmLines(uvm)
             h == HookLines(gpus)
             p == CapsLines(caps)
             q == CudaLines(cuda)
             Cm == Range(m)
             Cu == Range(u)
             Cp == Range(p)
             Cq == Range(q)
             Cc == {Allow(NvidiaMajor, CtlMinor)}
             Ch == {HookLine, EnvLine(VisibleDevices, {g.uuid : g \in gpus})}
  <1>1. Listed(m, Cm)
    BY Few DEF Listed, ModesetLines
  <1>2. Listed(c, Cc)
    BY Few DEF Listed, CtlLines
  <1>3. Listed(u, Cu)
    BY Few DEF Listed, UvmLines
  <1>4. Listed(h, Ch)
    BY Few DEF Listed, HookLines
  <1>5. Listed(p, Cp)
    BY Few DEF Listed, CapsLines
  <1>6. Listed(q, Cq)
    BY Few DEF Listed, CudaLines
  <1>7. RenderSeq(gpus, caps, cuda, uvm) = a \o m \o c \o u \o h \o p \o q
    BY RenderParts
  <1>8. Listed(a, C)
    OBVIOUS
  <1> HIDE DEF a, m, c, u, h, p, q, Cm, Cu, Cp, Cq, Cc, Ch
  <1>9. Listed(a \o m, C \cup Cm)
    BY <1>1, <1>8, ListedBehind
  <1>10. Listed(a \o m \o c, C \cup Cm \cup Cc)
    BY <1>2, <1>9, ListedBehind
  <1>11. Listed(a \o m \o c \o u, C \cup Cm \cup Cc \cup Cu)
    BY <1>3, <1>10, ListedBehind
  <1>12. Listed(a \o m \o c \o u \o h, C \cup Cm \cup Cc \cup Cu \cup Ch)
    BY <1>4, <1>11, ListedBehind
  <1>13. Listed(a \o m \o c \o u \o h \o p, C \cup Cm \cup Cc \cup Cu \cup Ch \cup Cp)
    BY <1>5, <1>12, ListedBehind
  <1>14. Listed(a \o m \o c \o u \o h \o p \o q, C \cup Cm \cup Cc \cup Cu \cup Ch \cup Cp \cup Cq)
    BY <1>6, <1>13, ListedBehind
  <1> QED
    BY <1>7, <1>14, Zenon DEF Cm, Cu, Cp, Cq, Cc, Ch, m, u, p, q

-----------------------------------------------------------------------------
\* The cards by their minors: every card, once.

Numbered(gpus) ==
    /\ IsFiniteSet(gpus)
    /\ \A g \in gpus : g.minor \in Nat
    /\ \A g, h \in gpus : g.minor = h.minor => g = h

LEMMA ByMinorRange ==
    ASSUME NEW gpus, Numbered(gpus)
    PROVE  /\ DOMAIN ByMinor(gpus) = 1..Cardinality(gpus) /\ Cardinality(gpus) \in Nat
           /\ {ByMinor(gpus)[i] : i \in 1..Cardinality(gpus)} = gpus
  <1> DEFINE n == Cardinality(gpus)
             Below(g) == {h \in gpus : h.minor < g.minor}
             rank == [g \in gpus |-> Cardinality(Below(g))]
  <1>1. IsFiniteSet(gpus) /\ n \in Nat
    BY FS_CardinalityType DEF Numbered
  <1>2. \A g \in gpus : IsFiniteSet(Below(g)) /\ Cardinality(Below(g)) \in Nat
    <2> SUFFICES ASSUME NEW g \in gpus
                 PROVE  IsFiniteSet(Below(g)) /\ Cardinality(Below(g)) \in Nat
      OBVIOUS
    <2>1. Below(g) \in SUBSET gpus
      OBVIOUS
    <2> HIDE DEF Below
    <2> QED
      BY <1>1, <2>1, FS_Subset, FS_CardinalityType
  <1>3. \A g \in gpus : rank[g] \in 0..n - 1
    <2> SUFFICES ASSUME NEW g \in gpus PROVE Cardinality(Below(g)) \in 0..n - 1
      OBVIOUS
    <2>1. Below(g) \in SUBSET (gpus \ {g})
      BY DEF Numbered
    <2>2. IsFiniteSet(gpus \ {g}) /\ Cardinality(gpus \ {g}) = n - 1
      BY <1>1, FS_RemoveElement
    <2>3. Cardinality(Below(g)) \in Nat
      BY <1>2
    <2> HIDE DEF Below
    <2>4. Cardinality(Below(g)) <= Cardinality(gpus \ {g})
      BY <2>1, <2>2, FS_Subset
    <2> QED
      BY <1>1, <2>2, <2>3, <2>4
  <1>4. ASSUME NEW g \in gpus, NEW h \in gpus, g.minor < h.minor PROVE rank[g] < rank[h]
    <2>1. Below(g) \cup {g} \in SUBSET Below(h) /\ g \notin Below(g)
      BY <1>4 DEF Numbered
    <2>2. IsFiniteSet(Below(g)) /\ IsFiniteSet(Below(h))
      BY <1>2
    <2>3. Cardinality(Below(g)) \in Nat /\ Cardinality(Below(h)) \in Nat
      BY <1>2
    <2>4. rank[g] = Cardinality(Below(g)) /\ rank[h] = Cardinality(Below(h))
      OBVIOUS
    <2> HIDE DEF Below, rank
    <2>5. Cardinality(Below(g) \cup {g}) = Cardinality(Below(g)) + 1
      BY <2>1, <2>2, FS_AddElement
    <2>6. Cardinality(Below(g) \cup {g}) <= Cardinality(Below(h))
      BY <2>1, <2>2, FS_Subset
    <2> QED
      BY <2>3, <2>4, <2>5, <2>6
  <1>5. ASSUME NEW g \in gpus, NEW h \in gpus, rank[g] = rank[h] PROVE g = h
    <2>1. rank[g] \in Nat /\ rank[h] \in Nat
      BY <1>3
    <2>2. ~(g.minor < h.minor) /\ ~(h.minor < g.minor)
      <3> HIDE DEF rank
      <3> QED
        BY <1>4, <1>5, <2>1
    <2> QED
      BY <2>2 DEF Numbered
  <1>6. rank \in Surjection(gpus, 0..n - 1)
    <2>1. rank \in [gpus -> 0..n - 1]
      BY <1>3
    <2>2. rank \in Injection(gpus, 0..n - 1)
      <3> HIDE DEF rank
      <3> QED
        BY <1>5, <2>1, Fun_IsInj
    <2>3. IsFiniteSet(0..n - 1) /\ Cardinality(0..n - 1) = n
      <3>1. 0 \in Int /\ n - 1 \in Int
        BY <1>1
      <3>2. Cardinality(0..n - 1) = IF 0 > n - 1 THEN 0 ELSE (n - 1) - 0 + 1
        BY <3>1, FS_Interval
      <3> QED
        BY <1>1, <3>1, <3>2, FS_Interval
    <2> HIDE DEF rank, n
    <2> QED
      BY <2>2, <2>3, FS_Injection DEF n
  <1>7. \A i \in 1..n : \E g \in gpus : rank[g] = i - 1
    <2> SUFFICES ASSUME NEW i \in 1..n PROVE \E g \in gpus : rank[g] = i - 1
      OBVIOUS
    <2>1. i - 1 \in 0..n - 1
      BY <1>1
    <2> HIDE DEF rank
    <2> QED
      BY <1>6, <2>1 DEF Surjection
  <1>8. ByMinor(gpus) = [i \in 1..n |-> CHOOSE g \in gpus : Cardinality(Below(g)) = i - 1]
    BY Zenon DEF ByMinor
  <1>9. ASSUME NEW i \in 1..n, NEW g \in gpus, rank[g] = i - 1 PROVE ByMinor(gpus)[i] = g
    <2> DEFINE c == CHOOSE h \in gpus : Cardinality(Below(h)) = i - 1
    <2>1. ByMinor(gpus)[i] = c
      BY <1>8
    <2>2. Cardinality(Below(g)) = i - 1
      BY <1>9
    <2> HIDE DEF Below
    <2>3. c \in gpus /\ Cardinality(Below(c)) = i - 1
      BY <2>2
    <2> HIDE DEF c
    <2>4. rank[c] = rank[g]
      BY <2>2, <2>3
    <2> HIDE DEF rank
    <2> QED
      BY <1>5, <2>1, <2>3, <2>4
  <1>10. \A i \in 1..n : ByMinor(gpus)[i] \in gpus
    <2> HIDE DEF rank
    <2> QED
      BY <1>7, <1>9
  <1>11. ASSUME NEW g \in gpus PROVE \E i \in 1..n : ByMinor(gpus)[i] = g
    <2>1. rank[g] + 1 \in 1..n /\ rank[g] = (rank[g] + 1) - 1
      <3>1. rank[g] \in 0..n - 1
        BY <1>3
      <3> HIDE DEF rank
      <3> QED
        BY <1>1, <3>1
    <2> HIDE DEF rank
    <2> QED
      BY <1>9, <2>1
  <1>12. DOMAIN ByMinor(gpus) = 1..n
    BY <1>8
  <1> QED
    BY <1>1, <1>10, <1>11, <1>12

LEMMA CardsListed ==
    ASSUME NEW gpus, Numbered(gpus)
    PROVE  Listed(CardLines(ByMinor(gpus)), {Allow(NvidiaMajor, g.minor) : g \in gpus})
  <1> DEFINE n == Cardinality(gpus)
             cards == ByMinor(gpus)
             C == {Allow(NvidiaMajor, g.minor) : g \in gpus}
             s == CardLines(cards)
  <1>1. DOMAIN cards = 1..n /\ n \in Nat /\ {cards[i] : i \in 1..n} = gpus
    BY ByMinorRange
  <1> HIDE DEF n, cards
  <1>2. s = [i \in 1..n |-> Allow(NvidiaMajor, cards[i].minor)]
    BY <1>1 DEF CardLines
  <1>3. \A i \in 1..n : s[i] \in C
    BY <1>1, <1>2
  <1>4. \A g \in gpus : \E i \in 1..n : s[i] = Allow(NvidiaMajor, g.minor)
    BY <1>1, <1>2
  <1>5. s \in [1..n -> C]
    BY <1>2, <1>3
  <1>6. s \in Seq(C)
    <2> HIDE DEF s, C
    <2> QED
      BY <1>1, <1>5, SeqDef
  <1>7. Range(s) = C
    <2>1. DOMAIN s = 1..n
      BY <1>2
    <2>2. Range(s) = {s[i] : i \in 1..n}
      BY <2>1 DEF Range
    <2>3. Range(s) \subseteq C
      BY <1>3, <2>2
    <2>4. C \subseteq Range(s)
      BY <1>4, <2>2
    <2> QED
      BY <2>3, <2>4
  <1> QED
    BY <1>6, <1>7 DEF Listed, cards

\* An inventory as the assumption has it.
Sound(inv) ==
    /\ Numbered(inv.gpus)
    /\ {NvidiaMajor, Wildcard} \cap inv.uvm = {}
    /\ \A m, n \in inv.uvm : m = n

LEMMA StocksSound == ASSUME NEW inv \in Stocks PROVE Sound(inv)
  BY ConfFileAssumption DEF Sound, Numbered

\* The block of a document with at most one version is what GpuLines says.
LEMMA RenderedSet ==
    ASSUME NEW inv, Sound(inv), NEW w, \A x, y \in w.require_cuda : x = y
    PROVE  LET s == RenderSeq(Selected(w, inv), CapabilityList(w), w.require_cuda, inv.uvm)
           IN Listed(s, Wanted(w, inv))
  <1> DEFINE gpus == Selected(w, inv)
             caps == CapabilityList(w)
             cuda == w.require_cuda
             uvm == inv.uvm
             C == {Allow(NvidiaMajor, g.minor) : g \in gpus}
  <1>1. gpus \in SUBSET inv.gpus
    BY DEF Selected
  <1>2. Numbered(gpus)
    <2>1. IsFiniteSet(gpus)
      <3> HIDE DEF gpus
      <3> QED
        BY <1>1, FS_Subset DEF Sound, Numbered
    <2> QED
      BY <1>1, <2>1 DEF Sound, Numbered
  <1>3. (\A m, n \in uvm : m = n) /\ (\A x, y \in cuda : x = y)
    BY DEF Sound
  <1>4. Wanted(w, inv) = Render(gpus, caps, cuda, uvm)
    BY DEF Wanted
  <1> HIDE DEF gpus, caps, cuda, uvm
  <1>5. CASE gpus = {}
    <2>1. RenderSeq(gpus, caps, cuda, uvm) = <<>> /\ Render(gpus, caps, cuda, uvm) = {}
      BY <1>5 DEF RenderSeq, Render
    <2>2. Listed(<<>>, {})
      BY Few DEF Listed
    <2> QED
      BY <1>4, <2>1, <2>2 DEF gpus, caps, cuda, uvm
  <1>6. CASE gpus # {}
    <2> DEFINE M == Range(ModesetLines(caps))
               U == Range(UvmLines(uvm))
               P == Range(CapsLines(caps))
               Q == Range(CudaLines(cuda))
               Top == {Allow(NvidiaMajor, CtlMinor)}
               Mid == {HookLine, EnvLine(VisibleDevices, {g.uuid : g \in gpus})}
    <2>1. Listed(CardLines(ByMinor(gpus)), C)
      BY <1>2, CardsListed
    <2>2. Listed(RenderSeq(gpus, caps, cuda, uvm), C \cup M \cup Top \cup U \cup Mid \cup P \cup Q)
      <3> HIDE DEF C
      <3> QED
        BY <1>6, <2>1, RenderListed
    <2>3. M = {Allow(NvidiaMajor, ModesetMinor) : c \in caps \cap {"graphics", "display"}}
      <3> DEFINE X == caps \cap {"graphics", "display"}
                 l == Allow(NvidiaMajor, ModesetMinor)
      <3>0. ModesetLines(caps) = IF X # {} THEN <<l>> ELSE <<>>
        BY DEF ModesetLines
      <3> HIDE DEF X, l
      <3>1. CASE X = {}
        <4>1. M = {}
          BY <3>0, <3>1, Few
        <4>2. {l : c \in X} = {}
          BY <3>1
        <4> QED
          BY <4>1, <4>2 DEF X, l
      <3>2. CASE X # {}
        <4>1. M = {l}
          BY <3>0, <3>2, Few
        <4>2. {l : c \in X} = {l}
          BY <3>2
        <4> QED
          BY <4>1, <4>2 DEF X, l
      <3> QED
        BY <3>1, <3>2
    <2>4. U = {Allow(m, i) : m \in uvm, i \in {0, 1}}
      <3>1. CASE uvm = {}
        <4>1. UvmLines(uvm) = <<>>
          BY <3>1 DEF UvmLines
        <4>2. U = {}
          BY <4>1, Few
        <4>3. {Allow(m, i) : m \in uvm, i \in {0, 1}} = {}
          BY <3>1
        <4> QED
          BY <4>2, <4>3
      <3>2. CASE uvm # {}
        <4>1. PICK m \in uvm : Major(uvm) = m
          BY <3>2 DEF Major
        <4>2. uvm = {m}
          BY <1>3, <4>1
        <4>3. UvmLines(uvm) = <<Allow(m, 0), Allow(m, 1)>>
          BY <3>2, <4>1 DEF UvmLines
        <4>4. Range(<<Allow(m, 0), Allow(m, 1)>>) = {Allow(m, 0), Allow(m, 1)}
          BY Few
        <4> QED
          BY <4>2, <4>3, <4>4
      <3> QED
        BY <3>1, <3>2
    <2>5. P = IF caps = {} THEN {} ELSE {EnvLine(DriverCapabilities, caps)}
      BY Few DEF CapsLines
    <2>6. Q = {EnvLine(RequireCuda, {v}) : v \in cuda}
      <3>1. CASE cuda = {}
        BY <3>1, Few DEF CudaLines
      <3>2. CASE cuda # {}
        <4>1. PICK v \in cuda : cuda = {v}
          BY <1>3, <3>2
        <4>2. CudaLines(cuda) = <<EnvLine(RequireCuda, cuda)>>
          BY <3>2 DEF CudaLines
        <4>3. Range(<<EnvLine(RequireCuda, cuda)>>) = {EnvLine(RequireCuda, cuda)}
          BY Few
        <4> QED
          BY <4>1, <4>2, <4>3
      <3> QED
        BY <3>1, <3>2
    <2> HIDE DEF M, U, P, Q
    <2>7. Render(gpus, caps, cuda, uvm) = C \cup M \cup Top \cup U \cup Mid \cup P \cup Q
      <3>1. Render(gpus, caps, cuda, uvm) =
               C \cup M \cup {Allow(NvidiaMajor, CtlMinor), HookLine,
                              EnvLine(VisibleDevices, {g.uuid : g \in gpus})}
               \cup U \cup P \cup Q
        <4>1. Render(gpus, caps, cuda, uvm) =
                 {Allow(NvidiaMajor, g.minor) : g \in gpus}
                 \cup {Allow(NvidiaMajor, ModesetMinor) : c \in caps \cap {"graphics", "display"}}
                 \cup {Allow(NvidiaMajor, CtlMinor), HookLine,
                       EnvLine(VisibleDevices, {g.uuid : g \in gpus})}
                 \cup {Allow(m, i) : m \in uvm, i \in {0, 1}}
                 \cup (IF caps = {} THEN {} ELSE {EnvLine(DriverCapabilities, caps)})
                 \cup {EnvLine(RequireCuda, {v}) : v \in cuda}
          BY <1>6 DEF Render
        <4> QED
          BY <2>3, <2>4, <2>5, <2>6, <4>1
      <3> HIDE DEF C
      <3> QED
        BY <3>1
    <2> QED
      BY <1>4, <2>2, <2>7, Zenon DEF gpus, caps, cuda, uvm
  <1> QED
    BY <1>5, <1>6

-----------------------------------------------------------------------------
AnyMajors == UNION {s.uvm : s \in Stocks}

\* The inductive invariant: types alone.
FInv ==
    /\ main \in Seq(Range(main))
    /\ stock \in Stocks
    /\ said \in {{}} \cup {{v} : v \in Subtrees}
    /\ remembered \in Seq(AnyMajors)

\* A document says at most one version.
LEMMA OneVersion ==
    ASSUME NEW v \in Subtrees, NEW w \in Parse(v)
    PROVE  \A x, y \in w.require_cuda : x = y
  <1>1. w.require_cuda = UNION {Versions(u) : u \in Under(v, "require_cuda")}
    BY DEF Parse
  <1>2. \A a, b \in Under(v, "require_cuda") : a = b
    <2>1. \A e, f \in v.entries : e.key.word.is = f.key.word.is => e = f
      BY ConfFileAssumption
    <2> QED
      BY <2>1, Zenon DEF Under
  <1>3. \A u : \A x, y \in Versions(u) : x = y
    BY DEF Versions
  <1> HIDE DEF Parse
  <1> QED
    BY <1>1, <1>2, <1>3

LEMMA OneMeaning ==
    ASSUME FInv, NEW w \in Want
    PROVE  Want = {w} /\ \E v \in Subtrees : w \in Parse(v)
  <1>1. PICK v \in Subtrees : said = {v} /\ w \in Meaning[v]
    BY DEF FInv, Want
  <1>2. Want = Parse(v)
    BY <1>1 DEF Want, Meaning
  <1>3. \A x, y \in Parse(v) : x = y
    BY DEF Parse
  <1> QED
    BY <1>2, <1>3

\* The block a reconcile asks for: the lines GpuLines says, all of them its own.
LEMMA DesiredLines ==
    ASSUME FInv
    PROVE  /\ Listed(DesiredNow, UNION {Wanted(w, stock) : w \in Want})
           /\ \A l \in Range(DesiredNow) :
                 /\ IsManaged(l, OwnedNow)
                 /\ l.key = "allow" => l.major \in {NvidiaMajor} \cup stock.uvm
  <1>1. CASE Want = {}
    <2>1. DesiredNow = <<>> /\ UNION {Wanted(w, stock) : w \in Want} = {}
      BY <1>1 DEF DesiredNow, DesiredOf
    <2>2. Listed(<<>>, {}) /\ Range(<<>>) = {}
      BY Few DEF Listed
    <2> QED
      BY <2>1, <2>2
  <1>2. CASE Want # {}
    <2> DEFINE w == CHOOSE w \in Want : TRUE
    <2>1. w \in Want
      BY <1>2
    <2>2. DesiredNow = RenderSeq(Selected(w, stock), CapabilityList(w), w.require_cuda, stock.uvm)
      BY <1>2 DEF DesiredNow, DesiredOf
    <2> HIDE DEF w
    <2>3. Want = {w} /\ \E v \in Subtrees : w \in Parse(v)
      BY <2>1, OneMeaning
    <2>4. \A x, y \in w.require_cuda : x = y
      BY <2>3, OneVersion
    <2>5. Sound(stock)
      BY StocksSound DEF FInv
    <2>6. Listed(DesiredNow, Wanted(w, stock))
      BY <2>2, <2>4, <2>5, RenderedSet
    <2>7. UNION {Wanted(x, stock) : x \in Want} = Wanted(w, stock)
      BY <2>3
    <2>8. ASSUME NEW l \in Wanted(w, stock)
          PROVE  /\ IsManaged(l, OwnedNow)
                 /\ l.key = "allow" => l.major \in {NvidiaMajor} \cup stock.uvm
      <3>1. OwnedNow.uvm = stock.uvm
        BY DEF OwnedNow, OwnedBy
      <3>2. \/ \E g \in Selected(w, stock) : l = Allow(NvidiaMajor, g.minor)
            \/ l = Allow(NvidiaMajor, ModesetMinor) \/ l = Allow(NvidiaMajor, CtlMinor)
            \/ l = HookLine
            \/ \E m \in stock.uvm : \E i \in {0, 1} : l = Allow(m, i)
            \/ \E name \in NvidiaNames : \E data : l = EnvLine(name, data)
        <4> DEFINE gpus == Selected(w, stock)
                   caps == CapabilityList(w)
                   cuda == w.require_cuda
                   uvm == stock.uvm
        <4>1. l \in Render(gpus, caps, cuda, uvm)
          BY DEF Wanted
        <4> HIDE DEF gpus, caps, cuda, uvm
        <4>2. gpus # {}
          BY <4>1 DEF Render
        <4>3. \/ l \in {Allow(NvidiaMajor, g.minor) : g \in gpus}
              \/ l \in {Allow(NvidiaMajor, ModesetMinor) : c \in caps \cap {"graphics", "display"}}
              \/ l \in {Allow(NvidiaMajor, CtlMinor), HookLine,
                       EnvLine(VisibleDevices, {g.uuid : g \in gpus})}
              \/ l \in {Allow(m, i) : m \in uvm, i \in {0, 1}}
              \/ caps # {} /\ l = EnvLine(DriverCapabilities, caps)
              \/ l \in {EnvLine(RequireCuda, {v}) : v \in cuda}
          BY <4>1, <4>2 DEF Render
        <4>4. {VisibleDevices, DriverCapabilities, RequireCuda} \subseteq NvidiaNames
          BY DEF NvidiaNames
        <4>5. \/ \E g \in gpus : l = Allow(NvidiaMajor, g.minor)
              \/ l = Allow(NvidiaMajor, ModesetMinor) \/ l = Allow(NvidiaMajor, CtlMinor)
              \/ l = HookLine
              \/ \E m \in uvm : \E i \in {0, 1} : l = Allow(m, i)
              \/ \E name \in {VisibleDevices, DriverCapabilities, RequireCuda} : \E data :
                    l = EnvLine(name, data)
          <5>2. CASE l \in {EnvLine(RequireCuda, {v}) : v \in cuda}
            BY <5>2
          <5>3. CASE caps # {} /\ l = EnvLine(DriverCapabilities, caps)
            BY <5>3
          <5>4. CASE l \in {Allow(NvidiaMajor, CtlMinor), HookLine,
                            EnvLine(VisibleDevices, {g.uuid : g \in gpus})}
            BY <5>4
          <5>5. CASE l \in {Allow(m, i) : m \in uvm, i \in {0, 1}}
            BY <5>5
          <5>6. CASE l \in {Allow(NvidiaMajor, ModesetMinor) : c \in caps \cap {"graphics", "display"}}
            BY <5>6
          <5>7. CASE l \in {Allow(NvidiaMajor, g.minor) : g \in gpus}
            BY <5>7
          <5> QED
            BY <4>3, <5>2, <5>3, <5>4, <5>5, <5>6, <5>7
        <4> QED
          BY <4>4, <4>5 DEF gpus, uvm
      <3>3. \A i : LET a == Allow(NvidiaMajor, i)
                   IN IsManaged(a, OwnedNow) /\ a.major = NvidiaMajor
        BY DEF Allow, IsManaged, Owns, NvidiaMajor, Wildcard
      <3>4. \A m \in stock.uvm : \A i :
               LET a == Allow(m, i) IN IsManaged(a, OwnedNow) /\ a.major = m
        BY <2>5, <3>1 DEF Allow, IsManaged, Owns, Sound
      <3>5. IsManaged(HookLine, OwnedNow) /\ HookLine.key # "allow"
        BY DEF HookLine, Plain, IsManaged
      <3>6. \A name \in NvidiaNames : \A data :
               LET a == EnvLine(name, data) IN IsManaged(a, OwnedNow) /\ a.key # "allow"
        BY DEF EnvLine, Plain, IsManaged
      <3> QED
        BY <3>2, <3>3, <3>4, <3>5, <3>6
    <2> QED
      BY <2>6, <2>7, <2>8 DEF Listed
  <1> QED
    BY <1>1, <1>2

-----------------------------------------------------------------------------
\* Every step keeps it.

\* The list once the loaded module's major has been noted.
LEMMA ListNoted ==
    ASSUME FInv
    PROVE  LET new == Noted(remembered, remembered, stock.uvm)
           IN /\ new \in Seq(AnyMajors)
              /\ stock.uvm # {} => new # <<>> /\ stock.uvm = {new[1]}
              /\ remembered # <<>> => remembered[1] \in Elements(new)
  <1> DEFINE new == Noted(remembered, remembered, stock.uvm)
  <1>1. stock.uvm \in SUBSET AnyMajors /\ \A m, n \in stock.uvm : m = n
    BY StocksSound DEF FInv, Sound, AnyMajors
  <1>2. /\ new \in Seq(AnyMajors)
        /\ stock.uvm # {} => new # <<>> /\ new[1] \in stock.uvm
        /\ remembered # <<>> => remembered[1] \in Elements(new)
    BY <1>1, NotedList DEF FInv
  <1> HIDE DEF new
  <1>3. stock.uvm # {} => stock.uvm = {new[1]}
    BY <1>1, <1>2
  <1> QED
    BY <1>2, <1>3 DEF new

LEMMA InitFiles == Init => FInv
  <1> SUFFICES ASSUME Init PROVE FInv
    OBVIOUS
  <1>1. main \in Seq(Range(main))
    <2>1. main = <<>> \/ (\E l : main = <<l>>) \/ (\E k, l : main = <<k, l>>)
      BY DEF Init
    <2>2. CASE main = <<>>
      BY <2>2, Few
    <2>3. ASSUME NEW l, main = <<l>> PROVE main \in Seq(Range(main))
      BY <2>3, Few
    <2>4. ASSUME NEW k, NEW l, main = <<k, l>> PROVE main \in Seq(Range(main))
      BY <2>4, Few
    <2> QED
      BY <2>1, <2>2, <2>3, <2>4
  <1>2. remembered \in Seq(AnyMajors)
    BY EmptySeq DEF Init
  <1> QED
    BY <1>1, <1>2 DEF Init, FInv

LEMMA EditLists ==
    ASSUME NEW S, NEW s \in Seq(S), NEW l
    PROVE  /\ \A i \in 1..Len(s) + 1 : InsertAt(s, i, l) \in Seq(S \cup {l})
           /\ \A i \in 1..Len(s) : RemoveAt(s, i) \in Seq(S) /\ Append(RemoveAt(s, i), s[i]) \in Seq(S)
  <1>1. Len(s) \in Nat /\ \A i \in 1..Len(s) : s[i] \in S
    BY LenProperties, ElementOfSeq
  <1>2. ASSUME NEW m \in Int, NEW n \in Int, 1 <= m, n <= Len(s) PROVE SubSeq(s, m, n) \in Seq(S)
    <2>1. \A i \in m..n : s[i] \in S
      BY <1>1, <1>2
    <2> QED
      BY <2>1, SubSeqProperties
  <1>3. ASSUME NEW i \in 1..Len(s) + 1 PROVE InsertAt(s, i, l) \in Seq(S \cup {l})
    <2> DEFINE U == S \cup {l}
               a == SubSeq(s, 1, i - 1)
               b == SubSeq(s, i, Len(s))
    <2>1. a \in Seq(S) /\ b \in Seq(S)
      BY <1>1, <1>2
    <2>2. S \subseteq U /\ l \in U
      OBVIOUS
    <2>3. InsertAt(s, i, l) = a \o <<l>> \o b
      BY DEF InsertAt
    <2> HIDE DEF U, a, b
    <2>4. a \in Seq(U) /\ b \in Seq(U) /\ <<l>> \in Seq(U)
      BY <2>1, <2>2, SeqMonotonic
    <2> DEFINE c == a \o <<l>>
    <2>5. c \in Seq(U)
      BY <2>4, ConcatProperties
    <2> HIDE DEF c
    <2>6. c \o b \in Seq(U)
      BY <2>4, <2>5, ConcatProperties
    <2> QED
      BY <2>3, <2>6 DEF c, U
  <1>4. ASSUME NEW i \in 1..Len(s)
        PROVE  RemoveAt(s, i) \in Seq(S) /\ Append(RemoveAt(s, i), s[i]) \in Seq(S)
    <2> DEFINE a == SubSeq(s, 1, i - 1)
               b == SubSeq(s, i + 1, Len(s))
    <2>1. a \in Seq(S) /\ b \in Seq(S)
      BY <1>1, <1>2
    <2>2. RemoveAt(s, i) = a \o b
      BY DEF RemoveAt
    <2> HIDE DEF a, b
    <2>3. a \o b \in Seq(S) /\ s[i] \in S
      BY <1>1, <2>1, ConcatProperties
    <2> QED
      BY <2>2, <2>3, AppendProperties
  <1> QED
    BY <1>3, <1>4

\* One splice of this file, with the block the document asks for.
LEMMA SplicedNow ==
    ASSUME FInv, NEW once, once = SpliceSeq(main, rest, DesiredNow, OwnedNow)
    PROVE  /\ once \in Seq(Range(once))
           /\ Range(once) \subseteq Range(Others(main, OwnedNow)) \cup Range(DesiredNow) \cup {Blank}
           /\ Range(Others(main, OwnedNow)) \cup Range(DesiredNow) \subseteq Range(once)
           /\ Range(Others(main, OwnedNow)) \subseteq {l \in Range(main) : ~IsManaged(l, OwnedNow)}
           /\ {l \in Range(main) : ~IsManaged(l, OwnedNow)} \subseteq Range(Others(main, OwnedNow)) \cup {Blank}
           /\ ManagedSeq(once, OwnedNow) = DesiredNow
           /\ Others(once, OwnedNow) = Others(main, OwnedNow)
           /\ SpliceSeq(once, rest, DesiredNow, OwnedNow) = once
           /\ SubSeq(once, 1, Cut(main, OwnedNow)) = SubSeq(Others(main, OwnedNow), 1, Cut(main, OwnedNow))
           /\ SubSeq(once, Cut(main, OwnedNow) + 1, Cut(main, OwnedNow) + Len(DesiredNow)) = DesiredNow
  <1> DEFINE d == DesiredNow
             o == OwnedNow
             S == Range(main) \cup Range(d) \cup {Blank}
  <1>1. Blank \in S /\ ~IsManaged(Blank, o)
    BY DEF Blank, Plain, IsManaged
  <1>2. main \in Seq(Range(main)) /\ d \in Seq(Range(d)) /\ \A l \in Range(d) : IsManaged(l, o)
    BY DesiredLines DEF FInv, Listed
  <1>3. once = SpliceSeq(main, rest, d, o)
    OBVIOUS
  <1> HIDE DEF d, o
  <1>4. main \in Seq(S) /\ d \in Seq(S)
    <2>1. Range(main) \subseteq S /\ Range(d) \subseteq S
      OBVIOUS
    <2> HIDE DEF S
    <2> QED
      BY <1>2, <2>1, SeqMonotonic
  <1>5. Range(d) \subseteq ManagedLines(S, o)
    BY <1>2 DEF ManagedLines
  <1>6. Range(main) \ ManagedLines(S, o) = {l \in Range(main) : ~IsManaged(l, o)}
    BY DEF ManagedLines
  <1> HIDE DEF S
  <1>7. /\ once \in Seq(S)
        /\ Range(once) \subseteq Range(Others(main, o)) \cup Range(d) \cup {Blank}
        /\ Range(Others(main, o)) \cup Range(d) \subseteq Range(once)
        /\ ManagedSeq(once, o) = d
        /\ Others(once, o) = Others(main, o)
        /\ SpliceSeq(once, rest, d, o) = once
        /\ SubSeq(once, 1, Cut(main, o)) = SubSeq(Others(main, o), 1, Cut(main, o))
        /\ SubSeq(once, Cut(main, o) + 1, Cut(main, o) + Len(d)) = d
    <2>1. WellSpliced(S, main, rest, d, o, once)
      BY <1>1, <1>3, <1>4, <1>5, Spliced
    <2> QED
      BY <2>1 DEF WellSpliced
  <1>8. /\ Range(Others(main, o)) \subseteq Range(main) \ ManagedLines(S, o)
        /\ (Range(main) \ ManagedLines(S, o)) \ {Blank} \subseteq Range(Others(main, o))
    BY <1>4, OthersType
  <1>9. once \in Seq(Range(once))
    BY <1>7, OwnLines
  <1> QED
    BY <1>6, <1>7, <1>8, <1>9 DEF d, o

\* The file a reconcile leaves: of its own lines exactly the block asked for,
\* of the others those that were there, blank lines aside.
LEMMA BlockWritten ==
    ASSUME FInv, Reconcile
    PROVE  /\ Range(DesiredNow) \subseteq Range(main')
           /\ \A l \in Range(main') :
                 \/ l = Blank \/ l \in Range(DesiredNow)
                 \/ l \in Range(main) /\ ~IsManaged(l, OwnedNow)
  <1>1. CASE Stale
    <2>1. main' = SpliceSeq(main, rest, DesiredNow, OwnedNow)
      BY <1>1 DEF Reconcile
    <2>2. /\ Range(main') \subseteq Range(Others(main, OwnedNow)) \cup Range(DesiredNow) \cup {Blank}
          /\ Range(DesiredNow) \subseteq Range(main')
          /\ Range(Others(main, OwnedNow)) \subseteq {k \in Range(main) : ~IsManaged(k, OwnedNow)}
      BY <2>1, SplicedNow
    <2> QED
      BY <2>2
  <1>2. CASE ~Stale
    <2>1. main' = main /\ ManagedSeq(main, OwnedNow) = DesiredNow
      BY <1>2 DEF Reconcile, Stale
    <2>2. ManagedSeq(main, OwnedNow) = Among(main, ManagedLines(Range(main), OwnedNow))
      BY ManagedIn DEF FInv
    <2>3. Range(DesiredNow) = Range(main) \cap ManagedLines(Range(main), OwnedNow)
      BY <2>1, <2>2, AmongRange DEF FInv
    <2> QED
      BY <2>1, <2>3 DEF ManagedLines
  <1> QED
    BY <1>1, <1>2

LEMMA StepFiles == FInv /\ [Next]_vars => FInv'
  <1> SUFFICES ASSUME FInv, [Next]_vars PROVE FInv'
    OBVIOUS
  <1>1. CASE Reconcile
    <2>1. main' \in Seq(Range(main'))
      <3>1. CASE Stale
        BY <1>1, <3>1, SplicedNow DEF Reconcile
      <3>2. CASE ~Stale
        BY <1>1, <3>2 DEF Reconcile, FInv
      <3> QED
        BY <3>1, <3>2
    <2>2. stock \in Stocks /\ UNCHANGED <<stock, said>>
      BY <1>1 DEF Reconcile, FInv
    <2>3. remembered' \in Seq(AnyMajors)
      <3>1. remembered' = remembered \/ remembered' = Noted(remembered, remembered, stock.uvm)
        BY <1>1 DEF Reconcile
      <3> QED
        BY <3>1, ListNoted DEF FInv
    <2> QED
      BY <2>1, <2>2, <2>3 DEF FInv
  <1>2. CASE Edit
    <2>1. UNCHANGED <<stock, said, remembered>>
      BY <1>2 DEF Edit
    <2>2. main \in Seq(Range(main)) /\ DOMAIN main = 1..Len(main)
      BY LenProperties DEF FInv
    <2>3. \E S : main' \in Seq(S)
      <3>1. CASE \E i \in 1..Len(main) + 1, l \in Foreign : main' = InsertAt(main, i, l)
        <4>1. PICK i \in 1..Len(main) + 1, l \in Foreign : main' = InsertAt(main, i, l)
          BY <3>1
        <4>2. \A j \in 1..Len(main) + 1 : InsertAt(main, j, l) \in Seq(Range(main) \cup {l})
          BY <2>2, EditLists
        <4> QED
          BY <4>1, <4>2
      <3>2. CASE \E i \in DOMAIN main : main' = RemoveAt(main, i)
        <4>1. PICK i \in 1..Len(main) : main' = RemoveAt(main, i)
          BY <2>2, <3>2
        <4>2. \A j \in 1..Len(main) : RemoveAt(main, j) \in Seq(Range(main))
          BY <2>2, EditLists
        <4> QED
          BY <4>1, <4>2
      <3>3. CASE \E i \in DOMAIN main : main' = Append(RemoveAt(main, i), main[i])
        <4>1. PICK i \in 1..Len(main) : main' = Append(RemoveAt(main, i), main[i])
          BY <2>2, <3>3
        <4>2. \A j \in 1..Len(main) : Append(RemoveAt(main, j), main[j]) \in Seq(Range(main))
          BY <2>2, EditLists
        <4> QED
          BY <4>1, <4>2
      <3> QED
        BY <1>2, <3>1, <3>2, <3>3 DEF Edit
    <2>4. main' \in Seq(Range(main'))
      BY <2>3, OwnLines
    <2> QED
      BY <2>1, <2>4 DEF FInv
  <1>3. CASE Snapshot
    BY <1>3 DEF Snapshot, FInv
  <1>4. CASE Changes
    BY <1>4 DEF Changes, FInv
  <1>5. CASE UNCHANGED vars
    BY <1>5 DEF vars, FInv
  <1>6. CASE OtherReconciled
    BY <1>6, ListNoted DEF OtherReconciled, FInv
  <1> QED
    BY <1>1, <1>2, <1>3, <1>4, <1>5, <1>6 DEF Next

LEMMA FilesTyped == Spec => []FInv
  BY InitFiles, StepFiles, PTL DEF Spec

-----------------------------------------------------------------------------
\* What a reconcile leaves compares equal to what was asked for, and doing it
\* again changes nothing, not a blank line: whatever is in the file, whatever
\* the document says and whichever major the driver has got (conf.rs: splice,
\* managed_lines, render).
THEOREM SplicingSettles == Spec => []FixedPoint
  <1>1. ASSUME FInv PROVE FixedPoint
    <2> DEFINE once == SpliceSeq(main, rest, DesiredNow, OwnedNow)
    <2>1. /\ ManagedSeq(once, OwnedNow) = DesiredNow
          /\ SpliceSeq(once, rest, DesiredNow, OwnedNow) = once
      <3> DEFINE o == OwnedNow
                 d == DesiredNow
      <3> HIDE DEF once, o, d
      <3>1. once = SpliceSeq(main, rest, DesiredNow, OwnedNow)
        BY DEF once
      <3> QED
        BY <1>1, <3>1, SplicedNow
    <2> QED
      BY <2>1 DEF FixedPoint
  <1> QED
    BY FilesTyped, <1>1, PTL

\* No line of anybody else is lost, doubled or moved past another one, and the
\* block stands where the first managed line stood (conf.rs: splice).
THEOREM OthersKept == Spec => ForeignOrderKept
  <1> DEFINE Kept ==
               LET before == Trimmed(ForeignSeq(main, OwnedNow))
                   first == Min({At(main, OwnedNow), Len(before)})
                   after == main'
               IN /\ Trimmed(ForeignSeq(after, OwnedNow)) = before
                  /\ SubSeq(after, 1, first) = SubSeq(before, 1, first)
                  /\ SubSeq(after, first + 1, first + Len(DesiredNow)) = DesiredNow
  <1>1. ASSUME FInv, Reconcile, Stale PROVE Kept
    <2>1. main' = SpliceSeq(main, rest, DesiredNow, OwnedNow)
      BY <1>1 DEF Reconcile
    <2>2. /\ Others(main', OwnedNow) = Others(main, OwnedNow)
          /\ SubSeq(main', 1, Cut(main, OwnedNow)) = SubSeq(Others(main, OwnedNow), 1, Cut(main, OwnedNow))
          /\ SubSeq(main', Cut(main, OwnedNow) + 1, Cut(main, OwnedNow) + Len(DesiredNow)) = DesiredNow
      BY <1>1, <2>1, SplicedNow
    <2> QED
      BY <2>2, Zenon DEF Others, Cut
  <1> HIDE DEF Kept
  <1>2. FInv /\ [Next]_vars => [Reconcile /\ Stale => Kept]_vars
    BY <1>1
  <1>3. Spec => [][Reconcile /\ Stale => Kept]_vars
    BY FilesTyped, <1>2, PTL DEF Spec
  <1> QED
    BY <1>3 DEF ForeignOrderKept, Kept

\* What module GpuLines says of the set of lines is what splicing does to the
\* list, blank lines aside: the abstraction every other module rests on.
THEOREM SetsAreEnough == Spec => SetsAgree
  <1> DEFINE Agree ==
               ToSet(main') \ {Blank} =
                 Splice(ToSet(main), UNION {Wanted(w, stock) : w \in Want}, OwnedNow) \ {Blank}
  <1>1. ASSUME FInv, Reconcile PROVE Agree
    <2> DEFINE D == UNION {Wanted(w, stock) : w \in Want}
               o == OwnedNow
    <2>1. Range(DesiredNow) = D /\ \A l \in D : IsManaged(l, o)
      BY <1>1, DesiredLines DEF Listed
    <2>2. ToSet(main) = Range(main) /\ ToSet(main') = Range(main')
      <3>1. FInv'
        BY <1>1, StepFiles DEF Next
      <3> QED
        BY <1>1, <3>1, Lists DEF FInv
    <2>3. Splice(Range(main), D, o) = {l \in Range(main) : ~IsManaged(l, o)} \cup D
      BY DEF Splice, ManagedLines
    <2>4. Range(main') \ {Blank} = ({l \in Range(main) : ~IsManaged(l, o)} \cup D) \ {Blank}
      <3>1. CASE Stale
        <4>1. main' = SpliceSeq(main, rest, DesiredNow, OwnedNow)
          BY <1>1, <3>1 DEF Reconcile
        <4>2. /\ Range(main') \subseteq Range(Others(main, OwnedNow)) \cup Range(DesiredNow) \cup {Blank}
              /\ Range(Others(main, OwnedNow)) \cup Range(DesiredNow) \subseteq Range(main')
              /\ Range(Others(main, OwnedNow)) \subseteq {l \in Range(main) : ~IsManaged(l, OwnedNow)}
              /\ {l \in Range(main) : ~IsManaged(l, OwnedNow)} \subseteq Range(Others(main, OwnedNow)) \cup {Blank}
          BY <1>1, <4>1, SplicedNow
        <4> QED
          BY <2>1, <4>2
      <3>2. CASE ~Stale
        <4>1. main' = main /\ ManagedSeq(main, o) = DesiredNow
          BY <1>1, <3>2 DEF Reconcile, Stale
        <4>2. ManagedSeq(main, o) = Among(main, ManagedLines(Range(main), o))
          BY <1>1, ManagedIn DEF FInv
        <4>3. D = Range(main) \cap ManagedLines(Range(main), o)
          BY <1>1, <2>1, <4>1, <4>2, AmongRange DEF FInv
        <4> QED
          BY <4>1, <4>3 DEF ManagedLines
      <3> QED
        BY <3>1, <3>2
    <2> QED
      BY <2>2, <2>3, <2>4
  <1> HIDE DEF Agree
  <1>2. FInv /\ [Next]_vars => [Reconcile => Agree]_vars
    BY <1>1
  <1>3. Spec => [][Reconcile => Agree]_vars
    BY FilesTyped, <1>2, PTL DEF Spec
  <1> QED
    BY <1>3, PTL DEF SetsAgree, Agree

\* The nvidia-uvm rules in the file that are not a person's, and the node's
\* list: how much of it speaks of them, by the changes the file has missed.
IsUvmRule(l) ==
    l \notin Foreign /\ l.key = "allow" /\ l.name = "c" /\ l.major # NvidiaMajor
Newest == IF remembered = <<>> THEN {} ELSE {remembered[1]}
RulesListed ==
    /\ behind \in 0..UvmKept
    /\ \A l \in Range(main) : IsUvmRule(l) =>
          /\ behind = 0 => l.major \in Newest
          /\ behind < UvmKept => l.major \in Elements(remembered)

LEMMA InitRules == Init => RulesListed
  <1> SUFFICES ASSUME Init PROVE RulesListed
    OBVIOUS
  <1>1. Range(main) \subseteq Foreign
    <2>1. \/ main = <<>>
          \/ \E l \in Foreign : main = <<l>>
          \/ \E k, l \in Foreign : main = <<k, l>>
      BY DEF Init
    <2>2. CASE main = <<>>
      BY <2>2, Few
    <2>3. ASSUME NEW l \in Foreign, main = <<l>> PROVE Range(main) \subseteq Foreign
      <3>1. Range(<<l>>) = {l}
        BY Few
      <3> QED
        BY <2>3, <3>1
    <2>4. ASSUME NEW k \in Foreign, NEW l \in Foreign, main = <<k, l>>
          PROVE  Range(main) \subseteq Foreign
      <3>1. Range(<<k, l>>) = {k, l}
        BY Few
      <3> QED
        BY <2>4, <3>1
    <2> QED
      BY <2>1, <2>2, <2>3, <2>4
  <1>2. behind = 0
    BY DEF Init
  <1> QED
    BY <1>1, <1>2 DEF RulesListed, IsUvmRule, UvmKept

\* The list changes, and the file may miss it.
LEMMA RulesMissed ==
    ASSUME FInv, RulesListed, behind' = Missed(remembered'),
           remembered' \in {remembered, Noted(remembered, remembered, stock.uvm)},
           \A l \in Range(main') : IsUvmRule(l) =>
              \/ l \in Range(main) \/ l.major \in Newest
              \/ l.major \in stock.uvm /\ remembered' # remembered
    PROVE  RulesListed'
  <1>1. CASE remembered' = remembered
    <2>1. behind' = behind
      BY <1>1 DEF Missed
    <2>2. Newest' = Newest /\ Newest \subseteq Elements(remembered)
      <3>1. remembered # <<>> => 1 \in DOMAIN remembered
        BY LenProperties, EmptySeq DEF FInv
      <3> QED
        BY <1>1, <3>1 DEF Newest, Elements
    <2> QED
      BY <1>1, <2>1, <2>2 DEF RulesListed, IsUvmRule, Elements
  <1>2. CASE remembered' # remembered
    <2> DEFINE new == Noted(remembered, remembered, stock.uvm)
    <2>1. remembered' = new
      BY <1>2
    <2>2. /\ stock.uvm # {} => new # <<>> /\ stock.uvm = {new[1]}
          /\ remembered # <<>> => remembered[1] \in Elements(new)
          /\ new \in Seq(AnyMajors)
      BY ListNoted
    <2> HIDE DEF new
    <2>3. behind' = IF behind = UvmKept THEN behind ELSE behind + 1
      BY <1>2 DEF Missed
    <2>4. behind' \in 1..UvmKept /\ (behind' < UvmKept => behind = 0)
      BY <2>3 DEF RulesListed, UvmKept
    <2>5. Newest \subseteq Elements(new) /\ stock.uvm \subseteq Elements(new)
      <3>1. new # <<>> => 1 \in DOMAIN new
        BY <2>2, LenProperties, EmptySeq
      <3>2. stock.uvm # {} => new[1] \in Elements(new)
        BY <2>2, <3>1 DEF Elements
      <3> QED
        BY <2>2, <3>2 DEF Newest
    <2>6. ASSUME NEW l \in Range(main'), IsUvmRule(l), behind' < UvmKept
          PROVE  l.major \in Elements(new)
      <3>1. CASE l \in Range(main)
        <4>1. l.major \in Newest
          BY <2>4, <2>6, <3>1 DEF RulesListed
        <4> QED
          BY <2>5, <4>1
      <3>2. CASE ~(l \in Range(main))
        BY <2>5, <2>6, <3>2
      <3> QED
        BY <3>1, <3>2
    <2> QED
      BY <2>1, <2>4, <2>6 DEF RulesListed, IsUvmRule, Elements
  <1> QED
    BY <1>1, <1>2

\* A rule of the loaded module is managed, so a reconcile leaves it only as a
\* line of the block.
LEMMA RulesWritten ==
    ASSUME FInv, Reconcile, NEW l \in Range(main'), IsUvmRule(l)
    PROVE  \/ l \in Range(DesiredNow) /\ l.major \in stock.uvm
           \/ l \in Range(main) /\ l.major \notin stock.uvm /\ ~IsManaged(l, OwnedNow)
  <1>1. l # Blank
    <2>1. Blank.key # "allow"
      BY DEF Blank, Plain
    <2> QED
      BY <2>1, Zenon DEF IsUvmRule
  <1>2. CASE l \in Range(DesiredNow)
    BY <1>2, DesiredLines DEF IsUvmRule
  <1>3. CASE l \notin Range(DesiredNow)
    <2>1. l \in Range(main) /\ ~IsManaged(l, OwnedNow)
      BY <1>1, <1>3, BlockWritten
    <2>2. Wildcard \notin stock.uvm /\ OwnedNow.uvm = stock.uvm
      BY StocksSound DEF FInv, Sound, OwnedNow, OwnedBy
    <2> QED
      BY <2>1, <2>2 DEF IsManaged, Owns, IsUvmRule
  <1> QED
    BY <1>2, <1>3

LEMMA ReconcileRules == ASSUME FInv, RulesListed, Reconcile PROVE RulesListed'
  <1>1. DesiredNow # <<>> => remembered' = Noted(remembered, remembered, stock.uvm)
    BY DEF Reconcile
  <1>2. DesiredNow = <<>> => remembered' = remembered
    BY DEF Reconcile
  <1>3. \A l \in Range(DesiredNow) : DesiredNow # <<>>
    BY Few
  <1>4. CASE stock.uvm # {} /\ OldRules(main') = {}
    <2>1. behind' = 0
      BY <1>4 DEF Reconcile
    <2>2. ASSUME NEW l \in Range(main'), IsUvmRule(l)
          PROVE  remembered' # <<>> /\ l.major = remembered'[1]
      <3>1. l \in ToSet(main')
        BY StepFiles, Lists DEF Next, FInv
      <3>2. l.major \in stock.uvm
        BY <1>4, <2>2, <3>1 DEF OldRules, IsUvmRule
      <3>3. l \in Range(DesiredNow)
        BY <2>2, <3>2, RulesWritten
      <3> DEFINE new == Noted(remembered, remembered, stock.uvm)
      <3>4. remembered' = new
        BY <1>1, <1>3, <3>3
      <3>5. new # <<>> /\ stock.uvm = {new[1]}
        BY <1>4, ListNoted
      <3> HIDE DEF new
      <3> QED
        BY <3>2, <3>4, <3>5
    <2>3. FInv'
      BY StepFiles DEF Next
    <2>4. remembered' # <<>> => remembered'[1] \in Elements(remembered')
      <3>1. remembered' # <<>> => 1 \in DOMAIN remembered'
        BY <2>3, LenProperties, EmptySeq DEF FInv
      <3> QED
        BY <3>1 DEF Elements
    <2> QED
      BY <2>1, <2>2, <2>4 DEF RulesListed, IsUvmRule, Newest, Elements, UvmKept
  <1>5. CASE ~(stock.uvm # {} /\ OldRules(main') = {})
    <2>1. behind' = Missed(remembered')
      BY <1>5 DEF Reconcile
    <2>2. remembered' \in {remembered, Noted(remembered, remembered, stock.uvm)}
      BY <1>1, <1>2
    <2>3. ASSUME NEW l \in Range(main'), IsUvmRule(l), ~(l \in Range(main)),
                 remembered' = remembered
          PROVE  l.major \in Newest
      <3>1. l \in Range(DesiredNow) /\ l.major \in stock.uvm
        BY <2>3, RulesWritten
      <3> DEFINE new == Noted(remembered, remembered, stock.uvm)
      <3>2. remembered = new
        BY <1>1, <1>3, <2>3, <3>1
      <3>3. new # <<>> /\ stock.uvm = {new[1]}
        BY <3>1, ListNoted
      <3> HIDE DEF new
      <3> QED
        BY <3>1, <3>2, <3>3 DEF Newest
    <2>4. \A l \in Range(main') : IsUvmRule(l) =>
             \/ l \in Range(main) \/ l.major \in Newest
             \/ l.major \in stock.uvm /\ remembered' # remembered
      BY <2>3, RulesWritten
    <2> QED
      BY <2>1, <2>2, <2>4, RulesMissed
  <1> QED
    BY <1>4, <1>5

LEMMA EditRules == ASSUME FInv, RulesListed, Edit PROVE RulesListed'
  <1>1. UNCHANGED <<remembered, behind>>
    BY DEF Edit
  <1>2. main \in Seq(Range(main)) /\ DOMAIN main = 1..Len(main)
    BY LenProperties DEF FInv
  <1>3. Range(main') \subseteq Range(main) \cup Foreign
    <2>1. CASE \E i \in 1..Len(main) + 1, l \in Foreign : main' = InsertAt(main, i, l)
      <3>1. PICK i \in 1..Len(main) + 1, l \in Foreign : main' = InsertAt(main, i, l)
        BY <2>1
      <3>2. \A j \in 1..Len(main) + 1 : InsertAt(main, j, l) \in Seq(Range(main) \cup {l})
        BY <1>2, EditLists
      <3>3. main' \in Seq(Range(main) \cup {l})
        BY <3>1, <3>2
      <3> QED
        BY <3>3, OwnLines
    <2>2. CASE \E i \in DOMAIN main : main' = RemoveAt(main, i)
      <3>1. PICK i \in 1..Len(main) : main' = RemoveAt(main, i)
        BY <1>2, <2>2
      <3>2. \A j \in 1..Len(main) : RemoveAt(main, j) \in Seq(Range(main))
        BY <1>2, EditLists
      <3> QED
        BY <3>1, <3>2, OwnLines
    <2>3. CASE \E i \in DOMAIN main : main' = Append(RemoveAt(main, i), main[i])
      <3>1. PICK i \in 1..Len(main) : main' = Append(RemoveAt(main, i), main[i])
        BY <1>2, <2>3
      <3>2. \A j \in 1..Len(main) : Append(RemoveAt(main, j), main[j]) \in Seq(Range(main))
        BY <1>2, EditLists
      <3> QED
        BY <3>1, <3>2, OwnLines
    <2> QED
      BY <2>1, <2>2, <2>3 DEF Edit
  <1> QED
    BY <1>1, <1>3 DEF RulesListed, IsUvmRule, Newest, Elements

LEMMA StepRules == FInv /\ RulesListed /\ [Next]_vars => RulesListed'
  <1> SUFFICES ASSUME FInv, RulesListed, [Next]_vars PROVE RulesListed'
    OBVIOUS
  <1>1. CASE Reconcile
    BY <1>1, ReconcileRules
  <1>2. CASE OtherReconciled
    <2>1. /\ behind' = Missed(remembered') /\ main' = main
          /\ remembered' = Noted(remembered, remembered, stock.uvm)
      BY <1>2 DEF OtherReconciled
    <2> QED
      BY <2>1, RulesMissed
  <1>3. CASE Edit
    BY <1>3, EditRules
  <1>4. CASE Snapshot \/ Changes \/ UNCHANGED vars
    <2>1. UNCHANGED <<main, remembered, behind>>
      BY <1>4 DEF Snapshot, Changes, vars
    <2> QED
      BY <2>1 DEF RulesListed, IsUvmRule, Newest, Elements
  <1> QED
    BY <1>1, <1>2, <1>3, <1>4 DEF Next

\* With nvidia-uvm loaded, a reconcile leaves no rule of an earlier major that
\* another driver has not taken, in a file of any length, of a node that has
\* had any number of majors -- if the file has missed fewer changes of the
\* node's list than the list keeps (Owned::new, Record::remember_uvm).
THEOREM OldRulesGo == Spec => NoPiledUpRules
  <1> DEFINE Gone == \A l \in OldRules(main') : l.major \in stock.chars
  <1>1. ASSUME FInv, RulesListed, Reconcile, stock.uvm # {}, behind < UvmKept PROVE Gone
    <2> SUFFICES ASSUME NEW l \in OldRules(main') PROVE l.major \in stock.chars
      OBVIOUS
    <2> DEFINE o == OwnedNow
    <2>1. l \in Range(main') /\ IsUvmRule(l) /\ l.major \notin stock.uvm
      BY <1>1, StepFiles, Lists DEF Next, FInv, OldRules, IsUvmRule
    <2>2. l \in Range(main) /\ ~IsManaged(l, o)
      BY <1>1, <2>1, RulesWritten
    <2>3. l.major \in Elements(remembered)
      BY <1>1, <2>1, <2>2 DEF RulesListed
    <2>4. l.major # Wildcard
      <3>1. Elements(remembered) \subseteq AnyMajors
        BY <1>1, ElementOfSeq, LenProperties DEF FInv, Elements
      <3>2. Wildcard \notin AnyMajors
        BY StocksSound DEF Sound, AnyMajors
      <3> QED
        BY <2>3, <3>1, <3>2
    <2>5. o.remembered = {m \in Elements(remembered) : m \in stock.uvm \/ m \notin stock.chars}
      BY <1>1 DEF OwnedNow, OwnedBy
    <2>6. l.major \notin o.remembered
      BY <2>1, <2>2, <2>4 DEF IsManaged, Owns, IsUvmRule
    <2> QED
      BY <2>3, <2>5, <2>6
  <1> HIDE DEF Gone
  <1>2. FInv /\ RulesListed /\ [Next]_vars
           => [Reconcile /\ stock.uvm # {} /\ behind < UvmKept => Gone]_vars
    BY <1>1
  <1>3. Spec => []RulesListed
    BY FilesTyped, InitRules, StepRules, PTL DEF Spec
  <1>4. Spec => [][Reconcile /\ stock.uvm # {} /\ behind < UvmKept => Gone]_vars
    BY FilesTyped, <1>2, <1>3, PTL DEF Spec
  <1> QED
    BY <1>4 DEF NoPiledUpRules, Gone

-----------------------------------------------------------------------------
\* A document and the same one after a JSON-mode write.

LEMMA FlagInJson == ASSUME NEW v PROVE FlagOf(InJson(v)) = FlagOf(v)
  <1>1. CASE v.kind = "bool"
    <2>1. InJson(v).kind = "int" /\ InJson(v).number = v.number
      BY <1>1 DEF InJson, Value
    <2>2. FlagOf(InJson(v)) = {b \in BOOLEAN : v.number = IF b THEN 1 ELSE 0}
      BY <2>1, Zenon DEF FlagOf
    <2>3. FlagOf(v) = {b \in BOOLEAN : v.number = IF b THEN 1 ELSE 0}
      BY <1>1, Zenon DEF FlagOf
    <2> QED
      BY <2>2, <2>3
  <1>2. CASE v.kind # "bool"
    <2>1. InJson(v) = v
      BY <1>2 DEF InJson
    <2> QED
      BY <2>1
  <1> QED
    BY <1>1, <1>2

LEMMA FlagsSameInJson ==
    ASSUME NEW v, NEW key, Flags(v, key) # {}
    PROVE  Flags(FlagsInJson(v), key) = Flags(v, key)
  <1> DEFINE E == v.entries
             J == {Entry(e.key, InJson(e.value)) : e \in E}
             u == Mapping(J)
  <1>1. /\ v.kind = "map"
        /\ \A e \in E : e.key.kind = "text" /\ IsName(key, e.key.word) /\ FlagOf(e.value) # {}
        /\ Flags(v, key) = {On(v)}
    BY DEF Flags
  <1>2. FlagsInJson(v) = u
    BY <1>1 DEF FlagsInJson
  <1>3. u.kind = "map" /\ u.entries = J
    BY DEF Mapping, Value
  <1>4. \A e : Entry(e.key, InJson(e.value)).key = e.key /\ Entry(e.key, InJson(e.value)).value = InJson(e.value)
    BY DEF Entry
  <1>5. \A e \in J : \E f \in E : e.key = f.key /\ FlagOf(e.value) = FlagOf(f.value)
    BY <1>4, FlagInJson
  <1>6. \A f \in E : \E e \in J : e.key = f.key /\ FlagOf(e.value) = FlagOf(f.value)
    BY <1>4, FlagInJson
  <1> HIDE DEF u, J
  <1>7. On(u) = On(v)
    <2>1. \A e \in u.entries : \E f \in v.entries : e.key = f.key /\ FlagOf(e.value) = FlagOf(f.value)
      BY <1>3, <1>5
    <2>2. \A f \in v.entries : \E e \in u.entries : e.key = f.key /\ FlagOf(e.value) = FlagOf(f.value)
      BY <1>3, <1>6
    <2>3. ASSUME NEW x \in On(u) PROVE x \in On(v)
      <3>1. PICK e \in u.entries : x = e.key.word.is /\ FlagOf(e.value) = {TRUE}
        BY <2>3, Zenon DEF On
      <3>2. PICK f \in v.entries : e.key = f.key /\ FlagOf(e.value) = FlagOf(f.value)
        BY <2>1, <3>1
      <3> QED
        BY <3>1, <3>2, Zenon DEF On
    <2>4. ASSUME NEW x \in On(v) PROVE x \in On(u)
      <3>1. PICK e \in v.entries : x = e.key.word.is /\ FlagOf(e.value) = {TRUE}
        BY <2>4, Zenon DEF On
      <3>2. PICK f \in u.entries : f.key = e.key /\ FlagOf(f.value) = FlagOf(e.value)
        BY <2>2, <3>1
      <3> QED
        BY <3>1, <3>2, Zenon DEF On
    <2> QED
      BY <2>3, <2>4, Zenon
  <1>8. \A e \in u.entries : e.key.kind = "text" /\ IsName(key, e.key.word) /\ FlagOf(e.value) # {}
    BY <1>1, <1>3, <1>5
  <1>9. Flags(u, key) = {On(u)}
    BY <1>3, <1>8, Zenon DEF Flags
  <1> QED
    BY <1>1, <1>2, <1>7, <1>9

LEMMA ParseInJson ==
    ASSUME NEW v, Parse(v) # {}
    PROVE  Parse(SubtreeInJson(v)) = Parse(v)
  <1> DEFINE u == SubtreeInJson(v)
  <1>1. Understood(v)
    BY DEF Parse
  <1>2. u.kind = "map" /\ u.entries = {Entry(e.key, FlagsInJson(e.value)) : e \in v.entries}
    BY DEF SubtreeInJson, Mapping, Value
  <1> HIDE DEF u
  <1>3. \A e : Entry(e.key, FlagsInJson(e.value)).key = e.key
              /\ Entry(e.key, FlagsInJson(e.value)).value = FlagsInJson(e.value)
    BY DEF Entry
  <1>4. ASSUME NEW e \in v.entries
        PROVE  /\ e.key.kind = "text"
               /\ \A key \in {"devices", "capabilities"} : e.key.word.is = key =>
                     /\ Flags(e.value, key) # {}
                     /\ Flags(FlagsInJson(e.value), key) = Flags(e.value, key)
               /\ e.key.word.is = "require_cuda" =>
                     Versions(e.value) # {} /\ FlagsInJson(e.value) = e.value
               /\ e.key.word.is \in {"devices", "capabilities", "require_cuda"}
    <2>1. /\ e.key.kind = "text"
          /\ \/ e.key.word.is \in {"devices", "capabilities"}
                   /\ Flags(e.value, e.key.word.is) # {}
             \/ e.key.word.is = "require_cuda" /\ Versions(e.value) # {}
      BY <1>1 DEF Understood
    <2>2. Versions(e.value) # {} => FlagsInJson(e.value) = e.value
      BY DEF Versions, FlagsInJson
    <2> QED
      BY <2>1, <2>2, FlagsSameInJson
  <1>5. Understood(u)
    <2> SUFFICES ASSUME NEW f \in u.entries
                 PROVE  /\ f.key.kind = "text"
                        /\ \/ f.key.word.is \in {"devices", "capabilities"}
                                 /\ Flags(f.value, f.key.word.is) # {}
                           \/ f.key.word.is = "require_cuda" /\ Versions(f.value) # {}
      BY <1>2 DEF Understood
    <2>1. PICK e \in v.entries : f.key = e.key /\ f.value = FlagsInJson(e.value)
      BY <1>2, <1>3
    <2> QED
      BY <1>4, <2>1
  <1>6. ASSUME NEW key PROVE Under(u, key) = {FlagsInJson(x) : x \in Under(v, key)}
    <2>1. ASSUME NEW y \in Under(u, key) PROVE \E x \in Under(v, key) : y = FlagsInJson(x)
      <3>1. PICK f \in u.entries : f.key.word.is = key /\ y = f.value
        BY DEF Under
      <3>2. PICK e \in v.entries : f.key = e.key /\ f.value = FlagsInJson(e.value)
        BY <1>2, <1>3, <3>1
      <3> QED
        BY <3>1, <3>2 DEF Under
    <2>2. ASSUME NEW x \in Under(v, key) PROVE FlagsInJson(x) \in Under(u, key)
      <3>1. PICK e \in v.entries : e.key.word.is = key /\ x = e.value
        BY DEF Under
      <3>2. PICK f \in u.entries : f.key = e.key /\ f.value = FlagsInJson(e.value)
        BY <1>2, <1>3, <3>1
      <3> QED
        BY <3>1, <3>2 DEF Under
    <2> QED
      BY <2>1, <2>2
  <1>7. ASSUME NEW key \in {"devices", "capabilities"}
        PROVE  {Flags(y, key) : y \in Under(u, key)} = {Flags(x, key) : x \in Under(v, key)}
    <2>1. \A x \in Under(v, key) : Flags(FlagsInJson(x), key) = Flags(x, key)
      BY <1>4 DEF Under
    <2> QED
      BY <1>6, <2>1
  <1>8. {Versions(y) : y \in Under(u, "require_cuda")} = {Versions(x) : x \in Under(v, "require_cuda")}
    <2>1. \A x \in Under(v, "require_cuda") : FlagsInJson(x) = x
      BY <1>4 DEF Under
    <2> QED
      BY <1>6, <2>1
  <1>9. {Flags(y, "devices") : y \in Under(u, "devices")} = {Flags(x, "devices") : x \in Under(v, "devices")}
    BY <1>7
  <1>10. {Flags(y, "capabilities") : y \in Under(u, "capabilities")} =
         {Flags(x, "capabilities") : x \in Under(v, "capabilities")}
    BY <1>7
  <1>11. /\ Parse(u) = {[devices |-> UNION UNION {Flags(y, "devices") : y \in Under(u, "devices")},
                     capabilities |-> UNION {Flags(y, "capabilities") : y \in Under(u, "capabilities")},
                     require_cuda |-> UNION {Versions(y) : y \in Under(u, "require_cuda")}]}
        /\ Parse(v) = {[devices |-> UNION UNION {Flags(x, "devices") : x \in Under(v, "devices")},
                     capabilities |-> UNION {Flags(x, "capabilities") : x \in Under(v, "capabilities")},
                     require_cuda |-> UNION {Versions(x) : x \in Under(v, "require_cuda")}]}
    BY <1>1, <1>5, Zenon DEF Parse
  <1> QED
    BY <1>8, <1>9, <1>10, <1>11 DEF u

\* A document that pve-meta has written back in JSON, 1 where a person wrote
\* true, asks for the same file (doc.rs: both spellings are accepted).
THEOREM SpellingsAgree == Spec => SameInJson
  <1> DEFINE Same ==
               main' = SpliceSeq(main, rest,
                          DesiredOf(UNION {MeaningInJson[v] : v \in said}), OwnedNow)
  <1>1. ASSUME FInv, Reconcile, Stale PROVE Same
    <2>1. said = {} \/ Want # {}
      BY <1>1, Zenon DEF Reconcile, Planned, Readable
    <2>2. \A v \in said : v \in Subtrees /\ MeaningInJson[v] = Meaning[v]
      <3> SUFFICES ASSUME NEW v \in said PROVE v \in Subtrees /\ MeaningInJson[v] = Meaning[v]
        OBVIOUS
      <3>1. said = {v} /\ v \in Subtrees
        BY <1>1 DEF FInv
      <3>2. Meaning[v] = Parse(v) /\ MeaningInJson[v] = Parse(SubtreeInJson(v))
        BY <3>1, Zenon DEF Meaning, MeaningInJson
      <3>3. Want = Meaning[v]
        BY <3>1 DEF Want
      <3>4. Parse(v) # {}
        BY <2>1, <3>1, <3>2, <3>3
      <3>5. Parse(SubtreeInJson(v)) = Parse(v)
        BY <3>4, ParseInJson
      <3> QED
        BY <3>1, <3>2, <3>5
    <2>3. UNION {MeaningInJson[v] : v \in said} = Want
      BY <2>2 DEF Want
    <2>4. main' = SpliceSeq(main, rest, DesiredNow, OwnedNow)
      BY <1>1 DEF Reconcile
    <2> QED
      BY <2>3, <2>4, Zenon DEF DesiredNow
  <1> HIDE DEF Same
  <1>2. FInv /\ [Next]_vars => [Reconcile /\ Stale => Same]_vars
    BY <1>1
  <1>3. Spec => [][Reconcile /\ Stale => Same]_vars
    BY FilesTyped, <1>2, PTL DEF Spec
  <1> QED
    BY <1>3, PTL DEF SameInJson, Same

-----------------------------------------------------------------------------
\* The lines a document is answered with.

LEMMA OneFlag == ASSUME NEW v, FlagOf(v) # {}, FlagOf(v) # {FALSE} PROVE FlagOf(v) = {TRUE}
  <1>1. FlagOf(v) \subseteq BOOLEAN
    BY DEF FlagOf
  <1>2. ~(TRUE \in FlagOf(v) /\ FALSE \in FlagOf(v))
    <2>1. CASE v.kind \in {"bool", "int"}
      <3>1. FlagOf(v) = {b \in BOOLEAN : v.number = IF b THEN 1 ELSE 0}
        BY <2>1, Zenon DEF FlagOf
      <3> QED
        BY <3>1
    <2>2. CASE v.kind = "text"
      <3>1. FlagOf(v) = {b \in BOOLEAN : v.word.is \in IF b THEN Truths ELSE Falsehoods}
        BY <2>2 DEF FlagOf
      <3> QED
        BY <3>1 DEF Truths, Falsehoods
    <2>3. CASE ~(v.kind \in {"bool", "int", "text"})
      BY <2>3 DEF FlagOf
    <2> QED
      BY <2>1, <2>2, <2>3
  <1> QED
    BY <1>1, <1>2

\* What a document understood says of one card.
LEMMA CardsSaid ==
    ASSUME NEW v, NEW w \in Parse(v), NEW d \in Under(v, "devices"), NEW e \in d.entries,
           FlagOf(e.value) # {FALSE}
    PROVE  e.key.word.is \in w.devices
  <1>1. Understood(v) /\ w.devices = UNION UNION {Flags(x, "devices") : x \in Under(v, "devices")}
    BY DEF Parse
  <1>2. Flags(d, "devices") # {}
    <2>1. PICK f \in v.entries : f.key.word.is = "devices" /\ d = f.value
      BY DEF Under
    <2>2. \/ f.key.word.is \in {"devices", "capabilities"} /\ Flags(f.value, f.key.word.is) # {}
          \/ f.key.word.is = "require_cuda" /\ Versions(f.value) # {}
      BY <1>1 DEF Understood
    <2> QED
      BY <2>1, <2>2
  <1>3. Flags(d, "devices") = {On(d)} /\ FlagOf(e.value) # {}
    BY <1>2 DEF Flags
  <1>4. FlagOf(e.value) = {TRUE}
    BY <1>3, OneFlag
  <1>5. e.key.word.is \in On(d)
    BY <1>4, Zenon DEF On
  <1> QED
    BY <1>1, <1>3, <1>5

\* A card that a document names is in the file a reconcile leaves, unless the
\* document has it off: a document is taken whole or not at all (doc.rs: parse,
\* conf.rs: render).
THEOREM CardsWritten == Spec => NoCardLeftOut
  <1> DEFINE Written ==
               \A v \in said : \A e \in UNION {d.entries : d \in Under(v, "devices")} :
                  e.key.word.is \in {g.uuid : g \in stock.gpus} /\ FlagOf(e.value) # {FALSE} =>
                     \E l \in ToSet(main') : l.name = VisibleDevices /\ e.key.word.is \in l.data
  <1>1. ASSUME FInv, Reconcile PROVE Written
    <2> SUFFICES ASSUME NEW v \in said, NEW d \in Under(v, "devices"), NEW e \in d.entries,
                        NEW g \in stock.gpus, e.key.word.is = g.uuid, FlagOf(e.value) # {FALSE}
                 PROVE  \E l \in ToSet(main') : l.name = VisibleDevices /\ g.uuid \in l.data
      BY Zenon
    <2>1. Want # {}
      BY <1>1, Zenon DEF Reconcile, Planned, Readable
    <2>2. PICK w : w \in Want
      BY <2>1
    <2>3. w \in Parse(v)
      <3>1. said = {v} /\ v \in Subtrees
        BY <1>1 DEF FInv
      <3> QED
        BY <2>2, <3>1 DEF Want, Meaning
    <2>4. g.uuid \in w.devices
      BY <2>3, CardsSaid
    <2>5. g \in Selected(w, stock)
      BY <2>4 DEF Selected
    <2> DEFINE l == EnvLine(VisibleDevices, {c.uuid : c \in Selected(w, stock)})
    <2>6. l \in Wanted(w, stock)
      BY <2>5 DEF Wanted, Render
    <2>7. l.key = "env" /\ l.name = VisibleDevices /\ g.uuid \in l.data
      BY <2>5 DEF EnvLine, Plain
    <2> HIDE DEF l
    <2>8. l \in ToSet(main')
      <3>1. l \in Range(DesiredNow)
        BY <1>1, <2>2, <2>6, DesiredLines DEF Listed
      <3>2. Range(DesiredNow) \subseteq Range(main')
        BY <1>1, BlockWritten
      <3>3. ToSet(main') = Range(main')
        BY <1>1, StepFiles, Lists DEF Next, FInv
      <3> QED
        BY <3>1, <3>2, <3>3
    <2> QED
      BY <2>7, <2>8
  <1> HIDE DEF Written
  <1>2. FInv /\ [Next]_vars => [Reconcile => Written]_vars
    BY <1>1
  <1>3. Spec => [][Reconcile => Written]_vars
    BY FilesTyped, <1>2, PTL DEF Spec
  <1> QED
    BY <1>3 DEF NoCardLeftOut, Written

\* What the tool writes of a document: names of cards, capabilities, a version.
LEMMA DataWritten ==
    ASSUME NEW w, NEW inv, NEW l \in Wanted(w, inv)
    PROVE  \A x \in l.data : x \in w.devices \cup CapabilityList(w) \cup w.require_cuda
  <1> DEFINE gpus == Selected(w, inv)
             caps == CapabilityList(w)
             cuda == w.require_cuda
  <1>1. \A g \in gpus : g.uuid \in w.devices
    BY DEF Selected
  <1>2. \A a, b : Allow(a, b).data = {}
    BY DEF Allow
  <1>3. \A n, d : EnvLine(n, d).data = d
    BY DEF EnvLine, Plain
  <1>4. HookLine.data = {}
    BY DEF HookLine, Plain
  <1>5. l \in Render(gpus, caps, cuda, inv.uvm)
    BY DEF Wanted
  <1> HIDE DEF gpus, caps, cuda
  <1>6. \/ \E a, b : l = Allow(a, b)
        \/ l = HookLine
        \/ l = EnvLine(VisibleDevices, {g.uuid : g \in gpus})
        \/ l = EnvLine(DriverCapabilities, caps)
        \/ \E v \in cuda : l = EnvLine(RequireCuda, {v})
    <2> DEFINE G == {Allow(NvidiaMajor, g.minor) : g \in gpus}
               M == {Allow(NvidiaMajor, ModesetMinor) : c \in caps \cap {"graphics", "display"}}
               F == {Allow(NvidiaMajor, CtlMinor), HookLine,
                     EnvLine(VisibleDevices, {g.uuid : g \in gpus})}
               U == {Allow(m, i) : m \in inv.uvm, i \in {0, 1}}
               C == IF caps = {} THEN {} ELSE {EnvLine(DriverCapabilities, caps)}
               R == {EnvLine(RequireCuda, {v}) : v \in cuda}
    <2>1. gpus # {}
      BY <1>5 DEF Render
    <2>2. Render(gpus, caps, cuda, inv.uvm) = G \cup M \cup F \cup U \cup C \cup R
      BY <2>1 DEF Render
    <2>3. \A k \in G : \E a, b : k = Allow(a, b)
      BY Zenon
    <2>4. \A k \in M : \E a, b : k = Allow(a, b)
      BY Zenon
    <2>5. \A k \in U : \E a, b : k = Allow(a, b)
      OBVIOUS
    <2>6. \A k \in F : \/ \E a, b : k = Allow(a, b)
                      \/ k = HookLine
                      \/ k = EnvLine(VisibleDevices, {g.uuid : g \in gpus})
      BY Zenon
    <2>7. \A k \in C : k = EnvLine(DriverCapabilities, caps)
      BY Zenon
    <2>8. \A k \in R : \E v \in cuda : k = EnvLine(RequireCuda, {v})
      BY Zenon
    <2> HIDE DEF G, M, F, U, C, R
    <2>9. l \in G \cup M \cup F \cup U \cup C \cup R
      BY <1>5, <2>2, Zenon
    <2> QED
      BY <2>3, <2>4, <2>5, <2>6, <2>7, <2>8, <2>9, Zenon
  <1>7. \/ l.data = {} \/ l.data = {g.uuid : g \in gpus} \/ l.data = caps
        \/ \E v \in cuda : l.data = {v}
    <2>1. CASE \E v \in cuda : l = EnvLine(RequireCuda, {v})
      <3>1. PICK v \in cuda : l = EnvLine(RequireCuda, {v})
        BY <2>1
      <3>2. l.data = {v}
        BY <1>3, <3>1, Zenon
      <3> QED
        BY <3>2
    <2>2. CASE l = EnvLine(VisibleDevices, {g.uuid : g \in gpus})
      BY <1>3, <2>2, Zenon
    <2>3. CASE l = EnvLine(DriverCapabilities, caps)
      BY <1>3, <2>3, Zenon
    <2>4. CASE \/ \E a, b : l = Allow(a, b)
               \/ l = HookLine
      BY <1>2, <1>4, <2>4, Zenon
    <2> QED
      BY <1>6, <2>1, <2>2, <2>3, <2>4, Zenon
  <1>8. \A x \in l.data : x \in w.devices \cup caps \cup cuda
    BY <1>1, <1>7
  <1> QED
    BY <1>8 DEF caps, cuda

\* No word of a document that could end a line or a list is one of them.
LEMMA WordsTaken ==
    ASSUME NEW v \in Subtrees, NEW w \in Parse(v), NEW y \in WordsOf(v),
           y.chars \cap {"break", "comma"} # {}
    PROVE  y.is \notin w.devices \cup CapabilityList(w) \cup w.require_cuda
  <1>1. /\ Understood(v)
        /\ w.devices = UNION UNION {Flags(x, "devices") : x \in Under(v, "devices")}
        /\ w.capabilities = UNION {Flags(x, "capabilities") : x \in Under(v, "capabilities")}
        /\ w.require_cuda = UNION {Versions(x) : x \in Under(v, "require_cuda")}
    BY DEF Parse
  <1>2. \A x \in WordsOf(v) : x.is = y.is => x.chars = y.chars
    BY ConfFileAssumption
  <1>3. y.is \notin Capabilities
    BY ConfFileAssumption
  <1>4. ASSUME NEW key, NEW d \in Under(v, key)
        PROVE  /\ d.word \in WordsOf(v)
               /\ \A e \in d.entries : e.key.word \in WordsOf(v)
    <2> DEFINE below == UNION {{e.key, e.value} : e \in v.entries}
    <2>1. PICK f \in v.entries : d = f.value
      BY DEF Under
    <2>2. d \in below
      BY <2>1
    <2>3. WordsOf(v) = {x.word : x \in below \cup UNION {{e.key, e.value} :
                                        e \in UNION {x.entries : x \in below}}}
      BY Zenon DEF WordsOf
    <2> HIDE DEF below
    <2>4. \A e \in d.entries : e \in UNION {x.entries : x \in below}
      BY <2>2
    <2> QED
      BY <2>2, <2>3, <2>4
  <1>5. ASSUME NEW key, NEW d \in Under(v, key), \E s \in Flags(d, key) : y.is \in s
        PROVE  \E x \in WordsOf(v) : x.is = y.is /\ IsName(key, x)
    <2>1. y.is \in On(d) /\ \A e \in d.entries : IsName(key, e.key.word)
      BY <1>5 DEF Flags
    <2>2. PICK e \in d.entries : y.is = e.key.word.is
      BY <2>1 DEF On
    <2> QED
      BY <1>4, <2>1, <2>2
  <1>6. y.is \notin w.devices
    <2> SUFFICES ASSUME y.is \in w.devices PROVE FALSE
      OBVIOUS
    <2>1. PICK d \in Under(v, "devices") : \E s \in Flags(d, "devices") : y.is \in s
      BY <1>1
    <2>2. PICK x \in WordsOf(v) : x.is = y.is /\ IsName("devices", x)
      BY <1>5, <2>1
    <2>3. x.chars \subseteq {"digit", "hex", "dash"}
      BY <2>2 DEF IsName, IsDeviceId
    <2> QED
      BY <1>2, <2>2, <2>3
  <1>7. y.is \notin CapabilityList(w)
    <2> SUFFICES ASSUME y.is \in CapabilityList(w) PROVE FALSE
      OBVIOUS
    <2>1. CASE w.capabilities = {}
      BY <1>3, <2>1 DEF CapabilityList, DefaultCapabilities, Capabilities
    <2>2. CASE w.capabilities # {}
      <3>1. y.is \in UNION w.capabilities
        BY <2>2 DEF CapabilityList
      <3>2. PICK d \in Under(v, "capabilities") : \E s \in Flags(d, "capabilities") : y.is \in s
        BY <1>1, <3>1
      <3>3. PICK x \in WordsOf(v) : x.is = y.is /\ IsName("capabilities", x)
        BY <1>5, <3>2
      <3> QED
        BY <1>3, <3>3 DEF IsName
    <2> QED
      BY <2>1, <2>2
  <1>8. y.is \notin w.require_cuda
    <2> SUFFICES ASSUME y.is \in w.require_cuda PROVE FALSE
      OBVIOUS
    <2>1. PICK d \in Under(v, "require_cuda") : y.is \in Versions(d)
      BY <1>1
    <2>2. IsVersion(d.word) /\ y.is = d.word.is
      BY <2>1 DEF Versions
    <2>3. d.word.chars \subseteq {"digit", "dot"}
      BY <2>2 DEF IsVersion
    <2> QED
      BY <1>2, <1>4, <2>2, <2>3
  <1> QED
    BY <1>6, <1>7, <1>8

\* Whatever a document says, no word of it that could end a config line or an
\* element of a list is in a line of the tool (doc.rs: is_device_id,
\* is_version, CAPABILITIES).
THEOREM NoLineInjected == Spec => NoLineOfItsOwn
  <1> DEFINE Whole ==
               \A v \in said : \A l \in ManagedLines(ToSet(main'), OwnedNow) :
                  l.data \cap Breaking[v] = {}
  <1>1. ASSUME FInv, Reconcile PROVE Whole
    <2> SUFFICES ASSUME NEW v \in said, NEW l \in ManagedLines(ToSet(main'), OwnedNow),
                        NEW x \in l.data, x \in Breaking[v]
                 PROVE  FALSE
      OBVIOUS
    <2>1. l \in Range(main') /\ IsManaged(l, OwnedNow)
      BY <1>1, StepFiles, Lists DEF Next, FInv, ManagedLines
    <2>2. l # Blank
      <3>1. Blank.data = {}
        BY DEF Blank, Plain
      <3> QED
        BY <3>1
    <2>3. l \in Range(DesiredNow)
      BY <1>1, <2>1, <2>2, BlockWritten
    <2>4. PICK w \in Want : l \in Wanted(w, stock)
      BY <1>1, <2>3, DesiredLines DEF Listed
    <2>5. x \in w.devices \cup CapabilityList(w) \cup w.require_cuda
      BY <2>4, DataWritten
    <2>6. said = {v} /\ v \in Subtrees
      BY <1>1 DEF FInv
    <2>7. w \in Parse(v)
      BY <2>4, <2>6 DEF Want, Meaning
    <2>8. PICK y \in WordsOf(v) : y.is = x /\ y.chars \cap {"break", "comma"} # {}
      BY <2>6, Zenon DEF Breaking
    <2> QED
      BY <2>5, <2>6, <2>7, <2>8, WordsTaken
  <1> HIDE DEF Whole
  <1>2. FInv /\ [Next]_vars => [Reconcile => Whole]_vars
    BY <1>1
  <1>3. Spec => [][Reconcile => Whole]_vars
    BY FilesTyped, <1>2, PTL DEF Spec
  <1> QED
    BY <1>3, PTL DEF NoLineOfItsOwn, Whole
=============================================================================

--------------------------- MODULE SequenceLemmas ---------------------------
(***************************************************************************)
(* What the operators on sequences do that the models are built from:        *)
(* FlattenSeq and SetToSeq of the community modules, \o and SubSeq.          *)
(*                                                                           *)
(* Induction on the natural numbers is done on a set of them: one that has 0 *)
(* and the successor of each of its elements is Nat. That follows from the   *)
(* well-foundedness of < as the library states it.                           *)
(***************************************************************************)
EXTENDS Integers, SequencesExt, SequenceTheorems, FiniteSetTheorems, WellFoundedInduction, TLAPS

\* < as a relation.
Less == {p \in Nat \X Nat : p[1] < p[2]}

\* < is well-founded on the natural numbers.
LEMMA LessWF == IsWellFoundedOn(Less, Nat)
  <1>1. OpToRel(<, Nat) = Less
    BY DEF OpToRel, Less
  <1> QED
    BY <1>1, NatLessThanWellFounded

\* A nonempty set of natural numbers has a least element.
LEMMA LeastNat ==
  ASSUME NEW T \in SUBSET Nat, T # {}
  PROVE  \E m \in T : \A n \in T : m <= n
  <1>1. \A m, n \in Nat : n < m => <<n, m>> \in Less
    BY DEF Less
  <1>2. PICK m \in T : \A n \in T : ~(<<n, m>> \in Less)
    BY LessWF, WFMin
  <1>3. ASSUME NEW n \in T PROVE m <= n
    <2>1. n \in Nat /\ m \in Nat
      OBVIOUS
    <2>2. ~(n < m)
      BY <1>1, <1>2, <2>1
    <2> QED
      BY <2>1, <2>2
  <1> QED
    BY <1>3

\* Induction: a set with 0 and every successor of its elements is Nat.
LEMMA NatSetInduction ==
  ASSUME NEW T \in SUBSET Nat, 0 \in T, \A n \in T : n + 1 \in T
  PROVE  T = Nat
  <1> SUFFICES ASSUME Nat \ T # {} PROVE FALSE
    OBVIOUS
  <1>1. PICK m \in Nat \ T : \A n \in Nat \ T : m <= n
    BY LeastNat
  <1>2. m # 0 /\ m - 1 \in Nat /\ m - 1 \in T
    BY <1>1
  <1> QED
    BY <1>2

\* Nothing flattens to nothing.
LEMMA FlattenEmpty == FlattenSeq(<< >>) = << >>
  BY DEF FlattenSeq

\* g is what FlattenSeq has put together after each element of q.
Flattens(g, q, n) ==
  \A i \in 1 .. n : g[i] = IF i = 1 THEN q[i] ELSE g[i - 1] \o q[i]

\* There is such a g, for any number of the elements of q.
LEMMA FlattensExists ==
  ASSUME NEW S, NEW q \in Seq(Seq(S)), NEW n \in Nat, n <= Len(q)
  PROVE  \E g \in [1 .. n -> Seq(S)] : Flattens(g, q, n)
  <1> DEFINE T == {k \in Nat : k <= Len(q) => \E g \in [1 .. k -> Seq(S)] : Flattens(g, q, k)}
  <1>1. 0 \in T
    <2> DEFINE g == [i \in 1 .. 0 |-> << >>]
    <2>1. 1 .. 0 = {}
      OBVIOUS
    <2>2. g \in [1 .. 0 -> Seq(S)]
      BY <2>1
    <2>3. Flattens(g, q, 0)
      BY <2>1 DEF Flattens
    <2> HIDE DEF g
    <2> QED
      BY <2>2, <2>3
  <1>2. ASSUME NEW k \in T PROVE k + 1 \in T
    <2> SUFFICES ASSUME k + 1 <= Len(q)
                 PROVE  \E g \in [1 .. (k + 1) -> Seq(S)] : Flattens(g, q, k + 1)
      OBVIOUS
    <2>1. PICK g \in [1 .. k -> Seq(S)] : Flattens(g, q, k)
      OBVIOUS
    <2> DEFINE x == IF k = 0 THEN q[1] ELSE g[k] \o q[k + 1]
               h == [i \in 1 .. (k + 1) |-> IF i = k + 1 THEN x ELSE g[i]]
    <2>2. q[k + 1] \in Seq(S) /\ q[1] \in Seq(S)
      OBVIOUS
    <2>3. x \in Seq(S)
      <3>1. CASE k = 0
        BY <2>2, <3>1
      <3>2. CASE k # 0
        <4>1. g[k] \in Seq(S)
          BY <3>2
        <4> QED
          BY <2>2, <3>2, <4>1, ConcatProperties
      <3> QED
        BY <3>1, <3>2
    <2>4. h \in [1 .. (k + 1) -> Seq(S)]
      BY <2>3
    <2>5. Flattens(h, q, k + 1)
      <3> SUFFICES ASSUME NEW i \in 1 .. (k + 1)
                   PROVE  h[i] = IF i = 1 THEN q[i] ELSE h[i - 1] \o q[i]
        BY DEF Flattens
      <3>1. CASE i = k + 1 /\ k = 0
        BY <3>1
      <3>2. CASE i = k + 1 /\ k # 0
        <4>1. k \in Nat /\ k + 1 - 1 = k /\ k + 1 # 1 /\ k # k + 1
          BY <3>2
        <4>2. k \in 1 .. (k + 1) /\ k + 1 \in 1 .. (k + 1)
          BY <3>2, <4>1
        <4>3. h[k + 1] = x /\ h[k] = g[k]
          BY <4>1, <4>2
        <4>4. x = g[k] \o q[k + 1]
          BY <3>2
        <4> HIDE DEF h, x
        <4>5. i # 1 /\ h[i - 1] = g[k] /\ h[i] = g[k] \o q[i]
          BY <3>2, <4>1, <4>3, <4>4
        <4> QED
          BY <4>5
      <3>3. CASE i < k + 1
        <4>1. i \in 1 .. k /\ h[i] = g[i] /\ (i # 1 => h[i - 1] = g[i - 1])
          BY <3>3
        <4>2. g[i] = IF i = 1 THEN q[i] ELSE g[i - 1] \o q[i]
          BY <2>1, <4>1 DEF Flattens
        <4> QED
          BY <4>1, <4>2
      <3> QED
        BY <3>1, <3>2, <3>3
    <2> HIDE DEF h
    <2> QED
      BY <2>4, <2>5
  <1>3. T = Nat
    <2> HIDE DEF T
    <2>1. T \in SUBSET Nat
      BY DEF T
    <2> QED
      BY <1>1, <1>2, <2>1, NatSetInduction
  <1> QED
    BY <1>3

\* g and h are the same up to n.
Agree(g, h, n) == \A i \in 1 .. n : g[i] = h[i]

\* Two of them agree where both are defined.
LEMMA FlattensAgree ==
  ASSUME NEW q, NEW r, NEW n \in Nat, NEW g, NEW h,
         Flattens(g, q, n), Flattens(h, r, n), Agree(q, r, n)
  PROVE  Agree(g, h, n)
  <1> DEFINE T == {i \in 1 .. n : g[i] # h[i]}
  <1> SUFFICES ASSUME T # {} PROVE FALSE
    BY DEF Agree
  <1>1. PICK m \in T : \A i \in T : m <= i
    <2> HIDE DEF T
    <2>1. T \in SUBSET Nat
      BY DEF T
    <2> QED
      BY <2>1, LeastNat
  <1>2. m # 1
    BY DEF Flattens, Agree
  <1>3. m - 1 \in 1 .. n /\ m - 1 \notin T
    BY <1>1, <1>2
  <1>4. g[m - 1] = h[m - 1]
    BY <1>3
  <1>5. g[m] = g[m - 1] \o q[m] /\ h[m] = h[m - 1] \o r[m] /\ q[m] = r[m]
    BY <1>2 DEF Flattens, Agree
  <1> QED
    BY <1>4, <1>5

\* FlattenSeq's recursive function is that g.
LEMMA FlattenIs ==
  ASSUME NEW S, NEW q \in Seq(Seq(S)), q # << >>
  PROVE  \E g \in [1 .. Len(q) -> Seq(S)] : Flattens(g, q, Len(q)) /\ FlattenSeq(q) = g[Len(q)]
  <1> DEFINE Eqn(g) == g = [i \in 1 .. Len(q) |-> IF i = 1 THEN q[i] ELSE g[i - 1] \o q[i]]
             h == CHOOSE g : Eqn(g)
  <1>1. Len(q) \in Nat /\ Len(q) # 0
    OBVIOUS
  <1>2. PICK g \in [1 .. Len(q) -> Seq(S)] : Flattens(g, q, Len(q))
    <2> DEFINE n == Len(q)
    <2> HIDE DEF n, h
    <2>1. n \in Nat /\ n <= Len(q)
      BY <1>1 DEF n
    <2>2. \E g \in [1 .. n -> Seq(S)] : Flattens(g, q, n)
      BY <2>1, FlattensExists
    <2> QED
      BY <2>2 DEF n
  <1>3. Eqn(g)
    BY <1>2 DEF Flattens
  <1>4. Eqn(h)
    BY <1>3
  <1>5. FlattenSeq(q) = h[Len(q)]
    BY <1>1 DEF FlattenSeq
  <1>6. Flattens(h, q, Len(q))
    BY <1>4 DEF Flattens
  <1> HIDE DEF h
  <1>7. h[Len(q)] = g[Len(q)]
    <2> DEFINE n == Len(q)
    <2>1. n \in Nat /\ n = Len(q)
      BY <1>1
    <2> HIDE DEF n
    <2>2. Agree(q, q, n)
      BY DEF Agree
    <2>3. Agree(g, h, n)
      BY <1>2, <1>6, <2>1, <2>2, FlattensAgree
    <2> QED
      BY <1>1, <2>3 DEF n, Agree
  <1> QED
    BY <1>2, <1>5, <1>7

\* Flattening gives a sequence of the same elements.
LEMMA FlattenType ==
  ASSUME NEW S, NEW q \in Seq(Seq(S))
  PROVE  FlattenSeq(q) \in Seq(S)
  <1>1. CASE q = << >>
    BY <1>1, FlattenEmpty, EmptySeq
  <1>2. CASE q # << >>
    <2>1. Len(q) \in 1 .. Len(q)
      BY <1>2
    <2>2. PICK g \in [1 .. Len(q) -> Seq(S)] : FlattenSeq(q) = g[Len(q)]
      BY <1>2, FlattenIs
    <2> QED
      BY <2>1, <2>2
  <1> QED
    BY <1>1, <1>2

\* One more sequence comes last.
LEMMA FlattenNext ==
  ASSUME NEW S, NEW q \in Seq(Seq(S)), q # << >>, NEW r \in Seq(Seq(S)),
         Len(r) = Len(q) + 1, \A i \in 1 .. Len(q) : q[i] = r[i]
  PROVE  FlattenSeq(r) = FlattenSeq(q) \o r[Len(r)]
  <1>1. PICK n \in Nat : n = Len(q) /\ n > 0
    OBVIOUS
  <1>2. PICK g \in [1 .. Len(q) -> Seq(S)] : Flattens(g, q, Len(q)) /\ FlattenSeq(q) = g[Len(q)]
    BY FlattenIs
  <1>3. r # << >>
    BY <1>1
  <1>4. PICK h \in [1 .. Len(r) -> Seq(S)] : Flattens(h, r, Len(r)) /\ FlattenSeq(r) = h[Len(r)]
    BY <1>3, FlattenIs
  <1>5. Flattens(g, q, n) /\ Flattens(h, r, n + 1)
    BY <1>1, <1>2, <1>4
  <1>6. Flattens(h, r, n)
    BY <1>5 DEF Flattens
  <1>7. Agree(g, h, n)
    <2>1. Agree(q, r, n)
      BY <1>1 DEF Agree
    <2> QED
      BY <1>5, <1>6, <2>1, FlattensAgree
  <1>8. h[n + 1] = h[n] \o r[n + 1]
    <2>1. n + 1 \in 1 .. (n + 1) /\ n + 1 # 1 /\ n + 1 - 1 = n
      BY <1>1
    <2> DEFINE m == n + 1
    <2> HIDE DEF m
    <2>2. Flattens(h, r, m) /\ m \in 1 .. m /\ m # 1 /\ m - 1 = n
      BY <1>5, <2>1 DEF m
    <2>3. h[m] = h[m - 1] \o r[m]
      BY <2>2 DEF Flattens
    <2> QED
      BY <2>2, <2>3 DEF m
  <1>9. h[n] = g[n]
    BY <1>1, <1>7 DEF Agree
  <1> QED
    BY <1>1, <1>2, <1>4, <1>8, <1>9

\* The same for Append, and for the first one too.
LEMMA FlattenAppend ==
  ASSUME NEW S, NEW q \in Seq(Seq(S)), NEW x \in Seq(S)
  PROVE  FlattenSeq(Append(q, x)) = FlattenSeq(q) \o x
  <1> DEFINE r == Append(q, x)
  <1>1. /\ r \in Seq(Seq(S)) /\ r # << >> /\ Len(r) = Len(q) + 1 /\ r[Len(r)] = x
        /\ \A i \in 1 .. Len(q) : q[i] = r[i]
    BY AppendProperties
  <1>2. CASE q = << >>
    <2>1. r = << x >> /\ Len(r) = 1
      BY <1>1, <1>2
    <2>2. PICK h \in [1 .. Len(r) -> Seq(S)] : Flattens(h, r, Len(r)) /\ FlattenSeq(r) = h[Len(r)]
      <3> HIDE DEF r
      <3> QED
        BY <1>1, FlattenIs
    <2>3. FlattenSeq(r) = x
      <3> HIDE DEF r
      <3>1. Flattens(h, r, 1) /\ 1 \in 1 .. 1 /\ r[1] = x
        BY <1>1, <2>1, <2>2
      <3>2. h[1] = r[1]
        BY <3>1 DEF Flattens
      <3> QED
        BY <2>1, <2>2, <3>1, <3>2
    <2>4. FlattenSeq(q) \o x = x
      BY <1>2, FlattenEmpty, ConcatEmptySeq
    <2> QED
      BY <2>3, <2>4
  <1>3. CASE q # << >>
    <2> HIDE DEF r
    <2>1. FlattenSeq(r) = FlattenSeq(q) \o r[Len(r)]
      BY <1>1, <1>3, FlattenNext
    <2> QED
      BY <1>1, <2>1 DEF r
  <1> QED
    BY <1>2, <1>3

\* Concatenations that are equal have equal parts, if the first ones are as long.
LEMMA SplitSame ==
  ASSUME NEW S, NEW a \in Seq(S), NEW b \in Seq(S), NEW c \in Seq(S), NEW d \in Seq(S),
         Len(a) = Len(c), a \o b = c \o d
  PROVE  a = c /\ b = d
  <1>0. Len(a) \in Nat /\ Len(b) \in Nat /\ Len(d) \in Nat
    OBVIOUS
  <1>a. Len(a \o b) = Len(a) + Len(b)
    BY ConcatProperties
  <1>c. Len(c \o d) = Len(c) + Len(d)
    BY ConcatProperties
  <1>1. Len(b) = Len(d)
    BY <1>0, <1>a, <1>c
  <1>2. \A i \in 1 .. Len(a) : a[i] = (a \o b)[i] /\ c[i] = (c \o d)[i]
    BY ConcatProperties
  <1>3. a = c
    BY <1>2, SeqEqual
  <1>5. ASSUME NEW i \in 1 .. Len(b) PROVE b[i] = d[i]
    <2>1. PICK j \in 1 .. (Len(a) + Len(b)) : ~(j <= Len(a)) /\ j - Len(a) = i
      <3>1. Len(a) + i \in 1 .. (Len(a) + Len(b)) /\ ~(Len(a) + i <= Len(a))
            /\ (Len(a) + i) - Len(a) = i
        BY <1>0
      <3> QED
        BY <3>1
    <2>2. j \in 1 .. (Len(c) + Len(d)) /\ ~(j <= Len(c)) /\ j - Len(c) = i
      BY <1>0, <1>1, <2>1
    <2>3. (a \o b)[j] = b[i]
      BY <2>1, ConcatProperties
    <2>4. (c \o d)[j] = d[i]
      BY <2>2, ConcatProperties
    <2> QED
      BY <2>3, <2>4
  <1>6. b = d
    BY <1>1, <1>5, SeqEqual
  <1> QED
    BY <1>3, <1>6

\* What a concatenation begins with is a prefix of it.
LEMMA PrefixOfConcat ==
  ASSUME NEW S, NEW a \in Seq(S), NEW b \in Seq(S)
  PROVE  IsPrefix(a, a \o b)
  <1>1. Len(a \o b) = Len(a) + Len(b) /\ Len(a) \in Nat /\ Len(b) \in Nat
    BY ConcatProperties
  <1>2. SubSeq(a, 1, Len(a)) = SubSeq(a \o b, 1, Len(a))
    <2>1. CASE Len(a) = 0
      BY <2>1, SubSeqEmpty
    <2>2. CASE Len(a) # 0
      BY <1>1, <2>2, SubSeqOfConcat1
    <2> QED
      BY <2>1, <2>2
  <1> QED
    BY <1>1, <1>2 DEF IsPrefix

\* A sequence cut in two.
LEMMA CutInTwo ==
  ASSUME NEW S, NEW s \in Seq(S), NEW n \in 0 .. Len(s)
  PROVE  /\ SubSeq(s, 1, n) \in Seq(S) /\ Len(SubSeq(s, 1, n)) = n
         /\ SubSeq(s, n + 1, Len(s)) \in Seq(S)
         /\ Len(SubSeq(s, n + 1, Len(s))) = Len(s) - n
         /\ SubSeq(s, 1, n) \o SubSeq(s, n + 1, Len(s)) = s
  <1>1. Len(s) \in Nat
    OBVIOUS
  <1>2. \A i \in 1 .. Len(s) : s[i] \in S
    OBVIOUS
  <1>3. SubSeq(s, 1, n) \in Seq(S) /\ Len(SubSeq(s, 1, n)) = n
    BY <1>1, <1>2, SubSeqProperties
  <1>4. /\ SubSeq(s, n + 1, Len(s)) \in Seq(S)
        /\ Len(SubSeq(s, n + 1, Len(s))) = Len(s) - n
    BY <1>1, <1>2, SubSeqProperties
  <1>5. SubSeq(s, 1, n) \o SubSeq(s, n + 1, Len(s)) = SubSeq(s, 1, Len(s))
    <2>1. 1 \in 1 .. (Len(s) + 1) /\ n \in (1 - 1) .. Len(s) /\ Len(s) \in n .. Len(s)
      BY <1>1
    <2> QED
      BY <2>1, ConcatAdjacentSubSeq
  <1> QED
    BY <1>3, <1>4, <1>5, SubSeqFull

\* \o is associative.
LEMMA ConcatThree ==
  ASSUME NEW S, NEW a \in Seq(S), NEW b \in Seq(S), NEW c \in Seq(S)
  PROVE  a \o b \in Seq(S) /\ b \o c \in Seq(S) /\ (a \o b) \o c = a \o (b \o c)
  BY ConcatProperties, ConcatAssociative

\* One sequence flattens to itself.
LEMMA FlattenOne ==
  ASSUME NEW S, NEW a \in Seq(S)
  PROVE  FlattenSeq(<< a >>) = a
  <1>1. << >> \in Seq(Seq(S)) /\ Append(<< >>, a) = << a >>
    OBVIOUS
  <1>2. FlattenSeq(Append(<< >>, a)) = FlattenSeq(<< >>) \o a
    BY <1>1, FlattenAppend
  <1>3. << >> \o a = a
    BY ConcatEmptySeq
  <1> QED
    BY <1>1, <1>2, <1>3, FlattenEmpty

\* Two flatten to their concatenation.
LEMMA FlattenTwo ==
  ASSUME NEW S, NEW a \in Seq(S), NEW b \in Seq(S)
  PROVE  FlattenSeq(<< a, b >>) = a \o b
  <1> DEFINE c == << a >>
             d == << a, b >>
  <1>1. /\ c \in Seq(Seq(S)) /\ Len(c) = 1 /\ c[1] = a
        /\ d \in Seq(Seq(S)) /\ Len(d) = 2 /\ d[1] = a /\ d[2] = b
    OBVIOUS
  <1>2. FlattenSeq(c) = a
    BY FlattenOne
  <1> HIDE DEF c, d
  <1>3. c # << >> /\ Len(d) = Len(c) + 1 /\ \A i \in 1 .. Len(c) : c[i] = d[i]
    <2>1. \A i \in 1 .. Len(c) : i = 1
      BY <1>1
    <2>2. c # << >>
      <3>1. Len(c) # Len(<< >>)
        BY <1>1, EmptySeq
      <3> QED
        BY <3>1
    <2>3. Len(d) = Len(c) + 1
      BY <1>1
    <2> QED
      BY <1>1, <2>1, <2>2, <2>3
  <1>4. FlattenSeq(d) = FlattenSeq(c) \o d[Len(d)]
    BY <1>1, <1>3, FlattenNext
  <1> QED
    BY <1>1, <1>2, <1>4 DEF d

\* SetToSeq of the empty sequence and at most one other.
LEMMA FlattenPair ==
  ASSUME NEW S, NEW x \in Seq(S), NEW T, T \subseteq {x, << >>}, x = << >> \/ x \in T
  PROVE  FlattenSeq(SetToSeq(T)) = x
  <1> DEFINE Is(f) == f \in [1 .. Cardinality(T) -> T] /\ IsInjective(f)
             F == SetToSeq(T)
  <1>1. ASSUME NEW f, Is(f) PROVE Is(F)
    BY <1>1 DEF SetToSeq
  <1>2. CASE T = {}
    <2>1. Cardinality(T) = 0 /\ x = << >> /\ 1 .. 0 = {}
      BY <1>2, FS_EmptySet
    <2>2. Is([i \in 1 .. 0 |-> x])
      BY <2>1 DEF IsInjective
    <2>3. F \in [1 .. 0 -> T]
      BY <1>1, <2>1, <2>2
    <2> HIDE DEF F
    <2>4. F = << >>
      BY <2>1, <2>3
    <2> QED
      BY <2>1, <2>4, FlattenEmpty DEF F
  <1>3. ASSUME NEW y, T = {y} PROVE FlattenSeq(F) = x
    <2>1. Cardinality(T) = 1
      BY <1>3, FS_Singleton
    <2>2. y = x
      BY <1>3
    <2>3. Is([i \in 1 .. 1 |-> y])
      BY <1>3, <2>1 DEF IsInjective
    <2>4. F \in [1 .. 1 -> {x}]
      BY <1>1, <1>3, <2>1, <2>2, <2>3
    <2> HIDE DEF F
    <2>5. F = << x >>
      BY <2>4
    <2> QED
      BY <2>5, FlattenOne DEF F
  <1>4. CASE T = {x, << >>} /\ x # << >>
    <2>1. Cardinality(T) = 2
      <3>1. IsFiniteSet({x}) /\ Cardinality({x}) = 1
        BY FS_Singleton
      <3>2. T = {x} \cup {<< >>} /\ << >> \notin {x}
        BY <1>4
      <3>3. Cardinality({x} \cup {<< >>}) = Cardinality({x}) + 1
        BY <3>1, <3>2, FS_AddElement
      <3>4. Cardinality({x} \cup {<< >>}) = 2
        BY <3>1, <3>3
      <3> QED
        BY <3>2, <3>4
    <2>2. Is([i \in 1 .. 2 |-> IF i = 1 THEN x ELSE << >>])
      BY <1>4, <2>1 DEF IsInjective
    <2>3. F \in [1 .. 2 -> T] /\ IsInjective(F)
      BY <1>1, <2>1, <2>2
    <2> HIDE DEF F
    <2>4. F[1] \in T /\ F[2] \in T /\ F[1] # F[2]
      BY <2>3 DEF IsInjective
    <2>5. F = << F[1], F[2] >>
      BY <2>3
    <2>6. \A a, b \in Seq(S) : FlattenSeq(<< a, b >>) = a \o b
      BY FlattenTwo
    <2>7. FlattenSeq(<< F[1], F[2] >>) = F[1] \o F[2]
      <3>1. F[1] \in Seq(S) /\ F[2] \in Seq(S)
        BY <1>4, <2>4, EmptySeq
      <3> QED
        BY <2>6, <3>1
    <2>8. x \o << >> = x /\ << >> \o x = x
      BY ConcatEmptySeq
    <2>9. F[1] \o F[2] = x
      BY <1>4, <2>4, <2>8
    <2> QED
      BY <2>5, <2>7, <2>9 DEF F
  <1> QED
    BY <1>2, <1>3, <1>4

\* The values of v at the indexes up to k that are in C.
Chosen(v, C, k) == FlattenSeq([i \in 1 .. k |-> IF i \in C THEN << v[i] >> ELSE << >>])

\* v has n values, each of them in S.
Indexed(v, n, S) == n \in Nat /\ v \in [1 .. n -> S]

\* The chosen values are in S too, and the next index adds its value or nothing.
LEMMA ChosenNext ==
  ASSUME NEW S, NEW n, NEW v, Indexed(v, n, S), NEW C, NEW k \in Nat, k < n
  PROVE  /\ Chosen(v, C, k) \in Seq(S)
         /\ k + 1 \in C => Chosen(v, C, k + 1) = Append(Chosen(v, C, k), v[k + 1])
         /\ k + 1 \notin C => Chosen(v, C, k + 1) = Chosen(v, C, k)
  <1>0. n \in Nat /\ v \in [1 .. n -> S]
    BY DEF Indexed
  <1> DEFINE w(i) == IF i \in C THEN << v[i] >> ELSE << >>
             q == [i \in 1 .. k |-> w(i)]
             r == [i \in 1 .. (k + 1) |-> w(i)]
  <1>1. \A i \in 1 .. n : w(i) \in Seq(S)
    BY <1>0
  <1>2. Chosen(v, C, k) = FlattenSeq(q) /\ Chosen(v, C, k + 1) = FlattenSeq(r)
    BY DEF Chosen
  <1>3. k + 1 \in C => w(k + 1) = << v[k + 1] >>
    OBVIOUS
  <1>4. k + 1 \notin C => w(k + 1) = << >>
    OBVIOUS
  <1> HIDE DEF w
  <1>5. q \in Seq(Seq(S))
    BY <1>0, <1>1
  <1> DEFINE x == FlattenSeq(q)
  <1>6. x \in Seq(S)
    <2> HIDE DEF q
    <2> QED
      BY <1>5, FlattenType
  <1>7. Chosen(v, C, k + 1) = x \o w(k + 1)
    <2>1. w(k + 1) \in Seq(S) /\ k + 1 \in 1 .. n
      BY <1>0, <1>1
    <2>2. r \in Seq(Seq(S)) /\ Len(r) = k + 1 /\ Len(q) = k
      BY <1>0, <1>1
    <2>3. r = Append(q, w(k + 1))
      <3> DEFINE T == Seq(S)
      <3> HIDE DEF T
      <3>1. q \in Seq(T) /\ r \in Seq(T) /\ w(k + 1) \in T
        BY <1>5, <2>1, <2>2 DEF T
      <3>2. Append(q, w(k + 1)) \in Seq(T) /\ Len(Append(q, w(k + 1))) = k + 1
        BY <2>2, <3>1, AppendProperties
      <3>3. \A i \in 1 .. (k + 1) : Append(q, w(k + 1))[i] = r[i]
        BY <2>2, <3>1, AppendProperties
      <3> HIDE DEF q, r
      <3> QED
        BY <2>2, <3>1, <3>2, <3>3, SeqEqual
    <2> HIDE DEF q, r
    <2>4. FlattenSeq(Append(q, w(k + 1))) = FlattenSeq(q) \o w(k + 1)
      BY <1>5, <2>1, FlattenAppend
    <2> QED
      BY <1>2, <2>3, <2>4
  <1> HIDE DEF q, r, x
  <1>8. ASSUME k + 1 \in C PROVE Chosen(v, C, k + 1) = Append(Chosen(v, C, k), v[k + 1])
    <2>1. v[k + 1] \in S /\ x \in Seq(S)
      BY <1>0, <1>6
    <2> QED
      BY <1>2, <1>3, <1>7, <1>8, <2>1, AppendIsConcat DEF x
  <1>9. ASSUME k + 1 \notin C PROVE Chosen(v, C, k + 1) = Chosen(v, C, k)
    BY <1>2, <1>4, <1>6, <1>7, <1>9, ConcatEmptySeq DEF x
  <1>10. Chosen(v, C, k) \in Seq(S)
    BY <1>2, <1>6 DEF x
  <1> QED
    BY <1>8, <1>9, <1>10
=============================================================================

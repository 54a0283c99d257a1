--------------------------- MODULE FrameRecv_proofs ---------------------------
(***************************************************************************)
(* Proofs about FrameRecv, for any lengths, buffers, threads and messages:   *)
(* however the network cuts the stream into pieces, each end parses exactly  *)
(* the messages that were sent, and the application gets their bodies whole  *)
(* and in order.                                                             *)
(*                                                                           *)
(* What was sent is a concatenation, Wire(n), and so is what has been parsed *)
(* of it, is kept, under way and unwritten. A step moves the places where it *)
(* is cut. Cat is \o by a name that is expanded only where it is meant.      *)
(***************************************************************************)
EXTENDS FrameRecv, SequenceLemmas

-----------------------------------------------------------------------------
(* What the first k messages are made of. *)

\* Units of any message, sent or not.
AnyUnit == [msg : Nat, unit : Nat]

\* \o keeps to sequences of units and is associative.
LEMMA UnitConcat ==
  /\ \A a, b \in Seq(AnyUnit) : a \o b \in Seq(AnyUnit)
  /\ \A a, b, c \in Seq(AnyUnit) : (a \o b) \o c = a \o (b \o c)
  <1>1. ASSUME NEW a \in Seq(AnyUnit), NEW b \in Seq(AnyUnit) PROVE a \o b \in Seq(AnyUnit)
    BY ConcatProperties
  <1>2. ASSUME NEW a \in Seq(AnyUnit), NEW b \in Seq(AnyUnit), NEW c \in Seq(AnyUnit)
        PROVE  (a \o b) \o c = a \o (b \o c)
    BY ConcatAssociative
  <1> QED
    BY <1>1, <1>2

\* The same for sequences of bodies.
LEMMA BodiesConcat ==
  \A a, b, c \in Seq(Seq(AnyUnit)) :
    a \o b \in Seq(Seq(AnyUnit)) /\ (a \o b) \o c = a \o (b \o c)
  <1> DEFINE S == Seq(AnyUnit)
  <1> HIDE DEF S
  <1>1. \A a, b, c \in Seq(S) : a \o b \in Seq(S) /\ (a \o b) \o c = a \o (b \o c)
    BY ConcatThree
  <1> QED
    BY <1>1 DEF S

\* A head has HeadLen units, a body as many as its head announces.
LEMMA UnitTypes ==
  ASSUME NEW i \in Nat, NEW len \in Nat
  PROVE  /\ HeadOf(i) \in Seq(AnyUnit) /\ Len(HeadOf(i)) = HeadLen
         /\ BodyOf(i, len) \in Seq(AnyUnit) /\ Len(BodyOf(i, len)) = len
  BY FrameAssumption DEF HeadOf, BodyOf, AnyUnit

\* A body of length 0 has none.
LEMMA EmptyBody == ASSUME NEW i \in Nat PROVE BodyOf(i, 0) = << >>
  <1>1. BodyOf(i, 0) \in Seq(AnyUnit) /\ Len(BodyOf(i, 0)) = 0
    BY UnitTypes
  <1> QED
    BY <1>1, EmptySeq

\* What was sent are messages.
LEMMA MessageFacts ==
  ASSUME sent \in Seq(Message), NEW i \in 1 .. Len(sent)
  PROVE  /\ sent[i] \in Message /\ sent[i].len \in Nat /\ sent[i].len <= MaxBody
         /\ sent[i].type \in {"HB", "DT"} /\ i \in Nat
         /\ sent[i] = [type |-> sent[i].type, len |-> sent[i].len]
  <1>1. sent[i] \in Message /\ i \in Nat
    OBVIOUS
  <1>2. \A m \in Message : /\ m.len \in Nat /\ m.len <= MaxBody /\ m.type \in {"HB", "DT"}
                           /\ m = [type |-> m.type, len |-> m.len]
    BY FrameAssumption DEF Message, MsgType
  <1> QED
    BY <1>1, <1>2

\* The units of the i-th message, and the body it gives the application.
Whole(i) == HeadOf(i) \o BodyOf(i, sent[i].len)
Bodies(i) == IF IsData(i) THEN << BodyOf(i, sent[i].len) >> ELSE << >>

\* Of which each one has its units, and a body or none.
LEMMA WholeType ==
  ASSUME sent \in Seq(Message), NEW i \in 1 .. Len(sent)
  PROVE  Whole(i) \in Seq(AnyUnit) /\ Bodies(i) \in Seq(Seq(AnyUnit))
  <1>1. HeadOf(i) \in Seq(AnyUnit) /\ BodyOf(i, sent[i].len) \in Seq(AnyUnit)
    BY MessageFacts, UnitTypes
  <1>2. Whole(i) \in Seq(AnyUnit)
    BY <1>1, ConcatProperties DEF Whole
  <1> QED
    BY <1>1, <1>2 DEF Bodies

\* The first 0 messages have nothing.
LEMMA WireZero == Wire(0) = << >> /\ DataBodies(0) = << >> /\ Heartbeats(0) = 0
  <1>1. \A f : f \in [1 .. 0 -> {}] => f = << >>
    OBVIOUS
  <1>2. [i \in 1 .. 0 |-> HeadOf(i) \o BodyOf(i, sent[i].len)] \in [1 .. 0 -> {}]
    OBVIOUS
  <1>3. [i \in 1 .. 0 |-> IF IsData(i) THEN <<BodyOf(i, sent[i].len)>> ELSE <<>>] \in [1 .. 0 -> {}]
    OBVIOUS
  <1>4. {i \in 1 .. 0 : sent[i].type = "HB"} = {}
    OBVIOUS
  <1> QED
    BY <1>1, <1>2, <1>3, <1>4, FlattenEmpty, FS_EmptySet DEF Wire, DataBodies, Heartbeats

\* The units of the first k messages of s, which is sent or what it becomes.
WireOf(s, k) == FlattenSeq([i \in 1 .. k |-> HeadOf(i) \o BodyOf(i, s[i].len)])
WholeOf(s, i) == HeadOf(i) \o BodyOf(i, s[i].len)

\* The first k + 1 messages of s are the first k and one more.
LEMMA WireOfNext ==
  ASSUME NEW s \in Seq(Message), NEW k \in Nat, k < Len(s)
  PROVE  WireOf(s, k + 1) = WireOf(s, k) \o WholeOf(s, k + 1)
  <1> DEFINE q == [i \in 1 .. k |-> HeadOf(i) \o BodyOf(i, s[i].len)]
             r == [i \in 1 .. (k + 1) |-> HeadOf(i) \o BodyOf(i, s[i].len)]
  <1>1. \A i \in 1 .. (k + 1) : HeadOf(i) \o BodyOf(i, s[i].len) \in Seq(AnyUnit)
    <2> SUFFICES ASSUME NEW i \in 1 .. (k + 1)
                 PROVE  HeadOf(i) \o BodyOf(i, s[i].len) \in Seq(AnyUnit)
      OBVIOUS
    <2>1. s[i] \in Message /\ i \in Nat
      OBVIOUS
    <2>2. s[i].len \in Nat
      BY <2>1, FrameAssumption DEF Message
    <2>3. HeadOf(i) \in Seq(AnyUnit) /\ BodyOf(i, s[i].len) \in Seq(AnyUnit)
      BY <2>1, <2>2, UnitTypes
    <2> QED
      BY <2>3, UnitConcat
  <1>2. q \in Seq(Seq(AnyUnit)) /\ r \in Seq(Seq(AnyUnit)) /\ Len(q) = k /\ Len(r) = k + 1
    BY <1>1
  <1>3. r = Append(q, WholeOf(s, k + 1))
    <2> DEFINE w(i) == HeadOf(i) \o BodyOf(i, s[i].len)
    <2> HIDE DEF w
    <2>1. q = [i \in 1 .. k |-> w(i)] /\ r = [i \in 1 .. (k + 1) |-> w(i)]
      BY DEF w
    <2> HIDE DEF q, r
    <2>a. w(k + 1) \in Seq(AnyUnit)
      BY <1>1 DEF w
    <2>b. Append(q, w(k + 1)) \in Seq(Seq(AnyUnit)) /\ Len(Append(q, w(k + 1))) = k + 1
      BY <1>2, <2>a
    <2>c. \A i \in 1 .. (k + 1) : Append(q, w(k + 1))[i] = r[i]
      BY <1>2, <2>1, <2>a
    <2>2. r = Append(q, w(k + 1))
      BY <1>2, <2>b, <2>c, SeqEqual
    <2> QED
      BY <2>2 DEF w, WholeOf
  <1>4. WholeOf(s, k + 1) \in Seq(AnyUnit)
    BY <1>1 DEF WholeOf
  <1> HIDE DEF q, r
  <1>5. FlattenSeq(r) = FlattenSeq(q) \o WholeOf(s, k + 1)
    BY <1>2, <1>3, <1>4, FlattenAppend
  <1> QED
    BY <1>5 DEF q, r, WireOf

\* The same of what was sent: the units,
LEMMA WireNext ==
  ASSUME sent \in Seq(Message), NEW k \in Nat, k < Len(sent)
  PROVE  Wire(k + 1) = Wire(k) \o Whole(k + 1)
  <1>1. WireOf(sent, k + 1) = WireOf(sent, k) \o WholeOf(sent, k + 1)
    BY WireOfNext
  <1> QED
    BY <1>1 DEF WireOf, WholeOf, Wire, Whole

\* the data bodies,
LEMMA DataBodiesNext ==
  ASSUME sent \in Seq(Message), NEW k \in Nat, k < Len(sent)
  PROVE  DataBodies(k + 1) = DataBodies(k) \o Bodies(k + 1)
  <1> DEFINE q == [i \in 1 .. k |-> IF IsData(i) THEN <<BodyOf(i, sent[i].len)>> ELSE <<>>]
             r == [i \in 1 .. (k + 1) |-> IF IsData(i) THEN <<BodyOf(i, sent[i].len)>> ELSE <<>>]
  <1>1. \A i \in 1 .. (k + 1) :
          (IF IsData(i) THEN <<BodyOf(i, sent[i].len)>> ELSE <<>>) \in Seq(Seq(AnyUnit))
    BY WholeType DEF Bodies
  <1>2. q \in Seq(Seq(Seq(AnyUnit))) /\ r \in Seq(Seq(Seq(AnyUnit)))
        /\ Len(q) = k /\ Len(r) = k + 1
    BY <1>1
  <1>3. r = Append(q, Bodies(k + 1))
    BY <1>1, <1>2 DEF Bodies
  <1>4. Bodies(k + 1) \in Seq(Seq(AnyUnit))
    BY WholeType
  <1> HIDE DEF q, r
  <1>5. FlattenSeq(r) = FlattenSeq(q) \o Bodies(k + 1)
    BY <1>2, <1>3, <1>4, FlattenAppend
  <1> QED
    BY <1>5 DEF q, r, DataBodies

\* and the heartbeats.
LEMMA HeartbeatsNext ==
  ASSUME sent \in Seq(Message), NEW k \in Nat, k < Len(sent)
  PROVE  /\ Heartbeats(k) \in Nat
         /\ Heartbeats(k + 1) = IF sent[k + 1].type = "HB" THEN Heartbeats(k) + 1 ELSE Heartbeats(k)
  <1> DEFINE A == {i \in 1 .. k : sent[i].type = "HB"}
             B == {i \in 1 .. (k + 1) : sent[i].type = "HB"}
  <1>1. IsFiniteSet(A) /\ Cardinality(A) \in Nat
    <2>1. IsFiniteSet(1 .. k)
      BY FS_Interval
    <2>2. A \in SUBSET (1 .. k)
      OBVIOUS
    <2> QED
      BY <2>1, <2>2, FS_Subset, FS_CardinalityType
  <1>2. k + 1 \notin A
    OBVIOUS
  <1>3. CASE sent[k + 1].type = "HB"
    <2>1. B = A \cup {k + 1}
      BY <1>3
    <2> QED
      BY <1>1, <1>2, <1>3, <2>1, FS_AddElement DEF Heartbeats
  <1>4. CASE sent[k + 1].type # "HB"
    <2>1. B = A
      BY <1>4
    <2> QED
      BY <1>1, <1>4, <2>1 DEF Heartbeats
  <1> QED
    BY <1>3, <1>4

\* What was sent stays.
LEMMA WireKeeps ==
  ASSUME NEW k \in Nat, \A i \in 1 .. k : sent'[i] = sent[i]
  PROVE  Wire(k)' = Wire(k) /\ DataBodies(k)' = DataBodies(k) /\ Heartbeats(k)' = Heartbeats(k)
  BY DEF Wire, DataBodies, Heartbeats, IsData

\* The types of the three.
LEMMA WireType ==
  ASSUME sent \in Seq(Message), NEW k \in Nat, k <= Len(sent)
  PROVE  /\ Wire(k) \in Seq(AnyUnit) /\ DataBodies(k) \in Seq(Seq(AnyUnit))
         /\ Heartbeats(k) \in Nat
  <1> DEFINE q == [i \in 1 .. k |-> HeadOf(i) \o BodyOf(i, sent[i].len)]
             r == [i \in 1 .. k |-> IF IsData(i) THEN <<BodyOf(i, sent[i].len)>> ELSE <<>>]
  <1>1. \A i \in 1 .. k : HeadOf(i) \o BodyOf(i, sent[i].len) \in Seq(AnyUnit)
    BY WholeType DEF Whole
  <1>2. \A i \in 1 .. k :
          (IF IsData(i) THEN <<BodyOf(i, sent[i].len)>> ELSE <<>>) \in Seq(Seq(AnyUnit))
    BY WholeType DEF Bodies
  <1>3. q \in Seq(Seq(AnyUnit))
    BY <1>1
  <1>4. r \in Seq(Seq(Seq(AnyUnit)))
    BY <1>2
  <1>5. Wire(k) \in Seq(AnyUnit)
    <2> HIDE DEF q
    <2>1. FlattenSeq(q) \in Seq(AnyUnit)
      BY <1>3, FlattenType
    <2> QED
      BY <2>1 DEF q, Wire
  <1>6. DataBodies(k) \in Seq(Seq(AnyUnit))
    <2> HIDE DEF r
    <2>1. FlattenSeq(r) \in Seq(Seq(AnyUnit))
      BY <1>4, FlattenType
    <2> QED
      BY <2>1 DEF r, DataBodies
  <1>7. Heartbeats(k) \in Nat
    <2>1. IsFiniteSet(1 .. k)
      BY FS_Interval
    <2>2. {i \in 1 .. k : sent[i].type = "HB"} \in SUBSET (1 .. k)
      OBVIOUS
    <2> QED
      BY <2>1, <2>2, FS_Subset, FS_CardinalityType DEF Heartbeats
  <1> QED
    BY <1>5, <1>6, <1>7

\* The first k messages are the beginning of all of them.
LEMMA WireRest ==
  ASSUME sent \in Seq(Message), NEW k \in Nat, NEW n \in Nat, k <= n, n <= Len(sent)
  PROVE  /\ \E w \in Seq(AnyUnit) : Wire(n) = Wire(k) \o w
         /\ \E b \in Seq(Seq(AnyUnit)) : DataBodies(n) = DataBodies(k) \o b
  <1> DEFINE Rest(m) == /\ \E w \in Seq(AnyUnit) : Wire(m) = Wire(k) \o w
                        /\ \E b \in Seq(Seq(AnyUnit)) : DataBodies(m) = DataBodies(k) \o b
             T == {d \in Nat : k + d <= Len(sent) => Rest(k + d)}
  <1>1. 0 \in T
    <2>1. << >> \in Seq(AnyUnit) /\ << >> \in Seq(Seq(AnyUnit))
      OBVIOUS
    <2>2. Wire(k) = Wire(k) \o << >> /\ DataBodies(k) = DataBodies(k) \o << >>
      BY WireType, ConcatEmptySeq
    <2>3. Rest(k)
      BY <2>1, <2>2
    <2> HIDE DEF Rest
    <2> QED
      BY <2>3
  <1>2. ASSUME NEW d \in T PROVE d + 1 \in T
    <2>0. d \in Nat /\ d + 1 \in Nat
      OBVIOUS
    <2> HIDE DEF Rest
    <2> SUFFICES ASSUME k + (d + 1) <= Len(sent) PROVE Rest(k + (d + 1))
      BY <2>0
    <2> DEFINE m == k + d
    <2>1. m \in Nat /\ m < Len(sent) /\ k + (d + 1) = m + 1 /\ m + 1 \in 1 .. Len(sent)
      BY <2>0
    <2>2. Rest(m)
      BY <2>0, <2>1
    <2> HIDE DEF m
    <2>3. PICK w \in Seq(AnyUnit) : Wire(m) = Wire(k) \o w
      BY <2>2 DEF Rest
    <2>4. PICK b \in Seq(Seq(AnyUnit)) : DataBodies(m) = DataBodies(k) \o b
      BY <2>2 DEF Rest
    <2>5. Wire(k) \in Seq(AnyUnit) /\ DataBodies(k) \in Seq(Seq(AnyUnit))
      BY <2>0, WireType
    <2>a. Whole(m + 1) \in Seq(AnyUnit) /\ Bodies(m + 1) \in Seq(Seq(AnyUnit))
      BY <2>1, WholeType
    <2>6. Wire(m + 1) = Wire(k) \o (w \o Whole(m + 1)) /\ w \o Whole(m + 1) \in Seq(AnyUnit)
      <3>1. Wire(m + 1) = (Wire(k) \o w) \o Whole(m + 1)
        BY <2>1, <2>3, WireNext
      <3>2. /\ (Wire(k) \o w) \o Whole(m + 1) = Wire(k) \o (w \o Whole(m + 1))
            /\ w \o Whole(m + 1) \in Seq(AnyUnit)
        BY <2>5, <2>a, UnitConcat
      <3> QED
        BY <3>1, <3>2
    <2>7. /\ DataBodies(m + 1) = DataBodies(k) \o (b \o Bodies(m + 1))
          /\ b \o Bodies(m + 1) \in Seq(Seq(AnyUnit))
      <3>1. DataBodies(m + 1) = (DataBodies(k) \o b) \o Bodies(m + 1)
        BY <2>1, <2>4, DataBodiesNext
      <3>2. /\ (DataBodies(k) \o b) \o Bodies(m + 1) = DataBodies(k) \o (b \o Bodies(m + 1))
            /\ b \o Bodies(m + 1) \in Seq(Seq(AnyUnit))
        BY <2>5, <2>a, BodiesConcat
      <3> QED
        BY <3>1, <3>2
    <2>8. Rest(m + 1)
      BY <2>6, <2>7 DEF Rest
    <2> QED
      BY <2>1, <2>8
  <1>3. T = Nat
    <2> HIDE DEF T
    <2>1. T \in SUBSET Nat
      BY DEF T
    <2> QED
      BY <1>1, <1>2, <2>1, NatSetInduction
  <1>4. n - k \in T /\ k + (n - k) = n
    <2> HIDE DEF T
    <2> QED
      BY <1>3
  <1>5. Rest(n)
    <2> HIDE DEF Rest
    <2> QED
      BY <1>4
  <1> QED
    BY <1>5

\* What is unwritten is one thread's, if no other one has anything to write.
LEMMA UnwrittenOne ==
  ASSUME NEW W \in [Sender -> Seq(AnyUnit)], NEW t \in Sender,
         \A u \in Sender : u # t => W[u] = << >>
  PROVE  FlattenSeq(SetToSeq({W[u] : u \in Sender})) = W[t]
  <1> DEFINE T == {W[u] : u \in Sender}
  <1>1. W[t] \in Seq(AnyUnit) /\ T \subseteq {W[t], << >>} /\ W[t] \in T
    OBVIOUS
  <1> HIDE DEF T
  <1>2. FlattenSeq(SetToSeq(T)) = W[t]
    BY <1>1, FlattenPair
  <1> QED
    BY <1>2 DEF T

\* It is nothing if none has.
LEMMA UnwrittenNone ==
  ASSUME NEW W, \A u \in Sender : W[u] = << >>
  PROVE  FlattenSeq(SetToSeq({W[u] : u \in Sender})) = << >>
  <1> DEFINE T == {W[u] : u \in Sender}
             x == << >>
  <1>1. x \in Seq(AnyUnit) /\ T \subseteq {x, << >>} /\ x = << >>
    OBVIOUS
  <1> HIDE DEF T, x
  <1>2. FlattenSeq(SetToSeq(T)) = x
    BY <1>1, FlattenPair
  <1> QED
    BY <1>1, <1>2 DEF T

-----------------------------------------------------------------------------
(* Sequences of units. *)

\* The lemmas below are all that the proofs use of Cat.
Units == Seq(AnyUnit)
Cat(a, b) == a \o b

\* Cat is associative, and nothing is its unit.
LEMMA CatFacts ==
  /\ \A a, b \in Units : Cat(a, b) \in Units
  /\ \A a, b, c \in Units : Cat(Cat(a, b), c) = Cat(a, Cat(b, c))
  /\ << >> \in Units
  /\ \A a \in Units : Cat(a, << >>) = a /\ Cat(<< >>, a) = a
  <1>1. ASSUME NEW a \in Units, NEW b \in Units PROVE Cat(a, b) \in Units
    BY ConcatProperties DEF Units, Cat
  <1>2. ASSUME NEW a \in Units, NEW b \in Units, NEW c \in Units
        PROVE  Cat(Cat(a, b), c) = Cat(a, Cat(b, c))
    BY ConcatAssociative DEF Units, Cat
  <1>3. << >> \in Units
    BY DEF Units
  <1>4. ASSUME NEW a \in Units PROVE Cat(a, << >>) = a /\ Cat(<< >>, a) = a
    BY ConcatEmptySeq DEF Units, Cat
  <1> QED
    BY <1>1, <1>2, <1>3, <1>4

\* The lengths add up.
LEMMA CatLen ==
  ASSUME NEW a \in Units, NEW b \in Units
  PROVE  Len(Cat(a, b)) = Len(a) + Len(b) /\ Len(a) \in Nat /\ Len(b) \in Nat
  BY ConcatProperties DEF Units, Cat

\* Equal concatenations whose first parts are as long have equal parts.
LEMMA CatSplit ==
  ASSUME NEW a \in Units, NEW b \in Units, NEW c \in Units, NEW d \in Units,
         Cat(a, b) = Cat(c, d), Len(a) = Len(c)
  PROVE  a = c /\ b = d
  BY SplitSame DEF Units, Cat

\* The first n units of b, and the others.
First(b, n) == SubSeq(b, 1, n)
Others(b, n) == SubSeq(b, n + 1, Len(b))

\* The two parts of a cut are what was cut.
LEMMA CutFacts ==
  ASSUME NEW b \in Units, NEW n \in 0 .. Len(b)
  PROVE  /\ First(b, n) \in Units /\ Len(First(b, n)) = n
         /\ Others(b, n) \in Units /\ Len(Others(b, n)) = Len(b) - n
         /\ Cat(First(b, n), Others(b, n)) = b
  BY CutInTwo DEF Units, Cat, First, Others

\* They may be counted to a instead.
LEMMA UnitsPass ==
  ASSUME NEW x \in Units, NEW a \in Units, NEW b \in Units, NEW n \in 0 .. Len(b)
  PROVE  Cat(Cat(x, Cat(a, First(b, n))), Others(b, n)) = Cat(Cat(x, a), b)
  <1>1. Cat(Cat(x, Cat(a, First(b, n))), Others(b, n))
          = Cat(Cat(x, a), Cat(First(b, n), Others(b, n)))
    BY CutFacts, CatFacts
  <1> QED
    BY <1>1, CutFacts

\* The next message's units, and what follows them.
LEMMA WholeFacts ==
  ASSUME sent \in Seq(Message), NEW k \in Nat, k < Len(sent)
  PROVE  /\ HeadOf(k + 1) \in Units /\ Len(HeadOf(k + 1)) = HeadLen
         /\ BodyOf(k + 1, sent[k + 1].len) \in Units
         /\ Len(BodyOf(k + 1, sent[k + 1].len)) = sent[k + 1].len
         /\ Wire(k) \in Units /\ Wire(k + 1) \in Units /\ Wire(Len(sent)) \in Units
         /\ Wire(k + 1) = Cat(Wire(k), Cat(HeadOf(k + 1), BodyOf(k + 1, sent[k + 1].len)))
         /\ \E w \in Units : Wire(Len(sent)) = Cat(Wire(k + 1), w)
  <1>1. k + 1 \in 1 .. Len(sent) /\ k + 1 \in Nat /\ k + 1 <= Len(sent) /\ Len(sent) \in Nat
    OBVIOUS
  <1>2. /\ HeadOf(k + 1) \in Units /\ Len(HeadOf(k + 1)) = HeadLen
        /\ BodyOf(k + 1, sent[k + 1].len) \in Units
        /\ Len(BodyOf(k + 1, sent[k + 1].len)) = sent[k + 1].len
    BY <1>1, MessageFacts, UnitTypes DEF Units
  <1>3. Wire(k) \in Units
    BY WireType DEF Units
  <1> DEFINE n == Len(sent)
             j == k + 1
  <1>4. j \in Nat /\ n \in Nat /\ j <= n /\ n <= Len(sent)
    BY <1>1
  <1> HIDE DEF n, j
  <1>5. /\ \E w \in Seq(AnyUnit) : Wire(n) = Wire(j) \o w
        /\ Wire(j) \in Seq(AnyUnit) /\ Wire(n) \in Seq(AnyUnit)
    <2>1. \E w \in Seq(AnyUnit) : Wire(n) = Wire(j) \o w
      BY <1>4, WireRest
    <2>2. Wire(j) \in Seq(AnyUnit) /\ Wire(n) \in Seq(AnyUnit)
      <3>1. j <= Len(sent)
        BY <1>4 DEF n
      <3> QED
        BY <1>4, <3>1, WireType
    <2> QED
      BY <2>1, <2>2
  <1>6. Wire(k + 1) = Cat(Wire(k), Cat(HeadOf(k + 1), BodyOf(k + 1, sent[k + 1].len)))
    BY WireNext DEF Whole, Cat
  <1> QED
    BY <1>2, <1>3, <1>5, <1>6 DEF n, j, Units, Cat

\* What is behind the first k messages begins with the next one.
LEMMA NextWhole ==
  ASSUME sent \in Seq(Message), NEW k \in Nat, k < Len(sent), NEW z \in Units,
         Wire(Len(sent)) = Cat(Wire(k), z)
  PROVE  \E w \in Units : z = Cat(HeadOf(k + 1), Cat(BodyOf(k + 1, sent[k + 1].len), w))
  <1> DEFINE h == HeadOf(k + 1)
             b == BodyOf(k + 1, sent[k + 1].len)
             x == Wire(k)
  <1>1. PICK w \in Units : Wire(Len(sent)) = Cat(Wire(k + 1), w)
    BY WholeFacts
  <1>2. h \in Units /\ b \in Units /\ x \in Units /\ Wire(k + 1) = Cat(x, Cat(h, b))
    BY WholeFacts
  <1>3. Cat(x, z) = Cat(Cat(x, Cat(h, b)), w)
    BY <1>1, <1>2
  <1> HIDE DEF h, b, x
  <1>4. Cat(Cat(x, Cat(h, b)), w) = Cat(x, Cat(h, Cat(b, w))) /\ Cat(h, Cat(b, w)) \in Units
    BY <1>2, CatFacts
  <1>5. z = Cat(h, Cat(b, w))
    BY <1>2, <1>3, <1>4, CatSplit
  <1> QED
    BY <1>5 DEF h, b

-----------------------------------------------------------------------------
(* The parser's place in the stream. *)

\* The head that was read after the first k messages, and how many have begun.
TakenHead(k) == IF m_bIsRecvHead THEN HeadOf(k + 1) ELSE << >>
Begun(k) == IF m_bIsRecvHead THEN k + 1 ELSE k

\* The parser has taken the first k messages off the stream.
ParsedAt(k) ==
  /\ m_bIsRecvHead =>
       /\ k + 1 <= Len(sent)
       /\ sent[k + 1] = [type |-> m_nRecvDataType, len |-> m_nNeedRecvDataLen]
  /\ Cat(Cat(Cat(Cat(Wire(k), TakenHead(k)), m_RecvBufs), stream), Unwritten) = Wire(Len(sent))
  /\ delivered = DataBodies(k)
  /\ refreshed = Heartbeats(k)
  /\ end = "server" => replied = Heartbeats(Begun(k))

\* ParsedExactly says that the parser is at some k.
LEMMA ParsedExactlyIs ==
  ParsedExactly <=>
    (status = "reading" /\ ~Overrun /\ ~mixed => \E k \in 0 .. Len(sent) : ParsedAt(k))
  BY DEF ParsedExactly, ParsedAt, TakenHead, Begun, Cat

\* The types of what is under way.
LEMMA TypeFacts ==
  ASSUME TypeOK, UnitInv
  PROVE  /\ stream \in Units /\ m_RecvBufs \in Units /\ writing \in [Sender -> Units]
         /\ writing \in [Sender -> Seq(AnyUnit)]
         /\ sent \in Seq(Message) /\ Len(sent) \in Nat /\ SentUnit \subseteq AnyUnit
  <1>1. sent \in Seq(Message) /\ Len(sent) \in Nat
    BY DEF TypeOK
  <1>2. SentUnit \subseteq AnyUnit
    BY <1>1, FrameAssumption DEF SentUnit, AnyUnit
  <1>3. Seq(SentUnit) \subseteq Units
    BY <1>2, SeqMonotonic DEF Units
  <1> QED
    BY <1>1, <1>2, <1>3 DEF UnitInv, Units

\* Unless messages are mixed, what is unwritten are units.
LEMMA UnwrittenType ==
  ASSUME TypeOK, UnitInv, WriteInv, ~mixed
  PROVE  Unwritten \in Units
  <1>1. CASE \A t \in Sender : writing[t] = << >>
    <2>1. Unwritten = << >>
      BY <1>1, UnwrittenNone DEF Unwritten
    <2> QED
      BY <2>1, CatFacts
  <1>2. ASSUME NEW t \in Sender, writing[t] # << >> PROVE Unwritten \in Units
    <2>1. \A u \in Sender : u # t => writing[u] = << >>
      BY <1>2 DEF WriteInv
    <2>2. Unwritten = writing[t]
      BY <2>1, TypeFacts, UnwrittenOne DEF Unwritten
    <2> QED
      BY <2>2, TypeFacts
  <1> QED
    BY <1>1, <1>2

\* A step that sends nothing leaves the first k messages what they were.
LEMMA SentKeeps ==
  ASSUME NEW k \in Nat, sent' = sent
  PROVE  /\ Wire(k)' = Wire(k) /\ DataBodies(k)' = DataBodies(k) /\ Heartbeats(k)' = Heartbeats(k)
         /\ Wire(Len(sent))' = Wire(Len(sent))
  <1>1. \A i \in 1 .. k : sent'[i] = sent[i]
    OBVIOUS
  <1>2. Wire(k)' = Wire(k) /\ DataBodies(k)' = DataBodies(k) /\ Heartbeats(k)' = Heartbeats(k)
    BY <1>1, WireKeeps
  <1> QED
    BY <1>2 DEF Wire

\* Whose units they are, when the parser has a whole head.
LEMMA HeadIsNext ==
  ASSUME sent \in Seq(Message), NEW k \in 0 .. Len(sent), NEW head \in Units, Len(head) = HeadLen,
         NEW y \in Units, Wire(Len(sent)) = Cat(Wire(k), Cat(head, y))
  PROVE  k < Len(sent) /\ head = HeadOf(k + 1)
  <1>1. Len(sent) \in Nat /\ k \in Nat
    OBVIOUS
  <1>2. Wire(k) \in Units /\ Cat(head, y) \in Units
    BY <1>1, WireType, CatFacts DEF Units
  <1>3. k < Len(sent)
    <2> SUFFICES ASSUME k = Len(sent) PROVE FALSE
      BY <1>1
    <2>1. Len(Wire(k)) = Len(Wire(k)) + Len(Cat(head, y)) /\ Len(Wire(k)) \in Nat
      BY <1>2, CatLen
    <2>2. Len(Cat(head, y)) = HeadLen + Len(y) /\ Len(y) \in Nat
      BY CatLen
    <2> QED
      BY <2>1, <2>2, FrameAssumption
  <1>4. PICK w \in Units : Cat(head, y) = Cat(HeadOf(k + 1), Cat(BodyOf(k + 1, sent[k + 1].len), w))
    BY <1>1, <1>2, <1>3, NextWhole
  <1>5. /\ HeadOf(k + 1) \in Units /\ Len(HeadOf(k + 1)) = HeadLen
        /\ Cat(BodyOf(k + 1, sent[k + 1].len), w) \in Units
    BY <1>1, <1>3, WholeFacts, CatFacts
  <1>6. head = HeadOf(k + 1)
    BY <1>4, <1>5, CatSplit
  <1> QED
    BY <1>3, <1>6

\* Whose units they are, when it has a whole body.
LEMMA BodyIsNext ==
  ASSUME sent \in Seq(Message), NEW k \in Nat, k < Len(sent), NEW body \in Units,
         Len(body) = sent[k + 1].len, NEW y \in Units,
         Wire(Len(sent)) = Cat(Wire(k), Cat(HeadOf(k + 1), Cat(body, y)))
  PROVE  body = BodyOf(k + 1, sent[k + 1].len)
  <1> DEFINE h == HeadOf(k + 1)
             b == BodyOf(k + 1, sent[k + 1].len)
  <1>1. h \in Units /\ b \in Units /\ Len(b) = Len(body)
    BY WholeFacts
  <1>2. Cat(body, y) \in Units /\ Cat(h, Cat(body, y)) \in Units
    BY <1>1, CatFacts
  <1>3. PICK w \in Units : Cat(h, Cat(body, y)) = Cat(h, Cat(b, w))
    BY <1>2, NextWhole
  <1> HIDE DEF h, b
  <1>4. Cat(b, w) \in Units
    BY <1>1, CatFacts
  <1>5. Cat(body, y) = Cat(b, w)
    BY <1>1, <1>2, <1>3, <1>4, CatSplit
  <1>6. body = b
    BY <1>1, <1>5, CatSplit
  <1> QED
    BY <1>6 DEF b

-----------------------------------------------------------------------------
(* What reading does to the parser's place. *)

\* A piece is kept.
LEMMA KeepParsed ==
  ASSUME TypeOK, UnitInv, NEW k \in 0 .. Len(sent), ParsedAt(k),
         NEW n \in 0 .. Len(stream), Read(n), Keep(Piece(n)), UNCHANGED <<end, sends>>
  PROVE  ParsedAt(k)'
  <1>1. /\ stream \in Units /\ m_RecvBufs \in Units /\ Wire(k) \in Units /\ k \in Nat
        /\ sent \in Seq(Message)
    BY TypeFacts, WireType DEF Units
  <1>2. /\ m_RecvBufs' = Cat(m_RecvBufs, First(stream, n)) /\ stream' = Others(stream, n)
        /\ (m_bIsRecvHead' <=> m_bIsRecvHead) /\ sent' = sent /\ end' = end
        /\ m_nRecvDataType' = m_nRecvDataType /\ m_nNeedRecvDataLen' = m_nNeedRecvDataLen
        /\ UNCHANGED <<delivered, refreshed, replied>> /\ Unwritten' = Unwritten
    BY DEF Read, Keep, Piece, First, Others, Cat, sends, told, Unwritten
  <1>3. TakenHead(k) \in Units /\ TakenHead(k)' = TakenHead(k) /\ Begun(k)' = Begun(k)
        /\ Begun(k) \in Nat
    <2>1. m_bIsRecvHead => k < Len(sent)
      BY <1>1 DEF ParsedAt
    <2>2. TakenHead(k) \in Units
      BY <1>1, <2>1, WholeFacts, CatFacts DEF TakenHead
    <2> QED
      BY <1>1, <1>2, <2>2 DEF TakenHead, Begun, HeadOf
  <1> DEFINE x == Cat(Wire(k), TakenHead(k))
  <1>4. x \in Units
    BY <1>1, <1>3, CatFacts
  <1>5. Cat(Cat(x, Cat(m_RecvBufs, First(stream, n))), Others(stream, n))
          = Cat(Cat(x, m_RecvBufs), stream)
    <2> HIDE DEF x
    <2> QED
      BY <1>1, <1>4, UnitsPass
  <1>6. Wire(k)' = Wire(k) /\ Wire(Len(sent))' = Wire(Len(sent))
        /\ DataBodies(k)' = DataBodies(k) /\ Heartbeats(k)' = Heartbeats(k)
        /\ Heartbeats(Begun(k))' = Heartbeats(Begun(k))
    <2>1. Heartbeats(Begun(k))' = Heartbeats(Begun(k))
      BY <1>2, <1>3 DEF Heartbeats
    <2> QED
      BY <1>1, <1>2, <2>1, SentKeeps
  <1>7. x' = x
    BY <1>3, <1>6 DEF Cat
  <1>8. (Cat(Cat(Cat(x, m_RecvBufs), stream), Unwritten) = Wire(Len(sent)))'
    BY <1>2, <1>5, <1>6, <1>7 DEF ParsedAt, Cat
  <1> QED
    BY <1>2, <1>6, <1>8 DEF ParsedAt

\* What reading n units does to them, for any parser.
LEMMA Reading ==
  ASSUME TypeOK, UnitInv, WriteInv, ~mixed, NEW k \in 0 .. Len(sent), ParsedAt(k),
         NEW n \in 0 .. Len(stream)
  PROVE  LET part == Cat(m_RecvBufs, First(stream, n))
             y == Cat(Others(stream, n), Unwritten)
         IN  /\ part \in Units /\ Len(part) = Len(m_RecvBufs) + n /\ y \in Units
             /\ Wire(k) \in Units /\ TakenHead(k) \in Units
             /\ Others(stream, n) \in Units /\ Unwritten \in Units
             /\ Wire(Len(sent)) = Cat(Wire(k), Cat(TakenHead(k), Cat(part, y)))
  <1> DEFINE o == Others(stream, n)
             f == First(stream, n)
             x == Cat(Wire(k), TakenHead(k))
             part == Cat(m_RecvBufs, f)
             y == Cat(o, Unwritten)
  <1>1. /\ stream \in Units /\ m_RecvBufs \in Units /\ Wire(k) \in Units /\ k \in Nat
        /\ sent \in Seq(Message) /\ Unwritten \in Units
    BY TypeFacts, WireType, UnwrittenType DEF Units
  <1>2. o \in Units /\ f \in Units /\ Len(f) = n
    BY <1>1, CutFacts
  <1>3. TakenHead(k) \in Units
    BY <1>1, WholeFacts, CatFacts DEF TakenHead, ParsedAt
  <1>4. part \in Units /\ Len(part) = Len(m_RecvBufs) + n
    <2>1. part \in Units
      BY <1>1, <1>2, CatFacts
    <2>2. Len(part) = Len(m_RecvBufs) + Len(f)
      BY <1>1, <1>2, CatLen
    <2> QED
      BY <1>2, <2>1, <2>2
  <1>5. x \in Units /\ y \in Units
    BY <1>1, <1>2, <1>3, CatFacts
  <1>6. Wire(Len(sent)) = Cat(Cat(Cat(x, m_RecvBufs), stream), Unwritten)
    BY DEF ParsedAt
  <1>7. Cat(Cat(x, part), o) = Cat(Cat(x, m_RecvBufs), stream)
    <2> HIDE DEF x
    <2> QED
      BY <1>1, <1>5, UnitsPass
  <1>8. Wire(Len(sent)) = Cat(Cat(Cat(x, part), o), Unwritten)
    BY <1>6, <1>7
  <1>9. Cat(Cat(Cat(x, part), o), Unwritten) = Cat(Cat(x, part), y)
    <2> HIDE DEF x, part, o
    <2>1. Cat(x, part) \in Units
      BY <1>4, <1>5, CatFacts
    <2> QED
      BY <1>1, <1>2, <2>1, CatFacts
  <1>10. Cat(Cat(x, part), y) = Cat(x, Cat(part, y))
    <2> HIDE DEF x, part, y
    <2> QED
      BY <1>4, <1>5, CatFacts
  <1>11. Cat(x, Cat(part, y)) = Cat(Wire(k), Cat(TakenHead(k), Cat(part, y)))
    <2> HIDE DEF part, y
    <2>1. Cat(part, y) \in Units
      BY <1>4, <1>5, CatFacts
    <2> QED
      BY <1>1, <1>3, <2>1, CatFacts
  <1> QED
    BY <1>1, <1>2, <1>3, <1>4, <1>5, <1>8, <1>9, <1>10, <1>11

\* A head is complete: it is that of the next message.
LEMMA HeadTaken ==
  ASSUME TypeOK, UnitInv, WriteInv, ~mixed, NEW k \in 0 .. Len(sent), ParsedAt(k),
         NEW n \in 0 .. Len(stream), ~m_bIsRecvHead, Read(n), n = Lacks,
         TakeHead(Assemble(Piece(n))), UNCHANGED <<end, sends>>
  PROVE  LET head == Cat(m_RecvBufs, First(stream, n))
             o == Others(stream, n)
             msg == sent[k + 1]
         IN  /\ Wire(k) \in Units /\ head \in Units /\ o \in Units /\ Unwritten \in Units
             /\ Wire(Len(sent)) = Cat(Wire(k), Cat(head, Cat(o, Unwritten)))
             /\ sent \in Seq(Message) /\ k \in Nat /\ k < Len(sent)
             /\ Len(sent) \in Nat /\ head = HeadOf(k + 1)
             /\ msg \in Message /\ msg.len \in Nat /\ msg.type \in {"HB", "DT"}
             /\ msg = [type |-> msg.type, len |-> msg.len]
             /\ m_RecvBufs' = << >> /\ stream' = o /\ sent' = sent /\ end' = end
             /\ Unwritten' = Unwritten
             /\ m_nRecvDataType' = msg.type /\ m_nNeedRecvDataLen' = msg.len
             /\ m_bIsRecvHead' = (msg.len > 0) /\ delivered' = delivered
             /\ refreshed' = IF msg.type = "HB" /\ msg.len = 0 THEN refreshed + 1 ELSE refreshed
             /\ replied' = IF msg.type = "HB" /\ end = "server" THEN replied + 1 ELSE replied
  <1> DEFINE head == Cat(m_RecvBufs, First(stream, n))
             o == Others(stream, n)
             y == Cat(o, Unwritten)
             msg == sent[k + 1]
  <1>1. /\ head \in Units /\ Len(head) = Len(m_RecvBufs) + n /\ y \in Units
        /\ Wire(k) \in Units /\ o \in Units /\ Unwritten \in Units
        /\ TakenHead(k) = << >>
        /\ Wire(Len(sent)) = Cat(Wire(k), Cat(<< >>, Cat(head, y)))
    BY Reading DEF TakenHead
  <1>2. Len(head) = HeadLen
    BY <1>1, TypeFacts, FrameAssumption DEF Lacks, Units
  <1>3. sent \in Seq(Message) /\ k \in Nat /\ Len(sent) \in Nat
    BY TypeFacts
  <1>4. Wire(Len(sent)) = Cat(Wire(k), Cat(head, y))
    <2> HIDE DEF head, y
    <2>1. Cat(head, y) \in Units
      BY <1>1, CatFacts
    <2> QED
      BY <1>1, <2>1, CatFacts
  <1>5. k < Len(sent) /\ head = HeadOf(k + 1)
    <2> HIDE DEF head, y
    <2> QED
      BY <1>1, <1>2, <1>3, <1>4, HeadIsNext
  <1>6. head[1].msg = k + 1
    BY <1>5, FrameAssumption DEF HeadOf
  <1>7. msg \in Message /\ msg.len \in Nat /\ msg.type \in {"HB", "DT"}
        /\ msg = [type |-> msg.type, len |-> msg.len]
    BY <1>3, <1>5, MessageFacts
  <1>8. /\ m_RecvBufs' = << >> /\ stream' = o /\ sent' = sent /\ end' = end
        /\ Unwritten' = Unwritten
        /\ m_nRecvDataType' = msg.type /\ m_nNeedRecvDataLen' = msg.len
        /\ m_bIsRecvHead' = (msg.len > 0) /\ delivered' = delivered
        /\ refreshed' = IF msg.type = "HB" /\ msg.len = 0 THEN refreshed + 1 ELSE refreshed
        /\ replied' = IF msg.type = "HB" /\ end = "server" THEN replied + 1 ELSE replied
    <2>1. TakeHead(head)
      BY DEF Assemble, Piece, First, Cat
    <2> HIDE DEF head
    <2> QED
      BY <1>6, <2>1 DEF TakeHead, Read, Others, sends, Unwritten
  <1> QED
    BY <1>1, <1>3, <1>4, <1>5, <1>7, <1>8

\* It is taken, or the whole message is if it has no body.
LEMMA HeadParsed ==
  ASSUME TypeOK, UnitInv, WriteInv, ~mixed, NEW k \in 0 .. Len(sent), ParsedAt(k),
         NEW n \in 0 .. Len(stream), ~m_bIsRecvHead, Read(n), n = Lacks,
         TakeHead(Assemble(Piece(n))), UNCHANGED <<end, sends>>
  PROVE  \E j \in 0 .. Len(sent)' : ParsedAt(j)'
  <1> DEFINE head == Cat(m_RecvBufs, First(stream, n))
             o == Others(stream, n)
             y == Cat(o, Unwritten)
             msg == sent[k + 1]
  <1>1. Wire(k) \in Units /\ head \in Units /\ o \in Units /\ Unwritten \in Units
    BY HeadTaken
  <1>2. sent \in Seq(Message) /\ k \in Nat /\ Len(sent) \in Nat
    BY HeadTaken
  <1>3. Wire(Len(sent)) = Cat(Wire(k), Cat(head, y))
    BY HeadTaken
  <1>4. k < Len(sent) /\ head = HeadOf(k + 1)
    BY HeadTaken
  <1>5. msg \in Message /\ msg.len \in Nat /\ msg.type \in {"HB", "DT"}
        /\ msg = [type |-> msg.type, len |-> msg.len]
    BY HeadTaken
  <1>6. /\ m_RecvBufs' = << >> /\ stream' = o /\ sent' = sent /\ end' = end
        /\ Unwritten' = Unwritten
        /\ m_nRecvDataType' = msg.type /\ m_nNeedRecvDataLen' = msg.len
        /\ m_bIsRecvHead' = (msg.len > 0) /\ delivered' = delivered
        /\ refreshed' = IF msg.type = "HB" /\ msg.len = 0 THEN refreshed + 1 ELSE refreshed
        /\ replied' = IF msg.type = "HB" /\ end = "server" THEN replied + 1 ELSE replied
    BY HeadTaken
  <1>7. /\ Wire(k)' = Wire(k) /\ Wire(k + 1)' = Wire(k + 1) /\ Wire(Len(sent))' = Wire(Len(sent))
        /\ DataBodies(k)' = DataBodies(k) /\ DataBodies(k + 1)' = DataBodies(k + 1)
        /\ Heartbeats(k)' = Heartbeats(k) /\ Heartbeats(k + 1)' = Heartbeats(k + 1)
    <2>1. k + 1 \in Nat
      BY <1>2
    <2> QED
      BY <1>2, <1>6, <2>1, SentKeeps
  <1>8. Heartbeats(k + 1) = IF msg.type = "HB" THEN Heartbeats(k) + 1 ELSE Heartbeats(k)
    BY <1>2, <1>4, HeartbeatsNext
  <1>9. Wire(Len(sent)) = Cat(Cat(Cat(Cat(Wire(k), head), << >>), o), Unwritten)
    <2> HIDE DEF head, o
    <2>1. Cat(Wire(k), head) \in Units
      BY <1>1, CatFacts
    <2>2. Cat(Cat(Wire(k), head), << >>) = Cat(Wire(k), head)
      BY <2>1, CatFacts
    <2>3. Cat(Cat(Wire(k), head), Cat(o, Unwritten)) = Cat(Cat(Cat(Wire(k), head), o), Unwritten)
      BY <1>1, <2>1, CatFacts
    <2>4. Cat(Wire(k), Cat(head, Cat(o, Unwritten))) = Cat(Cat(Wire(k), head), Cat(o, Unwritten))
      BY <1>1, CatFacts
    <2> QED
      BY <1>3, <2>2, <2>3, <2>4
  <1>10. CASE msg.len > 0
    <2>1. TakenHead(k)' = head /\ Begun(k)' = k + 1
      BY <1>4, <1>6, <1>10 DEF TakenHead, HeadOf, Begun
    <2>2. (Cat(Cat(Cat(Cat(Wire(k), TakenHead(k)), m_RecvBufs), stream), Unwritten)
             = Wire(Len(sent)))'
      BY <1>6, <1>7, <1>9, <2>1 DEF Cat
    <2>3. refreshed' = Heartbeats(k) /\ delivered' = DataBodies(k)
      BY <1>6, <1>10 DEF ParsedAt
    <2>4. end = "server" => replied' = Heartbeats(k + 1)
      BY <1>6, <1>8 DEF ParsedAt, Begun
    <2>5. ParsedAt(k)'
      BY <1>2, <1>4, <1>5, <1>6, <1>7, <2>1, <2>2, <2>3, <2>4 DEF ParsedAt
    <2> QED
      BY <1>2, <1>6, <2>5
  <1>11. CASE msg.len = 0
    <2>1. TakenHead(k + 1)' = << >> /\ Begun(k + 1)' = k + 1 /\ ~m_bIsRecvHead'
      <3>1. ~m_bIsRecvHead'
        <4>1. m_bIsRecvHead' = (msg.len > 0) /\ ~(msg.len > 0)
          BY <1>6, <1>11
        <4> QED
          BY <4>1
      <3> QED
        BY <3>1 DEF TakenHead, Begun
    <2>2. Wire(k + 1) = Cat(Wire(k), head)
      <3>1. BodyOf(k + 1, 0) = << >> /\ HeadOf(k + 1) \in Units
        BY <1>2, <1>4, EmptyBody, WholeFacts
      <3>2. Cat(HeadOf(k + 1), << >>) = HeadOf(k + 1)
        BY <3>1, CatFacts
      <3> QED
        BY <1>2, <1>4, <1>11, <3>1, <3>2, WholeFacts
    <2>3. Cat(Wire(k + 1), << >>) = Wire(k + 1)
      BY <1>2, <1>4, WholeFacts, CatFacts
    <2>4. (Cat(Cat(Cat(Cat(Wire(k + 1), TakenHead(k + 1)), m_RecvBufs), stream), Unwritten)
             = Wire(Len(sent)))'
      BY <1>6, <1>7, <1>9, <2>1, <2>2, <2>3 DEF Cat
    <2>5. DataBodies(k + 1) = DataBodies(k)
      <3>1. Bodies(k + 1) = << >> /\ DataBodies(k) \in Seq(Seq(AnyUnit))
        BY <1>2, <1>11, WireType DEF Bodies, IsData
      <3>2. DataBodies(k) \o << >> = DataBodies(k)
        BY <3>1, ConcatEmptySeq
      <3> QED
        BY <1>2, <1>4, <3>1, <3>2, DataBodiesNext
    <2>6. refreshed' = Heartbeats(k + 1) /\ delivered' = DataBodies(k + 1)
      BY <1>6, <1>8, <1>11, <2>5 DEF ParsedAt
    <2>7. end = "server" => replied' = Heartbeats(k + 1)
      BY <1>6, <1>8 DEF ParsedAt, Begun
    <2>8. ParsedAt(k + 1)'
      BY <1>6, <1>7, <2>1, <2>4, <2>6, <2>7 DEF ParsedAt
    <2> QED
      BY <1>2, <1>4, <1>6, <2>8
  <1> QED
    BY <1>5, <1>10, <1>11

\* A body is complete: it is the next message's.
LEMMA BodyTaken ==
  ASSUME TypeOK, UnitInv, WriteInv, LackInv, ~mixed, NEW k \in 0 .. Len(sent), ParsedAt(k),
         NEW n \in 0 .. Len(stream), m_bIsRecvHead, Read(n), n = Lacks,
         TakeBody(Assemble(Piece(n))), UNCHANGED <<end, sends>>
  PROVE  LET body == Cat(m_RecvBufs, First(stream, n))
             o == Others(stream, n)
             h == HeadOf(k + 1)
             msg == sent[k + 1]
         IN  /\ Wire(k) \in Units /\ h \in Units /\ body \in Units /\ o \in Units
             /\ Unwritten \in Units
             /\ Wire(Len(sent)) = Cat(Wire(k), Cat(h, Cat(body, Cat(o, Unwritten))))
             /\ sent \in Seq(Message) /\ k \in Nat /\ k < Len(sent)
             /\ Len(sent) \in Nat /\ msg \in Message
             /\ msg.len > 0 /\ body = BodyOf(k + 1, msg.len)
             /\ m_RecvBufs' = << >> /\ stream' = o /\ sent' = sent /\ end' = end
             /\ Unwritten' = Unwritten /\ m_bIsRecvHead' = FALSE /\ replied' = replied
             /\ \/ msg.type = "HB" /\ refreshed' = refreshed + 1 /\ delivered' = delivered
                \/ /\ msg.type = "DT" /\ refreshed' = refreshed
                   /\ delivered' = Append(delivered, body)
  <1> DEFINE body == Cat(m_RecvBufs, First(stream, n))
             o == Others(stream, n)
             y == Cat(o, Unwritten)
             h == HeadOf(k + 1)
             msg == sent[k + 1]
  <1>1. /\ body \in Units /\ Len(body) = Len(m_RecvBufs) + n /\ y \in Units
        /\ Wire(k) \in Units /\ o \in Units /\ Unwritten \in Units
        /\ TakenHead(k) = h /\ h \in Units
        /\ Wire(Len(sent)) = Cat(Wire(k), Cat(h, Cat(body, y)))
    BY Reading DEF TakenHead
  <1>2. sent \in Seq(Message) /\ k \in Nat /\ Len(sent) \in Nat /\ k < Len(sent)
    BY TypeFacts DEF ParsedAt
  <1>3. msg \in Message /\ msg.len \in Nat
    <2>1. k + 1 \in 1 .. Len(sent)
      BY <1>2
    <2> QED
      BY <1>2, <2>1, MessageFacts
  <1>4. msg.type = m_nRecvDataType /\ msg.len = m_nNeedRecvDataLen /\ msg.len > 0
    BY DEF ParsedAt, LackInv
  <1>5. Len(body) = msg.len
    BY <1>1, <1>3, <1>4, TypeFacts DEF Lacks, Units
  <1>6. body = BodyOf(k + 1, msg.len)
    <2> HIDE DEF body, y
    <2> QED
      BY <1>1, <1>2, <1>5, BodyIsNext
  <1>7. /\ m_RecvBufs' = << >> /\ stream' = o /\ sent' = sent /\ end' = end
        /\ Unwritten' = Unwritten
        /\ m_bIsRecvHead' = FALSE /\ replied' = replied
        /\ \/ msg.type = "HB" /\ refreshed' = refreshed + 1 /\ delivered' = delivered
           \/ msg.type = "DT" /\ delivered' = Append(delivered, body) /\ refreshed' = refreshed
    <2>1. TakeBody(body)
      BY DEF Assemble, Piece, First, Cat
    <2> HIDE DEF body
    <2> QED
      BY <1>4, <2>1 DEF TakeBody, Read, Others, sends, Unwritten
  <1> QED
    BY <1>1, <1>2, <1>3, <1>4, <1>6, <1>7

\* It is taken, and with it the message.
LEMMA BodyParsed ==
  ASSUME TypeOK, UnitInv, WriteInv, LackInv, ~mixed, NEW k \in 0 .. Len(sent), ParsedAt(k),
         NEW n \in 0 .. Len(stream), m_bIsRecvHead, Read(n), n = Lacks,
         TakeBody(Assemble(Piece(n))), UNCHANGED <<end, sends>>
  PROVE  \E j \in 0 .. Len(sent)' : ParsedAt(j)'
  <1> DEFINE body == Cat(m_RecvBufs, First(stream, n))
             o == Others(stream, n)
             y == Cat(o, Unwritten)
             h == HeadOf(k + 1)
             msg == sent[k + 1]
  <1>1. /\ Wire(k) \in Units /\ h \in Units /\ body \in Units /\ o \in Units /\ y \in Units
        /\ Unwritten \in Units /\ Wire(Len(sent)) = Cat(Wire(k), Cat(h, Cat(body, y)))
    BY BodyTaken, CatFacts
  <1>2. sent \in Seq(Message) /\ k \in Nat /\ Len(sent) \in Nat /\ k < Len(sent)
    BY BodyTaken
  <1>3. msg.len > 0
    BY BodyTaken
  <1>4. body = BodyOf(k + 1, msg.len)
    BY BodyTaken
  <1>5. /\ m_RecvBufs' = << >> /\ stream' = o /\ sent' = sent /\ end' = end
        /\ Unwritten' = Unwritten /\ m_bIsRecvHead' = FALSE /\ replied' = replied
        /\ \/ msg.type = "HB" /\ refreshed' = refreshed + 1 /\ delivered' = delivered
           \/ /\ msg.type = "DT" /\ refreshed' = refreshed
              /\ delivered' = Append(delivered, body)
    BY BodyTaken
  <1>6. /\ Wire(k + 1)' = Wire(k + 1) /\ Wire(Len(sent))' = Wire(Len(sent))
        /\ DataBodies(k + 1)' = DataBodies(k + 1) /\ Heartbeats(k + 1)' = Heartbeats(k + 1)
    <2>1. k + 1 \in Nat
      BY <1>2
    <2> QED
      BY <1>5, <2>1, SentKeeps
  <1>7. TakenHead(k + 1)' = << >> /\ Begun(k + 1)' = k + 1
    BY <1>5 DEF TakenHead, Begun
  <1>8. Wire(k + 1) = Cat(Wire(k), Cat(h, body)) /\ Wire(k + 1) \in Units
    BY <1>2, <1>4, WholeFacts
  <1>9. Wire(Len(sent)) = Cat(Cat(Cat(Cat(Wire(k + 1), << >>), << >>), o), Unwritten)
    <2> HIDE DEF body, o, h
    <2>1. Cat(Cat(Wire(k + 1), << >>), << >>) = Wire(k + 1)
      BY <1>8, CatFacts
    <2>2. Cat(h, body) \in Units
      BY <1>1, CatFacts
    <2>3. Cat(h, Cat(body, y)) = Cat(Cat(h, body), y)
      BY <1>1, CatFacts
    <2>4. Cat(Wire(k), Cat(Cat(h, body), y)) = Cat(Wire(k + 1), y)
      BY <1>1, <1>8, <2>2, CatFacts
    <2>5. Cat(Wire(k + 1), Cat(o, Unwritten)) = Cat(Cat(Wire(k + 1), o), Unwritten)
      BY <1>1, <1>8, CatFacts
    <2> QED
      BY <1>1, <2>1, <2>3, <2>4, <2>5
  <1>10. (Cat(Cat(Cat(Cat(Wire(k + 1), TakenHead(k + 1)), m_RecvBufs), stream), Unwritten)
            = Wire(Len(sent)))'
    BY <1>5, <1>6, <1>7, <1>9 DEF Cat
  <1>11. /\ Heartbeats(k + 1) = IF msg.type = "HB" THEN Heartbeats(k) + 1 ELSE Heartbeats(k)
         /\ DataBodies(k + 1) = DataBodies(k) \o Bodies(k + 1)
    BY <1>2, HeartbeatsNext, DataBodiesNext
  <1>12. refreshed' = Heartbeats(k + 1)
    BY <1>5, <1>11 DEF ParsedAt
  <1>13. delivered' = DataBodies(k + 1)
    <2>1. DataBodies(k) \in Seq(Seq(AnyUnit)) /\ delivered = DataBodies(k)
      BY <1>2, WireType DEF ParsedAt
    <2>2. CASE msg.type = "HB"
      <3>1. Bodies(k + 1) = << >>
        BY <2>2 DEF Bodies, IsData
      <3>2. DataBodies(k) \o << >> = DataBodies(k)
        BY <2>1, ConcatEmptySeq
      <3> QED
        BY <1>5, <1>11, <2>1, <2>2, <3>1, <3>2
    <2>3. CASE msg.type = "DT"
      <3>1. Bodies(k + 1) = << body >>
        BY <1>3, <1>4, <2>3 DEF Bodies, IsData
      <3>2. delivered' = Append(DataBodies(k), body)
        BY <1>5, <2>1, <2>3
      <3>3. Append(DataBodies(k), body) = DataBodies(k) \o << body >>
        <4> HIDE DEF body
        <4>1. body \in Seq(AnyUnit)
          BY <1>1 DEF Units
        <4> QED
          BY <2>1, <4>1, AppendIsConcat
      <3> QED
        BY <1>11, <3>1, <3>2, <3>3
    <2> QED
      BY <1>5, <2>2, <2>3
  <1>14. end = "server" => replied' = Heartbeats(k + 1)
    BY <1>5 DEF ParsedAt, Begun
  <1>15. ParsedAt(k + 1)'
    BY <1>5, <1>6, <1>7, <1>10, <1>12, <1>13, <1>14 DEF ParsedAt
  <1> QED
    BY <1>2, <1>5, <1>15

-----------------------------------------------------------------------------
(* What sending does to it. *)

\* More was sent.
LEMMA SentGrows ==
  ASSUME sent \in Seq(Message), NEW msg \in Message, sent' = Append(sent, msg),
         NEW k \in 0 .. Len(sent)
  PROVE  /\ sent' \in Seq(Message) /\ Len(sent') = Len(sent) + 1 /\ Len(sent) \in Nat
         /\ Wire(k)' = Wire(k) /\ DataBodies(k)' = DataBodies(k) /\ Heartbeats(k)' = Heartbeats(k)
         /\ \A i \in 1 .. Len(sent) : sent'[i] = sent[i]
         /\ Wire(Len(sent))'
              = Cat(Wire(Len(sent)), Cat(HeadOf(Len(sent) + 1), BodyOf(Len(sent) + 1, msg.len)))
         /\ HeadOf(Len(sent) + 1) \in Units /\ BodyOf(Len(sent) + 1, msg.len) \in Units
         /\ Wire(Len(sent)) \in Units
  <1>1. /\ sent' \in Seq(Message) /\ Len(sent') = Len(sent) + 1 /\ Len(sent) \in Nat /\ k \in Nat
        /\ sent'[Len(sent) + 1] = msg /\ \A i \in 1 .. Len(sent) : sent'[i] = sent[i]
    BY AppendProperties
  <1>2. \A j \in 0 .. Len(sent) :
          Wire(j)' = Wire(j) /\ DataBodies(j)' = DataBodies(j) /\ Heartbeats(j)' = Heartbeats(j)
    <2> SUFFICES ASSUME NEW j \in 0 .. Len(sent)
                 PROVE  /\ Wire(j)' = Wire(j) /\ DataBodies(j)' = DataBodies(j)
                        /\ Heartbeats(j)' = Heartbeats(j)
      OBVIOUS
    <2>1. j \in Nat /\ \A i \in 1 .. j : sent'[i] = sent[i]
      BY <1>1
    <2> QED
      BY <2>1, WireKeeps
  <1>3. Len(sent) \in 0 .. Len(sent)
    BY <1>1
  <1>4. Wire(Len(sent))' = WireOf(sent', Len(sent) + 1)
    BY <1>1 DEF Wire, WireOf
  <1>5. WireOf(sent', Len(sent) + 1) = WireOf(sent', Len(sent)) \o WholeOf(sent', Len(sent) + 1)
    <2> DEFINE t == sent'
               n == Len(sent)
    <2> HIDE DEF t, n
    <2>1. t \in Seq(Message) /\ n \in Nat /\ n < Len(t)
      BY <1>1 DEF t, n
    <2>2. WireOf(t, n + 1) = WireOf(t, n) \o WholeOf(t, n + 1)
      BY <2>1, WireOfNext
    <2> QED
      BY <2>2 DEF t, n
  <1>6. WireOf(sent', Len(sent)) = Wire(Len(sent))
    <2>1. [i \in 1 .. Len(sent) |-> HeadOf(i) \o BodyOf(i, sent'[i].len)]
            = [i \in 1 .. Len(sent) |-> HeadOf(i) \o BodyOf(i, sent[i].len)]
      BY <1>1
    <2> QED
      BY <2>1 DEF Wire, WireOf
  <1>7. WholeOf(sent', Len(sent) + 1) = Cat(HeadOf(Len(sent) + 1), BodyOf(Len(sent) + 1, msg.len))
    BY <1>1 DEF WholeOf, Cat
  <1>8. HeadOf(Len(sent) + 1) \in Units /\ BodyOf(Len(sent) + 1, msg.len) \in Units
    <2>1. msg.len \in Nat /\ Len(sent) + 1 \in Nat
      BY <1>1, FrameAssumption DEF Message
    <2> QED
      BY <2>1, UnitTypes DEF Units
  <1>9. Wire(Len(sent)) \in Units
    BY <1>1, WireType DEF Units
  <1>10. Wire(Len(sent))'
           = Cat(Wire(Len(sent)), Cat(HeadOf(Len(sent) + 1), BodyOf(Len(sent) + 1, msg.len)))
    BY <1>4, <1>5, <1>6, <1>7 DEF Cat
  <1> QED
    BY <1>1, <1>2, <1>8, <1>9, <1>10

\* What was not read or not written yet ends with x.
Appended(x) ==
  \A y \in Units : Cat(Cat(y, stream'), Unwritten') = Cat(Cat(Cat(y, stream), Unwritten), x)

\* A message more at the end does not move the parser's place.
LEMMA SentParsed ==
  ASSUME TypeOK, UnitInv, NEW msg \in Message, sent' = Append(sent, msg),
         UNCHANGED <<end, parser, told>>, NEW k \in 0 .. Len(sent), ParsedAt(k),
         Appended(Cat(HeadOf(Len(sent) + 1), BodyOf(Len(sent) + 1, msg.len)))
  PROVE  ParsedAt(k)' /\ k \in 0 .. Len(sent')
  <1>1. sent \in Seq(Message) /\ m_RecvBufs \in Units /\ k \in Nat
    BY TypeFacts
  <1>2. /\ Len(sent') = Len(sent) + 1 /\ Len(sent) \in Nat
        /\ Wire(k)' = Wire(k) /\ DataBodies(k)' = DataBodies(k) /\ Heartbeats(k)' = Heartbeats(k)
        /\ \A i \in 1 .. Len(sent) : sent'[i] = sent[i]
        /\ Wire(Len(sent))'
             = Cat(Wire(Len(sent)), Cat(HeadOf(Len(sent) + 1), BodyOf(Len(sent) + 1, msg.len)))
    BY <1>1, SentGrows
  <1>3. Wire(k) \in Units
    BY <1>1, WireType DEF Units
  <1>4. /\ m_RecvBufs' = m_RecvBufs /\ (m_bIsRecvHead' <=> m_bIsRecvHead) /\ end' = end
        /\ m_nRecvDataType' = m_nRecvDataType /\ m_nNeedRecvDataLen' = m_nNeedRecvDataLen
        /\ delivered' = delivered /\ refreshed' = refreshed /\ replied' = replied
    BY DEF parser, told
  <1>5. m_bIsRecvHead => k < Len(sent)
    BY <1>1 DEF ParsedAt
  <1>6. TakenHead(k) \in Units /\ TakenHead(k)' = TakenHead(k) /\ Begun(k)' = Begun(k)
    BY <1>1, <1>4, <1>5, WholeFacts, CatFacts DEF TakenHead, Begun, HeadOf
  <1>7. Heartbeats(Begun(k))' = Heartbeats(Begun(k))
    <2>1. Begun(k) \in Nat /\ Begun(k) <= Len(sent)
      BY <1>1, <1>5 DEF Begun
    <2>2. {i \in 1 .. Begun(k) : sent'[i].type = "HB"} = {i \in 1 .. Begun(k) : sent[i].type = "HB"}
      BY <1>2, <2>1
    <2> QED
      BY <1>6, <2>2 DEF Heartbeats
  <1> DEFINE y == Cat(Cat(Wire(k), TakenHead(k)), m_RecvBufs)
  <1>8. y \in Units
    BY <1>1, <1>3, <1>6, CatFacts
  <1>9. y' = y
    BY <1>2, <1>4, <1>6 DEF Cat
  <1>10. Cat(Cat(y, stream'), Unwritten') = Wire(Len(sent))'
    <2> HIDE DEF y
    <2>1. Cat(Cat(y, stream), Unwritten) = Wire(Len(sent))
      BY DEF ParsedAt, y
    <2> QED
      BY <1>2, <1>8, <2>1 DEF Appended
  <1>11. (Cat(Cat(y, stream), Unwritten) = Wire(Len(sent)))'
    BY <1>9, <1>10 DEF Cat
  <1>12. m_bIsRecvHead => sent'[k + 1] = sent[k + 1]
    BY <1>1, <1>2, <1>5
  <1>13. ParsedAt(k)'
    BY <1>1, <1>2, <1>4, <1>5, <1>7, <1>11, <1>12 DEF ParsedAt
  <1> QED
    BY <1>1, <1>2, <1>13

\* What a thread writes.
LEMMA WriteFacts ==
  ASSUME NEW t \in Sender, NEW units \in Units, stream \in Units, Write(t, units)
  PROVE  \E n \in 1 .. Len(units) :
           /\ stream' = Cat(stream, First(units, n))
           /\ writing' = [writing EXCEPT ![t] = Others(units, n)]
           /\ mixed' = (mixed \/ \E u \in Sender \ {t} : writing[u] # << >>)
  <1> DEFINE a == Room - Len(stream)
             b == Len(units)
             n == Min({a, b})
  <1>1. a \in Int /\ b \in Nat
    BY FrameAssumption DEF Units
  <1> HIDE DEF a, b
  <1>2. n \in {a, b} /\ n <= b
    <2>1. \E x \in {a, b} : \A y \in {a, b} : x <= y
      BY <1>1
    <2> QED
      BY <1>1, <2>1 DEF Min
  <1>3. /\ n > 0 /\ stream' = stream \o SubSeq(units, 1, n)
        /\ writing' = [writing EXCEPT ![t] = SubSeq(units, n + 1, Len(units))]
        /\ mixed' = (mixed \/ \E u \in Sender \ {t} : writing[u] # << >>)
    BY DEF Write, a, b
  <1> HIDE DEF n
  <1>4. n \in 1 .. Len(units)
    BY <1>1, <1>2, <1>3 DEF b
  <1> QED
    BY <1>3, <1>4 DEF Cat, First, Others

\* The thread t had units to write, or begins to, and nobody else has any.
LEMMA WriteMoves ==
  ASSUME NEW t \in Sender, NEW units \in Units, stream \in Units, NEW n \in 1 .. Len(units),
         writing \in [Sender -> Units],
         \A u \in Sender : u # t => writing[u] = << >>,
         stream' = Cat(stream, First(units, n)),
         writing' = [writing EXCEPT ![t] = Others(units, n)],
         NEW y \in Units
  PROVE  Cat(Cat(y, stream'), Unwritten') = Cat(Cat(y, stream), units)
  <1>1. n \in 0 .. Len(units)
    OBVIOUS
  <1>2. Others(units, n) \in Units
    BY <1>1, CutFacts
  <1>3. Unwritten' = Others(units, n)
    <2> DEFINE W == writing'
    <2>1. W \in [Sender -> Seq(AnyUnit)] /\ W[t] = Others(units, n)
          /\ \A u \in Sender : u # t => W[u] = << >>
      BY <1>2 DEF Units
    <2> HIDE DEF W
    <2>2. FlattenSeq(SetToSeq({W[u] : u \in Sender})) = W[t]
      BY <2>1, UnwrittenOne
    <2> QED
      BY <2>1, <2>2 DEF W, Unwritten
  <1>4. Cat(Cat(y, Cat(stream, First(units, n))), Others(units, n)) = Cat(Cat(y, stream), units)
    BY <1>1, UnitsPass
  <1> QED
    BY <1>3, <1>4

-----------------------------------------------------------------------------
(* Types. *)

\* SentUnit, for n messages.
UpTo(n) == [msg : 1 .. n, unit : 1 .. HeadLen + MaxBody]

\* Units of the first n messages are units, and of the first m if n <= m.
LEMMA UpToFacts ==
  ASSUME NEW n \in Nat
  PROVE  /\ n <= MaxSent => Seq(UpTo(n)) \subseteq Seq(Unit)
         /\ \A m \in Nat : n <= m => Seq(UpTo(n)) \subseteq Seq(UpTo(m))
         /\ Seq(UpTo(n)) \subseteq Units
  <1>1. n <= MaxSent => UpTo(n) \subseteq Unit
    BY FrameAssumption DEF UpTo, Unit
  <1>2. \A m \in Nat : n <= m => UpTo(n) \subseteq UpTo(m)
    BY DEF UpTo
  <1>3. UpTo(n) \subseteq AnyUnit
    BY FrameAssumption DEF UpTo, AnyUnit
  <1> QED
    BY <1>1, <1>2, <1>3, SeqMonotonic DEF Units

\* The n-th message has units of the first n.
LEMMA WholeUpTo ==
  ASSUME NEW n \in Nat, n > 0, NEW len \in 0 .. MaxBody
  PROVE  HeadOf(n) \in Seq(UpTo(n)) /\ BodyOf(n, len) \in Seq(UpTo(n))
         /\ HeadOf(n) \o BodyOf(n, len) \in Seq(UpTo(n))
  <1>1. HeadOf(n) \in Seq(UpTo(n))
    BY FrameAssumption DEF HeadOf, UpTo
  <1>2. BodyOf(n, len) \in Seq(UpTo(n))
    BY FrameAssumption DEF BodyOf, UpTo
  <1> QED
    BY <1>1, <1>2, ConcatProperties

\* What is sent: nothing, or one more message.
Grows ==
  \/ sent' = sent
  \/ Len(sent) < MaxSent /\ \E msg \in Message : sent' = Append(sent, msg)

\* Then what was sent before stays.
LEMMA GrowsFacts ==
  ASSUME sent \in Seq(Message), Grows
  PROVE  /\ sent' \in Seq(Message) /\ Len(sent') \in Nat /\ Len(sent) <= Len(sent')
         /\ Len(sent) <= MaxSent => Len(sent') <= MaxSent
         /\ \A i \in 1 .. Len(sent) : sent'[i] = sent[i]
  BY FrameAssumption, AppendProperties DEF Grows

\* The types after a step that sends.
LEMMA SendTyped ==
  ASSUME TypeOK, UnitInv, Grows,
         stream' \in Seq(UpTo(Len(sent'))), writing' \in [Sender -> Seq(UpTo(Len(sent')))],
         mixed' \in BOOLEAN, closed' \in BOOLEAN, UNCHANGED <<end, parser, told, status>>
  PROVE  TypeOK' /\ UnitInv'
  <1>1. /\ sent' \in Seq(Message) /\ Len(sent') \in Nat /\ Len(sent) \in Nat
        /\ Len(sent) <= Len(sent') /\ Len(sent') <= MaxSent
    BY GrowsFacts DEF TypeOK, UnitInv
  <1>2. /\ Seq(UpTo(Len(sent'))) \subseteq Seq(Unit)
        /\ Seq(UpTo(Len(sent))) \subseteq Seq(UpTo(Len(sent')))
    BY <1>1, UpToFacts
  <1>3. m_RecvBufs' \in Seq(UpTo(Len(sent')))
    BY <1>2 DEF UnitInv, SentUnit, UpTo, parser
  <1>4. UnitInv'
    BY <1>1, <1>3 DEF UnitInv, SentUnit, UpTo
  <1>5. TypeOK'
    BY <1>1, <1>2, <1>3 DEF TypeOK, parser, told
  <1> QED
    BY <1>4, <1>5

\* The types after a step that reads.
LEMMA ReadTyped ==
  ASSUME TypeOK, UnitInv, UNCHANGED <<end, sends, closed>>,
         stream' \in Seq(SentUnit), m_RecvBufs' \in Seq(SentUnit), m_bIsRecvHead' \in BOOLEAN,
         m_nNeedRecvDataLen' \in 0 .. MaxBody, m_nRecvDataType' \in MsgType,
         delivered' \in Seq(Seq(Unit)), refreshed' \in Nat, replied' \in Nat,
         status' \in {"reading", "ended"}
  PROVE  TypeOK' /\ UnitInv'
  <1>1. Seq(UpTo(Len(sent))) \subseteq Seq(Unit)
    BY UpToFacts DEF TypeOK, UnitInv
  <1>2. stream' \in Seq(Unit) /\ m_RecvBufs' \in Seq(Unit)
    BY <1>1 DEF UpTo, SentUnit
  <1> QED
    BY <1>2 DEF TypeOK, UnitInv, SentUnit, sends

\* What was delivered stays the bodies of the first k messages.
LEMMA DeliveryKeeps ==
  ASSUME TypeOK, DeliveryInv, Grows, delivered' = delivered
  PROVE  DeliveryInv'
  <1>1. /\ sent' \in Seq(Message) /\ Len(sent') \in Nat /\ Len(sent) \in Nat
        /\ Len(sent) <= Len(sent') /\ \A i \in 1 .. Len(sent) : sent'[i] = sent[i]
    BY GrowsFacts DEF TypeOK
  <1>2. PICK k \in 0 .. Len(sent) : delivered = DataBodies(k)
    BY DEF DeliveryInv
  <1>3. DataBodies(k)' = DataBodies(k)
    <2>1. k \in Nat /\ \A i \in 1 .. k : sent'[i] = sent[i]
      BY <1>1
    <2> QED
      BY <2>1, WireKeeps
  <1>4. k \in 0 .. Len(sent') /\ delivered' = DataBodies(k)'
    BY <1>1, <1>2, <1>3
  <1> QED
    BY <1>4 DEF DeliveryInv

-----------------------------------------------------------------------------
(* Sending. *)

\* What a step of a sender leaves to show.
LEMMA SendStep ==
  ASSUME FrameInv, Grows, ~closed, UNCHANGED <<end, closed, parser, told, status>>,
         TypeOK', UnitInv', WriteInv', mixed => mixed',
         ~mixed' => \A k \in 0 .. Len(sent) : ParsedAt(k) => ParsedAt(k)' /\ k \in 0 .. Len(sent')
  PROVE  FrameInv'
  <1>1. LackInv' /\ EndInv'
    BY DEF FrameInv, LackInv, EndInv, Lacks, parser
  <1>2. DeliveryInv'
    BY DeliveryKeeps DEF FrameInv, told
  <1>3. ParsedExactly'
    <2> SUFFICES ASSUME status' = "reading", ~Overrun', ~mixed'
                 PROVE  (\E k \in 0 .. Len(sent) : ParsedAt(k))'
      BY DEF ParsedExactly, ParsedAt, TakenHead, Begun, Cat
    <2>1. status = "reading" /\ ~Overrun /\ ~mixed
      BY DEF Overrun, Lacks, parser
    <2>2. PICK k \in 0 .. Len(sent) : ParsedAt(k)
      BY <2>1, ParsedExactlyIs DEF FrameInv
    <2>3. ParsedAt(k)' /\ k \in 0 .. Len(sent')
      BY <2>2
    <2> QED
      BY <2>3
  <1> QED
    BY <1>1, <1>2, <1>3 DEF FrameInv

\* The client sends: its message ends the stream.
LEMMA PeerSendStep ==
  ASSUME FrameInv, NEW msg \in Message, PeerSend(msg)
  PROVE  FrameInv'
  <1> DEFINE h == HeadOf(Len(sent) + 1)
             b == BodyOf(Len(sent) + 1, msg.len)
             n == Len(sent')
  <1>1. /\ TypeOK /\ UnitInv /\ WriteInv /\ end = "server" /\ ~mixed
        /\ \A t \in Sender : writing[t] = << >>
    BY DEF FrameInv, WriteInv, PeerSend
  <1>2. /\ sent \in Seq(Message) /\ stream \in Units /\ Len(sent) \in Nat
        /\ writing \in [Sender -> Seq(UpTo(Len(sent)))] /\ stream \in Seq(UpTo(Len(sent)))
    BY <1>1, TypeFacts DEF UnitInv, SentUnit, UpTo
  <1>3. /\ Len(sent) < MaxSent /\ sent' = Append(sent, msg) /\ stream' = (stream \o h) \o b
        /\ writing' = writing /\ mixed' = mixed
        /\ UNCHANGED <<end, closed, parser, told, status>> /\ ~closed
    BY DEF PeerSend
  <1>4. Grows
    BY <1>3 DEF Grows
  <1>5. n = Len(sent) + 1 /\ n \in Nat /\ n > 0 /\ msg.len \in 0 .. MaxBody
    BY <1>2, <1>3, AppendProperties DEF Message
  <1>6. Seq(UpTo(Len(sent))) \subseteq Seq(UpTo(n))
    BY <1>2, <1>5, UpToFacts
  <1>7. stream' \in Seq(UpTo(n))
    <2>1. h \in Seq(UpTo(n)) /\ b \in Seq(UpTo(n))
      BY <1>5, WholeUpTo
    <2> HIDE DEF h, b, n
    <2>2. stream \in Seq(UpTo(n))
      BY <1>2, <1>6
    <2>3. stream \o h \in Seq(UpTo(n))
      BY <2>1, <2>2, ConcatProperties
    <2> QED
      BY <1>3, <2>1, <2>3, ConcatProperties
  <1>8. TypeOK' /\ UnitInv'
    <2>1. writing' \in [Sender -> Seq(UpTo(n))]
      BY <1>2, <1>3, <1>6
    <2>2. mixed' \in BOOLEAN /\ closed' \in BOOLEAN
      BY <1>1, <1>3 DEF TypeOK
    <2>3. UNCHANGED <<end, parser, told, status>>
      BY <1>3
    <2> QED
      BY <1>1, <1>4, <1>7, <2>1, <2>2, <2>3, SendTyped
  <1>9. WriteInv'
    BY <1>1, <1>3 DEF WriteInv
  <1>10. ASSUME NEW k \in 0 .. Len(sent), ParsedAt(k) PROVE ParsedAt(k)' /\ k \in 0 .. Len(sent')
    <2>1. Unwritten = << >> /\ Unwritten' = << >>
      BY <1>1, <1>3, UnwrittenNone DEF Unwritten
    <2>2. h \in Units /\ b \in Units
      BY <1>2, <1>3, SentGrows
    <2>3. ASSUME NEW y \in Units
          PROVE  Cat(Cat(y, stream'), Unwritten') = Cat(Cat(Cat(y, stream), Unwritten), Cat(h, b))
      <3> HIDE DEF h, b
      <3>1. stream' = Cat(Cat(stream, h), b)
        BY <1>3 DEF Cat
      <3>2. Cat(stream, h) \in Units /\ Cat(y, stream) \in Units /\ Cat(h, b) \in Units
        BY <1>2, <2>2, CatFacts
      <3>3. stream' = Cat(stream, Cat(h, b))
        BY <1>2, <2>2, <3>1, CatFacts
      <3>4. Cat(y, Cat(stream, Cat(h, b))) = Cat(Cat(y, stream), Cat(h, b))
        BY <1>2, <3>2, CatFacts
      <3>5. Cat(y, stream') \in Units
        BY <1>2, <3>2, <3>3, CatFacts
      <3>6. /\ Cat(Cat(y, stream'), << >>) = Cat(y, stream')
            /\ Cat(Cat(y, stream), << >>) = Cat(y, stream)
        BY <3>2, <3>5, CatFacts
      <3> QED
        BY <2>1, <3>3, <3>4, <3>6
    <2>4. sent' = Append(sent, msg) /\ UNCHANGED <<end, parser, told>>
      BY <1>3
    <2>5. TypeOK /\ UnitInv
      BY <1>1
    <2>6. Appended(Cat(h, b))
      BY <2>3 DEF Appended
    <2> QED
      BY <1>1, <1>3, <1>10, <2>6, SentParsed
  <1> QED
    BY <1>3, <1>4, <1>8, <1>9, <1>10, SendStep

\* A thread of the server sends, and writes what there is room for.
LEMMA SendDataStep ==
  ASSUME FrameInv, NEW t \in Sender, NEW msg \in Message, SendData(t, msg)
  PROVE  FrameInv'
  <1> DEFINE h == HeadOf(Len(sent) + 1)
             b == BodyOf(Len(sent) + 1, msg.len)
             units == h \o b
             m == Len(sent')
  <1>1. TypeOK /\ UnitInv /\ WriteInv /\ end = "client"
    BY DEF FrameInv, SendData
  <1>2. /\ sent \in Seq(Message) /\ stream \in Units /\ Len(sent) \in Nat
        /\ writing \in [Sender -> Units]
        /\ writing \in [Sender -> Seq(UpTo(Len(sent)))] /\ stream \in Seq(UpTo(Len(sent)))
    BY <1>1, TypeFacts DEF UnitInv, SentUnit, UpTo
  <1>3. /\ Len(sent) < MaxSent /\ sent' = Append(sent, msg) /\ Write(t, units)
        /\ UNCHANGED <<end, closed, parser, told, status>> /\ ~closed /\ writing[t] = << >>
    BY DEF SendData
  <1>4. Grows
    BY <1>3 DEF Grows
  <1>5. m = Len(sent) + 1 /\ m \in Nat /\ m > 0 /\ msg.len \in 0 .. MaxBody
    BY <1>2, <1>3, AppendProperties DEF Message
  <1>6. Seq(UpTo(Len(sent))) \subseteq Seq(UpTo(m)) /\ Seq(UpTo(m)) \subseteq Units
    BY <1>2, <1>5, UpToFacts
  <1>7. units \in Seq(UpTo(m)) /\ units \in Units
    BY <1>5, <1>6, WholeUpTo
  <1>h. h \in Units /\ b \in Units
    BY <1>2, <1>3, SentGrows
  <1>u. units = Cat(h, b)
    BY DEF Cat
  <1> HIDE DEF units, m
  <1>8. PICK n \in 1 .. Len(units) :
          /\ stream' = Cat(stream, First(units, n))
          /\ writing' = [writing EXCEPT ![t] = Others(units, n)]
          /\ mixed' = (mixed \/ \E u \in Sender \ {t} : writing[u] # << >>)
    BY <1>2, <1>3, <1>7, WriteFacts
  <1>9. First(units, n) \in Seq(UpTo(m)) /\ Others(units, n) \in Seq(UpTo(m))
    BY <1>7, CutInTwo DEF First, Others
  <1>10. stream' \in Seq(UpTo(m)) /\ writing' \in [Sender -> Seq(UpTo(m))]
    <2>1. stream \in Seq(UpTo(m))
      BY <1>2, <1>6
    <2>2. stream' \in Seq(UpTo(m))
      BY <1>8, <1>9, <2>1, ConcatProperties DEF Cat
    <2> QED
      BY <1>2, <1>6, <1>8, <1>9, <2>2
  <1>11. mixed' \in BOOLEAN /\ (mixed => mixed')
    BY <1>1, <1>8 DEF TypeOK
  <1>12. TypeOK' /\ UnitInv'
    <2>1. closed' \in BOOLEAN
      BY <1>1, <1>3 DEF TypeOK
    <2> QED
      BY <1>1, <1>3, <1>4, <1>10, <1>11, <2>1, SendTyped DEF m
  <1>13. ~mixed' => ~mixed /\ \A u \in Sender : writing[u] = << >>
    BY <1>3, <1>8
  <1>14. WriteInv'
    <2>1. ~mixed' => \A u \in Sender : u # t => writing'[u] = << >>
      BY <1>2, <1>8, <1>13
    <2>2. end' = "client"
      BY <1>1, <1>3
    <2> QED
      BY <2>1, <2>2 DEF WriteInv
  <1>15. ASSUME ~mixed', NEW k \in 0 .. Len(sent), ParsedAt(k)
         PROVE  ParsedAt(k)' /\ k \in 0 .. Len(sent')
    <2>1. Unwritten = << >>
      BY <1>13, <1>15, UnwrittenNone DEF Unwritten
    <2>2. ASSUME NEW y \in Units
          PROVE  Cat(Cat(y, stream'), Unwritten') = Cat(Cat(Cat(y, stream), Unwritten), Cat(h, b))
      <3>1. Cat(Cat(y, stream'), Unwritten') = Cat(Cat(y, stream), units)
        BY <1>2, <1>7, <1>8, <1>13, <1>15, WriteMoves
      <3>2. Cat(y, stream) \in Units
        BY <1>2, CatFacts
      <3>3. Cat(Cat(y, stream), << >>) = Cat(y, stream)
        BY <3>2, CatFacts
      <3> QED
        BY <1>u, <2>1, <3>1, <3>3
    <2>3. Appended(Cat(h, b))
      BY <2>2 DEF Appended
    <2> QED
      BY <1>1, <1>3, <1>15, <2>3, SentParsed
  <1> QED
    BY <1>3, <1>4, <1>11, <1>12, <1>14, <1>15, SendStep

\* It goes on writing (TcpSession_IOSend).
LEMMA IOSendStep ==
  ASSUME FrameInv, NEW t \in Sender, IOSend(t)
  PROVE  FrameInv'
  <1> DEFINE units == writing[t]
             U == Seq(UpTo(Len(sent)))
  <1>1. TypeOK /\ UnitInv /\ WriteInv
    BY DEF FrameInv
  <1>2. /\ sent \in Seq(Message) /\ stream \in Units /\ Len(sent) \in Nat
        /\ writing \in [Sender -> Units] /\ units \in Units
        /\ writing \in [Sender -> U] /\ stream \in U /\ units \in U
    BY <1>1, TypeFacts DEF UnitInv, SentUnit, UpTo
  <1>3. /\ Write(t, units) /\ units # << >> /\ ~closed
        /\ UNCHANGED <<end, sent, closed, parser, told, status>>
    BY DEF IOSend
  <1>4. Grows
    BY <1>3 DEF Grows
  <1>5. PICK n \in 1 .. Len(units) :
          /\ stream' = Cat(stream, First(units, n))
          /\ writing' = [writing EXCEPT ![t] = Others(units, n)]
          /\ mixed' = (mixed \/ \E u \in Sender \ {t} : writing[u] # << >>)
    <2> HIDE DEF units
    <2> QED
      BY <1>2, <1>3, WriteFacts
  <1>6. First(units, n) \in U /\ Others(units, n) \in U
    <2> HIDE DEF units
    <2> QED
      BY <1>2, CutInTwo DEF First, Others
  <1>7. stream' \in U /\ writing' \in [Sender -> U]
    <2>1. stream' \in U
      BY <1>2, <1>5, <1>6, ConcatProperties DEF Cat
    <2> HIDE DEF U
    <2> QED
      BY <1>2, <1>5, <1>6, <2>1
  <1>8. mixed' \in BOOLEAN /\ (mixed => mixed')
    BY <1>1, <1>5 DEF TypeOK
  <1>9. TypeOK' /\ UnitInv'
    <2>1. closed' \in BOOLEAN
      BY <1>1, <1>3 DEF TypeOK
    <2> QED
      BY <1>1, <1>3, <1>4, <1>7, <1>8, <2>1, SendTyped
  <1>10. ~mixed' => ~mixed /\ \A u \in Sender : u # t => writing[u] = << >>
    BY <1>5
  <1>11. WriteInv'
    <2>1. ~mixed' => \A u \in Sender : u # t => writing'[u] = << >>
      BY <1>2, <1>5, <1>10
    <2>2. end # "server" /\ end' = end
      BY <1>1, <1>3 DEF WriteInv
    <2> QED
      BY <2>1, <2>2 DEF WriteInv
  <1>12. ASSUME ~mixed', NEW k \in 0 .. Len(sent), ParsedAt(k)
         PROVE  ParsedAt(k)' /\ k \in 0 .. Len(sent')
    <2>1. Unwritten = units
      BY <1>2, <1>10, <1>12, UnwrittenOne DEF Unwritten, Units
    <2> DEFINE y == Cat(Cat(Wire(k), TakenHead(k)), m_RecvBufs)
    <2>2. k \in Nat /\ Wire(k) \in Units /\ m_RecvBufs \in Units
      BY <1>1, <1>2, TypeFacts, WireType DEF Units
    <2>3. TakenHead(k) \in Units
      <3>1. m_bIsRecvHead => k < Len(sent)
        BY <1>2, <1>12 DEF ParsedAt
      <3> QED
        BY <1>2, <2>2, <3>1, WholeFacts, CatFacts DEF TakenHead
    <2>4. y \in Units
      BY <2>2, <2>3, CatFacts
    <2>5. Cat(Cat(y, stream'), Unwritten') = Cat(Cat(y, stream), units)
      <3> HIDE DEF y, units
      <3> QED
        BY <1>2, <1>5, <1>10, <1>12, <2>4, WriteMoves
    <2>6. Cat(Cat(y, stream'), Unwritten') = Wire(Len(sent))
      BY <1>12, <2>1, <2>5 DEF ParsedAt
    <2>7. /\ m_RecvBufs' = m_RecvBufs /\ (m_bIsRecvHead' <=> m_bIsRecvHead) /\ end' = end
          /\ m_nRecvDataType' = m_nRecvDataType /\ m_nNeedRecvDataLen' = m_nNeedRecvDataLen
          /\ delivered' = delivered /\ refreshed' = refreshed /\ replied' = replied /\ sent' = sent
      BY <1>3 DEF parser, told
    <2>8. /\ Wire(k)' = Wire(k) /\ Wire(Len(sent))' = Wire(Len(sent))
          /\ DataBodies(k)' = DataBodies(k) /\ Heartbeats(k)' = Heartbeats(k)
          /\ Heartbeats(Begun(k))' = Heartbeats(Begun(k)) /\ TakenHead(k)' = TakenHead(k)
      BY <2>2, <2>7, SentKeeps DEF Heartbeats, Begun, TakenHead, HeadOf
    <2>9. y' = y
      BY <2>7, <2>8 DEF Cat
    <2>10. (Cat(Cat(y, stream), Unwritten) = Wire(Len(sent)))'
      BY <2>6, <2>8, <2>9 DEF Cat
    <2>11. ParsedAt(k)'
      BY <1>12, <2>7, <2>8, <2>10 DEF ParsedAt
    <2> QED
      BY <2>7, <2>11
  <1> QED
    BY <1>3, <1>4, <1>8, <1>9, <1>11, <1>12, SendStep

\* The connection is closed: nothing moves.
LEMMA PeerCloseStep ==
  ASSUME FrameInv, PeerClose
  PROVE  FrameInv'
  <1>1. /\ closed' = TRUE /\ ~closed /\ UNCHANGED <<end, sends, stream, parser, told, status>>
    BY DEF PeerClose
  <1>2. TypeOK' /\ UnitInv' /\ LackInv' /\ WriteInv'
    BY <1>1 DEF FrameInv, TypeOK, UnitInv, SentUnit, LackInv, Lacks, WriteInv, sends, parser, told
  <1>3. EndInv'
    BY <1>1 DEF FrameInv, EndInv
  <1>4. DeliveryInv'
    BY <1>1, DeliveryKeeps DEF FrameInv, Grows, sends, told
  <1>5. ParsedExactly'
    BY <1>1 DEF FrameInv, ParsedExactly, Overrun, Lacks, Wire, DataBodies, IsData, Heartbeats,
      Unwritten, sends, parser, told
  <1> QED
    BY <1>2, <1>3, <1>4, <1>5 DEF FrameInv

\* Bytes without a head are under way: what is read of them is not followed.
LEMMA SendRawStep ==
  ASSUME FrameInv, NEW t \in Sender, SendRaw(t)
  PROVE  FrameInv'
  <1>1. /\ mixed' = TRUE /\ end = "client"
        /\ UNCHANGED <<end, sent, writing, closed, stream, parser, told, status>>
    BY DEF SendRaw
  <1>2. TypeOK' /\ UnitInv' /\ LackInv' /\ WriteInv' /\ EndInv'
    BY <1>1 DEF FrameInv, TypeOK, UnitInv, SentUnit, LackInv, Lacks, WriteInv, EndInv, parser, told
  <1>3. DeliveryInv'
    BY <1>1, DeliveryKeeps DEF FrameInv, Grows, told
  <1>4. ParsedExactly'
    BY <1>1 DEF ParsedExactly
  <1> QED
    BY <1>2, <1>3, <1>4 DEF FrameInv

-----------------------------------------------------------------------------
(* Reading. *)

\* A read of n units leaves the peer alone.
ReadFacts(n) ==
  /\ n \in 1 .. Len(stream) /\ Read(n) /\ UNCHANGED <<end, sends, closed>>

\* The types and lengths of what was read.
LEMMA ReadUnits ==
  ASSUME FrameInv, NEW n, ReadFacts(n)
  PROVE  /\ stream' \in Seq(SentUnit) /\ Assemble(Piece(n)) \in Seq(SentUnit)
         /\ Assemble(Piece(n)) \in Seq(Unit)
         /\ Len(Assemble(Piece(n))) = Len(m_RecvBufs) + n
         /\ n \in 0 .. Len(stream) /\ n \in Nat /\ n > 0 /\ Len(m_RecvBufs) \in Nat
         /\ ~Overrun \/ n > Lacks
  <1>1. n \in 0 .. Len(stream) /\ n \in Nat /\ n > 0
    BY DEF ReadFacts, FrameInv, TypeOK
  <1>2. stream \in Seq(SentUnit) /\ m_RecvBufs \in Seq(SentUnit) /\ Len(m_RecvBufs) \in Nat
    BY DEF FrameInv, UnitInv
  <1>3. /\ Piece(n) \in Seq(SentUnit) /\ Len(Piece(n)) = n
        /\ SubSeq(stream, n + 1, Len(stream)) \in Seq(SentUnit)
    BY <1>1, <1>2, CutInTwo DEF Piece
  <1>4. stream' \in Seq(SentUnit)
    BY <1>3 DEF ReadFacts, Read
  <1>5. Assemble(Piece(n)) \in Seq(SentUnit) /\ Len(Assemble(Piece(n))) = Len(m_RecvBufs) + n
    <2> DEFINE p == Piece(n)
    <2> HIDE DEF p
    <2>1. p \in Seq(SentUnit) /\ Len(p) = n
      BY <1>3 DEF p
    <2>2. m_RecvBufs \o p \in Seq(SentUnit) /\ Len(m_RecvBufs \o p) = Len(m_RecvBufs) + Len(p)
      BY <1>2, <2>1, ConcatProperties
    <2> QED
      BY <2>1, <2>2 DEF p, Assemble
  <1>6. Seq(SentUnit) \subseteq Seq(Unit)
    <2>1. Seq(UpTo(Len(sent))) \subseteq Seq(Unit)
      BY UpToFacts DEF FrameInv, TypeOK, UnitInv
    <2> QED
      BY <2>1 DEF UpTo, SentUnit
  <1>7. ~Overrun \/ n > Lacks
    <2>1. Lacks \in Int
      BY <1>2, FrameAssumption DEF Lacks, FrameInv, TypeOK
    <2> QED
      BY <1>1, <2>1 DEF Overrun
  <1> QED
    BY <1>1, <1>2, <1>4, <1>5, <1>6, <1>7

\* What a step that reads leaves to show.
LEMMA ReadStep ==
  ASSUME FrameInv, NEW n, ReadFacts(n), TypeOK', UnitInv', LackInv',
         end = "client" => status' = "reading", DeliveryInv', ParsedExactly'
  PROVE  FrameInv'
  <1>1. WriteInv'
    BY DEF FrameInv, WriteInv, ReadFacts, sends
  <1>2. EndInv'
    BY DEF EndInv, ReadFacts
  <1> QED
    BY <1>1, <1>2 DEF FrameInv

\* A piece is kept: of a head or a body, or more than the server's body needs.
LEMMA KeepStep ==
  ASSUME FrameInv, NEW n, ReadFacts(n), Keep(Piece(n)), status' = status,
         ~m_bIsRecvHead => n < Lacks, end = "client" => n < Lacks
  PROVE  FrameInv'
  <1>1. TypeOK /\ UnitInv /\ LackInv /\ WriteInv /\ DeliveryInv /\ ParsedExactly
    BY DEF FrameInv
  <1>2. /\ Read(n) /\ status = "reading" /\ UNCHANGED <<end, sends, closed>> /\ sent' = sent
        /\ mixed' = mixed
    BY DEF ReadFacts, Read, sends
  <1>3. /\ m_RecvBufs' = Assemble(Piece(n)) /\ m_bIsRecvHead' = m_bIsRecvHead
        /\ m_nNeedRecvDataLen' = m_nNeedRecvDataLen /\ m_nRecvDataType' = m_nRecvDataType
        /\ delivered' = delivered /\ refreshed' = refreshed /\ replied' = replied
    BY DEF Keep, Assemble, told
  <1>4. /\ stream' \in Seq(SentUnit) /\ m_RecvBufs' \in Seq(SentUnit)
        /\ Len(m_RecvBufs') = Len(m_RecvBufs) + n /\ n \in Nat /\ n > 0
        /\ n \in 0 .. Len(stream) /\ Len(m_RecvBufs) \in Nat
    BY <1>3, ReadUnits
  <1>5. TypeOK' /\ UnitInv'
    <2>1. /\ m_bIsRecvHead' \in BOOLEAN /\ m_nNeedRecvDataLen' \in 0 .. MaxBody
          /\ m_nRecvDataType' \in MsgType /\ delivered' \in Seq(Seq(Unit))
          /\ refreshed' \in Nat /\ replied' \in Nat /\ status' \in {"reading", "ended"}
      BY <1>1, <1>3 DEF TypeOK
    <2> QED
      BY <1>1, <1>2, <1>4, <2>1, ReadTyped
  <1>6. Lacks \in Int /\ Lacks' = Lacks - n
    <2>1. HeadLen \in Nat /\ m_nNeedRecvDataLen \in Nat
      BY <1>1, FrameAssumption DEF TypeOK
    <2> QED
      BY <1>3, <1>4, <2>1 DEF Lacks
  <1>7. LackInv'
    <2>1. ~m_bIsRecvHead' => Len(m_RecvBufs') < HeadLen
      BY <1>3, <1>4, FrameAssumption DEF Lacks
    <2>2. m_bIsRecvHead' => m_nNeedRecvDataLen' > 0
      BY <1>1, <1>3 DEF LackInv
    <2>3. end' = "client" => Lacks' > 0
      BY <1>2, <1>4, <1>6
    <2> QED
      BY <2>1, <2>2, <2>3 DEF LackInv
  <1>8. DeliveryInv'
    BY <1>1, <1>2, <1>3, DeliveryKeeps DEF Grows
  <1>9. ParsedExactly'
    <2> SUFFICES ASSUME ~Overrun', ~mixed' PROVE (\E k \in 0 .. Len(sent) : ParsedAt(k))'
      BY DEF ParsedExactly, ParsedAt, TakenHead, Begun, Cat
    <2>1. ~Overrun /\ ~mixed
      BY <1>2, <1>4, <1>6 DEF Overrun
    <2>2. PICK k \in 0 .. Len(sent) : ParsedAt(k)
      BY <1>1, <1>2, <2>1, ParsedExactlyIs
    <2>3. ParsedAt(k)'
      BY <1>1, <1>2, <1>4, <2>2, KeepParsed
    <2> QED
      BY <1>2, <2>3
  <1> QED
    BY <1>2, <1>5, <1>7, <1>8, <1>9, ReadStep

\* A head is complete.
LEMMA TakeHeadStep ==
  ASSUME FrameInv, NEW n, ReadFacts(n), ~m_bIsRecvHead, n = Lacks,
         TakeHead(Assemble(Piece(n))), status' = status, ~mixed
  PROVE  FrameInv'
  <1> DEFINE head == Assemble(Piece(n))
             msg == sent[head[1].msg]
  <1>1. TypeOK /\ UnitInv /\ LackInv /\ WriteInv /\ DeliveryInv /\ ParsedExactly
    BY DEF FrameInv
  <1>2. /\ Read(n) /\ status = "reading" /\ UNCHANGED <<end, sends, closed>> /\ sent' = sent
        /\ mixed' = mixed
    BY DEF ReadFacts, Read, sends
  <1>3. /\ stream' \in Seq(SentUnit) /\ head \in Seq(SentUnit)
        /\ Len(head) = Len(m_RecvBufs) + n /\ n \in Nat /\ n > 0
        /\ n \in 0 .. Len(stream) /\ Len(m_RecvBufs) \in Nat
    BY ReadUnits
  <1>4. msg \in Message
    <2> HIDE DEF head
    <2>1. Len(head) = HeadLen /\ HeadLen >= 1
      BY <1>3, FrameAssumption DEF Lacks
    <2>2. head[1] \in SentUnit
      BY <1>3, <2>1
    <2>3. head[1].msg \in 1 .. Len(sent)
      BY <2>2 DEF SentUnit
    <2> QED
      BY <1>1, <2>3 DEF TypeOK
  <1>5. msg.len \in 0 .. MaxBody /\ msg.len \in Nat /\ msg.type \in MsgType
    BY <1>4, FrameAssumption DEF Message
  <1>6. /\ m_RecvBufs' = << >> /\ m_nRecvDataType' = msg.type /\ m_nNeedRecvDataLen' = msg.len
        /\ m_bIsRecvHead' = (msg.len > 0) /\ delivered' = delivered
        /\ refreshed' \in {refreshed, refreshed + 1} /\ replied' \in {replied, replied + 1}
    <2> HIDE DEF head
    <2> QED
      BY DEF TakeHead, head
  <1> HIDE DEF msg
  <1>7. TypeOK' /\ UnitInv'
    <2>1. /\ m_bIsRecvHead' \in BOOLEAN /\ m_nNeedRecvDataLen' \in 0 .. MaxBody
          /\ m_nRecvDataType' \in MsgType /\ delivered' \in Seq(Seq(Unit))
          /\ refreshed' \in Nat /\ replied' \in Nat /\ status' \in {"reading", "ended"}
      BY <1>1, <1>5, <1>6 DEF TypeOK
    <2>2. m_RecvBufs' \in Seq(SentUnit)
      BY <1>6
    <2> QED
      BY <1>1, <1>2, <1>3, <2>1, <2>2, ReadTyped
  <1>8. LackInv'
    <2>1. Len(m_RecvBufs') = 0 /\ HeadLen \in Nat /\ HeadLen > 0
      BY <1>6, FrameAssumption
    <2>2. m_bIsRecvHead' => m_nNeedRecvDataLen' > 0
      BY <1>6
    <2>3. Lacks' > 0
      BY <1>5, <1>6, <2>1, <2>2 DEF Lacks
    <2> QED
      BY <2>1, <2>2, <2>3 DEF LackInv
  <1>9. DeliveryInv'
    BY <1>1, <1>2, <1>6, DeliveryKeeps DEF Grows
  <1>10. ParsedExactly'
    <2>1. ~Overrun
      BY <1>3 DEF Overrun
    <2>2. PICK k \in 0 .. Len(sent) : ParsedAt(k)
      BY <1>1, <1>2, <2>1, ParsedExactlyIs
    <2>3. (\E j \in 0 .. Len(sent) : ParsedAt(j))'
      <3>1. \E j \in 0 .. Len(sent)' : ParsedAt(j)'
        BY <1>1, <1>2, <1>3, <2>2, HeadParsed
      <3> QED
        BY <3>1
    <2> QED
      BY <2>3 DEF ParsedExactly, ParsedAt, TakenHead, Begun, Cat
  <1> QED
    BY <1>2, <1>7, <1>8, <1>9, <1>10, ReadStep

\* A body is complete.
LEMMA TakeBodyStep ==
  ASSUME FrameInv, NEW n, ReadFacts(n), m_bIsRecvHead, n = Lacks,
         TakeBody(Assemble(Piece(n))), m_nNeedRecvDataLen' \in {0, m_nNeedRecvDataLen},
         status' = status, ~mixed
  PROVE  FrameInv'
  <1> DEFINE body == Assemble(Piece(n))
  <1>1. TypeOK /\ UnitInv /\ LackInv /\ WriteInv /\ DeliveryInv /\ ParsedExactly
    BY DEF FrameInv
  <1>2. /\ Read(n) /\ status = "reading" /\ UNCHANGED <<end, sends, closed>> /\ sent' = sent
        /\ mixed' = mixed
    BY DEF ReadFacts, Read, sends
  <1>3. /\ stream' \in Seq(SentUnit) /\ body \in Seq(Unit) /\ n \in Nat /\ n > 0
        /\ n \in 0 .. Len(stream)
    BY ReadUnits
  <1>4. /\ m_RecvBufs' = << >> /\ m_bIsRecvHead' = FALSE /\ m_nRecvDataType' = m_nRecvDataType
        /\ replied' = replied /\ refreshed' \in {refreshed, refreshed + 1}
        /\ delivered' \in {delivered, Append(delivered, body)}
    <2> HIDE DEF body
    <2> QED
      BY DEF TakeBody, body
  <1> HIDE DEF body
  <1>5. TypeOK' /\ UnitInv'
    <2>1. delivered' \in Seq(Seq(Unit))
      <3> DEFINE S == Seq(Unit)
      <3>1. body \in S /\ delivered \in Seq(S)
        BY <1>1, <1>3 DEF TypeOK
      <3> HIDE DEF S
      <3>2. Append(delivered, body) \in Seq(S)
        BY <3>1, AppendProperties
      <3>3. delivered' \in Seq(S)
        BY <1>4, <3>1, <3>2
      <3> QED
        BY <3>3 DEF S
    <2>2. /\ m_bIsRecvHead' \in BOOLEAN /\ m_nNeedRecvDataLen' \in 0 .. MaxBody
          /\ m_nRecvDataType' \in MsgType
          /\ refreshed' \in Nat /\ replied' \in Nat /\ status' \in {"reading", "ended"}
      <3>1. m_nNeedRecvDataLen' \in 0 .. MaxBody
        BY <1>1, FrameAssumption DEF TypeOK
      <3>2. refreshed' \in Nat
        BY <1>1, <1>4 DEF TypeOK
      <3> QED
        BY <1>1, <1>4, <3>1, <3>2 DEF TypeOK
    <2>3. m_RecvBufs' \in Seq(SentUnit)
      BY <1>4
    <2> QED
      BY <1>1, <1>2, <1>3, <2>1, <2>2, <2>3, ReadTyped
  <1>6. LackInv'
    <2>1. Len(m_RecvBufs') = 0 /\ HeadLen \in Nat /\ HeadLen > 0
      BY <1>4, FrameAssumption
    <2> QED
      BY <1>4, <2>1 DEF Lacks, LackInv
  <1>7. PICK j \in 0 .. Len(sent)' : ParsedAt(j)'
    <2>1. ~Overrun
      BY <1>3 DEF Overrun
    <2>2. PICK k \in 0 .. Len(sent) : ParsedAt(k)
      BY <1>1, <1>2, <2>1, ParsedExactlyIs
    <2> QED
      BY <1>1, <1>2, <1>3, <2>2, BodyParsed
  <1>8. DeliveryInv'
    BY <1>7 DEF ParsedAt, DeliveryInv
  <1>9. ParsedExactly'
    <2>1. (\E k \in 0 .. Len(sent) : ParsedAt(k))'
      BY <1>7
    <2> QED
      BY <2>1 DEF ParsedExactly, ParsedAt, TakenHead, Begun, Cat
  <1> QED
    BY <1>2, <1>5, <1>6, <1>8, <1>9, ReadStep

\* The server returns -1.
LEMMA RefusedStep ==
  ASSUME FrameInv, NEW n, ReadFacts(n), end = "server", status' = "ended",
         UNCHANGED <<parser, told>>
  PROVE  FrameInv'
  <1>1. TypeOK /\ UnitInv /\ LackInv /\ DeliveryInv
    BY DEF FrameInv
  <1>2. TypeOK' /\ UnitInv'
    <2>1. stream' \in Seq(SentUnit)
      BY ReadUnits
    <2>2. m_RecvBufs' \in Seq(SentUnit) /\ m_bIsRecvHead' \in BOOLEAN
          /\ m_nNeedRecvDataLen' \in 0 .. MaxBody /\ m_nRecvDataType' \in MsgType
          /\ delivered' \in Seq(Seq(Unit)) /\ refreshed' \in Nat /\ replied' \in Nat
      BY <1>1 DEF TypeOK, UnitInv, parser, told
    <2> QED
      BY <1>1, <2>1, <2>2, ReadTyped DEF ReadFacts
  <1>3. LackInv'
    BY <1>1 DEF LackInv, Lacks, parser, ReadFacts
  <1>4. DeliveryInv'
    BY <1>1, DeliveryKeeps DEF Grows, ReadFacts, sends, told
  <1>5. ParsedExactly'
    BY DEF ParsedExactly
  <1> QED
    BY <1>2, <1>3, <1>4, <1>5, ReadStep

\* There is nothing more to read.
LEMMA RecvNothingStep ==
  ASSUME FrameInv, RecvNothing
  PROVE  FrameInv'
  <1>1. /\ status' = "ended" /\ closed /\ stream = << >>
        /\ UNCHANGED <<end, sends, closed, stream, parser, told>>
    BY DEF RecvNothing
  <1>2. TypeOK' /\ UnitInv' /\ LackInv' /\ WriteInv'
    BY <1>1 DEF FrameInv, TypeOK, UnitInv, SentUnit, LackInv, Lacks, WriteInv, sends, parser, told
  <1>3. EndInv' /\ ParsedExactly'
    BY <1>1 DEF EndInv, ParsedExactly
  <1>4. DeliveryInv'
    BY <1>1, DeliveryKeeps DEF FrameInv, Grows, sends, told
  <1> QED
    BY <1>2, <1>3, <1>4 DEF FrameInv

\* TcpSession_IORecv preserves the invariant.
LEMMA ServerStep ==
  ASSUME FrameInv, ServerRecv
  PROVE  FrameInv'
  <1>1. end = "server" /\ ~mixed
    BY DEF ServerRecv, FrameInv, WriteInv
  <1>2. ASSUME NEW n \in 1 .. MaxRead,
               \/ ServerRecvHead(n) \/ ServerRefusesHead(n)
               \/ ServerRecvBody(n) \/ ServerRefusesBody(n)
        PROVE  FrameInv'
    <2>1. ReadFacts(n)
      <3>1. Read(n) /\ UNCHANGED <<end, sends, closed>>
        BY <1>2 DEF ServerRecvHead, ServerRefusesHead, ServerRecvBody, ServerRefusesBody
      <3>2. n \in 1 .. Len(stream)
        BY <3>1 DEF Read, FrameInv, TypeOK
      <3> QED
        BY <3>1, <3>2 DEF ReadFacts
    <2>2. CASE ServerRecvHead(n)
      BY <1>1, <2>1, <2>2, TakeHeadStep, KeepStep DEF ServerRecvHead
    <2>3. CASE ServerRefusesHead(n)
      BY <1>1, <2>1, <2>3, RefusedStep DEF ServerRefusesHead
    <2>4. CASE ServerRecvBody(n)
      BY <1>1, <2>1, <2>4, TakeBodyStep, KeepStep DEF ServerRecvBody
    <2>5. CASE ServerRefusesBody(n)
      BY <1>1, <2>1, <2>5, RefusedStep DEF ServerRefusesBody
    <2> QED
      BY <1>2, <2>2, <2>3, <2>4, <2>5
  <1>3. CASE RecvNothing
    BY <1>3, RecvNothingStep
  <1> QED
    BY <1>2, <1>3 DEF ServerRecv

\* So does TcpClient_Recvfrom.
LEMMA ClientStep ==
  ASSUME FrameInv, ClientRecv
  PROVE  FrameInv'
  <1>1. end = "client" /\ ~mixed
    BY DEF ClientRecv
  <1>2. ASSUME NEW n \in 1 .. Lacks, ClientRecvHead(n) \/ ClientRecvBody(n)
        PROVE  FrameInv'
    <2>1. ReadFacts(n)
      <3>1. Read(n) /\ UNCHANGED <<end, sends, closed>>
        BY <1>2 DEF ClientRecvHead, ClientRecvBody
      <3>2. Lacks \in Int
        BY FrameAssumption DEF Lacks, FrameInv, TypeOK
      <3>3. n \in 1 .. Len(stream)
        BY <3>1, <3>2 DEF Read, FrameInv, TypeOK
      <3> QED
        BY <3>1, <3>3 DEF ReadFacts
    <2>2. CASE ClientRecvHead(n)
      BY <1>1, <2>1, <2>2, TakeHeadStep, KeepStep DEF ClientRecvHead
    <2>3. CASE ClientRecvBody(n)
      BY <1>1, <2>1, <2>3, TakeBodyStep, KeepStep DEF ClientRecvBody
    <2> QED
      BY <1>2, <2>2, <2>3
  <1>3. CASE RecvNothing
    BY <1>3, RecvNothingStep
  <1> QED
    BY <1>2, <1>3 DEF ClientRecv

-----------------------------------------------------------------------------
(* The invariant. *)

\* FrameInv holds when the connection begins.
LEMMA InitStep == Init => FrameInv
  <1> SUFFICES ASSUME Init PROVE FrameInv
    OBVIOUS
  <1>1. /\ sent = << >> /\ stream = << >> /\ m_RecvBufs = << >> /\ ~m_bIsRecvHead /\ ~mixed
        /\ \A t \in Sender : writing[t] = << >>
        /\ delivered = << >> /\ refreshed = 0 /\ replied = 0 /\ status = "reading"
    BY DEF Init
  <1>2. TypeOK /\ UnitInv
    <2>1. << >> \in Seq(Message) /\ << >> \in Seq(Unit) /\ << >> \in Seq(SentUnit)
          /\ << >> \in Seq(Seq(Unit))
      OBVIOUS
    <2>2. writing \in [Sender -> Seq(Unit)] /\ writing \in [Sender -> Seq(SentUnit)]
      BY <2>1 DEF Init
    <2>3. TypeOK
      <3>1. /\ sent \in Seq(Message) /\ stream \in Seq(Unit) /\ m_RecvBufs \in Seq(Unit)
            /\ delivered \in Seq(Seq(Unit))
        BY <1>1, <2>1
      <3>2. closed \in BOOLEAN /\ mixed \in BOOLEAN /\ m_bIsRecvHead \in BOOLEAN
        BY DEF Init
      <3>3. m_nNeedRecvDataLen \in 0 .. MaxBody /\ refreshed \in Nat /\ replied \in Nat
        BY FrameAssumption DEF Init
      <3>4. /\ end \in {"server", "client"} /\ status \in {"reading", "ended"}
            /\ m_nRecvDataType \in MsgType
        BY DEF Init, MsgType
      <3> QED
        BY <2>2, <3>1, <3>2, <3>3, <3>4 DEF TypeOK
    <2>4. Len(sent) <= MaxSent
      BY <1>1, FrameAssumption
    <2> QED
      BY <1>1, <2>1, <2>2, <2>3, <2>4 DEF UnitInv
  <1>3. LackInv /\ WriteInv /\ EndInv
    BY <1>1, FrameAssumption DEF LackInv, Lacks, WriteInv, EndInv
  <1>4. Unwritten = << >>
    BY <1>1, UnwrittenNone DEF Unwritten
  <1>5. Len(sent) = 0 /\ 0 \in 0 .. Len(sent)
    BY <1>1
  <1>6. ParsedAt(0)
    <2>1. TakenHead(0) = << >> /\ Begun(0) = 0
      BY <1>1 DEF TakenHead, Begun
    <2>2. Wire(0) = << >> /\ Wire(Len(sent)) = << >> /\ DataBodies(0) = << >> /\ Heartbeats(0) = 0
      BY <1>5, WireZero
    <2>3. << >> \in Units /\ Cat(<< >>, << >>) = << >>
      BY CatFacts
    <2> QED
      BY <1>1, <1>4, <2>1, <2>2, <2>3 DEF ParsedAt
  <1>7. DeliveryInv
    BY <1>5, <1>6 DEF ParsedAt, DeliveryInv
  <1>8. ParsedExactly
    BY <1>5, <1>6, ParsedExactlyIs
  <1> QED
    BY <1>2, <1>3, <1>7, <1>8 DEF FrameInv

\* It holds as long as nothing happens.
LEMMA StutterStep ==
  ASSUME FrameInv, UNCHANGED vars
  PROVE  FrameInv'
  <1>1. TypeOK' /\ UnitInv' /\ LackInv' /\ WriteInv' /\ EndInv'
    BY DEF vars, FrameInv, TypeOK, UnitInv, SentUnit, LackInv, Lacks, WriteInv, EndInv,
      sends, parser, told
  <1>2. DeliveryInv'
    BY DeliveryKeeps DEF vars, FrameInv, Grows, sends, told
  <1>3. ParsedExactly'
    BY DEF vars, FrameInv, ParsedExactly, Overrun, Lacks, Wire, DataBodies, IsData, Heartbeats,
      Unwritten, sends, parser, told
  <1> QED
    BY <1>1, <1>2, <1>3 DEF FrameInv

\* Every step preserves it.
LEMMA InvStep == FrameInv /\ [Next]_vars => FrameInv'
  <1> SUFFICES ASSUME FrameInv, [Next]_vars PROVE FrameInv'
    OBVIOUS
  <1>1. ASSUME NEW msg \in Message, PeerSend(msg) PROVE FrameInv'
    BY <1>1, PeerSendStep
  <1>2. ASSUME NEW msg \in Message, NEW t \in Sender, SendData(t, msg) PROVE FrameInv'
    BY <1>2, SendDataStep
  <1>3. ASSUME NEW t \in Sender, IOSend(t) PROVE FrameInv'
    BY <1>3, IOSendStep
  <1>4. CASE PeerClose
    BY <1>4, PeerCloseStep
  <1>5. CASE ServerRecv
    BY <1>5, ServerStep
  <1>6. CASE ClientRecv
    BY <1>6, ClientStep
  <1>7. CASE UNCHANGED vars
    BY <1>7, StutterStep
  <1>8. ASSUME NEW t \in Sender, SendRaw(t) PROVE FrameInv'
    BY <1>8, SendRawStep
  <1> QED
    BY <1>1, <1>2, <1>3, <1>4, <1>5, <1>6, <1>7, <1>8 DEF Next

\* The inductive invariant: what the parser has taken, keeps and delivered, and
\* what is under way, are always exactly the messages sent, in order, until
\* messages are mixed, bytes are sent without a head, or the server keeps too much.
THEOREM Invariance == Spec => []FrameInv
  <1>1. Init => FrameInv
    BY InitStep
  <1>2. FrameInv /\ [Next]_vars => FrameInv'
    BY InvStep
  <1> QED
    BY <1>1, <1>2, PTL DEF Spec

\* Every variable keeps its type.
THEOREM TypeCorrect == Spec => []TypeOK
  <1>1. FrameInv => TypeOK
    BY DEF FrameInv
  <1> QED
    BY <1>1, Invariance, PTL

\* Whatever the messages, the buffers and the pieces: an end that reads has
\* delivered, counted and answered exactly the first k messages.
THEOREM ParsedAlways == Spec => []ParsedExactly
  <1>1. FrameInv => ParsedExactly
    BY DEF FrameInv
  <1> QED
    BY <1>1, Invariance, PTL

\* The application never gets a body cut, out of order or twice, not even on a
\* connection that is refused, keeps too much or is closed.
THEOREM DeliveredInOrder == Spec => []DeliveredIsPrefix
  <1>1. ASSUME FrameInv PROVE DeliveredIsPrefix
    <2>1. sent \in Seq(Message) /\ Len(sent) \in Nat /\ DeliveryInv
      BY <1>1, TypeFacts DEF FrameInv
    <2>2. PICK k \in 0 .. Len(sent) : delivered = DataBodies(k)
      BY <2>1 DEF DeliveryInv
    <2>3. PICK b \in Seq(Seq(AnyUnit)) : DataBodies(Len(sent)) = DataBodies(k) \o b
      <3>1. k \in Nat /\ k <= Len(sent) /\ Len(sent) <= Len(sent)
        BY <2>1
      <3> QED
        BY <2>1, <3>1, WireRest
    <2>4. DataBodies(k) \in Seq(Seq(AnyUnit))
      BY <2>1, WireType
    <2> DEFINE S == Seq(AnyUnit)
               d == DataBodies(k)
    <2> HIDE DEF S, d
    <2>5. d \in Seq(S) /\ b \in Seq(S)
      BY <2>3, <2>4 DEF S, d
    <2>6. IsPrefix(d, d \o b)
      BY <2>5, PrefixOfConcat
    <2> QED
      BY <2>2, <2>3, <2>6 DEF d, DeliveredIsPrefix
  <1> QED
    BY <1>1, Invariance, PTL

\* The client never keeps more than a message needs, and leaves its loop only
\* when all there was to read has been read.
THEOREM ClientKeepsAll == Spec => []ClientLosesNothing
  <1>1. ASSUME FrameInv PROVE ClientLosesNothing
    <2>1. end = "client" => ~Overrun
      <3>1. Lacks \in Int
        BY <1>1, FrameAssumption DEF Lacks, FrameInv, TypeOK
      <3> QED
        BY <1>1, <3>1 DEF FrameInv, LackInv, Overrun
    <2> QED
      BY <1>1, <2>1 DEF FrameInv, EndInv, ClientLosesNothing
  <1> QED
    BY <1>1, Invariance, PTL

\* A server that has kept too much never delivers, counts or answers again.
THEOREM OverrunFinal == Spec => OverrunIsFinal
  <1>1. ASSUME FrameInv, [Next]_vars, Overrun PROVE Overrun' /\ UNCHANGED told
    <2>1. /\ Lacks \in Int /\ Lacks < 0 /\ m_bIsRecvHead /\ end = "server"
          /\ Len(m_RecvBufs) \in Nat /\ m_nNeedRecvDataLen \in Nat
      BY <1>1, FrameAssumption DEF FrameInv, TypeOK, LackInv, Overrun, Lacks
    <2>2. CASE UNCHANGED <<parser, told>>
      BY <1>1, <2>2 DEF Overrun, Lacks, parser
    <2>3. ASSUME NEW n \in 1 .. MaxRead, ServerRecvBody(n) PROVE Overrun' /\ UNCHANGED told
      <3>1. n \in Nat /\ n > 0 /\ n # Lacks
        BY <2>1
      <3>2. Keep(Piece(n)) /\ Read(n) /\ UNCHANGED <<end, sends, closed>>
        BY <2>3, <3>1 DEF ServerRecvBody
      <3>3. ReadFacts(n)
        BY <1>1, <3>1, <3>2 DEF ReadFacts, Read, FrameInv, TypeOK
      <3>4. /\ Len(m_RecvBufs') = Len(m_RecvBufs) + n /\ m_bIsRecvHead' = m_bIsRecvHead
            /\ m_nNeedRecvDataLen' = m_nNeedRecvDataLen /\ UNCHANGED told
        BY <1>1, <3>2, <3>3, ReadUnits DEF Keep, Assemble
      <3> QED
        BY <2>1, <3>1, <3>4 DEF Overrun, Lacks
    <2>4. CASE ServerRecv
      BY <2>1, <2>2, <2>3, <2>4 DEF ServerRecv, ServerRecvHead, ServerRefusesHead,
        ServerRefusesBody, RecvNothing
    <2>5. CASE UNCHANGED vars
      BY <2>2, <2>5 DEF vars
    <2> QED
      BY <1>1, <2>1, <2>2, <2>4, <2>5 DEF Next, PeerSend, SendData, IOSend, SendRaw, PeerClose,
        ClientRecv
  <1>2. FrameInv /\ [Next]_vars => [Overrun => Overrun' /\ UNCHANGED told]_vars
    BY <1>1
  <1> QED
    BY <1>2, Invariance, PTL DEF Spec, OverrunIsFinal
=============================================================================

------------------------ MODULE FrameRecvEvents_proofs ------------------------
(***************************************************************************)
(* Proof that FrameRecv implements MessageEvents.  What was sent is a        *)
(* sequence of messages, of which FrameInv says that the parser has taken    *)
(* the first k; so what a step hands to the application, counts or answers   *)
(* is message k + 1, and what MessageEvents asks of that event follows from  *)
(* how one more message changes the bodies and the heartbeats of the first   *)
(* k.                                                                        *)
(***************************************************************************)
EXTENDS FrameRecv_proofs

-----------------------------------------------------------------------------
(* What the events of the first k messages are. *)

\* The heartbeats among the first k messages of s, the bodies of its data
\* messages, and the number of heartbeats before each of these.
BeatsOf(s, k) == Cardinality({i \in 1 .. k : s[i].type = "HB"})
DataIn(s) == {i \in 1 .. Len(s) : s[i].type = "DT" /\ s[i].len > 0}
DataOf(s, k) == Chosen([i \in 1 .. Len(s) |-> BodyOf(i, s[i].len)], DataIn(s), k)
AfterOf(s, k) == Chosen([i \in 1 .. Len(s) |-> BeatsOf(s, i)], DataIn(s), k)

Body == Seq(AnyUnit)

\* What one more message adds to them.
LEMMA EventsNext ==
  ASSUME NEW s \in Seq(Message), NEW k \in Nat, k < Len(s)
  PROVE  /\ s[k + 1].type = "HB" =>
              BeatsOf(s, k + 1) = BeatsOf(s, k) + 1 /\ k + 1 \notin DataIn(s)
         /\ s[k + 1].type # "HB" => BeatsOf(s, k + 1) = BeatsOf(s, k)
         /\ k + 1 \in DataIn(s) =>
              /\ DataOf(s, k + 1) = Append(DataOf(s, k), BodyOf(k + 1, s[k + 1].len))
              /\ AfterOf(s, k + 1) = Append(AfterOf(s, k), BeatsOf(s, k + 1))
              /\ BodyOf(k + 1, s[k + 1].len) \in Body
         /\ k + 1 \notin DataIn(s) =>
              DataOf(s, k + 1) = DataOf(s, k) /\ AfterOf(s, k + 1) = AfterOf(s, k)
  <1>1. Len(s) \in Nat /\ k + 1 \in 1 .. Len(s)
    OBVIOUS
  <1>2. \A i \in 1 .. Len(s) : BodyOf(i, s[i].len) \in Body /\ BeatsOf(s, i) \in Nat
    <2> SUFFICES ASSUME NEW i \in 1 .. Len(s)
                 PROVE  BodyOf(i, s[i].len) \in Body /\ BeatsOf(s, i) \in Nat
      OBVIOUS
    <2>1. i \in Nat /\ s[i] \in Message
      OBVIOUS
    <2>2. BodyOf(i, s[i].len) \in Body
      <3>1. s[i].len \in Nat
        BY <2>1, FrameAssumption DEF Message
      <3> QED
        BY <2>1, <3>1, UnitTypes DEF Body
    <2>3. BeatsOf(s, i) \in Nat
      <3>1. IsFiniteSet(1 .. i) /\ {j \in 1 .. i : s[j].type = "HB"} \in SUBSET (1 .. i)
        BY <2>1, FS_Interval
      <3>2. IsFiniteSet({j \in 1 .. i : s[j].type = "HB"})
        BY <3>1, FS_Subset
      <3> QED
        BY <3>2, FS_CardinalityType DEF BeatsOf
    <2> QED
      BY <2>2, <2>3
  <1> DEFINE v == [i \in 1 .. Len(s) |-> BodyOf(i, s[i].len)]
             a == [i \in 1 .. Len(s) |-> BeatsOf(s, i)]
  <1>3. v \in [1 .. Len(s) -> Body] /\ a \in [1 .. Len(s) -> Nat]
        /\ v[k + 1] = BodyOf(k + 1, s[k + 1].len) /\ a[k + 1] = BeatsOf(s, k + 1)
    BY <1>1, <1>2
  <1>4. BeatsOf(s, k + 1) = IF s[k + 1].type = "HB" THEN BeatsOf(s, k) + 1 ELSE BeatsOf(s, k)
    <2> DEFINE A == {i \in 1 .. k : s[i].type = "HB"}
               B == {i \in 1 .. (k + 1) : s[i].type = "HB"}
    <2>1. IsFiniteSet(A) /\ k + 1 \notin A
      <3>1. IsFiniteSet(1 .. k) /\ A \in SUBSET (1 .. k)
        BY FS_Interval
      <3> QED
        BY <3>1, FS_Subset
    <2>2. CASE s[k + 1].type = "HB"
      <3>1. B = A \cup {k + 1}
        BY <2>2
      <3> HIDE DEF A, B
      <3>2. Cardinality(B) = Cardinality(A) + 1
        BY <2>1, <3>1, FS_AddElement
      <3> QED
        BY <2>2, <3>2 DEF BeatsOf, A, B
    <2>3. CASE s[k + 1].type # "HB"
      <3>1. B = A
        BY <2>3
      <3> QED
        BY <2>3, <3>1 DEF BeatsOf
    <2> QED
      BY <2>2, <2>3
  <1> HIDE DEF v, a
  <1>5. /\ k + 1 \in DataIn(s) =>
             /\ Chosen(v, DataIn(s), k + 1) = Append(Chosen(v, DataIn(s), k), v[k + 1])
             /\ Chosen(a, DataIn(s), k + 1) = Append(Chosen(a, DataIn(s), k), a[k + 1])
        /\ k + 1 \notin DataIn(s) =>
             /\ Chosen(v, DataIn(s), k + 1) = Chosen(v, DataIn(s), k)
             /\ Chosen(a, DataIn(s), k + 1) = Chosen(a, DataIn(s), k)
    <2> DEFINE n == Len(s)
               C == DataIn(s)
    <2>1. k < n /\ Indexed(v, n, Body) /\ Indexed(a, n, Nat)
      BY <1>1, <1>3 DEF Indexed
    <2> HIDE DEF n, C
    <2>2. /\ k + 1 \in C => Chosen(v, C, k + 1) = Append(Chosen(v, C, k), v[k + 1])
          /\ k + 1 \notin C => Chosen(v, C, k + 1) = Chosen(v, C, k)
      BY <2>1, ChosenNext
    <2>3. /\ k + 1 \in C => Chosen(a, C, k + 1) = Append(Chosen(a, C, k), a[k + 1])
          /\ k + 1 \notin C => Chosen(a, C, k + 1) = Chosen(a, C, k)
      BY <2>1, ChosenNext
    <2> QED
      BY <2>2, <2>3 DEF C
  <1>6. DataOf(s, k) = Chosen(v, DataIn(s), k) /\ DataOf(s, k + 1) = Chosen(v, DataIn(s), k + 1)
        /\ AfterOf(s, k) = Chosen(a, DataIn(s), k)
        /\ AfterOf(s, k + 1) = Chosen(a, DataIn(s), k + 1)
    BY DEF DataOf, AfterOf, v, a
  <1>7. s[k + 1].type = "HB" => k + 1 \notin DataIn(s)
    BY DEF DataIn
  <1> QED
    BY <1>1, <1>2, <1>3, <1>4, <1>5, <1>6, <1>7

\* Nothing has no events.
LEMMA EventsZero ==
  ASSUME NEW s
  PROVE  BeatsOf(s, 0) = 0 /\ DataOf(s, 0) = << >> /\ AfterOf(s, 0) = << >>
  <1>1. \A v, C : Chosen(v, C, 0) = << >>
    <2> SUFFICES ASSUME NEW v, NEW C PROVE Chosen(v, C, 0) = << >>
      OBVIOUS
    <2>1. [i \in 1 .. 0 |-> IF i \in C THEN << v[i] >> ELSE << >>] = << >>
      OBVIOUS
    <2> QED
      BY <2>1, FlattenEmpty DEF Chosen
  <1>2. {i \in 1 .. 0 : s[i].type = "HB"} = {}
    OBVIOUS
  <1> QED
    BY <1>1, <1>2, FS_EmptySet DEF BeatsOf, DataOf, AfterOf

\* The types of the events, and how many there are.
Counted(s, k) ==
  /\ BeatsOf(s, k) \in Nat /\ DataOf(s, k) \in Seq(Body) /\ AfterOf(s, k) \in Seq(Nat)
  /\ Len(AfterOf(s, k)) = Len(DataOf(s, k))

\* They are so for every k that was sent.
LEMMA EventsCounted ==
  ASSUME NEW s \in Seq(Message), NEW k \in Nat, k <= Len(s)
  PROVE  Counted(s, k)
  <1> DEFINE T == {m \in Nat : m <= Len(s) => Counted(s, m)}
  <1>1. 0 \in T
    <2>1. << >> \in Seq(Body) /\ << >> \in Seq(Nat)
      OBVIOUS
    <2>2. /\ BeatsOf(s, 0) \in Nat /\ DataOf(s, 0) \in Seq(Body) /\ AfterOf(s, 0) \in Seq(Nat)
          /\ Len(AfterOf(s, 0)) = Len(DataOf(s, 0))
      <3>1. BeatsOf(s, 0) = 0 /\ DataOf(s, 0) = << >> /\ AfterOf(s, 0) = << >>
        BY EventsZero
      <3>2. 0 \in Nat
        OBVIOUS
      <3> QED
        BY <2>1, <3>1, <3>2, Zenon
    <2>3. Counted(s, 0)
      BY <2>2 DEF Counted
    <2> QED
      BY <2>3
  <1>2. ASSUME NEW m \in T PROVE m + 1 \in T
    <2>1. m \in Nat /\ m + 1 \in Nat /\ Len(s) \in Nat
      OBVIOUS
    <2> SUFFICES ASSUME m + 1 <= Len(s) PROVE Counted(s, m + 1)
      BY <2>1
    <2>2. m < Len(s) /\ Counted(s, m)
      BY <2>1
    <2> DEFINE D == DataOf(s, m)
               A == AfterOf(s, m)
               b == BodyOf(m + 1, s[m + 1].len)
    <2> HIDE DEF D, A, b
    <2>3. D \in Seq(Body) /\ A \in Seq(Nat) /\ Len(A) = Len(D) /\ BeatsOf(s, m) \in Nat
      BY <2>2 DEF Counted, D, A
    <2>4. BeatsOf(s, m + 1) \in Nat
      BY <2>1, <2>2, <2>3, EventsNext
    <2>5. CASE m + 1 \in DataIn(s)
      <3>1. /\ DataOf(s, m + 1) = Append(D, b) /\ AfterOf(s, m + 1) = Append(A, BeatsOf(s, m + 1))
            /\ b \in Body
        BY <2>1, <2>2, <2>5, EventsNext DEF D, A, b
      <3>2. Append(D, b) \in Seq(Body) /\ Len(Append(D, b)) = Len(D) + 1
        BY <2>3, <3>1, AppendProperties
      <3>3. Append(A, BeatsOf(s, m + 1)) \in Seq(Nat)
            /\ Len(Append(A, BeatsOf(s, m + 1))) = Len(A) + 1
        BY <2>3, <2>4, AppendProperties
      <3> QED
        BY <2>3, <2>4, <3>1, <3>2, <3>3 DEF Counted
    <2>6. CASE m + 1 \notin DataIn(s)
      <3>1. DataOf(s, m + 1) = D /\ AfterOf(s, m + 1) = A
        BY <2>1, <2>2, <2>6, EventsNext DEF D, A
      <3> QED
        BY <2>3, <2>4, <3>1 DEF Counted
    <2> QED
      BY <2>5, <2>6
  <1> HIDE DEF T
  <1>3. T = Nat
    <2>1. T \in SUBSET Nat
      BY DEF T
    <2> QED
      BY <1>1, <1>2, <2>1, NatSetInduction
  <1> QED
    BY <1>3 DEF T

\* The first k messages' events come first, and whatever is behind them comes
\* after all their heartbeats.
Behind(s, k, n) ==
  /\ Len(DataOf(s, k)) <= Len(DataOf(s, n)) /\ BeatsOf(s, k) <= BeatsOf(s, n)
  /\ \A i \in 1 .. Len(DataOf(s, k)) :
       DataOf(s, n)[i] = DataOf(s, k)[i] /\ AfterOf(s, n)[i] = AfterOf(s, k)[i]
  /\ \A i \in 1 .. Len(DataOf(s, n)) : i > Len(DataOf(s, k)) => AfterOf(s, n)[i] >= BeatsOf(s, k)

\* By induction on how many come behind.
LEMMA EventsBehind ==
  ASSUME NEW s \in Seq(Message), NEW k \in Nat, NEW n \in Nat, k <= n, n <= Len(s)
  PROVE  Behind(s, k, n)
  <1> DEFINE T == {d \in Nat : k + d <= Len(s) => Behind(s, k, k + d)}
  <1>0. Counted(s, k) /\ Len(s) \in Nat
    BY EventsCounted
  <1>1. 0 \in T
    <2>1. Behind(s, k, k)
      BY <1>0 DEF Behind, Counted
    <2>2. k + 0 = k
      OBVIOUS
    <2> QED
      BY <2>1, <2>2
  <1>2. ASSUME NEW d \in T PROVE d + 1 \in T
    <2> DEFINE m == k + d
    <2>1. d \in Nat /\ m \in Nat /\ k + (d + 1) = m + 1
      OBVIOUS
    <2> SUFFICES ASSUME m + 1 <= Len(s) PROVE Behind(s, k, m + 1)
      BY <2>1
    <2>2. m < Len(s) /\ Behind(s, k, m)
      BY <1>0, <2>1
    <2> HIDE DEF m
    <2>3. Counted(s, m) /\ Counted(s, m + 1)
      BY <1>0, <2>1, <2>2, EventsCounted
    <2> DEFINE D == DataOf(s, m)
               A == AfterOf(s, m)
               b == BodyOf(m + 1, s[m + 1].len)
               c == BeatsOf(s, m + 1)
    <2> HIDE DEF D, A, b, c
    <2>4. /\ D \in Seq(Body) /\ A \in Seq(Nat) /\ Len(A) = Len(D) /\ c \in Nat
          /\ BeatsOf(s, m) \in Nat /\ BeatsOf(s, k) \in Nat /\ Len(D) \in Nat
          /\ Len(DataOf(s, k)) \in Nat
      BY <1>0, <2>3 DEF Counted, D, A, c
    <2>5. BeatsOf(s, m) <= c
      <3>1. BeatsOf(s, m + 1) \in {BeatsOf(s, m), BeatsOf(s, m) + 1}
        BY <2>1, <2>2, EventsNext
      <3> QED
        BY <2>4, <3>1 DEF c
    <2>6. /\ Len(DataOf(s, k)) <= Len(D) /\ BeatsOf(s, k) <= BeatsOf(s, m)
          /\ \A i \in 1 .. Len(DataOf(s, k)) :
               D[i] = DataOf(s, k)[i] /\ A[i] = AfterOf(s, k)[i]
          /\ \A i \in 1 .. Len(D) : i > Len(DataOf(s, k)) => A[i] >= BeatsOf(s, k)
      BY <2>2 DEF Behind, D, A
    <2>7. CASE m + 1 \in DataIn(s)
      <3>1. DataOf(s, m + 1) = Append(D, b) /\ AfterOf(s, m + 1) = Append(A, c) /\ b \in Body
        BY <2>1, <2>2, <2>7, EventsNext DEF D, A, b, c
      <3>2. /\ Len(Append(D, b)) = Len(D) + 1
            /\ \A i \in 1 .. Len(D) : Append(D, b)[i] = D[i]
        BY <2>4, <3>1, AppendProperties
      <3>3. /\ \A i \in 1 .. Len(D) : Append(A, c)[i] = A[i]
            /\ Append(A, c)[Len(D) + 1] = c
        BY <2>4, AppendProperties
      <3>4. \A i \in 1 .. Len(D) + 1 :
              i > Len(DataOf(s, k)) => Append(A, c)[i] >= BeatsOf(s, k)
        BY <2>4, <2>5, <2>6, <3>3
      <3>5. \A i \in 1 .. Len(DataOf(s, k)) :
              Append(D, b)[i] = DataOf(s, k)[i] /\ Append(A, c)[i] = AfterOf(s, k)[i]
        BY <2>4, <2>6, <3>2, <3>3
      <3>6. Len(DataOf(s, k)) <= Len(D) + 1 /\ BeatsOf(s, k) <= c
        BY <2>4, <2>5, <2>6
      <3> QED
        BY <3>1, <3>2, <3>4, <3>5, <3>6 DEF Behind, c
    <2>8. CASE m + 1 \notin DataIn(s)
      <3>1. DataOf(s, m + 1) = D /\ AfterOf(s, m + 1) = A
        BY <2>1, <2>2, <2>8, EventsNext DEF D, A
      <3>2. BeatsOf(s, k) <= c
        BY <2>4, <2>5, <2>6
      <3> QED
        BY <2>6, <3>1, <3>2 DEF Behind, c
    <2> QED
      BY <2>7, <2>8
  <1> HIDE DEF T
  <1>3. T = Nat
    <2>1. T \in SUBSET Nat
      BY DEF T
    <2> QED
      BY <1>1, <1>2, <2>1, NatSetInduction
  <1>4. n - k \in Nat /\ k + (n - k) = n
    OBVIOUS
  <1> QED
    BY <1>3, <1>4 DEF T

\* s and r begin with the same k messages, and so with their events.
Same(s, r, k) ==
  /\ Len(s) \in Nat /\ Len(r) \in Nat /\ k <= Len(s) /\ k <= Len(r)
  /\ \A i \in 1 .. k : s[i] = r[i]

\* BeatsOf, DataOf and AfterOf look at the first k only.
LEMMA EventsAgree ==
  ASSUME NEW s, NEW r, NEW k \in Nat, Same(s, r, k)
  PROVE  /\ BeatsOf(s, k) = BeatsOf(r, k)
         /\ DataOf(s, k) = DataOf(r, k) /\ AfterOf(s, k) = AfterOf(r, k)
  <1>1. \A i \in 1 .. k : /\ i \in 1 .. Len(s) /\ i \in 1 .. Len(r)
                          /\ i \in DataIn(s) <=> i \in DataIn(r)
    BY DEF DataIn, Same
  <1>2. BeatsOf(s, k) = BeatsOf(r, k) /\ \A i \in 1 .. k : BeatsOf(s, i) = BeatsOf(r, i)
    <2>1. ASSUME NEW i \in 0 .. k PROVE BeatsOf(s, i) = BeatsOf(r, i)
      <3>1. {j \in 1 .. i : s[j].type = "HB"} = {j \in 1 .. i : r[j].type = "HB"}
        BY DEF Same
      <3> QED
        BY <3>1 DEF BeatsOf
    <2> QED
      BY <2>1
  <1> DEFINE v(q) == [i \in 1 .. Len(q) |-> BodyOf(i, q[i].len)]
             a(q) == [i \in 1 .. Len(q) |-> BeatsOf(q, i)]
  <1>3. \A i \in 1 .. k : v(s)[i] = v(r)[i] /\ a(s)[i] = a(r)[i]
    BY <1>1, <1>2 DEF Same
  <1> HIDE DEF v, a
  <1>4. [i \in 1 .. k |-> IF i \in DataIn(s) THEN << v(s)[i] >> ELSE << >>]
          = [i \in 1 .. k |-> IF i \in DataIn(r) THEN << v(r)[i] >> ELSE << >>]
    BY <1>1, <1>3
  <1>5. [i \in 1 .. k |-> IF i \in DataIn(s) THEN << a(s)[i] >> ELSE << >>]
          = [i \in 1 .. k |-> IF i \in DataIn(r) THEN << a(r)[i] >> ELSE << >>]
    BY <1>1, <1>3
  <1> QED
    BY <1>2, <1>4, <1>5 DEF DataOf, AfterOf, Chosen, v, a


-----------------------------------------------------------------------------
(* The messages sent. *)

\* The three state functions of MessageEvents' variables are these.
LEMMA EventsOf ==
  ASSUME NEW s, NEW k \in Nat, k <= Len(s), Len(s) \in Nat
  PROVE  /\ FlattenSeq([i \in 1 .. k |-> IF s[i].type = "DT" /\ s[i].len > 0
                                           THEN << BodyOf(i, s[i].len) >> ELSE << >>])
              = DataOf(s, k)
         /\ FlattenSeq([i \in 1 .. k |-> IF s[i].type = "DT" /\ s[i].len > 0
                                           THEN << BeatsOf(s, i) >> ELSE << >>])
              = AfterOf(s, k)
  <1>1. \A i \in 1 .. k : /\ i \in 1 .. Len(s)
                          /\ i \in DataIn(s) <=> s[i].type = "DT" /\ s[i].len > 0
    BY DEF DataIn
  <1> DEFINE v == [i \in 1 .. Len(s) |-> BodyOf(i, s[i].len)]
             a == [i \in 1 .. Len(s) |-> BeatsOf(s, i)]
  <1>2. \A i \in 1 .. k : v[i] = BodyOf(i, s[i].len) /\ a[i] = BeatsOf(s, i)
    BY <1>1
  <1> HIDE DEF v, a
  <1>3. [i \in 1 .. k |-> IF s[i].type = "DT" /\ s[i].len > 0
                            THEN << BodyOf(i, s[i].len) >> ELSE << >>]
          = [i \in 1 .. k |-> IF i \in DataIn(s) THEN << v[i] >> ELSE << >>]
    BY <1>1, <1>2
  <1>4. [i \in 1 .. k |-> IF s[i].type = "DT" /\ s[i].len > 0
                            THEN << BeatsOf(s, i) >> ELSE << >>]
          = [i \in 1 .. k |-> IF i \in DataIn(s) THEN << a[i] >> ELSE << >>]
    BY <1>1, <1>2
  <1> QED
    BY <1>3, <1>4 DEF DataOf, AfterOf, Chosen, v, a

\* They are, of what has been sent.
LEMMA EventsNow ==
  ASSUME sent \in Seq(Message), NEW k \in Nat, k <= Len(sent)
  PROVE  /\ DataBodies(k) = DataOf(sent, k) /\ After(k) = AfterOf(sent, k)
         /\ Heartbeats(k) = BeatsOf(sent, k)
  <1>1. Len(sent) \in Nat
    OBVIOUS
  <1>2. Heartbeats(k) = BeatsOf(sent, k) /\ \A i \in 1 .. k : Heartbeats(i) = BeatsOf(sent, i)
    BY DEF Heartbeats, BeatsOf
  <1>3. DataBodies(k) = DataOf(sent, k)
    BY <1>1, EventsOf DEF DataBodies, IsData
  <1>4. After(k) = AfterOf(sent, k)
    BY <1>1, EventsOf DEF After, IsData, Heartbeats, BeatsOf
  <1> QED
    BY <1>2, <1>3, <1>4

\* A step that sends adds the events of its message, before any that may follow.
LEMMA EventsSent ==
  ASSUME sent \in Seq(Message), NEW msg \in Message, sent' = Append(sent, msg)
  PROVE  /\ msg.type = "HB" =>
              /\ Heartbeats(Len(sent))' = Heartbeats(Len(sent)) + 1
              /\ DataBodies(Len(sent))' = DataBodies(Len(sent))
              /\ After(Len(sent))' = After(Len(sent))
         /\ msg.type = "DT" => Heartbeats(Len(sent))' = Heartbeats(Len(sent))
         /\ msg.type = "DT" /\ msg.len > 0 =>
              /\ DataBodies(Len(sent))' =
                   Append(DataBodies(Len(sent)), BodyOf(Len(sent) + 1, msg.len))
              /\ After(Len(sent))' = Append(After(Len(sent)), Heartbeats(Len(sent)))
         /\ msg.type = "DT" /\ ~(msg.len > 0) =>
              /\ DataBodies(Len(sent))' = DataBodies(Len(sent))
              /\ After(Len(sent))' = After(Len(sent))
  <1> DEFINE n == Len(sent)
  <1>1. /\ n \in Nat /\ sent' \in Seq(Message) /\ Len(sent') = n + 1
        /\ sent'[n + 1] = msg /\ \A i \in 1 .. n : sent'[i] = sent[i]
    BY AppendProperties
  <1>2. DataOf(sent', n) = DataOf(sent, n) /\ AfterOf(sent', n) = AfterOf(sent, n)
        /\ BeatsOf(sent', n) = BeatsOf(sent, n)
    <2>1. Same(sent', sent, n)
      BY <1>1 DEF Same
    <2> HIDE DEF n
    <2> QED
      BY <1>1, <2>1, EventsAgree
  <1>3. /\ DataBodies(n) = DataOf(sent, n) /\ After(n) = AfterOf(sent, n)
        /\ Heartbeats(n) = BeatsOf(sent, n)
    BY <1>1, EventsNow
  <1>4. /\ DataBodies(n)' = DataOf(sent', n + 1) /\ After(n)' = AfterOf(sent', n + 1)
        /\ Heartbeats(n)' = BeatsOf(sent', n + 1)
    <2>1. Heartbeats(n)' = BeatsOf(sent', n + 1)
      BY <1>1 DEF Heartbeats, BeatsOf
    <2>2. DataBodies(n)' = DataOf(sent', Len(sent'))
      <3>1. Len(sent') \in Nat /\ Len(sent') <= Len(sent')
        BY <1>1
      <3> QED
        BY <3>1, EventsOf DEF DataBodies, IsData
    <2>3. After(n)' = AfterOf(sent', Len(sent'))
      <3>1. Len(sent') \in Nat /\ Len(sent') <= Len(sent')
        BY <1>1
      <3> QED
        BY <3>1, EventsOf DEF After, IsData, Heartbeats, BeatsOf
    <2> QED
      BY <1>1, <2>1, <2>2, <2>3
  <1>5. n + 1 \in DataIn(sent') <=> msg.type = "DT" /\ msg.len > 0
    BY <1>1 DEF DataIn
  <1> HIDE DEF n
  <1>6. /\ msg.type = "HB" =>
             BeatsOf(sent', n + 1) = BeatsOf(sent', n) + 1 /\ n + 1 \notin DataIn(sent')
        /\ msg.type # "HB" => BeatsOf(sent', n + 1) = BeatsOf(sent', n)
        /\ n + 1 \in DataIn(sent') =>
             /\ DataOf(sent', n + 1) = Append(DataOf(sent', n), BodyOf(n + 1, msg.len))
             /\ AfterOf(sent', n + 1) = Append(AfterOf(sent', n), BeatsOf(sent', n + 1))
        /\ n + 1 \notin DataIn(sent') =>
             /\ DataOf(sent', n + 1) = DataOf(sent', n)
             /\ AfterOf(sent', n + 1) = AfterOf(sent', n)
    <2>1. n < Len(sent')
      BY <1>1
    <2> QED
      BY <1>1, <2>1, EventsNext
  <1> QED
    BY <1>2, <1>3, <1>4, <1>5, <1>6 DEF n

-----------------------------------------------------------------------------
(* The next message. *)

\* The parser has dealt with the first k messages.
HasDone(k) == delivered = DataBodies(k) /\ refreshed = Heartbeats(k)

\* What there is of the first k messages and of the next one, in all there is.
LEMMA NextEvents ==
  ASSUME sent \in Seq(Message), NEW k \in Nat, k < Len(sent), HasDone(k)
  PROVE  /\ Counted(sent, k) /\ Counted(sent, k + 1) /\ Counted(sent, Len(sent))
         /\ Behind(sent, k + 1, Len(sent))
         /\ delivered = DataOf(sent, k) /\ refreshed = BeatsOf(sent, k)
         /\ DataBodies(Len(sent)) = DataOf(sent, Len(sent))
         /\ After(Len(sent)) = AfterOf(sent, Len(sent))
         /\ Heartbeats(Len(sent)) = BeatsOf(sent, Len(sent))
  <1>1. Len(sent) \in Nat /\ k + 1 \in Nat /\ k + 1 <= Len(sent) /\ Len(sent) <= Len(sent)
    OBVIOUS
  <1>2. Counted(sent, k) /\ Counted(sent, k + 1) /\ Counted(sent, Len(sent))
    BY <1>1, EventsCounted
  <1>3. Behind(sent, k + 1, Len(sent))
    BY <1>1, EventsBehind
  <1>4. delivered = DataOf(sent, k) /\ refreshed = BeatsOf(sent, k)
    BY EventsNow DEF HasDone
  <1>5. /\ DataBodies(Len(sent)) = DataOf(sent, Len(sent))
        /\ After(Len(sent)) = AfterOf(sent, Len(sent))
        /\ Heartbeats(Len(sent)) = BeatsOf(sent, Len(sent))
    BY <1>1, EventsNow
  <1> QED
    BY <1>2, <1>3, <1>4, <1>5

\* If that is a heartbeat, it is the next event.
LEMMA HeartbeatIsNext ==
  ASSUME sent \in Seq(Message), NEW k \in Nat, k < Len(sent), HasDone(k),
         sent[k + 1].type = "HB"
  PROVE  Events!HeartbeatNext
  <1> DEFINE D == DataOf(sent, Len(sent))
             A == AfterOf(sent, Len(sent))
  <1>1. /\ delivered = DataOf(sent, k) /\ refreshed = BeatsOf(sent, k) /\ refreshed \in Nat
        /\ DataBodies(Len(sent)) = D /\ After(Len(sent)) = A
        /\ Heartbeats(Len(sent)) = BeatsOf(sent, Len(sent))
        /\ Heartbeats(Len(sent)) \in Nat /\ D \in Seq(Body) /\ A \in Seq(Nat) /\ Len(A) = Len(D)
    BY NextEvents DEF Counted
  <1>2. BeatsOf(sent, k + 1) = refreshed + 1 /\ DataOf(sent, k + 1) = delivered
    BY <1>1, EventsNext
  <1>3. /\ refreshed + 1 <= Heartbeats(Len(sent))
        /\ \A i \in 1 .. Len(D) : i > Len(delivered) => A[i] >= refreshed + 1
    BY <1>1, <1>2, NextEvents DEF Behind
  <1> HIDE DEF D, A
  <1>4. \A i \in DOMAIN D : i > Len(delivered) => A[i] > refreshed
    <2> SUFFICES ASSUME NEW i \in DOMAIN D, i > Len(delivered) PROVE A[i] > refreshed
      OBVIOUS
    <2>1. i \in 1 .. Len(D) /\ i \in 1 .. Len(A)
      BY <1>1
    <2>2. A[i] \in Nat /\ A[i] >= refreshed + 1
      BY <1>1, <1>3, <2>1
    <2> QED
      BY <1>1, <2>2
  <1> QED
    BY <1>1, <1>3, <1>4 DEF Events!HeartbeatNext

\* If it is data, its body is.
LEMMA DataIsNext ==
  ASSUME sent \in Seq(Message), NEW k \in Nat, k < Len(sent), HasDone(k),
         sent[k + 1].type = "DT", sent[k + 1].len > 0
  PROVE  /\ Len(delivered) < Len(DataBodies(Len(sent)))
         /\ DataBodies(Len(sent))[Len(delivered) + 1] = BodyOf(k + 1, sent[k + 1].len)
         /\ After(Len(sent))[Len(delivered) + 1] = refreshed
         /\ Heartbeats(k + 1) = Heartbeats(k)
  <1> DEFINE D == DataOf(sent, Len(sent))
             A == AfterOf(sent, Len(sent))
             a == AfterOf(sent, k)
             b == BodyOf(k + 1, sent[k + 1].len)
  <1>1. /\ delivered = DataOf(sent, k) /\ refreshed = BeatsOf(sent, k) /\ refreshed \in Nat
        /\ DataBodies(Len(sent)) = D /\ After(Len(sent)) = A
        /\ D \in Seq(Body) /\ delivered \in Seq(Body) /\ a \in Seq(Nat) /\ Len(a) = Len(delivered)
    BY NextEvents DEF Counted
  <1>2. k + 1 \in DataIn(sent)
    BY DEF DataIn
  <1>3. /\ BeatsOf(sent, k + 1) = refreshed
        /\ DataOf(sent, k + 1) = Append(delivered, b) /\ b \in Body
        /\ AfterOf(sent, k + 1) = Append(a, refreshed)
    BY <1>1, <1>2, EventsNext
  <1> HIDE DEF D, A, a, b
  <1>4. /\ Len(Append(delivered, b)) = Len(delivered) + 1
        /\ Append(delivered, b)[Len(delivered) + 1] = b
        /\ Append(a, refreshed)[Len(delivered) + 1] = refreshed
    BY <1>1, <1>3, AppendProperties
  <1>5. /\ Len(delivered) + 1 <= Len(D) /\ Len(delivered) \in Nat /\ Len(D) \in Nat
        /\ D[Len(delivered) + 1] = b /\ A[Len(delivered) + 1] = refreshed
    <2>1. Behind(sent, k + 1, Len(sent))
      BY NextEvents
    <2>2. /\ Len(Append(delivered, b)) <= Len(D)
          /\ \A i \in 1 .. Len(Append(delivered, b)) :
               D[i] = Append(delivered, b)[i] /\ A[i] = Append(a, refreshed)[i]
      BY <1>3, <2>1 DEF Behind, D, A
    <2>3. Len(delivered) + 1 \in 1 .. Len(Append(delivered, b)) /\ Len(D) \in Nat
      BY <1>1, <1>4
    <2> QED
      BY <1>1, <1>4, <2>2, <2>3
  <1>6. Heartbeats(k + 1) = Heartbeats(k)
    <2>1. k + 1 \in Nat /\ k + 1 <= Len(sent) /\ k <= Len(sent)
      OBVIOUS
    <2> QED
      BY <1>1, <1>3, <2>1, EventsNow
  <1> QED
    BY <1>1, <1>5, <1>6 DEF b

-----------------------------------------------------------------------------
(* The steps. *)

\* What was sent is still the same.
LEMMA EventsKeep ==
  ASSUME sent' = sent
  PROVE  /\ DataBodies(Len(sent))' = DataBodies(Len(sent))
         /\ After(Len(sent))' = After(Len(sent))
         /\ Heartbeats(Len(sent))' = Heartbeats(Len(sent))
  BY DEF DataBodies, After, Heartbeats, IsData

\* A step that neither sends nor completes anything is no event.
LEMMA NoEvent ==
  ASSUME sent' = sent, end' = end, UNCHANGED told
  PROVE  UNCHANGED Events!vars
  BY EventsKeep DEF Events!vars, told

\* A message is sent: data, a heartbeat, or a head of type RECV_DATA alone.
LEMMA SentEvent ==
  ASSUME TypeOK, NEW msg \in Message, Len(sent) < MaxSent, sent' = Append(sent, msg),
         end' = end, UNCHANGED told
  PROVE  [Events!Next]_Events!vars
  <1>1. sent \in Seq(Message) /\ UNCHANGED <<end, delivered, refreshed, replied>>
    BY DEF TypeOK, told
  <1>2. CASE msg.type = "HB"
    <2>1. Events!SendHeartbeat
      BY <1>1, <1>2, EventsSent DEF Events!SendHeartbeat
    <2> QED
      BY <2>1 DEF Events!Next
  <1>3. CASE msg.type = "DT" /\ msg.len > 0
    <2>1. Events!Send(BodyOf(Len(sent) + 1, msg.len))
      BY <1>1, <1>3, EventsSent DEF Events!Send
    <2>2. Len(sent) + 1 \in 1 .. MaxSent /\ msg.len \in 1 .. MaxBody
      BY <1>1, <1>3, FrameAssumption DEF Message
    <2>3. BodyOf(Len(sent) + 1, msg.len)
            \in {BodyOf(i, len) : i \in 1 .. MaxSent, len \in 1 .. MaxBody}
      BY <2>2
    <2> QED
      BY <2>1, <2>3 DEF Events!Next
  <1>4. CASE msg.type = "DT" /\ ~(msg.len > 0)
    BY <1>1, <1>4, EventsSent DEF Events!vars
  <1>5. msg.type \in {"HB", "DT"}
    BY DEF Message, MsgType
  <1> QED
    BY <1>2, <1>3, <1>4, <1>5

\* A head is complete: the server answers a heartbeat, and one that has no body counts.
LEMMA HeadEvent ==
  ASSUME FrameInv, NEW n, ReadFacts(n), ~m_bIsRecvHead, n = Lacks,
         TakeHead(Assemble(Piece(n))), ~mixed
  PROVE  [Events!Next]_Events!vars
  <1>1. TypeOK /\ UnitInv /\ WriteInv /\ ParsedExactly
    BY DEF FrameInv
  <1>2. Read(n) /\ status = "reading" /\ UNCHANGED <<end, sends>> /\ n \in 0 .. Len(stream)
        /\ ~Overrun
    BY ReadUnits DEF ReadFacts, Read, Overrun
  <1>3. PICK k \in 0 .. Len(sent) : ParsedAt(k)
    BY <1>1, <1>2, ParsedExactlyIs
  <1> DEFINE msg == sent[k + 1]
  <1>4. /\ sent \in Seq(Message) /\ k \in Nat /\ k < Len(sent) /\ msg.len \in Nat
        /\ msg.type \in {"HB", "DT"} /\ sent' = sent /\ end' = end /\ delivered' = delivered
        /\ refreshed' = IF msg.type = "HB" /\ msg.len = 0 THEN refreshed + 1 ELSE refreshed
        /\ replied' = IF msg.type = "HB" /\ end = "server" THEN replied + 1 ELSE replied
    BY <1>1, <1>2, <1>3, HeadTaken
  <1>5. HasDone(k) /\ (end = "server" => replied = refreshed)
    BY <1>3 DEF ParsedAt, HasDone, Begun
  <1>6. msg.type = "HB" => Events!HeartbeatNext
    BY <1>4, <1>5, HeartbeatIsNext
  <1> HIDE DEF msg
  <1>7. CASE msg.type = "HB" /\ msg.len = 0
    <2>1. Events!Count
      BY <1>4, <1>5, <1>6, <1>7, EventsKeep DEF Events!Count
    <2> QED
      BY <2>1 DEF Events!Next
  <1>8. CASE msg.type = "HB" /\ msg.len # 0 /\ end = "server"
    <2>1. Events!Answer
      BY <1>4, <1>5, <1>6, <1>8, EventsKeep DEF Events!Answer
    <2> QED
      BY <2>1 DEF Events!Next
  <1>9. CASE msg.type = "DT" \/ (msg.len # 0 /\ end # "server")
    <2>1. UNCHANGED told
      BY <1>4, <1>9 DEF told
    <2> QED
      BY <1>4, <2>1, NoEvent
  <1> QED
    BY <1>4, <1>7, <1>8, <1>9

\* A body is complete: a heartbeat counts, data is given to the application.
LEMMA BodyEvent ==
  ASSUME FrameInv, NEW n, ReadFacts(n), m_bIsRecvHead, n = Lacks,
         TakeBody(Assemble(Piece(n))), ~mixed
  PROVE  [Events!Next]_Events!vars
  <1>1. TypeOK /\ UnitInv /\ LackInv /\ WriteInv /\ ParsedExactly
    BY DEF FrameInv
  <1>2. Read(n) /\ status = "reading" /\ UNCHANGED <<end, sends>> /\ n \in 0 .. Len(stream)
        /\ ~Overrun
    BY ReadUnits DEF ReadFacts, Read, Overrun
  <1>3. PICK k \in 0 .. Len(sent) : ParsedAt(k)
    BY <1>1, <1>2, ParsedExactlyIs
  <1> DEFINE msg == sent[k + 1]
             body == BodyOf(k + 1, msg.len)
  <1>4. /\ sent \in Seq(Message) /\ k \in Nat /\ k < Len(sent) /\ msg.len > 0
        /\ sent' = sent /\ end' = end /\ replied' = replied
        /\ \/ msg.type = "HB" /\ refreshed' = refreshed + 1 /\ delivered' = delivered
           \/ /\ msg.type = "DT" /\ refreshed' = refreshed
              /\ delivered' = Append(delivered, body)
    BY <1>1, <1>2, <1>3, BodyTaken
  <1>5. HasDone(k) /\ (end = "server" => replied = Heartbeats(k + 1))
    BY <1>3 DEF ParsedAt, HasDone, Begun
  <1>6. CASE msg.type = "HB"
    <2>1. Events!HeartbeatNext
      BY <1>4, <1>5, <1>6, HeartbeatIsNext
    <2>2. end = "server" => replied' = refreshed + 1
      <3>1. Heartbeats(k + 1) = Heartbeats(k) + 1
        BY <1>4, <1>6, HeartbeatsNext
      <3> QED
        BY <1>4, <1>5, <3>1 DEF HasDone
    <2>3. Events!Count
      BY <1>4, <1>6, <2>1, <2>2, EventsKeep DEF Events!Count
    <2> QED
      BY <2>3 DEF Events!Next
  <1>7. CASE msg.type = "DT"
    <2>1. /\ Len(delivered) < Len(DataBodies(Len(sent)))
          /\ DataBodies(Len(sent))[Len(delivered) + 1] = body
          /\ After(Len(sent))[Len(delivered) + 1] = refreshed
          /\ end = "server" => replied = refreshed
      BY <1>4, <1>5, <1>7, DataIsNext DEF HasDone
    <2>2. /\ refreshed' = refreshed /\ delivered' = Append(delivered, body)
      BY <1>4, <1>7
    <2> HIDE DEF body, msg
    <2>3. Events!Receive
      BY <1>4, <2>1, <2>2, EventsKeep DEF Events!Receive
    <2> QED
      BY <2>3 DEF Events!Next
  <1> QED
    BY <1>4, <1>6, <1>7

\* What TcpSession_IORecv does is an event or none.
LEMMA ServerEvent ==
  ASSUME FrameInv, ServerRecv
  PROVE  [Events!Next]_Events!vars
  <1>1. end = "server" /\ ~mixed
    BY DEF ServerRecv, FrameInv, WriteInv
  <1>2. ASSUME NEW n \in 1 .. MaxRead,
               \/ ServerRecvHead(n) \/ ServerRefusesHead(n)
               \/ ServerRecvBody(n) \/ ServerRefusesBody(n)
        PROVE  [Events!Next]_Events!vars
    <2>1. ReadFacts(n) /\ sent' = sent /\ end' = end
      <3>1. Read(n) /\ UNCHANGED <<end, sends, closed>>
        BY <1>2 DEF ServerRecvHead, ServerRefusesHead, ServerRecvBody, ServerRefusesBody
      <3>2. n \in 1 .. Len(stream)
        BY <3>1 DEF Read, FrameInv, TypeOK
      <3> QED
        BY <3>1, <3>2 DEF ReadFacts, sends
    <2>2. CASE ~m_bIsRecvHead /\ n = Lacks /\ TakeHead(Assemble(Piece(n)))
      BY <1>1, <2>1, <2>2, HeadEvent
    <2>3. CASE m_bIsRecvHead /\ n = Lacks /\ TakeBody(Assemble(Piece(n)))
      BY <1>1, <2>1, <2>3, BodyEvent
    <2>4. CASE UNCHANGED told
      BY <2>1, <2>4, NoEvent
    <2> QED
      BY <1>2, <2>2, <2>3, <2>4
      DEF ServerRecvHead, ServerRefusesHead, ServerRecvBody, ServerRefusesBody, Keep
  <1>3. CASE RecvNothing
    <2>1. sent' = sent /\ end' = end /\ UNCHANGED told
      BY <1>3 DEF RecvNothing, sends
    <2> QED
      BY <2>1, NoEvent
  <1> QED
    BY <1>2, <1>3 DEF ServerRecv

\* So is what TcpClient_Recvfrom does.
LEMMA ClientEvent ==
  ASSUME FrameInv, ClientRecv
  PROVE  [Events!Next]_Events!vars
  <1>1. end = "client" /\ ~mixed
    BY DEF ClientRecv
  <1>2. ASSUME NEW n \in 1 .. Lacks, ClientRecvHead(n) \/ ClientRecvBody(n)
        PROVE  [Events!Next]_Events!vars
    <2>1. ReadFacts(n) /\ sent' = sent /\ end' = end
      <3>1. Read(n) /\ UNCHANGED <<end, sends, closed>>
        BY <1>2 DEF ClientRecvHead, ClientRecvBody
      <3>2. Lacks \in Int
        BY FrameAssumption DEF Lacks, FrameInv, TypeOK
      <3>3. n \in 1 .. Len(stream)
        BY <3>1, <3>2 DEF Read, FrameInv, TypeOK
      <3> QED
        BY <3>1, <3>3 DEF ReadFacts, sends
    <2>2. CASE ~m_bIsRecvHead /\ n = Lacks /\ TakeHead(Assemble(Piece(n)))
      BY <1>1, <2>1, <2>2, HeadEvent
    <2>3. CASE m_bIsRecvHead /\ n = Lacks /\ TakeBody(Assemble(Piece(n)))
      BY <1>1, <2>1, <2>3, BodyEvent
    <2>4. CASE UNCHANGED told
      BY <2>1, <2>4, NoEvent
    <2> QED
      BY <1>2, <2>2, <2>3, <2>4 DEF ClientRecvHead, ClientRecvBody, Keep
  <1>3. CASE RecvNothing
    <2>1. sent' = sent /\ end' = end /\ UNCHANGED told
      BY <1>3 DEF RecvNothing, sends
    <2> QED
      BY <2>1, NoEvent
  <1> QED
    BY <1>2, <1>3 DEF ClientRecv

\* Each end, whatever the network and the sending threads do, handles every
\* message that it takes once, whole and in the order they were sent, heartbeats
\* among the data: TcpSession_IORecv and TcpClient_Recvfrom do what MessageEvents
\* promises, for every number and length of messages and every size of a read.
THEOREM Refinement == Spec => ImplementsMessageEvents
  <1>1. Init => Events!Init
    <2> SUFFICES ASSUME Init PROVE Events!Init
      OBVIOUS
    <2>1. sent = << >> /\ Len(sent) = 0 /\ sent \in Seq(Message) /\ 0 <= Len(sent) /\ 0 \in Nat
      BY DEF Init
    <2>2. /\ DataBodies(0) = << >> /\ After(0) = << >> /\ Heartbeats(0) = 0
      BY <2>1, EventsNow, EventsZero
    <2> QED
      BY <2>1, <2>2 DEF Init, Events!Init
  <1>2. FrameInv /\ [Next]_vars => [Events!Next]_Events!vars
    <2> SUFFICES ASSUME FrameInv, [Next]_vars PROVE [Events!Next]_Events!vars
      OBVIOUS
    <2>1. TypeOK
      BY DEF FrameInv
    <2>2. ASSUME NEW msg \in Message, PeerSend(msg) PROVE [Events!Next]_Events!vars
      BY <2>1, <2>2, SentEvent DEF PeerSend
    <2>3. ASSUME NEW msg \in Message, NEW t \in Sender, SendData(t, msg)
          PROVE  [Events!Next]_Events!vars
      BY <2>1, <2>3, SentEvent DEF SendData
    <2>4. CASE \/ \E t \in Sender : IOSend(t) \/ SendRaw(t)
               \/ PeerClose \/ UNCHANGED vars
      <3>1. sent' = sent /\ end' = end /\ UNCHANGED told
        BY <2>4 DEF IOSend, SendRaw, PeerClose, vars, sends
      <3> QED
        BY <3>1, NoEvent
    <2>5. CASE ServerRecv
      BY <2>5, ServerEvent
    <2>6. CASE ClientRecv
      BY <2>6, ClientEvent
    <2> QED
      BY <2>2, <2>3, <2>4, <2>5, <2>6 DEF Next
  <1> QED
    BY <1>1, <1>2, Invariance, PTL DEF Spec, ImplementsMessageEvents, Events!Spec
===============================================================================

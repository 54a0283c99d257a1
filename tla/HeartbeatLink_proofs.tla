------------------------- MODULE HeartbeatLink_proofs -------------------------
(***************************************************************************)
(* Proofs about HeartbeatLink: its inductive invariant, and from it the       *)
(* bounds on the time for which the two ends of a connection may disagree.   *)
(***************************************************************************)
EXTENDS HeartbeatLink, TLAPS

\* The constants' types, and what the mode gives.
LEMMA ConstantFacts ==
  ASSUME LinkTypeOK
  PROVE  /\ HEARTBEAT_TIMEOUT \in Nat /\ SweepSleep \in Nat /\ Delay \in Nat /\ Lag \in Nat
         /\ HEARTBEAT_TIMEOUT > 0 /\ MaxConn \in Nat
         /\ m_nHeartBeatInterval \in Nat /\ m_nHeartBeatInterval > 0
         /\ SweepTime \in Nat /\ Cap \in Nat
         /\ Cap > SweepTime + m_nHeartBeatInterval + 2 * Delay
  BY LinkAssumption DEF LinkTypeOK, SweepTime

\* Where a count goes from n.
LEMMA CountFacts ==
  ASSUME LinkTypeOK, NEW n \in 0 .. Cap
  PROVE  /\ Count(n) \in 0 .. Cap /\ n <= Count(n) /\ Count(n) <= n + 1
         /\ n < Cap => Count(n) = n + 1
  BY ConstantFacts DEF Count

\* The ages of what is under way after a second in which none was due.
LEMMA Older ==
  ASSUME LinkTypeOK, NEW S \in SUBSET (0 .. Delay), \A a \in S : a < Delay
  PROVE  {a + 1 : a \in S} \in SUBSET (0 .. Delay)
  BY ConstantFacts

\* The modes are chosen once.
LEMMA ModesKeep ==
  ASSUME LinkTypeOK, Next
  PROVE  /\ m_bIsHaveHead' <=> m_bIsHaveHead
         /\ m_bIsHaveHB' <=> m_bIsHaveHB
         /\ m_nHeartBeatInterval' = m_nHeartBeatInterval /\ (talks' <=> talks)
  <1>1. UNCHANGED modes
    BY DEF Next, Tick, Client, AppConnect, HbConnect, Connect, HbBeat, HbTimeout, HbJoin, HandleHB,
      Server, Sweep, Accept, IORecvFails, IORecv, Faults, LosePlace, ClientDies, ServerDies,
      ServerStarts, Cut, modes
  <1> QED
    BY <1>1 DEF modes, LinkTypeOK

-----------------------------------------------------------------------------

\* Every step keeps the types of the two ends and of the network.
LEMMA LinkTypeStep == ASSUME LinkTypeOK, TimeTypeOK, DueInv, Next PROVE LinkTypeOK'
  <1> USE DEF LinkTypeOK, modes, client, server, network, stamps
  <1>1. CASE Tick
    BY <1>1 DEF Tick
  <1>2. ASSUME NEW c \in Conn, Connect(c), cpc' \in CPC PROVE LinkTypeOK'
    BY <1>2 DEF Connect, Conn
  <1>3. CASE AppConnect
    BY <1>2, <1>3 DEF AppConnect, CPC
  <1>4. CASE HbConnect
    BY <1>2, <1>4 DEF HbConnect, Awake
  <1>5. CASE HbBeat \/ HbTimeout \/ HbJoin \/ \E a \in 0 .. Delay : HandleHB(a)
    BY <1>5 DEF HbBeat, HbTimeout, HbJoin, HandleHB, Awake, CPC
  <1>6. CASE Server
    BY <1>6 DEF Server, Sweep, Accept, IORecvFails, IORecv
  <1>7. CASE Faults
    BY <1>7 DEF Faults, LosePlace, ClientDies, ServerDies, ServerStarts, Cut, CPC
  <1> QED
    BY <1>1, <1>3, <1>4, <1>5, <1>6, <1>7 DEF Next, Client

\* Every step keeps the types of the times: nothing gets older than Delay on its way.
LEMMA TimeTypeStep == ASSUME LinkTypeOK, TimeTypeOK, DueInv, Next PROVE TimeTypeOK'
  <1> USE ConstantFacts DEF TimeTypeOK, LinkTypeOK, modes, client, server, network, stamps
  <1>1. CASE Tick
    <2>1. /\ slept' \in Nat /\ napped' \in Nat /\ cage' \in 0 .. Cap
          /\ sage' \in [Conn -> 0 .. Cap] /\ life' \in [Conn -> 0 .. Cap]
          /\ apart' \in [Conn -> 0 .. Cap]
      BY <1>1, CountFacts DEF Tick
    <2>2. ASSUME NEW c \in Conn
          PROVE  beats'[c] \in SUBSET (0 .. Delay) /\ replies'[c] \in SUBSET (0 .. Delay)
      BY <1>1, Older DEF Tick, NothingDue
    <2>3. beats' \in [Conn -> SUBSET (0 .. Delay)] /\ replies' \in [Conn -> SUBSET (0 .. Delay)]
      BY <1>1, <2>2 DEF Tick
    <2> QED
      BY <2>1, <2>3
  <1>2. ASSUME NEW c \in Conn, Connect(c), slept' \in Nat PROVE TimeTypeOK'
    BY <1>2 DEF Connect
  <1>3. CASE AppConnect
    BY <1>2, <1>3 DEF AppConnect
  <1>4. CASE HbConnect
    BY <1>2, <1>4 DEF HbConnect, Awake
  <1>5. ASSUME NEW S \in SUBSET (0 .. Delay)
        PROVE  /\ S \cup {0} \in SUBSET (0 .. Delay)
               /\ \A a \in 0 .. Delay : S \ {a} \in SUBSET (0 .. Delay)
    <2>1. 0 \in 0 .. Delay
      OBVIOUS
    <2> QED
      BY ONLY <2>1, S \in SUBSET (0 .. Delay)
  <1>6. CASE HbBeat
    <2>1. beats[conn] \cup {0} \in SUBSET (0 .. Delay) \/ conn \notin Conn
      BY <1>5
    <2>2. beats' \in [Conn -> SUBSET (0 .. Delay)]
      BY <1>6, <2>1 DEF HbBeat
    <2> QED
      BY <1>6, <2>2 DEF HbBeat, Awake
  <1>7. CASE HbTimeout \/ HbJoin \/ \E a \in 0 .. Delay : HandleHB(a)
    BY <1>7 DEF HbTimeout, HbJoin, HandleHB, Awake
  <1>8. CASE Server
    <2>1. CASE Sweep
      BY <1>8, <2>1 DEF Sweep
    <2>2. ASSUME NEW c \in Conn, Accept(c) PROVE TimeTypeOK'
      BY <2>2 DEF Accept
    <2>3. ASSUME NEW c \in Conn, NEW a \in 0 .. Delay, IORecv(c, a) PROVE TimeTypeOK'
      BY <1>5, <2>3 DEF IORecv
    <2>4. ASSUME NEW c \in Conn, IORecvFails(c) PROVE TimeTypeOK'
      BY <2>4 DEF IORecvFails
    <2> QED
      BY <1>8, <2>1, <2>2, <2>3, <2>4 DEF Server
  <1>9. CASE Faults
    BY <1>9 DEF Faults, LosePlace, ClientDies, ServerDies, ServerStarts, Cut
  <1> QED
    BY <1>1, <1>3, <1>4, <1>6, <1>7, <1>8, <1>9 DEF Next, Client

\* No thread sleeps for longer than its sleep and Lag, and the client's threads are
\* where their mode has them.
LEMMA DueStep == ASSUME TypeOK, DueInv, UnderWayInv, Next PROVE DueInv'
  <1> USE ConstantFacts, ModesKeep DEF TypeOK, LinkTypeOK, TimeTypeOK, DueInv,
        client, server, network, stamps
  <1>1. CASE Tick
    BY <1>1 DEF Tick, NothingDue, UnderWayInv
  <1>2. ASSUME NEW c \in Conn, Connect(c)
        PROVE  napped' = napped /\ conn' \in Conn
    BY <1>2 DEF Connect
  <1>3. CASE AppConnect
    BY <1>2, <1>3 DEF AppConnect
  <1>4. CASE HbConnect
    <2>1. CASE \E c \in Conn : Connect(c)
      BY <1>2, <1>4, <2>1 DEF HbConnect, Awake
    <2> QED
      BY <1>4, <2>1 DEF HbConnect, Awake
  <1>7. CASE HbBeat \/ HbTimeout \/ HbJoin \/ \E a \in 0 .. Delay : HandleHB(a)
    BY <1>7 DEF HbBeat, HbTimeout, HbJoin, HandleHB, Awake
  <1>5. CASE Server
    BY <1>5 DEF Server, Sweep, Accept, IORecvFails, IORecv
  <1>6. CASE Faults
    BY <1>6 DEF Faults, LosePlace, ClientDies, ServerDies, ServerStarts, Cut
  <1> QED
    BY <1>1, <1>3, <1>4, <1>5, <1>6, <1>7 DEF Next, Client

\* Beats and answers are under way only where somebody waits for them; beats that
\* are spaced come one at a time, so that only data makes a session deaf.
LEMMA UnderWayStep == ASSUME TypeOK, DueInv, UnderWayInv, Next PROVE UnderWayInv'
  <1> USE ConstantFacts, ModesKeep DEF TypeOK, LinkTypeOK, TimeTypeOK, DueInv, UnderWayInv, Held,
        Linked, client, server, network, stamps
  <1>1. CASE Tick
    BY <1>1, CountFacts DEF Tick, NothingDue
  <1>2. ASSUME NEW c \in Conn, Connect(c), m_nLinkStatus = "DISCONNECT", m_bIsHaveHB => slept' = 0
        PROVE  UnderWayInv'
    BY <1>2 DEF Connect
  <1>3. CASE AppConnect
    BY <1>2, <1>3 DEF AppConnect
  <1>4. CASE HbConnect
    BY <1>2, <1>4 DEF HbConnect, Awake
  <1>5. CASE HbBeat
    <2>1. m_nHeartBeatInterval > Delay => beats[conn] = {}
      <3> SUFFICES ASSUME m_nHeartBeatInterval > Delay, NEW a \in beats[conn] PROVE FALSE
        OBVIOUS
      <3>1. conn \in Conn /\ Linked(conn) /\ slept >= m_nHeartBeatInterval
        BY <1>5 DEF HbBeat, Awake
      <3>2. a = slept /\ a \in 0 .. Delay
        BY <3>1
      <3> QED
        BY <3>1, <3>2
    <2>2. m_nHeartBeatInterval > Delay => \A a \in beats'[conn] : a = 0
      BY <1>5, <2>1 DEF HbBeat
    <2> QED
      BY <1>5, <2>2 DEF HbBeat, Awake, Heard
  <1>6. CASE HbTimeout \/ HbJoin \/ \E a \in 0 .. Delay : HandleHB(a)
    BY <1>6 DEF HbTimeout, HbJoin, HandleHB, Awake
  <1>7. CASE Server
    <2>1. CASE Sweep
      BY <2>1 DEF Sweep
    <2>2. ASSUME NEW c \in Conn, Accept(c) PROVE UnderWayInv'
      BY <2>2 DEF Accept
    <2>3. ASSUME NEW c \in Conn, NEW a \in 0 .. Delay, IORecv(c, a) PROVE UnderWayInv'
      BY <2>3 DEF IORecv
    <2>4. ASSUME NEW c \in Conn, IORecvFails(c) PROVE UnderWayInv'
      BY <2>4 DEF IORecvFails, TooMuch
    <2> QED
      BY <1>7, <2>1, <2>2, <2>3, <2>4 DEF Server
  <1>8. CASE Faults
    BY <1>8 DEF Faults, LosePlace, ClientDies, ServerDies, ServerStarts, Cut
  <1> QED
    BY <1>1, <1>3, <1>4, <1>5, <1>6, <1>7, <1>8 DEF Next, Client

\* No end looks away from its stamp for longer than its sleep.
LEMMA StampStep == ASSUME TypeOK, DueInv, UnderWayInv, StampInv, Next PROVE StampInv'
  <1> USE ConstantFacts, ModesKeep DEF TypeOK, LinkTypeOK, TimeTypeOK, DueInv, UnderWayInv,
        StampInv, Held, Linked, client, server, network, stamps
  <1>1. CASE Tick
    BY <1>1, CountFacts DEF Tick
  <1>2. ASSUME NEW c \in Conn, Connect(c), slept' \in Nat PROVE StampInv'
    BY <1>2 DEF Connect
  <1>3. CASE AppConnect
    BY <1>2, <1>3 DEF AppConnect
  <1>4. CASE HbConnect
    BY <1>2, <1>4 DEF HbConnect, Awake
  <1>5. CASE HbBeat
    BY <1>5 DEF HbBeat, Awake, SessionTimeout
  <1>6. CASE HbTimeout \/ HbJoin \/ \E a \in 0 .. Delay : HandleHB(a)
    BY <1>6 DEF HbTimeout, HbJoin, HandleHB, Awake
  <1>7. CASE Server
    BY <1>7 DEF Server, Sweep, Accept, IORecvFails, IORecv, IsHeartbeatTimeOut
  <1>8. CASE Faults
    BY <1>8 DEF Faults, LosePlace, ClientDies, ServerDies, ServerStarts, Cut
  <1> QED
    BY <1>1, <1>3, <1>4, <1>5, <1>6, <1>7, <1>8 DEF Next, Client

\* What Next does for one connection c.
LEMMA AloneStep ==
  ASSUME TypeOK, DueInv, UnderWayInv, StampInv, ConnInv, Next, NEW c \in Conn
  PROVE  AloneInv(c)'
  <1> USE ConstantFacts, ModesKeep DEF TypeOK, LinkTypeOK, TimeTypeOK, DueInv, UnderWayInv,
        StampInv, AloneInv, Held, Linked, client, server, network, stamps
  <1>a. AloneInv(c)
    BY DEF ConnInv
  <1>1. CASE Tick
    <2>1. apart'[c] <= apart[c] + 1 /\ ((Held(c) <=> Linked(c)) => apart'[c] = 0)
      BY <1>1, CountFacts DEF Tick
    <2>2. session[c] # "none" => sage'[c] = sage[c] + 1
      <3>1. session[c] # "none" => sage[c] < Cap
        BY DEF SweepTime
      <3> QED
        BY <1>1, <3>1 DEF Tick, Count
    <2>3. m_nLinkStatus = "CONNECT" => cage' = cage + 1 \/ (cage = Cap /\ cage' = Cap)
      <3>1. cage \in 0 .. Cap /\ Cap \in Nat
        OBVIOUS
      <3>2. m_nLinkStatus = "CONNECT" => cage' = Count(cage)
        BY <1>1 DEF Tick
      <3> QED
        BY ONLY <3>1, <3>2 DEF Count
    <2>4. /\ (Held(c)' <=> Held(c)) /\ (Linked(c)' <=> Linked(c)) /\ session'[c] = session[c]
          /\ beats'[c] = {a + 1 : a \in beats[c]} /\ replies'[c] = {a + 1 : a \in replies[c]}
      BY <1>1 DEF Tick
    <2>5. ~(Held(c) <=> Linked(c)) => \A a \in beats'[c] \cup replies'[c] : apart'[c] <= a
      <3> SUFFICES ASSUME ~(Held(c) <=> Linked(c)), NEW b \in beats'[c] \cup replies'[c]
                   PROVE  apart'[c] <= b
        OBVIOUS
      <3>1. PICK a \in beats[c] \cup replies[c] : b = a + 1
        BY <2>4
      <3>2. apart[c] <= a /\ a \in Nat /\ apart[c] \in Nat /\ apart'[c] \in Nat
        BY <1>a, <1>1, CountFacts DEF Tick
      <3> QED
        BY <2>1, <3>1, <3>2
    <2>6. /\ Held(c) /\ Linked(c) => apart'[c] = 0
          /\ session[c] = "backlog" => apart'[c] <= sage'[c]
          /\ session[c] \in {"live", "deaf"} => apart'[c] <= sage'[c] + Delay
      <3>1. apart[c] \in Nat /\ sage[c] \in Nat /\ Delay \in Nat /\ apart'[c] \in Nat
        BY <1>1, CountFacts DEF Tick
      <3> QED
        BY <1>a, <2>1, <2>2, <3>1
    <2>7. Linked(c) /\ ~Held(c) => apart'[c] <= cage' + Delay
      <3>1. apart'[c] \in 0 .. Cap
        BY <1>1 DEF Tick, Count
      <3> QED
        BY <1>a, <2>1, <2>3, <3>1
    <2> QED
      BY <2>4, <2>5, <2>6, <2>7
  <1>2. ASSUME NEW d \in Conn, Connect(d), m_nLinkStatus = "DISCONNECT" PROVE AloneInv(c)'
    BY <1>a, <1>2 DEF Connect
  <1>3. CASE AppConnect
    BY <1>a, <1>2, <1>3 DEF AppConnect
  <1>4. CASE HbConnect
    BY <1>a, <1>2, <1>4 DEF HbConnect, Awake
  <1>5. CASE HbBeat
    BY <1>a, <1>5 DEF HbBeat, Awake, Heard
  <1>6. CASE HbTimeout \/ HbJoin \/ \E a \in 0 .. Delay : HandleHB(a)
    BY <1>a, <1>6 DEF HbTimeout, HbJoin, HandleHB, Awake
  <1>7. CASE Server
    BY <1>a, <1>7 DEF Server, Sweep, Accept, IORecvFails, IORecv
  <1>8. CASE Faults
    BY <1>a, <1>8 DEF Faults, LosePlace, ClientDies, ServerDies, ServerStarts, Cut
  <1> QED
    BY <1>1, <1>3, <1>4, <1>5, <1>6, <1>7, <1>8 DEF Next, Client

\* What the beats and answers that are under way keep young, for one connection c.
LEMMA BeatStep ==
  ASSUME TypeOK, DueInv, UnderWayInv, StampInv, ConnInv, Next, NEW c \in Conn
  PROVE  BeatInv(c)'
  <1> USE ConstantFacts, ModesKeep DEF TypeOK, LinkTypeOK, TimeTypeOK, DueInv, UnderWayInv,
        Held, Linked, Heard, Period, client, server, network, stamps
  <1>a. BeatInv(c)
    BY DEF ConnInv
  <1>m. (Spaced' <=> Spaced) /\ Period' = Period
    BY DEF Spaced, Beating
  <1>s. slept \in Nat /\ Period \in Nat
    OBVIOUS
  <1>1. CASE Tick
    <2>1. session[c] # "none" => sage'[c] <= sage[c] + 1 /\ sage'[c] \in Nat
      BY <1>1, CountFacts DEF Tick
    <2>2. m_nLinkStatus = "CONNECT" => cage' <= cage + 1 /\ cage' \in Nat
      BY <1>1, CountFacts DEF Tick
    <2>3. /\ beats'[c] = {a + 1 : a \in beats[c]} /\ replies'[c] = {a + 1 : a \in replies[c]}
          /\ cut'[c] = cut[c] /\ session'[c] = session[c]
          /\ m_nLinkStatus' = m_nLinkStatus /\ conn' = conn
          /\ m_nLinkStatus = "CONNECT" /\ m_bIsHaveHB => slept' = slept + 1
      BY <1>1 DEF Tick
    <2>0. /\ Heard(c)' <=> Heard(c)
          /\ Linked(c)' <=> Linked(c)
          /\ Spaced' <=> Spaced
          /\ lost' <=> lost
      BY <1>1, <1>m DEF Tick
    <2> SUFFICES ASSUME Spaced, Linked(c), Heard(c) PROVE BeatInv(c)'
      BY <2>0 DEF BeatInv
    <2>4. beats'[c] = {} <=> beats[c] = {}
      BY <2>3
    <2>5. replies'[c] = {} <=> replies[c] = {}
      BY <2>3
    <2>6. /\ \A a \in beats[c] : a \in Nat /\ a + 1 \in beats'[c]
          /\ \A a \in replies[c] : a \in Nat /\ a + 1 \in replies'[c]
      BY <2>3
    <2>a. /\ session[c] = "backlog" => /\ beats[c] # {} /\ replies[c] = {}
                                       /\ slept <= sage[c] /\ cage <= slept
          /\ session[c] = "live" => \/ beats[c] = {} /\ sage[c] <= slept
                                    \/ \E a \in beats[c] : sage[c] <= a + Period
          /\ \/ lost
             \/ beats[c] = {} /\ replies[c] = {} /\ cage <= slept
             \/ replies[c] = {} /\ \E a \in beats[c] : cage <= a + Period
             \/ \E a \in replies[c] : cage <= a + Delay + Period
      BY <1>a DEF BeatInv
    <2>b. slept' = slept + 1 /\ slept \in Nat /\ sage[c] \in Nat /\ cage \in Nat
      BY <2>3 DEF Spaced, Beating
    <2>8. session[c] = "backlog" => /\ beats'[c] # {} /\ replies'[c] = {}
                                    /\ slept' <= sage'[c] /\ cage' <= slept'
      <3>1. session[c] = "backlog" => sage'[c] = sage[c] + 1
        <4> SUFFICES ASSUME session[c] = "backlog" PROVE sage'[c] = sage[c] + 1
          OBVIOUS
        <4>1. sage[c] \in 0 .. Cap /\ sage[c] < Cap
          BY DEF SweepTime
        <4>2. sage'[c] = Count(sage[c])
          BY <1>1 DEF Tick
        <4> QED
          BY <4>1, <4>2 DEF Count
      <3> QED
        BY <2>2, <2>4, <2>5, <2>a, <2>b, <3>1
    <2>7. session[c] = "live" => \/ beats'[c] = {} /\ sage'[c] <= slept'
                                 \/ \E a \in beats'[c] : sage'[c] <= a + Period'
      <3>1. CASE session[c] = "live" /\ \E a \in beats[c] : sage[c] <= a + Period
        <4>1. PICK a \in beats[c] : sage[c] <= a + Period
          BY <3>1
        <4>2. sage'[c] <= (a + 1) + Period'
          BY <2>1, <2>6, <3>1, <4>1
        <4> QED
          BY <2>6, <4>2
      <3> QED
        BY <2>1, <2>a, <2>b, <2>4, <3>1
    <2>9. \/ lost'
          \/ beats'[c] = {} /\ replies'[c] = {} /\ cage' <= slept'
          \/ replies'[c] = {} /\ \E a \in beats'[c] : cage' <= a + Period'
          \/ \E a \in replies'[c] : cage' <= a + Delay + Period'
      <3>1. CASE replies[c] = {} /\ \E a \in beats[c] : cage <= a + Period
        <4>1. PICK a \in beats[c] : cage <= a + Period
          BY <3>1
        <4>2. cage' <= (a + 1) + Period'
          BY <2>2, <2>6, <3>1, <4>1
        <4> QED
          BY <2>5, <2>6, <3>1, <4>2
      <3>2. CASE \E a \in replies[c] : cage <= a + Delay + Period
        <4>1. PICK a \in replies[c] : cage <= a + Delay + Period
          BY <3>2
        <4>2. cage' <= (a + 1) + Delay + Period'
          BY <2>2, <2>6, <4>1
        <4> QED
          BY <2>6, <4>2
      <3> QED
        BY <2>0, <2>2, <2>a, <2>b, <2>4, <2>5, <3>1, <3>2
    <2> QED
      BY <2>3, <2>7, <2>8, <2>9 DEF BeatInv
  <1>2. ASSUME NEW d \in Conn, Connect(d), m_nLinkStatus = "DISCONNECT",
               m_bIsHaveHB => slept' = 0
        PROVE  BeatInv(c)'
    <2>1. CASE d # c
      BY <1>2, <2>1 DEF Connect, BeatInv
    <2>2. CASE d = c
      <3> SUFFICES ASSUME Spaced' PROVE BeatInv(c)'
        BY DEF BeatInv
      <3>1. m_bIsHaveHB
        BY <1>m DEF Spaced, Beating
      <3>2. /\ session'[c] = "backlog" /\ beats'[c] = {0} /\ replies'[c] = {}
            /\ slept' = 0 /\ sage'[c] = 0 /\ cage' = 0
        BY <1>2, <2>2, <3>1 DEF Connect
      <3>3. 0 <= 0 + Period' /\ 0 \in beats'[c]
        BY <3>2
      <3> QED
        BY <3>2, <3>3 DEF BeatInv
    <2> QED
      BY <2>1, <2>2
  <1>3. CASE AppConnect
    BY <1>3, <1>m DEF AppConnect, Connect, BeatInv, Spaced, Beating
  <1>4. CASE HbConnect
    BY <1>a, <1>2, <1>4, <1>s DEF HbConnect, Awake, BeatInv
  <1>5. CASE HbBeat
    <2>1. CASE conn # c
      BY <1>5, <2>1 DEF HbBeat, BeatInv
    <2> SUFFICES ASSUME conn = c, Spaced, Heard(c) PROVE BeatInv(c)'
      BY <1>5, <1>m, <2>1 DEF HbBeat, BeatInv
    <2>2. /\ Linked(c) /\ slept >= m_nHeartBeatInterval /\ slept <= Period /\ slept' = 0
          /\ sage'[c] = sage[c] /\ cage' = cage /\ session'[c] = session[c]
          /\ replies'[c] = replies[c] /\ beats'[c] = beats[c] \cup {0} /\ lost' = lost
      BY <1>5 DEF HbBeat, Awake
    <2>3. m_nHeartBeatInterval > Delay
      BY DEF Spaced
    <2>4. beats[c] = {}
      <3> SUFFICES ASSUME NEW a \in beats[c] PROVE FALSE
        OBVIOUS
      <3>1. a = slept /\ a \in 0 .. Delay
        BY <2>2, <2>3
      <3> QED
        BY <2>2, <2>3, <3>1
    <2>5. session[c] = "live"
      BY <1>a, <2>2, <2>4 DEF BeatInv
    <2>6. sage[c] <= slept /\ (lost \/ replies[c] # {} \/ cage <= slept)
      BY <1>a, <2>2, <2>4, <2>5 DEF BeatInv
    <2>7. 0 \in beats'[c] /\ sage'[c] <= 0 + Period' /\ Period' = Period
      BY <2>2, <2>6
    <2>8. \/ lost'
          \/ replies'[c] = {} /\ cage' <= 0 + Period'
          \/ \E a \in replies'[c] : cage' <= a + Delay + Period'
      BY <1>a, <2>2, <2>4, <2>6, <2>7 DEF BeatInv
    <2> QED
      BY <2>2, <2>5, <2>7, <2>8 DEF BeatInv
  <1>6. CASE HbTimeout \/ HbJoin
    BY <1>a, <1>6, <1>m DEF HbTimeout, HbJoin, BeatInv
  <1>7. ASSUME NEW a \in 0 .. Delay, HandleHB(a) PROVE BeatInv(c)'
    <2> SUFFICES ASSUME Spaced, Linked(c), Heard(c) PROVE BeatInv(c)'
      BY <1>7, <1>m DEF HandleHB, BeatInv
    <2>1. /\ a \in replies[c] /\ beats'[c] = beats[c] /\ sage'[c] = sage[c]
          /\ slept' = slept /\ session'[c] = session[c] /\ (lost' <=> lost)
          /\ lost \/ cage' = 0
      BY <1>7 DEF HandleHB
    <2>2. session[c] = "live"
      BY <1>a, <2>1 DEF BeatInv
    <2>3. /\ \A b \in beats'[c] : 0 <= b + Period' /\ 0 <= b + Delay + Period'
          /\ \A b \in replies'[c] : 0 <= b + Delay + Period'
      BY <2>1, <1>7 DEF HandleHB
    <2>4. \/ lost'
          \/ beats'[c] = {} /\ replies'[c] = {} /\ cage' <= slept'
          \/ replies'[c] = {} /\ \E b \in beats'[c] : cage' <= b + Period'
          \/ \E b \in replies'[c] : cage' <= b + Delay + Period'
      BY <2>1, <2>3
    <2>5. \/ beats'[c] = {} /\ sage'[c] <= slept'
          \/ \E b \in beats'[c] : sage'[c] <= b + Period'
      BY <1>a, <1>m, <2>1, <2>2 DEF BeatInv
    <2> QED
      BY <2>1, <2>2, <2>4, <2>5 DEF BeatInv
  <1>8. CASE Sweep
    BY <1>a, <1>8, <1>m DEF Sweep, BeatInv
  <1>9. ASSUME NEW d \in Conn, Accept(d) PROVE BeatInv(c)'
    <2>1. CASE d # c
      BY <1>a, <1>9, <1>m, <2>1 DEF Accept, BeatInv
    <2> SUFFICES ASSUME d = c, Spaced, Linked(c), Heard(c) PROVE BeatInv(c)'
      BY <1>9, <1>m, <2>1 DEF Accept, BeatInv
    <2>2. /\ session[c] = "backlog" /\ session'[c] = "live" /\ sage'[c] = 0
          /\ replies'[c] = replies[c] /\ cage' = cage /\ slept' = slept /\ (lost' <=> lost)
          /\ beats'[c] \subseteq beats[c]
      BY <1>9 DEF Accept
    <2>3. replies[c] = {} /\ cage <= slept
      BY <1>a, <2>2 DEF BeatInv
    <2>4. \A a \in beats'[c] : 0 <= a + Period'
      BY <2>2
    <2>5. lost \/ beats'[c] = {} \/ \E a \in beats'[c] : cage <= a + Period
      BY <1>a, <2>2, <2>3 DEF BeatInv
    <2> QED
      BY <1>m, <2>2, <2>3, <2>4, <2>5 DEF BeatInv
  <1>10. ASSUME NEW d \in Conn, NEW a \in 0 .. Delay, IORecv(d, a) PROVE BeatInv(c)'
    <2>1. CASE d # c
      BY <1>a, <1>10, <1>m, <2>1 DEF IORecv, BeatInv
    <2> SUFFICES ASSUME d = c, Spaced, Linked(c), Heard(c) PROVE BeatInv(c)'
      BY <1>10, <1>m, <2>1 DEF IORecv, BeatInv
    <2>2. /\ session[c] = "live" /\ session'[c] = "live" /\ sage'[c] = 0 /\ a \in beats[c]
          /\ beats'[c] = beats[c] \ {a} /\ replies'[c] = replies[c] \cup {0}
          /\ cage' = cage /\ slept' = slept /\ (lost' <=> lost)
      BY <1>10 DEF IORecv, Spaced, Beating
    <2>3. beats'[c] = {}
      BY <2>2 DEF Spaced
    <2>4. \/ lost'
          \/ \E b \in replies'[c] : cage' <= b + Delay + Period'
      <3>1. CASE \E b \in beats[c] : cage <= b + Period
        <4>1. PICK b \in beats[c] : cage <= b + Period
          BY <3>1
        <4>2. b \in 0 .. Delay /\ Period' = Period /\ cage \in Nat /\ Period \in Nat
          BY <1>m
        <4>3. cage' <= 0 + Delay + Period' /\ 0 \in replies'[c]
          BY <2>2, <4>1, <4>2
        <4> QED
          BY <4>3
      <3> QED
        BY <1>a, <1>m, <2>2, <3>1 DEF BeatInv
    <2> QED
      BY <2>2, <2>3, <2>4 DEF BeatInv
  <1>11. ASSUME NEW d \in Conn, IORecvFails(d) PROVE BeatInv(c)'
    BY <1>a, <1>11, <1>m DEF IORecvFails, BeatInv
  <1>12. CASE ClientDies \/ ServerDies \/ ServerStarts \/ \E d \in Conn : Cut(d)
    BY <1>a, <1>12, <1>m DEF ClientDies, ServerDies, ServerStarts, Cut, BeatInv
  <1>13. CASE LosePlace
    BY <1>a, <1>13, <1>m DEF LosePlace, BeatInv
  <1> QED
    BY <1>1, <1>3, <1>4, <1>5, <1>6, <1>7, <1>8, <1>9, <1>10, <1>11, <1>12, <1>13
    DEF Next, Client, Server, Faults

\* How old a starved session, and its stamp, is at most.
LEMMA StarvedBound ==
  ASSUME TypeOK, DueInv, UnderWayInv, StampInv, NEW c \in Conn, StarvedInv(c), Starved, Held(c)
  PROVE  life[c] <= SweepTime + Delay /\ sage[c] <= SweepTime + Delay
  <1> USE ConstantFacts DEF TypeOK, LinkTypeOK, TimeTypeOK
  <1>1. sage[c] \in 0 .. Cap /\ life[c] \in 0 .. Cap /\ napped \in Nat
    OBVIOUS
  <1>2. CASE session[c] \in {"live", "deaf"}
    <2>1. sage[c] <= HEARTBEAT_TIMEOUT + napped /\ napped <= SweepSleep + Lag
          /\ life[c] <= sage[c] + Delay
      BY <1>2 DEF StampInv, DueInv, StarvedInv
    <2> QED
      BY ONLY <1>1, <2>1, ConstantFacts, LinkTypeOK DEF SweepTime
  <1>3. CASE session[c] = "backlog"
    <2>1. sage[c] <= Delay /\ life[c] = sage[c]
      BY <1>3 DEF UnderWayInv, StarvedInv
    <2> QED
      BY ONLY <1>1, <2>1, ConstantFacts, LinkTypeOK
  <1> QED
    BY <1>2, <1>3 DEF Held, LinkTypeOK

\* A starved session's age stays with its stamp's.
LEMMA StarvedStep ==
  ASSUME TypeOK, DueInv, UnderWayInv, StampInv, ConnInv, Next, NEW c \in Conn
  PROVE  StarvedInv(c)'
  <1> USE ConstantFacts, ModesKeep DEF TypeOK, LinkTypeOK, TimeTypeOK, DueInv, UnderWayInv,
        StampInv, StarvedInv, Held, Linked, Starved, Beating, SweepTime,
        client, server, network, stamps
  <1>a. StarvedInv(c)
    BY DEF ConnInv
  <1>1. CASE Tick
    <2>1. /\ (Held(c)' <=> Held(c)) /\ (Linked(c)' <=> Linked(c)) /\ session'[c] = session[c]
          /\ beats'[c] = {a + 1 : a \in beats[c]}
          /\ Beating /\ Linked(c) => slept' = slept + 1
      BY <1>1 DEF Tick
    <2> SUFFICES ASSUME Starved, Held(c) PROVE StarvedInv(c)'
      BY <2>1
    <2>2. sage[c] \in 0 .. Cap /\ life[c] \in 0 .. Cap /\ sage[c] \in Nat /\ life[c] \in Nat
      BY ConstantFacts
    <2>3. sage'[c] = sage[c] + 1 /\ life'[c] = life[c] + 1
      <3>1. life[c] <= sage[c] + Delay /\ life[c] <= SweepTime + Delay
            /\ sage[c] <= SweepTime + Delay
        BY <1>a, StarvedBound
      <3>2. sage[c] < Cap /\ life[c] < Cap
        BY ONLY <2>2, <3>1, ConstantFacts, LinkTypeOK
      <3>3. sage'[c] = Count(sage[c]) /\ life'[c] = Count(life[c])
        BY <1>1 DEF Tick
      <3> QED
        BY ONLY <3>2, <3>3 DEF Count
    <2>4. Beating => \A b \in beats'[c] : life'[c] <= b
      <3> SUFFICES ASSUME Beating, NEW b \in beats'[c] PROVE life'[c] <= b
        OBVIOUS
      <3>1. PICK a \in beats[c] : b = a + 1
        BY <2>1
      <3>2. life[c] <= a /\ a \in Nat
        BY <1>a
      <3> QED
        BY <2>2, <2>3, <3>1, <3>2
    <2>5. /\ session[c] = "backlog" => life'[c] = sage'[c]
          /\ life'[c] <= sage'[c] + Delay
          /\ ~Beating => life'[c] = sage'[c]
      BY <1>a, <2>2, <2>3
    <2>6. Beating /\ Linked(c) =>
            slept' <= life'[c] + Delay /\ (session[c] = "backlog" => slept' <= sage'[c])
      BY <1>a, <2>1, <2>2, <2>3
    <2>7. Beating' <=> Beating
      OBVIOUS
    <2> QED
      BY <2>1, <2>4, <2>5, <2>6, <2>7
  <1>2. ASSUME NEW d \in Conn, Connect(d), m_nLinkStatus = "DISCONNECT", m_bIsHaveHB => slept' = 0
        PROVE  StarvedInv(c)'
    BY <1>a, <1>2 DEF Connect
  <1>3. CASE AppConnect
    BY <1>a, <1>2, <1>3 DEF AppConnect
  <1>4. CASE HbConnect
    BY <1>a, <1>2, <1>4 DEF HbConnect, Awake
  <1>5. CASE HbBeat
    BY <1>a, <1>5 DEF HbBeat, Awake
  <1>6. CASE HbTimeout \/ HbJoin \/ \E a \in 0 .. Delay : HandleHB(a)
    BY <1>a, <1>6 DEF HbTimeout, HbJoin, HandleHB, Awake
  <1>7. CASE Server
    BY <1>a, <1>7 DEF Server, Sweep, Accept, IORecvFails, IORecv
  <1>8. CASE Faults
    BY <1>a, <1>8 DEF Faults, LosePlace, ClientDies, ServerDies, ServerStarts, Cut
  <1> QED
    BY <1>1, <1>3, <1>4, <1>5, <1>6, <1>7, <1>8 DEF Next, Client

\* The invariant speaks of the variables only.
LEMMA LinkInvStutter == ASSUME LinkInv, UNCHANGED vars PROVE LinkInv'
  <1> USE DEF vars, modes, client, server, network, stamps, Held, Linked
  <1>1. TypeOK' /\ DueInv' /\ UnderWayInv' /\ StampInv'
    BY DEF LinkInv, TypeOK, LinkTypeOK, TimeTypeOK, DueInv, UnderWayInv, StampInv
  <1>2. ConnInv'
    BY DEF LinkInv, ConnInv, AloneInv, BeatInv, StarvedInv, Starved, Beating, Spaced, Heard, Period
  <1> QED
    BY <1>1, <1>2 DEF LinkInv

-----------------------------------------------------------------------------

\* However long the threads sleep and the network takes, within Lag and Delay, no
\* time stamp gets older than LinkInv says (TcpClient_KeepSessionAlive,
\* TcpSession_IORecv and TcpSessionMgr_HeartbeatDetection, for every time-out).
THEOREM Invariance == Spec => []LinkInv
  <1>1. Init => LinkInv
    <2> SUFFICES ASSUME Init PROVE LinkInv
      OBVIOUS
    <2>1. LinkTypeOK
      <3>1. talks \in BOOLEAN
        BY Zenon DEF Init
      <3>2. /\ m_bIsHaveHead \in BOOLEAN /\ m_bIsHaveHB \in BOOLEAN
            /\ m_nHeartBeatInterval \in Interval
            /\ m_nLinkStatus = "DISCONNECT" /\ conn = 0 /\ lost = FALSE /\ up = TRUE
            /\ cpc = "sleep" \/ cpc = "create"
            /\ session = [c \in Conn |-> "none"] /\ cut = [c \in Conn |-> FALSE]
        BY Zenon DEF Init
      <3>3. conn \in 0 .. MaxConn
        BY ONLY <3>2, LinkAssumption
      <3> QED
        BY ONLY <3>1, <3>2, <3>3, Zenon DEF LinkTypeOK, CPC
    <2>2. TypeOK /\ DueInv /\ UnderWayInv /\ StampInv
      BY <2>1, ConstantFacts
      DEF Init, TypeOK, TimeTypeOK, DueInv, UnderWayInv, StampInv, Held, Linked
    <2>3. ConnInv
      BY DEF Init, ConnInv, AloneInv, BeatInv, StarvedInv, Held, Linked
    <2> QED
      BY <2>2, <2>3 DEF LinkInv
  <1>2. LinkInv /\ [Next]_vars => LinkInv'
    <2> SUFFICES ASSUME LinkInv, Next PROVE LinkInv'
      BY LinkInvStutter
    <2>1. TypeOK' /\ DueInv' /\ UnderWayInv' /\ StampInv'
      BY LinkTypeStep, TimeTypeStep, DueStep, UnderWayStep, StampStep DEF LinkInv, TypeOK
    <2>2. ASSUME NEW c \in Conn PROVE AloneInv(c)' /\ BeatInv(c)' /\ StarvedInv(c)'
      BY <2>2, AloneStep, BeatStep, StarvedStep DEF LinkInv
    <2>3. ConnInv'
      BY <2>2 DEF ConnInv, Conn
    <2> QED
      BY <2>1, <2>3 DEF LinkInv
  <1> QED
    BY <1>1, <1>2, PTL DEF Spec

\* Neither end keeps a connection the other has given up, or lost, for longer than
\* its own time-out, its own sleep and what was under way.
THEOREM EndsAgreeSoon == Spec => []HalfOpenBounded
  <1>1. LinkInv => HalfOpenBounded
    <2> SUFFICES ASSUME LinkInv, NEW c \in Conn
                 PROVE  /\ Held(c) /\ ~Linked(c) => apart[c] <= SweepTime + Delay
                        /\ Linked(c) /\ ~Held(c) /\ m_bIsHaveHB =>
                             apart[c] < HEARTBEAT_TIMEOUT + m_nHeartBeatInterval + Lag + Delay
      BY DEF HalfOpenBounded
    <2> USE ConstantFacts DEF LinkInv, TypeOK, LinkTypeOK, TimeTypeOK, ConnInv, AloneInv
    <2>1. CASE Held(c)
      BY <2>1 DEF StampInv, DueInv, UnderWayInv, SweepTime, Held
    <2>2. CASE Linked(c) /\ ~Held(c)
      BY <2>2 DEF StampInv, DueInv, Linked
    <2> QED
      BY <2>1, <2>2
  <1> QED
    BY <1>1, Invariance, PTL

\* A session without heartbeats, or whose client beats too rarely, is over soon
\* after it was made, whatever its client sends.
THEOREM StarvedIsSweptAlways == Spec => []StarvedIsSwept
  <1>1. LinkInv => StarvedIsSwept
    <2> SUFFICES ASSUME LinkInv, Starved, NEW c \in Conn, Held(c)
                 PROVE  life[c] <= SweepTime + Delay
      BY DEF StarvedIsSwept
    <2> QED
      BY StarvedBound DEF LinkInv, ConnInv
  <1> QED
    BY <1>1, Invariance, PTL

\* A client whose beats are in time for both ends loses its connection only to
\* the network, or to the end of a process, unless its own data has made the
\* server deaf; and the client ends it itself only when it has lost its place.
THEOREM BeatingKeepsLink == Spec => LinkStays
  <1>1. ASSUME LinkInv, [Next]_vars, NEW c \in Conn, Held(c), Linked(c), ~Deaf(c), ~cut'[c],
               up', cpc' # "gone"
        PROVE  /\ InTimeForServer /\ Linked(c)' => Held(c)'
               /\ InTimeForClient /\ ~lost => Linked(c)'
    <2> USE ConstantFacts DEF LinkInv, TypeOK, LinkTypeOK, TimeTypeOK
    <2>1. ~cut[c]
      BY <1>1 DEF Next, Tick, Client, AppConnect, HbConnect, Connect, HbBeat, HbTimeout, HbJoin,
        HandleHB, Server, Sweep, Accept, IORecvFails, IORecv, Faults, LosePlace, ClientDies,
        ServerDies, ServerStarts, Cut, Linked, Held, vars, modes, client, server, network, stamps,
        DueInv
    <2>2. Spaced => Heard(c)
      BY <1>1, <2>1 DEF Spaced, Heard, Held, UnderWayInv, Deaf
    <2>3. InTimeForServer => ~(session[c] \in {"live", "deaf"} /\ IsHeartbeatTimeOut(c))
      <3> SUFFICES ASSUME InTimeForServer, session[c] \in {"live", "deaf"}
                   PROVE  ~IsHeartbeatTimeOut(c)
        OBVIOUS
      <3>1. Heard(c) /\ session[c] = "live" /\ Spaced
        BY <2>2 DEF InTimeForServer, Heard
      <3>2. \/ sage[c] <= slept
            \/ \E a \in beats[c] : sage[c] <= a + Period
        BY <1>1, <3>1 DEF ConnInv, BeatInv
      <3>3. slept <= Period
        BY <1>1, <3>1 DEF DueInv, Spaced, Beating, Linked, Period
      <3>4. sage[c] <= Delay + Period
        BY <1>1, <3>2, <3>3 DEF Period
      <3> QED
        BY <1>1, <3>4 DEF InTimeForServer, Period, IsHeartbeatTimeOut
    <2>4. InTimeForClient /\ ~lost => ~SessionTimeout
      <3> SUFFICES ASSUME InTimeForClient, ~lost PROVE ~SessionTimeout
        OBVIOUS
      <3>1. Heard(c) /\ Spaced
        BY <2>2 DEF InTimeForClient
      <3>2. \/ cage <= slept
            \/ \E a \in beats[c] : cage <= a + Period
            \/ \E a \in replies[c] : cage <= a + Delay + Period
        BY <1>1, <3>1 DEF ConnInv, BeatInv
      <3>3. slept <= Period
        BY <1>1, <3>1 DEF DueInv, Spaced, Beating, Linked, Period
      <3>4. cage <= 2 * Delay + Period
        BY <1>1, <3>2, <3>3 DEF Period
      <3> QED
        BY <1>1, <3>4 DEF InTimeForClient, Period, SessionTimeout
    <2>5. InTimeForServer /\ Linked(c)' => Held(c)'
      BY <1>1, <2>3 DEF Next, Tick, Client, AppConnect, HbConnect, Connect, HbBeat, HbTimeout,
        HbJoin, HandleHB, Server, Sweep, Accept, IORecvFails, IORecv, Faults, LosePlace,
        ClientDies, ServerDies, ServerStarts, Cut, Linked, Held, vars, modes, client, server,
        network, stamps, DueInv, Awake
    <2>6. InTimeForClient /\ ~lost => Linked(c)'
      BY <1>1, <2>4 DEF Next, Tick, Client, AppConnect, HbConnect, Connect, HbBeat, HbTimeout,
        HbJoin, HandleHB, Server, Sweep, Accept, IORecvFails, IORecv, Faults, LosePlace,
        ClientDies, ServerDies, ServerStarts, Cut, Linked, Held, vars, modes, client, server,
        network, stamps, DueInv, Awake
    <2> QED
      BY <2>5, <2>6
  <1>2. LinkInv /\ [Next]_vars =>
          \A c \in Conn :
            Held(c) /\ Linked(c) /\ ~Deaf(c) =>
              \/ cut'[c] \/ ~up' \/ cpc' = "gone"
              \/ /\ InTimeForServer /\ Linked(c)' => Held(c)'
                 /\ InTimeForClient /\ ~lost => Linked(c)'
    BY <1>1
  <1> QED
    BY <1>2, Invariance, PTL DEF Spec, LinkStays
=============================================================================

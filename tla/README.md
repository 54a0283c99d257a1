# TransPortEngine in TLA+

TransPortEngine is a C++ TCP engine: a server that accepts connections and hands their data to
the application's `ITransPortEngineRecv`, and a client. On Linux it works with epoll, on
Windows with I/O completion ports. This directory holds TLA+ models of the Linux server, of
the Linux client, of how both ends take messages out of the stream and put them into it, of
the two time-outs of a connection against each other, and of how servers are made and
destroyed on Linux and on Windows; TLC configurations that check them; and proofs that hold
for every number of connections, descriptors, modules, threads, servers and reconnects, for
every choice of the times, and however a stream is cut.

Source paths below are relative to `src/TransPortEngineSdk/`.

## 1. Inventory

| Component | State | Operations | Talks to |
|---|---|---|---|
| SDK interface (`TransPortEngineSdk.cpp`) | none | Create/DestroyServer, ServerSendData, ServerSendTo, Create/DestroyClient, ClientSendData | `CAcceptSession`, `CTcpSession`, `CTcpClient` |
| `CAcceptSession` | listening socket, accept epoll, `m_nAcceptIndex`, `m_bAcceptThreadFlag`, the two managers | Init, Fini, Accept (a thread), SendData | all of the server |
| `CTcpSessionMgr` | `m_TcpSessions` (descriptor to session), its lock, `m_bIsHeartbeat` | Add/Del/FindSession, HeartbeatDetection (a thread), Fini | sessions; the module manager, in a sweep |
| `CNetEventModleMgr` | `m_NetEventModles`, its lock | Init, FindModle, Fini (Add/DelModle are unused) | the modules |
| `CNetEventModleEpoll` | its epoll, its threads and their `bWorkThreadFlag` | Add/Mod/DelEvent, HandleData (threads), Fini | sessions; the session manager |
| `CTcpSession` | descriptor, heartbeat time stamp, message parser, buffers | Init, Fini, IORecv, IOSend, SendData | its module (ModEvent); the application (callbacks) |
| `CTcpClient` | socket, link status, message parser, two flags | connect, Recvfrom (a thread), KeepSessionAlive (a thread), SendData, SocketUnit | the application |
| `CNetEventModleIOCP` | its completion port, its threads and their `bWorkThreadFlag` | Init, HandleData (threads), Fini: the Windows counterpart of the epoll module | the session manager |
| `CSSAutoLock`/`CCritSec` | a mutex | scope lock | everyone |

`BtlByteStream.h` and `CNetDataInitialHandle` are not used by the engine.

**Interaction.** The accept thread makes a session, which announces CONNECT,
enters it in the map, registers it with a module's epoll and arms it. From then on
the module's workers read it and call the application back. The heartbeat thread
sweeps the map every ten seconds and finishes and deletes the sessions whose time
stamp is older than twenty. DestroyServer joins the accept thread, the workers and
the heartbeat thread, in this order, and then deletes the sessions left. The
session is a bare pointer: in the map, in the epoll registration, in the locals of
the accept thread, of workers, of the sweep, and of application threads.

A client without heartbeats connects once, in CreateClient, and makes one receive
thread. With heartbeats CreateClient only makes the heartbeat thread, which connects,
makes the receive thread, sends heartbeats, and when none has been answered for
HEARTBEAT_TIMEOUT announces DISCONNECT, closes the socket, joins the receive thread and
starts again. DestroyClient joins the heartbeat thread, then the receive thread, and
closes the socket.

CreateServer makes the listening socket, the heartbeat thread, the modules with their
workers, and last the accept thread. When a step fails it deletes the `CAcceptSession`
and leaves the rest as it is.

On Windows the accept loop posts AcceptEx with room for no data, so that every completion
carries 0 bytes, which the loop takes for a closed connection
(`CAcceptSession.cpp:451-455`): it closes what it has just accepted. A Windows server has
threads, then, but never a session.

**What is hard, and what makes each component correct.**

* Ids are descriptors and descriptors are reused. Two connected sessions must never
  share one (`IdUnique`), the map must never lead to a dead or a foreign object
  (`RegistryConsistent`), a connected session owns its descriptor
  (`ConnectedOwnsSocket`).
* Three places tear a session down: the accept thread's undo, the sweep, and
  DestroyServer. None may leak one (`NoneLeaked`), announce it twice
  (`NotifyOnce`), or work on one that is gone (`EngineSafe`, `WorkerSafe`).
* One-shot, edge-triggered registrations: one worker per session (`OneHandler`), no
  lost wakeup (`DataDelivered`).
* Shutdown: it comes back (`DestroyReturns`) and leaves nothing (`DestroyedClean`).
* The end of a connection reaches the application (`DisconnectNotified`).
* A reconnecting client goes on with the same socket, thread and flag variables and the
  same parser, and its two threads and DestroyClient share them without a lock. There
  must never be two receive threads (`OneReceiver`), whoever ends a connection joins a
  thread that is there (`JoinsStarted`), a deleted client has no thread
  (`GoneIsQuiet`) and no connection left (`NoConnectionLeft`), a lost server is noticed
  (`LossNoticed`) unless SIGPIPE ends the process first, and no head reaches the
  application as data (`BodiesOnly`) as long as no connection ended inside a message. What
  the parser keeps of a message outlives the connection. What the application is told makes
  sense over the reconnects (`ImplementsClientEvents`), but for the beginning of such a
  message.
* The stream is cut anywhere, and written by several threads in loops: messages are put
  together again exactly (`ParsedExactly`, `ClientDelivers`), and have their effects in the
  order they were sent (`ImplementsMessageEvents`).
* Each end of a connection has a time-out of its own. A connection on which heartbeats and
  answers come in time, and one at a time, stays (`LinkStays`), unless the client's own data
  has ended the server's reading, or the client has lost its place in the stream; when one end
  has given it up, or died, or the network has failed, the other does not keep it for long
  (`HalfOpenBounded`).
* Servers are made and destroyed one after the other, and any step of making one may
  fail. No thread outlives what it uses (`NoneOutlives`), and what can go wrong is known
  (`FaultsKnown`).

All hazards, with their lines, are listed in `PROJECT.json`.

## 2. Modules

| Module | Contents |
|---|---|
| `SessionEvents` | What an application may rely on, as a specification of its own: CONNECT once under a fresh id, data only while connected, DISCONNECT at most once. |
| `EpollServer` | The Linux server: all its threads, the kernel's epoll and descriptors, the peers. Properties, and the refinement mapping to `SessionEvents`. |
| `EpollServerInv` | The inductive invariants of `EpollServer`. |
| `EpollServer_proofs` | The theorems about the lives of `EpollServer`'s sessions and about its workers. |
| `EpollServerEvents_proofs` | The theorems about what the application gets from `EpollServer`: `SessionEvents`, the order of data, a clean end. |
| `MC_EpollServer` | Symmetry for TLC. |
| `ClientEvents` | What an application may rely on that is given to a client: CONNECT and DISCONNECT alternate, data is of the connection announced last. |
| `TcpClient` | The Linux client: the application's thread, the heartbeat thread, the receive threads, the peers. Properties, the inductive invariant, and the refinement mapping to `ClientEvents`. |
| `TcpClient_proofs` | The theorems about `TcpClient`. |
| `MessageEvents` | What one end gets of the messages the other sends: each once, whole, and in the order they were sent, heartbeats among the data. |
| `FrameRecv` | Messages with heads: the parsers of the server (`CTcpSession::TcpSession_IORecv`) and of the client (`CTcpClient::TcpClient_Recvfrom`), and the write loop of the server (`TcpSession_IOSend`). Properties, the inductive invariant, and the refinement mapping to `MessageEvents`. |
| `SequenceLemmas` | What FlattenSeq, SetToSeq, `\o` and SubSeq do, and induction on natural numbers, as lemmas for every sequence. |
| `FrameRecv_proofs` | The theorems about `FrameRecv`'s invariants. |
| `FrameRecvEvents_proofs` | The theorem that `FrameRecv` implements `MessageEvents`. |
| `HeartbeatLink` | One client's heartbeats and the server's sweep by the clock, with networks that fail and processes that end. |
| `HeartbeatLink_proofs` | The theorems about `HeartbeatLink`. |
| `ServerThreads` | CreateServer with its failures, the threads a server has, and DestroyServer, on Linux and on Windows. |
| `ServerThreads_proofs` | The theorems about `ServerThreads`. |

The modules divide the system by question. `EpollServer` starts where CreateServer has
returned and follows one server's sessions; `ServerThreads` has no sessions and follows
the threads over several servers. `EpollServer` and `TcpClient` count sleeps, or let time
pass at will, where what matters is the order of steps; `HeartbeatLink` has no steps
between two sleeps and counts seconds. `FrameRecv` follows one connection, whose messages
have all lengths, to its end; `TcpClient` cuts shorter messages into pieces over several
connections, because what one leaves unfinished is the next one's problem.

### EpollServer

A `Session` is a connection together with the `CTcpSession` made for it; a `Socket`
is a descriptor. One action is what a thread does from one point where another
thread can interfere to the next.

| State | Code |
|---|---|
| `peer`, `sent`, `nread`, `conn`, `watch` | the peers; the kernel's receive buffers, descriptor table and epoll registrations (`armed`, or `disarmed` by EPOLLONESHOT) |
| `mem`, `m_nSocket`, `modle`, `stale` | a `CTcpSession`: allocated or deleted, its descriptor, its module, and whether its time stamp is older than HEARTBEAT_TIMEOUT |
| `m_TcpSessions`, `m_TcpSessionMgrLock` | `CTcpSessionMgr` |
| `m_NetEventModleLock`, `modles` | `CNetEventModleMgr`, and whether it still exists |
| `apc`, `asess`, `asock`, `m_nAcceptIndex` | the accept thread |
| `wpc`, `wtodo`, `wsess`, `wchunk` | the workers: the events fetched, the session in hand, the segment read |
| `hpc`, `hvisit`, `hsess` | the heartbeat thread |
| `ppc`, `psess` | an application thread in ServerSendData |
| `dpc` | the thread in DestroyServer |
| `notices`, `delivered`, `doubled`, `fault` | history: callbacks made, whether the accept thread's re-arm found a worker at the session, undefined behaviour |

| Actions | Code |
|---|---|
| `AcceptTop` .. `AcceptIORecv`, `AcceptUndo...` | `CAcceptSession.cpp:267-372` with the calls it makes |
| `WorkerTop`, `WorkerTimeout`, `WorkerFetch`, `WorkerDispatch`, `WorkerFail` | `CNetEventModleEpoll.cpp:140-260` |
| `WorkerRead`, `WorkerHandle`, `WorkerRearm` | `CTcpSession.cpp:284-427` |
| `Hb...` | `CTcpSessionMgr.cpp:167-232`; `HbNotify`, `HbClose`, `HbClear` are the three steps of `TcpSession_Fini` |
| `AppFindSession`, `AppIOSend` | `CAcceptSession.cpp:607-620` |
| `Destroy...` | `CAcceptSession.cpp:231-265`, `CNetEventModleMgr.cpp:105-132`, `CNetEventModleEpoll.cpp:71-91`, `CTcpSessionMgr.cpp:82-112` |

* *Locks.* A scope no other thread can be seen to interrupt is a guard (the lock is
  free) on one action. The two locks that are kept from step to step, by the sweep
  and by the two Fini loops, are variables.
* *Undefined behaviour.* A thread about to use a deleted session, or a descriptor
  that belongs to another connection by now, sets `fault`; nothing is claimed of
  what follows. So does the sweep when the module manager is gone.
* *The worker's teardown.* `HandleData` looks an ended session up under `data.fd`,
  the low half of the pointer stored over it in `data.ptr`. On the 64-bit Linux the
  Makefile builds for that is not a descriptor the map could hold, so `WorkerFail`
  finds nothing and moves on.
* *Abstractions.* A segment is its number. In head mode `WorkerHandle` lets a
  segment be delivered, be a heartbeat, be kept or be refused; `FrameRecv` says
  which. Sending changes no state the properties see and is one step; its loop is
  `FrameRecv`'s. The EPOLLOUT
  branch is left out: it needs `m_SendBufs` nonempty, and `IOSend` returns only when
  everything is written. `operator new` does not fail.

### FrameRecv

One connection, read by the server or by the client (`end`). A message is `HeadLen`
units of head and a body; a read returns any nonempty part of what has not been read,
up to the server's buffer, or up to what the client asks for. `Lacks` is the
difference both parsers compare with. Bodies larger than the client's buffer, a
non-zero salt and unknown types are outside the model, as the SDK sends none of the
last two.

The client sends a message with one `send` of a blocking socket (`PeerSend`). The server's
threads (`Sender`) write in a loop, as much as there is room for, and several may be in it
for one session. `SendData` is the path of ServerSendTo and of the answer to a heartbeat,
which puts a head in front (`CTcpSession.cpp:591-610`). ServerSendData takes another one: it
writes what it is given without a head (`SendRaw`), in a server that works with heads as
well. `writing` is what each thread has left; `mixed` says that a thread wrote while another
was half way through a message, which the code does not prevent, or that something without a
head was written. What the client makes of such a stream is arbitrary bytes taken for heads,
and is not followed: `ParsedExactly`, `ClientDelivers` and the refinement say what is so
until then.

| Actions | Code |
|---|---|
| `PeerSend` | `CTcpClient.cpp:234-254` |
| `SendData`, `IOSend`, `Write` | `CTcpSession.cpp:591-631` |
| `SendRaw` | `CAcceptSession.cpp:607-620` |
| `ServerRecv...`, `ServerRefuses...` | `CTcpSession.cpp:284-420` |
| `ClientRecv...` | `CTcpClient.cpp:270-400` |

`MessageEvents` is mapped to this without history variables: what was sent is `DataBodies`,
`Heartbeats` and `After` (the heartbeats before each body) of all of `sent`; received,
counted and answered are `delivered`, `refreshed` and `replied`. A server answers a heartbeat
at its head and counts it at the end of its body (`TcpSession_IORecv`), so an answer may come
before the count; a client only counts.

### TcpClient

One process's client over all its connections. A `Sock` is a socket it created, the
receive thread made for it, and its other end; `MaxSock` bounds them. A descriptor is
never used twice, as only this client's sockets are in the model. Both modes
(`bIsHaveHB`, `bIsHaveHead`) are chosen in `Init`, so a run covers all four clients.

| State | Code |
|---|---|
| `m_bIsHaveHB`, `m_bIsHaveHead`, `m_bHeartbeatFlag`, `m_bRecvFlag`, `m_nLinkStatus`, `m_nSocket`, `m_tRecvThread` | the members of `CTcpClient` |
| `m_bIsRecvHead`, `m_nMsgType`, `m_nNeedRecvDataLen`, `m_RecvBufs` | its parser, with the bytes kept of an unfinished head or body |
| `age` | how old `m_tHeartbeatTimeStamp` is, in sleeps of the heartbeat thread |
| `apc`, `hpc`, `rpc`, `reading`, `joined` | where each thread is, the socket inside recv, the threads that have been joined |
| `sock`, `peer`, `wire`, `asked`, `nsent` | the kernel's sockets and what has arrived; the other ends, up, at the end of their stream (`closed`), silent (`lost`), or gone so that sending fails (`reset`) |
| `killed` | whether SIGPIPE has ended the process |
| `delivered`, `broken`, `noThread`, `fault` | history: units given to the application, threads that ended inside a message, a failed pthread_create, a join of a thread that is not there |

| Actions | Code |
|---|---|
| `AppStartHeartbeat`, `AppSocket`, `AppConnect`, `AppSpawn` | `CTcpClient.cpp:70-158`, called by `TransPortEngineSdk.cpp:89-105` |
| `AppSend`, `Send` | `CTcpClient.cpp:225-254`, called by `TransPortEngineSdk.cpp` for ClientSendData |
| `AppStopHeartbeat`, `AppJoinHeartbeat`, `AppStopRecv`, `AppJoinRecv`, `AppClose` | `CTcpClient.cpp:160-207`, called by `TransPortEngineSdk.cpp:107-119` |
| `Hb...` | `CTcpClient.cpp:428-545` |
| `RecvTest`, `RecvCall`, `RecvPiece`, `RecvEnd` | `CTcpClient.cpp:270-426` |
| `PeerReply`, `PeerSend`, `PeerEnds` | the server at the other end, which answers, sends, closes, or falls silent |

* *Pieces.* A heartbeat is `Size` units, a head is and so is a body. A recv returns any
  piece of what has arrived, up to what the head or body still lacks (`Missing`), and a
  connection may end after any unit. Nothing resets the parser on a reconnect
  (`CTcpClient.cpp:313-323`, `378-388`, `505-526`): `Leave` keeps `m_RecvBufs` and
  `m_bIsRecvHead`, and the next stream goes on there.
* *Misread heads.* A head put together from something else than one head says whatever its
  bytes happen to say (`Readings`): a heartbeat or data with a body of up to `MaxLen` units,
  or nothing the client knows. One that announces a body longer than the buffer of 1024
  bytes, or a negative one, makes recv write past the buffer's end; that is undefined and not
  followed.
* *SIGPIPE.* Every send is without MSG_NOSIGNAL, and no code here handles the signal. `Send`
  to an end that is gone may bring a reset; after that the next one kills the process
  (`killed`), or fails without effect, as it does when the application ignores the signal.
* *close and recv.* On Linux, closing a descriptor does not wake a thread that is
  inside recv on it. `CloseSocket` leaves such a thread where it is.
* *Joins.* pthread_join of a thread that was never made, or was joined before, sets
  `fault`; it returns or crashes the process. pthread_create reports failure by a
  positive number, which the code's `nRet < 0` takes for success (`noThread`).
* *Heartbeats.* Several unanswered ones count as one. Without heads the server
  answers none and the time stamp never moves.
* *Left out.* What ClientSendData sends, and the moment between a change of
  `m_nLinkStatus` and its notice.
* *ClientEvents.* The connection data may come from (`From`) is the socket of the receive
  thread while the status is CONNECT and while the heartbeat thread is on its way to join
  that thread: DISCONNECT is announced before the thread is stopped, so data may follow
  it. What the parser keeps of earlier connections (`Kept`) may reach the application once,
  in front of data of the connection it has now.

### HeartbeatLink

A client and a server that sweeps, second by second. Steps between two sleeps take no
time, up to `Lag`, by which a sleep may be longer than asked for; what one end sends
arrives within `Delay` and is handled. No clock is kept, only how long ago things
happened, each count stopping at `Cap` and starting again at 0 when what it counts is over.

| State | Code |
|---|---|
| `m_bIsHaveHead`, `m_bIsHaveHB`, `m_nHeartBeatInterval`, `talks` | how the server and the client are made, and whether the client's application sends messages besides the heartbeats |
| `m_nLinkStatus`, `conn`, `cpc`, `slept` | the client's status, its last connection, what its thread does and for how long it has slept |
| `lost` | whether the client's parser may have lost its place in the stream |
| `cage`, `sage` | the age of the client's and of the session's `m_tHeartbeatTimeStamp` |
| `up`, `napped` | the server's process, and the sweep's sleep |
| `session`, `life`, `apart` | the server's end of a connection (`deaf` when nobody reads it any more), its age if it gets no heartbeats in time (`Starved`), and for how long just one end has had the connection |
| `cut`, `beats`, `replies` | the network, and the heartbeats and answers under way |

| Actions | Code |
|---|---|
| `Tick` | a second |
| `AppConnect`, `HbConnect`, `HbBeat`, `HbTimeout`, `HbJoin`, `HandleHB` | the client: `CTcpClient.cpp:256-268`, `428-545`, `582-586` |
| `Accept`, `IORecv`, `IORecvFails`, `Sweep` | the server: `CAcceptSession.cpp:267-372`, `CTcpSession.cpp:284-401`, `806-813`, `CTcpSessionMgr.cpp:167-232` |
| `Cut`, `LosePlace`, `ClientDies`, `ServerDies`, `ServerStarts` | what fails |

* *Reading fails.* `TcpSession_IORecv` reads all there is and returns -1 when that is more
  than one head or one body (`CTcpSession.cpp:340-343`). It has not armed the descriptor again
  by then, and in a server that sweeps nobody ends the session: it is `deaf`, and the sweep
  takes it however well its client beats. `TooMuch` is when that can happen: two beats are
  read together, which needs an interval no longer than `Delay`, or the application sends as
  well, whose messages come together with their heads. A read that fails before the accept
  thread has armed the session a second time loses what it read, and the session reads on
  (`refused` in `Accept`).
* *The client loses its place* in the stream after bytes without a head, or after a connection
  that ended inside a message (`LosePlace`); it may then find heartbeats where there are none
  and overlook others.
* *Processes* end at any time, for any reason; SIGPIPE is one.
* *`HbJoin`* waits for the receive thread, which a close does not wake: on a dead network the
  client does not come back.

### ServerThreads

The application makes its servers one after the other, with any number of modules and
threads, with and without heartbeats, on a port that may be taken; `windows` is the build.
A thread is `none`, `failed` (pthread_create or _beginthread failed and nobody noticed),
at its flag (`run`), in its wait (`wait`), or `ended`.

| Actions | Code |
|---|---|
| `CreateServer`, `Fail` | `TransPortEngineSdk.cpp:27-40` |
| `CreateBind`, `CreateHeartbeat`, `CreateModle`, `CreateAccept` | `CAcceptSession.cpp:99-229`, `CTcpSessionMgr.cpp:54-80`, `CNetEventModleIOCP.cpp:29-62` |
| `HbThread`, `WorkerThread`, `AcceptThread` | `CTcpSessionMgr.cpp:167-175`, `CNetEventModleIOCP.cpp:117-153` and `CNetEventModleEpoll.cpp:140-148`, `CAcceptSession.cpp:385-458` and `267-278` |
| `DestroyServer`, `DestroyJoinAccept` | `CAcceptSession.cpp:231-253` |
| `DestroyStopWorker`, `DestroyJoinWorkers` | `CNetEventModleEpoll.cpp:71-91`, `CNetEventModleIOCP.cpp:64-85` |
| `DestroyStopHeartbeat`, `DestroyJoinHeartbeat` | `CTcpSessionMgr.cpp:82-96` |

* *Undefined behaviour* ends a behaviour: a read of what was deleted (`freed`), a join of a
  thread that was never made (`join`, on Linux; on Windows its handle stands for the process
  and the wait does not end), and the packet without an OVERLAPPED through which the Windows
  accept thread reads (`null`).
* *Packets.* IOCP_Fini clears a flag and posts a packet for each worker; any worker of the
  module may take it.

## 3. Runs

| Run | Instance | Shows |
|---|---|---|
| `lifecycle` | no heartbeat, 2 connections, 2 descriptors, 2 modules of 1 thread, 1 segment, AddEvent may fail | `EpollInv` (with `TypeOK`), `NoneLeaked`, `EngineSafe`, `DestroyedClean`, and that the server implements `SessionEvents` |
| `sweep` | heartbeat, 2 connections, 1 descriptor, 1 module of 1 thread, no data, AddEvent may fail, fair | `IdUnique`, `RegistryConsistent`, `NotifyOnce`, `ConnectedOwnsSocket`, `LifecycleInv`, `DisconnectNotified` |
| `delivery` | no heartbeat, 1 connection, 2 threads, 2 segments, fair | `HandlerInv`, `OneHandler`, `AtMostTwoHandlers`, `InOrder`, `DataDelivered`, `DestroyReturns` |
| `framing` | 3 messages, heads of 2 units, bodies up to 4, server buffer of 3, room for 3 units, 2 sending threads, fair | `FrameInv` (with `TypeOK`), `ParsedExactly`, `ClientLosesNothing`, that both ends implement `MessageEvents`, `OverrunIsFinal`, `ClientDelivers` |
| `client` | all four modes, 2 sockets, 1 data message per connection, heads and bodies of 2 units, 4 units on the wire, misread heads that announce up to 1, time-out after 1 sleep, fair | `OneReceiver`, `JoinsStarted`, `GoneIsQuiet`, `NoConnectionLeft`, `BodiesOnly`, `ClientInv`, that the client implements `ClientEvents`, `LossNoticed`, `ClosedConnectionEnds` |
| `heartbeat` | with and without heads and heartbeats, with and without data, 2 connections, time-out 6, sweep every 2, intervals 1, 2, 4 and 12, delay and lag 1 | `LinkInv`, `HalfOpenBounded`, `StarvedIsSwept`, `LinkStays` |
| `server` | Linux and Windows, 2 servers, up to 2 workers in 1 or 2 modules, fair | `ServerInv`, `NoneOutlives`, `FaultsKnown`, `DestroyReturns` |
| `disconnect_nohb` | no heartbeat, never destroyed, fair | *violated:* `CloseNotified` |
| `sweep_race` | heartbeat, never destroyed | *violated:* `WorkerSafe` |
| `shutdown_deadlock` | heartbeat, fair | *violated:* `DestroyReturns` |
| `framing_server` | one message | *violated:* `ServerTakesMessages` |
| `client_destroy` | 1 socket, no data, fair | *violated:* `DestroyClientReturns` |

**Bounds.** Two connections on one descriptor are what reuse of an id needs, and two are what
a wrong owner needs. The sweep run sends no data, because the sets it is about do not depend
on any: a peer that leaves makes all the events a worker needs to be at the session. Two
workers are what one-shot registrations are about; that even after a second arming no third is
ever at a session is proved (`TwoHandlersAtMost`), not checked. Two segments order each other.
Two modules, in `lifecycle`, are what a registration with the wrong module needs. In
`framing`, a head of two units can be cut, a read of three can hold a head and more, a body of
four is longer than a read, as bodies above 1024 bytes are, and room for three makes every
message longer than a head take several writes. Three messages let an error in one be seen in
the next but one, and two of them be written by one thread while another is at its own. In
`client`, two sockets are one reconnect, where everything left over from the first connection
shows; a head and a body of two units can each be cut inside, and four units on the wire are a
message or two heartbeats; a misread head that announces one unit makes the parser take part
of a head for a body. The time-out of one sleep, which is an interval of 20 seconds or more,
keeps the run small: an answer between two sleeps decides whether the connection stays. The
theorems about `TcpClient` are for every time-out. When the sockets are used up, reconnecting
fails, as when socket() fails, and a client may stay disconnected. In `heartbeat`, the four
intervals are one not longer than the delay, so that two beats can be read together, one in
time for both ends, one in time only for the server, and one the sweep never sees the second
beat of; two connections are one the client has given up and its next. The theorems are for
all times. In `server`, two servers are what a taken port and a thread left behind need; two
workers are one worker taking the other's packet, or one in each of two modules.

**Deadlock** is checked except in `sweep` and `shutdown_deadlock`, where the server
really can stop (finding 3), in the two `framing` runs, where a connection ends, in
the two `client` runs, where a client that was not made, or is gone, does nothing, and in
`server`, where the application need not make another server. In `heartbeat` it means that
time can always go on.

**Fairness.** Each thread is scheduled (weak fairness of each thread's steps, as the kernel
gives). A thread waiting for `m_TcpSessionMgrLock` gets it (strong fairness of those steps):
its holder sleeps ten seconds between two sweeps, so a waiter is not passed over for ever. A
session that gets no heartbeat becomes `stale` (time passes). Nothing is assumed of peers:
they need not send, close or connect. The client's application need not destroy it. In
`FrameRecv` the reading thread goes on while there is something to read, and a writing one
while there is room: both are loops that no peer or lock holds up. The liveness of the server
(`EpollServer`, `FrameRecv`) is that of a process that lives: its `write` to an end that is
gone may raise SIGPIPE as the client's `send` may, so it supposes that the application ignores
the signal. `TcpClient` does not suppose that. In `ServerThreads` every thread and the one in
DestroyServer go on; a worker that can take a packet gets one in the end, as the completion
port hands packets out in order. `HeartbeatLink` needs no fairness: its bounds are on time,
which may stop.

## 4. What is proved

`EpollServer_proofs` proves for all constants that satisfy `ConstantsAssumption`
(distinct null values, at least one module and thread):

* `TypeCorrect`: `Spec => []TypeOK`, one lemma over all actions. It needs that the
  remainder of the accept index names a module (`NextModleType`).
* `Lifecycle`: `Spec => []LifecycleInv`. The properties about ids, map and leaks are
  not inductive: that the map's entries are alive depends on the sweep erasing before
  it finishes, on the accept thread not having announced a session it inserts before
  it did, and on which thread holds which lock. `LifecycleInv` is the conjunction of
  what each place relies on: `LockInv` (who holds the session manager's lock),
  `RegistryInv` (entries), `SessionInv` (a connected session owns its descriptor and is
  in the map or in one thread's hands), `AcceptInv` and `SweepInv` (what the two
  threads know at each point of their code). From it follow `Ownership`, `IdsUnique`,
  `RegistryIsConsistent`, `NoSessionLeaks` and `NotifiedOnce`.
* `HandlersAgree`: `Spec => []HandlerInv`: an armed session is in
  nobody's hands (`ExclusiveInv`), one nobody has accepted is unknown to every epoll
  (`UnseenInv`), one that is being set up is held by nobody before AddEvent
  (`SetupInv`), and a worker has sessions only inside its loop (`WorkerInv`). From it
  `OneHandlerEach` and `TwoHandlersAtMost`.

`EpollServerEvents_proofs` builds on these two:

* `Invariance`: `Spec => []EpollInv`, which adds `UnsweptInv`, about a server without
  heartbeat detection. There an object lives from its CONNECT to its DISCONNECT and is in
  an epoll, with a worker or behind a descriptor only meanwhile (`SpanInv`), because
  the accept thread gives up a session only before AddEvent: the re-arm that follows finds
  it registered and does not fail (`UndoInv`). DestroyServer works on sessions only after
  the accept thread and the workers have ended (`StoppedInv`).
* From it, when `bIsHaveHB` is FALSE, `NoneUsedAfterFree` (`EngineSafe`),
  `NothingLeftBehind` (`DestroyedClean`) and `Refinement` (`ImplementsSessionEvents`):
  each step announces one session, hands over data of a connected one, or is a stutter.
  With heartbeat detection `EngineSafe` fails (`sweep_race`), and so does the refinement:
  a worker may hand over data after the sweep has notified DISCONNECT.
* `DataInOrder`: `Spec => []InOrder`, with and without heartbeat detection, from
  `SegmentInv`: a worker that carries a segment carries the last one read, what was
  delivered came before it, and without heads it is all that came before it.

`TcpClient_proofs` proves for every time-out and every number of sockets, messages and
units (`ClientAssumption`):

* `Invariance`: `Spec => []ClientInv`. That there is never a second receive thread
  rests on who will join the first: a receive thread lives only while the status is
  CONNECT or the heartbeat thread is on its way to join it (`QuietInv`), it is the one
  `m_tRecvThread` names and reads the socket it was made for (`ReceiverInv`), and the
  flag that was cleared tells the next one that the join is done (`JoinInv`).
  `ThreadInv` says which threads a mode has, `SocketInv` that at most the last socket
  is connected, `AgeInv` that the age is looked at before it passes the limit.
* From it `TypeCorrect`, `OneReceiverOnly`, `JoinsAreOfThreads`, `DeletedWhenQuiet` and
  `ConnectionsClosed`.

* `Refinement`: `Spec => ImplementsClientEvents`. Initial states map to initial states and
  each step to a step or a stutter, by `ClientInv` and `HeardInv`: what arrives on a
  connection is the connection's own, and nothing was delivered or kept of one that has had
  no receive thread. A piece that completes nothing is `Keep`, one that completes a head or a
  heartbeat is `Drop`, and one that completes a body is `Receive` of what was kept and at
  least one unit of the connection of now, as a piece is never empty.
* `BodiesAlways`: `Spec => []BodiesOnly`, from `ParserInv`. Streams consist of whole
  heartbeats, heads and bodies, each body behind a head, except that they may begin and, once
  the peer has gone, end anywhere (`FramedInv`). The parser has kept the beginning of the unit
  the stream goes on with (`PlacedInv`), unless a thread of an earlier socket ended inside a
  message; when none did, nothing is kept between two threads (`OrderInv`), and the next stream
  begins where the parser is. A piece is never longer than
  what is missing, so it ends inside the unit or with it. What is kept of a body is a body's
  (`KeptInv`).

`HeartbeatLink_proofs` proves for all times (`LinkAssumption`: the counts stop later than
anything the properties speak of):

* `Invariance`: `Spec => []LinkInv`. The bounds hold because a stamp is looked at after
  each sleep (`StampInv`), because an end that is alone has heard nothing younger than what
  was under way when it became so (`AloneInv`), and because, while both ends beat, a stamp
  is no older than the last beat, the one before it, or the answer to that (`BeatInv`). With
  an interval longer than the delay, one beat has been read before the next is sent, so beats
  alone never make a session deaf (`UnderWayInv`); of a deaf session nothing is claimed but
  how long it is kept.
* From it `EndsAgreeSoon` (`HalfOpenBounded`), `StarvedIsSweptAlways`, and, as an action
  property, `BeatingKeepsLink` (`LinkStays`).

`ServerThreads_proofs` proves for any number of servers, modules and threads
(`ServerAssumption`):

* `Invariance`: `Spec => []ServerInv`. `CallInv` ties a call to the server it is about,
  `BirthInv` says which threads a server can have by then (the accept thread last, so that
  a failed CreateServer deletes nothing a thread uses), `BeatInv` that the heartbeat flag is
  set just when it has to be joined, `StopInv` that the threads DestroyServer has passed
  have ended.
* From it `NobodyOutlives` and `FaultsAreKnown`.

`FrameRecv_proofs` proves for every length of heads, bodies and reads, every room in the
buffers and any number of threads and messages (`FrameAssumption`):

* `Invariance`: `Spec => []FrameInv`. `ParsedExactly` says that what was parsed, the head or
  the part of it that is kept, what is under way and what is unwritten, put one after the
  other, are the messages sent. A step moves one of the places where that concatenation is
  cut, so most of the proof is about `\o`. To go on from it a step needs four more things:
  every unit under way is of a message that was sent, so that a complete head finds one
  (`UnitInv`); the parser lacks something, except in a server that kept too much
  (`LackInv`), so that the read that completes a head or a body completes it exactly; at
  most one thread has anything unwritten until messages are mixed (`WriteInv`), so that its
  next write continues the stream; and, as `ParsedExactly` stops saying anything once
  the connection is refused, overrun or mixed, that what was delivered before stays what it
  was (`DeliveryInv`). `EndInv` is about the client's end.
* The step that completes a head reads the message's number off its first unit. That it is
  the next message's is what `HeadIsNext` shows: two ways to cut the same units, at the same
  length, have the same parts (`SplitSame`).
* From it `TypeCorrect`, `ParsedAlways` (`ParsedExactly`), `DeliveredInOrder`
  (`DeliveredIsPrefix`), `ClientKeepsAll` (`ClientLosesNothing`) and, as an action property,
  `OverrunFinal` (`OverrunIsFinal`).

`FrameRecvEvents_proofs` proves `Refinement`: `Spec => ImplementsMessageEvents`. The mapping
reads `MessageEvents`' history of sent bodies and heartbeats off the messages sent, so a step
that sends adds one event (`EventsSent`), and a head of type RECV_DATA without a body none.
For the reading side `FrameInv` gives a k such that the first k messages have been dealt
with, and the step that completes a head or a body is about message k + 1. That its event is
the one `MessageEvents` has next needs two inductions over the messages: the first k of them
contribute the first bodies and heartbeats (`EventsNext`, `EventsCounted`), and whatever
comes behind them was sent after all these heartbeats (`EventsBehind`). A read that keeps a
piece, is refused or overruns is no event, so the theorem covers a connection in any state;
it implies `DeliveredIsPrefix`, which is proved by itself and is not checked again.

`SequenceLemmas` has what both rest on. `Wire`, `DataBodies` and `Unwritten` are folds of
the community modules, FlattenSeq and SetToSeq, for which the library has no theorems. The
library's induction takes an operator as a parameter, which no installed prover can
instantiate; `NatSetInduction` is the same for a set of numbers, from `WFMin` and the
well-foundedness of `<`. With it: the recursive function inside FlattenSeq exists and is
the only one (`FlattensExists`, `FlattensAgree`), one more sequence comes last
(`FlattenAppend`), and a set of one nonempty sequence flattens to it in whatever order
SetToSeq takes its elements (`FlattenPair`). `ChosenNext` is about a fold that picks values at
some of the indexes, as `DataBodies` and `After` do.

TLC checks the inductive invariants as well (`LifecycleInv`, `HandlerInv`, `EpollInv`,
`ClientInv`, `LinkInv`, `ServerInv`, `FrameInv`).

Every safety and action property that a passing run checks is proved. Only model-checked are
the liveness properties (`DisconnectNotified`, `DataDelivered`, `DestroyReturns`,
`ClientDelivers`, `LossNoticed`, `ClosedConnectionEnds`), which TLAPS does not prove under
fairness.

## 5. Findings

1. `disconnect_nohb`: the union `epoll_data` holds a pointer where `HandleData` reads a
   descriptor; a worker never tears a session down, and without heartbeat detection no
   DISCONNECT follows the end of a connection.
2. `sweep_race`: the sweep deletes a session under a worker; the lock against it is
   commented out on Linux only.
3. `shutdown_deadlock`: DestroyServer, a worker and the sweep wait for each other
   through two locks and a join.
4. `framing_server`: the server refuses a head that arrives together with its body, and
   its comparisons for bodies are the wrong way round. With heartbeat detection such a session
   is read no more and then swept, although its client beats in time (`deaf` in
   `HeartbeatLink`).
5. `client_destroy`: DestroyClient joins the receive thread before it closes the
   socket, so while the server is silent the thread stays inside recv and the call does
   not return. Closing first, as the heartbeat thread does, would not help by itself:
   close does not wake the reader either. `ClosedConnectionEnds` says what does.

## 6. Not modelled, and what could follow

* *Windows sessions.* `CAcceptSession.cpp:460-600`, `CNetEventModleIOCP.cpp:154-300` and the
  Windows half of `CTcpSession` work on sessions, and no session is ever made there (section
  1). Two hazards of `PROJECT.json` are about that code and have no property for this reason.
* *Unused code.* `BtlByteStream.h`, `CNetDataInitialHandle`, AddModle and DelModle,
  TcpClient_IsExist; the EPOLLOUT branch, which needs `m_SendBufs` nonempty.
* *Programs.* `TcpServerTest` and `TcpClient` are interactive; how they use the engine is
  what the configurations and the findings refer to.
* *Callbacks* return at once. What an application does in one, such as sending by session id
  while the sweep holds the lock, is not in the source.
* *A stream whose messages were mixed*, or that has bytes without a head, is not followed; nor
  is a head misread by a client that announces more than its buffer holds.
* *Descriptors of others.* DestroyClient after a time-out closes a number a second time; whom
  that hits is outside `TcpClient`.
* Memory leaks of buffers, and logging.

What could follow: a whole connection as one module, with `EpollServer`'s workers reading
what `FrameRecv` sends, so that a session that is torn down while a message is half read is
followed through both.

# Undergrad-Classes: TLA+ models and proofs

The repository holds one student's course assignments. Most of it is data, handed-in
copies and single-threaded graphics or crypto exercises; a handful of programs have a
protocol, threads or an algorithm whose correctness is not obvious. This directory keeps
the formal models of those programs: TLA+ modules translated from the code, TLC
configurations, and proofs checked by TLAPS. Everything below names files relative to
`src/`.

## 1. Inventory

| Component | Source | State | Operations | What makes it hard |
|---|---|---|---|---|
| Go-Back-N file transfer | `CS456/A2/*.java` | sender: window positions, timer, wait flag; receiver: expected number, output; packets in flight | send next, resend on timeout, receive ACK, receive data/EOT, discard | three sender threads on one monitor, loss and reordering, numbers modulo 32, end of transfer |
| Link-state router | `CS456/A3/router.cpp` | circuit DB, network DB, links with a HELLO, PDUs in flight | INIT, circuit DB, HELLO, LSPDU, forward, Dijkstra | five routers flood concurrently, start-up order, routing runs on half-learnt topologies |
| RPC binder, server library, client library | `CS454/A3/*.cpp` | binder's function database, sockets, threads; server's skeleton map; client's binder socket | register, locate (round robin), execute, terminate | the main thread accepts, a thread per server and per call, servers that leave, shutdown order, memory shared by threads |
| RPC message format | `CS454/A3/Message.cpp`, `Messenger.cpp` | none | serialise, parse, order function signatures | the signature order is the key order of every map; lengths and pointers must round-trip |
| String server and client | `CS454/A2/string*.cpp` | server: client slots; client: queue of lines, count, flags | accept, read, echo; reader thread, sender thread | a counter whose mutex is unlocked where it should be locked, a fixed number of slots, the end of the client racing the last answers |
| Negotiation and transaction | `CS456/CS456-A1/src` | TCP session, UDP port | greet, negotiate a port, reverse a string | nothing: one client after the other, one exchange, no retry |
| Falling-blocks game engine | `CS488/A1/handin/src/game.cpp` | well, falling piece, stopped flag | tick, moves, rotations, drop, collapse rows | a timer and keys act on one piece in any order, also after the end of the game; several rows collapse at once |
| Ray-tracer work division | `CS488/A4/handin/src/renderer.cpp` | slice counter, image | start threads, take a slice, render, join | every pixel exactly once, remainder rows |
| Minimum spanning tree | `CO759/A1/package/code` | union-find forest, edge order | find, link, Kruskal | rank and path rules, disconnected input |

How they interact: the components belong to different programs and never call each
other. Inside a program the interactions are messages (sender/receiver over the UDP
emulator `nEmulator`; routers over the network emulator `nse-linux386`; RPC client,
server and binder over TCP) and shared memory (the sender's monitor, the binder's
database and receive queue, the string client's queue, the renderer's slice counter).
The two emulators are binaries without source and are modelled as external.

Per component, what correctness means (where the code falls short of it and of its own
documents, sections 3, 5 and 7 say how):

* Go-Back-N: the output file is a prefix of the input, and the whole of it when the
  receiver closes; what the sender counts as confirmed was written; the window is
  respected; the threads neither lose a wake-up nor a retransmission; a sent packet is
  confirmed in the end; both sides finish.
* Router: a database entry is true; after the flood neighbours agree; the flood ends;
  the routing table holds shortest paths over what is known, at every moment it is
  printed; computing it terminates.
* RPC: a location handed out was registered by a server that has not left; requests
  rotate over the servers of a function; a request gets one answer; terminate reaches
  every server and the binder stops last; no thread uses a message that was freed.
* Message format: comparison of signatures is a strict weak order that identifies
  exactly the overloads; parsing inverts serialising.
* String client/server: every line that was read is sent, answered and printed in
  order; the client exits then, and only then; the server outlives every client that
  waits for its answers (it does not outlive all: section 7).
* Game: what has landed changes only by landing; a new piece finds its place free; rows
  collapse as one removal after another; every piece lands.
* Renderer: the threads together paint each pixel once, and save a complete image.
* Kruskal: the forest never has a cycle and stands for the components; the result is a
  minimum spanning tree; the loop ends for connected graphs.

## 2. Plan

Order of work, the most important behaviour first. All of it is done.

| | Modules | Abstract specification | Theorems |
|---|---|---|---|
| 1 | `SeqArith`, `GoBackN` | `FileTransfer` | types, control, order, refinement: section 3 |
| 2 | `Routing`, `Router`, `RouterHistory`, `RoutingTable` | `RoutingTable` for one router's database | types, true databases, what neighbours learn, refinement, shortest paths: section 4 |
| 3 | `RpcNetwork`, `Binder`, `RPCServer`, `RPCClient`, `RemoteCalls` | `Registry` | types, locations, removal, results, refinement: section 5 |
| 4 | `Signatures`, `Marshalling` | equality of overloads (`SameOverload`) | keys are overloads, a strict order, messages, overloads and arguments: section 6 |
| 5 | `StringClient`, `StringServer` | lines answered in order (`NothingLost`) | no line lost, returns answered, server outlives: section 7 |
| 6 | `Kruskal` | `Blocks` | types, no cycle, edges join trees, refinement, minimality: section 8 |
| 7 | `RenderSlices`, `Game` | `Picture` | refinement; types, landing, collapsing rows: sections 9, 10 |

Every safety property that a passing run checks is a theorem too, and so is the safety part of each
refinement. What is left: measures that show progress as step properties where the end itself
is liveness (the walks of Kruskal's loop, the flood), and routing tables on networks with parallel
links, which `TableIsShortest` excludes.

## 3. Go-Back-N

### Modules

* `SeqArith`: the numbers on the wire. Java's `%` keeps the sign of the dividend
  (`JavaRem`); `SeqNum` is what the packet factories store; `AckDistance` is the
  sender's modular distance (sender.java:229-234).
* `GoBackN`: the sender's three threads, the receiver and the two directions of the
  emulator. A `synchronized` block is one action; `sendPc` and `recvPc` say between
  which blocks the two loops are.
* `FileTransfer`: what a transfer promises, without packets: chunks are sent, written
  in order, confirmed, and the file is closed.
* `GoBackNProofs`: the theorems.

| Model | Code |
|---|---|
| `FindRoom`, `WaitForSignal`, `WakeUp` | `waitForRoom` / `waitForSignal`: first synchronized block of the sending loop and the two ends of its `wait()` |
| `SendNextPacket` | second synchronized block: send, and start the timer if none runs |
| `TimerExpires`, `Resend` | the `java.util.Timer` fires, and its `ResendTask` gets the monitor; `cancel()` does not revoke a fired task |
| `NotifyIfRoom`, `ReceiveAck`, `ReceiveEotAck` | the receiving loop: `notifyIfRoom`, then one blocking receive and what it does with the packet, `updateTimer` and `sendEOT` included |
| `Accept`, `Reject` | the receiver's loop body for the expected and for any other number |
| `LoseForward`, `LoseBackward` | the emulator's discard probability |

A chunk of the file is its index. `pos` in a packet is the payload of a data packet and
auxiliary in ACKs and EOTs. Left out: reading and splitting the file except its number
of chunks, port handling, logging.

### Runs

| Run | Shows | Bounds |
|---|---|---|
| `gbn_transfer` | order of the output, no false confirmation, window, wake-up, timer, `AckMovesToItsPosition`; the transfer ends; `FairSpec` implements `FileTransfer!FairSpec` | 5 chunks, window 3, numbers modulo 4, 2 packets per direction, 1 fired task |
| `gbn_eot_early` | violated: an EOT ends the whole file | 3 chunks, window 2, modulo 8, 2 packets per direction, 1 fired task |

Why the bounds are enough: the file is longer than the number space, so every number is
reused; the window is one less than the space, the most `WindowAssumption` allows (the
program uses 10 of 32); a full channel drops what does not fit, so loss of any packet of
a burst occurs; `MaxFired` bounds tasks that wait for the monitor and a second one would
only repeat the first one's packets.

Deadlock checking is off: a transfer really ends, and it ends in a dead state too when
the EOT is lost. `TransferEnds` has that exception: the EOT is sent once, although
Notes.txt:7 says that it needs to be resent.

Fairness (`Fairness`): each thread and the timer is scheduled (weak fairness); the
emulator discards each packet independently of the others (Notes.txt:1 gives the
probability 0.1), so packets that come up again and again get through again and again
(strong fairness on accepting, rejecting and advancing). No fairness forces the sending
thread ahead of the ACKs, so the early EOT stays possible, and the liveness properties allow
for a receiver that quit.

### Disagreement with the code's own words

`gbn_eot_early`: "Sends all packets once and then EOT." (sender.java:91). The
receiving thread sends an EOT whenever everything sent so far is confirmed, also when the
sending thread has chunks left, and the receiver then closes a truncated file.

### Proofs

For every file length, window, number space and channel capacity allowed by
`SizesAssumption` and `WindowAssumption`:

* `TypeCorrect`: `Spec => []TypeOK`, on any network.
* `WakeUpsKept`, `TimerCovers`: no lost wake-up, and unconfirmed chunks have a timer, on
  any network.
* `OutputInOrder`, `ConfirmationsTrue`, `WindowKept`: on a network that keeps the order
  (`~Reorder`), from the inductive invariant `OrderedInv`. With reordering, an overtaken
  ACK can be taken for one of the next round, and `ConfirmedIsWritten` fails.
* `AckMoves`: the action property `AckMovesToItsPosition`, same assumption.
* `ImplementsTransferSafely`: the safety part of the refinement of `FileTransfer`.

The inductive invariant is types, control and data together. `WrittenInOrder` alone is
not inductive: that the packet whose number is expected is the next chunk follows from
`ForwardInOrder` (no packet in flight is a window older than one behind it, and none is
older than the receiver's position by more than a window), which needs `RoomIsKept` for the
sending step and `ConfirmedIsWritten` for the resending step; that in turn needs
`BackwardInOrder` (ACKs ascend and never fall behind the sender's account), which needs
the order of the network. Its first section is the arithmetic: two positions less than
`SeqNumModulo` apart with one number are equal, and `AckDistance` recovers the
position an ACK was sent for, also when its number is the receiver's -1.

Only model-checked: `TransferEnds` and the fair part of the refinement. Of a network that
reorders packets only `TypeCorrect`, `WakeUpsKept` and `TimerCovers` speak.

## 4. Link-state router

### Modules

* `Routing`: the data and the algorithms of one router: `IsAdjacent`,
  `CostForAdjacent`, `Updated` (updateNetworkDB) and `Computation`, the states of Dijkstra's
  algorithm one after the other. `CheapestWalks` is the reference definition.
* `Router`: all routers and the packets under way. `channel` holds what goes over each
  link in each direction.
* `RouterHistory`: `Router` with what a router has withheld from a neighbour, for
  `NeighboursAgree`, and the view of the router `observed` as an instance of
  `RoutingTable`. The theorem is about any router; TLC follows the one at the end of the
  path, which learns most by forwarding.
* `RoutingTable`: one router's database, learning entries in any order: the abstraction
  over which the routing table is checked.
* `Topologies`, `MCRouter`, `MCRouterHistory`, `MCRoutingTable`: networks for TLC.
* `RouterProofs`: the theorems.

| Model | Code |
|---|---|
| `ReceiveCircuitDB` | `recvCircuitDB`, `updateMyLinks`, `sendGreetings`: start-up of one router |
| `HandleHello` | `handleHello`: remember the link, answer with `sendLSPUs`, the own links only |
| `HandleLspdu` | `handleLSPDU`: the endpoints, `updateNetworkDB`, `forwardPDU` to the links that have sent a HELLO, then the routing computation |
| `Lose` | a datagram that UDP drops |
| `status = "computing"` | the loop of `computeCostsToAllRouters` that never ends; such a router handles nothing |

The emulator `nse-linux386` is external: it keeps the order on a link, delivers packets
of different links in any order, and answers INIT before it passes on a packet. INIT and
its answer are one step with the HELLOs, because a router reads nothing else before.

### Runs

| Run | Shows | Bounds |
|---|---|---|
| `router_cycle` | types and the size of `linkcost`, true databases, neighbours know each other without loss, the flood ends | two routers with two links between them (a cycle), at most one packet lost |
| `router_path` | after the flood neighbours agree except on what was withheld; the database of the router at the end follows `RoutingTable` | four routers in a path, at most one packet lost |
| `router_table` | routing tables are those of cheapest walks; the computation never ends if and only if two known routers are out of reach | every subset of the entries of a pentagon with a chord, in every order |

A cycle is what a flood can run round in, a path of four has routers that only hear of
others through two hops, and the pentagon is as large as `NBR_ROUTER` allows. Loss in the
cycle is enough for a lost HELLO, own PDU or forwarded PDU. `CHECK_DEADLOCK` is off since a
flood ends.

Fairness: each router handles what has arrived on each link and the emulator starts
every router (weak fairness). Nothing obliges a packet to get lost or not.

`NeighboursAgree` has an exception that the code makes: an LSPDU that arrives before
a neighbour's HELLO is not forwarded to it, and `sendLSPUs` answers the HELLO with the
router's own links only. For parallel links `getCostForAdjacent` takes the first entry,
so `TableIsShortest` is about networks without parallel links.

The comment "until all of the routers are in N" (router.cpp:192) holds for most tables
only: if no router outside N has a finite distance, -1 is inserted, once; with two
routers out of reach the loop goes on for ever. `StuckIffTwoUnreached` says that this is
the only way.

### Proofs

For every set of routers and every network that meets `CircuitAssumption` and
`LinkAssumption`, parallel links and any loss included:

* `FloodTypeCorrect`: types, and that no database outgrows the circuit_DB it copies
  (`linkcost[NBR_ROUTER]` has no check in `updateNetworkDB`).
* `DatabaseTruth`: what a router believes of another is true. The invariant `FloodInv`
  adds that every PDU under way is true and that the entries of a database name each link
  once; with both, `Updated` keeps the length of a database bounded.
* `NeighboursLearn`: without loss, when the flood is over, neighbours know each other's
  links. `GreetingInv` says what is under way until then: once a router has started, its
  HELLO over each link is in the channel, or was handled, and then each of the answer's PDUs
  is in the channel or was learnt.

* `NeighboursDifferByWithheld` (`NeighboursAgree`): after a flood without loss a router
  knows what a neighbour knows, but for what it withheld. Three invariants lead there: a
  started router has its own links first (`OwnLinksFirst`); who has an LSPDU under way
  knows what it says (`SendersKnow`), so that handing it back is needless; and what a
  router has learnt of a third one it has handed on to each neighbour, in the channel, in
  the neighbour's database or in `withheld` (`HandedInv`).
* `TablesFollowRoutingTable` (`TableFollows`): each step of a flood is a step of
  `RoutingTable` for one router, or none.

About `RoutingTable`, and by the refinement about floods, for every network of any size with
`OneLinkEach` and `CostsFinite`:

* `TableIsAlwaysShortest` (`TableIsShortest`): at every moment the table has, for every
  known router, the cost of a cheapest walk over the known links, `Infty` if there is none,
  and a first hop that begins a walk of that cost.
* `StuckExactlyWhenTwoUnreached` (`StuckIffTwoUnreached`).
* `FloodsGiveShortestTables`: the tables of all routers are shortest in every flood.

The two hypotheses are what the code needs: of parallel links the first entry counts and not
the cheapest, and a link whose cost is `INFTY` would look like none. The argument is an
invariant of Dijkstra's loop, `RoundInv`: the routers in `N` are nearer than all others
(`AddedAreNearer`), no link out of `N` lowers a distance (`AddedAreRelaxed`), and each finite
distance is that of a walk which starts with a link to `via` (`WalkedTo`). When the loop ends
distances are at most those of all walks, because a cost that no link can lower is a potential
(`NoWalkIsCheaper`). `Computation` and `CheapestBy` are recursive functions on numbers, so
that both sides are taken apart round by round; that they are defined at all follows
from the well-founded order of the naturals.

Only model-checked: the end of the flood (liveness).

## 5. Remote procedure calls

### Modules

The modules extend each other in the order of the processes, so that each action says
what it leaves unchanged in the system so far.

* `RpcNetwork`: processes and connections. `queue` is the backlog of the binder's listening
  socket; a connection is open, closed or reset. A message is the function in it.
* `Binder`: main thread and one thread per server. `BinderMain` is the loop of
  `Binder::run`, which accepts a connection and waits for its first message before it
  accepts another; `BinderThread(s)` is `handleServerConnection`.
* `RPCServer`: `rpcInit`, `rpcRegister`, `rpcExecute` as server.c calls them, the monitor
  thread (`Exit`) and the thread of a call (`RunFunction`, `SendResult`).
* `RPCClient`: `rpcCall` and `rpcTerminate`.
* `RemoteCalls`: initial states, next-state relation, fairness, properties.
* `Registry`: what the binder promises: a database and a queue of servers, the one chosen
  last at the end.
* `RPCProofs`: the theorems. `MCRemoteCalls`: servers for TLC.

| Model | Code |
|---|---|
| `AcceptConnection`, `FirstMessageMissing` | accept and the first `receiveMessage`; its exception ends `run` and the process |
| `StartServerThread` | a REGISTER: the thread is started, the message is deleted |
| `LookupFails`, `LookupSucceeds`, `LookupCrashes` | `sendLookupResponse` with `getMostStaleServer` |
| `TerminateServers` | `terminateServers` and the end of the binder |
| `ReadIdentifier`, `RegisterFirst`, `RegisterNext`, `ServerGone` | `handleServerConnection`: the address in the first message, the registration, further messages, `removeServer` |
| `ThreadCrashes` | a thread that finds no REGISTER in its message |
| `SendRegister`, `RegisterReturns` | the two halves of `rpcRegister` |
| `Ask`, `GetLocation`, `BinderGone` | `lookupServerInfo`, and `rpcTerminate` |
| `Execute`, `GetResult` | `executeOnServer` |
| `ServerKilled`, `ClientKilled` | a process that goes away at any time; what it sent remains |

Points where the code's details decide:

* The main thread deletes the first message of a server while the new thread may still
  read it. What the thread finds is a nondeterministic choice: its own message, any that
  the main thread received since (`Reused`), or nothing usable (`ThreadCrashes`). `misread`
  records that a thread took another message for its own; only then a location may be
  wrong (`LocatedServerHasIt`), and then it may.
* A connection whose other end left with unread messages is reset. The thread of a server
  then ends without `removeServer`, which is the exception in `RemovedUnlessReset`.
* In `TerminateServers`, sending to a connection whose other end is gone may raise SIGPIPE,
  which ends the binder before the servers after it get their message. They notice the
  closed connection instead (`ServersFollow`).
* `rpcRegister` puts the skeleton into the server's table before it asks the binder, so a
  server runs every function of its own, registered or not.
* The model's clock advances with every lookup (a clock that is set back would choose a
  server again; that is not modelled). When the binder ends, its database and
  timestamps keep their last values, so that the comparison with `Registry` goes on.

Left out: errors of accept and of system calls, positive results of skeletons (rpc.h does
not allow them), argument data (section 6), and clients that find no binder, which changes nothing.

### Runs

| Run | Shows | Bounds |
|---|---|---|
| `rpc_calls` | `LocatedServerHasIt`, `RemovedUnlessReset`, `ResultIsHonest` | two servers, one with two functions and one with one of them; two clients with one call each; one process killed |
| `rpc_live` | the binder implements `Registry`; servers end after the binder; every call returns | the same servers, one client with two calls, one process killed |

Two clients are needed for a lookup while another client's call runs, for a TERMINATE in
between and for memory reused by another message; two calls of one client for a second
choice of the same server. `MaxKilled` 1 reaches each way of losing a process; the
theorems hold for any number.

`CHECK_DEADLOCK` is off: processes end. Fairness: every thread of the binder, every
server that has started and every call goes on (weak fairness), as threads of an operating system do;
nothing starts a process or kills one.

### Disagreements with the manual (`submit/SystemManual.txt`)

The runs allow for two things that the manual excludes and the code does.

* "each ServerInfo stores the address and port of a server process that implements the
  given function" (line 16). The main thread has deleted the first message of a server
  (Binder.cpp:216) whose thread has read its own address there; then another server's
  REGISTER is received into the same memory, and the thread registers the function that it
  finds now and that its server does not have. `LocatedServerHasIt` and its theorem
  hold up to such a misread (`misread`): they say that nothing else leads to a wrong location.
* "Each server could also be terminated independently" (line 41). A server that goes
  between `rpcInit` and its first `rpcRegister` ends the binder, because the exception of the
  first `receiveMessage` leaves `run` (Binder.cpp:194, 219-222). `ServersFollow` and
  `CallsReturn` hold after such an end too: servers end, calls return.

### Proofs

For any servers, clients, functions and offers, and any number of calls and kills, from
`OffersAssumption`, `ProcessesAssumption`, `NoneAssumption` and `NamesAssumption`:
`RpcTypeCorrect`, `LocationsRight`, `LeaversRemoved`, `ResultsHonest`. The inductive invariant
`IInv` joins the four properties with

* `ConnectionsKnown`: whom the binder queues, reads from or has a thread for has connected;
  a server that is off has not. Without it a server could reconnect and give its finished
  thread an open link.
* `RegistersItsFunctions`: reused memory holds the message of some server, complete, or of
  none. Types need it: a thread registers what it finds.
* `AsksWhatItWants`: while the binder runs, a client's request is what it wants and has no
  answer yet. An answer to an earlier call never meets a later one.
* `CallsRunOnce`: how often the function ran, by the state of the call.
* `RightServers`: without a misread, threads, database, answers and calls name servers
  that have the function.

`BinderIsRegistry` (`RegistryFollows`) says that the binder implements `Registry`. The
abstract queue is what `Recency` makes of the timestamps: the servers that have one, in
their order. The proof shows that timestamps make one such queue and no other (`OneQueue`:
in the first place where two differed, each would name a server that the other has later),
that there always is one (`Queued`, by induction over the steps), and that a new timestamp
takes a server from its place, wherever that is, to the end (`MovesToEnd`). Registering in
the threads and removing servers between reading a request and answering it are steps of
`Registry` by themselves. That a registration names a function at all needs `IInv`.

Only model-checked: `ServersFollow` and `CallsReturn`.

## 6. RPC messages and signatures

### Modules

* `Signatures`: the bits of an argument type, `FunctionSignature::operator<` and the
  equivalence of keys that a `std::map` makes of it. `SameOverload` is what the order is
  for: same name, directions, types, and arrays where arrays were.
* `Marshalling`: one server that registers functions and one client that calls them, with
  the binder between, one message at a time. Every message is written to bytes and read
  back. A field is a value at an offset with a width; what nobody wrote is `None`.
* `MCMarshalling`: overloads that differ in one respect each.
* `MarshallingProofs`: the theorems.

| Model | Code |
|---|---|
| `IOBits`, `DataType`, `ArrayLength`, `NormalizeArrayLength` | the masks and shifts of Database.cpp; `\div` and `%` also for an int with bit 31 set |
| `ArgLess`, `ArgsLess`, `Less` | `operator<`: name, number of arguments, then the first difference |
| `Contents`, `Serialize` | `Message::serialize`: the length computed beforehand, and the fields |
| `CreateFromBytes`, `Read...` | `createFromBytes` and the readers, each with its index |
| `Register`, `BinderRegisters`, `RegisterReturns` | `rpcRegister`, `handleServerConnection` and the answer |
| `Call`, `BinderLocates`, `ClientExecutes`, `ClientGivesUp` | `rpcCall`, `sendLookupResponse`, `executeOnServer`, or the reason code |
| `ServerExecutes`, `CallReturns`, `CallFails` | the call thread of the server, `copyOutputArgs`, the failure |

### Run

`rpc_messages`: 21 signatures (no, one, two or three arguments; scalars and arrays of
length 1 to 3; each direction; all six types), two registrations in any order and
any number of calls. Two registrations are enough for an overload registered twice and for
two that the order has to keep apart; the theorems below are about all signatures.
It checks that a message arrives as sent and exactly fills the length computed for it
(`MessagesSurvive`), that the function registered last for exactly this overload runs
(`RightOverload`), and that arguments are passed by value and result, in particular that
the places of a response that are never written do not reach the caller
(`CallByValueResult`). There is no liveness here: the calls of section 5 have it.

### Proofs

For every set of names, every `Strlen` (`StrlenAssumption`: a number for each name and for
the server's), signatures of any length, and a `None` that is no int (`NoneAssumption`: what
nobody wrote is not mistaken for a value):

* `KeysAreOverloads`: `SameKey(s, t) <=> SameOverload(s, t)`.
* `LessIsStrictOrder`: irreflexive and transitive. As `SameOverload` is an equivalence,
  both together say that `operator<` is a strict weak order, which `std::map` requires.

The argument goes over `Rank`, one number for what is compared of an argument type, and
over the first difference of two lists, which exists because the naturals are well founded
(`LeastElement`). That normalising leaves the upper bits alone is `Normalized`.

* `MessagesAreRead` (`MessagesSurvive`): what `createFromBytes` reads is what was
  serialised, and its length is the one computed for it, for every form of message.
* `CallsRunRightOverload` (`RightOverload`) and `ArgumentsByValueResult`
  (`CallByValueResult`), for any number of registrations and calls in any order.

The fields of a message lie one behind the other (`Lies`: each begins where the one before
it ends), `Serialize` writes such fields (`Written`), and each reader finds its field where
the one before it stopped; put together, one lemma per form of message says what arrives.
The inductive invariant `CallInv` says which message is under way at each point and
what its sender knows (`WireInv`), that the server has an entry for each overload
with the function registered last (`ServerInv`), and that the binder has one too, but for
the registration that is under way (`BinderInv`). Without `BinderInv` a call could find
a server that knows the function and a binder that does not.

## 7. String client and server

### Modules

* `StringClient`: per client the main thread, the sending and the receiving thread, with
  queue and counter.
* `StringServer`: the single thread around `select`, and the whole system.
* `MCStringServer`: clients and their lines for TLC.
* `StringProofs`: the theorems.

| Model | Code |
|---|---|
| `ReadLine`, `CountLine`, `PushLine`, `EndOfInput` | `read_input_until_eof`; `msg_count++` is a load and a store |
| `SendLine`, `SendFails`, `SendingEnds` | the sending thread |
| `CheckFinished`, `ReceiveAnswer`, `CountAnswer`, `ServerDisconnected` | the receiving thread; `msg_count--` is a load and a store |
| `JoinSender`, `JoinReceiver` | the end of `main`, which does not wait for the receiving thread if the count is 0 |
| `Select`, `AcceptFails` | `select`, and `accept` into the first free slot, or into none |
| `AnswerLine`, `CloseClient` | the loop over the slots; a client that has gone ends the loop (`break`) |
| `KillClient` | a signal |

The code calls `pthread_mutex_unlock` twice where a lock was meant (stringClient.cpp:45,
113), so nothing keeps the two updates of `msg_count` apart. The model lets the load and
the store of each interleave, and `raced` records that a store undid another. A client that
finds no free slot is accepted, its socket stays open and nobody reads it (`Unserved`).
Writing to a client that has gone may fail, and then `handle_error` ends the server; both
outcomes are in the model.

### Runs

| Run | Shows | Bounds |
|---|---|---|
| `string_lines` | `NothingLost`, `ReturnsAnswered`, `ServerOutlivesOrderlyClients`, `LinesAnswered`, `ClientEnds` | three clients, two slots, one client with two lines, one client killed |

* `NothingLost`: printed answers, answers under way, lines under way and queued lines are,
  in this order, exactly the lines read.
* `ReturnsAnswered`: a client that returns from `main` has all its answers, unless an
  update was lost. `ClientEnds`: it does return after the end of input, unless an update
  was lost or it is not served.
* `ServerOutlivesOrderlyClients`: only a killed client or one with a lost update takes the
  server with it.
* `LinesAnswered`: each line of a served client is answered in the end.

Two lines are needed for an update lost between a line and an answer, and for order. With
two slots two clients are ready in the same `select` round, and when the first of them has gone,
`break` drops the second one's ready slot, with its line, until the next round. With three
clients a slot passes from one to another while the line in the other slot waits, and a
client may find both slots taken. The client with the lines may be in either slot, or be
the one that is turned away. The other two have no lines: they come, wait for the end of
their input, and leave or are killed, which is all that the loop over the slots sees of
them besides their own lines. Lines of a second client multiply the states beyond
minutes; `NothingLost`, `ReturnsAnswered` and `ServerOutlivesOrderlyClients` are proved for any
number of lines of each client.

Fairness: as long as the server or a thread of a client can go on, one of them does (`GoesOn`);
nothing makes a user type, end the input or start a client. This is weaker than fairness to each
thread and enough for the two liveness properties: no thread of these programs polls, so
that every behaviour comes to rest, and the properties are about what is left then. They are
stated as what holds from some time on (`<>[]`): the input is finite, and being
gone or not served is for ever. Deadlock checking is off because clients end and a client that is
not served waits for ever.

### Disagreements with the code's own words

The exceptions in the properties are what the code does. That a client may find no slot
(`Unserved`) is promised nowhere; three comments promise more than holds:

* "Wait until done sending and receiving" (stringClient.cpp:157). If the store of
  `msg_count--` undoes an increment, the count may be 0 with a line unanswered, and `main`
  returns before the answer comes. `ReturnsAnswered` excepts `raced`.
* "Receive until finished reading input and receiving all sent messages"
  (stringClient.cpp:96). After one lost update the count may stay above 0 when all is
  answered: the receiving thread waits in `recv_msg` for an answer to nothing, and `main`
  for the receiving thread. `ClientEnds` excepts `raced`.
* "Server runs forever" (stringServer.cpp:77). A client is killed, or returns too early,
  with a line under way, `send_all` of the answer fails, and `handle_error` ends the server
  (stringServer.cpp:153-154), with all its other clients. `ServerOutlivesOrderlyClients`
  says that nothing else ends it.

### Theorems

Proved for any set of clients, any number of lines and slots and any number of killed
clients: `TypeCorrect`, `LinesKept` (`NothingLost`), `AllPrinted` (`ReturnsAnswered`) and
`ServerOutlives` (`ServerOutlivesOrderlyClients`). None of the three properties is inductive.
The invariant says for each client

* `Answers`: what has come back, printed or not, is the first lines in order. This holds
  also when the server is down or the client gone, and bounds what a client can have
  printed when it returns.
* `Way`: while both ends run, the lines in the connection and in the queue continue it. Each
  place holds the lines that follow those in front of it (`Follows`), so that a step from
  one place to the next needs no facts about concatenation; `LinesKept` puts them together
  at the end.
* `Count`: without a lost update `msg_count` is the number of lines it includes less the
  number of answers it includes, and a receiving thread that has returned saw 0 after the
  end of input. With `Answers` a count of 0 at the join means that all is printed, wherever
  the receiving thread is.
* `Ended`: a client that returned without a lost update left nothing in the connection to the
  server, and one ends in an error only when the server is down. So the client whose
  answer ends the server was killed or had lost an update.

Model-checked only: `LinesAnswered` and `ClientEnds`.

## 8. Minimum spanning tree

* `Kruskal`: the loop of `get_kruskal_mst_indices` with the two walks of `find_canonical`
  step by step, and `link` by rank. `Overrun` is the read past the last edge.
* `Blocks`: Kruskal's algorithm on a partition of the nodes.
* `MCKruskal`: small graphs. `KruskalProofs`: the theorems.

`kruskal_tree` takes every graph of five nodes and five edges of length -1 or 1, parallel
edges and a loop included, in every order that sorting allows; nodes are numbered in the
order in which the edges name them, since the program does not look at their numbers. The
second and the fourth edge name the higher node first, and one of the other three may be a
loop: with two loops no five edges connect five nodes. Other orientations and more
loops are left to the theorems. Graphs with fewer edges are prefixes of these. Linking two trees of rank 1 takes four nodes, and a walk of
two steps decides something only if an edge comes after that while a fifth node is still
to be reached; with four nodes a `find_canonical` that stops at the parent would go
unnoticed. It checks `RanksClimb`, `TreeIsMinimal` (no spanning tree
has less weight), `EndsIffConnected` (the program returns for connected
graphs and overruns for all others) and the refinement of `Blocks`. Fairness: one
sequential program takes its steps. Deadlock checking is off because it ends.

Proved for every graph that meets the module's assumptions: `TypeCorrect`,
`ForestHasNoCycle` (`RanksClimb`) and `EdgesJoinTrees`, the count of trees that makes the
loop end with one tree. The inductive invariant adds that there is an edge at hand while
its trees are looked for (`EdgeAtHand`), and that both walks have ended at roots when
`link` is reached (`RootsFound`): a node that is no root would lose its parent there, and
the count of trees would be wrong.

`ForestImplementsBlocks` (`ImplementsBlocks`) is the refinement. `Root` is recursive on the
forest; ranks that climb make it well defined, and one function only follows the forest
(`OneEndOfWalks`). `RootInv` says that the walks of `find_canonical` stay in the trees of the
two ends of the edge, so that different ends mean different trees, and linking two roots
joins their two blocks and no others.

`TreesAreMinimal` (`TreeIsMinimal`) is the exchange argument: what was taken can be
completed, from any connected set of edges, to a connected set of as many edges that weighs
no more (`Promising`). When the loop ends, what was taken has as many edges as a tree
and so is that set. Lengths are any integers, as in the code. A new edge joins two trees; the connected set has an edge across the border
of the one of them, that edge is not earlier in the order, so it is not shorter, and is
exchanged. `MinInv` adds what this needs of the loop: the edges are sorted, edges passed
over lie inside a tree, and the taken ones join each node to its root. "Connected" is stated
by cuts in the proof and by rounds of `Reach` in the module; both are shown to agree.

`EndsAsGraphSays`: the loop returns only for connected graphs and overruns only for others,
from the two invariants at their ends: a single tree left joins everything, and of two trees
left when no edge is, none leads out of the first. Model-checked only: that the loop ends
(`EndsIffConnected`).

## 9. Ray-tracer work division

* `RenderSlices`: threads that take slices from the shared counter and paint them pixel by
  pixel, the pixel counter with the loading bar, joining and saving. The colour of a
  pixel is left out: no thread reads what another wrote.
* `Picture`: pixels are painted, each once, and the picture is saved when complete.
* `SlicesProofs`: the theorems.

`render_slices`: three threads and three slices on an image five columns wide, so that the
last slice is wider than the others, and two rows high, so that a thread returns to
the start of its slice. A thread can take two slices while another has none. It checks that
the loading bar reaches 100% before the image is saved (`BarIsFull`) and the
refinement of `Picture` with its progress. Fairness: each thread and the one that joins
them runs (weak fairness). Deadlock checking is off because the program ends.

Proved for any set of threads, number of slices, width and height, also when there are
more slices than columns: `TypeCorrect` (no thread leaves the image), `EachPixelOnce`,
`CompleteWhenSaved`, `BarGetsFull` (`BarIsFull`) and `ThreadsRenderPicture`, the safety
part of the refinement. The invariant says which pixels each slice has so far, by the
thread that holds it; that the slices partition the columns is a lemma about `Start` and
`End`. For the bar, `BarInv` adds that the counter lags behind the image by the threads
that have painted a pixel and not counted it, and that whoever counts the last one has yet
to show the bar. Model-checked only: that the picture is finished.

## 10. Falling-blocks game

* `Game`: well, falling piece and all operations of `game.cpp`. The board is the set of
  filled cells; colours are left out.
* `GameProofs`: the theorems.

| Model | Code |
|---|---|
| `Fall`, `Land`, `Lose` | the three outcomes of `tick` |
| `MoveLeft`, `MoveRight`, `TurnCW`, `TurnCCW`, `Drop` | the moves, which do not look at `stopped_` |
| `PutPiece`, `Settled` | `placePiece` and `removePiece` |
| `Collapse` | `collapse`; `CollapseLoop` is its loop, row by row |
| `GenerateNewPiece`, `Reset` | the next piece, a new game |

`game_well` plays every game in a well of four columns and four rows under the four rows
where pieces begin: pieces then lock at once or fit beside each other, several rows
become full, and the well overflows. It checks `NewPieceFits` (nothing
checks the cells of a new piece, they are free because of the test for a lost game),
`SettledChanges` (what has landed changes only when a piece lands or a new game begins),
`CollapseIsLoop` and `PiecesLand` (under weak fairness of the timer,
whatever keys are pressed). There is no deadlock: the keys always work.

Proved for a well of any size: `TypeCorrect`, `NewPiecesFit`, `SettledOnlyByLanding` (`SettledChanges`). The
inductive invariant adds that the box of the piece is inside the board but for its empty
margins (`IsPiece`, `Inside`), which a rotation has to keep.

`CollapseIsTheLoop` (`CollapseIsLoop`): `Collapse`, which the steps use, is what the loop of
the code computes row by row. Removing the lowest full row first and then collapsing the
rest gives the same board as collapsing at once (`CollapseRow`), and the number of full rows
goes down each time. Model-checked only: `PiecesLand`.

## 11. What the prover does not reach

Liveness under fairness and the fair parts of the refinements stay with TLC: `TransferEnds`,
`FloodEnds`, `ServersFollow`, `CallsReturn`, `LinesAnswered`, `ClientEnds`,
`EndsIffConnected`, `PiecesLand`, and the fairness in `ImplementsTransfer` and
`ImplementsPicture`. Every other property of a run is a theorem.

Some definitions are written the way they are because of the prover. It does not look into
`SelectSeq` and `SortSeq`, so `Registry` moves a server with `RemoveAt`, `Recency` chooses a
sequence, and `Routing` finds an entry as the smallest index (`EntriesBetween`). It has no
induction over data: recursive functions on numbers and sets are taken apart with the
well-founded order of the naturals, which yields that they exist and are unique, and the
rest by a smallest counterexample.

## 12. Not modelled

* Negotiation and transaction server (`CS456/CS456-A1`): one client at a time, a
  greeting over TCP and one exchange over UDP, without thread, timeout or retry.
* `CS488`: the windows and viewers of all assignments, A0, A2, A3 (painting, projections,
  scene graphs) and A4's mathematics, meshes, materials and image output. This is most of
  the repository's code: user interface, floating-point geometry and drawing, each
  function on its own, without protocol or shared state.
* `CS458` (security course): exercises on single programs and logs.
* `CS454-A2`: empty Java stubs. `CO759/A1/examples`: vendored examples.
* `submit/` and `handin/` copies of programs modelled elsewhere; data, object files,
  PDFs.

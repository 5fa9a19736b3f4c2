# NovusCore-Service: TLA+ models, model checks and proofs

NovusCore-Service accepts TCP connections of the other NovusCore programs
(auth, load balancer, region, chat, realm, world and instance servers), lets
each of them log in, registers it as an *internal server*, and tells the load
balancers among them who is there. A connected program asks the service for
the address of a server; the service passes the question to one of the load
balancers, in turn, and passes the answer back.

The paths below are relative to the repository root (`src/...`). The submodule
`NovusCore-Common` (sockets, byte buffers, packet headers, opcode table, the
database client, SRP6a, the concurrent queue) is not part of the repository;
what the models say of it is what the code here relies on, and is marked
*external*. There are no tests and no design documents: the comments and
assertions in the code are the only statements of intent.

## 1. Inventory

### Threads

| thread | code | does |
|---|---|---|
| main | `main.cpp` | starts the engine, prints its messages, runs console lines |
| console reader | `std::async` in `main.cpp` | blocks on one line of input at a time |
| engine | `EngineLoop::Run` | sets up, then 60 ticks a second: messages, then the systems |
| workers (external) | taskflow, started in `EngineLoop::UpdateSystems` | run the three systems of a tick along the edges of their task graph |
| accept (external) | calls `ConnectionUpdateSystem::HandleConnection` | queues a new client |

### Components

**Server table** (`ECS/Components/Network/LoadBalanceSingleton.h`).
State: per address type a vector of `ServerInformation` and a round-robin
index; REALM, WORLD and INSTANCE have a map realm → vector and a vector of
indices used *by realm id*. Operations: `Add`, `Remove`, `Get` per type,
`GetServerInformations`, `GetLoadBalancers`. Hard: the indices are kept apart
from the vectors they index, and only some of the operations look after them;
whether a lookup is inside its vectors depends on the whole history.
Correct when: lookups stay inside the vectors, hand out servers in turn, and
the vectors contain the registered servers, once each.

**Connection life cycle** (`ECS/Systems/Network/ConnectionSystems.cpp`).
State: the registry's `ConnectionComponent`s, the client's status and socket,
the queues of new and dropped connections. Operations: accept, read and
dispatch packets, notice a disconnect, close after a failed handler, create
and destroy entities. Hard: closing, dropping and destroying happen in three
different places of a tick, while handlers of *other* connections reach this
one through entity ids in the table. Correct when: nobody is served after it
was closed or dropped, nothing dead is looked up, everything closed is
destroyed in the end, once.

**Handlers of internal servers** (`Network/Handlers/General/GeneralHandlers.cpp`).
State: `HasServerInformation` per entity, the table, the buffers of the
receivers. Operations: register (`HandleConnected`), `HandleRequestServerInfo`,
`HandleRequestAddress`, `HandleSendAddress`, `HandleRequestRealmConnectionInfo`.
Hard: full lists go out directly while additions and removals wait in a
buffer, so a load balancer sees them in another order than they happened; the
list has two layouts, one without realms; handlers fail half-way; an answer names
its client itself. Correct when: table and components agree, each load
balancer's copy of the table converges to it, and questions and answers are not
mixed up.

**Login** (`Network/Handlers/Auth/AuthHandlers.cpp`, `AccountCommand.h`). State:
the client's status and its `Authentication` component (name, salt, verifier,
keys); the accounts table. Operations: challenge, handshake, the account
command. Hard: a session is set up by one packet and proved by another, with
failures in between; accounts are inserted by another thread, without anything
that keeps names unique, in lower case whatever was typed; a key that is too
short is used uninitialised; names become part of the text of a query as they
are. Correct when: only a client that proved the password of an account is logged
in, with one attempt per connection, and a client that follows the protocol
succeeds.

**Outgoing buffers** (`ECS/Components/Network/ConnectionComponent.h` and the end
of a visit in `ConnectionSystems.cpp`). State: three buffers of 8192 bytes, two
timers. Operations: `AddPacket`, the flush at the end of a visit. Hard: the
same buffer is sent from two places, one by size and one by time, and both
reset the timer. Correct when: packets fit, leave once, in order, and in time.

**Process life cycle and console** (`main.cpp`, `EngineLoop.cpp`,
`ConsoleCommands*`). State: two message queues, `_isRunning`, the pending
console line, the command map, the systems of a tick that run or have run.
Operations: start, stop, pass and take a message, find and run one of the three
commands, run the task graph of a tick. Hard: the main thread acts before the
engine is up and after it is gone; three systems on worker threads share the
registry without a lock; commands are found by a hash that loses half its bits.
Correct when: a quit ends both threads, after the answers that are due; the
systems run one at a time and only inside their tick; nothing happens that no
line asked for.

**Packet framing** (`ConnectionUpdateSystem::HandleRead`). State: the receive
buffer between reads. Turns a byte stream, cut anywhere by TCP, into packets.
Hard: partial headers and payloads at every position, a buffer that is moved
only when it must be, headers that stop the loop without being consumed.
Correct when: the packets are those of the stream, however it was cut, and
none waits in the buffer for room that its own bytes take up.

**Player initialisation** (`InitializePlayerSystem.cpp`). Returns at its first
check in every run: nothing in the repository creates the components it asks
for. Not modelled.

**Service locator, time and database singletons.** Pointers and values set
before use, with one exception (the account command), which `EngineLoop` has.

### Interactions

* accept thread → engine: the queue of new connections, emptied by
  `ConnectionDeferredSystem`.
* `ConnectionUpdateSystem` → `ConnectionDeferredSystem`: the queue of dropped
  connections.
* handlers → table (`Add`, `Get`), drop loop → table (`Remove`).
* handlers and drop loop → other connections' buffers, by entity id.
* main ⇄ engine: `_inputQueue`, `_outputQueue`.
* account command → registry and database connection of the engine thread; the
  accounts table between it and the challenge handler.
* engine thread → workers and back (`run`, `wait_for_all`).
* framing → handlers: the packet queue of the connection.

Everything that is hard to test in this code is listed at its line in
`PROJECT.json` under `hazards`, with the properties that cover it.

## 2. Modules

| module | models | used by |
|---|---|---|
| `LoadBalance` | the server table; its operations are actions on its own variables, `LBSpec` runs it alone | `LoadBalanceHistory`, `Service` |
| `Rotation` | abstract: what a round-robin list promises | `LoadBalanceHistory` (INSTANCE) |
| `LoadBalanceHistory` | the table with history variables, and what they are needed to state | `MCLoadBalance`, `LoadBalanceHistoryProofs` |
| `Service` | connections, ticks, handlers, notices; composes the table | `ServiceDirectory`, `ServiceLookup` |
| `Directory` | abstract: a list whose copies follow every arrival and departure | `ServiceDirectory` (INSTANCE) |
| `ServiceDirectory` | the mapping under which `Service` implements `Directory` | `MCService`, `DirectoryProofs` |
| `ServiceLookup` | `Service` with the history of who asked and who was answered: an address lookup from end to end | `MCServiceLookup`, `ServiceProofs` |
| `PacketFraming` | the read loop of one connection, against the packets of the whole stream | `MCPacketFraming`, `PacketFramingProofs` |
| `Login` | the two login handlers, the account command, the accounts | `MCLogin`, `LoginProofs` |
| `PriorityBuffer` | one connection's outgoing buffers in bytes and time | `MCPriorityBuffer`, `PriorityBufferProofs` |
| `EngineLoop` | the process: main and engine thread, console commands, the workers of a tick | `MCEngineLoop`, `EngineLoopProofs` |
| `LoadBalanceProofs` | lemmas about the operations of the table | `LoadBalanceHistoryProofs`, `ServiceProofs` |
| `LoadBalanceHistoryProofs` | theorems: lookups are safe, rotation is fair | |
| `ServiceProofs` | theorems: the service's invariant; whom answers are for | `DirectoryProofs` |
| `DirectoryProofs` | theorems: copies converge, `Service` implements `Directory` | |
| `PacketFramingProofs`, `LoginProofs`, `PriorityBufferProofs`, `EngineLoopProofs` | theorems about the module of that name | |
| `MC*` | bounds and symmetry for TLC | |

The modules stand for each other's environment where they are not composed: a
packet that `PacketFraming` enqueues is what a handler of `Service` or `Login`
takes; `Service` keeps of a login its status changes, of a tick the order of the
systems that `EngineLoop` (`SystemsRunAlone`) shows the task graph to have.

### How the models correspond to the code

*LoadBalance.* A listed `ServerInformation` is represented by the entity it
holds; type, realm, address and port never change while the entity lives. A
vector is a sequence (1-based here, 0-based in the code), `known` is the key set
of a per-realm map (`operator[]` creates keys on lookup and removal too),
`realmCursor` the vector of indices that `Add` grows by one at the end and
`Get` reads at the realm id. An access outside a vector sets `outOfRange`.

*Service.* One entity is one connection. A tick is `BeginVisit` or
`HandleDisconnect` for every entity in `todo`, in any order (the order of an
entt view is not specified); between `BeginVisit` and `EndVisit` any number of
handlers run for that entity, one per packet; then `BeginDeferred`,
`AcceptNew` for every queued client, `BeginDrops`, `DropOne` until the queue is
empty, `EndTick`. `HandleConnection` may happen at any moment. Handlers are
dispatched by the status they were registered with; a failed handler closes the
client and ends the visit (`Reject`), and a closed client is found closed by
its next visit. A handler that fails after it changed something is an action of
its own (`RegisterLoadBalancerFails`, `HandleRequestAddressFails`). The notice of
an addition and the realm answer are written into 128 bytes they always fit, so
those writes cannot fail; a failure before any change is `RejectPacket`.

What a peer does is free: any packet at any time the code would take it. In
particular `HandleSendAddress` takes any entity from any connected peer, load
balancer or not, asked or not, alive or not, the null entity included: the code
does not look (`GeneralHandlers.cpp:175`, `184`). What a peer *knows* is external
state: `view` is a load balancer's copy of the server list, `placed` those servers
in it whose realm it has been told, `asked` the requesters whose questions it
received. A packet in a buffer reaches the peer when the buffer is sent; what is
sent directly reaches it at once. TCP keeps the order of what is sent.

The full server list has two writers under one opcode. `HandleConnected` (line 95)
sends the structs of the table, realm included: it fills `view` and `placed`.
`HandleRequestServerInfo` (201-207) writes entity, type, address and port, without
the realm: it fills `view` and empties `placed`, and `relisted` remembers the
servers with a realm that were in that list. That a load balancer reads each list
in the layout it was written in is an assumption about a program outside this
repository; the model speaks of one that does. The Puts of the second writer are
not checked: of a list beyond `FullLimit` the model lets the peer read any set of
servers. (One limit serves both: an entry of the second layout is smaller, so
where the first fits into its 8192 bytes, the second does.)
`HandleRequestServerInfo` is modelled for load balancers, the only peers whose
copy the properties speak about; for the others the handler changes no state
of the service.

*PriorityBuffer.* Sizes and times are in units; the connection is one that is
neither closed nor dropped (what happens to the buffers of one that is, is in
`Service`: they are given back unsent).
`Service` has the same medium-priority buffer by content and count of packets.

*ServiceDirectory.* The copy of a load balancer is not what it knows now but what
it will know when everything queued for it has arrived, so early sends and
timers are stutters, and a registration with its notices is one step for all
copies. `located` are the members of which the copy will have everything: the
realm too, for those that serve one. A full list sent past the buffer is `Refresh`:
notices of departures still queued take some of those the table never forgets out
of the copy again, and realms are lost until a notice brings them back.

*ServiceLookup.* A buffer that does not just grow was sent, or was given back
with its entity; `answered` collects whom an answer was sent to, `unasked` whom a
peer named in an answer without having been asked.

*PacketFraming.* `received` counts the bytes read from the socket, `active` is
what lies between the read and the write position of the buffer, `readData`
what was consumed in front of it (`GetActiveSize`, `SkipRead`, `Normalize` and
`Reset` by what they do). Each action is one pass of the loop of `HandleRead`:
a packet, or one of the four ways out. `Read` brings at least one byte, and only
what fits behind the write position. The header is an opcode and a size, one
byte each, and stands for the four bytes of a `PacketHeader`. What the packets
of a stream are is said without the loop: `Decodes` asks for a start of each
packet, the first at 0, each other where the packet before ends, and for
nothing complete behind the last.

*Login.* A row's salt and verifier stand for the name and password they were
made from, so a proof is right when it was computed from the name and password
of the row, for the name of the session, with the keys of this session. `b`
numbers the server's keys: a proof from before the challenge was answered has
none. The row's name and the session's may be spelled differently: the first is in
salt and verifier, the second in the proof itself, and a client may know both
(`ProofOf`). A key cut short leaves the handler with any key.

A name goes into the text of a query, or of an insertion, as it is
(`AuthHandlers.cpp:40`). `Plain` are the names the database reads there as the names
they are, and for those it returns any row whose name it takes for equal
(`Collated`; the bounds take two names for equal). For every other name the
answer is any row at all, in the table or not, or none (`Answers`,
`MayFindNone`), and an account command adds any rows. What is left of the
database's side as assumptions: a query changes no row, an insertion removes none,
one that it refuses finds nothing, and a row that does not hold a salt and a
verifier is one whose password nobody knows. Packets wait in `inbox` and one
connection's packets are handled in order. A client follows the protocol with an
account of its own (`creds`, chosen freely, in the table or not), or it has none
(`NoRow`) and sends anything at any time.

*EngineLoop.* A console line is its first word and a number of parameters; words
have the hashes of the code, of which the command map keeps the lower 16 bits
(`Key`), and the line runs the command found under them. The main thread's
inner and outer loops, the 50 ms wait, the second `Stop` and the wait of the
future's destructor at the end of `main` are steps; so are the engine's set-up,
message loop and exit. A worker starts a system when those it gathers have
finished (`Gathers` are the edges of the task graph), and `EngineWaits` is
`wait_for_all`. `_isRunning` is a plain `bool` read by another thread;
setting it later than the write is no different from the engine thread
starting later, so one atomic flag has every behaviour of the build.

### Undefined behaviour

Where the code reads a component of a dead entity, an element past a vector or
writes past a buffer, anything may follow. The models record it (`fault`,
`outOfRange`, `overrun`) and stop there: nothing happens any more, and no
property claims anything of what comes after. Three such accesses are reached by
legal sequences of calls: an address request without any load balancer (`null
entity`), an answer for a requester that is not there (`unknown requester`), and
the lookups described under findings. The safety properties say which accesses
never go wrong, and under which conditions; `LookupFaultsExplained` says when the
first two can happen at all.

## 3. Runs

Every property has at least one mutant: a definition that changes a modelled
operation the way a plausible bug would, for which TLC finds the property
violated under the same cfg. They are listed in `PROJECT.json` and stand before
the definition they replace, marked *Mutant*.

| run | instance | shows |
|---|---|---|
| `table` | 3 servers, realms {0,1}; CHAT, WORLD, INSTANCE | `LookupSafe`: the three reasons, and no fourth, why a lookup may leave its vectors: its vector lost an element, realm ids came out of order or were first mentioned by a lookup or removal, the type is INSTANCE. `FairRotation`: refinement of `Rotation`; every server of a global list once per round until one leaves, afterwards only members of the list |
| `table_wrap` | 3 servers, one global list | **violation** of `CursorInRange`: see findings |
| `service_registry` | 3 connections, realms {0,1}, LOADBALANCE and WORLD, no lookups | the table matches the registry, registry accesses are safe, load balancers converge (realms included, but for servers in a list asked for again), closed clients are not served. `KeepsDirectory`: refinement of `Directory` |
| `service_full` | 3 connections, a full list holds 1 server | the inductive invariant when registrations of load balancers fail half-way; every closed client is destroyed |
| `service_live` | 3 connections, LOADBALANCE and CHAT | removals and additions reach every load balancer |
| `lookup_fault` | 2 connections, 3 lookups or unasked answers | questions go to live load balancers only, between registrations, drops and failures, and are for clients that asked; answers are for clients that asked or that a peer named unasked; a lookup looks up the null entity only while no load balancer is connected, and a missing one only if that one asked before and was destroyed, or if a peer named it unasked |
| `lookup_live` | 2 connections, 1 lookup or unasked answer | a question reaches its load balancer; if load balancers answer, askers are answered |
| `login` | 1 client of either kind, 2 names, one of them not plain, 3 packets, 2 accounts | who is logged in proved a password with its one guess: under a plain name that of a row that answers to the name, and of an account of the console, in lower case, if the names typed there are plain; a client that follows the protocol under a plain name logs in, unless another row answers to it |
| `framing` | streams of 7 bytes, buffer 4 | the packets are those of the stream, however it is cut, and all complete ones arrive |
| `buffer_small` | capacity 4, packets ≤ 2, 3 packets per priority | packets fit, leave in order, in time, all of them |
| `buffer_full` | capacity 4, packets ≤ 4 | **violation** of `BufferFits`: see findings |
| `engine_loop` | 4 console lines, 6 words | quit and ping at any time, answers before the confirmation; systems run alone; nothing happens unasked; an account command is safe once an answer was seen |

Deadlock is checked everywhere: a model stops only where it says so, by
stuttering after undefined behaviour or at the end of `main`. (`ServiceSpec` alone
has no step after undefined behaviour; the runs that use it have no lookups and
never get there.)

### Bounds, and why they are enough

* *Entities.* Three connections are two load balancers and a server, or one load
  balancer and two servers: one receives while another joins and the third
  leaves. An entity is used once, so the number of connections ever made is
  bounded with it; ids never return in the model because a reused entt id has
  another version. A rotation of three tells a skipped server from a repeated one.
* *Realms.* {0, 1}: the default argument of `Remove`, and one other.
* *Types.* One per kind of code path: a type told to the load balancers, the
  load balancers themselves, a per-realm type with index slots (WORLD) and the
  one without (INSTANCE). The other types are further instances of the same
  code, line for line.
* `HalfBuffer` (0 or 1) and `FlushTime` (1 or 2): an early send happens at the
  second or third packet, a timer runs out at once or only after several
  visits. (In the registry run, where copies lag behind their buffers, timers take
  several visits.) `ServiceInv` is proved for every value.
* `FullLimit`: 3 never fails with three connections, 1 fails for the second server.
* `MaxRequests` counts lookups and answers nobody asked for; answers to a question
  are free. Three lookups share a buffer and move the index of the list past
  its end. The runs about registration have none: what lookups do to the table is
  checked in `table` and in `lookup_fault`, and the theorems of the
  service hold with any number of them.
* *Buffers.* Capacity 4 with packets of 1 and 2 units distinguishes less than,
  exactly and more than half full. Three packets per priority are one early
  send followed by a flush. Ticks of 1 or 2 units against flush times of 0, 2
  and 4 make a timer end exactly, early, or after several ticks.
* `MaxLines`: four lines are two pings around a quit and one more line to end
  the last wait. The words are the three commands, the empty line, a word no
  command has the key of (`exit`), and one that has (`soap`, whose hash agrees
  with that of `quit` in the lower 16 bits).
* *Directory.* Checked in the registry run, where `FullLimit` 3 lets every list
  fit, which is the condition of the refinement.
* *Lookups.* Two connections, because a load balancer may ask too: both are
  askers and one or both are asked. In `lookup_fault` every second packet sends
  the buffer early, in `lookup_live` a third one would, so the timer has to.
* *Framing.* The four byte values are, as an opcode, invalid, valid and too
  large; as a size, nothing, one byte, accepted but too long for the buffer
  with its header, and refused. Seven bytes are up to three packets; every cut
  of them into reads of 1 to 4 bytes is covered.
* *Login.* One connection, because two share nothing but the table, which any
  account may be in. Three packets are a challenge, a proof and one more of either
  kind. Two names that the database takes for equal, one plain and one not, and a
  password in two capitalisations make rows that collide in name, and
  accounts that can only be used in lower case. The keys a client may send are
  its own and one cut short.

### Fairness

* `Service`: the engine thread runs (`EngineRuns`): a tick visits every entity,
  a visit ends (the packets of one visit were read from the socket in one go, at
  most one receive buffer), the deferred system empties its queues. It is one
  thread in a loop without blocking waits apart from its sleep. Nothing is
  assumed about peers or the accept thread: they may send and connect, or not.
* `PriorityBuffer`: the connection keeps being visited, by the same argument.
* `ServiceLookup` adds that a load balancer answers what it was asked
  (`BalancersAnswer`). The code cannot grant this; it is the condition under
  which the service's part of a lookup is complete.
* `PacketFraming`: the connection is visited in every tick, as above, and the
  loop of `HandleRead` ends. `Login`: the same for each client that is not
  closed; clients that follow the protocol go on with it.
* `EngineLoop`: main, engine and worker threads are scheduled. The user is not: nobody needs to
  type anything, so `QuitEnds` promises the join, not the end of the process.

## 4. Proofs

Every invariant and every action property that a run checks, and both
refinements, are also theorems. They hold for every value of the constants
that satisfies the named assumptions of the modules, which TLC evaluates for
each instance it checks:

| assumption | says |
|---|---|
| `RealmAssumption`, `TypesAssumption` | realm ids are natural numbers with 0 among them; announced types are address types |
| `NoEntityAssumption`, `WatchedAssumption` | "none" is not an entity; the list whose rotation is watched is a global one |
| `BoundsAssumption`, `SizeAssumption`, `TimeAssumption`, `SizesAssumption`, `ByteAssumption` | sizes, times and bytes are numbers, a buffer holds a header |
| `WordAssumption`, `LineAssumption`, `BoundAssumption` | the commands are words, a hash is a number, a line has a word |
| `ClientAssumption`, `LowerAssumption`, `PlainAssumption`, `CollationAssumption`, `LoginBoundAssumption` | lower case and collation map names to names, plain names are names, a key cut short is nobody's own |

Hash, lower case, collation and the plain names are parameters: the theorems do not
depend on which words collide or which names are plain.

### The service (`ServiceProofs`)

* `ServiceInvariant`: `ServiceSpec => []ServiceInv`, with
  `ServiceInv = ServiceTypeOK ∧ RegistryAccessSafe ∧ TableMatchesRegistry ∧
  TickOK ∧ ComponentsOK`. The first three are the claims. They are not
  inductive: that a notice goes to a live load balancer follows from the table
  listing only the living (in the global lists), which `DropOne` keeps only if
  the dropped entity is alive, queued once and not being visited; that is
  `TickOK`. That a client registers once follows from `ComponentsOK`: whoever has
  a component is connected or closed, and whoever is visited is not closed.
  `ServiceTypeCorrect`, `RegistryAccessIsSafe` and `TableAlwaysMatches` are its
  parts. The proof has one lemma per action; the actions that only look
  up the table or send share lemmas about what they leave alone.
* `ClosedAreNotServed`: the action property `NeverServedAgain`, from the
  invariant and a lemma naming the entities each action changes.
* `LookupFaultsAreExplained` and `AnswersAlwaysFindTheAsker`, over `LookupSpec` and
  without any assumption on what peers answer. Both come from `AskingInv`, inductive
  next to `ServiceInv`. Its `MailIsWanted` speaks of the messages in a buffer and
  not of their places; `MailStep` and `AnswerMail` say where each new message of a
  step comes from, `InfoStep` that whoever was asked stays a load balancer. That a
  failed answer to a question names a destroyed entity, and not one that never
  existed, needs `AskersWereClients`: everyone who asked has been a client,
  and a client never becomes a stranger again.

### The directory (`DirectoryProofs`)

* `ReplicasConverge`: `ServiceSpec ∧ []ListsFit => []ReplicaConverges`. The
  invariant adds that who is registered is connected, and that notices wait only
  for listed load balancers: otherwise a full list, sent past the buffer, would be
  overtaken by notices older than itself. It holds of what `HandleRequestServerInfo`
  really sends: every connected server stays known, but the realm of a
  server that was in a list asked for again is not promised any more.
* `ServiceKeepsDirectory`: the refinement of `Directory` under the same condition,
  one lemma per action that changes a copy (registration, drop, refresh) and one
  for all the stutters.
* `ListsFit` (the listed servers fit into one full list) is a condition the code
  needs and does not establish: `HandleRequestServerInfo` sends whatever it has
  written when the list does not fit, and what the load balancer reads there is not
  the list. In the instance of `service_full`, where one server fits, TLC finds
  `ReplicaConverges` violated that way. `FewPeersConverge` discharges the condition: with no
  more connections than a full list has room for, both claims hold of
  `ServiceSpec` as it is.

### The table (`LoadBalanceProofs`, `LoadBalanceHistoryProofs`)

* What appending to and erasing from an injective sequence does to its elements,
  and what `AddServer`, `RemoveServer` (`RemoveServerFacts` is listed as a
  result because the leftover of realm servers is visible in it) and lookups do
  to the table.
* `LookupsAreSafe` and `TableTypeCorrect`, from `HInv`. `LookupSafe` says nothing
  of the states before a failing lookup; `HInv` adds where the index of a vector
  that never shrank may stand, and that a vector of index slots has as many
  elements as there are realms known by a registration. Then, if realm ids came in
  order, the slot of a realm exists: a pigeonhole argument.
* `RotationIsFair`: the table implements `Rotation`.

### The process (`EngineLoopProofs`)

One inductive invariant, `LoopInv`, for `LoopTypeCorrect`, `LeavingIsComplete`,
`SystemsNeverOverlap`, `NothingComesUnasked` and `AccountSafe`. Its core is
`PingsOK`, a conservation law: pings passed on before the quit = answers printed
+ answers in the output queue + pings in front of the exit in the input queue.
`LeavingIsComplete` reads it off where both queues are empty. `SystemsOK` says that
a system runs only behind what it gathers, from which the graph, and nothing
about workers, gives the order.

### The login (`LoginProofs`)

`LoginTypeCorrect`, `LoginsAreProven` and the action property
`OneGuessPerConnection`. `LoginInv` says what a connection may be at each status:
before the handshake it has guessed nothing, during it its session is about a row
that the query may have answered with, and after a login the one guess it made is
a proof of that row for that name. While only plain names are typed, the table
holds exactly what was typed, in lower case (`RowsTyped`). For a plain name the
answer is a row of the table, and `LoginProven` follows; for another name it
claims the single guess and no more. What a refused
challenge leaves behind in a session does no harm because the client is closed.

### Framing and buffers (`PacketFramingProofs`, `PriorityBufferProofs`)

* `FramingTypeCorrect` and `StreamIsDecoded`, from `FramingInv`. `DecodesStream`
  speaks of the moments between two calls of `HandleRead`; the invariant holds
  inside the loop too: the packets taken are framed by starts whose last is the
  number of bytes consumed, and the buffer shows the stream from there
  on. The lemma `InBuffer` says that `HandleRead` finds a packet in its buffer exactly
  when the stream has one there.
* `BufferTypeCorrect`, `SmallPacketsFit` (from `2 * MaxPacket <= Capacity`; the
  invariant adds that a buffer holds at most its capacity) and `StreamsInOrder`
  (no assumption on sizes).
* `NoPacketWaits`, from `TimerFollows`: the timer of a buffer that is not empty
  shows how long its oldest packet has waited, whatever sent the packets before.

### Only model-checked

The liveness properties: `ClosedAreDestroyed`, `DeadServersForgotten`,
`ServersBecomeKnown`, `QuestionsArrive`, `AskersAreAnswered`, `HonestLogsIn`,
`EveryPacketArrives`, `EveryPacketIsSent`, `QuitEnds` and `PingAnswered`. They rest
on fairness, that is on ENABLED, which the prover does not handle.
`PacketsIn`, which `EveryPacketArrives` counts with, is a recursive function that
no theorem mentions.

## 5. Findings

1. *The round-robin index is left behind by a removal*
   (`src/src/ECS/Components/Network/LoadBalanceSingleton.h:170`). The comment at
   line 169 says "Wrap index around if needed", but the wrap compares for
   equality at the end of a `Get`, and `Remove` erases without a look at the
   index. Two servers, one lookup, and the removal of either one leave the index
   at the size of the vector: the next `Get` reads past its end and moves on
   from there. `LookupSafe` shows that without removals a global list is safe.
2. *A packet of more than half a buffer may not fit*
   (`src/src/ECS/Components/Network/ConnectionComponent.h:48`). The comment at
   line 47 asks whether to send "due to size constraints"; the code compares the
   free space with what is already written, not with the packet, and the
   assertion at line 31 allows packets up to the capacity. Nothing the service
   queues today is that large: `SmallPacketsFit` is the condition it lives by.

`TableMatchesRegistry` and `ReplicaConverges` contain a third observation as an
exception they need: the drop loop does not pass the realm to `Remove`, so
REALM, WORLD and INSTANCE servers of another realm than 0 stay listed when they
are gone, and are handed out. No comment promises otherwise, so it is stated
as the exact extent of what the table guarantees.

More observations, stated as the exact extent of what holds, since no comment
promises otherwise: the list sent on request leaves out the realms that the list
sent at registration has, under the same opcode (`ReplicaConverges`,
`KeepsDirectory`: `relisted`); an answer is passed on to whomever it names,
without a check (`LookupFaultsExplained`, `AnswersFindTheAsker`: `unasked`); a name
goes into the text of a query as it is, so a login is a proof of an account only
under a plain name (`LoginProven`); a connection that sends an invalid header, or a
packet of up to 8192 bytes that does not fit into the read buffer with its
header, stays open and stuck (`DecodesStream`: nothing behind it is ever taken);
a line whose first word shares 16 bits of hash with a command runs it
(`NothingUnasked`; `soap` quits); an account typed with capitals can only be used
in lower case (`LoginProven`).

## 6. Not modelled

* `InitializePlayerSystem`, and the components and helpers only it uses: it
  returns at its first check in every run, because nothing creates the
  components its views ask for. In `EngineLoop` it is a task of the tick.
* What two threads do to one database connection (`AccountCommand.h:60`): the
  database client is external. `Login` has the rows, not the connection.
* SRP6a, salt and verifier conversions: external, see above. What a statement with a
  name that is not plain does, beyond the rows it brings or adds.
* How a load balancer tells the two layouts of the list apart, and what it does with
  a list that was cut: programs outside the repository.
* A client that connects between `Init` of the server and the registration of
  the connect callback (`EngineLoop.cpp:98-103`): what happens to it is up to the
  network library.
* A peer's disconnect while its bytes are in the read buffer: `HandleRead` takes
  what is complete, then `Service` drops the connection with its packet queue.
* `LoadBalanceSingleton::Clear` and `EngineLoop::PrintMessage`, which nothing calls.
* The 16-bit width of the round-robin indices: a vector would need 65536 servers.
* Build files.

## 7. Plan

Done, in this order: the table and its rotation; the service around it; the
outgoing buffers; the process; the inductive invariant of the service and the
safety of the buffers; then the framing, the console dispatch and the task
graph, the login, lookups from end to end, and the directory the service
implements; then the proofs of all their safety properties and of both
refinements.

Left:

1. the steps under the liveness properties that need no fairness: that a visit, a
   tick and the drop loop each decrease what they have left to do, and that nothing
   but them increases it (`ClosedAreDestroyed`, `EveryPacketIsSent`);
2. that what is decoded is unique: two lists of packets that `Decodes` accepts for
   the same bytes are equal, up to the induction the prover lacks;
3. who hands out whom after a removal: bounds on how far a round-robin index may lie
   outside its vector, as a theorem next to `RotationIsFair`.

# Verification of spl6

This directory holds TLA+ models of the programs in this repository, the TLC
configurations that check them on small instances, and proofs that the TLA+
proof system (TLAPS) checks for every value of the constants. Paths below are
relative to the repository, `services.js` is `src/lib/avsc-rpc/services.js`.

1. [The system](#1-the-system): its parts, their state, how they interact, what makes each correct
2. [Modules](#2-modules): which models what, and how state and actions correspond to the code
3. [Runs](#3-runs): what each checks and shows, bounds, fairness
4. [Proofs](#4-proofs)
5. [Where code and documentation disagree](#5-where-code-and-documentation-disagree)
6. [What is not modelled](#6-what-is-not-modelled)
7. [Plan](#7-plan)

## 1. The system

spl6 is a set of JavaScript programs for the Bare runtime. A command, `spl`,
sends one request over TCP to a local server, `spl-server`, which executes it
synchronously against files and git repositories. The two talk through
`avsc-rpc`, a message-oriented RPC library over Avro, and the server's life is
managed by `rpc-server`. Beside that stand proofs of concept for a
peer-to-peer version.

Everything is single-threaded JavaScript: code runs to completion, and
concurrency comes from stream events, timers, `process.nextTick` (a microtask
queue in Bare, `compat.js`), other processes on the same files, and peers.

| Component | State | Operations | Interacts with | What makes it correct |
|---|---|---|---|---|
| stateful client channel (`services.js` 883-1345) | registry of callbacks by 16-bit id, `pending`, `draining`, `destroyed`, handshake done, queued calls, timers | call, ping, handshake answer, response, timeout, end of stream, `destroy(noWait)` | client object, stream, registry, timers, nextTick | one callback per call, with its own response; `pending` exact; a drain ends; nothing written before the handshake or after the end |
| stateful server channel (1350-1803) | adapter, `pending`, `draining`, `destroyed`, which listener reads | handshake, request, handler's answer, end of stream, `destroy` | handlers, stream, cache of adapters | nothing new taken in while draining, every answer written before the end, end reached |
| connection (both channels, 504-576, 756-812) | two ordered streams that may break | delivery, end, break | - | keeps the contract of a remote call (`RpcCalls`) |
| client object (474-711) | active channels, buffering flag, kept calls | call, `createChannel`, `destroyChannels` | channels | a call goes to a channel that takes calls; none is kept for ever |
| server object (722-871) | table of channels, handlers | `createChannel`, `onMessage` | channels | a channel leaves the table when it ends |
| middleware chain (2385-2452) | position, functions for the way back, error | forward, handler, backward | both channels, user functions | completes once, unwinds in reverse order, a response set early bypasses the handler |
| stateless channels (1112-1187, 1640-1712) | registry, and one exchange of streams per call | call, retry after NONE, timeout, `destroy` | stream factories, cache of adapters | the contract of `RpcCalls`, although requests are sent again |
| frame and Netty codecs (1968-2119) | chunks of bytes not yet consumed | transform, flush | streams | any way to cut the bytes gives the same messages |
| adapters (1806-1964, 2131-2176) | readers of one pair of services | make readers, encode and decode requests, responses and handshakes | channels, `avsc` | compatible services understand each other; truncated messages are refused |
| services, messages, types (90-470) | frozen at start-up | parse a protocol | adapters | equal hash means same protocol |
| server lifecycle (`src/lib/rpc-server/lifecycle.js`, `pid.js`, `cmd.js`) | `state`, TCP server, watcher, stored options; pid file and command files shared by processes | start, stop, restart, exit handler, command found or heard | file system, port, other processes | the pid file names the process that listens; stop and restart complete; commands are acted on |
| request log (`log.js`) | files in a directory | write one file per request | file system | two requests never share a file |
| spl server (`src/spl/avsc-rpc/server`) | port, directory | start, one handler, `execute` | lifecycle, server channel, dispatch | each connection gets a channel |
| spl command (`src/spl/avsc-rpc/cli`) | none beyond the call | resolve alias and arguments, call, display, exit code | client channel | one exit code per call, the code says whether it failed |
| mycelium (`src/spl/mycelium`) | caches of schemas, handlers and aliases | dispatch, execute, help, handlers | file system, git | a handler gets a record of its type; errors travel in the record |
| xpath lenses (`mycelium/xpath`) | directory tree: raw, data and metadata views | get, put, remove | file system | put then get; data and metadata views do not disturb each other |
| git (`src/lib/git`, `mycelium/git`) | repositories, `.gittrees` registry with a cache | status, log, diff, add, commit, push, pull, subtree operations | git, run synchronously | registry and repository agree after every subtree operation |
| p2p phases 1-4 (`src/poc/p2p-docker-dev`) | connected peers and their roles | connect, announce roles, route, publish | Hyperswarm | a message reaches a peer that plays the role |
| p2p phase 5, managed code | drive with roles and registry, running roles, the client's connections and channel | seed, self-assign, start a role, resolve, connect, call | Hyperdrive, Hyperswarm, channels of a connection | what the registry assigns is there, runs, and is offered to whoever is connected |
| p2p phase 7, swarm application | drive, FUSE mount with open files and a cached listing, world view, list of nodes | open, write, release, unlink, list; seed; register; periodic updates | FUSE, Hyperdrive, HTTP | what is closed can be found, listings are not too old; seeding is complete; the world view catches up; each node is listed once |
| `avsc` types, resolvers, schemas (`src/lib/avsc/lib/types.js`, `utils.js`) | shared tap, registries of names and of resolvers under construction | read, write, skip, match, compare, check, copy; make a type of a schema or of values; make a resolver | everything that encodes | what is encoded is what is decoded, also under another schema; names mean what the scopes say |
| `avsc` containers (`containers.js`, `OrderedQueue` of `utils.js`) | bytes that arrived, blocks in the codec and in the queue, waiting reads and writes | write, finish, read, callback of the codec | streams, codecs | values keep their order, none is lost, the end comes |
| tests, scripts, schemas, `avsc`'s IDL and files | - | - | - | no program state |

What is hard in it, and what the models are about: races between response,
timeout, `destroy` and the end of the stream for one call; user code that runs
in the middle of the library's own sections; message ids that come round;
handshakes that are repeated; a drain that only the completion of the last call
can finish; two processes that read, decide on and write the same files; a
crash that leaves files behind; callbacks called twice or late; bytes cut anywhere;
codecs that answer at once, late or out of order; registries used while they are
being filled; a cache that outlives what it was read from. `PROJECT.json` lists each
at its line, under `hazards`.

## 2. Modules

| Module | Models | Composition |
|---|---|---|
| `ClientChannel` | the stateful client channel, with its registry, timeouts and the event loop around it; the peer is arbitrary | - |
| `ServerChannel` | the stateful server channel; the client is arbitrary | - |
| `RpcConnection` | the two over one duplex stream | extends `ClientChannel`, instantiates `ServerChannel` and, as abstraction, `RpcCalls` |
| `RpcCalls` | abstract: what a remote call promises its caller | - |
| `ClientPool` | the client object | - |
| `MiddlewareChain` | `chainMiddleware` | - |
| `StatelessChannel` | the stateless client channel and the server's channels of its exchanges | instantiates `RpcCalls` as abstraction |
| `FrameCodecs` | the two codecs between messages and bytes | - |
| `RpcAdapters` | adapters, and the bytes of requests, responses and handshakes | extends `AvroPromises` |
| `AvroLongs` | the buffer, and the longs and bytes in it | - |
| `AvroTap`, `AvroTypes`, `AvroResolvers`, `AvroCombine` | the rest of the buffer, the types, resolvers, inferred types | `AvroTap` extends `AvroLongs`, each the one before; `AvroCombine` extends `AvroTypes` |
| `AvroPromises` | what types and resolvers promise, with references to compare with | extends `AvroResolvers`, `AvroCombine` |
| `AvroSchemas`, `SchemaPromises` | types from schemas and back, protocols; what they promise | - |
| `BlockDecoder`, `BlockEncoder`, `RawStreams` | container files in both directions, streams of bare values | `RawStreams` extends `AvroLongs` |
| `Streams` | what these promise alike | extends the three |
| `OrderedQueue` | the heap that orders blocks | instantiates `ConsecutiveQueue` as abstraction |
| `ConsecutiveQueue` | abstract: what that queue promises | - |
| `ServerLifecycle` | start, stop, restart, pid file, commands, of several processes | - |
| `FuseMount` | the mount of a drive: descriptors, release, the cached listing | - |
| `WorldView` | the periodic updates a node puts on its own drive | - |
| `SwarmSeed` | seeding the content drive, and the list of nodes that register | - |
| `ManagedWorker` | managed code: manager, workers, client | - |
| `GitSubtrees` | the registry of subtrees, its cache, and the commands that use it | - |
| `XPath` | a directory tree through the raw, data and metadata lenses | - |
| `..._proofs`, `SequenceLemmas` | theorems, and lemmas they share | extend the modules they are about, see section 4 |
| `MC...` | the instances for TLC | see below |

`MCClientChannel`, `MCRpcConnection` and `MCServerLifecycle` instantiate the module of
their name. Three modules put parts that share no state side by side, with a
variable `part` that says which of them moves in a behaviour: `MCClientServices`
(`ClientPool`, `MiddlewareChain`, `StatelessChannel`, `ServerChannel`, `FrameCodecs`),
`MCLibraries` (`RpcAdapters` and with it the types, `MCSchemas`, the three of `Streams`,
`OrderedQueue`, `ServerLifecycle`) and `MCApplications`
(`FuseMount`, `WorldView`, `SwarmSeed`, `ManagedWorker`, `GitSubtrees`, `XPath`). A
run of such a module asks of every part what its properties say.

Operators named `Mut...` are faulty variants of the operator that follows them.
They are part of no model; each was put in the place of the correct operator
once, to see that the property meant to catch it does (`mutants` in
`PROJECT.json`).

### ClientChannel

An action is one synchronous section of JavaScript. Variables are those of the
code: `cbs` and `lastId` are the registry's `_cbs` and `_id`, `pending`,
`draining`, `destroyed` and `connected` have their names, `ready` is the list of
listeners of `_ready`, `ticks` the nextTick queue (first in, first out, and empty
before a timer may fire), `timers` the armed timeouts, `out` what was written
and not yet taken by the transport. A message is the call it belongs to and its
id. `status` and `outcome` are history: how far each call has got and what its
callback was given.

| Action | Code |
|---|---|
| `Call`, `RunStart` | `_emit` of the stateful channel, and the tick it queues: refused, or registered and written |
| `RunPing`, `OnPing`, `OnPingDestroyed` | `ping`, `onPing`: MATCH lets the queued calls go, NONE sends the full protocol; a `handshake` listener may destroy the channel in between, as `discoverProtocol` does |
| `OnMessage`, `RunReply` | `onMessage` and the tick it queues |
| `RunOneWay` | the tick that settles a one-way call |
| `RunSettle`, `CallbackReturns` | `onCompletion`, before and after the user's callback: other calls of the user may come in between |
| `CallTimesOut`, `ConnectTimesOut` | the two timeouts |
| `UserDestroys`, `OnEnd`, `OnFinish` | `destroy(noWait)`, end of the readable, finish of the writable |
| `Take`, `PingDelivered` | external: the transport takes a message; the peer answers a handshake |

### ServerChannel, RpcConnection, RpcCalls

`ServerChannel` has the same grain:

| Action | Code |
|---|---|
| `OnHandshake` | `onHandshake` in vain, or with a ping behind the handshake |
| `OnFirstRequest` | `onHandshake` with a request behind the handshake, which `done` answers, one-way or not |
| `OnRequest` | `onRequest`. `Receive`, which both share, is `_receive`: decode, count, start the chain, call the handler |
| `HandlerAnswers` | the handler calls back or throws, and the chain completes in a tick |
| `RunCompletion` | `onCompletion`: uncount, write, and end a channel that drains and has nothing left |
| `SDestroy`, `SOnEnd`, `SOnFinish` | `destroy(noWait)`, end of the readable, finish of the writable |

The handler is the user's: it answers when it likes, or never. That of a one-way message
may throw (`throws`), and then nobody calls `prev` (`services.js` 1484-1498): the request is
`"thrown"` and counted for ever. Listeners run in the middle of a section and may destroy
the channel there. `destroys` is the set of the arguments they give; it matters in three places:
in the `handshake` event (`smidway`; section 5), in `incomingCall`, or the `error` of a request that does not
decode, before the request is counted (1446 and 1449), and in the `error` of an
answer, or the formatter of system errors, after it is uncounted and before it is written (1505, 1564 or 1587, 1566).
`scaught` has the requests in whose own events it happened. Middleware is in `MiddlewareChain`; here
the chain has no functions of the user, and no default handler.

`RpcConnection` gives `ClientChannel` and `ServerChannel` the two directions of
a stream. A stream keeps order and loses nothing until it breaks, and a broken
stream is silent, because streamx destroys the codecs piped to it without an
`end`.

`RpcCalls` says what a caller may rely on: called back once, with the response
to its own request or with an error; the server takes a request in at most
once; and if the error says that the request was not sent, never. The mapping
is in `Contract`: `phase` from `status`, `result` from `outcome` and `answer`,
`taken` from what the server received.

### ClientPool, MiddlewareChain, StatelessChannel

`ClientPool` keeps of a channel only what the client sees of it. That a drained
channel ends with its last call rests on `PendingExact` of `ClientChannel`,
which is proved. `listeners` are the calls kept before the first channel;
`createChannel` raises an event, whose listeners re-emit them one by one
(`Flush`), and other listeners, which may destroy the channel, run in between.

`MiddlewareChain` is one call through the chain. Every function that was called
holds its callback for ever and may call it at any time, as often as it likes
(`ForwardCallback`, `HandlerCallback`, `BackwardCallback`); the second call is
a `Duplicate`.

`StatelessChannel` has the client's tick queue as in `ClientChannel`, and an
exchange for each call: request, refusal or answer, the stream for the answer
which may come late, and the end of the client's side, which may come before it.
The ping is a call that passes no middleware and so completes in the middle of
whatever settles it; if it fails it destroys the channel from there.

### ServerLifecycle

A process runs to completion, but the file system is shared, so that an action
ends where the code has read or written it; `pc` is where the process is. A
start is `StartCalled` (read the pid file and decide), `StaleRemoved`, `Listen`
(write it, listen), `OnListening` (read the command files), `ScanCommand`,
`Watch`; a stop is `Stop` and `OnClosed`. `OnCommand` is the watcher's event,
`Exit` includes the exit handler, `Crash` runs no handler. `Launch` is a new
process; `Drop` is whoever sends a command.

### FuseMount, WorldView, SwarmSeed

`FuseMount` splits each handler at its awaits. `BeginListing`, `ListDrive` and
`EndListing` are `refreshCache`, with the drive read somewhere between; `Release`
and `Unlink` ask the drive, `Commit` is the drive (external) and `Complete` the
rest of the handler. What a file holds is abstracted to the number of its
changes: whether a listing is out of date needs no more. `NodePuts` is the node's
own process, which shares the drive and knows nothing of the cache. `asOf`,
`racing` and `answered` are history. `access`, `utimens`, `chmod`, `chown`,
`mkdir`, `rmdir` and `truncate` answer without touching anything; reads and
overlays change no state.

`WorldView` is `updateStatus` with its two puts, and the interval that starts one
whether or not the last is through. `SwarmSeed` has the seed's `main` as it goes
through `booting`, `seeding`, `ready`, `serving`; `Crash` is the end of the process
by whatever cause, after which the drive is there and the list of nodes is not.
`Receive` and `Register` are the two halves of `POST /api/register`.

### FrameCodecs and RpcAdapters

`FrameCodecs` is a stream: `WriteMessage` encodes, `Deliver(n)` is `_transform` with
any number of the bytes under way, `LineCut` ends the transport anywhere, and
`FrameFlush` is the decoder's `_flush`. Both codecs share the actions; `netty` says
which one is in use. A decoder keeps `id`, `frameCount`, `buf` and `bufs` as the code does. `StandardTurn` and `NettyTurn` are
a turn of the loops of `_transform`, and `Decoded` runs them for as many turns as there could be.

`RpcAdapters` makes the readers of a client's and a server's service
(`MessageReaders`, `CreateReaders`), encodes and decodes what they send
(`RequestToBuffer`, `DecodeRequest`, `ResponseToBuffer`, `DecodeResponse`), and takes
the handshake off the first packet (`ReadHead`). `Understood` compares all of it with
what the rules of schema resolution say of the values.

### The types of avsc

One operator stands for one method, dispatching on the kind of type where the code has
a class: `ReadValue`, `Write`, `Skip`, `CompareBuffers`, `Compare`, `Check`, `Copy` of
`AvroTypes` over the tap of `AvroLongs` and `AvroTap`, which like the code's lets a position run past
the end and tells so afterwards. Floats are the bytes a `DataView` makes: sign, exponent and
digits, of which 32 bits keep 24 (`Rounded`), to the nearest and of two to the even one. `AvroLongs` has its longs and bytes, all that can be said without recursive operators, so
that there are proofs about it. Values are tagged by JavaScript bucket, numbers are
counted in halves so that some are not integers, strings are sequences of UTF-16 units.
`AvroResolvers` threads the registry of resolvers through `createResolver`, so that a
resolver of a recursive type refers to one not yet complete, and a failed attempt leaves
what it had registered. `AvroCombine` is `forValue` and `forTypes`.

`AvroSchemas` works on objects: a type is a number in `world.types`, a registry a number in
`world.registries`, because logical types replace an object that others already
refer to. A constructor gives the changed world and the type, or 0 if it throws.

These are functions: a behaviour picks one sample (a type and a value, two values, a
reader, a list of values, a schema, a protocol, an exchange) and then uses it. The
promises are stated on the step that uses it, `[][P]_sample`, so that each is
evaluated once per sample. References (`Readable`, `Read`, `LongOf`, `FullName`,
`Declared`, `Alike`) work on values and scopes and know neither bytes nor registries.

### BlockDecoder, BlockEncoder, RawStreams, OrderedQueue

The decoder's variables are those of the code (`needPush`, `remaining`, `queue`,
`finished`, `popped` for the index of the queue), and `running` says which synchronous
section is under way, because a codec that calls back at once runs `_read` in the middle
of the loop that looks for blocks. `ReadBlock` is one turn of that loop, `Decompressed`
the callback of a codec that comes later, `ReadNextValue`, `ReadNextBlock`,
`ReadEmptyBlock` and `ReadNothing` are the ways through `_read`.

The encoder has one action per way through `_write` (`WriteFits`, `WriteAlone`,
`WriteAfterFlush`, `WriteInvalid`), `_flushChunk` and what the codec calls back
(`FlushChunk`, `Compressed`), the `finish` event and `_read`. `held` are the values whose
bytes are in the tap; a block is the count that was written and the values that follow.

`RawStreams` joins a `RawEncoder` to a `RawDecoder` and lets the bytes arrive in any
chunks. Values are records of two longs, on the tap of `AvroLongs`; `WriteRecord` is the type's `_write`, field by field.
`tainted` is a history variable. `OrderedQueue` is the heap itself: `Rise` and
`Sink` are a turn of the loop of `push` and of `pop`, `Sifted` the list after all turns.
`QueueImplements` is its refinement of `ConsecutiveQueue`, which is how the decoder uses it.

### ManagedWorker

`ManagerStarts`, `SeedFile` (a put per step, the registry last; the swarm is joined after it);
per worker `WorkerStarts`, `SelfAssign` (read the registry), `StartRole` (pull, run, join);
of the client `ClientStarts`, `Resolve`, `Connect`, `Call`. `ManagerEnds`, `WorkerEnds` and
`Lose` are faults. `links` holds, of each connection, the roles that accept a channel on it:
those that ran when it arrived (`worker.js` 93). `channel` is the one the client keeps
(`client.js` 58). `late` is history: the roles the target started while the client was connected.

### GitSubtrees

`gittrees` is the file of each repository, `gitCache` the one cache of the module,
`remotes` and `trees` what git has. git is called synchronously, so a command is one
action, except an add, which is split at its calls of git (`AddCalled`, `AddRemote`,
`Fetch`, `Import`, `RegisterAdded`), because the process may end between them
(`Restart`). `ActInside` and `ActOnArgument` are pull and push, which find their
subtree by position or by argument; `PullRepo` may bring lines that somebody else
committed. With `SoleWriter` nobody else does, and the server is asked about one
repository. `acted` and `orphans` are history.

### XPath

A request is one action. `tree` is the repository, `Get` the answer of the `get` of a
lens in its plain variant (`uri`) or with navigation into documents, `PutNode` and
`RemoveNode` the rest. Each lens decides three times what it is for: in `put` and
`remove` (`Accepts`), in `get` (`SeesFile`) and when it lists a directory (`Filtered`).

## 3. Runs

| Run | Question | Instance |
|---|---|---|
| `client_safety` | Is the client channel safe against any peer? | three calls: an ordinary one, one without timeout, one that does not serialize; two ids; a backlog of three messages |
| `connection_promise` | Do the two keep the contract of `RpcCalls`, whatever ends or breaks the connection, and does a drain end? | two calls with timeouts, every way to destroy, finish or break |
| `connection_drain` | Does an undisturbed drain lose nothing, and does everything complete without timers? | three calls, one of them one-way, no timer |
| `services_parts` | Do pool, chain, stateless channels, server channel and codecs keep their promises? | three channels and two calls; two functions and a handler, one callback called twice; ping, a call, and a call that does not serialize, to a server that does not know the protocol; four requests (ordinary, one-way, without handler, undecodable), all of one id, from any client, with listeners and one-way handlers that do what they like; two streams of messages |
| `libraries_parts` | Do types, schemas, adapters and streams keep their promises, and does one server at a time live as it should? | the samples, schemas and protocols of `MCLibraries` and `MCSchemas`; a file of four blocks cut anywhere; ten values for the encoder; five items for the queue; two processes, three servers each, both commands, crashes, the program's own stops and restarts |
| `applications_parts` | Do mount, world view, seed, managed code, subtrees and lenses do what they should? | one file, two requests under way, two descriptors, two changes; two peers, two overlapping updates, two failures; three files, three registrations, two crashes; two workers, the target with two roles, one process that ends, one break of each connection; one repository, a subtree and one inside it; a tree two names deep |
| `client_wraparound`, `client_oneway_found`, `pool_destroyall`, `lifecycle_double`, `lifecycle_window`, `subtrees_stale` | Each shows one disagreement, section 5. | the smallest instance that has it |

What the properties say, beyond one type invariant for each run of a safe system:

* `PendingExact`, `SPendingExact`: `pending` counts exactly the calls under
  way. Everything about draining rests on it.
* `SentIsReachable`: a call that was sent has a callback, a timer or a tick
  left that will settle it. `CallbackRunsOnce`: none is settled twice.
* `WritesInTurn`: nothing is written before the handshake is done, nor after the end.
* `DrainEnds`: the drain of a client's channel ends.
* `GracefulEndAnswersAll`, `DrainStopsRequests`: of a server's channel. One that ended without being forced answered all it took
  in but the one request in whose own event a listener destroyed it; one that drains takes nothing in but that request.
* `KeepsPromise`, `StatelessKeepsPromise`: refinement of `RpcCalls`, with its
  liveness: every call made is called back.
* `DrainLosesNothing`, `CompletesWithoutTimers`: what a careful user of one connection gets. The second has the server
  drain and end after the client, unless it waits for one-way messages whose handlers threw, and only for those.
* `ActiveExact`: a call is only given to a channel that takes calls. `NothingWaits`: kept
  calls leave the pool, and drains of server channels (but for one-way handlers that threw) and of stateless ones end.
* `ChainUnwinds`: a call through the chain completes once, after everything that was left for
  the way back has run in reverse, and a response that was set early keeps it from the handler.
* `FramesExact`: exactly the messages whose last byte has arrived come out of the decoder,
  with the frames they were written in, and it says if the transport ended inside one.
* `EncodingsExact`: a value survives its binary form (but for what floats round) and its JSON form, in a shared buffer of any
  size; cut short, or with anything after it, it is refused; what other writers cut in blocks is read; custom
  longs are written as numbers are, and the type of plain longs refuses those that a number does not hold; two values compare as their encodings do.
* `ResolverSound`: a resolver is made if and only if the reader's schema can read all
  that the writer's writes, and reads what the rules say (but see `Muddled`, section 5).
* `CombinedTakesAll`: the type inferred from values takes each of them, and gives back what its encoding keeps. That is
  the value, except where a float rounds it (`Kept`, `NearestFloat`), as it does a number inferred a float that 24 digits do
  not hold, or an int beside such a number.
* `SchemasExact`: the registry holds the full names that a schema or a protocol declares and no others;
  a schema that was written out makes the same type (but see `Misread`, section 5).
* `AdaptersAgree`: there are readers exactly for compatible services, with which each side
  understands what the other sends, and truncated packets are refused.
* `StreamsKeepOrder`, `FilesEnd`: values go through the container streams and the raw ones
  in order and without loss, wherever bytes are cut and whenever codecs call back; and both reach the end.
  `QueueImplements`: the heap gives out items by index, and only consecutively.
* `ServerIsRecorded`, `RestartComesBack`, `CommandsObeyed`: of the lifecycle.
* `FreshListing`: what the cache serves was read less than `CACHE_TTL` ago, however
  slow the listing was, and also after two were stored in the wrong order.
  `ClosedFileIsListed`: it shows every change whose request was answered before
  the listing began. (A change answered *while* it was under way may be missing for
  up to `CACHE_TTL`; `racing` names those, and `FreshListing` bounds it.)
* `WorldViewCatchesUp`, `SeedServes`: of the node. The seed serves all of its content, with
  one exception, because `/README.md`, the mark that the drive is seeded, is
  written first: after a crash in the middle the rest is never written. And it lists each node once.
* `RolesServed`: everyone who finds the manager finds what the registry assigns, and a worker
  offers on every connection the roles that ran when it arrived, all that run but those started since (`late`).
  `TargetAnswers`: the client is answered, unless the role it calls is one of those.
* `ActsOnRegistry`, `RegistryAgrees`: pull and push act on what `.gittrees` says at that moment; a
  subtree is there if and only if a line names it, save what a crash left between import and
  registration, and lines registered by hand for what is no subtree (`byHand`), until it is imported.
* `LensesAgree`: what was put is read back through the same lens, what a lens lists it opens,
  each file is in exactly one of data and metadata, and a change through one is not seen
  through the other (a `remove` of a directory through the data lens excepted, section 5).

**Bounds.** `Calls` bounds the calls; two are enough for two calls that race and
three for one more that is queued, and ids come round at `IdMask + 1` = 2.
`MaxBacklog` and `MaxOut` bound how much a peer lets pile up: a backlog is never
read by the code, so it only matters that it can be non-empty. The server channel of `services_parts` has one id only,
since it does nothing with ids but give them back.
`MaxStarts` bounds the servers a process creates: three allow a restart during a
restart; the two processes are alike, so that one of them is always launched first.
`MaxDuplicates` bounds how often a callback is called too often: each
duplicate leaves the chain as it was. `MaxTime` is `CacheTTL`, so that a listing begun at
the start expires; `MaxChanges`, `MaxFd` and two `Requests` allow two releases of one file
and a listing that meets a release; the drive is empty at first. `Updates` bounds the overlap of updates, which the
code does not; two are enough for an old one to write after a newer one.

`MCTraffic` holds lengths, ids and payload bytes that look like one another. Types are
sampled: each kind of type has values at the boundaries of its encoding, records nest, refer to themselves and have
fields that are compared in each of the three ways, and readers promote, rename, drop and default.
The size of the shared buffer ranges around the size of each value, since 1024 is a size as
good as any; `MaxInt` = 2^25 - 1 and `MaxLong` = 2^28 stand for the limits at which types change
from int to long and at which longs are refused, far enough out that a float does not hold all ints. `MCCounts` has an empty block last, because one in the middle stalls
the decoder (section 5); a file has a header and four blocks of two units each, so that chunks end
before, inside and after every block. `MCSizes` has values smaller than a block, as large,
larger and twice as large, and two that throw. Two members of `MCWrites` fill the taps of the raw encoder
exactly, one overflows a tap in the middle of a value, one throws half-way.

`MaxEnds` and `MaxLosses` bound the faults of managed code: one process may end, each
connection may break once. `assignments.json` gives each worker one role; here the target has two, since
the code starts any number, one after the other. `MaxEntries` = 2 lines in `.gittrees` are enough for a duplicate and for two nested
subtrees; `SoleWriter` is the condition under which the cache can be right. A key of the lenses has
at most `MaxKey` = 2 names, of which one is underscored and one is not, below a local root that
is itself underscored; there is a document with a field of each name, and a file that is none.

**Fairness**, each where the code justifies it. A tick in the nextTick queue
runs (weak). A due timer runs in the next timer phase, even if microtasks keep
coming (strong). A stream that is not broken delivers (weak). The streams of files go on: a
codec that was given a block calls back, well or badly, and the streams write and read while
they can (weak). A process that is up runs its next section, and clients do not stay connected for ever
(weak, only for `ServerLifecycle`). The interval of the world view fires again and again and the puts
of each update end, well or badly (weak); connections stop changing because their changes are bounded. In
managed code a process that is down is started, what is awaited comes,
`joinPeer` tries again for ever, and the client calls at intervals (weak, of all of it
as one, which is less than the code gives). A pool's kept calls are re-emitted and
called back (weak). Handlers are assumed to call back only in
`connection_drain` and in the server channel of `services_parts`, where the question is about a server that
works, and not of one-way handlers that throw; `connection_promise` and the stateless channels assume nothing of the
other side.

Deadlock is checked except where the system may really stop: all calls done and
the channel ended, all processes dead, a file read.

## 4. Proofs

Proof modules extend the components they are about and prove their theorems for every value of
the constants, under the named assumptions of those components (`CallsAssumption` and
`OptionsAssumption`, `ConnAssumption`, `ServerAssumption`, `PoolAssumption`, `ChainAssumption`,
`StatelessAssumption`, `TrafficAssumption`, `LifecycleAssumption`, `DecoderAssumption`, `EncoderAssumption`,
`WritesAssumption`, `IndicesAssumption`, `FuseAssumption`, `SeedAssumption`, `ManagedAssumption`, `WorldAssumption`,
`SubtreesAssumption`, `XPathAssumption`), which TLC evaluates in every run. A theorem that needs
more than that states it as its own hypothesis, and the reason is given below. The argument is
always the same: an inductive invariant, which the initial states satisfy and every action
keeps, one lemma per action with one step per conjunct, and the property from it.

| Module | About |
|---|---|
| `ClientChannel_proofs` | `ClientChannel` |
| `RpcConnection_proofs` | `RpcConnection`, from the invariant of the client's channel |
| `ClientServices_proofs` | `ServerChannel`, `MiddlewareChain`, `StatelessChannel`, `ClientPool`, `FrameCodecs` |
| `ServerLifecycle_proofs` | `ServerLifecycle` |
| `Containers_proofs` | `BlockDecoder`, `BlockEncoder`, `RawStreams`, `AvroLongs`, `Streams`, `OrderedQueue` |
| `Mycelium_proofs` | `GitSubtrees`, `XPath` |
| `Applications_proofs` | `FuseMount`, `SwarmSeed`, `ManagedWorker`, `WorldView`, and all of `MCApplications` |
| `SequenceLemmas` | what several of them use: least numbers, induction up to a number, functions given step by step, removal from a sequence, counting in a queue, sequences joined and cut |

**`ClientChannel_proofs`**: finitely many calls, any id width.

* `InvHolds`: `Spec => []Inv`, where `Inv` is the inductive invariant;
* `TypeCorrect`, `PendingIsExact`, `HandshakeComesFirst`: `[]TypeOK`,
  `[]PendingExact`, `[]RequestsAfterHandshake`;
* `OutcomesAreFinal`: `OutcomeFinal`, a call that has an outcome keeps it, whatever
  else arrives for it;
* `SilentAfterEnd`: `NoWriteAfterEot`; `WritesAreInTurn`: `WritesInTurn`, which is the two together;
* `SentCallsAreReachable`, `CallbacksRunOnce`: `[]SentIsReachable` and `[]CallbackRunsOnce`,
  *if there are no more calls that can be sent than ids* (`IdsSuffice`).

`PendingExact` is not inductive by itself. It counts the calls whose `status` is
under way, and `pending` changes when a tick runs, so the invariant has to tie
ticks to calls: `TicksFit` (each queued tick is one its call may have, and no call
has two `start` or `settle` ticks), `RegistryFits` (a callback in the registry
belongs to a call that waits, under its own id), `TimersFit` (a timer belongs to a
call that was sent), `ReadyFits` (the calls queued for `_ready` have status
`queued`, each is there once), `OutcomesFit` (only settled calls have an outcome), and
`Unconnected` (before the handshake nothing is under way, unless the channel has
ended). With
these each action adds to and takes from `pending` what it adds to and takes from
the set of calls under way; the lemmas about `AppendTick`, `TailTicks`,
`ConcatTicks` and `DistinctCount` are the sequence and counting facts that takes.
All of this holds with any `IdMask`, when ids come round as well.

Reachability does not, which `client_wraparound` shows, and so needs `IdsSuffice`. `SentInv` says why
it then holds: the calls that were given an id have different ones (`IdsApart`), because `lastId`
counts them (`IdsCounted`); what comes for an id finds in the registry either its own call or nothing,
and nothing only if that call was settled.

**`RpcConnection_proofs`**: any calls, ways to destroy, and breaks of the stream.
`ConnectionImplementsCalls`: under `IdsSuffice`, `ConnSpec => Contract!Spec`, the safety part of
`KeepsPromise`: every step of the two channels and the two streams between them is a step of `RpcCalls`
or a stutter. `ConnInv` adds to `Inv` and `SentInv` that a settled call has an outcome, and a response
its own (`CallsFit`), and that whatever is on its way, a request, a request that was taken in, an answer, an
answer that was read, names a call by the id that call was given (`ExchangeFits`).
`DrainsLoseNothing`: `[]DrainLosesNothing` *if a drain is all that ends the connection, unless the
stream breaks* (`OnlyDrains`, the instance of `connection_drain` for any calls): the property says that no call is interrupted
or times out, and any other end may interrupt one. `DrainInv` has the client's end come before
the server's (`ClientEndsFirst`).

**`ClientServices_proofs`**. *The server channel*, finitely many requests, any client.
`SInvHolds` for `SInv`, which joins
to `STypeOK` and `SPendingExact`: `TicksAnswer` (the requests whose chain completes in a tick
have been answered, each once), `EndsWell` (nothing is dropped before the end, and with it, unless the channel was forced
or destroyed as it opened, only the request in whose own event it was destroyed) and `DrainsDeaf` (one that drains listens
no more). From it `STypeCorrect`, `SPendingIsExact`, `GracefulEndIsComplete`
(`[]GracefulEndAnswersAll`) and `DrainTakesNothingIn` (`DrainStopsRequests`). One lemma, `EndedByWhom`, says what
listeners that call `destroy` in the middle of a section can do, and the lemma of `Receive` serves both ways in.

*The chain*, any number of functions, errors and duplicate callbacks.
`MInvHolds` for `MInv`: `Ordered` (functions are kept in the order of the chain and unwound from its end),
`NoneLost` (each one left for the way back is kept or was called), `InTurn`, and
`OneMoves`, which is what makes it work: at any time one callback moves the chain, all others are
duplicates. `EveryChainUnwinds`: `ChainUnwinds`.

*Stateless channels*, any calls. `StatelessImplementsCalls`: `HSpec => Contract!Spec`, the safety part of
`StatelessKeepsPromise`. Requests are sent again after a refusal, so that the invariant has to say, of each call, why a
server that answered or may still answer is never sent another one: `ExchangeFitsCall`. There is
an exchange or a tick that will begin one, never both, and a request was received just if its
exchange was not refused. `StatelessPendingIsExact`: `hpending` is the number of calls made and not yet completed, which a
drain waits for. Its part of the invariant is `CountFits`: a call that was settled stays open until its tick, which is queued
once; the ping has no tick and leaves the count at once, also when its failure interrupts the others. `StatelessTypeCorrect`.

*The pool*, any channels and calls. `CallsGoToOpenChannels`: `[]ActiveExact`, also with the
`destroyChannels` that passes over every second channel: what stays in the array is what it passed over.

*The codecs*, any messages, frames and bytes, any way to cut the stream. `DecodersLoseNothing`: `[]FramesExact`. The invariant
`FrameInv` says where the decoder stands. Its buffer, followed by what has not arrived (the bytes under way and the messages
not yet written, or whatever was lost with the line), is exactly what it has not used of the stream (`Reads`, `Unused`); and
it waits because its buffer does not complete a message (`HasToWait`). `Decoded` runs the loop
of `_transform` for as many turns as there could be, by a function of their number. `StandardTurns` and
`NettyTurns` say of one turn that it keeps `Reads`, and that it uses bytes unless the decoder has to wait (`Measure`); by induction up to the
last turn (`DecodedReads`), so does the loop. What a decoder reads is what was written, because the big-endian bytes of an integer
give it back (`IntIsRead`), its sign included, and a frame that begins a buffer is cut off where it ends (`FrameRead`).
`FramesTypeCorrect`: `[]FTypeOK`.

*All parts together*. `ServicesTypeCorrect`: `[]ServicesTypeOK`, the type invariant of the run, from the conjunction of the
invariants of the five parts (`PartsInv`).

**`ServerLifecycle_proofs`**: any number of processes and starts, *if launches do not overlap*.
`LInvHolds` for `LInv`: `OneUp` (one process at a time), `LiveIsRecorded` (a
server object not yet closed is the one `tcpServer` holds, and the pid file names its process),
`WriteIsAlone` (a start that goes on found none). `LTypeCorrect`, and
`ListeningIsRecorded`: `[]ServerIsRecorded`. Without the hypothesis it is false, which `lifecycle_double` shows.

**`Containers_proofs`**. *The decoder*, any file, sizes and codec. `DInvHolds` for `DInv`: blocks that
were found and not yet taken are with the codec or in the queue, and hold back the write they came
with (`NoneMissing`); the last value that came out and the values left make up the block
that was taken last, and all blocks after that value's are empty (`OutFits`). `ValuesComeInOrder`:
`[](ValuesInOrder /\ EndsAfterLast)`. `FilesAreReadInOrder`: all of `ReadsInOrder`, *if no block
but the last is empty* (`OnlyLastIsEmpty`): the part `NoMissedBlock`, that a stream does not wait for
a block that is there, is false of other files, which the decoder stops reading (section 5).

*The encoder*, any values, block size and codec. `BInvHolds` for `BInv`.
`BlocksNeedNoOrder`: there is never more than one block between the tap and the file; the encoder queues
blocks by an index it never sets, and this is why the file is in order all the same.
`FileIsWellFormed`: every block says how many values it has, and the header comes first, if at all.
`ValuesAreWrittenInOrder`: `[]WritesInOrder`, so that besides every value is in one place, the file, the block under way
or the tap, and in its order. `AllPlaced` says of these three that they hold exactly the valid ones of the
values so far, and in increasing order; each action moves values from one to the next. `EncoderTypeCorrect`: `[]ETypeOK`, by
which the tap is never written past its end, and the end of the file is pushed at most once, by the finish event or by the tick of a
read after it (`EndsOnce`).

*The queue*, any number of items in any order. `QueueKeepsPromise`: `QueueImplements`, the
refinement of `ConsecutiveQueue`; and `QueueTypeCorrect`. The loops of `push` and `pop` are functions of the number of turns
(`Sifted`); that they leave a heap goes by induction on the turns. `Rising` is what a turn of the
one keeps: a heap but for the item that moves, whose children come after its parent; `Sinking` is that of the other. Either loop gets
no further than the length of the list allows, and an item that stays where it is is in its place (`RisenIsHeap`, `SunkIsHeap`).
`HeadIsNext` then says that the first item is the next one exactly if that is in the queue.

*Longs in a tap*, any tap and any long of the integer path. `LongReadsBack`: when what was not read yet, and whatever comes later,
begin with the code of a long (`Cuts`), and all of that code is there, then `readLong` gives the long and takes its code and no more;
and if only part of it is there, the tap is not valid afterwards. The second half is what the decoder waits by. A code is
the digits of a number to the base 128: `VarintLength` finds the last of them by its high bit, and the
number is put together again from its quotients (`Quotients`, `DigitsMakeNumber`), then the sign (`ZigzagsBack`).
`BytesReadBack` says the same of bytes with their length before them, fewer than 2^30, and that to skip them ends where to read them does, so that
a long read in part, and then a length that means nothing, cannot make the tap valid again; `BytesWritten`, that `WriteBytes` puts this
code behind what is there, or leaves the tap invalid.

*The raw streams*, any values that are records of two longs or throw before one, any `batchSize`. `RInvHolds` for `RInv`, of which `AllDue`
is the point: as long as no piece of a value was pushed (`tainted`), the values that came out are the first of the whole ones, and what the decoder has
not read, what is on the wire and what is in the encoder's tap, one after the other, are exactly the codes of the rest (`Due`).
A value that is written adds its code at the end (`TransformWrites`, `DueMore`), whether it fits or the tap is
pushed before it; bytes that arrive change places (`DueArrives`); and a read that is valid takes the code of the next value
off the front, while one that is not leaves all as it was or, with nothing more to come, means that no value was left (`DueIsRead`). Besides, `EndsInTurn` has each end come after the one
before it, and `CalledOnce` why no callback is called twice: while the last write was called back,
the stream does not read again. From it `ValuesComeBack`: `[]RawRoundTrips`, and `RawTypeCorrect`.

*Together*. `OrderIsKept`: `[]StreamsKeepOrder`, as `libraries_parts` checks it, under `OnlyLastIsEmpty`.

**`Mycelium_proofs`**. *The registry*, any repositories, directories, remotes and length of `.gittrees`.
`RegistryInvHolds` for `RegistryInv`, which adds to `RegistryAgrees` that what was fetched comes
from somewhere (`FetchedFromSomewhere`) and that what was just imported is a subtree, whatever was registered by hand before
(`ImportedIsSubtree`). It is assumed of others whose commits a pull brings that they add lines, with a subtree or without, and
remove none. `RegistryMatchesRepository`: `[]RegistryAgrees`.
`CommandsFollowRegistry`: `[]ActsOnRegistry` *if the server is the sole writer*, from `CacheExact`; without
the hypothesis `subtrees_stale` shows it false.

*The lenses*, names, keys of any number of segments, any documents and local root. `LensesShowTheTree`: what was put is read back, what
is listed can be opened, and each file is in one lens. `LensesStayApart`: `LensesKeepApart`, an
action property. What both need are facts about keys: which of their segments are underscored as a lens
appends a name (`KeyAppended`), and that one key only leads from the local root to a path (`KeyIsUnique`).

**`Applications_proofs`**. *The mount*, any files and requests. `FuseInvariant` for `FInv`, and from it
`FuseTypeCorrect` (in which a release that waits for the
drive is of a descriptor still open), `ListingsAreFresh` (`[]FreshListing`) and
`ClosedIsListed` (`[]ClosedFileIsListed`).
Neither property is inductive, because what is cached comes from a listing under
way: `ClocksFit` says of each that its clock was read before the drive, and
`ListingsFit` that it shows what was answered, save `racing`. For a listing to get that
by reading the drive, the drive has to have what was answered (`RevisionsFit`).
`DescriptorsFit`, one release of a descriptor at a time, is what the type of a
waiting release needs when another one closes its own.

*The seed*, any content, any number of crashes and registrations. `ServesWholeContent`:
`[]SeededUnlessInterrupted`; `SeedServesNodes`: `[]SeedServes`, with the list of nodes. For the list `ListInv` says that
no two entries have the same name (`NamesApart`) and that it has just the last registration
of each. `SeedTypeCorrect` follows.

*Managed code*, any workers, roles, faults. `EveryoneFindsTheirRoles`: `[]NobodyGivesUp`, whoever finds the
manager finds what the registry assigns, since it joins the swarm only once all of it was put (`DriveFits`).
`RolesAreServed`: `[]RolesServed`, for any number of roles of the target: roles start while connections arrive, and each
connection is offered those that ran by then. `ManagedTypeCorrect`.

*All parts together*. `ApplicationsTypeCorrect`: `[]ApplicationsTypeOK`, the type invariant of the run, from `PartsInv`, the
conjunction of the invariants of the six parts; a step of one leaves the variables of the others alone (`PartsMove`).
`LensesAgreeAlways`: `LensesAgree`, as `applications_parts` checks it.

**Only model-checked:**

* liveness, and with it the fairness part of `KeepsPromise` and of `StatelessKeepsPromise`, and `ENABLED`: out of reach of the
  prover;
* everything about modules with recursive operators, for which the prover has no SMT backend: types, inferred types, resolvers,
  schemas, adapters; and so the type invariant of `libraries_parts` as a whole, although
  its parts that are about the streams, the queue and the server are proved;
* what a recursive definition computes for every input: the library's induction theorems take an operator as parameter, which the
  provers cannot instantiate. Induction over a *set* of numbers can be done (`Upwards` in `SequenceLemmas`), and with it what a
  function given step by step computes (`Iterated`): this is how the loops of the queue and of the decoders are proved.

## 5. Where code and documentation disagree

Each of these has a run in which TLC finds the property violated.

* **Ids** (`client_wraparound`). `Registry.add` takes the next id without looking
  whether it is in use. A call without timeout that waits while 65 536 others are
  made loses its callback, with two calls outstanding. `services.js` 85: "supports
  ~64k concurrent messages".
* **One-way calls** (`client_oneway_found`). The tick that settles a one-way call
  calls what the registry holds under its id; a `destroy(true)` in between leaves
  `undefined` there and the exception is uncaught. `services.js` 1336: "Clear the
  callback".
* **destroyChannels** (`pool_destroyall`). It walks the array its own effect
  shortens and passes over every other channel. `api.md` 174: "Destroy all active
  channels."
* **Two starts together** (`lifecycle_double`). Both find no server, both write the
  pid file; the one whose `listen` fails removes it. `rpc-server/README.md` 52:
  "prevents double-start".
* **A command during start-up** (`lifecycle_window`). Between the scan of the
  directory and the watch a command is seen by nobody, and sending it again creates
  no file. `rpc-server/README.md` 118: "handles commands that arrived before the
  watcher started".
* **The cache of `.gittrees`** (`subtrees_stale`). `load` returns one cache, which only
  `register` resets: a line that comes with a `git.pull`, or belongs to another repository, is not
  seen until the server restarts. `lib/git/README.md` 77: "Subtree operations are validated
  against `.gittrees`".

Seen while modelling, without a run of their own. Channels:

* `destroy()` of a channel before its handshake fails the calls queued for it at
  once, although `api.md` 330 has it wait for pending messages: queued calls are not
  pending.
* A server channel that is destroyed by a listener of its own `handshake` event
  goes on taking in requests, because `onHandshake` then installs the request
  listener (`services.js` 1729: "Stop listening to incoming events."). The server
  properties exclude it by `smidway`.
* A listener of `incomingCall` that destroys an idle server channel ends it at once, although the request it
  was told of is then put to its handler; an `error` listener that does so from the completion of the last
  request ends it before that request's response is written. Either response is thrown away, although `api.md` 330
  has `destroy()` wait for pending messages. The server properties except these requests (`scaught`).
* A one-way handler that throws is reported, but its chain does not go on: `pending` stays up, and a channel that
  drains waits for it for ever (`services.js` 1497).
* The `timeout` option of a channel is not used for calls made through a client:
  `_emitMessage$` has already filled in the client's own default.
* `destroy(true)` of a stateless channel whose ping and another call are both
  unanswered raises a TypeError: the ping's failure destroys the channel from inside
  `Registry.clear`, whose walk then finds no callback (`services.js` 1908).
* `discoverProtocol` parses `undefined` if the connection ends before the handshake
  (`services.js` 468).
* A Netty stream cut right after the eight bytes of a header ends without the error of trailing
  data: the flush is that of the other decoder and looks only at bytes (`HeaderOnly` in
  `FramesExact`). Stateful channels do not listen to a decoder's errors anyway.
* A response to a ping is not checked for truncation (`services.js` 1945).
* `Message.schema()` passes one argument to `_attrs`, which needs two, and so always throws
  (`services.js` 155).

Types and schemas:

* Schema resolution keys records by name, so that anonymous ones share the key
  `undefined:undefined`, and a record whose resolver failed on one branch of a union stays registered
  without a way to read. `ResolverSound` excepts both (`Muddled`).
* The schema written by a type gives no namespace to names that have none; inside a definition that
  has one they are misread. `test_types.js` 3281, 'namespace reset', reads such a schema but does not write it.
  `SchemasExact` says exactly when (`Misread`).
* A logical type whose constructor throws is passed over, as the comment at `types.js` 176 says, but it
  stays in the caller's registry (`types.js` 183), so that later references by name get it.
* Strings are compared by UTF-16 units in values and by UTF-8 bytes in encodings: they differ for
  characters beyond the basic plane, which the samples compare only with characters for which they do not.
* `combineObjects` throws for a default of `bytes` type; `forTypes` throws for two equal logical types.
* An array's `_match` looks at the size of the first block only, so that two encodings of one array in different
  blocks are not equal (`docs/types.md` 168).
* `LogicalType._fromValue` is called on values that were read past the end.
* A number inferred `float` is not given back as it was if 24 binary digits do not hold it (`types.js` 250, where only integers
  of 2^53 and more become `double`). A `float` that is read from a long by a resolver is not rounded: `types.js` 1008 says
  "we're always rounding to float anyway", but the value stays what `readLong` made of it.

Streams:

* An empty block that is not the last stalls `BlockDecoder`: `_read` takes it from the queue, pushes
  nothing, and waits to be called by a push (`test_containers.js` 779, 'empty block', has it alone).
* `BlockEncoder` numbers blocks by an `_index` it never sets (see `BlocksNeedNoOrder`).
* When a value does not fit, `RawEncoder` pushes the whole tap, and with it the beginning of that value,
  which is then written again (`containers.js` 347: "Emit any valid data."). A value that throws half-way
  leaves its beginning in the tap. Either way, whatever follows is misread: `RawRoundTrips` says that the values come back
  if neither happened (`tainted`), and `MCWrites` has streams of each kind. (The converse is no
  law: a last value that throws after its first long taints the stream, and the decoder drops that long with the end.)
* `RawDecoder` pushes values of length zero for ever, and drops a last value that is cut short.
* `docs/containers.md` names the option `readerType`; the code reads `readerSchema`.

Server and mycelium:

* A restart command found by the scan stops the server before the watcher is
  recorded; the next start makes another, and the first is never closed
  (`lifecycle.js` 54). `leaked` models it.
* The exit handler removes the pid file whatever it says (`lifecycle.js` 12).
* `remove` of a directory through the data lens removes the underscored files in it, which that lens
  does not show (`data/remove/index.js` 33 against 8).
* A field `_x` of a document with an ordinary name is in neither the data nor the metadata lens
  (`metadata/get/index.js` 60; `metadata/doc.md` 5 has every underscored node in the latter).
* `raw/put/doc.md` says that put respects navigation into files; a put below a file fails. Listings
  inside a document are not filtered.
* `register` appends a line also when there is one for the directory; the first one counts. A
  `subtree add` ignores that a remote of that name exists, and imports from wherever it points. After
  a crash between import and registration a second add fails, because the directory is there; only
  `subtree register` repairs it. `register/doc.md` 6 means `register` for files already in the tree;
  nothing looks whether they are (`register/index.js` 43), and pull and push then act on what is no subtree.

Peer to peer:

* A worker with two roles offers on a connection that arrives between their starts only the
  first, and never the second (`worker.js` 93), as `late` records in `applications_parts`. `README.md` 21 of
  phase 5: "serves each on its own named protomux channel".
* The client keeps its first channel, also when its connection has broken and another is
  there (`client.js` 58). `TargetAnswers` excepts it.

## 6. What is not modelled

* Of floats: halves of 2^30 and more, fractions finer than a half, infinities, NaN, negative zero and numbers too small
  for a full exponent.
* Of `avsc`: the parser of the IDL, files and platform code, which is text, input and output;
  generated constructors and classes, the hooks of `clone`, random values: no state, and no promise beyond that of
  the type they are made from. Compression is external.
* Of `avsc-rpc`: the parsing of declarations into services (`Message._attrs`, `Service.equals`): frozen at
  start-up. Caches of several protocols by hash: a peer is compatible or not, known or
  not. The server object's table of channels, which is only added to and removed from. A
  handler that calls back twice in one tick (`services.js` 1483): `MiddlewareChain` has
  duplicate callbacks, but not the encoding of the first answer, which the second overwrites.
* The contents of messages in the models of channels: data their properties do not tell apart.
* The request log, the `spl` command and its display, launch scripts: one pass from input to output.
* mycelium's dispatch, execute and help: synchronous functions from record to record, whose caches of handlers, schemas and
  aliases are filled from the repository asked first and never emptied (`dispatch/index.js` 30); a
  model would restate that. What status, log and diff print.
* Keys of the lenses with `.` or `..`, array indices and inherited properties in the navigation
  into documents, and the names of types in them.
* Phases 1 to 4: programs that try out one mechanism each, with no state but the connected
  peers. Phase 0 (containers, monitoring), phase 6 (a probe of a reactive core).
* Of phase 5: the two ways to run the code of a role, and the drive, swarm and channels themselves.
* Of phase 7: the bytes of files (a write to a file that was opened and not created drops
  what the file held, `mount.js` 188), overlays, the log of runs, the pages of the HTTP
  interface and running apps.
* A queue of events that overflows, memory, and time: a timeout may fire at any moment
  after it is armed.

## 7. Plan

Done, in this order: `ClientChannel`, its proofs, `ServerChannel`, `RpcCalls`,
`RpcConnection`; `ServerLifecycle`; `ClientPool`, `MiddlewareChain`,
`StatelessChannel`; `FuseMount`, `WorldView`, `SwarmSeed`; the codecs; the types, resolvers,
schemas and streams of `avsc`, and the adapters on top of them; `GitSubtrees`, `XPath`,
`ManagedWorker`; and the proofs of section 4. What is left:

1. Proofs: strings, of which `Utf8` and `Units` are recursive, and the types, once their operators are written as
   functions of the depth of a type instead of recursively.
2. `PeerRouting` (phases 1 to 4), if these programs are kept, and `Execute` (dispatch and its
   caches), if the server is to serve more than one repository.
3. Larger samples: types drawn at random rather than listed.

# A TLA+ model of rexa

rexa is a Rust implementation of OCapN: CapTP sessions between nodes, carried by
netlayers. This directory models the parts of it in which tasks, connections and
locks interact and the two algorithms that rewrite what an application gives them
(locators and the `impl_object` macro), checks them with TLC on small instances, and
proves safety properties with TLAPS for every instance.

Paths below are relative to the repository's root (`src/` in `PROJECT.json`).

## 1. The system

| Component | Code | State | Operations |
|---|---|---|---|
| Export table | `src/captp/session/keymap.rs`, `ExportManager` in `session/internal.rs` | a sharded map from positions to objects, an atomic key counter | `reserve`, `finalize`, `get`, `export_object` |
| Session | `session/internal.rs`, `session.rs`, `session/traits.rs` | writer and reader behind one async mutex each, two abort flags | `send_msg`, `recv_msg`, `recv_event`, `abort` |
| Resolvers and promises | `session/resolver.rs`, `object.rs` | one-shot channels of the answers that are awaited | `fulfill`, `break`, `deliver_and` |
| Bootstrap object | `object/bootstrap.rs`, `recv_event` | none | `fetch` |
| Session establishment | `session/builder.rs`, `msg/start_session.rs` | the connection and keys of a session that is being set up | `and_connect`, `and_accept`, `recv_start_session` |
| Session manager | `session/manager.rs` | a node's sessions by designator | `get`, `init_session`, `finalize_session` |
| Netlayers | `lib/rexa-netlayer-datastream`, `-mock`, `-onion` | a listener, the manager behind an async `RwLock`, the mock's process-wide registry | `connect`, `accept`, `bind`, `close` |
| Syrup framing | `src/captp/io.rs` | a read buffer | `fill_buf`, `try_consume_syrup`, `consume_syrup` |
| Messages | `src/captp/msg.rs`, `msg/` | none | encoding, decoding |
| Locators | `src/locator.rs` | none | to and from URIs and syrup |
| Swiss registry | `session/registry.rs` | a map from swiss numbers to objects | insert, fetch |
| `impl_object` | `lib/rexa-proc` | none (compile time) | generates `Object` implementations |
| Async compatibility | `src/async_compat.rs` | none | re-exports |

How they interact. A netlayer's `connect` and `accept` open a connection, take the
write lock of the node's session manager and exchange `op:start-session` through the
builder; the session goes into the manager and to the caller. The application then
calls `recv_event` in a loop on some tasks and sends from others. `recv_event` takes a
message off the connection under the reader's mutex, lets go of the mutex, looks the
target up in the export table and awaits the object's handler in place; the handler
may export objects and send replies on the same session, which takes the writer's
mutex. `abort` sends `op:abort` like any message and then raises a flag that
`send_msg` and `recv_msg` look at before they take their mutex.

What is hard about it, with the properties that make each part correct (the full list,
by line, is `hazards` in `PROJECT.json`):

* *Check, then wait.* The abort flags are read before a mutex is awaited. What still
  goes out, and what is still acted upon, after an abort must be bounded:
  `SilentAfterAbort`, `DeafAfterAbort`.
* *Read, then dispatch.* The reader's mutex is released before a message is acted
  upon. Deliveries must keep their order as far as one receiver is concerned, and
  none may be acted upon twice: `InOrder`.
* *Handlers in the receive loop.* A handler that replies does so while nobody reads, and
  one that waits for the answer to its reply (`fulfill_and`) keeps its own receiver from
  reading that answer. A send may wait only for a remote that has stopped reading:
  `SendsComplete`; an abort must get through: `AbortHeard`.
* *Reserve, announce, insert.* The `exported` callback learns a position before the
  object is in the table, may panic in between, and others export meanwhile. Positions
  must be unique, permanent, and resolve once they are inserted, which is before `export_object`
  returns them: `IssuedResolve`, `AnnouncedUnique`, `ReservationsExclusive`, `PositionsStable`.
* *Bytes, not messages.* Sends write in pieces and receives look at whatever is in a
  buffer. Messages must come out whole, once and in order: `IsChannel`; and come out at
  all: `ReceivesComplete`.
* *A blocking lock across an await.* `recv_event` keeps a DashMap reference while a
  handler is suspended. `ExportsComplete` says which deadlocks that causes, and that
  there are no others.
* *A lock across a network exchange.* The manager's write lock is held while
  `op:start-session` is awaited. `HandshakesComplete` says which deadlocks that causes,
  and that there are no others.
* *Look up, unlock, dial.* Sessions are registered while a `connect` is under way.
  What `connect` returns and the manager keeps must be a session that both ends agreed
  on, with the right node: `ConnectReachesTarget`, `RegisteredBothStarted`.
* *Take, then send.* A delivery takes a promise's sender out of its mutex and uses it
  afterwards, while others deliver and the caller may go away. One result at most is
  accepted, the caller gets that one, and whoever is refused has a reason: `IsSettlement`,
  `NeverRecvError`, `SettledEnds`. Who is refused breaks a promise at the remote, whose
  reader may die of it: `PanicsByLateDelivery`.
* *Remove by name.* The mock registry is cleaned up by name under a lock of its own, so a
  node that was bound meanwhile loses its entry: `OneNode`, `AcceptUnwraps`. Nobody may wait
  for a node that is gone: `NoneStranded`, `ConnectEnds`.
* *To text and back.* Locators are escaped in four ways when printed, and in one part not
  unescaped when read: `RoundTrips`, `SwissKept`, `AddressKept`, `PanicsByQueryPort`.
* *Attributes that meet.* Two attributes on a function, two functions with a symbol, a
  method and generated code with one resolver: `NoRoleDropped`, `LastClaimServes`,
  `ResolvedOnce`.

## 2. The plan

The order is by how much of the system depends on the part and how little a test
reaches it.

1. `ExportTable`, with proofs. Done.
2. `Session`, with proofs. Done.
3. `Handshake`, with proofs. Done.
4. `Channel` and `Framing`, the bytes under `Session`, with proofs. Done.
5. `Settlement` and `Promise`, the promise behind a `deliver_and`, with proofs. Done.
6. `MockRegistry`, with proofs. Done.
7. `Locator` and `ImplObject`, the sequential algorithms, with proofs. Done.
8. Every invariant and action property that a run checks, as a theorem. Done; section 5 says
   what stays with TLC.

`Session` composes with `ExportTable` through the lookup of a target (a message to a
position that is not there is the kind `"unknown"`), relies on the channel that `Framing` implements, and gets its
connection from `Handshake`, which takes up where `MockRegistry` has answered a request. A `deliver_and` of
`Session` waits for what `Promise` settles. Each is kept to the state its own properties need, because the product is
out of TLC's reach.

## 3. The modules

Definitions carry the names of the code; `map` in `PROJECT.json` gives the lines of each.
`MC...` modules give constants their values, `...Proofs` modules hold the theorems. An
operator whose comment begins with "Mutant" is a wrong version of the definition that
follows it. It is no part of the specification: putting it in the place of that definition
breaks the property listed with it in `PROJECT.json`, which shows that the property
depends on it.

### ExportTable

State: `current_key` and `map` of the `KeyMap`; for each task its place in the code, the
key of the `Reservation` it holds and the object it exports; `guard`, the key whose shard
a receiver read-locks through its `Ref`. `announced` and `issued` are histories of what
`Object::exported` was told, also where it panicked, and what `export_object` returned. A
delivery to a position that has been announced and is not in the table yet is an
`UnknownTarget` in the code and in the model; `IssuedResolve` says that this ends with the
insertion and that only a callback that panicked keeps a position announced for good.

| Action | Code |
|---|---|
| `Reserve` | `KeyMap::reserve`, a `fetch_add` modulo `KeySpace` |
| `Exported`, `ExportedPanics` | the call of `Object::exported`, which may panic |
| `Finalize` | `Reservation::finalize`: waits for the shard's write lock, inserts |
| `Lookup` | `KeyMap::get` for the target of a delivery, or `UnknownTarget` |
| `Await`, `Resume`, `Return`, `DeliverPanics` | the handler's future and the end of the `Ref` |

Worker threads are counted: a thread that waits for a shard lock blocks its worker, a
suspended handler does not occupy one. A reference to a shard is obtained even when a
writer waits for that shard. `KeyMap::push`, `remove` and `get_mut` have no caller in the
repository, and `export_answer` is `todo!()`.

### Session

State of each peer: the two abort flags, the holders of the two mutexes, `written` (the
messages it has put on the connection) and `nread` (how many of the remote's it has taken
off). Of each task: its place, the message it sends, the index of the message in its
hand. `done`, `lateSent` and `lateDone` are histories.

| Action | Code |
|---|---|
| `Call` | an application task calls a method that sends |
| `SendCheck`, `LockWriter`, `Write`, `WriteFails` | `send_msg` |
| `LocalAbort` | `abort` after its send, successful or refused |
| `RecvEvent`, `RecvCheck`, `LockReader`, `Read` | `recv_event` and `recv_msg` |
| `Dispatch` | the match of `recv_event`, the handler and the reply it makes with `ReplyTo` |

Messages are kinds: what `recv_event` tells apart, including those on which it panics. A
handler is what it does with the resolver it is given (`Uses`): it drops it, sends by it
(`fulfill`, which stands for `break_promise` and anything else that is only sent), or awaits
`fulfill_and`. A caller of `deliver_and` and a receiver whose handler awaits `fulfill_and`
then are at `"answer"`. No action leads on from there, because no code does at this commit:
only `Resolver::resolve` would wake them, and the generated dispatch that should call it is
`todo!()`.
The connection carries whole messages in order and holds `WireCap` of them (`Framing`
says how far the bytes do); a failed write leaves nothing that the remote sees. Loads of the two relaxed flags are immediate,
and are one step: the flags only rise, so what a task could see between the two loads it
could also see before or after both. Futures that are dropped before they complete are
not modelled.

### Channel and Framing

`Channel` is what a session relies on: `frames`, the messages sent, with `Torn` in the place
of one that was cut short, and `got`, what was received, which is the messages sent in
their order up to the first `Torn`, and anything from there on.

`Framing` is one direction of a connection. `wire` is every byte written so far, a byte
being a message and an index; `passed`, `filled` and `consumed` count how many of them have
left the writer, are in the reader's buffer, and were consumed. Each sending task has its
message and how much of it is written. `frames`, `starts` (where each frame begins) and `got`
are histories.

| Action | Code |
|---|---|
| `Send`, `LockWriter`, `Write` | `send_msg` past its check; `write_all` a byte at a time, since the reader may see any prefix of what a write takes |
| `CutShort` | an error of `write_all`, or the future of the send is dropped |
| `Close`, `PassOn` | the writing half is dropped; bytes travel in pieces of any size |
| `Recv`, `CancelRecv` | `recv_msg` takes the mutex and calls `consume_syrup`; its future is dropped |
| `FillBuf` | `fill_buf`: reads only if the buffer is empty |
| `Lex` | `try_consume_syrup` and the loop of `consume_syrup` |

The tokenizer of the syrup crate is modelled by what the encoding guarantees: a message
is found if all of its bytes are there, part of one is `Incomplete`. What it makes of the
rest of a message that was cut short is left open: an error, `Incomplete`, or some tree.
The reader's mutex is held over the whole of `consume_syrup`, so the receivers are one task.
A writer may keep bytes until it is flushed (`buffered`), as that of the onion netlayer
does; `send_msg` does not flush.

### Handshake

State of each node: its manager's sessions by designator, the task that holds the write
lock, the connections that wait to be accepted. Of each connection: the ends that have
sent `op:start-session` and those that gave up. Of each task: its place, the session it
sets up, and for connectors the node they were asked for and the session `connect`
returned. `net` is the netlayer of all nodes, chosen at the beginning: they differ in
whether `connect` looks for a session first (the onion netlayer does not), whether dialling
waits for the other node's `accept` (mock, onion), and in who sends first (on the mock
netlayer both ends do).

| Action | Code |
|---|---|
| `Connect`, `Lookup`, `Dial`, `DialFails`, `Dialed` | `Netlayer::connect` up to the write lock |
| `Accept` | `Netlayer::accept` up to the write lock |
| `LockManager` | `manager.write().await` and `init_session` |
| `SendStart`, `RecvStart`, `HandshakeFails` | `and_connect`, `and_accept`, `recv_start_session` |
| `Finalize` | `finalize_session` and the return of the session |
| `Abort` | an abort of a registered session |

The backlog is a set, so connections may be accepted in any order. The `RwLock` is not
FIFO in the model; connects are bounded, so weak fairness of taking it is enough. Keys
and signatures are one way in which an exchange fails. An end whose connection was closed
never returns from `consume_syrup`, which tries again on an empty buffer: the model has no
action for it, and `closed` only serves to say so in `Abandoned`.

### MockRegistry

The registry seen through one name: different names never meet. `entry` is the node that is
listed; of each node there is whether some `Arc` of it is held, it is being closed, dropped,
or gone (`life`), whether an `accept` waits, and its queue of requests; of each `connect` where
it is. `overtaken` is a history: nodes that were bound while a removal by name was pending.

| Action | Code |
|---|---|
| `Bind` | `bind`, under the write lock |
| `Release`, `DropReceiver` | an `Arc` is dropped, and with the last one the receiver of requests |
| `Close`, `CloseRemove` | `close`: the last `Arc` is unwrapped, then the entry of the name removed |
| `Connect`, `Clean` | `connect` under the read lock, and its clean-up under the write lock |
| `GiveUp` | the future of a `connect` is dropped |
| `Accept`, `Accepted`, `AcceptPanics` | `accept`: the wait, the answer, and the `unwrap` |

### Settlement and Promise

`Settlement` is a promise as its users see it: deliveries are pending, accepted or refused, one
at most is accepted, the caller gets its result, and a delivery is refused only when another
was first or the caller is gone. `Promise` is the code: `sender` in its mutex, the one-shot
channel `slot`, the `deliver_and` that owns the receiver, the deliveries' places, and the breaks
they send when they come too late. The refinement mapping makes a delivery the winner from the
moment it takes the sender.

| Action | Code |
|---|---|
| `Delivered`, `Poll`, `Cancel` | `deliver_and`: its send, the end of its wait, its future dropped |
| `Resolve`, `Send` | `Resolver::fulfill` and `break_promise`: `sender.lock().take()`, then `send` |
| `BreakOwn`, `RecvBreak` | a refused delivery breaks its own promise at the remote, by an `op:deliver-only` that `recv_event` there dispatches by its target |

What the remote has at the position that a delivery names decides what the break does to it:
at 0 the bootstrap object, whose `deliver_only` is `todo!()`; in `Generated` an object of
`impl_object`, the Resolver of a `deliver_and` or `fulfill_and` among them, whose generated
`deliver_only` is `todo!()` as well; elsewhere nothing or an object with a `deliver_only` of
its own, and the reader goes on.

`Promise` has Resolver's methods as they are written. At this commit the `deliver` that should
call them is generated as `todo!()`, which is what `session_answer` shows; `Promise` says that
the methods are right once they are called.

### Locator

A text is a sequence of tokens, a token being a character that some component treats
specially, a run of others, or the escape of one. `Display` prints a locator with its hints in
any order of the hash map, `Read` reads the URI as a node and as a sturdyref, `Adopt` takes a
locator that was read from a foreign URI to be printed again. What fluent_uri does (which
characters it escapes where, that a port is digits, that the parts of a URI it built are
the parts it parses) and what `IpAddr` and `u16` parse are constants and marked external; what
is assumed of them is stated as assumptions, which TLC evaluates in `pure`. The loop of
`encoded_query` is a recursive function: `PushPair` adds the `EncodedPair` of one more hint.

The repository lists reading URIs as not done (`README.md:46`), so what the properties find is
no divergence. They say exactly what survives: not IPv6 addresses and Unix paths in the
designator, which come back escaped; not hints with `&` or `=`, one of which may even replace
the port.

### ImplObject

The items of an impl block arrive one by one. `metadata` and the tables of the `ObjectDef` are
the macro's own state, `base` the functions as it leaves them and `block`, a history, as they
were written; `output` is the generated implementation.

| Action | Code |
|---|---|
| `ParseMetadata` | `Metadata::parse` |
| `Plainly`, `Export`, `Deliver`, `DeliverOnly` | `ObjectFn::process` with the attribute's and the parameters' processing, and the arm of `parse2` for its result |
| `RejectFn`, `RejectItem` | the errors, any of which ends the expansion |
| `Expand` | the end of `impl_object` |

Constants and types are passed over, so there is no action for them. `Arm` is what
`DeliverFn::to_tokens` would do to the resolver; the dispatch that would use it is commented
out. Nothing is said about what rustc makes of the types, but that an attribute of the macro
which is left in the code does not compile.

## 4. The runs

| Run | Instance | What it shows |
|---|---|---|
| `export_table` | 2 exporters, 2 receivers whose handlers export, 2 shards, 2 workers, 4 keys, 2 deliveries | the safety properties; an insertion waits forever only in a ring of `Ref`s or behind suspended handlers that no worker is left to resume |
| `session_abort` | both ends abort; one sends deliveries too, whose handlers drop, reply or ask back; 2 concurrent receivers at one end; capacity 2 | the safety properties of `Session` |
| `session_live` | fetches, deliveries, unknown targets and aborts; handlers drop, reply or ask back and wait; capacity 1; writes may fail | `SendsComplete`, `AbortHeard` |
| `framing` | 2 senders, messages of 1, 2 and 4 bytes, a buffer of 3, a connection of 4, 3 sends | the bytes implement `Channel`; `ReceivesComplete` |
| `session_answer` | a `deliver_and` or a `fetch`, the target always replies | a violation: the answer never arrives |
| `handshake` | 3 nodes, one of another version; a node connects to itself, to a second one twice at a time, and that one back; all netlayers | the safety properties of `Handshake` |
| `handshake_live` | 2 nodes, two connects in one direction and one in the other; all netlayers | `HandshakesComplete` |
| `handshake_tcp` | 3 nodes of which two share an IP address | a violation: `connect` returns a session with the wrong node |
| `handshake_stale` | a node connects twice with an abort in between | a violation: `connect` returns the aborted session |
| `mock_registry` | 3 nodes, 2 owners, 2 connects | the safety properties of `MockRegistry`, `ConnectEnds` |
| `promise` | 3 deliveries with either method, whose descriptors name the bootstrap, an `impl_object` object or another | `Promise` implements `Settlement`; `SettledEnds`; what the remote's reader dies of |
| `pure` | 2448 locators with up to 2 hints, 4 designators (a name, IPv4, IPv6, a path) and 3 transports, each with 4 swiss numbers; 1764 foreign URIs; blocks of up to 2 of 209 functions | the properties of `Locator` and `ImplObject` |

Bounds. `MaxKey` bounds exports, `MaxSends` the sends in `Framing`, `MaxDeliveries` deliveries, `MaxCalls` the calls of each
application task, `WireCap` the connection, `MaxDials` the connections each connector opens.
Four keys let each of the four tasks be in the middle of an export at once, or one task
export twice across the others; `KeySpace` is larger than `MaxKey`, so that the counter does
not wrap, which in the code takes 2^64 exports. Two deliveries let both receivers hold a
`Ref`, of one shard or of both. Three calls of a caller are enough for a send before, at and
after an abort. A capacity of one or two fills. The lengths in `framing` are such that
two messages fit into the buffer, that one may be split, and that one never fits. Two receivers at an end are needed for
overtaking. One dial of each of three connectors is enough for crossed hellos, a node
that connects to itself, two connects that race for one manager entry, and a third task
that waits behind a wedged lock; it takes a second dial to meet an old entry, which
`handshake_stale` and `handshake_tcp` do. The theorems do without these bounds, except that
the counter does not wrap.

Two hints are enough for one to replace what another says, and the values are such that
each is escaped in one component and not in another, holds a separator, or names the port.
Two functions meet in every way in which their attributes can; the menu has each attribute,
each option with and without a value, and the pairs of attributes. In `mock_registry` a
third node can be bound while one is closed and another is cleaned up; three deliveries let
two be refused in different ways, and three positions are one of each kind of target.
Writes fail in `session_live` and not in `session_abort`, where they would make the
instance too large: that `abort` raises its flag when its write fails is in
`SilentAfterAbort` for the theorem, the run has the aborts that are refused.

`pure` runs two modules that share nothing; a behaviour of it is about one of them.

Deadlock checking is off in every run but `mock_registry`: callers stop calling at their bound and receivers
wait for messages. What may wait forever is said by the liveness properties.

### Fairness

Weak fairness of every step that a task takes by itself: the runtime polls tasks that can
run, and a mutex or a lock that is free is given to one of those that wait. On top of that
it is assumed that the application keeps calling `recv_event` and `accept`, as both are meant
to be called in a loop, and that a handler's future becomes ready, unless it waits for an
answer through the session that runs it: `Session` has that wait, and `NotReading` names it
as one of the ways in which a session stops reading. Callers need not call. In `ConnectEnds`
the call of `accept` includes its return: that the handshake with the node that connected
ends is assumed there, and `HandshakesComplete` says when it does not.
A receive may be given up any number of times, but not each time before it has looked at
what came, hence strong fairness of `FillBuf`. A connection delivers unless its writer
buffers. Threads that have begun to close, drop or clean up a mock node finish. A promise
needs only that a delivery which has taken the sender goes on, since nothing is awaited
between the two, and that its caller is polled when woken. Failures (a panic, a failed write, a failed dial or exchange, an abort) need not happen.

### Findings

The violation runs state what the repository says and show an execution in which the code
does otherwise; `findings` in `PROJECT.json` quotes the lines.

* `session_answer`: the README lists `fulfill` as done. The session's own `Resolver` is an
  `impl_object`, whose generated `deliver` and `deliver_only` are `todo!()`: the answer panics
  the receiver and the caller of `deliver_and` waits. The README lists `fetch` as done too:
  `RemoteBootstrap::fetch` sends the swiss number as a byte string, `recv_event` accepts a
  symbol and else panics, with the same end. As nothing wakes a task that waits for an answer
  (section 3), the run shows how each request ends at a panic; it could not show how far a
  repaired `recv_event` would get.
* `handshake_tcp`: `locator.rs` says that the designator distinguishes nodes of a netlayer. The
  TCP listener's designator has no port. (At this commit the TCP read half lacks the
  `AsyncBufRead` that the datastream netlayer's `Netlayer` implementation asks for; the locator
  is part of the listener, whatever is built on it.)
* `handshake_stale`: `netlayer.rs` says that `connect` opens a new connection. It returns the
  session the manager has, and nothing removes an aborted one.

`ReceivesComplete` describes a further weakness that no document denies: `consume_syrup`
tries again without reading more, so a message that is not in the buffer as a whole when
the reader first looks at it, because it arrives in two pieces, straddles the end of the
buffer or is longer than it, is never received, and nothing after it is either.

Two more were met while modelling. `GenericResolver::break_promise` sends `op:deliver-only`,
while Resolver lists `break` under `#[deliver]` alone: with the generated dispatch in place a
break would still find no method. And `CapTpSessionInternal::imports`, which
`into_remote_object` looks at, is never added to, so it returns `None` for every position but
that of the bootstrap object.

Crossed hellos, the deadlock that `HandshakesComplete` names, are not among them: the
README lists their mitigation as not done.

## 5. The proofs

Each component's safety properties are theorems `Spec => []P` (or `Spec => P` for the action
property), proved from an inductive invariant `Inv`, which TLC also checks in the runs of
`ExportTable`, `Session`, `Framing` and `Handshake`. One
lemma for each action shows that it preserves `Inv`.

* **ExportTableProofs.** From `TasksAssumption`, `KeysAssumption` (the counter does not
  wrap) and `ShardAssumption`. `IssuedResolve` and `AnnouncedUnique` are not inductive: a
  `Reserve` could take a key in use. `FreshAbove` adds that nothing at or above the counter was
  touched, `ReservationsExclusive` that no two tasks hold a key and that its entry is empty,
  `AnnouncedByCall` that a key has not been announced before its callback runs, and is
  announced for the object at hand from then on: what a `Finalize` inserts is what was announced.
  `PositionsStable` then follows, because `Finalize` is the only action that writes the map and
  finds the entry empty.
* **SessionProofs.** For any number of sessions, tasks and receivers, any menu and capacity.
  `SilentAfterAbort` counts the message a task is about to write; it is preserved because a
  task passes `SendCheck` only while nothing is aborted, when nothing of it is late yet
  (`LateCounted`). Its second part, that `abort` has aborted the session when it returns, holds
  because no way out of the send leads past `LocalAbort`, whether it was refused, failed or
  succeeded, which is what `NotReturned` says of every other step. `DeafAfterAbort` names the receiver that dispatched `op:abort`. `InOrder` needs
  `Accounted`: everything that was read is dispatched or in exactly one hand, and nothing
  beyond `nread` is.
* **HandshakeProofs.** For any nodes, tasks and netlayers. `RegisteredBothStarted` needs
  `HalfWay`, what a task knows at each point of the exchange, and `ConnOwned`, that a task sets
  up a session of its own node; `ConnectReachesTarget` needs `FiledUnderRemote`, and is proved
  under the assumption `UniqueDesignators`, which the TCP netlayer does not meet.

* **FramingProofs.** For any senders, messages, lengths and capacities: `Spec => IsChannel`. The
  refinement mapping is the identity on the histories `frames` and `got`; what has to be shown
  is that a tree that the reader returns is the next of `frames`. `FramesLaid` and `OpenLaid`
  say that `wire` is the frames one after the other and then what the holder of the mutex has
  written, `MutexOwned` that there is one such holder, and `Aligned` that the reader is at the
  beginning of the frame after those it has returned.

* **MockRegistryProofs.** From `NodeAssumption`, for any owners, nodes and connects. `OneNode`
  is not inductive: a removal that is still pending may hit a node that is bound in the
  meantime. `Unthreatened` says that against a node that was not overtaken no clean-up and no
  close is pending, `Held` that what an owner holds is alive, and `Waits` that a request that
  waits is in the queue of exactly one node that has not been dropped: from the last one follow
  that no request is stranded and that the `unwrap` of an accept does not panic.
* **PromiseProofs.** From `PromiseAssumption`, for any deliveries and positions: the invariants and
  `Spec => IsSettlement`. `OneClaim` says that at most one delivery has taken the sender, or
  had its result accepted, `Carried` that the result in the channel or in the caller's hands is
  that delivery's, `NotLost` that while the caller waits the sender is in the promise, in a
  delivery or has left its result in the channel, `LateForCause` that a delivery that was
  refused came after another that holds its claim or after the caller had gone, and
  `BreaksTold` that a break goes out only for such a delivery. `PanicsForCause` follows from
  the last two, for any objects that the remote exports. The refinement maps the outcome to the delivery that has
  claimed the promise.
* **ImplObjectProofs.** From `FnsAssumption` (a function is a record, attributes and options are
  lists) and `NoValueAssumption`, for any functions and blocks of any length. `Good` says of a
  method, when it is kept, who resolves. `base` is the block stripped function by function, and
  taking off one attribute leaves every other one in place, so that a second role shows.
  `ServedIn` strengthens `LastClaimServes` to every symbol and every prefix of the block: the
  function that is added either claims the symbol and is the last, or changes nothing.

* **LocatorProofs.** For any tokens and escapes, texts of any length, any number of hints and
  any order in which the hash map gives them. `EscapeAssumption` and `SafeAssumption` say what
  percent-encoding needs to be undone, and that separators stand for themselves in their component;
  `LocatorsAssumption` and `ForeignUrisAssumption` what a `NodeLocator` and a URI from elsewhere
  are; `IpAssumption`, used for the address only, that no address holds an escape and no IPv4
  address goes on after a dot. The invariant `LInv` says that a URI of a locator is that locator printed in some order
  of its hints, that what was read is that URI, and that a locator from elsewhere is what its
  `origin` is read as. The properties then are facts about the operators, proved as lemmas: what is encoded
  decodes to itself (`DecodeEncode`); the last dot of a host is where it was joined exactly
  if the transport has none (`HostSplit`, `NoDotAfter`); a segment without `&` that is pushed adds itself to the
  segments (`SegPush`), so that the segments of the query are the pairs of the hints
  (`SegsAre`); and a key that was read holds neither `&` nor `=` (`PairRead`), which is why a hint that does
  cannot come back.

  Some of this needs an induction over the hints that the loop of `encoded_query` has added:
  that the recursive function exists (`QueryExists`), that it returns texts (`QueryIs`), and what
  their segments are (`SegsAre`). The library's
  induction theorems take an operator, which the provers cannot instantiate. `MinIn` stands in
  for them: a set of naturals that is not empty has a least element (from `WFMin`), so it is
  shown that there is no least number of hints at which the claim fails.

Only model-checked: the liveness properties `ReceivesComplete`, `ExportsComplete`, `SendsComplete`, `AbortHeard`,
`HandshakesComplete`, `ConnectEnds` and `SettledEnds`, which need fairness and `ENABLED`, and the
violations, which are single executions.

## 6. What is not modelled

* The swiss registry: a wrapper around a concurrent map that nothing in the library uses.
* Derived encoding and decoding, and handoff messages, which the library neither sends nor
  handles.
* Cryptography: keys and signatures are a way in which the handshake fails.
* The Tor client, sockets and the async runtime, but for what the fairness assumes.
* The dispatch that `impl_object` should generate, commented out at this commit; `AttrFlag`
  and `AttrOptionSet` of `rexa-proc`, which have no caller.
* Async compatibility layer and tests.

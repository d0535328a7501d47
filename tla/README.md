# A verification of zlnet2.0 in TLA+

zlnet2.0 is a C++17 networking library for Linux: a network thread around
epoll (`network/`), and on top of it an engine thread that turns what happens
to connections into packets, keeps calls with callbacks, and connects nodes to
each other (`engine/`). `app/` and `test/` use it. The submodule `core/` (key
pool, queues, timers, object pool) is an empty directory here; its parts are
modelled from how the code uses them.

This directory holds TLA+ modules for the parts whose behaviour depends on
interleavings, on order or on boundaries, TLC configurations that check them,
and proofs that TLAPS checks. Paths below are relative to `src/`.

## 1. The system

| Part | Code | State | Operations | Hard behaviour | What makes it correct |
|---|---|---|---|---|---|
| CNetwork | `network/Network.cpp`, `TCP_Network.cpp`, `IOObjects.cpp`, `IOProtocol.cpp` | event queue, object table by slot, connection state, interest, timers | listen, connect, close, send (any thread); poll callbacks, events, timers (network thread) | uids that outlive their objects; slots reused while someone holds the old key; closes, losses, retries and forced closes in any order | a slot has one holder; the owner is told up and ended once, in order; the interest follows the buffer; the FIN follows the output; timers meet the state they assert |
| Poller | `network/EPoller.cpp`, `Poller.cpp` | the epoll set | register, deregister, poll | WRITE is toggled; a batch of events outlives objects | callbacks run only for objects in the table |
| CRingBuffer | `network/RingBuffer.cpp` | capacity, front, end, size, memory | write, read, look, the two vectors with their confirms, clear | full or empty, wrap-around, growth while wrapped | a FIFO queue of bytes |
| IOEngine, NetEngine | `engine/IOEngine.cpp`, `NetEngine.cpp`, `Protocol.cpp`, `Engine.cpp` | protocols by uid, availability, message queue, node tables | listen, connect, close, confirm, setupNode, connectNode; one handler per packet type | packets about uids that the engine has given up; confirm calls that take packets out of order; pings and pongs at any time | tables agree; upcalls in order; nodes join and leave in pairs; what was given up is closed |
| Calls | `IOEngine::send`, `dispactchCallback`, `onTimerCallbackTimeout` | handlers by id, list by deadline, next id | send, answer, timeout | answer against timeout; handlers that send; ids that come round | each handler is called once, with its own answer |
| Start and stop | `CNetwork::start`, `run`, `init`, `loop`, `stop`, `onQuit` | flags of two threads, event queue, wakeup object | start, stop, pushEvent | events before init, events that stop overtakes, events that run ahead of their protocol | every event is processed once, in order, before the table is cleared |
| Framing | `engine/InnerProtocol.cpp`, `Headers.h`, `PacketHandlers.cpp` | none of its own; the input and output buffers of a connection | onSerialize, onUnserialize, onPacket | messages that arrive in pieces, short writes, the end behind a part of a message | whole messages, in order, each once, the end after them |
| Stack buffers | `network/Buffer.h`, `BufferReader.h`, `BufferWriter.h` | position, memory | read, write, ensure | growth, short reads | what is written is read |
| Serialisation | `engine/Serializes.*`, `Messages.*` | the registry of message types | pack, unpack | none | inverse of each other |
| Endpoints, addresses | `network/Endpoint.cpp`, `Address.cpp`, `Common.cpp` | a socket | wrappers of system calls | error codes | errors reach the caller |
| Application | `app/` | a list of modules | forwards upcalls | none | none of its own |

How they interact. The engine thread calls `CNetwork::listen`, `connect`,
`close`, `send`: each pops a key if it needs one and pushes an event. The
network thread processes events in order, and its callbacks call the `on...`
functions of the protocol that owns the key; `engine::Protocol` turns each
into a packet in the engine's message queue. Bytes go through the ring buffers
of the connection and `InnerProtocol`, which pushes messages into the same
queue. The engine thread handles one packet at a time and looks at its timers
in between. A protocol is shared by all of them; the key it carries returns to
the pool when the last reference is gone.

## 2. The modules

| Module | What it is |
|---|---|
| `ConnectionLife` | abstract: what CNetwork promises the owner of a key |
| `Network` | CNetwork with its poller, objects and timers; implements `ConnectionLife` |
| `NetworkProofs` | theorems about `Network` |
| `ByteQueue` | abstract: a queue of bytes |
| `RingBuffer` | CRingBuffer, with the readv and writev around it; implements `ByteQueue` |
| `RingBufferProofs` | theorems about `RingBuffer` |
| `Memory` | memcpy and the growth of a buffer, for `RingBuffer` and `Buffers` |
| `Buffers` | stack and heap buffers, writers, readers, the serialisation of fields (operators) |
| `Framing` | InnerProtocol: a packet to bytes and back (operators) |
| `MessageChannel` | abstract: what a connection promises the applications at its ends |
| `Stream` | one direction of a connection between two processes; implements `MessageChannel` |
| `Recursion` | lemmas about recursive functions: induction, and that a loop defines one |
| `CodecProofs` | theorems about `Buffers` and `Framing` |
| `StreamProofs` | theorems about `Stream` |
| `Engine` | IOEngine and NetEngine over the abstract `ConnectionLife`; implements `Upcalls` |
| `Upcalls` | abstract: what the engine promises the application about a uid |
| `EngineProofs` | theorems about `Engine` |
| `Callbacks` | the calls of IOEngine |
| `CallbacksProofs` | theorems about `Callbacks` |
| `Lifecycle` | start and stop |
| `LifecycleProofs` | theorems about `Lifecycle` |
| `MC...` | instances for TLC: model values, symmetry, the slots of keys |

Some modules contain operators introduced as "faulty variant": the definition
that follows with a plausible mistake in it. No specification uses them; each
property is known to fail when its definition is replaced by one of them
(`PROJECT.json`, "mutants").

### Network

One record per key (`con[k]`) holds the object: kind, `EConnectState`, the
callbacks bound to it, the interest (`events`) and whether epoll has the socket
(`armed`), `_isWriting`, the number of bytes in the output buffer, whether
`shutdownWrite` was called, the timers running, and what the owner was told
last (`told`, `reports`). `objects` is the table, `queue` the event queue,
`refs` the keys whose protocol the engine or one of its packets holds, `ghosts`
the connections out of the table that their timers still hold.

A key stands for slot index and generation together; `SlotOf` is
`ObjecKeyPool::index`. A key is popped at most once, so that generations do not
wrap. `PopKey` gives out a key only if no holder of a key of the same slot is
left: that is `IOProtocol::onRecycle`, which runs when the last reference is
gone.

The network thread runs one event, one callback or one timer per step. Each of
them is written with functions on one connection (`Buffered`, `Flushed`,
`Draining`, `Connected`, ...), which stand for pieces of the handlers.
`CloseCon` is `tcpCloseConnection` and `tcpCloseConnector`, all branches.
What the socket does is a choice: accept may fail, a connect may succeed or
fail, a write may take all, some or nothing.

The asserts of the code are not guards. That none of them fails is what
`SlotExclusive`, `PendingSlotFree`, `WriteInterestTracksBuffer` and
`TimersMatchState` say.

`ConnectionLife` is what an engine may rely on: up once, ended once, nothing
afterwards; a key that left the table never comes back. `LifeSpec` maps `told`,
`reports` and the keys in the table to its variables.

Left out: the wakeup object and starting and stopping (`Lifecycle`); the bytes
of messages (`Stream`); the one-second timer of a connection, whose check in
`Protocol::onTimer` is commented out and always says TRUE; `clear(group)`, which
nobody calls on a running network: every object has the group 0, and `clear(0)`
would meet the wakeup object as the step `Clear` of `Lifecycle` does.

### RingBuffer

The record `ring` is the object, memory included; `moved` is what the last
operation wrote or handed out. `Copy` is memcpy: a copy that runs past the end
of the memory makes its domain grow, which `TypeOK` forbids, and a read beyond
it is an error. `Receive` is the read of `handleTcpConRead`: readv scatters
over the writeable vector, and a stack buffer takes the rest, which is then
written and may grow the ring. `Flush` is `handleTcpConWrite`: writev takes
some bytes of the readable vector, and `read_confirm` drops them. `QueueSpec`
says that the contents are a queue and that every operation hands out the bytes
at its head.

`ensure` is a recursive function (`Grown`), which is proved to return less than
twice what was asked for, so that `MaxCap` bounds the capacities if it is twice
`MaxSize`. Capacities are natural numbers: a ring beyond 2^31 bytes, whose
doubling would wrap around, is not modelled.

### Buffers and Framing

A buffer, a writer and a reader are records, and an operation returns the new
one. `Ensure` grows by doubling and copies; the two kinds of buffer differ in
`Write`: a heap buffer ends where the data ends, a stack buffer never gets
shorter. A read beyond the end is `NullPtr`, or runs into `assert(false)`
(`failed`). Integers go out with the most significant byte first (`Encode`,
`Decode`). `Serialize` and `Unserialize` take the type of a field as a record
(`Int32`, `Vector(String)`, `MapOf(...)`). The loops over the bytes of a number,
the entries of a container and the fields of a message are recursive functions
of the number of turns. A map or a set is written in the order of its keys
(`Ordered`), and the pairs of a map are assigned one by one (`MapOfPairs`).

`OnSerialize` chooses the header by the command and the callback id. One turn
of the loop of `onUnserialize` is `HasBlock` and `OnBlock`, which gives a packet,
a heartbeat, FALSE for an unknown type, or a crash where the code follows a null
pointer. `OnPacket` is what `MessageHandler::onPacket` makes of the bytes of a
message when a handler is called.

`Packet` says what an application can send: numbers of 32 bits, a message whose
fields have the values of their types (`Field`), and a size that is an `int32`,
as `totalsize` in `onSerialize` and the count of a container are (`Counts`).

### Stream

Two processes and the socket between them, in one direction: `Send` is
`tcpSend` with its short writes, `HandleTcpConWrite` empties the output buffer,
`Close` and `RemoveTcpCon` end the connection in an orderly way, by force or by
an error, and `Recycle` closes the socket when the last reference is gone.
The receiver reads any part of what the socket holds and takes blocks off its
input. The buffers are sequences of bytes, which is what `RingBuffer` is proved
to implement.

Three histories say what happened to the stream: `overtaken` (`tcpSend` wrote
past a buffer that was not empty), `foreign` (`writev`, which is given the
number of bytes as the number of vectors, sent memory behind the array of two)
and `cut` (the socket was closed with what it held). `ChannelSpec` says that the
packets, decoded and converted for their handlers, are a `MessageChannel` as
long as neither of the first two happened. The network is assumed to deliver
the end of the stream, or its reset, to the receiver.

### Engine

The network is `ConnectionLife` (variables `life`, `reports`, `live`); each of
its reports is posted to `inbox` by `Post`, as `engine::Protocol` does.
`closing` are the close events under way. `protocols` and `available` are the
map of IOEngine and the flag of each protocol, which survives the removal from
the map. `nodes` is the state of NetEngine, with counters of the upcalls that
the application saw (`ups`, `ends`, `joined`, `left`).

Every packet handler is an operator (`OnIOAccept`, `OnIOClose`, ...), with the
early returns of the code; in particular `OnIOClose` asks for availability only
and `OnIOUnListen` calls `onListen`. `CloseUid` is `IOEngine::close`. A confirm
call blocks the engine thread: `waiting` is the uid, `ConfirmPoll` takes the
first notification about it out of the queue, past others, and `ConfirmEnd` is
what follows. Every step of the network in `Engine` is an action of
`ConnectionLife` by the way it is written, so that nothing needs to be shown
there; what is shown is the other side, that whatever this network reports the
upcalls of the engine are those of `Upcalls`: each uid is up, joined by a node
and ended in this order, nothing begins again, and a node leaves in the step
that ends its uid. `Phase` reads this off the counters and `peers`, with a value
of its own for a node that is left behind. The names and types in pings and pongs are reduced to whether
they name this node and, for a pong, which node sent it.

### Callbacks

`map` and `list` are `_callbackHandlers` and `_callbackTimeOutList`. The loop of
`onTimerCallbackTimeout` is one step per handler (`Sweep`), because a handler
that is called may send: `Send` is possible between the steps of a sweep. An
answer carries, besides its id, the handler of its call (`of`), so that the
model can tell whose answer a handler got. A handler that only the map owns is
destroyed when it is taken out of the map and used afterwards
(`IOEngine.cpp:543-547`): `Expire` then either works or crashes.

### Lifecycle

Two threads. The program counter of the network thread goes through `init`,
`loop`, `events`, `timer`, `quit`, `clear`, `ended`; what `init` returns is a
constant set (`Returns`), since it has no return statement. `IOEngine::listen`
and `connect` push their event before they give the protocol its message queue
(`SetQueue`): `unbound` is the event in between, and a report about it goes
through a pointer that nobody has set (`Reported`). The wakeup socket is
not connected, so a wakeup has no effect but the write itself, and the poller
does not sleep on a socket that is hung up: nothing depends on it.

## 3. The runs

| Run | Checks | Instance | What it shows |
|---|---|---|---|
| `network` | `TypeOK`, `SlotExclusive`, `PendingSlotFree`, `WriteInterestTracksBuffer`, `FinAfterOutput`, `TimersMatchState`, `ToldUpWhileOpen`, `LifeSpec` | 3 keys, 2 slots (two keys are generations of one slot), 2 events, 2 bytes | the invariants of the connections, and the refinement |
| `network_live` | `CloseFreesSlot`, `FailedConnectorRetries` | 2 keys, 2 slots, 2 events, 1 byte | a close frees the slot; a failed connector retries |
| `ring_buffer` | `TypeOK`, `IndexesMatchSize`, `VectorsFit`, `QueueSpec` | capacity 1 growing to 3 and 7, shrinking to 3 above 4; 5 bytes in the ring, 3 at once, two byte values | the ring is a queue |
| `engine` | `TypeOK`, `TablesKnown`, `NodesPaired`, `ConnectingIsNodeUid`, `UpcallSpec` | 3 uids, 1 node, 1 packet waiting | the tables of the engine, and the refinement of `Upcalls` |
| `engine_queue` | `EndsAfterUp`, `GivenUpIsClosed`, `EndedIsForgotten` | 2 uids, 1 node, 2 packets waiting | packets that arrive late |
| `callbacks` | `TypeOK`, `OneOutcome`, `PendingAgree`, `OwnAnswer`, `NoneLost`, `SweptAll`, `BoundIsTold` | 3 handlers (one kept), 2 uids, 2 ids, timeout 1, clock to 2 | answers against timeouts; ids that come round; every handler that is kept is called in the end |
| `stream` | `TypeOK`, `RoundTrips`, `NoFailure`, `ChannelSpec`, `AllArrive`, `EndArrives` | 4 packets of the four kinds, 3 sent, 4 bytes in the socket, 3 vectors | messages arrive as they were sent, in any pieces, and the end after them |
| `lifecycle` | `TypeOK`, `InOrder`, `ClearedLast`, `EventsProcessed` | 4 events | no event is dropped |

Each of these passes. Some of them promise less than their names say, because
the code does:

- `EventsProcessed` holds until the network thread crashes or gives up after
  `init`. It does not catch the crashes of `Weakup`, `Reported` and
  `OnTimer1000ms`, nor a missing result of `init`, and `ClearedLast` does not
  catch that of `Clear`: nothing in the code prevents them. They are steps of
  the model, and listed below.
- `BoundIsTold` holds until a handler that only the map owns is used after it
  was destroyed (`Expire`), and says nothing of that.
- `ChannelSpec`, `NoFailure` and `AllArrive` hold until bytes overtake others or
  foreign memory is sent. That this happens is what `stream_order` and
  `output_drains` show.

The next ones state what a comment, a log line or a test
program says, and TLC finds a behaviour of the code that contradicts it.

| Run | Property | What happens |
|---|---|---|
| `engine_orphan` | `AcceptExpected` | an accept packet of a listener that was closed meanwhile is dropped, and its connection stays open without an owner |
| `engine_connecting` | `ConnectingKnown` | a connector that is given up before it is up stays in `_connectingNodes`, and `Node::_uid` stays set: the node never connects again |
| `stream_order` | `StreamInOrder` | a message is written to the socket while the rest of an earlier one is buffered: its bytes overtake them, and the receiver decodes something else |
| `output_drains` | `OutputDrains` | a send is cut short and buffers (`tcpSend`, which logs it) more bytes than `writev` accepts vectors: every write fails, and the output is never sent |

Further observations, in the models but without a run of their own:

- `close` on a session calls `onClose` and leaves the protocol available; the
  close packet of the network calls it again (`Engine`, `CloseUid`, `OnIOClose`).
  An application that closes the same uid inside the upcall of
  `IOEngine::close` recurses without end.
- `stop` never returns in an orderly way: `onQuit` closes the wakeup object,
  which has no protocol (`Lifecycle`, `Clear`).
- A report may go through a message queue that the protocol has not been given
  yet (`Lifecycle`, `Reported`).
- A message of which the full socket takes nothing is dropped (`Stream`, `Send`).
- A message without fields arrives as no message (`Stream`, `AsReceived`).
- `bind` and `listen` return a positive error number and are tested for a
  negative one: a listener whose port is in use is reported as listening.
- The output buffer never shrinks: only `read` shrinks a ring buffer, and the
  output is taken by `read_confirm` (`RingBuffer`, `ReadConfirm`).
- `BufferReader::bytesLeft` returns the position.
- `pushEvent` right after `start` may find no wakeup object and follow a null
  pointer (`Lifecycle`, `Weakup`, `crash = "weakup"`).
- `init` has no return statement (`Returns`), so `run` may take it to have
  failed; then nothing is processed.
- In a build with `_MONITOR`, which `CMakeLists.txt` always defines, the first
  timer takes the wakeup object for a connection (`OnTimer1000ms`).
- The packet with `ErrCode_CallbackBySendError` has uid 0, and `onIOPacket`
  drops it: the handler waits for its timeout (`Callbacks`, `OnIOPacket`).
- `_accpetedNodes` is commented as the nodes that wait for a ping, but a uid
  stays in it after its ping (`Engine`, `HandlerNodePing`).

### Bounds

- `network`: two slots let a listener and its session, or a removed connection
  and its successor, coexist; the third key is the successor. Two events are
  enough for an event to be overtaken by a callback and for a close to follow a
  connect. Two bytes distinguish a partial from a complete write.
- `ring_buffer`: capacity 1 is full with its first byte, and a write takes it
  to 3, or to 7 in two turns of the loop of `ensure`; 3 can be full at every
  position of the front, 7 wraps around and exceeds the size above which it
  shrinks; `ExtraLen` 2 makes each of the three ways to
  choose the number of vectors occur.
- `engine`: three uids are a listener and two sessions, or a session and two
  connectors of one node, one after the other. The queue of one packet still
  lets the engine act between a report and its packet; `engine_queue` has two,
  so that a confirm call can take the second before the first.
- `callbacks`: three handlers on two uids, and fewer ids than handlers, so that
  an id comes round while it is in use; time 2 leaves room for a handler bound
  by another one's timeout.
- `stream`: fields of one byte (`Width`) and buffers of two and three bytes, so
  that every message grows the buffers it is written to; a socket of four bytes
  splits each of them, in the header and behind it. `IovMax` 3 makes the three
  outcomes of `writev` occur (right, with a vector too many, refused); foreign
  bytes are sent once. Three packets let a message overtake a part of another
  and a third be read with what is left. `output_drains` needs one packet.
- `lifecycle`: four events are spread over pops of the loop and of `onQuit`.
  Both `Monitor` and `Returns` are set so that every crash and both results
  of `init` are among the behaviours.
- Deadlock is not checked except in `ring_buffer`: keys, handlers, events and
  time are finite, so the other systems stop once they are used up.

### Fairness

- `network_live`: weak fairness of `Dispatch` (the loop pops and processes all
  events in every iteration) and of each timer (the scheduler runs after the
  events). Neither the peer nor the poll callbacks are fair, except that
  nothing prevents them.
- `engine_queue`: weak fairness of `Dispatch` (`Engine::onLoop` polls its queue
  for ever) and of `ConfirmEnd` (a confirm call has a timeout).
- `callbacks`: time passes and the timer is looked at.
- `stream`, `output_drains`: both network threads poll for ever and the timer of
  an orderly close runs. A write is fair only with at most two vectors, which is
  where its array ends. Neither the applications nor failures of the network are
  fair. Weak fairness of `Recycle` rests on an assumption about `core/`, which is
  absent: the one-second timer that `onNewConnection` starts
  (`Network.cpp:461`) repeats until `Connection::onRecycle` resets it, so it must
  not own the connection, or no removed connection would ever be released. That
  `onRecycle` resets timers suggests so. When the output is stuck, `EndArrives`
  depends on it.
- `lifecycle`: weak fairness of the network thread, and of the calls in which the
  other thread is (`Weakup`, `SetQueue`). The application is not made to do
  anything.

## 4. The proofs

TLAPS proves the following for every value of the constants that meets the
named assumptions.

`NetworkProofs` (from `SlotOfAssumption`, `NoKeyAssumption`, `BoundAssumption`):

- `TypeCorrect`: `TypeOK`, from the invariant `TypeInv`.
- `SlotsExclusive`, `PendingSlotsFree`: from `HolderInv`. `SlotExclusive` alone
  is inductive only together with facts about who holds a key: a listen or
  connect event is in the queue once (`PendingOnce`), such a key is in the
  table neither yet (`PendingNotLive`), and a removed connection is out of it
  (`GhostsApart`).
- `WriteInterestKept`, `FinLast`, `TimersMatch`, `OwnersKnow`: from `ShapeInv`,
  which says for each key in which of five shapes its record is (not yet
  processed, listener, trying, open, gone) and what each shape implies for
  state, interest, buffer, timers and reports. Every step moves a record from
  one shape to another. The four properties are read off the shapes.
- `KeepsLife`: `Spec => LifeSpec`. By `ShapeInv` every step of `Network` is a
  step of `ConnectionLife` for the key it touches, or a stutter.

`RingBufferProofs` (from `NoByteAssumption` and `SizeAssumption`):

- `TypeCorrect`, `IndexesAgree`: from `RingInv`: the indexes are within the
  memory, `(end - front) % cap` is the size except when the ring is full, and
  the bytes between them were written.
- `KeepsOrder`: `Spec => QueueSpec`. For each operation a lemma says what it
  does to the contents; a read over the wrap-around, a write that grows a
  wrapped ring, and a readv that goes on in the stack buffer are the cases. The
  loop of `ensure` ends (`GrowingEnds`) with room enough (`GrownEnough`).
- `VectorsAlwaysFit`: what `writeable` hands to readv is free memory and what
  `readable` hands to writev is held, by the places that `RingInv` gives to
  each byte.

`CallbacksProofs` (from `HandlersAssumption`, `UidsAssumption`,
`NumbersAssumption`):

- `TypeCorrect`, `CalledOnce`, `MapAndListAgree`, `NobodyLost`, `AnswersFit`,
  `LoopSweepsAll`, all from one invariant. `makeCallbackId` looks at the oldest
  handler only, and `NobodyLost` says that this is enough. It is so because the
  ids in the list are in the order of the list within one turn of the counter
  (`TurnInv`, with `Age`, the distance of an id behind the counter): if the
  next id is pending at all, it is the one at the head. `LoopSweepsAll` rests on
  the list being in the order of the deadlines (`DeadlineInv`), although
  handlers send and are appended while the loop runs. `AnswerInv` says what an
  answer on its way knows of its call.

`EngineProofs` (from `KeysAssumption`, `ConfirmedAssumption`):

- `TypeCorrect`, `TablesAreKnown`, `NodesArePaired`, `ConnectingFindsNode`,
  `EndsFollowUps`, `GivenUpAreClosed`. The invariant says, uid by uid, how the
  kind of the uid, its life in the network, the protocol, the flag, the tables
  and the counted upcalls fit together (`KeyInv`); that an unknown node has no
  uid (`KnownInv`); and of the queue that each packet is one that its uid can
  have posted and that one packet at most reports the uid up (`InboxInv`). The
  last is what a counter needs when a confirm call takes packets out of order.
- `KeepsUpcalls`: `Spec => UpcallSpec`. The lemma of each handler also says what
  it tells the application, of the uid of its packet only (`Tells`), and of the
  other steps only `Close` tells anything (`SilentSteps`). With the invariant,
  by which a uid in `_protocols` has not ended and a peer is one of them, each
  of these is a step of `Upcalls` or a stutter (`PhaseMoves`); a repeated
  `onClose` of a session is one of the stutters.

`LifecycleProofs` (from `LifecycleAssumption`):

- `TypeCorrect`, `EventsInOrder`, `NothingDropped`: from `InOrder` itself with
  `BatchInv` (between two loops over the events nothing is left of a batch) and
  `StopInv` (while the network thread is in `onQuit`, the thread that pushes
  waits in `join`).

`CodecProofs` (from `SizesAssumption`, `NullAssumption`, `SchemaAssumption`):

- `CodecRoundTrip`: what `onSerialize` makes of a packet is decoded as that
  packet, whatever its numbers, strings and containers are, and however small
  the buffers start. The layers have a lemma each, and every layer uses those
  below it only through what they state. A number that fits its width comes
  back from its bytes (`DecodeEncode`). A buffer holds what was written to it
  when it grows (`ReserveHolds`), so that a writer has written a sequence of
  bytes (`Writes`), and a reader that stands before the bytes of an item reads
  it and stands behind them (`ReadsItem`). A loop over entries or fields writes
  their bytes one behind the other and reads each where it was written
  (`WritesAll`, `ReadsAll`, `WritesFields`, `ReadsFields`). A set is made again of its
  ordered keys, and a map of its pairs (`SetEntries`, `MapEntries`). The header
  says how long the block is (`BlockOfFrame`), and the message behind it is
  found where it was put (`MessageRead`).
- `SizesAssumption` asks for a base of three at least, since a byte holds the
  three types of header. `SchemaAssumption` says that the fields have types
  for which `Serialize` is instantiated here; the keys of sets and maps are
  numbers.

`StreamProofs` (from the same, `StreamAssumption` and `PacketsAssumption`):

- `AllRoundTrip`: `RoundTrips`, by `CodecRoundTrip`.
- `StreamIsChannel`: `Spec => ChannelSpec`; `StreamNeverFails`; `StreamTyped`.
  A stream of packets is decoded as each of them is by itself, whatever the
  short writes, the partial reads and the buffers do to it. The
  invariant (`StreamInv`) gives each packet that was sent and not yet dispatched
  the offset of its bytes in `input \o socket \o out`; at each offset lie the
  bytes of that packet, as far as they go (`Carries`). Bytes that move from one
  buffer to the next leave this alone; `Send` adds a packet at the end
  (`CarriesMore`), closing the socket takes bytes off the end (`CarriesLess`),
  and `OnUnserialize` finds its block at the head (`FirstBlock`) and moves the
  offsets (`CarriesRest`). The end is read only when nothing is on its way, and
  then nothing is left to dispatch (`BlockComes`).

`Recursion` proves what the recursive functions of `Stream`, `Buffers` and
`Memory` need.
Induction over a number is stated for sets instead of predicates
(`SetInduction`, from the least element of a set of numbers), and `LoopExists`
says that a loop of N turns, which starts from a value and takes each turn from
the value before, has a function as its run.

Only model-checked: liveness, since TLAPS proves neither fairness nor ENABLED
(`CloseFreesSlot`, `FailedConnectorRetries`, `EndedIsForgotten`, `BoundIsTold`,
`AllArrive`, `EndArrives`, `EventsProcessed`). Every safety property of a
passing run is a theorem.

## 5. Not modelled

- Failures that the code does not see: `bind` and `listen` (above), and what
  follows for a listener whose socket does not listen.
- `CNetwork::clear(group)` on a running network, and the heartbeat timer whose
  check is commented out (see `Network`).
- Copying, swapping and printing of buffers, and the counters of the monitor:
  no message uses them. Signed and floating-point values, which go the way of
  the others.
- Endpoints and addresses: wrappers of system calls. What their outcomes do to
  a connection is a choice in `Network` and `Stream`.
- `app/` forwards upcalls to a list of modules and has no state of its own;
  `test/` holds examples. What they may call is in `Engine` and `Callbacks`.
- Logging, resource counters, Windows project files, build files. `core/` is
  an empty directory: its key pool, queues, timers and object pool are modelled
  from their use.

## 6. The plan

Done: all modules with their runs, and the theorems of section 4.

Next: that the sequences of bytes of `Stream` may be the rings of `RingBuffer`,
which so far rests on `KeepsOrder` alone and is not a theorem about the two
together.

# SnailMQ in TLA+

SnailMQ is a small message broker written in Go: topics are append-only logs in
memory, and every subscriber of a topic reads the whole log from the beginning and
then follows it. This directory holds a formal model of the broker, of its TCP
server and of its client, the properties they must have, TLC configurations that
check them on small instances, and TLAPS proofs that hold for every instance.

Paths in this file are relative to the repository (`broker/partition.go:79` and so on).

## 1. The system

| Part | Code | State it keeps | Operations |
|---|---|---|---|
| Store | `broker/store.go` | `memoryLog.msgs`, a slice of messages whose offset is their index | `Append`, `Read(from, max)`, `Len` |
| Partition | `broker/partition.go` | `mu`, the store, `closed`, the registry `subs` | `Publish`, `PublishBatch`, `Subscribe`, `unsubscribe`, `SubscriberCount`, `Size`, `close` |
| Subscription | `broker/subscription.go` | cursor `offset` (guarded by the partition's `mu`), channel `ready` (capacity 1), channel `done` | `Read(ctx, max)`, `Close` |
| Broker facade | `broker/broker.go` | read-write lock, map `topics`, `closed`, the limit | `CreateTopic`, `Publish`, `PublishBatch`, `Subscribe`, `SubscriberCount`, `TopicCount`, `ListTopics`, `Close` |
| Topic names | `broker/broker.go:54-69` | none | `ValidateTopicName` |
| Wire frames | `protocol/frame.go` | none | `ReadHeader`, `ReadFrame`, `WriteFrame`, `WriteMessageBatch` ... |
| Wire codec | `protocol/codec.go` | none | encoders and decoders of payloads, error codes |
| Server | `network/server.go` | `mu`, `conns`, `closed`, `wg`, `closeDone`; per connection a context and the goroutines of handler and monitor | `Serve`, `handleConn`, `respond`, `stream`, `removeConn`, `Close` |
| Client | `network/client.go:1-430` | `mu`, `closed`, `streaming`, the socket with its buffers and deadlines | `CreateTopic`, `Publish`, `PublishBatch`, `PublishAsync`, `ListTopics`, `Subscribe`, `Close` |
| Client subscription | `network/client.go:440-524` | the client's connection in stream mode | `Read`, `ReadBatch` |
| Batcher | `network/client.go:215-342` | `mu`, `buf`, `timer`, `err`, `closed` | `Add`, `Flush`, `Close`, the timer's function |
| Demo, benchmarks, socket tuning, logging | `cmd/`, `benchmark/` | none of their own | not modelled |

### How the parts meet

* Goroutines call the broker. Every call but `CreateTopic` and `Close` looks its topic up
  under the read lock, **releases it**, and then uses the partition it found; `Close` may
  run in between. `Close` keeps the write lock while it closes one partition after the
  other, so locks are taken in the order broker, partition.
* Publishers, readers and closers of a partition meet in its one mutex. A reader that finds
  nothing leaves the mutex and blocks in a `select` over `ready`, `done` and its context. It
  receives from these channels without the mutex, in the middle of other critical sections.
* A handler of the server calls the broker synchronously. A subscribed connection has a
  second goroutine, the monitor, which reads from the socket in order to notice that the
  peer has left or talks out of turn, and then cancels the context of the subscription.
* `Server.Close` marks the server closed, cancels contexts, closes sockets and waits for the
  handlers. `Serve` registers connections concurrently with that.
* A client sends a request and takes the next frame of the stream for its answer: responses
  carry no identity. `Client.mu` is held for the whole round trip, and by
  `Subscription.Read` while that waits for a push.
* The batcher releases its lock while a batch is being sent, so that flushes of callers and
  of timers that have fired overlap.

### What is hard, and what must be right

| Part | Hard behaviour | What makes it correct |
|---|---|---|
| Store | `from + max` may overflow; a wrong offset would derail every cursor | offsets are indices; `Read` returns exactly the offsets in `[from, from + max)` |
| Partition, Subscription | token sent before, while or after a reader looks; tokens dropped or stale; batches that fail half-way; closing races with everything; several readers | each subscriber gets the log, in order, once; acknowledged batches are contiguous; no wake-up is lost; `done` closed exactly once; nothing after close |
| Broker | lookups gone stale; creations that overlap; `Close` in slices | one partition per name for good; the limit; nothing slips in behind `Close`; no call stuck behind a lock |
| Batcher | overlapping flushes, timers that fire while being stopped, background errors | no payload taken twice, stranded or lost without an error |
| Server | accepting while closing; second `Close`; idle, slow, lost and misbehaving peers; order of deferred calls | quiet after `Close`; slots are handlers; no orphans; `Close` returns; the gone are forgotten |
| Frames, codec, requests | lengths and counts from strangers; errors that must survive the way back; a connection lost inside a frame; buffers shared by streams | no decoder leaves its input or reserves room for what cannot come; a call does what it says or tells why not; no torn frame is delivered |
| Client | answers without identity; time-outs in the middle of a frame; a lock held while waiting; `Close` at any time | an answer belongs to its request; a subscription is the log from its beginning; calls end |

`PROJECT.json` lists each hazard at its line, with the properties that would catch it.

## 2. The modules

| Modules | Models | Notes |
|---|---|---|
| `Store` | `store.go` as operators on a sequence, and the contract of `Store.Read` | used by `Partition`, whose log it is |
| `BroadcastLog` | the **abstract specification** of a topic | an atomic log with subscriptions |
| `Partition`, `PartitionProps`, `MCPartition` | `partition.go`, `subscription.go` | refines `BroadcastLog` (`ImplementsPromise`) |
| `Broker`, `BrokerProps`, `MCBroker` | `broker.go` over partitions whose operations are atomic | each topic refines `BroadcastLog` (`TopicIsOneLog`) |
| `Batcher`, `BatcherProps`, `MCBatcher` | the batching publisher | `PublishBatch` is one step that may fail before or after the server has appended |
| `Server`, `ServerProps`, `MCServer` | lifetimes in `server.go`: goroutines, sockets, contexts, slots, subscriptions | the broker is reduced to "there is something to push" |
| `Codec` | `frame.go`, `codec.go` as functions on byte sequences | a byte is a digit, see below |
| `Requests` | one request from the client's checks over the frame to the handler, the broker and back, as bytes and error codes; bytes of strangers | extends `Codec`; composes client, wire, server and broker, each call one at a time per connection |
| `Push`, `PushProps`, `MCPush` | the push stream: batches, the pool of headers, the vectored write and its failure, decoding by the reader | extends `Requests`; each topic with its remote subscribers refines `BroadcastLog` (`RemoteIsOneLog`) |
| `Client`, `ClientProps`, `MCClient` | one connection end to end: client, both streams, handler, topic | composes `client.go` with what one handler of `server.go` does to frames |
| `StoreProofs`, `PartitionProofs`, `BrokerProofs`, `BatcherProofs`, `ServerProofs`, `ClientProofs`, `CodecProofs`, `PushProofs` | proofs | section 5; `PartitionProofs`, `BrokerProofs` and `PushProofs` hold the refinements of `BroadcastLog`, `PushProofs` rests on `CodecProofs` |

A component's module holds state, actions, fairness and specification; the `...Props` module states
its properties, the `...Proofs` module the inductive invariant and the proofs; the `MC...` module
gives names to what the configurations need. Small operators such as `WriteExpires` come in pairs:
beside the code's form stands one that a plausible slip would have left (`NeverExpires`). The second
form is used by no action. It is there so that each property can be shown to fail when the code is
changed that way; the pairs are listed under `mutants` in `PROJECT.json`.

### State and steps against the code

**Partition.** Variables are the fields (`mu`, `log` for the store, `closed`, `subs`,
`offset`, `ready`), the program counters of goroutines inside `PublishBatch` (`ppc`) and
`Read` (`rpc`) with their locals, and histories (`got`: what reads have returned, `acks`:
which publishes have succeeded). `closes[s]` counts executions of `close(done)`. A publish is
`BeginPublish`, `AppendNext` per payload (or `AppendFails`), `Signal` per registered
subscription, `ReturnPublish`: its section is cut into steps because readers see `ready`
and `done` from outside. `close` is cut in the same way (`BeginClose`, `CloseSub`,
`EndClose`). `Subscribe` and `Unsubscribe` touch one thing a reader can see and are one
step each. `Read` is `StartRead`, one of `CheckClosed`/`CheckData`/`CheckEmpty` under the
lock, and, blocked, one of `WakeReady`/`WakeDone`/`WakeCtx`. `Publish(x)` is the batch `<<x>>`:
the two methods have the same body but for the loop.

**Broker.** `topics`, `closed`, and the write lock `writer`. A call is `Begin` (with the
checks before the lock), the lookup, and the use of the partition it found; a `Close` is
one step per partition while `writer` is held. Partitions are heap addresses: a call that
is past its lookup keeps working on its partition after the map has been emptied.

**Batcher.** Fields as in the code, and `linger`, whether `maxDelay` is positive, which
the user chooses once. `armed` is what the runtime knows about timers: one that
has fired is no longer armed, but the field `timer` still names it until its `Flush` gets
the lock. A flush is: take the buffer, `PublishBatch`, record the result. The history
`overlapped` records that the batcher was used while a batch was being sent.

**Server.** `serve`, `hpc[c]`, `mpc[c]`, `kpc[k]` are the program counters of `Serve`, of
handlers, of monitors and of callers of `Close`. `handleConn`'s deferred calls run one by
one, last one first: `DeferHangUp`, `DeferJoin`, `DeferUnsubscribe`, `DeferRemove`,
`DeferClose`. Peers may connect, send any kind of frame, stop reading, or leave at any time.
The variable `timeouts` holds the options `WithReadTimeout` and `WithWriteTimeout`: chosen
in `Init` out of `Configurations`, never changed. `Client` has the same for its options.

**Codec, Requests, Push.** `Client` and `Server` follow order and lifetimes and treat a frame
as a unit; these three follow the bytes. A byte is a digit to the base `Base`, and
the integers of 16, 32 and 64 bits have 1, 2 and 4 of them: all checks on lengths remain,
and all inputs around them can be enumerated. `IntMax` is the largest `int`, chosen below what a
length field can say, as on a 32-bit platform. What Go answers with a panic is the error
`"panic"`. A decoder is a scan: an error, a position, the fields so far, and the entries
it has reserved room for. `Call` makes a request (`lib` tells the checks of the library
from a peer that has none), `Serve` decodes and carries it out, `Return` decodes the answer;
`asked` is what the server understood and `verdict` what it decided. `Forge` and `Scribble`
send a header and bytes of any kind. `ReadBatch`, `FillHeader`, `WriteBuffer`, `BatchWritten`
are the loop of `Server.stream` with `WriteMessageBatch`; `WriteFails` cuts the vectored write
anywhere, `RefuseBatch` is a message that no frame can hold, `Pull` is the reader. Which
calls, forged headers and publications exist depends on `scenario`, chosen in `Init`.

**Client.** `toServer` and `toClient` are the two streams, as sequences of frames. A read
time-out may strike in the middle of a frame; what remains in the stream is a frame
`Torn`, which no reader can interpret; an attempt to read it may leave a part of it, or take the
beginning of the next frame with it (`AfterTorn`).
A call is `Call`, `Lock` (or `Refused`), `Write`, `Read` or
one of the failures; `PublishAsync` ends with `Write`. Subscription reads are `ReadPush`
and, for `ReadBatch`, `MoreOrDone`: whether something is buffered is asked **without** the mutex
(`SeesBuffered`), which `Lock` then takes, so that another reader may come between.
The handler takes one request at a time
(`ServePublish`, `ServeList`, `ServeSubscribe`), then pushes.

## 3. What is checked

All runs are small enough to be exhausted. "History" variables only record.

| Run | Question | Instance |
|---|---|---|
| `partition_safety` | delivery, batches, `done`, finality, refinement of `BroadcastLog` | 2 publishers, 2 subscriptions with one reader each, batches of 1 and 2, log up to 3, failing store |
| `partition_wakeup` | no lost wake-up, unread is read, closing ends reads; the contract of `Read` up to the largest integer | 2 publishers, 2 subscriptions, 1 reader, log up to 4, integers -8..7, store does not fail |
| `broker` | nothing behind `Close`, topics neither lost nor replaced, refusals are true (`RefusalsAreTrue`), nobody stuck, each topic is one broadcast log | 2 callers, 2 closers, 4 names (one invalid), 3 partitions, limit 2 |
| `batcher` | nothing taken twice, stranded, lost without error or admitted after `Close`; gapless when used by one goroutine at a time; what is buffered is sent | 2 callers, 2 timers, 3 payloads, batches of 2, with and without linger, sending may fail |
| `server_safety` | lifetimes of handlers, monitors, slots, subscriptions | 2 connections for 1 slot, 2 callers of `Close`, both time-outs, any peers |
| `server_liveness` | `Close` returns and the gone are forgotten, **without** any time-out too; with a write time-out who reads nothing is dropped | 1 connection, 2 callers of `Close`, each combination of time-outs |
| `client_safety` | answers belong to requests, pushes are the log, errors say what happened | 2 goroutines, two batches whose answers only the order tells apart, one unanswered publish, 1 foreign message, no time-outs |
| `push` | no decoder misreads or overruns what strangers send; a call is carried out as meant or told why not; what is stored can be pushed; a reader gets the log and no torn frame; no header is in two batches; topics seen through the wire are broadcast logs | scenarios `calls`, `crowded`, `strangers`, `streams`, `mixed`: 1 or 2 connections, 2 calls each, 4 topics, batches of 2, 4 headers |
| `client_liveness` | the stream stays the log with late answers and torn frames; a silent server blocks nobody for ever, given a time-out or a `Close` | 2 goroutines, no time-out or both, a server that owes nothing |

Three more runs show a sentence of the documentation, a comment or a test that the code does
not keep; section 4.

**Why the bounds are enough.** Interference needs two of a kind: two publishers contend for the lock
and for a token, two readers show that one subscription does not disturb the other, two closers are
the first and the late one. A log of three messages holds a batch of two next to another publish, in
either order, and a half-appended batch before and behind an acknowledged one. For the integers,
four bits suffice: `from` is at most the length of the log, hence the only overflow is that of `from
+ max`, and logs of length 4 with `max` up to 7 reach it. Two timers are one that has fired and is
not done with its flush and one that was armed since. One slot for two connections makes
registration, refusal and removal contend for it. `MaxInbox` bounds only what a peer has sent and
nobody has read: a frame is either there or not for every decision the server takes. `MaxFrames`
bounds the frames under way when a call begins; the late answer of one request, the answer of the
next and a torn remainder fit. In `push` a byte has 10 values and a frame holds 12 of them behind
its header: a `uint32` goes to 99, beyond the largest `int`, 49, and a message has at most 6 bytes.
Both sides of every limit are among the calls (`Largest`, `TooLarge`, names of 0, 1, 3 and 4 bytes,
an invalid one, the last topic and the one after it), and the bytes that strangers send reach a
whole frame with a length, a count or a field that is cut, empty, right or too long. Two messages
with two buffers each show every order in which two streams can take headers and write. A write is
cut in front of a buffer or in the middle of a header (`Cuts`): between two frames, behind a header
and inside one. Bounds are guards of the actions that start something (`BeginPublish`, `Call`,
`SendFrame`, ...), never of one that finishes something.

**Deadlock** checking is off everywhere, because each system may stop: publishers, callers
and peers owe nothing, logs are bounded, and a closed system rests. What must not stop is
stated as liveness.

### Fairness

| Module | Assumed | Why |
|---|---|---|
| Partition | weak fairness of a goroutine that holds the lock and of a `select` whose case stays ready; strong fairness of a reader that wants the lock | goroutines are preempted and scheduled fairly; `sync.Mutex` in starvation mode hands the lock to whoever has waited for 1 ms |
| Batcher | armed timers fire; flushes go on | the runtime; the client's time-outs bound `PublishBatch` |
| Server | goroutines that can run do run; strong fairness of a failing write to a peer that is **gone** | a kernel that gets data for a socket nobody has answers with a reset, whatever came before |
| Client | goroutines of the client run; only `client_streaming` assumes that the server serves | |

`Push` states no fairness: TLC cannot evaluate `ENABLED` on actions over so many byte sequences in
reasonable time. The conjunct of `PushedIsLog` on streams at rest says what liveness would: a stream
that has nothing left to do has delivered all of the log. `Broker` needs none: every call has a
bounded number of steps (`EverythingEnds`), and `NobodyIsStuck` says that whoever holds the write
lock can go on and that without a holder every call can. Nothing is assumed of publishers, peers,
callers of `Close`, or of cancellation; in particular no liveness property rests on somebody
publishing again.

## 4. Where the code and its text differ

Runs that end in a violation, each the shortest history that contradicts the quoted text.

| Run | Text | Code |
|---|---|---|
| `batcher_close` | `README.md:196`, `client.go:334`: `Close` flushes what remains | when a timer has just fired, its flush holds the batch and `Close` returns nil before it is sent. The caller's next step is usually to close the client, and the batch is lost with nobody told |
| `client_late_answer` | `client.go:378`, the response "of the same order" | after a time-out the client stays usable, and the late answer, which has the right opcode, is taken for the answer to the next request: `Publish` returns the offset of another message |
| `client_streaming` | `PROTOCOL.md:79`, `client.go:344`: `ErrStreaming` | while `Subscription.Read` waits for a push it holds the mutex that the refusal needs: the request waits as long as the topic is silent |

Differences met on the way that no run is about:

* `client_test.go:309` expects the topic to have the order of the calls of `Add`. That holds while
  the batcher is used by one goroutine at a time (`SentIsPrefix`). Otherwise a batch taken by the
  timer can be overtaken by the next one of the same caller, since the lock is released before
  sending (`client.go:322`).
* `broker.Publish` called in the process has no limit on the payload. A message larger than
  `MaxMessage` makes `WriteMessageBatch` refuse the whole batch: up to 63 messages before it never
  reach the subscriber, which gets `OpError` and loses the stream (`RefuseBatch`, scenario
  `streams`). So does every later subscription, although `frame.go:24-25` and `PROTOCOL.md:26` count
  on what was stored being deliverable.
* A client in the network is told some things differently from a caller in the process: an empty
  batch is `ErrEmptyBatch`, not `(0, nil)`; an empty or invalid name is refused by the client's own
  check, not as `ErrTopicNotFound`; a decoding error or a failing store is only a text.
  `CallIsCarriedOut` names the errors that remain themselves (`Sentinels`).
* A read time-out in the middle of a payload is reported as `ErrTruncated` and not as a time-out
  (`frame.go:109-110`).
* The size check of the server on `OpPublishBatch` is redundant for frames that can be decoded; the
  one on `OpPublish` is not, because of topic names shorter than 4 bytes.
* A connection refused for the limit, or for an oversized frame, may see a reset instead of the
  `OpError`, and an unknown opcode is never answered.
* `WritePublishBatch` sums lengths in an `int` (`frame.go:239-246`): on a 32-bit platform a caller
  that passes the same large payload often enough gets past the check. Not modelled.
* `partition.go:55` says that a failed batch behaves as if its payloads had been published one by
  one, and `docs/ARCHITECTURE.md:71` that no wake-up is lost. When `Append` fails inside a batch
  (`AppendFails`), the prefix stays readable, but the code returns before the wake-up loop: a reader
  already blocked is not woken for the prefix until the next publish that succeeds. The in-memory
  store never fails; an injected one may. With `StoreMayFail = TRUE` the run `partition_wakeup`
  shows it (`NoLostWakeup`).
* `subscription.go:31`: readable messages win over a cancelled context. That is true at the check;
  once blocked in `select`, token and `ctx.Done()` are picked at random.
* `docs/PROTOCOL.md:73-74`: pushing goes on until the peer leaves or sends data. The monitor cancels
  the context, but a `Read` that finds data ignores it (`server.go:329`): a stream that always has
  something to push, to a peer that takes it, goes on.
* `docs/PROTOCOL.md:30,32` describe length-prefixed names in `CreateTopic` and `Subscribe`; both
  ends send the raw name (`server.go:204,271`, `client.go:149,359`).
* `docs/PROTOCOL.md:76` applies the read time-out to the push phase; the server clears the deadline
  there (`server.go:279`). The model follows the code (`IdleSubscriberStays`).
* `subscription.go:22` and `docs/ARCHITECTURE.md:72` warn that concurrent reads of one subscription
  repeat messages or confuse the cursor. They do not: the cursor moves in the section that reads the
  log (theorem `Delivery`, for any number of readers). What concurrent readers can lose is the
  wake-up: one token wakes one.
* `client.go:504-505`: `ReadBatch` waits for the first message and adds what has arrived. It may
  wait for a later one as well, with messages in hand: `Buffered` (`client.go:516`) is asked without
  the mutex, so another reader may take what it saw, and it also counts a frame of which only a part
  has come. `Read` then waits like the first time (in `Client`: `MoreOrDone`, `Lock`, `ReadPush`).
* `Subscription.ReadBatch` drops the error of a later `Read` when it already has messages
  (`client.go:517-519`); the next call meets it again if the connection is what failed, but not if
  it was the `OpError` of a refused batch, behind which the stream just ends.
* `Batcher.Close` returns the result of its own flush. When an earlier background flush has failed
  and the last one succeeds, it returns nil; the error stays in `Batcher.err`, where `Add` would
  have reported it (`LossIsRemembered` says that it stays).
* A connection that `Serve` is refusing is not waited for by `Server.Close`.

## 5. What is proved

TLAPS checks these for all values of the constants, that is for any number of publishers,
readers, subscriptions, any payloads, batches, read sizes, and logs of any length.

| Theorem | Statement |
|---|---|
| `PartitionProofs!Invariance` | `Spec => []InductiveInv` |
| `PartitionProofs!ReadIsCorrect` | in every reachable log `Read` returns exactly the messages in `[from, from + max)`, for all machine integers: the sum inside it cannot overflow |
| `PartitionProofs!TypeCorrect`, `Delivery`, `BatchAtomicity`, `NoDoubleClose` | the safety invariants of `partition_safety` |
| `PartitionProofs!WakeUp` | no lost wake-up, given one reader per subscription and a store that does not fail |
| `PartitionProofs!Refinement` | `Spec => ImplementsPromise`: the partition implements `BroadcastLog` |
| `PartitionProofs!Finality` | nothing is delivered once subscription or partition is closed |
| `BrokerProofs!TypeCorrect`, `Quiet`, `TrueRefusals` | `TypeOK`, `QuietAfterClose` and `RefusalsAreTrue` of the run `broker` |
| `BrokerProofs!Refinement` | `Spec => TopicIsOneLog`: each topic of the broker implements `BroadcastLog`, with stale lookups, overlapping creations and `Close` in slices |
| `BrokerProofs!NobodyIsKept`, `GoingOnIsAStep`, `EverythingEnds` | what `NobodyIsStuck` says, without `ENABLED`: who holds the write lock, and without a holder every call, meets the condition of its next step; each such condition allows a step; each step leaves less to do, for any finite number of callers, subscriptions and partitions |
| `BatcherProofs!Unstranded`, `TakenOnce`, `NoSilentLoss`, `ClosedIsEmpty`, `NoGap` | the five invariants of the run `batcher` |
| `ServerProofs!SlotsAreCounted`, `NothingLeftBehind`, `RestAfterClose`, `IdleStays` | the four properties of `server_safety` |
| `ServerProofs!ClosingGoesOn`, `GoingOnIsAStep`, `ClosingWindsDown` | the safety part of `CloseReturns`: no connection escapes `Close`, whom it waits for can go on whatever peers do, and comes nearer to the end with each step of its own and with nobody's step farther from it |
| `ClientProofs!PullsStay` | no read of a push ends at a deadline, with any time-outs |
| `ClientProofs!Prefix` | what a subscriber reads is the log from its beginning, with any time-outs, late answers and torn frames |
| `ClientProofs!OwnAnswers` | `AckIsOwn`, given that no read time-out is configured: section 4 has what happens with one |
| `ClientProofs!TrueErrors` | `ErrorsSayWhatHappened`, given that no time-outs are configured |
| `ClientProofs!CallsAreServed`, `GoingOnIsAStep`, `CallsWindDown` | the safety part of `CloseEndsCalls` and `SilenceEnds`: nobody waits in a circle; for the server only without a deadline and before a `Close`; after that nobody gets the lock and each step of a call leaves less to do |
| `CodecProofs!DecodersScan`, `DecodersAreExact` | on **any** bytes, no more than an `int` can count, no decoder leaves its input or reserves room beyond it, and what it accepts is what the encoder would have written |
| `CodecProofs!PublishRoundTrip`, `PublishBatchRoundTrip`, `TopicsRoundTrip`, `MessageRoundTrip`, `ErrorRoundTrip`, `FrameRoundTrip` | what is encoded and fits in a frame is decoded, for every length and width; a frame leaves the bytes behind it |
| `PushProofs!Typed`, `StoredFits`, `HeadersStay`, `Unmistaken` | types; `StoredFitsPush`, `HeadersExclusive`, `NothingMisread` of the run `push` |
| `PushProofs!Pushes` | `PushedIsLog`, as long as `LogsFit` |
| `PushProofs!Carries` | `CallIsCarriedOut`, as long as `LogsFit` |
| `PushProofs!RemoteRefinement`, `RemoteTopic` | `RemoteIsOneLog`, and for any one topic `RemoteLog(t)!Spec`, given `[]LogsFit`: what was published over the network and what was read over the network is one broadcast log |

With these every invariant, action property and refinement that a run checks is a theorem, except
`NobodyIsStuck`, whose content is; the other temporal ones are below.

`BatcherProofs`, `ServerProofs`, `ClientProofs` and `PushProofs` have `TypeCorrect` or `Typed`
besides, so that the runs of these modules need not check types.

**Assumptions.** `StoreAssumption` (`MaxInt` is a positive number) and `PartitionAssumption`:
batches are sequences of payloads, read sizes are machine integers, the log's bound does not exceed
the largest integer, and the name for "nobody" and the closer are not publishers.
`BrokerAssumption`, `BatcherAssumption`, `ServerAssumption` and `ClientAssumption` say as much of
their constants: sizes are numbers, time-outs are what the options offer, publications carry at
least one payload. For the wire:

* `CodecAssumption`: an integer has at least one byte, and of the limits of `frame.go:22-25` that the
  largest payload is an `int`, has room in the length field and holds the fields in front of a
  pushed message;
* `RequestsAssumption`: a call of `Publish` has one payload, one of the other methods has none but for
  a batch, strangers send no more in one header than an `int` can count, a broker has finitely
  many topics in the beginning;
* `FramesAssumption`: the body of a call, even of a peer that checks nothing, has a length
  that the length field can say. Nothing is assumed of the names and payloads of calls
  beyond that: too long, empty or invalid ones are among them;
* `ErrorsAssumption`: the error codes, 1 to 9, fit in their 16 bits, and an `OpError` with a
  short text fits in a frame.

TLC evaluates them in every run. The two hypotheses of `WakeUp` are needed: section 4 has what a
failing store does, and without the first one token can be taken by one of two sleeping readers.
`LogsFit` says that no log has 2^64 messages. Without it offsets would wrap on the wire, where they
are a `uint64` (`codec.go`), and the reader would get a message under an old offset. `Pushes` and
`Carries` are of the form `Spec => [](LogsFit => ...)`: they hold in every state up to that point.
The refinements over the wire speak of whole behaviours and have `[]LogsFit` as a hypothesis; the
server reaches the limit no sooner than after 2^64 publications. The theorems of `BrokerProofs` on
being stuck assume what the bounds of the model need, finite sets of callers, subscriptions and
partitions; `GoingOnIsAStep` there a batch to publish.

**The argument.** The safety properties are not inductive one by one. `InductiveInv`
(`PartitionProofs`) adds what ties the goroutines together:

* `LockInv`: who is inside a publish holds the lock, so two are never inside;
* `LogInv`: the position in the log is the offset, and the log fits an integer. `Read`'s
  cursor, "last offset + 1", is therefore a position;
* `PublishInv`: the appended part of a batch is the end of the log, behind all that any
  subscription has read and any publish was promised. This is why a batch is never torn
  and why a half-appended one is invisible;
* `RegistryInv`: only what `Subscribe` returned is registered or read;
* `AckInv`: acknowledged batches are not empty, so that none share a base;
* `WakeInv`: a sleeping reader with unread messages has its token, or a publisher is about
  to visit it. It holds through dropped signals, since a signal is dropped only when the
  token is there, and through stale tokens, since a reader that takes one looks at the
  log again under the lock before it sleeps.

The proof is one lemma per group of conjuncts and one step per action. What an action
does to the log is stated once (`AppendNextEffect`, `CheckDataEffect`) over lemmas on
the operators of `Store` (`StoreProofs`).

The others follow the same plan, with an `InductiveInv` at the head of the `...Proofs` module of
each (for the wire `Inductive`), which TLC has checked on the instances of section 3 before it was
proved.

* Broker: `CloseInv` says that only a running `Close` holds the write lock, and that the broker was
  marked closed before. `HomeInv` says that the map holds every topic ever created until then and
  that no partition serves two; `FreshInv` that a partition not allocated yet is empty and nobody's.
  `CallInv` says that the partition a call has found is the one that its topic had and keeps, and
  that a call which began after `Close` has found none. `ShutInv` says that from the beginning of
  `Close` each partition is shut, without subscriptions, or `Close` has still to come to it.
* Batcher: `TimerInv` says that a timer in the field that no longer runs has yet to flush, which is
  why an `Add` may rely on it. `CloseInv` says that what `Close` has emptied stays empty while it is
  still sending. `AloneInv` is the exact state of topic, buffer and batch as long as nothing has
  overlapped.
* Server: `HeldInv` says that the connection `Serve` has just accepted has no handler yet;
  `RunningInv` what the WaitGroup counts. `HandlerInv` ties monitor, subscription and socket to the
  place of the handler in `handleConn`, and the deadline to the monitor. `CloseInv` says that nobody
  returns from `Close` before the body of `closeOnce` is through.
* Client: `LockInv` says that whoever writes, reads an answer or waits for a push holds the lock,
  that requests only get it before the client streams, and that a streaming client has no deadline.
  `LateInv` keeps calls that begin after `Close` from getting past the lock. `NoTimeoutInv` says
  that frames are torn only by time-outs. `StreamInv` says that the server answers one subscription,
  before its first push, and that the pushes behind the answer are the log from where the reader has
  got to, without a gap up to the cursor as long as the server can go on. `RoundTripInv` says that
  without a read time-out a connection carries one round trip at a time: requests that are not
  answered, behind them at most one whose caller waits, or its answer.
* Push: `DataInv`, `StreamInv` and `PoolInv` say what bytes, offsets and headers there are.
  `ExchangeInv` says where each connection is in its exchange, and exactly which bytes are on the
  wire then: at rest (`Resting`), the frame of the call (`Sent`), the frame of its answer
  (`Answered`), nothing because it was ignored, a last word because it was too long (`Rejected`), or
  the answer to a subscription and the stream behind it (`Granted`). For a stream, the bytes that
  were written and not read, with those the batch has still to write, are the frames of the messages
  from `Len(got)` to where the stream stands (`Pushing`); a stream that has ended leaves a prefix of
  them or a last word behind them (`Ended`). From there `Pull` is the round trip of a frame.
  `History` relates the call, what was understood, the verdict and the log.

**Induction over data.** The integers, lists and loops of `Codec` are recursive functions and folds,
and the induction theorems of the library take operators, which no backend can instantiate.
`CodecProofs` first proves the same principles for sets and functions in their place (`Least`,
`Induction`, `Recursion`, `SetRecursion`) and unfolds `Number`, `Power`, `FlattenSeq` and the folds
with them. An argument by induction then is about the set of the numbers for which the claim holds.
This gives `NumberOfPut` (the round trip of an integer of any width in any base),
`StringsProperties` (a list of any length), `NamesInOrder` (finitely many names can be sorted) and
the lemmas on `Frames`.

**Refinement.** A publish becomes visible at one moment: when its last payload is appended,
or, if the store gives up, when the lock is released. Until then `Hidden` payloads are cut
off the log that the abstract one sees. `closes` and the registry give the status of
subscriptions. Each action is shown to be a step of `BroadcastLog` or to
leave its variables alone.

Over the wire (`RemoteLog`) the content of the abstract log is what the server has stored,
`delivered` what `Subscription.Read` has returned in the client, and a subscription is live from
the moment its client has the answer until the client is told the end. `Serve` of a publish and
`PublishLocally` are `Publish` of the payloads they append, `Return` of a granted subscription is
`Join`, `Pull` of a message `Deliver`, `Pull` of an end `Leave`; everything between, frames,
headers, torn writes, is invisible. The broker may close while messages are on the wire, and these
are still read: the abstract log is shut (`Shut`) when the broker is closed and no client follows
the topic any more. `PushedIsLog` and `ExchangeInv` give what a read returns, and `Granted` says
that only who was granted a subscription reads.

**Going on.** Liveness is the business of TLC, but what it rests on is safety and is proved for
every instance. For broker, server and client there are three theorems each: *who has begun can go
on, or waits for somebody who can* (an invariant over conditions, `CanGoOn`, `HandlerGoesOn`,
spelled out), *whoever can go on has a step* (the successor is written out and shown to be a step of
the specification and no stutter, which is what `ENABLED` would say), and *each of his steps leaves
him less to do, and nobody else's step gives him more* (`CallLeft`, `StepsLeft`). With weak fairness
of the same steps the liveness properties follow by an induction that is left to the reader. For the
server this needs `ToldInv`: from the moment `Close` has taken its list of connections, each
registered one is on the list or cancelled and hung up, because `Serve` looks at `closed` in the
critical section in which it registers; and `DetachedInv`, by which a handler that joins its monitor
has hung up before. For the client it needs that the caller in the body of `closeOnce` has nothing
to wait for, that who holds the lock writes, reads or waits for a push, and that an answer is waited
for with the deadline set.

**Model-checked only.** Liveness and what needs `ENABLED` are beyond the prover: `UnreadIsRead` and
`CloseEndsRead` of the partition, `BufferedIsSent`, `SilenceEnds` and `CloseEndsCalls` of the
client, `CloseReturns`, `GoneIsForgotten` and `SlowIsDropped` of the server, and `NobodyIsStuck` of
the broker as it stands. The three sentences that the code does not keep are refuted by TLC. That
the operations of a partition may be single steps in `Broker` is what `PartitionProofs!Refinement`
says; the substitution itself is an argument, not a theorem.

## 6. What is not modelled

* The width of real integers in `Codec`: it has the same fields and checks with fewer digits.
  Writers that spare a copy (`WritePublish` and its kin) are modelled by the bytes that
  they put on the stream, all of which `push` compares by decoding them.
* In `Client` and `Server`, bytes: a frame is a unit that may be torn. What a payload says when
  its bytes are taken for a header, after a frame was torn, is left out; so are, in `Client`, the
  refusals that depend on sizes, `WritePublishBatch`'s among them (`frame.go:246`), which
  are in `Requests.Refusal`. `Server` lets the write of any batch be refused (`PushRefused`);
  `Push.RefuseBatch` says which are. In `Requests`, what may
  happen between the steps of one call of the broker, which `Broker` and `Partition` cover.
* Recovery from panics in handlers (none of the modelled code panics; `DoneClosedOnce`
  excludes the one candidate), socket tuning, logging, the demo and the benchmarks.
* Memory: logs grow without limit in the code as well; a limit is a bound of the model.
* Nothing is persisted, so there is no crash recovery; a crash of the server is, for its
  clients, `ServerEnds`.

## 7. Plan

Done: all components with their runs, the proof of every safety property and refinement that the runs
check, and of the safety that the liveness properties rest on in broker, server and client.

What a next step could be:

1. The same three theorems for the batcher (`BufferedIsSent`) and the partition (`CloseEndsRead`).
2. Composing `Broker` with the steps of `Partition` in place of atomic operations, as a module whose
   refinement of `Broker` is proved, instead of the argument above.
3. A composition of `Client` with `Server`, so that the handler of a connection and the lifetimes
   of all of them are in one state space.

## 8. Running it

    tlc -config partition_safety.cfg MCPartition.tla
    tlapm PartitionProofs.tla

Each configuration names the instance in its constants; `PROJECT.json` maps runs to modules,
and every definition to the lines it models.

# TLA+ models of watermelon

These are TLA+ models of the watermelon NATS client, which lives under `src/`. Each one is checked with TLC.
`PROJECT.json` gives the details in machine-readable form: every component and its status, every run, the mutant for each checked property, the map from each definition to the source lines it models, the findings, and the hazards.

## The system

watermelon is a Rust NATS client. It is split into four crates:

- **watermelon-proto** holds the protocol values (subjects, headers, server errors, ...), plus the stream encoder and decoder for client and server ops.
- **watermelon-net** holds the TCP/websocket connection, `StreamingConnection` (the encoder and decoder over a socket), and the Happy Eyeballs dialer.
- **watermelon-mini** holds the connector: the INFO → TLS → CONNECT → PING/PONG handshake, authentication, and optional zstd.
- **watermelon** holds the client itself:
  - `Client` is a cheap handle. It sends `HandlerCommand`s over a bounded mpsc channel of 512 slots.
  - `Handler` is a future that owns the connection. One tokio task polls it in a loop and reconnects it after `Disconnected`/`ServerError`. The reconnect runs `recycle`, waits `RECONNECT_DELAY`, and then calls `Handler::connect`.
  - `Subscription` is a stream over a 256-slot channel whose sender the handler holds.
  - Requests without an explicit reply subject are *multiplexed*. `Client::multiplexed_request` sends `RequestMultiplexed` with a fresh reply subject and a oneshot sender. On first use the handler subscribes SUB 1 to the inbox prefix's wildcard, keeps the sender in `multiplexed_subscriptions`, and routes every message on SUB 1 to the waiter for its subject. The `ResponseFut` waits on the oneshot and on a timer. Dropping it before completion sends `UnsubscribeMultiplexed`, or sets the failed-unsubscribe bit.
  - `quick_info` is an `AtomicU32` bitfield that both sides share. It carries `IS_FAILED_UNSUBSCRIBE`, the fallback when `Drop for Subscription` cannot enqueue its unsubscribe.
  - The JetStream client is a layer of JSON requests over `Client::request`. Its stream and consumer listings (`Streams`, `Consumers`) are streams that fetch one page at a time, by offset, and retry a failed page on the next poll. Its pull consumer (`ConsumerStream`) runs one `ConsumerBatch` after another: each subscribes to a fresh inbox, publishes a pull request for `max_msgs` messages with that inbox as reply subject, and counts the messages down until the batch is full, the server ends the request (404/408) or the batch's timer fires.

The client connects in verbose mode. The server answers every PUB, SUB and UNSUB with `+OK`, or with a `-ERR` when permission is denied. The handler matches those answers to commands by position only, using the FIFO `in_flight_commands`.

### Interactions and hard behaviours

- **User tasks and the handler task** interleave through the command channel, the subscription channels, and the shared bit.
  - `Drop for Subscription` may run at any time, including while that subscription's own `Subscribe` command is still queued.
  - If the channel is full or closed, `lazy_unsubscribe` sets the bit instead of enqueuing. The next poll then runs `failed_unsubscribe` *before* it receives commands.
- **Acknowledgement correlation.** Each op written must be paired with exactly one in-flight entry. This holds for the handler's own writes, for the replay in `Handler::connect`, and for the sweep in `failed_unsubscribe`.
- **Reconnect.** The subscription map, the command channel and the bit survive `recycle`. `connect` replays every subscription (SUB, plus UNSUB max when a `close_after` limit is set) and rebuilds the in-flight FIFO. Its `quick_info.store` is a load followed by a separate store.
- **Close.** `Client::close` enqueues `Close` and waits until the handler lets go of the oneshot sender.
- **Limits.** The model covers:
  - the channel capacities (512 and 256);
  - `may_enqueue_more_ops` (an 8 MiB encoder);
  - two unanswered PINGs;
  - `close_after`'s countdown compared with the server's `UNSUB max`, which counts from the SUB.

## Modules

### `Handler.tla`: the client reactor, its users and the server

This module covers `src/watermelon/src/handler.rs`, the task loop and the handles in `client/mod.rs`, `subscription.rs`, and the store in `quick_info.rs`.

**State.** The variables map to the code as follows.

| variable | code |
|---|---|
| `hpc` | where the handler task is: the `poll` stages `ping`, `cleanup`, `read` and `recv`; `reconnect`/`connecting` in the task loop; `closed` after `HandlerOutput::Closed` |
| `subs` | `Handler.subscriptions`, as id ↦ `[remaining, failed]` (`remaining = 0` stands for `None`) |
| `inFlight` | `in_flight_commands` |
| `pendingPings`, `shuttingDown`, `recvBuf` | the fields of the same names |
| `commands`, `cmdClosed` | the mpsc channel and `Receiver::close` |
| `failedUnsub`, `lameduck` | the quick_info bits |
| `qiSnap` | the value `RawQuickInfo::store` loaded |
| `nextId`, `user`, `inbox`, `closeCalled` | the user side: `next_subscription_id`, the `Subscription`'s status (subscribed / unsubscribed / dropped), its channel, and `close()` called |
| `muxInit`, `muxMap` | `multiplexed_subscriptions` (`Some`) and the reply subjects it holds senders for |
| `oneshot`, `req` | whether a reply was sent on a request's oneshot, and its `ResponseFut`'s state (waiting / timedOut / done / dropped) |
| `toServer`, `toClient`, `srvSubs`, `connAlive` | the wire in each direction and the server's subscriptions with their `max` and delivered count `nm` |

**Actions.** There is one action per handler step:

- `PollStart` / `Ping` / `PingTimeout` model the ping timer.
- `FailedUnsubscribe` / `SkipCleanup` model the sweep.
- There is one `Read*` action per arm of `handle_server_op`, plus `ReadPending` and `ReadFailed`.
- `RecvBatch`, `RecvPending`, `RecvClosed` and `RecvNoMoreSpace` model the `receive_command` loop. `PollReturn` is the end of `poll`.
- `RecvClosed` is the closed, drained channel after Close. `poll_recv_many` returns `Ready(0)` and sets `shutting_down`, and the loop polls again. Each call spends the coop budget (128) of the `tokio::spawn`ed client task (client/mod.rs:127), so the call eventually returns `Pending`. That gives `NoMoreCommands`, the loop breaks, and `poll` returns `Closed`. The repeated `Ready(0)` rounds change nothing after the first, so the model takes them as one step.
- There is one `Handle*` action per `HandlerCommand` arm.
- `ConnectLoad` / `ConnectStore` model `Handler::connect`. They are split at the non-atomic `quick_info.store`.
- `Recycle` models `Handler::recycle`. It also drops the multiplexed map, which `Handler::connect` recreates as `None`.
- `HandleRequestMultiplexed` runs `init_multiplexed_subscriptions` when the map is `None` (SUB 1 and its in-flight entry go ahead of the PUB). `HandleUnsubscribeMultiplexed` and `ReadMuxMessage` (the SUB 1 arm) remove a waiter. `FailedUnsubscribe` also runs the `retain` over closed oneshots.

The user side has `Subscribe`, `Publish`, `ClientClose`, and `Subscription{Close,CloseAfter,Recv,End,Drop}`. The requester side has `Request` (`multiplexed_request`), `ResponseRecv` and `ResponseTimeout` (the two outcomes of `ResponseFut::poll`, which polls the oneshot before the timer), and `ResponseDrop` (`lazy_unsubscribe_multiplexed`). A reply and a 503 both complete the oneshot, so they are one outcome; the timer may fire at any point while the oneshot is pending.

The server is the environment:

- `ServerReceive` answers PUB/SUB/UNSUB/PING. A PUB with a reply subject may be answered on SUB 1 (a responder, or a 503) when the server holds SUB 1.
- `ServerDeliver` delivers a message. nats-server's `UNSUB max` semantics apply: the count runs from the SUB, and the subscription is removed at `nm >= max`.
- `ServerPing` and `ServerInfo` send unsolicited ops.
- `ServerFatal` and `ConnLost` end the connection.

Some of the code is abstracted:

- Subjects, payloads and headers are dropped. A message is its subscription id, plus its reply subject on SUB 1; reply subjects are the model values of `Requests`.
- Acknowledgements carry a ghost field `of` naming the in-flight entry they answer. The code never reads it; only `InFlightMatchesWire` does.
- The encoder buffer, the socket and the server's read buffer form one FIFO. `may_enqueue_more_ops` is `Len(toServer) < WireCap`.
- The write/flush table of `poll` has no effect on these properties and is folded into `PollReturn`.
- The code ignores the `ControlFlow` that `handle_server_op` returns (handler.rs:417), and so does the model: `ReadFatal` only consumes the op.

**Fairness.** `FairSpec` adds `WF` on the handler's steps and on `ServerReceive`:

- Whenever the handler has something to do, its channel, socket or timer wakes the task, and tokio polls it.
- The server keeps reading its socket.

Users, publishers and faults get no fairness.

**Properties.**

- `TypeOK`: the type invariant. It includes `pendingPings ∈ 0..2`, the ping timeout's bound.
- `InFlightMatchesWire`: while the handler is polling, `in_flight_commands` equals the acks still owed. These are the `+OK`/`-ERR` already sent, followed by one ack for each PUB/SUB/UNSUB the server has not yet read. So every `-ERR` reaches the command it answers.
- `NoOrphanServerSubscription`: the server holds no subscription the handler has forgotten, unless an UNSUB that ends it is on its way.
- `SubscriptionLive`: while connected, each live (not failed, not dropped) subscription in the map is in one of these states:
  - subscribed on the server;
  - its SUB is on its way;
  - a `-ERR` for it is on its way back;
  - its `close_after` count will be run down by messages already in flight.

  The same must hold for SUB 1 once the multiplexed map is `Some`, because every later request is routed through it.
- `DroppedSubscriptionTracked`: every dropped or failed subscription in the map still has a removal coming, either the bit or a queued `Unsubscribe`. Likewise every waiter whose `ResponseFut` was dropped has the bit, a queued `UnsubscribeMultiplexed`, or its reply on the way. It fails for both kinds of entry (finding 2), so only `handler_reconnect`, where the channel never fills, checks it as a pass.
- `SubscriptionReleased` (liveness): a dropped subscription eventually leaves the map for good.
- `CloseCompletes` (liveness): after `Client::close`, the handler eventually returns `Closed`. It holds only because of the coop budget: a channel that kept answering `Ready(0)` (the mutant `RecvClosedSpin`) never lets `poll` return.

### `ProtoUtil.tla` and `MCProtoUtil.tla`: the byte helpers

`ProtoUtil` models watermelon-proto's `util` module as operators over sequences of abstract bytes:

- `ParseUint` is `parse_unsigned!` (util/uint.rs). It uses checked multiply and add at width `w`, and returns result records `Ok(v)`, `InvalidByte` or `Overflow`.
- `SplitSpaces` is `split_spaces`: at most six chunks, each ending at a space or tab, with the run of separators after it skipped.
- `LinesIter` is `lines_iter`: the chunks between CRLFs.

A byte is a string that names it: `"0"`..`"9"`, `" "`, `"TAB"`, `"CR"`, `"LF"`, or anything else. `MCProtoUtil` takes every input of bounded length as an initial state and checks each operator against a reference: the decimal value, the maximal non-separator runs, and the lines joined back with CRLF. The bounds are five digits, which pass 2^16 for `parse_u16`; thirteen bytes, which hold seven fields (one more than `split_spaces` keeps); and six bytes of lines.

### `Validate.tla`, `HeaderMap.tla` and `MultiMap.tla`: validators and the header map

`Validate` extends `ProtoUtil` with the string validators and the decoder's header-line parser:

- `validate_subject` (subject.rs) runs three checks in order: empty, longer than 256 bytes, and any whitespace. It then walks the `split('.')` tokens (`SplitOn`, `CheckTokens`) and stops at the first token that is empty, has a wildcard beside another byte, or is a `>` with a token after it.
- `validate_header_name` and `validate_header_value` (headers/name.rs, value.rs) apply the same kind of checks, with limits 64 and 1024, and a `:` is also illegal in a name.
- `validate_queue_group` (queue_group.rs) applies the same kind of checks: empty, longer than 64 bytes, any whitespace.
- `SubLine` is the encoder's `Subscribe` arm (proto/encoder/mod.rs): `SUB {subject} {queue_group} {id}` and CRLF.
- `HeaderLines` is the closure of `decode_headers` that splits each header line at its first `:` and drops one whitespace byte after it. It validates both parts through their `TryFrom`. `Decoder` uses it, and so do the checks below.

Every abstract byte stands for one ASCII byte, so the length limits keep their real values.

`HeaderMap` models headers/map.rs. The variable `hm` is the struct: `headers` is the BTreeMap and `len` is the separate count.

- A key is the case-folded name (`UniKey`), because `HeaderName` is `UniCase`.
- An entry keeps the spelling it was first stored with, because `BTreeMap::insert` does not replace the key.
- An entry's value is `OneOrMany`: `One(v)`, or `Many` once `push` has run.
- `insert`, `append`, `remove` and `clear` are pure functions of a map value. The actions `InsertHeader`, `AppendHeader`, `RemoveHeader` and `ClearHeaders` apply them to `hm`.
- `FromPairs` is `FromIterator` (an `append` per pair).
- `encode_headers` is the encoder's header block: `NATS/1.0`, then `name: value` per value in `iter` order, then an empty line.

`MultiMap` is the abstract map from spec.md ("Header map"): a sequence of values per folded name. Insert makes the sequence `<<v>>`, append extends it, and remove and clear empty it. `Size` is the total count.

`MCProtoUtil` defines two harnesses, chosen by `harness` in the initial state. `MCCodec` instantiates it (as `P`, with its `buf` renamed `ubuf`) and runs both in the `codec` run:

- **"operators"**: one bounded input per state, checked against the references. The subject inputs are every string of up to four bytes over `a . * > space`, plus strings of 256 and 257 bytes. The queue group inputs are every string of up to three bytes over `a : space TAB CR LF`, plus strings of 64 and 65 bytes.
- **"headers"**: the header map under every sequence of operations, with at most three values held.
  - The names are `n`, `N` (the same key) and `x`.
  - The values are `v`, `w` and `:v`.
  - Both are filtered through their validators, so a name with `:` or a space, an empty value, and a value with a space are not passed.

The two harnesses share no state, so together they add up to about 28,700 states rather than multiplying. Properties:

- `SubjectValidationMatchesSpec`: `validate_subject` gives the verdict spec.md's subject rules give. When a subject breaks a rule, the error names the first rule broken, and among the tokens the first bad one.
- `SubLineFramed` crosses `validate_queue_group`, `validate_subject` and the encoder. For every queue group the validator accepts, and three accepted subjects, the SUB line has exactly the four fields spec.md gives it (`SUB <subject> <queue_group> <sid>`), and no CR or LF before its terminator. A queue group can therefore neither shift the sid nor end the line and inject a command. A validator that refused only the space byte lets a TAB through, which splits the queue group.
- `ImplementsMultiMap`: `HeaderMap` refines `MultiMap` under the mapping from folded key to the entry's values.
- `LenCountsValues`: `len` equals the number of values held. This includes an insert over a name that holds several values.
- `HeadersRoundTrip` crosses the encoder, the header map and the decoder. A map written by `encode_headers` (HPUB) and read by `lines_iter` and `HeaderLines` (HMSG, relayed byte for byte by the server) gives back the same map, with each name's spelling and each name's value order intact.

### `Decoder.tla`: the stream decoder under `poll_read_next`

This module covers `proto/decoder/{mod,stream,framed}.rs` and the read loop of `StreamingConnection::poll_read_next` (connection/streaming.rs).

- **Environment.** The server writes the bytes of a *script* of ops (`OpBytes`: `+OK`, PING, PONG, `-ERR`, INFO, MSG, HMSG with a header, HMSG with a status line, and malformed ops). A keyword the decoder tests with `starts_with` is one abstract byte. JSON, subjects and UTF-8 are abstracted to inputs that are always valid.
- **State.** `buf` is `read_buf` and `status` is `DecoderStatus`, one record kind with fields for every variant. `pc` is where `poll_read_next` stands. `received` is the ops it returned and `err` is the error that ended it.
- **Actions.**
  - `Decode` runs the whole `decode` loop (`RECURSIVE decode` over `DecodeStep`), exactly as one call does.
  - `Read` appends 1..`MaxRead` bytes, so every split of the bytes into reads is explored.
  - `ReadEof` is `Ok(0)` after the last byte.
  - `Stopped` is the connection after the error, which the handler drops.
- **Code kept as written.**
  - `last_bytes_read` is set only when no CRLF is found, and reset only by the payload branch.
  - The `MAX_HEAD_LEN` check (scaled down to `MaxHeadLen = 12` symbols, above the longest valid control line of the scripts, 12 symbols with its CR, so that only the 13-symbol unterminated INFO line `long` exceeds it) measures what is left after an unrecognised line.
  - `decode_headers` indexes `line[0]` after the `:`.
  - `-ERR`'s `truncate(len - 1)` panics when `OverflowChecks` is set (a debug build).

`ServerOpStream.tla` is the abstract specification of what the read half promises the handler:

- the ops the server wrote come out in order and unchanged, each only after its last byte arrived;
- the stream may fail only at an invalid op or at end of stream.

`Decoder` instantiates it with the refinement mapping `ops` ↦ the script's expected ops, `arrived` ↦ the number of ops whose bytes all arrived, `delivered` ↦ `received`, `failed` ↦ `pc = "failed"`. `ImplementsOpStream` checks it.

**Properties.**

- `TypeOK` includes that `buf` is always the not-yet-consumed suffix of the bytes read.
- `ImplementsOpStream` is the refinement.
- `FrameDecodesEachOp` covers `decode_frame`: each valid op alone in a frame decodes to itself, and no strict prefix decodes to an op.
- `DeliversArrivedOps` (liveness): every op whose bytes have arrived is eventually returned, or the stream ends.
- `ReadsOnlyWhenNeeded`: whenever `poll_read_next` goes back to the socket, every op that has arrived in full has been returned, and an unterminated control line in the buffer is within the limit. Malformed input ends in a `DecoderError`, never in a panic.

**Fairness.** `FairSpec` assumes the handler polls whenever it is woken (WF on `Decode`) and the socket wakes it when bytes are ready (WF on `Read`). The server closing the connection is *not* assumed, so a decoder waiting for bytes that will never come is a liveness failure. `Decode` is enabled exactly when `pc = "decode"`, because every path of `decode` returns. `WF_vars(Decode)` is therefore written out as `[]<>(pc # "decode") \/ []<><<Decode>>_vars`: TLC's evaluation of `ENABLED` through the deep recursion of `decode` does not terminate in practice. These conditions are `Decoder`'s `Fairness`. `MCCodec`'s `MCFairSpec` assumes them for the read harness only, and `Flush`'s for the write harness only.

**Bounds.** `MaxRead = 6` is at least as long as every control line, so a whole line can arrive in one read or byte by byte. Scripts have two or three ops, pairing each op kind with a control op before it and a message after it, plus the malformed ones. `codec` takes `LiveRefineScripts`: the eight `RefineScripts` and the two MSG/HMSG `MessageScripts`. The one script that stalls, `-ERR` then `+OK` (finding 4), is kept out of it and left to `decoder_defects`, so `DeliversArrivedOps` is checked on every other pairing. `Width = 16` puts every length in range.

### `Flush.tla`: the write half under `Handler::poll`

This module covers the command loop of `Handler::poll` (handler.rs 427-535), `receive_command` (553-680), the write side of `StreamingConnection` (`poll_write_next`, `poll_flush`, `may_flush`, `may_enqueue_more_ops`), and the `DelayedFlusher`. `Handler` abstracts the same writes to a FIFO of ops. This module keeps the scheduling instead: when bytes are written, flushed, or left waiting.

- **Environment.**
  - The client sends up to `MaxOps` commands into a channel of `ChanCap`. Each command is one op of one unit.
  - The socket buffers up to `SockCap` units it accepted (a TLS record or the zstd window). It pushes them out on `poll_flush`, or before accepting more once the buffer is full.
  - The kernel's send buffer may congest, at most `MaxStalls` times. While it is congested, a write to a full socket and a flush are both `Pending`, and each registers the socket's waker. `Relieve` drains the kernel and fires those wakers.
  - The flush delay's `Sleep` elapses (`Elapse`) and wakes the task, but only if it was polled.
- **State.** The code's `enc` (`remaining()`), `may_flush`, `flushing` and the delay (`none`/`armed`/`elapsed`). The set `wakers` holds the registered wakers (channel, write, flush, delay). `woken` says the runtime will poll the task. `hpc` says where `poll` stands.
- **Actions.**
  - `Send` is `Client::enqueue_command`. It wakes the task if the channel holds its waker.
  - `PollStart` is the runtime polling a woken task.
  - `CommandLoop` is one iteration of the loop, as the code runs it:
    1. `receive_command` takes batches of `RecvBuf` while the encoder is below `EnqueueLimit`. It returns `NoMoreCommands` (registering the channel waker) or `NoMoreSpace`.
    2. `poll_write_next` runs, and its result is one of: nothing to write; `Pending` (clears `may_flush`); or `Ready(n)` for any `n` the socket has room for (sets `may_flush`).
    3. The `flush_action` table decides: `Start` sets `flushing` and arms the delay if none is set; `Stop` clears `flushing`.
    4. The loop breaks when `write_waker_registered` holds.
  - `AfterLoop` is the flush after the loop. An armed delay holds the flush back and registers its waker. An elapsed one is cleared. Then `poll_flush` either pushes the buffer out and clears `may_flush` and `flushing`, or is `Pending` on a congested kernel.
  - `Waiting` is the task asleep with no waker fired.
- **Debug assertions.** The `(NoMoreSpace, true, _)` arm holds `debug_assert!(should_flush)`. With `DebugAsserts = TRUE` a failed assertion ends the task (`hpc = "panicked"`). The runs model the release build.
- **What is left out.** The read half and the ping timer also wake the task; they are left out, so the properties hold without their help. Write errors end the poll with `Disconnected`, which `Handler` models. `shutting_down` is `Handler`'s (`RecvClosed`).

**Properties** (checked in `codec`, through `MCCodec`):

- `FlushTypeOK`, the type invariant, includes that the socket never holds more than it can buffer.
- `NoLostWakeup`: whenever the task sleeps with commands in the channel, ops in the encoder, or bytes in the socket, a waker it registered is still due. That is either the socket's waker while the kernel is congested, or the delay's while it runs.
- `FlushPendingJustified` is spec.md's invariant `flush_pending ⇒ write_buffer_nonempty ∨ last_write_happened_since_last_flush`: between polls, `flushing` is set only while the encoder or the socket holds bytes.
- `EveryOpDelivered` (liveness): every command the client sends is eventually pushed out by the socket.

**Fairness.**

- The runtime polls a woken task, so there is WF on `PollStart`.
- A poll runs to its end, so there is WF on `CommandLoop` and `AfterLoop`.
- The peer keeps reading, so the kernel drains: WF on `Relieve`.
- A timer fires: WF on `Elapse`.
- Nothing forces the client to send or the kernel to congest.

**Bounds.**

- Three commands through a channel of 2 with batches of 2 give partial batches.
- An encoder limit of 2 makes `NoMoreSpace` reachable after one batch.
- A socket buffer of 2 makes short writes, a full socket and its automatic push-out reachable.
- The delayed flusher is present.
- Two congestions let a write and a flush each be `Pending`, and let the delay be armed across a `Stop`.
- This harness has 2,904 states.

**Harness.** `MCCodec` instantiates both halves (`D` and `W`), the websocket write and read halves (`WS`, `WR`), the byte helpers and header map (`P`, from `MCProtoUtil`) the encoder (`E`), the JetStream listing (`L`) and the JetStream pull consumer (`B`). The variable `harness`, picked from the constant `Harnesses`, runs one of the nine harnesses ("read", "write", "ws", "wsread", "operators", "headers", "encode", "list", "batch") while the others keep their initial state, so the state spaces add rather than multiply. "ws" shares the channel, kernel and poll variables of "write". `WR` is given `Decoder`'s `decode`, `OpBytes` and `Expected` through `D` (`FreshDecode`). Instantiating `Decoder` a second time would give the same operators, but it makes TLC's coverage accounting several times slower. `decoder_defects` runs only the read harness, `encoder_panics` only the encode harness. Each property is stated as `harness = "h" => ...` for its own harness. The three refinement properties (`ImplementsOpStream`, `ImplementsMultiMap`, `ImplementsByteQueue`) are of the form `[][A]_v`, which TLC cannot guard that way; they hold in the other harnesses because there the instance's variables never change. The fairness of "write", "ws", "list" and "batch" is restated as weak fairness of each action conjoined with `harness = "h"` (`In`): such an action is never enabled in another harness, so this is the module's own `Fairness` in its harness and nothing elsewhere, and it keeps the liveness check free of the branches that one implication per harness would add.

### `WebsocketFlush.tla`: the write half over a websocket

The same command loop of `Handler::poll` when the connection is `Connection::Websocket`, with the calls of `WebsocketConnection` (connection/websocket.rs 81-104). Three things differ from the streaming path, and each is in the code:

- `write_waker_registered` is always `true` (handler.rs:443), so the loop always ends after one iteration.
- `flushes_automatically_when_full` is `false`, so the `flush_action` table gives `Start` exactly when `should_flush` holds (`FlushAction`).
- `should_flush` is set by every `enqueue_write_op` and never cleared.

- **Environment.** The `WebSocketStream` is a `Sink` from tokio_websockets, which is not part of the repository. It is modelled by the `Sink` contract. `start_send` buffers a frame. `poll_ready` is `Ready` below a threshold (`SinkCap` frames). At the threshold it pushes the buffer out first, which it cannot do while the kernel is congested. `poll_flush` pushes the buffer out, or is `Pending` on a congested kernel and keeps the task's waker. The kernel congests and drains as in `Flush` (`Congest`, `Relieve`, spec-modelled).
- **State.** `sbuf` counts the frames the sink holds, and `scmds` the commands among them; the others are PINGs. `should_flush` is the connection's flag. `pingDue` says the ping timer fired. The other variables are `Flush`'s.
- **Actions.**
  - `PollStart`: `poll` first polls the ping timer (handler.rs 402-406). If the timer fired, `Handler::ping` enqueues a PING without asking the sink whether it is ready.
  - `CommandLoop` is `receive_command` and the flush action. `receive_command` is a `RECURSIVE` operator. While `may_enqueue_more_ops` holds, it takes up to `RecvBuf` commands and enqueues each (`Enqueue`). `may_enqueue_more_ops` is `poll_ready` with a noop waker (`PollReady`). The channel's `Pending` gives `NoMoreCommands` and keeps its waker; a sink that is not ready gives `NoMoreSpace`, with no waker.
  - `AfterLoop` is the delayed flush and `poll_flush`, as in `Flush`. `should_flush` stays as it is.
  - `Elapse` is the flush delay elapsing, and `PingFire` the ping interval elapsing. The ping timer is polled in every `poll`, so its waker is always registered.
- **What is left out.** `pending_pings` and PONGs: a run enqueues at most `MaxPings` PINGs, and `Handler` models the ping timeout. Write errors (`Disconnected`) are `Handler`'s.

**Property** (checked in `codec`): `WsEveryOpDelivered` (liveness). Every command sent over a websocket is eventually pushed out to the kernel. A frame left below the sink's threshold is pushed out only by `poll_flush`, which runs because `enqueue_write_op` set `should_flush`. The mutant with an `enqueue_write_op` that does not set it leaves the last command in the sink for ever.

**Fairness.** This is `Flush`'s, plus WF on `PingFire`: `Handler::poll` re-arms the interval every time it fires (handler.rs 341-347).

**Bounds.** These are `Flush`'s, plus a sink threshold of 2 and one PING. With them, `NoMoreSpace` is reached after a single batch, the threshold is hit while the kernel is congested, and a PING joins a buffer that already holds commands. The harness has 7,935 states.

### `WebsocketRead.tla`: the read half over a websocket

`WebsocketConnection::poll_read_next` (websocket.rs 47-70), as `Connection::poll_read_next` (connection/mod.rs 53-66) dispatches to it. The server sends frames (`FrameScripts`): binary frames carrying the bytes of zero or more ops, and other frames. Then it ends the stream.

- **State.** `frames` holds the server's frames; `arrived` counts those that have reached the socket, and `fpos` those the stream has handed over. `residual` is `residual_frame`. `rpc` says whether the loop still runs or has returned `Closed` or an error. `wreceived` holds the ops returned, in order.
- **Actions.**
  - `ReadResidual`: with bytes in `residual_frame`, a call returns the op `decode_frame` takes from them. `decode_frame` decodes from a fresh `ControlLine` status, using `Decoder`'s `decode` (`DecodeResidual`, `FrameRet`). The bytes after the op stay in `residual_frame`. An error ends the stream (`failed`), and `Handler::poll` then returns `Disconnected` (`Stopped`).
  - `ReadFrame`: with `residual_frame` empty, the loop takes the next frame. A binary frame's payload becomes `residual_frame`; any other frame is skipped.
  - `ReadClosed`: the end of the stream is `Closed`.
  - `Arrive` and `End` are the server's steps. A `Pending` poll changes nothing.

**Property** (checked in `codec`): `WsReadReturnsFramedOps`. The ops returned are always a prefix of the ops the binary frames carry, in order. Frames of whole valid ops never fail. `Closed` comes only after every op has been returned. spec.md says a frame holds exactly one op; the code also handles a frame that holds several, and the property covers that case. The mutant that decodes a frame from a copy, dropping what follows its first op, loses the `ok` after a `ping`.

**Bounds** (`MCFrameScripts`): three sequences of frames, 51 states. One sequence has two ops in one frame, then a frame that is not binary. One has three ops in one frame, an HMSG first. One has an empty binary frame.

### `Encoder.tla` and `ByteQueue.tla`: the stream encoder and its `Buf`

`Encoder` models `StreamEncoder` (proto/encoder/stream.rs) over `BufList` (util/buf_list.rs). `encode` (proto/encoder/mod.rs) fills it and `StreamingConnection::poll_write_next` drains it.

- **State.** `encoder` is a record: `wb` is `BufList.bufs` (a sequence of chunks), `wblen` is `BufList.len`, and `flat` is `flattened_writes`. `vectored` is the socket's `is_write_vectored()`, fixed in the initial state. `panicked` records that the connection task panicked.
- **Data.** Each fixed part of an op is one byte: `"h"` for the PUB line, `"c"` for its CRLF, and `"g"` for a control op such as PING. A payload is one of `<<>>`, `<<"p">>` and `<<"p","q">>`. `Threshold = 2` stands for `WRITE_FLATTEN_THRESHOLD` (4096), so the empty payload, one below the threshold and one at it are all present.
- **`EnqueueWriteOp`** is `enqueue_write_op`, that is `encode`: `small_write` for the fixed parts and `write` for the payload. `write` copies a payload below the threshold into `flattened_writes`. A longer payload first moves `flattened_writes` into `write_buf` as a chunk of its own (`split().freeze()`), then is pushed after it.
- **`WriteNext`** is `poll_write_next`. The socket is offered `chunks_vectored` (everything) or `chunk()` (the front chunk), takes any number of those bytes, and the encoder is advanced by that number. `advance` splits the count between `write_buf` (`BufListAdvance`) and `flattened_writes`.
- **`BufListAdvance`** translates `BufList::advance` as written. If the front chunk holds fewer bytes than `cnt`, `entry.advance(cnt)` panics in `Bytes::advance`. If it holds more, the chunk is removed and `cnt -= remaining` underflows, which panics with overflow checks; in release the wrapped count makes the next turn panic. Only an advance of exactly the front chunk goes through.

`ByteQueue` is what spec.md ("Encoder") promises: a sequence of bytes where an op's bytes are appended and a writer removes any prefix of up to `remaining()` bytes. `Encoder` maps onto it through `queue <- Pending(encoder)`, the chunks of `write_buf` flattened and then `flattened_writes`.

**Properties:**

- `ImplementsByteQueue` (`codec`): every step that does not panic is a push of an op's bytes or a pop of exactly the bytes the socket took. In particular, a large payload stays behind the PUB line before it.
- `WriteBufLenExact` (`codec`): `BufList.len`, which `remaining()` and `may_enqueue_more_ops` read, equals the bytes in its chunks.
- `AdvanceNeverPanics` (`encoder_panics`, violated; finding 9).

`StreamEncoder::copy_to_bytes` is used by no caller outside the tests and is not modelled. The framed encoder of the websocket connection is not modelled either.

### `JetStreamList.tla`: the paged JetStream listings

`Consumers::poll_next` (jetstream/commands/consumer_list.rs) and `Streams::poll_next` (stream_list.rs) are the same code over two kinds of item, so one module models both. Each action is one call of `poll_next`:

- `PollBuffered`: a buffered item is returned first.
- `PollExhausted`: with the buffer empty and `exhausted` set, `Ready(None)`.
- `PollStartFetch`: `get_or_insert_with` builds the request future, which captures the current `offset`; its first poll is `Pending`.
- `Respond`: the page replaces the buffer. A page shorter than `limit` sets `exhausted`; a full one adds 1 to `offset`. Then the task wakes itself and returns `Pending`.
- `RespondError`: a timeout, a closed client or bad JSON drops the fetch and returns the error. The next call sends the same request again.

The server side (`Page`) is the JetStream API's paging, modelled from its documented meaning: the items after the first `offset`, at most `Limit` of them. The items are `1..Total` in the server's order. `listed`, `last` and `inOrder` record what the caller has received.

Properties:

- `EveryItemListed` (codec run, "list" harness): by the time the listing returns `Ready(None)`, every item has been returned, whatever requests failed in between.
- `ListingEnds` (liveness, same run): under `Fairness` (the caller polls whenever it is woken, and the server answers) the listing ends.
- `ListsEachItemOnce` (`jetstream_list_duplicates`, violated; finding 10): each item is returned once, in the server's order.

Bounds: three items in pages of two give a full page and then a short one. One failed request exercises the retry.

### `JetStreamBatch.tla`: the JetStream pull consumer

`ConsumerStream::poll_next` (jetstream/commands/consumer_stream.rs) and the `ConsumerBatch` it drives (consumer_batch.rs). `cstatus` is the stream's `status` (`Polling`, `RunningBatch`, `Broken`), `batch` numbers the current `ConsumerBatch`, `pending_msgs` is its counter, and `inbox[b]` is what the server sent to batch `b`'s subscription and the stream has not yet read. Each client action is one call of `poll_next`:

- `PollingReady`: the `ConsumerBatch::new` future subscribes and publishes the request; the batch starts with `pending_msgs = max_msgs`, and the server registers a request for as many (`reqs[b]`). The task wakes itself and returns `Pending`.
- `PollingErr`: on a closed client the future fails with `ClientClosed`; the stream is `Broken`.
- `BatchExhausted`: `pending_msgs = 0`, the batch returns `Ready(None)`.
- `BatchTimeout`: the subscription is `Pending` and the timer (`expires + request_timeout`) has elapsed. This is a fault when the server still serves the request (a link slower than `request_timeout`); `gaveUp` records it.
- `BatchReceive`: the subscription returns its head. A message decrements `pending_msgs` and is returned. A heartbeat wakes and returns `Pending`. 404, 408 and the end of the subscription end the batch. Any other status, and a server error, break the stream.
- `NextBatch` (part of every action that ends a batch): `ConsumerStream` replaces the batch with a new `ConsumerBatch::new` future and returns `Pending`. Dropping the batch drops its subscription, so what it still held, and what the server sends to it later, goes to `lost`.
- `Stopped`: `Broken` returns `Ready(None)`; the caller also stops after `MaxBatches` batches.

The server side is the JetStream pull request, modelled from its documented meaning. `ServerDeliver` hands out the next message of `1..Msgs` to a request that still owes some. `ServerEnd` ends a request when nothing is left, with 404 (`no_wait`) or 408 (`expires`). `ServerFault` (a 409, an unrequested heartbeat, a server error) and `Close` (`Client::close`) are faults, at most `MaxFaults` with the slow timer. Redelivery after `AckWait` is not modelled.

Properties (codec run, "batch" harness):

- `NoMessageLost`: no message the server sends is lost to the stream, unless the stream broke, the client closed, or a timer gave up on a live request. It holds because the timer is polled only when the subscription is `Pending`, and because the batch counts exactly the `max_msgs` it asked for.
- `EveryMessageConsumed` (liveness): under `Fairness` (the caller polls when woken, the server serves its requests, the timer elapses) the stream returns every message, in order, unless it breaks or a timer gives up on a live request.

Bounds: three messages with `max_msgs` 2 need a full batch, a short one ended by 404/408, and a batch that finds nothing. Four batches and two faults cover a fault in each of two batches.

### `ServerAddr.tla`: the server address parser and its `Display`

`ServerAddr` models watermelon-proto/src/server_addr.rs as operators. A URL is a sequence of tokens: the scheme, `"://"`, each character of the userinfo and the port, and the host as one token (`127.0.0.1`, `[::1]` or a DNS name). The bytes of a username or password are numbers.

- `UrlParse` and `UrlUserinfo` stand for what the `url` crate gives `from_str` on these inputs. The userinfo ends at the last `@`, and an earlier `@` is re-encoded as `%40`. The first `:` splits the username from the password, and a later `:` becomes `%3A`. A port above 65535 is an `InvalidUrl`. `ws` and `wss` are special schemes, so their default port is dropped and `127.0.0.1` is an IPv4 host. For `nats` and `tls` the host is an opaque domain.
- `PercentDecode`, `Utf8Valid` and `PercentEncode` are `percent_decode_str`, `decode_utf8` and `percent_encode(_, NON_ALPHANUMERIC)`.
- `FromStr` is `ServerAddr::from_str`, with its early returns in the code's order: `InvalidUrl`, `InvalidScheme`, `UsernameInvalidUtf8`, `PasswordInvalidUtf8`. It strips the brackets from a domain host, tries it as an IP address, and uses the transport's port when the URL has none.
- `Display` is `ServerAddr`'s `Display`. `Serialize` and `Deserialize` go through `Display` and `from_str`.

`MCProtoUtil` enumerates the URLs. The schemes are `nats`, `tls`, `ws`, `wss` and `http`. The userinfo is absent, or up to two characters of `a : @ %`, or one of the escapes `%3A`, `%33`, `%aa` and `a:%40`. The hosts are the three above. The port is absent, an empty `:`, 80, 443, 4222 or 65536. That is 2,340 URLs. `ServerAddrRoundTrips` checks three things on each:

- a port above 65535 is refused, and so is an unknown scheme;
- an accepted address has the URL's explicit port, or the transport's default;
- `from_str(Display(a)) = a` whenever the address has a username or no password.

### `Connect.tla` and `MCConnect.tla`: dialling and the handshake

This module covers what `Handler::connect` runs before the handler exists:

- `connect_tcp`: the Happy Eyeballs dialer in watermelon-net/src/happy_eyeballs.rs;
- `connector::connect`: watermelon-mini/src/proto/connector.rs;
- `proto_connect`: watermelon-net/src/connection/mod.rs;
- the authenticator's `try_from_addr` and `prepare_for_auth`.

- **Inputs.** `Init` chooses the following:
  - a `ServerAddr` from `Addrs0`, as a record of protocol, transport, host kind (IP or DNS), and whether the URL has a username and password;
  - the caller's auth method (`AuthArgs`);
  - the zstd opt-in;
  - for a DNS host, the address list `lookup_host` returns (`Resolutions`).

  `MCConnect` has two IPv4 addresses and one IPv6 address, resolved as `<<v4a, v4b, v6a>>`, as `<<v4a, v6a, v4b>>`, or as nothing. Every scheme (nats, tls, ws, wss) is included.
- **Happy Eyeballs state.** The state is that of `HappyEyeballs`:
  - `dns_received`, `connecting`, `last_attempted`;
  - `delay` (none, pending or elapsed), plus whether it has been polled (`delayPolled`);
  - `deadEnd`, and connect's `lastErr`.

  `outcome` holds each attempt's result, and `attempted` is the history of attempts started.
- **Happy Eyeballs actions.**
  - `PollStart` runs the DNS part of `poll_next`. A `stream::iter` stream yields every record and ends in the first poll.
  - `PollLoop` runs one iteration of the connecting loop. It polls `connecting`, then decides `make_new_attempt`, then calls `next_dns_record`, exactly as the code orders these. Between two iterations, `AttemptCompletes(a)` (an attempt connects or fails) and `DelayElapses` may run. So anything that can change between two reads inside one real poll also changes in the model.
  - `AttemptYielded` is connect's handling of `Some(Ok)` and `Some(Err)`.
- **Wakers.** A wake reaches the task only through a registered waker:
  - Every attempt in `connecting` has been polled before the poll can return `Pending`.
  - A fresh `Sleep` registers only when `poll_next` polls it (`poll_delay`).
  - A wake that arrives while the task is running makes it poll again (`notified`), as tokio does.
- **Handshake.** These actions follow `connector::connect` and `proto_connect` line by line:
  - `SetNodelay`, then `UpgradeTls` for tls://;
  - `WrapConnection`;
  - `ReadInfo`, where the server picks `tls_required`, `nonce` and `zstd`, or sends another op, or fails;
  - `UpgradePossiblyPlain`;
  - `PrepareConnect`, which chooses the auth method and zstd, and fails on Creds with no nonce;
  - `WriteConnect`, which writes CONNECT and then runs `after_connect`;
  - `WritePing`;
  - `ReadLoop`.

  Every await may fail with an io error. A websocket read that returns `Closed` or `IncompleteFrame` reaches `todo!()`, which the model records as `panicked`. `wrote` records each op the connection encodes, and whether it passes through TLS and zstd.

**Properties.**

- `AttemptsInterleaved`: the attempts follow the RFC 8305 order that spec.md states. The reference is written independently, as `Rfc8305Order`: the IPv6 addresses and the IPv4 addresses, alternated starting with IPv6.
- `ConnectTcpResult`: `connect_tcp` returns a stream only from an attempt that connected. For a resolved host, it returns an error only after every address was attempted and failed. The error is `NoAddress` exactly when nothing resolved.
- `TriesEveryAddress` (liveness): while attempts hang, the next address is still tried once the delay elapses.
- `WireAsNegotiated`: every op goes through TLS exactly when the scheme is tls, or when a streaming server requires TLS. CONNECT goes uncompressed, and every later op goes through zstd exactly when caller, server and transport allow it (spec.md 4.4, steps 5, 7 and 9).

The `todo!()` arms are kept as the state `panicked`. No run states a property of them: see "Observed without a run".

**Fairness.** `FairSpec` has WF on `PollStart` and `PollLoop`: a woken task is polled. It also has WF on `DelayElapses`: a sleep fires. Nothing forces an attempt to complete, because a connect to a black-holed address hangs until the OS gives up, and nothing forces the server to answer. `TriesEveryAddress` is therefore about the timer path alone.

**Bounds and build.**

- Three addresses are enough to show a fallback to the head of the queue after one family runs out. They also allow two attempts in flight with a third still queued.
- `MaxLoopReads = 2` lets `+OK` and a server PING both come before the PONG.
- The build has the `websocket` and `non-standard-zstd` features. Without `websocket`, a ws:// address fails with `WebsocketUnsupported`, and the `todo!()` arms do not exist.

## Runs

| run | cfg | expect | what it shows |
|---|---|---|---|
| handler_reconnect | handler_reconnect.cfg | pass | ack FIFO, map and server agree across a reconnect with two subscriptions, 2 messages, one lost connection, a close |
| handler_server_ops | handler_server_ops.cfg | pass | a multiplexed request beside PUB acks and permission errors, server PING/INFO, fatal errors and the ping timeout, with a two-slot channel so a dropped `ResponseFut` can meet a full one: `TypeOK`, and the ack FIFO with the lazy SUB 1 and the failed-unsubscribe sweep, through the reply/timeout race and a reconnect (3.6M states) |
| handler_close_after | handler_close_after.cfg | pass | the local countdown never orphans a server subscription; under `FairSpec`, with room in the channel, dropped subscriptions are released |
| replay_unsub_unacked | replay_unsub_unacked.cfg | violation | `InFlightMatchesWire`: connect's replayed UNSUB max has no in-flight entry |
| dropped_subscription_leak | dropped_subscription_leak.cfg | violation | `DroppedSubscriptionTracked`: a request (or, with `Requests = {}`, a subscription) dropped into a full channel, the sweep before the insert → leaked entry |
| close_completes | close_completes.cfg | pass | `CloseCompletes` under `FairSpec`: `Client::close` with a live subscription ends with `Closed` (562 states) |
| subscription_lost | subscription_lost.cfg | violation | `SubscriptionLive`: close_after after earlier messages (the server stops, the handler waits), and a `-ERR` for SUB 1 that leaves the multiplexed map with no subscription |
| codec | codec.cfg | pass | Nine harnesses, 50,614 states. Operators and headers: `parse_unsigned!`, `split_spaces`, `lines_iter` and `validate_subject` agree with reference definitions on every bounded input, and a SUB line built from any accepted queue group keeps its fields (`SubLineFramed`). `ServerAddr::from_str` refuses bad ports and schemes, keeps the port, and `Display` writes an address that parses back to itself (`ServerAddrRoundTrips`). `HeaderMap` implements `MultiMap`, `len` counts its values, and a header block written by `encode_headers` decodes back to the same map. Encode: `StreamEncoder` implements `ByteQueue` and `BufList.len` is exact in every step that does not panic. Read half: over ten scripts (`LiveRefineScripts`) and every split into reads, `poll_read_next` implements `ServerOpStream`. `decode_frame` decodes each op alone and never a truncated one. Under `FairSpec` every op whose bytes arrived is eventually returned (`DeliversArrivedOps`). Write half (`Flush`): `poll` never sleeps with work and no waker due (`NoLostWakeup`), and keeps `flushing` only while bytes are held (`FlushPendingJustified`). Every command sent is eventually pushed out by the socket (`EveryOpDelivered`), through partial batches, a full encoder, short and `Pending` writes, the delay, and congestion. Ws: over a websocket too, every command sent is eventually pushed out to the kernel (`WsEveryOpDelivered`), and every op of every binary frame is returned in order, several to a frame included, before `Closed` (`WsReadReturnsFramedOps`). List: a JetStream listing of three items in pages of two, with one failed request, returns every item before it ends (`EveryItemListed`), and under `Fairness` it ends (`ListingEnds`). Batch: the pull consumer loses no message the server sends (`NoMessageLost`) and returns all three, in order (`EveryMessageConsumed`), through heartbeats, 404/408, 409s, server errors, a close and a slow timer |
| connect | connect.cfg | pass | Happy Eyeballs tries addresses in RFC 8305 order, fails only after every attempt failed, and reaches the next address while attempts hang. The handshake sends CONNECT and later ops through the negotiated TLS and zstd layers, for every scheme, auth method and zstd setting (1.37M states) |
| decoder_defects | decoder_defects.cfg | violation | `ReadsOnlyWhenNeeded`, over four scripts. A stale `last_bytes_read` hides a complete `+OK` after an `-ERR`. An unterminated INFO line is buffered past the limit. An empty header value and a lone-quote `-ERR` each cause a panic. |
| encoder_panics | encoder_panics.cfg | violation | `AdvanceNeverPanics`: a PING, then a PUB whose payload reaches the flattening threshold, then one write: `BufList::advance` panics (4 states) |
| jetstream_list_duplicates | jetstream_list_duplicates.cfg | violation | `ListsEachItemOnce`: three items, two to a page; the second request asks for offset 1, and item 2 is listed twice (8 states) |

**Bounds.** Each run has its own bounds:

- Subscription ids are `{2}` or `{2, 3}`. The two-id runs exercise the BTreeMap order of the replay and the sweep.
- `SubCap = 1`, so one message fills a subscription channel. This makes the `Full` branches reachable.
- `ChanCap` is 8 in the runs where the channel must never fill. It is 1 in the leak run. It is 2 in `handler_server_ops`: a request and a publish fill it, so the drop of the request takes the failed-unsubscribe path.
- `WireCap = 3`, so the `NoMoreSpace` exit, and with it `Closed`, is reachable.
- The budgets (`MaxMsgs`, `MaxPubs`, `MaxPings`, `MaxServerOps`, `MaxFaults`, `MaxCloseAfter`) bound the environment.
  - `MaxPings = 3` in `handler_server_ops` lets two PINGs go unanswered before the timer fires a third time.
  - `handler_server_ops` has one request (`Requests = {r1}`) and no user subscription: the request provides the SUB, and the subscription paths are checked by the other runs. Adding a subscription beside it takes the run past ten minutes.
  - `MaxFaults = 1` gives one full reconnect, including the replay and a `-ERR` on a replayed SUB while the channel is full (the `failed_subscribe` path).

**Mutants.** Every property of a passing run has a mutant in `PROJECT.json`. Each mutant is a plausible slip in the mapped code:

- a dropped in-flight push;
- an off-by-one in the countdown;
- a lost bit set;
- IPv4 tried first;
- `dead_end` left set while an attempt is in flight;
- a delay checked without registering its waker;
- zstd applied before CONNECT is flushed;
- a full channel taken for a closed one;
- an unsubscribe that keeps or silently drops its entry;
- a `>` accepted before another token;
- an insert that leaves the old entry's count in `len`;
- `push` building `Many([item, cur])`;
- a decoded header value that keeps the space after `:`;
- a socket that takes one unit past its room;
- a command loop that breaks after a write that made progress;
- `(NoMoreCommands, true)` continuing instead of breaking;
- a completed flush that leaves `flushing` set;
- a `BufList::push` that does not add to `len`;
- a large payload queued without first moving `flattened_writes` ahead of it;
- a queue-group validator that refuses only the space byte;
- a listing that takes a full page for the last one;
- a listing whose offset never advances;
- a batch timer polled before the subscription;
- a pull request that is never published;
- a `Display` that writes the username without percent-encoding it;
- an `enqueue_write_op` that does not set `should_flush`;
- a websocket frame decoded from a copy, which drops the ops after its first;
- a closed channel that answers `Ready(0)` forever, without the coop budget's `Pending`.

TLC finds the property violated under the run's own cfg.

## Findings

1. **`Handler::connect` writes the replayed `UNSUB max` with no in-flight entry** (handler.rs:176). The server's `+OK` for it shifts every later acknowledgement.
2. **A dropped subscription or request can leak** (handler.rs:408 with subscription.rs:166, client/mod.rs:440 and 420). The sweep can run before the subscription, or the request's waiter, is inserted, and connect's non-atomic `quick_info.store` can lose the bit. TLC's trace for the request: `Request` fills the one-slot channel, its `MultiplexedSubscription` is dropped and sets the bit, the sweep finds nothing, and `RequestMultiplexed` inserts a waiter whose receiver is gone.
3. **`close_after(n)` leaves the stream open forever** if messages came before the call (handler.rs:640, subscription.rs:106). The client counts *n more* messages, while nats-server counts from the SUB.
4. **`decode` can sit on a complete op** (decoder/mod.rs:70). After a read without CRLF sets `last_bytes_read = L`, a control op is returned without resetting it. If the bytes left then number exactly `L`, decode reports "no progress" and waits for more bytes. With `Scripts <- StallScripts`, the trace is `-ERR 'm'` read in two parts, then `+OK` stuck: a PING there goes unanswered until the server sends something else.
5. **No `HeadTooLong` for a line without CRLF** (mod.rs:75). spec.md says decode fails once such a buffer exceeds 16 KiB. The code returns `Ok(None)` and keeps buffering; its check at line 110 only runs for a complete, unrecognised line.
6. **An empty header value panics** (mod.rs:300). `line[0]` is indexed after the `:` with no length check.
7. **`-ERR '` underflows** (mod.rs:102). It panics with overflow checks, and is a no-op truncate in release.
8. **A refused SUB 1 is never retried** (handler.rs:305). The `-ERR` for `InFlightCommand::Subscribe { id: 1 }` finds no entry in `subscriptions` and is dropped. `multiplexed_subscriptions` stays `Some`, so until the next reconnect every multiplexed request waits out its timeout and gets `TimedOut`. spec.md says the reactor ensures the wildcard subscription exists, and that a server error on the subscription maps to `ServerError`.

9. **`BufList::advance` has its branches swapped** (util/buf_list.rs:54). When the front chunk holds fewer bytes than `cnt`, it calls `entry.advance(cnt)`, which panics. When the chunk holds more, it removes the whole chunk and underflows `cnt`. `StreamEncoder::write` puts every payload of 4096 bytes or more into `write_buf`, behind the flattened PUB line. Publishing such a message panics the connection task at its first write: a vectored write of everything, or any partial write, is not exactly the first chunk. TLC's trace is a PING, then a PUB with a payload at the threshold (`write_buf` = `<<"g","h">>, <<"p","q">>`), then a plain write of one byte. The encoder's tests drain it with `copy_to_bytes`, never `advance`.

10. **JetStream listings repeat items** (jetstream/commands/consumer_list.rs:99, stream_list.rs:92). After a full page, `poll_next` adds 1 to `offset`, but the JetStream API's `offset` is the number of items to skip. The second request therefore starts at item 2, not at item `limit + 1`, and every listing longer than one page returns items again. It also takes one request per item to reach the short page that ends it. TLC's trace for three items in pages of two lists 1, 2, then 2 again.

`subscription_lost` explores findings 3 and 8 together, and TLC reports finding 8, whose trace is shorter. With `Requests = {}` it reports finding 3.

`decoder_defects` explores findings 4-7 together, and TLC reports the shortest counterexample: the lone-quote `-ERR` panic. To see each of the other three, set `Scripts` to `StallScripts`, `LongScripts` or `EmptyValueScripts` (all defined in `MCCodec`). Each one alone violates `ReadsOnlyWhenNeeded` in a trace of 4 to 8 states.

## Observed without a run

**A websocket closing during the handshake panics** (connector.rs:110 and 112, connection/mod.rs:255 and 261). spec.md 4.4 says a read error before INFO is fatal, meaning it is returned as an error. A websocket read that returns `Closed` (the server ended the stream) or `IncompleteFrame` reaches `todo!()` instead. On a reconnect this runs in the client's handler task, so a ws:// server that restarts at the wrong moment kills the task instead of being retried after `RECONNECT_DELAY`. `Connect` reaches its `panicked` state this way in every websocket run of the handshake. The defect is the `todo!()` itself, so no run restates it.

**A debug build can panic in the write path** (handler.rs:460). Suppose the encoder holds more than `may_enqueue_more_ops` allows (`NoMoreSpace`) and the socket's write is `Pending` because the kernel is congested. `poll_write_next` then clears `may_flush`. The loop reaches the arm `(NoMoreSpace, true, should_flush)` with `should_flush` false, and its `debug_assert!(should_flush)` fails. Setting `DebugAsserts = TRUE` in `codec.cfg` (with `Harnesses = {"write"}`) makes TLC reach it in 8 states: two sends, a congested kernel, a poll that fills the socket, a third send, and a `Pending` write. A release build takes the `Stop` arm there, which `EveryOpDelivered` shows to be harmless. No violation run records it: the violation runs go to the findings above. `PROJECT.json` lists it as a hazard.

**A pull consumer with `max_msgs = 0` never returns** (consumer_stream.rs:90, consumer_batch.rs:99). `consumer_stream` takes any `usize`. With 0, every batch returns `Ready(None)` at its first poll, and `ConsumerStream` at once builds the next batch: a SUB and a PUB per poll, forever, and no message is returned. Setting `MaxMsgs = 0` in `codec.cfg` (with `Harnesses = {"batch"}`) makes TLC report `EveryMessageConsumed` violated. `PROJECT.json` lists it as a hazard.

**`Display` drops a password that has no username** (server_addr.rs:198). `from_str("nats://:a@h")` accepts the address with an empty username and the password `a`. `Display` writes the userinfo only when there is a username, so it gives `nats://h`, and the password is lost. `Serialize` goes through `Display`, so a configuration that is serialized and read back loses it too. `ServerAddrRoundTrips` checks the round trip only where a username carries the password, and `MCProtoUtil` reaches such inputs (`nats://:a@h`, among others). Dropping that condition makes TLC report the invariant violated at once. No violation run records it: the violation runs go to the findings above.

**Over a websocket, a command can wait for the ping timer** (websocket.rs:86, handler.rs:443). `may_enqueue_more_ops` polls the sink with a noop waker. A `NoMoreSpace` outcome therefore registers no waker with the channel, and the loop ends at once, because `write_waker_registered` is `true` for a websocket. Take the case where the sink was at its threshold on a congested kernel, and the kernel drains before the `poll_flush` after the loop. The flush is then `Ready`, and the task sleeps with no waker but the ping timer's, even though a command may have been sent in the meantime. That command waits until the ping interval (10 s) ends or the server sends something. `WebsocketFlush` states the streaming path's `NoLostWakeup` for this path as `WsNoLostWakeup`. Checking it in place of `WsEveryOpDelivered` (with `Harnesses = {"ws"}`) gives a 10-state trace: two sends, a congestion, a poll that fills the sink and stops at `NoMoreSpace`, a third send, the kernel draining, the delay elapsing and the flush. `WsEveryOpDelivered` holds only because of the ping timer. The trace depends on how tokio_websockets implements `poll_ready`, as modelled by the `Sink` contract above, and its source is not in the repository, so no violation run records it.

**`should_flush` is never cleared on a websocket** (websocket.rs:97). After the first op, every `poll` takes `FlushAction::Start`. It sets `flushing`, arms the flush delay, and calls `poll_flush` with nothing buffered, on every wake-up. This breaks spec.md's invariant `flush_pending ⇒ write_buffer_nonempty ∨ last_write_happened_since_last_flush`, which `FlushPendingJustified` checks for the streaming path. The cost is one idle timer and one empty flush per wake-up, and delivery is not affected.

## Not modelled

`PROJECT.json` lists every component with its status and reasons. What is left out, and why:

- **NKeys seed and CRC16.** `Crc16::compute` is a single call into the `crc` crate, which is not in the repository. `from_encoded_seed` is a chain of checks (length, base32, CRC, prefix) around base32 and ed25519 decoding. It has no state and no interleaving, so a property over it would only restate its guards.
- **Builder and environment configuration.** These are configuration records with no state machine. Their flags appear as constants of the models.
- **The websocket handshake.** `WebsocketConnection::new` is tokio_websockets' `ClientBuilder`, and its `todo!()` arms are recorded by `Connect`. `read_next`, `flush` and `shutdown` are async wrappers over the modelled poll functions.
- **What triggers a reconnect.** Fatal `-ERR` and `UnexpectedState` results are discarded by the code (handler.rs:417, a hazard in `PROJECT.json`). `Handler` models the reconnect itself.
- **An abstract lifecycle of a subscription refined by `Handler`.** This is not written: `Handler`'s state space is already the largest of the project, and the subscription properties are checked directly on it.
- **The JSON request/reply wrappers of the JetStream resources.** Each is a single `Client::request`.
- **Parts out of reach.** Cryptography (TLS, ed25519), compression, JSON and DNS enter the models only as nondeterministic outcomes.

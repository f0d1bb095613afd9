------------------------------ MODULE Handler ------------------------------
(***************************************************************************)
(* The client reactor of watermelon: the Handler future that owns the NATS *)
(* connection (src/watermelon/src/handler.rs), the reconnect loop that     *)
(* drives it (src/watermelon/src/client/mod.rs), the user-side handles     *)
(* that talk to it over channels (Client, Subscription) and, as the        *)
(* environment, a NATS server in verbose mode that answers every PUB, SUB  *)
(* and UNSUB with exactly one +OK or -ERR.                                 *)
(*                                                                         *)
(* Handler::poll is split at its loop heads; hpc says where the task is:   *)
(*   "ping"     ping timer check            (poll, lines 402-406)          *)
(*   "cleanup"  failed-unsubscribe sweep    (poll, lines 408-410)          *)
(*   "read"     server-op read loop         (poll, lines 412-425)          *)
(*   "recv"     receive_command and the write loop, then the flush and    *)
(*              return at the end of poll (lines 427-536, 553-680)        *)
(*   "reconnect", "connecting"  the reconnect loop and Handler::connect     *)
(*   "closed"   the task has returned HandlerOutput::Closed                *)
(* The encoder buffer, the socket and the server's read buffer are one     *)
(* FIFO toServer; the decoder and the socket are one FIFO toClient. Write  *)
(* and flush scheduling is abstracted away (see FlushPolicy in the plan).  *)
(***************************************************************************)
EXTENDS Integers, Sequences, FiniteSets, SequencesExt

CONSTANTS
  SubIds,        \* ids the client hands to user subscriptions (1 is the multiplexed one)
  ChanCap,       \* capacity of the command channel (CLIENT_OP_CHANNEL_SIZE = 512)
  SubCap,        \* capacity of a subscription channel (SUBSCRIPTION_CHANNEL_SIZE = 256)
  WireCap,       \* ops buffered at which may_enqueue_more_ops turns false (8 MiB)
  MaxRemaining,  \* largest max_messages passed to close_after; 0: never called
  MaxCloseAfter, \* bound on calls of close_after
  MaxMsgs,       \* bound on MSG ops the server delivers
  MaxPubs,       \* bound on user publishes
  MaxPings,      \* bound on expiries of the ping timer
  MaxServerOps,  \* bound on unsolicited PING and INFO from the server
  MaxFaults,     \* bound on lost connections (fatal -ERR or I/O failure)
  AllowClose,    \* whether a user calls Client::close
  Requests       \* reply subjects of multiplexed requests (create_inbox_subject)

ASSUME SubIds = 2..(Cardinality(SubIds) + 1)   \* next_subscription_id starts at 2
ASSUME ChanCap \in 1..16          \* RECV_BUF = 16: one batch drains the channel
ASSUME SubCap \in Nat \ {0} /\ WireCap \in Nat \ {0}
ASSUME {MaxRemaining, MaxCloseAfter, MaxMsgs, MaxPubs, MaxPings, MaxServerOps, MaxFaults} \subseteq Nat
ASSUME AllowClose \in BOOLEAN

VARIABLES
  hpc,          \* where the handler task is (see above)
  subs,         \* Handler.subscriptions: id -> [remaining, failed]
  inFlight,     \* Handler.in_flight_commands
  pendingPings, \* Handler.pending_pings
  shuttingDown, \* Handler.shutting_down
  recvBuf,      \* Handler.recv_buf: the batch taken by poll_recv_many
  commands,     \* the mpsc channel of HandlerCommand
  cmdClosed,    \* commands.close() has been called
  failedUnsub,  \* quick_info bit IS_FAILED_UNSUBSCRIBE
  lameduck,     \* quick_info bit IS_LAMEDUCK
  qiSnap,       \* failed-unsubscribe bit as loaded by Handler::connect's store
  nextId,       \* ClientInner.next_subscription_id
  user,         \* id -> state of the user's Subscription handle
  inbox,        \* id -> the subscription's message channel
  closeCalled,  \* Client::close has been called
  toServer,     \* client ops written and not yet read by the server
  toClient,     \* server ops sent and not yet handled by the client
  srvSubs,      \* the server's subscriptions on this connection: id -> [max, nm]
  connAlive,    \* the connection is up
  budget,       \* counters of the bounded environment events
  muxInit,      \* Handler.multiplexed_subscriptions is Some
  muxMap,       \* ... and the reply subjects it holds a one-shot sender for
  oneshot,      \* reply subject -> a reply has been sent on its one-shot
  req           \* reply subject -> state of the requester's ResponseFut

handlerVars == <<hpc, subs, inFlight, pendingPings, shuttingDown, recvBuf, qiSnap>>
chanVars == <<commands, cmdClosed>>
userVars == <<nextId, user, inbox, closeCalled>>
netVars == <<toServer, toClient, srvSubs, connAlive>>
muxVars == <<muxInit, muxMap, oneshot, req>>
vars == <<handlerVars, chanVars, failedUnsub, lameduck, userVars, netVars, budget, muxVars>>

None == 0                             \* Option<NonZeroU64>::None
MuxId == 1                            \* MULTIPLEXED_SUBSCRIPTION_ID
PollPcs == {"ping", "cleanup", "read", "recv"}

\* HandlerCommand
PublishCmd == [cmd |-> "Publish"]
SubscribeCmd(id) == [cmd |-> "Subscribe", id |-> id]
UnsubscribeCmd(id, m) == [cmd |-> "Unsubscribe", id |-> id, max |-> m]
CloseCmd == [cmd |-> "Close"]
RequestCmd(r) == [cmd |-> "RequestMultiplexed", reply |-> r]
UnsubscribeMuxCmd(r) == [cmd |-> "UnsubscribeMultiplexed", reply |-> r]

\* InFlightCommand
Unimportant == [kind |-> "Unimportant"]
InFlightSubscribe(id) == [kind |-> "Subscribe", id |-> id]

\* ClientOp as it reaches the server
PubOp == [op |-> "PUB", reply |-> None]
MuxPubOp(r) == [op |-> "PUB", reply |-> r]
SubOp(id) == [op |-> "SUB", id |-> id]
UnsubOp(id, m) == [op |-> "UNSUB", id |-> id, max |-> m]
PingOp == [op |-> "PING"]
PongOp == [op |-> "PONG"]

\* ServerOp; OK and ERR carry, as a ghost, the in-flight entry of the op they answer
MsgOp(id) == [op |-> "MSG", id |-> id, subject |-> None]
MuxMsgOp(r) == [op |-> "MSG", id |-> MuxId, subject |-> r]
OkOp(tag) == [op |-> "OK", of |-> tag]
ErrOp(tag) == [op |-> "ERR", of |-> tag]
FatalOp == [op |-> "FATAL"]
InfoOp(ld) == [op |-> "INFO", lameduck |-> ld]

\* The in-flight entry the handler must hold for an op the server acknowledges
AckTag(op) == IF op.op = "SUB" THEN InFlightSubscribe(op.id) ELSE Unimportant
ExpectsAck(op) == op.op \in {"PUB", "SUB", "UNSUB"}
IsAck(sop) == sop.op \in {"OK", "ERR"}

\* A Subscription's sender lives in the handler's map or in a queued Subscribe
SenderAlive(id) ==
  /\ hpc # "closed"
  /\ id \in DOMAIN subs \/ SubscribeCmd(id) \in ToSet(commands) \cup ToSet(recvBuf)

\* mpsc::Receiver::is_closed() on the user's side
ReceiverClosed(id) == ~SenderAlive(id)

\* A request's one-shot sender lives in the handler's multiplexed map or in
\* a queued RequestMultiplexed
MuxSenderAlive(r) ==
  /\ hpc # "closed"
  /\ r \in muxMap \/ RequestCmd(r) \in ToSet(commands) \cup ToSet(recvBuf)

\* oneshot::Sender::is_closed(): the MultiplexedSubscription has completed or
\* been dropped
MuxReceiverClosed(r) == req[r] \in {"done", "dropped"}

\* The channel accepts a try_send
ChanHasRoom == ~cmdClosed /\ Len(commands) < ChanCap

\* may_enqueue_more_ops
MayEnqueue == Len(toServer) < WireCap

Tick(counter) == budget' = [budget EXCEPT ![counter] = @ + 1]

\* Every subscription, ascending (BTreeMap iteration order)
SortedIds(S) == SetToSortSeq(S, <)

NoSubs == [id \in {} |-> None]

-----------------------------------------------------------------------------
(* Mutants: plausible slips in the code below, used to show the properties *)
(* can fail.                                                               *)

CountDownEarly(id) ==
  IF subs[id].remaining \in {None} THEN subs
  ELSE IF subs[id].remaining <= 2 THEN Restrict(subs, DOMAIN subs \ {id})
  ELSE [subs EXCEPT ![id].remaining = @ - 1]

SweepNoInFlight(closed) ==
  /\ inFlight' = inFlight
  /\ toServer' = toServer \o [i \in 1..Cardinality(closed) |->
                                UnsubOp(SortedIds(closed)[i], None)]
  /\ subs' = Restrict(subs, DOMAIN subs \ closed)

RequeueFailedSilently(id) ==
  /\ subs' = (id :> [subs[id] EXCEPT !.failed = TRUE]) @@ subs
  /\ UNCHANGED failedUnsub

PingUnbounded ==
  /\ hpc = "ping" /\ budget.pings < MaxPings
  /\ pendingPings < 3
  /\ toServer' = Append(toServer, PingOp)
  /\ pendingPings' = pendingPings + 1
  /\ hpc' = "cleanup"
  /\ Tick("pings")
  /\ UNCHANGED <<subs, inFlight, shuttingDown, recvBuf, qiSnap, chanVars,
                 failedUnsub, lameduck, userVars, toClient, srvSubs, connAlive, muxVars>>

-----------------------------------------------------------------------------
(* Helpers of Handler                                                      *)

\* A delivered message counts down a close_after limit (handle_server_op)
CountDown(id) ==
  IF subs[id].remaining = None THEN subs
  ELSE IF subs[id].remaining = 1 THEN Restrict(subs, DOMAIN subs \ {id})
  ELSE [subs EXCEPT ![id].remaining = @ - 1]

\* The ops Handler::connect writes to resubscribe the recycled map
Replay(ids) ==
  FlattenSeq([i \in 1..Len(ids) |->
    IF subs[ids[i]].remaining = None THEN <<SubOp(ids[i])>>
    ELSE <<SubOp(ids[i]), UnsubOp(ids[i], subs[ids[i]].remaining)>>])

\* Handler::failed_unsubscribe, for the subscriptions it finds closed
Sweep(closed) ==
  LET ids == SortedIds(closed) IN
  /\ inFlight' = inFlight \o [i \in 1..Len(ids) |-> Unimportant]
  /\ toServer' = toServer \o [i \in 1..Len(ids) |-> UnsubOp(ids[i], None)]
  /\ subs' = Restrict(subs, DOMAIN subs \ closed)

\* A subscribe error met a full channel: keep the entry, flag it for cleanup
RequeueFailed(id) ==
  /\ subs' = (id :> [subs[id] EXCEPT !.failed = TRUE]) @@ subs
  /\ failedUnsub' = TRUE

\* The task's loop sees ServerError or Disconnected: Handler::recycle
Recycle ==
  /\ hpc' = "reconnect"
  /\ inFlight' = <<>>
  /\ pendingPings' = 0
  /\ shuttingDown' = FALSE
  /\ toServer' = <<>>
  /\ toClient' = <<>>
  /\ srvSubs' = NoSubs
  /\ connAlive' = FALSE
  /\ muxInit' = FALSE
  /\ muxMap' = {}
  /\ UNCHANGED <<subs, recvBuf, qiSnap, chanVars, failedUnsub, lameduck, userVars,
                 oneshot, req>>

-----------------------------------------------------------------------------
(* Handler::poll up to the read loop                                       *)

\* The ping timer has not expired
PollStart ==
  /\ hpc = "ping"
  /\ hpc' = "cleanup"
  /\ UNCHANGED <<subs, inFlight, pendingPings, shuttingDown, recvBuf, qiSnap,
                 chanVars, failedUnsub, lameduck, userVars, netVars, budget, muxVars>>

\* The timer expired and fewer than two PINGs are unanswered: Handler::ping
Ping ==
  /\ hpc = "ping" /\ budget.pings < MaxPings
  /\ pendingPings < 2
  /\ toServer' = Append(toServer, PingOp)
  /\ pendingPings' = pendingPings + 1
  /\ hpc' = "cleanup"
  /\ Tick("pings")
  /\ UNCHANGED <<subs, inFlight, shuttingDown, recvBuf, qiSnap, chanVars,
                 failedUnsub, lameduck, userVars, toClient, srvSubs, connAlive, muxVars>>

\* The timer expired with two PINGs unanswered: HandlerOutput::Disconnected
PingTimeout ==
  /\ hpc = "ping" /\ budget.pings < MaxPings
  /\ pendingPings >= 2
  /\ Recycle
  /\ Tick("pings")

\* The failed-unsubscribe bit is set: Handler::failed_unsubscribe
FailedUnsubscribe ==
  /\ hpc = "cleanup" /\ failedUnsub
  /\ failedUnsub' = FALSE
  /\ muxMap' = {r \in muxMap : ~MuxReceiverClosed(r)}
  /\ Sweep({id \in DOMAIN subs : user[id] = "dropped" \/ subs[id].failed})
  /\ hpc' = "read"
  /\ UNCHANGED <<pendingPings, shuttingDown, recvBuf, qiSnap, chanVars, lameduck,
                 userVars, toClient, srvSubs, connAlive, budget, muxInit, oneshot, req>>

SkipCleanup ==
  /\ hpc = "cleanup" /\ ~failedUnsub
  /\ hpc' = "read"
  /\ UNCHANGED <<subs, inFlight, pendingPings, shuttingDown, recvBuf, qiSnap,
                 chanVars, failedUnsub, lameduck, userVars, netVars, budget, muxVars>>

-----------------------------------------------------------------------------
(* The read loop: one action per arm of Handler::handle_server_op. Its     *)
(* ControlFlow result is dropped by poll, so fatal errors and unexpected   *)
(* acknowledgements do not end the loop.                                   *)

Reading(kind) == hpc = "read" /\ toClient # <<>> /\ Head(toClient).op = kind

\* handle_server_op leaves these alone
readFrame == <<hpc, pendingPings, shuttingDown, recvBuf, qiSnap, chanVars, lameduck,
               nextId, user, closeCalled, srvSubs, connAlive, budget>>

ReadMessage ==
  /\ Reading("MSG") /\ Head(toClient).id # MuxId
  /\ LET id == Head(toClient).id IN
     \/ /\ id \notin DOMAIN subs
        /\ UNCHANGED <<subs, inFlight, inbox, toServer>>
     \/ /\ id \in DOMAIN subs /\ user[id] = "dropped"        \* TrySendError::Closed
        /\ inFlight' = Append(inFlight, Unimportant)
        /\ toServer' = Append(toServer, UnsubOp(id, None))
        /\ UNCHANGED <<subs, inbox>>
     \/ /\ id \in DOMAIN subs /\ user[id] # "dropped"
        /\ inbox' = IF Len(inbox[id]) < SubCap                \* Full drops it
                    THEN [inbox EXCEPT ![id] = Append(@, "Msg")] ELSE inbox
        /\ subs' = CountDown(id)
        /\ UNCHANGED <<inFlight, toServer>>
  /\ toClient' = Tail(toClient)
  /\ UNCHANGED <<failedUnsub, readFrame, muxVars>>

\* A message on the multiplexed subscription: the waiter for its subject is
\* removed and sent the message; an unknown subject (or no map) is dropped
ReadMuxMessage ==
  /\ Reading("MSG") /\ Head(toClient).id = MuxId
  /\ LET r == Head(toClient).subject IN
     /\ muxMap' = muxMap \ {r}
     /\ oneshot' = IF r \in muxMap THEN [oneshot EXCEPT ![r] = TRUE] ELSE oneshot
  /\ toClient' = Tail(toClient)
  /\ UNCHANGED <<subs, inFlight, failedUnsub, inbox, toServer, muxInit, req, readFrame>>

ReadSuccess ==
  /\ Reading("OK")
  /\ inFlight' = IF inFlight = <<>> THEN inFlight ELSE Tail(inFlight)
  /\ toClient' = Tail(toClient)
  /\ UNCHANGED <<subs, failedUnsub, inbox, toServer, readFrame, muxVars>>

\* A non-fatal -ERR answers the oldest in-flight command
ReadError ==
  /\ Reading("ERR")
  /\ toClient' = Tail(toClient)
  /\ \/ /\ inFlight = <<>>
        /\ UNCHANGED <<inFlight, subs, failedUnsub, inbox>>
     \/ /\ inFlight # <<>>
        /\ inFlight' = Tail(inFlight)
        /\ LET cmd == Head(inFlight) IN
           IF cmd.kind = "Subscribe" /\ cmd.id \in DOMAIN subs
           THEN LET id == cmd.id IN
                IF user[id] = "dropped" \/ Len(inbox[id]) < SubCap
                THEN /\ subs' = Restrict(subs, DOMAIN subs \ {id})
                     /\ inbox' = IF user[id] = "dropped" THEN inbox
                                 ELSE [inbox EXCEPT ![id] = Append(@, "Err")]
                     /\ UNCHANGED failedUnsub
                ELSE /\ RequeueFailed(id)
                     /\ UNCHANGED inbox
           ELSE UNCHANGED <<subs, failedUnsub, inbox>>
  /\ UNCHANGED <<toServer, readFrame, muxVars>>

ReadFatal ==
  /\ Reading("FATAL")
  /\ toClient' = Tail(toClient)
  /\ UNCHANGED <<subs, inFlight, failedUnsub, inbox, toServer, readFrame, muxVars>>

ReadPing ==
  /\ Reading("PING")
  /\ toServer' = Append(toServer, PongOp)
  /\ toClient' = Tail(toClient)
  /\ UNCHANGED <<subs, inFlight, failedUnsub, inbox, readFrame, muxVars>>

ReadPong ==
  /\ Reading("PONG")
  /\ pendingPings' = IF pendingPings = 0 THEN 0 ELSE pendingPings - 1
  /\ toClient' = Tail(toClient)
  /\ UNCHANGED <<hpc, subs, inFlight, shuttingDown, recvBuf, qiSnap, chanVars,
                 failedUnsub, lameduck, userVars, toServer, srvSubs, connAlive, budget, muxVars>>

ReadInfo ==
  /\ Reading("INFO")
  /\ lameduck' = Head(toClient).lameduck
  /\ toClient' = Tail(toClient)
  /\ UNCHANGED <<hpc, subs, inFlight, pendingPings, shuttingDown, recvBuf, qiSnap,
                 chanVars, failedUnsub, userVars, toServer, srvSubs, connAlive, budget, muxVars>>

\* poll_read_next is Pending: go on to receive_command
ReadPending ==
  /\ hpc = "read" /\ toClient = <<>> /\ connAlive
  /\ hpc' = "recv"
  /\ UNCHANGED <<subs, inFlight, pendingPings, shuttingDown, recvBuf, qiSnap,
                 chanVars, failedUnsub, lameduck, userVars, netVars, budget, muxVars>>

\* The socket reports EOF or an error: HandlerOutput::Disconnected
ReadFailed ==
  /\ hpc = "read" /\ toClient = <<>> /\ ~connAlive
  /\ Recycle
  /\ UNCHANGED budget

-----------------------------------------------------------------------------
(* Handler::receive_command: the loop `while may_enqueue_more_ops()`        *)

\* poll_recv_many moved the channel's commands into recv_buf (at most RECV_BUF)
RecvBatch ==
  /\ hpc = "recv" /\ recvBuf = <<>> /\ MayEnqueue
  /\ commands # <<>>
  /\ recvBuf' = commands
  /\ commands' = <<>>
  /\ UNCHANGED <<hpc, subs, inFlight, pendingPings, shuttingDown, qiSnap, cmdClosed,
                 failedUnsub, lameduck, userVars, netVars, budget, muxVars>>

\* The rest of poll once the write loop breaks: flush, then Poll::Pending
\* (the task is woken again by its channel, socket or timer), or
\* HandlerOutput::Closed, after which the client task breaks out of its loop
\* and drops the Handler, its connection and every subscription sender
PollReturn ==
  IF shuttingDown
  THEN /\ hpc' = "closed"
       /\ connAlive' = FALSE
       /\ srvSubs' = NoSubs
  ELSE /\ hpc' = "ping"
       /\ UNCHANGED <<connAlive, srvSubs>>

\* Pending: ReceiveOutcome::NoMoreCommands
RecvPending ==
  /\ hpc = "recv" /\ recvBuf = <<>> /\ MayEnqueue
  /\ commands = <<>> /\ ~cmdClosed
  /\ PollReturn
  /\ UNCHANGED <<subs, inFlight, pendingPings, shuttingDown, recvBuf, qiSnap,
                 chanVars, failedUnsub, lameduck, userVars, toServer, toClient, budget, muxVars>>

\* Mutant: Ready(0) forever, the channel never yields Pending
RecvClosedSpin ==
  /\ hpc = "recv" /\ recvBuf = <<>> /\ MayEnqueue
  /\ commands = <<>> /\ cmdClosed
  /\ shuttingDown' = TRUE
  /\ UNCHANGED <<hpc, subs, inFlight, pendingPings, recvBuf, qiSnap, chanVars,
                 failedUnsub, lameduck, userVars, netVars, budget, muxVars>>

\* Ready(0) on the closed, drained channel sets shutting_down and stays in
\* the loop; each poll_recv_many spends the coop budget of the spawned
\* client task, so after at most 128 of them it is Pending: NoMoreCommands,
\* the write loop breaks and poll returns HandlerOutput::Closed.  The Ready(0)
\* rounds change nothing after the first and are one step here.
RecvClosed ==
  /\ hpc = "recv" /\ recvBuf = <<>> /\ MayEnqueue
  /\ commands = <<>> /\ cmdClosed
  /\ shuttingDown' = TRUE
  /\ hpc' = "closed"
  /\ connAlive' = FALSE
  /\ srvSubs' = NoSubs
  /\ UNCHANGED <<subs, inFlight, pendingPings, recvBuf, qiSnap, chanVars,
                 failedUnsub, lameduck, userVars, toServer, toClient, budget, muxVars>>

\* ReceiveOutcome::NoMoreSpace
RecvNoMoreSpace ==
  /\ hpc = "recv" /\ recvBuf = <<>> /\ ~MayEnqueue
  /\ PollReturn
  /\ UNCHANGED <<subs, inFlight, pendingPings, shuttingDown, recvBuf, qiSnap,
                 chanVars, failedUnsub, lameduck, userVars, toServer, toClient, budget, muxVars>>

Handling(kind) == hpc = "recv" /\ recvBuf # <<>> /\ Head(recvBuf).cmd = kind

\* the arms of the drain loop leave these alone
cmdFrame == <<hpc, pendingPings, qiSnap, failedUnsub, lameduck, userVars,
              toClient, srvSubs, connAlive, budget>>

\* Mutant: the publish is written without its in-flight entry
HandlePublishUntracked ==
  /\ Handling("Publish")
  /\ toServer' = Append(toServer, PubOp)
  /\ recvBuf' = Tail(recvBuf)
  /\ UNCHANGED <<subs, inFlight, shuttingDown, chanVars, cmdFrame, muxVars>>

HandlePublish ==
  /\ Handling("Publish")
  /\ inFlight' = Append(inFlight, Unimportant)
  /\ toServer' = Append(toServer, PubOp)
  /\ recvBuf' = Tail(recvBuf)
  /\ UNCHANGED <<subs, shuttingDown, chanVars, cmdFrame, muxVars>>

HandleSubscribe ==
  /\ Handling("Subscribe")
  /\ LET id == Head(recvBuf).id IN
     /\ subs' = (id :> [remaining |-> None, failed |-> FALSE]) @@ subs
     /\ inFlight' = Append(inFlight, InFlightSubscribe(id))
     /\ toServer' = Append(toServer, SubOp(id))
  /\ recvBuf' = Tail(recvBuf)
  /\ UNCHANGED <<shuttingDown, chanVars, cmdFrame, muxVars>>

\* Mutant: close_after's UNSUB is written without its in-flight entry
HandleUnsubscribeMaxUntracked ==
  /\ hpc = "recv" /\ recvBuf # <<>>
  /\ Head(recvBuf).cmd = "Unsubscribe" /\ Head(recvBuf).max # None
  /\ LET c == Head(recvBuf) IN
     IF c.id \in DOMAIN subs
     THEN /\ subs' = [subs EXCEPT ![c.id].remaining = c.max]
          /\ toServer' = Append(toServer, UnsubOp(c.id, c.max))
     ELSE UNCHANGED <<subs, toServer>>
  /\ recvBuf' = Tail(recvBuf)
  /\ UNCHANGED <<inFlight, shuttingDown, chanVars, cmdFrame, muxVars>>

\* Unsubscribe { max_messages: Some(_) }
HandleUnsubscribeMax ==
  /\ hpc = "recv" /\ recvBuf # <<>>
  /\ Head(recvBuf).cmd = "Unsubscribe" /\ Head(recvBuf).max # None
  /\ LET c == Head(recvBuf) IN
     IF c.id \in DOMAIN subs
     THEN /\ subs' = [subs EXCEPT ![c.id].remaining = c.max]
          /\ inFlight' = Append(inFlight, Unimportant)
          /\ toServer' = Append(toServer, UnsubOp(c.id, c.max))
     ELSE UNCHANGED <<subs, inFlight, toServer>>
  /\ recvBuf' = Tail(recvBuf)
  /\ UNCHANGED <<shuttingDown, chanVars, cmdFrame, muxVars>>

\* Mutant: the entry is removed but no UNSUB is written
HandleUnsubscribeSilent ==
  /\ hpc = "recv" /\ recvBuf # <<>>
  /\ Head(recvBuf).cmd = "Unsubscribe" /\ Head(recvBuf).max = None
  /\ subs' = Restrict(subs, DOMAIN subs \ {Head(recvBuf).id})
  /\ recvBuf' = Tail(recvBuf)
  /\ UNCHANGED <<inFlight, toServer, shuttingDown, chanVars, cmdFrame, muxVars>>

\* Mutant: the UNSUB is written but the entry stays in the map
HandleUnsubscribeKeep ==
  /\ hpc = "recv" /\ recvBuf # <<>>
  /\ Head(recvBuf).cmd = "Unsubscribe" /\ Head(recvBuf).max = None
  /\ LET id == Head(recvBuf).id IN
     IF id \in DOMAIN subs
     THEN /\ inFlight' = Append(inFlight, Unimportant)
          /\ toServer' = Append(toServer, UnsubOp(id, None))
     ELSE UNCHANGED <<inFlight, toServer>>
  /\ recvBuf' = Tail(recvBuf)
  /\ UNCHANGED <<subs, shuttingDown, chanVars, cmdFrame, muxVars>>

\* Unsubscribe { max_messages: None }
HandleUnsubscribe ==
  /\ hpc = "recv" /\ recvBuf # <<>>
  /\ Head(recvBuf).cmd = "Unsubscribe" /\ Head(recvBuf).max = None
  /\ LET id == Head(recvBuf).id IN
     IF id \in DOMAIN subs
     THEN /\ subs' = Restrict(subs, DOMAIN subs \ {id})
          /\ inFlight' = Append(inFlight, Unimportant)
          /\ toServer' = Append(toServer, UnsubOp(id, None))
     ELSE UNCHANGED <<subs, inFlight, toServer>>
  /\ recvBuf' = Tail(recvBuf)
  /\ UNCHANGED <<shuttingDown, chanVars, cmdFrame, muxVars>>

\* init_multiplexed_subscriptions when the map is None: SUB 1 and its
\* in-flight entry are written ahead of the request's PUB
InitMultiplexed ==
  IF muxInit THEN <<>> ELSE <<SubOp(MuxId)>>

\* RequestMultiplexed: the map (created on first use) takes the one-shot
\* sender, then the PUB with the reply subject is written and tracked
HandleRequestMultiplexed ==
  /\ Handling("RequestMultiplexed")
  /\ LET r == Head(recvBuf).reply IN
     /\ inFlight' = inFlight \o [i \in 1..Len(InitMultiplexed) |-> InFlightSubscribe(MuxId)]
                             \o <<Unimportant>>
     /\ toServer' = toServer \o InitMultiplexed \o <<MuxPubOp(r)>>
     /\ muxMap' = muxMap \cup {r}
  /\ muxInit' = TRUE
  /\ recvBuf' = Tail(recvBuf)
  /\ UNCHANGED <<subs, shuttingDown, chanVars, oneshot, req, cmdFrame>>

\* Mutant: the dropped requester's entry stays in the map
HandleUnsubscribeMultiplexedKeep ==
  /\ Handling("UnsubscribeMultiplexed")
  /\ recvBuf' = Tail(recvBuf)
  /\ UNCHANGED <<subs, inFlight, toServer, shuttingDown, chanVars, muxVars, cmdFrame>>

\* UnsubscribeMultiplexed: forget the waiter; the shared SUB 1 stays
HandleUnsubscribeMultiplexed ==
  /\ Handling("UnsubscribeMultiplexed")
  /\ muxMap' = muxMap \ {Head(recvBuf).reply}
  /\ recvBuf' = Tail(recvBuf)
  /\ UNCHANGED <<subs, inFlight, toServer, shuttingDown, chanVars, muxInit, oneshot, req,
                 cmdFrame>>

\* Close: shutting_down, park the waiter, close the channel
HandleClose ==
  /\ Handling("Close")
  /\ shuttingDown' = TRUE
  /\ cmdClosed' = TRUE
  /\ recvBuf' = Tail(recvBuf)
  /\ UNCHANGED <<subs, inFlight, toServer, commands, cmdFrame, muxVars>>

-----------------------------------------------------------------------------
(* The task's loop in Client::connect after Disconnected or ServerError   *)

\* After RECONNECT_DELAY, Handler::connect succeeded and loads quick_info
ConnectLoad ==
  /\ hpc = "reconnect"
  /\ qiSnap' = failedUnsub
  /\ hpc' = "connecting"
  /\ UNCHANGED <<subs, inFlight, pendingPings, shuttingDown, recvBuf, chanVars,
                 failedUnsub, lameduck, userVars, netVars, budget, muxVars>>

\* ... stores it back with is_lameduck cleared, and replays every subscription
ConnectStore ==
  /\ hpc = "connecting"
  /\ failedUnsub' = qiSnap
  /\ lameduck' = FALSE
  /\ LET ids == SortedIds(DOMAIN subs) IN
     /\ inFlight' = [i \in 1..Len(ids) |-> InFlightSubscribe(ids[i])]
     /\ toServer' = Replay(ids)
  /\ connAlive' = TRUE
  /\ hpc' = "ping"
  /\ UNCHANGED <<subs, pendingPings, shuttingDown, recvBuf, qiSnap, chanVars,
                 userVars, toClient, srvSubs, budget, muxVars>>

-----------------------------------------------------------------------------
(* The NATS server on the other end (environment, verbose mode). UNSUB max *)
(* counts the messages delivered since the SUB, as nats-server does.       *)

srvFrame == <<handlerVars, chanVars, failedUnsub, lameduck, userVars, muxVars>>

\* The server reads the next op and answers it
ServerReceive ==
  /\ connAlive /\ toServer # <<>>
  /\ LET op == Head(toServer) IN
     \/ /\ op.op = "PUB"
        /\ \E ok \in BOOLEAN,                      \* -ERR: publish permission
              answered \in IF op.reply = None \/ MuxId \notin DOMAIN srvSubs
                            THEN {FALSE} ELSE BOOLEAN :  \* a responder (or 503)
             toClient' = toClient \o
               IF ~ok THEN <<ErrOp(Unimportant)>>
               ELSE IF answered THEN <<OkOp(Unimportant), MuxMsgOp(op.reply)>>
               ELSE <<OkOp(Unimportant)>>
        /\ UNCHANGED srvSubs
     \/ /\ op.op = "SUB"
        /\ \/ /\ srvSubs' = (op.id :> [max |-> None, nm |-> 0]) @@ srvSubs
              /\ toClient' = Append(toClient, OkOp(AckTag(op)))
           \/ /\ toClient' = Append(toClient, ErrOp(AckTag(op)))  \* permission
              /\ UNCHANGED srvSubs
     \/ /\ op.op = "UNSUB"
        /\ srvSubs' =
             IF op.id \notin DOMAIN srvSubs THEN srvSubs
             ELSE IF op.max = None \/ op.max <= srvSubs[op.id].nm
                  THEN Restrict(srvSubs, DOMAIN srvSubs \ {op.id})
                  ELSE [srvSubs EXCEPT ![op.id].max = op.max]
        /\ toClient' = Append(toClient, OkOp(Unimportant))
     \/ /\ op.op = "PING"
        /\ toClient' = Append(toClient, [op |-> "PONG"])
        /\ UNCHANGED srvSubs
     \/ /\ op.op = "PONG"
        /\ UNCHANGED <<toClient, srvSubs>>
  /\ toServer' = Tail(toServer)
  /\ UNCHANGED <<connAlive, budget, srvFrame>>

\* A publisher's message matches a subscription
ServerDeliver ==
  /\ connAlive /\ budget.msgs < MaxMsgs
  /\ \E id \in DOMAIN srvSubs \ {MuxId} :
       LET nm == srvSubs[id].nm + 1 IN
       /\ toClient' = Append(toClient, MsgOp(id))
       /\ srvSubs' = IF srvSubs[id].max # None /\ nm >= srvSubs[id].max
                     THEN Restrict(srvSubs, DOMAIN srvSubs \ {id})
                     ELSE [srvSubs EXCEPT ![id].nm = nm]
  /\ Tick("msgs")
  /\ UNCHANGED <<toServer, connAlive, srvFrame>>

ServerPing ==
  /\ connAlive /\ budget.srvOps < MaxServerOps
  /\ toClient' = Append(toClient, [op |-> "PING"])
  /\ Tick("srvOps")
  /\ UNCHANGED <<toServer, srvSubs, connAlive, srvFrame>>

ServerInfo ==
  /\ connAlive /\ budget.srvOps < MaxServerOps
  /\ \E ld \in BOOLEAN : toClient' = Append(toClient, InfoOp(ld))
  /\ Tick("srvOps")
  /\ UNCHANGED <<toServer, srvSubs, connAlive, srvFrame>>

\* A fatal -ERR, after which the server closes the connection
ServerFatal ==
  /\ connAlive /\ budget.faults < MaxFaults
  /\ toClient' = Append(toClient, FatalOp)
  /\ connAlive' = FALSE
  /\ Tick("faults")
  /\ UNCHANGED <<toServer, srvSubs, srvFrame>>

\* The TCP connection breaks
ConnLost ==
  /\ connAlive /\ budget.faults < MaxFaults
  /\ connAlive' = FALSE
  /\ Tick("faults")
  /\ UNCHANGED <<toServer, toClient, srvSubs, srvFrame>>

-----------------------------------------------------------------------------
(* The user's side: Client and Subscription                                *)

usrFrame == <<handlerVars, lameduck, netVars>>

\* Client::subscribe: reserve a slot, take the next id, send Subscribe
Subscribe ==
  /\ ChanHasRoom /\ nextId \in SubIds
  /\ commands' = Append(commands, SubscribeCmd(nextId))
  /\ user' = [user EXCEPT ![nextId] = "subscribed"]
  /\ nextId' = nextId + 1
  /\ UNCHANGED <<cmdClosed, failedUnsub, inbox, closeCalled, budget, usrFrame, muxVars>>

\* Client::publish
Publish ==
  /\ ChanHasRoom /\ budget.pubs < MaxPubs
  /\ commands' = Append(commands, PublishCmd)
  /\ Tick("pubs")
  /\ UNCHANGED <<cmdClosed, failedUnsub, userVars, usrFrame, muxVars>>

\* Subscription::close
SubscriptionClose(id) ==
  /\ user[id] = "subscribed"
  /\ \/ /\ ReceiverClosed(id)
        /\ UNCHANGED commands
     \/ /\ ~ReceiverClosed(id) /\ ChanHasRoom
        /\ commands' = Append(commands, UnsubscribeCmd(id, None))
  /\ user' = [user EXCEPT ![id] = "unsubscribed"]
  /\ UNCHANGED <<cmdClosed, failedUnsub, nextId, inbox, closeCalled, budget, usrFrame, muxVars>>

\* Subscription::close_after
SubscriptionCloseAfter(id, m) ==
  /\ user[id] = "subscribed" /\ budget.closeAfters < MaxCloseAfter
  /\ \/ /\ ReceiverClosed(id)
        /\ user' = [user EXCEPT ![id] = "unsubscribed"]
        /\ UNCHANGED commands
     \/ /\ ~ReceiverClosed(id) /\ ChanHasRoom
        /\ commands' = Append(commands, UnsubscribeCmd(id, m))
        /\ UNCHANGED user
  /\ Tick("closeAfters")
  /\ UNCHANGED <<cmdClosed, failedUnsub, nextId, inbox, closeCalled, usrFrame, muxVars>>

\* Subscription::poll_next yields a buffered item
SubscriptionRecv(id) ==
  /\ user[id] \in {"subscribed", "unsubscribed"}
  /\ inbox[id] # <<>>
  /\ inbox' = [inbox EXCEPT ![id] = Tail(@)]
  /\ UNCHANGED <<chanVars, failedUnsub, nextId, user, closeCalled, budget, usrFrame, muxVars>>

\* Subscription::poll_next finds the channel closed and drained: Ready(None)
SubscriptionEnd(id) ==
  /\ user[id] = "subscribed"
  /\ inbox[id] = <<>> /\ ReceiverClosed(id)
  /\ user' = [user EXCEPT ![id] = "unsubscribed"]
  /\ UNCHANGED <<chanVars, failedUnsub, nextId, inbox, closeCalled, budget, usrFrame, muxVars>>

\* Drop for Subscription: lazy_unsubscribe, or flag the failed unsubscribe
SubscriptionDrop(id) ==
  /\ user[id] \in {"subscribed", "unsubscribed"}
  /\ user' = [user EXCEPT ![id] = "dropped"]
  /\ inbox' = [inbox EXCEPT ![id] = <<>>]
  /\ IF user[id] = "unsubscribed" \/ ReceiverClosed(id)
     THEN UNCHANGED <<commands, failedUnsub>>
     ELSE IF ChanHasRoom
          THEN /\ commands' = Append(commands, UnsubscribeCmd(id, None))
               /\ UNCHANGED failedUnsub
          ELSE /\ failedUnsub' = TRUE
               /\ UNCHANGED commands
  /\ UNCHANGED <<cmdClosed, nextId, closeCalled, budget, usrFrame, muxVars>>

\* Client::close sends Close and waits for the handler to let go of it
ClientClose ==
  /\ AllowClose /\ ~closeCalled /\ ChanHasRoom
  /\ commands' = Append(commands, CloseCmd)
  /\ closeCalled' = TRUE
  /\ UNCHANGED <<cmdClosed, failedUnsub, nextId, user, inbox, budget, usrFrame, muxVars>>

\* Client::multiplexed_request: reserve a slot and send RequestMultiplexed
\* with a fresh reply subject and one-shot sender; the ResponseFut waits
Request(r) ==
  /\ req[r] = "none" /\ ChanHasRoom
  /\ commands' = Append(commands, RequestCmd(r))
  /\ req' = [req EXCEPT ![r] = "waiting"]
  /\ UNCHANGED <<cmdClosed, failedUnsub, userVars, budget, usrFrame, muxInit, muxMap,
                 oneshot>>

\* ResponseFut::poll: the one-shot is ready with the reply (Ok, or
\* NoResponders on a 503) or with the sender dropped (SubscriptionClosed)
ResponseRecv(r) ==
  /\ req[r] = "waiting"
  /\ oneshot[r] \/ ~MuxSenderAlive(r)
  /\ req' = [req EXCEPT ![r] = "done"]
  /\ UNCHANGED <<chanVars, failedUnsub, userVars, budget, usrFrame, muxInit, muxMap,
                 oneshot>>

\* ... the one-shot is pending and the timer fires: TimedOut, while the
\* MultiplexedSubscription stays registered
ResponseTimeout(r) ==
  /\ req[r] = "waiting"
  /\ ~oneshot[r] /\ MuxSenderAlive(r)
  /\ req' = [req EXCEPT ![r] = "timedOut"]
  /\ UNCHANGED <<chanVars, failedUnsub, userVars, budget, usrFrame, muxInit, muxMap,
                 oneshot>>

\* Drop for MultiplexedSubscription before it completed:
\* lazy_unsubscribe_multiplexed, or flag the failed unsubscribe
ResponseDrop(r) ==
  /\ req[r] \in {"waiting", "timedOut"}
  /\ req' = [req EXCEPT ![r] = "dropped"]
  /\ IF ChanHasRoom
     THEN /\ commands' = Append(commands, UnsubscribeMuxCmd(r))
          /\ UNCHANGED failedUnsub
     ELSE /\ failedUnsub' = TRUE
          /\ UNCHANGED commands
  /\ UNCHANGED <<cmdClosed, userVars, budget, usrFrame, muxInit, muxMap, oneshot>>

-----------------------------------------------------------------------------

\* Client::connect has run Handler::connect with an empty map
Init ==
  /\ hpc = "ping"
  /\ subs = NoSubs
  /\ inFlight = <<>>
  /\ pendingPings = 0
  /\ shuttingDown = FALSE
  /\ recvBuf = <<>>
  /\ commands = <<>>
  /\ cmdClosed = FALSE
  /\ failedUnsub = FALSE
  /\ lameduck = FALSE
  /\ qiSnap = FALSE
  /\ nextId = 2
  /\ user = [id \in SubIds |-> "none"]
  /\ inbox = [id \in SubIds |-> <<>>]
  /\ closeCalled = FALSE
  /\ toServer = <<>>
  /\ toClient = <<>>
  /\ srvSubs = NoSubs
  /\ connAlive = TRUE
  /\ budget = [msgs |-> 0, pubs |-> 0, pings |-> 0, srvOps |-> 0, faults |-> 0,
             closeAfters |-> 0]
  /\ muxInit = FALSE
  /\ muxMap = {}
  /\ oneshot = [r \in Requests |-> FALSE]
  /\ req = [r \in Requests |-> "none"]

\* The client task after HandlerOutput::Closed: nothing is left to run
Terminated ==
  /\ hpc = "closed"
  /\ UNCHANGED vars

HandlerNext ==
  \/ PollStart \/ Ping \/ PingTimeout
  \/ FailedUnsubscribe \/ SkipCleanup
  \/ ReadMessage \/ ReadMuxMessage \/ ReadSuccess \/ ReadError \/ ReadFatal
  \/ ReadPing \/ ReadPong \/ ReadInfo \/ ReadPending \/ ReadFailed
  \/ RecvBatch \/ RecvPending \/ RecvClosed \/ RecvNoMoreSpace
  \/ HandlePublish \/ HandleSubscribe \/ HandleUnsubscribeMax
  \/ HandleUnsubscribe \/ HandleClose
  \/ HandleRequestMultiplexed \/ HandleUnsubscribeMultiplexed
  \/ ConnectLoad \/ ConnectStore

ServerNext ==
  \/ ServerReceive \/ ServerDeliver \/ ServerPing \/ ServerInfo
  \/ ServerFatal \/ ConnLost

UserNext ==
  \/ Subscribe \/ Publish \/ ClientClose
  \/ \E id \in SubIds :
       \/ SubscriptionClose(id) \/ SubscriptionRecv(id)
       \/ SubscriptionEnd(id) \/ SubscriptionDrop(id)
       \/ \E m \in 1..MaxRemaining : SubscriptionCloseAfter(id, m)
  \/ \E r \in Requests :
       Request(r) \/ ResponseRecv(r) \/ ResponseTimeout(r) \/ ResponseDrop(r)

Next == HandlerNext \/ ServerNext \/ UserNext \/ Terminated

Spec == Init /\ [][Next]_vars

\* The handler task is woken whenever its channel, socket or timer has work,
\* and the server keeps reading its socket. Users and publishers owe nothing.
FairSpec == Spec /\ WF_vars(HandlerNext) /\ WF_vars(ServerReceive)

-----------------------------------------------------------------------------
(* Properties                                                              *)

TypeOK ==
  /\ hpc \in PollPcs \cup {"reconnect", "connecting", "closed"}
  /\ DOMAIN subs \subseteq SubIds
  /\ \A id \in DOMAIN subs : subs[id] \in [remaining : 0..MaxRemaining, failed : BOOLEAN]
  /\ \A i \in 1..Len(inFlight) :
       inFlight[i] \in {Unimportant} \cup {InFlightSubscribe(id) : id \in SubIds \cup {MuxId}}
  /\ pendingPings \in 0..2
  /\ {shuttingDown, cmdClosed, failedUnsub, lameduck, qiSnap, closeCalled, connAlive}
       \subseteq BOOLEAN
  /\ Len(commands) <= ChanCap
  /\ nextId \in 2..(Cardinality(SubIds) + 2)
  /\ user \in [SubIds -> {"none", "subscribed", "unsubscribed", "dropped"}]
  /\ \A id \in SubIds : Len(inbox[id]) <= SubCap
  /\ DOMAIN srvSubs \subseteq SubIds \cup {MuxId}
  /\ muxInit \in BOOLEAN /\ muxMap \subseteq Requests
  /\ oneshot \in [Requests -> BOOLEAN]
  /\ req \in [Requests -> {"none", "waiting", "timedOut", "done", "dropped"}]

\* The acknowledgements still to come, oldest first: the +OK/-ERR already
\* sent, then one for every PUB, SUB and UNSUB the server has yet to read
AcksOwed ==
  LET sent == SelectSeq(toClient, IsAck)
      owed == SelectSeq(toServer, ExpectsAck)
  IN [i \in 1..Len(sent) |-> sent[i].of] \o [i \in 1..Len(owed) |-> AckTag(owed[i])]

\* in_flight_commands lines up with the acknowledgements the server owes:
\* every -ERR is matched with the command it answers (handle_server_op pops
\* one entry per +OK/-ERR, Handler::connect and every enqueue push one)
InFlightMatchesWire ==
  hpc \in PollPcs => inFlight = AcksOwed

\* Server ops that will end subscription id when the server reads them
Ending(id) ==
  {op \in ToSet(toServer) :
     op.op = "UNSUB" /\ op.id = id /\ (op.max = None \/ op.max <= srvSubs[id].nm)}

\* The server holds no subscription the handler has forgotten, unless an
\* UNSUB that ends it is on its way (handle_server_op's countdown, the -ERR
\* removal, failed_unsubscribe and Unsubscribe all keep to this)
NoOrphanServerSubscription ==
  \A id \in DOMAIN srvSubs : id \in DOMAIN subs \/ Ending(id) # {}

\* MSG ops for subscription id the handler has yet to read
InTransit(id) == Len(SelectSeq(toClient, LAMBDA op : op.op = "MSG" /\ op.id = id))

\* A subscription the handler delivers to is live on the server: subscribed,
\* a SUB on its way, a -ERR for it on its way back, or close_after's count
\* run down by the messages still on their way (Handler::connect's replay,
\* handle_server_op's countdown against the server's UNSUB max). The same
\* holds of the multiplexed subscription once the map is Some, since every
\* later request is routed through it (init_multiplexed_subscriptions, and
\* the -ERR arm of handle_server_op, which looks SUB 1 up in subscriptions)
SubscriptionLive ==
  hpc \in PollPcs /\ connAlive =>
    /\ \A id \in DOMAIN subs :
         ~subs[id].failed /\ user[id] # "dropped" =>
           \/ id \in DOMAIN srvSubs
           \/ SubOp(id) \in ToSet(toServer)
           \/ ErrOp(InFlightSubscribe(id)) \in ToSet(toClient)
           \/ subs[id].remaining # None /\ subs[id].remaining <= InTransit(id)
    /\ muxInit =>
           \/ MuxId \in DOMAIN srvSubs
           \/ SubOp(MuxId) \in ToSet(toServer)
           \/ ErrOp(InFlightSubscribe(MuxId)) \in ToSet(toClient)

\* A subscription whose Subscription was dropped, or whose subscribe error
\* was lost, still has its removal coming: the failed-unsubscribe bit is set
\* or an Unsubscribe is queued (Drop for Subscription, lazy_unsubscribe,
\* failed_unsubscribe, Handler::connect's store of quick_info). Likewise a
\* waiter whose ResponseFut was dropped: the bit, a queued
\* UnsubscribeMultiplexed, or the reply on its way will remove it (Drop for
\* MultiplexedSubscription, lazy_unsubscribe_multiplexed, the retain in
\* failed_unsubscribe)
DroppedSubscriptionTracked ==
  hpc \in PollPcs =>
    /\ \A id \in DOMAIN subs :
         user[id] = "dropped" \/ subs[id].failed =>
           \/ failedUnsub
           \/ UnsubscribeCmd(id, None) \in ToSet(commands) \cup ToSet(recvBuf)
    /\ \A r \in muxMap :
         req[r] = "dropped" =>
           \/ failedUnsub
           \/ UnsubscribeMuxCmd(r) \in ToSet(commands) \cup ToSet(recvBuf)
           \/ MuxMsgOp(r) \in ToSet(toClient)

\* A dropped Subscription eventually leaves the handler's map for good
SubscriptionReleased ==
  \A id \in SubIds : user[id] = "dropped" ~> [](id \notin DOMAIN subs)

\* Client::close returns: after Close, receive_command's Ready(0) rounds on
\* the closed channel end (the coop budget) and poll returns HandlerOutput::Closed
CloseCompletes ==
  closeCalled ~> hpc = "closed"

=============================================================================

---------------------------- MODULE JetStreamBatch ----------------------------
(***************************************************************************)
(* The JetStream pull consumer: ConsumerStream::poll_next                  *)
(* (jetstream/commands/consumer_stream.rs) driving one ConsumerBatch after *)
(* another (consumer_batch.rs), against the server's pull requests.        *)
(*                                                                         *)
(* ConsumerBatch::new subscribes to a fresh inbox and publishes the pull   *)
(* request {"batch": max_msgs, "no_wait": true, "expires": ...} with the   *)
(* inbox as reply subject; the handler sends the SUB before the PUB, so    *)
(* everything the server answers reaches that subscription.  Batch b's     *)
(* inbox is the sequence of what the server sent to it and the            *)
(* subscription has not yet returned.  A batch that is replaced drops its  *)
(* subscription: what the server still sends to it is lost to the stream.  *)
(*                                                                         *)
(* The server side: a pull request hands out the stream's messages         *)
(* 1..Msgs in order, at most `batch` of them; with none left it ends the   *)
(* request with 404 (no_wait) or 408 (expires).  The faults, at most       *)
(* MaxFaults of them: a 409 or an unrequested 100 heartbeat, a server      *)
(* error on the subscription, the client's timer firing while the server   *)
(* still serves the request (a link slower than request_timeout), and the  *)
(* client being closed.  Messages are not redelivered (acks are the        *)
(* caller's and AckWait is not modelled).                                  *)
(***************************************************************************)
EXTENDS Naturals, Sequences, SequencesExt

CONSTANTS
  Msgs,        \* messages the stream holds for the consumer
  MaxMsgs,     \* max_msgs of consumer_stream
  MaxBatches,  \* ConsumerBatch::new calls explored
  MaxFaults    \* faults explored

VARIABLES
  cstatus,      \* ConsumerStream::status: "Polling", "RunningBatch", "Broken"
  batch,        \* the current ConsumerBatch (its inbox), 1..MaxBatches
  pending_msgs, \* ConsumerBatch::pending_msgs
  inbox,        \* inbox[b]: what the server sent to batch b, not yet read
  reqs,         \* reqs[b]: messages the server still owes batch b's request
  stream_seq,   \* the next message the server hands out
  consumed,     \* the messages the stream returned as Ready(Some(Ok(_)))
  lost,         \* messages the server sent that the stream can never return
  gaveUp,       \* a batch's timer fired while the server served its request
  closed,       \* the client is closed
  faults

vars == <<cstatus, batch, pending_msgs, inbox, reqs, stream_seq, consumed,
          lost, gaveUp, closed, faults>>

Batches == 1..MaxBatches

\* What the server sends to an inbox: a message, or a status.
Msg(n) == [kind |-> "msg", seq |-> n]
Status(k) == [kind |-> k, seq |-> 0]

\* Status codes: 404 NOT_FOUND, 408 TIMEOUT, 100 IDLE_HEARTBEAT, 409; a
\* server error (Ready(Some(Err))); the end of the subscription (None).
Ends == {"404", "408"}

\* The messages among a sequence of server answers.
MsgsIn(s) == {s[i].seq : i \in {j \in 1..Len(s) : s[j].kind = "msg"}}

-----------------------------------------------------------------------------
\* ConsumerStream::new: the first ConsumerBatch::new future.
Init ==
  /\ cstatus = "Polling"
  /\ batch = 1
  /\ pending_msgs = 0
  /\ inbox = [b \in Batches |-> <<>>]
  /\ reqs = [b \in Batches |-> 0]
  /\ stream_seq = 1
  /\ consumed = <<>>
  /\ lost = {}
  /\ gaveUp = FALSE
  /\ closed = FALSE
  /\ faults = 0

\* RunningBatch, and the batch returned Ready(None): the batch (and its
\* subscription) is replaced by a new ConsumerBatch::new future; wake,
\* Pending.  Whatever the subscription still held is lost.
NextBatch ==
  /\ batch < MaxBatches
  /\ cstatus' = "Polling"
  /\ batch' = batch + 1
  /\ lost' = lost \cup MsgsIn(inbox[batch])

\* Mutant: the pull request is built but never published (not awaited).
PollingReadyNoRequest ==
  /\ cstatus = "Polling" /\ ~closed
  /\ cstatus' = "RunningBatch"
  /\ pending_msgs' = MaxMsgs
  /\ UNCHANGED <<batch, inbox, reqs, stream_seq, consumed, lost, gaveUp, closed,
                 faults>>

\* Polling: the future subscribed and published the request.  The server
\* registers a request for max_msgs; the batch counts max_msgs pending.
PollingReady ==
  /\ cstatus = "Polling" /\ ~closed
  /\ cstatus' = "RunningBatch"
  /\ pending_msgs' = MaxMsgs
  /\ reqs' = [reqs EXCEPT ![batch] = MaxMsgs]
  /\ UNCHANGED <<batch, inbox, stream_seq, consumed, lost, gaveUp, closed, faults>>

\* Polling on a closed client: subscribe fails with ClientClosed; Broken.
PollingErr ==
  /\ cstatus = "Polling" /\ closed
  /\ cstatus' = "Broken"
  /\ UNCHANGED <<batch, pending_msgs, inbox, reqs, stream_seq, consumed, lost,
                 gaveUp, closed, faults>>

\* pending_msgs == 0: the batch returns Ready(None) at once.
BatchExhausted ==
  /\ cstatus = "RunningBatch" /\ pending_msgs = 0
  /\ NextBatch
  /\ UNCHANGED <<pending_msgs, inbox, reqs, stream_seq, consumed, gaveUp, closed, faults>>

\* Mutant: the timer is polled before the subscription.
BatchTimeoutFirst ==
  /\ cstatus = "RunningBatch" /\ pending_msgs # 0
  /\ reqs[batch] = 0 \/ faults < MaxFaults
  /\ faults' = IF reqs[batch] = 0 THEN faults ELSE faults + 1
  /\ gaveUp' = (gaveUp \/ reqs[batch] # 0)
  /\ pending_msgs' = 0
  /\ NextBatch
  /\ UNCHANGED <<inbox, reqs, stream_seq, consumed, closed>>

\* The subscription is Pending and the timeout Sleep (expires +
\* request_timeout) elapsed: pending_msgs = 0, Ready(None).  While the server
\* still serves the request this is a fault (a link slower than
\* request_timeout).
BatchTimeout ==
  /\ cstatus = "RunningBatch" /\ pending_msgs # 0 /\ inbox[batch] = <<>>
  /\ reqs[batch] = 0 \/ faults < MaxFaults
  /\ faults' = IF reqs[batch] = 0 THEN faults ELSE faults + 1
  /\ gaveUp' = (gaveUp \/ reqs[batch] # 0)
  /\ pending_msgs' = 0
  /\ NextBatch
  /\ UNCHANGED <<inbox, reqs, stream_seq, consumed, closed>>

\* The subscription returned an answer (at the head of the inbox).
BatchReceive ==
  /\ cstatus = "RunningBatch" /\ pending_msgs # 0 /\ inbox[batch] # <<>>
  /\ LET m == Head(inbox[batch])
         rest == [inbox EXCEPT ![batch] = Tail(@)]
     IN
     \/ /\ m.kind = "msg"              \* None | OK: pending -= 1, yield
        /\ pending_msgs' = pending_msgs - 1
        /\ consumed' = Append(consumed, m.seq)
        /\ inbox' = rest
        /\ UNCHANGED <<cstatus, batch, lost>>
     \/ /\ m.kind = "100"              \* IDLE_HEARTBEAT: wake, Pending
        /\ inbox' = rest
        /\ UNCHANGED <<cstatus, batch, pending_msgs, consumed, lost>>
     \/ /\ m.kind \in Ends \cup {"end"} \* TIMEOUT | NOT_FOUND, or None
        /\ pending_msgs' = 0
        /\ inbox' = rest
        /\ UNCHANGED consumed
        /\ NextBatch
     \/ /\ m.kind = "409"              \* UnexpectedStatus: Broken
        /\ cstatus' = "Broken"
        /\ inbox' = rest
        /\ lost' = lost \cup MsgsIn(rest[batch])
        /\ UNCHANGED <<batch, pending_msgs, consumed>>
     \/ /\ m.kind = "err"              \* ServerError: pending 0, Broken
        /\ cstatus' = "Broken"
        /\ pending_msgs' = 0
        /\ inbox' = rest
        /\ lost' = lost \cup MsgsIn(rest[batch])
        /\ UNCHANGED <<batch, consumed>>
  /\ UNCHANGED <<reqs, stream_seq, gaveUp, closed, faults>>

\* Broken: Ready(None), and the caller stops.  Also the caller that stops
\* after MaxBatches batches.
Stopped ==
  /\ \/ cstatus = "Broken"
     \/ cstatus = "RunningBatch" /\ batch = MaxBatches
  /\ UNCHANGED vars

-----------------------------------------------------------------------------
(* The server and the faults.                                              *)

\* A message of batch b's request: it reaches the inbox, or is lost when
\* the stream has left that batch.
Send(b, m) ==
  IF b = batch /\ cstatus # "Broken" /\ ~closed
  THEN /\ inbox' = [inbox EXCEPT ![b] = Append(@, m)]
       /\ UNCHANGED lost
  ELSE /\ lost' = lost \cup MsgsIn(<<m>>)
       /\ UNCHANGED inbox

ServerDeliver(b) ==
  /\ reqs[b] > 0 /\ stream_seq <= Msgs
  /\ Send(b, Msg(stream_seq))
  /\ stream_seq' = stream_seq + 1
  /\ reqs' = [reqs EXCEPT ![b] = @ - 1]
  /\ UNCHANGED <<cstatus, batch, pending_msgs, consumed, gaveUp, closed, faults>>

\* No message left: 404 at once (no_wait), or 408 when the request expires.
ServerEnd(b) ==
  /\ reqs[b] > 0 /\ stream_seq > Msgs
  /\ \E k \in Ends : Send(b, Status(k))
  /\ reqs' = [reqs EXCEPT ![b] = 0]
  /\ UNCHANGED <<cstatus, batch, pending_msgs, stream_seq, consumed, gaveUp,
                 closed, faults>>

\* A 409, a heartbeat, or a server error reaches the current subscription.
ServerFault ==
  /\ cstatus = "RunningBatch" /\ faults < MaxFaults
  /\ \E k \in {"100", "409", "err"} :
       inbox' = [inbox EXCEPT ![batch] = Append(@, Status(k))]
  /\ faults' = faults + 1
  /\ UNCHANGED <<cstatus, batch, pending_msgs, reqs, stream_seq, consumed, lost,
                 gaveUp, closed>>

\* Client::close: the subscription ends after what it holds.
Close ==
  /\ ~closed /\ cstatus # "Broken" /\ faults < MaxFaults
  /\ closed' = TRUE
  /\ faults' = faults + 1
  /\ inbox' = IF cstatus = "RunningBatch"
              THEN [inbox EXCEPT ![batch] = Append(@, Status("end"))]
              ELSE inbox
  /\ UNCHANGED <<cstatus, batch, pending_msgs, reqs, stream_seq, consumed, lost, gaveUp>>

Next ==
  \/ PollingReady \/ PollingErr \/ BatchExhausted \/ BatchTimeout
  \/ BatchReceive \/ Stopped
  \/ \E b \in Batches : ServerDeliver(b) \/ ServerEnd(b)
  \/ ServerFault \/ Close

Spec == Init /\ [][Next]_vars

\* The caller polls whenever it is woken; the server serves its requests.
Fairness ==
  /\ WF_vars(PollingReady) /\ WF_vars(PollingErr) /\ WF_vars(BatchExhausted)
  /\ WF_vars(BatchReceive) /\ WF_vars(BatchTimeout)
  /\ \A b \in Batches : WF_vars(ServerDeliver(b)) /\ WF_vars(ServerEnd(b))

-----------------------------------------------------------------------------
(* Properties.                                                             *)

\* Every message the server sends is returned by the stream, unless the
\* stream broke, the client was closed, or a batch's timer gave up on a
\* request the server still served: the batch counts pending_msgs down
\* from the max_msgs it asked for, and its timer waits for an empty
\* subscription, so no batch is replaced while its subscription holds or
\* will receive a message.
NoMessageLost == (cstatus # "Broken" /\ ~closed /\ ~gaveUp) => lost = {}

\* A caller that keeps polling gets every message of the stream, in order,
\* unless the stream breaks or a timer gives up on a live request.
EveryMessageConsumed ==
  <>(cstatus = "Broken" \/ gaveUp \/ consumed = [i \in 1..Msgs |-> i])
=============================================================================

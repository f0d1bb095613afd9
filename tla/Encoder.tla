------------------------------ MODULE Encoder ------------------------------
(***************************************************************************)
(* StreamEncoder (watermelon-proto proto/encoder/stream.rs) over BufList   *)
(* (util/buf_list.rs), fed by encode (proto/encoder/mod.rs) and drained by *)
(* poll_write_next (watermelon-net connection/streaming.rs).               *)
(*                                                                         *)
(* encode issues small_write for every fixed part of an op and write for  *)
(* a message payload.  A small write, or a write shorter than              *)
(* WRITE_FLATTEN_THRESHOLD (Threshold), is copied into flattened_writes;  *)
(* a longer write first moves flattened_writes into write_buf as a chunk  *)
(* of its own and then queues the payload there.  The bytes pending are   *)
(* the chunks of write_buf in order, then flattened_writes.  An op's      *)
(* fixed parts are abstracted to one byte each ("h" the PUB line, "c" its *)
(* CRLF, "g" a control op such as PING); a payload is a short string.     *)
(***************************************************************************)
EXTENDS Sequences, SequencesExt

CONSTANTS
  Threshold,  \* WRITE_FLATTEN_THRESHOLD (4096), scaled to the payloads below
  Payloads,   \* the message payloads a PUB may carry
  MaxOps      \* ops enqueued in a behaviour

VARIABLES
  encoder,    \* [wb |-> BufList.bufs, wblen |-> BufList.len, flat |-> flattened_writes]
  vectored,   \* the socket's is_write_vectored()
  enqueued,   \* ops enqueued so far
  panicked    \* the connection task panicked

vars == <<encoder, vectored, enqueued, panicked>>

\* The ops: a control op, or a PUB with one of the payloads.
Ops == {[kind |-> "ctl"]} \cup {[kind |-> "pub", payload |-> p] : p \in Payloads}

\* StreamEncoder::new
New == [wb |-> <<>>, wblen |-> 0, flat |-> <<>>]

\* The bytes the encoder still holds, in the order a writer gets them.
Pending(e) == FlattenSeq(e.wb) \o e.flat

\* remaining()
remaining(e) == e.wblen + Len(e.flat)

\* FrameEncoder::small_write: extend_from_slice onto flattened_writes.
small_write(e, b) == [e EXCEPT !.flat = @ \o b]

\* Mutant: len is not increased by the chunk's length.
BufListPushNoLen(e, b) == [e EXCEPT !.wb = Append(@, b)]

\* BufList::push: the chunk is queued and its length added to len.
BufListPush(e, b) == [e EXCEPT !.wb = Append(@, b), !.wblen = @ + Len(b)]

\* Mutant: the payload is queued without moving flattened_writes ahead of it.
writeNoSplit(e, b) ==
  IF Len(b) = 0 THEN e
  ELSE IF Len(b) < Threshold THEN small_write(e, b)
  ELSE BufListPush(e, b)

\* FrameEncoder::write of StreamEncoder.
write(e, b) ==
  IF Len(b) = 0 THEN e
  ELSE IF Len(b) < Threshold THEN small_write(e, b)
  ELSE LET e1 == IF e.flat # <<>>
                   THEN [BufListPush(e, e.flat) EXCEPT !.flat = <<>>]
                   ELSE e
       IN BufListPush(e1, b)

\* encode: PUB writes its line, then the payload, then CRLF.
encode(e, op) ==
  IF op.kind = "pub"
    THEN small_write(write(small_write(e, <<"h">>), op.payload), <<"c">>)
    ELSE small_write(e, <<"g">>)

\* The bytes encode adds for an op.
OpBytes(op) == Pending(encode(New, op))

(***************************************************************************)
(* BufList::advance, as written: while cnt > 0, if the front chunk holds   *)
(* fewer than cnt bytes it is advanced by cnt (Bytes::advance asserts cnt *)
(* <= remaining and panics); otherwise the whole chunk is removed and its *)
(* length taken off cnt, which underflows when the chunk held more than   *)
(* cnt (a panic with overflow checks; in release cnt wraps to a value     *)
(* above every chunk and the next turn panics in advance or in unwrap).   *)
(* An empty list with cnt > 0 panics in front_mut().unwrap().             *)
(***************************************************************************)
RECURSIVE BufListAdvance(_, _, _)
BufListAdvance(wb, len, cnt) ==
  IF cnt = 0 THEN [wb |-> wb, len |-> len, panic |-> FALSE]
  ELSE IF wb = <<>> THEN [wb |-> wb, len |-> len, panic |-> TRUE]
  ELSE LET r == Len(Head(wb))
       IN IF r < cnt \/ r > cnt THEN [wb |-> wb, len |-> len, panic |-> TRUE]
          ELSE BufListAdvance(Tail(wb), len - r, cnt - r)

\* StreamEncoder::advance: write_buf first, the rest from flattened_writes
\* (cleared when it is consumed whole).
advance(e, cnt) ==
  LET mid == IF e.wblen < cnt THEN e.wblen ELSE cnt
      b == BufListAdvance(e.wb, e.wblen, mid)
      rem == cnt - mid
  IN [enc |-> [wb |-> b.wb, wblen |-> b.len,
               flat |-> IF rem = Len(e.flat) THEN <<>>
                        ELSE SubSeq(e.flat, rem + 1, Len(e.flat))],
      panic |-> b.panic]

\* What poll_write_next hands the socket: every chunk (chunks_vectored,
\* write_buf then flattened_writes) or the first one (chunk()).
Writable(e) ==
  IF vectored THEN Pending(e)
  ELSE IF e.wb # <<>> THEN Head(e.wb) ELSE e.flat

-----------------------------------------------------------------------------
Init ==
  /\ encoder = New
  /\ vectored \in BOOLEAN
  /\ enqueued = 0
  /\ panicked = FALSE

\* StreamingConnection::enqueue_write_op
EnqueueWriteOp ==
  /\ ~panicked /\ enqueued < MaxOps
  /\ \E op \in Ops : encoder' = encode(encoder, op)
  /\ enqueued' = enqueued + 1
  /\ UNCHANGED <<vectored, panicked>>

\* poll_write_next: the socket takes n of the bytes offered, and the
\* encoder is advanced by n.
WriteNext ==
  /\ ~panicked /\ remaining(encoder) > 0
  /\ \E n \in 1..Len(Writable(encoder)) :
       LET a == advance(encoder, n)
       IN IF a.panic THEN panicked' = TRUE /\ UNCHANGED encoder
          ELSE encoder' = a.enc /\ UNCHANGED panicked
  /\ UNCHANGED <<vectored, enqueued>>

\* After a panic the task is gone.
Panicked == panicked /\ UNCHANGED vars

\* Nothing more to enqueue or write.
Drained == ~panicked /\ enqueued = MaxOps /\ remaining(encoder) = 0 /\ UNCHANGED vars

Next == EnqueueWriteOp \/ WriteNext \/ Panicked \/ Drained

Spec == Init /\ [][Next]_vars

-----------------------------------------------------------------------------
(* Properties.                                                             *)

BQ == INSTANCE ByteQueue WITH queue <- Pending(encoder),
                              Chunks <- {OpBytes(op) : op \in Ops}

(***************************************************************************)
(* StreamEncoder is the byte queue spec.md describes: enqueue_write_op    *)
(* adds an op's bytes behind the others (a payload routed to write_buf    *)
(* stays behind the small writes before it), and every advance the       *)
(* connection makes removes exactly the bytes the socket took.  A panic   *)
(* ends the task and changes no bytes.                                    *)
(***************************************************************************)
ImplementsByteQueue == BQ!Spec

(***************************************************************************)
(* BufList's len, which remaining() and may_enqueue_more_ops read, is the *)
(* number of bytes in its chunks after every push and advance.            *)
(***************************************************************************)
WriteBufLenExact == encoder.wblen = Len(FlattenSeq(encoder.wb))

(***************************************************************************)
(* Buf::advance(cnt) for cnt <= remaining() does not panic: the           *)
(* connection advances the encoder by what the socket took, and a panic   *)
(* there kills the connection task.                                       *)
(***************************************************************************)
AdvanceNeverPanics == ~panicked

=============================================================================

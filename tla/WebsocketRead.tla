--------------------------- MODULE WebsocketRead ----------------------------
(***************************************************************************)
(* The read half of the client over a websocket:                           *)
(* WebsocketConnection::poll_read_next (watermelon-net                      *)
(* connection/websocket.rs), as Connection::poll_read_next and the read    *)
(* loop of Handler::poll call it.  The server sends binary frames, each    *)
(* carrying the bytes of zero or more ops, and other frames (ping, pong,   *)
(* text) that the loop skips; then it ends the stream.  The bytes of a     *)
(* binary frame are kept in residual_frame and decoded one op per call by  *)
(* decode_frame, from a fresh status each time (Decoder's decode).         *)
(***************************************************************************)
EXTENDS Naturals, Sequences

CONSTANTS
  FrameScripts,  \* the frame sequences the server may send
  OpBytes,       \* Decoder's: the bytes of each op
  Expected,      \* Decoder's: the ServerOp each op decodes to
  Decode(_)      \* Decoder's decode from a fresh ControlLine status:
                 \* the buffer left and the outcome (ret) of the call

VARIABLES
  frames,     \* the server's frames: [bin |-> BOOLEAN, ops |-> op names]
  arrived,    \* how many of them have reached the socket
  ended,      \* the server has ended the stream
  fpos,       \* how many of them poll_next has handed over
  residual,   \* WebsocketConnection.residual_frame
  rpc,        \* "poll": the loop runs; "closed" / "failed": it returned an error
  wreceived   \* the ServerOps poll_read_next returned, in order

wrvars == <<frames, arrived, ended, fpos, residual, rpc, wreceived>>

RECURSIVE Concat(_)
Concat(ops) == IF ops = <<>> THEN <<>> ELSE OpBytes[Head(ops)] \o Concat(Tail(ops))

\* The bytes of a frame, as into_payload gives them.
Payload(f) == Concat(f.ops)

RECURSIVE FramedOps(_)
\* The ServerOps the binary frames of fs carry, in order.
FramedOps(fs) ==
  IF fs = <<>> THEN <<>>
  ELSE (IF Head(fs).bin THEN [i \in 1..Len(Head(fs).ops) |-> Expected[Head(fs).ops[i]]]
        ELSE <<>>) \o FramedOps(Tail(fs))

\* decode_frame's match on decode: Ok(None) is IncompleteFrame.
FrameRet(r) == IF r.tag = "none" THEN [r EXCEPT !.tag = "error", !.e = "IncompleteFrame"]
               ELSE r

-----------------------------------------------------------------------------
\* Mutant: the frame is decoded from a copy, and what follows its first op
\* is dropped.
DecodeResidualDiscard(frame) ==
  LET o == Decode(frame)
  IN [ret |-> FrameRet(o.ret),
      rest |-> <<>>]

\* decode_frame(&mut self.residual_frame): one op from a fresh status;
\* the bytes after it stay in residual_frame, Ok(None) is IncompleteFrame.
DecodeResidual(frame) ==
  LET o == Decode(frame)
  IN [ret |-> FrameRet(o.ret),
      rest |-> o.buf]

Init ==
  /\ frames \in FrameScripts
  /\ arrived = 0 /\ ended = FALSE
  /\ fpos = 0
  /\ residual = <<>>      \* WebsocketConnection::new
  /\ rpc = "poll"
  /\ wreceived = <<>>

\* The server's next frame reaches the socket.
Arrive ==
  /\ arrived < Len(frames)
  /\ arrived' = arrived + 1
  /\ UNCHANGED <<frames, ended, fpos, residual, rpc, wreceived>>

\* The server ends the stream after its last frame.
End ==
  /\ arrived = Len(frames) /\ ~ended
  /\ ended' = TRUE
  /\ UNCHANGED <<frames, arrived, fpos, residual, rpc, wreceived>>

\* A call of poll_read_next with bytes in residual_frame returns the op
\* decode_frame takes from them, or its error.
ReadResidual ==
  /\ rpc = "poll" /\ residual # <<>>
  /\ LET d == DecodeResidual(residual)
     IN IF d.ret.tag = "op"
          THEN /\ wreceived' = Append(wreceived, d.ret.op)
               /\ residual' = d.rest
               /\ UNCHANGED rpc
          ELSE /\ rpc' = "failed"
               /\ UNCHANGED <<residual, wreceived>>
  /\ UNCHANGED <<frames, arrived, ended, fpos>>

\* With residual_frame empty, the loop polls the stream: a binary frame
\* becomes residual_frame, another frame is skipped, the end of the stream
\* is Closed.  (Pending, no frame and no end yet, changes nothing.)
ReadFrame ==
  /\ rpc = "poll" /\ residual = <<>>
  /\ fpos < arrived
  /\ fpos' = fpos + 1
  /\ residual' = IF frames[fpos + 1].bin THEN Payload(frames[fpos + 1]) ELSE <<>>
  /\ UNCHANGED <<frames, arrived, ended, rpc, wreceived>>

ReadClosed ==
  /\ rpc = "poll" /\ residual = <<>>
  /\ fpos = arrived /\ ended
  /\ rpc' = "closed"
  /\ UNCHANGED <<frames, arrived, ended, fpos, residual, wreceived>>

\* The stream has ended in error: the handler reconnects.
Stopped ==
  /\ rpc # "poll"
  /\ UNCHANGED wrvars

Next == Arrive \/ End \/ ReadResidual \/ ReadFrame \/ ReadClosed \/ Stopped

Spec == Init /\ [][Next]_wrvars

-----------------------------------------------------------------------------
(* Properties.                                                             *)

(***************************************************************************)
(* poll_read_next returns the ops of the binary frames in the order the    *)
(* server framed them, every op of a frame that carries several included, *)
(* never fails on frames of whole valid ops, and reports Closed only after *)
(* it has returned all of them.                                            *)
(***************************************************************************)
WsReadReturnsFramedOps ==
  \A all \in {FramedOps(frames)} :
     /\ wreceived = SubSeq(all, 1, Len(wreceived))
     /\ rpc # "failed"
     /\ rpc = "closed" => wreceived = all

=============================================================================

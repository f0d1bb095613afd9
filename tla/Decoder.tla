------------------------------ MODULE Decoder ------------------------------
(***************************************************************************)
(* StreamingConnection::poll_read_next over StreamDecoder::decode          *)
(* (watermelon-net connection/streaming.rs, watermelon-proto               *)
(* proto/decoder/{mod,stream}.rs).  The server writes the bytes of a       *)
(* script of ops; the socket hands them over in chunks of any size; each   *)
(* decode call runs the whole loop of `decode` over the read buffer.       *)
(* Bytes are the abstract bytes of ProtoUtil; a keyword the decoder tests  *)
(* with starts_with ("+OK", "MSG ", "NATS/1.0", ...) is one byte.          *)
(***************************************************************************)
EXTENDS Validate, TLC

CONSTANTS
  Scripts,     \* the op sequences the server may send, as names of OpBytes
  MaxRead,     \* most bytes one socket read hands over
  MaxHeadLen,  \* MAX_HEAD_LEN, scaled down with the byte abstraction
  Width,       \* bit width parse_usize / parse_u64 check against
  OverflowChecks \* the build panics on integer overflow (debug profile)

VARIABLES
  sent,      \* the server's script (never changes)
  pos,       \* how many of its bytes the socket has handed over
  buf,       \* StreamDecoder.read_buf
  status,    \* StreamDecoder.status (DecoderStatus)
  pc,        \* "decode": poll_read_next calls decode; "read": it reads the
             \* socket; "failed": it returned an error; "panicked"
  received,  \* the ServerOps poll_read_next returned, in order
  err        \* the error it returned, "" before that

vars == <<sent, pos, buf, status, pc, received, err>>

-----------------------------------------------------------------------------
(* The server's ops, their bytes and the ServerOp each one should decode   *)
(* to.  A ServerOp is a record; for MSG/HMSG it carries the subscription   *)
(* id, the status code (0 = None), the headers as <<name, value>> pairs    *)
(* in order, and the payload.                                              *)

Header(h) == <<"NATS/1.0", CR, LF>> \o h \o CRLF

OpBytes == [
  ok      |-> <<"+OK", CR, LF>>,
  ping    |-> <<"PING", CR, LF>>,
  pong    |-> <<"PONG", CR, LF>>,
  err     |-> <<"-ERR ", "'", "m", "'", CR, LF>>,
  info    |-> <<"INFO ", "j", CR, LF>>,
  msg     |-> <<"MSG ", "s", " ", "1", " ", "1", CR, LF, "p", CR, LF>>,
  hmsg    |-> <<"HMSG ", "s", " ", "1", " ", "1", "0", " ", "1", "1", CR, LF>>
                \o Header(<<"n", ":", "v", CR, LF>>) \o <<"p", CR, LF>>,
  hstatus |-> <<"HMSG ", "s", " ", "1", " ", "9", " ", "9", CR, LF>>
                \o <<"NATS/1.0", " ", "5", "0", "3", CR, LF, CR, LF>> \o CRLF,
  hempty  |-> <<"HMSG ", "s", " ", "1", " ", "9", " ", "9", CR, LF>>
                \o Header(<<"n", ":", CR, LF>>) \o CRLF,
  errq    |-> <<"-ERR ", "'", CR, LF>>,
  bad     |-> <<"x", "x", CR, LF>>,
  long    |-> <<"INFO ">> \o [i \in 1..12 |-> "j"]]

Op(kind) == [kind |-> kind, sid |-> 0, code |-> 0, headers |-> <<>>, payload |-> <<>>]
Msg(hs, code, p) == [kind |-> "Message", sid |-> 1, code |-> code, headers |-> hs, payload |-> p]

\* What each op decodes to; an op absent here is not a valid op.
Expected == [
  ok |-> Op("Success"), ping |-> Op("Ping"), pong |-> Op("Pong"),
  err |-> Op("Error"), info |-> Op("Info"),
  msg |-> Msg(<<>>, 0, <<"p">>),
  hmsg |-> Msg(<<<<<<"n">>, <<"v">>>>>>, 0, <<"p">>),
  hstatus |-> Msg(<<>>, 503, <<>>)]

Valid(name) == name \in DOMAIN Expected

Wire == FlattenSeq([i \in 1..Len(sent) |-> OpBytes[sent[i]]])

-----------------------------------------------------------------------------
(* DecoderStatus as one record kind; the unused fields keep defaults.      *)
ControlLine(lbr) == [kind |-> "ControlLine", lbr |-> lbr, sid |-> 0, code |-> 0,
                     headers |-> <<>>, hl |-> 0, pl |-> 0]
HeadersSt(sid, hl, pl) == [ControlLine(0) EXCEPT !.kind = "Headers", !.sid = sid,
                                                 !.hl = hl, !.pl = pl]
PayloadSt(sid, code, hs, pl) == [ControlLine(0) EXCEPT !.kind = "Payload", !.sid = sid,
                                   !.code = code, !.headers = hs, !.pl = pl]
Poisoned == [ControlLine(0) EXCEPT !.kind = "Poisoned"]

\* The outcome of one step of decode's loop: the new status and buffer,
\* and what happens next: "continue" the loop, return Ok(None) ("none"),
\* Ok(Some(op)) ("op"), Err(e) ("error"), or a panic.
Ret(tag, op, e) == [tag |-> tag, op |-> op, e |-> e]
NoOp == Op("")
Continue == Ret("continue", NoOp, "")
None == Ret("none", NoOp, "")
Some(op) == Ret("op", op, "")
Error(e) == Ret("error", NoOp, e)
Panic(e) == Ret("panic", NoOp, e)
Out(st, b, r) == [status |-> st, buf |-> b, ret |-> r]

-----------------------------------------------------------------------------
(* decode_msg: "MSG <subject> <sid> [reply] <len>".  The subject and reply *)
(* bytes are always valid UTF-8 here, so SubjectInvalidUtf8 is not          *)
(* reachable.  The result is the Payload status or an error name.         *)

decode_msg(line) ==
  LET ch == SplitSpaces(Advance(line, 1))
      sid == ParseUint(ch[2], Width)
      len == ParseUint(ch[Len(ch)], Width)
  IN IF Len(ch) \notin {3, 4} THEN Res(Poisoned, "InvalidMsgArgsCount")
     ELSE IF sid.tag # "Ok" THEN Res(Poisoned, "SubscriptionId")
     ELSE IF len.tag # "Ok" THEN Res(Poisoned, "InvalidPayloadLength")
     ELSE Res(PayloadSt(sid.val, 0, <<>>, len.val), "")

\* decode_hmsg: "HMSG <subject> <sid> [reply] <header_len> <total_len>".
decode_hmsg(line) ==
  LET ch == SplitSpaces(Advance(line, 1))
      sid == ParseUint(ch[2], Width)
      hl == ParseUint(ch[Len(ch) - 1], Width)
      tl == ParseUint(ch[Len(ch)], Width)
  IN IF Len(ch) \notin {4, 5} THEN Res(Poisoned, "InvalidHmsgArgsCount")
     ELSE IF sid.tag # "Ok" THEN Res(Poisoned, "SubscriptionId")
     ELSE IF hl.tag # "Ok" THEN Res(Poisoned, "InvalidHeaderLength")
     ELSE IF tl.tag # "Ok" THEN Res(Poisoned, "InvalidPayloadLength")
     ELSE IF tl.val < hl.val THEN Res(Poisoned, "InvalidTotalLength")
     ELSE Res(HeadersSt(sid.val, hl.val, tl.val - hl.val), "")

\* StatusCode::from_ascii_bytes with TryFrom<u16>: three digits in 100..1000.
StatusCodeFrom(b) ==
  LET v == ParseUint(b, 16)
  IN IF Len(b) = 3 /\ v.tag = "Ok" /\ v.val \in 100..999 THEN v.val ELSE -1

(***************************************************************************)
(* decode_headers: the status is Poisoned until the block parses; the      *)
(* first line must start with NATS/1.0, whose rest, when 4 bytes or more,  *)
(* holds the status code.  Returns the outcome for decode's loop.          *)
(***************************************************************************)
decode_headers(b, st) ==
  LET lines == LinesIter(SubSeq(b, 1, st.hl))
      rest == Advance(b, st.hl)
      head == Tail(lines[1])
      code == IF Len(head) >= 4 THEN StatusCodeFrom(SubSeq(head, 2, 4)) ELSE 0
      hs == HeaderLines(SelectSeq(Tail(lines), LAMBDA l : l # <<>>), <<>>)
  IN IF lines = <<>> THEN Out(Poisoned, rest, Error("MissingHead"))
     ELSE IF lines[1] = <<>> \/ lines[1][1] # "NATS/1.0"
       THEN Out(Poisoned, rest, Error("InvalidHead"))
     ELSE IF code = -1 THEN Out(Poisoned, rest, Error("StatusCode"))
     ELSE IF hs.e = "panic" THEN Out(Poisoned, rest, Panic("index out of bounds"))
     ELSE IF hs.e # "" THEN Out(Poisoned, rest, Error(hs.e))
     ELSE Out(PayloadSt(st.sid, code, hs.st, st.pl), rest, Continue)

\* -ERR '<message>': the quotes are checked, then stripped with
\* truncate(len - 1), which underflows on a lone quote (a panic when the
\* build has overflow checks, otherwise a no-op truncate).
DecodeErr(line, st, rest) ==
  LET a == Advance(line, 1)
  IN IF a = <<>> \/ a[1] # "'" \/ a[Len(a)] # "'"
       THEN Out(st, rest, Error("InvalidErrorMessage"))
     ELSE IF Len(a) = 1 /\ OverflowChecks
       THEN Out(st, rest, Panic("attempt to subtract with overflow"))
     ELSE Out(st, rest, Some(Op("Error")))

\* serde_json on INFO's argument: here any non-empty run of "j" bytes.
DecodeInfo(line, st, rest) ==
  LET a == Advance(line, 1)
  IN IF a # <<>> /\ \A i \in 1..Len(a) : a[i] = "j"
       THEN Out(st, rest, Some(Op("Info")))
     ELSE Out(st, rest, Error("InvalidInfo"))

(***************************************************************************)
(* One pass of decode's loop.  In ControlLine, a line that returns an op  *)
(* leaves last_bytes_read as it was; only the no-CRLF branch sets it and  *)
(* only the Payload branch resets it.                                      *)
(***************************************************************************)
DecodeControlLine(st, b) ==
  LET i == FindCRLF(b)
      line == SubSeq(b, 1, i - 1)
      rest == Advance(b, i + 1)
      k == IF line = <<>> THEN "" ELSE line[1]
      next(r) == IF r.e # "" THEN Out(st, rest, Error(r.e)) ELSE Out(r.st, rest, Continue)
  IN IF st.lbr = Len(b) THEN Out(st, b, None)
     ELSE IF i = 0 THEN Out(ControlLine(Len(b)), b, None)
     ELSE CASE k = "+OK"   -> Out(st, rest, Some(Op("Success")))
            [] k = "MSG "  -> next(decode_msg(line))
            [] k = "HMSG " -> next(decode_hmsg(line))
            [] k = "PING"  -> Out(st, rest, Some(Op("Ping")))
            [] k = "PONG"  -> Out(st, rest, Some(Op("Pong")))
            [] k = "-ERR " -> DecodeErr(line, st, rest)
            [] k = "INFO " -> DecodeInfo(line, st, rest)
            [] Len(rest) > MaxHeadLen -> Out(st, rest, Error("HeadTooLong"))
            [] OTHER -> Out(st, rest, Error("InvalidCommand"))

\* Mutant: the guard waits for one byte more than payload + CRLF.
DecodePayloadOneShort(st, b) ==
  IF Len(b) <= st.pl + 2 THEN Out(st, b, None)
  ELSE Out(ControlLine(0), Advance(b, st.pl + 2),
           Some(Msg(st.headers, st.code, SubSeq(b, 1, st.pl))))

\* Mutant: the payload is split off but its trailing CRLF is left behind.
DecodePayloadKeepCRLF(st, b) ==
  IF Len(b) < st.pl + 2 THEN Out(st, b, None)
  ELSE Out(ControlLine(0), Advance(b, st.pl),
           Some(Msg(st.headers, st.code, SubSeq(b, 1, st.pl))))

DecodePayload(st, b) ==
  IF Len(b) < st.pl + 2 THEN Out(st, b, None)
  ELSE Out(ControlLine(0), Advance(b, st.pl + 2),
           Some(Msg(st.headers, st.code, SubSeq(b, 1, st.pl))))

DecodeStep(st, b) ==
  CASE st.kind = "ControlLine" -> DecodeControlLine(st, b)
    [] st.kind = "Headers" -> IF Len(b) < st.hl THEN Out(st, b, None)
                              ELSE decode_headers(b, st)
    [] st.kind = "Payload" -> DecodePayload(st, b)
    [] st.kind = "Poisoned" -> Out(st, b, Error("Poisoned"))

RECURSIVE decode(_, _)
decode(st, b) ==
  LET loop(o) == IF o.ret.tag = "continue" THEN decode(o.status, o.buf) ELSE o
  IN loop(DecodeStep(st, b))

\* Mutant: the frame is decoded with the status left by the previous frame.
decode_frame_stale(frame) ==
  LET o == decode(ControlLine(Len(frame)), frame)
  IN IF o.ret.tag = "none" THEN Error("IncompleteFrame") ELSE o.ret

\* decode_frame (framed.rs): one websocket frame holds exactly one op,
\* decoded from a fresh status; Ok(None) is IncompleteFrame.
decode_frame(frame) ==
  LET o == decode(ControlLine(0), frame)
  IN IF o.ret.tag = "none" THEN Error("IncompleteFrame") ELSE o.ret

-----------------------------------------------------------------------------
(* poll_read_next's loop, one action per branch.                           *)

Init ==
  /\ sent \in Scripts
  /\ pos = 0
  /\ buf = <<>>
  /\ status = ControlLine(0)   \* StreamDecoder::new
  /\ pc = "decode"
  /\ received = <<>>
  /\ err = ""

\* self.decoder.decode(): an op is returned to the handler, which calls
\* poll_read_next again; Ok(None) goes on to read the socket.
Decode ==
  /\ pc = "decode"
  /\ LET return(o) ==
       /\ status' = o.status
       /\ buf' = o.buf
       /\ CASE o.ret.tag = "op"    -> /\ received' = Append(received, o.ret.op)
                                      /\ UNCHANGED <<pc, err>>
            [] o.ret.tag = "none"  -> /\ pc' = "read"
                                      /\ UNCHANGED <<received, err>>
            [] o.ret.tag = "error" -> /\ pc' = "failed"
                                      /\ err' = o.ret.e
                                      /\ UNCHANGED received
            [] o.ret.tag = "panic" -> /\ pc' = "panicked"
                                      /\ err' = o.ret.e
                                      /\ UNCHANGED received
     IN return(decode(status, buf))
  /\ UNCHANGED <<sent, pos>>

\* Mutant: the read position lags the bytes appended by one.
ReadLagging ==
  /\ pc = "read"
  /\ \E n \in 1..MaxRead :
       /\ pos + n <= Len(Wire)
       /\ buf' = buf \o SubSeq(Wire, pos + 1, pos + n)
       /\ pos' = pos + n - 1
  /\ pc' = "decode"
  /\ UNCHANGED <<sent, status, received, err>>

\* socket.read_buf(..) is Ready(Ok(n)) with 1 <= n: n more bytes.
Read ==
  /\ pc = "read"
  /\ \E n \in 1..MaxRead :
       /\ pos + n <= Len(Wire)
       /\ buf' = buf \o SubSeq(Wire, pos + 1, pos + n)
       /\ pos' = pos + n
  /\ pc' = "decode"
  /\ UNCHANGED <<sent, status, received, err>>

\* Ready(Ok(0)): the server closed the connection after its last byte.
ReadEof ==
  /\ pc = "read"
  /\ pos = Len(Wire)
  /\ pc' = "failed"
  /\ err' = "UnexpectedEof"
  /\ UNCHANGED <<sent, pos, buf, status, received>>

\* After an error the handler drops the connection; a panic ends the task.
Stopped ==
  /\ pc \in {"failed", "panicked"}
  /\ UNCHANGED vars

Next == Decode \/ Read \/ ReadEof \/ Stopped

Spec == Init /\ [][Next]_vars

\* The handler polls the connection whenever it is woken, and the socket
\* wakes it when bytes are ready; the peer closing is not assumed.
\* Decode always takes a step when pc = "decode" (decode returns on every
\* path), so ENABLED <<Decode>>_vars is pc = "decode" and WF_vars(Decode)
\* is written out with it.
Fairness ==
  /\ []<>(pc # "decode") \/ []<><<Decode>>_vars
  /\ WF_vars(Read)

FairSpec == Spec /\ Fairness

-----------------------------------------------------------------------------
(* Properties.                                                             *)

TypeOK ==
  /\ sent \in Scripts
  /\ pos \in 0..Len(Wire)
  /\ Len(buf) <= pos
  /\ buf = SubSeq(Wire, pos - Len(buf) + 1, pos)
  /\ status.kind \in {"ControlLine", "Headers", "Payload", "Poisoned"}
  /\ status.lbr \in 0..Len(Wire)
  /\ pc \in {"decode", "read", "failed", "panicked"}
  /\ \A i \in 1..Len(received) : received[i] \in Range(Expected)
  /\ (pc \in {"decode", "read"}) = (err = "")

\* The offset in Wire at which the i-th op of the script ends.
OpEnd(i) == Len(FlattenSeq([j \in 1..i |-> OpBytes[sent[j]]]))

\* How many ops of the script have arrived in full.
Arrived == Cardinality({i \in 1..Len(sent) : OpEnd(i) <= pos})

\* The read half as ServerOpStream sees it.
OpStream == INSTANCE ServerOpStream WITH
  ops <- [i \in 1..Len(sent) |->
            [valid |-> Valid(sent[i]),
             op |-> IF Valid(sent[i]) THEN Expected[sent[i]] ELSE NoOp]],
  arrived <- Arrived,
  delivered <- received,
  failed <- pc = "failed"

(***************************************************************************)
(* poll_read_next implements ServerOpStream: every op returned is the next *)
(* op the server wrote, decoded unchanged, after its last byte arrived,   *)
(* whatever the read boundaries; decode errors only on a malformed op or  *)
(* at end of stream.                                                      *)
(***************************************************************************)
ImplementsOpStream == OpStream!Spec

(***************************************************************************)
(* Under the handler's polling, every op whose bytes have all arrived is  *)
(* eventually returned by poll_read_next (or the stream ends in error),   *)
(* without the server sending more: decode's "no progress" early return   *)
(* must only fire when no op can be decoded (ServerOpStream's LiveSpec).  *)
(***************************************************************************)
DeliversArrivedOps ==
  \A k \in 1..Max({Len(sc) : sc \in Scripts}) :
     (Arrived >= k) ~> (Len(received) >= k \/ pc \in {"failed", "panicked"})

(***************************************************************************)
(* decode_frame turns the bytes of each valid op, alone in a frame, into  *)
(* that op, and a frame cut anywhere before its end into IncompleteFrame  *)
(* or an error, never into an op.                                         *)
(***************************************************************************)
FrameDecodesEachOp ==
  \A name \in DOMAIN Expected :
     /\ decode_frame(OpBytes[name]) = Some(Expected[name])
     /\ \A n \in 0..(Len(OpBytes[name]) - 1) :
          decode_frame(SubSeq(OpBytes[name], 1, n)).tag # "op"

(***************************************************************************)
(* poll_read_next goes back to the socket only when it must (spec.md,     *)
(* DecoderError): when it asks for more bytes, every op whose bytes have  *)
(* all arrived has been returned, and an unterminated control line in the *)
(* buffer is within MAX_HEAD_LEN (past it, decode fails with              *)
(* HeadTooLong).  Malformed input ends the stream with a DecoderError,    *)
(* never with a panic.                                                    *)
(***************************************************************************)
ReadsOnlyWhenNeeded ==
  /\ pc # "panicked"
  /\ pc = "read" => /\ Len(received) = Arrived
                    /\ (status.kind = "ControlLine" /\ FindCRLF(buf) = 0)
                         => Len(buf) <= MaxHeadLen

=============================================================================

----------------------------- MODULE MCCodec ------------------------------
(***************************************************************************)
(* The codec and the two halves of StreamingConnection, as harnesses of   *)
(* one state space.  "read": the read half (Decoder) over the server      *)
(* scripts below.  "write": the write half as the handler drives it       *)
(* (Flush).  "encode": StreamEncoder and BufList under enqueue and        *)
(* partial writes (Encoder).  "operators" and "headers": the byte helpers, *)
(* the subject validator and the HeaderMap (MCProtoUtil).  "list": the    *)
(* paged listing of JetStream consumers and streams (JetStreamList).       *)
(* "batch": the JetStream pull consumer (JetStreamBatch).  "ws": the     *)
(* write half over a websocket (WebsocketFlush).  "wsread": its read      *)
(* half (WebsocketRead).  The                                              *)
(* harness is chosen once in the initial state; the others keep their      *)
(* initial state, so the state spaces add.                                 *)
(***************************************************************************)
EXTENDS Naturals, TLC

CONSTANTS Scripts, MaxRead, MaxHeadLen, Width, OverflowChecks,
          MaxOps, ChanCap, RecvBuf, EnqueueLimit, SockCap, Delayed,
          DebugAsserts, MaxStalls,
          MaxDigits, MaxFieldsLen, MaxLinesLen, MaxSubjectLen,
          HNames, HValues, Fold, ByteRank, MaxLen,
          Threshold, Payloads, MaxEncOps,
          Total, Limit, MaxErrors,
          Msgs, MaxMsgs, MaxBatches, MaxFaults, SinkCap, MaxPings,
          FrameScripts,
          Harnesses   \* the harnesses to run: a subset of the nine above

VARIABLES sent, pos, buf, status, pc, received, err,
          harness, commands, chan, enc, may_flush, buffered, delivered,
          congested, flushing, delay, wakers, woken, hpc, stalls,
          ubuf, hm, encoder, vectored, enqueued, panicked,
          offset, fetch, buffer, exhausted, listed, last, inOrder, errors, done,
          cstatus, batch, pending_msgs, inbox, reqs, stream_seq, consumed, lost,
          gaveUp, closed, faults, sbuf, scmds, should_flush, pingDue, pings,
          frames, arrived, ended, fpos, residual, rpc, wreceived

D == INSTANCE Decoder

W == INSTANCE Flush WITH commands <- commands, chan <- chan, enc <- enc,
       may_flush <- may_flush, buffered <- buffered, delivered <- delivered,
       congested <- congested, flushing <- flushing, delay <- delay,
       wakers <- wakers, woken <- woken, hpc <- hpc, stalls <- stalls

\* The websocket write half shares the channel, kernel and poll state of
\* the streaming one.
WS == INSTANCE WebsocketFlush

\* decode_frame's call of decode, from a fresh status.
FreshDecode(frame) == D!decode(D!ControlLine(0), frame)

WR == INSTANCE WebsocketRead WITH OpBytes <- D!OpBytes, Expected <- D!Expected,
        Decode <- FreshDecode

P == INSTANCE MCProtoUtil WITH buf <- ubuf

E == INSTANCE Encoder WITH MaxOps <- MaxEncOps

L == INSTANCE JetStreamList

B == INSTANCE JetStreamBatch

rvars == <<sent, pos, buf, status, pc, received, err>>

wvars == <<commands, chan, enc, may_flush, buffered, delivered, congested,
           flushing, delay, wakers, woken, hpc, stalls>>

pvars == <<ubuf, hm>>

evars == <<encoder, vectored, enqueued, panicked>>

lvars == <<offset, fetch, buffer, exhausted, listed, last, inOrder, errors, done>>

bvars == <<cstatus, batch, pending_msgs, inbox, reqs, stream_seq, consumed, lost,
           gaveUp, closed, faults>>

svars == <<sbuf, scmds, should_flush, pingDue, pings>>

frvars == <<frames, arrived, ended, fpos, residual, rpc, wreceived>>

allvars == <<rvars, harness, wvars, pvars, evars, lvars, bvars, svars, frvars>>

V == INSTANCE Validate

\* Header names and values a caller may pass: the candidates their TryFrom
\* accepts (the ASSUME below).  n and N fold to the same name; ':' may
\* appear in a value.
MCHNames == {<<"n">>, <<"N">>, <<"x">>}
MCHValues == {<<"v">>, <<"w">>, <<":", "v">>}

ASSUME /\ MCHNames = {n \in {<<"n">>, <<"N">>, <<"x">>, <<"n", ":">>, <<" ">>} :
                        V!validate_header_name(n) = "Ok"}
       /\ MCHValues = {v \in {<<"v">>, <<"w">>, <<":", "v">>, <<"v", " ">>, <<>>} :
                         V!validate_header_value(v) = "Ok"}
MCFold == [b \in {"n", "N", "x"} |-> IF b = "N" THEN "n" ELSE b]
MCByteRank == ("n" :> 1) @@ ("x" :> 2)

\* Websocket frames: two ops in one frame, a frame that is not binary, an
\* empty binary frame, and a MSG and an HMSG each after another op.
MCFrameScripts == {
  << [bin |-> TRUE, ops |-> <<"ping", "ok">>], [bin |-> FALSE, ops |-> <<>>],
     [bin |-> TRUE, ops |-> <<"msg">>] >>,
  << [bin |-> TRUE, ops |-> <<"hmsg", "pong", "info">>] >>,
  << [bin |-> TRUE, ops |-> <<>>], [bin |-> TRUE, ops |-> <<"err", "hstatus">>] >> }

\* Payloads below, at and above the flattening threshold.
MCPayloads == {<<>>, <<"p">>, <<"p", "q">>}

\* Each kind of op after each other kind it can meet, plus malformed ones.
RefineScripts == {<<"ok", "err">>, <<"msg", "ping">>, <<"hmsg", "info">>,
                  <<"hstatus", "pong">>, <<"ok", "bad">>, <<"info", "hempty">>,
                  <<"pong", "msg", "hmsg">>, <<"ping", "hstatus", "err">>}

\* Ops that reset last_bytes_read (MSG/HMSG) and ops that do not.
MessageScripts == {<<"msg", "hmsg">>, <<"hstatus", "msg">>}
StallScripts == {<<"err", "ok">>}

\* A server that never ends its INFO line.
LongScripts == {<<"long">>}

\* A header line with nothing after the ':'.
EmptyValueScripts == {<<"hempty">>}

\* An -ERR whose message is a lone quote.
LoneQuoteScripts == {<<"errq">>}

\* All three malformed inputs.
MalformedScripts == LongScripts \cup EmptyValueScripts \cup LoneQuoteScripts

\* The stalling script and the three malformed inputs.
DefectScripts == StallScripts \cup MalformedScripts

LiveRefineScripts == RefineScripts \cup MessageScripts

-----------------------------------------------------------------------------
\* The initial state of a harness that does not run.
ReadIdle == D!Init /\ sent = CHOOSE s \in Scripts : TRUE
WriteIdle == W!Init /\ enc = 0
UtilIdle == ubuf = <<>> /\ hm = P!HM!New
EncodeIdle == E!Init /\ vectored = FALSE
WsReadIdle == WR!Init /\ frames = CHOOSE f \in FrameScripts : TRUE

MCInit ==
  /\ harness \in Harnesses
  /\ IF harness = "read" THEN D!Init ELSE ReadIdle
  /\ IF harness = "write" THEN W!Init ELSE WriteIdle
  /\ IF harness \in {"operators", "headers"} THEN P!Init ELSE UtilIdle
  /\ IF harness = "encode" THEN E!Init ELSE EncodeIdle
  /\ L!Init
  /\ B!Init
  /\ WS!Init
  /\ IF harness = "wsread" THEN WR!Init ELSE WsReadIdle

MCNext ==
  \/ harness = "read" /\ D!Next /\ UNCHANGED <<harness, wvars, pvars, evars, lvars, bvars, svars, frvars>>
  \/ harness = "write" /\ W!Next /\ UNCHANGED <<harness, rvars, pvars, evars, lvars, bvars, svars, frvars>>
  \/ harness \in {"operators", "headers"} /\ P!Next
       /\ UNCHANGED <<rvars, wvars, evars, lvars, bvars, svars, frvars>>
  \/ harness = "encode" /\ E!Next /\ UNCHANGED <<harness, rvars, wvars, pvars, lvars, bvars, svars, frvars>>
  \/ harness = "list" /\ L!Next /\ UNCHANGED <<harness, rvars, wvars, pvars, evars, bvars, svars, frvars>>
  \/ harness = "batch" /\ B!Next /\ UNCHANGED <<harness, rvars, wvars, pvars, evars, lvars, svars, frvars>>
  \/ harness = "ws" /\ WS!Next
       /\ UNCHANGED <<harness, rvars, enc, may_flush, buffered, pvars, evars, lvars, bvars, frvars>>
  \/ harness = "wsread" /\ WR!Next
       /\ UNCHANGED <<harness, rvars, wvars, pvars, evars, lvars, bvars, svars>>

MCSpec == MCInit /\ [][MCNext]_allvars

\* Each harness's fairness, as weak fairness of its actions taken in that
\* harness only: an action of another harness is never enabled, so its
\* condition holds trivially, and the conjunction stays free of the
\* disjunctions an implication would add to every liveness check.
In(h, A) == harness = h /\ A

MCFairSpec ==
  /\ MCSpec
  /\ harness = "read" => D!Fairness
  /\ WF_W!vars(In("write", W!PollStart)) /\ WF_W!vars(In("write", W!CommandLoop))
  /\ WF_W!vars(In("write", W!AfterLoop)) /\ WF_W!vars(In("write", W!Relieve))
  /\ WF_W!vars(In("write", W!Elapse))
  /\ WF_L!vars(In("list", L!PollBuffered)) /\ WF_L!vars(In("list", L!PollExhausted))
  /\ WF_L!vars(In("list", L!PollStartFetch)) /\ WF_L!vars(In("list", L!Respond))
  /\ WF_B!vars(In("batch", B!PollingReady)) /\ WF_B!vars(In("batch", B!PollingErr))
  /\ WF_B!vars(In("batch", B!BatchExhausted)) /\ WF_B!vars(In("batch", B!BatchReceive))
  /\ WF_B!vars(In("batch", B!BatchTimeout))
  /\ \A b \in B!Batches : /\ WF_B!vars(In("batch", B!ServerDeliver(b)))
                          /\ WF_B!vars(In("batch", B!ServerEnd(b)))
  /\ WF_WS!vars(In("ws", WS!PollStart)) /\ WF_WS!vars(In("ws", WS!CommandLoop))
  /\ WF_WS!vars(In("ws", WS!AfterLoop)) /\ WF_WS!vars(In("ws", WS!Relieve))
  /\ WF_WS!vars(In("ws", WS!Elapse)) /\ WF_WS!vars(In("ws", WS!PingFire))

\* The properties, for the cfgs (stated in Decoder, Flush, WebsocketFlush, MCProtoUtil,
\* Encoder, JetStreamList and JetStreamBatch), each in the harness that runs its component.
TypeOK == harness = "read" => D!TypeOK
FrameDecodesEachOp == harness = "read" => D!FrameDecodesEachOp
ImplementsOpStream == D!ImplementsOpStream
DeliversArrivedOps == harness = "read" => D!DeliversArrivedOps
ReadsOnlyWhenNeeded == harness = "read" => D!ReadsOnlyWhenNeeded
FlushTypeOK == harness = "write" => W!TypeOK
NoLostWakeup == harness = "write" => W!NoLostWakeup
FlushPendingJustified == harness = "write" => W!FlushPendingJustified
EveryOpDelivered == harness = "write" => W!EveryOpDelivered
ParseUintMatchesDecimal == harness = "operators" => P!ParseUintMatchesDecimal
SplitSpacesYieldsFields == harness = "operators" => P!SplitSpacesYieldsFields
LinesIterRoundTrips == harness = "operators" => P!LinesIterRoundTrips
SubjectValidationMatchesSpec == harness = "operators" => P!SubjectValidationMatchesSpec
SubLineFramed == harness = "operators" => P!SubLineFramed
ServerAddrRoundTrips == harness = "operators" => P!ServerAddrRoundTrips
LenCountsValues == harness = "headers" => P!LenCountsValues
HeadersRoundTrip == harness = "headers" => P!HeadersRoundTrip
ImplementsMultiMap == P!ImplementsMultiMap
WriteBufLenExact == harness = "encode" => E!WriteBufLenExact
ImplementsByteQueue == E!ImplementsByteQueue
AdvanceNeverPanics == harness = "encode" => E!AdvanceNeverPanics
EveryItemListed == harness = "list" => L!EveryItemListed
ListingEnds == harness = "list" => L!ListingEnds
NoMessageLost == harness = "batch" => B!NoMessageLost
EveryMessageConsumed == harness = "batch" => B!EveryMessageConsumed
WsEveryOpDelivered == harness = "ws" => WS!WsEveryOpDelivered
WsReadReturnsFramedOps == harness = "wsread" => WR!WsReadReturnsFramedOps
=============================================================================

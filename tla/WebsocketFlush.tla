--------------------------- MODULE WebsocketFlush ---------------------------
(***************************************************************************)
(* The write half of the client over a websocket: the command loop of      *)
(* Handler::poll (watermelon/src/handler.rs) for Connection::Websocket,     *)
(* with receive_command and the calls of WebsocketConnection               *)
(* (watermelon-net connection/websocket.rs): may_enqueue_more_ops,          *)
(* enqueue_write_op, should_flush and poll_flush.                          *)
(*                                                                         *)
(* The WebSocketStream is a Sink that buffers the frames start_send gives  *)
(* it.  Past its threshold (SinkCap units) poll_ready must push the buffer *)
(* out before it is Ready, which it cannot do while the kernel's send      *)
(* buffer is congested; poll_flush pushes the buffer out.  A Pending call  *)
(* registers the waker it was given: may_enqueue_more_ops gives a noop     *)
(* waker, poll_flush the task's.  Every op is one unit.  The ping timer    *)
(* (PING_INTERVAL) is polled at the start of every poll, so its waker is   *)
(* always registered; the poll after it fires enqueues a PING.             *)
(***************************************************************************)
EXTENDS Naturals

CONSTANTS
  MaxOps,     \* commands the client sends in a behaviour
  ChanCap,    \* capacity of the command channel (512)
  RecvBuf,    \* commands one poll_recv_many takes (RECV_BUF = 16)
  SinkCap,    \* units the WebSocketStream buffers before poll_ready flushes
  Delayed,    \* flush_interval is non-zero: a DelayedFlusher exists
  MaxStalls,  \* times the kernel send buffer fills up in a behaviour
  MaxPings    \* PINGs the ping timer enqueues in a behaviour

VARIABLES
  commands,     \* commands the client has sent
  chan,         \* commands waiting in the channel
  sbuf,         \* units the WebSocketStream holds
  scmds,        \* commands among them (the others are PINGs)
  delivered,    \* commands pushed out to the kernel
  congested,    \* the kernel send buffer is full
  should_flush, \* WebsocketConnection::should_flush
  flushing,     \* Handler::flushing
  delay,        \* the Sleep of the DelayedFlusher: "none", "armed", "elapsed"
  wakers,       \* the wakers registered with the channel, sink and timer
  woken,        \* a waker fired: the runtime will poll the task
  pingDue,      \* the ping timer fired: the next poll enqueues a PING
  hpc,          \* "idle", "loop" or "after"
  stalls,       \* times the kernel send buffer has filled up
  pings         \* PINGs enqueued

vars == <<commands, chan, sbuf, scmds, delivered, congested, should_flush,
          flushing, delay, wakers, woken, pingDue, hpc, stalls, pings>>

(***************************************************************************)
(* Sink::poll_ready with a noop waker, as may_enqueue_more_ops calls it:   *)
(* Ready below the threshold; at it, Ready after pushing the buffer out,   *)
(* or Pending while the kernel is congested (and nothing will wake us).    *)
(***************************************************************************)
PollReady(b, c) ==
  IF b < SinkCap THEN [ready |-> TRUE, sbuf |-> b, scmds |-> c, out |-> 0]
  ELSE IF ~congested THEN [ready |-> TRUE, sbuf |-> 0, scmds |-> 0, out |-> c]
  ELSE [ready |-> FALSE, sbuf |-> b, scmds |-> c, out |-> 0]

(***************************************************************************)
(* receive_command: while may_enqueue_more_ops, take up to RecvBuf         *)
(* commands and start_send a frame for each (enqueue_write_op, which sets  *)
(* should_flush); a Pending channel is NoMoreCommands and holds the        *)
(* waker, a sink that is not ready NoMoreSpace.                            *)
(***************************************************************************)
\* Mutant: enqueue_write_op does not set should_flush.
EnqueueNoFlag(b, c, k, kc, sf) == [sbuf |-> b + k, scmds |-> c + kc, should_flush |-> sf]

\* enqueue_write_op: the FramedEncoder frames the op, start_send buffers
\* the frame (the unwrap trusts the sink to accept it), should_flush is set.
Enqueue(b, c, k, kc, sf) == [sbuf |-> b + k, scmds |-> c + kc, should_flush |-> TRUE]

RECURSIVE receive_command(_, _, _, _, _)
receive_command(b, c, out, ch, sf) ==
  LET r == PollReady(b, c)
  IN IF ~r.ready
       THEN [sbuf |-> b, scmds |-> c, out |-> out, chan |-> ch,
             should_flush |-> sf, outcome |-> "NoMoreSpace"]
     ELSE IF ch = 0
       THEN [sbuf |-> r.sbuf, scmds |-> r.scmds, out |-> out + r.out, chan |-> 0,
             should_flush |-> sf, outcome |-> "NoMoreCommands"]
     ELSE LET k == IF ch < RecvBuf THEN ch ELSE RecvBuf
              e == Enqueue(r.sbuf, r.scmds, k, k, sf)
          IN receive_command(e.sbuf, e.scmds, out + r.out, ch - k, e.should_flush)

(***************************************************************************)
(* The flush_action table of poll for a connection that does not flush     *)
(* automatically when full: Start whenever should_flush, Stop otherwise.   *)
(***************************************************************************)
FlushAction(outcome, should) == IF should THEN "Start" ELSE "Stop"

\* Mutant: the table of a connection that flushes by itself when full.
FlushActionAuto(outcome, should) ==
  IF outcome = "NoMoreCommands" /\ should THEN "Start" ELSE "Stop"

\* A waker fires: the task is scheduled and the waker is used up.
Wake(w) == IF w \in wakers THEN /\ woken' = TRUE
                                /\ wakers' = wakers \ {w}
                           ELSE UNCHANGED <<woken, wakers>>

-----------------------------------------------------------------------------
Init ==
  /\ commands = 0 /\ chan = 0
  /\ sbuf = 0 /\ scmds = 0 /\ delivered = 0
  /\ congested = FALSE
  /\ should_flush = FALSE
  /\ flushing = FALSE
  /\ delay = "none"
  /\ wakers = {}
  /\ woken = TRUE
  /\ pingDue = FALSE
  /\ hpc = "idle"
  /\ stalls = 0 /\ pings = 0

\* Client::enqueue_command: a command enters the channel and wakes the task
\* if it waits on the channel.
Send ==
  /\ commands < MaxOps /\ chan < ChanCap
  /\ commands' = commands + 1
  /\ chan' = chan + 1
  /\ Wake("recv")
  /\ UNCHANGED <<sbuf, scmds, delivered, congested, should_flush, flushing,
                 delay, pingDue, hpc, stalls, pings>>

\* The runtime polls a woken task.  If the ping timer fired, Handler::ping
\* enqueues a PING (without asking the sink whether it is ready).
PollStart ==
  /\ hpc = "idle" /\ woken
  /\ woken' = FALSE
  /\ hpc' = "loop"
  /\ IF pingDue /\ pings < MaxPings
       THEN LET e == Enqueue(sbuf, scmds, 1, 0, should_flush)
            IN /\ sbuf' = e.sbuf /\ should_flush' = e.should_flush
               /\ pings' = pings + 1
       ELSE UNCHANGED <<sbuf, should_flush, pings>>
  /\ pingDue' = FALSE
  /\ UNCHANGED <<commands, chan, scmds, delivered, congested, flushing, delay,
                 wakers, stalls>>

(***************************************************************************)
(* One iteration of poll's command loop: receive_command, then the flush   *)
(* action from should_flush.  write_waker_registered is true for a         *)
(* websocket, so the loop always breaks after one iteration.               *)
(***************************************************************************)
CommandLoop ==
  /\ hpc = "loop"
  /\ LET r == receive_command(sbuf, scmds, 0, chan, should_flush)
         fa == FlushAction(r.outcome, r.should_flush)
     IN /\ chan' = r.chan
        /\ sbuf' = r.sbuf /\ scmds' = r.scmds
        /\ delivered' = delivered + r.out
        /\ should_flush' = r.should_flush
        /\ wakers' = wakers \cup (IF r.outcome = "NoMoreCommands" THEN {"recv"} ELSE {})
        /\ IF fa = "Start"
             THEN /\ flushing' = TRUE
                  /\ delay' = IF Delayed /\ delay = "none" THEN "armed" ELSE delay
             ELSE /\ flushing' = FALSE /\ UNCHANGED delay
  /\ hpc' = "after"
  /\ UNCHANGED <<commands, congested, woken, pingDue, stalls, pings>>

(***************************************************************************)
(* After the loop, if flushing: a running delay holds the flush back and   *)
(* its waker; an elapsed one is cleared.  Then poll_flush: Pending on a    *)
(* congested kernel (the sink holds the task's waker), otherwise Ready,    *)
(* which pushes the buffer out and clears flushing.  should_flush is left  *)
(* as it is: WebsocketConnection never clears it.                         *)
(***************************************************************************)
AfterLoop ==
  /\ hpc = "after"
  /\ hpc' = "idle"
  /\ IF ~flushing \/ delay = "armed"
       THEN /\ wakers' = IF flushing THEN wakers \cup {"delay"} ELSE wakers
            /\ UNCHANGED <<sbuf, scmds, delivered, flushing, delay>>
     ELSE /\ delay' = "none"
          /\ IF congested
               THEN /\ wakers' = wakers \cup {"flush"}
                    /\ UNCHANGED <<sbuf, scmds, delivered, flushing>>
               ELSE /\ delivered' = delivered + scmds
                    /\ sbuf' = 0 /\ scmds' = 0
                    /\ flushing' = FALSE
                    /\ UNCHANGED wakers
  /\ UNCHANGED <<commands, chan, congested, should_flush, woken, pingDue,
                 stalls, pings>>

\* The kernel send buffer fills up: the peer is slow to read.
Congest ==
  /\ ~congested /\ stalls < MaxStalls
  /\ congested' = TRUE
  /\ stalls' = stalls + 1
  /\ UNCHANGED <<commands, chan, sbuf, scmds, delivered, should_flush,
                 flushing, delay, wakers, woken, pingDue, hpc, pings>>

\* The kernel drains and wakes a flush that waits on it.
Relieve ==
  /\ congested
  /\ congested' = FALSE
  /\ Wake("flush")
  /\ UNCHANGED <<commands, chan, sbuf, scmds, delivered, should_flush,
                 flushing, delay, pingDue, hpc, stalls, pings>>

\* The flush_interval Sleep elapses and wakes the task if it was polled.
Elapse ==
  /\ delay = "armed"
  /\ delay' = "elapsed"
  /\ Wake("delay")
  /\ UNCHANGED <<commands, chan, sbuf, scmds, delivered, congested,
                 should_flush, flushing, pingDue, hpc, stalls, pings>>

\* The ping interval elapses; its waker is always registered.
PingFire ==
  /\ ~pingDue
  /\ pingDue' = TRUE /\ woken' = TRUE
  /\ UNCHANGED <<commands, chan, sbuf, scmds, delivered, congested,
                 should_flush, flushing, delay, wakers, hpc, stalls, pings>>

Next == Send \/ PollStart \/ CommandLoop \/ AfterLoop \/ Congest \/ Relieve
          \/ Elapse \/ PingFire

Spec == Init /\ [][Next]_vars

(***************************************************************************)
(* The runtime polls a woken task and a poll runs to its end; the kernel   *)
(* drains; the flush delay and the ping interval elapse.                   *)
(***************************************************************************)
Fairness ==
  /\ WF_vars(PollStart) /\ WF_vars(CommandLoop) /\ WF_vars(AfterLoop)
  /\ WF_vars(Relieve) /\ WF_vars(Elapse) /\ WF_vars(PingFire)

-----------------------------------------------------------------------------
(* Properties.                                                             *)

(***************************************************************************)
(* Every command the client sends over a websocket is eventually pushed    *)
(* out to the kernel: a frame left below the sink's threshold is pushed    *)
(* only by poll_flush, which runs because enqueue_write_op set             *)
(* should_flush.                                                           *)
(***************************************************************************)
WsEveryOpDelivered ==
  \A k \in 1..MaxOps : (commands >= k) ~> (delivered >= k)

(***************************************************************************)
(* No lost wake-up: when the task sleeps with commands in the channel or   *)
(* frames in the sink, a waker it registered other than the ping timer's   *)
(* is still to fire.  (Violated; README, Observed without a run.)          *)
(***************************************************************************)
WsNoLostWakeup ==
  (hpc = "idle" /\ ~woken /\ (chan > 0 \/ sbuf > 0))
    => \/ congested /\ "flush" \in wakers
       \/ delay = "armed" /\ "delay" \in wakers

=============================================================================

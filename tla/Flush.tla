------------------------------- MODULE Flush -------------------------------
(***************************************************************************)
(* The write half of the client: the command loop of Handler::poll         *)
(* (watermelon/src/handler.rs) with receive_command, the write and flush   *)
(* calls of StreamingConnection (watermelon-net connection/streaming.rs),   *)
(* the DelayedFlusher, and the wakers that bring the task back.            *)
(*                                                                         *)
(* Bytes are counted in ops: every command the client sends is one op of   *)
(* one unit.  The socket buffers up to SockCap units it accepted (TLS      *)
(* records, the zstd window); it pushes them out on poll_flush, or by      *)
(* itself once the buffer is full, unless the kernel's send buffer is      *)
(* congested, in which case both calls are Pending and register a waker.  *)
(* The task runs one loop iteration per step; the client, the socket and   *)
(* the timer act between steps and wake the task through the wakers it     *)
(* registered.  The read half and the ping timer also wake the task; they *)
(* are left out, so nothing here relies on them.                           *)
(***************************************************************************)
EXTENDS Naturals, FiniteSets

CONSTANTS
  MaxOps,            \* commands the client sends in a behaviour
  ChanCap,           \* capacity of the command channel (512)
  RecvBuf,           \* commands one poll_recv_many takes (RECV_BUF = 16)
  EnqueueLimit,      \* may_enqueue_more_ops: remaining() < 8_290_304
  SockCap,           \* units the socket buffers before it must push them out
  Delayed,           \* flush_interval is non-zero: a DelayedFlusher exists
  DebugAsserts,      \* debug_assert! is compiled in (a debug build)
  MaxStalls          \* times the kernel send buffer fills up in a behaviour

VARIABLES
  commands,    \* commands the client has sent
  chan,        \* commands waiting in the channel
  enc,         \* units the StreamEncoder holds (remaining())
  may_flush,   \* StreamingConnection::may_flush
  buffered,    \* units the socket accepted and has not pushed out
  delivered,   \* units the socket has pushed out
  congested,   \* the kernel send buffer is full
  flushing,    \* Handler::flushing
  delay,       \* the Sleep of the DelayedFlusher: "none", "armed", "elapsed"
  wakers,      \* the wakers registered with the channel, socket and timer
  woken,       \* a waker fired: the runtime will poll the task
  hpc,         \* "idle", "loop", "after", or the task's end
  stalls       \* times the kernel send buffer has filled up

vars == <<commands, chan, enc, may_flush, buffered, delivered, congested,
          flushing, delay, wakers, woken, hpc, stalls>>

\* flushes_automatically_when_full: true for a streaming connection.
AutoFlushWhenFull == TRUE

(***************************************************************************)
(* receive_command: while the encoder has room, take up to RecvBuf         *)
(* commands and enqueue their ops; a Pending channel ends it with          *)
(* NoMoreCommands (and the channel holds the waker), a full encoder with   *)
(* NoMoreSpace.                                                            *)
(***************************************************************************)
RECURSIVE receive_command(_, _)
receive_command(e, c) ==
  IF e >= EnqueueLimit THEN [enc |-> e, chan |-> c, outcome |-> "NoMoreSpace"]
  ELSE IF c = 0 THEN [enc |-> e, chan |-> 0, outcome |-> "NoMoreCommands"]
  ELSE LET k == IF c < RecvBuf THEN c ELSE RecvBuf
       IN receive_command(e + k, c - k)

\* The flush_action table of poll; "Assert" is the NoMoreSpace arm whose
\* debug_assert!(should_flush) fails.
FlushAction(outcome, auto, should_flush) ==
  CASE outcome = "NoMoreCommands" /\ should_flush -> "Start"
    [] outcome = "NoMoreSpace" /\ auto ->
         IF should_flush \/ ~DebugAsserts THEN "Stop" ELSE "Assert"
    [] outcome = "NoMoreSpace" /\ ~auto /\ should_flush -> "Start"
    [] OTHER -> "Stop"

\* Start sets flushing and arms the delay unless one is already set.
StartFlush ==
  /\ flushing' = TRUE
  /\ delay' = IF Delayed /\ delay = "none" THEN "armed" ELSE delay

\* A waker fires: the task is scheduled and the waker is used up.
Wake(w) == IF w \in wakers THEN /\ woken' = TRUE
                                /\ wakers' = wakers \ {w}
                           ELSE UNCHANGED <<woken, wakers>>

-----------------------------------------------------------------------------
Init ==
  /\ commands = 0 /\ chan = 0
  /\ enc \in 0..1            \* connect may have replayed a SUB
  /\ may_flush = FALSE
  /\ buffered = 0 /\ delivered = 0 /\ congested = FALSE
  /\ flushing = FALSE
  /\ delay = "none"
  /\ wakers = {}
  /\ woken = TRUE
  /\ hpc = "idle"
  /\ stalls = 0

\* Client::enqueue_command: a command enters the channel and wakes the task
\* if it waits on the channel.
Send ==
  /\ commands < MaxOps /\ chan < ChanCap
  /\ commands' = commands + 1
  /\ chan' = chan + 1
  /\ Wake("recv")
  /\ UNCHANGED <<enc, may_flush, buffered, delivered, congested, flushing,
                 delay, hpc, stalls>>

\* The runtime polls a woken task.
PollStart ==
  /\ hpc = "idle" /\ woken
  /\ woken' = FALSE
  /\ hpc' = "loop"
  /\ UNCHANGED <<commands, chan, enc, may_flush, buffered, delivered,
                 congested, flushing, delay, wakers, stalls>>

\* Mutant: the socket takes one unit more than the room it has left.
poll_write_nextOverfill(e) ==
  IF e = 0
    THEN {[wwr |-> TRUE, enc |-> 0, buffered |-> buffered,
           delivered |-> delivered, may_flush |-> may_flush, w |-> {}]}
  ELSE IF congested /\ buffered = SockCap
    THEN {[wwr |-> TRUE, enc |-> e, buffered |-> buffered,
           delivered |-> delivered, may_flush |-> FALSE, w |-> {"write"}]}
  ELSE LET b0 == IF buffered = SockCap THEN 0 ELSE buffered
           room == IF e < SockCap - b0 + 1 THEN e ELSE SockCap - b0 + 1
       IN {[wwr |-> FALSE, enc |-> e - n, buffered |-> b0 + n,
            delivered |-> delivered + buffered - b0, may_flush |-> TRUE,
            w |-> {}] : n \in 1..room}

(***************************************************************************)
(* poll_write_next, for an encoder holding e units, as the results it can *)
(* have: w is the waker it registers, wwr the handler's                    *)
(* write_waker_registered.  Nothing to write is Ready(Ok(0)) without a    *)
(* call (may_write is false, and poll takes the waker as registered).  A  *)
(* full socket buffer is pushed out before it accepts more; when the      *)
(* kernel is congested the write is Pending and clears may_flush.         *)
(* Otherwise the socket takes n units and may_flush is set.               *)
(***************************************************************************)
poll_write_next(e) ==
  IF e = 0
    THEN {[wwr |-> TRUE, enc |-> 0, buffered |-> buffered,
           delivered |-> delivered, may_flush |-> may_flush, w |-> {}]}
  ELSE IF congested /\ buffered = SockCap
    THEN {[wwr |-> TRUE, enc |-> e, buffered |-> buffered,
           delivered |-> delivered, may_flush |-> FALSE, w |-> {"write"}]}
  ELSE LET b0 == IF buffered = SockCap THEN 0 ELSE buffered
           room == IF e < SockCap - b0 THEN e ELSE SockCap - b0
       IN {[wwr |-> FALSE, enc |-> e - n, buffered |-> b0 + n,
            delivered |-> delivered + buffered - b0, may_flush |-> TRUE,
            w |-> {}] : n \in 1..room}

\* Mutant: the loop breaks after every iteration, even one whose write
\* made progress and registered no waker.
CommandLoopBreakEarly ==
  /\ hpc = "loop"
  /\ LET r == receive_command(enc, chan)
     IN \E wr \in poll_write_next(r.enc) :
          LET fa == FlushAction(r.outcome, AutoFlushWhenFull, wr.may_flush)
          IN /\ chan' = r.chan
             /\ enc' = wr.enc
             /\ buffered' = wr.buffered
             /\ delivered' = wr.delivered
             /\ may_flush' = wr.may_flush
             /\ wakers' = wakers \cup wr.w
                           \cup (IF r.outcome = "NoMoreCommands" THEN {"recv"} ELSE {})
             /\ CASE fa = "Start"  -> StartFlush
                  [] fa = "Stop"   -> flushing' = FALSE /\ UNCHANGED delay
                  [] fa = "Assert" -> UNCHANGED <<flushing, delay>>
             /\ hpc' = IF fa = "Assert" THEN "panicked" ELSE "after"
  /\ UNCHANGED <<commands, congested, woken, stalls>>

\* Mutant: (NoMoreCommands, true) continues instead of breaking, so the
\* loop never reaches the flush below it.
CommandLoopNoBreak ==
  /\ hpc = "loop"
  /\ LET r == receive_command(enc, chan)
     IN \E wr \in poll_write_next(r.enc) :
          LET fa == FlushAction(r.outcome, AutoFlushWhenFull, wr.may_flush)
          IN /\ chan' = r.chan
             /\ enc' = wr.enc
             /\ buffered' = wr.buffered
             /\ delivered' = wr.delivered
             /\ may_flush' = wr.may_flush
             /\ wakers' = wakers \cup wr.w
                           \cup (IF r.outcome = "NoMoreCommands" THEN {"recv"} ELSE {})
             /\ CASE fa = "Start"  -> StartFlush
                  [] fa = "Stop"   -> flushing' = FALSE /\ UNCHANGED delay
                  [] fa = "Assert" -> UNCHANGED <<flushing, delay>>
             /\ hpc' = CASE fa = "Assert" -> "panicked"
                         [] wr.wwr /\ r.outcome = "NoMoreSpace" -> "after"
                         [] OTHER         -> "loop"
  /\ UNCHANGED <<commands, congested, woken, stalls>>

(***************************************************************************)
(* One iteration of poll's command loop: receive_command, the write, the  *)
(* flush action, and break once the write waker is registered.            *)
(***************************************************************************)
CommandLoop ==
  /\ hpc = "loop"
  /\ LET r == receive_command(enc, chan)
     IN \E wr \in poll_write_next(r.enc) :
          LET fa == FlushAction(r.outcome, AutoFlushWhenFull, wr.may_flush)
          IN /\ chan' = r.chan
             /\ enc' = wr.enc
             /\ buffered' = wr.buffered
             /\ delivered' = wr.delivered
             /\ may_flush' = wr.may_flush
             /\ wakers' = wakers \cup wr.w
                           \cup (IF r.outcome = "NoMoreCommands" THEN {"recv"} ELSE {})
             /\ CASE fa = "Start"  -> StartFlush
                  [] fa = "Stop"   -> flushing' = FALSE /\ UNCHANGED delay
                  [] fa = "Assert" -> UNCHANGED <<flushing, delay>>
             /\ hpc' = CASE fa = "Assert" -> "panicked"
                         [] wr.wwr        -> "after"
                         [] OTHER         -> "loop"
  /\ UNCHANGED <<commands, congested, woken, stalls>>

\* Mutant: a completed flush leaves flushing set.
AfterLoopKeepFlushing ==
  /\ hpc = "after"
  /\ hpc' = "idle"
  /\ IF ~flushing \/ delay = "armed"
       THEN /\ wakers' = IF flushing THEN wakers \cup {"delay"} ELSE wakers
            /\ UNCHANGED <<may_flush, buffered, delivered, flushing, delay>>
     ELSE /\ delay' = "none"
          /\ IF congested
               THEN /\ wakers' = wakers \cup {"flush"}
                    /\ UNCHANGED <<may_flush, buffered, delivered, flushing>>
               ELSE /\ delivered' = delivered + buffered
                    /\ buffered' = 0
                    /\ may_flush' = FALSE
                    /\ UNCHANGED <<wakers, flushing>>
  /\ UNCHANGED <<commands, chan, enc, congested, woken, stalls>>

(***************************************************************************)
(* After the loop, if flushing: a delay that is still running keeps the   *)
(* flush back and holds the waker; an elapsed one is cleared.  Then       *)
(* poll_flush: Pending on a congested kernel (the socket holds the waker), *)
(* Ready(Ok) otherwise, which pushes out the buffer and clears may_flush  *)
(* and flushing.  poll then returns Pending (shutting_down is the Handler  *)
(* module's).                                                             *)
(***************************************************************************)
AfterLoop ==
  /\ hpc = "after"
  /\ hpc' = "idle"
  /\ IF ~flushing \/ delay = "armed"
       THEN /\ wakers' = IF flushing THEN wakers \cup {"delay"} ELSE wakers
            /\ UNCHANGED <<may_flush, buffered, delivered, flushing, delay>>
     ELSE /\ delay' = "none"
          /\ IF congested
               THEN /\ wakers' = wakers \cup {"flush"}
                    /\ UNCHANGED <<may_flush, buffered, delivered, flushing>>
               ELSE /\ delivered' = delivered + buffered
                    /\ buffered' = 0
                    /\ may_flush' = FALSE
                    /\ flushing' = FALSE
                    /\ UNCHANGED wakers
  /\ UNCHANGED <<commands, chan, enc, congested, woken, stalls>>

\* The kernel send buffer fills up: the peer is slow to read.
Congest ==
  /\ ~congested /\ stalls < MaxStalls
  /\ congested' = TRUE
  /\ stalls' = stalls + 1
  /\ UNCHANGED <<commands, chan, enc, may_flush, buffered, delivered,
                 flushing, delay, wakers, woken, hpc>>

\* The kernel drains: the socket wakes the write and the flush waiting on it.
Relieve ==
  /\ congested
  /\ congested' = FALSE
  /\ woken' = (woken \/ wakers \cap {"write", "flush"} # {})
  /\ wakers' = wakers \ {"write", "flush"}
  /\ UNCHANGED <<commands, chan, enc, may_flush, buffered, delivered,
                 flushing, delay, hpc, stalls>>

\* The flush_interval Sleep elapses and wakes the task if it was polled.
Elapse ==
  /\ delay = "armed"
  /\ delay' = "elapsed"
  /\ Wake("delay")
  /\ UNCHANGED <<commands, chan, enc, may_flush, buffered, delivered,
                 congested, flushing, hpc, stalls>>

\* The task waits for a waker; a panicked task has ended.
Waiting ==
  /\ \/ hpc = "idle" /\ ~woken
     \/ hpc = "panicked"
  /\ UNCHANGED vars

Next == Send \/ PollStart \/ CommandLoop \/ AfterLoop \/ Congest \/ Relieve
          \/ Elapse \/ Waiting

Spec == Init /\ [][Next]_vars

(***************************************************************************)
(* The runtime polls a woken task and a poll runs to its end; the peer    *)
(* reads, so the kernel drains; the timer fires.  The client is not       *)
(* required to send, nor the kernel to fill up.                           *)
(***************************************************************************)
Fairness ==
  /\ WF_vars(PollStart) /\ WF_vars(CommandLoop) /\ WF_vars(AfterLoop)
  /\ WF_vars(Relieve) /\ WF_vars(Elapse)

FairSpec == Spec /\ Fairness

-----------------------------------------------------------------------------
(* Properties.                                                             *)

TypeOK ==
  /\ commands \in 0..MaxOps /\ chan \in 0..ChanCap
  /\ enc \in Nat /\ buffered \in 0..SockCap /\ delivered \in Nat
  /\ {may_flush, congested, flushing, woken} \subseteq BOOLEAN
  /\ delay \in {"none", "armed", "elapsed"}
  /\ wakers \subseteq {"recv", "write", "flush", "delay"}
  /\ hpc \in {"idle", "loop", "after", "panicked"}
  /\ stalls \in 0..MaxStalls

(***************************************************************************)
(* No lost wake-up: when the task sleeps with work left (commands in the  *)
(* channel, ops in the encoder, or bytes the socket has not pushed out),  *)
(* a waker it registered is still to fire: the socket's, while the kernel *)
(* is congested, or the delay's, while it runs.  Otherwise the handler    *)
(* would wait for the read half or the ping timer to send the client's    *)
(* ops.                                                                   *)
(***************************************************************************)
NoLostWakeup ==
  (hpc = "idle" /\ ~woken /\ (chan > 0 \/ enc > 0 \/ buffered > 0))
    => \/ congested /\ wakers \cap {"write", "flush"} # {}
       \/ delay = "armed" /\ "delay" \in wakers

(***************************************************************************)
(* spec.md's invariant flush_pending => write_buffer_nonempty \/          *)
(* last_write_happened_since_last_flush: while the handler is between      *)
(* polls and flushing is set, the encoder or the socket holds bytes.      *)
(***************************************************************************)
FlushPendingJustified ==
  (hpc = "idle" /\ flushing) => (enc > 0 \/ buffered > 0)

(***************************************************************************)
(* Every op the client sends is eventually pushed out by the socket, with *)
(* no help from the read half or the ping timer, unless the task panicked. *)
(***************************************************************************)
EveryOpDelivered ==
  \A k \in 1..MaxOps :
     (commands >= k) ~> (delivered >= k \/ hpc = "panicked")

=============================================================================

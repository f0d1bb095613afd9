------------------------------- MODULE Connect -------------------------------
(***************************************************************************)
(* Establishing one connection: watermelon-net's connect_tcp (Happy        *)
(* Eyeballs over the resolved addresses) and watermelon-mini's connect     *)
(* handshake (TLS upgrade, INFO, auth, CONNECT, PING/PONG), which          *)
(* Handler::connect runs on every connect and reconnect.                   *)
(*                                                                         *)
(* HappyEyeballs::poll_next runs in the connecting task; the connect       *)
(* attempts, the 250 ms delay and the server run beside it.  Each loop     *)
(* iteration of poll_next is one step, so attempts may complete and the    *)
(* delay may elapse between them, as they do in a real poll.  A wake       *)
(* reaches the task only through a registered waker: every attempt in      *)
(* `connecting` has been polled, the delay only once poll_next polls it.   *)
(***************************************************************************)
EXTENDS Integers, Sequences, SequencesExt, FiniteSets

CONSTANTS
  Addrs,        \* the socket addresses DNS can return
  Family,       \* [Addrs -> {"v4", "v6"}]: SocketAddr::V4 or ::V6
  Resolutions,  \* the address lists lookup_host may return
  Addrs0,       \* the ServerAddrs the client may be given
  AuthArgs,     \* the caller's AuthenticationMethod: None, "UserAndPassword", "Creds"
  MaxLoopReads, \* server ops proto_connect reads before the PONG
  None          \* a model value: Option::None

VARIABLES
  addr, auth, flagZstd,            \* connect's arguments
  resolved,                        \* what lookup_host returned
  dnsDone, dns_received, connecting, outcome, last_attempted,
  delay, delayPolled, deadEnd, lastErr, attempted,
  notified,                        \* a wake arrived while the task ran
  tcp,                             \* the TcpStream connect_tcp returned
  pc, sock, conn, info, zstd, compressed, wrote, loopReads, cerr

heVars == <<resolved, dnsDone, dns_received, connecting, outcome,
            last_attempted, delay, delayPolled, deadEnd, lastErr, attempted>>
hsVars == <<tcp, sock, conn, info, zstd, compressed, wrote, loopReads, cerr>>
vars == <<addr, auth, flagZstd, heVars, notified, pc, hsVars>>

-----------------------------------------------------------------------------
(* Happy Eyeballs.                                                         *)

\* LastAttempted::from_addr and ::opposite.
from_addr(a) == Family[a]
opposite(k) == IF k = "v4" THEN "v6" ELSE "v4"

\* Mutant: IPv4 is tried first.
next_kind_v4_first(last) == IF last = None THEN "v4" ELSE opposite(last)

\* The family next_dns_record looks for: IPv6 first, then alternating.
next_kind(last) == IF last = None THEN "v6" ELSE opposite(last)

\* next_dns_record: the first queued address of next_kind, else the head;
\* returns <<record, rest of the queue, new last_attempted>>.
next_dns_record(q, last) ==
  LET k == next_kind(last)
      is == {i \in 1..Len(q) : from_addr(q[i]) = k}
  IN IF is # {} THEN LET i == Min(is) IN <<q[i], RemoveAt(q, i), k>>
     ELSE <<Head(q), Tail(q), from_addr(Head(q))>>

\* connect(): Host::Ip connects directly; Host::Dns resolves first.
ConnectIp ==
  /\ pc = "resolve" /\ addr.host = "Ip"
  /\ \E ok \in BOOLEAN :
       IF ok THEN pc' = "nodelay" /\ tcp' = "ip" /\ UNCHANGED cerr
       ELSE pc' = "failed" /\ cerr' = "Io" /\ UNCHANGED tcp
  /\ UNCHANGED <<addr, auth, flagZstd, heVars, notified, sock, conn, info,
                 zstd, wrote, loopReads, compressed>>

\* net::lookup_host(..).await?: it fails, or yields the address list.
LookupHost ==
  /\ pc = "resolve" /\ addr.host = "Dns"
  /\ \/ pc' = "poll" /\ UNCHANGED cerr
     \/ pc' = "failed" /\ cerr' = "Io"
  /\ UNCHANGED <<addr, auth, flagZstd, heVars, notified, sock, conn, info,
                 zstd, wrote,
                 loopReads, compressed, tcp>>

\* poll_next, up to the connecting loop: a stream::iter DNS stream yields
\* every record and ends in the first poll, and is None afterwards.
PollStart ==
  /\ pc = "poll"
  /\ IF dnsDone THEN deadEnd' = TRUE /\ UNCHANGED dns_received
     ELSE /\ dns_received' = dns_received \o resolved
          /\ deadEnd' = (resolved = <<>>)
  /\ dnsDone' = TRUE
  /\ pc' = "loop"
  /\ UNCHANGED <<addr, auth, flagZstd, resolved, connecting, outcome,
                 last_attempted, delay, delayPolled, lastErr, attempted,
                 notified, hsVars>>

\* A wake from a registered waker: a waiting task is scheduled to poll
\* again; a wake while it runs makes it poll again once it returns Pending.
Wake == IF pc = "waiting" THEN pc' = "poll" /\ UNCHANGED notified
        ELSE notified' = TRUE /\ UNCHANGED pc

\* Mutant: make_new_attempt reads the delay without polling it.
poll_delay_unregistered(pending) == delayPolled

\* Polling next_attempt_delay registers the task's waker with the timer.
poll_delay(pending) == delayPolled \/ pending

\* Mutant: a pending attempt does not clear dead_end.
DeadEndIgnoringPending(c) == deadEnd

\* dead_end after polling the connecting stream c: Pending clears it.
DeadEnd(c) == deadEnd /\ c = {}

\* The connecting stream yields attempt a; connect() returns on Ok, which
\* drops the HappyEyeballs and its other attempts, and records the error
\* and polls again on Err.
AttemptYielded(a) ==
  IF outcome[a] = "ok"
  THEN /\ connecting' = {} /\ delay' = "none"
       /\ outcome' = [b \in Addrs |-> IF b \in connecting \ {a} THEN "cancelled"
                                      ELSE outcome[b]]
       /\ pc' = "nodelay" /\ tcp' = a
       /\ UNCHANGED <<lastErr, cerr>>
  ELSE /\ connecting' = connecting \ {a}
       /\ lastErr' = TRUE
       /\ pc' = "poll"
       /\ UNCHANGED <<outcome, delay, cerr, tcp>>

\* One iteration of poll_next's connecting loop.
PollLoop ==
  /\ pc = "loop"
  /\ LET ready == {a \in connecting : outcome[a] \in {"ok", "err"}}
         pending == connecting # {} /\ delay = "pending"
         dead == DeadEnd(connecting)
         make == ~pending
     IN IF ready # {}
        THEN /\ \E a \in ready : AttemptYielded(a)
             /\ UNCHANGED <<dns_received, last_attempted, delayPolled, deadEnd,
                            attempted, notified>>
        ELSE /\ deadEnd' = dead
             /\ IF make /\ dns_received # <<>>
                THEN LET n == next_dns_record(dns_received, last_attempted)
                     IN /\ connecting' = connecting \cup {n[1]}
                        /\ outcome' = [outcome EXCEPT ![n[1]] = "pending"]
                        /\ attempted' = Append(attempted, n[1])
                        /\ dns_received' = n[2]
                        /\ last_attempted' = n[3]
                        /\ delay' = "pending"
                        /\ delayPolled' = FALSE
                        /\ UNCHANGED <<pc, notified, lastErr, cerr, tcp>>
                ELSE /\ delay' = IF connecting # {} /\ delay = "elapsed"
                                 THEN "none" ELSE delay
                     /\ delayPolled' = poll_delay(pending)
                     /\ CASE dead -> /\ pc' = "failed"
                                     /\ cerr' = IF lastErr THEN "Io" ELSE "NoAddress"
                                     /\ UNCHANGED notified
                          [] notified -> pc' = "poll" /\ notified' = FALSE
                                         /\ UNCHANGED cerr
                          [] OTHER -> pc' = "waiting" /\ UNCHANGED <<notified, cerr>>
                     /\ UNCHANGED <<connecting, outcome, attempted, dns_received,
                                    last_attempted, lastErr, tcp>>
  /\ UNCHANGED <<addr, auth, flagZstd, resolved, dnsDone, sock, conn, info,
                 zstd, wrote, loopReads, compressed>>

\* A connect attempt completes: TcpStream::connect returns Ok or Err.
AttemptCompletes(a) ==
  /\ a \in connecting /\ outcome[a] = "pending"
  /\ \E r \in {"ok", "err"} : outcome' = [outcome EXCEPT ![a] = r]
  /\ Wake
  /\ UNCHANGED <<addr, auth, flagZstd, resolved, dnsDone, dns_received,
                 connecting, last_attempted, delay, delayPolled, deadEnd,
                 lastErr, attempted, hsVars>>

\* CONN_ATTEMPT_DELAY elapses; it wakes the task only if it was polled.
DelayElapses ==
  /\ pc \in {"poll", "loop", "waiting"}
  /\ delay = "pending"
  /\ delay' = "elapsed"
  /\ IF delayPolled THEN Wake ELSE UNCHANGED <<pc, notified>>
  /\ UNCHANGED <<addr, auth, flagZstd, resolved, dnsDone, dns_received,
                 connecting, outcome, last_attempted, delayPolled, deadEnd,
                 lastErr, attempted, hsVars>>

-----------------------------------------------------------------------------
(* The handshake: connector::connect and proto_connect.  Every await may   *)
(* fail with an io error, which connect returns.                           *)

Fail(e) == pc' = "failed" /\ cerr' = e

\* rustls_server_name_from_addr then ConnectionSecurity::upgrade_tls.
UpgradeTls(to) ==
  \/ pc' = to /\ sock' = "tls" /\ UNCHANGED cerr
  \/ Fail("Io") /\ UNCHANGED sock
  \/ addr.host = "Dns" /\ Fail("InvalidDnsName") /\ UNCHANGED sock

\* set_nodelay, then the TLS upgrade when the scheme is tls.
SetNodelay ==
  /\ pc = "nodelay"
  /\ \/ IF addr.protocol = "TLS" THEN UpgradeTls("wrap")
        ELSE pc' = "wrap" /\ UNCHANGED <<sock, cerr>>
     \/ Fail("Io") /\ UNCHANGED sock
  /\ UNCHANGED <<addr, auth, flagZstd, heVars, notified, conn, info, zstd,
                 wrote, loopReads, compressed, tcp>>

\* Connection::Streaming, or the websocket handshake over the socket.
WrapConnection ==
  /\ pc = "wrap"
  /\ IF addr.transport = "TCP"
     THEN conn' = "Streaming" /\ pc' = "info" /\ UNCHANGED cerr
     ELSE \/ conn' = "Websocket" /\ pc' = "info" /\ UNCHANGED cerr
          \/ Fail("Io") /\ UNCHANGED conn
  /\ UNCHANGED <<addr, auth, flagZstd, heVars, notified, sock, info, zstd,
                 wrote, loopReads, compressed, tcp>>

\* A read_next error the code matches: io and decoder errors are returned;
\* a websocket IncompleteFrame or Closed reaches todo!(), a panic.
ReadFailed ==
  \/ Fail("Io")
  \/ Fail("Decoder")
  \/ conn = "Websocket" /\ pc' = "panicked" /\ cerr' = "todo"

\* The first server op must be INFO.
ServerInfos == [tls_required : BOOLEAN, nonce : BOOLEAN, zstd : BOOLEAN]
ReadInfo ==
  /\ pc = "info"
  /\ \/ \E i \in ServerInfos : info' = i /\ pc' = "upgrade" /\ UNCHANGED cerr
     \/ Fail("UnexpectedServerOp") /\ UNCHANGED info
     \/ ReadFailed /\ UNCHANGED info
  /\ UNCHANGED <<addr, auth, flagZstd, heVars, notified, sock, conn, zstd,
                 wrote, loopReads, compressed, tcp>>

\* A possibly-plain streaming connection to a server with tls_required
\* is upgraded in place; a websocket connection is left as it is.
UpgradePossiblyPlain ==
  /\ pc = "upgrade"
  /\ IF conn = "Streaming" /\ addr.protocol = "PossiblyPlain" /\ info.tls_required
     THEN UpgradeTls("auth")
     ELSE pc' = "auth" /\ UNCHANGED <<sock, cerr>>
  /\ UNCHANGED <<addr, auth, flagZstd, heVars, notified, conn, info, zstd,
                 wrote, loopReads, compressed, tcp>>

\* AuthenticationMethod::try_from_addr: both a username and a password.
try_from_addr(a) == IF a.creds THEN "UserAndPassword" ELSE None

\* prepare_for_auth succeeds unless Creds finds no nonce to sign.
prepare_for_auth(method, i) == ~(method = "Creds" /\ ~i.nonce)

\* The caller's method, else the one the address carries.
AuthMethod == IF auth # None THEN auth ELSE try_from_addr(addr)

\* The Connect options: the non-standard zstd flag, then the auth fields.
PrepareConnect ==
  /\ pc = "auth"
  /\ IF ~prepare_for_auth(AuthMethod, info)
     THEN Fail("Authentication") /\ UNCHANGED zstd
     ELSE /\ zstd' = (conn = "Streaming" /\ flagZstd /\ info.zstd)
          /\ pc' = "connect" /\ UNCHANGED cerr
  /\ UNCHANGED <<addr, auth, flagZstd, heVars, notified, sock, conn, info,
                 wrote, loopReads, compressed, tcp>>

\* An op as the connection encodes it: through TLS or not, zstd or not.
Written(op) == [op |-> op, tls |-> sock = "tls", zstd |-> compressed]

\* Mutant: after_connect wraps the socket in zstd before CONNECT is flushed.
WriteConnectCompressedFirst ==
  /\ pc = "connect"
  /\ \/ /\ wrote' = Append(wrote, [Written("CONNECT") EXCEPT !.zstd = zstd])
        /\ compressed' = zstd
        /\ pc' = "ping" /\ UNCHANGED cerr
     \/ Fail("Io") /\ UNCHANGED <<wrote, compressed>>
  /\ UNCHANGED <<addr, auth, flagZstd, heVars, notified, tcp, sock, conn, info,
                 zstd, loopReads>>

\* proto_connect: CONNECT is enqueued and flushed, then after_connect
\* wraps a streaming socket in zstd if it was negotiated.
WriteConnect ==
  /\ pc = "connect"
  /\ \/ /\ wrote' = Append(wrote, Written("CONNECT"))
        /\ compressed' = zstd
        /\ pc' = "ping" /\ UNCHANGED cerr
     \/ Fail("Io") /\ UNCHANGED <<wrote, compressed>>
  /\ UNCHANGED <<addr, auth, flagZstd, heVars, notified, tcp, sock, conn, info,
                 zstd, loopReads>>

\* PING is enqueued and flushed.
WritePing ==
  /\ pc = "ping"
  /\ \/ wrote' = Append(wrote, Written("PING")) /\ pc' = "read" /\ UNCHANGED cerr
     \/ Fail("Io") /\ UNCHANGED wrote
  /\ UNCHANGED <<addr, auth, flagZstd, heVars, notified, tcp, sock, conn, info,
                 zstd, compressed, loopReads>>

\* proto_connect's read loop: +OK is skipped, PING gets a PONG enqueued,
\* PONG ends the handshake, anything else fails it.
ReadLoop ==
  /\ pc = "read"
  /\ \/ /\ loopReads < MaxLoopReads
        /\ loopReads' = loopReads + 1
        /\ \/ UNCHANGED wrote                            \* +OK
           \/ wrote' = Append(wrote, Written("PONG"))    \* PING
        /\ UNCHANGED <<pc, cerr>>
     \/ pc' = "connected" /\ UNCHANGED <<wrote, loopReads, cerr>>
     \/ Fail("ServerError") /\ UNCHANGED <<wrote, loopReads>>
     \/ Fail("UnexpectedOp") /\ UNCHANGED <<wrote, loopReads>>
     \/ ReadFailed /\ UNCHANGED <<wrote, loopReads>>
  /\ UNCHANGED <<addr, auth, flagZstd, heVars, notified, tcp, sock, conn, info,
                 zstd, compressed>>

\* connect has returned: Ok to Handler::connect, an error, or a panic.
Finished ==
  /\ pc \in {"connected", "failed", "panicked"}
  /\ UNCHANGED vars

-----------------------------------------------------------------------------
Init ==
  /\ addr \in Addrs0
  /\ auth \in AuthArgs
  /\ flagZstd \in BOOLEAN
  /\ resolved \in IF addr.host = "Dns" THEN Resolutions ELSE {<<>>}
  /\ dnsDone = FALSE /\ dns_received = <<>> /\ connecting = {}
  /\ outcome = [a \in Addrs |-> "idle"]
  /\ last_attempted = None /\ delay = "none" /\ delayPolled = FALSE
  /\ deadEnd = FALSE /\ lastErr = FALSE /\ attempted = <<>>
  /\ notified = FALSE
  /\ pc = "resolve"
  /\ tcp = None /\ sock = "plain" /\ conn = None /\ info = None
  /\ zstd = FALSE /\ compressed = FALSE /\ wrote = <<>> /\ loopReads = 0
  /\ cerr = None

Next ==
  \/ ConnectIp \/ LookupHost \/ PollStart \/ PollLoop
  \/ \E a \in Addrs : AttemptCompletes(a)
  \/ DelayElapses
  \/ SetNodelay \/ WrapConnection \/ ReadInfo \/ UpgradePossiblyPlain
  \/ PrepareConnect \/ WriteConnect \/ WritePing \/ ReadLoop
  \/ Finished

Spec == Init /\ [][Next]_vars

\* The task is polled whenever it is woken, and a tokio sleep that was
\* polled fires.  A connect attempt may hang (nothing bounds it but the
\* OS), and the server need not answer.
FairSpec == Spec /\ WF_vars(PollStart) /\ WF_vars(PollLoop) /\ WF_vars(DelayElapses)

-----------------------------------------------------------------------------
(* Properties.                                                             *)

HeStates == {"poll", "loop", "waiting"}

\* RFC 8305 section 4 as spec.md states it: IPv6 first, then alternating
\* families, each family in resolver order, the rest once one runs out.
RECURSIVE Alternate(_, _)
Alternate(s, t) == IF s = <<>> THEN t ELSE <<Head(s)>> \o Alternate(t, Tail(s))
Rfc8305Order(s) == Alternate(SelectSeq(s, LAMBDA a : Family[a] = "v6"),
                             SelectSeq(s, LAMBDA a : Family[a] = "v4"))

(***************************************************************************)
(* next_dns_record, over the successive attempts of one connect, tries the *)
(* resolved addresses in RFC 8305 order.                                  *)
(***************************************************************************)
AttemptsInterleaved == IsPrefix(attempted, Rfc8305Order(resolved))

(***************************************************************************)
(* connect_tcp returns a stream only from an attempt that connected, and  *)
(* an error for a resolved host only once every address was attempted and *)
(* failed: poll_next's Ready(None) must wait for every attempt in flight. *)
(* The error is NoAddress exactly when nothing was resolved.              *)
(***************************************************************************)
ConnectTcpResult ==
  /\ tcp \in Addrs => outcome[tcp] = "ok"
  /\ (pc = "failed" /\ tcp = None /\ dnsDone) =>
        /\ \A i \in 1..Len(resolved) : outcome[resolved[i]] = "err"
        /\ (cerr = "NoAddress") = (resolved = <<>>)

(***************************************************************************)
(* While attempts hang, the next resolved address is still attempted once *)
(* the 250 ms delay elapses: the delay must have registered the task's    *)
(* waker, or the dial waits on the hung attempt.                          *)
(***************************************************************************)
TriesEveryAddress ==
  \A k \in 0..(Cardinality(Addrs) - 1) :
     (pc \in HeStates /\ Len(attempted) = k /\ k < Len(resolved))
        ~> (Len(attempted) > k \/ pc \notin HeStates)

(***************************************************************************)
(* The ops of the handshake cross the layers spec.md negotiates: TLS when  *)
(* the scheme is tls or a streaming server requires it, from CONNECT on;   *)
(* CONNECT itself uncompressed, and every later op through zstd exactly    *)
(* when the caller opted in, the server offers it and the connection is    *)
(* streaming.                                                              *)
(***************************************************************************)
WireAsNegotiated ==
  \A i \in 1..Len(wrote) :
     /\ wrote[i].tls = (addr.protocol = "TLS"
                         \/ (conn = "Streaming" /\ info.tls_required))
     /\ wrote[i].zstd = (i > 1 /\ conn = "Streaming" /\ flagZstd /\ info.zstd)
=============================================================================

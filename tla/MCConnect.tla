----------------------------- MODULE MCConnect -----------------------------
(***************************************************************************)
(* Connect (Happy Eyeballs and the handshake) over the addresses, resolver *)
(* answers and server addresses below.                                    *)
(***************************************************************************)
CONSTANTS Addrs, Family, Resolutions, Addrs0, AuthArgs, MaxLoopReads, None

VARIABLES addr, auth, flagZstd, resolved, dnsDone, dns_received, connecting,
          outcome, last_attempted, delay, delayPolled, deadEnd, lastErr,
          attempted, notified, tcp, pc, sock, conn, info, zstd, compressed,
          wrote, loopReads, cerr

K == INSTANCE Connect

\* Two IPv4 addresses and one IPv6 address.
MCAddrs == {"v4a", "v4b", "v6a"}
MCFamily == [a \in MCAddrs |-> IF a = "v6a" THEN "v6" ELSE "v4"]

\* IPv4 first, IPv6 in the middle, and a name that resolves to nothing.
MCResolutions == {<<"v4a", "v4b", "v6a">>, <<"v4a", "v6a", "v4b">>, <<>>}

\* Every scheme (nats, tls, ws, wss), IP and DNS hosts, with and without
\* user:password in the URL.
MCAddrs0 == [protocol : {"PossiblyPlain", "TLS"}, transport : {"TCP", "Websocket"},
             host : {"Ip", "Dns"}, creds : BOOLEAN]

-----------------------------------------------------------------------------
MCSpec == K!Spec

MCFairSpec == K!FairSpec

\* The properties, for the cfgs (stated in Connect).
AttemptsInterleaved == K!AttemptsInterleaved
ConnectTcpResult == K!ConnectTcpResult
WireAsNegotiated == K!WireAsNegotiated
TriesEveryAddress == K!TriesEveryAddress
=============================================================================

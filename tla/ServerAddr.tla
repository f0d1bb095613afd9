----------------------------- MODULE ServerAddr -----------------------------
(***************************************************************************)
(* ServerAddr (watermelon-proto/src/server_addr.rs): FromStr, which reads  *)
(* the components the url crate parses out of the string, and Display,    *)
(* which writes the address back as a URL.                                 *)
(*                                                                         *)
(* A URL is a sequence of tokens: the scheme ("nats", "tls", ...), "://",  *)
(* the userinfo and the port as single characters, and the host as one    *)
(* token ("127.0.0.1", "[::1]" or a DNS name).  Bytes of a username or     *)
(* password are numbers; Ord gives the code of each character used.        *)
(***************************************************************************)
EXTENDS Naturals, Sequences, SequencesExt

\* The characters userinfo and ports are written with, and their codes.
Ord == ("a" :> 97) @@ ("A" :> 65) @@ ("0" :> 48) @@ ("2" :> 50) @@ ("3" :> 51)
       @@ ("4" :> 52) @@ ("5" :> 53) @@ ("6" :> 54) @@ ("8" :> 56)
       @@ ("1" :> 49) @@ ("7" :> 55) @@ ("9" :> 57)
       @@ (":" :> 58) @@ ("@" :> 64) @@ ("%" :> 37)
Chr(b) == CHOOSE c \in DOMAIN Ord : Ord[c] = b

HexDigits == <<"0", "1", "2", "3", "4", "5", "6", "7", "8", "9",
               "A", "B", "C", "D", "E", "F">>
IsHex(c) == c \in DOMAIN Ord /\ (Ord[c] \in 48..57 \/ Ord[c] \in 65..70 \/ Ord[c] \in 97..102)
HexVal(c) == IF Ord[c] <= 57 THEN Ord[c] - 48
             ELSE IF Ord[c] <= 70 THEN Ord[c] - 55 ELSE Ord[c] - 87

\* percent_encoding::percent_decode_str: "%" and two hex digits is a byte;
\* any other "%" stands for itself.
RECURSIVE PercentDecode(_)
PercentDecode(s) ==
  IF s = <<>> THEN <<>>
  ELSE IF s[1] = "%" /\ Len(s) >= 3 /\ IsHex(s[2]) /\ IsHex(s[3])
       THEN <<16 * HexVal(s[2]) + HexVal(s[3])>> \o PercentDecode(SubSeq(s, 4, Len(s)))
       ELSE <<Ord[s[1]]>> \o PercentDecode(Tail(s))

\* str::from_utf8 (decode_utf8): a lead byte and its continuation bytes.
RECURSIVE Utf8Valid(_)
Utf8Valid(s) ==
  IF s = <<>> THEN TRUE
  ELSE LET n == IF s[1] < 128 THEN 1 ELSE IF s[1] \in 194..223 THEN 2
                ELSE IF s[1] \in 224..239 THEN 3 ELSE IF s[1] \in 240..244 THEN 4 ELSE 0
       IN /\ n # 0 /\ Len(s) >= n
          /\ \A i \in 2..n : s[i] \in 128..191
          /\ Utf8Valid(SubSeq(s, n + 1, Len(s)))

\* percent_encode(_, NON_ALPHANUMERIC): every byte but [0-9A-Za-z] as %XX.
IsAlnum(b) == b \in 48..57 \cup 65..90 \cup 97..122
PercentEncode(bytes) ==
  FlattenSeq([i \in 1..Len(bytes) |->
    IF IsAlnum(bytes[i]) THEN <<Chr(bytes[i])>>
    ELSE <<"%", HexDigits[bytes[i] \div 16 + 1], HexDigits[(bytes[i] % 16) + 1]>>])

\* The decimal digits of n, and back.
RECURSIVE DecimalDigits(_)
DecimalDigits(n) == IF n < 10 THEN <<Chr(48 + n)>>
                    ELSE DecimalDigits(n \div 10) \o <<Chr(48 + (n % 10))>>
DecimalValue(s) == FoldLeft(LAMBDA acc, c : 10 * acc + Ord[c] - 48, 0, s)

-----------------------------------------------------------------------------
(* The url crate (WHATWG URL parsing), for the URLs above.  Schemes ws    *)
(* and wss are "special" (their default ports 80 and 443 are dropped);     *)
(* nats and tls are not, and their hosts are opaque.                       *)

SpecialDefault == ("ws" :> 80) @@ ("wss" :> 443) @@ ("http" :> 80)

\* The userinfo before the last "@": an earlier "@" becomes %40, the first
\* ":" splits username from password, and a later ":" becomes %3A.
UrlUserinfo(ui) ==
  LET flat == FlattenSeq([i \in 1..Len(ui) |->
                IF ui[i] = "@" THEN <<"%", "4", "0">> ELSE <<ui[i]>>])
      c == SelectInSeq(flat, LAMBDA x : x = ":")
      pass == SubSeq(flat, c + 1, Len(flat))
  IN IF c = 0 THEN [username |-> flat, password |-> <<>>]
     ELSE [username |-> SubSeq(flat, 1, c - 1),
           password |-> <<FlattenSeq([i \in 1..Len(pass) |->
                          IF pass[i] = ":" THEN <<"%", "3", "A">> ELSE <<pass[i]>>])>>]

\* Url::parse and its accessors; err is "InvalidUrl" for a port above
\* 65535.  An optional value (port(), password()) is <<>> or <<v>>.
UrlParse(u) ==
  LET rest == SubSeq(u, 3, Len(u))
      at == SelectLastInSeq(rest, LAMBDA x : x = "@")
      ui == IF at = 0 THEN <<>> ELSE SubSeq(rest, 1, at - 1)
      hp == SubSeq(rest, at + 1, Len(rest))
      digits == SubSeq(hp, 3, Len(hp))
      port == IF Len(hp) < 3 THEN <<>> ELSE <<DecimalValue(digits)>>
      host == IF hp[1] = "[::1]" THEN [kind |-> "Ipv6", name |-> "::1"]
              ELSE IF hp[1] = "127.0.0.1" /\ u[1] \in DOMAIN SpecialDefault
                   THEN [kind |-> "Ipv4", name |-> hp[1]]
              ELSE [kind |-> "Domain", name |-> hp[1]]
  IN [err |-> IF port # <<>> /\ port[1] > 65535 THEN "InvalidUrl" ELSE "Ok",
      scheme |-> u[1], host |-> host, userinfo |-> UrlUserinfo(ui),
      port |-> IF u[1] \in DOMAIN SpecialDefault /\ port = <<SpecialDefault[u[1]]>>
               THEN <<>> ELSE port]

-----------------------------------------------------------------------------
(* server_addr.rs                                                          *)

Schemes == ("nats" :> <<"PossiblyPlain", "TCP">>) @@ ("tls" :> <<"TLS", "TCP">>)
           @@ ("ws" :> <<"PossiblyPlain", "Websocket">>) @@ ("wss" :> <<"TLS", "Websocket">>)

protocol_transport_to_port(protocol, transport) ==
  IF transport = "TCP" THEN 4222 ELSE IF protocol = "PossiblyPlain" THEN 80 ELSE 443

is_default_port(a) == a.port = protocol_transport_to_port(a.protocol, a.transport)

\* strip_prefix('[') and strip_suffix(']'), on the bracketed names used.
Unbracket == "[::1]" :> "::1"

\* IpAddr::from_str on a Domain host, after stripping one pair of brackets.
IpParse(name) == IF name = "127.0.0.1" THEN [kind |-> "V4", addr |-> name]
                 ELSE IF name = "::1" THEN [kind |-> "V6", addr |-> name]
                 ELSE [kind |-> "Dns", addr |-> name]

Err(e) == [err |-> e]

\* FromStr for ServerAddr: the address with err "Ok", or the error.
FromStr(value) ==
  LET url == UrlParse(value)
  IN IF url.err = "InvalidUrl" THEN Err("InvalidUrl")
     ELSE IF url.scheme \notin DOMAIN Schemes THEN Err("InvalidScheme")
     ELSE LET pt == Schemes[url.scheme]
              h == url.host
              stripped == IF h.name \in DOMAIN Unbracket THEN Unbracket[h.name]
                          ELSE h.name
              host == CASE h.kind = "Ipv4" -> [kind |-> "V4", addr |-> h.name]
                        [] h.kind = "Ipv6" -> [kind |-> "V6", addr |-> h.name]
                        [] OTHER -> IpParse(stripped)
              username == PercentDecode(url.userinfo.username)
              password == IF url.userinfo.password = <<>> THEN <<>>
                          ELSE PercentDecode(url.userinfo.password[1])
          IN IF ~Utf8Valid(username) THEN Err("UsernameInvalidUtf8")
             ELSE IF ~Utf8Valid(password) THEN Err("PasswordInvalidUtf8")
             ELSE [err |-> "Ok", protocol |-> pt[1], transport |-> pt[2], host |-> host,
                   port |-> IF url.port # <<>> THEN url.port[1]
                            ELSE protocol_transport_to_port(pt[1], pt[2]),
                   username |-> username, password |-> password]

\* Mutant: the username is written without percent-encoding.
DisplayPlainUser(a) ==
  <<CHOOSE s \in DOMAIN Schemes : Schemes[s] = <<a.protocol, a.transport>>, "://">>
  \o (IF a.username = <<>> THEN <<>>
      ELSE [i \in 1..Len(a.username) |-> Chr(a.username[i])]
           \o (IF a.password = <<>> THEN <<>> ELSE <<":">> \o PercentEncode(a.password))
           \o <<"@">>)
  \o <<IF a.host.kind = "V6" THEN "[" \o a.host.addr \o "]" ELSE a.host.addr>>
  \o (IF is_default_port(a) THEN <<>> ELSE <<":">> \o DecimalDigits(a.port))

\* Display for ServerAddr.
Display(a) ==
  <<CHOOSE s \in DOMAIN Schemes : Schemes[s] = <<a.protocol, a.transport>>, "://">>
  \o (IF a.username = <<>> THEN <<>>
      ELSE PercentEncode(a.username)
           \o (IF a.password = <<>> THEN <<>> ELSE <<":">> \o PercentEncode(a.password))
           \o <<"@">>)
  \o <<IF a.host.kind = "V6" THEN "[" \o a.host.addr \o "]" ELSE a.host.addr>>
  \o (IF is_default_port(a) THEN <<>> ELSE <<":">> \o DecimalDigits(a.port))
=============================================================================

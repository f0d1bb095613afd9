---------------------------- MODULE MCProtoUtil ----------------------------
(***************************************************************************)
(* Two harnesses in one state space, chosen by `harness` in the initial    *)
(* state.  "operators": the util operators of ProtoUtil and the subject    *)
(* validator of Validate against reference definitions, over every input  *)
(* of bounded length; the state is the input and never changes.           *)
(* "headers": the HeaderMap under every sequence of insert, append, remove *)
(* and clear, refined to MultiMap, and its header block decoded back.      *)
(* MCCodec instantiates this module and gives its constants values.       *)
(***************************************************************************)
EXTENDS Validate, TLC

CONSTANTS
  Width,        \* bit width of the integer type parse_unsigned! is built for
  MaxDigits,    \* longest digit string tried
  MaxFieldsLen, \* longest space-separated input tried
  MaxLinesLen,  \* longest CRLF-separated input tried
  MaxSubjectLen, \* longest short subject tried
  HNames, HValues, Fold, ByteRank, MaxLen  \* of HeaderMap

VARIABLES buf, harness, hm

HM == INSTANCE HeaderMap

SA == INSTANCE ServerAddr

vars == <<buf, harness, hm>>

DigitInputs == BoundedSeq({"0", "3", "5", "6", "9", "x"}, MaxDigits)
FieldInputs == BoundedSeq({"a", " "}, MaxFieldsLen)
                 \cup BoundedSeq({"a", " ", "TAB"}, MaxFieldsLen \div 2)
LineInputs == BoundedSeq({"a", CR, LF}, MaxLinesLen)
\* Short queue groups over every byte class the SUB line's framing tells
\* apart, and the two lengths either side of the 64-byte limit.
QueueGroupInputs == BoundedSeq({"a", ":", " ", "TAB", CR, LF}, 3)
                      \cup {[i \in 1..64 |-> "a"], [i \in 1..65 |-> "a"]}
UtilInputs == DigitInputs \cup FieldInputs \cup LineInputs \cup QueueGroupInputs
\* Short subjects over every kind of byte the validator tells apart, and the
\* two lengths either side of the 256-byte limit.
SubjectInputs == BoundedSeq({"a", ".", "*", ">", " "}, MaxSubjectLen)
                   \cup {[i \in 1..256 |-> "a"], [i \in 1..257 |-> "a"]}
\* Server URLs: every scheme FromStr tells apart and one it refuses; no
\* userinfo, or up to two of a letter, ':', '@' and '%' (so an '@' or ':'
\* inside it, a bare '%'), or an escape (%3A, %33, and %aa, not UTF-8);
\* each kind of host; no port, an empty one, the defaults and one past
\* 65535.
UserInfos == BoundedSeq({"a", ":", "@", "%"}, 2)
               \cup {<<"%", "3", "A">>, <<"%", "3", "3">>, <<"%", "a", "a">>,
                    <<"a", ":", "%", "4", "0">>}
UrlHosts == {"127.0.0.1", "[::1]", "h"}
UrlSchemes == {"nats", "tls", "ws", "wss", "http"}
UrlPorts == {<<>>, <<":">>, <<":", "8", "0">>, <<":", "4", "4", "3">>,
             <<":", "4", "2", "2", "2">>, <<":", "6", "5", "5", "3", "6">>}
Url(sch, ui, h, pp) == <<sch, "://">> \o ui \o <<h>> \o pp
UrlInputs ==
  {Url(sch, ui, h, pp) : sch \in UrlSchemes,
                         ui \in {<<>>} \cup {x \o <<"@">> : x \in UserInfos},
                         h \in UrlHosts, pp \in UrlPorts}

Init == \/ harness = "operators" /\ buf \in UtilInputs \cup SubjectInputs \cup UrlInputs
           /\ hm = HM!New
        \/ harness = "headers" /\ buf = <<>> /\ HM!Init

Next == \/ harness = "operators" /\ UNCHANGED vars
        \/ harness = "headers" /\ HM!Next /\ UNCHANGED <<buf, harness>>

Spec == Init /\ [][Next]_vars

\* The abstract multimap the HeaderMap's entries stand for, by folded key.
HKeys == {HM!UniKey(n) : n \in HNames}
AbsVals == [k \in HKeys |-> IF k \in DOMAIN hm.headers THEN hm.headers[k].val.vals
                                                       ELSE <<>>]
MM == INSTANCE MultiMap WITH Keys <- HKeys, Values <- HValues, vals <- AbsVals

\* Reference: the decimal value of a digit string.
Decimal(s) == LET F[i \in 0..Len(s)] == IF i = 0 THEN 0
                                          ELSE F[i - 1] * 10 + DigitValue[s[i]]
              IN F[Len(s)]

\* Reference: the maximal runs of non-separator bytes, in order.
Fields(s) ==
  LET isStart(i) == ~IsSpace(s[i]) /\ (i = 1 \/ IsSpace(s[i - 1]))
      starts == SelectSeq([i \in 1..Len(s) |-> i], isStart)
      end(i) == CHOOSE j \in i..Len(s) : /\ \A k \in i..j : ~IsSpace(s[k])
                                          /\ (j = Len(s) \/ IsSpace(s[j + 1]))
  IN [n \in 1..Len(starts) |-> SubSeq(s, starts[n], end(starts[n]))]

\* Reference: lines joined back with CRLF between them.
JoinLines(ls) == IF ls = <<>> THEN <<>>
                 ELSE FoldLeft(LAMBDA acc, l : acc \o CRLF \o l, Head(ls), Tail(ls))

(***************************************************************************)
(* parse_unsigned! yields the decimal value of a digit string exactly when *)
(* it fits the type, Overflow when some prefix of the digits before the    *)
(* first non-digit does not fit, and InvalidByte otherwise.                *)
(***************************************************************************)
ParseUintMatchesDecimal ==
  LET k == FirstIndex(buf, LAMBDA b : ~IsAsciiDigit(b))
      digits == IF k = 0 THEN buf ELSE SubSeq(buf, 1, k - 1)
  IN ParseUint(buf, Width) =
       IF Decimal(digits) >= 2^Width THEN Overflow
       ELSE IF k # 0 THEN InvalidByte
       ELSE Ok(Decimal(digits))

(***************************************************************************)
(* split_spaces, on a control line that does not start with a separator,   *)
(* yields its whitespace-separated fields, the first six of them.          *)
(***************************************************************************)
SplitSpacesYieldsFields ==
  (buf # <<>> => ~IsSpace(Head(buf))) =>
     SplitSpaces(buf) = SubSeq(Fields(buf), 1, Min({6, Len(Fields(buf))}))

(***************************************************************************)
(* lines_iter yields lines free of CRLF which, joined with CRLF, give back *)
(* the header block, up to one trailing CRLF (lines_iter's unit test).     *)
(***************************************************************************)
LinesIterRoundTrips ==
  LET ls == LinesIter(buf)
  IN /\ \A i \in 1..Len(ls) : FindCRLF(ls[i]) = 0
     /\ JoinLines(ls) \in {buf, SubSeq(buf, 1, Len(buf) - 2)}
     /\ JoinLines(ls) # buf => Len(buf) >= 2 /\ Advance(buf, Len(buf) - 2) = CRLF


\* Reference (spec.md, Subject): the tokens between the dots.
SubjectTokens(s) ==
  LET bound == <<0>> \o SetToSortSeq({i \in 1..Len(s) : s[i] = "."}, <) \o <<Len(s) + 1>>
  IN [k \in 1..(Len(bound) - 1) |-> SubSeq(s, bound[k] + 1, bound[k + 1] - 1)]

\* A token is non-empty, a wildcard alone or free of wildcards, and a '>'
\* only in the last token.
TokenOk(ts, k) ==
  /\ ts[k] # <<>>
  /\ ts[k] \in {<<"*">>, <<">">>} \/ \A i \in 1..Len(ts[k]) : ts[k][i] \notin {"*", ">"}
  /\ ts[k] = <<">">> => k = Len(ts)

\* The verdict spec.md's invariants give, the error naming the first rule
\* broken, and among the tokens the first bad one.
SubjectVerdict(s) ==
  LET ts == SubjectTokens(s)
      bad == {k \in 1..Len(ts) : ~TokenOk(ts, k)}
  IN IF s = <<>> THEN "Empty"
     ELSE IF Len(s) > 256 THEN "TooLong"
     ELSE IF AnyWhitespace(s) THEN "IllegalCharacter"
     ELSE IF bad = {} THEN "Ok"
     ELSE IF ts[Min(bad)] = <<>> THEN "BrokenToken"
     ELSE "BrokenWildcard"

(***************************************************************************)
(* validate_subject accepts exactly the subjects spec.md allows (non-empty, *)
(* at most 256 bytes, no whitespace, dot-separated non-empty tokens, '*'  *)
(* and '>' only as whole tokens and '>' only last), and rejects the others *)
(* with the error of the first rule they break.                            *)
(***************************************************************************)
SubjectValidationMatchesSpec == validate_subject(buf) = SubjectVerdict(buf)

\* Subjects validate_subject accepts: one token, several, a wildcard.
SubLineSubjects == {<<"a">>, <<"a", ".", "b">>, <<"a", ".", ">">>}

(***************************************************************************)
(* A SUB line the encoder writes for a subject and a queue group that      *)
(* passed validation has the four fields spec.md gives it (SUB <subject>   *)
(* <queue_group> <sid>) and no CR or LF before its terminator: a queue     *)
(* group can neither shift the sid nor end the line and start another      *)
(* command, whichever whitespace byte it tries.                           *)
(***************************************************************************)
SubLineFramed ==
  \A subj \in SubLineSubjects :
    validate_subject(subj) = "Ok" /\ validate_queue_group(buf) = "Ok" =>
      LET body(line) == SubSeq(line, 1, Len(line) - 2)
          framed(b) == /\ \A i \in 1..Len(b) : b[i] \notin {CR, LF}
                       /\ Fields(b) = <<<<"S", "U", "B">>, subj, buf, <<"2">>>>
      IN framed(body(SubLine(subj, buf, <<"2">>)))

\* Reference (spec.md, Server address): the port a URL gives, else the
\* default of its scheme.
SpecDefaultPort == ("nats" :> 4222) @@ ("tls" :> 4222) @@ ("ws" :> 80) @@ ("wss" :> 443)
UrlPort(u) == LET hi == SelectInSeq(u, LAMBDA t : t \in UrlHosts)
                  digits == SubSeq(u, hi + 2, Len(u))
              IN IF digits = <<>> THEN SpecDefaultPort[u[1]] ELSE Decimal(digits)

(***************************************************************************)
(* A server URL parses (FromStr) to the scheme's protocol and transport,  *)
(* the port it gives or the spec's default for the scheme, and an         *)
(* address which, written out by Display (and so by Serialize), parses   *)
(* back to itself, whatever its userinfo holds.  A port past 65535 is     *)
(* InvalidUrl and an unknown scheme InvalidScheme.  An address with a     *)
(* password and no username is left out: Display writes the password     *)
(* only after a username (README, Observed without a run).  The parsed   *)
(* address a is bound by \A, so that it is computed once per URL.        *)
(***************************************************************************)
ServerAddrRoundTrips ==
  Len(buf) >= 3 /\ buf[2] = "://" =>
    \A a \in {SA!FromStr(buf)} :
    LET explicit == SubSeq(buf, SelectInSeq(buf, LAMBDA t : t \in UrlHosts) + 2, Len(buf))
    IN /\ explicit # <<>> /\ Decimal(explicit) > 65535 => a.err = "InvalidUrl"
       /\ buf[1] \notin DOMAIN SpecDefaultPort /\ a.err # "InvalidUrl"
            => a.err = "InvalidScheme"
       /\ a.err = "Ok" =>
            /\ a.port = UrlPort(buf)
            /\ a.username # <<>> \/ a.password = <<>> => SA!FromStr(SA!Display(a)) = a

(***************************************************************************)
(* HeaderMap implements the multimap spec.md describes: every insert,      *)
(* append, remove and clear, whatever the spelling of the name, acts on    *)
(* the values of the folded name as MultiMap says.                         *)
(***************************************************************************)
ImplementsMultiMap == MM!Spec

(***************************************************************************)
(* The count HeaderMap keeps apart from its entries, which len() returns, *)
(* is the number of values the entries hold, after any sequence of insert *)
(* over a name with one or many values, append, remove and clear.          *)
(***************************************************************************)
LenCountsValues == hm.len = MM!Size

(***************************************************************************)
(* A header map written by encode_headers (HPUB) and read back by          *)
(* decode_headers (HMSG, which the server relays byte for byte) is the     *)
(* same map: the block starts with a NATS/1.0 line with no status, every  *)
(* header line parses, and the pairs collected in order rebuild the map,   *)
(* the spelling of each name and the order of its values included.         *)
(***************************************************************************)
HeadersRoundTrip ==
  LET lines == LinesIter(HM!encode_headers(hm))
      hs == HeaderLines(SelectSeq(Tail(lines), LAMBDA l : l # <<>>), <<>>)
  IN /\ lines[1] = <<"NATS/1.0">>
     /\ hs.e = ""
     /\ HM!FromPairs(hs.st) = hm

=============================================================================

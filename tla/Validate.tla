------------------------------ MODULE Validate ------------------------------
(***************************************************************************)
(* The validators of watermelon-proto's string types and the header-line   *)
(* closure of decode_headers, as operators over the abstract bytes of      *)
(* ProtoUtil:                                                              *)
(*   validate_subject       (subject.rs)          -> validate_subject       *)
(*   validate_header_name   (headers/name.rs)     -> validate_header_name   *)
(*   validate_header_value  (headers/value.rs)    -> validate_header_value  *)
(*   validate_queue_group   (queue_group.rs)      -> validate_queue_group   *)
(*   the encoder's SUB line (proto/encoder/mod.rs) -> SubLine               *)
(*   decode_headers' lines  (proto/decoder/mod.rs) -> HeaderLines          *)
(* Every byte of the abstraction is one ASCII byte, so str::len is Len and *)
(* the length limits keep their values.  A validator returns "Ok" or the   *)
(* name of its error variant.                                              *)
(***************************************************************************)
EXTENDS ProtoUtil

\* char::is_whitespace and u8::is_ascii_whitespace, on the abstract bytes.
IsWhitespace(b) == b \in {" ", "TAB", CR, LF}

AnyWhitespace(s) == \E i \in 1..Len(s) : IsWhitespace(s[i])

\* A result together with the error that ended the computation, "" if none.
Res(st, e) == [st |-> st, e |-> e]

\* str::split(sep): the pieces between separators, empty pieces included.
RECURSIVE SplitOn(_, _)
SplitOn(s, sep) ==
  LET i == FirstIndex(s, LAMBDA b : b = sep)
  IN IF i = 0 THEN <<s>> ELSE <<SubSeq(s, 1, i - 1)>> \o SplitOn(Advance(s, i), sep)

\* str::contains("..")
HasDotDot(t) == \E i \in 1..(Len(t) - 1) : t[i] = "." /\ t[i + 1] = "."

(***************************************************************************)
(* validate_subject's token loop: the first token that is empty, holds a   *)
(* wildcard byte next to another byte, or is a '>' with a token after it   *)
(* (tokens.peek()) ends the loop with its error.                           *)
(***************************************************************************)
\* Mutant: the peek is dropped, so a '>' is accepted in any token.
RECURSIVE CheckTokensNoPeek(_)
CheckTokensNoPeek(ts) ==
  IF ts = <<>> THEN "Ok"
  ELSE LET t == Head(ts)
       IN IF t = <<>> \/ HasDotDot(t) THEN "BrokenToken"
          ELSE IF Len(t) > 1 /\ (\E i \in 1..Len(t) : t[i] \in {"*", ">"})
            THEN "BrokenWildcard"
          ELSE CheckTokensNoPeek(Tail(ts))

RECURSIVE CheckTokens(_)
CheckTokens(ts) ==
  IF ts = <<>> THEN "Ok"
  ELSE LET t == Head(ts)
       IN IF t = <<>> \/ HasDotDot(t) THEN "BrokenToken"
          ELSE IF Len(t) > 1 /\ (\E i \in 1..Len(t) : t[i] \in {"*", ">"})
            THEN "BrokenWildcard"
          ELSE IF t = <<">">> /\ Tail(ts) # <<>> THEN "BrokenWildcard"
          ELSE CheckTokens(Tail(ts))

validate_subject(s) ==
  IF s = <<>> THEN "Empty"
  ELSE IF Len(s) > 256 THEN "TooLong"
  ELSE IF AnyWhitespace(s) THEN "IllegalCharacter"
  ELSE CheckTokens(SplitOn(s, "."))

validate_header_name(s) ==
  IF s = <<>> THEN "Empty"
  ELSE IF Len(s) > 64 THEN "TooLong"
  ELSE IF \E i \in 1..Len(s) : IsWhitespace(s[i]) \/ s[i] = ":"
    THEN "IllegalCharacter"
  ELSE "Ok"

validate_header_value(s) ==
  IF s = <<>> THEN "Empty"
  ELSE IF Len(s) > 1024 THEN "TooLong"
  ELSE IF AnyWhitespace(s) THEN "IllegalCharacter"
  ELSE "Ok"

\* Mutant: only the space byte is refused.
validate_queue_groupSpaceOnly(s) ==
  IF s = <<>> THEN "Empty"
  ELSE IF Len(s) > 64 THEN "TooLong"
  ELSE IF \E i \in 1..Len(s) : s[i] = " " THEN "IllegalCharacter"
  ELSE "Ok"

validate_queue_group(s) ==
  IF s = <<>> THEN "Empty"
  ELSE IF Len(s) > 64 THEN "TooLong"
  ELSE IF AnyWhitespace(s) THEN "IllegalCharacter"
  ELSE "Ok"

\* The encoder's Subscribe arm: "SUB {subject} {queue_group} {id}\r\n", or
\* without the queue group when there is none (<<>> here).
SubLine(subject, queue_group, id) ==
  <<"S", "U", "B", " ">> \o subject \o <<" ">>
    \o (IF queue_group = <<>> THEN <<>> ELSE queue_group \o <<" ">>)
    \o id \o CRLF

(***************************************************************************)
(* The closure of decode_headers mapping each non-empty line to (name,     *)
(* value), collected in order: the first failing line ends it.  The name  *)
(* is the bytes before the first ':', the value those after it less one   *)
(* leading whitespace byte; each goes through its TryFrom (validation).    *)
(* Line 300 indexes line[0] after the ':' with no length check.           *)
(***************************************************************************)
\* Mutant: the whitespace after the ':' is kept in the value.
RECURSIVE HeaderLinesKeepSpace(_, _)
HeaderLinesKeepSpace(ls, acc) ==
  IF ls = <<>> THEN Res(acc, "")
  ELSE LET line == Head(ls)
           i == FirstIndex(line, LAMBDA c : c = ":")
           name == SubSeq(line, 1, i - 1)
           value == Advance(line, i)
       IN IF i = 0 THEN Res(acc, "InvalidHeaderLine")
          ELSE IF value = <<>> THEN Res(acc, "panic")
          ELSE IF validate_header_name(name) # "Ok" THEN Res(acc, "HeaderName")
          ELSE IF validate_header_value(value) # "Ok" THEN Res(acc, "HeaderValue")
          ELSE HeaderLinesKeepSpace(Tail(ls), Append(acc, <<name, value>>))

RECURSIVE HeaderLines(_, _)
HeaderLines(ls, acc) ==
  IF ls = <<>> THEN Res(acc, "")
  ELSE LET line == Head(ls)
           i == FirstIndex(line, LAMBDA c : c = ":")
           name == SubSeq(line, 1, i - 1)
           after == Advance(line, i)
           value == IF after # <<>> /\ IsWhitespace(after[1]) THEN Tail(after) ELSE after
       IN IF i = 0 THEN Res(acc, "InvalidHeaderLine")
          ELSE IF after = <<>> THEN Res(acc, "panic")
          ELSE IF validate_header_name(name) # "Ok" THEN Res(acc, "HeaderName")
          ELSE IF validate_header_value(value) # "Ok" THEN Res(acc, "HeaderValue")
          ELSE HeaderLines(Tail(ls), Append(acc, <<name, value>>))

=============================================================================

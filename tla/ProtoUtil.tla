----------------------------- MODULE ProtoUtil -----------------------------
(***************************************************************************)
(* The byte-slice helpers of watermelon-proto's util module, as operators   *)
(* over sequences of abstract bytes:                                       *)
(*   parse_unsigned!  (util/uint.rs)        -> ParseUint                    *)
(*   split_spaces     (util/split_spaces.rs) -> SplitSpaces                 *)
(*   lines_iter       (util/lines_iter.rs)   -> LinesIter                   *)
(* A byte is a string naming it: "0".."9" for the ASCII digits, " " and    *)
(* "TAB" for the two separators split_spaces knows, "CR" and "LF" for the  *)
(* line terminator, and any other string for any other byte.               *)
(***************************************************************************)
EXTENDS Integers, Sequences, SequencesExt, FiniteSetsExt

CR == "CR"
LF == "LF"
CRLF == <<CR, LF>>

DigitValue == [d \in {"0", "1", "2", "3", "4", "5", "6", "7", "8", "9"} |->
                 CASE d = "0" -> 0 [] d = "1" -> 1 [] d = "2" -> 2
                   [] d = "3" -> 3 [] d = "4" -> 4 [] d = "5" -> 5
                   [] d = "6" -> 6 [] d = "7" -> 7 [] d = "8" -> 8
                   [] d = "9" -> 9]

IsAsciiDigit(b) == b \in DOMAIN DigitValue

\* memchr2(b' ', b'\t', ..)
IsSpace(b) == b \in {" ", "TAB"}

\* Result<$num, ParseUintError>: Ok(v), or one of the two errors.
Ok(v) == [tag |-> "Ok", val |-> v]
InvalidByte == [tag |-> "InvalidByte", val |-> 0]
Overflow == [tag |-> "Overflow", val |-> 0]

(***************************************************************************)
(* parse_unsigned!($name, $num): left to right, a non-digit byte is        *)
(* InvalidByte; val * 10 and then val + digit are checked against the      *)
(* width w of $num, each overflowing to Overflow.                          *)
(***************************************************************************)
\* Mutant: val * 10 + digit wraps around instead of being checked.
RECURSIVE ParseFromWrapping(_, _, _)
ParseFromWrapping(buf, val, w) ==
  IF buf = <<>> THEN Ok(val)
  ELSE IF ~IsAsciiDigit(Head(buf)) THEN InvalidByte
  ELSE ParseFromWrapping(Tail(buf), (val * 10 + DigitValue[Head(buf)]) % 2^w, w)

RECURSIVE ParseFrom(_, _, _)
ParseFrom(buf, val, w) ==
  IF buf = <<>> THEN Ok(val)
  ELSE IF ~IsAsciiDigit(Head(buf)) THEN InvalidByte
  ELSE IF val * 10 >= 2^w THEN Overflow
  ELSE IF val * 10 + DigitValue[Head(buf)] >= 2^w THEN Overflow
  ELSE ParseFrom(Tail(buf), val * 10 + DigitValue[Head(buf)], w)

ParseUint(buf, w) == ParseFrom(buf, 0, w)

\* Index of the first byte satisfying T, 0 when there is none (memchr).
FirstIndex(s, T(_)) == SelectInSeq(s, T)

\* memmem::find(s, b"\r\n"): index of the CR of the first CRLF, 0 if none.
FindCRLF(s) ==
  LET I == {i \in 1..(Len(s) - 1) : s[i] = CR /\ s[i + 1] = LF}
  IN IF I = {} THEN 0 ELSE Min(I)

\* bytes.advance(n)
Advance(s, n) == SubSeq(s, n + 1, Len(s))

\* The bytes left after skipping a leading run of spaces and tabs.
RECURSIVE SkipSpaces(_)
SkipSpaces(s) == IF s # <<>> /\ IsSpace(Head(s)) THEN SkipSpaces(Tail(s)) ELSE s

(***************************************************************************)
(* split_spaces: at most `slots` (6) chunks; each chunk ends at the next   *)
(* space or tab, after which the whole run of separators is skipped; the   *)
(* last non-empty remainder is a chunk; anything past six chunks is lost.  *)
(***************************************************************************)
\* Mutant: only the one separator found is skipped, not the whole run.
RECURSIVE SplitFromOneSpace(_, _)
SplitFromOneSpace(bytes, slots) ==
  IF slots = 0 THEN <<>>
  ELSE LET i == FirstIndex(bytes, IsSpace)
       IN IF i = 0
            THEN IF bytes = <<>> THEN <<>> ELSE <<bytes>>
            ELSE <<SubSeq(bytes, 1, i - 1)>> \o SplitFromOneSpace(Advance(bytes, i), slots - 1)

RECURSIVE SplitFrom(_, _)
SplitFrom(bytes, slots) ==
  IF slots = 0 THEN <<>>
  ELSE LET i == FirstIndex(bytes, IsSpace)
       IN IF i = 0
            THEN IF bytes = <<>> THEN <<>> ELSE <<bytes>>
            ELSE <<SubSeq(bytes, 1, i - 1)>>
                   \o SplitFrom(SkipSpaces(Advance(bytes, i - 1)), slots - 1)

SplitSpaces(bytes) == SplitFrom(bytes, 6)

(***************************************************************************)
(* lines_iter: chunks up to each CRLF, the CRLF dropped; the iterator ends *)
(* when nothing is left, so a trailing CRLF yields no empty last line.      *)
(***************************************************************************)
\* Mutant: a last chunk with no CRLF after it is dropped, not yielded.
RECURSIVE LinesIterDropTail(_)
LinesIterDropTail(bytes) ==
  IF bytes = <<>> THEN <<>>
  ELSE LET i == FindCRLF(bytes)
       IN IF i = 0 THEN <<>>
          ELSE <<SubSeq(bytes, 1, i - 1)>> \o LinesIterDropTail(Advance(bytes, i + 1))

RECURSIVE LinesIter(_)
LinesIter(bytes) ==
  IF bytes = <<>> THEN <<>>
  ELSE LET i == FindCRLF(bytes)
       IN IF i = 0 THEN <<bytes>>
          ELSE <<SubSeq(bytes, 1, i - 1)>> \o LinesIter(Advance(bytes, i + 1))

=============================================================================

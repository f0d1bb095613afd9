------------------------------ MODULE MultiMap ------------------------------
(***************************************************************************)
(* What spec.md ("Header map") promises of HeaderMap: a multimap from      *)
(* header names to the ordered list of their values, in which a name's     *)
(* values keep the order they were added in.  A name is its case-folded    *)
(* key (header names compare ASCII case-insensitively); a key with no      *)
(* values is absent.                                                       *)
(***************************************************************************)
EXTENDS Sequences, FiniteSetsExt

CONSTANTS Keys, Values

VARIABLE vals   \* key -> the sequence of its values

Init == vals = [k \in Keys |-> <<>>]

\* The key's values become just v.
Insert(k, v) == vals' = [vals EXCEPT ![k] = <<v>>]

\* v is added after the key's other values.
AppendValue(k, v) == vals' = [vals EXCEPT ![k] = Append(@, v)]

Remove(k) == vals' = [vals EXCEPT ![k] = <<>>]

Clear == vals' = [k \in Keys |-> <<>>]

Next == \/ \E k \in Keys, v \in Values : Insert(k, v) \/ AppendValue(k, v)
        \/ \E k \in Keys : Remove(k)
        \/ Clear

Spec == Init /\ [][Next]_vals

\* The total count of values, which len() reports.
Size == MapThenSumSet(LAMBDA k : Len(vals[k]), Keys)

=============================================================================

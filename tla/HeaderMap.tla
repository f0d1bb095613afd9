----------------------------- MODULE HeaderMap -----------------------------
(***************************************************************************)
(* HeaderMap (watermelon-proto headers/map.rs): a BTreeMap from HeaderName *)
(* to OneOrMany<HeaderValue>, and a separate count `len` of the values.   *)
(* HeaderName is UniCase: it compares and orders by its case-folded bytes, *)
(* so the map's key is the folded name while the entry keeps the spelling *)
(* it was first stored with (BTreeMap::insert does not replace the key).   *)
(* The operations are functions of a map value so that FromIterator and   *)
(* the decoder can use them; the actions apply them to the variable `hm`. *)
(* encode_headers (proto/encoder/mod.rs) writes a map as a header block.   *)
(***************************************************************************)
EXTENDS Validate, TLC

CONSTANTS
  HNames,    \* header names a caller may pass (already validated)
  HValues,   \* header values a caller may pass (already validated)
  Fold,      \* byte -> its ASCII lowercase, for every byte of HNames
  ByteRank,  \* byte -> its position in the byte order, for folded bytes
  MaxLen     \* bound on the values held: insert and append need len < MaxLen

VARIABLE hm   \* the HeaderMap: [headers |-> key -> entry, len |-> Nat]

\* UniCase<ByteString>: the case-folded bytes a name compares by.
UniKey(n) == [i \in 1..Len(n) |-> Fold[n[i]]]

\* Ord of UniCase: lexicographic on the folded bytes.
RECURSIVE KeyLess(_, _)
KeyLess(a, b) ==
  \/ a = <<>> /\ b # <<>>
  \/ /\ a # <<>> /\ b # <<>>
     /\ \/ ByteRank[Head(a)] < ByteRank[Head(b)]
        \/ Head(a) = Head(b) /\ KeyLess(Tail(a), Tail(b))

\* OneOrMany: One(v) holds one value, Many(vec) two or more.
One(v) == [many |-> FALSE, vals |-> <<v>>]

\* OneOrMany::len
OneOrManyLen(o) == IF o.many THEN Len(o.vals) ELSE 1

\* Mutant: One(cur).push(item) builds Many([item, cur]).
pushSwapped(o, v) == [many |-> TRUE, vals |-> IF o.many THEN Append(o.vals, v)
                                              ELSE <<v>> \o o.vals]

\* OneOrMany::push: One(cur) becomes Many([cur, item]); Many pushes.
push(o, v) == [many |-> TRUE, vals |-> Append(o.vals, v)]

\* HeaderMap::new
New == [headers |-> <<>>, len |-> 0]

\* Mutant: the previous entry's count is not taken off len.
insertKeepLen(m, n, v) ==
  LET k == UniKey(n)
  IN IF k \in DOMAIN m.headers
       THEN [headers |-> [m.headers EXCEPT ![k].val = One(v)], len |-> m.len + 1]
       ELSE [headers |-> m.headers @@ (k :> [name |-> n, val |-> One(v)]),
             len |-> m.len + 1]

\* HeaderMap::insert: the entry's values become One(value); len loses the
\* previous entry's count and gains one.
insert(m, n, v) ==
  LET k == UniKey(n)
  IN IF k \in DOMAIN m.headers
       THEN [headers |-> [m.headers EXCEPT ![k].val = One(v)],
             len |-> m.len - OneOrManyLen(m.headers[k].val) + 1]
       ELSE [headers |-> m.headers @@ (k :> [name |-> n, val |-> One(v)]),
             len |-> m.len + 1]

\* HeaderMap::append: a vacant entry gets One(value), an occupied one a push.
append(m, n, v) ==
  LET k == UniKey(n)
  IN [headers |-> IF k \in DOMAIN m.headers
                    THEN [m.headers EXCEPT ![k].val = push(@, v)]
                    ELSE m.headers @@ (k :> [name |-> n, val |-> One(v)]),
      len |-> m.len + 1]

\* HeaderMap::remove
remove(m, n) ==
  LET k == UniKey(n)
  IN IF k \in DOMAIN m.headers
       THEN [headers |-> [j \in DOMAIN m.headers \ {k} |-> m.headers[j]],
             len |-> m.len - OneOrManyLen(m.headers[k].val)]
       ELSE m

\* keys_len
keys_len(m) == Cardinality(DOMAIN m.headers)

\* HeaderMap::iter: the entries in key order, each with its values in order,
\* flattened to (name, value) pairs as encode_headers consumes them.
iter(m) ==
  LET ks == SetToSortSeq(DOMAIN m.headers, KeyLess)
      e(i) == m.headers[ks[i]]
  IN FlattenSeq([i \in 1..Len(ks) |->
                   [j \in 1..Len(e(i).val.vals) |-> <<e(i).name, e(i).val.vals[j]>>]])

\* FromIterator / Extend: append each pair in turn.
FromPairs(ps) == FoldLeft(LAMBDA m, p : append(m, p[1], p[2]), New, ps)

\* encode_headers: the NATS/1.0 head line, "name: value" per value, and the
\* empty line that ends the block.
encode_headers(m) ==
  LET ps == iter(m)
  IN <<"NATS/1.0">> \o CRLF
       \o FlattenSeq([i \in 1..Len(ps) |-> ps[i][1] \o <<":", " ">> \o ps[i][2] \o CRLF])
       \o CRLF

-----------------------------------------------------------------------------
Init == hm = New

InsertHeader == hm.len < MaxLen /\ \E n \in HNames, v \in HValues : hm' = insert(hm, n, v)

AppendHeader == hm.len < MaxLen /\ \E n \in HNames, v \in HValues : hm' = append(hm, n, v)

RemoveHeader == \E n \in HNames : hm' = remove(hm, n)

\* HeaderMap::clear
ClearHeaders == hm' = New

Next == InsertHeader \/ AppendHeader \/ RemoveHeader \/ ClearHeaders

Spec == Init /\ [][Next]_hm

=============================================================================

----------------------------- MODULE ByteQueue -----------------------------
(***************************************************************************)
(* What spec.md ("Encoder") promises of the streaming encoder as a Buf:    *)
(* the bytes of the ops enqueued, in order, from which a writer consumes   *)
(* a prefix of any length up to remaining() at a time.                     *)
(***************************************************************************)
EXTENDS Naturals, Sequences

CONSTANT Chunks   \* the byte strings an enqueued op may add

VARIABLE queue    \* the bytes not yet consumed

Init == queue = <<>>

\* An op's bytes are added behind the others.
Push(bs) == queue' = queue \o bs

\* advance(n): the first n bytes are gone, for 1 <= n <= remaining().
Pop(n) == /\ 1 <= n /\ n <= Len(queue)
          /\ queue' = SubSeq(queue, n + 1, Len(queue))

Next == \/ \E bs \in Chunks : Push(bs)
        \/ \E n \in 1..Len(queue) : Pop(n)

Spec == Init /\ [][Next]_queue

=============================================================================

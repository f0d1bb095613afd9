--------------------------- MODULE ServerOpStream ---------------------------
(***************************************************************************)
(* What the read half of a NATS connection promises its handler: the ops  *)
(* the server wrote come out one at a time, in order and unchanged, each  *)
(* only after all of its bytes have arrived; the stream may end with an   *)
(* error only at an op that is not valid or after the last byte.  With    *)
(* LiveSpec, an op whose bytes have all arrived is eventually handed out. *)
(***************************************************************************)
EXTENDS Naturals, Sequences

VARIABLES
  ops,        \* the server's ops: [valid |-> BOOLEAN, op |-> the ServerOp]
  arrived,    \* how many of them have arrived in full
  delivered,  \* the ops handed to the handler so far
  failed      \* the stream ended with an error

vars == <<ops, arrived, delivered, failed>>

Init ==
  /\ arrived = 0
  /\ delivered = <<>>
  /\ failed = FALSE

NextOp == ops[Len(delivered) + 1]

\* One or more ops complete with the bytes of one read.
Arrive ==
  /\ \E n \in (arrived + 1)..Len(ops) : arrived' = n
  /\ UNCHANGED <<ops, delivered, failed>>

Deliver ==
  /\ ~failed
  /\ Len(delivered) < arrived
  /\ NextOp.valid
  /\ delivered' = Append(delivered, NextOp.op)
  /\ UNCHANGED <<ops, arrived, failed>>

\* The next op is malformed, or the connection ended after the last byte.
Fail ==
  /\ ~failed
  /\ \/ Len(delivered) < Len(ops) /\ ~NextOp.valid
     \/ arrived = Len(ops)
  /\ failed' = TRUE
  /\ UNCHANGED <<ops, arrived, delivered>>

Next == Arrive \/ Deliver \/ Fail

Spec == Init /\ [][Next]_vars

LiveSpec == Spec /\ WF_vars(Deliver)

=============================================================================

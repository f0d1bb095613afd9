---------------------------- MODULE JetStreamList ----------------------------
(***************************************************************************)
(* The paged listings of the JetStream client: Consumers::poll_next        *)
(* (jetstream/commands/consumer_list.rs) and Streams::poll_next            *)
(* (stream_list.rs), which is the same code over streams.  Each fetch is a *)
(* JetStream API request {"offset": offset}; the server answers with a     *)
(* page of the names it holds, in its order, and the page size `limit`.    *)
(*                                                                         *)
(* The server side is the JetStream API's paging (ApiPagedRequest): the    *)
(* items after the first `offset`, at most Limit of them.  The items are   *)
(* 1..Total in the server's order, and do not change while the listing     *)
(* runs.  Each action is one call of poll_next by a caller that polls      *)
(* until Ready(None); a call that returns Pending without a change of      *)
(* state is a stutter.                                                     *)
(***************************************************************************)
EXTENDS Naturals, Sequences, SequencesExt

CONSTANTS
  Total,      \* items (consumers or streams) the server holds
  Limit,      \* the server's page size, returned as `limit`
  MaxErrors   \* failed requests (timeout, closed client, bad JSON) allowed

VARIABLES
  offset,     \* self.offset
  fetch,      \* self.fetch: NoFetch, or the offset the request carries
  buffer,     \* self.buffer
  exhausted,  \* self.exhausted
  listed,     \* the items poll_next returned as Ready(Some(Ok(_)))
  last,       \* the last of them, 0 before the first
  inOrder,    \* each item returned came after the one before it
  errors,     \* failed requests so far
  done        \* poll_next returned Ready(None)

vars == <<offset, fetch, buffer, exhausted, listed, last, inOrder, errors, done>>

NoFetch == -1

Items == [i \in 1..Total |-> i]

\* The server's answer to {"offset": o}.
Page(o) == SubSeq(Items, o + 1, IF o + Limit < Total THEN o + Limit ELSE Total)

-----------------------------------------------------------------------------
\* Consumers::new / Streams::new
Init ==
  /\ offset = 0
  /\ fetch = NoFetch
  /\ buffer = <<>>
  /\ exhausted = FALSE
  /\ listed = {}
  /\ last = 0
  /\ inOrder = TRUE
  /\ errors = 0
  /\ done = FALSE

\* A buffered item is returned first.
PollBuffered ==
  /\ ~done /\ buffer # <<>>
  /\ listed' = listed \cup {Head(buffer)}
  /\ last' = Head(buffer)
  /\ inOrder' = (inOrder /\ Head(buffer) > last)
  /\ buffer' = Tail(buffer)
  /\ UNCHANGED <<offset, fetch, exhausted, errors, done>>

\* With the buffer empty and the listing exhausted: Ready(None).
PollExhausted ==
  /\ ~done /\ buffer = <<>> /\ exhausted
  /\ done' = TRUE
  /\ UNCHANGED <<offset, fetch, buffer, exhausted, listed, last, inOrder, errors>>

\* get_or_insert_with: the request future captures the current offset; its
\* first poll is Pending (the answer needs a round trip).
PollStartFetch ==
  /\ ~done /\ buffer = <<>> /\ ~exhausted /\ fetch = NoFetch
  /\ fetch' = offset
  /\ UNCHANGED <<offset, buffer, exhausted, listed, last, inOrder, errors, done>>

\* Mutant: the listing is taken as complete unless a page overflows.
RespondExhaustedEarly ==
  /\ ~done /\ buffer = <<>> /\ fetch # NoFetch
  /\ LET page == Page(fetch)
     IN /\ buffer' = page
        /\ exhausted' = (Len(page) <= Limit)
        /\ offset' = IF Len(page) <= Limit \/ page = <<>> THEN offset ELSE offset + 1
  /\ fetch' = NoFetch
  /\ UNCHANGED <<listed, last, inOrder, errors, done>>

\* Mutant: the offset is never advanced.
RespondSameOffset ==
  /\ ~done /\ buffer = <<>> /\ fetch # NoFetch
  /\ LET page == Page(fetch)
     IN /\ buffer' = page
        /\ exhausted' = (Len(page) < Limit)
  /\ fetch' = NoFetch
  /\ UNCHANGED <<offset, listed, last, inOrder, errors, done>>

\* Ready(Ok(response)): the page replaces the buffer; a short page ends the
\* listing, a full one advances the offset by one; then wake and Pending.
Respond ==
  /\ ~done /\ buffer = <<>> /\ fetch # NoFetch
  /\ LET page == Page(fetch)
     IN /\ buffer' = page
        /\ exhausted' = (Len(page) < Limit)
        /\ offset' = IF Len(page) < Limit \/ page = <<>> THEN offset ELSE offset + 1
  /\ fetch' = NoFetch
  /\ UNCHANGED <<listed, last, inOrder, errors, done>>

\* Ready(Err(err)): the fetch is dropped and the error returned; the next
\* call sends the same request again.
RespondError ==
  /\ ~done /\ buffer = <<>> /\ fetch # NoFetch /\ errors < MaxErrors
  /\ fetch' = NoFetch
  /\ errors' = errors + 1
  /\ UNCHANGED <<offset, buffer, exhausted, listed, last, inOrder, done>>

\* The caller stops polling after Ready(None).
Finished == done /\ UNCHANGED vars

Next == \/ PollBuffered \/ PollExhausted \/ PollStartFetch
        \/ Respond \/ RespondError \/ Finished

Spec == Init /\ [][Next]_vars

\* The caller polls again whenever it is woken, and the server answers.
Fairness == /\ WF_vars(PollBuffered) /\ WF_vars(PollExhausted)
            /\ WF_vars(PollStartFetch) /\ WF_vars(Respond)

-----------------------------------------------------------------------------
(* Properties.                                                             *)

\* Every item the server holds is among what the listing returned by the
\* time poll_next returns Ready(None): a page counted as the last one is
\* really the last, whatever the failed requests between pages.
EveryItemListed == done => ToSet(Items) \subseteq listed

\* Under a caller that keeps polling and a server that answers, poll_next
\* eventually returns Ready(None): the offset moves past the last full page.
ListingEnds == <>done

\* The listing returns each item once, in the server's order (what
\* Consumers and Streams are for: "a request to list consumers").
ListsEachItemOnce == inOrder
=============================================================================

----------------------------- MODULE SseReader -----------------------------
(***************************************************************************)
(* The reader of a provider's event stream (adapters/http_sse.py,          *)
(* _HttpxSseStream): bytes come in chunks of any size, lines end with CR,  *)
(* LF or CRLF, an empty line dispatches the event collected so far.        *)
(*                                                                         *)
(* A byte is CR, LF or one byte of a field.  A line holds one field, and a *)
(* field is one byte: [field |-> "data", value |-> v], "event", "comment", *)
(* or "garbage" for what is not UTF-8.                                     *)
(***************************************************************************)
EXTENDS Naturals, Sequences, SequencesExt

CONSTANTS CR, LF,
          MaxEventBytes   \* _MAX_EVENT_BYTES

\* The reader's fields; fault is the TransportFailure it raised.
NewReader == [buffer |-> <<>>, data |-> <<>>, bytes |-> 0, eof |-> FALSE, fault |-> FALSE]

Separators(buffer) == {k \in DOMAIN buffer : buffer[k] \in {CR, LF}}

FirstOf(S) == CHOOSE k \in S : \A j \in S : k <= j

\* Seeded fault: a CR that ends the buffer is taken for a whole separator.
LineReadyAtOnce(r) == Separators(r.buffer) # {}

\* _pop_line finds a line: a CR that ends the buffer may be half of a CRLF.
LineReady(r) ==
  /\ Separators(r.buffer) # {}
  /\ LET k == FirstOf(Separators(r.buffer))
     IN  r.buffer[k] = CR /\ k = Len(r.buffer) => r.eof

SeparatorBytes(buffer, k) ==
  IF buffer[k] = CR /\ k < Len(buffer) /\ buffer[k + 1] = LF THEN 2 ELSE 1

\* _dispatch.
Dispatched(r) == [r EXCEPT !.data = <<>>, !.bytes = 0]

\* _consume_line, except for the dispatch that an empty line asks for.
Collected(r, line, bytes) ==
  CASE r.bytes + bytes > MaxEventBytes -> [r EXCEPT !.fault = TRUE]
    [] r.bytes + bytes <= MaxEventBytes /\ line = <<>> -> [r EXCEPT !.bytes = 0]
    [] r.bytes + bytes <= MaxEventBytes /\ line # <<>> /\ line[1].field = "garbage" ->
         [r EXCEPT !.fault = TRUE]
    [] OTHER -> [r EXCEPT !.bytes = @ + bytes,
                          !.data = IF line[1].field = "data" THEN Append(@, line[1].value) ELSE @]

\* One round of the loops of __anext__: r is the reader afterwards, event the
\* data of the event it returns (<<>> for none) and more whether it goes on
\* without reading a chunk.
Round(r) ==
  LET k == FirstOf(Separators(r.buffer))
      sep == SeparatorBytes(r.buffer, k)
      line == SubSeq(r.buffer, 1, k - 1)
      rest == [r EXCEPT !.buffer = SubSeq(@, k + sep, Len(@))]
  IN  IF LineReady(r)
      THEN IF line = <<>> /\ r.data # <<>> /\ r.bytes + sep <= MaxEventBytes
           THEN [r |-> Dispatched(rest), event |-> r.data, more |-> FALSE]
           ELSE LET next == Collected(rest, line, Len(line) + sep)
                IN  [r |-> next, event |-> <<>>, more |-> ~next.fault]
      ELSE IF ~r.eof
      THEN [r |-> r, event |-> <<>>, more |-> FALSE]
      ELSE IF r.buffer # <<>>
      THEN LET next == Collected([r EXCEPT !.buffer = <<>>], r.buffer, Len(r.buffer))
           IN  [r |-> next, event |-> <<>>, more |-> ~next.fault]
      ELSE [r |-> Dispatched(r), event |-> r.data, more |-> FALSE]

\* __anext__ up to the point where it returns an event, fails, stops or needs
\* a chunk.  Every round but the last takes a line off the buffer.
NextEvent(r) ==
  LET Loop[k \in 0..Len(r.buffer) + 1] ==
        IF k = 0 THEN [r |-> r, event |-> <<>>, more |-> TRUE]
        ELSE IF Loop[k - 1].more THEN Round(Loop[k - 1].r) ELSE Loop[k - 1]
  IN  Loop[Len(r.buffer) + 1]

\* __anext__ with the chunk it waited for.  What stays in the buffer without
\* completing an event is bounded too.
Received(r, chunk) ==
  LET next == NextEvent([r EXCEPT !.buffer = @ \o chunk])
  IN  IF next.event = <<>> /\ next.r.bytes + Len(next.r.buffer) > MaxEventBytes
      THEN [next EXCEPT !.r.fault = TRUE]
      ELSE next

\* __anext__ when the chunk iterator ends.
Ended(r) == NextEvent([r EXCEPT !.eof = TRUE])

=============================================================================

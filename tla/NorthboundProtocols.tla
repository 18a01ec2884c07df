------------------------- MODULE NorthboundProtocols -------------------------
(***************************************************************************)
(* The northbound encoders of the gateway API: the native event stream     *)
(* (stream_generate.py), OpenAI Responses (openai_responses_ingress.py),   *)
(* Anthropic Messages (anthropic_messages_ingress.py) and chat completions *)
(* (openai_compatible_ingress.py), streamed and aggregated, as functions   *)
(* from a generator's locals and one gateway event to the locals           *)
(* afterwards and the frames it yields.                                    *)
(*                                                                         *)
(* A gateway event is [type, id, value, sequence, evidence]: id the tool   *)
(* call it is about, value a sequence of pieces of text or arguments,      *)
(* evidence the ProviderExecution of a terminal event, if it has one.      *)
(***************************************************************************)
EXTENDS Naturals, Sequences, SequencesExt, FiniteSets, TLC

Protocols == {"native", "responses", "messages", "chat"}

NoIndex == 99     \* no output index or content block

\* A frame; failure marks a TerminalFailureFrame, output what a final
\* response object holds: [index, id, value] with id 0 for the message.
Frame(type, sequence, index, id, value) ==
  [type |-> type, sequence |-> sequence, index |-> index, id |-> id, value |-> value,
   failure |-> FALSE, output |-> <<>>, evidence |-> <<>>]

\* The locals of an encoder: the last sequence number, the next index, the
\* message's index, the text so far, the calls' indexes, the completed items
\* and calls, and whether a call was seen.
NewEncoder ==
  [sequence |-> 0, next |-> 0, textAt |-> NoIndex, text |-> <<>>, at |-> <<>>,
   completed |-> <<>>, calls |-> <<>>, called |-> FALSE, usage |-> FALSE]

Yield(w, frames) == [w |-> w, frames |-> frames]

-----------------------------------------------------------------------------
(* The native stream: _encode_sse and _event_payload.                      *)

Native(w, e) ==
  Yield(w, <<[Frame(e.type, e.sequence, NoIndex, e.id, e.value)
                EXCEPT !.failure = e.type = "failed", !.evidence = e.evidence]>>)

-----------------------------------------------------------------------------
(* OpenAI Responses.  Every frame takes the next sequence number.          *)

Numbered(w, frames) ==
  Yield([w EXCEPT !.sequence = @ + Len(frames)],
        [k \in DOMAIN frames |-> [frames[k] EXCEPT !.sequence = w.sequence + k]])

\* The first delta opens the message item and its part; text that follows a
\* call still goes to that item.
ResponsesText(w, e) ==
  LET opens == w.textAt = NoIndex
      u == [w EXCEPT !.textAt = IF opens THEN w.next ELSE @, !.next = IF opens THEN @ + 1 ELSE @,
                     !.text = @ \o e.value]
  IN  Numbered(u, (IF opens THEN << Frame("item.added", 0, w.next, 0, <<>>),
                                    Frame("part.added", 0, w.next, 0, <<>>) >> ELSE <<>>)
                  \o <<Frame("text.delta", 0, u.textAt, 0, e.value)>>)

ResponsesCall(w, e) ==
  Numbered([w EXCEPT !.next = @ + 1, !.at = (e.id :> w.next) @@ @],
           <<Frame("item.added", 0, w.next, e.id, <<>>)>>)

ResponsesArguments(w, e) ==
  Numbered(w, <<Frame("arguments.delta", 0, w.at[e.id], e.id, e.value)>>)

ResponsesCalled(w, e) ==
  LET item == [index |-> w.at[e.id], id |-> e.id, value |-> e.value]
  IN  Numbered([w EXCEPT !.completed = (item.index :> item) @@ @],
               << Frame("arguments.done", 0, item.index, e.id, e.value),
                  Frame("item.done", 0, item.index, e.id, e.value) >>)

\* response.completed: the message item is closed, and the items are listed
\* by index.
ResponsesCompleted(w) ==
  LET message == [index |-> w.textAt, id |-> 0, value |-> w.text]
      items == IF w.textAt = NoIndex THEN w.completed ELSE (w.textAt :> message) @@ w.completed
      order == SetToSortSeq(DOMAIN items, <)
  IN  Numbered([w EXCEPT !.completed = items],
               (IF w.textAt = NoIndex THEN <<>>
                ELSE << Frame("text.done", 0, w.textAt, 0, w.text),
                        Frame("part.done", 0, w.textAt, 0, w.text),
                        Frame("item.done", 0, w.textAt, 0, w.text) >>)
               \o <<[Frame("completed", 0, NoIndex, 0, <<>>)
                       EXCEPT !.output = [k \in DOMAIN order |-> items[order[k]]]]>>)

\* _openai_stream.
Responses(w, e) ==
  CASE e.type = "started" -> Numbered(w, <<Frame("created", 0, NoIndex, 0, <<>>)>>)
    [] e.type = "text" -> ResponsesText(w, e)
    [] e.type = "call" -> ResponsesCall(w, e)
    [] e.type = "arguments" -> ResponsesArguments(w, e)
    [] e.type = "called" -> ResponsesCalled(w, e)
    [] e.type = "usage" -> Yield([w EXCEPT !.usage = TRUE], <<>>)
    [] e.type = "completed" -> ResponsesCompleted(w)
    [] e.type = "failed" ->
         Numbered(w, <<[Frame("failed", 0, NoIndex, 0, <<>>) EXCEPT !.failure = TRUE]>>)

-----------------------------------------------------------------------------
(* Anthropic Messages.  Content blocks are numbered as they open; a text   *)
(* block is closed by the call that follows it, or at the end.             *)

Block(type, index, id, value) == Frame(type, 0, index, id, value)

\* Seeded fault: a call does not close the open text block.
ClosingNothing(w) == <<>>

\* _anthropic_block_stop of the open text block, if there is one.
ClosingText(w) ==
  IF w.textAt = NoIndex THEN <<>> ELSE <<Block("block.stop", w.textAt, 0, <<>>)>>

MessagesText(w, e) ==
  LET opens == w.textAt = NoIndex
      u == [w EXCEPT !.textAt = IF opens THEN w.next ELSE @, !.next = IF opens THEN @ + 1 ELSE @]
  IN  Yield(u, (IF opens THEN <<Block("block.start", u.textAt, 0, <<>>)>> ELSE <<>>)
               \o <<Block("block.delta", u.textAt, 0, e.value)>>)

MessagesCall(w, e) ==
  Yield([w EXCEPT !.called = TRUE, !.textAt = NoIndex, !.next = @ + 1, !.at = (e.id :> w.next) @@ @],
        ClosingText(w) \o <<Block("block.start", w.next, e.id, <<>>)>>)

\* _anthropic_stop_reason: a call wins over the provider's reason.
StopReason(calls) == IF calls THEN <<"tool_use">> ELSE <<"end_turn">>

MessagesCompleted(w) ==
  Yield([w EXCEPT !.textAt = NoIndex],
        ClosingText(w) \o << Block("message.delta", NoIndex, 0, StopReason(w.called)),
                             Block("message.stop", NoIndex, 0, <<>>) >>)

\* _anthropic_stream.
Messages(w, e) ==
  CASE e.type = "started" -> Yield(w, <<Block("message.start", NoIndex, 0, <<>>)>>)
    [] e.type = "text" -> MessagesText(w, e)
    [] e.type = "call" -> MessagesCall(w, e)
    [] e.type = "arguments" -> Yield(w, <<Block("block.delta", w.at[e.id], e.id, e.value)>>)
    [] e.type = "called" -> Yield(w, <<Block("block.stop", w.at[e.id], e.id, <<>>)>>)
    [] e.type = "usage" -> Yield([w EXCEPT !.usage = TRUE], <<>>)
    [] e.type = "completed" -> MessagesCompleted(w)
    [] e.type = "failed" -> Yield(w, <<[Block("error", NoIndex, 0, <<>>) EXCEPT !.failure = TRUE]>>)

-----------------------------------------------------------------------------
(* Chat completions: text only, and a sentinel after whatever came last.   *)

Chunk(type, value) == Frame(type, 0, NoIndex, 0, value)

Sentinel(failed) == [Chunk("sentinel", <<>>) EXCEPT !.failure = failed]

\* _chunk_for, and the end of _chunk_stream.
Chat(w, e) ==
  CASE e.type = "text" -> Yield(w, <<Chunk("chunk", e.value)>>)
    [] e.type = "usage" -> Yield([w EXCEPT !.usage = TRUE], <<Chunk("usage", <<>>)>>)
    [] e.type = "completed" -> Yield(w, <<Chunk("finish", <<>>), Sentinel(FALSE)>>)
    [] e.type = "failed" ->
         Yield(w, <<[Chunk("error", <<>>) EXCEPT !.failure = TRUE], Sentinel(TRUE)>>)
    [] OTHER -> Yield(w, <<>>)

-----------------------------------------------------------------------------
(* The aggregates: one body once the stream has ended.  A failure becomes  *)
(* a 504 or 502 whatever was collected before it.                          *)

Collect(w, e) ==
  CASE e.type = "text" -> [w EXCEPT !.text = @ \o e.value]
    [] e.type = "called" -> [w EXCEPT !.calls = Append(@, [id |-> e.id, value |-> e.value])]
    [] e.type = "usage" -> [w EXCEPT !.usage = TRUE]
    [] OTHER -> w

ErrorBody(e) ==
  [Frame("error", 0, NoIndex, 0, <<>>) EXCEPT !.value = IF e.value = <<"deadline">> THEN <<"504">> ELSE <<"502">>]

\* Seeded fault: a body holds the text or the calls.
BodyOfEither(w, calls) ==
  [Frame("body", 0, NoIndex, 0, <<>>)
     EXCEPT !.output = IF w.text # <<>> THEN <<[index |-> 0, id |-> 0, value |-> w.text]>>
                       ELSE [k \in DOMAIN calls |-> [index |-> k, id |-> calls[k].id, value |-> calls[k].value]]]

\* The message first, then the calls; chat completions have no calls.
Body(w, calls) ==
  LET message == IF w.text = <<>> THEN <<>> ELSE <<[index |-> 0, id |-> 0, value |-> w.text]>>
  IN  [Frame("body", 0, NoIndex, 0, <<>>)
         EXCEPT !.output = message \o [k \in DOMAIN calls |->
                                          [index |-> k, id |-> calls[k].id, value |-> calls[k].value]]]

\* _openai_aggregate.
ResponsesAggregate(w, e) ==
  CASE e.type = "completed" -> Yield(w, <<Body(w, w.calls)>>)
    [] e.type = "failed" -> Yield(w, <<ErrorBody(e)>>)
    [] OTHER -> Yield(Collect(w, e), <<>>)

\* _anthropic_aggregate; its stop reason looks at the calls completed.
MessagesAggregate(w, e) ==
  CASE e.type = "completed" ->
         Yield(w, <<[Body(w, w.calls) EXCEPT !.value = StopReason(w.calls # <<>>)]>>)
    [] e.type = "failed" -> Yield(w, <<ErrorBody(e)>>)
    [] OTHER -> Yield(Collect(w, e), <<>>)

\* _aggregate_completion.
ChatAggregate(w, e) ==
  CASE e.type = "completed" -> Yield(w, <<Body(w, <<>>)>>)
    [] e.type = "failed" -> Yield(w, <<ErrorBody(e)>>)
    [] OTHER -> Yield(Collect(w, e), <<>>)

\* The body of the route's response; the native route only streams.
Encode(protocol, streamed, w, e) ==
  CASE protocol = "native" -> Native(w, e)
    [] protocol = "responses" /\ streamed -> Responses(w, e)
    [] protocol = "messages" /\ streamed -> Messages(w, e)
    [] protocol = "chat" /\ streamed -> Chat(w, e)
    [] protocol = "responses" /\ ~streamed -> ResponsesAggregate(w, e)
    [] protocol = "messages" /\ ~streamed -> MessagesAggregate(w, e)
    [] protocol = "chat" /\ ~streamed -> ChatAggregate(w, e)

=============================================================================

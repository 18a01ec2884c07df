--------------------------- MODULE GatewayPipeline ---------------------------
(***************************************************************************)
(* One generation request from the caller's body to the caller's stream:   *)
(* the northbound models and provider adapters (RequestTranslation), the   *)
(* provider's bytes (SseReader), the adapter's normalization               *)
(* (ProviderStreams), the rules of StreamingExecutionService for one       *)
(* deployment, the northbound encoders (NorthboundProtocols), the          *)
(* deadline-bounded delivery (deadline_response.py) and the client SDK.    *)
(*                                                                         *)
(* Every generator is pulled: a frame is sent before the next event is     *)
(* taken, and an event is taken before the next one is read.               *)
(***************************************************************************)
EXTENDS RequestTranslation, SseReader, ProviderStreams, StreamClients

CONSTANTS Settings,      \* the kind of request and deployment a behaviour is about
          Posts,         \* what callers post
          Replies,       \* what a unary call may be answered
          MaxAttempts,   \* max_attempts_per_deployment
          MaxChunk       \* bound of the network: bytes per chunk

VARIABLES pc,        \* where the request is
          setting,   \* [kind, protocol, streamed, tools, structured, bounded, cached,
                     \* framing], and texts and calls, bounds of what the provider says
          post,      \* what was posted, until it is executed
          payload,   \* the blocks of the prepared provider payload
          src,       \* the provider's side: adapter, reader, bytes, normalized events
          exec,      \* the locals of _stream
          out,       \* encoder, frames yielded, frames sent, and how delivery ended
          said,      \* what the provider has said in this attempt
          unary      \* the outcome of a unary call

vars == <<pc, setting, post, payload, src, exec, out, said, unary>>

NoPost == [content |-> <<>>, tools |-> FALSE, structured |-> FALSE, tool |-> "closed",
           document |-> "closed", claims |-> {}, old |-> FALSE]

\* The connection, the adapter on it, and what it has yielded or raised.
NoSource ==
  [up |-> "none", a |-> NewAdapter, reader |-> NewReader, bytes |-> <<>>, ended |-> FALSE,
   todo |-> <<>>, error |-> "none"]

NewExec ==
  [attempt |-> 1, replay |-> TRUE, started |-> FALSE, public |-> FALSE, semantic |-> FALSE,
   usage |-> FALSE, sequence |-> 0, ended |-> FALSE, hit |-> <<>>]

NewOutput ==
  [w |-> NewEncoder, frames |-> <<>>, wire |-> <<>>, expired |-> FALSE, cut |-> "none"]

\* Calls by their index, with the name and the fragments; loose is a provider
\* that completes a call twice or leaves one open.
Nothing == [text |-> <<>>, calls |-> <<>>, done |-> {}, loose |-> FALSE, other |-> {}]

Init ==
  /\ pc = "new"
  /\ setting \in Settings
  /\ post = NoPost
  /\ payload = {}
  /\ src = NoSource
  /\ exec = NewExec
  /\ out = NewOutput
  /\ said = Nothing
  /\ unary = Reply("none", <<>>, <<>>)

-----------------------------------------------------------------------------
(* Before HTTP commit.                                                     *)

\* A body arrives.
Post ==
  /\ pc = "new"
  /\ \E p \in Posts : post' = [p EXCEPT !.tools = setting.tools, !.structured = setting.structured]
  /\ pc' = "posted"
  /\ UNCHANGED <<setting, payload, src, exec, out, said, unary>>

\* Translation to the contract, then prepare_stream: a 422 or a 503, or a plan.
Prepare ==
  /\ pc = "posted"
  /\ IF Submitted(setting.protocol, post) /\ Prepared(setting.kind, post)
     THEN /\ pc' = "ready"
          /\ payload' = Carried(setting.kind, Translated(setting.protocol, post).content)
          /\ UNCHANGED post
     ELSE /\ pc' = "refused"
          /\ post' = NoPost
          /\ UNCHANGED payload
  /\ UNCHANGED <<setting, src, exec, out, said, unary>>

\* A caller of the adapter's generate instead of a stream.
CallUnary(reply) ==
  /\ pc = "ready"
  /\ unary' = Generate(setting.kind, reply, setting)
  /\ pc' = "answered"
  /\ post' = NoPost
  /\ payload' = {}
  /\ UNCHANGED <<setting, src, exec, out, said>>

\* _cached_events: a stored completion as one text.
CachedEvents ==
  <<Out("started", 0, <<>>), Out("text", 0, <<"good">>), Out("usage", 0, <<>>), Out("completed", 0, <<>>)>>

\* The response begins, with a stored answer or the first attempt.  A request
\* has a cache identity only when it is text without tools or a schema.
Begin(hit) ==
  /\ pc = "ready"
  /\ hit => setting.cached /\ ~setting.tools /\ ~setting.structured /\ ~Has(post, BlockKinds \ {"text"})
  /\ exec' = [NewExec EXCEPT !.replay = ReplaySafe(post.content), !.hit = IF hit THEN CachedEvents ELSE <<>>]
  /\ said' = IF hit THEN [Nothing EXCEPT !.text = <<"good">>] ELSE Nothing
  /\ pc' = "open"
  /\ post' = NoPost
  /\ payload' = {}
  /\ UNCHANGED <<setting, src, out, unary>>

-----------------------------------------------------------------------------
(* The executor.                                                           *)

\* The ProviderExecution of an attempt.
Execution(status, cached) == <<[status |-> status, usage |-> exec.usage, cached |-> cached]>>

\* What the encoder makes of a gateway event.
Emit(e, sequence, evidence) ==
  Encode(setting.protocol, setting.streamed, out.w,
         [type |-> e.type, id |-> e.id, value |-> e.value, sequence |-> sequence, evidence |-> evidence])

\* The encoder has yielded what it makes of one gateway event.
Published(step) == [out EXCEPT !.w = step.w, !.frames = step.frames]

Ending(x) == [x EXCEPT !.ended = TRUE]
Closed(s) == [s EXCEPT !.up = "closed", !.todo = <<>>, !.bytes = <<>>, !.reader = NewReader,
                       !.a = NewAdapter, !.error = "none"]

\* can_retry; the circuit is closed.
Retriable(code) ==
  ~exec.semantic /\ code \in Transient /\ exec.replay /\ exec.attempt < MaxAttempts

\* Seeded fault: a failure is numbered as a first event.
FailureNumberFirst == 1

\* The number of a failure is that of a first event unless there was output.
FailureNumber == IF exec.semantic THEN exec.sequence + 1 ELSE 1

\* A ProviderError: the next attempt, or a terminal failure.
Fail(code) ==
  IF Retriable(code)
  THEN /\ exec' = [NewExec EXCEPT !.attempt = exec.attempt + 1]
       /\ src' = NoSource
       /\ said' = Nothing
       /\ UNCHANGED out
  ELSE /\ exec' = Ending(exec)
       /\ src' = Closed(src)
       /\ out' = Published(Emit(Out("failed", 0, <<>>), FailureNumber, Execution("failed", FALSE)))
       /\ UNCHANGED said

SemanticTypes == {"text", "call", "arguments", "called"}

\* The rules of _stream for one normalized event.
Misplaced(e) ==
  CASE e.type = "started" -> exec.started
    [] e.type \in SemanticTypes -> ~exec.started
    [] e.type = "usage" -> ~exec.started \/ exec.usage \/ ~exec.semantic
    [] e.type = "completed" -> ~exec.started \/ ~exec.semantic \/ ~exec.usage \/ ~exec.public

\* The pull is live: the response goes on and nothing waits to be sent.
Pulling == pc = "open" /\ ~exec.ended /\ out.frames = <<>> /\ ~out.expired

\* The first semantic event announces the response and is kept for the next
\* pull; completion records success and ends the stream.
Take ==
  /\ Pulling
  /\ src.todo # <<>>
  /\ LET e == Head(src.todo)
         rest == [src EXCEPT !.todo = Tail(@)]
     IN  \/ /\ Misplaced(e)
            /\ Fail("invalid_response")
         \/ /\ ~Misplaced(e)
            /\ e.type = "started"
            /\ exec' = [exec EXCEPT !.started = TRUE]
            /\ src' = rest
            /\ UNCHANGED <<out, said>>
         \/ /\ ~Misplaced(e)
            /\ e.type \in SemanticTypes /\ ~exec.public
            /\ exec' = [exec EXCEPT !.public = TRUE, !.semantic = TRUE, !.sequence = @ + 1]
            /\ out' = Published(Emit(Out("started", 0, <<>>), exec'.sequence, <<>>))
            /\ UNCHANGED <<src, said>>
         \/ /\ ~Misplaced(e)
            /\ e.type \in SemanticTypes \cup {"usage"} /\ exec.public
            /\ exec' = [exec EXCEPT !.usage = @ \/ e.type = "usage", !.sequence = @ + 1]
            /\ out' = Published(Emit(e, exec'.sequence, <<>>))
            /\ src' = rest
            /\ UNCHANGED said
         \/ /\ ~Misplaced(e)
            /\ e.type = "completed"
            /\ exec' = Ending([exec EXCEPT !.sequence = @ + 1])
            /\ out' = Published(Emit(e, exec'.sequence, Execution("succeeded", FALSE)))
            /\ src' = Closed(src)
            /\ UNCHANGED said
  /\ UNCHANGED <<pc, setting, post, payload, unary>>

\* A stored answer is published event by event.
Replay ==
  /\ Pulling
  /\ exec.hit # <<>>
  /\ LET e == Head(exec.hit)
         last == e.type = "completed"
     IN  /\ exec' = [exec EXCEPT !.hit = Tail(@), !.sequence = @ + 1, !.ended = last,
                                 !.usage = @ \/ e.type = "usage"]
         /\ out' = Published(Emit(e, exec'.sequence, IF last THEN Execution("succeeded", TRUE) ELSE <<>>))
  /\ UNCHANGED <<pc, setting, post, payload, src, said, unary>>

\* The adapter raised, after what it had yielded.
Raised ==
  /\ Pulling
  /\ src.todo = <<>> /\ src.error # "none"
  /\ Fail(src.error)
  /\ UNCHANGED <<pc, setting, post, payload, unary>>

-----------------------------------------------------------------------------
(* The provider.                                                           *)

Reading == Pulling /\ exec.hit = <<>> /\ src.todo = <<>> /\ src.error = "none"

\* open_provider_sse: a stream, a status that is not 2xx, or no connection.
Connect ==
  /\ Reading /\ src.up = "none"
  /\ src' = [src EXCEPT !.up = "open"]
  /\ UNCHANGED <<pc, setting, post, payload, exec, out, said, unary>>

Refuse(status) ==
  /\ Reading /\ src.up = "none"
  /\ Fail(IF status = "network" THEN TransportError(status) ELSE StatusError(status))
  /\ UNCHANGED <<pc, setting, post, payload, unary>>

\* The raw events a provider of this kind may send next.  It may send them in
\* any order; it numbers its calls from 1, opens each once and sends the
\* arguments of a call once.  OpenAI may complete a call a second time.
Fragments == IF setting.structured \/ said.calls = <<>> THEN {"args", "wrong", "half"} ELSE {"args"}

Texts == IF setting.structured THEN {"good", "bad"} ELSE {"good"}

\* Kinds of events that matter only once.
Once(type) == type \notin said.other

Opening ==
  {Raw("call", Len(said.calls) + 1, name, <<>>) :
     name \in IF said.calls = <<>> THEN {"declared", "undeclared", "missing"} ELSE {"declared"}}

Offered(kind) ==
  LET mine == DOMAIN said.calls
      texts == IF Len(said.text) < setting.texts THEN {Raw("text", 0, "", <<t>>) : t \in Texts} ELSE {}
      calls == IF Len(said.calls) < setting.calls THEN Opening ELSE {}
      arguments == {Raw("arguments", k, "", <<f>>) : k \in {j \in mine : said.calls[j].value = <<>>}, f \in Fragments}
      whole == IF Len(said.calls) < setting.calls
               THEN {Raw("whole", Len(said.calls) + 1, n, <<f>>) : n \in {"declared", "missing"}, f \in Fragments}
               ELSE {}
      plain(types) == {Raw(t, 0, "", <<>>) : t \in {u \in types : Once(u)}}
      stops == {Raw("stop", k, "", <<>>) : k \in mine \ said.done}
      dones == {Raw("stop", k, "", said.calls[k].value) : k \in {j \in mine : ~said.loose}}
      start == IF Once("start") \/ ~exec.semantic THEN {Raw("start", 0, "", <<>>)} ELSE {}
      breaks == {Raw(t, 0, "", <<>>) : t \in {"timeout", "garbage", "eof", "overloaded"}}
  IN  breaks \cup texts \cup
      CASE kind = "anthropic" -> start \cup calls \cup arguments \cup stops
                                 \cup plain({"ping", "hosted", "finish", "failed"}) \cup {Raw("end", 0, "", <<>>)}
        [] kind = "openai" -> start \cup calls \cup arguments \cup dones \cup plain({"ping"})
                              \cup {Raw("end", 0, "", u) : u \in {<<"usage">>, <<>>}}
        [] kind = "gemini" -> whole \cup plain({"finish", "usage", "limited", "failed"})
        [] kind = "compatible" -> calls \cup arguments \cup plain({"finish", "usage"}) \cup {Raw("end", 0, "", <<>>)}

\* What a raw event adds to what the provider has said.
Heard(e) ==
  CASE e.type = "text" -> [said EXCEPT !.text = @ \o e.value]
    [] e.type = "call" -> [said EXCEPT !.calls = Append(@, [name |-> e.name, value |-> <<>>])]
    [] e.type = "whole" -> [said EXCEPT !.calls = Append(@, [name |-> e.name, value |-> e.value]),
                                        !.done = @ \cup {e.id}]
    [] e.type = "arguments" -> [said EXCEPT !.calls[e.id].value = @ \o e.value]
    [] e.type = "stop" -> [said EXCEPT !.loose = @ \/ e.id \in said.done, !.done = @ \cup {e.id}]
    [] e.type = "end" /\ setting.kind = "compatible" -> [said EXCEPT !.done = DOMAIN said.calls]
    [] e.type = "end" /\ setting.kind = "openai" ->
         [said EXCEPT !.loose = @ \/ said.done # DOMAIN said.calls]
    [] OTHER -> [said EXCEPT !.other = @ \cup {e.type}]

\* The adapter handles one raw event; when it is over its finally clause has
\* closed the connection.
Adapted(e) ==
  LET result == Adapt(setting.kind, src.a, e, setting)
  IN  [src EXCEPT !.a = result.a, !.todo = result.out, !.error = result.error,
                  !.up = IF result.over THEN "closed" ELSE @]

\* A raw event arrives whole.
Read(e) ==
  /\ Reading /\ src.up = "open" /\ setting.framing = "whole"
  /\ src' = Adapted(e)
  /\ said' = Heard(e)
  /\ UNCHANGED <<pc, setting, post, payload, exec, out, unary>>

\* The bytes of a raw event: its JSON over two data lines, an empty line after.
Separator == CASE setting.framing = "lf" -> <<LF>>
               [] setting.framing = "cr" -> <<CR>>
               [] OTHER -> <<CR, LF>>

Line(field, value) == <<[field |-> field, value |-> value]>> \o Separator

Written(e) == Line("data", <<e, 1>>) \o Line("data", <<e, 2>>) \o Separator

\* parse_sse_json: half an event is no JSON.
Parsed(data) ==
  IF Len(data) = 2 /\ data[1][1] = data[2][1] /\ data[1][2] = 1 /\ data[2][2] = 2
  THEN data[1][1]
  ELSE Raw("garbage", 0, "", <<>>)

Framed == pc = "open" /\ ~exec.ended /\ src.up = "open" /\ setting.framing # "whole"

\* The provider writes an event, a comment or the end of its stream.
Transmit(e) ==
  /\ Framed /\ ~src.ended /\ Len(src.bytes) <= MaxChunk
  /\ src' = CASE e.type = "eof" -> [src EXCEPT !.ended = TRUE]
              [] e.type = "ping" -> [src EXCEPT !.bytes = @ \o Line("comment", <<e, 1>>)]
              [] OTHER -> [src EXCEPT !.bytes = @ \o Written(e)]
  /\ said' = Heard(e)
  /\ UNCHANGED <<pc, setting, post, payload, exec, out, unary>>

\* What a framed provider may still write.
Spoken ==
  (IF Len(said.text) < setting.texts THEN {Raw("text", 0, "", <<"good">>)} ELSE {})
  \cup {Raw(t, 0, "", <<>>) : t \in {u \in {"ping", "finish", "usage", "eof"} : Once(u)}}

\* __anext__ of the reader, with a chunk of n bytes when it needs one.
ReadChunk(n) ==
  /\ Framed /\ Reading
  /\ LET ready == NextEvent(src.reader)
         next == IF ready.event # <<>> THEN ready ELSE Received(src.reader, SubSeq(src.bytes, 1, n))
         got == [Adapted(IF next.r.fault THEN Raw("oversize", 0, "", <<>>) ELSE Parsed(next.event))
                   EXCEPT !.reader = next.r]
         left == IF ready.event # <<>> THEN src.bytes ELSE SubSeq(src.bytes, n + 1, Len(src.bytes))
     IN  /\ ready.event = <<>> => n <= Len(src.bytes)
         /\ src' = IF next.event = <<>> /\ ~next.r.fault
                   THEN [src EXCEPT !.reader = next.r, !.bytes = left]
                   ELSE [got EXCEPT !.bytes = left]
  /\ UNCHANGED <<pc, setting, post, payload, exec, out, said, unary>>

\* The chunk iterator ends; what is left is dispatched once.
ChunksEnd ==
  /\ Framed /\ Reading /\ src.ended /\ src.bytes = <<>>
  /\ NextEvent(src.reader).event = <<>>
  /\ LET last == Ended(src.reader)
     IN  src' = [Adapted(IF last.event = <<>> THEN Raw("eof", 0, "", <<>>) ELSE Parsed(last.event))
                   EXCEPT !.reader = last.r]
  /\ UNCHANGED <<pc, setting, post, payload, exec, out, said, unary>>

-----------------------------------------------------------------------------
(* Delivery.                                                               *)

\* The deadline passes.
Expire ==
  /\ pc = "open" /\ setting.bounded /\ ~out.expired
  /\ out' = [out EXCEPT !.expired = TRUE]
  /\ UNCHANGED <<pc, setting, post, payload, src, exec, said, unary>>

\* A pull past the deadline ends in the deadline failure.
Overdue ==
  /\ pc = "open" /\ ~exec.ended /\ out.frames = <<>> /\ out.expired
  /\ exec' = Ending(exec)
  /\ src' = Closed(src)
  /\ out' = Published(Emit(Out("failed", 0, <<"deadline">>), exec.sequence + 1, <<>>))
  /\ UNCHANGED <<pc, setting, post, payload, said, unary>>

\* Seeded fault: every frame is sent outside the budget.
DeliverableAnytime(f) == TRUE

\* An ordinary frame is sent under the deadline, a failure frame outside it.
Deliverable(f) == setting.streamed /\ out.expired => f.failure

Stop(reason) ==
  /\ pc' = "over"
  /\ src' = Closed(src)
  /\ out' = [out EXCEPT !.cut = reason, !.frames = <<>>]

\* One chunk of stream_response, or the body of an aggregated response.
Send ==
  /\ pc = "open" /\ out.frames # <<>>
  /\ IF Deliverable(Head(out.frames))
     THEN /\ out' = [out EXCEPT !.frames = Tail(@),
                                !.wire = Append(@, [frame |-> Head(out.frames), late |-> out.expired])]
          /\ UNCHANGED <<pc, src>>
     ELSE Stop("deadline")
  /\ UNCHANGED <<setting, post, payload, exec, said, unary>>

Finish ==
  /\ pc = "open" /\ exec.ended /\ out.frames = <<>>
  /\ pc' = "over"
  /\ UNCHANGED <<setting, post, payload, src, exec, out, said, unary>>

\* The client goes away, or the grace of terminal delivery runs out: the body
\* is closed, and with it every generator below it.
Abandon(reason) ==
  /\ pc = "open" /\ setting.streamed
  /\ reason = "grace" => out.expired
  /\ pc' = "over"
  /\ src' = Closed(NoSource)
  /\ exec' = Ending(NewExec)
  /\ out' = [NewOutput EXCEPT !.cut = reason]
  /\ said' = Nothing
  /\ UNCHANGED <<setting, post, payload, unary>>

Done ==
  /\ pc \in {"refused", "answered", "over"}
  /\ UNCHANGED vars

Next ==
  \/ Post \/ Prepare
  \/ \E hit \in BOOLEAN : Begin(hit)
  \/ \E reply \in Replies : CallUnary(reply)
  \/ Connect
  \/ \E status \in {"unauthorized", "limited", "network"} : Refuse(status)
  \/ \E e \in Offered(setting.kind) : Read(e)
  \/ \E e \in Spoken : Transmit(e)
  \/ \E n \in 1..MaxChunk : ReadChunk(n)
  \/ ChunksEnd
  \/ Take \/ Replay \/ Raised \/ Expire \/ Overdue \/ Send \/ Finish
  \/ \E reason \in {"disconnect", "grace"} : Abandon(reason)
  \/ Done

Spec == Init /\ [][Next]_vars

-----------------------------------------------------------------------------
(* Properties.                                                             *)

\* What the client has been sent.
Frames == [k \in DOMAIN out.wire |-> out.wire[k].frame]

Pieces(frames) == FlattenSeq([k \in DOMAIN frames |-> frames[k].value])
Of(types) == SelectSeq(Frames, LAMBDA f : f.type \in types)

\* The response ended as a success, as its protocol says it.
Succeeded ==
  /\ pc = "over" /\ Frames # <<>>
  /\ IF setting.protocol = "chat" /\ setting.streamed
     THEN Of({"finish"}) # <<>> /\ Last(Frames).type = "sentinel"
     ELSE Last(Frames).type \in {"completed", "message.stop", "body"}

Completions == {[id |-> k, value |-> said.calls[k].value] : k \in said.done}

ItemsOf(output) == {[id |-> output[k].id, value |-> output[k].value] : k \in {j \in DOMAIN output : output[j].id # 0}}
MessageOf(output) == Pieces(SelectSeq(output, LAMBDA item : item.id = 0))

\* What a client of each protocol puts together from the frames.
ShownText ==
  CASE setting.protocol = "native" -> Pieces(Of({"text"}))
    [] ~setting.streamed -> MessageOf(Last(Frames).output)
    [] setting.protocol = "responses" /\ setting.streamed -> Pieces(Of({"text.delta"}))
    [] setting.protocol = "messages" /\ setting.streamed ->
         Pieces(SelectSeq(Of({"block.delta"}), LAMBDA f : f.id = 0))
    [] setting.protocol = "chat" /\ setting.streamed -> Pieces(Of({"chunk"}))

ShownCalls ==
  CASE setting.protocol = "native" -> SdkGenerate(Frames).calls
    [] setting.protocol = "responses" \/ ~setting.streamed -> ItemsOf(Last(Frames).output)
    [] setting.protocol = "messages" /\ setting.streamed ->
         {[id |-> k, value |-> Pieces(SelectSeq(Of({"block.delta"}), LAMBDA f : f.id = k))] :
            k \in {f.id : f \in ToSet(Of({"block.start"}))} \ {0}}

\* A client that is told of success has been given all the provider said in
\* the attempt that succeeded, and nothing of another attempt: text in order
\* and every call with its arguments, whatever the provider's API, the
\* chunks, the protocol and the retries.  The final Responses object agrees
\* with the deltas before it.
DeliveredAsProduced ==
  Succeeded /\ ~said.loose =>
    /\ ShownText = said.text
    /\ setting.protocol # "chat" => ShownCalls = Completions
    /\ Last(Frames).type = "completed" /\ setting.protocol = "responses" =>
         MessageOf(Last(Frames).output) = said.text

\* Frames of an index, in order.
At(index) == SelectSeq(Frames, LAMBDA f : f.index = index)
Indexes == {f.index : f \in ToSet(Frames)} \ {NoIndex}
Ends(frames) == Cardinality({k \in DOMAIN frames : frames[k].type \in {"item.done", "block.stop"}})

\* What the protocols' own clients rely on: an item or block is opened once,
\* before anything is said of it, and closed last and once; frames are
\* numbered without a gap; nothing follows the end; and a success leaves
\* nothing open.  A chat stream ends with its sentinel unless it was cut short,
\* and also when the deadline did and an error says so.
WireIsWellFormed ==
  setting.streamed =>
    /\ setting.protocol = "responses" => \A k \in DOMAIN Frames : Frames[k].sequence = k
    /\ \A k \in 1..(Len(Frames) - 1) :
         Frames[k].type \notin {"message.stop", "sentinel"}
         /\ (Frames[k].type \in {"completed", "failed", "error"} => setting.protocol = "chat")
    /\ \A i \in Indexes :
         /\ At(i)[1].type \in {"item.added", "block.start"}
         /\ \A k \in 2..Len(At(i)) : At(i)[k].type \notin {"item.added", "block.start"}
         /\ ~said.loose =>
              /\ Ends(At(i)) <= 1
              /\ Ends(At(i)) = 1 => Last(At(i)).type \in {"item.done", "block.stop"}
              /\ Succeeded => Ends(At(i)) = 1
    /\ setting.protocol = "chat" /\ pc = "over" =>
         \/ out.cut # "none" /\ (out.cut = "deadline" => Of({"error"}) = <<>>)
         \/ Last(Frames).type = "sentinel"

\* Requests as the console makes them.
OfConsole == setting.protocol = "native" /\ ~setting.tools /\ ~setting.structured

\* The SDK reads every native stream that was not cut short to its end, and
\* what it returns for a success is what the provider said, live or cached.
\* So does the console, for live answers without tool calls.
ClientsAcceptGateway ==
  setting.protocol = "native" /\ pc = "over" /\ out.cut = "none" =>
    LET c == SdkGenerate(Frames)
        shown == ConsoleGenerate(Frames)
    IN  /\ ~c.error
        /\ c.terminal[1].type = "completed" =>
             /\ c.text = said.text
             /\ ~said.loose => c.calls = Completions
             /\ OfConsole /\ Of({"call"}) = <<>> /\ ~Last(Frames).evidence[1].cached =>
                  shown.error = "none" /\ shown.content = said.text

\* The console shows the failure of a stream that failed as one.
ConsoleSurfacesFailure ==
  OfConsole /\ pc = "over" /\ out.cut = "none" /\ Of({"call"}) = <<>> /\ Of({"failed"}) # <<>> =>
    ConsoleGenerate(Frames).error = "stream_failed"

\* Arguments that meet the schema of a tool the request declared.
Sound(name, value) == setting.tools /\ name = "declared" /\ value \in {<<>>, <<"args">>}

\* No tool call is shown as complete, and no structured output as a success,
\* that its schema does not admit: in any stream, at any time, and in a unary
\* reply.
OutputIsValidated ==
  /\ \A f \in ToSet(Of({"called", "arguments.done"})) :
       Sound(said.calls[f.id].name, f.value)
  /\ Succeeded => \A k \in said.done : Sound(said.calls[k].name, said.calls[k].value)
  /\ Succeeded /\ setting.structured /\ said.done = {} =>
       said.text # <<>> /\ "bad" \notin ToSet(said.text)
  /\ pc = "answered" /\ unary.error = "none" =>
       /\ \A k \in DOMAIN unary.calls : Sound(unary.calls[k].name, unary.calls[k].value)
       /\ setting.structured /\ unary.calls = <<>> => unary.text # <<>> /\ "bad" \notin ToSet(unary.text)

\* What a block says, whichever word the caller's protocol has for its role.
Meant(b) == [b EXCEPT !.role = IF @ = "developer" THEN "system" ELSE @]

\* A request that reaches a provider carries every block its caller posted,
\* through two translations by two parties (the northbound model and the
\* provider adapter): what one cannot carry the request is refused for.
NothingIsDropped == pc = "ready" => payload = {Meant(b) : b \in ToSet(post.content)}

\* Neither the chunks a stream arrives in nor its line ends decide its fate: a
\* provider whose events fit the bound fails only by ending before it has said
\* all it must.
ChunksDoNotMatter ==
  /\ setting.framing # "whole" /\ pc = "over" /\ out.cut = "none" /\ exec.attempt = 1
  /\ said # Nothing
  => \/ Succeeded
     \/ "eof" \in said.other /\ ~(said.text # <<>> /\ {"finish", "usage"} \subseteq said.other)

\* Past the deadline a stream delivers the terminal failure and nothing else.
OnlyFailureAfterExpiry ==
  setting.streamed => \A k \in DOMAIN out.wire : out.wire[k].late => out.wire[k].frame.failure

=============================================================================

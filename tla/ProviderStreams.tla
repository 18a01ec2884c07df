--------------------------- MODULE ProviderStreams ---------------------------
(***************************************************************************)
(* The provider adapters (adapters/*_streaming.py and the unary adapters   *)
(* they extend): what each makes of its provider's own events, as          *)
(* functions from the adapter's locals and one raw event to the locals     *)
(* afterwards, the normalized events it yields and the error it raises.    *)
(*                                                                         *)
(* A raw event is [type, id, name, value]: id the tool call it is about,   *)
(* name whether the call names a declared tool, value pieces of text or    *)
(* of arguments.  A call's id is its index; a provider gives every call an *)
(* id of its own.                                                          *)
(***************************************************************************)
EXTENDS Naturals, Sequences, SequencesExt, FiniteSets, TLC

Kinds == {"anthropic", "openai", "gemini", "compatible"}

Raw(type, id, name, value) == [type |-> type, id |-> id, name |-> name, value |-> value]

\* ProviderStreamEvent.
Out(type, id, value) == [type |-> type, id |-> id, value |-> value]

\* The locals of _stream_prepared; tools are the calls begun and not popped.
NewAdapter ==
  [started |-> FALSE, semantic |-> FALSE, text |-> <<>>, tools |-> <<>>, calls |-> <<>>,
   finish |-> FALSE, usage |-> {}]

Go(a, out) == [a |-> a, out |-> out, error |-> "none", over |-> FALSE]
Raise(a, out, code) == [a |-> a, out |-> out, error |-> code, over |-> TRUE]
Over(a, out) == [a |-> a, out |-> out, error |-> "none", over |-> TRUE]

\* ProviderErrorCode: is_transient_provider_error.
Transient == {"timeout", "rate_limit", "transport", "unavailable"}

-----------------------------------------------------------------------------
(* Local validation (domain/structured.py).  "args" is a complete argument *)
(* object that meets the tool's schema, "wrong" one that does not, "half"  *)
(* no JSON; "good" and "bad" are pieces of a document.                     *)

\* Empty arguments are read as {}.
ArgumentsMeetSchema(value) == value \in {<<>>, <<"args">>}

\* Seeded fault: arguments are checked against no schema.
ValidNameOnly(request, name, value) ==
  request.tools /\ name = "declared" /\ value \in {<<>>, <<"args">>, <<"wrong">>}

\* validate_tool_call.
ValidCall(request, name, value) ==
  request.tools /\ name = "declared" /\ ArgumentsMeetSchema(value)

\* parse_and_validate_structured_output.
ValidDocument(text) == text # <<>> /\ \A k \in DOMAIN text : text[k] = "good"

StructuredHolds(a, request) ==
  request.structured /\ a.calls = <<>> => ValidDocument(a.text)

-----------------------------------------------------------------------------
(* What the four streams have in common.                                   *)

TextDelta(a, e) ==
  Go([a EXCEPT !.semantic = TRUE, !.text = @ \o e.value], <<Out("text", 0, e.value)>>)

\* A call begins.
Begun(a, e, value) ==
  IF e.name = "missing" \/ e.id \in DOMAIN a.tools THEN Raise(a, <<>>, "invalid_tool_call")
  ELSE Go([a EXCEPT !.semantic = TRUE,
                    !.tools = @ @@ (e.id :> [name |-> e.name, value |-> value])],
          <<Out("call", e.id, <<>>)>>)

\* A fragment of the arguments of a call that has begun.
Fragment(a, e) ==
  IF e.id \notin DOMAIN a.tools THEN Raise(a, <<>>, "invalid_tool_call")
  ELSE Go([a EXCEPT !.semantic = TRUE, !.tools[e.id].value = @ \o e.value],
          <<Out("arguments", e.id, e.value)>>)

\* The checks before final usage and completion.
Concluded(a, request, calls, complete) ==
  CASE ~complete \/ ~a.semantic -> Raise(a, calls, "invalid_response")
    [] complete /\ a.semantic /\ ~StructuredHolds(a, request) ->
         Raise(a, calls, "invalid_structured_output")
    [] complete /\ a.semantic /\ StructuredHolds(a, request) /\ a.usage # {"in", "out"} ->
         Raise(a, calls, "invalid_response")
    [] OTHER -> Over(a, calls \o <<Out("usage", 0, <<>>), Out("completed", 0, <<>>)>>)

\* The upstream ends, or the transport fails.
Broken(a, e) ==
  Raise(a, <<>>, CASE e.type = "timeout" -> "timeout"
                   [] e.type = "network" -> "transport"
                   [] OTHER -> "invalid_response")

Breaks == {"timeout", "network", "oversize", "garbage"}

-----------------------------------------------------------------------------
(* Anthropic Messages.                                                     *)

\* content_block_start: a tool use, tool activity of the provider's own, or a
\* block that says nothing yet.
AnthropicBlock(a, e) ==
  CASE e.type = "call" -> Begun(a, e, <<>>)
    [] e.type = "hosted" -> Raise(a, <<>>, "invalid_response")

\* content_block_delta.
AnthropicDelta(a, e) ==
  CASE e.type = "text" -> TextDelta(a, e)
    [] e.type = "arguments" -> Fragment(a, e)

\* content_block_stop.
AnthropicStop(a, e, request) ==
  LET call == a.tools[e.id]
      rest == [k \in DOMAIN a.tools \ {e.id} |-> a.tools[k]]
  IN  IF e.id \notin DOMAIN a.tools THEN Go(a, <<>>)
      ELSE IF ~ValidCall(request, call.name, call.value)
      THEN Raise([a EXCEPT !.tools = rest], <<>>, "invalid_tool_call")
      ELSE Go([a EXCEPT !.semantic = TRUE, !.tools = rest,
                        !.calls = Append(@, [id |-> e.id, value |-> call.value])],
              <<Out("called", e.id, call.value)>>)

\* message_delta: the stop reason and the output tokens.
AnthropicFinish(a) == Go([a EXCEPT !.finish = TRUE, !.usage = @ \cup {"out"}], <<>>)

\* error.
AnthropicError(a, e) ==
  Raise(a, <<>>, IF e.type = "overloaded" THEN "unavailable" ELSE "invalid_response")

\* message_stop.
AnthropicEnd(a, request) ==
  IF a.tools # <<>> THEN Raise(a, <<>>, "invalid_tool_call")
  ELSE Concluded(a, request, <<>>, TRUE)

\* _stream_prepared of AnthropicMessagesStreamingAdapter.
Anthropic(a, e, request) ==
  CASE e.type = "ping" -> Go(a, <<>>)
    [] e.type = "start" ->
         Go([a EXCEPT !.started = TRUE, !.usage = @ \cup {"in"}], <<Out("started", 0, <<>>)>>)
    [] e.type \in {"call", "hosted"} -> AnthropicBlock(a, e)
    [] e.type \in {"text", "arguments"} -> AnthropicDelta(a, e)
    [] e.type = "stop" -> AnthropicStop(a, e, request)
    [] e.type = "finish" -> AnthropicFinish(a)
    [] e.type \in {"overloaded", "failed"} -> AnthropicError(a, e)
    [] e.type = "end" -> AnthropicEnd(a, request)
    [] e.type \in Breaks -> Broken(a, e)
    [] OTHER -> Raise(a, <<>>, "invalid_response")   \* end of file

-----------------------------------------------------------------------------
(* OpenAI Responses.                                                       *)

\* response.function_call_arguments.done carries the arguments once more;
\* the call stays known, and may be completed again.
OpenAIDone(a, e, request) ==
  IF e.id \notin DOMAIN a.tools \/ ~ValidCall(request, a.tools[e.id].name, e.value) \/ e.value = <<>>
  THEN Raise(a, <<>>, "invalid_tool_call")
  ELSE Go([a EXCEPT !.semantic = TRUE, !.calls = Append(@, [id |-> e.id, value |-> e.value])],
          <<Out("called", e.id, e.value)>>)

\* response.completed; its usage is in the same event.
OpenAIEnd(a, e, request) ==
  Concluded([a EXCEPT !.finish = TRUE, !.usage = IF e.value = <<"usage">> THEN {"in", "out"} ELSE {}],
            request, <<>>, TRUE)

\* _stream_prepared of OpenAIResponsesStreamingAdapter.
OpenAI(a, e, request) ==
  CASE e.type = "ping" -> Go(a, <<>>)
    [] e.type = "start" -> Go([a EXCEPT !.started = TRUE], <<Out("started", 0, <<>>)>>)
    [] e.type = "text" -> TextDelta(a, e)
    [] e.type = "call" -> Begun(a, e, <<>>)
    [] e.type = "arguments" -> Fragment(a, e)
    [] e.type = "stop" -> OpenAIDone(a, e, request)
    [] e.type = "overloaded" -> Raise(a, <<>>, "unavailable")
    [] e.type = "end" -> OpenAIEnd(a, e, request)
    [] e.type \in Breaks -> Broken(a, e)
    [] OTHER -> Raise(a, <<>>, "invalid_response")   \* end of file

-----------------------------------------------------------------------------
(* Gemini.  Every chunk may carry parts, a finish reason and usage; the    *)
(* first one starts the response.                                          *)

Announced(a) == IF a.started THEN <<>> ELSE <<Out("started", 0, <<>>)>>

\* A functionCall part arrives whole: begun, argued and completed at once.
GeminiCall(a, e, request) ==
  LET known == \E k \in DOMAIN a.calls : a.calls[k].id = e.id
  IN  IF known \/ e.name = "missing" \/ ~ValidCall(request, e.name, e.value)
      THEN Raise(a, <<>>, "invalid_tool_call")
      ELSE Go([a EXCEPT !.semantic = TRUE, !.calls = Append(@, [id |-> e.id, value |-> e.value])],
              <<Out("call", e.id, <<>>), Out("arguments", e.id, e.value), Out("called", e.id, e.value)>>)

\* _candidate_events.
GeminiParts(a, e, request) ==
  CASE e.type = "text" -> TextDelta(a, e)
    [] e.type = "whole" -> GeminiCall(a, e, request)
    [] OTHER -> Go(a, <<>>)

\* _raise_google_stream_error.
GeminiError(e) ==
  CASE e.type = "limited" -> "rate_limit"
    [] e.type = "overloaded" -> "unavailable"
    [] e.type = "failed" -> "invalid_response"
    [] OTHER -> "none"

\* _stream_prepared of GoogleGeminiStreamingAdapter: it concludes at the end
\* of the file.
Gemini(a, e, request) ==
  LET first == [a EXCEPT !.started = TRUE]
      parts == GeminiParts(first, e, request)
  IN  CASE e.type \in Breaks -> Broken(a, e)
        [] e.type = "eof" -> Concluded(a, request, <<>>, a.started /\ a.finish)
        [] GeminiError(e) # "none" -> Raise(a, <<>>, GeminiError(e))
        [] OTHER ->
             [parts EXCEPT !.out = Announced(a) \o @,
                           !.a.finish = @ \/ e.type = "finish",
                           !.a.usage = IF e.type = "usage" /\ parts.error = "none"
                                       THEN {"in", "out"} ELSE @]

-----------------------------------------------------------------------------
(* OpenAI-compatible chat completions.  Calls are completed only after     *)
(* [DONE], in the order of their index.                                    *)

\* _tool_delta_events: a known index may leave out or repeat its identity, not
\* change it.
CompatibleCall(a, e) ==
  IF e.id \in DOMAIN a.tools /\ e.name \in {a.tools[e.id].name, "missing"} THEN Go(a, <<>>)
  ELSE Begun(a, e, <<>>)

\* What follows the loop: calls before the first bad one are completed.
CompatibleEnd(a, request) ==
  LET order == SetToSortSeq(DOMAIN a.tools, <)
      bad == SelectInSeq(order, LAMBDA i : ~ValidCall(request, a.tools[i].name, a.tools[i].value))
      sound == SubSeq(order, 1, IF bad = 0 THEN Len(order) ELSE bad - 1)
      done == [a EXCEPT !.calls = [k \in DOMAIN sound |-> [id |-> sound[k], value |-> a.tools[sound[k]].value]]]
      out == [k \in DOMAIN sound |-> Out("called", sound[k], a.tools[sound[k]].value)]
  IN  IF ~(a.started /\ a.semantic /\ a.finish) THEN Raise(a, <<>>, "invalid_response")
      ELSE IF bad # 0 THEN Raise(done, out, "invalid_tool_call")
      ELSE Concluded(done, request, out, TRUE)

\* _stream_prepared of OpenAICompatibleStreamingAdapter.
Compatible(a, e, request) ==
  LET first == [a EXCEPT !.started = TRUE]
      delta == CASE e.type = "text" -> TextDelta(first, e)
                 [] e.type = "call" -> CompatibleCall(first, e)
                 [] e.type = "arguments" -> Fragment(first, e)
                 [] e.type = "finish" -> Go([first EXCEPT !.finish = TRUE], <<>>)
                 [] e.type = "usage" -> Go([first EXCEPT !.usage = {"in", "out"}], <<>>)
                 [] OTHER -> Go(first, <<>>)
  IN  CASE e.type = "end" -> CompatibleEnd(a, request)
        [] e.type = "eof" -> Raise(a, <<>>, "invalid_response")
        [] e.type \in Breaks -> Broken(a, e)
        [] OTHER -> [delta EXCEPT !.out = Announced(a) \o @]

\* The adapter of the deployment's API family.
Adapt(kind, a, e, request) ==
  CASE kind = "anthropic" -> Anthropic(a, e, request)
    [] kind = "openai" -> OpenAI(a, e, request)
    [] kind = "gemini" -> Gemini(a, e, request)
    [] kind = "compatible" -> Compatible(a, e, request)

-----------------------------------------------------------------------------
(* The unary adapters.  A reply is [status, shape, text, calls]: shape what *)
(* is wrong with its JSON, if anything: the list its output is in, the     *)
(* message inside it, a tool call, or the usage.                           *)

\* require_success_payload, for a status that is not 2xx.
StatusError(status) ==
  CASE status = "unauthorized" -> "authentication"
    [] status = "limited" -> "rate_limit"
    [] status = "timeout" -> "timeout"
    [] status = "refused" -> "invalid_request"
    [] status = "unavailable" -> "unavailable"
    [] status = "odd" -> "unknown"

\* normalize_transport_failure.
TransportError(fault) ==
  CASE fault = "timeout" -> "timeout"
    [] fault = "network" -> "transport"
    [] fault = "oversize" -> "invalid_response"

\* Text is stripped, and blank text is no text.
Stripped(text) == SelectSeq(text, LAMBDA piece : piece # "blank")

Reply(code, text, calls) == [error |-> code, text |-> text, calls |-> calls]

\* The calls of a reply, each one validated.
CallsValid(reply, request) ==
  \A k \in DOMAIN reply.calls :
    /\ reply.calls[k].name # "missing"
    /\ ValidCall(request, reply.calls[k].name, reply.calls[k].value)

\* The output of a reply whose lists are there.
Extracted(reply, request) ==
  IF reply.shape = "call" \/ ~CallsValid(reply, request)
  THEN Reply("invalid_tool_call", <<>>, <<>>)
  ELSE Reply("none", Stripped(reply.text), reply.calls)

\* _extract_text and _extract_tool_calls of Responses: what has not the right
\* shape is skipped.
OpenAIExtract(reply, request) ==
  Extracted(CASE reply.shape = "output" -> [reply EXCEPT !.text = <<>>, !.calls = <<>>]
              [] reply.shape = "message" -> [reply EXCEPT !.text = <<>>]
              [] OTHER -> reply, request)

\* _extract_content of Messages: a block that is no object is skipped.
AnthropicExtract(reply, request) ==
  CASE reply.shape = "output" -> Reply("invalid_response", <<>>, <<>>)
    [] reply.shape = "message" -> Extracted([reply EXCEPT !.text = <<>>], request)
    [] OTHER -> Extracted(reply, request)

\* _extract_candidate.
GeminiExtract(reply, request) ==
  IF reply.shape \in {"output", "message"} THEN Reply("invalid_response", <<>>, <<>>)
  ELSE Extracted(reply, request)

\* _extract_choice and _extract_tool_calls of chat completions.
CompatibleExtract(reply, request) ==
  IF reply.shape \in {"output", "message"} THEN Reply("invalid_response", <<>>, <<>>)
  ELSE Extracted(reply, request)

\* _extract_usage: absent usage counts as zero, malformed usage is an error.
UsageReadable(reply) == reply.shape # "usage"

\* What the four generate methods do with the output, in their order.
Generated(output, reply, request) ==
  CASE output.error # "none" -> output
    [] output.error = "none" /\ request.structured /\ output.calls = <<>> /\ ~ValidDocument(output.text) ->
         Reply("invalid_structured_output", <<>>, <<>>)
    [] output.error = "none" /\ ~request.structured /\ output.text = <<>> /\ output.calls = <<>> ->
         Reply("invalid_response", <<>>, <<>>)
    [] OTHER -> IF UsageReadable(reply) THEN output ELSE Reply("invalid_response", <<>>, <<>>)

\* generate of the four adapters, after the checks it shares with
\* prepare_stream (RequestTranslation).
OpenAIGenerate(reply, request) == Generated(OpenAIExtract(reply, request), reply, request)
AnthropicGenerate(reply, request) == Generated(AnthropicExtract(reply, request), reply, request)
GeminiGenerate(reply, request) == Generated(GeminiExtract(reply, request), reply, request)
CompatibleGenerate(reply, request) == Generated(CompatibleExtract(reply, request), reply, request)

\* post_json, and the reading of its response.
Generate(kind, reply, request) ==
  CASE reply.status \in {"network", "oversize"} -> Reply(TransportError(reply.status), <<>>, <<>>)
    [] reply.status \notin {"ok", "network", "oversize"} -> Reply(StatusError(reply.status), <<>>, <<>>)
    [] reply.status = "ok" /\ kind = "openai" -> OpenAIGenerate(reply, request)
    [] reply.status = "ok" /\ kind = "anthropic" -> AnthropicGenerate(reply, request)
    [] reply.status = "ok" /\ kind = "gemini" -> GeminiGenerate(reply, request)
    [] reply.status = "ok" /\ kind = "compatible" -> CompatibleGenerate(reply, request)

=============================================================================

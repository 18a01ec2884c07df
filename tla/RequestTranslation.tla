------------------------- MODULE RequestTranslation -------------------------
(***************************************************************************)
(* How a caller's content reaches a provider: the four northbound request  *)
(* models, the provider-neutral contract they build (contracts.py), and    *)
(* what each provider adapter makes of it (prepare_stream and the message  *)
(* translators).  A step that cannot keep a block must refuse the request. *)
(*                                                                         *)
(* A post is [content, tools, structured, tool, document, claims, old]:    *)
(* content a sequence of blocks [role, kind, call], each a message of its  *)
(* own, call the id of a tool use or result; tool and document what their  *)
(* schemas are: closed as OpenAI wants them, open, lax (a tool that opts   *)
(* out of that) or invalid; claims the capabilities a native caller        *)
(* declares; old whether the Gemini model is of the 2.0 family.            *)
(***************************************************************************)
EXTENDS Naturals, Sequences, SequencesExt

\* image is an HTTPS reference with its media type, image_url one without.
Images == {"image", "image_url", "image_inline"}
BlockKinds == Images \cup {"text", "audio", "document", "tool_use", "tool_result"}

\* MessageRole, and the role only Responses has.
Roles == {"system", "user", "assistant", "tool", "developer"}

Has(post, kinds) == \E k \in DOMAIN post.content : post.content[k].kind \in kinds

-----------------------------------------------------------------------------
(* The northbound request models.                                          *)

\* GenerateRequestModel and to_gateway_request: text and typed images, and no
\* tool role.
NativeMessage(b) == b.kind \in {"text", "image"} /\ b.role \in {"system", "user", "assistant"}

\* _build_generate_payload of the client SDK, the native route's own caller:
\* a message of canonical blocks has no content, and is refused.
SdkSubmits(b) == b.kind \in {"text", "image"} /\ b.role # "tool"

\* OpenAIInputImageModel, OpenAIInputAudioModel and OpenAIInputFileModel: an
\* image by reference has no media type, other media come inline.
ResponsesMedia == {"image_url", "image_inline", "audio", "document"}

\* OpenAIMessageItemModel.
ResponsesMessage(b) ==
  \/ b.kind = "text" /\ b.role \in {"system", "developer", "user", "assistant"}
  \/ b.kind \in ResponsesMedia /\ b.role = "user"

\* OpenAIFunctionCallItemModel and OpenAIFunctionCallOutputItemModel; the
\* items have no role, and become messages of these.
ResponsesCallItem(b) == b.kind = "tool_use" /\ b.role = "assistant"
ResponsesOutputItem(b) == b.kind = "tool_result" /\ b.role = "tool"

\* AnthropicMessageModel leaves the roles of its blocks to the contract.
MessagesBlock(b) ==
  /\ b.kind \in {"text", "image_url", "image_inline", "tool_use", "tool_result"}
  /\ b.role \in {"system", "user", "assistant"}

\* OpenAIChatMessageModel.
ChatMessage(b) == b.kind = "text" /\ b.role \in {"system", "user", "assistant"}

Accepts(protocol, b) ==
  CASE protocol = "native" -> SdkSubmits(b) /\ NativeMessage(b)
    [] protocol = "responses" -> ResponsesMessage(b) \/ ResponsesCallItem(b) \/ ResponsesOutputItem(b)
    [] protocol = "messages" -> MessagesBlock(b)
    [] protocol = "chat" -> ChatMessage(b)

-----------------------------------------------------------------------------
(* The contract.                                                           *)

\* What build_protocol_payload infers.
Inferred(post) ==
  (IF post.tools \/ Has(post, {"tool_use", "tool_result"}) THEN {"tools"} ELSE {})
  \cup (IF post.structured THEN {"structured"} ELSE {})
  \cup (IF Has(post, Images) THEN {"vision"} ELSE {})
  \cup {kind \in {"audio", "document"} : Has(post, {kind})}

\* The translations to a GatewayRequest.  A native caller declares its
\* requirements; chat completions have none, no tools and no documents; the
\* agent protocols have theirs inferred.
NativeRequest(post) == [content |-> post.content, requirements |-> post.claims]

ChatRequest(post) == [content |-> post.content, requirements |-> {}]

\* Developer instructions become system text.
ResponsesRequest(post) ==
  [content |-> [k \in DOMAIN post.content |->
                  [post.content[k] EXCEPT !.role = IF @ = "developer" THEN "system" ELSE @]],
   requirements |-> Inferred(post)]

MessagesRequest(post) == [content |-> post.content, requirements |-> Inferred(post)]

Translated(protocol, post) ==
  CASE protocol = "native" -> NativeRequest(post)
    [] protocol = "responses" -> ResponsesRequest(post)
    [] protocol = "messages" -> MessagesRequest(post)
    [] protocol = "chat" -> ChatRequest(post)

\* Seeded fault: a block may come with any role.
RolesUnchecked(b) == TRUE

\* Message.__post_init__.
RoleCarries(b) ==
  CASE b.kind \in Images \cup {"audio", "document"} -> b.role = "user"
    [] b.kind = "tool_use" -> b.role = "assistant"
    [] b.kind = "tool_result" -> b.role \in {"user", "tool"}
    [] OTHER -> TRUE

\* A tool use has an id of its own; a tool result answers an earlier use, once.
Correlated(content) ==
  \A k \in DOMAIN content :
    /\ content[k].kind \in {"tool_use", "tool_result"} =>
         ~\E j \in 1..(k - 1) : content[j].kind = content[k].kind /\ content[j].call = content[k].call
    /\ content[k].kind = "tool_result" =>
         \E j \in 1..(k - 1) : content[j].kind = "tool_use" /\ content[j].call = content[k].call

\* GatewayRequest.__post_init__: content never exceeds the requirements.
ContractHolds(post, request) ==
  /\ \A k \in DOMAIN request.content : RoleCarries(request.content[k])
  /\ Inferred(post) \subseteq request.requirements
  /\ Correlated(request.content)

\* _validate_schema_document: bounded, local references, known formats.
SchemaHolds(schema) == schema # "invalid"

\* ProviderRequest.__post_init__.
ProviderRequestHolds(post) ==
  /\ post.structured => SchemaHolds(post.document)
  /\ post.tools => SchemaHolds(post.tool)
  /\ \A k \in DOMAIN post.content :
       post.content[k].role = "tool" => post.content[k].kind = "tool_result"

Submitted(protocol, post) ==
  /\ \A k \in DOMAIN post.content : Accepts(protocol, post.content[k])
  /\ protocol = "chat" => ~post.tools /\ ~post.structured
  /\ ContractHolds(post, Translated(protocol, post))

-----------------------------------------------------------------------------
(* The adapters.  The registry may declare more than an adapter can do: an *)
(* adapter refuses what it cannot carry before it opens a connection.      *)

\* require_supported_request_features with the adapter's feature_support; the
\* compatible endpoint is one with tools, structured output and streaming.
Supports(kind, post) ==
  /\ ~Has(post, {"audio", "document"})
  /\ kind = "compatible" => ~Has(post, Images)

\* _require_openai_strict_schema: a tool may opt out, a document may not.
SchemasServe(post) ==
  /\ post.tools => post.tool # "open"
  /\ post.structured => post.document = "closed"

\* System text travels apart from the messages, so there must be another.
HasTurn(post) == \E k \in DOMAIN post.content : post.content[k].role \notin {"system", "developer"}

\* _require_external_url_image_model_support.
ModelTakesReferences(post) == post.old => ~Has(post, {"image", "image_url"})

\* prepare_stream of the four adapters; Gemini wants an image's media type.
OpenAIPrepares(post) == Supports("openai", post) /\ HasTurn(post) /\ SchemasServe(post)
AnthropicPrepares(post) == Supports("anthropic", post) /\ HasTurn(post)
GeminiPrepares(post) ==
  /\ Supports("gemini", post) /\ HasTurn(post)
  /\ ModelTakesReferences(post) /\ ~Has(post, {"image_url"})
CompatiblePrepares(post) == Supports("compatible", post) /\ SchemasServe(post)

Prepared(kind, post) ==
  /\ ProviderRequestHolds(post)
  /\ CASE kind = "openai" -> OpenAIPrepares(post)
       [] kind = "anthropic" -> AnthropicPrepares(post)
       [] kind = "gemini" -> GeminiPrepares(post)
       [] kind = "compatible" -> CompatiblePrepares(post)

-----------------------------------------------------------------------------
(* What the payload holds: each translator's branches, block by block.     *)

\* text_content of the system messages: their text and nothing else.
SystemCarries(b) == b.kind = "text"

\* _openai_input_messages.
OpenAICarries(b) == b.kind \in Images \cup {"text", "tool_use", "tool_result"}

\* _anthropic_messages.
AnthropicCarries(b) == b.kind \in Images \cup {"text", "tool_use", "tool_result"}

\* _google_contents.
GeminiCarries(b) == b.kind \in {"text", "image", "image_inline", "tool_use", "tool_result"}

\* _openai_chat_messages.
CompatibleCarries(b) == b.kind \in {"text", "tool_use", "tool_result"}

Carries(kind, b) ==
  IF b.role = "system" /\ kind # "compatible" THEN SystemCarries(b)
  ELSE CASE kind = "openai" -> OpenAICarries(b)
         [] kind = "anthropic" -> AnthropicCarries(b)
         [] kind = "gemini" -> GeminiCarries(b)
         [] kind = "compatible" -> CompatibleCarries(b)

\* The blocks of a prepared payload, and whether a replay could repeat the
\* effect of a tool (replay_safe of StreamingExecutionService.prepare).
Carried(kind, content) == {content[k] : k \in {j \in DOMAIN content : Carries(kind, content[j])}}
ReplaySafe(content) ==
  \A k \in DOMAIN content : content[k].role # "tool" /\ content[k].kind # "tool_result"

=============================================================================

-------------------------- MODULE MCGatewayPipeline --------------------------
(* GatewayPipeline on every pair of provider API and northbound protocol.   *)
EXTENDS GatewayPipeline

Setting(kind, protocol, streamed) ==
  [kind |-> kind, protocol |-> protocol, streamed |-> streamed, tools |-> protocol # "chat",
   structured |-> FALSE, bounded |-> FALSE, cached |-> FALSE, framing |-> "whole", texts |-> 2, calls |-> 1]

Modes == {<<p, s>> \in Protocols \X BOOLEAN : p = "native" => s}

MCSettings ==
  \* every provider with every protocol
  {Setting(k, m[1], m[2]) : k \in Kinds, m \in Modes}
  \* two calls, whose frames may interleave
  \cup {[Setting(k, p, TRUE) EXCEPT !.calls = 2, !.texts = 1] :
          k \in {"anthropic", "compatible"}, p \in {"responses", "messages"}}
  \* structured output
  \cup {[Setting(k, m[1], m[2]) EXCEPT !.structured = TRUE] :
          k \in Kinds, m \in {<<"native", TRUE>>, <<"messages", FALSE>>}}
  \* a deadline, and stored answers
  \cup {[Setting("anthropic", m[1], m[2]) EXCEPT !.tools = FALSE, !.bounded = TRUE, !.cached = TRUE] : m \in Modes}
  \* the bytes themselves
  \cup {[Setting("gemini", "native", TRUE) EXCEPT !.tools = FALSE, !.framing = f] : f \in {"lf", "cr", "crlf"}}

\* the console's own requests
ConsoleSettings ==
  {[Setting(k, "native", TRUE) EXCEPT !.tools = FALSE, !.bounded = TRUE, !.cached = TRUE] : k \in Kinds}

Blocks ==
  {[role |-> r, kind |-> k, call |-> IF k \in {"tool_use", "tool_result"} THEN c ELSE 0] :
     r \in Roles, k \in BlockKinds, c \in {1, 2}}

UserText == [role |-> "user", kind |-> "text", call |-> 0]
ToolUse == [role |-> "assistant", kind |-> "tool_use", call |-> 1]
Results == {b \in Blocks : b.kind = "tool_result"}

Contents ==
  {<<b>> : b \in Blocks} \cup {<<UserText, b>> : b \in Blocks} \cup {<<ToolUse, b>> : b \in Blocks}
  \cup {<<ToolUse, b, c>> : b \in Results, c \in Results}

AllClaims == {"tools", "structured", "vision", "audio", "document"}

Posted(content, claims, old) ==
  [content |-> content, tools |-> FALSE, structured |-> FALSE, tool |-> "closed", document |-> "closed",
   claims |-> claims, old |-> old]

MCPosts ==
  {Posted(c, x, o) : c \in Contents, x \in {{}, AllClaims}, o \in BOOLEAN}
  \cup {[Posted(<<UserText>>, AllClaims, FALSE) EXCEPT !.tool = t, !.document = d] :
          t \in {"closed", "open", "lax", "invalid"}, d \in {"closed", "open", "invalid"}}

UnaryCalls == {[name |-> n, value |-> <<v>>] : n \in {"declared", "undeclared", "missing"}, v \in {"args", "wrong"}}

MCReplies ==
  {[status |-> "ok", shape |-> m, text |-> t, calls |-> c] :
     m \in {"sound", "output", "message", "call", "usage"}, t \in {<<>>, <<"blank">>, <<"good">>, <<"bad">>},
     c \in {<<>>} \cup {<<u>> : u \in UnaryCalls}}
  \cup {[status |-> s, shape |-> "sound", text |-> <<>>, calls |-> <<>>] :
          s \in {"network", "oversize", "timeout", "limited", "unauthorized", "refused", "unavailable", "odd"}}

=============================================================================

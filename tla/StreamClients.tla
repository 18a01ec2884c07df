---------------------------- MODULE StreamClients ----------------------------
(***************************************************************************)
(* The two readers of the native stream: the Python SDK (client.py and     *)
(* _codec.py) and the browser console (inference.ts), as folds over the    *)
(* frames the gateway sent.  A frame is one of NorthboundProtocols.        *)
(***************************************************************************)
EXTENDS NorthboundProtocols

\* GatewayStreamEvent.__post_init__: what an event of each type must hold.
EventHolds(f) ==
  /\ f.sequence > 0
  /\ f.type \in {"text", "arguments"} => f.value # <<>>
  /\ f.type \in {"call", "arguments", "called"} => f.id # 0
  /\ f.evidence # <<>> =>
       \/ f.type = "completed" /\ f.evidence[1].status = "succeeded"
       \/ f.type = "failed" /\ f.evidence[1].status = "failed"

-----------------------------------------------------------------------------
(* The SDK.                                                                *)

SdkStart == [expected |-> 1, terminal |-> <<>>, text |-> <<>>, calls |-> {}, usage |-> FALSE, error |-> FALSE]

\* _iter_sse_events takes the frame.
SdkReads(c, f) == c.terminal = <<>> /\ EventHolds(f) /\ f.sequence = c.expected

\* One round of the loop of generate.
SdkTake(c, f) ==
  IF c.error \/ ~SdkReads(c, f) \/ (f.type = "usage" /\ c.usage) THEN [c EXCEPT !.error = TRUE]
  ELSE [c EXCEPT !.expected = @ + 1,
                 !.terminal = IF f.type \in {"completed", "failed"} THEN <<f>> ELSE @,
                 !.text = IF f.type = "text" THEN @ \o f.value ELSE @,
                 !.calls = IF f.type = "called" THEN @ \cup {[id |-> f.id, value |-> f.value]} ELSE @,
                 !.usage = @ \/ f.type = "usage"]

\* What generate makes of the terminal event: a success has evidence, and
\* evidence of usage is the usage the stream reported.
SdkConcludes(c) ==
  /\ c.terminal # <<>>
  /\ LET evidence == c.terminal[1].evidence
     IN  IF c.terminal[1].type = "completed"
         THEN evidence # <<>> /\ c.usage /\ evidence[1].usage
         ELSE evidence # <<>> => (evidence[1].usage => c.usage)

SdkGenerate(frames) ==
  LET c == FoldLeft(SdkTake, SdkStart, frames)
  IN  [c EXCEPT !.error = @ \/ ~SdkConcludes(c)]

-----------------------------------------------------------------------------
(* The console.                                                            *)

ConsoleStart ==
  [expected |-> 1, terminal |-> FALSE, content |-> <<>>, usage |-> FALSE, execution |-> FALSE, error |-> "none"]

\* decodeExecution: a successful execution with usage, and no field the
\* console does not know; "cached" is one.
ConsoleDecodesExecution(evidence) ==
  evidence.status = "succeeded" /\ evidence.usage /\ ~evidence.cached

\* decodeEvent reads every part that is there, whatever the type of the event.
ConsoleDecodes(f) == \A k \in DOMAIN f.evidence : ConsoleDecodesExecution(f.evidence[k])

\* One frame of processFrames; its request has no tools.
ConsoleTake(c, f) ==
  CASE c.error # "none" -> c
    [] \/ c.error = "none" /\ (c.terminal \/ ~ConsoleDecodes(f) \/ f.sequence # c.expected)
       \/ c.error = "none" /\ f.type \in {"call", "arguments", "called"}
       \/ c.error = "none" /\ f.type = "usage" /\ c.usage
       \/ c.error = "none" /\ f.type = "completed" /\ f.evidence = <<>> ->
         [c EXCEPT !.error = "protocol_error"]
    [] OTHER ->
         [c EXCEPT !.expected = @ + 1,
                   !.terminal = f.type \in {"completed", "failed"},
                   !.content = IF f.type = "text" THEN @ \o f.value ELSE @,
                   !.usage = @ \/ f.type = "usage",
                   !.execution = @ \/ f.type = "completed",
                   !.error = IF f.type = "failed" THEN "stream_failed" ELSE @]

\* consumeStream, with the checks at its end.
ConsoleGenerate(frames) ==
  LET c == FoldLeft(ConsoleTake, ConsoleStart, frames)
  IN  IF c.error = "none" /\ ~(c.terminal /\ c.usage /\ c.execution /\ c.content # <<>>)
      THEN [c EXCEPT !.error = "protocol_error"]
      ELSE c

=============================================================================

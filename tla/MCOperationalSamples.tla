------------------------ MODULE MCOperationalSamples ------------------------
\* OperationalBatches for TLC: a request that fails at its first target and is
\* tried twice at a fallback, and the client's second submission of it, whose
\* first attempt repeats an identity.
EXTENDS OperationalBatches, TLC

CONSTANTS a1, a2, a3, a4, r1, t1, t2

MCRetried == a1 :> NoAttempt @@ a2 :> a1 @@ a3 :> a2 @@ a4 :> NoAttempt
MCRequest == a1 :> r1 @@ a2 :> r1 @@ a3 :> r1 @@ a4 :> r1
MCFallbackIndex == a1 :> 0 @@ a2 :> 1 @@ a3 :> 1 @@ a4 :> 0
MCNumber == a1 :> 1 @@ a2 :> 1 @@ a3 :> 2 @@ a4 :> 1
MCTarget == a1 :> t1 @@ a2 :> t2 @@ a3 :> t2 @@ a4 :> t1
MCLatency == a1 :> 1 @@ a2 :> 2 @@ a3 :> 1 @@ a4 :> 1
MCEndings == a1 :> {"rate_limit", "unrepresentable"} @@ a2 :> {"timeout"}
             @@ a3 :> {"succeeded"} @@ a4 :> {"other"}
=============================================================================

------------------------- MODULE MCValidatedStream -------------------------
(* Bounded instance: two response ids, so that a failure can carry the     *)
(* wrong one, every variant that matters to the validator, and streams of  *)
(* up to MaxItems answers.                                                 *)
EXTENDS ValidatedStream

CONSTANTS r1, r2

MCResponseIds == {r1, r2}

MCProviderEvents ==
    {ResponseCreated(r1), ResponseCreated(r2), ItemEvent("text_delta"),
     ItemEvent("function_call"), ResponseCompleted(r1), ResponseCompleted(r2),
     ResponseIncomplete(NoId), ResponseFailed(NoId, "rate_limited", TRUE)}

MCProviderErrors == {[code |-> "transport_failed", retryable |-> TRUE]}

=============================================================================

------------------------- MODULE MCResponsesIngress -------------------------
(* Bounded instance: two HTTP connections and a WebSocket, two turns that  *)
(* share a turn id, one body per outcome of the admission.                 *)
EXTENDS ResponsesIngress, TLC

CONSTANTS h1, h2, w1, r1

Turn(fields) == Obj("turn_id" :> Str("t1") @@ fields)

Body(type, model, metadata) ==
    Obj("type" :> Str(type) @@ "model" :> Str(model) @@
        "client_metadata" :> Obj("x-codex-turn-metadata" :> metadata))

ThreadTurn == Turn("thread_id" :> Str("th1"))
BareTurn   == Turn("request_kind" :> Str("turn"))

\* The first two name the same turn, the third another one.
MCPayloads ==
    {Body("response.create", "m1", Encoded(ThreadTurn)),
     Body("response.create", "m2", ThreadTurn),
     Body("response.create", "m1", BareTurn),
     Body("response.create", "unknown", BareTurn),
     Body("response.create", "m1", OtherJson),
     Body("response.create", "m1", Obj("thread_id" :> Str("th1"))),
     Body("response.cancel", "m1", BareTurn)}

MCProviderEvents ==
    {ResponseCreated(r1), ResponseCompleted(r1), ResponseIncomplete(NoId)}

MCProviderErrors == {[code |-> "transport_failed", retryable |-> TRUE]}

HttpSymmetry == Permutations({h1, h2})
=============================================================================

--------------------------- MODULE MCHttpIngress ---------------------------
(* Bounded instance: an HTTP connection and a WebSocket that repeat a turn  *)
(* on another route and in another shape, and one model nobody can serve.   *)
EXTENDS HttpIngress, TLC

CONSTANTS h1, w1, r1

Body(model, turn) ==
    Obj("type" :> Str("response.create") @@ "model" :> Str(model) @@
        "client_metadata" :> Obj("x-codex-turn-metadata" :> Obj(turn)))

ThreadTurn == "turn_id" :> Str("t1") @@ "thread_id" :> Str("th1")

\* A turn, its repeat on another route, a turn of no thread, an unknown model.
MCPayloads ==
    {Body("router/gpt", ThreadTurn),
     Body("xai/grok", "request_kind" :> Str("retry") @@ ThreadTurn),
     Body("claude/opus", "turn_id" :> Str("t1")),
     Body("unknown", ThreadTurn)}

MCRoutes == <<Route(<<"router">>, "open_ai_responses", "account_a"),
              Route(<<"xai">>, "open_ai_compatible_responses", "account_b"),
              Route(<<"claude">>, "anthropic_messages", "account_b")>>

MCSlug == "router/gpt" :> <<"router", "gpt">> @@ "xai/grok" :> <<"xai", "grok">>
          @@ "claude/opus" :> <<"claude", "opus">> @@ "unknown" :> <<"unknown">>

Json(type, id) == Frame("json", type, id, TRUE, FALSE)

MCUpstreamFrames ==
    {Json("response.created", r1), Json("response.completed", r1),
     Json("response.incomplete", NoId),
     Frame("done_marker", "other", NoId, FALSE, FALSE),
     Frame("not_json", "other", NoId, FALSE, FALSE)}

MCProviderEvents ==
    {ResponseCreated(r1), ResponseCompleted(r1), ResponseIncomplete(NoId)}
=============================================================================

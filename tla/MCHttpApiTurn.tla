--------------------------- MODULE MCHttpApiTurn ---------------------------
(* A small instance of HttpApiTurn. *)
EXTENDS HttpApiTurn

RouterPrefix == <<"router">>
XaiPrefix    == <<"xai">>

RouterRoute == Route(RouterPrefix, "open_ai_responses", "account_a")
NestedRoute == Route(<<"router", "xai">>, "open_ai_compatible_responses",
                     "account_b")
XaiRoute    == Route(XaiPrefix, "open_ai_compatible_responses", "account_b")
Unspoken    == Route(XaiPrefix, "anthropic_messages", "account_b")
BadAccount  == Route(XaiPrefix, "open_ai_responses", "bad_account")
OtherScheme == Route(XaiPrefix, "open_ai_responses", "other_scheme")

\* No route, one, several, overlapping prefixes in both orders, a route twice.
MCRouteTables ==
    {<<>>, <<RouterRoute>>, <<RouterRoute, XaiRoute>>,
     <<RouterRoute, NestedRoute>>, <<NestedRoute, RouterRoute>>,
     <<XaiRoute, XaiRoute>>, <<RouterRoute, Unspoken>>, <<BadAccount>>,
     <<OtherScheme>>}

\* A slug below both nested prefixes, one below the outer, one below the other,
\* one that is a whole prefix, and one below none.
MCModels == {<<"router", "xai", "grok">>, <<"router", "gpt">>,
             <<"xai", "grok">>, <<"xai">>, <<"gpt">>}

Json(type, id) == Frame("json", type, id, TRUE, FALSE)

MCUpstreamFrames ==
    Untyped
    \cup {Json("response.created", id) : id \in ResponseIds \cup {NoId}}
    \cup {Json("response.completed", id) : id \in ResponseIds \cup {NoId}}
    \cup {Json("response.failed", id) : id \in ResponseIds \cup {NoId}}
    \cup {Json("response.incomplete", NoId), Json("other", NoId)}
    \cup {Frame("json", "response.output_item.done", NoId, whole, call) :
            whole \in BOOLEAN, call \in BOOLEAN}
    \cup {Json("response.output_item.added", NoId),
          Json("response.output_text.delta", NoId)}
=============================================================================

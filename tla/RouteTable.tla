----------------------------- MODULE RouteTable -----------------------------
(***************************************************************************)
(* ApiRouteTable (crates/provider-api/src/lib.rs): which route, if any,    *)
(* serves a model.  A model slug is a sequence of segments; a prefix is    *)
(* what decides, so nothing finer than segments is kept.  An Option is a   *)
(* set of at most one element.                                             *)
(***************************************************************************)
EXTENDS Naturals, Sequences, SequencesExt

ApiProtocol == {"open_ai_responses", "open_ai_compatible_responses",
                "anthropic_messages"}

Route(prefix, protocol, credential_ref) ==
    [model_prefix |-> prefix, protocol |-> protocol,
     credential_ref |-> credential_ref]

\* ApiRoute::matches and ApiRoute::upstream_model: the slug without the prefix.
matches(route, model) == IsPrefix(route.model_prefix, model)

upstream_model(route, model) ==
    IF matches(route, model)
    THEN {SubSeq(model, Len(route.model_prefix) + 1, Len(model))}
    ELSE {}

NoMatch   == [tag |-> "no_match"]
Ambiguous == [tag |-> "ambiguous"]
Matched(route, upstream) ==
    [tag |-> "matched", route |-> route, upstream_model |-> upstream]

\* Mutant of resolve: the first route that matches wins.
resolve_FirstWins(routes, model) ==
    LET Matches(route) == upstream_model(route, model) # {}
        i == SelectInSeq(routes, Matches)
    IN  IF i = 0 THEN NoMatch
        ELSE Matched(routes[i],
                     CHOOSE u \in upstream_model(routes[i], model) : TRUE)

\* The iterator of the matches is asked for a first and for a second one.
resolve(routes, model) ==
    LET hits == {i \in DOMAIN routes : upstream_model(routes[i], model) # {}}
        only == CHOOSE i \in hits : TRUE
    IN  IF hits = {} THEN NoMatch
        ELSE IF \E i, j \in hits : i # j THEN Ambiguous
        ELSE Matched(routes[only],
                     CHOOSE u \in upstream_model(routes[only], model) : TRUE)
=============================================================================

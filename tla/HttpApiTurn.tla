---------------------------- MODULE HttpApiTurn ----------------------------
(***************************************************************************)
(* One turn through HttpApiProviderResolver and HttpApiProvider            *)
(* (crates/provider-api/src/lib.rs) up to the consumer of the validated    *)
(* stream: route, credential, upstream request, status, SSE frames.  The   *)
(* upstream, the connection and the credential store may answer anything.  *)
(***************************************************************************)
EXTENDS RouteTable, HttpApiDecoder

CONSTANTS
    RouteTables,     \* the configured tables: sequences of routes
    Models,          \* the slugs turns ask for
    UpstreamFrames,  \* the SSE frames the upstream may send
    MaxAnswers       \* bound: how often the SSE stream is polled

ASSUME UpstreamAssumption ==
    /\ UpstreamFrames \subseteq Frames
    /\ MaxAnswers \in Nat \ {0}

ApiRoute == [model_prefix : Seq(STRING), protocol : ApiProtocol,
             credential_ref : CredentialRefs]

ASSUME TablesAssumption == /\ RouteTables \subseteq Seq(ApiRoute)
                           /\ Models \subseteq Seq(STRING)

VARIABLES
    routes,     \* the table of the resolver
    model,      \* the slug of the turn
    pc,         \* where the turn is
    found,      \* what the table resolved the slug to
    store,      \* history: what the credential store answered
    request,    \* the upstream requests made, a set of at most one
    status,     \* history: the status of the upstream
    error,      \* the error execute returned, a set of at most one
    wire,       \* history: every answer of the SSE stream, oldest first
    polled,     \* history: those answers decoded, without the ones that say nothing
    validator,  \* ValidatorState of the unfold around the provider's stream
    out         \* history: every event handed to the consumer

setup == <<routes, model>>
exchange == <<found, store, request, status, error>>
relay == <<wire, polled, validator, out>>
vars == <<setup, pc, exchange, relay>>

NotYet == "not_yet"

Answers == UpstreamFrames \cup {Broken, Closed}

Init == /\ routes \in RouteTables
        /\ model \in Models
        /\ pc = "resolve"
        /\ found = NoMatch
        /\ store = NotYet /\ status = NotYet
        /\ request = {} /\ error = {}
        /\ wire = <<>> /\ polled = <<>>
        /\ validator = FreshValidator /\ out = <<>>

\* HttpApiProviderResolver::resolve; without a provider the daemon refuses.
Resolve == /\ pc = "resolve"
           /\ found' = resolve(routes, model)
           /\ pc' = IF found'.tag = "matched" THEN "execute" ELSE "no_route"
           /\ UNCHANGED <<setup, store, request, status, error, relay>>

Return(e) == error' = {e} /\ pc' = "failed"

\* execute up to its first await.
CheckRoute ==
    /\ pc = "execute"
    /\ LET failures == RouteError(found.route)
       IN  \/ \E e \in failures : Return(e)
           \/ failures = {} /\ pc' = "credential" /\ UNCHANGED error
    /\ UNCHANGED <<setup, found, store, request, status, relay>>

FetchCredential(answer) ==
    /\ pc = "credential"
    /\ store' = answer
    /\ LET failures == credential_error(answer)
       IN  \/ \E e \in failures : Return(e)
           \/ failures = {} /\ pc' = "send" /\ UNCHANGED error
    /\ UNCHANGED <<setup, found, request, status, relay>>

\* The body names the upstream's model, and the route gives the endpoint.
Send ==
    /\ pc = "send"
    /\ request' = {[endpoint   |-> found.route,
                    credential |-> found.route.credential_ref,
                    model      |-> found.upstream_model]}
    /\ pc' = "sent"
    /\ UNCHANGED <<setup, found, store, status, error, relay>>

SendFails == /\ pc = "sent"
             /\ Return(TransportFailed)
             /\ UNCHANGED <<setup, found, store, request, status, relay>>

Respond(code) ==
    /\ pc = "sent"
    /\ status' = code
    /\ IF code = "2xx"
       THEN pc' = "stream" /\ UNCHANGED error
       ELSE Return(status_error(code))
    /\ UNCHANGED <<setup, found, store, request, relay>>

\* A poll of the unfold reaches the SSE stream; a skipped frame leaves the
\* same poll pending.
PollFrame(answer) ==
    /\ pc = "stream"
    /\ ~validator.terminal_seen
    /\ Len(wire) < MaxAnswers
    /\ wire' = Append(wire, answer)
    /\ LET item == Decoded(answer)
       IN  /\ polled' = IF item = Skip THEN polled ELSE Append(polled, item)
           /\ IF Filtered(item)
              THEN UNCHANGED <<validator, out>>
              ELSE /\ validator' = Observed(validator, item)
                   /\ out' = Append(out, Emitted(validator, item))
    /\ UNCHANGED <<setup, pc, exchange>>

PollEnd == /\ pc = "stream"
           /\ validator.terminal_seen
           /\ pc' = "exhausted"
           /\ UNCHANGED <<setup, exchange, relay>>

\* The daemon drops the future of execute, or the stream it returned.
Drop == \/ /\ pc \in {"credential", "sent"}
           /\ pc' = "cancelled"
           /\ UNCHANGED <<setup, exchange, relay>>
        \/ /\ pc = "stream"
           /\ pc' = "dropped"
           /\ UNCHANGED <<setup, exchange, relay>>

Next == \/ Resolve \/ CheckRoute \/ Send \/ SendFails \/ PollEnd \/ Drop
        \/ \E answer \in StoreAnswers : FetchCredential(answer)
        \/ \E code \in Statuses : Respond(code)
        \/ \E answer \in Answers : PollFrame(answer)

Spec == Init /\ [][Next]_vars /\ WF_vars(PollEnd)

-----------------------------------------------------------------------------
\* Every variable keeps its type.
TypeOK ==
    /\ routes \in RouteTables /\ model \in Models
    /\ pc \in {"resolve", "no_route", "execute", "credential", "send", "sent",
               "failed", "stream", "exhausted", "cancelled", "dropped"}
    /\ found \in {NoMatch, Ambiguous}
                  \cup {Matched(routes[i], u) : i \in DOMAIN routes,
                           u \in {SubSeq(model, n, Len(model)) :
                                     n \in 1 .. Len(model) + 1}}
    /\ request \subseteq [endpoint : ApiRoute, credential : CredentialRefs,
                          model : Seq(STRING)]
    /\ store \in StoreAnswers \cup {NotYet}
    /\ status \in Statuses \cup {NotYet}
    /\ error \subseteq ProviderError
    /\ wire \in Seq(Answers)
    /\ polled \in Seq(AnyItem)
    /\ validator \in ValidatorState
    /\ out \in Seq(CanonicalEvent)

\* A request leaves only when one route alone claims the slug, for the
\* endpoint and with the credential of that route and with the rest of the
\* slug as its model; never over a protocol the adapter does not speak, never
\* without a secret (provider-api lib.rs:66-83, 209-231, credentials 28-64).
SentToSoleRoute ==
    \A r \in request :
        \E i \in DOMAIN routes :
            /\ \A j \in DOMAIN routes :
                 IsPrefix(routes[j].model_prefix, model) <=> j = i
            /\ r.endpoint = routes[i]
            /\ r.credential = routes[i].credential_ref
            /\ routes[i].model_prefix \o r.model = model
            /\ routes[i].protocol # "anthropic_messages"
            /\ store = "secret"

\* What the last answer of the upstream amounts to, read from the raw frame:
\* nothing yet, success, a verdict short of success, or a broken protocol.
Outcome(answer) ==
    LET Bad == \/ answer.data \in {"not_json", "no_type", "broken", "closed"}
               \/ /\ answer.data = "json"
                  /\ \/ /\ answer.type \in {"response.created",
                                            "response.completed"}
                        /\ answer.id = NoId
                     \/ /\ answer.type \in {"response.output_item.added",
                                            "response.output_text.delta",
                                            "response.output_item.done"}
                        /\ ~answer.whole
    IN  IF Bad THEN "response.failed"
        ELSE IF answer.data = "json" /\ answer.type \in TerminalFrames
        THEN answer.type ELSE "none"

\* The consumer's verdict is the upstream's: a stream concludes exactly when
\* the last answer decides the turn and with the verdict of that answer, all
\* answers before it having decided nothing.  Only the upstream's own
\* response.completed completes a turn, and neither [DONE] nor an unknown
\* frame ends one (provider-api lib.rs:244-262, 356-442).
VerdictIsUpstreams ==
    LET verdict(i) == Outcome(wire[i])
        concluded == {to_responses_wire(out[i]).type :
                        i \in {j \in DOMAIN out : Concludes(out[j])}}
    IN  /\ \A i \in 1 .. Len(wire) - 1 : verdict(i) = "none"
        /\ concluded = IF wire = <<>> \/ verdict(Len(wire)) = "none" THEN {}
                       ELSE {verdict(Len(wire))}

\* A failed turn is reported retryable, as an error of execute or as a failure
\* event, exactly when what failed may pass: the connection to the upstream, at
\* the request or under the stream, or an upstream whose status asks for
\* patience.  A refused credential, a route that cannot be served, a frame out
\* of contract, an early end and the upstream's own verdict are final
\* (provider-api lib.rs:212-238, 254-258, 328-376, core lib.rs:95-107).
RetryableIffTransient ==
    /\ \A e \in error : e.retryable <=>
          /\ request # {}
          /\ status \in {NotYet, "408", "429", "5xx"}
    /\ \A i \in DOMAIN out : out[i].retryable <=>
          i = Len(out) /\ wire # <<>> /\ wire[Len(wire)] = Broken

\* docs/ARCHITECTURE.md:186, of API providers: "Retry only before any downstream
\* response item has been accepted, and only for contract-declared retryable
\* failures": behind an item no failure tells the client to try again.
RetryableBeforeAnyItem ==
    \A i, j \in DOMAIN out :
        i < j /\ out[i].type \in ItemEventTypes => ~out[j].retryable

\* The stream HttpApiProvider returns, behind the validator, is a validated
\* stream: skipped frames are steps nobody downstream sees.
Relay == INSTANCE ValidatedStream
    WITH phase <- IF pc \in {"exhausted", "dropped"} THEN pc ELSE "open",
         ProviderEvents <- CanonicalEvent,
         ProviderErrors <- ProviderError,
         MaxItems <- MaxAnswers
ImplementsValidatedStream == Relay!Spec
=============================================================================

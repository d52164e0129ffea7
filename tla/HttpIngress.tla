---------------------------- MODULE HttpIngress ----------------------------
(***************************************************************************)
(* The Responses ingress with the HTTP API provider behind it: the daemon  *)
(* (crates/daemon/src/lib.rs) resolves a model with the route table and    *)
(* executes turns through HttpApiProvider (crates/provider-api/src/lib.rs) *)
(* with the keychain's credentials (crates/credentials/src/lib.rs).  What  *)
(* ResponsesIngress leaves to any provider is here what this one answers,  *)
(* and next to the leases there are the upstream exchanges of the turns.   *)
(***************************************************************************)
EXTENDS ResponsesIngress, RouteTable, HttpApiDecoder

CONSTANTS
    Routes,          \* the route table
    Slug,            \* the segments of the models that callers name
    UpstreamFrames,  \* the SSE frames that upstreams may send
    NoCall           \* no exchange

\* The models with a provider are those that the route table resolves.
ASSUME RoutesAssumption ==
    RoutableModels = {m \in DOMAIN Slug : resolve(Routes, Slug[m]).tag = "matched"}

\* The answers of the provider are among those the ingress is told of.
HttpErrors ==
    {classified("model_unavailable", FALSE), classified("auth_required", FALSE),
     classified("transport_failed", FALSE), classified("transport_failed", TRUE),
     classified("rate_limited", TRUE),
     classified("invalid_provider_response", FALSE)}

ASSUME AnswersAssumption ==
    /\ HttpErrors \subseteq ProviderErrors
    /\ UpstreamFrames \subseteq Frames
    /\ \A frame \in UpstreamFrames :
         decode_responses_event(frame) \in
            {OkItem(event) : event \in ProviderEvents}
                \cup {ErrItem(Malformed), Skip}

Admitted(t, body) ==
    IF t \in HttpTasks
    THEN \E c \in Capabilities : HttpRefusal(c, body) = Admissible
    ELSE WsRefusal(body) = Admissible

RouteOf(body) ==
    LET model == CHOOSE m \in from_responses_request(body).requested_model : TRUE
    IN  resolve(Routes, Slug[model]).route

\* What execute holds for a body.  "lookup": it awaits the credential; "sent":
\* it awaits the head of the response; "body": it has returned the stream over
\* the body of the response.
Exchange(stage, body) == [stage |-> stage, route |-> RouteOf(body),
                          identity |-> from_responses_request(body).identity]

Exchanges == {Exchange(stage, body) : stage \in {"lookup", "sent", "body"},
                body \in {b \in Bodies : \E t \in Tasks : Admitted(t, b)}}

ASSUME NoCallAssumption == NoCall \notin Exchanges

VARIABLE call  \* the exchange each task's provider holds, or NoCall

hvars == <<vars, call>>

HInit == Init /\ call = [t \in Tasks |-> NoCall]

AtStage(t, stage) == call[t] # NoCall /\ call[t].stage = stage
MoveTo(t, stage) == call' = [call EXCEPT ![t].stage = stage]

\* Mutant of HangUp: a request runs on in a task of its own.
HangUp_RunsOn(t) == UNCHANGED call

\* A request or a response goes with the future that awaits it.  A lookup runs
\* on in its thread, and nobody hears its answer.
HangUp(t) == call' = [call EXCEPT ![t] = NoCall]

\* The request is admitted, and execute runs to its first await.
Begin(t, body) ==
    /\ Admitted(t, body)
    /\ Accept(t, KeyOf(body))
    /\ call' = [call EXCEPT ![t] = Exchange("lookup", body)]

\* Mutant of Fail: the provider tries again whatever may be tried again, for
\* as long as the upstream is in no state to answer.
Fail_Retries(t, error) ==
    IF error.retryable THEN MoveTo(t, "lookup") /\ UNCHANGED vars
    ELSE ExecuteErr(t, error) /\ HangUp(t)

\* execute answers an error, and its exchange is over.
Fail(t, error) == ExecuteErr(t, error) /\ HangUp(t)

\* A route that execute refuses is refused before the lookup, at once.
Refuse(t) ==
    /\ AtStage(t, "lookup")
    /\ \E error \in RouteError(call[t].route) : Fail(t, error)

\* The credential store answers, and the request is sent.
LookUp(t, answer) ==
    /\ AtStage(t, "lookup")
    /\ RouteError(call[t].route) = {}
    /\ LET errors == credential_error(answer)
       IN  \/ \E error \in errors : Fail(t, error)
           \/ errors = {} /\ MoveTo(t, "sent") /\ UNCHANGED vars

SendFails(t) == AtStage(t, "sent") /\ Fail(t, TransportFailed)

\* The upstream answers with the head of its response.
Respond(t, status) ==
    /\ AtStage(t, "sent")
    /\ IF status = "2xx" THEN ExecuteOk(t) /\ MoveTo(t, "body")
       ELSE Fail(t, status_error(status))

Answers == UpstreamFrames \cup {Broken, Closed}

\* The next answer of the body that is not filtered out; one that is changes
\* nothing.
Deliver(t, answer) ==
    /\ AtStage(t, "body")
    /\ ~Filtered(Decoded(answer))
    /\ Relay(t, Decoded(answer))
    /\ UNCHANGED call

\* The future of execute or its stream is dropped, and the exchange with it.
Drop(t) == (DropRequest(t) \/ EndStream(t) \/ SendBreaks(t)) /\ HangUp(t)

\* What the ingress does without its provider.
Aside(t) == /\ \/ Connect(t) \/ Disconnect(t) \/ CloseIdle(t)
               \/ ReplyWithoutTurn(t)
               \/ \E key \in TurnKeys(t) : RejectDuplicate(t, key)
               \/ EmitFailure(t) \/ Sent(t) \/ Release(t)
            /\ UNCHANGED call

Upstream(t) == \/ \E answer \in StoreAnswers : LookUp(t, answer)
               \/ SendFails(t)
               \/ \E status \in Statuses : Respond(t, status)
               \/ \E answer \in Answers : Deliver(t, answer)

HNext == \/ \E t \in Tasks : \/ Aside(t) \/ Drop(t) \/ Refuse(t) \/ Upstream(t)
                             \/ \E body \in Bodies : Begin(t, body)
         \/ Restart /\ call' = [t \in Tasks |-> NoCall]

HFairness ==
    \A t \in Tasks : /\ WF_hvars(DropRequest(t) /\ HangUp(t))
                     /\ WF_hvars(EndStream(t) /\ HangUp(t))
                     /\ WF_hvars(~connected[t] /\
                            (\/ Sent(t) /\ UNCHANGED call
                             \/ SendBreaks(t) /\ HangUp(t)))
                     /\ WF_hvars(Refuse(t))
                     /\ WF_hvars(EmitFailure(t) /\ UNCHANGED call)
                     /\ WF_hvars(Release(t) /\ UNCHANGED call)

\* The client of the upstream has no timeout, so nothing is said of Upstream.
HSpec == HInit /\ [][HNext]_hvars /\ HFairness

\* An upstream and a credential store that answer, where every body brings an
\* event or its end before long.
UpstreamFairness == \A t \in Tasks : WF_hvars(Upstream(t))

-----------------------------------------------------------------------------
\* A task holds an exchange exactly while its provider may be at work, the
\* stream over the body exactly while events are relayed and sent, and always for
\* the turn it has the lease of: no error, no vanished client and no restart leaves
\* an exchange behind or takes the lease from under one
\* (daemon lib.rs:164-178, 286-325, 365-373, provider-api lib.rs:209-262).
ExchangeUnderLease ==
    /\ call \in [Tasks -> Exchanges \cup {NoCall}]
    /\ \A t \in Tasks :
         /\ call[t] # NoCall <=> pc[t] \in Working
         /\ call[t] # NoCall =>
                /\ call[t].stage = "body" <=> pc[t] \in {"streaming", "sending"}
                /\ lease[t] = TurnKeyOf(call[t].identity)

\* The upstreams never serve two exchanges of one turn, on whatever routes its
\* repeats ask for and with whatever else in their identity: the lease covers
\* the exchange from the lookup to the drop of the body, also where the turn
\* is cut off (daemon lib.rs:59-90, 164-178, 286-325, provider-api 209-262).
OneExchangePerTurn ==
    \A t, u \in Tasks :
        (/\ t # u /\ call[t] # NoCall /\ call[u] # NoCall
         /\ call[t].identity.thread_id = call[u].identity.thread_id)
            => call[t].identity.turn_id # call[u].identity.turn_id

\* A client reads a completion only as its own upstream says it: in the step in
\* which the body of the task's exchange, under the lease of its turn, delivers
\* response.completed for that response.  Neither the end of the body, nor an
\* error, nor an earlier turn of the connection or a repeat elsewhere passes
\* for it (provider-api lib.rs:244-262, 414-420, core lib.rs:76-107,
\* daemon lib.rs:164-178, 306-324).
CompletionIsUpstreams ==
    [][\A t \in Tasks :
          (/\ wire'[t] \notin {wire[t], <<>>}
           /\ Last(wire'[t]).type = "response.completed")
             => /\ lease[t] \in active
                /\ lease[t] = TurnKeyOf(call[t].identity)
                /\ \E frame \in UpstreamFrames :
                     /\ frame.data = "json"
                     /\ frame.type = "response.completed"
                     /\ frame.id = Last(wire'[t]).id
                     /\ Deliver(t, frame)]_hvars

\* An exchange is dropped before long once its turn has concluded or its HTTP
\* client is gone, though the upstream never answers again: no retry meets the
\* remains of the turn before it.  Only a client that stays and never takes the
\* conclusion keeps it (daemon lib.rs:332, 365-373, core lib.rs:76-78).
ExchangeEnds ==
    \A t \in Tasks :
        (/\ call[t] # NoCall
         /\ Concluded(t) \/ (t \in HttpTasks /\ ~connected[t]))
            ~> (call[t] = NoCall \/ []Stalled(t))

\* The HTTP provider is one of the providers that ResponsesIngress allows: its
\* errors and events are among those the ingress is told of, and its exchanges
\* keep no task of the runtime from its steps.
ImplementsIngress == Spec

\* An upstream that answers makes a provider that answers: nothing between the
\* two, no lookup and no refused status, keeps a turn from its end
\* (provider-api lib.rs:209-262, credentials lib.rs:28-64).
AnswersWithUpstream == UpstreamFairness => ProviderFairness
=============================================================================

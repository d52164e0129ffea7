----------------------------- MODULE BrowserRpc -----------------------------
(***************************************************************************)
(* The RPC server of the browser worker (packages/browser-worker/src/      *)
(* rpc-server.ts, index.ts): requests whose bodies arrive chunk by chunk,  *)
(* on one event loop with a browser that changes the session meanwhile.    *)
(* A handler runs without interruption between two awaits; the only await  *)
(* on something outside the process is the next chunk of a body.  The      *)
(* worker may be killed at any point and launched again (rpc-main.ts).     *)
(***************************************************************************)
EXTENDS BrowserSession, BrowserTurnRequest

CONSTANTS
    Requests,      \* the requests in flight; each is one handler run
    NoAnswer,      \* stands for an answer not written yet
    NotJson,       \* a body that is not JSON
    Bodies,        \* the other bodies of turns
    MAX_JSON_BYTES,  \* the limit of readJson, in units of data
    MaxRevision,   \* bound: how often the session changes in one life
    MaxLives       \* bound: how often the worker is launched

ASSUME LimitAssumption ==
    /\ MAX_JSON_BYTES \in Nat \ {0}
    /\ MaxRevision \in Nat /\ MaxLives \in Nat

ASSUME BodiesAssumption == NotJson \notin Bodies /\ Bodies \subseteq TurnBody

VARIABLES
    capability,  \* what the running worker demands, Down when none runs
    life,     \* history: how often the worker was launched
    session,  \* the BrowserSession of the process
    asked,    \* what each request asks
    pc,       \* "new", "reading", "done", or "lost" with the worker
    left,     \* the bytes of each body still to come
    bytes,    \* the bytes readJson has counted
    answer,   \* the answer written to each request
    started,  \* history: the states in which browser work was started
    shown     \* history: the snapshots served, with the life that served them

worker == <<capability, life>>
vars == <<worker, session, asked, pc, left, bytes, answer, started, shown>>

\* What follows the prompt into the body: braces, keys, the trace id.
Envelope == 1

\* Capabilities: none, one so short that it may be guessed, a secret.
Down == "down"
Secrets == {"", "guess", "secret"}

\* A request by what handleRequest branches on; for a turn, also the size of
\* its prompt and its body.  "bad_url" is a target that URL cannot parse.
Ask == [endpoint : {"turn"}, header : {"secret"},
        prompt : 0 .. MAX_JSON_BYTES + 1, body : Bodies \cup {NotJson}]
       \cup [endpoint : {"healthz", "session", "turn", "unknown", "bad_url"},
             header : Secrets, prompt : {0}, body : {NotJson}]

Answer(status, code) == [status |-> status, code |-> code]

Failures == {"rpc_unauthorized", "rpc_protocol_mismatch",
             "rpc_invalid_request", "rpc_payload_too_large",
             "rpc_internal_error",
             "web_auth_required", "web_security_challenge",
             "web_transport_failed"}

\* What a request may be answered.
Replies == [status : {200, 400, 401, 404, 409, 413, 500},
            code : Failures \cup {"ok"}]

ASSUME NoAnswerAssumption == NoAnswer \notin Replies

Init == /\ capability = Down /\ life = 0
        /\ session = NewSession
        /\ asked \in [Requests -> Ask]
        /\ pc = [r \in Requests |-> "new"]
        /\ left = [r \in Requests |-> asked[r].prompt + Envelope]
        /\ bytes = [r \in Requests |-> 0]
        /\ answer = [r \in Requests |-> NoAnswer]
        /\ started = {}
        /\ shown = {}

\* Mutant of Write: the handler goes on after it has answered.
Write_GoesOn(r, reply) == /\ answer' = [answer EXCEPT ![r] = reply]
                          /\ UNCHANGED pc

Write(r, reply) == /\ answer' = [answer EXCEPT ![r] = reply]
                   /\ pc' = [pc EXCEPT ![r] = "done"]

\* Mutant of Starts: the length of the capability is not looked at.
Starts_AnyLength(env) == env.capability # "" /\ env.port = "free"

\* The checks of rpc-main and createBrowserRpcServer and the listener; a worker
\* that does not start exits.
Starts(env) == env.capability = "secret" /\ env.port = "free"

Environments == [capability : Secrets, port : {"free", "taken", "invalid"}]

\* The worker is launched, with a session of its own.
Launch(env) == /\ capability = Down /\ life < MaxLives
               /\ Starts(env)
               /\ capability' = env.capability
               /\ life' = life + 1
               /\ session' = NewSession
               /\ UNCHANGED <<asked, pc, left, bytes, answer, started, shown>>

\* The worker is killed, and what it was reading is lost.
Kill == /\ capability # Down
        /\ capability' = Down
        /\ pc' = [r \in Requests |-> IF pc[r] = "reading" THEN "lost" ELSE pc[r]]
        /\ UNCHANGED <<life, session, asked, left, bytes, answer, started, shown>>

\* BrowserSessionSnapshot, and the life of the worker it is served in.
Snapshot == [state |-> session.state, revision |-> session.revision,
             life |-> life]

authorized(ask) == ask.header = capability

\* What is answered before any of the body is read; a turn's body is read.
Opening(ask) ==
    IF ask.endpoint = "bad_url" THEN Answer(500, "rpc_internal_error")
    ELSE IF ask.endpoint = "healthz" THEN Answer(200, "ok")
    ELSE IF ~authorized(ask) THEN Answer(401, "rpc_unauthorized")
    ELSE CASE ask.endpoint = "session" -> Answer(200, "ok")
           [] ask.endpoint = "unknown" -> Answer(404, "rpc_invalid_request")
           [] ask.endpoint = "turn"    -> NoAnswer

\* handleRequest up to its first await.
Handle(r) ==
    /\ pc[r] = "new" /\ capability # Down
    /\ LET reply == Opening(asked[r])
       IN  IF reply = NoAnswer
           THEN pc' = [pc EXCEPT ![r] = "reading"] /\ UNCHANGED answer
           ELSE Write(r, reply)
    /\ shown' = IF asked[r].endpoint = "session" /\ answer'[r].status = 200
                THEN shown \cup {Snapshot} ELSE shown
    /\ UNCHANGED <<worker, session, asked, left, bytes, started>>

\* Mutant of Counted: the limit is held against each chunk alone.
Counted_EachAlone(r, chunk) == chunk

Counted(r, chunk) == bytes[r] + chunk

\* readJson takes a chunk, of any size.
ReadChunk(r, chunk) ==
    /\ pc[r] = "reading" /\ chunk \in 1 .. left[r]
    /\ left' = [left EXCEPT ![r] = @ - chunk]
    /\ bytes' = [bytes EXCEPT ![r] = Counted(r, chunk)]
    /\ IF bytes'[r] > MAX_JSON_BYTES
       THEN Write(r, Answer(413, "rpc_payload_too_large"))
       ELSE UNCHANGED <<answer, pc>>
    /\ UNCHANGED <<worker, session, asked, started, shown>>

\* executeBrowserTurnForSession: the preflight and, past it, the placeholder
\* of the browser transport.
executeTurn(r) ==
    LET failure == preflightFailure(session)
    IN  IF failure # {}
        THEN /\ \E code \in failure : Write(r, Answer(200, code))
             /\ UNCHANGED started
        ELSE /\ Write(r, Answer(200, "web_transport_failed"))
             /\ started' = started \cup {session.state}

\* The body is complete: the guard of its shape, then the turn, without an
\* await on anything outside in between.
BodyRead(r) ==
    /\ pc[r] = "reading" /\ left[r] = 0
    /\ LET body == asked[r].body
           refusal == IF body # NotJson /\ readProtocol(body) # {}
                      THEN Answer(409, "rpc_protocol_mismatch")
                      ELSE Answer(400, "rpc_invalid_request")
       IN  IF body # NotJson /\ isBrowserTurnRequest(body) THEN executeTurn(r)
           ELSE Write(r, refusal) /\ UNCHANGED started
    /\ UNCHANGED <<worker, session, asked, left, bytes, shown>>

\* The client goes away in the middle of its body; the 400 reaches nobody.
Abort(r) == /\ pc[r] = "reading" /\ left[r] > 0
            /\ Write(r, Answer(400, "rpc_invalid_request"))
            /\ UNCHANGED <<worker, session, asked, left, bytes, started, shown>>

\* Whoever drives the browser reports what it sees.
Report == /\ capability # Down
          /\ session' \in {beginAuthentication(session), markHealthy(session),
                           markLoggedOut(session), markChallenge(session),
                           markNeedsReauth(session)}
          /\ session'.revision <= MaxRevision
          /\ UNCHANGED <<worker, asked, pc, left, bytes, answer, started, shown>>

Navigate(url) ==
    /\ capability # Down
    /\ session' = observeNavigation(session, url)
    /\ session'.revision <= MaxRevision
    /\ UNCHANGED <<worker, asked, pc, left, bytes, answer, started, shown>>

Serve(r) == \/ Handle(r) \/ BodyRead(r) \/ Abort(r)
            \/ \E chunk \in 1 .. left[r] : ReadChunk(r, chunk)

Next == \/ \E env \in Environments : Launch(env)
        \/ Kill
        \/ \E r \in Requests : Serve(r)
        \/ Report
        \/ \E url \in Urls : Navigate(url)

Spec == Init /\ [][Next]_vars

-----------------------------------------------------------------------------
\* Every variable keeps its type.
TypeOK ==
    /\ capability \in Secrets \cup {Down} /\ life \in 0 .. MaxLives
    /\ session \in [state : BrowserSessionState, revision : 0 .. MaxRevision]
    /\ asked \in [Requests -> Ask]
    /\ pc \in [Requests -> {"new", "reading", "done", "lost"}]
    /\ left \in [Requests -> 0 .. MAX_JSON_BYTES + 1 + Envelope]
    /\ bytes \in [Requests -> 0 .. MAX_JSON_BYTES + 1 + Envelope]
    /\ answer \in [Requests -> Replies \cup {NoAnswer}]
    /\ \A r \in Requests :
         answer[r] # NoAnswer => pc[r] = "done"
    /\ started \subseteq BrowserSessionState
    /\ shown \subseteq [state : BrowserSessionState, revision : 0 .. MaxRevision,
                       life : 1 .. MaxLives]

TurnVerdicts == {"web_auth_required", "web_security_challenge",
                 "web_transport_failed"}

\* A turn is judged by the session as it is when the last of its body is in,
\* whatever it was when the request came, and browser work starts only in a
\* healthy one (rpc-server.ts:130-162, index.ts:18, docs/ARCHITECTURE.md:151).
TurnVerdictIsCurrent ==
    [][/\ started' \subseteq {"healthy"}
       /\ \A r \in Requests :
            answer'[r] # answer[r] /\ answer'[r].code \in TurnVerdicts =>
               /\ answer'[r].code = "web_transport_failed"
                    <=> session.state = "healthy"
               /\ answer'[r].code = "web_security_challenge"
                    <=> session.state = "challenged"]_vars

\* A body above the limit never becomes a turn, however it is cut into chunks
\* (rpc-server.ts:186-199).
OversizedNeverRuns ==
    \A r \in Requests :
        answer[r] # NoAnswer /\ answer[r].code \in TurnVerdicts =>
            asked[r].prompt + Envelope <= MAX_JSON_BYTES

\* Two snapshots of one life of the worker with the same revision show the
\* same state, so a client that compares revisions misses no change
\* (session-state.ts:81-85, rpc-server.ts:117-125).
RevisionNamesState ==
    \A one, other \in shown \cup {Snapshot} :
        one.life = other.life /\ one.revision = other.revision =>
            one.state = other.state

\* Without the secret that the supervisor made, a request learns nothing but
\* that the service runs, whatever the worker was launched with: a capability
\* that is missing or short enough to be guessed starts no worker
\* (rpc-main.ts:12-15, rpc-server.ts:49-51, 95-115).
UnauthorizedLearnsNothing ==
    \A r \in Requests :
        answer[r] # NoAnswer /\ asked[r].header # "secret" =>
            asked[r].endpoint = "healthz" \/ answer[r].status \in {401, 500}

\* A turn that the schema admits and that fits the limit is judged once its
\* body is in: the guard asks for nothing that the schema makes optional, and
\* no such turn is called invalid or of another protocol
\* (rpc-server.ts:144-161, 201-219, schema/browser-rpc.schema.json).
SchemaValidTurnsAreJudged ==
    \A r \in Requests :
        (/\ pc[r] = "done" /\ left[r] = 0
         /\ asked[r].header = "secret" /\ asked[r].body \in Bodies
         /\ asked[r].prompt + Envelope <= MAX_JSON_BYTES
         /\ SchemaValid(asked[r].body)) => answer[r].code \in TurnVerdicts

\* The two sides of the RPC refuse the same sessions, for the same reason, and
\* no turn starts in a session that a navigation was told has to sign in
\* (session-state.ts:49-79, provider-web lib.rs:19-35).
PreflightsAgree ==
    /\ \A url \in Urls : navigationFailure(url) # {} =>
                          ~canStartTurn(observeNavigation(session, url))
    /\ canStartTurn(session) <=> preflightFailure(session) = {}
    /\ preflight(session.state) = {} <=> preflightFailure(session) = {}
    /\ preflight(session.state) = {"security_challenge"}
         <=> preflightFailure(session) = {"web_security_challenge"}

-----------------------------------------------------------------------------
(* What the documents say of the worker and the code does not do. *)

\* schema/browser-rpc.schema.json admits a prompt of as many characters as
\* readJson admits bytes of body, so a turn the schema admits is read.
PromptMaxLength == MAX_JSON_BYTES
SchemaValidTurnsAreRead ==
    \A r \in Requests :
        answer[r] # NoAnswer /\ asked[r].body \in {b \in Bodies : SchemaValid(b)}
            /\ asked[r].prompt <= PromptMaxLength => answer[r].status # 413

\* "additionalProperties": false, and the types of the optional fields, at
\* schema/browser-rpc.schema.json:12-26: what the schema refuses is no turn.
OnlySchemaTurnsRun ==
    \A r \in Requests :
        answer[r] # NoAnswer /\ answer[r].code \in TurnVerdicts =>
            SchemaValid(asked[r].body)

\* The session diagram of docs/ARCHITECTURE.md:133-149, with the redirect of
\* a healthy session that the text below it adds.
Diagram == {<<"logged_out", "authenticating">>, <<"authenticating", "healthy">>,
            <<"healthy", "challenged">>, <<"challenged", "healthy">>,
            <<"challenged", "needs_reauth">>, <<"healthy", "needs_reauth">>}

\* Whoever drives the browser reports only what the diagram allows; what a
\* navigation does is left to the code.
ReportByDiagram == Report /\ <<session.state, session'.state>> \in Diagram
SpecByDiagram ==
    Init /\ [][\/ \E env \in Environments : Launch(env)
              \/ \E r \in Requests : Serve(r)
              \/ ReportByDiagram
              \/ \E url \in Urls : Navigate(url)]_vars

\* A sign-in in progress ends in a healthy session and nowhere else.
SignInLeadsToHealthy ==
    [][session.state = "authenticating" =>
         session'.state \in {"authenticating", "healthy"}]_vars
=============================================================================

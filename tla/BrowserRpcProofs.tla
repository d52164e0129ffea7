-------------------------- MODULE BrowserRpcProofs --------------------------
(***************************************************************************)
(* The safety of the browser worker's RPC server for any number of         *)
(* requests, any limit, and any number of lives and session changes.       *)
(***************************************************************************)
EXTENDS BrowserRpc, TLAPS

\* The worker that runs has the secret, and its snapshots are of its past.
WorkerInv ==
    /\ capability \in {Down, "secret"}
    /\ capability # Down => life > 0
    /\ \A snap \in shown : snap.life <= life
    /\ \A snap \in shown : snap.life = life =>
          /\ snap.revision <= session.revision
          /\ snap.revision = session.revision => snap.state = session.state
    /\ started \subseteq {"healthy"}

SnapshotsAgree ==
    \A one, other \in shown :
        one.life = other.life /\ one.revision = other.revision =>
            one.state = other.state

\* What is counted and what is still to come add up to the body, and a body is
\* read for the holder of the secret alone.
ReadingInv ==
    \A r \in Requests :
        /\ bytes[r] + left[r] = asked[r].prompt + Envelope
        /\ pc[r] = "new" => left[r] > 0 /\ bytes[r] = 0
        /\ pc[r] = "reading" => /\ asked[r].header = "secret"
                                /\ bytes[r] <= MAX_JSON_BYTES

AnswerInv == /\ OversizedNeverRuns
             /\ UnauthorizedLearnsNothing
             /\ SchemaValidTurnsAreJudged

RpcInv == TypeOK /\ WorkerInv /\ SnapshotsAgree /\ ReadingInv /\ AnswerInv

-----------------------------------------------------------------------------
SessionType == [state : BrowserSessionState, revision : 0 .. MaxRevision]

LEMMA AskFacts ==
    ASSUME NEW ask \in Ask
    PROVE  /\ ask.prompt \in 0 .. MAX_JSON_BYTES + 1
           /\ ask.header \in Secrets
           /\ ask.endpoint \in {"healthz", "session", "turn", "unknown", "bad_url"}
           /\ ask.endpoint # "turn" => ask.body = NotJson
<1>1. CASE ask \in [endpoint : {"turn"}, header : {"secret"},
                    prompt : 0 .. MAX_JSON_BYTES + 1, body : Bodies \cup {NotJson}]
  BY <1>1 DEF Secrets
<1>2. CASE ask \in [endpoint : {"healthz", "session", "turn", "unknown", "bad_url"},
                    header : Secrets, prompt : {0}, body : {NotJson}]
  BY <1>2, LimitAssumption
<1> QED
  BY <1>1, <1>2 DEF Ask

\* A change of the session counts, and a session that is not counted stays.
LEMMA Counts ==
    ASSUME NEW before \in SessionType, NEW next \in BrowserSessionState
    PROVE  \/ transition(before, next) = before
           \/ transition(before, next) =
                [state |-> next, revision |-> before.revision + 1]
BY DEF transition

LEMMA SessionSteps ==
    ASSUME session \in SessionType, LimitAssumption,
           Report \/ \E url \in Urls : Navigate(url)
    PROVE  /\ session' \in SessionType
           /\ session' = session \/ session'.revision = session.revision + 1
<1>1. \E next \in BrowserSessionState :
         session' = session \/ session' = transition(session, next)
  BY DEF Report, Navigate, observeNavigation, beginAuthentication, markHealthy,
         markLoggedOut, markChallenge, markNeedsReauth, BrowserSessionState
<1>2. session'.revision <= MaxRevision
  BY DEF Report, Navigate
<1> QED
  BY <1>1, <1>2, Counts DEF SessionType, LimitAssumption

LEMMA ReplyTypes ==
    /\ \A code \in Failures \cup {"ok"} :
         \A status \in {200, 400, 401, 404, 409, 413, 500} :
            Answer(status, code) \in Replies
    /\ TurnVerdicts \subseteq Failures
    /\ "ok" \notin Failures
BY DEF Answer, Replies, TurnVerdicts, Failures

\* Before its body is read, a request is answered without a verdict on a turn,
\* and without the secret only that the service runs or that it is refused.
LEMMA OpeningFacts ==
    ASSUME NEW ask \in Ask, capability = "secret"
    PROVE  /\ Opening(ask) = NoAnswer =>
                ask.endpoint = "turn" /\ ask.header = "secret"
           /\ Opening(ask) # NoAnswer =>
                /\ Opening(ask) \in Replies
                /\ Opening(ask).code \notin TurnVerdicts
                /\ ask.header # "secret" => ask.endpoint = "healthz"
                                              \/ Opening(ask).status \in {401, 500}
<1>1. ask.endpoint \in {"healthz", "session", "turn", "unknown", "bad_url"}
  BY AskFacts
<1>2. CASE ask.endpoint = "bad_url"
  BY <1>2, NoAnswerAssumption DEF Opening, Answer, Replies, Failures, TurnVerdicts
<1>3. CASE ask.endpoint = "healthz"
  BY <1>3, NoAnswerAssumption DEF Opening, Answer, Replies, Failures, TurnVerdicts
<1>4. CASE ask.endpoint \notin {"bad_url", "healthz"} /\ ~authorized(ask)
  BY <1>4, NoAnswerAssumption DEF Opening, Answer, Replies, Failures, TurnVerdicts
<1>5. CASE ask.endpoint \notin {"bad_url", "healthz"} /\ authorized(ask)
  <2>1. ask.header = "secret"
    BY <1>5 DEF authorized
  <2>2. CASE ask.endpoint = "turn"
    BY <1>5, <2>1, <2>2 DEF Opening
  <2>3. CASE ask.endpoint = "session"
    BY <1>5, <2>1, <2>3, NoAnswerAssumption
       DEF Opening, Answer, Replies, Failures, TurnVerdicts
  <2>4. CASE ask.endpoint = "unknown"
    BY <1>5, <2>1, <2>4, NoAnswerAssumption
       DEF Opening, Answer, Replies, Failures, TurnVerdicts
  <2> QED
    BY <1>1, <1>5, <2>2, <2>3, <2>4
<1> QED
  BY <1>2, <1>3, <1>4, <1>5

\* The verdict on a turn and the session it is passed in.
LEMMA Verdicts ==
    ASSUME session.state \in BrowserSessionState, NEW r \in Requests,
           executeTurn(r)
    PROVE  \E code \in TurnVerdicts :
              /\ Write(r, Answer(200, code))
              /\ code = "web_transport_failed" <=> session.state = "healthy"
              /\ code = "web_security_challenge" <=> session.state = "challenged"
              /\ started' = IF session.state = "healthy"
                            THEN started \cup {"healthy"} ELSE started
<1>1. CASE session.state = "healthy"
  BY <1>1 DEF executeTurn, preflightFailure, TurnVerdicts
<1>2. CASE session.state = "challenged"
  BY <1>2 DEF executeTurn, preflightFailure, TurnVerdicts
<1>3. CASE session.state \notin {"healthy", "challenged"}
  BY <1>3 DEF executeTurn, preflightFailure, TurnVerdicts
<1> QED
  BY <1>1, <1>2, <1>3

-----------------------------------------------------------------------------
(* The invariant. *)

LEMMA InitInv == Init => RpcInv
<1> SUFFICES ASSUME Init PROVE RpcInv
  OBVIOUS
<1>1. \A r \in Requests : /\ asked[r] \in Ask
                          /\ left[r] = asked[r].prompt + 1 /\ bytes[r] = 0
                          /\ pc[r] = "new" /\ answer[r] = NoAnswer
  BY DEF Init, Envelope
<1>2. \A r \in Requests : /\ asked[r].prompt \in 0 .. MAX_JSON_BYTES + 1
                          /\ left[r] \in 0 .. MAX_JSON_BYTES + 1 + 1
  BY <1>1, AskFacts, LimitAssumption
<1>3. session \in SessionType
  BY LimitAssumption DEF Init, NewSession, BrowserSessionState, SessionType
<1>4. TypeOK
  BY <1>1, <1>2, <1>3, LimitAssumption
     DEF Init, TypeOK, Secrets, SessionType, Envelope
<1>5. WorkerInv /\ SnapshotsAgree
  BY DEF Init, WorkerInv, SnapshotsAgree
<1>6. ReadingInv
  BY <1>1, <1>2, LimitAssumption DEF ReadingInv, Envelope
<1>7. AnswerInv
  BY <1>1 DEF AnswerInv, OversizedNeverRuns, UnauthorizedLearnsNothing,
              SchemaValidTurnsAreJudged
<1> QED
  BY <1>4, <1>5, <1>6, <1>7 DEF RpcInv

LEMMA LaunchInv ==
    ASSUME RpcInv, NEW env \in Environments, Launch(env)
    PROVE  RpcInv'
<1> USE DEF RpcInv
<1>1. /\ capability' = "secret" /\ life' = life + 1 /\ life \in 0 .. MaxLives
      /\ life' \in 0 .. MaxLives /\ session' \in SessionType
  BY LimitAssumption
     DEF Launch, Starts, TypeOK, NewSession, BrowserSessionState, SessionType
<1>2. TypeOK'
  BY <1>1 DEF Launch, TypeOK, Secrets, SessionType
<1>3. WorkerInv'
  BY <1>1 DEF Launch, WorkerInv, TypeOK
<1>4. SnapshotsAgree' /\ ReadingInv' /\ AnswerInv'
  BY DEF Launch, SnapshotsAgree, ReadingInv, AnswerInv, OversizedNeverRuns,
         UnauthorizedLearnsNothing, SchemaValidTurnsAreJudged
<1> QED
  BY <1>2, <1>3, <1>4

LEMMA KillInv ==
    ASSUME RpcInv, Kill
    PROVE  RpcInv'
<1> USE DEF RpcInv
<1>1. TypeOK'
  BY DEF Kill, TypeOK
<1>2. WorkerInv'
  BY DEF Kill, WorkerInv
<1>3. SnapshotsAgree'
  BY DEF Kill, SnapshotsAgree
<1>4. \A r \in Requests : pc'[r] = pc[r] \/ pc'[r] = "lost"
  BY DEF Kill
<1>5. ReadingInv' /\ AnswerInv'
  BY <1>4 DEF Kill, ReadingInv, AnswerInv, OversizedNeverRuns,
         UnauthorizedLearnsNothing, SchemaValidTurnsAreJudged
<1> QED
  BY <1>1, <1>2, <1>3, <1>5

LEMMA SessionInv ==
    ASSUME RpcInv, Report \/ \E url \in Urls : Navigate(url)
    PROVE  RpcInv'
<1> USE DEF RpcInv
<1>1. UNCHANGED <<worker, asked, pc, left, bytes, answer, started, shown>>
  BY DEF Report, Navigate
<1>2. session \in SessionType
  BY DEF TypeOK, SessionType
<1>3. /\ session' \in SessionType
      /\ session' = session \/ session'.revision = session.revision + 1
  BY <1>2, SessionSteps, LimitAssumption
<1>4. TypeOK'
  BY <1>1, <1>3 DEF TypeOK, SessionType, worker
<1>5. WorkerInv'
  <2>1. session.revision \in Nat /\ session'.revision \in Nat
    BY <1>2, <1>3 DEF SessionType
  <2>2. \A snap \in shown : snap.revision \in Nat
    BY DEF TypeOK
  <2> QED
    BY <1>1, <1>3, <2>1, <2>2 DEF WorkerInv, worker
<1>6. SnapshotsAgree' /\ ReadingInv' /\ AnswerInv'
  BY <1>1 DEF SnapshotsAgree, ReadingInv, AnswerInv, OversizedNeverRuns,
              UnauthorizedLearnsNothing, SchemaValidTurnsAreJudged
<1> QED
  BY <1>4, <1>5, <1>6

\* A reply that is in order for one request keeps all in order.
LEMMA ReplyInv ==
    ASSUME RpcInv, NEW r \in Requests, NEW reply \in Replies, Write(r, reply),
           pc[r] \in {"new", "reading"},
           UNCHANGED <<worker, session, asked>>,
           left' \in [Requests -> 0 .. MAX_JSON_BYTES + 1 + Envelope],
           bytes' \in [Requests -> 0 .. MAX_JSON_BYTES + 1 + Envelope],
           \A q \in Requests : /\ bytes'[q] + left'[q] = asked[q].prompt + Envelope
                               /\ q # r => left'[q] = left[q] /\ bytes'[q] = bytes[q],
           reply.code \in TurnVerdicts =>
                asked[r].prompt + Envelope <= MAX_JSON_BYTES,
           asked[r].header # "secret" =>
                asked[r].endpoint = "healthz" \/ reply.status \in {401, 500},
           (/\ left'[r] = 0 /\ asked[r].header = "secret"
            /\ asked[r].body \in Bodies /\ SchemaValid(asked[r].body)
            /\ asked[r].prompt + Envelope <= MAX_JSON_BYTES)
                => reply.code \in TurnVerdicts
    PROVE  /\ pc' \in [Requests -> {"new", "reading", "done", "lost"}]
           /\ answer' \in [Requests -> Replies \cup {NoAnswer}]
           /\ \A q \in Requests : answer'[q] # NoAnswer => pc'[q] = "done"
           /\ ReadingInv' /\ AnswerInv'
<1> USE DEF RpcInv
<1>1. /\ pc' \in [Requests -> {"new", "reading", "done", "lost"}]
      /\ answer' \in [Requests -> Replies \cup {NoAnswer}]
      /\ pc'[r] = "done" /\ answer'[r] = reply
      /\ \A q \in Requests : q # r => pc'[q] = pc[q] /\ answer'[q] = answer[q]
  BY DEF TypeOK, Write
<1>2. \A q \in Requests : answer'[q] # NoAnswer => pc'[q] = "done"
  BY <1>1 DEF TypeOK
<1>3. ReadingInv'
  BY <1>1 DEF ReadingInv, Envelope
<1>4. OversizedNeverRuns'
  BY <1>1 DEF AnswerInv, OversizedNeverRuns
<1>5. UnauthorizedLearnsNothing'
  BY <1>1 DEF AnswerInv, UnauthorizedLearnsNothing
<1>6. SchemaValidTurnsAreJudged'
  BY <1>1 DEF AnswerInv, SchemaValidTurnsAreJudged
<1> QED
  BY <1>1, <1>2, <1>3, <1>4, <1>5, <1>6 DEF AnswerInv
\* A step that leaves the snapshots and the worker alone keeps their part.
LEMMA AsideInv ==
    ASSUME RpcInv, UNCHANGED <<worker, session, asked, shown>>,
           started' \subseteq {"healthy"}
    PROVE  WorkerInv' /\ SnapshotsAgree'
BY DEF RpcInv, WorkerInv, SnapshotsAgree, worker

LEMMA HandleInv ==
    ASSUME RpcInv, NEW r \in Requests, Handle(r)
    PROVE  RpcInv'
<1> USE DEF RpcInv
<1>1. /\ pc[r] = "new" /\ capability = "secret" /\ asked[r] \in Ask
      /\ UNCHANGED <<worker, session, asked, left, bytes, started>>
      /\ left[r] > 0 /\ life \in 1 .. MaxLives \cup {0}
  BY DEF Handle, WorkerInv, TypeOK, ReadingInv
<1>2. /\ pc' \in [Requests -> {"new", "reading", "done", "lost"}]
      /\ answer' \in [Requests -> Replies \cup {NoAnswer}]
      /\ \A q \in Requests : answer'[q] # NoAnswer => pc'[q] = "done"
      /\ ReadingInv' /\ AnswerInv'
  <2>1. CASE Opening(asked[r]) = NoAnswer
    <3>1. pc' = [pc EXCEPT ![r] = "reading"] /\ UNCHANGED answer
      BY <2>1 DEF Handle
    <3>2. asked[r].header = "secret" /\ bytes[r] <= MAX_JSON_BYTES
      BY <1>1, <2>1, OpeningFacts, AskFacts, LimitAssumption
         DEF ReadingInv, TypeOK, Envelope
    <3>3. \A q \in Requests : q # r => pc'[q] = pc[q]
      BY <3>1 DEF TypeOK
    <3>4. pc'[r] = "reading"
      BY <3>1 DEF TypeOK
    <3>5. ReadingInv'
      BY <1>1, <3>2, <3>3, <3>4 DEF ReadingInv
    <3>6. AnswerInv'
      BY <1>1, <3>1, <3>3, <3>4
         DEF AnswerInv, OversizedNeverRuns, UnauthorizedLearnsNothing,
             SchemaValidTurnsAreJudged
    <3> QED
      BY <1>1, <3>1, <3>3, <3>4, <3>5, <3>6 DEF TypeOK
  <2>2. CASE Opening(asked[r]) # NoAnswer
    <3>1. /\ Opening(asked[r]) \in Replies
          /\ Opening(asked[r]).code \notin TurnVerdicts
          /\ asked[r].header # "secret" => asked[r].endpoint = "healthz"
                \/ Opening(asked[r]).status \in {401, 500}
      BY <1>1, <2>2, OpeningFacts
    <3>2. Write(r, Opening(asked[r]))
      BY <2>2 DEF Handle
    <3>3. /\ left' \in [Requests -> 0 .. MAX_JSON_BYTES + 1 + Envelope]
          /\ bytes' \in [Requests -> 0 .. MAX_JSON_BYTES + 1 + Envelope]
          /\ left'[r] # 0
          /\ \A q \in Requests :
               /\ bytes'[q] + left'[q] = asked[q].prompt + Envelope
               /\ left'[q] = left[q] /\ bytes'[q] = bytes[q]
      BY <1>1 DEF TypeOK, ReadingInv
    <3> QED
      BY <1>1, <3>1, <3>2, <3>3, ReplyInv
  <2> QED
    BY <2>1, <2>2
<1>3. shown' = shown \/ shown' = shown \cup {Snapshot}
  BY DEF Handle
<1>4. Snapshot \in [state : BrowserSessionState, revision : 0 .. MaxRevision,
                    life : 0 .. MaxLives]
  BY DEF TypeOK, Snapshot
<1>5. shown' \subseteq [state : BrowserSessionState, revision : 0 .. MaxRevision,
                        life : 1 .. MaxLives]
  BY <1>1, <1>3, <1>4 DEF TypeOK, WorkerInv, Snapshot, Down
<1>6. TypeOK'
  BY <1>1, <1>2, <1>5 DEF TypeOK, worker
<1>7. WorkerInv'
  BY <1>1, <1>3, <1>4 DEF WorkerInv, Snapshot, worker, TypeOK
<1>8. SnapshotsAgree'
  BY <1>1, <1>3 DEF SnapshotsAgree, WorkerInv, Snapshot, worker
<1> QED
  BY <1>2, <1>6, <1>7, <1>8

LEMMA ReadChunkInv ==
    ASSUME RpcInv, NEW r \in Requests, NEW chunk \in 1 .. left[r],
           ReadChunk(r, chunk)
    PROVE  RpcInv'
<1> USE DEF RpcInv
<1>1. /\ pc[r] = "reading" /\ asked \in [Requests -> Ask]
      /\ UNCHANGED <<worker, session, asked, started, shown>>
      /\ left' = [left EXCEPT ![r] = @ - chunk]
      /\ bytes' = [bytes EXCEPT ![r] = @ + chunk]
      /\ asked[r].header = "secret"
  BY DEF ReadChunk, Counted, TypeOK, ReadingInv
<1>2. \A q \in Requests :
         /\ bytes[q] \in Nat /\ left[q] \in Nat
         /\ asked[q].prompt \in 0 .. MAX_JSON_BYTES + 1
         /\ bytes[q] + left[q] = asked[q].prompt + Envelope
  BY <1>1, AskFacts, LimitAssumption DEF TypeOK, ReadingInv, Envelope
<1>3. \A q \in Requests :
         /\ bytes'[q] + left'[q] = asked[q].prompt + Envelope
         /\ q # r => left'[q] = left[q] /\ bytes'[q] = bytes[q]
         /\ bytes'[q] \in Nat /\ left'[q] \in Nat
  BY <1>1, <1>2 DEF TypeOK, Envelope
<1>4. /\ left' \in [Requests -> 0 .. MAX_JSON_BYTES + 1 + Envelope]
      /\ bytes' \in [Requests -> 0 .. MAX_JSON_BYTES + 1 + Envelope]
  <2>1. \A q \in Requests : /\ left'[q] \in 0 .. MAX_JSON_BYTES + 1 + Envelope
                            /\ bytes'[q] \in 0 .. MAX_JSON_BYTES + 1 + Envelope
    BY <1>2, <1>3, LimitAssumption DEF Envelope
  <2> QED
    BY <1>1, <2>1 DEF TypeOK
<1>5. /\ pc' \in [Requests -> {"new", "reading", "done", "lost"}]
      /\ answer' \in [Requests -> Replies \cup {NoAnswer}]
      /\ \A q \in Requests : answer'[q] # NoAnswer => pc'[q] = "done"
      /\ ReadingInv' /\ AnswerInv'
  <2>1. CASE bytes'[r] > MAX_JSON_BYTES
    <3>1. Write(r, Answer(413, "rpc_payload_too_large"))
      BY <2>1 DEF ReadChunk
    <3>2. /\ Answer(413, "rpc_payload_too_large") \in Replies
          /\ Answer(413, "rpc_payload_too_large").code \notin TurnVerdicts
      BY DEF Answer, Replies, Failures, TurnVerdicts
    <3>3. ~(left'[r] = 0 /\ asked[r].prompt + Envelope <= MAX_JSON_BYTES)
      BY <1>2, <1>3, <2>1, LimitAssumption DEF Envelope
    <3> HIDE DEF RpcInv
    <3> QED
      BY <1>1, <1>3, <1>4, <3>1, <3>2, <3>3, ReplyInv
  <2>2. CASE ~(bytes'[r] > MAX_JSON_BYTES)
    <3>1. UNCHANGED <<answer, pc>>
      BY <2>2 DEF ReadChunk
    <3>2. ReadingInv'
      BY <1>1, <1>2, <1>3, <2>2, <3>1, LimitAssumption DEF ReadingInv
    <3>3. AnswerInv'
      BY <1>1, <1>3, <3>1
         DEF AnswerInv, OversizedNeverRuns, UnauthorizedLearnsNothing,
             SchemaValidTurnsAreJudged
    <3> QED
      BY <3>1, <3>2, <3>3 DEF TypeOK
  <2> QED
    BY <2>1, <2>2
<1>6. TypeOK'
  BY <1>1, <1>4, <1>5 DEF TypeOK, worker
<1>7. WorkerInv' /\ SnapshotsAgree'
  BY <1>1, AsideInv DEF WorkerInv
<1> QED
  BY <1>5, <1>6, <1>7

\* A reply after which nothing but the answer and the browser work changed.
LEMMA LastReplyInv ==
    ASSUME RpcInv, NEW r \in Requests, NEW reply \in Replies, Write(r, reply),
           pc[r] = "reading", started' \subseteq {"healthy"},
           UNCHANGED <<worker, session, asked, left, bytes, shown>>,
           left[r] = 0 \/ reply.code \notin TurnVerdicts,
           (/\ left[r] = 0 /\ asked[r].body \in Bodies
            /\ SchemaValid(asked[r].body)) => reply.code \in TurnVerdicts
    PROVE  RpcInv'
<1>1. /\ asked \in [Requests -> Ask]
      /\ bytes[r] \in Nat /\ left[r] \in Nat /\ bytes[r] <= MAX_JSON_BYTES
      /\ bytes[r] + left[r] = asked[r].prompt + Envelope
      /\ asked[r].header = "secret"
  BY DEF RpcInv, TypeOK, ReadingInv
<1>2. reply.code \in TurnVerdicts =>
         asked[r].prompt + Envelope <= MAX_JSON_BYTES
  BY <1>1
<1>3. /\ left' \in [Requests -> 0 .. MAX_JSON_BYTES + 1 + Envelope]
      /\ bytes' \in [Requests -> 0 .. MAX_JSON_BYTES + 1 + Envelope]
      /\ \A q \in Requests :
           /\ bytes'[q] + left'[q] = asked[q].prompt + Envelope
           /\ left'[q] = left[q] /\ bytes'[q] = bytes[q]
  BY DEF RpcInv, TypeOK, ReadingInv
<1>4. /\ pc' \in [Requests -> {"new", "reading", "done", "lost"}]
      /\ answer' \in [Requests -> Replies \cup {NoAnswer}]
      /\ \A q \in Requests : answer'[q] # NoAnswer => pc'[q] = "done"
      /\ ReadingInv' /\ AnswerInv'
  BY <1>1, <1>2, <1>3, ReplyInv
<1>5. TypeOK'
  BY <1>3, <1>4 DEF RpcInv, TypeOK, worker, BrowserSessionState
<1>6. WorkerInv' /\ SnapshotsAgree'
  BY AsideInv
<1> QED
  BY <1>4, <1>5, <1>6 DEF RpcInv

LEMMA BodyReadInv ==
    ASSUME RpcInv, NEW r \in Requests, BodyRead(r)
    PROVE  RpcInv'
<1>1. /\ pc[r] = "reading" /\ left[r] = 0 /\ session.state \in BrowserSessionState
      /\ UNCHANGED <<worker, session, asked, left, bytes, shown>>
      /\ started \subseteq {"healthy"}
  BY DEF BodyRead, RpcInv, TypeOK, WorkerInv
<1>2. CASE asked[r].body # NotJson /\ isBrowserTurnRequest(asked[r].body)
  <2>1. executeTurn(r)
    BY <1>2 DEF BodyRead
  <2>2. PICK code \in TurnVerdicts :
           /\ Write(r, Answer(200, code))
           /\ started' = IF session.state = "healthy"
                         THEN started \cup {"healthy"} ELSE started
    BY <1>1, <2>1, Verdicts
  <2>3. Answer(200, code) \in Replies /\ Answer(200, code).code = code
    BY DEF Answer, Replies, Failures, TurnVerdicts
  <2> QED
    BY <1>1, <2>2, <2>3, LastReplyInv
<1>3. CASE ~(asked[r].body # NotJson /\ isBrowserTurnRequest(asked[r].body))
  <2>1. PICK reply \in {Answer(409, "rpc_protocol_mismatch"),
                        Answer(400, "rpc_invalid_request")} :
           Write(r, reply) /\ UNCHANGED started
    BY <1>3 DEF BodyRead
  <2>2. reply \in Replies /\ reply.code \notin TurnVerdicts
    BY DEF Answer, Replies, Failures, TurnVerdicts
  <2>3. ~(asked[r].body \in Bodies /\ SchemaValid(asked[r].body))
    BY <1>3, BodiesAssumption DEF SchemaValid, isBrowserTurnRequest
  <2> QED
    BY <1>1, <2>1, <2>2, <2>3, LastReplyInv
<1> QED
  BY <1>2, <1>3

LEMMA AbortInv ==
    ASSUME RpcInv, NEW r \in Requests, Abort(r)
    PROVE  RpcInv'
<1>1. /\ Answer(400, "rpc_invalid_request") \in Replies
      /\ Answer(400, "rpc_invalid_request").code \notin TurnVerdicts
  BY DEF Answer, Replies, Failures, TurnVerdicts
<1>2. /\ pc[r] = "reading" /\ Write(r, Answer(400, "rpc_invalid_request"))
      /\ UNCHANGED <<worker, session, asked, left, bytes, started, shown>>
      /\ started \subseteq {"healthy"} /\ left[r] # 0
  BY DEF Abort, RpcInv, WorkerInv, TypeOK
<1> QED
  BY <1>1, <1>2, LastReplyInv

LEMMA Inductive ==
    ASSUME RpcInv, [Next]_vars
    PROVE  RpcInv'
<1>1. ASSUME NEW env \in Environments, Launch(env) PROVE RpcInv'
  BY <1>1, LaunchInv
<1>2. CASE Kill
  BY <1>2, KillInv
<1>3. ASSUME NEW r \in Requests, Serve(r) PROVE RpcInv'
  BY <1>3, HandleInv, ReadChunkInv, BodyReadInv, AbortInv DEF Serve
<1>4. CASE Report \/ \E url \in Urls : Navigate(url)
  BY <1>4, SessionInv
<1>5. CASE UNCHANGED vars
  BY <1>5 DEF vars, worker, RpcInv, TypeOK, WorkerInv, SnapshotsAgree, ReadingInv,
              AnswerInv, OversizedNeverRuns, UnauthorizedLearnsNothing,
              SchemaValidTurnsAreJudged
<1> QED
  BY <1>1, <1>2, <1>3, <1>4, <1>5 DEF Next

LEMMA Invariance == Spec => []RpcInv
<1>1. RpcInv /\ [Next]_vars => RpcInv'
  BY Inductive
<1> QED
  BY InitInv, <1>1, PTL DEF Spec

-----------------------------------------------------------------------------
\* Every variable keeps its type, whatever bodies and chunks arrive.
THEOREM TypeCorrect == Spec => []TypeOK
<1>1. RpcInv => TypeOK
  BY DEF RpcInv
<1> QED
  BY Invariance, <1>1, PTL

\* The limit of readJson holds for any number of chunks of any size.
THEOREM OversizedNeverRunsHolds == Spec => []OversizedNeverRuns
<1>1. RpcInv => OversizedNeverRuns
  BY DEF RpcInv, AnswerInv
<1> QED
  BY Invariance, <1>1, PTL

\* Without the secret nothing is learned in any life of the worker.
THEOREM UnauthorizedLearnsNothingHolds == Spec => []UnauthorizedLearnsNothing
<1>1. RpcInv => UnauthorizedLearnsNothing
  BY DEF RpcInv, AnswerInv
<1> QED
  BY Invariance, <1>1, PTL

\* A turn that the schema admits and that fits is judged, for every body.
THEOREM SchemaValidTurnsAreJudgedHolds == Spec => []SchemaValidTurnsAreJudged
<1>1. RpcInv => SchemaValidTurnsAreJudged
  BY DEF RpcInv, AnswerInv
<1> QED
  BY Invariance, <1>1, PTL

\* A revision names one state in a life, for any number of changes.
THEOREM RevisionNamesStateHolds == Spec => []RevisionNamesState
<1>1. RpcInv => RevisionNamesState
  BY DEF RpcInv, WorkerInv, SnapshotsAgree, RevisionNamesState, Snapshot
<1> QED
  BY Invariance, <1>1, PTL

\* The two preflights agree in every session, after any navigation.
THEOREM PreflightsAgreeHolds == Spec => []PreflightsAgree
<1>1. RpcInv => PreflightsAgree
  BY DEF PreflightsAgree, navigationFailure, observeNavigation, canStartTurn,
         preflight, preflightFailure, markNeedsReauth, transition
<1> QED
  BY Invariance, <1>1, PTL

\* A verdict on a turn is that of the session in which its body was complete.
THEOREM TurnVerdictIsCurrentHolds == Spec => TurnVerdictIsCurrent
<1> DEFINE Current ==
      /\ started' \subseteq {"healthy"}
      /\ \A r \in Requests :
           answer'[r] # answer[r] /\ answer'[r].code \in TurnVerdicts =>
              /\ answer'[r].code = "web_transport_failed"
                   <=> session.state = "healthy"
              /\ answer'[r].code = "web_security_challenge"
                   <=> session.state = "challenged"
<1>1. ASSUME RpcInv, Next PROVE Current
  <2>1. RpcInv'
    BY <1>1, Inductive
  <2>2. started' \subseteq {"healthy"}
    BY <2>1 DEF RpcInv, WorkerInv
  <2>3. ASSUME NEW r \in Requests, answer'[r] # answer[r],
               answer'[r].code \in TurnVerdicts
        PROVE  /\ answer'[r].code = "web_transport_failed"
                    <=> session.state = "healthy"
               /\ answer'[r].code = "web_security_challenge"
                    <=> session.state = "challenged"
    <3>1. ASSUME NEW q \in Requests, NEW reply, Write(q, reply)
          PROVE  q = r /\ answer'[r] = reply
      BY <2>3, <3>1, <1>1 DEF Write, RpcInv, TypeOK
    <3>2. PICK q \in Requests : Serve(q)
      BY <1>1, <2>3 DEF Next, Launch, Kill, Report, Navigate
    <3>3. CASE Handle(q)
      <4>1. Write(q, Opening(asked[q])) /\ Opening(asked[q]) # NoAnswer
        BY <2>3, <3>3 DEF Handle
      <4>2. asked[q] \in Ask /\ capability = "secret"
        BY <1>1, <3>3 DEF Handle, RpcInv, WorkerInv, TypeOK
      <4> QED
        BY <2>3, <3>1, <4>1, <4>2, OpeningFacts
    <3>4. CASE \E chunk \in 1 .. left[q] : ReadChunk(q, chunk)
      <4>1. Write(q, Answer(413, "rpc_payload_too_large"))
        BY <2>3, <3>4 DEF ReadChunk
      <4> QED
        BY <2>3, <3>1, <4>1 DEF Answer, TurnVerdicts
    <3>5. CASE Abort(q)
      BY <2>3, <3>1, <3>5 DEF Abort, Answer, TurnVerdicts
    <3>6. CASE BodyRead(q)
      <4>1. CASE executeTurn(q)
        <5>1. session.state \in BrowserSessionState
          BY <1>1 DEF RpcInv, TypeOK
        <5>2. PICK code \in TurnVerdicts :
                 /\ Write(q, Answer(200, code))
                 /\ code = "web_transport_failed" <=> session.state = "healthy"
                 /\ code = "web_security_challenge"
                      <=> session.state = "challenged"
          BY <4>1, <5>1, Verdicts
        <5>3. Answer(200, code).code = code
          BY DEF Answer
        <5> QED
          BY <3>1, <5>2, <5>3
      <4>2. CASE ~executeTurn(q)
        <5>1. \/ Write(q, Answer(409, "rpc_protocol_mismatch"))
              \/ Write(q, Answer(400, "rpc_invalid_request"))
          BY <3>6, <4>2 DEF BodyRead
        <5> QED
          BY <2>3, <3>1, <5>1 DEF Answer, TurnVerdicts
      <4> QED
        BY <4>1, <4>2
    <3> QED
      BY <3>2, <3>3, <3>4, <3>5, <3>6 DEF Serve
  <2> QED
    BY <2>2, <2>3
<1>2. RpcInv /\ [Next]_vars => [Current]_vars
  BY <1>1
<1> QED
  BY Invariance, <1>2, PTL DEF Spec, TurnVerdictIsCurrent
=============================================================================

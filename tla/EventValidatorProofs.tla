------------------------ MODULE EventValidatorProofs ------------------------
(***************************************************************************)
(* Lemmas about the events and one step of the validator, for whatever a   *)
(* provider may answer.  The proofs of the modules that poll a validated   *)
(* stream rest on them.                                                    *)
(***************************************************************************)
EXTENDS EventValidator, TLAPS

\* The id of an event is a response id or none.
LEMMA EventId ==
    ASSUME NEW e \in CanonicalEvent
    PROVE  response_id(e) \in ResponseIds \cup {NoId}
BY DEF CanonicalEvent, ResponseCreated, ItemEvent, ResponseCompleted,
       ResponseIncomplete, ResponseFailed, Event, response_id

\* What the validator calls terminal is what the client reads as terminal.
LEMMA TerminalConcludes ==
    ASSUME NEW e \in CanonicalEvent
    PROVE  is_terminal(e) <=> Concludes(e)
<1>1. e.type \in ItemEventTypes \cup {"response_created", "response_completed",
                    "response_incomplete", "response_failed"}
  BY DEF CanonicalEvent, ResponseCreated, ItemEvent, ResponseCompleted,
         ResponseIncomplete, ResponseFailed, Event
<1>2. to_responses_wire(e).type = responses_event_name(e)
  BY DEF to_responses_wire
<1> QED
  BY <1>1, <1>2 DEF ItemEventTypes, is_terminal, Concludes,
                    responses_event_name, TerminalFrames

\* A failure event of a known code is an event, and a terminal one.
LEMMA FailureIsEvent ==
    ASSUME NEW id \in ResponseIds \cup {NoId}, NEW code \in FailureCode,
           NEW r \in BOOLEAN
    PROVE  /\ ResponseFailed(id, code, r) \in CanonicalEvent
           /\ is_terminal(ResponseFailed(id, code, r))
BY DEF CanonicalEvent, is_terminal, ResponseFailed, Event

\* An item of the source is one of three shapes.
LEMMA ItemShape ==
    ASSUME NEW item \in AnyItem
    PROVE  \/ /\ item.tag = "ok"
              /\ item.event \in CanonicalEvent
           \/ /\ item.tag = "err"
              /\ item.error \in ProviderError
           \/ item.tag = "eof"
BY DEF AnyItem, Items, OkItem, ErrItem, Eof

\* One step of the validator yields a state and an event, and remembers a
\* terminal event exactly when it hands one out.
LEMMA ValidatorStep ==
    ASSUME NEW v \in ValidatorState, NEW item \in AnyItem
    PROVE  /\ Observed(v, item) \in ValidatorState
           /\ Emitted(v, item) \in CanonicalEvent
           /\ Observed(v, item).terminal_seen <=> Concludes(Emitted(v, item))
<1> DEFINE id == v.response_id
<1>0. id \in ResponseIds \cup {NoId}
  BY DEF ValidatorState
<1>1. CASE item.tag = "ok" /\ item.event \in CanonicalEvent
  <2>1. response_id(item.event) \in ResponseIds \cup {NoId}
    BY <1>1, EventId
  <2>2. Emitted(v, item) = item.event
    BY <1>1 DEF Emitted
  <2>3. Concludes(item.event) <=> is_terminal(item.event)
    BY <1>1, TerminalConcludes
  <2>4. is_terminal(item.event) \in BOOLEAN
    BY DEF is_terminal
  <2> QED
    BY <1>0, <1>1, <2>1, <2>2, <2>3, <2>4
    DEF Observed, Remembered, EndsTurn, ValidatorState
<1>2. CASE item.tag = "err" /\ item.error \in ProviderError
  <2>1. Emitted(v, item) = ResponseFailed(id, item.error.code,
                                          item.error.retryable)
    BY <1>2 DEF Emitted, failure_event
  <2>2. item.error.code \in FailureCode /\ item.error.retryable \in BOOLEAN
    BY <1>2 DEF ProviderError
  <2>3. /\ Emitted(v, item) \in CanonicalEvent
        /\ is_terminal(Emitted(v, item))
    BY <1>0, <2>1, <2>2, FailureIsEvent
  <2>4. Concludes(Emitted(v, item))
    BY <2>3, TerminalConcludes
  <2> QED
    BY <1>0, <1>2, <2>3, <2>4 DEF Observed, Remembered, EndsTurn, ValidatorState
<1>3. CASE item.tag = "eof"
  <2>1. Emitted(v, item) = ResponseFailed(id, "invalid_provider_response", FALSE)
    BY <1>3 DEF Emitted, PrematureEof
  <2>2. "invalid_provider_response" \in FailureCode
    BY DEF FailureCode
  <2>3. /\ Emitted(v, item) \in CanonicalEvent
        /\ is_terminal(Emitted(v, item))
    BY <1>0, <2>1, <2>2, FailureIsEvent
  <2>4. Concludes(Emitted(v, item))
    BY <2>3, TerminalConcludes
  <2> QED
    BY <1>0, <1>3, <2>3, <2>4 DEF Observed, Remembered, EndsTurn, ValidatorState
<1> QED
  BY <1>1, <1>2, <1>3, ItemShape

=============================================================================

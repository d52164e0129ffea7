------------------------- MODULE HttpApiTurnProofs -------------------------
(***************************************************************************)
(* What the consumer of HttpApiProvider reads, for any table, any frames   *)
(* of the upstream and streams of any length.                              *)
(***************************************************************************)
EXTENDS HttpApiTurn, EventValidatorProofs, SequenceTheorems

-----------------------------------------------------------------------------
(* One answer of the upstream, and the event it becomes.                   *)

LEMMA FrameFields ==
    ASSUME NEW frame \in Frames
    PROVE  /\ frame.data \in {"json", "blank", "done_marker", "not_json", "no_type"}
           /\ frame.data = "json" => /\ frame.type \in FrameTypes
                                     /\ frame.id \in ResponseIds \cup {NoId}
                                     /\ frame.whole \in BOOLEAN
                                     /\ frame.call \in BOOLEAN
           /\ frame # Broken /\ frame # Closed
<1>1. CASE frame \in Typed
  <2>1. PICK t \in FrameTypes, id \in ResponseIds \cup {NoId},
             whole \in BOOLEAN, call \in BOOLEAN :
                frame = Frame("json", t, id, whole, call)
    BY <1>1 DEF Typed
  <2> QED
    BY <2>1 DEF Frame, Broken, Closed
<1>2. CASE frame \in Untyped
  <2>1. PICK data \in {"blank", "done_marker", "not_json", "no_type"} :
                frame = Frame(data, "other", NoId, FALSE, FALSE)
    BY <1>2 DEF Untyped
  <2> QED
    BY <2>1 DEF Frame, Broken, Closed
<1> QED
  BY <1>1, <1>2 DEF Frames

\* The decoder's events are events, and only a failure can be retryable.
LEMMA DecodersEvents ==
    /\ \A id \in ResponseIds : /\ ResponseCreated(id) \in CanonicalEvent
                               /\ ResponseCompleted(id) \in CanonicalEvent
    /\ \A id \in ResponseIds \cup {NoId} : ResponseIncomplete(id) \in CanonicalEvent
    /\ \A type \in ItemEventTypes : ItemEvent(type) \in CanonicalEvent
BY DEF CanonicalEvent

\* The item of a frame that decides nothing, of one that decides the turn, and
\* of one that breaks the protocol.
LEMMA DecodedFrame ==
    ASSUME NEW frame \in Frames
    PROVE  LET item == decode_responses_event(frame)
           IN  \/ item = Skip /\ Outcome(frame) = "none"
               \/ item = ErrItem(Malformed) /\ Outcome(frame) = "response.failed"
               \/ \E event \in CanonicalEvent :
                     /\ item = OkItem(event) /\ ~event.retryable
                     /\ Outcome(frame) = IF Concludes(event)
                                         THEN to_responses_wire(event).type
                                         ELSE "none"
<1> DEFINE item == decode_responses_event(frame)
<1>1. CASE frame.data \in {"blank", "done_marker"}
  BY <1>1, FrameFields DEF decode_responses_event, Outcome
<1>2. CASE frame.data \in {"not_json", "no_type"}
  BY <1>2, FrameFields DEF decode_responses_event, Outcome
<1>3. CASE frame.data = "json"
  <2>1. item = decode_type(frame)
    BY <1>3 DEF decode_responses_event
  <2>2. frame.type \in FrameTypes /\ frame.id \in ResponseIds \cup {NoId}
    BY <1>3, FrameFields
  <2>3. CASE frame.type = "other"
    BY <1>3, <2>1, <2>3 DEF decode_type, Outcome, TerminalFrames
  <2>4. CASE frame.type \in {"response.created", "response.completed"}
    <3>1. CASE frame.id = NoId
      BY <1>3, <2>1, <2>4, <3>1 DEF decode_type, WithId, Outcome
    <3>2. CASE frame.id # NoId /\ frame.type = "response.created"
      <4>1. item = OkItem(ResponseCreated(frame.id))
        BY <2>1, <3>2 DEF decode_type, WithId
      <4>2. Outcome(frame) = "none"
        BY <1>3, <3>2 DEF Outcome, TerminalFrames
      <4>3. /\ ResponseCreated(frame.id) \in CanonicalEvent
            /\ ~ResponseCreated(frame.id).retryable
            /\ ~is_terminal(ResponseCreated(frame.id))
        BY <2>2, <3>2, DecodersEvents DEF ResponseCreated, Event, is_terminal
      <4> QED
        BY <4>1, <4>2, <4>3, TerminalConcludes
    <3>3. CASE frame.id # NoId /\ frame.type = "response.completed"
      <4>1. item = OkItem(ResponseCompleted(frame.id))
        BY <2>1, <3>3 DEF decode_type, WithId
      <4>2. Outcome(frame) = "response.completed"
        BY <1>3, <3>3 DEF Outcome, TerminalFrames
      <4>3. /\ ResponseCompleted(frame.id) \in CanonicalEvent
            /\ ~ResponseCompleted(frame.id).retryable
            /\ is_terminal(ResponseCompleted(frame.id))
            /\ to_responses_wire(ResponseCompleted(frame.id)).type
                  = "response.completed"
        BY <2>2, <3>3, DecodersEvents
           DEF ResponseCompleted, Event, is_terminal, to_responses_wire,
               responses_event_name
      <4> QED
        BY <4>1, <4>2, <4>3, TerminalConcludes
    <3> QED
      BY <2>4, <3>1, <3>2, <3>3
  <2>5. CASE frame.type \in {"response.output_item.added",
                "response.output_text.delta", "response.output_item.done"}
    <3>1. PICK type \in ItemEventTypes : item = WithStrings(frame, type)
      BY <2>1, <2>5 DEF decode_type, ItemEventTypes
    <3>2. CASE ~frame.whole
      BY <1>3, <2>5, <3>1, <3>2 DEF WithStrings, Outcome
    <3>3. CASE frame.whole
      <4>1. item = OkItem(ItemEvent(type))
        BY <3>1, <3>3 DEF WithStrings
      <4>2. Outcome(frame) = "none"
        BY <1>3, <2>5, <3>3 DEF Outcome, TerminalFrames
      <4>3. /\ ItemEvent(type) \in CanonicalEvent /\ ~ItemEvent(type).retryable
            /\ ~is_terminal(ItemEvent(type))
        BY DecodersEvents DEF ItemEvent, Event, is_terminal, ItemEventTypes
      <4> QED
        BY <4>1, <4>2, <4>3, TerminalConcludes
    <3> QED
      BY <3>2, <3>3
  <2>6. CASE frame.type = "response.failed"
    <3> DEFINE event == ResponseFailed(frame.id, Malformed.code, FALSE)
    <3>1. item = OkItem(event) /\ Outcome(frame) = "response.failed"
      BY <1>3, <2>1, <2>6 DEF decode_type, Outcome, TerminalFrames
    <3>2. Malformed.code \in FailureCode
      BY DEF Malformed, classified, FailureCode
    <3>3. event \in CanonicalEvent /\ is_terminal(event)
      BY <2>2, <3>2, FailureIsEvent
    <3>4. /\ ~event.retryable
          /\ to_responses_wire(event).type = "response.failed"
      BY DEF ResponseFailed, Event, to_responses_wire, responses_event_name
    <3> QED
      BY <3>1, <3>3, <3>4, TerminalConcludes
  <2>7. CASE frame.type = "response.incomplete"
    <3> DEFINE event == ResponseIncomplete(frame.id)
    <3>1. item = OkItem(event) /\ Outcome(frame) = "response.incomplete"
      BY <1>3, <2>1, <2>7 DEF decode_type, Outcome, TerminalFrames
    <3>2. /\ event \in CanonicalEvent /\ is_terminal(event) /\ ~event.retryable
          /\ to_responses_wire(event).type = "response.incomplete"
      BY <2>2, DecodersEvents
         DEF ResponseIncomplete, Event, is_terminal, to_responses_wire,
             responses_event_name
    <3> QED
      BY <3>1, <3>2, TerminalConcludes
  <2> QED
    BY <2>2, <2>3, <2>4, <2>5, <2>6, <2>7 DEF FrameTypes
<1> QED
  BY <1>1, <1>2, <1>3, FrameFields

\* What one answer does to the validator and to the consumer.
LEMMA AnswerStep ==
    ASSUME NEW answer \in Answers, NEW v \in ValidatorState
    PROVE  LET item  == Decoded(answer)
               event == Emitted(v, item)
           IN  \/ Filtered(item) /\ Outcome(answer) = "none"
               \/ /\ ~Filtered(item) /\ item \in AnyItem
                  /\ Observed(v, item) \in ValidatorState
                  /\ event \in CanonicalEvent
                  /\ Observed(v, item).terminal_seen <=> Concludes(event)
                  /\ Outcome(answer) = IF Concludes(event)
                                       THEN to_responses_wire(event).type
                                       ELSE "none"
                  /\ event.retryable => Concludes(event)
                  /\ event.retryable <=> answer = Broken
<1> DEFINE item == Decoded(answer)
           event == Emitted(v, item)
<1>1. v.response_id \in ResponseIds \cup {NoId}
  BY DEF ValidatorState
<1>2. ASSUME NEW failure \in ProviderError, item = ErrItem(failure)
      PROVE  /\ ~Filtered(item) /\ item \in AnyItem
             /\ to_responses_wire(event).type = "response.failed"
             /\ Concludes(event) /\ event.retryable = failure.retryable
  <2>1. event = ResponseFailed(v.response_id, failure.code, failure.retryable)
    BY <1>2 DEF Emitted, ErrItem, failure_event
  <2>2. to_responses_wire(event).type = "response.failed"
    BY <2>1 DEF ResponseFailed, Event, to_responses_wire, responses_event_name
  <2>3. item \in AnyItem /\ ~Filtered(item)
    BY <1>2 DEF AnyItem, Items, Filtered, ErrItem, Skip
  <2> QED
    BY <2>1, <2>2, <2>3 DEF Concludes, TerminalFrames, ResponseFailed, Event
<1>3. Malformed \in ProviderError /\ ~Malformed.retryable
  BY DEF Malformed, classified, ProviderError, FailureCode
<1>4. CASE answer = Broken
  <2>1. /\ TransportFailed \in ProviderError /\ TransportFailed.retryable
        /\ item = ErrItem(TransportFailed)
    BY <1>4 DEF TransportFailed, classified, ProviderError, FailureCode, Decoded
  <2>2. Outcome(answer) = "response.failed"
    BY <1>4 DEF Broken, Outcome
  <2> QED
    BY <1>2, <1>4, <2>1, <2>2, ValidatorStep
<1>5. CASE answer = Closed
  <2>1. item = Eof
    BY <1>5 DEF Decoded, Broken, Closed
  <2>2. Outcome(answer) = "response.failed"
    BY <1>5 DEF Closed, Outcome
  <2>3. item \in AnyItem /\ ~Filtered(item)
    BY <2>1 DEF AnyItem, Items, Filtered, Eof, Skip
  <2>4. event = ResponseFailed(v.response_id, "invalid_provider_response", FALSE)
    BY <2>1 DEF Emitted, Eof, PrematureEof
  <2>5. /\ to_responses_wire(event).type = "response.failed"
        /\ Concludes(event) /\ ~event.retryable
    BY <2>4 DEF ResponseFailed, Event, to_responses_wire, responses_event_name,
                Concludes, TerminalFrames
  <2>6. answer # Broken
    BY <1>5 DEF Broken, Closed
  <2> QED
    BY <2>2, <2>3, <2>5, <2>6, ValidatorStep
<1>6. CASE answer \in UpstreamFrames
  <2>1. answer \in Frames
    BY <1>6, UpstreamAssumption
  <2>2. item = decode_responses_event(answer) /\ answer # Broken
    BY <2>1, FrameFields DEF Decoded
  <2>3. CASE item = Skip /\ Outcome(answer) = "none"
    BY <2>3 DEF Filtered
  <2>4. CASE item = ErrItem(Malformed) /\ Outcome(answer) = "response.failed"
    BY <1>2, <1>3, <2>2, <2>4, ValidatorStep
  <2>5. ASSUME NEW e \in CanonicalEvent, item = OkItem(e), ~e.retryable,
               Outcome(answer) = IF Concludes(e) THEN to_responses_wire(e).type
                                 ELSE "none"
        PROVE  /\ ~Filtered(item) /\ item \in AnyItem /\ event = e
    BY <2>5 DEF AnyItem, Items, Filtered, OkItem, Skip, Emitted
  <2> QED
    BY <2>1, <2>2, <2>3, <2>4, <2>5, DecodedFrame, ValidatorStep
<1> QED
  BY <1>4, <1>5, <1>6 DEF Answers

-----------------------------------------------------------------------------
(* The stream, answer by answer.                                           *)

Types == /\ wire \in Seq(Answers)
         /\ validator \in ValidatorState
         /\ out \in Seq(CanonicalEvent)

\* The flag of the validator says whether the last answer decided the turn,
\* and the verdict of that answer is the only one the consumer was given.
RelayInv ==
    /\ \A i \in 1 .. Len(wire) - 1 : Outcome(wire[i]) = "none"
    /\ validator.terminal_seen <=>
         wire # <<>> /\ Outcome(wire[Len(wire)]) # "none"
    /\ \A i \in 1 .. Len(out) : Concludes(out[i]) =>
         /\ validator.terminal_seen /\ i = Len(out)
         /\ to_responses_wire(out[i]).type = Outcome(wire[Len(wire)])
    /\ validator.terminal_seen => out # <<>> /\ Concludes(out[Len(out)])

\* A broken connection, and nothing else, makes a failure event retryable; an
\* error is, when the request failed or was refused for the moment.
RetryInv ==
    /\ \A i \in 1 .. Len(out) : out[i].retryable => Concludes(out[i])
    /\ \A i \in 1 .. Len(out) : out[i].retryable <=>
         i = Len(out) /\ wire # <<>> /\ wire[Len(wire)] = Broken
    /\ error = {} \/ pc \in {"failed"}
    /\ pc \in {"sent", "stream"} => request # {}
    /\ pc \in {"resolve", "execute", "credential", "send"} => request = {}
    /\ pc \in {"resolve", "execute", "credential", "send", "sent"} =>
         status = NotYet
    /\ \A e \in error : e.retryable <=>
         request # {} /\ status \in {NotYet, "408", "429", "5xx"}

TurnInv == Types /\ RelayInv /\ RetryInv

LEMMA TurnInit == Init => TurnInv
BY DEF Init, TurnInv, Types, RelayInv, RetryInv, FreshValidator, ValidatorState

\* No verdict is "none".
LEMMA VerdictIsNotNone ==
    ASSUME NEW e, Concludes(e)
    PROVE  to_responses_wire(e).type # "none"
BY DEF Concludes, TerminalFrames

LEMMA FrameInv ==
    ASSUME TurnInv, NEW answer \in Answers, PollFrame(answer)
    PROVE  TurnInv'
<1> USE DEF TurnInv
<1> DEFINE item  == Decoded(answer)
           event == Emitted(validator, item)
<1>1. /\ pc = "stream" /\ ~validator.terminal_seen
      /\ wire' = Append(wire, answer)
      /\ UNCHANGED <<pc, exchange>>
  BY DEF PollFrame
<1>2. /\ wire' \in Seq(Answers) /\ Len(wire') = Len(wire) + 1
      /\ wire'[Len(wire')] = answer /\ wire' # <<>> /\ Len(wire) \in Nat
      /\ \A i \in 1 .. Len(wire) : wire'[i] = wire[i]
  BY <1>1 DEF Types
<1>3. \A i \in 1 .. Len(wire) : Outcome(wire[i]) = "none"
  BY <1>1 DEF RelayInv, Types
<1>4. \A i \in 1 .. Len(wire') - 1 : Outcome(wire'[i]) = "none"
  BY <1>2, <1>3
<1>5. \A i \in 1 .. Len(out) : ~Concludes(out[i]) /\ ~out[i].retryable
  BY <1>1 DEF RelayInv, RetryInv
<1>6. CASE Filtered(item)
  <2>1. UNCHANGED <<validator, out>>
    BY <1>6 DEF PollFrame
  <2>2. Outcome(answer) = "none"
    BY <1>6, AnswerStep DEF Types
  <2>3. Types'
    BY <1>2, <2>1 DEF Types
  <2>4. RelayInv'
    BY <1>1, <1>2, <1>4, <1>5, <2>1, <2>2 DEF RelayInv
  <2>5. answer # Broken
    BY <2>2 DEF Broken, Outcome
  <2>6. RetryInv'
    BY <1>1, <1>2, <1>5, <2>1, <2>5 DEF RetryInv, exchange
  <2> QED
    BY <2>3, <2>4, <2>6
<1>7. CASE ~Filtered(item)
  <2>1. validator' = Observed(validator, item) /\ out' = Append(out, event)
    BY <1>7 DEF PollFrame
  <2>2. /\ Observed(validator, item) \in ValidatorState
        /\ event \in CanonicalEvent
        /\ Observed(validator, item).terminal_seen <=> Concludes(event)
        /\ Outcome(answer) = IF Concludes(event)
                             THEN to_responses_wire(event).type ELSE "none"
        /\ event.retryable => Concludes(event)
        /\ event.retryable <=> answer = Broken
    BY <1>7, AnswerStep DEF Types
  <2> HIDE DEF event, item
  <2>3. /\ out' \in Seq(CanonicalEvent) /\ Len(out') = Len(out) + 1
        /\ Len(out) \in Nat /\ out' # <<>> /\ out'[Len(out')] = event
        /\ \A i \in 1 .. Len(out) : out'[i] = out[i]
    BY <2>1, <2>2 DEF Types
  <2>4. Types'
    BY <1>2, <2>1, <2>2, <2>3 DEF Types
  <2>5. \A i \in 1 .. Len(out') : i # Len(out') =>
           ~Concludes(out'[i]) /\ ~out'[i].retryable
    BY <1>5, <2>3
  <2>6. validator'.terminal_seen <=> Concludes(event)
    BY <2>1, <2>2
  <2>7. Outcome(answer) # "none" <=> Concludes(event)
    BY <2>2, VerdictIsNotNone
  <2>8. RelayInv'
    BY <1>2, <1>4, <2>2, <2>3, <2>5, <2>6, <2>7 DEF RelayInv
  <2>9. RetryInv'
    BY <1>1, <1>2, <2>2, <2>3, <2>5 DEF RetryInv, exchange
  <2> QED
    BY <2>4, <2>8, <2>9
<1> QED
  BY <1>6, <1>7

\* Before the stream there is neither an answer of it nor an event.
LEMMA ExecuteInv ==
    ASSUME TurnInv, UNCHANGED relay, RetryInv'
    PROVE  TurnInv'
BY DEF TurnInv, Types, RelayInv, relay

LEMMA TurnInductive ==
    ASSUME TurnInv, [Next]_vars
    PROVE  TurnInv'
<1> USE DEF TurnInv
<1>1. CASE Resolve
  BY <1>1, ExecuteInv DEF Resolve, RetryInv, relay
<1>2. CASE CheckRoute
  <2>1. \A e \in RouteError(found.route) : ~e.retryable
    BY DEF RouteError, Malformed, classified
  <2> QED
    BY <1>2, <2>1, ExecuteInv DEF CheckRoute, Return, RetryInv, relay
<1>3. ASSUME NEW answer \in StoreAnswers, FetchCredential(answer)
      PROVE  TurnInv'
  <2>1. \A e \in credential_error(answer) : ~e.retryable
    BY DEF credential_error, classified
  <2> QED
    BY <1>3, <2>1, ExecuteInv DEF FetchCredential, Return, RetryInv, relay
<1>4. CASE Send
  BY <1>4, ExecuteInv DEF Send, RetryInv, relay
<1>5. CASE SendFails
  <2>1. TransportFailed.retryable
    BY DEF TransportFailed, classified
  <2> QED
    BY <1>5, <2>1, ExecuteInv DEF SendFails, Return, RetryInv, relay
<1>6. ASSUME NEW code \in Statuses, Respond(code) PROVE TurnInv'
  <2>1. code # "2xx" => (status_error(code).retryable <=>
                            code \in {"408", "429", "5xx"})
    BY DEF status_error, classified, Statuses
  <2>2. CASE code = "2xx"
    BY <1>6, <2>2, ExecuteInv DEF Respond, RetryInv, relay
  <2>3. CASE code # "2xx"
    <3>1. /\ pc = "sent" /\ request # {} /\ pc' = "failed"
          /\ status' = code /\ error' = {status_error(code)}
          /\ UNCHANGED <<request, relay>>
      BY <1>6, <2>3 DEF Respond, Return, RetryInv
    <3>2. \A e \in error' : e.retryable <=> code \in {"408", "429", "5xx"}
      BY <2>1, <2>3, <3>1
    <3>3. RetryInv'
      BY <3>1, <3>2 DEF RetryInv, relay, NotYet, Statuses
    <3> QED
      BY <3>1, <3>3, ExecuteInv
  <2> QED
    BY <2>2, <2>3
<1>7. ASSUME NEW answer \in Answers, PollFrame(answer) PROVE TurnInv'
  BY <1>7, FrameInv
<1>8. CASE PollEnd
  BY <1>8, ExecuteInv DEF PollEnd, RetryInv, relay, exchange
<1>9. CASE Drop
  BY <1>9, ExecuteInv DEF Drop, RetryInv, relay, exchange
<1>10. CASE UNCHANGED vars
  BY <1>10, ExecuteInv DEF vars, RetryInv, relay, exchange
<1> QED
  BY <1>1, <1>2, <1>3, <1>4, <1>5, <1>6, <1>7, <1>8, <1>9, <1>10 DEF Next

LEMMA Invariance == Spec => []TurnInv
<1>1. TurnInv /\ [Next]_vars => TurnInv'
  BY TurnInductive
<1> QED
  BY TurnInit, <1>1, PTL DEF Spec

\* For any frames and streams of any length, the consumer's verdict is the
\* one of the answer that decided the turn, and no other answer did.
THEOREM VerdictIsUpstreamsHolds == Spec => []VerdictIsUpstreams
<1>1. TurnInv => VerdictIsUpstreams
  <2> SUFFICES ASSUME TurnInv PROVE VerdictIsUpstreams
    OBVIOUS
  <2> USE DEF TurnInv
  <2> DEFINE concluded == {to_responses_wire(out[i]).type :
                              i \in {j \in DOMAIN out : Concludes(out[j])}}
             last == Outcome(wire[Len(wire)])
  <2>1. DOMAIN out = 1 .. Len(out) /\ Len(out) \in Nat
    BY DEF Types
  <2>2. CASE validator.terminal_seen
    <3>1. /\ Concludes(out[Len(out)]) /\ Len(out) \in DOMAIN out
          /\ wire # <<>> /\ last # "none"
      <4>1. out # <<>> /\ Concludes(out[Len(out)])
        BY <2>2 DEF RelayInv
      <4>2. wire # <<>> /\ last # "none"
        BY <2>2 DEF RelayInv
      <4>3. Len(out) # 0
        BY <4>1 DEF Types
      <4> QED
        BY <2>1, <4>1, <4>2, <4>3
    <3>2. \A i \in DOMAIN out : Concludes(out[i]) =>
             to_responses_wire(out[i]).type = last
      BY <2>1 DEF RelayInv
    <3>3. concluded = {last}
      BY <3>1, <3>2
    <3> QED
      BY <3>1, <3>3 DEF VerdictIsUpstreams, RelayInv
  <2>3. CASE ~validator.terminal_seen
    <3>1. wire = <<>> \/ last = "none"
      BY <2>3 DEF RelayInv
    <3>2. concluded = {}
      BY <2>1, <2>3 DEF RelayInv
    <3> QED
      BY <3>1, <3>2 DEF VerdictIsUpstreams, RelayInv
  <2> QED
    BY <2>2, <2>3
<1> QED
  BY Invariance, <1>1, PTL

\* A failed turn is retryable exactly when what failed may pass, for any routes
\* and frames.
THEOREM RetryableIffTransientHolds == Spec => []RetryableIffTransient
<1>1. TurnInv => RetryableIffTransient
  BY DEF TurnInv, Types, RelayInv, RetryInv, RetryableIffTransient
<1> QED
  BY Invariance, <1>1, PTL

-----------------------------------------------------------------------------
(* The route.  Resolution is judged by the whole table: a route that is    *)
(* matched is the only one whose prefix the slug has.                      *)

\* What strip_prefix leaves, put behind the prefix, is the slug.
LEMMA StrippedPrefix ==
    ASSUME NEW prefix \in Seq(STRING), NEW slug \in Seq(STRING),
           IsPrefix(prefix, slug)
    PROVE  /\ Len(prefix) + 1 \in 1 .. Len(slug) + 1
           /\ SubSeq(slug, Len(prefix) + 1, Len(slug)) \in Seq(STRING)
           /\ prefix \o SubSeq(slug, Len(prefix) + 1, Len(slug)) = slug
<1> DEFINE rest == SubSeq(slug, Len(prefix) + 1, Len(slug))
<1>1. /\ Len(prefix) \in Nat /\ Len(slug) \in Nat /\ Len(prefix) <= Len(slug)
      /\ SubSeq(prefix, 1, Len(prefix)) = SubSeq(slug, 1, Len(prefix))
  BY DEF IsPrefix
<1>2. \A i \in 1 .. Len(prefix) : prefix[i] = slug[i]
  <2> SUFFICES ASSUME NEW i \in 1 .. Len(prefix) PROVE prefix[i] = slug[i]
    OBVIOUS
  <2>1. SubSeq(prefix, 1, Len(prefix))[i] = prefix[i]
    BY <1>1
  <2>2. SubSeq(slug, 1, Len(prefix))[i] = slug[i]
    BY <1>1
  <2> QED
    BY <1>1, <2>1, <2>2
<1>3. /\ rest \in Seq(STRING) /\ Len(rest) = Len(slug) - Len(prefix)
      /\ \A i \in 1 .. Len(rest) : rest[i] = slug[Len(prefix) + i]
  BY <1>1
<1> HIDE DEF rest
<1>4. /\ prefix \o rest \in Seq(STRING)
      /\ Len(prefix \o rest) = Len(slug)
      /\ \A i \in 1 .. Len(slug) : (prefix \o rest)[i] = slug[i]
  BY <1>1, <1>2, <1>3
<1>5. prefix \o rest = slug
  BY <1>4, SeqEqual
<1> QED
  BY <1>1, <1>3, <1>5 DEF rest

LEMMA SoleRoute ==
    ASSUME NEW table \in Seq(ApiRoute), NEW slug \in Seq(STRING),
           resolve(table, slug).tag = "matched"
    PROVE  \E i \in DOMAIN table :
              /\ \A j \in DOMAIN table :
                   IsPrefix(table[j].model_prefix, slug) <=> j = i
              /\ resolve(table, slug) =
                   Matched(table[i], SubSeq(slug, Len(table[i].model_prefix) + 1,
                                            Len(slug)))
<1> DEFINE hits == {i \in DOMAIN table : upstream_model(table[i], slug) # {}}
           only == CHOOSE i \in hits : TRUE
<1>1. \A i \in DOMAIN table :
         i \in hits <=> IsPrefix(table[i].model_prefix, slug)
  BY DEF upstream_model, matches
<1>2. /\ hits # {} /\ ~ \E i, j \in hits : i # j
      /\ resolve(table, slug) =
            Matched(table[only], CHOOSE u \in upstream_model(table[only], slug) : TRUE)
  BY DEF resolve, NoMatch, Ambiguous
<1>3. only \in hits
  BY <1>2
<1> HIDE DEF only
<1>4. \A j \in DOMAIN table : j \in hits <=> j = only
  BY <1>2, <1>3
<1>5. (CHOOSE u \in upstream_model(table[only], slug) : TRUE)
         = SubSeq(slug, Len(table[only].model_prefix) + 1, Len(slug))
  BY <1>1, <1>3 DEF upstream_model, matches
<1> QED
  BY <1>1, <1>2, <1>3, <1>4, <1>5

\* The order in which routes are configured decides nothing: a table and any
\* rearrangement of it resolve every slug alike (provider-api lib.rs:63-83).
THEOREM OrderOfRoutesDecidesNothing ==
    ASSUME NEW table \in Seq(ApiRoute), NEW other \in Seq(ApiRoute),
           NEW pi \in [DOMAIN other -> DOMAIN table], NEW slug,
           \A i \in DOMAIN table : \E j \in DOMAIN other : pi[j] = i,
           \A i, j \in DOMAIN other : pi[i] = pi[j] => i = j,
           \A i \in DOMAIN other : other[i] = table[pi[i]]
    PROVE  resolve(other, slug) = resolve(table, slug)
<1> DEFINE Hits(t) == {i \in DOMAIN t : upstream_model(t[i], slug) # {}}
           Only(t) == CHOOSE i \in Hits(t) : TRUE
<1>1. /\ \A i \in DOMAIN other : i \in Hits(other) <=> pi[i] \in Hits(table)
      /\ Hits(other) \subseteq DOMAIN other /\ Hits(table) \subseteq DOMAIN table
  OBVIOUS
<1>2. /\ resolve(other, slug) =
           IF Hits(other) = {} THEN NoMatch
           ELSE IF \E i, j \in Hits(other) : i # j THEN Ambiguous
           ELSE Matched(other[Only(other)],
                   CHOOSE u \in upstream_model(other[Only(other)], slug) : TRUE)
      /\ resolve(table, slug) =
           IF Hits(table) = {} THEN NoMatch
           ELSE IF \E i, j \in Hits(table) : i # j THEN Ambiguous
           ELSE Matched(table[Only(table)],
                   CHOOSE u \in upstream_model(table[Only(table)], slug) : TRUE)
  BY DEF resolve
<1>3. ASSUME NEW t, Hits(t) # {} PROVE Only(t) \in Hits(t)
  BY <1>3
<1> HIDE DEF Hits, Only
<1>4. \A i \in Hits(other) : pi[i] \in Hits(table)
  BY <1>1
<1>5. \A i \in Hits(table) : \E j \in Hits(other) : pi[j] = i
  BY <1>1
<1>6. Hits(other) = {} <=> Hits(table) = {}
  BY <1>4, <1>5
<1>7. ASSUME NEW i \in Hits(other), NEW j \in Hits(other), i # j
      PROVE  pi[i] \in Hits(table) /\ pi[j] \in Hits(table) /\ pi[i] # pi[j]
  BY <1>1, <1>4, <1>7
<1>8. ASSUME NEW i \in Hits(table), NEW j \in Hits(table), i # j
      PROVE  \E k, l \in Hits(other) : k # l
  BY <1>5, <1>8
<1>9. (\E i, j \in Hits(other) : i # j) <=> (\E i, j \in Hits(table) : i # j)
  BY <1>7, <1>8
<1>10. CASE Hits(table) # {} /\ ~ \E i, j \in Hits(table) : i # j
  <2>1. Only(other) \in Hits(other) /\ Only(table) \in Hits(table)
    BY <1>3, <1>6, <1>10
  <2>2. pi[Only(other)] = Only(table)
    BY <1>4, <1>10, <2>1
  <2>3. other[Only(other)] = table[Only(table)]
    BY <1>1, <2>1, <2>2
  <2> QED
    BY <1>2, <1>6, <1>9, <1>10, <2>3
<1> QED
  BY <1>2, <1>6, <1>9, <1>10

\* Only a matched route is worked with, and a request is made of it alone.
RouteInv ==
    /\ routes \in RouteTables /\ model \in Models
    /\ pc = "resolve" => found = NoMatch
    /\ pc # "resolve" => found = resolve(routes, model)
    /\ pc \notin {"resolve", "no_route"} => found.tag = "matched"
    /\ request # {} => pc \notin {"resolve", "no_route", "execute", "credential",
                                  "send"}
    /\ pc \in {"credential", "send"} \/ request # {} =>
         found.route.protocol # "anthropic_messages"
    /\ pc = "send" \/ request # {} => store = "secret"
    /\ request \subseteq {[endpoint |-> found.route,
                           credential |-> found.route.credential_ref,
                           model |-> found.upstream_model]}

LEMMA RouteInvInit == Init => RouteInv
BY DEF Init, RouteInv

\* A credential that is found is a secret.
LEMMA SecretOnly ==
    ASSUME NEW answer \in StoreAnswers, credential_error(answer) = {}
    PROVE  answer = "secret"
BY DEF credential_error, StoreAnswers

LEMMA RouteInvInductive ==
    ASSUME RouteInv, [Next]_vars
    PROVE  RouteInv'
<1> USE DEF RouteInv, setup, relay, exchange
<1>1. CASE Resolve
  BY <1>1 DEF Resolve
<1>2. CASE CheckRoute
  BY <1>2 DEF CheckRoute, RouteError, Return
<1>3. ASSUME NEW answer \in StoreAnswers, FetchCredential(answer)
      PROVE  RouteInv'
  BY <1>3, SecretOnly DEF FetchCredential, Return
<1>4. CASE Send
  BY <1>4 DEF Send
<1>5. CASE SendFails
  BY <1>5 DEF SendFails, Return
<1>6. ASSUME NEW code \in Statuses, Respond(code) PROVE RouteInv'
  BY <1>6 DEF Respond, Return
<1>7. ASSUME NEW answer \in Answers, PollFrame(answer) PROVE RouteInv'
  BY <1>7 DEF PollFrame
<1>8. CASE PollEnd
  BY <1>8 DEF PollEnd
<1>9. CASE Drop
  BY <1>9 DEF Drop
<1>10. CASE UNCHANGED vars
  BY <1>10 DEF vars
<1> QED
  BY <1>1, <1>2, <1>3, <1>4, <1>5, <1>6, <1>7, <1>8, <1>9, <1>10 DEF Next

\* For any table, any slug and whatever the credential store answers, a request
\* leaves only for the one route that claims the slug, and with its credential.
THEOREM SentToSoleRouteHolds == Spec => []SentToSoleRoute
<1>1. RouteInv => SentToSoleRoute
  <2> SUFFICES ASSUME RouteInv, NEW r \in request
               PROVE  \E i \in DOMAIN routes :
                        /\ \A j \in DOMAIN routes :
                             IsPrefix(routes[j].model_prefix, model) <=> j = i
                        /\ r.endpoint = routes[i]
                        /\ r.credential = routes[i].credential_ref
                        /\ routes[i].model_prefix \o r.model = model
                        /\ routes[i].protocol # "anthropic_messages"
                        /\ store = "secret"
    BY DEF SentToSoleRoute
  <2>1. /\ routes \in Seq(ApiRoute) /\ model \in Seq(STRING)
        /\ resolve(routes, model).tag = "matched" /\ found = resolve(routes, model)
        /\ found.route.protocol # "anthropic_messages" /\ store = "secret"
        /\ r = [endpoint |-> found.route,
                credential |-> found.route.credential_ref,
                model |-> found.upstream_model]
    BY TablesAssumption DEF RouteInv
  <2>2. PICK i \in DOMAIN routes :
          /\ \A j \in DOMAIN routes :
               IsPrefix(routes[j].model_prefix, model) <=> j = i
          /\ found = Matched(routes[i], SubSeq(model,
                                Len(routes[i].model_prefix) + 1, Len(model)))
    BY <2>1, SoleRoute
  <2>3. routes[i].model_prefix \o found.upstream_model = model
    <3>1. routes[i].model_prefix \in Seq(STRING)
      <4>1. routes[i] \in ApiRoute
        BY <2>1
      <4> QED
        BY <4>1 DEF ApiRoute
    <3>2. found.upstream_model =
             SubSeq(model, Len(routes[i].model_prefix) + 1, Len(model))
      BY <2>2 DEF Matched
    <3>3. IsPrefix(routes[i].model_prefix, model)
      BY <2>2
    <3> QED
      BY <2>1, <3>1, <3>2, <3>3, StrippedPrefix
  <2>4. found.route = routes[i]
    BY <2>2 DEF Matched
  <2> QED
    BY <2>1, <2>2, <2>3, <2>4
<1> QED
  BY RouteInvInit, RouteInvInductive, <1>1, PTL DEF Spec

-----------------------------------------------------------------------------
(* Types.  What was found and requested is typed by what the route lemmas  *)
(* say of the table; the histories of the stream by what AnswerStep says.  *)

LEMMA FoundIsTyped ==
    ASSUME RouteInv
    PROVE  /\ found \in {NoMatch, Ambiguous}
                  \cup {Matched(routes[i], u) : i \in DOMAIN routes,
                           u \in {SubSeq(model, n, Len(model)) :
                                     n \in 1 .. Len(model) + 1}}
           /\ request \subseteq [endpoint : ApiRoute, credential : CredentialRefs,
                                 model : Seq(STRING)]
<1>0. routes \in Seq(ApiRoute) /\ model \in Seq(STRING)
  BY TablesAssumption DEF RouteInv
<1>1. CASE found.tag = "matched" /\ found = resolve(routes, model)
  <2>1. PICK i \in DOMAIN routes :
          /\ IsPrefix(routes[i].model_prefix, model)
          /\ found = Matched(routes[i], SubSeq(model,
                                Len(routes[i].model_prefix) + 1, Len(model)))
    BY <1>0, <1>1, SoleRoute
  <2>2. routes[i] \in ApiRoute
    BY <1>0
  <2>3. /\ routes[i].model_prefix \in Seq(STRING)
        /\ routes[i].credential_ref \in CredentialRefs
    BY <2>2 DEF ApiRoute
  <2> DEFINE n == Len(routes[i].model_prefix) + 1
             rest == SubSeq(model, n, Len(model))
  <2>4. n \in 1 .. Len(model) + 1 /\ rest \in Seq(STRING)
    BY <1>0, <2>1, <2>3, StrippedPrefix
  <2>5. /\ found.route = routes[i] /\ found.upstream_model = rest
        /\ found = Matched(routes[i], rest)
    BY <2>1 DEF Matched
  <2> HIDE DEF rest
  <2>6. request \subseteq [endpoint : ApiRoute, credential : CredentialRefs,
                           model : Seq(STRING)]
    BY <2>2, <2>3, <2>4, <2>5 DEF RouteInv
  <2>7. rest \in {SubSeq(model, m, Len(model)) : m \in 1 .. Len(model) + 1}
    BY <2>4 DEF rest
  <2> QED
    BY <2>5, <2>6, <2>7
<1>2. CASE found.tag # "matched" /\ pc # "resolve"
  <2>1. found = NoMatch \/ found = Ambiguous
    BY <1>2 DEF RouteInv, resolve, Matched
  <2>2. request = {}
    BY <1>2 DEF RouteInv
  <2> QED
    BY <2>1, <2>2
<1>3. CASE pc = "resolve"
  BY <1>3 DEF RouteInv
<1> QED
  BY <1>1, <1>2, <1>3 DEF RouteInv

PlainTypes ==
    /\ pc \in {"resolve", "no_route", "execute", "credential", "send", "sent",
               "failed", "stream", "exhausted", "cancelled", "dropped"}
    /\ store \in StoreAnswers \cup {NotYet}
    /\ status \in Statuses \cup {NotYet}
    /\ error \subseteq ProviderError
    /\ polled \in Seq(AnyItem) /\ Len(polled) <= Len(wire)

\* Whatever execute returns is a classified error.
LEMMA ErrorsAreClassified ==
    /\ TransportFailed \in ProviderError
    /\ \A route : RouteError(route) \subseteq ProviderError
    /\ \A answer : credential_error(answer) \subseteq ProviderError
    /\ \A code \in Statuses : code # "2xx" => status_error(code) \in ProviderError
<1>1. /\ TransportFailed \in ProviderError /\ Malformed \in ProviderError
      /\ classified("model_unavailable", FALSE) \in ProviderError
      /\ classified("transport_failed", FALSE) \in ProviderError
      /\ classified("auth_required", FALSE) \in ProviderError
  BY DEF TransportFailed, Malformed, classified, ProviderError, FailureCode
<1>2. /\ \A route : RouteError(route) \subseteq ProviderError
      /\ \A answer : credential_error(answer) \subseteq ProviderError
  BY <1>1 DEF RouteError, credential_error
<1>3. ASSUME NEW code \in Statuses, code # "2xx"
      PROVE  status_error(code) \in ProviderError
  BY <1>3 DEF status_error, Statuses, classified, ProviderError, FailureCode
<1> QED
  BY <1>1, <1>2, <1>3

\* One poll adds at most one item to what was decoded.
LEMMA PolledStep ==
    ASSUME TurnInv, PlainTypes, NEW answer \in Answers, PollFrame(answer)
    PROVE  polled' \in Seq(AnyItem) /\ Len(polled') <= Len(wire')
<1>1. wire' = Append(wire, answer) /\ wire \in Seq(Answers)
  BY DEF PollFrame, TurnInv, Types
<1>2. Len(wire') = Len(wire) + 1 /\ Len(wire) \in Nat
  BY <1>1
<1>3. CASE Decoded(answer) = Skip
  <2>1. polled' = polled
    BY <1>3 DEF PollFrame
  <2> QED
    BY <1>2, <2>1 DEF PlainTypes
<1>4. CASE Decoded(answer) # Skip
  <2>1. polled' = Append(polled, Decoded(answer))
    BY <1>4 DEF PollFrame
  <2>2. Decoded(answer) \in AnyItem
    BY <1>4, AnswerStep DEF TurnInv, Types, Filtered
  <2> QED
    BY <1>2, <2>1, <2>2 DEF PlainTypes
<1> QED
  BY <1>3, <1>4

LEMMA PlainTypesInductive ==
    ASSUME TurnInv, PlainTypes, [Next]_vars
    PROVE  PlainTypes'
<1> USE DEF PlainTypes, setup, relay, exchange, Return
<1>1. CASE Resolve
  BY <1>1 DEF Resolve
<1>2. CASE CheckRoute
  BY <1>2, ErrorsAreClassified DEF CheckRoute
<1>3. ASSUME NEW answer \in StoreAnswers, FetchCredential(answer)
      PROVE  PlainTypes'
  BY <1>3, ErrorsAreClassified DEF FetchCredential
<1>4. CASE Send
  BY <1>4 DEF Send
<1>5. CASE SendFails
  BY <1>5, ErrorsAreClassified DEF SendFails
<1>6. ASSUME NEW code \in Statuses, Respond(code) PROVE PlainTypes'
  BY <1>6, ErrorsAreClassified DEF Respond
<1>7. ASSUME NEW answer \in Answers, PollFrame(answer) PROVE PlainTypes'
  <2>1. UNCHANGED <<pc, store, status, error>>
    BY <1>7 DEF PollFrame
  <2> QED
    BY <1>7, <2>1, PolledStep
<1>8. CASE PollEnd
  BY <1>8 DEF PollEnd
<1>9. CASE Drop
  BY <1>9 DEF Drop
<1>10. CASE UNCHANGED vars
  BY <1>10 DEF vars
<1> QED
  BY <1>1, <1>2, <1>3, <1>4, <1>5, <1>6, <1>7, <1>8, <1>9, <1>10 DEF Next

LEMMA FullInvariance == Spec => [](RouteInv /\ TurnInv /\ PlainTypes)
<1>1. Init => PlainTypes
  BY DEF Init, PlainTypes
<1>2. TurnInv /\ PlainTypes /\ [Next]_vars => PlainTypes'
  BY PlainTypesInductive
<1>3. RouteInv /\ [Next]_vars => RouteInv'
  BY RouteInvInductive
<1> QED
  BY <1>1, <1>2, <1>3, RouteInvInit, Invariance, PTL DEF Spec

\* Every variable keeps its type, for any table, slugs and frames: no error
\* and no event is ever built that the daemon could not name.
THEOREM TypeCorrect == Spec => []TypeOK
<1>1. RouteInv /\ TurnInv /\ PlainTypes => TypeOK
  <2> SUFFICES ASSUME RouteInv, TurnInv, PlainTypes PROVE TypeOK
    OBVIOUS
  <2>1. /\ routes \in RouteTables /\ model \in Models
        /\ wire \in Seq(Answers) /\ validator \in ValidatorState
        /\ out \in Seq(CanonicalEvent)
    BY DEF RouteInv, TurnInv, Types
  <2> QED
    BY <2>1, FoundIsTyped DEF PlainTypes, TypeOK
<1> QED
  BY <1>1, FullInvariance, PTL

-----------------------------------------------------------------------------
(* The stream the consumer reads is a validated stream of what the         *)
(* upstream's answers decode to.  A frame that filter_map drops is a       *)
(* stutter, everything up to the stream is one, and a turn that is dropped *)
(* before it has a stream never leaves the initial state.                  *)

\* The validator of the abstract stream is the one of this module.
LEMMA SameValidator ==
    /\ Relay!Item = AnyItem
    /\ \A v, item : /\ Relay!Observed(v, item) = Observed(v, item)
                   /\ Relay!Emitted(v, item) = Emitted(v, item)
<1>1. Relay!Item = AnyItem
  BY DEF Relay!Item, Relay!Items, Relay!OkItem, Relay!ErrItem, Relay!Eof,
         AnyItem, Items, OkItem, ErrItem, Eof
<1>2. ASSUME NEW v, NEW item PROVE Relay!Observed(v, item) = Observed(v, item)
  BY DEF Relay!Observed, Relay!Remembered, Relay!EndsTurn, Relay!response_id,
         Relay!is_terminal, Observed, Remembered, EndsTurn, response_id,
         is_terminal
<1>3. ASSUME NEW v, NEW item PROVE Relay!Emitted(v, item) = Emitted(v, item)
  BY DEF Relay!Emitted, Relay!failure_event, Relay!PrematureEof,
         Relay!ResponseFailed, Relay!Event, Emitted, failure_event,
         PrematureEof, ResponseFailed, Event
<1> QED
  BY <1>1, <1>2, <1>3

LEMMA RelayStep ==
    ASSUME TurnInv, PlainTypes, [Next]_vars
    PROVE  [Relay!Next]_(Relay!vars)
<1> USE DEF Relay!vars, relay, exchange, setup
<1>1. ASSUME NEW answer \in Answers, PollFrame(answer)
      PROVE  [Relay!Next]_(Relay!vars)
  <2> DEFINE item == Decoded(answer)
  <2>1. /\ pc = "stream" /\ pc' = pc /\ ~validator.terminal_seen
        /\ Len(wire) < MaxAnswers
    BY <1>1 DEF PollFrame
  <2>2. CASE item = Skip
    BY <1>1, <2>1, <2>2 DEF PollFrame, Filtered
  <2>3. CASE item # Skip
    <3>1. /\ polled' = Append(polled, item)
          /\ validator' = Observed(validator, item)
          /\ out' = Append(out, Emitted(validator, item))
      BY <1>1, <2>3 DEF PollFrame, Filtered
    <3>2. item \in Relay!Item
      BY <2>3, AnswerStep, SameValidator DEF TurnInv, Types, Filtered
    <3>3. Len(polled) < MaxAnswers
      BY <2>1, UpstreamAssumption DEF PlainTypes, TurnInv, Types
    <3>4. Relay!PollSource(item)
      BY <2>1, <3>1, <3>3, SameValidator DEF Relay!PollSource
    <3> QED
      BY <3>2, <3>4 DEF Relay!Next
  <2> QED
    BY <2>2, <2>3
<1>2. CASE PollEnd
  BY <1>2 DEF PollEnd, Relay!Next, Relay!PollEnd
<1>3. CASE Drop
  BY <1>3 DEF Drop, Relay!Next, Relay!DropStream
<1>4. CASE UNCHANGED vars
  BY <1>4 DEF vars
<1>5. CASE \/ Resolve \/ CheckRoute \/ Send \/ SendFails
           \/ \E answer \in StoreAnswers : FetchCredential(answer)
           \/ \E code \in Statuses : Respond(code)
  BY <1>5 DEF Resolve, CheckRoute, Send, SendFails, FetchCredential, Respond,
              Return
<1> QED
  BY <1>1, <1>2, <1>3, <1>4, <1>5 DEF Next

\* The provider's stream behind the validator implements a validated stream,
\* its liveness apart, for any frames of the upstream and any bound.
THEOREM ImplementsValidatedStreamSafely ==
    Spec => Relay!Init /\ [][Relay!Next]_(Relay!vars)
<1>1. Init => Relay!Init
  BY DEF Init, Relay!Init, FreshValidator, Relay!FreshValidator
<1>2. TurnInv /\ PlainTypes /\ [Next]_vars => [Relay!Next]_(Relay!vars)
  BY RelayStep
<1> QED
  BY <1>1, <1>2, FullInvariance, PTL DEF Spec

\* What is proved of every validated stream, about this one.
Proved == INSTANCE ValidatedStreamProofs
    WITH phase <- IF pc \in {"exhausted", "dropped"} THEN pc ELSE "open",
         ProviderEvents <- CanonicalEvent,
         ProviderErrors <- ProviderError,
         MaxItems <- MaxAnswers

\* The stream the lemmas are about is the one the provider implements.
LEMMA SameStream ==
    /\ Proved!ProviderAssumption
    /\ Proved!MaxItemsAssumption
    /\ Proved!NoIdAssumption
    /\ Relay!Init => Proved!Init
    /\ [Relay!Next]_(Relay!vars) => [Proved!Next]_(Proved!vars)
    /\ Proved!FaithfulRelay => Relay!FaithfulRelay
    /\ Proved!OneTerminalLast => Relay!OneTerminalLast
<1>1. Proved!NoIdAssumption /\ Proved!MaxItemsAssumption
  BY UpstreamAssumption, NoIdAssumption
  DEF Proved!MaxItemsAssumption, Proved!NoIdAssumption
<1>2. CanonicalEvent = Proved!CanonicalEvent
  BY DEF CanonicalEvent, Proved!CanonicalEvent, ResponseCreated,
         Proved!ResponseCreated, ItemEvent, Proved!ItemEvent,
         ResponseCompleted, Proved!ResponseCompleted, ResponseIncomplete,
         Proved!ResponseIncomplete, ResponseFailed, Proved!ResponseFailed,
         Event, Proved!Event, ItemEventTypes, Proved!ItemEventTypes,
         FailureCode, Proved!FailureCode, NoCode, Proved!NoCode
<1>3. ProviderError = Proved!ProviderError
  BY DEF ProviderError, Proved!ProviderError, FailureCode, Proved!FailureCode
<1>4. Relay!Item = Proved!Item
  BY DEF Relay!Item, Relay!Items, Relay!OkItem, Relay!ErrItem, Relay!Eof,
         Proved!Item, Proved!Items, Proved!OkItem, Proved!ErrItem, Proved!Eof
<1>5. ASSUME NEW v, NEW item
      PROVE  Relay!Observed(v, item) = Proved!Observed(v, item)
  BY DEF Relay!Observed, Relay!Remembered, Relay!EndsTurn, Relay!response_id,
         Relay!is_terminal, Proved!Observed, Proved!Remembered,
         Proved!EndsTurn, Proved!response_id, Proved!is_terminal
<1>6. ASSUME NEW v, NEW item
      PROVE  Relay!Emitted(v, item) = Proved!Emitted(v, item)
  BY DEF Relay!Emitted, Relay!failure_event, Relay!PrematureEof,
         Relay!ResponseFailed, Relay!Event, Proved!Emitted,
         Proved!failure_event, Proved!PrematureEof, Proved!ResponseFailed,
         Proved!Event
<1>7. Relay!Init => Proved!Init
  BY DEF Relay!Init, Proved!Init, Relay!FreshValidator, Proved!FreshValidator
<1>8. [Relay!Next]_(Relay!vars) => [Proved!Next]_(Proved!vars)
  BY <1>4, <1>5, <1>6
  DEF Relay!Next, Proved!Next, Relay!vars, Proved!vars, Relay!PollSource,
      Proved!PollSource, Relay!PollEnd, Proved!PollEnd, Relay!DropStream,
      Proved!DropStream
<1>9. ASSUME NEW items, NEW i, NEW event
      PROVE  Relay!Expected(items, i, event) = Proved!Expected(items, i, event)
  BY DEF Relay!Expected, Relay!ToldLast, Relay!Told, Relay!response_id,
         Relay!failure_event, Relay!PrematureEof, Relay!ResponseFailed,
         Relay!Event, Proved!Expected, Proved!ToldLast, Proved!Told,
         Proved!response_id, Proved!failure_event, Proved!PrematureEof,
         Proved!ResponseFailed, Proved!Event
<1>10. Proved!FaithfulRelay => Relay!FaithfulRelay
  BY <1>9 DEF Relay!FaithfulRelay, Proved!FaithfulRelay
<1>11. Proved!OneTerminalLast => Relay!OneTerminalLast
  BY DEF Relay!OneTerminalLast, Relay!Concludes, Relay!to_responses_wire,
         Relay!responses_event_name, Relay!TerminalFrames,
         Proved!OneTerminalLast, Proved!Concludes, Proved!to_responses_wire,
         Proved!responses_event_name, Proved!TerminalFrames
<1> QED
  BY <1>1, <1>2, <1>3, <1>7, <1>8, <1>10, <1>11 DEF Proved!ProviderAssumption

LEMMA ProviderStreamSteps == Spec => Proved!Steps
BY SameStream, ImplementsValidatedStreamSafely, PTL DEF Proved!Steps

\* The consumer of the HTTP provider gets one event per answer that says
\* anything, in the upstream's order, and for an answer that is an error or the
\* end of the connection a failure of the response the upstream named last.
THEOREM FaithfulToUpstream == Spec => []Relay!FaithfulRelay
BY ProviderStreamSteps, SameStream, Proved!FaithfulSteps, PTL

\* However the connection to the upstream ends, the stream of the HTTP provider
\* ends with a terminal event and has no other.
THEOREM ProviderStreamConcludes == Spec => []Relay!OneTerminalLast
BY ProviderStreamSteps, SameStream, Proved!TerminalSteps, PTL
=============================================================================

------------------------- MODULE HttpIngressProofs -------------------------
(***************************************************************************)
(* Proofs about the ingress with the HTTP API provider behind it, for any  *)
(* route table, any upstreams and any number of connections.               *)
(***************************************************************************)
EXTENDS HttpIngress, ResponsesIngressProofs

-----------------------------------------------------------------------------
(* What the provider answers is what the ingress expects of a provider.    *)

LEMMA StatusErrors ==
    ASSUME NEW status \in Statuses, status # "2xx"
    PROVE  status_error(status) \in ProviderErrors
BY AnswersAssumption DEF Statuses, status_error, HttpErrors

LEMMA EarlyErrors ==
    ASSUME NEW route, NEW answer,
           NEW error \in RouteError(route) \cup credential_error(answer)
    PROVE  error \in ProviderErrors
BY AnswersAssumption DEF RouteError, credential_error, HttpErrors, Malformed

LEMMA SendErrors == TransportFailed \in ProviderErrors
BY AnswersAssumption DEF TransportFailed, HttpErrors

LEMMA DeliveredItems ==
    ASSUME NEW answer \in Answers, ~Filtered(Decoded(answer))
    PROVE  Decoded(answer) \in Item
<1>1. TransportFailed \in ProviderErrors /\ Malformed \in ProviderErrors
  BY AnswersAssumption DEF TransportFailed, Malformed, HttpErrors
<1>2. CASE answer = Broken
  BY <1>1, <1>2 DEF Decoded, Item, Items
<1>3. CASE answer # Broken /\ answer = Closed
  BY <1>3 DEF Decoded, Item, Items
<1>4. CASE answer # Broken /\ answer # Closed
  <2>1. answer \in UpstreamFrames /\ Decoded(answer) = decode_responses_event(answer)
    BY <1>4 DEF Answers, Decoded
  <2>2. Decoded(answer) \in {OkItem(event) : event \in ProviderEvents}
                                \cup {ErrItem(Malformed)}
    BY <2>1, AnswersAssumption DEF Filtered
  <2> QED
    BY <1>1, <2>2 DEF Item, Items
<1> QED
  BY <1>2, <1>3, <1>4

\* An admitted body names one of the keys of its transport.
LEMMA AdmittedKey ==
    ASSUME NEW t \in Tasks, NEW body \in Bodies, Admitted(t, body)
    PROVE  KeyOf(body) \in TurnKeys(t)
BY DEF Admitted, TurnKeys, HttpTurnKeys, WsTurnKeys

\* Every step of the composition is a step of the ingress.
LEMMA StepsOfTheIngress ==
    ASSUME [HNext]_hvars
    PROVE  [Next]_vars
<1>1. CASE UNCHANGED hvars
  BY <1>1 DEF hvars
<1>2. ASSUME NEW t \in Tasks, Aside(t) \/ Drop(t) PROVE [Next]_vars
  BY <1>2 DEF Aside, Drop, Next, Step
<1>3. ASSUME NEW t \in Tasks, NEW error \in ProviderErrors, Fail(t, error)
      PROVE  [Next]_vars
  BY <1>3 DEF Fail, Next, Step
<1>4. ASSUME NEW t \in Tasks, NEW answer, LookUp(t, answer) PROVE [Next]_vars
  BY <1>3, <1>4, EarlyErrors DEF LookUp
<1>5. ASSUME NEW t \in Tasks, Refuse(t) PROVE [Next]_vars
  BY <1>3, <1>5, EarlyErrors DEF Refuse
<1>6. ASSUME NEW t \in Tasks, SendFails(t) PROVE [Next]_vars
  BY <1>3, <1>6, SendErrors DEF SendFails
<1>7. ASSUME NEW t \in Tasks, NEW status \in Statuses, Respond(t, status)
      PROVE  [Next]_vars
  <2>1. CASE status = "2xx"
    BY <1>7, <2>1 DEF Respond, Next, Step
  <2>2. CASE status # "2xx"
    BY <1>3, <1>7, <2>2, StatusErrors DEF Respond
  <2> QED
    BY <2>1, <2>2
<1>8. ASSUME NEW t \in Tasks, NEW answer \in Answers, Deliver(t, answer)
      PROVE  [Next]_vars
  BY <1>8, DeliveredItems DEF Deliver, Next, Step
<1>9. ASSUME NEW t \in Tasks, NEW body \in Bodies, Begin(t, body)
      PROVE  [Next]_vars
  BY <1>9, AdmittedKey DEF Begin, Next, Step
<1>10. CASE Restart
  BY <1>10 DEF Next
<1> QED
  BY <1>1, <1>2, <1>4, <1>5, <1>6, <1>7, <1>8, <1>9, <1>10 DEF HNext, Upstream

\* The composition is an instance of the ingress: every safety property that is
\* proved of ResponsesIngress for any provider holds with this one.
THEOREM ImplementsIngressSafely == HSpec => Steps
BY StepsOfTheIngress, PTL DEF HSpec, HInit, Steps

\* The leases are in order with this provider, too.
LEMMA IngressInvHolds == HSpec => [](TypeInv /\ LeaseAccounting)
BY ImplementsIngressSafely, TypeInvHolds, LeasesHold, PTL

\* With the HTTP provider behind it the daemon never lets two requests work on
\* one turn, and a turn that is worked on has its key in the registry.
THEOREM DaemonExcludes ==
    HSpec => /\ [](LeaseAccounting /\ NoOverlappingWork)
             /\ ImplementsTurnExclusion
BY ImplementsIngressSafely, LeasesHold, LeasesSeparateWork, StepsExclude, PTL

\* Whatever the upstreams send, each message is concluded once and at its end,
\* and a completion that a client reads is the provider's last answer.
THEOREM DaemonAnswers == HSpec => [](AnsweredOnce /\ NoFabricatedSuccess)
BY ImplementsIngressSafely, AnswerInvHolds, AnswersConclude, PTL

-----------------------------------------------------------------------------
(* Exchanges.  A step changes the exchange of one task at most, so it is    *)
(* enough to look at that task.                                             *)

Under(t) == /\ call[t] # NoCall <=> pc[t] \in Working
            /\ call[t] # NoCall =>
                /\ call[t].stage = "body" <=> pc[t] \in {"streaming", "sending"}
                /\ lease[t] = TurnKeyOf(call[t].identity)

LEMMA OneTaskExchanges ==
    ASSUME ExchangeUnderLease, NEW t \in Tasks, Under(t)',
           call' \in [Tasks -> Exchanges \cup {NoCall}],
           \A u \in Tasks \ {t} :
                call'[u] = call[u] /\ pc'[u] = pc[u] /\ lease'[u] = lease[u]
    PROVE  ExchangeUnderLease'
BY DEF ExchangeUnderLease, Under

\* A step past the exchanges, in which nobody begins or ends to work.
LEMMA ExchangesUntouched ==
    ASSUME ExchangeUnderLease, call' = call,
           \A u \in Tasks :
              /\ pc'[u] \in Working <=> pc[u] \in Working
              /\ pc'[u] \in {"streaming", "sending"}
                    <=> pc[u] \in {"streaming", "sending"}
              /\ pc[u] \in Working => lease'[u] = lease[u]
    PROVE  ExchangeUnderLease'
BY DEF ExchangeUnderLease

\* A task that works no longer has hung up.
LEMMA ExchangeOver ==
    ASSUME TypeInv, ExchangeUnderLease, NEW t \in Tasks, HangUp(t),
           lease' = lease, NEW phase, phase \notin Working, Goto(t, phase)
    PROVE  ExchangeUnderLease'
<1>1. /\ call'[t] = NoCall /\ pc'[t] \notin Working
      /\ call' \in [Tasks -> Exchanges \cup {NoCall}]
      /\ \A u \in Tasks \ {t} : call'[u] = call[u] /\ pc'[u] = pc[u]
  BY DEF HangUp, Goto, TypeInv, TypeOK, ExchangeUnderLease
<1>2. Under(t)'
  BY <1>1 DEF Under
<1> QED
  BY <1>1, <1>2, OneTaskExchanges

\* The exchange goes on to another stage.
LEMMA ExchangeMoves ==
    ASSUME TypeInv, ExchangeUnderLease, NEW t \in Tasks, call[t] # NoCall,
           NEW stage \in {"sent", "body"}, MoveTo(t, stage), lease' = lease,
           NEW phase \in Working, Goto(t, phase),
           stage = "body" <=> phase \in {"streaming", "sending"}
    PROVE  ExchangeUnderLease'
<1>1. PICK body \in {b \in Bodies : \E u \in Tasks : Admitted(u, b)},
           before \in {"lookup", "sent", "body"} : call[t] = Exchange(before, body)
  BY DEF ExchangeUnderLease, Exchanges
<1>2. call'[t] = Exchange(stage, body)
  BY <1>1 DEF MoveTo, Exchange, ExchangeUnderLease
<1>3. call'[t] \in Exchanges /\ call'[t] # NoCall
  BY <1>2, NoCallAssumption DEF Exchanges
<1>4. call'[t].stage = stage /\ call'[t].identity = call[t].identity
  BY <1>1, <1>2 DEF Exchange
<1>5. /\ pc'[t] = phase
      /\ call' \in [Tasks -> Exchanges \cup {NoCall}]
      /\ \A u \in Tasks \ {t} : call'[u] = call[u] /\ pc'[u] = pc[u]
  BY <1>3 DEF MoveTo, Goto, TypeInv, TypeOK, ExchangeUnderLease
<1>6. Under(t)'
  BY <1>3, <1>4, <1>5 DEF Under, ExchangeUnderLease
<1> QED
  BY <1>5, <1>6, OneTaskExchanges

LEMMA BeginExchanges ==
    ASSUME TypeInv, ExchangeUnderLease, NEW t \in Tasks, NEW body \in Bodies,
           Begin(t, body)
    PROVE  ExchangeUnderLease'
<1>1. Exchange("lookup", body) \in Exchanges
  BY DEF Begin, Exchanges
<1>2. /\ call'[t] = Exchange("lookup", body) /\ pc'[t] = "executing"
      /\ lease'[t] = KeyOf(body)
      /\ call' \in [Tasks -> Exchanges \cup {NoCall}]
      /\ \A u \in Tasks \ {t} :
            call'[u] = call[u] /\ pc'[u] = pc[u] /\ lease'[u] = lease[u]
  BY <1>1 DEF Begin, Accept, Goto, TypeInv, TypeOK, ExchangeUnderLease
<1>3. Under(t)'
  BY <1>1, <1>2, NoCallAssumption DEF Under, Exchange, KeyOf, Working
<1> QED
  BY <1>2, <1>3, OneTaskExchanges

LEMMA AsideKeepsExchanges ==
    ASSUME TypeInv, ExchangeUnderLease, NEW t \in Tasks, Aside(t)
    PROVE  ExchangeUnderLease'
<1>0. pc \in [Tasks -> Phases] /\ call' = call
  BY DEF TypeInv, TypeOK, Aside
<1>1. CASE Connect(t) \/ Disconnect(t) \/ CloseIdle(t)
  BY <1>0, <1>1, ExchangesUntouched
  DEF Connect, Disconnect, CloseIdle, Close, Goto, Working
<1>2. ASSUME NEW code, Reply(t, code) PROVE ExchangeUnderLease'
  BY <1>0, <1>2, ExchangesUntouched DEF Reply, Receives, Close, Goto, Working
<1>3. CASE EmitFailure(t)
  BY <1>0, <1>3, ExchangesUntouched DEF EmitFailure, HandOver, Goto, Working
<1>5. CASE Sent(t)
  BY <1>0, <1>5, ExchangesUntouched DEF Sent, Taking, Goto, Working
<1>4. CASE Release(t)
  <2>1. pc[t] = "releasing" /\ lease' = [lease EXCEPT ![t] = NoTurn]
    BY <1>4 DEF Release
  <2>2. Goto(t, "idle") \/ Goto(t, "closed")
    BY <1>4 DEF Release, Close
  <2>3. \A u \in Tasks : /\ pc'[u] \in Working <=> pc[u] \in Working
                         /\ pc'[u] \in {"streaming", "sending"}
                               <=> pc[u] \in {"streaming", "sending"}
    BY <1>0, <2>1, <2>2 DEF Goto, Working
  <2>4. \A u \in Tasks : pc[u] \in Working => lease'[u] = lease[u]
    BY <2>1 DEF Working, TypeInv, TypeOK
  <2> QED
    BY <1>0, <2>3, <2>4, ExchangesUntouched
<1> QED
  BY <1>1, <1>2, <1>3, <1>4, <1>5 DEF Aside, ReplyWithoutTurn, RejectDuplicate

LEMMA ExchangesInductive ==
    ASSUME TypeInv, ExchangeUnderLease, [HNext]_hvars
    PROVE  ExchangeUnderLease'
<1>1. CASE UNCHANGED hvars
  BY <1>1, ExchangesUntouched DEF hvars, vars
<1>2. ASSUME NEW t \in Tasks, Drop(t) PROVE ExchangeUnderLease'
  <2>1. lease' = lease /\ Goto(t, "releasing") /\ HangUp(t)
    BY <1>2 DEF Drop, DropRequest, EndStream, SendBreaks
  <2> QED
    BY <2>1, ExchangeOver DEF Working
<1>3. ASSUME NEW t \in Tasks, NEW error, Fail(t, error) PROVE ExchangeUnderLease'
  <2>1. lease' = lease /\ Goto(t, "failing") /\ HangUp(t)
    BY <1>3 DEF Fail, ExecuteErr
  <2> QED
    BY <2>1, ExchangeOver DEF Working
<1>4. ASSUME NEW t \in Tasks, NEW answer, LookUp(t, answer)
      PROVE  ExchangeUnderLease'
  <2>1. CASE MoveTo(t, "sent") /\ UNCHANGED vars
    <3>1. call[t] # NoCall /\ call[t].stage = "lookup"
      BY <1>4 DEF LookUp, AtStage
    <3>2. /\ pc[t] \in Working /\ pc[t] \notin {"streaming", "sending"}
          /\ Goto(t, pc[t])
      BY <2>1, <3>1 DEF ExchangeUnderLease, vars, Goto, TypeInv, TypeOK
    <3> QED
      BY <2>1, <3>1, <3>2, ExchangeMoves DEF vars
  <2> QED
    BY <1>3, <1>4, <2>1 DEF LookUp
<1>5. ASSUME NEW t \in Tasks, SendFails(t) PROVE ExchangeUnderLease'
  BY <1>3, <1>5 DEF SendFails
<1>6. ASSUME NEW t \in Tasks, NEW status \in Statuses, Respond(t, status)
      PROVE  ExchangeUnderLease'
  <2>1. CASE ExecuteOk(t) /\ MoveTo(t, "body")
    <3>1. call[t] # NoCall /\ lease' = lease /\ Goto(t, "streaming")
      BY <1>6, <2>1 DEF Respond, AtStage, ExecuteOk
    <3> QED
      BY <2>1, <3>1, ExchangeMoves DEF Working
  <2> QED
    BY <1>3, <1>6, <2>1 DEF Respond
<1>7. ASSUME NEW t \in Tasks, NEW answer, Deliver(t, answer)
      PROVE  ExchangeUnderLease'
  <2>1. call' = call /\ lease' = lease /\ pc[t] = "streaming" /\ Goto(t, "sending")
    BY <1>7 DEF Deliver, Relay, HandOver
  <2> QED
    BY <2>1, ExchangesUntouched DEF Goto, Working, TypeInv, TypeOK
<1>8. ASSUME NEW t \in Tasks, Refuse(t) PROVE ExchangeUnderLease'
  BY <1>3, <1>8 DEF Refuse
<1>9. CASE Restart /\ call' = [t \in Tasks |-> NoCall]
  BY <1>9 DEF Restart, ExchangeUnderLease, Working
<1> QED
  BY <1>1, <1>2, <1>4, <1>5, <1>6, <1>7, <1>8, <1>9, AsideKeepsExchanges,
     BeginExchanges DEF HNext, Upstream

\* An exchange lives exactly while the provider may be at work, and under the
\* lease of its turn.
THEOREM ExchangeUnderLeaseHolds == HSpec => []ExchangeUnderLease
<1>1. HInit => ExchangeUnderLease
  BY DEF HInit, Init, ExchangeUnderLease, Working
<1> QED
  BY <1>1, ExchangesInductive, IngressInvHolds, PTL DEF HSpec

\* The upstreams never serve two exchanges of one turn.
THEOREM OneExchangePerTurnHolds == HSpec => []OneExchangePerTurn
<1>1. LeaseAccounting /\ ExchangeUnderLease => OneExchangePerTurn
  <2> SUFFICES ASSUME LeaseAccounting, ExchangeUnderLease,
                      NEW t \in Tasks, NEW u \in Tasks,
                      call[t] # NoCall, call[u] # NoCall,
                      call[t].identity.thread_id = call[u].identity.thread_id,
                      call[t].identity.turn_id = call[u].identity.turn_id
               PROVE  t = u
    BY DEF OneExchangePerTurn
  <2>1. lease[t] = lease[u]
    BY DEF ExchangeUnderLease, TurnKeyOf
  <2>2. pc[t] \in Holding
    BY DEF ExchangeUnderLease, Working, Holding
  <2> QED
    BY <2>1, <2>2 DEF LeaseAccounting
<1> QED
  BY <1>1, ExchangeUnderLeaseHolds, IngressInvHolds, PTL

-----------------------------------------------------------------------------
(* Completions.  What a client reads as a completion is followed back: to  *)
(* the event, to the item of the provider, to the frame of the upstream.   *)

LEMMA UpstreamFrameFields ==
    ASSUME NEW frame \in UpstreamFrames
    PROVE  /\ frame.data \in {"json", "blank", "done_marker", "not_json", "no_type"}
           /\ frame.data = "json" => frame.type \in FrameTypes
<1>1. frame \in Typed \/ frame \in Untyped
  BY AnswersAssumption DEF Frames
<1>2. CASE frame \in Typed
  <2>1. PICK t \in FrameTypes, id \in ResponseIds \cup {NoId},
             whole \in BOOLEAN, calls \in BOOLEAN :
                frame = Frame("json", t, id, whole, calls)
    BY <1>2 DEF Typed
  <2> QED
    BY <2>1 DEF Frame
<1>3. CASE frame \in Untyped
  BY <1>3 DEF Untyped, Frame
<1> QED
  BY <1>1, <1>2, <1>3

\* The decoder makes a completion only of the frame that is one.
LEMMA CompletedFrame ==
    ASSUME NEW answer \in Answers, NEW id,
           Decoded(answer) = OkItem(ResponseCompleted(id))
    PROVE  /\ answer \in UpstreamFrames /\ answer.data = "json"
           /\ answer.type = "response.completed" /\ answer.id = id
<1> DEFINE done == OkItem(ResponseCompleted(id))
<1>1. \A error : done # ErrItem(error) /\ done # Eof /\ done # Skip
  BY DEF OkItem, ErrItem, Eof, Skip
<1>2. \A e : done = OkItem(e) => e = ResponseCompleted(id)
  BY DEF OkItem
<1> HIDE DEF done
<1>3. answer # Broken /\ answer # Closed
  BY <1>1 DEF Decoded, done
<1>4. answer \in UpstreamFrames /\ decode_responses_event(answer) = done
  BY <1>3 DEF Answers, Decoded, done
<1>5. answer.data = "json" /\ decode_type(answer) = done
  BY <1>1, <1>4, UpstreamFrameFields DEF decode_responses_event
<1>6. answer.type \in FrameTypes
  BY <1>4, <1>5, UpstreamFrameFields
<1>7. ASSUME NEW e, WithId(answer, e) = done PROVE e = ResponseCompleted(id)
  BY <1>1, <1>2, <1>7 DEF WithId
<1>8. ASSUME NEW type, NEW other
      PROVE  /\ WithStrings(answer, type) = done => type = "response_completed"
             /\ ResponseCreated(other) # ResponseCompleted(id)
             /\ ResponseIncomplete(other) # ResponseCompleted(id)
             /\ ResponseFailed(other, Malformed.code, FALSE) # ResponseCompleted(id)
             /\ ResponseCompleted(other) = ResponseCompleted(id) => other = id
  <2>1. WithStrings(answer, type) = done => ItemEvent(type) = ResponseCompleted(id)
    BY <1>1, <1>2 DEF WithStrings
  <2> QED
    BY <2>1 DEF ItemEvent, ResponseCreated, ResponseIncomplete, ResponseFailed,
                ResponseCompleted, Event
<1>9. answer.type = "response.completed"
  <2>1. CASE answer.type = "response.created"
    BY <1>5, <1>7, <1>8, <2>1 DEF decode_type
  <2>2. CASE answer.type = "response.output_item.added"
    BY <1>5, <1>8, <2>2 DEF decode_type
  <2>3. CASE answer.type = "response.output_text.delta"
    BY <1>5, <1>8, <2>3 DEF decode_type
  <2>4. CASE answer.type = "response.output_item.done"
    BY <1>5, <1>8, <2>4 DEF decode_type
  <2>5. CASE answer.type = "response.failed"
    BY <1>2, <1>5, <1>8, <2>5 DEF decode_type
  <2>6. CASE answer.type = "response.incomplete"
    BY <1>2, <1>5, <1>8, <2>6 DEF decode_type
  <2>7. CASE answer.type = "other"
    BY <1>1, <1>5, <2>7 DEF decode_type
  <2> QED
    BY <1>6, <2>1, <2>2, <2>3, <2>4, <2>5, <2>6, <2>7 DEF FrameTypes
<1>10. ResponseCompleted(answer.id) = ResponseCompleted(id)
  BY <1>5, <1>7, <1>9 DEF decode_type
<1> QED
  BY <1>4, <1>5, <1>8, <1>9, <1>10

\* A step after which the client of t has no new completion before it.
NoCompletion(t) ==
    wire'[t] \in {wire[t], <<>>} \/ Last(wire'[t]).type # "response.completed"

LEMMA OneFrame ==
    ASSUME TypeInv, NEW t \in Tasks, NEW u \in Tasks, NEW frame,
           wire' = [wire EXCEPT ![u] = Append(@, frame)],
           frame.type # "response.completed"
    PROVE  NoCompletion(t)
<1>1. CASE t = u
  <2>1. wire[u] \in Seq(WireFrame) /\ wire'[u] = Append(wire[u], frame)
    BY DEF TypeInv, TypeOK
  <2>2. wire'[u][Len(wire'[u])] = frame
    BY <2>1
  <2> QED
    BY <1>1, <2>2 DEF NoCompletion, Last
<1>2. CASE t # u
  BY <1>2 DEF NoCompletion, TypeInv, TypeOK
<1> QED
  BY <1>1, <1>2

\* Nothing that the ingress does of itself completes a turn.
LEMMA AsideCompletesNothing ==
    ASSUME TypeInv, NEW t \in Tasks, NEW u \in Tasks, Aside(u)
    PROVE  NoCompletion(t)
<1>0. wire \in [Tasks -> Seq(WireFrame)]
  BY DEF TypeInv, TypeOK
<1>1. ASSUME Close(u) PROVE NoCompletion(t)
  BY <1>0, <1>1 DEF Close, NoCompletion
<1>2. CASE Connect(u) \/ Disconnect(u) \/ CloseIdle(u)
  BY <1>1, <1>2 DEF Connect, Disconnect, CloseIdle, NoCompletion
<1>3. ASSUME NEW code, Reply(u, code) PROVE NoCompletion(t)
  <2>1. CASE wire' = [wire EXCEPT ![u] = <<Refusal(code)>>]
    <3>1. wire'[u] = <<Refusal(code)>> /\ (t # u => wire'[t] = wire[t])
      BY <1>0, <2>1
    <3>2. Refusal(code).type # "response.completed"
      BY DEF Refusal
    <3> QED
      BY <3>1, <3>2 DEF NoCompletion, Last
  <2> QED
    BY <1>1, <1>3, <2>1 DEF Reply
<1>4. CASE EmitFailure(u)
  <2>1. PICK error \in ProviderErrors : given[u] = ErrItem(error)
    BY <1>4 DEF EmitFailure, TypeInv
  <2> DEFINE frame == to_responses_wire(failure_event(error, NoId))
  <2>2. frame.type # "response.completed"
    BY DEF failure_event, ResponseFailed, Event, to_responses_wire,
           responses_event_name
  <2>3. wire' = [wire EXCEPT ![u] = Append(@, frame)]
    BY <1>4, <2>1 DEF EmitFailure, HandOver, ErrItem
  <2> HIDE DEF frame
  <2> QED
    BY <2>2, <2>3, OneFrame
<1>5. CASE Release(u)
  BY <1>1, <1>5 DEF Release, NoCompletion
<1>6. CASE Sent(u)
  BY <1>6 DEF Sent, NoCompletion
<1> QED
  BY <1>2, <1>3, <1>4, <1>5, <1>6 DEF Aside, ReplyWithoutTurn, RejectDuplicate

\* What a delivered completion is, on every level.
LEMMA DeliveredCompletion ==
    ASSUME TypeInv, LeaseAccounting, ExchangeUnderLease,
           NEW t \in Tasks, NEW answer \in Answers, Deliver(t, answer),
           wire'[t] # wire[t], Last(wire'[t]).type = "response.completed"
    PROVE  /\ lease[t] \in active
           /\ lease[t] = TurnKeyOf(call[t].identity)
           /\ answer \in UpstreamFrames /\ answer.data = "json"
           /\ answer.type = "response.completed" /\ answer.id = Last(wire'[t]).id
<1> DEFINE item  == Decoded(answer)
           event == Emitted(validator[t], item)
           frame == to_responses_wire(event)
<1>1. /\ item \in Item /\ Relay(t, item) /\ call[t] # NoCall
      /\ validator[t] \in ValidatorState /\ wire[t] \in Seq(WireFrame)
  BY DeliveredItems DEF Deliver, AtStage, TypeInv, TypeOK
<1>2. event \in CanonicalEvent
  BY <1>1, ItemIsAnyItem, ValidatorStep
<1>3. wire'[t] = Append(wire[t], frame)
  BY <1>1 DEF Relay, HandOver, TypeInv, TypeOK
<1> HIDE DEF item
<1>4. Last(wire'[t]) = frame
  BY <1>1, <1>3 DEF Last
<1>5. event = ResponseCompleted(frame.id)
  BY <1>2, <1>4, FrameNames
<1> HIDE DEF event, frame
<1>6. item = OkItem(ResponseCompleted(frame.id))
  BY <1>1, <1>5, CompletionIsGiven DEF event
<1>7. /\ answer \in UpstreamFrames /\ answer.data = "json"
      /\ answer.type = "response.completed" /\ answer.id = frame.id
  BY <1>6, CompletedFrame DEF item
<1>8. lease[t] = TurnKeyOf(call[t].identity) /\ pc[t] \in Holding
  BY <1>1 DEF ExchangeUnderLease, Working, Holding
<1>9. lease[t] \in active
  BY <1>8 DEF LeaseAccounting
<1> QED
  BY <1>4, <1>7, <1>8, <1>9

LEMMA OthersKeepTheirFrames ==
    ASSUME TypeInv, NEW t \in Tasks, NEW u \in Tasks \ {t},
           NEW answer, Deliver(u, answer)
    PROVE  NoCompletion(t)
BY DEF Deliver, Relay, HandOver, NoCompletion, TypeInv, TypeOK

LEMMA CompletionStep ==
    ASSUME TypeInv, LeaseAccounting, ExchangeUnderLease, [HNext]_hvars,
           NEW t \in Tasks, ~NoCompletion(t)
    PROVE  \E answer \in Answers : Deliver(t, answer)
<1>1. CASE UNCHANGED hvars
  BY <1>1 DEF hvars, vars, NoCompletion
<1>2. ASSUME NEW u \in Tasks, Drop(u) PROVE NoCompletion(t)
  BY <1>2 DEF Drop, DropRequest, EndStream, SendBreaks, NoCompletion
<1>3. ASSUME NEW u \in Tasks, NEW error, Fail(u, error) PROVE NoCompletion(t)
  BY <1>3 DEF Fail, ExecuteErr, NoCompletion
<1>4. ASSUME NEW u \in Tasks, NEW answer, LookUp(u, answer)
      PROVE  NoCompletion(t)
  BY <1>3, <1>4 DEF LookUp, vars, NoCompletion
<1>5. ASSUME NEW u \in Tasks, SendFails(u) PROVE NoCompletion(t)
  BY <1>3, <1>5 DEF SendFails
<1>6. ASSUME NEW u \in Tasks, NEW status \in Statuses, Respond(u, status)
      PROVE  NoCompletion(t)
  BY <1>3, <1>6 DEF Respond, ExecuteOk, NoCompletion
<1>7. ASSUME NEW u \in Tasks, NEW body \in Bodies, Begin(u, body)
      PROVE  NoCompletion(t)
  BY <1>7 DEF Begin, Accept, NoCompletion, TypeInv, TypeOK
<1>8. CASE Restart
  BY <1>8 DEF Restart, NoCompletion
<1>9. ASSUME NEW u \in Tasks, Refuse(u) PROVE NoCompletion(t)
  BY <1>3, <1>9 DEF Refuse
<1> QED
  BY <1>1, <1>2, <1>4, <1>5, <1>6, <1>7, <1>8, <1>9, AsideCompletesNothing,
     OthersKeepTheirFrames DEF HNext, Upstream

\* For any routes, upstreams and connections: what a client reads as the
\* completion of its turn is what the upstream of that turn just said.
THEOREM CompletionIsUpstreamsHolds == HSpec => CompletionIsUpstreams
<1>1. TypeInv /\ LeaseAccounting /\ ExchangeUnderLease /\ [HNext]_hvars =>
        [\A t \in Tasks :
            (/\ wire'[t] \notin {wire[t], <<>>}
             /\ Last(wire'[t]).type = "response.completed")
               => /\ lease[t] \in active
                  /\ lease[t] = TurnKeyOf(call[t].identity)
                  /\ \E frame \in UpstreamFrames :
                       /\ frame.data = "json"
                       /\ frame.type = "response.completed"
                       /\ frame.id = Last(wire'[t]).id
                       /\ Deliver(t, frame)]_hvars
  <2> SUFFICES ASSUME TypeInv, LeaseAccounting, ExchangeUnderLease,
                      [HNext]_hvars, NEW t \in Tasks,
                      wire'[t] \notin {wire[t], <<>>},
                      Last(wire'[t]).type = "response.completed"
               PROVE  /\ lease[t] \in active
                      /\ lease[t] = TurnKeyOf(call[t].identity)
                      /\ \E frame \in UpstreamFrames :
                           /\ frame.data = "json"
                           /\ frame.type = "response.completed"
                           /\ frame.id = Last(wire'[t]).id
                           /\ Deliver(t, frame)
    OBVIOUS
  <2>1. PICK answer \in Answers : Deliver(t, answer)
    BY CompletionStep DEF NoCompletion
  <2> QED
    BY <2>1, DeliveredCompletion
<1> QED
  BY <1>1, ExchangeUnderLeaseHolds, IngressInvHolds, PTL
     DEF HSpec, CompletionIsUpstreams
=============================================================================

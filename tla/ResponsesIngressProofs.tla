----------------------- MODULE ResponsesIngressProofs -----------------------
(***************************************************************************)
(* Proofs about the daemon's ingress, for any number of HTTP requests and  *)
(* WebSocket connections, any bodies, any provider.                        *)
(***************************************************************************)
EXTENDS ResponsesIngress, EventValidatorProofs

\* What the providers of the daemon answer are items of the lemmas.
LEMMA ItemIsAnyItem == Item \subseteq AnyItem
BY ProviderAssumption DEF Item, AnyItem, Items

\* The keys a message may name are turn keys.
LEMMA KeysAreTurnKeys == \A t \in Tasks : TurnKeys(t) \subseteq TurnKey
BY DEF TurnKeys, TurnKey

-----------------------------------------------------------------------------
(* Types.  The failure of an execute is remembered until it is sent: with  *)
(* that, the type invariant is inductive.                                  *)

TypeInv ==
    /\ TypeOK
    /\ \A t \in Tasks : pc[t] = "failing" =>
            \E error \in ProviderErrors : given[t] = ErrItem(error)

\* Every event makes a frame, and so does every reply.
LEMMA FrameOfEvent ==
    ASSUME NEW e \in CanonicalEvent
    PROVE  to_responses_wire(e) \in WireFrame
BY DEF WireFrame

\* The failure of an execute is an event that concludes the turn.
LEMMA ExecuteFailure ==
    ASSUME NEW error \in ProviderErrors
    PROVE  /\ failure_event(error, NoId) \in CanonicalEvent
           /\ Concludes(failure_event(error, NoId))
           /\ ErrItem(error) \in Item
<1>1. error.code \in FailureCode /\ error.retryable \in BOOLEAN
  BY ProviderAssumption DEF ProviderError
<1>2. /\ failure_event(error, NoId) \in CanonicalEvent
      /\ is_terminal(failure_event(error, NoId))
  BY <1>1, FailureIsEvent DEF failure_event
<1> QED
  BY <1>2, TerminalConcludes DEF Item, Items

\* A step that hands a frame over keeps the types.
LEMMA HandOverTypes ==
    ASSUME TypeInv, NEW t \in Tasks, NEW event \in CanonicalEvent,
           NEW phase \in Phases \ {"failing"}, HandOver(t, event, phase)
    PROVE  /\ pc' \in [Tasks -> Phases]
           /\ wire' \in [Tasks -> Seq(WireFrame)]
           /\ \A u \in Tasks : pc'[u] = "failing" => u # t /\ pc[u] = "failing"
<1>1. Append(wire[t], to_responses_wire(event)) \in Seq(WireFrame)
  BY FrameOfEvent DEF TypeInv, TypeOK
<1> QED
  BY <1>1 DEF HandOver, TypeInv, TypeOK, Goto

LEMMA TypeInvInductive ==
    ASSUME TypeInv, [Next]_vars
    PROVE  TypeInv'
<1> USE DEF TypeInv, TypeOK, Goto
<1>0. CASE UNCHANGED vars
  BY <1>0 DEF vars
<1>1. ASSUME NEW t \in Tasks, Connect(t) PROVE TypeInv'
  BY <1>1 DEF Connect, Phases
<1>2. ASSUME NEW t \in Tasks, Disconnect(t) PROVE TypeInv'
  BY <1>2 DEF Disconnect
<1>3. ASSUME NEW t \in Tasks, CloseIdle(t) PROVE TypeInv'
  BY <1>3 DEF CloseIdle, Close, Phases
<1>4. ASSUME NEW t \in Tasks, DropRequest(t) PROVE TypeInv'
  BY <1>4 DEF DropRequest, Phases, FreshValidator, ValidatorState
<1>5. ASSUME NEW t \in Tasks, NEW code, Refusal(code) \in WireFrame, Reply(t, code)
      PROVE  TypeInv'
  <2>1. CASE wire' = [wire EXCEPT ![t] = <<Refusal(code)>>]
             /\ UNCHANGED <<pc, connected, open>>
    BY <1>5, <2>1 DEF Reply
  <2>2. CASE Close(t)
    BY <1>5, <2>2 DEF Reply, Close, Phases
  <2> QED
    BY <1>5, <2>1, <2>2 DEF Reply
<1>6. ASSUME NEW t \in Tasks, ReplyWithoutTurn(t) PROVE TypeInv'
  <2>1. PICK code \in TurnlessReplies(t) : Reply(t, code)
    BY <1>6 DEF ReplyWithoutTurn
  <2> QED
    BY <1>5, <2>1 DEF WireFrame
<1>7. ASSUME NEW t \in Tasks, NEW key \in TurnKeys(t), RejectDuplicate(t, key)
      PROVE  TypeInv'
  BY <1>5, <1>7 DEF RejectDuplicate, WireFrame
<1>8. ASSUME NEW t \in Tasks, NEW key \in TurnKeys(t), Accept(t, key)
      PROVE  TypeInv'
  <2>1. key \in TurnKey
    BY KeysAreTurnKeys
  <2> QED
    BY <1>8, <2>1 DEF Accept, Phases
<1>9. ASSUME NEW t \in Tasks, ExecuteOk(t) PROVE TypeInv'
  BY <1>9 DEF ExecuteOk, Phases, FreshValidator, ValidatorState
<1>10. ASSUME NEW t \in Tasks, NEW error \in ProviderErrors, ExecuteErr(t, error)
       PROVE  TypeInv'
  <2>1. ErrItem(error) \in Item
    BY ExecuteFailure
  <2> QED
    BY <1>10, <2>1 DEF ExecuteErr, Phases
<1>11. ASSUME NEW t \in Tasks, EmitFailure(t) PROVE TypeInv'
  <2>1. PICK error \in ProviderErrors : given[t] = ErrItem(error)
    BY <1>11 DEF EmitFailure
  <2>2. /\ failure_event(given[t].error, NoId) \in CanonicalEvent
        /\ "reported" \in Phases \ {"failing"}
    BY <2>1, ExecuteFailure DEF ErrItem, Phases
  <2> HIDE DEF TypeInv, TypeOK
  <2>3. /\ pc' \in [Tasks -> Phases] /\ wire' \in [Tasks -> Seq(WireFrame)]
        /\ \A u \in Tasks : pc'[u] = "failing" => u # t /\ pc[u] = "failing"
    BY <1>11, <2>2, HandOverTypes DEF EmitFailure
  <2> QED
    BY <1>11, <2>3 DEF EmitFailure, TypeInv, TypeOK
<1>12. ASSUME NEW t \in Tasks, NEW item \in Item, Relay(t, item) PROVE TypeInv'
  <2>1. /\ Observed(validator[t], item) \in ValidatorState
        /\ Emitted(validator[t], item) \in CanonicalEvent
        /\ "sending" \in Phases \ {"failing"}
    BY ItemIsAnyItem, ValidatorStep DEF Phases
  <2> HIDE DEF TypeInv, TypeOK
  <2>2. /\ pc' \in [Tasks -> Phases] /\ wire' \in [Tasks -> Seq(WireFrame)]
        /\ \A u \in Tasks : pc'[u] = "failing" => u # t /\ pc[u] = "failing"
    BY <1>12, <2>1, HandOverTypes DEF Relay
  <2> QED
    BY <1>12, <2>1, <2>2 DEF Relay, TypeInv, TypeOK
<1>16. ASSUME NEW t \in Tasks, Sent(t) PROVE TypeInv'
  BY <1>16 DEF Sent, Phases
<1>17. ASSUME NEW t \in Tasks, SendBreaks(t) PROVE TypeInv'
  BY <1>17 DEF SendBreaks, Phases, FreshValidator, ValidatorState
<1>13. ASSUME NEW t \in Tasks, EndStream(t) PROVE TypeInv'
  BY <1>13 DEF EndStream, Phases, FreshValidator, ValidatorState
<1>14. ASSUME NEW t \in Tasks, Release(t) PROVE TypeInv'
  <2>1. CASE open[t]
    BY <1>14, <2>1 DEF Release, WithoutLease, Phases
  <2>2. CASE ~open[t]
    <3>1. /\ pc' \in [Tasks -> Phases] /\ wire' \in [Tasks -> Seq(WireFrame)]
          /\ connected' \in [Tasks -> BOOLEAN] /\ open' \in [Tasks -> BOOLEAN]
          /\ \A u \in Tasks : pc'[u] = "failing" => u # t /\ pc[u] = "failing"
      <4>1. Close(t)
        BY <1>14, <2>2 DEF Release
      <4> QED
        BY <4>1 DEF Close, Phases
    <3>2. /\ lease' \in [Tasks -> TurnKey \cup {NoTurn}]
          /\ given' \in [Tasks -> Item \cup {NoItem}]
          /\ \A u \in Tasks \ {t} : given'[u] = given[u]
          /\ active' \subseteq TurnKey
          /\ UNCHANGED validator
      BY <1>14 DEF Release, WithoutLease
    <3> QED
      BY <3>1, <3>2
  <2> QED
    BY <2>1, <2>2
<1>15. CASE Restart
  BY <1>15 DEF Restart, RegistryAtStart, Phases, FreshValidator, ValidatorState
<1> QED
  BY <1>0, <1>1, <1>2, <1>3, <1>4, <1>6, <1>7, <1>8, <1>9, <1>10, <1>11,
     <1>12, <1>13, <1>14, <1>15, <1>16, <1>17 DEF Next, Step

\* Spec without its fairness.  Safety is proved from the steps alone, so that it
\* holds of every composition whose steps are steps of the ingress.
Steps == Init /\ [][Next]_vars

LEMMA TypeInvHolds == Steps => []TypeInv
<1>1. Init => TypeInv
  BY DEF Init, TypeInv, TypeOK, Phases, FreshValidator, ValidatorState
<1> QED
  BY <1>1, TypeInvInductive, PTL DEF Steps

LEMMA SpecSteps == Spec => Steps
BY PTL DEF Spec, Steps

\* The variables keep their types in every behaviour.
THEOREM TypeCorrect == Spec => []TypeOK
<1>1. TypeInv => TypeOK
  BY DEF TypeInv
<1> QED
  BY <1>1, SpecSteps, TypeInvHolds, PTL

-----------------------------------------------------------------------------
(* Leases.  LeaseAccounting is inductive: only Accept and Release touch    *)
(* the registry, and every other step keeps a task on its side of Holding. *)

\* A step that neither takes nor frees a lease keeps the accounts.
LEMMA LeasesUntouched ==
    ASSUME LeaseAccounting, active' = active, lease' = lease,
           \A u \in Tasks : pc'[u] \in Holding <=> pc[u] \in Holding
    PROVE  LeaseAccounting'
BY DEF LeaseAccounting

\* Accept inserts a key that nobody held.
LEMMA AcceptKeepsAccounts ==
    ASSUME TypeInv, LeaseAccounting, NEW t \in Tasks, NEW key \in TurnKey,
           Accept(t, key)
    PROVE  LeaseAccounting'
<1>1. /\ pc[t] = "idle" /\ key \notin active /\ key # NoTurn
      /\ active' = active \cup {key}
      /\ lease' = [lease EXCEPT ![t] = key]
      /\ pc' = [pc EXCEPT ![t] = "executing"]
  BY NoTurnAssumption DEF Accept, Free, Receives, Goto
<1>2. lease \in [Tasks -> TurnKey \cup {NoTurn}] /\ pc \in [Tasks -> Phases]
  BY DEF TypeInv, TypeOK
<1>3. lease[t] = NoTurn
  BY <1>1 DEF LeaseAccounting, Holding, Working
<1>4. \A u \in Tasks : lease[u] # key
  BY <1>1 DEF LeaseAccounting
<1>5. lease'[t] = key /\ \A u \in Tasks \ {t} : lease'[u] = lease[u]
  BY <1>1, <1>2
<1>6. active' = {lease'[u] : u \in Tasks} \ {NoTurn}
  BY <1>1, <1>3, <1>5 DEF LeaseAccounting
<1>7. \A u, w \in Tasks : lease'[u] = lease'[w] /\ lease'[u] # NoTurn => u = w
  BY <1>4, <1>5 DEF LeaseAccounting
<1>8. \A u \in Tasks : lease'[u] # NoTurn <=> pc'[u] \in Holding
  BY <1>1, <1>2, <1>5 DEF LeaseAccounting, Holding, Working
<1> QED
  BY <1>6, <1>7, <1>8 DEF LeaseAccounting

\* Release removes the key of the one task that held it.
LEMMA ReleaseKeepsAccounts ==
    ASSUME TypeInv, LeaseAccounting, NEW t \in Tasks, Release(t)
    PROVE  LeaseAccounting'
<1>1. /\ pc[t] = "releasing"
      /\ active' = active \ {lease[t]}
      /\ lease' = [lease EXCEPT ![t] = NoTurn]
  BY DEF Release, WithoutLease
<1>2. \/ pc' = [pc EXCEPT ![t] = "idle"]
      \/ pc' = [pc EXCEPT ![t] = "closed"]
  BY DEF Release, Close, Goto
<1>3. lease \in [Tasks -> TurnKey \cup {NoTurn}] /\ pc \in [Tasks -> Phases]
  BY DEF TypeInv, TypeOK
<1>4. lease[t] # NoTurn
  BY <1>1 DEF LeaseAccounting, Holding, Working
<1>5. lease'[t] = NoTurn /\ \A u \in Tasks \ {t} : lease'[u] = lease[u]
  BY <1>1, <1>3
<1>6. active' = {lease'[u] : u \in Tasks} \ {NoTurn}
  BY <1>1, <1>4, <1>5 DEF LeaseAccounting
<1>7. \A u, w \in Tasks : lease'[u] = lease'[w] /\ lease'[u] # NoTurn => u = w
  BY <1>5 DEF LeaseAccounting
<1>8. \A u \in Tasks : lease'[u] # NoTurn <=> pc'[u] \in Holding
  BY <1>2, <1>3, <1>5 DEF LeaseAccounting, Holding, Working
<1> QED
  BY <1>6, <1>7, <1>8 DEF LeaseAccounting

LEMMA LeaseAccountingInductive ==
    ASSUME TypeInv, LeaseAccounting, [Next]_vars
    PROVE  LeaseAccounting'
<1>0. pc \in [Tasks -> Phases]
  BY DEF TypeInv, TypeOK
<1>1. CASE UNCHANGED vars
  BY <1>1, LeasesUntouched DEF vars
<1>2. ASSUME NEW t \in Tasks, Connect(t) \/ Disconnect(t) \/ CloseIdle(t)
      PROVE  LeaseAccounting'
  BY <1>0, <1>2, LeasesUntouched
  DEF Connect, Disconnect, CloseIdle, Close, Goto, Holding, Working
<1>3. ASSUME NEW t \in Tasks, NEW code, Reply(t, code) PROVE LeaseAccounting'
  BY <1>0, <1>3, LeasesUntouched
  DEF Reply, Receives, Close, Goto, Holding, Working
<1>4. ASSUME NEW t \in Tasks, NEW key \in TurnKeys(t), Accept(t, key)
      PROVE  LeaseAccounting'
  BY <1>4, KeysAreTurnKeys, AcceptKeepsAccounts
<1>5. ASSUME NEW t \in Tasks,
             DropRequest(t) \/ ExecuteOk(t) \/ EndStream(t)
      PROVE  LeaseAccounting'
  BY <1>0, <1>5, LeasesUntouched
  DEF DropRequest, Droppable, ExecuteOk, EndStream, StreamOver, Goto, Holding,
      Working
<1>6. ASSUME NEW t \in Tasks, NEW error \in ProviderErrors, ExecuteErr(t, error)
      PROVE  LeaseAccounting'
  BY <1>0, <1>6, LeasesUntouched DEF ExecuteErr, Goto, Holding, Working
<1>7. ASSUME NEW t \in Tasks, EmitFailure(t) \/ Sent(t) \/ SendBreaks(t)
      PROVE  LeaseAccounting'
  BY <1>0, <1>7, LeasesUntouched
  DEF EmitFailure, HandOver, Sent, SendBreaks, Taking, Goto, Holding, Working
<1>8. ASSUME NEW t \in Tasks, NEW item \in Item, Relay(t, item)
      PROVE  LeaseAccounting'
  BY <1>0, <1>8, LeasesUntouched DEF Relay, HandOver, Goto, Holding, Working
<1>9. ASSUME NEW t \in Tasks, Release(t) PROVE LeaseAccounting'
  BY <1>9, ReleaseKeepsAccounts
<1>10. CASE Restart
  BY <1>10 DEF Restart, RegistryAtStart, LeaseAccounting, Holding, Working
<1> QED
  BY <1>1, <1>2, <1>3, <1>4, <1>5, <1>6, <1>7, <1>8, <1>9, <1>10
  DEF Next, Step, ReplyWithoutTurn, RejectDuplicate

LEMMA LeasesHold == Steps => []LeaseAccounting
<1>1. Init => LeaseAccounting
  BY DEF Init, LeaseAccounting, Holding, Working
<1> QED
  BY <1>1, LeaseAccountingInductive, TypeInvHolds, PTL DEF Steps

\* Two tasks that work own leases, so they own different ones.
LEMMA LeasesSeparateWork == LeaseAccounting => NoOverlappingWork
BY DEF LeaseAccounting, NoOverlappingWork, Working, Holding

\* The registry holds the keys of the living leases and no others, and no two
\* tasks own a lease of one turn.
THEOREM LeaseAccountingHolds == Spec => []LeaseAccounting
BY SpecSteps, LeasesHold, PTL

\* The provider never works on one turn for two tasks at once.
THEOREM NoOverlappingWorkHolds == Spec => []NoOverlappingWork
BY LeasesSeparateWork, LeaseAccountingHolds, PTL

-----------------------------------------------------------------------------
(* The ingress implements TurnExclusion: an accepted request begins a turn *)
(* and the step in which its task stops working finishes it.               *)

Running == {<<t, lease[t]>> : t \in {u \in Tasks : pc[u] \in Working}}

\* A step that changes neither a lease nor who works is a stutter.
LEMMA WorkUntouched ==
    ASSUME lease' = lease,
           \A u \in Tasks : pc'[u] \in Working <=> pc[u] \in Working
    PROVE  Running' = Running
BY DEF Running

\* A step in which one task stops working, its lease still held, finishes
\* its turn.
LEMMA WorkFinished ==
    ASSUME TypeInv, LeaseAccounting, NEW t \in Tasks, pc[t] \in Working,
           lease' = lease, NEW phase, phase \notin Working, Goto(t, phase)
    PROVE  Exclusion!Next
<1>1. PICK key \in TurnKey : key = lease[t]
  BY DEF TypeInv, TypeOK, LeaseAccounting, Working, Holding
<1>2. \A u \in Tasks : pc'[u] \in Working <=> u # t /\ pc[u] \in Working
  BY DEF Goto, TypeInv, TypeOK
<1>3. Running' = Running \ {<<t, key>>}
  BY <1>1, <1>2 DEF Running
<1>4. <<t, key>> \in Running
  BY <1>1 DEF Running
<1>5. Exclusion!Finish(t, key)
  BY <1>3, <1>4 DEF Exclusion!Finish, Running
<1> QED
  BY <1>5 DEF Exclusion!Next

\* An accepted request begins a turn that nobody works on.
LEMMA WorkBegun ==
    ASSUME TypeInv, LeaseAccounting, NEW t \in Tasks, NEW key \in TurnKey,
           Accept(t, key)
    PROVE  Exclusion!Next
<1>1. /\ pc[t] = "idle" /\ key \notin active /\ key # NoTurn
      /\ lease' = [lease EXCEPT ![t] = key]
      /\ pc' = [pc EXCEPT ![t] = "executing"]
  BY NoTurnAssumption DEF Accept, Free, Receives, Goto
<1>2. lease \in [Tasks -> TurnKey \cup {NoTurn}] /\ pc \in [Tasks -> Phases]
  BY DEF TypeInv, TypeOK
<1>3. \A r \in Running : r[1] # t /\ r[2] # key
  BY <1>1 DEF Running, Working, LeaseAccounting
<1>4. /\ lease'[t] = key /\ pc'[t] \in Working
      /\ \A u \in Tasks \ {t} : lease'[u] = lease[u] /\ pc'[u] = pc[u]
  BY <1>1, <1>2 DEF Working
<1>5. Running' = Running \cup {<<t, key>>}
  BY <1>1, <1>4 DEF Running, Working
<1>6. Exclusion!Begin(t, key)
  BY <1>3, <1>5 DEF Exclusion!Begin, Running
<1> QED
  BY <1>6 DEF Exclusion!Next

LEMMA StepsExclude == Steps => ImplementsTurnExclusion
<1>1. Init => Exclusion!Init
  BY DEF Init, Exclusion!Init, Working
<1>2. TypeInv /\ LeaseAccounting /\ [Next]_vars => [Exclusion!Next]_Running
  <2> SUFFICES ASSUME TypeInv, LeaseAccounting, [Next]_vars
               PROVE  Exclusion!Next \/ Running' = Running
    OBVIOUS
  <2>0. pc \in [Tasks -> Phases]
    BY DEF TypeInv, TypeOK
  <2>1. CASE UNCHANGED vars
    BY <2>1, WorkUntouched DEF vars
  <2>2. ASSUME NEW t \in Tasks, Connect(t) \/ Disconnect(t) \/ CloseIdle(t)
        PROVE  Running' = Running
    BY <2>0, <2>2, WorkUntouched
    DEF Connect, Disconnect, CloseIdle, Close, Goto, Working
  <2>3. ASSUME NEW t \in Tasks, NEW code, Reply(t, code) PROVE Running' = Running
    BY <2>0, <2>3, WorkUntouched DEF Reply, Receives, Close, Goto, Working
  <2>4. ASSUME NEW t \in Tasks, NEW key \in TurnKeys(t), Accept(t, key)
        PROVE  Exclusion!Next
    BY <2>4, KeysAreTurnKeys, WorkBegun
  <2>5. ASSUME NEW t \in Tasks, DropRequest(t) \/ EndStream(t) \/ SendBreaks(t)
        PROVE  Exclusion!Next \/ Running' = Running
    <3>1. lease' = lease /\ Goto(t, "releasing") /\ "releasing" \notin Working
      BY <2>5 DEF DropRequest, EndStream, SendBreaks, Working
    <3>2. CASE pc[t] \in Working
      BY <3>1, <3>2, WorkFinished
    <3>3. CASE pc[t] \notin Working
      BY <2>0, <3>1, <3>3, WorkUntouched DEF Goto
    <3> QED
      BY <3>2, <3>3
  <2>6. ASSUME NEW t \in Tasks, ExecuteOk(t) PROVE Running' = Running
    BY <2>0, <2>6, WorkUntouched DEF ExecuteOk, Goto, Working
  <2>7. ASSUME NEW t \in Tasks, NEW error \in ProviderErrors, ExecuteErr(t, error)
        PROVE  Exclusion!Next
    <3>1. /\ lease' = lease /\ Goto(t, "failing") /\ pc[t] \in Working
          /\ "failing" \notin Working
      BY <2>7 DEF ExecuteErr, Working
    <3> QED
      BY <3>1, WorkFinished
  <2>8. ASSUME NEW t \in Tasks, EmitFailure(t) \/ Sent(t)
        PROVE  Running' = Running
    BY <2>0, <2>8, WorkUntouched
    DEF EmitFailure, HandOver, Sent, Taking, Goto, Working
  <2>9. ASSUME NEW t \in Tasks, NEW item \in Item, Relay(t, item)
        PROVE  Running' = Running
    BY <2>0, <2>9, WorkUntouched DEF Relay, HandOver, Goto, Working
  <2>10. ASSUME NEW t \in Tasks, Release(t) PROVE Running' = Running
    <3>1. pc[t] = "releasing" /\ lease' = [lease EXCEPT ![t] = NoTurn]
      BY <2>10 DEF Release
    <3>2. Goto(t, "idle") \/ Goto(t, "closed")
      BY <2>10 DEF Release, Close
    <3>3. \A u \in Tasks : pc'[u] \in Working <=> pc[u] \in Working
      BY <2>0, <3>1, <3>2 DEF Goto, Working
    <3>4. \A u \in Tasks : pc[u] \in Working => lease'[u] = lease[u]
      BY <3>1 DEF Working, TypeInv, TypeOK
    <3> QED
      BY <3>3, <3>4 DEF Running
  <2>11. CASE Restart
    <3>1. Running' = {}
      BY <2>11 DEF Restart, Running, Working
    <3> QED
      BY <3>1 DEF Exclusion!Next, Exclusion!Crash, Running
  <2> QED
    BY <2>1, <2>2, <2>3, <2>4, <2>5, <2>6, <2>7, <2>8, <2>9, <2>10, <2>11
    DEF Next, Step, ReplyWithoutTurn, RejectDuplicate
<1> QED
  BY <1>1, <1>2, TypeInvHolds, LeasesHold, PTL
  DEF Steps, ImplementsTurnExclusion, Exclusion!Spec, Running

\* Every behaviour of the ingress is one of TurnExclusion.
THEOREM ImplementsTurnExclusionHolds == Spec => ImplementsTurnExclusion
BY SpecSteps, StepsExclude, PTL

-----------------------------------------------------------------------------
(* Answers.  In every phase of a turn the frames sent so far fit what the  *)
(* validator knows; the frame before last never concludes.                 *)

Silent(t) == \A i \in 1 .. Len(wire[t]) : wire[t][i].type \notin ConcludingTypes

Honest(t) == \A i \in 1 .. Len(wire[t]) :
    wire[t][i].type = "response.completed" =>
        /\ i = Len(wire[t])
        /\ given[t] = OkItem(ResponseCompleted(wire[t][i].id))

AnswerOf(t) ==
    /\ \A i \in 1 .. Len(wire[t]) - 1 : wire[t][i].type \notin ConcludingTypes
    /\ pc[t] \in {"executing", "failing"} => wire[t] = <<>>
    /\ pc[t] \in {"streaming", "sending"} =>
            IF validator[t].terminal_seen THEN Concluded(t) ELSE Silent(t)
    /\ pc[t] = "reported" => Concluded(t)
    /\ pc[t] = "releasing" /\ open[t] => Concluded(t)
    /\ pc[t] \in Holding => Honest(t)

AnswerInv == \A t \in Tasks : AnswerOf(t)

\* A step that changes one task only has to be looked at for that task.
LEMMA OneTaskAnswers ==
    ASSUME AnswerInv, NEW t \in Tasks, AnswerOf(t)',
           \A u \in Tasks \ {t} :
                /\ pc'[u] = pc[u] /\ open'[u] = open[u] /\ wire'[u] = wire[u]
                /\ given'[u] = given[u] /\ validator'[u] = validator[u]
    PROVE  AnswerInv'
BY DEF AnswerInv, AnswerOf, Silent, Honest, Concluded

\* The name of an event's frame: it is a completion only for a completion,
\* and it is never the type of a refusal.
LEMMA FrameNames ==
    ASSUME NEW e \in CanonicalEvent
    PROVE  /\ to_responses_wire(e).type # "error"
           /\ to_responses_wire(e).type = "response.completed" =>
                e = ResponseCompleted(to_responses_wire(e).id)
<1>1. e.type \in ItemEventTypes \cup {"response_created", "response_completed",
                    "response_incomplete", "response_failed"}
  BY DEF CanonicalEvent, ResponseCreated, ItemEvent, ResponseCompleted,
         ResponseIncomplete, ResponseFailed, Event
<1>2. /\ to_responses_wire(e).type = responses_event_name(e)
      /\ to_responses_wire(e).id = e.response_id
  BY DEF to_responses_wire
<1>3. e.type = "response_completed" => e = ResponseCompleted(e.response_id)
  BY DEF CanonicalEvent, ResponseCreated, ItemEvent, ResponseCompleted,
         ResponseIncomplete, ResponseFailed, Event, ItemEventTypes
<1> QED
  BY <1>1, <1>2, <1>3 DEF ItemEventTypes, responses_event_name

\* Only a completion of the source is handed on as a completion.
LEMMA CompletionIsGiven ==
    ASSUME NEW v \in ValidatorState, NEW item \in Item, NEW id,
           Emitted(v, item) = ResponseCompleted(id)
    PROVE  item = OkItem(ResponseCompleted(id))
<1>1. item \in Item /\ Item = {OkItem(e) : e \in ProviderEvents}
                \cup {ErrItem(e) : e \in ProviderErrors} \cup {Eof}
  BY DEF Item, Items
<1>2. CASE \E e \in ProviderEvents : item = OkItem(e)
  BY <1>2 DEF OkItem, Emitted
<1>3. CASE \E e \in ProviderErrors : item = ErrItem(e)
  <2>1. Emitted(v, item) = failure_event(item.error, v.response_id)
    BY <1>3 DEF ErrItem, Emitted
  <2> QED
    BY <2>1 DEF failure_event, ResponseFailed, ResponseCompleted, Event
<1>4. CASE item = Eof
  <2>1. Emitted(v, item) = PrematureEof(v.response_id)
    BY <1>4 DEF Eof, Emitted
  <2> QED
    BY <2>1 DEF PrematureEof, ResponseFailed, ResponseCompleted, Event
<1> QED
  BY <1>1, <1>2, <1>3, <1>4

\* A relayed item leaves the answer in order.
LEMMA RelayAnswers ==
    ASSUME TypeInv, AnswerInv, NEW t \in Tasks, NEW item \in Item, Relay(t, item)
    PROVE  AnswerInv'
<1> DEFINE event == Emitted(validator[t], item)
           frame == to_responses_wire(event)
           state == Observed(validator[t], item)
<1>1. /\ event \in CanonicalEvent
      /\ state.terminal_seen <=> frame.type \in TerminalFrames
  <2>1. validator[t] \in ValidatorState
    BY DEF TypeInv, TypeOK
  <2> QED
    BY <2>1, ItemIsAnyItem, ValidatorStep DEF Concludes
<1>2. /\ frame.type # "error"
      /\ frame.type = "response.completed" =>
            item = OkItem(ResponseCompleted(frame.id))
  <2>1. validator[t] \in ValidatorState
    BY DEF TypeInv, TypeOK
  <2> QED
    BY <1>1, <2>1, FrameNames, CompletionIsGiven
<1>3. /\ pc[t] = "streaming" /\ Silent(t) /\ wire[t] \in Seq(WireFrame)
      /\ given' = [given EXCEPT ![t] = item]
      /\ wire' = [wire EXCEPT ![t] = Append(@, frame)]
      /\ validator' = [validator EXCEPT ![t] = state]
      /\ Goto(t, "sending") /\ UNCHANGED open
  BY DEF Relay, HandOver, AnswerInv, AnswerOf, TypeInv, TypeOK
<1> HIDE DEF event, frame, state
<1>4. /\ wire'[t] = Append(wire[t], frame) /\ pc'[t] = "sending"
      /\ validator'[t] = state /\ given'[t] = item
  BY <1>3 DEF Goto, TypeInv, TypeOK
<1>5. /\ Len(wire'[t]) = Len(wire[t]) + 1 /\ Len(wire[t]) \in Nat
      /\ wire'[t][Len(wire[t]) + 1] = frame /\ wire'[t] # <<>>
      /\ \A i \in 1 .. Len(wire[t]) : wire'[t][i] = wire[t][i]
  BY <1>3, <1>4
<1>6. \A i \in 1 .. Len(wire'[t]) - 1 : wire'[t][i].type \notin ConcludingTypes
  BY <1>3, <1>5 DEF Silent
<1>7. IF state.terminal_seen THEN Concluded(t)' ELSE Silent(t)'
  <2>1. CASE state.terminal_seen
    <3>1. wire'[t][Len(wire'[t])] = frame
      BY <1>5
    <3>2. frame.type \in TerminalFrames
      BY <1>1, <2>1
    <3> QED
      BY <1>5, <2>1, <3>1, <3>2 DEF Concluded
  <2>2. CASE ~state.terminal_seen
    <3>1. frame.type \notin ConcludingTypes
      BY <1>1, <1>2, <2>2 DEF ConcludingTypes
    <3> QED
      BY <1>5, <1>6, <2>2, <3>1 DEF Silent
  <2> QED
    BY <2>1, <2>2
<1>8. Honest(t)'
  <2>1. "response.completed" \in ConcludingTypes
    BY DEF ConcludingTypes, TerminalFrames
  <2> QED
    BY <1>2, <1>4, <1>5, <1>6, <2>1 DEF Honest
<1>9. AnswerOf(t)'
  BY <1>4, <1>6, <1>7, <1>8 DEF AnswerOf
<1> QED
  BY <1>3, <1>9, OneTaskAnswers DEF Goto, TypeInv, TypeOK

\* The failure of an execute is the whole answer.
LEMMA FailureAnswers ==
    ASSUME TypeInv, AnswerInv, NEW t \in Tasks, EmitFailure(t)
    PROVE  AnswerInv'
<1>1. PICK error \in ProviderErrors : given[t] = ErrItem(error)
  BY DEF EmitFailure, TypeInv
<1> DEFINE event == failure_event(error, NoId)
           frame == to_responses_wire(event)
<1>2. frame.type \in TerminalFrames /\ frame.type # "response.completed"
  <2>1. event \in CanonicalEvent /\ Concludes(event)
    BY ExecuteFailure
  <2>2. event # ResponseCompleted(frame.id)
    BY DEF failure_event, ResponseFailed, ResponseCompleted, Event
  <2> QED
    BY <2>1, <2>2, FrameNames DEF Concludes
<1>3. /\ pc[t] = "failing" /\ wire[t] = <<>>
      /\ UNCHANGED <<given, validator, open>>
      /\ wire' = [wire EXCEPT ![t] = Append(@, frame)]
      /\ Goto(t, "reported")
  BY <1>1 DEF EmitFailure, HandOver, AnswerInv, AnswerOf, ErrItem
<1> HIDE DEF frame
<1>4. wire'[t] = <<frame>> /\ pc'[t] = "reported"
  BY <1>3 DEF Goto, TypeInv, TypeOK
<1>5. AnswerOf(t)'
  BY <1>2, <1>4 DEF AnswerOf, Concluded, Honest
<1> QED
  BY <1>3, <1>5, OneTaskAnswers DEF Goto, TypeInv, TypeOK

LEMMA AnswerInvInductive ==
    ASSUME TypeInv, AnswerInv, [Next]_vars
    PROVE  AnswerInv'
<1>1. CASE UNCHANGED vars
  BY <1>1 DEF vars, AnswerInv, AnswerOf, Silent, Honest, Concluded
<1>2. ASSUME NEW t \in Tasks, Connect(t) PROVE AnswerInv'
  <2>1. AnswerOf(t)'
    BY <1>2
    DEF Connect, Goto, AnswerInv, AnswerOf, Holding, Working, TypeInv, TypeOK
  <2> QED
    BY <1>2, <2>1, OneTaskAnswers DEF Connect, Goto, TypeInv, TypeOK
<1>3. ASSUME NEW t \in Tasks, Disconnect(t) PROVE AnswerInv'
  BY <1>3 DEF Disconnect, AnswerInv, AnswerOf, Silent, Honest, Concluded
<1>4. ASSUME NEW t \in Tasks, Close(t), UNCHANGED <<validator, given>>
      PROVE  AnswerInv'
  <2>1. AnswerOf(t)'
    BY <1>4 DEF Close, Goto, AnswerOf, Holding, Working, TypeInv, TypeOK
  <2> QED
    BY <1>4, <2>1, OneTaskAnswers DEF Close, Goto, TypeInv, TypeOK
<1>5. ASSUME NEW t \in Tasks, CloseIdle(t) PROVE AnswerInv'
  BY <1>4, <1>5 DEF CloseIdle
<1>6. ASSUME NEW t \in Tasks, DropRequest(t) PROVE AnswerInv'
  <2>1. /\ pc'[t] = "releasing" /\ ~open'[t] /\ pc[t] \in Holding
        /\ wire'[t] = wire[t] /\ given'[t] = given[t]
    BY <1>6 DEF DropRequest, Droppable, Goto, Holding, Working, TypeInv, TypeOK
  <2>2. AnswerOf(t)'
    BY <2>1 DEF AnswerInv, AnswerOf, Honest
  <2> QED
    BY <1>6, <2>2, OneTaskAnswers DEF DropRequest, Goto, TypeInv, TypeOK
<1>7. ASSUME NEW t \in Tasks, NEW code, Reply(t, code) PROVE AnswerInv'
  <2>1. CASE /\ wire' = [wire EXCEPT ![t] = <<Refusal(code)>>]
             /\ UNCHANGED <<pc, connected, open>>
    <3>1. pc'[t] = "idle" /\ wire'[t] = <<Refusal(code)>>
      BY <1>7, <2>1 DEF Reply, Receives, TypeInv, TypeOK
    <3>2. AnswerOf(t)'
      BY <3>1 DEF AnswerOf, Holding, Working
    <3> QED
      BY <1>7, <2>1, <3>2, OneTaskAnswers DEF Reply, TypeInv, TypeOK
  <2>2. CASE Close(t)
    BY <1>4, <1>7, <2>2 DEF Reply
  <2> QED
    BY <1>7, <2>1, <2>2 DEF Reply
<1>8. ASSUME NEW t \in Tasks, NEW key \in TurnKeys(t), Accept(t, key)
      PROVE  AnswerInv'
  <2>1. pc'[t] = "executing" /\ wire'[t] = <<>>
    BY <1>8 DEF Accept, Goto, TypeInv, TypeOK
  <2>2. AnswerOf(t)'
    BY <2>1 DEF AnswerOf, Honest
  <2> QED
    BY <1>8, <2>2, OneTaskAnswers DEF Accept, Goto, TypeInv, TypeOK
<1>9. ASSUME NEW t \in Tasks, ExecuteOk(t) PROVE AnswerInv'
  <2>1. /\ pc'[t] = "streaming" /\ wire'[t] = <<>>
        /\ ~validator'[t].terminal_seen
    BY <1>9 DEF ExecuteOk, Goto, AnswerInv, AnswerOf, FreshValidator,
                TypeInv, TypeOK
  <2>2. AnswerOf(t)'
    BY <2>1 DEF AnswerOf, Silent, Honest
  <2> QED
    BY <1>9, <2>2, OneTaskAnswers DEF ExecuteOk, Goto, TypeInv, TypeOK
<1>10. ASSUME NEW t \in Tasks, NEW error \in ProviderErrors, ExecuteErr(t, error)
       PROVE  AnswerInv'
  <2>1. pc'[t] = "failing" /\ wire'[t] = <<>>
    BY <1>10 DEF ExecuteErr, Goto, AnswerInv, AnswerOf, TypeInv, TypeOK
  <2>2. AnswerOf(t)'
    BY <2>1 DEF AnswerOf, Honest
  <2> QED
    BY <1>10, <2>2, OneTaskAnswers DEF ExecuteErr, Goto, TypeInv, TypeOK
<1>11. ASSUME NEW t \in Tasks, EndStream(t) PROVE AnswerInv'
  <2>1. /\ pc'[t] = "releasing" /\ pc[t] = "streaming"
        /\ wire'[t] = wire[t] /\ given'[t] = given[t] /\ Concluded(t)
    BY <1>11
    DEF EndStream, StreamOver, Goto, AnswerInv, AnswerOf, TypeInv, TypeOK
  <2>2. AnswerOf(t)'
    BY <2>1 DEF AnswerInv, AnswerOf, Honest, Holding, Working, Concluded
  <2> QED
    BY <1>11, <2>2, OneTaskAnswers DEF EndStream, Goto, TypeInv, TypeOK
<1>12. ASSUME NEW t \in Tasks, Release(t) PROVE AnswerInv'
  <2>1. given' = [given EXCEPT ![t] = NoItem] /\ validator' = validator
    BY <1>12 DEF Release
  <2>2. CASE Goto(t, "idle") /\ UNCHANGED <<connected, open, wire>>
    <3>1. AnswerOf(t)'
      BY <2>2 DEF Goto, AnswerInv, AnswerOf, Holding, Working, TypeInv, TypeOK
    <3> QED
      BY <2>1, <2>2, <3>1, OneTaskAnswers DEF Goto, TypeInv, TypeOK
  <2>3. CASE Close(t)
    <3>1. AnswerOf(t)'
      BY <2>3 DEF Close, Goto, AnswerOf, Holding, Working, TypeInv, TypeOK
    <3> QED
      BY <2>1, <2>3, <3>1, OneTaskAnswers DEF Close, Goto, TypeInv, TypeOK
  <2> QED
    BY <1>12, <2>2, <2>3 DEF Release
<1>13. CASE Restart
  BY <1>13 DEF Restart, AnswerInv, AnswerOf, Holding, Working, Silent, Honest
<1>14. ASSUME NEW t \in Tasks, Sent(t) PROVE AnswerInv'
  <2>1. /\ wire'[t] = wire[t] /\ given'[t] = given[t] /\ pc[t] \in Holding
        /\ validator'[t] = validator[t]
        /\ \/ pc[t] = "sending" /\ pc'[t] = "streaming"
           \/ pc[t] = "reported" /\ pc'[t] = "releasing"
    BY <1>14 DEF Sent, Taking, Goto, Holding, Working, TypeInv, TypeOK
  <2>2. AnswerOf(t)'
    BY <2>1 DEF AnswerInv, AnswerOf, Honest, Silent, Concluded
  <2> QED
    BY <1>14, <2>2, OneTaskAnswers DEF Sent, Goto, TypeInv, TypeOK
<1>15. ASSUME NEW t \in Tasks, SendBreaks(t) PROVE AnswerInv'
  <2>1. /\ pc'[t] = "releasing" /\ ~open'[t] /\ pc[t] \in Holding
        /\ wire'[t] = wire[t] /\ given'[t] = given[t]
    BY <1>15 DEF SendBreaks, Taking, Goto, Holding, Working, TypeInv, TypeOK
  <2>2. AnswerOf(t)'
    BY <2>1 DEF AnswerInv, AnswerOf, Honest
  <2> QED
    BY <1>15, <2>2, OneTaskAnswers DEF SendBreaks, Goto, TypeInv, TypeOK
<1> QED
  BY <1>1, <1>2, <1>3, <1>5, <1>6, <1>7, <1>8, <1>9, <1>10, <1>11, <1>12, <1>13,
     <1>14, <1>15, RelayAnswers, FailureAnswers
  DEF Next, Step, ReplyWithoutTurn, RejectDuplicate

LEMMA AnswerInvHolds == Steps => []AnswerInv
<1>1. Init => AnswerInv
  BY DEF Init, AnswerInv, AnswerOf, Holding, Working
<1> QED
  BY <1>1, AnswerInvInductive, TypeInvHolds, PTL DEF Steps

LEMMA AnswersConclude == AnswerInv => AnsweredOnce /\ NoFabricatedSuccess
BY DEF AnswerInv, AnswerOf, AnsweredOnce, Concluded, Honest, NoFabricatedSuccess

\* No answer has two conclusions or goes on after one, and no turn ends
\* silently on a connection that stays.
THEOREM AnsweredOnceHolds == Spec => []AnsweredOnce
BY SpecSteps, AnswersConclude, AnswerInvHolds, PTL

\* A client reads a completion only when the provider completed that turn.
THEOREM NoFabricatedSuccessHolds == Spec => []NoFabricatedSuccess
BY SpecSteps, AnswersConclude, AnswerInvHolds, PTL
=============================================================================

----------------------- MODULE ValidatedStreamProofs -----------------------
(***************************************************************************)
(* Proofs about the validated stream, for every provider, every set of     *)
(* response ids and streams of every length.                               *)
(***************************************************************************)
EXTENDS ValidatedStream, EventValidatorProofs

-----------------------------------------------------------------------------
\* What this provider answers is an item of the validator's lemmas.
LEMMA ItemIsAnyItem == Item \subseteq AnyItem
BY ProviderAssumption DEF Item, AnyItem, Items

-----------------------------------------------------------------------------
\* Spec without its fairness: what a composition with these steps implements.
Steps == Init /\ [][Next]_vars

LEMMA SpecSteps == Spec => Steps
BY PTL DEF Spec, Steps

LEMMA TypeSteps == Steps => []TypeOK
<1>1. Init => TypeOK
  BY DEF Init, TypeOK, FreshValidator, ValidatorState
<1>2. TypeOK /\ [Next]_vars => TypeOK'
  <2> SUFFICES ASSUME TypeOK, [Next]_vars PROVE TypeOK'
    OBVIOUS
  <2>1. ASSUME NEW item \in Item, PollSource(item) PROVE TypeOK'
    <3>1. /\ Observed(validator, item) \in ValidatorState
          /\ Emitted(validator, item) \in CanonicalEvent
      BY ItemIsAnyItem, ValidatorStep DEF TypeOK
    <3> QED
      BY <2>1, <3>1 DEF PollSource, TypeOK
  <2>2. CASE PollEnd
    BY <2>2 DEF PollEnd, TypeOK
  <2>3. CASE DropStream
    BY <2>3 DEF DropStream, TypeOK
  <2>4. CASE UNCHANGED vars
    BY <2>4 DEF vars, TypeOK
  <2> QED
    BY <2>1, <2>2, <2>3, <2>4 DEF Next
<1> QED
  BY <1>1, <1>2, PTL DEF Steps

\* The variables keep their types in every behaviour.
THEOREM TypeCorrect == Spec => []TypeOK
BY TypeSteps, SpecSteps, PTL

-----------------------------------------------------------------------------
(* The flag of the validator says whether the last event concludes the     *)
(* turn.  With that, OneTerminalLast becomes inductive.                    *)

StreamInv ==
    /\ Len(out) = Len(polled)
    /\ \A i \in 1 .. Len(polled) : EndsTurn(polled[i]) <=> Concludes(out[i])
    /\ \A i \in 1 .. Len(out) - 1 : ~Concludes(out[i])
    /\ validator.terminal_seen <=> out # <<>> /\ Concludes(out[Len(out)])
    /\ phase = "exhausted" => validator.terminal_seen

LEMMA StreamInvInductive ==
    ASSUME TypeOK, StreamInv, [Next]_vars
    PROVE  StreamInv'
<1>1. ASSUME NEW item \in Item, PollSource(item) PROVE StreamInv'
  <2> DEFINE event == Emitted(validator, item)
  <2>1. /\ event \in CanonicalEvent
        /\ Observed(validator, item).terminal_seen <=> Concludes(event)
    BY ItemIsAnyItem, ValidatorStep DEF TypeOK
  <2>2. /\ phase = "open" /\ ~validator.terminal_seen
        /\ polled' = Append(polled, item)
        /\ out' = Append(out, event)
        /\ validator' = Observed(validator, item)
        /\ phase' = phase
    BY <1>1 DEF PollSource
  <2>3. EndsTurn(item) <=> Concludes(event)
    BY <2>1 DEF Observed
  <2> HIDE DEF event
  <2>4. \A i \in 1 .. Len(out) : ~Concludes(out[i])
    BY <2>2 DEF StreamInv, TypeOK
  <2>5. /\ Len(out') = Len(out) + 1 /\ out'[Len(out) + 1] = event
        /\ \A i \in 1 .. Len(out) : out'[i] = out[i]
    BY <2>1, <2>2 DEF TypeOK
  <2>6. /\ Len(polled') = Len(polled) + 1 /\ polled'[Len(polled) + 1] = item
        /\ \A i \in 1 .. Len(polled) : polled'[i] = polled[i]
    BY <2>2 DEF TypeOK
  <2>7. Len(out') = Len(polled')
    BY <2>5, <2>6 DEF StreamInv
  <2>8. \A i \in 1 .. Len(polled') : EndsTurn(polled'[i]) <=> Concludes(out'[i])
    <3> SUFFICES ASSUME NEW i \in 1 .. Len(polled')
                 PROVE  EndsTurn(polled'[i]) <=> Concludes(out'[i])
      OBVIOUS
    <3>1. CASE i = Len(polled) + 1
      BY <2>3, <2>5, <2>6, <3>1 DEF StreamInv
    <3>2. CASE i \in 1 .. Len(polled)
      BY <2>5, <2>6, <3>2 DEF StreamInv
    <3> QED
      BY <2>6, <3>1, <3>2 DEF TypeOK
  <2>9. \A i \in 1 .. Len(out') - 1 : ~Concludes(out'[i])
    BY <2>4, <2>5 DEF TypeOK
  <2>10. validator'.terminal_seen <=> out' # <<>> /\ Concludes(out'[Len(out')])
    BY <2>1, <2>2, <2>5 DEF TypeOK
  <2> QED
    BY <2>2, <2>7, <2>8, <2>9, <2>10 DEF StreamInv
<1>2. CASE PollEnd
  BY <1>2 DEF PollEnd, StreamInv
<1>3. CASE DropStream
  BY <1>3 DEF DropStream, StreamInv
<1>4. CASE UNCHANGED vars
  BY <1>4 DEF vars, StreamInv
<1> QED
  BY <1>1, <1>2, <1>3, <1>4 DEF Next

LEMMA StreamSteps == Steps => [](TypeOK /\ StreamInv)
<1>1. Init => StreamInv
  BY DEF Init, StreamInv, FreshValidator
<1> QED
  BY <1>1, StreamInvInductive, TypeSteps, PTL DEF Steps

LEMMA StreamInvHolds == Spec => [](TypeOK /\ StreamInv)
BY StreamSteps, SpecSteps, PTL

LEMMA TerminalSteps == Steps => []OneTerminalLast
<1>1. StreamInv => OneTerminalLast
  BY DEF StreamInv, OneTerminalLast
<1> QED
  BY <1>1, StreamSteps, PTL

\* Nothing follows a terminal event, and a stream that ends has ended with one.
THEOREM OneTerminalLastHolds == Spec => []OneTerminalLast
BY TerminalSteps, SpecSteps, PTL

\* The source is not polled after it has ended, failed or concluded the turn.
THEOREM NeverPolledAfterEndHolds == Spec => NeverPolledAfterEnd
<1>1. TypeOK /\ StreamInv /\ [Next]_vars =>
        [polled' # polled =>
            \A i \in DOMAIN polled : /\ polled[i].tag = "ok"
                                     /\ ~Concludes(polled[i].event)]_vars
  <2> SUFFICES ASSUME TypeOK, StreamInv, [Next]_vars, polled' # polled,
                      NEW i \in DOMAIN polled
               PROVE  /\ polled[i].tag = "ok"
                      /\ ~Concludes(polled[i].event)
    OBVIOUS
  <2>1. ~validator.terminal_seen
    BY DEF Next, PollSource, PollEnd, DropStream, vars
  <2>2. ~EndsTurn(polled[i])
    BY <2>1 DEF StreamInv, TypeOK
  <2>3. polled[i] \in Item
    BY DEF TypeOK
  <2> QED
    BY <2>2, <2>3, ItemIsAnyItem, ItemShape, TerminalConcludes DEF EndsTurn
<1> QED
  BY <1>1, StreamInvHolds, PTL DEF Spec, NeverPolledAfterEnd

\* The events of a validated stream are a turn stream: TurnStream's promise
\* holds for every provider.
THEOREM ImplementsTurnStreamHolds == Spec => ImplementsTurnStream
<1>1. Init => Turn!Init
  BY DEF Init, Turn!Init
<1>2. TypeOK /\ StreamInv /\ [Next]_vars => [Turn!Next]_(Turn!streamVars)
  <2> SUFFICES ASSUME TypeOK, StreamInv, [Next]_vars
               PROVE  [Turn!Next]_(Turn!streamVars)
    OBVIOUS
  <2>0. validator.terminal_seen <=> Turn!Concluded
    BY DEF StreamInv, TypeOK, Turn!Concluded
  <2>1. ASSUME NEW item \in Item, PollSource(item) PROVE Turn!Emit
    <3>1. Emitted(validator, item) \in CanonicalEvent
      BY ItemIsAnyItem, ValidatorStep DEF TypeOK
    <3> QED
      BY <2>0, <2>1, <3>1 DEF PollSource, Turn!Emit
  <2>2. CASE PollEnd
    BY <2>0, <2>2 DEF PollEnd, Turn!Next, Turn!End
  <2>3. CASE DropStream
    BY <2>3 DEF DropStream, Turn!Next, Turn!Abandon
  <2>4. CASE UNCHANGED vars
    BY <2>4 DEF vars, Turn!streamVars
  <2> QED
    BY <2>1, <2>2, <2>3, <2>4 DEF Next, Turn!Next
<1> QED
  BY <1>1, <1>2, StreamInvHolds, PTL DEF Spec, ImplementsTurnStream, Turn!Spec

-----------------------------------------------------------------------------
(* Faithfulness: the remembered id is the one told last, so the validator  *)
(* says of every answer what the reference says from the whole history.    *)

\* A longer history does not change what was told before a position of it.
LEMMA ToldBefore ==
    ASSUME NEW items \in Seq(Item), NEW item \in Item,
           NEW i \in 1 .. Len(items) + 1, NEW id
    PROVE  ToldLast(Append(items, item), i, id) <=> ToldLast(items, i, id)
<1> DEFINE more == Append(items, item)
<1>1. \A j \in 1 .. i - 1 : more[j] = items[j]
  OBVIOUS
<1> HIDE DEF more
<1>2. Told(more, i) = Told(items, i) /\ Told(items, i) \subseteq 1 .. i - 1
  BY <1>1 DEF Told
<1>3. ToldLast(more, i, id) <=> ToldLast(items, i, id)
  BY <1>1, <1>2 DEF ToldLast
<1> QED
  BY <1>3 DEF more

\* What is expected of an answer does not depend on the answers after it.
LEMMA ExpectedBefore ==
    ASSUME NEW items \in Seq(Item), NEW item \in Item,
           NEW i \in 1 .. Len(items), NEW event
    PROVE  Expected(Append(items, item), i, event) <=> Expected(items, i, event)
<1>1. Append(items, item)[i] = items[i]
  OBVIOUS
<1>2. ToldLast(Append(items, item), i, event.response_id)
        <=> ToldLast(items, i, event.response_id)
  BY ToldBefore
<1>3. items[i].tag \in {"ok", "err", "eof"}
  BY ItemIsAnyItem, ItemShape
<1>4. CASE items[i].tag = "ok"
  BY <1>1, <1>4 DEF Expected
<1>5. CASE items[i].tag = "err"
  BY <1>1, <1>2, <1>5 DEF Expected
<1>6. CASE items[i].tag = "eof"
  BY <1>1, <1>2, <1>6 DEF Expected
<1> QED
  BY <1>3, <1>4, <1>5, <1>6

\* The id the validator remembers after an item is the one told last.
LEMMA RememberedIsToldLast ==
    ASSUME NEW items \in Seq(Item), NEW item \in Item, NEW v \in ValidatorState,
           ToldLast(items, Len(items) + 1, v.response_id)
    PROVE  ToldLast(Append(items, item), Len(items) + 2, Remembered(v, item))
<1> DEFINE more == Append(items, item)
           n == Len(items)
           tells == item.tag = "ok" /\ response_id(item.event) # NoId
<1>0. n \in Nat /\ more[n + 1] = item /\ \A j \in 1 .. n : more[j] = items[j]
  OBVIOUS
<1> HIDE DEF more, n
<1>1. ToldLast(more, n + 1, v.response_id)
  BY <1>0, ToldBefore DEF more, n
<1>2. /\ Told(more, n + 1) \subseteq 1 .. n
      /\ Told(more, n + 2) = Told(more, n + 1) \cup (IF tells THEN {n + 1} ELSE {})
  BY <1>0 DEF Told
<1>3. CASE tells
  <2>1. /\ n + 1 \in Told(more, n + 2)
        /\ \A k \in Told(more, n + 2) : k <= n + 1
    BY <1>0, <1>2, <1>3
  <2>2. Remembered(v, item) = response_id(more[n + 1].event)
    BY <1>0, <1>3 DEF Remembered
  <2> QED
    BY <2>1, <2>2 DEF ToldLast, more, n
<1>4. CASE ~tells
  <2>1. Told(more, n + 2) = Told(more, n + 1)
    BY <1>2, <1>4
  <2>2. Remembered(v, item) = v.response_id
    BY <1>4 DEF Remembered
  <2>3. ToldLast(more, n + 2, v.response_id)
    BY <1>1, <2>1 DEF ToldLast
  <2> QED
    BY <2>2, <2>3 DEF more, n
<1> QED
  BY <1>3, <1>4

\* What the validator hands out is what is expected of the new answer.
LEMMA EmittedIsExpected ==
    ASSUME NEW items \in Seq(Item), NEW item \in Item, NEW v \in ValidatorState,
           ToldLast(items, Len(items) + 1, v.response_id)
    PROVE  Expected(Append(items, item), Len(items) + 1, Emitted(v, item))
<1> DEFINE more == Append(items, item)
           n == Len(items) + 1
<1>1. more[n] = item
  OBVIOUS
<1>2. ToldLast(more, n, v.response_id)
  BY ToldBefore
<1> HIDE DEF more, n
<1>3. CASE item.tag = "ok"
  BY <1>1, <1>3 DEF Expected, Emitted, more, n
<1>4. CASE item.tag = "err"
  <2>1. Emitted(v, item) = failure_event(item.error, v.response_id)
    BY <1>4 DEF Emitted
  <2>2. Emitted(v, item).response_id = v.response_id
    BY <2>1 DEF failure_event, ResponseFailed, Event
  <2>3. Expected(more, n, Emitted(v, item))
    BY <1>1, <1>2, <1>4, <2>1, <2>2 DEF Expected
  <2> QED
    BY <2>3 DEF more, n
<1>5. CASE item.tag = "eof"
  <2>1. Emitted(v, item) = PrematureEof(v.response_id)
    BY <1>5 DEF Emitted
  <2>2. Emitted(v, item).response_id = v.response_id
    BY <2>1 DEF PrematureEof, ResponseFailed, Event
  <2>3. Expected(more, n, Emitted(v, item))
    BY <1>1, <1>2, <1>5, <2>1, <2>2 DEF Expected
  <2> QED
    BY <2>3 DEF more, n
<1> QED
  BY <1>3, <1>4, <1>5, ItemIsAnyItem, ItemShape

RelayInv ==
    /\ FaithfulRelay
    /\ ToldLast(polled, Len(polled) + 1, validator.response_id)

LEMMA RelayInvInductive ==
    ASSUME TypeOK, RelayInv, [Next]_vars
    PROVE  RelayInv'
<1>1. ASSUME NEW item \in Item, PollSource(item) PROVE RelayInv'
  <2>1. /\ polled' = Append(polled, item)
        /\ out' = Append(out, Emitted(validator, item))
        /\ validator' = Observed(validator, item)
    BY <1>1 DEF PollSource
  <2>2. /\ polled \in Seq(Item) /\ validator \in ValidatorState
        /\ out \in Seq(CanonicalEvent) /\ Len(out) = Len(polled)
        /\ Len(polled') = Len(polled) + 1 /\ Len(out') = Len(out) + 1
    BY <2>1 DEF TypeOK, RelayInv, FaithfulRelay
  <2>3. ToldLast(polled, Len(polled) + 1, validator.response_id)
    BY DEF RelayInv
  <2>4. validator'.response_id = Remembered(validator, item)
    BY <2>1 DEF Observed
  <2>5. ToldLast(polled', Len(polled) + 2, validator'.response_id)
    BY <2>1, <2>2, <2>3, <2>4, RememberedIsToldLast
  <2>6. ASSUME NEW i \in 1 .. Len(polled) PROVE Expected(polled', i, out'[i])
    <3>1. out'[i] = out[i] /\ Expected(polled, i, out[i])
      BY <2>1, <2>2 DEF RelayInv, FaithfulRelay
    <3> QED
      BY <2>1, <2>2, <3>1, ExpectedBefore
  <2>7. Expected(polled', Len(polled) + 1, out'[Len(polled) + 1])
    <3>1. out'[Len(polled) + 1] = Emitted(validator, item)
      BY <2>1, <2>2
    <3> QED
      BY <2>1, <2>2, <2>3, <3>1, EmittedIsExpected
  <2>8. FaithfulRelay'
    BY <2>2, <2>6, <2>7 DEF FaithfulRelay
  <2>9. Len(polled') + 1 = Len(polled) + 2
    BY <2>2
  <2> QED
    BY <2>5, <2>8, <2>9 DEF RelayInv
<1>2. CASE PollEnd
  BY <1>2 DEF PollEnd, RelayInv, FaithfulRelay
<1>3. CASE DropStream
  BY <1>3 DEF DropStream, RelayInv, FaithfulRelay
<1>4. CASE UNCHANGED vars
  BY <1>4 DEF vars, RelayInv, FaithfulRelay
<1> QED
  BY <1>1, <1>2, <1>3, <1>4 DEF Next

LEMMA FaithfulSteps == Steps => []FaithfulRelay
<1>1. Init => RelayInv
  BY DEF Init, RelayInv, FaithfulRelay, ToldLast, Told, FreshValidator
<1>2. RelayInv => FaithfulRelay
  BY DEF RelayInv
<1> QED
  BY <1>1, <1>2, RelayInvInductive, TypeSteps, PTL DEF Steps

\* The consumer sees what the source answered, in order and unaltered, and a
\* failure in place of an error or of a premature end, for the response told
\* last.
THEOREM FaithfulRelayHolds == Spec => []FaithfulRelay
BY FaithfulSteps, SpecSteps, PTL
=============================================================================

------------------------- MODULE TurnDecodingProofs -------------------------
(***************************************************************************)
(* from_responses_request against the reference, for request bodies of any *)
(* shape and size.                                                         *)
(***************************************************************************)
EXTENDS TurnDecoding, TLAPS

-----------------------------------------------------------------------------
(* The chain of options, step by step, is what the reference reads.        *)

LEMMA FieldRead ==
    ASSUME NEW json, NEW key
    PROVE  get(as_object({json}), key) = Field(json, key)
BY DEF get, as_object, Field

LEMMA TextRead ==
    ASSUME NEW json, NEW key
    PROVE  non_empty(optional_string(as_object({json}), key)) # None
              <=> HasText(json, key)
<1>1. optional_string(as_object({json}), key) = as_str(Field(json, key))
  BY FieldRead DEF optional_string
<1> QED
  BY <1>1 DEF as_str, non_empty, None, HasText

\* Metadata that is absent counts as an object without fields.
LEMMA MetadataRead ==
    ASSUME NEW body
    PROVE  /\ get(as_object(client_metadata(body)), "x-codex-turn-metadata")
                 = Sent(body)
           /\ as_object(client_metadata(body)) = None => Sent(body) = {}
<1> DEFINE found == Field(body, "client_metadata")
<1>1. client_metadata(body) = IF found = {} THEN {EmptyObject} ELSE found
  BY FieldRead DEF client_metadata, or_else, None
<1>2. CASE found = {}
  <2>1. get(as_object({EmptyObject}), "x-codex-turn-metadata") = {}
    BY DEF get, as_object, EmptyObject, Obj
  <2>2. as_object({EmptyObject}) # {}
    <3>1. EmptyObject.kind = "object"
      BY DEF EmptyObject, Obj
    <3>2. EmptyObject.fields \in as_object({EmptyObject})
      BY <3>1 DEF as_object
    <3> QED
      BY <3>2
  <2> QED
    BY <1>1, <1>2, <2>1, <2>2 DEF Sent, None
<1>3. CASE found # {}
  <2>1. PICK metadata : found = {metadata}
    BY <1>3 DEF Field
  <2>2. Sent(body) = Field(metadata, "x-codex-turn-metadata")
    BY <2>1 DEF Sent
  <2>3. client_metadata(body) = {metadata}
    BY <1>1, <2>1
  <2>4. as_object({metadata}) = None =>
           Field(metadata, "x-codex-turn-metadata") = {}
    BY DEF as_object, None, Field
  <2> QED
    BY <2>2, <2>3, <2>4, FieldRead
<1> QED
  BY <1>2, <1>3

LEMMA TurnRead ==
    ASSUME NEW body
    PROVE  turn_object(body) = {turn.fields : turn \in CarriedTurns(body)}
<1>1. turn_object(body) = as_object(parsed_turn_metadata(Sent(body)))
  BY MetadataRead DEF turn_object
<1>2. ASSUME NEW j
      PROVE  j \in parsed_turn_metadata(Sent(body)) /\ j.kind = "object"
                <=> j \in CarriedTurns(body)
  BY DEF parsed_turn_metadata, CarriedTurns, None
<1> QED
  BY <1>1, <1>2 DEF as_object, CarriedTurns

\* What an optional string of the turn comes to.
LEMMA TurnText ==
    ASSUME NEW body, NEW key
    PROVE  optional_string(turn_object(body), key) =
              UNION {as_str(Field(turn, key)) : turn \in CarriedTurns(body)}
<1>1. \A turn \in CarriedTurns(body) : turn.kind = "object"
  BY DEF CarriedTurns
<1>2. get(turn_object(body), key) =
         UNION {Field(turn, key) : turn \in CarriedTurns(body)}
  BY <1>1, TurnRead DEF get, Field
<1> QED
  BY <1>2 DEF optional_string, as_str

\* A body carries at most one turn.
LEMMA OneTurn ==
    ASSUME NEW body \in Requests
    PROVE  \A one, other \in CarriedTurns(body) : one = other
<1>1. \A one, other \in Sent(body) : one = other
  BY DEF Sent, Field
<1> QED
  BY <1>1, RequestsAssumption DEF CarriedTurns

LEMMA OnlyTurn ==
    ASSUME NEW body \in Requests, NEW turn \in CarriedTurns(body), NEW key
    PROVE  optional_string(turn_object(body), key) = as_str(Field(turn, key))
<1>1. CarriedTurns(body) = {turn}
  BY OneTurn
<1> QED
  BY <1>1, TurnText

-----------------------------------------------------------------------------
(* The early returns.                                                      *)

\* The reason of a refusal, and what an acceptance keeps, in the terms of the
\* reference.
LEMMA Decoding ==
    ASSUME NEW body
    PROVE  LET decoded == from_responses_request(body)
               named   == \E turn \in CarriedTurns(body) : HasText(turn, "turn_id")
           IN  /\ decoded.ok <=> HasText(body, "model") /\ named
               /\ ~decoded.ok /\ decoded.error = "MissingTurnMetadata" =>
                     HasText(body, "model") /\ Sent(body) = {}
               /\ ~decoded.ok /\ decoded.error = "MissingTurnId" =>
                     /\ HasText(body, "model")
                     /\ CarriedTurns(body) # {} /\ ~named
               /\ decoded.ok =>
                     /\ decoded.identity.thread_id
                           = optional_string(turn_object(body), "thread_id")
                     /\ decoded.identity.turn_id = non_empty(
                           optional_string(turn_object(body), "turn_id"))
                     /\ decoded.identity.parent_thread_id
                           = parent_thread_id(body)
<1> DEFINE model    == non_empty(optional_string(as_object({body}), "model"))
           metadata == as_object(client_metadata(body))
           turn_id  == non_empty(optional_string(turn_object(body), "turn_id"))
           named    == \E turn \in CarriedTurns(body) : HasText(turn, "turn_id")
           sent     == get(metadata, "x-codex-turn-metadata")
<1>1. model # None <=> HasText(body, "model")
  BY TextRead
<1>2. as_object({body}) = None => ~HasText(body, "model")
  BY DEF as_object, None, HasText, Field
<1>3. sent = Sent(body) /\ (metadata = None => Sent(body) = {})
  BY MetadataRead
<1>4. turn_object(body) = None <=> CarriedTurns(body) = {}
  BY TurnRead DEF None
<1>5. turn_id # None <=> named
  <2>1. turn_id = (UNION {as_str(Field(turn, "turn_id")) :
                             turn \in CarriedTurns(body)}) \ {""}
    BY TurnText DEF non_empty
  <2>2. \A turn : as_str(Field(turn, "turn_id")) \ {""} # {}
                     <=> HasText(turn, "turn_id")
    BY DEF as_str, HasText
  <2>3. ASSUME named PROVE turn_id # {}
    <3>1. PICK turn \in CarriedTurns(body) : HasText(turn, "turn_id")
      BY <2>3
    <3>2. PICK text : text \in as_str(Field(turn, "turn_id")) \ {""}
      BY <2>2, <3>1
    <3> QED
      BY <2>1, <3>2
  <2>4. ASSUME turn_id # {} PROVE named
    <3>1. PICK text : text \in turn_id
      BY <2>4
    <3>2. PICK turn \in CarriedTurns(body) :
             text \in as_str(Field(turn, "turn_id")) /\ text # ""
      BY <2>1, <3>1
    <3> QED
      BY <2>2, <3>2
  <2> QED
    BY <2>3, <2>4 DEF None
<1>6. Sent(body) = {} => CarriedTurns(body) = {}
  BY DEF CarriedTurns
<1> HIDE DEF model, metadata, turn_id, named, sent
<1>7. from_responses_request(body) =
        IF as_object({body}) = None THEN Rejected("InvalidRequestRoot")
        ELSE IF model = None THEN Rejected("MissingModel")
        ELSE IF metadata = None THEN Rejected("InvalidClientMetadata")
        ELSE IF sent = None THEN Rejected("MissingTurnMetadata")
        ELSE IF turn_object(body) = None THEN Rejected("InvalidTurnMetadata")
        ELSE IF turn_id = None THEN Rejected("MissingTurnId")
        ELSE [ok |-> TRUE, requested_model |-> model, identity |->
                [thread_id |-> optional_string(turn_object(body), "thread_id"),
                 turn_id |-> turn_id,
                 parent_thread_id |-> parent_thread_id(body),
                 request_kind |-> optional_string(turn_object(body),
                                                  "request_kind")]]
  BY DEF from_responses_request, model, metadata, turn_id, sent
<1>8. /\ named => CarriedTurns(body) # {}
      /\ None = {}
  BY DEF named, None
<1> QED
  BY <1>1, <1>2, <1>3, <1>4, <1>5, <1>6, <1>7, <1>8 DEF Rejected, turn_id, named

\* Every outcome is the decoding of the request.
LEMMA OutcomeDecodes ==
    Spec => [](request \in Requests /\ outcome = from_responses_request(request))
<1> DEFINE Inv == request \in Requests /\ outcome = from_responses_request(request)
<1>1. Init => Inv
  BY DEF Init
<1>2. Inv /\ [Next]_vars => Inv'
  BY DEF Next, Resend, vars
<1> QED
  BY <1>1, <1>2, PTL DEF Spec

\* For every request body: it is accepted if and only if it names a model and
\* carries a turn that is named, in either form.
THEOREM AcceptedIffTurnNamedHolds == Spec => []AcceptedIffTurnNamed
<1>1. outcome = from_responses_request(request) => AcceptedIffTurnNamed
  BY Decoding DEF AcceptedIffTurnNamed
<1> QED
  BY OutcomeDecodes, <1>1, PTL

\* For every request body: a client is asked for turn metadata only for want
\* of it.
THEOREM AskedForMetadataOnlyWhenMissingHolds ==
    Spec => []AskedForMetadataOnlyWhenMissing
<1>1. outcome = from_responses_request(request) => AskedForMetadataOnlyWhenMissing
  <2> SUFFICES ASSUME outcome = from_responses_request(request), ~outcome.ok,
                      turn_error_code(outcome.error) # "invalid_request"
               PROVE  /\ HasText(request, "model")
                      /\ \/ \E turn \in CarriedTurns(request) :
                                ~HasText(turn, "turn_id")
                         \/ Sent(request) = {}
    BY DEF AskedForMetadataOnlyWhenMissing
  <2>1. outcome.error \in {"MissingTurnMetadata", "MissingTurnId"}
    BY DEF turn_error_code
  <2> QED
    BY <2>1, Decoding
<1> QED
  BY OutcomeDecodes, <1>1, PTL

\* For every request body: the turn's own parent is its parent.
THEOREM OwnParentWinsHolds == Spec => []OwnParentWins
<1>1. request \in Requests /\ outcome = from_responses_request(request)
         => OwnParentWins
  <2> SUFFICES ASSUME request \in Requests,
                      outcome = from_responses_request(request), outcome.ok,
                      NEW turn \in CarriedTurns(request),
                      NEW p \in Field(turn, "parent_thread_id"),
                      p.kind = "string"
               PROVE  outcome.identity.parent_thread_id = {p.text}
    BY DEF OwnParentWins
  <2>1. outcome.identity.parent_thread_id = parent_thread_id(request)
    BY Decoding
  <2>2. optional_string(turn_object(request), "parent_thread_id") = {p.text}
    <3>1. Field(turn, "parent_thread_id") = {p}
      BY DEF Field
    <3> QED
      BY <3>1, OnlyTurn DEF as_str
  <2> QED
    BY <2>1, <2>2 DEF parent_thread_id, or_else, None
<1> QED
  BY OutcomeDecodes, <1>1, PTL

\* For every two bodies that carry one turn, whatever else is in them: the
\* lease registry gets one key.
THEOREM RepeatKeepsTurnKeyHolds == Spec => RepeatKeepsTurnKey
<1> DEFINE Step == outcome.ok /\ outcome'.ok =>
                      TurnKeyOf(outcome.identity) = TurnKeyOf(outcome'.identity)
<1>1. ASSUME request \in Requests, outcome = from_responses_request(request), Next
      PROVE  Step
  <2>1. /\ request' \in Requests /\ SameTurn(request, request')
        /\ outcome' = from_responses_request(request')
    BY <1>1 DEF Next, Resend
  <2>2. PICK turn : turn \in CarriedTurns(request) /\ turn \in CarriedTurns(request')
    BY <2>1 DEF SameTurn
  <2>3. \A key : /\ optional_string(turn_object(request), key)
                       = as_str(Field(turn, key))
                 /\ optional_string(turn_object(request'), key)
                       = as_str(Field(turn, key))
    BY <1>1, <2>1, <2>2, OnlyTurn
  <2>4. ASSUME outcome.ok, outcome'.ok
        PROVE  TurnKeyOf(outcome.identity) = TurnKeyOf(outcome'.identity)
    <3>1. TurnKeyOf(outcome.identity) =
            [thread_id |-> optional_string(turn_object(request), "thread_id"),
             turn_id |-> non_empty(optional_string(turn_object(request), "turn_id"))]
      BY <1>1, <2>4, Decoding DEF TurnKeyOf
    <3>2. TurnKeyOf(outcome'.identity) =
            [thread_id |-> optional_string(turn_object(request'), "thread_id"),
             turn_id |-> non_empty(optional_string(turn_object(request'), "turn_id"))]
      BY <2>1, <2>4, Decoding DEF TurnKeyOf
    <3> QED
      BY <2>3, <3>1, <3>2
  <2> QED
    BY <2>4
<1>2. (request \in Requests /\ outcome = from_responses_request(request))
         /\ [Next]_vars => [Step]_vars
  BY <1>1
<1> QED
  BY OutcomeDecodes, <1>2, PTL DEF Spec, RepeatKeepsTurnKey
=============================================================================

---------------------------- MODULE TurnDecoding ----------------------------
(***************************************************************************)
(* A client sends a request, the daemon decodes it, and the client sends   *)
(* the same turn again in another shape: metadata encoded or structured,   *)
(* another model, another parent header.  The lease registry compares the  *)
(* identities of the two, so decoding must not depend on the shape.        *)
(***************************************************************************)
EXTENDS TurnEnvelope

CONSTANT Requests  \* the request bodies that clients send

VARIABLES request, outcome

vars == <<request, outcome>>

Init == /\ request \in Requests
        /\ outcome = from_responses_request(request)

(* The reference: what the client sent, read off the body without the      *)
(* order and the early returns of the code.                                *)

Field(json, key) ==
    IF json.kind = "object" /\ key \in DOMAIN json.fields
    THEN {json.fields[key]} ELSE {}

HasText(json, key) ==
    \E v \in Field(json, key) : v.kind = "string" /\ v.text # ""

Sent(body) == UNION {Field(metadata, "x-codex-turn-metadata") :
                        metadata \in Field(body, "client_metadata")}

\* The turn metadata object of a body, sent encoded or as it is.
CarriedTurns(body) ==
    {turn \in Sent(body) \cup UNION {s.decoded : s \in {v \in Sent(body) :
                                                        v.kind = "string"}} :
        turn.kind = "object"}

\* An assumption of JSON itself: a string parses into one value, if any.
ASSUME RequestsAssumption ==
    \A body \in Requests : \A v \in Sent(body) :
        v.kind = "string" => \A one, other \in v.decoded : one = other

SameTurn(body, other) == CarriedTurns(body) \cap CarriedTurns(other) # {}

\* The same turn, sent again in another shape.
Resend == /\ \E other \in Requests : /\ SameTurn(request, other)
                                     /\ request' = other
          /\ outcome' = from_responses_request(request')

Next == Resend

Spec == Init /\ [][Next]_vars

-----------------------------------------------------------------------------
\* A request is accepted exactly when it names a model and carries, encoded
\* or structured, a turn metadata object that names its turn: nothing else
\* the body holds can make it acceptable or refuse it (protocol lib.rs:44-82).
AcceptedIffTurnNamed ==
    outcome.ok <=> /\ HasText(request, "model")
                   /\ \E turn \in CarriedTurns(request) :
                        HasText(turn, "turn_id")

\* A client that is refused is asked for turn metadata only when the turn is
\* not named although everything before it in the body is in order
\* (daemon lib.rs:404-411, protocol lib.rs:65-82).
AskedForMetadataOnlyWhenMissing ==
    (~outcome.ok /\ turn_error_code(outcome.error) # "invalid_request") =>
        /\ HasText(request, "model")
        /\ \/ \E turn \in CarriedTurns(request) : ~HasText(turn, "turn_id")
           \/ Sent(request) = {}

\* However the client shapes a repeated turn, and whatever model it asks for,
\* the lease registry gets the same key: the metadata-loss bugs of
\* docs/ARCHITECTURE.md:78-81 would show as a repeat under another key.
RepeatKeepsTurnKey ==
    [][outcome.ok /\ outcome'.ok =>
            TurnKeyOf(outcome.identity) = TurnKeyOf(outcome'.identity)]_vars

\* The parent of a turn is the one its own metadata names, whatever the
\* request's header field says (protocol lib.rs:84-89).
OwnParentWins ==
    outcome.ok =>
        \A turn \in CarriedTurns(request) :
            \A p \in Field(turn, "parent_thread_id") :
                p.kind = "string" =>
                    outcome.identity.parent_thread_id = {p.text}
=============================================================================

---------------------------- MODULE TurnEnvelope ----------------------------
(***************************************************************************)
(* TurnEnvelope::from_responses_request (crates/protocol/src/lib.rs): how  *)
(* a Responses request body becomes a turn with a native Codex identity.   *)
(*                                                                         *)
(* A JSON value is an object, a string or something else (null, number,    *)
(* boolean, array).  A string is its text plus what serde_json parses it   *)
(* into.  An Option is a set of at most one element, so that a chain of    *)
(* and_then, map and filter is a chain of set constructors.  trace_id is   *)
(* random, and input, tools and raw_request are copied unread: left out.   *)
(***************************************************************************)
EXTENDS FiniteSets

None == {}

Obj(fields)   == [kind |-> "object", fields |-> fields]
Str(text)     == [kind |-> "string", text |-> text, decoded |-> None]
Encoded(json) == [kind |-> "string", text |-> "encoded", decoded |-> {json}]
OtherJson     == [kind |-> "other"]

\* The object without fields.
EmptyObject == Obj([f \in {} |-> OtherJson])

as_object(option) == {j.fields : j \in {x \in option : x.kind = "object"}}
as_str(option)    == {j.text : j \in {x \in option : x.kind = "string"}}
get(objects, key) == {o[key] : o \in {x \in objects : key \in DOMAIN x}}

non_empty(option) == option \ {""}

optional_string(objects, key) == as_str(get(objects, key))

\* Mutant of parsed_turn_metadata: only the encoded form is understood.
parsed_turn_metadata_EncodedOnly(encoded_turn) ==
    UNION {IF j.kind = "string" THEN j.decoded ELSE None : j \in encoded_turn}

\* A string is parsed, an object is taken as it is; the rest, and a string
\* that is not JSON, end as a value that is not an object.
parsed_turn_metadata(encoded_turn) ==
    UNION {IF j.kind = "string" THEN j.decoded ELSE {j} : j \in encoded_turn}

or_else(option, other) == IF option = None THEN other ELSE option

Rejected(error) == [ok |-> FALSE, error |-> error]

-----------------------------------------------------------------------------
client_metadata(raw_request) ==
    or_else(get(as_object({raw_request}), "client_metadata"), {EmptyObject})

turn_object(raw_request) ==
    as_object(parsed_turn_metadata(
        get(as_object(client_metadata(raw_request)),
            "x-codex-turn-metadata")))

\* Mutant of parent_thread_id: the header field wins over the turn's own.
parent_thread_id_HeaderFirst(raw_request) ==
    or_else(optional_string(as_object(client_metadata(raw_request)),
                            "x-codex-parent-thread-id"),
            optional_string(turn_object(raw_request), "parent_thread_id"))

parent_thread_id(raw_request) ==
    or_else(optional_string(turn_object(raw_request), "parent_thread_id"),
            optional_string(as_object(client_metadata(raw_request)),
                            "x-codex-parent-thread-id"))

\* The early returns in the order of the code, then the envelope.
from_responses_request(raw_request) ==
    LET object   == as_object({raw_request})
        model    == non_empty(optional_string(object, "model"))
        metadata == as_object(client_metadata(raw_request))
        turn     == turn_object(raw_request)
        turn_id  == non_empty(optional_string(turn, "turn_id"))
    IN  IF object = None THEN Rejected("InvalidRequestRoot")
        ELSE IF model = None THEN Rejected("MissingModel")
        ELSE IF metadata = None THEN Rejected("InvalidClientMetadata")
        ELSE IF get(metadata, "x-codex-turn-metadata") = None
             THEN Rejected("MissingTurnMetadata")
        ELSE IF turn = None THEN Rejected("InvalidTurnMetadata")
        ELSE IF turn_id = None THEN Rejected("MissingTurnId")
        ELSE [ok |-> TRUE,
              requested_model |-> model,
              identity |->
                [thread_id        |-> optional_string(turn, "thread_id"),
                 turn_id          |-> turn_id,
                 parent_thread_id |-> parent_thread_id(raw_request),
                 request_kind     |-> optional_string(turn, "request_kind")]]

\* Mutant of turn_error_code: metadata of any wrong form counts as missing.
turn_error_code_AnyMetadata(error) ==
    IF error \in {"MissingTurnMetadata", "MissingTurnId",
                  "InvalidTurnMetadata"}
    THEN "native_turn_metadata_required"
    ELSE "invalid_request"

\* The code a client is told for each of the errors (daemon).
turn_error_code(error) ==
    IF error \in {"MissingTurnMetadata", "MissingTurnId"}
    THEN "native_turn_metadata_required"
    ELSE "invalid_request"

\* Mutant of TurnKeyOf: the key is the identity as a whole.
TurnKeyOf_WholeIdentity(identity) == identity

\* The part of the identity that names the turn in the lease registry.
TurnKeyOf(identity) ==
    [thread_id |-> identity.thread_id, turn_id |-> identity.turn_id]
=============================================================================

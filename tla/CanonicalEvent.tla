--------------------------- MODULE CanonicalEvent ---------------------------
(***************************************************************************)
(* The typed events every provider emits (crates/protocol/src/lib.rs) and  *)
(* their serialization to Responses frames.  Texts, item ids, arguments    *)
(* and messages are left out: no property tells them apart.  What stays is *)
(* what decides the control flow of the daemon: the variant, the response  *)
(* id it carries, and the code and retryable flag of a failure.            *)
(***************************************************************************)
EXTENDS FiniteSets

CONSTANTS
    ResponseIds,  \* the response ids providers hand out
    NoId          \* Option::None of a response id

ASSUME NoIdAssumption == NoId \notin ResponseIds

ItemEventTypes == {"output_item_added", "text_delta", "function_call",
                   "output_item_done"}

\* NoCode fills the field `code` of the events that are not failures.
NoCode == "no_code"

FailureCode == {"auth_required", "rate_limited", "quota_exhausted",
                "security_challenge", "model_unavailable",
                "dom_contract_changed", "provider_timeout",
                "transport_failed", "continuation_missing",
                "invalid_provider_response", "cancelled"}

\* One record shape for every variant of the enum.
Event(type, id, code, retryable) ==
    [type |-> type, response_id |-> id, code |-> code,
     retryable |-> retryable]

ResponseCreated(id)    == Event("response_created", id, NoCode, FALSE)
ItemEvent(type)        == Event(type, NoId, NoCode, FALSE)
ResponseCompleted(id)  == Event("response_completed", id, NoCode, FALSE)
ResponseIncomplete(id) == Event("response_incomplete", id, NoCode, FALSE)
ResponseFailed(id, code, retryable) ==
    Event("response_failed", id, code, retryable)

CanonicalEvent ==
    {ResponseCreated(id) : id \in ResponseIds}
    \cup {ItemEvent(type) : type \in ItemEventTypes}
    \cup {ResponseCompleted(id) : id \in ResponseIds}
    \cup {ResponseIncomplete(id) : id \in ResponseIds \cup {NoId}}
    \cup {ResponseFailed(id, code, r) :
            id \in ResponseIds \cup {NoId}, code \in FailureCode,
            r \in BOOLEAN}

\* Mutant of is_terminal: the variant without a failure code is forgotten.
is_terminal_MissesIncomplete(event) ==
    event.type \in {"response_completed", "response_failed"}

is_terminal(event) ==
    event.type \in {"response_completed", "response_failed",
                    "response_incomplete"}

\* The variants without a response id carry NoId.
response_id(event) == event.response_id

responses_event_name(event) ==
    CASE event.type = "response_created"    -> "response.created"
      [] event.type = "output_item_added"   -> "response.output_item.added"
      [] event.type = "text_delta"          -> "response.output_text.delta"
      [] event.type = "function_call"       -> "response.output_item.done"
      [] event.type = "output_item_done"    -> "response.output_item.done"
      [] event.type = "response_completed"  -> "response.completed"
      [] event.type = "response_failed"     -> "response.failed"
      [] event.type = "response_incomplete" -> "response.incomplete"

\* The frame of an event: its wire name, the id the client learns, and for a
\* failure the code and the retryable flag.
to_responses_wire(event) ==
    [type |-> responses_event_name(event), id |-> event.response_id,
     code |-> event.code, retryable |-> event.retryable]

\* The frames after which a Responses client expects nothing more, by name:
\* what "terminal" means to the reader of the stream.
TerminalFrames ==
    {"response.completed", "response.failed", "response.incomplete"}

Concludes(event) == to_responses_wire(event).type \in TerminalFrames

-----------------------------------------------------------------------------
(* ProviderError::Classified and its conversion to an event. *)

ProviderError == [code : FailureCode, retryable : BOOLEAN]

failure_event(error, id) == ResponseFailed(id, error.code, error.retryable)
=============================================================================

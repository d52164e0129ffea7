--------------------------- MODULE HttpApiDecoder ---------------------------
(***************************************************************************)
(* The pure parts of HttpApiProvider (crates/provider-api/src/lib.rs): how *)
(* a status and an SSE frame of the upstream are classified, and the       *)
(* credential lookup (crates/credentials/src/lib.rs) with its errors.      *)
(*                                                                         *)
(* A frame keeps what the decoder branches on: whether its data is blank,  *)
(* the [DONE] marker, no JSON or JSON without a type; otherwise its type,  *)
(* the response id at response.id (NoId: absent or no string), whether the *)
(* other strings its type requires are there, and whether an item is a     *)
(* function call.                                                          *)
(***************************************************************************)
EXTENDS EventValidator

classified(code, retryable) == [code |-> code, retryable |-> retryable]

-----------------------------------------------------------------------------
\* Statuses by the classes status_error tells apart.
Statuses == {"2xx", "401", "403", "408", "429", "5xx", "other"}

\* Mutant of status_error: a timeout of the upstream is an answer like others.
status_error_TimeoutIsFinal(status) ==
    CASE status \in {"401", "403"}   -> classified("auth_required", FALSE)
      [] status = "429"              -> classified("rate_limited", TRUE)
      [] status = "5xx"              -> classified("transport_failed", TRUE)
      [] status \in {"408", "other"} ->
            classified("invalid_provider_response", FALSE)

\* Mutant of status_error: a refused credential may be retried.
status_error_RetriesAuth(status) ==
    CASE status \in {"401", "403"} -> classified("auth_required", TRUE)
      [] status = "429"            -> classified("rate_limited", TRUE)
      [] status \in {"408", "5xx"} -> classified("transport_failed", TRUE)
      [] status = "other" -> classified("invalid_provider_response", FALSE)

status_error(status) ==
    CASE status \in {"401", "403"} -> classified("auth_required", FALSE)
      [] status = "429"            -> classified("rate_limited", TRUE)
      [] status \in {"408", "5xx"} -> classified("transport_failed", TRUE)
      [] status = "other" -> classified("invalid_provider_response", FALSE)

-----------------------------------------------------------------------------
Malformed == classified("invalid_provider_response", FALSE)
TransportFailed == classified("transport_failed", TRUE)

\* Types of the frames the decoder knows; "other" is every other type.
FrameTypes == {"response.created", "response.output_item.added",
               "response.output_text.delta", "response.output_item.done",
               "response.completed", "response.failed",
               "response.incomplete", "other"}

Frame(data, type, id, whole, call) ==
    [data |-> data, type |-> type, id |-> id, whole |-> whole, call |-> call]

\* What one SSE frame can say, and the two ways its connection can end.
Typed == {Frame("json", t, id, whole, call) : t \in FrameTypes,
             id \in ResponseIds \cup {NoId}, whole \in BOOLEAN,
             call \in BOOLEAN}
Untyped == {Frame(data, "other", NoId, FALSE, FALSE) :
              data \in {"blank", "done_marker", "not_json", "no_type"}}
Frames == Typed \cup Untyped

\* The filter_map over the SSE stream drops a Skip.
Skip == [tag |-> "skip"]

\* required_string at response.id.
WithId(frame, event) ==
    IF frame.id = NoId THEN ErrItem(Malformed) ELSE OkItem(event)

\* required_string at the other places: item ids, item types, deltas, calls.
WithStrings(frame, type) ==
    IF frame.whole THEN OkItem(ItemEvent(type)) ELSE ErrItem(Malformed)

decode_type(frame) ==
    CASE frame.type = "response.created" ->
            WithId(frame, ResponseCreated(frame.id))
      [] frame.type = "response.output_item.added" ->
            WithStrings(frame, "output_item_added")
      [] frame.type = "response.output_text.delta" ->
            WithStrings(frame, "text_delta")
      [] frame.type = "response.output_item.done" ->
            WithStrings(frame, IF frame.call THEN "function_call"
                               ELSE "output_item_done")
      [] frame.type = "response.completed" ->
            WithId(frame, ResponseCompleted(frame.id))
      [] frame.type = "response.failed" ->
            OkItem(ResponseFailed(frame.id, Malformed.code, FALSE))
      [] frame.type = "response.incomplete" ->
            OkItem(ResponseIncomplete(frame.id))
      [] frame.type = "other" -> Skip

\* Mutant of decode_responses_event: the [DONE] marker is bad data.
decode_responses_event_DoneIsBad(frame) ==
    CASE frame.data = "blank"                              -> Skip
      [] frame.data \in {"done_marker", "not_json", "no_type"} ->
            ErrItem(Malformed)
      [] frame.data = "json"                               -> decode_type(frame)

decode_responses_event(frame) ==
    CASE frame.data \in {"blank", "done_marker"} -> Skip
      [] frame.data \in {"not_json", "no_type"}  -> ErrItem(Malformed)
      [] frame.data = "json"                     -> decode_type(frame)

\* An answer of the SSE stream: a frame, or how the connection ended.
Broken == [data |-> "broken"]
Closed == [data |-> "closed"]

\* What the filter_map makes of an answer.
Decoded(answer) == IF answer = Broken THEN ErrItem(TransportFailed)
                   ELSE IF answer = Closed THEN Eof
                   ELSE decode_responses_event(answer)

\* Mutant of Filtered: an error of the decoder is filtered out like a Skip.
Filtered_DropsErrors(item) == item \in {Skip, ErrItem(Malformed)}

Filtered(item) == item = Skip

-----------------------------------------------------------------------------
(* The credential of a route. *)

\* References: two accounts, and the two ways a reference is malformed.
Accounts == {"account_a", "account_b"}
CredentialRefs == Accounts \cup {"bad_account", "other_scheme"}

\* What the blocking lookup in the OS store comes to.
StoreAnswers == {"secret", "empty_secret", "no_entry", "unavailable",
                 "task_failed"}

parse_keychain_ref(ref) == ref \in Accounts

\* What execute answers of itself, before it awaits anything: a protocol that
\* the adapter does not speak, a reference that does not parse.
RouteError(route) ==
    IF route.protocol = "anthropic_messages"
    THEN {classified("model_unavailable", FALSE)}
    ELSE IF ~parse_keychain_ref(route.credential_ref) THEN {Malformed} ELSE {}

\* The error of the lookup, none when it finds a secret.
credential_error(answer) ==
    IF answer = "secret" THEN {}
    ELSE IF answer = "task_failed" THEN {classified("transport_failed", FALSE)}
    ELSE {classified("auth_required", FALSE)}
=============================================================================

--------------------------- MODULE EventValidator ---------------------------
(***************************************************************************)
(* The state of validated_event_stream (crates/core/src/lib.rs) and what   *)
(* one poll of it does with the item the provider's stream answers.        *)
(* Whoever polls a validated stream composes these operators into an       *)
(* action: ValidatedStream on its own, ResponsesIngress inside the daemon. *)
(***************************************************************************)
EXTENDS CanonicalEvent

\* What source.next().await may return: Some(Ok(e)), Some(Err(e)) or None.
OkItem(event)  == [tag |-> "ok", event |-> event]
ErrItem(error) == [tag |-> "err", error |-> error]
Eof            == [tag |-> "eof"]

Items(events, errors) ==
    {OkItem(e) : e \in events} \cup {ErrItem(e) : e \in errors} \cup {Eof}

AnyItem == Items(CanonicalEvent, ProviderError)

ValidatorState ==
    [response_id : ResponseIds \cup {NoId}, terminal_seen : BOOLEAN]

FreshValidator == [response_id |-> NoId, terminal_seen |-> FALSE]

\* Mutant of PrematureEof: a code that is not in the enum of codes.
PrematureEof_UnknownCode(id) == ResponseFailed(id, "stream_ended", FALSE)

\* The failure that stands for a stream ending without a terminal event.
PrematureEof(id) == ResponseFailed(id, "invalid_provider_response", FALSE)

\* Mutant of Remembered: only the first id of the stream is remembered.
Remembered_First(v, item) ==
    IF item.tag = "ok" /\ v.response_id = NoId
    THEN response_id(item.event)
    ELSE v.response_id

\* The id the validator remembers once it has seen the item.
Remembered(v, item) ==
    IF item.tag = "ok" /\ response_id(item.event) # NoId
    THEN response_id(item.event)
    ELSE v.response_id

\* Mutant of EndsTurn: an error of the source leaves the stream open.
EndsTurn_NotOnError(item) ==
    item.tag = "eof" \/ (item.tag = "ok" /\ is_terminal(item.event))

EndsTurn(item) == item.tag = "ok" => is_terminal(item.event)

\* The state after a poll that the source answered with the item, and the
\* event that the poll hands downstream.
Observed(v, item) ==
    [response_id   |-> Remembered(v, item),
     terminal_seen |-> EndsTurn(item)]

\* Mutant of Emitted: the end of a stream that named its response counts as
\* the completion of that response.
Emitted_EofIsSuccess(v, item) ==
    CASE item.tag = "ok"  -> item.event
      [] item.tag = "err" -> failure_event(item.error, v.response_id)
      [] item.tag = "eof" -> IF v.response_id = NoId
                             THEN PrematureEof(v.response_id)
                             ELSE ResponseCompleted(v.response_id)

Emitted(v, item) ==
    CASE item.tag = "ok"  -> item.event
      [] item.tag = "err" -> failure_event(item.error, v.response_id)
      [] item.tag = "eof" -> PrematureEof(v.response_id)
=============================================================================

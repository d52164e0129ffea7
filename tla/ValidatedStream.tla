-------------------------- MODULE ValidatedStream --------------------------
(***************************************************************************)
(* validated_event_stream (crates/core/src/lib.rs) on its own: a provider  *)
(* stream that may answer anything at any poll, the validator around it,   *)
(* and a consumer that polls it to its end or drops it half way.           *)
(***************************************************************************)
EXTENDS Naturals, Sequences, EventValidator

CONSTANTS
    ProviderEvents,  \* the events this provider may yield
    ProviderErrors,  \* the errors this provider may yield
    MaxItems         \* bound: how many items the source is asked for

ASSUME ProviderAssumption ==
    /\ ProviderEvents \subseteq CanonicalEvent
    /\ ProviderErrors \subseteq ProviderError

ASSUME MaxItemsAssumption == MaxItems \in Nat

Item == Items(ProviderEvents, ProviderErrors)

VARIABLES
    polled,     \* history: every answer of the source, oldest first
    validator,  \* ValidatorState of the unfold
    out,        \* history: every event handed to the consumer
    phase       \* "open", "exhausted" or "dropped"

vars == <<polled, validator, out, phase>>

Init == /\ polled = <<>>
        /\ validator = FreshValidator
        /\ out = <<>>
        /\ phase = "open"

\* One poll of the unfold that reaches the source.
PollSource(item) ==
    /\ phase = "open"
    /\ ~validator.terminal_seen
    /\ Len(polled) < MaxItems
    /\ polled' = Append(polled, item)
    /\ validator' = Observed(validator, item)
    /\ out' = Append(out, Emitted(validator, item))
    /\ UNCHANGED phase

\* Mutant of PollEnd: the stream ends only when its source has ended.
PollEnd_AwaitsSource == /\ phase = "open"
                        /\ validator.terminal_seen
                        /\ polled[Len(polled)] = Eof
                        /\ phase' = "exhausted"
                        /\ UNCHANGED <<polled, validator, out>>

\* A poll after the terminal event: None, without a look at the source.
PollEnd == /\ phase = "open"
           /\ validator.terminal_seen
           /\ phase' = "exhausted"
           /\ UNCHANGED <<polled, validator, out>>

\* The consumer drops the stream, with the source in it.
DropStream == /\ phase = "open"
              /\ phase' = "dropped"
              /\ UNCHANGED <<polled, validator, out>>

Next == (\E item \in Item : PollSource(item)) \/ PollEnd \/ DropStream

\* A consumer that has the terminal event polls once more or drops the stream.
Spec == Init /\ [][Next]_vars /\ WF_vars(PollEnd)

-----------------------------------------------------------------------------
\* The history, the validator, the output and the phase keep their types.
TypeOK == /\ polled \in Seq(Item)
          /\ validator \in ValidatorState
          /\ out \in Seq(CanonicalEvent)
          /\ phase \in {"open", "exhausted", "dropped"}

-----------------------------------------------------------------------------
(* The reference the events are compared with: it reads the whole history  *)
(* of the source, where the code keeps one remembered id and one flag.     *)

\* The positions before i at which the source told a response id.
Told(items, i) == {j \in 1 .. i - 1 : /\ items[j].tag = "ok"
                                      /\ response_id(items[j].event) # NoId}

\* The id was told last before position i, or none was told.
ToldLast(items, i, id) ==
    \/ Told(items, i) = {} /\ id = NoId
    \/ \E j \in Told(items, i) : /\ \A k \in Told(items, i) : k <= j
                                 /\ id = response_id(items[j].event)

\* What the consumer should see of the i-th answer of the source.
Expected(items, i, event) ==
    CASE items[i].tag = "ok"  -> event = items[i].event
      [] items[i].tag = "err" ->
            /\ event = failure_event(items[i].error, event.response_id)
            /\ ToldLast(items, i, event.response_id)
      [] items[i].tag = "eof" ->
            /\ event = PrematureEof(event.response_id)
            /\ ToldLast(items, i, event.response_id)

\* The consumer gets one event per answer of the source, in its order and
\* unchanged when it is an event; an error or a premature end becomes a
\* failure of the response whose id the source told last (core lib.rs:80-107).
FaithfulRelay ==
    /\ Len(out) = Len(polled)
    /\ \A i \in 1 .. Len(out) : Expected(polled, i, out[i])

\* Nothing follows a terminal event, and a stream that ends by itself has
\* ended with one: there is never a silent end and never a second verdict
\* (core lib.rs:76-107, docs/ARCHITECTURE.md:99).
OneTerminalLast ==
    /\ \A i \in 1 .. Len(out) - 1 : ~Concludes(out[i])
    /\ phase = "exhausted" => out # <<>> /\ Concludes(out[Len(out)])

\* The source is not polled again once it has ended, failed or concluded the
\* turn: polling a finished stream is undefined for most of the adapters that
\* providers build theirs from (core lib.rs:76-78).
NeverPolledAfterEnd ==
    [][polled' # polled =>
         \A i \in DOMAIN polled : /\ polled[i].tag = "ok"
                                  /\ ~Concludes(polled[i].event)]_vars

\* Once the terminal event is out, the stream ends or is dropped whatever the
\* source does from then on, even when the source never answers another poll
\* (core lib.rs:76).
TerminalEndsStream ==
    (out # <<>> /\ Concludes(out[Len(out)])) ~> (phase # "open")

\* The events of the validated stream are a turn stream.
Turn == INSTANCE TurnStream
    WITH events <- out,
         Events <- CanonicalEvent,
         Terminals <- {e \in CanonicalEvent : Concludes(e)}
ImplementsTurnStream == Turn!Spec
=============================================================================

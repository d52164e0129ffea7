-------------------------- MODULE ResponsesIngress --------------------------
(***************************************************************************)
(* The Responses ingress of the daemon (crates/daemon/src/lib.rs): HTTP    *)
(* requests and WebSocket connections that share one registry of turn      *)
(* leases.  A task is one connection.  It admits a request, executes the   *)
(* provider, relays the validated events, and lets go of the lease; the    *)
(* client may vanish between any two steps.                                *)
(*                                                                         *)
(* The steps of a task are cut where the code may be interrupted while it  *)
(* holds a turn: at the wait for the provider, at the wait for the client  *)
(* to take what it is sent, and between the drop of the provider's stream  *)
(* and the drop of the lease, because other threads can run in between.  A *)
(* reply that takes no turn is one step with its send.  The daemon may be  *)
(* killed at any point and started again.                                  *)
(***************************************************************************)
EXTENDS Naturals, Sequences, EventValidator, TurnEnvelope

CONSTANTS
    HttpTasks,       \* connections that carry POST requests
    WsTasks,         \* connections that ask for a WebSocket upgrade
    Capabilities,    \* the capabilities that callers present
    Capability,      \* the one the daemon was started with
    Payloads,        \* the JSON bodies that callers send
    NotJson,         \* a body or text frame that is not JSON
    RoutableModels,  \* the models that the resolver has a provider for
    ProviderEvents,  \* the events that providers may yield
    ProviderErrors,  \* the errors that providers may answer
    MaxEvents,       \* bound: the non-terminal events of one turn
    NoTurn,          \* no lease
    NoItem           \* the provider has answered nothing yet

Tasks == HttpTasks \cup WsTasks

ASSUME ProviderAssumption ==
    /\ ProviderEvents \subseteq CanonicalEvent
    /\ ProviderErrors \subseteq ProviderError

ASSUME TasksAssumption == HttpTasks \cap WsTasks = {}

-----------------------------------------------------------------------------
(* Admission.  The checks before the registry read the message only, so    *)
(* they are functions of it: the code of the refusal, or Admissible.       *)

Admissible == "admissible"

KeyOf(body) == TurnKeyOf(from_responses_request(body).identity)

\* The envelope and the route, common to both transports.
TurnRefusal(body) ==
    LET turn == from_responses_request(body)
    IN  IF ~turn.ok THEN turn_error_code(turn.error)
        ELSE IF turn.requested_model \cap RoutableModels = {}
             THEN "model_not_routable"
        ELSE Admissible

\* axum's Json extractor refuses a body before the handler sees it.
HttpRefusal(capability, body) ==
    IF body = NotJson THEN "json_rejection"
    ELSE IF capability # Capability THEN "local_auth_required"
    ELSE TurnRefusal(body)

WsRefusal(body) ==
    IF body = NotJson THEN "invalid_request"
    ELSE IF optional_string(as_object({body}), "type") # {"response.create"}
         THEN "invalid_request_type"
    ELSE TurnRefusal(body)

Bodies == Payloads \cup {NotJson}

UpgradeRefusal(capability, beta) ==
    IF capability # Capability THEN "local_auth_required"
    ELSE IF ~beta THEN "websocket_beta_required"
    ELSE Admissible

HttpRefusals == {HttpRefusal(c, body) : c \in Capabilities, body \in Bodies}
                    \ {Admissible}

WsRefusals == {WsRefusal(body) : body \in Bodies} \ {Admissible}

\* Every reply that takes no turn: refused requests, and on a WebSocket the
\* answers to a ping and to a frame that is neither text nor control.
TurnlessReplies(t) ==
    IF t \in HttpTasks THEN HttpRefusals
    ELSE WsRefusals \cup {"pong", "unsupported_frame"}

HttpTurnKeys ==
    {KeyOf(body) : body \in {b \in Bodies : \E c \in Capabilities :
                                HttpRefusal(c, b) = Admissible}}

WsTurnKeys ==
    {KeyOf(body) : body \in {b \in Bodies : WsRefusal(b) = Admissible}}

\* The turns that an admissible message on the connection may name.
TurnKeys(t) == IF t \in HttpTasks THEN HttpTurnKeys ELSE WsTurnKeys

TurnKey == HttpTurnKeys \cup WsTurnKeys

\* NoTurn is no turn.
ASSUME NoTurnAssumption == NoTurn \notin TurnKey

-----------------------------------------------------------------------------
VARIABLES
    active,     \* TurnLeaseRegistry.active: the keys under a lease
    pc,         \* where each task is, see Phases
    lease,      \* the key of the TurnLease each task owns, or NoTurn
    connected,  \* whether the peer of each task is still there
    open,       \* whether the task goes on to another request afterwards
    validator,  \* ValidatorState of the stream each task polls
    given,      \* history: the provider's last answer in the running turn
    wire        \* history: the frames handed to the connection in the turn

taskVars == <<pc, connected, open, validator, given, wire>>
vars == <<active, pc, lease, connected, open, validator, given, wire>>

\* "closed": no connection; "idle": waits for a request; "executing": awaits
\* provider.execute; "streaming": polls the validated stream; "sending": an
\* event of it is on its way to the client; "failing": execute answered an
\* error; "reported": the event of that error is on its way; "releasing": the
\* provider's stream is dropped, the lease is about to be.
Phases == {"closed", "idle", "executing", "streaming", "sending", "failing",
           "reported", "releasing"}

Item == Items(ProviderEvents, ProviderErrors)

Init == /\ active = {}
        /\ pc = [t \in Tasks |-> "closed"]
        /\ lease = [t \in Tasks |-> NoTurn]
        /\ connected = [t \in Tasks |-> FALSE]
        /\ open = [t \in Tasks |-> FALSE]
        /\ validator = [t \in Tasks |-> FreshValidator]
        /\ given = [t \in Tasks |-> NoItem]
        /\ wire = [t \in Tasks |-> <<>>]

Goto(t, phase) == pc' = [pc EXCEPT ![t] = phase]

\* A reply that is not an event: one frame with a code.
Refusal(code) ==
    [type |-> "error", id |-> NoId, code |-> code, retryable |-> FALSE]

\* A write to a WebSocket whose peer is gone may fail, or may still succeed.
MayFailToSend(t) == t \in WsTasks /\ ~connected[t]

\* The connection of t is over, and with it the task.
Close(t) == /\ Goto(t, "closed")
            /\ connected' = [connected EXCEPT ![t] = FALSE]
            /\ open' = [open EXCEPT ![t] = FALSE]
            /\ wire' = [wire EXCEPT ![t] = <<>>]

\* Mutant of RegistryAtStart: the leases are kept over a restart, as the table
\* turn_leases of docs/ARCHITECTURE.md:214 would keep them.
RegistryAtStart_Kept == active

\* app makes a new registry.
RegistryAtStart == {}

\* The process is killed and main starts it again: no connection, no lease.
Restart ==
    /\ active' = RegistryAtStart
    /\ pc' = [t \in Tasks |-> "closed"]
    /\ lease' = [t \in Tasks |-> NoTurn]
    /\ connected' = [t \in Tasks |-> FALSE]
    /\ open' = [t \in Tasks |-> FALSE]
    /\ validator' = [t \in Tasks |-> FreshValidator]
    /\ given' = [t \in Tasks |-> NoItem]
    /\ wire' = [t \in Tasks |-> <<>>]

-----------------------------------------------------------------------------
(* The connection. *)

\* A new HTTP connection, or an accepted WebSocket upgrade.  A refused
\* upgrade leaves the connection closed.
Connect(t) ==
    /\ pc[t] = "closed"
    /\ t \in WsTasks => \E c \in Capabilities, beta \in BOOLEAN :
                            UpgradeRefusal(c, beta) = Admissible
    /\ Goto(t, "idle")
    /\ connected' = [connected EXCEPT ![t] = TRUE]
    /\ open' = [open EXCEPT ![t] = TRUE]
    /\ UNCHANGED <<active, lease, validator, given, wire>>

\* The peer goes away.  The task does not notice in this step.
Disconnect(t) ==
    /\ connected[t]
    /\ connected' = [connected EXCEPT ![t] = FALSE]
    /\ UNCHANGED <<active, pc, lease, open, validator, given, wire>>

\* A task that waits for a message reads the end of its connection instead.
CloseIdle(t) ==
    /\ pc[t] = "idle"
    /\ ~connected[t]
    /\ Close(t)
    /\ UNCHANGED <<active, lease, validator, given>>

\* Mutant of Droppable: execute runs in a task of its own, which outlives the
\* request and the lease with it.
Droppable_OnlyStreams == {"streaming", "sending", "failing", "reported"}

\* Where the handler of an HTTP request, or its body, can be dropped.
Droppable == {"executing", "streaming", "sending", "failing", "reported"}

\* hyper drops the handler or the body of a request whose peer is gone: the
\* future of provider.execute or the stream with the source in it goes first,
\* the lease afterwards.  A WebSocket task is not interrupted.
DropRequest(t) ==
    /\ t \in HttpTasks
    /\ pc[t] \in Droppable
    /\ ~connected[t]
    /\ Goto(t, "releasing")
    /\ open' = [open EXCEPT ![t] = FALSE]
    /\ validator' = [validator EXCEPT ![t] = FreshValidator]
    /\ UNCHANGED <<active, lease, connected, given, wire>>

-----------------------------------------------------------------------------
(* A message arrives.  A WebSocket task also reads the messages that a peer *)
(* sent before it went away.                                                *)

Receives(t) == pc[t] = "idle" /\ (t \in HttpTasks => connected[t])

\* A reply of one frame; a WebSocket task that cannot send it ends.
Reply(t, code) ==
    /\ Receives(t)
    /\ \/ /\ wire' = [wire EXCEPT ![t] = <<Refusal(code)>>]
          /\ UNCHANGED <<pc, connected, open>>
       \/ /\ MayFailToSend(t)
          /\ Close(t)
    /\ UNCHANGED <<active, lease, validator, given>>

ReplyWithoutTurn(t) == \E code \in TurnlessReplies(t) : Reply(t, code)

\* Mutant of Free: the answer of HashSet::insert is ignored.
Free_InsertIgnored(key) == TRUE

\* HashSet::insert finds no lease on the key.
Free(key) == key \notin active

RejectDuplicate(t, key) == /\ ~Free(key)
                           /\ Reply(t, "duplicate_turn_in_progress")

\* try_acquire inserts the key under the mutex, and provider.execute starts.
Accept(t, key) ==
    /\ Receives(t)
    /\ Free(key)
    /\ active' = active \cup {key}
    /\ lease' = [lease EXCEPT ![t] = key]
    /\ Goto(t, "executing")
    /\ wire' = [wire EXCEPT ![t] = <<>>]
    /\ UNCHANGED <<connected, open, validator, given>>

-----------------------------------------------------------------------------
(* The provider answers, and the events go to the client. *)

\* The frame is handed to the connection, which has to take it.
HandOver(t, event, phase) ==
    /\ wire' = [wire EXCEPT ![t] = Append(@, to_responses_wire(event))]
    /\ Goto(t, phase)

ExecuteOk(t) ==
    /\ pc[t] = "executing"
    /\ Goto(t, "streaming")
    /\ validator' = [validator EXCEPT ![t] = FreshValidator]
    /\ UNCHANGED <<active, lease, connected, open, given, wire>>

ExecuteErr(t, error) ==
    /\ pc[t] = "executing"
    /\ Goto(t, "failing")
    /\ given' = [given EXCEPT ![t] = ErrItem(error)]
    /\ UNCHANGED <<active, lease, connected, open, validator, wire>>

\* The one event of a failed execute.
EmitFailure(t) ==
    /\ pc[t] = "failing"
    /\ HandOver(t, failure_event(given[t].error, NoId), "reported")
    /\ UNCHANGED <<active, lease, connected, open, validator, given>>

\* The validated stream is polled and the source answers.
Relay(t, item) ==
    /\ pc[t] = "streaming"
    /\ ~validator[t].terminal_seen
    /\ EndsTurn(item) \/ Len(wire[t]) < MaxEvents
    /\ given' = [given EXCEPT ![t] = item]
    /\ validator' = [validator EXCEPT ![t] = Observed(validator[t], item)]
    /\ HandOver(t, Emitted(validator[t], item), "sending")
    /\ UNCHANGED <<active, lease, connected, open>>

\* The phases in which the client has a frame to take: socket.send is pending,
\* or hyper has no room to ask the body for more.
Taking == {"sending", "reported"}

\* The connection has taken the frame.  The stream is polled again; behind the
\* one event of a failed execute there is nothing.
Sent(t) ==
    /\ pc[t] \in Taking
    /\ Goto(t, IF pc[t] = "sending" THEN "streaming" ELSE "releasing")
    /\ UNCHANGED <<active, lease, connected, open, validator, given, wire>>

\* A WebSocket task that cannot send gives the turn up and will not go on to
\* another message.
SendBreaks(t) ==
    /\ pc[t] \in Taking
    /\ MayFailToSend(t)
    /\ Goto(t, "releasing")
    /\ validator' = [validator EXCEPT ![t] = FreshValidator]
    /\ open' = [open EXCEPT ![t] = FALSE]
    /\ UNCHANGED <<active, lease, connected, given, wire>>

\* Mutant of StreamOver: the source must end before the stream does.
StreamOver_AwaitsSource(t) ==
    pc[t] = "streaming" /\ validator[t].terminal_seen /\ given[t] = Eof

\* The next poll answers None.
StreamOver(t) == pc[t] = "streaming" /\ validator[t].terminal_seen

\* The poll after the terminal event: None.  The stream is dropped, and the
\* source with it.
EndStream(t) ==
    /\ StreamOver(t)
    /\ Goto(t, "releasing")
    /\ validator' = [validator EXCEPT ![t] = FreshValidator]
    /\ UNCHANGED <<active, lease, connected, open, given, wire>>

\* TurnLease::drop removes the key under the mutex.
WithoutLease(t) == active \ {lease[t]}

\* The TurnLease is dropped, and the task goes on to the next message or ends
\* with its connection.
Release(t) ==
    /\ pc[t] = "releasing"
    /\ active' = WithoutLease(t)
    /\ lease' = [lease EXCEPT ![t] = NoTurn]
    /\ given' = [given EXCEPT ![t] = NoItem]
    /\ IF open[t] THEN Goto(t, "idle") /\ UNCHANGED <<connected, open, wire>>
       ELSE Close(t)
    /\ UNCHANGED <<validator>>

-----------------------------------------------------------------------------
Step(t) ==
    \/ Connect(t) \/ Disconnect(t) \/ CloseIdle(t) \/ DropRequest(t)
    \/ ReplyWithoutTurn(t)
    \/ \E key \in TurnKeys(t) : RejectDuplicate(t, key) \/ Accept(t, key)
    \/ ExecuteOk(t)
    \/ \E error \in ProviderErrors : ExecuteErr(t, error)
    \/ EmitFailure(t)
    \/ \E item \in Item : Relay(t, item)
    \/ Sent(t) \/ SendBreaks(t)
    \/ EndStream(t)
    \/ Release(t)

Next == Restart \/ \E t \in Tasks : Step(t)

\* The runtime polls a task that is ready, hyper notices a peer that is gone,
\* and a write to one is over some day.  A client that is connected need not
\* read: nothing bounds the wait for it.
RuntimeFairness ==
    \A t \in Tasks : /\ WF_vars(DropRequest(t))
                     /\ WF_vars(EmitFailure(t))
                     /\ WF_vars(~connected[t] /\ (Sent(t) \/ SendBreaks(t)))
                     /\ WF_vars(EndStream(t))
                     /\ WF_vars(Release(t))

Spec == Init /\ [][Next]_vars /\ RuntimeFairness

Answer(t) == \/ ExecuteOk(t)
             \/ \E error \in ProviderErrors : ExecuteErr(t, error)
             \/ \E item \in Item : Relay(t, item)

\* A provider that answers every call and every poll, and concludes a turn
\* after at most MaxEvents other events.
ProviderFairness == \A t \in Tasks : WF_vars(Answer(t))

-----------------------------------------------------------------------------
WireFrame == {to_responses_wire(e) : e \in CanonicalEvent}
                 \cup {Refusal(code) : code \in {"duplicate_turn_in_progress"}
                            \cup UNION {TurnlessReplies(t) : t \in Tasks}}

\* Every variable keeps its type.
TypeOK ==
    /\ active \subseteq TurnKey
    /\ pc \in [Tasks -> Phases]
    /\ lease \in [Tasks -> TurnKey \cup {NoTurn}]
    /\ connected \in [Tasks -> BOOLEAN]
    /\ open \in [Tasks -> BOOLEAN]
    /\ validator \in [Tasks -> ValidatorState]
    /\ given \in [Tasks -> Item \cup {NoItem}]
    /\ wire \in [Tasks -> Seq(WireFrame)]

\* The phases in which the task owns a lease, and those in which the provider
\* may be at work for it: it holds the future of execute or a source.
Working == {"executing", "streaming", "sending"}
Holding == Working \cup {"failing", "reported", "releasing"}

\* The registry holds the keys of the living leases and no others, no two
\* tasks own a lease of one turn, and a task owns one exactly from its
\* admission to its release: no path of the handlers, no vanished client and no
\* restart leaks a key or frees it early (daemon lib.rs:59-106, 164-178, 286-325).
LeaseAccounting ==
    /\ active = {lease[t] : t \in Tasks} \ {NoTurn}
    /\ \A t, u \in Tasks : lease[t] = lease[u] /\ lease[t] # NoTurn => t = u
    /\ \A t \in Tasks : lease[t] # NoTurn <=> pc[t] \in Holding

\* The provider never works on one turn for two tasks at once, whatever the
\* transports and however a client disconnects and retries
\* (daemon lib.rs:365-373, test concurrent_duplicate_turn at 714).
NoOverlappingWork ==
    \A t, u \in Tasks :
        (t # u /\ pc[t] \in Working /\ pc[u] \in Working)
            => lease[t] # lease[u]

ConcludingTypes == TerminalFrames \cup {"error"}

\* The answer to a message has at most one conclusion, which is its last
\* frame, and a task that goes on to the next message has sent it: no turn
\* ends silently on a connection that stays (daemon lib.rs:164-178, 306-324).
AnsweredOnce ==
    \A t \in Tasks :
        /\ \A i \in 1 .. Len(wire[t]) - 1 : wire[t][i].type \notin ConcludingTypes
        /\ (pc[t] = "releasing" /\ open[t]) =>
              /\ wire[t] # <<>>
              /\ wire[t][Len(wire[t])].type \in TerminalFrames

\* A client reads a completion only when the provider's last answer in that
\* very turn was the completion of that response; an error, an end of stream
\* or a failed execute never looks like a success (docs/ARCHITECTURE.md:99).
NoFabricatedSuccess ==
    \A t \in Tasks : pc[t] \in Holding =>
        \A i \in 1 .. Len(wire[t]) :
            wire[t][i].type = "response.completed" =>
                /\ i = Len(wire[t])
                /\ given[t] = OkItem(ResponseCompleted(wire[t][i].id))

Concluded(t) == /\ wire[t] # <<>>
                /\ wire[t][Len(wire[t])].type \in TerminalFrames

\* The task waits for a client that is there to take a frame.
Stalled(t) == pc[t] \in Taking /\ connected[t]

\* A turn whose terminal event is out is free for a retry before long, even
\* when the provider's source hangs forever behind it; only a client that stays
\* and never takes that event keeps its turn (core lib.rs:76-78, daemon
\* lib.rs:313-325, 332, 369-371).
ConclusionFreesTurn ==
    \A t \in Tasks : (lease[t] # NoTurn /\ Concluded(t))
                        ~> (lease[t] = NoTurn \/ []Stalled(t))

\* A turn whose HTTP client is gone is free before long, whatever the provider
\* does: the client may retry it (daemon lib.rs:365-373).
HttpDisconnectFreesTurn ==
    \A t \in HttpTasks :
        (lease[t] # NoTurn /\ ~connected[t]) ~> (lease[t] = NoTurn)

\* With a provider that answers, every admitted turn is over some day, unless
\* its client stays and never takes what it is sent: the daemon bounds neither
\* wait, and there is no third (daemon lib.rs:164, 306-325, 332, 365-373).
EveryTurnEnds ==
    ProviderFairness =>
        \A t \in Tasks : (lease[t] # NoTurn)
                            ~> (lease[t] = NoTurn \/ []Stalled(t))

\* The tasks that work are those of the abstract specification.
Exclusion == INSTANCE TurnExclusion
    WITH Turns <- TurnKey,
         running <- {<<t, lease[t]>> : t \in {u \in Tasks : pc[u] \in Working}}
ImplementsTurnExclusion == Exclusion!Spec
=============================================================================

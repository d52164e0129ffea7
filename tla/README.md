# A verification development of Codex Unified

Codex Unified puts one local daemon between the Codex client and the model
providers it may use: HTTP APIs that speak the Responses protocol, and ChatGPT
in a browser. This directory models the control of that system in TLA+, checks
it with TLC on small instances and proves the central results with TLAPS for
every instance.

## The system

| part | state it keeps | operations | what makes it correct |
| --- | --- | --- | --- |
| canonical events (`crates/protocol`) | none | terminal status, response id, serialization to frames | the three kinds of end agree with the frames a client reads as an end |
| turn envelope (`crates/protocol`) | none | decode a request body | the shape of the metadata changes neither whether a turn is accepted nor its key |
| validated stream (`crates/core`) | remembered id, terminal flag | one poll | one conclusion, last; end of stream is never success; the source is left alone after its end |
| Responses ingress (`crates/daemon`) | registry of turn leases; per connection: lease, stream, socket | HTTP request, WebSocket frame, relay, drop | a turn is worked on once at a time, leases neither leak nor go early, every answer concludes once |
| route table, HTTP provider (`crates/provider-api`) | configured routes; per turn: request, SSE stream | resolve, execute, decode a frame | the request and its credential go to the only route that owns the model; the verdict is the upstream's; one exchange per turn, which ends with its turn or its client |
| credentials (`crates/credentials`) | none (the OS store is external) | resolve a reference | no secret, no request |
| browser session (`packages/browser-worker`) | state, revision | transitions, navigation, preflight | no work in a session that is not healthy; a revision names one state |
| worker RPC (`packages/browser-worker`, `schema`) | the capability; per request: bytes read | launch, health, session, turn | no worker and no answer without the secret; the session is judged at execution; the limit holds for the whole body; the guard takes what the schema admits |
| web provider (`crates/provider-web`) | a session state | preflight | agrees with the worker's preflight |
| state store (`crates/state`) | SQLite schema and version | open, migrate | no half of a migration, whoever races and wherever it is killed |

**Interaction.** A request reaches the daemon over HTTP or a WebSocket and is
decoded into an envelope; the resolver picks the provider by the model's prefix;
the registry grants a lease on `(thread_id, turn_id)`; the provider's stream is
wrapped into a validated stream, which the daemon relays while it holds the
lease. All connections share the registry, under one mutex. Providers share
nothing. The browser worker is a process of its own with one session, reached by
HTTP on loopback; the daemon does not call it yet. Nor does it open the state
store yet.

**Hard behaviours.** Connections run on several threads and are interrupted at
every await. A client may vanish at any point: an HTTP handler is dropped then,
a WebSocket handler is not. A client may also stay and never read. The daemon and
the worker may be killed at any point; neither keeps anything over a restart. A provider's stream may fail, end early, name
several ids, or hang. A body arrives in chunks while the session changes. An
open of the database may lose a race or be killed. `hazards` in `PROJECT.json`
lists these at their lines with the properties that catch them.

## Modules and the code they model

**`CanonicalEvent`** — the enum of events, `is_terminal`, `response_id`, the
frame of an event, `ProviderError::failure_event`. Texts, item ids and messages
are left out; variant, response id, failure code and retryable flag stay.
`Concludes` is the reader's notion of an end: the names of the terminal frames.

**`EventValidator`** — what `source.next().await` may return, and what one poll of
`validated_event_stream` does with it: `Observed` is the state afterwards,
`Emitted` the event handed on. A passive component; three modules compose it.

**`ValidatedStream`** — the unfold alone, between any provider stream and a
consumer that polls it to its end or drops it. `polled` and `out` are histories.
It implements **`TurnStream`**, the abstract promise: events, the last one
terminal, then the end, unless the consumer gives up first.

**`TurnEnvelope`**, **`TurnDecoding`** — `from_responses_request` as an operator
with the early returns in the order of the code. JSON is reduced to objects,
strings (with what they decode to) and the rest; an `Option` is a set of at most
one element. `TurnDecoding` sends a request and sends the same turn again in
another shape.

**`ResponsesIngress`** — the daemon. A task is a connection; its `pc` says whether
it is idle, awaits `execute`, polls the stream, waits for its client to take a
frame, or lets go. While a task holds a turn its steps are cut at each await and
between the drop of the source and the drop of the lease; a reply that takes no
turn is one step with its send. `Relay` ends the wait for the provider and hands
the event to the connection, `Sent` ends the wait for the client, `SendBreaks` is
the send that fails; `wire` is the history of the frames handed over. On HTTP,
`sending` is hyper's back-pressure on the body: it polls the body again when the
connection has room. Everything checked before the registry reads only the message, so admission is a function
(`HttpRefusal`, `WsRefusal`, `UpgradeRefusal`) built from `TurnEnvelope`. `Accept`
is `try_acquire` with the start of `execute`, `Release` the `Drop` of the lease,
`DropRequest` what hyper does when the peer of a request is gone; a WebSocket
task only learns of it from a failed send or, when idle, from its next read. It
implements **`TurnExclusion`**: no two tasks work on one turn. `Restart` is the
death of the process and its next `main`: `app` makes an empty registry. The
foundation configuration, which routes no model, is the instance with an empty
`RoutableModels`.

**`RouteTable`**, **`HttpApiDecoder`**, **`HttpApiTurn`** — one turn through
`HttpApiProviderResolver` and `HttpApiProvider`: resolve, the checks of the route,
credential, request, status, SSE frames, each an action at its await. The decoder
keeps what `decode_responses_event` branches on. A slug is a sequence of
segments, because prefixes decide; `resolve` asks for a first and a second match,
which is said by the set of matching positions. `HttpApiTurn` composes the decoder
with `EventValidator`. `wire` is the history of the upstream's answers, `polled`
that of what they decode to, without the frames that `filter_map` drops: with
`polled`, the turn implements `ValidatedStream`, a dropped frame being a
stuttering step. The error of `upstream_body` is absent: it needs a
request that is no object, which the envelope has refused.

**`HttpIngress`** — the composition of `ResponsesIngress`, `RouteTable` and
`HttpApiDecoder`: the daemon with the HTTP provider inside, on all connections at
once. `call` is what the future of `execute`, or the stream it returned, holds
for a task: the exchange with the upstream, at its lookup, sent, or with its body
being read. A route that `execute` refuses before it awaits anything is refused
without the store (`Refuse`). An exchange ends with the future or the stream that
owns it (`HangUp`); a lookup runs on in its thread, where nobody hears its answer.
Each step of the provider is a step of the ingress with what this
provider answers (`Fail` is an `ExecuteErr`, `Deliver` a `Relay`), so
`ImplementsIngress` says that the ingress was told of all it may meet. Where
`HttpApiTurn` follows one turn and every detail of its frames, this module
follows several turns and what is alive between them.

**`BrowserTurnRequest`** — a body of `POST /v1/turn`, field by field, with the
guard of the worker and the schema as two predicates on it.

**`BrowserSession`**, **`BrowserRpc`** — the session as operators on a record, and
the server that reads it: `Handle` runs up to the first await, `ReadChunk` is
one turn of the loop of `readJson`, `BodyRead` the guard and `executeTurn`
without an await on anything outside in between. `Report` and `Navigate` stand
for the driver of the browser, which is not in the repository and may call the
session's methods in any order. `preflight` is the daemon's side. `Launch` is
`rpc-main.ts` with its checks of the environment, `Kill` the death of the worker:
what it was reading is lost, and the next life has a session of its own. An empty
or short capability is kept as a value of its own, since what matters is that
none of them serves.

**`StateStore`** — `open` and `migrate` statement by statement, by processes that
race for SQLite's write lock, time out on it, are killed and started again. The pragma that makes a new file a
WAL database may find it busy (`PragmaBusy`). The
version is read outside of the transaction, as in the code. It implements
**`AtomicMigration`**, in which the whole schema comes into being in one step
and whoever comes later is let in on it.

Properties are stated in the module of the component they are about. The `MC*`
modules name finite sets for TLC; the `*Proofs` modules hold the theorems.
Operators named `X_Y` are faulty variants of `X`, with which a property is seen to
fail; no specification uses them.

## Runs

| run | instance and bounds | shows |
| --- | --- | --- |
| `validated_stream` | two ids, every kind of item, 4 answers of the source | relay, one conclusion, the end of the stream, refinement of `TurnStream` |
| `turn_decoding` | bodies over every shape of each field that is read | acceptance against a reference, error codes, parent, the key of a repeat |
| `ingress_safety` | 2 HTTP tasks, 1 WebSocket, one non-terminal event per turn, HTTP tasks symmetric | the registry against the leases, exclusion, one conclusion, no fabricated success |
| `ingress_hung_provider` | 1 HTTP task, 1 WebSocket, two non-terminal events, no fairness of the provider | a concluded turn is freed, a turn whose HTTP client left is freed, every turn ends with a provider that answers unless its client stays and never reads, refinement of `TurnExclusion` |
| `http_api_turn` | 9 route tables, 5 slugs, 23 kinds of answer, 3 answers | where requests go, whose verdict the client reads, which failures are marked retryable, refinement of `ValidatedStream` |
| `http_ingress` | 1 HTTP task, 1 WebSocket, 3 routes, a turn, its repeat on another route, a turn without a thread and a model without a route, 5 frames, one non-terminal event | exchanges go with leases, one exchange per turn, whose completion a client reads, the end of an exchange behind an upstream that hangs, refinement of `ResponsesIngress`, a provider that answers when its upstream does |
| `browser_rpc` | 2 requests, 2 lives of the worker, limit of 2 units, 3 changes of the session in a life, turns without and with their optional fields and of another protocol | the verdict of a turn, the limit, revisions, authorization, what the schema admits is judged, agreement of the preflights |
| `state_store` | 3 processes, 2 kills, databases that are new, current and newer | whole schemas, everybody gets in, refinement of `AtomicMigration` |
| `http_api_retry`, `browser_schema_limit`, `browser_fields`, `browser_sign_in` | as the runs of the same module | the four findings below |

**Why the bounds are enough.** The validator has two bits of memory that matter,
an id and a flag: four answers reach every combination of "told, told again,
failed". Exclusion and leaks of a lease need two tasks on one key; the third task
adds the other transport and a second retry. Non-terminal events change only the
remembered id, so one or two of them suffice in the daemon. An exchange and its
end need one task; two exchanges of one turn need two, on two routes and both
transports. A restart needs no bound: it forgets everything. Two
lives of the worker show whatever one life could leave to the next. Sizes around the
limit matter only as below, at and above it, in one chunk or several. Races of
the migration need two openers and a third that comes later. The theorems below
remove the bounds for what they cover.

`CHECK_DEADLOCK FALSE` is set where the system may stop: a stream that is
exhausted or dropped, a turn that is over, requests that are all answered, a
store that is open; in the daemon all connections may be closed for good.

**Fairness.** A consumer that holds the terminal event polls again or drops the
stream (`WF PollEnd`): hyper and the WebSocket loop both do. In the daemon the
runtime polls a ready task, hyper notices a vanished peer and a write to one is
over some day (`RuntimeFairness`). Of a client that is connected nothing is
assumed: the send at daemon `lib.rs:332` has no timeout and neither has hyper's
body, so `Sent` is fair only when the peer is gone. The properties that would
need a client that reads say so instead: `ConclusionFreesTurn`, `EveryTurnEnds`
and `ExchangeEnds` conclude with `[]Stalled(t)`, a client that is there and never
takes its frame, as the only way to keep a turn. Of providers nothing is assumed
either. `HFairness` is the same for the daemon with the HTTP provider, with the
refusals of `execute` that wait for nothing: the `reqwest` client has no timeout,
so nothing is assumed of an upstream or of the credential store, and `ExchangeEnds`
speaks of concluded turns and of HTTP clients that are gone; a WebSocket client
that leaves keeps its exchange open until the upstream speaks. Because no code
bounds the wait for a provider, two properties name their assumption:
`EveryTurnEnds` a provider that answers, `AnswersWithUpstream` an upstream that
does, from which the former follows. In the store,
processes run and are started again after a failure; kills are bounded by
`MaxCrashes`.

## Findings

1. `http_api_retry`. `docs/ARCHITECTURE.md:186` allows a retry of an API provider
   only before any response item was accepted. A connection that breaks under the
   SSE body is classified as retryable wherever it breaks, and the client reads
   that flag in the frame of the failure, also behind items it has read. Nothing
   in the repository retries yet; whoever follows the flag alone would. Which
   failures carry the flag is the passing `RetryableIffTransient`.
2. `browser_schema_limit`. The schema admits a prompt of 2097152 characters;
   `readJson` refuses a body of more than 2097152 bytes, and the body also has
   the keys and the trace id in it.
3. `browser_fields`. The schema says `additionalProperties: false` and gives
   `threadId`, `requestKind` and `previousResponseId` a type;
   `isBrowserTurnRequest` looks at none of that, so the worker judges turns that
   the schema refuses. The converse holds (`SchemaValidTurnsAreJudged`).
4. `browser_sign_in`. `observeNavigation` acts in every state: while the session
   is authenticating, the sign-in page itself moves it to `needs_reauth`. The
   documented diagram leads from there to `Healthy` only.

## Theorems

All proofs are checked by `tlapm` to the last leaf, for every value of the
constants that satisfies the named assumptions: `NoId` is no id, a provider's
events are events, HTTP and WebSocket tasks are different, `NoTurn` is no turn,
`NoCall` is no exchange, `Nobody` is no process, `NoAnswer` no reply and
`NotJson` no body, a string parses into one JSON value at most, a route table is
a sequence of routes and a slug a sequence of strings.

**`ValidatedStreamProofs`.** `OneTerminalLast` alone is not inductive: it does not
say that the flag stops the next poll. `StreamInv` adds that an answer of the
source ends the turn exactly when its event concludes, and that the flag is up
exactly when the last event does. It gives `OneTerminalLast`,
`NeverPolledAfterEnd` and, step by step, `ImplementsTurnStream` (the abstract
specification has no fairness). `RelayInv` adds that the remembered id is the one
told last, needed for `FaithfulRelay`. The lemmas on one poll are in
`EventValidatorProofs` and used again for the daemon. The invariants are also
stated of `Steps`, the specification without its fairness, so that a module that
implements the stream step by step inherits it.

**`ResponsesIngressProofs`.** `LeaseAccounting` is inductive with the types:
`Accept` adds a key that no lease has, `Release` removes the key of one lease,
and no two are equal. `NoOverlappingWork` and the refinement of `TurnExclusion`
follow, since a task that works holds a lease. `AnsweredOnce` and
`NoFabricatedSuccess` come from `AnswerInv`, which ties `wire`, `given` and the
validator of a turn together, task by task.

**`HttpIngressProofs`.** Each step of `HNext` is a step of the ingress
(`ImplementsIngressSafely`): the errors of the stages are `HttpErrors` and the
decoded frames are among the provider's events, which `AnswersAssumption` names.
So the theorems of `ResponsesIngressProofs` hold here, as `DaemonExcludes`
(leases, exclusion, `TurnExclusion`) and `DaemonAnswers` (one conclusion, no
fabricated success) say. `ExchangeUnderLease` is inductive as it stands, because a
step changes the phase, the lease and the exchange of one task together; lemma
`OneTask` says that the steps of one task leave the others alone.
`OneExchangePerTurn` is then the uniqueness of leases, read through the exchanges.
`RoutesAssumption` (a routable model is one the table resolves) is for the runs;
the proofs do not need it. `CompletionIsUpstreams` follows a completion from the
client's frame back through `HandOver`, the validator and the decoder:
`CompletionIsGiven` and `CompletedFrame` say that each makes one of nothing else,
`AsideCompletesNothing` and `OthersKeepTheirFrames` that no other step adds one,
and the two invariants above put the exchange under its lease.

**`TurnDecodingProofs`.** The chain of options of `from_responses_request` is read
lookup by lookup as what the reference sees in the body (`FieldRead`,
`MetadataRead`, `TurnRead`, `TurnText`), and the early returns as its reasons
(`Decoding`). The first two properties need no assumption; for the parent and the
key of a repeat, `OneTurn` needs that a string parses into one value.

**`HttpApiTurnProofs`.** `VerdictIsUpstreams` says nothing of the flag that stops
the polling. `RelayInv` adds that the flag is up exactly when the last answer
decided the turn, and `RetryInv` which errors of a stage and which failure events
are retryable: exactly those that the connection or a status asking for patience
caused. `DecodedFrame`, by the kinds of frames, and `AnswerStep` say what
one answer does; `EventValidatorProofs` does the rest. `SentToSoleRoute` does not
follow from where the turn is: `RouteInv` ties `found` to the table that is still
in force, the request to `found`, and both to the check of the route and the
credential that came before. `SoleRoute` says that a match is the only route
whose prefix the slug has, `StrippedPrefix` that prefix and remainder make up the
slug; `OrderOfRoutesDecidesNothing` compares a table with its rearrangements.
`ImplementsValidatedStreamSafely` is the refinement without its fairness; that the
stream the consumer reads is faithful to the decoded frames (`FaithfulToUpstream`)
and concludes once (`ProviderStreamConcludes`) is then what
`ValidatedStreamProofs` proves of any stream, instantiated with this one, its
assumptions on constants discharged (`SameStream`).

**`BrowserRpcProofs`.** `RpcInv` is one invariant for all properties of the worker.
`WorkerInv` says that every snapshot shown in this life is of an earlier revision
than the session's, or of its state; `ReadingInv` that what is counted of a body
and what is still to come add up to it, and that only the holder of the secret is
read. `AnswerInv` is preserved because a reply is written once (`ReplyInv`).
`TurnVerdictIsCurrent` follows step by step, not from the invariant alone.

**`StateStoreProofs`.** `Transaction` says that only the lock's holder is inside
a transaction and that its draft is a prefix of the batch over an empty database,
or the unchanged database of whoever migrated first; who is about to commit
began on an empty one. `SchemaWhole` and `OpenMeansCurrent` follow, and that the
steps of the store are those of `AtomicMigration`: the commit migrates, every
other statement stutters, and a read of the version lets in at a whole schema
only.

**Only model-checked:** liveness (`TerminalEndsStream`, `ConclusionFreesTurn`,
`HttpDisconnectFreesTurn`, `EveryTurnEnds`, `ExchangeEnds`, `AnswersWithUpstream`,
`EveryOpenerGetsIn`) and the fairness of the refinements `ImplementsValidatedStream`
and `ImplementsIngress`, which are out of the prover's reach; the safety half of
both is proved. Every invariant and every action property of the passing runs is
a theorem. Two theorems have no run of their own, because what a run checks
implies them: `NeverPolledAfterEnd` follows from `FaithfulRelay` and
`OneTerminalLast`, `OpenMeansCurrent` from `ImplementsAtomicMigration`.

## Not modelled

The command line prints two lines and CI and packaging have no state. The stubs
`ApiProvider` and `WebProvider::execute` yield two fixed events. Message texts,
ids of items, headers, logging. Keep-alive comments of the SSE body, which carry
no event. Bit-exact URL and JSON parsing. A lookup in the credential store that
goes on in its thread after its turn was dropped: it changes nothing but the
load of the pool. Whether the client that is answered 413 in the middle of its
body still reads the answer. What a client of the worker concludes from revisions
of two lives: no such client exists yet, and `RevisionNamesState` is stated within
one life. A newer build that migrates the database while this one has it open:
its code is not here.

## Plan

Done: protocol, core, daemon, HTTP provider, browser worker, state store, each
with its runs; the daemon with the HTTP provider inside; restarts of the daemon
and of the worker; the schema of the worker against its guard; the theorems
above. In this order still to do:

1. Results across components that no run states yet: that an exchange's request
   went to the sole route of its task's model, in the daemon as in a single turn,
   and that the stream of every task in `HttpIngress` is a validated stream.
2. A client of the worker, once the daemon calls it: snapshots that outlive a life
   of the worker, and a web provider behind the ingress as `HttpIngress` is for
   HTTP.
3. The store behind the daemon, once it is opened there.

------------------------- MODULE BrowserTurnRequest -------------------------
(***************************************************************************)
(* The body of POST /v1/turn: what the guard of the worker                 *)
(* (packages/browser-worker/src/rpc-server.ts) and what the schema         *)
(* (schema/browser-rpc.schema.json) make of it.  A field is what they tell *)
(* apart, an identity that is missing or no object has no fields, and      *)
(* extra says whether the body or its identity has fields of other names.  *)
(***************************************************************************)

Text == {"text", "empty"}
Field == Text \cup {"absent", "not_text"}

TurnBody == [protocol : {"one", "other_number", "no_number"},
             traceId : Field, turnId : Field, threadId : Field,
             requestKind : Field, previousResponseId : Field,
             mode : {"web_mode", "other"}, prompt : Field, extra : BOOLEAN]

\* Mutant of isBrowserTurnRequest: an optional field is required.
isBrowserTurnRequest_NeedsThread(body) ==
    /\ body.protocol = "one"
    /\ {body.traceId, body.turnId, body.threadId} = {"text"}
    /\ body.mode = "web_mode" /\ body.prompt \in Text

isBrowserTurnRequest(body) ==
    /\ body.protocol = "one"
    /\ body.traceId = "text" /\ body.turnId = "text"
    /\ body.mode = "web_mode" /\ body.prompt \in Text

\* The numbers that readProtocol finds and that are not BROWSER_RPC_PROTOCOL.
readProtocol(body) ==
    IF body.protocol = "other_number" THEN {body.protocol} ELSE {}

\* The schema; the length of the prompt is left to the caller.
SchemaValid(body) ==
    LET Optional == Text \cup {"absent"}
    IN  /\ body.protocol = "one"
        /\ body.traceId = "text" /\ body.turnId = "text"
        /\ {body.threadId, body.requestKind, body.previousResponseId}
              \subseteq Optional
        /\ body.mode = "web_mode" /\ body.prompt \in Text
        /\ ~body.extra
=============================================================================

---------------------------- MODULE MCBrowserRpc ----------------------------
(* A small instance of BrowserRpc. *)
EXTENDS BrowserRpc, TLC

CONSTANTS q1, q2

Body(thread, turn, extra) ==
    [protocol |-> "one", traceId |-> "text", turnId |-> turn,
     threadId |-> thread, requestKind |-> "absent",
     previousResponseId |-> "absent", mode |-> "web_mode", prompt |-> "text",
     extra |-> extra]

\* A turn without and with its optional fields, two that the schema refuses and
\* the guard does not, one that both refuse, one of another protocol.
MCBodies ==
    {Body("absent", "text", FALSE),
     [Body("text", "text", FALSE) EXCEPT !.requestKind = "empty",
                                         !.previousResponseId = "text"],
     Body("absent", "text", TRUE), Body("not_text", "text", FALSE),
     Body("absent", "empty", FALSE),
     [Body("absent", "text", FALSE) EXCEPT !.protocol = "other_number"]}

\* A turn without and with its optional fields, and one of another protocol.
RpcBodies == {b \in MCBodies : SchemaValid(b) \/ readProtocol(b) # {}}

RequestSymmetry == Permutations(Requests)
=============================================================================

--------------------------- MODULE MCTurnDecoding ---------------------------
(* Bounded instance: every combination of present, absent, empty and       *)
(* wrongly typed fields that the decoding tells apart.                     *)
EXTENDS TurnDecoding, TLC

\* Objects in which the field is absent, or present with one of the values.
With(key, values) == {[f \in {} |-> OtherJson]} \cup {key :> v : v \in values}

Objects(a, b) == {Obj(f @@ g) : f \in a, g \in b}

Turns ==
    {Obj(f @@ g @@ h) :
        f \in With("turn_id", {Str("t1"), Str("t2"), Str(""), OtherJson}),
        g \in With("thread_id", {Str("th1"), OtherJson}),
        h \in With("parent_thread_id", {Str("p1")})}

TurnMetadata ==
    Turns \cup {Encoded(t) : t \in Turns}
          \cup {Str("junk"), OtherJson, Encoded(Str("junk")),
                Encoded(OtherJson)}

ClientMetadata ==
    {OtherJson} \cup Objects(With("x-codex-turn-metadata", TurnMetadata),
                             With("x-codex-parent-thread-id",
                                  {Str("p2"), OtherJson}))

MCRequests ==
    {OtherJson, Str("junk")}
    \cup Objects(With("model", {Str("m1"), Str(""), OtherJson}),
                 With("client_metadata", ClientMetadata))
=============================================================================

--------------------------- MODULE TurnExclusion ---------------------------
(***************************************************************************)
(* What the lease registry promises: the provider works for at most one    *)
(* ingress task on a turn at any time, and a task works on one turn.       *)
(***************************************************************************)
CONSTANTS
    Tasks,  \* the ingress tasks of the daemon
    Turns   \* the keys that name turns

VARIABLE running  \* who works on what, a set of pairs <<task, turn>>

Init == running = {}

Begin(task, turn) == /\ \A r \in running : r[1] # task /\ r[2] # turn
                     /\ running' = running \cup {<<task, turn>>}

Finish(task, turn) == /\ <<task, turn>> \in running
                      /\ running' = running \ {<<task, turn>>}

\* The daemon is killed, and all of its work ends.
Crash == running' = {}

Next == \/ Crash
        \/ \E task \in Tasks, turn \in Turns :
                Begin(task, turn) \/ Finish(task, turn)

Spec == Init /\ [][Next]_running
=============================================================================

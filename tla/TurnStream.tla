----------------------------- MODULE TurnStream -----------------------------
(***************************************************************************)
(* What the daemon promises of the events of one turn, whatever the        *)
(* provider does: any number of non-terminal events, then one terminal     *)
(* event, then the end of the stream.  A consumer may abandon the stream   *)
(* at any moment; the stream itself never ends without a terminal event.   *)
(* docs/ARCHITECTURE.md section 4: "EOF is never success".                 *)
(***************************************************************************)
EXTENDS Sequences

CONSTANTS
    Events,    \* the events there are
    Terminals  \* the ones that conclude a turn

VARIABLES
    events,  \* the events handed to the consumer, oldest first
    phase    \* "open", "exhausted" (the stream answered None) or "dropped"

streamVars == <<events, phase>>

Concluded == \E i \in DOMAIN events : events[i] \in Terminals

Init == events = <<>> /\ phase = "open"

Emit == /\ phase = "open"
        /\ ~Concluded
        /\ \E e \in Events : events' = Append(events, e)
        /\ UNCHANGED phase

End == /\ phase = "open"
       /\ Concluded
       /\ phase' = "exhausted"
       /\ UNCHANGED events

Abandon == /\ phase = "open"
           /\ phase' = "dropped"
           /\ UNCHANGED events

Next == Emit \/ End \/ Abandon

Spec == Init /\ [][Next]_streamVars
=============================================================================

-------------------------- MODULE AtomicMigration --------------------------
(***************************************************************************)
(* What StateStore::open promises to the processes that share a database:  *)
(* the schema comes into being in one step, once, and by a process that is *)
(* in with that step; everybody else is let in on a schema that is there.  *)
(***************************************************************************)
EXTENDS Naturals

CONSTANTS
    Openers,  \* the processes that open the database
    Tables,   \* the tables of a whole schema
    Current,  \* the version of the schema that this build knows
    Newest    \* the newest version another build may have left behind

VARIABLES
    version,  \* the version of the database, 0 before there is a schema
    tables,   \* the tables of the database
    inside    \* the processes that have the store open

vars == <<version, tables, inside>>

Init == /\ \/ version = 0 /\ tables = {}
           \/ version \in 1 .. Newest /\ tables = Tables
        /\ inside = {}

\* The first of the processes on an empty database makes the whole schema.
Migrate(p) == /\ version = 0 /\ tables = {}
              /\ version' = Current /\ tables' = Tables
              /\ inside' = inside \cup {p}

\* The others find it there.
Join(p) == /\ version = Current /\ tables = Tables
           /\ inside' = inside \cup {p}
           /\ UNCHANGED <<version, tables>>

\* A process is killed or closes the store.
Leave(p) == inside' = inside \ {p} /\ UNCHANGED <<version, tables>>

Next == \E p \in Openers : Migrate(p) \/ Join(p) \/ Leave(p)

Spec == Init /\ [][Next]_vars
=============================================================================

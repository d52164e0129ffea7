---------------------------- MODULE MCStateStore ----------------------------
(* A small instance of StateStore. *)
EXTENDS StateStore

CONSTANTS p1, p2, p3
=============================================================================

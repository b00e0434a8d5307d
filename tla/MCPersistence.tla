--------------------------- MODULE MCPersistence ---------------------------
(***************************************************************************)
(* Instances of Persistence for TLC: two cards of one set, one bad URL.    *)
(***************************************************************************)
EXTENDS Persistence

OneSet(c) == "test"
=============================================================================

----------------------------- MODULE MCCardMap -----------------------------
(***************************************************************************)
(* Instances of CardMap for TLC: five keys whose hashes crowd around the   *)
(* end of a table of 8, where entries wrap, and two probes.  Moved in the  *)
(* order of their slots they do not fit 16, and 32 slots wrap to none.     *)
(***************************************************************************)
EXTENDS CardMap

CrowdedKeys    == 1..5
CrowdedHash(k) == <<7, 23, 8, 24, 19>>[k]
=============================================================================

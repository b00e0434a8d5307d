---------------------------- MODULE DurableStore ----------------------------
(***************************************************************************)
(* What saving and loading promise, with no word about files: disk holds   *)
(* one whole content or none, a save replaces it in one step or leaves it, *)
(* a load brings it back.  A store that cannot replace a content in one    *)
(* step may lose the one it has, and then holds none.                      *)
(***************************************************************************)
CONSTANTS
  Contents,     \* what a cache may hold
  NoContent,    \* disk holds nothing that can be loaded
  Nothing,      \* no call has returned since the cache was last used
  Emptied(_)    \* what a load leaves of a content when there is none on disk

VARIABLES
  mem,      \* what the cache holds
  disk,     \* what a load would bring back
  returned, \* the call that returned last, and its result
  replaces  \* a new content takes the place of the old one in one step

vars == <<mem, disk, returned, replaces>>

Init ==
  /\ mem \in Contents
  /\ disk \in Contents \cup {NoContent}
  /\ returned = Nothing
  /\ replaces \in BOOLEAN

\* The cache is used, or the program ends and starts again.
Use ==
  /\ mem' \in Contents
  /\ returned' = Nothing
  /\ UNCHANGED disk

Save ==
  /\ disk' = mem
  /\ returned' = [op |-> "save", code |-> "OK"]
  /\ UNCHANGED mem

Load ==
  /\ disk # NoContent
  /\ mem' = disk
  /\ returned' = [op |-> "load", code |-> "OK"]
  /\ UNCHANGED disk

SaveFails ==
  /\ \E c \in {"FILE_OPEN_ERROR", "FILE_WRITE_ERROR", "FILE_RENAME_ERROR"} :
       returned' = [op |-> "save", code |-> c]
  /\ UNCHANGED <<mem, disk>>

LoadFails ==
  /\ disk = NoContent
  /\ mem' = Emptied(mem)
  /\ \E c \in {"FILE_OPEN_ERROR", "FILE_READ_ERROR"} :
       returned' = [op |-> "load", code |-> c]
  /\ UNCHANGED disk

Lose ==
  /\ ~replaces
  /\ disk' = NoContent
  /\ UNCHANGED <<mem, returned>>

Next ==
  /\ Use \/ Save \/ Load \/ SaveFails \/ LoadFails \/ Lose
  /\ UNCHANGED replaces

Spec == Init /\ [][Next]_vars
=============================================================================

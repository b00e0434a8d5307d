---------------------------- MODULE Persistence ----------------------------
(***************************************************************************)
(* sfc_cache_save and sfc_cache_load with the file functions they call     *)
(* (sfc_file.c), and a program that may crash at any step of a save.       *)
(*                                                                         *)
(* A save writes a header and one record per card to a temporary file and  *)
(* renames it to the path.  fwrite goes to a buffer of the C library, so   *)
(* that a crash may lose any tail of what was written, and a full disk may *)
(* show only in fclose.  The content of the cache changes here as          *)
(* SfcCache's steps change it, between calls.                              *)
(***************************************************************************)
EXTENDS Naturals, Sequences, FiniteSets, SequencesExt

CONSTANTS
  Cards,           \* the cards Scryfall has
  Sets, SetOf(_),
  Urls,            \* URLs that may turn out to be bad
  Platforms,       \* whether rename() moves a file over an existing one, on
                   \* each of the platforms the program may run on
  FlushFails       \* fclose may fail to write what is still in the buffer

ASSUME SetOfAssumption   == \A c \in Cards : SetOf(c) \in Sets
ASSUME SwitchAssumption  == Platforms \subseteq BOOLEAN /\ FlushFails \in BOOLEAN

VARIABLES
  cache,     \* the card list, full_sets and bad_urls
  file,      \* what is at the path
  temp,      \* what is at the path with .tmp
  pc,        \* where the save is, "idle" outside of one
  returned,  \* the call that returned last and its result, until the next use
  renameReplaces  \* the platform: rename() replaces an existing file

vars == <<cache, file, temp, pc, returned, renameReplaces>>

-----------------------------------------------------------------------------
(* State. *)

Cache == [cards: Seq(Cards), full: SUBSET Sets, bad: SUBSET Urls]
Empty == [cards |-> <<>>, full |-> {}, bad |-> {}]

Version == 4

Header(c) == [version |-> Version, full |-> c.full, bad |-> c.bad]
Card(c)   == [card |-> c]

\* The records sfc_cache_save writes for cache c.
Image(c) == <<Header(c)>> \o [i \in DOMAIN c.cards |-> Card(c.cards[i])]

\* A file is its whole records; a piece of a record at its end reads like the
\* end of the file (sfc_file_read_buffer fails alike) and is left out.
NoFile  == [recs |-> <<>>, exists |-> FALSE]
File(r) == [recs |-> r, exists |-> TRUE]
OldFile == File(<<[version |-> Version - 1]>>)

\* What may be left of file f when a tail of what was written to it is lost.
Cut(f) == { File(SubSeq(f.recs, 1, n)) : n \in 0..Len(f.recs) }

NoContent == [cards |-> <<>>]
Nothing   == [op |-> "none"]
Return(op, code) == returned' = [op |-> op, code |-> code]

\* The whole records of a file behind a header of this version are what a load
\* takes for its content.
Readable(f) == f.recs # <<>> /\ f.recs[1].version = Version
Content(f)  ==
  IF Readable(f)
  THEN [cards |-> [i \in 1..(Len(f.recs) - 1) |-> f.recs[i + 1].card],
        full  |-> f.recs[1].full, bad |-> f.recs[1].bad]
  ELSE NoContent

-----------------------------------------------------------------------------
\* At the path there may be what an older program left, or a file cut short.
Init ==
  /\ cache = Empty
  /\ file \in {NoFile, OldFile, File(<<>>)}
  /\ temp = NoFile
  /\ pc = "idle"
  /\ returned = Nothing
  /\ renameReplaces \in Platforms

(* The cache in use: what SfcCache does to its store. *)

Using == pc = "idle" /\ returned' = Nothing /\ UNCHANGED <<file, temp, pc>>

AddCard(c) ==
  /\ Using
  /\ c \notin ToSet(cache.cards)
  /\ cache' = [cache EXCEPT !.cards = Append(@, c)]

InCache(s) == \A c \in Cards : SetOf(c) = s => c \in ToSet(cache.cards)

AddFullSet(s) ==
  /\ Using
  /\ InCache(s)
  /\ cache' = [cache EXCEPT !.full = @ \cup {s}]

AddBadUrl(u) == Using /\ cache' = [cache EXCEPT !.bad = @ \cup {u}]

\* sfc_cache_clear leaves bad_urls alone.  (Mutant: full_sets too.)
ClearedKeepFull(c) == [c EXCEPT !.cards = <<>>]
Cleared(c)         == [c EXCEPT !.cards = <<>>, !.full = {}]

Clear == Using /\ cache' = Cleared(cache)

-----------------------------------------------------------------------------
(* sfc_cache_save. *)

SaveOpen ==
  /\ pc = "idle"
  /\ temp' = File(<<>>)
  /\ pc' = "write"
  /\ returned' = Nothing
  /\ UNCHANGED <<cache, file>>

SaveOpenFails ==
  /\ pc = "idle"
  /\ Return("save", "FILE_OPEN_ERROR")
  /\ UNCHANGED <<cache, file, temp, pc>>

\* sfc_file_write_buffer, for the next record.
WriteRecord ==
  /\ pc = "write"
  /\ Len(temp.recs) < Len(Image(cache))
  /\ temp' = File(Append(temp.recs, Image(cache)[Len(temp.recs) + 1]))
  /\ UNCHANGED <<cache, file, pc, returned>>

\* After a failed write no more is written, and the result stays.
\* (Mutant: it is lost, and the file is renamed.)
AfterFailedWriteGoOn == "rename"
AfterFailedWrite     == "failed"

WriteFails ==
  /\ pc = "write"
  /\ Len(temp.recs) < Len(Image(cache))
  /\ temp' \in Cut(temp)
  /\ pc' = AfterFailedWrite
  /\ UNCHANGED <<cache, file, returned>>

CloseFailed ==
  /\ pc = "failed"
  /\ pc' = "idle"
  /\ Return("save", "FILE_WRITE_ERROR")
  /\ UNCHANGED <<cache, file, temp>>

\* What the call of fclose leaves in the temporary file; its result is ignored.
Flushed(f) == IF FlushFails THEN Cut(f) ELSE {f}

Close ==
  /\ pc = "write"
  /\ Len(temp.recs) = Len(Image(cache))
  /\ temp' \in Flushed(temp)
  /\ pc' = "rename"
  /\ UNCHANGED <<cache, file, returned>>

\* sfc_file_rename.  Where rename() does not replace a file, the old one is
\* removed first.
Rename ==
  /\ \/ pc = "rename" /\ (renameReplaces \/ ~file.exists)
     \/ pc = "removed"
  /\ file' = temp
  /\ temp' = NoFile
  /\ pc' = "idle"
  /\ Return("save", "OK")
  /\ UNCHANGED cache

RemoveOld ==
  /\ pc = "rename"
  /\ ~renameReplaces /\ file.exists
  /\ file' = NoFile
  /\ pc' = "removed"
  /\ UNCHANGED <<cache, temp, returned>>

RenameFails ==
  /\ pc \in {"rename", "removed"}
  /\ pc' = "idle"
  /\ Return("save", "FILE_RENAME_ERROR")
  /\ UNCHANGED <<cache, file, temp>>

-----------------------------------------------------------------------------
(* sfc_cache_load. *)

\* The cache is cleared before anything is read.  (Mutant: cards are added to
\* those there are.)
LoadedOver(c, f) == [Content(f) EXCEPT !.cards = c.cards \o @]
Loaded(c, f)     == Content(f)

Load ==
  /\ pc = "idle"
  /\ Content(file) # NoContent
  /\ cache' = Loaded(cache, file)
  /\ Return("load", "OK")
  /\ UNCHANGED <<file, temp, pc>>

\* There is no file, or one of another version.
LoadOpenFails ==
  /\ pc = "idle"
  /\ ~file.exists \/ (file.recs # <<>> /\ ~Readable(file))
  /\ cache' = Cleared(cache)
  /\ Return("load", "FILE_OPEN_ERROR")
  /\ UNCHANGED <<file, temp, pc>>

\* There is not even a header.
LoadReadFails ==
  /\ pc = "idle"
  /\ file.exists /\ file.recs = <<>>
  /\ cache' = Cleared(cache)
  /\ Return("load", "FILE_READ_ERROR")
  /\ UNCHANGED <<file, temp, pc>>

-----------------------------------------------------------------------------
\* The program ends, in a save or outside, and starts again with a new cache.
\* What fclose has written stays.
Crash ==
  /\ cache' = Empty
  /\ pc' = "idle"
  /\ returned' = Nothing
  /\ temp' \in IF pc \in {"write", "failed"} THEN Cut(temp) ELSE {temp}
  /\ UNCHANGED file

Step ==
  \/ \E c \in Cards : AddCard(c)
  \/ \E s \in Sets : AddFullSet(s)
  \/ \E u \in Urls : AddBadUrl(u)
  \/ Clear
  \/ SaveOpen \/ SaveOpenFails \/ WriteRecord \/ WriteFails \/ CloseFailed \/ Close
  \/ Rename \/ RemoveOld \/ RenameFails
  \/ Load \/ LoadOpenFails \/ LoadReadFails
  \/ Crash

Next == Step /\ UNCHANGED renameReplaces

Spec == Init /\ [][Next]_vars

-----------------------------------------------------------------------------
(* Properties. *)

\* Every variable has its type, and the cache never lists a card twice.
TypeOK ==
  /\ cache \in Cache
  /\ IsInjective(cache.cards)
  /\ Content(file) \in Cache \cup {NoContent}
  /\ Content(temp) \in Cache \cup {NoContent}
  /\ pc \in {"idle", "write", "failed", "rename", "removed"}
  /\ pc = "removed" => ~renameReplaces

\* A set in full_sets has all its cards in the cache, whatever was saved,
\* crashed and loaded before (sfc_query.c:30, sfc_cache.c:356).
FullSetSound == \A s \in cache.full : InCache(s)

\* A save that returned SFC_RESULT_OK left the whole cache at the path.
SavedIsWhole ==
  returned = [op |-> "save", code |-> "OK"] => Content(file) = cache

\* "The transactional property of the operation" (sfc_file.c:63): a save
\* replaces what a load would bring back in one step or not at all, and a load
\* brings back just that.  Where rename() does not replace a file, a save may
\* lose what was there before (the comment: "this voids the property"), and no
\* more than that.
Disk == INSTANCE DurableStore WITH
  Contents  <- Cache,
  Emptied   <- Cleared,
  mem       <- cache,
  disk      <- Content(file),
  replaces  <- renameReplaces
SaveIsAtomic == Disk!Spec

\* Where the old file has to be removed first, the new one stands complete
\* beside it at that moment, so that nothing is lost but its name.
RemovedLast == [][file.exists /\ ~file'.exists => temp = File(Image(cache))]_vars
=============================================================================

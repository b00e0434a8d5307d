------------------------------- MODULE Codec -------------------------------
(***************************************************************************)
(* The serializer and the deserializer (sfc_serializer.c,                  *)
(* sfc_deserializer.c) over sequences of bytes, and the length in front of *)
(* a record in a file (sfc_file.c).                                        *)
(*                                                                         *)
(* A write gives the bytes it appends to the buffer.  A Take reads from    *)
(* the front of the bytes that remain: a result code and, when it is OK,   *)
(* the value and the bytes behind it.                                      *)
(***************************************************************************)
EXTENDS Words, Sequences, SequencesExt

NUL == {}     \* the byte 0

Took(value, rest) == [code |-> "OK", value |-> value, rest |-> rest]
Failed(code)      == [code |-> code]
NotEnough         == Failed("NOT_ENOUGH_DATA")

Behind(bytes, n) == SubSeq(bytes, n + 1, Len(bytes))

\* Little endian: n bytes of word w, and the word of a sequence of bytes.
Split(w, n)  == [k \in 1..n |-> Field(w, 8 * (k - 1), 8)]
Joined(bytes) == UNION {Shl(bytes[k], 8 * (k - 1), 64) : k \in DOMAIN bytes}

-----------------------------------------------------------------------------
(* Writing. *)

WriteUint8(b)  == <<b>>
WriteUint32(w) == Split(w, 4)
WriteUint64(w) == Split(w, 8)

\* Groups of 7 bits, lowest first; bit 7 says that another group follows.
Groups(w) == IF w = {} THEN 1 ELSE Max(w) \div 7 + 1

WriteVarSizeUint32(w) ==
  [k \in 1..Groups(w) |-> Field(w, 7 * (k - 1), 7) \cup (IF k < Groups(w) THEN {7} ELSE {})]

WriteString(s) == Append(s, NUL)

-----------------------------------------------------------------------------
(* Reading. *)

TakeBuffer(bytes, size) ==
  IF Len(bytes) < size THEN NotEnough
  ELSE Took(SubSeq(bytes, 1, size), Behind(bytes, size))

\* sfc_deserializer_read_uint32 and _uint64 test for all their bytes first.
\* (Mutants: what is there is taken; the last bytes of all are refused.)
TakeWordUnchecked(bytes, n) ==
  Took(Joined(SubSeq(bytes, 1, Min({n, Len(bytes)}))), Behind(bytes, n))
TakeWordBeforeMore(bytes, n) ==
  IF Len(bytes) <= n THEN NotEnough
  ELSE Took(Joined(SubSeq(bytes, 1, n)), Behind(bytes, n))
TakeWord(bytes, n) ==
  IF Len(bytes) < n THEN NotEnough
  ELSE Took(Joined(SubSeq(bytes, 1, n)), Behind(bytes, n))

TakeUint8(bytes)  == TakeWord(bytes, 1)
TakeUint32(bytes) == TakeWord(bytes, 4)
TakeUint64(bytes) == TakeWord(bytes, 8)

\* The bits beyond the 64 of the accumulator are lost.
TakeVarSizeUint32(bytes) ==
  LET ends  == {k \in DOMAIN bytes : 7 \notin bytes[k]}
      last  == Min(ends)
      value == UNION {Shl(bytes[k] \ {7}, 7 * (k - 1), 64) : k \in 1..last}
  IN  IF ends = {} THEN NotEnough
      ELSE IF value \in Word THEN Took(value, Behind(bytes, last))
      ELSE Failed("VAR_SIZE_UINT32_TOO_BIG")

\* Into a buffer of size bytes, the NUL included.
TakeString(bytes, size) ==
  LET ends == {k \in DOMAIN bytes : bytes[k] = NUL}
      last == Min(ends)
  IN  IF ends # {} /\ last <= size
      THEN Took(SubSeq(bytes, 1, last - 1), Behind(bytes, last))
      ELSE Failed(IF Len(bytes) > size THEN "BUFFER_TOO_SMALL" ELSE "MISSING_NULL_TERMINATION")

-----------------------------------------------------------------------------
(* Records in a file. *)

\* The length of a record.  Its high byte is written as size >> 32, which
\* leaves nothing of the 8 bits it has.
SizeBytes(size) == [k \in 1..4 |-> IF k = 4 THEN NUL ELSE Field(size, 8 * (k - 1), 8)]

WriteBuffer(bytes) == SizeBytes(Bits(Len(bytes))) \o bytes

\* The record at the front of a file.
ReadBuffer(bytes) ==
  LET size == Value(Joined(SubSeq(bytes, 1, 4)))
  IN  IF Len(bytes) < 4 \/ Len(bytes) - 4 < size THEN Failed("FILE_READ_ERROR")
      ELSE Took(SubSeq(bytes, 5, 4 + size), Behind(bytes, 4 + size))
=============================================================================

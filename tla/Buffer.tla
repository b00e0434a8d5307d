------------------------------- MODULE Buffer -------------------------------
(***************************************************************************)
(* The growing buffer (sfc_buffer.c) that collects a response chunk by     *)
(* chunk and a record write by write: its first bytes are in the object    *)
(* itself, more of them in a block of the heap that grows by pages.        *)
(***************************************************************************)
EXTENDS Words, Sequences, SequencesExt

CONSTANTS
  StaticSize,  \* SFC_BUFFER_STATIC_SIZE
  Page         \* the unit of growth, 1024

ASSUME SizesAssumption == StaticSize \in Nat \ {0} /\ Page \in Nat \ {0}

Zeros(n) == [i \in 1..n |-> {}]

\* sfc_buffer_init.  There is no block as long as p is static_buffer.
NewBuffer ==
  [onHeap |-> FALSE, static |-> Zeros(StaticSize), block |-> <<>>, size |-> 0,
   allocated |-> StaticSize]

\* What p points to.
Memory(b)   == IF b.onHeap THEN b.block ELSE b.static
Contents(b) == SubSeq(Memory(b), 1, b.size)

\* The bytes of the larger block: those there are, and zeros behind them.
\* (Mutant: growing leaves the static part behind.)
ToAllocate(size)    == (size \div Page + 1) * Page
EnlargedAnew(b, n) == b.block \o Zeros(n - Len(b.block))
Enlarged(b, n)     == Memory(b) \o Zeros(n - b.allocated)

SetSize(b, size) ==
  IF size <= b.allocated THEN [b EXCEPT !.size = size]
  ELSE [b EXCEPT !.onHeap = TRUE, !.block = Enlarged(b, ToAllocate(size)),
                 !.allocated = ToAllocate(size), !.size = size]

\* The data go behind what is there, wherever that is after growing.
Written(s, offset, data) ==
  [i \in DOMAIN s |-> IF i - offset \in DOMAIN data THEN data[i - offset] ELSE s[i]]

BufferAppend(b, data) ==
  LET larger == SetSize(b, b.size + Len(data))
  IN  IF larger.onHeap THEN [larger EXCEPT !.block = Written(@, b.size, data)]
                       ELSE [larger EXCEPT !.static = Written(@, b.size, data)]

\* A buffer to which each of the sequences of bytes was appended in turn.
Collected(writes) ==
  LET buffer[i \in 0..Len(writes)] ==
        IF i = 0 THEN NewBuffer ELSE BufferAppend(buffer[i - 1], writes[i])
  IN  buffer[Len(writes)]

\* sfc_buffer_detach: the block itself, with more behind the size it gives, or a
\* copy of the static part.
Detached(b) == [data |-> IF b.onHeap THEN b.block ELSE Contents(b), size |-> b.size]
=============================================================================

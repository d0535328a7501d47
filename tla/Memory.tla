-------------------------------- MODULE Memory --------------------------------
(***************************************************************************)
(* Allocated memory, memcpy and the growth of a buffer: what CRingBuffer   *)
(* and the linear buffers (Buffer.h) share.  Memory counts from 0.         *)
(***************************************************************************)
EXTENDS Naturals

CONSTANT NoByte  \* memory that was allocated and never written

(* new char[capacity]; the memset that some of the buffers do is left out, *)
(* so that a read of memory nobody wrote shows.                            *)
Allocated(capacity) == [i \in 0..capacity - 1 |-> NoByte]

(* memcpy(dest + at, src + from, n).  A copy that runs over the end of the *)
(* destination makes its domain grow; a read beyond the source is an error. *)
Copy(dest, at, src, from, n) ==
  [i \in (DOMAIN dest) \union (at..at + n - 1) |->
     IF i \in at..at + n - 1 THEN src[from + i - at] ELSE dest[i]]

(* The loop of ensure: doubling, plus one, until the capacity is enough. *)
Grown(capacity, need) ==
  LET newcapacity[c \in Nat] == IF c < need THEN newcapacity[2 * c + 1] ELSE c
  IN newcapacity[capacity]

===============================================================================

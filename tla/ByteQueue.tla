------------------------------- MODULE ByteQueue ------------------------------
(***************************************************************************)
(* What IIOBuffer promises: bytes come out in the order they went in, each *)
(* exactly once, however many are written or taken at a time.              *)
(***************************************************************************)
EXTENDS Naturals, Sequences

VARIABLES queue,  \* the bytes written and not yet taken
          moved   \* the bytes that the last operation wrote, took or showed

vars == <<queue, moved>>

Init == queue = <<>> /\ moved = <<>>

Put == moved' # <<>> /\ queue' = queue \o moved'

Take(n) ==
  /\ moved' = SubSeq(queue, 1, n)
  /\ queue' = SubSeq(queue, n + 1, Len(queue))

Peek(n) ==
  /\ moved' = SubSeq(queue, 1, n)
  /\ UNCHANGED queue

Clear == queue' = <<>> /\ UNCHANGED moved

Next == Put \/ Clear \/ \E n \in 1..Len(queue): Take(n) \/ Peek(n)

Spec == Init /\ [][Next]_vars

===============================================================================

----------------------------- MODULE MCRingBuffer -----------------------------
(* RingBuffer with capacities of a few bytes instead of kilobytes. *)
EXTENDS RingBuffer

CONSTANTS a, b
===============================================================================

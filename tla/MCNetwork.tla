------------------------------ MODULE MCNetwork -------------------------------
(***************************************************************************)
(* Network on small instances: two slots, the second of which two keys     *)
(* (two generations of one index) share.                                   *)
(***************************************************************************)
EXTENDS Network, TLC

CONSTANTS k1, k2, k3, s1, s2

MCSlotOf == [k \in Keys |-> IF k = k1 THEN s1 ELSE s2]

(* The two keys of the second slot are interchangeable. *)
MCSymmetry == Permutations({k2, k3})
===============================================================================

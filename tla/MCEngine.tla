------------------------------- MODULE MCEngine -------------------------------
(* Engine with a few uids; one node to connect to, another one that answers. *)
EXTENDS Engine, TLC

CONSTANTS k1, k2, k3, c1

MCSymmetry == Permutations(Keys)
===============================================================================

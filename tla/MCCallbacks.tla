----------------------------- MODULE MCCallbacks ------------------------------
(* Callbacks with more handlers than ids, and two uids. *)
EXTENDS Callbacks

CONSTANTS h1, h2, h3, u1, u2
===============================================================================

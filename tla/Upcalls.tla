-------------------------------- MODULE Upcalls --------------------------------
(***************************************************************************)
(* What the engine promises the application about each uid, whatever the   *)
(* network reports and the application calls: it is told that the uid is   *)
(* up (onListen, onAccept, onConnect), then perhaps that a node joined     *)
(* through it (onNodeConnect), then that it ended (onUnlisten, onClose,    *)
(* onDisconnect).  A node that joined leaves (onNodeDisConnect) with the   *)
(* end and not before it, and an ended uid begins nothing again.           *)
(***************************************************************************)
CONSTANT Keys

VARIABLE phase  \* of each uid: "new", "up", "joined" or "ended"

Init == phase = [k \in Keys |-> "new"]

Goes(k, from, to) ==
  /\ phase[k] \in from
  /\ phase' = [phase EXCEPT ![k] = to]

Up(k)    == Goes(k, {"new"}, "up")
Joins(k) == Goes(k, {"up"}, "joined")
Ends(k)  == Goes(k, {"up", "joined"}, "ended")

Next == \E k \in Keys: Up(k) \/ Joins(k) \/ Ends(k)

Spec == Init /\ [][Next]_phase

===============================================================================

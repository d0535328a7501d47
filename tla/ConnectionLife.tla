---------------------------- MODULE ConnectionLife ----------------------------
(***************************************************************************)
(* What CNetwork promises the protocol that owns a key.  Until the network *)
(* says that the connection is up (onAccept, onConnect(true)) attempts may *)
(* fail any number of times; after that it is reported down (onClose,      *)
(* onDisConnect) once, and nothing is reported any more.  A key leaves the *)
(* object table only if its owner is not left believing that the           *)
(* connection is up, and never comes back.  A listener's life has the same *)
(* shape: onListen, then onUnlisten.                                       *)
(***************************************************************************)
EXTENDS Naturals

CONSTANT Keys

VARIABLES life,     \* what the owner of each key was told last
          reports,  \* how often it was told "up" or "ended"
          live      \* the keys present in the object table

vars == <<life, reports, live>>

TypeOK ==
  /\ life \in [Keys -> {"idle", "failed", "up", "ended"}]
  /\ reports \in [Keys -> 0..2]
  /\ live \subseteq Keys

Init ==
  /\ life = [k \in Keys |-> "idle"]
  /\ reports = [k \in Keys |-> 0]
  /\ live = {}

Report(k, what) ==
  /\ life' = [life EXCEPT ![k] = what]
  /\ reports' = [reports EXCEPT ![k] = @ + 1]

(* Not answered yet, or failed and kept for another attempt. *)
Trying(k) == life[k] = "idle" \/ (life[k] = "failed" /\ k \in live)

Attempt(k) ==
  /\ life[k] = "idle"
  /\ live' = live \union {k}
  /\ UNCHANGED <<life, reports>>

Fail(k) ==
  /\ Trying(k)
  /\ life' = [life EXCEPT ![k] = "failed"]
  /\ live' \in {live, live \ {k}}
  /\ UNCHANGED reports

Up(k) ==
  /\ Trying(k)
  /\ Report(k, "up")
  /\ live' = live \union {k}

(* The owner is told at once; the entry may stay while output drains. *)
Down(k) ==
  /\ life[k] = "up"
  /\ Report(k, "ended")
  /\ live' \in {live, live \ {k}}

Drained(k) ==
  /\ life[k] = "ended"
  /\ live' = live \ {k}
  /\ UNCHANGED <<life, reports>>

Next == \E k \in Keys: Attempt(k) \/ Fail(k) \/ Up(k) \/ Down(k) \/ Drained(k)

Spec == Init /\ [][Next]_vars

===============================================================================

------------------------------ MODULE EngineProofs -----------------------------
(***************************************************************************)
(* Proofs about Engine, for any number of uids and nodes, a queue of any   *)
(* length and whatever the application confirms.                           *)
(***************************************************************************)
EXTENDS Engine, Integers, SequenceTheorems, TLAPS

USE KeysAssumption

-------------------------------------------------------------------------------
(* The inductive invariant, uid by uid. *)

(* What the network has said of a uid so far. *)
LifeOf(k) ==
  /\ reports[k] = CASE life[k] = "up" -> 1 [] life[k] = "ended" -> 2 [] OTHER -> 0
  /\ kind[k] = "none" => life[k] = "idle" /\ nodes.connecting[k] = NoCode

(* A uid was up once at most, as the network said, and is available only   *)
(* after that; it leaves _protocols when it ends.                          *)
UpcallsOf(k) ==
  /\ nodes.ups[k] <= 1
  /\ life[k] \in {"idle", "failed"} => nodes.ups[k] = 0
  /\ k \in available => nodes.ups[k] = 1
  /\ nodes.ends[k] > 0 => nodes.ups[k] = 1
  /\ kind[k] # "session" => nodes.ends[k] <= nodes.ups[k]
  /\ k \in protocols => nodes.ends[k] = 0

(* The tables of NetEngine hold uids of their kind; a uid whose node has   *)
(* left is in no table, and cannot join again.                             *)
TablesOf(k) ==
  /\ k \in nodes.peers \union nodes.accepted => k \in protocols \intersect available
  /\ k \in nodes.peers => kind[k] \in {"session", "connector"}
  /\ nodes.connecting[k] # NoCode =>
       kind[k] = "connector" /\ nodes.uid[nodes.connecting[k]] = k
  /\ nodes.joined[k] <= 1
  /\ nodes.joined[k] = nodes.left[k] + IF k \in nodes.peers THEN 1 ELSE 0
  /\ nodes.joined[k] = 1 => nodes.ups[k] = 1
  /\ nodes.joined[k] = 1 /\ k \notin nodes.peers =>
       k \notin nodes.accepted /\ nodes.connecting[k] = NoCode

(* What the engine forgot is closed, or will be: GivenUpIsClosed. *)
GivenUpOf(k) ==
  kind[k] \in {"connector", "listener"} /\ k \notin protocols =>
    \/ k \in closing
    \/ life[k] = "ended" \/ (life[k] = "failed" /\ k \notin live)

KeyInv(k) == LifeOf(k) /\ UpcallsOf(k) /\ TablesOf(k) /\ GivenUpOf(k)

KnownInv == \A c \in Codes: c \notin nodes.known => nodes.uid[c] = NoKey

(* The kinds of packets that the network posts for a kind of uid. *)
Fits(type, for) ==
  \/ type \in {"listen", "unlisten"} /\ for = "listener"
  \/ type \in {"connect", "disconnect"} /\ for = "connector"
  \/ type \in {"accept", "close"} /\ for = "session"
  \/ type \in {"ping", "pong"} /\ for \in {"session", "connector"}

SaysUp(p)  == p.type = "accept" \/ (p.type \in {"listen", "connect"} /\ p.ok)
SaysEnd(p) == p.type \in {"unlisten", "close", "disconnect"}

PacketInv(p) ==
  /\ Fits(p.type, kind[p.key])
  /\ SaysUp(p) => life[p.key] \in {"up", "ended"} /\ nodes.ups[p.key] = 0
  /\ SaysEnd(p) => life[p.key] = "ended" /\ ~p.ok

(* A uid is said to be up by one packet. *)
InboxInv ==
  /\ \A i \in 1..Len(inbox): PacketInv(inbox[i])
  /\ \A i, j \in 1..Len(inbox):
       SaysUp(inbox[i]) /\ SaysUp(inbox[j]) /\ inbox[i].key = inbox[j].key => i = j

IInv ==
  /\ TypeOK
  /\ \A k \in Keys: KeyInv(k)
  /\ KnownInv /\ InboxInv

-------------------------------------------------------------------------------
(* The upcalls.  Each one changes the tables at its own uid only, but that *)
(* the uid of the node that k was connecting to is forgotten.              *)

Sessions == {k \in Keys: kind[k] = "session"}

NodeTables ==
  [listener: Keys \union {NoKey}, known: SUBSET Codes, uid: [Codes -> Keys \union {NoKey}],
   connecting: [Keys -> Codes \union {NoCode}],
   accepted: SUBSET Sessions, peers: SUBSET Keys,
   ups: [Keys -> Nat], ends: [Keys -> Nat], joined: [Keys -> Nat], left: [Keys -> Nat]]

SameAt(g, n, m) ==
  /\ m.ups[g] = n.ups[g] /\ m.ends[g] = n.ends[g]
  /\ m.joined[g] = n.joined[g] /\ m.left[g] = n.left[g]
  /\ m.connecting[g] = n.connecting[g]
  /\ g \in m.peers <=> g \in n.peers
  /\ g \in m.accepted <=> g \in n.accepted

OthersKept(n, m, k) ==
  /\ \A g \in Keys \ {k}: SameAt(g, n, m)
  /\ m.known = n.known
  /\ \A c \in Codes: m.uid[c] = n.uid[c] \/ (m.uid[c] = NoKey /\ c = n.connecting[k])

(* What the changed counter of an upcall has become. *)
Counted(f, e, k, by) == e[k] = f[k] + by /\ \A g \in Keys \ {k}: e[g] = f[g]

LEMMA TablesFields ==
  ASSUME NEW n \in NodeTables, NEW k \in Keys
  PROVE  /\ [n.ups EXCEPT ![k] = n.ups[k] + 1] \in [Keys -> Nat]
         /\ [n.ends EXCEPT ![k] = n.ends[k] + 1] \in [Keys -> Nat]
         /\ [n.joined EXCEPT ![k] = n.joined[k] + 1] \in [Keys -> Nat]
         /\ [n.left EXCEPT ![k] = n.left[k] + 1] \in [Keys -> Nat]
         /\ n.peers \ {k} \in SUBSET Keys /\ n.peers \union {k} \in SUBSET Keys
         /\ n.accepted \ {k} \in SUBSET Sessions
         /\ n.accepted \in SUBSET Sessions /\ n.uid \in [Codes -> Keys \union {NoKey}]
         /\ n.listener \in Keys \union {NoKey}
         /\ n.connecting \in [Keys -> Codes \union {NoCode}]
BY DEF NodeTables

LEMMA UpEffect ==
  ASSUME NEW n \in NodeTables, NEW k \in Keys, NEW m, NEW success \in BOOLEAN,
         m = OnListen(n, k, success)
  PROVE  /\ m \in NodeTables
         /\ Counted(n.ups, m.ups, k, IF success THEN 1 ELSE 0)
         /\ m.ends = n.ends /\ m.joined = n.joined /\ m.left = n.left
         /\ m.connecting = n.connecting /\ m.uid = n.uid /\ m.known = n.known
         /\ m.peers = n.peers /\ m.accepted = n.accepted
<1>1. CASE ~success
  BY <1>1 DEF NodeTables, OnListen, Counted
<1>2. CASE success
  <2> DEFINE e == [n.ups EXCEPT ![k] = n.ups[k] + 1]
  <2>1. m = [n EXCEPT !.ups = e]
    BY <1>2 DEF NodeTables, OnListen
  <2>2. e \in [Keys -> Nat] /\ Counted(n.ups, e, k, 1)
    BY DEF NodeTables, Counted
  <2> HIDE DEF e
  <2> QED
    BY <1>2, <2>1, <2>2 DEF NodeTables
<1> QED
  BY <1>1, <1>2

LEMMA AcceptEffect ==
  ASSUME NEW n \in NodeTables, NEW k \in Sessions, NEW from \in Keys, NEW m,
         m = OnAccept(n, k, from)
  PROVE  /\ m \in NodeTables
         /\ Counted(n.ups, m.ups, k, 1)
         /\ m.accepted \in {n.accepted, n.accepted \union {k}}
         /\ m.ends = n.ends /\ m.joined = n.joined /\ m.left = n.left
         /\ m.connecting = n.connecting /\ m.uid = n.uid /\ m.known = n.known
         /\ m.peers = n.peers
<1> DEFINE A == IF n.listener = from THEN n.accepted \union {k} ELSE n.accepted
           e == [n.ups EXCEPT ![k] = n.ups[k] + 1]
<1>1. k \in Keys
  BY DEF Sessions
<1>2. m = [n EXCEPT !.ups = e, !.accepted = A]
  BY <1>1 DEF NodeTables, OnAccept
<1>3. A \in SUBSET Sessions /\ e \in [Keys -> Nat]
  BY TablesFields, <1>1
<1>4. A \in {n.accepted, n.accepted \union {k}} /\ Counted(n.ups, e, k, 1)
  BY <1>1 DEF NodeTables, Counted
<1> HIDE DEF A, e
<1> QED
  BY <1>2, <1>3, <1>4 DEF NodeTables

LEMMA LeavesEffect ==
  ASSUME NEW n \in NodeTables, NEW k \in Keys, NEW m, m = NodeLeaves(n, k)
  PROVE  /\ m \in NodeTables
         /\ Counted(n.left, m.left, k, IF k \in n.peers THEN 1 ELSE 0)
         /\ m.peers = n.peers \ {k}
         /\ m.ups = n.ups /\ m.ends = n.ends /\ m.joined = n.joined
         /\ m.connecting = n.connecting /\ m.uid = n.uid /\ m.known = n.known
         /\ m.accepted = n.accepted
<1>1. CASE k \notin n.peers
  BY <1>1 DEF NodeTables, NodeLeaves, Counted
<1>2. CASE k \in n.peers
  <2> DEFINE P == n.peers \ {k}
             e == [n.left EXCEPT ![k] = n.left[k] + 1]
  <2>1. m = [n EXCEPT !.peers = P, !.left = e]
    BY <1>2 DEF NodeTables, NodeLeaves
  <2>2. P \in SUBSET Keys /\ e \in [Keys -> Nat] /\ Counted(n.left, e, k, 1)
    BY TablesFields DEF NodeTables, Counted
  <2>3. P = n.peers \ {k}
    OBVIOUS
  <2> HIDE DEF P, e
  <2> QED
    BY <1>2, <2>1, <2>2, <2>3 DEF NodeTables
<1> QED
  BY <1>1, <1>2

LEMMA JoinsEffect ==
  ASSUME NEW n \in NodeTables, NEW k \in Keys, NEW m, m = NodeJoins(n, k)
  PROVE  /\ m \in NodeTables
         /\ Counted(n.joined, m.joined, k, 1)
         /\ m.peers = n.peers \union {k}
         /\ m.ups = n.ups /\ m.ends = n.ends /\ m.left = n.left
         /\ m.connecting = n.connecting /\ m.uid = n.uid /\ m.known = n.known
         /\ m.accepted = n.accepted
<1> DEFINE P == n.peers \union {k}
           e == [n.joined EXCEPT ![k] = n.joined[k] + 1]
<1>1. m = [n EXCEPT !.peers = P, !.joined = e]
  BY DEF NodeTables, NodeJoins
<1>2. P \in SUBSET Keys /\ e \in [Keys -> Nat] /\ Counted(n.joined, e, k, 1)
  BY TablesFields DEF NodeTables, Counted
<1>3. P = n.peers \union {k}
  OBVIOUS
<1> HIDE DEF P, e
<1> QED
  BY <1>1, <1>2, <1>3 DEF NodeTables

(* The end of a uid, whichever upcall tells it, leaves it in no table. *)
LEMMA EndEffect ==
  ASSUME NEW n \in NodeTables, NEW k \in Keys, NEW m, m = OnEnd(n, k),
         kind[k] \in {"listener", "session", "connector"},
         k \in n.peers => kind[k] # "listener",
         n.connecting[k] # NoCode => kind[k] = "connector"
  PROVE  /\ m \in NodeTables /\ OthersKept(n, m, k)
         /\ m.ends[k] = n.ends[k] + 1
         /\ m.left[k] = n.left[k] + IF k \in n.peers THEN 1 ELSE 0
         /\ k \notin m.peers /\ k \notin m.accepted /\ m.connecting[k] = NoCode
         /\ m.ups[k] = n.ups[k] /\ m.joined[k] = n.joined[k]
<1> DEFINE e == [n.ends EXCEPT ![k] = n.ends[k] + 1]
<1>1. e \in [Keys -> Nat] /\ Counted(n.ends, e, k, 1)
  BY TablesFields DEF NodeTables, Counted
<1>2. k \in n.accepted => kind[k] = "session"
  BY DEF NodeTables, Sessions
<1>3. CASE kind[k] = "listener"
  <2> DEFINE l == IF n.listener = k THEN NoKey ELSE n.listener
  <2>1. m = [n EXCEPT !.ends = e, !.listener = l]
    BY <1>3 DEF OnEnd, OnUnlisten, NodeTables
  <2>2. l \in Keys \union {NoKey}
    BY TablesFields
  <2> HIDE DEF e, l
  <2>3. m \in NodeTables
    BY <1>1, <2>1, <2>2 DEF NodeTables
  <2>4. /\ m.ends = e /\ m.ups = n.ups /\ m.joined = n.joined /\ m.left = n.left
        /\ m.connecting = n.connecting /\ m.uid = n.uid /\ m.known = n.known
        /\ m.peers = n.peers /\ m.accepted = n.accepted
    BY <2>1 DEF NodeTables
  <2> QED
    BY <1>1, <1>2, <1>3, <2>3, <2>4 DEF OthersKept, SameAt, Counted, NodeTables
<1>4. CASE kind[k] = "session"
  <2> DEFINE A == n.accepted \ {k}
             q == [n EXCEPT !.ends = e, !.accepted = A]
  <2>1. m = NodeLeaves(q, k)
    BY <1>4 DEF OnEnd, OnClose, NodeTables
  <2>2. A \in SUBSET Sessions /\ k \notin A /\ \A g \in Keys \ {k}: g \in A <=> g \in n.accepted
    BY TablesFields
  <2> HIDE DEF e, A
  <2>3. q \in NodeTables
    BY <1>1, <2>2 DEF NodeTables
  <2>4. /\ q.ends = e /\ q.ups = n.ups /\ q.joined = n.joined /\ q.left = n.left
        /\ q.connecting = n.connecting /\ q.uid = n.uid /\ q.known = n.known
        /\ q.peers = n.peers /\ q.accepted = A
    BY DEF NodeTables
  <2> HIDE DEF q
  <2>5. /\ m \in NodeTables
        /\ Counted(q.left, m.left, k, IF k \in q.peers THEN 1 ELSE 0)
        /\ m.peers = q.peers \ {k}
        /\ m.ups = q.ups /\ m.ends = q.ends /\ m.joined = q.joined
        /\ m.connecting = q.connecting /\ m.uid = q.uid /\ m.known = q.known
        /\ m.accepted = q.accepted
    BY <2>1, <2>3, LeavesEffect
  <2> QED
    BY <1>1, <1>4, <2>2, <2>4, <2>5 DEF OthersKept, SameAt, Counted
<1>5. CASE kind[k] = "connector"
  <2> DEFINE cs == [n.connecting EXCEPT ![k] = NoCode]
             u == [d \in Codes |-> IF d = n.connecting[k] THEN NoKey ELSE n.uid[d]]
             q == [n EXCEPT !.ends = e, !.connecting = cs, !.uid = u]
  <2>1. m = NodeLeaves(q, k)
    BY <1>5 DEF OnEnd, OnDisconnect, NodeTables
  <2>2. /\ cs \in [Keys -> Codes \union {NoCode}] /\ cs[k] = NoCode
        /\ \A g \in Keys \ {k}: cs[g] = n.connecting[g]
    BY DEF NodeTables
  <2>3. /\ u \in [Codes -> Keys \union {NoKey}]
        /\ \A c \in Codes: u[c] = n.uid[c] \/ (u[c] = NoKey /\ c = n.connecting[k])
    BY DEF NodeTables
  <2> HIDE DEF e, cs, u
  <2>4. q \in NodeTables
    BY <1>1, <2>2, <2>3 DEF NodeTables
  <2>5. /\ q.ends = e /\ q.ups = n.ups /\ q.joined = n.joined /\ q.left = n.left
        /\ q.connecting = cs /\ q.uid = u /\ q.known = n.known
        /\ q.peers = n.peers /\ q.accepted = n.accepted
    BY DEF NodeTables
  <2> HIDE DEF q
  <2>6. /\ m \in NodeTables
        /\ Counted(q.left, m.left, k, IF k \in q.peers THEN 1 ELSE 0)
        /\ m.peers = q.peers \ {k}
        /\ m.ups = q.ups /\ m.ends = q.ends /\ m.joined = q.joined
        /\ m.connecting = q.connecting /\ m.uid = q.uid /\ m.known = q.known
        /\ m.accepted = q.accepted
    BY <2>1, <2>4, LeavesEffect
  <2> QED
    BY <1>1, <1>2, <1>5, <2>2, <2>3, <2>5, <2>6 DEF OthersKept, SameAt, Counted
<1> QED
  BY <1>3, <1>4, <1>5

-------------------------------------------------------------------------------
(* Steps that change the engine's state at one uid. *)

Types ==
  /\ kind \in [Keys -> {"none", "listener", "connector", "session"}]
  /\ Net!TypeOK
  /\ closing \subseteq Keys
  /\ protocols \union available \subseteq {k \in Keys: kind[k] # "none"}
  /\ nodes \in NodeTables

LEMMA TypesOfAll ==
  TypeOK <=> /\ Types
             /\ inbox \in Seq(Packets)
             /\ waiting \in [key: Keys \union {NoKey}, polled: BOOLEAN]
BY DEF TypeOK, Types, NodeTables, Sessions

KeysInv == (\A k \in Keys: KeyInv(k)) /\ KnownInv

SameUid(g) ==
  /\ kind'[g] = kind[g] /\ life'[g] = life[g] /\ reports'[g] = reports[g]
  /\ g \in live' <=> g \in live
  /\ g \in closing' <=> g \in closing
  /\ g \in protocols' <=> g \in protocols
  /\ g \in available' <=> g \in available
  /\ SameAt(g, nodes, nodes')

LEMMA KeyFrame ==
  ASSUME NEW g \in Keys, KeyInv(g), SameUid(g),
         nodes.connecting[g] # NoCode =>
           nodes'.uid[nodes.connecting[g]] = nodes.uid[nodes.connecting[g]]
  PROVE  KeyInv(g)'
<1>1. LifeOf(g)'
  BY DEF KeyInv, LifeOf, SameUid, SameAt
<1>2. UpcallsOf(g)'
  BY DEF KeyInv, UpcallsOf, SameUid, SameAt
<1>3. TablesOf(g)'
  BY DEF KeyInv, TablesOf, SameUid, SameAt
<1>4. GivenUpOf(g)'
  BY DEF KeyInv, GivenUpOf, SameUid
<1> QED
  BY <1>1, <1>2, <1>3, <1>4 DEF KeyInv

(* A handler, or a call, about the uid k. *)
OnlyAt(k) ==
  /\ UNCHANGED <<kind, netvars>>
  /\ nodes' \in NodeTables /\ OthersKept(nodes, nodes', k)
  /\ closing' \subseteq Keys
  /\ protocols' \union available' \subseteq {g \in Keys: kind[g] # "none"}
  /\ \A g \in Keys \ {k}: /\ g \in closing' <=> g \in closing
                          /\ g \in protocols' <=> g \in protocols
                          /\ g \in available' <=> g \in available

(* What the application is told in a step about the uid k: nothing, up,    *)
(* that a node joins, or the end, with which its node leaves.              *)
SameTold(k) ==
  /\ nodes'.ups[k] = nodes.ups[k] /\ nodes'.ends[k] = nodes.ends[k]
  /\ k \in nodes'.peers <=> k \in nodes.peers

Tells(k) ==
  \/ SameTold(k)
  \/ /\ nodes'.ups[k] = nodes.ups[k] + 1 /\ nodes'.ends[k] = nodes.ends[k]
     /\ k \in nodes'.peers <=> k \in nodes.peers
  \/ /\ k \in nodes'.peers
     /\ nodes'.ups[k] = nodes.ups[k] /\ nodes'.ends[k] = nodes.ends[k]
  \/ /\ nodes'.ends[k] = nodes.ends[k] + 1 /\ nodes'.ups[k] = nodes.ups[k]
     /\ k \notin nodes'.peers

LEMMA OneUid ==
  ASSUME Types, KeysInv, NEW k \in Keys, OnlyAt(k), KeyInv(k)'
  PROVE  Types' /\ KeysInv'
<1>1. Types'
  BY DEF Types, OnlyAt, netvars, Net!TypeOK, NodeTables, Sessions
<1>2. ASSUME NEW g \in Keys, g # k PROVE KeyInv(g)'
  <2>1. SameUid(g)
    BY <1>2 DEF OnlyAt, SameUid, OthersKept, netvars
  <2>2. KeyInv(g) /\ KeyInv(k)
    BY DEF KeysInv
  <2>3. ASSUME nodes.connecting[g] # NoCode
        PROVE  nodes'.uid[nodes.connecting[g]] = nodes.uid[nodes.connecting[g]]
    <3>1. nodes.connecting[g] \in Codes
      BY <2>3 DEF Types, NodeTables
    <3>2. nodes.uid[nodes.connecting[g]] = g
      BY <2>2, <2>3 DEF KeyInv, TablesOf
    <3>3. nodes.connecting[g] # nodes.connecting[k]
      BY <1>2, <2>2, <2>3, <3>2 DEF KeyInv, TablesOf
    <3> QED
      BY <3>1, <3>3 DEF OnlyAt, OthersKept
  <2> QED
    BY <2>1, <2>2, <2>3, KeyFrame
<1>3. KnownInv'
  BY DEF KeysInv, KnownInv, OnlyAt, OthersKept
<1> QED
  BY <1>1, <1>2, <1>3 DEF KeysInv

-------------------------------------------------------------------------------
(* The handlers of packets, one uid each. *)

StateInv == Types /\ KeysInv

LEMMA KeyTypes ==
  ASSUME StateInv, NEW k \in Keys
  PROVE  /\ KeyInv(k) /\ nodes \in NodeTables
         /\ nodes.ups[k] \in Nat /\ nodes.ends[k] \in Nat
         /\ nodes.joined[k] \in Nat /\ nodes.left[k] \in Nat
         /\ nodes.connecting[k] \in Codes \union {NoCode}
         /\ k \in protocols \union available =>
              kind[k] \in {"listener", "session", "connector"}
         /\ k \in nodes.accepted => kind[k] = "session"
BY DEF StateInv, KeysInv, Types, NodeTables, Sessions

LEMMA NothingStep ==
  ASSUME StateInv, NEW k \in Keys, UNCHANGED <<kind, netvars>>, Nothing
  PROVE  OnlyAt(k) /\ KeyInv(k)' /\ Tells(k) /\ nodes' = nodes
<1>1. nodes' = nodes /\ Tells(k)
  BY DEF Nothing, Tells, SameTold
<1>2. OnlyAt(k)
  BY <1>1, KeyTypes DEF Nothing, OnlyAt, StateInv, Types, OthersKept, SameAt
<1>3. SameUid(k)
  BY <1>1 DEF Nothing, SameUid, SameAt, netvars
<1> QED
  BY <1>1, <1>2, <1>3, KeyTypes, KeyFrame

(* The uid is told to have ended, and is available no longer or forgotten. *)
LEMMA EndStep ==
  ASSUME StateInv, NEW k \in Keys, UNCHANGED <<kind, netvars>>,
         k \in available, kind[k] # "session" => k \in protocols,
         nodes' = OnEnd(nodes, k),
         protocols' = protocols \ {k},
         available' \in {available, available \ {k}},
         closing' \in {closing, closing \union {k}},
         k \in closing' \/ life[k] = "ended" \/ kind[k] = "session"
  PROVE  /\ OnlyAt(k) /\ KeyInv(k)' /\ Tells(k)
         /\ \A g \in Keys: nodes'.ups[g] = nodes.ups[g]
<1> DEFINE m == OnEnd(nodes, k)
<1>1. KeyInv(k) /\ nodes \in NodeTables /\ kind[k] \in {"listener", "session", "connector"}
  BY KeyTypes
<1>2. /\ m \in NodeTables /\ OthersKept(nodes, m, k)
      /\ m.ends[k] = nodes.ends[k] + 1
      /\ m.left[k] = nodes.left[k] + IF k \in nodes.peers THEN 1 ELSE 0
      /\ k \notin m.peers /\ k \notin m.accepted /\ m.connecting[k] = NoCode
      /\ m.ups[k] = nodes.ups[k] /\ m.joined[k] = nodes.joined[k]
  BY <1>1, EndEffect DEF KeyInv, TablesOf
<1> HIDE DEF m
<1>3. OnlyAt(k)
  BY <1>2 DEF OnlyAt, StateInv, Types, m
<1>4. LifeOf(k)'
  BY <1>1, <1>2 DEF KeyInv, LifeOf, netvars, m
<1>5. UpcallsOf(k)'
  <2>1. nodes.ups[k] = 1 /\ nodes.ends[k] \in Nat /\ life[k] \notin {"idle", "failed"}
    BY <1>1, KeyTypes DEF KeyInv, UpcallsOf
  <2>2. kind[k] # "session" => nodes.ends[k] = 0
    BY <1>1 DEF KeyInv, UpcallsOf
  <2> QED
    BY <1>2, <2>1, <2>2 DEF UpcallsOf, netvars, m
<1>6. TablesOf(k)'
  BY <1>1, <1>2, KeyTypes DEF KeyInv, TablesOf, UpcallsOf, m
<1>7. GivenUpOf(k)'
  BY DEF GivenUpOf, netvars
<1>8. \A g \in Keys: nodes'.ups[g] = nodes.ups[g]
  BY <1>2 DEF OthersKept, SameAt, m
<1>9. Tells(k)
  BY <1>2 DEF Tells, m
<1> QED
  BY <1>3, <1>4, <1>5, <1>6, <1>7, <1>8, <1>9 DEF KeyInv

(* IOEngine::close: a protocol that is not available is told nothing. *)
LEMMA CloseStep ==
  ASSUME StateInv, NEW k \in Keys, UNCHANGED <<kind, netvars, available>>,
         CloseUid(nodes, k)
  PROVE  /\ OnlyAt(k) /\ KeyInv(k)' /\ Tells(k)
         /\ \A g \in Keys: nodes'.ups[g] = nodes.ups[g]
<1>1. CASE k \notin protocols
  <2>1. Nothing
    BY <1>1 DEF CloseUid, Nothing
  <2> QED
    BY <2>1, NothingStep
<1>2. CASE k \in protocols \ available
  <2>1. /\ nodes' = nodes /\ protocols' = protocols \ {k} /\ closing' = closing \union {k}
        /\ available' = available
    BY <1>2 DEF CloseUid
  <2>2. OnlyAt(k)
    BY <2>1, KeyTypes DEF OnlyAt, StateInv, Types, OthersKept, SameAt
  <2>3. LifeOf(k)' /\ UpcallsOf(k)' /\ TablesOf(k)' /\ GivenUpOf(k)'
    <3>1. LifeOf(k)'
      BY <2>1, KeyTypes DEF KeyInv, LifeOf, netvars
    <3>2. UpcallsOf(k)'
      BY <2>1, KeyTypes DEF KeyInv, UpcallsOf, netvars
    <3>3. TablesOf(k)'
      BY <1>2, <2>1, KeyTypes DEF KeyInv, TablesOf
    <3>4. GivenUpOf(k)'
      BY <2>1 DEF GivenUpOf
    <3> QED
      BY <3>1, <3>2, <3>3, <3>4
  <2>4. Tells(k)
    BY <2>1 DEF Tells, SameTold
  <2> QED
    BY <2>1, <2>2, <2>3, <2>4 DEF KeyInv
<1>3. CASE k \in protocols \intersect available
  <2>1. /\ nodes' = OnEnd(nodes, k) /\ protocols' = protocols \ {k}
        /\ closing' = closing \union {k} /\ available' = available
    BY <1>3 DEF CloseUid
  <2> QED
    BY <1>3, <2>1, EndStep
<1> QED
  BY <1>1, <1>2, <1>3

(* onListen and onConnect: a uid that was not told before is told now. *)
LEMMA UpStep ==
  ASSUME StateInv, NEW k \in Keys, NEW success \in BOOLEAN, UNCHANGED <<kind, netvars>>,
         k \in protocols,
         success => life[k] \in {"up", "ended"} /\ nodes.ups[k] = 0,
         nodes' = OnListen(nodes, k, success),
         available' = IF success THEN available \union {k} ELSE available,
         UNCHANGED <<protocols, closing>>
  PROVE  /\ OnlyAt(k) /\ KeyInv(k)' /\ Tells(k)
         /\ \A g \in Keys: nodes'.ups[g] = nodes.ups[g] \/ (g = k /\ success)
<1> DEFINE m == OnListen(nodes, k, success)
<1>1. KeyInv(k) /\ nodes \in NodeTables
  BY KeyTypes
<1>2. /\ m \in NodeTables
      /\ Counted(nodes.ups, m.ups, k, IF success THEN 1 ELSE 0)
      /\ m.ends = nodes.ends /\ m.joined = nodes.joined /\ m.left = nodes.left
      /\ m.connecting = nodes.connecting /\ m.uid = nodes.uid /\ m.known = nodes.known
      /\ m.peers = nodes.peers /\ m.accepted = nodes.accepted
  BY <1>1, UpEffect
<1>3. nodes.ups[k] \in Nat /\ \A g \in Keys \ {k}: m.ups[g] = nodes.ups[g]
  BY <1>2, KeyTypes DEF Counted
<1>4. m.ups[k] = IF success THEN nodes.ups[k] + 1 ELSE nodes.ups[k]
  BY <1>2, <1>3 DEF Counted
<1> HIDE DEF m
<1>5. nodes' = m
  BY DEF m
<1>6. OnlyAt(k)
  BY <1>2, <1>3, <1>5 DEF OnlyAt, StateInv, Types, OthersKept, SameAt
<1>7. LifeOf(k)'
  BY <1>1, <1>2, <1>5 DEF KeyInv, LifeOf, netvars
<1>8. UpcallsOf(k)'
  BY <1>1, <1>2, <1>3, <1>4, <1>5, KeyTypes DEF KeyInv, UpcallsOf, netvars
<1>9. TablesOf(k)'
  BY <1>1, <1>2, <1>3, <1>4, <1>5, KeyTypes DEF KeyInv, TablesOf, UpcallsOf
<1>10. GivenUpOf(k)'
  BY <1>1 DEF KeyInv, GivenUpOf, netvars
<1>11. Tells(k)
  BY <1>2, <1>4, <1>5 DEF Tells, SameTold
<1> QED
  BY <1>3, <1>4, <1>5, <1>6, <1>7, <1>8, <1>9, <1>10, <1>11 DEF KeyInv

LEMMA AcceptStep ==
  ASSUME StateInv, NEW k \in Keys, NEW from \in Keys, UNCHANGED <<kind, netvars>>,
         kind[k] = "session", life[k] \in {"up", "ended"}, nodes.ups[k] = 0,
         nodes' = OnAccept(nodes, k, from),
         available' = available \union {k}, protocols' = protocols \union {k},
         UNCHANGED closing
  PROVE  /\ OnlyAt(k) /\ KeyInv(k)' /\ Tells(k)
         /\ \A g \in Keys: nodes'.ups[g] = nodes.ups[g] \/ g = k
<1> DEFINE m == OnAccept(nodes, k, from)
<1>1. KeyInv(k) /\ nodes \in NodeTables /\ k \in Sessions
  BY KeyTypes DEF Sessions
<1>2. /\ m \in NodeTables
      /\ Counted(nodes.ups, m.ups, k, 1)
      /\ m.accepted \in {nodes.accepted, nodes.accepted \union {k}}
      /\ m.ends = nodes.ends /\ m.joined = nodes.joined /\ m.left = nodes.left
      /\ m.connecting = nodes.connecting /\ m.uid = nodes.uid /\ m.known = nodes.known
      /\ m.peers = nodes.peers
  BY <1>1, AcceptEffect
<1>3. m.ups[k] = 1 /\ \A g \in Keys \ {k}: m.ups[g] = nodes.ups[g]
  BY <1>2 DEF Counted
<1> HIDE DEF m
<1>4. nodes' = m
  BY DEF m
<1>5. OnlyAt(k)
  BY <1>1, <1>2, <1>3, <1>4 DEF OnlyAt, StateInv, Types, OthersKept, SameAt
<1>6. LifeOf(k)'
  BY <1>1, <1>2, <1>4 DEF KeyInv, LifeOf, netvars
<1>7. UpcallsOf(k)'
  <2>1. nodes.ends[k] = 0
    BY <1>1, KeyTypes DEF KeyInv, UpcallsOf
  <2> QED
    BY <1>1, <1>2, <1>3, <1>4, <2>1 DEF KeyInv, UpcallsOf, netvars
<1>8. TablesOf(k)'
  <2>1. nodes.joined[k] = 0 /\ nodes.left[k] = 0 /\ nodes.connecting[k] = NoCode
    BY <1>1, KeyTypes DEF KeyInv, TablesOf
  <2> QED
    BY <1>1, <1>2, <1>3, <1>4, <2>1 DEF KeyInv, TablesOf
<1>9. GivenUpOf(k)'
  BY DEF GivenUpOf
<1>10. Tells(k)
  BY <1>2, <1>3, <1>4 DEF Tells
<1> QED
  BY <1>3, <1>4, <1>5, <1>6, <1>7, <1>8, <1>9, <1>10 DEF KeyInv

(* onUnlisten is not called: the upcall is onListen with no success. *)
LEMMA UnlistenStep ==
  ASSUME StateInv, NEW k \in Keys, UNCHANGED <<kind, netvars>>,
         kind[k] = "listener", life[k] = "ended", nodes' = nodes,
         available' = available \ {k}, protocols' = protocols \ {k}, UNCHANGED closing
  PROVE  OnlyAt(k) /\ KeyInv(k)' /\ Tells(k)
<1>1. KeyInv(k) /\ k \notin nodes.peers \union nodes.accepted
  BY KeyTypes DEF KeyInv, TablesOf
<1>2. OnlyAt(k)
  BY KeyTypes DEF OnlyAt, StateInv, Types, OthersKept, SameAt
<1>3. LifeOf(k)' /\ UpcallsOf(k)'
  BY <1>1 DEF KeyInv, LifeOf, UpcallsOf, netvars
<1>4. TablesOf(k)'
  BY <1>1 DEF KeyInv, TablesOf
<1>5. GivenUpOf(k)'
  BY DEF GivenUpOf, netvars
<1>6. Tells(k)
  BY DEF Tells, SameTold
<1> QED
  BY <1>2, <1>3, <1>4, <1>5, <1>6 DEF KeyInv

(* A ping or pong that is taken; a uid joins once. *)
LEMMA JoinStep ==
  ASSUME StateInv, NEW k \in Keys, UNCHANGED <<kind, netvars>>,
         k \in protocols \intersect available, k \notin nodes.peers,
         k \in nodes.accepted \/ nodes.connecting[k] # NoCode,
         nodes' = NodeJoins(nodes, k), UNCHANGED <<protocols, available, closing>>
  PROVE  /\ OnlyAt(k) /\ KeyInv(k)' /\ Tells(k)
         /\ \A g \in Keys: nodes'.ups[g] = nodes.ups[g]
<1> DEFINE m == NodeJoins(nodes, k)
<1>1. KeyInv(k) /\ nodes \in NodeTables
  BY KeyTypes
<1>2. /\ m \in NodeTables
      /\ Counted(nodes.joined, m.joined, k, 1)
      /\ m.peers = nodes.peers \union {k}
      /\ m.ups = nodes.ups /\ m.ends = nodes.ends /\ m.left = nodes.left
      /\ m.connecting = nodes.connecting /\ m.uid = nodes.uid /\ m.known = nodes.known
      /\ m.accepted = nodes.accepted
  BY <1>1, JoinsEffect
<1>3. m.joined[k] = nodes.joined[k] + 1 /\ \A g \in Keys \ {k}: m.joined[g] = nodes.joined[g]
  BY <1>2 DEF Counted
<1> HIDE DEF m
<1>4. nodes' = m
  BY DEF m
<1>5. OnlyAt(k)
  BY <1>2, <1>3, <1>4 DEF OnlyAt, StateInv, Types, OthersKept, SameAt
<1>6. LifeOf(k)' /\ UpcallsOf(k)' /\ GivenUpOf(k)'
  <2>1. LifeOf(k)'
    BY <1>1, <1>2, <1>4 DEF KeyInv, LifeOf, netvars
  <2>2. UpcallsOf(k)'
    BY <1>1, <1>2, <1>4 DEF KeyInv, UpcallsOf, netvars
  <2>3. GivenUpOf(k)'
    BY <1>1 DEF KeyInv, GivenUpOf, netvars
  <2> QED
    BY <2>1, <2>2, <2>3
<1>7. TablesOf(k)'
  <2>1. nodes.joined[k] = 0 /\ nodes.left[k] = 0
    BY <1>1, KeyTypes DEF KeyInv, TablesOf
  <2>2. nodes.ups[k] = 1 /\ kind[k] \in {"session", "connector"}
    BY <1>1, KeyTypes DEF KeyInv, TablesOf, UpcallsOf
  <2> QED
    BY <1>1, <1>2, <1>3, <1>4, <2>1, <2>2 DEF KeyInv, TablesOf
<1>8. Tells(k)
  BY <1>2, <1>4 DEF Tells
<1> QED
  BY <1>2, <1>4, <1>5, <1>6, <1>7, <1>8 DEF KeyInv

(* What a packet does: it is about one uid, and tells no uid to be up that *)
(* the packet does not say is up.                                          *)
PacketStep(p) ==
  /\ OnlyAt(p.key) /\ KeyInv(p.key)' /\ Tells(p.key)
  /\ \A g \in Keys: nodes'.ups[g] = nodes.ups[g] \/ (g = p.key /\ SaysUp(p))

LEMMA HandlerStep ==
  ASSUME StateInv, NEW p \in Packets, PacketInv(p), UNCHANGED <<kind, netvars>>,
         DispatchIOPacket(p)
  PROVE  PacketStep(p)
<1> DEFINE k == p.key
<1>1. k \in Keys /\ p.ok \in BOOLEAN /\ Fits(p.type, kind[k])
  BY DEF Packets, PacketInv
<1>2. CASE Nothing
  BY <1>1, <1>2, NothingStep DEF PacketStep
<1>3. CASE p.type = "listen" /\ ~Nothing
  <2>1. /\ k \in protocols /\ nodes' = OnListen(nodes, k, p.ok)
        /\ available' = IF p.ok THEN available \union {k} ELSE available
        /\ UNCHANGED <<protocols, closing>>
    BY <1>3 DEF DispatchIOPacket, OnIOListen
  <2>2. p.ok => SaysUp(p) /\ life[k] \in {"up", "ended"} /\ nodes.ups[k] = 0
    BY <1>3 DEF PacketInv, SaysUp
  <2> QED
    BY <1>1, <2>1, <2>2, UpStep DEF PacketStep
<1>4. CASE p.type = "connect" /\ ~Nothing
  <2>1. /\ k \in protocols /\ nodes' = OnListen(nodes, k, p.ok)
        /\ available' = IF p.ok THEN available \union {k} ELSE available
        /\ UNCHANGED <<protocols, closing>>
    BY <1>4 DEF DispatchIOPacket, OnIOConnect, OnConnect, OnListen
  <2>2. p.ok => SaysUp(p) /\ life[k] \in {"up", "ended"} /\ nodes.ups[k] = 0
    BY <1>4 DEF PacketInv, SaysUp
  <2> QED
    BY <1>1, <2>1, <2>2, UpStep DEF PacketStep
<1>5. CASE p.type = "unlisten" /\ ~Nothing
  <2>1. /\ nodes' = OnListen(nodes, k, p.ok) /\ available' = available \ {k}
        /\ protocols' = protocols \ {k} /\ UNCHANGED closing
    BY <1>5 DEF DispatchIOPacket, OnIOUnListen
  <2>2. ~p.ok /\ life[k] = "ended" /\ kind[k] = "listener"
    BY <1>1, <1>5 DEF PacketInv, SaysEnd, Fits
  <2>3. nodes' = nodes
    BY <2>1, <2>2 DEF OnListen
  <2> QED
    BY <1>1, <2>1, <2>2, <2>3, UnlistenStep DEF PacketStep
<1>6. CASE p.type = "accept" /\ ~Nothing
  <2>1. /\ p.from \in protocols /\ nodes' = OnAccept(nodes, k, p.from)
        /\ available' = available \union {k} /\ protocols' = protocols \union {k}
        /\ UNCHANGED closing
    BY <1>6 DEF DispatchIOPacket, OnIOAccept
  <2>2. /\ SaysUp(p) /\ life[k] \in {"up", "ended"} /\ nodes.ups[k] = 0
        /\ kind[k] = "session" /\ p.from \in Keys
    BY <1>1, <1>6, <2>1 DEF PacketInv, SaysUp, Fits, StateInv, Types
  <2> QED
    BY <1>1, <2>1, <2>2, AcceptStep DEF PacketStep
<1>7. CASE p.type = "close" /\ ~Nothing
  <2>1. /\ k \in available /\ nodes' = OnClose(nodes, k) /\ available' = available \ {k}
        /\ protocols' = protocols \ {k} /\ UNCHANGED closing
    BY <1>7 DEF DispatchIOPacket, OnIOClose
  <2>2. kind[k] = "session"
    BY <1>1, <1>7 DEF Fits
  <2>3. nodes' = OnEnd(nodes, k)
    BY <2>1, <2>2 DEF OnEnd
  <2> QED
    BY <1>1, <2>1, <2>2, <2>3, EndStep DEF PacketStep
<1>8. CASE p.type = "disconnect" /\ ~Nothing
  <2>1. /\ k \in protocols \intersect available /\ nodes' = OnDisconnect(nodes, k)
        /\ available' = available \ {k}
        /\ protocols' = protocols \ {k} /\ UNCHANGED closing
    BY <1>8 DEF DispatchIOPacket, OnIODisconnect
  <2>2. kind[k] = "connector" /\ life[k] = "ended"
    BY <1>1, <1>8 DEF Fits, PacketInv, SaysEnd
  <2>3. nodes' = OnEnd(nodes, k)
    BY <2>1, <2>2 DEF OnEnd
  <2> QED
    BY <1>1, <2>1, <2>2, <2>3, EndStep DEF PacketStep
<1>9. CASE p.type = "ping" /\ ~Nothing
  <2>1. k \in protocols \intersect available /\ HandlerNodePing(p)
    BY <1>9 DEF DispatchIOPacket, OnIOPacket
  <2>2. CASE p.ok /\ k \in nodes.accepted \ nodes.peers
    <3>1. nodes' = NodeJoins(nodes, k) /\ UNCHANGED <<protocols, available, closing>>
      BY <2>1, <2>2 DEF HandlerNodePing
    <3> QED
      BY <1>1, <2>1, <2>2, <3>1, JoinStep DEF PacketStep
  <2>3. CASE ~(p.ok /\ k \in nodes.accepted \ nodes.peers)
    <3>1. CloseUid(nodes, k) /\ UNCHANGED available
      BY <2>1, <2>3 DEF HandlerNodePing
    <3> QED
      BY <1>1, <3>1, CloseStep DEF PacketStep
  <2> QED
    BY <2>2, <2>3
<1>10. CASE p.type = "pong" /\ ~Nothing
  <2> DEFINE c == nodes.connecting[k]
             n == IF p.ok /\ c # NoCode THEN [nodes EXCEPT !.accepted = @ \ {k}] ELSE nodes
  <2>1. k \in protocols \intersect available /\ HandlerNodePong(p)
    BY <1>10 DEF DispatchIOPacket, OnIOPacket
  <2>2. n = nodes
    <3>1. nodes \in NodeTables /\ (c # NoCode => k \notin nodes.accepted)
      BY <1>1, KeyTypes DEF KeyInv, TablesOf
    <3> QED
      BY <3>1 DEF NodeTables
  <2>3. CASE p.ok /\ c # NoCode /\ c = p.from /\ k \notin n.peers
    <3>1. nodes' = NodeJoins(n, k) /\ UNCHANGED <<protocols, available, closing>>
      BY <2>1, <2>3 DEF HandlerNodePong
    <3> QED
      BY <1>1, <2>1, <2>2, <2>3, <3>1, JoinStep DEF PacketStep
  <2>4. CASE ~(p.ok /\ c # NoCode /\ c = p.from /\ k \notin n.peers)
    <3>1. CloseUid(n, k) /\ UNCHANGED available
      BY <2>1, <2>4 DEF HandlerNodePong
    <3> QED
      BY <1>1, <2>2, <3>1, CloseStep DEF PacketStep
  <2> QED
    BY <2>3, <2>4
<1> QED
  BY <1>2, <1>3, <1>4, <1>5, <1>6, <1>7, <1>8, <1>9, <1>10 DEF Packets

-------------------------------------------------------------------------------
(* The message queue. *)

LEMMA WithoutOne ==
  ASSUME NEW S, NEW s \in Seq(S), NEW i \in 1..Len(s)
  PROVE  /\ Without(s, i) \in Seq(S)
         /\ Len(Without(s, i)) = Len(s) - 1
         /\ \A j \in 1..Len(s) - 1: Without(s, i)[j] = IF j < i THEN s[j] ELSE s[j + 1]
<1> DEFINE left == SubSeq(s, 1, i - 1)
           right == SubSeq(s, i + 1, Len(s))
<1>1. /\ left \in Seq(S) /\ Len(left) = i - 1
      /\ \A j \in 1..i - 1: left[j] = s[j]
  BY SubSeqProperties
<1>2. /\ right \in Seq(S) /\ Len(right) = Len(s) - i
      /\ \A j \in 1..Len(s) - i: right[j] = s[i + j]
  BY SubSeqProperties
<1> HIDE DEF left, right
<1>3. /\ left \o right \in Seq(S)
      /\ Len(left \o right) = Len(left) + Len(right)
      /\ \A j \in 1..Len(left) + Len(right):
           (left \o right)[j] = IF j <= Len(left) THEN left[j] ELSE right[j - Len(left)]
  BY <1>1, <1>2, ConcatProperties
<1>4. \A j \in 1..Len(s) - 1:
        (left \o right)[j] = IF j < i THEN s[j] ELSE s[j + 1]
  BY <1>1, <1>2, <1>3
<1>5. Without(s, i) = left \o right
  BY DEF Without, left, right
<1>6. Len(left) + Len(right) = Len(s) - 1
  BY <1>1, <1>2
<1> QED
  BY <1>3, <1>4, <1>5, <1>6

(* A packet is taken out of the queue and handled. *)
LEMMA TakeStep ==
  ASSUME IInv, NEW i \in 1..Len(inbox), NEW p, p = inbox[i], DispatchIOPacket(p),
         UNCHANGED <<kind, netvars>>,
         inbox' \in Seq(Packets), Len(inbox') = Len(inbox) - 1,
         \A j \in 1..Len(inbox) - 1: inbox'[j] = IF j < i THEN inbox[j] ELSE inbox[j + 1]
  PROVE  StateInv' /\ InboxInv'
<1>1. StateInv /\ inbox \in Seq(Packets)
  BY TypesOfAll DEF IInv, StateInv, KeysInv
<1>2. \A h \in 1..Len(inbox): inbox[h] \in Packets /\ PacketInv(inbox[h])
  BY <1>1, ElementOfSeq DEF IInv, InboxInv
<1>3. p \in Packets /\ p.key \in Keys /\ PacketStep(p)
  <2>1. p \in Packets /\ PacketInv(p)
    BY <1>2
  <2> QED
    BY <1>1, <2>1, HandlerStep DEF Packets
<1>4. StateInv'
  BY <1>1, <1>3, OneUid DEF PacketStep, StateInv
<1> DEFINE at == [j \in 1..Len(inbox) - 1 |-> IF j < i THEN j ELSE j + 1]
<1>5. Len(inbox) \in Nat
  BY <1>1, LenProperties
<1>6. \A j \in 1..Len(inbox): j \in 1..Len(inbox) - 1 =>
        /\ at[j] \in 1..Len(inbox) /\ at[j] # i /\ inbox'[j] = inbox[at[j]]
  BY <1>5
<1>7. \A j, h \in 1..Len(inbox) - 1: at[j] = at[h] => j = h
  BY <1>5
<1> HIDE DEF at
<1>8. ASSUME NEW j \in 1..Len(inbox')
      PROVE  PacketInv(inbox[j])'
  <2>1. PICK h \in 1..Len(inbox): h # i /\ inbox'[j] = inbox[h]
    BY <1>5, <1>6
  <2>2. PICK q \in Packets: q = inbox[h]
    BY <1>2
  <2>3. PacketInv(q) /\ q.key \in Keys
    BY <1>2, <2>2 DEF Packets
  <2>4. SaysUp(q) => nodes'.ups[q.key] = nodes.ups[q.key]
    <3>1. SaysUp(q) /\ SaysUp(p) /\ q.key = p.key => h = i
      BY <2>2 DEF IInv, InboxInv
    <3> QED
      BY <1>3, <2>1, <2>3, <3>1 DEF PacketStep
  <2>5. PacketInv(q)'
    BY <2>3, <2>4 DEF PacketInv, SaysUp, SaysEnd, Fits, netvars
  <2> QED
    BY <2>1, <2>2, <2>5
<1>9. ASSUME NEW j \in 1..Len(inbox'), NEW h \in 1..Len(inbox'),
             SaysUp(inbox[j])', SaysUp(inbox[h])', inbox'[j].key = inbox'[h].key
      PROVE  j = h
  <2>1. /\ at[j] \in 1..Len(inbox) /\ inbox'[j] = inbox[at[j]]
        /\ at[h] \in 1..Len(inbox) /\ inbox'[h] = inbox[at[h]]
    BY <1>5, <1>6
  <2>2. at[j] = at[h]
    BY <1>9, <2>1 DEF IInv, InboxInv
  <2> QED
    BY <1>7, <2>2
<1>10. InboxInv'
  BY <1>8, <1>9 DEF InboxInv
<1> QED
  BY <1>4, <1>10

(* What keeps the queue's packets true: a uid keeps its kind, is not up    *)
(* again, and is told nothing.                                             *)
Stable ==
  \A k \in Keys:
    /\ kind[k] = "none" \/ kind'[k] = kind[k]
    /\ life[k] \in {"up", "ended"} => life'[k] \in {"up", "ended"}
    /\ life[k] = "ended" => life'[k] = "ended"
    /\ nodes'.ups[k] = nodes.ups[k]

LEMMA PacketStays ==
  ASSUME Stable, NEW q \in Packets, PacketInv(q)
  PROVE  PacketInv(q)'
<1>1. q.key \in Keys
  BY DEF Packets
<1> QED
  BY <1>1 DEF Stable, PacketInv, Fits, SaysUp, SaysEnd

LEMMA QueueStays ==
  ASSUME IInv, Stable, UNCHANGED inbox
  PROVE  InboxInv' /\ inbox' \in Seq(Packets)
<1>1. inbox \in Seq(Packets)
  BY DEF IInv, TypeOK
<1>2. ASSUME NEW i \in 1..Len(inbox) PROVE PacketInv(inbox[i])'
  <2>1. PICK q \in Packets: q = inbox[i]
    BY <1>1, ElementOfSeq
  <2>2. PacketInv(q)'
    BY <2>1, PacketStays DEF IInv, InboxInv
  <2> QED
    BY <2>1, <2>2
<1>3. \A i, j \in 1..Len(inbox):
        SaysUp(inbox[i])' /\ SaysUp(inbox[j])' /\ inbox'[i].key = inbox'[j].key => i = j
  BY DEF IInv, InboxInv, SaysUp
<1> QED
  BY <1>1, <1>2, <1>3 DEF InboxInv

(* A packet is put at the end: it says up only of a uid that is not yet.   *)
LEMMA PostStep ==
  ASSUME IInv, Stable, NEW q \in Packets, inbox' = Append(inbox, q), PacketInv(q)',
         SaysUp(q) => life[q.key] \notin {"up", "ended"}
  PROVE  InboxInv' /\ inbox' \in Seq(Packets)
<1>1. inbox \in Seq(Packets) /\ Len(inbox) \in Nat
  BY LenProperties DEF IInv, TypeOK
<1>2. /\ inbox' \in Seq(Packets) /\ Len(inbox') = Len(inbox) + 1
      /\ \A i \in 1..Len(inbox): inbox'[i] = inbox[i]
      /\ inbox'[Len(inbox) + 1] = q
  BY <1>1, AppendProperties
<1>3. \A i \in 1..Len(inbox'): i \in 1..Len(inbox) \/ i = Len(inbox) + 1
  BY <1>1, <1>2
<1>4. ASSUME NEW i \in 1..Len(inbox') PROVE PacketInv(inbox[i])'
  <2>1. CASE i \in 1..Len(inbox)
    <3>1. PICK r \in Packets: r = inbox[i]
      BY <1>1, <2>1, ElementOfSeq
    <3>2. PacketInv(r)'
      BY <2>1, <3>1, PacketStays DEF IInv, InboxInv
    <3> QED
      BY <1>2, <2>1, <3>1, <3>2
  <2>2. CASE i = Len(inbox) + 1
    BY <1>2, <2>2
  <2> QED
    BY <1>3, <2>1, <2>2
<1>5. \A i \in 1..Len(inbox): ~(SaysUp(inbox[i]) /\ SaysUp(q) /\ inbox[i].key = q.key)
  BY DEF IInv, InboxInv, PacketInv
<1>6. ASSUME NEW i \in 1..Len(inbox'), NEW j \in 1..Len(inbox'),
             SaysUp(inbox[i])', SaysUp(inbox[j])', inbox'[i].key = inbox'[j].key
      PROVE  i = j
  <2>1. CASE i \in 1..Len(inbox) /\ j \in 1..Len(inbox)
    <3>1. inbox'[i] = inbox[i] /\ inbox'[j] = inbox[j]
      BY <1>2, <2>1
    <3> QED
      BY <1>6, <2>1, <3>1 DEF IInv, InboxInv, SaysUp
  <2>2. CASE i \in 1..Len(inbox) /\ j = Len(inbox) + 1
    <3>1. inbox'[i] = inbox[i] /\ inbox'[j] = q
      BY <1>2, <2>2
    <3> QED
      BY <1>5, <1>6, <2>2, <3>1 DEF SaysUp
  <2>3. CASE j \in 1..Len(inbox) /\ i = Len(inbox) + 1
    <3>1. inbox'[j] = inbox[j] /\ inbox'[i] = q
      BY <1>2, <2>3
    <3> QED
      BY <1>5, <1>6, <2>3, <3>1 DEF SaysUp
  <2> QED
    BY <1>3, <2>1, <2>2, <2>3
<1> QED
  BY <1>2, <1>4, <1>6 DEF InboxInv

-------------------------------------------------------------------------------
(* The engine thread's own steps: packets, confirm calls and close. *)

WaitingType == waiting \in [key: Keys \union {NoKey}, polled: BOOLEAN]

LEMMA IInvParts ==
  /\ IInv <=> StateInv /\ InboxInv /\ inbox \in Seq(Packets) /\ WaitingType
  /\ IInv' <=> StateInv' /\ InboxInv' /\ (inbox \in Seq(Packets))' /\ WaitingType'
<1>1. IInv <=> StateInv /\ InboxInv /\ inbox \in Seq(Packets) /\ WaitingType
  BY TypesOfAll DEF IInv, StateInv, KeysInv, WaitingType
<1> QED
  BY <1>1, PTL

LEMMA StableSame ==
  ASSUME UNCHANGED <<kind, netvars, nodes>>
  PROVE  Stable
BY DEF Stable, netvars

LEMMA OnlyAtStable ==
  ASSUME UNCHANGED <<kind, netvars>>, \A g \in Keys: nodes'.ups[g] = nodes.ups[g]
  PROVE  Stable
BY DEF Stable, netvars

LEMMA DispatchKeeps == IInv /\ Dispatch => IInv'
<1> SUFFICES ASSUME IInv, Dispatch PROVE IInv'
  OBVIOUS
<1>1. inbox \in Seq(Packets) /\ inbox # <<>> /\ Len(inbox) \in Nat /\ inbox' = Tail(inbox)
  BY IInvParts, LenProperties DEF Dispatch
<1>2. /\ 1 \in 1..Len(inbox) /\ Head(inbox) = inbox[1]
      /\ inbox' \in Seq(Packets) /\ Len(inbox') = Len(inbox) - 1
      /\ \A j \in 1..Len(inbox) - 1: inbox'[j] = inbox[j + 1]
  BY <1>1, HeadTailProperties, EmptySeq
<1>3. PICK p \in Packets: p = inbox[1]
  BY <1>1, <1>2, ElementOfSeq
<1>4. DispatchIOPacket(p) /\ UNCHANGED <<kind, netvars>>
  BY <1>2, <1>3 DEF Dispatch
<1>5. \A j \in 1..Len(inbox) - 1: inbox'[j] = IF j < 1 THEN inbox[j] ELSE inbox[j + 1]
  BY <1>1, <1>2
<1>6. StateInv' /\ InboxInv'
  BY <1>2, <1>3, <1>4, <1>5, TakeStep
<1> QED
  BY <1>2, <1>6, IInvParts DEF Dispatch, WaitingType

LEMMA ConfirmPollKeeps == IInv /\ ConfirmPoll => IInv'
<1> SUFFICES ASSUME IInv, ConfirmPoll PROVE IInv'
  OBVIOUS
<1>1. inbox \in Seq(Packets) /\ WaitingType
  BY IInvParts
<1>2. PICK i \in 1..Len(inbox): DispatchIOPacket(inbox[i]) /\ inbox' = Without(inbox, i)
  BY DEF ConfirmPoll
<1>3. PICK p \in Packets: p = inbox[i]
  BY <1>1, ElementOfSeq
<1>4. DispatchIOPacket(p) /\ UNCHANGED <<kind, netvars>>
  BY <1>2, <1>3 DEF ConfirmPoll
<1>5. /\ inbox' \in Seq(Packets) /\ Len(inbox') = Len(inbox) - 1
      /\ \A j \in 1..Len(inbox) - 1: inbox'[j] = IF j < i THEN inbox[j] ELSE inbox[j + 1]
  BY <1>1, <1>2, WithoutOne
<1>6. StateInv' /\ InboxInv'
  BY <1>3, <1>4, <1>5, TakeStep
<1>7. WaitingType'
  BY <1>1 DEF ConfirmPoll, WaitingType
<1> QED
  BY <1>5, <1>6, <1>7, IInvParts

LEMMA CloseKeeps == \A k \in Keys: IInv /\ Close(k) => IInv'
<1> SUFFICES ASSUME IInv, NEW k \in Keys, Close(k) PROVE IInv'
  OBVIOUS
<1>1. StateInv /\ WaitingType /\ UNCHANGED <<kind, netvars, available>>
  BY IInvParts DEF Close
<1>2. OnlyAt(k) /\ KeyInv(k)' /\ \A g \in Keys: nodes'.ups[g] = nodes.ups[g]
  BY <1>1, CloseStep DEF Close
<1>3. StateInv'
  BY <1>1, <1>2, OneUid DEF StateInv
<1>4. InboxInv' /\ inbox' \in Seq(Packets)
  BY <1>1, <1>2, OnlyAtStable, QueueStays DEF Close
<1> QED
  BY <1>1, <1>3, <1>4, IInvParts DEF Close, WaitingType

LEMMA SameState ==
  ASSUME StateInv, UNCHANGED <<kind, netvars, closing, protocols, available, nodes>>
  PROVE  StateInv'
<1>1. Types'
  BY DEF StateInv, Types, netvars, Net!TypeOK, NodeTables, Sessions
<1>2. \A k \in Keys: KeyInv(k)'
  BY DEF StateInv, KeysInv, KeyInv, LifeOf, UpcallsOf, TablesOf, GivenUpOf, netvars
<1>3. KnownInv'
  BY DEF StateInv, KeysInv, KnownInv
<1> QED
  BY <1>1, <1>2, <1>3 DEF StateInv, KeysInv

LEMMA ConfirmKeeps == \A k \in Keys: IInv /\ Confirm(k) => IInv'
<1> SUFFICES ASSUME IInv, NEW k \in Keys, Confirm(k) PROVE IInv'
  OBVIOUS
<1>1. StateInv' /\ InboxInv' /\ inbox' \in Seq(Packets)
  BY IInvParts, SameState, StableSame, QueueStays DEF Confirm
<1> QED
  BY <1>1, IInvParts DEF Confirm, WaitingType

(* A uid that is not available is in no table, and nothing was told of it  *)
(* that would have to be taken back.                                       *)
LEMMA ConfirmEndKeeps == IInv /\ ConfirmEnd => IInv'
<1> SUFFICES ASSUME IInv, ConfirmEnd PROVE IInv'
  OBVIOUS
<1>1. StateInv /\ WaitingType
  BY IInvParts
<1>2. PICK k \in Keys: k = waiting.key
  BY <1>1 DEF ConfirmEnd, WaitingType
<1>3. WaitingType'
  BY DEF ConfirmEnd, Idle, WaitingType
<1>4. CASE k \in available
  <2>1. UNCHANGED <<kind, netvars, closing, protocols, available, nodes, inbox>>
    BY <1>2, <1>4 DEF ConfirmEnd
  <2> QED
    BY <1>1, <1>3, <2>1, IInvParts, SameState, StableSame, QueueStays
<1>5. CASE k \notin available
  <2> DEFINE l == IF nodes.listener = k THEN NoKey ELSE nodes.listener
  <2>1. /\ protocols' = protocols \ {k} /\ closing' = closing \union {k}
        /\ nodes' = [nodes EXCEPT !.listener = l]
        /\ UNCHANGED <<kind, netvars, inbox, available>>
    BY <1>1, <1>2, <1>5 DEF ConfirmEnd, StateInv, Types, NodeTables
  <2>2. nodes \in NodeTables /\ l \in Keys \union {NoKey}
    BY <1>1 DEF StateInv, Types, NodeTables
  <2> HIDE DEF l
  <2>3. /\ nodes' \in NodeTables
        /\ nodes'.ups = nodes.ups /\ nodes'.ends = nodes.ends
        /\ nodes'.joined = nodes.joined /\ nodes'.left = nodes.left
        /\ nodes'.connecting = nodes.connecting /\ nodes'.uid = nodes.uid
        /\ nodes'.known = nodes.known
        /\ nodes'.peers = nodes.peers /\ nodes'.accepted = nodes.accepted
    BY <2>1, <2>2 DEF NodeTables
  <2>4. KeyInv(k)
    BY <1>1, KeyTypes
  <2>5. LifeOf(k)' /\ UpcallsOf(k)'
    BY <2>1, <2>3, <2>4 DEF KeyInv, LifeOf, UpcallsOf, netvars
  <2>6. TablesOf(k)'
    BY <1>5, <2>1, <2>3, <2>4 DEF KeyInv, TablesOf
  <2>7. GivenUpOf(k)'
    BY <2>1 DEF GivenUpOf
  <2>8. OnlyAt(k)
    BY <1>1, <2>1, <2>3 DEF OnlyAt, StateInv, Types, OthersKept, SameAt
  <2>9. StateInv'
    BY <1>1, <2>5, <2>6, <2>7, <2>8, OneUid DEF StateInv, KeyInv
  <2>10. InboxInv' /\ inbox' \in Seq(Packets)
    BY <2>1, <2>3, OnlyAtStable, QueueStays
  <2> QED
    BY <1>3, <2>9, <2>10, IInvParts
<1> QED
  BY <1>4, <1>5

-------------------------------------------------------------------------------
(* New uids.  Nothing is known of a uid before it is popped. *)

LEMMA PopStep ==
  ASSUME StateInv, NEW new \in SUBSET {k \in Keys: kind[k] = "none"},
         NEW for \in {"listener", "connector"},
         kind' = [k \in Keys |-> IF k \in new THEN for ELSE kind[k]],
         protocols' = protocols \union new, UNCHANGED <<netvars, closing, available>>,
         nodes' \in NodeTables,
         nodes'.ups = nodes.ups, nodes'.ends = nodes.ends,
         nodes'.joined = nodes.joined, nodes'.left = nodes.left,
         nodes'.peers = nodes.peers, nodes'.accepted = nodes.accepted,
         \A g \in Keys \ new:
           /\ nodes'.connecting[g] = nodes.connecting[g]
           /\ nodes.connecting[g] # NoCode =>
                nodes'.uid[nodes.connecting[g]] = nodes.uid[nodes.connecting[g]],
         \A g \in new: nodes'.connecting[g] # NoCode =>
           for = "connector" /\ nodes'.uid[nodes'.connecting[g]] = g,
         KnownInv'
  PROVE  StateInv' /\ Stable
<1>1. /\ kind \in [Keys -> {"none", "listener", "connector", "session"}]
      /\ \A g \in new: kind[g] = "none" /\ kind'[g] = for
      /\ \A g \in Keys \ new: kind'[g] = kind[g]
  BY DEF StateInv, Types
<1>2. Types'
  <2>1. Sessions' = Sessions
    BY <1>1 DEF Sessions
  <2>2. (nodes \in NodeTables)'
    BY <2>1 DEF NodeTables
  <2>3. kind' \in [Keys -> {"none", "listener", "connector", "session"}]
    BY <1>1
  <2>4. protocols' \union available' \subseteq {k \in Keys: kind'[k] # "none"}
    <3>1. protocols \union available \subseteq {k \in Keys: kind[k] # "none"}
      BY DEF StateInv, Types
    <3> QED
      BY <1>1, <3>1
  <2>5. Net!TypeOK' /\ closing' \subseteq Keys
    BY DEF StateInv, Types, Net!TypeOK, netvars
  <2> QED
    BY <2>2, <2>3, <2>4, <2>5 DEF Types
<1>3. ASSUME NEW g \in Keys \ new PROVE KeyInv(g)'
  <2>1. SameUid(g)
    BY <1>1 DEF SameUid, SameAt, netvars
  <2> QED
    BY <2>1, KeyTypes, KeyFrame
<1>4. ASSUME NEW g \in new PROVE KeyInv(g)'
  <2>1. g \in Keys /\ KeyInv(g) /\ kind[g] = "none" /\ kind'[g] = for
    BY <1>1, KeyTypes
  <2>2. LifeOf(g)'
    BY <2>1 DEF KeyInv, LifeOf, netvars
  <2>3. g \notin protocols \union available /\ nodes.ups[g] = 0
    BY <2>1, KeyTypes DEF KeyInv, LifeOf, UpcallsOf
  <2>4. UpcallsOf(g)'
    <3>1. nodes.ends[g] = 0
      BY <2>1, <2>3, KeyTypes DEF KeyInv, UpcallsOf
    <3> QED
      BY <2>1, <2>3, <3>1 DEF KeyInv, UpcallsOf, netvars
  <2>5. TablesOf(g)'
    <3>1. g \notin nodes.peers \union nodes.accepted /\ nodes.joined[g] = 0
      BY <2>1, <2>3, KeyTypes DEF KeyInv, TablesOf
    <3> QED
      BY <2>1, <3>1 DEF KeyInv, TablesOf
  <2>6. GivenUpOf(g)'
    BY DEF GivenUpOf
  <2> QED
    BY <2>2, <2>4, <2>5, <2>6 DEF KeyInv
<1>5. Stable
  BY <1>1 DEF Stable, netvars
<1> QED
  BY <1>2, <1>3, <1>4, <1>5 DEF StateInv, KeysInv

LEMMA PopOne ==
  ASSUME StateInv, NEW k \in Keys, NEW for, Pop(k, for)
  PROVE  /\ {k} \in SUBSET {g \in Keys: kind[g] = "none"}
         /\ kind' = [g \in Keys |-> IF g \in {k} THEN for ELSE kind[g]]
<1>1. kind \in [Keys -> {"none", "listener", "connector", "session"}]
  BY DEF StateInv, Types
<1> QED
  BY <1>1 DEF Pop

(* A popped uid has no node yet. *)
LEMMA NoNodeYet ==
  ASSUME StateInv, NEW k \in Keys, kind[k] = "none"
  PROVE  nodes.connecting[k] = NoCode
BY KeyTypes DEF KeyInv, LifeOf

LEMMA ListenKeeps == \A k \in Keys: IInv /\ (Listen(k) \/ Connect(k)) => IInv'
<1> SUFFICES ASSUME IInv, NEW k \in Keys, Listen(k) \/ Connect(k) PROVE IInv'
  OBVIOUS
<1>1. StateInv /\ nodes \in NodeTables /\ KnownInv
  BY IInvParts DEF StateInv, Types, KeysInv
<1>2. PICK for \in {"listener", "connector"}: Pop(k, for)
  BY DEF Listen, Connect
<1>3. /\ protocols' = protocols \union {k}
      /\ UNCHANGED <<netvars, closing, available, inbox, waiting, nodes>>
  BY DEF Listen, Connect
<1>4. /\ {k} \in SUBSET {g \in Keys: kind[g] = "none"}
      /\ kind' = [g \in Keys |-> IF g \in {k} THEN for ELSE kind[g]]
  BY <1>1, <1>2, PopOne
<1>5. KnownInv' /\ nodes.connecting[k] = NoCode
  BY <1>1, <1>2, <1>3, NoNodeYet DEF KnownInv, Pop
<1>6. StateInv' /\ Stable
  BY <1>1, <1>3, <1>4, <1>5, PopStep
<1>7. InboxInv' /\ inbox' \in Seq(Packets)
  BY <1>3, <1>6, QueueStays
<1> QED
  BY <1>3, <1>6, <1>7, IInvParts DEF WaitingType

LEMMA SetupNodeKeeps == \A k \in Keys: IInv /\ SetupNode(k) => IInv'
<1> SUFFICES ASSUME IInv, NEW k \in Keys, SetupNode(k) PROVE IInv'
  OBVIOUS
<1>1. StateInv /\ nodes \in NodeTables /\ KnownInv
  BY IInvParts DEF StateInv, Types, KeysInv
<1>2. /\ Pop(k, "listener") /\ protocols' = protocols \union {k}
      /\ UNCHANGED <<netvars, closing, available, inbox>>
      /\ nodes' = [nodes EXCEPT !.listener = k]
      /\ waiting' = [key |-> k, polled |-> FALSE]
  BY DEF SetupNode
<1>3. /\ nodes' \in NodeTables
      /\ nodes'.ups = nodes.ups /\ nodes'.ends = nodes.ends
      /\ nodes'.joined = nodes.joined /\ nodes'.left = nodes.left
      /\ nodes'.connecting = nodes.connecting /\ nodes'.uid = nodes.uid
      /\ nodes'.known = nodes.known
      /\ nodes'.peers = nodes.peers /\ nodes'.accepted = nodes.accepted
  BY <1>1, <1>2 DEF NodeTables
<1>4. /\ {k} \in SUBSET {g \in Keys: kind[g] = "none"}
      /\ kind' = [g \in Keys |-> IF g \in {k} THEN "listener" ELSE kind[g]]
  BY <1>1, <1>2, PopOne
<1>5. KnownInv' /\ nodes.connecting[k] = NoCode
  BY <1>1, <1>2, <1>3, NoNodeYet DEF KnownInv, Pop
<1>6. StateInv' /\ Stable
  BY <1>1, <1>2, <1>3, <1>4, <1>5, PopStep
<1>7. InboxInv' /\ inbox' \in Seq(Packets)
  BY <1>2, <1>6, QueueStays
<1> QED
  BY <1>2, <1>6, <1>7, IInvParts DEF WaitingType

(* A code that connectNode was not given before has no uid, so that no     *)
(* other uid is connecting to it.                                          *)
LEMMA ConnectNodeKeeps == \A c \in Codes: IInv /\ ConnectNode(c) => IInv'
<1> SUFFICES ASSUME IInv, NEW c \in Codes, ConnectNode(c) PROVE IInv'
  OBVIOUS
<1>1. StateInv /\ nodes \in NodeTables /\ KnownInv /\ \A g \in Keys: KeyInv(g)
  BY IInvParts DEF StateInv, Types, KeysInv
<1> DEFINE K == nodes.known \union {c}
           n == [nodes EXCEPT !.known = K]
<1>2. /\ n = [nodes EXCEPT !.known = @ \union {c}]
      /\ K \in SUBSET Codes
  BY <1>1 DEF NodeTables
<1>3. /\ n \in NodeTables
      /\ n.ups = nodes.ups /\ n.ends = nodes.ends
      /\ n.joined = nodes.joined /\ n.left = nodes.left
      /\ n.connecting = nodes.connecting /\ n.uid = nodes.uid /\ n.known = K
      /\ n.peers = nodes.peers /\ n.accepted = nodes.accepted
  <2> HIDE DEF K
  <2> QED
    BY <1>1, <1>2 DEF NodeTables
<1>4. nodes.uid[c] = NoKey /\ UNCHANGED <<netvars, closing, available, inbox, waiting>>
  BY <1>1 DEF ConnectNode, KnownInv
<1>5. StateInv' /\ Stable
  <2>1. CASE nodes' = n /\ UNCHANGED <<kind, protocols>>
    <3>1. KnownInv'
      BY <1>1, <1>3, <2>1 DEF KnownInv
    <3> HIDE DEF n
    <3>2. Types'
      BY <1>1, <1>3, <1>4, <2>1
         DEF StateInv, Types, netvars, Net!TypeOK, NodeTables, Sessions
    <3>3. ASSUME NEW g \in Keys PROVE KeyInv(g)'
      <4>1. SameUid(g) /\ nodes'.uid = nodes.uid
        BY <1>3, <1>4, <2>1 DEF SameUid, SameAt, netvars
      <4> QED
        BY <1>1, <4>1, KeyFrame
    <3>4. Stable
      BY <1>3, <1>4, <2>1 DEF Stable, netvars
    <3> QED
      BY <3>1, <3>2, <3>3, <3>4 DEF StateInv, KeysInv
  <2>2. ASSUME NEW k \in Keys, Pop(k, "connector"), protocols' = protocols \union {k},
               nodes' = Connecting(n, c, k)
        PROVE  StateInv' /\ Stable
    <3> DEFINE u == [n.uid EXCEPT ![c] = k]
               cs == [n.connecting EXCEPT ![k] = c]
    <3>1. /\ u \in [Codes -> Keys \union {NoKey}]
          /\ cs \in [Keys -> Codes \union {NoCode}]
      BY <1>3 DEF NodeTables
    <3>2. nodes' = [n EXCEPT !.uid = u, !.connecting = cs]
      BY <1>3, <2>2 DEF Connecting, NodeTables
    <3>3. /\ u[c] = k /\ \A d \in Codes \ {c}: u[d] = nodes.uid[d]
          /\ cs[k] = c /\ \A g \in Keys \ {k}: cs[g] = nodes.connecting[g]
      BY <1>1, <1>3 DEF NodeTables
    <3> HIDE DEF u, cs, n
    <3>4. /\ nodes' \in NodeTables
          /\ nodes'.ups = nodes.ups /\ nodes'.ends = nodes.ends
          /\ nodes'.joined = nodes.joined /\ nodes'.left = nodes.left
          /\ nodes'.connecting = cs /\ nodes'.uid = u /\ nodes'.known = K
          /\ nodes'.peers = nodes.peers /\ nodes'.accepted = nodes.accepted
      BY <1>3, <3>1, <3>2 DEF NodeTables
    <3>5. KnownInv'
      BY <1>1, <3>3, <3>4 DEF KnownInv
    <3>6. /\ {k} \in SUBSET {g \in Keys: kind[g] = "none"}
          /\ kind' = [g \in Keys |-> IF g \in {k} THEN "connector" ELSE kind[g]]
      BY <1>1, <2>2, PopOne
    <3>7. \A g \in Keys \ {k}: nodes.connecting[g] # NoCode =>
            u[nodes.connecting[g]] = nodes.uid[nodes.connecting[g]]
      <4>1. \A g \in Keys: nodes.connecting[g] # NoCode =>
              nodes.connecting[g] \in Codes /\ nodes.connecting[g] # c
        BY <1>1, <1>4, KeyTypes DEF KeyInv, TablesOf
      <4> QED
        BY <3>3, <4>1
    <3>8. \A g \in Keys \ {k}:
            /\ nodes'.connecting[g] = nodes.connecting[g]
            /\ nodes.connecting[g] # NoCode =>
                 nodes'.uid[nodes.connecting[g]] = nodes.uid[nodes.connecting[g]]
      BY <3>3, <3>4, <3>7
    <3>9. \A g \in {k}: nodes'.connecting[g] # NoCode =>
            "connector" = "connector" /\ nodes'.uid[nodes'.connecting[g]] = g
      BY <3>3, <3>4
    <3>10. PICK for \in {"listener", "connector"}: for = "connector"
      OBVIOUS
    <3> QED
      BY <1>1, <1>4, <2>2, <3>4, <3>5, <3>6, <3>8, <3>9, <3>10, PopStep
  <2> QED
    BY <1>2, <2>1, <2>2 DEF ConnectNode
<1>6. InboxInv' /\ inbox' \in Seq(Packets)
  BY <1>4, <1>5, QueueStays
<1> QED
  BY <1>4, <1>5, <1>6, IInvParts DEF WaitingType

(* The nodes whose uid is gone are given new ones. *)
LEMMA OnTimerKeeps == IInv /\ OnTimer1000ms => IInv'
<1> SUFFICES ASSUME IInv, OnTimer1000ms PROVE IInv'
  OBVIOUS
<1>1. StateInv /\ nodes \in NodeTables /\ KnownInv /\ \A g \in Keys: KeyInv(g)
  BY IInvParts DEF StateInv, Types, KeysInv
<1> DEFINE Chosen(lost, uid) ==
             LET new == {uid[c]: c \in lost} IN
             /\ lost # {} /\ Cardinality(new) = Cardinality(lost)
             /\ kind' = [k \in Keys |-> IF k \in new THEN "connector" ELSE kind[k]]
             /\ protocols' = protocols \union new
             /\ nodes' = [nodes EXCEPT
                  !.uid = [c \in Codes |-> IF c \in lost THEN uid[c] ELSE @[c]],
                  !.connecting = [k \in Keys |-> IF k \in new
                                                 THEN CHOOSE c \in lost: uid[c] = k ELSE @[k]]]
<1>lost. PICK lost \in SUBSET {c \in nodes.known: nodes.uid[c] = NoKey}:
        \E uid \in [lost -> {k \in Keys: kind[k] = "none"}]: Chosen(lost, uid)
  BY Zenon DEF OnTimer1000ms
<1>2. PICK uid \in [lost -> {k \in Keys: kind[k] = "none"}]: Chosen(lost, uid)
  BY <1>lost
<1> DEFINE new == {uid[c]: c \in lost}
           u == [c \in Codes |-> IF c \in lost THEN uid[c] ELSE nodes.uid[c]]
           cs == [k \in Keys |-> IF k \in new THEN CHOOSE c \in lost: uid[c] = k
                                 ELSE nodes.connecting[k]]
<1>3. /\ UNCHANGED <<netvars, closing, available, inbox, waiting>>
      /\ kind' = [k \in Keys |-> IF k \in new THEN "connector" ELSE kind[k]]
      /\ protocols' = protocols \union new
      /\ nodes' = [nodes EXCEPT !.uid = u, !.connecting = cs]
  BY <1>1, <1>2 DEF OnTimer1000ms, NodeTables
<1>4. /\ \A c \in lost: c \in Codes /\ c \in nodes.known /\ nodes.uid[c] = NoKey
      /\ \A c \in lost: uid[c] \in Keys /\ kind[uid[c]] = "none"
  BY <1>1, <1>2 DEF NodeTables
<1>5. /\ new \in SUBSET {k \in Keys: kind[k] = "none"}
      /\ \A k \in new: (CHOOSE c \in lost: uid[c] = k) \in lost
                       /\ uid[CHOOSE c \in lost: uid[c] = k] = k
  BY <1>4
<1>6. u \in [Codes -> Keys \union {NoKey}] /\ cs \in [Keys -> Codes \union {NoCode}]
  <2>1. \A c \in Codes: u[c] \in Keys \union {NoKey}
    BY <1>1, <1>4 DEF NodeTables
  <2>2. \A k \in Keys: cs[k] \in Codes \union {NoCode}
    BY <1>1, <1>4, <1>5 DEF NodeTables
  <2> QED
    BY <2>1, <2>2
<1>7. \A g \in Keys \ new: cs[g] = nodes.connecting[g] /\
        (nodes.connecting[g] # NoCode => u[nodes.connecting[g]] = nodes.uid[nodes.connecting[g]])
  <2>1. \A g \in Keys: nodes.connecting[g] # NoCode =>
          nodes.connecting[g] \in Codes /\ nodes.connecting[g] \notin lost
    BY <1>1, <1>4, KeyTypes DEF KeyInv, TablesOf
  <2> QED
    BY <2>1
<1>8. \A g \in new: cs[g] \in lost /\ cs[g] \in Codes /\ u[cs[g]] = g
  <2>1. \A g \in new: cs[g] \in lost /\ uid[cs[g]] = g
    BY <1>5
  <2>2. \A c \in lost: c \in Codes /\ u[c] = uid[c]
    BY <1>4
  <2> HIDE DEF new, cs, u
  <2> QED
    BY <2>1, <2>2
<1>9. \A c \in Codes: c \notin nodes.known => u[c] = nodes.uid[c]
  BY <1>4
<1> HIDE DEF new, u, cs
<1>10. /\ nodes' \in NodeTables
       /\ nodes'.ups = nodes.ups /\ nodes'.ends = nodes.ends
       /\ nodes'.joined = nodes.joined /\ nodes'.left = nodes.left
       /\ nodes'.connecting = cs /\ nodes'.uid = u /\ nodes'.known = nodes.known
       /\ nodes'.peers = nodes.peers /\ nodes'.accepted = nodes.accepted
  BY <1>1, <1>3, <1>6 DEF NodeTables
<1>11. KnownInv'
  BY <1>1, <1>9, <1>10 DEF KnownInv
<1>12. StateInv' /\ Stable
  <2>1. PICK for \in {"listener", "connector"}: for = "connector"
    OBVIOUS
  <2>2. \A g \in Keys \ new:
          /\ nodes'.connecting[g] = nodes.connecting[g]
          /\ nodes.connecting[g] # NoCode =>
               nodes'.uid[nodes.connecting[g]] = nodes.uid[nodes.connecting[g]]
    BY <1>7, <1>10
  <2>3. \A g \in new: nodes'.connecting[g] # NoCode =>
          for = "connector" /\ nodes'.uid[nodes'.connecting[g]] = g
    BY <1>8, <1>10, <2>1
  <2> QED
    BY <1>1, <1>3, <1>5, <1>10, <1>11, <2>1, <2>2, <2>3, PopStep
<1>13. InboxInv' /\ inbox' \in Seq(Packets)
  BY <1>3, <1>12, QueueStays
<1> QED
  BY <1>3, <1>12, <1>13, IInvParts DEF WaitingType

-------------------------------------------------------------------------------
(* The network thread's steps, one uid each; the engine's state stays.     *)

NetOnly(k) ==
  /\ UNCHANGED <<protocols, available, nodes>>
  /\ Net!TypeOK' /\ closing' \subseteq Keys
  /\ kind' \in [Keys -> {"none", "listener", "connector", "session"}]
  /\ kind'[k] = kind[k] \/ (kind[k] = "none" /\ kind'[k] = "session")
  /\ \A g \in Keys \ {k}:
       /\ kind'[g] = kind[g] /\ life'[g] = life[g] /\ reports'[g] = reports[g]
       /\ g \in live' <=> g \in live
       /\ g \in closing' <=> g \in closing

LEMMA NetOneUid ==
  ASSUME StateInv, NEW k \in Keys, NetOnly(k), LifeOf(k)', GivenUpOf(k)',
         life'[k] \in {"idle", "failed"} => life[k] \in {"idle", "failed"},
         life[k] \in {"up", "ended"} => life'[k] \in {"up", "ended"},
         life[k] = "ended" => life'[k] = "ended"
  PROVE  StateInv' /\ Stable
<1>1. Types'
  <2>1. Sessions \subseteq Sessions'
    BY DEF Sessions, NetOnly
  <2>2. (nodes \in NodeTables)'
    <3>1. nodes \in NodeTables /\ nodes' = nodes
      BY DEF StateInv, Types, NetOnly
    <3> QED
      BY <2>1, <3>1 DEF NodeTables
  <2>3. protocols' \union available' \subseteq {g \in Keys: kind'[g] # "none"}
    <3>1. protocols \union available \subseteq {g \in Keys: kind[g] # "none"}
      BY DEF StateInv, Types
    <3> QED
      BY <3>1 DEF NetOnly
  <2> QED
    BY <2>2, <2>3 DEF Types, NetOnly
<1>2. ASSUME NEW g \in Keys, g # k PROVE KeyInv(g)'
  <2>1. SameUid(g) /\ nodes' = nodes
    BY <1>2 DEF NetOnly, SameUid, SameAt
  <2> QED
    BY <2>1, KeyTypes, KeyFrame
<1>3. KeyInv(k)'
  <2>1. KeyInv(k) /\ (k \in protocols \union available => kind[k] # "none")
    BY KeyTypes
  <2>2. UpcallsOf(k)'
    <3>1. kind[k] = "none" => nodes.ups[k] = 0 /\ nodes.ends[k] = 0
      BY <2>1, KeyTypes DEF KeyInv, LifeOf, UpcallsOf
    <3> QED
      BY <2>1, <3>1 DEF KeyInv, UpcallsOf, NetOnly
  <2>3. TablesOf(k)'
    BY <2>1 DEF KeyInv, TablesOf, NetOnly
  <2> QED
    BY <2>2, <2>3 DEF KeyInv
<1>4. KnownInv'
  BY DEF StateInv, KeysInv, KnownInv, NetOnly
<1>5. Stable
  BY DEF Stable, NetOnly
<1> QED
  BY <1>1, <1>2, <1>3, <1>4, <1>5 DEF StateInv, KeysInv

(* What a step of the connection's life leaves. *)
LEMMA NetLife ==
  ASSUME StateInv, NEW k \in Keys,
         \/ Net!Up(k)
         \/ Net!Down(k)
         \/ Net!Fail(k)
  PROVE  /\ Net!TypeOK'
         /\ \A g \in Keys \ {k}: /\ life'[g] = life[g] /\ reports'[g] = reports[g]
                                 /\ g \in live' <=> g \in live
         /\ reports'[k] = CASE life'[k] = "up" -> 1 [] life'[k] = "ended" -> 2 [] OTHER -> 0
         /\ Net!Up(k) => life'[k] = "up" /\ k \in live' /\ life[k] \in {"idle", "failed"}
         /\ Net!Fail(k) => life'[k] = "failed" /\ life[k] \in {"idle", "failed"}
         /\ Net!Down(k) => life'[k] = "ended" /\ life[k] = "up"
<1>1. /\ Net!TypeOK
      /\ reports[k] = CASE life[k] = "up" -> 1 [] life[k] = "ended" -> 2 [] OTHER -> 0
  BY KeyTypes DEF StateInv, Types, KeyInv, LifeOf
<1>2. CASE Net!Up(k)
  <2>1. /\ life' = [life EXCEPT ![k] = "up"] /\ reports' = [reports EXCEPT ![k] = @ + 1]
        /\ live' = live \union {k} /\ life[k] \in {"idle", "failed"}
    BY <1>2 DEF Net!Up, Net!Report, Net!Trying
  <2>2. reports[k] = 0
    BY <1>1, <2>1
  <2>3. ~Net!Fail(k) /\ ~Net!Down(k)
    BY <1>1, <2>1 DEF Net!Fail, Net!Down, Net!TypeOK
  <2> QED
    BY <1>1, <2>1, <2>2, <2>3 DEF Net!TypeOK
<1>3. CASE Net!Fail(k)
  <2>1. /\ life' = [life EXCEPT ![k] = "failed"] /\ reports' = reports
        /\ live' \in {live, live \ {k}} /\ life[k] \in {"idle", "failed"}
    BY <1>3 DEF Net!Fail, Net!Trying
  <2>2. reports[k] = 0
    BY <1>1, <2>1
  <2>3. ~Net!Up(k) /\ ~Net!Down(k)
    BY <1>1, <2>1 DEF Net!Up, Net!Report, Net!Down, Net!TypeOK
  <2> QED
    BY <1>1, <2>1, <2>2, <2>3 DEF Net!TypeOK
<1>4. CASE Net!Down(k)
  <2>1. /\ life' = [life EXCEPT ![k] = "ended"] /\ reports' = [reports EXCEPT ![k] = @ + 1]
        /\ live' \in {live, live \ {k}} /\ life[k] = "up"
    BY <1>4 DEF Net!Down, Net!Report
  <2>2. reports[k] = 1
    BY <1>1, <2>1
  <2>3. ~Net!Up(k) /\ ~Net!Fail(k)
    BY <1>1, <2>1 DEF Net!Fail, Net!Up, Net!Trying
  <2> QED
    BY <1>1, <2>1, <2>2, <2>3 DEF Net!TypeOK
<1> QED
  BY <1>2, <1>3, <1>4

LEMMA PostKeeps ==
  ASSUME IInv, StateInv', Stable, NEW k \in Keys,
         NEW type \in {"listen", "unlisten", "accept", "connect", "close", "disconnect",
                       "ping", "pong"},
         NEW ok \in BOOLEAN, NEW from \in Keys \union Codes \union {NoKey},
         Post(type, k, ok, from), Fits(type, kind'[k]),
         type = "accept" \/ (type \in {"listen", "connect"} /\ ok) =>
           life[k] \in {"idle", "failed"} /\ life'[k] = "up",
         type \in {"unlisten", "close", "disconnect"} => life'[k] = "ended" /\ ~ok
  PROVE  IInv'
<1> DEFINE q == [type |-> type, key |-> k, ok |-> ok, from |-> from]
<1>1. /\ q \in Packets /\ q.key = k /\ q.type = type /\ q.ok = ok
      /\ inbox' = Append(inbox, q) /\ UNCHANGED <<waiting, nodes>>
  BY DEF Packets, Post
<1> HIDE DEF q
<1>2. SaysUp(q) => life[k] \in {"idle", "failed"} /\ life'[k] = "up"
  BY <1>1 DEF SaysUp
<1>3. SaysUp(q) => nodes.ups[k] = 0
  BY <1>2, IInvParts, KeyTypes DEF KeyInv, UpcallsOf
<1>4. SaysEnd(q) => life'[k] = "ended" /\ ~q.ok
  BY <1>1 DEF SaysEnd
<1>5. PacketInv(q)'
  BY <1>1, <1>2, <1>3, <1>4 DEF PacketInv, SaysUp, SaysEnd, Fits
<1>6. SaysUp(q) => life[q.key] \notin {"up", "ended"}
  BY <1>1, <1>2
<1>7. InboxInv' /\ inbox' \in Seq(Packets)
  BY <1>1, <1>5, <1>6, PostStep
<1> QED
  BY <1>1, <1>7, IInvParts DEF WaitingType

LEMMA NetListensKeeps == \A k \in Keys: IInv /\ NetListens(k) => IInv'
<1> SUFFICES ASSUME IInv, NEW k \in Keys, NetListens(k) PROVE IInv'
  OBVIOUS
<1>1. StateInv /\ kind[k] = "listener" /\ UNCHANGED <<kind, closing>> /\ life[k] = "idle"
  BY IInvParts DEF NetListens
<1>2. PICK ok \in BOOLEAN: /\ Post("listen", k, ok, NoKey)
                           /\ Net!Up(k) \/ Net!Fail(k)
                           /\ ok => Net!Up(k)
                           /\ ~ok => Net!Fail(k) /\ live' = live
  BY DEF NetListens
<1>3. GivenUpOf(k)'
  <2>1. k \in protocols \/ k \in closing
    BY <1>1, KeyTypes DEF KeyInv, GivenUpOf
  <2> QED
    BY <1>1, <1>2, <2>1 DEF Post, GivenUpOf
<1>4. NetOnly(k) /\ LifeOf(k)' /\ life'[k] \in {"up", "failed"} /\ (ok => life'[k] = "up")
  <2>1. NetOnly(k) /\ life'[k] \in {"up", "failed"} /\ (ok => life'[k] = "up")
    BY <1>1, <1>2, NetLife DEF NetOnly, Post, StateInv, Types
  <2> QED
    BY <1>1, <1>2, <2>1, NetLife DEF LifeOf
<1>5. StateInv' /\ Stable
  BY <1>1, <1>3, <1>4, NetOneUid
<1> QED
  BY <1>1, <1>2, <1>4, <1>5, PostKeeps DEF Fits

LEMMA NetConnectsKeeps == \A k \in Keys: IInv /\ NetConnects(k) => IInv'
<1> SUFFICES ASSUME IInv, NEW k \in Keys, NetConnects(k) PROVE IInv'
  OBVIOUS
<1>1. StateInv /\ kind[k] = "connector" /\ UNCHANGED <<kind, closing>> /\ Net!Trying(k)
  BY IInvParts DEF NetConnects
<1>2. PICK ok \in BOOLEAN: /\ Post("connect", k, ok, NoKey)
                           /\ Net!Up(k) \/ Net!Fail(k)
                           /\ ok => Net!Up(k)
                           /\ ~ok => Net!Fail(k)
  BY DEF NetConnects
<1>3. GivenUpOf(k)'
  <2>1. k \in protocols \/ k \in closing
    BY <1>1, KeyTypes DEF KeyInv, GivenUpOf, Net!Trying
  <2> QED
    BY <1>1, <1>2, <2>1 DEF Post, GivenUpOf
<1>4. NetOnly(k) /\ LifeOf(k)' /\ life'[k] \in {"up", "failed"} /\ (ok => life'[k] = "up")
      /\ life[k] \in {"idle", "failed"}
  <2>1. NetOnly(k) /\ life'[k] \in {"up", "failed"} /\ (ok => life'[k] = "up")
        /\ life[k] \in {"idle", "failed"}
    BY <1>1, <1>2, NetLife DEF NetOnly, Post, StateInv, Types
  <2> QED
    BY <1>1, <1>2, <2>1, NetLife DEF LifeOf
<1>5. StateInv' /\ Stable
  BY <1>1, <1>3, <1>4, NetOneUid
<1> QED
  BY <1>1, <1>2, <1>4, <1>5, PostKeeps DEF Fits

LEMMA NetAttemptsKeeps == \A k \in Keys: IInv /\ NetAttempts(k) => IInv'
<1> SUFFICES ASSUME IInv, NEW k \in Keys, NetAttempts(k) PROVE IInv'
  OBVIOUS
<1>1. /\ StateInv /\ life[k] = "idle" /\ UNCHANGED <<life, reports, kind, closing, inbox>>
      /\ live' = live \union {k}
      /\ UNCHANGED <<protocols, available, waiting, nodes>>
      /\ kind[k] = "connector"
  BY IInvParts DEF NetAttempts, Net!Attempt
<1>2. NetOnly(k)
  BY <1>1 DEF NetOnly, StateInv, Types, Net!TypeOK
<1>3. LifeOf(k)' /\ GivenUpOf(k)'
  BY <1>1, KeyTypes DEF KeyInv, LifeOf, GivenUpOf
<1>4. StateInv' /\ Stable
  BY <1>1, <1>2, <1>3, NetOneUid
<1> QED
  BY <1>1, <1>4, IInvParts, QueueStays DEF WaitingType

LEMMA NetDrainsKeeps == \A k \in Keys: IInv /\ NetDrains(k) => IInv'
<1> SUFFICES ASSUME IInv, NEW k \in Keys, NetDrains(k) PROVE IInv'
  OBVIOUS
<1>1. /\ StateInv /\ life[k] = "ended" /\ UNCHANGED <<life, reports, kind, closing, inbox>>
      /\ live' = live \ {k}
      /\ UNCHANGED <<protocols, available, waiting, nodes>>
  BY IInvParts DEF NetDrains, Net!Drained
<1>2. NetOnly(k)
  BY <1>1 DEF NetOnly, StateInv, Types, Net!TypeOK
<1>3. LifeOf(k)' /\ GivenUpOf(k)'
  BY <1>1, KeyTypes DEF KeyInv, LifeOf, GivenUpOf
<1>4. StateInv' /\ Stable
  BY <1>1, <1>2, <1>3, NetOneUid
<1> QED
  BY <1>1, <1>4, IInvParts, QueueStays DEF WaitingType

LEMMA NetAcceptsKeeps == \A k, from \in Keys: IInv /\ NetAccepts(k, from) => IInv'
<1> SUFFICES ASSUME IInv, NEW k \in Keys, NEW from \in Keys, NetAccepts(k, from) PROVE IInv'
  OBVIOUS
<1>1. /\ StateInv /\ kind[k] = "none" /\ kind' = [kind EXCEPT ![k] = "session"]
      /\ UNCHANGED closing /\ Net!Up(k) /\ Post("accept", k, TRUE, from)
  BY IInvParts DEF NetAccepts, Pop
<1>2. /\ kind' \in [Keys -> {"none", "listener", "connector", "session"}]
      /\ kind'[k] = "session" /\ \A g \in Keys \ {k}: kind'[g] = kind[g]
  BY <1>1 DEF StateInv, Types
<1>3. GivenUpOf(k)'
  BY <1>2 DEF GivenUpOf
<1>4. NetOnly(k) /\ LifeOf(k)' /\ life'[k] = "up" /\ life[k] \in {"idle", "failed"}
  <2>1. NetOnly(k) /\ life'[k] = "up" /\ life[k] \in {"idle", "failed"}
    BY <1>1, <1>2, NetLife DEF NetOnly, Post, StateInv, Types
  <2> QED
    BY <1>1, <1>2, <2>1, NetLife DEF LifeOf
<1>5. StateInv' /\ Stable
  BY <1>1, <1>3, <1>4, NetOneUid
<1> QED
  BY <1>1, <1>2, <1>4, <1>5, PostKeeps DEF Fits

(* A connection is reported down by the packet for its kind. *)
LEMMA NetEndsKeeps ==
  \A k \in Keys: IInv /\ NetEnds(k) /\ UNCHANGED kind /\ closing' \in {closing, closing \ {k}} => IInv'
<1> SUFFICES ASSUME IInv, NEW k \in Keys, NetEnds(k), UNCHANGED kind,
                    closing' \in {closing, closing \ {k}}
             PROVE  IInv'
  OBVIOUS
<1> DEFINE type == CASE kind[k] = "listener"  -> "unlisten"
                     [] kind[k] = "session"   -> "close"
                     [] kind[k] = "connector" -> "disconnect"
<1>1. StateInv /\ Net!Down(k) /\ Post(type, k, FALSE, NoKey)
  BY IInvParts DEF NetEnds
<1>2. life'[k] = "ended" /\ life[k] = "up" /\ Net!TypeOK'
  BY <1>1, NetLife
<1>3. kind[k] \in {"listener", "session", "connector"}
  BY <1>1, <1>2, KeyTypes DEF KeyInv, LifeOf, StateInv, Types
<1>4. type \in {"unlisten", "close", "disconnect"} /\ Fits(type, kind[k])
  BY <1>3 DEF Fits
<1> HIDE DEF type
<1>5. NetOnly(k)
  BY <1>1, NetLife DEF NetOnly, Post, StateInv, Types
<1>6. LifeOf(k)' /\ GivenUpOf(k)'
  BY <1>1, <1>2, <1>3, NetLife DEF LifeOf, GivenUpOf
<1>7. StateInv' /\ Stable
  BY <1>1, <1>2, <1>5, <1>6, NetOneUid
<1> QED
  BY <1>1, <1>2, <1>4, <1>7, PostKeeps

LEMMA NetClosesKeeps == \A k \in Keys: IInv /\ NetCloses(k) => IInv'
<1> SUFFICES ASSUME IInv, NEW k \in Keys, NetCloses(k) PROVE IInv'
  OBVIOUS
<1>1. StateInv /\ closing' = closing \ {k} /\ UNCHANGED kind
  BY IInvParts DEF NetCloses
<1>2. CASE /\ kind[k] = "connector" /\ Net!Trying(k) /\ k \in live
           /\ Net!Fail(k) /\ live' = live \ {k}
           /\ Post("connect", k, FALSE, NoKey)
  <2>1. NetOnly(k) /\ life'[k] = "failed" /\ life[k] \in {"idle", "failed"}
    BY <1>1, <1>2, NetLife DEF NetOnly, Post, StateInv, Types
  <2>2. LifeOf(k)' /\ GivenUpOf(k)'
    BY <1>1, <1>2, <2>1, NetLife DEF LifeOf, GivenUpOf
  <2>3. StateInv' /\ Stable
    BY <1>1, <2>1, <2>2, NetOneUid
  <2> QED
    BY <1>1, <1>2, <2>1, <2>3, PostKeeps DEF Fits
<1>3. CASE NetEnds(k)
  BY <1>1, <1>3, NetEndsKeeps
<1>4. CASE /\ life[k] = "ended" \/ (life[k] = "failed" /\ k \notin live)
           /\ UNCHANGED <<netvars, inbox, protocols, available, waiting, nodes>>
  <2>1. NetOnly(k)
    BY <1>1, <1>4 DEF NetOnly, StateInv, Types, Net!TypeOK, netvars
  <2>2. LifeOf(k)' /\ GivenUpOf(k)'
    BY <1>1, <1>4, KeyTypes DEF KeyInv, LifeOf, GivenUpOf, netvars
  <2>3. StateInv' /\ Stable
    BY <1>1, <1>4, <2>1, <2>2, NetOneUid DEF netvars
  <2> QED
    BY <1>4, <2>3, IInvParts, QueueStays DEF WaitingType
<1> QED
  BY <1>2, <1>3, <1>4 DEF NetCloses

LEMMA NetReceivesKeeps == \A k \in Keys: IInv /\ NetReceives(k) => IInv'
<1> SUFFICES ASSUME IInv, NEW k \in Keys, NetReceives(k) PROVE IInv'
  OBVIOUS
<1>1. PICK type \in {"ping", "pong"}, ok \in BOOLEAN, from \in Codes \union {NoKey}:
        Post(type, k, ok, from)
  BY DEF NetReceives
<1>2. kind[k] \in {"session", "connector"} /\ UNCHANGED <<kind, netvars, closing>>
  BY DEF NetReceives
<1>3. UNCHANGED <<kind, netvars, closing, protocols, available, nodes>>
  BY <1>1, <1>2 DEF Post
<1>4. StateInv' /\ Stable
  BY <1>3, IInvParts, SameState, StableSame
<1> QED
  BY <1>1, <1>2, <1>4, PostKeeps DEF Fits

-------------------------------------------------------------------------------
(* The theorems. *)

LEMMA InitHolds == Init => IInv
<1> SUFFICES ASSUME Init PROVE IInv
  OBVIOUS
<1> DEFINE n == [listener |-> NoKey, known |-> {}, uid |-> [c \in Codes |-> NoKey],
                 connecting |-> [k \in Keys |-> NoCode], accepted |-> {}, peers |-> {},
                 ups |-> Zero, ends |-> Zero, joined |-> Zero, left |-> Zero]
<1>1. nodes = n /\ n \in NodeTables
  BY DEF Init, NodeTables, Zero
<1>2. /\ \A k \in Keys: /\ n.ups[k] = 0 /\ n.ends[k] = 0 /\ n.joined[k] = 0 /\ n.left[k] = 0
                        /\ n.connecting[k] = NoCode
      /\ n.peers = {} /\ n.accepted = {} /\ \A c \in Codes: n.uid[c] = NoKey
  BY DEF Zero
<1> HIDE DEF n
<1>3. Types
  <2>1. kind \in [Keys -> {"none", "listener", "connector", "session"}]
        /\ closing \subseteq Keys /\ protocols \union available = {}
    BY DEF Init
  <2>2. Net!TypeOK
    BY DEF Init, Net!Init, Net!TypeOK
  <2> QED
    BY <1>1, <2>1, <2>2 DEF Types
<1>4. ASSUME NEW k \in Keys PROVE KeyInv(k)
  <2>1. /\ kind[k] = "none" /\ life[k] = "idle" /\ reports[k] = 0
        /\ protocols = {} /\ available = {}
    BY DEF Init, Net!Init
  <2>2. LifeOf(k)
    BY <1>1, <1>2, <2>1 DEF LifeOf
  <2>3. UpcallsOf(k) /\ TablesOf(k) /\ GivenUpOf(k)
    BY <1>1, <1>2, <2>1 DEF UpcallsOf, TablesOf, GivenUpOf
  <2> QED
    BY <2>2, <2>3 DEF KeyInv
<1>5. KnownInv
  BY <1>1, <1>2 DEF KnownInv
<1>6. inbox = <<>> /\ inbox \in Seq(Packets) /\ InboxInv
  <2>1. inbox = <<>> /\ Len(inbox) = 0 /\ inbox \in Seq(Packets)
    BY EmptySeq DEF Init
  <2> QED
    BY <2>1 DEF InboxInv
<1>7. WaitingType
  BY DEF Init, WaitingType, Idle
<1> QED
  BY <1>3, <1>4, <1>5, <1>6, <1>7, IInvParts DEF StateInv, KeysInv

LEMMA NextKeeps == IInv /\ [Next]_vars => IInv'
<1> SUFFICES ASSUME IInv, [Next]_vars PROVE IInv'
  OBVIOUS
<1>1. CASE EngineThread
  BY <1>1, DispatchKeeps, ConfirmPollKeeps, ConfirmEndKeeps, OnTimerKeeps DEF EngineThread
<1>2. CASE Application
  BY <1>2, SetupNodeKeeps, ListenKeeps, CloseKeeps, ConfirmKeeps, ConnectNodeKeeps
     DEF Application
<1>3. CASE Network
  <2>1. ASSUME NEW k \in Keys, NetLost(k) PROVE IInv'
    BY <2>1, NetEndsKeeps DEF NetLost
  <2> QED
    BY <1>3, <2>1, NetListensKeeps, NetConnectsKeeps, NetAttemptsKeeps, NetClosesKeeps,
       NetReceivesKeeps, NetDrainsKeeps, NetAcceptsKeeps DEF Network
<1>4. CASE UNCHANGED vars
  <2>1. UNCHANGED <<kind, netvars, closing, inbox, protocols, available, waiting, nodes>>
    BY <1>4 DEF vars
  <2> QED
    BY <2>1, IInvParts, SameState, StableSame, QueueStays DEF WaitingType
<1> QED
  BY <1>1, <1>2, <1>3, <1>4 DEF Next

THEOREM Inductive == Spec => []IInv
BY InitHolds, NextKeeps, PTL DEF Spec

(* The engine's tables and the network's life of each uid keep their types *)
(* whatever the packets and the application's calls.                       *)
THEOREM TypeCorrect == Spec => []TypeOK
<1>1. IInv => TypeOK
  BY DEF IInv
<1> QED
  BY <1>1, Inductive, PTL

(* No table of NetEngine keeps a uid that IOEngine forgot: sendToNode and  *)
(* the broadcasts never meet a peer whose protocol is gone.                *)
THEOREM TablesAreKnown == Spec => []TablesKnown
<1>1. IInv => TablesKnown
  <2> SUFFICES ASSUME IInv PROVE TablesKnown
    OBVIOUS
  <2>1. \A k \in Keys: k \in nodes.peers \union nodes.accepted => k \in protocols \intersect available
    BY DEF IInv, KeyInv, TablesOf
  <2>2. nodes.peers \union nodes.accepted \subseteq Keys
    BY DEF IInv, TypeOK
  <2> QED
    BY <2>1, <2>2 DEF TablesKnown
<1> QED
  BY <1>1, Inductive, PTL

(* The application hears onNodeConnect at most once for a uid, and         *)
(* onNodeDisConnect once after it, in every order of pings, pongs, closes  *)
(* and losses.                                                             *)
THEOREM NodesArePaired == Spec => []NodesPaired
<1>1. IInv => NodesPaired
  BY DEF IInv, KeyInv, TablesOf, NodesPaired
<1> QED
  BY <1>1, Inductive, PTL

(* A uid in _connectingNodes is the uid of the node it connects to, so     *)
(* that the first ping of onConnect is sent to the uid that connected.     *)
THEOREM ConnectingFindsNode == Spec => []ConnectingIsNodeUid
<1>1. IInv => ConnectingIsNodeUid
  BY DEF IInv, KeyInv, TablesOf, ConnectingIsNodeUid
<1> QED
  BY <1>1, Inductive, PTL

(* Upcalls come in order: up once, then ended; of connectors and listeners *)
(* the end is told once, by close or by the network but not by both.       *)
THEOREM EndsFollowUps == Spec => []EndsAfterUp
<1>1. IInv => EndsAfterUp
  BY DEF IInv, KeyInv, UpcallsOf, EndsAfterUp
<1> QED
  BY <1>1, Inductive, PTL

(* No connector or listener is left open that the engine has given up.     *)
THEOREM GivenUpAreClosed == Spec => []GivenUpIsClosed
<1>1. IInv => GivenUpIsClosed
  BY DEF IInv, KeyInv, GivenUpOf, GivenUpIsClosed
<1> QED
  BY <1>1, Inductive, PTL

-------------------------------------------------------------------------------
(* The refinement of Upcalls. *)

OthersTold(k) == \A g \in Keys \ {k}: SameTold(g)

LEMMA OnlyAtTells ==
  ASSUME NEW k \in Keys, OnlyAt(k)
  PROVE  OthersTold(k)
BY DEF OnlyAt, OthersKept, SameAt, OthersTold, SameTold

(* A handler tells something about the uid of its packet only. *)
LEMMA PacketTells ==
  ASSUME IInv, NEW i \in 1..Len(inbox), DispatchIOPacket(inbox[i]), UNCHANGED <<kind, netvars>>
  PROVE  \E k \in Keys: OthersTold(k) /\ Tells(k)
<1>1. StateInv /\ inbox \in Seq(Packets)
  BY IInvParts
<1>2. PICK p \in Packets: p = inbox[i]
  BY <1>1, ElementOfSeq
<1>3. PacketInv(p) /\ p.key \in Keys
  BY <1>2 DEF IInv, InboxInv, Packets
<1>4. PacketStep(p)
  BY <1>1, <1>2, <1>3, HandlerStep
<1> QED
  BY <1>3, <1>4, OnlyAtTells DEF PacketStep

Silent == \A k \in Keys: SameTold(k)

(* Of the steps that are not about a packet only close tells anything. *)
LEMMA SilentSteps ==
  ASSUME IInv,
         \/ ConfirmEnd \/ OnTimer1000ms \/ Network \/ UNCHANGED vars
         \/ \E k \in Keys: SetupNode(k) \/ Listen(k) \/ Connect(k) \/ Confirm(k)
         \/ \E c \in Codes: ConnectNode(c)
  PROVE  Silent
<1> DEFINE Same == nodes'.ups = nodes.ups /\ nodes'.ends = nodes.ends /\ nodes'.peers = nodes.peers
<1> SUFFICES Same
  BY DEF Silent, SameTold
<1>1. nodes \in NodeTables
  BY IInvParts DEF StateInv, Types
<1>2. nodes' = nodes => Same
  OBVIOUS
<1>3. CASE ConfirmEnd
  <2>1. PICK l: nodes' = nodes \/ nodes' = [nodes EXCEPT !.listener = l]
    BY <1>3 DEF ConfirmEnd
  <2> QED
    BY <1>1, <2>1 DEF NodeTables
<1>4. CASE OnTimer1000ms
  <2>1. PICK u, cs: nodes' = [nodes EXCEPT !.uid = u, !.connecting = cs]
    BY <1>4 DEF OnTimer1000ms
  <2> QED
    BY <1>1, <2>1 DEF NodeTables
<1>5. CASE Network
  BY <1>2, <1>5 DEF Network, NetListens, NetConnects, NetAttempts, NetAccepts, NetLost,
                    NetEnds, NetCloses, NetReceives, NetDrains, Post
<1>6. CASE UNCHANGED vars
  BY <1>2, <1>6 DEF vars
<1>7. ASSUME NEW k \in Keys, SetupNode(k) \/ Listen(k) \/ Connect(k) \/ Confirm(k)
      PROVE  Same
  <2>1. nodes' = nodes \/ nodes' = [nodes EXCEPT !.listener = k]
    BY <1>7 DEF SetupNode, Listen, Connect, Confirm
  <2> QED
    BY <1>1, <2>1 DEF NodeTables
<1>8. ASSUME NEW c \in Codes, ConnectNode(c) PROVE Same
  <2> DEFINE n == [nodes EXCEPT !.known = nodes.known \union {c}]
  <2>1. n \in NodeTables /\ n.ups = nodes.ups /\ n.ends = nodes.ends /\ n.peers = nodes.peers
    BY <1>1 DEF NodeTables
  <2>2. nodes' = n \/ \E k \in Keys: nodes' = Connecting(n, c, k)
    BY <1>8 DEF ConnectNode
  <2> HIDE DEF n
  <2> QED
    BY <2>1, <2>2 DEF Connecting, NodeTables
<1> QED
  BY <1>3, <1>4, <1>5, <1>6, <1>7, <1>8

LEMMA StepTells ==
  ASSUME IInv, [Next]_vars
  PROVE  Silent \/ \E k \in Keys: OthersTold(k) /\ Tells(k)
<1>1. CASE Dispatch
  <2>1. inbox \in Seq(Packets) /\ inbox # <<>> /\ Len(inbox) \in Nat
    BY <1>1, IInvParts, LenProperties DEF Dispatch
  <2>2. 1 \in 1..Len(inbox) /\ Head(inbox) = inbox[1]
    BY <2>1, HeadTailProperties, EmptySeq
  <2> QED
    BY <1>1, <2>2, PacketTells DEF Dispatch
<1>2. CASE ConfirmPoll
  <2>1. PICK i \in 1..Len(inbox): DispatchIOPacket(inbox[i])
    BY <1>2 DEF ConfirmPoll
  <2> QED
    BY <1>2, <2>1, PacketTells DEF ConfirmPoll
<1>3. ASSUME NEW k \in Keys, Close(k) PROVE OthersTold(k) /\ Tells(k)
  <2>1. StateInv /\ UNCHANGED <<kind, netvars, available>> /\ CloseUid(nodes, k)
    BY <1>3, IInvParts DEF Close
  <2> QED
    BY <2>1, CloseStep, OnlyAtTells
<1> QED
  BY <1>1, <1>2, <1>3, SilentSteps DEF Next, EngineThread, Application

(* What the invariant says of the phases: a node has joined only a uid     *)
(* that is up and has not ended.                                           *)
PhaseInv(k) ==
  /\ nodes.ups[k] \in {0, 1} /\ nodes.ends[k] \in Nat
  /\ nodes.ends[k] > 0 => nodes.ups[k] = 1
  /\ k \in nodes.peers => nodes.ups[k] = 1 /\ nodes.ends[k] = 0

LEMMA PhaseFacts == IInv => \A k \in Keys: PhaseInv(k)
<1> SUFFICES ASSUME IInv, NEW k \in Keys PROVE PhaseInv(k)
  OBVIOUS
<1>1. /\ KeyInv(k) /\ nodes.ups[k] \in Nat /\ nodes.ends[k] \in Nat
      /\ nodes.joined[k] \in Nat /\ nodes.left[k] \in Nat
  BY IInvParts, KeyTypes
<1> QED
  BY <1>1 DEF KeyInv, UpcallsOf, TablesOf, PhaseInv

LEMMA PhaseMoves ==
  ASSUME NEW k \in Keys, PhaseInv(k), PhaseInv(k)', Tells(k)
  PROVE  \/ Phase(k)' = Phase(k)
         \/ Phase(k) = "new" /\ Phase(k)' = "up"
         \/ Phase(k) = "up" /\ Phase(k)' = "joined"
         \/ Phase(k) \in {"up", "joined"} /\ Phase(k)' = "ended"
<1>1. CASE SameTold(k)
  BY <1>1 DEF SameTold, Phase
<1>2. CASE /\ nodes'.ups[k] = nodes.ups[k] + 1 /\ nodes'.ends[k] = nodes.ends[k]
           /\ k \in nodes'.peers <=> k \in nodes.peers
  <2>1. nodes.ups[k] = 0 /\ nodes'.ups[k] = 1 /\ nodes.ends[k] = 0 /\ k \notin nodes.peers
    BY <1>2 DEF PhaseInv
  <2> QED
    BY <1>2, <2>1 DEF Phase
<1>3. CASE k \in nodes'.peers /\ nodes'.ups[k] = nodes.ups[k] /\ nodes'.ends[k] = nodes.ends[k]
  <2>1. nodes.ups[k] = 1 /\ nodes.ends[k] = 0
    BY <1>3 DEF PhaseInv
  <2> QED
    BY <1>3, <2>1 DEF Phase
<1>4. CASE /\ nodes'.ends[k] = nodes.ends[k] + 1 /\ nodes'.ups[k] = nodes.ups[k]
           /\ k \notin nodes'.peers
  <2>1. Phase(k)' = "ended"
    BY <1>4 DEF Phase, PhaseInv
  <2>2. nodes.ups[k] = 1
    BY <1>4 DEF PhaseInv
  <2>3. nodes.ends[k] = 0 => Phase(k) \in {"up", "joined"}
    BY <2>2 DEF Phase
  <2>4. nodes.ends[k] > 0 => Phase(k) = "ended"
    BY DEF Phase, PhaseInv
  <2>5. nodes.ends[k] = 0 \/ nodes.ends[k] > 0
    BY DEF PhaseInv
  <2> QED
    BY <2>1, <2>3, <2>4, <2>5
<1> QED
  BY <1>1, <1>2, <1>3, <1>4 DEF Tells

(* The engine implements Upcalls: for any uids, nodes and queue, whatever  *)
(* packets come late and whatever the application closes in between, each  *)
(* uid is told up, joined and ended in this order, and a node leaves in    *)
(* the step that ends its uid.                                             *)
THEOREM KeepsUpcalls == Spec => UpcallSpec
<1> DEFINE phase == [k \in Keys |-> Phase(k)]
<1>1. Init => Told!Init
  <2>1. Init => \A k \in Keys: Phase(k) = "new"
    BY DEF Init, Phase, Zero
  <2> QED
    BY <2>1 DEF Told!Init
<1>2. IInv => \A k \in Keys: PhaseInv(k)
  BY PhaseFacts
<1>3. IInv /\ (\A k \in Keys: PhaseInv(k)) /\ (\A k \in Keys: PhaseInv(k))' /\ [Next]_vars
        => [Told!Next]_phase
  <2> SUFFICES ASSUME IInv, \A k \in Keys: PhaseInv(k), (\A k \in Keys: PhaseInv(k))', [Next]_vars
               PROVE  [Told!Next]_phase
    OBVIOUS
  <2>1. \A g \in Keys: SameTold(g) => Phase(g)' = Phase(g)
    BY DEF SameTold, Phase
  <2>2. CASE Silent
    BY <2>1, <2>2 DEF Silent
  <2>3. ASSUME NEW k \in Keys, OthersTold(k), Tells(k) PROVE [Told!Next]_phase
    <3>1. \A g \in Keys \ {k}: Phase(g)' = Phase(g)
      BY <2>1, <2>3 DEF OthersTold
    <3>2. phase' = [phase EXCEPT ![k] = Phase(k)']
      BY <3>1
    <3>3. phase[k] = Phase(k) /\ (Phase(k)' = Phase(k) => phase' = phase)
      BY <3>1
    <3>4. \/ Phase(k)' = Phase(k)
          \/ Phase(k) = "new" /\ Phase(k)' = "up"
          \/ Phase(k) = "up" /\ Phase(k)' = "joined"
          \/ Phase(k) \in {"up", "joined"} /\ Phase(k)' = "ended"
      BY <2>3, PhaseMoves
    <3> QED
      BY <3>2, <3>3, <3>4 DEF Told!Next, Told!Up, Told!Joins, Told!Ends, Told!Goes
  <2> QED
    BY <2>2, <2>3, StepTells
<1> QED
  BY <1>1, <1>2, <1>3, Inductive, PTL DEF Spec, UpcallSpec, Told!Spec

===============================================================================

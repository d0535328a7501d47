-------------------------------- MODULE Engine --------------------------------
(***************************************************************************)
(* IOEngine and NetEngine (engine/IOEngine.cpp, engine/NetEngine.cpp): the *)
(* engine thread, which takes packets from its message queue one at a time *)
(* and keeps the protocols by uid, and on top of them the nodes: the       *)
(* listener other nodes connect to, the nodes this one connects to, and    *)
(* the peers whose ping or pong was accepted.                              *)
(*                                                                         *)
(* The network thread is the abstract ConnectionLife, which Network is     *)
(* shown to implement.  Every report of it is put into the message queue   *)
(* by Protocol's on... calls (engine/Protocol.cpp).                        *)
(*                                                                         *)
(* A uid is a key of Network and is popped at most once.  Callbacks are in *)
(* the module Callbacks; packets for the application change nothing here.  *)
(***************************************************************************)
EXTENDS Naturals, Sequences, FiniteSets

CONSTANTS Keys,      \* uids
          Codes,     \* codes of the nodes that connectNode is given
          NoKey,     \* uid 0
          NoCode,    \* no entry in _connectingNodes
          MaxInbox,  \* bound: packets waiting in _msgqueue
          Confirmed  \* what the application calls confirm... for

ASSUME KeysAssumption == NoKey \notin Keys /\ NoCode \notin Codes /\ MaxInbox \in Nat
ASSUME ConfirmedAssumption == Confirmed \subseteq {"listener", "connector"}

VARIABLES kind,      \* what a uid was popped for
          life, reports, live,  \* the network: see ConnectionLife
          closing,   \* uids with an IOClose event under way to the network
          inbox,     \* _msgqueue
          protocols, \* the uids in _protocols
          available, \* uids whose protocol has _available set
          waiting,   \* the uid that confirmListen or confirmConnect waits for
          nodes      \* NetEngine's tables, and what it told the application

netvars == <<life, reports, live>>
vars == <<kind, netvars, closing, inbox, protocols, available, waiting, nodes>>

Net == INSTANCE ConnectionLife

(* An IONotify, or an IOPacket with a ping or a pong: ok is isSuccess, or   *)
(* that the message names this node; from is the listener or the sender.   *)
Packets ==
  [type: {"listen", "unlisten", "accept", "connect", "close", "disconnect", "ping", "pong"},
   key: Keys, ok: BOOLEAN, from: Keys \union Codes \union {NoKey}]

TypeOK ==
  /\ kind \in [Keys -> {"none", "listener", "connector", "session"}]
  /\ Net!TypeOK
  /\ closing \subseteq Keys
  /\ protocols \union available \subseteq {k \in Keys: kind[k] # "none"}
  /\ inbox \in Seq(Packets)
  /\ waiting \in [key: Keys \union {NoKey}, polled: BOOLEAN]
  /\ nodes \in
       [listener:   Keys \union {NoKey},                 \* _nodeUid
        known:      SUBSET Codes,                        \* codes in _connetNodes
        uid:        [Codes -> Keys \union {NoKey}],      \* Node::_uid of those
        connecting: [Keys -> Codes \union {NoCode}],     \* _connectingNodes
        accepted:   SUBSET {k \in Keys: kind[k] = "session"}, \* _accpetedNodes
        peers:      SUBSET Keys,                         \* _peersByUid
        ups:  [Keys -> Nat], ends: [Keys -> Nat],        \* upcalls for a uid
        joined: [Keys -> Nat], left: [Keys -> Nat]]      \* onNode(Dis)Connect

Idle == [key |-> NoKey, polled |-> FALSE]
Zero == [k \in Keys |-> 0]

Init ==
  /\ kind = [k \in Keys |-> "none"]
  /\ Net!Init
  /\ closing = {} /\ inbox = <<>> /\ protocols = {} /\ available = {}
  /\ waiting = Idle
  /\ nodes = [listener |-> NoKey, known |-> {}, uid |-> [c \in Codes |-> NoKey],
              connecting |-> [k \in Keys |-> NoCode], accepted |-> {}, peers |-> {},
              ups |-> Zero, ends |-> Zero, joined |-> Zero, left |-> Zero]

-------------------------------------------------------------------------------
(* The upcalls, on NetEngine's state n; the application's modules are told *)
(* after it.                                                               *)

OnListen(n, k, success) == IF success THEN [n EXCEPT !.ups[k] = @ + 1] ELSE n

OnUnlisten(n, k) ==
  [n EXCEPT !.ends[k] = @ + 1, !.listener = IF @ = k THEN NoKey ELSE @]

(* Faulty variant: the listener is taken for the connection. *)
OnAcceptFrom(n, k, from) ==
  [n EXCEPT !.ups[k] = @ + 1,
            !.accepted = IF n.listener = from THEN @ \union {from} ELSE @]

OnAccept(n, k, from) ==
  [n EXCEPT !.ups[k] = @ + 1,
            !.accepted = IF n.listener = from THEN @ \union {k} ELSE @]

OnConnect(n, k, success) == IF success THEN [n EXCEPT !.ups[k] = @ + 1] ELSE n

NodeLeaves(n, k) ==
  IF k \in n.peers THEN [n EXCEPT !.peers = @ \ {k}, !.left[k] = @ + 1] ELSE n

(* Faulty variants: the node of a uid that ends does not leave; a table    *)
(* keeps the uid.                                                          *)
OnCloseNodeStays(n, k) == [n EXCEPT !.ends[k] = @ + 1, !.accepted = @ \ {k}]
OnCloseKeepsAccepted(n, k) == NodeLeaves([n EXCEPT !.ends[k] = @ + 1], k)
OnDisconnectKeepsConnecting(n, k) ==
  LET c == n.connecting[k]
  IN NodeLeaves([n EXCEPT !.ends[k] = @ + 1,
                          !.uid = [d \in Codes |-> IF d = c THEN NoKey ELSE @[d]]], k)

OnClose(n, k) == NodeLeaves([n EXCEPT !.ends[k] = @ + 1, !.accepted = @ \ {k}], k)

OnDisconnect(n, k) ==
  LET c == n.connecting[k]
  IN NodeLeaves([n EXCEPT !.ends[k] = @ + 1, !.connecting[k] = NoCode,
                          !.uid = [d \in Codes |-> IF d = c THEN NoKey ELSE @[d]]], k)

OnEnd(n, k) ==
  CASE kind[k] = "listener"  -> OnUnlisten(n, k)
    [] kind[k] = "session"   -> OnClose(n, k)
    [] kind[k] = "connector" -> OnDisconnect(n, k)

(* IOEngine::close(k), after whatever else the caller did to the nodes. *)
CloseUid(n, k) ==
  /\ closing' = IF k \in protocols THEN closing \union {k} ELSE closing
  /\ protocols' = protocols \ {k}
  /\ nodes' = IF k \in protocols \intersect available THEN OnEnd(n, k) ELSE n

-------------------------------------------------------------------------------
(* dispatchIOPacket: what each kind of packet does. *)

Nothing == UNCHANGED <<protocols, available, nodes, closing>>

OnIOListen(p) ==
  IF p.key \notin protocols THEN Nothing
  ELSE /\ available' = IF p.ok THEN available \union {p.key} ELSE available
       /\ nodes' = OnListen(nodes, p.key, p.ok)
       /\ UNCHANGED <<protocols, closing>>

(* The upcall is onListen, with the packet's success, which is false. *)
OnIOUnListen(p) ==
  IF p.key \notin protocols \intersect available THEN Nothing
  ELSE /\ available' = available \ {p.key}
       /\ nodes' = OnListen(nodes, p.key, p.ok)
       /\ protocols' = protocols \ {p.key}
       /\ UNCHANGED closing

OnIOAccept(p) ==
  IF p.from \notin protocols \intersect available THEN Nothing
  ELSE /\ available' = available \union {p.key}
       /\ protocols' = protocols \union {p.key}
       /\ nodes' = OnAccept(nodes, p.key, p.from)
       /\ UNCHANGED closing

(* That the uid is in _protocols is not asked. *)
OnIOClose(p) ==
  IF p.key \notin available THEN Nothing
  ELSE /\ available' = available \ {p.key}
       /\ nodes' = OnClose(nodes, p.key)
       /\ protocols' = protocols \ {p.key}
       /\ UNCHANGED closing

OnIOConnect(p) ==
  IF p.key \notin protocols THEN Nothing
  ELSE /\ available' = IF p.ok THEN available \union {p.key} ELSE available
       /\ nodes' = OnConnect(nodes, p.key, p.ok)
       /\ UNCHANGED <<protocols, closing>>

(* Faulty variants: a uid that close has removed is told again; the        *)
(* protocol stays in the map.                                              *)
OnIODisconnectAlways(p) ==
  IF p.key \notin available THEN Nothing
  ELSE /\ available' = available \ {p.key}
       /\ nodes' = OnDisconnect(nodes, p.key)
       /\ protocols' = protocols \ {p.key}
       /\ UNCHANGED closing
OnIODisconnectKeeps(p) ==
  IF p.key \notin protocols \intersect available THEN Nothing
  ELSE /\ available' = available \ {p.key}
       /\ nodes' = OnDisconnect(nodes, p.key)
       /\ UNCHANGED <<protocols, closing>>

OnIODisconnect(p) ==
  IF p.key \notin protocols \intersect available THEN Nothing
  ELSE /\ available' = available \ {p.key}
       /\ nodes' = OnDisconnect(nodes, p.key)
       /\ protocols' = protocols \ {p.key}
       /\ UNCHANGED closing

NodeJoins(n, k) == [n EXCEPT !.peers = @ \union {k}, !.joined[k] = @ + 1]

(* Faulty variant: a second ping is taken like the first. *)
HandlerNodePingAgain(p) ==
  /\ UNCHANGED available
  /\ IF p.ok /\ p.key \in nodes.accepted
     THEN nodes' = NodeJoins(nodes, p.key) /\ UNCHANGED <<protocols, closing>>
     ELSE CloseUid(nodes, p.key)

(* A ping is answered by a pong, which changes nothing here. *)
HandlerNodePing(p) ==
  /\ UNCHANGED available
  /\ IF p.ok /\ p.key \in nodes.accepted \ nodes.peers
     THEN nodes' = NodeJoins(nodes, p.key) /\ UNCHANGED <<protocols, closing>>
     ELSE CloseUid(nodes, p.key)

(* The uid leaves _accpetedNodes once its node is found, whatever follows. *)
HandlerNodePong(p) ==
  LET c == nodes.connecting[p.key]
      n == IF p.ok /\ c # NoCode THEN [nodes EXCEPT !.accepted = @ \ {p.key}] ELSE nodes
  IN /\ UNCHANGED available
     /\ IF p.ok /\ c # NoCode /\ c = p.from /\ p.key \notin n.peers
        THEN nodes' = NodeJoins(n, p.key) /\ UNCHANGED <<protocols, closing>>
        ELSE CloseUid(n, p.key)

OnIOPacket(p) ==
  IF p.key \notin protocols \intersect available THEN Nothing
  ELSE IF p.type = "ping" THEN HandlerNodePing(p) ELSE HandlerNodePong(p)

DispatchIOPacket(p) ==
  CASE p.type = "listen"     -> OnIOListen(p)
    [] p.type = "unlisten"   -> OnIOUnListen(p)
    [] p.type = "accept"     -> OnIOAccept(p)
    [] p.type = "connect"    -> OnIOConnect(p)
    [] p.type = "close"      -> OnIOClose(p)
    [] p.type = "disconnect" -> OnIODisconnect(p)
    [] OTHER                 -> OnIOPacket(p)

Without(s, i) == SubSeq(s, 1, i - 1) \o SubSeq(s, i + 1, Len(s))

(* MsgQueue::poll gives the packets in order. *)
Dispatch ==
  /\ waiting = Idle /\ inbox # <<>>
  /\ DispatchIOPacket(Head(inbox))
  /\ inbox' = Tail(inbox)
  /\ UNCHANGED <<kind, netvars, waiting>>

-------------------------------------------------------------------------------
(* What the application, or a timer, calls on the engine thread. *)

Pop(k, for) == kind[k] = "none" /\ kind' = [kind EXCEPT ![k] = for]

(* setupNode, which waits in confirmListen. *)
SetupNode(k) ==
  /\ waiting = Idle /\ nodes.listener = NoKey
  /\ Pop(k, "listener")
  /\ protocols' = protocols \union {k}
  /\ nodes' = [nodes EXCEPT !.listener = k]
  /\ waiting' = [key |-> k, polled |-> FALSE]
  /\ UNCHANGED <<netvars, closing, inbox, available>>

Listen(k) ==
  /\ waiting = Idle
  /\ Pop(k, "listener")
  /\ protocols' = protocols \union {k}
  /\ UNCHANGED <<netvars, closing, inbox, available, waiting, nodes>>

Connect(k) ==
  /\ waiting = Idle
  /\ Pop(k, "connector")
  /\ protocols' = protocols \union {k}
  /\ UNCHANGED <<netvars, closing, inbox, available, waiting, nodes>>

Connecting(n, c, k) == [n EXCEPT !.uid[c] = k, !.connecting[k] = c]

(* The node is there even if no key could be popped. *)
ConnectNode(c) ==
  LET n == [nodes EXCEPT !.known = @ \union {c}] IN
  /\ waiting = Idle /\ c \notin nodes.known
  /\ \/ \E k \in Keys: /\ Pop(k, "connector")
                      /\ protocols' = protocols \union {k}
                      /\ nodes' = Connecting(n, c, k)
     \/ nodes' = n /\ UNCHANGED <<kind, protocols>>
  /\ UNCHANGED <<netvars, closing, inbox, available, waiting>>

(* NetEngine::onTimer1000ms, for the nodes without a uid that get a key. *)
OnTimer1000ms ==
  /\ waiting = Idle
  /\ \E lost \in SUBSET {c \in nodes.known: nodes.uid[c] = NoKey}:
     \E uid \in [lost -> {k \in Keys: kind[k] = "none"}]:
       LET new == {uid[c]: c \in lost} IN
       /\ lost # {} /\ Cardinality(new) = Cardinality(lost)
       /\ kind' = [k \in Keys |-> IF k \in new THEN "connector" ELSE kind[k]]
       /\ protocols' = protocols \union new
       /\ nodes' = [nodes EXCEPT
            !.uid = [c \in Codes |-> IF c \in lost THEN uid[c] ELSE @[c]],
            !.connecting = [k \in Keys |-> IF k \in new THEN CHOOSE c \in lost: uid[c] = k
                                           ELSE @[k]]]
  /\ UNCHANGED <<netvars, closing, inbox, available, waiting>>

Close(k) ==
  /\ waiting = Idle /\ k \in protocols
  /\ CloseUid(nodes, k)
  /\ UNCHANGED <<kind, netvars, inbox, available, waiting>>

Confirm(k) ==
  /\ waiting = Idle /\ kind[k] \in Confirmed /\ k \in protocols \ available
  /\ waiting' = [key |-> k, polled |-> FALSE]
  /\ UNCHANGED <<kind, netvars, closing, inbox, protocols, available, nodes>>

(* pollOnePacket takes the first notification about the protocol, past the *)
(* packets before it.                                                      *)
Notification(p, k) == p.key = k /\ p.type \notin {"ping", "pong"}

ConfirmPoll ==
  /\ waiting.key # NoKey /\ ~waiting.polled
  /\ \E i \in 1..Len(inbox):
       /\ Notification(inbox[i], waiting.key)
       /\ \A j \in 1..i - 1: ~Notification(inbox[j], waiting.key)
       /\ DispatchIOPacket(inbox[i])
       /\ inbox' = Without(inbox, i)
  /\ waiting' = [waiting EXCEPT !.polled = TRUE]
  /\ UNCHANGED <<kind, netvars>>

(* Faulty variant: a node that could not be confirmed is not closed. *)
ConfirmEndNoClose ==
  LET k == waiting.key IN
  /\ k # NoKey
  /\ waiting' = Idle
  /\ IF k \in available THEN UNCHANGED <<protocols, nodes>>
     ELSE /\ protocols' = protocols \ {k}
          /\ nodes' = [nodes EXCEPT !.listener = IF @ = k THEN NoKey ELSE @]
  /\ UNCHANGED <<kind, netvars, inbox, available, closing>>

(* The time is over, or a packet was polled: a protocol that is not        *)
(* available is removed and closed, without an upcall.                     *)
ConfirmEnd ==
  LET k == waiting.key IN
  /\ k # NoKey
  /\ waiting' = Idle
  /\ IF k \in available THEN UNCHANGED <<protocols, closing, nodes>>
     ELSE /\ protocols' = protocols \ {k}
          /\ closing' = closing \union {k}
          /\ nodes' = [nodes EXCEPT !.listener = IF @ = k THEN NoKey ELSE @]
  /\ UNCHANGED <<kind, netvars, inbox, available>>

Application ==
  \/ \E k \in Keys: SetupNode(k) \/ Listen(k) \/ Connect(k) \/ Close(k) \/ Confirm(k)
  \/ \E c \in Codes: ConnectNode(c)

-------------------------------------------------------------------------------
(* The network thread: its reports become packets. *)

Post(type, k, ok, from) ==
  /\ Len(inbox) < MaxInbox
  /\ inbox' = Append(inbox, [type |-> type, key |-> k, ok |-> ok, from |-> from])
  /\ UNCHANGED <<protocols, available, waiting, nodes>>

(* listen and connect events are processed before a close pushed later. *)
NetListens(k) ==
  /\ kind[k] = "listener" /\ life[k] = "idle"
  /\ \/ Net!Up(k) /\ Post("listen", k, TRUE, NoKey)
     \/ Net!Fail(k) /\ UNCHANGED live /\ Post("listen", k, FALSE, NoKey)
  /\ UNCHANGED <<kind, closing>>

NetConnects(k) ==
  /\ kind[k] = "connector" /\ Net!Trying(k)
  /\ \/ Net!Up(k) /\ Post("connect", k, TRUE, NoKey)
     \/ /\ Net!Fail(k) /\ live' = live \union {k}
        /\ Post("connect", k, FALSE, NoKey)
  /\ UNCHANGED <<kind, closing>>

NetAttempts(k) ==
  /\ kind[k] = "connector" /\ k \notin live /\ Net!Attempt(k)
  /\ UNCHANGED <<kind, closing, inbox, protocols, available, waiting, nodes>>

NetAccepts(k, from) ==
  /\ kind[from] = "listener" /\ life[from] = "up"
  /\ Pop(k, "session")
  /\ Net!Up(k) /\ Post("accept", k, TRUE, from)
  /\ UNCHANGED closing

NetEnds(k) ==
  /\ Net!Down(k)
  /\ Post(CASE kind[k] = "listener"  -> "unlisten"
            [] kind[k] = "session"   -> "close"
            [] kind[k] = "connector" -> "disconnect", k, FALSE, NoKey)

NetLost(k) == kind[k] # "listener" /\ NetEnds(k) /\ UNCHANGED <<kind, closing>>

(* The close event: an attempt is given up, an open connection is ended,   *)
(* anything else has gone already.                                         *)
NetCloses(k) ==
  /\ k \in closing /\ closing' = closing \ {k} /\ UNCHANGED kind
  /\ \/ /\ kind[k] = "connector" /\ Net!Trying(k) /\ k \in live
        /\ Net!Fail(k) /\ live' = live \ {k}
        /\ Post("connect", k, FALSE, NoKey)
     \/ NetEnds(k)
     \/ /\ life[k] = "ended" \/ (life[k] = "failed" /\ k \notin live)
        /\ UNCHANGED <<netvars, inbox, protocols, available, waiting, nodes>>

(* A ping or pong from a node that connectNode was given, or another; a    *)
(* connection that is being closed may still deliver.                      *)
NetReceives(k) ==
  /\ kind[k] \in {"session", "connector"} /\ k \in live /\ life[k] \in {"up", "ended"}
  /\ \/ \E ok \in BOOLEAN: Post("ping", k, ok, NoKey)
     \/ Post("pong", k, FALSE, NoKey)
     \/ \E from \in Codes \union {NoKey}: Post("pong", k, TRUE, from)
  /\ UNCHANGED <<kind, netvars, closing>>

NetDrains(k) ==
  /\ k \in live /\ Net!Drained(k)
  /\ UNCHANGED <<kind, closing, inbox, protocols, available, waiting, nodes>>

Network ==
  \/ \E k \in Keys: \/ NetListens(k) \/ NetConnects(k) \/ NetAttempts(k) \/ NetLost(k)
                    \/ NetCloses(k)  \/ NetReceives(k) \/ NetDrains(k)
  \/ \E k, from \in Keys: NetAccepts(k, from)

-------------------------------------------------------------------------------
EngineThread == Dispatch \/ ConfirmPoll \/ ConfirmEnd \/ OnTimer1000ms

Next == EngineThread \/ Application \/ Network

Spec == Init /\ [][Next]_vars

(* onLoop polls the message queue without end, and a confirm call returns. *)
FairSpec == Spec /\ WF_vars(Dispatch) /\ WF_vars(ConfirmEnd)

-------------------------------------------------------------------------------
(* Properties. *)

(* A peer is a connection the engine still has and may send to: no table   *)
(* of NetEngine keeps a uid that IOEngine has forgotten.                   *)
TablesKnown == nodes.peers \union nodes.accepted \subseteq protocols \intersect available

(* A uid is reported ended only after it was reported up; what ends        *)
(* connectors and listeners, close or the network, tells it once.          *)
EndsAfterUp ==
  \A k \in Keys:
    /\ nodes.ups[k] <= 1
    /\ nodes.ends[k] > 0 => nodes.ups[k] = 1
    /\ kind[k] # "session" => nodes.ends[k] <= nodes.ups[k]

(* onNodeConnect and onNodeDisConnect come in pairs, one pair per uid,     *)
(* whatever the order of pings, pongs, closes and losses.                  *)
NodesPaired ==
  \A k \in Keys: /\ nodes.joined[k] <= 1
                 /\ nodes.joined[k] = nodes.left[k] + IF k \in nodes.peers THEN 1 ELSE 0

(* The ping that onConnect sends goes to the uid of its node, which is the *)
(* uid that connected: send's assert(packet->getUid() == 0) is not met.    *)
ConnectingIsNodeUid ==
  \A k \in Keys: nodes.connecting[k] # NoCode => nodes.uid[nodes.connecting[k]] = k

(* The engine has closed, or will close, every connector it gave up.       *)
GivenUpIsClosed ==
  \A k \in Keys: kind[k] \in {"connector", "listener"} /\ k \notin protocols =>
    \/ k \in closing
    \/ life[k] = "ended" \/ (life[k] = "failed" /\ k \notin live)

(* How far a uid has come for the application; a node that is left behind, *)
(* or that leaves while its uid stays, is no phase or a step back.         *)
Phase(k) ==
  IF nodes.ends[k] > 0 THEN IF k \in nodes.peers THEN "node left behind" ELSE "ended"
  ELSE IF k \in nodes.peers THEN "joined"
  ELSE IF nodes.ups[k] > 0 THEN "up" ELSE "new"

Told == INSTANCE Upcalls WITH phase <- [k \in Keys |-> Phase(k)]

(* The engine's upcalls are those of Upcalls: through late packets, closes *)
(* before, between and after them, pings at any time and repeated ends, a  *)
(* uid is up, joined and ended in this order, one uid in each step, and    *)
(* its node leaves in the step that ends it.  That onClose of a session    *)
(* may be called again (NetEngine.cpp 205) adds nothing to Upcalls.        *)
UpcallSpec == Told!Spec

(* A connection that ended is forgotten, and its node may connect again.   *)
EndedIsForgotten ==
  \A k \in Keys: life[k] = "ended" /\ k \in protocols ~> k \notin protocols

(* What the code or its comments say, and the runs refute. *)

(* IOEngine.cpp 394: the listener of an accepted connection is known.      *)
AcceptExpected ==
  inbox # <<>> /\ Head(inbox).type = "accept"
    => Head(inbox).from \in protocols \intersect available

(* NetEngine.h 62: the uids in _connectingNodes are connecting.            *)
ConnectingKnown == \A k \in Keys: nodes.connecting[k] # NoCode => k \in protocols

===============================================================================

------------------------------- MODULE Network --------------------------------
(***************************************************************************)
(* CNetwork (network/Network.cpp, network/TCP_Network.cpp) with its poller *)
(* (Poller.cpp, EPoller.cpp) and the objects it keeps (IOObject.cpp,       *)
(* IOObjects.cpp): one network thread that owns the object table, the      *)
(* epoll interest of every socket, the connection state machine and the    *)
(* timers, and the engine's threads, which only pop keys and push events.  *)
(*                                                                         *)
(* A key stands for one value of ObjecKeyPool, slot index and generation   *)
(* together: SlotOf gives the index, and a key is popped at most once (the *)
(* generations of the real pool do not wrap within a behaviour).           *)
(*                                                                         *)
(* The network thread runs one callback, one event or one timer per step.  *)
(* The asserts of the code are not guards: the invariants below state that *)
(* no step can meet one that fails.                                        *)
(***************************************************************************)
EXTENDS Naturals, Sequences, FiniteSets

CONSTANTS Keys,       \* the keys the pool can hand out
          Slots,      \* indexes of CNetwork::_objects
          SlotOf,     \* index(key)
          NoKey,      \* an empty slot (nullptr)
          MaxQueue,   \* bound: events waiting in _eventQueue
          MaxOut      \* bound: bytes waiting in a connection's out buffer

ASSUME SlotOfAssumption == SlotOf \in [Keys -> Slots]
ASSUME NoKeyAssumption  == NoKey \notin Keys
ASSUME BoundAssumption  == MaxQueue \in Nat /\ MaxOut \in Nat

VARIABLES queue,    \* _eventQueue
          used,     \* keys popped so far
          refs,     \* keys whose protocol the engine or one of its packets holds
          objects,  \* the object table
          con,      \* per key, the object and what its owner has been told
          ghosts    \* connections out of the table, not yet recycled

vars == <<queue, used, refs, objects, con, ghosts>>

Events == [type: {"LISTEN", "CONNECT", "DATA", "CLOSE"}, key: Keys]
States == {"DISCONNECTED", "CONNECTING", "CONNECTED", "DISCONNECTING"}

Connection ==
  [kind:      {"none", "listener", "connector", "session"},
   state:     States,
   handler:   {"none", "accept", "connect", "con"},    \* the callbacks bound
   events:    SUBSET {"READ", "WRITE"},                \* IOObject::_events
   armed:     BOOLEAN,      \* the socket is in the epoll set
   writing:   BOOLEAN,      \* Connection::_isWriting
   out:       Nat,          \* bytes in _outBuffer
   fin:       BOOLEAN,      \* shutdownWrite was called on the socket
   reconnect: Nat,          \* 4 s reconnect timers running
   force:     Nat,          \* FORCE_CLOSE_SECOND timers running
   told:      {"idle", "failed", "up", "ended"},       \* the last on... call
   reports:   Nat]          \* calls that said up or ended

Fresh == [kind |-> "none", state |-> "DISCONNECTED", handler |-> "none",
          events |-> {}, armed |-> FALSE, writing |-> FALSE, out |-> 0,
          fin |-> FALSE, reconnect |-> 0, force |-> 0, told |-> "idle",
          reports |-> 0]

TypeOK ==
  /\ queue \in Seq(Events)
  /\ used \subseteq Keys
  /\ refs \subseteq used
  /\ objects \in [Slots -> Keys \union {NoKey}]
  /\ con \in [Keys -> Connection]
  /\ ghosts \subseteq used

Init ==
  /\ queue = <<>>
  /\ used = {}
  /\ refs = {}
  /\ objects = [s \in Slots |-> NoKey]
  /\ con = [k \in Keys |-> Fresh]
  /\ ghosts = {}

-------------------------------------------------------------------------------
(* The object table and the key pool. *)

(* getObject(key) # nullptr *)
Live(k) == objects[SlotOf[k]] = k

AddObject(k)    == objects' = [objects EXCEPT ![SlotOf[k]] = k]
RemoveObject(k) == objects' = [objects EXCEPT ![SlotOf[k]] = NoKey]

(* A protocol still waiting in an IOListen or IOEConnect event. *)
Pending(k) ==
  \E i \in 1..Len(queue): queue[i].key = k /\ queue[i].type \in {"LISTEN", "CONNECT"}

(* IOProtocol::onRecycle gives the key back when the last holder lets go:  *)
(* a queued event, the object in the table, a removed connection that its  *)
(* timers still reference, the engine or a packet on its way to it.        *)
InUse(k) == k \in refs \/ Pending(k) \/ Live(k) \/ k \in ghosts

(* Faulty variant: the key comes back when the engine lets go of it. *)
PopKeyEarly(k) ==
  /\ k \notin used
  /\ \A j \in used: SlotOf[j] = SlotOf[k] => ~(j \in refs \/ Pending(j))
  /\ used' = used \union {k}

PopKey(k) ==
  /\ k \notin used
  /\ \A j \in used: SlotOf[j] = SlotOf[k] => ~InUse(j)
  /\ used' = used \union {k}

Push(type, k) ==
  /\ Len(queue) < MaxQueue
  /\ queue' = Append(queue, [type |-> type, key |-> k])

-------------------------------------------------------------------------------
(* One connection object: what each piece of the handlers does to it. *)

(* CPoller::registerReadHandler and its siblings; deregistering toggles the *)
(* bit, and an empty interest takes the socket out of the epoll set.        *)
Interest(c, ev) == [c EXCEPT !.events = ev, !.armed = (ev # {})]
Toggle(ev, b) == IF b \in ev THEN ev \ {b} ELSE ev \union {b}
RegisterRead(c)    == Interest(c, c.events \union {"READ"})
DeregisterWrite(c) == Interest(c, Toggle(c.events, "WRITE"))
Deregister(c)      == Interest(c, {})

(* Adding a socket that could not be created fails in epoll_ctl, after     *)
(* updateEvents has recorded the interest.                                 *)
RegisterConnecting(c, created) ==
  [Interest(c, c.events \union {"WRITE"}) EXCEPT !.armed = created]

(* onListen(true), onAccept, onConnect(true); onUnlisten, onClose, onDisConnect *)
Tell(c, what) == [c EXCEPT !.told = what, !.reports = @ + 1]

Listening(c) == RegisterRead([Tell(c, "up") EXCEPT !.handler = "accept"])

Accepted(c) ==
  RegisterRead([Tell(c, "up") EXCEPT !.kind = "session", !.handler = "con",
                                     !.state = "CONNECTED"])

Retrying(c, created) ==
  RegisterConnecting([c EXCEPT !.state = "CONNECTING"], created)

Connecting(c, created) == Retrying([c EXCEPT !.handler = "connect"], created)

Connected(c) ==
  RegisterRead([Tell(Deregister(c), "up") EXCEPT !.state = "CONNECTED", !.handler = "con"])

(* Faulty variant: no timer is started for the next attempt. *)
ConnectFailedNoTimer(c) ==
  [Deregister(c) EXCEPT !.state = "DISCONNECTED", !.told = "failed"]

ConnectFailed(c) ==
  [Deregister(c) EXCEPT !.state = "DISCONNECTED", !.told = "failed",
                        !.reconnect = @ + 1]

(* Faulty variant: the write handler is toggled for every short write. *)
BufferedToggle(c, rest) ==
  DeregisterWrite([c EXCEPT !.out = @ + rest, !.writing = TRUE])

(* The part of a sent message that the socket did not take. *)
Buffered(c, rest) ==
  LET d == [c EXCEPT !.out = @ + rest]
  IN IF d.writing THEN d ELSE DeregisterWrite([d EXCEPT !.writing = TRUE])

Flushed(c) ==
  DeregisterWrite([c EXCEPT !.out = 0, !.writing = FALSE,
                            !.fin = @ \/ c.state = "DISCONNECTING"])

(* Faulty variants: the end is reported again while output drains; the     *)
(* owner of a session is not told.                                         *)
EndedTwice(c) ==
  IF c.state \in {"CONNECTED", "DISCONNECTING"} THEN Tell(c, "ended") ELSE c
EndedUntold(c) ==
  IF c.state = "CONNECTED" /\ c.kind = "connector" THEN Tell(c, "ended") ELSE c

(* onClose / onDisConnect, told only to the owner of an open connection. *)
Ended(c) == IF c.state = "CONNECTED" THEN Tell(c, "ended") ELSE c

(* Faulty variants: the FIN does not wait for the buffered output; a close *)
(* in an orderly way is never forced.                                      *)
DrainingFinNow(c) == [c EXCEPT !.state = "DISCONNECTING", !.fin = TRUE, !.force = @ + 1]
DrainingNoForce(c) == [c EXCEPT !.state = "DISCONNECTING", !.fin = @ \/ ~c.writing]

Draining(c) ==
  [c EXCEPT !.state = "DISCONNECTING", !.fin = @ \/ ~c.writing, !.force = @ + 1]

Removed(c) == [Deregister(c) EXCEPT !.state = "DISCONNECTED"]

(* Connection::onRecycle, when the last reference to a removed one is gone. *)
Recycled(c) == [c EXCEPT !.out = 0, !.reconnect = 0, !.force = 0]

-------------------------------------------------------------------------------
(* The engine's side of the interface. *)

(* listen: the key is set before the event is pushed. *)
Listen(k) ==
  /\ PopKey(k) /\ Push("LISTEN", k)
  /\ con' = [con EXCEPT ![k].kind = "listener"]
  /\ refs' = refs \union {k}
  /\ UNCHANGED <<objects, ghosts>>

Connect(k) ==
  /\ PopKey(k) /\ Push("CONNECT", k)
  /\ con' = [con EXCEPT ![k].kind = "connector"]
  /\ refs' = refs \union {k}
  /\ UNCHANGED <<objects, ghosts>>

(* close and send name a key the caller saw once; it may be long gone.     *)
(* Nobody sends to a listener: tcpSend asserts it.                         *)
Close(k) ==
  /\ k \in used /\ Push("CLOSE", k)
  /\ UNCHANGED <<used, refs, objects, con, ghosts>>

Send(k) ==
  /\ k \in used /\ con[k].kind # "listener" /\ Push("DATA", k)
  /\ UNCHANGED <<used, refs, objects, con, ghosts>>

(* The engine and its packets let go of the protocol. *)
Release(k) ==
  /\ k \in refs
  /\ refs' = refs \ {k}
  /\ UNCHANGED <<queue, used, objects, con, ghosts>>

-------------------------------------------------------------------------------
(* Closing.  removeTcpCon and removeTcpListen leave a connection's timers  *)
(* running; every on... call puts a reference to the protocol in a packet. *)

Remove(k, c) ==
  /\ con' = [con EXCEPT ![k] = Removed(c)]
  /\ RemoveObject(k)
  /\ ghosts' = ghosts \union {k}

CloseListen(k) ==
  /\ con[k].kind = "listener"
  /\ Remove(k, Tell(con[k], "ended"))
  /\ refs' = refs \union {k}

(* tcpCloseConnection and tcpCloseConnector; a connector that is not yet   *)
(* connected is removed at once.                                           *)
CloseCon(k, force) ==
  LET c == con[k] IN
  /\ c.kind \in {"session", "connector"}
  /\ \/ /\ c.kind = "connector" /\ c.state \in {"DISCONNECTED", "CONNECTING"}
        /\ Remove(k, [c EXCEPT !.told = "failed"])
        /\ refs' = refs \union {k}
     \/ /\ c.kind = "session" \/ c.state \in {"CONNECTED", "DISCONNECTING"}
        /\ IF force
           THEN Remove(k, Ended(c))
           ELSE /\ con' = [con EXCEPT ![k] =
                             IF c.state = "DISCONNECTING" THEN c ELSE Draining(Ended(c))]
                /\ UNCHANGED <<objects, ghosts>>
        /\ refs' = IF c.state = "CONNECTED" THEN refs \union {k} ELSE refs

-------------------------------------------------------------------------------
(* Events, in the order they were pushed. *)

Take(type, k) ==
  /\ queue # <<>> /\ Head(queue) = [type |-> type, key |-> k]
  /\ queue' = Tail(queue)
  /\ UNCHANGED used

(* tcpListen: the socket may not be created, or may not listen. *)
ProcessListen(k) ==
  /\ Take("LISTEN", k)
  /\ refs' = refs \union {k}
  /\ \/ con' = [con EXCEPT ![k].told = "failed"] /\ UNCHANGED objects
     \/ con' = [con EXCEPT ![k] = Listening(con[k])] /\ AddObject(k)
  /\ UNCHANGED ghosts

(* tcpConnect: nothing checks that the socket was created. *)
ProcessConnect(k) ==
  /\ Take("CONNECT", k)
  /\ \E created \in BOOLEAN: con' = [con EXCEPT ![k] = Connecting(con[k], created)]
  /\ AddObject(k)
  /\ UNCHANGED <<refs, ghosts>>

ProcessClose(k) ==
  /\ Take("CLOSE", k)
  /\ \/ ~Live(k) /\ UNCHANGED <<refs, objects, con, ghosts>>
     \/ Live(k) /\ (CloseListen(k) \/ CloseCon(k, FALSE))

(* tcpSend: the message is dropped unless connected; a message that cannot *)
(* be serialised closes the connection; the socket takes all of it or      *)
(* nothing (the rest is lost), or a part, and the rest is buffered.        *)
ProcessData(k) ==
  /\ Take("DATA", k)
  /\ \/ UNCHANGED <<refs, objects, con, ghosts>>
     \/ /\ Live(k) /\ con[k].state = "CONNECTED"
        /\ \/ CloseCon(k, TRUE)
           \/ /\ \E rest \in 1..MaxOut:
                   /\ con[k].out + rest <= MaxOut
                   /\ con' = [con EXCEPT ![k] = Buffered(con[k], rest)]
              /\ UNCHANGED <<refs, objects, ghosts>>

Dispatch ==
  \E k \in Keys: ProcessListen(k) \/ ProcessConnect(k) \/ ProcessClose(k) \/ ProcessData(k)

-------------------------------------------------------------------------------
(* CEPoller::poll: a callback runs for an object of the table whose socket *)
(* is in the epoll set; read and write callbacks also need the interest.   *)

Polled(k, handler) == Live(k) /\ con[k].armed /\ con[k].handler = handler

(* A failed accept and an empty key pool leave everything as it was. *)
HandleAccept(l, k) ==
  /\ Polled(l, "accept") /\ "READ" \in con[l].events
  /\ PopKey(k)
  /\ con' = [con EXCEPT ![k] = Accepted(con[k])]
  /\ AddObject(k)
  /\ refs' = refs \union {k, l}
  /\ UNCHANGED <<queue, ghosts>>

(* handleTcpConError, and handleTcpConRead at the end of the stream or on  *)
(* a message that cannot be decoded.  Other reads stay within the stream.  *)
HandleConLost(k) ==
  /\ Polled(k, "con")
  /\ CloseCon(k, TRUE)
  /\ UNCHANGED <<queue, used>>

(* Faulty variant: more is confirmed than was in the buffer. *)
HandleConWriteTooMuch(k) ==
  /\ Polled(k, "con") /\ "WRITE" \in con[k].events
  /\ \E n \in 1..MaxOut: con' = [con EXCEPT ![k].out = @ - n]
  /\ UNCHANGED <<queue, used, refs, objects, ghosts>>

(* The socket takes all of the out buffer, a part of it, or nothing. *)
HandleConWrite(k) ==
  /\ Polled(k, "con") /\ "WRITE" \in con[k].events
  /\ \/ con' = [con EXCEPT ![k] = Flushed(con[k])]
     \/ \E n \in 1..MaxOut: n < con[k].out /\ con' = [con EXCEPT ![k].out = @ - n]
  /\ UNCHANGED <<queue, used, refs, objects, ghosts>>

HandleConnectWrite(k) ==
  /\ Polled(k, "connect") /\ "WRITE" \in con[k].events
  /\ con' = [con EXCEPT ![k] = Connected(con[k])]
  /\ refs' = refs \union {k}
  /\ UNCHANGED <<queue, used, objects, ghosts>>

(* handleTcpConnectError, and handleTcpConnectWrite when the peer has no   *)
(* name or is the socket itself: onTcpConnectError.                        *)
HandleConnectFailed(k) ==
  /\ Polled(k, "connect")
  /\ con' = [con EXCEPT ![k] = ConnectFailed(con[k])]
  /\ refs' = refs \union {k}
  /\ UNCHANGED <<queue, used, objects, ghosts>>

Poll ==
  \/ \E l, k \in Keys: HandleAccept(l, k)
  \/ \E k \in Keys: \/ HandleConLost(k)      \/ HandleConWrite(k)
                    \/ HandleConnectWrite(k) \/ HandleConnectFailed(k)

-------------------------------------------------------------------------------
(* Timers.  They belong to the connection and run out of the table, too,   *)
(* where they find no object and do nothing.                               *)

(* Faulty variant: the retry timer repeats. *)
ReconnectTimerRepeats(k) ==
  /\ con[k].reconnect > 0
  /\ \/ ~Live(k) /\ UNCHANGED con
     \/ Live(k) /\ \E created \in BOOLEAN: con' = [con EXCEPT ![k] = Retrying(@, created)]
  /\ UNCHANGED <<queue, used, refs, objects, ghosts>>

ReconnectTimer(k) ==
  /\ con[k].reconnect > 0
  /\ LET c == [con[k] EXCEPT !.reconnect = @ - 1] IN
     \/ ~Live(k) /\ con' = [con EXCEPT ![k] = c]
     \/ /\ Live(k)
        /\ \E created \in BOOLEAN: con' = [con EXCEPT ![k] = Retrying(c, created)]
  /\ UNCHANGED <<queue, used, refs, objects, ghosts>>

ForceTimer(k) ==
  /\ con[k].force > 0
  /\ LET c == [con[k] EXCEPT !.force = @ - 1] IN
     \/ ~Live(k) /\ con' = [con EXCEPT ![k] = c] /\ UNCHANGED <<objects, ghosts>>
     \/ Live(k) /\ Remove(k, c)
  /\ UNCHANGED <<queue, used, refs>>

Recycle(k) ==
  /\ k \in ghosts
  /\ ghosts' = ghosts \ {k}
  /\ con' = [con EXCEPT ![k] = Recycled(con[k])]
  /\ UNCHANGED <<queue, used, refs, objects>>

-------------------------------------------------------------------------------
Engine == \E k \in Keys: Listen(k) \/ Connect(k) \/ Close(k) \/ Send(k) \/ Release(k)

Timers == \E k \in Keys: ReconnectTimer(k) \/ ForceTimer(k) \/ Recycle(k)

Next == Engine \/ Dispatch \/ Poll \/ Timers

Spec == Init /\ [][Next]_vars

(* The loop polls at most POLL_TIMEOUT, then runs every event it finds and *)
(* every timer that is due; nothing makes the peer or the engine act.      *)
FairSpec ==
  /\ Spec
  /\ WF_vars(Dispatch)
  /\ \A k \in Keys: WF_vars(ReconnectTimer(k)) /\ WF_vars(ForceTimer(k))

-------------------------------------------------------------------------------
(* Properties. *)

(* The key pool and the table agree about slots: whoever still holds a key *)
(* (a queued event, the table, a removed connection, the engine) keeps its *)
(* slot from being handed out again.  The asserts of addObject rest on it. *)
SlotExclusive ==
  \A j, k \in used: InUse(j) /\ InUse(k) /\ SlotOf[j] = SlotOf[k] => j = k

(* addObject's assert(_objects[index] == nullptr), for the listen and      *)
(* connect events still to be processed.                                   *)
PendingSlotFree == \A k \in Keys: Pending(k) => objects[SlotOf[k]] = NoKey

(* An open connection always reads, and waits for writability exactly      *)
(* while bytes are buffered: the toggle of deregisterWriteHandler never    *)
(* goes the wrong way, and the asserts of handleTcpConWrite hold.          *)
WriteInterestTracksBuffer ==
  \A k \in Keys: Live(k) /\ con[k].handler = "con" =>
    /\ con[k].state \in {"CONNECTED", "DISCONNECTING"}
    /\ "READ" \in con[k].events
    /\ con[k].writing <=> "WRITE" \in con[k].events
    /\ con[k].writing <=> con[k].out > 0

(* A graceful close sends its FIN as soon as, and never before, the        *)
(* buffered bytes have left.                                               *)
FinAfterOutput ==
  \A k \in Keys: Live(k) =>
    (con[k].fin <=> con[k].state = "DISCONNECTING" /\ con[k].out = 0)

(* A connector that is neither polled nor connected has exactly one retry  *)
(* ahead of it, and a closing connection exactly one forced removal; the   *)
(* states the timers assert are the states they meet.                      *)
TimersMatchState ==
  \A k \in Keys: Live(k) /\ con[k].kind # "listener" =>
    /\ con[k].reconnect = IF con[k].state = "DISCONNECTED" THEN 1 ELSE 0
    /\ con[k].force = IF con[k].state = "DISCONNECTING" THEN 1 ELSE 0

(* The owner believes a key to be up exactly while its object is in the    *)
(* table and open (connected, or listening).                               *)
ToldUpWhileOpen ==
  \A k \in Keys: con[k].told = "up" <=>
    Live(k) /\ (con[k].state = "CONNECTED" \/ con[k].kind = "listener")

(* CNetwork keeps the promises of ConnectionLife. *)
Life == INSTANCE ConnectionLife WITH life    <- [k \in Keys |-> con[k].told],
                                     reports <- [k \in Keys |-> con[k].reports],
                                     live    <- {k \in Keys: Live(k)}
LifeSpec == Life!Spec

(* A close that reaches the network thread while the object is there ends  *)
(* with the slot free, whatever the peer and the engine do.                *)
CloseQueued(k) == \E i \in 1..Len(queue): queue[i] = [type |-> "CLOSE", key |-> k]
CloseFreesSlot == \A k \in Keys: Live(k) /\ CloseQueued(k) ~> ~Live(k)

(* A connector whose attempt failed tries again unless it is closed.       *)
FailedConnectorRetries ==
  \A k \in Keys: Live(k) /\ con[k].told = "failed" /\ con[k].state = "DISCONNECTED"
                 ~> ~Live(k) \/ con[k].state = "CONNECTING"

===============================================================================

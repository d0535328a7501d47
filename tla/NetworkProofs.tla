----------------------------- MODULE NetworkProofs ----------------------------
(***************************************************************************)
(* Proofs about Network, for any set of keys, any assignment of slots and  *)
(* any bounds.                                                             *)
(***************************************************************************)
EXTENDS Network, TLAPS

USE SlotOfAssumption, NoKeyAssumption, BoundAssumption

-------------------------------------------------------------------------------
(* Types.  A step keeps refs and ghosts among the keys in use because only *)
(* popped keys are queued and only popped keys are in the table.           *)

QueueUsed == \A i \in 1..Len(queue): queue[i].key \in used
TableUsed == \A s \in Slots: objects[s] # NoKey =>
                objects[s] \in used /\ SlotOf[objects[s]] = s

TypeInv == TypeOK /\ QueueUsed /\ TableUsed

(* The pieces of the handlers map connections to connections. *)
LEMMA InterestType ==
  ASSUME NEW c \in Connection, NEW ev \in SUBSET {"READ", "WRITE"}
  PROVE  Interest(c, ev) \in Connection
BY DEF Interest, Connection

LEMMA RegisterType ==
  ASSUME NEW c \in Connection
  PROVE  /\ RegisterRead(c) \in Connection
         /\ DeregisterWrite(c) \in Connection
         /\ Deregister(c) \in Connection
<1>1. c.events \subseteq {"READ", "WRITE"}
  BY DEF Connection
<1>2. /\ c.events \union {"READ"} \in SUBSET {"READ", "WRITE"}
      /\ Toggle(c.events, "WRITE") \in SUBSET {"READ", "WRITE"}
  BY <1>1 DEF Toggle
<1> QED
  BY <1>2, InterestType DEF RegisterRead, DeregisterWrite, Deregister

LEMMA TellType ==
  ASSUME NEW c \in Connection, NEW what \in {"up", "ended"}
  PROVE  Tell(c, what) \in Connection
<1>1. c.reports + 1 \in Nat
  BY DEF Connection
<1> QED
  BY <1>1 DEF Tell, Connection

LEMMA OpeningType ==
  ASSUME NEW c \in Connection, NEW created \in BOOLEAN
  PROVE  /\ Listening(c) \in Connection
         /\ Accepted(c) \in Connection
         /\ Retrying(c, created) \in Connection
         /\ Connecting(c, created) \in Connection
         /\ Connected(c) \in Connection
         /\ ConnectFailed(c) \in Connection
<1>1. \A d \in Connection: Retrying(d, created) \in Connection
  BY DEF Retrying, RegisterConnecting, Interest, Connection, States
<1>2. [c EXCEPT !.handler = "connect"] \in Connection
  BY DEF Connection
<1>3. ASSUME NEW d \in Connection
      PROVE  /\ [d EXCEPT !.handler = "accept"] \in Connection
             /\ [d EXCEPT !.kind = "session", !.handler = "con",
                          !.state = "CONNECTED"] \in Connection
             /\ [d EXCEPT !.state = "CONNECTED", !.handler = "con"] \in Connection
  <2>1. [d EXCEPT !.handler = "accept"] \in Connection
    BY DEF Connection
  <2>2. [d EXCEPT !.kind = "session", !.handler = "con", !.state = "CONNECTED"]
          \in Connection
    BY DEF Connection, States
  <2>3. [d EXCEPT !.state = "CONNECTED", !.handler = "con"] \in Connection
    BY DEF Connection, States
  <2> QED
    BY <2>1, <2>2, <2>3
<1>4. /\ Deregister(c) \in Connection
      /\ Tell(c, "up") \in Connection
      /\ Tell(Deregister(c), "up") \in Connection
  BY RegisterType, TellType
<1>6. ConnectFailed(c) \in Connection
  <2>1. Deregister(c).reconnect + 1 \in Nat
    BY <1>4 DEF Connection
  <2> QED
    BY <1>4, <2>1 DEF ConnectFailed, Connection, States
<1> QED
  BY <1>1, <1>2, <1>3, <1>4, <1>6, RegisterType
     DEF Listening, Accepted, Connecting, Connected

LEMMA OpenType ==
  ASSUME NEW c \in Connection, NEW rest \in Nat
  PROVE  /\ Buffered(c, rest) \in Connection
         /\ Flushed(c) \in Connection
         /\ Tell(c, "ended") \in Connection
         /\ Ended(c) \in Connection
         /\ Draining(c) \in Connection
         /\ Removed(c) \in Connection
         /\ Recycled(c) \in Connection
<1>1. /\ [c EXCEPT !.out = @ + rest] \in Connection
      /\ [[c EXCEPT !.out = @ + rest] EXCEPT !.writing = TRUE] \in Connection
  <2>1. c.out + rest \in Nat
    BY DEF Connection
  <2>2. [c EXCEPT !.out = @ + rest] \in Connection
    BY <2>1 DEF Connection
  <2>3. \A d \in Connection: [d EXCEPT !.writing = TRUE] \in Connection
    BY DEF Connection
  <2> QED
    BY <2>2, <2>3
<1>2. [c EXCEPT !.out = 0, !.writing = FALSE,
                !.fin = @ \/ c.state = "DISCONNECTING"] \in Connection
  BY DEF Connection
<1>3. Tell(c, "ended") \in Connection
  BY TellType
<1>4. Draining(c) \in Connection
  <2>1. c.force + 1 \in Nat
    BY DEF Connection
  <2> QED
    BY <2>1 DEF Draining, Connection, States
<1>5. Removed(c) \in Connection
  <2>1. Deregister(c) \in Connection
    BY RegisterType
  <2> QED
    BY <2>1 DEF Removed, Connection, States
<1>6. Recycled(c) \in Connection
  BY DEF Recycled, Connection
<1> QED
  BY <1>1, <1>2, <1>3, <1>4, <1>5, <1>6, RegisterType DEF Buffered, Flushed, Ended


-------------------------------------------------------------------------------
(* The queue and the table. *)

LEMMA PushType ==
  ASSUME TypeInv, NEW k \in Keys, NEW type \in {"LISTEN", "CONNECT", "DATA", "CLOSE"},
         Push(type, k), k \in used', used \subseteq used'
  PROVE  queue' \in Seq(Events) /\ QueueUsed'
<1>1. queue \in Seq(Events) /\ [type |-> type, key |-> k] \in Events
  BY DEF TypeInv, TypeOK, Events
<1>2. queue' \in Seq(Events)
  BY <1>1 DEF Push
<1>3. QueueUsed'
  <2> SUFFICES ASSUME NEW i \in 1..Len(queue')
               PROVE  queue'[i].key \in used'
    BY DEF QueueUsed
  <2>1. Len(queue') = Len(queue) + 1 /\ Len(queue) \in Nat
    BY <1>1 DEF Push
  <2>2. CASE i = Len(queue) + 1
    BY <1>1, <2>2 DEF Push
  <2>3. CASE i \in 1..Len(queue)
    BY <1>1, <2>3 DEF Push, TypeInv, QueueUsed
  <2> QED
    BY <2>1, <2>2, <2>3
<1> QED
  BY <1>2, <1>3

LEMMA TakeType ==
  ASSUME TypeInv, NEW k \in Keys, NEW type, Take(type, k)
  PROVE  /\ queue' \in Seq(Events)
         /\ Len(queue) > 0
         /\ queue[1] = [type |-> type, key |-> k]
         /\ k \in used
         /\ Len(queue') = Len(queue) - 1
         /\ \A i \in 1..Len(queue'): i + 1 \in 1..Len(queue) /\ queue'[i] = queue[i + 1]
         /\ QueueUsed'
<1>1. queue \in Seq(Events) /\ queue # <<>> /\ queue' = Tail(queue) /\ used' = used
  BY DEF TypeInv, TypeOK, Take
<1>2. Len(queue) \in Nat /\ Len(queue) > 0
  BY <1>1
<1>3. queue' \in Seq(Events) /\ Len(queue') = Len(queue) - 1
  BY <1>1, <1>2
<1>4. \A i \in 1..Len(queue'): i + 1 \in 1..Len(queue) /\ queue'[i] = queue[i + 1]
  BY <1>1, <1>2, <1>3
<1>5. queue[1] = [type |-> type, key |-> k]
  BY <1>1, <1>2 DEF Take
<1>6. k \in used
  BY <1>2, <1>5 DEF TypeInv, QueueUsed
<1>7. QueueUsed'
  BY <1>1, <1>4 DEF TypeInv, QueueUsed
<1> QED
  BY <1>2, <1>3, <1>4, <1>5, <1>6, <1>7

LEMMA AddType ==
  ASSUME TypeInv, NEW k \in Keys, AddObject(k), k \in used', used \subseteq used'
  PROVE  objects' \in [Slots -> Keys \union {NoKey}] /\ TableUsed'
BY DEF TypeInv, TypeOK, AddObject, TableUsed

LEMMA RemoveType ==
  ASSUME TypeInv, NEW k \in Keys, RemoveObject(k), used' = used
  PROVE  objects' \in [Slots -> Keys \union {NoKey}] /\ TableUsed'
BY DEF TypeInv, TypeOK, RemoveObject, TableUsed

LEMMA SameTableType ==
  ASSUME TypeInv, UNCHANGED objects, used \subseteq used'
  PROVE  objects' \in [Slots -> Keys \union {NoKey}] /\ TableUsed'
BY DEF TypeInv, TypeOK, TableUsed

LEMMA SameQueueType ==
  ASSUME TypeInv, UNCHANGED queue, used \subseteq used'
  PROVE  queue' \in Seq(Events) /\ QueueUsed'
BY DEF TypeInv, TypeOK, QueueUsed

LEMMA LiveUsed ==
  ASSUME TypeInv, NEW k \in Keys, Live(k)
  PROVE  k \in used
BY DEF TypeInv, TableUsed, Live

-------------------------------------------------------------------------------
(* Closing, as every handler uses it. *)

LEMMA CloseConType ==
  ASSUME TypeInv, NEW k \in Keys, NEW force \in BOOLEAN, k \in used,
         CloseCon(k, force), used' = used
  PROVE  /\ refs' \subseteq used'
         /\ objects' \in [Slots -> Keys \union {NoKey}] /\ TableUsed'
         /\ con' \in [Keys -> Connection]
         /\ ghosts' \subseteq used'
<1> DEFINE c == con[k]
<1>1. c \in Connection /\ con \in [Keys -> Connection]
  BY DEF TypeInv, TypeOK
<1>2. /\ [c EXCEPT !.told = "failed"] \in Connection
      /\ Ended(c) \in Connection
      /\ Draining(Ended(c)) \in Connection
  <2>1. [c EXCEPT !.told = "failed"] \in Connection
    BY <1>1 DEF Connection
  <2> QED
    BY <1>1, <2>1, OpenType
<1>3. refs' \subseteq used'
  BY DEF CloseCon, TypeInv, TypeOK
<1>4. ASSUME NEW d \in Connection, Remove(k, d)
      PROVE  /\ objects' \in [Slots -> Keys \union {NoKey}] /\ TableUsed'
             /\ con' \in [Keys -> Connection]
             /\ ghosts' \subseteq used'
  <2>1. Removed(d) \in Connection
    BY OpenType
  <2> QED
    BY <1>1, <1>4, <2>1, RemoveType DEF Remove, TypeInv, TypeOK
<1>5. CASE Remove(k, [c EXCEPT !.told = "failed"])
  BY <1>2, <1>3, <1>4, <1>5
<1>6. CASE Remove(k, Ended(c))
  BY <1>2, <1>3, <1>4, <1>6
<1>7. CASE /\ con' = [con EXCEPT ![k] =
                        IF c.state = "DISCONNECTING" THEN c ELSE Draining(Ended(c))]
           /\ UNCHANGED <<objects, ghosts>>
  BY <1>1, <1>2, <1>3, <1>7, SameTableType DEF TypeInv, TypeOK
<1> QED
  BY <1>5, <1>6, <1>7 DEF CloseCon

-------------------------------------------------------------------------------
(* Every step keeps the types. *)

LEMMA ConUpdateType ==
  ASSUME TypeInv, NEW k \in Keys, NEW d \in Connection, con' = [con EXCEPT ![k] = d]
  PROVE  con' \in [Keys -> Connection]
BY DEF TypeInv, TypeOK

LEMMA EngineType ==
  ASSUME TypeInv, NEW k \in Keys,
         Listen(k) \/ Connect(k) \/ Close(k) \/ Send(k) \/ Release(k)
  PROVE  TypeInv'
<1>0. con \in [Keys -> Connection] /\ con[k] \in Connection
  BY DEF TypeInv, TypeOK
<1>1. ASSUME NEW kind \in {"listener", "connector"}, con' = [con EXCEPT ![k].kind = kind]
      PROVE  con' \in [Keys -> Connection]
  <2>1. [con[k] EXCEPT !.kind = kind] \in Connection
    BY <1>0 DEF Connection
  <2> QED
    BY <1>0, <1>1, <2>1
<1>2. CASE Listen(k)
  <2>1. con' \in [Keys -> Connection]
    BY <1>1, <1>2 DEF Listen
  <2>2. queue' \in Seq(Events) /\ QueueUsed'
    BY <1>2, PushType DEF Listen, PopKey
  <2>3. objects' \in [Slots -> Keys \union {NoKey}] /\ TableUsed'
    BY <1>2, SameTableType DEF Listen, PopKey
  <2> QED
    BY <1>2, <2>1, <2>2, <2>3 DEF Listen, PopKey, TypeInv, TypeOK
<1>3. CASE Connect(k)
  <2>1. con' \in [Keys -> Connection]
    BY <1>1, <1>3 DEF Connect
  <2>2. queue' \in Seq(Events) /\ QueueUsed'
    BY <1>3, PushType DEF Connect, PopKey
  <2>3. objects' \in [Slots -> Keys \union {NoKey}] /\ TableUsed'
    BY <1>3, SameTableType DEF Connect, PopKey
  <2> QED
    BY <1>3, <2>1, <2>2, <2>3 DEF Connect, PopKey, TypeInv, TypeOK
<1>4. CASE Close(k) \/ Send(k)
  <2>1. queue' \in Seq(Events) /\ QueueUsed'
    BY <1>4, PushType DEF Close, Send
  <2>2. objects' \in [Slots -> Keys \union {NoKey}] /\ TableUsed'
    BY <1>4, SameTableType DEF Close, Send
  <2> QED
    BY <1>4, <2>1, <2>2 DEF Close, Send, TypeInv, TypeOK
<1>5. CASE Release(k)
  <2>1. queue' \in Seq(Events) /\ QueueUsed'
    BY <1>5, SameQueueType DEF Release
  <2>2. objects' \in [Slots -> Keys \union {NoKey}] /\ TableUsed'
    BY <1>5, SameTableType DEF Release
  <2> QED
    BY <1>5, <2>1, <2>2 DEF Release, TypeInv, TypeOK
<1> QED
  BY <1>2, <1>3, <1>4, <1>5

LEMMA DispatchType ==
  ASSUME TypeInv, NEW k \in Keys,
         ProcessListen(k) \/ ProcessConnect(k) \/ ProcessClose(k) \/ ProcessData(k)
  PROVE  TypeInv'
<1>0. con \in [Keys -> Connection] /\ con[k] \in Connection
  BY DEF TypeInv, TypeOK
<1>1. PICK type : Take(type, k)
  BY DEF ProcessListen, ProcessConnect, ProcessClose, ProcessData
<1>2. queue' \in Seq(Events) /\ QueueUsed' /\ k \in used /\ used' = used
  BY <1>1, TakeType DEF Take
<1>3. CASE ProcessListen(k)
  <2>1. con' \in [Keys -> Connection]
    <3>1. Listening(con[k]) \in Connection /\ [con[k] EXCEPT !.told = "failed"] \in Connection
      <4>1. [con[k] EXCEPT !.told = "failed"] \in Connection
        BY <1>0 DEF Connection
      <4>2. TRUE \in BOOLEAN
        OBVIOUS
      <4> QED
        BY <1>0, <4>1, <4>2, OpeningType
    <3> QED
      BY <1>0, <1>3, <3>1 DEF ProcessListen
  <2>2. objects' \in [Slots -> Keys \union {NoKey}] /\ TableUsed'
    BY <1>2, <1>3, AddType, SameTableType DEF ProcessListen
  <2> QED
    BY <1>2, <1>3, <2>1, <2>2 DEF ProcessListen, TypeInv, TypeOK
<1>4. CASE ProcessConnect(k)
  <2>1. con' \in [Keys -> Connection]
    BY <1>0, <1>4, OpeningType DEF ProcessConnect
  <2>2. objects' \in [Slots -> Keys \union {NoKey}] /\ TableUsed'
    BY <1>2, <1>4, AddType DEF ProcessConnect
  <2> QED
    BY <1>2, <1>4, <2>1, <2>2 DEF ProcessConnect, TypeInv, TypeOK
<1>5. ASSUME UNCHANGED <<refs, objects, con, ghosts>>
      PROVE  TypeInv'
  <2>1. objects' \in [Slots -> Keys \union {NoKey}] /\ TableUsed'
    BY <1>2, <1>5, SameTableType
  <2> QED
    BY <1>2, <1>5, <2>1 DEF TypeInv, TypeOK
<1>6. ASSUME NEW force \in BOOLEAN, CloseCon(k, force)
      PROVE  TypeInv'
  <2>1. /\ refs' \subseteq used'
        /\ objects' \in [Slots -> Keys \union {NoKey}] /\ TableUsed'
        /\ con' \in [Keys -> Connection]
        /\ ghosts' \subseteq used'
    BY <1>2, <1>6, CloseConType
  <2> QED
    BY <1>2, <2>1 DEF TypeInv, TypeOK
<1>7. CASE ProcessClose(k)
  <2>1. ASSUME CloseListen(k)
        PROVE  TypeInv'
    <3>1. Removed(Tell(con[k], "ended")) \in Connection
      BY <1>0, TellType, OpenType
    <3>2. con' \in [Keys -> Connection]
      BY <1>0, <2>1, <3>1 DEF CloseListen, Remove
    <3>3. objects' \in [Slots -> Keys \union {NoKey}] /\ TableUsed'
      BY <1>2, <2>1, RemoveType DEF CloseListen, Remove
    <3> QED
      BY <1>2, <2>1, <3>2, <3>3 DEF CloseListen, Remove, TypeInv, TypeOK
  <2> QED
    BY <1>5, <1>6, <1>7, <2>1 DEF ProcessClose
<1>8. CASE ProcessData(k)
  <2>1. ASSUME NEW rest \in 1..MaxOut, con' = [con EXCEPT ![k] = Buffered(con[k], rest)],
               UNCHANGED <<refs, objects, ghosts>>
        PROVE  TypeInv'
    <3>0. rest \in Nat
      OBVIOUS
    <3>1. Buffered(con[k], rest) \in Connection
      BY <1>0, <3>0, OpenType
    <3>2. con' \in [Keys -> Connection]
      BY <1>0, <2>1, <3>1
    <3>3. objects' \in [Slots -> Keys \union {NoKey}] /\ TableUsed'
      BY <1>2, <2>1, SameTableType
    <3> QED
      BY <1>2, <2>1, <3>2, <3>3 DEF TypeInv, TypeOK
  <2> QED
    BY <1>5, <1>6, <1>8, <2>1 DEF ProcessData
<1> QED
  BY <1>3, <1>4, <1>7, <1>8

LEMMA AcceptType ==
  ASSUME TypeInv, NEW l \in Keys, NEW k \in Keys, HandleAccept(l, k)
  PROVE  TypeInv'
<1>0. con \in [Keys -> Connection] /\ con[k] \in Connection /\ TRUE \in BOOLEAN
  BY DEF TypeInv, TypeOK
<1>1. used' = used \union {k} /\ l \in used
  BY LiveUsed DEF HandleAccept, PopKey, Polled
<1>2. con' \in [Keys -> Connection]
  <2>1. Accepted(con[k]) \in Connection
    BY <1>0, OpeningType
  <2> QED
    BY <1>0, <2>1 DEF HandleAccept
<1>3. objects' \in [Slots -> Keys \union {NoKey}] /\ TableUsed'
  BY <1>1, AddType DEF HandleAccept
<1>4. queue' \in Seq(Events) /\ QueueUsed'
  BY <1>1, SameQueueType DEF HandleAccept
<1> QED
  BY <1>1, <1>2, <1>3, <1>4 DEF HandleAccept, TypeInv, TypeOK

LEMMA PollType ==
  ASSUME TypeInv, NEW k \in Keys,
         \/ HandleConLost(k)      \/ HandleConWrite(k)
         \/ HandleConnectWrite(k) \/ HandleConnectFailed(k)
  PROVE  TypeInv'
<1>0. con \in [Keys -> Connection] /\ con[k] \in Connection /\ TRUE \in BOOLEAN /\ 0 \in Nat
  BY DEF TypeInv, TypeOK
<1>1. k \in used /\ UNCHANGED <<queue, used>>
  BY LiveUsed DEF HandleConLost, HandleConWrite, HandleConnectWrite,
                  HandleConnectFailed, Polled
<1>2. queue' \in Seq(Events) /\ QueueUsed'
  BY <1>1, SameQueueType
<1>3. CASE HandleConLost(k)
  <2>1. /\ refs' \subseteq used'
        /\ objects' \in [Slots -> Keys \union {NoKey}] /\ TableUsed'
        /\ con' \in [Keys -> Connection]
        /\ ghosts' \subseteq used'
    BY <1>0, <1>1, <1>3, CloseConType DEF HandleConLost
  <2> QED
    BY <1>1, <1>2, <2>1 DEF TypeInv, TypeOK
<1>4. ASSUME NEW d \in Connection, con' = [con EXCEPT ![k] = d],
             UNCHANGED objects, UNCHANGED ghosts, refs' \subseteq refs \union {k}
      PROVE  TypeInv'
  <2>1. con' \in [Keys -> Connection]
    BY <1>0, <1>4
  <2>2. objects' \in [Slots -> Keys \union {NoKey}] /\ TableUsed'
    BY <1>1, <1>4, SameTableType
  <2> QED
    BY <1>1, <1>2, <1>4, <2>1, <2>2 DEF TypeInv, TypeOK
<1>5. CASE HandleConWrite(k)
  <2>1. CASE con' = [con EXCEPT ![k] = Flushed(con[k])]
    <3>1. Flushed(con[k]) \in Connection
      BY <1>0, OpenType
    <3> QED
      BY <1>4, <1>5, <2>1, <3>1 DEF HandleConWrite
  <2>2. ASSUME NEW n \in 1..MaxOut, n < con[k].out, con' = [con EXCEPT ![k].out = @ - n]
        PROVE  TypeInv'
    <3>1. con[k].out - n \in Nat
      BY <1>0, <2>2 DEF Connection
    <3>2. [con[k] EXCEPT !.out = @ - n] \in Connection
      BY <1>0, <3>1 DEF Connection
    <3>3. con' = [con EXCEPT ![k] = [con[k] EXCEPT !.out = @ - n]]
      BY <2>2
    <3> QED
      BY <1>4, <1>5, <3>2, <3>3 DEF HandleConWrite
  <2> QED
    BY <1>5, <2>1, <2>2 DEF HandleConWrite
<1>6. CASE HandleConnectWrite(k)
  <2>1. Connected(con[k]) \in Connection
    BY <1>0, OpeningType
  <2> QED
    BY <1>4, <1>6, <2>1 DEF HandleConnectWrite
<1>7. CASE HandleConnectFailed(k)
  <2>1. ConnectFailed(con[k]) \in Connection
    BY <1>0, OpeningType
  <2> QED
    BY <1>4, <1>7, <2>1 DEF HandleConnectFailed
<1> QED
  BY <1>3, <1>5, <1>6, <1>7

LEMMA TimersType ==
  ASSUME TypeInv, NEW k \in Keys, ReconnectTimer(k) \/ ForceTimer(k) \/ Recycle(k)
  PROVE  TypeInv'
<1>0. con \in [Keys -> Connection] /\ con[k] \in Connection /\ 0 \in Nat
  BY DEF TypeInv, TypeOK
<1>1. UNCHANGED <<queue, used, refs>>
  BY DEF ReconnectTimer, ForceTimer, Recycle
<1>2. queue' \in Seq(Events) /\ QueueUsed'
  BY <1>1, SameQueueType
<1>3. ASSUME NEW d \in Connection, con' = [con EXCEPT ![k] = d],
             UNCHANGED objects, ghosts' \subseteq ghosts
      PROVE  TypeInv'
  <2>1. con' \in [Keys -> Connection]
    BY <1>0, <1>3
  <2>2. objects' \in [Slots -> Keys \union {NoKey}] /\ TableUsed'
    BY <1>1, <1>3, SameTableType
  <2> QED
    BY <1>1, <1>2, <1>3, <2>1, <2>2 DEF TypeInv, TypeOK
<1>4. CASE ReconnectTimer(k)
  <2> DEFINE c == [con[k] EXCEPT !.reconnect = @ - 1]
  <2>1. con[k].reconnect - 1 \in Nat
    BY <1>0, <1>4 DEF ReconnectTimer, Connection
  <2>2. c \in Connection
    BY <1>0, <2>1 DEF Connection
  <2>3. \A created \in BOOLEAN: Retrying(c, created) \in Connection
    BY <2>2, OpeningType
  <2> HIDE DEF c
  <2>4. CASE con' = [con EXCEPT ![k] = c]
    BY <1>3, <1>4, <2>2, <2>4 DEF ReconnectTimer
  <2>5. CASE \E created \in BOOLEAN: con' = [con EXCEPT ![k] = Retrying(c, created)]
    BY <1>3, <1>4, <2>3, <2>5 DEF ReconnectTimer
  <2> QED
    BY <1>4, <2>4, <2>5 DEF ReconnectTimer, c
<1>5. CASE ForceTimer(k)
  <2> DEFINE c == [con[k] EXCEPT !.force = @ - 1]
  <2>1. con[k].force - 1 \in Nat
    BY <1>0, <1>5 DEF ForceTimer, Connection
  <2>2. c \in Connection
    BY <1>0, <2>1 DEF Connection
  <2> HIDE DEF c
  <2>3. CASE con' = [con EXCEPT ![k] = c] /\ UNCHANGED <<objects, ghosts>>
    BY <1>3, <2>2, <2>3
  <2>4. CASE Live(k) /\ Remove(k, c)
    <3>1. Removed(c) \in Connection
      BY <1>0, <2>2, OpenType
    <3>2. con' \in [Keys -> Connection]
      BY <1>0, <2>4, <3>1 DEF Remove
    <3>3. objects' \in [Slots -> Keys \union {NoKey}] /\ TableUsed'
      BY <1>1, <2>4, RemoveType DEF Remove
    <3>4. k \in used
      BY <2>4, LiveUsed
    <3> QED
      BY <1>1, <1>2, <2>4, <3>2, <3>3, <3>4 DEF Remove, TypeInv, TypeOK
  <2> QED
    BY <1>5, <2>3, <2>4 DEF ForceTimer, c
<1>6. CASE Recycle(k)
  <2>1. Recycled(con[k]) \in Connection
    BY <1>0, OpenType
  <2> QED
    BY <1>3, <1>6, <2>1 DEF Recycle
<1> QED
  BY <1>4, <1>5, <1>6

LEMMA TypeInvStep == TypeInv /\ [Next]_vars => TypeInv'
<1> SUFFICES ASSUME TypeInv, [Next]_vars
             PROVE  TypeInv'
  OBVIOUS
<1>1. CASE Engine
  BY <1>1, EngineType DEF Engine
<1>2. CASE Dispatch
  BY <1>2, DispatchType DEF Dispatch
<1>3. CASE Poll
  BY <1>3, AcceptType, PollType DEF Poll
<1>4. CASE Timers
  BY <1>4, TimersType DEF Timers
<1>5. CASE UNCHANGED vars
  BY <1>5 DEF vars, TypeInv, TypeOK, QueueUsed, TableUsed
<1> QED
  BY <1>1, <1>2, <1>3, <1>4, <1>5 DEF Next

LEMMA TypeInvInit == Init => TypeInv
<1> SUFFICES ASSUME Init
             PROVE  TypeInv
  OBVIOUS
<1>1. Fresh \in Connection
  BY DEF Fresh, Connection, States
<1>2. queue \in Seq(Events) /\ Len(queue) = 0
  BY DEF Init
<1> QED
  BY <1>1, <1>2 DEF Init, TypeInv, TypeOK, QueueUsed, TableUsed

(* Every variable keeps its type, for any keys, slots and bounds: every    *)
(* key that is queued, held or in the table was handed out by the pool.    *)
THEOREM TypeCorrect == Spec => []TypeOK
<1>1. Spec => []TypeInv
  BY TypeInvInit, TypeInvStep, PTL DEF Spec
<1>2. TypeInv => TypeOK
  BY DEF TypeInv
<1> QED
  BY <1>1, <1>2, PTL

-------------------------------------------------------------------------------
(* Who holds a key.  Apart from handing out a key nobody holds, no step    *)
(* makes anybody a holder of a key that was free; and a listen or connect  *)
(* event is the only one of its key, so that its object is not yet there.  *)

Opens(i) == queue[i].type \in {"LISTEN", "CONNECT"}

PendingOnce ==
  \A i, j \in 1..Len(queue):
    Opens(i) /\ Opens(j) /\ queue[i].key = queue[j].key => i = j

PendingNotLive == \A k \in Keys: Pending(k) => ~Live(k)

GhostsApart == \A k \in ghosts: ~Live(k) /\ ~Pending(k)

HolderInv == TypeInv /\ SlotExclusive /\ PendingOnce /\ PendingNotLive /\ GhostsApart

LEMMA PushPending ==
  ASSUME HolderInv, NEW k \in Keys, NEW type \in {"LISTEN", "CONNECT", "DATA", "CLOSE"},
         Push(type, k), type \in {"LISTEN", "CONNECT"} => ~Pending(k)
  PROVE  /\ \A j \in Keys: Pending(j)' => Pending(j) \/ (j = k /\ type \in {"LISTEN", "CONNECT"})
         /\ PendingOnce'
<1>1. queue \in Seq(Events) /\ Len(queue) \in Nat
  BY DEF HolderInv, TypeInv, TypeOK
<1>2. /\ Len(queue') = Len(queue) + 1
      /\ queue'[Len(queue) + 1] = [type |-> type, key |-> k]
      /\ \A i \in 1..Len(queue): queue'[i] = queue[i]
  BY <1>1 DEF Push
<1>3. \A i \in 1..Len(queue'): i \in 1..Len(queue) \/ i = Len(queue) + 1
  BY <1>1, <1>2
<1>4. \A j \in Keys: Pending(j)' => Pending(j) \/ (j = k /\ type \in {"LISTEN", "CONNECT"})
  BY <1>2, <1>3 DEF Pending
<1>5. PendingOnce'
  BY <1>2, <1>3 DEF HolderInv, PendingOnce, Opens, Pending
<1> QED
  BY <1>4, <1>5

LEMMA TakePending ==
  ASSUME HolderInv, NEW k \in Keys, NEW type, Take(type, k)
  PROVE  /\ \A j \in Keys: Pending(j)' => Pending(j)
         /\ type \in {"LISTEN", "CONNECT"} => Pending(k) /\ ~Pending(k)'
         /\ PendingOnce'
<1>1. /\ queue \in Seq(Events) /\ Len(queue) \in Nat /\ Len(queue) > 0
      /\ queue[1] = [type |-> type, key |-> k]
      /\ Len(queue') = Len(queue) - 1
      /\ \A i \in 1..Len(queue'): i + 1 \in 1..Len(queue) /\ queue'[i] = queue[i + 1]
  BY TakeType DEF HolderInv, TypeInv, TypeOK
<1>2. \A j \in Keys: Pending(j)' => Pending(j)
  BY <1>1 DEF Pending
<1>3. ASSUME type \in {"LISTEN", "CONNECT"}
      PROVE  Pending(k) /\ ~Pending(k)'
  <2>1. 1 \in 1..Len(queue) /\ Opens(1) /\ queue[1].key = k
    BY <1>1, <1>3 DEF Opens
  <2>2. Pending(k)
    BY <2>1 DEF Pending, Opens
  <2>3. ASSUME NEW i \in 1..Len(queue'), queue'[i].key = k,
               queue'[i].type \in {"LISTEN", "CONNECT"}
        PROVE  FALSE
    <3>1. i + 1 \in 1..Len(queue) /\ Opens(i + 1) /\ queue[i + 1].key = k
      BY <1>1, <2>3 DEF Opens
    <3>2. i + 1 = 1
      BY <2>1, <3>1 DEF HolderInv, PendingOnce
    <3> QED
      BY <3>2
  <2> QED
    BY <2>2, <2>3 DEF Pending
<1>4. PendingOnce'
  <2> SUFFICES ASSUME NEW i \in 1..Len(queue'), NEW j \in 1..Len(queue'),
                      Opens(i)', Opens(j)', queue'[i].key = queue'[j].key
               PROVE  i = j
    BY DEF PendingOnce, Opens
  <2>1. i + 1 \in 1..Len(queue) /\ j + 1 \in 1..Len(queue)
    BY <1>1
  <2>2. Opens(i + 1) /\ Opens(j + 1) /\ queue[i + 1].key = queue[j + 1].key
    BY <1>1 DEF Opens
  <2>3. i + 1 = j + 1
    BY <2>1, <2>2 DEF HolderInv, PendingOnce
  <2> QED
    BY <2>3
<1> QED
  BY <1>2, <1>3, <1>4

(* A step that hands out no key. *)
LEMMA NoNewHolder ==
  ASSUME HolderInv, used' = used, PendingOnce',
         \A j \in Keys: InUse(j)' => InUse(j),
         \A j \in Keys: Pending(j)' => Pending(j) /\ (Live(j)' => Live(j))
  PROVE  SlotExclusive' /\ PendingOnce' /\ PendingNotLive'
<1>1. used \subseteq Keys
  BY DEF HolderInv, TypeInv, TypeOK
<1>2. SlotExclusive'
  BY <1>1 DEF HolderInv, SlotExclusive
<1>3. PendingNotLive'
  BY DEF HolderInv, PendingNotLive
<1> QED
  BY <1>2, <1>3

(* A step that hands out k. *)
LEMMA NewHolder ==
  ASSUME HolderInv, NEW k \in Keys, PopKey(k), PendingOnce',
         \A j \in Keys: j # k /\ InUse(j)' => InUse(j),
         \A j \in Keys: Pending(j)' => (Pending(j) /\ j # k /\ (Live(j)' => Live(j))) \/ ~Live(j)'
  PROVE  SlotExclusive' /\ PendingOnce' /\ PendingNotLive'
<1>1. used \subseteq Keys /\ used' = used \union {k}
  BY DEF HolderInv, TypeInv, TypeOK, PopKey
<1>2. SlotExclusive'
  <2> SUFFICES ASSUME NEW i \in used', NEW j \in used', InUse(i)', InUse(j)',
                      SlotOf[i] = SlotOf[j]
               PROVE  i = j
    BY DEF SlotExclusive
  <2>1. CASE i # k /\ j # k
    BY <1>1, <2>1 DEF HolderInv, SlotExclusive
  <2>2. CASE i = k \/ j = k
    BY <1>1, <2>2 DEF PopKey
  <2> QED
    BY <2>1, <2>2
<1>3. PendingNotLive'
  BY DEF HolderInv, PendingNotLive
<1> QED
  BY <1>2, <1>3

LEMMA AddLive ==
  ASSUME TypeInv, NEW k \in Keys, AddObject(k)
  PROVE  \A j \in Keys: Live(j)' => Live(j) \/ j = k
BY DEF TypeInv, TypeOK, AddObject, Live

LEMMA RemoveLive ==
  ASSUME TypeInv, NEW k \in Keys, RemoveObject(k)
  PROVE  \A j \in Keys: Live(j)' => Live(j)
BY DEF TypeInv, TypeOK, RemoveObject, Live

LEMMA CloseConHolder ==
  ASSUME HolderInv, NEW k \in Keys, NEW force \in BOOLEAN, Live(k), CloseCon(k, force)
  PROVE  /\ \A j \in Keys: Live(j)' => Live(j)
         /\ refs' \subseteq refs \union {k} /\ ghosts' \subseteq ghosts \union {k}
<1>1. \A d : Remove(k, d) => /\ \A j \in Keys: Live(j)' => Live(j)
                             /\ ghosts' \subseteq ghosts \union {k}
  BY RemoveLive DEF HolderInv, Remove
<1>2. UNCHANGED <<objects, ghosts>> => /\ \A j \in Keys: Live(j)' => Live(j)
                                       /\ ghosts' \subseteq ghosts \union {k}
  BY DEF Live
<1> QED
  BY <1>1, <1>2 DEF CloseCon

LEMMA EngineHolder ==
  ASSUME HolderInv, NEW k \in Keys,
         Listen(k) \/ Connect(k) \/ Close(k) \/ Send(k) \/ Release(k)
  PROVE  SlotExclusive' /\ PendingOnce' /\ PendingNotLive'
<1>1. TypeInv
  BY DEF HolderInv
<1>2. k \notin used => ~Pending(k) /\ ~Live(k)
  BY <1>1, LiveUsed DEF TypeInv, QueueUsed, Pending
<1>3. \A j \in Keys: Live(j)' <=> Live(j)
  BY DEF Listen, Connect, Close, Send, Release, Live
<1>4. CASE Listen(k) \/ Connect(k)
  <2>1. PopKey(k) /\ (Push("LISTEN", k) \/ Push("CONNECT", k))
    BY <1>4 DEF Listen, Connect
  <2>2. /\ \A j \in Keys: Pending(j)' => Pending(j) \/ j = k
        /\ PendingOnce'
    BY <1>2, <2>1, PushPending DEF PopKey
  <2>3. refs' = refs \union {k} /\ ghosts' = ghosts
    BY <1>4 DEF Listen, Connect
  <2>4. \A j \in Keys: j # k /\ InUse(j)' => InUse(j)
    BY <1>3, <2>2, <2>3 DEF InUse
  <2>5. \A j \in Keys: Pending(j)' => ~Live(j)'
    BY <1>2, <1>3, <2>1, <2>2 DEF HolderInv, PendingNotLive, PopKey
  <2> QED
    BY <2>1, <2>2, <2>4, <2>5, NewHolder
<1>5. CASE Close(k) \/ Send(k) \/ Release(k)
  <2>1. /\ \A j \in Keys: Pending(j)' => Pending(j)
        /\ PendingOnce'
    <3>1. CASE Close(k) \/ Send(k)
      BY <3>1, PushPending DEF Close, Send
    <3>2. CASE Release(k)
      BY <3>2 DEF Release, HolderInv, PendingOnce, Opens, Pending
    <3> QED
      BY <1>5, <3>1, <3>2
  <2>2. used' = used /\ refs' \subseteq refs /\ ghosts' = ghosts
    BY <1>5 DEF Close, Send, Release
  <2>3. \A j \in Keys: InUse(j)' => InUse(j)
    BY <1>3, <2>1, <2>2 DEF InUse
  <2> QED
    BY <1>3, <2>1, <2>2, <2>3, NoNewHolder
<1> QED
  BY <1>4, <1>5

LEMMA DispatchHolder ==
  ASSUME HolderInv, NEW k \in Keys,
         ProcessListen(k) \/ ProcessConnect(k) \/ ProcessClose(k) \/ ProcessData(k)
  PROVE  SlotExclusive' /\ PendingOnce' /\ PendingNotLive'
<1>1. TypeInv /\ used' = used
  BY DEF HolderInv, ProcessListen, ProcessConnect, ProcessClose, ProcessData, Take
<1>2. /\ \A j \in Keys: Pending(j)' => Pending(j)
      /\ PendingOnce'
  BY TakePending DEF ProcessListen, ProcessConnect, ProcessClose, ProcessData
<1>3. CASE ProcessListen(k) \/ ProcessConnect(k)
  <2>1. Pending(k) /\ ~Pending(k)'
    BY <1>3, TakePending DEF ProcessListen, ProcessConnect
  <2>2. \A j \in Keys: Live(j)' => Live(j) \/ j = k
    BY <1>1, <1>3, AddLive DEF ProcessListen, ProcessConnect, Live
  <2>3. refs' \subseteq refs \union {k} /\ ghosts' = ghosts
    BY <1>3 DEF ProcessListen, ProcessConnect
  <2>4. \A j \in Keys: InUse(j)' => InUse(j)
    BY <1>2, <2>1, <2>2, <2>3 DEF InUse
  <2>5. \A j \in Keys: Pending(j)' => Pending(j) /\ (Live(j)' => Live(j))
    BY <1>2, <2>1, <2>2
  <2> QED
    BY <1>1, <1>2, <2>4, <2>5, NoNewHolder
<1>4. CASE ProcessClose(k) \/ ProcessData(k)
  <2>1. /\ \A j \in Keys: Live(j)' => Live(j)
        /\ \/ UNCHANGED <<refs, ghosts>>
           \/ Live(k) /\ refs' \subseteq refs \union {k} /\ ghosts' \subseteq ghosts \union {k}
    <3>1. CASE UNCHANGED <<refs, objects, ghosts>>
      BY <3>1 DEF Live
    <3>2. CASE Live(k) /\ CloseListen(k)
      BY <1>1, <3>2, RemoveLive DEF CloseListen, Remove
    <3>3. ASSUME NEW force \in BOOLEAN, Live(k), CloseCon(k, force)
          PROVE  /\ \A j \in Keys: Live(j)' => Live(j)
                 /\ refs' \subseteq refs \union {k} /\ ghosts' \subseteq ghosts \union {k}
      BY <3>3, CloseConHolder
    <3> QED
      BY <1>4, <3>1, <3>2, <3>3 DEF ProcessClose, ProcessData
  <2>2. \A j \in Keys: InUse(j)' => InUse(j)
    BY <1>2, <2>1 DEF InUse
  <2> QED
    BY <1>1, <1>2, <2>1, <2>2, NoNewHolder
<1> QED
  BY <1>3, <1>4

LEMMA SameQueuePending ==
  ASSUME HolderInv, queue' = queue
  PROVE  PendingOnce' /\ \A j \in Keys: Pending(j)' <=> Pending(j)
BY DEF HolderInv, PendingOnce, Opens, Pending

LEMMA PollHolder ==
  ASSUME HolderInv, Poll
  PROVE  SlotExclusive' /\ PendingOnce' /\ PendingNotLive'
<1>1. TypeInv /\ queue' = queue
  BY DEF HolderInv, Poll, HandleAccept, HandleConLost, HandleConWrite,
         HandleConnectWrite, HandleConnectFailed
<1>2. PendingOnce' /\ \A j \in Keys: Pending(j)' <=> Pending(j)
  BY <1>1, SameQueuePending
<1>3. ASSUME NEW l \in Keys, NEW k \in Keys, HandleAccept(l, k)
      PROVE  SlotExclusive' /\ PendingOnce' /\ PendingNotLive'
  <2>1. PopKey(k) /\ Live(l) /\ refs' = refs \union {k, l} /\ ghosts' = ghosts
    BY <1>3 DEF HandleAccept, Polled
  <2>2. \A j \in Keys: Live(j)' => Live(j) \/ j = k
    BY <1>1, <1>3, AddLive DEF HandleAccept
  <2>3. ~Pending(k)
    BY <1>1, <2>1 DEF PopKey, TypeInv, QueueUsed, Pending
  <2>4. \A j \in Keys: j # k /\ InUse(j)' => InUse(j)
    BY <1>2, <2>1, <2>2 DEF InUse
  <2>5. \A j \in Keys: Pending(j)' => Pending(j) /\ j # k /\ (Live(j)' => Live(j))
    BY <1>2, <2>2, <2>3
  <2> QED
    BY <1>2, <2>1, <2>4, <2>5, NewHolder
<1>4. ASSUME NEW k \in Keys,
             \/ HandleConLost(k)      \/ HandleConWrite(k)
             \/ HandleConnectWrite(k) \/ HandleConnectFailed(k)
      PROVE  SlotExclusive' /\ PendingOnce' /\ PendingNotLive'
  <2>1. Live(k) /\ used' = used
    BY <1>4 DEF HandleConLost, HandleConWrite, HandleConnectWrite,
                HandleConnectFailed, Polled
  <2>2. /\ \A j \in Keys: Live(j)' => Live(j)
        /\ refs' \subseteq refs \union {k} /\ ghosts' \subseteq ghosts \union {k}
    <3>1. TRUE \in BOOLEAN
      OBVIOUS
    <3>2. CASE HandleConLost(k)
      BY <2>1, <3>1, <3>2, CloseConHolder DEF HandleConLost
    <3>3. CASE UNCHANGED <<objects, ghosts>> /\ refs' \subseteq refs \union {k}
      BY <3>3 DEF Live
    <3> QED
      BY <1>4, <3>2, <3>3 DEF HandleConWrite, HandleConnectWrite, HandleConnectFailed
  <2>3. \A j \in Keys: InUse(j)' => InUse(j)
    BY <1>2, <2>1, <2>2 DEF InUse
  <2> QED
    BY <1>2, <2>1, <2>2, <2>3, NoNewHolder
<1> QED
  BY <1>3, <1>4 DEF Poll

LEMMA TimersHolder ==
  ASSUME HolderInv, NEW k \in Keys, ReconnectTimer(k) \/ ForceTimer(k) \/ Recycle(k)
  PROVE  SlotExclusive' /\ PendingOnce' /\ PendingNotLive'
<1>1. TypeInv /\ UNCHANGED <<queue, used, refs>>
  BY DEF HolderInv, ReconnectTimer, ForceTimer, Recycle
<1>2. PendingOnce' /\ \A j \in Keys: Pending(j)' <=> Pending(j)
  BY <1>1, SameQueuePending
<1>3. /\ \A j \in Keys: Live(j)' => Live(j)
      /\ ghosts' \subseteq ghosts \/ (Live(k) /\ ghosts' \subseteq ghosts \union {k})
  <2>1. CASE UNCHANGED objects /\ ghosts' \subseteq ghosts
    BY <2>1 DEF Live
  <2>2. CASE Live(k) /\ \E c: Remove(k, c)
    BY <1>1, <2>2, RemoveLive DEF Remove
  <2> QED
    BY <2>1, <2>2 DEF ReconnectTimer, ForceTimer, Recycle
<1>4. \A j \in Keys: InUse(j)' => InUse(j)
  BY <1>1, <1>2, <1>3 DEF InUse
<1> QED
  BY <1>1, <1>2, <1>3, <1>4, NoNewHolder

(* A step that makes at most k a removed connection, or out of none. *)
LEMMA GhostsKept ==
  ASSUME HolderInv, NEW k \in Keys, ghosts' \subseteq ghosts \union {k},
         \A j \in Keys: j # k => (Live(j)' => Live(j)) /\ (Pending(j)' => Pending(j)),
         k \in ghosts' => ~Live(k)' /\ ~Pending(k)'
  PROVE  GhostsApart'
BY DEF HolderInv, TypeInv, TypeOK, GhostsApart

LEMMA RemoveGhosts ==
  ASSUME HolderInv, NEW k \in Keys, Live(k), NEW c, Remove(k, c),
         \A j \in Keys: Pending(j)' => Pending(j)
  PROVE  GhostsApart'
<1>1. ~Live(k)' /\ \A j \in Keys: Live(j)' => Live(j)
  BY DEF HolderInv, TypeInv, TypeOK, Remove, RemoveObject, Live
<1>2. ~Pending(k)'
  BY DEF HolderInv, PendingNotLive
<1> QED
  BY <1>1, <1>2, GhostsKept DEF Remove

LEMMA StillGhosts ==
  ASSUME HolderInv, ghosts' \subseteq ghosts, UNCHANGED objects,
         \A j \in Keys: Pending(j)' => Pending(j)
  PROVE  GhostsApart'
BY DEF HolderInv, TypeInv, TypeOK, GhostsApart, Live

LEMMA CloseConGhosts ==
  ASSUME HolderInv, NEW k \in Keys, NEW force \in BOOLEAN, Live(k), CloseCon(k, force),
         \A j \in Keys: Pending(j)' => Pending(j)
  PROVE  GhostsApart'
<1>1. UNCHANGED <<objects, ghosts>> => GhostsApart'
  BY StillGhosts
<1>2. \A c : Remove(k, c) => GhostsApart'
  BY RemoveGhosts
<1> QED
  BY <1>1, <1>2 DEF CloseCon

LEMMA GhostsStep ==
  ASSUME HolderInv, Next
  PROVE  GhostsApart'
<1>1. TypeInv /\ TypeOK /\ TRUE \in BOOLEAN /\ FALSE \in BOOLEAN
  BY DEF HolderInv, TypeInv
<1>2. ASSUME NEW k \in Keys, k \notin used
      PROVE  k \notin ghosts /\ ~Live(k) /\ ~Pending(k)
  BY <1>1, <1>2, LiveUsed DEF TypeOK, TypeInv, QueueUsed, Pending
<1>3. queue' = queue => \A j \in Keys: Pending(j)' => Pending(j)
  BY DEF Pending
<1>4. ASSUME NEW k \in Keys,
             Listen(k) \/ Connect(k) \/ Close(k) \/ Send(k) \/ Release(k)
      PROVE  GhostsApart'
  <2>1. ghosts' = ghosts /\ \A j \in Keys: Live(j)' <=> Live(j)
    BY <1>4 DEF Listen, Connect, Close, Send, Release, Live
  <2>2. CASE Listen(k) \/ Connect(k)
    <3>1. k \notin used /\ (Push("LISTEN", k) \/ Push("CONNECT", k))
      BY <2>2 DEF Listen, Connect, PopKey
    <3>2. \A j \in Keys: j # k => (Pending(j)' => Pending(j))
      BY <1>2, <3>1, PushPending
    <3> QED
      BY <1>2, <2>1, <3>1, <3>2, GhostsKept
  <2>3. CASE Close(k) \/ Send(k)
    BY <2>1, <2>3, PushPending, StillGhosts DEF Close, Send
  <2>4. CASE Release(k)
    BY <1>3, <2>4, StillGhosts DEF Release
  <2> QED
    BY <1>4, <2>2, <2>3, <2>4
<1>5. ASSUME NEW k \in Keys,
             ProcessListen(k) \/ ProcessConnect(k) \/ ProcessClose(k) \/ ProcessData(k)
      PROVE  GhostsApart'
  <2>1. \A j \in Keys: Pending(j)' => Pending(j)
    BY <1>5, TakePending DEF ProcessListen, ProcessConnect, ProcessClose, ProcessData
  <2>2. CASE ProcessListen(k) \/ ProcessConnect(k)
    <3>1. k \notin ghosts
      BY <2>2, TakePending DEF ProcessListen, ProcessConnect, HolderInv, GhostsApart
    <3>2. \A j \in Keys: j # k => (Live(j)' => Live(j))
      BY <1>1, <2>2, AddLive DEF ProcessListen, ProcessConnect, Live
    <3> QED
      BY <2>1, <2>2, <3>1, <3>2, GhostsKept DEF ProcessListen, ProcessConnect
  <2>3. CASE UNCHANGED <<objects, ghosts>>
    BY <2>1, <2>3, StillGhosts
  <2>4. CASE Live(k) /\ CloseListen(k)
    BY <2>1, <2>4, RemoveGhosts DEF CloseListen
  <2>5. CASE Live(k) /\ (CloseCon(k, TRUE) \/ CloseCon(k, FALSE))
    BY <1>1, <2>1, <2>5, CloseConGhosts
  <2> QED
    BY <1>5, <2>2, <2>3, <2>4, <2>5 DEF ProcessClose, ProcessData
<1>6. ASSUME NEW l \in Keys, NEW k \in Keys, HandleAccept(l, k)
      PROVE  GhostsApart'
  <2>1. k \notin used /\ ghosts' = ghosts /\ queue' = queue
    BY <1>6 DEF HandleAccept, PopKey
  <2>2. \A j \in Keys: j # k => (Live(j)' => Live(j))
    BY <1>1, <1>6, AddLive DEF HandleAccept
  <2> QED
    BY <1>2, <1>3, <2>1, <2>2, GhostsKept
<1>7. ASSUME NEW k \in Keys,
             \/ HandleConLost(k)      \/ HandleConWrite(k)
             \/ HandleConnectWrite(k) \/ HandleConnectFailed(k)
      PROVE  GhostsApart'
  <2>1. CASE HandleConLost(k)
    BY <1>1, <1>3, <2>1, CloseConGhosts DEF HandleConLost, Polled
  <2>2. CASE HandleConWrite(k) \/ HandleConnectWrite(k) \/ HandleConnectFailed(k)
    BY <1>3, <2>2, StillGhosts DEF HandleConWrite, HandleConnectWrite, HandleConnectFailed
  <2> QED
    BY <1>7, <2>1, <2>2
<1>8. ASSUME NEW k \in Keys, ReconnectTimer(k) \/ ForceTimer(k) \/ Recycle(k)
      PROVE  GhostsApart'
  <2>1. queue' = queue
    BY <1>8 DEF ReconnectTimer, ForceTimer, Recycle
  <2>2. CASE UNCHANGED objects /\ ghosts' \subseteq ghosts
    BY <1>3, <2>1, <2>2, StillGhosts
  <2>3. CASE Live(k) /\ \E c: Remove(k, c)
    BY <1>3, <2>1, <2>3, RemoveGhosts
  <2> QED
    BY <1>8, <2>2, <2>3 DEF ReconnectTimer, ForceTimer, Recycle
<1> QED
  BY <1>4, <1>5, <1>6, <1>7, <1>8 DEF Next, Engine, Dispatch, Poll, Timers

LEMMA HolderInvStep == HolderInv /\ [Next]_vars => HolderInv'
<1> SUFFICES ASSUME HolderInv, [Next]_vars
             PROVE  HolderInv'
  OBVIOUS
<1>1. TypeInv'
  BY TypeInvStep DEF HolderInv
<1>2. SlotExclusive' /\ PendingOnce' /\ PendingNotLive' /\ GhostsApart'
  <2>1. CASE Engine
    BY <2>1, EngineHolder, GhostsStep DEF Engine, Next
  <2>2. CASE Dispatch
    BY <2>2, DispatchHolder, GhostsStep DEF Dispatch, Next
  <2>3. CASE Poll
    BY <2>3, PollHolder, GhostsStep DEF Next
  <2>4. CASE Timers
    BY <2>4, TimersHolder, GhostsStep DEF Timers, Next
  <2>5. CASE UNCHANGED vars
    BY <2>5 DEF vars, HolderInv, SlotExclusive, InUse, PendingOnce, Opens,
                PendingNotLive, GhostsApart, Pending, Live
  <2> QED
    BY <2>1, <2>2, <2>3, <2>4, <2>5 DEF Next
<1> QED
  BY <1>1, <1>2 DEF HolderInv

LEMMA HolderInvInit == Init => HolderInv
<1> SUFFICES ASSUME Init
             PROVE  HolderInv
  OBVIOUS
<1>1. TypeInv
  BY TypeInvInit
<1>2. used = {} /\ 1..Len(queue) = {}
  BY DEF Init
<1> QED
  BY <1>1, <1>2 DEF Init, HolderInv, SlotExclusive, PendingOnce, PendingNotLive,
                     GhostsApart, Pending

LEMMA FreeSlot ==
  ASSUME HolderInv, NEW k \in Keys,
         Pending(k) \/ \A j \in used: SlotOf[j] = SlotOf[k] => ~InUse(j)
  PROVE  objects[SlotOf[k]] = NoKey
<1> SUFFICES ASSUME objects[SlotOf[k]] # NoKey
             PROVE  FALSE
  OBVIOUS
<1> DEFINE j == objects[SlotOf[k]]
<1>1. TypeInv /\ SlotOf[k] \in Slots
  BY DEF HolderInv
<1>2. j \in Keys /\ j \in used /\ SlotOf[j] = SlotOf[k]
  BY <1>1 DEF TypeInv, TypeOK, TableUsed
<1>3. Live(j) /\ InUse(j)
  BY <1>2 DEF Live, InUse
<1>4. CASE Pending(k)
  <2>1. k \in used /\ InUse(k)
    BY <1>1, <1>4 DEF TypeInv, QueueUsed, Pending, InUse
  <2>2. j = k
    BY <1>2, <1>3, <2>1 DEF HolderInv, SlotExclusive
  <2> QED
    BY <1>3, <1>4, <2>2 DEF HolderInv, PendingNotLive
<1> QED
  BY <1>2, <1>3, <1>4

LEMMA HolderInvHolds == Spec => []HolderInv
BY HolderInvInit, HolderInvStep, PTL DEF Spec

(* The pool never hands out the slot of a key that a queued event, the     *)
(* object table, a removed connection or the engine still holds.           *)
THEOREM SlotsExclusive == Spec => []SlotExclusive
<1>1. HolderInv => SlotExclusive
  BY DEF HolderInv
<1> QED
  BY <1>1, HolderInvHolds, PTL

(* addObject's assert(_objects[index] == nullptr) holds for every listen   *)
(* and connect event when its turn comes.                                  *)
THEOREM PendingSlotsFree == Spec => []PendingSlotFree
<1>1. HolderInv => PendingSlotFree
  BY FreeSlot DEF PendingSlotFree
<1> QED
  BY <1>1, HolderInvHolds, PTL

-------------------------------------------------------------------------------
(* The shape of a connection.  What its fields may be together depends on  *)
(* where its key stands: not yet an object (never popped, or waiting in a  *)
(* listen or connect event), an object of the table (a listener, a         *)
(* connector still trying, an open connection), or gone.                   *)

Unborn(k) == k \notin used \/ Pending(k)

UnbornShape(c) == c = [Fresh EXCEPT !.kind = c.kind]

ListenShape(c) ==
  /\ c.kind = "listener" /\ c.handler = "accept" /\ c.state = "DISCONNECTED"
  /\ c.events = {"READ"} /\ ~c.writing /\ c.out = 0 /\ ~c.fin
  /\ c.reconnect = 0 /\ c.force = 0 /\ c.told = "up" /\ c.reports = 1

TryShape(c) ==
  /\ c.kind = "connector" /\ c.handler = "connect"
  /\ c.state \in {"CONNECTING", "DISCONNECTED"}
  /\ c.events = IF c.state = "CONNECTING" THEN {"WRITE"} ELSE {}
  /\ c.armed => c.state = "CONNECTING"
  /\ ~c.writing /\ c.out = 0 /\ ~c.fin
  /\ c.reconnect = (IF c.state = "DISCONNECTED" THEN 1 ELSE 0) /\ c.force = 0
  /\ c.told \in (IF c.state = "CONNECTING" THEN {"idle", "failed"} ELSE {"failed"})
  /\ c.reports = 0

OpenShape(c) ==
  /\ c.kind \in {"session", "connector"} /\ c.handler = "con"
  /\ c.state \in {"CONNECTED", "DISCONNECTING"}
  /\ c.events = (IF c.writing THEN {"READ", "WRITE"} ELSE {"READ"})
  /\ c.writing <=> c.out > 0
  /\ c.fin <=> c.state = "DISCONNECTING" /\ c.out = 0
  /\ c.reconnect = 0 /\ c.force = (IF c.state = "DISCONNECTING" THEN 1 ELSE 0)
  /\ c.told = (IF c.state = "CONNECTED" THEN "up" ELSE "ended")
  /\ c.reports = (IF c.state = "CONNECTED" THEN 1 ELSE 2)

GoneShape(c) ==
  \/ c.told \in {"idle", "failed"} /\ c.reports = 0
  \/ c.told = "ended" /\ c.reports = 2

Shape(k) ==
  /\ Live(k) => ListenShape(con[k]) \/ TryShape(con[k]) \/ OpenShape(con[k])
  /\ ~Live(k) => GoneShape(con[k])
  /\ Unborn(k) => UnbornShape(con[k])

QueuedKinds ==
  \A i \in 1..Len(queue):
    /\ queue[i].type = "LISTEN"  => con[queue[i].key].kind = "listener"
    /\ queue[i].type = "CONNECT" => con[queue[i].key].kind = "connector"

ShapeInv == HolderInv /\ QueuedKinds /\ \A k \in Keys: Shape(k)

-------------------------------------------------------------------------------
(* How each piece of a handler changes the shape. *)

LEMMA BirthShape ==
  ASSUME NEW c \in Connection, UnbornShape(c), NEW created \in BOOLEAN
  PROVE  /\ c.kind = "listener" => ListenShape(Listening(c))
         /\ c.kind = "connector" => TryShape(Connecting(c, created))
         /\ OpenShape(Accepted(c))
         /\ GoneShape([c EXCEPT !.told = "failed"])
<1>1. c.kind = "listener" => ListenShape(Listening(c))
  BY DEF UnbornShape, Fresh, ListenShape, Listening, RegisterRead, Interest, Tell
<1>2. c.kind = "connector" => TryShape(Connecting(c, created))
  BY DEF UnbornShape, Fresh, TryShape, Connecting, Retrying, RegisterConnecting, Interest
<1>3. OpenShape(Accepted(c))
  BY DEF UnbornShape, Fresh, OpenShape, Accepted, RegisterRead, Interest, Tell
<1>4. GoneShape([c EXCEPT !.told = "failed"])
  BY DEF UnbornShape, Fresh, GoneShape
<1> QED
  BY <1>1, <1>2, <1>3, <1>4

LEMMA TryingShape ==
  ASSUME NEW c \in Connection, TryShape(c), NEW created \in BOOLEAN
  PROVE  /\ c.state = "CONNECTING" => OpenShape(Connected(c))
         /\ c.state = "CONNECTING" => TryShape(ConnectFailed(c))
         /\ c.state = "DISCONNECTED" =>
              TryShape(Retrying([c EXCEPT !.reconnect = @ - 1], created))
         /\ GoneShape(Removed([c EXCEPT !.told = "failed"]))
<1>1. c.state = "CONNECTING" => OpenShape(Connected(c))
  BY DEF TryShape, OpenShape, Connected, RegisterRead, Deregister, Interest, Tell, Connection
<1>2. c.state = "CONNECTING" => TryShape(ConnectFailed(c))
  BY DEF TryShape, ConnectFailed, Deregister, Interest, Connection
<1>3. c.state = "DISCONNECTED" =>
        TryShape(Retrying([c EXCEPT !.reconnect = @ - 1], created))
  BY DEF TryShape, Retrying, RegisterConnecting, Interest, Connection
<1>4. GoneShape(Removed([c EXCEPT !.told = "failed"]))
  BY DEF TryShape, GoneShape, Removed, Deregister, Interest, Connection
<1> QED
  BY <1>1, <1>2, <1>3, <1>4

LEMMA OpenShapes ==
  ASSUME NEW c \in Connection, OpenShape(c)
  PROVE  /\ \A rest \in Nat \ {0}: c.state = "CONNECTED" => OpenShape(Buffered(c, rest))
         /\ c.writing => OpenShape(Flushed(c))
         /\ \A n \in Nat \ {0}: n < c.out => OpenShape([c EXCEPT !.out = @ - n])
         /\ c.state = "CONNECTED" => OpenShape(Draining(Ended(c)))
         /\ GoneShape(Removed(Ended(c)))
         /\ c.state = "DISCONNECTING" => GoneShape(Removed([c EXCEPT !.force = @ - 1]))
<1>1. ASSUME NEW rest \in Nat \ {0}, c.state = "CONNECTED"
      PROVE  OpenShape(Buffered(c, rest))
  <2>1. c.out + rest > 0 /\ c.out \in Nat /\ ~c.fin
    BY <1>1 DEF OpenShape, Connection
  <2>2. CASE c.writing
    BY <1>1, <2>1, <2>2 DEF OpenShape, Buffered, Connection
  <2>3. CASE ~c.writing
    <3>1. Toggle(c.events, "WRITE") = {"READ", "WRITE"}
      BY <2>3 DEF OpenShape, Toggle
    <3>2. Buffered(c, rest) = [c EXCEPT !.out = c.out + rest, !.writing = TRUE,
                                        !.events = {"READ", "WRITE"}, !.armed = TRUE]
      BY <2>3, <3>1 DEF Buffered, DeregisterWrite, Interest, Connection
    <3> QED
      BY <1>1, <2>1, <3>2 DEF OpenShape, Connection
  <2> QED
    BY <2>2, <2>3 DEF Connection
<1>2. c.writing => OpenShape(Flushed(c))
  BY DEF OpenShape, Flushed, DeregisterWrite, Interest, Toggle, Connection
<1>3. ASSUME NEW n \in Nat \ {0}, n < c.out
      PROVE  OpenShape([c EXCEPT !.out = @ - n])
  BY <1>3 DEF OpenShape, Connection
<1>4. c.state = "CONNECTED" => OpenShape(Draining(Ended(c)))
  <2> SUFFICES ASSUME c.state = "CONNECTED"
               PROVE  OpenShape(Draining(Ended(c)))
    OBVIOUS
  <2> DEFINE e == Ended(c)
  <2>1. e \in Connection
    BY OpenType, 0 \in Nat
  <2>2. /\ e.kind = c.kind /\ e.handler = c.handler /\ e.state = "CONNECTED"
        /\ e.events = c.events /\ e.writing = c.writing /\ e.out = c.out /\ ~e.fin
        /\ e.reconnect = 0 /\ e.force = 0 /\ e.told = "ended" /\ e.reports = 2
    BY DEF OpenShape, Ended, Tell, Connection
  <2> HIDE DEF e
  <2>3. /\ c.kind \in {"session", "connector"} /\ c.handler = "con"
        /\ c.events = (IF c.writing THEN {"READ", "WRITE"} ELSE {"READ"})
        /\ c.writing <=> c.out > 0
        /\ c.out \in Nat
    BY DEF OpenShape, Connection
  <2> DEFINE d == Draining(e)
  <2>4. /\ d.kind = e.kind /\ d.handler = e.handler /\ d.state = "DISCONNECTING"
        /\ d.events = e.events /\ d.writing = e.writing /\ d.out = e.out
        /\ d.reconnect = 0 /\ d.told = "ended" /\ d.reports = 2
    BY <2>1, <2>2 DEF Draining, Connection
  <2>5. (d.fin <=> ~c.writing) /\ (d.writing <=> c.writing) /\ d.force = 1
    <3>1. (d.fin <=> (e.fin \/ ~e.writing)) /\ d.force = e.force + 1
      BY <2>1 DEF Draining, Connection
    <3>2. (d.fin <=> ~e.writing) /\ d.force = 1
      BY <2>2, <3>1
    <3> QED
      BY <2>2, <2>4, <3>2
  <2> HIDE DEF d
  <2>6. OpenShape(d)
    <3>1. /\ d.kind \in {"session", "connector"} /\ d.handler = "con"
          /\ d.state = "DISCONNECTING" /\ d.reconnect = 0 /\ d.force = 1
          /\ d.told = "ended" /\ d.reports = 2
      BY <2>2, <2>3, <2>4, <2>5
    <3>2. d.events = (IF d.writing THEN {"READ", "WRITE"} ELSE {"READ"})
      BY <2>2, <2>3, <2>4, <2>5
    <3>3. (d.writing <=> d.out > 0) /\ (d.fin <=> d.out = 0)
      BY <2>2, <2>3, <2>4, <2>5
    <3> QED
      BY <3>1, <3>2, <3>3 DEF OpenShape
  <2> QED
    BY <2>6 DEF d, e
<1>5. GoneShape(Removed(Ended(c)))
  BY DEF OpenShape, GoneShape, Removed, Deregister, Interest, Ended, Tell, Connection
<1>6. c.state = "DISCONNECTING" => GoneShape(Removed([c EXCEPT !.force = @ - 1]))
  BY DEF OpenShape, GoneShape, Removed, Deregister, Interest, Connection
<1> QED
  BY <1>1, <1>2, <1>3, <1>4, <1>5, <1>6

LEMMA GoneShapes ==
  ASSUME NEW c \in Connection
  PROVE  /\ ListenShape(c) => GoneShape(Removed(Tell(c, "ended")))
         /\ GoneShape(c) => GoneShape([c EXCEPT !.reconnect = @ - 1])
         /\ GoneShape(c) => GoneShape([c EXCEPT !.force = @ - 1])
         /\ GoneShape(c) => GoneShape(Recycled(c))
BY DEF ListenShape, GoneShape, Removed, Deregister, Interest, Tell, Recycled, Connection

LEMMA KindKept ==
  ASSUME NEW c \in Connection, NEW created \in BOOLEAN, NEW rest \in Nat
  PROVE  /\ Listening(c).kind = c.kind
         /\ Connecting(c, created).kind = c.kind
         /\ Retrying(c, created).kind = c.kind
         /\ Connected(c).kind = c.kind
         /\ ConnectFailed(c).kind = c.kind
         /\ Buffered(c, rest).kind = c.kind
         /\ Flushed(c).kind = c.kind
         /\ Tell(c, "ended").kind = c.kind
         /\ Ended(c).kind = c.kind
         /\ Draining(c).kind = c.kind
         /\ Removed(c).kind = c.kind
         /\ Recycled(c).kind = c.kind
<1>1. /\ Listening(c).kind = c.kind
      /\ Connecting(c, created).kind = c.kind
      /\ Retrying(c, created).kind = c.kind
  BY DEF Listening, Connecting, Retrying, RegisterConnecting, RegisterRead,
         Interest, Tell, Connection
<1>2. /\ Connected(c).kind = c.kind
      /\ ConnectFailed(c).kind = c.kind
      /\ Removed(c).kind = c.kind
  BY DEF Connected, ConnectFailed, Removed, RegisterRead, Deregister, Interest,
         Tell, Connection
<1>3. /\ Buffered(c, rest).kind = c.kind
      /\ Flushed(c).kind = c.kind
  BY DEF Buffered, Flushed, DeregisterWrite, Interest, Connection
<1>4. /\ Tell(c, "ended").kind = c.kind
      /\ Ended(c).kind = c.kind
      /\ Draining(c).kind = c.kind
      /\ Recycled(c).kind = c.kind
  BY DEF Tell, Ended, Draining, Recycled, Connection
<1> QED
  BY <1>1, <1>2, <1>3, <1>4

(* A step that changes the object of k, and otherwise only makes keys born. *)
LEMMA ShapeOfOthers ==
  ASSUME ShapeInv, NEW k \in Keys, NEW d, con' = [con EXCEPT ![k] = d],
         \A j \in Keys: j # k => (Live(j)' <=> Live(j)) /\ (Unborn(j)' => Unborn(j)),
         Live(k)' => ListenShape(d) \/ TryShape(d) \/ OpenShape(d),
         ~Live(k)' => GoneShape(d),
         Unborn(k)' => UnbornShape(d)
  PROVE  \A j \in Keys: Shape(j)'
<1>1. con \in [Keys -> Connection]
  BY DEF ShapeInv, HolderInv, TypeInv, TypeOK
<1>2. ASSUME NEW j \in Keys, j # k
      PROVE  Shape(j)'
  <2>1. con'[j] = con[j] /\ Shape(j)
    BY <1>1, <1>2 DEF ShapeInv
  <2> QED
    BY <1>2, <2>1 DEF Shape
<1>3. Shape(k)'
  <2>1. con'[k] = d
    BY <1>1
  <2> QED
    BY <2>1 DEF Shape
<1> QED
  BY <1>2, <1>3

LEMMA KindsKept ==
  ASSUME ShapeInv,
         \A i \in 1..Len(queue'): \E j \in 1..Len(queue): queue'[i] = queue[j],
         \A k \in used: con'[k].kind = con[k].kind
  PROVE  QueuedKinds'
<1> SUFFICES ASSUME NEW i \in 1..Len(queue')
             PROVE  /\ queue'[i].type = "LISTEN"  => con'[queue'[i].key].kind = "listener"
                    /\ queue'[i].type = "CONNECT" => con'[queue'[i].key].kind = "connector"
  BY DEF QueuedKinds
<1>1. PICK j \in 1..Len(queue): queue'[i] = queue[j]
  OBVIOUS
<1>2. queue[j].key \in used
  BY DEF ShapeInv, HolderInv, TypeInv, QueueUsed
<1> QED
  BY <1>1, <1>2 DEF ShapeInv, QueuedKinds

LEMMA AddLiveOnly ==
  ASSUME TypeInv, NEW k \in Keys, AddObject(k), objects[SlotOf[k]] = NoKey
  PROVE  Live(k)' /\ \A j \in Keys: j # k => (Live(j)' <=> Live(j))
BY DEF TypeInv, TypeOK, AddObject, Live

LEMMA RemoveLiveOnly ==
  ASSUME TypeInv, NEW k \in Keys, RemoveObject(k), Live(k)
  PROVE  ~Live(k)' /\ \A j \in Keys: j # k => (Live(j)' <=> Live(j))
BY DEF TypeInv, TypeOK, RemoveObject, Live

-------------------------------------------------------------------------------
(* Every step keeps the shapes. *)

(* An update of the object of k that stays in the table, or out of it. *)
LEMMA UpdateShape ==
  ASSUME ShapeInv, NEW k \in Keys, ~Unborn(k), NEW d, d.kind = con[k].kind,
         con' = [con EXCEPT ![k] = d], UNCHANGED <<queue, used, objects>>,
         Live(k) => ListenShape(d) \/ TryShape(d) \/ OpenShape(d),
         ~Live(k) => GoneShape(d)
  PROVE  QueuedKinds' /\ \A j \in Keys: Shape(j)'
<1>1. \A j \in Keys: (Live(j)' <=> Live(j)) /\ (Unborn(j)' <=> Unborn(j))
  BY DEF Live, Unborn, Pending
<1>2. con \in [Keys -> Connection] /\ used \subseteq Keys
  BY DEF ShapeInv, HolderInv, TypeInv, TypeOK
<1>3. QueuedKinds'
  BY <1>2, KindsKept
<1> QED
  BY <1>1, <1>3, ShapeOfOthers

(* Removal from the table: what is left of the object is gone for good. *)
LEMMA RemoveShape ==
  ASSUME ShapeInv, NEW k \in Keys, Live(k), NEW c \in Connection, c.kind = con[k].kind,
         GoneShape(Removed(c)), Remove(k, c), used' = used,
         \A j \in Keys: Pending(j)' => Pending(j),
         \A i \in 1..Len(queue'): \E j \in 1..Len(queue): queue'[i] = queue[j]
  PROVE  QueuedKinds' /\ \A j \in Keys: Shape(j)'
<1>1. TypeInv /\ con \in [Keys -> Connection] /\ used \subseteq Keys /\ k \in used
  BY LiveUsed DEF ShapeInv, HolderInv, TypeInv, TypeOK
<1>2. ~Live(k)' /\ \A j \in Keys: j # k => (Live(j)' <=> Live(j))
  BY <1>1, RemoveLiveOnly DEF Remove
<1>3. /\ ~Unborn(k)'
      /\ \A j \in Keys: Unborn(j)' => Unborn(j)
  BY <1>1 DEF Unborn, ShapeInv, HolderInv, PendingNotLive
<1>4. Removed(c).kind = con[k].kind
  BY KindKept, TRUE \in BOOLEAN, 0 \in Nat
<1>5. QueuedKinds'
  BY <1>1, <1>4, KindsKept DEF Remove
<1> QED
  BY <1>2, <1>3, <1>5, ShapeOfOthers DEF Remove

LEMMA LiveBorn ==
  ASSUME HolderInv, NEW k \in Keys, Live(k)
  PROVE  ~Unborn(k)
BY LiveUsed DEF Unborn, HolderInv, PendingNotLive

LEMMA CloseConShape ==
  ASSUME ShapeInv, NEW k \in Keys, Live(k), NEW force \in BOOLEAN, CloseCon(k, force),
         used' = used,
         \A j \in Keys: Pending(j)' => Pending(j),
         \A i \in 1..Len(queue'): \E j \in 1..Len(queue): queue'[i] = queue[j]
  PROVE  QueuedKinds' /\ \A j \in Keys: Shape(j)'
<1> DEFINE c == con[k]
<1>1. /\ con \in [Keys -> Connection] /\ c \in Connection /\ HolderInv
      /\ used \subseteq Keys
      /\ TRUE \in BOOLEAN /\ 0 \in Nat
  BY DEF ShapeInv, HolderInv, TypeInv, TypeOK
<1>2. ListenShape(c) \/ TryShape(c) \/ OpenShape(c)
  BY DEF ShapeInv, Shape
<1>3. CASE /\ c.kind = "connector" /\ c.state \in {"DISCONNECTED", "CONNECTING"}
           /\ Remove(k, [c EXCEPT !.told = "failed"])
  <2>1. TryShape(c)
    BY <1>2, <1>3 DEF ListenShape, OpenShape
  <2>2. GoneShape(Removed([c EXCEPT !.told = "failed"]))
    BY <1>1, <2>1, TryingShape
  <2>3. /\ [c EXCEPT !.told = "failed"] \in Connection
        /\ [c EXCEPT !.told = "failed"].kind = c.kind
    BY <1>1 DEF Connection
  <2> QED
    BY <1>3, <2>2, <2>3, RemoveShape
<1>4. ASSUME c.kind = "session" \/ c.state \in {"CONNECTED", "DISCONNECTING"},
             c.kind \in {"session", "connector"}
      PROVE  OpenShape(c)
  BY <1>2, <1>4 DEF ListenShape, TryShape
<1>5. CASE OpenShape(c) /\ Remove(k, Ended(c))
  <2>1. Ended(c) \in Connection /\ Ended(c).kind = c.kind /\ GoneShape(Removed(Ended(c)))
    BY <1>1, <1>5, OpenType, KindKept, OpenShapes
  <2> QED
    BY <1>5, <2>1, RemoveShape
<1>6. CASE /\ OpenShape(c)
           /\ con' = [con EXCEPT ![k] =
                        IF c.state = "DISCONNECTING" THEN c ELSE Draining(Ended(c))]
           /\ UNCHANGED <<objects, ghosts>>
  <2> DEFINE d == IF c.state = "DISCONNECTING" THEN c ELSE Draining(Ended(c))
  <2>1. OpenShape(d)
    <3>1. c.state = "DISCONNECTING" \/ c.state = "CONNECTED"
      BY <1>6 DEF OpenShape
    <3> QED
      BY <1>1, <1>6, <3>1, OpenShapes
  <2>2. d.kind = c.kind
    <3>1. Ended(c) \in Connection /\ Ended(c).kind = c.kind
      BY <1>1, OpenType, KindKept
    <3>2. Draining(Ended(c)).kind = c.kind
      BY <1>1, <3>1, KindKept
    <3> QED
      BY <3>2
  <2> HIDE DEF d
  <2>3. \A j \in Keys: (Live(j)' <=> Live(j)) /\ (Unborn(j)' => Unborn(j))
    BY <1>6 DEF Live, Unborn
  <2>4. QueuedKinds'
    <3>1. \A j \in used: con'[j].kind = con[j].kind
      BY <1>1, <1>6, <2>2 DEF d
    <3> QED
      BY <3>1, KindsKept
  <2>5. ~Unborn(k)'
    BY <1>1, <2>3, LiveBorn
  <2>6. con' = [con EXCEPT ![k] = d] /\ Live(k)'
    BY <1>6, <2>3 DEF d
  <2> QED
    BY <2>1, <2>3, <2>4, <2>5, <2>6, ShapeOfOthers
<1> QED
  BY <1>3, <1>4, <1>5, <1>6 DEF CloseCon

LEMMA EngineShape ==
  ASSUME ShapeInv, NEW k \in Keys,
         Listen(k) \/ Connect(k) \/ Close(k) \/ Send(k) \/ Release(k)
  PROVE  QueuedKinds' /\ \A j \in Keys: Shape(j)'
<1>1. /\ HolderInv /\ TypeInv /\ con \in [Keys -> Connection] /\ used \subseteq Keys
      /\ queue \in Seq(Events) /\ Len(queue) \in Nat
  BY DEF ShapeInv, HolderInv, TypeInv, TypeOK
<1>2. \A j \in Keys: Live(j)' <=> Live(j)
  BY DEF Listen, Connect, Close, Send, Release, Live
<1>3. ASSUME NEW type \in {"LISTEN", "CONNECT", "DATA", "CLOSE"}, Push(type, k)
      PROVE  /\ Len(queue') = Len(queue) + 1
             /\ queue'[Len(queue) + 1] = [type |-> type, key |-> k]
             /\ \A i \in 1..Len(queue): queue'[i] = queue[i]
             /\ \A i \in 1..Len(queue'): i \in 1..Len(queue) \/ i = Len(queue) + 1
  <2>1. /\ Len(queue') = Len(queue) + 1
        /\ queue'[Len(queue) + 1] = [type |-> type, key |-> k]
        /\ \A i \in 1..Len(queue): queue'[i] = queue[i]
    BY <1>1, <1>3 DEF Push
  <2> QED
    BY <1>1, <2>1
<1>4. ASSUME NEW type \in {"LISTEN", "CONNECT"},
             NEW kind \in {"listener", "connector"},
             type = "LISTEN" <=> kind = "listener",
             PopKey(k), Push(type, k), con' = [con EXCEPT ![k].kind = kind]
      PROVE  QueuedKinds' /\ \A j \in Keys: Shape(j)'
  <2> DEFINE d == [con[k] EXCEPT !.kind = kind]
  <2>1. k \notin used /\ used' = used \union {k} /\ ~Pending(k) /\ ~Live(k)
    BY <1>1, <1>4, LiveUsed DEF PopKey, TypeInv, QueueUsed, Pending
  <2>2. UnbornShape(con[k])
    BY <2>1 DEF ShapeInv, Shape, Unborn
  <2>3. UnbornShape(d) /\ GoneShape(d)
    BY <2>2 DEF UnbornShape, GoneShape, Fresh
  <2>4. \A j \in Keys: j # k => (Unborn(j)' => Unborn(j))
    BY <1>1, <1>4, <2>1, PushPending DEF Unborn
  <2>5. con' = [con EXCEPT ![k] = d]
    BY <1>4
  <2>6. \A j \in Keys: Shape(j)'
    <3> HIDE DEF d
    <3> QED
      BY <1>2, <2>1, <2>3, <2>4, <2>5, ShapeOfOthers
  <2>7. QueuedKinds'
    <3> SUFFICES ASSUME NEW i \in 1..Len(queue')
                 PROVE  /\ queue'[i].type = "LISTEN"  => con'[queue'[i].key].kind = "listener"
                        /\ queue'[i].type = "CONNECT" => con'[queue'[i].key].kind = "connector"
      BY DEF QueuedKinds
    <3>1. CASE i \in 1..Len(queue)
      <4>1. queue'[i] = queue[i] /\ queue[i].key \in used
        BY <1>1, <1>3, <1>4, <3>1 DEF TypeInv, QueueUsed
      <4>2. con'[queue[i].key] = con[queue[i].key]
        BY <1>1, <1>4, <2>1, <4>1
      <4> QED
        BY <3>1, <4>1, <4>2 DEF ShapeInv, QueuedKinds
    <3>2. CASE i = Len(queue) + 1
      <4>1. queue'[i] = [type |-> type, key |-> k]
        BY <1>3, <1>4, <3>2
      <4>2. con'[k].kind = kind
        BY <1>1, <1>4 DEF Connection
      <4> QED
        BY <1>4, <4>1, <4>2
    <3> QED
      BY <1>3, <1>4, <3>1, <3>2
  <2> QED
    BY <2>6, <2>7
<1>5. CASE Listen(k) \/ Connect(k)
  BY <1>4, <1>5 DEF Listen, Connect
<1>6. CASE Close(k) \/ Send(k) \/ Release(k)
  <2>1. con' = con /\ used' = used
    BY <1>6 DEF Close, Send, Release
  <2>2. \A j \in Keys: Unborn(j)' => Unborn(j)
    <3>1. CASE Close(k) \/ Send(k)
      BY <1>1, <2>1, <3>1, PushPending DEF Close, Send, Unborn
    <3>2. CASE Release(k)
      BY <3>2 DEF Release, Unborn, Pending
    <3> QED
      BY <1>6, <3>1, <3>2
  <2>3. QueuedKinds'
    <3>1. CASE Release(k)
      BY <2>1, <3>1 DEF Release, ShapeInv, QueuedKinds
    <3>2. ASSUME NEW type \in {"DATA", "CLOSE"}, Push(type, k)
          PROVE  QueuedKinds'
      <4> SUFFICES ASSUME NEW i \in 1..Len(queue')
                   PROVE  /\ queue'[i].type = "LISTEN"  => con'[queue'[i].key].kind = "listener"
                          /\ queue'[i].type = "CONNECT" => con'[queue'[i].key].kind = "connector"
        BY DEF QueuedKinds
      <4>1. CASE i \in 1..Len(queue)
        BY <1>3, <2>1, <3>2, <4>1 DEF ShapeInv, QueuedKinds
      <4>2. CASE i = Len(queue) + 1
        BY <1>3, <3>2, <4>2
      <4> QED
        BY <1>3, <3>2, <4>1, <4>2
    <3> QED
      BY <1>6, <3>1, <3>2 DEF Close, Send
  <2> QED
    BY <1>2, <2>1, <2>2, <2>3 DEF ShapeInv, Shape
<1> QED
  BY <1>5, <1>6

LEMMA DispatchShape ==
  ASSUME ShapeInv, NEW k \in Keys,
         ProcessListen(k) \/ ProcessConnect(k) \/ ProcessClose(k) \/ ProcessData(k)
  PROVE  QueuedKinds' /\ \A j \in Keys: Shape(j)'
<1> DEFINE c == con[k]
<1>1. /\ HolderInv /\ TypeInv /\ con \in [Keys -> Connection] /\ c \in Connection
      /\ used \subseteq Keys /\ TRUE \in BOOLEAN /\ FALSE \in BOOLEAN /\ 0 \in Nat
  BY DEF ShapeInv, HolderInv, TypeInv, TypeOK
<1>2. PICK type : Take(type, k)
  BY DEF ProcessListen, ProcessConnect, ProcessClose, ProcessData
<1>3. /\ used' = used
      /\ \A j \in Keys: Pending(j)' => Pending(j)
      /\ \A i \in 1..Len(queue'): \E j \in 1..Len(queue): queue'[i] = queue[j]
  BY <1>1, <1>2, TakeType, TakePending DEF Take
<1>4. ASSUME Pending(k)
      PROVE  UnbornShape(c) /\ ~Live(k) /\ objects[SlotOf[k]] = NoKey
  BY <1>1, <1>4, FreeSlot DEF ShapeInv, Shape, Unborn, HolderInv, PendingNotLive
<1>5. ASSUME UNCHANGED <<objects, con>>
      PROVE  QueuedKinds' /\ \A j \in Keys: Shape(j)'
  <2>1. \A j \in Keys: (Live(j)' <=> Live(j)) /\ (Unborn(j)' => Unborn(j))
    BY <1>3, <1>5 DEF Live, Unborn
  <2>2. QueuedKinds'
    BY <1>3, <1>5, KindsKept
  <2> QED
    BY <1>5, <2>1, <2>2 DEF ShapeInv, Shape
<1>6. ASSUME Pending(k), ~Pending(k)', k \in used, NEW d \in Connection, d.kind = c.kind,
             con' = [con EXCEPT ![k] = d],
             \/ UNCHANGED objects /\ GoneShape(d)
             \/ AddObject(k) /\ (ListenShape(d) \/ TryShape(d))
      PROVE  QueuedKinds' /\ \A j \in Keys: Shape(j)'
  <2>1. \A j \in Keys: j # k => (Live(j)' <=> Live(j)) /\ (Unborn(j)' => Unborn(j))
    <3>1. UNCHANGED objects => \A j \in Keys: Live(j)' <=> Live(j)
      BY DEF Live
    <3> QED
      BY <1>1, <1>3, <1>4, <1>6, <3>1, AddLiveOnly DEF Unborn
  <2>2. /\ Live(k)' => ListenShape(d) \/ TryShape(d) \/ OpenShape(d)
        /\ ~Live(k)' => GoneShape(d)
    <3>1. UNCHANGED objects => ~Live(k)'
      BY <1>4, <1>6 DEF Live
    <3> QED
      BY <1>1, <1>4, <1>6, <3>1, AddLiveOnly
  <2>3. QueuedKinds'
    BY <1>1, <1>3, <1>6, KindsKept
  <2>4. ~Unborn(k)'
    BY <1>3, <1>6 DEF Unborn
  <2> QED
    BY <1>6, <2>1, <2>2, <2>3, <2>4, ShapeOfOthers
<1>7. CASE ProcessListen(k)
  <2>1. Pending(k) /\ ~Pending(k)' /\ k \in used
    BY <1>1, <1>7, TakePending, TakeType DEF ProcessListen
  <2>2. c.kind = "listener"
    <3>1. 1 \in 1..Len(queue) /\ queue[1] = [type |-> "LISTEN", key |-> k]
      <4>1. Len(queue) > 0 /\ queue[1] = [type |-> "LISTEN", key |-> k]
        BY <1>1, <1>7, TakeType DEF ProcessListen
      <4>2. Len(queue) \in Nat
        BY <1>1 DEF TypeInv, TypeOK
      <4> QED
        BY <4>1, <4>2
    <3> QED
      BY <3>1 DEF ShapeInv, QueuedKinds
  <2>3. /\ Listening(c) \in Connection /\ Listening(c).kind = c.kind
        /\ ListenShape(Listening(c))
    BY <1>1, <1>4, <2>1, <2>2, OpeningType, KindKept, BirthShape
  <2> DEFINE f == [c EXCEPT !.told = "failed"]
  <2>4. f \in Connection /\ f.kind = c.kind
    BY <1>1 DEF Connection
  <2>5. GoneShape(f)
    BY <1>1, <1>4, <2>1, BirthShape
  <2>6. CASE con' = [con EXCEPT ![k] = f] /\ UNCHANGED objects
    <3> HIDE DEF f
    <3> QED
      BY <1>6, <2>1, <2>4, <2>5, <2>6
  <2>7. CASE con' = [con EXCEPT ![k] = Listening(c)] /\ AddObject(k)
    BY <1>6, <2>1, <2>3, <2>7
  <2> QED
    BY <1>7, <2>6, <2>7 DEF ProcessListen
<1>8. CASE ProcessConnect(k)
  <2>1. Pending(k) /\ ~Pending(k)' /\ k \in used
    BY <1>1, <1>8, TakePending, TakeType DEF ProcessConnect
  <2>2. c.kind = "connector"
    <3>1. 1 \in 1..Len(queue) /\ queue[1] = [type |-> "CONNECT", key |-> k]
      <4>1. Len(queue) > 0 /\ queue[1] = [type |-> "CONNECT", key |-> k]
        BY <1>1, <1>8, TakeType DEF ProcessConnect
      <4>2. Len(queue) \in Nat
        BY <1>1 DEF TypeInv, TypeOK
      <4> QED
        BY <4>1, <4>2
    <3> QED
      BY <3>1 DEF ShapeInv, QueuedKinds
  <2>3. PICK created \in BOOLEAN: con' = [con EXCEPT ![k] = Connecting(c, created)]
    BY <1>8 DEF ProcessConnect
  <2>4. /\ Connecting(c, created) \in Connection /\ Connecting(c, created).kind = c.kind
        /\ TryShape(Connecting(c, created))
    BY <1>1, <1>4, <2>1, <2>2, OpeningType, KindKept, BirthShape
  <2> QED
    BY <1>6, <1>8, <2>1, <2>3, <2>4 DEF ProcessConnect
<1>9. CASE ProcessClose(k)
  <2>1. CASE Live(k) /\ CloseListen(k)
    <3>1. ListenShape(c)
      BY <2>1 DEF CloseListen, ShapeInv, Shape, TryShape, OpenShape
    <3>2. /\ Tell(c, "ended") \in Connection /\ Tell(c, "ended").kind = c.kind
          /\ GoneShape(Removed(Tell(c, "ended")))
      BY <1>1, <3>1, TellType, KindKept, GoneShapes
    <3> QED
      BY <1>3, <2>1, <3>2, RemoveShape DEF CloseListen
  <2>2. CASE Live(k) /\ CloseCon(k, FALSE)
    BY <1>1, <1>3, <2>2, CloseConShape
  <2> QED
    BY <1>5, <1>9, <2>1, <2>2 DEF ProcessClose
<1>10. CASE ProcessData(k)
  <2>1. ASSUME NEW rest \in 1..MaxOut, Live(k), c.state = "CONNECTED",
               con' = [con EXCEPT ![k] = Buffered(c, rest)], UNCHANGED objects
        PROVE  QueuedKinds' /\ \A j \in Keys: Shape(j)'
    <3>1. rest \in Nat \ {0} /\ rest \in Nat
      OBVIOUS
    <3>2. OpenShape(c)
      BY <2>1 DEF ShapeInv, Shape, ListenShape, TryShape
    <3>3. OpenShape(Buffered(c, rest)) /\ Buffered(c, rest).kind = c.kind
      BY <1>1, <2>1, <3>1, <3>2, OpenShapes, KindKept
    <3>4. \A j \in Keys: (Live(j)' <=> Live(j)) /\ (Unborn(j)' => Unborn(j))
      BY <1>3, <2>1 DEF Live, Unborn
    <3>5. QueuedKinds'
      BY <1>1, <1>3, <2>1, <3>3, KindsKept
    <3>6. ~Unborn(k)'
      BY <1>1, <2>1, <3>4, LiveBorn
    <3> QED
      BY <2>1, <3>3, <3>4, <3>5, <3>6, ShapeOfOthers
  <2>2. CASE Live(k) /\ CloseCon(k, TRUE)
    BY <1>1, <1>3, <2>2, CloseConShape
  <2> QED
    BY <1>5, <1>10, <2>1, <2>2 DEF ProcessData
<1> QED
  BY <1>7, <1>8, <1>9, <1>10

LEMMA AcceptShape ==
  ASSUME ShapeInv, NEW l \in Keys, NEW k \in Keys, HandleAccept(l, k)
  PROVE  QueuedKinds' /\ \A j \in Keys: Shape(j)'
<1>1. /\ HolderInv /\ TypeInv /\ con \in [Keys -> Connection] /\ con[k] \in Connection
      /\ used \subseteq Keys /\ TRUE \in BOOLEAN
  BY DEF ShapeInv, HolderInv, TypeInv, TypeOK
<1>2. k \notin used /\ used' = used \union {k} /\ queue' = queue
  BY DEF HandleAccept, PopKey
<1>3. ~Pending(k) /\ \A j \in Keys: Pending(j)' <=> Pending(j)
  BY <1>1, <1>2 DEF TypeInv, QueueUsed, Pending
<1>4. objects[SlotOf[k]] = NoKey
  BY <1>1, FreeSlot DEF HandleAccept, PopKey
<1>5. Live(k)' /\ \A j \in Keys: j # k => (Live(j)' <=> Live(j))
  BY <1>1, <1>4, AddLiveOnly DEF HandleAccept
<1>6. OpenShape(Accepted(con[k]))
  <2>1. UnbornShape(con[k])
    BY <1>2 DEF ShapeInv, Shape, Unborn
  <2> QED
    BY <1>1, <2>1, BirthShape
<1>7. QueuedKinds'
  <2>1. con' = [con EXCEPT ![k] = Accepted(con[k])]
    BY DEF HandleAccept
  <2>2. \A j \in used: con'[j] = con[j]
    BY <1>1, <1>2, <2>1
  <2> QED
    BY <1>2, <2>2, KindsKept
<1>8. con' = [con EXCEPT ![k] = Accepted(con[k])]
  BY DEF HandleAccept
<1>9. ~Unborn(k)' /\ \A j \in Keys: Unborn(j)' => Unborn(j)
  BY <1>2, <1>3 DEF Unborn
<1> QED
  BY <1>5, <1>6, <1>7, <1>8, <1>9, ShapeOfOthers

LEMMA PollShape ==
  ASSUME ShapeInv, NEW k \in Keys,
         \/ HandleConLost(k)      \/ HandleConWrite(k)
         \/ HandleConnectWrite(k) \/ HandleConnectFailed(k)
  PROVE  QueuedKinds' /\ \A j \in Keys: Shape(j)'
<1> DEFINE c == con[k]
<1>1. /\ HolderInv /\ con \in [Keys -> Connection] /\ c \in Connection
      /\ TRUE \in BOOLEAN /\ 0 \in Nat
  BY DEF ShapeInv, HolderInv, TypeInv, TypeOK
<1>2. Live(k) /\ ~Unborn(k) /\ UNCHANGED <<queue, used>>
  BY <1>1, LiveBorn DEF HandleConLost, HandleConWrite, HandleConnectWrite,
                        HandleConnectFailed, Polled
<1>3. ListenShape(c) \/ TryShape(c) \/ OpenShape(c)
  BY <1>2 DEF ShapeInv, Shape
<1>4. CASE HandleConLost(k)
  <2>1. \A j \in Keys: Pending(j)' => Pending(j)
    BY <1>2 DEF Pending
  <2> QED
    BY <1>1, <1>2, <1>4, <2>1, CloseConShape DEF HandleConLost
<1>5. CASE HandleConWrite(k)
  <2>1. OpenShape(c) /\ "WRITE" \in c.events
    BY <1>3, <1>5 DEF HandleConWrite, Polled, ListenShape, TryShape
  <2>2. c.writing
    BY <2>1 DEF OpenShape
  <2>3. CASE con' = [con EXCEPT ![k] = Flushed(c)]
    <3>1. OpenShape(Flushed(c)) /\ Flushed(c).kind = c.kind
      BY <1>1, <2>1, <2>2, OpenShapes, KindKept
    <3> QED
      BY <1>2, <1>5, <2>3, <3>1, UpdateShape DEF HandleConWrite
  <2>4. ASSUME NEW n \in 1..MaxOut, n < c.out, con' = [con EXCEPT ![k].out = @ - n]
        PROVE  QueuedKinds' /\ \A j \in Keys: Shape(j)'
    <3> DEFINE d == [c EXCEPT !.out = @ - n]
    <3>1. n \in Nat \ {0}
      OBVIOUS
    <3>2. OpenShape(d) /\ d.kind = c.kind
      BY <1>1, <2>1, <2>4, <3>1, OpenShapes DEF Connection
    <3>3. con' = [con EXCEPT ![k] = d]
      BY <2>4
    <3> HIDE DEF d
    <3> QED
      BY <1>2, <1>5, <3>2, <3>3, UpdateShape DEF HandleConWrite
  <2> QED
    BY <1>5, <2>3, <2>4 DEF HandleConWrite
<1>6. CASE HandleConnectWrite(k)
  <2>1. TryShape(c) /\ c.state = "CONNECTING"
    BY <1>3, <1>6 DEF HandleConnectWrite, Polled, ListenShape, TryShape, OpenShape
  <2>2. OpenShape(Connected(c)) /\ Connected(c).kind = c.kind
    BY <1>1, <2>1, TryingShape, KindKept
  <2> QED
    BY <1>2, <1>6, <2>2, UpdateShape DEF HandleConnectWrite
<1>7. CASE HandleConnectFailed(k)
  <2>1. TryShape(c) /\ c.state = "CONNECTING"
    BY <1>3, <1>7 DEF HandleConnectFailed, Polled, ListenShape, TryShape, OpenShape
  <2>2. TryShape(ConnectFailed(c)) /\ ConnectFailed(c).kind = c.kind
    BY <1>1, <2>1, TryingShape, KindKept
  <2> QED
    BY <1>2, <1>7, <2>2, UpdateShape DEF HandleConnectFailed
<1> QED
  BY <1>4, <1>5, <1>6, <1>7

LEMMA TimersShape ==
  ASSUME ShapeInv, NEW k \in Keys, ReconnectTimer(k) \/ ForceTimer(k) \/ Recycle(k)
  PROVE  QueuedKinds' /\ \A j \in Keys: Shape(j)'
<1> DEFINE c == con[k]
<1>1. /\ HolderInv /\ con \in [Keys -> Connection] /\ c \in Connection
      /\ UNCHANGED <<queue, used>> /\ 0 \in Nat /\ TRUE \in BOOLEAN
  BY DEF ShapeInv, HolderInv, TypeInv, TypeOK, ReconnectTimer, ForceTimer, Recycle
<1>2. Unborn(k) => c.reconnect = 0 /\ c.force = 0
  BY DEF ShapeInv, Shape, UnbornShape, Fresh
<1>3. /\ Live(k) => ListenShape(c) \/ TryShape(c) \/ OpenShape(c)
      /\ ~Live(k) => GoneShape(c)
  BY DEF ShapeInv, Shape
<1>4. CASE ReconnectTimer(k)
  <2> DEFINE d == [c EXCEPT !.reconnect = @ - 1]
  <2>1. ~Unborn(k) /\ c.reconnect > 0
    BY <1>1, <1>2, <1>4 DEF ReconnectTimer
  <2>2. CASE ~Live(k) /\ con' = [con EXCEPT ![k] = d]
    <3>1. GoneShape(d) /\ d.kind = c.kind
      BY <1>1, <1>3, <2>2, GoneShapes DEF Connection
    <3> HIDE DEF d
    <3> QED
      BY <1>1, <1>4, <2>1, <2>2, <3>1, UpdateShape DEF ReconnectTimer
  <2>3. ASSUME NEW created \in BOOLEAN, Live(k), con' = [con EXCEPT ![k] = Retrying(d, created)]
        PROVE  QueuedKinds' /\ \A j \in Keys: Shape(j)'
    <3>1. TryShape(c) /\ c.state = "DISCONNECTED"
      BY <1>3, <2>1, <2>3 DEF ListenShape, TryShape, OpenShape
    <3>2. TryShape(Retrying(d, created))
      BY <1>1, <3>1, TryingShape
    <3>3. Retrying(d, created).kind = c.kind
      BY <1>1 DEF Retrying, RegisterConnecting, Interest, Connection
    <3> HIDE DEF d
    <3> QED
      BY <1>1, <1>4, <2>1, <2>3, <3>2, <3>3, UpdateShape DEF ReconnectTimer
  <2> QED
    BY <1>4, <2>2, <2>3 DEF ReconnectTimer
<1>5. CASE ForceTimer(k)
  <2> DEFINE d == [c EXCEPT !.force = @ - 1]
  <2>1. ~Unborn(k) /\ c.force > 0 /\ c.force - 1 \in Nat
    BY <1>1, <1>2, <1>5 DEF ForceTimer, Connection
  <2>2. d \in Connection /\ d.kind = c.kind
    BY <1>1, <2>1 DEF Connection
  <2>3. CASE ~Live(k) /\ con' = [con EXCEPT ![k] = d] /\ UNCHANGED <<objects, ghosts>>
    <3>1. GoneShape(d)
      BY <1>1, <1>3, <2>3, GoneShapes
    <3> HIDE DEF d
    <3> QED
      BY <1>1, <1>5, <2>1, <2>2, <2>3, <3>1, UpdateShape DEF ForceTimer
  <2>4. CASE Live(k) /\ Remove(k, d)
    <3>1. OpenShape(c) /\ c.state = "DISCONNECTING"
      BY <1>3, <2>1, <2>4 DEF ListenShape, TryShape, OpenShape
    <3>2. GoneShape(Removed(d))
      BY <1>1, <3>1, OpenShapes
    <3>3. \A j \in Keys: Pending(j)' => Pending(j)
      BY <1>1 DEF Pending
    <3> HIDE DEF d
    <3> QED
      BY <1>1, <1>5, <2>2, <2>4, <3>2, <3>3, RemoveShape DEF ForceTimer
  <2> QED
    BY <1>5, <2>3, <2>4 DEF ForceTimer
<1>6. CASE Recycle(k)
  <2>1. ~Live(k) /\ ~Unborn(k)
    BY <1>1, <1>6 DEF Recycle, HolderInv, TypeInv, TypeOK, GhostsApart, Unborn
  <2>2. GoneShape(Recycled(c)) /\ Recycled(c).kind = c.kind
    BY <1>1, <1>3, <2>1, GoneShapes, KindKept
  <2> QED
    BY <1>1, <1>6, <2>1, <2>2, UpdateShape DEF Recycle
<1> QED
  BY <1>4, <1>5, <1>6

LEMMA ShapeInvStep == ShapeInv /\ [Next]_vars => ShapeInv'
<1> SUFFICES ASSUME ShapeInv, [Next]_vars
             PROVE  ShapeInv'
  OBVIOUS
<1>1. HolderInv'
  BY HolderInvStep DEF ShapeInv
<1>2. QueuedKinds' /\ \A j \in Keys: Shape(j)'
  <2>1. CASE Engine
    BY <2>1, EngineShape DEF Engine
  <2>2. CASE Dispatch
    BY <2>2, DispatchShape DEF Dispatch
  <2>3. CASE Poll
    BY <2>3, AcceptShape, PollShape DEF Poll
  <2>4. CASE Timers
    BY <2>4, TimersShape DEF Timers
  <2>5. CASE UNCHANGED vars
    BY <2>5 DEF vars, ShapeInv, QueuedKinds, Shape, Unborn, Pending, Live
  <2> QED
    BY <2>1, <2>2, <2>3, <2>4, <2>5 DEF Next
<1> QED
  BY <1>1, <1>2 DEF ShapeInv

LEMMA ShapeInvInit == Init => ShapeInv
<1> SUFFICES ASSUME Init
             PROVE  ShapeInv
  OBVIOUS
<1>1. HolderInv
  BY HolderInvInit
<1>2. \A k \in Keys: ~Live(k) /\ con[k] = Fresh
  BY DEF Init, Live
<1>3. \A k \in Keys: Shape(k)
  BY <1>2 DEF Shape, GoneShape, UnbornShape, Fresh
<1>4. QueuedKinds
  BY DEF Init, QueuedKinds
<1> QED
  BY <1>1, <1>3, <1>4 DEF ShapeInv

LEMMA ShapeInvHolds == Spec => []ShapeInv
BY ShapeInvInit, ShapeInvStep, PTL DEF Spec

-------------------------------------------------------------------------------
(* What the shapes mean. *)

(* An open connection's write interest, its _isWriting flag and its out    *)
(* buffer agree in every reachable state, so the toggle that deregisters   *)
(* the write handler always goes the intended way.                         *)
THEOREM WriteInterestKept == Spec => []WriteInterestTracksBuffer
<1>1. ShapeInv => WriteInterestTracksBuffer
  BY DEF ShapeInv, Shape, ListenShape, TryShape, OpenShape, WriteInterestTracksBuffer
<1> QED
  BY <1>1, ShapeInvHolds, PTL

(* The FIN of a graceful close leaves after the last buffered byte. *)
THEOREM FinLast == Spec => []FinAfterOutput
<1>1. ShapeInv => FinAfterOutput
  BY DEF ShapeInv, Shape, ListenShape, TryShape, OpenShape, FinAfterOutput
<1> QED
  BY <1>1, ShapeInvHolds, PTL

(* The number of timers a connection has running is what its state calls   *)
(* for, so that the asserts of the timers' callbacks hold.                 *)
THEOREM TimersMatch == Spec => []TimersMatchState
<1>1. ShapeInv => TimersMatchState
  BY DEF ShapeInv, Shape, ListenShape, TryShape, OpenShape, TimersMatchState
<1> QED
  BY <1>1, ShapeInvHolds, PTL

(* The owner of a key is never left believing that a closed connection is  *)
(* up, nor kept in the dark about one that is.                             *)
THEOREM OwnersKnow == Spec => []ToldUpWhileOpen
<1>1. ShapeInv => ToldUpWhileOpen
  BY DEF ShapeInv, Shape, ListenShape, TryShape, OpenShape, GoneShape, ToldUpWhileOpen
<1> QED
  BY <1>1, ShapeInvHolds, PTL

-------------------------------------------------------------------------------
(* CNetwork keeps the promises of ConnectionLife: what a step does to one  *)
(* key is one of its actions, or leaves what it sees as it was.            *)

LifeMove(k) ==
  LET c == con[k]
      d == con'[k]
      trying == c.told = "idle" \/ (c.told = "failed" /\ Live(k))
  IN \/ d.told = c.told /\ d.reports = c.reports /\ (Live(k)' <=> Live(k))
     \/ c.told = "idle" /\ d.told = c.told /\ d.reports = c.reports /\ Live(k)'
     \/ trying /\ d.told = "failed" /\ d.reports = c.reports /\ (Live(k)' => Live(k))
     \/ trying /\ d.told = "up" /\ d.reports = c.reports + 1 /\ Live(k)'
     \/ /\ c.told = "up" /\ d.told = "ended" /\ d.reports = c.reports + 1
        /\ Live(k)' => Live(k)
     \/ c.told = "ended" /\ d.told = c.told /\ d.reports = c.reports /\ ~Live(k)'

LEMMA LifeStep ==
  ASSUME NEW k \in Keys, LifeMove(k), con \in [Keys -> Connection],
         NEW d, con' = [con EXCEPT ![k] = d],
         \A j \in Keys: j # k => (Live(j)' <=> Live(j))
  PROVE  [Life!Next]_(Life!vars)
<1> DEFINE life == [j \in Keys |-> con[j].told]
           reports == [j \in Keys |-> con[j].reports]
           live == {j \in Keys: Live(j)}
<1>1. \A j \in Keys: j # k => con'[j] = con[j]
  OBVIOUS
<1>2. /\ life' = [life EXCEPT ![k] = con'[k].told]
      /\ reports' = [reports EXCEPT ![k] = con'[k].reports]
  BY <1>1
<1>3. /\ Live(k)' <=> Live(k) => live' = live
      /\ Live(k)' => live' = live \union {k}
      /\ ~Live(k)' => live' = live \ {k}
  OBVIOUS
<1>4. /\ con'[k].told = con[k].told => life' = life
      /\ con'[k].reports = con[k].reports => reports' = reports
      /\ con'[k].reports = con[k].reports + 1 =>
           reports' = [reports EXCEPT ![k] = @ + 1]
  BY <1>1, <1>2
<1> HIDE DEF life, reports, live
<1>5. life[k] = con[k].told /\ (k \in live <=> Live(k))
  BY DEF life, live
<1>6. CASE /\ con'[k].told = con[k].told /\ con'[k].reports = con[k].reports
           /\ Live(k)' <=> Live(k)
  BY <1>3, <1>4, <1>6 DEF Life!vars, life, reports, live
<1>7. CASE /\ con[k].told = "idle" /\ con'[k].told = con[k].told
           /\ con'[k].reports = con[k].reports /\ Live(k)'
  <2>1. life[k] = "idle" /\ live' = live \union {k} /\ life' = life /\ reports' = reports
    BY <1>3, <1>4, <1>5, <1>7
  <2>2. Life!Attempt(k)
    BY <2>1 DEF Life!Attempt, life, reports, live
  <2> QED
    BY <2>2 DEF Life!Next
<1>8. CASE /\ con[k].told = "idle" \/ (con[k].told = "failed" /\ Live(k))
           /\ con'[k].told = "failed" /\ con'[k].reports = con[k].reports
           /\ Live(k)' => Live(k)
  <2>1. /\ life[k] = "idle" \/ (life[k] = "failed" /\ k \in live)
        /\ life' = [life EXCEPT ![k] = "failed"] /\ reports' = reports
        /\ live' \in {live, live \ {k}}
    BY <1>2, <1>3, <1>4, <1>5, <1>8
  <2>2. Life!Fail(k)
    BY <2>1 DEF Life!Fail, Life!Trying, life, reports, live
  <2> QED
    BY <2>2 DEF Life!Next
<1>9. CASE /\ con[k].told = "idle" \/ (con[k].told = "failed" /\ Live(k))
           /\ con'[k].told = "up" /\ con'[k].reports = con[k].reports + 1 /\ Live(k)'
  <2>1. /\ life[k] = "idle" \/ (life[k] = "failed" /\ k \in live)
        /\ life' = [life EXCEPT ![k] = "up"]
        /\ reports' = [reports EXCEPT ![k] = @ + 1]
        /\ live' = live \union {k}
    BY <1>2, <1>3, <1>4, <1>5, <1>9
  <2>2. Life!Up(k)
    BY <2>1 DEF Life!Up, Life!Report, Life!Trying, life, reports, live
  <2> QED
    BY <2>2 DEF Life!Next
<1>10. CASE /\ con[k].told = "up" /\ con'[k].told = "ended"
            /\ con'[k].reports = con[k].reports + 1 /\ (Live(k)' => Live(k))
  <2>1. /\ life[k] = "up"
        /\ life' = [life EXCEPT ![k] = "ended"]
        /\ reports' = [reports EXCEPT ![k] = @ + 1]
        /\ live' \in {live, live \ {k}}
    BY <1>2, <1>3, <1>4, <1>5, <1>10
  <2>2. Life!Down(k)
    BY <2>1 DEF Life!Down, Life!Report, life, reports, live
  <2> QED
    BY <2>2 DEF Life!Next
<1>11. CASE /\ con[k].told = "ended" /\ con'[k].told = con[k].told
            /\ con'[k].reports = con[k].reports /\ ~Live(k)'
  <2>1. /\ life[k] = "ended" /\ life' = life /\ reports' = reports
        /\ live' = live \ {k}
    BY <1>3, <1>4, <1>5, <1>11
  <2>2. Life!Drained(k)
    BY <2>1 DEF Life!Drained, life, reports, live
  <2> QED
    BY <2>2 DEF Life!Next
<1> QED
  BY <1>6, <1>7, <1>8, <1>9, <1>10, <1>11 DEF LifeMove

(* What each piece of a handler tells the owner. *)
LEMMA WhatIsTold ==
  ASSUME NEW c \in Connection, NEW created \in BOOLEAN, NEW rest \in Nat
  PROVE  /\ \A d \in {Listening(c), Accepted(c), Connected(c)}:
               d.told = "up" /\ d.reports = c.reports + 1
         /\ \A d \in {Connecting(c, created), Retrying(c, created), Buffered(c, rest),
                      Flushed(c), Draining(c), Removed(c), Recycled(c)}:
               d.told = c.told /\ d.reports = c.reports
         /\ ConnectFailed(c).told = "failed" /\ ConnectFailed(c).reports = c.reports
<1>1. \A d \in {Listening(c), Accepted(c), Connected(c)}:
        d.told = "up" /\ d.reports = c.reports + 1
  <2>1. Listening(c).told = "up" /\ Listening(c).reports = c.reports + 1
    BY DEF Listening, RegisterRead, Interest, Tell, Connection
  <2>2. Accepted(c).told = "up" /\ Accepted(c).reports = c.reports + 1
    BY DEF Accepted, RegisterRead, Interest, Tell, Connection
  <2>3. Connected(c).told = "up" /\ Connected(c).reports = c.reports + 1
    BY DEF Connected, RegisterRead, Deregister, Interest, Tell, Connection
  <2> QED
    BY <2>1, <2>2, <2>3
<1>2. /\ \A d \in {Connecting(c, created), Retrying(c, created), Draining(c),
                   Removed(c), Recycled(c)}:
           d.told = c.told /\ d.reports = c.reports
      /\ ConnectFailed(c).told = "failed" /\ ConnectFailed(c).reports = c.reports
  BY DEF Connecting, Retrying, RegisterConnecting, ConnectFailed, Draining, Removed,
         Recycled, Deregister, Interest, Connection
<1>3. \A d \in {Buffered(c, rest), Flushed(c)}: d.told = c.told /\ d.reports = c.reports
  <2>1. Buffered(c, rest).told = c.told /\ Buffered(c, rest).reports = c.reports
    BY DEF Buffered, DeregisterWrite, Interest, Connection
  <2>2. Flushed(c).told = c.told /\ Flushed(c).reports = c.reports
    BY DEF Flushed, DeregisterWrite, Interest, Connection
  <2> QED
    BY <2>1, <2>2
<1> QED
  BY <1>1, <1>2, <1>3

(* Removal from the table, of a connection whose owner was told d.told. *)
LEMMA RemoveLife ==
  ASSUME ShapeInv, NEW k \in Keys, Live(k), NEW d \in Connection, Remove(k, d),
         \/ /\ con[k].told \in {"idle", "failed"}
            /\ d.told = "failed" /\ d.reports = con[k].reports
         \/ con[k].told = "up" /\ d.told = "ended" /\ d.reports = con[k].reports + 1
         \/ con[k].told = "ended" /\ d.told = "ended" /\ d.reports = con[k].reports
  PROVE  [Life!Next]_(Life!vars)
<1>1. TypeInv /\ con \in [Keys -> Connection] /\ TRUE \in BOOLEAN /\ 0 \in Nat
  BY DEF ShapeInv, HolderInv, TypeInv, TypeOK
<1>2. ~Live(k)' /\ \A j \in Keys: j # k => (Live(j)' <=> Live(j))
  BY <1>1, RemoveLiveOnly DEF Remove
<1>3. /\ con' = [con EXCEPT ![k] = Removed(d)]
      /\ con'[k].told = d.told /\ con'[k].reports = d.reports
  BY <1>1, WhatIsTold DEF Remove
<1>4. LifeMove(k)
  BY <1>2, <1>3 DEF LifeMove
<1> QED
  BY <1>1, <1>2, <1>3, <1>4, LifeStep

(* An update of an object that stays in the table, or out of it. *)
LEMMA UpdateLife ==
  ASSUME ShapeInv, NEW k \in Keys, UNCHANGED objects,
         NEW d, con' = [con EXCEPT ![k] = d],
         \/ d.told = con[k].told /\ d.reports = con[k].reports
         \/ /\ con[k].told = "idle" \/ (con[k].told = "failed" /\ Live(k))
            /\ \/ d.told = "failed" /\ d.reports = con[k].reports
               \/ d.told = "up" /\ d.reports = con[k].reports + 1 /\ Live(k)
         \/ con[k].told = "up" /\ d.told = "ended" /\ d.reports = con[k].reports + 1
  PROVE  [Life!Next]_(Life!vars)
<1>1. con \in [Keys -> Connection] /\ con'[k] = d
  BY DEF ShapeInv, HolderInv, TypeInv, TypeOK
<1>2. \A j \in Keys: Live(j)' <=> Live(j)
  BY DEF Live
<1>3. LifeMove(k)
  BY <1>1, <1>2 DEF LifeMove
<1> QED
  BY <1>1, <1>2, <1>3, LifeStep

LEMMA CloseConLife ==
  ASSUME ShapeInv, NEW k \in Keys, Live(k), NEW force \in BOOLEAN, CloseCon(k, force)
  PROVE  [Life!Next]_(Life!vars)
<1> DEFINE c == con[k]
<1>1. c \in Connection /\ TRUE \in BOOLEAN /\ 0 \in Nat
  BY DEF ShapeInv, HolderInv, TypeInv, TypeOK
<1>2. ListenShape(c) \/ TryShape(c) \/ OpenShape(c)
  BY DEF ShapeInv, Shape
<1>3. CASE /\ c.kind = "connector" /\ c.state \in {"DISCONNECTED", "CONNECTING"}
           /\ Remove(k, [c EXCEPT !.told = "failed"])
  <2> DEFINE d == [c EXCEPT !.told = "failed"]
  <2>1. TryShape(c)
    BY <1>2, <1>3 DEF ListenShape, OpenShape
  <2>2. d \in Connection /\ d.told = "failed" /\ d.reports = c.reports
    BY <1>1 DEF Connection
  <2>3. c.told \in {"idle", "failed"}
    BY <2>1 DEF TryShape
  <2> HIDE DEF d
  <2>4. Remove(k, d)
    BY <1>3 DEF d
  <2> QED
    BY <2>2, <2>3, <2>4, RemoveLife
<1>4. ASSUME c.kind \in {"session", "connector"},
             c.kind = "session" \/ c.state \in {"CONNECTED", "DISCONNECTING"}
      PROVE  \/ /\ c.state = "CONNECTED" /\ c.told = "up"
                /\ Ended(c).told = "ended" /\ Ended(c).reports = c.reports + 1
             \/ /\ c.state = "DISCONNECTING" /\ c.told = "ended" /\ Ended(c) = c
  <2>1. OpenShape(c)
    BY <1>2, <1>4 DEF ListenShape, TryShape
  <2> QED
    BY <1>1, <2>1 DEF OpenShape, Ended, Tell, Connection
<1>5. ASSUME c.kind \in {"session", "connector"},
             c.kind = "session" \/ c.state \in {"CONNECTED", "DISCONNECTING"},
             Remove(k, Ended(c))
      PROVE  [Life!Next]_(Life!vars)
  <2>1. Ended(c) \in Connection
    BY <1>1, OpenType
  <2> QED
    BY <1>4, <1>5, <2>1, RemoveLife
<1>6. ASSUME c.kind \in {"session", "connector"},
             c.kind = "session" \/ c.state \in {"CONNECTED", "DISCONNECTING"},
             con' = [con EXCEPT ![k] =
                       IF c.state = "DISCONNECTING" THEN c ELSE Draining(Ended(c))],
             UNCHANGED objects
      PROVE  [Life!Next]_(Life!vars)
  <2> DEFINE d == IF c.state = "DISCONNECTING" THEN c ELSE Draining(Ended(c))
  <2>1. Ended(c) \in Connection
    BY <1>1, OpenType
  <2>2. Draining(Ended(c)).told = Ended(c).told /\ Draining(Ended(c)).reports = Ended(c).reports
    BY <1>1, <2>1, WhatIsTold
  <2>3. \/ d.told = c.told /\ d.reports = c.reports
        \/ c.told = "up" /\ d.told = "ended" /\ d.reports = c.reports + 1
    BY <1>4, <1>6, <2>2
  <2>4. con' = [con EXCEPT ![k] = d]
    BY <1>6
  <2> HIDE DEF d
  <2> QED
    BY <1>6, <2>3, <2>4, UpdateLife
<1> QED
  BY <1>3, <1>5, <1>6 DEF CloseCon

LEMMA SameLife ==
  ASSUME UNCHANGED objects,
         \A j \in Keys: con'[j].told = con[j].told /\ con'[j].reports = con[j].reports
  PROVE  UNCHANGED Life!vars
BY DEF Life!vars, Live

LEMMA DispatchLife ==
  ASSUME ShapeInv, NEW k \in Keys,
         ProcessListen(k) \/ ProcessConnect(k) \/ ProcessClose(k) \/ ProcessData(k)
  PROVE  [Life!Next]_(Life!vars)
<1> DEFINE c == con[k]
<1>1. /\ HolderInv /\ TypeInv /\ con \in [Keys -> Connection] /\ c \in Connection
      /\ TRUE \in BOOLEAN /\ FALSE \in BOOLEAN /\ 0 \in Nat
  BY DEF ShapeInv, HolderInv, TypeInv, TypeOK
<1>2. CASE UNCHANGED <<objects, con>>
  BY <1>2, SameLife
<1>3. ASSUME Pending(k)
      PROVE  c.told = "idle" /\ objects[SlotOf[k]] = NoKey
  BY <1>1, <1>3, FreeSlot DEF ShapeInv, Shape, Unborn, UnbornShape, Fresh
<1>4. ASSUME Pending(k), NEW d \in Connection, con' = [con EXCEPT ![k] = d], AddObject(k),
             \/ d.told = "up" /\ d.reports = c.reports + 1
             \/ d.told = c.told /\ d.reports = c.reports
      PROVE  [Life!Next]_(Life!vars)
  <2>1. Live(k)' /\ \A j \in Keys: j # k => (Live(j)' <=> Live(j))
    BY <1>1, <1>3, <1>4, AddLiveOnly
  <2>2. con'[k] = d
    BY <1>1, <1>4
  <2>3. LifeMove(k)
    BY <1>3, <1>4, <2>1, <2>2 DEF LifeMove
  <2> QED
    BY <1>1, <1>4, <2>1, <2>3, LifeStep
<1>5. CASE ProcessListen(k)
  <2>1. Pending(k)
    BY <1>1, <1>5, TakePending DEF ProcessListen
  <2>2. /\ Listening(c) \in Connection
        /\ Listening(c).told = "up" /\ Listening(c).reports = c.reports + 1
    BY <1>1, OpeningType, WhatIsTold
  <2> DEFINE f == [c EXCEPT !.told = "failed"]
  <2>3. f.told = "failed" /\ f.reports = c.reports
    BY <1>1 DEF Connection
  <2>4. CASE con' = [con EXCEPT ![k] = f] /\ UNCHANGED objects
    <3> HIDE DEF f
    <3> QED
      BY <1>3, <2>1, <2>3, <2>4, UpdateLife
  <2>5. CASE con' = [con EXCEPT ![k] = Listening(c)] /\ AddObject(k)
    BY <1>4, <2>1, <2>2, <2>5
  <2> QED
    BY <1>5, <2>4, <2>5 DEF ProcessListen
<1>6. CASE ProcessConnect(k)
  <2>1. Pending(k)
    BY <1>1, <1>6, TakePending DEF ProcessConnect
  <2>2. PICK created \in BOOLEAN: con' = [con EXCEPT ![k] = Connecting(c, created)]
    BY <1>6 DEF ProcessConnect
  <2>3. /\ Connecting(c, created) \in Connection
        /\ Connecting(c, created).told = c.told /\ Connecting(c, created).reports = c.reports
    BY <1>1, OpeningType, WhatIsTold
  <2> QED
    BY <1>4, <1>6, <2>1, <2>2, <2>3 DEF ProcessConnect
<1>7. CASE ProcessClose(k)
  <2>1. CASE Live(k) /\ CloseListen(k)
    <3>1. ListenShape(c)
      BY <2>1 DEF CloseListen, ShapeInv, Shape, TryShape, OpenShape
    <3>2. /\ c.told = "up" /\ Tell(c, "ended") \in Connection
          /\ Tell(c, "ended").told = "ended" /\ Tell(c, "ended").reports = c.reports + 1
      BY <1>1, <3>1, TellType DEF ListenShape, Tell, Connection
    <3> QED
      BY <2>1, <3>2, RemoveLife DEF CloseListen
  <2>2. CASE Live(k) /\ CloseCon(k, FALSE)
    BY <1>1, <2>2, CloseConLife
  <2> QED
    BY <1>2, <1>7, <2>1, <2>2 DEF ProcessClose
<1>8. CASE ProcessData(k)
  <2>1. ASSUME NEW rest \in 1..MaxOut, con' = [con EXCEPT ![k] = Buffered(c, rest)],
               UNCHANGED objects
        PROVE  [Life!Next]_(Life!vars)
    <3>1. rest \in Nat
      OBVIOUS
    <3>2. Buffered(c, rest).told = c.told /\ Buffered(c, rest).reports = c.reports
      BY <1>1, <3>1, WhatIsTold
    <3> QED
      BY <2>1, <3>2, UpdateLife
  <2>2. CASE Live(k) /\ CloseCon(k, TRUE)
    BY <1>1, <2>2, CloseConLife
  <2> QED
    BY <1>2, <1>8, <2>1, <2>2 DEF ProcessData
<1> QED
  BY <1>5, <1>6, <1>7, <1>8

LEMMA PollLife ==
  ASSUME ShapeInv, Poll
  PROVE  [Life!Next]_(Life!vars)
<1>1. /\ HolderInv /\ TypeInv /\ con \in [Keys -> Connection]
      /\ TRUE \in BOOLEAN /\ 0 \in Nat
  BY DEF ShapeInv, HolderInv, TypeInv, TypeOK
<1>2. ASSUME NEW l \in Keys, NEW k \in Keys, HandleAccept(l, k)
      PROVE  [Life!Next]_(Life!vars)
  <2>1. con[k].told = "idle" /\ objects[SlotOf[k]] = NoKey
    BY <1>1, <1>2, FreeSlot
    DEF HandleAccept, PopKey, ShapeInv, Shape, Unborn, UnbornShape, Fresh
  <2>2. Live(k)' /\ \A j \in Keys: j # k => (Live(j)' <=> Live(j))
    BY <1>1, <1>2, <2>1, AddLiveOnly DEF HandleAccept
  <2>3. /\ con' = [con EXCEPT ![k] = Accepted(con[k])]
        /\ con'[k].told = "up" /\ con'[k].reports = con[k].reports + 1
    BY <1>1, <1>2, WhatIsTold DEF HandleAccept
  <2>4. LifeMove(k)
    BY <2>1, <2>2, <2>3 DEF LifeMove
  <2> QED
    BY <1>1, <2>2, <2>3, <2>4, LifeStep
<1>3. ASSUME NEW k \in Keys, HandleConLost(k)
      PROVE  [Life!Next]_(Life!vars)
  BY <1>1, <1>3, CloseConLife DEF HandleConLost, Polled
<1>4. ASSUME NEW k \in Keys, HandleConWrite(k)
      PROVE  [Life!Next]_(Life!vars)
  <2>1. Flushed(con[k]).told = con[k].told /\ Flushed(con[k]).reports = con[k].reports
    BY <1>1, WhatIsTold
  <2>2. CASE con' = [con EXCEPT ![k] = Flushed(con[k])]
    BY <1>4, <2>1, <2>2, UpdateLife DEF HandleConWrite
  <2>3. ASSUME NEW n \in 1..MaxOut, con' = [con EXCEPT ![k].out = @ - n]
        PROVE  [Life!Next]_(Life!vars)
    <3>1. \A j \in Keys: con'[j].told = con[j].told /\ con'[j].reports = con[j].reports
      BY <1>1, <2>3 DEF Connection
    <3> QED
      BY <1>4, <3>1, SameLife DEF HandleConWrite
  <2> QED
    BY <1>4, <2>2, <2>3 DEF HandleConWrite
<1>5. ASSUME NEW k \in Keys, HandleConnectWrite(k) \/ HandleConnectFailed(k)
      PROVE  [Life!Next]_(Life!vars)
  <2>1. Live(k) /\ con[k].told \in {"idle", "failed"} /\ UNCHANGED objects
    BY <1>5 DEF HandleConnectWrite, HandleConnectFailed, Polled, ShapeInv, Shape,
                ListenShape, TryShape, OpenShape
  <2>2. /\ Connected(con[k]).told = "up" /\ Connected(con[k]).reports = con[k].reports + 1
        /\ ConnectFailed(con[k]).told = "failed"
        /\ ConnectFailed(con[k]).reports = con[k].reports
    BY <1>1, WhatIsTold
  <2>3. \/ con' = [con EXCEPT ![k] = Connected(con[k])]
        \/ con' = [con EXCEPT ![k] = ConnectFailed(con[k])]
    BY <1>5 DEF HandleConnectWrite, HandleConnectFailed
  <2> QED
    BY <2>1, <2>2, <2>3, UpdateLife
<1> QED
  BY <1>2, <1>3, <1>4, <1>5 DEF Poll

LEMMA TimersLife ==
  ASSUME ShapeInv, NEW k \in Keys, ReconnectTimer(k) \/ ForceTimer(k) \/ Recycle(k)
  PROVE  [Life!Next]_(Life!vars)
<1> DEFINE c == con[k]
<1>1. /\ HolderInv /\ TypeInv /\ con \in [Keys -> Connection] /\ c \in Connection /\ TRUE \in BOOLEAN /\ 0 \in Nat
  BY DEF ShapeInv, HolderInv, TypeInv, TypeOK
<1>2. CASE ReconnectTimer(k)
  <2> DEFINE d == [c EXCEPT !.reconnect = @ - 1]
  <2>1. d \in Connection /\ d.told = c.told /\ d.reports = c.reports
    <3>1. c.reconnect - 1 \in Nat
      BY <1>1, <1>2 DEF ReconnectTimer, Connection
    <3> QED
      BY <1>1, <3>1 DEF Connection
  <2>2. \A created \in BOOLEAN: /\ Retrying(d, created).told = c.told
                                /\ Retrying(d, created).reports = c.reports
    BY <1>1, <2>1, WhatIsTold
  <2>3. PICK e : /\ con' = [con EXCEPT ![k] = e]
                 /\ e = d \/ \E created \in BOOLEAN: e = Retrying(d, created)
    BY <1>2 DEF ReconnectTimer
  <2> HIDE DEF d
  <2> QED
    BY <1>2, <2>1, <2>2, <2>3, UpdateLife DEF ReconnectTimer
<1>3. CASE ForceTimer(k)
  <2> DEFINE d == [c EXCEPT !.force = @ - 1]
  <2>1. d \in Connection /\ d.told = c.told /\ d.reports = c.reports
    <3>1. c.force - 1 \in Nat
      BY <1>1, <1>3 DEF ForceTimer, Connection
    <3> QED
      BY <1>1, <3>1 DEF Connection
  <2>2. \/ con' = [con EXCEPT ![k] = d] /\ UNCHANGED objects
        \/ Live(k) /\ Remove(k, d)
    BY <1>3 DEF ForceTimer
  <2>3. Live(k) => c.told = "ended"
    BY <1>3 DEF ForceTimer, ShapeInv, Shape, ListenShape, TryShape, OpenShape
  <2> HIDE DEF d
  <2> QED
    BY <2>1, <2>2, <2>3, UpdateLife, RemoveLife
<1>4. CASE Recycle(k)
  <2>1. Recycled(c).told = c.told /\ Recycled(c).reports = c.reports
    BY <1>1, WhatIsTold
  <2> QED
    BY <1>4, <2>1, UpdateLife DEF Recycle
<1> QED
  BY <1>2, <1>3, <1>4

LEMMA EngineLife ==
  ASSUME ShapeInv, NEW k \in Keys,
         Listen(k) \/ Connect(k) \/ Close(k) \/ Send(k) \/ Release(k)
  PROVE  [Life!Next]_(Life!vars)
<1>1. con \in [Keys -> Connection]
  BY DEF ShapeInv, HolderInv, TypeInv, TypeOK
<1>2. CASE Listen(k) \/ Connect(k)
  <2>1. PICK kind : con' = [con EXCEPT ![k].kind = kind]
    BY <1>2 DEF Listen, Connect
  <2>2. \A j \in Keys: con'[j].told = con[j].told /\ con'[j].reports = con[j].reports
    BY <1>1, <2>1 DEF Connection
  <2> QED
    BY <1>2, <2>2, SameLife DEF Listen, Connect
<1>3. CASE Close(k) \/ Send(k) \/ Release(k)
  BY <1>3, SameLife DEF Close, Send, Release
<1> QED
  BY <1>2, <1>3

(* CNetwork implements ConnectionLife: the owner of a key hears at most    *)
(* one "up" and, after it, exactly one end, and never of a removed key.    *)
THEOREM KeepsLife == Spec => LifeSpec
<1>1. Init => Life!Init
  BY DEF Init, Life!Init, Fresh, Live
<1>2. ShapeInv /\ [Next]_vars => [Life!Next]_(Life!vars)
  <2> SUFFICES ASSUME ShapeInv, [Next]_vars
               PROVE  [Life!Next]_(Life!vars)
    OBVIOUS
  <2>1. CASE Engine
    BY <2>1, EngineLife DEF Engine
  <2>2. CASE Dispatch
    BY <2>2, DispatchLife DEF Dispatch
  <2>3. CASE Poll
    BY <2>3, PollLife
  <2>4. CASE Timers
    BY <2>4, TimersLife DEF Timers
  <2>5. CASE UNCHANGED vars
    BY <2>5 DEF vars, Life!vars, Live
  <2> QED
    BY <2>1, <2>2, <2>3, <2>4, <2>5 DEF Next
<1> QED
  BY <1>1, <1>2, ShapeInvHolds, PTL DEF Spec, LifeSpec, Life!Spec

===============================================================================

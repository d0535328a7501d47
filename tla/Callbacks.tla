------------------------------- MODULE Callbacks -------------------------------
(***************************************************************************)
(* The calls of IOEngine (engine/IOEngine.cpp): send gives a handler a     *)
(* callback id; the handler is called by the answer that carries the id or *)
(* when its time is over.  A handler is kept in a map by id and in a list  *)
(* in the order of the deadlines.                                          *)
(*                                                                         *)
(* One engine thread does it all, but a handler may send again while the   *)
(* loop over the list that called it has not ended.  The peers, which      *)
(* answer late or never, and the clock go on meanwhile.                    *)
(*                                                                         *)
(* Which uids are available is the module Engine's; here they only go.     *)
(* Protocol::_callbacklist is written and never read, and left out.        *)
(***************************************************************************)
EXTENDS Naturals, Sequences, SequencesExt

CONSTANTS Handlers,  \* CallbackHandler objects
          NoHandler,
          Uids,      \* uids that were available once
          NoUid,     \* uid 0
          MaxId,     \* the last callback id: 0xffffffff
          Timeout,   \* _callbackTimeoutMs
          MaxClock,  \* bound on the time
          Kept       \* handlers that the application keeps a pointer to

ASSUME HandlersAssumption ==
  NoHandler \notin Handlers /\ "timeout" \notin Handlers /\ Kept \subseteq Handlers
ASSUME UidsAssumption == NoUid \notin Uids
ASSUME NumbersAssumption == MaxId \in Nat \ {0} /\ Timeout \in Nat /\ MaxClock \in Nat

VARIABLES available, \* uids in _protocols that are available
          handler,   \* _uid, _cbId, _toMs of each handler
          told,      \* what each handler was called with
          map,       \* _callbackHandlers
          list,      \* _callbackTimeOutList
          nextId,    \* _nextCallbackId
          calls,     \* calls on their way, not answered yet
          inbox,     \* _msgqueue: packets with a callback id and no command
          clock,
          sweep,     \* now in onTimerCallbackTimeout, or Idle outside of it
          state      \* running, aborted by an assert, crashed

engine == <<handler, told, map, list, nextId, sweep, state>>
vars == <<engine, available, calls, inbox, clock>>

Ids == 1..MaxId
Idle == MaxClock + 1

(* The answer to a call, or the error that stands for it; of is the        *)
(* handler of the call.                                                    *)
Answers == [uid: Uids \union {NoUid}, id: Ids, of: Handlers]

TypeOK ==
  /\ available \subseteq Uids
  /\ handler \in [Handlers -> [uid: Uids \union {NoUid}, id: 0..MaxId,
                               to: 0..MaxClock + Timeout]]
  /\ told \in [Handlers -> Seq({"timeout"} \union Handlers)]
  /\ map \in [Ids -> Handlers \union {NoHandler}]
  /\ list \in Seq({h \in Handlers: handler[h].id # 0})
  /\ nextId \in 0..MaxId
  /\ calls \subseteq Answers
  /\ inbox \in Seq(Answers)
  /\ clock \in 0..MaxClock
  /\ sweep \in 0..MaxClock \union {Idle}
  /\ state \in {"running", "aborted", "crashed"}

Init ==
  /\ available = Uids
  /\ handler = [h \in Handlers |-> [uid |-> NoUid, id |-> 0, to |-> 0]]
  /\ told = [h \in Handlers |-> <<>>]
  /\ map = [i \in Ids |-> NoHandler]
  /\ list = <<>> /\ nextId = 0
  /\ calls = {} /\ inbox = <<>>
  /\ clock = 0 /\ sweep = Idle /\ state = "running"

-------------------------------------------------------------------------------

NextId == IF nextId < MaxId THEN nextId + 1 ELSE 1

(* Faulty variant: the oldest handler is not looked at. *)
IdNeverTaken == FALSE

IdTaken == list # <<>> /\ handler[Head(list)].id = NextId

(* Faulty variant: with the id of the handler bound before. *)
BoundById(h, uid) ==
  /\ handler' = [handler EXCEPT ![h] = [uid |-> uid, id |-> nextId, to |-> clock + Timeout]]
  /\ map' = [map EXCEPT ![NextId] = h]
  /\ list' = Append(list, h)

Bound(h, uid) ==
  /\ handler' = [handler EXCEPT ![h] = [uid |-> uid, id |-> NextId, to |-> clock + Timeout]]
  /\ map' = [map EXCEPT ![NextId] = h]
  /\ list' = Append(list, h)

(* bindCallbackHandler; its assert(handler->_cbId == 0) is the caller's    *)
(* duty: a handler is given to send once.  The other assert may fail.      *)
Bind(h, uid) ==
  /\ handler[h].id = 0
  /\ nextId' = NextId
  /\ IF IdTaken THEN state' = "aborted" /\ UNCHANGED <<handler, map, list>>
     ELSE Bound(h, uid) /\ UNCHANGED state

Answer(h, uid) == [uid |-> uid, id |-> NextId, of |-> h]

(* send(handler, packet), to an available uid or, by its assert, to 0.  In *)
(* a loop over the list only a handler that was called can send.           *)
Send(h, uid) ==
  /\ state = "running" /\ clock + Timeout <= MaxClock
  /\ uid \in available \union {NoUid}
  /\ Bind(h, uid)
  /\ IF IdTaken THEN UNCHANGED <<calls, inbox>>
     ELSE IF uid = NoUid THEN inbox' = Append(inbox, Answer(h, uid)) /\ UNCHANGED calls
     ELSE calls' = calls \union {Answer(h, uid)} /\ UNCHANGED inbox
  /\ UNCHANGED <<available, told, clock, sweep>>

-------------------------------------------------------------------------------

Call(h, what) == told' = [told EXCEPT ![h] = Append(@, what)]

(* Faulty variant: the handler stays in the list. *)
LeaveMap(h) ==
  /\ map' = [map EXCEPT ![handler[h].id] = NoHandler]
  /\ UNCHANGED list

(* Out of the map and both lists, before the handler is called. *)
Leave(h) ==
  /\ map' = [map EXCEPT ![handler[h].id] = NoHandler]
  /\ list' = RemoveFirst(list, h)

(* Faulty variant: the handler is found by the caller's uid alone. *)
DispatchCallbackByUid(p) ==
  LET hs == {g \in Handlers: handler[g].uid = p.uid /\ Contains(list, g)} IN
  IF hs = {} THEN UNCHANGED <<told, map, list, state>>
  ELSE \E g \in hs: Call(g, p.of) /\ Leave(g) /\ UNCHANGED state

(* dispactchCallback, with its assert. *)
DispatchCallback(p) ==
  LET h == map[p.id] IN
  IF h = NoHandler THEN UNCHANGED <<told, map, list, state>>
  ELSE IF handler[h].uid # p.uid
  THEN state' = "aborted" /\ UNCHANGED <<told, map, list>>
  ELSE Call(h, p.of) /\ Leave(h) /\ UNCHANGED state

(* onIOPacket, for a packet with a callback id. *)
OnIOPacket ==
  /\ state = "running" /\ sweep = Idle /\ inbox # <<>>
  /\ inbox' = Tail(inbox)
  /\ IF Head(inbox).uid \in available THEN DispatchCallback(Head(inbox))
     ELSE UNCHANGED <<told, map, list, state>>
  /\ UNCHANGED <<handler, nextId, sweep, available, calls, clock>>

(* The map holds the only pointer to a handler that is not kept: taking it *)
(* out of the map destroys the handler that the next lines use.            *)
Expire(h) ==
  \/ Call(h, "timeout") /\ Leave(h) /\ UNCHANGED state
  \/ /\ h \notin Kept
     /\ state' = "crashed" /\ Leave(h) /\ UNCHANGED told

(* Faulty variant: a deadline that is reached is not over yet. *)
ExpiredLater(now) == list # <<>> /\ handler[Head(list)].to < now

Expired(now) == list # <<>> /\ handler[Head(list)].to <= now

(* Faulty variants: the handler of a connection that is gone is skipped;   *)
(* the entry of the map stays.                                             *)
SweepAvailable(now) ==
  /\ IF Expired(now) /\ handler[Head(list)].uid \in available
     THEN sweep' = now /\ Expire(Head(list))
     ELSE sweep' = Idle /\ UNCHANGED <<told, map, list, state>>
  /\ UNCHANGED <<handler, nextId, available, calls, inbox, clock>>
SweepKeepsEntry(now) ==
  /\ IF Expired(now)
     THEN sweep' = now /\ Call(Head(list), "timeout") /\ list' = Tail(list)
          /\ UNCHANGED <<map, state>>
     ELSE sweep' = Idle /\ UNCHANGED <<told, map, list, state>>
  /\ UNCHANGED <<handler, nextId, available, calls, inbox, clock>>

(* One turn of the loop in onTimerCallbackTimeout, up to the call. *)
Sweep(now) ==
  /\ IF Expired(now) THEN sweep' = now /\ Expire(Head(list))
     ELSE sweep' = Idle /\ UNCHANGED <<told, map, list, state>>
  /\ UNCHANGED <<handler, nextId, available, calls, inbox, clock>>

OnTimerCallbackTimeout == state = "running" /\ sweep = Idle /\ Expired(clock) /\ Sweep(clock)

NextTurn == state = "running" /\ sweep # Idle /\ Sweep(sweep)

-------------------------------------------------------------------------------
(* The other side. *)

(* A call is answered once, at any time later. *)
PeerAnswers(c) ==
  /\ c \in calls /\ calls' = calls \ {c}
  /\ inbox' = Append(inbox, c)
  /\ UNCHANGED <<engine, available, clock>>

(* The connection or the peer is lost before the call or its answer gets   *)
(* through.                                                                *)
Lost(c) ==
  /\ c \in calls /\ calls' = calls \ {c}
  /\ UNCHANGED <<engine, available, inbox, clock>>

(* The engine removes the protocol of a connection that is gone. *)
Closed(uid) ==
  /\ state = "running" /\ uid \in available /\ available' = available \ {uid}
  /\ UNCHANGED <<engine, calls, inbox, clock>>

Tick ==
  /\ clock < MaxClock /\ clock' = clock + 1
  /\ UNCHANGED <<engine, available, calls, inbox>>

-------------------------------------------------------------------------------

Next ==
  \/ \E h \in Handlers, uid \in Uids \union {NoUid}: Send(h, uid)
  \/ OnIOPacket \/ OnTimerCallbackTimeout \/ NextTurn
  \/ \E c \in calls: PeerAnswers(c) \/ Lost(c)
  \/ \E uid \in Uids: Closed(uid)
  \/ Tick

Spec == Init /\ [][Next]_vars

(* Time passes, and the engine thread looks at its timer and its queue.    *)
FairSpec ==
  /\ Spec
  /\ WF_vars(Tick) /\ WF_vars(OnTimerCallbackTimeout) /\ WF_vars(NextTurn)

-------------------------------------------------------------------------------
(* Properties. *)

Pending == {h \in Handlers: \E i \in Ids: map[i] = h}

(* A handler is called at most once, whatever answers and timers race.     *)
OneOutcome == \A h \in Handlers: Len(told[h]) <= 1

(* The map and the timeout list hold the same handlers, each once and      *)
(* under its own id.                                                       *)
PendingAgree ==
  /\ Pending = ToSet(list) /\ IsInjective(list)
  /\ \A i \in Ids: map[i] # NoHandler => handler[map[i]].id = i

(* A handler that send accepted stays in the map until it is called: an id *)
(* that comes round again never takes another handler's place, since only  *)
(* the oldest pending id can come round.                                   *)
NoneLost ==
  state = "running" => \A h \in Handlers:
    handler[h].id # 0 /\ told[h] = <<>> => map[handler[h].id] = h

(* The answer a handler gets answers a call with its own id to its own     *)
(* uid: another handler's call only if the ids have come round since.      *)
OwnAnswer ==
  \A h \in Handlers, g \in Handlers:
    told[h] # <<>> /\ told[h][1] = g
      => handler[g].id = handler[h].id /\ handler[g].uid = handler[h].uid

(* When the loop stops at the first deadline that is not over, no other    *)
(* one is over either, the handlers bound by callbacks included.           *)
SweptAll ==
  [][sweep # Idle /\ sweep' = Idle =>
       \A h \in ToSet(list'): handler[h].to > sweep]_vars

(* Every handler that send accepted is called in the end, even if the      *)
(* connection is lost.                                                     *)
BoundIsTold ==
  \A h \in Handlers: handler[h].id # 0 ~> told[h] # <<>> \/ state # "running"

===============================================================================

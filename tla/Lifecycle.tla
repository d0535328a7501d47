------------------------------- MODULE Lifecycle -------------------------------
(***************************************************************************)
(* How the network thread starts, runs and stops (network/Network.cpp):    *)
(* start and stop are called by the thread that also runs the engine, as   *)
(* in test/main_app.cpp, and that pushes events in between.                *)
(*                                                                         *)
(* A crash (a null pointer that is followed) ends the process.  The key    *)
(* pool and the socket never fail here; what init returns is open, since   *)
(* it ends without a return statement.  The loop that waits for the table  *)
(* to become empty in onQuit is never reached and left out.                *)
(***************************************************************************)
EXTENDS Naturals, Sequences, SequencesExt

CONSTANTS MaxEvents, \* bound: events the engine pushes
          Monitor,   \* the build defines _MONITOR
          Returns    \* what init may be seen to return

ASSUME LifecycleAssumption ==
  MaxEvents \in Nat /\ Monitor \in BOOLEAN /\ Returns \subseteq BOOLEAN

VARIABLES main,     \* where the thread that called start is
          net,      \* where the network thread is
          isStop,   \* _isStop
          wakeup,   \* _wakeupObject is set and in the table
          queue,    \* _eventQueue
          batch,    \* events popped from it, being processed
          done,     \* events processed
          pushed,   \* number of the last event pushed
          unbound,  \* events whose protocol has not been given its message queue
          crash     \* where the process crashed, if it did

vars == <<main, net, isStop, wakeup, queue, batch, done, pushed, unbound, crash>>

Places == {"none", "weakup", "dispatchPacket", "onTimer1000ms", "onQuit"}

TypeOK ==
  /\ main \in {"new", "running", "notifying", "binding", "joining", "ended"}
  /\ net \in {"none", "init", "loop", "events", "timer", "quit", "clear", "ended"}
  /\ isStop \in BOOLEAN /\ wakeup \in BOOLEAN
  /\ {queue, batch, done} \subseteq Seq(1..MaxEvents)
  /\ pushed \in 0..MaxEvents
  /\ unbound \subseteq {pushed} \ {0} /\ (unbound # {} => main \in {"notifying", "binding"})
  /\ crash \in Places

Init ==
  /\ main = "new" /\ net = "none"
  /\ isStop = FALSE /\ wakeup = FALSE
  /\ queue = <<>> /\ batch = <<>> /\ done = <<>> /\ pushed = 0 /\ unbound = {}
  /\ crash = "none"

-------------------------------------------------------------------------------
(* The thread of main and of the engine. *)

Main(from, to) == crash = "none" /\ main = from /\ main' = to

Start ==
  /\ Main("new", "running")
  /\ net' = "init" /\ isStop' = FALSE
  /\ UNCHANGED <<wakeup, queue, batch, done, pushed, unbound, crash>>

(* Faulty variant: the number of the event is the one before. *)
PushEventBefore ==
  /\ pushed < MaxEvents
  /\ Main("running", IF queue = <<>> THEN "notifying" ELSE "binding")
  /\ pushed' = pushed + 1
  /\ queue' = Append(queue, pushed)
  /\ unbound' \in {{}, {pushed'}}
  /\ UNCHANGED <<net, isStop, wakeup, batch, done, crash>>

(* The queue notifies when it was empty.  The event is one that names a    *)
(* key, or a listen or connect, whose protocol is known to the network     *)
(* from here on and has no message queue yet.                              *)
PushEvent ==
  /\ pushed < MaxEvents
  /\ Main("running", IF queue = <<>> THEN "notifying" ELSE "binding")
  /\ pushed' = pushed + 1
  /\ queue' = Append(queue, pushed')
  /\ unbound' \in {{}, {pushed'}}
  /\ UNCHANGED <<net, isStop, wakeup, batch, done, crash>>

(* What is written to the wakeup socket, which is not connected, is lost;  *)
(* the poller does not wait on that socket, which has been hung up.        *)
Weakup ==
  /\ Main("notifying", "binding")
  /\ crash' = IF wakeup THEN "none" ELSE "weakup"
  /\ UNCHANGED <<net, isStop, wakeup, queue, batch, done, pushed, unbound>>

(* IOEngine::listen and connect go on: the protocol gets its queue. *)
SetQueue ==
  /\ Main("binding", "running")
  /\ unbound' = {}
  /\ UNCHANGED <<net, isStop, wakeup, queue, batch, done, pushed, crash>>

Stop ==
  /\ Main("running", "joining")
  /\ isStop' = TRUE
  /\ UNCHANGED <<net, wakeup, queue, batch, done, pushed, unbound, crash>>

Joined ==
  /\ Main("joining", "ended") /\ net = "ended"
  /\ UNCHANGED <<net, isStop, wakeup, queue, batch, done, pushed, unbound, crash>>

-------------------------------------------------------------------------------
(* The network thread. *)

Net(from, to) == crash = "none" /\ net = from /\ net' = to

NetInit ==
  /\ \E returned \in Returns: Net("init", IF returned THEN "loop" ELSE "ended")
  /\ wakeup' = TRUE
  /\ UNCHANGED <<main, isStop, queue, batch, done, pushed, unbound, crash>>

(* The poll, and all the events there are after it. *)
Loop ==
  /\ Net("loop", IF isStop THEN "quit" ELSE "events")
  /\ IF isStop THEN UNCHANGED <<queue, batch>> ELSE batch' = queue /\ queue' = <<>>
  /\ UNCHANGED <<main, isStop, wakeup, done, pushed, unbound, crash>>

(* What the event does to the owner of its key: a report goes through a    *)
(* _msgqueue that nobody set, unless the protocol was used before.         *)
Reported(n) == crash' \in {"none"} \union IF n \in unbound THEN {"dispatchPacket"} ELSE {}

(* Faulty variant: the events behind are left to the next pop. *)
DispatchProcessFirst(next) ==
  /\ IF batch = <<>> THEN net' = next /\ UNCHANGED <<batch, done, crash>>
     ELSE /\ net' = net /\ done' = Append(done, Head(batch)) /\ batch' = <<>>
          /\ Reported(Head(batch))
  /\ UNCHANGED <<main, isStop, wakeup, queue, pushed, unbound>>

(* One event of the batch, or on to what follows them. *)
DispatchProcess(next) ==
  /\ IF batch = <<>> THEN net' = next /\ UNCHANGED <<batch, done, crash>>
     ELSE /\ net' = net /\ done' = Append(done, Head(batch)) /\ batch' = Tail(batch)
          /\ Reported(Head(batch))
  /\ UNCHANGED <<main, isStop, wakeup, queue, pushed, unbound>>

Events == crash = "none" /\ net = "events" /\ DispatchProcess("timer")

(* When a second is over, the first time and every 30 s, the buffers are   *)
(* listed, and the wakeup object is taken for a connection.                *)
OnTimer1000ms ==
  /\ Net("timer", "loop")
  /\ crash' \in {"none"} \union IF Monitor /\ wakeup THEN {"onTimer1000ms"} ELSE {}
  /\ UNCHANGED <<main, isStop, wakeup, queue, batch, done, pushed, unbound>>

(* Faulty variant: the table is cleared at once. *)
QuitAtOnce ==
  /\ Net("quit", "clear")
  /\ UNCHANGED <<main, isStop, wakeup, queue, batch, done, pushed, unbound, crash>>

(* onQuit: the events left over are processed. *)
Quit ==
  \/ /\ Net("quit", "quit") /\ queue # <<>>
     /\ batch' = queue /\ queue' = <<>>
     /\ UNCHANGED <<main, isStop, wakeup, done, pushed, unbound, crash>>
  \/ crash = "none" /\ net = "quit" /\ queue = <<>> /\ DispatchProcess("clear")

(* _clear(0) closes every object of the table, the wakeup object too,      *)
(* which has no protocol to ask.                                           *)
Clear ==
  /\ Net("clear", "ended")
  /\ crash' = IF wakeup THEN "onQuit" ELSE "none"
  /\ UNCHANGED <<main, isStop, wakeup, queue, batch, done, pushed, unbound>>

Network == NetInit \/ Loop \/ Events \/ OnTimer1000ms \/ Quit \/ Clear

Next == Start \/ PushEvent \/ Weakup \/ SetQueue \/ Stop \/ Joined \/ Network

Spec == Init /\ [][Next]_vars

(* The threads are scheduled; nothing makes main push or stop. *)
FairSpec == Spec /\ WF_vars(Network) /\ WF_vars(Weakup) /\ WF_vars(SetQueue)

-------------------------------------------------------------------------------
(* Properties. *)

(* Events are processed once, in the order they were pushed, across the    *)
(* pops of the loop and of onQuit.                                         *)
InOrder == done \o batch \o queue = [i \in 1..pushed |-> i]

(* Nothing that was pushed before stop is dropped: the table is cleared    *)
(* after the last event.                                                   *)
ClearedLast == net = "clear" => Len(done) = pushed

(* An event is processed in the end, whatever came of the wakeup, unless   *)
(* the thread or the process is gone.                                      *)
EventsProcessed ==
  \A n \in 1..MaxEvents:
    n <= pushed ~> Contains(done, n) \/ net = "ended" \/ crash # "none"

===============================================================================

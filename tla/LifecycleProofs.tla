---------------------------- MODULE LifecycleProofs ---------------------------
(***************************************************************************)
(* Proofs about Lifecycle, for any number of events, with and without      *)
(* monitoring, and whatever init returns.                                  *)
(***************************************************************************)
EXTENDS Lifecycle, Integers, SequenceTheorems, TLAPS

USE LifecycleAssumption

-------------------------------------------------------------------------------
(* The inductive invariant: the batch is empty except while it is being    *)
(* processed, and nothing is pushed any more when the thread quits.        *)

BatchInv ==
  /\ net \notin {"events", "quit"} => batch = <<>>
  /\ net = "quit" => queue = <<>> \/ batch = <<>>
  /\ net = "clear" => queue = <<>>

StopInv ==
  /\ main = "new" => net = "none"
  /\ isStop => main \in {"joining", "ended"}
  /\ net \in {"quit", "clear"} => isStop

IInv == TypeOK /\ InOrder /\ BatchInv /\ StopInv

-------------------------------------------------------------------------------
(* The events that are done, in the batch and in the queue, as one list.   *)

LEMMA Concat ==
  ASSUME NEW S, NEW s \in Seq(S), NEW t \in Seq(S)
  PROVE  /\ s \o t \in Seq(S) /\ Len(s \o t) = Len(s) + Len(t)
         /\ Len(s) \in Nat /\ Len(t) \in Nat
         /\ \A i \in 1..Len(s): (s \o t)[i] = s[i]
         /\ \A i \in 1..Len(t): (s \o t)[Len(s) + i] = t[i]
<1>1. Len(s) \in Nat /\ Len(t) \in Nat
  BY LenProperties
<1>2. /\ s \o t \in Seq(S) /\ Len(s \o t) = Len(s) + Len(t)
      /\ \A i \in 1..Len(s) + Len(t): (s \o t)[i] = IF i <= Len(s) THEN s[i] ELSE t[i - Len(s)]
  BY ConcatProperties
<1>3. \A i \in 1..Len(t): /\ Len(s) + i \in 1..Len(s) + Len(t)
                          /\ ~(Len(s) + i <= Len(s)) /\ (Len(s) + i) - Len(s) = i
  BY <1>1
<1> QED
  BY <1>1, <1>2, <1>3

(* The first of the batch becomes the last that is done. *)
LEMMA OneDone ==
  ASSUME NEW S, NEW d \in Seq(S), NEW b \in Seq(S), b # <<>>
  PROVE  /\ Append(d, Head(b)) \in Seq(S) /\ Tail(b) \in Seq(S)
         /\ Append(d, Head(b)) \o Tail(b) = d \o b
<1>1. /\ Head(b) \in S /\ Head(b) = b[1] /\ Tail(b) \in Seq(S) /\ Len(Tail(b)) = Len(b) - 1
      /\ \A i \in 1..Len(b) - 1: Tail(b)[i] = b[i + 1]
      /\ Len(b) \in Nat \ {0} /\ Len(d) \in Nat
  BY HeadTailProperties, EmptySeq, LenProperties
<1> DEFINE e == Append(d, Head(b))
<1>2. /\ e \in Seq(S) /\ Len(e) = Len(d) + 1
      /\ \A i \in 1..Len(d): e[i] = d[i]
      /\ e[Len(d) + 1] = b[1]
  BY <1>1, AppendProperties
<1> HIDE DEF e
<1>3. /\ e \o Tail(b) \in Seq(S) /\ Len(e \o Tail(b)) = Len(d) + Len(b)
      /\ \A i \in 1..Len(d) + 1: (e \o Tail(b))[i] = e[i]
      /\ \A i \in 1..Len(b) - 1: (e \o Tail(b))[Len(d) + 1 + i] = b[i + 1]
  <2>1. /\ e \o Tail(b) \in Seq(S) /\ Len(e \o Tail(b)) = Len(e) + Len(Tail(b))
        /\ \A i \in 1..Len(e): (e \o Tail(b))[i] = e[i]
        /\ \A i \in 1..Len(Tail(b)): (e \o Tail(b))[Len(e) + i] = Tail(b)[i]
    <3>1. e \in Seq(S) /\ Tail(b) \in Seq(S)
      BY <1>1, <1>2
    <3> QED
      BY <3>1, Concat
  <2>2. Len(e) + Len(Tail(b)) = Len(d) + Len(b)
    BY <1>1, <1>2
  <2> QED
    BY <1>1, <1>2, <2>1, <2>2
<1>4. /\ d \o b \in Seq(S) /\ Len(d \o b) = Len(d) + Len(b)
      /\ \A i \in 1..Len(d): (d \o b)[i] = d[i]
      /\ \A i \in 1..Len(b): (d \o b)[Len(d) + i] = b[i]
  BY Concat
<1>5. \A i \in 1..Len(d) + Len(b): (e \o Tail(b))[i] = (d \o b)[i]
  <2> SUFFICES ASSUME NEW i \in 1..Len(d) + Len(b)
               PROVE  (e \o Tail(b))[i] = (d \o b)[i]
    OBVIOUS
  <2>1. CASE i <= Len(d)
    BY <1>1, <1>2, <1>3, <1>4, <2>1
  <2>2. CASE i = Len(d) + 1
    <3>1. (d \o b)[Len(d) + 1] = b[1]
      BY <1>1, <1>4
    <3> QED
      BY <1>1, <1>2, <1>3, <2>2, <3>1
  <2>3. CASE i > Len(d) + 1
    <3>1. PICK j \in 1..Len(b) - 1: i = Len(d) + 1 + j /\ i = Len(d) + (j + 1)
      <4>1. \A m \in Nat, n \in Nat \ {0}: i \in 1..m + n /\ i > m + 1 =>
              \E j \in 1..n - 1: i = m + 1 + j /\ i = m + (j + 1)
        <5> SUFFICES ASSUME NEW m \in Nat, NEW n \in Nat \ {0}, i \in 1..m + n, i > m + 1
                     PROVE  \E j \in 1..n - 1: i = m + 1 + j /\ i = m + (j + 1)
          OBVIOUS
        <5>1. i - (m + 1) \in 1..n - 1 /\ i = m + 1 + (i - (m + 1)) /\ i = m + ((i - (m + 1)) + 1)
          OBVIOUS
        <5> QED
          BY <5>1
      <4> QED
        BY <1>1, <2>3, <4>1
    <3>2. j + 1 \in 1..Len(b)
      BY <1>1
    <3> QED
      BY <1>3, <1>4, <3>1, <3>2
  <2>4. i <= Len(d) \/ i = Len(d) + 1 \/ i > Len(d) + 1
    <3>1. Len(d) \in Nat /\ i \in Int
      BY <1>1
    <3> QED
      BY <3>1
  <2> QED
    BY <2>1, <2>2, <2>3, <2>4
<1>6. e \o Tail(b) = d \o b
  BY <1>3, <1>4, <1>5, SeqEqual
<1> QED
  BY <1>1, <1>2, <1>6 DEF e

(* The next number goes to the end. *)
LEMMA OneMore ==
  ASSUME NEW S, NEW s \in Seq(S), NEW q \in Seq(S), NEW n \in Nat, n + 1 \in S,
         Len(s \o q) = n, \A i \in 1..n: (s \o q)[i] = i
  PROVE  s \o Append(q, n + 1) = [i \in 1..n + 1 |-> i]
<1>1. /\ Len(s \o q) = Len(s) + Len(q) /\ Len(s) \in Nat /\ Len(q) \in Nat
      /\ \A i \in 1..Len(s): (s \o q)[i] = s[i]
      /\ \A i \in 1..Len(q): (s \o q)[Len(s) + i] = q[i]
  BY Concat
<1>2. Len(s) + Len(q) = n /\ \A i \in 1..n: (s \o q)[i] = i
  BY <1>1
<1> DEFINE r == Append(q, n + 1)
<1>3. /\ r \in Seq(S) /\ Len(r) = Len(q) + 1
      /\ \A i \in 1..Len(q): r[i] = q[i]
      /\ r[Len(q) + 1] = n + 1
  BY AppendProperties
<1> HIDE DEF r
<1>4. /\ s \o r \in Seq(S) /\ Len(s \o r) = Len(s) + Len(r)
      /\ \A i \in 1..Len(s): (s \o r)[i] = s[i]
      /\ \A i \in 1..Len(r): (s \o r)[Len(s) + i] = r[i]
  BY <1>3, Concat
<1>5. Len(s \o r) = n + 1
  BY <1>1, <1>2, <1>3, <1>4
<1>6. \A i \in 1..n + 1: (s \o r)[i] = i
  <2> SUFFICES ASSUME NEW i \in 1..n + 1 PROVE (s \o r)[i] = i
    OBVIOUS
  <2>1. CASE i <= Len(s)
    <3>1. i \in 1..Len(s) /\ i \in 1..n
      BY <1>1, <1>2, <2>1
    <3> QED
      BY <1>1, <1>2, <1>4, <3>1
  <2>2. CASE i > Len(s)
    <3>1. PICK j \in 1..Len(q) + 1: i = Len(s) + j
      <4>1. i - Len(s) \in 1..Len(q) + 1 /\ i = Len(s) + (i - Len(s))
        BY <1>1, <1>2, <2>2
      <4> QED
        BY <4>1
    <3>2. (s \o r)[i] = r[j]
      BY <1>3, <1>4, <3>1
    <3>3. CASE j \in 1..Len(q)
      <4>1. i \in 1..n
        BY <1>1, <1>2, <3>1, <3>3
      <4>2. (s \o q)[i] = q[j]
        BY <1>1, <3>1, <3>3
      <4> QED
        BY <1>2, <1>3, <3>2, <3>3, <4>1, <4>2
    <3>4. CASE j = Len(q) + 1
      <4>1. i = n + 1
        BY <1>1, <1>2, <3>1, <3>4
      <4> QED
        BY <1>3, <3>2, <3>4, <4>1
    <3>5. j \in 1..Len(q) \/ j = Len(q) + 1
      <4>1. Len(q) \in Nat
        BY LenProperties
      <4> QED
        BY <4>1
    <3> QED
      BY <3>3, <3>4, <3>5
  <2>3. i <= Len(s) \/ i > Len(s)
    <3>1. Len(s) \in Nat /\ i \in Int
      BY LenProperties
    <3> QED
      BY <3>1
  <2> QED
    BY <2>1, <2>2, <2>3
<1>7. s \o r = [i \in 1..n + 1 |-> i]
  <2>1. s \o r = [i \in 1..Len(s \o r) |-> (s \o r)[i]]
    BY <1>4, LenProperties
  <2> QED
    BY <1>5, <1>6, <2>1
<1> QED
  BY <1>7 DEF r

-------------------------------------------------------------------------------
(* One lemma per step. *)

Ev == 1..MaxEvents

LEMMA SeqTypes ==
  TypeOK => queue \in Seq(Ev) /\ batch \in Seq(Ev) /\ done \in Seq(Ev) /\ pushed \in Nat
BY DEF TypeOK, Ev

LEMMA InitHolds == Init => IInv
<1> SUFFICES ASSUME Init PROVE IInv
  OBVIOUS
<1>1. <<>> \in Seq(Ev)
  BY EmptySeq
<1>2. TypeOK
  <2>1. queue \in Seq(Ev) /\ batch \in Seq(Ev) /\ done \in Seq(Ev)
    BY <1>1 DEF Init
  <2>2. pushed \in 0..MaxEvents /\ unbound = {}
    BY DEF Init
  <2>3. isStop \in BOOLEAN /\ wakeup \in BOOLEAN
    BY Zenon DEF Init
  <2> QED
    BY <2>1, <2>2, <2>3 DEF Init, TypeOK, Places, Ev
<1>3. InOrder
  <2>1. <<>> \o <<>> \o <<>> = <<>> /\ <<>> \in Seq(Ev)
    BY <1>1, ConcatEmptySeq
  <2>2. <<>> = [i \in 1..0 |-> i]
    OBVIOUS
  <2> QED
    BY <2>1, <2>2 DEF Init, InOrder
<1> QED
  BY <1>2, <1>3 DEF Init, IInv, BatchInv, StopInv

(* The steps that move no event. *)
LEMMA StillOrdered ==
  ASSUME InOrder, UNCHANGED <<queue, batch, done, pushed>>
  PROVE  InOrder'
BY DEF InOrder

LEMMA MainKeeps ==
  IInv /\ (Start \/ Weakup \/ SetQueue \/ Stop \/ Joined) => IInv'
<1> SUFFICES ASSUME IInv, Start \/ Weakup \/ SetQueue \/ Stop \/ Joined PROVE IInv'
  OBVIOUS
<1>1. UNCHANGED <<queue, batch, done, pushed>>
  BY DEF Start, Weakup, SetQueue, Stop, Joined
<1>2. InOrder'
  BY <1>1, StillOrdered DEF IInv
<1>3. TypeOK'
  <2>1. TypeOK
    BY DEF IInv
  <2>2. /\ main' \in {"new", "running", "notifying", "binding", "joining", "ended"}
        /\ net' \in {"none", "init", "loop", "events", "timer", "quit", "clear", "ended"}
        /\ isStop' \in BOOLEAN /\ wakeup' = wakeup /\ crash' \in Places
    BY <2>1 DEF TypeOK, Start, Weakup, SetQueue, Stop, Joined, Main, Places
  <2>3. unbound' \in {unbound, {}} /\ (unbound # {} /\ unbound' # {} => main' = "binding")
    BY <2>1 DEF TypeOK, Start, Weakup, SetQueue, Stop, Joined, Main
  <2> QED
    BY <1>1, <2>1, <2>2, <2>3 DEF TypeOK
<1>4. BatchInv'
  BY <1>1 DEF IInv, BatchInv, StopInv, Start, Weakup, SetQueue, Stop, Joined, Main
<1>5. StopInv'
  BY DEF IInv, StopInv, Start, Weakup, SetQueue, Stop, Joined, Main
<1> QED
  BY <1>2, <1>3, <1>4, <1>5 DEF IInv

LEMMA PushEventKeeps == IInv /\ PushEvent => IInv'
<1> SUFFICES ASSUME IInv, PushEvent PROVE IInv'
  OBVIOUS
<1>1. /\ TypeOK /\ queue \in Seq(Ev) /\ batch \in Seq(Ev) /\ done \in Seq(Ev)
      /\ pushed \in Nat /\ pushed < MaxEvents
      /\ main = "running" /\ main' \in {"notifying", "binding"}
      /\ pushed' = pushed + 1 /\ queue' = Append(queue, pushed + 1)
      /\ unbound' \in {{}, {pushed + 1}}
      /\ UNCHANGED <<net, isStop, wakeup, batch, done, crash>>
  BY SeqTypes DEF IInv, PushEvent, Main
<1>2. pushed + 1 \in Ev
  BY <1>1 DEF Ev
<1>3. queue' \in Seq(Ev)
  BY <1>1, <1>2, AppendProperties
<1>4. TypeOK'
  BY <1>1, <1>2, <1>3 DEF TypeOK, Ev
<1>5. InOrder'
  <2>1. done \o batch \in Seq(Ev) /\ (done \o batch) \o queue \in Seq(Ev)
    BY <1>1, Concat
  <2>2. done \o batch \o queue = [i \in 1..pushed |-> i]
    BY DEF IInv, InOrder
  <2>3. \A i \in 1..pushed: (done \o batch \o queue)[i] = i
    BY <2>2
  <2>4. Len(done \o batch \o queue) = pushed
    BY <1>1, <2>2
  <2>5. (done \o batch) \o Append(queue, pushed + 1) = [i \in 1..pushed + 1 |-> i]
    <3>1. PICK t \in Seq(Ev): t = done \o batch
      BY <2>1
    <3>2. Len(t \o queue) = pushed /\ \A i \in 1..pushed: (t \o queue)[i] = i
      BY <2>3, <2>4, <3>1
    <3>3. t \o Append(queue, pushed + 1) = [i \in 1..pushed + 1 |-> i]
      <4>1. pushed \in Nat /\ queue \in Seq(Ev)
        BY <1>1
      <4> QED
        BY <1>2, <3>2, <4>1, OneMore
    <3> QED
      BY <3>1, <3>3
  <2> QED
    BY <1>1, <2>5 DEF InOrder
<1>6. BatchInv' /\ StopInv'
  BY <1>1 DEF IInv, BatchInv, StopInv
<1> QED
  BY <1>4, <1>5, <1>6 DEF IInv

(* All there is in the queue becomes the batch, which was empty. *)
LEMMA Popped ==
  ASSUME IInv, batch = <<>>, batch' = queue, queue' = <<>>, UNCHANGED <<done, pushed>>
  PROVE  InOrder' /\ queue' \in Seq(Ev) /\ batch' \in Seq(Ev)
<1>1. queue \in Seq(Ev) /\ done \in Seq(Ev) /\ <<>> \in Seq(Ev)
  BY SeqTypes, EmptySeq DEF IInv
<1>2. done \o <<>> = done /\ done \o queue \in Seq(Ev)
  BY <1>1, Concat, ConcatEmptySeq
<1>3. (done \o queue) \o <<>> = done \o queue
  BY <1>2, ConcatEmptySeq
<1> QED
  BY <1>1, <1>2, <1>3 DEF IInv, InOrder

LEMMA NetInitKeeps == IInv /\ (NetInit \/ OnTimer1000ms \/ Clear) => IInv'
<1> SUFFICES ASSUME IInv, NetInit \/ OnTimer1000ms \/ Clear PROVE IInv'
  OBVIOUS
<1>1. UNCHANGED <<main, isStop, queue, batch, done, pushed, unbound>>
  BY DEF NetInit, OnTimer1000ms, Clear
<1>2. InOrder'
  BY <1>1, StillOrdered DEF IInv
<1>3. TypeOK'
  <2>1. TypeOK
    BY DEF IInv
  <2>2. /\ net' \in {"loop", "ended"} /\ wakeup' \in BOOLEAN /\ crash' \in Places
    BY <2>1 DEF TypeOK, NetInit, OnTimer1000ms, Clear, Net, Places
  <2> QED
    BY <1>1, <2>1, <2>2 DEF TypeOK
<1>4. BatchInv' /\ StopInv'
  BY <1>1 DEF IInv, BatchInv, StopInv, NetInit, OnTimer1000ms, Clear, Net
<1> QED
  BY <1>2, <1>3, <1>4 DEF IInv

LEMMA LoopKeeps == IInv /\ Loop => IInv'
<1> SUFFICES ASSUME IInv, Loop PROVE IInv'
  OBVIOUS
<1>1. /\ TypeOK /\ net = "loop" /\ batch = <<>>
      /\ UNCHANGED <<main, isStop, wakeup, done, pushed, unbound>> /\ crash' = crash
  BY DEF IInv, BatchInv, Loop, Net
<1>2. CASE isStop
  <2>1. net' = "quit" /\ UNCHANGED <<queue, batch>>
    BY <1>2 DEF Loop, Net
  <2>2. InOrder'
    BY <1>1, <2>1, StillOrdered DEF IInv
  <2>3. TypeOK'
    BY <1>1, <2>1 DEF TypeOK
  <2>4. BatchInv' /\ StopInv'
    BY <1>1, <1>2, <2>1 DEF IInv, BatchInv, StopInv
  <2> QED
    BY <2>2, <2>3, <2>4 DEF IInv
<1>3. CASE ~isStop
  <2>1. net' = "events" /\ batch' = queue /\ queue' = <<>>
    BY <1>3 DEF Loop, Net
  <2>2. InOrder' /\ queue' \in Seq(Ev) /\ batch' \in Seq(Ev)
    BY <1>1, <2>1, Popped
  <2>3. TypeOK'
    BY <1>1, <2>1, <2>2 DEF TypeOK, Ev
  <2>4. BatchInv' /\ StopInv'
    BY <1>1, <2>1 DEF IInv, BatchInv, StopInv
  <2> QED
    BY <2>2, <2>3, <2>4 DEF IInv
<1> QED
  BY <1>2, <1>3

(* One event of the batch, or on. *)
LEMMA ProcessKeeps ==
  ASSUME IInv, NEW next, DispatchProcess(next),
         \/ net = "events" /\ next = "timer"
         \/ net = "quit" /\ next = "clear" /\ queue = <<>>
  PROVE  IInv'
<1>1. /\ TypeOK /\ batch \in Seq(Ev) /\ done \in Seq(Ev) /\ queue \in Seq(Ev)
      /\ UNCHANGED <<main, isStop, wakeup, queue, pushed, unbound>>
  BY SeqTypes DEF IInv, DispatchProcess
<1>2. CASE batch = <<>>
  <2>1. net' = next /\ UNCHANGED <<batch, done, crash>>
    BY <1>2 DEF DispatchProcess
  <2>2. InOrder'
    BY <1>1, <2>1, StillOrdered DEF IInv
  <2>3. TypeOK'
    BY <1>1, <2>1 DEF TypeOK
  <2>4. BatchInv' /\ StopInv'
    BY <1>1, <1>2, <2>1 DEF IInv, BatchInv, StopInv
  <2> QED
    BY <2>2, <2>3, <2>4 DEF IInv
<1>3. CASE batch # <<>>
  <2>1. /\ net' = net /\ done' = Append(done, Head(batch)) /\ batch' = Tail(batch)
        /\ crash' \in Places
    BY <1>3 DEF DispatchProcess, Reported, Places
  <2>2. done' \in Seq(Ev) /\ batch' \in Seq(Ev) /\ done' \o batch' = done \o batch
    BY <1>1, <1>3, <2>1, OneDone
  <2>3. InOrder'
    BY <1>1, <2>2 DEF IInv, InOrder
  <2>4. TypeOK'
    BY <1>1, <2>1, <2>2 DEF TypeOK, Ev
  <2>5. BatchInv' /\ StopInv'
    BY <1>1, <2>1 DEF IInv, BatchInv, StopInv
  <2> QED
    BY <2>3, <2>4, <2>5 DEF IInv
<1> QED
  BY <1>2, <1>3

LEMMA QuitKeeps == IInv /\ Quit => IInv'
<1> SUFFICES ASSUME IInv, Quit PROVE IInv'
  OBVIOUS
<1>1. CASE net = "quit" /\ queue = <<>> /\ DispatchProcess("clear")
  BY <1>1, ProcessKeeps
<1>2. CASE /\ Net("quit", "quit") /\ queue # <<>>
           /\ batch' = queue /\ queue' = <<>>
           /\ UNCHANGED <<main, isStop, wakeup, done, pushed, unbound, crash>>
  <2>1. TypeOK /\ net = "quit" /\ net' = "quit" /\ batch = <<>> /\ crash' = crash
    BY <1>2 DEF IInv, BatchInv, Net
  <2>2. InOrder' /\ queue' \in Seq(Ev) /\ batch' \in Seq(Ev)
    BY <1>2, <2>1, Popped
  <2>3. TypeOK'
    BY <1>2, <2>1, <2>2 DEF TypeOK, Ev
  <2>4. BatchInv' /\ StopInv'
    BY <1>2, <2>1 DEF IInv, BatchInv, StopInv
  <2> QED
    BY <2>2, <2>3, <2>4 DEF IInv
<1> QED
  BY <1>1, <1>2 DEF Quit

-------------------------------------------------------------------------------
(* The theorems. *)

THEOREM Inductive == Spec => []IInv
<1>1. IInv /\ [Next]_vars => IInv'
  <2> SUFFICES ASSUME IInv, [Next]_vars PROVE IInv'
    OBVIOUS
  <2>1. CASE Start \/ Weakup \/ SetQueue \/ Stop \/ Joined
    BY <2>1, MainKeeps
  <2>2. CASE PushEvent
    BY <2>2, PushEventKeeps
  <2>3. CASE NetInit \/ OnTimer1000ms \/ Clear
    BY <2>3, NetInitKeeps
  <2>4. CASE Loop
    BY <2>4, LoopKeeps
  <2>5. CASE Events
    BY <2>5, ProcessKeeps DEF Events
  <2>6. CASE Quit
    BY <2>6, QuitKeeps
  <2>7. CASE UNCHANGED vars
    <3>1. InOrder'
      BY <2>7, StillOrdered DEF IInv, vars
    <3> QED
      BY <2>7, <3>1 DEF IInv, TypeOK, BatchInv, StopInv, vars
  <2> QED
    BY <2>1, <2>2, <2>3, <2>4, <2>5, <2>6, <2>7 DEF Next, Network
<1> QED
  BY InitHolds, <1>1, PTL DEF Spec

(* The threads are in their places, and a protocol without its message     *)
(* queue is one whose event is being pushed.                               *)
THEOREM TypeCorrect == Spec => []TypeOK
<1>1. IInv => TypeOK
  BY DEF IInv
<1> QED
  BY <1>1, Inductive, PTL

(* popEvents and dispatchProcess lose, repeat and reorder no event, also   *)
(* across the last pops of onQuit.                                         *)
THEOREM EventsInOrder == Spec => []InOrder
<1>1. IInv => InOrder
  BY DEF IInv
<1> QED
  BY <1>1, Inductive, PTL

(* onQuit clears the table after the last event: with the thread that      *)
(* pushes waiting in join, nothing comes between.                          *)
THEOREM NothingDropped == Spec => []ClearedLast
<1>1. IInv => ClearedLast
  <2> SUFFICES ASSUME IInv, net = "clear" PROVE Len(done) = pushed
    BY DEF ClearedLast
  <2>1. done \in Seq(Ev) /\ pushed \in Nat /\ batch = <<>> /\ queue = <<>>
    BY SeqTypes DEF IInv, BatchInv
  <2>2. done \o <<>> = done /\ (done \o <<>>) \o <<>> = done
    BY <2>1, ConcatEmptySeq
  <2>3. done = [i \in 1..pushed |-> i]
    BY <2>1, <2>2 DEF IInv, InOrder
  <2> QED
    BY <2>1, <2>3
<1> QED
  BY <1>1, Inductive, PTL

===============================================================================

---------------------------- MODULE CallbacksProofs ----------------------------
(***************************************************************************)
(* Proofs about Callbacks, for any number of handlers, uids and ids and    *)
(* any timeout.                                                            *)
(***************************************************************************)
EXTENDS Callbacks, Integers, SequenceTheorems, TLAPS

USE HandlersAssumption, UidsAssumption, NumbersAssumption

-------------------------------------------------------------------------------
(* The inductive invariant. *)

Positions == 1..Len(list)
Listed(h) == \E k \in Positions: list[k] = h

(* How many ids ago an id was given out, within one turn of the counter. *)
Age(i) == IF i <= nextId THEN nextId - i ELSE nextId + MaxId - i

(* A handler is called after it was bound, once, and has left the list. *)
CalledInv ==
  \A h \in Handlers:
    /\ handler[h].id = 0 => told[h] = <<>>
    /\ told[h] # <<>> => ~Listed(h)
    /\ Len(told[h]) <= 1

(* The list and the map agree. *)
ListedInv ==
  /\ \A j, k \in Positions: list[j] = list[k] => j = k
  /\ \A k \in Positions: map[handler[list[k]].id] = list[k]
  /\ \A i \in Ids: map[i] # NoHandler => handler[map[i]].id = i /\ Listed(map[i])

(* Nobody has been lost on the way. *)
KeptInv ==
  state = "running" => \A h \in Handlers:
    handler[h].id # 0 /\ told[h] = <<>> => Listed(h)

(* The list is in the order of the deadlines. *)
DeadlineInv ==
  /\ \A k \in Positions: handler[list[k]].to <= clock + Timeout
  /\ \A j, k \in Positions: j < k => handler[list[j]].to <= handler[list[k]].to

(* The list is in the order of the ids, within one turn of the counter:    *)
(* only the head can have the id that comes next.                          *)
TurnInv ==
  state = "running" =>
    \A j, k \in Positions: j < k => Age(handler[list[j]].id) > Age(handler[list[k]].id)

(* An answer names the handler of the call that it answers. *)
Answering(a) == handler[a.of].id = a.id /\ handler[a.of].uid = a.uid
AnswerInv ==
  /\ \A a \in calls: Answering(a)
  /\ \A i \in 1..Len(inbox): Answering(inbox[i])

IInv ==
  /\ TypeOK /\ CalledInv /\ ListedInv /\ KeptInv /\ DeadlineInv /\ TurnInv
  /\ AnswerInv /\ OwnAnswer

-------------------------------------------------------------------------------
(* Lemmas about the operators. *)

(* Taking an element that occurs once out of a sequence closes the gap.    *)
LEMMA RemoveFirstOnce ==
  ASSUME NEW S, NEW s \in Seq(S), NEW p \in 1..Len(s),
         \A i \in 1..Len(s): s[i] = s[p] => i = p
  PROVE  /\ RemoveFirst(s, s[p]) \in Seq(S)
         /\ Len(RemoveFirst(s, s[p])) = Len(s) - 1
         /\ \A i \in 1..Len(s) - 1:
              RemoveFirst(s, s[p])[i] = IF i < p THEN s[i] ELSE s[i + 1]
<1>1. SelectInSeq(s, LAMBDA v: v = s[p]) = p
  <2>1. {i \in 1..Len(s): s[i] = s[p]} = {p}
    OBVIOUS
  <2>2. Min({p}) = p
    BY DEF Min
  <2> QED
    BY <2>1, <2>2 DEF SelectInSeq
<1>2. RemoveFirst(s, s[p]) = SubSeq(s, 1, p - 1) \o SubSeq(s, p + 1, Len(s))
  BY <1>1 DEF RemoveFirst, RemoveAt
<1> DEFINE left == SubSeq(s, 1, p - 1)
           right == SubSeq(s, p + 1, Len(s))
<1>3. /\ left \in Seq(S) /\ Len(left) = p - 1
      /\ \A i \in 1..p - 1: left[i] = s[i]
  BY SubSeqProperties
<1>4. /\ right \in Seq(S) /\ Len(right) = Len(s) - p
      /\ \A i \in 1..Len(s) - p: right[i] = s[p + i]
  BY SubSeqProperties
<1> HIDE DEF left, right
<1>5. /\ left \o right \in Seq(S)
      /\ Len(left \o right) = Len(s) - 1
      /\ \A i \in 1..Len(s) - 1:
           (left \o right)[i] = IF i < p THEN s[i] ELSE s[i + 1]
  <2>1. /\ left \o right \in Seq(S)
        /\ Len(left \o right) = Len(left) + Len(right)
        /\ \A i \in 1..Len(left) + Len(right):
             (left \o right)[i] = IF i <= Len(left) THEN left[i] ELSE right[i - Len(left)]
    <3>1. left \in Seq(S) /\ right \in Seq(S)
      BY <1>3, <1>4
    <3> QED
      BY <3>1, ConcatProperties
  <2>2. p \in Nat /\ Len(s) \in Nat /\ Len(left) + Len(right) = Len(s) - 1
    BY <1>3, <1>4, LenProperties
  <2>3. ASSUME NEW i \in 1..Len(s) - 1
        PROVE  (left \o right)[i] = IF i < p THEN s[i] ELSE s[i + 1]
    <3>1. (left \o right)[i] = IF i <= Len(left) THEN left[i] ELSE right[i - Len(left)]
      BY <2>1, <2>2
    <3>2. CASE i < p
      <4>1. i <= Len(left) /\ i \in 1..p - 1
        BY <1>3, <2>2, <3>2
      <4> QED
        BY <1>3, <3>1, <3>2, <4>1
    <3>3. CASE ~(i < p)
      <4>1. ~(i <= Len(left)) /\ i - Len(left) = i - p + 1 /\ i - p + 1 \in 1..Len(s) - p
            /\ p + (i - p + 1) = i + 1
        BY <1>3, <2>2, <3>3
      <4>2. right[i - p + 1] = s[p + (i - p + 1)]
        BY <1>4, <4>1
      <4> QED
        BY <3>1, <3>3, <4>1, <4>2
    <3> QED
      BY <3>2, <3>3
  <2> QED
    BY <2>1, <2>2, <2>3
<1> QED
  BY <1>2, <1>5 DEF left, right

LEMMA NextIdType == TypeOK => NextId \in Ids
BY DEF TypeOK, NextId, Ids

(* A step of the counter makes every other id one older. *)
LEMMA AgeNext ==
  ASSUME TypeOK, NEW i \in Ids
  PROVE  /\ Age(i) \in 0..MaxId - 1
         /\ nextId' = NextId /\ i # NextId => Age(i)' = Age(i) + 1
         /\ nextId' = NextId /\ i = NextId => Age(i)' = 0 /\ Age(i) = MaxId - 1
BY DEF TypeOK, Age, NextId, Ids

LEMMA ListType ==
  ASSUME TypeOK
  PROVE  /\ list \in Seq(Handlers)
         /\ \A k \in Positions: list[k] \in Handlers /\ handler[list[k]].id \in Ids
<1>1. list \in Seq({h \in Handlers: handler[h].id # 0})
  BY DEF TypeOK
<1>2. \A k \in Positions: list[k] \in {h \in Handlers: handler[h].id # 0}
  BY <1>1, ElementOfSeq DEF Positions
<1>3. \A h \in Handlers: handler[h].id \in 0..MaxId
  BY DEF TypeOK
<1> QED
  BY <1>1, <1>2, <1>3, SeqMonotonic DEF Ids

(* Only the oldest pending id can come round: an id that the head of the   *)
(* list does not have is free.                                             *)
LEMMA FreshId ==
  ASSUME IInv, state = "running", ~IdTaken
  PROVE  /\ \A k \in Positions: handler[list[k]].id # NextId
         /\ map[NextId] = NoHandler
<1>1. TypeOK /\ list \in Seq(Handlers)
  BY ListType DEF IInv
<1>2. ASSUME NEW k \in Positions PROVE handler[list[k]].id # NextId
  <2>1. k \in Nat /\ k >= 1 /\ 1 \in Positions /\ list # <<>> /\ Head(list) = list[1]
    BY <1>1, <1>2, LenProperties DEF Positions
  <2>2. handler[list[1]].id \in Ids /\ handler[list[k]].id \in Ids
    BY <1>1, <1>2, <2>1, ListType
  <2>3. CASE k = 1
    BY <2>1, <2>3 DEF IdTaken
  <2>4. CASE k > 1
    <3>1. Age(handler[list[1]].id) > Age(handler[list[k]].id)
      BY <1>2, <2>1, <2>4 DEF IInv, TurnInv
    <3>2. /\ Age(handler[list[1]].id) \in 0..MaxId - 1
          /\ Age(handler[list[k]].id) \in 0..MaxId - 1
      BY <1>1, <2>2, AgeNext
    <3>3. Age(NextId) = MaxId - 1
      BY <1>1 DEF TypeOK, Age, NextId
    <3> QED
      BY <3>1, <3>2, <3>3
  <2> QED
    BY <2>1, <2>3, <2>4
<1>3. map[NextId] = NoHandler
  <2>1. NextId \in Ids
    BY <1>1, NextIdType
  <2> QED
    BY <1>2, <2>1 DEF IInv, ListedInv, Listed
<1> QED
  BY <1>2, <1>3

-------------------------------------------------------------------------------
(* What the steps do to the map and the list. *)

CoreInv == CalledInv /\ ListedInv /\ KeptInv /\ DeadlineInv /\ TurnInv

LEMMA BoundStep ==
  ASSUME IInv, state = "running", clock + Timeout <= MaxClock,
         NEW h \in Handlers, NEW uid \in Uids \union {NoUid},
         handler[h].id = 0, ~IdTaken, Bound(h, uid), nextId' = NextId,
         UNCHANGED <<told, state, clock>>
  PROVE  CoreInv' /\ list' \in Seq({g \in Handlers: handler'[g].id # 0})
<1>1. TypeOK /\ list \in Seq(Handlers) /\ NextId \in Ids /\ clock + Timeout \in Nat
  <2>1. TypeOK
    BY DEF IInv
  <2>2. NextId \in Ids /\ list \in Seq(Handlers)
    BY <2>1, ListType, NextIdType
  <2>3. clock \in Nat /\ Timeout \in Nat
    BY <2>1 DEF TypeOK
  <2> QED
    BY <2>1, <2>2, <2>3
<1>2. handler' = [handler EXCEPT ![h] = [uid |-> uid, id |-> NextId, to |-> clock + Timeout]]
  BY DEF Bound
<1>3. /\ handler'[h] = [uid |-> uid, id |-> NextId, to |-> clock + Timeout]
      /\ \A g \in Handlers \ {h}: handler'[g] = handler[g]
  BY <1>1, <1>2 DEF TypeOK
<1>4. map'[NextId] = h /\ \A i \in Ids \ {NextId}: map'[i] = map[i]
  BY <1>1 DEF Bound, TypeOK
<1>5. /\ list' = Append(list, h) /\ list' \in Seq(Handlers)
      /\ Len(list') = Len(list) + 1 /\ Len(list) \in Nat
      /\ \A k \in Positions: list'[k] = list[k]
      /\ list'[Len(list) + 1] = h
  BY <1>1, AppendProperties, LenProperties DEF Bound, Positions
<1>6. \A k \in Positions: /\ list[k] \in Handlers \ {h} /\ handler[list[k]].id \in Ids
                          /\ handler[list[k]].id # NextId
  <2>1. \A k \in Positions: list[k] \in Handlers /\ handler[list[k]].id \in Ids
    BY <1>1, ListType
  <2> QED
    BY <2>1, FreshId DEF Ids
<1>7. Positions' = Positions \union {Len(list) + 1}
  BY <1>5 DEF Positions
<1>8. \A g \in Handlers: Listed(g)' <=> Listed(g) \/ g = h
  BY <1>5, <1>7 DEF Listed
<1>9. CalledInv'
  <2>1. told[h] = <<>>
    BY DEF IInv, CalledInv
  <2> QED
    BY <1>1, <1>3, <1>8, <2>1 DEF IInv, CalledInv, Ids
<1>10. ListedInv'
  <2>1. \A j, k \in Positions': list'[j] = list'[k] => j = k
    <3>1. \A j, k \in Positions: list[j] = list[k] => j = k
      BY DEF IInv, ListedInv
    <3>2. \A k \in Positions: list'[k] = list[k] /\ list[k] # h
      BY <1>5, <1>6
    <3>3. ASSUME NEW j \in Positions', NEW k \in Positions', list'[j] = list'[k]
          PROVE  j = k
      <4>1. CASE j \in Positions /\ k \in Positions
        BY <3>1, <3>2, <3>3, <4>1
      <4>2. CASE j = Len(list) + 1
        BY <1>5, <1>7, <3>2, <3>3, <4>2
      <4>3. CASE k = Len(list) + 1
        BY <1>5, <1>7, <3>2, <3>3, <4>3
      <4> QED
        BY <1>7, <4>1, <4>2, <4>3
    <3> QED
      BY <3>3
  <2>2. \A k \in Positions': map'[handler'[list'[k]].id] = list'[k]
    <3>1. \A k \in Positions: map[handler[list[k]].id] = list[k]
      BY DEF IInv, ListedInv
    <3>2. \A k \in Positions: handler'[list[k]] = handler[list[k]]
      BY <1>3, <1>6
    <3>3. \A k \in Positions: map'[handler[list[k]].id] = list[k]
      BY <1>4, <1>6, <3>1
    <3>4. \A k \in Positions: map'[handler'[list'[k]].id] = list'[k]
      BY <1>5, <3>2, <3>3
    <3>5. map'[handler'[h].id] = h
      BY <1>3, <1>4
    <3> QED
      BY <1>5, <1>7, <3>4, <3>5
  <2>3. ASSUME NEW i \in Ids, map'[i] # NoHandler
        PROVE  handler'[map'[i]].id = i /\ Listed(map[i])'
    <3>1. CASE i = NextId
      <4>1. map'[i] = h /\ handler'[h].id = i
        BY <1>3, <1>4, <3>1
      <4> QED
        BY <1>5, <1>7, <4>1 DEF Listed
    <3>2. CASE i # NextId
      <4>1. map'[i] = map[i] /\ handler[map[i]].id = i /\ Listed(map[i]) /\ map[i] \in Handlers
        BY <1>1, <1>4, <2>3, <3>2 DEF IInv, ListedInv, TypeOK
      <4>2. map[i] # h
        BY <4>1 DEF Ids
      <4>3. PICK k \in Positions: list[k] = map[i]
        BY <4>1 DEF Listed
      <4>4. k \in Positions' /\ list'[k] = map'[i]
        BY <1>5, <1>7, <4>1, <4>3
      <4> QED
        BY <1>3, <4>1, <4>2, <4>4 DEF Listed
    <3> QED
      BY <3>1, <3>2
  <2> QED
    BY <2>1, <2>2, <2>3 DEF ListedInv
<1>11. KeptInv'
  BY <1>3, <1>8 DEF IInv, KeptInv
<1>12. DeadlineInv'
  <2>1. /\ \A k \in Positions: handler'[list'[k]].to = handler[list[k]].to
        /\ handler'[list'[Len(list) + 1]].to = clock + Timeout
    <3>1. \A k \in Positions: list'[k] = list[k] /\ handler'[list[k]] = handler[list[k]]
      BY <1>3, <1>5, <1>6
    <3>2. handler'[list'[Len(list) + 1]].to = clock + Timeout
      BY <1>3, <1>5
    <3>3. \A k \in Positions: handler'[list'[k]].to = handler[list[k]].to
      BY <3>1
    <3> QED
      BY <3>2, <3>3
  <2>2. \A k \in Positions: handler[list[k]].to \in Nat
    BY <1>1, <1>6 DEF TypeOK
  <2> QED
    BY <1>1, <1>5, <1>7, <2>1, <2>2 DEF IInv, DeadlineInv, Positions
<1>13. TurnInv'
  <2>1. \A k \in Positions: /\ Age(handler[list[k]].id) \in 0..MaxId - 1
                            /\ Age(handler[list[k]].id)' = Age(handler[list[k]].id) + 1
    <3>1. ASSUME NEW k \in Positions
          PROVE  /\ Age(handler[list[k]].id) \in 0..MaxId - 1
                 /\ Age(handler[list[k]].id)' = Age(handler[list[k]].id) + 1
      <4>1. handler'[list'[k]] = handler[list[k]]
        BY <1>3, <1>5, <1>6
      <4>2. handler[list[k]].id \in Ids /\ handler[list[k]].id # NextId
        BY <1>6
      <4> DEFINE i == handler[list[k]].id
      <4>3. Age(i) \in 0..MaxId - 1
        BY <1>1, <4>2, AgeNext
      <4>4. i \in 1..MaxId /\ nextId \in 0..MaxId /\ i # NextId
        BY <1>1, <4>2 DEF TypeOK, Ids
      <4> HIDE DEF i
      <4>5. (IF i <= nextId' THEN nextId' - i ELSE nextId' + MaxId - i) = Age(i) + 1
        BY <4>4 DEF Age, NextId
      <4> QED
        BY <4>1, <4>3, <4>5 DEF Age, i
    <3> QED
      BY <3>1
  <2>2. (IF NextId <= nextId' THEN nextId' - NextId ELSE nextId' + MaxId - NextId) = 0
    BY <1>1 DEF Ids
  <2>3. \A j, k \in Positions: j < k => Age(handler[list[j]].id) > Age(handler[list[k]].id)
    BY DEF IInv, TurnInv
  <2>4. ASSUME NEW j \in Positions', NEW k \in Positions', j < k
        PROVE  Age(handler[list[j]].id)' > Age(handler[list[k]].id)'
    <3>1. j \in Positions
      BY <1>5, <1>7, <2>4 DEF Positions
    <3>2. CASE k \in Positions
      BY <2>1, <2>3, <2>4, <3>1, <3>2
    <3>3. CASE k = Len(list) + 1
      <4>1. handler'[list'[k]].id = NextId
        BY <1>3, <1>5, <3>3
      <4>2. Age(handler[list[k]].id)' = 0
        BY <2>2, <4>1 DEF Age
      <4> QED
        BY <2>1, <3>1, <4>2
    <3> QED
      BY <1>7, <3>2, <3>3
  <2> QED
    BY <2>4 DEF TurnInv
<1>14. list' \in Seq({g \in Handlers: handler'[g].id # 0})
  <2>1. \A g \in Handlers: handler[g].id # 0 => handler'[g].id # 0
    BY <1>3
  <2>2. list \in Seq({g \in Handlers: handler'[g].id # 0})
    BY <1>1, <2>1, SeqMonotonic, {g \in Handlers: handler[g].id # 0} \subseteq
                                   {g \in Handlers: handler'[g].id # 0} DEF TypeOK
  <2>3. h \in {g \in Handlers: handler'[g].id # 0}
    BY <1>1, <1>3 DEF Ids
  <2> QED
    BY <1>5, <2>2, <2>3, AppendProperties
<1> QED
  BY <1>9, <1>10, <1>11, <1>12, <1>13, <1>14 DEF CoreInv

LEMMA LeaveStep ==
  ASSUME IInv, NEW h \in Handlers, Listed(h), Leave(h),
         UNCHANGED <<handler, nextId, clock>>,
         \/ state' = state /\ \E what: Call(h, what)
         \/ state' = "crashed" /\ told' = told
  PROVE  CoreInv' /\ list' \in Seq({g \in Handlers: handler[g].id # 0})
<1>1. TypeOK /\ list \in Seq(Handlers)
  BY ListType DEF IInv
<1>2. PICK p \in Positions: list[p] = h
  BY DEF Listed
<1>3. \A k \in Positions: list[k] = list[p] => k = p
  BY <1>2 DEF IInv, ListedInv
<1> DEFINE Bound0 == {g \in Handlers: handler[g].id # 0}
<1>4. list \in Seq(Bound0)
  BY <1>1 DEF TypeOK
<1>5. /\ list' \in Seq(Bound0)
      /\ Len(list') = Len(list) - 1 /\ Len(list) \in Nat /\ p \in 1..Len(list)
      /\ \A k \in 1..Len(list) - 1: list'[k] = IF k < p THEN list[k] ELSE list[k + 1]
  <2> HIDE DEF Bound0
  <2>1. list' = RemoveFirst(list, list[p])
    BY <1>2 DEF Leave
  <2>2. p \in 1..Len(list) /\ \A k \in 1..Len(list): list[k] = list[p] => k = p
    BY <1>3 DEF Positions
  <2> QED
    BY <1>4, <2>1, <2>2, RemoveFirstOnce, LenProperties
<1> DEFINE Old(k) == IF k < p THEN k ELSE k + 1
<1>6. /\ \A k \in Positions': Old(k) \in Positions /\ Old(k) # p /\ list'[k] = list[Old(k)]
      /\ \A j, k \in Positions': (j < k <=> Old(j) < Old(k)) /\ (Old(j) = Old(k) => j = k)
      /\ \A k \in Positions \ {p}: \E j \in Positions': Old(j) = k
  <2>1. Positions' = 1..Len(list) - 1 /\ Positions = 1..Len(list)
    BY <1>5 DEF Positions
  <2>2. \A k \in Positions': Old(k) \in Positions /\ Old(k) # p /\ list'[k] = list[Old(k)]
    BY <1>5, <2>1
  <2>3. \A j, k \in Positions': (j < k <=> Old(j) < Old(k)) /\ (Old(j) = Old(k) => j = k)
    BY <1>5, <2>1
  <2>4. ASSUME NEW k \in Positions \ {p} PROVE \E j \in Positions': Old(j) = k
    <3>1. CASE k < p
      <4>1. k \in Positions' /\ Old(k) = k
        BY <1>5, <2>1, <3>1
      <4> QED
        BY <4>1
    <3>2. CASE k > p
      <4>1. k - 1 \in Positions' /\ Old(k - 1) = k
        BY <1>5, <2>1, <3>2
      <4> QED
        BY <4>1
    <3> QED
      BY <1>5, <2>1, <3>1, <3>2
  <2> QED
    BY <2>2, <2>3, <2>4
<1> HIDE DEF Old
<1>7. \A g \in Handlers: Listed(g)' <=> Listed(g) /\ g # h
  BY <1>2, <1>3, <1>6 DEF Listed
<1>8. \A k \in Positions: list[k] \in Handlers /\ handler[list[k]].id \in Ids
  BY <1>1, ListType
<1>9. handler[h].id \in Ids
  BY <1>2, <1>8
<1>10. map'[handler[h].id] = NoHandler /\ \A i \in Ids \ {handler[h].id}: map'[i] = map[i]
  BY <1>1, <1>9 DEF Leave, TypeOK
<1>11. CalledInv'
  <2>1. told[h] = <<>>
    BY DEF IInv, CalledInv
  <2>2. Len(told'[h]) <= 1 /\ \A g \in Handlers \ {h}: told'[g] = told[g]
    <3>1. CASE told' = told
      BY <3>1 DEF IInv, CalledInv
    <3>2. ASSUME NEW what, Call(h, what)
          PROVE  Len(told'[h]) <= 1 /\ \A g \in Handlers \ {h}: told'[g] = told[g]
      <4>1. told'[h] = Append(<<>>, what) /\ \A g \in Handlers \ {h}: told'[g] = told[g]
        BY <1>1, <2>1, <3>2 DEF Call, TypeOK
      <4>2. Append(<<>>, what) = <<what>>
        OBVIOUS
      <4> QED
        BY <4>1, <4>2
    <3> QED
      BY <3>1, <3>2
  <2>3. handler[h].id # 0
    BY <1>9 DEF Ids
  <2> QED
    BY <1>7, <2>2, <2>3 DEF IInv, CalledInv
<1>12. ListedInv'
  <2>1. \A j, k \in Positions': list'[j] = list'[k] => j = k
    BY <1>6 DEF IInv, ListedInv
  <2>2. ASSUME NEW k \in Positions' PROVE map'[handler[list'[k]].id] = list'[k]
    <3>1. Old(k) \in Positions /\ list'[k] = list[Old(k)] /\ list[Old(k)] # h
      BY <1>2, <1>3, <1>6
    <3>2. map[handler[list[Old(k)]].id] = list[Old(k)] /\ map[handler[h].id] = h
      BY <1>2, <3>1 DEF IInv, ListedInv
    <3>3. handler[list[Old(k)]].id \in Ids \ {handler[h].id}
      BY <1>8, <3>1, <3>2
    <3> QED
      BY <1>10, <3>1, <3>2, <3>3
  <2>3. ASSUME NEW i \in Ids, map'[i] # NoHandler
        PROVE  handler'[map'[i]].id = i /\ Listed(map[i])'
    <3>1. i # handler[h].id /\ map'[i] = map[i]
      BY <1>10, <2>3
    <3>2. handler[map[i]].id = i /\ Listed(map[i]) /\ map[i] \in Handlers
      BY <1>1, <2>3, <3>1 DEF IInv, ListedInv, TypeOK
    <3>3. PICK j \in Positions: list[j] = map[i]
      BY <3>2 DEF Listed
    <3>4. j # p
      BY <1>2, <3>1, <3>2, <3>3
    <3>5. PICK k \in Positions': Old(k) = j
      BY <1>6, <3>4
    <3>6. list'[k] = map'[i]
      BY <1>6, <3>1, <3>3, <3>5
    <3> QED
      BY <3>1, <3>2, <3>6 DEF Listed
  <2> QED
    BY <2>1, <2>2, <2>3 DEF ListedInv
<1>13. KeptInv'
  <2>1. ASSUME state' = "running", NEW g \in Handlers, handler[g].id # 0, told'[g] = <<>>
        PROVE  Listed(g)'
    <3>1. PICK what: Call(h, what)
      BY <2>1
    <3>2. told'[h] = Append(told[h], what) /\ told[h] \in Seq({"timeout"} \union Handlers)
      BY <1>1, <3>1 DEF Call, TypeOK
    <3>3. g # h
      BY <2>1, <3>2
    <3>4. told[g] = <<>> /\ state = "running"
      BY <1>1, <2>1, <3>1, <3>3 DEF Call, TypeOK
    <3> QED
      BY <1>7, <2>1, <3>3, <3>4 DEF IInv, KeptInv
  <2> QED
    BY <2>1 DEF KeptInv
<1>14. DeadlineInv'
  BY <1>6 DEF IInv, DeadlineInv
<1>15. TurnInv'
  BY <1>6 DEF IInv, TurnInv, Age
<1> QED
  BY <1>5, <1>11, <1>12, <1>13, <1>14, <1>15 DEF CoreInv

-------------------------------------------------------------------------------
(* Every step keeps the invariant. *)

LEMMA RestStep ==
  ASSUME IInv, UNCHANGED <<handler, told, map, list>>, clock' \in Nat, clock <= clock',
         (nextId' = nextId /\ state' = state) \/ state' = "aborted"
  PROVE  CoreInv'
<1>1. TypeOK
  BY DEF IInv
<1>2. CalledInv' /\ ListedInv' /\ KeptInv'
  BY DEF IInv, CalledInv, ListedInv, KeptInv, Listed, Positions
<1>3. DeadlineInv'
  <2>1. \A k \in Positions: handler[list[k]].to \in Nat
    <3>1. \A h \in Handlers: handler[h].to \in Nat
      BY <1>1 DEF TypeOK
    <3> QED
      BY <1>1, <3>1, ListType
  <2>2. clock + Timeout <= clock' + Timeout
    <3>1. clock \in Nat /\ Timeout \in Nat
      BY <1>1 DEF TypeOK
    <3>2. \A m, n, t \in Nat: m <= n => m + t <= n + t
      OBVIOUS
    <3> QED
      BY <3>1, <3>2
  <2>3. \A k \in Positions: handler[list[k]].to <= clock' + Timeout
    <3>1. \A k \in Positions: handler[list[k]].to <= clock + Timeout
      BY DEF IInv, DeadlineInv
    <3> QED
      BY <1>1, <2>1, <2>2, <3>1 DEF TypeOK
  <2> QED
    BY <2>3 DEF IInv, DeadlineInv, Positions
<1>4. TurnInv'
  BY DEF IInv, TurnInv, Positions, Age
<1> QED
  BY <1>2, <1>3, <1>4 DEF CoreInv

(* A handler's answer outlives whatever happens to other handlers. *)
LEMMA SendStep ==
  ASSUME IInv, NEW h \in Handlers, NEW uid \in Uids \union {NoUid}, Send(h, uid)
  PROVE  IInv'
<1>1. /\ TypeOK /\ state = "running" /\ handler[h].id = 0 /\ nextId' = NextId
      /\ NextId \in Ids /\ clock + Timeout <= MaxClock
      /\ UNCHANGED <<available, told, clock, sweep>>
  BY NextIdType DEF IInv, Send, Bind
<1>2. CASE IdTaken
  <2>1. state' = "aborted" /\ UNCHANGED <<handler, map, list, calls, inbox>>
    BY <1>2 DEF Send, Bind
  <2>2. CoreInv'
    BY <1>1, <2>1, RestStep DEF TypeOK
  <2>3. TypeOK'
    BY <1>1, <2>1 DEF TypeOK, Ids, Answers, Idle
  <2>4. AnswerInv' /\ OwnAnswer'
    BY <1>1, <2>1 DEF IInv, AnswerInv, Answering, OwnAnswer
  <2> QED
    BY <2>2, <2>3, <2>4 DEF IInv, CoreInv
<1>3. CASE ~IdTaken
  <2>1. Bound(h, uid) /\ state' = state
    BY <1>3 DEF Send, Bind
  <2>2. CoreInv' /\ list' \in Seq({g \in Handlers: handler'[g].id # 0})
    BY <1>1, <1>3, <2>1, BoundStep
  <2>3. /\ handler'[h] = [uid |-> uid, id |-> NextId, to |-> clock + Timeout]
        /\ \A g \in Handlers \ {h}: handler'[g] = handler[g]
    BY <1>1, <2>1 DEF TypeOK, Bound
  <2>4. PICK new \in Answers: new = Answer(h, uid)
    BY <1>1 DEF Answer, Answers
  <2>5. /\ calls' \in SUBSET Answers /\ calls' \subseteq calls \union {new}
        /\ inbox' \in Seq(Answers) /\ inbox' \in {inbox, Append(inbox, new)}
    <3>1. calls \subseteq Answers /\ inbox \in Seq(Answers)
      BY <1>1 DEF TypeOK
    <3>2. \/ inbox' = Append(inbox, new) /\ calls' = calls
          \/ calls' = calls \union {new} /\ inbox' = inbox
      BY <1>3, <2>4 DEF Send
    <3>3. Append(inbox, new) \in Seq(Answers)
      BY <2>4, <3>1, AppendProperties
    <3> QED
      BY <2>4, <3>1, <3>2, <3>3
  <2>6. TypeOK'
    <3>1. handler' \in [Handlers -> [uid: Uids \union {NoUid}, id: 0..MaxId,
                                     to: 0..MaxClock + Timeout]]
      <4>1. clock + Timeout \in 0..MaxClock + Timeout /\ NextId \in 0..MaxId
        BY <1>1 DEF TypeOK, Ids
      <4> QED
        BY <1>1, <2>1, <4>1 DEF TypeOK, Bound
    <3>2. map' \in [Ids -> Handlers \union {NoHandler}]
      BY <1>1, <2>1 DEF TypeOK, Bound
    <3>3. nextId' \in 0..MaxId
      BY <1>1 DEF Ids
    <3> QED
      BY <1>1, <2>1, <2>2, <2>5, <3>1, <3>2, <3>3 DEF TypeOK
  <2>7. AnswerInv'
    <3>1. ASSUME NEW a \in Answers, Answering(a) PROVE Answering(a)'
      <4>1. a.of \in Handlers \ {h}
        BY <1>1, <3>1 DEF Answers, Answering, Ids
      <4> QED
        BY <2>3, <3>1, <4>1 DEF Answering
    <3>2. Answering(new)'
      <4>1. new.of = h /\ new.id = NextId /\ new.uid = uid
        BY <2>4 DEF Answer
      <4> QED
        BY <2>3, <4>1 DEF Answering
    <3>3. \A a \in calls': Answering(a)'
      <4>1. \A a \in calls: a \in Answers /\ Answering(a)
        BY <1>1 DEF IInv, AnswerInv, TypeOK
      <4> QED
        BY <2>5, <3>1, <3>2, <4>1
    <3>4. ASSUME NEW i \in 1..Len(inbox') PROVE Answering(inbox[i])'
      <4>1. \A j \in 1..Len(inbox): inbox[j] \in Answers /\ Answering(inbox[j])
        BY <1>1, ElementOfSeq DEF IInv, AnswerInv, TypeOK
      <4>2. CASE inbox' = inbox
        BY <3>1, <3>4, <4>1, <4>2 DEF Answering
      <4>3. CASE inbox' = Append(inbox, new)
        <5>1. /\ Len(inbox') = Len(inbox) + 1 /\ Len(inbox) \in Nat
              /\ \A j \in 1..Len(inbox): inbox'[j] = inbox[j]
              /\ inbox'[Len(inbox) + 1] = new
          BY <1>1, <2>4, <4>3, AppendProperties, LenProperties DEF TypeOK
        <5>2. CASE i = Len(inbox) + 1
          BY <3>2, <5>1, <5>2 DEF Answering
        <5>3. CASE i \in 1..Len(inbox)
          BY <3>1, <4>1, <5>1, <5>3 DEF Answering
        <5> QED
          BY <3>4, <5>1, <5>2, <5>3
      <4> QED
        BY <2>5, <4>2, <4>3
    <3> QED
      BY <3>3, <3>4 DEF AnswerInv, Answering
  <2>8. OwnAnswer'
    <3>1. ASSUME NEW f \in Handlers, NEW g \in Handlers, told'[f] # <<>>, told'[f][1] = g
          PROVE  handler'[g].id = handler'[f].id /\ handler'[g].uid = handler'[f].uid
      <4>1. handler[g].id = handler[f].id /\ handler[g].uid = handler[f].uid
        BY <1>1, <3>1 DEF IInv, OwnAnswer
      <4>2. handler[f].id # 0
        BY <1>1, <3>1 DEF IInv, CalledInv
      <4> QED
        BY <1>1, <2>3, <4>1, <4>2
    <3> QED
      BY <3>1 DEF OwnAnswer
  <2> QED
    BY <2>2, <2>6, <2>7, <2>8 DEF IInv, CoreInv
<1> QED
  BY <1>2, <1>3

(* Taking the handler out keeps the types, and the answers say what they   *)
(* said.                                                                   *)
LEMMA LeaveKeeps ==
  ASSUME IInv, NEW h \in Handlers, Listed(h), Leave(h),
         UNCHANGED <<handler, nextId, clock, available, calls>>,
         sweep' \in 0..MaxClock \union {Idle},
         inbox' \in Seq(Answers), \A i \in 1..Len(inbox'): Answering(inbox'[i]),
         \/ /\ state' = state
            /\ \E what \in {"timeout"} \union Handlers:
                 /\ Call(h, what)
                 /\ what \in Handlers => /\ handler[what].id = handler[h].id
                                         /\ handler[what].uid = handler[h].uid
         \/ state' = "crashed" /\ told' = told
  PROVE  IInv'
<1>1. TypeOK /\ told[h] = <<>>
  BY DEF IInv, CalledInv
<1>2. CoreInv' /\ list' \in Seq({g \in Handlers: handler[g].id # 0})
  BY LeaveStep
<1>3. map' \in [Ids -> Handlers \union {NoHandler}]
  BY <1>1 DEF Leave, TypeOK
<1>4. /\ told' \in [Handlers -> Seq({"timeout"} \union Handlers)]
      /\ OwnAnswer'
  <2>1. CASE told' = told
    BY <1>1, <2>1 DEF IInv, TypeOK, OwnAnswer
  <2>2. ASSUME NEW what \in {"timeout"} \union Handlers, Call(h, what),
               what \in Handlers => /\ handler[what].id = handler[h].id
                                    /\ handler[what].uid = handler[h].uid
        PROVE  /\ told' \in [Handlers -> Seq({"timeout"} \union Handlers)]
               /\ OwnAnswer'
    <3>1. told' = [told EXCEPT ![h] = <<what>>]
      BY <1>1, <2>2 DEF Call, TypeOK
    <3>2. <<what>> \in Seq({"timeout"} \union Handlers) /\ <<what>>[1] = what
      OBVIOUS
    <3>3. told' \in [Handlers -> Seq({"timeout"} \union Handlers)]
      BY <1>1, <3>1, <3>2 DEF TypeOK
    <3>4. told'[h][1] = what /\ \A g \in Handlers \ {h}: told'[g] = told[g]
      BY <1>1, <3>1, <3>2 DEF TypeOK
    <3>5. OwnAnswer'
      BY <2>2, <3>4 DEF IInv, OwnAnswer
    <3> QED
      BY <3>3, <3>5
  <2> QED
    BY <2>1, <2>2
<1>5. TypeOK'
  BY <1>1, <1>2, <1>3, <1>4 DEF TypeOK
<1>6. AnswerInv'
  BY DEF IInv, AnswerInv, Answering
<1> QED
  BY <1>2, <1>4, <1>5, <1>6 DEF IInv, CoreInv

LEMMA OnIOPacketStep ==
  ASSUME IInv, OnIOPacket
  PROVE  IInv'
<1>1. TypeOK /\ inbox \in Seq(Answers) /\ inbox # <<>>
  BY DEF IInv, TypeOK, OnIOPacket
<1>2. PICK p \in Answers: p = Head(inbox) /\ Answering(p)
  <2>1. Head(inbox) \in Answers /\ Head(inbox) = inbox[1] /\ 1 \in 1..Len(inbox)
    BY <1>1, HeadTailProperties, EmptySeq
  <2> QED
    BY <2>1 DEF IInv, AnswerInv
<1>3. /\ inbox' \in Seq(Answers)
      /\ \A i \in 1..Len(inbox'): Answering(inbox'[i])
  <2>1. /\ inbox' \in Seq(Answers) /\ Len(inbox') = Len(inbox) - 1
        /\ \A i \in 1..Len(inbox'): inbox'[i] = inbox[i + 1]
    BY <1>1, HeadTailProperties DEF OnIOPacket
  <2>2. Len(inbox) \in Nat
    BY <1>1, LenProperties
  <2>3. \A i \in 1..Len(inbox'): i + 1 \in 1..Len(inbox)
    BY <2>1, <2>2
  <2> QED
    BY <2>1, <2>3 DEF IInv, AnswerInv
<1>4. UNCHANGED <<handler, nextId, sweep, available, calls, clock>>
  BY DEF OnIOPacket
<1>5. CASE UNCHANGED <<told, map, list>> /\ (state' = state \/ state' = "aborted")
  <2>1. CoreInv'
    BY <1>1, <1>4, <1>5, RestStep DEF TypeOK
  <2>2. TypeOK'
    BY <1>1, <1>3, <1>4, <1>5 DEF TypeOK
  <2>3. AnswerInv' /\ OwnAnswer'
    BY <1>3, <1>4, <1>5 DEF IInv, AnswerInv, Answering, OwnAnswer
  <2> QED
    BY <2>1, <2>2, <2>3 DEF IInv, CoreInv
<1>6. ASSUME NEW h \in Handlers, h = map[p.id], handler[h].uid = p.uid,
             Call(h, p.of), Leave(h), UNCHANGED state
      PROVE  IInv'
  <2>1. p.id \in Ids /\ p.of \in Handlers
    BY DEF Answers
  <2>2. Listed(h) /\ handler[h].id = p.id
    BY <1>6, <2>1 DEF IInv, ListedInv
  <2>3. handler[p.of].id = handler[h].id /\ handler[p.of].uid = handler[h].uid
    BY <1>2, <1>6, <2>2 DEF Answering
  <2>4. sweep' \in 0..MaxClock \union {Idle}
    BY <1>1, <1>4 DEF TypeOK
  <2> QED
    BY <1>3, <1>4, <1>6, <2>1, <2>2, <2>3, <2>4, LeaveKeeps
<1> QED
  <2>1. \/ UNCHANGED <<told, map, list, state>>
        \/ DispatchCallback(p)
    BY <1>2 DEF OnIOPacket
  <2>2. ASSUME DispatchCallback(p) PROVE IInv'
    <3> DEFINE h == map[p.id]
    <3>1. h \in Handlers \union {NoHandler}
      BY <1>1 DEF TypeOK, Answers
    <3>2. CASE h = NoHandler
      BY <1>5, <2>2, <3>2 DEF DispatchCallback
    <3>3. CASE h # NoHandler /\ handler[h].uid # p.uid
      BY <1>5, <2>2, <3>3 DEF DispatchCallback
    <3>4. CASE h # NoHandler /\ handler[h].uid = p.uid
      BY <1>6, <2>2, <3>1, <3>4 DEF DispatchCallback
    <3> QED
      BY <3>2, <3>3, <3>4
  <2> QED
    BY <1>5, <2>1, <2>2

LEMMA SweepStep ==
  ASSUME IInv, NEW now \in 0..MaxClock, Sweep(now)
  PROVE  IInv'
<1>1. TypeOK /\ list \in Seq(Handlers)
  BY ListType DEF IInv
<1>2. UNCHANGED <<handler, nextId, available, calls, inbox, clock>>
  BY DEF Sweep
<1>3. CASE Expired(now)
  <2>1. PICK h \in Handlers: h = Head(list) /\ Listed(h)
    <3>1. list # <<>>
      BY <1>3 DEF Expired
    <3>2. Head(list) = list[1] /\ 1 \in Positions
      BY <1>1, <3>1, EmptySeq DEF Positions
    <3> QED
      BY <1>1, <3>2, ListType DEF Listed
  <2>2. sweep' = now /\ Expire(h) /\ Leave(h)
    BY <1>3, <2>1 DEF Sweep, Expire
  <2>3. \/ state' = state /\ Call(h, "timeout")
        \/ state' = "crashed" /\ told' = told
    BY <2>2 DEF Expire
  <2>4. inbox' \in Seq(Answers) /\ \A i \in 1..Len(inbox'): Answering(inbox'[i])
    BY <1>1, <1>2 DEF IInv, TypeOK, AnswerInv
  <2> QED
    BY <1>2, <2>1, <2>2, <2>3, <2>4, LeaveKeeps
<1>4. CASE ~Expired(now)
  <2>1. sweep' = Idle /\ UNCHANGED <<told, map, list, state>>
    BY <1>4 DEF Sweep
  <2>2. CoreInv'
    BY <1>1, <1>2, <2>1, RestStep DEF TypeOK
  <2>3. TypeOK' /\ AnswerInv' /\ OwnAnswer'
    BY <1>1, <1>2, <2>1 DEF IInv, TypeOK, AnswerInv, Answering, OwnAnswer
  <2> QED
    BY <2>2, <2>3 DEF IInv, CoreInv
<1> QED
  BY <1>3, <1>4

LEMMA PeerStep ==
  ASSUME IInv, NEW c \in calls, PeerAnswers(c) \/ Lost(c)
  PROVE  IInv'
<1>1. TypeOK /\ c \in Answers /\ Answering(c)
  BY DEF IInv, TypeOK, AnswerInv
<1>2. /\ UNCHANGED <<engine, available, clock>>
      /\ calls' \subseteq calls
      /\ inbox' \in {inbox, Append(inbox, c)}
  BY DEF PeerAnswers, Lost
<1>3. CoreInv'
  BY <1>1, <1>2, RestStep DEF engine, TypeOK
<1>4. inbox' \in Seq(Answers) /\ \A i \in 1..Len(inbox'): Answering(inbox'[i])
  <2>1. inbox \in Seq(Answers) /\ Len(inbox) \in Nat
    BY <1>1, LenProperties DEF TypeOK
  <2>2. CASE inbox' = inbox
    BY <2>1, <2>2 DEF IInv, AnswerInv
  <2>3. CASE inbox' = Append(inbox, c)
    <3>1. /\ inbox' \in Seq(Answers) /\ Len(inbox') = Len(inbox) + 1
          /\ \A j \in 1..Len(inbox): inbox'[j] = inbox[j]
          /\ inbox'[Len(inbox) + 1] = c
      BY <1>1, <2>1, <2>3, AppendProperties
    <3>2. \A i \in 1..Len(inbox'): i \in 1..Len(inbox) \/ i = Len(inbox) + 1
      BY <2>1, <3>1
    <3>3. \A j \in 1..Len(inbox): Answering(inbox[j])
      BY DEF IInv, AnswerInv
    <3> QED
      BY <1>1, <3>1, <3>2, <3>3
  <2> QED
    BY <1>2, <2>2, <2>3
<1>5. TypeOK'
  <2>1. calls' \subseteq Answers
    BY <1>1, <1>2 DEF TypeOK
  <2> QED
    BY <1>1, <1>2, <1>4, <2>1 DEF TypeOK, engine
<1>6. AnswerInv' /\ OwnAnswer'
  BY <1>2, <1>4 DEF IInv, AnswerInv, Answering, OwnAnswer, engine
<1> QED
  BY <1>3, <1>5, <1>6 DEF IInv, CoreInv

LEMMA NextStep ==
  ASSUME IInv, [Next]_vars
  PROVE  IInv'
<1>1. ASSUME NEW h \in Handlers, NEW uid \in Uids \union {NoUid}, Send(h, uid) PROVE IInv'
  BY <1>1, SendStep
<1>2. CASE OnIOPacket
  BY <1>2, OnIOPacketStep
<1>3. CASE OnTimerCallbackTimeout
  <2>1. clock \in 0..MaxClock
    BY DEF IInv, TypeOK
  <2> QED
    BY <1>3, <2>1, SweepStep DEF OnTimerCallbackTimeout
<1>4. CASE NextTurn
  <2>1. sweep \in 0..MaxClock /\ Sweep(sweep)
    BY <1>4 DEF IInv, TypeOK, NextTurn
  <2> QED
    BY <2>1, SweepStep
<1>5. ASSUME NEW c \in calls, PeerAnswers(c) \/ Lost(c) PROVE IInv'
  BY <1>5, PeerStep
<1>6. CASE (\E uid \in Uids: Closed(uid)) \/ Tick \/ UNCHANGED vars
  <2>1. /\ UNCHANGED <<engine, calls, inbox>> /\ available' \subseteq Uids
        /\ clock' \in 0..MaxClock /\ clock <= clock'
    BY <1>6 DEF Closed, Tick, vars, IInv, TypeOK
  <2>2. CoreInv'
    BY <2>1, RestStep DEF engine
  <2>3. TypeOK' /\ AnswerInv' /\ OwnAnswer'
    BY <2>1 DEF IInv, TypeOK, AnswerInv, Answering, OwnAnswer, engine
  <2> QED
    BY <2>2, <2>3 DEF IInv, CoreInv
<1> QED
  BY <1>1, <1>2, <1>3, <1>4, <1>5, <1>6 DEF Next

LEMMA InitHolds == Init => IInv
<1> SUFFICES ASSUME Init PROVE IInv
  OBVIOUS
<1>1. list = <<>> /\ Positions = {} /\ inbox = <<>> /\ calls = {}
  BY DEF Init, Positions
<1>2. TypeOK
  BY DEF Init, TypeOK
<1>3. CalledInv /\ ListedInv /\ KeptInv /\ DeadlineInv /\ TurnInv
  BY <1>1 DEF Init, CalledInv, ListedInv, KeptInv, DeadlineInv, TurnInv, Listed
<1>4. AnswerInv /\ OwnAnswer
  BY <1>1 DEF Init, AnswerInv, OwnAnswer
<1> QED
  BY <1>2, <1>3, <1>4 DEF IInv

LEMMA Invariance == Spec => []IInv
<1>1. IInv /\ [Next]_vars => IInv'
  BY NextStep
<1> QED
  BY <1>1, InitHolds, PTL DEF Spec

-------------------------------------------------------------------------------
(* Theorems. *)

(* Every variable keeps its type, for any number of handlers and ids.      *)
THEOREM TypeCorrect == Spec => []TypeOK
BY Invariance, PTL DEF IInv

(* dispactchCallback and onTimerCallbackTimeout together call a handler at *)
(* most once.                                                              *)
THEOREM CalledOnce == Spec => []OneOutcome
<1>1. IInv => OneOutcome
  BY DEF IInv, CalledInv, OneOutcome
<1> QED
  BY <1>1, Invariance, PTL

(* _callbackHandlers and _callbackTimeOutList hold the same handlers, each *)
(* once and under its own id.                                              *)
THEOREM MapAndListAgree == Spec => []PendingAgree
<1>1. ASSUME IInv PROVE PendingAgree
  <2>1. TypeOK /\ list \in Seq(Handlers) /\ DOMAIN list = Positions
    BY <1>1, ListType, LenProperties DEF IInv, Positions
  <2>2. Pending = ToSet(list)
    <3>1. \A h \in Handlers: Listed(h) <=> h \in ToSet(list)
      BY <2>1 DEF Listed, ToSet
    <3>2. \A h \in Handlers: Listed(h) <=> h \in Pending
      <4>1. ASSUME NEW h \in Handlers, Listed(h) PROVE h \in Pending
        <5>1. PICK k \in Positions: list[k] = h
          BY <4>1 DEF Listed
        <5>2. handler[list[k]].id \in Ids /\ map[handler[list[k]].id] = list[k]
          BY <1>1, <2>1, ListType DEF IInv, ListedInv
        <5> QED
          BY <5>1, <5>2 DEF Pending
      <4>2. ASSUME NEW h \in Pending PROVE Listed(h)
        BY <1>1, <4>2 DEF Pending, IInv, ListedInv
      <4> QED
        BY <4>1, <4>2
    <3>3. ToSet(list) \subseteq Handlers
      BY <2>1, ListType DEF ToSet
    <3>4. Pending \subseteq Handlers
      BY DEF Pending
    <3> QED
      BY <3>1, <3>2, <3>3, <3>4
  <2>3. IsInjective(list)
    BY <1>1, <2>1 DEF IsInjective, IInv, ListedInv
  <2> QED
    BY <1>1, <2>2, <2>3 DEF PendingAgree, IInv, ListedInv
<1> QED
  BY <1>1, Invariance, PTL

(* However often the ids come round, makeCallbackId never takes the place  *)
(* of a handler that waits: looking at the oldest one is enough.           *)
THEOREM NobodyLost == Spec => []NoneLost
<1>1. ASSUME IInv PROVE NoneLost
  BY <1>1 DEF IInv, NoneLost, KeptInv, ListedInv, Listed
<1> QED
  BY <1>1, Invariance, PTL

(* dispactchCallback gives a handler only answers to its id and its uid.   *)
THEOREM AnswersFit == Spec => []OwnAnswer
BY Invariance, PTL DEF IInv

(* onTimerCallbackTimeout leaves no handler in the list whose time is over, *)
(* although it stops at the first one whose time is not.                    *)
THEOREM LoopSweepsAll == Spec => SweptAll
<1>1. ASSUME IInv, [Next]_vars, sweep # Idle, sweep' = Idle
      PROVE  \A h \in ToSet(list'): handler[h].to > sweep
  <2>1. TypeOK /\ list \in Seq(Handlers) /\ DOMAIN list = Positions
    BY <1>1, ListType, LenProperties DEF IInv, Positions
  <2>2. NextTurn
    BY <1>1 DEF Next, vars, Send, OnIOPacket, OnTimerCallbackTimeout, PeerAnswers, Lost,
                Closed, Tick, engine
  <2>3. sweep \in 0..MaxClock /\ Idle \notin 0..MaxClock
    BY <1>1, <2>1 DEF TypeOK, Idle
  <2>4. ~Expired(sweep) /\ list' = list
    BY <1>1, <2>2, <2>3 DEF NextTurn, Sweep
  <2>5. ASSUME NEW k \in Positions PROVE handler[list[k]].to > sweep
    <3>1. /\ 1 \in Positions /\ list # <<>> /\ Head(list) = list[1]
          /\ k \in Nat /\ k >= 1
      BY <2>1, <2>5, LenProperties DEF Positions
    <3>2. handler[list[1]].to \in Nat /\ handler[list[k]].to \in Nat
      <4>1. list[1] \in Handlers /\ list[k] \in Handlers
        BY <2>1, <3>1
      <4>2. \A h \in Handlers: handler[h].to \in Nat
        BY <2>1 DEF TypeOK
      <4> QED
        BY <4>1, <4>2
    <3>3. handler[list[1]].to > sweep
      BY <2>3, <2>4, <3>1, <3>2 DEF Expired
    <3>4. handler[list[1]].to <= handler[list[k]].to
      BY <1>1, <3>1, <3>2 DEF IInv, DeadlineInv
    <3> QED
      BY <2>3, <3>2, <3>3, <3>4
  <2> QED
    BY <2>1, <2>4, <2>5 DEF ToSet
<1>2. IInv /\ [Next]_vars =>
        [sweep # Idle /\ sweep' = Idle =>
           \A h \in ToSet(list'): handler[h].to > sweep]_vars
  BY <1>1
<1> QED
  BY <1>2, Invariance, PTL DEF Spec, SweptAll

===============================================================================

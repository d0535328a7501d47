------------------------------ MODULE RingBuffer ------------------------------
(***************************************************************************)
(* CRingBuffer (network/RingBuffer.cpp), the input and the output buffer   *)
(* of a connection, with the two ways the network thread moves bytes       *)
(* between it and a socket (readv and writev, TCP_Network.cpp).            *)
(*                                                                         *)
(* A Copy that runs over the end of the allocation makes the memory grow,  *)
(* which TypeOK forbids.                                                   *)
(***************************************************************************)
EXTENDS Naturals, Sequences, Memory

CONSTANTS Bytes,     \* the values of a byte
          InitCap,   \* the capacity a buffer is created with
          BoundSize, \* BOUND_SIZE
          ShrinkSize,\* SHRINK_SIZE
          ExtraLen,  \* extralen, the stack buffer of handleTcpConRead
          MaxSize,   \* bound: bytes in the buffer
          MaxData,   \* bound: bytes written at once
          MaxCap     \* bound: capacities reached by growing

ASSUME NoByteAssumption == NoByte \notin Bytes
ASSUME SizeAssumption ==
  /\ InitCap \in 1..MaxCap /\ ShrinkSize \in 1..MaxCap
  /\ BoundSize \in Nat /\ ExtraLen \in Nat \ {0}
  /\ MaxSize \in Nat /\ MaxData \in Nat
  /\ MaxCap \in Nat /\ 2 * MaxSize <= MaxCap + 1

VARIABLES ring,  \* _capacity, _front, _end, _size and _buff
          moved  \* the bytes that the last operation wrote or handed out

vars == <<ring, moved>>

Init ==
  /\ ring = [cap |-> InitCap, front |-> 0, end |-> 0, size |-> 0,
             buff |-> Allocated(InitCap)]
  /\ moved = <<>>

TypeOK ==
  /\ ring.cap \in 1..MaxCap
  /\ ring.front \in 0..ring.cap - 1 /\ ring.end \in 0..ring.cap - 1
  /\ ring.size \in 0..ring.cap
  /\ ring.buff \in [0..ring.cap - 1 -> Bytes \union {NoByte}]
  /\ moved \in Seq(Bytes)

-------------------------------------------------------------------------------
(* The operations of CRingBuffer on a ring r. *)

(* Faulty variants: _end is not moved; only the bytes up to the end of the *)
(* memory move over.                                                       *)
ResizeKeepsEnd(r, newcapacity) ==
  [r EXCEPT !.cap = newcapacity, !.front = 0,
            !.buff = Copy(Allocated(newcapacity), 0, r.buff, 0, r.cap)]
ResizeFirstPart(r, newcapacity) ==
  LET len == IF r.end <= r.front THEN r.cap - r.front ELSE r.size
  IN [r EXCEPT !.cap = newcapacity, !.front = 0, !.end = r.size,
               !.buff = IF r.size = 0 THEN Allocated(newcapacity)
                        ELSE Copy(Allocated(newcapacity), 0, r.buff, r.front, len)]

Resize(r, newcapacity) ==
  LET len == r.cap - r.front
      new == Allocated(newcapacity)
  IN [r EXCEPT !.cap = newcapacity, !.front = 0, !.end = r.size,
               !.buff = IF r.size = 0 THEN new
                        ELSE IF r.end <= r.front
                        THEN Copy(Copy(new, 0, r.buff, r.front, len), len, r.buff, 0, r.end)
                        ELSE Copy(new, 0, r.buff, r.front, r.size)]

Ensure(r, need) == IF r.cap >= need THEN r ELSE Resize(r, Grown(r.cap, need))

(* write, once there is room. *)
Store(r, data) ==
  LET len == Len(data)
      count == r.cap - r.end
      d == [r EXCEPT !.size = @ + len]
  IN IF r.end < r.front \/ len < count
     THEN [d EXCEPT !.buff = Copy(@, r.end, data, 1, len), !.end = @ + len]
     ELSE [d EXCEPT !.buff = Copy(Copy(@, r.end, data, 1, count),
                                  0, data, count + 1, len - count),
                    !.end = len - count]

Write(r, data) == Store(Ensure(r, r.size + Len(data)), data)

(* Faulty variant: a write that ends at the end of the memory leaves _end there. *)
WriteConfirmAtEnd(r, len) ==
  LET count == r.cap - r.end
  IN [r EXCEPT !.size = @ + len,
               !.end = IF r.end < r.front \/ len <= count THEN @ + len ELSE len - count]

WriteConfirm(r, len) ==
  LET count == r.cap - r.end
  IN [r EXCEPT !.size = @ + len,
               !.end = IF r.end < r.front \/ len < count THEN @ + len ELSE len - count]

(* The bytes that read and look copy out. *)
Look(r, len) ==
  LET count == r.cap - r.front
  IN IF r.end > r.front \/ count >= len
     THEN Copy(<<>>, 1, r.buff, r.front, len)
     ELSE Copy(Copy(<<>>, 1, r.buff, r.front, count), count + 1, r.buff, 0, len - count)

ReadConfirm(r, len) ==
  LET count == r.cap - r.front
  IN [r EXCEPT !.size = @ - len,
               !.front = IF r.end > r.front \/ count > len THEN @ + len ELSE len - count]

TryShrink(r) ==
  IF r.size = 0 /\ r.cap > BoundSize THEN Resize(r, ShrinkSize) ELSE r

Read(r, len) == TryShrink(ReadConfirm(r, len))

(* Faulty variant: the second part reaches up to _front. *)
WriteableVecToFront(r) ==
  IF r.size = r.cap THEN <<[at |-> 0, len |-> 0], [at |-> 0, len |-> 0]>>
  ELSE IF r.end >= r.front
  THEN <<[at |-> r.end, len |-> r.cap - r.end], [at |-> 0, len |-> r.front + 1]>>
  ELSE <<[at |-> r.end, len |-> r.front - r.end], [at |-> 0, len |-> 0]>>

(* The free memory behind _end, in two parts; the second leaves one byte   *)
(* before _front unused.                                                   *)
WriteableVec(r) ==
  IF r.size = r.cap THEN <<[at |-> 0, len |-> 0], [at |-> 0, len |-> 0]>>
  ELSE IF r.end >= r.front
  THEN <<[at |-> r.end, len |-> r.cap - r.end],
         [at |-> 0, len |-> IF r.front > 0 THEN r.front - 1 ELSE 0]>>
  ELSE <<[at |-> r.end, len |-> r.front - r.end], [at |-> 0, len |-> 0]>>

ReadableVec(r) ==
  IF r.size = 0 THEN <<[at |-> 0, len |-> 0], [at |-> 0, len |-> 0]>>
  ELSE IF r.end > r.front
  THEN <<[at |-> r.front, len |-> r.size], [at |-> 0, len |-> 0]>>
  ELSE LET len1 == r.cap - r.front
       IN <<[at |-> r.front, len |-> len1], [at |-> 0, len |-> r.size - len1]>>

-------------------------------------------------------------------------------
(* Moving bytes between the buffer and a socket. *)

(* readv puts data into the parts of the writeable vector, in order. *)
Scatter(r, data) ==
  LET v == WriteableVec(r)
      len == Len(data)
  IN IF len <= v[1].len
     THEN [r EXCEPT !.buff = Copy(@, v[1].at, data, 1, len)]
     ELSE [r EXCEPT !.buff = Copy(Copy(@, v[1].at, data, 1, v[1].len),
                                  v[2].at, data, v[1].len + 1, len - v[1].len)]

Writeable(r) == WriteableVec(r)[1].len + WriteableVec(r)[2].len

(* handleTcpConRead: a stack buffer takes what the ring has no room for. *)
Received(r, data) ==
  LET room == Writeable(r)
      len == Len(data)
  IN IF len <= room
     THEN WriteConfirm(Scatter(r, data), len)
     ELSE LET full == IF room > 0
                      THEN WriteConfirm(Scatter(r, SubSeq(data, 1, room)), room) ELSE r
          IN Write(full, SubSeq(data, room + 1, len))

(* At most this many bytes: iovcnt leaves out the parts not needed. *)
ReadvLimit(r) ==
  LET len1 == WriteableVec(r)[1].len
  IN IF len1 >= ExtraLen THEN len1
     ELSE IF Writeable(r) >= ExtraLen THEN Writeable(r)
     ELSE Writeable(r) + ExtraLen

(* The first n bytes of the readable vector, as writev sends them. *)
Gather(r, n) ==
  LET v == ReadableVec(r)
  IN IF n <= v[1].len THEN Copy(<<>>, 1, r.buff, v[1].at, n)
     ELSE Copy(Copy(<<>>, 1, r.buff, v[1].at, v[1].len),
               v[1].len + 1, r.buff, v[2].at, n - v[1].len)

-------------------------------------------------------------------------------
Data == UNION {[1..n -> Bytes]: n \in 1..MaxData}

AppendData(data) ==
  /\ ring.size + Len(data) <= MaxSize
  /\ ring' = Write(ring, data)
  /\ moved' = data

Receive(data) ==
  /\ ring.size + Len(data) <= MaxSize /\ Len(data) <= ReadvLimit(ring)
  /\ ring' = Received(ring, data)
  /\ moved' = data

ReadOut(n) ==
  /\ moved' = Look(ring, n)
  /\ ring' = Read(ring, n)

LookAt(n) ==
  /\ moved' = Look(ring, n)
  /\ UNCHANGED ring

(* handleTcpConWrite: writev takes n of the bytes, read_confirm drops them. *)
Flush(n) ==
  /\ moved' = Gather(ring, n)
  /\ ring' = ReadConfirm(ring, n)

Clear ==
  /\ ring' = [ring EXCEPT !.front = 0, !.end = 0, !.size = 0]
  /\ UNCHANGED moved

Next ==
  \/ \E data \in Data: AppendData(data) \/ Receive(data)
  \/ \E n \in 1..ring.size: ReadOut(n) \/ LookAt(n) \/ Flush(n)
  \/ Clear

Spec == Init /\ [][Next]_vars

-------------------------------------------------------------------------------
(* Properties. *)

(* The bytes between _front and _end, around the end of the memory. *)
At(r, i) == IF r.front + i - 1 < r.cap THEN r.front + i - 1 ELSE r.front + i - 1 - r.cap
Contents(r) == [i \in 1..r.size |-> r.buff[At(r, i)]]

(* The indexes agree with the size: a full ring and an empty one, which    *)
(* both have _end = _front, are told apart by it alone.                    *)
IndexesMatchSize ==
  \/ ring.end > ring.front /\ ring.size = ring.end - ring.front
  \/ ring.end < ring.front /\ ring.size = ring.cap - ring.front + ring.end
  \/ ring.end = ring.front /\ ring.size \in {0, ring.cap}

(* The memory offered to readv is allocated, and holds no byte that is     *)
(* still to be read; what is offered to writev is exactly what is held.    *)
Indexes(v) == (v[1].at..v[1].at + v[1].len - 1) \union (v[2].at..v[2].at + v[2].len - 1)
Held == {At(ring, i): i \in 1..ring.size}
VectorsFit ==
  /\ Indexes(WriteableVec(ring)) \subseteq 0..ring.cap - 1
  /\ Indexes(WriteableVec(ring)) \intersect Held = {}
  /\ Indexes(ReadableVec(ring)) = Held

(* The ring is a queue of bytes. *)
Queue == INSTANCE ByteQueue WITH queue <- Contents(ring)
QueueSpec == Queue!Spec

===============================================================================

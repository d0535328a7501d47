-------------------------------- MODULE Buffers -------------------------------
(***************************************************************************)
(* The linear buffers (Buffer.h), the writer and the reader over them      *)
(* (BufferWriter.h, BufferReader.h) and the serialisation of the fields of *)
(* a message (Serializes.h, Serializes.cpp), as operators: a buffer, a     *)
(* writer and a reader are records, and an operation returns the new one.  *)
(*                                                                         *)
(* Integers are not negative; the narrow and the floating point types go   *)
(* the way of the wide ones.                                               *)
(***************************************************************************)
EXTENDS Memory, Sequences, FiniteSets, SequencesExt

CONSTANTS Base,      \* values of a byte: 256
          Width,     \* bytes of an int32: 4
          FixedSize, \* FIXED_SIZE of a stack buffer: 2048
          NullPtr    \* what read returns beyond the end

ASSUME SizesAssumption ==
  Base \in Nat /\ Base >= 3 /\ Width \in Nat \ {0} /\ FixedSize \in Nat \ {0}

Bytes == 0..Base - 1

(* What is left of a number when so many of its bytes are shifted out. *)
Shifted(n, count) ==
  LET upTo[i \in 0..count] == IF i = 0 THEN n ELSE upTo[i - 1] \div Base
  IN upTo[count]

(* Faulty variant: the bytes stay in the order of the host. *)
EncodeHost(n, width) == [i \in 1..width |-> Shifted(n, i - 1) % Base]

(* hostToNetwork32 and networkToHost32, and their 64-bit siblings: the     *)
(* most significant byte comes first.                                      *)
Encode(n, width) == [i \in 1..width |-> Shifted(n, width - i) % Base]
Decode(bytes) ==
  LET upTo[i \in 0..Len(bytes)] == IF i = 0 THEN 0 ELSE upTo[i - 1] * Base + bytes[i]
  IN upTo[Len(bytes)]

-------------------------------------------------------------------------------
(* StackBuffer and Buffer. *)

NewStackBuffer ==
  [kind |-> "stack", cap |-> FixedSize, size |-> 0, mem |-> Allocated(FixedSize)]

kInitialSize == 16
NewBuffer(size) ==
  LET capacity == IF size > 0 THEN size ELSE kInitialSize
  IN [kind |-> "heap", cap |-> capacity, size |-> 0, mem |-> Allocated(capacity)]

Ensure(b, need) ==
  IF b.cap >= need THEN b
  ELSE LET new == Allocated(Grown(b.cap, need))
       IN [b EXCEPT !.cap = Grown(b.cap, need), !.mem = Copy(new, 0, b.mem, 0, b.size)]

(* write(pos, size), with what the caller then puts there: the size never  *)
(* shrinks.  pos is never beyond the size: all writers append.             *)
Reserve(b, pos, data) ==
  LET end == pos + Len(data)
  IN [Ensure(b, end) EXCEPT !.size = IF end > @ THEN end ELSE @,
                            !.mem = Copy(@, pos, data, 1, Len(data))]

(* write(pos, data, size): a Buffer ends where the data ends. *)
Write(b, pos, data) ==
  IF b.kind = "heap" THEN [Reserve(b, pos, data) EXCEPT !.size = pos + Len(data)]
  ELSE Reserve(b, pos, data)

Read(b, pos, n) ==
  IF pos + n > b.size THEN NullPtr ELSE Copy(<<>>, 1, b.mem, pos, n)

Contents(b) == Read(b, 0, b.size)

-------------------------------------------------------------------------------
(* BufferWriter. *)

Writer(b) == [buf |-> b, pos |-> 0]

(* writeInt32, writeInt64, ... *)
WriteInt(w, n, width) ==
  [buf |-> Reserve(w.buf, w.pos, Encode(n, width)), pos |-> w.pos + width]

WriteBytes(w, data) ==
  [buf |-> Write(w.buf, w.pos, data), pos |-> w.pos + Len(data)]

(* BufferReader, with the value read last.  A read beyond the end runs     *)
(* into assert(false): failed.                                             *)
Reader(b) == [buf |-> b, pos |-> 0, value |-> 0, failed |-> FALSE]

ReadBytes(r, n) ==
  LET bytes == Read(r.buf, r.pos, n)
  IN IF r.failed \/ bytes = NullPtr THEN [r EXCEPT !.failed = TRUE]
     ELSE [r EXCEPT !.pos = @ + n, !.value = bytes]

Decoded(r) == IF r.failed THEN r ELSE [r EXCEPT !.value = Decode(@)]

ReadInt(r, width) == Decoded(ReadBytes(r, width))

-------------------------------------------------------------------------------
(* Serialize, for the types that messages are made of. *)

Int32        == [type |-> "int", width |-> Width]
Int64        == [type |-> "int", width |-> 2 * Width]
String       == [type |-> "string"]
Vector(t)    == [type |-> "vector", of |-> t]
SetOf(t)     == [type |-> "set", of |-> t]
MapOf(k, t)  == [type |-> "map", key |-> k, of |-> t]

SerializeItem(w, t, v) ==
  IF t.type = "int" THEN WriteInt(w, v, t.width)
  ELSE WriteBytes(WriteInt(w, Len(v), Width), v)

Ordered(keys) ==
  CHOOSE s \in [1..Cardinality(keys) -> keys]: \A i, j \in DOMAIN s: i < j => s[i] < s[j]

(* What the loop over a container visits: sets and maps in the order of    *)
(* their keys, and a map gives its keys with their values.                 *)
Entries(t, v) ==
  CASE t.type = "vector" -> v
    [] t.type = "set"    -> Ordered(v)
    [] t.type = "map"    -> LET keys == Ordered(DOMAIN v)
                            IN [i \in DOMAIN keys |-> <<keys[i], v[keys[i]]>>]

SerializeEntry(w, t, e) ==
  IF t.type = "map" THEN SerializeItem(SerializeItem(w, t.key, e[1]), t.of, e[2])
  ELSE SerializeItem(w, t.of, e)

(* Containers give their size and then their entries. *)
SerializeAll(w, t, entries) ==
  LET upTo[i \in 0..Len(entries)] ==
        IF i = 0 THEN WriteInt(w, Len(entries), Width)
        ELSE SerializeEntry(upTo[i - 1], t, entries[i])
  IN upTo[Len(entries)]

Serialize(w, t, v) ==
  IF t.type \in {"int", "string"} THEN SerializeItem(w, t, v)
  ELSE SerializeAll(w, t, Entries(t, v))

UnserializeItem(r, t) ==
  IF t.type = "int" THEN ReadInt(r, t.width)
  ELSE LET q == ReadInt(r, Width) IN ReadBytes(q, q.value)

UnserializeEntry(r, t) ==
  LET k == UnserializeItem(r, t.key)
      v == UnserializeItem(k, t.of)
  IN IF t.type = "map" THEN [v EXCEPT !.value = <<k.value, @>>] ELSE UnserializeItem(r, t.of)

(* What q read comes behind what was read before. *)
Appended(before, q) ==
  [q EXCEPT !.value = IF q.failed THEN before.value ELSE Append(before.value, @)]

(* The loop over a container: the entries that were read. *)
UnserializeAll(r, t) ==
  LET count == ReadInt(r, Width)
      upTo[i \in 0..count.value] ==
        IF i = 0 THEN [count EXCEPT !.value = <<>>]
        ELSE Appended(upTo[i - 1], UnserializeEntry(upTo[i - 1], t))
  IN IF count.failed THEN [count EXCEPT !.value = <<>>] ELSE upTo[count.value]

(* map[key] is assigned for each pair: the last one stays. *)
MapOfPairs(pairs) ==
  LET last(k) == CHOOSE i \in DOMAIN pairs:
                   pairs[i][1] = k /\ \A j \in DOMAIN pairs: pairs[j][1] = k => j <= i
  IN [k \in {pairs[i][1]: i \in DOMAIN pairs} |-> pairs[last(k)][2]]

Unserialize(r, t) ==
  IF t.type \in {"int", "string"} THEN UnserializeItem(r, t)
  ELSE [UnserializeAll(r, t) EXCEPT !.value =
          CASE t.type = "vector" -> @
            [] t.type = "set"    -> ToSet(@)
            [] t.type = "map"    -> MapOfPairs(@)]

(* pack and unpack: the fields one after the other. *)
Pack(w, types, values) ==
  LET upTo[i \in 0..Len(types)] ==
        IF i = 0 THEN w ELSE Serialize(upTo[i - 1], types[i], values[i])
  IN upTo[Len(types)]

Unpack(r, types) ==
  LET upTo[i \in 0..Len(types)] ==
        IF i = 0 THEN [r EXCEPT !.value = <<>>]
        ELSE Appended(upTo[i - 1], Unserialize(upTo[i - 1], types[i]))
  IN upTo[Len(types)]

-------------------------------------------------------------------------------
(* The values that a field of a message can have: a number that fits its   *)
(* width, a string that a uint32 can count, a container that an int32 can. *)
(* Sets and maps have numbers as keys.                                     *)

Fits(n, width) == n \in Nat /\ Shifted(n, width) = 0
Counts(n) == Fits(n, Width) /\ Fits(2 * n, Width)

ItemType(t) == t.type = "string" \/ (t.type = "int" /\ t.width \in Nat \ {0})
KeyType(t)  == t.type = "int" /\ t.width \in Nat \ {0}

FieldType(t) ==
  \/ t.type \in {"int", "string"} /\ ItemType(t)
  \/ t.type = "vector" /\ ItemType(t.of)
  \/ t.type = "set" /\ KeyType(t.of)
  \/ t.type = "map" /\ KeyType(t.key) /\ ItemType(t.of)

Item(t, v) ==
  IF t.type = "int" THEN Fits(v, t.width) ELSE v \in Seq(Bytes) /\ Fits(Len(v), Width)

Field(t, v) ==
  CASE t.type \in {"int", "string"} -> Item(t, v)
    [] t.type = "vector" -> /\ Counts(Len(v)) /\ v = [i \in 1..Len(v) |-> v[i]]
                            /\ \A i \in 1..Len(v): Item(t.of, v[i])
    [] t.type = "set"    -> /\ IsFiniteSet(v) /\ Counts(Cardinality(v))
                            /\ \A x \in v: Item(t.of, x)
    [] t.type = "map"    -> /\ IsFiniteSet(DOMAIN v) /\ Counts(Cardinality(DOMAIN v))
                            /\ v = [k \in DOMAIN v |-> v[k]]
                            /\ \A k \in DOMAIN v: Item(t.key, k) /\ Item(t.of, v[k])

===============================================================================

------------------------------ MODULE CodecProofs -----------------------------
(***************************************************************************)
(* The codec, layer by layer: a number and its bytes, a buffer and what    *)
(* was written to it, the fields of a message and what unpack reads, a     *)
(* packet and what onUnserialize makes of its bytes.                       *)
(***************************************************************************)
EXTENDS Framing, Integers, SequenceTheorems, FiniteSetTheorems, Recursion

(* A function on 1..n is a sequence. *)
LEMMA AsSequence ==
  ASSUME NEW S, NEW n \in Nat, NEW f \in [1..n -> S]
  PROVE  f \in Seq(S) /\ Len(f) = n /\ DOMAIN f = 1..n
<1>1. f \in Seq(S)
  BY SeqDef
<1>2. DOMAIN f = 1..n
  OBVIOUS
<1>3. Len(f) \in Nat /\ DOMAIN f = 1..Len(f)
  BY <1>1, LenProperties
<1>4. Len(f) = n
  BY <1>2, <1>3
<1> QED
  BY <1>1, <1>2, <1>4

-------------------------------------------------------------------------------
(* Numbers and their bytes. *)

USE SizesAssumption

LEMMA ShiftedBy ==
  ASSUME NEW n \in Nat, NEW count \in Nat,
         NEW f \in [0..count -> Nat], f[0] = n, \A i \in 1..count: f[i] = f[i - 1] \div Base
  PROVE  Shifted(n, count) = f[count]
<1> DEFINE up == CHOOSE g: g = [i \in 0..count |-> IF i = 0 THEN n ELSE g[i - 1] \div Base]
<1>1. f = [i \in 0..count |-> IF i = 0 THEN n ELSE f[i - 1] \div Base]
  OBVIOUS
<1>2. up = [i \in 0..count |-> IF i = 0 THEN n ELSE up[i - 1] \div Base]
  BY <1>1
<1>3. Shifted(n, count) = up[count]
  BY DEF Shifted
<1> HIDE DEF up
<1> DEFINE T == {m \in Nat: m <= count => up[m] = f[m]}
<1>4. 0 \in T
  BY <1>2
<1>5. ASSUME NEW m \in Nat, m \in T PROVE m + 1 \in T
  <2> SUFFICES ASSUME m + 1 <= count PROVE up[m + 1] = f[m + 1]
    OBVIOUS
  <2>1. m + 1 \in 1..count /\ m + 1 \in 0..count /\ m + 1 # 0 /\ (m + 1) - 1 = m /\ up[m] = f[m]
    BY <1>5
  <2>2. up[m + 1] = up[m] \div Base /\ f[m + 1] = f[m] \div Base
    BY <1>2, <2>1
  <2> QED
    BY <2>1, <2>2
<1> HIDE DEF T
<1>6. count \in T
  BY <1>4, <1>5, SetInduction
<1> QED
  BY <1>3, <1>6 DEF T

LEMMA ShiftStep ==
  ASSUME NEW n \in Nat, NEW count \in Nat
  PROVE  /\ Shifted(n, 0) = n /\ Shifted(n, count) \in Nat
         /\ Shifted(n, count + 1) = Shifted(n, count) \div Base
<1> DEFINE N == count + 1
           step == [i \in 1..N |-> [v \in Nat |-> v \div Base]]
<1>1. IsLoop(N, Nat, n, step)
  BY DEF IsLoop
<1>2. PICK f: Runs(N, Nat, n, step, f)
  BY <1>1, LoopExists
<1>3. f \in [0..N -> Nat] /\ f[0] = n /\ \A i \in 1..N: f[i] = f[i - 1] \div Base
  <2>1. f \in [0..N -> Nat] /\ f[0] = n /\ \A i \in 1..N: f[i] = step[i][f[i - 1]]
    BY <1>2 DEF Runs
  <2>2. ASSUME NEW i \in 1..N PROVE step[i][f[i - 1]] = f[i - 1] \div Base
    <3>1. f[i - 1] \in Nat
      BY <2>1
    <3> QED
      BY <3>1
  <2> QED
    BY <2>1, <2>2
<1> HIDE DEF step
<1>4. ASSUME NEW m \in 0..N PROVE Shifted(n, m) = f[m]
  <2> DEFINE g == [i \in 0..m |-> f[i]]
  <2>1. m \in Nat /\ g \in [0..m -> Nat] /\ g[0] = n /\ g[m] = f[m]
    BY <1>3
  <2>2. ASSUME NEW i \in 1..m PROVE g[i] = g[i - 1] \div Base
    <3>1. i \in 0..m /\ i - 1 \in 0..m /\ i \in 1..N
      BY <2>1
    <3> QED
      BY <1>3, <3>1
  <2> HIDE DEF g
  <2> QED
    BY <2>1, <2>2, ShiftedBy
<1>5. f[count + 1] = f[count] \div Base /\ f[count] \in Nat
  <2>1. count + 1 \in 1..N /\ (count + 1) - 1 = count /\ count \in 0..N
    OBVIOUS
  <2> QED
    BY <1>3, <2>1
<1>6. 0 \in 0..N /\ count \in 0..N /\ count + 1 \in 0..N
  OBVIOUS
<1> QED
  BY <1>3, <1>4, <1>5, <1>6

LEMMA EncodeType ==
  ASSUME NEW n \in Nat, NEW width \in Nat
  PROVE  /\ Encode(n, width) \in Seq(Bytes) /\ Len(Encode(n, width)) = width
         /\ \A i \in 1..width: Encode(n, width)[i] = Shifted(n, width - i) % Base
<1> DEFINE e == [i \in 1..width |-> Shifted(n, width - i) % Base]
<1>1. \A i \in 1..width: Shifted(n, width - i) % Base \in Bytes
  <2> SUFFICES ASSUME NEW i \in 1..width PROVE Shifted(n, width - i) % Base \in Bytes
    OBVIOUS
  <2>1. width - i \in Nat
    OBVIOUS
  <2>2. Shifted(n, width - i) \in Nat
    BY <2>1, ShiftStep
  <2> QED
    BY <2>2 DEF Bytes
<1>2. e \in [1..width -> Bytes] /\ \A i \in 1..width: e[i] = Shifted(n, width - i) % Base
  BY <1>1
<1>3. Encode(n, width) = e
  BY DEF Encode
<1> HIDE DEF e
<1>4. e \in Seq(Bytes) /\ Len(e) = width
  BY <1>2, AsSequence
<1> QED
  BY <1>2, <1>3, <1>4

LEMMA DecodedBy ==
  ASSUME NEW b \in Seq(Bytes), NEW f \in [0..Len(b) -> Nat],
         f[0] = 0, \A i \in 1..Len(b): f[i] = f[i - 1] * Base + b[i]
  PROVE  Decode(b) = f[Len(b)]
<1> DEFINE N == Len(b)
           up == CHOOSE g: g = [i \in 0..N |-> IF i = 0 THEN 0 ELSE g[i - 1] * Base + b[i]]
<1>1. N \in Nat
  BY LenProperties
<1>2. f = [i \in 0..N |-> IF i = 0 THEN 0 ELSE f[i - 1] * Base + b[i]]
  BY <1>1
<1>3. up = [i \in 0..N |-> IF i = 0 THEN 0 ELSE up[i - 1] * Base + b[i]]
  BY <1>2
<1>4. Decode(b) = up[N]
  BY DEF Decode
<1> HIDE DEF up
<1> DEFINE T == {m \in Nat: m <= N => up[m] = f[m]}
<1>5. 0 \in T
  BY <1>1, <1>3
<1>6. ASSUME NEW m \in Nat, m \in T PROVE m + 1 \in T
  <2> SUFFICES ASSUME m + 1 <= N PROVE up[m + 1] = f[m + 1]
    OBVIOUS
  <2>1. m + 1 \in 1..N /\ m + 1 \in 0..N /\ m + 1 # 0 /\ (m + 1) - 1 = m /\ up[m] = f[m]
    BY <1>1, <1>6
  <2>2. up[m + 1] = up[m] * Base + b[m + 1] /\ f[m + 1] = f[m] * Base + b[m + 1]
    BY <1>3, <2>1
  <2> QED
    BY <2>1, <2>2
<1> HIDE DEF T
<1>7. N \in T
  BY <1>1, <1>5, <1>6, SetInduction
<1> QED
  BY <1>4, <1>7 DEF T

(* The bytes of a number give the number back. *)
LEMMA DecodeEncode ==
  ASSUME NEW width \in Nat, NEW n, Fits(n, width)
  PROVE  Decode(Encode(n, width)) = n
<1> DEFINE e == Encode(n, width)
           f == [i \in 0..width |-> Shifted(n, width - i)]
<1>1. n \in Nat /\ Shifted(n, width) = 0
  BY DEF Fits
<1>2. e \in Seq(Bytes) /\ Len(e) = width /\ \A i \in 1..width: e[i] = Shifted(n, width - i) % Base
  BY <1>1, EncodeType
<1>3. \A k \in Nat: /\ Shifted(n, k) \in Nat /\ Shifted(n, 0) = n
                    /\ Shifted(n, k + 1) = Shifted(n, k) \div Base
  BY <1>1, ShiftStep
<1>4. f \in [0..width -> Nat] /\ f[0] = 0 /\ f[width] = n
  BY <1>1, <1>3
<1>5. ASSUME NEW i \in 1..width PROVE f[i] = f[i - 1] * Base + e[i]
  <2>1. width - i \in Nat /\ width - (i - 1) = (width - i) + 1 /\ i \in 0..width /\ i - 1 \in 0..width
    OBVIOUS
  <2>2. f[i] = Shifted(n, width - i) /\ f[i - 1] = Shifted(n, (width - i) + 1)
    BY <2>1
  <2>3. PICK x \in Nat: x = Shifted(n, width - i)
    BY <1>3, <2>1
  <2>4. f[i - 1] = x \div Base /\ e[i] = x % Base
    BY <1>2, <1>3, <2>1, <2>2, <2>3
  <2>5. x = (x \div Base) * Base + (x % Base)
    BY <2>3
  <2> QED
    BY <2>2, <2>3, <2>4, <2>5
<1> HIDE DEF e, f
<1>6. Decode(e) = f[width]
  BY <1>2, <1>4, <1>5, DecodedBy
<1> QED
  BY <1>4, <1>6 DEF e

-------------------------------------------------------------------------------
(* Bytes behind each other. *)

LEMMA Concatenated ==
  ASSUME NEW S, NEW s \in Seq(S), NEW t \in Seq(S)
  PROVE  /\ s \o t \in Seq(S) /\ Len(s \o t) = Len(s) + Len(t)
         /\ Len(s) \in Nat /\ Len(t) \in Nat
         /\ \A i \in 1..Len(s): (s \o t)[i] = s[i]
         /\ \A i \in 1..Len(t): (s \o t)[Len(s) + i] = t[i]
<1>1. Len(s) \in Nat /\ Len(t) \in Nat
  BY LenProperties
<1>2. /\ s \o t \in Seq(S) /\ Len(s \o t) = Len(s) + Len(t)
      /\ \A i \in 1..Len(s) + Len(t): (s \o t)[i] = IF i <= Len(s) THEN s[i] ELSE t[i - Len(s)]
  BY ConcatProperties
<1>3. \A i \in 1..Len(s): i \in 1..Len(s) + Len(t) /\ i <= Len(s)
  BY <1>1
<1>4. \A i \in 1..Len(t): /\ Len(s) + i \in 1..Len(s) + Len(t) /\ ~(Len(s) + i <= Len(s))
                          /\ (Len(s) + i) - Len(s) = i
  BY <1>1
<1> QED
  BY <1>1, <1>2, <1>3, <1>4

(* The bytes b lie in x, from k on. *)
HasAt(x, k, b) ==
  /\ k \in Nat /\ b \in Seq(Bytes) /\ k + Len(b) <= Len(x)
  /\ \A i \in 1..Len(b): x[k + i] = b[i]

LEMMA HasBoth ==
  ASSUME NEW x \in Seq(Bytes), NEW k, NEW a \in Seq(Bytes), NEW b \in Seq(Bytes),
         HasAt(x, k, a \o b)
  PROVE  HasAt(x, k, a) /\ HasAt(x, k + Len(a), b) /\ Len(a \o b) = Len(a) + Len(b)
<1> DEFINE c == a \o b
<1>1. /\ c \in Seq(Bytes) /\ Len(c) = Len(a) + Len(b) /\ Len(a) \in Nat /\ Len(b) \in Nat
      /\ \A i \in 1..Len(a): c[i] = a[i]
      /\ \A i \in 1..Len(b): c[Len(a) + i] = b[i]
  BY Concatenated
<1>2. k \in Nat /\ k + Len(c) <= Len(x) /\ \A i \in 1..Len(c): x[k + i] = c[i]
  BY DEF HasAt
<1> HIDE DEF c
<1>3. Len(x) \in Nat
  BY LenProperties
<1>4. HasAt(x, k, a)
  <2>1. ASSUME NEW i \in 1..Len(a) PROVE x[k + i] = a[i]
    <3>1. i \in 1..Len(c)
      BY <1>1
    <3> QED
      BY <1>1, <1>2, <3>1
  <2>2. k + Len(a) <= Len(x)
    BY <1>1, <1>2, <1>3
  <2> QED
    BY <1>2, <2>1, <2>2 DEF HasAt
<1>5. HasAt(x, k + Len(a), b)
  <2>1. ASSUME NEW i \in 1..Len(b) PROVE x[(k + Len(a)) + i] = b[i]
    <3>1. Len(a) + i \in 1..Len(c) /\ (k + Len(a)) + i = k + (Len(a) + i)
      BY <1>1, <1>2
    <3> QED
      BY <1>1, <1>2, <3>1
  <2>2. (k + Len(a)) + Len(b) <= Len(x) /\ k + Len(a) \in Nat
    BY <1>1, <1>2, <1>3
  <2> QED
    BY <2>1, <2>2 DEF HasAt
<1> QED
  BY <1>1, <1>4, <1>5 DEF c

Behind(c, a, b) == a \in Seq(Bytes) /\ b \in Seq(Bytes) /\ c = a \o b

LEMMA HasTwo ==
  ASSUME NEW x \in Seq(Bytes), NEW k, NEW c, HasAt(x, k, c), NEW a, NEW b, Behind(c, a, b)
  PROVE  HasAt(x, k, a) /\ HasAt(x, k + Len(a), b) /\ Len(c) = Len(a) + Len(b)
<1>1. a \in Seq(Bytes) /\ b \in Seq(Bytes) /\ HasAt(x, k, a \o b) /\ c = a \o b
  BY DEF Behind
<1> QED
  BY <1>1, HasBoth

LEMMA HasSelf ==
  ASSUME NEW x \in Seq(Bytes)
  PROVE  HasAt(x, 0, x)
<1>1. Len(x) \in Nat /\ 0 + Len(x) <= Len(x) /\ \A i \in 1..Len(x): x[0 + i] = x[i]
  BY LenProperties
<1> QED
  BY <1>1 DEF HasAt

-------------------------------------------------------------------------------
(* A buffer and what was written to it, whether or not it grew. *)

IsBuffer(b) == b = [kind |-> b.kind, cap |-> b.cap, size |-> b.size, mem |-> b.mem]

Holds(b, s) ==
  /\ IsBuffer(b) /\ s \in Seq(Bytes) /\ b.size = Len(s)
  /\ \A i \in 0..Len(s) - 1: i \in DOMAIN b.mem /\ b.mem[i] = s[i + 1]

LEMMA NewHolds ==
  ASSUME NEW size
  PROVE  Holds(NewStackBuffer, <<>>) /\ Holds(NewBuffer(size), <<>>)
<1>1. <<>> \in Seq(Bytes) /\ Len(<<>>) = 0 /\ 0..0 - 1 = {}
  BY EmptySeq
<1>2. Holds(NewStackBuffer, <<>>)
  BY <1>1 DEF NewStackBuffer, Holds, IsBuffer
<1>3. Holds(NewBuffer(size), <<>>)
  BY <1>1 DEF NewBuffer, Holds, IsBuffer
<1> QED
  BY <1>2, <1>3

LEMMA EnsureHolds ==
  ASSUME NEW b, NEW s, Holds(b, s), NEW need
  PROVE  Holds(Ensure(b, need), s)
<1>1. CASE b.cap >= need
  BY <1>1 DEF Ensure
<1>2. CASE ~(b.cap >= need)
  <2> DEFINE cap == Grown(b.cap, need)
             mem == Copy(Allocated(cap), 0, b.mem, 0, b.size)
  <2>1. Ensure(b, need) = [kind |-> b.kind, cap |-> cap, size |-> b.size, mem |-> mem]
    BY <1>2 DEF Ensure, Holds, IsBuffer
  <2>2. Len(s) \in Nat /\ b.size = Len(s)
    BY LenProperties DEF Holds
  <2>3. ASSUME NEW i \in 0..Len(s) - 1 PROVE i \in DOMAIN mem /\ mem[i] = s[i + 1]
    <3>1. i \in 0..0 + b.size - 1 /\ 0 + i - 0 = i
      BY <2>2
    <3>2. mem[i] = b.mem[i] /\ i \in DOMAIN mem
      BY <3>1 DEF Copy
    <3> QED
      BY <3>2 DEF Holds
  <2> HIDE DEF mem, cap
  <2> QED
    BY <2>1, <2>2, <2>3 DEF Holds, IsBuffer
<1> QED
  BY <1>1, <1>2

LEMMA ReserveHolds ==
  ASSUME NEW b, NEW s, Holds(b, s), NEW data \in Seq(Bytes)
  PROVE  /\ Holds(Reserve(b, Len(s), data), s \o data)
         /\ Holds(Write(b, Len(s), data), s \o data)
<1> DEFINE end == Len(s) + Len(data)
           c == Ensure(b, end)
           mem == Copy(c.mem, Len(s), data, 1, Len(data))
           t == s \o data
<1>1. Holds(c, s)
  BY EnsureHolds
<1> HIDE DEF c
<1>2. s \in Seq(Bytes) /\ c.size = Len(s) /\ IsBuffer(c)
      /\ \A i \in 0..Len(s) - 1: i \in DOMAIN c.mem /\ c.mem[i] = s[i + 1]
  BY <1>1 DEF Holds
<1>3. /\ t \in Seq(Bytes) /\ Len(t) = end /\ Len(s) \in Nat /\ Len(data) \in Nat
      /\ \A i \in 1..Len(s): t[i] = s[i]
      /\ \A i \in 1..Len(data): t[Len(s) + i] = data[i]
  BY <1>2, Concatenated
<1> HIDE DEF t
<1>4. ASSUME NEW i \in 0..Len(t) - 1 PROVE i \in DOMAIN mem /\ mem[i] = t[i + 1]
  <2>1. CASE i \in 0..Len(s) - 1
    <3>1. i \notin Len(s)..Len(s) + Len(data) - 1 /\ i + 1 \in 1..Len(s)
      BY <1>3, <2>1
    <3>2. i \in DOMAIN mem /\ mem[i] = c.mem[i]
      BY <1>2, <2>1, <3>1 DEF Copy
    <3> QED
      BY <1>2, <1>3, <2>1, <3>1, <3>2
  <2>2. CASE i \notin 0..Len(s) - 1
    <3>1. PICK j \in 1..Len(data): i + 1 = Len(s) + j /\ 1 + i - Len(s) = j
      <4>1. /\ (i + 1) - Len(s) \in 1..Len(data) /\ i + 1 = Len(s) + ((i + 1) - Len(s))
            /\ 1 + i - Len(s) = (i + 1) - Len(s)
        BY <1>3, <2>2
      <4> QED
        BY <4>1
    <3>2. i \in Len(s)..Len(s) + Len(data) - 1
      BY <1>3, <2>2
    <3>3. i \in DOMAIN mem /\ mem[i] = data[1 + i - Len(s)]
      BY <3>2 DEF Copy
    <3> QED
      BY <1>3, <3>1, <3>3
  <2> QED
    BY <2>1, <2>2
<1>5. end > c.size \/ end = c.size
  BY <1>2, <1>3
<1>6. Reserve(b, Len(s), data) = [kind |-> c.kind, cap |-> c.cap, size |-> end, mem |-> mem]
  <2>1. Reserve(b, Len(s), data) =
          [c EXCEPT !.size = IF end > c.size THEN end ELSE c.size, !.mem = mem]
    BY DEF Reserve, c
  <2>2. (IF end > c.size THEN end ELSE c.size) = end
    BY <1>5
  <2> HIDE DEF mem
  <2> QED
    BY <1>2, <2>1, <2>2 DEF IsBuffer
<1> HIDE DEF mem
<1>7. Holds(Reserve(b, Len(s), data), t)
  BY <1>3, <1>4, <1>6 DEF Holds, IsBuffer
<1>8. Write(b, Len(s), data) = Reserve(b, Len(s), data)
  BY <1>6 DEF Write
<1> QED
  BY <1>7, <1>8 DEF t

LEMMA ReadGives ==
  ASSUME NEW b, NEW x, Holds(b, x), NEW k, NEW s \in Seq(Bytes), HasAt(x, k, s)
  PROVE  Read(b, k, Len(s)) = s
<1>1. x \in Seq(Bytes) /\ b.size = Len(x) /\ Len(x) \in Nat /\ Len(s) \in Nat /\ k \in Nat
      /\ k + Len(s) <= Len(x)
  BY LenProperties DEF Holds, HasAt
<1> DEFINE mem == Copy(<<>>, 1, b.mem, k, Len(s))
<1>2. Read(b, k, Len(s)) = mem
  BY <1>1 DEF Read
<1>3. mem = [i \in 1..Len(s) |-> b.mem[k + i - 1]]
  <2>1. (DOMAIN <<>>) \union (1..1 + Len(s) - 1) = 1..Len(s) /\ 1..1 + Len(s) - 1 = 1..Len(s)
    BY <1>1
  <2> QED
    BY <2>1 DEF Copy
<1>4. ASSUME NEW i \in 1..Len(s) PROVE b.mem[k + i - 1] = s[i]
  <2>1. k + i - 1 \in 0..Len(x) - 1 /\ (k + i - 1) + 1 = k + i
    BY <1>1
  <2> QED
    BY <2>1 DEF Holds, HasAt
<1>5. s = [i \in 1..Len(s) |-> s[i]]
  BY LenProperties
<1> QED
  BY <1>2, <1>3, <1>4, <1>5

LEMMA ContentsAre ==
  ASSUME NEW b, NEW x, Holds(b, x)
  PROVE  Contents(b) = x
<1>1. x \in Seq(Bytes) /\ b.size = Len(x)
  BY DEF Holds
<1> QED
  BY <1>1, HasSelf, ReadGives DEF Contents


-------------------------------------------------------------------------------
(* A writer that wrote s, and a reader of x at k, with the value v. *)

Writes(w, s) ==
  /\ w = [buf |-> w.buf, pos |-> w.pos]
  /\ Holds(w.buf, s) /\ w.pos = Len(s)

IsReader(r) == r = [buf |-> r.buf, pos |-> r.pos, value |-> r.value, failed |-> r.failed]

At(r, x, k) == IsReader(r) /\ Holds(r.buf, x) /\ r.pos = k /\ ~r.failed

Got(r, x, k, v) == At(r, x, k) /\ r.value = v

LEMMA WritesMore ==
  ASSUME NEW w, NEW s, Writes(w, s), NEW data \in Seq(Bytes), NEW n \in Nat, NEW width \in Nat
  PROVE  /\ Writes(WriteBytes(w, data), s \o data)
         /\ Writes(WriteInt(w, n, width), s \o Encode(n, width))
<1>1. Holds(w.buf, s) /\ w.pos = Len(s) /\ s \in Seq(Bytes)
  BY DEF Writes, Holds
<1>2. Encode(n, width) \in Seq(Bytes) /\ Len(Encode(n, width)) = width
  BY EncodeType
<1>3. Writes(WriteBytes(w, data), s \o data)
  <2>1. Holds(Write(w.buf, Len(s), data), s \o data)
    BY <1>1, ReserveHolds
  <2>2. Len(s \o data) = Len(s) + Len(data)
    BY <1>1, Concatenated
  <2> QED
    BY <1>1, <2>1, <2>2 DEF Writes, WriteBytes
<1>4. Writes(WriteInt(w, n, width), s \o Encode(n, width))
  <2> DEFINE e == Encode(n, width)
  <2> HIDE DEF e
  <2>0. e \in Seq(Bytes) /\ Len(e) = width
    BY <1>2 DEF e
  <2>1. Holds(Reserve(w.buf, Len(s), e), s \o e)
    BY <1>1, <2>0, ReserveHolds
  <2>2. Len(s \o e) = Len(s) + width
    BY <1>1, <2>0, Concatenated
  <2>3. WriteInt(w, n, width) = [buf |-> Reserve(w.buf, w.pos, e), pos |-> w.pos + width]
    BY DEF WriteInt, e
  <2>4. Writes(WriteInt(w, n, width), s \o e)
    BY <1>1, <2>1, <2>2, <2>3 DEF Writes
  <2> QED
    BY <2>4 DEF e
<1> QED
  BY <1>3, <1>4

LEMMA ReadsOn ==
  ASSUME NEW r, NEW x, NEW k, At(r, x, k), NEW j, NEW v, NEW q
  PROVE  /\ q = [r EXCEPT !.pos = j, !.value = v] => Got(q, x, j, v)
         /\ q = [r EXCEPT !.value = v] => Got(q, x, k, v)
<1>1. r = [buf |-> r.buf, pos |-> r.pos, value |-> r.value, failed |-> r.failed]
      /\ Holds(r.buf, x) /\ r.pos = k /\ ~r.failed
  BY DEF At, IsReader
<1>2. ASSUME NEW i, q = [buf |-> r.buf, pos |-> i, value |-> v, failed |-> r.failed]
      PROVE  Got(q, x, i, v)
  <2>1. q.buf = r.buf /\ q.pos = i /\ q.value = v
    BY <1>2
  <2>2. ~q.failed
    BY <1>1, <1>2
  <2>3. IsReader(q)
    BY <1>2 DEF IsReader
  <2> QED
    BY <1>1, <2>1, <2>2, <2>3 DEF Got, At
<1>3. ASSUME q = [r EXCEPT !.value = v] PROVE Got(q, x, k, v)
  <2>1. q = [buf |-> r.buf, pos |-> r.pos, value |-> v, failed |-> r.failed]
    BY <1>1, <1>3
  <2> QED
    BY <1>1, <1>2, <2>1
<1>4. ASSUME q = [r EXCEPT !.pos = j, !.value = v] PROVE Got(q, x, j, v)
  <2>1. PICK u: u = [r EXCEPT !.pos = j]
    OBVIOUS
  <2>2. u = [buf |-> r.buf, pos |-> j, value |-> r.value, failed |-> r.failed]
    BY <1>1, <2>1
  <2>3. q = [u EXCEPT !.value = v]
    BY <1>4, <2>1
  <2>4. q = [buf |-> r.buf, pos |-> j, value |-> v, failed |-> r.failed]
    BY <2>2, <2>3
  <2> QED
    BY <1>2, <2>4
<1> QED
  BY <1>3, <1>4

LEMMA ReadsBytes ==
  ASSUME NEW r, NEW x, NEW k, At(r, x, k), NEW b, HasAt(x, k, b)
  PROVE  Got(ReadBytes(r, Len(b)), x, k + Len(b), b)
<1>1. b \in Seq(Bytes) /\ b # NullPtr
  BY NullAssumption DEF HasAt
<1>2. Read(r.buf, r.pos, Len(b)) = b /\ ~r.failed /\ r.pos = k
  <2>1. Holds(r.buf, x) /\ r.pos = k /\ ~r.failed
    BY DEF At
  <2> QED
    BY <1>1, <2>1, ReadGives
<1>3. PICK j: j = k + Len(b)
  OBVIOUS
<1>4. ReadBytes(r, Len(b)) = [r EXCEPT !.pos = j, !.value = b]
  BY <1>1, <1>2, <1>3 DEF ReadBytes
<1> QED
  BY <1>3, <1>4, ReadsOn

LEMMA ReadsInt ==
  ASSUME NEW r, NEW x, NEW k, At(r, x, k), NEW width \in Nat, NEW n, Fits(n, width),
         HasAt(x, k, Encode(n, width))
  PROVE  Got(ReadInt(r, width), x, k + width, n)
<1> DEFINE e == Encode(n, width)
           q == ReadBytes(r, width)
<1>1. Len(e) = width /\ Decode(e) = n
  BY EncodeType, DecodeEncode DEF Fits
<1>2. Got(ReadBytes(r, Len(e)), x, k + Len(e), e)
  BY ReadsBytes
<1> HIDE DEF e
<1>3. Got(q, x, k + width, e)
  BY <1>1, <1>2
<1> HIDE DEF q
<1>4. ReadInt(r, width) = Decoded(q)
  BY DEF ReadInt, q
<1>5. At(q, x, k + width) /\ q.value = e /\ ~q.failed
  BY <1>3 DEF Got, At
<1>6. Decoded(q) = [q EXCEPT !.value = n]
  BY <1>1, <1>5 DEF Decoded
<1> QED
  BY <1>4, <1>5, <1>6, ReadsOn


-------------------------------------------------------------------------------
(* A number or a string, and an entry of a container. *)

ItemBytes(t, v) ==
  IF t.type = "int" THEN Encode(v, t.width) ELSE Encode(Len(v), Width) \o v

LEMMA ItemBytesType ==
  ASSUME NEW t, ItemType(t), NEW v, Item(t, v)
  PROVE  /\ ItemBytes(t, v) \in Seq(Bytes) /\ Len(ItemBytes(t, v)) \in Nat \ {0}
         /\ t.type = "int" => v \in Nat /\ t.width \in Nat \ {0}
         /\ t.type # "int" => t.type = "string" /\ v \in Seq(Bytes) /\ Len(v) \in Nat
<1>1. CASE t.type = "int"
  <2>1. v \in Nat /\ t.width \in Nat \ {0}
    BY <1>1 DEF ItemType, Item, Fits
  <2>2. Encode(v, t.width) \in Seq(Bytes) /\ Len(Encode(v, t.width)) = t.width
    BY <2>1, EncodeType
  <2>3. ItemBytes(t, v) = Encode(v, t.width)
    BY <1>1 DEF ItemBytes
  <2> QED
    BY <1>1, <2>1, <2>2, <2>3
<1>2. CASE t.type # "int"
  <2>1. t.type = "string" /\ v \in Seq(Bytes) /\ Len(v) \in Nat
    BY <1>2, LenProperties DEF ItemType, Item
  <2>2. Encode(Len(v), Width) \in Seq(Bytes) /\ Len(Encode(Len(v), Width)) = Width
    BY <2>1, EncodeType
  <2> DEFINE e == Encode(Len(v), Width)
  <2>3. ItemBytes(t, v) = e \o v
    BY <1>2 DEF ItemBytes
  <2>4. e \in Seq(Bytes) /\ Len(e) = Width
    BY <2>2
  <2> HIDE DEF e
  <2>5. e \o v \in Seq(Bytes) /\ Len(e \o v) = Width + Len(v)
    BY <2>1, <2>4, Concatenated
  <2> QED
    BY <1>2, <2>1, <2>3, <2>5
<1> QED
  BY <1>1, <1>2

LEMMA WritesItem ==
  ASSUME NEW t, ItemType(t), NEW v, Item(t, v), NEW w, NEW s, Writes(w, s)
  PROVE  Writes(SerializeItem(w, t, v), s \o ItemBytes(t, v))
<1>1. CASE t.type = "int"
  <2>1. v \in Nat /\ t.width \in Nat
    BY <1>1, ItemBytesType
  <2>2. <<>> \in Seq(Bytes)
    BY EmptySeq
  <2>3. Writes(WriteInt(w, v, t.width), s \o Encode(v, t.width))
    BY <2>1, <2>2, WritesMore
  <2> QED
    BY <1>1, <2>3 DEF SerializeItem, ItemBytes
<1>2. CASE t.type # "int"
  <2>1. v \in Seq(Bytes) /\ Len(v) \in Nat
    BY <1>2, ItemBytesType
  <2>2. PICK n \in Nat: n = Len(v)
    BY <2>1
  <2>3. PICK e \in Seq(Bytes): e = Encode(n, Width)
    BY EncodeType
  <2>4. PICK u: u = WriteInt(w, n, Width)
    OBVIOUS
  <2>5. Writes(u, s \o e)
    BY <2>1, <2>3, <2>4, WritesMore
  <2>6. Writes(WriteBytes(u, v), (s \o e) \o v)
    BY <2>1, <2>2, <2>5, WritesMore
  <2>7. (s \o e) \o v = s \o (e \o v)
    <3>1. s \in Seq(Bytes)
      BY DEF Writes, Holds
    <3>2. v \in Seq(Bytes)
      BY <2>1
    <3> QED
      BY <3>1, <3>2, ConcatAssociative
  <2>8. SerializeItem(w, t, v) = WriteBytes(u, v)
    BY <1>2, <2>2, <2>4 DEF SerializeItem
  <2>9. ItemBytes(t, v) = e \o v
    BY <1>2, <2>2, <2>3 DEF ItemBytes
  <2> QED
    BY <2>6, <2>7, <2>8, <2>9
<1> QED
  BY <1>1, <1>2

LEMMA ReadsItem ==
  ASSUME NEW t, ItemType(t), NEW v, Item(t, v), NEW r, NEW x \in Seq(Bytes), NEW k,
         At(r, x, k), HasAt(x, k, ItemBytes(t, v))
  PROVE  Got(UnserializeItem(r, t), x, k + Len(ItemBytes(t, v)), v)
<1>1. CASE t.type = "int"
  <2>1. v \in Nat /\ t.width \in Nat /\ Fits(v, t.width)
    BY <1>1, ItemBytesType DEF Item
  <2>2. ItemBytes(t, v) = Encode(v, t.width)
    BY <1>1 DEF ItemBytes
  <2>3. Len(Encode(v, t.width)) = t.width
    BY <2>1, EncodeType
  <2>4. Got(ReadInt(r, t.width), x, k + t.width, v)
    BY <2>1, <2>2, ReadsInt
  <2>5. UnserializeItem(r, t) = ReadInt(r, t.width)
    BY <1>1 DEF UnserializeItem
  <2> QED
    BY <2>2, <2>3, <2>4, <2>5
<1>2. CASE t.type # "int"
  <2>1. v \in Seq(Bytes) /\ Len(v) \in Nat /\ Fits(Len(v), Width)
    BY <1>2, ItemBytesType DEF Item
  <2>2. PICK n \in Nat: n = Len(v)
    BY <2>1
  <2>3. PICK e \in Seq(Bytes): e = Encode(n, Width) /\ Len(e) = Width
    BY EncodeType
  <2>4. ItemBytes(t, v) = e \o v
    BY <1>2, <2>2, <2>3 DEF ItemBytes
  <2>5. HasAt(x, k, e) /\ HasAt(x, k + Width, v) /\ Len(e \o v) = Width + n
    <3>1. HasAt(x, k, e \o v)
      BY <2>4
    <3>2. HasAt(x, k, e) /\ HasAt(x, k + Len(e), v) /\ Len(e \o v) = Len(e) + Len(v)
      BY <2>1, <3>1, HasBoth
    <3> QED
      BY <2>2, <2>3, <3>2
  <2>6. PICK q: q = ReadInt(r, Width)
    OBVIOUS
  <2>7. Got(q, x, k + Width, n)
    BY <2>1, <2>2, <2>3, <2>5, <2>6, ReadsInt
  <2>8. PICK j: j = k + Width
    OBVIOUS
  <2>9. At(q, x, j) /\ q.value = n /\ HasAt(x, j, v)
    BY <2>5, <2>7, <2>8 DEF Got
  <2>10. Got(ReadBytes(q, Len(v)), x, j + Len(v), v)
    BY <2>9, ReadsBytes
  <2>11. UnserializeItem(r, t) = ReadBytes(q, Len(v))
    BY <1>2, <2>2, <2>6, <2>9 DEF UnserializeItem
  <2>12. j + Len(v) = k + (Width + n)
    BY <2>2, <2>5, <2>8 DEF HasAt
  <2> QED
    BY <2>4, <2>5, <2>10, <2>11, <2>12
<1> QED
  BY <1>1, <1>2


Entry(t, e) ==
  /\ ItemType(t.of)
  /\ t.type # "map" => Item(t.of, e)
  /\ t.type = "map" => /\ ItemType(t.key) /\ Item(t.key, e[1]) /\ Item(t.of, e[2])
                       /\ e = <<e[1], e[2]>>

EntryBytes(t, e) ==
  IF t.type = "map" THEN ItemBytes(t.key, e[1]) \o ItemBytes(t.of, e[2]) ELSE ItemBytes(t.of, e)

LEMMA EntryBytesType ==
  ASSUME NEW t, NEW e, Entry(t, e)
  PROVE  EntryBytes(t, e) \in Seq(Bytes)
<1>1. CASE t.type = "map"
  <2>1. ItemBytes(t.key, e[1]) \in Seq(Bytes)
    BY <1>1, ItemBytesType DEF Entry
  <2>2. ItemBytes(t.of, e[2]) \in Seq(Bytes)
    BY <1>1, ItemBytesType DEF Entry
  <2> QED
    BY <1>1, <2>1, <2>2, Concatenated DEF EntryBytes
<1>2. CASE t.type # "map"
  BY <1>2, ItemBytesType DEF Entry, EntryBytes
<1> QED
  BY <1>1, <1>2

LEMMA WritesEntry ==
  ASSUME NEW t, NEW e, Entry(t, e), NEW w, NEW s, Writes(w, s)
  PROVE  Writes(SerializeEntry(w, t, e), s \o EntryBytes(t, e))
<1>1. CASE t.type = "map"
  <2>1. ItemType(t.key) /\ Item(t.key, e[1]) /\ ItemType(t.of) /\ Item(t.of, e[2])
    BY <1>1 DEF Entry
  <2>2. PICK a \in Seq(Bytes): a = ItemBytes(t.key, e[1])
    BY <2>1, ItemBytesType
  <2>3. PICK b \in Seq(Bytes): b = ItemBytes(t.of, e[2])
    BY <2>1, ItemBytesType
  <2>4. PICK u: u = SerializeItem(w, t.key, e[1])
    OBVIOUS
  <2>5. Writes(u, s \o a)
    BY <2>1, <2>2, <2>4, WritesItem
  <2>6. Writes(SerializeItem(u, t.of, e[2]), (s \o a) \o b)
    BY <2>1, <2>3, <2>5, WritesItem
  <2>7. (s \o a) \o b = s \o (a \o b)
    <3>1. s \in Seq(Bytes)
      BY DEF Writes, Holds
    <3> QED
      BY <2>2, <2>3, <3>1, ConcatAssociative
  <2>8. SerializeEntry(w, t, e) = SerializeItem(u, t.of, e[2])
    BY <1>1, <2>4 DEF SerializeEntry
  <2>9. EntryBytes(t, e) = a \o b
    BY <1>1, <2>2, <2>3 DEF EntryBytes
  <2> QED
    BY <2>6, <2>7, <2>8, <2>9
<1>2. CASE t.type # "map"
  <2>1. Writes(SerializeItem(w, t.of, e), s \o ItemBytes(t.of, e))
    BY <1>2, WritesItem DEF Entry
  <2> QED
    BY <1>2, <2>1 DEF SerializeEntry, EntryBytes
<1> QED
  BY <1>1, <1>2

LEMMA ReadsEntry ==
  ASSUME NEW t, NEW e, Entry(t, e), NEW r, NEW x \in Seq(Bytes), NEW k,
         At(r, x, k), HasAt(x, k, EntryBytes(t, e))
  PROVE  Got(UnserializeEntry(r, t), x, k + Len(EntryBytes(t, e)), e)
<1>1. CASE t.type = "map"
  <2>1. /\ ItemType(t.key) /\ Item(t.key, e[1]) /\ ItemType(t.of) /\ Item(t.of, e[2])
        /\ e = <<e[1], e[2]>>
    BY <1>1 DEF Entry
  <2>2. PICK a \in Seq(Bytes): a = ItemBytes(t.key, e[1])
    BY <2>1, ItemBytesType
  <2>3. PICK b \in Seq(Bytes): b = ItemBytes(t.of, e[2])
    BY <2>1, ItemBytesType
  <2>4. EntryBytes(t, e) = a \o b
    BY <1>1, <2>2, <2>3 DEF EntryBytes
  <2>5. HasAt(x, k, a) /\ HasAt(x, k + Len(a), b) /\ Len(a \o b) = Len(a) + Len(b)
    <3>1. HasAt(x, k, a \o b)
      BY <2>4
    <3> QED
      BY <2>2, <2>3, <3>1, HasBoth
  <2>6. PICK i: i = k + Len(a)
    OBVIOUS
  <2>7. PICK q: q = UnserializeItem(r, t.key)
    OBVIOUS
  <2>8. Got(q, x, i, e[1])
    BY <2>1, <2>2, <2>5, <2>6, <2>7, ReadsItem
  <2>9. PICK j: j = i + Len(b)
    OBVIOUS
  <2>10. PICK u: u = UnserializeItem(q, t.of)
    OBVIOUS
  <2>11. Got(u, x, j, e[2])
    <3>1. At(q, x, i) /\ HasAt(x, i, ItemBytes(t.of, e[2]))
      BY <2>3, <2>5, <2>6, <2>8 DEF Got
    <3> QED
      BY <2>1, <2>3, <2>9, <2>10, <3>1, ReadsItem
  <2>12. UnserializeEntry(r, t) = [u EXCEPT !.value = e]
    <3>1. UnserializeEntry(r, t) = [u EXCEPT !.value = <<q.value, u.value>>]
      BY <1>1, <2>7, <2>10 DEF UnserializeEntry
    <3>2. <<q.value, u.value>> = e
      BY <2>1, <2>8, <2>11 DEF Got
    <3> QED
      BY <3>1, <3>2
  <2>13. Got(UnserializeEntry(r, t), x, j, e)
    <3>1. PICK z: z = UnserializeEntry(r, t)
      OBVIOUS
    <3>2. At(u, x, j)
      BY <2>11 DEF Got
    <3>3. Got(z, x, j, e)
      BY <2>12, <3>1, <3>2, ReadsOn
    <3> QED
      BY <3>1, <3>3
  <2>14. j = k + (Len(a) + Len(b))
    <3>1. k \in Nat /\ Len(a) \in Nat /\ Len(b) \in Nat
      BY <2>2, <2>3, <2>5, LenProperties DEF HasAt
    <3> QED
      BY <2>6, <2>9, <3>1
  <2> QED
    BY <2>4, <2>5, <2>13, <2>14
<1>2. CASE t.type # "map"
  <2>1. HasAt(x, k, ItemBytes(t.of, e)) /\ EntryBytes(t, e) = ItemBytes(t.of, e)
    BY <1>2 DEF EntryBytes
  <2>2. Got(UnserializeItem(r, t.of), x, k + Len(ItemBytes(t.of, e)), e)
    BY <1>2, <2>1, ReadsItem DEF Entry
  <2>3. UnserializeEntry(r, t) = UnserializeItem(r, t.of)
    BY <1>2 DEF UnserializeEntry
  <2> QED
    BY <2>1, <2>2, <2>3
<1> QED
  BY <1>1, <1>2


-------------------------------------------------------------------------------
(* Pieces behind each other: P[i] are the bytes up to the i-th piece. *)

ArePieces(n, first, piece) ==
  n \in Nat /\ first \in Seq(Bytes) /\ piece \in [1..n -> Seq(Bytes)]
Parts(n, first, piece, P) ==
  /\ P \in [0..n -> Seq(Bytes)] /\ P[0] = first
  /\ \A i \in 1..n: P[i] = P[i - 1] \o piece[i]

LEMMA PartsExist ==
  ASSUME NEW n, NEW first, NEW piece, ArePieces(n, first, piece)
  PROVE  \E P: Parts(n, first, piece, P)
<1> DEFINE step == [i \in 1..n |-> [s \in Seq(Bytes) |-> s \o piece[i]]]
<1>1. n \in Nat /\ first \in Seq(Bytes) /\ \A i \in 1..n: piece[i] \in Seq(Bytes)
  BY DEF ArePieces
<1>2. ASSUME NEW i \in 1..n PROVE [s \in Seq(Bytes) |-> s \o piece[i]] \in [Seq(Bytes) -> Seq(Bytes)]
  BY <1>1, Concatenated
<1>3. step \in [1..n -> [Seq(Bytes) -> Seq(Bytes)]]
      /\ \A i \in 1..n: \A s \in Seq(Bytes): step[i][s] = s \o piece[i]
  BY <1>2
<1> HIDE DEF step
<1>4. IsLoop(n, Seq(Bytes), first, step)
  BY <1>1, <1>3 DEF IsLoop
<1>5. PICK P: Runs(n, Seq(Bytes), first, step, P)
  BY <1>4, LoopExists
<1>6. P \in [0..n -> Seq(Bytes)] /\ P[0] = first /\ \A i \in 1..n: P[i] = step[i][P[i - 1]]
  BY <1>5 DEF Runs
<1>7. ASSUME NEW i \in 1..n PROVE P[i] = P[i - 1] \o piece[i]
  <2>1. i - 1 \in 0..n
    BY <1>1
  <2> QED
    BY <1>3, <1>6, <2>1
<1> QED
  BY <1>6, <1>7 DEF Parts

(* In x, from k on, each piece lies behind the ones before it. *)
PartsLie(n, first, piece, P, x, k) ==
  /\ HasAt(x, k, first) /\ (n = 0 => P[n] = first)
  /\ \A i \in 1..n: /\ HasAt(x, k + Len(P[i - 1]), piece[i])
                    /\ Len(P[i]) = Len(P[i - 1]) + Len(piece[i])
                    /\ (k + Len(P[i - 1])) + Len(piece[i]) = k + Len(P[i])

LEMMA PartsAt ==
  ASSUME NEW n, NEW first, NEW piece, ArePieces(n, first, piece),
         NEW P, Parts(n, first, piece, P), NEW x \in Seq(Bytes), NEW k, HasAt(x, k, P[n])
  PROVE  PartsLie(n, first, piece, P, x, k)
<1>1. /\ n \in Nat /\ first \in Seq(Bytes) /\ \A i \in 1..n: piece[i] \in Seq(Bytes)
      /\ P[0] = first /\ \A i \in 0..n: P[i] \in Seq(Bytes)
      /\ \A i \in 1..n: P[i] = P[i - 1] \o piece[i]
  BY DEF ArePieces, Parts
<1>2. ASSUME NEW i \in 1..n, HasAt(x, k, P[i])
      PROVE  /\ HasAt(x, k, P[i - 1]) /\ HasAt(x, k + Len(P[i - 1]), piece[i])
             /\ Len(P[i]) = Len(P[i - 1]) + Len(piece[i])
             /\ (k + Len(P[i - 1])) + Len(piece[i]) = k + Len(P[i])
  <2>1. i - 1 \in 0..n
    BY <1>1
  <2>2. PICK a \in Seq(Bytes): a = P[i - 1]
    BY <1>1, <2>1
  <2>3. PICK b \in Seq(Bytes): b = piece[i]
    BY <1>1
  <2>4. P[i] = a \o b /\ HasAt(x, k, a \o b)
    BY <1>1, <1>2, <2>2, <2>3
  <2>5. HasAt(x, k, a) /\ HasAt(x, k + Len(a), b) /\ Len(a \o b) = Len(a) + Len(b)
    BY <2>4, HasBoth
  <2>6. k \in Nat /\ Len(a) \in Nat /\ Len(b) \in Nat
    BY <2>5, LenProperties DEF HasAt
  <2>7. (k + Len(a)) + Len(b) = k + Len(a \o b)
    BY <2>5, <2>6
  <2> QED
    BY <2>2, <2>3, <2>4, <2>5, <2>7
<1> DEFINE T == {m \in Nat: m <= n => HasAt(x, k, P[n - m])}
<1>3. 0 \in T
  BY <1>1
<1>4. ASSUME NEW m \in Nat, m \in T PROVE m + 1 \in T
  <2> SUFFICES ASSUME m + 1 <= n PROVE HasAt(x, k, P[n - (m + 1)])
    OBVIOUS
  <2>1. n - m \in 1..n /\ n - (m + 1) = (n - m) - 1 /\ HasAt(x, k, P[n - m])
    BY <1>1, <1>4
  <2> QED
    BY <1>2, <2>1
<1>5. ASSUME NEW i \in 0..n PROVE HasAt(x, k, P[i])
  <2> HIDE DEF T
  <2>1. n - i \in Nat /\ n - i <= n /\ n - (n - i) = i
    BY <1>1
  <2>2. n - i \in T
    BY <1>3, <1>4, <2>1, SetInduction
  <2>3. HasAt(x, k, P[n - (n - i)])
    BY <2>1, <2>2 DEF T
  <2> QED
    BY <2>1, <2>3
<1>6. 0 \in 0..n /\ \A i \in 1..n: i \in 0..n
  BY <1>1
<1>7. HasAt(x, k, first) /\ (n = 0 => P[n] = first)
  BY <1>1, <1>5, <1>6
<1> HIDE DEF T
<1>8. ASSUME NEW i \in 1..n
      PROVE  /\ HasAt(x, k + Len(P[i - 1]), piece[i])
             /\ Len(P[i]) = Len(P[i - 1]) + Len(piece[i])
             /\ (k + Len(P[i - 1])) + Len(piece[i]) = k + Len(P[i])
  BY <1>2, <1>5, <1>6
<1> QED
  BY <1>7, <1>8 DEF PartsLie

-------------------------------------------------------------------------------
(* A container: the loop that writes its entries and the one that reads. *)

LEMMA SerializeAllRuns ==
  ASSUME NEW w, NEW t, NEW e, Len(e) \in Nat
  PROVE  \E f: /\ f[0] = WriteInt(w, Len(e), Width)
               /\ \A i \in 1..Len(e): f[i] = SerializeEntry(f[i - 1], t, e[i])
               /\ SerializeAll(w, t, e) = f[Len(e)]
<1> DEFINE n == Len(e)
           base == WriteInt(w, Len(e), Width)
           Is(f, m) == f = [i \in 0..m |-> IF i = 0 THEN base ELSE SerializeEntry(f[i - 1], t, e[i])]
           T == {m \in Nat: \E f: Is(f, m)}
<1>1. SerializeAll(w, t, e) = (CHOOSE f: Is(f, n))[n]
  BY DEF SerializeAll
<1> HIDE DEF base
<1>2. 0 \in T
  <2> DEFINE f == [i \in 0..0 |-> base]
  <2>1. f = [i \in 0..0 |-> IF i = 0 THEN base ELSE SerializeEntry(f[i - 1], t, e[i])]
    OBVIOUS
  <2> QED
    BY <2>1
<1>3. ASSUME NEW m \in Nat, m \in T PROVE m + 1 \in T
  <2>1. PICK f: Is(f, m)
    BY <1>3
  <2> DEFINE g == [i \in 0..m + 1 |-> IF i <= m THEN f[i] ELSE SerializeEntry(f[m], t, e[m + 1])]
  <2>2. ASSUME NEW i \in 0..m + 1
        PROVE  g[i] = IF i = 0 THEN base ELSE SerializeEntry(g[i - 1], t, e[i])
    <3>1. CASE i = 0
      BY <2>1, <3>1
    <3>2. CASE i # 0 /\ i <= m
      <4>1. i - 1 \in 0..m + 1 /\ i - 1 <= m /\ i \in 0..m
        BY <3>2
      <4> QED
        BY <2>1, <3>2, <4>1
    <3>3. CASE i = m + 1
      BY <3>3
    <3> QED
      BY <3>1, <3>2, <3>3
  <2>3. g = [i \in 0..m + 1 |-> g[i]]
    OBVIOUS
  <2> HIDE DEF g
  <2>4. Is(g, m + 1)
    BY <2>2, <2>3
  <2> QED
    BY <2>4
<1> HIDE DEF T
<1>4. n \in T
  BY <1>2, <1>3, SetInduction
<1>5. PICK f: f = CHOOSE g: Is(g, n)
  OBVIOUS
<1>6. Is(f, n)
  BY <1>4, <1>5 DEF T
<1>7. f[0] = base /\ \A i \in 1..n: f[i] = SerializeEntry(f[i - 1], t, e[i])
  BY <1>6
<1> QED
  BY <1>1, <1>5, <1>7 DEF base


LEMMA UnserializeAllRuns ==
  ASSUME NEW r, NEW t, NEW q, q = ReadInt(r, Width), ~q.failed, NEW n \in Nat, q.value = n
  PROVE  \E f: /\ f[0] = [q EXCEPT !.value = <<>>]
               /\ \A i \in 1..n: f[i] = Appended(f[i - 1], UnserializeEntry(f[i - 1], t))
               /\ UnserializeAll(r, t) = f[n]
<1> DEFINE base == [q EXCEPT !.value = <<>>]
           Is(f, m) == f = [i \in 0..m |-> IF i = 0 THEN base
                              ELSE Appended(f[i - 1], UnserializeEntry(f[i - 1], t))]
           T == {m \in Nat: \E f: Is(f, m)}
<1>1. UnserializeAll(r, t) = (CHOOSE f: Is(f, n))[n]
  BY DEF UnserializeAll
<1> HIDE DEF base
<1>2. 0 \in T
  <2> DEFINE f == [i \in 0..0 |-> base]
  <2>1. f = [i \in 0..0 |-> IF i = 0 THEN base
               ELSE Appended(f[i - 1], UnserializeEntry(f[i - 1], t))]
    OBVIOUS
  <2> QED
    BY <2>1
<1>3. ASSUME NEW m \in Nat, m \in T PROVE m + 1 \in T
  <2>1. PICK f: Is(f, m)
    BY <1>3
  <2> DEFINE g == [i \in 0..m + 1 |-> IF i <= m THEN f[i]
                                      ELSE Appended(f[m], UnserializeEntry(f[m], t))]
  <2>2. ASSUME NEW i \in 0..m + 1
        PROVE  g[i] = IF i = 0 THEN base
                      ELSE Appended(g[i - 1], UnserializeEntry(g[i - 1], t))
    <3>1. CASE i = 0
      BY <2>1, <3>1
    <3>2. CASE i # 0 /\ i <= m
      <4>1. i - 1 \in 0..m + 1 /\ i - 1 <= m /\ i \in 0..m
        BY <3>2
      <4> QED
        BY <2>1, <3>2, <4>1
    <3>3. CASE i = m + 1
      BY <3>3
    <3> QED
      BY <3>1, <3>2, <3>3
  <2>3. g = [i \in 0..m + 1 |-> g[i]]
    OBVIOUS
  <2> HIDE DEF g
  <2>4. Is(g, m + 1)
    BY <2>2, <2>3
  <2> QED
    BY <2>4
<1> HIDE DEF T
<1>4. n \in T
  BY <1>2, <1>3, SetInduction
<1>5. PICK f: f = CHOOSE g: Is(g, n)
  OBVIOUS
<1>6. Is(f, n)
  BY <1>4, <1>5 DEF T
<1>7. f[0] = base /\ \A i \in 1..n: f[i] = Appended(f[i - 1], UnserializeEntry(f[i - 1], t))
  BY <1>6
<1> QED
  BY <1>1, <1>5, <1>7 DEF base


Prefix(e, i) == [j \in 1..i |-> e[j]]

LEMMA PrefixStep ==
  ASSUME NEW e, NEW i \in Nat \ {0}
  PROVE  Append(Prefix(e, i - 1), e[i]) = Prefix(e, i) /\ Prefix(e, 0) = <<>>
<1> DEFINE S == {e[j]: j \in 1..i}
           a == Prefix(e, i - 1)
           b == Prefix(e, i)
<1>1. i - 1 \in Nat /\ 1..i - 1 \subseteq 1..i
  OBVIOUS
<1>2. a \in [1..i - 1 -> S] /\ b \in [1..i -> S] /\ e[i] \in S
      /\ (\A j \in 1..i - 1: a[j] = e[j]) /\ (\A j \in 1..i: b[j] = e[j])
  BY <1>1 DEF Prefix
<1> HIDE DEF S, a, b
<1>3. a \in Seq(S) /\ Len(a) = i - 1 /\ b \in Seq(S) /\ Len(b) = i
  BY <1>1, <1>2, AsSequence
<1> DEFINE c == Append(a, e[i])
<1>4. c \in Seq(S) /\ Len(c) = i /\ c[i] = e[i] /\ \A j \in 1..i - 1: c[j] = a[j]
  BY <1>1, <1>2, <1>3, AppendProperties
<1> HIDE DEF c
<1>5. \A j \in 1..i: c[j] = b[j]
  BY <1>2, <1>4
<1>6. c = b
  BY <1>3, <1>4, <1>5, SeqEqual
<1>7. Prefix(e, 0) = <<>>
  BY DEF Prefix
<1> QED
  BY <1>6, <1>7 DEF a, b, c

(* The entries that a container can have, and the bytes that they become. *)
ListOf(t, e) ==
  /\ Fits(Len(e), Width) /\ e = [i \in 1..Len(e) |-> e[i]]
  /\ \A i \in 1..Len(e): Entry(t, e[i])

CountBytes(e) == Encode(Len(e), Width)
AllEntryBytes(t, e) == [i \in 1..Len(e) |-> EntryBytes(t, e[i])]

LEMMA ListPieces ==
  ASSUME NEW t, NEW e, ListOf(t, e)
  PROVE  /\ ArePieces(Len(e), CountBytes(e), AllEntryBytes(t, e))
         /\ Len(CountBytes(e)) = Width /\ CountBytes(e) \in Seq(Bytes)
<1>1. Len(e) \in Nat /\ \A i \in 1..Len(e): EntryBytes(t, e[i]) \in Seq(Bytes)
  BY EntryBytesType DEF ListOf, Fits
<1>2. CountBytes(e) \in Seq(Bytes) /\ Len(CountBytes(e)) = Width
  BY <1>1, EncodeType DEF CountBytes
<1>3. AllEntryBytes(t, e) \in [1..Len(e) -> Seq(Bytes)]
  BY <1>1 DEF AllEntryBytes
<1> QED
  BY <1>1, <1>2, <1>3 DEF ArePieces


LEMMA WritesAll ==
  ASSUME NEW t, NEW e, ListOf(t, e), NEW w, NEW s, Writes(w, s),
         NEW P, Parts(Len(e), CountBytes(e), AllEntryBytes(t, e), P)
  PROVE  Writes(SerializeAll(w, t, e), s \o P[Len(e)])
<1>1. PICK n \in Nat: n = Len(e)
  BY DEF ListOf, Fits
<1>2. PICK f: /\ f[0] = WriteInt(w, n, Width)
              /\ \A i \in 1..n: f[i] = SerializeEntry(f[i - 1], t, e[i])
              /\ SerializeAll(w, t, e) = f[n]
  <2>1. Len(e) \in Nat
    BY <1>1
  <2>2. \E f: /\ f[0] = WriteInt(w, Len(e), Width)
              /\ \A i \in 1..Len(e): f[i] = SerializeEntry(f[i - 1], t, e[i])
              /\ SerializeAll(w, t, e) = f[Len(e)]
    BY <2>1, SerializeAllRuns
  <2> QED
    BY <1>1, <2>2
<1>3. s \in Seq(Bytes)
  BY DEF Writes, Holds
<1>4. /\ P \in [0..n -> Seq(Bytes)] /\ P[0] = Encode(n, Width)
      /\ \A i \in 1..n: P[i] = P[i - 1] \o EntryBytes(t, e[i])
  BY <1>1 DEF Parts, CountBytes, AllEntryBytes
<1> DEFINE T == {m \in Nat: m <= n => Writes(f[m], s \o P[m])}
<1>5. 0 \in T
  <2>1. <<>> \in Seq(Bytes)
    BY EmptySeq
  <2>2. Writes(WriteInt(w, n, Width), s \o Encode(n, Width))
    BY <2>1, WritesMore
  <2> QED
    BY <1>2, <1>4, <2>2
<1>6. ASSUME NEW m \in Nat, m \in T PROVE m + 1 \in T
  <2> SUFFICES ASSUME m + 1 <= n PROVE Writes(f[m + 1], s \o P[m + 1])
    OBVIOUS
  <2>1. m + 1 \in 1..n /\ (m + 1) - 1 = m /\ m \in 0..n /\ Writes(f[m], s \o P[m])
    BY <1>6
  <2>2. PICK a \in Seq(Bytes): a = P[m]
    BY <1>4, <2>1
  <2>3. Entry(t, e[m + 1])
    BY <1>1, <2>1 DEF ListOf
  <2>4. PICK b \in Seq(Bytes): b = EntryBytes(t, e[m + 1])
    BY <2>3, EntryBytesType
  <2>5. PICK u: u = s \o a
    OBVIOUS
  <2>6. Writes(f[m], u)
    BY <2>1, <2>2, <2>5
  <2>7. Writes(SerializeEntry(f[m], t, e[m + 1]), u \o b)
    BY <2>3, <2>4, <2>6, WritesEntry
  <2>8. u \o b = s \o (a \o b)
    BY <1>3, <2>5, ConcatAssociative
  <2>9. P[m + 1] = a \o b /\ f[m + 1] = SerializeEntry(f[m], t, e[m + 1])
    BY <1>2, <1>4, <2>1, <2>2, <2>4
  <2> QED
    BY <2>7, <2>8, <2>9
<1> HIDE DEF T
<1>7. n \in T
  BY <1>5, <1>6, SetInduction
<1> QED
  BY <1>1, <1>2, <1>7 DEF T

(* What is appended to the entries that were read. *)
LEMMA ReadsPrefix ==
  ASSUME NEW u, NEW x, NEW k, NEW j, NEW e, NEW i \in Nat \ {0}, NEW q,
         Got(u, x, k, Prefix(e, i - 1)), Got(q, x, j, e[i])
  PROVE  Got(Appended(u, q), x, j, Prefix(e, i))
<1>1. At(q, x, j) /\ q.value = e[i] /\ ~q.failed /\ u.value = Prefix(e, i - 1)
  BY DEF Got, At
<1>2. Append(u.value, q.value) = Prefix(e, i)
  BY <1>1, PrefixStep
<1>3. PICK z: z = Appended(u, q)
  OBVIOUS
<1>4. z = [q EXCEPT !.value = Prefix(e, i)]
  BY <1>1, <1>2, <1>3 DEF Appended
<1>5. Got(z, x, j, Prefix(e, i))
  BY <1>1, <1>4, ReadsOn
<1> QED
  BY <1>3, <1>5

LEMMA ReadsAll ==
  ASSUME NEW t, NEW e, ListOf(t, e), NEW r, NEW x \in Seq(Bytes), NEW k, At(r, x, k),
         NEW P, Parts(Len(e), CountBytes(e), AllEntryBytes(t, e), P), HasAt(x, k, P[Len(e)])
  PROVE  Got(UnserializeAll(r, t), x, k + Len(P[Len(e)]), e)
<1>1. PICK n \in Nat: n = Len(e) /\ Fits(n, Width) /\ e = Prefix(e, n)
  BY DEF ListOf, Fits, Prefix
<1> DEFINE first == CountBytes(e)
           piece == AllEntryBytes(t, e)
<1>2. ArePieces(n, first, piece) /\ Len(first) = Width /\ first = Encode(n, Width)
      /\ Parts(n, first, piece, P) /\ \A i \in 1..n: piece[i] = EntryBytes(t, e[i])
  BY <1>1, ListPieces DEF CountBytes, AllEntryBytes
<1> HIDE DEF first, piece
<1>3. /\ HasAt(x, k, first)
      /\ \A i \in 1..n: /\ HasAt(x, k + Len(P[i - 1]), piece[i])
                        /\ (k + Len(P[i - 1])) + Len(piece[i]) = k + Len(P[i])
  <2>1. HasAt(x, k, P[n])
    BY <1>1
  <2>2. ArePieces(n, first, piece) /\ Parts(n, first, piece, P)
    BY <1>2
  <2>3. PartsLie(n, first, piece, P, x, k)
    BY <2>1, <2>2, PartsAt
  <2> QED
    BY <2>3 DEF PartsLie
<1>4. P[0] = first
  BY <1>2 DEF Parts
<1>5. PICK q: q = ReadInt(r, Width)
  OBVIOUS
<1>6. Got(q, x, k + Width, n)
  BY <1>1, <1>2, <1>3, <1>5, ReadsInt
<1>7. At(q, x, k + Width) /\ q.value = n /\ ~q.failed
  BY <1>6 DEF Got, At
<1>8. PICK f: /\ f[0] = [q EXCEPT !.value = <<>>]
              /\ \A i \in 1..n: f[i] = Appended(f[i - 1], UnserializeEntry(f[i - 1], t))
              /\ UnserializeAll(r, t) = f[n]
  BY <1>5, <1>7, UnserializeAllRuns
<1> DEFINE T == {m \in Nat: m <= n => Got(f[m], x, k + Len(P[m]), Prefix(e, m))}
<1>9. 0 \in T
  <2>1. PICK z: z = f[0]
    OBVIOUS
  <2>2. Got(z, x, k + Width, <<>>)
    BY <1>7, <1>8, <2>1, ReadsOn
  <2>3. Prefix(e, 0) = <<>>
    BY DEF Prefix
  <2> QED
    BY <1>2, <1>4, <2>1, <2>2, <2>3
<1>10. ASSUME NEW m \in Nat, m \in T PROVE m + 1 \in T
  <2> SUFFICES ASSUME m + 1 <= n PROVE Got(f[m + 1], x, k + Len(P[m + 1]), Prefix(e, m + 1))
    OBVIOUS
  <2>1. PICK i \in 1..n: i = m + 1 /\ i - 1 = m /\ i \in Nat \ {0}
    OBVIOUS
  <2>2. Got(f[i - 1], x, k + Len(P[i - 1]), Prefix(e, i - 1))
    BY <1>10, <2>1
  <2>3. PICK u: u = f[i - 1]
    OBVIOUS
  <2>4. PICK j: j = k + Len(P[i - 1])
    OBVIOUS
  <2>5. Entry(t, e[i])
    BY <1>1 DEF ListOf
  <2>6. PICK b: b = EntryBytes(t, e[i])
    OBVIOUS
  <2>7. HasAt(x, j, b) /\ j + Len(b) = k + Len(P[i])
    BY <1>2, <1>3, <2>4, <2>6
  <2>8. At(u, x, j) /\ Got(u, x, j, Prefix(e, i - 1))
    BY <2>2, <2>3, <2>4 DEF Got
  <2>9. PICK v: v = UnserializeEntry(u, t)
    OBVIOUS
  <2>10. Got(v, x, j + Len(b), e[i])
    BY <2>5, <2>6, <2>7, <2>8, <2>9, ReadsEntry
  <2>11. Got(Appended(u, v), x, j + Len(b), Prefix(e, i))
    BY <2>1, <2>8, <2>10, ReadsPrefix
  <2>12. f[i] = Appended(u, v)
    BY <1>8, <2>3, <2>9
  <2> QED
    BY <2>1, <2>7, <2>11, <2>12
<1> HIDE DEF T
<1>11. n \in T
  BY <1>9, <1>10, SetInduction
<1>12. Got(f[n], x, k + Len(P[n]), Prefix(e, n))
  BY <1>11 DEF T
<1> QED
  BY <1>1, <1>8, <1>12


-------------------------------------------------------------------------------
(* The keys of a set or of a map, in their order. *)

Sorted(s, keys) ==
  s \in [1..Cardinality(keys) -> keys] /\ \A i, j \in DOMAIN s: i < j => s[i] < s[j]

LEMMA SortedExists ==
  ASSUME NEW keys \in SUBSET Nat, IsFiniteSet(keys)
  PROVE  \E s: Sorted(s, keys)
<1> DEFINE T == {m \in Nat: \A K \in SUBSET Nat:
                   IsFiniteSet(K) /\ Cardinality(K) = m => \E s: Sorted(s, K)}
<1>1. 0 \in T
  <2> SUFFICES ASSUME NEW K \in SUBSET Nat, IsFiniteSet(K), Cardinality(K) = 0
               PROVE  \E s: Sorted(s, K)
    OBVIOUS
  <2> DEFINE s == [i \in {} |-> 0]
  <2>1. 1..Cardinality(K) = {}
    OBVIOUS
  <2>2. s \in [1..Cardinality(K) -> K] /\ DOMAIN s = {}
    BY <2>1
  <2> HIDE DEF s
  <2>3. Sorted(s, K)
    BY <2>2 DEF Sorted
  <2> QED
    BY <2>3
<1>2. ASSUME NEW m \in Nat, m \in T PROVE m + 1 \in T
  <2> SUFFICES ASSUME NEW K \in SUBSET Nat, IsFiniteSet(K), Cardinality(K) = m + 1
               PROVE  \E s: Sorted(s, K)
    OBVIOUS
  <2>1. K # {}
    BY FS_EmptySet
  <2>2. PICK x \in K: \A y \in K: x <= y
    BY <2>1, LeastElement
  <2> DEFINE J == K \ {x}
  <2>3. J \in SUBSET Nat /\ IsFiniteSet(J) /\ Cardinality(J) = m
    <3>1. IsFiniteSet(J) /\ Cardinality(J) = IF x \in K THEN Cardinality(K) - 1 ELSE Cardinality(K)
      BY FS_RemoveElement
    <3> HIDE DEF J
    <3>2. Cardinality(J) = m
      BY <3>1
    <3> QED
      BY <3>1, <3>2 DEF J
  <2>4. \A y \in J: x < y /\ y \in Nat /\ y \in K
    BY <2>2
  <2> HIDE DEF J
  <2>5. PICK r: Sorted(r, J)
    BY <1>2, <2>3
  <2>6. r \in [1..m -> J] /\ \A i, j \in 1..m: i < j => r[i] < r[j]
    BY <2>3, <2>5 DEF Sorted
  <2> DEFINE s == [i \in 1..m + 1 |-> IF i = 1 THEN x ELSE r[i - 1]]
  <2>7. \A i \in 2..m + 1: i - 1 \in 1..m /\ i \in 1..m + 1
    OBVIOUS
  <2>8. s \in [1..m + 1 -> K] /\ DOMAIN s = 1..m + 1 /\ s[1] = x
        /\ \A i \in 2..m + 1: s[i] = r[i - 1] /\ s[i] \in J
    <3>1. \A i \in 2..m + 1: r[i - 1] \in J /\ r[i - 1] \in K
      BY <2>4, <2>6, <2>7
    <3> QED
      BY <2>7, <3>1
  <2> HIDE DEF s
  <2>9. ASSUME NEW i \in 1..m + 1, NEW j \in 1..m + 1, i < j PROVE s[i] < s[j]
    <3>1. j \in 2..m + 1
      BY <2>9
    <3>2. CASE i = 1
      BY <2>4, <2>8, <3>1, <3>2
    <3>3. CASE i # 1
      <4>1. i \in 2..m + 1 /\ i - 1 < j - 1 /\ i - 1 \in 1..m /\ j - 1 \in 1..m
        BY <2>9, <3>1, <3>3
      <4>2. r[i - 1] < r[j - 1]
        BY <2>6, <4>1
      <4> QED
        BY <2>8, <3>1, <4>1, <4>2
    <3> QED
      BY <3>2, <3>3
  <2>10. Sorted(s, K)
    BY <2>8, <2>9 DEF Sorted
  <2> QED
    BY <2>10
<1> HIDE DEF T
<1>3. \A n \in Nat: n \in T
  BY <1>1, <1>2, SetInduction
<1>4. Cardinality(keys) \in Nat
  BY FS_CardinalityType
<1> QED
  BY <1>3, <1>4 DEF T

LEMMA OrderedKeys ==
  ASSUME NEW keys \in SUBSET Nat, IsFiniteSet(keys)
  PROVE  /\ Ordered(keys) \in [1..Cardinality(keys) -> keys]
         /\ \A i, j \in 1..Cardinality(keys): Ordered(keys)[i] = Ordered(keys)[j] => i = j
         /\ \A x \in keys: \E i \in 1..Cardinality(keys): Ordered(keys)[i] = x
         /\ Cardinality(keys) \in Nat
<1>1. PICK n \in Nat: n = Cardinality(keys)
  BY FS_CardinalityType
<1>2. PICK o: o = Ordered(keys)
  OBVIOUS
<1>3. o \in [1..n -> keys] /\ \A i, j \in 1..n: i < j => o[i] < o[j]
  <2>1. \E s \in [1..Cardinality(keys) -> keys]: \A i, j \in DOMAIN s: i < j => s[i] < s[j]
    BY SortedExists DEF Sorted
  <2>2. /\ o \in [1..Cardinality(keys) -> keys]
        /\ \A i, j \in DOMAIN o: i < j => o[i] < o[j]
    BY <1>2, <2>1 DEF Ordered
  <2> QED
    BY <1>1, <2>2
<1>4. ASSUME NEW i \in 1..n, NEW j \in 1..n, o[i] = o[j] PROVE i = j
  <2>0. o[i] \in keys
    BY <1>3
  <2>1. PICK a \in Nat: a = o[i]
    BY <2>0
  <2>2. ~(i < j) /\ ~(j < i)
    <3>1. ~(a < a)
      OBVIOUS
    <3> QED
      BY <1>3, <1>4, <2>1, <3>1
  <2> QED
    BY <2>2
<1>5. o \in Injection(1..n, keys)
  BY <1>3, <1>4 DEF Injection, IsInjective
<1>6. Cardinality(1..n) = n /\ IsFiniteSet(1..n)
  BY FS_Interval
<1>7. o \in Surjection(1..n, keys)
  BY <1>1, <1>5, <1>6, FS_Injection
<1>8. \A x \in keys: \E i \in 1..n: o[i] = x
  BY <1>7 DEF Surjection
<1> QED
  BY <1>1, <1>2, <1>3, <1>4, <1>8


-------------------------------------------------------------------------------
(* The entries of a container, and the container that they make again. *)

LEMMA KeysAreNumbers ==
  ASSUME NEW t, KeyType(t), NEW keys, \A x \in keys: Item(t, x)
  PROVE  keys \in SUBSET Nat /\ ItemType(t)
BY DEF KeyType, ItemType, Item, Fits

LEMMA VectorEntries ==
  ASSUME NEW t, FieldType(t), t.type = "vector", NEW v, Field(t, v)
  PROVE  ListOf(t, Entries(t, v)) /\ Entries(t, v) = v
<1>1. Entries(t, v) = v
  BY DEF Entries
<1>2. ItemType(t.of)
  BY DEF FieldType
<1>3. Fits(Len(v), Width) /\ v = [i \in 1..Len(v) |-> v[i]] /\ \A i \in 1..Len(v): Item(t.of, v[i])
  BY DEF Field, Counts
<1>4. ListOf(t, v)
  BY <1>2, <1>3 DEF ListOf, Entry
<1> QED
  BY <1>1, <1>4

LEMMA SetEntries ==
  ASSUME NEW t, FieldType(t), t.type = "set", NEW v, Field(t, v)
  PROVE  ListOf(t, Entries(t, v)) /\ ToSet(Entries(t, v)) = v
<1>1. IsFiniteSet(v) /\ Fits(Cardinality(v), Width) /\ \A x \in v: Item(t.of, x)
  BY DEF Field, Counts
<1>2. KeyType(t.of)
  BY DEF FieldType
<1>3. v \in SUBSET Nat /\ ItemType(t.of)
  BY <1>1, <1>2, KeysAreNumbers
<1>4. PICK n: n = Cardinality(v)
  OBVIOUS
<1>5. PICK o: o = Ordered(v)
  OBVIOUS
<1>6. o \in [1..n -> v] /\ n \in Nat /\ \A x \in v: \E i \in 1..n: o[i] = x
  BY <1>1, <1>3, <1>4, <1>5, OrderedKeys
<1>7. Entries(t, v) = o
  BY <1>5 DEF Entries
<1>8. Len(o) = n
  BY <1>6, AsSequence
<1>9. o = [i \in 1..n |-> o[i]] /\ \A i \in 1..n: Item(t.of, o[i])
  BY <1>1, <1>6
<1>10. ListOf(t, o)
  BY <1>1, <1>3, <1>4, <1>8, <1>9 DEF ListOf, Entry
<1>11. ToSet(o) = v
  <2>1. DOMAIN o = 1..n /\ \A i \in 1..n: o[i] \in v
    BY <1>6
  <2> QED
    BY <1>6, <2>1 DEF ToSet
<1> QED
  BY <1>7, <1>10, <1>11

LEMMA MapEntries ==
  ASSUME NEW t, FieldType(t), t.type = "map", NEW v, Field(t, v)
  PROVE  ListOf(t, Entries(t, v)) /\ MapOfPairs(Entries(t, v)) = v
<1> DEFINE K == DOMAIN v
<1>1. /\ IsFiniteSet(K) /\ Fits(Cardinality(K), Width) /\ v = [k \in K |-> v[k]]
      /\ \A k \in K: Item(t.key, k) /\ Item(t.of, v[k])
  BY DEF Field, Counts
<1>2. KeyType(t.key) /\ ItemType(t.of)
  BY DEF FieldType
<1>3. K \in SUBSET Nat /\ ItemType(t.key)
  BY <1>1, <1>2, KeysAreNumbers
<1>4. PICK n: n = Cardinality(K)
  OBVIOUS
<1>5. PICK o: o = Ordered(K)
  OBVIOUS
<1>6. /\ o \in [1..n -> K] /\ n \in Nat /\ \A x \in K: \E i \in 1..n: o[i] = x
      /\ \A i, j \in 1..n: o[i] = o[j] => i = j
  <2> HIDE DEF K
  <2>1. K \in SUBSET Nat /\ IsFiniteSet(K)
    BY <1>1, <1>3
  <2>2. /\ Ordered(K) \in [1..Cardinality(K) -> K]
        /\ \A i, j \in 1..Cardinality(K): Ordered(K)[i] = Ordered(K)[j] => i = j
        /\ \A x \in K: \E i \in 1..Cardinality(K): Ordered(K)[i] = x
        /\ Cardinality(K) \in Nat
    BY <2>1, OrderedKeys
  <2> QED
    BY <1>4, <1>5, <2>2
<1> DEFINE e == [i \in 1..n |-> <<o[i], v[o[i]]>>]
<1>7. Entries(t, v) = e
  <2>1. DOMAIN o = 1..n
    BY <1>6
  <2> QED
    BY <1>5, <2>1 DEF Entries
<1>8. /\ DOMAIN e = 1..n /\ e = [i \in 1..n |-> e[i]]
      /\ \A i \in 1..n: e[i] = <<o[i], v[o[i]]>> /\ e[i][1] = o[i] /\ e[i][2] = v[o[i]] /\ o[i] \in K
  BY <1>6
<1>9. Len(e) = n
  <2> DEFINE S == {e[i]: i \in 1..n}
  <2>1. e \in [1..n -> S]
    BY <1>8
  <2> HIDE DEF e, S
  <2> QED
    BY <1>6, <2>1, AsSequence
<1> HIDE DEF e
<1>10. ListOf(t, e)
  <2>1. ASSUME NEW i \in 1..n PROVE Entry(t, e[i])
    <3>1. PICK a: a = e[i]
      OBVIOUS
    <3>2. a = <<a[1], a[2]>> /\ Item(t.key, a[1]) /\ Item(t.of, a[2])
      BY <1>1, <1>8, <3>1
    <3>3. Entry(t, a)
      BY <1>2, <1>3, <3>2 DEF Entry
    <3> QED
      BY <3>1, <3>3
  <2> QED
    BY <1>1, <1>4, <1>8, <1>9, <2>1 DEF ListOf
<1>11. MapOfPairs(e) = v
  <2> DEFINE last(k) == CHOOSE i \in DOMAIN e: e[i][1] = k /\ \A j \in DOMAIN e: e[j][1] = k => j <= i
  <2>1. MapOfPairs(e) = [k \in {e[i][1]: i \in DOMAIN e} |-> e[last(k)][2]]
    BY DEF MapOfPairs
  <2>2. {e[i][1]: i \in DOMAIN e} = K
    <3>1. \A i \in DOMAIN e: e[i][1] \in K
      BY <1>8
    <3>2. ASSUME NEW x \in K PROVE \E i \in DOMAIN e: e[i][1] = x
      <4>1. PICK i \in 1..n: o[i] = x
        BY <1>6
      <4> QED
        BY <1>8, <4>1
    <3> HIDE DEF K
    <3> QED
      BY <3>1, <3>2
  <2>3. ASSUME NEW k \in K PROVE e[last(k)][2] = v[k]
    <3>1. PICK i \in 1..n: o[i] = k
      BY <1>6
    <3>2. e[i][1] = k /\ \A j \in 1..n: e[j][1] = k => j = i
      BY <1>6, <1>8, <3>1
    <3>3. i <= i
      OBVIOUS
    <3>4. \E h \in DOMAIN e: e[h][1] = k /\ \A j \in DOMAIN e: e[j][1] = k => j <= h
      BY <1>8, <3>2, <3>3
    <3>5. last(k) \in 1..n /\ e[last(k)][1] = k
      BY <1>8, <3>4
    <3>6. last(k) = i
      BY <3>2, <3>5
    <3> QED
      BY <1>8, <3>1, <3>6
  <2> HIDE DEF last
  <2> QED
    BY <1>1, <2>1, <2>2, <2>3
<1> QED
  BY <1>7, <1>10, <1>11


-------------------------------------------------------------------------------
(* A field. *)

ListBytes(t, e) ==
  (CHOOSE P: Parts(Len(e), CountBytes(e), AllEntryBytes(t, e), P))[Len(e)]

FieldBytes(t, v) ==
  IF t.type \in {"int", "string"} THEN ItemBytes(t, v) ELSE ListBytes(t, Entries(t, v))

ContainerOf(t, e) ==
  CASE t.type = "vector" -> e [] t.type = "set" -> ToSet(e) [] t.type = "map" -> MapOfPairs(e)

LEMMA Containers ==
  ASSUME NEW t, FieldType(t), t.type \notin {"int", "string"}, NEW v, Field(t, v)
  PROVE  /\ ListOf(t, Entries(t, v)) /\ ContainerOf(t, Entries(t, v)) = v
         /\ t.type \in {"vector", "set", "map"}
<1>1. t.type \in {"vector", "set", "map"}
  BY DEF FieldType
<1>2. CASE t.type = "vector"
  BY <1>2, VectorEntries DEF ContainerOf
<1>3. CASE t.type = "set"
  BY <1>3, SetEntries DEF ContainerOf
<1>4. CASE t.type = "map"
  BY <1>4, MapEntries DEF ContainerOf
<1> QED
  BY <1>1, <1>2, <1>3, <1>4

LEMMA FieldItem ==
  ASSUME NEW t, FieldType(t), t.type \in {"int", "string"}, NEW v, Field(t, v)
  PROVE  ItemType(t) /\ Item(t, v)
BY DEF FieldType, ItemType, Field

LEMMA ListParts ==
  ASSUME NEW t, NEW e, ListOf(t, e)
  PROVE  /\ \E P: Parts(Len(e), CountBytes(e), AllEntryBytes(t, e), P) /\ ListBytes(t, e) = P[Len(e)]
         /\ ListBytes(t, e) \in Seq(Bytes) /\ Len(ListBytes(t, e)) \in Nat \ {0}
<1>1. ArePieces(Len(e), CountBytes(e), AllEntryBytes(t, e)) /\ Len(CountBytes(e)) = Width
  BY ListPieces
<1>2. PICK P: P = CHOOSE Q: Parts(Len(e), CountBytes(e), AllEntryBytes(t, e), Q)
  OBVIOUS
<1>3. Parts(Len(e), CountBytes(e), AllEntryBytes(t, e), P)
  BY <1>1, <1>2, PartsExist
<1>4. PICK b: b = P[Len(e)]
  OBVIOUS
<1>5. b \in Seq(Bytes)
  <2>1. Len(e) \in Nat
    BY <1>1 DEF ArePieces
  <2>2. Len(e) \in 0..Len(e)
    BY <2>1
  <2> QED
    BY <1>3, <1>4, <2>2 DEF Parts
<1>6. HasAt(b, 0, CountBytes(e))
  <2>1. HasAt(b, 0, P[Len(e)])
    BY <1>4, <1>5, HasSelf
  <2>2. PartsLie(Len(e), CountBytes(e), AllEntryBytes(t, e), P, b, 0)
    BY <1>1, <1>3, <1>5, <2>1, PartsAt
  <2> QED
    BY <2>2 DEF PartsLie
<1>7. Len(b) \in Nat /\ Width <= Len(b)
  BY <1>1, <1>5, <1>6, LenProperties DEF HasAt
<1>8. ListBytes(t, e) = b
  BY <1>2, <1>4 DEF ListBytes
<1>9. Len(b) \in Nat \ {0}
  BY <1>7
<1> QED
  BY <1>3, <1>4, <1>5, <1>8, <1>9

LEMMA FieldBytesType ==
  ASSUME NEW t, FieldType(t), NEW v, Field(t, v)
  PROVE  FieldBytes(t, v) \in Seq(Bytes) /\ Len(FieldBytes(t, v)) \in Nat \ {0}
<1>1. CASE t.type \in {"int", "string"}
  BY <1>1, FieldItem, ItemBytesType DEF FieldBytes
<1>2. CASE t.type \notin {"int", "string"}
  <2>1. ListOf(t, Entries(t, v))
    BY <1>2, Containers
  <2>2. PICK e: e = Entries(t, v)
    OBVIOUS
  <2>3. ListBytes(t, e) \in Seq(Bytes) /\ Len(ListBytes(t, e)) \in Nat \ {0}
    BY <2>1, <2>2, ListParts
  <2> QED
    BY <1>2, <2>2, <2>3 DEF FieldBytes
<1> QED
  BY <1>1, <1>2

LEMMA WritesField ==
  ASSUME NEW t, FieldType(t), NEW v, Field(t, v), NEW w, NEW s, Writes(w, s)
  PROVE  Writes(Serialize(w, t, v), s \o FieldBytes(t, v))
<1>1. CASE t.type \in {"int", "string"}
  <2>1. Writes(SerializeItem(w, t, v), s \o ItemBytes(t, v))
    BY <1>1, FieldItem, WritesItem
  <2> QED
    BY <1>1, <2>1 DEF Serialize, FieldBytes
<1>2. CASE t.type \notin {"int", "string"}
  <2>1. PICK e: e = Entries(t, v)
    OBVIOUS
  <2>2. ListOf(t, e)
    BY <1>2, <2>1, Containers
  <2>3. PICK P: Parts(Len(e), CountBytes(e), AllEntryBytes(t, e), P) /\ ListBytes(t, e) = P[Len(e)]
    BY <2>2, ListParts
  <2>4. Writes(SerializeAll(w, t, e), s \o P[Len(e)])
    BY <2>2, <2>3, WritesAll
  <2>5. FieldBytes(t, v) = P[Len(e)]
    BY <1>2, <2>1, <2>3 DEF FieldBytes
  <2>6. Serialize(w, t, v) = SerializeAll(w, t, e)
    BY <1>2, <2>1 DEF Serialize
  <2> QED
    BY <2>4, <2>5, <2>6
<1> QED
  BY <1>1, <1>2

LEMMA ReadsField ==
  ASSUME NEW t, FieldType(t), NEW v, Field(t, v), NEW r, NEW x \in Seq(Bytes), NEW k,
         At(r, x, k), HasAt(x, k, FieldBytes(t, v))
  PROVE  Got(Unserialize(r, t), x, k + Len(FieldBytes(t, v)), v)
<1>1. CASE t.type \in {"int", "string"}
  <2>1. FieldBytes(t, v) = ItemBytes(t, v) /\ Unserialize(r, t) = UnserializeItem(r, t)
    BY <1>1 DEF FieldBytes, Unserialize
  <2>2. HasAt(x, k, ItemBytes(t, v)) /\ ItemType(t) /\ Item(t, v)
    BY <1>1, <2>1, FieldItem
  <2>3. Got(UnserializeItem(r, t), x, k + Len(ItemBytes(t, v)), v)
    BY <2>2, ReadsItem
  <2> QED
    BY <2>1, <2>3
<1>2. CASE t.type \notin {"int", "string"}
  <2>1. PICK e: e = Entries(t, v)
    OBVIOUS
  <2>2. ListOf(t, e) /\ ContainerOf(t, e) = v /\ t.type \in {"vector", "set", "map"}
    BY <1>2, <2>1, Containers
  <2>3. PICK P: Parts(Len(e), CountBytes(e), AllEntryBytes(t, e), P) /\ ListBytes(t, e) = P[Len(e)]
    BY <2>2, ListParts
  <2>4. FieldBytes(t, v) = P[Len(e)]
    BY <1>2, <2>1, <2>3 DEF FieldBytes
  <2>5. PICK j: j = k + Len(P[Len(e)])
    OBVIOUS
  <2>6. PICK u: u = UnserializeAll(r, t)
    OBVIOUS
  <2>7. Got(u, x, j, e)
    <3>1. HasAt(x, k, P[Len(e)])
      BY <2>4
    <3> QED
      BY <2>2, <2>3, <2>5, <2>6, <3>1, ReadsAll
  <2>8. PICK z: z = Unserialize(r, t)
    OBVIOUS
  <2>9. z = [u EXCEPT !.value = v]
    <3>1. u.value = e
      BY <2>7 DEF Got
    <3>2. z = [u EXCEPT !.value = ContainerOf(t, e)]
      BY <1>2, <2>6, <2>8, <3>1 DEF Unserialize, ContainerOf
    <3> QED
      BY <2>2, <3>2
  <2>10. Got(z, x, j, v)
    BY <2>7, <2>9, ReadsOn DEF Got
  <2> QED
    BY <2>4, <2>5, <2>8, <2>10
<1> QED
  BY <1>1, <1>2


-------------------------------------------------------------------------------
(* The fields of a message: the loop that packs and the one that unpacks. *)

LEMMA PackRuns ==
  ASSUME NEW w, NEW types, NEW values, Len(types) \in Nat
  PROVE  \E f: /\ f[0] = w
               /\ \A i \in 1..Len(types): f[i] = Serialize(f[i - 1], types[i], values[i])
               /\ Pack(w, types, values) = f[Len(types)]
<1> DEFINE n == Len(types)
           base == w
           Is(f, m) == f = [i \in 0..m |-> IF i = 0 THEN base ELSE Serialize(f[i - 1], types[i], values[i])]
           T == {m \in Nat: \E f: Is(f, m)}
<1>1. Pack(w, types, values) = (CHOOSE f: Is(f, n))[n]
  BY DEF Pack
<1> HIDE DEF base
<1>2. 0 \in T
  <2> DEFINE f == [i \in 0..0 |-> base]
  <2>1. f = [i \in 0..0 |-> IF i = 0 THEN base ELSE Serialize(f[i - 1], types[i], values[i])]
    OBVIOUS
  <2> QED
    BY <2>1
<1>3. ASSUME NEW m \in Nat, m \in T PROVE m + 1 \in T
  <2>1. PICK f: Is(f, m)
    BY <1>3
  <2> DEFINE g == [i \in 0..m + 1 |-> IF i <= m THEN f[i] ELSE Serialize(f[m], types[m + 1], values[m + 1])]
  <2>2. ASSUME NEW i \in 0..m + 1
        PROVE  g[i] = IF i = 0 THEN base ELSE Serialize(g[i - 1], types[i], values[i])
    <3>1. CASE i = 0
      BY <2>1, <3>1
    <3>2. CASE i # 0 /\ i <= m
      <4>1. i - 1 \in 0..m + 1 /\ i - 1 <= m /\ i \in 0..m
        BY <3>2
      <4> QED
        BY <2>1, <3>2, <4>1
    <3>3. CASE i = m + 1
      BY <3>3
    <3> QED
      BY <3>1, <3>2, <3>3
  <2>3. g = [i \in 0..m + 1 |-> g[i]]
    OBVIOUS
  <2> HIDE DEF g
  <2>4. Is(g, m + 1)
    BY <2>2, <2>3
  <2> QED
    BY <2>4
<1> HIDE DEF T
<1>4. n \in T
  BY <1>2, <1>3, SetInduction
<1>5. PICK f: f = CHOOSE g: Is(g, n)
  OBVIOUS
<1>6. Is(f, n)
  BY <1>4, <1>5 DEF T
<1>7. f[0] = base /\ \A i \in 1..n: f[i] = Serialize(f[i - 1], types[i], values[i])
  BY <1>6
<1> QED
  BY <1>1, <1>5, <1>7 DEF base

LEMMA UnpackRuns ==
  ASSUME NEW r, NEW types, NEW n \in Nat, n = Len(types),
         NEW base, base = [r EXCEPT !.value = <<>>]
  PROVE  \E f: /\ f[0] = base
               /\ \A i \in 1..n: f[i] = Appended(f[i - 1], Unserialize(f[i - 1], types[i]))
               /\ Unpack(r, types) = f[n]
<1> DEFINE Is(f, m) == f = [i \in 0..m |-> IF i = 0 THEN base
                              ELSE Appended(f[i - 1], Unserialize(f[i - 1], types[i]))]
           T == {m \in Nat: \E f: Is(f, m)}
<1>1. Unpack(r, types) = (CHOOSE f: Is(f, n))[n]
  BY DEF Unpack
<1>2. 0 \in T
  <2> DEFINE f == [i \in 0..0 |-> base]
  <2>1. f = [i \in 0..0 |-> IF i = 0 THEN base
               ELSE Appended(f[i - 1], Unserialize(f[i - 1], types[i]))]
    OBVIOUS
  <2> QED
    BY <2>1
<1>3. ASSUME NEW m \in Nat, m \in T PROVE m + 1 \in T
  <2>1. PICK f: Is(f, m)
    BY <1>3
  <2> DEFINE g == [i \in 0..m + 1 |-> IF i <= m THEN f[i]
                                      ELSE Appended(f[m], Unserialize(f[m], types[m + 1]))]
  <2>2. ASSUME NEW i \in 0..m + 1
        PROVE  g[i] = IF i = 0 THEN base
                      ELSE Appended(g[i - 1], Unserialize(g[i - 1], types[i]))
    <3>1. CASE i = 0
      BY <2>1, <3>1
    <3>2. CASE i # 0 /\ i <= m
      <4>1. i - 1 \in 0..m + 1 /\ i - 1 <= m /\ i \in 0..m
        BY <3>2
      <4> QED
        BY <2>1, <3>2, <4>1
    <3>3. CASE i = m + 1
      BY <3>3
    <3> QED
      BY <3>1, <3>2, <3>3
  <2>3. g = [i \in 0..m + 1 |-> g[i]]
    OBVIOUS
  <2> HIDE DEF g
  <2>4. Is(g, m + 1)
    BY <2>2, <2>3
  <2> QED
    BY <2>4
<1> HIDE DEF T
<1>4. n \in T
  BY <1>2, <1>3, SetInduction
<1>5. PICK f: f = CHOOSE g: Is(g, n)
  OBVIOUS
<1>6. Is(f, n)
  BY <1>4, <1>5 DEF T
<1>7. f[0] = base /\ \A i \in 1..n: f[i] = Appended(f[i - 1], Unserialize(f[i - 1], types[i]))
  <2>1. \A i \in 0..n: f[i] = IF i = 0 THEN base ELSE Appended(f[i - 1], Unserialize(f[i - 1], types[i]))
    BY <1>6, Zenon
  <2>2. 0 \in 0..n /\ \A i \in 1..n: i \in 0..n /\ i # 0
    OBVIOUS
  <2> QED
    BY <2>1, <2>2
<1> QED
  BY <1>1, <1>5, <1>7


Fields(types, values) ==
  /\ Len(types) \in Nat /\ Len(values) = Len(types)
  /\ values = [i \in 1..Len(values) |-> values[i]]
  /\ \A i \in 1..Len(types): FieldType(types[i]) /\ Field(types[i], values[i])

AllFieldBytes(types, values) == [i \in 1..Len(types) |-> FieldBytes(types[i], values[i])]
PackBytes(types, values) ==
  (CHOOSE P: Parts(Len(types), <<>>, AllFieldBytes(types, values), P))[Len(types)]

LEMMA PackParts ==
  ASSUME NEW types, NEW values, Fields(types, values)
  PROVE  /\ ArePieces(Len(types), <<>>, AllFieldBytes(types, values))
         /\ \E P: /\ Parts(Len(types), <<>>, AllFieldBytes(types, values), P)
                  /\ PackBytes(types, values) = P[Len(types)]
         /\ PackBytes(types, values) \in Seq(Bytes)
         /\ Len(PackBytes(types, values)) = 0 <=> Len(types) = 0
<1> DEFINE piece == AllFieldBytes(types, values)
<1>1. PICK n \in Nat: n = Len(types)
  BY DEF Fields
<1>2. ASSUME NEW i \in 1..n
      PROVE  FieldBytes(types[i], values[i]) \in Seq(Bytes)
             /\ Len(FieldBytes(types[i], values[i])) \in Nat \ {0}
  BY <1>1, FieldBytesType DEF Fields
<1>3. piece \in [1..n -> Seq(Bytes)] /\ \A i \in 1..n: Len(piece[i]) \in Nat \ {0}
  BY <1>1, <1>2 DEF AllFieldBytes
<1>4. <<>> \in Seq(Bytes) /\ Len(<<>>) = 0
  BY EmptySeq
<1> HIDE DEF piece
<1>5. ArePieces(n, <<>>, piece)
  BY <1>3, <1>4 DEF ArePieces
<1>6. PICK P: P = CHOOSE Q: Parts(n, <<>>, piece, Q)
  OBVIOUS
<1>7. Parts(n, <<>>, piece, P)
  BY <1>5, <1>6, PartsExist
<1>8. PICK b: b = P[n]
  OBVIOUS
<1>9. PackBytes(types, values) = b
  BY <1>1, <1>6, <1>8 DEF PackBytes, piece
<1>10. b \in Seq(Bytes) /\ Len(b) \in Nat
  <2>1. n \in 0..n
    OBVIOUS
  <2> QED
    BY <1>7, <1>8, <2>1, LenProperties DEF Parts
<1>11. PartsLie(n, <<>>, piece, P, b, 0)
  <2>1. HasAt(b, 0, P[n])
    BY <1>8, <1>10, HasSelf
  <2> QED
    BY <1>5, <1>7, <1>10, <2>1, PartsAt
<1>12. n = 0 => Len(b) = 0
  BY <1>4, <1>8, <1>11 DEF PartsLie
<1>13. ASSUME n # 0 PROVE Len(b) # 0
  <2>1. n \in 1..n
    BY <1>13
  <2>2. HasAt(b, 0 + Len(P[n - 1]), piece[n])
    BY <1>11, <2>1 DEF PartsLie
  <2>3. Len(piece[n]) \in Nat \ {0}
    BY <1>3, <2>1
  <2>4. PICK j: j = 0 + Len(P[n - 1])
    OBVIOUS
  <2>5. j \in Nat /\ j + Len(piece[n]) <= Len(b)
    BY <2>2, <2>4 DEF HasAt
  <2> QED
    BY <1>10, <2>3, <2>5
<1> QED
  BY <1>1, <1>5, <1>7, <1>8, <1>9, <1>10, <1>12, <1>13 DEF piece

LEMMA WritesFields ==
  ASSUME NEW types, NEW values, Fields(types, values), NEW w, NEW s, Writes(w, s)
  PROVE  Writes(Pack(w, types, values), s \o PackBytes(types, values))
<1>1. PICK n \in Nat: n = Len(types)
  BY DEF Fields
<1>2. PICK f: /\ f[0] = w
              /\ \A i \in 1..n: f[i] = Serialize(f[i - 1], types[i], values[i])
              /\ Pack(w, types, values) = f[n]
  <2>1. Len(types) \in Nat
    BY <1>1
  <2>2. \E f: /\ f[0] = w
              /\ \A i \in 1..Len(types): f[i] = Serialize(f[i - 1], types[i], values[i])
              /\ Pack(w, types, values) = f[Len(types)]
    BY <2>1, PackRuns
  <2> QED
    BY <1>1, <2>2
<1>3. s \in Seq(Bytes)
  BY DEF Writes, Holds
<1>4. PICK P: /\ Parts(Len(types), <<>>, AllFieldBytes(types, values), P)
              /\ PackBytes(types, values) = P[Len(types)]
  BY PackParts
<1>5. /\ P \in [0..n -> Seq(Bytes)] /\ P[0] = <<>>
      /\ \A i \in 1..n: P[i] = P[i - 1] \o FieldBytes(types[i], values[i])
  BY <1>1, <1>4 DEF Parts, AllFieldBytes
<1> DEFINE T == {m \in Nat: m <= n => Writes(f[m], s \o P[m])}
<1>6. 0 \in T
  <2>1. s \o <<>> = s
    BY <1>3, ConcatEmptySeq
  <2> QED
    BY <1>2, <1>5, <2>1
<1>7. ASSUME NEW m \in Nat, m \in T PROVE m + 1 \in T
  <2> SUFFICES ASSUME m + 1 <= n PROVE Writes(f[m + 1], s \o P[m + 1])
    OBVIOUS
  <2>1. m + 1 \in 1..n /\ (m + 1) - 1 = m /\ m \in 0..n /\ Writes(f[m], s \o P[m])
    BY <1>7
  <2>2. PICK a \in Seq(Bytes): a = P[m]
    BY <1>5, <2>1
  <2>3. FieldType(types[m + 1]) /\ Field(types[m + 1], values[m + 1])
    BY <1>1, <2>1 DEF Fields
  <2>4. PICK b \in Seq(Bytes): b = FieldBytes(types[m + 1], values[m + 1])
    BY <2>3, FieldBytesType
  <2>5. PICK u: u = s \o a
    OBVIOUS
  <2>6. Writes(f[m], u)
    BY <2>1, <2>2, <2>5
  <2>7. Writes(Serialize(f[m], types[m + 1], values[m + 1]), u \o b)
    BY <2>3, <2>4, <2>6, WritesField
  <2>8. u \o b = s \o (a \o b)
    BY <1>3, <2>5, ConcatAssociative
  <2>9. P[m + 1] = a \o b /\ f[m + 1] = Serialize(f[m], types[m + 1], values[m + 1])
    BY <1>2, <1>5, <2>1, <2>2, <2>4
  <2> QED
    BY <2>7, <2>8, <2>9
<1> HIDE DEF T
<1>8. n \in T
  BY <1>6, <1>7, SetInduction
<1> QED
  BY <1>1, <1>2, <1>4, <1>8 DEF T

LEMMA ReadsFields ==
  ASSUME NEW types, NEW values, Fields(types, values), NEW r, NEW x \in Seq(Bytes), NEW k,
         At(r, x, k), HasAt(x, k, PackBytes(types, values))
  PROVE  Got(Unpack(r, types), x, k + Len(PackBytes(types, values)), values)
<1>1. PICK n \in Nat: n = Len(types) /\ values = Prefix(values, n)
  BY DEF Fields, Prefix
<1> DEFINE piece == AllFieldBytes(types, values)
<1>2. PICK P: Parts(Len(types), <<>>, piece, P) /\ PackBytes(types, values) = P[Len(types)]
  BY PackParts
<1>3. /\ ArePieces(n, <<>>, piece) /\ Parts(n, <<>>, piece, P) /\ PackBytes(types, values) = P[n]
      /\ \A i \in 1..n: piece[i] = FieldBytes(types[i], values[i])
  BY <1>1, <1>2, PackParts DEF AllFieldBytes
<1> HIDE DEF piece
<1>4. /\ P[0] = <<>> /\ k \in Nat
      /\ \A i \in 1..n: /\ HasAt(x, k + Len(P[i - 1]), piece[i])
                        /\ (k + Len(P[i - 1])) + Len(piece[i]) = k + Len(P[i])
  <2>1. HasAt(x, k, P[n])
    BY <1>3
  <2>2. PartsLie(n, <<>>, piece, P, x, k)
    BY <1>3, <2>1, PartsAt
  <2> QED
    BY <1>3, <2>1, <2>2 DEF PartsLie, Parts, HasAt
<1>5. PICK f: /\ f[0] = [r EXCEPT !.value = <<>>]
              /\ \A i \in 1..n: f[i] = Appended(f[i - 1], Unserialize(f[i - 1], types[i]))
              /\ Unpack(r, types) = f[n]
  <2>1. n = Len(types)
    BY <1>1
  <2>2. PICK z: z = [r EXCEPT !.value = <<>>]
    OBVIOUS
  <2>3. \E f: /\ f[0] = z
              /\ \A i \in 1..n: f[i] = Appended(f[i - 1], Unserialize(f[i - 1], types[i]))
              /\ Unpack(r, types) = f[n]
    BY <2>1, <2>2, UnpackRuns
  <2> QED
    BY <2>2, <2>3
<1> DEFINE T == {m \in Nat: m <= n => Got(f[m], x, k + Len(P[m]), Prefix(values, m))}
<1>6. 0 \in T
  <2>1. PICK z: z = f[0]
    OBVIOUS
  <2>2. Got(z, x, k, <<>>)
    BY <1>5, <2>1, ReadsOn
  <2>3. Prefix(values, 0) = <<>>
    BY DEF Prefix
  <2>4. k + Len(P[0]) = k
    BY <1>4, EmptySeq
  <2> QED
    BY <2>1, <2>2, <2>3, <2>4
<1>7. ASSUME NEW m \in Nat, m \in T PROVE m + 1 \in T
  <2> SUFFICES ASSUME m + 1 <= n PROVE Got(f[m + 1], x, k + Len(P[m + 1]), Prefix(values, m + 1))
    OBVIOUS
  <2>1. PICK i \in 1..n: i = m + 1 /\ i - 1 = m /\ i \in Nat \ {0}
    OBVIOUS
  <2>2. Got(f[i - 1], x, k + Len(P[i - 1]), Prefix(values, i - 1))
    BY <1>7, <2>1
  <2>3. PICK u: u = f[i - 1]
    OBVIOUS
  <2>4. PICK j: j = k + Len(P[i - 1])
    OBVIOUS
  <2>5. FieldType(types[i]) /\ Field(types[i], values[i])
    BY <1>1 DEF Fields
  <2>6. PICK b: b = FieldBytes(types[i], values[i])
    OBVIOUS
  <2>7. HasAt(x, j, b) /\ j + Len(b) = k + Len(P[i])
    BY <1>3, <1>4, <2>4, <2>6
  <2>8. At(u, x, j) /\ Got(u, x, j, Prefix(values, i - 1))
    BY <2>2, <2>3, <2>4 DEF Got
  <2>9. PICK v: v = Unserialize(u, types[i])
    OBVIOUS
  <2>10. Got(v, x, j + Len(b), values[i])
    BY <2>5, <2>6, <2>7, <2>8, <2>9, ReadsField
  <2>11. Got(Appended(u, v), x, j + Len(b), Prefix(values, i))
    BY <2>1, <2>8, <2>10, ReadsPrefix
  <2>12. f[i] = Appended(u, v)
    BY <1>5, <2>3, <2>9
  <2> QED
    BY <2>1, <2>7, <2>11, <2>12
<1> HIDE DEF T
<1>8. n \in T
  BY <1>6, <1>7, SetInduction
<1>9. Got(f[n], x, k + Len(P[n]), Prefix(values, n))
  BY <1>8 DEF T
<1> QED
  BY <1>1, <1>3, <1>5, <1>9


-------------------------------------------------------------------------------
(* A message, and the bytes behind a header. *)

LEMMA Starts ==
  ASSUME NEW b
  PROVE  /\ Holds(b, <<>>) => Writes(Writer(b), <<>>)
         /\ \A x: Holds(b, x) => At(Reader(b), x, 0)
<1>1. ASSUME Holds(b, <<>>) PROVE Writes(Writer(b), <<>>)
  <2>1. Writer(b) = [buf |-> b, pos |-> 0] /\ Len(<<>>) = 0
    BY EmptySeq DEF Writer
  <2> QED
    BY <1>1, <2>1 DEF Writes
<1>2. ASSUME NEW x, Holds(b, x) PROVE At(Reader(b), x, 0)
  <2>1. PICK r: r = Reader(b)
    OBVIOUS
  <2>2. r = [buf |-> b, pos |-> 0, value |-> 0, failed |-> FALSE]
    BY <2>1 DEF Reader
  <2>3. r.buf = b /\ r.pos = 0 /\ r.value = 0 /\ r.failed = FALSE
    BY <2>2
  <2>4. IsReader(r)
    BY <2>2, <2>3 DEF IsReader
  <2>5. At(r, x, 0)
    BY <1>2, <2>3, <2>4 DEF At
  <2> QED
    BY <2>1, <2>5
<1> QED
  BY <1>1, <1>2

MessagePack(m) == PackBytes(Schema[m.id], m.values)
MessageBytes(m) == IF m = NoMessage THEN <<>> ELSE Encode(m.id, Width) \o MessagePack(m)

LEMMA MessageFields ==
  ASSUME NEW m, Message(m)
  PROVE  /\ Fields(Schema[m.id], m.values) /\ Fits(m.id, Width) /\ m.id \in DOMAIN Schema
         /\ MessagePack(m) \in Seq(Bytes) /\ (Len(MessagePack(m)) = 0 <=> m.values = <<>>)
<1>1. Fields(Schema[m.id], m.values)
  <2>1. /\ m.id \in DOMAIN Schema /\ Len(m.values) = Len(Schema[m.id])
        /\ m.values = [i \in 1..Len(m.values) |-> m.values[i]]
        /\ \A i \in 1..Len(m.values): Field(Schema[m.id][i], m.values[i])
    BY DEF Message
  <2>2. Len(Schema[m.id]) \in Nat /\ \A i \in 1..Len(Schema[m.id]): FieldType(Schema[m.id][i])
    BY <2>1, SchemaAssumption
  <2> QED
    BY <2>1, <2>2 DEF Fields
<1>2. PICK t: t = Schema[m.id]
  OBVIOUS
<1>3. PICK v: v = m.values
  OBVIOUS
<1>4. PackBytes(t, v) \in Seq(Bytes) /\ (Len(PackBytes(t, v)) = 0 <=> Len(t) = 0)
  BY <1>1, <1>2, <1>3, PackParts
<1>5. Len(t) = 0 <=> v = <<>>
  <2>1. Len(t) \in Nat /\ Len(v) = Len(t) /\ v = [i \in 1..Len(v) |-> v[i]]
    BY <1>1, <1>2, <1>3 DEF Fields
  <2>2. ASSUME Len(t) = 0 PROVE v = <<>>
    <3>1. v = [i \in 1..0 |-> v[i]]
      BY <2>1, <2>2
    <3> QED
      BY <3>1
  <2>3. ASSUME v = <<>> PROVE Len(t) = 0
    BY <2>1, <2>3, EmptySeq
  <2> QED
    BY <2>2, <2>3
<1> QED
  BY <1>1, <1>2, <1>3, <1>4, <1>5 DEF Message, MessagePack

LEMMA MessageSerialized ==
  ASSUME NEW m, Message(m)
  PROVE  SerializeMessage(m) = MessagePack(m)
<1>1. Fields(Schema[m.id], m.values) /\ MessagePack(m) \in Seq(Bytes)
  BY MessageFields
<1>2. PICK w: w = Writer(NewBuffer(InitSize))
  OBVIOUS
<1>3. Writes(w, <<>>)
  BY <1>2, NewHolds, Starts
<1>4. PICK u: u = Pack(w, Schema[m.id], m.values)
  OBVIOUS
<1>5. Writes(u, <<>> \o MessagePack(m))
  BY <1>1, <1>3, <1>4, WritesFields DEF MessagePack
<1>6. <<>> \o MessagePack(m) = MessagePack(m)
  BY <1>1, ConcatEmptySeq
<1>7. Holds(u.buf, MessagePack(m))
  BY <1>5, <1>6 DEF Writes
<1>8. Contents(u.buf) = MessagePack(m)
  BY <1>7, ContentsAre
<1> QED
  BY <1>2, <1>4, <1>8 DEF SerializeMessage

LEMMA InnerDataIs ==
  ASSUME NEW m, m = NoMessage \/ Message(m)
  PROVE  InnerData(m) = MessageBytes(m) /\ MessageBytes(m) \in Seq(Bytes)
<1>1. CASE m = NoMessage
  BY <1>1, EmptySeq DEF InnerData, MessageBytes
<1>2. CASE m # NoMessage
  <2>1. Message(m)
    BY <1>2
  <2>2. PICK b \in Seq(Bytes): b = MessagePack(m)
    BY <2>1, MessageFields
  <2>3. PICK n \in Nat: n = m.id
    BY <2>1, MessageFields DEF Fits
  <2>4. PICK e \in Seq(Bytes): e = Encode(n, Width)
    BY EncodeType
  <2>5. PICK w: w = Writer(NewStackBuffer)
    OBVIOUS
  <2>6. Writes(w, <<>>)
    BY <2>5, NewHolds, Starts
  <2>7. PICK u: u = WriteInt(w, n, Width)
    OBVIOUS
  <2>8. Writes(u, <<>> \o e)
    BY <2>4, <2>6, <2>7, WritesMore
  <2>9. <<>> \o e = e /\ e \o b \in Seq(Bytes)
    BY ConcatEmptySeq, Concatenated
  <2>10. PICK v: v = WriteBytes(u, b)
    OBVIOUS
  <2>11. Writes(v, e \o b)
    BY <2>3, <2>8, <2>9, <2>10, WritesMore
  <2>12. Holds(v.buf, e \o b)
    BY <2>11 DEF Writes
  <2>13. Contents(v.buf) = e \o b
    BY <2>12, ContentsAre
  <2>14. InnerData(m) = Contents(v.buf)
    BY <1>2, <2>1, <2>2, <2>3, <2>5, <2>7, <2>10, MessageSerialized DEF InnerData
  <2>15. MessageBytes(m) = e \o b
    BY <1>2, <2>2, <2>3, <2>4 DEF MessageBytes
  <2> QED
    BY <2>9, <2>13, <2>14, <2>15
<1> QED
  BY <1>1, <1>2


-------------------------------------------------------------------------------
(* A frame: the header and what lies behind it. *)

LEMMA InnerReadGives ==
  ASSUME NEW x \in Seq(Bytes), NEW k, NEW b, HasAt(x, k, b), NEW n, n = Len(b)
  PROVE  InnerRead(x, k, n) = b /\ b # NullPtr
<1>1. k \in Nat /\ n \in Nat /\ Len(x) \in Nat /\ k + n <= Len(x) /\ b \in Seq(Bytes)
      /\ \A i \in 1..n: x[k + i] = b[i]
  BY LenProperties DEF HasAt
<1>2. InnerRead(x, k, n) = SubSeq(x, k + 1, k + n)
  <2>1. ~(k + n > Len(x))
    BY <1>1
  <2> QED
    BY <2>1 DEF InnerRead
<1> DEFINE s == SubSeq(x, k + 1, k + n)
<1>3. \A i \in k + 1..k + n: x[i] \in Bytes
  <2> SUFFICES ASSUME NEW i \in k + 1..k + n PROVE x[i] \in Bytes
    OBVIOUS
  <2>1. i \in 1..Len(x)
    BY <1>1
  <2> QED
    BY <2>1, ElementOfSeq
<1>4. /\ s \in Seq(Bytes) /\ Len(s) = IF k + 1 <= k + n THEN (k + n) - (k + 1) + 1 ELSE 0
      /\ \A i \in 1..(k + n) - (k + 1) + 1: s[i] = x[(k + 1) + i - 1]
  <2>1. k + 1 \in Int /\ k + n \in Int
    BY <1>1
  <2> QED
    BY <1>3, <2>1, SubSeqProperties
<1> HIDE DEF s
<1>5. (k + n) - (k + 1) + 1 = n /\ (k + 1 <= k + n <=> n # 0)
  BY <1>1
<1>6. Len(s) = n
  BY <1>1, <1>4, <1>5
<1>7. \A i \in 1..n: s[i] = b[i]
  <2> SUFFICES ASSUME NEW i \in 1..n PROVE s[i] = b[i]
    OBVIOUS
  <2>1. (k + 1) + i - 1 = k + i
    BY <1>1
  <2> QED
    BY <1>1, <1>4, <1>5, <2>1
<1>8. s = b
  BY <1>1, <1>4, <1>6, <1>7, SeqEqual
<1> QED
  BY <1>1, <1>2, <1>8, NullAssumption DEF s

(* The numbers that a header can carry, and their frame. *)
HeaderNumbers(type, total, fields) ==
  /\ type \in Bytes /\ Fits(total, Width) /\ Len(fields) \in {1, 2}
  /\ \A i \in 1..Len(fields): Fits(fields[i], Width)

SecondField(fields) == IF Len(fields) = 1 THEN <<>> ELSE Encode(fields[2], Width)

(* In x, the parts of a frame lie where onUnserialize looks for them. *)
IsFrame(x, type, total, fields, data) ==
  /\ x \in Seq(Bytes) /\ Len(x) = HeaderSize(1 + Len(fields)) + Len(data)
  /\ x # <<>> /\ Head(x) = type
  /\ HasAt(x, HeaderSize(0), Encode(total, Width))
  /\ HasAt(x, HeaderSize(1), Encode(fields[1], Width))
  /\ HasAt(x, HeaderSize(2), SecondField(fields))
  /\ HasAt(x, HeaderSize(1 + Len(fields)), data)

LEMMA HeaderLies ==
  ASSUME NEW type, NEW total, NEW fields, HeaderNumbers(type, total, fields),
         NEW data \in Seq(Bytes)
  PROVE  /\ Header(type, total, fields) \o data \in Seq(Bytes)
         /\ IsFrame(Header(type, total, fields) \o data, type, total, fields, data)
<1>1. PICK a: a = <<type>>
  OBVIOUS
<1>2. a \in Seq(Bytes) /\ Len(a) = 1 /\ a[1] = type
  BY <1>1 DEF HeaderNumbers
<1>3. total \in Nat /\ fields[1] \in Nat /\ (Len(fields) = 2 => fields[2] \in Nat)
  <2>1. PICK n \in {1, 2}: n = Len(fields)
    BY DEF HeaderNumbers
  <2>2. 1 \in 1..n /\ (n = 2 => 2 \in 1..n)
    OBVIOUS
  <2>3. total \in Nat /\ \A i \in 1..n: fields[i] \in Nat
    BY <2>1 DEF HeaderNumbers, Fits
  <2> QED
    BY <2>1, <2>2, <2>3
<1>4. PICK b \in Seq(Bytes): b = Encode(total, Width) /\ Len(b) = Width
  BY <1>3, EncodeType
<1>5. PICK c \in Seq(Bytes): c = Encode(fields[1], Width) /\ Len(c) = Width
  BY <1>3, EncodeType
<1>6. PICK d \in Seq(Bytes): /\ d = SecondField(fields)
                             /\ Len(d) = IF Len(fields) = 1 THEN 0 ELSE Width
  <2>1. CASE Len(fields) = 1
    BY <2>1, EmptySeq DEF SecondField
  <2>2. CASE Len(fields) = 2
    <3>1. Encode(fields[2], Width) \in Seq(Bytes) /\ Len(Encode(fields[2], Width)) = Width
      BY <1>3, <2>2, EncodeType
    <3> QED
      BY <2>2, <3>1 DEF SecondField
  <2> QED
    BY <2>1, <2>2 DEF HeaderNumbers
<1>7. PICK x: x = Header(type, total, fields) \o data
  OBVIOUS
<1>8. x = (a \o (b \o (c \o d))) \o data
  BY <1>1, <1>4, <1>5, <1>6, <1>7 DEF Header, SecondField
<1>9. PICK cd \in Seq(Bytes): cd = c \o d
  BY Concatenated
<1>10. PICK bcd \in Seq(Bytes): bcd = b \o cd
  BY Concatenated
<1>11. PICK h \in Seq(Bytes): h = a \o bcd /\ Len(h) = Len(a) + Len(bcd)
  <2>1. a \o bcd \in Seq(Bytes) /\ Len(a \o bcd) = Len(a) + Len(bcd)
    BY <1>2, Concatenated
  <2> QED
    BY <2>1
<1>12. x \in Seq(Bytes) /\ x = h \o data
  BY <1>8, <1>9, <1>10, <1>11, Concatenated
<1>0. x \in Seq(Bytes)
  BY <1>12
<1>13. HasAt(x, 0, h) /\ HasAt(x, 0 + Len(h), data) /\ Len(x) = Len(h) + Len(data)
  <2>1. HasAt(x, 0, x) /\ Behind(x, h, data)
    BY <1>12, HasSelf DEF Behind
  <2> QED
    BY <1>0, <2>1, HasTwo
<1>14. HasAt(x, 0, a) /\ HasAt(x, 0 + 1, bcd)
  <2>1. HasAt(x, 0, a \o bcd)
    BY <1>11, <1>13
  <2>2. HasAt(x, 0, a) /\ HasAt(x, 0 + Len(a), bcd)
    BY <1>2, <1>12, <2>1, HasBoth
  <2> QED
    BY <1>2, <2>2
<1> DEFINE k == 0 + 1
           l == k + Width
           m == l + Width
<1> HIDE DEF k, l, m
<1>15. HasAt(x, k, b) /\ HasAt(x, l, cd) /\ Len(bcd) = Width + Len(cd)
  <2>1. HasAt(x, k, bcd) /\ Behind(bcd, b, cd)
    BY <1>10, <1>14 DEF k, Behind
  <2>2. HasAt(x, k, b) /\ HasAt(x, k + Len(b), cd) /\ Len(bcd) = Len(b) + Len(cd)
    BY <1>0, <2>1, HasTwo
  <2> QED
    BY <1>4, <2>2 DEF l
<1>16. HasAt(x, l, c) /\ HasAt(x, m, d) /\ Len(cd) = Width + Len(d)
  <2>1. Behind(cd, c, d)
    BY <1>9 DEF Behind
  <2>2. HasAt(x, l, c) /\ HasAt(x, l + Len(c), d) /\ Len(cd) = Len(c) + Len(d)
    BY <1>0, <1>15, <2>1, HasTwo
  <2> QED
    BY <1>5, <2>2 DEF m
<1>17. /\ HeaderSize(0) = k /\ HeaderSize(1) = l /\ HeaderSize(2) = m
       /\ HeaderSize(1 + Len(fields)) = 0 + Len(h)
       /\ HeaderSize(1 + Len(fields)) = Len(h)
  <2>1. Len(h) = 1 + (Width + (Width + Len(d)))
    BY <1>2, <1>11, <1>15, <1>16
  <2>2. CASE Len(fields) = 1
    <3>1. Len(h) = 1 + (Width + (Width + 0))
      BY <1>6, <2>1, <2>2
    <3> QED
      BY <2>2, <3>1 DEF HeaderSize, k, l, m
  <2>3. CASE Len(fields) = 2
    <3>1. Len(h) = 1 + (Width + (Width + Width))
      BY <1>6, <2>1, <2>3
    <3> QED
      BY <2>3, <3>1 DEF HeaderSize, k, l, m
  <2> QED
    BY <2>2, <2>3 DEF HeaderNumbers
<1>18. x # <<>> /\ Head(x) = type
  <2>1. Len(x) \in Nat /\ 1 <= Len(x) /\ x[1] = a[1]
    BY <1>2, <1>12, <1>14, LenProperties DEF HasAt
  <2>2. x # <<>>
    BY <1>2, <2>1, EmptySeq
  <2>3. Head(x) = x[1]
    BY <1>12, <2>2
  <2> QED
    BY <1>2, <2>1, <2>2, <2>3
<1> HIDE DEF HeaderSize
<1>19. IsFrame(x, type, total, fields, data)
  BY <1>4, <1>5, <1>6, <1>12, <1>13, <1>15, <1>16, <1>17, <1>18 DEF IsFrame
<1> QED
  BY <1>7, <1>12, <1>19


LEMMA FrameIs ==
  ASSUME NEW type, NEW fields, NEW data \in Seq(Bytes),
         NEW total, total = HeaderSize(1 + Len(fields)) + Len(data),
         HeaderNumbers(type, total, fields)
  PROVE  IsFrame(Frame(type, fields, data), type, total, fields, data)
<1>1. PICK x: x = Header(type, total, fields) \o data
  OBVIOUS
<1>2. x \in Seq(Bytes) /\ IsFrame(x, type, total, fields, data)
  BY <1>1, HeaderLies
<1>3. Holds(NewStackBuffer, <<>>) /\ Len(<<>>) = 0
  BY NewHolds, EmptySeq
<1>4. PICK b: b = Write(NewStackBuffer, 0, x)
  OBVIOUS
<1>5. Holds(b, <<>> \o x)
  BY <1>2, <1>3, <1>4, ReserveHolds
<1>6. <<>> \o x = x
  BY <1>2, ConcatEmptySeq
<1>7. Contents(b) = x
  BY <1>5, <1>6, ContentsAre
<1>8. Frame(type, fields, data) = Contents(b)
  BY <1>1, <1>4 DEF Frame
<1> QED
  BY <1>2, <1>7, <1>8

LEMMA BlockOfFrame ==
  ASSUME NEW x, NEW type, NEW total, NEW fields, NEW data,
         HeaderNumbers(type, total, fields), IsFrame(x, type, total, fields, data),
         total = HeaderSize(1 + Len(fields)) + Len(data)
  PROVE  /\ Len(x) >= BlockSize /\ BlockLength(x) = Len(x) /\ Len(x) = total
         /\ Decode(InnerRead(x, HeaderSize(1), Width)) = fields[1]
         /\ Len(fields) = 2 => Decode(InnerRead(x, HeaderSize(2), Width)) = fields[2]
<1>1. /\ x \in Seq(Bytes) /\ Len(x) = total
      /\ HasAt(x, HeaderSize(0), Encode(total, Width))
      /\ HasAt(x, HeaderSize(1), Encode(fields[1], Width))
      /\ HasAt(x, HeaderSize(2), SecondField(fields))
  BY DEF IsFrame
<1>2. ASSUME NEW k, NEW n, Fits(n, Width), HasAt(x, k, Encode(n, Width))
      PROVE  Decode(InnerRead(x, k, Width)) = n /\ k + Width <= Len(x)
  <2>1. PICK e: e = Encode(n, Width)
    OBVIOUS
  <2>2. n \in Nat
    BY <1>2 DEF Fits
  <2>3. Len(e) = Width /\ HasAt(x, k, e) /\ Decode(e) = n
    BY <1>2, <2>1, <2>2, EncodeType, DecodeEncode
  <2>4. InnerRead(x, k, Width) = e
    BY <1>1, <2>3, InnerReadGives
  <2> QED
    BY <2>3, <2>4 DEF HasAt
<1>3. Fits(total, Width) /\ Fits(fields[1], Width) /\ (Len(fields) = 2 => Fits(fields[2], Width))
  <2>1. PICK n \in {1, 2}: n = Len(fields)
    BY DEF HeaderNumbers
  <2>2. 1 \in 1..n /\ (n = 2 => 2 \in 1..n)
    OBVIOUS
  <2>3. Fits(total, Width) /\ \A i \in 1..n: Fits(fields[i], Width)
    BY <2>1 DEF HeaderNumbers
  <2> QED
    BY <2>1, <2>2, <2>3
<1>4. Decode(InnerRead(x, HeaderSize(0), Width)) = total /\ HeaderSize(0) + Width <= Len(x)
  BY <1>1, <1>2, <1>3
<1>5. HeaderSize(0) = 1 /\ BlockSize = 1 + Width /\ HeaderSize(0) + 1 = 2
  BY DEF HeaderSize, BlockSize
<1>6. InnerRead(x, HeaderSize(0), Width) = SubSeq(x, 2, BlockSize)
  <2>1. Len(x) \in Nat
    BY <1>1, LenProperties
  <2>2. ~(HeaderSize(0) + Width > Len(x))
    BY <1>4, <1>5, <2>1
  <2> QED
    BY <1>5, <2>2 DEF InnerRead
<1>7. BlockLength(x) = total /\ Len(x) >= BlockSize
  <2>1. Len(x) \in Nat
    BY <1>1, LenProperties
  <2> QED
    BY <1>4, <1>5, <1>6, <2>1 DEF BlockLength
<1>8. Decode(InnerRead(x, HeaderSize(1), Width)) = fields[1]
  BY <1>1, <1>2, <1>3
<1>9. ASSUME Len(fields) = 2 PROVE Decode(InnerRead(x, HeaderSize(2), Width)) = fields[2]
  <2>1. SecondField(fields) = Encode(fields[2], Width)
    BY <1>9 DEF SecondField
  <2> QED
    BY <1>1, <1>2, <1>3, <1>9, <2>1
<1> QED
  BY <1>1, <1>7, <1>8, <1>9

(* What the receiver has of a message before it is converted. *)
Received(m) ==
  IF m = NoMessage \/ m.values = <<>> THEN NoMessage
  ELSE [id |-> m.id, bytes |-> MessagePack(m)]

LEMMA MessageRead ==
  ASSUME NEW m, m = NoMessage \/ Message(m),
         NEW x \in Seq(Bytes), NEW n, HasAt(x, HeaderSize(n), MessageBytes(m)),
         Len(x) = HeaderSize(n) + Len(MessageBytes(m))
  PROVE  MessageBehind(x, n) = Received(m) /\ Received(m) # NullPtr
<1>1. PICK h: h = HeaderSize(n)
  OBVIOUS
<1>2. h \in Nat
  BY <1>1 DEF HasAt
<1>3. CASE m = NoMessage
  <2>1. MessageBytes(m) = <<>> /\ Len(<<>>) = 0
    BY <1>3, EmptySeq DEF MessageBytes
  <2>2. Len(x) = h
    BY <1>1, <1>2, <2>1
  <2> QED
    BY <1>1, <1>3, <2>2, NullAssumption DEF MessageBehind, Received
<1>4. CASE m # NoMessage
  <2>1. Message(m)
    BY <1>4
  <2>2. PICK b \in Seq(Bytes): b = MessagePack(m) /\ (Len(b) = 0 <=> m.values = <<>>)
    BY <2>1, MessageFields
  <2>3. PICK d \in Nat: d = m.id /\ Fits(d, Width)
    BY <2>1, MessageFields DEF Fits
  <2>4. PICK e: e = Encode(d, Width)
    OBVIOUS
  <2>5. e \in Seq(Bytes) /\ Len(e) = Width /\ Decode(e) = d
    BY <2>3, <2>4, EncodeType, DecodeEncode
  <2>6. PICK c: c = MessageBytes(m)
    OBVIOUS
  <2>7. Behind(c, e, b)
    BY <1>4, <2>2, <2>3, <2>4, <2>5, <2>6 DEF MessageBytes, Behind
  <2>8. HasAt(x, h, c) /\ Len(x) = h + Len(c)
    BY <1>1, <2>6
  <2>9. HasAt(x, h, e) /\ HasAt(x, h + Len(e), b) /\ Len(c) = Len(e) + Len(b)
    BY <2>7, <2>8, HasTwo
  <2>10. PICK at: at = h + Width
    OBVIOUS
  <2>11. /\ Len(b) \in Nat /\ at \in Nat /\ HasAt(x, at, b) /\ Len(x) = at + Len(b)
         /\ Len(x) # h /\ Len(x) - at = Len(b) /\ (Len(x) = at <=> Len(b) = 0)
    <3>1. Len(b) \in Nat
      BY <2>2, LenProperties
    <3>2. HasAt(x, at, b)
      BY <2>5, <2>9, <2>10
    <3>3. Len(x) = h + (Width + Len(b))
      BY <2>5, <2>8, <2>9
    <3>4. PICK l \in Nat: l = Len(b)
      BY <3>1
    <3>5. /\ h + (Width + l) = (h + Width) + l /\ h + Width \in Nat
          /\ h + (Width + l) # h /\ ((h + Width) + l) - (h + Width) = l
          /\ ((h + Width) + l = h + Width <=> l = 0)
      BY <1>2
    <3> QED
      BY <2>10, <3>2, <3>3, <3>4, <3>5
  <2>12. InnerRead(x, h, Width) = e /\ e # NullPtr
    BY <2>5, <2>9, InnerReadGives
  <2>13. InnerRead(x, at, Len(x) - at) = b
    BY <2>11, InnerReadGives
  <2>14. MessageBehind(x, n) = IF Len(x) = at THEN NoMessage ELSE [id |-> d, bytes |-> b]
    BY <1>1, <2>5, <2>10, <2>11, <2>12, <2>13 DEF MessageBehind
  <2>15. Received(m) = IF m.values = <<>> THEN NoMessage ELSE [id |-> d, bytes |-> b]
    BY <1>4, <2>2, <2>3 DEF Received
  <2>16. [id |-> d, bytes |-> b] # NullPtr /\ NoMessage # NullPtr
    BY NullAssumption
  <2> QED
    BY <2>2, <2>11, <2>14, <2>15, <2>16
<1> QED
  BY <1>3, <1>4


-------------------------------------------------------------------------------
(* A packet. *)

LEMMA MessageConverted ==
  ASSUME NEW m, m = NoMessage \/ Message(m)
  PROVE  OnMessageConvert(Received(m)) =
           IF m # NoMessage /\ m.values = <<>> THEN NoMessage ELSE m
<1>1. CASE m = NoMessage \/ m.values = <<>>
  BY <1>1 DEF Received, OnMessageConvert
<1>2. CASE m # NoMessage /\ m.values # <<>>
  <2>1. Message(m)
    BY <1>2
  <2>2. PICK b \in Seq(Bytes): b = MessagePack(m)
    BY <2>1, MessageFields
  <2>3. PICK id: id = m.id /\ id \in Nat /\ id \in DOMAIN Schema
    BY <2>1, MessageFields DEF Fits
  <2>4. PICK q: q = [id |-> id, bytes |-> b]
    OBVIOUS
  <2>5. q.id = id /\ q.bytes = b /\ q # NoMessage /\ Received(m) = q
    BY <1>2, <2>2, <2>3, <2>4, NullAssumption DEF Received
  <2>6. PICK c: c = Write(NewBuffer(Len(b)), 0, b)
    OBVIOUS
  <2>7. Holds(c, b)
    <3>1. Holds(NewBuffer(Len(b)), <<>>) /\ Len(<<>>) = 0
      BY NewHolds, EmptySeq
    <3>2. Holds(c, <<>> \o b)
      BY <2>6, <3>1, ReserveHolds
    <3> QED
      BY <3>2, ConcatEmptySeq
  <2>8. PICK r: r = Reader(c)
    OBVIOUS
  <2>9. At(r, b, 0) /\ HasAt(b, 0, b)
    BY <2>7, <2>8, Starts, HasSelf
  <2>10. PICK u: u = Unpack(r, Schema[id])
    OBVIOUS
  <2>11. Got(u, b, 0 + Len(b), m.values)
    <3>1. PICK t: t = Schema[id]
      OBVIOUS
    <3>2. PICK v: v = m.values
      OBVIOUS
    <3>3. Fields(t, v)
      BY <2>1, <2>3, <3>1, <3>2, MessageFields
    <3>4. b = PackBytes(t, v)
      BY <2>2, <2>3, <3>1, <3>2 DEF MessagePack
    <3>5. HasAt(b, 0, PackBytes(t, v))
      BY <2>9, <3>4
    <3>6. Got(Unpack(r, t), b, 0 + Len(PackBytes(t, v)), v)
      BY <2>9, <3>3, <3>5, ReadsFields
    <3> QED
      BY <2>10, <3>1, <3>2, <3>4, <3>6
  <2>12. ~u.failed /\ u.value = m.values
    BY <2>11 DEF Got, At
  <2>13. OnMessageConvert(q) = [id |-> id, values |-> m.values]
    BY <2>3, <2>5, <2>6, <2>8, <2>10, <2>12 DEF OnMessageConvert
  <2>14. m = [id |-> id, values |-> m.values]
    BY <2>1, <2>3 DEF Message
  <2> QED
    BY <1>2, <2>5, <2>13, <2>14
<1> QED
  BY <1>1, <1>2


(* What a turn does with a block of each type. *)
LEMMA BlockTurn ==
  ASSUME NEW x, NEW a, a = Decode(InnerRead(x, HeaderSize(1), Width)),
         NEW b, b = Decode(InnerRead(x, HeaderSize(2), Width)),
         NEW m, NEW n \in {2, 3}, m = MessageBehind(x, n), ~(Len(x) < HeaderSize(n))
  PROVE  /\ n = 3 => OnBlock(HeaderTypeCall, x) = DispatchPacket(a, b, 0, m)
         /\ n = 3 => OnBlock(HeaderTypeCallback, x) = DispatchPacket(0, a, b, m)
         /\ n = 2 => OnBlock(HeaderTypeMessage, x) =
                       IF a = Heart THEN HandlerHeart(m) ELSE DispatchPacket(a, 0, 0, m)
<1>1. /\ HeaderTypeCall # HeaderTypeCallback /\ HeaderTypeCall # HeaderTypeMessage
      /\ HeaderTypeCallback # HeaderTypeMessage
  BY DEF HeaderTypeCall, HeaderTypeCallback, HeaderTypeMessage
<1>2. ASSUME n = 3 PROVE OnBlock(HeaderTypeCall, x) = DispatchPacket(a, b, 0, m)
  BY <1>1, <1>2 DEF OnBlock
<1>3. ASSUME n = 3 PROVE OnBlock(HeaderTypeCallback, x) = DispatchPacket(0, a, b, m)
  BY <1>1, <1>3 DEF OnBlock
<1>4. ASSUME n = 2
      PROVE  OnBlock(HeaderTypeMessage, x) =
               IF a = Heart THEN HandlerHeart(m) ELSE DispatchPacket(a, 0, 0, m)
  BY <1>1, <1>4 DEF OnBlock
<1> QED
  BY <1>2, <1>3, <1>4

(* The message of a frame is dispatched with the numbers of its header. *)
LEMMA DispatchesMessage ==
  ASSUME NEW cmd, NEW cb, NEW err, NEW m, m = NoMessage \/ Message(m)
  PROVE  /\ DispatchPacket(cmd, cb, err, Received(m)).what = "packet"
         /\ OnPacket(DispatchPacket(cmd, cb, err, Received(m)).packet) =
              [cmd |-> cmd, cb |-> cb, err |-> err,
               msg |-> IF m # NoMessage /\ m.values = <<>> THEN NoMessage ELSE m]
<1>1. PICK r: r = Received(m)
  OBVIOUS
<1>2. r # NullPtr
  <2>1. NoMessage # NullPtr
    BY NullAssumption
  <2>2. CASE m = NoMessage \/ m.values = <<>>
    BY <1>1, <2>1, <2>2 DEF Received
  <2>3. CASE m # NoMessage /\ m.values # <<>>
    <3>1. r = [id |-> m.id, bytes |-> MessagePack(m)]
      BY <1>1, <2>3 DEF Received
    <3>2. m.id \in Nat /\ MessagePack(m) \in Seq(Bytes)
      BY <2>3, MessageFields DEF Fits
    <3> QED
      BY <3>1, <3>2, NullAssumption
  <2> QED
    BY <2>2, <2>3
<1>3. PICK d: d = DispatchPacket(cmd, cb, err, r)
  OBVIOUS
<1>4. PICK q: q = [cmd |-> cmd, cb |-> cb, err |-> err, msg |-> r]
  OBVIOUS
<1>5. d = [what |-> "packet", packet |-> q]
  BY <1>2, <1>3, <1>4 DEF DispatchPacket, Turn
<1>6. d.what = "packet" /\ d.packet = q
  BY <1>5
<1>7. PICK c: c = OnMessageConvert(r)
  OBVIOUS
<1>8. c = IF m # NoMessage /\ m.values = <<>> THEN NoMessage ELSE m
  BY <1>1, <1>7, MessageConverted
<1>9. OnPacket(q) = [cmd |-> cmd, cb |-> cb, err |-> err, msg |-> c]
  BY <1>4, <1>7 DEF OnPacket
<1> QED
  BY <1>1, <1>3, <1>6, <1>8, <1>9

LEMMA PacketHeader ==
  ASSUME NEW p, Packet(p), ~(p.cmd = 0 /\ p.cb = 0),
         NEW total, total = HeaderSize(1 + Len(HeaderFields(p))) + Len(MessageBytes(p.msg))
  PROVE  /\ HeaderNumbers(HeaderType(p), total, HeaderFields(p))
         /\ OnSerialize(p) = Frame(HeaderType(p), HeaderFields(p), MessageBytes(p.msg))
         /\ MessageBytes(p.msg) \in Seq(Bytes)
<1>1. /\ Fits(p.cmd, Width) /\ Fits(p.cb, Width) /\ Fits(p.err, Width)
      /\ p.msg = NoMessage \/ Message(p.msg)
      /\ Fits(HeaderSize(1 + Len(HeaderFields(p))) + Len(InnerData(p.msg)), Width)
  BY DEF Packet, Counts
<1>2. InnerData(p.msg) = MessageBytes(p.msg) /\ MessageBytes(p.msg) \in Seq(Bytes)
  BY <1>1, InnerDataIs
<1>3. Fits(total, Width)
  BY <1>1, <1>2
<1>4. HeaderType(p) \in Bytes
  <2>1. Base - 1 \in Bytes /\ Base - 2 \in Bytes /\ Base - 3 \in Bytes
    BY DEF Bytes
  <2>2. p.cmd \in Nat /\ p.cb \in Nat
    BY <1>1 DEF Fits
  <2> QED
    BY <2>1, <2>2 DEF HeaderType, HeaderTypeCall, HeaderTypeCallback, HeaderTypeMessage
<1>5. PICK f: f = HeaderFields(p)
  OBVIOUS
<1>6. Len(f) \in {1, 2} /\ \A i \in 1..Len(f): Fits(f[i], Width)
  <2>1. CASE p.cmd # 0 /\ p.cb = 0
    <3>1. f = <<p.cmd>>
      BY <1>5, <2>1 DEF HeaderFields
    <3>2. Len(f) = 1 /\ f[1] = p.cmd
      BY <3>1
    <3> QED
      BY <1>1, <3>2
  <2>2. CASE p.cmd # 0 /\ p.cb # 0
    <3>1. f = <<p.cmd, p.cb>>
      BY <1>5, <2>2 DEF HeaderFields
    <3>2. Len(f) = 2 /\ f[1] = p.cmd /\ f[2] = p.cb
      BY <3>1
    <3>3. \A i \in 1..2: i = 1 \/ i = 2
      OBVIOUS
    <3> QED
      BY <1>1, <3>2, <3>3
  <2>3. CASE p.cmd = 0
    <3>1. f = <<p.cb, p.err>>
      BY <1>5, <2>3 DEF HeaderFields
    <3>2. Len(f) = 2 /\ f[1] = p.cb /\ f[2] = p.err
      BY <3>1
    <3>3. \A i \in 1..2: i = 1 \/ i = 2
      OBVIOUS
    <3> QED
      BY <1>1, <3>2, <3>3
  <2> QED
    BY <2>1, <2>2, <2>3
<1>7. OnSerialize(p) = Frame(HeaderType(p), HeaderFields(p), MessageBytes(p.msg))
  BY <1>2 DEF OnSerialize
<1> QED
  BY <1>2, <1>3, <1>4, <1>5, <1>6, <1>7 DEF HeaderNumbers

(* The bytes that onSerialize makes of a packet are one block, and          *)
(* onUnserialize dispatches from them the packet that was sent, with its    *)
(* message converted to the values that were packed.                        *)
THEOREM CodecRoundTrip ==
  ASSUME NEW p, Packet(p)
  PROVE  OnSerialize(p) = <<>> \/ RoundTrip(p, OnSerialize(p))
<1>1. CASE p.cmd = 0 /\ p.cb = 0
  BY <1>1 DEF OnSerialize
<1>2. CASE ~(p.cmd = 0 /\ p.cb = 0)
  <2> DEFINE type == HeaderType(p)
             fields == HeaderFields(p)
             data == MessageBytes(p.msg)
             total == HeaderSize(1 + Len(fields)) + Len(data)
             x == OnSerialize(p)
  <2>1. /\ HeaderNumbers(type, total, fields) /\ data \in Seq(Bytes)
        /\ x = Frame(type, fields, data)
    BY <1>2, PacketHeader
  <2>2. IsFrame(x, type, total, fields, data)
    <3> HIDE DEF type, fields, data, x
    <3> QED
      BY <2>1, FrameIs
  <2>3. /\ Len(x) >= BlockSize /\ BlockLength(x) = Len(x) /\ Len(x) = total
        /\ Decode(InnerRead(x, HeaderSize(1), Width)) = fields[1]
        /\ Len(fields) = 2 => Decode(InnerRead(x, HeaderSize(2), Width)) = fields[2]
    <3> HIDE DEF type, fields, data, x
    <3> QED
      BY <2>1, <2>2, BlockOfFrame
  <2>4. x \in Seq(Bytes) /\ Head(x) = type /\ Len(x) = total
        /\ HasAt(x, HeaderSize(1 + Len(fields)), data)
    BY <2>2 DEF IsFrame
  <2>5. p.msg = NoMessage \/ Message(p.msg)
    BY DEF Packet
  <2>6. MessageBehind(x, 1 + Len(fields)) = Received(p.msg) /\ Received(p.msg) # NullPtr
    <3>1. PICK n: n = 1 + Len(fields)
      OBVIOUS
    <3>2. HasAt(x, HeaderSize(n), data) /\ Len(x) = HeaderSize(n) + Len(data)
      BY <2>4, <3>1
    <3>3. MessageBehind(x, n) = Received(p.msg) /\ Received(p.msg) # NullPtr
      <4> HIDE DEF x
      <4> QED
        BY <2>4, <2>5, <3>2, MessageRead
    <3> QED
      BY <3>1, <3>3
  <2>7. p.cmd \in Nat /\ p.cb \in Nat /\ Base \in Nat
    BY DEF Packet, Fits
  <2>8. /\ p.cmd # 0 /\ p.cb # 0 => type = HeaderTypeCall /\ fields = <<p.cmd, p.cb>>
        /\ p.cmd # 0 /\ p.cb = 0 => type = HeaderTypeMessage /\ fields = <<p.cmd>>
        /\ p.cmd = 0 => type = HeaderTypeCallback /\ fields = <<p.cb, p.err>>
    BY DEF HeaderType, HeaderFields
  <2> DEFINE a == Decode(InnerRead(x, HeaderSize(1), Width))
             b == Decode(InnerRead(x, HeaderSize(2), Width))
             n == 1 + Len(fields)
             m == MessageBehind(x, n)
             received(err) == DispatchPacket(p.cmd, p.cb, err, Received(p.msg))
  <2>9. HeaderSize(n) <= Len(x) /\ Len(x) \in Nat /\ HeaderSize(n) \in Nat
    BY <2>4, LenProperties DEF HasAt
  <2>10. ~(Len(x) < HeaderSize(n))
    BY <2>9
  <2>11. RoundTrip(p, x) \/ ~(IF Heartbeat(p) THEN OnBlock(type, x).what = "heart"
                             ELSE /\ OnBlock(type, x).what = "packet"
                                  /\ OnPacket(OnBlock(type, x).packet) = AsReceived(p))
    BY <2>3, <2>4 DEF RoundTrip
  <2>12. m = Received(p.msg) /\ m # NullPtr
    BY <2>6
  <2> HIDE DEF x, m
  <2>13. CASE p.cmd # 0 /\ p.cb # 0
    <3>1. type = HeaderTypeCall /\ Len(fields) = 2 /\ fields[1] = p.cmd /\ fields[2] = p.cb
      BY <2>8, <2>13
    <3>2. n = 3 /\ a = p.cmd /\ b = p.cb
      BY <2>3, <3>1
    <3>3. OnBlock(type, x) = received(0)
      <4>1. OnBlock(HeaderTypeCall, x) = DispatchPacket(a, b, 0, m)
        <5>1. PICK i \in {2, 3}: i = n /\ i = 3
          BY <3>2
        <5>2. m = MessageBehind(x, i) /\ ~(Len(x) < HeaderSize(i))
          BY <2>10, <5>1 DEF m
        <5> HIDE DEF a, b, n, fields
        <5>3. a = Decode(InnerRead(x, HeaderSize(1), Width)) /\ b = Decode(InnerRead(x, HeaderSize(2), Width))
          BY DEF a, b
        <5> QED
          BY <5>1, <5>2, <5>3, BlockTurn
      <4> QED
        BY <2>12, <3>1, <3>2, <4>1
    <3>4. received(0).what = "packet" /\ OnPacket(received(0).packet) = AsReceived(p)
      BY <2>5, <2>13, DispatchesMessage DEF AsReceived
    <3>5. RoundTrip(p, x)
      BY <2>11, <2>13, <3>3, <3>4 DEF Heartbeat
    <3> QED
      BY <3>5 DEF x
  <2>14. CASE p.cmd = 0
    <3>1. type = HeaderTypeCallback /\ Len(fields) = 2 /\ fields[1] = p.cb /\ fields[2] = p.err
      BY <2>8, <2>14
    <3>2. n = 3 /\ a = p.cb /\ b = p.err
      BY <2>3, <3>1
    <3>3. OnBlock(type, x) = received(p.err)
      <4>1. OnBlock(HeaderTypeCallback, x) = DispatchPacket(0, a, b, m)
        <5>1. PICK i \in {2, 3}: i = n /\ i = 3
          BY <3>2
        <5>2. m = MessageBehind(x, i) /\ ~(Len(x) < HeaderSize(i))
          BY <2>10, <5>1 DEF m
        <5> HIDE DEF a, b, n, fields
        <5>3. a = Decode(InnerRead(x, HeaderSize(1), Width)) /\ b = Decode(InnerRead(x, HeaderSize(2), Width))
          BY DEF a, b
        <5> QED
          BY <5>1, <5>2, <5>3, BlockTurn
      <4> QED
        BY <2>12, <2>14, <3>1, <3>2, <4>1
    <3>4. received(p.err).what = "packet" /\ OnPacket(received(p.err).packet) = AsReceived(p)
      BY <2>5, <2>14, DispatchesMessage DEF AsReceived
    <3>5. RoundTrip(p, x)
      BY <2>11, <2>14, <3>3, <3>4 DEF Heartbeat, Heart
    <3> QED
      BY <3>5 DEF x
  <2>15. CASE p.cmd # 0 /\ p.cb = 0
    <3>1. type = HeaderTypeMessage /\ Len(fields) = 1 /\ fields[1] = p.cmd
      BY <2>8, <2>15
    <3>2. n = 2 /\ a = p.cmd
      BY <2>3, <3>1
    <3>3. OnBlock(type, x) = IF p.cmd = Heart THEN HandlerHeart(m) ELSE received(0)
      <4>1. OnBlock(HeaderTypeMessage, x) =
              IF a = Heart THEN HandlerHeart(m) ELSE DispatchPacket(a, 0, 0, m)
        <5>1. PICK i \in {2, 3}: i = n /\ i = 2
          BY <3>2
        <5>2. m = MessageBehind(x, i) /\ ~(Len(x) < HeaderSize(i))
          BY <2>10, <5>1 DEF m
        <5> HIDE DEF a, b, n, fields
        <5>3. a = Decode(InnerRead(x, HeaderSize(1), Width)) /\ b = Decode(InnerRead(x, HeaderSize(2), Width))
          BY DEF a, b
        <5> QED
          BY <5>1, <5>2, <5>3, BlockTurn
      <4> QED
        BY <2>12, <2>15, <3>1, <3>2, <4>1
    <3>4. HandlerHeart(m).what = "heart"
      BY <2>12 DEF HandlerHeart, Turn
    <3>5. received(0).what = "packet" /\ OnPacket(received(0).packet) = AsReceived(p)
      <4>1. AsReceived(p) = [cmd |-> p.cmd, cb |-> p.cb, err |-> 0, msg |->
              IF p.msg # NoMessage /\ p.msg.values = <<>> THEN NoMessage ELSE p.msg]
        BY <2>15 DEF AsReceived
      <4> QED
        BY <2>5, <4>1, DispatchesMessage
    <3>6. RoundTrip(p, x)
      BY <2>11, <2>15, <3>3, <3>4, <3>5 DEF Heartbeat
    <3> QED
      BY <3>6 DEF x
  <2> QED
    BY <2>13, <2>14, <2>15 DEF x
<1> QED
  BY <1>1, <1>2

===============================================================================

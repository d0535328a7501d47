--------------------------- MODULE RingBufferProofs ---------------------------
(***************************************************************************)
(* Proofs about RingBuffer, for any alphabet, capacities and bounds.       *)
(***************************************************************************)
EXTENDS RingBuffer, Integers, SequenceTheorems, Recursion

Cells == Bytes \union {NoByte}

(* Where the byte number i of a ring is, counted from 0. *)
Place(c, f, i) == IF f + i < c THEN f + i ELSE f + i - c

Matched(c, f, e, s) ==
  \/ e > f /\ s = e - f
  \/ e < f /\ s = c - f + e
  \/ e = f /\ (s = 0 \/ s = c)

(* A ring whose indexes agree with its size, and whose memory holds bytes  *)
(* that were written wherever it claims to hold any.                       *)
Sound(r) ==
  /\ r \in [cap: Nat, front: Nat, end: Nat, size: Nat, buff: [0..r.cap - 1 -> Cells]]
  /\ r.cap \in 1..MaxCap /\ r.front < r.cap /\ r.end < r.cap
  /\ Matched(r.cap, r.front, r.end, r.size)
  /\ \A i \in 0..r.size - 1: r.buff[Place(r.cap, r.front, i)] \in Bytes

-------------------------------------------------------------------------------
(* Copying between memories.  The copies that resize and write make have   *)
(* names here, so that the facts about them can be cited.                  *)

Joined(new, buff, c, f, e) == Copy(Copy(new, 0, buff, f, c - f), c - f, buff, 0, e)
Shifted(new, buff, f, s) == Copy(new, 0, buff, f, s)

(* A memory m holds, from its beginning, what a ring holds in buff. *)
Straight(m, buff, c, f, s) == \A i \in 0..s - 1: m[i] = buff[Place(c, f, i)]

LEMMA PlaceInside ==
  ASSUME NEW c \in Nat, NEW f \in Nat, f < c, NEW i \in Nat, i < c
  PROVE  Place(c, f, i) \in 0..c - 1
BY DEF Place

(* Copying a wrapped ring out of memory of size c into one of size n. *)
LEMMA Straightened ==
  ASSUME NEW c \in Nat, NEW f \in Nat, NEW e \in Nat, f < c, e <= f,
         NEW buff \in [0..c - 1 -> Cells], NEW n \in Nat, c - f + e < n,
         NEW new \in [0..n - 1 -> Cells]
  PROVE  LET m == Joined(new, buff, c, f, e) IN
         /\ m \in [0..n - 1 -> Cells]
         /\ Straight(m, buff, c, f, c - f + e)
<1> DEFINE m1 == Copy(new, 0, buff, f, c - f)
           m == Copy(m1, c - f, buff, 0, e)
<1>1. /\ c - f \in Nat /\ n - 1 \in Int /\ 0 \in Nat /\ DOMAIN new = 0..n - 1
      /\ 0..0 + (c - f) - 1 \subseteq 0..n - 1
      /\ (c - f)..(c - f) + e - 1 \subseteq 0..n - 1
  OBVIOUS
<1>2. /\ DOMAIN m1 = 0..n - 1
      /\ \A i \in 0..n - 1: m1[i] = IF i < c - f THEN buff[f + i] ELSE new[i]
  <2>1. /\ DOMAIN m1 = 0..n - 1
        /\ \A i \in 0..n - 1: m1[i] = IF i \in 0..0 + (c - f) - 1 THEN buff[f + i - 0] ELSE new[i]
    BY <1>1 DEF Copy
  <2> HIDE DEF m1
  <2> QED
    BY <2>1
<1> HIDE DEF m1
<1>3. /\ DOMAIN m = 0..n - 1
      /\ \A i \in 0..n - 1: m[i] = IF c - f <= i /\ i < c - f + e
                                   THEN buff[i - (c - f)] ELSE m1[i]
      /\ m = [i \in 0..n - 1 |-> m[i]]
  <2>1. /\ DOMAIN m = 0..n - 1
        /\ \A i \in 0..n - 1: m[i] = IF i \in (c - f)..(c - f) + e - 1
                                     THEN buff[0 + i - (c - f)] ELSE m1[i]
        /\ m = [i \in 0..n - 1 |-> m[i]]
    BY <1>1, <1>2 DEF Copy
  <2> HIDE DEF m
  <2>2. ASSUME NEW i \in 0..n - 1
        PROVE  /\ i \in (c - f)..(c - f) + e - 1 <=> c - f <= i /\ i < c - f + e
               /\ 0 + i - (c - f) = i - (c - f)
    OBVIOUS
  <2> QED
    BY <2>1, <2>2
<1> HIDE DEF m
<1>4. \A i \in 0..n - 1: i < c - f => m[i] = buff[f + i]
  BY <1>2, <1>3
<1>5. \A i \in 0..n - 1: c - f <= i /\ i < c - f + e => m[i] = buff[i - (c - f)]
  BY <1>3
<1>6. \A i \in 0..n - 1: c - f + e <= i => m[i] = new[i]
  BY <1>2, <1>3
<1>7. \A i \in 0..n - 1: m[i] \in Cells
  <2> TAKE i \in 0..n - 1
  <2>1. CASE i < c - f
    BY <1>4, <2>1
  <2>2. CASE c - f <= i /\ i < c - f + e
    BY <1>5, <2>2
  <2>3. CASE c - f + e <= i
    BY <1>6, <2>3
  <2> QED
    BY <2>1, <2>2, <2>3
<1>8. \A i \in 0..c - f + e - 1: m[i] = buff[Place(c, f, i)]
  <2> TAKE i \in 0..c - f + e - 1
  <2>1. i \in 0..n - 1
    OBVIOUS
  <2>2. CASE i < c - f
    <3>1. Place(c, f, i) = f + i
      BY <2>2 DEF Place
    <3> QED
      BY <1>4, <2>1, <2>2, <3>1
  <2>3. CASE c - f <= i
    <3>1. Place(c, f, i) = i - (c - f)
      BY <2>3 DEF Place
    <3> QED
      BY <1>5, <2>1, <2>3, <3>1
  <2> QED
    BY <2>2, <2>3
<1>9. m \in [0..n - 1 -> Cells]
  BY <1>3, <1>7
<1> QED
  BY <1>8, <1>9 DEF m, m1, Joined, Straight

LEMMA Moved ==
  ASSUME NEW c \in Nat, NEW f \in Nat, NEW s \in Nat, f + s <= c,
         NEW buff \in [0..c - 1 -> Cells], NEW n \in Nat, s < n,
         NEW new \in [0..n - 1 -> Cells]
  PROVE  LET m == Shifted(new, buff, f, s) IN
         /\ m \in [0..n - 1 -> Cells]
         /\ Straight(m, buff, c, f, s)
<1> DEFINE m == Copy(new, 0, buff, f, s)
<1>1. /\ DOMAIN m = 0..n - 1
      /\ \A i \in 0..n - 1: m[i] = IF i < s THEN buff[f + i] ELSE new[i]
      /\ m = [i \in 0..n - 1 |-> m[i]]
  <2>1. /\ n - 1 \in Int /\ 0 \in Nat /\ DOMAIN new = 0..n - 1
        /\ 0..0 + s - 1 \subseteq 0..n - 1
    OBVIOUS
  <2>2. /\ DOMAIN m = 0..n - 1
        /\ \A i \in 0..n - 1: m[i] = IF i \in 0..0 + s - 1 THEN buff[f + i - 0] ELSE new[i]
        /\ m = [i \in 0..n - 1 |-> m[i]]
    BY <2>1 DEF Copy
  <2> HIDE DEF m
  <2> QED
    BY <2>2
<1> HIDE DEF m
<1>2. \A i \in 0..n - 1: m[i] \in Cells
  <2> TAKE i \in 0..n - 1
  <2>1. CASE i < s
    <3>1. m[i] = buff[f + i] /\ f + i \in 0..c - 1
      BY <1>1, <2>1
    <3> QED
      BY <3>1
  <2>2. CASE s <= i
    BY <1>1, <2>2
  <2> QED
    BY <2>1, <2>2
<1>3. \A i \in 0..s - 1: m[i] = buff[Place(c, f, i)]
  BY <1>1 DEF Place
<1>4. m \in [0..n - 1 -> Cells]
  BY <1>1, <1>2
<1> QED
  BY <1>3, <1>4 DEF m, Shifted, Straight

(* The memory m is buff with n items of data, from number k on, put at at. *)
Patched(m, buff, c, at, data, k, n) ==
  /\ m \in [0..c - 1 -> Cells]
  /\ \A i \in 0..n - 1: m[at + i] = data[k + i]
  /\ \A j \in 0..c - 1: j < at \/ at + n <= j => m[j] = buff[j]

(* Copying n items of data, from number k on, into the memory at at. *)
LEMMA Stored ==
  ASSUME NEW c \in Nat, NEW buff \in [0..c - 1 -> Cells], NEW at \in Nat,
         NEW data \in Seq(Bytes), NEW k \in Nat, k > 0, NEW n \in Nat,
         at + n <= c, k + n <= Len(data) + 1
  PROVE  Patched(Copy(buff, at, data, k, n), buff, c, at, data, k, n)
<1> DEFINE m == Copy(buff, at, data, k, n)
<1>1. /\ DOMAIN buff = 0..c - 1 /\ at..at + n - 1 \subseteq 0..c - 1
      /\ Len(data) \in Nat /\ \A i \in 1..Len(data): data[i] \in Bytes
  OBVIOUS
<1>2. /\ DOMAIN m = 0..c - 1
      /\ \A j \in 0..c - 1: m[j] = IF j \in at..at + n - 1 THEN data[k + j - at] ELSE buff[j]
      /\ m = [j \in 0..c - 1 |-> m[j]]
  BY <1>1 DEF Copy
<1> HIDE DEF m
<1>3. \A j \in 0..c - 1: m[j] \in Cells
  <2> TAKE j \in 0..c - 1
  <2>1. CASE j \in at..at + n - 1
    <3>1. k + j - at \in 1..Len(data)
      BY <1>1, <2>1
    <3> QED
      BY <1>1, <1>2, <2>1, <3>1 DEF Cells
  <2>2. CASE j \notin at..at + n - 1
    BY <1>2, <2>2
  <2> QED
    BY <2>1, <2>2
<1>4. ASSUME NEW i \in 0..n - 1
      PROVE  m[at + i] = data[k + i]
  <2>1. at + i \in 0..c - 1 /\ at + i \in at..at + n - 1 /\ k + (at + i) - at = k + i
    OBVIOUS
  <2> QED
    BY <1>2, <2>1
<1>5. \A j \in 0..c - 1: j < at \/ at + n <= j => m[j] = buff[j]
  BY <1>2
<1> QED
  BY <1>2, <1>3, <1>4, <1>5 DEF m, Patched

(* Storing behind the held bytes of a ring, in one part or around the end. *)
StoredFlat(buff, e, data) == Copy(buff, e, data, 1, Len(data))
StoredWrapped(buff, c, e, data) ==
  Copy(Copy(buff, e, data, 1, c - e), 0, data, c - e + 1, Len(data) - (c - e))

Kept(m, buff, c, f, s) == \A i \in 0..s - 1: m[Place(c, f, i)] = buff[Place(c, f, i)]
Added(m, data, c, f, s) == \A i \in 0..Len(data) - 1: m[Place(c, f, s + i)] = data[i + 1]

LEMMA Written ==
  ASSUME NEW c \in Nat, NEW f \in Nat, NEW e \in Nat, NEW s \in Nat,
         f < c, e < c, Matched(c, f, e, s),
         NEW buff \in [0..c - 1 -> Cells],
         NEW data \in Seq(Bytes), Len(data) > 0, s + Len(data) <= c,
         NEW m,
         \/ (e < f \/ Len(data) <= c - e) /\ m = StoredFlat(buff, e, data)
         \/ e >= f /\ c - e <= Len(data) /\ m = StoredWrapped(buff, c, e, data)
  PROVE  /\ m \in [0..c - 1 -> Cells]
         /\ Kept(m, buff, c, f, s)
         /\ Added(m, data, c, f, s)
<1> DEFINE n == Len(data)
<1>1. n \in Nat /\ n > 0 /\ s + n <= c
  OBVIOUS
<1> HIDE DEF n
<1>2. e >= f => s = e - f
  BY <1>1 DEF Matched
<1>3. e < f => s = c - f + e
  BY DEF Matched
<1>4. ASSUME e < f \/ n <= c - e, m = Copy(buff, e, data, 1, n)
      PROVE  /\ m \in [0..c - 1 -> Cells]
             /\ \A i \in 0..s - 1: m[Place(c, f, i)] = buff[Place(c, f, i)]
             /\ \A i \in 0..n - 1: m[Place(c, f, s + i)] = data[i + 1]
  <2>a. PICK k \in Nat: k = 1
    OBVIOUS
  <2>1. e + n <= c /\ k + n <= Len(data) + 1 /\ k > 0
    BY <1>1, <1>2, <1>3, <1>4, <2>a DEF n
  <2>b. Patched(Copy(buff, e, data, k, n), buff, c, e, data, k, n)
    BY <1>1, <2>1, Stored
  <2>2. /\ m \in [0..c - 1 -> Cells]
        /\ \A i \in 0..n - 1: m[e + i] = data[1 + i]
        /\ \A j \in 0..c - 1: j < e \/ e + n <= j => m[j] = buff[j]
    BY <1>4, <2>a, <2>b DEF Patched
  <2>3. ASSUME NEW i \in 0..s - 1
        PROVE  m[Place(c, f, i)] = buff[Place(c, f, i)]
    <3>1. Place(c, f, i) \in 0..c - 1 /\ (Place(c, f, i) < e \/ e + n <= Place(c, f, i))
      BY <1>1, <1>2, <1>3 DEF Place
    <3> QED
      BY <2>2, <3>1
  <2>4. ASSUME NEW i \in 0..n - 1
        PROVE  m[Place(c, f, s + i)] = data[i + 1]
    <3>1. Place(c, f, s + i) = e + i
      BY <1>1, <1>2, <1>3, <2>1 DEF Place
    <3> QED
      BY <2>2, <3>1
  <2> QED
    BY <2>2, <2>3, <2>4
<1>5. ASSUME e >= f, c - e <= n,
             m = Copy(Copy(buff, e, data, 1, c - e), 0, data, c - e + 1, n - (c - e))
      PROVE  /\ m \in [0..c - 1 -> Cells]
             /\ \A i \in 0..s - 1: m[Place(c, f, i)] = buff[Place(c, f, i)]
             /\ \A i \in 0..n - 1: m[Place(c, f, s + i)] = data[i + 1]
  <2>a. PICK one \in Nat: one = 1
    OBVIOUS
  <2>b. PICK start \in Nat: start = 0
    OBVIOUS
  <2>c. PICK d \in Nat: d = c - e
    OBVIOUS
  <2>d. PICK k \in Nat: k = c - e + 1
    OBVIOUS
  <2>e. PICK p \in Nat: p = n - (c - e)
    BY <1>1, <1>5
  <2>1. /\ e + d <= c /\ one + d <= Len(data) + 1 /\ one > 0
        /\ k > 0 /\ start + p <= c /\ k + p <= Len(data) + 1
    BY <1>1, <1>5, <2>a, <2>b, <2>c, <2>d, <2>e DEF n
  <2>f. Patched(Copy(buff, e, data, one, d), buff, c, e, data, one, d)
    BY <2>1, Stored
  <2>g. PICK m1 \in [0..c - 1 -> Cells]: m1 = Copy(buff, e, data, one, d)
    BY <2>f DEF Patched
  <2>2. /\ \A i \in 0..(c - e) - 1: m1[e + i] = data[1 + i]
        /\ \A j \in 0..c - 1: j < e \/ e + (c - e) <= j => m1[j] = buff[j]
    BY <2>a, <2>c, <2>f, <2>g DEF Patched
  <2>h. Patched(Copy(m1, start, data, k, p), m1, c, start, data, k, p)
    BY <2>1, Stored
  <2>4. m = Copy(m1, start, data, k, p)
    BY <1>5, <2>a, <2>b, <2>c, <2>d, <2>e, <2>g
  <2>5. /\ m \in [0..c - 1 -> Cells]
        /\ \A i \in 0..p - 1: m[start + i] = data[k + i]
        /\ \A j \in 0..c - 1: j < start \/ start + p <= j => m[j] = m1[j]
    BY <2>4, <2>h DEF Patched
  <2>6. p <= f /\ p = n - (c - e) /\ k = c - e + 1 /\ start = 0
    BY <1>1, <1>2, <1>5, <2>b, <2>d, <2>e
  <2>7. ASSUME NEW i \in 0..s - 1
        PROVE  m[Place(c, f, i)] = buff[Place(c, f, i)]
    <3>1. /\ Place(c, f, i) \in 0..c - 1 /\ start + p <= Place(c, f, i)
          /\ Place(c, f, i) < e
      BY <1>1, <1>2, <1>5, <2>1, <2>6 DEF Place
    <3> QED
      BY <2>2, <2>5, <3>1
  <2>8. ASSUME NEW i \in 0..n - 1
        PROVE  m[Place(c, f, s + i)] = data[i + 1]
    <3>1. CASE i < c - e
      <4>1. Place(c, f, s + i) = e + i /\ e + i \in 0..c - 1 /\ start + p <= e + i
        BY <1>1, <1>2, <1>5, <2>1, <2>6, <3>1 DEF Place
      <4>2. i \in 0..(c - e) - 1
        BY <3>1
      <4> QED
        BY <2>2, <2>5, <4>1, <4>2
    <3>2. CASE c - e <= i
      <4>1. Place(c, f, s + i) = i - (c - e)
        BY <1>1, <1>2, <1>5, <3>2 DEF Place
      <4>2. i - (c - e) \in 0..p - 1 /\ k + (i - (c - e)) = i + 1 /\ start + (i - (c - e)) = i - (c - e)
        BY <1>1, <1>5, <2>6, <3>2
      <4>3. PICK j \in 0..p - 1: j = i - (c - e)
        BY <4>2
      <4>4. m[start + j] = data[k + j]
        BY <2>5
      <4> QED
        BY <4>1, <4>2, <4>3, <4>4
    <3> QED
      BY <3>1, <3>2
  <2> QED
    BY <2>5, <2>7, <2>8
<1> QED
  BY <1>4, <1>5 DEF n, StoredFlat, StoredWrapped, Kept, Added

-------------------------------------------------------------------------------
(* The operations keep a ring sound. *)

(* The byte number i held by a ring, counted from 0. *)
View(r, i) == r.buff[Place(r.cap, r.front, i)]

LEMMA SoundFacts ==
  ASSUME NEW r, Sound(r)
  PROVE  /\ r.cap \in Nat /\ r.cap > 0 /\ r.cap <= MaxCap
         /\ r.front \in Nat /\ r.front < r.cap
         /\ r.end \in Nat /\ r.end < r.cap
         /\ r.size \in Nat /\ r.size <= r.cap
         /\ Matched(r.cap, r.front, r.end, r.size)
         /\ r.buff \in [0..r.cap - 1 -> Cells]
         /\ \A i \in 0..r.size - 1: View(r, i) \in Bytes
<1>1. /\ r.cap \in Nat /\ r.front \in Nat /\ r.end \in Nat /\ r.size \in Nat
      /\ r.cap > 0 /\ r.cap <= MaxCap /\ r.front < r.cap /\ r.end < r.cap
      /\ Matched(r.cap, r.front, r.end, r.size)
  BY SizeAssumption DEF Sound
<1>2. r.size <= r.cap
  BY <1>1 DEF Matched
<1>3. r.buff \in [0..r.cap - 1 -> Cells]
  BY DEF Sound
<1>4. \A i \in 0..r.size - 1: View(r, i) \in Bytes
  BY DEF Sound, View
<1> QED
  BY <1>1, <1>2, <1>3, <1>4

Ring(c, f, e, s, buff) == [cap |-> c, front |-> f, end |-> e, size |-> s, buff |-> buff]

LEMMA RingFields ==
  ASSUME NEW c, NEW f, NEW e, NEW s, NEW buff
  PROVE  /\ Ring(c, f, e, s, buff).cap = c /\ Ring(c, f, e, s, buff).front = f
         /\ Ring(c, f, e, s, buff).end = e /\ Ring(c, f, e, s, buff).size = s
         /\ Ring(c, f, e, s, buff).buff = buff
BY DEF Ring

(* What resize does to a ring: EXCEPT one field at a time. *)
Replaced(r, n, g, t, m) == [r EXCEPT !.cap = n, !.front = g, !.end = t, !.buff = m]

LEMMA RingReplaced ==
  ASSUME NEW c, NEW f, NEW e, NEW s, NEW buff, NEW n, NEW g, NEW t, NEW m
  PROVE  Replaced(Ring(c, f, e, s, buff), n, g, t, m) = Ring(n, g, t, s, m)
<1>1. Replaced(Ring(c, f, e, s, buff), n, g, t, m)
      = [[[[Ring(c, f, e, s, buff) EXCEPT !.cap = n] EXCEPT !.front = g] EXCEPT !.end = t]
           EXCEPT !.buff = m]
  BY DEF Replaced
<1>2. [Ring(c, f, e, s, buff) EXCEPT !.cap = n] = Ring(n, f, e, s, buff)
  BY DEF Ring
<1>3. [Ring(n, f, e, s, buff) EXCEPT !.front = g] = Ring(n, g, e, s, buff)
  BY DEF Ring
<1>4. [Ring(n, g, e, s, buff) EXCEPT !.end = t] = Ring(n, g, t, s, buff)
  BY DEF Ring
<1>5. [Ring(n, g, t, s, buff) EXCEPT !.buff = m] = Ring(n, g, t, s, m)
  BY DEF Ring
<1> QED
  BY <1>1, <1>2, <1>3, <1>4, <1>5

(* A sound ring is the record of its fields. *)
LEMMA Fields ==
  ASSUME NEW r, Sound(r)
  PROVE  r = Ring(r.cap, r.front, r.end, r.size, r.buff)
BY DEF Sound, Ring

(* What the ring that an operation constructs must satisfy to be sound. *)
LEMMA SoundRecord ==
  ASSUME NEW c \in Nat, NEW f \in Nat, NEW e \in Nat, NEW s \in Nat,
         NEW buff \in [0..c - 1 -> Cells],
         c > 0, c <= MaxCap, f < c, e < c, Matched(c, f, e, s),
         \A i \in 0..s - 1: buff[Place(c, f, i)] \in Bytes
  PROVE  Sound(Ring(c, f, e, s, buff))
<1> DEFINE r == Ring(c, f, e, s, buff)
<1>1. /\ r.cap = c /\ r.front = f /\ r.end = e /\ r.size = s /\ r.buff = buff
      /\ c \in 1..MaxCap
  BY SizeAssumption DEF Ring
<1>2. r \in [cap: Nat, front: Nat, end: Nat, size: Nat, buff: [0..c - 1 -> Cells]]
  BY DEF Ring
<1> HIDE DEF r
<1> QED
  BY <1>1, <1>2 DEF Sound, r

(* resize keeps the bytes and starts at the beginning of the memory. *)
LEMMA Resized ==
  ASSUME NEW r, Sound(r), NEW n \in Nat, r.size < n, n <= MaxCap
  PROVE  /\ Sound(Resize(r, n))
         /\ Resize(r, n).cap = n /\ Resize(r, n).size = r.size
         /\ \A i \in 0..r.size - 1: View(Resize(r, n), i) = View(r, i)
<1>a. PICK c \in Nat: c = r.cap
  BY SoundFacts
<1>b. PICK f \in Nat: f = r.front
  BY SoundFacts
<1>c. PICK e \in Nat: e = r.end
  BY SoundFacts
<1>d. PICK s \in Nat: s = r.size
  BY SoundFacts
<1>e. PICK buff \in [0..c - 1 -> Cells]: buff = r.buff
  BY SoundFacts, <1>a
<1>f. PICK new \in [0..n - 1 -> Cells]: new = Allocated(n)
  BY DEF Allocated, Cells
<1> DEFINE m == IF s = 0 THEN new
                ELSE IF e <= f THEN Joined(new, buff, c, f, e)
                ELSE Shifted(new, buff, f, s)
<1>1. /\ c > 0 /\ f < c /\ e < c /\ s <= c /\ s < n /\ Matched(c, f, e, s)
      /\ \A i \in 0..s - 1: buff[Place(c, f, i)] \in Bytes
  BY SoundFacts, <1>a, <1>b, <1>c, <1>d, <1>e DEF View
<1>3. m \in [0..n - 1 -> Cells] /\ Straight(m, buff, c, f, s)
  <2>1. CASE s = 0
    <3>1. m = new /\ 0..s - 1 = {}
      BY <2>1
    <3> HIDE DEF m
    <3> QED
      BY <3>1 DEF Straight
  <2>2. CASE s # 0 /\ e <= f
    <3>1. s = c - f + e
      BY <1>1, <2>2 DEF Matched
    <3>2. m = Joined(new, buff, c, f, e)
      BY <2>2
    <3>3. c - f + e < n
      BY <1>1, <3>1
    <3> HIDE DEF m
    <3>4. /\ m \in [0..n - 1 -> Cells]
          /\ Straight(m, buff, c, f, c - f + e)
      BY <1>1, <2>2, <3>2, <3>3, Straightened
    <3> QED
      BY <3>1, <3>4
  <2>3. CASE s # 0 /\ e > f
    <3>1. f + s <= c /\ s < n
      BY <1>1, <2>3 DEF Matched
    <3>2. m = Shifted(new, buff, f, s)
      BY <1>1, <2>3
    <3> HIDE DEF m
    <3> QED
      BY <1>1, <2>3, <3>1, <3>2, Moved
  <2> QED
    BY <1>1, <2>1, <2>2, <2>3
<1>4. Resize(r, n) = Ring(n, 0, s, s, m)
  <2> DEFINE k == IF r.size = 0 THEN Allocated(n)
                  ELSE IF r.end <= r.front
                  THEN Copy(Copy(Allocated(n), 0, r.buff, r.front, r.cap - r.front),
                            r.cap - r.front, r.buff, 0, r.end)
                  ELSE Copy(Allocated(n), 0, r.buff, r.front, r.size)
  <2>1. Resize(r, n) = Replaced(r, n, 0, s, k)
    BY <1>d DEF Resize, Replaced
  <2>2. k = m
    BY <1>a, <1>b, <1>c, <1>d, <1>e, <1>f DEF Joined, Shifted
  <2> HIDE DEF k, m
  <2>3. r = Ring(c, f, e, s, buff)
    BY <1>a, <1>b, <1>c, <1>d, <1>e, Fields
  <2>4. Replaced(r, n, 0, s, k) = Ring(n, 0, s, s, k)
    BY <2>3, RingReplaced
  <2> QED
    BY <2>1, <2>2, <2>4
<1> HIDE DEF m
<1>5. \A i \in 0..s - 1: Place(n, 0, i) = i
  BY <1>1 DEF Place
<1>6. n > 0 /\ Matched(n, 0, s, s)
  BY <1>1 DEF Matched
<1>7. \A i \in 0..s - 1: m[Place(n, 0, i)] = buff[Place(c, f, i)]
  BY <1>3, <1>5 DEF Straight
<1>8. Sound(Resize(r, n))
  BY <1>1, <1>3, <1>4, <1>6, <1>7, SoundRecord
<1>9. /\ Resize(r, n).cap = n /\ Resize(r, n).size = r.size
      /\ Resize(r, n).front = 0 /\ Resize(r, n).buff = m
  BY <1>4, <1>d, RingFields
<1>10. \A i \in 0..r.size - 1: View(Resize(r, n), i) = View(r, i)
  BY <1>7, <1>9, <1>a, <1>b, <1>d, <1>e DEF View
<1> QED
  BY <1>8, <1>9, <1>10

(* The loop of ensure ends: the function of its definition exists, from    *)
(* the capacities that are enough down to the smaller ones.                *)
LEMMA GrowingEnds ==
  ASSUME NEW need \in Nat
  PROVE  \E g \in [Nat -> Nat]: g = [c \in Nat |-> IF c < need THEN g[2 * c + 1] ELSE c]
<1> DEFINE From(k, g) ==
             \A c \in Nat: c + k >= need => g[c] = IF c < need THEN g[2 * c + 1] ELSE c
           T == {k \in Nat: \E g \in [Nat -> Nat]: From(k, g)}
<1>1. 0 \in T
  <2> DEFINE g == [c \in Nat |-> c]
  <2>1. g \in [Nat -> Nat] /\ \A c \in Nat: g[c] = c
    OBVIOUS
  <2> HIDE DEF g
  <2>2. From(0, g)
    BY <2>1
  <2> QED
    BY <2>1, <2>2
<1>2. ASSUME NEW k \in Nat, k \in T PROVE k + 1 \in T
  <2>1. PICK g \in [Nat -> Nat]: From(k, g)
    BY <1>2
  <2> DEFINE h == [c \in Nat |-> IF c < need /\ ~(c + k >= need) THEN g[2 * c + 1] ELSE g[c]]
  <2>2. h \in [Nat -> Nat]
    OBVIOUS
  <2>3. \A c \in Nat: h[c] = IF c < need /\ ~(c + k >= need) THEN g[2 * c + 1] ELSE g[c]
    OBVIOUS
  <2> HIDE DEF h
  <2>4. ASSUME NEW c \in Nat, c + (k + 1) >= need
        PROVE  h[c] = IF c < need THEN h[2 * c + 1] ELSE c
    <3>1. PICK d \in Nat: d = 2 * c + 1
      OBVIOUS
    <3>2. d + k >= need /\ h[d] = g[d]
      BY <2>3, <2>4, <3>1
    <3>3. CASE c + k >= need
      <4>1. g[c] = IF c < need THEN g[d] ELSE c
        BY <2>1, <3>1, <3>3
      <4>2. h[c] = g[c]
        BY <2>3, <3>3
      <4> QED
        BY <3>1, <3>2, <4>1, <4>2
    <3>4. CASE ~(c + k >= need)
      <4>1. c < need /\ h[c] = g[d]
        BY <2>3, <3>1, <3>4
      <4> QED
        BY <3>1, <3>2, <4>1
    <3> QED
      BY <3>3, <3>4
  <2>5. From(k + 1, h)
    BY <2>4
  <2> HIDE DEF From
  <2> QED
    BY <2>2, <2>5
<1>3. need \in T
  <2> HIDE DEF T
  <2> QED
    BY <1>1, <1>2, SetInduction
<1>4. PICK g \in [Nat -> Nat]: From(need, g)
  BY <1>3
<1>5. \A c \in Nat: g[c] = IF c < need THEN g[2 * c + 1] ELSE c
  BY <1>4
<1>6. g = [c \in Nat |-> IF c < need THEN g[2 * c + 1] ELSE c]
  BY <1>5
<1> QED
  BY <1>6

(* It ends with enough, and with less than twice of it. *)
LEMMA GrownEnough ==
  ASSUME NEW capacity \in Nat, NEW need \in Nat, capacity < need
  PROVE  Grown(capacity, need) \in need..2 * need - 1
<1> DEFINE g == CHOOSE h: h = [c \in Nat |-> IF c < need THEN h[2 * c + 1] ELSE c]
<1>1. g = [c \in Nat |-> IF c < need THEN g[2 * c + 1] ELSE c]
  BY GrowingEnds
<1>2. Grown(capacity, need) = g[capacity]
  BY DEF Grown
<1> HIDE DEF g
<1>3. \A c \in Nat: g[c] = IF c < need THEN g[2 * c + 1] ELSE c
  BY <1>1
<1> DEFINE T == {k \in Nat: \A c \in Nat: c < need /\ c + k >= need => g[c] \in need..2 * need - 1}
<1>4. 0 \in T
  OBVIOUS
<1>5. ASSUME NEW k \in Nat, k \in T PROVE k + 1 \in T
  <2> SUFFICES ASSUME NEW c \in Nat, c < need, c + (k + 1) >= need
               PROVE  g[c] \in need..2 * need - 1
    OBVIOUS
  <2>1. PICK d \in Nat: d = 2 * c + 1
    OBVIOUS
  <2>2. g[c] = g[d] /\ d + k >= need
    BY <1>3, <2>1
  <2>3. CASE d < need
    BY <1>5, <2>2, <2>3
  <2>4. CASE ~(d < need)
    <3>1. g[d] = d /\ d \in need..2 * need - 1
      BY <1>3, <2>1, <2>4
    <3> QED
      BY <2>2, <3>1
  <2> QED
    BY <2>3, <2>4
<1>6. need \in T
  <2> HIDE DEF T
  <2> QED
    BY <1>4, <1>5, SetInduction
<1>7. g[capacity] \in need..2 * need - 1
  BY <1>6
<1> QED
  BY <1>2, <1>7

(* ensure leaves room for as many bytes as it is asked for. *)
LEMMA Ensured ==
  ASSUME NEW r, Sound(r), NEW need \in Nat, need <= MaxSize
  PROVE  /\ Sound(Ensure(r, need))
         /\ Ensure(r, need).cap >= need /\ Ensure(r, need).size = r.size
         /\ \A i \in 0..r.size - 1: View(Ensure(r, need), i) = View(r, i)
<1>1. CASE r.cap >= need
  <2>1. Ensure(r, need) = r
    BY <1>1 DEF Ensure
  <2> QED
    BY <1>1, <2>1
<1>2. CASE ~(r.cap >= need)
  <2>1. /\ r.cap \in Nat /\ r.size \in Nat /\ r.size <= r.cap /\ r.cap < need
        /\ r.cap \in 1..MaxCap /\ need \in 1..MaxSize
    BY <1>2, SoundFacts, SizeAssumption
  <2>2. Grown(r.cap, need) \in need..MaxCap
    <3>1. Grown(r.cap, need) \in need..2 * need - 1
      BY <2>1, GrownEnough
    <3>2. 2 * need - 1 <= MaxCap
      BY <2>1, SizeAssumption
    <3> QED
      BY <2>1, <3>1, <3>2, SizeAssumption
  <2>3. PICK n \in Nat: n = Grown(r.cap, need) /\ need <= n /\ n <= MaxCap
    BY <2>2, SizeAssumption
  <2>4. Ensure(r, need) = Resize(r, n)
    BY <1>2, <2>3 DEF Ensure
  <2>5. r.size < n
    BY <2>1, <2>3
  <2>6. /\ Sound(Resize(r, n)) /\ Resize(r, n).cap = n /\ Resize(r, n).size = r.size
        /\ \A i \in 0..r.size - 1: View(Resize(r, n), i) = View(r, i)
    BY <2>3, <2>5, Resized
  <2> QED
    BY <2>3, <2>4, <2>6
<1> QED
  BY <1>1, <1>2

NewEnd(c, f, e, n) == IF e < f \/ n < c - e THEN e + n ELSE n - (c - e)

LEMMA EndMoves ==
  ASSUME NEW c \in Nat, NEW f \in Nat, NEW e \in Nat, NEW s \in Nat,
         f < c, e < c, Matched(c, f, e, s), NEW n \in Nat, n > 0, s + n <= c
  PROVE  /\ NewEnd(c, f, e, n) \in Nat /\ NewEnd(c, f, e, n) < c
         /\ Matched(c, f, NewEnd(c, f, e, n), s + n)
<1>1. CASE e < f
  BY <1>1 DEF NewEnd, Matched
<1>2. CASE e >= f /\ n < c - e
  BY <1>2 DEF NewEnd, Matched
<1>3. CASE e >= f /\ n >= c - e
  BY <1>3 DEF NewEnd, Matched
<1> QED
  BY <1>1, <1>2, <1>3

(* The ring r2 holds what r held, and data behind it. *)
Appends(r, r2, data) ==
  /\ Sound(r2) /\ r2.cap = r.cap /\ r2.size = r.size + Len(data)
  /\ \A i \in 0..r.size - 1: View(r2, i) = View(r, i)
  /\ \A i \in 0..Len(data) - 1: View(r2, r.size + i) = data[i + 1]

LEMMA Appended ==
  ASSUME NEW r, Sound(r), NEW data \in Seq(Bytes), Len(data) > 0,
         r.size + Len(data) <= r.cap, NEW m,
         \/ /\ r.end < r.front \/ Len(data) <= r.cap - r.end
            /\ m = StoredFlat(r.buff, r.end, data)
         \/ /\ r.end >= r.front /\ r.cap - r.end <= Len(data)
            /\ m = StoredWrapped(r.buff, r.cap, r.end, data)
  PROVE  Appends(r, Ring(r.cap, r.front, NewEnd(r.cap, r.front, r.end, Len(data)),
                         r.size + Len(data), m), data)
<1>a. PICK c \in Nat: c = r.cap
  BY SoundFacts
<1>b. PICK f \in Nat: f = r.front
  BY SoundFacts
<1>c. PICK e \in Nat: e = r.end
  BY SoundFacts
<1>d. PICK s \in Nat: s = r.size
  BY SoundFacts
<1>e. PICK buff \in [0..c - 1 -> Cells]: buff = r.buff
  BY SoundFacts, <1>a
<1>f. PICK n \in Nat: n = Len(data)
  OBVIOUS
<1>1. /\ c > 0 /\ c <= MaxCap /\ f < c /\ e < c /\ Matched(c, f, e, s)
      /\ \A i \in 0..s - 1: buff[Place(c, f, i)] \in Bytes
      /\ n > 0 /\ s + n <= c
  BY SoundFacts, <1>a, <1>b, <1>c, <1>d, <1>e, <1>f DEF View
<1>2. \/ (e < f \/ Len(data) <= c - e) /\ m = StoredFlat(buff, e, data)
      \/ e >= f /\ c - e <= Len(data) /\ m = StoredWrapped(buff, c, e, data)
  BY <1>a, <1>b, <1>c, <1>e
<1>3. /\ m \in [0..c - 1 -> Cells] /\ Kept(m, buff, c, f, s) /\ Added(m, data, c, f, s)
  BY <1>1, <1>2, <1>f, Written
<1>4. PICK t \in Nat: t = NewEnd(c, f, e, n) /\ t < c /\ Matched(c, f, t, s + n)
  BY <1>1, EndMoves
<1>5. \A i \in 0..s - 1: m[Place(c, f, i)] = buff[Place(c, f, i)]
  BY <1>3 DEF Kept
<1>6. \A i \in 0..n - 1: m[Place(c, f, s + i)] = data[i + 1]
  BY <1>3, <1>f DEF Added
<1>7. \A i \in 0..s + n - 1: m[Place(c, f, i)] \in Bytes
  <2> TAKE i \in 0..s + n - 1
  <2>1. CASE i < s
    BY <1>1, <1>5, <2>1
  <2>2. CASE s <= i
    <3>1. i - s \in 0..n - 1 /\ s + (i - s) = i /\ (i - s) + 1 \in 1..Len(data)
      BY <1>f, <2>2
    <3>2. data[(i - s) + 1] \in Bytes
      BY <3>1
    <3> QED
      BY <1>6, <3>1, <3>2
  <2> QED
    BY <2>1, <2>2
<1>8. PICK k \in Nat: k = s + n
  OBVIOUS
<1>9. Sound(Ring(c, f, t, k, m))
  <2>1. Matched(c, f, t, k) /\ \A i \in 0..k - 1: m[Place(c, f, i)] \in Bytes
    BY <1>4, <1>7, <1>8
  <2> QED
    BY <1>1, <1>3, <1>4, <2>1, SoundRecord
<1>10. /\ Ring(c, f, t, k, m).cap = c /\ Ring(c, f, t, k, m).front = f
       /\ Ring(c, f, t, k, m).size = k /\ Ring(c, f, t, k, m).buff = m
  BY RingFields
<1>11. Appends(r, Ring(c, f, t, k, m), data)
  <2>1. PICK q: q = Ring(c, f, t, k, m)
    OBVIOUS
  <2>2. Sound(q) /\ q.cap = r.cap /\ q.size = r.size + Len(data)
    BY <1>a, <1>d, <1>f, <1>8, <1>9, <1>10, <2>1
  <2>3. \A i \in 0..r.size - 1: View(q, i) = View(r, i)
    BY <1>a, <1>b, <1>d, <1>e, <1>5, <1>10, <2>1 DEF View
  <2>4. \A i \in 0..Len(data) - 1: View(q, r.size + i) = data[i + 1]
    BY <1>d, <1>f, <1>6, <1>10, <2>1 DEF View
  <2> QED
    BY <2>1, <2>2, <2>3, <2>4 DEF Appends
<1> QED
  BY <1>a, <1>b, <1>c, <1>d, <1>f, <1>4, <1>8, <1>11

(* What write and write_confirm do to a ring, one field at a time. *)
Extended(r, s, t, m) == [[r EXCEPT !.size = s] EXCEPT !.buff = m, !.end = t]

LEMMA RingExtended ==
  ASSUME NEW c, NEW f, NEW e, NEW s, NEW buff, NEW k, NEW t, NEW m
  PROVE  Extended(Ring(c, f, e, s, buff), k, t, m) = Ring(c, f, t, k, m)
<1>1. Extended(Ring(c, f, e, s, buff), k, t, m)
      = [[[Ring(c, f, e, s, buff) EXCEPT !.size = k] EXCEPT !.buff = m] EXCEPT !.end = t]
  BY DEF Extended
<1>2. [Ring(c, f, e, s, buff) EXCEPT !.size = k] = Ring(c, f, e, k, buff)
  BY DEF Ring
<1>3. [Ring(c, f, e, k, buff) EXCEPT !.buff = m] = Ring(c, f, e, k, m)
  BY DEF Ring
<1>4. [Ring(c, f, e, k, m) EXCEPT !.end = t] = Ring(c, f, t, k, m)
  BY DEF Ring
<1> QED
  BY <1>1, <1>2, <1>3, <1>4

LEMMA StoreAppends ==
  ASSUME NEW r, Sound(r), NEW data \in Seq(Bytes), Len(data) > 0,
         r.size + Len(data) <= r.cap
  PROVE  Appends(r, Store(r, data), data)
<1> DEFINE d == [r EXCEPT !.size = @ + Len(data)]
           t == NewEnd(r.cap, r.front, r.end, Len(data))
<1>1. /\ r.cap \in Nat /\ r.front \in Nat /\ r.end \in Nat /\ r.size \in Nat
      /\ r.end < r.cap /\ Len(data) \in Nat
  BY SoundFacts
<1>2. d.buff = r.buff /\ d.end = r.end /\ d = [r EXCEPT !.size = r.size + Len(data)]
  BY DEF Sound
<1>3. r = Ring(r.cap, r.front, r.end, r.size, r.buff)
  BY Fields
<1>4. CASE r.end < r.front \/ Len(data) < r.cap - r.end
  <2> DEFINE m == StoredFlat(r.buff, r.end, data)
  <2>1. Store(r, data) = [d EXCEPT !.buff = Copy(@, r.end, data, 1, Len(data)),
                                   !.end = @ + Len(data)]
    BY <1>4 DEF Store
  <2>2. t = r.end + Len(data)
    BY <1>4 DEF NewEnd
  <2>3. [d EXCEPT !.buff = Copy(@, r.end, data, 1, Len(data)), !.end = @ + Len(data)]
        = [d EXCEPT !.buff = m, !.end = t]
    BY <1>2, <2>2 DEF StoredFlat
  <2>4. [d EXCEPT !.buff = m, !.end = t] = Extended(r, r.size + Len(data), t, m)
    BY <1>2 DEF Extended
  <2> HIDE DEF d, t, m
  <2>5. Store(r, data) = Ring(r.cap, r.front, t, r.size + Len(data), m)
    BY <1>3, <2>1, <2>3, <2>4, RingExtended
  <2>6. r.end < r.front \/ Len(data) <= r.cap - r.end
    BY <1>1, <1>4
  <2>7. Appends(r, Ring(r.cap, r.front, NewEnd(r.cap, r.front, r.end, Len(data)),
                        r.size + Len(data), m), data)
    BY <2>6, Appended DEF m
  <2> QED
    BY <2>5, <2>7 DEF t
<1>5. CASE ~(r.end < r.front \/ Len(data) < r.cap - r.end)
  <2> DEFINE m == StoredWrapped(r.buff, r.cap, r.end, data)
  <2>1. Store(r, data) = [d EXCEPT !.buff = Copy(Copy(@, r.end, data, 1, r.cap - r.end),
                                     0, data, r.cap - r.end + 1, Len(data) - (r.cap - r.end)),
                                   !.end = Len(data) - (r.cap - r.end)]
    BY <1>5 DEF Store
  <2>2. t = Len(data) - (r.cap - r.end)
    BY <1>5 DEF NewEnd
  <2>3. [d EXCEPT !.buff = Copy(Copy(@, r.end, data, 1, r.cap - r.end),
                                0, data, r.cap - r.end + 1, Len(data) - (r.cap - r.end)),
                  !.end = Len(data) - (r.cap - r.end)]
        = [d EXCEPT !.buff = m, !.end = t]
    BY <1>2, <2>2 DEF StoredWrapped
  <2>4. [d EXCEPT !.buff = m, !.end = t] = Extended(r, r.size + Len(data), t, m)
    BY <1>2 DEF Extended
  <2> HIDE DEF d, t, m
  <2>5. Store(r, data) = Ring(r.cap, r.front, t, r.size + Len(data), m)
    BY <1>3, <2>1, <2>3, <2>4, RingExtended
  <2>6. r.end >= r.front /\ r.cap - r.end <= Len(data)
    BY <1>1, <1>5
  <2>7. Appends(r, Ring(r.cap, r.front, NewEnd(r.cap, r.front, r.end, Len(data)),
                        r.size + Len(data), m), data)
    BY <2>6, Appended DEF m
  <2> QED
    BY <2>5, <2>7 DEF t
<1> QED
  BY <1>4, <1>5

LEMMA WriteAppends ==
  ASSUME NEW r, Sound(r), NEW data \in Seq(Bytes), Len(data) > 0,
         r.size + Len(data) <= MaxSize
  PROVE  /\ Sound(Write(r, data))
         /\ Write(r, data).size = r.size + Len(data)
         /\ \A i \in 0..r.size - 1: View(Write(r, data), i) = View(r, i)
         /\ \A i \in 0..Len(data) - 1: View(Write(r, data), r.size + i) = data[i + 1]
<1>1. PICK need \in Nat: need = r.size + Len(data)
  BY SoundFacts
<1>2. /\ Sound(Ensure(r, need)) /\ Ensure(r, need).cap >= need
      /\ Ensure(r, need).size = r.size
      /\ \A i \in 0..r.size - 1: View(Ensure(r, need), i) = View(r, i)
  BY <1>1, Ensured
<1>3. PICK q: q = Ensure(r, need)
  OBVIOUS
<1>4. Sound(q) /\ q.size + Len(data) <= q.cap
  BY <1>1, <1>2, <1>3
<1>5. Appends(q, Store(q, data), data)
  BY <1>4, StoreAppends
<1>6. Write(r, data) = Store(q, data)
  BY <1>1, <1>3 DEF Write
<1> QED
  BY <1>2, <1>3, <1>5, <1>6 DEF Appends

-------------------------------------------------------------------------------
(* Receiving from a socket. *)

LEMMA Confirmed ==
  ASSUME NEW c, NEW f, NEW e, NEW s, NEW m, NEW n
  PROVE  WriteConfirm(Ring(c, f, e, s, m), n) = Ring(c, f, NewEnd(c, f, e, n), s + n, m)
<1> DEFINE r == Ring(c, f, e, s, m)
<1>1. r.cap = c /\ r.front = f /\ r.end = e /\ r.size = s
  BY DEF Ring
<1>2. WriteConfirm(r, n) = [r EXCEPT !.size = s + n, !.end = NewEnd(c, f, e, n)]
  <2> HIDE DEF r
  <2> QED
    BY <1>1 DEF WriteConfirm, NewEnd
<1>3. [r EXCEPT !.size = s + n, !.end = NewEnd(c, f, e, n)]
      = [[r EXCEPT !.size = s + n] EXCEPT !.end = NewEnd(c, f, e, n)]
  OBVIOUS
<1>4. [r EXCEPT !.size = s + n] = Ring(c, f, e, s + n, m)
  BY DEF Ring
<1>5. [Ring(c, f, e, s + n, m) EXCEPT !.end = NewEnd(c, f, e, n)]
      = Ring(c, f, NewEnd(c, f, e, n), s + n, m)
  BY DEF Ring
<1> QED
  BY <1>2, <1>3, <1>4, <1>5

(* What readv may fill is free: the sum of its parts is at most the room. *)
LEMMA WriteableFacts ==
  ASSUME NEW r, Sound(r)
  PROVE  /\ Writeable(r) \in Nat /\ r.size + Writeable(r) <= r.cap
         /\ Writeable(r) > 0 =>
              /\ WriteableVec(r)[1].at = r.end /\ WriteableVec(r)[2].at = 0
              /\ r.end < r.front => Writeable(r) = WriteableVec(r)[1].len
              /\ r.end >= r.front => WriteableVec(r)[1].len = r.cap - r.end
<1>1. /\ r.cap \in Nat /\ r.front \in Nat /\ r.end \in Nat /\ r.size \in Nat
      /\ r.end < r.cap /\ r.front < r.cap /\ r.size <= r.cap
      /\ Matched(r.cap, r.front, r.end, r.size)
  BY SoundFacts
<1>2. CASE r.size = r.cap
  <2>1. WriteableVec(r)[1].len = 0 /\ WriteableVec(r)[2].len = 0
    BY <1>2 DEF WriteableVec
  <2> QED
    BY <1>1, <1>2, <2>1 DEF Writeable
<1>3. CASE r.size # r.cap /\ r.end >= r.front
  <2>1. /\ WriteableVec(r)[1].at = r.end /\ WriteableVec(r)[2].at = 0
        /\ WriteableVec(r)[1].len = r.cap - r.end
        /\ WriteableVec(r)[2].len = IF r.front > 0 THEN r.front - 1 ELSE 0
    BY <1>3 DEF WriteableVec
  <2>2. r.size = r.end - r.front
    BY <1>1, <1>3 DEF Matched
  <2> QED
    BY <1>1, <1>3, <2>1, <2>2 DEF Writeable
<1>4. CASE r.size # r.cap /\ ~(r.end >= r.front)
  <2>1. /\ WriteableVec(r)[1].at = r.end /\ WriteableVec(r)[2].at = 0
        /\ WriteableVec(r)[1].len = r.front - r.end
        /\ WriteableVec(r)[2].len = 0
    BY <1>4 DEF WriteableVec
  <2>2. r.size = r.cap - r.front + r.end /\ r.end < r.front
    BY <1>1, <1>4 DEF Matched
  <2> QED
    BY <1>1, <1>4, <2>1, <2>2 DEF Writeable
<1> QED
  BY <1>2, <1>3, <1>4

LEMMA ScatterAppends ==
  ASSUME NEW r, Sound(r), NEW data \in Seq(Bytes), Len(data) > 0,
         Len(data) <= Writeable(r)
  PROVE  Appends(r, WriteConfirm(Scatter(r, data), Len(data)), data)
<1>1. /\ r.cap \in Nat /\ r.front \in Nat /\ r.end \in Nat /\ r.size \in Nat
      /\ r.end < r.cap /\ Len(data) \in Nat
  BY SoundFacts
<1>2. /\ WriteableVec(r)[1].at = r.end /\ WriteableVec(r)[2].at = 0
      /\ r.end < r.front => Writeable(r) = WriteableVec(r)[1].len
      /\ r.end >= r.front => WriteableVec(r)[1].len = r.cap - r.end
      /\ r.size + Len(data) <= r.cap
  <2>1. Writeable(r) \in Nat /\ Writeable(r) > 0
    BY <1>1, WriteableFacts
  <2> QED
    BY <1>1, <2>1, WriteableFacts
<1>3. r = Ring(r.cap, r.front, r.end, r.size, r.buff)
  BY Fields
<1>4. PICK m: /\ Scatter(r, data) = [r EXCEPT !.buff = m]
              /\ \/ /\ r.end < r.front \/ Len(data) <= r.cap - r.end
                    /\ m = StoredFlat(r.buff, r.end, data)
                 \/ /\ r.end >= r.front /\ r.cap - r.end <= Len(data)
                    /\ m = StoredWrapped(r.buff, r.cap, r.end, data)
  <2>1. CASE Len(data) <= WriteableVec(r)[1].len
    <3>1. Scatter(r, data) = [r EXCEPT !.buff = StoredFlat(r.buff, r.end, data)]
      BY <1>2, <2>1 DEF Scatter, StoredFlat
    <3>2. r.end < r.front \/ Len(data) <= r.cap - r.end
      BY <1>1, <1>2, <2>1
    <3> QED
      BY <3>1, <3>2
  <2>2. CASE ~(Len(data) <= WriteableVec(r)[1].len)
    <3>1. r.end >= r.front /\ WriteableVec(r)[1].len = r.cap - r.end
      BY <1>1, <1>2, <2>2
    <3>2. r.cap - r.end <= Len(data)
      BY <1>1, <2>2, <3>1
    <3>3. Scatter(r, data) = [r EXCEPT !.buff = StoredWrapped(r.buff, r.cap, r.end, data)]
      BY <1>2, <2>2, <3>1 DEF Scatter, StoredWrapped
    <3> QED
      BY <3>1, <3>2, <3>3
  <2> QED
    BY <2>1, <2>2
<1>5. Scatter(r, data) = Ring(r.cap, r.front, r.end, r.size, m)
  <2>1. [Ring(r.cap, r.front, r.end, r.size, r.buff) EXCEPT !.buff = m]
        = Ring(r.cap, r.front, r.end, r.size, m)
    BY DEF Ring
  <2> QED
    BY <1>3, <1>4, <2>1
<1>6. WriteConfirm(Scatter(r, data), Len(data))
      = Ring(r.cap, r.front, NewEnd(r.cap, r.front, r.end, Len(data)), r.size + Len(data), m)
  BY <1>5, Confirmed
<1>7. Appends(r, Ring(r.cap, r.front, NewEnd(r.cap, r.front, r.end, Len(data)),
                      r.size + Len(data), m), data)
  BY <1>2, <1>4, Appended
<1> QED
  BY <1>6, <1>7

(* handleTcpConRead puts all it has received behind what the ring holds. *)
LEMMA ReceivedAppends ==
  ASSUME NEW r, Sound(r), NEW data \in Seq(Bytes), Len(data) > 0,
         r.size + Len(data) <= MaxSize
  PROVE  /\ Sound(Received(r, data))
         /\ Received(r, data).size = r.size + Len(data)
         /\ \A i \in 0..r.size - 1: View(Received(r, data), i) = View(r, i)
         /\ \A i \in 0..Len(data) - 1: View(Received(r, data), r.size + i) = data[i + 1]
<1>1. PICK room \in Nat: room = Writeable(r)
  BY WriteableFacts
<1>2. PICK n \in Nat: n = Len(data)
  OBVIOUS
<1>3. PICK s \in Nat: s = r.size
  BY SoundFacts
<1>4. CASE n <= room
  <2>1. Appends(r, WriteConfirm(Scatter(r, data), Len(data)), data)
    BY <1>1, <1>2, <1>4, ScatterAppends
  <2>2. Received(r, data) = WriteConfirm(Scatter(r, data), Len(data))
    BY <1>1, <1>2, <1>4 DEF Received
  <2> QED
    BY <2>1, <2>2 DEF Appends
<1>5. CASE ~(n <= room)
  <2> DEFINE first == SubSeq(data, 1, room)
             rest == SubSeq(data, room + 1, n)
  <2>1. /\ first \in Seq(Bytes) /\ Len(first) = room
        /\ \A i \in 1..room: first[i] = data[i]
    BY <1>2, <1>5
  <2>2. /\ rest \in Seq(Bytes) /\ Len(rest) = n - room
        /\ \A i \in 1..n - room: rest[i] = data[room + i]
    <3>1. rest \in Seq(Bytes)
      BY <1>2, <1>5
    <3>2. Len(rest) = n - room
      BY <1>2, <1>5
    <3>3. \A i \in 1..n - room: rest[i] = data[room + i]
      BY <1>2, <1>5
    <3> QED
      BY <3>1, <3>2, <3>3
  <2> HIDE DEF first, rest
  <2>3. PICK q: q = IF room > 0 THEN WriteConfirm(Scatter(r, first), room) ELSE r
    OBVIOUS
  <2>4. Received(r, data) = Write(q, rest)
    BY <1>1, <1>2, <1>5, <2>3 DEF Received, first, rest
  <2>5. Appends(r, q, first)
    <3>1. CASE room > 0
      <4>1. Len(first) > 0 /\ Len(first) <= Writeable(r)
        BY <1>1, <2>1, <3>1
      <4>2. Appends(r, WriteConfirm(Scatter(r, first), Len(first)), first)
        BY <2>1, <4>1, ScatterAppends
      <4> QED
        BY <2>1, <2>3, <3>1, <4>2
    <3>2. CASE ~(room > 0)
      <4>1. q = r /\ Len(first) = 0 /\ r.size + 0 = r.size
        BY <1>3, <2>1, <2>3, <3>2
      <4> QED
        BY <4>1 DEF Appends
    <3> QED
      BY <3>1, <3>2
  <2>6. Sound(q) /\ q.size = s + room /\ Len(rest) > 0 /\ q.size + Len(rest) <= MaxSize
    BY <1>2, <1>3, <1>5, <2>1, <2>2, <2>5, SizeAssumption DEF Appends
  <2>7. /\ Sound(Write(q, rest))
        /\ Write(q, rest).size = q.size + Len(rest)
        /\ \A i \in 0..q.size - 1: View(Write(q, rest), i) = View(q, i)
        /\ \A i \in 0..Len(rest) - 1: View(Write(q, rest), q.size + i) = rest[i + 1]
    BY <2>2, <2>6, WriteAppends
  <2>8. ASSUME NEW i \in 0..s - 1
        PROVE  View(Write(q, rest), i) = View(r, i)
    <3>1. i \in 0..q.size - 1 /\ i \in 0..r.size - 1
      <4>1. PICK a \in Nat, k \in Nat: a = s /\ k = room
        BY <1>3
      <4>2. q.size = a + k /\ r.size = a /\ i \in 0..a - 1
        BY <1>3, <2>6, <4>1
      <4> QED
        BY <4>1, <4>2
    <3>2. View(q, i) = View(r, i)
      BY <2>5, <3>1 DEF Appends
    <3> QED
      BY <2>7, <3>1, <3>2
  <2>9. ASSUME NEW i \in 0..n - 1
        PROVE  View(Write(q, rest), s + i) = data[i + 1]
    <3>1. CASE i < room
      <4>1. s + i \in 0..q.size - 1 /\ i \in 0..Len(first) - 1 /\ i + 1 \in 1..room
        BY <2>1, <2>6, <3>1
      <4>2. View(q, s + i) = first[i + 1]
        BY <1>3, <2>5, <4>1 DEF Appends
      <4> QED
        BY <2>1, <2>7, <4>1, <4>2
    <3>2. CASE room <= i
      <4>1. PICK j \in Nat: j = i - room
        BY <3>2
      <4>2. /\ j \in 0..Len(rest) - 1 /\ q.size + j = s + i /\ j + 1 \in 1..n - room
            /\ room + (j + 1) = i + 1
        BY <2>2, <2>6, <3>2, <4>1
      <4>3. View(Write(q, rest), q.size + j) = rest[j + 1] /\ rest[j + 1] = data[room + (j + 1)]
        BY <2>2, <2>7, <4>2
      <4> QED
        BY <4>2, <4>3
    <3> QED
      BY <3>1, <3>2
  <2> QED
    <3>1. q.size + Len(rest) = r.size + Len(data)
      <4>1. (s + room) + (n - room) = s + n
        OBVIOUS
      <4> QED
        BY <1>2, <1>3, <2>2, <2>6, <4>1
    <3>2. Sound(Received(r, data)) /\ Received(r, data).size = r.size + Len(data)
      BY <2>4, <2>7, <3>1
    <3>3. \A i \in 0..r.size - 1: View(Received(r, data), i) = View(r, i)
      BY <1>3, <2>4, <2>8
    <3>4. \A i \in 0..Len(data) - 1: View(Received(r, data), r.size + i) = data[i + 1]
      BY <1>2, <1>3, <2>4, <2>9
    <3> QED
      BY <3>2, <3>3, <3>4
<1> QED
  BY <1>4, <1>5

-------------------------------------------------------------------------------
(* Taking bytes out. *)

NewFront(c, f, e, n) == IF e > f \/ c - f > n THEN f + n ELSE n - (c - f)

LEMMA FrontMoves ==
  ASSUME NEW c \in Nat, NEW f \in Nat, NEW e \in Nat, NEW s \in Nat,
         f < c, e < c, Matched(c, f, e, s), NEW n \in Nat, n > 0, n <= s
  PROVE  /\ NewFront(c, f, e, n) \in Nat /\ NewFront(c, f, e, n) < c
         /\ Matched(c, NewFront(c, f, e, n), e, s - n)
         /\ \A i \in 0..s - n - 1: Place(c, NewFront(c, f, e, n), i) = Place(c, f, n + i)
<1>1. CASE e > f
  BY <1>1 DEF NewFront, Matched, Place
<1>2. CASE e <= f /\ c - f > n
  BY <1>2 DEF NewFront, Matched, Place
<1>3. CASE e <= f /\ c - f <= n
  BY <1>3 DEF NewFront, Matched, Place
<1> QED
  BY <1>1, <1>2, <1>3

(* The ring r2 holds what r held without its first n bytes. *)
Drops(r, r2, n) ==
  /\ Sound(r2) /\ r2.size = r.size - n
  /\ \A i \in 0..r.size - n - 1: View(r2, i) = View(r, n + i)

LEMMA ReadConfirmDrops ==
  ASSUME NEW r, Sound(r), NEW n \in Nat, n > 0, n <= r.size
  PROVE  Drops(r, ReadConfirm(r, n), n)
<1>a. PICK c \in Nat: c = r.cap
  BY SoundFacts
<1>b. PICK f \in Nat: f = r.front
  BY SoundFacts
<1>c. PICK e \in Nat: e = r.end
  BY SoundFacts
<1>d. PICK s \in Nat: s = r.size
  BY SoundFacts
<1>e. PICK buff \in [0..c - 1 -> Cells]: buff = r.buff
  BY SoundFacts, <1>a
<1>1. /\ c > 0 /\ c <= MaxCap /\ f < c /\ e < c /\ Matched(c, f, e, s) /\ n <= s
      /\ \A i \in 0..s - 1: buff[Place(c, f, i)] \in Bytes
  BY SoundFacts, <1>a, <1>b, <1>c, <1>d, <1>e DEF View
<1>2. PICK g \in Nat: g = NewFront(c, f, e, n)
  BY <1>1, FrontMoves
<1>3. /\ g < c /\ Matched(c, g, e, s - n)
      /\ \A i \in 0..s - n - 1: Place(c, g, i) = Place(c, f, n + i)
  BY <1>1, <1>2, FrontMoves
<1>4. PICK k \in Nat: k = s - n
  BY <1>1
<1>5. ReadConfirm(r, n) = Ring(c, g, e, k, buff)
  <2>1. ReadConfirm(r, n) = [r EXCEPT !.size = k, !.front = g]
    <3>1. ReadConfirm(r, n) = [r EXCEPT !.size = r.size - n, !.front = NewFront(c, f, e, n)]
      BY <1>a, <1>b, <1>c DEF ReadConfirm, NewFront
    <3> QED
      BY <1>2, <1>4, <1>d, <3>1
  <2>2. [r EXCEPT !.size = k, !.front = g] = [[r EXCEPT !.size = k] EXCEPT !.front = g]
    OBVIOUS
  <2>3. r = Ring(c, f, e, s, buff)
    BY <1>a, <1>b, <1>c, <1>d, <1>e, Fields
  <2>4. [Ring(c, f, e, s, buff) EXCEPT !.size = k] = Ring(c, f, e, k, buff)
    BY DEF Ring
  <2>5. [Ring(c, f, e, k, buff) EXCEPT !.front = g] = Ring(c, g, e, k, buff)
    BY DEF Ring
  <2> QED
    BY <2>1, <2>2, <2>3, <2>4, <2>5
<1>6. \A i \in 0..k - 1: /\ n + i \in 0..s - 1
                         /\ buff[Place(c, g, i)] = buff[Place(c, f, n + i)]
  BY <1>1, <1>3, <1>4
<1>7. \A i \in 0..k - 1: buff[Place(c, g, i)] \in Bytes
  BY <1>1, <1>6
<1>8. Sound(Ring(c, g, e, k, buff))
  BY <1>1, <1>3, <1>4, <1>7, SoundRecord
<1>9. /\ Ring(c, g, e, k, buff).cap = c /\ Ring(c, g, e, k, buff).front = g
      /\ Ring(c, g, e, k, buff).size = k /\ Ring(c, g, e, k, buff).buff = buff
  BY RingFields
<1>10. \A i \in 0..k - 1: View(Ring(c, g, e, k, buff), i) = View(r, n + i)
  BY <1>a, <1>b, <1>e, <1>6, <1>9 DEF View
<1>11. k = r.size - n
  BY <1>d, <1>4
<1> QED
  BY <1>5, <1>8, <1>9, <1>10, <1>11 DEF Drops

LEMMA ReadDrops ==
  ASSUME NEW r, Sound(r), NEW n \in Nat, n > 0, n <= r.size
  PROVE  Drops(r, Read(r, n), n)
<1>1. PICK q: q = ReadConfirm(r, n)
  OBVIOUS
<1>2. Sound(q) /\ Drops(r, q, n)
  BY <1>1, ReadConfirmDrops DEF Drops
<1>3. CASE q.size = 0 /\ q.cap > BoundSize
  <2>1. PICK m \in Nat: m = ShrinkSize /\ 0 < m /\ m <= MaxCap
    BY SizeAssumption
  <2>2. /\ Sound(Resize(q, m)) /\ Resize(q, m).size = q.size
        /\ \A i \in 0..q.size - 1: View(Resize(q, m), i) = View(q, i)
    BY <1>2, <1>3, <2>1, Resized
  <2>3. Read(r, n) = Resize(q, m)
    BY <1>1, <1>3, <2>1 DEF Read, TryShrink
  <2>4. r.size - n = 0 /\ 0..r.size - n - 1 = {}
    BY <1>2, <1>3 DEF Drops
  <2> QED
    BY <1>2, <2>2, <2>3, <2>4 DEF Drops
<1>4. CASE ~(q.size = 0 /\ q.cap > BoundSize)
  BY <1>1, <1>2, <1>4 DEF Read, TryShrink
<1> QED
  BY <1>3, <1>4

(* The first n bytes that a ring holds, as a sequence. *)
Prefix(r, n) == [i \in 1..n |-> View(r, i - 1)]

LEMMA Looked ==
  ASSUME NEW r, Sound(r), NEW n \in Nat, n > 0, n <= r.size
  PROVE  Look(r, n) = Prefix(r, n)
<1>a. PICK c \in Nat: c = r.cap
  BY SoundFacts
<1>b. PICK f \in Nat: f = r.front
  BY SoundFacts
<1>c. PICK e \in Nat: e = r.end
  BY SoundFacts
<1>d. PICK s \in Nat: s = r.size
  BY SoundFacts
<1>1. f < c /\ e < c /\ Matched(c, f, e, s) /\ n <= s
  BY SoundFacts, <1>a, <1>b, <1>c, <1>d
<1>2. CASE e > f \/ c - f >= n
  <2>1. Look(r, n) = Copy(<<>>, 1, r.buff, f, n)
    BY <1>2, <1>a, <1>b, <1>c DEF Look
  <2>2. Copy(<<>>, 1, r.buff, f, n) = [i \in 1..n |-> r.buff[f + i - 1]]
    BY DEF Copy
  <2>3. \A i \in 1..n: Place(c, f, i - 1) = f + i - 1
    BY <1>1, <1>2 DEF Place, Matched
  <2> QED
    BY <1>a, <1>b, <2>1, <2>2, <2>3 DEF Prefix, View
<1>3. CASE ~(e > f \/ c - f >= n)
  <2> DEFINE m == Copy(<<>>, 1, r.buff, f, c - f)
  <2>1. Look(r, n) = Copy(m, c - f + 1, r.buff, 0, n - (c - f))
    BY <1>3, <1>a, <1>b, <1>c DEF Look
  <2>2. m = [i \in 1..c - f |-> r.buff[f + i - 1]]
    BY <1>1 DEF Copy
  <2> HIDE DEF m
  <2>3. /\ DOMAIN m = 1..c - f /\ (1..c - f) \union (c - f + 1..c - f + 1 + (n - (c - f)) - 1) = 1..n
        /\ \A i \in 1..c - f: m[i] = r.buff[f + i - 1]
    BY <1>1, <1>3, <2>2
  <2>4. Copy(m, c - f + 1, r.buff, 0, n - (c - f))
        = [i \in 1..n |-> IF i <= c - f THEN r.buff[f + i - 1] ELSE r.buff[i - (c - f + 1)]]
    BY <1>1, <1>3, <2>3 DEF Copy
  <2>5. \A i \in 1..n: Place(c, f, i - 1) = IF i <= c - f THEN f + i - 1 ELSE i - (c - f + 1)
    BY <1>1, <1>3 DEF Place
  <2> QED
    BY <1>a, <1>b, <2>1, <2>4, <2>5 DEF Prefix, View
<1> QED
  BY <1>2, <1>3

(* writev sends the bytes that look would show. *)
LEMMA Gathered ==
  ASSUME NEW r, Sound(r), NEW n \in Nat, n > 0, n <= r.size
  PROVE  Gather(r, n) = Prefix(r, n)
<1>1. /\ r.cap \in Nat /\ r.front \in Nat /\ r.end \in Nat /\ r.size \in Nat
      /\ r.front < r.cap /\ r.size # 0
      /\ Matched(r.cap, r.front, r.end, r.size)
  BY SoundFacts
<1>2. CASE r.end > r.front
  <2>1. ReadableVec(r)[1].at = r.front /\ ReadableVec(r)[1].len = r.size
    BY <1>1, <1>2 DEF ReadableVec
  <2>2. Gather(r, n) = Copy(<<>>, 1, r.buff, r.front, n)
    BY <2>1 DEF Gather
  <2>3. Look(r, n) = Copy(<<>>, 1, r.buff, r.front, n)
    BY <1>2 DEF Look
  <2> QED
    BY <2>2, <2>3, Looked
<1>3. CASE ~(r.end > r.front)
  <2>1. /\ ReadableVec(r)[1].at = r.front /\ ReadableVec(r)[1].len = r.cap - r.front
        /\ ReadableVec(r)[2].at = 0
    BY <1>1, <1>3 DEF ReadableVec
  <2>2. Gather(r, n)
        = IF n <= r.cap - r.front THEN Copy(<<>>, 1, r.buff, r.front, n)
          ELSE Copy(Copy(<<>>, 1, r.buff, r.front, r.cap - r.front),
                    r.cap - r.front + 1, r.buff, 0, n - (r.cap - r.front))
    BY <2>1 DEF Gather
  <2>3. Look(r, n)
        = IF r.cap - r.front >= n THEN Copy(<<>>, 1, r.buff, r.front, n)
          ELSE Copy(Copy(<<>>, 1, r.buff, r.front, r.cap - r.front),
                    r.cap - r.front + 1, r.buff, 0, n - (r.cap - r.front))
    BY <1>3 DEF Look
  <2>4. (n <= r.cap - r.front) <=> (r.cap - r.front >= n)
    BY <1>1
  <2> QED
    BY <2>2, <2>3, <2>4, Looked
<1> QED
  BY <1>2, <1>3

-------------------------------------------------------------------------------
(* The ring as a sequence of bytes. *)

LEMMA ContentsFacts ==
  ASSUME NEW r, Sound(r)
  PROVE  /\ Contents(r) \in Seq(Bytes) /\ Len(Contents(r)) = r.size
         /\ \A i \in 1..r.size: Contents(r)[i] = View(r, i - 1)
<1>a. PICK c \in Nat: c = r.cap
  BY SoundFacts
<1>b. PICK f \in Nat: f = r.front
  BY SoundFacts
<1>d. PICK s \in Nat: s = r.size
  BY SoundFacts
<1>1. \A i \in 1..s: At(r, i) = Place(c, f, i - 1)
  BY <1>a, <1>b DEF At, Place
<1>2. Contents(r) = [i \in 1..s |-> View(r, i - 1)]
  BY <1>a, <1>b, <1>d, <1>1 DEF Contents, View
<1>3. \A i \in 1..s: View(r, i - 1) \in Bytes
  BY <1>d, SoundFacts
<1> QED
  BY <1>d, <1>2, <1>3

LEMMA PutsBytes ==
  ASSUME NEW r, Sound(r), NEW r2, Sound(r2), NEW data \in Seq(Bytes),
         r2.size = r.size + Len(data),
         \A i \in 0..r.size - 1: View(r2, i) = View(r, i),
         \A i \in 0..Len(data) - 1: View(r2, r.size + i) = data[i + 1]
  PROVE  Contents(r2) = Contents(r) \o data
<1>1. PICK s \in Nat: s = r.size
  BY SoundFacts
<1>2. PICK n \in Nat: n = Len(data)
  OBVIOUS
<1>3. PICK a \in Seq(Bytes): a = Contents(r)
  BY ContentsFacts
<1>4. PICK b \in Seq(Bytes): b = Contents(r2)
  BY ContentsFacts
<1>5. Len(a) = s /\ Len(b) = s + n
  BY <1>1, <1>2, <1>3, <1>4, ContentsFacts
<1>a. PICK w: w = a \o data
  OBVIOUS
<1>b. /\ w \in Seq(Bytes) /\ Len(w) = s + n
      /\ \A i \in 1..s + n: w[i] = IF i <= s THEN a[i] ELSE data[i - s]
  <2>1. /\ a \o data \in Seq(Bytes) /\ Len(a \o data) = Len(a) + Len(data)
        /\ \A i \in 1..Len(a) + Len(data):
             (a \o data)[i] = IF i <= Len(a) THEN a[i] ELSE data[i - Len(a)]
    BY ConcatProperties
  <2> QED
    BY <1>2, <1>5, <1>a, <2>1
<1>6. ASSUME NEW i \in 1..s + n
      PROVE  b[i] = w[i]
  <2>1. b[i] = View(r2, i - 1)
    BY <1>1, <1>2, <1>4, ContentsFacts
  <2>2. CASE i <= s
    <3>1. a[i] = View(r, i - 1)
      BY <1>1, <1>3, <2>2, ContentsFacts
    <3>2. i - 1 \in 0..s - 1
      BY <2>2
    <3>3. w[i] = a[i]
      BY <1>b, <2>2
    <3> QED
      BY <1>1, <2>1, <3>1, <3>2, <3>3
  <2>3. CASE i > s
    <3>1. PICK j \in Nat: j = i - 1 - s
      BY <2>3
    <3>2. j \in 0..n - 1 /\ s + j = i - 1 /\ j + 1 = i - s
      BY <2>3, <3>1
    <3>3. View(r2, s + j) = data[j + 1]
      BY <1>1, <1>2, <3>2
    <3>4. w[i] = data[i - s]
      BY <1>b, <2>3
    <3> QED
      BY <2>1, <3>2, <3>3, <3>4
  <2> QED
    BY <2>2, <2>3
<1>7. b = w
  BY <1>5, <1>6, <1>b, SeqEqual
<1> QED
  BY <1>3, <1>4, <1>7, <1>a

LEMMA PrefixOfContents ==
  ASSUME NEW r, Sound(r), NEW n \in Nat, n > 0, n <= r.size
  PROVE  Prefix(r, n) = SubSeq(Contents(r), 1, n) /\ Prefix(r, n) \in Seq(Bytes)
<1>1. PICK a \in Seq(Bytes): a = Contents(r)
  BY ContentsFacts
<1>2. PICK s \in Nat: s = r.size
  BY SoundFacts
<1>3. n <= s /\ Len(a) = s /\ \A i \in 1..s: a[i] = View(r, i - 1)
  BY <1>1, <1>2, ContentsFacts
<1>4. Prefix(r, n) = [i \in 1..n |-> a[i]]
  BY <1>3 DEF Prefix
<1>5. SubSeq(a, 1, n) = [i \in 1..n |-> a[i]] /\ SubSeq(a, 1, n) \in Seq(Bytes)
  BY <1>3
<1> QED
  BY <1>1, <1>4, <1>5

LEMMA DropsBytes ==
  ASSUME NEW r, Sound(r), NEW n \in Nat, n > 0, n <= r.size, NEW r2, Drops(r, r2, n)
  PROVE  Contents(r2) = SubSeq(Contents(r), n + 1, Len(Contents(r)))
<1>1. PICK a \in Seq(Bytes): a = Contents(r)
  BY ContentsFacts
<1>2. PICK s \in Nat: s = r.size
  BY SoundFacts
<1>3. n <= s /\ Len(a) = s /\ \A i \in 1..s: a[i] = View(r, i - 1)
  BY <1>1, <1>2, ContentsFacts
<1>4. PICK b \in Seq(Bytes): b = Contents(r2)
  BY ContentsFacts DEF Drops
<1>5. Sound(r2) /\ r2.size = s - n
  BY <1>2 DEF Drops
<1>6. Len(b) = s - n /\ \A i \in 1..s - n: b[i] = View(r2, i - 1)
  BY <1>4, <1>5, ContentsFacts
<1>7. ASSUME NEW i \in 1..s - n
      PROVE  b[i] = a[n + i]
  <2>1. i - 1 \in 0..r.size - n - 1 /\ n + (i - 1) = n + i - 1 /\ n + i \in 1..s
    BY <1>2, <1>3
  <2>2. View(r2, i - 1) = View(r, n + (i - 1))
    BY <2>1 DEF Drops
  <2> QED
    BY <1>3, <1>6, <2>1, <2>2
<1>a. PICK k \in Nat: k = n + 1
  OBVIOUS
<1>b. PICK w: w = SubSeq(a, k, s)
  OBVIOUS
<1>8. /\ w \in Seq(Bytes) /\ Len(w) = s - n
      /\ \A i \in 1..s - n: w[i] = a[n + i]
  <2>1. /\ k \in Int /\ s \in Int /\ \A i \in k..s: a[i] \in Bytes
    BY <1>3, <1>a
  <2>2. /\ SubSeq(a, k, s) \in Seq(Bytes)
        /\ Len(SubSeq(a, k, s)) = IF k <= s THEN s - k + 1 ELSE 0
        /\ \A i \in 1..s - k + 1: SubSeq(a, k, s)[i] = a[k + i - 1]
    BY <2>1, SubSeqProperties
  <2>3. (IF k <= s THEN s - k + 1 ELSE 0) = s - n /\ s - k + 1 = s - n
    BY <1>3, <1>a
  <2>4. \A i \in 1..s - n: k + i - 1 = n + i
    BY <1>a
  <2>5. \A i \in 1..s - n: w[i] = a[n + i]
    BY <1>b, <2>2, <2>3, <2>4
  <2> QED
    BY <1>b, <2>2, <2>3, <2>5
<1>9. b = w
  BY <1>6, <1>7, <1>8, SeqEqual
<1> QED
  BY <1>1, <1>3, <1>4, <1>9, <1>a, <1>b

-------------------------------------------------------------------------------
(* The inductive invariant, and the steps of the queue. *)

RingInv == Sound(ring) /\ moved \in Seq(Bytes)

LEMMA DataFacts ==
  ASSUME NEW data \in Data
  PROVE  data \in Seq(Bytes) /\ Len(data) > 0 /\ data # <<>>
<1>1. PICK n \in 1..MaxData: data \in [1..n -> Bytes]
  BY DEF Data
<1>2. n \in Nat /\ n > 0
  BY SizeAssumption
<1>3. data \in Seq(Bytes) /\ Len(data) = n
  BY <1>1, <1>2
<1> QED
  BY <1>2, <1>3

LEMMA RingInitially == Init => RingInv /\ Queue!Init
<1> SUFFICES ASSUME Init PROVE RingInv /\ Queue!Init
  OBVIOUS
<1>1. PICK c \in Nat: c = InitCap /\ c > 0 /\ c <= MaxCap
  BY SizeAssumption
<1>2. PICK z \in Nat: z = 0
  OBVIOUS
<1>3. PICK m \in [0..c - 1 -> Cells]: m = Allocated(c)
  BY DEF Allocated, Cells
<1>4. ring = Ring(c, z, z, z, m)
  BY <1>1, <1>2, <1>3 DEF Init, Ring
<1>5. z < c /\ Matched(c, z, z, z) /\ \A i \in 0..z - 1: m[Place(c, z, i)] \in Bytes
  BY <1>1, <1>2 DEF Matched
<1>6. Sound(ring)
  BY <1>1, <1>4, <1>5, SoundRecord
<1>7. moved = <<>> /\ ring.size = 0
  BY DEF Init
<1>8. Contents(ring) \in Seq(Bytes) /\ Len(Contents(ring)) = 0
  BY <1>6, <1>7, ContentsFacts
<1>9. Contents(ring) = <<>>
  BY <1>8
<1> QED
  BY <1>6, <1>7, <1>9 DEF RingInv, Queue!Init

LEMMA AppendStep ==
  ASSUME RingInv, NEW data \in Data, AppendData(data) \/ Receive(data)
  PROVE  RingInv' /\ Queue!Next
<1>1. /\ data \in Seq(Bytes) /\ Len(data) > 0 /\ data # <<>> /\ Sound(ring)
      /\ ring.size + Len(data) <= MaxSize /\ moved' = data
  BY DataFacts DEF RingInv, AppendData, Receive
<1>2. Sound(ring') /\ Contents(ring') = Contents(ring) \o data
  <2>1. CASE AppendData(data)
    <3>1. ring' = Write(ring, data)
      BY <2>1 DEF AppendData
    <3>2. /\ Sound(Write(ring, data)) /\ Write(ring, data).size = ring.size + Len(data)
          /\ \A i \in 0..ring.size - 1: View(Write(ring, data), i) = View(ring, i)
          /\ \A i \in 0..Len(data) - 1: View(Write(ring, data), ring.size + i) = data[i + 1]
      BY <1>1, WriteAppends
    <3>3. Contents(Write(ring, data)) = Contents(ring) \o data
      BY <1>1, <3>2, PutsBytes
    <3> QED
      BY <3>1, <3>2, <3>3
  <2>2. CASE Receive(data)
    <3>1. ring' = Received(ring, data)
      BY <2>2 DEF Receive
    <3>2. /\ Sound(Received(ring, data)) /\ Received(ring, data).size = ring.size + Len(data)
          /\ \A i \in 0..ring.size - 1: View(Received(ring, data), i) = View(ring, i)
          /\ \A i \in 0..Len(data) - 1: View(Received(ring, data), ring.size + i) = data[i + 1]
      BY <1>1, ReceivedAppends
    <3>3. Contents(Received(ring, data)) = Contents(ring) \o data
      BY <1>1, <3>2, PutsBytes
    <3> QED
      BY <3>1, <3>2, <3>3
  <2> QED
    BY <2>1, <2>2
<1>3. RingInv'
  BY <1>1, <1>2 DEF RingInv
<1>4. Queue!Put
  BY <1>1, <1>2 DEF Queue!Put
<1> QED
  BY <1>3, <1>4 DEF Queue!Next

LEMMA TakeStep ==
  ASSUME RingInv, NEW n \in 1..ring.size, ReadOut(n) \/ LookAt(n) \/ Flush(n)
  PROVE  RingInv' /\ Queue!Next
<1>1. Sound(ring) /\ moved \in Seq(Bytes)
  BY DEF RingInv
<1>2. n \in Nat /\ n > 0 /\ n <= ring.size /\ n \in 1..Len(Contents(ring))
  <2>1. ring.size \in Nat /\ Len(Contents(ring)) = ring.size
    BY <1>1, SoundFacts, ContentsFacts
  <2> QED
    BY <2>1
<1>3. /\ Prefix(ring, n) = SubSeq(Contents(ring), 1, n) /\ Prefix(ring, n) \in Seq(Bytes)
      /\ Look(ring, n) = Prefix(ring, n) /\ Gather(ring, n) = Prefix(ring, n)
  BY <1>1, <1>2, PrefixOfContents, Looked, Gathered
<1>4. moved' = Prefix(ring, n)
  BY <1>3 DEF ReadOut, LookAt, Flush
<1>5. CASE LookAt(n)
  <2>1. ring' = ring
    BY <1>5 DEF LookAt
  <2>2. RingInv' /\ Queue!Peek(n)
    BY <1>1, <1>3, <1>4, <2>1 DEF RingInv, Queue!Peek
  <2> QED
    BY <1>2, <2>2 DEF Queue!Next
<1>6. CASE ReadOut(n) \/ Flush(n)
  <2>1. PICK r2: r2 = ring' /\ Drops(ring, r2, n)
    <3>1. CASE ReadOut(n)
      BY <1>1, <1>2, <3>1, ReadDrops DEF ReadOut
    <3>2. CASE Flush(n)
      BY <1>1, <1>2, <3>2, ReadConfirmDrops DEF Flush
    <3> QED
      BY <1>6, <3>1, <3>2
  <2>2. Sound(r2) /\ Contents(r2) = SubSeq(Contents(ring), n + 1, Len(Contents(ring)))
    BY <1>1, <1>2, <2>1, DropsBytes DEF Drops
  <2>3. RingInv' /\ Queue!Take(n)
    BY <1>3, <1>4, <2>1, <2>2 DEF RingInv, Queue!Take
  <2> QED
    BY <1>2, <2>3 DEF Queue!Next
<1> QED
  BY <1>5, <1>6

LEMMA ClearStep ==
  ASSUME RingInv, Clear
  PROVE  RingInv' /\ Queue!Next
<1>1. Sound(ring) /\ moved \in Seq(Bytes) /\ moved' = moved
  BY DEF RingInv, Clear
<1>a. PICK c \in Nat: c = ring.cap /\ c > 0 /\ c <= MaxCap
  BY <1>1, SoundFacts
<1>b. PICK m \in [0..c - 1 -> Cells]: m = ring.buff
  BY <1>1, <1>a, SoundFacts
<1>c. PICK z \in Nat: z = 0
  OBVIOUS
<1>2. ring' = Ring(c, z, z, z, m)
  <2>1. PICK r2: r2 = ring'
    OBVIOUS
  <2>2. r2 = [[[ring EXCEPT !.front = z] EXCEPT !.end = z] EXCEPT !.size = z]
    BY <1>c, <2>1 DEF Clear
  <2>3. ring = Ring(c, ring.front, ring.end, ring.size, m)
    BY <1>1, <1>a, <1>b, Fields
  <2>4. [Ring(c, ring.front, ring.end, ring.size, m) EXCEPT !.front = z]
        = Ring(c, z, ring.end, ring.size, m)
    BY DEF Ring
  <2>5. [Ring(c, z, ring.end, ring.size, m) EXCEPT !.end = z] = Ring(c, z, z, ring.size, m)
    BY DEF Ring
  <2>6. [Ring(c, z, z, ring.size, m) EXCEPT !.size = z] = Ring(c, z, z, z, m)
    BY DEF Ring
  <2> QED
    BY <2>1, <2>2, <2>3, <2>4, <2>5, <2>6
<1>3. z < c /\ Matched(c, z, z, z) /\ \A i \in 0..z - 1: m[Place(c, z, i)] \in Bytes
  BY <1>a, <1>c DEF Matched
<1>4. Sound(Ring(c, z, z, z, m)) /\ Ring(c, z, z, z, m).size = 0
  <2>1. Ring(c, z, z, z, m).size = 0
    BY <1>c, RingFields
  <2>2. Sound(Ring(c, z, z, z, m))
    BY <1>a, <1>3, SoundRecord
  <2> QED
    BY <2>1, <2>2
<1>5. /\ Contents(Ring(c, z, z, z, m)) \in Seq(Bytes)
      /\ Len(Contents(Ring(c, z, z, z, m))) = 0
  BY <1>4, ContentsFacts
<1>6. Contents(Ring(c, z, z, z, m)) = <<>>
  BY <1>5
<1>7. RingInv' /\ Queue!Clear
  BY <1>1, <1>2, <1>4, <1>6 DEF RingInv, Queue!Clear
<1> QED
  BY <1>7 DEF Queue!Next

LEMMA RingStep ==
  ASSUME RingInv, [Next]_vars
  PROVE  RingInv' /\ [Queue!Next]_(Queue!vars)
<1>1. ASSUME NEW data \in Data, AppendData(data) \/ Receive(data)
      PROVE  RingInv' /\ Queue!Next
  BY <1>1, AppendStep
<1>2. ASSUME NEW n \in 1..ring.size, ReadOut(n) \/ LookAt(n) \/ Flush(n)
      PROVE  RingInv' /\ Queue!Next
  BY <1>2, TakeStep
<1>3. CASE Clear
  BY <1>3, ClearStep
<1>4. CASE UNCHANGED vars
  BY <1>4 DEF vars, RingInv, Queue!vars, Contents, At
<1> QED
  BY <1>1, <1>2, <1>3, <1>4 DEF Next

LEMMA RingAlways == Spec => []RingInv
<1>1. Init => RingInv
  BY RingInitially
<1>2. RingInv /\ [Next]_vars => RingInv'
  BY RingStep
<1> QED
  BY <1>1, <1>2, PTL DEF Spec

-------------------------------------------------------------------------------
(* The fields of CRingBuffer keep their types: in particular no memcpy     *)
(* runs over the end of the memory, for any capacity and any sizes.        *)
THEOREM TypeCorrect == Spec => []TypeOK
<1>1. RingInv => TypeOK
  BY SoundFacts DEF RingInv, Sound, TypeOK, Cells
<1> QED
  BY <1>1, RingAlways, PTL

(* _front, _end and _size agree, whatever was written, read, received or   *)
(* sent, across wrapping and growing.                                      *)
THEOREM IndexesAgree == Spec => []IndexesMatchSize
<1>1. RingInv => IndexesMatchSize
  BY SoundFacts DEF RingInv, Matched, IndexesMatchSize
<1> QED
  BY <1>1, RingAlways, PTL

(* The ring implements the queue of bytes: no operation loses, repeats,    *)
(* invents or reorders a byte.                                             *)
THEOREM KeepsOrder == Spec => QueueSpec
<1>1. Init => Queue!Init
  BY RingInitially
<1>2. RingInv /\ [Next]_vars => [Queue!Next]_(Queue!vars)
  BY RingStep
<1> QED
  BY <1>1, <1>2, RingAlways, PTL DEF Spec, QueueSpec, Queue!Spec

-------------------------------------------------------------------------------
(* The vectors that readv and writev are given. *)

(* Where the bytes lie, by how _front and _end stand to each other. *)
Lie(c, f, e, s) ==
  IF s = 0 THEN {} ELSE IF e > f THEN f..e - 1 ELSE (f..c - 1) \union (0..e - 1)

(* The same places one by one: the i-th byte counted from _front. *)
BytePlace(c, f, i) == IF f + i - 1 < c THEN f + i - 1 ELSE f + i - 1 - c
BytePlaces(c, f, s) == {BytePlace(c, f, i): i \in 1..s}

LEMMA PlacesAll ==
  ASSUME NEW c \in Nat, NEW f \in Nat, NEW e \in Nat, NEW s \in Nat,
         f < c, e < c, Matched(c, f, e, s)
  PROVE  BytePlaces(c, f, s) = Lie(c, f, e, s)
<1>1. ASSUME NEW i \in 1..s PROVE BytePlace(c, f, i) \in Lie(c, f, e, s)
  BY <1>1 DEF Matched, Lie, BytePlace
<1>2. ASSUME NEW x \in Lie(c, f, e, s) PROVE \E i \in 1..s: x = BytePlace(c, f, i)
  <2>1. x \in Nat /\ x < c /\ s # 0
    BY <1>2 DEF Lie
  <2>2. CASE x >= f
    <3>1. x - f + 1 \in 1..s /\ x = BytePlace(c, f, x - f + 1)
      BY <1>2, <2>1, <2>2 DEF Matched, Lie, BytePlace
    <3> QED
      BY <3>1
  <2>3. CASE x < f
    <3>1. x + c - f + 1 \in 1..s /\ x = BytePlace(c, f, x + c - f + 1)
      BY <1>2, <2>1, <2>3 DEF Matched, Lie, BytePlace
    <3> QED
      BY <3>1
  <2> QED
    BY <2>1, <2>2, <2>3
<1> QED
  BY <1>1, <1>2 DEF BytePlaces

(* Readv never writes over a byte that is still to be read, nor beyond the *)
(* memory, and writev sends the bytes that are held and no others.         *)
THEOREM VectorsAlwaysFit == Spec => []VectorsFit
<1>1. RingInv => VectorsFit
  <2> SUFFICES ASSUME RingInv PROVE VectorsFit
    OBVIOUS
  <2>a. PICK c \in Nat: c = ring.cap
    BY SoundFacts DEF RingInv
  <2>b. PICK f \in Nat: f = ring.front
    BY SoundFacts DEF RingInv
  <2>c. PICK e \in Nat: e = ring.end
    BY SoundFacts DEF RingInv
  <2>d. PICK s \in Nat: s = ring.size
    BY SoundFacts DEF RingInv
  <2>1. c > 0 /\ f < c /\ e < c /\ s <= c /\ Matched(c, f, e, s)
    BY SoundFacts, <2>a, <2>b, <2>c, <2>d DEF RingInv
  <2>2. Held = Lie(c, f, e, s)
    <3>1. Held = BytePlaces(c, f, s)
      BY <2>a, <2>b, <2>d DEF Held, At, BytePlaces, BytePlace
    <3> QED
      BY <2>1, <3>1, PlacesAll
  <2> DEFINE w == WriteableVec(ring)
             v == ReadableVec(ring)
  <2>3. /\ Indexes(w) \subseteq 0..c - 1
        /\ Indexes(w) \intersect Lie(c, f, e, s) = {}
    <3>1. CASE s = c
      <4>1. Indexes(w) = {}
        BY <2>a, <2>d, <3>1 DEF WriteableVec, Indexes
      <4> QED
        BY <4>1
    <3>2. CASE s # c /\ e >= f
      <4>1. Indexes(w) = (e..e + (c - e) - 1) \union (0..0 + (IF f > 0 THEN f - 1 ELSE 0) - 1)
        BY <2>a, <2>b, <2>c, <2>d, <3>2 DEF WriteableVec, Indexes
      <4> QED
        BY <2>1, <3>2, <4>1 DEF Lie, Matched
    <3>3. CASE s # c /\ e < f
      <4>1. Indexes(w) = (e..e + (f - e) - 1) \union (0..0 + 0 - 1)
        BY <2>a, <2>b, <2>c, <2>d, <3>3 DEF WriteableVec, Indexes
      <4> QED
        BY <2>1, <3>3, <4>1 DEF Lie, Matched
    <3> QED
      BY <3>1, <3>2, <3>3
  <2>4. Indexes(v) = Lie(c, f, e, s)
    <3>1. CASE s = 0
      <4>1. Indexes(v) = {}
        BY <2>d, <3>1 DEF ReadableVec, Indexes
      <4> QED
        BY <3>1, <4>1 DEF Lie
    <3>2. CASE s # 0 /\ e > f
      <4>1. Indexes(v) = (f..f + s - 1) \union (0..0 + 0 - 1)
        BY <2>a, <2>b, <2>c, <2>d, <3>2 DEF ReadableVec, Indexes
      <4> QED
        BY <2>1, <3>2, <4>1 DEF Lie, Matched
    <3>3. CASE s # 0 /\ e <= f
      <4>1. Indexes(v) = (f..f + (c - f) - 1) \union (0..0 + (s - (c - f)) - 1)
        BY <2>a, <2>b, <2>c, <2>d, <3>3 DEF ReadableVec, Indexes
      <4>2. s - (c - f) = e
        BY <2>1, <3>3 DEF Matched
      <4> QED
        BY <2>1, <3>3, <4>1, <4>2 DEF Lie
    <3> QED
      BY <3>1, <3>2, <3>3
  <2> QED
    BY <2>a, <2>2, <2>3, <2>4 DEF VectorsFit
<1> QED
  BY <1>1, RingAlways, PTL

===============================================================================

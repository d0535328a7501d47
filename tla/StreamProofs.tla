------------------------------ MODULE StreamProofs -----------------------------
(***************************************************************************)
(* Proofs about Stream, for sockets, buffers and messages of any size and  *)
(* any number of packets: the codec, which is right for the packets one by *)
(* one (CodecProofs), is right for them in a stream that arrives in pieces. *)
(***************************************************************************)
EXTENDS Stream, CodecProofs

-------------------------------------------------------------------------------
(* Pieces of a sequence. *)

LEMMA FirstType ==
  ASSUME NEW S, NEW s \in Seq(S), NEW n \in 0..Len(s)
  PROVE  /\ SubSeq(s, 1, n) \in Seq(S) /\ Len(SubSeq(s, 1, n)) = n
         /\ \A i \in 1..n: SubSeq(s, 1, n)[i] = s[i]
<1>1. Len(s) \in Nat /\ \A i \in 1..n: s[i] \in S
  BY LenProperties, ElementOfSeq
<1> QED
  BY <1>1, SubSeqProperties

LEMMA Cut ==
  ASSUME NEW S, NEW b \in Seq(S), NEW n \in 0..Len(b)
  PROVE  /\ First(b, n) \in Seq(S) /\ Len(First(b, n)) = n
         /\ \A i \in 1..n: First(b, n)[i] = b[i]
         /\ Rest(b, n) \in Seq(S) /\ Len(Rest(b, n)) = Len(b) - n
         /\ \A i \in 1..Len(b) - n: Rest(b, n)[i] = b[n + i]
         /\ First(b, n) \o Rest(b, n) = b
<1>1. Len(b) \in Nat /\ n \in Nat /\ \A i \in n + 1..Len(b): b[i] \in S
  BY LenProperties, ElementOfSeq
<1>2. /\ First(b, n) \in Seq(S) /\ Len(First(b, n)) = n
      /\ \A i \in 1..n: First(b, n)[i] = b[i]
  BY FirstType DEF First
<1>3. /\ Rest(b, n) \in Seq(S) /\ Len(Rest(b, n)) = Len(b) - n
      /\ \A i \in 1..Len(b) - n: Rest(b, n)[i] = b[n + i]
  <2>1. n + 1 \in Int /\ Len(b) \in Int
    BY <1>1
  <2>2. /\ Rest(b, n) \in Seq(S)
        /\ Len(Rest(b, n)) = IF n + 1 <= Len(b) THEN Len(b) - (n + 1) + 1 ELSE 0
        /\ \A i \in 1..Len(b) - (n + 1) + 1: Rest(b, n)[i] = b[(n + 1) + i - 1]
    BY <1>1, <2>1, SubSeqProperties DEF Rest
  <2>3. /\ Len(b) - (n + 1) + 1 = Len(b) - n /\ (n + 1 > Len(b) => Len(b) - n = 0)
        /\ \A i \in 1..Len(b) - n: (n + 1) + i - 1 = n + i
    BY <1>1
  <2> QED
    BY <1>1, <2>2, <2>3
<1>4. First(b, n) \o Rest(b, n) = b
  <2> DEFINE f == First(b, n)
             r == Rest(b, n)
  <2> HIDE DEF f, r
  <2>1. /\ f \o r \in Seq(S) /\ Len(f \o r) = Len(f) + Len(r)
        /\ \A i \in 1..Len(f) + Len(r): (f \o r)[i] = IF i <= Len(f) THEN f[i] ELSE r[i - Len(f)]
    BY <1>2, <1>3, ConcatProperties DEF f, r
  <2>2. Len(f) = n /\ Len(r) = Len(b) - n /\ Len(f \o r) = Len(b)
    BY <1>1, <1>2, <1>3, <2>1 DEF f, r
  <2>3. ASSUME NEW i \in 1..Len(b) PROVE (f \o r)[i] = b[i]
    <3>1. CASE i <= n
      <4>1. i \in 1..n /\ i \in 1..Len(f) + Len(r) /\ i <= Len(f)
        BY <1>1, <2>2, <3>1
      <4>2. f[i] = b[i]
        BY <1>2, <4>1 DEF f
      <4> QED
        BY <2>1, <4>1, <4>2
    <3>2. CASE i > n
      <4>1. i - n \in 1..Len(b) - n /\ n + (i - n) = i
        BY <1>1, <3>2
      <4>2. r[i - n] = b[i]
        BY <1>3, <4>1 DEF r
      <4>3. i \in 1..Len(f) + Len(r) /\ ~(i <= Len(f)) /\ i - Len(f) = i - n
        BY <1>1, <2>2, <3>2
      <4> QED
        BY <2>1, <4>2, <4>3
    <3>3. i <= n \/ i > n
      BY <1>1
    <3> QED
      BY <3>1, <3>2, <3>3
  <2> QED
    BY <2>1, <2>2, <2>3, SeqEqual DEF f, r
<1> QED
  BY <1>2, <1>3, <1>4

-------------------------------------------------------------------------------
(* The input, the socket and the output, as one sequence of bytes. *)

Join(i, s, o) == i \o (s \o o)

(* Concatenation under a name of its own, whose laws are all there is to it. *)
Glue(x, y) == x \o y

LEMMA GlueLaws ==
  ASSUME NEW S
  PROVE  /\ \A x, y \in Seq(S): Glue(x, y) \in Seq(S)
         /\ \A x, y, z \in Seq(S): Glue(Glue(x, y), z) = Glue(x, Glue(y, z))
         /\ \A x \in Seq(S): Glue(<<>>, x) = x /\ Glue(x, <<>>) = x
<1>1. \A x, y \in Seq(S): x \o y \in Seq(S)
  BY ConcatProperties
<1>2. \A x, y, z \in Seq(S): (x \o y) \o z = x \o (y \o z)
  BY ConcatAssociative
<1>3. \A x \in Seq(S): <<>> \o x = x /\ x \o <<>> = x
  BY ConcatEmptySeq
<1> QED
  BY <1>1, <1>2, <1>3 DEF Glue

IsJoin(i, s, o, j) ==
  /\ Len(i) \in Nat /\ Len(s) \in Nat /\ Len(o) \in Nat
  /\ Len(j) = Len(i) + (Len(s) + Len(o))
  /\ \A k \in 1..Len(i): j[k] = i[k]
  /\ \A k \in 1..Len(s): j[Len(i) + k] = s[k]

LEMMA Joined ==
  ASSUME NEW S, NEW i \in Seq(S), NEW s \in Seq(S), NEW o \in Seq(S)
  PROVE  Join(i, s, o) \in Seq(S) /\ IsJoin(i, s, o, Join(i, s, o))
<1>1. Len(i) \in Nat /\ Len(s) \in Nat /\ Len(o) \in Nat
  BY LenProperties
<1>2. /\ s \o o \in Seq(S) /\ Len(s \o o) = Len(s) + Len(o)
      /\ \A k \in 1..Len(s) + Len(o): (s \o o)[k] = IF k <= Len(s) THEN s[k] ELSE o[k - Len(s)]
  BY ConcatProperties
<1> DEFINE r == s \o o
<1> HIDE DEF r
<1>3. /\ i \o r \in Seq(S) /\ Len(i \o r) = Len(i) + Len(r)
      /\ \A k \in 1..Len(i) + Len(r): (i \o r)[k] = IF k <= Len(i) THEN i[k] ELSE r[k - Len(i)]
  <2>1. r \in Seq(S)
    BY <1>2 DEF r
  <2> QED
    BY <2>1, ConcatProperties
<1>4. Len(r) = Len(s) + Len(o) /\ \A k \in 1..Len(s): r[k] = s[k]
  <2>1. \A k \in 1..Len(s): k \in 1..Len(s) + Len(o) /\ k <= Len(s)
    BY <1>1
  <2> QED
    BY <1>2, <2>1 DEF r
<1>5. \A k \in 1..Len(i): k \in 1..Len(i) + Len(r) /\ k <= Len(i)
  BY <1>1, <1>4
<1>6. \A k \in 1..Len(s): /\ Len(i) + k \in 1..Len(i) + Len(r) /\ ~(Len(i) + k <= Len(i))
                          /\ (Len(i) + k) - Len(i) = k
  BY <1>1, <1>4
<1> DEFINE j == i \o r
<1>7. j = Join(i, s, o)
  BY DEF r, Join
<1> HIDE DEF j
<1>8. j \in Seq(S) /\ IsJoin(i, s, o, j)
  <2>1. /\ j \in Seq(S) /\ Len(j) = Len(i) + Len(r)
        /\ \A k \in 1..Len(i) + Len(r): j[k] = IF k <= Len(i) THEN i[k] ELSE r[k - Len(i)]
    BY <1>3 DEF j
  <2> QED
    BY <1>1, <1>4, <1>5, <1>6, <2>1 DEF IsJoin
<1> QED
  BY <1>7, <1>8

(* Bytes move from the socket to the input, or from the output to the socket. *)
LEMMA Moved ==
  ASSUME NEW S, NEW i \in Seq(S), NEW s \in Seq(S), NEW o \in Seq(S)
  PROVE  /\ \A n \in 0..Len(s): Join(i \o First(s, n), Rest(s, n), o) = Join(i, s, o)
         /\ \A n \in 0..Len(o): Join(i, s \o First(o, n), Rest(o, n)) = Join(i, s, o)
<1>1. ASSUME NEW f \in Seq(S), NEW r \in Seq(S), Glue(f, r) = s
      PROVE  Glue(Glue(i, f), Glue(r, o)) = Glue(i, Glue(s, o))
  BY <1>1, GlueLaws
<1>2. ASSUME NEW f \in Seq(S), NEW r \in Seq(S), Glue(f, r) = o
      PROVE  Glue(i, Glue(Glue(s, f), r)) = Glue(i, Glue(s, o))
  BY <1>2, GlueLaws
<1>3. \A n \in 0..Len(s): First(s, n) \in Seq(S) /\ Rest(s, n) \in Seq(S) /\ Glue(First(s, n), Rest(s, n)) = s
  BY Cut DEF Glue
<1>4. \A n \in 0..Len(o): First(o, n) \in Seq(S) /\ Rest(o, n) \in Seq(S) /\ Glue(First(o, n), Rest(o, n)) = o
  BY Cut DEF Glue
<1>5. \A n \in 0..Len(s): Glue(Glue(i, First(s, n)), Glue(Rest(s, n), o)) = Glue(i, Glue(s, o))
  BY <1>1, <1>3
<1>6. \A n \in 0..Len(o): Glue(i, Glue(Glue(s, First(o, n)), Rest(o, n))) = Glue(i, Glue(s, o))
  BY <1>2, <1>4
<1> QED
  BY <1>5, <1>6 DEF Glue, Join

(* A message goes to the socket and, as far as it does not fit, behind it. *)
LEMMA Sent ==
  ASSUME NEW S, NEW i \in Seq(S), NEW s \in Seq(S), NEW d \in Seq(S), NEW n \in 0..Len(d)
  PROVE  Join(i, s \o First(d, n), <<>> \o Rest(d, n)) = Join(i, s, <<>>) \o d
<1>1. ASSUME NEW f \in Seq(S), NEW r \in Seq(S), Glue(f, r) = d
      PROVE  Glue(i, Glue(Glue(s, f), Glue(<<>>, r))) = Glue(Glue(i, Glue(s, <<>>)), d)
  BY <1>1, GlueLaws
<1>2. First(d, n) \in Seq(S) /\ Rest(d, n) \in Seq(S) /\ Glue(First(d, n), Rest(d, n)) = d
  BY Cut DEF Glue
<1> QED
  BY <1>1, <1>2 DEF Glue, Join

LEMMA RestOfConcat ==
  ASSUME NEW S, NEW f \in Seq(S), NEW u \in Seq(S)
  PROVE  Rest(f \o u, Len(f)) = u
<1> DEFINE b == f \o u
           n == Len(f)
<1>1. /\ b \in Seq(S) /\ Len(b) = n + Len(u) /\ n \in Nat /\ Len(u) \in Nat
      /\ \A i \in 1..n + Len(u): b[i] = IF i <= n THEN f[i] ELSE u[i - n]
  BY ConcatProperties, LenProperties
<1> HIDE DEF b, n
<1>2. /\ Rest(b, n) \in Seq(S) /\ Len(Rest(b, n)) = Len(b) - n
      /\ \A i \in 1..Len(b) - n: Rest(b, n)[i] = b[n + i]
  <2>1. n \in 0..Len(b)
    BY <1>1
  <2> QED
    BY <1>1, <2>1, Cut
<1>3. ASSUME NEW i \in 1..Len(u) PROVE Rest(b, n)[i] = u[i]
  <2>1. /\ i \in 1..Len(b) - n /\ n + i \in 1..n + Len(u) /\ ~(n + i <= n) /\ (n + i) - n = i
    BY <1>1
  <2> QED
    BY <1>1, <1>2, <2>1
<1>4. Len(Rest(b, n)) = Len(u)
  BY <1>1, <1>2
<1>5. Rest(b, n) = u
  BY <1>2, <1>3, <1>4, SeqEqual
<1> QED
  BY <1>5 DEF b, n

(* Blocks are taken off the input. *)
LEMMA Taken ==
  ASSUME NEW S, NEW i \in Seq(S), NEW s \in Seq(S), NEW o \in Seq(S), NEW n \in 0..Len(i)
  PROVE  Join(Rest(i, n), s, o) = Rest(Join(i, s, o), n)
<1>1. /\ First(i, n) \in Seq(S) /\ Rest(i, n) \in Seq(S) /\ First(i, n) \o Rest(i, n) = i
      /\ Len(First(i, n)) = n
  BY Cut
<1>2. PICK f \in Seq(S): f = First(i, n)
  BY <1>1
<1>3. PICK r \in Seq(S): r = Rest(i, n)
  BY <1>1
<1>4. PICK t \in Seq(S): t = s \o o
  BY ConcatProperties
<1>5. Glue(Glue(f, r), t) = Glue(f, Glue(r, t))
  BY GlueLaws
<1>6. Rest(Glue(f, Glue(r, t)), Len(f)) = Glue(r, t)
  <2>1. Glue(r, t) \in Seq(S)
    BY GlueLaws
  <2> QED
    BY <2>1, RestOfConcat DEF Glue
<1> QED
  BY <1>1, <1>2, <1>3, <1>4, <1>5, <1>6 DEF Glue, Join

-------------------------------------------------------------------------------
(* Packets, and what the receiver should see of them. *)

USE SizesAssumption, StreamAssumption

(* A packet that the application can send is decoded as it was encoded,     *)
(* whatever its numbers, strings and containers are.                        *)
THEOREM AllRoundTrip == RoundTrips
<1> SUFFICES ASSUME NEW p \in Packets
             PROVE  Encoded[p] = <<>> \/ RoundTrip(p, Encoded[p])
  BY DEF RoundTrips
<1>1. Packet(p) /\ Encoded[p] = OnSerialize(p)
  BY PacketsAssumption DEF Encoded
<1> QED
  BY <1>1, CodecRoundTrip

Items == {AsReceived(p): p \in Packets}

(* One packet more in the stream is one item more, or none. *)
Seen(items, p) == IF Heartbeat(p) THEN items ELSE Append(items, AsReceived(p))

LEMMA SeenType ==
  ASSUME NEW items \in Seq(Items), NEW p \in Packets
  PROVE  Seen(items, p) \in Seq(Items)
<1>1. AsReceived(p) \in Items
  BY DEF Items
<1> QED
  BY <1>1, AppendProperties DEF Seen

LEMMA SeenLoop ==
  ASSUME NEW s \in Seq(Packets)
  PROVE  \E f \in [0..Len(s) -> Seq(Items)]:
           f[0] = <<>> /\ \A n \in 1..Len(s): f[n] = Seen(f[n - 1], s[n])
<1> DEFINE step == [n \in 1..Len(s) |-> [items \in Seq(Items) |-> Seen(items, s[n])]]
<1>1. Len(s) \in Nat /\ <<>> \in Seq(Items) /\ \A n \in 1..Len(s): s[n] \in Packets
  BY EmptySeq, ElementOfSeq, LenProperties
<1>2. step \in [1..Len(s) -> [Seq(Items) -> Seq(Items)]]
  BY <1>1, SeenType
<1> HIDE DEF step
<1>3. PICK f \in [0..Len(s) -> Seq(Items)]:
        f[0] = <<>> /\ \A n \in 1..Len(s): f[n] = step[n][f[n - 1]]
  <2> DEFINE N == Len(s)
             S == Seq(Items)
             base == <<>>
  <2>1. IsLoop(N, S, base, step)
    BY <1>1, <1>2 DEF IsLoop
  <2> HIDE DEF N, S, base
  <2>2. PICK f: Runs(N, S, base, step, f)
    BY <2>1, LoopExists
  <2> QED
    BY <2>2 DEF N, S, base, Runs
<1>4. ASSUME NEW n \in 1..Len(s) PROVE f[n] = Seen(f[n - 1], s[n])
  <2>1. n - 1 \in 0..Len(s)
    BY <1>1
  <2> QED
    BY <1>3, <2>1 DEF step
<1> QED
  BY <1>3, <1>4

(* The recursive definition of Expected is that loop. *)
LEMMA ExpectedIsLoop ==
  ASSUME NEW s \in Seq(Packets), NEW f \in [0..Len(s) -> Seq(Items)], f[0] = <<>>,
         \A n \in 1..Len(s): f[n] = Seen(f[n - 1], s[n])
  PROVE  Expected(s) = f[Len(s)]
<1> DEFINE up == CHOOSE g: g = [n \in 0..Len(s) |->
                   IF n = 0 THEN <<>>
                   ELSE IF Heartbeat(s[n]) THEN g[n - 1]
                   ELSE Append(g[n - 1], AsReceived(s[n]))]
<1>1. f = [n \in 0..Len(s) |->
             IF n = 0 THEN <<>>
             ELSE IF Heartbeat(s[n]) THEN f[n - 1]
             ELSE Append(f[n - 1], AsReceived(s[n]))]
  <2>1. \A n \in 0..Len(s): n = 0 \/ n \in 1..Len(s)
    BY LenProperties
  <2>2. ASSUME NEW n \in 0..Len(s)
        PROVE  f[n] = IF n = 0 THEN <<>>
                      ELSE IF Heartbeat(s[n]) THEN f[n - 1]
                      ELSE Append(f[n - 1], AsReceived(s[n]))
    BY <2>1 DEF Seen
  <2>3. f = [n \in 0..Len(s) |-> f[n]]
    OBVIOUS
  <2> QED
    BY <2>2, <2>3
<1>2. up = [n \in 0..Len(s) |->
              IF n = 0 THEN <<>>
              ELSE IF Heartbeat(s[n]) THEN up[n - 1]
              ELSE Append(up[n - 1], AsReceived(s[n]))]
  BY <1>1
<1>3. Expected(s) = up[Len(s)]
  BY DEF Expected
<1> HIDE DEF up
<1>4. \A n \in Nat: n \in {m \in Nat: m <= Len(s) => up[m] = f[m]}
  <2> DEFINE T == {m \in Nat: m <= Len(s) => up[m] = f[m]}
  <2>1. 0 \in T
    BY <1>2, LenProperties
  <2>2. ASSUME NEW n \in Nat, n \in T PROVE n + 1 \in T
    <3> SUFFICES ASSUME n + 1 <= Len(s) PROVE up[n + 1] = f[n + 1]
      OBVIOUS
    <3>1. /\ Len(s) \in Nat /\ n + 1 \in 1..Len(s) /\ n + 1 \in 0..Len(s)
          /\ n + 1 # 0 /\ (n + 1) - 1 = n
      BY LenProperties
    <3>2. up[n] = f[n]
      BY <2>2, <3>1
    <3>3. up[n + 1] = Seen(up[n], s[n + 1])
      BY <1>2, <3>1 DEF Seen
    <3>4. f[n + 1] = Seen(f[n], s[n + 1])
      BY <3>1
    <3> QED
      BY <3>2, <3>3, <3>4
  <2> HIDE DEF T
  <2> QED
    BY <2>1, <2>2, SetInduction DEF T
<1> QED
  BY <1>3, <1>4, LenProperties

LEMMA ExpectedStep ==
  ASSUME NEW s \in Seq(Packets)
  PROVE  /\ Expected(SubSeq(s, 1, 0)) = <<>>
         /\ \A n \in 0..Len(s): Expected(SubSeq(s, 1, n)) \in Seq(Items)
         /\ \A n \in 1..Len(s):
              Expected(SubSeq(s, 1, n)) = Seen(Expected(SubSeq(s, 1, n - 1)), s[n])
<1>1. PICK f \in [0..Len(s) -> Seq(Items)]:
        f[0] = <<>> /\ \A n \in 1..Len(s): f[n] = Seen(f[n - 1], s[n])
  BY SeenLoop
<1>2. ASSUME NEW n \in 0..Len(s) PROVE Expected(SubSeq(s, 1, n)) = f[n]
  <2> DEFINE t == SubSeq(s, 1, n)
             g == [i \in 0..n |-> f[i]]
  <2>1. t \in Seq(Packets) /\ Len(t) = n /\ \A i \in 1..n: t[i] = s[i]
    BY FirstType
  <2>2. Len(s) \in Nat /\ n \in Nat /\ 0..n \subseteq 0..Len(s) /\ 1..n \subseteq 1..Len(s)
    BY LenProperties
  <2>3. g \in [0..n -> Seq(Items)] /\ g[0] = <<>>
    <3>1. 0 \in 0..n
      BY <2>2
    <3>2. ASSUME NEW i \in 0..n PROVE f[i] \in Seq(Items)
      <4>1. i \in 0..Len(s)
        BY <2>2
      <4> QED
        BY <4>1
    <3> QED
      BY <1>1, <3>1, <3>2
  <2>4. \A i \in 1..n: g[i] = Seen(g[i - 1], t[i])
    BY <1>1, <2>1, <2>2
  <2>5. g[n] = f[n]
    BY <2>2
  <2> HIDE DEF t, g
  <2>6. Expected(t) = g[n]
    BY <2>1, <2>3, <2>4, ExpectedIsLoop
  <2> QED
    BY <2>5, <2>6 DEF t
<1>3. Len(s) \in Nat /\ 0 \in 0..Len(s) /\ \A n \in 1..Len(s): n \in 0..Len(s) /\ n - 1 \in 0..Len(s)
  BY LenProperties
<1> QED
  BY <1>1, <1>2, <1>3

LEMMA ExpectedAppend ==
  ASSUME NEW s \in Seq(Packets), NEW p \in Packets
  PROVE  Expected(s) \in Seq(Items) /\ Expected(Append(s, p)) = Seen(Expected(s), p)
<1> DEFINE t == Append(s, p)
           N == Len(s)
<1>1. /\ t \in Seq(Packets) /\ Len(t) = N + 1 /\ t[N + 1] = p /\ N \in Nat
      /\ \A i \in 1..N: t[i] = s[i]
  BY AppendProperties, LenProperties
<1>2. SubSeq(t, 1, N + 1) = t /\ SubSeq(s, 1, N) = s
  BY <1>1, SubSeqFull
<1> HIDE DEF t
<1>3. SubSeq(t, 1, N) = s
  <2>1. /\ SubSeq(t, 1, N) \in Seq(Packets) /\ Len(SubSeq(t, 1, N)) = N
        /\ \A i \in 1..N: SubSeq(t, 1, N)[i] = t[i]
    <3>1. N \in 0..Len(t)
      BY <1>1
    <3> QED
      BY <1>1, <3>1, FirstType
  <2> QED
    BY <1>1, <2>1, SeqEqual
<1>4. N \in 0..Len(s) /\ N + 1 \in 1..Len(t) /\ (N + 1) - 1 = N
  BY <1>1
<1>5. Expected(SubSeq(s, 1, N)) \in Seq(Items)
  BY <1>4, ExpectedStep
<1>6. Expected(SubSeq(t, 1, N + 1)) = Seen(Expected(SubSeq(t, 1, N)), t[N + 1])
  BY <1>1, <1>4, ExpectedStep
<1> QED
  BY <1>1, <1>2, <1>3, <1>5, <1>6 DEF t

(* What was expected of fewer packets is still expected of more. *)
LEMMA ExpectedGrows ==
  ASSUME NEW s \in Seq(Packets), NEW a \in 0..Len(s)
  PROVE  /\ Len(Expected(SubSeq(s, 1, a))) <= Len(Expected(s))
         /\ \A i \in 1..Len(Expected(SubSeq(s, 1, a))):
              Expected(s)[i] = Expected(SubSeq(s, 1, a))[i]
<1> DEFINE E(n) == Expected(SubSeq(s, 1, n))
           Extends(n) == Len(E(a)) <= Len(E(n)) /\ \A i \in 1..Len(E(a)): E(n)[i] = E(a)[i]
           T == {n \in Nat: a <= n /\ n <= Len(s) => Extends(n)}
<1>1. /\ Len(s) \in Nat /\ a \in Nat /\ \A n \in 0..Len(s): E(n) \in Seq(Items)
      /\ \A n \in 0..Len(s): Len(E(n)) \in Nat
      /\ E(Len(s)) = Expected(s)
  <2>1. Len(s) \in Nat /\ a \in Nat /\ E(Len(s)) = Expected(s)
    <3>1. SubSeq(s, 1, Len(s)) = s
      BY SubSeqFull
    <3>2. E(Len(s)) = Expected(s)
      BY <3>1
    <3> QED
      BY <3>2, LenProperties
  <2>2. \A n \in 0..Len(s): E(n) \in Seq(Items)
    BY ExpectedStep
  <2> HIDE DEF E
  <2> QED
    BY <2>1, <2>2, LenProperties
<1>2. ASSUME NEW n \in 0..Len(s) - 1
      PROVE  /\ Len(E(n)) <= Len(E(n + 1))
             /\ \A i \in 1..Len(E(n)): E(n + 1)[i] = E(n)[i]
  <2>1. n + 1 \in 1..Len(s) /\ n \in 0..Len(s) /\ (n + 1) - 1 = n
    BY <1>1
  <2>2. E(n + 1) = Seen(E(n), s[n + 1])
    BY <2>1, ExpectedStep
  <2>3. s[n + 1] \in Packets
    BY <2>1, ElementOfSeq
  <2>4. AsReceived(s[n + 1]) \in Items
    BY <2>3 DEF Items
  <2>5. E(n) \in Seq(Items)
    BY <1>1, <2>1
  <2> HIDE DEF E
  <2>6. CASE Heartbeat(s[n + 1])
    BY <1>1, <2>1, <2>2, <2>6 DEF Seen
  <2>7. CASE ~Heartbeat(s[n + 1])
    <3>1. E(n + 1) = Append(E(n), AsReceived(s[n + 1]))
      BY <2>2, <2>7 DEF Seen
    <3>2. /\ Len(E(n + 1)) = Len(E(n)) + 1 /\ Len(E(n)) \in Nat
          /\ \A i \in 1..Len(E(n)): E(n + 1)[i] = E(n)[i]
      <4>1. PICK e \in Seq(Items): e = E(n)
        BY <2>5
      <4>2. PICK item \in Items: item = AsReceived(s[n + 1])
        BY <2>4
      <4>3. /\ Len(Append(e, item)) = Len(e) + 1 /\ Len(e) \in Nat
            /\ \A i \in 1..Len(e): Append(e, item)[i] = e[i]
        BY AppendProperties, LenProperties
      <4> QED
        BY <3>1, <4>1, <4>2, <4>3
    <3> QED
      BY <3>2
  <2> QED
    BY <2>6, <2>7
<1> HIDE DEF E
<1>3. 0 \in T
  BY <1>1
<1>4. ASSUME NEW n \in Nat, n \in T PROVE n + 1 \in T
  <2> SUFFICES ASSUME a <= n + 1, n + 1 <= Len(s) PROVE Extends(n + 1)
    OBVIOUS
  <2>1. CASE a = n + 1
    BY <1>1, <2>1
  <2>2. CASE a # n + 1
    <3>1. n \in 0..Len(s) - 1 /\ n \in 0..Len(s) /\ n + 1 \in 0..Len(s) /\ a <= n /\ n <= Len(s)
      BY <1>1, <2>2
    <3>2. Extends(n)
      BY <1>4, <3>1
    <3>3. Len(E(n)) <= Len(E(n + 1)) /\ \A i \in 1..Len(E(n)): E(n + 1)[i] = E(n)[i]
      BY <1>2, <3>1
    <3>4. Len(E(n)) \in Nat /\ Len(E(n + 1)) \in Nat /\ Len(E(a)) \in Nat
      BY <1>1, <3>1
    <3> QED
      BY <3>2, <3>3, <3>4
  <2> QED
    BY <2>1, <2>2
<1> HIDE DEF T
<1>5. Len(s) \in T
  BY <1>1, <1>3, <1>4, SetInduction
<1> QED
  BY <1>1, <1>5 DEF T, E

-------------------------------------------------------------------------------
(* Bytes that carry packets.  The first c packets are taken; pos says where *)
(* the bytes of each of the others begin (of packets[i + 1] behind pos[i]), *)
(* and the last may be there in part or not at all.                         *)

Offsets(packets, c, pos) ==
  /\ c \in 0..Len(packets) /\ pos \in [c..Len(packets) -> Nat] /\ pos[c] = 0
  /\ \A i \in c..Len(packets) - 1: pos[i + 1] = pos[i] + Len(Encoded[packets[i + 1]])
  /\ \A i, j \in c..Len(packets): i <= j => pos[i] <= pos[j]

Filled(packets, c, pos, bytes) ==
  \A i \in c..Len(packets) - 1: \A j \in 1..Len(Encoded[packets[i + 1]]):
    pos[i] + j <= Len(bytes) => bytes[pos[i] + j] = Encoded[packets[i + 1]][j]

Carries(packets, c, pos, bytes) ==
  /\ Offsets(packets, c, pos) /\ Filled(packets, c, pos, bytes)
  /\ Len(bytes) <= pos[Len(packets)]

(* The packets that are sent have bytes, which are those of their codec.   *)
Sendable(packets) ==
  /\ packets \in Seq(Packets)
  /\ \A i \in 1..Len(packets): RoundTrip(packets[i], Encoded[packets[i]])

LEMMA EncodedType ==
  ASSUME NEW packets, Sendable(packets), NEW i \in 1..Len(packets)
  PROVE  /\ Encoded[packets[i]] \in Seq(Bytes)
         /\ Len(Encoded[packets[i]]) \in Nat \ {0}
         /\ Len(Encoded[packets[i]]) >= BlockSize /\ BlockSize \in Nat /\ BlockSize >= 2
<1>1. RoundTrip(packets[i], Encoded[packets[i]])
  BY DEF Sendable
<1>2. BlockSize \in Nat /\ BlockSize >= 2
  BY DEF BlockSize, HeaderSize
<1>3. Encoded[packets[i]] \in Seq(Bytes) /\ Len(Encoded[packets[i]]) >= BlockSize
  BY <1>1 DEF RoundTrip, Bytes
<1>4. Len(Encoded[packets[i]]) \in Nat
  BY <1>3, LenProperties
<1> QED
  BY <1>2, <1>3, <1>4

(* Fewer bytes: the end of the stream was dropped. *)
LEMMA CarriesLess ==
  ASSUME NEW packets, NEW c, NEW pos, NEW b \in Seq(Bytes), NEW d \in Seq(Bytes),
         Carries(packets, c, pos, b), Sendable(packets),
         Len(d) <= Len(b), \A i \in 1..Len(d): d[i] = b[i]
  PROVE  Carries(packets, c, pos, d)
<1>1. Len(b) \in Nat /\ Len(d) \in Nat /\ Len(packets) \in Nat
  BY LenProperties DEF Sendable
<1>2. Offsets(packets, c, pos) /\ Filled(packets, c, pos, b) /\ Len(b) <= pos[Len(packets)]
  BY DEF Carries
<1>3. c \in Nat /\ c <= Len(packets) /\ pos[Len(packets)] \in Nat
  BY <1>1, <1>2 DEF Offsets
<1>4. ASSUME NEW i \in c..Len(packets) - 1, NEW j \in 1..Len(Encoded[packets[i + 1]]),
             pos[i] + j <= Len(d)
      PROVE  d[pos[i] + j] = Encoded[packets[i + 1]][j]
  <2>1. i + 1 \in 1..Len(packets) /\ i \in c..Len(packets)
    BY <1>1, <1>3
  <2>2. Len(Encoded[packets[i + 1]]) \in Nat /\ pos[i] \in Nat
    BY <1>2, <2>1, EncodedType DEF Offsets
  <2>3. pos[i] + j \in 1..Len(d) /\ pos[i] + j <= Len(b)
    BY <1>1, <1>4, <2>2
  <2>4. b[pos[i] + j] = Encoded[packets[i + 1]][j]
    BY <1>2, <2>3 DEF Filled
  <2> QED
    BY <2>3, <2>4
<1>5. Len(d) <= pos[Len(packets)]
  BY <1>1, <1>2, <1>3
<1> QED
  BY <1>2, <1>4, <1>5 DEF Carries, Filled

(* tcpSend puts a packet behind the others. *)
LEMMA CarriesMore ==
  ASSUME NEW packets, NEW c, NEW pos, NEW b \in Seq(Bytes), NEW p \in Packets,
         Carries(packets, c, pos, b), Sendable(packets),
         Len(b) = pos[Len(packets)], RoundTrip(p, Encoded[p])
  PROVE  /\ Sendable(Append(packets, p))
         /\ \E pos2: /\ Carries(Append(packets, p), c, pos2, b \o Encoded[p])
                     /\ Len(b \o Encoded[p]) = pos2[Len(packets) + 1]
<1> DEFINE more == Append(packets, p)
           N == Len(packets)
           e == Encoded[p]
           L == Len(e)
           pos2 == [i \in c..N + 1 |-> IF i = N + 1 THEN pos[N] + L ELSE pos[i]]
           d == b \o e
<1>1. /\ more \in Seq(Packets) /\ Len(more) = N + 1 /\ more[N + 1] = p /\ N \in Nat
      /\ \A i \in 1..N: more[i] = packets[i]
  BY AppendProperties, LenProperties DEF Sendable
<1>2. /\ c \in Nat /\ c <= N /\ pos \in [c..N -> Nat] /\ pos[c] = 0
      /\ \A i \in c..N - 1: pos[i + 1] = pos[i] + Len(Encoded[packets[i + 1]])
      /\ \A i, j \in c..N: i <= j => pos[i] <= pos[j]
  BY <1>1 DEF Carries, Offsets
<1>3. e \in Seq(Bytes) /\ L \in Nat
  BY LenProperties DEF RoundTrip, Bytes
<1>4. /\ d \in Seq(Bytes) /\ Len(b) \in Nat /\ Len(d) = Len(b) + L
      /\ \A i \in 1..Len(b): d[i] = b[i]
      /\ \A i \in 1..L: d[Len(b) + i] = e[i]
  <2>1. /\ d \in Seq(Bytes) /\ Len(b) \in Nat /\ Len(d) = Len(b) + L
        /\ \A i \in 1..Len(b) + L: d[i] = IF i <= Len(b) THEN b[i] ELSE e[i - Len(b)]
    BY <1>3, ConcatProperties, LenProperties
  <2>2. \A i \in 1..L: Len(b) + i \in 1..Len(b) + L /\ ~(Len(b) + i <= Len(b)) /\ (Len(b) + i) - Len(b) = i
    BY <1>3, <2>1
  <2> HIDE DEF d
  <2>3. ASSUME NEW i \in 1..Len(b) PROVE d[i] = b[i]
    <3>1. i \in 1..Len(b) + L /\ i <= Len(b)
      BY <1>3, <2>1
    <3> QED
      BY <2>1, <3>1
  <2>4. ASSUME NEW i \in 1..L PROVE d[Len(b) + i] = e[i]
    <3>1. PICK k: k = Len(b) + i
      OBVIOUS
    <3>2. k \in 1..Len(b) + L /\ ~(k <= Len(b)) /\ k - Len(b) = i
      BY <2>2, <3>1
    <3>3. d[k] = e[k - Len(b)]
      BY <2>1, <3>2
    <3> QED
      BY <3>1, <3>2, <3>3
  <2> QED
    BY <2>1, <2>3, <2>4
<1>5. Sendable(more)
  <2>1. ASSUME NEW i \in 1..N + 1 PROVE RoundTrip(more[i], Encoded[more[i]])
    <3>1. CASE i = N + 1
      BY <1>1, <3>1
    <3>2. CASE i # N + 1
      <4>1. i \in 1..N
        BY <1>1, <3>2
      <4> QED
        BY <1>1, <4>1 DEF Sendable
    <3> QED
      BY <3>1, <3>2
  <2> QED
    BY <1>1, <2>1 DEF Sendable
<1>6. /\ pos2 \in [c..N + 1 -> Nat] /\ pos2[c] = 0 /\ pos2[N + 1] = pos[N] + L
      /\ \A i \in c..N: pos2[i] = pos[i]
  BY <1>1, <1>2, <1>3
<1> HIDE DEF more, pos2, d, e
<1>7. Offsets(more, c, pos2)
  <2>1. ASSUME NEW i \in c..N PROVE pos2[i + 1] = pos2[i] + Len(Encoded[more[i + 1]])
    <3>1. CASE i = N
      BY <1>1, <1>2, <1>6, <3>1 DEF e
    <3>2. CASE i # N
      <4>1. i \in c..N - 1 /\ i + 1 \in c..N /\ i + 1 \in 1..N
        BY <1>1, <1>2, <3>2
      <4> QED
        BY <1>1, <1>2, <1>6, <4>1
    <3> QED
      BY <3>1, <3>2
  <2>2. ASSUME NEW i \in c..N + 1, NEW j \in c..N + 1, i <= j PROVE pos2[i] <= pos2[j]
    <3>1. CASE j = N + 1
      <4>1. CASE i = N + 1
        BY <1>2, <1>6, <3>1, <4>1
      <4>2. CASE i # N + 1
        <5>1. i \in c..N /\ N \in c..N /\ i <= N
          BY <1>1, <1>2, <4>2
        <5>2. pos[i] <= pos[N] /\ pos[i] \in Nat /\ pos[N] \in Nat
          BY <1>2, <5>1
        <5> QED
          BY <1>3, <1>6, <3>1, <5>1, <5>2
      <4> QED
        BY <4>1, <4>2
    <3>2. CASE j # N + 1
      <4>1. i \in c..N /\ j \in c..N
        BY <1>1, <1>2, <2>2, <3>2
      <4> QED
        BY <1>2, <1>6, <2>2, <4>1
    <3> QED
      BY <3>1, <3>2
  <2>3. (N + 1) - 1 = N /\ c \in 0..N + 1
    BY <1>1, <1>2
  <2> QED
    BY <1>1, <1>6, <2>1, <2>2, <2>3 DEF Offsets
<1>8. Filled(more, c, pos2, d)
  <2>1. ASSUME NEW i \in c..N, NEW j \in 1..Len(Encoded[more[i + 1]]), pos2[i] + j <= Len(d)
        PROVE  d[pos2[i] + j] = Encoded[more[i + 1]][j]
    <3>1. CASE i = N
      <4>1. Encoded[more[i + 1]] = e /\ pos2[i] = Len(b)
        BY <1>1, <1>2, <1>6, <3>1 DEF e
      <4> QED
        BY <1>4, <2>1, <4>1
    <3>2. CASE i # N
      <4>1. /\ i \in c..N - 1 /\ i \in c..N /\ i + 1 \in c..N /\ i + 1 \in 1..N
            /\ N \in c..N /\ i + 1 <= N
        BY <1>1, <1>2, <3>2
      <4>2. more[i + 1] = packets[i + 1] /\ pos2[i] = pos[i]
        BY <1>1, <1>6, <4>1
      <4>3. Len(Encoded[packets[i + 1]]) \in Nat /\ pos[i] \in Nat /\ pos[i + 1] \in Nat
        BY <1>2, <4>1, EncodedType
      <4>4. pos[i + 1] = pos[i] + Len(Encoded[packets[i + 1]]) /\ pos[i + 1] <= pos[N]
        BY <1>2, <4>1
      <4>5. pos[i] + j \in 1..Len(b)
        <5>1. j \in 1..Len(Encoded[packets[i + 1]])
          BY <4>2
        <5>2. pos[N] \in Nat /\ pos[N] = Len(b)
          BY <1>4
        <5>3. PICK l \in Nat: l = Len(Encoded[packets[i + 1]])
          BY <4>3
        <5>4. PICK a \in Nat: a = pos[i]
          BY <4>3
        <5>5. PICK held \in Nat: held = Len(b)
          BY <5>2
        <5>6. j \in 1..l /\ a + l <= held
          BY <4>4, <5>1, <5>2, <5>3, <5>4, <5>5
        <5>7. a + j \in 1..held
          BY <5>6
        <5> QED
          BY <5>4, <5>5, <5>7
      <4>6. b[pos[i] + j] = Encoded[packets[i + 1]][j]
        BY <2>1, <4>1, <4>2, <4>5 DEF Carries, Filled
      <4> QED
        BY <1>4, <4>2, <4>5, <4>6
    <3> QED
      BY <3>1, <3>2
  <2>2. (N + 1) - 1 = N
    BY <1>1
  <2> QED
    BY <1>1, <2>1, <2>2 DEF Filled
<1>9. Len(d) = pos2[N + 1] /\ Len(d) \in Nat
  BY <1>3, <1>4, <1>6
<1>10. Carries(more, c, pos2, d)
  BY <1>1, <1>7, <1>8, <1>9 DEF Carries
<1> QED
  BY <1>5, <1>9, <1>10 DEF more, d, e

(* What the loop of onUnserialize finds at the head of its input.           *)
LEMMA FirstBlock ==
  ASSUME NEW packets, NEW c, NEW pos, NEW d \in Seq(Bytes),
         Carries(packets, c, pos, d), Sendable(packets), Len(d) >= BlockSize
  PROVE  /\ c + 1 \in 1..Len(packets)
         /\ BlockLength(d) = Len(Encoded[packets[c + 1]])
         /\ Head(d) = Head(Encoded[packets[c + 1]])
         /\ Len(Encoded[packets[c + 1]]) <= Len(d) =>
              First(d, Len(Encoded[packets[c + 1]])) = Encoded[packets[c + 1]]
<1> DEFINE N == Len(packets)
           e == Encoded[packets[c + 1]]
           L == Len(e)
<1>1. N \in Nat /\ Len(d) \in Nat /\ BlockSize \in Nat /\ BlockSize >= 2
  BY LenProperties DEF Sendable, BlockSize, HeaderSize
<1>2. c \in 0..N /\ pos \in [c..N -> Nat] /\ pos[c] = 0 /\ Len(d) <= pos[N]
  BY DEF Carries, Offsets
<1>3. c # N
  BY <1>1, <1>2
<1>4. c + 1 \in 1..N /\ c \in c..N - 1 /\ c \in c..N
  BY <1>1, <1>2, <1>3
<1>5. e \in Seq(Bytes) /\ L \in Nat \ {0} /\ L >= BlockSize
  BY <1>4, EncodedType
<1>6. RoundTrip(packets[c + 1], e)
  BY <1>4 DEF Sendable
<1>7. ASSUME NEW j \in 1..L, j <= Len(d) PROVE d[j] = e[j]
  <2>1. pos[c] + j = j
    BY <1>2
  <2>2. pos[c] + j <= Len(d) => d[pos[c] + j] = e[j]
    BY <1>4 DEF Carries, Filled
  <2> QED
    BY <1>7, <2>1, <2>2
<1> HIDE DEF e
<1>8. SubSeq(d, 2, BlockSize) = SubSeq(e, 2, BlockSize)
  <2>1. \A i \in 2..BlockSize: d[i] \in Bytes /\ e[i] \in Bytes /\ d[i] = e[i]
    <3> SUFFICES ASSUME NEW i \in 2..BlockSize PROVE d[i] \in Bytes /\ e[i] \in Bytes /\ d[i] = e[i]
      OBVIOUS
    <3>1. i \in 1..Len(d) /\ i \in 1..L /\ i <= Len(d)
      BY <1>1, <1>5
    <3> QED
      BY <1>5, <1>7, <3>1, ElementOfSeq
  <2>2. 2 \in Int /\ BlockSize \in Int /\ 2 <= BlockSize
    BY <1>1
  <2>3. /\ SubSeq(d, 2, BlockSize) \in Seq(Bytes) /\ Len(SubSeq(d, 2, BlockSize)) = BlockSize - 2 + 1
        /\ \A i \in 1..BlockSize - 2 + 1: SubSeq(d, 2, BlockSize)[i] = d[2 + i - 1]
    BY <2>1, <2>2, SubSeqProperties
  <2>4. /\ SubSeq(e, 2, BlockSize) \in Seq(Bytes) /\ Len(SubSeq(e, 2, BlockSize)) = BlockSize - 2 + 1
        /\ \A i \in 1..BlockSize - 2 + 1: SubSeq(e, 2, BlockSize)[i] = e[2 + i - 1]
    BY <2>1, <2>2, SubSeqProperties
  <2>5. \A i \in 1..BlockSize - 2 + 1: 2 + i - 1 \in 2..BlockSize
    BY <1>1
  <2>6. \A i \in 1..BlockSize - 2 + 1: SubSeq(d, 2, BlockSize)[i] = SubSeq(e, 2, BlockSize)[i]
    BY <2>1, <2>3, <2>4, <2>5
  <2> QED
    BY <2>3, <2>4, <2>6, SeqEqual
<1>9. BlockLength(d) = L
  <2>1. BlockLength(e) = L
    BY <1>6 DEF RoundTrip
  <2> QED
    BY <1>8, <2>1 DEF BlockLength
<1>10. Head(d) = Head(e)
  <2>1. d # <<>> /\ e # <<>>
    BY <1>1, <1>5, EmptySeq
  <2>2. Head(d) = d[1] /\ Head(e) = e[1]
    BY <1>5, <2>1
  <2> QED
    BY <1>1, <1>5, <1>7, <2>2
<1>11. ASSUME L <= Len(d) PROVE First(d, L) = e
  <2>1. L \in 0..Len(d)
    BY <1>1, <1>5, <1>11
  <2>2. First(d, L) \in Seq(Bytes) /\ Len(First(d, L)) = L /\ \A i \in 1..L: First(d, L)[i] = d[i]
    BY <2>1, Cut
  <2>3. \A i \in 1..L: First(d, L)[i] = e[i]
    BY <1>1, <1>5, <1>7, <1>11, <2>2
  <2> QED
    BY <1>5, <2>2, <2>3, SeqEqual
<1> QED
  BY <1>4, <1>9, <1>10, <1>11 DEF e

(* The loop takes the first packet. *)
LEMMA CarriesRest ==
  ASSUME NEW packets, NEW c, NEW pos, NEW b \in Seq(Bytes),
         Carries(packets, c, pos, b), Sendable(packets), c + 1 \in 1..Len(packets),
         Len(Encoded[packets[c + 1]]) <= Len(b)
  PROVE  \E pos2: /\ Carries(packets, c + 1, pos2, Rest(b, Len(Encoded[packets[c + 1]])))
                  /\ Len(b) = pos[Len(packets)] =>
                       Len(Rest(b, Len(Encoded[packets[c + 1]]))) = pos2[Len(packets)]
<1> DEFINE N == Len(packets)
           L == Len(Encoded[packets[c + 1]])
           pos2 == [i \in c + 1..N |-> pos[i] - L]
           d == Rest(b, L)
<1>1. N \in Nat /\ Len(b) \in Nat /\ L \in Nat \ {0}
  BY LenProperties, EncodedType DEF Sendable
<1>2. /\ c \in Nat /\ c + 1 <= N /\ pos \in [c..N -> Nat] /\ pos[c] = 0 /\ Len(b) <= pos[N]
      /\ \A i \in c..N - 1: pos[i + 1] = pos[i] + Len(Encoded[packets[i + 1]])
      /\ \A i, j \in c..N: i <= j => pos[i] <= pos[j]
  BY <1>1 DEF Carries, Offsets
<1>3. pos[c + 1] = L
  BY <1>1, <1>2
<1>4. ASSUME NEW i \in c + 1..N PROVE pos[i] \in Nat /\ L <= pos[i] /\ i \in c..N
  <2>1. i \in c..N /\ c + 1 \in c..N /\ c + 1 <= i
    BY <1>1, <1>2
  <2>2. pos[c + 1] <= pos[i] /\ pos[i] \in Nat
    BY <1>2, <2>1
  <2> QED
    BY <1>3, <2>1, <2>2
<1>5. L \in 0..Len(b)
  BY <1>1
<1> HIDE DEF L
<1>6. d \in Seq(Bytes) /\ Len(d) = Len(b) - L /\ \A i \in 1..Len(b) - L: d[i] = b[L + i]
  BY <1>5, Cut
<1>7. /\ pos2 \in [c + 1..N -> Nat] /\ pos2[c + 1] = 0
      /\ \A i \in c + 1..N: pos2[i] = pos[i] - L
  BY <1>1, <1>2, <1>3, <1>4
<1> HIDE DEF pos2, d
<1>8. Offsets(packets, c + 1, pos2)
  <2>1. ASSUME NEW i \in c + 1..N - 1
        PROVE  pos2[i + 1] = pos2[i] + Len(Encoded[packets[i + 1]])
    <3>1. i \in c..N - 1 /\ i \in c + 1..N /\ i + 1 \in c + 1..N /\ i + 1 \in 1..N
      BY <1>1, <1>2
    <3>2. Len(Encoded[packets[i + 1]]) \in Nat
      BY <3>1, EncodedType
    <3>3. pos[i + 1] = pos[i] + Len(Encoded[packets[i + 1]]) /\ pos[i] \in Nat
      BY <1>2, <1>4, <3>1
    <3>4. pos2[i + 1] = pos[i + 1] - L /\ pos2[i] = pos[i] - L
      BY <1>7, <3>1
    <3> QED
      BY <1>1, <3>2, <3>3, <3>4
  <2>2. ASSUME NEW i \in c + 1..N, NEW j \in c + 1..N, i <= j PROVE pos2[i] <= pos2[j]
    BY <1>1, <1>2, <1>4, <1>7, <2>2
  <2>3. c + 1 \in 0..N
    BY <1>2
  <2> QED
    BY <1>7, <2>1, <2>2, <2>3 DEF Offsets
<1>9. Filled(packets, c + 1, pos2, d)
  <2>1. ASSUME NEW i \in c + 1..N - 1, NEW j \in 1..Len(Encoded[packets[i + 1]]),
               pos2[i] + j <= Len(d)
        PROVE  d[pos2[i] + j] = Encoded[packets[i + 1]][j]
    <3>1. i \in c..N - 1 /\ i \in c + 1..N /\ i + 1 \in 1..N
      BY <1>1, <1>2
    <3>2. pos[i] \in Nat /\ L <= pos[i] /\ pos2[i] = pos[i] - L /\ j \in Nat /\ j >= 1
      BY <1>4, <1>7, <3>1, EncodedType
    <3>3. pos[i] + j <= Len(b) /\ pos2[i] + j \in 1..Len(b) - L /\ L + (pos2[i] + j) = pos[i] + j
      <4>1. pos2[i] + j <= Len(b) - L
        BY <1>6, <2>1
      <4> QED
        BY <1>1, <3>2, <4>1
    <3>4. d[pos2[i] + j] = b[pos[i] + j]
      BY <1>6, <3>3
    <3>5. b[pos[i] + j] = Encoded[packets[i + 1]][j]
      BY <3>1, <3>3 DEF Carries, Filled
    <3> QED
      BY <3>4, <3>5
  <2> QED
    BY <2>1 DEF Filled
<1>10. Len(d) <= pos2[N] /\ (Len(b) = pos[N] => Len(d) = pos2[N])
  <2>1. N \in c + 1..N
    BY <1>1, <1>2
  <2> QED
    BY <1>1, <1>2, <1>4, <1>6, <1>7, <2>1
<1>11. Carries(packets, c + 1, pos2, d)
  BY <1>8, <1>9, <1>10 DEF Carries
<1> QED
  BY <1>10, <1>11 DEF d, L

(* While there are packets to come, all their bytes make a block. *)
LEMMA BlockComes ==
  ASSUME NEW packets, NEW c, NEW pos, NEW d \in Seq(Bytes),
         Carries(packets, c, pos, d), Sendable(packets),
         Len(d) = pos[Len(packets)], ~HasBlock(d)
  PROVE  c = Len(packets)
<1> SUFFICES ASSUME c # Len(packets) PROVE FALSE
  OBVIOUS
<1>1. Len(packets) \in Nat /\ c \in 0..Len(packets) /\ Len(d) \in Nat
  BY LenProperties DEF Sendable, Carries, Offsets
<1>2. c + 1 \in 1..Len(packets) /\ c \in c..Len(packets) - 1 /\ c + 1 \in c..Len(packets)
      /\ Len(packets) \in c..Len(packets) /\ c + 1 <= Len(packets)
  BY <1>1
<1> DEFINE L == Len(Encoded[packets[c + 1]])
<1>3. L \in Nat \ {0} /\ L >= BlockSize /\ BlockSize \in Nat
  BY <1>2, EncodedType
<1>4. pos[c] = 0 /\ pos[c + 1] = pos[c] + L /\ pos[c + 1] <= pos[Len(packets)]
  BY <1>2 DEF Carries, Offsets
<1>5. L <= Len(d) /\ BlockSize <= Len(d)
  BY <1>1, <1>3, <1>4
<1>6. BlockLength(d) = L
  BY <1>5, FirstBlock
<1> QED
  BY <1>5, <1>6 DEF HasBlock

-------------------------------------------------------------------------------
(* What a block announces is a number, whatever the bytes. *)

LEMMA DecodeType ==
  ASSUME NEW b \in Seq(Bytes)
  PROVE  Decode(b) \in Nat
<1> DEFINE N == Len(b)
           step == [n \in 1..N |-> [v \in Nat |-> v * Base + b[n]]]
           up == CHOOSE g: g = [i \in 0..N |-> IF i = 0 THEN 0 ELSE g[i - 1] * Base + b[i]]
<1>1. N \in Nat /\ \A n \in 1..N: b[n] \in Nat
  BY LenProperties, ElementOfSeq DEF Bytes
<1>2. IsLoop(N, Nat, 0, step)
  BY <1>1 DEF IsLoop
<1>3. PICK f: Runs(N, Nat, 0, step, f)
  BY <1>2, LoopExists
<1>4. f \in [0..N -> Nat] /\ f[0] = 0 /\ \A n \in 1..N: f[n] = f[n - 1] * Base + b[n]
  <2>1. f \in [0..N -> Nat] /\ f[0] = 0 /\ \A n \in 1..N: f[n] = step[n][f[n - 1]]
    BY <1>3 DEF Runs
  <2>2. ASSUME NEW n \in 1..N PROVE step[n][f[n - 1]] = f[n - 1] * Base + b[n]
    <3>1. f[n - 1] \in Nat
      BY <1>1, <2>1
    <3> QED
      BY <3>1
  <2> QED
    BY <2>1, <2>2
<1>5. f = [i \in 0..N |-> IF i = 0 THEN 0 ELSE f[i - 1] * Base + b[i]]
  BY <1>1, <1>4
<1>6. up = [i \in 0..N |-> IF i = 0 THEN 0 ELSE up[i - 1] * Base + b[i]]
  BY <1>5
<1>7. Decode(b) = up[N]
  BY DEF Decode
<1> DEFINE T == {n \in Nat: n <= N => up[n] \in Nat}
<1> HIDE DEF up, N, step
<1>8. 0 \in T
  BY <1>1, <1>6
<1>9. ASSUME NEW n \in Nat, n \in T PROVE n + 1 \in T
  <2> SUFFICES ASSUME n + 1 <= N PROVE up[n + 1] \in Nat
    OBVIOUS
  <2>1. n + 1 \in 1..N /\ n + 1 \in 0..N /\ n + 1 # 0 /\ (n + 1) - 1 = n /\ up[n] \in Nat
    BY <1>1, <1>9
  <2>2. up[n + 1] = up[n] * Base + b[n + 1]
    BY <1>6, <2>1
  <2>3. PICK x \in Nat: x = up[n]
    BY <2>1
  <2>4. PICK y \in Nat: y = b[n + 1]
    BY <1>1, <2>1
  <2>5. x * Base + y \in Nat
    OBVIOUS
  <2> QED
    BY <2>2, <2>3, <2>4, <2>5
<1> HIDE DEF T
<1>10. N \in T
  BY <1>1, <1>8, <1>9, SetInduction
<1> QED
  BY <1>1, <1>7, <1>10 DEF T

-------------------------------------------------------------------------------
(* The inductive invariant. *)

(* The packets that onUnserialize dispatches for those that were sent. *)
Dispatched == {OnBlock(Head(Encoded[p]), Encoded[p]).packet: p \in Packets}

Transit == Join(input, socket, out)

(* All the bytes that are on their way: only what is cut may miss some. *)
OnItsWay(c) ==
  \E pos: /\ Carries(sent, c, pos, Transit)
          /\ ~cut => Len(Transit) = pos[Len(sent)]

StreamInv ==
  ~Broken =>
    /\ peer \in {"open", "ended"}
    /\ got \in Seq(Dispatched)
    /\ \A i \in DOMAIN got: OnPacket(got[i]).msg # NullPtr
    /\ \E c \in 0..Len(sent):
         /\ Handled = Expected(SubSeq(sent, 1, c))
         /\ peer = "open" => OnItsWay(c)

IInv ==
  /\ TypeOK /\ Sendable(sent) /\ StreamInv
  /\ cut => state = "DISCONNECTED"

LEMMA InitHolds == Init => IInv
<1> SUFFICES ASSUME Init PROVE IInv
  OBVIOUS
<1>1. TypeOK
  <2>1. <<>> \in Seq(Bytes) /\ <<>> \in Seq(Packets) /\ Len(<<>>) <= MaxSent
    BY EmptySeq
  <2>2. {overtaken, foreign, cut} \subseteq BOOLEAN /\ fin \in BOOLEAN
    BY DEF Init
  <2> QED
    BY <2>1, <2>2 DEF Init, TypeOK
<1>2. Sendable(sent)
  BY DEF Init, Sendable
<1>3. StreamInv
  <2> DEFINE pos == [i \in 0..0 |-> 0]
  <2>1. pos \in [0..0 -> Nat] /\ pos[0] = 0
    OBVIOUS
  <2>2. Transit = <<>>
    BY DEF Init, Transit, Join
  <2> HIDE DEF pos
  <2>3. Carries(<<>>, 0, pos, <<>>)
    <3>1. Len(<<>>) = 0
      OBVIOUS
    <3> QED
      BY <2>1, <3>1 DEF Carries, Offsets, Filled
  <2>4. OnItsWay(0)
    BY <2>1, <2>2, <2>3 DEF OnItsWay, Init
  <2>5. Expected(SubSeq(sent, 1, 0)) = <<>>
    BY ExpectedStep, EmptySeq DEF Init
  <2>6. Handled = <<>>
    BY DEF Init, Handled
  <2> QED
    BY <2>4, <2>5, <2>6 DEF Init, StreamInv
<1> QED
  BY <1>1, <1>2, <1>3 DEF IInv, Init

-------------------------------------------------------------------------------
(* The steps. *)

LEMMA BytesType ==
  ASSUME TypeOK
  PROVE  /\ input \in Seq(Bytes) /\ socket \in Seq(Bytes) /\ out \in Seq(Bytes)
         /\ Len(input) \in Nat /\ Len(socket) \in Nat /\ Len(out) \in Nat
         /\ Transit \in Seq(Bytes)
<1>1. input \in Seq(Bytes) /\ socket \in Seq(Bytes) /\ out \in Seq(Bytes)
  BY DEF TypeOK, Bytes
<1> QED
  BY <1>1, Joined DEF Transit

(* Bytes that move from one buffer to the next stay what they are. *)
LEMMA SameBytes ==
  ASSUME IInv, UNCHANGED <<sent, got, peer, overtaken, foreign, cut>>, Transit' = Transit
  PROVE  Sendable(sent)' /\ StreamInv'
<1>1. Sendable(sent)'
  BY DEF IInv, Sendable
<1>2. Handled' = Handled
  BY DEF Handled
<1>3. Broken' = Broken
  BY DEF Broken
<1>4. ASSUME NEW c, OnItsWay(c) PROVE OnItsWay(c)'
  BY <1>4 DEF OnItsWay
<1>5. StreamInv'
  BY <1>2, <1>3, <1>4 DEF IInv, StreamInv
<1> QED
  BY <1>1, <1>5

LEMMA TakesType ==
  ASSUME TypeOK, NEW size \in Nat, NEW n \in Takes(size)
  PROVE  n \in 1..size /\ n \in 0..size
<1>1. PICK r \in Int: r = Room - Len(socket)
  <2>1. Len(socket) \in Nat
    BY BytesType
  <2>2. Room - Len(socket) \in Int
    BY <2>1
  <2> QED
    BY <2>2
<1>2. n \in 1..Lesser(size, r)
  BY <1>1 DEF Takes
<1>3. n \in 1..(IF size < r THEN size ELSE r)
  BY <1>2 DEF Lesser
<1> QED
  BY <1>3

LEMMA FlagsType ==
  ASSUME TypeOK
  PROVE  overtaken \in BOOLEAN /\ foreign \in BOOLEAN /\ cut \in BOOLEAN /\ fin \in BOOLEAN
BY DEF TypeOK

LEMMA SendKeeps ==
  ASSUME IInv, NEW p \in Packets, Send(p)
  PROVE  IInv'
<1> DEFINE d == Encoded[p]
<1>1. TypeOK /\ Sendable(sent) /\ state = "CONNECTED" /\ cut = FALSE
  BY FlagsType DEF IInv, Send
<1>2. PICK n \in Takes(Len(d)):
        socket' = socket \o First(d, n) /\ out' = out \o Rest(d, n)
  BY DEF Send
<1>3. d # <<>> /\ d \in Seq(Bytes) /\ RoundTrip(p, d) /\ n \in 0..Len(d)
  <2>1. d = <<>> => Len(d) = 0
    OBVIOUS
  <2>2. d = <<>> => n \in 1..0
    BY <1>1, <2>1, TakesType
  <2>3. RoundTrip(p, d)
    BY <2>2, AllRoundTrip DEF RoundTrips
  <2>4. d \in Seq(Bytes) /\ Len(d) \in Nat
    BY <2>3, LenProperties DEF RoundTrip, Bytes
  <2>5. n \in 0..Len(d)
    BY <1>1, <2>4, TakesType
  <2> QED
    BY <2>2, <2>3, <2>4, <2>5
<1>4. /\ input \in Seq(Bytes) /\ socket \in Seq(Bytes) /\ out \in Seq(Bytes)
      /\ sent \in Seq(Packets) /\ Len(sent) \in Nat
  BY <1>1, BytesType, LenProperties DEF Sendable
<1>5. /\ UNCHANGED <<state, fin, foreign, cut, input, peer, got>>
      /\ sent' = Append(sent, p) /\ Len(sent) < MaxSent
      /\ overtaken' = (overtaken \/ out # <<>>)
  BY DEF Send, receiver
<1>6. First(d, n) \in Seq(Bytes) /\ Rest(d, n) \in Seq(Bytes)
  BY <1>3, Cut
<1>7. socket' \in Seq(Bytes) /\ out' \in Seq(Bytes)
  BY <1>2, <1>4, <1>6, ConcatProperties
<1>8. sent' \in Seq(Packets) /\ Len(sent') = Len(sent) + 1 /\ \A i \in 1..Len(sent): sent'[i] = sent[i]
  BY <1>4, <1>5, AppendProperties
<1>9. overtaken' \in BOOLEAN /\ foreign' \in BOOLEAN /\ cut' \in BOOLEAN
  BY <1>1, <1>5, FlagsType
<1>10. TypeOK'
  <2>1. ~fin /\ fin' = fin
    BY <1>1, <1>5 DEF TypeOK
  <2>2. Len(sent') <= MaxSent
    BY <1>4, <1>5, <1>8
  <2>3. {overtaken, foreign, cut}' \subseteq BOOLEAN
    BY <1>9
  <2> QED
    BY <1>1, <1>5, <1>7, <1>8, <2>1, <2>2, <2>3 DEF TypeOK, Bytes
<1>11. Sendable(sent')
  <2>1. ASSUME NEW i \in 1..Len(sent') PROVE RoundTrip(sent'[i], Encoded[sent'[i]])
    <3>1. CASE i \in 1..Len(sent)
      BY <1>1, <1>8, <3>1 DEF Sendable
    <3>2. CASE i \notin 1..Len(sent)
      <4>1. i = Len(sent) + 1
        BY <1>4, <1>8, <3>2
      <4>2. sent'[i] = p
        BY <1>4, <1>5, <4>1, AppendProperties
      <4> QED
        BY <1>3, <4>2
    <3> QED
      BY <3>1, <3>2
  <2> QED
    BY <1>8, <2>1 DEF Sendable
<1>12. StreamInv'
  <2> SUFFICES ASSUME ~Broken'
               PROVE  /\ peer' \in {"open", "ended"}
                      /\ got' \in Seq(Dispatched)
                      /\ \A i \in DOMAIN got': OnPacket(got'[i]).msg # NullPtr
                      /\ \E c \in 0..Len(sent'):
                           /\ Handled' = Expected(SubSeq(sent', 1, c))
                           /\ peer' = "open" => OnItsWay(c)'
    BY DEF StreamInv
  <2>1. ~Broken /\ out = <<>>
    BY <1>5 DEF Broken
  <2>2. Handled' = Handled
    BY <1>5 DEF Handled
  <2>3. PICK c \in 0..Len(sent):
          Handled = Expected(SubSeq(sent, 1, c)) /\ (peer = "open" => OnItsWay(c))
    BY <2>1 DEF IInv, StreamInv
  <2>4. c \in 0..Len(sent') /\ SubSeq(sent', 1, c) = SubSeq(sent, 1, c)
    <3>1. c \in 0..Len(sent') /\ 1..c \subseteq 1..Len(sent)
      BY <1>4, <1>8
    <3>2. /\ SubSeq(sent, 1, c) \in Seq(Packets) /\ Len(SubSeq(sent, 1, c)) = c
          /\ \A i \in 1..c: SubSeq(sent, 1, c)[i] = sent[i]
      BY <1>4, FirstType
    <3>3. /\ SubSeq(sent', 1, c) \in Seq(Packets) /\ Len(SubSeq(sent', 1, c)) = c
          /\ \A i \in 1..c: SubSeq(sent', 1, c)[i] = sent'[i]
      BY <1>8, <3>1, FirstType
    <3>4. \A i \in 1..c: SubSeq(sent', 1, c)[i] = SubSeq(sent, 1, c)[i]
      BY <1>8, <3>1, <3>2, <3>3
    <3> QED
      BY <3>1, <3>2, <3>3, <3>4, SeqEqual
  <2>5. ASSUME OnItsWay(c) PROVE OnItsWay(c)'
    <3>1. PICK pos: Carries(sent, c, pos, Transit) /\ (~cut => Len(Transit) = pos[Len(sent)])
      BY <2>5 DEF OnItsWay
    <3>2. Transit' = Transit \o d
      <4>1. Join(input, socket \o First(d, n), <<>> \o Rest(d, n)) = Join(input, socket, <<>>) \o d
        BY <1>3, <1>4, Sent
      <4> QED
        BY <1>2, <1>5, <2>1, <4>1 DEF Transit
    <3>3. Transit \in Seq(Bytes)
      BY <1>1, BytesType
    <3>4. \E pos2: /\ Carries(Append(sent, p), c, pos2, Transit \o d)
                   /\ Len(Transit \o d) = pos2[Len(sent) + 1]
      BY <1>1, <1>3, <3>1, <3>3, CarriesMore
    <3> QED
      BY <1>5, <1>8, <3>2, <3>4 DEF OnItsWay
  <2>6. peer' = peer /\ got' = got
    BY <1>5
  <2>7. peer \in {"open", "ended"} /\ got \in Seq(Dispatched) /\ \A i \in DOMAIN got: OnPacket(got[i]).msg # NullPtr
    BY <2>1 DEF IInv, StreamInv
  <2> QED
    BY <2>2, <2>3, <2>4, <2>5, <2>6, <2>7
<1> QED
  BY <1>1, <1>5, <1>10, <1>11, <1>12 DEF IInv

LEMMA WriteKeeps ==
  ASSUME IInv, HandleTcpConWrite
  PROVE  IInv'
<1>1. TypeOK /\ cut \in BOOLEAN /\ foreign \in BOOLEAN /\ overtaken \in BOOLEAN
  BY FlagsType DEF IInv
<1>2. /\ input \in Seq(Bytes) /\ socket \in Seq(Bytes) /\ out \in Seq(Bytes)
      /\ Len(out) \in Nat
  BY <1>1, BytesType
<1>3. CASE WriteOut
  <2>1. PICK n \in Takes(Len(out)):
          /\ socket' = socket \o First(out, n) /\ out' = Rest(out, n)
          /\ fin' = (state = "DISCONNECTING" /\ n = Len(out))
    BY <1>3 DEF WriteOut
  <2>2. n \in 0..Len(out) /\ n \in Nat
    BY <1>1, <1>2, TakesType
  <2>3. /\ First(out, n) \in Seq(Bytes) /\ Rest(out, n) \in Seq(Bytes)
        /\ Len(Rest(out, n)) = Len(out) - n
    BY <1>2, <2>2, Cut
  <2>4. UNCHANGED <<state, sent, overtaken, foreign, cut, input, peer, got>>
    BY <1>3 DEF WriteOut, receiver
  <2>5. TypeOK'
    <3>1. socket' \in Seq(Bytes) /\ out' \in Seq(Bytes)
      BY <1>2, <2>1, <2>3, ConcatProperties
    <3>2. fin' \in BOOLEAN
      BY <2>1
    <3>3. fin' => state' # "CONNECTED" /\ out' = <<>>
      <4> SUFFICES ASSUME fin' PROVE state' # "CONNECTED" /\ out' = <<>>
        OBVIOUS
      <4>1. state = "DISCONNECTING" /\ n = Len(out)
        BY <2>1
      <4>2. Len(out') = 0
        BY <1>2, <2>1, <2>3, <4>1
      <4> QED
        BY <2>4, <3>1, <4>1, <4>2, EmptySeq
    <3> QED
      BY <1>1, <2>4, <3>1, <3>2, <3>3 DEF TypeOK, Bytes
  <2>6. Transit' = Transit
    <3>1. Join(input, socket \o First(out, n), Rest(out, n)) = Join(input, socket, out)
      BY <1>2, <2>2, Moved
    <3> QED
      BY <2>1, <2>4, <3>1 DEF Transit
  <2>7. Sendable(sent)' /\ StreamInv'
    BY <2>4, <2>6, SameBytes
  <2> QED
    BY <2>4, <2>5, <2>7 DEF IInv
<1>4. CASE WriteForeign
  <2>1. PICK b \in Foreign: socket' = socket \o Append(out, b)
    BY <1>4 DEF WriteForeign
  <2>2. UNCHANGED <<state, out, fin, sent, overtaken, cut, input, peer, got>> /\ foreign' = TRUE
    BY <1>4 DEF WriteForeign, receiver
  <2>3. Append(out, b) \in Seq(Bytes)
    BY <1>2, AppendProperties DEF Bytes
  <2>4. socket' \in Seq(Bytes)
    BY <1>2, <2>1, <2>3, ConcatProperties
  <2>5. {overtaken, foreign, cut}' \subseteq BOOLEAN
    BY <1>1, <2>2
  <2>6. TypeOK'
    BY <1>1, <2>2, <2>4, <2>5 DEF TypeOK, Bytes
  <2>7. StreamInv'
    BY <2>2 DEF StreamInv, Broken
  <2>8. Sendable(sent)'
    BY <2>2 DEF IInv, Sendable
  <2> QED
    BY <2>2, <2>6, <2>7, <2>8 DEF IInv
<1> QED
  BY <1>3, <1>4 DEF HandleTcpConWrite

LEMMA CloseKeeps ==
  ASSUME IInv, Close \/ RemoveTcpCon
  PROVE  IInv'
<1>1. UNCHANGED <<out, socket, sent, overtaken, foreign, cut, input, peer, got>>
  BY DEF Close, RemoveTcpCon, receiver
<1>2. TypeOK /\ cut \in BOOLEAN /\ fin \in BOOLEAN
  BY FlagsType DEF IInv
<1>3. fin' \in BOOLEAN
  BY <1>2 DEF Close, RemoveTcpCon
<1>4. TypeOK'
  <2>1. state' \in {"DISCONNECTING", "DISCONNECTED"} /\ (fin' => out' = <<>>)
    BY <1>2 DEF TypeOK, Close, RemoveTcpCon
  <2> QED
    BY <1>1, <1>2, <1>3, <2>1 DEF TypeOK
<1>5. Sendable(sent)' /\ StreamInv'
  <2>1. Transit' = Transit
    BY <1>1 DEF Transit
  <2> QED
    BY <1>1, <2>1, SameBytes
<1>6. cut => state = "DISCONNECTED"
  BY DEF IInv
<1>7. ~cut
  BY <1>6 DEF Close, RemoveTcpCon
<1> QED
  BY <1>1, <1>4, <1>5, <1>7 DEF IInv

(* Of what is on its way, the bytes of the output and the last ones of the  *)
(* socket are dropped.                                                      *)
LEMMA Shortened ==
  ASSUME NEW S, NEW i \in Seq(S), NEW s \in Seq(S), NEW o \in Seq(S), NEW f \in Seq(S),
         Len(f) <= Len(s), \A k \in 1..Len(f): f[k] = s[k]
  PROVE  /\ Join(i, f, <<>>) \in Seq(S) /\ Len(Join(i, f, <<>>)) <= Len(Join(i, s, o))
         /\ \A k \in 1..Len(Join(i, f, <<>>)): Join(i, f, <<>>)[k] = Join(i, s, o)[k]
<1>1. PICK e \in Seq(S): e = <<>> /\ Len(e) = 0
  BY EmptySeq
<1> DEFINE j == Join(i, f, e)
           t == Join(i, s, o)
<1>2. /\ j \in Seq(S) /\ Len(i) \in Nat /\ Len(f) \in Nat
      /\ Len(j) = Len(i) + (Len(f) + Len(e))
      /\ \A k \in 1..Len(i): j[k] = i[k]
      /\ \A k \in 1..Len(f): j[Len(i) + k] = f[k]
  <2>1. j \in Seq(S) /\ IsJoin(i, f, e, j)
    BY <1>1, Joined
  <2> HIDE DEF j
  <2> QED
    BY <2>1 DEF IsJoin
<1>3. /\ Len(s) \in Nat /\ Len(o) \in Nat
      /\ Len(t) = Len(i) + (Len(s) + Len(o))
      /\ \A k \in 1..Len(i): t[k] = i[k]
      /\ \A k \in 1..Len(s): t[Len(i) + k] = s[k]
  <2>1. IsJoin(i, s, o, t)
    BY Joined
  <2> HIDE DEF t
  <2> QED
    BY <2>1 DEF IsJoin
<1> HIDE DEF j, t
<1>4. Len(j) = Len(i) + Len(f) /\ Len(j) <= Len(t)
  BY <1>1, <1>2, <1>3
<1>5. ASSUME NEW k \in 1..Len(j) PROVE j[k] = t[k]
  <2>1. CASE k <= Len(i)
    <3>1. k \in 1..Len(i)
      BY <1>2, <1>4, <2>1
    <3> QED
      BY <1>2, <1>3, <3>1
  <2>2. CASE ~(k <= Len(i))
    <3>1. PICK m \in 1..Len(f): k = Len(i) + m
      <4>1. k - Len(i) \in 1..Len(f) /\ k = Len(i) + (k - Len(i))
        BY <1>2, <1>4, <2>2
      <4> QED
        BY <4>1
    <3>2. m \in 1..Len(s)
      BY <1>2, <1>3
    <3> QED
      BY <1>2, <1>3, <3>1, <3>2
  <2> QED
    BY <2>1, <2>2
<1>6. j = Join(i, f, <<>>)
  BY <1>1 DEF j
<1> QED
  BY <1>2, <1>4, <1>5, <1>6 DEF t

(* What was on its way and is dropped was the end of it. *)
LEMMA RecycleKeeps ==
  ASSUME IInv, Recycle
  PROVE  IInv'
<1>1. /\ UNCHANGED <<state, sent, overtaken, foreign, input, peer, got>>
      /\ out' = <<>> /\ fin' = TRUE /\ cut' = TRUE /\ state = "DISCONNECTED"
  BY DEF Recycle, receiver
<1>2. TypeOK /\ overtaken \in BOOLEAN /\ foreign \in BOOLEAN /\ Sendable(sent)
  BY FlagsType DEF IInv
<1>3. /\ input \in Seq(Bytes) /\ socket \in Seq(Bytes) /\ out \in Seq(Bytes)
      /\ Len(input) \in Nat /\ Len(socket) \in Nat /\ Len(out) \in Nat
  BY <1>2, BytesType
<1>4. PICK n \in 0..Len(socket): socket' = First(socket, n)
  BY <1>3 DEF Recycle
<1>5. /\ socket' \in Seq(Bytes) /\ Len(socket') = n
      /\ \A k \in 1..n: socket'[k] = socket[k]
  BY <1>3, <1>4, Cut
<1>6. TypeOK'
  <2>1. {overtaken, foreign, cut}' \subseteq BOOLEAN /\ <<>> \in Seq(Bytes)
    BY <1>1, <1>2, EmptySeq
  <2> QED
    BY <1>1, <1>2, <1>5, <2>1 DEF TypeOK, Bytes
<1>7. /\ Transit' \in Seq(Bytes) /\ Transit \in Seq(Bytes) /\ Len(Transit') <= Len(Transit)
      /\ \A k \in 1..Len(Transit'): Transit'[k] = Transit[k]
  <2>1. PICK f \in Seq(Bytes): f = socket'
    BY <1>5
  <2>2. PICK i \in Seq(Bytes), s \in Seq(Bytes), o \in Seq(Bytes):
           i = input /\ s = socket /\ o = out
    BY <1>3
  <2>3. Len(f) <= Len(s) /\ \A k \in 1..Len(f): f[k] = s[k]
    BY <1>3, <1>5, <2>1, <2>2
  <2>4. /\ Join(i, f, <<>>) \in Seq(Bytes) /\ Len(Join(i, f, <<>>)) <= Len(Join(i, s, o))
        /\ \A k \in 1..Len(Join(i, f, <<>>)): Join(i, f, <<>>)[k] = Join(i, s, o)[k]
    BY <2>3, Shortened
  <2>5. Transit' = Join(i, f, <<>>) /\ Transit = Join(i, s, o)
    BY <1>1, <2>1, <2>2 DEF Transit
  <2>6. Transit \in Seq(Bytes)
    BY <1>2, BytesType
  <2> QED
    BY <2>4, <2>5, <2>6
<1>8. ASSUME NEW c, OnItsWay(c) PROVE OnItsWay(c)'
  <2>1. PICK pos: Carries(sent, c, pos, Transit)
    BY <1>8 DEF OnItsWay
  <2>2. PICK d \in Seq(Bytes): d = Transit'
    BY <1>7
  <2>3. Len(d) <= Len(Transit) /\ \A k \in 1..Len(d): d[k] = Transit[k]
    BY <1>7, <2>2
  <2>4. Carries(sent, c, pos, d)
    BY <1>2, <1>7, <2>1, <2>3, CarriesLess
  <2> QED
    BY <1>1, <2>2, <2>4 DEF OnItsWay
<1>9. StreamInv'
  <2>1. Handled' = Handled /\ Broken' = Broken
    BY <1>1 DEF Handled, Broken
  <2> QED
    BY <1>1, <1>8, <2>1 DEF IInv, StreamInv
<1>10. Sendable(sent)'
  BY <1>1 DEF IInv, Sendable
<1> QED
  BY <1>1, <1>6, <1>9, <1>10 DEF IInv

LEMMA ReadKeeps ==
  ASSUME IInv, HandleTcpConRead
  PROVE  IInv'
<1>1. TypeOK
  BY DEF IInv
<1>2. /\ input \in Seq(Bytes) /\ socket \in Seq(Bytes) /\ out \in Seq(Bytes)
      /\ Len(socket) \in Nat
  BY <1>1, BytesType
<1>3. CASE ReadSome
  <2>1. PICK n \in 1..Len(socket): input' = input \o First(socket, n) /\ socket' = Rest(socket, n)
    BY <1>3 DEF ReadSome
  <2>2. n \in 0..Len(socket)
    BY <1>2
  <2>3. First(socket, n) \in Seq(Bytes) /\ Rest(socket, n) \in Seq(Bytes)
    BY <1>2, <2>2, Cut
  <2>4. UNCHANGED <<state, out, fin, sent, overtaken, foreign, cut, peer, got>>
    BY <1>3 DEF ReadSome, sender
  <2>5. TypeOK'
    <3>1. input' \in Seq(Bytes) /\ socket' \in Seq(Bytes)
      BY <1>2, <2>1, <2>3, ConcatProperties
    <3> QED
      BY <1>1, <2>4, <3>1 DEF TypeOK, Bytes
  <2>6. Transit' = Transit
    <3>1. Join(input \o First(socket, n), Rest(socket, n), out) = Join(input, socket, out)
      BY <1>2, <2>2, Moved
    <3> QED
      BY <2>1, <2>4, <3>1 DEF Transit
  <2>7. Sendable(sent)' /\ StreamInv'
    BY <2>4, <2>6, SameBytes
  <2> QED
    BY <2>4, <2>5, <2>7 DEF IInv
<1>4. CASE ReadEnd
  <2>1. /\ UNCHANGED <<state, out, fin, sent, overtaken, foreign, cut, socket, got>>
        /\ peer' = "ended" /\ input' = <<>>
    BY <1>4 DEF ReadEnd, sender
  <2>2. TypeOK'
    <3>1. <<>> \in Seq(Bytes)
      BY EmptySeq
    <3> QED
      BY <1>1, <2>1, <3>1 DEF TypeOK, Bytes
  <2>3. StreamInv'
    <3>1. Handled' = Handled /\ Broken' = Broken
      BY <2>1 DEF Handled, Broken
    <3> QED
      BY <2>1, <3>1 DEF IInv, StreamInv
  <2>4. Sendable(sent)'
    BY <2>1 DEF IInv, Sendable
  <2> QED
    BY <2>1, <2>2, <2>3, <2>4 DEF IInv
<1> QED
  BY <1>3, <1>4 DEF HandleTcpConRead

(* One more packet is dispatched, and converted for its handler. *)
Converted(packets) == [i \in DOMAIN packets |-> OnPacket(packets[i])]

LEMMA ConvertedAppend ==
  ASSUME NEW S, NEW packets \in Seq(S), NEW p \in S
  PROVE  Converted(Append(packets, p)) = Append(Converted(packets), OnPacket(p))
<1> DEFINE N == Len(packets)
           more == Append(packets, p)
           T == {OnPacket(x): x \in S}
           u == Append(Converted(packets), OnPacket(p))
<1>1. /\ N \in Nat /\ DOMAIN packets = 1..N /\ \A i \in 1..N: packets[i] \in S
  BY LenProperties, ElementOfSeq
<1>2. /\ more \in Seq(S) /\ Len(more) = N + 1 /\ more[N + 1] = p
      /\ \A i \in 1..N: more[i] = packets[i]
  BY <1>1, AppendProperties
<1>3. DOMAIN more = 1..N + 1
  BY <1>2, LenProperties
<1>4. Converted(packets) = [i \in 1..N |-> OnPacket(packets[i])]
  BY <1>1 DEF Converted
<1>5. Converted(more) = [i \in 1..N + 1 |-> OnPacket(more[i])]
  BY <1>3 DEF Converted
<1>6. OnPacket(p) \in T /\ \A i \in 1..N: OnPacket(packets[i]) \in T
  BY <1>1
<1> HIDE DEF more, T
<1>7. Converted(packets) \in Seq(T) /\ Len(Converted(packets)) = N
  <2> DEFINE g == [i \in 1..N |-> OnPacket(packets[i])]
  <2>1. g \in [1..N -> T]
    BY <1>6
  <2> HIDE DEF g
  <2>2. g \in Seq(T)
    BY <1>1, <2>1, SeqDef
  <2>3. DOMAIN g = 1..N
    BY <2>1
  <2>4. Len(g) = N
    BY <1>1, <2>2, <2>3, LenProperties
  <2> QED
    BY <1>4, <2>2, <2>4 DEF g
<1>8. /\ u \in Seq(T) /\ Len(u) = N + 1 /\ u[N + 1] = OnPacket(p)
      /\ \A i \in 1..N: u[i] = OnPacket(packets[i])
  <2> DEFINE h == Converted(packets)
  <2>1. \A i \in 1..N: h[i] = OnPacket(packets[i])
    BY <1>4
  <2>2. h \in Seq(T) /\ Len(h) = N
    BY <1>7
  <2> HIDE DEF h
  <2>3. /\ Append(h, OnPacket(p)) \in Seq(T) /\ Len(Append(h, OnPacket(p))) = N + 1
        /\ Append(h, OnPacket(p))[N + 1] = OnPacket(p)
        /\ \A i \in 1..N: Append(h, OnPacket(p))[i] = h[i]
    BY <1>6, <2>2, AppendProperties
  <2> QED
    BY <2>1, <2>3 DEF h
<1>9. u = [i \in 1..N + 1 |-> u[i]]
  BY <1>8, LenProperties
<1> HIDE DEF u
<1>10. \A i \in 1..N + 1: OnPacket(more[i]) = u[i]
  <2> SUFFICES ASSUME NEW i \in 1..N + 1 PROVE OnPacket(more[i]) = u[i]
    OBVIOUS
  <2>1. CASE i = N + 1
    BY <1>2, <1>8, <2>1
  <2>2. CASE i # N + 1
    <3>1. i \in 1..N
      BY <1>1, <2>2
    <3> QED
      BY <1>2, <1>8, <3>1
  <2> QED
    BY <2>1, <2>2
<1>11. [i \in 1..N + 1 |-> OnPacket(more[i])] = [i \in 1..N + 1 |-> u[i]]
  BY <1>10
<1> QED
  BY <1>5, <1>9, <1>11 DEF more, u

(* The block at the head of the input is the next packet of the stream. *)
LEMMA NextBlock ==
  ASSUME IInv, ~Broken, peer = "open", HasBlock(input)
  PROVE  \E c \in 0..Len(sent) - 1:
           LET e == Encoded[sent[c + 1]]
           IN /\ Handled = Expected(SubSeq(sent, 1, c))
              /\ c + 1 \in 1..Len(sent) /\ RoundTrip(sent[c + 1], e)
              /\ BlockLength(input) = Len(e) /\ Len(e) \in 0..Len(input)
              /\ Head(input) = Head(e) /\ First(input, Len(e)) = e
              /\ \E pos: /\ Carries(sent, c + 1, pos, Rest(Transit, Len(e)))
                         /\ ~cut => Len(Rest(Transit, Len(e))) = pos[Len(sent)]
<1>1. TypeOK /\ Sendable(sent)
  BY DEF IInv
<1>2. /\ input \in Seq(Bytes) /\ socket \in Seq(Bytes) /\ out \in Seq(Bytes)
      /\ Transit \in Seq(Bytes) /\ Len(input) \in Nat
  BY <1>1, BytesType
<1>3. PICK c \in 0..Len(sent): Handled = Expected(SubSeq(sent, 1, c)) /\ OnItsWay(c)
  BY DEF IInv, StreamInv
<1>4. PICK pos: Carries(sent, c, pos, Transit) /\ (~cut => Len(Transit) = pos[Len(sent)])
  BY <1>3 DEF OnItsWay
<1>5. PICK t \in Seq(Bytes): t = Transit
  BY <1>2
<1>6. PICK i \in Seq(Bytes), s \in Seq(Bytes), o \in Seq(Bytes):
        i = input /\ s = socket /\ o = out
  BY <1>2
<1>7. Len(i) <= Len(t) /\ Len(t) \in Nat /\ \A k \in 1..Len(i): i[k] = t[k]
  <2>1. t = Join(i, s, o)
    BY <1>5, <1>6 DEF Transit
  <2>2. IsJoin(i, s, o, t)
    BY <2>1, Joined
  <2> QED
    BY <2>2 DEF IsJoin
<1>8. Carries(sent, c, pos, i)
  BY <1>1, <1>4, <1>5, <1>7, CarriesLess
<1>9. HasBlock(i) /\ Len(i) >= BlockSize /\ BlockLength(i) <= Len(i)
  BY <1>6 DEF HasBlock
<1> DEFINE e == Encoded[sent[c + 1]]
<1>10. /\ c + 1 \in 1..Len(sent) /\ BlockLength(i) = Len(e) /\ Head(i) = Head(e)
       /\ (Len(e) <= Len(i) => First(i, Len(e)) = e)
  BY <1>1, <1>8, <1>9, FirstBlock
<1>11. RoundTrip(sent[c + 1], e) /\ Len(e) \in Nat
  <2>1. RoundTrip(sent[c + 1], e)
    BY <1>1, <1>10 DEF Sendable
  <2>2. Len(e) \in Nat
    BY <1>1, <1>10, EncodedType
  <2> QED
    BY <2>1, <2>2
<1>12. Len(e) <= Len(t) /\ Len(e) <= Len(i) /\ Len(e) \in 0..Len(i) /\ Len(i) \in Nat
  <2>1. Len(i) \in Nat
    BY <1>2, <1>6
  <2> QED
    BY <1>7, <1>9, <1>10, <1>11, <2>1
<1>13. \E pos2: /\ Carries(sent, c + 1, pos2, Rest(t, Len(e)))
                /\ Len(t) = pos[Len(sent)] => Len(Rest(t, Len(e))) = pos2[Len(sent)]
  <2>1. Carries(sent, c, pos, t)
    BY <1>4, <1>5
  <2>2. /\ t \in Seq(Bytes) /\ Sendable(sent) /\ c + 1 \in 1..Len(sent)
        /\ Len(e) <= Len(t)
    BY <1>1, <1>10, <1>12
  <2> QED
    BY <2>1, <2>2, CarriesRest
<1>14. c \in 0..Len(sent) - 1
  <2>1. Len(sent) \in Nat
    BY <1>1, LenProperties DEF Sendable
  <2> QED
    BY <1>10, <2>1
<1> WITNESS c \in 0..Len(sent) - 1
<1> HIDE DEF e
<1>15. \E pos2: /\ Carries(sent, c + 1, pos2, Rest(Transit, Len(e)))
                /\ ~cut => Len(Rest(Transit, Len(e))) = pos2[Len(sent)]
  BY <1>4, <1>5, <1>13
<1> QED
  BY <1>3, <1>6, <1>10, <1>11, <1>12, <1>15 DEF e

(* onUnserialize on an honest stream: the packet is dispatched as it was    *)
(* given to onSerialize.                                                    *)
LEMMA Arrives ==
  ASSUME IInv, ~Broken, OnUnserialize
  PROVE  /\ \E c \in 0..Len(sent) - 1:
              /\ c + 1 \in 1..Len(sent)
              /\ Handled = Expected(SubSeq(sent, 1, c))
              /\ Handled' = Seen(Handled, sent[c + 1])
              /\ \E pos: /\ Carries(sent, c + 1, pos, Transit')
                         /\ ~cut => Len(Transit') = pos[Len(sent)]
         /\ peer' = "open" /\ got' \in Seq(Dispatched)
         /\ \A i \in DOMAIN got': OnPacket(got'[i]).msg # NullPtr
<1>1. peer = "open" /\ HasBlock(input) /\ UNCHANGED <<sender, socket>>
  BY DEF OnUnserialize
<1>2. PICK c \in 0..Len(sent) - 1:
        LET x == Encoded[sent[c + 1]]
        IN /\ Handled = Expected(SubSeq(sent, 1, c))
           /\ c + 1 \in 1..Len(sent) /\ RoundTrip(sent[c + 1], x)
           /\ BlockLength(input) = Len(x) /\ Len(x) \in 0..Len(input)
           /\ Head(input) = Head(x) /\ First(input, Len(x)) = x
           /\ \E pos: /\ Carries(sent, c + 1, pos, Rest(Transit, Len(x)))
                      /\ ~cut => Len(Rest(Transit, Len(x))) = pos[Len(sent)]
  BY <1>1, NextBlock
<1>3. PICK p \in Packets: p = sent[c + 1]
  <2>1. sent \in Seq(Packets)
    BY DEF IInv, Sendable
  <2> QED
    BY <1>2, <2>1, ElementOfSeq
<1>4. PICK e: e = Encoded[p]
  OBVIOUS
<1> DEFINE turn == OnBlock(Head(e), e)
<1>5. RoundTrip(p, e) /\ BlockLength(input) = Len(e) /\ Head(input) = Head(e)
      /\ First(input, BlockLength(input)) = e /\ Len(e) \in 0..Len(input)
  BY <1>2, <1>3, <1>4
<1>6. /\ input' = Rest(input, Len(e))
      /\ got' = IF turn.what = "packet" THEN Append(got, turn.packet) ELSE got
      /\ peer' = CASE turn.what = "false" -> "failed"
                   [] turn.what = "crash" -> "crashed"
                   [] OTHER -> "open"
  BY <1>5 DEF OnUnserialize
<1>7. IF Heartbeat(p) THEN turn.what = "heart"
      ELSE turn.what = "packet" /\ OnPacket(turn.packet) = AsReceived(p)
  BY <1>5 DEF RoundTrip
<1>8. ~Heartbeat(p) => turn.packet \in Dispatched
  BY <1>4 DEF Dispatched
<1> HIDE DEF turn
<1>9. got \in Seq(Dispatched) /\ \A i \in DOMAIN got: OnPacket(got[i]).msg # NullPtr
  BY DEF IInv, StreamInv
<1>10. peer' = "open"
  BY <1>6, <1>7
<1>11. Handled = Converted(got) /\ Handled' = Converted(got')
  BY DEF Handled, Converted
<1>12. /\ Handled' = Seen(Handled, p) /\ got' \in Seq(Dispatched)
       /\ \A i \in DOMAIN got': OnPacket(got'[i]).msg # NullPtr
  <2>1. CASE Heartbeat(p)
    <3>1. got' = got
      BY <1>6, <1>7, <2>1
    <3>2. Handled' = Handled
      BY <3>1 DEF Handled
    <3> QED
      BY <1>9, <2>1, <3>1, <3>2 DEF Seen
  <2>2. CASE ~Heartbeat(p)
    <3>1. got' = Append(got, turn.packet) /\ OnPacket(turn.packet) = AsReceived(p)
      BY <1>6, <1>7, <2>2
    <3>2. turn.packet \in Dispatched
      BY <1>8, <2>2
    <3>3. Converted(Append(got, turn.packet)) = Append(Converted(got), OnPacket(turn.packet))
      BY <1>9, <3>2, ConvertedAppend
    <3>4. Handled' = Seen(Handled, p)
      BY <1>11, <2>2, <3>1, <3>3 DEF Seen
    <3>5. PICK q \in Dispatched: q = turn.packet
      BY <3>2
    <3>6. /\ Append(got, q) \in Seq(Dispatched) /\ Len(Append(got, q)) = Len(got) + 1
          /\ \A i \in 1..Len(got): Append(got, q)[i] = got[i]
          /\ Append(got, q)[Len(got) + 1] = q
      BY <1>9, AppendProperties
    <3>7. AsReceived(p).msg # NullPtr
      <4>1. p.msg = NoMessage \/ Message(p.msg)
        BY PacketsAssumption DEF Packet
      <4>2. p.msg # NullPtr /\ NoMessage # NullPtr
        BY <4>1, NullAssumption DEF Message
      <4> QED
        BY <4>2 DEF AsReceived
    <3>8. ASSUME NEW i \in DOMAIN got' PROVE OnPacket(got'[i]).msg # NullPtr
      <4>1. got' = Append(got, q)
        BY <3>1, <3>5
      <4>2. Len(got) \in Nat /\ DOMAIN got = 1..Len(got)
        BY <1>9, LenProperties
      <4>3. i \in 1..Len(got) + 1
        BY <3>6, <4>1, LenProperties
      <4>4. CASE i = Len(got) + 1
        BY <3>1, <3>5, <3>6, <3>7, <4>1, <4>4
      <4>5. CASE i # Len(got) + 1
        <5>1. i \in 1..Len(got)
          BY <4>2, <4>3, <4>5
        <5> QED
          BY <1>9, <3>6, <4>1, <4>2, <5>1
      <4> QED
        BY <4>4, <4>5
    <3> QED
      BY <3>1, <3>4, <3>5, <3>6, <3>8
  <2> QED
    BY <2>1, <2>2
<1>13. Transit' = Rest(Transit, Len(e))
  <2>1. PICK i \in Seq(Bytes), s \in Seq(Bytes), o \in Seq(Bytes):
          i = input /\ s = socket /\ o = out
    BY BytesType DEF IInv
  <2>2. PICK n \in 0..Len(i): n = Len(e)
    BY <1>5, <2>1
  <2>3. Join(Rest(i, n), s, o) = Rest(Join(i, s, o), n)
    BY Taken
  <2> QED
    BY <1>1, <1>6, <2>1, <2>2, <2>3 DEF Transit, sender
<1>14. \E pos: /\ Carries(sent, c + 1, pos, Transit')
               /\ ~cut => Len(Transit') = pos[Len(sent)]
  BY <1>2, <1>3, <1>4, <1>13
<1> QED
  BY <1>2, <1>3, <1>10, <1>12, <1>14

LEMMA UnserializeKeeps ==
  ASSUME IInv, OnUnserialize
  PROVE  IInv'
<1>1. TypeOK /\ Sendable(sent)
  BY DEF IInv
<1>2. /\ UNCHANGED <<state, out, fin, sent, overtaken, foreign, cut, socket>>
      /\ input' = Rest(input, BlockLength(input)) /\ HasBlock(input)
      /\ peer' \in {"open", "failed", "crashed"}
  BY DEF OnUnserialize, sender
<1>3. input' \in Seq(Bytes)
  <2>1. PICK i \in Seq(Bytes): i = input
    BY <1>1, BytesType
  <2>2. Len(i) \in Nat /\ Len(i) >= BlockSize /\ BlockLength(i) <= Len(i)
    BY <1>2, <2>1, LenProperties DEF HasBlock
  <2>3. BlockSize \in Nat
    BY DEF BlockSize, HeaderSize
  <2>4. SubSeq(i, 2, BlockSize) \in Seq(Bytes)
    <3>1. \A k \in 2..BlockSize: i[k] \in Bytes
      <4> SUFFICES ASSUME NEW k \in 2..BlockSize PROVE i[k] \in Bytes
        OBVIOUS
      <4>1. k \in 1..Len(i)
        BY <2>2, <2>3
      <4> QED
        BY <4>1, ElementOfSeq
    <3> QED
      BY <2>3, <3>1, SubSeqProperties
  <2>5. BlockLength(i) \in Nat
    BY <2>4, DecodeType DEF BlockLength
  <2>6. BlockLength(i) \in 0..Len(i)
    BY <2>2, <2>5
  <2> QED
    BY <1>2, <2>1, <2>6, Cut
<1>4. TypeOK'
  BY <1>1, <1>2, <1>3 DEF TypeOK, Bytes
<1>5. Sendable(sent)'
  BY <1>1, <1>2 DEF Sendable
<1>6. StreamInv'
  <2>1. CASE Broken
    BY <1>2, <2>1 DEF StreamInv, Broken
  <2>2. CASE ~Broken
    <3>1. /\ peer' = "open" /\ got' \in Seq(Dispatched)
          /\ \A i \in DOMAIN got': OnPacket(got'[i]).msg # NullPtr
      BY <2>2, Arrives
    <3>2. PICK c \in 0..Len(sent) - 1:
             /\ c + 1 \in 1..Len(sent)
             /\ Handled = Expected(SubSeq(sent, 1, c))
             /\ Handled' = Seen(Handled, sent[c + 1])
             /\ \E pos: /\ Carries(sent, c + 1, pos, Transit')
                        /\ ~cut => Len(Transit') = pos[Len(sent)]
      BY <2>2, Arrives
    <3>3. Len(sent) \in Nat /\ sent \in Seq(Packets)
      BY <1>1, LenProperties DEF Sendable
    <3>4. c + 1 \in 0..Len(sent) /\ (c + 1) - 1 = c
      BY <3>2, <3>3
    <3>5. Handled' = Expected(SubSeq(sent, 1, c + 1))
      BY <3>2, <3>3, <3>4, ExpectedStep
    <3>6. PICK k \in 0..Len(sent): k = c + 1
      BY <3>4
    <3>7. OnItsWay(k)'
      BY <1>2, <3>2, <3>6 DEF OnItsWay
    <3>8. Handled' = Expected(SubSeq(sent', 1, k)) /\ k \in 0..Len(sent')
      BY <1>2, <3>5, <3>6
    <3> QED
      BY <3>1, <3>7, <3>8 DEF StreamInv
  <2> QED
    BY <2>1, <2>2
<1> QED
  BY <1>2, <1>4, <1>5, <1>6 DEF IInv

LEMMA Inductive ==
  ASSUME IInv, [Next]_vars
  PROVE  IInv'
<1>1. CASE UNCHANGED vars
  <2>1. UNCHANGED <<state, out, fin, sent, overtaken, foreign, cut, input, peer, got, socket>>
    BY <1>1 DEF vars, sender, receiver
  <2>2. TypeOK'
    BY <2>1 DEF IInv, TypeOK
  <2>3. Transit' = Transit
    BY <2>1 DEF Transit
  <2>4. Sendable(sent)' /\ StreamInv'
    BY <2>1, <2>3, SameBytes
  <2> QED
    BY <2>1, <2>2, <2>4 DEF IInv
<1>2. CASE \E p \in Packets: Send(p)
  BY <1>2, SendKeeps
<1>3. CASE HandleTcpConWrite
  BY <1>3, WriteKeeps
<1>4. CASE Close \/ RemoveTcpCon
  BY <1>4, CloseKeeps
<1>5. CASE Recycle
  BY <1>5, RecycleKeeps
<1>6. CASE HandleTcpConRead
  BY <1>6, ReadKeeps
<1>7. CASE OnUnserialize
  BY <1>7, UnserializeKeeps
<1> QED
  BY <1>1, <1>2, <1>3, <1>4, <1>5, <1>6, <1>7 DEF Next

-------------------------------------------------------------------------------
(* The theorems. *)

(* Every byte that tcpSend took lies where its packet has it, in one of the *)
(* buffers or the socket, until onUnserialize takes the packet.             *)
THEOREM StreamInvariant == Spec => []IInv
<1>1. IInv /\ [Next]_vars => IInv'
  BY Inductive
<1> QED
  BY <1>1, InitHolds, PTL DEF Spec

(* Everything that the stream holds is made of bytes, in whatever way the   *)
(* packets are split by the buffers.                                        *)
THEOREM StreamTyped == Spec => []TypeOK
<1>1. IInv => TypeOK
  BY DEF IInv
<1> QED
  BY <1>1, StreamInvariant, PTL

LEMMA NeverFails == IInv => NoFailure
<1> SUFFICES ASSUME IInv, ~Broken
             PROVE  /\ peer \notin {"failed", "crashed"}
                    /\ \A i \in DOMAIN got: Handled[i].msg # NullPtr
  BY DEF NoFailure
<1>1. peer \in {"open", "ended"} /\ \A i \in DOMAIN got: OnPacket(got[i]).msg # NullPtr
  BY DEF IInv, StreamInv
<1>2. \A i \in DOMAIN got: Handled[i] = OnPacket(got[i])
  BY DEF Handled
<1> QED
  BY <1>1, <1>2

(* onUnserialize never meets an unknown type or a null pointer on a stream  *)
(* of whole packets, and no handler a message that ends within a field.     *)
THEOREM StreamNeverFails == Spec => []NoFailure
BY StreamInvariant, NeverFails, PTL

-------------------------------------------------------------------------------
(* The refinement of MessageChannel, step by step. *)

LEMMA ChannelInitially == Init => Channel!Init
<1> SUFFICES ASSUME Init PROVE Channel!Init
  OBVIOUS
<1>1. Expected(sent) = <<>>
  <2>1. <<>> \in Seq(Packets) /\ SubSeq(<<>>, 1, 0) = <<>>
    BY EmptySeq
  <2> QED
    BY <2>1, ExpectedStep DEF Init
<1>2. Handled = <<>>
  BY DEF Init, Handled
<1>3. peer # "ended" /\ cut = FALSE /\ ~Broken
  BY DEF Init, Broken
<1> QED
  BY <1>1, <1>2, <1>3 DEF Channel!Init

LEMMA SendPuts ==
  ASSUME IInv, ~Broken, NEW p \in Packets, Send(p)
  PROVE  Channel!Put \/ UNCHANGED Channel!vars \/ Broken'
<1> SUFFICES ASSUME ~Broken' PROVE Channel!Put \/ UNCHANGED Channel!vars
  OBVIOUS
<1>1. /\ sent \in Seq(Packets) /\ sent' = Append(sent, p) /\ state = "CONNECTED"
      /\ UNCHANGED <<cut, peer, got>>
  BY DEF IInv, Sendable, Send, receiver
<1>2. Handled' = Handled /\ (peer = "ended")' = (peer = "ended") /\ ~cut /\ cut' = cut
  BY <1>1 DEF Handled, IInv
<1> DEFINE x == Expected(sent)
           y == Expected(Append(sent, p))
<1>3. x \in Seq(Items) /\ y = Seen(x, p) /\ Len(x) \in Nat
  BY <1>1, ExpectedAppend, LenProperties
<1>4. Expected(sent)' = y
  BY <1>1
<1> HIDE DEF y
<1>5. CASE Heartbeat(p)
  <2>1. Expected(sent)' = Expected(sent)
    BY <1>3, <1>4, <1>5 DEF Seen
  <2>2. Broken' = Broken
    BY DEF Broken
  <2> QED
    BY <1>2, <2>1, <2>2 DEF Channel!vars
<1>6. CASE ~Heartbeat(p)
  <2> HIDE DEF x
  <2>1. y = Append(x, AsReceived(p)) /\ AsReceived(p) \in Items
    BY <1>3, <1>6 DEF Seen, Items
  <2>2. /\ y \in Seq(Items) /\ Len(y) = Len(x) + 1
        /\ \A i \in 1..Len(x): y[i] = x[i]
    BY <1>3, <2>1, AppendProperties
  <2>3. SubSeq(y, 1, Len(x)) = x
    <3>1. Len(x) \in 0..Len(y)
      BY <1>3, <2>2
    <3>2. /\ SubSeq(y, 1, Len(x)) \in Seq(Items) /\ Len(SubSeq(y, 1, Len(x))) = Len(x)
          /\ \A i \in 1..Len(x): SubSeq(y, 1, Len(x))[i] = y[i]
      BY <2>2, <3>1, FirstType
    <3> QED
      BY <1>3, <2>2, <3>2, SeqEqual
  <2>4. Len(Expected(sent)') = Len(Expected(sent)) + 1
        /\ SubSeq(Expected(sent)', 1, Len(Expected(sent))) = Expected(sent)
    BY <1>4, <2>2, <2>3 DEF x
  <2> QED
    BY <1>2, <2>4 DEF Channel!Put
<1> QED
  BY <1>5, <1>6

LEMMA ArrivalDelivers ==
  ASSUME IInv, ~Broken, OnUnserialize
  PROVE  Channel!Deliver \/ UNCHANGED Channel!vars
<1>1. PICK c \in 0..Len(sent) - 1:
        /\ c + 1 \in 1..Len(sent)
        /\ Handled = Expected(SubSeq(sent, 1, c))
        /\ Handled' = Seen(Handled, sent[c + 1])
  BY Arrives
<1>2. peer = "open" /\ peer' = "open" /\ UNCHANGED sender
  BY Arrives DEF OnUnserialize
<1>3. /\ Expected(sent)' = Expected(sent) /\ cut' = cut /\ Broken' = Broken
      /\ (peer = "ended")' = (peer = "ended") /\ peer # "ended"
  BY <1>2 DEF sender, Broken
<1>4. sent \in Seq(Packets) /\ Len(sent) \in Nat
  BY LenProperties DEF IInv, Sendable
<1>5. PICK p \in Packets: p = sent[c + 1]
  BY <1>1, <1>4, ElementOfSeq
<1>6. CASE Heartbeat(p)
  <2>1. Handled' = Handled
    BY <1>1, <1>5, <1>6 DEF Seen
  <2> QED
    BY <1>3, <2>1 DEF Channel!vars
<1>7. CASE ~Heartbeat(p)
  <2>1. c \in 0..Len(sent) /\ c + 1 \in 0..Len(sent) /\ (c + 1) - 1 = c
    BY <1>1, <1>4
  <2>2. PICK h \in Seq(Items): h = Handled
    BY <1>1, <1>4, <2>1, ExpectedStep
  <2>3. Expected(SubSeq(sent, 1, c + 1)) = Append(h, AsReceived(p))
    BY <1>1, <1>4, <1>5, <1>7, <2>1, <2>2, ExpectedStep DEF Seen
  <2>4. AsReceived(p) \in Items
    BY DEF Items
  <2> DEFINE y == Append(h, AsReceived(p))
             x == Expected(sent)
  <2>5. Len(y) = Len(h) + 1 /\ Len(h) \in Nat /\ y[Len(h) + 1] = AsReceived(p)
    BY <2>2, <2>4, AppendProperties, LenProperties
  <2>6. Len(y) <= Len(x) /\ \A i \in 1..Len(y): x[i] = y[i]
    BY <1>4, <2>1, <2>3, ExpectedGrows
  <2>7. Len(x) \in Nat
    BY <1>4, ExpectedAppend, <1>5, LenProperties
  <2> HIDE DEF x, y
  <2>8. Len(h) < Len(x) /\ x[Len(h) + 1] = AsReceived(p)
    BY <2>5, <2>6, <2>7
  <2>9. Handled' = Append(Handled, Expected(sent)[Len(Handled) + 1])
    BY <1>1, <1>5, <1>7, <2>2, <2>8 DEF Seen, x
  <2>10. Len(Handled) < Len(Expected(sent))
    BY <2>2, <2>8 DEF x
  <2> QED
    BY <1>3, <2>9, <2>10 DEF Channel!Deliver
<1> QED
  BY <1>6, <1>7

(* The end is read when nothing is on its way but what was cut. *)
LEMMA ReadingEnds ==
  ASSUME IInv, ~Broken, ReadEnd
  PROVE  Channel!End
<1>1. /\ peer = "open" /\ ~HasBlock(input) /\ socket = <<>> /\ fin
      /\ peer' = "ended" /\ UNCHANGED <<sent, got, overtaken, foreign, cut>>
  BY DEF ReadEnd, Reading, sender
<1>2. TypeOK /\ Sendable(sent) /\ out = <<>>
  BY <1>1 DEF IInv, TypeOK
<1>3. Expected(sent)' = Expected(sent) /\ Handled' = Handled /\ cut' = cut
  BY <1>1 DEF Handled
<1>4. cut \/ Handled = Expected(sent)
  <2> SUFFICES ASSUME ~cut PROVE Handled = Expected(sent)
    OBVIOUS
  <2>1. PICK c \in 0..Len(sent): Handled = Expected(SubSeq(sent, 1, c)) /\ OnItsWay(c)
    BY <1>1 DEF IInv, StreamInv
  <2>2. PICK i \in Seq(Bytes): i = input
    BY <1>2, BytesType
  <2>3. Transit = i
    <3>1. Glue(i, Glue(<<>>, <<>>)) = i
      <4>1. <<>> \in Seq(Bytes)
        BY EmptySeq
      <4> QED
        BY <4>1, GlueLaws
    <3> QED
      BY <1>1, <1>2, <2>2, <3>1 DEF Transit, Join, Glue
  <2>4. PICK pos: Carries(sent, c, pos, i) /\ Len(i) = pos[Len(sent)]
    BY <2>1, <2>3 DEF OnItsWay
  <2>5. c = Len(sent)
    BY <1>1, <1>2, <2>2, <2>4, BlockComes
  <2>6. SubSeq(sent, 1, Len(sent)) = sent
    BY <1>2, SubSeqFull DEF Sendable
  <2> QED
    BY <2>1, <2>5, <2>6
<1>5. peer # "ended"
  BY <1>1
<1> QED
  BY <1>1, <1>3, <1>4, <1>5 DEF Channel!End

LEMMA ChannelStep ==
  ASSUME IInv, [Next]_vars
  PROVE  [Channel!Next]_(Channel!vars)
<1> SUFFICES ASSUME ~Broken' PROVE Channel!Next \/ UNCHANGED Channel!vars
  BY DEF Channel!Next
<1>1. ~Broken
  BY DEF Broken, Next, vars, sender, receiver, Send, HandleTcpConWrite, WriteOut, WriteForeign,
         Close, RemoveTcpCon, Recycle, HandleTcpConRead, ReadSome, ReadEnd, OnUnserialize
<1>2. ASSUME UNCHANGED <<sent, got, peer, overtaken, foreign, cut>>
      PROVE  UNCHANGED Channel!vars
  <2>1. Handled' = Handled /\ Broken' = Broken /\ Expected(sent)' = Expected(sent)
    BY <1>2 DEF Handled, Broken
  <2> QED
    BY <1>2, <2>1 DEF Channel!vars
<1>3. CASE UNCHANGED vars
  BY <1>2, <1>3 DEF vars, sender, receiver
<1>4. CASE \E p \in Packets: Send(p)
  BY <1>1, <1>4, SendPuts DEF Channel!Next
<1>5. CASE HandleTcpConWrite \/ Close \/ RemoveTcpCon \/ ReadSome
  <2>1. UNCHANGED <<sent, got, peer, overtaken, cut>>
    BY <1>5 DEF HandleTcpConWrite, WriteOut, WriteForeign, Close, RemoveTcpCon, ReadSome,
                sender, receiver
  <2>2. foreign' = foreign
    <3>1. ~WriteForeign
      BY DEF WriteForeign, Broken
    <3> QED
      BY <1>5, <3>1 DEF HandleTcpConWrite, WriteOut, Close, RemoveTcpCon, ReadSome, sender
  <2> QED
    BY <1>2, <2>1, <2>2
<1>6. CASE Recycle
  <2>1. cut' /\ UNCHANGED <<sent, got, peer>>
    BY <1>6 DEF Recycle, receiver
  <2>2. Handled' = Handled /\ Expected(sent)' = Expected(sent)
    BY <2>1 DEF Handled
  <2> QED
    BY <1>1, <2>1, <2>2 DEF Channel!GiveUp, Channel!Next
<1>7. CASE ReadEnd
  BY <1>1, <1>7, ReadingEnds DEF Channel!Next
<1>8. CASE OnUnserialize
  BY <1>1, <1>8, ArrivalDelivers DEF Channel!Next
<1> QED
  BY <1>3, <1>4, <1>5, <1>6, <1>7, <1>8 DEF Next, HandleTcpConRead

(* The two applications see a channel of messages: what tcpSend takes is    *)
(* dispatched as it was given, in order and once, and the end of the stream *)
(* comes after all of it, until bytes overtake buffered ones or memory      *)
(* behind the array of vectors is sent.                                     *)
THEOREM StreamIsChannel == Spec => ChannelSpec
<1>1. IInv /\ [Next]_vars => [Channel!Next]_(Channel!vars)
  BY ChannelStep
<1> QED
  BY <1>1, StreamInvariant, ChannelInitially, PTL DEF Spec, ChannelSpec, Channel!Spec

===============================================================================

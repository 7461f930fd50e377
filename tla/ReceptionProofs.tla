-------------------------- MODULE ReceptionProofs ---------------------------
(***************************************************************************)
(* Proofs about how bytes become messages.                                 *)
(*                                                                         *)
(* Frames: what either end writes, both ends read, and a pause brings the  *)
(* device back whatever came before, for any messages that fit both ends,  *)
(* any number of frames and any damage.                                    *)
(*                                                                         *)
(* The server's receive buffer: for every capacity, every set of request   *)
(* sizes and any number of bytes, BufferInv is an invariant, and the       *)
(* buffer implements ByteStream.                                           *)
(***************************************************************************)
EXTENDS Framing, AsyncReadBuffer, FiniteSetTheorems, SequenceTheorems, TLAPS

-----------------------------------------------------------------------------
(* Induction on the natural numbers, for sets.                              *)

LEMMA Smallest ==
  ASSUME NEW T \in SUBSET Nat, T # {}
  PROVE  \E n \in T : \A k \in T : n <= k
<1> DEFINE F == {0 .. n : n \in T}
<1>1. F \subseteq FiniteSubsetsOf(Nat) /\ F # {}
  <2>1. \A n \in T : 0 .. n \in SUBSET Nat /\ IsFiniteSet(0 .. n)
    BY FS_Interval
  <2> QED
    BY <2>1 DEF FiniteSubsetsOf
<1>2. IsWellFoundedOn(StrictSubsetOrdering(Nat), FiniteSubsetsOf(Nat))
  BY FS_StrictSubsetOrderingWellFounded
<1> HIDE DEF F
<1>3. PICK x \in F : \A y \in F : ~(<<y, x>> \in StrictSubsetOrdering(Nat))
  BY <1>1, <1>2, WFMin
<1>4. PICK n \in T : x = 0 .. n
  BY DEF F
<1>5. ASSUME NEW k \in T, k < n PROVE FALSE
  <2>1. 0 .. k \in F /\ 0 .. k \subseteq 0 .. n /\ n \notin 0 .. k /\ n \in 0 .. n
    BY <1>5 DEF F
  <2>2. 0 .. k \in SUBSET Nat /\ 0 .. n \in SUBSET Nat /\ 0 .. k # 0 .. n
    BY <2>1
  <2> QED
    BY <1>3, <1>4, <2>1, <2>2 DEF StrictSubsetOrdering
<1> QED
  BY <1>5

LEMMA Induction ==
  ASSUME NEW S, 0 \in S, \A n \in Nat : n \in S => n + 1 \in S
  PROVE  Nat \subseteq S
<1> SUFFICES ASSUME Nat \ S # {} PROVE FALSE
  OBVIOUS
<1>1. PICK n \in Nat \ S : \A k \in Nat \ S : n <= k
  BY Smallest
<1>2. n # 0 /\ n - 1 \in Nat /\ n - 1 \in S
  BY <1>1
<1> QED
  BY <1>1, <1>2

-----------------------------------------------------------------------------
(* Sums of bytes. *)

(* The recursion of sums() has a solution. *)
LEMMA SumsDef ==
  ASSUME NEW s \in Seq(Nat)
  PROVE  sums(s) = [i \in 0 .. Len(s) |-> IF i = 0 THEN 0 ELSE sums(s)[i - 1] + s[i]]
<1> DEFINE Solves(g, n) == g = [i \in 0 .. n |-> IF i = 0 THEN 0 ELSE g[i - 1] + s[i]]
           S == {n \in Nat : n <= Len(s) => \E g : Solves(g, n)}
<1>1. 0 \in S
  <2> DEFINE g == [i \in 0 .. 0 |-> 0]
  <2>1. Solves(g, 0)
    OBVIOUS
  <2> QED
    BY <2>1
<1>2. ASSUME NEW n \in Nat, n \in S PROVE n + 1 \in S
  <2> SUFFICES ASSUME n + 1 <= Len(s) PROVE \E g : Solves(g, n + 1)
    OBVIOUS
  <2>0. Len(s) \in Nat
    OBVIOUS
  <2>1. PICK g : Solves(g, n)
    BY <1>2, <2>0
  <2> DEFINE h == [i \in 0 .. n + 1 |-> IF i = n + 1 THEN g[n] + s[n + 1] ELSE g[i]]
  <2>2. Solves(h, n + 1)
    BY <2>1
  <2> QED
    BY <2>2
<1> HIDE DEF S
<1>3. Nat \subseteq S
  BY <1>1, <1>2, Induction
<1>4. PICK g : Solves(g, Len(s))
  BY <1>3 DEF S
<1> QED
  BY <1>4 DEF sums

LEMMA SumsSteps ==
  ASSUME NEW s \in Seq(Nat)
  PROVE  /\ sums(s)[0] = 0
         /\ \A i \in Nat : i < Len(s) => sums(s)[i + 1] = sums(s)[i] + s[i + 1]
<1> DEFINE f == sums(s)
<1>1. f = [i \in 0 .. Len(s) |-> IF i = 0 THEN 0 ELSE f[i - 1] + s[i]]
  BY SumsDef
<1>2. Len(s) \in Nat
  OBVIOUS
<1> HIDE DEF f
<1>3. f[0] = 0
  BY <1>1, <1>2
<1>4. ASSUME NEW i \in Nat, i < Len(s) PROVE f[i + 1] = f[i] + s[i + 1]
  <2>1. i + 1 \in 0 .. Len(s) /\ i + 1 # 0 /\ (i + 1) - 1 = i
    BY <1>2, <1>4
  <2> QED
    BY <1>1, <2>1
<1> QED
  BY <1>3, <1>4 DEF f

(* A sum is a number and depends on the bytes summed only. *)
LEMMA SumsAgree ==
  ASSUME NEW s \in Seq(Nat), NEW t \in Seq(Nat), NEW k \in Nat, k <= Len(s), k <= Len(t),
         \A i \in 1 .. k : s[i] = t[i]
  PROVE  sums(s)[k] \in Nat /\ sums(s)[k] = sums(t)[k]
<1> DEFINE S == {n \in Nat : n <= k => sums(s)[n] \in Nat /\ sums(s)[n] = sums(t)[n]}
<1>1. 0 \in S
  BY SumsSteps
<1>2. ASSUME NEW n \in Nat, n \in S PROVE n + 1 \in S
  <2> SUFFICES ASSUME n + 1 <= k
               PROVE  sums(s)[n + 1] \in Nat /\ sums(s)[n + 1] = sums(t)[n + 1]
    OBVIOUS
  <2>0. Len(s) \in Nat /\ Len(t) \in Nat
    OBVIOUS
  <2>1. n < Len(s) /\ n < Len(t) /\ n + 1 \in 1 .. k /\ n + 1 \in 1 .. Len(s)
    BY <2>0
  <2>2. s[n + 1] \in Nat /\ s[n + 1] = t[n + 1]
    BY <2>1
  <2>3. sums(s)[n] \in Nat /\ sums(s)[n] = sums(t)[n]
    BY <1>2
  <2>4. sums(s)[n + 1] = sums(s)[n] + s[n + 1] /\ sums(t)[n + 1] = sums(t)[n] + t[n + 1]
    BY <2>1, SumsSteps
  <2> QED
    BY <2>2, <2>3, <2>4
<1> HIDE DEF S
<1>3. k \in S
  BY <1>1, <1>2, Induction
<1> QED
  BY <1>3 DEF S

LEMMA SumEmpty == sum(<<>>) = 0
<1>1. <<>> \in Seq(Nat) /\ Len(<<>>) = 0
  OBVIOUS
<1> QED
  BY <1>1, SumsSteps DEF sum

LEMMA SumType ==
  ASSUME NEW s \in Seq(Nat)
  PROVE  sum(s) \in Nat
<1>1. Len(s) \in Nat
  OBVIOUS
<1> QED
  BY <1>1, SumsAgree DEF sum

LEMMA SumGrows ==
  ASSUME NEW s \in Seq(Nat), NEW c \in Nat
  PROVE  sum(s \o <<c>>) = sum(s) + c
<1> DEFINE t == s \o <<c>>
           n == Len(s)
<1>1. /\ t \in Seq(Nat) /\ Len(t) = n + 1 /\ n \in Nat /\ t[n + 1] = c
      /\ \A i \in 1 .. n : s[i] = t[i]
  OBVIOUS
<1> HIDE DEF t
<1>2. sums(t)[n + 1] = sums(t)[n] + t[n + 1]
  BY <1>1, SumsSteps
<1>3. sums(s)[n] = sums(t)[n] /\ sums(s)[n] \in Nat
  <2>1. n <= Len(s) /\ n <= Len(t)
    BY <1>1
  <2> HIDE DEF n
  <2> QED
    BY <1>1, <2>1, SumsAgree
<1> QED
  BY <1>1, <1>2, <1>3 DEF sum, t

(* The topic id is summed with the payload. *)
LEMMA SumJoins ==
  ASSUME NEW a \in Nat, NEW b \in Nat, NEW s \in Seq(Nat)
  PROVE  sum(<<a, b>> \o s) = a + b + sum(s)
<1> DEFINE t == <<a, b>> \o s
           S == {n \in Nat : n <= Len(s) => sums(t)[n + 2] = a + b + sums(s)[n]}
<1>0. Len(s) \in Nat
  OBVIOUS
<1>1. /\ t \in Seq(Nat) /\ Len(t) = Len(s) + 2 /\ t[1] = a /\ t[2] = b
      /\ \A i \in 1 .. Len(s) : t[i + 2] = s[i]
  OBVIOUS
<1> HIDE DEF t
<1>2. 0 \in S
  <2>1. \A i \in Nat : i < Len(t) => sums(t)[i + 1] = sums(t)[i] + t[i + 1]
    BY <1>1, SumsSteps
  <2>2. sums(t)[0] = 0 /\ sums(s)[0] = 0
    BY <1>1, SumsSteps
  <2>3. sums(t)[0 + 1] = sums(t)[0] + t[0 + 1] /\ sums(t)[1 + 1] = sums(t)[1] + t[1 + 1]
    BY <1>0, <1>1, <2>1
  <2> QED
    BY <1>1, <2>2, <2>3
<1>3. ASSUME NEW n \in Nat, n \in S PROVE n + 1 \in S
  <2> SUFFICES ASSUME n + 1 <= Len(s) PROVE sums(t)[(n + 1) + 2] = a + b + sums(s)[n + 1]
    OBVIOUS
  <2>1. n < Len(s) /\ n + 2 \in Nat /\ n + 2 < Len(t) /\ (n + 2) + 1 = (n + 1) + 2
        /\ n + 1 \in 1 .. Len(s)
    BY <1>0, <1>1
  <2>2. sums(t)[(n + 2) + 1] = sums(t)[n + 2] + t[(n + 2) + 1]
    BY <1>1, <2>1, SumsSteps
  <2>3. sums(s)[n + 1] = sums(s)[n] + s[n + 1]
    BY <2>1, SumsSteps
  <2>4. sums(t)[n + 2] = a + b + sums(s)[n] /\ t[(n + 2) + 1] = s[n + 1]
    BY <1>0, <1>1, <1>3, <2>1
  <2>5. sums(s)[n] \in Nat /\ s[n + 1] \in Nat
    BY <1>0, <2>1, SumsAgree
  <2> QED
    BY <2>1, <2>2, <2>3, <2>4, <2>5
<1> HIDE DEF S
<1>4. Len(s) \in S
  BY <1>0, <1>2, <1>3, Induction
<1> QED
  BY <1>0, <1>1, <1>4 DEF S, t, sum

-----------------------------------------------------------------------------
(* Bytes of 16-bit numbers and checksums. *)

LEMMA Bytes16 ==
  ASSUME NEW v \in Word
  PROVE  /\ lo(v) \in Byte /\ hi(v) \in Byte /\ lo(v) + 256 * hi(v) = v
         /\ checksum16(v) = (lo(v) + hi(v)) % 256 /\ checksum16(v) \in Byte
<1> DEFINE a == lo(v)
           b == hi(v)
<1>1. v \in Nat /\ v < 256 * 256
  BY DEF Word, Words
<1>2. a \in 0 .. 255 /\ b \in 0 .. 255 /\ v = a + 256 * b
  BY <1>1 DEF lo, hi
<1>3. checksum16(v) = (b + v) % 256
  BY DEF checksum16
<1> HIDE DEF a, b
<1>4. (b + v) % 256 = (a + b) % 256 /\ (b + v) % 256 \in 0 .. 255
  BY <1>2
<1> QED
  BY <1>2, <1>3, <1>4 DEF Byte, a, b

LEMMA BytesAreNumbers ==
  ASSUME NEW s, s \in Seq(Byte)
  PROVE  s \in Seq(Nat) /\ \A i \in 1 .. Len(s) : s[i] \in Byte /\ s[i] \in Nat
<1>0. Byte \subseteq Nat
  BY DEF Byte
<1>1. \A i \in 1 .. Len(s) : s[i] \in Byte
  OBVIOUS
<1>2. \A i \in 1 .. Len(s) : s[i] \in Nat
  BY <1>0, <1>1
<1>3. s \in [1 .. Len(s) -> Nat] /\ Len(s) \in Nat
  BY <1>2
<1> QED
  BY <1>1, <1>2, <1>3

LEMMA Complement ==
  ASSUME NEW n \in Nat
  PROVE  255 - (n % 256) \in Byte /\ (n + (255 - (n % 256))) % 256 = 255
  BY DEF Byte

(* The two ends sum the topic id in different ways. *)
LEMMA SameChecksum ==
  ASSUME NEW v \in Word, NEW n \in Nat
  PROVE  (n + checksum16(v)) % 256 = (lo(v) + hi(v) + n) % 256
<1>1. lo(v) \in Nat /\ hi(v) \in Nat /\ checksum16(v) = (lo(v) + hi(v)) % 256
  BY Bytes16 DEF Byte
<1>2. \A a \in Nat : (n + (a % 256)) % 256 = (a + n) % 256
  OBVIOUS
<1>3. lo(v) + hi(v) \in Nat
  BY <1>1
<1> QED
  BY <1>1, <1>2, <1>3

-----------------------------------------------------------------------------
(* The writers. *)

\* p was written to a stream of n bytes.
Written(c, p, n) ==
  /\ \E b \in Seq(Byte) : /\ c = [buffer_ |-> b, offset_ |-> Len(p), thrown |-> FALSE]
                          /\ Len(b) = n /\ \A i \in 1 .. Len(p) : b[i] = p[i]
  /\ p \in Seq(Byte) /\ Len(p) <= n

LEMMA PutAppends ==
  ASSUME NEW c, NEW n, NEW p, NEW bytes, n \in Nat, bytes \in Seq(Byte),
         Written(c, p, n), Len(p) + Len(bytes) <= n
  PROVE  Written(Put(c, bytes), p \o bytes, n)
<1>1. PICK b \in Seq(Byte) : /\ c = [buffer_ |-> b, offset_ |-> Len(p), thrown |-> FALSE]
                             /\ Len(b) = n /\ \A i \in 1 .. Len(p) : b[i] = p[i]
  BY DEF Written
<1> DEFINE k == Len(p)
           m == Len(bytes)
           q == p \o bytes
           d == [i \in DOMAIN b |-> IF i - k \in DOMAIN bytes THEN bytes[i - k] ELSE b[i]]
<1>2. /\ p \in Seq(Byte) /\ k \in Nat /\ m \in Nat /\ DOMAIN bytes = 1 .. m /\ k + m <= n
      /\ DOMAIN b = 1 .. n
  BY <1>1 DEF Written
<1>3. /\ q \in Seq(Byte) /\ Len(q) = k + m
      /\ \A i \in 1 .. k + m : q[i] = IF i <= k THEN p[i] ELSE bytes[i - k]
  BY <1>2
<1>4. Put(c, bytes) = [buffer_ |-> d, offset_ |-> k + m, thrown |-> FALSE]
  <2>1. c.buffer_ = b /\ c.offset_ = k /\ c.thrown = FALSE
    BY <1>1
  <2>2. ~(c.thrown \/ ~check_space(c, Len(bytes)))
    BY <1>1, <1>2, <2>1 DEF check_space, getLength
  <2>3. Put(c, bytes) = [c EXCEPT !.offset_ = @ + Len(bytes),
                                  !.buffer_ = [i \in DOMAIN @ |->
           IF i - c.offset_ \in DOMAIN bytes THEN bytes[i - c.offset_] ELSE @[i]]]
    BY <2>2 DEF Put
  <2>4. Put(c, bytes) = [c EXCEPT !.offset_ = k + m, !.buffer_ = d]
    BY <2>1, <2>3
  <2> HIDE DEF d, k, m
  <2> QED
    BY <1>1, <2>4 DEF k
<1>5. d \in Seq(Byte) /\ Len(d) = n
  <2>1. \A i \in 1 .. n : d[i] \in Byte
    BY <1>1, <1>2
  <2>2. d \in [1 .. n -> Byte]
    BY <1>2, <2>1
  <2> QED
    BY <2>2
<1>6. \A i \in 1 .. k + m : d[i] = q[i]
  BY <1>1, <1>2, <1>3
<1> HIDE DEF d, q, k
<1> QED
  BY <1>2, <1>3, <1>4, <1>5, <1>6 DEF Written, k, q

\* A frame, as the device writes it.
Size(m) == Len(m.payload)
Header(m) ==
  <<SYNC, PROTOCOL_VER, lo(Size(m)), hi(Size(m)), 255 - ((lo(Size(m)) + hi(Size(m))) % 256)>>
Body(m) == <<lo(m.topic), hi(m.topic)>> \o m.payload
Check(m) == 255 - ((lo(m.topic) + hi(m.topic) + sum(m.payload)) % 256)

LEMMA MessageType ==
  ASSUME NEW m \in Messages
  PROVE  /\ m = [topic |-> m.topic, payload |-> m.payload]
         /\ m.topic \in Word /\ m.payload \in Seq(Byte) /\ m.payload \in Seq(Nat)
         /\ Size(m) \in Nat /\ Size(m) + 8 < Words /\ Size(m) + 1 <= buffer_max
         /\ Size(m) \in Word /\ isTopicValid(m.topic)
<1>1. m \in [topic : Word, payload : Seq(Byte)]
  BY MessagesAssumption
<1>2. m.payload \in Seq(Nat)
  BY <1>1, BytesAreNumbers
<1>3. Len(m.payload) + 8 < Words /\ Len(m.payload) + 1 <= buffer_max /\ isTopicValid(m.topic)
  BY MessagesFit DEF isTopicValid
<1>4. Len(m.payload) \in Nat
  BY <1>1
<1>5. Len(m.payload) \in Word
  <2>1. Words \in Nat
    BY DEF Words
  <2>2. \A n \in Nat : n + 8 < Words => n \in Word
    BY <2>1 DEF Word
  <2> QED
    BY <1>3, <1>4, <2>2
<1> QED
  BY <1>1, <1>2, <1>3, <1>4, <1>5 DEF Size

LEMMA FrameType ==
  ASSUME NEW m \in Messages
  PROVE  /\ publish(m) = (Header(m) \o Body(m)) \o <<Check(m)>>
         /\ Header(m) \in Seq(Byte) /\ Body(m) \in Seq(Byte) /\ Check(m) \in Byte
         /\ sum(m.payload) \in Nat
<1>1. /\ m.topic \in Word /\ Size(m) \in Word
      /\ m.payload \in Seq(Byte) /\ m.payload \in Seq(Nat)
  BY MessageType
<1>2. /\ lo(m.topic) \in Byte /\ hi(m.topic) \in Byte /\ lo(Size(m)) \in Byte /\ hi(Size(m)) \in Byte
      /\ lo(m.topic) \in Nat /\ hi(m.topic) \in Nat /\ lo(Size(m)) \in Nat /\ hi(Size(m)) \in Nat
  <2>1. Byte \subseteq Nat
    BY DEF Byte
  <2> QED
    BY <1>1, <2>1, Bytes16
<1>3. sum(Body(m)) = lo(m.topic) + hi(m.topic) + sum(m.payload) /\ sum(m.payload) \in Nat
  BY <1>1, <1>2, SumJoins, SumType DEF Body
<1>4. publish(m) = (Header(m) \o Body(m)) \o <<Check(m)>>
  BY <1>3 DEF publish, Header, Body, Check, Size
<1>5. SYNC \in Byte /\ PROTOCOL_VER \in Byte
  BY DEF SYNC, PROTOCOL_VER, Byte
<1>6. 255 - ((lo(Size(m)) + hi(Size(m))) % 256) \in Byte
  BY <1>2, Complement
<1>7. Check(m) \in Byte
  BY <1>2, <1>3, Complement DEF Check
<1>8. Header(m) \in Seq(Byte)
  BY <1>2, <1>5, <1>6 DEF Header
<1>9. Body(m) \in Seq(Byte)
  BY <1>1, <1>2 DEF Body
<1> QED
  BY <1>3, <1>4, <1>7, <1>8, <1>9

\* There is room for w behind p.
Room(p, w, n) == n \in Nat /\ w \in Seq(Byte) /\ Len(p) + Len(w) <= n

LEMMA PutNext ==
  ASSUME NEW c, NEW n, NEW p, NEW w, Written(c, p, n), Room(p, w, n)
  PROVE  Written(Put(c, w), p \o w, n)
  BY PutAppends DEF Room

LEMMA WrittenType ==
  ASSUME NEW c, NEW n, NEW p, Written(c, p, n)
  PROVE  p \in Seq(Byte)
  BY DEF Written

LEMMA Joins ==
  ASSUME NEW a, NEW b, a \in Seq(Byte), b \in Seq(Byte)
  PROVE  a \o b \in Seq(Byte) /\ Len(a \o b) = Len(a) + Len(b)
  OBVIOUS

LEMMA Regroup ==
  ASSUME NEW a, NEW b, NEW c, a \in Seq(Byte), b \in Seq(Byte), c \in Seq(Byte)
  PROVE  (a \o b) \o c = a \o (b \o c)
  BY ConcatAssociative

(* write_message() of the server and publish() of the device write the same *)
(* bytes, of which there are eight more than the payload has.               *)
THEOREM SameFrame ==
  ASSUME NEW m \in Messages
  PROVE  write_message(m) = publish(m) /\ publish(m) \in Seq(Byte) /\ Len(publish(m)) = Size(m) + 8
<1> DEFINE size == Size(m)
           n == size + 8
           w1 == <<SYNC, PROTOCOL_VER>>
           w2 == <<size % 256, size \div 256>>
           w3 == <<255 - checksum16(size)>>
           w4 == <<m.topic % 256, m.topic \div 256>>
           w5 == m.payload
           w6 == <<Check(m)>>
           p2 == w1 \o w2
           p3 == p2 \o w3
           p4 == p3 \o w4
           p5 == p4 \o w5
           p6 == p5 \o w6
           c0 == SimpleCdr([i \in 1 .. n |-> 0])
           c1 == write_uint16(c0, SYNC + 256 * PROTOCOL_VER)
           c2 == write_uint16(c1, size)
           c3 == write_uint8(c2, 255 - checksum16(size))
           c4 == write_uint16(c3, m.topic)
           c5 == write_vector(c4, m.payload)
           c6 == write_uint8(c5, Check(m))
<1>1. /\ m.topic \in Word /\ size \in Word /\ size \in Nat /\ size + 8 < Words
      /\ m.payload \in Seq(Byte) /\ m.payload \in Seq(Nat) /\ Len(m.payload) = size
  BY MessageType DEF Size
<1>2. (8 + size) % Words = n
  BY <1>1 DEF Words
<1>3. /\ Check(m) \in Byte
      /\ Check(m) = 255 - ((sum(m.payload) + checksum16(m.topic)) % 256)
      /\ checksum16(size) = (lo(size) + hi(size)) % 256
  <2>1. sum(m.payload) \in Nat /\ Check(m) \in Byte
    BY FrameType
  <2> QED
    BY <1>1, <2>1, SameChecksum, Bytes16 DEF Check
<1>4. write_message(m) = getData(c6)
  BY <1>2, <1>3 DEF write_message, Size
<1>5. /\ lo(size) \in Byte /\ hi(size) \in Byte /\ lo(m.topic) \in Byte /\ hi(m.topic) \in Byte
      /\ 255 - checksum16(size) \in Byte
  <2>1. \A x \in Byte : 255 - x \in Byte
    BY DEF Byte
  <2> QED
    BY <1>1, <2>1, Bytes16
<1>6. /\ w1 \in Seq(Byte) /\ Len(w1) = 2 /\ w2 \in Seq(Byte) /\ Len(w2) = 2
      /\ w3 \in Seq(Byte) /\ Len(w3) = 1 /\ w4 \in Seq(Byte) /\ Len(w4) = 2
      /\ w5 \in Seq(Byte) /\ Len(w5) = size /\ w6 \in Seq(Byte) /\ Len(w6) = 1
  <2>1. SYNC \in Byte /\ PROTOCOL_VER \in Byte
    BY DEF SYNC, PROTOCOL_VER, Byte
  <2>2. \A a, b \in Byte : <<a, b>> \in Seq(Byte) /\ Len(<<a, b>>) = 2
    OBVIOUS
  <2>3. w2 = <<lo(size), hi(size)>> /\ w4 = <<lo(m.topic), hi(m.topic)>>
    BY DEF lo, hi
  <2>4. \A a \in Byte : <<a>> \in Seq(Byte) /\ Len(<<a>>) = 1
    OBVIOUS
  <2> QED
    BY <1>1, <1>3, <1>5, <2>1, <2>2, <2>3, <2>4
<1>7. Header(m) = p3 /\ Body(m) = w4 \o w5
  BY <1>3 DEF Header, Body, lo, hi
<1>8. /\ c1 = Put(c0, w1) /\ c2 = Put(c1, w2) /\ c3 = Put(c2, w3)
      /\ c4 = Put(c3, w4) /\ c5 = Put(c4, w5) /\ c6 = Put(c5, w6)
  <2>1. (SYNC + 256 * PROTOCOL_VER) % 256 = SYNC /\ (SYNC + 256 * PROTOCOL_VER) \div 256 = PROTOCOL_VER
    BY DEF SYNC, PROTOCOL_VER
  <2>2. c1 = Put(c0, w1)
    BY <2>1 DEF write_uint16
  <2>3. c2 = Put(c1, w2) /\ c4 = Put(c3, w4)
    BY Zenon DEF write_uint16
  <2>4. c3 = Put(c2, w3) /\ c6 = Put(c5, w6)
    BY Zenon DEF write_uint8
  <2>5. c5 = Put(c4, w5)
    BY Zenon DEF write_vector
  <2> QED
    BY <2>2, <2>3, <2>4, <2>5
<1>9. c0 = SimpleCdr([i \in 1 .. n |-> 0])
  OBVIOUS
<1> HIDE DEF c0, c1, c2, c3, c4, c5, c6, w1, w2, w3, w4, w5, w6, n
<1>10. n \in Nat /\ size \in Nat /\ n = 7 + size + 1
  BY <1>1 DEF n
<1> HIDE DEF size
<1>11. Written(c0, <<>>, n) /\ Len(<<>>) = 0 /\ <<>> \o w1 = w1
  <2> DEFINE b == [i \in 1 .. n |-> 0]
  <2>1. b \in Seq(Byte) /\ Len(b) = n
    BY <1>10 DEF Byte
  <2>2. c0 = [buffer_ |-> b, offset_ |-> 0, thrown |-> FALSE]
    BY <1>9 DEF SimpleCdr
  <2>3. <<>> \in Seq(Byte) /\ Len(<<>>) = 0 /\ <<>> \o w1 = w1 /\ 0 <= n
    BY <1>6, <1>10
  <2>4. \A i \in 1 .. 0 : b[i] = <<>>[i]
    OBVIOUS
  <2> HIDE DEF b
  <2>5. Written(c0, <<>>, n)
    BY <2>1, <2>2, <2>3, <2>4 DEF Written
  <2> QED
    BY <2>3, <2>5
<1>12. Written(c1, w1, n) /\ Len(w1) = 2
  <2>1. Room(<<>>, w1, n)
    BY <1>6, <1>10, <1>11 DEF Room
  <2>2. Written(Put(c0, w1), <<>> \o w1, n)
    BY <1>11, <2>1, PutNext
  <2> QED
    BY <1>6, <1>8, <1>11, <2>2
<1>13. Written(c2, p2, n) /\ Len(p2) = 2 + 2
  <2>1. Room(w1, w2, n)
    BY <1>6, <1>10, <1>12 DEF Room
  <2>2. Written(Put(c1, w2), w1 \o w2, n)
    BY <1>12, <2>1, PutNext
  <2>3. Len(w1 \o w2) = Len(w1) + Len(w2)
    BY <1>6, <1>12, WrittenType, Joins
  <2> QED
    BY <1>6, <1>8, <1>12, <2>2, <2>3
<1> HIDE DEF p2
<1>14. Written(c3, p3, n) /\ Len(p3) = 4 + 1
  <2>1. Room(p2, w3, n)
    BY <1>6, <1>10, <1>13 DEF Room
  <2>2. Written(Put(c2, w3), p2 \o w3, n)
    BY <1>13, <2>1, PutNext
  <2>3. Len(p2 \o w3) = Len(p2) + Len(w3)
    BY <1>6, <1>13, WrittenType, Joins
  <2> QED
    BY <1>6, <1>8, <1>13, <2>2, <2>3
<1> HIDE DEF p3
<1>15. Written(c4, p4, n) /\ Len(p4) = 5 + 2
  <2>1. Room(p3, w4, n)
    BY <1>6, <1>10, <1>14 DEF Room
  <2>2. Written(Put(c3, w4), p3 \o w4, n)
    BY <1>14, <2>1, PutNext
  <2>3. Len(p3 \o w4) = Len(p3) + Len(w4)
    BY <1>6, <1>14, WrittenType, Joins
  <2> QED
    BY <1>6, <1>8, <1>14, <2>2, <2>3
<1>16. p3 \in Seq(Byte) /\ p5 = p3 \o (w4 \o w5)
  <2>1. p3 \in Seq(Byte)
    BY <1>14, WrittenType
  <2>2. w4 \in Seq(Byte) /\ w5 \in Seq(Byte)
    BY <1>6
  <2> QED
    BY <2>1, <2>2, Regroup
<1> HIDE DEF p4
<1>17. Written(c5, p5, n) /\ Len(p5) = 7 + size
  <2>1. Room(p4, w5, n)
    BY <1>6, <1>10, <1>15 DEF Room
  <2>2. Written(Put(c4, w5), p4 \o w5, n)
    BY <1>15, <2>1, PutNext
  <2>3. Len(p4 \o w5) = Len(p4) + Len(w5)
    BY <1>6, <1>15, WrittenType, Joins
  <2> QED
    BY <1>6, <1>8, <1>15, <2>2, <2>3
<1> HIDE DEF p5
<1>18. Written(c6, p6, n) /\ Len(p6) = 7 + size + 1
  <2>1. Room(p5, w6, n)
    BY <1>6, <1>10, <1>17 DEF Room
  <2>2. Written(Put(c5, w6), p5 \o w6, n)
    BY <1>17, <2>1, PutNext
  <2>3. Len(p5 \o w6) = Len(p5) + Len(w6)
    BY <1>6, <1>17, WrittenType, Joins
  <2> QED
    BY <1>6, <1>8, <1>17, <2>2, <2>3
<1>19. p6 = publish(m)
  <2>1. publish(m) = (Header(m) \o Body(m)) \o <<Check(m)>>
    BY FrameType
  <2> QED
    BY <1>7, <1>16, <2>1 DEF w6
<1> HIDE DEF p6
<1>20. getData(c6) = p6
  <2>1. PICK b \in Seq(Byte) : /\ c6 = [buffer_ |-> b, offset_ |-> Len(p6), thrown |-> FALSE]
                               /\ Len(b) = n /\ \A i \in 1 .. Len(p6) : b[i] = p6[i]
    BY <1>18 DEF Written
  <2>2. p6 \in Seq(Byte) /\ Len(p6) = Len(b)
    BY <1>10, <1>18, <2>1 DEF Written
  <2>3. b = p6
    BY <2>1, <2>2, SeqEqual
  <2> QED
    BY <2>1, <2>3 DEF getData
<1>21. p6 \in Seq(Byte) /\ Len(p6) = size + 8
  BY <1>10, <1>18 DEF Written
<1> QED
  BY <1>4, <1>19, <1>20, <1>21 DEF size

\* s is a, then b.
Joined(s, a, b) ==
  /\ a \in Seq(Byte) /\ b \in Seq(Byte) /\ s \in Seq(Byte) /\ Len(s) = Len(a) + Len(b)
  /\ \A i \in 1 .. Len(a) : s[i] = a[i]
  /\ \A i \in 1 .. Len(b) : s[Len(a) + i] = b[i]

LEMMA JoinedBytes ==
  ASSUME NEW a, NEW b, a \in Seq(Byte), b \in Seq(Byte)
  PROVE  Joined(a \o b, a, b)
<1>1. Len(a) \in Nat /\ Len(b) \in Nat
  OBVIOUS
<1> QED
  BY <1>1 DEF Joined

LEMMA FrameBytes ==
  ASSUME NEW m \in Messages
  PROVE  /\ publish(m)[1] = SYNC /\ publish(m)[2] = PROTOCOL_VER
         /\ publish(m)[3] = lo(Size(m)) /\ publish(m)[4] = hi(Size(m))
         /\ publish(m)[5] = 255 - ((lo(Size(m)) + hi(Size(m))) % 256)
         /\ publish(m)[6] = lo(m.topic) /\ publish(m)[7] = hi(m.topic)
         /\ \A i \in 1 .. Size(m) : publish(m)[7 + i] = m.payload[i]
         /\ publish(m)[8 + Size(m)] = Check(m)
<1> DEFINE h == Header(m)
           b == Body(m)
           f == (h \o b) \o <<Check(m)>>
           l == Size(m)
<1>1. /\ h \in Seq(Byte) /\ b \in Seq(Byte) /\ publish(m) = f
      /\ Len(h) = 5 /\ Len(b) = l + 2 /\ l \in Nat
  <2>1. m.payload \in Seq(Byte) /\ Len(m.payload) = l /\ l \in Nat
    BY MessageType DEF Size
  <2>2. Len(h) = 5 /\ Len(b) = l + 2
    BY <2>1 DEF Header, Body
  <2> QED
    BY <2>1, <2>2, FrameType
<1>2. /\ h[1] = SYNC /\ h[2] = PROTOCOL_VER /\ h[3] = lo(Size(m)) /\ h[4] = hi(Size(m))
      /\ h[5] = 255 - ((lo(Size(m)) + hi(Size(m))) % 256)
  BY DEF Header
<1>3. b[1] = lo(m.topic) /\ b[2] = hi(m.topic) /\ \A i \in 1 .. l : b[2 + i] = m.payload[i]
  <2>1. m.payload \in Seq(Byte) /\ Len(m.payload) = l /\ l \in Nat
    BY MessageType DEF Size
  <2> HIDE DEF l
  <2> QED
    BY <2>1 DEF Body
<1> HIDE DEF h, b, l
<1>4. /\ \A i \in 1 .. 5 : f[i] = h[i]
      /\ \A i \in 1 .. l + 2 : f[5 + i] = b[i]
      /\ f[8 + l] = Check(m)
  <2> DEFINE g == h \o b
             c == <<Check(m)>>
  <2>1. c \in Seq(Byte) /\ Len(c) = 1 /\ c[1] = Check(m)
    <3>1. Check(m) \in Byte
      BY FrameType
    <3> QED
      BY <3>1
  <2>2. Joined(g, h, b)
    BY <1>1, JoinedBytes
  <2> HIDE DEF g, c
  <2>a. /\ Len(g) = 5 + (l + 2)
        /\ \A i \in 1 .. 5 : g[i] = h[i]
        /\ \A i \in 1 .. l + 2 : g[5 + i] = b[i]
    BY <1>1, <2>2 DEF Joined
  <2>8. g \in Seq(Byte)
    BY <2>2 DEF Joined
  <2>b. Joined(g \o c, g, c)
    BY <2>1, <2>8, JoinedBytes
  <2>3. /\ \A i \in 1 .. 5 + (l + 2) : (g \o c)[i] = g[i]
        /\ \A i \in 1 .. 1 : (g \o c)[5 + (l + 2) + i] = c[i]
    BY <2>1, <2>a, <2>b DEF Joined
  <2>4. \A i \in 1 .. l + 2 : 5 + i \in 1 .. 5 + (l + 2)
    BY <1>1
  <2>5. \A i \in 1 .. 5 : i \in 1 .. 5 + (l + 2)
    BY <1>1
  <2>6. 8 + l = 5 + (l + 2) + 1 /\ 1 \in 1 .. 1
    BY <1>1
  <2>7. (g \o c)[8 + l] = c[1]
    BY <2>3, <2>6
  <2> QED
    BY <2>1, <2>a, <2>3, <2>4, <2>5, <2>7 DEF g, c
<1>5. /\ f[1] = h[1] /\ f[2] = h[2] /\ f[3] = h[3] /\ f[4] = h[4] /\ f[5] = h[5]
      /\ f[6] = b[1] /\ f[7] = b[2] /\ f[8 + l] = Check(m)
  <2> HIDE DEF f
  <2>1. 1 \in 1 .. l + 2 /\ 2 \in 1 .. l + 2
    BY <1>1
  <2>2. f[5 + 1] = b[1] /\ f[5 + 2] = b[2]
    BY <1>4, <2>1
  <2> QED
    BY <1>4, <2>2
<1>6. ASSUME NEW i \in 1 .. l PROVE f[7 + i] = b[2 + i]
  <2>1. 2 + i \in 1 .. l + 2 /\ 5 + (2 + i) = 7 + i
    BY <1>1
  <2> QED
    BY <1>4, <2>1
<1> HIDE DEF f
<1> QED
  BY <1>1, <1>2, <1>3, <1>5, <1>6 DEF l

-----------------------------------------------------------------------------
(* The server's reader. *)

ServerState(mode, need, bytes, topic, got) ==
  [mode |-> mode, need |-> need, bytes |-> bytes, topic |-> topic, got |-> got]

LEMMA ServerSyncs ==
  ASSUME NEW t, NEW g
  PROVE  /\ ServerReads(ServerState("read_sync_first", 1, <<>>, t, g), SYNC)
              = ServerState("read_sync_second", 1, <<>>, t, g)
         /\ ServerReads(ServerState("read_sync_second", 1, <<>>, t, g), PROTOCOL_VER)
              = ServerState("read_id_length", 5, <<>>, t, g)
<1>1. \A x : Append(<<>>, x) = <<x>> /\ Len(<<x>>) = 1 /\ ~(Len(<<x>>) < 1) /\ <<x>>[0 + 1] = x
  OBVIOUS
<1>2. \A x : read_uint8(SimpleCdr(<<x>>)).value = x
  BY <1>1 DEF read_uint8, SimpleCdr
<1>3. ServerReads(ServerState("read_sync_first", 1, <<>>, t, g), SYNC)
        = read_sync_first(ServerState("read_sync_first", 1, <<>>, t, g), SimpleCdr(<<SYNC>>))
  BY <1>1 DEF ServerReads, ServerState
<1>4. ServerReads(ServerState("read_sync_second", 1, <<>>, t, g), PROTOCOL_VER)
        = read_sync_second(ServerState("read_sync_second", 1, <<>>, t, g), SimpleCdr(<<PROTOCOL_VER>>))
  BY <1>1 DEF ServerReads, ServerState
<1> QED
  BY <1>2, <1>3, <1>4 DEF read_sync_first, read_sync_second, awaiting, ServerState

(* It waits until it has what it asked for. *)
LEMMA ServerWaits ==
  ASSUME NEW mode, NEW need, NEW b, NEW x, NEW t, NEW g, b \in Seq(Byte), need \in Nat,
         Len(b) + 1 < need
  PROVE  ServerReads(ServerState(mode, need, b, t, g), x) = ServerState(mode, need, b \o <<x>>, t, g)
<1>1. Append(b, x) = b \o <<x>> /\ Len(Append(b, x)) = Len(b) + 1
  BY AppendIsConcat
<1>2. Len(Append(b, x)) < need
  BY <1>1
<1> QED
  BY <1>1, <1>2 DEF ServerReads, ServerState

\* b is what stands in f from place i to place k.
IsPart(b, f, i, k) ==
  /\ b \in Seq(Byte) /\ i \in Nat /\ k \in Nat /\ i <= k + 1 /\ Len(b) = k + 1 - i
  /\ \A j \in 1 .. k + 1 - i : b[j] = f[i - 1 + j]

LEMMA PartStarts ==
  ASSUME NEW f, NEW k \in Nat
  PROVE  IsPart(<<>>, f, k + 1, k)
  BY DEF IsPart

LEMMA PartGrows ==
  ASSUME NEW b, NEW f, NEW i, NEW k, IsPart(b, f, i, k), f[k + 1] \in Byte
  PROVE  IsPart(b \o <<f[k + 1]>>, f, i, k + 1)
<1> DEFINE c == <<f[k + 1]>>
           s == b \o c
<1>1. /\ b \in Seq(Byte) /\ i \in Nat /\ k \in Nat /\ i <= k + 1 /\ Len(b) = k + 1 - i
      /\ \A j \in 1 .. k + 1 - i : b[j] = f[i - 1 + j]
  BY DEF IsPart
<1>2. c \in Seq(Byte) /\ Len(c) = 1 /\ c[1] = f[k + 1]
  OBVIOUS
<1> HIDE DEF c
<1>3. Joined(s, b, c)
  BY <1>1, <1>2, JoinedBytes
<1> HIDE DEF s
<1>4. s \in Seq(Byte) /\ Len(s) = (k + 1) + 1 - i
  BY <1>1, <1>2, <1>3 DEF Joined
<1>5. \A j \in 1 .. k + 1 - i : s[j] = f[i - 1 + j]
  BY <1>1, <1>3 DEF Joined
<1>6. s[(k + 1 - i) + 1] = f[k + 1]
  <2>1. 1 \in 1 .. Len(c)
    BY <1>2
  <2>2. s[Len(b) + 1] = c[1]
    BY <2>1, <1>3 DEF Joined
  <2> QED
    BY <1>1, <1>2, <2>2
<1>7. ASSUME NEW j \in 1 .. (k + 1) + 1 - i PROVE s[j] = f[i - 1 + j]
  <2>1. CASE j \in 1 .. k + 1 - i
    BY <1>5, <2>1
  <2>2. CASE j = (k + 1 - i) + 1
    <3>1. i - 1 + j = k + 1
      BY <1>1, <2>2
    <3> QED
      BY <1>6, <2>2, <3>1
  <2> QED
    BY <1>1, <2>1, <2>2
<1> QED
  BY <1>1, <1>4, <1>7 DEF IsPart, s, c

LEMMA Awaits ==
  ASSUME NEW mode, NEW need, NEW b, NEW t, NEW g, NEW handler, NEW n
  PROVE  awaiting(ServerState(mode, need, b, t, g), handler, n) = ServerState(handler, n, <<>>, t, g)
<1> DEFINE d == ServerState(mode, need, b, t, g)
           e == awaiting(d, handler, n)
           none == <<>>
<1>1. /\ e = [d EXCEPT !.mode = handler, !.need = n, !.bytes = none]
      /\ d = ServerState(mode, need, b, t, g)
  BY DEF awaiting
<1> HIDE DEF d, e, none
<1>2. e = ServerState(handler, n, none, t, g)
  BY <1>1 DEF ServerState
<1> QED
  BY <1>2 DEF d, e, none

(* The length and the topic id are read. *)
LEMMA ServerSizes ==
  ASSUME NEW m \in Messages, NEW b, NEW t, NEW g, IsPart(b, publish(m), 3, 6)
  PROVE  ServerReads(ServerState("read_id_length", 5, b, t, g), publish(m)[7])
           = ServerState("read_body", Size(m) + 1, <<>>, m.topic, g)
<1> DEFINE f == publish(m)
           l == Size(m)
           c == b \o <<f[7]>>
           d == ServerState("read_id_length", 5, b, t, g)
           check == 255 - ((lo(l) + hi(l)) % 256)
<1>1. f[7] \in Byte /\ f \in Seq(Byte)
  <2>1. f \in Seq(Byte) /\ Len(f) = l + 8 /\ l \in Nat
    BY SameFrame, MessageType
  <2> HIDE DEF f, l
  <2> QED
    BY <2>1
<1>2. f[3] = lo(l) /\ f[4] = hi(l) /\ f[5] = check /\ f[6] = lo(m.topic) /\ f[7] = hi(m.topic)
  BY FrameBytes
<1> HIDE DEF f
<1>3. IsPart(c, f, 3, 7)
  <2>1. 6 + 1 = 7
    OBVIOUS
  <2>2. \A k : IsPart(b, f, 3, k) /\ f[k + 1] \in Byte => IsPart(b \o <<f[k + 1]>>, f, 3, k + 1)
    BY PartGrows
  <2>3. IsPart(b, f, 3, 6)
    BY DEF f
  <2> QED
    BY <1>1, <2>1, <2>2, <2>3
<1>4. b \in Seq(Byte) /\ c = Append(b, f[7])
  BY AppendIsConcat, <1>1 DEF IsPart, f
<1> HIDE DEF c
<1>5. Len(c) = 5 /\ c[1] = f[3] /\ c[2] = f[4] /\ c[3] = f[5] /\ c[4] = f[6] /\ c[5] = f[7]
  BY <1>3 DEF IsPart
<1>6. /\ l + 1 <= buffer_max /\ l \in Nat /\ lo(l) + 256 * hi(l) = l
      /\ lo(m.topic) + 256 * hi(m.topic) = m.topic
      /\ check + checksum16(l) = 255
  <2>1. l \in Word /\ m.topic \in Word /\ l + 1 <= buffer_max /\ l \in Nat
    BY MessageType
  <2>2. checksum16(l) = (lo(l) + hi(l)) % 256 /\ checksum16(l) \in Byte
    BY <2>1, Bytes16
  <2>3. check = 255 - checksum16(l)
    BY <2>2
  <2>4. \A x \in Byte : (255 - x) + x = 255
    BY DEF Byte
  <2>5. check + checksum16(l) = 255
    BY <2>2, <2>3, <2>4
  <2>6. lo(l) + 256 * hi(l) = l /\ lo(m.topic) + 256 * hi(m.topic) = m.topic
    BY <2>1, Bytes16
  <2> QED
    BY <2>1, <2>5, <2>6
<1> HIDE DEF l, check
<1>7. ServerReads(d, f[7]) = read_id_length(d, SimpleCdr(c))
  BY <1>4, <1>5 DEF ServerReads, ServerState
<1> DEFINE r1 == read_uint16(SimpleCdr(c))
           r2 == read_uint8(r1.rest)
           r3 == read_uint16(r2.rest)
<1>8. r1.value = l /\ r1.rest.buffer_ = c /\ r1.rest.offset_ = 2
  <2>1. SimpleCdr(c).buffer_ = c /\ SimpleCdr(c).offset_ = 0
    BY DEF SimpleCdr
  <2>2. r1.value = c[1] + 256 * c[2]
    BY <2>1 DEF read_uint16
  <2>3. r1.rest = [SimpleCdr(c) EXCEPT !.offset_ = 2]
    BY <2>1 DEF read_uint16
  <2>4. r1.rest.buffer_ = c /\ r1.rest.offset_ = 2
    BY <2>3 DEF SimpleCdr
  <2> QED
    BY <1>2, <1>5, <1>6, <2>2, <2>4
<1>9. r2.value = check /\ r2.rest.buffer_ = c /\ r2.rest.offset_ = 3
  <2>1. r2.rest = [r1.rest EXCEPT !.offset_ = 3] /\ r2.value = c[3]
    BY <1>8 DEF read_uint8
  <2>2. r1.rest = [SimpleCdr(c) EXCEPT !.offset_ = @ + 2]
    BY DEF read_uint16
  <2>3. DOMAIN r1.rest = {"buffer_", "offset_", "thrown"}
    BY <2>2 DEF SimpleCdr
  <2> HIDE DEF r1
  <2> QED
    BY <1>2, <1>5, <1>8, <2>1, <2>3
<1>10. r3.value = m.topic
  <2>1. r3.value = c[4] + 256 * c[5]
    BY <1>9 DEF read_uint16
  <2> QED
    BY <1>2, <1>5, <1>6, <2>1
<1>11. ~(check + checksum16(l) # 255 \/ l + 1 > buffer_max)
  <2>1. buffer_max \in Nat
    BY SizesAssumption
  <2> QED
    BY <1>6, <2>1
<1>12. read_id_length(d, SimpleCdr(c)) = [awaiting(d, "read_body", l + 1) EXCEPT !.topic = m.topic]
  <2>1. ~(r2.value + checksum16(r1.value) # 255 \/ r1.value + 1 > buffer_max)
    BY <1>8, <1>9, <1>11
  <2>2. read_id_length(d, SimpleCdr(c))
          = [awaiting(d, "read_body", r1.value + 1) EXCEPT !.topic = r3.value]
    BY <2>1, Zenon DEF read_id_length
  <2> QED
    BY <1>8, <1>10, <2>2
<1>13. [awaiting(d, "read_body", l + 1) EXCEPT !.topic = m.topic]
         = ServerState("read_body", l + 1, <<>>, m.topic, g)
  <2>1. awaiting(d, "read_body", l + 1) = ServerState("read_body", l + 1, <<>>, t, g)
    BY Awaits
  <2> DEFINE need == l + 1
             mode == "read_body"
             none == <<>>
  <2> HIDE DEF need, mode, none
  <2>2. [ServerState(mode, need, none, t, g) EXCEPT !.topic = m.topic]
          = ServerState(mode, need, none, m.topic, g)
    BY DEF ServerState
  <2> QED
    BY <2>1, <2>2 DEF need, mode, none
<1> QED
  BY <1>7, <1>12, <1>13 DEF l, f, d

LEMMA WholePart ==
  ASSUME NEW m \in Messages, NEW b, IsPart(b, publish(m), 8, Size(m) + 7)
  PROVE  b = m.payload
<1> DEFINE l == Size(m)
<1>1. m.payload \in Seq(Byte) /\ l \in Nat /\ Len(m.payload) = l
  BY MessageType DEF Size
<1>2. /\ b \in Seq(Byte) /\ Len(b) = l + 7 + 1 - 8
      /\ \A j \in 1 .. l + 7 + 1 - 8 : b[j] = publish(m)[8 - 1 + j]
  BY DEF IsPart
<1>3. l + 7 + 1 - 8 = l /\ 8 - 1 = 7
  BY <1>1
<1>4. Len(b) = l /\ \A j \in 1 .. l : b[j] = publish(m)[7 + j]
  BY <1>2, <1>3
<1>5. \A j \in 1 .. l : b[j] = m.payload[j]
  BY <1>4, FrameBytes
<1> HIDE DEF l
<1>6. Len(b) = Len(m.payload) /\ \A j \in 1 .. Len(b) : b[j] = m.payload[j]
  BY <1>1, <1>4, <1>5
<1> QED
  BY <1>1, <1>2, <1>6, SeqEqual

(* The message is read: its checksum is right, and it is taken. *)
LEMMA ServerBody ==
  ASSUME NEW m \in Messages, NEW b, NEW g, IsPart(b, publish(m), 8, Size(m) + 7)
  PROVE  ServerReads(ServerState("read_body", Size(m) + 1, b, m.topic, g), publish(m)[Size(m) + 8])
           = ServerState("read_sync_first", 1, <<>>, m.topic, Append(g, m))
<1> DEFINE l == Size(m)
           x == Check(m)
           c == m.payload \o <<x>>
           d == ServerState("read_body", l + 1, b, m.topic, g)
<1>1. /\ m = [topic |-> m.topic, payload |-> m.payload] /\ m.topic \in Word
      /\ m.payload \in Seq(Byte) /\ m.payload \in Seq(Nat) /\ l \in Nat /\ Len(m.payload) = l
  BY MessageType DEF Size
<1>2. /\ publish(m)[l + 8] = x /\ x \in Byte /\ x \in Nat /\ sum(m.payload) \in Nat
      /\ x = 255 - ((sum(m.payload) + checksum16(m.topic)) % 256)
  <2>1. \A n \in Nat : n + 8 = 8 + n
    OBVIOUS
  <2>2. Byte \subseteq Nat
    BY DEF Byte
  <2>3. sum(m.payload) \in Nat /\ Check(m) \in Byte /\ publish(m)[8 + l] = x
    BY FrameBytes, FrameType
  <2>4. (sum(m.payload) + checksum16(m.topic)) % 256
          = (lo(m.topic) + hi(m.topic) + sum(m.payload)) % 256
    BY <1>1, <2>3, SameChecksum
  <2> QED
    BY <1>1, <2>1, <2>2, <2>3, <2>4 DEF Check
<1>3. b = m.payload
  BY WholePart
<1> HIDE DEF l, x
<1>4. Append(b, x) = c
  BY <1>1, <1>2, <1>3, AppendIsConcat
<1>5. c \in Seq(Byte) /\ Len(c) = l + 1 /\ SubSeq(c, 1, l) = m.payload
  BY <1>1, <1>2
<1>6. sum(c) = sum(m.payload) + x
  BY <1>1, <1>2, SumGrows
<1>7. (sum(c) + checksum16(m.topic)) % 256 = 255
  <2> DEFINE n == sum(m.payload) + checksum16(m.topic)
  <2>1. checksum16(m.topic) \in Nat
    <3>1. Byte \subseteq Nat
      BY DEF Byte
    <3>2. checksum16(m.topic) \in Byte
      BY <1>1, Bytes16
    <3> QED
      BY <3>1, <3>2
  <2>2. n \in Nat /\ sum(c) + checksum16(m.topic) = n + x
    BY <1>2, <1>6, <2>1
  <2>3. x = 255 - (n % 256)
    BY <1>2
  <2> HIDE DEF n
  <2>4. (n + (255 - (n % 256))) % 256 = 255
    BY <2>2, Complement
  <2> QED
    BY <2>2, <2>3, <2>4
<1> HIDE DEF c
<1>8. ServerReads(d, x) = read_body(d, SimpleCdr(c))
  <2>1. ~(Len(c) < l + 1)
    BY <1>1, <1>5
  <2>2. d.mode = "read_body" /\ d.need = l + 1 /\ d.bytes = b
    BY DEF ServerState
  <2> HIDE DEF d
  <2> QED
    BY <1>4, <2>1, <2>2 DEF ServerReads
<1>9. d.topic = m.topic /\ d.got = g
  BY DEF ServerState
<1>10. getData(SimpleCdr(c)) = c /\ getLength(SimpleCdr(c)) - 1 = l
  BY <1>1, <1>5 DEF getData, getLength, SimpleCdr
<1>11. asSerializedMessage(SimpleCdr(SubSeq(getData(SimpleCdr(c)), 1, getLength(SimpleCdr(c)) - 1)))
         = m.payload
  BY <1>5, <1>10 DEF asSerializedMessage, getData, SimpleCdr
<1>12. read_body(d, SimpleCdr(c)) = [read_sync_header(d) EXCEPT !.got = Append(@, m)]
  <2> HIDE DEF d
  <2>1. [topic |-> d.topic, payload |-> m.payload] = m
    BY <1>1, <1>9
  <2>2. ~((sum(getData(SimpleCdr(c))) + checksum16(d.topic)) % 256 # 255)
    BY <1>7, <1>9, <1>10
  <2> QED
    BY <1>11, <2>1, <2>2 DEF read_body
<1>13. read_sync_header(d) = ServerState("read_sync_first", 1, <<>>, m.topic, g)
  BY Awaits DEF read_sync_header
<1>14. [read_sync_header(d) EXCEPT !.got = Append(@, m)]
         = ServerState("read_sync_first", 1, <<>>, m.topic, Append(g, m))
  <2> DEFINE e == read_sync_header(d)
             none == <<>>
             first == "read_sync_first"
  <2>1. e = ServerState(first, 1, none, m.topic, g)
    BY <1>13
  <2> HIDE DEF e, none, first
  <2>2. [e EXCEPT !.got = Append(@, m)] = ServerState(first, 1, none, m.topic, Append(g, m))
    BY <2>1 DEF ServerState
  <2> QED
    BY <2>2 DEF e, none, first
<1> QED
  BY <1>2, <1>8, <1>12, <1>14 DEF l, d

\* The server's reader after k bytes of m's frame, with the messages g taken.
ServerAt(d, m, k, g) ==
  \E b, t :
    \/ k = 0 /\ d = ServerState("read_sync_first", 1, <<>>, t, g)
    \/ k = 1 /\ d = ServerState("read_sync_second", 1, <<>>, t, g)
    \/ k \in 2 .. 6 /\ d = ServerState("read_id_length", 5, b, t, g) /\ IsPart(b, publish(m), 3, k)
    \/ /\ k \in 7 .. Size(m) + 7 /\ IsPart(b, publish(m), 8, k)
       /\ d = ServerState("read_body", Size(m) + 1, b, m.topic, g)

\* It waits for a frame.
ServerReady(d, g) == \E t : d = ServerState("read_sync_first", 1, <<>>, t, g)

LEMMA ServerTakes ==
  ASSUME NEW m \in Messages, NEW d, NEW k \in 0 .. Size(m) + 7, NEW g, ServerAt(d, m, k, g)
  PROVE  /\ k # Size(m) + 7 => ServerAt(ServerReads(d, publish(m)[k + 1]), m, k + 1, g)
         /\ k = Size(m) + 7 => ServerReady(ServerReads(d, publish(m)[k + 1]), Append(g, m))
<1> DEFINE f == publish(m)
           l == Size(m)
           e == ServerReads(d, f[k + 1])
<1>0. l \in Nat /\ f[k + 1] \in Byte
  <2>1. f \in Seq(Byte) /\ Len(f) = l + 8 /\ l \in Nat
    BY SameFrame, MessageType
  <2> HIDE DEF f, l
  <2> QED
    BY <2>1 DEF l
<1> HIDE DEF f, l
<1>1. PICK b, t :
        \/ k = 0 /\ d = ServerState("read_sync_first", 1, <<>>, t, g)
        \/ k = 1 /\ d = ServerState("read_sync_second", 1, <<>>, t, g)
        \/ k \in 2 .. 6 /\ d = ServerState("read_id_length", 5, b, t, g) /\ IsPart(b, f, 3, k)
        \/ /\ k \in 7 .. l + 7 /\ IsPart(b, f, 8, k)
           /\ d = ServerState("read_body", l + 1, b, m.topic, g)
  BY DEF ServerAt, f, l
<1>2. CASE k = 0 /\ d = ServerState("read_sync_first", 1, <<>>, t, g)
  <2>1. e = ServerState("read_sync_second", 1, <<>>, t, g)
    BY <1>2, ServerSyncs, FrameBytes DEF f
  <2> QED
    BY <1>0, <1>2, <2>1 DEF ServerAt, l, f
<1>3. CASE k = 1 /\ d = ServerState("read_sync_second", 1, <<>>, t, g)
  <2>1. f[2] = PROTOCOL_VER /\ k + 1 = 2
    BY <1>3, FrameBytes DEF f
  <2>2. e = ServerState("read_id_length", 5, <<>>, t, g)
    BY <1>3, <2>1, ServerSyncs
  <2>3. IsPart(<<>>, f, 2 + 1, 2)
    BY PartStarts
  <2>4. IsPart(<<>>, f, 3, 2) /\ 2 \in 2 .. 6 /\ 1 # l + 7
    BY <1>0, <2>3
  <2>5. ServerAt(e, m, 2, g)
    BY <2>2, <2>4 DEF ServerAt, f
  <2> QED
    BY <1>3, <2>1, <2>4, <2>5 DEF l, f
<1>4. CASE k \in 2 .. 5 /\ d = ServerState("read_id_length", 5, b, t, g) /\ IsPart(b, f, 3, k)
  <2> DEFINE c == b \o <<f[k + 1]>>
  <2>1. b \in Seq(Byte) /\ Len(b) + 1 < 5 /\ k + 1 \in 2 .. 6 /\ k # l + 7
    BY <1>0, <1>4 DEF IsPart
  <2>2. e = ServerState("read_id_length", 5, c, t, g)
    BY <1>4, <2>1, ServerWaits
  <2>3. IsPart(c, f, 3, k + 1)
    BY <1>0, <1>4, PartGrows
  <2> HIDE DEF c, e
  <2>4. ServerAt(e, m, k + 1, g)
    BY <2>1, <2>2, <2>3 DEF ServerAt, f
  <2> QED
    BY <2>1, <2>4 DEF e, f, l
<1>5. CASE k = 6 /\ d = ServerState("read_id_length", 5, b, t, g) /\ IsPart(b, f, 3, k)
  <2>1. k + 1 = 7 /\ k # l + 7 /\ 7 \in 7 .. l + 7
    BY <1>0, <1>5
  <2>2. e = ServerState("read_body", l + 1, <<>>, m.topic, g)
    BY <1>5, <2>1, ServerSizes DEF f, l
  <2>3. IsPart(<<>>, f, 7 + 1, 7)
    BY PartStarts
  <2>4. IsPart(<<>>, f, 8, 7)
    BY <2>3
  <2>5. ServerAt(e, m, 7, g)
    BY <2>1, <2>2, <2>4 DEF ServerAt, f, l
  <2> QED
    BY <2>1, <2>5 DEF l, f
<1>6. CASE /\ k \in 7 .. l + 6 /\ IsPart(b, f, 8, k)
           /\ d = ServerState("read_body", l + 1, b, m.topic, g)
  <2> DEFINE c == b \o <<f[k + 1]>>
  <2>1. b \in Seq(Byte) /\ Len(b) + 1 < l + 1 /\ k + 1 \in 7 .. l + 7 /\ k # l + 7 /\ l + 1 \in Nat
    BY <1>0, <1>6 DEF IsPart
  <2>2. e = ServerState("read_body", l + 1, c, m.topic, g)
    BY <1>6, <2>1, ServerWaits
  <2>3. IsPart(c, f, 8, k + 1)
    BY <1>0, <1>6, PartGrows
  <2> HIDE DEF c, e
  <2>4. ServerAt(e, m, k + 1, g)
    BY <2>1, <2>2, <2>3 DEF ServerAt, f, l
  <2> QED
    BY <2>1, <2>4 DEF e, f, l
<1>7. CASE /\ k = l + 7 /\ IsPart(b, f, 8, k)
           /\ d = ServerState("read_body", l + 1, b, m.topic, g)
  <2>1. k + 1 = l + 8
    BY <1>0, <1>7
  <2>2. e = ServerState("read_sync_first", 1, <<>>, m.topic, Append(g, m))
    BY <1>7, <2>1, ServerBody DEF f, l
  <2>3. ServerReady(e, Append(g, m))
    BY <2>2 DEF ServerReady
  <2> QED
    BY <1>7, <2>3 DEF l, f
<1> QED
  <2>1. k \in 2 .. 6 => k \in 2 .. 5 \/ k = 6
    OBVIOUS
  <2>2. k \in 7 .. l + 7 => k \in 7 .. l + 6 \/ k = l + 7
    BY <1>0
  <2> QED
    BY <1>1, <1>2, <1>3, <1>4, <1>5, <1>6, <1>7, <2>1, <2>2

-----------------------------------------------------------------------------
(* The device's reader. *)

DeviceState(mode, bytes, topic, checksum, message_in, got) ==
  [mode |-> mode, bytes |-> bytes, topic |-> topic, checksum |-> checksum,
   message_in |-> message_in, got |-> got]

(* What spinOnce() does in each mode. *)
LEMMA DeviceSyncs ==
  ASSUME NEW n, NEW t, NEW s, NEW p, NEW g, NEW x
  PROVE  /\ x = SYNC => DeviceReads(DeviceState("FIRST_FF", n, t, s, p, g), x)
                          = DeviceState("PROTOCOL_VER", n, t, s, p, g)
         /\ x = PROTOCOL_VER => DeviceReads(DeviceState("PROTOCOL_VER", n, t, s, p, g), x)
                                  = DeviceState("SIZE_L", n, t, s, p, g)
<1> DEFINE first == "FIRST_FF"
           second == "PROTOCOL_VER"
           third == "SIZE_L"
           d == DeviceState(first, n, t, s, p, g)
           e == DeviceState(second, n, t, s, p, g)
<1>1. d.mode = "FIRST_FF" /\ e.mode = "PROTOCOL_VER"
  BY DEF DeviceState
<1>2. [d EXCEPT !.mode = second] = e /\ [e EXCEPT !.mode = third] = DeviceState(third, n, t, s, p, g)
  <2> HIDE DEF first, second, third
  <2> QED
    BY DEF DeviceState
<1> HIDE DEF d, e
<1>3. x = SYNC => DeviceReads(d, x) = [d EXCEPT !.mode = second]
  BY <1>1 DEF DeviceReads
<1>4. x = PROTOCOL_VER => DeviceReads(e, x) = [e EXCEPT !.mode = third]
  BY <1>1 DEF DeviceReads
<1> QED
  BY <1>2, <1>3, <1>4 DEF d, e

LEMMA DeviceSizes ==
  ASSUME NEW n, NEW t, NEW s, NEW p, NEW g, NEW x
  PROVE  /\ DeviceReads(DeviceState("SIZE_L", n, t, s, p, g), x)
              = DeviceState("SIZE_H", x, t, x, <<>>, g)
         /\ DeviceReads(DeviceState("SIZE_H", n, t, s, p, g), x)
              = DeviceState("SIZE_CHECKSUM", n + 256 * x, t, s + x, p, g)
<1> DEFINE third == "SIZE_L"
           fourth == "SIZE_H"
           fifth == "SIZE_CHECKSUM"
           none == <<>>
           a == n + 256 * x
           b == s + x
           d == DeviceState(third, n, t, s, p, g)
           e == DeviceState(fourth, n, t, s, p, g)
<1>1. d.mode = "SIZE_L" /\ e.mode = "SIZE_H" /\ e.bytes = n /\ e.checksum = s
  BY DEF DeviceState
<1>2. /\ [d EXCEPT !.mode = fourth, !.bytes = x, !.message_in = none, !.checksum = x]
           = DeviceState(fourth, x, t, x, none, g)
      /\ [e EXCEPT !.mode = fifth, !.bytes = a, !.checksum = b] = DeviceState(fifth, a, t, b, p, g)
  <2> DEFINE d1 == [d EXCEPT !.mode = fourth, !.bytes = x, !.message_in = none, !.checksum = x]
             e1 == [e EXCEPT !.mode = fifth, !.bytes = a, !.checksum = b]
  <2>1. d = DeviceState(third, n, t, s, p, g) /\ e = DeviceState(fourth, n, t, s, p, g)
    OBVIOUS
  <2>2. /\ d1 = [d EXCEPT !.mode = fourth, !.bytes = x, !.message_in = none, !.checksum = x]
        /\ e1 = [e EXCEPT !.mode = fifth, !.bytes = a, !.checksum = b]
    OBVIOUS
  <2> HIDE DEF third, fourth, fifth, none, a, b, d, e, d1, e1
  <2>3. d1 = DeviceState(fourth, x, t, x, none, g)
    BY <2>1, <2>2 DEF DeviceState
  <2>4. e1 = DeviceState(fifth, a, t, b, p, g)
    BY <2>1, <2>2 DEF DeviceState
  <2> QED
    BY <2>2, <2>3, <2>4
<1> HIDE DEF d, e
<1>3. DeviceReads(d, x)
        = [d EXCEPT !.mode = fourth, !.bytes = x, !.message_in = none, !.checksum = x]
  BY <1>1 DEF DeviceReads
<1>4. DeviceReads(e, x) = [e EXCEPT !.mode = fifth, !.bytes = e.bytes + 256 * x, !.checksum = e.checksum + x]
  BY <1>1 DEF DeviceReads
<1>5. DeviceReads(e, x) = [e EXCEPT !.mode = fifth, !.bytes = n + 256 * x, !.checksum = s + x]
  BY <1>1, <1>4
<1> QED
  BY <1>2, <1>3, <1>5 DEF d, e

LEMMA DeviceChecksSize ==
  ASSUME NEW n, NEW t, NEW s, NEW p, NEW g, NEW x
  PROVE  DeviceReads(DeviceState("SIZE_CHECKSUM", n, t, s, p, g), x)
           = DeviceState(IF (s + x) % 256 = 255 THEN "TOPIC_L" ELSE "FIRST_FF", n, t, s, p, g)
<1> DEFINE fifth == "SIZE_CHECKSUM"
           goal == IF (s + x) % 256 = 255 THEN "TOPIC_L" ELSE "FIRST_FF"
           d == DeviceState(fifth, n, t, s, p, g)
<1>1. d.mode = "SIZE_CHECKSUM" /\ d.checksum = s
  BY DEF DeviceState
<1>2. [d EXCEPT !.mode = goal] = DeviceState(goal, n, t, s, p, g)
  <2> HIDE DEF fifth, goal
  <2> QED
    BY DEF DeviceState
<1> HIDE DEF d
<1>3. DeviceReads(d, x) = [d EXCEPT !.mode = goal]
  BY <1>1 DEF DeviceReads, restart
<1> QED
  BY <1>2, <1>3 DEF d

LEMMA DeviceTopic ==
  ASSUME NEW n, NEW t, NEW s, NEW p, NEW g, NEW x
  PROVE  /\ DeviceReads(DeviceState("TOPIC_L", n, t, s, p, g), x)
              = DeviceState("TOPIC_H", n, x, x, p, g)
         /\ isTopicValid(t + 256 * x) =>
              DeviceReads(DeviceState("TOPIC_H", n, t, s, p, g), x)
                = DeviceState(IF n = 0 THEN "MSG_CHECKSUM" ELSE "MESSAGE",
                              n, t + 256 * x, s + x, p, g)
         /\ ~isTopicValid(t + 256 * x) =>
              DeviceReads(DeviceState("TOPIC_H", n, t, s, p, g), x)
                = DeviceState("FIRST_FF", n, t, s, p, g)
<1> DEFINE sixth == "TOPIC_L"
           seventh == "TOPIC_H"
           first == "FIRST_FF"
           goal == IF n = 0 THEN "MSG_CHECKSUM" ELSE "MESSAGE"
           a == t + 256 * x
           b == s + x
           d == DeviceState(sixth, n, t, s, p, g)
           e == DeviceState(seventh, n, t, s, p, g)
<1>1. d.mode = "TOPIC_L" /\ e.mode = "TOPIC_H" /\ e.bytes = n /\ e.topic = t /\ e.checksum = s
  BY DEF DeviceState
<1>2. /\ [d EXCEPT !.mode = seventh, !.topic = x, !.checksum = x]
           = DeviceState(seventh, n, x, x, p, g)
      /\ [e EXCEPT !.topic = a, !.checksum = b, !.mode = goal] = DeviceState(goal, n, a, b, p, g)
      /\ [e EXCEPT !.mode = first] = DeviceState(first, n, t, s, p, g)
  <2> DEFINE d1 == [d EXCEPT !.mode = seventh, !.topic = x, !.checksum = x]
             e1 == [e EXCEPT !.topic = a, !.checksum = b, !.mode = goal]
             e2 == [e EXCEPT !.mode = first]
  <2>1. d = DeviceState(sixth, n, t, s, p, g) /\ e = DeviceState(seventh, n, t, s, p, g)
    OBVIOUS
  <2>2. /\ d1 = [d EXCEPT !.mode = seventh, !.topic = x, !.checksum = x]
        /\ e1 = [e EXCEPT !.topic = a, !.checksum = b, !.mode = goal]
        /\ e2 = [e EXCEPT !.mode = first]
    OBVIOUS
  <2> HIDE DEF sixth, seventh, first, goal, a, b, d, e, d1, e1, e2
  <2>3. d1 = DeviceState(seventh, n, x, x, p, g)
    BY <2>1, <2>2 DEF DeviceState
  <2>4. e1 = DeviceState(goal, n, a, b, p, g)
    BY <2>1, <2>2 DEF DeviceState
  <2>5. e2 = DeviceState(first, n, t, s, p, g)
    BY <2>1, <2>2 DEF DeviceState
  <2> QED
    BY <2>2, <2>3, <2>4, <2>5
<1> HIDE DEF d, e
<1>3. DeviceReads(d, x) = [d EXCEPT !.mode = seventh, !.topic = x, !.checksum = x]
  BY <1>1 DEF DeviceReads
<1>4. DeviceReads(e, x) = TopicH(e, x)
  BY <1>1 DEF DeviceReads
<1>5. isTopicValid(a) => TopicH(e, x) = [e EXCEPT !.topic = a, !.checksum = b, !.mode = goal]
  BY <1>1 DEF TopicH
<1> HIDE DEF goal
<1>6. ~isTopicValid(t + 256 * x) => TopicH(e, x) = [e EXCEPT !.mode = first]
  BY <1>1, Zenon DEF TopicH, restart
<1> QED
  BY <1>2, <1>3, <1>4, <1>5, <1>6 DEF d, e, goal

LEMMA DeviceMessage ==
  ASSUME NEW n, NEW t, NEW s, NEW p, NEW g, NEW x
  PROVE  DeviceReads(DeviceState("MESSAGE", n, t, s, p, g), x)
           = DeviceState(IF n = 1 THEN "MSG_CHECKSUM" ELSE "MESSAGE", n - 1, t, s + x, Append(p, x), g)
<1> DEFINE mode == "MESSAGE"
           goal == IF n = 1 THEN "MSG_CHECKSUM" ELSE "MESSAGE"
           a == Append(p, x)
           b == n - 1
           c == s + x
           d == DeviceState(mode, n, t, s, p, g)
<1>1. d.mode = "MESSAGE" /\ d.checksum = s /\ d.bytes = n /\ d.message_in = p
  BY DEF DeviceState
<1>2. [d EXCEPT !.message_in = a, !.bytes = b, !.checksum = c, !.mode = goal]
        = DeviceState(goal, b, t, c, a, g)
  <2> DEFINE e == [d EXCEPT !.message_in = a, !.bytes = b, !.checksum = c, !.mode = goal]
  <2>1. d = DeviceState(mode, n, t, s, p, g)
    OBVIOUS
  <2>2. e = [d EXCEPT !.message_in = a, !.bytes = b, !.checksum = c, !.mode = goal]
    OBVIOUS
  <2> HIDE DEF mode, goal, a, b, c, d, e
  <2>3. e = DeviceState(goal, b, t, c, a, g)
    BY <2>1, <2>2 DEF DeviceState
  <2> QED
    BY <2>2, <2>3
<1> HIDE DEF d
<1>3. DeviceReads(d, x) = Message(d, x)
  BY <1>1 DEF DeviceReads
<1>4. Message(d, x) = [d EXCEPT !.message_in = a, !.bytes = b, !.checksum = c, !.mode = goal]
  BY <1>1 DEF Message
<1> QED
  BY <1>2, <1>3, <1>4 DEF d

LEMMA DeviceChecks ==
  ASSUME NEW n, NEW t, NEW s, NEW p, NEW g, NEW x
  PROVE  DeviceReads(DeviceState("MSG_CHECKSUM", n, t, s, p, g), x)
           = DeviceState("FIRST_FF", n, t, s, p,
                         IF (s + x) % 256 = 255 THEN Append(g, [topic |-> t, payload |-> p]) ELSE g)
<1> DEFINE mode == "MSG_CHECKSUM"
           first == "FIRST_FF"
           d == DeviceState(mode, n, t, s, p, g)
           r == restart(d)
           m == [topic |-> t, payload |-> p]
<1>1. d.mode = "MSG_CHECKSUM" /\ d.topic = t /\ d.checksum = s /\ d.message_in = p
  BY DEF DeviceState
<1>2. r = DeviceState(first, n, t, s, p, g)
  <2> HIDE DEF mode, first
  <2>1. [d EXCEPT !.mode = first] = DeviceState(first, n, t, s, p, g)
    BY DEF DeviceState
  <2> QED
    BY <2>1 DEF restart, first
<1> HIDE DEF d, m
<1>3. DeviceReads(d, x) = MsgChecksum(d, x)
  BY <1>1 DEF DeviceReads
<1>4. m = [topic |-> d.topic, payload |-> d.message_in]
  BY <1>1 DEF m
<1> HIDE DEF r
<1>5. MsgChecksum(d, x) = IF (s + x) % 256 = 255 THEN [r EXCEPT !.got = Append(@, m)] ELSE r
  BY <1>1, <1>4 DEF MsgChecksum, r
<1>6. [r EXCEPT !.got = Append(@, m)] = DeviceState(first, n, t, s, p, Append(g, m))
  <2> HIDE DEF first
  <2> QED
    BY <1>2 DEF DeviceState
<1> QED
  BY <1>2, <1>3, <1>5, <1>6 DEF d, m

Modes == {"FIRST_FF", "PROTOCOL_VER", "SIZE_L", "SIZE_H", "SIZE_CHECKSUM", "TOPIC_L", "TOPIC_H",
          "MESSAGE", "MSG_CHECKSUM"}
Taken == [topic : Nat, payload : Seq(Byte)]

\* The device's reader, in step or not.
DeviceType(d) ==
  \E mode \in Modes, t \in Nat, p \in Seq(Byte), g \in Seq(Taken) : \E n, s :
    d = DeviceState(mode, n, t, s, p, g)

LEMMA DeviceTypeIs ==
  ASSUME NEW mode \in Modes, NEW n, NEW t \in Nat, NEW s, NEW p \in Seq(Byte), NEW g \in Seq(Taken)
  PROVE  DeviceType(DeviceState(mode, n, t, s, p, g))
  BY DEF DeviceType

LEMMA Restarts ==
  ASSUME NEW mode, NEW n, NEW t, NEW s, NEW p, NEW g
  PROVE  restart(DeviceState(mode, n, t, s, p, g)) = DeviceState("FIRST_FF", n, t, s, p, g)
<1> DEFINE first == "FIRST_FF"
           d == DeviceState(mode, n, t, s, p, g)
<1>1. restart(d) = [d EXCEPT !.mode = first]
  BY DEF restart
<1> HIDE DEF first
<1>2. [d EXCEPT !.mode = first] = DeviceState(first, n, t, s, p, g)
  BY DEF DeviceState
<1> QED
  BY <1>1, <1>2 DEF first

LEMMA DeviceKeepsType ==
  ASSUME NEW d, DeviceType(d), NEW x \in Byte
  PROVE  DeviceType(DeviceReads(d, x))
<1>0. PICK mode \in Modes, t \in Nat, p \in Seq(Byte), g \in Seq(Taken) :
        \E n, s : d = DeviceState(mode, n, t, s, p, g)
  BY DEF DeviceType
<1>1. PICK n, s : d = DeviceState(mode, n, t, s, p, g)
  BY <1>0
<1> DEFINE m == [topic |-> t, payload |-> p]
           e == DeviceReads(d, x)
           q == Append(p, x)
           none == <<>>
           h == IF (s + x) % 256 = 255 THEN Append(g, m) ELSE g
<1>2. /\ x \in Nat /\ t + 256 * x \in Nat /\ q \in Seq(Byte) /\ none \in Seq(Byte)
      /\ h \in Seq(Taken)
  <2>1. x \in Nat /\ t + 256 * x \in Nat
    BY DEF Byte
  <2>2. q \in Seq(Byte) /\ none \in Seq(Byte)
    BY AppendProperties
  <2>3. m \in Taken
    BY DEF Taken
  <2> HIDE DEF m
  <2>4. Append(g, m) \in Seq(Taken)
    BY <2>3, AppendProperties
  <2> QED
    BY <2>1, <2>2, <2>4
<1> HIDE DEF m, q, none, h
<1>3. \A i \in Modes, b \in Nat, v \in Seq(Byte), w \in Seq(Taken) : \A a, c :
        DeviceType(DeviceState(i, a, b, c, v, w))
  BY DeviceTypeIs
<1>4. Modes = {"FIRST_FF", "PROTOCOL_VER", "SIZE_L", "SIZE_H", "SIZE_CHECKSUM", "TOPIC_L", "TOPIC_H",
               "MESSAGE", "MSG_CHECKSUM"}
  BY DEF Modes
<1>5. CASE mode = "FIRST_FF"
  <2>1. d.mode = "FIRST_FF"
    BY <1>1, <1>5 DEF DeviceState
  <2>2. x # SYNC => e = d
    BY <2>1 DEF DeviceReads
  <2>3. x = SYNC => e = DeviceState("PROTOCOL_VER", n, t, s, p, g)
    BY <1>1, <1>5, DeviceSyncs
  <2> QED
    BY <1>3, <1>4, <2>2, <2>3
<1>6. CASE mode = "PROTOCOL_VER"
  <2>1. d.mode = "PROTOCOL_VER"
    BY <1>1, <1>6 DEF DeviceState
  <2>2. x # PROTOCOL_VER => e = restart(d)
    BY <2>1 DEF DeviceReads
  <2>3. restart(d) = DeviceState("FIRST_FF", n, t, s, p, g)
    BY <1>1, Restarts
  <2>4. x = PROTOCOL_VER => e = DeviceState("SIZE_L", n, t, s, p, g)
    BY <1>1, <1>6, DeviceSyncs
  <2> QED
    BY <1>3, <1>4, <2>2, <2>3, <2>4
<1>7. CASE mode = "SIZE_L"
  <2>1. e = DeviceState("SIZE_H", x, t, x, none, g)
    BY <1>1, <1>7, DeviceSizes DEF none
  <2> QED
    BY <1>2, <1>3, <1>4, <2>1
<1>8. CASE mode = "SIZE_H"
  <2>1. e = DeviceState("SIZE_CHECKSUM", n + 256 * x, t, s + x, p, g)
    BY <1>1, <1>8, DeviceSizes
  <2> QED
    BY <1>3, <1>4, <2>1
<1>9. CASE mode = "SIZE_CHECKSUM"
  <2>1. e = DeviceState(IF (s + x) % 256 = 255 THEN "TOPIC_L" ELSE "FIRST_FF", n, t, s, p, g)
    BY <1>1, <1>9, DeviceChecksSize
  <2> QED
    BY <1>3, <1>4, <2>1
<1>10. CASE mode = "TOPIC_L"
  <2>1. e = DeviceState("TOPIC_H", n, x, x, p, g)
    BY <1>1, <1>10, DeviceTopic
  <2> QED
    BY <1>2, <1>3, <1>4, <2>1
<1>11. CASE mode = "TOPIC_H"
  <2>1. isTopicValid(t + 256 * x) =>
          e = DeviceState(IF n = 0 THEN "MSG_CHECKSUM" ELSE "MESSAGE", n, t + 256 * x, s + x, p, g)
    BY <1>1, <1>11, DeviceTopic
  <2>2. ~isTopicValid(t + 256 * x) => e = DeviceState("FIRST_FF", n, t, s, p, g)
    BY <1>1, <1>11, DeviceTopic
  <2> QED
    BY <1>2, <1>3, <1>4, <2>1, <2>2
<1>12. CASE mode = "MESSAGE"
  <2>1. e = DeviceState(IF n = 1 THEN "MSG_CHECKSUM" ELSE "MESSAGE", n - 1, t, s + x, q, g)
    BY <1>1, <1>12, DeviceMessage DEF q
  <2> QED
    BY <1>2, <1>3, <1>4, <2>1
<1>13. CASE mode = "MSG_CHECKSUM"
  <2>1. e = DeviceState("FIRST_FF", n, t, s, p, h)
    BY <1>1, <1>13, DeviceChecks DEF m, h
  <2> QED
    BY <1>2, <1>3, <1>4, <2>1
<1> QED
  BY <1>4, <1>5, <1>6, <1>7, <1>8, <1>9, <1>10, <1>11, <1>12, <1>13

TopicSum(m) == lo(m.topic) + hi(m.topic)

\* The device's reader in the middle of m's payload, of which it has p.
InMessage(d, m, k, g, p) ==
  /\ k \in 7 .. Size(m) + 7 /\ IsPart(p, publish(m), 8, k)
  /\ d = DeviceState(IF k = Size(m) + 7 THEN "MSG_CHECKSUM" ELSE "MESSAGE",
                     Size(m) + 7 - k, m.topic, TopicSum(m) + sum(p), p, g)

\* The device's reader after k bytes of m's frame, with the messages g taken.
DeviceAt(d, m, k, g) ==
  \E n, t, s, p :
    \/ k = 0 /\ d = DeviceState("FIRST_FF", n, t, s, p, g)
    \/ k = 1 /\ d = DeviceState("PROTOCOL_VER", n, t, s, p, g)
    \/ k = 2 /\ d = DeviceState("SIZE_L", n, t, s, p, g)
    \/ k = 3 /\ d = DeviceState("SIZE_H", lo(Size(m)), t, lo(Size(m)), <<>>, g)
    \/ k = 4 /\ d = DeviceState("SIZE_CHECKSUM", Size(m), t, lo(Size(m)) + hi(Size(m)), <<>>, g)
    \/ k = 5 /\ d = DeviceState("TOPIC_L", Size(m), t, s, <<>>, g)
    \/ k = 6 /\ d = DeviceState("TOPIC_H", Size(m), lo(m.topic), lo(m.topic), <<>>, g)
    \/ InMessage(d, m, k, g, p)

\* It waits for a frame.
DeviceReady(d, g) == \E n, t, s, p : d = DeviceState("FIRST_FF", n, t, s, p, g)

(* The payload begins, or, if there is none, the checksum is next. *)
LEMMA DeviceBegins ==
  ASSUME NEW m \in Messages, NEW g
  PROVE  InMessage(DeviceReads(DeviceState("TOPIC_H", Size(m), lo(m.topic), lo(m.topic), <<>>, g),
                               hi(m.topic)), m, 7, g, <<>>)
<1> DEFINE l == Size(m)
           t == lo(m.topic)
           x == hi(m.topic)
           none == <<>>
           d == DeviceState("TOPIC_H", l, t, t, none, g)
           mode == IF l = 0 THEN "MSG_CHECKSUM" ELSE "MESSAGE"
<1>1. l \in Nat /\ isTopicValid(m.topic) /\ t \in Nat /\ x \in Nat /\ t + 256 * x = m.topic
  <2>1. Byte \subseteq Nat
    BY DEF Byte
  <2> QED
    BY <2>1, MessageType, Bytes16
<1>2. TopicSum(m) + sum(none) = t + x
  BY <1>1, SumEmpty DEF TopicSum
<1>3. IsPart(none, publish(m), 8, 7)
  <2>1. IsPart(<<>>, publish(m), 7 + 1, 7)
    BY PartStarts
  <2> QED
    BY <2>1
<1> HIDE DEF l, t, x, none, d
<1>4. DeviceReads(d, x) = DeviceState(mode, l, t + 256 * x, t + x, none, g)
  BY <1>1, DeviceTopic DEF d
<1>5. 7 \in 7 .. l + 7 /\ (7 = l + 7) = (l = 0) /\ l + 7 - 7 = l
  BY <1>1
<1>6. InMessage(DeviceReads(d, x), m, 7, g, none)
  BY <1>1, <1>2, <1>3, <1>4, <1>5 DEF InMessage, l
<1> QED
  BY <1>6 DEF l, t, x, none, d

LEMMA DeviceReadsOn ==
  ASSUME NEW m \in Messages, NEW d, NEW k, NEW g, NEW p, InMessage(d, m, k, g, p), k # Size(m) + 7
  PROVE  InMessage(DeviceReads(d, publish(m)[k + 1]), m, k + 1, g, p \o <<publish(m)[k + 1]>>)
<1> DEFINE l == Size(m)
           f == publish(m)
           x == f[k + 1]
           q == p \o <<x>>
<1>0. l \in Nat /\ f \in Seq(Byte) /\ Len(f) = l + 8 /\ k \in 7 .. l + 7 /\ k # l + 7 /\ IsPart(p, f, 8, k)
  BY SameFrame, MessageType DEF InMessage
<1>1. d = DeviceState("MESSAGE", l + 7 - k, m.topic, TopicSum(m) + sum(p), p, g)
  BY DEF InMessage
<1> HIDE DEF l, f
<1>2. /\ x \in Byte /\ x \in Nat /\ k \in Nat /\ k + 1 \in 7 .. l + 7
      /\ (l + 7 - k = 1) = (k + 1 = l + 7) /\ l + 7 - k - 1 = l + 7 - (k + 1)
  <2>1. k + 1 \in 1 .. Len(f) /\ k \in Nat
    BY <1>0
  <2>2. x \in Byte
    BY <1>0, <2>1
  <2>3. Byte \subseteq Nat
    BY DEF Byte
  <2>4. k + 1 \in 7 .. l + 7
    BY <1>0
  <2>5. (l + 7 - k = 1) = (k + 1 = l + 7) /\ l + 7 - k - 1 = l + 7 - (k + 1)
    BY <1>0, <2>1
  <2> QED
    BY <2>1, <2>2, <2>3, <2>4, <2>5
<1>3. p \in Seq(Byte) /\ p \in Seq(Nat)
  <2>1. p \in Seq(Byte)
    BY <1>0 DEF IsPart
  <2> QED
    BY <2>1, BytesAreNumbers
<1>4. IsPart(q, f, 8, k + 1)
  BY <1>0, <1>2, PartGrows
<1> HIDE DEF x
<1>5. Append(p, x) = q
  BY <1>2, <1>3, AppendIsConcat
<1>6. TopicSum(m) + sum(p) + x = TopicSum(m) + sum(q)
  <2>1. sum(q) = sum(p) + x
    BY <1>2, <1>3, SumGrows
  <2>2. sum(p) \in Nat
    BY <1>3, SumType
  <2>3. TopicSum(m) \in Nat
    <3>1. Byte \subseteq Nat
      BY DEF Byte
    <3>2. lo(m.topic) \in Nat /\ hi(m.topic) \in Nat
      BY <3>1, MessageType, Bytes16
    <3> QED
      BY <3>2 DEF TopicSum
  <2> QED
    BY <1>2, <2>1, <2>2, <2>3
<1> HIDE DEF q
<1> DEFINE n == l + 7 - k
           s == TopicSum(m) + sum(p)
           t == m.topic
           n1 == l + 7 - (k + 1)
           s1 == TopicSum(m) + sum(q)
           mode1 == IF k + 1 = l + 7 THEN "MSG_CHECKSUM" ELSE "MESSAGE"
<1>7. d = DeviceState("MESSAGE", n, t, s, p, g)
  BY <1>1
<1>8. n - 1 = n1 /\ s + x = s1 /\ (IF n = 1 THEN "MSG_CHECKSUM" ELSE "MESSAGE") = mode1
  <2>1. n - 1 = n1
    <3>1. l \in Nat /\ k \in Nat
      BY <1>0
    <3> QED
      BY <3>1
  <2>2. s + x = s1
    BY <1>6
  <2>3. (n = 1) = (k + 1 = l + 7)
    BY <1>2
  <2> HIDE DEF n
  <2>4. (IF n = 1 THEN "MSG_CHECKSUM" ELSE "MESSAGE") = mode1
    BY <2>3
  <2> QED
    BY <2>1, <2>2, <2>4
<1> HIDE DEF n, s, t, n1, s1, mode1
<1>9. DeviceReads(DeviceState("MESSAGE", n, t, s, p, g), x)
        = DeviceState(IF n = 1 THEN "MSG_CHECKSUM" ELSE "MESSAGE", n - 1, t, s + x, Append(p, x), g)
  BY DeviceMessage
<1>10. DeviceReads(d, x) = DeviceState(mode1, n1, t, s1, q, g)
  BY <1>5, <1>7, <1>8, <1>9
<1>11. InMessage(DeviceReads(d, x), m, k + 1, g, q)
  BY <1>2, <1>4, <1>10 DEF InMessage, l, f, n1, s1, t, mode1
<1> QED
  BY <1>11 DEF x, q, f

(* The checksum of the message is right, and the message is taken. *)
LEMMA DeviceAccepts ==
  ASSUME NEW m \in Messages, NEW d, NEW g, NEW p, InMessage(d, m, Size(m) + 7, g, p)
  PROVE  DeviceReady(DeviceReads(d, publish(m)[Size(m) + 8]), Append(g, m))
<1> DEFINE l == Size(m)
           x == Check(m)
           s == TopicSum(m) + sum(p)
<1>1. /\ m = [topic |-> m.topic, payload |-> m.payload] /\ l \in Nat
      /\ publish(m)[l + 8] = x /\ IsPart(p, publish(m), 8, l + 7)
  <2>1. \A n \in Nat : n + 8 = 8 + n
    OBVIOUS
  <2> QED
    BY <2>1, MessageType, FrameBytes DEF InMessage
<1>2. p = m.payload
  BY <1>1, WholePart
<1>3. d = DeviceState("MSG_CHECKSUM", l + 7 - (l + 7), m.topic, s, p, g)
  BY DEF InMessage
<1>4. (s + x) % 256 = 255
  <2>1. s \in Nat
    <3>1. Byte \subseteq Nat
      BY DEF Byte
    <3>2. lo(m.topic) \in Nat /\ hi(m.topic) \in Nat /\ sum(m.payload) \in Nat
      BY <3>1, MessageType, Bytes16, FrameType
    <3> QED
      BY <1>2, <3>2 DEF TopicSum
  <2>2. x = 255 - (s % 256)
    BY <1>2 DEF Check, TopicSum
  <2> HIDE DEF s, x
  <2> QED
    BY <2>1, <2>2, Complement
<1> HIDE DEF l, s, x
<1>5. DeviceReads(d, x)
        = DeviceState("FIRST_FF", l + 7 - (l + 7), m.topic, s, p,
                      IF (s + x) % 256 = 255 THEN Append(g, [topic |-> m.topic, payload |-> p]) ELSE g)
  BY <1>3, DeviceChecks
<1>6. DeviceReads(d, x) = DeviceState("FIRST_FF", l + 7 - (l + 7), m.topic, s, p, Append(g, m))
  BY <1>1, <1>2, <1>4, <1>5
<1> QED
  BY <1>1, <1>6 DEF DeviceReady, l

LEMMA DeviceTakes ==
  ASSUME NEW m \in Messages, NEW d, NEW k \in 0 .. Size(m) + 7, NEW g, DeviceAt(d, m, k, g)
  PROVE  /\ k # Size(m) + 7 => DeviceAt(DeviceReads(d, publish(m)[k + 1]), m, k + 1, g)
         /\ k = Size(m) + 7 => DeviceReady(DeviceReads(d, publish(m)[k + 1]), Append(g, m))
<1> DEFINE f == publish(m)
           l == Size(m)
           e == DeviceReads(d, f[k + 1])
           none == <<>>
<1>0. l \in Nat /\ l \in Word
  BY MessageType
<1>b. /\ f[1] = SYNC /\ f[2] = PROTOCOL_VER /\ f[3] = lo(l) /\ f[4] = hi(l)
      /\ f[5] = 255 - ((lo(l) + hi(l)) % 256) /\ f[6] = lo(m.topic) /\ f[7] = hi(m.topic)
  BY FrameBytes
<1>c. lo(l) + 256 * hi(l) = l /\ lo(l) + hi(l) \in Nat
  <2>1. Byte \subseteq Nat
    BY DEF Byte
  <2>2. lo(l) \in Byte /\ hi(l) \in Byte /\ lo(l) + 256 * hi(l) = l
    BY <1>0, Bytes16
  <2>3. lo(l) \in Nat /\ hi(l) \in Nat
    BY <2>1, <2>2
  <2> QED
    BY <2>2, <2>3
<1> HIDE DEF f, l, none
<1>1. PICK n, t, s, p :
        \/ k = 0 /\ d = DeviceState("FIRST_FF", n, t, s, p, g)
        \/ k = 1 /\ d = DeviceState("PROTOCOL_VER", n, t, s, p, g)
        \/ k = 2 /\ d = DeviceState("SIZE_L", n, t, s, p, g)
        \/ k = 3 /\ d = DeviceState("SIZE_H", lo(l), t, lo(l), none, g)
        \/ k = 4 /\ d = DeviceState("SIZE_CHECKSUM", l, t, lo(l) + hi(l), none, g)
        \/ k = 5 /\ d = DeviceState("TOPIC_L", l, t, s, none, g)
        \/ k = 6 /\ d = DeviceState("TOPIC_H", l, lo(m.topic), lo(m.topic), none, g)
        \/ InMessage(d, m, k, g, p)
  BY DEF DeviceAt, l, none
<1>2. CASE k = 0 /\ d = DeviceState("FIRST_FF", n, t, s, p, g)
  <2>1. e = DeviceState("PROTOCOL_VER", n, t, s, p, g) /\ k + 1 = 1 /\ 0 # l + 7
    BY <1>0, <1>2, <1>b, DeviceSyncs
  <2> HIDE DEF e
  <2>2. DeviceAt(e, m, 1, g)
    BY <2>1 DEF DeviceAt
  <2> QED
    BY <1>2, <2>1, <2>2 DEF e, f, l
<1>3. CASE k = 1 /\ d = DeviceState("PROTOCOL_VER", n, t, s, p, g)
  <2>1. k + 1 = 2 /\ k # l + 7
    BY <1>0, <1>3
  <2>2. e = DeviceState("SIZE_L", n, t, s, p, g)
    BY <1>3, <1>b, <2>1, DeviceSyncs
  <2> HIDE DEF e
  <2>3. DeviceAt(e, m, 2, g)
    BY <2>2 DEF DeviceAt
  <2> QED
    BY <2>1, <2>3 DEF e, f, l
<1>4. CASE k = 2 /\ d = DeviceState("SIZE_L", n, t, s, p, g)
  <2>1. k + 1 = 3 /\ k # l + 7
    BY <1>0, <1>4
  <2>2. e = DeviceState("SIZE_H", lo(l), t, lo(l), none, g)
    BY <1>4, <1>b, <2>1, DeviceSizes DEF none
  <2> HIDE DEF e
  <2>3. DeviceAt(e, m, 3, g)
    BY <2>2 DEF DeviceAt, l, none
  <2> QED
    BY <2>1, <2>3 DEF e, f, l
<1>5. CASE k = 3 /\ d = DeviceState("SIZE_H", lo(l), t, lo(l), none, g)
  <2>1. k + 1 = 4 /\ k # l + 7
    BY <1>0, <1>5
  <2>2. e = DeviceState("SIZE_CHECKSUM", lo(l) + 256 * hi(l), t, lo(l) + hi(l), none, g)
    BY <1>5, <1>b, <2>1, DeviceSizes
  <2>3. e = DeviceState("SIZE_CHECKSUM", l, t, lo(l) + hi(l), none, g)
    BY <1>c, <2>2
  <2> HIDE DEF e
  <2>4. DeviceAt(e, m, 4, g)
    BY <2>3 DEF DeviceAt, l, none
  <2> QED
    BY <2>1, <2>4 DEF e, f, l
<1>6. CASE k = 4 /\ d = DeviceState("SIZE_CHECKSUM", l, t, lo(l) + hi(l), none, g)
  <2>1. k + 1 = 5 /\ k # l + 7
    BY <1>0, <1>6
  <2>2. (lo(l) + hi(l) + f[5]) % 256 = 255
    BY <1>b, <1>c, Complement
  <2> DEFINE c == lo(l) + hi(l)
             x == f[5]
  <2>3. e = DeviceReads(d, x) /\ d = DeviceState("SIZE_CHECKSUM", l, t, c, none, g) /\ (c + x) % 256 = 255
    BY <1>6, <2>1, <2>2
  <2> HIDE DEF c, x, e
  <2>4. e = DeviceState(IF (c + x) % 256 = 255 THEN "TOPIC_L" ELSE "FIRST_FF", l, t, c, none, g)
    BY <2>3, DeviceChecksSize
  <2>5. e = DeviceState("TOPIC_L", l, t, c, none, g)
    BY <2>3, <2>4
  <2>6. DeviceAt(e, m, 5, g)
    BY <2>5 DEF DeviceAt, l, none
  <2> QED
    BY <2>1, <2>6 DEF e, f, l
<1>7. CASE k = 5 /\ d = DeviceState("TOPIC_L", l, t, s, none, g)
  <2>1. k + 1 = 6 /\ k # l + 7
    BY <1>0, <1>7
  <2>2. e = DeviceState("TOPIC_H", l, lo(m.topic), lo(m.topic), none, g)
    BY <1>7, <1>b, <2>1, DeviceTopic
  <2> HIDE DEF e
  <2>3. DeviceAt(e, m, 6, g)
    BY <2>2 DEF DeviceAt, l, none
  <2> QED
    BY <2>1, <2>3 DEF e, f, l
<1>8. CASE k = 6 /\ d = DeviceState("TOPIC_H", l, lo(m.topic), lo(m.topic), none, g)
  <2>1. k + 1 = 7 /\ k # l + 7
    BY <1>0, <1>8
  <2>2. e = DeviceReads(d, hi(m.topic))
    BY <1>b, <2>1
  <2> HIDE DEF e
  <2>3. InMessage(e, m, 7, g, <<>>)
    BY <1>8, <2>2, DeviceBegins DEF l, none
  <2>4. DeviceAt(e, m, 7, g)
    BY <2>3 DEF DeviceAt
  <2> QED
    BY <2>1, <2>4 DEF e, f, l
<1>9. CASE InMessage(d, m, k, g, p) /\ k # l + 7
  <2>1. InMessage(e, m, k + 1, g, p \o <<f[k + 1]>>)
    BY <1>9, DeviceReadsOn DEF l, f
  <2> HIDE DEF e
  <2>2. DeviceAt(e, m, k + 1, g)
    BY <2>1 DEF DeviceAt
  <2> QED
    BY <1>9, <2>2 DEF e, f, l
<1>10. CASE InMessage(d, m, k, g, p) /\ k = l + 7
  <2>1. k + 1 = l + 8
    BY <1>0, <1>10
  <2>2. InMessage(d, m, Size(m) + 7, g, p)
    BY <1>10 DEF l
  <2>3. DeviceReady(DeviceReads(d, publish(m)[Size(m) + 8]), Append(g, m))
    BY <2>2, DeviceAccepts
  <2> QED
    BY <1>10, <2>1, <2>3 DEF f, l
<1> QED
  BY <1>1, <1>2, <1>3, <1>4, <1>5, <1>6, <1>7, <1>8, <1>9, <1>10

-----------------------------------------------------------------------------
(* The line and the messages. *)

\* What is left of m's frame after k bytes.
Rest(m, k) == SubSeq(publish(m), k + 1, Size(m) + 8)

LEMMA RestOfFrame ==
  ASSUME NEW m \in Messages, NEW k \in 0 .. Size(m) + 7
  PROVE  /\ Rest(m, k) # <<>> /\ Head(Rest(m, k)) = publish(m)[k + 1] /\ publish(m)[k + 1] \in Byte
         /\ k # Size(m) + 7 => k + 1 \in 0 .. Size(m) + 7 /\ Tail(Rest(m, k)) = Rest(m, k + 1)
         /\ k = Size(m) + 7 => Tail(Rest(m, k)) = <<>>
<1> DEFINE f == publish(m)
           l == Size(m)
           n == l + 8
           i == k + 1
<1>1. f \in Seq(Byte) /\ Len(f) = n /\ l \in Nat
  BY SameFrame, MessageType
<1> HIDE DEF f, l
<1>2. /\ i \in 1 .. n /\ n \in i .. n /\ n \in Nat
      /\ (k # l + 7) => (k + 1 \in 0 .. l + 7)
      /\ (k = l + 7) => (n < i + 1)
  BY <1>1 DEF l
<1> HIDE DEF n, i
<1>3. i \in 1 .. Len(f) /\ n \in i .. Len(f)
  BY <1>1, <1>2
<1>4. Head(SubSeq(f, i, n)) = f[i] /\ Tail(SubSeq(f, i, n)) = SubSeq(f, i + 1, n)
  BY <1>1, <1>3, HeadTailOfSubSeq
<1>5. SubSeq(f, i, n) # <<>>
  <2>1. \A j \in i .. n : f[j] \in Byte
    BY <1>1, <1>2
  <2>2. i \in Int /\ n \in Int /\ i <= n
    BY <1>2
  <2>3. Len(SubSeq(f, i, n)) = n - i + 1
    BY <2>1, <2>2, SubSeqProperties
  <2>4. n - i + 1 # 0
    BY <2>2
  <2> QED
    BY <2>3, <2>4, EmptySeq
<1>6. f[i] \in Byte
  BY <1>1, <1>3
<1>7. n < i + 1 => SubSeq(f, i + 1, n) = <<>>
  <2>1. i + 1 \in Int /\ n \in Int
    BY <1>2
  <2> QED
    BY <2>1, SubSeqEmpty
<1>8. Rest(m, k) = SubSeq(f, i, n) /\ Rest(m, k + 1) = SubSeq(f, i + 1, n)
  BY DEF Rest, f, i, n, l
<1>9. f[k + 1] = f[i]
  BY DEF i
<1> QED
  BY <1>2, <1>4, <1>5, <1>6, <1>7, <1>8, <1>9 DEF f, l

LEMMA WholeFrame ==
  ASSUME NEW m \in Messages
  PROVE  Rest(m, 0) = publish(m) /\ 0 \in 0 .. Size(m) + 7
<1>1. /\ publish(m) \in Seq(Byte) /\ Len(publish(m)) = Size(m) + 8 /\ Size(m) \in Nat
  BY SameFrame, MessageType
<1>2. SubSeq(publish(m), 1, Len(publish(m))) = publish(m)
  BY <1>1, SubSeqFull
<1> QED
  BY <1>1, <1>2 DEF Rest

LEMMA MessagesAreTaken ==
  ASSUME NEW s, s \in Seq(Messages)
  PROVE  s \in Seq(Taken)
<1>1. Word \subseteq Nat
  BY DEF Word, Words
<1>2. Messages \subseteq Taken
  BY <1>1, MessagesAssumption DEF Taken
<1> QED
  BY <1>2, SeqMonotonic

LEMMA AppendRegroups ==
  ASSUME NEW g \in Seq(Taken), NEW u \in Seq(Messages), NEW m \in Messages
  PROVE  Append(g \o u, m) = g \o Append(u, m)
<1> DEFINE c == <<m>>
<1>1. u \in Seq(Taken) /\ c \in Seq(Taken) /\ m \in Taken
  <2>1. c \in Seq(Messages)
    OBVIOUS
  <2>2. c \in Seq(Taken) /\ u \in Seq(Taken)
    BY <2>1, MessagesAreTaken
  <2>3. Word \subseteq Nat
    BY DEF Word, Words
  <2>4. m \in Taken
    BY <2>3, MessagesAssumption DEF Taken
  <2> QED
    BY <2>2, <2>4
<1>2. g \o u \in Seq(Taken)
  BY <1>1, ConcatProperties
<1>3. Append(g \o u, m) = (g \o u) \o c /\ Append(u, m) = u \o c
  BY <1>1, <1>2, AppendIsConcat
<1> HIDE DEF c
<1>4. (g \o u) \o c = g \o (u \o c)
  BY <1>1, ConcatAssociative
<1> QED
  BY <1>3, <1>4

LEMMA SuffixOfConcat ==
  ASSUME NEW S, NEW g, NEW s, g \in Seq(S), s \in Seq(S)
  PROVE  IsSuffix(s, g \o s)
<1> DEFINE t == g \o s
           n == Len(s)
           N == Len(g) + n
           r == Reverse(s)
           q == Reverse(t)
<1>1. n \in Nat /\ Len(g) \in Nat /\ N \in Nat /\ n <= N
  BY LenProperties
<1>2. t \in Seq(S) /\ Len(t) = N /\ \A i \in 1 .. N : t[i] = IF i <= Len(g) THEN g[i] ELSE s[i - Len(g)]
  BY ConcatProperties
<1> HIDE DEF t
<1>3. r = [i \in 1 .. n |-> s[(n - i) + 1]] /\ q = [i \in 1 .. N |-> t[(N - i) + 1]]
  BY <1>2 DEF Reverse
<1>4. /\ \A i \in 1 .. n : s[(n - i) + 1] \in S
      /\ \A i \in 1 .. N : t[(N - i) + 1] \in S
  <2>1. \A i \in 1 .. n : (n - i) + 1 \in 1 .. n
    BY <1>1
  <2>2. \A i \in 1 .. N : (N - i) + 1 \in 1 .. N
    BY <1>1
  <2> QED
    BY <1>2, <2>1, <2>2, ElementOfSeq
<1>5. \A i \in 1 .. n : t[(N - i) + 1] = s[(n - i) + 1]
  <2> TAKE i \in 1 .. n
  <2>1. (N - i) + 1 \in 1 .. N /\ ~((N - i) + 1 <= Len(g)) /\ (N - i) + 1 - Len(g) = (n - i) + 1
    BY <1>1
  <2> QED
    BY <1>2, <2>1
<1> HIDE DEF n, N, r, q
<1>6. Len(r) = n /\ Len(q) = N
  BY <1>1, <1>3
<1>7. \A i \in 1 .. n : r[i] = q[i]
  <2>1. \A i \in 1 .. n : i \in 1 .. N
    BY <1>1
  <2> QED
    BY <1>3, <1>5, <2>1
<1>8. SubSeq(r, 1, n) = SubSeq(q, 1, n)
  BY <1>1, <1>7
<1> QED
  BY <1>1, <1>6, <1>8 DEF IsSuffix, IsPrefix, r, q, t

-----------------------------------------------------------------------------
(* The invariant. *)

\* Nothing happened to the bytes that the server minds.
Lossless == ~suffered({"garbled", "lost"})
Kinds == {"garbled", "lost", "slow"}

\* Between two frames.
BetweenFrames ==
  /\ line = <<>>
  /\ Lossless => ServerReady(server, sent)
  /\ ~disturbed => \E g \in Seq(Taken) : DeviceReady(device, g \o since)
  /\ damage = <<>> => DeviceReady(device, sent)

\* k bytes of m's frame have left; the messages s were sent before.
Within(m, s, k) ==
  /\ line = Rest(m, k) /\ sent = Append(s, m)
  /\ Lossless => ServerAt(server, m, k, s)
  /\ ~disturbed => \E g \in Seq(Taken), u \in Seq(Messages) :
                     since = Append(u, m) /\ DeviceAt(device, m, k, g \o u)
  /\ damage = <<>> => DeviceAt(device, m, k, s)

InFrame == \E m \in Messages, s \in Seq(Messages) : \E k \in 0 .. Size(m) + 7 : Within(m, s, k)

FrameTypes ==
  /\ sent \in Seq(Messages) /\ since \in Seq(Messages) /\ damage \in Seq(Kinds)
  /\ DeviceType(device)
  /\ disturbed => since = <<>>

FrameInv == FrameTypes /\ (BetweenFrames \/ InFrame)

LEMMA FrameInvInit == FramingInit => FrameInv
<1> SUFFICES ASSUME FramingInit PROVE FrameInv
  OBVIOUS
<1> USE DEF FramingInit
<1>1. server = ServerState("read_sync_first", 1, <<>>, 0, <<>>)
  BY DEF ServerState
<1>2. device = DeviceState("FIRST_FF", 0, 0, 0, <<>>, <<>>)
  BY DEF DeviceState
<1>3. ServerReady(server, sent)
  BY <1>1 DEF ServerReady
<1>4. DeviceReady(device, sent)
  BY <1>2 DEF DeviceReady
<1>5. <<>> \in Seq(Taken) /\ <<>> \in Seq(Byte) /\ <<>> \in Seq(Messages) /\ <<>> \in Seq(Kinds)
      /\ "FIRST_FF" \in Modes /\ 0 \in Nat
  BY DEF Modes
<1>6. DeviceType(device)
  BY <1>2, <1>5, DeviceTypeIs
<1>7. \E g \in Seq(Taken) : DeviceReady(device, g \o since)
  <2>1. <<>> \o since = sent
    BY <1>5, ConcatEmptySeq
  <2> QED
    BY <1>4, <1>5, <2>1
<1>8. FrameTypes
  BY <1>5, <1>6 DEF FrameTypes
<1>9. BetweenFrames
  BY <1>3, <1>4, <1>7 DEF BetweenFrames
<1> QED
  BY <1>8, <1>9 DEF FrameInv

LEMMA NotInFrame == FrameInv /\ line = <<>> => BetweenFrames
  BY RestOfFrame DEF FrameInv, InFrame, Within

LEMMA NotIdle == FrameInv /\ line # <<>> => InFrame
  BY DEF FrameInv, BetweenFrames

LEMMA DamageCounts ==
  ASSUME NEW kind \in Kinds, damage \in Seq(Kinds), damage' = Append(damage, kind)
  PROVE  /\ damage' \in Seq(Kinds) /\ damage' # <<>>
         /\ Lossless' => Lossless
         /\ kind \in {"garbled", "lost"} => ~Lossless'
<1>1. damage' \in Seq(Kinds) /\ damage' # <<>>
  BY AppendProperties
<1>2. /\ DOMAIN damage' = 1 .. Len(damage) + 1 /\ DOMAIN damage = 1 .. Len(damage)
      /\ Len(damage) \in Nat /\ damage'[Len(damage) + 1] = kind
      /\ \A i \in 1 .. Len(damage) : damage'[i] = damage[i]
  BY <1>1, AppendProperties, LenProperties
<1>3. kind \in Range(damage')
  BY <1>2 DEF Range
<1>4. Range(damage) \subseteq Range(damage')
  BY <1>2 DEF Range
<1> QED
  BY <1>1, <1>3, <1>4 DEF Lossless, suffered

LEMMA ReadyIsAt ==
  ASSUME NEW m, NEW g
  PROVE  /\ \A d : DeviceReady(d, g) => DeviceAt(d, m, 0, g)
         /\ \A d : ServerReady(d, g) => ServerAt(d, m, 0, g)
  BY DEF DeviceReady, DeviceAt, ServerReady, ServerAt

LEMMA ReadyAgain ==
  ASSUME NEW d
  PROVE  /\ \A g : DeviceReady(d, g) => DeviceReady(restart(d), g)
         /\ DeviceType(d) => DeviceType(restart(d))
         /\ DeviceType(d) => \E g \in Seq(Taken) : DeviceReady(restart(d), g)
<1>1. \A g : DeviceReady(d, g) => DeviceReady(restart(d), g)
  BY Restarts DEF DeviceReady
<1>2. ASSUME DeviceType(d)
      PROVE  DeviceType(restart(d)) /\ \E g \in Seq(Taken) : DeviceReady(restart(d), g)
  <2>1. PICK mode \in Modes, t \in Nat, p \in Seq(Byte), g \in Seq(Taken) :
          \E n, s : d = DeviceState(mode, n, t, s, p, g)
    BY <1>2 DEF DeviceType
  <2>2. PICK n, s : d = DeviceState(mode, n, t, s, p, g)
    BY <2>1
  <2>3. restart(d) = DeviceState("FIRST_FF", n, t, s, p, g)
    BY <2>2, Restarts
  <2>4. "FIRST_FF" \in Modes
    BY DEF Modes
  <2> QED
    BY <2>3, <2>4, DeviceTypeIs DEF DeviceReady
<1> QED
  BY <1>1, <1>2

LEMMA StepSend ==
  ASSUME FrameInv, NEW m \in Messages, Send(m)
  PROVE  FrameInv'
<1>1. /\ line = <<>> /\ line' = publish(m) /\ sent' = Append(sent, m)
      /\ since' = IF disturbed THEN since ELSE Append(since, m)
      /\ UNCHANGED <<server, device, damage, disturbed>>
  BY SameFrame DEF Send
<1>2. BetweenFrames /\ FrameTypes
  BY <1>1, NotInFrame DEF FrameInv
<1>3. sent \in Seq(Messages) /\ since \in Seq(Messages)
  BY <1>2 DEF FrameTypes
<1>4. FrameTypes'
  BY <1>1, <1>2, <1>3, AppendProperties DEF FrameTypes
<1>5. line' = Rest(m, 0) /\ 0 \in 0 .. Size(m) + 7
  BY <1>1, WholeFrame
<1>6. Lossless' => ServerAt(server', m, 0, sent)
  BY <1>1, <1>2, ReadyIsAt DEF BetweenFrames, Lossless, suffered
<1>7. damage' = <<>> => DeviceAt(device', m, 0, sent)
  BY <1>1, <1>2, ReadyIsAt DEF BetweenFrames
<1>8. ASSUME ~disturbed'
      PROVE  \E g \in Seq(Taken), u \in Seq(Messages) :
               since' = Append(u, m) /\ DeviceAt(device', m, 0, g \o u)
  <2>1. since' = Append(since, m)
    BY <1>1, <1>8
  <2>2. PICK g \in Seq(Taken) : DeviceReady(device, g \o since)
    BY <1>1, <1>2, <1>8 DEF BetweenFrames
  <2>3. DeviceAt(device', m, 0, g \o since)
    BY <1>1, <2>2, ReadyIsAt
  <2> QED
    BY <1>3, <2>1, <2>3
<1>9. PICK s \in Seq(Messages) : s = sent
  BY <1>3
<1>10. Within(m, s, 0)'
  BY <1>1, <1>5, <1>6, <1>7, <1>8, <1>9 DEF Within
<1>11. InFrame'
  BY <1>5, <1>10 DEF InFrame
<1> QED
  BY <1>4, <1>11 DEF FrameInv

LEMMA StepArrives ==
  ASSUME FrameInv, Arrives
  PROVE  FrameInv'
<1>1. /\ line # <<>> /\ line' = Tail(line)
      /\ server' = ServerReads(server, Head(line)) /\ device' = DeviceReads(device, Head(line))
      /\ UNCHANGED <<sent, damage, disturbed, since>>
  BY DEF Arrives, history
<1>2. FrameTypes /\ InFrame
  BY <1>1, NotIdle DEF FrameInv
<1>3. PICK m \in Messages, s \in Seq(Messages) : \E k \in 0 .. Size(m) + 7 : Within(m, s, k)
  BY <1>2 DEF InFrame
<1>4. PICK k \in 0 .. Size(m) + 7 : Within(m, s, k)
  BY <1>3
<1> DEFINE x == publish(m)[k + 1]
           last == k = Size(m) + 7
<1>5. line = Rest(m, k) /\ sent = Append(s, m)
  BY <1>4 DEF Within
<1>6. /\ x \in Byte /\ server' = ServerReads(server, x) /\ device' = DeviceReads(device, x)
      /\ ~last => k + 1 \in 0 .. Size(m) + 7 /\ line' = Rest(m, k + 1)
      /\ last => line' = <<>>
  BY <1>1, <1>5, RestOfFrame
<1>7. DeviceType(device')
  BY <1>2, <1>6, DeviceKeepsType DEF FrameTypes
<1>8. FrameTypes'
  BY <1>1, <1>2, <1>7 DEF FrameTypes
<1>9. Lossless' => ServerAt(server, m, k, s)
  BY <1>1, <1>4 DEF Within, Lossless, suffered
<1>10. damage' = <<>> => DeviceAt(device, m, k, s)
  BY <1>1, <1>4 DEF Within
<1>11. ~disturbed' => \E g \in Seq(Taken), u \in Seq(Messages) :
                        since' = Append(u, m) /\ DeviceAt(device, m, k, g \o u)
  BY <1>1, <1>4 DEF Within
<1> HIDE DEF x, last
<1>12. CASE last
  <2>1. Lossless' => ServerReady(server', sent')
    BY <1>1, <1>5, <1>6, <1>9, <1>12, ServerTakes DEF x, last
  <2>2. damage' = <<>> => DeviceReady(device', sent')
    BY <1>1, <1>5, <1>6, <1>10, <1>12, DeviceTakes DEF x, last
  <2>3. ASSUME ~disturbed' PROVE \E g \in Seq(Taken) : DeviceReady(device', g \o since')
    <3>1. PICK g \in Seq(Taken), u \in Seq(Messages) :
            since' = Append(u, m) /\ DeviceAt(device, m, k, g \o u)
      BY <1>11, <2>3
    <3>2. DeviceReady(device', Append(g \o u, m))
      BY <1>6, <1>12, <3>1, DeviceTakes DEF x, last
    <3>3. Append(g \o u, m) = g \o since'
      BY <3>1, AppendRegroups
    <3> QED
      BY <3>2, <3>3
  <2>4. BetweenFrames'
    BY <1>6, <1>12, <2>1, <2>2, <2>3 DEF BetweenFrames
  <2> QED
    BY <1>8, <2>4 DEF FrameInv
<1>13. CASE ~last
  <2>1. Lossless' => ServerAt(server', m, k + 1, s)
    BY <1>6, <1>9, <1>13, ServerTakes DEF x, last
  <2>2. damage' = <<>> => DeviceAt(device', m, k + 1, s)
    BY <1>6, <1>10, <1>13, DeviceTakes DEF x, last
  <2>3. ASSUME ~disturbed'
        PROVE  \E g \in Seq(Taken), u \in Seq(Messages) :
                 since' = Append(u, m) /\ DeviceAt(device', m, k + 1, g \o u)
    <3>1. PICK g \in Seq(Taken), u \in Seq(Messages) :
            since' = Append(u, m) /\ DeviceAt(device, m, k, g \o u)
      BY <1>11, <2>3
    <3>2. DeviceAt(device', m, k + 1, g \o u)
      BY <1>6, <1>13, <3>1, DeviceTakes DEF x, last
    <3> QED
      BY <3>1, <3>2
  <2>4. line' = Rest(m, k + 1) /\ k + 1 \in 0 .. Size(m) + 7 /\ sent' = Append(s, m)
    BY <1>1, <1>5, <1>6, <1>13
  <2>5. Within(m, s, k + 1)'
    BY <2>1, <2>2, <2>3, <2>4 DEF Within
  <2>6. InFrame'
    BY <2>4, <2>5 DEF InFrame
  <2> QED
    BY <1>8, <2>6 DEF FrameInv
<1> QED
  BY <1>12, <1>13

(* Once a byte was garbled or lost, only the types and the line count. *)
LEMMA StepDamage ==
  ASSUME FrameInv, line # <<>>, line' = Tail(line), sent' = sent, since' = <<>>, disturbed' = TRUE,
         DeviceType(device'), NEW kind \in {"garbled", "lost"}, damage' = Append(damage, kind)
  PROVE  FrameInv'
<1>1. FrameTypes /\ InFrame
  BY NotIdle DEF FrameInv
<1>2. PICK m \in Messages, s \in Seq(Messages) : \E k \in 0 .. Size(m) + 7 : Within(m, s, k)
  BY <1>1 DEF InFrame
<1>3. PICK k \in 0 .. Size(m) + 7 : Within(m, s, k)
  BY <1>2
<1>4. line = Rest(m, k) /\ sent' = Append(s, m)
  BY <1>3 DEF Within
<1>5. damage' \in Seq(Kinds) /\ damage' # <<>> /\ ~Lossless'
  <2>1. kind \in Kinds /\ damage \in Seq(Kinds)
    BY <1>1 DEF FrameTypes, Kinds
  <2> QED
    BY <2>1, DamageCounts
<1>6. FrameTypes'
  <2>1. <<>> \in Seq(Messages)
    OBVIOUS
  <2> QED
    BY <1>1, <1>5, <2>1 DEF FrameTypes
<1>7. CASE k = Size(m) + 7
  <2>1. line' = <<>>
    BY <1>4, <1>7, RestOfFrame
  <2>2. BetweenFrames'
    BY <1>5, <2>1 DEF BetweenFrames
  <2> QED
    BY <1>6, <2>2 DEF FrameInv
<1>8. CASE k # Size(m) + 7
  <2>1. line' = Rest(m, k + 1) /\ k + 1 \in 0 .. Size(m) + 7
    BY <1>4, <1>8, RestOfFrame
  <2>2. Within(m, s, k + 1)'
    BY <1>4, <1>5, <2>1 DEF Within
  <2>3. InFrame'
    BY <2>1, <2>2 DEF InFrame
  <2> QED
    BY <1>6, <2>3 DEF FrameInv
<1> QED
  BY <1>7, <1>8

LEMMA StepGarbled ==
  ASSUME FrameInv, NEW b \in Byte, Garbled(b)
  PROVE  FrameInv'
<1>1. DeviceType(device')
  BY DeviceKeepsType DEF Garbled, FrameInv, FrameTypes
<1> QED
  BY <1>1, StepDamage DEF Garbled

LEMMA StepLost ==
  ASSUME FrameInv, Lost
  PROVE  FrameInv'
<1>1. DeviceType(device')
  BY DEF Lost, FrameInv, FrameTypes
<1> QED
  BY <1>1, StepDamage DEF Lost

LEMMA StepSlow ==
  ASSUME FrameInv, Slow
  PROVE  FrameInv'
<1>1. /\ line # <<>> /\ device' = restart(device) /\ damage' = Append(damage, "slow")
      /\ disturbed' = TRUE /\ since' = <<>> /\ line' = line /\ sent' = sent /\ server' = server
  BY DEF Slow
<1>2. FrameTypes /\ InFrame
  BY <1>1, NotIdle DEF FrameInv
<1>3. PICK m \in Messages, s \in Seq(Messages) : \E k \in 0 .. Size(m) + 7 : Within(m, s, k)
  BY <1>2 DEF InFrame
<1>4. PICK k \in 0 .. Size(m) + 7 : Within(m, s, k)
  BY <1>3
<1>5. damage' \in Seq(Kinds) /\ damage' # <<>> /\ (Lossless' => Lossless)
  <2>1. "slow" \in Kinds /\ damage \in Seq(Kinds)
    BY <1>2 DEF FrameTypes, Kinds
  <2> QED
    BY <1>1, <2>1, DamageCounts
<1>6. FrameTypes'
  <2>1. <<>> \in Seq(Messages)
    OBVIOUS
  <2> QED
    BY <1>1, <1>2, <1>5, <2>1, ReadyAgain DEF FrameTypes
<1>7. Within(m, s, k)'
  BY <1>1, <1>4, <1>5 DEF Within
<1> QED
  BY <1>6, <1>7 DEF FrameInv, InFrame

LEMMA StepPause ==
  ASSUME FrameInv, Pause
  PROVE  FrameInv'
<1>1. /\ line = <<>> /\ device' = restart(device) /\ disturbed' = FALSE /\ line' = line
      /\ sent' = sent /\ server' = server /\ damage' = damage /\ since' = since
  BY DEF Pause
<1>2. FrameTypes /\ BetweenFrames
  BY <1>1, NotInFrame DEF FrameInv
<1>3. FrameTypes'
  BY <1>1, <1>2, ReadyAgain DEF FrameTypes
<1>4. \E g \in Seq(Taken) : DeviceReady(device', g \o since')
  <2>1. CASE disturbed
    <3>1. PICK g \in Seq(Taken) : DeviceReady(restart(device), g)
      BY <1>2, ReadyAgain DEF FrameTypes
    <3>2. g \o since' = g
      BY <1>1, <1>2, <2>1, ConcatEmptySeq DEF FrameTypes
    <3> QED
      BY <1>1, <3>1, <3>2
  <2>2. CASE ~disturbed
    BY <1>1, <1>2, <2>2, ReadyAgain DEF BetweenFrames
  <2> QED
    BY <2>1, <2>2
<1>5. BetweenFrames'
  BY <1>1, <1>2, <1>4, ReadyAgain DEF BetweenFrames, Lossless, suffered
<1> QED
  BY <1>3, <1>5 DEF FrameInv

(* The invariant is inductive. *)
LEMMA FrameInvHolds == FramingSpec => []FrameInv
<1>1. FrameInv /\ [FramingNext]_framingVars => FrameInv'
  <2> SUFFICES ASSUME FrameInv, [FramingNext]_framingVars PROVE FrameInv'
    OBVIOUS
  <2>1. CASE UNCHANGED framingVars
    <3>1. UNCHANGED <<line, sent, server, device, damage, disturbed, since>>
      BY <2>1 DEF framingVars, history
    <3> QED
      BY <3>1 DEF FrameInv, FrameTypes, BetweenFrames, InFrame, Within, Lossless, suffered
  <2>2. ASSUME NEW m \in Messages, Send(m) PROVE FrameInv'
    BY <2>2, StepSend
  <2>3. CASE Arrives
    BY <2>3, StepArrives
  <2>4. ASSUME NEW b \in Byte, Garbled(b) PROVE FrameInv'
    BY <2>4, StepGarbled
  <2>5. CASE Lost
    BY <2>5, StepLost
  <2>6. CASE Slow
    BY <2>6, StepSlow
  <2>7. CASE Pause
    BY <2>7, StepPause
  <2> QED
    BY <2>1, <2>2, <2>3, <2>4, <2>5, <2>6, <2>7 DEF FramingNext
<1> QED
  BY FrameInvInit, <1>1, PTL DEF FramingSpec

(* On an undamaged line both readers get every message, in order, and are   *)
(* ready for the next one: for any messages that fit both ends, whichever   *)
(* end writes them, and however many.                                       *)
THEOREM FramesRoundTrip == FramingSpec => []RoundTrip
<1>1. FrameInv => RoundTrip
  <2> SUFFICES ASSUME FrameInv, line = <<>> PROVE RoundTrip
    BY DEF RoundTrip
  <2>1. BetweenFrames
    BY NotInFrame
  <2>2. ASSUME Lossless PROVE server.got = sent /\ server.mode = "read_sync_first"
    <3>1. PICK t : server = ServerState("read_sync_first", 1, <<>>, t, sent)
      BY <2>1, <2>2 DEF BetweenFrames, ServerReady
    <3> QED
      BY <3>1 DEF ServerState
  <2>3. ASSUME damage = <<>> PROVE device.got = sent /\ device.mode = "FIRST_FF"
    <3>1. PICK n, t, s, p : device = DeviceState("FIRST_FF", n, t, s, p, sent)
      BY <2>1, <2>3 DEF BetweenFrames, DeviceReady
    <3> QED
      BY <3>1 DEF DeviceState
  <2> QED
    BY <2>2, <2>3 DEF RoundTrip, Lossless
<1> QED
  BY <1>1, FrameInvHolds, PTL

(* Whatever bytes were garbled, lost or late, a pause brings the device     *)
(* back: it takes every message sent after it, in order, until the next     *)
(* damage.                                                                  *)
THEOREM PauseBringsDeviceBack == FramingSpec => []PauseResyncs
<1>1. FrameInv => PauseResyncs
  <2> SUFFICES ASSUME FrameInv, line = <<>>, ~disturbed PROVE IsSuffix(since, device.got)
    BY DEF PauseResyncs
  <2>1. BetweenFrames /\ since \in Seq(Taken)
    BY NotInFrame, MessagesAreTaken DEF FrameInv, FrameTypes
  <2>2. PICK g \in Seq(Taken) : DeviceReady(device, g \o since)
    BY <2>1 DEF BetweenFrames
  <2>3. PICK n, t, s, p : device = DeviceState("FIRST_FF", n, t, s, p, g \o since)
    BY <2>2 DEF DeviceReady
  <2>4. device.got = g \o since
    BY <2>3 DEF DeviceState
  <2> QED
    BY <2>1, <2>4, SuffixOfConcat
<1> QED
  BY <1>1, FrameInvHolds, PTL

-----------------------------------------------------------------------------
(* The receive buffer. *)

USE CapacityAssumption, RequestsAssumption, MaxBytesAssumption, MaxPostedAssumption

(* The empty buffer of the constructor satisfies the invariant.            *)
LEMMA InitBufferInv == Init => BufferInv
<1> SUFFICES ASSUME Init PROVE BufferInv
  OBVIOUS
<1> USE DEF Init, NoOp, Cells, bytesAvailable
<1>1. TypeOK
  BY DEF TypeOK
<1>2. UnreadBytesKept
  BY DEF UnreadBytesKept
<1>3. TransferFits /\ PostedBytesIntact /\ TransferOvertakes /\ OnlyOversizeWedges
  BY DEF TransferFits, PostedBytesIntact, TransferOvertakes, OnlyOversizeWedges
<1> QED
  BY <1>1, <1>2, <1>3 DEF BufferInv

(* What the callbacks were promised does not depend on the indexes.        *)
LEMMA ViewsKept ==
  ASSUME PostedBytesIntact, TransferOvertakes,
         UNCHANGED <<mem, posted>>, op' = op \/ op' = NoOp
  PROVE  PostedBytesIntact' /\ TransferOvertakes'
BY DEF PostedBytesIntact, TransferOvertakes, InMemory, Intact

(* A refused read() keeps the invariant, whether or not it is the one that *)
(* gives up on the request and empties the buffer.                         *)
LEMMA RefusedKeepsInv ==
  ASSUME BufferInv, ~abandoned, ReadRefused PROVE BufferInv'
<1> USE DEF BufferInv, ReadRefused, bytesAvailable, Cells, NoOp
<1>1. TypeOK'
  <2>1. (next + bytesAvailable) \in Nat
    BY DEF TypeOK, UnreadBytesKept
  <2>2. count' \in 0 .. 4 /\ requested' \in Nat
    BY DEF TypeOK
  <2>3. write_index' \in 0 .. Capacity /\ read_index' \in 0 .. Capacity /\ next' \in Nat
    BY <2>1 DEF TypeOK
  <2>4. abandoned' \in BOOLEAN
    BY DEF TypeOK
  <2> QED
    BY <2>2, <2>3, <2>4 DEF TypeOK
<1>2. UnreadBytesKept'
  BY DEF UnreadBytesKept, TypeOK
<1>3. TransferFits' /\ OnlyOversizeWedges'
  BY DEF TransferFits, OnlyOversizeWedges, TypeOK
<1>4. (requested # 0 => count <= 3)'
  BY DEF TypeOK
<1>5. PostedBytesIntact' /\ TransferOvertakes'
  BY ViewsKept
<1> QED
  BY <1>1, <1>2, <1>3, <1>4, <1>5

(* So does one that is refused because it asks for too much.               *)
LEMMA TooLargeKeepsInv ==
  ASSUME BufferInv, ~abandoned, NEW n \in Requests, ReadTooLarge(n) PROVE BufferInv'
<1> USE DEF BufferInv, ReadTooLarge, bytesAvailable, Cells, NoOp, bufferVars
<1>1. TypeOK'
  BY DEF TypeOK
<1>2. UnreadBytesKept'
  BY DEF UnreadBytesKept, TypeOK
<1>3. TransferFits' /\ OnlyOversizeWedges'
  BY DEF TransferFits, OnlyOversizeWedges, TypeOK
<1>4. PostedBytesIntact' /\ TransferOvertakes'
  BY ViewsKept
<1> QED
  BY <1>1, <1>2, <1>3, <1>4

(* Shifting moves the unread bytes to the front unchanged and leaves room  *)
(* for all that a request of n bytes lacks.                                *)
LEMMA ShiftKeepsUnread ==
  ASSUME TypeOK, UnreadBytesKept, ShiftToFront, UNCHANGED <<received, next>>
  PROVE  /\ UnreadBytesKept'
         /\ mem' \in [Cells -> Nat]
         /\ write_index' = bytesAvailable
         /\ read_index' = 0
<1> USE DEF TypeOK, UnreadBytesKept, ShiftToFront, bytesAvailable, Cells
<1>1. mem' \in [Cells -> Nat]
  OBVIOUS
<1>2. \A c \in 0 .. bytesAvailable - 1 : mem'[c] = next + c
  OBVIOUS
<1> QED
  BY <1>1, <1>2

(* read() that starts a transfer, with or without a shift, overtakes every *)
(* callback that has not run.                                              *)
LEMMA FromHardwareKeepsInv ==
  ASSUME BufferInv, ~abandoned, NEW n \in Requests, ReadFromHardware(n) PROVE BufferInv'
<1> USE DEF BufferInv, NoOp
<1> DEFINE lacking == n - bytesAvailable
<1>0. /\ requested = 0 /\ n <= Capacity /\ lacking > 0 /\ count' = 0 /\ requested' = n
      /\ IF bytesHeadroom < lacking THEN ShiftToFront ELSE UNCHANGED bufferVars
      /\ op' = [at |-> write_index', need |-> lacking]
      /\ UNCHANGED <<abandoned, received, next>>
  BY DEF ReadFromHardware
<1>1. /\ mem' \in [Cells -> Nat] /\ write_index' \in 0 .. Capacity
      /\ read_index' \in 0 .. Capacity
      /\ UnreadBytesKept'
      /\ write_index' - read_index' = bytesAvailable
      /\ write_index' + lacking <= Capacity
      /\ (write_index' - read_index') + lacking = n
      /\ lacking \in 1 .. Capacity
  <2>0. n \in Nat \ {0} /\ bytesAvailable \in 0 .. Capacity
    BY DEF TypeOK, bytesAvailable, UnreadBytesKept
  <2>1. CASE bytesHeadroom < lacking
    <3>1. ShiftToFront
      BY <1>0, <2>1
    <3>2. /\ UnreadBytesKept' /\ mem' \in [Cells -> Nat]
          /\ write_index' = bytesAvailable /\ read_index' = 0
      BY <1>0, <3>1, ShiftKeepsUnread
    <3> QED
      BY <1>0, <2>0, <3>2
  <2>2. CASE ~(bytesHeadroom < lacking)
    <3>1. UNCHANGED bufferVars
      BY <1>0, <2>2
    <3> QED
      BY <1>0, <2>0, <2>2, <3>1 DEF TypeOK, bytesAvailable, bytesHeadroom, UnreadBytesKept, bufferVars
  <2> QED
    BY <2>1, <2>2
<1>2. /\ posted' \in Seq(Views)
      /\ \A i \in DOMAIN posted' : posted'[i].overtaken /\ InMemory(posted'[i])
  <2>1. \A i \in 1 .. Len(posted) : posted[i] \in Views /\ InMemory(posted[i])
    BY DEF TypeOK, PostedBytesIntact
  <2>2. ASSUME NEW i \in 1 .. Len(posted)
        PROVE  /\ [posted[i] EXCEPT !.overtaken = TRUE] \in Views
               /\ [posted[i] EXCEPT !.overtaken = TRUE].overtaken
               /\ InMemory([posted[i] EXCEPT !.overtaken = TRUE])
    BY <2>1 DEF Views, InMemory
  <2>3. DOMAIN posted = 1 .. Len(posted) /\ Len(posted) \in Nat
    BY DEF TypeOK
  <2>4. posted' = [i \in 1 .. Len(posted) |-> [posted[i] EXCEPT !.overtaken = TRUE]]
    BY <2>3 DEF ReadFromHardware
  <2>5. posted' \in [1 .. Len(posted) -> Views]
    BY <2>2, <2>4
  <2>6. DOMAIN posted' = 1 .. Len(posted)
    BY <2>4
  <2>7. \A i \in 1 .. Len(posted) : posted'[i].overtaken /\ InMemory(posted'[i])
    BY <2>2, <2>4
  <2> QED
    BY <2>3, <2>5, <2>6, <2>7
<1> HIDE DEF lacking
<1>3. TypeOK'
  <2>1. op' \in [at : 0 .. Capacity, need : 0 .. Capacity]
    BY <1>0, <1>1
  <2>2. n \in Nat
    OBVIOUS
  <2> QED
    BY <1>0, <1>1, <1>2, <2>1, <2>2 DEF TypeOK
<1>4. TransferFits'
  BY <1>0, <1>1 DEF TransferFits, bytesAvailable
<1>5. PostedBytesIntact' /\ TransferOvertakes'
  BY <1>2 DEF PostedBytesIntact, TransferOvertakes
<1>6. OnlyOversizeWedges'
  BY <1>0, <1>1 DEF OnlyOversizeWedges
<1> QED
  BY <1>0, <1>1, <1>3, <1>4, <1>5, <1>6

(* A callback that is posted with the next n bytes, which are at cell c,   *)
(* joins those that still have theirs.                                     *)
LEMMA PostKeeps ==
  ASSUME posted \in Seq(Views), next \in Nat,
         NEW c \in 0 .. Capacity, NEW n \in Nat \ {0}, c + n <= Capacity,
         \A j \in 0 .. n - 1 : mem'[c + j] = next + j,
         \A i \in DOMAIN posted :
           /\ InMemory(posted[i])
           /\ ~posted[i].overtaken =>
                \A j \in 0 .. posted[i].len - 1 : mem'[posted[i].start + j] = posted[i].first + j,
         post(c, n)
  PROVE  posted' \in Seq(Views) /\ PostedBytesIntact' /\ next' = next + n /\ requested' = 0
<1> DEFINE v == [start |-> c, len |-> n, first |-> next, overtaken |-> FALSE]
<1>1. v \in Views /\ InMemory(v)
  BY DEF Views, InMemory
<1>2. posted' = Append(posted, v) /\ next' = next + n /\ requested' = 0
  BY DEF post
<1>3. /\ v.start = c /\ v.len = n /\ v.first = next
  OBVIOUS
<1>4. \A j \in 0 .. v.len - 1 : mem'[v.start + j] = v.first + j
  BY <1>3
<1> HIDE DEF v
<1>5. posted' \in Seq(Views)
  BY <1>1, <1>2
<1>6. ASSUME NEW i \in DOMAIN posted'
      PROVE  /\ InMemory(posted'[i])
             /\ ~posted'[i].overtaken =>
                  \A j \in 0 .. posted'[i].len - 1 :
                    mem'[posted'[i].start + j] = posted'[i].first + j
  <2>1. CASE i = Len(posted) + 1
    <3>1. posted'[i] = v
      BY <1>2, <2>1
    <3> QED
      BY <1>1, <1>4, <3>1
  <2>2. CASE i \in DOMAIN posted
    <3>1. posted'[i] = posted[i]
      BY <1>2, <2>2
    <3> QED
      BY <2>2, <3>1
  <2> QED
    BY <1>2, <2>1, <2>2
<1> QED
  BY <1>2, <1>5, <1>6 DEF PostedBytesIntact, Intact

\* What is left of a run of bytes when its first n are gone.
LEMMA RestOfRun ==
  ASSUME NEW f, NEW r \in Nat, NEW w \in Nat, NEW n \in Nat, NEW p \in Nat,
         \A c \in r .. w - 1 : f[c] = p + (c - r)
  PROVE  \A c \in r + n .. w - 1 : f[c] = (p + n) + (c - (r + n))
OBVIOUS

(* read() that is answered from the buffer.                                *)
LEMMA FromBufferKeepsInv ==
  ASSUME BufferInv, ~abandoned, NEW n \in Requests, ReadFromBuffer(n) PROVE BufferInv'
<1> USE DEF BufferInv, ReadFromBuffer, bytesAvailable, callSuccessCallback, NoOp
<1>1. /\ n \in Nat \ {0} /\ read_index + n <= write_index /\ post(read_index, n)
      /\ write_index \in 0 .. Capacity /\ read_index \in 0 .. Capacity
  BY DEF TypeOK
<1>2. \A j \in 0 .. n - 1 : mem'[read_index + j] = next + j
  <2> SUFFICES ASSUME NEW j \in 0 .. n - 1 PROVE mem'[read_index + j] = next + j
    OBVIOUS
  <2>1. read_index + j \in read_index .. write_index - 1 /\ (read_index + j) - read_index = j
    BY <1>1
  <2> QED
    BY <2>1 DEF UnreadBytesKept
<1>3. posted' \in Seq(Views) /\ PostedBytesIntact' /\ next' = next + n /\ requested' = 0
  <2>1. mem' = mem /\ posted \in Seq(Views) /\ next \in Nat
    BY DEF TypeOK
  <2>2. \A i \in DOMAIN posted :
          /\ InMemory(posted[i])
          /\ ~posted[i].overtaken =>
               \A j \in 0 .. posted[i].len - 1 : mem'[posted[i].start + j] = posted[i].first + j
    BY <2>1 DEF PostedBytesIntact, Intact
  <2>3. read_index + n <= Capacity
    BY <1>1
  <2> QED
    BY <1>1, <1>2, <2>1, <2>2, <2>3, PostKeeps
<1>4. TypeOK'
  <2>1. write_index' \in 0 .. Capacity /\ read_index' \in 0 .. Capacity
    BY <1>1
  <2>2. next' \in Nat /\ requested' \in Nat /\ count' \in 0 .. 4
    BY <1>1, <1>3 DEF TypeOK
  <2> QED
    BY <1>3, <2>1, <2>2 DEF TypeOK
<1>5. UnreadBytesKept'
  <2>1. /\ mem' = mem /\ received' = received /\ next' = next + n
        /\ next \in Nat /\ received \in Nat
        /\ read_index <= write_index /\ next + (write_index - read_index) = received + 1
        /\ \A c \in read_index .. write_index - 1 : mem[c] = next + (c - read_index)
    BY <1>3 DEF UnreadBytesKept, TypeOK
  <2>2. CASE write_index - (read_index + n) = 0
    <3>1. write_index' = 0 /\ read_index' = 0
      BY <2>2
    <3> QED
      BY <1>1, <2>1, <2>2, <3>1 DEF UnreadBytesKept
  <2>3. CASE write_index - (read_index + n) # 0
    <3>1. write_index' = write_index /\ read_index' = read_index + n
      BY <2>3
    <3>2. \A c \in read_index + n .. write_index - 1 :
            mem[c] = (next + n) + (c - (read_index + n))
      <4>1. n \in Nat /\ read_index \in Nat /\ write_index \in Nat
        BY <1>1
      <4> QED
        BY <2>1, <4>1, RestOfRun
    <3> QED
      BY <1>1, <2>1, <2>3, <3>1, <3>2 DEF UnreadBytesKept
  <2> QED
    BY <2>2, <2>3
<1>6. op = NoOp
  BY DEF OnlyOversizeWedges
<1>7. TransferFits' /\ OnlyOversizeWedges' /\ TransferOvertakes'
  BY <1>3, <1>6 DEF TransferFits, OnlyOversizeWedges, TransferOvertakes
<1> QED
  BY <1>3, <1>4, <1>5, <1>7

(* A transfer that ends well: the new bytes continue the unread ones, and  *)
(* together they are enough for the request.                               *)
LEMMA CallbackKeepsInv ==
  ASSUME BufferInv, ~abandoned, NEW k \in 1 .. Capacity, callback(k) PROVE BufferInv'
<1> USE DEF BufferInv, callback, bytesAvailable, callSuccessCallback, NoOp
<1>1. /\ op.at = write_index /\ requested \in Nat \ {0}
      /\ write_index - read_index + op.need = requested
      /\ op.need <= k /\ write_index + k <= Capacity
      /\ read_index <= write_index
      /\ op.need \in Nat
  BY DEF TypeOK, TransferFits, OnlyOversizeWedges, UnreadBytesKept
<1>2. mem' \in [Cells -> Nat]
  <2>1. ASSUME NEW c \in Cells
        PROVE  (IF c \in op.at .. op.at + k - 1
                  THEN received + 1 + (c - op.at) ELSE mem[c]) \in Nat
    BY <1>1 DEF TypeOK, Cells
  <2> QED
    BY <2>1
<1>3. \A c \in read_index .. write_index + k - 1 : mem'[c] = next + (c - read_index)
  <2> SUFFICES ASSUME NEW c \in read_index .. write_index + k - 1
               PROVE  mem'[c] = next + (c - read_index)
    OBVIOUS
  <2>1. c \in Cells
    BY <1>1 DEF TypeOK, Cells
  <2>2. CASE c < write_index
    BY <1>1, <2>1, <2>2 DEF TypeOK, UnreadBytesKept
  <2>3. CASE c >= write_index
    BY <1>1, <2>1, <2>3 DEF TypeOK, UnreadBytesKept
  <2> QED
    BY <2>2, <2>3, <1>1 DEF TypeOK
<1>4. /\ posted' \in Seq(Views) /\ PostedBytesIntact'
      /\ next' = next + requested /\ requested' = 0
  <2>1. ASSUME NEW j \in 0 .. requested - 1 PROVE mem'[read_index + j] = next + j
    <3>1. /\ read_index + j \in read_index .. write_index + k - 1
          /\ (read_index + j) - read_index = j
      BY <1>1 DEF TypeOK
    <3> QED
      BY <1>3, <3>1
  <2>2. read_index \in 0 .. Capacity /\ read_index + requested <= Capacity
    BY <1>1 DEF TypeOK
  <2>3. \A i \in DOMAIN posted : InMemory(posted[i]) /\ posted[i].overtaken
    BY DEF TransferOvertakes, PostedBytesIntact
  <2>4. post(read_index, requested) /\ posted \in Seq(Views) /\ next \in Nat
    BY DEF TypeOK
  <2> QED
    BY <1>1, <2>1, <2>2, <2>3, <2>4, PostKeeps
<1>5. TypeOK'
  <2>1. write_index' \in 0 .. Capacity /\ read_index' \in 0 .. Capacity
    BY <1>1 DEF TypeOK
  <2>2. next' \in Nat /\ received' \in Nat
    BY <1>1, <1>4 DEF TypeOK
  <2> QED
    BY <1>2, <1>4, <2>1, <2>2 DEF TypeOK
<1>6. UnreadBytesKept'
  <2>1. /\ IF (write_index + k) - (read_index + requested) = 0
             THEN write_index' = 0 /\ read_index' = 0
             ELSE write_index' = write_index + k /\ read_index' = read_index + requested
        /\ received' = received + k
    OBVIOUS
  <2>2. /\ next \in Nat /\ received \in Nat /\ read_index \in Nat /\ write_index \in Nat
        /\ requested \in Nat /\ k \in Nat
        /\ next + (write_index - read_index) = received + 1
        /\ read_index + requested <= write_index + k
    BY <1>1 DEF UnreadBytesKept, TypeOK
  <2> HIDE DEF callback, BufferInv, callSuccessCallback
  <2>3. \A c \in read_index + requested .. (write_index + k) - 1 :
          mem'[c] = (next + requested) + (c - (read_index + requested))
    BY <1>3, <2>2, RestOfRun
  <2>4. CASE (write_index + k) - (read_index + requested) = 0
    BY <1>4, <2>1, <2>2, <2>4 DEF UnreadBytesKept
  <2>5. CASE (write_index + k) - (read_index + requested) # 0
    BY <1>4, <2>1, <2>2, <2>3, <2>5 DEF UnreadBytesKept
  <2> QED
    BY <2>4, <2>5
<1>7. TransferFits' /\ OnlyOversizeWedges' /\ TransferOvertakes'
  BY <1>4 DEF TransferFits, OnlyOversizeWedges, TransferOvertakes
<1> QED
  BY <1>4, <1>5, <1>6, <1>7

(* A failed transfer wrote only into free cells, which stay free, and what *)
(* else they may hold was promised to nobody any more.                     *)
LEMMA ErrorKeepsInv ==
  ASSUME BufferInv, ~abandoned, NEW k \in 0 .. Capacity - 1, CallbackError(k) PROVE BufferInv'
<1> USE DEF BufferInv, CallbackError, bytesAvailable, NoOp, Cells
<1>1. op.at = write_index
  BY DEF TransferFits
<1>2. TypeOK'
  BY DEF TypeOK
<1>3. UnreadBytesKept'
  BY <1>1 DEF UnreadBytesKept, TypeOK
<1>4. (TransferFits /\ OnlyOversizeWedges)'
  BY <1>1 DEF TransferFits, OnlyOversizeWedges, TypeOK
<1>5. (PostedBytesIntact /\ TransferOvertakes)'
  BY DEF PostedBytesIntact, TransferOvertakes
<1> QED
  BY <1>2, <1>3, <1>4, <1>5

(* Running a posted callback gives up its view and changes nothing else.   *)
LEMMA RunPostedKeepsInv == ASSUME BufferInv, RunPosted PROVE BufferInv'
<1> USE DEF BufferInv, RunPosted, bufferVars, bytesAvailable
<1>1. /\ posted' \in Seq(Views)
      /\ \A i \in DOMAIN posted' : i + 1 \in DOMAIN posted /\ posted'[i] = posted[i + 1]
  BY DEF TypeOK
<1>2. TypeOK' /\ UnreadBytesKept'
  BY <1>1 DEF TypeOK, UnreadBytesKept, Cells
<1>3. (TransferFits /\ OnlyOversizeWedges)'
  BY DEF TransferFits, OnlyOversizeWedges
<1>4. (PostedBytesIntact /\ TransferOvertakes)'
  BY <1>1 DEF PostedBytesIntact, TransferOvertakes, Intact
<1> QED
  BY <1>2, <1>3, <1>4

(* BufferInv is inductive. *)
LEMMA NextKeepsInv == BufferInv /\ [Next]_vars => BufferInv'
<1> SUFFICES ASSUME BufferInv, [Next]_vars PROVE BufferInv'
  OBVIOUS
<1>1. ASSUME ~abandoned, NEW n \in Requests, read(n) PROVE BufferInv'
  BY <1>1, RefusedKeepsInv, TooLargeKeepsInv, FromHardwareKeepsInv,
     FromBufferKeepsInv DEF read
<1>2. ASSUME ~abandoned, NEW k \in 1 .. Capacity, callback(k) PROVE BufferInv'
  BY <1>2, CallbackKeepsInv
<1>3. ASSUME ~abandoned, NEW k \in 0 .. Capacity - 1, CallbackError(k) PROVE BufferInv'
  BY <1>3, ErrorKeepsInv
<1>4. CASE RunPosted
  BY <1>4, RunPostedKeepsInv
<1>5. CASE UNCHANGED vars
  BY <1>5 DEF vars, bufferVars, BufferInv, TypeOK, UnreadBytesKept, TransferFits, Intact,
     PostedBytesIntact, TransferOvertakes, OnlyOversizeWedges, bytesAvailable, NoOp
<1> QED
  BY <1>1, <1>2, <1>3, <1>4, <1>5 DEF Next, Reads, Abandoned

(* The inductive invariant holds in every reachable state. *)
THEOREM BufferInvariant == Spec => []BufferInv
  BY InitBufferInv, NextKeepsInv, PTL DEF Spec

(* Every transfer read() starts stays within mem_, for every capacity and  *)
(* every size a client may ask for.                                        *)
THEOREM TransfersFit == Spec => []TransferFits
  BY BufferInvariant, PTL DEF BufferInv

(* No byte that arrived is lost, repeated or reordered in the buffer.      *)
THEOREM NoByteLost == Spec => []UnreadBytesKept
  BY BufferInvariant, PTL DEF BufferInv

(* The bytes a posted callback's SimpleCdr points at are the ones it was    *)
(* made for, whatever the client calls before the callback has run, until   *)
(* one of these calls goes to the hardware.                                 *)
THEOREM PostedBytesStay == Spec => []PostedBytesIntact
  BY BufferInvariant, PTL DEF BufferInv

-----------------------------------------------------------------------------
(* The buffer implements ByteStream.                                       *)

\* The cells that a callback was promised hold the same bytes one step later.
LEMMA SeenKept ==
  ASSUME NEW v \in Views, ~v.overtaken => Intact(v) /\ Intact(v)'
  PROVE  Seen(v)' = Seen(v)
<1>1. ASSUME ~v.overtaken, NEW j \in 1 .. v.len
      PROVE  mem'[v.start + j - 1] = mem[v.start + j - 1]
  <2>1. j - 1 \in 0 .. v.len - 1 /\ v.start + (j - 1) = v.start + j - 1
    BY DEF Views
  <2>2. mem[v.start + (j - 1)] = v.first + (j - 1)
    BY <1>1, <2>1 DEF Intact
  <2>3. mem'[v.start + (j - 1)] = v.first + (j - 1)
    BY <1>1, <2>1 DEF Intact
  <2> QED
    BY <2>1, <2>2, <2>3
<1> QED
  BY <1>1 DEF Seen

\* A step that leaves the posted callbacks alone leaves what they see alone.
LEMMA KeepsRuns ==
  ASSUME BufferInv, BufferInv', UNCHANGED posted PROVE UNCHANGED postedRuns
<1>1. ASSUME NEW i \in 1 .. Len(posted) PROVE Seen(posted[i])' = Seen(posted[i])
  <2>1. posted[i] \in Views /\ i \in DOMAIN posted /\ posted'[i] = posted[i]
    BY DEF BufferInv, TypeOK
  <2>2. ~posted[i].overtaken => Intact(posted[i])
    BY <2>1 DEF BufferInv, PostedBytesIntact
  <2>3. ~posted'[i].overtaken => Intact(posted[i])'
    BY <2>1 DEF BufferInv, PostedBytesIntact
  <2>4. PICK v \in Views : v = posted[i]
    BY <2>1
  <2>5. v = posted'[i]
    BY <2>1, <2>4
  <2>6. ~v.overtaken => Intact(v) /\ Intact(v)'
    BY <2>2, <2>3, <2>4, <2>5 DEF Intact
  <2>7. Seen(v)' = Seen(v)
    BY <2>6, SeenKept
  <2> QED
    BY <2>4, <2>5, <2>7 DEF Seen
<1> QED
  BY <1>1 DEF postedRuns

\* A step that posts a callback hands over the next bytes of the stream.
LEMMA PostingDelivers ==
  ASSUME BufferInv, BufferInv', NEW c, NEW n \in Nat \ {0}, post(c, n)
  PROVE  Stream!Deliver
<1> DEFINE v == [start |-> c, len |-> n, first |-> next, overtaken |-> FALSE]
<1>0. PICK l \in Nat : l = Len(posted)
  BY DEF BufferInv, TypeOK
<1>1. /\ posted' = Append(posted, v) /\ next' = next + n
      /\ v.start = c /\ v.len = n /\ v.first = next /\ v.overtaken = FALSE
  BY DEF post
<1> HIDE DEF v
<1>2. /\ next \in Nat /\ posted \in Seq(Views) /\ Len(posted') = l + 1
      /\ posted'[l + 1] = v /\ \A i \in 1 .. l : posted'[i] = posted[i] /\ posted[i] \in Views
      /\ l + 1 \in DOMAIN posted' /\ \A i \in 1 .. l : i \in DOMAIN posted /\ i \in DOMAIN posted'
  <2>1. next \in Nat /\ posted \in Seq(Views) /\ posted' \in Seq(Views)
    BY DEF BufferInv, TypeOK
  <2>2. /\ Len(posted') = l + 1 /\ posted'[l + 1] = v
        /\ \A i \in 1 .. l : posted'[i] = posted[i]
    BY <1>0, <1>1, <2>1
  <2>3. \A i \in 1 .. l : posted[i] \in Views /\ i \in DOMAIN posted
    BY <1>0, <2>1
  <2>4. l + 1 \in DOMAIN posted' /\ \A i \in 1 .. l : i \in DOMAIN posted'
    BY <2>1, <2>2
  <2> QED
    BY <2>1, <2>2, <2>3, <2>4
<1>3. v \in Views
  BY <1>2 DEF BufferInv, TypeOK
<1>4. c \in Nat /\ \A j \in 0 .. n - 1 : mem'[c + j] = next + j
  <2>1. /\ ~posted'[l + 1].overtaken
        /\ \A j \in 0 .. posted'[l + 1].len - 1 :
             mem'[posted'[l + 1].start + j] = posted'[l + 1].first + j
    BY <1>1, <1>2 DEF BufferInv, PostedBytesIntact, Intact
  <2>2. c \in Nat
    BY <1>1, <1>3 DEF Views
  <2> QED
    BY <1>1, <1>2, <2>1, <2>2
<1>5. Seen(posted[l + 1])' = [j \in 1 .. next' - next |-> next + j - 1]
  <2>1. Seen(posted[l + 1])' = [j \in 1 .. n |-> mem'[c + j - 1]]
    BY <1>1, <1>2 DEF Seen
  <2>2. ASSUME NEW j \in 1 .. n PROVE mem'[c + j - 1] = next + j - 1
    <3>1. j - 1 \in 0 .. n - 1 /\ c + (j - 1) = c + j - 1 /\ next + (j - 1) = next + j - 1
      BY <1>2, <1>4
    <3> QED
      BY <1>4, <3>1
  <2>3. next' - next = n
    BY <1>1, <1>2
  <2> QED
    BY <2>1, <2>2, <2>3
<1>6. ASSUME NEW i \in 1 .. l PROVE Seen(posted[i])' = Seen(posted[i]) /\ posted'[i] = posted[i]
  <2>1. PICK u \in Views : u = posted[i] /\ u = posted'[i]
    BY <1>2
  <2>2. ~u.overtaken => Intact(u) /\ Intact(u)'
    BY <1>2, <2>1 DEF BufferInv, PostedBytesIntact, Intact
  <2>3. Seen(u)' = Seen(u)
    BY <2>2, SeenKept
  <2> QED
    BY <2>1, <2>3 DEF Seen
<1>7. postedRuns' = Append(postedRuns, [j \in 1 .. next' - next |-> next + j - 1])
  <2> DEFINE new == [j \in 1 .. next' - next |-> next + j - 1]
             old == [i \in 1 .. l |-> Seen(posted[i])]
  <2> HIDE DEF new
  <2>1. postedRuns' = [i \in 1 .. l + 1 |-> Seen(posted[i])']
    BY <1>2 DEF postedRuns
  <2>2. postedRuns = old
    BY <1>0 DEF postedRuns
  <2>3. Append(old, new) = [i \in 1 .. l + 1 |-> IF i = l + 1 THEN new ELSE Seen(posted[i])]
    BY <1>2
  <2>4. ASSUME NEW i \in 1 .. l + 1
        PROVE  Seen(posted[i])' = IF i = l + 1 THEN new ELSE Seen(posted[i])
    <3>1. i = l + 1 \/ i \in 1 .. l
      BY <1>2
    <3>2. ASSUME i \in 1 .. l PROVE i # l + 1 /\ Seen(posted[i])' = Seen(posted[i])
      BY <1>2, <1>6, <3>2
    <3> QED
      BY <1>5, <3>1, <3>2 DEF new
  <2>5. postedRuns' = [i \in 1 .. l + 1 |-> IF i = l + 1 THEN new ELSE Seen(posted[i])]
    BY <2>1, <2>4
  <2> QED
    BY <2>2, <2>3, <2>5 DEF new
<1>8. next' > next
  BY <1>1, <1>2
<1> QED
  BY <1>7, <1>8 DEF Stream!Deliver

\* Every step of the buffer is a step of the stream or leaves it alone.
LEMMA StepRefines ==
  ASSUME BufferInv, BufferInv', [Next]_vars PROVE [Stream!Next]_(Stream!vars)
<1> USE DEF Stream!Next, Stream!vars
<1>1. ASSUME UNCHANGED <<posted, next>> PROVE UNCHANGED Stream!vars
  BY <1>1, KeepsRuns
<1>2. CASE ReadRefused
  <2>1. CASE UNCHANGED next
    BY <1>1, <1>2, <2>1 DEF ReadRefused
  <2>2. CASE next' # next
    <3>1. next' > next
      BY <1>2, <2>2 DEF ReadRefused, BufferInv, TypeOK, UnreadBytesKept, bytesAvailable
    <3>2. UNCHANGED posted
      BY <1>2 DEF ReadRefused
    <3> QED
      BY <3>1, <3>2, KeepsRuns DEF Stream!Discard
  <2> QED
    BY <2>1, <2>2
<1>3. ASSUME NEW n \in Requests, ReadTooLarge(n) PROVE UNCHANGED Stream!vars
  BY <1>1, <1>3 DEF ReadTooLarge
<1>4. ASSUME NEW n \in Requests, ReadFromHardware(n) PROVE Stream!Overtake
  <2>1. /\ posted' = [i \in DOMAIN posted |-> [posted[i] EXCEPT !.overtaken = TRUE]]
        /\ UNCHANGED next
    BY <1>4 DEF ReadFromHardware
  <2>2. DOMAIN posted = 1 .. Len(posted) /\ Len(posted) \in Nat
        /\ \A i \in 1 .. Len(posted) : posted[i] \in Views
    BY DEF BufferInv, TypeOK
  <2>3. Len(posted') = Len(posted) /\ \A i \in 1 .. Len(posted) : posted'[i].overtaken
    BY <2>1, <2>2 DEF Views
  <2>4. postedRuns' = [i \in 1 .. Len(posted) |-> <<>>]
    BY <2>3 DEF postedRuns, Seen
  <2>5. DOMAIN postedRuns = 1 .. Len(posted)
    BY DEF postedRuns
  <2> QED
    BY <2>1, <2>4, <2>5 DEF Stream!Overtake, Stream!TakenBack
<1>5. ASSUME NEW n \in Requests, ReadFromBuffer(n) PROVE Stream!Deliver
  BY <1>5, PostingDelivers DEF ReadFromBuffer, callSuccessCallback
<1>6. ASSUME ~abandoned, NEW k \in 1 .. Capacity, callback(k) PROVE Stream!Deliver
  <2>1. requested \in Nat \ {0}
    BY <1>6 DEF callback, BufferInv, TypeOK, OnlyOversizeWedges
  <2> QED
    BY <1>6, <2>1, PostingDelivers DEF callback, callSuccessCallback
<1>7. ASSUME NEW k \in 0 .. Capacity - 1, CallbackError(k) PROVE UNCHANGED Stream!vars
  BY <1>1, <1>7 DEF CallbackError
<1>8. CASE RunPosted
  <2>1. /\ Len(posted) \in Nat /\ posted # <<>> /\ posted' = Tail(posted) /\ UNCHANGED next
        /\ mem' = mem /\ posted \in Seq(Views)
    BY <1>8 DEF RunPosted, BufferInv, TypeOK, bufferVars
  <2>2. /\ Len(posted) > 0 /\ Len(posted') = Len(posted) - 1
        /\ \A i \in 1 .. Len(posted) - 1 : posted'[i] = posted[i + 1]
    BY <2>1
  <2>3. postedRuns' = [i \in 1 .. Len(posted) - 1 |-> Seen(posted[i + 1])]
    BY <2>1, <2>2 DEF postedRuns, Seen
  <2>4. Len(postedRuns) = Len(posted) /\ postedRuns # <<>>
        /\ Tail(postedRuns) = [i \in 1 .. Len(posted) - 1 |-> Seen(posted[i + 1])]
    BY <2>1, <2>2 DEF postedRuns
  <2> QED
    BY <2>1, <2>3, <2>4 DEF Stream!Consume
<1>9. CASE UNCHANGED vars
  BY <1>1, <1>9 DEF vars
<1> QED
  BY <1>2, <1>3, <1>4, <1>5, <1>6, <1>7, <1>8, <1>9 DEF Next, Reads, Abandoned, read

(* Whatever its capacity, and whatever is asked of it and when, the buffer  *)
(* hands over the bytes of the stream in order, each once, and unaltered    *)
(* until the client looks at them or asks for bytes that have not arrived.  *)
THEOREM RefinesByteStream == Spec => ImplementsByteStream
<1>1. Init => Stream!Init
  BY DEF Init, Stream!Init, postedRuns
<1>2. BufferInv /\ BufferInv' /\ [Next]_vars => [Stream!Next]_(Stream!vars)
  BY StepRefines
<1> QED
  BY <1>1, <1>2, BufferInvariant, PTL DEF Spec, ImplementsByteStream, Stream!Spec
=============================================================================

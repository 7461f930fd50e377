-------------------------- MODULE TransportsProofs --------------------------
(***************************************************************************)
(* Proof that every board class keeps its two streams intact, for every    *)
(* size of its buffers, every length of write() and every number of bytes: *)
(* StreamsIntact is an invariant of module Transports.                     *)
(***************************************************************************)
EXTENDS Transports, SequenceTheorems, TLAPS

-----------------------------------------------------------------------------
(* Indices of a ring. *)

(* A remainder is determined by its equation. *)
LEMMA RemainderOf ==
  ASSUME NEW n \in Nat \ {0}, NEW x \in Nat, x <= n + n
  PROVE  x % n = (IF x < n THEN x ELSE IF x < n + n THEN x - n ELSE 0)
<1> DEFINE q == x \div n
           r == x % n
<1>1. q \in Int
  OBVIOUS
<1>2. r \in 0 .. n - 1
  OBVIOUS
<1>3. x = n * q + r
  OBVIOUS
<1> HIDE DEF q, r
<1>4. ~(q <= -1)
  <2> SUFFICES ASSUME q <= -1 PROVE FALSE
    OBVIOUS
  <2>1. n * q <= n * (-1)
    BY <1>1
  <2> QED
    BY <1>1, <1>2, <1>3, <2>1
<1>5. ~(q >= 3)
  <2> SUFFICES ASSUME q >= 3 PROVE FALSE
    OBVIOUS
  <2>1. n * q >= n * 3
    BY <1>1
  <2> QED
    BY <1>1, <1>2, <1>3, <2>1
<1>6. q = 0 \/ q = 1 \/ q = 2
  BY <1>1, <1>4, <1>5
<1>7. n * 0 = 0 /\ n * 1 = n /\ n * 2 = n + n
  OBVIOUS
<1>8. r = (IF x < n THEN x ELSE IF x < n + n THEN x - n ELSE 0)
  BY <1>2, <1>3, <1>6, <1>7
<1> QED
  BY <1>8 DEF r

\* The place of the i-th byte behind place `at' of a ring of n bytes.
Place(at, i, n) == IF at + i < n THEN at + i ELSE at + i - n

(* The next n places of a ring are all different and lie in it. *)
LEMMA Places ==
  ASSUME NEW n \in Nat \ {0}, NEW at \in 0 .. n - 1, NEW i \in 0 .. n
  PROVE  (at + i) % n = Place(at, i, n) /\ Place(at, i, n) \in 0 .. n - 1
<1> DEFINE x == at + i
<1>1. x \in Nat /\ x < n + n
  OBVIOUS
<1> HIDE DEF x
<1>2. x % n = IF x < n THEN x ELSE x - n
  <2>1. x <= n + n
    BY <1>1
  <2>2. x % n = IF x < n THEN x ELSE IF x < n + n THEN x - n ELSE 0
    BY <1>1, <2>1, RemainderOf
  <2> QED
    BY <1>1, <2>2
<1>3. Place(at, i, n) = (IF x < n THEN x ELSE x - n) /\ Place(at, i, n) \in 0 .. n - 1
  BY DEF x, Place
<1> QED
  BY <1>2, <1>3 DEF x

\* What a ring of n bytes holds in the k places from `at' on.
InRing(buf, at, k, n) == [i \in 1 .. k |-> buf[(at + i - 1) % n]]

\* A memory that serves as a ring of n bytes.
IsRing(buf, n) ==
  /\ n \in Nat \ {0}
  /\ \A i \in 0 .. n - 1 : i \in DOMAIN buf /\ buf[i] \in Nat

\* k bytes of it, from place `at' on.
Ring(buf, at, k, n) == IsRing(buf, n) /\ at \in 0 .. n - 1 /\ k \in 0 .. n

LEMMA InRingType ==
  ASSUME NEW n, NEW at, NEW k, NEW buf, Ring(buf, at, k, n)
  PROVE  /\ InRing(buf, at, k, n) \in Seq(Nat) /\ Len(InRing(buf, at, k, n)) = k
         /\ \A i \in 1 .. k : InRing(buf, at, k, n)[i] = buf[Place(at, i - 1, n)]
<1>0. n \in Nat \ {0} /\ at \in 0 .. n - 1 /\ k \in 0 .. n /\ IsRing(buf, n)
  BY DEF Ring, IsRing
<1>1. \A i \in 1 .. k : /\ (at + i - 1) % n = Place(at, i - 1, n)
                        /\ Place(at, i - 1, n) \in 0 .. n - 1
  <2> SUFFICES ASSUME NEW i \in 1 .. k
               PROVE  /\ (at + i - 1) % n = Place(at, i - 1, n)
                      /\ Place(at, i - 1, n) \in 0 .. n - 1
    OBVIOUS
  <2>1. i - 1 \in 0 .. n /\ at + i - 1 = at + (i - 1)
    BY <1>0
  <2> QED
    BY <1>0, <2>1, Places
<1>2. \A i \in 1 .. k : buf[(at + i - 1) % n] \in Nat
  BY <1>0, <1>1 DEF IsRing
<1>3. InRing(buf, at, k, n) \in [1 .. k -> Nat]
  BY <1>2 DEF InRing
<1>4. InRing(buf, at, k, n) \in Seq(Nat) /\ Len(InRing(buf, at, k, n)) = k
  BY <1>0, <1>3, IsASeq, LenProperties
<1> QED
  BY <1>1, <1>4 DEF InRing

(* Two sequences with the same elements are the same. *)
LEMMA SameElements ==
  ASSUME NEW s \in Seq(Nat), NEW t \in Seq(Nat), Len(s) = Len(t),
         \A i \in 1 .. Len(s) : s[i] = t[i]
  PROVE  s = t
<1>1. DOMAIN s = 1 .. Len(s) /\ DOMAIN t = 1 .. Len(t)
  BY LenProperties
<1> QED
  BY <1>1, SeqEqual

(* The elements of two sequences one behind the other. *)
LEMMA Joined ==
  ASSUME NEW s \in Seq(Nat), NEW t \in Seq(Nat)
  PROVE  /\ s \o t \in Seq(Nat) /\ Len(s \o t) = Len(s) + Len(t)
         /\ \A i \in 1 .. Len(s) : (s \o t)[i] = s[i]
         /\ \A i \in 1 .. Len(t) : (s \o t)[Len(s) + i] = t[i]
<1>1. /\ s \o t \in Seq(Nat) /\ Len(s \o t) = Len(s) + Len(t)
  BY ConcatProperties
<1>2. Len(s) \in Nat /\ Len(t) \in Nat
  BY LenProperties
<1>3. \A i \in 1 .. Len(s) + Len(t) : (s \o t)[i] = IF i <= Len(s) THEN s[i] ELSE t[i - Len(s)]
  BY ConcatProperties, Zenon
<1>4. \A i \in 1 .. Len(s) : (s \o t)[i] = s[i]
  BY <1>2, <1>3
<1>5. ASSUME NEW i \in 1 .. Len(t) PROVE (s \o t)[Len(s) + i] = t[i]
  <2>1. Len(s) + i \in 1 .. Len(s) + Len(t) /\ ~(Len(s) + i <= Len(s)) /\ Len(s) + i - Len(s) = i
    BY <1>2
  <2> QED
    BY <1>3, <2>1
<1> QED
  BY <1>1, <1>4, <1>5

Put(buf, p, c) == [buf EXCEPT ![p] = c]

(* Storing a byte behind the k bytes of a ring that is not full appends it. *)
LEMMA RingPut ==
  ASSUME NEW n, NEW at, NEW k, NEW buf, Ring(buf, at, k, n), k # n, NEW c \in Nat
  PROVE  /\ IsRing(Put(buf, Place(at, k, n), c), n)
         /\ InRing(Put(buf, Place(at, k, n), c), at, k + 1, n) = InRing(buf, at, k, n) \o <<c>>
<1> DEFINE p == Place(at, k, n)
           put == Put(buf, p, c)
           l == k + 1
           s == InRing(put, at, l, n)
           t == InRing(buf, at, k, n)
<1>0. /\ n \in Nat \ {0} /\ at \in 0 .. n - 1 /\ k \in 0 .. n /\ k \in 0 .. n - 1
      /\ l \in 0 .. n /\ l = k + 1 /\ IsRing(buf, n)
  BY DEF Ring, IsRing
<1>1. p \in 0 .. n - 1 /\ p \in DOMAIN buf
  BY <1>0, Places DEF IsRing
<1> HIDE DEF p, l
<1>2. IsRing(put, n)
  BY <1>0, <1>1 DEF IsRing, Put
<1> HIDE DEF put
<1>3. s \in Seq(Nat) /\ Len(s) = l /\ \A i \in 1 .. l : s[i] = put[Place(at, i - 1, n)]
  <2>1. Ring(put, at, l, n)
    BY <1>0, <1>2 DEF Ring
  <2> QED
    BY <2>1, InRingType
<1>4. t \in Seq(Nat) /\ Len(t) = k /\ \A i \in 1 .. k : t[i] = buf[Place(at, i - 1, n)]
  BY InRingType
<1>5. ASSUME NEW i \in 1 .. k
      PROVE  put[Place(at, i - 1, n)] = buf[Place(at, i - 1, n)]
  <2>1. Place(at, i - 1, n) # p /\ Place(at, i - 1, n) \in 0 .. n - 1
    BY <1>0 DEF Place, p
  <2> QED
    BY <2>1, <1>0, <1>1 DEF IsRing, Put, put
<1>6. put[Place(at, k, n)] = c
  BY <1>1 DEF Put, put, p
<1> DEFINE u == Append(t, c)
<1>7. u \in Seq(Nat) /\ Len(u) = k + 1 /\ u[k + 1] = c /\ \A i \in 1 .. k : u[i] = t[i]
  BY <1>4, AppendProperties
<1> HIDE DEF s, t, u
<1>8. \A i \in 1 .. l : s[i] = u[i]
  <2> SUFFICES ASSUME NEW i \in 1 .. l PROVE s[i] = u[i]
    OBVIOUS
  <2>1. CASE i = k + 1
    <3>1. i - 1 = k
      BY <1>0, <2>1
    <3> QED
      BY <2>1, <3>1, <1>3, <1>6, <1>7
  <2>2. CASE i \in 1 .. k
    BY <2>2, <1>3, <1>4, <1>5, <1>7
  <2> QED
    BY <1>0, <2>1, <2>2
<1>9. s = u
  BY <1>0, <1>3, <1>7, <1>8, SameElements
<1>10. u = t \o <<c>>
  BY <1>4, AppendIsConcat DEF u
<1> QED
  BY <1>2, <1>9, <1>10 DEF s, t, put, p, l

(* What follows the first j bytes of a ring begins j places later. *)
LEMMA RingSplit ==
  ASSUME NEW n, NEW at, NEW j \in Nat, NEW l \in Nat, NEW buf, Ring(buf, at, j + l, n)
  PROVE  /\ (at + j) % n \in 0 .. n - 1
         /\ InRing(buf, at, j, n) \in Seq(Nat) /\ InRing(buf, (at + j) % n, l, n) \in Seq(Nat)
         /\ InRing(buf, at, j + l, n) = InRing(buf, at, j, n) \o InRing(buf, (at + j) % n, l, n)
<1> DEFINE p == (at + j) % n
           k == j + l
           s == InRing(buf, at, k, n)
           t == InRing(buf, at, j, n)
           u == InRing(buf, p, l, n)
<1>0. /\ n \in Nat \ {0} /\ at \in 0 .. n - 1 /\ IsRing(buf, n)
      /\ j \in 0 .. n /\ l \in 0 .. n /\ k \in 0 .. n
  BY DEF Ring, IsRing
<1>1. p = Place(at, j, n) /\ p \in 0 .. n - 1
  BY <1>0, Places
<1> HIDE DEF p
<1>8. Ring(buf, at, k, n) /\ Ring(buf, at, j, n) /\ Ring(buf, p, l, n)
  BY <1>0, <1>1 DEF Ring
<1> HIDE DEF k
<1>2. s \in Seq(Nat) /\ Len(s) = k /\ \A i \in 1 .. k : s[i] = buf[Place(at, i - 1, n)]
  BY <1>8, InRingType
<1>3. t \in Seq(Nat) /\ Len(t) = j /\ \A i \in 1 .. j : t[i] = buf[Place(at, i - 1, n)]
  BY <1>8, InRingType
<1>4. u \in Seq(Nat) /\ Len(u) = l /\ \A i \in 1 .. l : u[i] = buf[Place(p, i - 1, n)]
  BY <1>8, InRingType
<1> HIDE DEF s, t, u
<1>5. /\ t \o u \in Seq(Nat) /\ Len(t \o u) = j + l
      /\ \A i \in 1 .. j : (t \o u)[i] = t[i]
      /\ \A i \in 1 .. l : (t \o u)[j + i] = u[i]
  <2>1. /\ t \o u \in Seq(Nat) /\ Len(t \o u) = Len(t) + Len(u)
        /\ \A i \in 1 .. Len(t) : (t \o u)[i] = t[i]
        /\ \A i \in 1 .. Len(u) : (t \o u)[Len(t) + i] = u[i]
    BY <1>3, <1>4, Joined
  <2> QED
    BY <1>3, <1>4, <2>1
<1>6. ASSUME NEW i \in 1 .. k PROVE s[i] = (t \o u)[i]
  <2>1. CASE i \in 1 .. j
    BY <2>1, <1>2, <1>3, <1>5
  <2>2. CASE i \notin 1 .. j
    <3>1. i - j \in 1 .. l /\ i = j + (i - j)
      BY <2>2 DEF k
    <3>2. (t \o u)[i] = u[i - j]
      BY <3>1, <1>5
    <3>3. Place(p, i - j - 1, n) = Place(at, i - 1, n)
      BY <3>1, <1>0, <1>1 DEF Place
    <3> QED
      BY <3>1, <3>2, <3>3, <1>2, <1>4
  <2> QED
    BY <2>1, <2>2
<1>7. s = t \o u
  BY <1>2, <1>5, <1>6, SameElements DEF k
<1> QED
  BY <1>1, <1>3, <1>4, <1>7 DEF s, t, u, p, k

(* Three sequences one behind the other. *)
LEMMA Regrouped ==
  ASSUME NEW s \in Seq(Nat), NEW t \in Seq(Nat), NEW u \in Seq(Nat)
  PROVE  (s \o t) \o u = s \o (t \o u)
  BY ConcatAssociative

-----------------------------------------------------------------------------
(* A stream: what has left it, `out', and what is held behind that. *)

LEMMA NumberedType ==
  ASSUME NEW n \in Nat
  PROVE  /\ Numbered(n) \in Seq(Nat) /\ Len(Numbered(n)) = n
         /\ \A i \in 1 .. n : Numbered(n)[i] = i
<1>1. Numbered(n) \in [1 .. n -> Nat]
  BY DEF Numbered
<1> QED
  BY <1>1, LenProperties DEF Numbered

\* The k bytes that follow the first w.
Run(w, k) == [i \in 1 .. k |-> w + i]

(* New bytes at the end go on with the numbers. *)
LEMMA Grows ==
  ASSUME NEW out \in Seq(Nat), NEW held \in Seq(Nat), NEW w \in Nat, NEW k \in Nat,
         out \o held = Numbered(w)
  PROVE  /\ Run(w, k) \in Seq(Nat) /\ Len(Run(w, k)) = k /\ held \o Run(w, k) \in Seq(Nat)
         /\ out \o (held \o Run(w, k)) = Numbered(w + k)
<1> DEFINE data == Run(w, k)
<1>1. data \in [1 .. k -> Nat]
  BY DEF Run
<1>2. data \in Seq(Nat) /\ Len(data) = k
  BY <1>1
<1>3. \A i \in 1 .. k : data[i] = w + i
  BY DEF Run
<1> HIDE DEF data
<1>4. /\ Numbered(w) \in Seq(Nat) /\ Len(Numbered(w)) = w
      /\ \A i \in 1 .. w : Numbered(w)[i] = i
  BY NumberedType
<1>5. /\ Numbered(w + k) \in Seq(Nat) /\ Len(Numbered(w + k)) = w + k
      /\ \A i \in 1 .. w + k : Numbered(w + k)[i] = i
  BY NumberedType
<1> DEFINE u == Numbered(w) \o data
<1>6. /\ u \in Seq(Nat) /\ Len(u) = w + k
      /\ \A i \in 1 .. w : u[i] = i
      /\ \A i \in 1 .. k : u[w + i] = w + i
  <2>1. /\ u \in Seq(Nat) /\ Len(u) = Len(Numbered(w)) + Len(data)
        /\ \A i \in 1 .. Len(Numbered(w)) : u[i] = Numbered(w)[i]
        /\ \A i \in 1 .. Len(data) : u[Len(Numbered(w)) + i] = data[i]
    BY <1>2, <1>4, Joined
  <2> QED
    BY <1>2, <1>3, <1>4, <2>1
<1> HIDE DEF u
<1>7. ASSUME NEW i \in 1 .. w + k PROVE u[i] = i
  <2>1. CASE i \in 1 .. w
    BY <2>1, <1>6
  <2>2. CASE i \notin 1 .. w
    <3>1. i - w \in 1 .. k /\ i = w + (i - w)
      BY <2>2
    <3> QED
      BY <3>1, <1>6
  <2> QED
    BY <2>1, <2>2
<1>8. u = Numbered(w + k)
  BY <1>5, <1>6, <1>7, SameElements
<1>9. out \o (held \o data) = (out \o held) \o data
  BY <1>2, Regrouped
<1>10. held \o data \in Seq(Nat)
  BY <1>2, ConcatProperties
<1> QED
  BY <1>2, <1>8, <1>9, <1>10 DEF u, data

(* One more byte at the end. *)
LEMMA Comes ==
  ASSUME NEW out \in Seq(Nat), NEW held \in Seq(Nat), NEW w \in Nat,
         out \o held = Numbered(w)
  PROVE  /\ Append(held, w + 1) \in Seq(Nat)
         /\ out \o Append(held, w + 1) = Numbered(w + 1)
<1>1. Run(w, 1) = <<w + 1>>
  BY DEF Run
<1>2. out \o (held \o Run(w, 1)) = Numbered(w + 1)
  <2>1. \A k \in Nat : out \o (held \o Run(w, k)) = Numbered(w + k)
    BY Grows
  <2> QED
    BY <2>1
<1>3. w + 1 \in Nat
  OBVIOUS
<1>4. Append(held, w + 1) = held \o <<w + 1>> /\ Append(held, w + 1) \in Seq(Nat)
  BY <1>3, AppendIsConcat, AppendProperties, Zenon
<1> QED
  BY <1>1, <1>2, <1>4

(* The first byte that is held leaves. *)
LEMMA Leaves ==
  ASSUME NEW out \in Seq(Nat), NEW held \in Seq(Nat), held # <<>>
  PROVE  /\ Head(held) \in Nat /\ Tail(held) \in Seq(Nat)
         /\ held = <<Head(held)>> \o Tail(held)
         /\ out \o <<Head(held)>> \in Seq(Nat)
         /\ (out \o <<Head(held)>>) \o Tail(held) = out \o held
<1>1. /\ Head(held) \in Nat /\ Tail(held) \in Seq(Nat) /\ Len(Tail(held)) = Len(held) - 1
      /\ \A i \in 1 .. Len(Tail(held)) : Tail(held)[i] = held[i + 1]
  BY HeadTailProperties
<1> DEFINE b == <<Head(held)>>
<1>2. b \in Seq(Nat) /\ Len(b) = 1 /\ b[1] = held[1]
  BY <1>1
<1>3. Len(held) \in Nat \ {0}
  OBVIOUS
<1> HIDE DEF b
<1> DEFINE u == b \o Tail(held)
<1>4. /\ u \in Seq(Nat) /\ Len(u) = Len(held)
      /\ u[1] = held[1]
      /\ \A i \in 1 .. Len(held) - 1 : u[1 + i] = held[1 + i]
  <2>1. /\ u \in Seq(Nat) /\ Len(u) = Len(b) + Len(Tail(held))
        /\ \A i \in 1 .. Len(b) : u[i] = b[i]
        /\ \A i \in 1 .. Len(Tail(held)) : u[Len(b) + i] = Tail(held)[i]
    BY <1>1, <1>2, Joined
  <2> HIDE DEF u
  <2> QED
    BY <1>1, <1>2, <1>3, <2>1
<1>5. ASSUME NEW i \in 1 .. Len(held) PROVE u[i] = held[i]
  <2>1. CASE i = 1
    BY <2>1, <1>4
  <2>2. CASE i # 1
    <3>1. i - 1 \in 1 .. Len(held) - 1 /\ i = 1 + (i - 1)
      BY <2>2, <1>3
    <3> HIDE DEF u
    <3> QED
      BY <3>1, <1>4
  <2> QED
    BY <2>1, <2>2
<1>6. held = u
  <2> HIDE DEF u
  <2> QED
    BY <1>4, <1>5, SameElements
<1>7. (out \o b) \o Tail(held) = out \o u
  BY <1>1, <1>2, Regrouped
<1>8. out \o b \in Seq(Nat)
  BY <1>2, ConcatProperties
<1> QED
  BY <1>1, <1>6, <1>7, <1>8 DEF b

\* n bytes have entered the stream; `out' have left it, `held' have not.
Stream(out, held, n) ==
  out \in Seq(Nat) /\ held \in Seq(Nat) /\ out \o held = Numbered(n)

LEMMA StreamEmpty == Stream(<<>>, <<>>, 0)
<1>1. <<>> \in Seq(Nat) /\ <<>> \o <<>> = <<>>
  OBVIOUS
<1>2. Numbered(0) \in Seq(Nat) /\ Len(Numbered(0)) = 0
  BY NumberedType
<1>3. Numbered(0) = <<>>
  BY <1>2
<1> QED
  BY <1>1, <1>3 DEF Stream

LEMMA StreamGrows ==
  ASSUME NEW out, NEW held, NEW n \in Nat, NEW k \in Nat, Stream(out, held, n)
  PROVE  Stream(out, held \o Run(n, k), n + k) /\ held \o Run(n, k) \in Seq(Nat)
  BY Grows DEF Stream

LEMMA StreamComes ==
  ASSUME NEW out, NEW held, NEW n \in Nat, Stream(out, held, n)
  PROVE  Stream(out, Append(held, n + 1), n + 1) /\ Append(held, n + 1) \in Seq(Nat)
  BY Comes DEF Stream

LEMMA StreamLeaves ==
  ASSUME NEW out, NEW held, NEW n, Stream(out, held, n), held # <<>>
  PROVE  Stream(out \o <<Head(held)>>, Tail(held), n) /\ Tail(held) \in Seq(Nat)
<1>1. out \in Seq(Nat) /\ held \in Seq(Nat) /\ out \o held = Numbered(n)
  BY DEF Stream
<1>2. /\ out \o <<Head(held)>> \in Seq(Nat) /\ Tail(held) \in Seq(Nat)
      /\ (out \o <<Head(held)>>) \o Tail(held) = out \o held
  BY <1>1, Leaves
<1> QED
  BY <1>1, <1>2 DEF Stream

(* A part that is held leaves at once. *)
LEMMA StreamMoves ==
  ASSUME NEW out, NEW first \in Seq(Nat), NEW rest \in Seq(Nat), NEW n,
         Stream(out, first \o rest, n)
  PROVE  Stream(out \o first, rest, n)
<1>1. out \in Seq(Nat) /\ out \o (first \o rest) = Numbered(n)
  BY DEF Stream
<1>2. (out \o first) \o rest = out \o (first \o rest)
  BY <1>1, Regrouped
<1>3. out \o first \in Seq(Nat)
  BY <1>1, ConcatProperties
<1> QED
  BY <1>1, <1>2, <1>3 DEF Stream

(* The bytes of a write() that a buffer takes whole. *)
LEMMA WholeRun ==
  ASSUME NEW w \in Nat, NEW k \in Nat
  PROVE  /\ Run(w, k) \in Seq(Nat) /\ Len(Run(w, k)) = k
         /\ SubSeq(Run(w, k), 1, k) = Run(w, k)
<1>1. Run(w, k) \in [1 .. k -> Nat]
  BY DEF Run
<1>2. Run(w, k) \in Seq(Nat) /\ Len(Run(w, k)) = k
  BY <1>1
<1> QED
  BY <1>2, SubSeqFull

(* A sequence and its two parts. *)
LEMMA Halves ==
  ASSUME NEW s \in Seq(Nat), NEW k \in 0 .. Len(s)
  PROVE  /\ SubSeq(s, 1, k) \in Seq(Nat) /\ SubSeq(s, k + 1, Len(s)) \in Seq(Nat)
         /\ Len(SubSeq(s, 1, k)) = k
         /\ s = SubSeq(s, 1, k) \o SubSeq(s, k + 1, Len(s))
<1> DEFINE n == Len(s)
           a == SubSeq(s, 1, k)
           b == SubSeq(s, k + 1, n)
<1>0. n \in Nat /\ \A i \in 1 .. n : s[i] \in Nat
  BY LenProperties
<1>1. a \in Seq(Nat) /\ Len(a) = k /\ \A i \in 1 .. k : a[i] = s[i]
  <2>1. \A i \in 1 .. k : s[i] \in Nat
    BY <1>0
  <2>2. /\ a \in Seq(Nat) /\ Len(a) = (IF 1 <= k THEN k - 1 + 1 ELSE 0)
        /\ \A i \in 1 .. k - 1 + 1 : a[i] = s[1 + i - 1]
    BY <2>1, SubSeqProperties
  <2> QED
    BY <2>2
<1>2. b \in Seq(Nat) /\ Len(b) = n - k /\ \A i \in 1 .. n - k : b[i] = s[k + i]
  <2>1. \A i \in k + 1 .. n : s[i] \in Nat
    BY <1>0
  <2>2. /\ b \in Seq(Nat) /\ Len(b) = (IF k + 1 <= n THEN n - (k + 1) + 1 ELSE 0)
        /\ \A i \in 1 .. n - (k + 1) + 1 : b[i] = s[(k + 1) + i - 1]
    BY <1>0, <2>1, SubSeqProperties
  <2> QED
    BY <1>0, <2>2
<1> HIDE DEF a, b
<1>3. /\ a \o b \in Seq(Nat) /\ Len(a \o b) = n
      /\ \A i \in 1 .. k : (a \o b)[i] = s[i]
      /\ \A i \in 1 .. n - k : (a \o b)[k + i] = s[k + i]
  <2>1. /\ a \o b \in Seq(Nat) /\ Len(a \o b) = Len(a) + Len(b)
        /\ \A i \in 1 .. Len(a) : (a \o b)[i] = a[i]
        /\ \A i \in 1 .. Len(b) : (a \o b)[Len(a) + i] = b[i]
    BY <1>1, <1>2, Joined
  <2> HIDE DEF n
  <2>2. Len(a \o b) = n
    BY <1>0, <1>1, <1>2, <2>1
  <2>3. \A i \in 1 .. k : (a \o b)[i] = s[i]
    BY <1>1, <2>1
  <2>4. \A i \in 1 .. n - k : (a \o b)[k + i] = s[k + i]
    BY <1>1, <1>2, <2>1
  <2> QED
    BY <2>1, <2>2, <2>3, <2>4
<1>4. ASSUME NEW i \in 1 .. n PROVE s[i] = (a \o b)[i]
  <2>1. CASE i \in 1 .. k
    BY <2>1, <1>3
  <2>2. CASE i \notin 1 .. k
    <3>1. i - k \in 1 .. n - k /\ i = k + (i - k)
      BY <2>2, <1>0
    <3> QED
      BY <3>1, <1>3
  <2> QED
    BY <2>1, <2>2
<1>5. s = a \o b
  BY <1>3, <1>4, SameElements
<1> QED
  BY <1>1, <1>2, <1>5 DEF a, b

\* The rv bytes behind the first t of a request.
Taken(s, t, rv) == [i \in 1 .. rv |-> IF t + i <= Len(s) THEN s[t + i] ELSE 0]

(* What follows the first t elements, and the next rv of them. *)
LEMMA Portions ==
  ASSUME NEW s \in Seq(Nat), NEW t \in Nat, NEW rv \in Nat, t + rv <= Len(s)
  PROVE  /\ Taken(s, t, rv) \in Seq(Nat) /\ SubSeq(s, t + rv + 1, Len(s)) \in Seq(Nat)
         /\ SubSeq(s, t + 1, Len(s)) = Taken(s, t, rv) \o SubSeq(s, t + rv + 1, Len(s))
<1> DEFINE n == Len(s)
           a == Taken(s, t, rv)
           b == SubSeq(s, t + rv + 1, n)
           c == SubSeq(s, t + 1, n)
<1>0. n \in Nat /\ \A i \in 1 .. n : s[i] \in Nat
  BY LenProperties
<1>1. a \in Seq(Nat) /\ Len(a) = rv /\ \A i \in 1 .. rv : a[i] = s[t + i]
  <2>1. \A i \in 1 .. rv : t + i <= Len(s) /\ t + i \in 1 .. n
    BY <1>0
  <2>2. a \in [1 .. rv -> Nat] /\ \A i \in 1 .. rv : a[i] = s[t + i]
    BY <1>0, <2>1 DEF Taken
  <2> HIDE DEF a
  <2> QED
    BY <2>2
<1>2. b \in Seq(Nat) /\ Len(b) = n - t - rv /\ \A i \in 1 .. n - t - rv : b[i] = s[t + rv + i]
  <2>1. \A i \in t + rv + 1 .. n : s[i] \in Nat
    BY <1>0
  <2>2. /\ b \in Seq(Nat) /\ Len(b) = (IF t + rv + 1 <= n THEN n - (t + rv + 1) + 1 ELSE 0)
        /\ \A i \in 1 .. n - (t + rv + 1) + 1 : b[i] = s[(t + rv + 1) + i - 1]
    BY <1>0, <2>1, SubSeqProperties
  <2> QED
    BY <1>0, <2>2
<1>3. c \in Seq(Nat) /\ Len(c) = n - t /\ \A i \in 1 .. n - t : c[i] = s[t + i]
  <2>1. \A i \in t + 1 .. n : s[i] \in Nat
    BY <1>0
  <2>2. /\ c \in Seq(Nat) /\ Len(c) = (IF t + 1 <= n THEN n - (t + 1) + 1 ELSE 0)
        /\ \A i \in 1 .. n - (t + 1) + 1 : c[i] = s[(t + 1) + i - 1]
    BY <1>0, <2>1, SubSeqProperties
  <2> QED
    BY <1>0, <2>2
<1> HIDE DEF a, b, c
<1>4. /\ a \o b \in Seq(Nat) /\ Len(a \o b) = Len(a) + Len(b)
      /\ \A i \in 1 .. Len(a) : (a \o b)[i] = a[i]
      /\ \A i \in 1 .. Len(b) : (a \o b)[Len(a) + i] = b[i]
  BY <1>1, <1>2, Joined
<1>5. ASSUME NEW i \in 1 .. n - t PROVE c[i] = (a \o b)[i]
  <2>1. CASE i \in 1 .. rv
    BY <2>1, <1>1, <1>3, <1>4
  <2>2. CASE i \notin 1 .. rv
    <3>1. i - rv \in 1 .. Len(b) /\ i = Len(a) + (i - rv) /\ i - rv \in 1 .. n - t - rv
      BY <2>2, <1>0, <1>1, <1>2
    <3>2. (a \o b)[i] = b[i - rv]
      BY <3>1, <1>4
    <3>3. t + rv + (i - rv) = t + i
      BY <1>0
    <3> QED
      BY <3>1, <3>2, <3>3, <1>2, <1>3
  <2> QED
    BY <2>1, <2>2
<1>6. Len(a \o b) = n - t
  <2> HIDE DEF n
  <2> QED
    BY <1>0, <1>1, <1>2, <1>4
<1>7. c = a \o b
  <2> HIDE DEF n
  <2> QED
    BY <1>3, <1>4, <1>5, <1>6, SameElements
<1> QED
  BY <1>1, <1>2, <1>7 DEF a, b, c

(* The first byte of b goes over to the end of a. *)
LEMMA Passes ==
  ASSUME NEW a \in Seq(Nat), NEW b \in Seq(Nat), b # <<>>
  PROVE  /\ Append(a, Head(b)) \in Seq(Nat) /\ Tail(b) \in Seq(Nat)
         /\ Append(a, Head(b)) \o Tail(b) = a \o b
<1>1. /\ Head(b) \in Nat /\ Tail(b) \in Seq(Nat)
      /\ (a \o <<Head(b)>>) \o Tail(b) = a \o b
  BY Leaves
<1>2. Append(a, Head(b)) = a \o <<Head(b)>> /\ Append(a, Head(b)) \in Seq(Nat)
  BY <1>1, AppendIsConcat, AppendProperties
<1> QED
  BY <1>1, <1>2

(* The first byte of a stream that is held in two parts leaves. *)
LEMMA StreamLeavesFirst ==
  ASSUME NEW out, NEW a \in Seq(Nat), NEW b \in Seq(Nat), NEW n,
         Stream(out, a \o b, n), a # <<>>
  PROVE  Stream(out \o <<Head(a)>>, Tail(a) \o b, n) /\ Tail(a) \in Seq(Nat)
<1>1. /\ Head(a) \in Nat /\ Tail(a) \in Seq(Nat) /\ a = <<Head(a)>> \o Tail(a)
  BY Leaves
<1>2. <<Head(a)>> \in Seq(Nat)
  BY <1>1
<1>3. a \o b = <<Head(a)>> \o (Tail(a) \o b)
  BY <1>1, <1>2, Regrouped
<1>4. Tail(a) \o b \in Seq(Nat)
  BY <1>1, ConcatProperties
<1> QED
  BY <1>1, <1>2, <1>3, <1>4, StreamMoves

LEMMA Lengths ==
  ASSUME NEW s \in Seq(Nat)
  PROVE  /\ Len(s) \in Nat /\ (s = <<>> <=> Len(s) = 0)
         /\ s # <<>> => Head(s) \in Nat /\ Tail(s) \in Seq(Nat) /\ Len(Tail(s)) = Len(s) - 1
         /\ \A c \in Nat : Append(s, c) \in Seq(Nat) /\ Len(Append(s, c)) = Len(s) + 1
<1>1. Len(s) \in Nat /\ (s = <<>> <=> Len(s) = 0)
  BY EmptySeq, LenProperties
<1>2. s # <<>> => Head(s) \in Nat /\ Tail(s) \in Seq(Nat) /\ Len(Tail(s)) = Len(s) - 1
  BY HeadTailProperties
<1>3. \A c \in Nat : Append(s, c) \in Seq(Nat) /\ Len(Append(s, c)) = Len(s) + 1
  BY AppendProperties
<1> QED
  BY <1>1, <1>2, <1>3

LEMMA NothingBehind ==
  ASSUME NEW s \in Seq(Nat)
  PROVE  s \o <<>> = s /\ <<>> \o s = s
  BY ConcatEmptySeq

-----------------------------------------------------------------------------
(* The invariant, board by board.  A board's state is described as long as  *)
(* nothing has excused its stream.                                          *)

Counts == written \in Nat /\ arrived \in Nat

\* WindowsSocketImpl.
WinTx ==
  "tx" \notin excuse =>
    /\ tx \in [mySocket : {"new", "open", "INVALID_SOCKET", "closed"}, kernel : Seq(Nat)]
    /\ Stream(wire, tx.kernel, written)
WinRx ==
  "rx" \notin excuse =>
    /\ rx \in [kernel : Seq(Nat), peer : {"there", "closed", "reset"}]
    /\ Stream(got, rx.kernel, arrived)
WinInv == Counts /\ WinTx /\ WinRx

LEMMA WinStep ==
  ASSUME WinInv, Win!Next
  PROVE  WinInv'
<1> USE DEF WinInv, WinTx, WinRx, Counts
<1>1. CASE Win!init
  BY <1>1 DEF Win!init, Win!get_server_addr, Win!connect_to_server
<1>2. ASSUME NEW length \in 1 .. MaxWrite, Win!write(length) PROVE WinInv'
  <2>1. Win!Data(length) = Run(written, length) /\ length \in Nat
    BY TransportSizes DEF Win!Data, Run
  <2>2. SubSeq(Run(written, length), 1, length) = Run(written, length)
    BY <2>1, WholeRun
  <2>3. Counts'
    BY <1>2, <2>1 DEF Win!write
  <2>4. ASSUME "tx" \notin excuse' PROVE WinTx'
    <3>1. "tx" \notin excuse
      BY <1>2, <2>4 DEF Win!write
    <3>2. Len(tx.kernel) \in Nat
      BY <3>1
    <3>3. length <= KernelSize - Len(tx.kernel)
      BY <1>2, <2>1, <2>4, <3>2, HardwareSizes DEF Win!write
    <3>4. tx' = [tx EXCEPT !.kernel = @ \o Run(written, length)]
      BY <1>2, <2>1, <2>2, <2>4, <3>3 DEF Win!write
    <3>5. /\ Stream(wire, tx.kernel \o Run(written, length), written + length)
          /\ tx.kernel \o Run(written, length) \in Seq(Nat)
      BY <2>1, <3>1, StreamGrows
    <3>6. wire' = wire /\ written' = written + length
      BY <1>2 DEF Win!write
    <3> QED
      BY <3>1, <3>4, <3>5, <3>6
  <2>5. WinRx'
    BY <1>2 DEF Win!write
  <2> QED
    BY <2>3, <2>4, <2>5
<1>3. CASE Win!KernelSends
  BY <1>3, StreamLeaves DEF Win!KernelSends, Win!Sent
<1>4. CASE Win!Arrives
  <2>1. "rx" \notin excuse =>
          /\ Stream(got, Append(rx.kernel, arrived + 1), arrived + 1)
          /\ Append(rx.kernel, arrived + 1) \in Seq(Nat)
    BY StreamComes
  <2>2. /\ arrived' = arrived + 1 /\ rx' = [rx EXCEPT !.kernel = Append(@, arrived + 1)]
        /\ UNCHANGED <<written, wire, got, tx, excuse>>
    BY <1>4 DEF Win!Arrives
  <2>3. Counts'
    BY <2>2
  <2>4. WinTx'
    BY <2>2
  <2>5. WinRx'
    BY <2>1, <2>2
  <2> QED
    BY <2>3, <2>4, <2>5
<1>5. CASE Win!HangUp
  BY <1>5 DEF Win!HangUp
<1>6. CASE Win!read
  BY <1>6, StreamLeaves DEF Win!read, Win!Returned
<1>7. CASE Win!Reset
  <2>1. /\ tx' = [tx EXCEPT !.kernel = <<>>] /\ rx' = [kernel |-> <<>>, peer |-> "reset"]
        /\ "tx" \notin excuse' => "tx" \notin excuse /\ tx.kernel = <<>>
        /\ "rx" \notin excuse' => "rx" \notin excuse /\ rx.kernel = <<>>
        /\ UNCHANGED <<written, wire, arrived, got>>
    BY <1>7 DEF Win!Reset
  <2>2. WinTx' /\ WinRx' /\ Counts'
    BY <2>1
  <2> QED
    BY <2>2
<1> QED
  BY <1>1, <1>2, <1>3, <1>4, <1>5, <1>6, <1>7 DEF Win!Next

\* TivaCHardware over USB.
UsbType ==
  /\ tx \in [g_sTxBuffer : Seq(Nat), onBus : BOOLEAN, g_bUSBConfigured : BOOLEAN]
  /\ rx \in Seq(Nat)
  /\ tx.g_bUSBConfigured => tx.onBus
  /\ ~tx.onBus => tx.g_sTxBuffer = <<>> /\ rx = <<>>
UsbTx == "tx" \notin excuse => Stream(wire, tx.g_sTxBuffer, written)
UsbRx == "rx" \notin excuse => Stream(got, rx, arrived)
UsbInv == Counts /\ UsbType /\ UsbTx /\ UsbRx

LEMMA UsbStep ==
  ASSUME UsbInv, Usb!Next
  PROVE  UsbInv'
<1> USE DEF UsbInv, UsbType, UsbTx, UsbRx, Counts
<1>1. CASE Usb!init
  BY <1>1 DEF Usb!init
<1>2. ASSUME NEW length \in 1 .. MaxWrite, Usb!write(length) PROVE UsbInv'
  <2> DEFINE room == RingSize - Len(tx.g_sTxBuffer)
             m == IF length < room THEN length ELSE room
             data == Run(written, length)
  <2>1. Usb!Data(length) = data /\ length \in Nat /\ room \in Int
    BY TransportSizes DEF Usb!Data, Run
  <2>2. data \in Seq(Nat) /\ Len(data) = length /\ SubSeq(data, 1, length) = data
    BY <2>1, WholeRun
  <2> HIDE DEF data
  <2>3. SubSeq(data, 1, m) \in Seq(Nat)
    <3>1. m \in Int /\ m <= length
      BY <2>1
    <3>2. \A i \in 1 .. m : data[i] \in Nat
      BY <2>2, <3>1
    <3> HIDE DEF m
    <3> QED
      BY <3>1, <3>2, SubSeqProperties
  <2>4. /\ tx' = [tx EXCEPT !.g_sTxBuffer = @ \o SubSeq(data, 1, m)]
        /\ tx.onBus /\ written' = written + length /\ UNCHANGED <<wire, arrived, got, rx>>
        /\ excuse' = IF length > room THEN excuse \cup {"tx"} ELSE excuse
    BY <1>2, <2>1, <2>2 DEF Usb!write, Usb!USBBufferWrite, Usb!Excused
  <2>5. tx.g_sTxBuffer \o SubSeq(data, 1, m) \in Seq(Nat)
    <3> HIDE DEF m
    <3> QED
      BY <2>3, ConcatProperties
  <2>6. Counts' /\ UsbType'
    <3> DEFINE buffer == tx.g_sTxBuffer \o SubSeq(data, 1, m)
    <3>1. /\ buffer \in Seq(Nat) /\ tx' = [tx EXCEPT !.g_sTxBuffer = buffer]
          /\ tx.onBus /\ written' = written + length /\ UNCHANGED <<arrived, rx>>
      BY <2>4, <2>5
    <3> HIDE DEF buffer, m, room
    <3>2. Counts'
      BY <2>1, <3>1
    <3>3. UsbType'
      BY <3>1
    <3> QED
      BY <3>2, <3>3
  <2>7. ASSUME "tx" \notin excuse' PROVE UsbTx'
    <3>1. "tx" \notin excuse /\ m = length
      BY <2>1, <2>4, <2>7
    <3>2. Stream(wire, tx.g_sTxBuffer \o data, written + length)
      BY <2>1, <3>1, StreamGrows DEF data
    <3> HIDE DEF m, room
    <3> QED
      BY <2>2, <2>4, <3>1, <3>2
  <2>8. UsbRx'
    <3> HIDE DEF m, room
    <3> QED
      BY <2>4
  <2> QED
    BY <2>6, <2>7, <2>8
<1>3. CASE Usb!read
  BY <1>3, StreamLeaves DEF Usb!read, Usb!Returned
<1>4. CASE Usb!TxHandler
  <2> DEFINE buffer == tx.g_sTxBuffer
  <2>1. PICK n \in 1 .. Len(buffer) :
          /\ wire' = IF "tx" \in excuse THEN wire ELSE wire \o SubSeq(buffer, 1, n)
          /\ tx' = [tx EXCEPT !.g_sTxBuffer = SubSeq(@, n + 1, Len(@))]
          /\ tx.onBus /\ UNCHANGED <<written, arrived, got, rx, excuse>>
    BY <1>4 DEF Usb!TxHandler, Usb!Sent
  <2>2. /\ SubSeq(buffer, 1, n) \in Seq(Nat) /\ SubSeq(buffer, n + 1, Len(buffer)) \in Seq(Nat)
        /\ buffer = SubSeq(buffer, 1, n) \o SubSeq(buffer, n + 1, Len(buffer))
    BY Halves
  <2>3. "tx" \notin excuse =>
          Stream(wire \o SubSeq(buffer, 1, n), SubSeq(buffer, n + 1, Len(buffer)), written)
    BY <2>2, StreamMoves
  <2> QED
    BY <2>1, <2>2, <2>3
<1>5. CASE Usb!RxHandler
  <2>1. PICK n \in 1 .. MaxWrite :
          /\ arrived' = arrived + n /\ rx' = rx \o Run(arrived, n)
          /\ tx.onBus /\ UNCHANGED <<written, wire, got, tx, excuse>>
    BY <1>5 DEF Usb!RxHandler, Run
  <2>2. n \in Nat
    BY TransportSizes
  <2>3. "rx" \notin excuse => Stream(got, rx \o Run(arrived, n), arrived + n)
    BY <2>2, StreamGrows
  <2>4. rx \o Run(arrived, n) \in Seq(Nat)
    BY <2>2, WholeRun, ConcatProperties
  <2>5. Counts' /\ UsbType'
    BY <2>1, <2>2, <2>4
  <2>6. UsbTx' /\ UsbRx'
    BY <2>1, <2>3
  <2> QED
    BY <2>5, <2>6
<1>6. ASSUME NEW event \in {"USB_EVENT_CONNECTED", "USB_EVENT_DISCONNECTED"},
             Usb!ControlHandler(event)
      PROVE  UsbInv'
  <2>1. CASE /\ tx' = [tx EXCEPT !.g_bUSBConfigured = TRUE, !.g_sTxBuffer = <<>>]
             /\ rx' = <<>> /\ tx.onBus
             /\ excuse' = excuse \cup (IF tx.g_sTxBuffer # <<>> THEN {"tx"} ELSE {})
                                 \cup (IF rx # <<>> THEN {"rx"} ELSE {})
             /\ UNCHANGED <<written, wire, arrived, got>>
    <3>1. Counts' /\ UsbType'
      <4>1. tx' = [tx EXCEPT !.g_bUSBConfigured = TRUE, !.g_sTxBuffer = <<>>]
        BY <2>1
      <4>2. tx'.onBus = tx.onBus
        BY <4>1
      <4>3. tx' = [g_sTxBuffer |-> <<>>, onBus |-> tx.onBus, g_bUSBConfigured |-> TRUE]
        BY <4>1
      <4>4. tx.onBus \in BOOLEAN /\ <<>> \in Seq(Nat)
        OBVIOUS
      <4>5. tx' \in [g_sTxBuffer : Seq(Nat), onBus : BOOLEAN, g_bUSBConfigured : BOOLEAN]
        BY <4>3, <4>4
      <4> QED
        BY <2>1, <4>2, <4>5
    <3>2. UsbTx'
      BY <2>1
    <3>3. UsbRx'
      BY <2>1
    <3> QED
      BY <3>1, <3>2, <3>3
  <2>2. CASE /\ tx' = [tx EXCEPT !.g_bUSBConfigured = FALSE]
             /\ UNCHANGED <<written, wire, arrived, got, rx, excuse>>
    BY <2>2
  <2> QED
    BY <1>6, <2>1, <2>2 DEF Usb!ControlHandler
<1> QED
  BY <1>1, <1>2, <1>3, <1>4, <1>5, <1>6 DEF Usb!Next

\* ArduinoHardware over TCP.
TcpTx ==
  "tx" \notin excuse =>
    /\ tx \in [tcp : {"none", "open", "closed"}, kernel : Seq(Nat), initialised : BOOLEAN]
    /\ Stream(wire, tx.kernel, written)
TcpRx == "rx" \notin excuse => rx \in Seq(Nat) /\ Stream(got, rx, arrived)
TcpInv == Counts /\ TcpTx /\ TcpRx

LEMMA TcpStep ==
  ASSUME TcpInv, Tcp!Next
  PROVE  TcpInv'
<1> USE DEF TcpInv, TcpTx, TcpRx, Counts
<1>1. CASE Tcp!Reconnect
  BY <1>1 DEF Tcp!Reconnect
<1>2. ASSUME NEW length \in 1 .. MaxWrite, Tcp!write(length) PROVE TcpInv'
  <2>1. Tcp!Data(length) = Run(written, length) /\ length \in Nat /\ length > 0
    BY TransportSizes DEF Tcp!Data, Run
  <2>2. SubSeq(Run(written, length), 1, length) = Run(written, length)
    BY <2>1, WholeRun
  <2>3. Counts'
    BY <1>2, <2>1 DEF Tcp!write
  <2>4. ASSUME "tx" \notin excuse' PROVE TcpTx'
    <3>1. "tx" \notin excuse
      BY <1>2, <2>4 DEF Tcp!write, Tcp!Excused
    <3>2. Len(tx.kernel) \in Nat
      BY <3>1
    <3>3. tx.tcp = "open" /\ length <= KernelSize - Len(tx.kernel)
      BY <1>2, <2>1, <2>4, <3>2, HardwareSizes DEF Tcp!write, Tcp!Excused
    <3>4. tx' = [tx EXCEPT !.kernel = @ \o Run(written, length)]
      <4>1. (IF length < KernelSize - Len(tx.kernel) THEN length ELSE KernelSize - Len(tx.kernel))
              = length
        BY <2>1, <3>2, <3>3, HardwareSizes
      <4> QED
        BY <1>2, <2>1, <2>2, <3>3, <4>1 DEF Tcp!write
    <3>5. /\ Stream(wire, tx.kernel \o Run(written, length), written + length)
          /\ tx.kernel \o Run(written, length) \in Seq(Nat)
      BY <2>1, <3>1, StreamGrows
    <3>6. wire' = wire /\ written' = written + length
      BY <1>2 DEF Tcp!write
    <3> QED
      BY <3>1, <3>4, <3>5, <3>6
  <2>5. TcpRx'
    BY <1>2 DEF Tcp!write, Tcp!Excused
  <2> QED
    BY <2>3, <2>4, <2>5
<1>3. CASE Tcp!read /\ ~Tcp!Reconnect
  <2>1. /\ rx # <<>> /\ rx' = Tail(rx)
        /\ got' = IF "rx" \in excuse THEN got ELSE got \o <<Head(rx)>>
        /\ UNCHANGED <<written, wire, arrived, tx, excuse>>
    BY <1>3 DEF Tcp!read, Tcp!Returned
  <2> QED
    BY <2>1, StreamLeaves
<1>4. CASE Tcp!KernelSends
  BY <1>4, StreamLeaves DEF Tcp!KernelSends, Tcp!Sent
<1>5. CASE Tcp!Arrives
  <2>1. "rx" \notin excuse =>
          /\ Stream(got, Append(rx, arrived + 1), arrived + 1)
          /\ Append(rx, arrived + 1) \in Seq(Nat)
    BY StreamComes
  <2>2. /\ arrived' = arrived + 1 /\ rx' = Append(rx, arrived + 1)
        /\ UNCHANGED <<written, wire, got, tx, excuse>>
    BY <1>5 DEF Tcp!Arrives
  <2>3. Counts' /\ TcpTx'
    BY <2>2
  <2>4. TcpRx'
    BY <2>1, <2>2
  <2> QED
    BY <2>3, <2>4
<1>6. CASE Tcp!HangUp
  BY <1>6 DEF Tcp!HangUp, Tcp!Excused
<1> QED
  BY <1>1, <1>2, <1>3, <1>4, <1>5, <1>6 DEF Tcp!Next, Tcp!init, Tcp!read

\* The classes over a serial driver of the board's library.
PortType ==
  /\ tx \in [class : {"Arduino", "Energia", "ChibiOS", "Cortex"},
              iostream : {"Serial", "Serial1", "indeterminate", "nullptr", "stdio"},
              initialised : BOOLEAN, begun : SUBSET {"Serial", "Serial1", "stdio"},
              data : Seq(Nat), ring : Seq(Nat)]
  /\ rx \in Seq(Nat) /\ Len(rx) <= RingSize
  /\ ~tx.initialised => tx.data = <<>> /\ tx.ring = <<>> /\ rx = <<>>
PortTx ==
  "tx" \notin excuse =>
    /\ tx.initialised => tx.iostream \in tx.begun
    /\ Stream(wire, tx.ring \o tx.data, written)
PortRx == "rx" \notin excuse => Stream(got, rx, arrived)
PortInv == Counts /\ PortType /\ PortTx /\ PortRx

LEMMA PortStep ==
  ASSUME PortInv, Port!Next
  PROVE  PortInv'
<1> USE DEF PortInv, PortType, PortTx, PortRx, Counts
<1>1. ASSUME NEW io \in Port!Ports, Port!setPort(io) PROVE PortInv'
  <2>1. /\ tx' = [tx EXCEPT !.iostream = io, !.ring = <<>>] /\ rx' = <<>>
        /\ excuse' = (IF tx.initialised THEN {"tx", "rx"} ELSE excuse)
        /\ tx.data = <<>> /\ io \in {"Serial", "Serial1"}
        /\ UNCHANGED <<written, wire, arrived, got>>
    BY <1>1 DEF Port!setPort, Port!Ports
  <2>2. Len(<<>>) <= RingSize /\ <<>> \in Seq(Nat)
    BY TransportSizes
  <2>3. Counts' /\ PortType'
    BY <2>1, <2>2
  <2>4. PortTx' /\ PortRx'
    BY <2>1
  <2> QED
    BY <2>3, <2>4
<1>2. CASE Port!init
  <2>1. /\ tx' = [tx EXCEPT !.initialised = TRUE,
                            !.begun = @ \cup ({tx.iostream} \cap {"Serial", "Serial1"})]
        /\ excuse' = IF tx.iostream \in tx'.begun THEN excuse ELSE {"tx", "rx"}
        /\ UNCHANGED <<written, wire, arrived, got, rx>>
    BY <1>2 DEF Port!init, Port!Ports
  <2>2. tx' \in [class : {"Arduino", "Energia", "ChibiOS", "Cortex"},
              iostream : {"Serial", "Serial1", "indeterminate", "nullptr", "stdio"},
              initialised : BOOLEAN, begun : SUBSET {"Serial", "Serial1", "stdio"},
              data : Seq(Nat), ring : Seq(Nat)]
    BY <2>1
  <2>3. tx'.ring = tx.ring /\ tx'.data = tx.data /\ tx'.initialised /\ tx'.iostream = tx.iostream
    BY <2>1
  <2>4. Counts' /\ PortType'
    BY <2>1, <2>2, <2>3
  <2>5. PortTx' /\ PortRx'
    BY <2>1, <2>3
  <2> QED
    BY <2>4, <2>5
<1>3. ASSUME NEW length \in 1 .. MaxWrite, Port!write(length) PROVE PortInv'
  <2>1. Port!Data(length) = Run(written, length) /\ length \in Nat
    BY TransportSizes DEF Port!Data, Run
  <2>2. /\ tx' = [tx EXCEPT !.data = Run(written, length)] /\ tx.data = <<>> /\ tx.initialised
        /\ written' = written + length /\ UNCHANGED <<wire, arrived, got, rx, excuse>>
    BY <1>3, <2>1 DEF Port!write
  <2>3. tx.ring \o tx.data = tx.ring
    BY <2>2, NothingBehind
  <2>4. "tx" \notin excuse => Stream(wire, tx.ring \o Run(written, length), written + length)
    BY <2>1, <2>3, StreamGrows
  <2>5. Run(written, length) \in Seq(Nat)
    BY <2>1, WholeRun
  <2>6. Counts'
    BY <2>1, <2>2
  <2>7. PortType'
    BY <2>2, <2>5
  <2>8. PortTx' /\ PortRx'
    BY <2>2, <2>4
  <2> QED
    BY <2>6, <2>7, <2>8
<1>4. CASE Port!PutByte
  <2>1. /\ Append(tx.ring, Head(tx.data)) \in Seq(Nat) /\ Tail(tx.data) \in Seq(Nat)
        /\ Append(tx.ring, Head(tx.data)) \o Tail(tx.data) = tx.ring \o tx.data
    BY <1>4, Passes DEF Port!PutByte
  <2>2. /\ tx' = [tx EXCEPT !.data = Tail(tx.data),
                            !.ring = IF tx.iostream \in tx.begun
                                       THEN Append(tx.ring, Head(tx.data)) ELSE tx.ring]
        /\ tx.data # <<>> /\ UNCHANGED <<written, wire, arrived, got, rx, excuse>>
    BY <1>4 DEF Port!PutByte
  <2>3. Counts' /\ PortType'
    BY <2>1, <2>2
  <2>4. PortTx' /\ PortRx'
    BY <2>1, <2>2
  <2> QED
    BY <2>3, <2>4
<1>5. CASE Port!PortSends
  <2>1. /\ tx.ring # <<>> /\ tx' = [tx EXCEPT !.ring = Tail(@)]
        /\ wire' = IF "tx" \in excuse THEN wire ELSE wire \o <<Head(tx.ring)>>
        /\ UNCHANGED <<written, arrived, got, rx, excuse>>
    BY <1>5 DEF Port!PortSends, Port!Sent
  <2>2. Tail(tx.ring) \in Seq(Nat)
    BY <2>1
  <2>3. "tx" \notin excuse =>
          Stream(wire \o <<Head(tx.ring)>>, Tail(tx.ring) \o tx.data, written)
    BY <2>1, StreamLeavesFirst
  <2>4. Counts' /\ PortType'
    BY <2>1, <2>2
  <2>5. PortTx' /\ PortRx'
    BY <2>1, <2>3
  <2> QED
    BY <2>4, <2>5
<1>6. CASE Port!PortReceives
  <2>1. /\ arrived' = arrived + 1 /\ tx.initialised
        /\ rx' = IF Len(rx) < RingSize THEN Append(rx, arrived + 1) ELSE rx
        /\ excuse' = IF Len(rx) = RingSize THEN excuse \cup {"rx"} ELSE excuse
        /\ UNCHANGED <<written, wire, got, tx>>
    BY <1>6 DEF Port!PortReceives, Port!Excused
  <2>2. "rx" \notin excuse => Stream(got, Append(rx, arrived + 1), arrived + 1)
    BY StreamComes
  <2>3. Append(rx, arrived + 1) \in Seq(Nat) /\ Len(Append(rx, arrived + 1)) = Len(rx) + 1
    BY AppendProperties
  <2>4. Len(rx) \in Nat
    OBVIOUS
  <2>5. Counts' /\ PortType'
    BY <2>1, <2>3, <2>4, TransportSizes
  <2>6. PortTx'
    BY <2>1
  <2>7. PortRx'
    BY <2>1, <2>2, <2>4, TransportSizes
  <2> QED
    BY <2>5, <2>6, <2>7
<1>7. CASE Port!read
  <2>1. /\ rx # <<>> /\ rx' = Tail(rx)
        /\ got' = IF "rx" \in excuse THEN got ELSE got \o <<Head(rx)>>
        /\ UNCHANGED <<written, wire, arrived, tx, excuse>>
    BY <1>7 DEF Port!read, Port!Returned
  <2>2. Tail(rx) \in Seq(Nat) /\ Len(Tail(rx)) <= RingSize
    BY <2>1, TransportSizes
  <2>3. Counts' /\ PortType' /\ PortTx'
    BY <2>1, <2>2
  <2>4. PortRx'
    BY <2>1, StreamLeaves
  <2> QED
    BY <2>3, <2>4
<1> QED
  BY <1>1, <1>2, <1>3, <1>4, <1>5, <1>6, <1>7 DEF Port!Next

\* EmbeddedLinuxHardware.
PosixTx ==
  "tx" \notin excuse =>
    /\ tx \in [fd : {"new", "open", "exit"}, portName : Posix!PortNames, lost : BOOLEAN, kernel : Seq(Nat),
                sending : Seq(Nat), totalsent : Nat]
    /\ tx.totalsent <= Len(tx.sending)
    /\ Stream(wire, tx.kernel \o SubSeq(tx.sending, tx.totalsent + 1, Len(tx.sending)), written)
PosixRx ==
  "rx" \notin excuse =>
    /\ rx \in [kernel : Seq(Nat), eof : BOOLEAN]
    /\ Stream(got, rx.kernel, arrived)
PosixInv == Counts /\ PosixTx /\ PosixRx

LEMMA PosixStep ==
  ASSUME PosixInv, Posix!Next
  PROVE  PosixInv'
<1> USE DEF PosixInv, PosixTx, PosixRx, Counts
<1>1. ASSUME NEW pName, Posix!init(pName) PROVE PosixInv'
  BY <1>1 DEF Posix!init
<1>2. ASSUME NEW length \in 1 .. MaxWrite, Posix!write(length) PROVE PosixInv'
  <2> DEFINE data == Run(written, length)
  <2>1. Posix!Data(length) = data /\ length \in Nat
    BY TransportSizes DEF Posix!Data, Run
  <2>2. data \in Seq(Nat) /\ Len(data) = length /\ SubSeq(data, 1, length) = data
    BY <2>1, WholeRun
  <2> HIDE DEF data
  <2>3. /\ tx' = [tx EXCEPT !.sending = data, !.totalsent = 0] /\ tx.sending = <<>>
        /\ written' = written + length /\ UNCHANGED <<wire, arrived, got, rx, excuse>>
    BY <1>2, <2>1 DEF Posix!write
  <2>4. Counts'
    BY <2>1, <2>3
  <2>5. ASSUME "tx" \notin excuse PROVE PosixTx'
    <3>1. SubSeq(tx.sending, tx.totalsent + 1, Len(tx.sending)) = <<>>
      <4>1. Len(tx.sending) = 0 /\ tx.totalsent \in Nat
        BY <2>3, <2>5
      <4> QED
        BY <4>1, SubSeqEmpty
    <3>2. tx.kernel \o <<>> = tx.kernel
      BY <2>5, NothingBehind
    <3>3. Stream(wire, tx.kernel \o data, written + length)
      BY <2>1, <2>5, <3>1, <3>2, StreamGrows DEF data
    <3>4. /\ tx'.sending = data /\ tx'.totalsent = 0 /\ tx'.kernel = tx.kernel
          /\ tx' \in [fd : {"new", "open", "exit"}, portName : Posix!PortNames, lost : BOOLEAN, kernel : Seq(Nat),
                       sending : Seq(Nat), totalsent : Nat]
      BY <2>2, <2>3, <2>5
    <3>5. SubSeq(tx'.sending, tx'.totalsent + 1, Len(tx'.sending)) = data
      BY <2>2, <3>4
    <3> QED
      <4>1. tx'.totalsent <= Len(tx'.sending)
        BY <2>1, <2>2, <3>4
      <4>2. Stream(wire', tx'.kernel \o SubSeq(tx'.sending, tx'.totalsent + 1, Len(tx'.sending)),
                   written')
        BY <2>3, <3>3, <3>4, <3>5
      <4> QED
        BY <3>4, <4>1, <4>2
  <2>6. PosixRx'
    BY <2>3
  <2> QED
    BY <2>3, <2>4, <2>5, <2>6
<1>3. CASE Posix!elCommWrite
  <2> DEFINE s == tx.sending
             t == tx.totalsent
  <2>1. PICK rv \in 1 .. Len(s) :
          /\ tx' = [tx EXCEPT !.kernel = @ \o Taken(s, t, rv),
                              !.sending = IF t + rv < Len(@) THEN @ ELSE <<>>,
                              !.totalsent = IF t + rv < Len(s) THEN t + rv ELSE 0]
          /\ excuse' = IF t + rv > Len(s) THEN excuse \cup {"tx"} ELSE excuse
    BY <1>3 DEF Posix!elCommWrite, Posix!Excused, Taken
  <2>2. s # <<>> /\ UNCHANGED <<written, wire, arrived, got, rx>>
    BY <1>3 DEF Posix!elCommWrite
  <2>3. ASSUME "tx" \notin excuse' PROVE PosixTx'
    <3> DEFINE taken == Taken(s, t, rv)
               rest == SubSeq(s, t + 1, Len(s))
               left == SubSeq(s, t + rv + 1, Len(s))
    <3>1. "tx" \notin excuse /\ ~(t + rv > Len(s))
      BY <2>1, <2>3
    <3>2. s \in Seq(Nat) /\ t \in Nat /\ Len(s) \in Nat /\ rv \in Nat /\ t + rv <= Len(s) /\ rv > 0
      BY <3>1
    <3>3. taken \in Seq(Nat) /\ left \in Seq(Nat) /\ rest = taken \o left
      <4> HIDE DEF s, t
      <4> QED
        BY <3>2, Portions
    <3>4. Stream(wire, tx.kernel \o rest, written) /\ tx.kernel \in Seq(Nat)
      BY <3>1
    <3>5. (tx.kernel \o taken) \o left = tx.kernel \o rest
      <4> HIDE DEF taken, left, rest
      <4> QED
        BY <3>3, <3>4, Regrouped
    <3>6. tx.kernel \o taken \in Seq(Nat)
      <4> HIDE DEF taken
      <4> QED
        BY <3>3, <3>4, ConcatProperties
    <3>7. tx' = [tx EXCEPT !.kernel = tx.kernel \o taken,
                           !.sending = IF t + rv < Len(s) THEN s ELSE <<>>,
                           !.totalsent = IF t + rv < Len(s) THEN t + rv ELSE 0]
      BY <2>1
    <3> HIDE DEF taken, rest
    <3> DEFINE sending == IF t + rv < Len(s) THEN s ELSE <<>>
               totalsent == IF t + rv < Len(s) THEN t + rv ELSE 0
    <3>0. sending \in Seq(Nat) /\ totalsent \in Nat
      BY <3>2
    <3>8. /\ tx'.kernel = tx.kernel \o taken
          /\ tx'.sending = IF t + rv < Len(s) THEN s ELSE <<>>
          /\ tx'.totalsent = IF t + rv < Len(s) THEN t + rv ELSE 0
          /\ tx' \in [fd : {"new", "open", "exit"}, portName : Posix!PortNames, lost : BOOLEAN, kernel : Seq(Nat),
                       sending : Seq(Nat), totalsent : Nat]
      <4> HIDE DEF sending, totalsent
      <4>1. tx' = [tx EXCEPT !.kernel = tx.kernel \o taken, !.sending = sending,
                             !.totalsent = totalsent]
        BY <3>7 DEF sending, totalsent
      <4>2. tx'.kernel = tx.kernel \o taken /\ tx'.sending = sending /\ tx'.totalsent = totalsent
        BY <3>1, <4>1
      <4>3. tx' \in [fd : {"new", "open", "exit"}, portName : Posix!PortNames, lost : BOOLEAN, kernel : Seq(Nat),
                       sending : Seq(Nat), totalsent : Nat]
        BY <3>0, <3>1, <3>6, <4>1
      <4> QED
        BY <4>2, <4>3 DEF sending, totalsent
    <3>9. SubSeq(tx'.sending, tx'.totalsent + 1, Len(tx'.sending)) = left
      <4>1. CASE t + rv < Len(s)
        BY <3>8, <4>1
      <4>2. CASE ~(t + rv < Len(s))
        <5>1. left = <<>>
          BY <3>2, <4>2, SubSeqEmpty
        <5>2. tx'.totalsent + 1 = 1 /\ Len(tx'.sending) = 0
          BY <3>8, <4>2
        <5>3. SubSeq(tx'.sending, 1, 0) = <<>>
          BY SubSeqEmpty
        <5> QED
          BY <5>1, <5>2, <5>3
      <4> QED
        BY <4>1, <4>2
    <3> HIDE DEF left, s, t
    <3>10. tx'.totalsent <= Len(tx'.sending)
      BY <3>2, <3>8
    <3> QED
      BY <2>2, <3>4, <3>5, <3>8, <3>9, <3>10
  <2>4. PosixRx' /\ Counts'
    BY <2>1, <2>2
  <2> QED
    BY <2>3, <2>4
<1>4. CASE Posix!KernelSends
  <2> DEFINE rest == SubSeq(tx.sending, tx.totalsent + 1, Len(tx.sending))
  <2>1. /\ tx.kernel # <<>> /\ tx' = [tx EXCEPT !.kernel = Tail(@)]
        /\ wire' = IF "tx" \in excuse THEN wire ELSE wire \o <<Head(tx.kernel)>>
        /\ UNCHANGED <<written, arrived, got, rx, excuse>>
    BY <1>4 DEF Posix!KernelSends, Posix!Sent
  <2>2. ASSUME "tx" \notin excuse PROVE PosixTx'
    <3>1. rest \in Seq(Nat)
      <4>1. tx.totalsent \in 0 .. Len(tx.sending) /\ tx.sending \in Seq(Nat)
        BY <2>2
      <4> QED
        BY <4>1, Halves
    <3>2. Stream(wire, tx.kernel \o rest, written) /\ tx.kernel \in Seq(Nat)
      BY <2>2
    <3> HIDE DEF rest
    <3>3. /\ Stream(wire \o <<Head(tx.kernel)>>, Tail(tx.kernel) \o rest, written)
          /\ Tail(tx.kernel) \in Seq(Nat)
      BY <2>1, <3>1, <3>2, StreamLeavesFirst
    <3> QED
      BY <2>1, <2>2, <3>3 DEF rest
  <2>3. PosixRx' /\ Counts'
    BY <2>1
  <2> QED
    BY <2>1, <2>2, <2>3
<1>5. CASE Posix!Arrives
  <2>1. "rx" \notin excuse =>
          /\ Stream(got, Append(rx.kernel, arrived + 1), arrived + 1)
          /\ Append(rx.kernel, arrived + 1) \in Seq(Nat)
    BY StreamComes
  <2>2. /\ arrived' = arrived + 1 /\ rx' = [rx EXCEPT !.kernel = Append(@, arrived + 1)]
        /\ UNCHANGED <<written, wire, got, tx, excuse>>
    BY <1>5 DEF Posix!Arrives
  <2>3. Counts' /\ PosixTx'
    BY <2>2
  <2>4. PosixRx'
    BY <2>1, <2>2
  <2> QED
    BY <2>3, <2>4
<1>6. CASE Posix!HangUp
  BY <1>6 DEF Posix!HangUp
<1>7. CASE Posix!elCommRead
  <2>1. /\ got' = IF "rx" \in excuse THEN got
                  ELSE got \o (IF rx.kernel # <<>> THEN <<Head(rx.kernel)>> ELSE <<0>>)
        /\ rx' = [rx EXCEPT !.kernel = IF @ # <<>> THEN Tail(@) ELSE @]
        /\ excuse' = IF rx.kernel = <<>> THEN excuse \cup {"rx"} ELSE excuse
        /\ UNCHANGED <<written, wire, arrived, tx>>
    BY <1>7 DEF Posix!elCommRead, Posix!Returned, Posix!Excused
  <2>2. Counts' /\ PosixTx'
    BY <2>1
  <2>3. ASSUME "rx" \notin excuse' PROVE PosixRx'
    <3>1. "rx" \notin excuse /\ rx.kernel # <<>>
      BY <2>1, <2>3
    <3>2. rx' = [rx EXCEPT !.kernel = Tail(@)] /\ got' = got \o <<Head(rx.kernel)>>
      BY <2>1, <3>1
    <3>3. /\ Stream(got \o <<Head(rx.kernel)>>, Tail(rx.kernel), arrived)
          /\ Tail(rx.kernel) \in Seq(Nat)
      BY <3>1, StreamLeaves
    <3> QED
      BY <2>1, <3>1, <3>2, <3>3
  <2> QED
    BY <2>2, <2>3
<1>8. CASE Posix!elCommWriteFails
  BY <1>8 DEF Posix!elCommWriteFails
<1>9. CASE Posix!LineLost
  <2>1. /\ tx' = [tx EXCEPT !.lost = TRUE, !.kernel = <<>>] /\ rx' = [rx EXCEPT !.kernel = <<>>]
        /\ "tx" \notin excuse' => "tx" \notin excuse /\ tx.kernel = <<>>
        /\ "rx" \notin excuse' => "rx" \notin excuse /\ rx.kernel = <<>>
        /\ UNCHANGED <<written, wire, arrived, got>>
    BY <1>9 DEF Posix!LineLost
  <2>2. PosixTx' /\ PosixRx' /\ Counts'
    BY <2>1
  <2> QED
    BY <2>2
<1> QED
  BY <1>1, <1>2, <1>3, <1>4, <1>5, <1>6, <1>7, <1>8, <1>9 DEF Posix!Next

\* TivaCHardware.  A UART register is free whenever a byte is handed to it:
\* both are taken only while the ring holds more, and then no write() starts
\* the UART itself.  One that does has at least two bytes left to do so.
TivaFine(ring, uart, eot, pc, data, kick, irqs) ==
  /\ ring \in Seq(Nat) /\ uart \in Seq(Nat) /\ data \in Seq(Nat)
  /\ eot \in BOOLEAN /\ kick \in BOOLEAN /\ pc \in {"idle", "store"} /\ irqs \in 0 .. 2
  /\ Len(ring) <= RingSize - 1
  /\ eot => uart = <<>>
  /\ pc = "idle" => data = <<>> /\ ~kick
  /\ pc = "store" => irqs <= 1
  /\ Len(uart) <= 2
  /\ Len(uart) = 2 => ring # <<>> /\ ~kick
  /\ kick => Len(ring) + Len(data) + irqs >= 3
TivaState(ring, uart, eot, pc, data, kick, irqs) ==
  [ring |-> ring, uart |-> uart, eot |-> eot, pc |-> pc, data |-> data, kick |-> kick, irqs |-> irqs]
TivaTx ==
  "tx" \notin excuse =>
    \E ring, uart, eot, pc, data, kick, irqs :
      /\ tx = TivaState(ring, uart, eot, pc, data, kick, irqs)
      /\ TivaFine(ring, uart, eot, pc, data, kick, irqs)
      /\ Stream(wire, (uart \o ring) \o data, written)
TivaRx ==
  "rx" \notin excuse => /\ rx \in Seq(Nat) /\ Len(rx) <= RingSize - 1
                        /\ Stream(got, rx, arrived)
TivaInv == Counts /\ TivaTx /\ TivaRx

(* write() begins. *)
LEMMA TivaBegins ==
  ASSUME NEW ring, NEW uart, NEW eot, NEW data, NEW kick, NEW irqs, NEW new \in Seq(Nat),
         TivaFine(ring, uart, eot, "idle", data, kick, irqs), Len(new) >= 3
  PROVE  /\ TivaFine(ring, uart, eot, "store", new, (ring = <<>>), 0)
         /\ (uart \o ring) \o data = uart \o ring
<1>1. Len(ring) \in Nat /\ Len(uart) \in Nat /\ Len(new) \in Nat /\ uart \o ring \in Seq(Nat)
  BY ConcatProperties DEF TivaFine
<1>2. TivaFine(ring, uart, eot, "store", new, (ring = <<>>), 0)
  BY <1>1 DEF TivaFine
<1>3. (uart \o ring) \o <<>> = uart \o ring
  BY <1>1, NothingBehind
<1> QED
  BY <1>2, <1>3 DEF TivaFine

(* write() stores a byte in a ring that is not full. *)
LEMMA TivaStores ==
  ASSUME NEW ring, NEW uart, NEW eot, NEW data, NEW kick, NEW irqs,
         TivaFine(ring, uart, eot, "store", data, kick, irqs),
         data # <<>>, Len(ring) # RingSize - 1
  PROVE  LET longer == Append(ring, Head(data)) IN
         /\ TivaFine(longer, uart, eot, "store", Tail(data), kick, irqs)
         /\ (uart \o longer) \o Tail(data) = (uart \o ring) \o data
<1> DEFINE longer == Append(ring, Head(data))
<1>1. ring \in Seq(Nat) /\ uart \in Seq(Nat) /\ data \in Seq(Nat)
  BY DEF TivaFine
<1>2. /\ longer \in Seq(Nat) /\ Tail(data) \in Seq(Nat)
      /\ longer \o Tail(data) = ring \o data
  BY <1>1, Passes
<1>3. Head(data) \in Nat
  BY <1>1, Lengths
<1>7. /\ Len(longer) = Len(ring) + 1 /\ Len(Tail(data)) = Len(data) - 1
      /\ Len(ring) \in Nat /\ Len(data) \in Nat
  BY <1>1, <1>3, Lengths
<1> HIDE DEF longer
<1>8. longer # <<>>
  <2>1. Len(longer) # 0
    BY <1>7
  <2> QED
    BY <1>2, <2>1, Lengths
<1>4. (uart \o longer) \o Tail(data) = uart \o (longer \o Tail(data))
  BY <1>1, <1>2, Regrouped
<1>5. (uart \o ring) \o data = uart \o (ring \o data)
  BY <1>1, Regrouped
<1>6. TivaFine(longer, uart, eot, "store", Tail(data), kick, irqs)
  <2>1. Len(longer) <= RingSize - 1 /\ (kick => Len(longer) + Len(Tail(data)) + irqs >= 3)
    BY <1>7, TransportSizes DEF TivaFine
  <2> QED
    BY <1>2, <1>8, <2>1 DEF TivaFine
<1> QED
  BY <1>2, <1>4, <1>5, <1>6 DEF longer

(* The first byte of the ring goes to a register of the UART that is free. *)
LEMMA TivaHandsOver ==
  ASSUME NEW ring, NEW uart, NEW eot, NEW pc, NEW data, NEW kick, NEW irqs,
         TivaFine(ring, uart, eot, pc, data, kick, irqs), ring # <<>>
  PROVE  LET fuller == Append(uart, Head(ring)) IN
         /\ fuller \in Seq(Nat) /\ Len(fuller) = Len(uart) + 1
         /\ Tail(ring) \in Seq(Nat) /\ Len(Tail(ring)) = Len(ring) - 1
         /\ Len(ring) \in Nat /\ Len(uart) \in Nat
         /\ fuller \o Tail(ring) = uart \o ring
<1>1. ring \in Seq(Nat) /\ uart \in Seq(Nat)
  BY DEF TivaFine
<1>2. /\ Append(uart, Head(ring)) \in Seq(Nat) /\ Tail(ring) \in Seq(Nat)
      /\ Append(uart, Head(ring)) \o Tail(ring) = uart \o ring
  BY <1>1, Passes
<1>3. Head(ring) \in Nat
  BY <1>1, Lengths
<1>4. /\ Len(Append(uart, Head(ring))) = Len(uart) + 1 /\ Len(Tail(ring)) = Len(ring) - 1
      /\ Len(ring) \in Nat /\ Len(uart) \in Nat
  BY <1>1, <1>3, Lengths
<1> QED
  BY <1>2, <1>4

(* write() ends; it did not find the ring empty. *)
LEMMA TivaEnds ==
  ASSUME NEW ring, NEW uart, NEW eot, NEW kick, NEW irqs,
         TivaFine(ring, uart, eot, "store", <<>>, kick, irqs), eot = FALSE, kick = FALSE
  PROVE  TivaFine(ring, uart, eot, "idle", <<>>, FALSE, 0)
  BY DEF TivaFine

(* write() ends and starts the UART. *)
LEMMA TivaStarts ==
  ASSUME NEW ring, NEW uart, NEW eot, NEW kick, NEW irqs,
         TivaFine(ring, uart, eot, "store", <<>>, kick, irqs), eot = FALSE, kick = TRUE
  PROVE  /\ ring # <<>> /\ Len(uart) < 2
         /\ TivaFine(Tail(ring), Append(uart, Head(ring)), eot, "idle", <<>>, FALSE, 0)
         /\ Append(uart, Head(ring)) \o Tail(ring) = uart \o ring
<1>1. ring \in Seq(Nat) /\ Len(ring) \in Nat /\ Len(uart) \in Nat
  BY DEF TivaFine
<1>2. Len(ring) >= 2 /\ Len(uart) < 2
  <2>1. Len(<<>>) = 0
    OBVIOUS
  <2>2. Len(ring) + 0 + irqs >= 3 /\ irqs \in 0 .. 2 /\ irqs <= 1 /\ Len(uart) <= 2 /\ Len(uart) # 2
    BY <2>1 DEF TivaFine
  <2> DEFINE k == Len(ring)
             m == Len(uart)
  <2>3. k \in Nat /\ m \in Nat /\ k + 0 + irqs >= 3 /\ irqs \in 0 .. 2 /\ irqs <= 1 /\ m <= 2 /\ m # 2
    BY <1>1, <2>2
  <2> HIDE DEF k, m
  <2>4. k >= 2 /\ m < 2
    BY <2>3
  <2> QED
    BY <2>4 DEF k, m
<1>3. ring # <<>>
  <2>1. Len(ring) # 0
    BY <1>1, <1>2
  <2> QED
    BY <1>1, <2>1, Lengths
<1> DEFINE fuller == Append(uart, Head(ring))
<1>4. /\ fuller \in Seq(Nat) /\ Len(fuller) = Len(uart) + 1
      /\ Tail(ring) \in Seq(Nat) /\ Len(Tail(ring)) = Len(ring) - 1
      /\ fuller \o Tail(ring) = uart \o ring
  BY <1>3, TivaHandsOver
<1> HIDE DEF fuller
<1>5. Tail(ring) # <<>>
  <2>1. Len(Tail(ring)) # 0
    BY <1>1, <1>2, <1>4
  <2> QED
    BY <1>4, <2>1, Lengths
<1>6. Len(fuller) <= 2 /\ Len(Tail(ring)) <= RingSize - 1
  BY <1>1, <1>2, <1>4, TransportSizes DEF TivaFine
<1>7. TivaFine(Tail(ring), fuller, eot, "idle", <<>>, FALSE, 0)
  BY <1>4, <1>5, <1>6 DEF TivaFine
<1> QED
  BY <1>2, <1>3, <1>4, <1>7 DEF fuller

(* The UART has sent a byte; with the last one it raises its interrupt. *)
LEMMA TivaSends ==
  ASSUME NEW ring, NEW uart, NEW eot, NEW pc, NEW data, NEW kick, NEW irqs, NEW out, NEW n,
         TivaFine(ring, uart, eot, pc, data, kick, irqs), uart # <<>>,
         Stream(out, (uart \o ring) \o data, n)
  PROVE  /\ ~eot /\ TivaFine(ring, Tail(uart), (Len(uart) = 1), pc, data, kick, irqs)
         /\ Stream(out \o <<Head(uart)>>, (Tail(uart) \o ring) \o data, n)
<1>1. ring \in Seq(Nat) /\ uart \in Seq(Nat) /\ data \in Seq(Nat) /\ ~eot
  BY DEF TivaFine
<1>2. /\ Tail(uart) \in Seq(Nat) /\ Len(Tail(uart)) = Len(uart) - 1 /\ Len(uart) \in Nat /\ Len(uart) <= 2
  BY <1>1, Lengths DEF TivaFine
<1>3. (Len(uart) = 1 => Tail(uart) = <<>>) /\ Len(Tail(uart)) <= 2 /\ Len(Tail(uart)) # 2
  <2> DEFINE k == Len(uart)
             m == Len(Tail(uart))
  <2>3. k \in Nat /\ k <= 2 /\ m = k - 1
    BY <1>2
  <2> HIDE DEF k, m
  <2>4. (k = 1 => m = 0) /\ m <= 2 /\ m # 2
    BY <2>3
  <2>1. (Len(uart) = 1 => Len(Tail(uart)) = 0) /\ Len(Tail(uart)) <= 2 /\ Len(Tail(uart)) # 2
    BY <2>4 DEF k, m
  <2>2. Len(Tail(uart)) = 0 => Tail(uart) = <<>>
    BY <1>2, Lengths
  <2> QED
    BY <2>1, <2>2
<1>4. TivaFine(ring, Tail(uart), (Len(uart) = 1), pc, data, kick, irqs)
  <2>1. (Len(uart) = 1) \in BOOLEAN
    OBVIOUS
  <2> QED
    BY <1>2, <1>3, <2>1 DEF TivaFine
<1> DEFINE rest == ring \o data
<1>5. rest \in Seq(Nat)
  BY <1>1, ConcatProperties
<1>6. (uart \o ring) \o data = uart \o rest
  BY <1>1, Regrouped
<1>7. (Tail(uart) \o ring) \o data = Tail(uart) \o rest
  BY <1>1, <1>2, Regrouped
<1> HIDE DEF rest
<1>8. Stream(out \o <<Head(uart)>>, Tail(uart) \o rest, n)
  BY <1>1, <1>5, <1>6, StreamLeavesFirst
<1> QED
  BY <1>1, <1>4, <1>7, <1>8

(* The interrupt hands over the next byte, if there is one. *)
LEMMA TivaInterrupts ==
  ASSUME NEW ring, NEW uart, NEW pc, NEW data, NEW kick, NEW irqs,
         TivaFine(ring, uart, TRUE, pc, data, kick, irqs), ~(pc # "idle" /\ irqs >= 1)
  PROVE  LET n == IF pc = "idle" \/ irqs = 2 THEN irqs ELSE irqs + 1 IN
         /\ ring = <<>> => TivaFine(ring, uart, FALSE, pc, data, kick, n)
         /\ ring # <<>> => /\ Len(uart) < 2
                           /\ TivaFine(Tail(ring), Append(uart, Head(ring)), FALSE, pc, data, kick, n)
                           /\ Append(uart, Head(ring)) \o Tail(ring) = uart \o ring
<1> DEFINE n == IF pc = "idle" \/ irqs = 2 THEN irqs ELSE irqs + 1
<1>1. /\ uart = <<>> /\ ring \in Seq(Nat) /\ Len(ring) \in Nat /\ Len(data) \in Nat /\ irqs \in Nat
      /\ pc \in {"idle", "store"}
  BY DEF TivaFine
<1>2. n \in 0 .. 2 /\ (pc = "store" => n = 1 /\ irqs = 0) /\ (kick => pc = "store")
  BY <1>1 DEF TivaFine
<1> HIDE DEF n
<1>3. ring = <<>> => TivaFine(ring, uart, FALSE, pc, data, kick, n)
  BY <1>1, <1>2 DEF TivaFine
<1>4. ASSUME ring # <<>>
      PROVE  /\ Len(uart) < 2
             /\ TivaFine(Tail(ring), Append(uart, Head(ring)), FALSE, pc, data, kick, n)
             /\ Append(uart, Head(ring)) \o Tail(ring) = uart \o ring
  <2> DEFINE fuller == Append(uart, Head(ring))
  <2>1. Len(uart) = 0
    BY <1>1
  <2>2. /\ fuller \in Seq(Nat) /\ Len(fuller) = Len(uart) + 1
        /\ Tail(ring) \in Seq(Nat) /\ Len(Tail(ring)) = Len(ring) - 1
        /\ fuller \o Tail(ring) = uart \o ring
    BY <1>4, TivaHandsOver
  <2>5. Len(fuller) = 1
    BY <2>1, <2>2
  <2> HIDE DEF fuller
  <2>3. Len(Tail(ring)) <= RingSize - 1 /\ (kick => Len(Tail(ring)) + Len(data) + n >= 3)
    BY <1>1, <1>2, <2>2, TransportSizes DEF TivaFine
  <2>4. TivaFine(Tail(ring), fuller, FALSE, pc, data, kick, n)
    BY <1>2, <2>2, <2>3, <2>5 DEF TivaFine
  <2>6. Len(uart) < 2
    BY <2>1
  <2> QED
    BY <2>2, <2>4, <2>6 DEF fuller
<1> QED
  BY <1>3, <1>4 DEF n

LEMMA TivaStep ==
  ASSUME TivaInv, Tiva!Next
  PROVE  TivaInv'
<1> USE DEF TivaInv, Counts
<1>1. ASSUME NEW length \in 3 .. MaxWrite, Tiva!write(length) PROVE TivaInv'
  <2> DEFINE new == Run(written, length)
  <2>1. Tiva!Data(length) = new /\ length \in Nat /\ length >= 3
    BY TransportSizes DEF Tiva!Data, Run
  <2>2. new \in Seq(Nat) /\ Len(new) = length
    BY <2>1, WholeRun
  <2>3. /\ written' = written + length /\ UNCHANGED <<wire, arrived, got, rx, excuse>>
        /\ tx' = [tx EXCEPT !.pc = "store", !.data = new, !.kick = (tx.ring = <<>>), !.irqs = 0]
        /\ tx.pc = "idle"
    BY <1>1, <2>1 DEF Tiva!write
  <2>4. Counts' /\ TivaRx'
    BY <2>1, <2>3 DEF TivaRx
  <2>5. ASSUME "tx" \notin excuse PROVE TivaTx'
    <3>1. PICK ring, uart, eot, pc, data, kick, irqs :
            /\ tx = TivaState(ring, uart, eot, pc, data, kick, irqs)
            /\ TivaFine(ring, uart, eot, pc, data, kick, irqs)
            /\ Stream(wire, (uart \o ring) \o data, written)
      BY <2>5 DEF TivaTx
    <3>2. pc = "idle" /\ tx.ring = ring
      BY <2>3, <3>1 DEF TivaState
    <3>3. /\ TivaFine(ring, uart, eot, "store", new, (ring = <<>>), 0)
          /\ (uart \o ring) \o data = uart \o ring
      BY <2>1, <2>2, <3>1, <3>2, TivaBegins
    <3>4. Stream(wire, (uart \o ring) \o new, written + length)
      BY <2>1, <3>1, <3>3, StreamGrows
    <3> HIDE DEF new
    <3>5. tx' = TivaState(ring, uart, eot, "store", new, (ring = <<>>), 0)
      BY <2>3, <3>1, <3>2 DEF TivaState
    <3>6. \E r, u, e, p, d, k, i :
            /\ tx' = TivaState(r, u, e, p, d, k, i)
            /\ TivaFine(r, u, e, p, d, k, i)
            /\ Stream(wire, (u \o r) \o d, written + length)
      BY <3>3, <3>4, <3>5
    <3> QED
      BY <2>3, <3>6 DEF TivaTx
  <2> QED
    BY <2>3, <2>4, <2>5 DEF TivaTx
<1>2. ASSUME Tiva!RingBufWrite PROVE TivaInv'
  <2>1. /\ UNCHANGED <<written, wire, arrived, got, rx>> /\ tx.pc = "store" /\ tx.data # <<>>
        /\ tx' = [tx EXCEPT !.ring = Tiva!RingBufWriteOne(@, Head(tx.data)), !.data = Tail(@)]
        /\ excuse' = IF Len(tx.ring) = RingSize - 1 THEN excuse \cup {"tx"} ELSE excuse
    BY <1>2 DEF Tiva!RingBufWrite, Tiva!Excused
  <2>2. Counts' /\ TivaRx'
    BY <2>1 DEF TivaRx
  <2>3. ASSUME "tx" \notin excuse' PROVE TivaTx'
    <3>1. "tx" \notin excuse /\ Len(tx.ring) # RingSize - 1
      BY <2>1, <2>3
    <3>2. PICK ring, uart, eot, pc, data, kick, irqs :
            /\ tx = TivaState(ring, uart, eot, pc, data, kick, irqs)
            /\ TivaFine(ring, uart, eot, pc, data, kick, irqs)
            /\ Stream(wire, (uart \o ring) \o data, written)
      BY <3>1 DEF TivaTx
    <3>3. pc = "store" /\ tx.data = data /\ tx.ring = ring
      BY <2>1, <3>2 DEF TivaState
    <3> DEFINE longer == Append(ring, Head(data))
               rest == Tail(data)
    <3>4. /\ TivaFine(longer, uart, eot, "store", rest, kick, irqs)
          /\ (uart \o longer) \o rest = (uart \o ring) \o data
      <4>1. /\ TivaFine(ring, uart, eot, "store", data, kick, irqs)
            /\ data # <<>> /\ Len(ring) # RingSize - 1
        BY <2>1, <3>1, <3>2, <3>3
      <4> QED
        BY <4>1, TivaStores
    <3>5. tx' = [tx EXCEPT !.ring = longer, !.data = rest]
      BY <2>1, <3>1, <3>2, <3>3 DEF TivaState, Tiva!RingBufWriteOne
    <3> HIDE DEF longer, rest
    <3>6. tx' = TivaState(longer, uart, eot, "store", rest, kick, irqs)
      BY <3>2, <3>3, <3>5 DEF TivaState
    <3>7. \E r, u, e, p, d, k, i :
            /\ tx' = TivaState(r, u, e, p, d, k, i)
            /\ TivaFine(r, u, e, p, d, k, i)
            /\ Stream(wire, (u \o r) \o d, written)
      BY <3>2, <3>4, <3>6
    <3> QED
      BY <2>1, <3>7 DEF TivaTx
  <2> QED
    BY <2>2, <2>3 DEF TivaTx
<1>3. ASSUME Tiva!StartSending PROVE TivaInv'
  <2>1. /\ UNCHANGED <<written, wire, arrived, got, rx, excuse>>
        /\ tx.pc = "store" /\ tx.data = <<>> /\ ~tx.eot
        /\ tx' = [tx EXCEPT
             !.pc = "idle", !.kick = FALSE, !.irqs = 0,
             !.ring = IF tx.kick THEN Tiva!RingBufReadOne(@) ELSE @,
             !.uart = IF tx.kick
                        THEN Tiva!UARTCharPutNonBlocking(@, IF tx.ring = <<>> THEN 0 ELSE Head(tx.ring))
                        ELSE @]
    BY <1>3 DEF Tiva!StartSending
  <2>2. Counts' /\ TivaRx'
    BY <2>1 DEF TivaRx
  <2>3. ASSUME "tx" \notin excuse PROVE TivaTx'
    <3>1. PICK ring, uart, eot, pc, data, kick, irqs :
            /\ tx = TivaState(ring, uart, eot, pc, data, kick, irqs)
            /\ TivaFine(ring, uart, eot, pc, data, kick, irqs)
            /\ Stream(wire, (uart \o ring) \o data, written)
      BY <2>3 DEF TivaTx
    <3>2. pc = "store" /\ data = <<>> /\ ~eot /\ tx.ring = ring /\ tx.kick = kick /\ tx.uart = uart
      BY <2>1, <3>1 DEF TivaState
    <3>3. /\ ~kick => TivaFine(ring, uart, eot, "idle", <<>>, FALSE, 0)
          /\ kick => /\ ring # <<>> /\ Len(uart) < 2
                     /\ TivaFine(Tail(ring), Append(uart, Head(ring)), eot, "idle", <<>>, FALSE, 0)
                     /\ Append(uart, Head(ring)) \o Tail(ring) = uart \o ring
      <4>1. TivaFine(ring, uart, eot, "store", <<>>, kick, irqs) /\ eot = FALSE /\ kick \in BOOLEAN
        BY <3>1, <3>2 DEF TivaFine
      <4>2. CASE kick = TRUE
        BY <4>1, <4>2, TivaStarts
      <4>3. CASE kick = FALSE
        BY <4>1, <4>3, TivaEnds
      <4> QED
        BY <4>1, <4>2, <4>3
    <3>4. \E r, u, e, p, d, k, i :
            /\ tx' = TivaState(r, u, e, p, d, k, i)
            /\ TivaFine(r, u, e, p, d, k, i)
            /\ Stream(wire, (u \o r) \o d, written)
      <4>1. CASE ~kick
        <5>1. tx' = TivaState(ring, uart, eot, "idle", <<>>, FALSE, 0)
          BY <2>1, <3>1, <3>2, <4>1 DEF TivaState
        <5> QED
          BY <3>1, <3>2, <3>3, <4>1, <5>1
      <4>2. CASE kick
        <5> DEFINE fuller == Append(uart, Head(ring))
                   rest == Tail(ring)
        <5>1. /\ TivaFine(rest, fuller, eot, "idle", <<>>, FALSE, 0)
              /\ fuller \o rest = uart \o ring
          BY <3>3, <4>2
        <5>2. Tiva!RingBufReadOne(ring) = rest /\ Tiva!UARTCharPutNonBlocking(uart, Head(ring)) = fuller
          BY <3>3, <4>2 DEF Tiva!RingBufReadOne, Tiva!UARTCharPutNonBlocking
        <5>3. tx' = [tx EXCEPT !.pc = "idle", !.kick = FALSE, !.irqs = 0, !.ring = rest, !.uart = fuller]
          BY <2>1, <3>1, <3>2, <3>3, <4>2, <5>2 DEF TivaState
        <5> HIDE DEF fuller, rest
        <5>4. tx' = TivaState(rest, fuller, eot, "idle", <<>>, FALSE, 0)
          BY <3>1, <3>2, <5>3 DEF TivaState
        <5> QED
          BY <3>1, <3>2, <5>1, <5>4
      <4> QED
        BY <4>1, <4>2
    <3> QED
      BY <2>1, <3>4 DEF TivaTx
  <2> QED
    BY <2>1, <2>2, <2>3 DEF TivaTx
<1>4. ASSUME Tiva!UartSends PROVE TivaInv'
  <2>1. /\ UNCHANGED <<written, arrived, got, rx, excuse>> /\ tx.uart # <<>>
        /\ wire' = IF "tx" \in excuse THEN wire ELSE wire \o <<Head(tx.uart)>>
        /\ tx' = [tx EXCEPT !.uart = Tail(@), !.eot = @ \/ Len(tx.uart) = 1]
    BY <1>4 DEF Tiva!UartSends, Tiva!Sent
  <2>2. Counts' /\ TivaRx'
    BY <2>1 DEF TivaRx
  <2>3. ASSUME "tx" \notin excuse PROVE TivaTx'
    <3>1. PICK ring, uart, eot, pc, data, kick, irqs :
            /\ tx = TivaState(ring, uart, eot, pc, data, kick, irqs)
            /\ TivaFine(ring, uart, eot, pc, data, kick, irqs)
            /\ Stream(wire, (uart \o ring) \o data, written)
      BY <2>3 DEF TivaTx
    <3>2. tx.uart = uart /\ tx.eot = eot
      BY <3>1 DEF TivaState
    <3>3. /\ ~eot /\ TivaFine(ring, Tail(uart), (Len(uart) = 1), pc, data, kick, irqs)
          /\ Stream(wire \o <<Head(uart)>>, (Tail(uart) \o ring) \o data, written)
      BY <2>1, <3>1, <3>2, TivaSends
    <3> DEFINE rest == Tail(uart)
               last == (Len(uart) = 1)
    <3>4. eot \in BOOLEAN /\ last \in BOOLEAN
      BY <3>1 DEF TivaFine
    <3>5. tx' = [tx EXCEPT !.uart = rest, !.eot = eot \/ last]
      BY <2>1, <3>1, <3>2 DEF TivaState
    <3>6. TivaFine(ring, rest, last, pc, data, kick, irqs)
      BY <3>3
    <3> HIDE DEF rest, last
    <3>7. (eot \/ last) = last
      BY <3>3, <3>4
    <3>8. tx' = TivaState(ring, rest, last, pc, data, kick, irqs)
      BY <3>1, <3>5, <3>7 DEF TivaState
    <3>9. wire' = wire \o <<Head(uart)>>
      BY <2>1, <2>3, <3>2
    <3>10. Stream(wire', (rest \o ring) \o data, written)
      BY <3>3, <3>9 DEF rest
    <3>11. \E r, u, e, p, d, k, i :
             /\ tx' = TivaState(r, u, e, p, d, k, i)
             /\ TivaFine(r, u, e, p, d, k, i)
             /\ Stream(wire', (u \o r) \o d, written)
      BY <3>6, <3>8, <3>10
    <3> QED
      BY <2>1, <3>11 DEF TivaTx
  <2> QED
    BY <2>1, <2>2, <2>3 DEF TivaTx
<1>5. ASSUME Tiva!UARTIntHandler_TX PROVE TivaInv'
  <2>1. /\ UNCHANGED <<written, wire, arrived, got, rx>> /\ tx.eot
        /\ tx' = [tx EXCEPT
             !.eot = FALSE,
             !.irqs = IF tx.pc = "idle" \/ @ = 2 THEN @ ELSE @ + 1,
             !.ring = IF tx.ring # <<>> THEN Tail(@) ELSE @,
             !.uart = IF tx.ring # <<>> THEN Tiva!UARTCharPutNonBlocking(@, Head(tx.ring)) ELSE @]
        /\ excuse' = IF tx.pc # "idle" /\ tx.irqs >= 1 THEN excuse \cup {"tx"} ELSE excuse
    BY <1>5 DEF Tiva!UARTIntHandler_TX, Tiva!Excused
  <2>2. Counts' /\ TivaRx'
    BY <2>1 DEF TivaRx
  <2>3. ASSUME "tx" \notin excuse' PROVE TivaTx'
    <3>1. "tx" \notin excuse /\ ~(tx.pc # "idle" /\ tx.irqs >= 1)
      BY <2>1, <2>3
    <3>2. PICK ring, uart, eot, pc, data, kick, irqs :
            /\ tx = TivaState(ring, uart, eot, pc, data, kick, irqs)
            /\ TivaFine(ring, uart, eot, pc, data, kick, irqs)
            /\ Stream(wire, (uart \o ring) \o data, written)
      BY <3>1 DEF TivaTx
    <3>3. tx.eot = eot /\ tx.pc = pc /\ tx.irqs = irqs /\ tx.ring = ring /\ tx.uart = uart
      BY <3>2 DEF TivaState
    <3>4. eot = TRUE
      BY <2>1, <3>2, <3>3 DEF TivaFine
    <3> DEFINE n == IF pc = "idle" \/ irqs = 2 THEN irqs ELSE irqs + 1
    <3>5. /\ ring = <<>> => TivaFine(ring, uart, FALSE, pc, data, kick, n)
          /\ ring # <<>> => /\ Len(uart) < 2
                            /\ TivaFine(Tail(ring), Append(uart, Head(ring)), FALSE, pc, data, kick, n)
                            /\ Append(uart, Head(ring)) \o Tail(ring) = uart \o ring
      <4>1. TivaFine(ring, uart, TRUE, pc, data, kick, irqs) /\ ~(pc # "idle" /\ irqs >= 1)
        BY <3>1, <3>2, <3>3, <3>4
      <4> QED
        BY <4>1, TivaInterrupts, Zenon
    <3>6. tx' = [tx EXCEPT !.eot = FALSE, !.irqs = n,
                   !.ring = IF ring # <<>> THEN Tail(ring) ELSE ring,
                   !.uart = IF ring # <<>> THEN Tiva!UARTCharPutNonBlocking(uart, Head(ring)) ELSE uart]
      BY <2>1, <3>2, <3>3 DEF TivaState
    <3> HIDE DEF n
    <3>7. \E r, u, e, p, d, k, i :
            /\ tx' = TivaState(r, u, e, p, d, k, i)
            /\ TivaFine(r, u, e, p, d, k, i)
            /\ Stream(wire, (u \o r) \o d, written)
      <4>1. CASE ring = <<>>
        <5>1. tx' = TivaState(ring, uart, FALSE, pc, data, kick, n)
          BY <3>2, <3>6, <4>1 DEF TivaState
        <5> QED
          BY <3>2, <3>5, <4>1, <5>1
      <4>2. CASE ring # <<>>
        <5> DEFINE fuller == Append(uart, Head(ring))
                   rest == Tail(ring)
        <5>1. /\ TivaFine(rest, fuller, FALSE, pc, data, kick, n)
              /\ fuller \o rest = uart \o ring
          BY <3>5, <4>2
        <5>2. Tiva!UARTCharPutNonBlocking(uart, Head(ring)) = fuller
          BY <3>5, <4>2 DEF Tiva!UARTCharPutNonBlocking
        <5>3. tx' = [tx EXCEPT !.eot = FALSE, !.irqs = n, !.ring = rest, !.uart = fuller]
          BY <3>6, <4>2, <5>2
        <5> HIDE DEF fuller, rest
        <5>4. tx' = TivaState(rest, fuller, FALSE, pc, data, kick, n)
          BY <3>2, <5>3 DEF TivaState
        <5> QED
          BY <3>2, <5>1, <5>4
      <4> QED
        BY <4>1, <4>2
    <3> QED
      BY <2>1, <3>7 DEF TivaTx
  <2> QED
    BY <2>2, <2>3 DEF TivaTx
<1>6. ASSUME Tiva!UARTIntHandler_RX PROVE TivaInv'
  <2>1. /\ UNCHANGED <<written, wire, got, tx>> /\ arrived' = arrived + 1
        /\ rx' = Tiva!RingBufWriteOne(rx, arrived + 1)
        /\ excuse' = IF Len(rx) = RingSize - 1 THEN excuse \cup {"rx"} ELSE excuse
    BY <1>6 DEF Tiva!UARTIntHandler_RX, Tiva!Excused
  <2>2. Counts' /\ TivaTx'
    BY <2>1 DEF TivaTx
  <2>3. ASSUME "rx" \notin excuse' PROVE TivaRx'
    <3>1. "rx" \notin excuse /\ Len(rx) # RingSize - 1 /\ rx' = Append(rx, arrived + 1)
      BY <2>1, <2>3 DEF Tiva!RingBufWriteOne
    <3>2. rx \in Seq(Nat) /\ Len(rx) <= RingSize - 1 /\ Stream(got, rx, arrived)
      BY <3>1 DEF TivaRx
    <3>3. Stream(got, Append(rx, arrived + 1), arrived + 1)
      BY <3>2, StreamComes
    <3>4. Len(rx) \in Nat /\ rx' \in Seq(Nat) /\ Len(rx') = Len(rx) + 1
      BY <3>1, <3>2, Lengths
    <3>5. Len(rx') <= RingSize - 1
      BY <3>1, <3>2, <3>4, TransportSizes
    <3> QED
      BY <2>1, <3>1, <3>3, <3>4, <3>5 DEF TivaRx
  <2> QED
    BY <2>2, <2>3 DEF TivaRx
<1>7. ASSUME Tiva!read PROVE TivaInv'
  <2>1. /\ UNCHANGED <<written, wire, arrived, tx, excuse>> /\ rx # <<>> /\ rx' = Tail(rx)
        /\ got' = IF "rx" \in excuse THEN got ELSE got \o <<Head(rx)>>
    BY <1>7 DEF Tiva!read, Tiva!Returned
  <2>2. Counts' /\ TivaTx'
    BY <2>1 DEF TivaTx
  <2>3. ASSUME "rx" \notin excuse PROVE TivaRx'
    <3>1. rx \in Seq(Nat) /\ Len(rx) <= RingSize - 1 /\ Stream(got, rx, arrived)
      BY <2>3 DEF TivaRx
    <3>2. Stream(got \o <<Head(rx)>>, Tail(rx), arrived)
      BY <2>1, <3>1, StreamLeaves
    <3>3. Len(rx) \in Nat /\ rx' \in Seq(Nat) /\ Len(rx') = Len(rx) - 1
      BY <2>1, <3>1, Lengths
    <3>4. Len(rx') <= RingSize - 1
      BY <3>1, <3>3, TransportSizes
    <3> QED
      BY <2>1, <2>3, <3>2, <3>3, <3>4 DEF TivaRx
  <2> QED
    BY <2>1, <2>2, <2>3 DEF TivaRx
<1> QED
  BY <1>1, <1>2, <1>3, <1>4, <1>5, <1>6, <1>7 DEF Tiva!Next

-----------------------------------------------------------------------------
(* Rings with an index for writing and one for reading. *)

\* The places from r up to w.
Gap(w, r, n) == IF r <= w THEN w - r ELSE w + n - r

LEMMA Gaps ==
  ASSUME NEW n \in Nat \ {0}, NEW w \in 0 .. n - 1, NEW r \in 0 .. n - 1
  PROVE  /\ (w + n - r) % n = Gap(w, r, n) /\ Gap(w, r, n) \in 0 .. n - 1
         /\ (r + Gap(w, r, n)) % n = w /\ Place(r, Gap(w, r, n), n) = w
         /\ Gap(w, r, n) = 0 <=> w = r
<1> DEFINE x == w + n - r
           g == Gap(w, r, n)
<1>1. x \in Nat /\ x <= n + n /\ x < n + n
  OBVIOUS
<1> HIDE DEF x
<1>2. x % n = (IF x < n THEN x ELSE IF x < n + n THEN x - n ELSE 0)
  BY <1>1, RemainderOf
<1>3. g = (IF x < n THEN x ELSE x - n) /\ g \in 0 .. n - 1 /\ (g = 0 <=> w = r)
  BY DEF x, Gap
<1>4. x % n = g
  BY <1>1, <1>2, <1>3
<1>5. Place(r, g, n) = w
  BY DEF Gap, Place
<1> HIDE DEF g
<1>6. g \in 0 .. n
  BY <1>3
<1>7. (r + g) % n = w
  BY <1>5, <1>6, Places
<1> QED
  BY <1>3, <1>4, <1>5, <1>7 DEF x, g

(* The index for writing, and the one for reading, moves on. *)
LEMMA GapGrows ==
  ASSUME NEW n \in Nat \ {0}, NEW w \in 0 .. n - 1, NEW r \in 0 .. n - 1, NEW m \in Nat,
         Gap(w, r, n) + m <= n - 1
  PROVE  (w + m) % n \in 0 .. n - 1 /\ Gap((w + m) % n, r, n) = Gap(w, r, n) + m
<1>1. m \in 0 .. n
  BY DEF Gap
<1>2. (w + m) % n = Place(w, m, n) /\ Place(w, m, n) \in 0 .. n - 1
  BY <1>1, Places
<1>3. Gap(Place(w, m, n), r, n) = Gap(w, r, n) + m
  BY DEF Gap, Place
<1> QED
  BY <1>2, <1>3

LEMMA GapShrinks ==
  ASSUME NEW n \in Nat \ {0}, NEW w \in 0 .. n - 1, NEW r \in 0 .. n - 1, NEW j \in Nat,
         j <= Gap(w, r, n)
  PROVE  (r + j) % n \in 0 .. n - 1 /\ Gap(w, (r + j) % n, n) = Gap(w, r, n) - j
<1>1. j \in 0 .. n
  BY DEF Gap
<1>2. (r + j) % n = Place(r, j, n) /\ Place(r, j, n) \in 0 .. n - 1
  BY <1>1, Places
<1>3. Gap(w, Place(r, j, n), n) = Gap(w, r, n) - j
  BY DEF Gap, Place
<1> QED
  BY <1>2, <1>3

LEMMA GapOf ==
  ASSUME NEW n \in Nat \ {0}, NEW at \in 0 .. n - 1, NEW k \in 0 .. n, NEW i \in 0 .. n - 1
  PROVE  /\ k <= i => Gap(Place(at, i, n), Place(at, k, n), n) = i - k
         /\ i < k => Gap(Place(at, i, n), Place(at, k, n), n) = n - k + i
  BY DEF Gap, Place

\* The memory is the ring and no more.
Exactly(buf, n) == DOMAIN buf = 0 .. n - 1

\* A memory after m bytes of data were copied to places w, w + 1, ...
Filled(buf, w, m, data, n) ==
  [i \in DOMAIN buf |-> LET p == (i + n - w) % n IN IF p < m THEN data[p + 1] ELSE buf[i]]

(* m bytes stored behind k bytes, with room for them. *)
LEMMA RingFill ==
  ASSUME NEW n, NEW at, NEW k \in Nat, NEW m \in Nat, NEW buf, Ring(buf, at, k + m, n),
         Exactly(buf, n), NEW data \in Seq(Nat), Len(data) = m, NEW w, w = (at + k) % n
  PROVE  /\ IsRing(Filled(buf, w, m, data, n), n) /\ Exactly(Filled(buf, w, m, data, n), n)
         /\ InRing(Filled(buf, w, m, data, n), at, k + m, n) = InRing(buf, at, k, n) \o data
<1> DEFINE filled == Filled(buf, w, m, data, n)
           s == InRing(filled, at, k + m, n)
           t == InRing(buf, at, k, n)
<1>1. /\ n \in Nat \ {0} /\ at \in 0 .. n - 1 /\ IsRing(buf, n)
      /\ k \in 0 .. n /\ k + m \in 0 .. n /\ m \in 0 .. n
  BY DEF Ring, IsRing
<1> DEFINE l == k + m
<1>2. w = Place(at, k, n) /\ w \in 0 .. n - 1
  BY <1>1, Places
<1>3. \A i \in 1 .. m : data[i] \in Nat
  BY LenProperties
<1>4. ASSUME NEW i \in 0 .. n - 1
      PROVE  /\ Gap(i, w, n) \in 0 .. n - 1
             /\ filled[i] = IF Gap(i, w, n) < m THEN data[Gap(i, w, n) + 1] ELSE buf[i]
  <2>1. (i + n - w) % n = Gap(i, w, n) /\ Gap(i, w, n) \in 0 .. n - 1
    BY <1>1, <1>2, Gaps
  <2>2. filled[i] = IF (i + n - w) % n < m THEN data[((i + n - w) % n) + 1] ELSE buf[i]
    BY DEF Exactly, Filled
  <2> QED
    BY <2>1, <2>2
<1>5. IsRing(filled, n) /\ Exactly(filled, n)
  <2>1. ASSUME NEW i \in 0 .. n - 1 PROVE filled[i] \in Nat
    <3> DEFINE g == Gap(i, w, n)
    <3>1. g \in 0 .. n - 1 /\ filled[i] = IF g < m THEN data[g + 1] ELSE buf[i]
      BY <1>4
    <3> HIDE DEF g, filled
    <3>2. g < m => g + 1 \in 1 .. m
      BY <3>1
    <3>3. buf[i] \in Nat
      BY <1>1 DEF IsRing
    <3>4. g < m => data[g + 1] \in Nat
      BY <1>3, <3>2
    <3> QED
      BY <3>1, <3>3, <3>4
  <2>2. DOMAIN filled = 0 .. n - 1
    BY DEF Exactly, Filled
  <2> HIDE DEF filled
  <2> QED
    BY <1>1, <2>1, <2>2 DEF IsRing, Exactly
<1> HIDE DEF filled
<1>6. s \in Seq(Nat) /\ Len(s) = k + m /\ \A i \in 1 .. k + m : s[i] = filled[Place(at, i - 1, n)]
  <2>1. Ring(filled, at, l, n)
    BY <1>1, <1>5 DEF Ring
  <2> HIDE DEF l
  <2>2. /\ InRing(filled, at, l, n) \in Seq(Nat) /\ Len(InRing(filled, at, l, n)) = l
        /\ \A i \in 1 .. l : InRing(filled, at, l, n)[i] = filled[Place(at, i - 1, n)]
    BY <2>1, InRingType
  <2> QED
    BY <2>2 DEF l
<1>7. t \in Seq(Nat) /\ Len(t) = k /\ \A i \in 1 .. k : t[i] = buf[Place(at, i - 1, n)]
  <2> DEFINE q == k
  <2>1. Ring(buf, at, q, n)
    BY <1>1 DEF Ring
  <2> HIDE DEF q
  <2>2. /\ InRing(buf, at, q, n) \in Seq(Nat) /\ Len(InRing(buf, at, q, n)) = q
        /\ \A i \in 1 .. q : InRing(buf, at, q, n)[i] = buf[Place(at, i - 1, n)]
    BY <2>1, InRingType
  <2> QED
    BY <2>2 DEF q
<1> HIDE DEF s, t
<1>8. /\ t \o data \in Seq(Nat) /\ Len(t \o data) = k + m
      /\ \A i \in 1 .. k : (t \o data)[i] = t[i]
      /\ \A i \in 1 .. m : (t \o data)[k + i] = data[i]
  <2>1. /\ t \o data \in Seq(Nat) /\ Len(t \o data) = Len(t) + Len(data)
        /\ \A i \in 1 .. Len(t) : (t \o data)[i] = t[i]
        /\ \A i \in 1 .. Len(data) : (t \o data)[Len(t) + i] = data[i]
    BY <1>7, Joined
  <2> QED
    BY <1>7, <2>1
<1>9. ASSUME NEW i \in 1 .. k + m PROVE s[i] = (t \o data)[i]
  <2> DEFINE p == Place(at, i - 1, n)
  <2>1. p \in 0 .. n - 1
    BY <1>1 DEF Place
  <2>4. /\ k <= i - 1 => Gap(p, w, n) = i - 1 - k
        /\ i - 1 < k => Gap(p, w, n) = n - k + (i - 1)
    <3> DEFINE j == i - 1
    <3>1. j \in 0 .. n - 1
      BY <1>1
    <3> HIDE DEF j
    <3>2. /\ k <= j => Gap(Place(at, j, n), Place(at, k, n), n) = j - k
          /\ j < k => Gap(Place(at, j, n), Place(at, k, n), n) = n - k + j
      BY <1>1, <3>1, GapOf
    <3> QED
      BY <1>2, <3>2 DEF j
  <2> HIDE DEF p
  <2>2. CASE i \in 1 .. k
    <3>1. ~(Gap(p, w, n) < m)
      BY <1>1, <2>2, <2>4
    <3>2. filled[p] = buf[p]
      BY <1>4, <2>1, <3>1
    <3> QED
      BY <1>6, <1>7, <1>8, <2>2, <3>2 DEF p
  <2>3. CASE i \notin 1 .. k
    <3>1. i - k \in 1 .. m /\ i = k + (i - k)
      BY <2>3
    <3>2. Gap(p, w, n) = i - k - 1
      BY <2>4, <3>1
    <3>3. Gap(p, w, n) < m /\ Gap(p, w, n) + 1 = i - k
      BY <3>1, <3>2
    <3>4. filled[p] = data[i - k]
      BY <1>4, <2>1, <3>3
    <3>5. (t \o data)[i] = data[i - k]
      BY <1>8, <3>1
    <3> QED
      BY <1>6, <3>4, <3>5 DEF p
  <2> QED
    BY <2>2, <2>3
<1>10. s = t \o data
  BY <1>6, <1>8, <1>9, SameElements
<1> QED
  BY <1>5, <1>10 DEF s, t, filled

\* A ring with an index for writing and one for reading, and what it holds.
Indexed(buf, w, r, n) == IsRing(buf, n) /\ w \in 0 .. n - 1 /\ r \in 0 .. n - 1
Between(buf, w, r, n) == InRing(buf, r, Gap(w, r, n), n)

(* One byte is stored, and some are taken. *)
LEMMA RingStores ==
  ASSUME NEW n, NEW w, NEW r, NEW buf, Indexed(buf, w, r, n), Gap(w, r, n) # n - 1, NEW c \in Nat
  PROVE  /\ Indexed(Put(buf, w, c), (w + 1) % n, r, n)
         /\ Gap((w + 1) % n, r, n) = Gap(w, r, n) + 1
         /\ Between(Put(buf, w, c), (w + 1) % n, r, n) = Between(buf, w, r, n) \o <<c>>
<1> DEFINE k == Gap(w, r, n)
<1>0. n \in Nat \ {0} /\ w \in 0 .. n - 1 /\ r \in 0 .. n - 1 /\ IsRing(buf, n)
  BY DEF Indexed, IsRing
<1>1. k \in 0 .. n - 1 /\ Place(r, k, n) = w /\ k + 1 <= n - 1
  BY <1>0, Gaps
<1>2. (w + 1) % n \in 0 .. n - 1 /\ Gap((w + 1) % n, r, n) = k + 1
  <2>1. \A m \in Nat : k + m <= n - 1
           => (w + m) % n \in 0 .. n - 1 /\ Gap((w + m) % n, r, n) = k + m
    BY <1>0, GapGrows
  <2> HIDE DEF k
  <2> QED
    BY <1>0, <1>1, <2>1
<1> HIDE DEF k
<1>3. Ring(buf, r, k, n) /\ k # n
  BY <1>0, <1>1 DEF Ring
<1>4. /\ IsRing(Put(buf, Place(r, k, n), c), n)
      /\ InRing(Put(buf, Place(r, k, n), c), r, k + 1, n) = InRing(buf, r, k, n) \o <<c>>
  BY <1>3, RingPut
<1> QED
  BY <1>0, <1>1, <1>2, <1>4 DEF k, Indexed, Between

LEMMA RingTakes ==
  ASSUME NEW n, NEW at, NEW k, NEW buf, Ring(buf, at, k, n), k # 0
  PROVE  /\ (at + 1) % n \in 0 .. n - 1 /\ buf[at] \in Nat
         /\ InRing(buf, (at + 1) % n, k - 1, n) \in Seq(Nat)
         /\ InRing(buf, at, k, n) = <<buf[at]>> \o InRing(buf, (at + 1) % n, k - 1, n)
<1> DEFINE l == k - 1
           j == 1
<1>0. n \in Nat \ {0} /\ at \in 0 .. n - 1 /\ IsRing(buf, n) /\ k \in 1 .. n
  BY DEF Ring, IsRing
<1>1. j \in Nat /\ l \in Nat /\ j + l = k /\ Ring(buf, at, j + l, n) /\ Ring(buf, at, j, n)
  BY <1>0 DEF Ring
<1> HIDE DEF l, j
<1>2. /\ (at + j) % n \in 0 .. n - 1
      /\ InRing(buf, (at + j) % n, l, n) \in Seq(Nat)
      /\ InRing(buf, at, j + l, n) = InRing(buf, at, j, n) \o InRing(buf, (at + j) % n, l, n)
  BY <1>1, RingSplit
<1>3. InRing(buf, at, j, n) = <<buf[at]>> /\ buf[at] \in Nat
  <2>1. /\ InRing(buf, at, j, n) \in Seq(Nat) /\ Len(InRing(buf, at, j, n)) = j
        /\ \A i \in 1 .. j : InRing(buf, at, j, n)[i] = buf[Place(at, i - 1, n)]
    BY <1>1, InRingType
  <2>2. Place(at, 0, n) = at /\ buf[at] \in Nat
    BY <1>0 DEF Place, IsRing
  <2> DEFINE s == InRing(buf, at, j, n)
             t == <<buf[at]>>
  <2>3. t \in Seq(Nat) /\ Len(t) = 1 /\ t[1] = buf[at]
    BY <2>2
  <2> HIDE DEF s, t
  <2>4. s \in Seq(Nat) /\ Len(s) = 1 /\ s[1] = buf[at]
    <3>1. 1 \in 1 .. 1 /\ 1 - 1 = 0
      OBVIOUS
    <3>2. s \in Seq(Nat) /\ Len(s) = 1 /\ \A i \in 1 .. 1 : s[i] = buf[Place(at, i - 1, n)]
      BY <2>1 DEF s, j
    <3> QED
      BY <2>2, <3>1, <3>2
  <2>5. s = t
    BY <2>3, <2>4, SameElements
  <2> QED
    BY <2>2, <2>5 DEF s, t
<1> QED
  BY <1>1, <1>2, <1>3 DEF l, j

(* The first byte of a ring leaves the stream. *)
LEMMA StreamLeavesRing ==
  ASSUME NEW n, NEW at, NEW k, NEW buf, Ring(buf, at, k, n), k # 0,
         NEW out, NEW m, Stream(out, InRing(buf, at, k, n), m)
  PROVE  /\ (at + 1) % n \in 0 .. n - 1
         /\ Stream(out \o <<buf[at]>>, InRing(buf, (at + 1) % n, k - 1, n), m)
<1>1. /\ (at + 1) % n \in 0 .. n - 1 /\ buf[at] \in Nat
      /\ InRing(buf, (at + 1) % n, k - 1, n) \in Seq(Nat)
      /\ InRing(buf, at, k, n) = <<buf[at]>> \o InRing(buf, (at + 1) % n, k - 1, n)
  BY RingTakes
<1>2. <<buf[at]>> \in Seq(Nat)
  BY <1>1
<1> QED
  BY <1>1, <1>2, StreamMoves

(* The two directions of a ring with two indices. *)
LEMMA StreamEntersRing ==
  ASSUME NEW n, NEW w, NEW r, NEW buf, Indexed(buf, w, r, n), Gap(w, r, n) # n - 1,
         NEW out, NEW m \in Nat, Stream(out, Between(buf, w, r, n), m)
  PROVE  /\ Indexed(Put(buf, w, m + 1), (w + 1) % n, r, n)
         /\ Stream(out, Between(Put(buf, w, m + 1), (w + 1) % n, r, n), m + 1)
<1> DEFINE c == m + 1
           held == Between(buf, w, r, n)
<1>1. c \in Nat
  OBVIOUS
<1>2. held \in Seq(Nat)
  BY DEF Stream
<1>3. Stream(out, Append(held, m + 1), m + 1)
  BY StreamComes
<1>4. Append(held, c) = held \o <<c>>
  BY <1>1, <1>2, AppendIsConcat
<1>5. Stream(out, held \o <<c>>, m + 1)
  BY <1>3, <1>4
<1> HIDE DEF c
<1>6. /\ Indexed(Put(buf, w, c), (w + 1) % n, r, n)
      /\ Between(Put(buf, w, c), (w + 1) % n, r, n) = held \o <<c>>
  BY <1>1, RingStores
<1> QED
  BY <1>5, <1>6 DEF c

LEMMA StreamLeavesIndexed ==
  ASSUME NEW n, NEW w, NEW r, NEW buf, Indexed(buf, w, r, n), w # r,
         NEW out, NEW m, Stream(out, Between(buf, w, r, n), m)
  PROVE  /\ Indexed(buf, w, (r + 1) % n, n)
         /\ Stream(out \o <<buf[r]>>, Between(buf, w, (r + 1) % n, n), m)
<1> DEFINE k == Gap(w, r, n)
<1>0. n \in Nat \ {0} /\ w \in 0 .. n - 1 /\ r \in 0 .. n - 1 /\ IsRing(buf, n)
  BY DEF Indexed, IsRing
<1>1. k \in 0 .. n - 1 /\ k # 0
  BY <1>0, Gaps
<1>2. (r + 1) % n \in 0 .. n - 1 /\ Gap(w, (r + 1) % n, n) = k - 1
  <2>1. \A j \in Nat : j <= k
           => (r + j) % n \in 0 .. n - 1 /\ Gap(w, (r + j) % n, n) = k - j
    BY <1>0, GapShrinks
  <2> HIDE DEF k
  <2> QED
    BY <1>0, <1>1, <2>1
<1> HIDE DEF k
<1>3. Ring(buf, r, k, n) /\ k # 0 /\ Stream(out, InRing(buf, r, k, n), m)
  BY <1>0, <1>1 DEF Ring, k, Between
<1>4. Stream(out \o <<buf[r]>>, InRing(buf, (r + 1) % n, k - 1, n), m)
  BY <1>3, StreamLeavesRing
<1> QED
  BY <1>0, <1>2, <1>4 DEF Indexed, Between

-----------------------------------------------------------------------------
\* STM32Hardware.  What the controller has still to fetch lies before tfind,
\* and both parts together fit into the ring.
Stm32Fine(tbuf, w, f, g, at, left) ==
  /\ Indexed(tbuf, w, f, RingSize) /\ Exactly(tbuf, RingSize)
  /\ g \in {"READY", "BUSY"} /\ at \in 0 .. RingSize /\ left \in 0 .. RingSize
  /\ g = "READY" => left = 0
  /\ left # 0 => at + left <= RingSize /\ Place(at, left, RingSize) = f
  /\ left + Gap(w, f, RingSize) <= RingSize
First(f, at, left) == IF left # 0 THEN at ELSE f
Stm32Held(tbuf, w, f, at, left) ==
  InRing(tbuf, First(f, at, left), left + Gap(w, f, RingSize), RingSize)
Stm32State(tbuf, w, f, g, at, left) ==
  [tbuf |-> tbuf, twind |-> w, tfind |-> f, gState |-> g, at |-> at, left |-> left]
Stm32Tx ==
  "tx" \notin excuse =>
    \E tbuf, w, f, g, at, left :
      /\ tx = Stm32State(tbuf, w, f, g, at, left)
      /\ Stm32Fine(tbuf, w, f, g, at, left)
      /\ Stream(wire, Stm32Held(tbuf, w, f, at, left), written)
Stm32Rx ==
  "rx" \notin excuse =>
    \E rbuf, rind, ind :
      /\ rx = [rbuf |-> rbuf, rind |-> rind, ind |-> ind]
      /\ Indexed(rbuf, ind, rind, RingSize)
      /\ Stream(got, Between(rbuf, ind, rind, RingSize), arrived)
Stm32Inv == Counts /\ Stm32Tx /\ Stm32Rx

LEMMA Stm32Ring ==
  ASSUME NEW tbuf, NEW w, NEW f, NEW g, NEW at, NEW left, Stm32Fine(tbuf, w, f, g, at, left)
  PROVE  /\ Ring(tbuf, First(f, at, left), left + Gap(w, f, RingSize), RingSize)
         /\ Place(First(f, at, left), left + Gap(w, f, RingSize), RingSize) = w
         /\ (First(f, at, left) + left) % RingSize = f
         /\ Gap(w, f, RingSize) \in 0 .. RingSize - 1 /\ left \in Nat
<1> DEFINE n == RingSize
           h == First(f, at, left)
           k == Gap(w, f, n)
<1>0. n \in Nat \ {0} /\ w \in 0 .. n - 1 /\ f \in 0 .. n - 1 /\ IsRing(tbuf, n)
  BY TransportSizes DEF Stm32Fine, Indexed
<1>1. /\ at \in 0 .. n /\ left \in 0 .. n /\ left + k <= n
      /\ left # 0 => at + left <= n /\ Place(at, left, n) = f
  BY DEF Stm32Fine
<1> HIDE DEF n
<1>2. h \in 0 .. n - 1
  BY <1>0, <1>1 DEF First
<1>3. k \in 0 .. n - 1 /\ Place(f, k, n) = w
  BY <1>0, Gaps
<1>4. Place(h, left, n) = f
  BY <1>0, <1>1 DEF First, Place
<1> HIDE DEF h, k
<1>5. Place(h, left + k, n) = w
  BY <1>0, <1>1, <1>2, <1>3, <1>4 DEF Place
<1>6. (h + left) % n = f
  BY <1>0, <1>1, <1>2, <1>4, Places
<1>7. Ring(tbuf, h, left + k, n)
  BY <1>0, <1>1, <1>2, <1>3 DEF Ring
<1> QED
  BY <1>1, <1>3, <1>5, <1>6, <1>7 DEF h, k, n

(* The two memcpy()s. *)
LEMMA Stm32Stores ==
  ASSUME NEW tbuf, NEW w, NEW f, NEW g, NEW at, NEW left, Stm32Fine(tbuf, w, f, g, at, left),
         NEW data \in Seq(Nat), NEW m \in Nat, Len(data) = m,
         Gap(w, f, RingSize) + m # RingSize, left + Gap(w, f, RingSize) + m <= RingSize
  PROVE  LET filled == Filled(tbuf, w, m, data, RingSize)
             w2 == (w + m) % RingSize
         IN  /\ Stm32Fine(filled, w2, f, g, at, left)
             /\ Stm32Held(filled, w2, f, at, left) = Stm32Held(tbuf, w, f, at, left) \o data
<1> DEFINE n == RingSize
           h == First(f, at, left)
           k == Gap(w, f, n)
           q == left + k
           w2 == (w + m) % n
           filled == Filled(tbuf, w, m, data, n)
<1>0. n \in Nat \ {0} /\ w \in 0 .. n - 1 /\ f \in 0 .. n - 1 /\ IsRing(tbuf, n) /\ Exactly(tbuf, n)
  BY TransportSizes DEF Stm32Fine, Indexed
<1>1. /\ Ring(tbuf, h, q, n) /\ Place(h, q, n) = w /\ k \in 0 .. n - 1 /\ left \in Nat
      /\ k + m # n /\ q + m <= n
  BY Stm32Ring
<1>2. w2 \in 0 .. n - 1 /\ Gap(w2, f, n) = k + m
  <2>1. Gap(w, f, n) + m <= n - 1
    BY <1>0, <1>1
  <2> HIDE DEF n
  <2> QED
    BY <1>0, <2>1, GapGrows
<1> HIDE DEF w2
<1>3. h \in 0 .. n - 1 /\ q \in 0 .. n
  BY <1>0, <1>1 DEF Ring
<1>4. w = (h + q) % n
  <2> HIDE DEF h, q, n
  <2> QED
    BY <1>0, <1>1, <1>3, Places
<1>5. q \in Nat /\ Ring(tbuf, h, q + m, n)
  <2> HIDE DEF h, q, n
  <2> QED
    BY <1>0, <1>1, <1>3 DEF Ring
<1>6. /\ IsRing(filled, n) /\ Exactly(filled, n)
      /\ InRing(filled, h, q + m, n) = InRing(tbuf, h, q, n) \o data
  <2>1. q \in Nat /\ Ring(tbuf, h, q + m, n) /\ Exactly(tbuf, n) /\ w = (h + q) % n
    BY <1>0, <1>4, <1>5
  <2> HIDE DEF h, q, n
  <2> QED
    BY <2>1, RingFill
<1> HIDE DEF filled
<1>7. Stm32Fine(filled, w2, f, g, at, left)
  <2>1. left + (k + m) <= n
    BY <1>0, <1>1
  <2> QED
    BY <1>0, <1>2, <1>6, <2>1 DEF Stm32Fine, Indexed
<1>8. left + Gap(w2, f, n) = q + m
  BY <1>1, <1>2
<1> QED
  BY <1>6, <1>7, <1>8 DEF Stm32Held, w2, filled

(* flush(): what is sent next is named; nothing moves. *)
LEMMA Stm32Flushes ==
  ASSUME NEW tbuf, NEW w, NEW f, NEW at, NEW left,
         Stm32Fine(tbuf, w, f, "READY", at, left), w # f
  PROVE  LET n == IF f < w THEN w - f ELSE RingSize - f
             f2 == (f + n) % RingSize
         IN  /\ Stm32Fine(tbuf, w, f2, "BUSY", f, n)
             /\ Stm32Held(tbuf, w, f2, f, n) = Stm32Held(tbuf, w, f, at, left)
<1> DEFINE s == RingSize
           n == IF f < w THEN w - f ELSE s - f
           f2 == (f + n) % s
<1>0. s \in Nat \ {0} /\ w \in 0 .. s - 1 /\ f \in 0 .. s - 1 /\ left = 0
  BY TransportSizes DEF Stm32Fine, Indexed
<1>1. Gap(w, f, s) \in 0 .. s - 1
  BY <1>0, Gaps
<1> HIDE DEF s
<1>2. n \in 1 .. s /\ n <= Gap(w, f, s) /\ f + n <= s
  BY <1>0 DEF Gap
<1>3. f2 = Place(f, n, s) /\ f2 \in 0 .. s - 1
  <2>1. n \in 0 .. s
    BY <1>0, <1>2
  <2> HIDE DEF n
  <2> QED
    BY <1>0, <2>1, Places
<1>4. Gap(w, f2, s) = Gap(w, f, s) - n
  <2>1. n \in Nat
    BY <1>0, <1>2
  <2> HIDE DEF n
  <2> QED
    BY <1>0, <1>2, <2>1, GapShrinks
<1> HIDE DEF n, f2
<1>5. n + Gap(w, f2, s) = 0 + Gap(w, f, s) /\ n + Gap(w, f2, s) <= s
  BY <1>0, <1>1, <1>2, <1>4
<1>6. Stm32Fine(tbuf, w, f2, "BUSY", f, n)
  <2>1. n \in 0 .. s /\ f \in 0 .. s /\ n # 0
    BY <1>0, <1>2
  <2> QED
    BY <1>0, <1>2, <1>3, <1>5, <2>1 DEF Stm32Fine, Indexed, s
<1>7. Stm32Held(tbuf, w, f2, f, n) = Stm32Held(tbuf, w, f, at, left)
  <2>1. n # 0
    BY <1>0, <1>2
  <2>2. First(f2, f, n) = f /\ First(f, at, left) = f
    BY <1>0, <2>1 DEF First
  <2> QED
    BY <1>0, <1>5, <2>2 DEF Stm32Held, s
<1> QED
  BY <1>6, <1>7 DEF s, n, f2

(* The controller fetches a byte. *)
LEMMA Stm32Sends ==
  ASSUME NEW tbuf, NEW w, NEW f, NEW g, NEW at, NEW left, Stm32Fine(tbuf, w, f, g, at, left),
         left # 0, NEW out, NEW m, Stream(out, Stm32Held(tbuf, w, f, at, left), m)
  PROVE  /\ Stm32Fine(tbuf, w, f, g, at + 1, left - 1)
         /\ Stream(out \o <<tbuf[at]>>, Stm32Held(tbuf, w, f, at + 1, left - 1), m)
<1> DEFINE n == RingSize
           k == Gap(w, f, n)
           q == left + k
<1>0. n \in Nat \ {0} /\ w \in 0 .. n - 1 /\ f \in 0 .. n - 1
  BY TransportSizes DEF Stm32Fine, Indexed
<1>1. /\ at \in 0 .. n /\ left \in 0 .. n /\ q <= n
      /\ at + left <= n /\ Place(at, left, n) = f
  BY DEF Stm32Fine
<1>2. Ring(tbuf, at, q, n) /\ k \in 0 .. n - 1
  BY Stm32Ring DEF First
<1>3. Stream(out, InRing(tbuf, at, q, n), m)
  BY DEF Stm32Held, First
<1> HIDE DEF n, k
<1>4. q # 0
  BY <1>0, <1>1, <1>2
<1> HIDE DEF q
<1>5. Stream(out \o <<tbuf[at]>>, InRing(tbuf, (at + 1) % n, q - 1, n), m)
  BY <1>2, <1>3, <1>4, StreamLeavesRing
<1>6. (at + 1) % n = First(f, at + 1, left - 1)
  <2>1. at \in 0 .. n - 1 /\ 1 \in 0 .. n
    BY <1>0, <1>1
  <2>2. \A i \in 0 .. n : (at + i) % n = Place(at, i, n)
    BY <1>0, <2>1, Places
  <2>3. (at + 1) % n = Place(at, 1, n)
    BY <2>1, <2>2
  <2>4. Place(at, 1, n) = First(f, at + 1, left - 1)
    BY <1>0, <1>1 DEF First, Place
  <2> QED
    BY <2>3, <2>4
<1>7. q - 1 = (left - 1) + k
  BY <1>0, <1>1, <1>2 DEF q
<1>8. Stm32Held(tbuf, w, f, at + 1, left - 1) = InRing(tbuf, (at + 1) % n, q - 1, n)
  BY <1>6, <1>7 DEF Stm32Held, n, k
<1>9. Stm32Fine(tbuf, w, f, g, at + 1, left - 1)
  <2>1. /\ at + 1 \in 0 .. n /\ left - 1 \in 0 .. n /\ at + 1 + (left - 1) <= n
        /\ (left - 1) + k <= n
    BY <1>0, <1>1, <1>2 DEF q
  <2>2. left - 1 # 0 => Place(at + 1, left - 1, n) = f
    BY <1>0, <1>1 DEF Place
  <2>3. g = "READY" => left = 0
    BY DEF Stm32Fine
  <2> QED
    BY <2>1, <2>2, <2>3 DEF Stm32Fine, n, k
<1> QED
  BY <1>5, <1>8, <1>9

(* The held bytes are the ones the model names. *)
LEMMA Stm32Shows ==
  ASSUME NEW tbuf, NEW w, NEW f, NEW g, NEW at, NEW left, Stm32Fine(tbuf, w, f, g, at, left),
         tx = Stm32State(tbuf, w, f, g, at, left)
  PROVE  Stm32!InTx = Stm32Held(tbuf, w, f, at, left)
<1> DEFINE n == RingSize
           h == First(f, at, left)
           k == Gap(w, f, n)
<1>0. n \in Nat \ {0} /\ w \in 0 .. n - 1 /\ f \in 0 .. n - 1
  BY TransportSizes DEF Stm32Fine, Indexed
<1>1. Ring(tbuf, h, left + k, n) /\ (h + left) % n = f /\ k \in 0 .. n - 1 /\ left \in Nat
  BY Stm32Ring
<1>2. (w + n - f) % n = k
  BY <1>0, Gaps
<1>3. /\ at \in 0 .. n /\ left \in 0 .. n /\ (left # 0 => at + left <= n)
  BY DEF Stm32Fine
<1>4. Stm32!Queued(tx) = k
  BY <1>2 DEF Stm32!Queued, Stm32State
<1>5. InRing(tbuf, h, left + k, n) = InRing(tbuf, h, left, n) \o InRing(tbuf, f, k, n)
  <2>1. k \in Nat
    BY <1>0, <1>1
  <2> HIDE DEF n, h, k
  <2> QED
    BY <1>1, <2>1, RingSplit
<1>6. [i \in 1 .. left |-> tbuf[at + i - 1]] = InRing(tbuf, h, left, n)
  <2>1. ASSUME NEW i \in 1 .. left PROVE at + i - 1 = (h + i - 1) % n
    <3> HIDE DEF n
    <3> DEFINE j == i - 1
    <3>1. h = at /\ h \in 0 .. n - 1 /\ j \in 0 .. n /\ at + j < n
      BY <1>0, <1>3 DEF First
    <3> HIDE DEF h, j
    <3>2. (h + j) % n = Place(h, j, n)
      BY <1>0, <3>1, Places
    <3>3. Place(h, j, n) = at + j
      BY <3>1 DEF Place
    <3>4. at + i - 1 = at + j /\ h + i - 1 = h + j
      BY <1>0, <1>3, <3>1 DEF j
    <3> QED
      BY <3>2, <3>3, <3>4
  <2> HIDE DEF h, n
  <2> QED
    BY <2>1 DEF InRing
<1>7. Stm32!InTx = [i \in 1 .. left |-> tbuf[at + i - 1]]
                     \o [i \in 1 .. k |-> tbuf[(f + i - 1) % n]]
  <2>1. tx.left = left /\ tx.at = at /\ tx.tbuf = tbuf /\ tx.tfind = f
    BY DEF Stm32State
  <2> HIDE DEF k
  <2> QED
    BY <1>4, <2>1 DEF Stm32!InTx
<1>8. [i \in 1 .. k |-> tbuf[(f + i - 1) % n]] = InRing(tbuf, f, k, n)
  BY DEF InRing
<1> QED
  BY <1>5, <1>6, <1>7, <1>8 DEF Stm32Held

LEMMA Stm32Step ==
  ASSUME Stm32Inv, Stm32!Next
  PROVE  Stm32Inv'
<1> USE DEF Stm32Inv, Counts
<1>1. ASSUME NEW length \in 1 .. MaxWrite, Stm32!write(length) PROVE Stm32Inv'
  <2> DEFINE n == IF length <= RingSize THEN length ELSE RingSize
             data == Stm32!Data(length)
             stored == [tx EXCEPT !.tbuf = Filled(@, tx.twind, n, data, RingSize),
                                  !.twind = (@ + n) % RingSize]
  <2>1. /\ written' = written + length /\ UNCHANGED <<wire, arrived, got, rx>>
        /\ tx' = Stm32!flush(stored)
        /\ excuse' = IF \/ length > RingSize
                        \/ Stm32!Queued(tx) + n = RingSize
                        \/ tx.left + Stm32!Queued(tx) + n > RingSize
                       THEN excuse \cup {"tx"} ELSE excuse
    BY <1>1 DEF Stm32!write, Stm32!Excused, Filled
  <2>2. length \in Nat
    BY TransportSizes
  <2>3. Counts' /\ Stm32Rx'
    BY <2>1, <2>2 DEF Stm32Rx
  <2>4. ASSUME "tx" \notin excuse' PROVE Stm32Tx'
    <3>1. /\ "tx" \notin excuse /\ ~(length > RingSize)
          /\ Stm32!Queued(tx) + n # RingSize
          /\ ~(tx.left + Stm32!Queued(tx) + n > RingSize)
      BY <2>1, <2>4
    <3>2. n = length
      BY <2>2, <3>1, TransportSizes
    <3> HIDE DEF n
    <3>3. PICK tbuf, w, f, g, at, left :
            /\ tx = Stm32State(tbuf, w, f, g, at, left)
            /\ Stm32Fine(tbuf, w, f, g, at, left)
            /\ Stream(wire, Stm32Held(tbuf, w, f, at, left), written)
      BY <3>1 DEF Stm32Tx
    <3> DEFINE k == Gap(w, f, RingSize)
    <3>4. /\ tx.tbuf = tbuf /\ tx.twind = w /\ tx.tfind = f /\ tx.left = left
      BY <3>3 DEF Stm32State
    <3>5. Stm32!Queued(tx) = k
      <4>1. RingSize \in Nat \ {0} /\ w \in 0 .. RingSize - 1 /\ f \in 0 .. RingSize - 1
        BY <3>3, TransportSizes DEF Stm32Fine, Indexed
      <4>2. (w + RingSize - f) % RingSize = k
        BY <4>1, Gaps
      <4> QED
        BY <3>4, <4>2 DEF Stm32!Queued
    <3>6. data = Run(written, length) /\ data \in Seq(Nat) /\ Len(data) = length
      BY <2>2, WholeRun DEF Run, Stm32!Data
    <3> HIDE DEF data
    <3> DEFINE filled == Filled(tbuf, w, length, data, RingSize)
               w2 == (w + length) % RingSize
    <3>7. /\ Stm32Fine(filled, w2, f, g, at, left)
          /\ Stm32Held(filled, w2, f, at, left) = Stm32Held(tbuf, w, f, at, left) \o data
      <4>1. k \in 0 .. RingSize - 1 /\ left \in Nat
        BY <3>3, Stm32Ring
      <4>2. k + length # RingSize /\ left + k + length <= RingSize
        <5> HIDE DEF k
        <5> QED
          BY <2>2, <3>1, <3>2, <3>4, <3>5, <4>1, TransportSizes
      <4> QED
        BY <2>2, <3>3, <3>6, <4>2, Stm32Stores
    <3>8. stored = Stm32State(filled, w2, f, g, at, left)
      <4> HIDE DEF filled, w2
      <4>1. stored = [tx EXCEPT !.tbuf = filled, !.twind = w2]
        BY <3>2, <3>3, <3>4 DEF Stm32State, filled, w2
      <4> HIDE DEF stored
      <4> QED
        BY <3>3, <4>1 DEF Stm32State
    <3>9. Stream(wire, Stm32Held(filled, w2, f, at, left), written + length)
      BY <2>2, <3>3, <3>6, <3>7, StreamGrows
    <3> HIDE DEF stored, filled, w2
    <3>10. \E b, i, j, s, a, l :
             /\ tx' = Stm32State(b, i, j, s, a, l)
             /\ Stm32Fine(b, i, j, s, a, l)
             /\ Stream(wire, Stm32Held(b, i, j, a, l), written + length)
      <4>1. /\ stored.gState = g /\ stored.twind = w2 /\ stored.tfind = f
        BY <3>8 DEF Stm32State
      <4>2. CASE ~(g = "READY" /\ w2 # f)
        <5>1. tx' = stored
          BY <2>1, <4>1, <4>2 DEF Stm32!flush
        <5> QED
          BY <3>7, <3>8, <3>9, <5>1
      <4>3. CASE g = "READY" /\ w2 # f
        <5> DEFINE m == IF f < w2 THEN w2 - f ELSE RingSize - f
                   f2 == (f + m) % RingSize
        <5>1. tx' = [stored EXCEPT !.gState = "BUSY", !.at = f, !.left = m, !.tfind = f2]
          BY <2>1, <4>1, <4>3 DEF Stm32!flush
        <5>2. /\ Stm32Fine(filled, w2, f2, "BUSY", f, m)
              /\ Stm32Held(filled, w2, f2, f, m) = Stm32Held(filled, w2, f, at, left)
          BY <3>7, <4>3, Stm32Flushes
        <5> HIDE DEF m, f2
        <5>3. tx' = Stm32State(filled, w2, f2, "BUSY", f, m)
          BY <3>8, <5>1 DEF Stm32State
        <5> QED
          BY <3>9, <5>2, <5>3
      <4> QED
        BY <4>2, <4>3
    <3> QED
      BY <2>1, <3>10 DEF Stm32Tx
  <2> QED
    BY <2>3, <2>4 DEF Stm32Tx
<1>2. ASSUME Stm32!DmaSends PROVE Stm32Inv'
  <2>1. /\ UNCHANGED <<written, arrived, got, rx, excuse>> /\ tx.left > 0
        /\ wire' = IF "tx" \in excuse THEN wire ELSE wire \o <<tx.tbuf[tx.at]>>
        /\ tx' = [tx EXCEPT !.at = @ + 1, !.left = @ - 1]
    BY <1>2 DEF Stm32!DmaSends, Stm32!Sent
  <2>2. Counts' /\ Stm32Rx'
    BY <2>1 DEF Stm32Rx
  <2>3. ASSUME "tx" \notin excuse PROVE Stm32Tx'
    <3>1. PICK tbuf, w, f, g, at, left :
            /\ tx = Stm32State(tbuf, w, f, g, at, left)
            /\ Stm32Fine(tbuf, w, f, g, at, left)
            /\ Stream(wire, Stm32Held(tbuf, w, f, at, left), written)
      BY <2>3 DEF Stm32Tx
    <3>2. tx.tbuf = tbuf /\ tx.at = at /\ tx.left = left
      BY <3>1 DEF Stm32State
    <3>3. left # 0
      BY <2>1, <3>2
    <3>4. /\ Stm32Fine(tbuf, w, f, g, at + 1, left - 1)
          /\ Stream(wire \o <<tbuf[at]>>, Stm32Held(tbuf, w, f, at + 1, left - 1), written)
      BY <3>1, <3>3, Stm32Sends
    <3> DEFINE a == at + 1
               l == left - 1
    <3>5. tx' = Stm32State(tbuf, w, f, g, a, l)
      BY <2>1, <3>1 DEF Stm32State
    <3>6. wire' = wire \o <<tbuf[at]>>
      BY <2>1, <2>3, <3>2
    <3>7. Stm32Fine(tbuf, w, f, g, a, l) /\ Stream(wire', Stm32Held(tbuf, w, f, a, l), written)
      BY <3>4, <3>6
    <3> HIDE DEF a, l
    <3>8. \E b, i, j, s, p, q :
             /\ tx' = Stm32State(b, i, j, s, p, q)
             /\ Stm32Fine(b, i, j, s, p, q)
             /\ Stream(wire', Stm32Held(b, i, j, p, q), written)
      BY <3>5, <3>7
    <3> QED
      BY <2>1, <3>8 DEF Stm32Tx
  <2> QED
    BY <2>1, <2>2, <2>3 DEF Stm32Tx
<1>3. ASSUME Stm32!TransferComplete PROVE Stm32Inv'
  <2>1. /\ UNCHANGED <<written, wire, arrived, got, rx, excuse>> /\ tx.left = 0
        /\ tx' = [tx EXCEPT !.gState = "READY"]
    BY <1>3 DEF Stm32!TransferComplete
  <2>2. Counts' /\ Stm32Rx'
    BY <2>1 DEF Stm32Rx
  <2>3. ASSUME "tx" \notin excuse PROVE Stm32Tx'
    <3>1. PICK tbuf, w, f, g, at, left :
            /\ tx = Stm32State(tbuf, w, f, g, at, left)
            /\ Stm32Fine(tbuf, w, f, g, at, left)
            /\ Stream(wire, Stm32Held(tbuf, w, f, at, left), written)
      BY <2>3 DEF Stm32Tx
    <3>2. tx.left = left /\ left = 0
      BY <2>1, <3>1 DEF Stm32State
    <3>3. Stm32Fine(tbuf, w, f, "READY", at, left)
      BY <3>1, <3>2 DEF Stm32Fine
    <3>4. tx' = Stm32State(tbuf, w, f, "READY", at, left)
      BY <2>1, <3>1 DEF Stm32State
    <3>5. \E b, i, j, s, p, q :
             /\ tx' = Stm32State(b, i, j, s, p, q)
             /\ Stm32Fine(b, i, j, s, p, q)
             /\ Stream(wire, Stm32Held(b, i, j, p, q), written)
      BY <3>1, <3>3, <3>4
    <3> QED
      BY <2>1, <3>5 DEF Stm32Tx
  <2> QED
    BY <2>1, <2>2, <2>3 DEF Stm32Tx
<1>4. ASSUME Stm32!DmaReceives PROVE Stm32Inv'
  <2>1. /\ UNCHANGED <<written, wire, got, tx>> /\ arrived' = arrived + 1
        /\ rx' = [rx EXCEPT !.rbuf[rx.ind] = arrived + 1, !.ind = (@ + 1) % RingSize]
        /\ excuse' = IF Stm32!Unread(rx) = RingSize - 1 THEN excuse \cup {"rx"} ELSE excuse
    BY <1>4 DEF Stm32!DmaReceives, Stm32!Excused
  <2>2. Counts' /\ Stm32Tx'
    BY <2>1 DEF Stm32Tx
  <2>3. ASSUME "rx" \notin excuse' PROVE Stm32Rx'
    <3>1. "rx" \notin excuse /\ Stm32!Unread(rx) # RingSize - 1
      BY <2>1, <2>3
    <3>2. PICK rbuf, rind, ind :
            /\ rx = [rbuf |-> rbuf, rind |-> rind, ind |-> ind]
            /\ Indexed(rbuf, ind, rind, RingSize)
            /\ Stream(got, Between(rbuf, ind, rind, RingSize), arrived)
      BY <3>1 DEF Stm32Rx
    <3>3. Gap(ind, rind, RingSize) # RingSize - 1
      <4>1. RingSize \in Nat \ {0} /\ ind \in 0 .. RingSize - 1 /\ rind \in 0 .. RingSize - 1
        BY <3>2, TransportSizes DEF Indexed
      <4>2. (ind + RingSize - rind) % RingSize = Gap(ind, rind, RingSize)
        BY <4>1, Gaps
      <4> QED
        BY <3>1, <3>2, <4>2 DEF Stm32!Unread
    <3> DEFINE put == Put(rbuf, ind, arrived + 1)
               next == (ind + 1) % RingSize
    <3>4. /\ Indexed(put, next, rind, RingSize)
          /\ Stream(got, Between(put, next, rind, RingSize), arrived + 1)
      BY <3>2, <3>3, StreamEntersRing
    <3>5. rx' = [rbuf |-> put, rind |-> rind, ind |-> next]
      BY <2>1, <3>2 DEF Put
    <3> HIDE DEF put, next
    <3>6. \E b, r, w :
            /\ rx' = [rbuf |-> b, rind |-> r, ind |-> w]
            /\ Indexed(b, w, r, RingSize)
            /\ Stream(got, Between(b, w, r, RingSize), arrived + 1)
      BY <3>4, <3>5
    <3> QED
      BY <2>1, <3>6 DEF Stm32Rx
  <2> QED
    BY <2>2, <2>3 DEF Stm32Rx
<1>5. ASSUME Stm32!read PROVE Stm32Inv'
  <2>1. /\ UNCHANGED <<written, wire, arrived, tx, excuse>> /\ rx.rind # rx.ind
        /\ got' = IF "rx" \in excuse THEN got ELSE got \o <<rx.rbuf[rx.rind]>>
        /\ rx' = [rx EXCEPT !.rind = (@ + 1) % RingSize]
    BY <1>5 DEF Stm32!read, Stm32!Returned
  <2>2. Counts' /\ Stm32Tx'
    BY <2>1 DEF Stm32Tx
  <2>3. ASSUME "rx" \notin excuse PROVE Stm32Rx'
    <3>1. PICK rbuf, rind, ind :
            /\ rx = [rbuf |-> rbuf, rind |-> rind, ind |-> ind]
            /\ Indexed(rbuf, ind, rind, RingSize)
            /\ Stream(got, Between(rbuf, ind, rind, RingSize), arrived)
      BY <2>3 DEF Stm32Rx
    <3> DEFINE next == (rind + 1) % RingSize
    <3>2. /\ Indexed(rbuf, ind, next, RingSize)
          /\ Stream(got \o <<rbuf[rind]>>, Between(rbuf, ind, next, RingSize), arrived)
      BY <2>1, <3>1, StreamLeavesIndexed
    <3>3. rx' = [rbuf |-> rbuf, rind |-> next, ind |-> ind] /\ got' = got \o <<rbuf[rind]>>
      BY <2>1, <2>3, <3>1
    <3> HIDE DEF next
    <3>4. \E b, r, w :
            /\ rx' = [rbuf |-> b, rind |-> r, ind |-> w]
            /\ Indexed(b, w, r, RingSize)
            /\ Stream(got', Between(b, w, r, RingSize), arrived)
      BY <3>2, <3>3
    <3> QED
      BY <2>1, <3>4 DEF Stm32Rx
  <2> QED
    BY <2>1, <2>2, <2>3 DEF Stm32Rx
<1> QED
  BY <1>1, <1>2, <1>3, <1>4, <1>5 DEF Stm32!Next

-----------------------------------------------------------------------------
\* MbedHardware.  Both rings have a place less than their memory.  _wloc may
\* stand behind the last place between the two stores of put().
MbedSize == RingSize - 1
Wrapped(w) == IF w = MbedSize THEN 0 ELSE w
MbedFine(buf, w, r, fifo, pc, data) ==
  /\ Indexed(buf, Wrapped(w), r, MbedSize) /\ w \in 0 .. MbedSize
  /\ w = MbedSize => pc = "wrap"
  /\ fifo \in Seq(Nat) /\ Len(fifo) <= FifoSize /\ data \in Seq(Nat)
  /\ pc = "put" => data # <<>>
  /\ pc = "idle" => data = <<>>
MbedHeld(buf, w, r, fifo, data) == (fifo \o Between(buf, Wrapped(w), r, MbedSize)) \o data
MbedState(buf, w, r, fifo, attached, pc, data, bulk) ==
  [buf |-> buf, wloc |-> w, rloc |-> r, fifo |-> fifo, attached |-> attached,
   pc |-> pc, data |-> data, bulk |-> bulk]
MbedTx ==
  "tx" \notin excuse =>
    \E buf, w, r, fifo, attached, pc, data, bulk :
      /\ tx = MbedState(buf, w, r, fifo, attached, pc, data, bulk)
      /\ MbedFine(buf, w, r, fifo, pc, data)
      /\ Stream(wire, MbedHeld(buf, w, r, fifo, data), written)
MbedRx ==
  "rx" \notin excuse =>
    \E buf, w, r :
      /\ rx = [buf |-> buf, wloc |-> w, rloc |-> r]
      /\ Indexed(buf, w, r, MbedSize)
      /\ Stream(got, Between(buf, w, r, MbedSize), arrived)
MbedInv == Counts /\ MbedTx /\ MbedRx

LEMMA MbedSizes == MbedSize \in Nat \ {0} /\ Mbed!Wrap = MbedSize
  BY TransportSizes DEF MbedSize, Mbed!Wrap

LEMMA BetweenType ==
  ASSUME NEW n, NEW w, NEW r, NEW buf, Indexed(buf, w, r, n)
  PROVE  Between(buf, w, r, n) \in Seq(Nat) /\ Gap(w, r, n) \in 0 .. n - 1
<1> DEFINE k == Gap(w, r, n)
<1>1. n \in Nat \ {0} /\ w \in 0 .. n - 1 /\ r \in 0 .. n - 1 /\ IsRing(buf, n)
  BY DEF Indexed, IsRing
<1>2. k \in 0 .. n - 1
  BY <1>1, Gaps
<1> HIDE DEF k
<1>3. Ring(buf, r, k, n)
  BY <1>1, <1>2 DEF Ring
<1>4. InRing(buf, r, k, n) \in Seq(Nat)
  BY <1>3, InRingType
<1> QED
  BY <1>2, <1>4 DEF k, Between

LEMMA MbedUsed ==
  ASSUME NEW w \in 0 .. MbedSize, NEW r \in 0 .. MbedSize - 1
  PROVE  (w + MbedSize - r) % MbedSize = Gap(Wrapped(w), r, MbedSize)
<1> DEFINE n == MbedSize
<1>0. n \in Nat \ {0}
  BY MbedSizes
<1>1. CASE w = n
  <2> DEFINE x == n + n - r
  <2> HIDE DEF n
  <2>1. x \in Nat /\ x <= n + n
    BY <1>0 DEF n
  <2>2. x % n = (IF x < n THEN x ELSE IF x < n + n THEN x - n ELSE 0)
    <3> HIDE DEF x
    <3> QED
      BY <1>0, <2>1, RemainderOf
  <2>3. (IF x < n THEN x ELSE IF x < n + n THEN x - n ELSE 0) = Gap(0, r, n)
    BY <1>0 DEF Gap, n
  <2> QED
    BY <1>1, <2>2, <2>3 DEF Wrapped, n
<1>2. CASE w # n
  <2>1. w \in 0 .. n - 1 /\ r \in 0 .. n - 1
    BY <1>0, <1>2
  <2> HIDE DEF n
  <2>2. (w + n - r) % n = Gap(w, r, n)
    BY <1>0, <2>1, Gaps
  <2> QED
    BY <1>2, <2>2 DEF Wrapped, n
<1> QED
  BY <1>1, <1>2

(* write() begins. *)
LEMMA MbedBegins ==
  ASSUME NEW buf, NEW w, NEW r, NEW fifo, NEW pc, NEW data, NEW new,
         MbedFine(buf, w, r, fifo, pc, data), pc = "idle", new \in Seq(Nat), new # <<>>
  PROVE  /\ MbedFine(buf, w, r, fifo, "put", new)
         /\ MbedHeld(buf, w, r, fifo, new) = MbedHeld(buf, w, r, fifo, data) \o new
<1> DEFINE inside == Between(buf, Wrapped(w), r, MbedSize)
<1>1. inside \in Seq(Nat) /\ fifo \in Seq(Nat) /\ data = <<>> /\ w # MbedSize
  BY BetweenType DEF MbedFine
<1> HIDE DEF inside
<1>2. fifo \o inside \in Seq(Nat)
  BY <1>1, ConcatProperties
<1>3. (fifo \o inside) \o <<>> = fifo \o inside
  BY <1>2, NothingBehind
<1>5. MbedFine(buf, w, r, fifo, "put", new)
  BY <1>1 DEF MbedFine
<1> QED
  BY <1>1, <1>3, <1>5 DEF MbedHeld, inside

(* The first store of put(). *)
LEMMA MbedStores ==
  ASSUME NEW buf, NEW w, NEW r, NEW fifo, NEW data, MbedFine(buf, w, r, fifo, "put", data),
         Gap(Wrapped(w), r, MbedSize) # MbedSize - 1
  PROVE  /\ MbedFine(Put(buf, w, Head(data)), w + 1, r, fifo, "wrap", Tail(data))
         /\ MbedHeld(Put(buf, w, Head(data)), w + 1, r, fifo, Tail(data))
              = MbedHeld(buf, w, r, fifo, data)
<1> DEFINE n == MbedSize
           c == Head(data)
           rest == Tail(data)
           put == Put(buf, w, c)
           next == (w + 1) % n
           old == Between(buf, w, r, n)
           new == Between(put, next, r, n)
<1>0. n \in Nat \ {0} /\ w \in 0 .. n /\ w # n /\ w \in 0 .. n - 1 /\ Wrapped(w) = w
  BY MbedSizes DEF MbedFine, Wrapped
<1>1. /\ Indexed(buf, w, r, n) /\ Gap(w, r, n) # n - 1
      /\ fifo \in Seq(Nat) /\ Len(fifo) <= FifoSize /\ data \in Seq(Nat) /\ data # <<>>
  BY <1>0 DEF MbedFine
<1>2. c \in Nat /\ rest \in Seq(Nat)
  BY <1>1, Lengths
<1>3. data = <<c>> \o rest
  <2>1. <<>> \in Seq(Nat)
    OBVIOUS
  <2> QED
    BY <1>1, <2>1, Leaves
<1> HIDE DEF n, c, rest
<1>4. Indexed(put, next, r, n) /\ new = old \o <<c>>
  BY <1>1, <1>2, RingStores
<1>5. Wrapped(w + 1) = next
  <2>1. 1 \in 0 .. n /\ \A i \in 0 .. n : (w + i) % n = Place(w, i, n)
    BY <1>0, Places
  <2>2. next = Place(w, 1, n)
    BY <2>1
  <2>3. Place(w, 1, n) = IF w + 1 = n THEN 0 ELSE w + 1
    BY <1>0 DEF Place
  <2> HIDE DEF next
  <2> QED
    BY <2>2, <2>3 DEF Wrapped, n
<1>6. old \in Seq(Nat) /\ new \in Seq(Nat)
  BY <1>1, <1>4, BetweenType
<1> HIDE DEF put, next
<1>7. MbedFine(put, w + 1, r, fifo, "wrap", rest)
  <2>1. w + 1 \in 0 .. n
    BY <1>0
  <2> QED
    BY <1>1, <1>2, <1>4, <1>5, <2>1 DEF MbedFine, n
<1> HIDE DEF old, new
<1>8. (fifo \o new) \o rest = (fifo \o old) \o data
  <2>1. <<c>> \in Seq(Nat)
    BY <1>2
  <2> DEFINE one == <<c>>
  <2> HIDE DEF one
  <2>2. one \in Seq(Nat) /\ new = old \o one /\ data = one \o rest
    BY <1>3, <1>4, <2>1 DEF one
  <2>3. fifo \o old \in Seq(Nat)
    BY <1>1, <1>6, ConcatProperties
  <2>4. fifo \o new = (fifo \o old) \o one
    <3>1. fifo \in Seq(Nat) /\ old \in Seq(Nat) /\ one \in Seq(Nat) /\ new = old \o one
      BY <1>1, <1>6, <2>2
    <3>2. (fifo \o old) \o one = fifo \o (old \o one)
      BY <3>1, Regrouped
    <3> QED
      BY <3>1, <3>2
  <2>5. ((fifo \o old) \o one) \o rest = (fifo \o old) \o (one \o rest)
    BY <1>2, <2>2, <2>3, Regrouped
  <2> QED
    BY <2>2, <2>4, <2>5
<1> QED
  BY <1>0, <1>5, <1>7, <1>8 DEF MbedHeld, n, c, rest, put, next, old, new

(* txIrq() hands over m bytes, which are in the ring. *)
LEMMA MbedHandsOver ==
  ASSUME NEW buf, NEW w, NEW r, NEW fifo, NEW pc, NEW data, MbedFine(buf, w, r, fifo, pc, data),
         NEW m \in Nat, m <= Gap(Wrapped(w), r, MbedSize), Len(fifo) + m <= FifoSize
  PROVE  LET more == fifo \o InRing(buf, r, m, MbedSize)
             next == (r + m) % MbedSize
         IN  /\ MbedFine(buf, w, next, more, pc, data)
             /\ MbedHeld(buf, w, next, more, data) = MbedHeld(buf, w, r, fifo, data)
<1> DEFINE n == MbedSize
           v == Wrapped(w)
           k == Gap(v, r, n)
           l == k - m
           next == (r + m) % n
           first == InRing(buf, r, m, n)
           rest == InRing(buf, next, l, n)
<1>0. n \in Nat \ {0} /\ v \in 0 .. n - 1 /\ r \in 0 .. n - 1 /\ IsRing(buf, n) /\ m <= k
  BY MbedSizes DEF MbedFine, Indexed
<1> HIDE DEF v
<1>1. k \in 0 .. n - 1
  BY <1>0, Gaps
<1>2. next \in 0 .. n - 1 /\ Gap(v, next, n) = l
  <2> HIDE DEF n
  <2> QED
    BY <1>0, GapShrinks
<1> HIDE DEF k
<1>3. l \in Nat /\ m + l = k
  BY <1>0, <1>1
<1> HIDE DEF l
<1>4. Ring(buf, r, m + l, n) /\ Ring(buf, r, m, n)
  BY <1>0, <1>1, <1>3 DEF Ring
<1>5. /\ first \in Seq(Nat) /\ rest \in Seq(Nat)
      /\ InRing(buf, r, m + l, n) = first \o rest
  BY <1>3, <1>4, RingSplit
<1>6. Len(first) = m
  BY <1>4, InRingType
<1> HIDE DEF first, rest, next
<1>7. Between(buf, v, r, n) = first \o rest /\ Between(buf, v, next, n) = rest
  BY <1>2, <1>3, <1>5 DEF Between, k, rest
<1>8. /\ fifo \in Seq(Nat) /\ fifo \o first \in Seq(Nat) /\ Len(fifo \o first) = Len(fifo) + m
      /\ (fifo \o first) \o rest = fifo \o (first \o rest)
  <2>1. fifo \in Seq(Nat)
    BY DEF MbedFine
  <2>2. fifo \o first \in Seq(Nat) /\ Len(fifo \o first) = Len(fifo) + Len(first)
    BY <1>5, <2>1, ConcatProperties
  <2>3. (fifo \o first) \o rest = fifo \o (first \o rest)
    BY <1>5, <2>1, Regrouped
  <2> QED
    BY <1>6, <2>1, <2>2, <2>3
<1>9. MbedFine(buf, w, next, fifo \o first, pc, data)
  <2>1. Indexed(buf, v, next, n)
    BY <1>0, <1>2 DEF Indexed
  <2> DEFINE more == fifo \o first
  <2>2. more \in Seq(Nat) /\ Len(more) <= FifoSize
    BY <1>8
  <2> HIDE DEF more
  <2>3. MbedFine(buf, w, next, more, pc, data)
    BY <2>1, <2>2 DEF MbedFine, v, n
  <2> QED
    BY <2>3 DEF more
<1> QED
  BY <1>7, <1>8, <1>9 DEF MbedHeld, v, n, next, first

(* The loop of txIrq(), when the ring has not run past its last place or   *)
(* holds enough.                                                           *)
LEMMA MbedIrq ==
  ASSUME NEW buf, NEW w, NEW r, NEW fifo, NEW attached, NEW pc, NEW data, NEW bulk, NEW t,
         MbedFine(buf, w, r, fifo, pc, data),
         t = MbedState(buf, w, r, fifo, attached, pc, data, bulk),
         ~(w = MbedSize /\ FifoSize - Len(fifo) > Gap(Wrapped(w), r, MbedSize))
  PROVE  \E next, more, a :
           /\ Mbed!txIrq(t) = MbedState(buf, w, next, more, a, pc, data, bulk)
           /\ MbedFine(buf, w, next, more, pc, data)
           /\ MbedHeld(buf, w, next, more, data) = MbedHeld(buf, w, r, fifo, data)
<1> DEFINE s == MbedSize
           k == Gap(Wrapped(w), r, s)
           room == FifoSize - Len(fifo)
           n == IF w = s \/ room <= k THEN room ELSE k
           more == fifo \o InRing(buf, r, n, s)
           next == (r + n) % s
           a == attached /\ n = room
<1>0. w \in 0 .. s /\ r \in 0 .. s - 1
  BY MbedSizes DEF MbedFine, Indexed
<1>1. Mbed!Used(t) = k
  <2>1. t.wloc = w /\ t.rloc = r
    BY DEF MbedState
  <2>2. (w + s - r) % s = k
    BY <1>0, MbedUsed
  <2> QED
    BY <2>1, <2>2, MbedSizes DEF Mbed!Used
<1>2. k \in 0 .. s - 1
  BY BetweenType DEF MbedFine
<1>3. n \in Nat /\ n <= k /\ Len(fifo) + n <= FifoSize
  <2>1. Len(fifo) \in Nat /\ Len(fifo) <= FifoSize
    BY DEF MbedFine
  <2> HIDE DEF k
  <2>2. s \in Nat \ {0} /\ ~(w = s /\ room > k)
    BY MbedSizes DEF k
  <2> HIDE DEF s
  <2> QED
    BY <1>2, <2>1, <2>2, HardwareSizes
<1>4. Mbed!txIrq(t) = [t EXCEPT !.fifo = more, !.rloc = next, !.attached = a]
  <2>1. t.wloc = w /\ t.rloc = r /\ t.fifo = fifo /\ t.attached = attached /\ t.buf = buf
    BY DEF MbedState
  <2> HIDE DEF k
  <2>2. Mbed!txIrq(t) = [t EXCEPT !.fifo = @ \o [i \in 1 .. n |-> t.buf[(t.rloc + i - 1) % s]],
                                  !.rloc = (@ + n) % s, !.attached = @ /\ n = room]
    BY <1>1, <2>1, MbedSizes DEF Mbed!txIrq
  <2>3. [i \in 1 .. n |-> t.buf[(t.rloc + i - 1) % s]] = InRing(buf, r, n, s)
    BY <2>1 DEF InRing
  <2> HIDE DEF n, room
  <2> QED
    BY <2>1, <2>2, <2>3 DEF MbedState
<1> HIDE DEF n
<1>5. /\ MbedFine(buf, w, next, more, pc, data)
      /\ MbedHeld(buf, w, next, more, data) = MbedHeld(buf, w, r, fifo, data)
  BY <1>3, MbedHandsOver
<1> HIDE DEF next, more, a
<1>6. Mbed!txIrq(t) = MbedState(buf, w, next, more, a, pc, data, bulk)
  BY <1>4 DEF MbedState
<1> QED
  BY <1>5, <1>6

LEMMA MbedStep ==
  ASSUME MbedInv, Mbed!Next
  PROVE  MbedInv'
<1> USE DEF MbedInv, Counts
<1>1. ASSUME NEW length \in 1 .. MaxWrite, NEW long, Mbed!Begin(length, long) PROVE MbedInv'
  <2> DEFINE new == Mbed!Data(length)
  <2>1. /\ written' = written + length /\ UNCHANGED <<wire, arrived, got, rx, excuse>>
        /\ tx.pc = "idle" /\ tx' = [tx EXCEPT !.pc = "put", !.data = new, !.bulk = long]
    BY <1>1 DEF Mbed!Begin
  <2>2. length \in Nat /\ length >= 1
    BY TransportSizes
  <2>3. Counts' /\ MbedRx'
    BY <2>1, <2>2 DEF MbedRx
  <2>4. ASSUME "tx" \notin excuse PROVE MbedTx'
    <3>1. PICK buf, w, r, fifo, attached, pc, data, bulk :
            /\ tx = MbedState(buf, w, r, fifo, attached, pc, data, bulk)
            /\ MbedFine(buf, w, r, fifo, pc, data)
            /\ Stream(wire, MbedHeld(buf, w, r, fifo, data), written)
      BY <2>4 DEF MbedTx
    <3>2. pc = "idle"
      BY <2>1, <3>1 DEF MbedState
    <3>3. new = Run(written, length) /\ new \in Seq(Nat) /\ Len(new) = length
      BY <2>2, WholeRun DEF Run, Mbed!Data
    <3> HIDE DEF new
    <3>4. /\ MbedFine(buf, w, r, fifo, "put", new)
          /\ MbedHeld(buf, w, r, fifo, new) = MbedHeld(buf, w, r, fifo, data) \o new
      <4>1. new # <<>>
        BY <2>2, <3>3
      <4>2. /\ MbedFine(buf, w, r, fifo, pc, data) /\ pc = "idle"
            /\ new \in Seq(Nat) /\ new # <<>>
        BY <3>1, <3>2, <3>3, <4>1
      <4> QED
        BY <4>2, MbedBegins
    <3>5. Stream(wire, MbedHeld(buf, w, r, fifo, new), written + length)
      BY <2>2, <3>1, <3>3, <3>4, StreamGrows
    <3>6. tx' = MbedState(buf, w, r, fifo, attached, "put", new, long)
      BY <2>1, <3>1 DEF MbedState
    <3>7. \E b, i, j, f, a, p, d, l :
            /\ tx' = MbedState(b, i, j, f, a, p, d, l)
            /\ MbedFine(b, i, j, f, p, d)
            /\ Stream(wire, MbedHeld(b, i, j, f, d), written + length)
      BY <3>4, <3>5, <3>6
    <3> QED
      BY <2>1, <3>7 DEF MbedTx
  <2> QED
    BY <2>1, <2>3, <2>4 DEF MbedTx
<1>2. ASSUME Mbed!store PROVE MbedInv'
  <2>1. /\ UNCHANGED <<written, wire, arrived, got, rx>> /\ tx.pc = "put"
        /\ tx' = [tx EXCEPT !.buf[tx.wloc] = Head(tx.data), !.wloc = @ + 1,
                            !.data = Tail(@), !.pc = "wrap"]
        /\ excuse' = IF Mbed!Used(tx) = Mbed!Wrap - 1 THEN excuse \cup {"tx"} ELSE excuse
    BY <1>2 DEF Mbed!store, Mbed!Excused
  <2>2. Counts' /\ MbedRx'
    BY <2>1 DEF MbedRx
  <2>3. ASSUME "tx" \notin excuse' PROVE MbedTx'
    <3>1. "tx" \notin excuse /\ Mbed!Used(tx) # MbedSize - 1
      BY <2>1, <2>3, MbedSizes
    <3>2. PICK buf, w, r, fifo, attached, pc, data, bulk :
            /\ tx = MbedState(buf, w, r, fifo, attached, pc, data, bulk)
            /\ MbedFine(buf, w, r, fifo, pc, data)
            /\ Stream(wire, MbedHeld(buf, w, r, fifo, data), written)
      BY <3>1 DEF MbedTx
    <3>3. pc = "put" /\ tx.wloc = w /\ tx.rloc = r /\ tx.data = data /\ tx.buf = buf
      BY <2>1, <3>2 DEF MbedState
    <3>4. Mbed!Used(tx) = Gap(Wrapped(w), r, MbedSize)
      <4>1. w \in 0 .. MbedSize /\ r \in 0 .. MbedSize - 1
        BY <3>2 DEF MbedFine, Indexed
      <4>2. (w + MbedSize - r) % MbedSize = Gap(Wrapped(w), r, MbedSize)
        BY <4>1, MbedUsed
      <4> QED
        BY <3>3, <4>2, MbedSizes DEF Mbed!Used
    <3> DEFINE put == Put(buf, w, Head(data))
               next == w + 1
               rest == Tail(data)
    <3>5. /\ MbedFine(put, next, r, fifo, "wrap", rest)
          /\ MbedHeld(put, next, r, fifo, rest) = MbedHeld(buf, w, r, fifo, data)
      BY <3>1, <3>2, <3>3, <3>4, MbedStores
    <3>6. tx' = [tx EXCEPT !.buf = put, !.wloc = next, !.data = rest, !.pc = "wrap"]
      BY <2>1, <3>2, <3>3 DEF MbedState, Put
    <3> HIDE DEF put, next, rest
    <3>7. tx' = MbedState(put, next, r, fifo, attached, "wrap", rest, bulk)
      BY <3>2, <3>6 DEF MbedState
    <3>8. \E b, i, j, f, a, p, d, l :
            /\ tx' = MbedState(b, i, j, f, a, p, d, l)
            /\ MbedFine(b, i, j, f, p, d)
            /\ Stream(wire, MbedHeld(b, i, j, f, d), written)
      BY <3>2, <3>5, <3>7
    <3> QED
      BY <2>1, <3>8 DEF MbedTx
  <2> QED
    BY <2>2, <2>3 DEF MbedTx
<1>3. ASSUME Mbed!put_wraps PROVE MbedInv'
  <2>1. /\ UNCHANGED <<written, wire, arrived, got, rx, excuse>>
        /\ tx' = [tx EXCEPT !.wloc = @ % Mbed!Wrap,
                            !.pc = IF tx.bulk /\ tx.data # <<>> THEN "put" ELSE "prime"]
    BY <1>3 DEF Mbed!put_wraps
  <2>2. Counts' /\ MbedRx'
    BY <2>1 DEF MbedRx
  <2>3. ASSUME "tx" \notin excuse PROVE MbedTx'
    <3>1. PICK buf, w, r, fifo, attached, pc, data, bulk :
            /\ tx = MbedState(buf, w, r, fifo, attached, pc, data, bulk)
            /\ MbedFine(buf, w, r, fifo, pc, data)
            /\ Stream(wire, MbedHeld(buf, w, r, fifo, data), written)
      BY <2>3 DEF MbedTx
    <3> DEFINE next == w % MbedSize
               to == IF tx.bulk /\ tx.data # <<>> THEN "put" ELSE "prime"
    <3>2. next = Wrapped(w) /\ next \in 0 .. MbedSize - 1
      <4>1. w \in 0 .. MbedSize /\ w <= MbedSize + MbedSize
        BY <3>1, MbedSizes DEF MbedFine
      <4> DEFINE n == MbedSize
      <4>2. n \in Nat \ {0} /\ w \in Nat /\ w <= n + n /\ w <= n
        BY <4>1, MbedSizes
      <4> HIDE DEF n
      <4>3. w % n = (IF w < n THEN w ELSE IF w < n + n THEN w - n ELSE 0)
        BY <4>2, RemainderOf
      <4>4. w % n = (IF w = n THEN 0 ELSE w) /\ w % n \in 0 .. n - 1
        BY <4>2, <4>3
      <4> QED
        BY <4>4 DEF Wrapped, n
    <3>3. tx.data = data /\ tx.bulk = bulk
      BY <3>1 DEF MbedState
    <3>4. to \in {"put", "prime"} /\ (to = "put" => data # <<>>)
      BY <3>3
    <3>5. tx' = [tx EXCEPT !.wloc = next, !.pc = to]
      BY <2>1, <3>1, MbedSizes DEF MbedState
    <3> HIDE DEF next, to
    <3>6. tx' = MbedState(buf, next, r, fifo, attached, to, data, bulk)
      BY <3>1, <3>5 DEF MbedState
    <3>7. Wrapped(next) = Wrapped(w) /\ next # MbedSize /\ next \in 0 .. MbedSize
      <4>1. next # MbedSize /\ next \in 0 .. MbedSize
        BY <3>2, MbedSizes
      <4>2. Wrapped(next) = next
        BY <4>1 DEF Wrapped
      <4> QED
        BY <3>2, <4>1, <4>2
    <3>8. MbedFine(buf, next, r, fifo, to, data)
      BY <3>1, <3>4, <3>7 DEF MbedFine
    <3>9. MbedHeld(buf, next, r, fifo, data) = MbedHeld(buf, w, r, fifo, data)
      BY <3>7 DEF MbedHeld
    <3>10. \E b, i, j, f, a, p, d, l :
             /\ tx' = MbedState(b, i, j, f, a, p, d, l)
             /\ MbedFine(b, i, j, f, p, d)
             /\ Stream(wire, MbedHeld(b, i, j, f, d), written)
      BY <3>1, <3>6, <3>8, <3>9
    <3> QED
      BY <2>1, <3>10 DEF MbedTx
  <2> QED
    BY <2>1, <2>2, <2>3 DEF MbedTx
<1>4. ASSUME Mbed!prime PROVE MbedInv'
  <2> DEFINE no == FALSE
             yes == TRUE
             off == [tx EXCEPT !.attached = no]
             primed == IF Mbed!serial_writable(tx) THEN [Mbed!txIrq(off) EXCEPT !.attached = yes] ELSE tx
             to == IF tx.data = <<>> THEN "idle" ELSE "put"
  <2>1. /\ UNCHANGED <<written, wire, arrived, got, rx, excuse>> /\ tx.pc = "prime"
        /\ tx' = [primed EXCEPT !.pc = to]
    BY <1>4 DEF Mbed!prime
  <2> HIDE DEF no, yes
  <2>2. Counts' /\ MbedRx'
    BY <2>1 DEF MbedRx
  <2>3. ASSUME "tx" \notin excuse PROVE MbedTx'
    <3>1. PICK buf, w, r, fifo, attached, pc, data, bulk :
            /\ tx = MbedState(buf, w, r, fifo, attached, pc, data, bulk)
            /\ MbedFine(buf, w, r, fifo, pc, data)
            /\ Stream(wire, MbedHeld(buf, w, r, fifo, data), written)
      BY <2>3 DEF MbedTx
    <3>2. pc = "prime" /\ w # MbedSize /\ tx.data = data
      BY <2>1, <3>1 DEF MbedState, MbedFine
    <3>3. (to = "idle" => data = <<>>) /\ (to = "put" => data # <<>>)
      BY <3>2
    <3>4. off = MbedState(buf, w, r, fifo, no, pc, data, bulk)
      BY <3>1 DEF MbedState
    <3> HIDE DEF off, to
    <3>5. PICK next, more, a :
            /\ Mbed!txIrq(off) = MbedState(buf, w, next, more, a, pc, data, bulk)
            /\ MbedFine(buf, w, next, more, pc, data)
            /\ MbedHeld(buf, w, next, more, data) = MbedHeld(buf, w, r, fifo, data)
      <4>1. ~(w = MbedSize /\ FifoSize - Len(fifo) > Gap(Wrapped(w), r, MbedSize))
        BY <3>2
      <4> QED
        BY <3>1, <3>4, <4>1, MbedIrq
    <3>6. \E b, i, j, f, e, p, d, l :
            /\ tx' = MbedState(b, i, j, f, e, p, d, l)
            /\ MbedFine(b, i, j, f, p, d)
            /\ Stream(wire, MbedHeld(b, i, j, f, d), written)
      <4>1. CASE Mbed!serial_writable(tx)
        <5>1. tx' = MbedState(buf, w, next, more, yes, to, data, bulk)
          <6>1. primed = [Mbed!txIrq(off) EXCEPT !.attached = yes]
            BY <4>1
          <6> HIDE DEF primed
          <6>2. primed = MbedState(buf, w, next, more, yes, pc, data, bulk)
            BY <3>5, <6>1 DEF MbedState
          <6> QED
            BY <2>1, <6>2 DEF MbedState
        <5>2. MbedFine(buf, w, next, more, to, data)
          BY <3>2, <3>3, <3>5 DEF MbedFine
        <5> QED
          BY <3>1, <3>5, <5>1, <5>2
      <4>2. CASE ~Mbed!serial_writable(tx)
        <5>1. tx' = MbedState(buf, w, r, fifo, attached, to, data, bulk)
          BY <2>1, <3>1, <4>2 DEF MbedState
        <5>2. MbedFine(buf, w, r, fifo, to, data)
          BY <3>1, <3>2, <3>3 DEF MbedFine
        <5> QED
          BY <3>1, <5>1, <5>2
      <4> QED
        BY <4>1, <4>2
    <3> QED
      BY <2>1, <3>6 DEF MbedTx
  <2> QED
    BY <2>1, <2>2, <2>3 DEF MbedTx
<1>5. ASSUME Mbed!TxInterrupt PROVE MbedInv'
  <2>1. /\ UNCHANGED <<written, wire, arrived, got, rx>> /\ tx' = Mbed!txIrq(tx)
        /\ excuse' = IF tx.wloc = Mbed!Wrap /\ FifoSize - Len(tx.fifo) > Mbed!Used(tx)
                       THEN excuse \cup {"tx"} ELSE excuse
    BY <1>5 DEF Mbed!TxInterrupt, Mbed!Excused
  <2>2. Counts' /\ MbedRx'
    BY <2>1 DEF MbedRx
  <2>3. ASSUME "tx" \notin excuse' PROVE MbedTx'
    <3>1. "tx" \notin excuse /\ ~(tx.wloc = MbedSize /\ FifoSize - Len(tx.fifo) > Mbed!Used(tx))
      BY <2>1, <2>3, MbedSizes
    <3>2. PICK buf, w, r, fifo, attached, pc, data, bulk :
            /\ tx = MbedState(buf, w, r, fifo, attached, pc, data, bulk)
            /\ MbedFine(buf, w, r, fifo, pc, data)
            /\ Stream(wire, MbedHeld(buf, w, r, fifo, data), written)
      BY <3>1 DEF MbedTx
    <3>3. tx.wloc = w /\ tx.rloc = r /\ tx.fifo = fifo
      BY <3>2 DEF MbedState
    <3>4. Mbed!Used(tx) = Gap(Wrapped(w), r, MbedSize)
      <4>1. w \in 0 .. MbedSize /\ r \in 0 .. MbedSize - 1
        BY <3>2 DEF MbedFine, Indexed
      <4>2. (w + MbedSize - r) % MbedSize = Gap(Wrapped(w), r, MbedSize)
        BY <4>1, MbedUsed
      <4> QED
        BY <3>3, <4>2, MbedSizes DEF Mbed!Used
    <3>5. \E next, more, a :
            /\ Mbed!txIrq(tx) = MbedState(buf, w, next, more, a, pc, data, bulk)
            /\ MbedFine(buf, w, next, more, pc, data)
            /\ MbedHeld(buf, w, next, more, data) = MbedHeld(buf, w, r, fifo, data)
      BY <3>1, <3>2, <3>3, <3>4, MbedIrq
    <3>6. \E b, i, j, f, e, p, d, l :
            /\ tx' = MbedState(b, i, j, f, e, p, d, l)
            /\ MbedFine(b, i, j, f, p, d)
            /\ Stream(wire, MbedHeld(b, i, j, f, d), written)
      BY <2>1, <3>2, <3>5
    <3> QED
      BY <2>1, <3>6 DEF MbedTx
  <2> QED
    BY <2>2, <2>3 DEF MbedTx
<1>6. ASSUME Mbed!UartSends PROVE MbedInv'
  <2>1. /\ UNCHANGED <<written, arrived, got, rx, excuse>> /\ tx.fifo # <<>>
        /\ wire' = IF "tx" \in excuse THEN wire ELSE wire \o <<Head(tx.fifo)>>
        /\ tx' = [tx EXCEPT !.fifo = Tail(@)]
    BY <1>6 DEF Mbed!UartSends, Mbed!Sent
  <2>2. Counts' /\ MbedRx'
    BY <2>1 DEF MbedRx
  <2>3. ASSUME "tx" \notin excuse PROVE MbedTx'
    <3>1. PICK buf, w, r, fifo, attached, pc, data, bulk :
            /\ tx = MbedState(buf, w, r, fifo, attached, pc, data, bulk)
            /\ MbedFine(buf, w, r, fifo, pc, data)
            /\ Stream(wire, MbedHeld(buf, w, r, fifo, data), written)
      BY <2>3 DEF MbedTx
    <3>2. tx.fifo = fifo /\ fifo # <<>> /\ fifo \in Seq(Nat) /\ data \in Seq(Nat)
      BY <2>1, <3>1 DEF MbedState, MbedFine
    <3> DEFINE inside == Between(buf, Wrapped(w), r, MbedSize)
               behind == inside \o data
               rest == Tail(fifo)
    <3>3. inside \in Seq(Nat)
      BY <3>1, BetweenType DEF MbedFine
    <3>4. rest \in Seq(Nat) /\ Len(rest) = Len(fifo) - 1 /\ Len(fifo) \in Nat
      BY <3>2, Lengths
    <3> HIDE DEF inside, rest
    <3>5. behind \in Seq(Nat)
      BY <3>2, <3>3, ConcatProperties
    <3>6. (fifo \o inside) \o data = fifo \o behind /\ (rest \o inside) \o data = rest \o behind
      <4>1. (fifo \o inside) \o data = fifo \o behind
        BY <3>2, <3>3, Regrouped
      <4>2. (rest \o inside) \o data = rest \o behind
        BY <3>2, <3>3, <3>4, Regrouped
      <4> QED
        BY <4>1, <4>2
    <3> HIDE DEF behind
    <3>7. Stream(wire \o <<Head(fifo)>>, rest \o behind, written)
      <4>1. Stream(wire, fifo \o behind, written)
        BY <3>1, <3>6 DEF MbedHeld, inside
      <4> QED
        BY <3>2, <3>5, <4>1, StreamLeavesFirst DEF rest
    <3>8. Stream(wire', MbedHeld(buf, w, r, rest, data), written)
      BY <2>1, <2>3, <3>2, <3>6, <3>7 DEF MbedHeld, inside
    <3>9. MbedFine(buf, w, r, rest, pc, data)
      <4>1. Len(fifo) <= FifoSize
        BY <3>1 DEF MbedFine
      <4>2. Len(rest) <= FifoSize
        BY <3>4, <4>1, HardwareSizes
      <4> QED
        BY <3>1, <3>4, <4>2 DEF MbedFine
    <3>10. tx' = MbedState(buf, w, r, rest, attached, pc, data, bulk)
      BY <2>1, <3>1 DEF MbedState, rest
    <3>11. \E b, i, j, f, e, p, d, l :
             /\ tx' = MbedState(b, i, j, f, e, p, d, l)
             /\ MbedFine(b, i, j, f, p, d)
             /\ Stream(wire', MbedHeld(b, i, j, f, d), written)
      BY <3>8, <3>9, <3>10
    <3> QED
      BY <2>1, <3>11 DEF MbedTx
  <2> QED
    BY <2>1, <2>2, <2>3 DEF MbedTx
<1>7. ASSUME Mbed!rxIrq PROVE MbedInv'
  <2>1. /\ UNCHANGED <<written, wire, got, tx>> /\ arrived' = arrived + 1
        /\ rx' = [rx EXCEPT !.buf[rx.wloc] = arrived + 1, !.wloc = (@ + 1) % MbedSize]
        /\ excuse' = IF Mbed!Used(rx) = MbedSize - 1 THEN excuse \cup {"rx"} ELSE excuse
    BY <1>7, MbedSizes DEF Mbed!rxIrq, Mbed!put, Mbed!Excused
  <2>2. Counts' /\ MbedTx'
    BY <2>1 DEF MbedTx
  <2>3. ASSUME "rx" \notin excuse' PROVE MbedRx'
    <3>1. "rx" \notin excuse /\ Mbed!Used(rx) # MbedSize - 1
      BY <2>1, <2>3
    <3>2. PICK buf, w, r :
            /\ rx = [buf |-> buf, wloc |-> w, rloc |-> r]
            /\ Indexed(buf, w, r, MbedSize)
            /\ Stream(got, Between(buf, w, r, MbedSize), arrived)
      BY <3>1 DEF MbedRx
    <3>3. Gap(w, r, MbedSize) # MbedSize - 1
      <4>1. w \in 0 .. MbedSize - 1 /\ r \in 0 .. MbedSize - 1
        BY <3>2 DEF Indexed
      <4>2. (w + MbedSize - r) % MbedSize = Gap(w, r, MbedSize)
        BY <4>1, MbedSizes, Gaps
      <4> QED
        BY <3>1, <3>2, <4>2, MbedSizes DEF Mbed!Used
    <3> DEFINE put == Put(buf, w, arrived + 1)
               next == (w + 1) % MbedSize
    <3>4. /\ Indexed(put, next, r, MbedSize)
          /\ Stream(got, Between(put, next, r, MbedSize), arrived + 1)
      BY <3>2, <3>3, StreamEntersRing
    <3>5. rx' = [buf |-> put, wloc |-> next, rloc |-> r]
      BY <2>1, <3>2 DEF Put
    <3> HIDE DEF put, next
    <3>6. \E b, i, j :
            /\ rx' = [buf |-> b, wloc |-> i, rloc |-> j]
            /\ Indexed(b, i, j, MbedSize)
            /\ Stream(got, Between(b, i, j, MbedSize), arrived + 1)
      BY <3>4, <3>5
    <3> QED
      BY <2>1, <3>6 DEF MbedRx
  <2> QED
    BY <2>2, <2>3 DEF MbedRx
<1>8. ASSUME Mbed!read PROVE MbedInv'
  <2>1. /\ UNCHANGED <<written, wire, arrived, tx, excuse>> /\ rx.wloc # rx.rloc
        /\ got' = IF "rx" \in excuse THEN got ELSE got \o <<rx.buf[rx.rloc]>>
        /\ rx' = [rx EXCEPT !.rloc = (@ + 1) % MbedSize]
    BY <1>8, MbedSizes DEF Mbed!read, Mbed!available, Mbed!get, Mbed!Returned
  <2>2. Counts' /\ MbedTx'
    BY <2>1 DEF MbedTx
  <2>3. ASSUME "rx" \notin excuse PROVE MbedRx'
    <3>1. PICK buf, w, r :
            /\ rx = [buf |-> buf, wloc |-> w, rloc |-> r]
            /\ Indexed(buf, w, r, MbedSize)
            /\ Stream(got, Between(buf, w, r, MbedSize), arrived)
      BY <2>3 DEF MbedRx
    <3> DEFINE next == (r + 1) % MbedSize
    <3>2. /\ Indexed(buf, w, next, MbedSize)
          /\ Stream(got \o <<buf[r]>>, Between(buf, w, next, MbedSize), arrived)
      BY <2>1, <3>1, StreamLeavesIndexed
    <3>3. rx' = [buf |-> buf, wloc |-> w, rloc |-> next] /\ got' = got \o <<buf[r]>>
      BY <2>1, <2>3, <3>1
    <3> HIDE DEF next
    <3>4. \E b, i, j :
            /\ rx' = [buf |-> b, wloc |-> i, rloc |-> j]
            /\ Indexed(b, i, j, MbedSize)
            /\ Stream(got', Between(b, i, j, MbedSize), arrived)
      BY <3>2, <3>3
    <3> QED
      BY <2>1, <3>4 DEF MbedRx
  <2> QED
    BY <2>1, <2>2, <2>3 DEF MbedRx
<1> QED
  BY <1>1, <1>2, <1>3, <1>4, <1>5, <1>6, <1>7, <1>8
     DEF Mbed!Next, Mbed!write, Mbed!BufferedSerial_write

-----------------------------------------------------------------------------
\* V5Hardware.  A count that one task has loaded is still the count; the ring
\* ends at _head, with the byte that add() has stored and not yet counted and
\* without the one that pull() has copied and not yet counted.
V5Fine(buf, head, num, a, ac, p, pc) ==
  /\ IsRing(buf, RingSize) /\ head \in 0 .. RingSize - 1 /\ num \in 0 .. RingSize
  /\ a \in {"check", "load", "store"} /\ p \in {"check", "tail", "load", "store"}
  /\ a # "check" => num # RingSize
  /\ p # "check" => num # 0
  /\ a = "store" => ac = num
  /\ p = "store" => pc = num
Kept(num, a, p) == num - (IF p \in {"load", "store"} THEN 1 ELSE 0) + (IF a = "check" THEN 0 ELSE 1)
V5Held(buf, head, k) == InRing(buf, Gap(head, k, RingSize), k, RingSize)
V5State(buf, head, num, a, ac, p, pc) ==
  [buf |-> buf, head |-> head, num |-> num, adder |-> <<a, ac>>, puller |-> <<p, pc>>]
V5Tx == "tx" \notin excuse => Stream(wire, <<>>, written)
V5Rx ==
  "rx" \notin excuse =>
    \E buf, head, num, a, ac, p, pc :
      /\ rx = V5State(buf, head, num, a, ac, p, pc)
      /\ V5Fine(buf, head, num, a, ac, p, pc)
      /\ Stream(got, V5Held(buf, head, Kept(num, a, p)), arrived)
V5Inv == Counts /\ V5Tx /\ V5Rx

LEMMA V5Kept ==
  ASSUME NEW buf, NEW head, NEW num, NEW a, NEW ac, NEW p, NEW pc,
         V5Fine(buf, head, num, a, ac, p, pc)
  PROVE  Kept(num, a, p) \in 0 .. RingSize
<1>1. RingSize \in Nat \ {0, 1} /\ num \in 0 .. RingSize
  BY TransportSizes DEF V5Fine
<1>2. /\ a # "check" => num # RingSize
      /\ p \in {"load", "store"} => num # 0
  BY DEF V5Fine
<1> QED
  BY <1>1, <1>2 DEF Kept

(* add() stores the byte. *)
LEMMA V5Stores ==
  ASSUME NEW buf, NEW head \in 0 .. RingSize - 1, NEW k \in 0 .. RingSize - 1, IsRing(buf, RingSize),
         NEW out, NEW n \in Nat, Stream(out, V5Held(buf, head, k), n)
  PROVE  LET put == Put(buf, head, n + 1)
             next == (head + 1) % RingSize
         IN  /\ IsRing(put, RingSize) /\ next \in 0 .. RingSize - 1
             /\ Stream(out, V5Held(put, next, k + 1), n + 1)
<1> DEFINE s == RingSize
           at == Gap(head, k, s)
           c == n + 1
           put == Put(buf, head, c)
           next == (head + 1) % s
           held == InRing(buf, at, k, s)
<1>0. s \in Nat \ {0} /\ 1 \in 0 .. s
  BY TransportSizes
<1>1. next = Place(head, 1, s) /\ next \in 0 .. s - 1
  <2>1. \A i \in 0 .. s : (head + i) % s = Place(head, i, s) /\ Place(head, i, s) \in 0 .. s - 1
    BY <1>0, Places
  <2> QED
    BY <1>0, <2>1
<1> HIDE DEF s, next
<1>2. at \in 0 .. s - 1 /\ Place(at, k, s) = head /\ Gap(next, k + 1, s) = at
  BY <1>0, <1>1 DEF Gap, Place, s
<1> HIDE DEF at
<1>3. Ring(buf, at, k, s) /\ k # s /\ c \in Nat
  BY <1>0, <1>2 DEF Ring, s
<1>4. Stream(out, held \o <<c>>, n + 1)
  <2>1. Stream(out, Append(held, n + 1), n + 1)
    BY StreamComes DEF V5Held, at, s
  <2>2. held \in Seq(Nat)
    BY DEF Stream, V5Held, at, s
  <2>3. Append(held, c) = held \o <<c>>
    BY <1>3, <2>2, AppendIsConcat
  <2> QED
    BY <2>1, <2>3
<1> HIDE DEF c
<1>5. /\ IsRing(Put(buf, Place(at, k, s), c), s)
      /\ InRing(Put(buf, Place(at, k, s), c), at, k + 1, s) = InRing(buf, at, k, s) \o <<c>>
  BY <1>3, RingPut
<1>6. V5Held(put, next, k + 1) = held \o <<c>>
  BY <1>2, <1>5 DEF V5Held, s
<1> QED
  BY <1>1, <1>2, <1>4, <1>5, <1>6 DEF c, next, s

(* pull() copies the oldest byte. *)
LEMMA V5Copies ==
  ASSUME NEW buf, NEW head \in 0 .. RingSize - 1, NEW k \in 1 .. RingSize, IsRing(buf, RingSize),
         NEW out, NEW n, Stream(out, V5Held(buf, head, k), n)
  PROVE  Stream(out \o <<buf[(head + (RingSize - k)) % RingSize]>>, V5Held(buf, head, k - 1), n)
<1> DEFINE s == RingSize
           at == Gap(head, k, s)
<1>0. s \in Nat \ {0} /\ 1 \in 0 .. s
  BY TransportSizes
<1> HIDE DEF s
<1>1. at \in 0 .. s - 1 /\ Place(at, 1, s) = Gap(head, k - 1, s)
  BY <1>0 DEF Gap, Place, s
<1>2. (head + (s - k)) % s = at
  <2> DEFINE i == s - k
  <2>1. i \in 0 .. s /\ Place(head, i, s) = at
    BY <1>0 DEF Gap, Place, s
  <2> HIDE DEF i
  <2>2. (head + i) % s = Place(head, i, s)
    BY <1>0, <2>1, Places DEF s
  <2> QED
    BY <2>1, <2>2 DEF i
<1> HIDE DEF at
<1>3. (at + 1) % s = Gap(head, k - 1, s)
  <2>1. \A i \in 0 .. s : (at + i) % s = Place(at, i, s)
    BY <1>0, <1>1, Places
  <2> QED
    BY <1>0, <1>1, <2>1
<1>4. Ring(buf, at, k, s) /\ k # 0 /\ Stream(out, InRing(buf, at, k, s), n)
  BY <1>0, <1>1 DEF Ring, V5Held, at, s
<1>5. Stream(out \o <<buf[at]>>, InRing(buf, (at + 1) % s, k - 1, s), n)
  BY <1>4, StreamLeavesRing
<1> QED
  BY <1>2, <1>3, <1>5 DEF V5Held, s

LEMMA V5Shows ==
  ASSUME NEW buf, NEW head, NEW num, NEW a, NEW ac, NEW p, NEW pc,
         V5Fine(buf, head, num, a, ac, p, pc), rx = V5State(buf, head, num, a, ac, p, pc)
  PROVE  V5!InRx = V5Held(buf, head, Kept(num, a, p))
<1> DEFINE s == RingSize
           k == Kept(num, a, p)
           at == Gap(head, k, s)
<1>0. s \in Nat \ {0} /\ head \in 0 .. s - 1
  BY TransportSizes DEF V5Fine
<1>1. k \in 0 .. s
  BY V5Kept
<1>2. rx.num = num /\ rx.head = head /\ rx.buf = buf /\ rx.adder[1] = a /\ rx.puller[1] = p
  BY DEF V5State
<1>3. V5!Held = k
  BY <1>2 DEF V5!Held, Kept
<1> HIDE DEF k, s
<1>4. ASSUME NEW i \in 1 .. k PROVE (head + s - k + i - 1) % s = (at + i - 1) % s
  <2> DEFINE x == head + s - k + i - 1
             y == at + i - 1
  <2>1. /\ x \in Nat /\ x <= s + s /\ y \in Nat /\ y <= s + s /\ x < s + s /\ y < s + s
        /\ (IF x < s THEN x ELSE x - s) = (IF y < s THEN y ELSE y - s)
    BY <1>0, <1>1 DEF Gap
  <2> HIDE DEF x, y
  <2>2. x % s = (IF x < s THEN x ELSE IF x < s + s THEN x - s ELSE 0)
    BY <1>0, <2>1, RemainderOf
  <2>3. y % s = (IF y < s THEN y ELSE IF y < s + s THEN y - s ELSE 0)
    BY <1>0, <2>1, RemainderOf
  <2>4. x % s = y % s
    BY <1>0, <2>1, <2>2, <2>3
  <2> QED
    BY <2>4 DEF x, y
<1> HIDE DEF at
<1>5. V5!InRx = [i \in 1 .. k |-> buf[(head + s - k + i - 1) % s]]
  BY <1>2, <1>3 DEF V5!InRx, s
<1>6. [i \in 1 .. k |-> buf[(head + s - k + i - 1) % s]] = InRing(buf, at, k, s)
  BY <1>4 DEF InRing
<1> QED
  BY <1>5, <1>6 DEF V5Held, at, k, s

LEMMA V5Step ==
  ASSUME V5Inv, V5!Next
  PROVE  V5Inv'
<1> USE DEF V5Inv, Counts
<1>1. ASSUME NEW length \in 1 .. MaxWrite, V5!write(length) PROVE V5Inv'
  <2> DEFINE data == Run(written, length)
  <2>1. /\ written' = written + length /\ UNCHANGED <<arrived, got, tx, rx, excuse>>
        /\ wire' = IF "tx" \in excuse THEN wire ELSE wire \o data
    BY <1>1 DEF V5!write, V5!Sent, V5!Data, Run
  <2>2. length \in Nat
    BY TransportSizes
  <2>3. Counts' /\ V5Rx'
    BY <2>1, <2>2 DEF V5Rx
  <2>4. ASSUME "tx" \notin excuse PROVE V5Tx'
    <3>1. data \in Seq(Nat) /\ <<>> \in Seq(Nat)
      BY <2>2, WholeRun
    <3>2. Stream(wire, <<>>, written)
      BY <2>4 DEF V5Tx
    <3>3. Stream(wire, <<>> \o data, written + length)
      BY <2>2, <3>2, StreamGrows
    <3> HIDE DEF data
    <3>4. <<>> \o data = data \o <<>>
      BY <3>1, NothingBehind
    <3>5. Stream(wire \o data, <<>>, written + length)
      BY <3>1, <3>3, <3>4, StreamMoves
    <3> QED
      BY <2>1, <2>4, <3>5 DEF V5Tx
  <2> QED
    BY <2>1, <2>3, <2>4 DEF V5Tx
<1>2. ASSUME V5!add_stores PROVE V5Inv'
  <2>1. /\ arrived' = arrived + 1 /\ UNCHANGED <<written, wire, got, tx>> /\ rx.adder[1] = "check"
        /\ rx' = IF V5!isFull THEN rx
                 ELSE [rx EXCEPT !.buf[rx.head] = arrived + 1, !.head = (@ + 1) % RingSize,
                                 !.adder = <<"load", 0>>]
        /\ excuse' = IF V5!isFull THEN excuse \cup {"rx"} ELSE excuse
    BY <1>2 DEF V5!add_stores, V5!Excused
  <2>2. Counts' /\ V5Tx'
    BY <2>1 DEF V5Tx
  <2>3. ASSUME "rx" \notin excuse' PROVE V5Rx'
    <3>1. "rx" \notin excuse /\ ~V5!isFull
      BY <2>1, <2>3
    <3>2. PICK buf, head, num, a, ac, p, pc :
            /\ rx = V5State(buf, head, num, a, ac, p, pc)
            /\ V5Fine(buf, head, num, a, ac, p, pc)
            /\ Stream(got, V5Held(buf, head, Kept(num, a, p)), arrived)
      BY <3>1 DEF V5Rx
    <3>3. a = "check" /\ rx.num = num /\ rx.head = head
      BY <2>1, <3>2 DEF V5State
    <3> DEFINE k == Kept(num, a, p)
               put == Put(buf, head, arrived + 1)
               next == (head + 1) % RingSize
    <3>4. /\ num \in 0 .. RingSize - 1 /\ k \in 0 .. RingSize - 1 /\ Kept(num, "load", p) = k + 1
          /\ IsRing(buf, RingSize) /\ head \in 0 .. RingSize - 1
      <4>1. /\ RingSize \in Nat \ {0, 1} /\ num \in 0 .. RingSize /\ ~(num >= RingSize)
            /\ (p \in {"load", "store"} => num # 0)
            /\ IsRing(buf, RingSize) /\ head \in 0 .. RingSize - 1
        BY <3>1, <3>2, <3>3, TransportSizes DEF V5Fine, V5!isFull
      <4> QED
        BY <3>3, <4>1 DEF Kept
    <3> HIDE DEF k
    <3>5. /\ IsRing(put, RingSize) /\ next \in 0 .. RingSize - 1
          /\ Stream(got, V5Held(put, next, k + 1), arrived + 1)
      <4>1. Stream(got, V5Held(buf, head, k), arrived)
        BY <3>2 DEF k
      <4> QED
        BY <3>4, <4>1, V5Stores
    <3>6. rx' = [rx EXCEPT !.buf = put, !.head = next, !.adder = <<"load", 0>>]
      BY <2>1, <3>1, <3>2, <3>3 DEF V5State, Put
    <3> HIDE DEF put, next
    <3>7. rx' = V5State(put, next, num, "load", 0, p, pc)
      BY <3>2, <3>6 DEF V5State
    <3>8. V5Fine(put, next, num, "load", 0, p, pc)
      <4>1. num \in 0 .. RingSize /\ num # RingSize
        BY <3>4, TransportSizes
      <4> QED
        BY <3>2, <3>5, <4>1 DEF V5Fine
    <3>9. \E b, h, m, x, xc, y, yc :
            /\ rx' = V5State(b, h, m, x, xc, y, yc)
            /\ V5Fine(b, h, m, x, xc, y, yc)
            /\ Stream(got, V5Held(b, h, Kept(m, x, y)), arrived + 1)
      BY <3>4, <3>5, <3>7, <3>8
    <3> QED
      BY <2>1, <3>9 DEF V5Rx
  <2> QED
    BY <2>2, <2>3 DEF V5Rx
<1>3. ASSUME V5!add_loads PROVE V5Inv'
  <2>1. /\ UNCHANGED <<written, wire, arrived, got, tx, excuse>> /\ rx.adder[1] = "load"
        /\ rx' = [rx EXCEPT !.adder = <<"store", rx.num>>]
    BY <1>3 DEF V5!add_loads
  <2>2. Counts' /\ V5Tx'
    BY <2>1 DEF V5Tx
  <2>3. ASSUME "rx" \notin excuse PROVE V5Rx'
    <3>1. PICK buf, head, num, a, ac, p, pc :
            /\ rx = V5State(buf, head, num, a, ac, p, pc)
            /\ V5Fine(buf, head, num, a, ac, p, pc)
            /\ Stream(got, V5Held(buf, head, Kept(num, a, p)), arrived)
      BY <2>3 DEF V5Rx
    <3>2. a = "load" /\ rx' = V5State(buf, head, num, "store", num, p, pc)
      BY <2>1, <3>1 DEF V5State
    <3>3. V5Fine(buf, head, num, "store", num, p, pc) /\ Kept(num, "store", p) = Kept(num, a, p)
      BY <3>1, <3>2 DEF V5Fine, Kept
    <3>4. \E b, h, m, x, xc, y, yc :
            /\ rx' = V5State(b, h, m, x, xc, y, yc)
            /\ V5Fine(b, h, m, x, xc, y, yc)
            /\ Stream(got, V5Held(b, h, Kept(m, x, y)), arrived)
      BY <3>1, <3>2, <3>3
    <3> QED
      BY <2>1, <3>4 DEF V5Rx
  <2> QED
    BY <2>1, <2>2, <2>3 DEF V5Rx
<1>4. ASSUME V5!add_counts PROVE V5Inv'
  <2>1. /\ UNCHANGED <<written, wire, arrived, got, tx>> /\ rx.adder[1] = "store"
        /\ rx' = [rx EXCEPT !.num = rx.adder[2] + 1, !.adder = <<"check", 0>>]
        /\ excuse' = IF rx.puller[1] = "store" THEN excuse \cup {"rx"} ELSE excuse
    BY <1>4 DEF V5!add_counts, V5!Excused
  <2>2. Counts' /\ V5Tx'
    BY <2>1 DEF V5Tx
  <2>3. ASSUME "rx" \notin excuse' PROVE V5Rx'
    <3>0. "rx" \notin excuse /\ rx.puller[1] # "store"
      BY <2>1, <2>3
    <3>1. PICK buf, head, num, a, ac, p, pc :
            /\ rx = V5State(buf, head, num, a, ac, p, pc)
            /\ V5Fine(buf, head, num, a, ac, p, pc)
            /\ Stream(got, V5Held(buf, head, Kept(num, a, p)), arrived)
      BY <3>0 DEF V5Rx
    <3>2. a = "store" /\ p # "store" /\ rx' = V5State(buf, head, ac + 1, "check", 0, p, pc)
      BY <2>1, <3>0, <3>1 DEF V5State
    <3>3. /\ ac = num /\ num \in 0 .. RingSize /\ num # RingSize /\ RingSize \in Nat
      BY <3>1, <3>2, TransportSizes DEF V5Fine
    <3> DEFINE more == num + 1
    <3>4. more \in 0 .. RingSize /\ more # 0 /\ Kept(more, "check", p) = Kept(num, a, p)
      BY <3>2, <3>3 DEF Kept
    <3> HIDE DEF more
    <3>5. V5Fine(buf, head, more, "check", 0, p, pc)
      BY <3>1, <3>2, <3>4 DEF V5Fine
    <3>6. rx' = V5State(buf, head, more, "check", 0, p, pc)
      BY <3>2, <3>3 DEF more
    <3>7. \E b, h, m, x, xc, y, yc :
            /\ rx' = V5State(b, h, m, x, xc, y, yc)
            /\ V5Fine(b, h, m, x, xc, y, yc)
            /\ Stream(got, V5Held(b, h, Kept(m, x, y)), arrived)
      BY <3>1, <3>4, <3>5, <3>6
    <3> QED
      BY <2>1, <3>7 DEF V5Rx
  <2> QED
    BY <2>2, <2>3 DEF V5Rx
<1>5. ASSUME V5!pull_checks PROVE V5Inv'
  <2>1. /\ UNCHANGED <<written, wire, arrived, got, tx, excuse>> /\ rx.puller[1] = "check"
        /\ rx.num # 0 /\ rx' = [rx EXCEPT !.puller = <<"tail", rx.head>>]
    BY <1>5 DEF V5!pull_checks, V5!isEmpty
  <2>2. Counts' /\ V5Tx'
    BY <2>1 DEF V5Tx
  <2>3. ASSUME "rx" \notin excuse PROVE V5Rx'
    <3>1. PICK buf, head, num, a, ac, p, pc :
            /\ rx = V5State(buf, head, num, a, ac, p, pc)
            /\ V5Fine(buf, head, num, a, ac, p, pc)
            /\ Stream(got, V5Held(buf, head, Kept(num, a, p)), arrived)
      BY <2>3 DEF V5Rx
    <3>2. p = "check" /\ num # 0 /\ rx' = V5State(buf, head, num, a, ac, "tail", head)
      BY <2>1, <3>1 DEF V5State
    <3>3. V5Fine(buf, head, num, a, ac, "tail", head) /\ Kept(num, a, "tail") = Kept(num, a, p)
      BY <3>1, <3>2 DEF V5Fine, Kept
    <3>4. \E b, h, m, x, xc, y, yc :
            /\ rx' = V5State(b, h, m, x, xc, y, yc)
            /\ V5Fine(b, h, m, x, xc, y, yc)
            /\ Stream(got, V5Held(b, h, Kept(m, x, y)), arrived)
      BY <3>1, <3>2, <3>3
    <3> QED
      BY <2>1, <3>4 DEF V5Rx
  <2> QED
    BY <2>1, <2>2, <2>3 DEF V5Rx
<1>6. ASSUME V5!pull_copies PROVE V5Inv'
  <2>1. /\ UNCHANGED <<written, wire, arrived, tx>> /\ rx.puller[1] = "tail"
        /\ got' = IF "rx" \in excuse THEN got ELSE got \o <<rx.buf[V5!getTail(rx.puller[2])]>>
        /\ rx' = [rx EXCEPT !.puller = <<"load", 0>>]
        /\ excuse' = IF rx.adder[1] # "check" \/ rx.puller[2] # rx.head
                       THEN excuse \cup {"rx"} ELSE excuse
    BY <1>6 DEF V5!pull_copies, V5!Returned, V5!Excused
  <2>2. Counts' /\ V5Tx'
    BY <2>1 DEF V5Tx
  <2>3. ASSUME "rx" \notin excuse' PROVE V5Rx'
    <3>0. "rx" \notin excuse /\ rx.adder[1] = "check" /\ rx.puller[2] = rx.head
      BY <2>1, <2>3
    <3>1. PICK buf, head, num, a, ac, p, pc :
            /\ rx = V5State(buf, head, num, a, ac, p, pc)
            /\ V5Fine(buf, head, num, a, ac, p, pc)
            /\ Stream(got, V5Held(buf, head, Kept(num, a, p)), arrived)
      BY <3>0 DEF V5Rx
    <3>2. /\ p = "tail" /\ a = "check" /\ pc = head /\ rx.num = num /\ rx.buf = buf
          /\ rx.puller[2] = pc /\ rx' = V5State(buf, head, num, a, ac, "load", 0)
      BY <2>1, <3>0, <3>1 DEF V5State
    <3>3. /\ num \in 1 .. RingSize /\ head \in 0 .. RingSize - 1 /\ IsRing(buf, RingSize)
      BY <3>1, <3>2, TransportSizes DEF V5Fine
    <3>4. Kept(num, a, p) = num /\ Kept(num, a, "load") = num - 1
      BY <3>2, <3>3, TransportSizes DEF Kept
    <3>5. got' = got \o <<buf[(head + (RingSize - num)) % RingSize]>>
      BY <2>1, <3>0, <3>2 DEF V5!getTail
    <3>6. Stream(got', V5Held(buf, head, num - 1), arrived)
      <4>1. Stream(got, V5Held(buf, head, num), arrived)
        BY <3>1, <3>4
      <4>2. Stream(got \o <<buf[(head + (RingSize - num)) % RingSize]>>, V5Held(buf, head, num - 1), arrived)
        BY <3>3, <4>1, V5Copies
      <4> QED
        BY <3>5, <4>2
    <3>7. V5Fine(buf, head, num, a, ac, "load", 0)
      BY <3>1, <3>2 DEF V5Fine
    <3>8. \E b, h, m, x, xc, y, yc :
            /\ rx' = V5State(b, h, m, x, xc, y, yc)
            /\ V5Fine(b, h, m, x, xc, y, yc)
            /\ Stream(got', V5Held(b, h, Kept(m, x, y)), arrived)
      BY <3>2, <3>4, <3>6, <3>7
    <3> QED
      BY <2>1, <3>8 DEF V5Rx
  <2> QED
    BY <2>2, <2>3 DEF V5Rx
<1>7. ASSUME V5!pull_loads PROVE V5Inv'
  <2>1. /\ UNCHANGED <<written, wire, arrived, got, tx, excuse>> /\ rx.puller[1] = "load"
        /\ rx' = [rx EXCEPT !.puller = <<"store", rx.num>>]
    BY <1>7 DEF V5!pull_loads
  <2>2. Counts' /\ V5Tx'
    BY <2>1 DEF V5Tx
  <2>3. ASSUME "rx" \notin excuse PROVE V5Rx'
    <3>1. PICK buf, head, num, a, ac, p, pc :
            /\ rx = V5State(buf, head, num, a, ac, p, pc)
            /\ V5Fine(buf, head, num, a, ac, p, pc)
            /\ Stream(got, V5Held(buf, head, Kept(num, a, p)), arrived)
      BY <2>3 DEF V5Rx
    <3>2. p = "load" /\ rx' = V5State(buf, head, num, a, ac, "store", num)
      BY <2>1, <3>1 DEF V5State
    <3>3. V5Fine(buf, head, num, a, ac, "store", num) /\ Kept(num, a, "store") = Kept(num, a, p)
      BY <3>1, <3>2 DEF V5Fine, Kept
    <3>4. \E b, h, m, x, xc, y, yc :
            /\ rx' = V5State(b, h, m, x, xc, y, yc)
            /\ V5Fine(b, h, m, x, xc, y, yc)
            /\ Stream(got, V5Held(b, h, Kept(m, x, y)), arrived)
      BY <3>1, <3>2, <3>3
    <3> QED
      BY <2>1, <3>4 DEF V5Rx
  <2> QED
    BY <2>1, <2>2, <2>3 DEF V5Rx
<1>8. ASSUME V5!pull_counts PROVE V5Inv'
  <2>1. /\ UNCHANGED <<written, wire, arrived, got, tx>> /\ rx.puller[1] = "store"
        /\ rx' = [rx EXCEPT !.num = rx.puller[2] - 1, !.puller = <<"check", 0>>]
        /\ excuse' = IF rx.adder[1] = "store" THEN excuse \cup {"rx"} ELSE excuse
    BY <1>8 DEF V5!pull_counts, V5!Excused
  <2>2. Counts' /\ V5Tx'
    BY <2>1 DEF V5Tx
  <2>3. ASSUME "rx" \notin excuse' PROVE V5Rx'
    <3>0. "rx" \notin excuse /\ rx.adder[1] # "store"
      BY <2>1, <2>3
    <3>1. PICK buf, head, num, a, ac, p, pc :
            /\ rx = V5State(buf, head, num, a, ac, p, pc)
            /\ V5Fine(buf, head, num, a, ac, p, pc)
            /\ Stream(got, V5Held(buf, head, Kept(num, a, p)), arrived)
      BY <3>0 DEF V5Rx
    <3>2. p = "store" /\ a # "store" /\ rx' = V5State(buf, head, pc - 1, a, ac, "check", 0)
      BY <2>1, <3>0, <3>1 DEF V5State
    <3>3. /\ pc = num /\ num \in 0 .. RingSize /\ num # 0 /\ RingSize \in Nat
      BY <3>1, <3>2, TransportSizes DEF V5Fine
    <3> DEFINE less == num - 1
    <3>4. less \in 0 .. RingSize /\ less # RingSize /\ Kept(less, a, "check") = Kept(num, a, p)
      BY <3>2, <3>3 DEF Kept
    <3> HIDE DEF less
    <3>5. V5Fine(buf, head, less, a, ac, "check", 0)
      BY <3>1, <3>2, <3>4 DEF V5Fine
    <3>6. rx' = V5State(buf, head, less, a, ac, "check", 0)
      BY <3>2, <3>3 DEF less
    <3>7. \E b, h, m, x, xc, y, yc :
            /\ rx' = V5State(b, h, m, x, xc, y, yc)
            /\ V5Fine(b, h, m, x, xc, y, yc)
            /\ Stream(got, V5Held(b, h, Kept(m, x, y)), arrived)
      BY <3>1, <3>4, <3>5, <3>6
    <3> QED
      BY <2>1, <3>7 DEF V5Rx
  <2> QED
    BY <2>2, <2>3 DEF V5Rx
<1> QED
  BY <1>1, <1>2, <1>3, <1>4, <1>5, <1>6, <1>7, <1>8 DEF V5!Next

-----------------------------------------------------------------------------
(* The invariant of the whole, at the start and after every step. *)

BoardInv ==
  \/ board = "stm32" /\ Stm32Inv
  \/ board = "tiva"  /\ TivaInv
  \/ board = "mbed"  /\ MbedInv
  \/ board = "v5"    /\ V5Inv
  \/ board = "posix" /\ PosixInv
  \/ board = "win"   /\ WinInv
  \/ board = "usb"   /\ UsbInv
  \/ board = "tcp"   /\ TcpInv
  \/ board = "port"  /\ PortInv

(* An empty ring holds nothing. *)
LEMMA EmptyRing ==
  ASSUME NEW n \in Nat \ {0}, NEW m \in Nat, n <= m,
         NEW buf, buf = [i \in 0 .. m - 1 |-> 0]
  PROVE  Indexed(buf, 0, 0, n) /\ Between(buf, 0, 0, n) = <<>>
<1>1. Indexed(buf, 0, 0, n)
  BY DEF Indexed, IsRing
<1>2. Gap(0, 0, n) = 0
  BY DEF Gap
<1>3. InRing(buf, 0, 0, n) = <<>>
  BY DEF InRing
<1> QED
  BY <1>1, <1>2, <1>3 DEF Between

LEMMA Stm32Init ==
  ASSUME Stm32!Init
  PROVE  Stm32Inv
<1> USE DEF Stm32!Init, Stm32!EmptyLine
<1> DEFINE n == RingSize
           buf == [i \in 0 .. n - 1 |-> 0]
<1>0. n \in Nat \ {0}
  BY TransportSizes
<1>1. buf = [i \in 0 .. n - 1 |-> 0] /\ Exactly(buf, n)
  BY DEF Exactly
<1>2. tx = Stm32State(buf, 0, 0, "READY", 0, 0) /\ rx = [rbuf |-> buf, rind |-> 0, ind |-> 0]
  BY DEF Stm32State
<1> HIDE DEF buf
<1>3. Indexed(buf, 0, 0, n) /\ Between(buf, 0, 0, n) = <<>>
  BY <1>0, <1>1, EmptyRing
<1>4. Gap(0, 0, n) = 0
  BY <1>0 DEF Gap
<1>5. Stm32Fine(buf, 0, 0, "READY", 0, 0)
  BY <1>0, <1>1, <1>3, <1>4 DEF Stm32Fine
<1>6. Stm32Held(buf, 0, 0, 0, 0) = <<>>
  BY <1>3, <1>4 DEF Stm32Held, First, Between
<1>7. Stream(wire, Stm32Held(buf, 0, 0, 0, 0), written)
  BY <1>6, StreamEmpty
<1>8. Stm32Tx
  BY <1>2, <1>5, <1>7 DEF Stm32Tx
<1>9. Stm32Rx
  BY <1>2, <1>3, StreamEmpty DEF Stm32Rx
<1> QED
  BY <1>8, <1>9 DEF Stm32Inv, Counts

LEMMA TivaInit ==
  ASSUME Tiva!Init
  PROVE  TivaInv
<1> USE DEF Tiva!Init, Tiva!EmptyLine
<1>1. tx = TivaState(<<>>, <<>>, FALSE, "idle", <<>>, FALSE, 0)
  BY DEF TivaState
<1>2. TivaFine(<<>>, <<>>, FALSE, "idle", <<>>, FALSE, 0)
  BY TransportSizes DEF TivaFine
<1>3. (<<>> \o <<>>) \o <<>> = <<>>
  OBVIOUS
<1>4. Stream(wire, (<<>> \o <<>>) \o <<>>, written)
  BY <1>3, StreamEmpty
<1>5. TivaTx
  BY <1>1, <1>2, <1>4 DEF TivaTx
<1>6. TivaRx
  BY StreamEmpty, TransportSizes DEF TivaRx
<1> QED
  BY <1>5, <1>6 DEF TivaInv, Counts

LEMMA MbedInit ==
  ASSUME Mbed!Init
  PROVE  MbedInv
<1> USE DEF Mbed!Init, Mbed!EmptyLine
<1> DEFINE n == MbedSize
           buf == [i \in 0 .. RingSize - 1 |-> 0]
<1>0. n \in Nat \ {0} /\ RingSize \in Nat /\ n <= RingSize
  BY MbedSizes, TransportSizes DEF MbedSize
<1>1. buf = [i \in 0 .. RingSize - 1 |-> 0]
  OBVIOUS
<1>2. /\ tx = MbedState(buf, 0, 0, <<>>, FALSE, "idle", <<>>, FALSE)
      /\ rx = [buf |-> buf, wloc |-> 0, rloc |-> 0]
  BY DEF MbedState, Mbed!Slots
<1> HIDE DEF buf, n
<1>3. Indexed(buf, 0, 0, n) /\ Between(buf, 0, 0, n) = <<>>
  BY <1>0, <1>1, EmptyRing
<1>4. Wrapped(0) = 0
  BY DEF Wrapped
<1>5. MbedFine(buf, 0, 0, <<>>, "idle", <<>>)
  BY <1>0, <1>3, <1>4, HardwareSizes DEF MbedFine, n
<1>6. MbedHeld(buf, 0, 0, <<>>, <<>>) = <<>>
  BY <1>3, <1>4 DEF MbedHeld, n
<1>7. Stream(wire, MbedHeld(buf, 0, 0, <<>>, <<>>), written)
  BY <1>6, StreamEmpty
<1>8. MbedTx
  BY <1>2, <1>5, <1>7 DEF MbedTx
<1>9. MbedRx
  BY <1>2, <1>3, StreamEmpty DEF MbedRx, n
<1> QED
  BY <1>8, <1>9 DEF MbedInv, Counts

LEMMA V5Init ==
  ASSUME V5!Init
  PROVE  V5Inv
<1> USE DEF V5!Init, V5!EmptyLine
<1> DEFINE n == RingSize
           buf == [i \in 0 .. n - 1 |-> 0]
<1>0. n \in Nat \ {0}
  BY TransportSizes
<1>1. buf = [i \in 0 .. n - 1 |-> 0]
  OBVIOUS
<1>2. rx = V5State(buf, 0, 0, "check", 0, "check", 0)
  BY DEF V5State
<1> HIDE DEF buf
<1>3. Indexed(buf, 0, 0, n) /\ Between(buf, 0, 0, n) = <<>>
  BY <1>0, <1>1, EmptyRing
<1>4. Gap(0, 0, n) = 0 /\ Kept(0, "check", "check") = 0
  <2>1. Gap(0, 0, n) = 0
    BY <1>0 DEF Gap
  <2>2. \A num \in Nat : \A a, p : a = "check" /\ p \in {"check"} => Kept(num, a, p) = num
    BY DEF Kept
  <2> QED
    BY <2>1, <2>2
<1>5. V5Fine(buf, 0, 0, "check", 0, "check", 0)
  BY <1>0, <1>3 DEF V5Fine, Indexed
<1>6. V5Held(buf, 0, Kept(0, "check", "check")) = <<>>
  BY <1>3, <1>4 DEF V5Held, Between
<1>7. Stream(got, V5Held(buf, 0, Kept(0, "check", "check")), arrived)
  BY <1>6, StreamEmpty
<1>8. V5Rx
  BY <1>2, <1>5, <1>7 DEF V5Rx
<1>9. V5Tx
  BY StreamEmpty DEF V5Tx
<1> QED
  BY <1>8, <1>9 DEF V5Inv, Counts

LEMMA PosixInit ==
  ASSUME Posix!Init
  PROVE  PosixInv
<1> USE DEF Posix!Init, Posix!EmptyLine
<1>1. PICK pn \in Posix!PortNames :
        tx = [fd |-> "new", portName |-> pn, lost |-> FALSE, kernel |-> <<>>,
              sending |-> <<>>, totalsent |-> 0]
  OBVIOUS
<1>2. <<>> \o SubSeq(<<>>, 1, 0) = <<>>
  OBVIOUS
<1>3. tx.kernel \o SubSeq(tx.sending, tx.totalsent + 1, Len(tx.sending)) = <<>>
  BY <1>1, <1>2
<1>4. PosixTx
  <2>1. tx \in [fd : {"new", "open", "exit"}, portName : Posix!PortNames, lost : BOOLEAN, kernel : Seq(Nat),
                sending : Seq(Nat), totalsent : Nat]
    BY <1>1
  <2>2. tx.totalsent <= Len(tx.sending)
    BY <1>1
  <2>3. Stream(wire, tx.kernel \o SubSeq(tx.sending, tx.totalsent + 1, Len(tx.sending)), written)
    BY <1>3, StreamEmpty
  <2> QED
    BY <2>1, <2>2, <2>3 DEF PosixTx
<1>5. PosixRx
  BY StreamEmpty DEF PosixRx
<1> QED
  BY <1>4, <1>5 DEF PosixInv, Counts

LEMMA PlainInits ==
  /\ Win!Init => WinInv
  /\ Usb!Init => UsbInv
  /\ Tcp!Init => TcpInv
<1>1. Win!Init => WinInv
  BY StreamEmpty DEF Win!Init, Win!EmptyLine, WinInv, Counts, WinTx, WinRx
<1>2. Usb!Init => UsbInv
  BY StreamEmpty DEF Usb!Init, Usb!EmptyLine, UsbInv, Counts, UsbType, UsbTx, UsbRx
<1>3. Tcp!Init => TcpInv
  BY StreamEmpty DEF Tcp!Init, Tcp!EmptyLine, TcpInv, Counts, TcpTx, TcpRx
<1> QED
  BY <1>1, <1>2, <1>3

LEMMA PortInit ==
  ASSUME Port!Init
  PROVE  PortInv
<1> USE DEF Port!Init, Port!EmptyLine
<1>1. PICK class \in {"Arduino", "Energia", "ChibiOS", "Cortex"} :
        \E io \in Port!Constructed(class) :
          tx = [class |-> class, iostream |-> io, initialised |-> FALSE,
                begun |-> IF class \in {"Arduino", "Energia"} THEN {}
                          ELSE Port!Ports \cup {"stdio"},
                data |-> <<>>, ring |-> <<>>]
  OBVIOUS
<1>2. PICK io \in Port!Constructed(class) :
          tx = [class |-> class, iostream |-> io, initialised |-> FALSE,
                begun |-> IF class \in {"Arduino", "Energia"} THEN {}
                          ELSE Port!Ports \cup {"stdio"},
                data |-> <<>>, ring |-> <<>>]
  BY <1>1
<1>3. io \in {"Serial", "Serial1", "indeterminate", "nullptr", "stdio"}
  BY DEF Port!Constructed, Port!Ports
<1>4. <<>> \in Seq(Nat) /\ rx = <<>> /\ Len(rx) <= RingSize
  BY TransportSizes
<1>5. PortType
  BY <1>2, <1>3, <1>4 DEF PortType, Port!Ports
<1>6. tx.ring \o tx.data = <<>> /\ tx.initialised = FALSE
  BY <1>2
<1>7. PortTx /\ PortRx
  BY <1>6, StreamEmpty DEF PortTx, PortRx
<1> QED
  BY <1>5, <1>7 DEF PortInv, Counts

LEMMA InitBoard ==
  ASSUME Init
  PROVE  BoardInv
  BY Stm32Init, TivaInit, MbedInit, V5Init, PosixInit, PlainInits, PortInit DEF Init, BoardInv

(* A step that leaves a board alone keeps its invariant. *)
LEMMA Stutter ==
  ASSUME BoardInv, UNCHANGED allVars
  PROVE  BoardInv'
<1>0. /\ UNCHANGED <<written, wire, arrived, got, tx, rx, excuse>>
      /\ UNCHANGED board
  BY DEF allVars, vars
<1> USE DEF Counts
<1>1. CASE board = "stm32" /\ Stm32Inv
  BY <1>0, <1>1 DEF Stm32Inv, Stm32Tx, Stm32Rx, BoardInv
<1>2. CASE board = "tiva" /\ TivaInv
  BY <1>0, <1>2 DEF TivaInv, TivaTx, TivaRx, BoardInv
<1>3. CASE board = "mbed" /\ MbedInv
  BY <1>0, <1>3 DEF MbedInv, MbedTx, MbedRx, BoardInv
<1>4. CASE board = "v5" /\ V5Inv
  BY <1>0, <1>4 DEF V5Inv, V5Tx, V5Rx, BoardInv
<1>5. CASE board = "posix" /\ PosixInv
  BY <1>0, <1>5 DEF PosixInv, PosixTx, PosixRx, BoardInv
<1>6. CASE board = "win" /\ WinInv
  BY <1>0, <1>6 DEF WinInv, WinTx, WinRx, BoardInv
<1>7. CASE board = "usb" /\ UsbInv
  BY <1>0, <1>7 DEF UsbInv, UsbType, UsbTx, UsbRx, BoardInv
<1>8. CASE board = "tcp" /\ TcpInv
  BY <1>0, <1>8 DEF TcpInv, TcpTx, TcpRx, BoardInv
<1>9. CASE board = "port" /\ PortInv
  BY <1>0, <1>9 DEF PortInv, PortType, PortTx, PortRx, BoardInv
<1> QED
  BY <1>1, <1>2, <1>3, <1>4, <1>5, <1>6, <1>7, <1>8, <1>9 DEF BoardInv

LEMMA NextBoard ==
  ASSUME BoardInv, Next
  PROVE  BoardInv'
<1>0. board' = board
  BY DEF Next
<1>1. CASE board = "stm32"
  BY <1>0, <1>1, Stm32Step DEF BoardInv, Next
<1>2. CASE board = "tiva"
  BY <1>0, <1>2, TivaStep DEF BoardInv, Next
<1>3. CASE board = "mbed"
  BY <1>0, <1>3, MbedStep DEF BoardInv, Next
<1>4. CASE board = "v5"
  BY <1>0, <1>4, V5Step DEF BoardInv, Next
<1>5. CASE board = "posix"
  BY <1>0, <1>5, PosixStep DEF BoardInv, Next
<1>6. CASE board = "win"
  BY <1>0, <1>6, WinStep DEF BoardInv, Next
<1>7. CASE board = "usb"
  BY <1>0, <1>7, UsbStep DEF BoardInv, Next
<1>8. CASE board = "tcp"
  BY <1>0, <1>8, TcpStep DEF BoardInv, Next
<1>9. CASE board = "port"
  BY <1>0, <1>9, PortStep DEF BoardInv, Next
<1> QED
  BY <1>1, <1>2, <1>3, <1>4, <1>5, <1>6, <1>7, <1>8, <1>9 DEF BoardInv

-----------------------------------------------------------------------------
(* What the invariant says about the bytes that are still in a board. *)

Whole(sent, returned) ==
  /\ "tx" \notin excuse => wire \o sent = Numbered(written)
  /\ "rx" \notin excuse => got \o returned = Numbered(arrived)

LEMMA Stm32Whole ==
  ASSUME Stm32Inv
  PROVE  Whole(Stm32!InTx, Stm32!InRx)
<1>1. "tx" \notin excuse => wire \o Stm32!InTx = Numbered(written)
  <2> SUFFICES ASSUME "tx" \notin excuse PROVE wire \o Stm32!InTx = Numbered(written)
    OBVIOUS
  <2>1. PICK tbuf, w, f, g, at, left :
          /\ tx = Stm32State(tbuf, w, f, g, at, left)
          /\ Stm32Fine(tbuf, w, f, g, at, left)
          /\ Stream(wire, Stm32Held(tbuf, w, f, at, left), written)
    BY DEF Stm32Inv, Stm32Tx
  <2>2. Stm32!InTx = Stm32Held(tbuf, w, f, at, left)
    BY <2>1, Stm32Shows
  <2> QED
    BY <2>1, <2>2 DEF Stream
<1>2. "rx" \notin excuse => got \o Stm32!InRx = Numbered(arrived)
  <2> SUFFICES ASSUME "rx" \notin excuse PROVE got \o Stm32!InRx = Numbered(arrived)
    OBVIOUS
  <2>1. PICK rbuf, rind, ind :
          /\ rx = [rbuf |-> rbuf, rind |-> rind, ind |-> ind]
          /\ Indexed(rbuf, ind, rind, RingSize)
          /\ Stream(got, Between(rbuf, ind, rind, RingSize), arrived)
    BY DEF Stm32Inv, Stm32Rx
  <2>2. RingSize \in Nat \ {0} /\ ind \in 0 .. RingSize - 1 /\ rind \in 0 .. RingSize - 1
    BY <2>1, TransportSizes DEF Indexed
  <2>3. (ind + RingSize - rind) % RingSize = Gap(ind, rind, RingSize)
    BY <2>2, Gaps
  <2>4. Stm32!InRx = Between(rbuf, ind, rind, RingSize)
    BY <2>1, <2>3 DEF Stm32!InRx, Stm32!Unread, Between, InRing
  <2> QED
    BY <2>1, <2>4 DEF Stream
<1> QED
  BY <1>1, <1>2 DEF Whole

LEMMA TivaWhole ==
  ASSUME TivaInv
  PROVE  Whole(Tiva!InTx, Tiva!InRx)
<1>1. "tx" \notin excuse => wire \o Tiva!InTx = Numbered(written)
  <2> SUFFICES ASSUME "tx" \notin excuse PROVE wire \o Tiva!InTx = Numbered(written)
    OBVIOUS
  <2>1. PICK ring, uart, eot, pc, data, kick, irqs :
          /\ tx = TivaState(ring, uart, eot, pc, data, kick, irqs)
          /\ TivaFine(ring, uart, eot, pc, data, kick, irqs)
          /\ Stream(wire, (uart \o ring) \o data, written)
    BY DEF TivaInv, TivaTx
  <2>2. tx.uart = uart /\ tx.ring = ring /\ tx.data = data
    BY <2>1 DEF TivaState
  <2> QED
    BY <2>1, <2>2 DEF Stream, Tiva!InTx
<1> QED
  BY <1>1 DEF Whole, TivaInv, TivaRx, Stream, Tiva!InRx

LEMMA MbedWhole ==
  ASSUME MbedInv
  PROVE  Whole(Mbed!InTx, Mbed!InRx)
<1>0. MbedSize \in Nat \ {0} /\ Mbed!Wrap = MbedSize
  BY MbedSizes
<1>1. "tx" \notin excuse => wire \o Mbed!InTx = Numbered(written)
  <2> SUFFICES ASSUME "tx" \notin excuse PROVE wire \o Mbed!InTx = Numbered(written)
    OBVIOUS
  <2>1. PICK buf, w, r, fifo, attached, pc, data, bulk :
          /\ tx = MbedState(buf, w, r, fifo, attached, pc, data, bulk)
          /\ MbedFine(buf, w, r, fifo, pc, data)
          /\ Stream(wire, MbedHeld(buf, w, r, fifo, data), written)
    BY DEF MbedInv, MbedTx
  <2>2. /\ tx.buf = buf /\ tx.wloc = w /\ tx.rloc = r /\ tx.fifo = fifo /\ tx.data = data
    BY <2>1 DEF MbedState
  <2>3. w \in 0 .. MbedSize /\ r \in 0 .. MbedSize - 1
    BY <2>1 DEF MbedFine, Indexed
  <2>4. (w + MbedSize - r) % MbedSize = Gap(Wrapped(w), r, MbedSize)
    BY <2>3, MbedUsed
  <2>5. Mbed!Content(tx) = Between(buf, Wrapped(w), r, MbedSize)
    BY <1>0, <2>2, <2>4 DEF Mbed!Content, Mbed!Used, Between, InRing
  <2> QED
    BY <2>1, <2>2, <2>5 DEF Mbed!InTx, MbedHeld, Stream
<1>2. "rx" \notin excuse => got \o Mbed!InRx = Numbered(arrived)
  <2> SUFFICES ASSUME "rx" \notin excuse PROVE got \o Mbed!InRx = Numbered(arrived)
    OBVIOUS
  <2>1. PICK buf, w, r :
          /\ rx = [buf |-> buf, wloc |-> w, rloc |-> r]
          /\ Indexed(buf, w, r, MbedSize)
          /\ Stream(got, Between(buf, w, r, MbedSize), arrived)
    BY DEF MbedInv, MbedRx
  <2>2. w \in 0 .. MbedSize - 1 /\ r \in 0 .. MbedSize - 1
    BY <2>1 DEF Indexed
  <2>3. (w + MbedSize - r) % MbedSize = Gap(w, r, MbedSize)
    BY <1>0, <2>2, Gaps
  <2>4. Mbed!InRx = Between(buf, w, r, MbedSize)
    BY <1>0, <2>1, <2>3 DEF Mbed!InRx, Mbed!Content, Mbed!Used, Between, InRing
  <2> QED
    BY <2>1, <2>4 DEF Stream
<1> QED
  BY <1>1, <1>2 DEF Whole

LEMMA V5Whole ==
  ASSUME V5Inv
  PROVE  Whole(V5!InTx, V5!InRx)
<1>1. "tx" \notin excuse => wire \o V5!InTx = Numbered(written)
  BY DEF V5Inv, V5Tx, V5!InTx, Stream
<1>2. "rx" \notin excuse => got \o V5!InRx = Numbered(arrived)
  <2> SUFFICES ASSUME "rx" \notin excuse PROVE got \o V5!InRx = Numbered(arrived)
    OBVIOUS
  <2>1. PICK buf, head, num, a, ac, p, pc :
          /\ rx = V5State(buf, head, num, a, ac, p, pc)
          /\ V5Fine(buf, head, num, a, ac, p, pc)
          /\ Stream(got, V5Held(buf, head, Kept(num, a, p)), arrived)
    BY DEF V5Inv, V5Rx
  <2>2. V5!InRx = V5Held(buf, head, Kept(num, a, p))
    BY <2>1, V5Shows
  <2> QED
    BY <2>1, <2>2 DEF Stream
<1> QED
  BY <1>1, <1>2 DEF Whole

LEMMA PlainWhole ==
  /\ PosixInv => Whole(Posix!InTx, Posix!InRx)
  /\ WinInv => Whole(Win!InTx, Win!InRx)
  /\ UsbInv => Whole(Usb!InTx, Usb!InRx)
  /\ TcpInv => Whole(Tcp!InTx, Tcp!InRx)
  /\ PortInv => Whole(Port!InTx, Port!InRx)
<1> USE DEF Whole, Stream
<1>1. PosixInv => Whole(Posix!InTx, Posix!InRx)
  BY DEF PosixInv, PosixTx, PosixRx, Posix!InTx, Posix!InRx
<1>2. WinInv => Whole(Win!InTx, Win!InRx)
  BY DEF WinInv, WinTx, WinRx, Win!InTx, Win!InRx
<1>3. UsbInv => Whole(Usb!InTx, Usb!InRx)
  BY DEF UsbInv, UsbTx, UsbRx, Usb!InTx, Usb!InRx
<1>4. TcpInv => Whole(Tcp!InTx, Tcp!InRx)
  BY DEF TcpInv, TcpTx, TcpRx, Tcp!InTx, Tcp!InRx
<1>5. PortInv => Whole(Port!InTx, Port!InRx)
  BY DEF PortInv, PortTx, PortRx, Port!InTx, Port!InRx
<1> QED
  BY <1>1, <1>2, <1>3, <1>4, <1>5

LEMMA BoardWhole ==
  ASSUME BoardInv
  PROVE  StreamsIntact
<1> SUFFICES Whole(InTx, InRx)
  BY DEF Whole, StreamsIntact
<1>1. CASE board = "stm32"
  <2>1. InTx = Stm32!InTx /\ InRx = Stm32!InRx
    BY <1>1 DEF InTx, InRx
  <2> QED
    BY <1>1, <2>1, Stm32Whole DEF BoardInv
<1>2. CASE board = "tiva"
  <2>1. InTx = Tiva!InTx /\ InRx = Tiva!InRx
    BY <1>2 DEF InTx, InRx
  <2> QED
    BY <1>2, <2>1, TivaWhole DEF BoardInv
<1>3. CASE board = "mbed"
  <2>1. InTx = Mbed!InTx /\ InRx = Mbed!InRx
    BY <1>3 DEF InTx, InRx
  <2> QED
    BY <1>3, <2>1, MbedWhole DEF BoardInv
<1>4. CASE board = "v5"
  <2>1. InTx = V5!InTx /\ InRx = V5!InRx
    BY <1>4 DEF InTx, InRx
  <2> QED
    BY <1>4, <2>1, V5Whole DEF BoardInv
<1>5. CASE board = "posix"
  <2>1. InTx = Posix!InTx /\ InRx = Posix!InRx
    BY <1>5 DEF InTx, InRx
  <2> QED
    BY <1>5, <2>1, PlainWhole DEF BoardInv
<1>6. CASE board = "win"
  <2>1. InTx = Win!InTx /\ InRx = Win!InRx
    BY <1>6 DEF InTx, InRx
  <2> QED
    BY <1>6, <2>1, PlainWhole DEF BoardInv
<1>7. CASE board = "usb"
  <2>1. InTx = Usb!InTx /\ InRx = Usb!InRx
    BY <1>7 DEF InTx, InRx
  <2> QED
    BY <1>7, <2>1, PlainWhole DEF BoardInv
<1>8. CASE board = "tcp"
  <2>1. InTx = Tcp!InTx /\ InRx = Tcp!InRx
    BY <1>8 DEF InTx, InRx
  <2> QED
    BY <1>8, <2>1, PlainWhole DEF BoardInv
<1>9. CASE board = "port"
  <2>1. InTx = Port!InTx /\ InRx = Port!InRx
    BY <1>9 DEF InTx, InRx
  <2> QED
    BY <1>9, <2>1, PlainWhole DEF BoardInv
<1> QED
  BY <1>1, <1>2, <1>3, <1>4, <1>5, <1>6, <1>7, <1>8, <1>9 DEF BoardInv

(* Whatever the sizes of its buffers, no board class loses, doubles or      *)
(* reorders a byte of write() or read(), whatever way its interrupts, tasks *)
(* and calls interleave, except after one of the events that StreamsIntact  *)
(* names.                                                                   *)
THEOREM TransportsKeepStreams == Spec => []StreamsIntact
<1>1. Init => BoardInv
  BY InitBoard
<1>2. BoardInv /\ [Next]_allVars => BoardInv'
  BY NextBoard, Stutter
<1>3. BoardInv => StreamsIntact
  BY BoardWhole
<1> QED
  BY <1>1, <1>2, <1>3, PTL DEF Spec

=============================================================================

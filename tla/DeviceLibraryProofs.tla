------------------------- MODULE DeviceLibraryProofs -------------------------
(***************************************************************************)
(* Proofs about the parts of the device's library that keep no connection. *)
(*                                                                         *)
(* The clock: the arithmetic of Time and Duration is exact, and the        *)
(* synchronised clock within the delay of its last synchronisation, for    *)
(* every width and every unit that meets the assumptions: in particular    *)
(* for 2^32, 10^6 and 1000, the numbers of the device, which are out of    *)
(* TLC's reach.                                                            *)
(*                                                                         *)
(* The serialisation buffer: for every amount of memory, every set of      *)
(* buffer sizes and arrays of any length, CursorSound is an invariant and  *)
(* every step is confined as CallsConfined says.                           *)
(***************************************************************************)
EXTENDS DeviceClock, MicroCdr, TLAPS, SequenceTheorems

----------------------------------------------------------------------------
(* Quotients and remainders *)

\* Multiplication keeps the order.
LEMMA TimesMonotone ==
  ASSUME NEW n \in Nat, NEW a \in Int, NEW b \in Int, a <= b
  PROVE  n * a <= n * b
  OBVIOUS

\* Division with remainder.
LEMMA DivMod ==
  ASSUME NEW x \in Int, NEW n \in Nat \ {0}
  PROVE  /\ x \div n \in Int /\ x % n \in 0 .. n - 1
         /\ x = n * (x \div n) + (x % n)
<1>1. x \div n \in Int
  OBVIOUS
<1>2. x % n \in 0 .. n - 1
  OBVIOUS
<1>3. x = n * (x \div n) + (x % n)
  OBVIOUS
<1> QED
  BY <1>1, <1>2, <1>3

\* There is one way to divide with a remainder.
LEMMA DivModUnique ==
  ASSUME NEW n \in Nat \ {0}, NEW q \in Int, NEW r \in 0 .. n - 1, NEW x \in Int,
         x = n * q + r
  PROVE  x \div n = q /\ x % n = r
<1>1. /\ x \div n \in Int /\ x % n \in 0 .. n - 1
      /\ x = n * (x \div n) + (x % n)
  BY DivMod
<1> DEFINE p == x \div n
           s == x % n
<1> HIDE DEF p, s
<1>2. p \in Int /\ s \in 0 .. n - 1 /\ n * p + s = n * q + r
  BY <1>1 DEF p, s
<1>3. ~(p <= q - 1)
  <2> SUFFICES ASSUME p <= q - 1 PROVE FALSE
    OBVIOUS
  <2>1. n * p <= n * (q - 1)
    BY <1>2, TimesMonotone
  <2>2. n * (q - 1) = n * q - n /\ n * q \in Int /\ n * p \in Int
    BY <1>2
  <2> QED
    BY <1>2, <2>1, <2>2
<1>4. ~(q <= p - 1)
  <2> SUFFICES ASSUME q <= p - 1 PROVE FALSE
    OBVIOUS
  <2>1. n * q <= n * (p - 1)
    BY <1>2, TimesMonotone
  <2>2. n * (p - 1) = n * p - n /\ n * q \in Int /\ n * p \in Int
    BY <1>2
  <2> QED
    BY <1>2, <2>1, <2>2
<1>5. p = q
  BY <1>2, <1>3, <1>4
<1> QED
  BY <1>2, <1>5 DEF p, s

\* Whole turns do not change a remainder.
LEMMA RemainderOfTurns ==
  ASSUME NEW n \in Nat \ {0}, NEW x \in Int, NEW k \in Int
  PROVE  (x + n * k) % n = x % n
<1>1. /\ x \div n \in Int /\ x % n \in 0 .. n - 1
      /\ x = n * (x \div n) + (x % n)
  BY DivMod
<1> DEFINE q == x \div n
           r == x % n
           y == x + n * k
<1> HIDE DEF q, r
<1>2. q \in Int /\ r \in 0 .. n - 1 /\ x = n * q + r
  BY <1>1 DEF q, r
<1>3. n * (q + k) = n * q + n * k /\ n * k \in Int /\ n * q \in Int
  BY <1>2
<1>4. y \in Int /\ y = n * (q + k) + r /\ q + k \in Int
  BY <1>2, <1>3
<1> HIDE DEF y
<1>5. y % n = r
  BY <1>2, <1>4, DivModUnique
<1> QED
  BY <1>5 DEF y, r

\* A remainder may be taken early.
LEMMA RemainderEarly ==
  ASSUME NEW n \in Nat \ {0}, NEW x \in Int, NEW y \in Int
  PROVE  ((x % n) + y) % n = (x + y) % n
<1> DEFINE q == x \div n
           r == x % n
           z == r + y
<1>1. q \in Int /\ r \in 0 .. n - 1 /\ x = n * q + r
  BY DivMod
<1> HIDE DEF q, r
<1>2. z \in Int
  BY <1>1
<1>3. x + y = z + n * q
  BY <1>1
<1> HIDE DEF z
<1>4. (z + n * q) % n = z % n
  BY <1>1, <1>2, RemainderOfTurns
<1> QED
  BY <1>3, <1>4 DEF z, r

\* A number within the range is its own remainder.
LEMMA RemainderSmall ==
  ASSUME NEW n \in Nat \ {0}, NEW x \in 0 .. n - 1
  PROVE  x % n = x /\ x \div n = 0
<1>1. x = n * 0 + x
  OBVIOUS
<1> QED
  BY <1>1, DivModUnique

\* Seconds modulo n, in units of which a second has m.
LEMMA RemainderScaled ==
  ASSUME NEW n \in Nat \ {0}, NEW m \in Nat \ {0}, NEW a \in Int, NEW r \in 0 .. m - 1
  PROVE  /\ n * m \in Nat \ {0}
         /\ (a % n) * m + r = (a * m + r) % (n * m)
<1> DEFINE q == a \div n
           s == a % n
           w == n * m
           v == s * m + r
           x == a * m + r
<1>1. q \in Int /\ s \in 0 .. n - 1 /\ a = n * q + s
  BY DivMod
<1> HIDE DEF q, s
<1>2. w \in Nat \ {0}
  OBVIOUS
<1>3. v \in 0 .. w - 1
  <2>1. s * m \in Nat
    BY <1>1
  <2>2. m * s <= m * (n - 1)
    BY <1>1, TimesMonotone
  <2>3. m * (n - 1) = w - m /\ m * s = s * m
    BY <1>1
  <2> QED
    BY <1>2, <2>1, <2>2, <2>3
<1>4. x = w * q + v
  <2>1. a * m = (n * q) * m + s * m
    BY <1>1
  <2>2. (n * q) * m = (n * m) * q
    BY <1>1
  <2>3. s * m \in Int /\ (n * m) * q \in Int
    BY <1>1
  <2> QED
    BY <1>1, <2>1, <2>2, <2>3
<1>5. x \in Int
  OBVIOUS
<1> HIDE DEF w, v, x
<1>6. x % w = v
  BY <1>1, <1>2, <1>3, <1>4, <1>5, DivModUnique
<1> QED
  BY <1>2, <1>6 DEF w, v, x, s

----------------------------------------------------------------------------
(* Time *)

\* What the assumptions say of the derived constants.
LEMMA Units ==
  /\ NsPerSec \in Nat \ {0} /\ Wrap \in Nat \ {0} /\ Half \in Nat /\ Wrap = 2 * Half
  /\ Half > 2 * NsPerSec /\ Wrap * NsPerSec \in Nat \ {0}
<1>1. NsPerSec \in Nat \ {0}
  BY ClockAssumption DEF NsPerSec
<1>2. Half \in Nat /\ Wrap = 2 * Half /\ Half > 2 * NsPerSec
  BY ClockAssumption DEF Half
<1>3. Wrap \in Nat \ {0}
  BY <1>1, <1>2
<1> QED
  BY <1>1, <1>2, <1>3

\* normalizeSecNSec() keeps the value, modulo the range of the seconds, and
\* leaves less than a second of nanoseconds.
LEMMA NormalizeExact ==
  ASSUME NEW sec \in Int, NEW nsec \in Nat
  PROVE  LET t == normalizeSecNSec(sec, nsec)
         IN  /\ t.sec \in 0 .. Wrap - 1 /\ t.nsec \in 0 .. NsPerSec - 1
             /\ TimeNs(t) = (sec * NsPerSec + nsec) % (Wrap * NsPerSec)
<1> DEFINE q == nsec \div NsPerSec
           r == nsec % NsPerSec
           t == normalizeSecNSec(sec, nsec)
           N == NsPerSec
<1>1. q \in Int /\ r \in 0 .. N - 1 /\ nsec = N * q + r
  BY Units, DivMod
<1>2. t.sec = (sec + q) % Wrap /\ t.nsec = r
  BY DEF normalizeSecNSec, Unsigned
<1> HIDE DEF q, r, t
<1>3. t.sec \in 0 .. Wrap - 1
  BY <1>1, <1>2, Units, DivMod
<1>4. TimeNs(t) = ((sec + q) % Wrap) * N + r
  BY <1>2 DEF TimeNs
<1>5. sec + q \in Int /\ N \in Nat \ {0} /\ Wrap \in Nat \ {0}
  BY <1>1, Units
<1> HIDE DEF N
<1>6. ((sec + q) % Wrap) * N + r = ((sec + q) * N + r) % (Wrap * N)
  BY <1>1, <1>5, RemainderScaled
<1>7. (sec + q) * N + r = sec * N + nsec
  BY <1>1, <1>5
<1> QED
  BY <1>1, <1>2, <1>3, <1>4, <1>6, <1>7 DEF t, N

\* Seconds that wrap before normalizeSecNSec() sees them make no difference.
LEMMA NormalizeWrapped ==
  ASSUME NEW sec \in Int, NEW nsec \in 0 .. Wrap - 1
  PROVE  LET t == normalizeSecNSec(Unsigned(sec), Unsigned(nsec))
         IN  /\ t.sec \in 0 .. Wrap - 1 /\ t.nsec \in 0 .. NsPerSec - 1
             /\ TimeNs(t) = (sec * NsPerSec + nsec) % (Wrap * NsPerSec)
<1> DEFINE q == sec \div Wrap
           u == sec % Wrap
           N == NsPerSec
           w == Wrap * N
           t == normalizeSecNSec(Unsigned(sec), Unsigned(nsec))
<1>1. q \in Int /\ u \in 0 .. Wrap - 1 /\ sec = Wrap * q + u
  BY Units, DivMod
<1>2. Unsigned(nsec) = nsec /\ nsec \in Nat
  BY Units, RemainderSmall DEF Unsigned
<1>3. Unsigned(sec) = u /\ u \in Int
  BY <1>1 DEF Unsigned
<1>4. t = normalizeSecNSec(u, nsec)
  BY <1>2, <1>3
<1> HIDE DEF q, u, t
<1>5. /\ t.sec \in 0 .. Wrap - 1 /\ t.nsec \in 0 .. NsPerSec - 1
      /\ TimeNs(t) = (u * NsPerSec + nsec) % (Wrap * NsPerSec)
  BY <1>2, <1>3, <1>4, NormalizeExact
<1>6. (u * N + nsec) % w = (sec * N + nsec) % w
  <2> DEFINE x == u * N + nsec
  <2>1. N \in Nat \ {0} /\ Wrap \in Nat \ {0} /\ w \in Nat \ {0}
    BY Units
  <2> HIDE DEF N
  <2>2. x \in Int
    BY <1>2, <1>3, <2>1
  <2>3. sec * N + nsec = x + w * q
    <3>1. sec * N = (Wrap * q) * N + u * N
      BY <1>1, <1>3, <2>1
    <3>2. (Wrap * q) * N = (Wrap * N) * q /\ (Wrap * N) * q \in Int /\ u * N \in Int
      BY <1>1, <1>3, <2>1
    <3> QED
      BY <1>2, <3>1, <3>2
  <2> HIDE DEF x, w
  <2>4. (x + w * q) % w = x % w
    BY <1>1, <2>1, <2>2, RemainderOfTurns
  <2> QED
    BY <2>3, <2>4 DEF x
<1> QED
  BY <1>5, <1>6 DEF t, N, w

Times == [sec : 0 .. Wrap - 1, nsec : 0 .. NsPerSec]
DurationRecords == [sec : Int, nsec : 0 .. NsPerSec]

\* The sum and the difference of a Time and a Duration are exact: the seconds may
\* wrap below 0, but the nanoseconds fit the width.
LEMMA SumExact ==
  ASSUME NEW t \in Times, NEW d \in DurationRecords
  PROVE  /\ Time_add(t, d) \in Times /\ Time_add(t, d).nsec < NsPerSec
         /\ TimeNs(Time_add(t, d)) = (TimeNs(t) + DurationNs(d)) % (Wrap * NsPerSec)
         /\ Time_subtract(t, d) \in Times /\ Time_subtract(t, d).nsec < NsPerSec
         /\ TimeNs(Time_subtract(t, d)) = (TimeNs(t) - DurationNs(d)) % (Wrap * NsPerSec)
<1> DEFINE N == NsPerSec
<1>1. /\ t.sec \in Int /\ t.nsec \in 0 .. N /\ d.sec \in Int /\ d.nsec \in 0 .. N
      /\ N \in Nat \ {0} /\ Wrap \in Nat /\ Wrap > 4 * N
  BY Units DEF Times, DurationRecords
<1>2. \A s, n : normalizeSecNSec(s, n) = [sec |-> normalizeSecNSec(s, n).sec,
                                          nsec |-> normalizeSecNSec(s, n).nsec]
  BY DEF normalizeSecNSec
<1> HIDE DEF N
<1>3. /\ Time_add(t, d) \in Times /\ Time_add(t, d).nsec < NsPerSec
      /\ TimeNs(Time_add(t, d)) = (TimeNs(t) + DurationNs(d)) % (Wrap * NsPerSec)
  <2> DEFINE a == t.sec - 1 + d.sec
             b == t.nsec + N + d.nsec
             r == normalizeSecNSec(Unsigned(a), Unsigned(b))
  <2>1. a \in Int /\ b \in 0 .. Wrap - 1
    BY <1>1
  <2>2. a * N + b = (t.sec * N + t.nsec) + (d.sec * N + d.nsec)
    BY <1>1
  <2>3. Time_add(t, d) = r
    BY DEF Time_add, N
  <2> HIDE DEF a, b
  <2>4. /\ r.sec \in 0 .. Wrap - 1 /\ r.nsec \in 0 .. NsPerSec - 1
        /\ TimeNs(r) = (a * NsPerSec + b) % (Wrap * NsPerSec)
    BY <2>1, NormalizeWrapped
  <2>5. r = [sec |-> r.sec, nsec |-> r.nsec]
    BY <1>2
  <2> HIDE DEF r
  <2>6. r \in Times /\ r.nsec < NsPerSec
    BY <2>4, <2>5, Units DEF Times
  <2> QED
    BY <2>2, <2>3, <2>4, <2>6 DEF N, TimeNs, DurationNs
<1>4. /\ Time_subtract(t, d) \in Times /\ Time_subtract(t, d).nsec < NsPerSec
      /\ TimeNs(Time_subtract(t, d)) = (TimeNs(t) - DurationNs(d)) % (Wrap * NsPerSec)
  <2> DEFINE a == t.sec - 1 - d.sec
             b == t.nsec + N - d.nsec
             r == normalizeSecNSec(Unsigned(a), Unsigned(b))
  <2>1. a \in Int /\ b \in 0 .. Wrap - 1
    BY <1>1
  <2>2. a * N + b = (t.sec * N + t.nsec) - (d.sec * N + d.nsec)
    BY <1>1
  <2>3. Time_subtract(t, d) = r
    BY DEF Time_subtract, N
  <2> HIDE DEF a, b
  <2>4. /\ r.sec \in 0 .. Wrap - 1 /\ r.nsec \in 0 .. NsPerSec - 1
        /\ TimeNs(r) = (a * NsPerSec + b) % (Wrap * NsPerSec)
    BY <2>1, NormalizeWrapped
  <2>5. r = [sec |-> r.sec, nsec |-> r.nsec]
    BY <1>2
  <2> HIDE DEF r
  <2>6. r \in Times /\ r.nsec < NsPerSec
    BY <2>4, <2>5, Units DEF Times
  <2> QED
    BY <2>2, <2>3, <2>4, <2>6 DEF N, TimeNs, DurationNs
<1> QED
  BY <1>3, <1>4

\* A Time made from nanoseconds that are not negative and fit a signed integer.
LEMMA FromNSecExact ==
  ASSUME NEW n \in 0 .. Half - 1
  PROVE  /\ Time_fromNSec(n) \in Times /\ Time_fromNSec(n).nsec < NsPerSec
         /\ TimeNs(Time_fromNSec(n)) = n
<1> DEFINE N == NsPerSec
           q == n \div N
           s == n % N
           w == Wrap * N
           r == normalizeSecNSec(Unsigned(q), Unsigned(s))
<1>1. /\ N \in Nat \ {0} /\ Wrap \in Nat \ {0} /\ Half \in Nat /\ Wrap = 2 * Half
      /\ Half > 2 * N /\ w \in Nat \ {0}
  BY Units
<1>2. q \in Int /\ s \in 0 .. N - 1 /\ n = N * q + s
  BY <1>1, DivMod
<1>3. Time_fromNSec(n) = r
  <2>1. Quotient(n, NsPerSec) = q
    BY <1>1 DEF Quotient
  <2> HIDE DEF q, s
  <2>2. n - N * q = s
    BY <1>1, <1>2
  <2> QED
    BY <2>1, <2>2 DEF Time_fromNSec
<1> HIDE DEF q, s
<1>4. s \in 0 .. Wrap - 1
  BY <1>1, <1>2
<1>5. /\ r.sec \in 0 .. Wrap - 1 /\ r.nsec \in 0 .. NsPerSec - 1
      /\ TimeNs(r) = (q * NsPerSec + s) % (Wrap * NsPerSec)
  BY <1>2, <1>4, NormalizeWrapped
<1>6. q * N + s = n
  BY <1>1, <1>2
<1>7. n % w = n
  <2>1. Wrap * 1 <= Wrap * N
    BY <1>1, TimesMonotone
  <2>2. n \in 0 .. w - 1
    BY <1>1, <2>1
  <2> HIDE DEF w
  <2> QED
    BY <1>1, <2>2, RemainderSmall
<1>8. r = [sec |-> r.sec, nsec |-> r.nsec]
  BY DEF normalizeSecNSec
<1> HIDE DEF r
<1>9. r \in Times /\ r.nsec < NsPerSec
  BY <1>1, <1>5, <1>8 DEF Times
<1> QED
  BY <1>3, <1>5, <1>6, <1>7, <1>9

\* A Time or a Duration made from seconds, here h half nanoseconds: rounded, with
\* up to a whole second of nanoseconds.
LEMMA FromSecExact ==
  ASSUME NEW h \in 0 .. 2 * Half
  PROVE  /\ Time_fromSec(h) \in Times /\ TimeNs(Time_fromSec(h)) = (h + 1) \div 2
         /\ Duration_fromSec(h) \in DurationRecords
         /\ DurationNs(Duration_fromSec(h)) = (h + 1) \div 2
<1> DEFINE N == NsPerSec
           m == 2 * N
           q == h \div m
           s == h % m
           c == (s + 1) \div 2
<1>1. /\ N \in Nat \ {0} /\ Wrap \in Nat \ {0} /\ Half \in Nat /\ Wrap = 2 * Half
      /\ Half > 2 * N
  BY Units
<1>2. N > 1
  <2>1. Half > 2 * N /\ Half < 3 * N
    BY ClockAssumption
  <2> QED
    BY <1>1, <2>1
<1> HIDE DEF N
<1>3. m \in Nat \ {0}
  BY <1>1
<1> HIDE DEF m
<1>4. q \in Int /\ s \in 0 .. m - 1 /\ h = m * q + s
  BY <1>3, DivMod
<1> HIDE DEF q, s
<1>5. q \in 0 .. Half - 1
  <2>1. ~(q <= -1)
    <3> SUFFICES ASSUME q <= -1 PROVE FALSE
      OBVIOUS
    <3>1. m * q <= m * (-1)
      BY <1>3, <1>4, TimesMonotone
    <3> QED
      BY <1>3, <1>4, <3>1
  <2>2. ~(Half <= q)
    <3> SUFFICES ASSUME Half <= q PROVE FALSE
      OBVIOUS
    <3>1. m * Half <= m * q
      BY <1>1, <1>3, <1>4, TimesMonotone
    <3>2. Half * 4 <= Half * m
      <4>1. 4 <= m
        BY <1>1, <1>2 DEF m
      <4> QED
        BY <1>1, <1>3, <4>1, TimesMonotone
    <3>3. Half * m = m * Half
      BY <1>1, <1>3
    <3> QED
      BY <1>1, <1>3, <1>4, <3>1, <3>2, <3>3
  <2> QED
    BY <1>1, <1>4, <2>1, <2>2
<1>6. Unsigned(q) = q /\ Signed(q) = q
  <2>1. q \in 0 .. Wrap - 1
    BY <1>1, <1>5
  <2>2. q % Wrap = q
    BY <1>1, <2>1, RemainderSmall
  <2> QED
    BY <1>1, <1>5, <2>2 DEF Unsigned, Signed
<1>7. c \in 0 .. N
  BY <1>1, <1>4 DEF m
<1>8. (h - m * q + 1) \div 2 = c
  <2>1. h - m * q + 1 = s + 1
    BY <1>3, <1>4
  <2> QED
    BY <2>1
<1>9. q * N + c = (h + 1) \div 2
  <2> DEFINE z == q * N
  <2>1. z \in Int /\ m * q = 2 * z
    BY <1>1, <1>4 DEF m
  <2> HIDE DEF z
  <2>2. h + 1 = 2 * z + (s + 1) /\ s \in Int
    BY <1>3, <1>4, <2>1
  <2>3. (2 * z + (s + 1)) \div 2 = z + ((s + 1) \div 2)
    BY <2>1, <2>2
  <2> QED
    BY <2>2, <2>3 DEF z
<1>10. /\ Time_fromSec(h) = [sec |-> q, nsec |-> c]
       /\ Duration_fromSec(h) = [sec |-> q, nsec |-> c]
  BY <1>6, <1>8 DEF Time_fromSec, Duration_fromSec, q, m, N
<1> HIDE DEF c
<1>11. q \in Int /\ q \in 0 .. Wrap - 1
  BY <1>1, <1>5
<1> QED
  BY <1>7, <1>9, <1>10, <1>11 DEF Times, DurationRecords, TimeNs, DurationNs, N

----------------------------------------------------------------------------
(* Duration *)

\* normalizeSecNSecSigned() keeps the value and leaves 0 to NsPerSec nanoseconds.
LEMMA NormalizeSignedExact ==
  ASSUME NEW sec \in Int, NEW nsec \in Int
  PROVE  /\ normalizeSecNSecSigned(sec, nsec) \in DurationRecords
         /\ DurationNs(normalizeSecNSecSigned(sec, nsec)) = sec * NsPerSec + nsec
         /\ nsec \in -NsPerSec .. NsPerSec
              => normalizeSecNSecSigned(sec, nsec).sec \in sec - 1 .. sec
<1> DEFINE N == NsPerSec
           d == normalizeSecNSecSigned(sec, nsec)
           k == IF nsec > N THEN (nsec - 1) \div N ELSE IF nsec < 0 THEN nsec \div N ELSE 0
<1>1. N \in Nat \ {0}
  BY Units
<1>2. d = [sec |-> sec + k, nsec |-> nsec - k * N]
  BY DEF normalizeSecNSecSigned
<1> HIDE DEF N, d
<1>3. k \in Int /\ nsec - k * N \in 0 .. N /\ (nsec \in -N .. N => k \in {-1, 0})
  <2>1. CASE nsec > N
    <3> DEFINE x == nsec - 1
               q == x \div N
               r == x % N
    <3>1. x \in Int
      OBVIOUS
    <3> HIDE DEF x
    <3>2. q \in Int /\ r \in 0 .. N - 1 /\ x = N * q + r
      BY <1>1, <3>1, DivMod
    <3>3. k = q
      BY <2>1 DEF x
    <3> HIDE DEF q, r, k
    <3>4. N * q = q * N
      BY <1>1, <3>2
    <3>5. nsec - q * N = r + 1
      BY <1>1, <3>2, <3>4 DEF x
    <3> QED
      BY <1>1, <2>1, <3>2, <3>3, <3>5
  <2>2. CASE nsec < 0
    <3> DEFINE q == nsec \div N
               r == nsec % N
    <3>1. q \in Int /\ r \in 0 .. N - 1 /\ nsec = N * q + r
      BY <1>1, DivMod
    <3>2. k = q
      BY <1>1, <2>2
    <3> HIDE DEF q, r, k
    <3>3. N * q = q * N
      BY <1>1, <3>1
    <3>4. nsec - q * N = r
      BY <1>1, <3>1, <3>3
    <3>5. nsec \in -N .. N => q = -1
      <4> SUFFICES ASSUME nsec >= -N PROVE q = -1
        BY <1>1
      <4>1. ~(q <= -2)
        <5> SUFFICES ASSUME q <= -2 PROVE FALSE
          OBVIOUS
        <5>1. N * q <= N * (-2)
          BY <1>1, <3>1, TimesMonotone
        <5> QED
          BY <1>1, <3>1, <5>1
      <4>2. ~(0 <= q)
        <5> SUFFICES ASSUME 0 <= q PROVE FALSE
          OBVIOUS
        <5>1. N * 0 <= N * q
          BY <1>1, <3>1, TimesMonotone
        <5> QED
          BY <1>1, <2>2, <3>1, <5>1
      <4> QED
        BY <3>1, <4>1, <4>2
    <3> QED
      BY <1>1, <3>1, <3>2, <3>4, <3>5
  <2>3. CASE ~(nsec > N) /\ ~(nsec < 0)
    BY <1>1, <2>3
  <2> QED
    BY <2>1, <2>2, <2>3
<1> HIDE DEF k
<1>4. (sec + k) * N + (nsec - k * N) = sec * N + nsec
  BY <1>1, <1>3
<1>5. d \in DurationRecords /\ (nsec \in -N .. N => d.sec \in sec - 1 .. sec)
  BY <1>2, <1>3 DEF DurationRecords, N
<1>6. DurationNs(d) = sec * N + nsec
  BY <1>2, <1>4 DEF DurationNs, N
<1> QED
  BY <1>5, <1>6 DEF d, N

\* A number that fits a signed integer is what becomes of it, also after turns.
LEMMA SignedOf ==
  ASSUME NEW y \in -Half .. Half - 1, NEW k \in Int
  PROVE  Signed(y + Wrap * k) = y
<1> DEFINE x == y + Wrap * k
<1>1. Wrap \in Nat \ {0} /\ Half \in Nat /\ Wrap = 2 * Half
  BY Units
<1>2. y \in Int
  OBVIOUS
<1>3. x % Wrap = y % Wrap
  BY <1>1, <1>2, RemainderOfTurns
<1>4. CASE y >= 0
  <2>1. y \in 0 .. Wrap - 1
    BY <1>1, <1>4
  <2>2. y % Wrap = y
    BY <1>1, <2>1, RemainderSmall
  <2> HIDE DEF x
  <2>3. Signed(x) = y
    BY <1>3, <1>1, <1>2, <2>2 DEF Signed
  <2> QED
    BY <2>3 DEF x
<1>5. CASE y < 0
  <2> DEFINE z == y + Wrap
  <2>1. z \in 0 .. Wrap - 1
    BY <1>1, <1>5
  <2>2. z % Wrap = y % Wrap
    <3>1. PICK j \in Int : j = 1
      OBVIOUS
    <3>2. (y + Wrap * j) % Wrap = y % Wrap
      BY <1>1, <1>2, RemainderOfTurns
    <3>3. y + Wrap * j = z
      BY <1>1, <3>1
    <3> QED
      BY <3>2, <3>3
  <2>3. z % Wrap = z
    <3> HIDE DEF z
    <3> QED
      BY <1>1, <2>1, RemainderSmall
  <2>4. y % Wrap = z /\ z >= Half /\ z - Wrap = y
    BY <1>1, <2>1, <2>2, <2>3
  <2> HIDE DEF x, z
  <2>5. Signed(x) = y
    BY <1>3, <1>1, <1>2, <2>1, <2>4 DEF Signed
  <2> QED
    BY <2>5 DEF x
<1> QED
  BY <1>4, <1>5

\* The Durations of the model are as the constructor leaves them.
LEMMA DurationsSound ==
  ASSUME NEW e \in Durations
  PROVE  e \in DurationRecords /\ e.sec \in -2 .. 1
<1>1. PICK s \in -1 .. 1, n \in {-1, 0, 1, NsPerSec \div 2, NsPerSec} :
        e = normalizeSecNSecSigned(s, n)
  BY DEF Durations
<1>2. n \in -NsPerSec .. NsPerSec /\ n \in Int /\ s \in Int
  <2>1. NsPerSec \in Nat \ {0}
    BY Units
  <2>2. NsPerSec \div 2 \in 0 .. NsPerSec
    BY <2>1
  <2> QED
    BY <2>1, <2>2
<1>3. e \in DurationRecords /\ e.sec \in s - 1 .. s
  BY <1>1, <1>2, NormalizeSignedExact
<1> QED
  BY <1>3

\* The difference of two Times, one of which is a Duration before the other, is
\* that Duration, also where the seconds wrap between the two.
LEMMA SinceExact ==
  ASSUME NEW t \in Times, NEW b \in DurationRecords, b.sec \in -2 .. 1
  PROVE  /\ Time_minus(t, Time_subtract(t, b)) \in DurationRecords
         /\ DurationNs(Time_minus(t, Time_subtract(t, b))) = DurationNs(b)
<1> DEFINE N == NsPerSec
           a == t.sec - 1 - b.sec
           n == t.nsec + N - b.nsec
           q == n \div N
           r == n % N
           u == Time_subtract(t, b)
           y == 1 + b.sec - q
<1>1. /\ N \in Nat \ {0} /\ Wrap \in Nat \ {0} /\ Half \in Nat /\ Wrap = 2 * Half
      /\ Half > 2 * N /\ Half > 4
  <2>1. Half > 2 * N /\ Half < 3 * N
    BY ClockAssumption
  <2> QED
    BY <2>1, Units
<1>2. /\ t.sec \in Int /\ t.nsec \in 0 .. N /\ b.sec \in -2 .. 1 /\ b.nsec \in 0 .. N
  BY <1>1 DEF Times, DurationRecords
<1>3. u = normalizeSecNSec(Unsigned(a), Unsigned(n))
  BY DEF Time_subtract
<1> HIDE DEF N, u
<1>4. a \in Int /\ n \in 0 .. 2 * N /\ n \in 0 .. Wrap - 1
  BY <1>1, <1>2
<1>5. q \in Int /\ r \in 0 .. N - 1 /\ n = N * q + r
  <2> HIDE DEF n
  <2> QED
    BY <1>1, <1>4, DivMod
<1>6. q \in 0 .. 2
  <2> HIDE DEF q, r, n
  <2>1. ~(q <= -1)
    <3> SUFFICES ASSUME q <= -1 PROVE FALSE
      OBVIOUS
    <3>1. N * q <= N * (-1)
      BY <1>1, <1>5, TimesMonotone
    <3> QED
      BY <1>1, <1>4, <1>5, <3>1
  <2>2. ~(3 <= q)
    <3> SUFFICES ASSUME 3 <= q PROVE FALSE
      OBVIOUS
    <3>1. N * 3 <= N * q
      BY <1>1, <1>5, TimesMonotone
    <3> QED
      BY <1>1, <1>4, <1>5, <3>1
  <2> QED
    BY <1>5, <2>1, <2>2
<1>7. u.sec = (a + q) % Wrap /\ u.nsec = r
  <2> HIDE DEF a, n
  <2>1. Unsigned(n) = n
    BY <1>1, <1>4, RemainderSmall DEF Unsigned
  <2>2. u.sec = ((a % Wrap) + q) % Wrap /\ u.nsec = r
    BY <1>3, <2>1 DEF normalizeSecNSec, Unsigned, N
  <2> HIDE DEF q
  <2> QED
    BY <1>1, <1>4, <1>5, <2>2, RemainderEarly
<1> HIDE DEF q, r
<1> DEFINE z == a + q
           p == z \div Wrap
<1>8. z \in Int /\ y \in -Half .. Half - 1 /\ y \in Int /\ t.sec - z = y
  <2>1. q \in Int /\ q >= 0 /\ q <= 2 /\ b.sec \in Int /\ b.sec >= -2 /\ b.sec <= 1
    BY <1>2, <1>6
  <2>2. z \in Int /\ y \in Int /\ t.sec - z = y /\ y >= -3 /\ y <= 2
    BY <1>2, <2>1
  <2> HIDE DEF y, z
  <2> QED
    BY <1>1, <2>2
<1>9. p \in Int /\ u.sec \in 0 .. Wrap - 1 /\ z = Wrap * p + u.sec
  <2>1. u.sec = z % Wrap
    BY <1>7
  <2> HIDE DEF z
  <2>2. /\ z \div Wrap \in Int /\ z % Wrap \in 0 .. Wrap - 1
        /\ z = Wrap * (z \div Wrap) + (z % Wrap)
    BY <1>1, <1>8, DivMod
  <2> QED
    BY <2>1, <2>2
<1> HIDE DEF z, p
<1>10. Signed(t.sec - u.sec) = y
  <2>1. t.sec - u.sec = y + Wrap * p
    <3>1. Wrap * p \in Int
      BY <1>1, <1>9
    <3> QED
      BY <1>2, <1>8, <1>9, <3>1
  <2> HIDE DEF y
  <2> QED
    BY <1>8, <1>9, <2>1, SignedOf
<1> DEFINE m == t.nsec - r
<1>11. m \in Int /\ Signed(m) = m
  <2>1. m \in -Half .. Half - 1 /\ m \in Int
    BY <1>1, <1>2, <1>5
  <2> HIDE DEF m
  <2>2. m = m + Wrap * 0
    BY <1>1, <2>1
  <2> QED
    BY <2>1, <2>2, SignedOf
<1>12. Time_minus(t, u) = normalizeSecNSecSigned(y, m)
  <2>1. -(u.sec - t.sec) = t.sec - u.sec /\ -(r - t.nsec) = m
    BY <1>2, <1>5, <1>9
  <2> HIDE DEF y
  <2> QED
    BY <1>7, <1>10, <1>11, <2>1 DEF Time_minus
<1>13. y * N + m = b.sec * N + b.nsec
  <2>1. y * N = N + b.sec * N - q * N /\ q * N = N * q /\ b.sec * N \in Int /\ q * N \in Int
    BY <1>1, <1>2, <1>6
  <2>2. q * N + r = t.nsec + N - b.nsec
    BY <1>5, <2>1
  <2>3. /\ N \in Int /\ b.nsec \in Int /\ t.nsec \in Int /\ r \in Int /\ y * N \in Int
        /\ m = t.nsec - r
    BY <1>1, <1>2, <1>5, <2>1
  <2> HIDE DEF y, m, q, r
  <2>4. y * N + m = b.sec * N + (N - (q * N + r) + t.nsec)
    BY <2>1, <2>3
  <2> QED
    BY <2>1, <2>2, <2>3, <2>4
<1> HIDE DEF y, m
<1> QED
  BY <1>8, <1>11, <1>12, <1>13, NormalizeSignedExact DEF u, N, DurationNs

----------------------------------------------------------------------------
(* The calculator *)

Calculations == [t : Times, d : DurationRecords, tv : Int, dv : Int, rounded : BOOLEAN]

\* TimeExact does not bound the seconds, on which the next step depends.
CalcInv == calc \in Calculations /\ TimeExact

\* A step that replaces the Time by one of the right value.
LEMMA TimeStep ==
  ASSUME CalcInv, NEW t \in Times, NEW v \in Int, NEW r \in BOOLEAN,
         TimeNs(t) = v, t.nsec = NsPerSec => r,
         calc' = [calc EXCEPT !.t = t, !.tv = v, !.rounded = r]
  PROVE  CalcInv'
<1>1. /\ calc'.t = t /\ calc'.tv = v /\ calc'.rounded = r /\ calc'.d = calc.d
      /\ calc'.dv = calc.dv /\ calc' \in Calculations
  BY DEF CalcInv, Calculations
<1>2. t.nsec \in 0 .. NsPerSec
  BY DEF Times
<1>3. TimeExact'
  BY <1>1, <1>2 DEF CalcInv, TimeExact, TimeNs, DurationNs, InSigned, Durations,
     normalizeSecNSecSigned
<1> QED
  BY <1>1, <1>3 DEF CalcInv, Calculations, Times, DurationRecords

\* A step that replaces the Duration by one of the right value.
LEMMA DurationStep ==
  ASSUME CalcInv, NEW d \in DurationRecords, NEW v \in Int, DurationNs(d) = v,
         calc' = [calc EXCEPT !.d = d, !.dv = v]
  PROVE  CalcInv'
<1>1. /\ calc'.d = d /\ calc'.dv = v /\ calc'.t = calc.t /\ calc'.tv = calc.tv
      /\ calc'.rounded = calc.rounded /\ calc' \in Calculations
  BY DEF CalcInv, Calculations
<1>2. d.nsec \in 0 .. NsPerSec
  BY DEF DurationRecords
<1>3. \A e \in Durations : InSigned(d.nsec + e.nsec) /\ InSigned(d.nsec - e.nsec)
  <2> SUFFICES ASSUME NEW e \in Durations
               PROVE  InSigned(d.nsec + e.nsec) /\ InSigned(d.nsec - e.nsec)
    OBVIOUS
  <2>1. e.nsec \in 0 .. NsPerSec
    BY DurationsSound DEF DurationRecords
  <2> QED
    BY <1>2, <2>1, Units DEF InSigned
<1>4. TimeExact'
  <2>1. TimeNs(calc.t) = calc.tv /\ calc.t.nsec \in 0 .. NsPerSec
        /\ (calc.t.nsec = NsPerSec => calc.rounded)
    BY DEF CalcInv, TimeExact
  <2> QED
    BY <1>1, <1>2, <1>3, <2>1 DEF TimeExact, TimeNs, DurationNs, InSigned, Durations,
       normalizeSecNSecSigned
<1> QED
  BY <1>1, <1>4 DEF CalcInv, Calculations, Times, DurationRecords

\* Each operator of Time and Duration keeps both values exact.
LEMMA StepExact ==
  ASSUME CalcInv, CalcNext
  PROVE  CalcInv'
<1>1. /\ calc.t \in Times /\ calc.d \in DurationRecords /\ calc.tv \in Int /\ calc.dv \in Int
      /\ TimeNs(calc.t) = calc.tv /\ DurationNs(calc.d) = calc.dv
  BY DEF CalcInv, Calculations, TimeExact
<1>2. Wrap * NsPerSec \in Nat \ {0} /\ NsPerSec \in Nat \ {0}
  BY Units
<1>3. \A x \in Int : x % (Wrap * NsPerSec) \in Int
  <2> DEFINE w == Wrap * NsPerSec
  <2>1. w \in Nat \ {0}
    BY <1>2
  <2> HIDE DEF w
  <2>2. \A x \in Int : x % w \in Int
    BY <2>1
  <2> QED
    BY <2>2 DEF w
<1>4. \A e \in DurationRecords : e.sec \in Int /\ e.nsec \in Int /\ DurationNs(e) \in Int
  BY <1>2 DEF DurationRecords, DurationNs
<1>5. ASSUME AddToTime PROVE CalcInv'
  <2> DEFINE t == Time_add(calc.t, calc.d)
             v == (calc.tv + calc.dv) % (Wrap * NsPerSec)
  <2>1. t \in Times /\ t.nsec < NsPerSec /\ TimeNs(t) = v
    BY <1>1, SumExact
  <2>2. v \in Int /\ t.nsec # NsPerSec
    BY <1>1, <1>2, <1>3, <2>1 DEF Times
  <2>3. calc' = [calc EXCEPT !.t = t, !.tv = v, !.rounded = FALSE]
    BY <1>5 DEF AddToTime
  <2> HIDE DEF t, v
  <2> QED
    BY <2>1, <2>2, <2>3, TimeStep
<1>6. ASSUME SubtractFromTime PROVE CalcInv'
  <2> DEFINE t == Time_subtract(calc.t, calc.d)
             v == (calc.tv - calc.dv) % (Wrap * NsPerSec)
  <2>1. t \in Times /\ t.nsec < NsPerSec /\ TimeNs(t) = v
    BY <1>1, SumExact
  <2>2. v \in Int /\ t.nsec # NsPerSec
    BY <1>1, <1>2, <1>3, <2>1 DEF Times
  <2>3. calc' = [calc EXCEPT !.t = t, !.tv = v, !.rounded = FALSE]
    BY <1>6 DEF SubtractFromTime
  <2> HIDE DEF t, v
  <2> QED
    BY <2>1, <2>2, <2>3, TimeStep
<1>7. ASSUME TimeSince PROVE CalcInv'
  <2>1. PICK back \in Durations :
          SetDuration(Time_minus(calc.t, Time_subtract(calc.t, back)), DurationNs(back))
    BY <1>7 DEF TimeSince
  <2> DEFINE d == Time_minus(calc.t, Time_subtract(calc.t, back))
  <2>2. back \in DurationRecords /\ back.sec \in -2 .. 1
    BY DurationsSound
  <2>3. d \in DurationRecords /\ DurationNs(d) = DurationNs(back)
    BY <1>1, <2>2, SinceExact
  <2>4. calc' = [calc EXCEPT !.d = d, !.dv = DurationNs(back)]
    BY <2>1 DEF SetDuration
  <2> HIDE DEF d
  <2>5. DurationNs(back) \in Int
    BY <1>4, <2>2
  <2> QED
    BY <2>3, <2>4, <2>5, DurationStep
<1>8. ASSUME AddToDuration PROVE CalcInv'
  <2>1. PICK e \in Durations : SetDuration(Duration_add(calc.d, e), calc.dv + DurationNs(e))
    BY <1>8 DEF AddToDuration
  <2> DEFINE d == Duration_add(calc.d, e)
             v == calc.dv + DurationNs(e)
  <2>2. e \in DurationRecords
    BY DurationsSound
  <2>3. /\ calc.d.sec \in Int /\ calc.d.nsec \in Int /\ e.sec \in Int /\ e.nsec \in Int
        /\ DurationNs(e) \in Int
    BY <1>1, <1>4, <2>2
  <2>4. d \in DurationRecords
        /\ DurationNs(d) = (calc.d.sec + e.sec) * NsPerSec + (calc.d.nsec + e.nsec)
    BY <2>3, NormalizeSignedExact DEF Duration_add
  <2>5. (calc.d.sec + e.sec) * NsPerSec + (calc.d.nsec + e.nsec) = v
    BY <1>1, <1>2, <2>3 DEF DurationNs
  <2>6. calc' = [calc EXCEPT !.d = d, !.dv = v]
    BY <2>1 DEF SetDuration
  <2>7. v \in Int
    BY <1>1, <2>3
  <2> HIDE DEF d, v
  <2> QED
    BY <2>4, <2>5, <2>6, <2>7, DurationStep
<1>9. ASSUME SubtractFromDuration PROVE CalcInv'
  <2>1. PICK e \in Durations :
          SetDuration(Duration_subtract(calc.d, e), calc.dv - DurationNs(e))
    BY <1>9 DEF SubtractFromDuration
  <2> DEFINE d == Duration_subtract(calc.d, e)
             v == calc.dv - DurationNs(e)
  <2>2. e \in DurationRecords
    BY DurationsSound
  <2>3. /\ calc.d.sec \in Int /\ calc.d.nsec \in Int /\ e.sec \in Int /\ e.nsec \in Int
        /\ DurationNs(e) \in Int
    BY <1>1, <1>4, <2>2
  <2>4. d \in DurationRecords
        /\ DurationNs(d) = (calc.d.sec - e.sec) * NsPerSec + (calc.d.nsec - e.nsec)
    BY <2>3, NormalizeSignedExact DEF Duration_subtract
  <2>5. (calc.d.sec - e.sec) * NsPerSec + (calc.d.nsec - e.nsec) = v
    BY <1>1, <1>2, <2>3 DEF DurationNs
  <2>6. calc' = [calc EXCEPT !.d = d, !.dv = v]
    BY <2>1 DEF SetDuration
  <2>7. v \in Int
    BY <1>1, <2>3
  <2> HIDE DEF d, v
  <2> QED
    BY <2>4, <2>5, <2>6, <2>7, DurationStep
<1>10. ASSUME ScaleDuration PROVE CalcInv'
  <2>1. PICK k \in Scales :
          LET d == Duration_scale(calc.d, k)
          IN  SetDuration(d, IF k[2] = 1 THEN calc.dv * k[1] ELSE DurationNs(d))
    BY <1>10 DEF ScaleDuration
  <2> DEFINE d == Duration_scale(calc.d, k)
             v == IF k[2] = 1 THEN calc.dv * k[1] ELSE DurationNs(d)
             s == Quotient(calc.d.sec * k[1], k[2])
             n == Quotient(calc.d.nsec * k[1], k[2])
  <2>2. k[1] \in Int /\ k[2] \in Nat \ {0}
    BY CalcAssumption
  <2>3. calc.d.sec \in Int /\ calc.d.nsec \in Int
    BY <1>1, <1>4
  <2>4. \A x \in Int, j \in Nat \ {0} : Quotient(x, j) \in Int
    BY DEF Quotient
  <2>5. \A x \in Int : Quotient(x, 1) = x
    BY DEF Quotient
  <2>6. calc.d.sec * k[1] \in Int /\ calc.d.nsec * k[1] \in Int
    BY <2>2, <2>3
  <2>7. s \in Int /\ n \in Int
    BY <2>2, <2>4, <2>6
  <2>8. d = normalizeSecNSecSigned(s, n)
    BY DEF Duration_scale
  <2> HIDE DEF s, n
  <2>9. d \in DurationRecords /\ DurationNs(d) = s * NsPerSec + n
    BY <2>7, <2>8, NormalizeSignedExact
  <2>10. k[2] = 1 => s = calc.d.sec * k[1] /\ n = calc.d.nsec * k[1]
    BY <2>5, <2>6 DEF s, n
  <2>11. DurationNs(d) = v
    <3>1. CASE k[2] = 1
      <4>1. DurationNs(d) = (calc.d.sec * k[1]) * NsPerSec + calc.d.nsec * k[1]
        BY <2>9, <2>10, <3>1
      <4>2. (calc.d.sec * k[1]) * NsPerSec + calc.d.nsec * k[1]
              = (calc.d.sec * NsPerSec + calc.d.nsec) * k[1]
        BY <1>2, <2>2, <2>3
      <4>3. calc.d.sec * NsPerSec + calc.d.nsec = calc.dv
        BY <1>1 DEF DurationNs
      <4> QED
        BY <3>1, <4>1, <4>2, <4>3
    <3>2. CASE k[2] # 1
      BY <3>2
    <3> QED
      BY <3>1, <3>2
  <2>12. calc' = [calc EXCEPT !.d = d, !.dv = v]
    BY <2>1 DEF SetDuration
  <2> HIDE DEF d, v
  <2>13. v \in Int
    BY <1>4, <2>9, <2>11
  <2> QED
    BY <2>9, <2>11, <2>12, <2>13, DurationStep
<1>11. ASSUME SetFromNSec PROVE CalcInv'
  <2>1. PICK n \in 0 .. Half - 1 :
          calc' = [calc EXCEPT !.t = Time_fromNSec(n), !.tv = n, !.rounded = FALSE]
    BY <1>11 DEF SetFromNSec
  <2> DEFINE t == Time_fromNSec(n)
  <2>2. t \in Times /\ t.nsec < NsPerSec /\ TimeNs(t) = n
    BY FromNSecExact
  <2>3. calc' = [calc EXCEPT !.t = t, !.tv = n, !.rounded = FALSE]
    BY <2>1
  <2> HIDE DEF t
  <2>4. t.nsec # NsPerSec /\ n \in Int
    BY <1>2, <2>2 DEF Times
  <2> QED
    BY <2>2, <2>3, <2>4, TimeStep
<1>12. ASSUME SetFromSec PROVE CalcInv'
  <2>1. PICK h \in 0 .. 2 * Half :
          calc' = [calc EXCEPT !.t = Time_fromSec(h), !.tv = (h + 1) \div 2, !.rounded = TRUE]
    BY <1>12 DEF SetFromSec
  <2> DEFINE t == Time_fromSec(h)
             v == (h + 1) \div 2
  <2>2. t \in Times /\ TimeNs(t) = v
    BY FromSecExact
  <2>3. calc' = [calc EXCEPT !.t = t, !.tv = v, !.rounded = TRUE]
    BY <2>1
  <2>4. v \in Int
    BY Units
  <2> HIDE DEF t, v
  <2> QED
    BY <2>2, <2>3, <2>4, TimeStep
<1>13. ASSUME SetDurationFromSec PROVE CalcInv'
  <2>1. PICK h \in 0 .. 2 * Half : SetDuration(Duration_fromSec(h), (h + 1) \div 2)
    BY <1>13 DEF SetDurationFromSec
  <2> DEFINE d == Duration_fromSec(h)
             v == (h + 1) \div 2
  <2>2. d \in DurationRecords /\ DurationNs(d) = v
    BY FromSecExact
  <2>3. calc' = [calc EXCEPT !.d = d, !.dv = v]
    BY <2>1 DEF SetDuration
  <2>4. v \in Int
    BY Units
  <2> HIDE DEF d, v
  <2> QED
    BY <2>2, <2>3, <2>4, DurationStep
<1>14. ASSUME ThroughNSec PROVE CalcInv'
  <2> DEFINE t == Time_fromNSec(Time_toNsec(calc.t))
             n == calc.tv
  <2>1. n \in 0 .. Half - 1
    <3>1. calc.t.sec \in Nat /\ calc.t.nsec \in Nat
      BY <1>1, <1>2 DEF Times
    <3>2. calc.t.sec * NsPerSec \in Nat
      BY <1>2, <3>1
    <3>3. n \in Nat
      BY <1>1, <3>1, <3>2 DEF TimeNs
    <3>4. n < Half
      BY <1>14 DEF ThroughNSec
    <3> QED
      BY <3>3, <3>4, Units
  <2>2. Time_toNsec(calc.t) = n
    <3>1. n \in 0 .. Wrap - 1
      BY <2>1, Units
    <3>2. Time_toNsec(calc.t) = n % Wrap
      BY <1>1 DEF Time_toNsec, TimeNs, Unsigned
    <3> HIDE DEF n
    <3> QED
      BY <3>1, <3>2, Units, RemainderSmall
  <2>3. calc' = [calc EXCEPT !.t = t, !.rounded = FALSE]
    BY <1>14 DEF ThroughNSec
  <2>4. calc' = [calc EXCEPT !.t = t, !.tv = n, !.rounded = FALSE]
    <3> HIDE DEF t
    <3> QED
      BY <2>3 DEF CalcInv, Calculations
  <2>5. t \in Times /\ t.nsec < NsPerSec /\ TimeNs(t) = n
    BY <2>1, <2>2, FromNSecExact
  <2> HIDE DEF t, n
  <2>6. t.nsec # NsPerSec /\ n \in Int
    BY <1>2, <2>1, <2>5 DEF Times
  <2> QED
    BY <2>4, <2>5, <2>6, TimeStep
<1> QED
  BY <1>5, <1>6, <1>7, <1>8, <1>9, <1>10, <1>11, <1>12, <1>13, <1>14 DEF CalcNext

\* Whatever is computed with Times and Durations, in integers of whatever width
\* holds two seconds of nanoseconds but not three, stays exact.
THEOREM TimeAlwaysExact == CalcSpec => []TimeExact
<1>1. CalcInit => CalcInv
  <2> SUFFICES ASSUME CalcInit PROVE CalcInv
    OBVIOUS
  <2>1. NsPerSec \in Nat \ {0} /\ Wrap \in Nat \ {0} /\ Half > 2 * NsPerSec /\ Half \in Nat
    BY Units
  <2> DEFINE zero == [sec |-> 0, nsec |-> 0]
  <2>2. zero \in Times /\ zero \in DurationRecords
    BY <2>1 DEF Times, DurationRecords
  <2>3. TimeNs(zero) = 0 /\ DurationNs(zero) = 0 /\ zero.nsec = 0
    BY <2>1 DEF TimeNs, DurationNs
  <2>4. calc = [t |-> zero, d |-> zero, tv |-> 0, dv |-> 0, rounded |-> FALSE]
    BY DEF CalcInit
  <2> HIDE DEF zero
  <2>5. calc \in Calculations
    BY <2>2, <2>4 DEF Calculations
  <2>6. \A e \in Durations : InSigned(0 + e.nsec) /\ InSigned(0 - e.nsec)
    <3> SUFFICES ASSUME NEW e \in Durations PROVE InSigned(0 + e.nsec) /\ InSigned(0 - e.nsec)
      OBVIOUS
    <3>1. e.nsec \in 0 .. NsPerSec
      BY DurationsSound DEF DurationRecords
    <3> QED
      BY <2>1, <3>1 DEF InSigned
  <2>7. /\ calc.t = zero /\ calc.d = zero /\ calc.tv = 0 /\ calc.dv = 0
        /\ 0 \in 0 .. NsPerSec /\ 0 # NsPerSec
    BY <2>1, <2>4
  <2>8. TimeExact
    BY <2>3, <2>6, <2>7 DEF TimeExact
  <2> QED
    BY <2>5, <2>8 DEF CalcInv
<1>2. CalcInv /\ [CalcNext]_calc => CalcInv'
  <2> SUFFICES ASSUME CalcInv, [CalcNext]_calc PROVE CalcInv'
    OBVIOUS
  <2>1. CASE calc' = calc
    BY <2>1 DEF CalcInv, TimeExact, Calculations, Times, DurationRecords, TimeNs, DurationNs,
       InSigned, Durations, normalizeSecNSecSigned
  <2> QED
    BY <2>1, StepExact
<1>3. CalcInv => TimeExact
  BY DEF CalcInv
<1> QED
  BY <1>1, <1>2, <1>3, PTL DEF CalcSpec

----------------------------------------------------------------------------
(* The counters of the boards *)

\* Milliseconds as seconds and the nanoseconds that are left.
LEMMA MsSplit ==
  ASSUME NEW ms \in Int
  PROVE  /\ ms \div MsPerSec \in Int
         /\ (ms % MsPerSec) * NsPerMs \in 0 .. NsPerSec - 1
         /\ ms * NsPerMs = (ms \div MsPerSec) * NsPerSec + (ms % MsPerSec) * NsPerMs
<1> DEFINE S == MsPerSec
           K == NsPerMs
           q == ms \div S
           e == ms % S
<1>1. S \in Nat \ {0} /\ K \in Nat \ {0} /\ NsPerSec = K * S
  BY ClockAssumption DEF NsPerSec
<1>2. q \in Int /\ e \in 0 .. S - 1 /\ ms = S * q + e
  BY <1>1, DivMod
<1> HIDE DEF S, K, q, e
<1>3. e * K \in 0 .. K * S - 1
  <2>1. K * e <= K * (S - 1)
    BY <1>1, <1>2, TimesMonotone
  <2>2. K * (S - 1) = K * S - K /\ K * e = e * K /\ e * K \in Nat /\ K * S \in Nat
    BY <1>1, <1>2
  <2> QED
    BY <1>1, <2>1, <2>2
<1>4. ms * K = q * (K * S) + e * K
  <2>1. ms * K = (S * q) * K + e * K
    BY <1>1, <1>2
  <2>2. (S * q) * K = q * (K * S)
    BY <1>1, <1>2
  <2> QED
    BY <2>1, <2>2
<1> QED
  BY <1>1, <1>2, <1>3, <1>4 DEF S, K, q, e

\* Three of the boards count all the milliseconds, in the full width.
LEMMA CountFull ==
  ASSUME NEW source \in {"systick", "linux", "mach"}, NEW ms \in Nat
  PROVE  Count(source, ms) = ms % Wrap
<1>1. NsPerMs \in Nat \ {0} /\ NsPerSec \in Nat \ {0}
  BY ClockAssumption, Units
<1>2. CASE source = "systick"
  BY <1>2 DEF Count, SystickIntHandler, Unsigned
<1>3. CASE source = "mach"
  <2> DEFINE x == ms * NsPerMs
  <2>1. x \in Int /\ x = NsPerMs * ms + 0 /\ 0 \in 0 .. NsPerMs - 1
    BY <1>1
  <2> HIDE DEF x
  <2>2. x \div NsPerMs = ms
    BY <1>1, <2>1, DivModUnique
  <2> QED
    BY <1>3, <2>2 DEF x, Count, time_mach, Unsigned
<1>4. CASE source = "linux"
  <2> DEFINE K == NsPerMs
             N == NsPerSec
             half == K \div 2
             begin == N - K + half
             end == 1 * N + begin + ms * K
             x == (((end \div N) - 1) * N + ((end % N) - begin)) + half
  <2>1. half \in 0 .. K - 1
    BY <1>1
  <2>2. Count(source, ms) = Unsigned(x \div K)
    BY <1>4 DEF Count, time_linux, TimeNs
  <2> HIDE DEF half
  <2>3. K \in Nat \ {0} /\ N \in Nat \ {0} /\ begin \in Int /\ ms * K \in Int
    BY <1>1, <2>1
  <2>4. end \in Int
    BY <2>3
  <2>5. end \div N \in Int /\ end % N \in Int /\ end = N * (end \div N) + (end % N)
    <3> HIDE DEF end
    <3> QED
      BY <2>3, <2>4, DivMod
  <2>6. x = K * ms + half
    <3> DEFINE q == end \div N
               e == end % N
    <3>1. q \in Int /\ e \in Int /\ end = N * q + e
      BY <2>5
    <3> HIDE DEF q, e
    <3>2. (q - 1) * N = N * q - N /\ N * q \in Int /\ K * ms = ms * K
      BY <2>3, <3>1
    <3>3. x = ((q - 1) * N + (e - begin)) + half
      BY DEF q, e
    <3>4. N + begin + ms * K = N * q + e
      BY <2>3, <3>1
    <3> HIDE DEF x, begin, end, N, K
    <3> QED
      BY <2>1, <2>3, <3>1, <3>2, <3>3, <3>4
  <2>7. x \in Int
    BY <2>1, <2>3, <2>6
  <2> HIDE DEF x
  <2>8. x \div K = ms
    BY <2>1, <2>3, <2>6, <2>7, DivModUnique
  <2> QED
    BY <2>2, <2>8 DEF Unsigned
<1> QED
  BY <1>2, <1>3, <1>4

\* The product of ChibiOS loses whole turns only.
LEMMA CountChibios ==
  ASSUME NEW ms \in Nat
  PROVE  Count("chibios", ms) = ((MsPerSec * ms) % Wrap) \div MsPerSec
<1> DEFINE S == MsPerSec
           u == ms % Wrap
           q == ms \div Wrap
<1>1. S \in Nat \ {0} /\ Wrap \in Nat \ {0}
  BY ClockAssumption, Units
<1>2. q \in Int /\ u \in 0 .. Wrap - 1 /\ ms = Wrap * q + u
  BY <1>1, DivMod
<1>3. Count("chibios", ms) = ((u * S) % Wrap) \div S
  BY DEF Count, time_chibios, Unsigned
<1> HIDE DEF u, q, S
<1> DEFINE x == u * S
           k == q * S
<1>4. x \in Int /\ k \in Int
  BY <1>1, <1>2
<1>5. S * ms = x + Wrap * k
  <2>1. S * ms = S * (Wrap * q) + u * S
    BY <1>1, <1>2
  <2>2. S * (Wrap * q) = Wrap * (q * S)
    BY <1>1, <1>2
  <2>3. u * S \in Int /\ Wrap * (q * S) \in Int
    BY <1>1, <1>2
  <2> QED
    BY <2>1, <2>2, <2>3
<1> HIDE DEF x, k
<1>6. (x + Wrap * k) % Wrap = x % Wrap
  BY <1>1, <1>4, RemainderOfTurns
<1> QED
  BY <1>3, <1>5, <1>6 DEF x, S

\* Windows starts again at midnight.
LEMMA CountWindows ==
  ASSUME NEW ms \in Nat
  PROVE  Count("windows", ms) = ms % DayMs
  BY DEF Count, time_windows

\* Every counter counts in whole numbers.
LEMMA CountTyped ==
  ASSUME NEW source \in Sources, NEW ms \in Nat
  PROVE  Count(source, ms) \in Int
<1>1. Wrap \in Nat \ {0} /\ DayMs \in Nat \ {0} /\ MsPerSec \in Nat \ {0}
  BY ClockAssumption, Units, DeviceClockAssumption
<1>2. CASE source \in {"systick", "linux", "mach"}
  BY <1>1, <1>2, CountFull, DivMod
<1>3. CASE source = "windows"
  BY <1>1, <1>3, CountWindows, DivMod
<1>4. CASE source = "chibios"
  <2> DEFINE x == MsPerSec * ms
             y == x % Wrap
  <2>1. x \in Int
    BY <1>1
  <2> HIDE DEF x
  <2>2. y \in Int
    BY <1>1, <2>1, DivMod
  <2> HIDE DEF y
  <2>3. y \div MsPerSec \in Int
    BY <1>1, <2>2, DivMod
  <2> QED
    BY <1>4, <2>3, CountChibios DEF x, y
<1> QED
  BY <1>2, <1>3, <1>4 DEF Sources

\* The difference of two readings, in the full width, is the time between them:
\* at once for a counter of that width; for the others if the counter was steady
\* from some earlier time on.
LEMMA CountMeasures ==
  ASSUME NEW source \in Sources, NEW a \in Nat, NEW r \in a .. a + Wrap, NEW b \in Nat,
         r <= b, b - r < Wrap,
         source \in {"chibios", "windows"} => Count(source, b) - Count(source, a) = b - a
  PROVE  Unsigned(Count(source, b) - Count(source, r)) = b - r
<1>1. /\ Wrap \in Nat \ {0} /\ DayMs \in Nat \ {0} /\ MsPerSec \in Nat \ {0} /\ r \in Nat
      /\ a <= r /\ b - r \in 0 .. Wrap - 1
  BY ClockAssumption, Units, DeviceClockAssumption
<1>2. (b - r) % Wrap = b - r
  <2> DEFINE x == b - r
  <2>1. x \in 0 .. Wrap - 1
    BY <1>1
  <2> HIDE DEF x
  <2>2. x % Wrap = x
    BY <1>1, <2>1, RemainderSmall
  <2> QED
    BY <2>2 DEF x
<1>3. CASE source \in {"systick", "linux", "mach"}
  <2>1. Count(source, b) = b % Wrap /\ Count(source, r) = r % Wrap
    BY <1>1, <1>3, CountFull
  <2> DEFINE v == r % Wrap
             k == r \div Wrap
             y == -v
             x == b - r
  <2>2. v \in Int /\ k \in Int /\ r = Wrap * k + v
    BY <1>1, DivMod
  <2> HIDE DEF v, k
  <2>3. y \in Int
    BY <2>2
  <2>4. ((b % Wrap) + y) % Wrap = (b + y) % Wrap
    <3> HIDE DEF y
    <3>1. b \in Int
      OBVIOUS
    <3> QED
      BY <1>1, <2>3, <3>1, RemainderEarly
  <2>5. b + y = x + Wrap * k
    <3>1. Wrap * k \in Int
      BY <1>1, <2>2
    <3> QED
      BY <1>1, <2>2, <3>1
  <2>6. x \in Int
    BY <1>1
  <2>7. (x + Wrap * k) % Wrap = x % Wrap
    <3> HIDE DEF x
    <3> QED
      BY <1>1, <2>2, <2>6, RemainderOfTurns
  <2>8. Count(source, b) - Count(source, r) = (b % Wrap) + y
    <3>1. b % Wrap \in Int
      BY <1>1, DivMod
    <3> QED
      BY <2>1, <2>2, <3>1 DEF v
  <2> QED
    BY <1>2, <2>4, <2>5, <2>7, <2>8 DEF Unsigned
<1>4. ASSUME Count(source, b) - Count(source, r) = b - r
      PROVE  Unsigned(Count(source, b) - Count(source, r)) = b - r
  BY <1>2, <1>4 DEF Unsigned
<1>5. CASE source = "windows"
  <2> DEFINE D == DayMs
             p == b \div D
             c == b % D
             q == a \div D
             e == a % D
             x == r - D * p
  <2>1. D \in Nat \ {0}
    BY <1>1
  <2>2. p \in Int /\ c \in 0 .. D - 1 /\ b = D * p + c
    BY <2>1, DivMod
  <2>3. q \in Int /\ e \in 0 .. D - 1 /\ a = D * q + e
    BY <2>1, DivMod
  <2>4. Count(source, b) = c /\ Count(source, a) = e /\ Count(source, r) = r % D
    BY <1>1, <1>5, CountWindows
  <2>5. c - e = b - a
    BY <1>5, <2>4
  <2> HIDE DEF D, p, c, q, e
  <2>6. D * p = D * q /\ D * p \in Int
    <3>1. D * p \in Int /\ D * q \in Int
      BY <2>1, <2>2, <2>3
    <3> QED
      BY <2>2, <2>3, <2>5, <3>1
  <2>7. x \in 0 .. D - 1 /\ r = D * p + x
    BY <1>1, <2>1, <2>2, <2>3, <2>6
  <2> HIDE DEF x
  <2>8. r % D = x
    BY <1>1, <2>1, <2>2, <2>7, DivModUnique
  <2>9. c - x = b - r
    BY <1>1, <2>1, <2>2, <2>6, <2>7
  <2> QED
    BY <1>4, <2>4, <2>8, <2>9
<1>6. CASE source = "chibios"
  <2> DEFINE S == MsPerSec
             X(n) == S * n
             W(n) == X(n) \div Wrap
             Y(n) == X(n) % Wrap
             C(n) == Y(n) \div S
             E(n) == Y(n) % S
  <2>1. S \in Nat \ {0} /\ S < Wrap
    <3>1. S \in Nat \ {0} /\ NsPerMs \in Nat \ {0} /\ NsPerSec = NsPerMs * S
      BY ClockAssumption DEF NsPerSec
    <3> HIDE DEF S
    <3>2. S * 1 <= S * NsPerMs
      BY <3>1, TimesMonotone
    <3>3. S <= NsPerSec
      BY <3>1, <3>2
    <3> QED
      BY <3>1, <3>3, Units
  <2>2. \A n \in Nat : Count(source, n) = C(n)
    BY <1>6, CountChibios
  <2> HIDE DEF S
  <2>3. \A n \in Nat : X(n) \in Int
    BY <2>1
  <2>4. \A n \in Nat : W(n) \in Int /\ Y(n) \in 0 .. Wrap - 1 /\ X(n) = Wrap * W(n) + Y(n)
    <3> HIDE DEF X
    <3> QED
      BY <1>1, <2>3, DivMod
  <2>5. \A n \in Nat : C(n) \in Int /\ E(n) \in 0 .. S - 1 /\ Y(n) = S * C(n) + E(n)
    <3> SUFFICES ASSUME NEW n \in Nat
                 PROVE  C(n) \in Int /\ E(n) \in 0 .. S - 1 /\ Y(n) = S * C(n) + E(n)
      OBVIOUS
    <3>1. Y(n) \in Int
      BY <2>4
    <3> HIDE DEF Y
    <3> QED
      BY <2>1, <3>1, DivMod
  <2> DEFINE wa == W(a)
             wb == W(b)
             ya == Y(a)
             yb == Y(b)
             ca == C(a)
             cb == C(b)
             ea == E(a)
             eb == E(b)
             d == b - r
             y == yb - S * d
  <2>6. /\ wa \in Int /\ wb \in Int /\ ca \in Int /\ cb \in Int
        /\ ea \in 0 .. S - 1 /\ eb \in 0 .. S - 1 /\ ya \in 0 .. Wrap - 1 /\ yb \in 0 .. Wrap - 1
        /\ ya = S * ca + ea /\ yb = S * cb + eb
        /\ S * a = Wrap * wa + ya /\ S * b = Wrap * wb + yb
    BY <2>4, <2>5
  <2>7. cb - ca = b - a
    BY <1>6, <2>2
  <2>8. Y(r) = X(r) % Wrap /\ X(r) = S * r /\ C(r) = Y(r) \div S
    OBVIOUS
  <2> HIDE DEF wa, wb, ya, yb, ca, cb, ea, eb, X, W, Y, C, E
  <2>9. /\ Wrap * wa \in Int /\ Wrap * wb \in Int /\ S * ca \in Int /\ S * cb \in Int
        /\ S * a \in Int /\ S * b \in Int /\ S * r \in Int
    BY <1>1, <2>1, <2>6
  <2>10. S * cb - S * ca = S * b - S * a
    <3>1. cb = ca + (b - a)
      BY <2>6, <2>7
    <3>2. S * (ca + (b - a)) = S * ca + (S * b - S * a)
      BY <2>1, <2>6
    <3> QED
      BY <2>9, <3>1, <3>2
  <2>11. Wrap * wb - Wrap * wa = ea - eb
    <3> DEFINE ta == Wrap * wa
               tb == Wrap * wb
               fa == S * ca
               fb == S * cb
               ga == S * a
               gb == S * b
    <3>1. /\ ta \in Int /\ tb \in Int /\ fa \in Int /\ fb \in Int /\ ga \in Int /\ gb \in Int
          /\ ea \in Int /\ eb \in Int
      BY <2>6, <2>9
    <3>2. ga = ta + (fa + ea) /\ gb = tb + (fb + eb) /\ fb - fa = gb - ga
      BY <2>6, <2>10
    <3> HIDE DEF ta, tb, fa, fb, ga, gb
    <3>3. tb - ta = ea - eb
      BY <3>1, <3>2
    <3> QED
      BY <3>3 DEF ta, tb
  <2>12. wa = wb
    <3>1. ~(wa <= wb - 1)
      <4> SUFFICES ASSUME wa <= wb - 1 PROVE FALSE
        OBVIOUS
      <4>1. Wrap * wa <= Wrap * (wb - 1)
        BY <1>1, <2>6, TimesMonotone
      <4>2. Wrap * (wb - 1) = Wrap * wb - Wrap
        BY <1>1, <2>6
      <4> QED
        BY <1>1, <2>1, <2>6, <2>9, <2>11, <4>1, <4>2
    <3>2. ~(wb <= wa - 1)
      <4> SUFFICES ASSUME wb <= wa - 1 PROVE FALSE
        OBVIOUS
      <4>1. Wrap * wb <= Wrap * (wa - 1)
        BY <1>1, <2>6, TimesMonotone
      <4>2. Wrap * (wa - 1) = Wrap * wa - Wrap
        BY <1>1, <2>6
      <4> QED
        BY <1>1, <2>1, <2>6, <2>9, <2>11, <4>1, <4>2
    <3> QED
      BY <2>6, <3>1, <3>2
  <2>13. d \in Int /\ S * d = S * b - S * r /\ S * a <= S * r /\ S * d \in Int
    <3>1. d \in Int /\ S * d = S * b - S * r
      BY <1>1, <2>1
    <3>2. S * a <= S * r
      BY <1>1, <2>1, TimesMonotone
    <3> QED
      BY <2>9, <3>1, <3>2
  <2>14. y \in 0 .. Wrap - 1 /\ S * r = Wrap * wb + y
    <3>1. y = S * r - Wrap * wb
      BY <2>6, <2>9, <2>13
    <3>2. y >= ya
      BY <2>6, <2>9, <2>12, <2>13, <3>1
    <3>3. S * d >= 0
      BY <1>1, <2>1, <2>13, TimesMonotone
    <3> QED
      BY <1>1, <2>6, <2>9, <2>13, <3>1, <3>2, <3>3
  <2>15. Y(r) = y
    <3> HIDE DEF y
    <3>1. wb \in Int /\ y \in 0 .. Wrap - 1 /\ X(r) \in Int /\ X(r) = Wrap * wb + y
      BY <2>6, <2>8, <2>9, <2>14
    <3>2. X(r) % Wrap = y
      BY <1>1, <3>1, DivModUnique
    <3> QED
      BY <2>8, <3>2
  <2>16. C(r) = cb - d
    <3>1. S * (cb - d) = S * cb - S * d
      BY <2>1, <2>6, <2>13
    <3>2. y = S * (cb - d) + eb /\ y \in Int /\ cb - d \in Int
      BY <2>6, <2>9, <2>13, <2>14, <3>1
    <3> DEFINE k == cb - d
    <3>3. k \in Int /\ y = S * k + eb /\ eb \in 0 .. S - 1
      BY <2>6, <3>2
    <3> HIDE DEF y, d, k
    <3>4. y \div S = k
      BY <2>1, <3>2, <3>3, DivModUnique
    <3> QED
      BY <2>8, <2>15, <3>4 DEF k
  <2>17. Count(source, b) = cb /\ Count(source, r) = C(r)
    BY <1>1, <2>2 DEF cb
  <2>18. cb - (cb - d) = b - r
    BY <1>1, <2>6, <2>13
  <2> QED
    BY <1>4, <2>16, <2>17, <2>18
<1> QED
  BY <1>3, <1>5, <1>6 DEF Sources

----------------------------------------------------------------------------
(* The synchronised clock *)

\* setNow() subtracts the counter from the time it is given.
LEMMA SetNowExact ==
  ASSUME NEW ms \in Int, NEW sec \in Int, NEW nsec \in 0 .. 2 * NsPerSec
  PROVE  LET off == normalizeSecNSec(
                      Unsigned(sec - ms \div MsPerSec - 1),
                      Unsigned(nsec - (ms % MsPerSec) * NsPerMs + NsPerSec))
         IN  /\ off.sec \in 0 .. Wrap - 1 /\ off.nsec \in 0 .. NsPerSec - 1
             /\ TimeNs(off) = (sec * NsPerSec + nsec - ms * NsPerMs) % (Wrap * NsPerSec)
<1> DEFINE q == ms \div MsPerSec
           f == (ms % MsPerSec) * NsPerMs
           a == sec - q - 1
           b == nsec - f + NsPerSec
           g == ms * NsPerMs
<1>1. q \in Int /\ f \in 0 .. NsPerSec - 1 /\ g = q * NsPerSec + f
  BY MsSplit
<1>2. NsPerSec \in Nat \ {0} /\ Wrap \in Nat \ {0} /\ Wrap > 4 * NsPerSec
  BY Units
<1> HIDE DEF q, f, g
<1>3. a \in Int /\ b \in 0 .. Wrap - 1
  BY <1>1, <1>2
<1>4. a * NsPerSec + b = sec * NsPerSec + nsec - g
  <2>1. a * NsPerSec = sec * NsPerSec - q * NsPerSec - NsPerSec
    BY <1>1, <1>2
  <2>2. sec * NsPerSec \in Int /\ q * NsPerSec \in Int
    BY <1>1, <1>2
  <2> HIDE DEF a
  <2> QED
    BY <1>1, <1>2, <2>1, <2>2
<1> DEFINE off == normalizeSecNSec(Unsigned(a), Unsigned(b))
<1>5. /\ off.sec \in 0 .. Wrap - 1 /\ off.nsec \in 0 .. NsPerSec - 1
      /\ TimeNs(off) = (a * NsPerSec + b) % (Wrap * NsPerSec)
  <2> HIDE DEF a, b
  <2> QED
    BY <1>3, NormalizeWrapped
<1>6. TimeNs(off) = (sec * NsPerSec + nsec - g) % (Wrap * NsPerSec)
  <2> HIDE DEF a, b, off
  <2> QED
    BY <1>4, <1>5
<1> QED
  BY <1>5, <1>6 DEF q, f, g

\* The time syncTime() hands to setNow(): the stamp of the answer, later by the
\* offset, up to whole turns of the seconds.
LEMMA StampExact ==
  ASSUME NEW m \in Nat, NEW offset \in Nat
  PROVE  LET stamp == HostTime(m)
             sec == Unsigned(stamp.sec + offset \div MsPerSec)
             nsec == Unsigned(stamp.nsec + (offset % MsPerSec) * NsPerMs)
         IN  /\ sec \in Int /\ nsec \in 0 .. 2 * NsPerSec
             /\ \E j \in Int : sec * NsPerSec + nsec
                  = (m + offset) * NsPerMs + HostPhase + (Wrap * NsPerSec) * j
<1> DEFINE N == NsPerSec
           stamp == HostTime(m)
           ns == m * NsPerMs + HostPhase
           q == offset \div MsPerSec
           f == (offset % MsPerSec) * NsPerMs
           g == offset * NsPerMs
           sec == Unsigned(stamp.sec + q)
           nsec == Unsigned(stamp.nsec + f)
<1>1. /\ N \in Nat \ {0} /\ Wrap \in Nat \ {0} /\ Wrap > 4 * N /\ NsPerMs \in Nat \ {0}
      /\ HostPhase \in Int
  BY Units, ClockAssumption DEF HostPhase
<1>2. q \in Int /\ f \in 0 .. N - 1 /\ g = q * N + f
  BY MsSplit
<1>3. ns \in Int
  BY <1>1
<1>4. /\ stamp.sec = ns \div N /\ stamp.nsec = ns % N
  BY DEF HostTime
<1>5. stamp.sec \in Int /\ stamp.nsec \in 0 .. N - 1 /\ ns = N * stamp.sec + stamp.nsec
  <2> HIDE DEF ns, N
  <2> QED
    BY <1>1, <1>3, <1>4, DivMod
<1>6. (m + offset) * NsPerMs + HostPhase = ns + g
  BY <1>1
<1> HIDE DEF N, stamp, ns, q, f, g
<1> DEFINE x == stamp.sec + q
           y == stamp.nsec + f
<1>7. x \in Int /\ y \in 0 .. 2 * N /\ y \in 0 .. Wrap - 1
  BY <1>1, <1>2, <1>5
<1>8. nsec = y
  <2> HIDE DEF y
  <2>1. y % Wrap = y
    BY <1>1, <1>7, RemainderSmall
  <2> QED
    BY <2>1 DEF Unsigned, y
<1> DEFINE k == x \div Wrap
<1>9. sec \in Int /\ k \in Int /\ x = Wrap * k + sec
  <2>1. sec = x % Wrap
    BY DEF Unsigned
  <2> HIDE DEF x, sec
  <2>2. /\ x \div Wrap \in Int /\ x % Wrap \in 0 .. Wrap - 1
        /\ x = Wrap * (x \div Wrap) + (x % Wrap)
    BY <1>1, <1>7, DivMod
  <2> QED
    BY <2>1, <2>2
<1> HIDE DEF k, sec, nsec
<1> DEFINE j == -k
<1>10. sec * N + nsec = ns + g + (Wrap * N) * j
  <2>1. sec = x - Wrap * k /\ Wrap * k \in Int
    BY <1>1, <1>7, <1>9
  <2>2. sec * N = x * N - (Wrap * k) * N
    BY <1>1, <1>7, <2>1
  <2>3. (Wrap * k) * N = (Wrap * N) * k /\ (Wrap * N) * j = -((Wrap * N) * k)
    BY <1>1, <1>9
  <2>4. x * N = N * stamp.sec + q * N
    BY <1>1, <1>2, <1>5
  <2>5. (Wrap * N) * k \in Int /\ N * stamp.sec \in Int /\ q * N \in Int
    BY <1>1, <1>2, <1>5, <1>9
  <2> DEFINE turns == (Wrap * N) * k
             back == (Wrap * N) * j
             s == N * stamp.sec
             o == q * N
  <2>6. /\ sec * N = (s + o) - turns /\ back = -turns /\ turns \in Int /\ s \in Int /\ o \in Int
        /\ ns = s + stamp.nsec /\ g = o + f /\ nsec = stamp.nsec + f
    BY <1>2, <1>5, <1>8, <2>2, <2>3, <2>4, <2>5
  <2> HIDE DEF turns, s, o, back
  <2>7. sec * N + nsec = ns + g + back
    BY <1>2, <1>5, <2>6
  <2> QED
    BY <2>7 DEF back
<1>11. j \in Int
  BY <1>9
<1> HIDE DEF j
<1>12. \E i \in Int : sec * N + nsec = (m + offset) * NsPerMs + HostPhase + (Wrap * N) * i
  BY <1>6, <1>10, <1>11
<1> QED
  BY <1>7, <1>8, <1>9, <1>12 DEF sec, nsec, stamp, q, f, N

\* now() adds the offsets to the counter.
LEMMA NowExact ==
  ASSUME NEW c, time(c) \in Int, c.sec_offset \in Int, c.nsec_offset \in 0 .. NsPerSec - 1
  PROVE  TimeNs(now(c))
           = (time(c) * NsPerMs + TimeNs([sec |-> c.sec_offset, nsec |-> c.nsec_offset]))
               % (Wrap * NsPerSec)
<1> DEFINE ms == time(c)
           q == ms \div MsPerSec
           f == (ms % MsPerSec) * NsPerMs
           g == ms * NsPerMs
           a == q + c.sec_offset
           b == f + c.nsec_offset
<1>1. q \in Int /\ f \in 0 .. NsPerSec - 1 /\ g = q * NsPerSec + f
  <2> HIDE DEF ms
  <2>1. ms \in Int
    BY DEF ms
  <2> QED
    BY <2>1, MsSplit
<1>2. NsPerSec \in Nat \ {0} /\ Wrap \in Nat \ {0} /\ Wrap > 4 * NsPerSec
  BY Units
<1>3. now(c) = normalizeSecNSec(Unsigned(a), Unsigned(b))
  BY DEF now
<1> HIDE DEF q, f, g
<1>4. a \in Int /\ b \in 0 .. Wrap - 1
  BY <1>1, <1>2
<1>5. a * NsPerSec + b = g + (c.sec_offset * NsPerSec + c.nsec_offset)
  <2>1. a * NsPerSec = q * NsPerSec + c.sec_offset * NsPerSec
    BY <1>1, <1>2
  <2>2. c.sec_offset * NsPerSec \in Int /\ q * NsPerSec \in Int
    BY <1>1, <1>2
  <2> HIDE DEF a
  <2> QED
    BY <1>1, <1>2, <2>1, <2>2
<1>6. TimeNs(now(c)) = (a * NsPerSec + b) % (Wrap * NsPerSec)
  <2> HIDE DEF a, b
  <2> QED
    BY <1>3, <1>4, NormalizeWrapped
<1> QED
  BY <1>5, <1>6 DEF TimeNs, g

\* What the type invariant says of the members.
LEMMA ClockMembers ==
  ASSUME ClockTypeOK
  PROVE  /\ clock.source \in Sources /\ clock.t \in 0 .. MaxTime /\ clock.boot \in Nat
         /\ clock.rt_time \in Int /\ clock.sec_offset \in Int
         /\ clock.nsec_offset \in 0 .. NsPerSec - 1
         /\ clock.requests \subseteq 0 .. MaxTime
         /\ \A a \in clock.answers : a.asked \in 0 .. MaxTime /\ a.stamped \in 0 .. MaxTime
         /\ clock.synced.asked \in 0 .. MaxTime /\ clock.synced.stamped \in 0 .. MaxTime
         /\ clock.synced.at \in -1 .. MaxTime
         /\ time(clock) \in Int
         /\ MaxTime \in Nat /\ MaxTime < Wrap /\ Wrap \in Nat
<1>1. MaxTime \in Nat /\ MaxTime < Wrap /\ Wrap \in Nat /\ Boots \subseteq Nat
  BY DeviceClockAssumption, Units
<1>2. /\ clock.source \in Sources /\ clock.t \in 0 .. MaxTime /\ clock.boot \in Nat
      /\ clock.rt_time \in Int /\ clock.sec_offset \in 0 .. Wrap - 1
      /\ clock.nsec_offset \in 0 .. NsPerSec - 1
      /\ clock.synced.asked \in 0 .. MaxTime /\ clock.synced.stamped \in 0 .. MaxTime
      /\ clock.synced.at \in -1 .. MaxTime
  BY <1>1 DEF ClockTypeOK
<1>3. /\ clock.requests \subseteq 0 .. MaxTime
      /\ \A a \in clock.answers : a.asked \in 0 .. MaxTime /\ a.stamped \in 0 .. MaxTime
  BY DEF ClockTypeOK
<1>4. time(clock) \in Int
  <2>1. clock.boot + clock.t \in Nat
    BY <1>1, <1>2
  <2> QED
    BY <1>2, <2>1, CountTyped DEF time
<1> QED
  BY <1>1, <1>2, <1>3, <1>4

\* Every answer that arrives puts the offsets right, by the request whose time is
\* in rt_time.
LEMMA SyncKeeps ==
  ASSUME ClockInv, NEW a \in clock.answers, syncTime(a)
  PROVE  ClockInv'
<1> DEFINE A == Wrap * NsPerSec
           K == NsPerMs
           ms == time(clock)
           offset == Unsigned(ms - clock.rt_time)
           stamp == HostTime(a.stamped)
           sec == Unsigned(stamp.sec + offset \div MsPerSec)
           nsec == Unsigned(stamp.nsec + (offset % MsPerSec) * NsPerMs)
           off == normalizeSecNSec(Unsigned(sec - ms \div MsPerSec - 1),
                                   Unsigned(nsec - (ms % MsPerSec) * NsPerMs + NsPerSec))
           s == [at |-> clock.t, asked |-> a.asked, stamped |-> a.stamped]
<1>1. /\ clock.source \in Sources /\ clock.t \in 0 .. MaxTime /\ clock.boot \in Nat
      /\ clock.rt_time \in Int /\ a.asked \in 0 .. MaxTime /\ a.stamped \in 0 .. MaxTime
      /\ ms \in Int /\ MaxTime \in Nat /\ MaxTime < Wrap /\ Wrap \in Nat \ {0}
  BY ClockMembers, Units DEF ClockInv
<1>2. clock' = [clock EXCEPT !.sec_offset = off.sec, !.nsec_offset = off.nsec,
                             !.answers = @ \ {a}, !.synced = s]
  <2>1. clock' = [[clock EXCEPT !.sec_offset = off.sec, !.nsec_offset = off.nsec]
                    EXCEPT !.answers = @ \ {a}, !.synced = s]
    BY DEF syncTime, setNow
  <2> HIDE DEF off, s
  <2> QED
    BY <2>1 DEF ClockInv, ClockTypeOK
<1>3. offset \in Nat
  <2> DEFINE x == ms - clock.rt_time
  <2>1. x \in Int
    BY <1>1
  <2> HIDE DEF x
  <2>2. x % Wrap \in Nat
    BY <1>1, <2>1, DivMod
  <2> QED
    BY <2>2 DEF x, Unsigned
<1>4. /\ sec \in Int /\ nsec \in 0 .. 2 * NsPerSec
      /\ \E j \in Int : sec * NsPerSec + nsec
           = (a.stamped + offset) * NsPerMs + HostPhase + (Wrap * NsPerSec) * j
  <2> HIDE DEF offset
  <2>1. a.stamped \in Nat
    BY <1>1
  <2> QED
    BY <1>3, <2>1, StampExact
<1>5. /\ off.sec \in 0 .. Wrap - 1 /\ off.nsec \in 0 .. NsPerSec - 1
      /\ TimeNs(off) = (sec * NsPerSec + nsec - ms * NsPerMs) % (Wrap * NsPerSec)
  <2> HIDE DEF ms, sec, nsec
  <2> QED
    BY <1>1, <1>4, SetNowExact
<1> HIDE DEF off, sec, nsec, stamp
<1>6. TimeNs(off) = ((a.stamped + offset - ms) * K + HostPhase) % A
  <2> HIDE DEF offset, ms, A, K
  <2>1. PICK j \in Int : sec * NsPerSec + nsec = (a.stamped + offset) * K + HostPhase + A * j
    BY <1>4 DEF A, K
  <2> DEFINE x == (a.stamped + offset - ms) * K + HostPhase
  <2>2. A \in Nat \ {0} /\ K \in Nat \ {0} /\ HostPhase \in Int
    BY Units, ClockAssumption DEF A, K, HostPhase
  <2>3. x \in Int
    BY <1>1, <1>3, <2>2
  <2>4. sec * NsPerSec + nsec - ms * K = x + A * j
    <3> DEFINE g == (a.stamped + offset) * K
               h == ms * K
               turns == A * j
               given == sec * NsPerSec + nsec
    <3>1. g \in Int /\ turns \in Int /\ h \in Int
      BY <1>1, <1>3, <2>2
    <3>2. x = g - h + HostPhase
      BY <1>1, <1>3, <2>2
    <3>3. given = g + HostPhase + turns
      BY <2>1
    <3> HIDE DEF g, h, turns, given, x
    <3>4. given - h = x + turns
      BY <2>2, <3>1, <3>2, <3>3
    <3> QED
      BY <1>1, <1>3, <1>4, <2>2, <3>4, Units DEF given, h, turns, x
  <2>5. TimeNs(off) = (x + A * j) % A
    BY <1>5, <2>4 DEF A, K
  <2> HIDE DEF x
  <2>6. (x + A * j) % A = x % A
    BY <2>2, <2>3, RemainderOfTurns
  <2> QED
    BY <2>5, <2>6 DEF x
<1> HIDE DEF offset
<1>7. ClockTypeOK'
  <2>1. s \in [at : -1 .. MaxTime, asked : 0 .. MaxTime, stamped : 0 .. MaxTime]
    BY <1>1
  <2>2. clock.answers \ {a} \in SUBSET [asked : 0 .. MaxTime, stamped : 0 .. MaxTime]
    BY DEF ClockInv, ClockTypeOK
  <2> HIDE DEF s
  <2> QED
    BY <1>2, <1>5, <2>1, <2>2 DEF ClockInv, ClockTypeOK, Sources
<1>8. PICK at \in 0 .. clock.t :
        /\ clock.rt_time = Count(clock.source, clock.boot + at)
        /\ \A r \in clock.requests : r <= at
        /\ \A b \in clock.answers : b.asked <= at /\ b.asked <= b.stamped /\ b.stamped <= clock.t
  BY DEF ClockInv, RequestRemembered
<1>9. /\ clock'.source = clock.source /\ clock'.boot = clock.boot /\ clock'.t = clock.t
      /\ clock'.rt_time = clock.rt_time /\ clock'.requests = clock.requests
      /\ clock'.answers = clock.answers \ {a} /\ clock'.synced = s
      /\ clock'.sec_offset = off.sec /\ clock'.nsec_offset = off.nsec
  <2> HIDE DEF s
  <2> QED
    BY <1>2 DEF ClockInv, ClockTypeOK
<1>10. RequestRemembered'
  BY <1>8, <1>9 DEF RequestRemembered, Count, SystickIntHandler, time_linux, time_mach,
     time_chibios, time_windows
<1>11. /\ s.asked = a.asked /\ s.stamped = a.stamped /\ s.at = clock.t
       /\ a.asked <= a.stamped /\ a.stamped <= clock.t /\ a.asked <= at
  BY <1>8
<1> HIDE DEF s
<1>12. ASSUME Measured(clock') PROVE offset = clock.t - at
  <2> DEFINE b == clock.boot + clock.t
             r == clock.boot + at
             e == clock.boot + a.asked
  <2>1. /\ e \in Nat /\ r \in e .. e + Wrap /\ b \in Nat /\ r <= b /\ b - r < Wrap
        /\ b - r = clock.t - at /\ b - e = clock.t - a.asked
    BY <1>1, <1>11
  <2>2. clock.source \in {"chibios", "windows"}
          => Count(clock.source, b) - Count(clock.source, e) = b - e
    BY <1>9, <1>11, <1>12, <2>1 DEF Measured, Steady
  <2>3. offset = Unsigned(Count(clock.source, b) - Count(clock.source, r))
    BY <1>8 DEF offset, time
  <2> HIDE DEF b, r, e
  <2>4. Unsigned(Count(clock.source, b) - Count(clock.source, r)) = b - r
    BY <1>1, <2>1, <2>2, CountMeasures
  <2> QED
    BY <2>1, <2>3, <2>4
<1>13. /\ clock'.synced.asked <= clock'.synced.stamped
       /\ clock'.synced.stamped <= clock'.synced.at /\ clock'.synced.at <= clock'.t
  BY <1>1, <1>9, <1>11
<1>14. ASSUME Measured(clock')
       PROVE  /\ at \in clock'.synced.asked .. clock'.synced.at
              /\ TimeNs([sec |-> clock'.sec_offset, nsec |-> clock'.nsec_offset])
                   = ((clock'.synced.stamped + (clock'.synced.at - at)
                        - Count(clock'.source, clock'.boot + clock'.synced.at)) * NsPerMs
                      + HostPhase) % (Wrap * NsPerSec)
  <2> DEFINE n == Count(clock'.source, clock'.boot + clock'.synced.at)
             p == clock'.synced.stamped + (clock'.synced.at - at) - n
  <2>1. at \in clock'.synced.asked .. clock'.synced.at
    BY <1>1, <1>8, <1>9, <1>11
  <2>2. n = ms
    BY <1>9, <1>11 DEF time
  <2>3. offset = clock.t - at
    BY <1>12, <1>14
  <2> HIDE DEF n, ms
  <2>4. p = a.stamped + offset - ms
    BY <1>1, <1>3, <1>9, <1>11, <2>2, <2>3
  <2> HIDE DEF p
  <2>5. [sec |-> clock'.sec_offset, nsec |-> clock'.nsec_offset] = off
    BY <1>9 DEF off, normalizeSecNSec
  <2>6. TimeNs(off) = (p * NsPerMs + HostPhase) % (Wrap * NsPerSec)
    BY <1>6, <2>4
  <2> QED
    BY <2>1, <2>5, <2>6 DEF p, n
<1>15. OffsetKnown'
  <2> HIDE DEF ms
  <2> QED
    BY <1>13, <1>14 DEF OffsetKnown
<1> QED
  BY <1>7, <1>10, <1>15 DEF ClockInv

\* The other steps neither synchronise nor make rt_time older.
LEMMA ClockKeeps ==
  ASSUME ClockInv, Tick \/ requestSyncTime \/ handle_time \/ Lost
  PROVE  ClockInv'
<1>1. /\ clock.source \in Sources /\ clock.t \in 0 .. MaxTime /\ clock.boot \in Nat
      /\ clock.requests \subseteq 0 .. MaxTime /\ MaxTime \in Nat /\ time(clock) \in Int
      /\ \A a \in clock.answers : a.asked \in 0 .. MaxTime /\ a.stamped \in 0 .. MaxTime
      /\ clock.synced.asked \in Int /\ clock.synced.stamped \in Int /\ clock.synced.at \in Int
  BY ClockMembers DEF ClockInv
<1>2. clock \in [source : Sources, t : 0 .. MaxTime, boot : Boots, rt_time : Int,
                sec_offset : 0 .. Wrap - 1, nsec_offset : 0 .. NsPerSec - 1,
                asked : 0 .. MaxAsked, requests : SUBSET (0 .. MaxTime),
                answers : SUBSET [asked : 0 .. MaxTime, stamped : 0 .. MaxTime],
                synced : [at : -1 .. MaxTime, asked : 0 .. MaxTime, stamped : 0 .. MaxTime]]
  BY DEF ClockInv, ClockTypeOK
<1>3. clock.requests # {} \/ clock.answers # {} =>
        \E at \in 0 .. clock.t :
          /\ clock.rt_time = Count(clock.source, clock.boot + at)
          /\ \A r \in clock.requests : r <= at
          /\ \A a \in clock.answers :
               a.asked <= at /\ a.asked <= a.stamped /\ a.stamped <= clock.t
  BY DEF ClockInv, RequestRemembered
<1>4. ASSUME clock'.t >= clock.t, clock'.t \in Int,
             clock'.source = clock.source, clock'.boot = clock.boot,
             clock'.sec_offset = clock.sec_offset, clock'.nsec_offset = clock.nsec_offset,
             clock'.synced = clock.synced
      PROVE  OffsetKnown'
  <2> DEFINE s == clock.synced
             Right == Measured(clock) =>
                        \E r \in s.asked .. s.at :
                          TimeNs([sec |-> clock.sec_offset, nsec |-> clock.nsec_offset])
                            = ((s.stamped + (s.at - r)
                                 - Count(clock.source, clock.boot + s.at)) * NsPerMs
                               + HostPhase) % (Wrap * NsPerSec)
  <2>1. s # NotSynced => s.asked <= s.stamped /\ s.stamped <= s.at /\ s.at <= clock.t /\ Right
    BY DEF ClockInv, OffsetKnown
  <2>2. Measured(clock') <=> Measured(clock)
    BY <1>4 DEF Measured, Steady
  <2>3. Right' <=> Right
    BY <1>4, <2>2
  <2>4. s # NotSynced => s.at <= clock'.t
    BY <1>1, <1>4, <2>1
  <2>5. OffsetKnown' <=> (s' # NotSynced => s'.asked <= s'.stamped /\ s'.stamped <= s'.at
                                              /\ s'.at <= clock'.t /\ Right')
    BY DEF OffsetKnown
  <2>6. s' = s
    BY <1>4
  <2> HIDE DEF s, Right
  <2> QED
    BY <2>1, <2>3, <2>4, <2>5, <2>6
<1>5. CASE Tick
  <2>1. clock' = [clock EXCEPT !.t = @ + 1] /\ clock.t + 1 \in 0 .. MaxTime
    BY <1>1, <1>5 DEF Tick
  <2>2. ClockTypeOK'
    BY <1>2, <2>1 DEF ClockTypeOK, Sources
  <2>3. /\ clock'.t = clock.t + 1 /\ clock'.source = clock.source /\ clock'.boot = clock.boot
        /\ clock'.sec_offset = clock.sec_offset /\ clock'.nsec_offset = clock.nsec_offset
        /\ clock'.synced = clock.synced /\ clock'.requests = clock.requests
        /\ clock'.answers = clock.answers /\ clock'.rt_time = clock.rt_time
    BY <1>2, <2>1
  <2>4. RequestRemembered'
    <3>1. clock'.requests # {} \/ clock'.answers # {} =>
            \E at \in 0 .. clock'.t :
              /\ clock'.rt_time = Count(clock'.source, clock'.boot + at)
              /\ \A r \in clock'.requests : r <= at
              /\ \A a \in clock'.answers :
                   a.asked <= at /\ a.asked <= a.stamped /\ a.stamped <= clock'.t
      BY <1>1, <1>3, <2>3
    <3> QED
      BY <3>1 DEF RequestRemembered
  <2>5. OffsetKnown'
    BY <1>1, <1>4, <2>3
  <2> QED
    BY <2>2, <2>4, <2>5 DEF ClockInv
<1>6. CASE requestSyncTime
  <2>1. /\ clock' = [clock EXCEPT !.rt_time = time(clock), !.asked = @ + 1,
                                  !.requests = @ \cup {clock.t}]
        /\ clock.asked < MaxAsked
    BY <1>6 DEF requestSyncTime
  <2>2. clock.asked + 1 \in 0 .. MaxAsked /\ clock.requests \cup {clock.t} \in SUBSET (0 .. MaxTime)
    BY <1>1, <1>2, <2>1, DeviceClockAssumption
  <2>3. ClockTypeOK'
    BY <1>1, <1>2, <2>1, <2>2 DEF ClockTypeOK, Sources
  <2>4. /\ clock'.t = clock.t /\ clock'.source = clock.source /\ clock'.boot = clock.boot
        /\ clock'.sec_offset = clock.sec_offset /\ clock'.nsec_offset = clock.nsec_offset
        /\ clock'.synced = clock.synced /\ clock'.requests = clock.requests \cup {clock.t}
        /\ clock'.answers = clock.answers
        /\ clock'.rt_time = Count(clock.source, clock.boot + clock.t)
    BY <1>2, <2>1 DEF time
  <2>5. RequestRemembered'
    <3>1. clock.t \in 0 .. clock'.t
      BY <1>1, <2>4
    <3>2. \A r \in clock'.requests : r <= clock.t
      BY <1>1, <1>3, <2>4
    <3>3. \A a \in clock'.answers :
            a.asked <= clock.t /\ a.asked <= a.stamped /\ a.stamped <= clock'.t
      BY <1>1, <1>3, <2>4
    <3>4. \E at \in 0 .. clock'.t :
            /\ clock'.rt_time = Count(clock'.source, clock'.boot + at)
            /\ \A r \in clock'.requests : r <= at
            /\ \A a \in clock'.answers :
                 a.asked <= at /\ a.asked <= a.stamped /\ a.stamped <= clock'.t
      BY <2>4, <3>1, <3>2, <3>3
    <3> QED
      BY <3>4 DEF RequestRemembered
  <2>6. OffsetKnown'
    BY <1>1, <1>4, <2>4
  <2> QED
    BY <2>3, <2>5, <2>6 DEF ClockInv
<1>7. CASE handle_time
  <2>1. PICK q \in clock.requests :
          clock' = [clock EXCEPT !.requests = @ \ {q},
                                 !.answers = @ \cup {[asked |-> q, stamped |-> clock.t]}]
    BY <1>7 DEF handle_time
  <2> DEFINE new == [asked |-> q, stamped |-> clock.t]
  <2>2. new \in [asked : 0 .. MaxTime, stamped : 0 .. MaxTime]
    BY <1>1
  <2>3. ClockTypeOK'
    BY <1>2, <2>1, <2>2 DEF ClockTypeOK, Sources
  <2>4. /\ clock'.t = clock.t /\ clock'.source = clock.source /\ clock'.boot = clock.boot
        /\ clock'.sec_offset = clock.sec_offset /\ clock'.nsec_offset = clock.nsec_offset
        /\ clock'.synced = clock.synced /\ clock'.requests = clock.requests \ {q}
        /\ clock'.answers = clock.answers \cup {new} /\ clock'.rt_time = clock.rt_time
    BY <1>2, <2>1
  <2>5. RequestRemembered'
    <3>1. PICK at \in 0 .. clock.t :
            /\ clock.rt_time = Count(clock.source, clock.boot + at)
            /\ \A r \in clock.requests : r <= at
            /\ \A a \in clock.answers :
                 a.asked <= at /\ a.asked <= a.stamped /\ a.stamped <= clock.t
      BY <1>3
    <3>2. new.asked <= at /\ new.asked <= new.stamped /\ new.stamped <= clock.t
      BY <1>1, <3>1
    <3> HIDE DEF new
    <3>3. \E i \in 0 .. clock'.t :
            /\ clock'.rt_time = Count(clock'.source, clock'.boot + i)
            /\ \A r \in clock'.requests : r <= i
            /\ \A a \in clock'.answers :
                 a.asked <= i /\ a.asked <= a.stamped /\ a.stamped <= clock'.t
      BY <2>4, <3>1, <3>2
    <3> QED
      BY <3>3 DEF RequestRemembered
  <2>6. OffsetKnown'
    BY <1>1, <1>4, <2>4
  <2> QED
    BY <2>3, <2>5, <2>6 DEF ClockInv
<1>8. CASE Lost
  <2>1. /\ clock'.t = clock.t /\ clock'.source = clock.source /\ clock'.boot = clock.boot
        /\ clock'.sec_offset = clock.sec_offset /\ clock'.nsec_offset = clock.nsec_offset
        /\ clock'.synced = clock.synced /\ clock'.requests \subseteq clock.requests
        /\ clock'.answers \subseteq clock.answers /\ clock'.rt_time = clock.rt_time
    BY <1>2, <1>8 DEF Lost
  <2>2. ClockTypeOK'
    BY <1>2, <1>8 DEF Lost, ClockTypeOK, Sources
  <2>3. RequestRemembered'
    <3>1. clock'.requests # {} \/ clock'.answers # {} =>
            \E at \in 0 .. clock'.t :
              /\ clock'.rt_time = Count(clock'.source, clock'.boot + at)
              /\ \A r \in clock'.requests : r <= at
              /\ \A a \in clock'.answers :
                   a.asked <= at /\ a.asked <= a.stamped /\ a.stamped <= clock'.t
      BY <1>3, <2>1
    <3> QED
      BY <3>1 DEF RequestRemembered
  <2>4. OffsetKnown'
    BY <1>1, <1>4, <2>1
  <2> QED
    BY <2>2, <2>3, <2>4 DEF ClockInv
<1> QED
  BY <1>5, <1>6, <1>7, <1>8

\* The offsets bound the distance of the clocks: while the counter is steady the
\* distance is that of the synchronisation.
LEMMA DelayBounded ==
  ASSUME ClockInv
  PROVE  ClockWithinDelay
<1> DEFINE s == clock.synced
           A == Wrap * NsPerSec
           K == NsPerMs
           ms == time(clock)
           base == Count(clock.source, clock.boot + s.at)
           host == clock.t * K + HostPhase
<1> SUFFICES ASSUME s # NotSynced, Steady(clock, s.at, clock.t), Measured(clock)
             PROVE  Ahead(clock) \in -(s.at - s.stamped) * NsPerMs .. (s.stamped - s.asked) * NsPerMs
  BY DEF ClockWithinDelay
<1>1. /\ clock.t \in 0 .. MaxTime /\ clock.sec_offset \in Int /\ ms \in Int
      /\ clock.nsec_offset \in 0 .. NsPerSec - 1 /\ s.asked \in 0 .. MaxTime
      /\ s.stamped \in 0 .. MaxTime /\ s.at \in -1 .. MaxTime
      /\ MaxTime \in Nat /\ MaxTime < Wrap
  BY ClockMembers DEF ClockInv
<1>2. /\ K \in Nat \ {0} /\ HostPhase \in Int /\ A \in Nat \ {0} /\ Wrap \in Nat \ {0}
      /\ Half \in Nat /\ Wrap = 2 * Half /\ NsPerSec \in Nat \ {0}
  BY ClockAssumption, Units DEF HostPhase
<1>3. /\ s.asked <= s.stamped /\ s.stamped <= s.at /\ s.at <= clock.t
      /\ \E r \in s.asked .. s.at :
           TimeNs([sec |-> clock.sec_offset, nsec |-> clock.nsec_offset])
             = ((s.stamped + (s.at - r) - base) * K + HostPhase) % A
  BY DEF ClockInv, OffsetKnown
<1>4. PICK r \in s.asked .. s.at :
        TimeNs([sec |-> clock.sec_offset, nsec |-> clock.nsec_offset])
          = ((s.stamped + (s.at - r) - base) * K + HostPhase) % A
  BY <1>3
<1>5. ms - base = clock.t - s.at
  BY DEF Steady, time
<1>6. base \in Int
  <2>1. clock.boot + s.at \in Nat /\ clock.source \in Sources
    BY <1>1, <1>3, ClockMembers DEF ClockInv
  <2> QED
    BY <2>1, CountTyped
<1>7. TimeNs(now(clock))
        = (ms * K + TimeNs([sec |-> clock.sec_offset, nsec |-> clock.nsec_offset])) % A
  BY <1>1, NowExact
<1> HIDE DEF ms, base
<1> DEFINE z == (s.stamped - r) * K
           x == (s.stamped + (s.at - r) - base) * K + HostPhase
           g == ms * K
<1>8. x \in Int /\ g \in Int /\ z \in Int /\ host \in Int /\ g + x = host + z
  <2>1. x \in Int /\ g \in Int /\ z \in Int /\ host \in Int
    BY <1>1, <1>2, <1>6
  <2>2. ms = base + (clock.t - s.at)
    BY <1>1, <1>5, <1>6
  <2>3. g = base * K + (clock.t - s.at) * K
    BY <1>1, <1>2, <1>6, <2>2
  <2>4. x = (s.stamped + (s.at - r)) * K - base * K + HostPhase
    BY <1>1, <1>2, <1>6
  <2>5. (clock.t - s.at) * K + (s.stamped + (s.at - r)) * K = clock.t * K + (s.stamped - r) * K
    BY <1>1, <1>2
  <2> DEFINE f == base * K
             h == (clock.t - s.at) * K
             i == (s.stamped + (s.at - r)) * K
             j == clock.t * K
  <2>6. f \in Int /\ h \in Int /\ i \in Int /\ j \in Int
    BY <1>1, <1>2, <1>6
  <2>7. g = f + h /\ x = i - f + HostPhase /\ h + i = j + z /\ host = j + HostPhase
    BY <2>3, <2>4, <2>5
  <2> HIDE DEF f, h, i, j, g, x, z, host
  <2>8. g + x = host + z
    BY <1>2, <2>1, <2>6, <2>7
  <2> QED
    BY <2>1, <2>8
<1>9. TimeNs(now(clock)) = (host + z) % A
  <2>1. TimeNs(now(clock)) = (g + (x % A)) % A
    BY <1>4, <1>7
  <2> HIDE DEF g, x, A, host, z
  <2>2. ((x % A) + g) % A = (x + g) % A
    BY <1>2, <1>8, RemainderEarly
  <2>3. g + (x % A) = (x % A) + g /\ x + g = host + z
    <3>1. x % A \in Int
      BY <1>2, <1>8, DivMod
    <3> QED
      BY <1>8, <3>1
  <2> QED
    BY <2>1, <2>2, <2>3
<1>10. z \in -(s.at - s.stamped) * K .. (s.stamped - s.asked) * K
  <2> DEFINE lo == -(s.at - s.stamped)
             mid == s.stamped - r
             hi == s.stamped - s.asked
  <2>1. lo \in Int /\ mid \in Int /\ hi \in Int /\ lo <= mid /\ mid <= hi
    BY <1>1
  <2> HIDE DEF lo, mid, hi, K
  <2>2. K * lo <= K * mid /\ K * mid <= K * hi
    BY <1>2, <2>1, TimesMonotone
  <2>3. K * lo = lo * K /\ K * mid = mid * K /\ K * hi = hi * K
        /\ lo * K \in Int /\ mid * K \in Int /\ hi * K \in Int
    BY <1>2, <2>1
  <2>4. mid * K \in lo * K .. hi * K
    BY <2>2, <2>3
  <2>5. lo * K = -((s.at - s.stamped) * K)
    BY <1>1, <1>2 DEF lo
  <2>6. z = mid * K /\ hi * K = (s.stamped - s.asked) * K
    BY DEF mid, hi, K
  <2> QED
    BY <2>4, <2>5, <2>6 DEF K
<1> DEFINE b == Half * NsPerSec
<1>11. b \in Nat /\ A = 2 * b /\ A \div 2 = b
  <2>1. b \in Nat /\ A = 2 * b
    BY <1>2
  <2> HIDE DEF b, A
  <2> QED
    BY <2>1
<1>12. z \in -b .. b - 1
  <2> DEFINE S == MsPerSec
             m == s.stamped - r
  <2>1. S \in Nat /\ S >= 2 /\ NsPerSec = K * S
    <3>1. Wrap % 1 = 0
      BY <1>2
    <3> QED
      BY <3>1, ClockAssumption DEF NsPerSec
  <2>2. m \in -(Wrap - 1) .. Wrap - 1
    BY <1>1, <1>2
  <2> HIDE DEF K, S, m
  <2>3. K * m <= K * (Wrap - 1) /\ K * (-(Wrap - 1)) <= K * m
    BY <1>2, <2>2, TimesMonotone
  <2>4. K * (Wrap - 1) = K * Wrap - K /\ K * (-(Wrap - 1)) = K - K * Wrap /\ K * m = m * K
        /\ K * Wrap \in Int /\ m * K \in Int
    BY <1>2, <2>2
  <2>5. K * Wrap <= b
    <3>1. Half * (K * 2) <= Half * (K * S)
      <4>1. K * 2 <= K * S
        BY <1>2, <2>1, TimesMonotone
      <4>2. K * 2 \in Int /\ K * S \in Int
        BY <1>2, <2>1
      <4> QED
        BY <1>2, <4>1, <4>2, TimesMonotone
    <3>2. Half * (K * 2) = K * Wrap
      BY <1>2
    <3> QED
      BY <2>1, <3>1, <3>2
  <2>6. z = m * K
    BY DEF m, K
  <2> HIDE DEF z, b
  <2> QED
    BY <1>2, <1>11, <2>3, <2>4, <2>5, <2>6
<1>13. Ahead(clock) = z
  <2> DEFINE d == now(clock)
             h == HostTime(clock.t)
             diff == (d.sec - h.sec) * NsPerSec + d.nsec - h.nsec
             w == TimeNs(now(clock))
  <2>1. Ahead(clock) = ((diff + A \div 2) % A) - A \div 2
    BY DEF Ahead
  <2>2. h.sec \in Int /\ h.nsec \in 0 .. NsPerSec - 1 /\ h.sec * NsPerSec + h.nsec = host
    <3>1. h.sec = host \div NsPerSec /\ h.nsec = host % NsPerSec
      BY DEF HostTime
    <3> HIDE DEF h, host
    <3>2. h.sec \in Int /\ h.nsec \in 0 .. NsPerSec - 1 /\ host = NsPerSec * h.sec + h.nsec
      <4>1. /\ host \div NsPerSec \in Int /\ host % NsPerSec \in 0 .. NsPerSec - 1
            /\ host = NsPerSec * (host \div NsPerSec) + (host % NsPerSec)
        BY <1>2, <1>8, DivMod
      <4> QED
        BY <3>1, <4>1
    <3>3. NsPerSec * h.sec = h.sec * NsPerSec
      BY <1>2, <3>2
    <3> QED
      BY <3>2, <3>3
  <2>3. d.sec \in Int /\ d.nsec \in Int
    <3> DEFINE e == ms \div MsPerSec + clock.sec_offset
               f == (ms % MsPerSec) * NsPerMs + clock.nsec_offset
    <3>1. ms \div MsPerSec \in Int /\ (ms % MsPerSec) * NsPerMs \in 0 .. NsPerSec - 1
      BY <1>1, MsSplit
    <3>2. d = normalizeSecNSec(Unsigned(e), Unsigned(f))
      BY DEF now, ms
    <3>3. e \in Int /\ f \in 0 .. Wrap - 1
      BY <1>1, <3>1, Units
    <3> HIDE DEF d, e, f
    <3>4. d.sec \in 0 .. Wrap - 1 /\ d.nsec \in 0 .. NsPerSec - 1
      BY <3>2, <3>3, NormalizeWrapped
    <3> QED
      BY <1>2, <3>4
  <2>4. w = d.sec * NsPerSec + d.nsec
    BY DEF TimeNs
  <2> HIDE DEF d, h, w
  <2>5. diff = w - host
    <3>1. (d.sec - h.sec) * NsPerSec = d.sec * NsPerSec - h.sec * NsPerSec
          /\ d.sec * NsPerSec \in Int /\ h.sec * NsPerSec \in Int
      BY <1>2, <2>2, <2>3
    <3> QED
      BY <1>2, <2>2, <2>3, <2>4, <3>1
  <2> DEFINE k == (host + z) \div A
             y == z + b
             turns == -k
  <2>6. k \in Int /\ w \in Int /\ host + z = A * k + w
    <3> DEFINE v == host + z
    <3>1. v \in Int /\ w = v % A
      BY <1>8, <1>9 DEF w
    <3> HIDE DEF v, A
    <3>2. v \div A \in Int /\ v % A \in 0 .. A - 1 /\ v = A * (v \div A) + (v % A)
      BY <1>2, <3>1, DivMod
    <3> QED
      BY <3>1, <3>2 DEF v
  <2> HIDE DEF k, z, b, A, host, diff
  <2>7. turns \in Int /\ diff + b = y + A * turns /\ y \in 0 .. A - 1
    <3>1. A * k \in Int /\ A * turns = -(A * k)
      BY <1>2, <2>6
    <3> DEFINE o == A * k
               p == A * turns
    <3>2. o \in Int /\ p = -o /\ host + z = o + w
      BY <2>6, <3>1
    <3> HIDE DEF o, p
    <3>3. diff + b = y + p
      BY <1>8, <1>11, <2>5, <2>6, <3>2
    <3> QED
      BY <1>11, <1>12, <2>6, <3>3 DEF p
  <2> HIDE DEF y, turns
  <2>8. (y + A * turns) % A = y % A /\ y % A = y
    <3>1. y \in Int
      BY <1>2, <2>7
    <3>2. (y + A * turns) % A = y % A
      BY <1>2, <2>7, <3>1, RemainderOfTurns
    <3>3. y % A = y
      BY <1>2, <2>7, RemainderSmall
    <3> QED
      BY <3>2, <3>3
  <2>9. Ahead(clock) = y - b
    BY <1>11, <2>1, <2>7, <2>8
  <2> QED
    BY <1>8, <1>11, <2>9 DEF y
<1> QED
  BY <1>10, <1>13

\* What the synchronisation remembers is right at all times: for every width,
\* counter, boot and number of requests, answers late, lost or to an earlier one.
THEOREM ClockInvariant == ClockSpec => []ClockInv
<1>1. ClockInit => ClockInv
  <2> SUFFICES ASSUME ClockInit PROVE ClockInv
    OBVIOUS
  <2>1. PICK source \in Sources, boot \in Boots :
          clock = [source |-> source, t |-> 0, boot |-> boot, rt_time |-> 0, sec_offset |-> 0,
                   nsec_offset |-> 0, asked |-> 0, requests |-> {}, answers |-> {},
                   synced |-> NotSynced]
    BY DEF ClockInit
  <2>2. /\ NotSynced \in [at : -1 .. MaxTime, asked : 0 .. MaxTime, stamped : 0 .. MaxTime]
        /\ 0 \in 0 .. MaxTime /\ 0 \in 0 .. MaxAsked /\ 0 \in 0 .. Wrap - 1
        /\ 0 \in 0 .. NsPerSec - 1
    BY Units, DeviceClockAssumption DEF NotSynced
  <2>3. ClockTypeOK
    BY <2>1, <2>2 DEF ClockTypeOK
  <2>4. clock.requests = {} /\ clock.answers = {} /\ clock.synced = NotSynced
    BY <2>1
  <2> QED
    BY <2>3, <2>4 DEF ClockInv, RequestRemembered, OffsetKnown
<1>2. ClockInv /\ [ClockNext]_clock => ClockInv'
  <2> SUFFICES ASSUME ClockInv, [ClockNext]_clock PROVE ClockInv'
    OBVIOUS
  <2>1. CASE clock' = clock
    BY <2>1 DEF ClockInv, ClockTypeOK, Sources, RequestRemembered, OffsetKnown, Measured, Steady,
       Count, SystickIntHandler, time_linux, time_mach, time_chibios, time_windows, TimeNs
  <2>2. CASE ClockNext
    BY <2>2, SyncKeeps, ClockKeeps DEF ClockNext
  <2> QED
    BY <2>1, <2>2
<1> QED
  BY <1>1, <1>2, PTL DEF ClockSpec

\* The device's clock is never ahead of the server's by more than the request
\* took, nor behind by more than the answer took, while its counter is steady.
THEOREM ClockAlwaysWithinDelay == ClockSpec => []ClockWithinDelay
<1>1. ClockInv => ClockWithinDelay
  BY DelayBounded
<1> QED
  BY <1>1, ClockInvariant, PTL

-----------------------------------------------------------------------------
(* The serialisation buffer. *)

USE MemoryAssumption, BufferSizesAssumption, ByteAssumption, MaxArrayAssumption

(* The inductive invariant, of any buffer: without an error, the position is *)
(* a multiple of the width of the last datum.                                *)
Sound(b) ==
  /\ b \in UcdrBuffer
  /\ b.iterator <= b.final
  /\ b.offset = b.iterator
  /\ ~b.error /\ b.last # 0 => b.offset % b.last = 0

(* What a call may do to a buffer b that it leaves as c. *)
Confined(b, c) ==
  /\ c.final = b.final
  /\ \A i \in b.final..(Memory - 1) : c.data[i] = b.data[i]
  /\ b.error => c.error /\ c.data = b.data /\ c.iterator = b.iterator

LEMMA ConfinedTransitive ==
  ASSUME NEW a, NEW b, NEW c, Confined(a, b), Confined(b, c)
  PROVE  Confined(a, c)
BY DEF Confined

-----------------------------------------------------------------------------
(* Alignment. *)

(* The padding to the next multiple of n. *)
LEMMA AlignmentAligns ==
  ASSUME NEW p \in Nat, NEW n \in Widths
  PROVE  /\ ucdr_alignment(p, n) \in 0..7
         /\ (p + ucdr_alignment(p, n)) % n = 0
         /\ p % n = 0 => ucdr_alignment(p, n) = 0
<1>1. CASE n = 1
  BY <1>1 DEF ucdr_alignment
<1>2. CASE n = 2
  BY <1>2 DEF ucdr_alignment
<1>3. CASE n = 4
  BY <1>3 DEF ucdr_alignment
<1>4. CASE n = 8
  BY <1>4 DEF ucdr_alignment
<1> QED
  BY <1>1, <1>2, <1>3, <1>4 DEF Widths

(* A multiple of a width is one of every smaller width. *)
LEMMA WidthsDivide ==
  ASSUME NEW p \in Nat, NEW m \in Widths, NEW n \in Widths, n <= m, p % m = 0
  PROVE  p % n = 0
<1>1. CASE m = 1
  BY <1>1 DEF Widths
<1>2. CASE m = 2
  BY <1>2 DEF Widths
<1>3. CASE m = 4
  BY <1>3 DEF Widths
<1>4. CASE m = 8
  BY <1>4 DEF Widths
<1> QED
  BY <1>1, <1>2, <1>3, <1>4 DEF Widths

(* The shortcut of ucdr_buffer_alignment() gives the same as the full *)
(* computation.                                                       *)
LEMMA ShortcutExact ==
  ASSUME NEW b, Sound(b), ~b.error, NEW n \in Widths
  PROVE  ucdr_buffer_alignment(b, n) = ucdr_alignment(b.offset, n)
<1>0. b.offset \in Nat /\ b.last \in {0} \cup Widths
  BY DEF Sound, UcdrBuffer
<1>1. CASE n > b.last
  BY <1>1 DEF ucdr_buffer_alignment
<1>2. CASE ~(n > b.last)
  <2>1. b.last \in Widths /\ n <= b.last /\ b.last # 0
    BY <1>0, <1>2 DEF Widths
  <2>2. b.offset % n = 0
    BY <1>0, <2>1, WidthsDivide DEF Sound
  <2> QED
    BY <1>0, <1>2, <2>2, AlignmentAligns DEF ucdr_buffer_alignment
<1> QED
  BY <1>1, <1>2

LEMMA AlignmentNat ==
  ASSUME NEW b, Sound(b), NEW n \in Widths
  PROVE  ucdr_buffer_alignment(b, n) \in Nat
BY AlignmentAligns DEF ucdr_buffer_alignment, Sound, UcdrBuffer

-----------------------------------------------------------------------------
(* Moving the cursor. *)

(* A transfer that leaves w as the width of the last datum. *)
Moved(b, n, w) == [Transfer(b, n) EXCEPT !.last = w]

(* It stays in the array, and without an error it was complete. *)
LEMMA TransferMoves ==
  ASSUME NEW b, Sound(b), NEW n \in Nat, NEW w \in {0} \cup Widths
  PROVE  LET c == Moved(b, n, w)
         IN  /\ c \in UcdrBuffer
             /\ Confined(b, c)
             /\ c.iterator <= c.final /\ c.offset = c.iterator
             /\ c.iterator = b.iterator + Transferred(b, n)
             /\ Transferred(b, n) \in Nat /\ Transferred(b, n) <= n
             /\ b.iterator + Transferred(b, n) <= b.final
             /\ b.error => Transferred(b, n) = 0
             /\ c.data = b.data /\ c.last = w
             /\ ~c.error => ~b.error /\ Transferred(b, n) = n
<1>1. b.final \in 0..Memory /\ b.iterator \in 0..Memory /\ b.error \in BOOLEAN
  BY DEF Sound, UcdrBuffer
<1>2. /\ Transferred(b, n) \in Nat /\ Transferred(b, n) <= n
      /\ b.iterator + Transferred(b, n) <= b.final
      /\ b.error => Transferred(b, n) = 0
  BY <1>1 DEF Sound, Transferred, ucdr_buffer_remaining
<1> DEFINE c == Moved(b, n, w)
<1> USE DEF Moved
<1>3. /\ c.data = b.data /\ c.final = b.final /\ c.last = w
      /\ c.iterator = b.iterator + Transferred(b, n)
      /\ c.offset = b.offset + Transferred(b, n)
  BY DEF Transfer, Sound, UcdrBuffer
<1>4. c.error <=> (b.error \/ Transferred(b, n) < n)
  BY <1>1 DEF Transfer, Sound, UcdrBuffer
<1>5. c \in UcdrBuffer
  <2>1. b.iterator + Transferred(b, n) \in 0..Memory /\ b.offset + Transferred(b, n) \in 0..Memory
    BY <1>1, <1>2 DEF Sound
  <2> DEFINE e == b.error \/ Transferred(b, n) < n
  <2>2. e \in BOOLEAN
    BY <1>1, <1>2
  <2>3. b \in UcdrBuffer
    BY DEF Sound
  <2>4. Transfer(b, n) \in UcdrBuffer
    <3>1. Transfer(b, n) = [b EXCEPT !.iterator = b.iterator + Transferred(b, n),
                                     !.offset = b.offset + Transferred(b, n),
                                     !.error = e]
      BY DEF Transfer
    <3> HIDE DEF e
    <3>2. [b EXCEPT !.iterator = b.iterator + Transferred(b, n),
                    !.offset = b.offset + Transferred(b, n), !.error = e] \in UcdrBuffer
      BY <2>1, <2>2, <2>3 DEF UcdrBuffer
    <3> QED
      BY <3>1, <3>2
  <2> QED
    BY <2>4 DEF UcdrBuffer
<1> HIDE DEF c, Moved
<1>6. Confined(b, c)
  BY <1>2, <1>3, <1>4, <1>1 DEF Confined
<1>7. /\ c.iterator <= c.final /\ c.offset = c.iterator
      /\ ~c.error => ~b.error /\ Transferred(b, n) = n
  BY <1>1, <1>2, <1>3, <1>4 DEF Sound
<1> QED
  BY <1>2, <1>3, <1>5, <1>6, <1>7 DEF c

LEMMA AdvanceSound ==
  ASSUME NEW b, Sound(b), NEW n \in Nat
  PROVE  /\ Sound(ucdr_advance_buffer(b, n))
         /\ Confined(b, ucdr_advance_buffer(b, n))
<1> DEFINE c == ucdr_advance_buffer(b, n)
<1>1. /\ c \in UcdrBuffer /\ Confined(b, c)
      /\ c.iterator <= c.final /\ c.offset = c.iterator /\ c.last = 1
  <2>1. 1 \in {0} \cup Widths
    BY DEF Widths
  <2>2. c = Moved(b, n, 1)
    BY DEF ucdr_advance_buffer, Moved
  <2> HIDE DEF c
  <2> QED
    BY <2>1, <2>2, TransferMoves
<1>2. c.offset % 1 = 0
  BY <1>1 DEF UcdrBuffer
<1> QED
  BY <1>1, <1>2 DEF Sound

(* After the padding the position is a multiple of the width. *)
LEMMA AlignedSound ==
  ASSUME NEW b, Sound(b), NEW n \in Widths
  PROVE  /\ Sound(Aligned(b, n)) /\ Confined(b, Aligned(b, n))
         /\ ~Aligned(b, n).error => ~b.error /\ Aligned(b, n).offset % n = 0
<1> DEFINE p == ucdr_buffer_alignment(b, n)
           a == Aligned(b, n)
<1>1. p \in Nat
  BY AlignmentNat
<1>2. Sound(a) /\ Confined(b, a)
  BY <1>1, AdvanceSound DEF Aligned
<1>3. ~a.error => ~b.error /\ a.offset = b.offset + p
  <2>1. a = Moved(b, p, 1) /\ 1 \in {0} \cup Widths
    BY DEF Aligned, ucdr_advance_buffer, Moved, Widths
  <2> HIDE DEF a, p
  <2>2. /\ a.offset = a.iterator /\ a.iterator = b.iterator + Transferred(b, p)
        /\ ~a.error => ~b.error /\ Transferred(b, p) = p
    BY <1>1, <2>1, TransferMoves
  <2> QED
    BY <2>2 DEF Sound
<1>4. ~b.error => (b.offset + p) % n = 0
  <2>1. b.offset \in Nat
    BY DEF Sound, UcdrBuffer
  <2> QED
    BY <2>1, ShortcutExact, AlignmentAligns
<1> QED
  BY <1>2, <1>3, <1>4

(* The macros for wider values: a buffer with an error stays as it is, and *)
(* the value is claimed only where there is room for all of it.            *)
LEMMA ClaimSound ==
  ASSUME NEW a, Sound(a), NEW n \in Widths, NEW last \in {0} \cup Widths,
         ~a.error => a.offset % n = 0
  PROVE  LET c == ClaimN(a, last, n)
         IN  /\ Sound(c) /\ Confined(a, c) /\ c.data = a.data
             /\ ucdr_check_buffer_available_for(a, n) => ~a.error /\ a.iterator + n <= a.final
<1> DEFINE c == ClaimN(a, last, n)
<1>1. /\ a \in UcdrBuffer /\ a.final \in 0..Memory /\ a.iterator \in 0..Memory
      /\ a.offset \in 0..Memory /\ a.error \in BOOLEAN /\ n \in Nat
  BY DEF Sound, UcdrBuffer, Widths
<1>2. CASE ucdr_check_buffer_available_for(a, n)
  <2>1. ~a.error /\ a.iterator + n <= a.final
    BY <1>2 DEF ucdr_check_buffer_available_for
  <2>2. c = [a EXCEPT !.iterator = @ + n, !.offset = @ + n, !.last = n]
    BY <1>2 DEF ClaimN
  <2>3. /\ c.data = a.data /\ c.final = a.final /\ c.iterator = a.iterator + n
        /\ c.offset = a.offset + n /\ c.last = n
    BY <1>1, <2>2 DEF UcdrBuffer
  <2>4. a.iterator + n \in 0..Memory /\ a.offset + n \in 0..Memory
    BY <1>1, <2>1 DEF Sound
  <2>5. c \in UcdrBuffer
    <3>1. [a EXCEPT !.iterator = @ + n, !.offset = @ + n, !.last = n] \in UcdrBuffer
      BY <1>1, <2>4 DEF UcdrBuffer, Widths
    <3> QED
      BY <2>2, <3>1
  <2>6. (a.offset + n) % n = 0
    BY <2>1, <1>1 DEF Widths, Sound
  <2> HIDE DEF c
  <2> QED
    BY <2>1, <2>3, <2>5, <2>6, <1>1 DEF Sound, Confined, c
<1>3. CASE ~ucdr_check_buffer_available_for(a, n) /\ a.final > a.iterator
  <2>2. c = [a EXCEPT !.error = TRUE, !.last = last]
    BY <1>3 DEF ClaimN
  <2>3. /\ c.data = a.data /\ c.final = a.final /\ c.iterator = a.iterator
        /\ c.offset = a.offset /\ c.error
    BY <1>1, <2>2 DEF UcdrBuffer
  <2>5. c \in UcdrBuffer
    <3>1. [a EXCEPT !.error = TRUE, !.last = last] \in UcdrBuffer
      BY <1>1 DEF UcdrBuffer
    <3> QED
      BY <2>2, <3>1
  <2> HIDE DEF c
  <2> QED
    BY <2>3, <2>5, <1>1, <1>3 DEF Sound, Confined, c
<1>4. CASE ~ucdr_check_buffer_available_for(a, n) /\ a.final <= a.iterator
  <2>1. ~(a.final > a.iterator)
    BY <1>1, <1>4
  <2>2. c = IF ~a.error /\ a.iterator >= a.final THEN [a EXCEPT !.error = TRUE] ELSE a
    BY <1>4, <2>1 DEF ClaimN, ucdr_check_final_buffer_behavior
  <2>3. CASE a.error
    <3>1. c = a
      BY <2>2, <2>3
    <3> HIDE DEF c
    <3> QED
      BY <3>1, <2>3, <1>4, <1>1 DEF Sound, Confined, c
  <2>4. CASE ~a.error
    <3>1. c = [a EXCEPT !.error = TRUE]
      BY <1>1, <1>4, <2>2, <2>4
    <3>2. /\ c.data = a.data /\ c.final = a.final /\ c.iterator = a.iterator
          /\ c.offset = a.offset /\ c.error
      BY <1>1, <3>1 DEF UcdrBuffer
    <3>3. [a EXCEPT !.error = TRUE] \in UcdrBuffer
      BY <1>1 DEF UcdrBuffer
    <3>4. c \in UcdrBuffer
      BY <3>1, <3>3
    <3> HIDE DEF c
    <3> QED
      BY <3>2, <3>4, <1>1, <1>4 DEF Sound, Confined, c
  <2> QED
    BY <2>3, <2>4
<1>5. a.final > a.iterator \/ a.final <= a.iterator
  BY <1>1
<1> QED
  BY <1>2, <1>3, <1>4, <1>5

(* Storing what belongs before the end, on a buffer without an error, is   *)
(* confined if moving the cursor was.                                      *)
LEMMA StoreSound ==
  ASSUME NEW b, NEW c, Sound(c), Confined(b, c), NEW at \in Nat,
         NEW v \in Seq(0..255), at + Len(v) <= c.final, b.error => Len(v) = 0
  PROVE  LET d == StoreAt(c, at, v)
         IN  /\ Sound(d) /\ Confined(b, d)
             /\ d.iterator = c.iterator /\ (d.error <=> c.error)
<1> DEFINE d == StoreAt(c, at, v)
           data == [i \in 0..(Memory - 1) |->
                      IF at <= i /\ i < at + Len(v) THEN v[i - at + 1] ELSE c.data[i]]
<1>1. c \in UcdrBuffer /\ c.final \in 0..Memory /\ c.data \in [0..(Memory - 1) -> 0..255]
  BY DEF Sound, UcdrBuffer
<1>2. Len(v) \in Nat /\ \A j \in 1..Len(v) : v[j] \in 0..255
  <2>1. Len(v) \in Nat /\ v \in [1..Len(v) -> 0..255]
    BY LenProperties
  <2> QED
    BY <2>1
<1>3. data \in [0..(Memory - 1) -> 0..255]
  <2> SUFFICES ASSUME NEW i \in 0..(Memory - 1)
               PROVE  (IF at <= i /\ i < at + Len(v) THEN v[i - at + 1] ELSE c.data[i]) \in 0..255
    OBVIOUS
  <2>1. CASE at <= i /\ i < at + Len(v)
    <3>1. i - at + 1 \in 1..Len(v)
      BY <1>2, <2>1
    <3> QED
      BY <1>2, <2>1, <3>1
  <2>2. CASE ~(at <= i /\ i < at + Len(v))
    BY <1>1, <2>2
  <2> QED
    BY <2>1, <2>2
<1>4. \A i \in c.final..(Memory - 1) : data[i] = c.data[i]
  BY <1>1, <1>2
<1>5. Len(v) = 0 => data = c.data
  BY <1>1
<1>6. d = [c EXCEPT !.data = data]
  BY DEF StoreAt
<1> HIDE DEF data, d
<1>7. /\ d \in UcdrBuffer /\ d.data = data /\ d.final = c.final /\ d.iterator = c.iterator
      /\ d.offset = c.offset /\ d.last = c.last /\ d.error = c.error
  BY <1>1, <1>3, <1>6 DEF UcdrBuffer
<1> QED
  BY <1>4, <1>5, <1>7 DEF d, Sound, Confined

-----------------------------------------------------------------------------
(* The calls. *)

LEMMA TupleIsSequence ==
  ASSUME NEW n \in Nat, NEW v \in Tuples(n)
  PROVE  v \in Seq(0..255) /\ Len(v) = n
<1>1. v \in [1..n -> 0..255]
  BY DEF Tuples
<1>2. v \in Seq(0..255)
  BY <1>1
<1> QED
  BY <1>1, <1>2, LenProperties

LEMMA CheckFinalSound ==
  ASSUME NEW b, Sound(b)
  PROVE  LET c == ucdr_check_final_buffer_behavior(b)
         IN  /\ Sound(c) /\ Confined(b, c)
             /\ ~c.error => ~b.error /\ c.iterator < c.final
<1> DEFINE c == ucdr_check_final_buffer_behavior(b)
<1>1. /\ b \in UcdrBuffer /\ b.final \in 0..Memory /\ b.iterator \in 0..Memory
      /\ b.error \in BOOLEAN
  BY DEF Sound, UcdrBuffer
<1>2. /\ c.data = b.data /\ c.final = b.final /\ c.iterator = b.iterator
      /\ c.offset = b.offset /\ c.last = b.last
      /\ c.error <=> b.error \/ b.iterator >= b.final
  BY <1>1 DEF ucdr_check_final_buffer_behavior, UcdrBuffer
<1>3. c \in UcdrBuffer
  <2>1. [b EXCEPT !.error = TRUE] \in UcdrBuffer
    BY <1>1 DEF UcdrBuffer
  <2> QED
    BY <1>1, <2>1 DEF ucdr_check_final_buffer_behavior
<1> HIDE DEF c
<1> QED
  BY <1>1, <1>2, <1>3 DEF c, Sound, Confined

(* The cursor moves on by one byte. *)
Bumped(d) == [d EXCEPT !.iterator = @ + 1, !.offset = @ + 1, !.last = 1]

LEMMA BumpedSound ==
  ASSUME NEW d, Sound(d), ~d.error, d.iterator < d.final
  PROVE  Sound(Bumped(d)) /\ Confined(d, Bumped(d))
<1> DEFINE c == Bumped(d)
<1>1. /\ d \in UcdrBuffer /\ d.final \in 0..Memory /\ d.iterator \in 0..Memory
      /\ d.offset = d.iterator
  BY DEF Sound, UcdrBuffer
<1>2. /\ c.data = d.data /\ c.final = d.final /\ c.iterator = d.iterator + 1
      /\ c.offset = d.offset + 1 /\ c.last = 1
  BY <1>1 DEF Bumped, UcdrBuffer
<1>3. c \in UcdrBuffer
  <2>1. d.iterator + 1 \in 0..Memory /\ d.offset + 1 \in 0..Memory
    BY <1>1
  <2> QED
    BY <1>1, <2>1 DEF Bumped, UcdrBuffer, Widths
<1>4. (d.offset + 1) % 1 = 0
  BY <1>1
<1> HIDE DEF c
<1> QED
  BY <1>1, <1>2, <1>3, <1>4 DEF c, Sound, Confined

LEMMA SerializeSound ==
  ASSUME NEW b, Sound(b), NEW v \in Seq(0..255), Len(v) \in Widths
  PROVE  Sound(ucdr_serialize(b, v)) /\ Confined(b, ucdr_serialize(b, v))
<1>1. CASE Len(v) = 1
  <2> DEFINE c == ucdr_check_final_buffer_behavior(b)
             d == StoreAt(c, c.iterator, v)
  <2>1. /\ Sound(c) /\ Confined(b, c)
        /\ ~c.error => ~b.error /\ c.iterator < c.final
    BY CheckFinalSound
  <2>2. CASE c.error
    BY <1>1, <2>1, <2>2 DEF ucdr_serialize, SERIALIZE_BYTE_1
  <2>3. CASE ~c.error
    <3>1. c.iterator \in Nat /\ c.final \in Nat
      BY <2>1 DEF Sound, UcdrBuffer
    <3> HIDE DEF c
    <3>2. c.iterator + Len(v) <= c.final
      BY <1>1, <2>1, <2>3, <3>1
    <3>3. /\ Sound(d) /\ Confined(b, d)
          /\ d.iterator = c.iterator /\ (d.error <=> c.error)
      BY <2>1, <2>3, <3>1, <3>2, StoreSound
    <3>4. d.final = c.final
      BY <2>1, <3>3 DEF Confined
    <3>5. Sound(Bumped(d)) /\ Confined(d, Bumped(d))
      BY <2>1, <2>3, <3>3, <3>4, BumpedSound
    <3>6. Confined(b, Bumped(d))
      BY <3>3, <3>5, ConfinedTransitive
    <3>7. ucdr_serialize(b, v) = Bumped(d)
      BY <1>1, <2>3 DEF ucdr_serialize, SERIALIZE_BYTE_1, Bumped, c
    <3> QED
      BY <3>5, <3>6, <3>7
  <2> QED
    BY <2>2, <2>3
<1>2. CASE Len(v) # 1
  <2> DEFINE n == Len(v)
             a == Aligned(b, n)
             c == ClaimN(a, b.last, n)
  <2>1. /\ Sound(a) /\ Confined(b, a) /\ (~a.error => ~b.error /\ a.offset % n = 0)
    BY AlignedSound
  <2>2. b.last \in {0} \cup Widths /\ a.iterator \in Nat
    BY <2>1 DEF Sound, UcdrBuffer
  <2> HIDE DEF a
  <2>3. /\ Sound(c) /\ Confined(a, c) /\ c.data = a.data
        /\ ucdr_check_buffer_available_for(a, n) => ~a.error /\ a.iterator + n <= a.final
    BY <2>1, <2>2, ClaimSound
  <2>4. Confined(b, c) /\ c.final = a.final
    BY <2>1, <2>3, ConfinedTransitive DEF Confined
  <2>5. ucdr_serialize(b, v) =
          IF ucdr_check_buffer_available_for(a, n) THEN StoreAt(c, a.iterator, v) ELSE c
    BY <1>2 DEF ucdr_serialize, SERIALIZE_BYTE_N, a
  <2> HIDE DEF c
  <2>6. CASE ucdr_check_buffer_available_for(a, n)
    BY <2>1, <2>2, <2>3, <2>4, <2>5, <2>6, StoreSound
  <2>7. CASE ~ucdr_check_buffer_available_for(a, n)
    BY <2>3, <2>4, <2>5, <2>7
  <2> QED
    BY <2>6, <2>7
<1> QED
  BY <1>1, <1>2

LEMMA DeserializeSound ==
  ASSUME NEW b, Sound(b), NEW n \in Widths, NEW was
  PROVE  LET c == ucdr_deserialize(b, n, was).ub IN Sound(c) /\ Confined(b, c)
<1>1. CASE n = 1
  <2> DEFINE c == ucdr_check_final_buffer_behavior(b)
  <2>1. /\ Sound(c) /\ Confined(b, c)
        /\ ~c.error => ~b.error /\ c.iterator < c.final
    BY CheckFinalSound
  <2>2. ucdr_deserialize(b, n, was).ub = IF c.error THEN c ELSE Bumped(c)
    BY <1>1 DEF ucdr_deserialize, DESERIALIZE_BYTE_1, Bumped
  <2> HIDE DEF c
  <2>3. ~c.error => Sound(Bumped(c)) /\ Confined(b, Bumped(c))
    BY <2>1, BumpedSound, ConfinedTransitive
  <2> QED
    BY <2>1, <2>2, <2>3
<1>2. CASE n # 1
  <2> DEFINE a == Aligned(b, n)
             c == ClaimN(a, b.last, n)
  <2>1. /\ Sound(a) /\ Confined(b, a) /\ (~a.error => ~b.error /\ a.offset % n = 0)
    BY AlignedSound
  <2>2. b.last \in {0} \cup Widths
    BY DEF Sound, UcdrBuffer
  <2>3. ucdr_deserialize(b, n, was).ub = c
    BY <1>2 DEF ucdr_deserialize, DESERIALIZE_BYTE_N
  <2> HIDE DEF a
  <2>4. Sound(c) /\ Confined(a, c)
    BY <2>1, <2>2, ClaimSound
  <2> HIDE DEF c
  <2> QED
    BY <2>1, <2>3, <2>4, ConfinedTransitive
<1> QED
  BY <1>1, <1>2

(* Whole elements keep the position a multiple of their width. *)
LEMMA MultipleAdds ==
  ASSUME NEW p \in Nat, NEW n \in Widths, NEW k \in Nat, p % n = 0
  PROVE  (p + n * k) % n = 0 /\ n * k \in Nat /\ (n * k) \div n \in Nat
<1>1. CASE n = 1
  BY <1>1
<1>2. CASE n = 2
  BY <1>2
<1>3. CASE n = 4
  BY <1>3
<1>4. CASE n = 8
  BY <1>4
<1> QED
  BY <1>1, <1>2, <1>3, <1>4 DEF Widths

(* An array call aligns first and keeps last_data_size for the copying. *)
LEMMA ArrayCursorSound ==
  ASSUME NEW b, Sound(b), NEW n \in Widths, NEW k \in Nat
  PROVE  LET a == [Aligned(b, n) EXCEPT !.last = b.last]
             c == Moved(a, n * k, n)
         IN  /\ Sound(a) /\ Sound(c) /\ Confined(b, c)
             /\ a.iterator \in Nat /\ Transferred(a, n * k) \in Nat
             /\ Transferred(a, n * k) <= n * k
             /\ a.iterator + Transferred(a, n * k) <= c.final
             /\ b.error => Transferred(a, n * k) = 0
<1> DEFINE d == Aligned(b, n)
           a == [Aligned(b, n) EXCEPT !.last = b.last]
           c == Moved(a, n * k, n)
<1>1. /\ Sound(d) /\ Confined(b, d) /\ (~d.error => ~b.error /\ d.offset % n = 0)
  BY AlignedSound
<1>2. b.last \in {0} \cup Widths /\ b.offset \in Nat /\ n \in {0} \cup Widths
  BY DEF Sound, UcdrBuffer
<1>3. ~d.error /\ b.last # 0 => d.offset % b.last = 0
  <2> SUFFICES ASSUME ~d.error, b.last # 0 PROVE d.offset % b.last = 0
    OBVIOUS
  <2>0. d.offset \in Nat /\ n \in Nat /\ b.last \in Widths /\ b.last \in Nat
    BY <1>1, <1>2 DEF Sound, UcdrBuffer, Widths
  <2>1. CASE b.last < n
    BY <1>1, <2>0, <2>1, WidthsDivide
  <2>2. CASE ~(b.last < n)
    <3>1. ucdr_buffer_alignment(b, n) = 0
      BY <2>0, <2>2 DEF ucdr_buffer_alignment
    <3>2. d = Moved(b, 0, 1) /\ 1 \in {0} \cup Widths
      BY <3>1 DEF Aligned, ucdr_advance_buffer, Moved, Widths
    <3> HIDE DEF d
    <3>3. /\ d.offset = d.iterator /\ d.iterator = b.iterator + Transferred(b, 0)
          /\ Transferred(b, 0) = 0 /\ ~b.error
      BY <3>2, TransferMoves
    <3> QED
      BY <1>2, <3>3 DEF Sound
  <2> QED
    BY <2>1, <2>2
<1>4. /\ a \in UcdrBuffer /\ a.data = d.data /\ a.final = d.final /\ a.iterator = d.iterator
      /\ a.offset = d.offset /\ a.last = b.last /\ (a.error <=> d.error)
  <2>1. d \in UcdrBuffer
    BY <1>1 DEF Sound
  <2> QED
    BY <1>2, <2>1 DEF UcdrBuffer
<1> HIDE DEF a, d
<1>5. Sound(a) /\ Confined(b, a)
  BY <1>1, <1>3, <1>4 DEF Sound, Confined
<1>6. a.offset \in Nat /\ a.iterator \in Nat /\ a.final \in Nat
  BY <1>5 DEF Sound, UcdrBuffer
<1>7. n * k \in Nat /\ (~a.error => (a.offset + n * k) % n = 0)
  <2>1. 0 % n = 0
    BY DEF Widths
  <2> QED
    BY <1>1, <1>4, <1>6, <2>1, MultipleAdds
<1>8. /\ c \in UcdrBuffer /\ Confined(a, c) /\ c.last = n
      /\ c.iterator <= c.final /\ c.offset = c.iterator
      /\ c.iterator = a.iterator + Transferred(a, n * k)
      /\ Transferred(a, n * k) \in Nat /\ Transferred(a, n * k) <= n * k
      /\ a.iterator + Transferred(a, n * k) <= a.final
      /\ a.error => Transferred(a, n * k) = 0
      /\ ~c.error => ~a.error /\ Transferred(a, n * k) = n * k
  BY <1>2, <1>5, <1>7, TransferMoves
<1> HIDE DEF c
<1>9. Sound(c)
  BY <1>5, <1>7, <1>8 DEF Sound
<1>10. Confined(b, c)
  BY <1>5, <1>8, ConfinedTransitive
<1>11. c.final = a.final /\ (b.error => a.error)
  BY <1>5, <1>8 DEF Confined
<1> QED
  BY <1>5, <1>6, <1>8, <1>9, <1>10, <1>11 DEF a, c

LEMMA SerializeArraySound ==
  ASSUME NEW b, Sound(b), NEW n \in Widths, NEW k \in Nat,
         NEW v \in Seq(0..255), Len(v) = n * k
  PROVE  LET d == ucdr_serialize_array(b, v, n) IN Sound(d) /\ Confined(b, d)
<1> DEFINE a == [Aligned(b, n) EXCEPT !.last = b.last]
           c == Moved(a, n * k, n)
           t == Transferred(a, n * k)
           s == SubSeq(v, 1, t)
<1>1. /\ Sound(c) /\ Confined(b, c) /\ a.iterator \in Nat /\ t \in Nat /\ t <= n * k
      /\ a.iterator + t <= c.final
      /\ b.error => t = 0
  BY ArrayCursorSound
<1>2. n * k \in Nat
  BY DEF Widths
<1>3. s \in Seq(0..255) /\ Len(s) = t
  <2> HIDE DEF t
  <2>1. t <= Len(v) /\ 1 \in 1..(Len(v) + 1) /\ t \in 0..Len(v)
    BY <1>1, <1>2
  <2> QED
    BY <1>1, <2>1, SubSeqProperties
<1>4. ucdr_serialize_array(b, v, n) = StoreAt(c, a.iterator, s)
  BY DEF ucdr_serialize_array, ucdr_array_to_buffer, Moved
<1> HIDE DEF a, c, t, s
<1>5. a.iterator + Len(s) <= c.final /\ (b.error => Len(s) = 0)
  BY <1>1, <1>3
<1>6. LET d == StoreAt(c, a.iterator, s) IN Sound(d) /\ Confined(b, d)
  BY <1>1, <1>3, <1>5, StoreSound
<1> QED
  BY <1>4, <1>6

LEMMA DeserializeArraySound ==
  ASSUME NEW b, Sound(b), NEW n \in Widths, NEW k \in Nat,
         NEW v \in Seq(0..255), Len(v) = n * k
  PROVE  LET d == ucdr_deserialize_array(b, v, n).ub IN Sound(d) /\ Confined(b, d)
<1> DEFINE a == [Aligned(b, n) EXCEPT !.last = b.last]
<1>1. Sound(Moved(a, n * k, n)) /\ Confined(b, Moved(a, n * k, n))
  BY ArrayCursorSound
<1>2. ucdr_deserialize_array(b, v, n).ub = Moved(a, n * k, n)
  BY DEF ucdr_deserialize_array, ucdr_buffer_to_array, Moved
<1> HIDE DEF a
<1> QED
  BY <1>1, <1>2

LEMMA LengthIsSequence ==
  ASSUME NEW x \in Nat
  PROVE  U32(x) \in Seq(0..255) /\ Len(U32(x)) = 4
<1>1. /\ x % 256 \in 0..255
      /\ (x \div 256) % 256 \in 0..255
      /\ (x \div 65536) % 256 \in 0..255
      /\ (x \div 16777216) % 256 \in 0..255
  OBVIOUS
<1> QED
  BY <1>1 DEF U32

LEMMA SerializeSequenceSound ==
  ASSUME NEW b, Sound(b), NEW n \in Widths, NEW k \in Nat,
         NEW v \in Seq(0..255), Len(v) = n * k
  PROVE  LET d == ucdr_serialize_sequence(b, v, n) IN Sound(d) /\ Confined(b, d)
<1> DEFINE u == U32(Len(v) \div n)
           c == SERIALIZE_BYTE_N(b, u)
<1>1. Len(v) \div n \in Nat
  <2>1. 0 % n = 0 /\ 0 \in Nat
    BY DEF Widths
  <2> QED
    BY <2>1, MultipleAdds
<1>2. u \in Seq(0..255) /\ Len(u) = 4
  BY <1>1, LengthIsSequence
<1> HIDE DEF u
<1>3. Sound(c) /\ Confined(b, c)
  <2>1. Len(u) \in Widths /\ c = ucdr_serialize(b, u)
    BY <1>2 DEF ucdr_serialize, Widths
  <2> HIDE DEF c
  <2> QED
    BY <1>2, <2>1, SerializeSound
<1>4. ucdr_serialize_sequence(b, v, n) =
        IF v = <<>> THEN c ELSE ucdr_serialize_array(c, v, n)
  BY DEF ucdr_serialize_sequence, u
<1> HIDE DEF c
<1>5. LET d == ucdr_serialize_array(c, v, n) IN Sound(d) /\ Confined(b, d)
  BY <1>3, SerializeArraySound, ConfinedTransitive
<1> QED
  BY <1>3, <1>4, <1>5

-----------------------------------------------------------------------------
(* The specification. *)

(* Every call on a sound buffer leaves a sound one, and is confined. *)
LEMMA CallSound ==
  ASSUME Sound(ub), Call
  PROVE  Sound(ub') /\ Confined(ub, ub')
<1>1. CASE Serialize
  <2>1. PICK n \in Widths : \E v \in Tuples(n) : ub' = ucdr_serialize(ub, v)
    BY <1>1 DEF Serialize
  <2>2. PICK v \in Tuples(n) : ub' = ucdr_serialize(ub, v)
    BY <2>1
  <2>3. v \in Seq(0..255) /\ Len(v) = n
    BY TupleIsSequence DEF Widths
  <2> QED
    BY <2>2, <2>3, SerializeSound
<1>2. CASE SerializeArray
  <2>1. PICK n \in Widths, k \in 0..MaxArray :
          \E v \in Tuples(n * k) : ub' = ucdr_serialize_array(ub, v, n)
    BY <1>2 DEF SerializeArray
  <2>2. PICK v \in Tuples(n * k) : ub' = ucdr_serialize_array(ub, v, n)
    BY <2>1
  <2>3. n * k \in Nat /\ k \in Nat
    BY DEF Widths
  <2>4. v \in Seq(0..255) /\ Len(v) = n * k
    BY <2>3, TupleIsSequence
  <2> QED
    BY <2>2, <2>3, <2>4, SerializeArraySound
<1>3. CASE SerializeSequence
  <2>1. PICK n \in Widths, k \in 0..MaxArray :
          \E v \in Tuples(n * k) : ub' = ucdr_serialize_sequence(ub, v, n)
    BY <1>3 DEF SerializeSequence
  <2>2. PICK v \in Tuples(n * k) : ub' = ucdr_serialize_sequence(ub, v, n)
    BY <2>1
  <2>3. n * k \in Nat /\ k \in Nat
    BY DEF Widths
  <2>4. v \in Seq(0..255) /\ Len(v) = n * k
    BY <2>3, TupleIsSequence
  <2> QED
    BY <2>2, <2>3, <2>4, SerializeSequenceSound
<1>4. CASE SerializeString
  <2>1. PICK k \in 0..MaxArray : \E s \in Tuples(k) : ub' = ucdr_serialize_string(ub, s)
    BY <1>4 DEF SerializeString
  <2>2. PICK s \in Tuples(k) : ub' = ucdr_serialize_string(ub, s)
    BY <2>1
  <2>3. s \in Seq(0..255) /\ Len(s) = k /\ k \in Nat
    BY TupleIsSequence
  <2>4. s \o <<0>> \in Seq(0..255) /\ Len(s \o <<0>>) = k + 1
    BY <2>3
  <2>5. 1 \in Widths /\ k + 1 \in Nat /\ 1 * (k + 1) = k + 1
    BY <2>3 DEF Widths
  <2> DEFINE w == s \o <<0>>
  <2>6. ub' = ucdr_serialize_sequence(ub, w, 1)
    BY <2>2 DEF ucdr_serialize_string
  <2>7. w \in Seq(0..255) /\ Len(w) = 1 * (k + 1)
    BY <2>4, <2>5
  <2> HIDE DEF w
  <2> QED
    BY <2>5, <2>6, <2>7, SerializeSequenceSound
<1>5. CASE Deserialize
  <2>1. PICK n \in Widths : ub' = ucdr_deserialize(ub, n, <<>>).ub
    BY <1>5 DEF Deserialize
  <2> QED
    BY <2>1, DeserializeSound
<1>6. CASE DeserializeArray
  <2>1. PICK n \in Widths, k \in 0..MaxArray :
          \E v \in Tuples(n * k) : ub' = ucdr_deserialize_array(ub, v, n).ub
    BY <1>6 DEF DeserializeArray
  <2>2. PICK v \in Tuples(n * k) : ub' = ucdr_deserialize_array(ub, v, n).ub
    BY <2>1
  <2>3. n * k \in Nat /\ k \in Nat
    BY DEF Widths
  <2>4. v \in Seq(0..255) /\ Len(v) = n * k
    BY <2>3, TupleIsSequence
  <2> QED
    BY <2>2, <2>3, <2>4, DeserializeArraySound
<1>7. CASE Advance
  <2>1. PICK n \in 0..MaxArray : ub' = ucdr_advance_buffer(ub, n)
    BY <1>7 DEF Advance
  <2>2. n \in Nat
    OBVIOUS
  <2> QED
    BY <2>1, <2>2, AdvanceSound
<1> QED
  BY <1>1, <1>2, <1>3, <1>4, <1>5, <1>6, <1>7 DEF Call

(* A reset keeps the array and begins again at its start. *)
LEMMA ResetSound ==
  ASSUME Sound(ub), Reset
  PROVE  Sound(ub') /\ ub'.final = ub.final /\ ub'.data = ub.data
<1>1. ub \in UcdrBuffer /\ ub.final \in 0..Memory
  BY DEF Sound, UcdrBuffer
<1>2. ub' = [ub EXCEPT !.iterator = 0, !.offset = 0, !.last = 0, !.error = FALSE]
  BY DEF Reset, ucdr_reset_buffer
<1>3. /\ ub'.iterator = 0 /\ ub'.offset = 0 /\ ub'.last = 0 /\ ub'.final = ub.final
      /\ ub'.data = ub.data
  BY <1>1, <1>2 DEF UcdrBuffer
<1>4. ub' \in UcdrBuffer
  <2>1. [ub EXCEPT !.iterator = 0, !.offset = 0, !.last = 0, !.error = FALSE] \in UcdrBuffer
    <3>1. 0 \in 0..Memory /\ 0 \in {0} \cup Widths /\ FALSE \in BOOLEAN
      OBVIOUS
    <3> QED
      BY <1>1, <3>1 DEF UcdrBuffer
  <2> QED
    BY <1>2, <2>1
<1> QED
  BY <1>1, <1>3, <1>4 DEF Sound

LEMMA InitSound == Init => Sound(ub)
<1> SUFFICES ASSUME NEW size \in BufferSizes,
                    ub = ucdr_init_buffer([i \in 0..(Memory - 1) |-> 255], size)
             PROVE  Sound(ub)
  BY DEF Init
<1>1. size \in 0..Memory
  OBVIOUS
<1>2. ub \in UcdrBuffer
  BY <1>1 DEF ucdr_init_buffer, UcdrBuffer
<1> QED
  BY <1>1, <1>2 DEF ucdr_init_buffer, Sound

LEMMA NextSound == Sound(ub) /\ [Next]_ub => Sound(ub)'
<1> SUFFICES ASSUME Sound(ub), [Next]_ub PROVE Sound(ub')
  BY DEF Sound, UcdrBuffer, Widths
<1>1. CASE Call
  BY <1>1, CallSound
<1>2. CASE Reset
  BY <1>2, ResetSound
<1>3. CASE UNCHANGED ub
  BY <1>3
<1> QED
  BY <1>1, <1>2, <1>3 DEF Next

LEMMA AlwaysSound == Spec => []Sound(ub)
BY InitSound, NextSound, PTL DEF Spec

(* For every amount of memory, size of the buffer and length of the arrays, *)
(* the cursor of a ucdrBuffer stays in its array, and the shortcut of       *)
(* ucdr_buffer_alignment() pads exactly as the full computation would.      *)
THEOREM CursorAlwaysSound == Spec => []CursorSound
<1>1. Sound(ub) => CursorSound
  <2> SUFFICES ASSUME Sound(ub) PROVE CursorSound
    OBVIOUS
  <2>1. ub \in UcdrBuffer /\ ub.iterator <= ub.final /\ ub.offset = ub.iterator
    BY DEF Sound
  <2>2. ~ub.error => \A n \in Widths :
          ucdr_buffer_alignment(ub, n) = ucdr_alignment(ub.offset, n)
    BY ShortcutExact
  <2> QED
    BY <2>1, <2>2 DEF CursorSound
<1> QED
  BY <1>1, AlwaysSound, PTL

(* For every instance too, no call on a ucdrBuffer writes behind the end of *)
(* its array, and after a failed call nothing is written or moved before    *)
(* the buffer is reset.                                                     *)
THEOREM CallsAlwaysConfined == Spec => CallsConfined
<1> DEFINE Step ==
      /\ \A i \in ub.final..(Memory - 1) : ub'.data[i] = ub.data[i]
      /\ ub.error /\ Call =>
           ub'.error /\ ub'.data = ub.data /\ ub'.iterator = ub.iterator
<1>1. Sound(ub) /\ [Next]_ub => [Step]_ub
  <2> SUFFICES ASSUME Sound(ub), Next PROVE Step
    OBVIOUS
  <2>1. Call => Confined(ub, ub')
    BY CallSound
  <2>2. CASE Call
    BY <2>1, <2>2 DEF Confined
  <2>3. CASE ~Call
    BY <2>3, ResetSound DEF Next
  <2> QED
    BY <2>2, <2>3
<1> QED
  BY <1>1, AlwaysSound, PTL DEF Spec, CallsConfined
=============================================================================

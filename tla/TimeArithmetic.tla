-------------------------- MODULE TimeArithmetic ---------------------------
(***************************************************************************)
(* ros::Time (unsigned) and ros::Duration (signed) of the device: seconds  *)
(* and nanoseconds in integers of 32 bits, with the carries and borrows    *)
(* done by hand.  The numbers of nanoseconds in a millisecond, of          *)
(* milliseconds in a second and of values of an integer are scaled down    *)
(* together: what matters is that the signed half of the width holds two   *)
(* seconds of nanoseconds but not three, and that a counter of that width  *)
(* does not wrap at a whole second.  The classes are the same text in      *)
(* rosserial_stm32 and in pending/rosserial_client.                        *)
(***************************************************************************)
EXTENDS Integers

CONSTANTS
  NsPerMs, MsPerSec,   \* 1000000 and 1000
  Wrap,                \* 2^32
  MaxSec,              \* bound on the seconds of a Duration
  Scales               \* factors <<p, q>> of Duration::operator*=, p / q

NsPerSec == NsPerMs * MsPerSec
Half == Wrap \div 2

ASSUME ClockAssumption ==
  /\ NsPerMs \in Nat \ {0} /\ MsPerSec \in Nat \ {0} /\ Wrap \in Nat
  /\ Half > 2 * NsPerSec /\ Half < 3 * NsPerSec /\ Wrap % 2 = 0
  /\ Wrap % MsPerSec # 0

ASSUME CalcAssumption == MaxSec \in Nat /\ Scales \subseteq Int \X (Nat \ {0})

Unsigned(n) == n % Wrap
Signed(n) == LET u == n % Wrap IN IF u < Half THEN u ELSE u - Wrap
InSigned(n) == n \in -Half .. Half - 1

VARIABLE calc   \* [t, d, tv, dv, rounded]: a Time, a Duration, what they
                \* should be in nanoseconds, and whether t is from fromSec()

normalizeSecNSec(sec, nsec) ==
  [sec |-> Unsigned(sec + nsec \div NsPerSec), nsec |-> nsec % NsPerSec]

(* Mutant: the carry takes a second too much off the nanoseconds. *)
normalizeSecNSecSigned_once(sec, nsec) ==
  IF nsec > NsPerSec THEN [sec |-> sec + 1, nsec |-> nsec - 2 * NsPerSec]
  ELSE IF nsec < 0 THEN [sec |-> sec - 1, nsec |-> nsec + NsPerSec]
  ELSE [sec |-> sec, nsec |-> nsec]

(* The loops of the source leave a whole second of nanoseconds alone. *)
normalizeSecNSecSigned(sec, nsec) ==
  LET carry == IF nsec > NsPerSec THEN (nsec - 1) \div NsPerSec
               ELSE IF nsec < 0 THEN nsec \div NsPerSec
               ELSE 0
  IN  [sec |-> sec + carry, nsec |-> nsec - carry * NsPerSec]

Time_add(t, d) ==
  normalizeSecNSec(Unsigned(t.sec - 1 + d.sec), Unsigned(t.nsec + NsPerSec + d.nsec))

Time_subtract(t, d) ==
  normalizeSecNSec(Unsigned(t.sec - 1 - d.sec), Unsigned(t.nsec + NsPerSec - d.nsec))

Time_minus(t, u) ==
  normalizeSecNSecSigned(
    IF t.sec > u.sec THEN Signed(t.sec - u.sec) ELSE Signed(-(u.sec - t.sec)),
    IF t.nsec > u.nsec THEN Signed(t.nsec - u.nsec) ELSE Signed(-(u.nsec - t.nsec)))

(* Of a Time given as a signed number of nanoseconds; C++ divides towards 0. *)
Quotient(n, k) == IF n >= 0 THEN n \div k ELSE -((-n) \div k)
Time_fromNSec(n) ==
  normalizeSecNSec(Unsigned(Quotient(n, NsPerSec)),
                   Unsigned(n - NsPerSec * Quotient(n, NsPerSec)))

(* Of a Time and of a Duration, given as a number of seconds that is not    *)
(* negative, here in half nanoseconds.  The nanoseconds are rounded, up to  *)
(* a whole second, and not normalised.                                      *)
Time_fromSec(h) ==
  LET sec == h \div (2 * NsPerSec)
  IN  [sec |-> Unsigned(sec), nsec |-> (h - 2 * NsPerSec * sec + 1) \div 2]
Duration_fromSec(h) ==
  LET sec == h \div (2 * NsPerSec)
  IN  [sec |-> Signed(sec), nsec |-> (h - 2 * NsPerSec * sec + 1) \div 2]

(* All the nanoseconds of a Time, in 32 bits. *)
Time_toNsec(t) == Unsigned(t.sec * NsPerSec + t.nsec)

Duration_add(d, e) == normalizeSecNSecSigned(d.sec + e.sec, d.nsec + e.nsec)

Duration_subtract(d, e) == normalizeSecNSecSigned(d.sec - e.sec, d.nsec - e.nsec)

(* Each of the two members is cut to a whole number on its own. *)
Duration_scale(d, k) ==
  normalizeSecNSecSigned(Quotient(d.sec * k[1], k[2]), Quotient(d.nsec * k[1], k[2]))

TimeNs(t) == t.sec * NsPerSec + t.nsec
DurationNs(d) == d.sec * NsPerSec + d.nsec

(* The Durations a program makes: the constructor normalises. *)
Durations ==
  {normalizeSecNSecSigned(s, n) : s \in -1 .. 1, n \in {-1, 0, 1, NsPerSec \div 2, NsPerSec}}

CalcInit ==
  calc = [t |-> [sec |-> 0, nsec |-> 0], d |-> [sec |-> 0, nsec |-> 0], tv |-> 0, dv |-> 0,
          rounded |-> FALSE]

(* A result whose seconds leave the width of a signed integer is undefined. *)
SetDuration(d, dv) ==
  /\ d.sec \in -MaxSec .. MaxSec
  /\ calc' = [calc EXCEPT !.d = d, !.dv = dv]

AddToTime ==
  calc' = [calc EXCEPT !.t = Time_add(@, calc.d),
                       !.tv = (@ + calc.dv) % (Wrap * NsPerSec), !.rounded = FALSE]
SubtractFromTime ==
  calc' = [calc EXCEPT !.t = Time_subtract(@, calc.d),
                       !.tv = (@ - calc.dv) % (Wrap * NsPerSec), !.rounded = FALSE]
(* The distance from a time up to half the range away. *)
TimeSince ==
  \E back \in Durations :
    SetDuration(Time_minus(calc.t, Time_subtract(calc.t, back)), DurationNs(back))
AddToDuration ==
  \E e \in Durations : SetDuration(Duration_add(calc.d, e), calc.dv + DurationNs(e))
SubtractFromDuration ==
  \E e \in Durations : SetDuration(Duration_subtract(calc.d, e), calc.dv - DurationNs(e))
(* Scaling by a whole number is exact; by a fraction the result is taken as *)
(* it comes.                                                                *)
ScaleDuration ==
  \E k \in Scales :
    /\ InSigned(Quotient(calc.d.nsec * k[1], k[2]))
    /\ LET d == Duration_scale(calc.d, k)
       IN  SetDuration(d, IF k[2] = 1 THEN calc.dv * k[1] ELSE DurationNs(d))
(* fromNSec() is only meant for times that are not negative. *)
SetFromNSec ==
  \E n \in 0 .. Half - 1 :
    calc' = [calc EXCEPT !.t = Time_fromNSec(n), !.tv = n, !.rounded = FALSE]
SetFromSec ==
  \E h \in 0 .. 2 * Half :
    calc' = [calc EXCEPT !.t = Time_fromSec(h), !.tv = (h + 1) \div 2, !.rounded = TRUE]
SetDurationFromSec ==
  \E h \in 0 .. 2 * Half : SetDuration(Duration_fromSec(h), (h + 1) \div 2)
(* A time in nanoseconds and back, within the range of fromNSec(). *)
ThroughNSec ==
  /\ calc.tv < Half
  /\ calc' = [calc EXCEPT !.t = Time_fromNSec(Time_toNsec(@)), !.rounded = FALSE]

CalcNext ==
  \/ AddToTime
  \/ SubtractFromTime
  \/ TimeSince
  \/ AddToDuration
  \/ SubtractFromDuration
  \/ ScaleDuration
  \/ SetFromNSec
  \/ SetFromSec
  \/ SetDurationFromSec
  \/ ThroughNSec

CalcSpec == CalcInit /\ [][CalcNext]_calc

(* After any sequence of the operations, a Time is the exact one modulo the *)
(* range of its seconds, with less than a second of nanoseconds (just after *)
(* fromSec() a whole one); a Duration is the exact one, and no sum of       *)
(* nanoseconds ever leaves the width of an integer, although the loops of   *)
(* normalizeSecNSecSigned() let a whole second of nanoseconds stand.        *)
TimeExact ==
  /\ TimeNs(calc.t) = calc.tv /\ calc.t.nsec \in 0 .. NsPerSec
  /\ calc.t.nsec = NsPerSec => calc.rounded
  /\ DurationNs(calc.d) = calc.dv /\ calc.d.nsec \in 0 .. NsPerSec
  /\ \A e \in Durations :
       InSigned(calc.d.nsec + e.nsec) /\ InSigned(calc.d.nsec - e.nsec)
============================================================================

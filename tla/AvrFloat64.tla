----------------------------- MODULE AvrFloat64 ----------------------------
(***************************************************************************)
(* Msg::serializeAvrFloat64() and Msg::deserializeAvrFloat64(): a device   *)
(* whose double is a float sends and receives float64 fields by taking the *)
(* bits apart.  A number is its sign, biased exponent and mantissa; the    *)
(* widths are scaled down, the order of the branches and every limit       *)
(* (1023, 127, -126, -150, 0xFFFFFF) is expressed by them.  The functions  *)
(* are the same text in rosserial_stm32 and in pending/rosserial_client.   *)
(***************************************************************************)
EXTENDS Integers

CONSTANTS
  FloatExp, FloatMan,    \* bits of a float:  8 and 23
  DoubleExp, DoubleMan   \* bits of a double: 11 and 52

Spare == DoubleMan - FloatMan
FloatMax == 2 ^ FloatExp - 1         \* 255: infinity and NaN
DoubleMax == 2 ^ DoubleExp - 1       \* 2047
FloatBias == 2 ^ (FloatExp - 1) - 1      \* 127
DoubleBias == 2 ^ (DoubleExp - 1) - 1    \* 1023
Hidden == 2 ^ FloatMan               \* 0x800000

ASSUME FloatAssumption ==
  /\ {FloatExp, FloatMan, DoubleExp, DoubleMan} \subseteq Nat \ {0, 1}
  /\ Spare > 1 /\ DoubleBias > FloatBias + FloatMan

Float == [neg : BOOLEAN, exp : 0 .. FloatMax, man : 0 .. Hidden - 1]
Double == [neg : BOOLEAN, exp : 0 .. DoubleMax, man : 0 .. 2 ^ DoubleMan - 1]

IsNaN(x, max) == x.exp = max /\ x.man # 0
IsZero(x) == x.exp = 0 /\ x.man = 0

(* How far to shift a denormalised mantissa until it shows the hidden bit. *)
Shift(man) == CHOOSE k \in 1 .. FloatMan : man * 2 ^ k \in Hidden .. 2 * Hidden - 1

(* f < 0 is false for minus zero and for NaN. *)
serializeAvrFloat64(f) ==
  LET b == DoubleBias - FloatBias
      k == Shift(f.man)
      em == IF f.exp = FloatMax THEN <<DoubleMax, f.man>>
            ELSE IF f.exp # 0 THEN <<f.exp + b, f.man>>
            ELSE IF f.man = 0 THEN <<0, 0>>
            ELSE <<b - (k - 1), f.man * 2 ^ k - Hidden>>
  IN  [neg |-> f.neg /\ ~IsNaN(f, FloatMax) /\ ~IsZero(f),
       exp |-> em[1], man |-> em[2] * 2 ^ Spare]

(* Mutant: the rounding is left out. *)
deserializeAvrFloat64_truncates(d) ==
  LET top == d.man \div 2 ^ (Spare - 1)
      e == d.exp - DoubleBias
      em == IF d.exp = DoubleMax THEN <<FloatMax, top>>
            ELSE IF e > FloatBias THEN <<FloatMax, 0>>
            ELSE IF e >= 1 - FloatBias THEN <<e + FloatBias, top>>
            ELSE IF e < -FloatBias - FloatMan THEN <<0, top>>
            ELSE <<0, (top + 2 * Hidden) \div 2 ^ (1 - FloatBias - e)>>
  IN  [neg |-> d.neg, exp |-> em[1], man |-> em[2] \div 2]

(* One bit more than a float holds is kept for rounding; a number too small  *)
(* for a float keeps its mantissa.                                           *)
deserializeAvrFloat64(d) ==
  LET top == d.man \div 2 ^ (Spare - 1)
      e == d.exp - DoubleBias
      em == IF d.exp = DoubleMax THEN <<FloatMax, top>>
            ELSE IF e > FloatBias THEN <<FloatMax, 0>>
            ELSE IF e >= 1 - FloatBias THEN <<e + FloatBias, top>>
            ELSE IF e < -FloatBias - FloatMan THEN <<0, top>>
            ELSE <<0, (top + 2 * Hidden) \div 2 ^ (1 - FloatBias - e)>>
      rounded == IF em[2] # 2 * Hidden - 1 THEN em[2] + 1 ELSE em[2]
  IN  [neg |-> d.neg, exp |-> em[1], man |-> rounded \div 2]

VARIABLE number   \* [stage, of, is]: what was sent, and what it became
NoNumber == [stage |-> "idle"]

FloatInit == number = NoNumber

Send ==
  /\ number = NoNumber
  /\ \E f \in Float :
       number' = [stage |-> "sent", of |-> f, is |-> serializeAvrFloat64(f)]
(* The other side sends a double of its own, or sends back what it got. *)
Receive ==
  \/ /\ number = NoNumber
     /\ \E d \in Double :
          number' = [stage |-> "received", of |-> d, is |-> deserializeAvrFloat64(d)]
  \/ /\ number.stage = "sent"
     /\ number' = [stage |-> "echoed", of |-> number.of,
                   is |-> deserializeAvrFloat64(number.is)]

FloatNext == Send \/ Receive

(* Values as multiples of the smallest denormalised double. *)
DoubleValue(d) ==
  (IF d.neg THEN -1 ELSE 1) *
  (IF d.exp = 0 THEN d.man ELSE (2 ^ DoubleMan + d.man) * 2 ^ (d.exp - 1))
FloatValue(f) ==
  (IF f.neg THEN -1 ELSE 1) *
  (IF f.exp = 0 THEN f.man * 2 ^ (Spare + DoubleBias - FloatBias)
   ELSE (Hidden + f.man) * 2 ^ (Spare + f.exp + DoubleBias - FloatBias - 1))
(* The distance between neighbours of a float. *)
Ulp(f) ==
  2 ^ (Spare + DoubleBias - FloatBias + (IF f.exp = 0 THEN 0 ELSE f.exp - 1))
SmallestNormal == Hidden * 2 ^ (Spare + DoubleBias - FloatBias)
Magnitude(n) == IF n < 0 THEN -n ELSE n

(* The nearest float, or the one next to it where the mantissa of all ones  *)
(* keeps it from carrying.                                                  *)
NearestTo(d, f) ==
  LET off == Magnitude(DoubleValue(d) - FloatValue(f))
  IN  (IF f.man = Hidden - 1 THEN off ELSE 2 * off) <= Ulp(f)

(* What becomes of a number below half of the smallest float: not zero, as  *)
(* the comment in the code has it and a conversion of the compiler would,   *)
(* but a denormalised float with the number's own mantissa, rounded.        *)
KeepsMantissa(d, f) ==
  LET off == Magnitude(d.man - f.man * 2 ^ Spare)
  IN  /\ f.exp = 0 /\ f.neg = d.neg
      /\ (IF f.man = Hidden - 1 THEN off ELSE 2 * off) <= 2 ^ Spare

(* A float sent is the same number as a double, and comes back unchanged    *)
(* but for the sign of zero and NaN.  A double received becomes the nearest *)
(* float, half a step off at most (a whole step where only the mantissa of  *)
(* all ones keeps it from carrying), infinity when too large.  One too      *)
(* small for a float, zero among them, keeps its mantissa, so of these only *)
(* zero and numbers next to a power of two become zero; the others are      *)
(* wrong by up to the smallest normalised float.                            *)
FloatsKeepValue ==
  /\ number.stage = "sent" /\ number.of.exp # FloatMax =>
       DoubleValue(number.is) = FloatValue(number.of)
  /\ number.stage = "echoed" =>
       number.is = [number.of EXCEPT
         !.neg = @ /\ ~IsNaN(number.of, FloatMax) /\ ~IsZero(number.of)]
  /\ number.stage = "received" /\ number.of.exp # DoubleMax =>
       LET d == number.of
           f == number.is
           e == d.exp - DoubleBias
       IN  IF e > FloatBias THEN f.exp = FloatMax /\ f.man = 0 /\ f.neg = d.neg
           ELSE IF e < -FloatBias - FloatMan THEN KeepsMantissa(d, f)
           ELSE NearestTo(d, f)
============================================================================

-------------------------------- MODULE MicroCdr --------------------------------
(***************************************************************************)
(* The serialisation buffer of the device library, ros_lib/ucdr.  A        *)
(* ucdrBuffer is a cursor over an array it does not own: init, final and   *)
(* iterator are pointers into the memory of the program, so what lies      *)
(* after final is somebody else's.  Positions are counted from init.       *)
(*                                                                         *)
(* Values are the bytes the machine stores for them; every buffer of the   *)
(* device is initialised with UCDR_MACHINE_ENDIANNESS, so the branches     *)
(* that swap bytes are dead.  No caller installs an on_full_buffer         *)
(* callback: a buffer that runs full always ends in an error.              *)
(*                                                                         *)
(* The operators are the functions of the library; the specification at    *)
(* the end makes arbitrary calls of them on one buffer.                    *)
(***************************************************************************)
EXTENDS Integers, Sequences

CONSTANTS
    Memory,     \* number of bytes of memory from ub->init on
    BufferSizes,\* the sizes a buffer is initialised with
    CdrByte,    \* the values a byte can have
    MaxArray    \* bound on the elements of an array in one call

ASSUME MemoryAssumption == Memory \in Nat
ASSUME BufferSizesAssumption == BufferSizes \subseteq 0..Memory
ASSUME ByteAssumption == CdrByte # {} /\ CdrByte \subseteq 0..255
ASSUME MaxArrayAssumption == MaxArray \in Nat

VARIABLE ub

Widths == {1, 2, 4, 8}

UcdrBuffer ==
    [data : [0..(Memory - 1) -> 0..255], final : 0..Memory, iterator : 0..Memory,
     offset : 0..Memory, last : {0} \cup Widths, error : BOOLEAN]

ucdr_init_buffer(data, size) ==
    [data |-> data, final |-> size, iterator |-> 0, offset |-> 0, last |-> 0, error |-> FALSE]

ucdr_reset_buffer(b) ==
    [b EXCEPT !.iterator = 0, !.offset = 0, !.last = 0, !.error = FALSE]

ucdr_buffer_remaining(b) == b.final - b.iterator

\* Mutant: the comparison is one byte too generous.
ucdr_check_buffer_available_for_late(b, n) == ~b.error /\ b.iterator + n <= b.final + 1

ucdr_check_buffer_available_for(b, n) == ~b.error /\ b.iterator + n <= b.final

\* Mutant: the end is noticed one byte late.
ucdr_check_final_buffer_behavior_late(b) ==
    IF ~b.error /\ b.iterator > b.final THEN [b EXCEPT !.error = TRUE] ELSE b

\* ucdr_check_final_buffer_behavior() with on_full_buffer = NULL.
ucdr_check_final_buffer_behavior(b) ==
    IF ~b.error /\ b.iterator >= b.final THEN [b EXCEPT !.error = TRUE] ELSE b

\* The bytes a transfer of n bytes gets done before it meets the end: the loops
\* over ucdr_check_final_buffer_behavior_array() take what remains, and the
\* next round reports the error.
Transferred(b, n) ==
    IF b.error THEN 0
    ELSE IF n <= ucdr_buffer_remaining(b) THEN n ELSE ucdr_buffer_remaining(b)

\* The cursor after a transfer of n bytes.
Transfer(b, n) ==
    [b EXCEPT !.iterator = @ + Transferred(b, n),
              !.offset = @ + Transferred(b, n),
              !.error = @ \/ Transferred(b, n) < n]

ucdr_alignment(position, n) == (n - (position % n)) % n

\* Data no wider than the last one is taken to be aligned already.
ucdr_buffer_alignment(b, n) == IF n > b.last THEN ucdr_alignment(b.offset, n) ELSE 0

ucdr_advance_buffer(b, n) == [Transfer(b, n) EXCEPT !.last = 1]

\* memcpy of v to the position at.
StoreAt(b, at, v) ==
    [b EXCEPT !.data = [i \in 0..(Memory - 1) |->
        IF at <= i /\ i < at + Len(v) THEN v[i - at + 1] ELSE b.data[i]]]

LoadAt(b, at, n) == [i \in 1..n |-> b.data[at + i - 1]]

----------------------------------------------------------------------------
(* Primitives *)

Aligned(b, n) == ucdr_advance_buffer(b, ucdr_buffer_alignment(b, n))

\* What the macros for 2, 4 and 8 bytes do to the cursor a, already aligned, of a
\* buffer whose last_data_size was last before: where the value would straddle
\* the end, the first slot is taken, the error raised and the slot given back.
ClaimN(a, last, n) ==
    IF ucdr_check_buffer_available_for(a, n)
    THEN [a EXCEPT !.iterator = @ + n, !.offset = @ + n, !.last = n]
    ELSE IF a.final > a.iterator THEN [a EXCEPT !.error = TRUE, !.last = last]
    ELSE ucdr_check_final_buffer_behavior(a)

SERIALIZE_BYTE_1(b, v) ==
    LET c == ucdr_check_final_buffer_behavior(b) IN
    IF c.error THEN c
    ELSE [StoreAt(c, c.iterator, v) EXCEPT !.iterator = @ + 1, !.offset = @ + 1, !.last = 1]

SERIALIZE_BYTE_N(b, v) ==
    LET n == Len(v)
        a == Aligned(b, n)
        c == ClaimN(a, b.last, n)
    IN IF ucdr_check_buffer_available_for(a, n) THEN StoreAt(c, a.iterator, v) ELSE c

ucdr_serialize(b, v) == IF Len(v) = 1 THEN SERIALIZE_BYTE_1(b, v) ELSE SERIALIZE_BYTE_N(b, v)

\* Deserialisers return the buffer and the value; a failed one leaves *value as
\* it was.
DESERIALIZE_BYTE_1(b, was) ==
    LET c == ucdr_check_final_buffer_behavior(b) IN
    IF c.error THEN [ub |-> c, v |-> was]
    ELSE [ub |-> [c EXCEPT !.iterator = @ + 1, !.offset = @ + 1, !.last = 1],
          v |-> LoadAt(c, c.iterator, 1)]

DESERIALIZE_BYTE_N(b, n, was) ==
    LET a == Aligned(b, n) IN
    [ub |-> ClaimN(a, b.last, n),
     v  |-> IF ucdr_check_buffer_available_for(a, n) THEN LoadAt(a, a.iterator, n) ELSE was]

ucdr_deserialize(b, n, was) ==
    IF n = 1 THEN DESERIALIZE_BYTE_1(b, was) ELSE DESERIALIZE_BYTE_N(b, n, was)

----------------------------------------------------------------------------
(* Arrays (n is the width of an element, bytes the elements one after the  *)
(* other), sequences and strings                                           *)

ucdr_array_to_buffer(b, bytes, n) ==
    LET k == Transferred(b, Len(bytes)) IN
    StoreAt([Transfer(b, Len(bytes)) EXCEPT !.last = n], b.iterator, SubSeq(bytes, 1, k))

ucdr_buffer_to_array(b, bytes, n) ==
    LET k == Transferred(b, Len(bytes)) IN
    [ub |-> [Transfer(b, Len(bytes)) EXCEPT !.last = n],
     v  |-> LoadAt(b, b.iterator, k) \o SubSeq(bytes, k + 1, Len(bytes))]

ucdr_serialize_array(b, bytes, n) ==
    ucdr_array_to_buffer([Aligned(b, n) EXCEPT !.last = b.last], bytes, n)

ucdr_deserialize_array(b, bytes, n) ==
    ucdr_buffer_to_array([Aligned(b, n) EXCEPT !.last = b.last], bytes, n)

U32(k) == <<k % 256, (k \div 256) % 256, (k \div 65536) % 256, (k \div 16777216) % 256>>

ucdr_serialize_sequence(b, bytes, n) ==
    LET c == SERIALIZE_BYTE_N(b, U32(Len(bytes) \div n)) IN
    IF bytes = <<>> THEN c ELSE ucdr_serialize_array(c, bytes, n)

\* Mutant: the terminator is not sent.
ucdr_serialize_string_bare(b, s) == ucdr_serialize_sequence(b, s, 1)

\* A C string is its bytes; strlen(string) + 1 counts the terminator.
ucdr_serialize_string(b, s) == ucdr_serialize_sequence(b, s \o <<0>>, 1)

----------------------------------------------------------------------------
(* Arbitrary calls on one buffer *)

Tuples(n) == [1..n -> CdrByte]

Init ==
    \E size \in BufferSizes : ub = ucdr_init_buffer([i \in 0..(Memory - 1) |-> 255], size)

Serialize ==
    \E n \in Widths : \E v \in Tuples(n) : ub' = ucdr_serialize(ub, v)

SerializeArray ==
    \E n \in Widths, k \in 0..MaxArray : \E v \in Tuples(n * k) :
        ub' = ucdr_serialize_array(ub, v, n)

SerializeSequence ==
    \E n \in Widths, k \in 0..MaxArray : \E v \in Tuples(n * k) :
        ub' = ucdr_serialize_sequence(ub, v, n)

SerializeString ==
    \E k \in 0..MaxArray : \E s \in Tuples(k) : ub' = ucdr_serialize_string(ub, s)

Deserialize ==
    \E n \in Widths : ub' = ucdr_deserialize(ub, n, <<>>).ub

DeserializeArray ==
    \E n \in Widths, k \in 0..MaxArray : \E v \in Tuples(n * k) :
        ub' = ucdr_deserialize_array(ub, v, n).ub

Advance == \E n \in 0..MaxArray : ub' = ucdr_advance_buffer(ub, n)

Reset == ub' = ucdr_reset_buffer(ub)

Call ==
    \/ Serialize
    \/ SerializeArray
    \/ SerializeSequence
    \/ SerializeString
    \/ Deserialize
    \/ DeserializeArray
    \/ Advance

Next == Call \/ Reset

Spec == Init /\ [][Next]_ub

----------------------------------------------------------------------------
(* Properties *)

(* The cursor stays in the array and counts what it passed, and the         *)
(* shortcut of ucdr_buffer_alignment(), which skips the computation when    *)
(* the last datum was at least as wide, never skips padding that is due:    *)
(* whatever mix of values, arrays (empty ones too), sequences, strings and  *)
(* failed calls came before.                                                *)
CursorSound ==
    /\ ub \in UcdrBuffer /\ ub.iterator <= ub.final /\ ub.offset = ub.iterator
    /\ ~ub.error => \A n \in Widths :
         ucdr_buffer_alignment(ub, n) = ucdr_alignment(ub.offset, n)

(* What is behind the end of the array is never written: no call, of any    *)
(* width, at any position, stores a byte there.  Once a call failed no      *)
(* later call writes, moves the cursor or takes the error back, until the   *)
(* buffer is reset: what was written is a prefix of what was asked for.     *)
CallsConfined ==
    [][/\ \A i \in ub.final..(Memory - 1) : ub'.data[i] = ub.data[i]
       /\ ub.error /\ Call =>
            ub'.error /\ ub'.data = ub.data /\ ub'.iterator = ub.iterator]_ub
=============================================================================

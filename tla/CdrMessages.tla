------------------------------ MODULE CdrMessages ------------------------------
(***************************************************************************)
(* Messages as the device encodes and decodes them: the code that          *)
(* make_libraries.py generates for a message definition (cdr_serialize,    *)
(* cdr_deserialize and the data members), ros/cdr.h for the encapsulation  *)
(* header, NodeHandle::publish() and Subscriber::callback() around them.   *)
(*                                                                         *)
(* A type is a record [k |-> "prim", n |-> width], [k |-> "string"],       *)
(* [k |-> "array", n |-> size, of |-> type] (fixed size),                  *)
(* [k |-> "seq", of |-> type] (variable size) or [k |-> "msg", f |->       *)
(* types of the members].  A value is a tuple: the bytes of a primitive or *)
(* of a string, the elements of an array, the members of a message.        *)
(*                                                                         *)
(* ROS aligns the members of a message counting from the end of the header *)
(* (RosEncoding, external).  The device counts from its beginning.         *)
(*                                                                         *)
(* Arrays of variable size inside the elements of such arrays are left     *)
(* out: the elements then share storage through st_, see RosLibMessages.   *)
(***************************************************************************)
EXTENDS MicroCdr, SequencesExt

CONSTANTS
    Cases,        \* devices by name: [schema : a type, values : values of it,
                  \* output, input : bytes of message_out and of message_in]
    MaxMessages,  \* bound on the messages of a behaviour
    Garbage,      \* what an uninitialised uint32_t may hold (below 2^31)
    HeapSizes     \* the largest block, in bytes, that realloc() may give

ASSUME GarbageAssumption == Garbage \subseteq Nat /\ HeapSizes \subseteq Nat
ASSUME SizesAssumption ==
    \A c \in DOMAIN Cases : Cases[c].output - 7 \in 0..Memory /\ Cases[c].input \in 0..Memory

VARIABLES
    case,       \* the name of the device under test; "none" while arbitrary
                \* calls are made on ub
    ub_in,      \* input_cdr_ over message_in (ub is output_cdr_)
    obj,        \* the message object of the subscriber
    wanted,     \* the value last published or last sent to the device
    payload,    \* the payload made by the last publish()
    dropped,    \* the last publish() did not send it
    step,       \* "start", "published" or "received"
    faults,     \* history: what went wrong with the arrays on the heap, see
                \* SeqDeserialize
    messages    \* number of messages so far

cdrVars == <<ub, case, ub_in, obj, wanted, payload, dropped, step, faults, messages>>

Schema == Cases[case].schema
OUTPUT_SIZE == Cases[case].output
INPUT_SIZE == Cases[case].input

----------------------------------------------------------------------------
(* The generated serialisers *)

serialize_encapsulation(b) ==
    ucdr_serialize_array(ucdr_serialize(ucdr_serialize(b, <<0>>), <<1>>), <<0, 0>>, 1)

RECURSIVE Serialize_(_, _, _)

PrimitiveSerialize(b, v) == ucdr_serialize(b, v)

StringSerialize(b, v) == ucdr_serialize_string(b, v)

ArraySerialize(b, ty, v) ==
    LET start == IF ty.k = "seq" THEN ucdr_serialize(b, U32(Len(v))) ELSE b IN
    FoldLeft(LAMBDA c, e : Serialize_(c, ty.of, e), start, v)

cdr_serialize(b, ty, v) ==
    FoldLeft(LAMBDA c, i : Serialize_(c, ty.f[i], v[i]), b, [i \in 1..Len(v) |-> i])

Serialize_(b, ty, v) ==
    CASE ty.k = "prim" -> PrimitiveSerialize(b, v)
      [] ty.k = "string" -> StringSerialize(b, v)
      [] ty.k \in {"array", "seq"} -> ArraySerialize(b, ty, v)
      [] ty.k = "msg" -> cdr_serialize(b, ty, v)

----------------------------------------------------------------------------
(* The generated data members.  A string member is a pointer: to the ""   *)
(* of the constructor (-1) or into message_in.  An array of variable size *)
(* is a length, the allocated elements (capacity Len(mem)) and the         *)
(* instance st_ that every element is read into before it is copied.       *)

RECURSIVE Constructed(_)

Constructed(ty) ==
    CASE ty.k = "prim" -> [i \in 1..ty.n |-> 0]
      [] ty.k = "string" -> -1
      [] ty.k = "array" -> [i \in 1..ty.n |-> Constructed(ty.of)]
      [] ty.k = "seq" -> [length |-> 0, mem |-> <<>>, st |-> Constructed(ty.of)]
      [] ty.k = "msg" -> [i \in 1..Len(ty.f) |-> Constructed(ty.f[i])]

\* Deserialisers return the buffer, the object, whether they returned true, and
\* the faults on the heap; g has what an uninitialised variable holds (unread)
\* and the largest block that realloc() gives (heap).
Result(b, o, ok) == [ub |-> b, obj |-> o, ok |-> ok, faults |-> {}]

RECURSIVE Deserialize_(_, _, _, _)

PrimitiveDeserialize(b, ty, o) ==
    LET r == ucdr_deserialize(b, ty.n, o) IN Result(r.ub, r.v, TRUE)

Number(v) == v[1] + 256 * (v[2] + 256 * (v[3] + 256 * v[4]))

\* Mutant: the cursor is not moved past the string.
StringDeserialize_stays(b, o) ==
    LET r == ucdr_deserialize(b, 4, U32(0)) IN
    IF r.ub.error THEN Result(r.ub, o, FALSE) ELSE Result(r.ub, r.ub.iterator, TRUE)

\* The check of the terminator reads before it is known that the string is in
\* the buffer; an empty one (length 0) makes it read the byte in front.
StringDeserialize(b, o) ==
    LET r == ucdr_deserialize(b, 4, U32(0))
        n == Number(r.v)
        end == r.ub.iterator + n - 1
    IN IF r.ub.error THEN Result(r.ub, o, FALSE)
       ELSE IF end < Memory /\ r.ub.data[end] # 0 THEN Result(r.ub, r.ub.iterator, FALSE)
       ELSE Result(ucdr_advance_buffer(r.ub, n), r.ub.iterator, TRUE)

\* sizeof on the device: pointers and the vtables of messages have 4 bytes, and
\* members are padded to 4.
SizeOf(ty) ==
    CASE ty.k = "prim" -> ty.n
      [] ty.k = "msg" -> 4 + 4 * Len(ty.f)
      [] OTHER -> 4

\* The elements that lengthT * sizeof(T) bytes hold, a product of 32 bits.  Below
\* 2^31 elements of 1 or 2 bytes never overflow it.
Elements(lengthT, ty) ==
    IF SizeOf(ty) < 4 THEN lengthT ELSE lengthT % (2^30 \div (SizeOf(ty) \div 4))

\* What realloc() returns for lengthT elements: NULL, nothing, if the heap has
\* no such block.
Realloc(o, lengthT, ty, g) ==
    IF Elements(lengthT, ty) > g.heap \div SizeOf(ty) THEN <<>>
    ELSE [i \in 1..Elements(lengthT, ty) |-> o.st]

ReallocFaults(lengthT, ty, g) ==
    {f \in {"overflowed"} : Elements(lengthT, ty) < lengthT} \cup
    {f \in {"exhausted"} : Elements(lengthT, ty) > g.heap \div SizeOf(ty)}

\* The loop over lengthT elements, each read into st_ and copied to the array.  A
\* copy past the block it was given is an "overrun".
SeqElements(b, ty, o, lengthT, g) ==
    LET Element(a, i) ==
            LET e == Deserialize_(a.ub, ty.of, a.obj.st, g)
                copied == e.ok \/ ty.of.k = "msg"
                inside == i <= Len(a.obj.mem)
            IN IF ~a.ok \/ "overrun" \in a.faults THEN a
               ELSE [ub |-> e.ub, ok |-> copied,
                     obj |-> [a.obj EXCEPT !.st = e.obj,
                        !.mem = IF copied /\ inside THEN [@ EXCEPT ![i] = e.obj] ELSE @],
                     faults |-> a.faults \cup e.faults \cup
                        {f \in {"overrun"} : copied /\ ~inside}]
    IN FoldLeft(Element, Result(b, [o EXCEPT !.length = lengthT], TRUE),
                [i \in 1..(IF lengthT > Len(o.mem) THEN Len(o.mem) + 1 ELSE lengthT) |-> i])

\* Mutant: an array that shrank and grows again is taken to be large enough.
SeqDeserialize_keepsMem(b, ty, o, g) ==
    LET r == ucdr_deserialize(b, 4, U32(g.unread))
        lengthT == Number(r.v)
        grows == lengthT > o.length /\ o.mem = <<>>
        a == IF grows THEN [o EXCEPT !.mem = Realloc(o, lengthT, ty.of, g)] ELSE o
        e == SeqElements(r.ub, ty, a, lengthT, g)
    IN [e EXCEPT !.faults = @ \cup IF grows THEN ReallocFaults(lengthT, ty.of, g) ELSE {}]

\* realloc() to lengthT elements if that is more than the current length; neither
\* the length nor the result is looked at.
SeqDeserialize(b, ty, o, g) ==
    LET r == ucdr_deserialize(b, 4, U32(g.unread))
        lengthT == Number(r.v)
        grows == lengthT > o.length
        a == IF grows THEN [o EXCEPT !.mem = Realloc(o, lengthT, ty.of, g)] ELSE o
        e == SeqElements(r.ub, ty, a, lengthT, g)
    IN [e EXCEPT !.faults = @ \cup IF grows THEN ReallocFaults(lengthT, ty.of, g) ELSE {}]

\* The results of the steps of a deserialiser, put together.
Then(a, e, o, ok) == [ub |-> e.ub, obj |-> o, ok |-> ok, faults |-> a.faults \cup e.faults]

FixedDeserialize(b, ty, o, g) ==
    FoldLeft(LAMBDA a, i :
                LET e == Deserialize_(a.ub, ty.of, a.obj[i], g) IN
                Then(a, e, [a.obj EXCEPT ![i] = e.obj], TRUE),
             Result(b, o, TRUE), [i \in 1..ty.n |-> i])

ArrayDeserialize(b, ty, o, g) ==
    IF ty.k = "seq" THEN SeqDeserialize(b, ty, o, g) ELSE FixedDeserialize(b, ty, o, g)

\* A member that returns false ends the function, unless the member is itself a
\* message: its result is ignored.
cdr_deserialize(b, ty, o, g) ==
    FoldLeft(LAMBDA a, i :
                LET e == Deserialize_(a.ub, ty.f[i], a.obj[i], g) IN
                IF ~a.ok \/ "overrun" \in a.faults THEN a
                ELSE Then(a, e, [a.obj EXCEPT ![i] = e.obj], e.ok \/ ty.f[i].k = "msg"),
             Result(b, o, TRUE), [i \in 1..Len(ty.f) |-> i])

Deserialize_(b, ty, o, g) ==
    CASE ty.k = "prim" -> PrimitiveDeserialize(b, ty, o)
      [] ty.k = "string" -> StringDeserialize(b, o)
      [] ty.k \in {"array", "seq"} -> ArrayDeserialize(b, ty, o, g)
      [] ty.k = "msg" -> cdr_deserialize(b, ty, o, g)

\* An invalid first byte leaves the buffer there; the callers ignore the result.
deserialize_encapsulation(b) ==
    LET d == ucdr_deserialize(b, 1, <<0>>) IN
    IF d.v # <<0>> THEN d.ub
    ELSE ucdr_deserialize_array(ucdr_deserialize(d.ub, 1, <<0>>).ub, <<0, 0>>, 1).ub

----------------------------------------------------------------------------
(* Reference encodings: every datum padded to a multiple of its width,     *)
(* counted from position 0 of the message, which starts with header bytes  *)
(* in front.                                                               *)

RECURSIVE Encoded(_, _, _, _)

Padded(acc, header, n) ==
    acc \o [i \in 1..ucdr_alignment(header + Len(acc), n) |-> 255]

Encoded(acc, header, ty, v) ==
    CASE ty.k = "prim" -> Padded(acc, header, ty.n) \o v
      [] ty.k = "string" -> Padded(acc, header, 4) \o U32(Len(v) + 1) \o v \o <<0>>
      [] ty.k \in {"array", "seq"} ->
            FoldLeft(LAMBDA a, e : Encoded(a, header, ty.of, e),
                     IF ty.k = "seq" THEN Padded(acc, header, 4) \o U32(Len(v)) ELSE acc, v)
      [] ty.k = "msg" ->
            FoldLeft(LAMBDA a, i : Encoded(a, header, ty.f[i], v[i]), acc,
                     [i \in 1..Len(v) |-> i])

DeviceEncoding(ty, v) == <<0, 1, 0, 0>> \o Encoded(<<>>, 4, ty, v)

RosEncoding(ty, v) == <<0, 1, 0, 0>> \o Encoded(<<>>, 0, ty, v)

\* The bytes w are the encoding full; padding is what message_out held before and
\* is not compared.
Matches(w, full) == Len(w) = Len(full) /\ \A i \in DOMAIN w : full[i] # 255 => w[i] = full[i]

RECURSIVE HoldsWide(_, _)

\* v has a primitive of 8 bytes somewhere.
HoldsWide(ty, v) ==
    CASE ty.k = "prim" -> ty.n = 8
      [] ty.k = "string" -> FALSE
      [] ty.k \in {"array", "seq"} -> \E i \in DOMAIN v : HoldsWide(ty.of, v[i])
      [] ty.k = "msg" -> \E i \in DOMAIN v : HoldsWide(ty.f[i], v[i])

RECURSIVE Seen(_, _, _)

\* What a callback finds in the object.
Seen(ty, o, data) ==
    CASE ty.k = "prim" -> o
      [] ty.k = "string" ->
            IF o = -1 THEN <<>>
            ELSE LET end == CHOOSE e \in o..(Memory - 1) :
                                data[e] = 0 /\ \A i \in o..(e - 1) : data[i] # 0
                 IN [i \in 1..(end - o) |-> data[o + i - 1]]
      [] ty.k = "array" -> [i \in 1..ty.n |-> Seen(ty.of, o[i], data)]
      [] ty.k = "seq" -> [i \in 1..o.length |-> Seen(ty.of, o.mem[i], data)]
      [] ty.k = "msg" -> [i \in 1..Len(ty.f) |-> Seen(ty.f[i], o[i], data)]

----------------------------------------------------------------------------
(* The device *)

CdrInit ==
    /\ step = "start" /\ messages = 0 /\ faults = {}
    /\ wanted = <<>> /\ payload = <<>> /\ dropped = FALSE
    /\ \/ case = "none" /\ Init /\ ub_in = ub /\ obj = <<>>
       \/ /\ case \in DOMAIN Cases
          /\ ub_in = ucdr_init_buffer([i \in 0..(Memory - 1) |-> 0], INPUT_SIZE)
          /\ ub = ucdr_init_buffer([i \in 0..(Memory - 1) |-> 255], OUTPUT_SIZE - 7)
          /\ obj = Constructed(Schema)

\* publish() up to the length: the results of the serialisers are ignored.
Prepared(b, ty, v) == cdr_serialize(serialize_encapsulation(ucdr_reset_buffer(b)), ty, v)

\* logerror(): a Log message (level and text), which is published from the same
\* buffer.
LogSchema == [k |-> "msg", f |-> <<[k |-> "prim", n |-> 1], [k |-> "string"]>>]

logerror(b, text) == Prepared(b, LogSchema, <<<<4>>, text>>)

\* What a device does that wrote past an array is undefined and not followed.
Runs == case # "none" /\ messages < MaxMessages /\ "overrun" \notin faults

\* publish() of the message v: a message is dropped, and the error logged, only if
\* the cursor ended at the end of the array.
publish ==
    /\ Runs
    /\ \E v \in Cases[case].values :
        LET b == Prepared(ub, Schema, v)
            fits == b.iterator + 7 < OUTPUT_SIZE
        IN /\ ub' = IF fits THEN b ELSE logerror(b, <<33>>)
           /\ payload' = LoadAt(b, 0, b.iterator)
           /\ dropped' = ~fits
           /\ wanted' = v
    /\ step' = "published" /\ messages' = messages + 1
    /\ UNCHANGED <<case, ub_in, obj, faults>>

\* spinOnce() delivers the message that ROS encoded from v, if it fits: the bytes
\* replace the beginning of message_in, behind them is what earlier messages
\* left.  The padding has bytes that nobody may look at.  The subscriber's callback
\* decodes it into its only message object.
callback ==
    /\ Runs
    /\ \E v \in Cases[case].values, g \in [unread : Garbage, heap : HeapSizes] :
        LET e == RosEncoding(Schema, v)
            w == [i \in DOMAIN e |-> IF e[i] = 255 THEN 7 ELSE e[i]]
            b == deserialize_encapsulation(ucdr_reset_buffer(StoreAt(ub_in, 0, w)))
            r == cdr_deserialize(b, Schema, obj, g)
        IN /\ Len(w) <= INPUT_SIZE
           /\ ub_in' = r.ub /\ obj' = r.obj /\ faults' = faults \cup r.faults
           /\ wanted' = v
    /\ step' = "received" /\ messages' = messages + 1
    /\ UNCHANGED <<case, ub, payload, dropped>>

AnyCall == case = "none" /\ Next /\ UNCHANGED <<case, ub_in, obj, wanted, payload, dropped, step, faults, messages>>

CdrNext == publish \/ callback \/ AnyCall

CdrSpec == CdrInit /\ [][CdrNext]_cdrVars

----------------------------------------------------------------------------
(* Properties *)

\* A message that was encoded without an error is on the line as the reference
\* encoding says, and one that was cut is a beginning of it.  A receiver that
\* counts alignment as ROS does, from behind the header, finds every member
\* where it looks for it exactly if the message has no member of 8 bytes: one
\* that has (HoldsWide) is encoded, but ROS reads it wrongly (cdr.h:110).
SentIsEncoding ==
    step = "published" /\ ~dropped =>
        LET full == DeviceEncoding(Schema, wanted) IN
        /\ Len(payload) <= Len(full)
        /\ Matches(payload, SubSeq(full, 1, Len(payload)))
        /\ ~ub.error =>
             /\ Len(payload) = Len(full)
             /\ HoldsWide(Schema, wanted) <=> ~Matches(payload, RosEncoding(Schema, wanted))

\* A subscriber sees the message that was sent to it, whatever the messages before
\* it were: no element, length or string is left over from one of them.  This is
\* for messages without a member of 8 bytes, as long as the heap has room.
CallbackSeesMessage ==
    step = "received" /\ ~HoldsWide(Schema, wanted) /\ "overrun" \notin faults =>
        /\ Seen(Schema, obj, ub_in.data) = wanted
        /\ ~ub_in.error

\* The elements of an array of variable size are copied into the block that
\* realloc() gave for them, although only a growing length reallocates.  There are
\* two exceptions, which nothing in the code looks at: realloc() returned NULL,
\* and the size of the block overflowed; the second takes a message with a member
\* of 8 bytes, which makes the device read the length at a wrong place or not at
\* all.
NoHeapOverrun ==
    /\ "overrun" \in faults => "exhausted" \in faults \/ "overflowed" \in faults
    /\ "overflowed" \in faults => \E v \in Cases[case].values : HoldsWide(Schema, v)

\* What cdr.h says of the header that serialize_encapsulation() writes: "Specifies
\* that the content is PLAIN_CDR", in which members are aligned relative to the
\* end of that header.
ContentIsPlainCdr ==
    step = "published" /\ ~ub.error /\ ~dropped
        => Matches(payload, RosEncoding(Schema, wanted))
=============================================================================

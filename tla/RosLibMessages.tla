--------------------------- MODULE RosLibMessages ---------------------------
(***************************************************************************)
(* The device's end of the messages of ROS 1: the serialize() and          *)
(* deserialize() that make_library.py of rosserial_client generates.  At   *)
(* the other end rosserial_python uses the serialisers of genpy, which are *)
(* not in the repository; the ones of Ros1Serialization, whose format is   *)
(* the same, stand for them.  A subscriber has one message object for all  *)
(* the messages it gets.  Its strings are pointers into the receive        *)
(* buffer, its arrays of variable size are on the heap, and each has an    *)
(* instance st_ that every element is read into before it is copied,       *)
(* pointers included.  Messages come whole and of the type they should be  *)
(* (checksum and MD5 sum), so their lengths are those of the host's        *)
(* arrays; whether realloc() has room for them the code does not look.     *)
(***************************************************************************)
EXTENDS Ros1Serialization

CONSTANTS
  DeviceSamples,   \* pairs <<type, value>>; the strings are C strings
  MaxReceived,     \* bound: messages that one object receives
  MaxGrowths       \* bound: how often realloc() has room in one message

VARIABLE object    \* of a subscriber, or NoObject
NoObject == [received |-> 0]

\* What a constructor makes: 0 points to the "" of a string, and is the null
\* pointer of an array.
RECURSIVE Constructed(_)
ConstructedEach(ts) == FoldLeft(LAMBDA o, t : Append(o, Constructed(t)), << >>, ts)
Constructed(t) ==
  CASE t.kind = "simple" -> [i \in 1 .. t.width |-> 0]
    [] t.kind = "bool" -> FALSE
    [] t.kind = "string" -> 0
    [] t.kind = "time" -> <<0, 0>>
    [] t.kind = "array" -> ConstructedEach([i \in 1 .. t.size |-> t.of])
    [] t.kind = "vector" -> [length |-> 0, at |-> 0, st |-> Constructed(t.of)]
    [] t.kind = "struct" -> ConstructedEach(t.fields)

---------------------------------------------------------------------------
(* serialize(): the bytes it puts into outbuffer. *)

RECURSIVE serialize(_, _)

serialize_string(v) == Word(Len(v)) \o v

\* The elements one by one, in front of them their number if it varies.
serialize_array(t, v) ==
  FoldLeft(LAMBDA out, e : out \o serialize(t.of, e),
           IF t.kind = "vector" THEN Word(Len(v)) ELSE << >>, v)

serialize_message(t, v) ==
  FoldLeftDomain(LAMBDA out, i : out \o serialize(t.fields[i], v[i]), << >>, v)

serialize(t, v) ==
  CASE t.kind \in {"simple", "bool"} -> Bytes(t, v)
    [] t.kind = "time" -> Word(v[1]) \o Word(v[2])
    [] t.kind = "string" -> serialize_string(v)
    [] t.kind \in {"vector", "array"} -> serialize_array(t, v)
    [] t.kind = "struct" -> serialize_message(t, v)

---------------------------------------------------------------------------
(* deserialize() works on the device d: inbuffer, offset, the heap (blocks *)
(* by address), whether realloc() moves a block that it makes larger, how  *)
(* often it still has room, and whether it has returned the null pointer.  *)

Done(d, o) == [d |-> d, o |-> o]
At(d, n) == SubSeq(d.inbuffer, d.offset + 1, d.offset + n)
Skip(d, n) == [d EXCEPT !.offset = @ + n]

RECURSIVE deserialize(_, _, _)

deserialize_primitive(t, d) == Done(Skip(d, Width(t)), Element(t, At(d, Width(t))))

deserialize_time(d) ==
  Done(Skip(d, 2 * LengthBytes),
       <<Number(At(d, LengthBytes)), Number(At(Skip(d, LengthBytes), LengthBytes))>>)

\* The text is moved one byte forward, over the last byte of its length, to
\* make room for the terminator.
deserialize_string(d) ==
  LET length == Number(At(d, LengthBytes))
      start == d.offset + LengthBytes
      shifted == [i \in DOMAIN d.inbuffer |->
                    IF i \in start .. start + length - 1 THEN d.inbuffer[i + 1]
                    ELSE IF i = start + length THEN 0 ELSE d.inbuffer[i]]
  IN  Done(Skip([d EXCEPT !.inbuffer = shifted], LengthBytes + length), start)

\* A block grows in place, or its content goes to a new one and it is freed, or
\* there is no room.
Freed == << >>
realloc(d, at, cells) ==
  IF d.growths = 0 THEN [d |-> [d EXCEPT !.null = TRUE], at |-> 0] ELSE
  LET old == IF at = 0 THEN << >> ELSE d.heap[at]
      larger == SubSeq(old \o cells, 1, Len(cells))
      stays == at # 0 /\ ~d.moves
  IN  [d |-> [d EXCEPT !.growths = @ - 1, !.heap =
                IF stays THEN [@ EXCEPT ![at] = larger]
                ELSE IF at = 0 THEN Append(@, larger)
                ELSE Append([@ EXCEPT ![at] = Freed], larger)],
       at |-> IF stays THEN at ELSE Len(d.heap) + 1]

\* Without a block the elements are written through the null pointer: what is
\* undefined from there on is left out.
deserialize_vector(t, d, o) ==
  LET lengthT == Number(At(d, LengthBytes))
      grows == lengthT > o.length
      r == IF grows THEN realloc(d, o.at, [i \in 1 .. lengthT |-> o.st])
           ELSE [d |-> d, at |-> o.at]
      ElementOf(a, i) ==
        LET e == deserialize(t.of, a.d, a.o.st)
        IN  Done(IF r.at = 0 THEN e.d ELSE [e.d EXCEPT !.heap[r.at][i] = e.o],
                 [a.o EXCEPT !.st = e.o])
  IN  FoldLeft(ElementOf,
               Done(Skip(r.d, LengthBytes), [o EXCEPT !.length = lengthT, !.at = r.at]),
               [i \in 1 .. lengthT |-> i])

deserialize_array(t, d, o) ==
  FoldLeft(LAMBDA a, i : LET e == deserialize(t.of, a.d, a.o[i])
                         IN  Done(e.d, [a.o EXCEPT ![i] = e.o]),
           Done(d, o), [i \in 1 .. t.size |-> i])

deserialize_message(t, d, o) ==
  FoldLeft(LAMBDA a, i : LET e == deserialize(t.fields[i], a.d, a.o[i])
                         IN  Done(e.d, [a.o EXCEPT ![i] = e.o]),
           Done(d, o), [i \in DOMAIN t.fields |-> i])

deserialize(t, d, o) ==
  CASE t.kind \in {"simple", "bool"} -> deserialize_primitive(t, d)
    [] t.kind = "time" -> deserialize_time(d)
    [] t.kind = "string" -> deserialize_string(d)
    [] t.kind = "vector" -> deserialize_vector(t, d, o)
    [] t.kind = "array" -> deserialize_array(t, d, o)
    [] t.kind = "struct" -> deserialize_message(t, d, o)

---------------------------------------------------------------------------
RosLibInit == SerInit /\ object = NoObject

\* The host sends a message; the subscriber of its type deserialises it and
\* the callback looks at the object.
callback(m) ==
  LET t == m[1]
      o == IF object = NoObject THEN Constructed(t) ELSE object.o
      sent == Write(t, New(Length(t, m[2])), m[2]).data
  IN  /\ object # NoObject =>
           object.sample[1] = t /\ object.received < MaxReceived /\ ~object.d.null
      /\ \E moves \in BOOLEAN, growths \in 0 .. MaxGrowths :
           LET r == deserialize(t, [inbuffer |-> sent, offset |-> 0, moves |-> moves,
                                    growths |-> growths, null |-> FALSE,
                                    heap |-> IF object = NoObject THEN << >> ELSE object.d.heap], o)
           IN  object' = [received |-> object.received + 1, sample |-> m, o |-> r.o,
                          d |-> [r.d EXCEPT !.growths = 0]]
      /\ UNCHANGED msg

\* The device sends a message that the host reads.
publish(m) ==
  /\ msg = Idle
  /\ msg' = [stage |-> "arrived", kind |-> "device", sample |-> m, cut |-> FALSE,
             out |-> Stream(serialize(m[1], m[2]))]
  /\ UNCHANGED object

\* Publisher.handlePacket() of rosserial_python reads it, without a length in front.
handlePacket ==
  /\ msg.stage = "arrived" /\ msg.kind = "device"
  /\ LET r == Read(msg.sample[1], msg.out)
     IN  msg' = [stage |-> "read", kind |-> "device", sample |-> msg.sample, cut |-> FALSE,
                 out |-> r.s, value |-> r.v]
  /\ UNCHANGED object

RosLibNext ==
  \/ object = NoObject /\ SerNext /\ UNCHANGED object
  \/ msg = Idle /\ \E m \in DeviceSamples : callback(m)
  \/ object = NoObject /\ \E m \in DeviceSamples : publish(m)
  \/ handlePacket

---------------------------------------------------------------------------
RECURSIVE HoldsVector(_), Agrees(_, _, _, _)

HoldsVector(t) ==
  CASE t.kind = "vector" -> TRUE
    [] t.kind = "array" -> HoldsVector(t.of)
    [] t.kind = "struct" -> \E i \in DOMAIN t.fields : HoldsVector(t.fields[i])
    [] OTHER -> FALSE

\* The object o of d holds the value v, with one exception: elements of an array
\* that hold arrays of variable size themselves all point to the block of st_, which
\* the last one read has filled.  Of them only the last is compared.
Agrees(t, d, o, v) ==
  CASE t.kind = "string" ->
         \/ o = 0 /\ v = << >>
         \/ o # 0 /\ \A i \in 0 .. Len(v) : d.inbuffer[o + i] = Append(v, 0)[i + 1]
    [] t.kind = "vector" ->
         /\ o.length = Len(v)
         /\ v # << >> => Len(v) <= Len(d.heap[o.at])
         /\ \A i \in DOMAIN v :
              ~HoldsVector(t.of) \/ i = Len(v) => Agrees(t.of, d, d.heap[o.at][i], v[i])
    [] t.kind = "array" -> \A i \in DOMAIN v : Agrees(t.of, d, o[i], v[i])
    [] t.kind = "struct" -> \A i \in DOMAIN v : Agrees(t.fields[i], d, o[i], v[i])
    [] OTHER -> o = v

(* A message whose lengths a uint32_t can hold fills the buffer that       *)
(* serializedLength() sized for it exactly, whichever specialisations its  *)
(* parts take; read back it is the same value, and no byte is left over; a *)
(* message cut short anywhere makes the reader throw, never return a value.*)
(* The generated code of the device agrees: the host reads what            *)
(* serialize() wrote, and a callback finds in the subscriber's object what *)
(* the host wrote, whatever the messages before it left there and wherever *)
(* realloc() put the arrays.  Two exceptions: realloc() returned the null  *)
(* pointer, which deserialize() does not look at, and all but the last     *)
(* element of an array whose elements hold arrays (Agrees).                *)
MessagesFaithful ==
  /\ msg # Idle /\ Fits(msg.sample) =>
       /\ msg.stage = "sent" => ~msg.out.threw /\ msg.out.pos = Len(msg.out.data)
       /\ msg.stage = "read" =>
            /\ msg.cut <=> msg.out.threw
            /\ ~msg.cut => /\ msg.value = msg.sample[2]
                           /\ msg.out.pos = Len(msg.out.data)
  /\ object # NoObject /\ ~object.d.null =>
       Agrees(object.sample[1], object.d, object.o, object.sample[2])
============================================================================

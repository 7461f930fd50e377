------------------------- MODULE Ros1Serialization -------------------------
(***************************************************************************)
(* The serialisers of ROS 1 that the server's sources keep in              *)
(* serialization.h, which no other file of the repository includes: it is  *)
(* the format of ROS 1 in code, and RosLibMessages takes it for the host's *)
(* end of the messages of the boards that speak ROS 1.  Lengths are        *)
(* computed first, a buffer of that size is filled through an output       *)
(* stream, and an input stream of the size received is read.  A stream     *)
(* throws as soon as it is advanced past its end.  Types are terms         *)
(* (records with a kind), as the templates of the source are indexed by    *)
(* types; bytes are numbers below Base, and uint32_t is LengthBytes bytes. *)
(***************************************************************************)
EXTENDS Integers, Sequences, SequencesExt

CONSTANTS
  Base,          \* values of a byte
  LengthBytes,   \* bytes of a uint32_t
  Samples        \* the pairs <<type, value>> that are tried

VARIABLE msg     \* the message on its way, or Idle
Idle == [stage |-> "idle"]

ASSUME SerializationAssumption ==
  Base \in Nat /\ Base > 1 /\ LengthBytes \in Nat \ {0}

Uint32 == Base ^ LengthBytes
Word(n) == [i \in 1 .. LengthBytes |-> (n \div Base ^ (i - 1)) % Base]
Number(word) == FoldRightDomain(LAMBDA i, n : n + word[i] * Base ^ (i - 1), word, 0)

Simple(w) == [kind |-> "simple", width |-> w]
Bool == [kind |-> "bool"]
String == [kind |-> "string"]
Time == [kind |-> "time"]
Vector(t) == [kind |-> "vector", of |-> t]
Array(t, n) == [kind |-> "array", of |-> t, size |-> n]
Struct(fields) == [kind |-> "struct", fields |-> fields]

(* message_traits::IsSimple and IsFixedSize of ROS 1, which choose the        *)
(* specialisation of VectorSerializer and ArraySerializer.  A time is two     *)
(* words side by side; bool is not simple, as vector<bool> holds no bools.    *)
IsSimple(t) == t.kind \in {"simple", "time"}

RECURSIVE IsFixedSize(_)
IsFixedSize(t) ==
  CASE t.kind \in {"simple", "bool", "time"} -> TRUE
    [] t.kind \in {"string", "vector"} -> FALSE
    [] t.kind = "array" -> IsFixedSize(t.of)
    [] t.kind = "struct" -> \A i \in DOMAIN t.fields : IsFixedSize(t.fields[i])

---------------------------------------------------------------------------
(* Streams. *)

Stream(data) == [data |-> data, pos |-> 0, threw |-> FALSE]

(* Once it has thrown, nothing more happens to a stream. *)
advance(s, len) ==
  IF s.threw THEN s
  ELSE IF s.pos + len > Len(s.data) THEN [s EXCEPT !.threw = TRUE]
  ELSE [s EXCEPT !.pos = @ + len]

(* memcpy() to, and from, where the stream was before it advanced. *)
Copy(s, bytes) ==
  LET a == advance(s, Len(bytes))
  IN  IF a.threw THEN a
      ELSE [a EXCEPT !.data = [i \in DOMAIN @ |->
              IF i \in s.pos + 1 .. a.pos THEN bytes[i - s.pos] ELSE @[i]]]

Taken(s, len) ==
  LET a == advance(s, len)
  IN  [s |-> a, v |-> IF a.threw THEN << >> ELSE SubSeq(s.data, s.pos + 1, a.pos)]

WriteLength(s, n) == Copy(s, Word(n % Uint32))

ReadLength(s) ==
  LET r == Taken(s, LengthBytes)
  IN  [s |-> r.s, v |-> IF r.s.threw THEN 0 ELSE Number(r.v)]

---------------------------------------------------------------------------
(* Write, Read and Length are Serializer<T>::write, read and               *)
(* serializedLength; a value of a simple type is its bytes.                *)

RECURSIVE Write(_, _, _), Read(_, _), Length(_, _)

WriteEach(t, s, v) == FoldLeft(LAMBDA acc, e : Write(t, acc, e), s, v)

ReadEach(t, s, n) ==
  FoldLeft(LAMBDA acc, i :
             LET r == Read(t, acc.s) IN [s |-> r.s, v |-> Append(acc.v, r.v)],
           [s |-> s, v |-> << >>], [i \in 1 .. n |-> i])

LengthEach(t, v) == FoldLeft(LAMBDA acc, e : (acc + Length(t, e)) % Uint32, 0, v)

(* The elements of simple types are copied in one go. *)
Width(t) ==
  CASE t.kind = "simple" -> t.width
    [] t.kind = "bool" -> 1
    [] t.kind = "time" -> 2 * LengthBytes
(* resize() to n elements of w bytes of zeros, then memcpy() over them. *)
Pieces(bytes, w, n) ==
  [i \in 1 .. n |-> [j \in 1 .. w |->
     LET k == (i - 1) * w + j IN IF k <= Len(bytes) THEN bytes[k] ELSE 0]]

Bytes(t, e) ==
  CASE t.kind = "simple" -> e
    [] t.kind = "bool" -> <<IF e THEN 1 ELSE 0>>
    [] t.kind = "time" -> Word(e[1]) \o Word(e[2])
Element(t, bytes) ==
  CASE t.kind = "simple" -> bytes
    [] t.kind = "bool" -> bytes # <<0>>
    [] t.kind = "time" -> <<Number(SubSeq(bytes, 1, LengthBytes)),
                            Number(SubSeq(bytes, LengthBytes + 1, 2 * LengthBytes))>>

simple_write(t, s, v) == Copy(s, v)
simple_read(t, s) == Taken(s, t.width)
bool_write(s, v) == Copy(s, Bytes(Bool, v))
bool_read(s) == LET r == Taken(s, 1) IN [r EXCEPT !.v = Element(Bool, @)]

string_write(s, v) ==
  LET l == WriteLength(s, Len(v)) IN IF v = << >> THEN l ELSE Copy(l, v)
string_read(s) ==
  LET l == ReadLength(s) IN IF l.v = 0 THEN [l EXCEPT !.v = << >>] ELSE Taken(l.s, l.v)
string_length(v) == (LengthBytes + Len(v)) % Uint32

time_write(s, v) == WriteLength(WriteLength(s, v[1]), v[2])
time_read(s) ==
  LET sec == ReadLength(s)
      nsec == ReadLength(sec.s)
  IN  [s |-> nsec.s, v |-> <<sec.v, nsec.v>>]

vector_write(t, s, v) == WriteEach(t.of, WriteLength(s, Len(v)), v)
vector_read(t, s) == LET l == ReadLength(s) IN ReadEach(t.of, l.s, l.v)
vector_length(t, v) == (LengthBytes + LengthEach(t.of, v)) % Uint32

(* Of a simple type: the elements' bytes, their number cut to 32 bits. *)
vector_write_simple(t, s, v) ==
  LET l == WriteLength(s, Len(v))
      data_len == (Len(v) * Width(t.of)) % Uint32
  IN  Copy(l, SubSeq(FlattenSeq([i \in DOMAIN v |-> Bytes(t.of, v[i])]), 1, data_len))
vector_read_simple(t, s) ==
  LET l == ReadLength(s)
      w == Width(t.of)
      r == Taken(l.s, (w * l.v) % Uint32)
  IN  [s |-> r.s, v |-> [i \in 1 .. l.v |-> Element(t.of, Pieces(r.v, w, l.v)[i])]]
vector_length_simple(t, v) == (LengthBytes + Len(v) * Width(t.of)) % Uint32

(* Mutant: the first element's length is forgotten. *)
vector_length_fixed_short(t, v) ==
  IF v = << >> THEN LengthBytes
  ELSE (LengthBytes + Length(t.of, v[1]) * (Len(v) - 1)) % Uint32

(* Of a type of fixed size that is not simple: the first element's length *)
(* stands for all.                                                        *)
vector_length_fixed(t, v) ==
  IF v = << >> THEN LengthBytes
  ELSE (LengthBytes + Length(t.of, v[1]) * Len(v)) % Uint32

array_write(t, s, v) == WriteEach(t.of, s, v)
array_read(t, s) == ReadEach(t.of, s, t.size)
array_length(t, v) == LengthEach(t.of, v)

array_write_simple(t, s, v) == Copy(s, FlattenSeq([i \in DOMAIN v |-> Bytes(t.of, v[i])]))
array_read_simple(t, s) ==
  LET w == Width(t.of)
      r == Taken(s, t.size * w)
  IN  [s |-> r.s, v |-> [i \in 1 .. t.size |-> Element(t.of, Pieces(r.v, w, t.size)[i])]]
array_length_simple(t) == (t.size * Width(t.of)) % Uint32
array_length_fixed(t, v) == (Length(t.of, v[1]) * t.size) % Uint32

(* The write, read and serializedLength that ROS_DECLARE_ALLINONE_SERIALIZER *)
(* makes of a message's list of fields.                                      *)
struct_write(t, s, v) ==
  FoldLeftDomain(LAMBDA acc, i : Write(t.fields[i], acc, v[i]), s, v)
struct_read(t, s) ==
  FoldLeft(LAMBDA acc, f :
             LET r == Read(f, acc.s) IN [s |-> r.s, v |-> Append(acc.v, r.v)],
           [s |-> s, v |-> << >>], t.fields)
struct_length(t, v) ==
  FoldLeftDomain(LAMBDA acc, i : (acc + Length(t.fields[i], v[i])) % Uint32, 0, v)

Write(t, s, v) ==
  CASE t.kind = "simple" -> simple_write(t, s, v)
    [] t.kind = "bool" -> bool_write(s, v)
    [] t.kind = "string" -> string_write(s, v)
    [] t.kind = "time" -> time_write(s, v)
    [] t.kind = "vector" ->
         IF IsSimple(t.of) THEN vector_write_simple(t, s, v) ELSE vector_write(t, s, v)
    [] t.kind = "array" ->
         IF IsSimple(t.of) THEN array_write_simple(t, s, v) ELSE array_write(t, s, v)
    [] t.kind = "struct" -> struct_write(t, s, v)

Read(t, s) ==
  CASE t.kind = "simple" -> simple_read(t, s)
    [] t.kind = "bool" -> bool_read(s)
    [] t.kind = "string" -> string_read(s)
    [] t.kind = "time" -> time_read(s)
    [] t.kind = "vector" ->
         IF IsSimple(t.of) THEN vector_read_simple(t, s) ELSE vector_read(t, s)
    [] t.kind = "array" ->
         IF IsSimple(t.of) THEN array_read_simple(t, s) ELSE array_read(t, s)
    [] t.kind = "struct" -> struct_read(t, s)

Length(t, v) ==
  CASE t.kind = "simple" -> t.width
    [] t.kind = "bool" -> 1
    [] t.kind = "string" -> string_length(v)
    [] t.kind = "time" -> 2 * LengthBytes
    [] t.kind = "vector" ->
         IF IsSimple(t.of) THEN vector_length_simple(t, v)
         ELSE IF IsFixedSize(t.of) THEN vector_length_fixed(t, v)
         ELSE vector_length(t, v)
    [] t.kind = "array" ->
         IF IsSimple(t.of) THEN array_length_simple(t)
         ELSE IF IsFixedSize(t.of) THEN array_length_fixed(t, v)
         ELSE array_length(t, v)
    [] t.kind = "struct" -> struct_length(t, v)

---------------------------------------------------------------------------
(* A message, or the answer to a service call, is serialised, reaches the  *)
(* other side whole or cut short, and is read there.                       *)

SerInit == msg = Idle

New(n) == Stream([i \in 1 .. n |-> 0])

serializeMessage ==
  /\ msg = Idle
  /\ \E m \in Samples :
       LET len == Length(m[1], m[2])
       IN  msg' = [stage |-> "sent", kind |-> "message", sample |-> m,
                   out |-> Write(m[1], WriteLength(New((len + LengthBytes) % Uint32), len), m[2])]

serializeServiceResponse(ok) ==
  /\ msg = Idle
  /\ \E m \in IF ok THEN Samples ELSE {<<Simple(LengthBytes), Word(0)>>} :
       LET len == Length(m[1], m[2])
           head == IF ok THEN 1 + LengthBytes ELSE 1
           flag == Copy(New((len + head) % Uint32), Bytes(Bool, ok))
       IN  msg' = [stage |-> "sent", kind |-> "response", sample |-> m,
                   out |-> Write(m[1], IF ok THEN WriteLength(flag, len) ELSE flag, m[2])]

(* The transport delivers the first n bytes; the link reads the length that *)
(* both kinds have in front (for a response, ServiceServerLink first reads  *)
(* the flag).                                                               *)
Deliver ==
  /\ msg.stage = "sent" /\ ~msg.out.threw
  /\ \E n \in 0 .. Len(msg.out.data) :
       msg' = [msg EXCEPT !.stage = "arrived", !.out = Stream(SubSeq(@.data, 1, n))]
               @@ [cut |-> n < Len(msg.out.data)]

deserializeMessage ==
  /\ msg.stage = "arrived" /\ msg.kind \in {"message", "response"}
  /\ LET flag == IF msg.kind = "response" THEN Taken(msg.out, 1) ELSE [s |-> msg.out, v |-> <<1>>]
         len == ReadLength(flag.s)
         refused == flag.v # <<1>>
         body == IF refused THEN [s |-> len.s, v |-> Word(len.v)]
                 ELSE Read(msg.sample[1], len.s)
     IN  msg' = [stage |-> "read", kind |-> msg.kind, sample |-> msg.sample,
                 cut |-> msg.cut, out |-> body.s, value |-> body.v]

SerNext ==
  \/ serializeMessage
  \/ \E ok \in BOOLEAN : serializeServiceResponse(ok)
  \/ Deliver
  \/ deserializeMessage

---------------------------------------------------------------------------
(* The number of bytes a value takes, counted without the 32 bits of a     *)
(* uint32_t: what the lengths are to agree with.                           *)
RECURSIVE Size(_, _)
Size(t, v) ==
  CASE t.kind = "simple" -> t.width
    [] t.kind = "bool" -> 1
    [] t.kind = "string" -> LengthBytes + Len(v)
    [] t.kind = "time" -> 2 * LengthBytes
    [] t.kind = "vector" -> FoldLeft(LAMBDA n, e : n + Size(t.of, e), LengthBytes, v)
    [] t.kind = "array" -> FoldLeft(LAMBDA n, e : n + Size(t.of, e), 0, v)
    [] t.kind = "struct" -> FoldLeftDomain(LAMBDA n, i : n + Size(t.fields[i], v[i]), 0, v)

(* A uint32_t holds every length and every product on the way: the         *)
(* serialisers do not look whether it does.                                *)
Fits(m) == Size(m[1], m[2]) + LengthBytes + 1 < Uint32
============================================================================

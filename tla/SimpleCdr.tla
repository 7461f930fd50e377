----------------------------- MODULE SimpleCdr -----------------------------
(***************************************************************************)
(* SimpleCdr (simplecdr.h): a cursor over a buffer of bytes that somebody  *)
(* else owns.  Writing checks the space that is left; reading does not, it *)
(* relies on the read having asked for enough bytes.                       *)
(***************************************************************************)
EXTENDS Integers, Sequences

\* The constructor; `thrown' after std::out_of_range.
SimpleCdr(buffer) == [buffer_ |-> buffer, offset_ |-> 0, thrown |-> FALSE]

getData(c) == c.buffer_
getLength(c) == Len(c.buffer_)

check_space(c, num_bytes) == getLength(c) - c.offset_ >= num_bytes

\* Nothing is written after an exception.
Put(c, bytes) ==
  IF c.thrown \/ ~check_space(c, Len(bytes)) THEN [c EXCEPT !.thrown = TRUE]
  ELSE [c EXCEPT !.offset_ = @ + Len(bytes),
                 !.buffer_ = [i \in DOMAIN @ |->
                   IF i - c.offset_ \in DOMAIN bytes THEN bytes[i - c.offset_] ELSE @[i]]]

\* The three operators <<.
write_uint8(c, value) == Put(c, <<value>>)
write_uint16(c, value) == Put(c, <<value % 256, value \div 256>>)
write_vector(c, bytes) == Put(c, bytes)

\* The two operators >>: the value, and the cursor behind it.
read_uint8(c) ==
  [value |-> c.buffer_[c.offset_ + 1], rest |-> [c EXCEPT !.offset_ = @ + 1]]
read_uint16(c) ==
  [value |-> c.buffer_[c.offset_ + 1] + 256 * c.buffer_[c.offset_ + 2],
   rest |-> [c EXCEPT !.offset_ = @ + 2]]

\* All of the buffer, wherever the cursor is.
asSerializedMessage(c) == getData(c)
=============================================================================

----------------------------- MODULE ByteStream -----------------------------
(***************************************************************************)
(* What the read buffer of rosserial_server promises to the session that   *)
(* reads from it: a stream of bytes that are handed over in the order in   *)
(* which they arrived, each at most once, in runs of exactly the length    *)
(* that was asked for.  A byte is identified by its position in the        *)
(* stream (1, 2, 3, ...), so that "in order" and "once" can be stated      *)
(* about positions.                                                        *)
(*                                                                         *)
(* A run is handed over some time before the reader looks at it.  Until    *)
(* then it is not altered, unless the reader asks for bytes that have not  *)
(* arrived yet: that takes back all runs it has not looked at.  Buffered   *)
(* bytes may be thrown away as a whole (the buffer's recovery from a       *)
(* refused request does so), but no byte is ever handed over out of order  *)
(* or twice.                                                               *)
(***************************************************************************)
EXTENDS Integers, Sequences

VARIABLES
  next,   \* position of the first byte not yet handed over or thrown away
  runs    \* the runs handed over and not yet looked at, oldest first

vars == <<next, runs>>

\* A run that was taken back.  (One that is handed over is not empty.)
TakenBack == <<>>

Init == next = 1 /\ runs = <<>>

\* The reader is handed the next bytes, at least one.
Deliver ==
  /\ next' > next
  /\ runs' = Append(runs, [j \in 1 .. next' - next |-> next + j - 1])

\* The reader looks at the oldest run it was handed.
Consume ==
  /\ runs # <<>>
  /\ runs' = Tail(runs)
  /\ UNCHANGED next

\* Bytes that had arrived are thrown away unread.
Discard ==
  /\ next' > next
  /\ UNCHANGED runs

\* The reader asks for bytes that have not arrived.
Overtake ==
  /\ runs' = [i \in DOMAIN runs |-> TakenBack]
  /\ UNCHANGED next

Next == Deliver \/ Consume \/ Discard \/ Overtake

Spec == Init /\ [][Next]_vars
=============================================================================

----------------------------- MODULE V5Hardware -----------------------------
(***************************************************************************)
(* V5Hardware: a task of its own, vexRosBufferInput(), adds the bytes it   *)
(* reads to a RingBufCPP, read() pulls them out in the program's task, and *)
(* neither takes the mutex that RB_ATOMIC_START is named for.  The tasks   *)
(* share _numElements, which each loads, changes and stores.  write()      *)
(* goes to the file byte by byte.                                          *)
(***************************************************************************)
EXTENDS Transport

\* _buf, _head, _numElements; `adder' and `puller' are where the two tasks
\* are in add() and pull(), with the count each has loaded.
Init ==
  /\ EmptyLine
  /\ tx = <<>>
  /\ rx = [buf |-> [i \in 0 .. RingSize - 1 |-> 0], head |-> 0, num |-> 0,
           adder |-> <<"check", 0>>, puller |-> <<"check", 0>>]

isFull == rx.num >= RingSize
isEmpty == rx.num = 0
getTail(head) == (head + (RingSize - rx.num)) % RingSize

\* fputc() and fflush() for every byte.
write(length) ==
  /\ written + arrived + length <= MaxBytes
  /\ written' = written + length
  /\ Sent(Data(length))
  /\ UNCHANGED <<arrived, got, tx, rx, excuse>>

\* vexRosBufferInput() reads a byte, and add() stores it unless the buffer
\* is full, in which case the byte is dropped.
add_stores ==
  /\ rx.adder[1] = "check" /\ written + arrived < MaxBytes
  /\ arrived' = arrived + 1
  /\ rx' = IF isFull THEN rx
           ELSE [rx EXCEPT !.buf[rx.head] = arrived + 1, !.head = (@ + 1) % RingSize,
                           !.adder = <<"load", 0>>]
  /\ Excused("rx", isFull)
  /\ UNCHANGED <<written, wire, got, tx>>

\* _numElements++: load, then store.  Changing the count while the other
\* task holds a loaded copy loses one of the two changes.
add_loads ==
  /\ rx.adder[1] = "load"
  /\ rx' = [rx EXCEPT !.adder = <<"store", rx.num>>]
  /\ UNCHANGED <<written, wire, arrived, got, tx, excuse>>

add_counts ==
  /\ rx.adder[1] = "store"
  /\ rx' = [rx EXCEPT !.num = rx.adder[2] + 1, !.adder = <<"check", 0>>]
  /\ Excused("rx", rx.puller[1] = "store")
  /\ UNCHANGED <<written, wire, arrived, got, tx>>

pull_checks ==
  /\ rx.puller[1] = "check" /\ ~isEmpty
  /\ rx' = [rx EXCEPT !.puller = <<"tail", rx.head>>]
  /\ UNCHANGED <<written, wire, arrived, got, tx, excuse>>

\* pull() finds the oldest byte from _head, loaded before, and _numElements;
\* if add() is or was at work in between, these do not belong together.
pull_copies ==
  /\ rx.puller[1] = "tail"
  /\ Returned(<<rx.buf[getTail(rx.puller[2])]>>)
  /\ rx' = [rx EXCEPT !.puller = <<"load", 0>>]
  /\ Excused("rx", rx.adder[1] # "check" \/ rx.puller[2] # rx.head)
  /\ UNCHANGED <<written, wire, arrived, tx>>

pull_loads ==
  /\ rx.puller[1] = "load"
  /\ rx' = [rx EXCEPT !.puller = <<"store", rx.num>>]
  /\ UNCHANGED <<written, wire, arrived, got, tx, excuse>>

pull_counts ==
  /\ rx.puller[1] = "store"
  /\ rx' = [rx EXCEPT !.num = rx.puller[2] - 1, !.puller = <<"check", 0>>]
  /\ Excused("rx", rx.adder[1] = "store")
  /\ UNCHANGED <<written, wire, arrived, got, tx>>

Next ==
  \/ \E length \in 1 .. MaxWrite : write(length)
  \/ add_stores
  \/ add_loads
  \/ add_counts
  \/ pull_checks
  \/ pull_copies
  \/ pull_loads
  \/ pull_counts

\* Who takes which step.
Interrupt == add_loads \/ add_counts
Reader == pull_checks \/ pull_copies \/ pull_loads \/ pull_counts

\* The bytes not yet pulled: between copy and count the oldest has been.
Held == rx.num - (IF rx.puller[1] \in {"load", "store"} THEN 1 ELSE 0)
             + (IF rx.adder[1] = "check" THEN 0 ELSE 1)
InTx == <<>>
InRx == [i \in 1 .. Held |-> rx.buf[(rx.head + RingSize - Held + i - 1) % RingSize]]
=============================================================================

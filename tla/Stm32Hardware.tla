--------------------------- MODULE Stm32Hardware ---------------------------
(***************************************************************************)
(* STM32Hardware: both directions go through rings that the DMA controller *)
(* reads and writes by itself.  Sending is started by write() only; the    *)
(* end of a DMA transfer starts nothing.                                   *)
(***************************************************************************)
EXTENDS Transport

\* huart, rbuf, rind, tbuf, twind, tfind, and what the controller is at:
\* `left' bytes from tbuf[at] on.  ind is what getRdmaInd() returns.
Init ==
  /\ EmptyLine
  /\ tx = [tbuf |-> [i \in 0 .. RingSize - 1 |-> 0], twind |-> 0, tfind |-> 0,
           gState |-> "READY", at |-> 0, left |-> 0]
  /\ rx = [rbuf |-> [i \in 0 .. RingSize - 1 |-> 0], rind |-> 0, ind |-> 0]

Queued(t) == (t.twind + RingSize - t.tfind) % RingSize
Unread(r) == (r.ind + RingSize - r.rind) % RingSize

\* Mutant: it is not looked at whether a transfer is under way.
flush_always(t) ==
  LET n == IF t.tfind < t.twind THEN t.twind - t.tfind ELSE RingSize - t.tfind
  IN  [t EXCEPT !.gState = "BUSY", !.at = t.tfind, !.left = n,
                !.tfind = (t.tfind + n) % RingSize]

\* Everything up to twind, or up to the end of the ring if twind has wrapped.
flush(t) ==
  IF t.gState = "READY" /\ t.twind # t.tfind
    THEN LET n == IF t.tfind < t.twind THEN t.twind - t.tfind ELSE RingSize - t.tfind
         IN  [t EXCEPT !.gState = "BUSY", !.at = t.tfind, !.left = n,
                       !.tfind = (t.tfind + n) % RingSize]
    ELSE t

\* The two memcpy()s and the flush(); nothing looks at the room left.
write(length) ==
  LET n == IF length <= RingSize THEN length ELSE RingSize
      stored == [tx EXCEPT
        !.tbuf = [i \in DOMAIN @ |->
                    LET k == (i + RingSize - tx.twind) % RingSize
                    IN  IF k < n THEN Data(length)[k + 1] ELSE @[i]],
        !.twind = (@ + n) % RingSize]
  IN  /\ written + arrived + length <= MaxBytes
      /\ written' = written + length
      /\ tx' = flush(stored)
      /\ Excused("tx", \/ length > RingSize
                       \/ Queued(tx) + n = RingSize
                       \/ tx.left + Queued(tx) + n > RingSize)
      /\ UNCHANGED <<wire, arrived, got, rx>>

\* The controller fetches each byte when it is due, not at the start.
DmaSends ==
  /\ tx.left > 0
  /\ Sent(<<tx.tbuf[tx.at]>>)
  /\ tx' = [tx EXCEPT !.at = @ + 1, !.left = @ - 1]
  /\ UNCHANGED <<written, arrived, got, rx, excuse>>

TransferComplete ==
  /\ tx.gState = "BUSY" /\ tx.left = 0
  /\ tx' = [tx EXCEPT !.gState = "READY"]
  /\ UNCHANGED <<written, wire, arrived, got, rx, excuse>>

DmaReceives ==
  /\ written + arrived < MaxBytes
  /\ arrived' = arrived + 1
  /\ rx' = [rx EXCEPT !.rbuf[rx.ind] = arrived + 1, !.ind = (@ + 1) % RingSize]
  /\ Excused("rx", Unread(rx) = RingSize - 1)
  /\ UNCHANGED <<written, wire, got, tx>>

read ==
  /\ rx.rind # rx.ind
  /\ Returned(<<rx.rbuf[rx.rind]>>)
  /\ rx' = [rx EXCEPT !.rind = (@ + 1) % RingSize]
  /\ UNCHANGED <<written, wire, arrived, tx, excuse>>

Next ==
  \/ \E length \in 1 .. MaxWrite : write(length)
  \/ DmaSends
  \/ TransferComplete
  \/ DmaReceives
  \/ read

\* Who takes which step.
Line == DmaSends
Interrupt == TransferComplete
Reader == read

InTx == [i \in 1 .. tx.left |-> tx.tbuf[tx.at + i - 1]]
          \o [i \in 1 .. Queued(tx) |-> tx.tbuf[(tx.tfind + i - 1) % RingSize]]
InRx == [i \in 1 .. Unread(rx) |-> rx.rbuf[(rx.rind + i - 1) % RingSize]]
=============================================================================

---------------------------- MODULE MbedHardware ----------------------------
(***************************************************************************)
(* MbedHardware over BufferedSerial and its Buffer<char>.  putc() stores   *)
(* the byte and primes the transmitter; txIrq() runs from the transmit     *)
(* interrupt, between any two steps of that.  Both indices of a Buffer     *)
(* run modulo _size - 1, and each is stored once before and once after the *)
(* modulus (they are volatile), so an interrupt may see an index that has  *)
(* not wrapped yet.                                                        *)
(***************************************************************************)
EXTENDS Transport

CONSTANT FifoSize      \* hardware FIFO of the UART

Slots == 0 .. RingSize - 1
Wrap == RingSize - 1

\* _txbuf, the UART's FIFO, whether txIrq is attached; pc, data and bulk belong
\* to the write() under way.
Init ==
  /\ EmptyLine
  /\ tx = [buf |-> [i \in Slots |-> 0], wloc |-> 0, rloc |-> 0,
           fifo |-> <<>>, attached |-> FALSE, pc |-> "idle", data |-> <<>>, bulk |-> FALSE]
  /\ rx = [buf |-> [i \in Slots |-> 0], wloc |-> 0, rloc |-> 0]

available(b) == b.wloc # b.rloc
Used(b) == (b.wloc + Wrap - b.rloc) % Wrap

\* An operation of a Buffer that nothing interrupts.
put(b, c) == [b EXCEPT !.buf[b.wloc] = c, !.wloc = (@ + 1) % Wrap]
get(b) == [b EXCEPT !.rloc = (@ + 1) % Wrap]

serial_writable(t) == Len(t.fifo) < FifoSize

\* The loop of txIrq(): bytes go to the UART until its FIFO is full or the
\* buffer is found empty, which detaches the interrupt.  `n' is the number of
\* turns; a _wloc that has not wrapped yet never equals _rloc.
txIrq(t) ==
  LET room == FifoSize - Len(t.fifo)
      n == IF t.wloc = Wrap \/ room <= Used(t) THEN room ELSE Used(t)
  IN  [t EXCEPT !.fifo = @ \o [i \in 1 .. n |-> t.buf[(t.rloc + i - 1) % Wrap]],
                !.rloc = (@ + n) % Wrap,
                !.attached = @ /\ n = room]

Begin(length, bulk) ==
  /\ tx.pc = "idle"
  /\ written + arrived + length <= MaxBytes
  /\ written' = written + length
  /\ tx' = [tx EXCEPT !.pc = "put", !.data = Data(length), !.bulk = bulk]
  /\ UNCHANGED <<wire, arrived, got, rx, excuse>>

\* MbedHardware::write(): putc() for every byte.
write(length) == Begin(length, FALSE)

\* write() of BufferedSerial itself, and puts() and printf(), which a program
\* may use on the same port: one prime() after all the bytes.
BufferedSerial_write(length) == Begin(length, TRUE)

\* The first store of Buffer::put(): _buf[_wloc++] = data.
store ==
  /\ tx.pc = "put"
  /\ tx' = [tx EXCEPT !.buf[tx.wloc] = Head(tx.data), !.wloc = @ + 1,
                      !.data = Tail(@), !.pc = "wrap"]
  /\ Excused("tx", Used(tx) = Wrap - 1)
  /\ UNCHANGED <<written, wire, arrived, got, rx>>

\* The second store of Buffer::put(): _wloc %= (_size-1).
put_wraps ==
  /\ tx.pc = "wrap"
  /\ tx' = [tx EXCEPT !.wloc = @ % Wrap,
                      !.pc = IF tx.bulk /\ tx.data # <<>> THEN "put" ELSE "prime"]
  /\ UNCHANGED <<written, wire, arrived, got, rx, excuse>>

\* Mutant: the interrupt is not attached again.
prime_detached ==
  /\ tx.pc = "prime"
  /\ LET primed == IF serial_writable(tx) THEN txIrq([tx EXCEPT !.attached = FALSE]) ELSE tx
     IN  tx' = [primed EXCEPT !.pc = IF tx.data = <<>> THEN "idle" ELSE "put"]
  /\ UNCHANGED <<written, wire, arrived, got, rx, excuse>>

\* prime(): detached while it runs txIrq() itself, attached after.
prime ==
  /\ tx.pc = "prime"
  /\ LET primed == IF serial_writable(tx)
                     THEN [txIrq([tx EXCEPT !.attached = FALSE]) EXCEPT !.attached = TRUE]
                     ELSE tx
     IN  tx' = [primed EXCEPT !.pc = IF tx.data = <<>> THEN "idle" ELSE "put"]
  /\ UNCHANGED <<written, wire, arrived, got, rx, excuse>>

\* The transmit interrupt.  While _wloc has run past the last index the
\* buffer never looks empty, and the UART takes as many bytes as it can.
TxInterrupt ==
  /\ tx.attached /\ serial_writable(tx)
  /\ tx' = txIrq(tx)
  /\ Excused("tx", tx.wloc = Wrap /\ FifoSize - Len(tx.fifo) > Used(tx))
  /\ UNCHANGED <<written, wire, arrived, got, rx>>

UartSends ==
  /\ tx.fifo # <<>>
  /\ Sent(<<Head(tx.fifo)>>)
  /\ tx' = [tx EXCEPT !.fifo = Tail(@)]
  /\ UNCHANGED <<written, arrived, got, rx, excuse>>

rxIrq ==
  /\ written + arrived < MaxBytes
  /\ arrived' = arrived + 1
  /\ rx' = put(rx, arrived + 1)
  /\ Excused("rx", Used(rx) = Wrap - 1)
  /\ UNCHANGED <<written, wire, got, tx>>

read ==
  /\ available(rx)
  /\ Returned(<<rx.buf[rx.rloc]>>)
  /\ rx' = get(rx)
  /\ UNCHANGED <<written, wire, arrived, tx, excuse>>

Next ==
  \/ \E length \in 1 .. MaxWrite : write(length) \/ BufferedSerial_write(length)
  \/ store
  \/ put_wraps
  \/ prime
  \/ TxInterrupt
  \/ UartSends
  \/ rxIrq
  \/ read

\* Who takes which step: the write() under way, the line, what interrupts
\* the program, and the program's reading.
Writer == store \/ put_wraps \/ prime
Line == UartSends
Interrupt == TxInterrupt
Reader == read

Content(b) == [i \in 1 .. Used(b) |-> b.buf[(b.rloc + i - 1) % Wrap]]
InTx == tx.fifo \o Content(tx) \o tx.data
InRx == Content(rx)
=============================================================================

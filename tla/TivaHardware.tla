---------------------------- MODULE TivaHardware ----------------------------
(***************************************************************************)
(* TivaCHardware: rings of the TivaWare library between the program and    *)
(* UARTIntHandler().  The UART has a shift register and, with its FIFO     *)
(* disabled, one holding register; UART_TXINT_MODE_EOT raises the transmit *)
(* interrupt when both have run empty.  write() takes several steps, and   *)
(* the interrupt handler runs between any two of them, at once when its    *)
(* interrupt is raised (eot).                                              *)
(***************************************************************************)
EXTENDS Transport

\* txBuffer, the UART's registers, the interrupt flag; pc, data and irqs
\* belong to the write() under way (irqs: transmit interrupts it has met).
Init ==
  /\ EmptyLine
  /\ tx = [ring |-> <<>>, uart |-> <<>>, eot |-> FALSE,
           pc |-> "idle", data |-> <<>>, kick |-> FALSE, irqs |-> 0]
  /\ rx = <<>>

\* External, TivaWare: a ring holds RingSize - 1 bytes; one more and its
\* write index meets the read index, and the ring counts as empty.
RingBufWriteOne(ring, b) ==
  IF Len(ring) = RingSize - 1 THEN <<>> ELSE Append(ring, b)

\* External, TivaWare: reading an empty ring moves its read index past the
\* write index, after which its whole memory counts as unread.
RingBufReadOne(ring) ==
  IF ring = <<>> THEN [i \in 1 .. RingSize - 1 |-> 0] ELSE Tail(ring)

\* External, TivaWare: without a free register the byte is dropped.
UARTCharPutNonBlocking(uart, b) ==
  IF Len(uart) < 2 THEN Append(uart, b) ELSE uart

\* RingBufEmpty() in write(): the program will start the UART itself.
write(length) ==
  /\ tx.pc = "idle" /\ ~tx.eot
  /\ written + arrived + length <= MaxBytes
  /\ written' = written + length
  /\ tx' = [tx EXCEPT !.pc = "store", !.data = Data(length),
                      !.kick = (tx.ring = <<>>), !.irqs = 0]
  /\ UNCHANGED <<wire, arrived, got, rx, excuse>>

RingBufWrite ==
  /\ tx.pc = "store" /\ tx.data # <<>> /\ ~tx.eot
  /\ tx' = [tx EXCEPT !.ring = RingBufWriteOne(@, Head(tx.data)), !.data = Tail(@)]
  /\ Excused("tx", Len(tx.ring) = RingSize - 1)
  /\ UNCHANGED <<written, wire, arrived, got, rx>>

\* The first byte of the ring is handed to the UART if the ring was empty
\* before write() filled it.
StartSending ==
  /\ tx.pc = "store" /\ tx.data = <<>> /\ ~tx.eot
  /\ tx' = [tx EXCEPT
       !.pc = "idle", !.kick = FALSE, !.irqs = 0,
       !.ring = IF tx.kick THEN RingBufReadOne(@) ELSE @,
       !.uart = IF tx.kick
                  THEN UARTCharPutNonBlocking(@, IF tx.ring = <<>> THEN 0 ELSE Head(tx.ring))
                  ELSE @]
  /\ UNCHANGED <<written, wire, arrived, got, rx, excuse>>

\* A byte is on the line; when it was the last, the interrupt is raised.
UartSends ==
  /\ tx.uart # <<>>
  /\ Sent(<<Head(tx.uart)>>)
  /\ tx' = [tx EXCEPT !.uart = Tail(@), !.eot = @ \/ Len(tx.uart) = 1]
  /\ UNCHANGED <<written, arrived, got, rx, excuse>>

\* The transmit half.  A second one within one write() is an excuse: the
\* program was held up for longer than a byte takes on the line.
UARTIntHandler_TX ==
  /\ tx.eot
  /\ LET hasMore == tx.ring # <<>>
     IN  tx' = [tx EXCEPT
           !.eot = FALSE,
           !.irqs = IF tx.pc = "idle" \/ @ = 2 THEN @ ELSE @ + 1,
           !.ring = IF hasMore THEN Tail(@) ELSE @,
           !.uart = IF hasMore THEN UARTCharPutNonBlocking(@, Head(tx.ring)) ELSE @]
  /\ Excused("tx", tx.pc # "idle" /\ tx.irqs >= 1)
  /\ UNCHANGED <<written, wire, arrived, got, rx>>

\* The receive half: the byte is stored without a look at the room left.
UARTIntHandler_RX ==
  /\ written + arrived < MaxBytes
  /\ arrived' = arrived + 1
  /\ rx' = RingBufWriteOne(rx, arrived + 1)
  /\ Excused("rx", Len(rx) = RingSize - 1)
  /\ UNCHANGED <<written, wire, got, tx>>

read ==
  /\ rx # <<>> /\ ~tx.eot
  /\ Returned(<<Head(rx)>>)
  /\ rx' = Tail(rx)
  /\ UNCHANGED <<written, wire, arrived, tx, excuse>>

\* A frame has at least eight bytes; three stand for more than the first one,
\* which takes a way of its own, and a rest.
Next ==
  \/ \E length \in 3 .. MaxWrite : write(length)
  \/ RingBufWrite
  \/ StartSending
  \/ UartSends
  \/ UARTIntHandler_TX
  \/ UARTIntHandler_RX
  \/ read

\* Who takes which step: the write() under way, the line, what interrupts
\* the program, and the program's reading.
Writer == RingBufWrite \/ StartSending
Line == UartSends
Interrupt == UARTIntHandler_TX
Reader == read

InTx == tx.uart \o tx.ring \o tx.data
InRx == rx
=============================================================================

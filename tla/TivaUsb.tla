------------------------------ MODULE TivaUsb ------------------------------
(***************************************************************************)
(* TivaCHardware over the USB serial device (tivac_hardware_usb.h) with    *)
(* the handlers and buffers of usb_serial_structs.c.  The buffers belong   *)
(* to TI's USB library, which moves packets between them and the host and  *)
(* calls the handlers from its interrupt.                                  *)
(***************************************************************************)
EXTENDS Transport

\* g_sTxBuffer and g_sRxBuffer as sequences; g_bUSBConfigured, which nothing
\* reads: the library itself knows whether the device is on the bus.
Init ==
  /\ EmptyLine
  /\ tx = [g_sTxBuffer |-> <<>>, onBus |-> FALSE, g_bUSBConfigured |-> FALSE]
  /\ rx = <<>>

\* USBBufferInit() of both buffers, and the device goes on the bus.
init ==
  /\ ~tx.onBus
  /\ tx' = [tx EXCEPT !.g_sTxBuffer = <<>>, !.onBus = TRUE]
  /\ rx' = <<>>
  /\ UNCHANGED <<written, wire, arrived, got, excuse>>

\* External, the USB library: the buffer takes what fits and drops the rest.
USBBufferWrite(buffer, data) ==
  LET room == RingSize - Len(buffer)
  IN  buffer \o SubSeq(data, 1, IF Len(data) < room THEN Len(data) ELSE room)

\* The program assumes that all of it fits, configured or not.
write(length) ==
  /\ tx.onBus
  /\ written + arrived + length <= MaxBytes
  /\ written' = written + length
  /\ tx' = [tx EXCEPT !.g_sTxBuffer = USBBufferWrite(@, Data(length))]
  /\ Excused("tx", length > RingSize - Len(tx.g_sTxBuffer))
  /\ UNCHANGED <<wire, arrived, got, rx>>

read ==
  /\ rx # <<>>
  /\ Returned(<<Head(rx)>>)
  /\ rx' = Tail(rx)
  /\ UNCHANGED <<written, wire, arrived, tx, excuse>>

\* The host has taken a packet: the library drops it from the buffer, and
\* the handler has nothing to do.
TxHandler ==
  /\ tx.g_bUSBConfigured
  /\ \E n \in 1 .. Len(tx.g_sTxBuffer) :
       /\ Sent(SubSeq(tx.g_sTxBuffer, 1, n))
       /\ tx' = [tx EXCEPT !.g_sTxBuffer = SubSeq(@, n + 1, Len(@))]
  /\ UNCHANGED <<written, arrived, got, rx, excuse>>

\* A packet of the host.  One that does not fit stays with the host: the
\* library is told by USB_EVENT_DATA_REMAINING how much is unread.
RxHandler ==
  /\ tx.g_bUSBConfigured
  /\ \E n \in 1 .. MaxWrite :
       /\ written + arrived + n <= MaxBytes
       /\ n <= RingSize - Len(rx)
       /\ arrived' = arrived + n
       /\ rx' = rx \o [i \in 1 .. n |-> arrived + i]
  /\ UNCHANGED <<written, wire, got, tx, excuse>>

\* USB_EVENT_CONNECTED flushes both buffers, whatever they hold.
\* USB_EVENT_DISCONNECTED keeps them.
ControlHandler(event) ==
  \/ /\ event = "USB_EVENT_CONNECTED"
     /\ tx.onBus /\ ~tx.g_bUSBConfigured
     /\ tx' = [tx EXCEPT !.g_bUSBConfigured = TRUE, !.g_sTxBuffer = <<>>]
     /\ rx' = <<>>
     /\ excuse' = excuse \cup (IF tx.g_sTxBuffer # <<>> THEN {"tx"} ELSE {})
                         \cup (IF rx # <<>> THEN {"rx"} ELSE {})
     /\ UNCHANGED <<written, wire, arrived, got>>
  \/ /\ event = "USB_EVENT_DISCONNECTED"
     /\ tx.g_bUSBConfigured
     /\ tx' = [tx EXCEPT !.g_bUSBConfigured = FALSE]
     /\ UNCHANGED <<written, wire, arrived, got, rx, excuse>>

Next ==
  \/ init
  \/ \E length \in 1 .. MaxWrite : write(length)
  \/ read
  \/ TxHandler
  \/ RxHandler
  \/ \E event \in {"USB_EVENT_CONNECTED", "USB_EVENT_DISCONNECTED"} : ControlHandler(event)

\* Who takes which step.  A host that is plugged in takes the packets.
Line == TxHandler
Reader == read

InTx == tx.g_sTxBuffer
InRx == rx

\* Sending needs a host that stays.
Unplugged == ~tx.g_bUSBConfigured
=============================================================================

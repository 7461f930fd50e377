---------------------------- MODULE TcpHardware ----------------------------
(***************************************************************************)
(* ArduinoHardware over TCP (ArduinoTcpHardware.h): read() looks after the *)
(* connection and opens it again when the server has closed it.            *)
(***************************************************************************)
EXTENDS Transport

CONSTANT KernelSize    \* what the client's send buffer holds

\* tcp_: without a connection, open, or closed by the server; a connection
\* that was closed counts as connected until its data has been read.
Init ==
  /\ EmptyLine
  /\ tx = [tcp |-> "none", kernel |-> <<>>, initialised |-> FALSE]
  /\ rx = <<>>

connected == tx.tcp = "open" \/ (tx.tcp = "closed" /\ rx # <<>>)

\* stop() and connect(): the server accepts or does not.  What the old
\* connection still held is gone.
Reconnect ==
  /\ \E s \in {"open", "none"} : tx' = [tx EXCEPT !.tcp = s, !.kernel = <<>>, !.initialised = TRUE]
  /\ rx' = <<>>
  /\ excuse' = excuse \cup (IF tx.kernel # <<>> THEN {"tx"} ELSE {})
                      \cup (IF rx # <<>> THEN {"rx"} ELSE {})
  /\ UNCHANGED <<written, wire, arrived, got>>

\* Also a second time, by a program that calls initNode() again.
init == Reconnect

\* The number of bytes that the client took is not looked at.
write(length) ==
  /\ tx.initialised
  /\ written + arrived + length <= MaxBytes
  /\ written' = written + length
  /\ LET room == IF tx.tcp = "open" THEN KernelSize - Len(tx.kernel) ELSE 0
     IN  /\ tx' = [tx EXCEPT !.kernel =
                     @ \o SubSeq(Data(length), 1, IF length < room THEN length ELSE room)]
         /\ Excused("tx", length > room)
  /\ UNCHANGED <<wire, arrived, got, rx>>

read ==
  /\ tx.initialised
  /\ \/ /\ connected /\ rx # <<>>
        /\ Returned(<<Head(rx)>>)
        /\ rx' = Tail(rx)
        /\ UNCHANGED <<written, wire, arrived, tx, excuse>>
     \/ ~connected /\ Reconnect

KernelSends ==
  /\ tx.tcp = "open" /\ tx.kernel # <<>>
  /\ Sent(<<Head(tx.kernel)>>)
  /\ tx' = [tx EXCEPT !.kernel = Tail(@)]
  /\ UNCHANGED <<written, arrived, got, rx, excuse>>

Arrives ==
  /\ tx.tcp = "open" /\ written + arrived < MaxBytes
  /\ arrived' = arrived + 1
  /\ rx' = Append(rx, arrived + 1)
  /\ UNCHANGED <<written, wire, got, tx, excuse>>

\* The server closes: what it has not been sent will not be.
HangUp ==
  /\ tx.tcp = "open"
  /\ tx' = [tx EXCEPT !.tcp = "closed", !.kernel = <<>>]
  /\ Excused("tx", tx.kernel # <<>>)
  /\ UNCHANGED <<written, wire, arrived, got, rx>>

Next ==
  \/ init
  \/ \E length \in 1 .. MaxWrite : write(length)
  \/ read
  \/ KernelSends
  \/ Arrives
  \/ HangUp

\* Who takes which step.
Line == KernelSends
Reader == read

InTx == tx.kernel
InRx == rx
=============================================================================

--------------------------- MODULE WindowsSocket ---------------------------
(***************************************************************************)
(* WindowsSocketImpl: one non-blocking TCP connection that init() opens.   *)
(* Nothing opens it again: after write() has closed it, every later call   *)
(* fails on the closed handle.                                             *)
(***************************************************************************)
EXTENDS Transport

CONSTANT KernelSize    \* what the socket's send buffer holds

\* mySocket and the two kernel buffers; `peer' is the server's end of the
\* connection: there, closed, or the connection has been reset.
Init ==
  /\ EmptyLine
  /\ tx = [mySocket |-> "new", kernel |-> <<>>]
  /\ rx = [kernel |-> <<>>, peer |-> "there"]

\* A server of the list that accepts, or none (also when socket() or the
\* switch to non-blocking fails): the handle of a failed attempt is closed.
connect_to_server == {"open", "INVALID_SOCKET"}

\* The addresses of a host name, or NULL.
get_server_addr == {"servers", "NULL"}

\* WSAStartup() may fail, too; without an address there is no attempt.
init ==
  /\ tx.mySocket = "new"
  /\ \E servers \in get_server_addr, s \in connect_to_server :
       tx' = [tx EXCEPT !.mySocket = IF servers = "NULL" THEN "INVALID_SOCKET" ELSE s]
  /\ UNCHANGED <<written, wire, arrived, got, rx, excuse>>

\* send() takes what fits.  Taking a part is no error, and the rest is not
\* sent again; taking nothing is SOCKET_ERROR, be it that the connection was
\* reset or only that the buffer is full (WSAEWOULDBLOCK): it closes the socket.
write(length) ==
  /\ tx.mySocket # "new"
  /\ written + arrived + length <= MaxBytes
  /\ written' = written + length
  /\ LET room == KernelSize - Len(tx.kernel)
         taken == IF length <= room THEN length ELSE room
         result == IF tx.mySocket # "open" \/ rx.peer = "reset" \/ taken = 0 THEN "SOCKET_ERROR" ELSE "taken"
     IN  /\ tx' = IF result = "SOCKET_ERROR"
                    THEN [tx EXCEPT !.mySocket = "closed"]
                    ELSE [tx EXCEPT !.kernel = @ \o SubSeq(Data(length), 1, taken)]
         /\ excuse' = excuse \cup (IF result = "SOCKET_ERROR" THEN {"tx", "rx"} ELSE {})
                             \cup (IF taken < length THEN {"tx"} ELSE {})
  /\ UNCHANGED <<wire, arrived, got, rx>>

KernelSends ==
  /\ tx.kernel # <<>>
  /\ Sent(<<Head(tx.kernel)>>)
  /\ tx' = [tx EXCEPT !.kernel = Tail(@)]
  /\ UNCHANGED <<written, arrived, got, rx, excuse>>

Arrives ==
  /\ tx.mySocket = "open" /\ rx.peer = "there" /\ written + arrived < MaxBytes
  /\ arrived' = arrived + 1
  /\ rx' = [rx EXCEPT !.kernel = Append(@, arrived + 1)]
  /\ UNCHANGED <<written, wire, got, tx, excuse>>

\* The server closes; what it sent before can be read.  The kernel goes on
\* sending, which a server that has gone answers with a reset.
HangUp ==
  /\ tx.mySocket = "open" /\ rx.peer = "there"
  /\ rx' = [rx EXCEPT !.peer = "closed"]
  /\ UNCHANGED <<written, wire, arrived, got, tx, excuse>>

\* The connection is reset, and what the kernel held for either side is gone.
Reset ==
  /\ tx.mySocket = "open" /\ rx.peer # "reset"
  /\ tx' = [tx EXCEPT !.kernel = <<>>]
  /\ rx' = [kernel |-> <<>>, peer |-> "reset"]
  /\ excuse' = excuse \cup (IF tx.kernel # <<>> THEN {"tx"} ELSE {})
                      \cup (IF rx.kernel # <<>> THEN {"rx"} ELSE {})
  /\ UNCHANGED <<written, wire, arrived, got>>

\* recv() of one byte.  No data, an error and the end of the connection all
\* read as -1, so only the first of them changes anything.
read ==
  /\ tx.mySocket = "open" /\ rx.kernel # <<>>
  /\ Returned(<<Head(rx.kernel)>>)
  /\ rx' = [rx EXCEPT !.kernel = Tail(@)]
  /\ UNCHANGED <<written, wire, arrived, tx, excuse>>

Next ==
  \/ init
  \/ \E length \in 1 .. MaxWrite : write(length)
  \/ KernelSends
  \/ Arrives
  \/ HangUp
  \/ Reset
  \/ read

\* Who takes which step.
Line == KernelSends
Reader == read

InTx == tx.kernel
InRx == rx.kernel
=============================================================================

----------------------------- MODULE PosixComms -----------------------------
(***************************************************************************)
(* EmbeddedLinuxHardware: elCommRead() and elCommWrite() on a non-blocking *)
(* descriptor.  The kernel takes between none and all of the bytes that    *)
(* write() offers, and an end of file is not an error.                     *)
(***************************************************************************)
EXTENDS Transport

CONSTANT KernelSize    \* what the descriptor's send buffer holds

\* A device file, or a host with or without a port number: the default, one
\* from the environment or one that the program gives the constructor.
PortNames == {"/dev", "host", "host:port"}

\* fd, portName, and the kernel's buffers; `sending' and totalsent belong to
\* elCommWrite(); `lost' when the line is gone: the device is unplugged or the
\* connection has been reset.
Init ==
  /\ EmptyLine
  /\ \E pn \in PortNames :
       tx = [fd |-> "new", portName |-> pn, lost |-> FALSE, kernel |-> <<>>,
             sending |-> <<>>, totalsent |-> 0]
  /\ rx = [kernel |-> <<>>, eof |-> FALSE]

\* What opening a port comes to.  A device that cannot be opened is -1.  For
\* a host every failure (socket, options, name, connection) ends the program;
\* the name in front of a port number is copied without its terminating zero,
\* so whether it resolves is open, too.
elCommInit(portName) == IF portName = "/dev" THEN {"open", "-1"} ELSE {"open", "exit"}

\* init() opens portName, init(pName) another; without a descriptor the
\* program ends.
init(pName) ==
  /\ tx.fd = "new"
  /\ \E fd \in elCommInit(pName) :
       tx' = [tx EXCEPT !.fd = IF fd = "open" THEN "open" ELSE "exit"]
  /\ UNCHANGED <<written, wire, arrived, got, rx, excuse>>

write(length) ==
  /\ tx.fd = "open" /\ tx.sending = <<>>
  /\ written + arrived + length <= MaxBytes
  /\ written' = written + length
  /\ tx' = [tx EXCEPT !.sending = Data(length), !.totalsent = 0]
  /\ UNCHANGED <<wire, arrived, got, rx, excuse>>

\* One pass of the loop that the kernel takes bytes in; one that meets a full
\* buffer changes nothing.  The request is always for `length' bytes from
\* data + totalsent on, so after a part was taken it reaches past the data;
\* what lies there is written here as 0.
elCommWrite ==
  /\ tx.sending # <<>> /\ ~tx.lost
  /\ \E rv \in 1 .. Len(tx.sending) :
       /\ rv <= KernelSize - Len(tx.kernel)
       /\ LET total == tx.totalsent + rv
              taken == [i \in 1 .. rv |-> IF tx.totalsent + i <= Len(tx.sending)
                                            THEN tx.sending[tx.totalsent + i] ELSE 0]
          IN  tx' = [tx EXCEPT !.kernel = @ \o taken,
                     !.sending = IF total < Len(@) THEN @ ELSE <<>>,
                     !.totalsent = IF total < Len(tx.sending) THEN total ELSE 0]
       /\ Excused("tx", tx.totalsent + rv > Len(tx.sending))
  /\ UNCHANGED <<written, wire, arrived, got, rx>>

\* The line is gone: every write() fails, and the loop is never left (EIO of a
\* device), or SIGPIPE ends the program (a connection).  What is being sent
\* stays here, and read() is not called again.
elCommWriteFails ==
  /\ tx.sending # <<>> /\ tx.lost
  /\ tx' = tx \/ tx' = [tx EXCEPT !.fd = "exit", !.sending = <<>>]
  /\ excuse' = excuse \cup {"tx", "rx"}
  /\ UNCHANGED <<written, wire, arrived, got, rx>>

KernelSends ==
  /\ tx.kernel # <<>>
  /\ Sent(<<Head(tx.kernel)>>)
  /\ tx' = [tx EXCEPT !.kernel = Tail(@)]
  /\ UNCHANGED <<written, arrived, got, rx, excuse>>

Arrives ==
  /\ tx.fd = "open" /\ ~rx.eof /\ ~tx.lost /\ written + arrived < MaxBytes
  /\ arrived' = arrived + 1
  /\ rx' = [rx EXCEPT !.kernel = Append(@, arrived + 1)]
  /\ UNCHANGED <<written, wire, got, tx, excuse>>

\* The server closes its end; what it sent before can be read.
HangUp ==
  /\ tx.fd = "open" /\ ~rx.eof
  /\ rx' = [rx EXCEPT !.eof = TRUE]
  /\ UNCHANGED <<written, wire, arrived, got, tx, excuse>>

\* What the kernel held for either side is gone with the line.
LineLost ==
  /\ tx.fd = "open" /\ ~tx.lost
  /\ tx' = [tx EXCEPT !.lost = TRUE, !.kernel = <<>>]
  /\ rx' = [rx EXCEPT !.kernel = <<>>]
  /\ excuse' = excuse \cup (IF tx.kernel # <<>> THEN {"tx"} ELSE {})
                      \cup (IF rx.kernel # <<>> THEN {"rx"} ELSE {})
  /\ UNCHANGED <<written, wire, arrived, got>>

\* At the end of file read() returns 0, which elCommRead() passes on: the
\* decoder takes it for a byte 0 of the line.
elCommRead ==
  /\ tx.fd = "open" /\ tx.sending = <<>>
  /\ rx.kernel # <<>> \/ rx.eof
  /\ Returned(IF rx.kernel # <<>> THEN <<Head(rx.kernel)>> ELSE <<0>>)
  /\ rx' = [rx EXCEPT !.kernel = IF @ # <<>> THEN Tail(@) ELSE @]
  /\ Excused("rx", rx.kernel = <<>>)
  /\ UNCHANGED <<written, wire, arrived, tx>>

Next ==
  \/ init(tx.portName)
  \/ \E pName \in PortNames : init(pName)
  \/ \E length \in 1 .. MaxWrite : write(length)
  \/ elCommWrite \/ elCommWriteFails
  \/ KernelSends
  \/ Arrives
  \/ HangUp \/ LineLost
  \/ elCommRead

\* Who takes which step.
Writer == elCommWrite \/ elCommWriteFails
Line == KernelSends
Reader == elCommRead

InTx == tx.kernel \o SubSeq(tx.sending, tx.totalsent + 1, Len(tx.sending))
InRx == rx.kernel
=============================================================================

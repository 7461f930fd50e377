--------------------------- MODULE StreamHardware ---------------------------
(***************************************************************************)
(* The classes that hand their bytes to a serial driver of the board's     *)
(* own library: ArduinoHardware, TivaCHardware for Energia,                *)
(* ChibiOSHardware and CortexHardware.  The driver's write() waits for     *)
(* room in its buffer; its interrupt drops a received byte that finds the  *)
(* buffer full.                                                            *)
(***************************************************************************)
EXTENDS Transport

Ports == {"Serial", "Serial1"}

\* A program constructs one of the classes: on the default port, on a port
\* of its choice (Arduino, Energia) or as a copy of another object.  The
\* Energia class copies its own uninitialised pointer onto itself; ChibiOS
\* has no port until setPort(); on the Cortex the port is stdin/stdout, and
\* for ChibiOS and Cortex the system opens the ports before the program runs.
Constructed(class) ==
  CASE class = "Arduino" -> Ports
    [] class = "Energia" -> Ports \cup {"indeterminate"}
    [] class = "ChibiOS" -> {"nullptr"}
    [] class = "Cortex"  -> {"stdio"}

Init ==
  /\ EmptyLine
  /\ \E class \in {"Arduino", "Energia", "ChibiOS", "Cortex"} :
       \E io \in Constructed(class) :
         tx = [class |-> class, iostream |-> io, initialised |-> FALSE,
               begun |-> IF class \in {"Arduino", "Energia"} THEN {} ELSE Ports \cup {"stdio"},
               data |-> <<>>, ring |-> <<>>]
  /\ rx = <<>>

\* Arduino and ChibiOS can change the port at any time.  A port that init()
\* has not seen is not begun, and what the old one holds stays there.
setPort(io) ==
  /\ tx.class \in {"Arduino", "ChibiOS"}
  /\ tx.data = <<>> /\ io # tx.iostream
  /\ tx' = [tx EXCEPT !.iostream = io, !.ring = <<>>]
  /\ rx' = <<>>
  /\ excuse' = IF tx.initialised THEN {"tx", "rx"} ELSE excuse
  /\ UNCHANGED <<written, wire, arrived, got>>

\* begin() of the port, an empty function for ChibiOS and Cortex.
init ==
  /\ ~tx.initialised
  /\ tx.class = "ChibiOS" => tx.iostream # "nullptr"
  /\ tx' = [tx EXCEPT !.initialised = TRUE, !.begun = @ \cup ({tx.iostream} \cap Ports)]
  /\ excuse' = IF tx.iostream \in tx'.begun THEN excuse ELSE {"tx", "rx"}
  /\ UNCHANGED <<written, wire, arrived, got, rx>>

write(length) ==
  /\ tx.initialised /\ tx.data = <<>>
  /\ written + arrived + length <= MaxBytes
  /\ written' = written + length
  /\ tx' = [tx EXCEPT !.data = Data(length)]
  /\ UNCHANGED <<wire, arrived, got, rx, excuse>>

\* The driver takes one byte of the write(); a port that was not begun
\* swallows it.
PutByte ==
  /\ tx.data # <<>> /\ Len(tx.ring) < RingSize
  /\ tx' = [tx EXCEPT !.data = Tail(@),
                      !.ring = IF tx.iostream \in tx.begun
                                 THEN Append(@, Head(tx.data)) ELSE @]
  /\ UNCHANGED <<written, wire, arrived, got, rx, excuse>>

PortSends ==
  /\ tx.ring # <<>>
  /\ Sent(<<Head(tx.ring)>>)
  /\ tx' = [tx EXCEPT !.ring = Tail(@)]
  /\ UNCHANGED <<written, arrived, got, rx, excuse>>

\* The driver's receive interrupt.
PortReceives ==
  /\ tx.initialised /\ tx.iostream \in tx.begun
  /\ written + arrived < MaxBytes
  /\ arrived' = arrived + 1
  /\ rx' = IF Len(rx) < RingSize THEN Append(rx, arrived + 1) ELSE rx
  /\ Excused("rx", Len(rx) = RingSize)
  /\ UNCHANGED <<written, wire, got, tx>>

\* -1 without data.
read ==
  /\ rx # <<>> /\ tx.data = <<>>
  /\ Returned(<<Head(rx)>>)
  /\ rx' = Tail(rx)
  /\ UNCHANGED <<written, wire, arrived, tx, excuse>>

Next ==
  \/ \E io \in Ports : setPort(io)
  \/ init
  \/ \E length \in 1 .. MaxWrite : write(length)
  \/ PutByte
  \/ PortSends
  \/ PortReceives
  \/ read

\* Who takes which step.
Writer == PutByte
Line == PortSends
Reader == read

InTx == tx.ring \o tx.data
InRx == rx
=============================================================================

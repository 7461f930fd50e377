----------------------------- MODULE Transports -----------------------------
(***************************************************************************)
(* The boards side by side: a behaviour is one board at work on its two    *)
(* lines.  A new behaviour is drawn for each board.                        *)
(***************************************************************************)
EXTENDS Transport, FiniteSets

CONSTANTS FifoSize, KernelSize

ASSUME HardwareSizes == FifoSize \in Nat \ {0} /\ KernelSize \in Nat \ {0}

VARIABLE board

allVars == <<vars, board>>

Stm32 == INSTANCE Stm32Hardware
Tiva  == INSTANCE TivaHardware
Mbed  == INSTANCE MbedHardware
V5    == INSTANCE V5Hardware
Posix == INSTANCE PosixComms
Win   == INSTANCE WindowsSocket
Usb   == INSTANCE TivaUsb
Tcp   == INSTANCE TcpHardware
Port  == INSTANCE StreamHardware

Init ==
  \/ board = "stm32" /\ Stm32!Init
  \/ board = "tiva"  /\ Tiva!Init
  \/ board = "mbed"  /\ Mbed!Init
  \/ board = "v5"    /\ V5!Init
  \/ board = "posix" /\ Posix!Init
  \/ board = "win"   /\ Win!Init
  \/ board = "usb"   /\ Usb!Init
  \/ board = "tcp"   /\ Tcp!Init
  \/ board = "port"  /\ Port!Init

Next ==
  /\ UNCHANGED board
  /\ \/ board = "stm32" /\ Stm32!Next
     \/ board = "tiva"  /\ Tiva!Next
     \/ board = "mbed"  /\ Mbed!Next
     \/ board = "v5"    /\ V5!Next
     \/ board = "posix" /\ Posix!Next
     \/ board = "win"   /\ Win!Next
     \/ board = "usb"   /\ Usb!Next
     \/ board = "tcp"   /\ Tcp!Next
     \/ board = "port"  /\ Port!Next

Writer ==
  \/ board = "tiva"  /\ Tiva!Writer /\ UNCHANGED board
  \/ board = "mbed"  /\ Mbed!Writer /\ UNCHANGED board
  \/ board = "posix" /\ Posix!Writer /\ UNCHANGED board
  \/ board = "port"  /\ Port!Writer /\ UNCHANGED board
Line ==
  \/ board = "stm32" /\ Stm32!Line /\ UNCHANGED board
  \/ board = "tiva"  /\ Tiva!Line /\ UNCHANGED board
  \/ board = "mbed"  /\ Mbed!Line /\ UNCHANGED board
  \/ board = "posix" /\ Posix!Line /\ UNCHANGED board
  \/ board = "win"   /\ Win!Line /\ UNCHANGED board
  \/ board = "usb"   /\ Usb!Line /\ UNCHANGED board
  \/ board = "tcp"   /\ Tcp!Line /\ UNCHANGED board
  \/ board = "port"  /\ Port!Line /\ UNCHANGED board
Interrupt ==
  \/ board = "stm32" /\ Stm32!Interrupt /\ UNCHANGED board
  \/ board = "tiva"  /\ Tiva!Interrupt /\ UNCHANGED board
  \/ board = "mbed"  /\ Mbed!Interrupt /\ UNCHANGED board
  \/ board = "v5"    /\ V5!Interrupt /\ UNCHANGED board
Reader ==
  \/ board = "stm32" /\ Stm32!Reader /\ UNCHANGED board
  \/ board = "tiva"  /\ Tiva!Reader /\ UNCHANGED board
  \/ board = "mbed"  /\ Mbed!Reader /\ UNCHANGED board
  \/ board = "v5"    /\ V5!Reader /\ UNCHANGED board
  \/ board = "posix" /\ Posix!Reader /\ UNCHANGED board
  \/ board = "win"   /\ Win!Reader /\ UNCHANGED board
  \/ board = "usb"   /\ Usb!Reader /\ UNCHANGED board
  \/ board = "tcp"   /\ Tcp!Reader /\ UNCHANGED board
  \/ board = "port"  /\ Port!Reader /\ UNCHANGED board

\* The line, interrupts and tasks are not held up for ever; a program that
\* has entered write() goes on, and its loop() goes on calling spinOnce().
Fairness ==
  /\ WF_allVars(Writer) /\ WF_allVars(Line)
  /\ WF_allVars(Interrupt) /\ WF_allVars(Reader)

Spec == Init /\ [][Next]_allVars /\ Fairness

-----------------------------------------------------------------------------
InTx ==
  CASE board = "stm32" -> Stm32!InTx
    [] board = "tiva"  -> Tiva!InTx
    [] board = "mbed"  -> Mbed!InTx
    [] board = "v5"    -> V5!InTx
    [] board = "posix" -> Posix!InTx
    [] board = "win"   -> Win!InTx
    [] board = "usb"   -> Usb!InTx
    [] board = "tcp"   -> Tcp!InTx
    [] board = "port"  -> Port!InTx
InRx ==
  CASE board = "stm32" -> Stm32!InRx
    [] board = "tiva"  -> Tiva!InRx
    [] board = "mbed"  -> Mbed!InRx
    [] board = "v5"    -> V5!InRx
    [] board = "posix" -> Posix!InRx
    [] board = "win"   -> Win!InRx
    [] board = "usb"   -> Usb!InRx
    [] board = "tcp"   -> Tcp!InRx
    [] board = "port"  -> Port!InRx

\* Every byte given to write() is on the line or still in the board, once,
\* and in order, unless one of the named events has happened: the ring was
\* overfilled (all; an exactly full STM32 ring counts as an empty one), two
\* transmit interrupts within one write() (Tiva), an interrupt between the
\* two stores of _wloc (mbed), a request past the data (posix), a send() that
\* took less than all (Windows, Arduino over TCP, USB), a host that connects
\* while bytes are waiting (USB), a line lost with bytes under way or a write
\* after it (posix, Windows, Arduino over TCP), a port changed after init() or
\* never set up (serial drivers).  The same for the bytes that read() returns:
\* nothing but an overfilled buffer, tasks meeting inside add() and pull() (V5),
\* an end of file that is read as a byte (posix), a socket that write() closed
\* because of a full send buffer or a reset connection (Windows), a program that
\* a write to a lost line ended or keeps in its loop (posix), or the last three
\* of the list damages the stream.
StreamsIntact ==
  /\ "tx" \notin excuse => wire \o InTx = Numbered(written)
  /\ "rx" \notin excuse => got \o InRx = Numbered(arrived)

\* What write() accepted leaves the board without a further call, and what
\* arrived is read.  The STM32 is exempt for sending: flush() is called by
\* write() only, so bytes behind the end of the ring, or written while a
\* transfer was under way, wait for the next write().  A USB device sends
\* only while a host is there.  A board is excused as above: what a lost line
\* or a closed socket never takes counts as damage to the stream, and so do
\* the bytes that elCommWrite() offers for ever.
StreamsDrain ==
  /\ <>[](\/ "tx" \in excuse \/ wire = Numbered(written)
          \/ board = "stm32" \/ (board = "usb" /\ Usb!Unplugged))
  /\ <>[]("rx" \in excuse \/ got = Numbered(arrived))
=============================================================================

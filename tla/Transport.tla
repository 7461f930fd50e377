----------------------------- MODULE Transport -----------------------------
(***************************************************************************)
(* What every board class of rosserial offers NodeHandle: read(), one byte *)
(* or -1, and write(data, length).  The bytes of each direction are        *)
(* numbered in the order in which they enter it, so a stream is intact     *)
(* when it reads 1, 2, 3, ...                                              *)
(*                                                                         *)
(* tx and rx are the board's own state.  `excuse' records the events after *)
(* which a board no longer keeps its streams intact; what the boards       *)
(* promise is that nothing else damages them.                              *)
(***************************************************************************)
EXTENDS Naturals, Sequences

CONSTANTS RingSize,    \* length of the board's buffers
          MaxBytes,    \* bound: bytes of both directions together
          MaxWrite     \* bound: bytes of one write()

\* Every buffer has room for more than one byte.
ASSUME TransportSizes ==
  RingSize \in Nat \ {0, 1} /\ MaxBytes \in Nat /\ MaxWrite \in Nat

VARIABLES written,     \* bytes handed to write()
          wire,        \* bytes that left the board
          arrived,     \* bytes that reached the board
          got,         \* bytes that read() returned
          tx, rx,      \* state of the board class
          excuse

vars == <<written, wire, arrived, got, tx, rx, excuse>>

Numbered(n) == [i \in 1 .. n |-> i]

\* The bytes of a write() of n bytes.
Data(n) == [i \in 1 .. n |-> written + i]

EmptyLine ==
  /\ written = 0 /\ arrived = 0
  /\ wire = <<>> /\ got = <<>>
  /\ excuse = {}

\* The streams are recorded until there is an excuse for them.
Sent(bytes) == wire' = IF "tx" \in excuse THEN wire ELSE wire \o bytes
Returned(bytes) == got' = IF "rx" \in excuse THEN got ELSE got \o bytes
Excused(why, cond) == excuse' = IF cond THEN excuse \cup {why} ELSE excuse
=============================================================================

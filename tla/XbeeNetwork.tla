---------------------------- MODULE XbeeNetwork ----------------------------
(***************************************************************************)
(* xbee_network.py: one serial port with an XBee radio in API mode carries *)
(* the streams of several devices.  Every device has a FakeSerial port and *)
(* a SerialClient thread (module SerialClient); the main thread takes the  *)
(* radio's frames apart and hands the data to the ports.  APIFrame and     *)
(* XBee (frame.py, base.py, ieee.py) are the codec of the radio.           *)
(*                                                                         *)
(* The two directions share nothing, so a behaviour has traffic in one.    *)
(***************************************************************************)
EXTENDS Integers, Sequences, FiniteSets, SequencesExt

CONSTANTS
  Nodes,         \* network_ids: addresses of two bytes
  Traffic,       \* what devices send: records [src, data]
  Reports,       \* data of the radio's other frames
  Chunks,        \* what SerialClients write
  Noise,         \* what a damaged byte may become
  PortRoom,      \* what the serial port takes of a write when not all of it
  MaxFrames,     \* bound: frames of the radio
  MaxSent,       \* bound: writes of SerialClients
  MaxDamaged     \* bound: bytes damaged

Octets == Seq(0 .. 255)

\* Addresses are two bytes; what is sent fits the signed 16 bits of a length.
ASSUME NodesAssumption == Nodes \subseteq {s \in Octets : Len(s) = 2}
ASSUME PayloadAssumption ==
  /\ \A m \in Traffic : m.src \in Octets /\ Len(m.src) = 2 /\ m.data \in Octets
                        /\ m.data # << >> /\ Len(m.data) + 5 < 32768
  /\ \A data \in Chunks : data \in Octets /\ Len(data) + 5 < 32768
ASSUME BoundsAssumption == PortRoom \in Nat /\ {MaxFrames, MaxSent, MaxDamaged} \subseteq Nat

VARIABLE xb

START_BYTE == 126
ESCAPE_BYTE == 125
ESCAPE_BYTES == {START_BYTE, ESCAPE_BYTE, 17, 19}

Xor20(byte) == IF (byte \div 32) % 2 = 0 THEN byte + 32 ELSE byte - 32
\* The sum of the bytes, which the loop adds up one by one.
totals(data) ==
  LET total[i \in 0 .. Len(data)] == IF i = 0 THEN 0 ELSE total[i - 1] + data[i] IN total
Total(data) == totals(data)[Len(data)]

---------------------------------------------------------------------------
(* APIFrame, in escaped mode. *)

checksum(data) == 255 - (Total(data) % 256)
verify(data, chksum) == (Total(data) + chksum) % 256 = 255

len_bytes(data) == <<Len(data) \div 256, Len(data) % 256>>

Escaped(byte) == IF byte \in ESCAPE_BYTES THEN <<ESCAPE_BYTE, Xor20(byte)>> ELSE <<byte>>

\* The loop, by what it adds from each byte on.
escaping(data) ==
  LET rest[i \in 1 .. Len(data) + 1] == IF i > Len(data) THEN << >> ELSE Escaped(data[i]) \o rest[i + 1]
  IN  rest
escape(data) == escaping(data)[1]

\* Mutant: the checksum is sent as it is.
output_bareChecksum(data) ==
  <<START_BYTE>> \o escape(len_bytes(data) \o data) \o <<checksum(data)>>

output(data) ==
  <<START_BYTE>> \o escape(len_bytes(data) \o data \o <<checksum(data)>>)

\* The frame being filled; raw starts with the start byte.
NewFrame == [mode |-> 0, raw |-> << >>, unescape |-> FALSE]

fill(f, byte) ==
  IF f.unescape THEN [f EXCEPT !.raw = Append(@, Xor20(byte)), !.unescape = FALSE]
  ELSE IF byte = ESCAPE_BYTE THEN [f EXCEPT !.unescape = TRUE]
  ELSE [f EXCEPT !.raw = Append(@, byte)]

\* The length is a signed number of 16 bits.
data_len(f) ==
  LET n == 256 * f.raw[2] + f.raw[3] IN IF n < 32768 THEN n ELSE n - 65536

remaining_bytes(f) ==
  (IF Len(f.raw) >= 3 THEN 3 + data_len(f) + 1 ELSE 3) - Len(f.raw)

Payload(f) == SubSeq(f.raw, 4, 3 + Max({data_len(f), 0}))

\* One turn of _wait_for_frame(): the frame so far, and whether it returns.
_wait_for_frame(f, byte) ==
  LET g == fill([f EXCEPT !.mode = 1], byte)
      whole == remaining_bytes(g) <= 0
      valid == whole /\ verify(Payload(g), Last(g.raw))
  IN  IF f.mode = 0 /\ byte # START_BYTE THEN [frame |-> f, returns |-> FALSE]
      ELSE [frame |-> IF whole /\ ~valid THEN NewFrame ELSE g, returns |-> valid]

---------------------------------------------------------------------------
(* XBee: the commands and responses of the IEEE 802.15.4 modules. *)

\* api_commands["tx"], in the order of its fields, with what write() gives.
_build_command(dest_addr, data) == <<1, 48>> \o dest_addr \o <<1>> \o data

Response(lens, rest, samples) == [lens |-> lens, rest |-> rest, samples |-> samples]

\* The lengths of the fields, whether the rest of the packet is a field too,
\* and whether that is parsed as samples.
api_responses(id) ==
  CASE id = 128 -> Response(<<8, 1, 1>>, TRUE, FALSE)
    [] id = 129 -> Response(<<2, 1, 1>>, TRUE, FALSE)
    [] id = 130 -> Response(<<8, 1, 1>>, TRUE, TRUE)
    [] id = 131 -> Response(<<2, 1, 1>>, TRUE, TRUE)
    [] id = 136 -> Response(<<1, 2, 1>>, TRUE, FALSE)
    [] id = 137 -> Response(<<1, 1>>, FALSE, FALSE)
    [] id = 138 -> Response(<<1>>, FALSE, FALSE)
    [] id = 151 -> Response(<<1, 8, 2, 2, 1>>, TRUE, FALSE)
Known == {128, 129, 130, 131, 136, 137, 138, 151}

Bits(n, width) == {i \in 0 .. width - 1 : (n \div 2 ^ i) % 2 = 1}

\* The bytes that the samples take: two for the digital channels together and
\* two for each analog one.
_parse_samples_header(io) ==
  LET dio == Bits(256 * io[2] + io[3], 9)
      aio == Bits(io[2] \div 2, 7)
  IN  io[1] * ((IF dio # {} THEN 2 ELSE 0) + 2 * Cardinality(aio))

\* What the samples say is not used; an index out of range is raised.
_parse_samples(io) == Len(io) >= 3 /\ Len(io) - 3 >= _parse_samples_header(io)

\* Whether it returns, rather than raise IndexError, KeyError or ValueError.
_split_response(data) ==
  /\ data # << >> /\ data[1] \in Known
  /\ LET r == api_responses(data[1])
         index == 1 + Total(r.lens)
     IN  /\ index <= Len(data)
         /\ r.rest \/ index = Len(data)
         /\ r.samples => _parse_samples(SubSeq(data, index + 1, Len(data)))

\* The radio's other frames are such as api_responses knows, and if one of them
\* is a reception, it has data.
ASSUME ReportsAssumption ==
  \A data \in Reports :
    /\ data \in Octets /\ Len(data) < 32768
    /\ _split_response(data) /\ (data[1] = 129 => Len(data) > 5)

---------------------------------------------------------------------------
(* The program. *)

XbeeInit ==
  xb \in [way : {"rx", "tx"}, line : {<< >>}, frames : {0}, damaged : {0}, frame : {NewFrame},
          pc : {"wait"}, put : {<< >>}, loaded : {<< >>},
          sent : {[n \in Nodes |-> << >>]}, rxdata : {[n \in Nodes |-> << >>]},
          got : {[n \in Nodes |-> << >>]}, flushed : {{}},
          writing : {[n \in Nodes |-> << >>]},
          asked : {<< >>}, took : {<< >>}, overlap : {FALSE}]

\* The radio sends a frame to the computer.
RadioSends(data) ==
  /\ xb.way = "rx" /\ xb.line = << >> /\ xb.frames < MaxFrames
  /\ LET src == SubSeq(data, 2, 3)
         all == xb.sent[src] \o SubSeq(data, 6, Len(data))
     IN  xb' = [xb EXCEPT !.line = output(data), !.frames = @ + 1,
                  !.sent = IF data[1] = 129 /\ src \in Nodes THEN [@ EXCEPT ![src] = all] ELSE @]

\* The main thread reads a byte.  A frame that _split_response() refuses, or an
\* "rx" without data, raises what nobody catches: the thread is dead.  Data of
\* an unknown source is dropped ("Rcv ID corrupted").
ReadsByte(byte) ==
  LET r == _wait_for_frame(xb.frame, byte)
      data == Payload(r.frame)
      rx == data[1] = 129
      rf_data == SubSeq(data, 6, Len(data))
      src == SubSeq(data, 2, 3)
      state == [xb EXCEPT !.line = Tail(@), !.frame = IF r.returns THEN NewFrame ELSE r.frame]
  IN  IF ~r.returns THEN state
      ELSE IF ~_split_response(data) \/ (rx /\ rf_data = << >>) THEN [state EXCEPT !.pc = "dead"]
      ELSE IF ~rx \/ src \notin Nodes THEN state
      ELSE [state EXCEPT !.pc = "put", !.put = <<src, rf_data>>, !.loaded = xb.rxdata[src]]

wait_read_frame == xb.pc = "wait" /\ xb.line # << >> /\ xb' = ReadsByte(Head(xb.line))

Damage(byte) ==
  /\ xb.pc = "wait" /\ xb.line # << >> /\ byte # Head(xb.line) /\ xb.damaged < MaxDamaged
  /\ xb' = [ReadsByte(byte) EXCEPT !.damaged = @ + 1]

\* putData() has read rxdata above, and stores it with the data behind it.
putData ==
  /\ xb.pc = "put"
  /\ xb' = [xb EXCEPT !.rxdata[xb.put[1]] = xb.loaded \o xb.put[2],
                      !.pc = "wait", !.put = << >>, !.loaded = << >>]

Locked(n) == xb.pc = "put" /\ xb.put[1] = n

\* FakeSerial.read(): all of size or, after the time limit, nothing.
read(n, size) ==
  /\ ~Locked(n) /\ Len(xb.rxdata[n]) >= size
  /\ xb' = [xb EXCEPT !.got[n] = @ \o SubSeq(xb.rxdata[n], 1, size),
                      !.rxdata[n] = SubSeq(@, size + 1, Len(@))]

\* FakeSerial.flushInput() does not take the lock.
flushInput(n) ==
  /\ xb.rxdata[n] # << >>
  /\ xb' = [xb EXCEPT !.rxdata[n] = << >>, !.flushed = @ \cup {n}]

\* FakeSerial.write(): XBee.send(), up to the call of serial.write().
write(n, data) ==
  /\ xb.way = "tx" /\ xb.writing[n] = << >> /\ Len(xb.asked) < MaxSent
  /\ xb' = [xb EXCEPT !.writing[n] = output(_build_command(n, data)),
                      !.overlap = @ \/ \E m \in Nodes : xb.writing[m] # << >>,
                      !.asked = Append(@, <<n, data>>)]

\* The radio, which takes frames apart as APIFrame does, is ready with each
\* command when its last byte is there.
RadioTakes(acc, byte) ==
  LET r == _wait_for_frame(acc.frame, byte)
      data == Payload(r.frame)
  IN  IF ~r.returns THEN [frame |-> r.frame, took |-> acc.took]
      ELSE [frame |-> NewFrame, took |-> IF Len(data) < 5 THEN acc.took
              ELSE Append(acc.took, <<SubSeq(data, 3, 4), SubSeq(data, 6, Len(data))>>)]

taking(frame, took, bytes) ==
  LET radio[i \in 0 .. Len(bytes)] ==
        IF i = 0 THEN [frame |-> frame, took |-> took] ELSE RadioTakes(radio[i - 1], bytes[i])
  IN  radio

\* serial.write() gets some of its bytes out; no lock keeps other threads off
\* the port meanwhile.
serial_write(n, k) ==
  LET radio == taking(xb.frame, xb.took, xb.writing[n])[k]
  IN  /\ xb.writing[n] # << >>
      /\ xb' = [xb EXCEPT !.writing[n] = SubSeq(@, k + 1, Len(@)),
                          !.frame = radio.frame, !.took = radio.took]

XbeeNext ==
  \/ \E m \in Traffic : RadioSends(<<129>> \o m.src \o <<40, 0>> \o m.data)
  \/ \E data \in Reports : RadioSends(data)
  \/ wait_read_frame
  \/ \E byte \in Noise : Damage(byte)
  \/ putData
  \/ \E n \in Nodes :
       \/ \E size \in 1 .. 2 : read(n, size)
       \/ flushInput(n)
       \/ \E data \in Chunks : write(n, data)
       \/ \E k \in {PortRoom, Len(xb.writing[n])} :
            k <= Len(xb.writing[n]) /\ serial_write(n, k)

---------------------------------------------------------------------------
\* On its way from the radio to port n.
UnderWay(n) == IF Locked(n) THEN xb.put[2] ELSE << >>

\* s is what is left of t when some elements are taken out.
InOrder(s, t) ==
  \E f \in [DOMAIN s -> DOMAIN t] :
    /\ \A i, j \in DOMAIN s : i < j => f[i] < f[j]
    /\ \A i \in DOMAIN s : s[i] = t[f[i]]

(* Whatever bytes the streams hold, what a SerialClient has read and can    *)
(* read is what its device sent, in order, when no frame is half received;  *)
(* flushInput(), also in the middle of putData(), loses bytes but repeats   *)
(* none and lets none of another device in.  The main thread survives every *)
(* frame of the radio.  A command reaches the radio as it was meant unless  *)
(* two threads were in serial.write() at once.                              *)
XbeeStreamsKept ==
  /\ xb.damaged = 0 =>
       /\ xb.pc # "dead"
       /\ \A n \in Nodes :
            LET seen == xb.got[n] \o xb.rxdata[n] \o UnderWay(n)
            IN  /\ n \notin xb.flushed /\ xb.line = << >> => seen = xb.sent[n]
                /\ ~Locked(n) => InOrder(seen, xb.sent[n])
  /\ ~xb.overlap =>
       /\ IsPrefix(xb.took, xb.asked)
       /\ (\A n \in Nodes : xb.writing[n] = << >>) => xb.took = xb.asked
============================================================================

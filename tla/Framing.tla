------------------------------ MODULE Framing ------------------------------
(***************************************************************************)
(* The frames of the rosserial protocol, byte by byte:                     *)
(*                                                                         *)
(*   0xff 0xfe  length (2)  checksum of length  topic id (2)  payload      *)
(*   checksum of topic id and payload                                      *)
(*                                                                         *)
(* They are written by write_message() of the server (session.h) and by    *)
(* publish() of the device (ros/node_handle.h), and read by the server     *)
(* with four chained reads of 1, 1, 5 and length + 1 bytes, and by the     *)
(* device with the byte-wise state machine of spinOnce().                  *)
(*                                                                         *)
(* Frames travel over a line on which bytes can be damaged.  Both readers  *)
(* listen to it, so that every frame and every damage is tried on both.    *)
(***************************************************************************)
EXTENDS SimpleCdr, SequencesExt

CONSTANTS
  Messages,      \* what is sent: records [topic, payload]
  MAX_SUBSCRIBERS, INPUT_SIZE, OUTPUT_SIZE,   \* parameters of NodeHandle_
  buffer_max,    \* size of the server's receive buffer
  MaxFrames,     \* bound: frames sent
  MaxDamage      \* bound: bytes damaged, lost or late

Byte == 0 .. 255
Words == 256 * 256     \* how many values 16 bits have
Word == 0 .. Words - 1
SYNC == 255
PROTOCOL_VER == 254

ASSUME MessagesAssumption == Messages \subseteq [topic : Word, payload : Seq(Byte)]
ASSUME SizesAssumption ==
  {MAX_SUBSCRIBERS, INPUT_SIZE, OUTPUT_SIZE, buffer_max, MaxFrames, MaxDamage} \subseteq Nat

\* What both readers take: the payload fits the receive buffers of both ends,
\* the length of the frame 16 bits, and the device knows the topic.  (A longer
\* payload ends the server's session, and runs over the device's message_in.)
ASSUME MessagesFit ==
  \A m \in Messages :
    /\ m.topic < MAX_SUBSCRIBERS + 100
    /\ Len(m.payload) <= INPUT_SIZE
    /\ Len(m.payload) + 1 <= buffer_max
    /\ Len(m.payload) + 8 < Words

VARIABLES
  line,       \* the bytes of the frame being sent
  sent,       \* the messages sent
  server,     \* the server's reader
  device,     \* the device's reader
  damage,     \* what happened to bytes: garbled, lost, slow
  disturbed,  \* a byte was garbled, lost or late, and no pause came since
  since       \* the messages sent while that is not so

history == <<disturbed, since>>
framingVars == <<line, sent, server, device, damage, history>>

lo(v) == v % 256
hi(v) == v \div 256
\* checksum(): the loop adds byte after byte.
sums(s) == LET total[i \in 0 .. Len(s)] == IF i = 0 THEN 0 ELSE total[i - 1] + s[i] IN total
sum(s) == sums(s)[Len(s)]

-----------------------------------------------------------------------------
(* The two writers. *)

\* checksum(uint16_t)
checksum16(v) == (hi(v) + v) % 256

\* write_message(): a buffer for the payload and eight bytes, whose length is
\* computed in 16 bits, filled by SimpleCdr.
write_message(m) ==
  LET size == Len(m.payload)
      stream == SimpleCdr([i \in 1 .. (8 + size) % Words |-> 0])
      header == write_uint16(write_uint16(stream, SYNC + 256 * PROTOCOL_VER), size)
      routed == write_uint16(write_uint8(header, 255 - checksum16(size)), m.topic)
      filled == write_uint8(write_vector(routed, m.payload),
                            255 - ((sum(m.payload) + checksum16(m.topic)) % 256))
  IN  getData(filled)

\* publish()
publish(m) ==
  LET l == Len(m.payload)
      body == <<lo(m.topic), hi(m.topic)>> \o m.payload IN
  <<SYNC, PROTOCOL_VER, lo(l), hi(l), 255 - ((lo(l) + hi(l)) % 256)>>
  \o body
  \o <<255 - (sum(body) % 256)>>

-----------------------------------------------------------------------------
(* The server's reader: it waits for `need' bytes and hands them to the    *)
(* handler `mode'.                                                         *)

awaiting(d, handler, need) == [d EXCEPT !.mode = handler, !.need = need, !.bytes = <<>>]
read_sync_header(d) == awaiting(d, "read_sync_first", 1)

read_sync_first(d, stream) ==
  IF read_uint8(stream).value = SYNC THEN awaiting(d, "read_sync_second", 1) ELSE read_sync_header(d)

read_sync_second(d, stream) ==
  IF read_uint8(stream).value = PROTOCOL_VER THEN awaiting(d, "read_id_length", 5) ELSE read_sync_header(d)

\* Mutant: the checksum of the length is not looked at.
read_id_length_unchecked(d, stream) ==
  LET length == read_uint16(stream)
      length_checksum == read_uint8(length.rest)
      topic_id == read_uint16(length_checksum.rest) IN
  IF length.value + 1 > buffer_max THEN read_sync_header(d)
  ELSE [awaiting(d, "read_body", length.value + 1) EXCEPT !.topic = topic_id.value]

\* A length that the receive buffer cannot hold ends the session, see module
\* Session; the next one starts with a new header.
read_id_length(d, stream) ==
  LET length == read_uint16(stream)
      length_checksum == read_uint8(length.rest)
      topic_id == read_uint16(length_checksum.rest) IN
  IF \/ length_checksum.value + checksum16(length.value) # 255
     \/ length.value + 1 > buffer_max
    THEN read_sync_header(d)
    ELSE [awaiting(d, "read_body", length.value + 1) EXCEPT !.topic = topic_id.value]

\* Mutant: the checksum byte is not taken off the message.
read_body_whole(d, stream) ==
  LET m == [topic |-> d.topic, payload |-> asSerializedMessage(stream)] IN
  IF (sum(getData(stream)) + checksum16(d.topic)) % 256 # 255 THEN read_sync_header(d)
  ELSE [read_sync_header(d) EXCEPT !.got = Append(@, m)]

\* The handler of the topic gets a stream without the checksum byte.
read_body(d, stream) ==
  LET msg_stream == SimpleCdr(SubSeq(getData(stream), 1, getLength(stream) - 1))
      m == [topic |-> d.topic, payload |-> asSerializedMessage(msg_stream)] IN
  IF (sum(getData(stream)) + checksum16(d.topic)) % 256 # 255 THEN read_sync_header(d)
  ELSE [read_sync_header(d) EXCEPT !.got = Append(@, m)]

ServerReads(d, byte) ==
  LET b == Append(d.bytes, byte) IN
  IF Len(b) < d.need THEN [d EXCEPT !.bytes = b]
  ELSE LET stream == SimpleCdr(b) IN
       CASE d.mode = "read_sync_first" -> read_sync_first(d, stream)
         [] d.mode = "read_sync_second" -> read_sync_second(d, stream)
         [] d.mode = "read_id_length" -> read_id_length(d, stream)
         [] d.mode = "read_body" -> read_body(d, stream)

-----------------------------------------------------------------------------
(* The device's reader: the loop of spinOnce(), for one byte.              *)

isTopicValid(t) == t < MAX_SUBSCRIBERS + 100

restart(d) == [d EXCEPT !.mode = "FIRST_FF"]

\* Mutant: the reader is set back only after a message it accepts.
MsgChecksum_staysWhenBad(d, data) ==
  IF (d.checksum + data) % 256 = 255
    THEN [restart(d) EXCEPT
            !.got = Append(@, [topic |-> d.topic, payload |-> d.message_in])]
    ELSE d

\* MODE_MSG_CHECKSUM
MsgChecksum(d, data) ==
  IF (d.checksum + data) % 256 = 255
    THEN [restart(d) EXCEPT
            !.got = Append(@, [topic |-> d.topic, payload |-> d.message_in])]
    ELSE restart(d)

\* MODE_TOPIC_H: an id that is not valid ends the frame at once.
TopicH(d, data) ==
  LET t == d.topic + 256 * data IN
  IF ~isTopicValid(t) THEN restart(d)
  ELSE [d EXCEPT !.topic = t, !.checksum = @ + data,
                 !.mode = IF d.bytes = 0 THEN "MSG_CHECKSUM" ELSE "MESSAGE"]

\* MODE_MESSAGE
Message(d, data) ==
  [d EXCEPT !.message_in = Append(@, data), !.bytes = @ - 1, !.checksum = @ + data,
            !.mode = IF d.bytes = 1 THEN "MSG_CHECKSUM" ELSE "MESSAGE"]

DeviceReads(d, data) ==
  CASE d.mode = "FIRST_FF" ->
         IF data = SYNC THEN [d EXCEPT !.mode = "PROTOCOL_VER"] ELSE d
    [] d.mode = "PROTOCOL_VER" ->
         IF data = PROTOCOL_VER THEN [d EXCEPT !.mode = "SIZE_L"] ELSE restart(d)
    [] d.mode = "SIZE_L" ->
         [d EXCEPT !.mode = "SIZE_H", !.bytes = data, !.message_in = <<>>, !.checksum = data]
    [] d.mode = "SIZE_H" ->
         [d EXCEPT !.mode = "SIZE_CHECKSUM", !.bytes = @ + 256 * data, !.checksum = @ + data]
    [] d.mode = "SIZE_CHECKSUM" ->
         IF (d.checksum + data) % 256 = 255 THEN [d EXCEPT !.mode = "TOPIC_L"] ELSE restart(d)
    [] d.mode = "TOPIC_L" ->
         [d EXCEPT !.mode = "TOPIC_H", !.topic = data, !.checksum = data]
    [] d.mode = "TOPIC_H" -> TopicH(d, data)
    [] d.mode = "MESSAGE" -> Message(d, data)
    [] d.mode = "MSG_CHECKSUM" -> MsgChecksum(d, data)

-----------------------------------------------------------------------------
FramingInit ==
  /\ line = <<>> /\ sent = <<>>
  /\ server = [mode |-> "read_sync_first", need |-> 1, bytes |-> <<>>, topic |-> 0,
               got |-> <<>>]
  /\ device = [mode |-> "FIRST_FF", bytes |-> 0, topic |-> 0, checksum |-> 0,
               message_in |-> <<>>, got |-> <<>>]
  /\ damage = <<>> /\ since = <<>> /\ disturbed = FALSE

\* Either end sends a message; the device only one that fits message_out.
Send(m) ==
  /\ line = <<>> /\ Len(sent) < MaxFrames
  /\ \/ line' = write_message(m)
     \/ Len(m.payload) + 7 < OUTPUT_SIZE /\ line' = publish(m)
  /\ sent' = Append(sent, m)
  /\ since' = IF disturbed THEN since ELSE Append(since, m)
  /\ UNCHANGED <<server, device, damage, disturbed>>

Arrives ==
  /\ line # <<>>
  /\ server' = ServerReads(server, Head(line))
  /\ device' = DeviceReads(device, Head(line))
  /\ line' = Tail(line)
  /\ UNCHANGED <<sent, damage, history>>

\* A byte arrives as another one.
Garbled(b) ==
  /\ line # <<>> /\ Len(damage) < MaxDamage /\ b # Head(line)
  /\ server' = ServerReads(server, b)
  /\ device' = DeviceReads(device, b)
  /\ line' = Tail(line)
  /\ damage' = Append(damage, "garbled") /\ disturbed' = TRUE /\ since' = <<>>
  /\ UNCHANGED sent

\* A byte does not arrive: a receive ring was full.
Lost ==
  /\ line # <<>> /\ Len(damage) < MaxDamage
  /\ line' = Tail(line)
  /\ damage' = Append(damage, "lost") /\ disturbed' = TRUE /\ since' = <<>>
  /\ UNCHANGED <<sent, server, device>>

\* A frame takes longer than SERIAL_MSG_TIMEOUT to arrive: spinOnce() gives it
\* up.  The server has no such limit.
Slow ==
  /\ line # <<>> /\ Len(damage) < MaxDamage /\ device.mode # "FIRST_FF"
  /\ device' = restart(device)
  /\ damage' = Append(damage, "slow") /\ disturbed' = TRUE /\ since' = <<>>
  /\ UNCHANGED <<line, sent, server>>

\* Mutant: the device does not look at the time.
Pause_ignored ==
  /\ line = <<>>
  /\ disturbed' = FALSE
  /\ UNCHANGED <<line, sent, server, device, damage, since>>

\* The line is idle for SERIAL_MSG_TIMEOUT: spinOnce() gives up a frame that
\* has begun.
Pause ==
  /\ line = <<>>
  /\ device' = restart(device)
  /\ disturbed' = FALSE
  /\ UNCHANGED <<line, sent, server, damage, since>>

FramingNext ==
  \/ \E m \in Messages : Send(m)
  \/ Arrives
  \/ \E b \in Byte : Garbled(b)
  \/ Lost
  \/ Slow
  \/ Pause

FramingSpec == FramingInit /\ [][FramingNext]_framingVars

-----------------------------------------------------------------------------
(* Properties. *)

\* s is t with any of its elements left out.
IsSubsequence(s, t) ==
  \E D \in SUBSET DOMAIN t :
    LET kept == SetToSortSeq(D, LAMBDA i, j : i < j) IN
    s = [i \in DOMAIN kept |-> t[kept[i]]]

suffered(kinds) == Range(damage) \cap kinds # {}

(* What one end writes the other reads: on an undamaged line both readers   *)
(* get every message, in order, whatever its bytes, and are then ready for  *)
(* the next one.  The server does not mind a frame that comes slowly.       *)
RoundTrip ==
  line = <<>> =>
    /\ ~suffered({"garbled", "lost"}) => server.got = sent /\ server.mode = "read_sync_first"
    /\ damage = <<>> => device.got = sent /\ device.mode = "FIRST_FF"

(* A garbled byte, wherever it is, never makes a reader take a message that *)
(* was not sent, or take one twice or out of order.  (A lost byte can: the  *)
(* checksum is a sum, so a payload that loses a 0xff and takes the 0xff of  *)
(* the next frame instead still adds up.  So could two garbled bytes that   *)
(* make up for each other, or a payload that holds a whole frame, whose     *)
(* own start is garbled: the messages and the damage of a run decide.)      *)
NothingForged ==
  ~suffered({"lost"}) =>
    IsSubsequence(server.got, sent) /\ IsSubsequence(device.got, sent)

(* After a pause, the device reads every frame, whatever came before: the   *)
(* time limit in spinOnce() brings it back to the start of a frame.         *)
PauseResyncs == line = <<>> /\ ~disturbed => IsSuffix(since, device.got)

\* No byte of the frame after the first is the sync byte.
NoSyncInside(m) == SYNC \notin Range(Tail(write_message(m)))

(* One garbled, lost or late byte costs at most two frames, if no byte of a *)
(* frame after the first is the sync byte.  (One that is can hide the start *)
(* of the next frame from a reader that is out of step, again and again;    *)
(* the server has no time limit to bring it back.  A message whose bytes,   *)
(* out of step, happen to check as a long frame would cost more.)           *)
LossBounded ==
  /\ Len(damage) <= 1 /\ line = <<>>
  /\ \A m \in Range(sent) : NoSyncInside(m)
  => Len(server.got) >= Len(sent) - 2 /\ Len(device.got) >= Len(sent) - 2
=============================================================================

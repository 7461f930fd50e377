# A TLA+ model of ros2serial

ros2serial bridges a microcontroller to ROS 2 over a serial line. A server
(`rosserial_server`, C++ on Boost.Asio and rclcpp) runs on the host; a client
library (`rosserial_stm32/ros_lib`) runs on the device. `pending/` holds the
ROS 1 packages that are still to be ported: an older server in Python and board
classes for a dozen transports. This directory models both ends, the line
between them and the packages under `pending/` that keep state, model-checks the
models with TLC, and proves with TLAPS that the safety properties of ten parts
hold for all values of the constants: the frames, the server's receive buffer, its
session, its service calls, the negotiation of topics, the time limits, the clock
and the serialisation buffer of the device, the board classes, and the Python
server.

Paths below are relative to `src/`; `S/` stands for
`rosserial_server/include/rosserial_server/`, `L/` for `rosserial_stm32/ros_lib/`.
`PROJECT.json` lists components, runs, mutants, findings, hazards and theorems,
and maps each definition to the lines it translates.

## 1. Inventory

| Component | State | Operations | Talks to |
|---|---|---|---|
| **AsyncReadBuffer** (`S/async_read_buffer.h`) | `mem_`, read and write index, `read_requested_bytes_`, a static counter of refusals | `read(n, callback)`, `callback(error, n)`, `callSuccessCallback()`, `reset()` | asked by Session; starts `async_read`; *posts* the client's callback with a pointer into `mem_` |
| **Session** (`S/session.h`) | `active_`, `callbacks_`, the maps of publishers, subscribers, services, `sync_timer_`, `unrecognised_topics_` | `start`, `stop`, `shutdown`, four chained read handlers, `write_message`, `attempt_sync`, `sync_timeout`, eight `setup_...` handlers, `handle_time` | one io thread takes all its handlers from the io_service queue |
| **SerialSession, TcpServer, UdpSocketSession** | the port or socket, a 2 s timer | `check_connection`, `attempt_connection`, `handle_accept` | start and stop the Session |
| **Topic handlers** (`S/topic_handlers.h`) | ServiceServer: `get_response_`, `response_buffer_`, topic id; ServiceClient: topic id | `service_callback` (polls), `response_handle`, `handle` (blocks), `Subscriber::handle` | two threads: the io thread and the executor in `rclcpp::spin()` |
| **Converters** (`S/services.h`) | one ROS service and one callback for each service *type* | `start_server`, `service_callback`, `start_client` | outlive sessions |
| **Message look-up** (`rosserial_server/src/msg_lookup.cpp`) | -- | split a type's name, find its description | topic handlers |
| **serialization.h, simplecdr.h** | a cursor over somebody else's buffer | write (checked), read | Session, ROS 1 code |
| **NodeHandle** (`L/ros/node_handle.h`) | mode of the byte decoder, `configured_`, tables of publishers and subscribers, clock | `spinOnce`, `publish`, `negotiateTopics`, `advertise`, `subscribe`, time synchronisation | the line; user callbacks, which may spin again |
| **Micro-CDR, cdr.h, generated messages** | buffer with a sticky error flag; one message object for each subscriber | serialise, deserialise | NodeHandle |
| **Time, Duration, AVR floats** | 32-bit seconds and nanoseconds; bits of a double | normalise, convert | NodeHandle, sketches |
| **Board classes** (STM32; `pending/`: Tiva UART and USB, mbed, VEX V5 and Cortex, Embedded Linux, Windows, Arduino serial and TCP, Energia, ChibiOS) | rings, interrupt masks, sockets | `read`, `write`, interrupt handlers, input tasks | NodeHandle above, driver or interrupt below |
| **rosserial_client** (`pending/`) | as NodeHandle, and `param_received`, `ret`, `waiting` | `call`, `requestParam`, `spinOnce` | the Python server |
| **rosserial_python** (`pending/`) | `callbacks`, `write_queue`, `synced`, `lastsync`, one response for each service | `run` (reading thread), `processWriteQueue` (writing thread), ROS callbacks, the restart loop | the device |
| **rosserial_xbee** (`pending/`) | `rxdata` of each FakeSerial, the frame being received | `putData`, `flushInput`, `read`, `send` | one radio for many devices |

**What is hard.** (a) *Queued handlers*: closing a port or cancelling a timer
does not take back a handler that is already queued, so handlers of one
connection run in the next. (b) *Deferred reads*: the posted callback reads the
buffer after the indexes have moved on. (c) *Two threads* wait for each other in
service calls, share a buffer without a lock, and one of them destroys objects
the other is using. (d) *A lossy line* on which the announcements of topics
travel as separate frames, nothing is acknowledged, and a reader that is out of
step takes parts of messages for frames. (e) *Re-entrance*: callbacks on the
device call services, which spin again, against a time that was read before. (f)
*Interrupts and tasks* that share rings and counters with `write()` and `read()`.
(g) *Limits*: the receive buffers at both ends, the output buffer, lengths in 16
bits, clocks of 32 bits or less, fixed tables. (h) *Reused storage*: one message
object, arrays that only grow, strings that point into the receive buffer.

## 2. Modules

| Module | Models | State and actions |
|---|---|---|
| `ByteStream` | what the read buffer promises (abstract) | the next position of the stream, and the runs of bytes handed over that the reader has not looked at; `Deliver`, `Consume`, `Discard`, and `Overtake`, which takes those runs back |
| `AsyncReadBuffer` (proofs in `ReceptionProofs`) | `AsyncReadBuffer`, cell by cell | every member is a variable; a byte is its position in the stream; one action for each path through `read()`, `callback()`, and the run of the oldest posted handler; `posted` is the queue of their views |
| `Session`, `SessionProofs` | `Session` over a serial port, UDP or TCP, on the io thread | `io`, a record of all the objects, with the io_service queue as a sequence; one `Run...` action for each handler, built from the methods it calls; environment actions for completions, failures, expiries, shutdown |
| `ServiceCalls`, `ServiceCallsProofs` | `ServiceServer`, `ServiceClient`, `Converter` on two threads | the ServiceServer known by the session that created it; the executor's place in `service_callback()`; the io thread blocked in `handle()`, or between the end of its wait and the removal of the request; responses that do not fit or are empty |
| `Negotiation`, `NegotiationProofs` | registration, the tables and their limits, the eight setup handlers, `negotiateTopics()`, `configured_`, the request for topics, the watchdog's restart | an endpoint of the device's tables stands for its topic id; frames in two FIFO links that lose frames |
| `SimpleCdr` | `simplecdr.h` | operators on a cursor |
| `Framing` (proofs in `ReceptionProofs`) | `write_message()`, `publish()`, the four read handlers, `spinOnce()`'s byte decoder | real bytes, lengths and checksums; both readers listen to one line on which bytes are garbled, lost or late |
| `NodeHandle`, `NodeHandleProofs` | `spinOnce()` in time, `ServiceClient::call()`, `setSpinTimeout()` | a stack of activations with their `c_time`; a clock modulo `Wrap`; frames of three bytes |
| `MicroCdr` (proofs in `DeviceLibraryProofs`) | `ucdr/` | one buffer over the memory of the program; one operator for each function, one action that makes any call |
| `CdrMessages` | `cdr.h`, the C++ that `make_libraries.py` generates, `publish()`, `Subscriber::callback()` | a message definition is a term; the subscriber's object with its allocations; `publish`, `callback` |
| `DeviceClock` (proofs in `DeviceLibraryProofs`) | `requestSyncTime()`, `syncTime()`, `setNow()`, `now()` and the boards' counters | true time, the counter, requests and answers under way |
| `TimeArithmetic` (proofs in `DeviceLibraryProofs`) | `ros::Time`, `ros::Duration` | a Time, a Duration and their exact values; one action for each operator |
| `AvrFloat64` | `serializeAvrFloat64()`, `deserializeAvrFloat64()` | a number and what became of it |
| `Ros1Serialization` | `serialization.h`, which no file of the repository includes | operators on types as terms, and the streams |
| `RosLibMessages` | the C++ that `make_library.py` generates, against the format of `Ros1Serialization` (the host is `rosserial_python`, whose message classes are external) | the device's message object with its allocations; `callback`, `publish`, and `handlePacket` of `SerialClient.py` |
| `MessageLookup` | `msg_lookup.cpp`, the keys of `services_map_` | names as sequences of words and separators; description files, one longer than the read buffer included |
| `RosLibNode` | `pending/rosserial_client`: NodeHandle_, ServiceClient, parameters | `dev`, at the level of frames, with a stack of the `call()`s and `requestParam()`s that spin |
| `SerialClient` (proofs in `PythonProofs`) | `pending/rosserial_python`; EXTENDS `RosLibNode`, so the two are composed | reading thread, writing thread, callers, restart loop; lossy links |
| `XbeeNetwork` (proofs in `PythonProofs`) | `pending/rosserial_xbee` | bytes of the radio's frames in both directions; ports and threads |
| `Transport` | what every board class offers | the numbered streams of both directions; `excuse` |
| `Stm32Hardware`, `TivaHardware`, `TivaUsb`, `MbedHardware`, `V5Hardware`, `PosixComms`, `WindowsSocket`, `TcpHardware`, `StreamHardware` | the board classes | rings, registers, sockets; one action for each step that an interrupt or a task can come between |
| `Transports`, `TransportsProofs` | the board classes side by side | `board` picks one |
| `Codecs` | the conversions side by side | `part` picks one |

`MC...` modules give constants their values; where numbers are enough, the
configuration has the name of the module itself (`Session.cfg`). A `...Proofs` module holds the
theorems about the modules it extends. `AsyncReadBuffer` lets its client call
`read()` at any time, also while callbacks are posted that have not run: the code
looks at `read_requested_bytes_` only, and that is cleared when a callback is
posted. `Session` does get there, when a session is stopped and started again with
a handler left in the queue. A `read()` that goes to the hardware then marks the
posted views as `overtaken`, and the properties speak of the others. `Session`
abstracts the buffer to units (the bytes one read consumes) and shows that the
request on record is that of the one transfer under way, until `read()` forgets a
request that is still being served (`OneRead`, part of `SessionInv`); that is the
point from which `AsyncReadBuffer` follows its behaviours no further
(`Abandoned`). `OneRead` is about transfers: it says nothing of posted handlers and
does not exclude overtaken views. `Negotiation` treats a damaged
frame as lost; `Framing` shows when that is right. `Negotiation` has no time
limits; `NodeHandle` shows when they strike.

Where a definition abstracts:

* `Session`: what a unit contains is chosen when the handler parses it, so all
  contents are covered. `abandoned` is history: the fourth refusal in a row
  forgot the request of a read that was still under way. The link (serial, UDP,
  TCP) is chosen in `Init`.
* `ServiceCalls`: a response is the number of the call it answers. A call that
  reaches a destroyed ServiceServer has no defined outcome; `undefined` records
  it. A response written while the executor copies the previous one gives
  either of the two, or pieces of both (`Torn`).
* `Negotiation`: `unanswered` counts the device's time requests instead of
  milliseconds. `Resynchronise` is the watchdog, `stop()`, the reconnection and
  `start()` in one step; `Session` has them apart.
* `Framing`: a length that the server's buffer cannot hold ends the session in
  the code; here the reader goes back to the start of a frame. `Slow` is a frame
  under way for longer than `SERIAL_MSG_TIMEOUT`, `Pause` an idle line. Messages fit
  the receive buffers of both ends, their frames 16 bits, and their topic is one the
  device has a slot for (`MessagesFit`): what a frame does that does not fit is in
  `Session` (`stop()`) and among the hazards. `NothingForged` and `LossBounded` are
  about the run's messages and damage; they do not hold of all (a payload may
  contain a whole frame), so no theorem states them.
* `NodeHandle`: the periodic request for the time is left out, since the host may
  send the time whenever it likes.
* `MicroCdr`: a value is the bytes the machine stores for it. No caller swaps
  bytes or installs `on_full_buffer`, so those branches are left out.
* `TimeArithmetic`, `DeviceClock`, `AvrFloat64`: widths are scaled down together;
  each module's header says which relations between them matter and are kept.
* Board classes: a byte is its place in the stream. The driver, the kernel, the
  DMA controller and TI's USB library are external.

Some code exists twice, word for word or nearly so, in `L/` and in `pending/`
(`time.cpp`, `duration.cpp`, `ros/msg.h`, the Arduino classes, registration). One
definition stands for both; the map names one copy for each definition, not
always the same one.

## 3. Properties and runs

| Run | Checks | Result |
|---|---|---|
| `read_buffer` | `BufferInv`, `UnreadBytesKept`, `PostedBytesIntact`, `ImplementsByteStream`, `WedgeEnds` | Bytes are handed over once and in order, through partial transfers, shifts, resets, refusals and failures; a callback finds them unaltered unless a `read()` has gone to the hardware before it ran; the counter of refusals ends the wedge an oversized request leaves. |
| `session` | `SessionInv`, `NeverDeaf`, `Reconnects`, `ShutdownEndsThread` | A stopped session is quiet, an active one is watched and never deaf; until four refusals in a row make read() forget a live request, no abort reaches a session that is active again; the server reconnects unless the node ends; the thread ends. |
| `service_calls` | `NoAnswerTwice`, `MismatchNeedsTimeout`, `NothingPending`, `WaitsEnd` | Answers are mixed up only after a timeout; nothing stays pending; the threads never wait for each other for ever. |
| `negotiation` | `SentToListeners`, `PublishersRouted`, `ServicesRecover` | Whichever frames are lost, with full tables and unknown types, the server addresses only ids the device listens on (or the unset id), published topics get their route back, and losing the subscriber half of a service heals. |
| `negotiation_requests` | `RequestsRouted` -- **violated** | Losing the publisher half of a service client never heals by negotiating again. |
| `framing` | `RoundTrip`, `NothingForged`, `PauseResyncs`, `LossBounded` | Each end reads what the other writes, whatever the payload; one garbled byte forges no message; the device is in step again after a pause; if no later byte of a frame is 0xff, one garbled, lost or late byte costs at most two frames. |
| `cdr` | `CursorSound`, `CallsConfined`, `SentIsEncoding`, `CallbackSeesMessage`, `NoHeapOverrun` | A published message is the reference encoding or, if it did not fit, a beginning of it; a subscriber sees what was sent whatever it received before, if the heap has room; nothing is written past a buffer, and past an array only when `realloc()` returned NULL or the size of the block overflowed 32 bits. |
| `plain_cdr` | `ContentIsPlainCdr` -- **violated** | A message with an 8-byte member is not plain CDR. |
| `node_handle` | `LossJustified`, `AbandonJustified`, `LostHostEndsCall` | The connection and frames are given up only when they are due, but for an old `c_time` and the wrap-around, which the properties name; a call ends when the host falls silent, however many calls its callbacks have made inside it. |
| `transports` | `StreamsIntact`, `StreamsDrain` | Nothing but the events the comment names (a lost line, a failed `send()` and a reset connection among them) damages a stream, and without one of them what was accepted leaves the board. |
| `serial_client` | `MixupNeedsOverlap`, `ParamMismatchNeedsTimeout`, `StrayAnswerNeedsBreak`, `PublisherRecovers`, `WriterDeathNoticed` | In the ROS 1 packages answers are mixed up only where calls overlap, time out, are broken off, or are made in a callback while another waits; a publisher is heard again unless its client has ended; a dead writing thread is noticed. |
| `codecs` | `SerializationFaithful`, `ClockWithinDelay`, `TimeExact`, `FloatsKeepValue`, `XbeeStreamsKept` | The conversions are right up to the limits the comments name: `realloc()` succeeding, elements that hold arrays, numbers too small for a float, descriptions longer than the read buffer. |

The `violation` runs state what a comment in the code says; the findings in
`PROJECT.json` quote it. `plain_cdr` is the one that touches data: `cdr.h` writes
the header of plain CDR but aligns members from the beginning of that header
instead of its end, so a `float64` is not where ROS looks for it (`SentIsEncoding`
says exactly which messages are concerned).

Some limits of the protocol appear as conditions of the properties that hold.
*A lost byte can forge a message*: the checksum is a plain sum, so a payload that
loses one 0xff and takes the first 0xff of the next frame for its checksum byte's
place still adds up; `NothingForged` is therefore about garbled bytes. *0xff
inside frames can keep the server out of step*: both readers drop the byte after
a 0xff that is not followed by 0xfe, so a frame that ends in 0xff hides the start
of the next one. The device gets over it after a pause (`PauseResyncs`); the
server has no time limit (the TODO at `S/session.h:216`), hence the condition on
`LossBounded`. *The Python server can flush for ever*: `requestTopics()` empties
the input, and a device that publishes often enough always has a message ahead of
its TopicInfos (`PublisherRecovers` excludes exactly this). *Transports lose
bytes* in the cases that `excuse` records; each is a path of the code, and the
comment of `StreamsIntact` lists them.

### Known deviations

Met while modelling and plain enough not to need a run of their own:

* a message longer than the receive buffer ends the session, and the next ones
  too, until the fourth refusal, although `read_failed()` says "No worries"
  (`S/session.h:326`, `S/async_read_buffer.h:231`);
* `callback()` does nothing about an aborted read, since "The abort callback comes
  when the owning Session is in the middle of teardown"
  (`S/async_read_buffer.h:304`). That holds only until four read handlers that
  stopped sessions left in the queue are refused in a row: the fourth refusal
  forgets the aborted request (`S/async_read_buffer.h:216`), the next session
  starts, and the abort then clears the record of its read. `AbortsHarmless` and
  `OneRead`, parts of `SessionInv`, name exactly this exception (`abandoned`). It
  takes a dozen bytes of noise in one transfer, more than the bounds of the run
  allow; the theorem covers it;
* a handler that a session left in the queue may find other bytes than it was
  posted for: `callSuccessCallback()` takes the request off the record when it posts
  the handler, so the `read()` of a session that is started before the handler runs
  is accepted, and its transfer shifts or refills the cells the handler is going to
  read (`S/async_read_buffer.h:361`; `PostedBytesIntact` names the case,
  `overtaken`);
* a port setting that the driver refuses makes `set_option()` throw, which nobody
  catches: the node ends instead of trying again (`S/serial_session.h:101`);
* a `sync_timeout()` that is queued already stops a session whose device has just
  asked for the time (`S/session.h:394`, `:688`);
* the response to a service call that timed out answers the next call
  (`S/topic_handlers.h:333`; `MismatchNeedsTimeout` says this is the only way);
* a ROS call after `stop()` uses a destroyed ServiceServer (`S/services.h:47`);
* two services of one type cannot be offered together, since there is one
  Converter for each type and `start_server()` replaces its callback
  (`S/services.h:49`);
* a subscriber whose announcement is lost is never set up while the link stays
  up, since the body of `required_topics_check()` is commented out
  (`S/session.h:425`);
* bytes left in the read buffer by one connection are parsed by the next, since
  neither `stop()` nor `start()` resets it (`S/session.h:148`);
* the device stores a message longer than the buffer it announced past the end of
  `message_in`, since neither end looks at `buffer_size` (`L/ros/node_handle.h:250`);
* lengths are computed in 16 bits (`S/session.h:345`);
* the description of a type is parsed after its file was closed, so of one longer
  than the stream's buffer only the beginning is parsed and the access to
  `type_hashes` asserts (`rosserial_server/src/msg_lookup.cpp:117`);
* the generated messages multiply a received length by the size of an element in 32
  bits and use what `realloc()` returns without a look
  (`rosserial_stm32/rosserial_stm32/make_libraries.py:205`,
  `pending/rosserial_client/src/rosserial_client/make_library.py:253`): with a full
  heap, or a length read at a wrong place (the second finding), elements are copied
  to where no block is. `NoHeapOverrun` and `SerializationFaithful` name these cases;
* the elements of an array are all read into `st_...` and copied with their pointers,
  so in an array of messages that hold arrays all elements share the storage of the
  last (`make_library.py:257`; `Agrees` of `RosLibMessages` compares only the
  last of these);
* a double that is too small for a float keeps its mantissa on AVR devices: the
  exponent is set to 0, which makes a denormalised number of up to about 1e-38 of
  it, where the comment says "Too small or zero" and the compiler's conversion gives
  0 (`L/ros/msg.h:157`). `pending/rosserial_client/test/float64_test.cpp:51`
  has such a number among its cases, but converts it to float before it is sent.
  `FloatsKeepValue` says exactly what comes out;
* on the ROS 1 device, a subscriber's callback that asks for a parameter while
  another request waits is given whichever value comes first
  (`pending/rosserial_client/src/ros_lib/ros/node_handle.h:555`), and one that calls
  a service while the same client waits ends both calls with the first answer and
  has the second stored through a pointer to a response that may be gone
  (`ros/service_client.h:57`);
* on TCP, `rosserial_python` does not survive a failed read:
  the handler calls `flushOutput()`, which `RosSerialServer` does not have
  (`SerialClient.py:555`). A client that disconnects inside a frame is such a read,
  as `tryRead()` makes an IOError of any exception (`:444`);
* `elCommWrite()` tries for ever on a line that is gone
  (`pending/rosserial_embeddedlinux/.../embedded_linux_comms.c:197`); on Windows any
  failed `send()`, a full send buffer included, closes the socket and drops what has
  arrived unread (`WindowsSocket.cpp:101`).

### Bounds

* `AsyncReadBuffer`: five cells, requests of 1, 3, 5 (the whole buffer) and 6
  (one too many), nine bytes in all (`MaxBytes`), two callbacks posted at once
  (`MaxPosted`). Shifts, exact fits, resets, wedges and overtaken callbacks all
  happen. The theorems lift the bounds.
* `Session`: one topic, threshold 2, two units a transfer (so that bytes stay
  behind when a session ends), at most four queued handlers before the
  environment adds another. Four is enough for a queued watchdog, an abort, a
  write completion and a read handler to wait at once.
* `MCServiceCalls`: two services of different types, three calls (a late response
  meets the call after the next), two sessions.
* `MCNegotiation`: four devices -- one endpoint of each of the six roles; a service
  and a service client that find a publisher's slot but no subscriber's; types the
  server does not know. Two lost frames of any kind and two under way before
  anybody adds one. (`SlotsAssumption`: a service whose publisher's slot is
  missing is left out; its subscriber half has nothing to answer with.)
* `MCFraming`: three frames, one of which may be hit; every other byte value is
  tried at every position. The messages are the empty request for topics (length
  0, ends in 0xff), a payload with both sync bytes under the highest topic id, and
  a frame without a sync byte inside, to which `LossBounded` applies: of three
  frames two may be lost, so the third has to arrive.
* `MCCdr`: six definitions with all kinds of members, two to five values of each,
  three messages one after the other, so that
  arrays shrink and grow again; output and input buffers that some values of each
  definition overfill; lengths that could not be read hold an arbitrary value, as
  the uninitialised variable of the code does, here 0, 3, or one at which the
  32-bit product overflows (`Garbage`); a heap that has room for every block the
  messages need, or for none (`HeapSizes`).
* `NodeHandle`: a clock of four values, so that it wraps within the time of a
  frame and of a connection; two nested activations (`MaxDepth`); one service client
  (`Clients`; with two the run takes too long), which a callback may call again while
  it waits; three bytes under way. The theorems hold for any number of clients and
  any depth.
* `Transports`: rings of four bytes, nine bytes in all and writes of up to five,
  so that every ring wraps twice and is overfilled.
* `MCSerialClient`: four programs for the device (publish and subscribe, offer a
  service, call one, ask for parameters). Calls, requests for parameters and
  connections lost by the device are two in all (`MaxEvents`), one of them a lost
  connection at most (`MaxLosses`): two calls or two requests, one in the callback
  that the other runs, or one after the other with an answer between them; two
  frames on the way to the host before the device asks again (`MaxUp`). `Asked` has the
  first parameter asked for first and one of the others second, which stands for all
  orders since names only differ by shape. One fault (a frame lost, a read failed, the connection
  broken, or a shutdown), one restart.
  Two parameters of equal shape and one of another. Two callers of one
  service with one call each, which may overlap or not. (A third, whom the late
  answer of two that overlapped may meet, is in the theorem only: with three
  callers the run takes too long.)
* `MCCodecs`: bytes of two bits and lengths of two bytes (14 bytes are too many),
  at least one sample for every specialisation; counters of 26 values from two
  boots, one just before the wrap; a heap that grants `realloc()` none to three times
  in one message (`MaxGrowths`); four description files, two of them longer than the
  buffer and one without the hash of a response (`Descriptions`); floats of 3 and doubles of 5 exponent bits; two
  radios, three frames with every byte that must be escaped, one damaged.

`codecs`, `transports`, `cdr` and `serial_client` do not check for deadlock: their
programs may be done.

### Fairness

* `AsyncReadBuffer`: only that a client that may call `read()` does so sooner or later, which
  the read chain and, after a failure, `check_connection()` make the session do.
* `Session`: the io thread runs queued handlers; the connection timer expires
  (both hold of a running io_service); the port can be opened if that is tried
  again and again (strong fairness of `RunCheckConnection(TRUE)`: the device is
  there).
* `ServiceCalls`: the polling loop and the wait in `handle()` are bounded by the
  code; a thread that can leave its wait does. Nothing is assumed of the device.
* `Negotiation`: both ends work off what arrives; timers expire; the device and
  ROS nodes keep using their topics and services (strong fairness, since each is
  possible only while there is a configured device). Losses are bounded. The
  liveness properties say "never without a route for good" (`[]<>`), not "has one
  from some time on": a ROS node that calls a service between the announcements
  of its two halves makes the server send to id 65535, on which the device
  drops its configuration and starts over, and it may do so again and again.
* `NodeHandle`: the device's program goes on, and time passes.
* `Transports`: the line, interrupts and tasks are not held up for ever; a program
  in `write()` goes on; its loop goes on calling `spinOnce()`.
* `SerialClient`: threads and the restart loop go on, the device's loop spins and
  publishes. Losses, faults and restarts are bounded.

## 4. Proofs

The properties that a theorem states are checked by a run as well; a theorem holds
for every value of the constants that meets the named assumptions. Of the inductive
invariants, `BufferInv` and `SessionInv` are properties of runs. `CallsInv`,
`NegotiationInv`, `TimesInv`, `ClockInv` and `ClientInv` stand in their modules
behind the properties they are there for, `FrameInv` and `BoardInv` beside their
proofs. TLC finds no violation of the former when they are added to the INVARIANTs
of the configuration of their run, nor of `FrameInv` when its unbounded quantifiers
are given the messages sent. All proofs have the same outline: lemmas on the data the module
is built from, a lemma for each method or action, one that joins them by cases on
`Next`, and a temporal step.

### `ReceptionProofs`: frames

For any messages that fit both ends (`MessagesAssumption`, `MessagesFit`), any
number of them, any damage, and any sizes of tables and buffers:

* `SameFrame`: `write_message()` and `publish()` make the same bytes of a message,
  as many as its payload and eight;
* `FramesRoundTrip`: `FramingSpec => []RoundTrip`;
* `PauseBringsDeviceBack`: `FramingSpec => []PauseResyncs`.

The writers differ: one fills a buffer through a cursor and adds up payload and
topic, the other stores bytes and adds up the bytes behind the header. That their
checksums agree for every length is induction on the length. The library's induction
theorems take an operator as parameter, which the provers cannot instantiate, so the
module derives induction for sets of numbers (`Smallest`, `Induction`) from the
well-foundedness of finite sets under inclusion (`FS_StrictSubsetOrderingWellFounded`),
and with it that the recursion of `sums()` has a solution (`SumsDef`) and what the
sum of a concatenation is (`SumJoins`).

`ServerTakes` and `DeviceTakes` follow one frame through the readers: a reader that
is ready and gets its first k bytes is `ServerAt`/`DeviceAt` k, and after the last
byte is ready again with one message more. The device's states are counted byte by
byte; the server's four reads end at bytes 1, 2, 7 and the last.

The inductive invariant is `FrameInv`. `RoundTrip` speaks of a line that is empty;
in between one needs to know which byte of which message is next (`InFrame`) and
where that leaves each reader, under the conditions on the damage under which the
properties promise something. `PauseResyncs` needs more than that: after a pause the
device has `got` something unknown and then exactly the messages since, and *in any
case*, after whatever bytes, its state is one a pause can end (`DeviceType`, kept by
`DeviceKeepsType` for arbitrary bytes).

### `ReceptionProofs`: the receive buffer

For every capacity, set of request sizes, number of bytes and of posted callbacks:

* `BufferInvariant`: `Spec => []BufferInv`;
* `TransfersFit`, `NoByteLost`, `PostedBytesStay`: the parts that matter most;
* `RefinesByteStream`: `Spec => Stream!Spec`, where the runs of the abstract reader
  are what the posted pointers see *at this moment*, so that a reset, an answer from
  the buffer or a failed transfer that touched those cells would not be a step of
  `ByteStream`. A run is taken back (`Overtake`) exactly when `read()` goes to the
  hardware.

Assumptions: the capacity is a positive natural number, request sizes are
positive, the bounds on bytes and callbacks are natural numbers.

The inductive invariant is `BufferInv`. `UnreadBytesKept` (unread cells hold the
bytes not yet handed over, in order) is not inductive alone: the transfer under
way must end where it was told to begin and fit (`TransferFits`), which needs
that the request on record is what the transfer completes
(`OnlyOversizeWedges`), which needs that the counter is at most 3 while a request
is on record. `PostedBytesIntact` has to hold while further callbacks are posted and
the indexes reset: the cells of a view stay as they are because only a transfer and
the shift before it write to `mem_`, and both are preceded by a `read()` that
overtakes every view (`TransferOvertakes`). `ShiftKeepsUnread` is the lemma about the copy to the front.

### `SessionProofs`

For every set of topics, threshold, size of transfers and number of queued
handlers, over all three links:

* `SessionInvariant`: `Spec => []SessionInv`;
* `NeverDeafAlways`: `Spec => []NeverDeaf`.

A handler breaks the invariant while it runs: it has left the queue, and what it
was there for is not yet done. `Sound(s)` is what holds in the middle of a handler.
Each method has an `...Effect` lemma (`StopEffect`, `ReadEffect`, `StartEffect`,
...) that says what it needs of the objects and what it establishes, and each
handler a `...Keeps` lemma that puts these together. `NeverDeaf` is not inductive
alone: a read that is refused leaves the session listening only because the request
on record is that of a read that will complete (`OneRead`), and because a stopped
session leaves nothing in the queue but handlers that check for it
(`StoppedIsQuiet`). The attempt to prove `OneRead` without its condition
`~abandoned` failed, rightly so: the fourth refusal in a row forgets a live request
(see the known deviations).

### `ServiceCallsProofs`

For any services and types, sessions and number of calls (`TypeOf` is a function
from names to types, and `None` is not a name):

* `CallsInvariant`: `Spec => []CallsInv`;
* `NoAnswerGivenTwice`, `MismatchOnlyAfterTimeout`, `NothingLeftPending`.

`NoAnswerTwice` speaks of responses that were given. What makes it inductive is
`OnePlace`: a request or its response is on one of the three queues, or in the
buffer that the present call polls, or with a caller, and never in two of these.
`ServersOfSession` is needed because a response may reach a ServiceServer of the
next session under the same name. Both stop at `undefined`, the use of a destroyed
ServiceServer, after which the code promises nothing.

### `NegotiationProofs`

For any devices, losses and frames under way:

* `NegotiationInvariant`: `Spec => []NegotiationInv`;
* `SentToListenersAlways`: `Spec => []SentToListeners`.

The id that the server sends to was taken from an announcement, perhaps long ago:
`SentByDevice` (announcements under way are of the device's own endpoints) and
`IdsRight` (the id of a service object is that of the subscriber half of its own
service, or unset) lead from one to the other, and `CallbacksBound` says that a
callback finds its object. The tables are what `advertise()` and its relatives made
of a sketch, line by line; `SketchesMakeGoodTables` shows by induction on its length
that they have the shape the proofs need, whatever it registers
(`SketchesAssumption` says only that it registers things of the four kinds).
`SlotsAssumption` does exclude sketches: those in which the subscriber half of a
service is in the tables without its publisher half.

### `NodeHandleProofs`

For every width of the clock, every limit, any number of service clients and any depth
of calls inside the callbacks of calls:

* `TimesInvariant`: `Spec => []TimesInv`;
* `LossAlwaysJustified`: `Spec => LossJustified`, and
  `AbandonAlwaysJustified`: `Spec => AbandonJustified`, action properties.

`TimesAssumption` holds of the code: `LOST` (4.4 s, 11 s in the ROS 1 copy) and the time a callback takes
fit into 32 bits of milliseconds, and a frame has less time than a connection. The
action properties compare what the code concludes from wrapping counters with the
true durations, so the invariant relates the two: `SilenceMeasured` (the wrapped
difference is the true silence, until that exceeds `LOST`; this is where
`LOST + MaxBusy < Wrap` comes in) and `DeadlineAhead` (the limit stored for a frame
is ahead of the clock by what is left of it, unless it was computed from an old
`c_time` or lies beyond the wrap-around).

### `DeviceLibraryProofs`: time and clock

For every width and units that meet `ClockAssumption`; 2^32, 10^6 and 1000 do, so
this covers the widths of the device, which TLC cannot:

* `TimeAlwaysExact`: `CalcSpec => []TimeExact`;
* `ClockInvariant`: `ClockSpec => []ClockInv`;
* `ClockAlwaysWithinDelay`: `ClockSpec => []ClockWithinDelay`.

`TimeExact` is not inductive alone: it does not bound the seconds, on which the
next step depends (`CalcInv` adds their ranges). The lemmas below it give each
function of `time.cpp` and `duration.cpp` its exact value (`NormalizeExact`,
`SinceExact`, `FromNSecExact`, ...), from a few facts on quotients and remainders
that replace the solver's weak nonlinear arithmetic (`DivModUnique`,
`RemainderScaled`). For the clock, `RequestRemembered` says that `rt_time` is the
counter at a time not before any request that is still under way, and `OffsetKnown`
what `setNow()` then made of the offsets; `CountMeasures` says for each kind of
counter when a difference measures a duration. `DeviceClockAssumption` bounds the
time that is looked at by one turn of the counter (`MaxTime < Wrap`, 49 days);
before that it may still wrap, since it does not start at 0.

### `DeviceLibraryProofs`: Micro-CDR

For every amount of memory, every set of buffer sizes up to it and arrays of any
length:

* `CursorAlwaysSound`: `Spec => []CursorSound`;
* `CallsAlwaysConfined`: `Spec => CallsConfined`, an action property.

The inductive invariant is `Sound(ub)`: the buffer is well formed, the offset is
the iterator, and, unless there was an error, the width of the last datum divides
the offset. The last part is what makes the shortcut of
`ucdr_buffer_alignment()` exact (`ShortcutExact`), and is why `CursorSound` is not
inductive as it stands. Lemmas follow the calls of the library from the inside
out: `TransferMoves` (bytes copied), `AdvanceSound`, `AlignedSound`, `ClaimSound`,
`SerializeSound`/`DeserializeSound` for one value, the array and sequence
lemmas, and `CallSound`, which also carries `Confined`, the relation between the
buffer before and after a call that composes (`ConfinedTransitive`).

### `TransportsProofs`

For any number of bytes and every size of the rings, the FIFO, the kernel's buffer
and the writes (`TransportSizes`: a ring has two cells at least; `HardwareSizes`: the
others have one):

* `TransportsKeepStreams`: `Spec => []StreamsIntact`, for all nine board classes.

The inductive invariant is `BoardInv`: for each board, where every byte between the
two ends of each stream is two ends of each stream is at this moment, in order, including those that an `write()`, `read()` or interrupt handler has in its hands. Half the
lemmas are about rings, in the two forms the boards use: read and write index
(`Between`, `Gap`), or head and count (`InRing`); what a store at one end and a
read at the other do to the contents, and what copying in two pieces does
(`Filled`). The index arithmetic is modulo the ring's size for any size, so that
TLC's four cells are not special. For VEX V5, where both tasks change one counter,
the invariant speaks of the count each task has loaded (`Kept`) and holds until the
interleaving that `excuse` records.

### `PythonProofs`: `SerialClient`

For any sketches, parameters, callers, faults, restarts and lengths of the lines,
with no assumption on the constants:

* `ClientInvariant`: `Spec => []ClientInv`;
* `MismatchedParamNeedsTimeout`, `StrayWriteNeedsBreak`, `MixedUpNeedsOverlap`.

Answers carry neither name nor number. They reach the right party because at most
one question of a kind is under way in the three lines (up, the write queue, down):
`ParamsOnTheirWay`, `CallsOnTheirWay` and `RequestsOnTheirWay` say so until a
timeout, a broken call, a question that a callback asks while one of the same kind
waits, or an overlap, which the properties name. Callbacks may nest to any depth, so
the pointer `ret` has to lead to a `call()` on the stack or to none (`RetOnStack`). The lemmas are
about lines: nearly every step leaves at most the frames there were (`Fewer`), and
a few move the one there is (`Moves`, `Starts`). An earlier form of
`MixupNeedsOverlap`, that a caller who was alone gets its own answer, was not
inductive, and is false with three callers: when two have overlapped and both took
the first answer, the second one meets a later caller who is alone.

### `PythonProofs`: `XbeeNetwork`

For any addresses of two bytes, any data, any number of devices and threads, and
whatever the port takes of a write:

* `XbeeKeepsStreams`: `XbeeInit /\ [][XbeeNext]_xb => []XbeeStreamsKept`.

`PayloadAssumption` bounds what is sent by the signed 16 bits in which the receiver
keeps the length, and gives a reception at least one byte of data;
`ReportsAssumption` says that the radio's other frames have the fields that
`api_responses` lists. Without either the main thread dies of an exception.

The codec comes first. `escape()`, the checksum's sum and the receiver's loop are
recursive functions in the model; the library's induction theorems take an operator,
so `Induction` is stated for sets (from the well-founded subset order on intervals)
and used for the recursions (`TotalsDef`, `EscapingDef`, `TakingDef`) and for what
they compute. `InFrame(f, l, data)` says that a receiver `f` is in the middle of the
frame with these data and `l` is still to come: before the start byte, between two
bytes of the body, or behind an escape byte. `FrameByte` is the step: the next byte
leads to such a state again or, with the last byte, returns the data; the length is
known exactly from the third byte on (`Remaining`), and the checksum fits
(`BodyFacts`). The invariant `XbeeInv` then needs no word of escaping. Towards the
computer (`Receiving`), what a client has read, what its port holds and what is in
the frame on the line make up what the device sent; between the two halves of
`putData()` the port is taken to hold what is being put (`Held`), which is why the
append needs `loaded = rxdata` only of a port that was not flushed. `InOrder` carries
what is left to say after `flushInput()`. Towards the radio (`Sending`), the receiver
is in the frame of the only thread that writes, until two do.

### Only model-checked

* All liveness properties: `WedgeEnds`, `Reconnects`, `ShutdownEndsThread`,
  `WaitsEnd`, `PublishersRouted`, `ServicesRecover`, `LostHostEndsCall`,
  `StreamsDrain`, `PublisherRecovers`, `WriterDeathNoticed`. Fairness is out of the
  prover's reach.
* `NothingForged` and `LossBounded` of `Framing`, which are true of the messages and
  the damage of the run but not of all.
* `CdrMessages` and `Ros1Serialization` with `RosLibMessages`: encoders and decoders
  recurse over types that are terms, with RECURSIVE operators, which no module with
  a theorem may reach.
* `MessageLookup`: folds of the community modules, whose recursion is over sets.
  `AvrFloat64` depends on powers of two.

## 5. Not modelled

* Pieces of two composed `async_write`s that interleave on the port
  (`S/session.h:339`): depends on the driver.
* MD5 sums, logging, the parameters of `serial_node`, the `#if 0` parameter
  functions of the STM32 NodeHandle, the dead bodies of `required_topics_check()`
  and `ros_spin_timeout()`.
* `S/fastcdr.h`, which nothing includes.
* The generators' walk over packages; the C++ they write is modelled.
* Byte swapping and `on_full_buffer` in Micro-CDR, which nothing on the device
  uses.
* Diagnostics and the loading of message classes in `SerialClient.py`;
  `setup_xbee.py`.
* Start-up code, USB descriptors, examples with their sensor drivers,
  `rosserial_test`.

## 6. Plan

1. A composition of `Session` and `Negotiation`, so that the restart is not one
   step, with `Negotiation` as the abstract specification.
2. Action properties of `Session` and `SerialClient` from the invariants that are
   proved now (what a stale handler may do to the next session, what a restart
   keeps).
3. `NoHeapOverrun` for every schema: the deserialisers of `CdrMessages` as recursive
   functions on the depth of a type, then induction on it.

------------------------------ MODULE Session ------------------------------
(***************************************************************************)
(* The server's end of a rosserial link: Session (session.h) over a serial *)
(* port that SerialSession (serial_session.h) opens and reopens, over UDP  *)
(* (UdpSocketSession, which does the same with a socket), or over a TCP    *)
(* connection that TcpServer accepted and that gets no second session.     *)
(*                                                                         *)
(* Everything here runs on one thread, the one in io_service.run().  It    *)
(* takes handlers from a FIFO queue, `ready', and each handler runs to its *)
(* end; concurrency is in the ORDER in which completions, timer expiries,  *)
(* posted callbacks and cancelled operations enter that queue.  A handler  *)
(* is modelled by a function from the state of the objects to their next   *)
(* state, built from the methods the handler calls.                        *)
(*                                                                         *)
(* Bytes are abstracted to units, a unit being the bytes that one read of  *)
(* the session consumes, and what a unit turns out to contain is chosen    *)
(* when the handler that parses it runs.  AsyncReadBuffer.tla has the      *)
(* byte-level behaviour of the buffer.                                     *)
(***************************************************************************)
EXTENDS Integers, Sequences

CONSTANTS
  Topics,          \* topics the device publishes, each with an id of its own
  RetryThreshold,  \* parameter unrecognised_topic_retry_threshold, 1 by default
  MaxUnits,        \* bound: units that arrive with one transfer
  MaxReady         \* bound: no timer expires, no operation completes and no
                   \* ROS message is sent while so many handlers wait

ASSUME RetryThresholdAssumption == RetryThreshold \in Nat
ASSUME MaxUnitsAssumption == MaxUnits \in Nat \ {0}
ASSUME MaxReadyAssumption == MaxReady \in Nat \ {0}

VARIABLES
  io,   \* the objects that handlers work on, see State
  ok    \* rclcpp::ok()

vars == <<io, ok>>

ReadHandlers == {"read_sync_first", "read_sync_second", "read_id_length", "read_body"}

\* Message ids that start() gives a handler.  The four ids for services are
\* dealt with like the first two and are not told apart here.
SetupIds == {"ID_PUBLISHER", "ID_SUBSCRIBER", "ID_LOG", "ID_TIME"}

\* A handler in the queue.  Completions of a read are "callback" (success,
\* with the units it brought in), "callback_error" and "callback_aborted".
Handlers == ReadHandlers \cup
  {"sync_timeout", "check_connection", "callback", "callback_error",
   "callback_aborted", "write_buffer", "write_completion_cb", "handle_accept"}

Handler(h) == [h |-> h, units |-> 0]

State == [
  link : {"serial", "udp", "tcp"},
  active : BOOLEAN,                    \* active_
  open : BOOLEAN,                      \* socket_.is_open()
  callbacks : SUBSET (SetupIds \cup Topics),  \* the ids in callbacks_
  subscribers : BOOLEAN,               \* subscribers_ is not empty
  unrecognised : Nat,                  \* unrecognised_topics_
  sync_timer : BOOLEAN,                \* sync_timer_ has a wait pending
  timer : BOOLEAN,                     \* SerialSession's timer_ has one
  requested : {"none", "fits", "oversize"},   \* read_requested_bytes_
  success : ReadHandlers,              \* read_success_callback_
  count : Nat,                         \* the static counter in read()
  abandoned : BOOLEAN,                 \* history: read_refused() forgot a live read
  buffered : Nat,                      \* unread units
  reading : BOOLEAN,                   \* an async_read waits for bytes
  writing : BOOLEAN,                   \* an async_write is under way
  ready : Seq([h : Handlers, units : 0 .. MaxUnits]),
  running : BOOLEAN ]                  \* io_service has not been stopped

post(s, h) == [s EXCEPT !.ready = Append(@, h)]

-----------------------------------------------------------------------------
(* Methods. *)

\* A stream starts a transfer; on a closed port it fails at once.
async_write_some(s) ==
  IF s.open THEN [s EXCEPT !.writing = TRUE]
            ELSE post(s, Handler("write_completion_cb"))

async_read_some(s) ==
  IF s.open THEN [s EXCEPT !.reading = TRUE]
            ELSE post(s, Handler("callback_error"))

\* write_message() dispatches it; on the io thread it runs at once.
write_buffer(s) == async_write_some(s)

\* socket_.close(): operations under way end with operation_aborted.
close(s) ==
  LET r == IF s.reading THEN post(s, Handler("callback_aborted")) ELSE s
      w == IF s.writing THEN post(r, Handler("write_completion_cb")) ELSE r
  IN  [w EXCEPT !.open = FALSE, !.reading = FALSE, !.writing = FALSE]

\* stop() drops what the session knows, sends ID_TX_STOP and closes the port.
stop(s) ==
  IF ~s.active THEN s
  ELSE close(write_buffer([s EXCEPT !.active = FALSE, !.sync_timer = FALSE,
                                    !.callbacks = {}, !.subscribers = FALSE]))

shutdown(s) == [stop(s) EXCEPT !.running = FALSE]

\* Cancelling a timer takes back a pending wait, not a queued sync_timeout.
set_sync_timeout(s) ==
  IF ok THEN [s EXCEPT !.sync_timer = TRUE] ELSE shutdown(s)

attempt_sync(s) == set_sync_timeout(write_buffer(s))

\* Mutant: refused calls are not counted.
read_refused_forever(s) == stop(s)

\* AsyncReadBuffer::read() while a request is on record: read_failed() stops
\* the session.  The fourth refusal in a row forgets request and bytes.  When
\* it was not an oversized request, a completion that is still to come meets
\* no request or a later one: how many bytes callback() then hands over, and
\* to which handler if to any, is not modelled.
read_refused(s) ==
  LET r == [s EXCEPT !.count = @ + 1] IN
  stop(IF r.count > 3
         THEN [r EXCEPT !.requested = "none", !.buffered = 0,
                        !.abandoned = @ \/ s.requested = "fits"]
         ELSE r)

\* callSuccessCallback(): the handler on record is posted with the first of
\* the buffered units.
callSuccessCallback(s) ==
  [post(s, Handler(s.success)) EXCEPT !.requested = "none", !.buffered = @ - 1]

\* AsyncReadBuffer::read() of bytes that fit into the buffer.
read(s, h) ==
  LET r == [s EXCEPT !.count = 0, !.success = h, !.requested = "fits"] IN
  IF s.requested # "none" THEN read_refused(s)
  ELSE IF s.buffered > 0 THEN callSuccessCallback(r)
  ELSE async_read_some(r)

read_sync_header(s) == read(s, "read_sync_first")

\* AsyncReadBuffer::read() of more than the buffer holds, with what
\* read_failed() does about it: the request stays on record, so the
\* read_sync_header() that is to find the next message is refused.
read_oversize(s) ==
  IF s.requested # "none" THEN read_refused(s)
  ELSE read_sync_header([s EXCEPT !.count = 0, !.success = "read_body",
                                  !.requested = "oversize"])

\* Mutant: a new session takes an old request off the record.
start_forgetsRequest(s) ==
  read_sync_header(attempt_sync([s EXCEPT !.callbacks = @ \cup SetupIds, !.requested = "none",
                                          !.active = TRUE]))

start(s) ==
  read_sync_header(attempt_sync([s EXCEPT !.callbacks = @ \cup SetupIds, !.active = TRUE]))

-----------------------------------------------------------------------------
(* The io thread takes the next handler from the queue and runs it.        *)

Runs(h) == io.running /\ io.ready # <<>> /\ Head(io.ready).h = h

\* The objects when that handler begins.
Taken == [io EXCEPT !.ready = Tail(@)]

RunSyncTimeout ==
  /\ Runs("sync_timeout")
  /\ io' = stop(Taken)
  /\ UNCHANGED ok

open(s) == [s EXCEPT !.open = TRUE]

\* attempt_connection(), with open() succeeding or not; RunSetOptionThrows is
\* its other end.
attempt_connection(s, opened) == IF opened THEN start(open(s)) ELSE s

\* TcpServer::handle_accept(): the session that was made for the connection
\* starts, or is deleted and start_accept() makes another for the next one.
RunHandleAccept(error) ==
  /\ Runs("handle_accept")
  /\ io' = IF error THEN post(Taken, Handler("handle_accept"))
           ELSE start(open(Taken))
  /\ UNCHANGED ok

\* Mutant: nobody looks for the end of the node when the connection is up.
RunCheckConnection_noShutdown(opened) ==
  /\ Runs("check_connection") /\ io.link = "serial"
  /\ io' = [(IF Taken.active THEN Taken ELSE attempt_connection(Taken, opened))
              EXCEPT !.timer = TRUE]
  /\ UNCHANGED ok

\* check_connection() connects if need be and sets its own timer again.  The
\* node may be shut down while attempt_connection() sleeps.
RunCheckConnection(opened) ==
  LET s == IF Taken.active THEN Taken ELSE attempt_connection(Taken, opened) IN
  /\ Runs("check_connection") /\ io.link = "serial"
  /\ ok' \in {ok, FALSE}
  /\ io' = IF ok' THEN [s EXCEPT !.timer = TRUE] ELSE shutdown(s)

\* One of the set_option() calls of attempt_connection() throws, which nobody
\* catches: the node ends, and the port that was opened is gone with it.
RunSetOptionThrows ==
  /\ Runs("check_connection") /\ io.link = "serial" /\ ~io.active
  /\ ok' = FALSE /\ io' = [Taken EXCEPT !.running = FALSE]

\* check_connection() of UdpSocketSession.  UdpStream::open() throws what nobody catches
\* unless it can bind the port, and ends the node.
RunUdpCheckConnection(bound) ==
  /\ Runs("check_connection") /\ io.link = "udp"
  /\ IF io.active \/ bound
       THEN LET s == IF io.active THEN Taken ELSE start(open(Taken)) IN
            /\ ok' \in {ok, FALSE}
            /\ io' = IF ok' THEN [s EXCEPT !.timer = TRUE] ELSE shutdown(s)
       ELSE ok' = FALSE /\ io' = [Taken EXCEPT !.running = FALSE]

\* AsyncReadBuffer::callback() after bytes have come in.
RunCallback ==
  /\ Runs("callback")
  /\ io' = callSuccessCallback([Taken EXCEPT !.buffered = @ + Head(io.ready).units])
  /\ UNCHANGED ok

\* The same after an error; only an abort is not reported to the session.
RunCallbackError ==
  /\ Runs("callback_error") \/ Runs("callback_aborted")
  /\ LET s == [Taken EXCEPT !.requested = "none"] IN
     io' = IF Head(io.ready).h = "callback_aborted" THEN s ELSE stop(s)
  /\ UNCHANGED ok

RunReadSyncFirst ==
  /\ Runs("read_sync_first")
  /\ \E h \in {"read_sync_second", "read_sync_first"} : io' = read(Taken, h)
  /\ UNCHANGED ok

RunReadSyncSecond ==
  /\ Runs("read_sync_second")
  /\ \E h \in {"read_id_length", "read_sync_first"} : io' = read(Taken, h)
  /\ UNCHANGED ok

\* A bad header checksum, a length that fits, and one that does not.
RunReadIdLength ==
  /\ Runs("read_id_length")
  /\ \/ \E h \in {"read_sync_first", "read_body"} : io' = read(Taken, h)
     \/ io' = read_oversize(Taken)
  /\ UNCHANGED ok

\* setup_publisher(), and the service setups that add a callback for topic t.
setup_publisher(s, t) == set_sync_timeout([s EXCEPT !.callbacks = @ \cup {t}])

setup_subscriber(s) == set_sync_timeout([s EXCEPT !.subscribers = TRUE])

handle_time(s) == set_sync_timeout(write_buffer(s))

\* A message for an id without callback: at the threshold the topics are
\* requested again.
unrecognised(s) ==
  IF RetryThreshold = 0 THEN s
  ELSE IF s.unrecognised + 1 < RetryThreshold THEN [s EXCEPT !.unrecognised = @ + 1]
  ELSE [attempt_sync(s) EXCEPT !.unrecognised = 0]

\* What the body of a message may make an active session do.  A message with
\* a bad checksum, one that cannot be parsed, a log message and a message on
\* a known topic leave the session as it is.
dispatch(s) ==
  {s} \cup
  {setup_publisher(s, t) : t \in {u \in Topics : "ID_PUBLISHER" \in s.callbacks}} \cup
  (IF "ID_SUBSCRIBER" \in s.callbacks THEN {setup_subscriber(s)} ELSE {}) \cup
  (IF "ID_TIME" \in s.callbacks THEN {handle_time(s)} ELSE {}) \cup
  {unrecognised(s) : t \in (SetupIds \cup Topics) \ s.callbacks}

\* Mutant: a message that is dropped ends the chain of reads.
RunReadBody_returnsEarly ==
  /\ Runs("read_body")
  /\ IF ~Taken.active THEN io' = Taken
     ELSE \E s \in dispatch(Taken) : io' = IF s = Taken THEN s ELSE read_sync_header(s)
  /\ UNCHANGED ok

RunReadBody ==
  /\ Runs("read_body")
  /\ IF ~Taken.active THEN io' = Taken
     ELSE \E s \in dispatch(Taken) : io' = read_sync_header(s)
  /\ UNCHANGED ok

RunWriteBuffer ==
  /\ Runs("write_buffer")
  /\ io' = write_buffer(Taken)
  /\ UNCHANGED ok

\* A write that close() cut short may still have been complete.
RunWriteCompletion ==
  /\ Runs("write_completion_cb")
  /\ io' = Taken \/ io' = stop(Taken)
  /\ UNCHANGED ok

-----------------------------------------------------------------------------
(* What happens around the io thread. *)

Room == io.running /\ Len(io.ready) < MaxReady

\* Bytes arrive, or the port fails, while an async_read waits for them.
ReadCompletes(units) ==
  /\ Room /\ io.reading
  /\ io' = [post(io, [Handler("callback") EXCEPT !.units = units]) EXCEPT !.reading = FALSE]
  /\ UNCHANGED ok

ReadFails ==
  /\ Room /\ io.reading
  /\ io' = [post(io, Handler("callback_error")) EXCEPT !.reading = FALSE]
  /\ UNCHANGED ok

\* A write ends; only a failed one matters to anybody.
WriteCompletes ==
  /\ io.running /\ io.writing
  /\ io' = [io EXCEPT !.writing = FALSE]
  /\ UNCHANGED ok

WriteFails ==
  /\ Room /\ io.writing
  /\ io' = [post(io, Handler("write_completion_cb")) EXCEPT !.writing = FALSE]
  /\ UNCHANGED ok

SyncTimerExpires ==
  /\ Room /\ io.sync_timer
  /\ io' = [post(io, Handler("sync_timeout")) EXCEPT !.sync_timer = FALSE]
  /\ UNCHANGED ok

ConnectionTimerExpires ==
  /\ Room /\ io.timer
  /\ io' = [post(io, Handler("check_connection")) EXCEPT !.timer = FALSE]
  /\ UNCHANGED ok

\* Subscriber::handle() on the thread of rclcpp::spin(): write_message()
\* queues the write for the io thread.
RosMessage ==
  /\ Room /\ ok /\ io.subscribers
  /\ \A i \in DOMAIN io.ready : io.ready[i].h # "write_buffer"
  /\ io' = post(io, Handler("write_buffer"))
  /\ UNCHANGED ok

RosShutdown ==
  /\ ok
  /\ ok' = FALSE
  /\ UNCHANGED io

\* run() has returned: main() joins the thread and ends.  A TCP session that
\* was stopped stays so.
Ended ==
  /\ ~io.running \/ (io.link = "tcp" /\ ~io.active /\ io.ready = <<>>)
  /\ UNCHANGED vars

\* The constructors of SerialSession and UdpSocketSession end with
\* check_connection(); TcpServer waits for a connection.
Init ==
  /\ \E link \in {"serial", "udp", "tcp"} :
       io = [link |-> link, active |-> FALSE, open |-> FALSE, callbacks |-> {},
             subscribers |-> FALSE, unrecognised |-> 0, sync_timer |-> FALSE, timer |-> FALSE,
             requested |-> "none", success |-> "read_sync_first", count |-> 0,
             abandoned |-> FALSE, buffered |-> 0, reading |-> FALSE, writing |-> FALSE,
             running |-> TRUE,
             ready |-> <<Handler(IF link = "tcp" THEN "handle_accept" ELSE "check_connection")>>]
  /\ ok = TRUE

RunHandler ==
  \/ RunSyncTimeout
  \/ RunSetOptionThrows
  \/ \E opened \in BOOLEAN : RunCheckConnection(opened) \/ RunUdpCheckConnection(opened)
  \/ \E error \in BOOLEAN : RunHandleAccept(error)
  \/ RunCallback \/ RunCallbackError
  \/ RunReadSyncFirst \/ RunReadSyncSecond \/ RunReadIdLength \/ RunReadBody
  \/ RunWriteBuffer \/ RunWriteCompletion

Environment ==
  \/ \E units \in 1 .. MaxUnits : ReadCompletes(units)
  \/ ReadFails
  \/ WriteCompletes \/ WriteFails
  \/ SyncTimerExpires \/ ConnectionTimerExpires
  \/ RosMessage \/ RosShutdown

Next == RunHandler \/ Environment \/ Ended

Spec == Init /\ [][Next]_vars

\* The io thread runs queued handlers, timers expire, and the port can be
\* opened again and again if it is tried again and again.
FairSpec ==
  /\ Spec
  /\ WF_vars(RunHandler)
  /\ WF_vars(ConnectionTimerExpires)
  /\ SF_vars(RunCheckConnection(TRUE))

-----------------------------------------------------------------------------
(* Properties. *)

Queued(s, h) == \E i \in DOMAIN s.ready : s.ready[i].h = h

(* The objects of the io thread stay within the values given in State. *)
TypeOK == io \in State /\ ok \in BOOLEAN

(* stop() leaves nothing of a session behind that could make it act: no     *)
(* callback, no subscriber, no pending watchdog, no open port.              *)
Quiet(s) ==
  ~s.active => s.callbacks = {} /\ ~s.subscribers /\ ~s.sync_timer /\ ~s.open
StoppedIsQuiet == Quiet(io)

(* The watchdog of an active session is always on: its timer is set, or it  *)
(* has expired and the sync_timeout() that stops the session is queued.     *)
Watched(s) == s.active => s.sync_timer \/ Queued(s, "sync_timeout")
WatchdogOn == Watched(io)

(* As long as the io thread runs, check_connection() will run again.        *)
Scheduled(s) == s.running /\ s.link # "tcp" => s.timer \/ Queued(s, "check_connection")
ReconnectScheduled == Scheduled(io)

(* An active session is never deaf: a read is waiting for bytes, has ended, *)
(* or has posted the handler that will start the next one.                  *)
Hearing(s) ==
  s.active => \/ s.reading
              \/ \E h \in ReadHandlers \cup {"callback", "callback_error"} : Queued(s, h)
NeverDeaf == Hearing(io)

Completions == {"callback", "callback_error", "callback_aborted"}
Completes(s, i) == s.ready[i].h \in Completions
Pending(s) == \E i \in DOMAIN s.ready : Completes(s, i)
OneCompletion(s) ==
  \A i, j \in DOMAIN s.ready : Completes(s, i) /\ Completes(s, j) => i = j

(* The request on record is that of the one async_read that is under way or *)
(* has ended and waits for AsyncReadBuffer::callback(), although sessions   *)
(* end and begin between the two and the read handlers of several may be    *)
(* queued: callback() hands over the bytes that were asked for, and no      *)
(* request stays on record with nothing to answer it.  This lasts until the *)
(* counter of refused calls makes read() forget a live request.  A posted   *)
(* read handler is not covered: a new session may read while one waits.     *)
OneRead(s) ==
  ~s.abandoned =>
    /\ s.requested = "fits" <=> s.reading \/ Pending(s)
    /\ ~(s.reading /\ Pending(s))
    /\ OneCompletion(s)

(* Until then no abort finds an active session, although the port may be    *)
(* reopened before the abort is delivered: the new session's first read()   *)
(* is refused because of the old request, and the session stops at once.    *)
AbortsHarmless(s) ==
  ~s.abandoned /\ Queued(s, "callback_aborted") => ~s.active

(* A transfer that has succeeded brought in at least one unit. *)
TransfersBringUnits(s) ==
  \A i \in DOMAIN s.ready : s.ready[i].h = "callback" => s.ready[i].units > 0

(* The parts above: what every handler of the io thread relies on when it   *)
(* is run, in whatever order they were queued.                              *)
SessionInv ==
  /\ TypeOK
  /\ StoppedIsQuiet
  /\ WatchdogOn
  /\ ReconnectScheduled
  /\ NeverDeaf
  /\ OneRead(io)
  /\ AbortsHarmless(io)
  /\ TransfersBringUnits(io)

(* A session that ended is followed by another one as long as the node is   *)
(* up: neither stale handlers nor an oversized request on record keep the   *)
(* server from starting again.  (Over TCP the device has to connect again,  *)
(* to a session of its own.)                                                *)
Reconnects == ~io.active ~> io.active \/ ~ok \/ io.link = "tcp"

(* Once the node is shut down, the io thread ends, unless it waits for TCP  *)
(* connections.                                                             *)
ShutdownEndsThread == ~ok ~> ~io.running \/ io.link = "tcp"
=============================================================================

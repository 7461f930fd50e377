------------------------------ MODULE NodeHandle ------------------------------
(***************************************************************************)
(* The device's spinOnce() in time: the connection, message and sync       *)
(* timeouts of ros/node_handle.h, callbacks that take time and that call   *)
(* services, which spin again inside the callback (ros/service_client.h),  *)
(* and the 32-bit millisecond clock, which wraps around.                   *)
(*                                                                         *)
(* A frame is its first byte 0xff, one byte for the middle and a last one, *)
(* the checksum, with which it is acted upon.  Bytes arrive in order, one  *)
(* at a time, and may get lost.  Time counts modulo Wrap.  The periodic    *)
(* request for the time has no effect here: the host may send the time     *)
(* whenever it likes (Negotiation has the requests).                       *)
(***************************************************************************)
EXTENDS Integers, Sequences, FiniteSets, SequencesExt

CONSTANTS
    Clients,             \* the sketch's service clients
    Wrap,                \* the clock hardware_.time() counts modulo this
    SERIAL_MSG_TIMEOUT,  \* time a frame has to arrive
    SYNC,                \* interval of the time requests, SYNC_SECONDS * 1000
    SpinTimeouts,        \* what a sketch may give to setSpinTimeout(), 0 for none
    LOST,                \* silence after which the connection is lost, SYNC * 2.2
    MaxBusy,             \* bound: spinOnce() is entered after so many ticks at most
    MaxDepth,            \* bound: spinOnce() calls inside each other
    MaxLine              \* bound: bytes that are not yet read

ASSUME TimesAssumption ==
    /\ {Wrap, SERIAL_MSG_TIMEOUT, SYNC, LOST, MaxBusy, MaxDepth, MaxLine} \subseteq Nat \ {0}
    /\ SpinTimeouts \subseteq Nat /\ 0 \in SpinTimeouts
    /\ SERIAL_MSG_TIMEOUT <= SYNC /\ SYNC < LOST /\ LOST + MaxBusy < Wrap

VARIABLES
    time,          \* hardware_.time()
    mode,          \* mode_: "FIRST_FF", or what of the frame is expected next
    configured,    \* configured_
    spin_timeout,  \* spin_timeout_
    waiting,       \* the service clients whose waiting is true
    last_sync_receive_time,
    last_msg_timeout_time,  \* 0 while there is no frame
    stack,         \* activations, the innermost last: what it is doing, its c_time,
                   \* and whose call() it is, if it is one
    line,          \* bytes on their way or received, not yet read
    alive,         \* the host still answers
    heard,         \* ticks since a frame that renews the connection, and whether
                   \* the time stored for it was already over
    busy,          \* ticks since spinOnce() was last entered
    age,           \* ticks since the first byte of the current frame was read
    excuse         \* why the current frame may be abandoned early, see Abandon

frame == <<mode, last_msg_timeout_time, age, excuse>>
sync == <<last_sync_receive_time, heard>>
vars == <<time, frame, configured, spin_timeout, waiting, sync, stack, line, alive, busy>>

\* Differences of uint32_t.
Since(t, from) == (t - from) % Wrap

Frame == <<"ff", "mid", "end">>
Bytes == {"ff", "mid", "end"}

Top == Last(stack)
At(what) == stack # <<>> /\ Top.at = what
SetTop(what) == stack' = [stack EXCEPT ![Len(stack)].at = what]
Return == stack' = Front(stack)

\* spinOnce() returns an error: a call() around it returns false at once.
ReturnError ==
    LET below == Front(stack) IN stack' = IF below = <<>> THEN below ELSE Front(below)

NoFrame == mode' = "FIRST_FF" /\ last_msg_timeout_time' = 0 /\ age' = 0 /\ excuse' = {}

NoClient == "none"
Spin == [at |-> "read", c_time |-> time, client |-> NoClient]

Calling == \E i \in DOMAIN stack : stack[i].at = "call"

Init ==
    /\ time = 0 /\ mode = "FIRST_FF" /\ configured = FALSE /\ waiting = Clients
    /\ spin_timeout = 0
    /\ last_sync_receive_time = 0 /\ last_msg_timeout_time = 0
    /\ stack = <<>> /\ line = <<>> /\ alive = TRUE
    /\ heard = [ago |-> 0, late |-> FALSE] /\ busy = 0 /\ age = 0 /\ excuse = {}

----------------------------------------------------------------------------
(* The world *)

\* The clock ticks, inside callbacks too.  A wrap-around makes the comparison
\* with last_msg_timeout_time meaningless.
Tick ==
    /\ busy < MaxBusy
    /\ time' = (time + 1) % Wrap
    /\ busy' = busy + 1
    /\ heard' = [heard EXCEPT !.ago = IF @ > LOST THEN @ ELSE @ + 1]
    /\ age' = IF mode = "FIRST_FF" \/ age > SERIAL_MSG_TIMEOUT THEN age ELSE age + 1
    /\ UNCHANGED <<mode, last_msg_timeout_time, excuse, configured, waiting,
                   last_sync_receive_time, stack, line, alive>>

HostSends ==
    /\ alive
    /\ Len(line) + 3 <= MaxLine
    /\ line' = line \o Frame
    /\ UNCHANGED <<time, frame, configured, waiting, stack, alive, busy, sync>>

\* A byte is lost on the line.
Lose ==
    /\ line # <<>> /\ line' = Tail(line)
    /\ UNCHANGED <<time, frame, configured, waiting, stack, alive, busy, sync>>

HostDies ==
    /\ alive /\ alive' = FALSE
    /\ UNCHANGED <<time, frame, configured, waiting, stack, line, busy, sync>>

----------------------------------------------------------------------------
(* spinOnce() *)

\* Mutant: only an answer ends the loop.
Waits_on == Top.client \in waiting

\* The loop of the innermost ServiceClient::call() goes on.
Waits == Top.client \in waiting /\ configured

CanSpin == Len(SelectSeq(stack, LAMBDA a : a.at # "call")) < MaxDepth

\* Mutant: a frame whose time is just up counts as late.
TimedOut_early(t) == mode # "FIRST_FF" /\ t >= last_msg_timeout_time

TimedOut(t) == mode # "FIRST_FF" /\ t > last_msg_timeout_time

\* Mutant: the times are compared before they are subtracted.
spinOnce_compares ==
    /\ CanSpin
    /\ stack = <<>> \/ (At("call") /\ Waits)
    /\ stack' = Append(stack, Spin)
    /\ configured' = (configured /\ time >= last_sync_receive_time
                                /\ ~(Since(time, last_sync_receive_time) > LOST))
    /\ IF TimedOut(time) THEN NoFrame ELSE UNCHANGED frame
    /\ busy' = 0
    /\ UNCHANGED <<time, waiting, line, alive, sync>>

\* The beginning of spinOnce(): the main loop calls it, and the loop of
\* ServiceClient::call() while it waits and is connected.
spinOnce ==
    /\ CanSpin
    /\ stack = <<>> \/ (At("call") /\ Waits)
    /\ stack' = Append(stack, Spin)
    /\ configured' = (configured /\ ~(Since(time, last_sync_receive_time) > LOST))
    /\ IF TimedOut(time) THEN NoFrame ELSE UNCHANGED frame
    /\ busy' = 0
    /\ UNCHANGED <<time, waiting, line, alive, sync>>

\* The sketch limits the time of spinOnce().
setSpinTimeout(timeout) ==
    /\ stack = <<>> \/ At("callback")
    /\ timeout # spin_timeout
    /\ spin_timeout' = timeout
    /\ UNCHANGED <<time, frame, configured, waiting, stack, line, alive, busy, sync>>

SpinExpired == spin_timeout > 0 /\ Since(time, Top.c_time) > spin_timeout

\* SPIN_TIMEOUT: what is on the line stays there, in the middle of a frame, too,
\* and a call() gives up.
SpinTimesOut ==
    /\ At("read") /\ SpinExpired
    /\ ReturnError
    /\ UNCHANGED <<time, frame, configured, waiting, line, alive, busy, sync>>

Reads(b) ==
    /\ At("read") /\ ~SpinExpired
    /\ line # <<>> /\ Head(line) = b /\ line' = Tail(line)

\* The first byte: the frame gets its time from the c_time of this activation,
\* which may have passed long ago.
ReadFirst ==
    /\ Reads("ff") /\ mode = "FIRST_FF"
    /\ mode' = "mid"
    /\ last_msg_timeout_time' = (Top.c_time + SERIAL_MSG_TIMEOUT) % Wrap
    /\ age' = 0
    /\ excuse' = {x \in {"stale", "wrap"} :
                    \/ (x = "stale" /\ Top.c_time # time)
                    \/ (x = "wrap" /\ Top.c_time + SERIAL_MSG_TIMEOUT >= Wrap)}
    /\ UNCHANGED <<time, configured, waiting, stack, alive, busy, sync>>

\* A byte that starts no frame: after a long time in here, give up.
ReadNoise ==
    /\ \E b \in Bytes \ {"ff"} : Reads(b)
    /\ mode = "FIRST_FF"
    /\ \/ /\ Since(time, Top.c_time) > SYNC
          /\ configured' = FALSE /\ ReturnError
       \/ /\ ~(Since(time, Top.c_time) > SYNC)
          /\ UNCHANGED <<configured, stack>>
    /\ UNCHANGED <<time, frame, waiting, alive, busy, sync>>

ReadMiddle ==
    /\ mode = "mid" /\ Reads("mid")
    /\ mode' = "end"
    /\ UNCHANGED <<time, configured, waiting, stack, alive, busy, last_msg_timeout_time, age,
                   excuse, sync>>

\* A byte that does not fit is found by one of the checks (protocol version, size
\* checksum, topic id, checksum) and ends the frame.
ReadWrong ==
    /\ mode # "FIRST_FF"
    /\ \E b \in Bytes :
        Reads(b) /\ b # mode
    /\ NoFrame
    /\ configured' \in {configured, FALSE}   \* FALSE if it is the topic id
    /\ UNCHANGED <<time, waiting, stack, alive, busy, sync>>

\* The last byte completes a frame; what it is decides which of the actions below
\* it is.
Complete == mode = "end" /\ Reads("end") /\ NoFrame

\* ID_PUBLISHER: requestSyncTime(), negotiateTopics(), return SPIN_ERR, with which
\* call() gives up.
ReadTopics ==
    /\ Complete
    /\ configured' = TRUE
    /\ last_sync_receive_time' = Top.c_time
    /\ ReturnError
    /\ heard' = [ago |-> 0, late |-> Top.c_time # time]
    /\ UNCHANGED <<time, waiting, alive, busy>>

\* ID_TIME: syncTime()
ReadTime ==
    /\ Complete
    /\ last_sync_receive_time' = time
    /\ heard' = [ago |-> 0, late |-> FALSE]
    /\ UNCHANGED <<time, configured, waiting, stack, alive, busy>>

ReadTxStop ==
    /\ Complete
    /\ configured' = FALSE
    /\ UNCHANGED <<time, waiting, stack, alive, busy, sync>>

\* A message for a subscriber: its callback runs, inside the loop.
ReadData ==
    /\ Complete
    /\ SetTop("callback")
    /\ UNCHANGED <<time, configured, waiting, alive, busy, sync>>

\* The callback of a service client.
ReadResponse ==
    /\ Complete
    /\ \E c \in Clients : waiting' = waiting \ {c}
    /\ UNCHANGED <<time, configured, stack, alive, busy, sync>>

\* Nothing left to read, although more may be on its way: return.
EndSpin ==
    /\ At("read") /\ ~SpinExpired /\ Return
    /\ UNCHANGED <<time, frame, configured, waiting, line, alive, busy, sync>>

CallbackReturns ==
    /\ At("callback") /\ SetTop("read")
    /\ UNCHANGED <<time, frame, configured, waiting, line, alive, busy, sync>>

----------------------------------------------------------------------------
(* ServiceClient::call(), from the main loop or from a callback, also from one *)
(* that runs inside a call() of this client or of another                     *)

call(c) ==
    /\ stack = <<>> \/ At("callback")
    /\ CanSpin /\ configured
    /\ waiting' = waiting \cup {c}
    /\ stack' = Append(stack, [at |-> "call", c_time |-> 0, client |-> c])
    /\ UNCHANGED <<time, frame, configured, line, alive, busy, sync>>

CallReturns ==
    /\ At("call") /\ ~Waits
    /\ Return
    /\ UNCHANGED <<time, frame, configured, waiting, line, alive, busy, sync>>

Device ==
    \/ spinOnce \/ SpinTimesOut \/ ReadFirst \/ ReadNoise \/ ReadMiddle \/ ReadWrong \/ ReadTopics
    \/ ReadTime \/ ReadTxStop \/ ReadData \/ ReadResponse \/ EndSpin
    \/ CallbackReturns \/ CallReturns

Next ==
    \/ (Tick \/ HostSends \/ Lose \/ HostDies \/ Device) /\ UNCHANGED spin_timeout
    \/ \E c \in Clients : call(c) /\ UNCHANGED spin_timeout
    \/ \E timeout \in SpinTimeouts : setSpinTimeout(timeout)

\* The program of the device keeps running and the clock keeps ticking.
Spec ==
    /\ Init /\ [][Next]_vars
    /\ WF_vars(Device /\ UNCHANGED spin_timeout)
    /\ WF_vars(Tick /\ UNCHANGED spin_timeout)

----------------------------------------------------------------------------
(* Properties *)

Activations ==
    [at : {"read", "callback", "call"}, c_time : 0 .. Wrap - 1,
     client : Clients \cup {NoClient}]

TypeOK ==
    /\ {time, last_sync_receive_time, last_msg_timeout_time} \subseteq 0 .. Wrap - 1
    /\ mode \in {"FIRST_FF", "mid", "end"}
    /\ {configured, alive} \subseteq BOOLEAN /\ waiting \subseteq Clients
    /\ spin_timeout \in SpinTimeouts
    /\ stack \in Seq(Activations) /\ line \in Seq(Bytes)
    /\ heard \in [ago : 0 .. LOST + 1, late : BOOLEAN]
    /\ busy \in 0 .. MaxBusy
    /\ age \in 0 .. SERIAL_MSG_TIMEOUT + 1 /\ excuse \subseteq {"stale", "wrap"}

\* Until the silence is too long, the difference of the two wrapping times is how
\* long it is.
SilenceMeasured ==
    ~heard.late /\ heard.ago <= LOST => Since(time, last_sync_receive_time) = heard.ago

\* Without an excuse a frame has exactly what is left of SERIAL_MSG_TIMEOUT, and
\* the clock does not wrap before it is over.
DeadlineAhead ==
    mode # "FIRST_FF" /\ excuse = {} /\ age <= SERIAL_MSG_TIMEOUT
        => last_msg_timeout_time - time = SERIAL_MSG_TIMEOUT - age

\* The stored times mean what the comparisons of spinOnce() take them for, through
\* nested activations and wrap-arounds of the clock.
TimesInv == TypeOK /\ SilenceMeasured /\ DeadlineAhead

\* spinOnce() declares the connection lost only after LOST without a frame that
\* renews it, across wrap-arounds of the clock; the exception is a request for
\* topics that was read by an activation whose c_time is older than the read (a
\* callback, perhaps one that called a service, ran in between): the connection
\* it makes is given a time of the past.
LossJustified ==
    [][spinOnce /\ configured /\ ~configured' => heard.ago > LOST \/ heard.late]_vars

\* A frame that has begun is abandoned for its age only if SERIAL_MSG_TIMEOUT has
\* passed since its first byte, unless that byte was read by an activation
\* with an old c_time or the end of its time is beyond the wrap-around.
AbandonJustified ==
    [][spinOnce /\ mode # "FIRST_FF" /\ mode' = "FIRST_FF"
        => age > SERIAL_MSG_TIMEOUT \/ excuse # {}]_vars

\* When the host falls silent every blocked call() comes back, also from inside
\* a callback that another call() runs: nested spinOnce() activations do not keep
\* each other connected.
LostHostEndsCall == ~alive ~> ~Calling
=============================================================================

---------------------------- MODULE ServiceCalls ----------------------------
(***************************************************************************)
(* Service calls across the bridge (ServiceServer and ServiceClient in     *)
(* topic_handlers.h, Converter in services.h), with the two threads of     *)
(* serial_node.cpp: the io thread, which runs the session, and the         *)
(* executor, the thread in rclcpp::spin(), which runs ROS callbacks.       *)
(*                                                                         *)
(* A ROS node calls a service of the device: the executor runs             *)
(* ServiceServer::service_callback(), which sends the request and polls    *)
(* get_response_ until the io thread's response_handle() has set it, or    *)
(* until it has waited long enough.                                        *)
(*                                                                         *)
(* The device calls a service of a ROS node: the io thread runs            *)
(* ServiceClient::handle(), which blocks it until the executor has taken   *)
(* in the answer, or until it has waited long enough.                      *)
(*                                                                         *)
(* A ServiceServer is created by the session that learns of the service    *)
(* and destroyed by stop(); it is known by its name and the number of that *)
(* session.  There is one Converter for each service TYPE, it outlives     *)
(* sessions, and it holds the ROS service and the callback into the        *)
(* ServiceServer.  A call that reaches a destroyed ServiceServer has no    *)
(* defined outcome: `undefined' records it, and no property says anything  *)
(* about answers given afterwards.                                         *)
(***************************************************************************)
EXTENDS Integers, Sequences

CONSTANTS
  Names,        \* services that the device offers
  Types,        \* service types, the keys of ConversionMap
  TypeOf,       \* the type of each service
  MaxCalls,     \* bound: calls made by ROS nodes
  MaxSessions   \* bound: sessions

None == "none"

ASSUME TypeOfAssumption == TypeOf \in [Names -> Types]
ASSUME NamesAssumption == None \notin Names
ASSUME MaxCallsAssumption == MaxCalls \in Nat
ASSUME MaxSessionsAssumption == MaxSessions \in Nat

VARIABLES
  session,    \* number of the present or last session
  active,     \* whether it is active
  server,     \* session that created the live ServiceServer of a name, 0: none
  converter,  \* type |-> [offers: name, for: session of the ServiceServer]
  get_response, response_buffer,  \* of the live ServiceServer of each name
  outbox,     \* requests waiting for the io thread's write_buffer()
  toDevice, fromDevice,   \* requests and responses on the link
  executor,   \* the call that service_callback() is working on, or Free; it is
              \* at the polling loop, or copying the response, maybe in a race
  calls,      \* how many calls ROS nodes have made
  outcome,    \* what became of each call
  client,     \* ServiceClient::handle() on the io thread
  pending,    \* the ROS client library's table of pending requests
  undefined   \* a destroyed ServiceServer has been used

serverVars == <<session, active, server, converter>>
linkVars == <<outbox, toDevice, fromDevice>>
callVars == <<executor, calls, outcome>>
clientVars == <<client, pending>>
vars == <<serverVars, get_response, response_buffer, linkVars, callVars,
          clientVars, undefined>>

\* The outcome of a call is the call whose response it was given, or one of
Open == 0        \* no outcome yet
TimedOut == -1   \* the default response, after the time limit
Torn == -2       \* pieces of two responses

Free == [name |-> None, for |-> 0, id |-> 0, at |-> "poll"]
NoService == [offers |-> None, for |-> 0]

Init ==
  /\ session = 0 /\ active = FALSE
  /\ server = [n \in Names |-> 0]
  /\ converter = [t \in Types |-> NoService]
  /\ get_response = [n \in Names |-> FALSE]
  /\ response_buffer = [n \in Names |-> 0]
  /\ outbox = <<>> /\ toDevice = <<>> /\ fromDevice = <<>>
  /\ executor = Free /\ calls = 0
  /\ outcome = [c \in 1 .. MaxCalls |-> Open]
  /\ client = "idle" /\ pending = FALSE
  /\ undefined = FALSE

\* The io thread is not blocked in ServiceClient::handle().
IoFree == client = "idle"

-----------------------------------------------------------------------------
(* The session, on the io thread. *)

Start ==
  /\ IoFree /\ ~active /\ session < MaxSessions
  /\ session' = session + 1 /\ active' = TRUE
  /\ UNCHANGED <<server, converter, get_response, response_buffer, linkVars,
                 callVars, clientVars, undefined>>

\* setup_service_server_publisher() and _subscriber() for the service n: the
\* first of the two creates the ServiceServer, whose constructor has the
\* Converter of its type offer the service n from now on.
SetupServiceServer(n) ==
  /\ IoFree /\ active /\ server[n] = 0
  /\ server' = [server EXCEPT ![n] = session]
  /\ converter' = [converter EXCEPT ![TypeOf[n]] = [offers |-> n, for |-> session]]
  /\ get_response' = [get_response EXCEPT ![n] = FALSE]
  /\ response_buffer' = [response_buffer EXCEPT ![n] = 0]
  /\ UNCHANGED <<session, active, linkVars, callVars, clientVars, undefined>>

\* stop() destroys the ServiceServers.  What the device has received it may
\* still answer in the next session.
Stop ==
  /\ IoFree /\ active
  /\ active' = FALSE
  /\ server' = [n \in Names |-> 0]
  /\ UNCHANGED <<session, converter, get_response, response_buffer, linkVars,
                 callVars, clientVars, undefined>>

\* write_buffer() of a request that write_message() queued for this thread.
write_buffer ==
  /\ IoFree /\ outbox # <<>>
  /\ toDevice' = IF active THEN Append(toDevice, Head(outbox)) ELSE toDevice
  /\ outbox' = Tail(outbox)
  /\ UNCHANGED <<serverVars, get_response, response_buffer, fromDevice,
                 callVars, clientVars, undefined>>

\* What a response for the service n that is stored, or an empty one, which sets the
\* length, does to a call that is just copying the one before it: nothing locks the
\* buffer.
Race(n) ==
  IF executor.at = "copy" /\ executor.name = n /\ server[n] # 0
    THEN [executor EXCEPT !.at = "race"] ELSE executor

\* A response comes in.  Without a callback for it it is not recognised.  One that is
\* empty or bigger than response_buffer_ is not stored, and takes back what
\* get_response_ said of the one before it.
response_handle(size) ==
  /\ IoFree /\ active /\ fromDevice # <<>>
  /\ LET r == Head(fromDevice) IN
     IF server[r.name] = 0 THEN UNCHANGED <<get_response, response_buffer>>
     ELSE /\ response_buffer' = [response_buffer EXCEPT ![r.name] =
                                  IF size = "fits" THEN r.id ELSE @]
          /\ get_response' = [get_response EXCEPT ![r.name] = (size = "fits")]
  /\ executor' = IF size = "large" THEN executor ELSE Race(Head(fromDevice).name)
  /\ fromDevice' = Tail(fromDevice)
  /\ UNCHANGED <<serverVars, outbox, toDevice, calls, outcome, clientVars, undefined>>

-----------------------------------------------------------------------------
(* ROS nodes call services of the device, on the executor. *)

Alive(e) == server[e.name] = e.for

\* Mutant: a response that is still there from the last call is taken.
service_callback_noReset(n) ==
  LET target == converter[TypeOf[n]].for IN
  /\ executor = Free /\ calls < MaxCalls
  /\ converter[TypeOf[n]].offers = n
  /\ calls' = calls + 1
  /\ IF server[n] # target
       THEN undefined' = TRUE /\ UNCHANGED <<executor, get_response, outbox>>
       ELSE /\ executor' = [name |-> n, for |-> target, id |-> calls', at |-> "poll"]
            /\ outbox' = Append(outbox, [name |-> n, id |-> calls'])
            /\ UNCHANGED <<get_response, undefined>>
  /\ UNCHANGED <<serverVars, response_buffer, toDevice, fromDevice, outcome, clientVars>>

\* A call of the service n, as long as ROS offers it: Converter's callback
\* goes to the ServiceServer that was created with it.
service_callback(n) ==
  LET target == converter[TypeOf[n]].for IN
  /\ executor = Free /\ calls < MaxCalls
  /\ converter[TypeOf[n]].offers = n
  /\ calls' = calls + 1
  /\ IF server[n] # target
       THEN undefined' = TRUE /\ UNCHANGED <<executor, get_response, outbox>>
       ELSE /\ executor' = [name |-> n, for |-> target, id |-> calls', at |-> "poll"]
            /\ get_response' = [get_response EXCEPT ![n] = FALSE]
            /\ outbox' = Append(outbox, [name |-> n, id |-> calls'])
            /\ UNCHANGED undefined
  /\ UNCHANGED <<serverVars, response_buffer, toDevice, fromDevice, outcome, clientVars>>

Polling == executor # Free /\ Alive(executor) /\ executor.at = "poll"

\* The polling loop sees get_response_ set and ends.
GotResponse ==
  /\ Polling /\ get_response[executor.name]
  /\ executor' = [executor EXCEPT !.at = "copy"]
  /\ UNCHANGED <<serverVars, get_response, response_buffer, linkVars, calls,
                 outcome, clientVars, undefined>>

\* The response is copied out of response_buffer_ and given to the caller.
CopyResponse ==
  /\ executor # Free /\ Alive(executor) /\ executor.at # "poll"
  /\ \E copy \in {response_buffer[executor.name]} \cup
                  (IF executor.at = "race" THEN {Torn} ELSE {}) :
       outcome' = [outcome EXCEPT ![executor.id] = copy]
  /\ executor' = Free
  /\ UNCHANGED <<serverVars, get_response, response_buffer, linkVars, calls,
                 clientVars, undefined>>

\* Mutant: the polling loop has no time limit, only a session's end ends it.
NoResponse_never ==
  /\ Polling /\ ~get_response[executor.name] /\ ~active
  /\ outcome' = [outcome EXCEPT ![executor.id] = TimedOut]
  /\ executor' = Free
  /\ UNCHANGED <<serverVars, get_response, response_buffer, linkVars, calls,
                 clientVars, undefined>>

\* It has polled for timeout_no_response_ms_: the caller gets the default
\* response, even if get_response_ was set during the last sleep_for().
NoResponse ==
  /\ Polling
  /\ outcome' = [outcome EXCEPT ![executor.id] = TimedOut]
  /\ executor' = Free
  /\ UNCHANGED <<serverVars, get_response, response_buffer, linkVars, calls,
                 clientVars, undefined>>

\* It polls, or copies from, a ServiceServer that stop() has destroyed.
PollsDestroyed ==
  /\ executor # Free /\ ~Alive(executor)
  /\ undefined' = TRUE /\ executor' = Free
  /\ UNCHANGED <<serverVars, get_response, response_buffer, linkVars, calls,
                 outcome, clientVars>>

-----------------------------------------------------------------------------
(* The device, as far as the server can tell: it answers requests in the   *)
(* order in which they arrive, and frames can be lost on the way.          *)

DeviceAnswers ==
  /\ toDevice # <<>>
  /\ fromDevice' = Append(fromDevice, Head(toDevice))
  /\ toDevice' = Tail(toDevice)
  /\ UNCHANGED <<serverVars, get_response, response_buffer, outbox, callVars,
                 clientVars, undefined>>

FrameLost ==
  /\ \/ toDevice # <<>> /\ toDevice' = Tail(toDevice) /\ UNCHANGED fromDevice
     \/ fromDevice # <<>> /\ fromDevice' = Tail(fromDevice) /\ UNCHANGED toDevice
  /\ UNCHANGED <<serverVars, get_response, response_buffer, outbox, callVars,
                 clientVars, undefined>>

-----------------------------------------------------------------------------
(* The device calls a service of a ROS node: ServiceClient::handle().      *)

\* async_send_request(), then wait_for() blocks the io thread.
handle ==
  /\ IoFree /\ active
  /\ client' = "waiting" /\ pending' = TRUE
  /\ UNCHANGED <<serverVars, get_response, response_buffer, linkVars, callVars, undefined>>

\* The answer reaches the future only when the executor takes it in.
ExecutorTakesAnswer ==
  /\ executor = Free /\ pending
  /\ pending' = FALSE
  /\ client' = IF client = "waiting" THEN "ready" ELSE client
  /\ UNCHANGED <<serverVars, get_response, response_buffer, linkVars, callVars, undefined>>

\* wait_for() returns ready: the response is written to the device.
HandleReady ==
  /\ client = "ready"
  /\ client' = "idle"
  /\ UNCHANGED <<serverVars, get_response, response_buffer, linkVars, callVars,
                 pending, undefined>>

\* wait_for() returns without the answer, which may still come before the request
\* is removed.
WaitTimesOut ==
  /\ client = "waiting"
  /\ client' = "expired"
  /\ UNCHANGED <<serverVars, get_response, response_buffer, linkVars, callVars,
                 pending, undefined>>

\* Mutant: the request is left in the table of pending requests.
HandleTimeout_leaves ==
  /\ client = "expired"
  /\ client' = "idle"
  /\ UNCHANGED <<serverVars, get_response, response_buffer, linkVars, callVars,
                 pending, undefined>>

\* remove_pending_request(), if the request is still there.
HandleTimeout ==
  /\ client = "expired"
  /\ client' = "idle" /\ pending' = FALSE
  /\ UNCHANGED <<serverVars, get_response, response_buffer, linkVars, callVars, undefined>>

-----------------------------------------------------------------------------
Io ==
  \/ Start \/ Stop \/ write_buffer \/ handle
  \/ \E size \in {"fits", "empty", "large"} : response_handle(size)
  \/ \E n \in Names : SetupServiceServer(n)

Executor ==
  \/ \E n \in Names : service_callback(n)
  \/ GotResponse \/ CopyResponse \/ NoResponse \/ PollsDestroyed \/ ExecutorTakesAnswer

\* The last session that the bound allows is over.
Ended ==
  /\ session = MaxSessions /\ ~active
  /\ UNCHANGED vars

Next ==
  \/ Io \/ Executor
  \/ DeviceAnswers \/ FrameLost
  \/ HandleReady \/ WaitTimesOut \/ HandleTimeout
  \/ Ended

Spec == Init /\ [][Next]_vars

\* Both waits are bounded by the code, and a thread that can end its wait
\* does.
FairSpec ==
  /\ Spec
  /\ WF_vars(GotResponse \/ CopyResponse \/ NoResponse \/ PollsDestroyed)
  /\ WF_vars(HandleReady \/ WaitTimesOut \/ HandleTimeout)

-----------------------------------------------------------------------------
(* Properties. *)

Ids == 1 .. MaxCalls
Answered(c) == outcome[c] \in Ids
Request == [name : Names, id : Ids]

(* The state stays within these values. *)
TypeOK ==
  /\ session \in 0 .. MaxSessions /\ active \in BOOLEAN
  /\ server \in [Names -> 0 .. MaxSessions]
  /\ converter \in [Types -> {NoService} \cup [offers : Names, for : 1 .. MaxSessions]]
  /\ get_response \in [Names -> BOOLEAN] /\ response_buffer \in [Names -> 0 .. MaxCalls]
  /\ outbox \in Seq(Request) /\ toDevice \in Seq(Request) /\ fromDevice \in Seq(Request)
  /\ executor \in {Free} \cup [name : Names, for : 1 .. MaxSessions, id : Ids,
                               at : {"poll", "copy", "race"}]
  /\ calls \in 0 .. MaxCalls
  /\ outcome \in [Ids -> {Open, TimedOut, Torn} \cup Ids]
  /\ client \in {"idle", "waiting", "expired", "ready"} /\ pending \in BOOLEAN
  /\ undefined \in BOOLEAN

(* No response of the device is given to two callers, whatever was lost,    *)
(* late or repeated: service_callback() clears get_response_ before it      *)
(* sends, so that the last caller's response cannot be taken again.         *)
NoAnswerTwice == ~undefined =>
  \A c, d \in Ids : Answered(c) /\ Answered(d) /\ c # d => outcome[c] # outcome[d]

GaveUpBefore(c) == \E d \in 1 .. c - 1 : outcome[d] = TimedOut

(* A caller gets another call's response, or pieces of two, only after some *)
(* earlier call of service_callback() gave up waiting: lost frames, new     *)
(* sessions and the buffer without a lock alone never mix up answers.       *)
MismatchNeedsTimeout == ~undefined =>
  \A c \in Ids : outcome[c] \notin {Open, TimedOut, c} =>
    outcome[c] < c /\ GaveUpBefore(c)

(* ServiceClient::handle() leaves no request in the table of pending        *)
(* requests when it returns, not even when the answer races the timeout.    *)
NothingPending == IoFree => ~pending

(* A live ServiceServer belongs to the present session, and the one that a  *)
(* call uses is the present session's or gone for good.                     *)
ServersOfSession ==
  /\ active => session > 0
  /\ \A n \in Names : server[n] # 0 => active /\ server[n] = session
  /\ executor # Free =>
       /\ executor.for <= session /\ executor.id = calls
       /\ active /\ executor.for = session => Alive(executor)

IdsOf(q) == {q[i].id : i \in DOMAIN q}
Distinct(q) == \A i, j \in DOMAIN q : q[i].id = q[j].id => i = j
InFlight == IdsOf(outbox) \cup IdsOf(toDevice) \cup IdsOf(fromDevice)

\* The response c can still be given to a caller: nobody has got it.
Unused(c) == c \in 1 .. calls /\ \A d \in Ids : outcome[d] # c

(* A request and its response exist once: on its way, or in the buffer that *)
(* the present call looks at, or with a caller.                             *)
OnePlace ==
  /\ Distinct(outbox) /\ Distinct(toDevice) /\ Distinct(fromDevice)
  /\ IdsOf(outbox) \cap (IdsOf(toDevice) \cup IdsOf(fromDevice)) = {}
  /\ IdsOf(toDevice) \cap IdsOf(fromDevice) = {}
  /\ \A c \in InFlight : Unused(c)
  /\ executor # Free /\ Alive(executor)
       /\ (executor.at # "poll" \/ get_response[executor.name]) =>
            /\ Unused(response_buffer[executor.name])
            /\ response_buffer[executor.name] \notin InFlight
  /\ \A c, d \in Ids : Answered(c) /\ Answered(d) /\ c # d => outcome[c] # outcome[d]
  /\ \A c \in Ids :
       /\ outcome[c] <= calls
       /\ c > calls => outcome[c] = Open

(* Every call that has returned has an outcome, and two responses can meet  *)
(* in the buffer only when an earlier call gave up.                         *)
ReturnedHaveOutcome == ~undefined =>
  /\ \A c \in 1 .. calls : outcome[c] # Open \/ (executor # Free /\ c = executor.id)
  /\ executor # Free /\ Alive(executor) /\ executor.at = "race" => GaveUpBefore(executor.id)

(* What holds between any two steps of the two threads; NoAnswerTwice and   *)
(* MismatchNeedsTimeout follow from it.                                     *)
CallsInv ==
  /\ TypeOK
  /\ ServersOfSession
  /\ OnePlace
  /\ ReturnedHaveOutcome
  /\ MismatchNeedsTimeout
  /\ pending => client \in {"waiting", "expired"}

(* The executor may wait for the io thread in service_callback() while the  *)
(* io thread waits for the executor in handle(); both waits end.            *)
WaitsEnd ==
  /\ executor # Free ~> executor = Free
  /\ ~IoFree ~> IoFree
=============================================================================

---------------------------- MODULE SerialClient ----------------------------
(***************************************************************************)
(* rosserial_python: SerialClient with its reading thread run(), its       *)
(* writing thread processWriteQueue() and the ROS callbacks of Subscriber  *)
(* and ServiceServer, started over and over by nodes/serial_node.py (on a  *)
(* serial port) or by RosSerialServer (on a TCP connection), together with *)
(* the device of RosLibNode.                                               *)
(*                                                                         *)
(* An exception that no handler on its way catches ends the thread it is   *)
(* raised in: in processWriteQueue() that is the message too large for the *)
(* device's buffer (_send() formats a name that does not exist), in run()  *)
(* an AttributeError, IndexError or ServiceException of a packet handler,  *)
(* and the AttributeError that an IOError of a socket turns into.          *)
(***************************************************************************)
EXTENDS RosLibNode

CONSTANTS Callers,     \* ROS nodes that call the device's service, once each
          MaxFaults,   \* bound: frames lost, reads failed,
                       \* connections broken, shutdowns
          MaxRestarts, \* bound: clients after the first
          MaxQueue,    \* bound: entries of write_queue
          MaxDown      \* bound: frames on the way to the device

VARIABLES
  client,    \* the SerialClient object
  queue,     \* write_queue
  ros,       \* what outlives a client in the ROS process
  callers, response,
  faults

clientVars == <<client, queue, ros, callers, response>>
vars == <<devVars, up, down, clientVars, faults>>

\* __init__(): callbacks holds the ids that have a handler, ids the services
\* whose srv.id is set; requestTopics() is the last thing it does.
NewClient ==
  [run |-> "reading", why |-> None, writing |-> TRUE, callbacks |-> {}, ids |-> {},
   services |-> {}, subscribed |-> FALSE, restarts |-> 0]

NoCalls == [c \in Callers |-> [st |-> "idle", answer |-> None, alone |-> TRUE]]

Init ==
  /\ DevInit
  /\ client = NewClient /\ queue = <<<<"topics">>>>
  /\ ros \in [port : {"serial", "tcp"}, served : {FALSE}, available : {FALSE},
              shutdown : {"no"}]
  /\ callers = NoCalls
  /\ response = None /\ faults = 0

Put(item) == queue' = Append(queue, item)

\* What port.flushInput() leaves of s: what has reached the host is thrown
\* away, the rest is still on the line.  RosSerialServer's does nothing.
Flushed(s) ==
  {SubSeq(s, k + 1, Len(s)) : k \in IF ros.port = "tcp" THEN {0} ELSE 0 .. Len(s)}

requestTopics(input) ==
  /\ up' \in Flushed(input)
  /\ Put(<<"topics">>)

-----------------------------------------------------------------------------
\* run(): one packet, by its topic id.  The loop ends when the writing thread
\* is dead.
Packet == Head(up)
Reads(kind) ==
  /\ client.run = "reading" /\ client.writing /\ Len(queue) < MaxQueue
  /\ up # <<>> /\ Packet[1] = kind
Consume == up' = Tail(up)
Same == UNCHANGED <<devVars, down, faults>>

\* run() is left: at its end, by an exception of a handler, or by the
\* RuntimeError of a closed connection.
Leaves(why) == client' = [client EXCEPT !.run = "dead", !.why = why]

setupPublisher ==
  /\ Reads("info") /\ Packet[2] = "pub"
  /\ Consume
  /\ client' = [client EXCEPT !.callbacks = @ \cup {"data"}]
  /\ Same /\ UNCHANGED <<queue, ros, callers, response>>

setupSubscriber ==
  /\ Reads("info") /\ Packet[2] = "sub"
  /\ Consume
  /\ client' = [client EXCEPT !.subscribed = TRUE]
  /\ Same /\ UNCHANGED <<queue, ros, callers, response>>

\* ServiceServer(): rospy refuses a name this process already serves, which
\* the handler logs; the halves then have no service to attach to.
setupServiceServer(half) ==
  /\ Reads("info") /\ Packet[2] = "server" /\ Packet[3] = half
  /\ Consume
  /\ LET known == "server" \in client.services \/ ~ros.served
     IN  client' = IF ~known THEN client
                   ELSE [client EXCEPT
                     !.services = @ \cup {"server"},
                     !.callbacks = @ \cup (IF half = "pub" THEN {"response"} ELSE {}),
                     !.ids = @ \cup (IF half = "sub" THEN {"server"} ELSE {})]
  /\ ros' = [ros EXCEPT !.served = TRUE]
  /\ Same /\ UNCHANGED <<queue, callers, response>>
setupServiceServerPublisher == setupServiceServer("pub")
setupServiceServerSubscriber == setupServiceServer("sub")

\* ServiceClient() waits in wait_for_service() as long as nobody offers the
\* service; the reading thread waits with it.
setupServiceClient(half) ==
  /\ Reads("info") /\ Packet[2] = "client" /\ Packet[3] = half
  /\ ros.available \/ "client" \in client.services
  /\ Consume
  /\ client' = [client EXCEPT
       !.services = @ \cup {"client"},
       !.callbacks = @ \cup (IF half = "pub" THEN {"call"} ELSE {}),
       !.ids = @ \cup (IF half = "sub" THEN {"client"} ELSE {})]
  /\ Same /\ UNCHANGED <<queue, ros, callers, response>>
setupServiceClientPublisher == setupServiceClient("pub")
setupServiceClientSubscriber == setupServiceClient("sub")

handleTimeRequest ==
  /\ Reads("time")
  /\ Consume /\ Put(<<"time">>)
  /\ Same /\ UNCHANGED <<client, ros, callers, response>>

\* No answer for a parameter that is not there; an IndexError for a list
\* without elements.
handleParameterRequest ==
  /\ Reads("param")
  /\ Consume
  /\ \/ Put(<<"value", Packet[2]>>) /\ UNCHANGED client
     \/ UNCHANGED <<queue, client>>
     \/ Leaves("exception") /\ UNCHANGED queue
  /\ Same /\ UNCHANGED <<ros, callers, response>>

handleLoggingRequest ==
  /\ Reads("log")
  /\ Consume
  /\ Same /\ UNCHANGED clientVars

\* Mutant: a message without a handler is dropped.
NotConfigured_drops ==
  /\ \E kind \in {"data", "response", "call"} \ client.callbacks : Reads(kind)
  /\ Consume
  /\ Same /\ UNCHANGED clientVars

\* A KeyError: an id without a handler.
NotConfigured ==
  /\ \E kind \in {"data", "response", "call"} \ client.callbacks : Reads(kind)
  /\ requestTopics(Tail(up))
  /\ Same /\ UNCHANGED <<client, ros, callers, response>>

Publisher_handlePacket ==
  /\ Reads("data") /\ "data" \in client.callbacks
  /\ Consume
  /\ Same /\ UNCHANGED clientVars

ServiceServer_handlePacket ==
  /\ Reads("response") /\ "response" \in client.callbacks
  /\ Consume
  /\ response' = Packet[2]
  /\ Same /\ UNCHANGED <<client, queue, ros, callers>>

\* The service is called from the reading thread.  Its failure, and an id
\* that the other half has not set, leave run() as exceptions.
ServiceClient_handlePacket ==
  /\ Reads("call") /\ "call" \in client.callbacks
  /\ Consume
  /\ \/ "client" \in client.ids /\ Put(<<"answer">>) /\ UNCHANGED client
     \/ Leaves("exception") /\ UNCHANGED queue
  /\ Same /\ UNCHANGED <<ros, callers, response>>

\* A serial port's read that times out inside a frame: both directions are
\* flushed.  A socket's read waits as long as it takes.
ReadFails ==
  /\ client.run = "reading" /\ client.writing /\ faults < MaxFaults
  /\ ros.port = "serial"
  /\ up # <<>> /\ Len(queue) < MaxQueue
  /\ faults' = faults + 1
  /\ requestTopics(Tail(up))
  /\ \E k \in {0, Len(down)} : down' = SubSeq(down, 1, k)
  /\ UNCHANGED <<devVars, client, ros, callers, response>>

\* No time request for three times the timeout, because the device is not
\* configured; the request for topics before is long gone.
SyncLost ==
  /\ client.run = "reading" /\ client.writing /\ Len(queue) < MaxQueue
  /\ ~dev.configured
  /\ <<"time">> \notin Range(up) /\ <<"topics">> \notin Range(queue \o down)
  /\ requestTopics(up)
  /\ UNCHANGED <<devVars, down, client, ros, callers, response, faults>>

\* Mutant: run() does not look at the writing thread.
RunEnds_never == FALSE /\ UNCHANGED vars

\* The loop condition of run() when the writing thread has died.
RunEnds ==
  /\ client.run = "reading" /\ ~client.writing
  /\ ~ \E half \in {"pub", "sub"} :
         /\ up # <<>> /\ Packet = <<"info", "client", half>>
         /\ ~ros.available /\ "client" \notin client.services
  /\ Leaves("end")
  /\ UNCHANGED <<devVars, up, down, queue, ros, callers, response, faults>>

\* The process ends, and its state with it.
Exits ==
  /\ client' = [NewClient EXCEPT !.run = "exited"]
  /\ queue' = <<>> /\ response' = None /\ callers' = NoCalls
  /\ ros' = [ros EXCEPT !.served = FALSE, !.available = FALSE, !.shutdown = "yes"]

StartsOver ==
  /\ client.run = "dead" /\ client.restarts < MaxRestarts
  /\ client' = [NewClient EXCEPT !.restarts = client.restarts + 1]
  /\ queue' = <<<<"topics">>>>
  /\ up' = <<>> /\ response' = None
  /\ callers' = [c \in Callers |-> IF callers[c].st = "waiting"
                                     THEN [callers[c] EXCEPT !.st = "stuck"] ELSE callers[c]]

\* nodes/serial_node.py: a new client on the same port.  The subscriptions
\* and services of the old one stay registered with ROS, and a caller that
\* waits in its ServiceServer waits for ever.
serial_node ==
  /\ ros.port = "serial" /\ StartsOver
  /\ UNCHANGED <<devVars, down, ros, faults>>

\* RosSerialServer.startSerialClient() and listen(): the subscribers and
\* services are taken back first.  A ServiceClient has no unregister(), and
\* only RuntimeErrors and socket errors of run() are caught: otherwise an
\* exception leaves listen(), and the node ends.
startSerialClient ==
  /\ ros.port = "tcp" /\ client.run = "dead"
  /\ IF client.why = "exception" \/ "client" \in client.services
       THEN Exits /\ UNCHANGED up
       ELSE StartsOver /\ ros' = [ros EXCEPT !.served = FALSE]
  /\ UNCHANGED <<devVars, down, faults>>

\* The device's connection breaks.  Between two frames inWaiting() finds it
\* closed and raises the RuntimeError that startSerialClient() catches.
\* Inside a frame, or when it is reset, the failure is an IOError: its handler
\* in run() calls flushOutput(), which RosSerialServer does not have, and the
\* AttributeError of that leaves run().
Disconnects ==
  /\ ros.port = "tcp" /\ client.run = "reading" /\ faults < MaxFaults
  /\ faults' = faults + 1
  /\ \E why \in {"socket", "exception"} : Leaves(why)
  /\ up' = <<>> /\ down' = <<>>
  /\ UNCHANGED <<devVars, queue, ros, callers, response>>

\* The hook of rospy.on_shutdown(): a stop request is queued ...
txStopRequest ==
  /\ ros.shutdown = "no" /\ client.run = "reading" /\ Len(queue) < MaxQueue
  /\ faults < MaxFaults /\ faults' = faults + 1
  /\ ros' = [ros EXCEPT !.shutdown = "hook"]
  /\ up' \in Flushed(up) /\ Put(<<"stop">>)
  /\ UNCHANGED <<devVars, down, client, callers, response>>

\* ... and once is_shutdown() holds both loops end, whatever is queued.
is_shutdown ==
  /\ ros.shutdown = "hook"
  /\ Exits
  /\ UNCHANGED <<devVars, up, down, faults>>

-----------------------------------------------------------------------------
\* processWriteQueue(), _send() and _write(): one entry.  A message larger
\* than buffer_in kills the thread.
processWriteQueue ==
  /\ client.writing /\ queue # <<>> /\ client.run = "reading" /\ Len(down) < MaxDown
  /\ IF Head(queue) = <<"large">>
       THEN client' = [client EXCEPT !.writing = FALSE] /\ UNCHANGED down
       ELSE down' = Append(down, Head(queue)) /\ UNCHANGED client
  /\ queue' = Tail(queue)
  /\ UNCHANGED <<devVars, up, ros, callers, response, faults>>

Subscriber_callback ==
  /\ client.subscribed /\ client.run = "reading" /\ queue = <<>> /\ down = <<>>
  /\ \E size \in {"message", "large"} : Put(<<size>>)
  /\ UNCHANGED <<devVars, up, down, client, ros, callers, response, faults>>

\* Mutant: the response of the last call is not cleared.
ServiceServer_callback_keeps(c) ==
  /\ callers[c].st = "idle" /\ ros.served /\ Len(queue) < MaxQueue
  /\ "server" \in client.ids
  /\ LET others == {d \in Callers : callers[d].st \in {"waiting", "stuck"}}
     IN  callers' = [d \in Callers |->
           IF d = c THEN [st |-> "waiting", answer |-> None, alone |-> others = {}]
           ELSE IF d \in others THEN [callers[d] EXCEPT !.alone = FALSE]
           ELSE callers[d]]
  /\ Put(<<"request", c>>)
  /\ UNCHANGED <<devVars, up, down, client, ros, response, faults>>

\* ServiceServer.callback(): self.response is shared by all callers, each of
\* which spins until it is set.  Without srv.id the call fails at once.
ServiceServer_callback(c) ==
  /\ callers[c].st = "idle" /\ ros.served /\ Len(queue) < MaxQueue
  /\ LET others == {d \in Callers : callers[d].st \in {"waiting", "stuck"}}
     IN  callers' = [d \in Callers |->
           IF d = c THEN [st |-> IF "server" \in client.ids THEN "waiting"
                                 ELSE IF "server" \in client.services THEN "failed"
                                 ELSE "stuck",
                          answer |-> None, alone |-> others = {}]
           ELSE IF d \in others THEN [callers[d] EXCEPT !.alone = FALSE]
           ELSE callers[d]]
  /\ IF "server" \in client.ids
       THEN response' = None /\ Put(<<"request", c>>)
       ELSE UNCHANGED <<response, queue>>
  /\ UNCHANGED <<devVars, up, down, client, ros, faults>>

ServiceServer_returns(c) ==
  /\ callers[c].st = "waiting" /\ response # None
  /\ callers' = [callers EXCEPT ![c].st = "done", ![c].answer = response]
  /\ UNCHANGED <<devVars, up, down, client, queue, ros, response, faults>>

-----------------------------------------------------------------------------
\* External: the service that the device calls appears; a frame is garbled,
\* and its reader drops it for its checksum.
ServiceAppears ==
  /\ ~ros.available /\ "client" \in program /\ client.run # "exited"
  /\ ros' = [ros EXCEPT !.available = TRUE]
  /\ UNCHANGED <<devVars, up, down, client, queue, callers, response, faults>>

FrameLost ==
  /\ faults < MaxFaults
  /\ faults' = faults + 1
  /\ \/ up # <<>> /\ up' = Tail(up) /\ UNCHANGED down
     \/ down # <<>> /\ down' = Tail(down) /\ UNCHANGED up
  /\ UNCHANGED <<devVars, clientVars>>

Run ==
  \/ setupPublisher \/ setupSubscriber
  \/ setupServiceServerPublisher \/ setupServiceServerSubscriber
  \/ setupServiceClientPublisher \/ setupServiceClientSubscriber
  \/ handleTimeRequest \/ handleParameterRequest \/ handleLoggingRequest
  \/ NotConfigured
  \/ Publisher_handlePacket
  \/ ServiceServer_handlePacket
  \/ ServiceClient_handlePacket
  \/ RunEnds

Device == (Spin \/ Sketch) /\ UNCHANGED <<clientVars, faults>>

Next ==
  \/ Device
  \/ Run
  \/ SyncLost
  \/ ReadFails
  \/ serial_node \/ startSerialClient
  \/ Disconnects
  \/ txStopRequest \/ is_shutdown
  \/ processWriteQueue
  \/ Subscriber_callback
  \/ \E c \in Callers : ServiceServer_callback(c) \/ ServiceServer_returns(c)
  \/ ServiceAppears
  \/ FrameLost

\* Both threads of the client, the loop of serial_node.py and the device's
\* loop() keep running; the sketch goes on publishing.
Fairness ==
  /\ WF_vars(Run) /\ WF_vars(SyncLost)
  /\ WF_vars(processWriteQueue)
  /\ WF_vars(serial_node \/ startSerialClient) /\ WF_vars(is_shutdown)
  /\ WF_vars(Spin /\ UNCHANGED <<clientVars, faults>>)
  /\ WF_vars(Publisher_publish /\ UNCHANGED <<clientVars, faults>>)

Spec == Init /\ [][Next]_vars

FairSpec == Spec /\ Fairness

-----------------------------------------------------------------------------
Over ==
  \/ client.run = "exited"
  \/ client.run = "dead" /\ client.restarts = MaxRestarts

\* All callers share one response and answers carry no number.  Still a
\* caller gets the answer to another one's request only after two calls have
\* overlapped: its own or, since the answer that neither of the two waited
\* for comes in late, two calls before it.
MixupNeedsOverlap ==
  \A c \in Callers : callers[c].st = "done" /\ callers[c].answer # c =>
    \E d \in Callers : ~callers[d].alone

-----------------------------------------------------------------------------
\* The invariant behind the three safety properties.

Entities == {"pub", "sub", "server", "client"}
Frames ==
  {<<kind>> : kind \in {"topics", "time", "stop", "log", "data", "call", "answer",
                        "message", "large"}} \cup
  {<<kind, p>> : kind \in {"param", "value"}, p \in Params} \cup
  {<<kind, c>> : kind \in {"request", "response"}, c \in Callers} \cup
  {<<"info", e, half>> : e \in Entities, half \in {"pub", "sub"}}

Activations ==
  [kind : {"call", "param"}, asked : Params \cup {None}, ending : BOOLEAN]

DevStates ==
  [configured : BOOLEAN, stack : Seq(Activations), waiting : BOOLEAN, ret : Nat,
   received : BOOLEAN, value : Params \cup {None}, events : Nat, losses : Nat,
   timedOut : BOOLEAN, nestedParams : BOOLEAN,
   mixups : SUBSET ((Params \cup {None}) \X (Params \cup {None})),
   brokenOff : BOOLEAN, nestedCalls : BOOLEAN, strayWrite : BOOLEAN]

CallStates ==
  [st : {"idle", "waiting", "stuck", "failed", "done"}, answer : Callers \cup {None},
   alone : BOOLEAN]

ClientStates ==
  [run : {"reading", "dead", "exited"}, why : {None, "end", "exception", "socket"},
   writing : BOOLEAN, callbacks : SUBSET {"data", "response", "call"},
   ids : SUBSET {"server", "client"}, services : SUBSET {"server", "client"},
   subscribed : BOOLEAN, restarts : Nat]

RosStates ==
  [port : {"serial", "tcp"}, served : BOOLEAN, available : BOOLEAN,
   shutdown : {"no", "hook", "yes"}]

\* The state stays within these values.
TypeOK ==
  /\ up \in Seq(Frames) /\ down \in Seq(Frames) /\ queue \in Seq(Frames)
  /\ dev \in DevStates
  /\ client \in ClientStates /\ ros \in RosStates
  /\ callers \in [Callers -> CallStates]
  /\ response \in Callers \cup {None}

FramesIn(s, kinds) == {s[i] : i \in {j \in DOMAIN s : s[j][1] \in kinds}}
One(s, kinds) == \A i, j \in DOMAIN s : s[i][1] \in kinds /\ s[j][1] \in kinds => i = j

InTransit(kinds) == FramesIn(up, kinds) \cup FramesIn(queue, kinds) \cup FramesIn(down, kinds)

\* At most one frame of these kinds is on its way, whatever was lost, flushed
\* or thrown away with an old client.
Sole(kinds) ==
  /\ One(up, kinds) /\ One(queue, kinds) /\ One(down, kinds)
  /\ FramesIn(up, kinds) = {} \/ FramesIn(queue, kinds) = {}
  /\ FramesIn(up, kinds) = {} \/ FramesIn(down, kinds) = {}
  /\ FramesIn(queue, kinds) = {} \/ FramesIn(down, kinds) = {}

ParamKinds == {"param", "value"}
CallKinds == {"call", "answer"}
RequestKinds == {"request", "response"}

\* The request for a parameter that the sketch waits for, at i in the stack.
Requests(i) == i \in DOMAIN dev.stack /\ dev.stack[i].kind = "param"

\* Until a request for a parameter times out or two of them overlap, what is on
\* its way or has come in belongs to the request that the sketch waits for.
ParamsOnTheirWay == ~dev.timedOut /\ ~dev.nestedParams =>
  /\ Sole(ParamKinds)
  /\ \A f \in InTransit(ParamKinds) :
       ~dev.received /\ \E i \in DOMAIN dev.stack : Requests(i)
  /\ \A i, j \in DOMAIN dev.stack : Requests(i) /\ Requests(j) => i = j
  /\ \A i \in DOMAIN dev.stack : Requests(i) =>
       /\ \A f \in InTransit(ParamKinds) : f[2] = dev.stack[i].asked
       /\ dev.received => dev.value = dev.stack[i].asked

\* Until a call is broken off or two of them overlap, an answer is expected.
CallsOnTheirWay == ~dev.brokenOff /\ ~dev.nestedCalls =>
  Sole(CallKinds) /\ (InTransit(CallKinds) # {} => dev.ret # 0 /\ dev.waiting)

\* ret leads to a call() on the stack, if to anything.
RetOnStack ==
  dev.ret # 0 => dev.ret \in DOMAIN dev.stack /\ dev.stack[dev.ret].kind = "call"

NoOverlap == \A c \in Callers : callers[c].alone
Waits(c) == callers[c].st \in {"waiting", "stuck"}

\* Until two calls overlap, the caller that waits is the one whose request or
\* answer is on its way.
RequestsOnTheirWay == NoOverlap /\ client.run # "exited" =>
  /\ Sole(RequestKinds)
  /\ \A f \in InTransit(RequestKinds) : Waits(f[2]) /\ response = None
  /\ \A c, d \in Callers : Waits(c) /\ Waits(d) => c = d
  /\ \A c \in Callers : Waits(c) => response \in {None, c}

IdleIsAlone == \A c \in Callers : callers[c].st = "idle" => callers[c].alone

ExitedIsOver ==
  client.run = "exited" => ~ros.served /\ \A c \in Callers : callers[c].st = "idle"

\* A response that is stored came to a ServiceServer of this client.
ResponseHasServer ==
  response # None \/ "response" \in client.callbacks => "server" \in client.services

\* Answers carry no name and no number, and the sketch, getParam() and the
\* callers of ServiceServer.callback() take what comes in.  They get what they
\* asked for as long as one question at a time is under way.
ClientInv ==
  /\ TypeOK
  /\ ParamsOnTheirWay /\ ParamMismatchNeedsTimeout
  /\ RetOnStack /\ CallsOnTheirWay /\ StrayAnswerNeedsBreak
  /\ RequestsOnTheirWay /\ MixupNeedsOverlap
  /\ IdleIsAlone /\ ExitedIsOver /\ ResponseHasServer

-----------------------------------------------------------------------------
FlushesTopicInfo ==
  NotConfigured /\ <<"info", "pub", "pub">> \in Range(up) \ Range(up')

\* Lost frames, failed reads and new clients delay a device's publisher but
\* do not silence it: each message without a handler asks for the topics
\* again, and in the end there is a handler, or no client left.  The latter is
\* also the end of a TCP connection that breaks inside a frame, which takes
\* the node with it.  One thing can go on for ever: a message that comes in
\* ahead of the TopicInfos makes requestTopics() flush these, and a device that
\* publishes often enough sends the next message ahead of the next TopicInfos.
PublisherRecovers ==
  \/ <>[]("pub" \in program => \/ "data" \in client.callbacks
                               \/ Over)
  \/ []<><<FlushesTopicInfo>>_vars

\* The reading thread notices that the writing thread has died, and the node
\* starts over: again and again there is a client with both threads, unless the
\* restarts are used up or the reader waits for a service nobody offers.
WriterDeathNoticed ==
  []<>( \/ client.writing
        \/ Over
        \/ ~ros.available /\ "client" \in program )
=============================================================================

----------------------------- MODULE RosLibNode -----------------------------
(***************************************************************************)
(* The device half of the ROS 1 packages: NodeHandle_, ServiceClient and   *)
(* ServiceServer of rosserial_client, at the level of frames.  (NodeHandle *)
(* has the bytes and the clock of the same code.)  The sketch publishes in *)
(* its loop; it calls a service and asks for parameters in its loop and in *)
(* the callbacks of its subscribers, thus also while an earlier call() or  *)
(* requestParam() spins.  The function of a ServiceServer only computes    *)
(* its response.  setSpinTimeout() is left to NodeHandle.                  *)
(***************************************************************************)
EXTENDS Naturals, Sequences, SequencesExt

CONSTANTS Programs,    \* sketches: sets of entities among "pub", "sub", ...
          Params,      \* names of parameters
          Shape,       \* the type of a parameter's values, and how many
          Asked,       \* bound: the parameters that the sketch may ask for as
                       \* its first event, as its second, ...
          MaxEvents,   \* bound: events, which are calls, parameter requests
                       \* and connections lost for want of the time
          MaxLosses,   \* bound: the latter among them
          MaxUp        \* bound: frames on the way to the host

None == "none"

VARIABLES
  program,   \* what the sketch has advertised and subscribed
  up, down,  \* frames to the host and to the device
  dev

devVars == <<program, dev>>

\* stack: the call()s and requestParam()s that have not returned, the last of
\* which spins.  waiting and ret belong to the one ServiceClient: ret is the
\* place in the stack of the call() whose response it points to, 0 if that
\* has returned.  received is param_received, and value what req_param_resp
\* holds.
\* The rest is history.  mixups: which values getParam() returned for which
\* other names; brokenOff: some call() ended without its answer; strayWrite:
\* an answer was stored through a `ret' of 0; nestedParams, nestedCalls: a
\* request was made while an earlier one of the same kind waited.
DevInit ==
  /\ program \in Programs
  /\ up = <<>> /\ down = <<>>
  /\ dev = [configured |-> FALSE, stack |-> <<>>, waiting |-> TRUE, ret |-> 0,
            received |-> FALSE, value |-> None, events |-> 0, losses |-> 0,
            timedOut |-> FALSE, nestedParams |-> FALSE, mixups |-> {},
            brokenOff |-> FALSE, nestedCalls |-> FALSE, strayWrite |-> FALSE]

\* Endpoint ids below 100 pass always, others only when configured.
publish(frame, internal) ==
  up' = IF internal \/ dev.configured THEN Append(up, frame) ELSE up

requestSyncTime == <<"time">>

\* The TopicInfos of the publishers, then those of the subscribers.  A
\* service has one of each.
TopicInfo(e, half) == IF e \in program THEN <<<<"info", e, half>>>> ELSE <<>>

negotiateTopics ==
  TopicInfo("pub", "pub") \o TopicInfo("server", "pub") \o TopicInfo("client", "pub")
    \o TopicInfo("sub", "sub") \o TopicInfo("server", "sub") \o TopicInfo("client", "sub")

-----------------------------------------------------------------------------
\* A frame for the device, at the end of spinOnce()'s decoder.
Frame == Head(down)
Take(kind) == down # <<>> /\ Frame[1] = kind /\ down' = Tail(down)

\* What the last activation on the stack is, and what a return leaves.
Spinning(kind) == dev.stack # <<>> /\ Last(dev.stack).kind = kind
Open(kind) == \E i \in DOMAIN dev.stack : dev.stack[i].kind = kind
Return == Front(dev.stack)

\* call() returns, maybe without an answer.
CallReturned ==
  [dev EXCEPT !.stack = Return,
              !.ret = IF @ = Len(dev.stack) THEN 0 ELSE @,
              !.brokenOff = @ \/ dev.waiting]

\* The request for topics: spinOnce() returns SPIN_ERR at once, which ends a
\* call(); requestParam() does not look at the result.
spin_topics ==
  /\ Take("topics")
  /\ up' = up \o <<requestSyncTime>> \o negotiateTopics
  /\ dev' = [IF Spinning("call") THEN CallReturned ELSE dev EXCEPT !.configured = TRUE]
  /\ UNCHANGED program

\* The current spinOnce() is going to return something negative; what has been
\* received before that is still handled.
WillEnd == IF Spinning("call") THEN [dev.stack EXCEPT ![Len(dev.stack)].ending = TRUE]
           ELSE dev.stack

\* spinOnce() returns SPIN_TIME_RECV: the time, too, ends a call().
spin_time ==
  /\ Take("time")
  /\ dev' = [dev EXCEPT !.stack = WillEnd]
  /\ UNCHANGED <<up, program>>

spin_tx_stop ==
  /\ Take("stop")
  /\ dev' = [dev EXCEPT !.configured = FALSE, !.stack = WillEnd]
  /\ UNCHANGED <<up, program>>

\* The loop of call() ends: an answer has come, the connection is lost, or
\* spinOnce() has returned something negative.
call_ends ==
  /\ Spinning("call")
  /\ ~dev.waiting \/ ~dev.configured \/ Last(dev.stack).ending
  /\ dev' = CallReturned
  /\ UNCHANGED <<up, down, program>>

logwarn == <<"log">>

\* Whatever value has come in is taken for the one asked for.  getParam()
\* returns it if it has as many elements of the type that the sketch asks for
\* as the sketch expects.
getParam ==
  /\ Spinning("param") /\ dev.received
  /\ LET asked == Last(dev.stack).asked
          fits == Shape[dev.value] = Shape[asked]
     IN  /\ up' = IF fits THEN up ELSE Append(up, logwarn)
         /\ dev' = [dev EXCEPT !.stack = Return,
                               !.mixups = IF fits /\ dev.value # asked
                                           THEN @ \cup {<<asked, dev.value>>} ELSE @]
  /\ UNCHANGED <<down, program>>

spin_param ==
  /\ Take("value")
  /\ dev' = [dev EXCEPT !.received = TRUE, !.value = Frame[2]]
  /\ UNCHANGED <<up, program>>

\* ServiceClient::callback() stores the answer through `ret', whether or not
\* the call() that set it is still there.
spin_answer ==
  /\ Take("answer")
  /\ dev' = [dev EXCEPT !.waiting = FALSE, !.strayWrite = @ \/ dev.ret = 0]
  /\ UNCHANGED <<up, program>>

\* ServiceServer::callback(): the sketch's function, and its response.
spin_request ==
  /\ Take("request")
  /\ publish(<<"response", Frame[2]>>, FALSE)
  /\ UNCHANGED devVars

\* The request for the time every SYNC_SECONDS / 2.
SyncTick ==
  /\ dev.configured /\ up = <<>> /\ down = <<>>
  /\ publish(requestSyncTime, TRUE)
  /\ UNCHANGED <<devVars, down>>

\* No time message for 2.2 SYNC_SECONDS.
LoseSync ==
  /\ dev.configured /\ down = <<>>
  /\ dev.events < MaxEvents /\ dev.losses < MaxLosses
  /\ dev' = [dev EXCEPT !.configured = FALSE, !.events = @ + 1, !.losses = @ + 1]
  /\ UNCHANGED <<up, down, program>>

-----------------------------------------------------------------------------
\* The sketch, in its loop or in a callback.
Publisher_publish ==
  /\ "pub" \in program /\ dev.stack = <<>> /\ Len(up) < 2
  /\ publish(<<"data">>, FALSE)
  /\ UNCHANGED <<devVars, down>>

Spins(kind, asked) ==
  Append(dev.stack, [kind |-> kind, asked |-> asked, ending |-> FALSE])

\* Mutant: call() returns at once.
ServiceClient_call_returns ==
  /\ "client" \in program /\ dev.configured
  /\ dev.events < MaxEvents /\ Len(up) < MaxUp
  /\ publish(<<"call">>, FALSE)
  /\ dev' = [dev EXCEPT !.events = @ + 1, !.waiting = TRUE,
                        !.nestedCalls = @ \/ Open("call")]
  /\ UNCHANGED program

ServiceClient_call ==
  /\ "client" \in program /\ dev.configured
  /\ dev.events < MaxEvents /\ Len(up) < MaxUp
  /\ publish(<<"call">>, FALSE)
  /\ dev' = [dev EXCEPT !.events = @ + 1, !.waiting = TRUE,
                        !.stack = Spins("call", None),
                        !.ret = Len(dev.stack) + 1,
                        !.nestedCalls = @ \/ Open("call")]
  /\ UNCHANGED program

\* Mutant: param_received is not cleared.
requestParam_keepsReceived(name) ==
  /\ "param" \in program
  /\ dev.events < Len(Asked) /\ name \in Asked[dev.events + 1] /\ Len(up) < MaxUp
  /\ publish(<<"param", name>>, TRUE)
  /\ dev' = [dev EXCEPT !.events = @ + 1,
                        !.stack = Spins("param", name),
                        !.nestedParams = @ \/ Open("param")]
  /\ UNCHANGED program

requestParam(name) ==
  /\ "param" \in program
  /\ dev.events < Len(Asked) /\ name \in Asked[dev.events + 1] /\ Len(up) < MaxUp
  /\ publish(<<"param", name>>, TRUE)
  /\ dev' = [dev EXCEPT !.events = @ + 1, !.received = FALSE,
                        !.stack = Spins("param", name),
                        !.nestedParams = @ \/ Open("param")]
  /\ UNCHANGED program

Asks == ServiceClient_call \/ \E name \in Params : requestParam(name)

\* The time is looked at after each spinOnce(), whatever that has received.
requestParam_timeout ==
  /\ Spinning("param")
  /\ publish(logwarn, TRUE)
  /\ dev' = [dev EXCEPT !.stack = Return, !.timedOut = TRUE]
  /\ UNCHANGED <<down, program>>

\* Subscriber::callback(): the sketch's function, in which it may ask.
spin_message ==
  /\ Take("message")
  /\ Asks \/ UNCHANGED <<up, devVars>>

LoopAsks == dev.stack = <<>> /\ Asks /\ UNCHANGED down

Spin ==
  \/ spin_topics
  \/ spin_time
  \/ spin_tx_stop
  \/ call_ends
  \/ spin_param
  \/ getParam
  \/ spin_answer
  \/ spin_request
  \/ spin_message

Sketch ==
  \/ Publisher_publish
  \/ LoopAsks
  \/ requestParam_timeout
  \/ SyncTick
  \/ LoseSync

-----------------------------------------------------------------------------
\* The response of requestParam() carries no name.  Still getParam() returns
\* the value of another parameter only after an earlier request has timed out,
\* whose answer then comes in late, or after a callback has asked while a
\* request waited.  The other parameter must then have the same type and
\* length.
ParamMismatchNeedsTimeout ==
  \A p \in dev.mixups :
    (dev.timedOut \/ dev.nestedParams) /\ Shape[p[1]] = Shape[p[2]]

\* An answer that is stored through a pointer to the response of a call() that
\* has returned needs either a call that a request for topics, the time, a
\* stop request or a lost connection broke off, or a call within a call: the
\* first of the two answers ends both.
StrayAnswerNeedsBreak == dev.strayWrite => dev.brokenOff \/ dev.nestedCalls
=============================================================================

---------------------------- MODULE Negotiation ----------------------------
(***************************************************************************)
(* How the server learns what the device publishes and subscribes to:      *)
(* request_topics() and the setup_... handlers of Session (session.h), and *)
(* negotiateTopics(), publish() and the dispatching end of spinOnce() of   *)
(* the device's NodeHandle (ros/node_handle.h), over a serial link that    *)
(* may lose frames (a frame with a bad checksum is dropped by both ends).  *)
(*                                                                         *)
(* An endpoint is a slot of one of the device's tables.  Its topic id is   *)
(* determined by the slot, so the endpoint stands for its id.  A service   *)
(* has two endpoints with the same name: the publisher over which the      *)
(* device sends (requests of a client, responses of a server) and the      *)
(* subscriber over which it receives.  A sketch that registers more than   *)
(* the tables hold goes on with what got a slot.                           *)
(***************************************************************************)
EXTENDS Integers, Sequences, SequencesExt

CONSTANTS
  Devices,       \* records [MAX_PUBLISHERS, MAX_SUBSCRIBERS, sketch, foreign]:
                 \* the sizes of the tables, what is registered, in order, as
                 \* <<"publisher" | "subscriber" | "server" | "client", name>>,
                 \* and the names whose types the server does not know
  MaxLost,       \* bound: frames lost
  MaxInFlight    \* bound: no message is sent while so many frames are under way

PubRoles == {"publisher", "client_pub", "server_pub"}
SubRoles == {"subscriber", "client_sub", "server_sub"}

Endpoint(role, name) == [role |-> role, name |-> name]

\* advertise() and subscribe(): the first free slot, if there is one.
advertise(d, t, e) ==
  IF Len(t.publishers) < d.MAX_PUBLISHERS THEN [t EXCEPT !.publishers = Append(@, e)] ELSE t

subscribe(d, t, e) ==
  IF Len(t.subscribers) < d.MAX_SUBSCRIBERS THEN [t EXCEPT !.subscribers = Append(@, e)] ELSE t

\* A half that got a slot stays when the other half did not.
advertiseService(d, t, n) ==
  subscribe(d, advertise(d, t, Endpoint("server_pub", n)), Endpoint("server_sub", n))

serviceClient(d, t, n) ==
  subscribe(d, advertise(d, t, Endpoint("client_pub", n)), Endpoint("client_sub", n))

\* One line of setup().
register(d, t, r) ==
  CASE r[1] = "publisher" -> advertise(d, t, Endpoint("publisher", r[2]))
    [] r[1] = "subscriber" -> subscribe(d, t, Endpoint("subscriber", r[2]))
    [] r[1] = "server" -> advertiseService(d, t, r[2])
    [] r[1] = "client" -> serviceClient(d, t, r[2])

\* The tables after each line of the sketch.
steps(d) ==
  LET table[i \in 0 .. Len(d.sketch)] ==
        IF i = 0 THEN [publishers |-> <<>>, subscribers |-> <<>>, foreign |-> d.foreign]
        ELSE register(d, table[i - 1], d.sketch[i])
  IN  table

Registered(d) == steps(d)[Len(d.sketch)]

EndpointsOf(t) == ToSet(t.publishers) \cup ToSet(t.subscribers)
Endpoints == UNION {EndpointsOf(Registered(d)) : d \in Devices}

\* A service whose publisher found no slot is not used: its publisher has no
\* NodeHandle, and to send over it is undefined.
ASSUME SlotsAssumption ==
  \A d \in Devices : \A e \in EndpointsOf(Registered(d)) :
    /\ e.role = "server_sub" => Endpoint("server_pub", e.name) \in EndpointsOf(Registered(d))
    /\ e.role = "client_sub" => Endpoint("client_pub", e.name) \in EndpointsOf(Registered(d))
\* What a sketch registers is of one of the four kinds.
ASSUME SketchesAssumption ==
  \A d \in Devices :
    d.sketch \in Seq({"publisher", "subscriber", "server", "client"} \X {r[2] : r \in ToSet(d.sketch)})
ASSUME MaxLostAssumption == MaxLost \in Nat
ASSUME MaxInFlightAssumption == MaxInFlight \in Nat \ {0}

VARIABLES
  tables,           \* the device's publishers[] and subscribers[], in slot order,
                    \* and what is foreign to the server
  configured,       \* configured_ of the NodeHandle
  unanswered,       \* its periodic requests for the time since the last answer
  up,               \* frames on their way to the server
  down,             \* frames on their way to the device
  callbacks,        \* callbacks_: endpoint |-> class of the object it calls
  subscribed,       \* the endpoints in subscribers_
  service_clients,  \* service_clients_: name |-> topic_id_ of the ServiceClient
  service_servers,  \* service_servers_: name |-> topic_id_ of the ServiceServer
  heard,            \* a handler has set the watchdog to its long interval
  lost              \* history: how many frames were lost, and whether one of
                    \* them was such that a service may stay without a route

\* A type whose library the server can load, or a service in services_map.
KnownType(e) == e.name \notin tables.foreign

serverVars == <<callbacks, subscribed, service_clients, service_servers, heard>>
deviceVars == <<tables, configured, unanswered>>
vars == <<deviceVars, up, down, serverVars, lost>>

\* Frames.  A frame of data is addressed to, or comes from, an endpoint.
Frame(type, e) == [type |-> type, e |-> e]

NoEndpoint == Endpoint("none", "none")

Absent == [role |-> "absent", name |-> "none"]   \* no object for this name
Unset == [role |-> "unset", name |-> "none"]     \* topic_id_ = -1

RequestTopics == Frame("request_topics", NoEndpoint)
TxStop == Frame("tx_stop", NoEndpoint)
Time == Frame("time", NoEndpoint)

\* An announcement other than the subscriber half of a service, or the request
\* for the announcements.
Routes(f) ==
  f.type = "request_topics" \/ (f.type = "info" /\ f.e.role \notin {"client_sub", "server_sub"})

Named(roles) == {e.name : e \in {f \in Endpoints : f.role \in roles}}
ClientNames == Named({"client_pub", "client_sub"})
ServerNames == Named({"server_pub", "server_sub"})

NothingKnown ==
  /\ callbacks = [e \in Endpoints |-> "none"]
  /\ subscribed = {}
  /\ service_clients = [n \in ClientNames |-> Absent]
  /\ service_servers = [n \in ServerNames |-> Absent]
  /\ heard = FALSE

\* A session has just started and asked for the topics.
Init ==
  /\ \E d \in Devices : tables = Registered(d)
  /\ configured = FALSE /\ unanswered = 0
  /\ up = <<>> /\ down = <<RequestTopics>>
  /\ NothingKnown
  /\ lost = [count |-> 0, route |-> FALSE]

-----------------------------------------------------------------------------
(* The server takes the next frame. *)

Takes(type) == up # <<>> /\ Head(up).type = type /\ up' = Tail(up)

\* setup_publisher().  A type that cannot be loaded makes the constructor of
\* Publisher throw; then the watchdog is not set, either.
SetupPublisher ==
  LET e == Head(up).e IN
  /\ Takes("info") /\ e.role = "publisher"
  /\ callbacks' = IF KnownType(e) THEN [callbacks EXCEPT ![e] = "Publisher"] ELSE callbacks
  /\ heard' = (heard \/ KnownType(e))
  /\ UNCHANGED <<deviceVars, down, subscribed, service_clients, service_servers, lost>>

\* setup_subscriber(): here the watchdog is set in any case.
SetupSubscriber ==
  LET e == Head(up).e IN
  /\ Takes("info") /\ e.role = "subscriber"
  /\ subscribed' = IF KnownType(e) THEN subscribed \cup {e} ELSE subscribed
  /\ heard' = TRUE
  /\ UNCHANGED <<deviceVars, down, callbacks, service_clients, service_servers, lost>>

\* Mutant: the publisher's id is taken for the response as well.
SetupServiceClient_anyId ==
  LET e == Head(up).e IN
  /\ Takes("info") /\ e.role \in {"client_pub", "client_sub"}
  /\ callbacks' = IF service_clients[e.name] = Absent
                    THEN [callbacks EXCEPT ![e] = "ServiceClient"] ELSE callbacks
  /\ service_clients' = [service_clients EXCEPT ![e.name] = e]
  /\ heard' = TRUE
  /\ UNCHANGED <<deviceVars, down, subscribed, service_servers, lost>>

\* setup_service_client_publisher() and setup_service_client_subscriber():
\* the first to run for a name creates the ServiceClient and registers its
\* handle() for the topic id at hand; the second of the two also sets the
\* topic id that responses are sent to.  Without a converter for its type the
\* object is not valid_, but it is there.
SetupServiceClient ==
  LET e == Head(up).e
      known == service_clients[e.name] # Absent IN
  /\ Takes("info") /\ e.role \in {"client_pub", "client_sub"}
  /\ callbacks' = IF known THEN callbacks ELSE [callbacks EXCEPT ![e] = "ServiceClient"]
  /\ service_clients' =
       IF e.role = "client_sub" THEN [service_clients EXCEPT ![e.name] = e]
       ELSE IF known THEN service_clients ELSE [service_clients EXCEPT ![e.name] = Unset]
  /\ heard' = TRUE
  /\ UNCHANGED <<deviceVars, down, subscribed, service_servers, lost>>

\* The same for setup_service_server_publisher() and _subscriber().
SetupServiceServer ==
  LET e == Head(up).e
      known == service_servers[e.name] # Absent IN
  /\ Takes("info") /\ e.role \in {"server_pub", "server_sub"}
  /\ callbacks' = IF known THEN callbacks ELSE [callbacks EXCEPT ![e] = "ServiceServer"]
  /\ service_servers' =
       IF e.role = "server_sub" THEN [service_servers EXCEPT ![e.name] = e]
       ELSE IF known THEN service_servers ELSE [service_servers EXCEPT ![e.name] = Unset]
  /\ heard' = TRUE
  /\ UNCHANGED <<deviceVars, down, subscribed, service_clients, lost>>

\* handle_time()
HandleTime ==
  /\ Takes("time")
  /\ down' = Append(down, Time)
  /\ heard' = TRUE
  /\ UNCHANGED <<deviceVars, callbacks, subscribed, service_clients, service_servers, lost>>

\* read_body() of a message on a known topic: it is published, handed to a
\* waiting service_callback(), or is a request that no ROS node answers or
\* that a ServiceClient without a converter drops.
HandleData ==
  /\ Takes("data") /\ callbacks[Head(up).e] # "none"
  /\ UNCHANGED <<deviceVars, down, serverVars, lost>>

\* ServiceClient::handle() gets the answer to a request of the device in time
\* and sends it to the topic id on record.
HandleRequest(n) ==
  LET e == Head(up).e IN
  /\ Takes("data") /\ callbacks[e] = "ServiceClient" /\ e.name = n
  /\ KnownType(e)
  /\ down' = Append(down, Frame("data", service_clients[n]))
  /\ UNCHANGED <<deviceVars, serverVars, lost>>

\* Mutant: a message on an unknown topic is dropped.
HandleUnrecognised_drops ==
  /\ Takes("data") /\ callbacks[Head(up).e] = "none"
  /\ UNCHANGED <<deviceVars, down, serverVars, lost>>

\* read_body() of a message on an unknown topic: attempt_sync().
HandleUnrecognised ==
  /\ Takes("data") /\ callbacks[Head(up).e] = "none"
  /\ down' = Append(down, RequestTopics)
  /\ heard' = FALSE
  /\ UNCHANGED <<deviceVars, callbacks, subscribed, service_clients, service_servers, lost>>

UnderWay(f) == f \in ToSet(up) \cup ToSet(down)
Room == Len(up) + Len(down) < MaxInFlight

\* A ROS node publishes on a topic the device subscribes to:
\* Subscriber::handle().
RosPublishes(e) ==
  /\ Room /\ e \in subscribed
  /\ down' = Append(down, Frame("data", e))
  /\ UNCHANGED <<deviceVars, up, serverVars, lost>>

\* A ROS node calls a service of the device: service_callback() sends the
\* request to the topic id on record (ServiceCalls.tla has the rest).  A
\* ServiceServer without a converter offers no service to ROS.
RosCalls(n) ==
  /\ Room /\ service_servers[n] # Absent /\ n \notin tables.foreign
  /\ down' = Append(down, Frame("data", service_servers[n]))
  /\ UNCHANGED <<deviceVars, up, serverVars, lost>>

\* sync_timeout(), stop() and, at the next check_connection(), start().  The
\* watchdog expires when the device has not answered the request for topics,
\* or does not send anything any more because it is not configured.  Frames
\* are much faster than the watchdog.
Resynchronise ==
  /\ ~heard \/ ~configured
  /\ up = <<>> /\ ~UnderWay(RequestTopics)
  /\ callbacks' = [e \in Endpoints |-> "none"]
  /\ subscribed' = {}
  /\ service_clients' = [n \in ClientNames |-> Absent]
  /\ service_servers' = [n \in ServerNames |-> Absent]
  /\ heard' = FALSE
  /\ down' = down \o <<TxStop, RequestTopics>>
  /\ UNCHANGED <<deviceVars, up, lost>>

-----------------------------------------------------------------------------
(* The device. *)

\* negotiateTopics()
Announcements ==
  LET slots == tables.publishers \o tables.subscribers
  IN  [i \in DOMAIN slots |-> Frame("info", slots[i])]

Receives(type) == down # <<>> /\ Head(down).type = type /\ down' = Tail(down)

\* spinOnce() on ID_PUBLISHER: requestSyncTime(), negotiateTopics().
DeviceNegotiates ==
  /\ Receives("request_topics")
  /\ up' = up \o <<Time>> \o Announcements
  /\ configured' = TRUE
  /\ unanswered' = 0
  /\ UNCHANGED <<tables, serverVars, lost>>

\* spinOnce() on ID_TX_STOP.
DeviceStops ==
  /\ Receives("tx_stop")
  /\ configured' = FALSE
  /\ UNCHANGED <<tables, unanswered, up, serverVars, lost>>

\* spinOnce() on ID_TIME: syncTime().
DeviceGetsTime ==
  /\ Receives("time")
  /\ unanswered' = 0
  /\ UNCHANGED <<tables, configured, up, serverVars, lost>>

\* Mutant: a message with an id that is not valid is skipped.
DeviceGetsData_skips ==
  LET e == Head(down).e
      response == Endpoint("server_pub", e.name) IN
  /\ Receives("data")
  /\ up' = IF e.role = "server_sub" /\ configured
             THEN Append(up, Frame("data", response)) ELSE up
  /\ UNCHANGED <<deviceVars, serverVars, lost>>

\* spinOnce() on a message for a subscriber.  A service server publishes its
\* response; an id that isTopicValid() refuses makes the device start over.
DeviceGetsData ==
  LET e == Head(down).e
      response == Endpoint("server_pub", e.name) IN
  /\ Receives("data")
  /\ configured' = (configured /\ e.role \in SubRoles)
  /\ up' = IF e.role = "server_sub" /\ configured
             THEN Append(up, Frame("data", response)) ELSE up
  /\ UNCHANGED <<tables, unanswered, serverVars, lost>>

\* Publisher::publish(), and ServiceClient::call() up to the request.
DevicePublishes(e) ==
  /\ configured /\ Room
  /\ e \in ToSet(tables.publishers) /\ e.role \in {"publisher", "client_pub"}
  /\ up' = Append(up, Frame("data", e))
  /\ UNCHANGED <<deviceVars, down, serverVars, lost>>

\* spinOnce() asks for the time every SYNC_SECONDS, which is longer than
\* question and answer take.
DeviceAsksTime ==
  /\ configured /\ unanswered < 2 /\ ~UnderWay(Time)
  /\ up' = Append(up, Time)
  /\ unanswered' = unanswered + 1
  /\ UNCHANGED <<tables, configured, down, serverVars, lost>>

\* spinOnce() when 2.2 times SYNC_SECONDS have passed since the last answer.
DeviceGivesUp ==
  /\ configured /\ unanswered = 2 /\ ~UnderWay(Time)
  /\ configured' = FALSE
  /\ UNCHANGED <<tables, unanswered, up, down, serverVars, lost>>

\* A frame arrives damaged and is rejected for its checksum.
Loses(f) ==
  /\ lost.count < MaxLost
  /\ lost' = [count |-> lost.count + 1, route |-> lost.route \/ Routes(f)]

LoseUp ==
  /\ up # <<>> /\ Loses(Head(up))
  /\ up' = Tail(up)
  /\ UNCHANGED <<deviceVars, down, serverVars>>

LoseDown ==
  /\ down # <<>> /\ Loses(Head(down))
  /\ down' = Tail(down)
  /\ UNCHANGED <<deviceVars, up, serverVars>>

-----------------------------------------------------------------------------
ServerStep ==
  \/ SetupPublisher \/ SetupSubscriber \/ SetupServiceClient \/ SetupServiceServer
  \/ HandleTime \/ HandleData \/ HandleUnrecognised
  \/ \E n \in ClientNames : HandleRequest(n)

DeviceStep ==
  \/ DeviceNegotiates \/ DeviceStops \/ DeviceGetsTime \/ DeviceGetsData

Next ==
  \/ ServerStep \/ Resynchronise
  \/ \E e \in Endpoints : RosPublishes(e) \/ DevicePublishes(e)
  \/ \E n \in ServerNames : RosCalls(n)
  \/ DeviceStep \/ DeviceAsksTime \/ DeviceGivesUp
  \/ LoseUp \/ LoseDown

Spec == Init /\ [][Next]_vars

\* Both ends work off what arrives, timers expire, the device and the ROS nodes
\* keep using the topics and services they were set up for, and the service
\* that the device calls answers in time if it is called again and again.
FairSpec ==
  /\ Spec
  /\ WF_vars(ServerStep) /\ WF_vars(DeviceStep)
  /\ SF_vars(Resynchronise) /\ WF_vars(DeviceAsksTime) /\ WF_vars(DeviceGivesUp)
  /\ \A e \in Endpoints : SF_vars(DevicePublishes(e))
  /\ \A n \in ServerNames : SF_vars(RosCalls(n))
  /\ \A n \in ClientNames : SF_vars(HandleRequest(n))

-----------------------------------------------------------------------------
(* Properties. *)

(* Whatever is lost and however often the topics are announced again, a     *)
(* message that the server sends with a known topic id goes to a slot of    *)
(* the device's subscribers[], never to one on which the device sends or    *)
(* that it does not have.                                                   *)
SentToListeners ==
  \A i \in DOMAIN down : down[i].type = "data" =>
    down[i].e = Unset \/ down[i].e \in ToSet(tables.subscribers)

FrameTypes == {"request_topics", "tx_stop", "time", "info", "data"}
Frames == [type : FrameTypes, e : Endpoints \cup {NoEndpoint, Unset}]
Classes == {"none", "Publisher", "ServiceClient", "ServiceServer"}

TypeOK ==
  /\ tables \in {Registered(d) : d \in Devices}
  /\ up \in Seq(Frames) /\ down \in Seq(Frames)
  /\ callbacks \in [Endpoints -> Classes]
  /\ subscribed \subseteq ToSet(tables.subscribers)
  /\ DOMAIN service_clients = ClientNames /\ DOMAIN service_servers = ServerNames

\* The device speaks of its own endpoints, and over its publishers.
SentByDevice ==
  \A i \in DOMAIN up :
    /\ up[i].type = "info" => up[i].e \in EndpointsOf(tables)
    /\ up[i].type = "data" => up[i].e \in ToSet(tables.publishers)

\* The topic id of a service object is that of the subscriber half of its own
\* service, or not known yet.
IdsRight ==
  /\ \A n \in ClientNames :
       \/ service_clients[n] \in {Absent, Unset}
       \/ service_clients[n] = Endpoint("client_sub", n)
            /\ service_clients[n] \in ToSet(tables.subscribers)
  /\ \A n \in ServerNames :
       \/ service_servers[n] \in {Absent, Unset}
       \/ service_servers[n] = Endpoint("server_sub", n)
            /\ service_servers[n] \in ToSet(tables.subscribers)

\* A callback is bound to an object of the endpoint's kind, and this exists.
CallbacksBound ==
  \A e \in Endpoints :
    /\ callbacks[e] = "Publisher" => e.role = "publisher"
    /\ callbacks[e] = "ServiceClient" =>
         e.role \in {"client_pub", "client_sub"} /\ service_clients[e.name] # Absent
    /\ callbacks[e] = "ServiceServer" =>
         e.role \in {"server_pub", "server_sub"} /\ service_servers[e.name] # Absent

(* In whatever order announcements arrive, are repeated or are missing, what *)
(* the setup_... handlers keep about a service belongs to that service, and  *)
(* a callback leads to an object of the right kind that is there.            *)
NegotiationInv == TypeOK /\ SentByDevice /\ SentToListeners /\ IdsRight /\ CallbacksBound

(* A topic that the device publishes is never without a route for good,    *)
(* whichever frames get lost: its messages make read_body() ask again.      *)
(* (The route may go again: a ROS node that calls a service just after its  *)
(* first half is announced makes the device start over.)  Nor does half a   *)
(* service in the tables, whose every call makes the device start over, nor *)
(* a topic of a type that the server cannot load, whose every message makes *)
(* it ask again, keep the others from it.                                   *)
PublishersRouted ==
  []<>(\A e \in EndpointsOf(tables) :
         e.role = "publisher" /\ KnownType(e) => callbacks[e] = "Publisher")

ServiceUsable(pub, sub, known) ==
  \A p \in EndpointsOf(tables) :
    /\ p.role = pub /\ KnownType(p)
    /\ Endpoint(sub, p.name) \in EndpointsOf(tables)
    => callbacks[p] # "none" /\ known[p.name] = Endpoint(sub, p.name)

(* A service with both its slots and a type in the server's services_map is *)
(* never out of order for good if of the                                    *)
(* announcements only those of its subscriber half get lost: a message to   *)
(* the unset topic id makes the device start over, and the watchdog then    *)
(* ends the session.                                                        *)
ServicesRecover ==
  []<>( \/ lost.route
        \/ /\ ServiceUsable("client_pub", "client_sub", service_clients)
           /\ ServiceUsable("server_pub", "server_sub", service_servers) )

-----------------------------------------------------------------------------
(* What comments in the code say, and the code does not do. *)

(* read_body(): "Attempt to request the topics from the client again", so   *)
(* that requests on an unrecognised topic are routed sooner or later.       *)
RequestsRouted ==
  []<>(\A e \in EndpointsOf(tables) : e.role = "client_pub" => callbacks[e] = "ServiceClient")
=============================================================================

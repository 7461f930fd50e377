-------------------------- MODULE NegotiationProofs --------------------------
(***************************************************************************)
(* NegotiationInv is an invariant of Negotiation for any set of devices    *)
(* and any number of lost frames and frames under way.  Nearly every step  *)
(* leaves up and down with the frames they had and one more; the lemmas    *)
(* about Only say what holds of all frames of a line then.                 *)
(***************************************************************************)
EXTENDS Negotiation, FiniteSetTheorems, SequenceTheorems, TLAPS

-----------------------------------------------------------------------------
(* Induction on the natural numbers, for sets.                              *)

LEMMA Smallest ==
  ASSUME NEW T \in SUBSET Nat, T # {}
  PROVE  \E n \in T : \A k \in T : n <= k
<1> DEFINE F == {0 .. n : n \in T}
<1>1. F \subseteq FiniteSubsetsOf(Nat) /\ F # {}
  <2>1. \A n \in T : 0 .. n \in SUBSET Nat /\ IsFiniteSet(0 .. n)
    BY FS_Interval
  <2> QED
    BY <2>1 DEF FiniteSubsetsOf
<1>2. IsWellFoundedOn(StrictSubsetOrdering(Nat), FiniteSubsetsOf(Nat))
  BY FS_StrictSubsetOrderingWellFounded
<1> HIDE DEF F
<1>3. PICK x \in F : \A y \in F : ~(<<y, x>> \in StrictSubsetOrdering(Nat))
  BY <1>1, <1>2, WFMin
<1>4. PICK n \in T : x = 0 .. n
  BY DEF F
<1>5. ASSUME NEW k \in T, k < n PROVE FALSE
  <2>1. 0 .. k \in F /\ 0 .. k \subseteq 0 .. n /\ n \notin 0 .. k /\ n \in 0 .. n
    BY <1>5 DEF F
  <2>2. 0 .. k \in SUBSET Nat /\ 0 .. n \in SUBSET Nat /\ 0 .. k # 0 .. n
    BY <2>1
  <2> QED
    BY <1>3, <1>4, <2>1, <2>2 DEF StrictSubsetOrdering
<1> QED
  BY <1>5

LEMMA Induction ==
  ASSUME NEW S, 0 \in S, \A n \in Nat : n \in S => n + 1 \in S
  PROVE  Nat \subseteq S
<1> SUFFICES ASSUME Nat \ S # {} PROVE FALSE
  OBVIOUS
<1>1. PICK n \in Nat \ S : \A k \in Nat \ S : n <= k
  BY Smallest
<1>2. n # 0 /\ n - 1 \in Nat /\ n - 1 \in S
  BY <1>1
<1> QED
  BY <1>1, <1>2

-----------------------------------------------------------------------------
(* The tables that a sketch makes.                                         *)

RegistrationKinds == {"publisher", "subscriber", "server", "client"}

(* The recursion of steps() has a solution. *)
LEMMA StepsDef ==
  ASSUME NEW d, Len(d.sketch) \in Nat
  PROVE  steps(d) = [i \in 0 .. Len(d.sketch) |->
                       IF i = 0 THEN [publishers |-> <<>>, subscribers |-> <<>>, foreign |-> d.foreign]
                       ELSE register(d, steps(d)[i - 1], d.sketch[i])]
<1> DEFINE l == Len(d.sketch)
           base == [publishers |-> <<>>, subscribers |-> <<>>, foreign |-> d.foreign]
           Solves(g, n) == g = [i \in 0 .. n |-> IF i = 0 THEN base
                                                 ELSE register(d, g[i - 1], d.sketch[i])]
           S == {n \in Nat : \E g : Solves(g, n)}
<1> HIDE DEF base
<1>1. 0 \in S
  <2> DEFINE g == [i \in 0 .. 0 |-> base]
  <2>1. Solves(g, 0)
    OBVIOUS
  <2> QED
    BY <2>1
<1>2. ASSUME NEW n \in Nat, n \in S PROVE n + 1 \in S
  <2> SUFFICES \E g : Solves(g, n + 1)
    OBVIOUS
  <2>1. PICK g : Solves(g, n)
    BY <1>2
  <2> DEFINE h == [i \in 0 .. n + 1 |-> IF i = n + 1 THEN register(d, g[n], d.sketch[n + 1]) ELSE g[i]]
  <2>2. Solves(h, n + 1)
    BY <2>1
  <2> QED
    BY <2>2
<1> HIDE DEF S
<1>3. Nat \subseteq S
  BY <1>1, <1>2, Induction
<1>4. PICK g : Solves(g, l)
  BY <1>3 DEF S
<1> QED
  BY <1>4 DEF steps, base

\* A sequence of endpoints that have these roles.
Table(s, roles) ==
  s \in Seq({e \in ToSet(s) : e = Endpoint(e.role, e.name) /\ e.role \in roles})

GoodTables(t) ==
  /\ t = [publishers |-> t.publishers, subscribers |-> t.subscribers, foreign |-> t.foreign]
  /\ Table(t.publishers, PubRoles) /\ Table(t.subscribers, SubRoles)

LEMMA TableGrows ==
  ASSUME NEW s, NEW roles, Table(s, roles), NEW role \in roles, NEW name
  PROVE  Table(Append(s, Endpoint(role, name)), roles)
<1> DEFINE e == Endpoint(role, name)
           u == Append(s, e)
           G(x) == {y \in ToSet(x) : y = Endpoint(y.role, y.name) /\ y.role \in roles}
<1>1. s \in Seq(G(s))
  BY DEF Table
<1>2. e = Endpoint(e.role, e.name) /\ e.role \in roles
  BY DEF Endpoint
<1> HIDE DEF e
<1>3. /\ DOMAIN u = 1 .. Len(s) + 1 /\ Len(s) \in Nat /\ Len(u) = Len(s) + 1
      /\ \A i \in 1 .. Len(s) : u[i] = s[i] /\ s[i] \in G(s)
      /\ u[Len(s) + 1] = e
  BY <1>1
<1>4. \A i \in 1 .. Len(s) + 1 : u[i] \in G(u)
  BY <1>2, <1>3 DEF ToSet
<1>5. u \in Seq(G(s) \cup {e})
  <2> HIDE DEF G
  <2>1. s \in Seq(G(s) \cup {e}) /\ e \in G(s) \cup {e}
    BY <1>1
  <2> HIDE DEF G
  <2> QED
    BY <2>1
<1>6. u \in Seq(G(u))
  <2> HIDE DEF u, G
  <2>1. u \in [1 .. Len(s) + 1 -> G(u)]
    BY <1>3, <1>4, <1>5
  <2> QED
    BY <1>3, <2>1
<1> QED
  BY <1>6 DEF Table, e

LEMMA AdvertiseKeeps ==
  ASSUME NEW d, NEW t, GoodTables(t), NEW role \in PubRoles, NEW name
  PROVE  GoodTables(advertise(d, t, Endpoint(role, name)))
<1> DEFINE u == Append(t.publishers, Endpoint(role, name))
<1>1. Table(u, PubRoles)
  BY TableGrows DEF GoodTables
<1> HIDE DEF u
<1>2. [t EXCEPT !.publishers = u]
        = [publishers |-> u, subscribers |-> t.subscribers, foreign |-> t.foreign]
  BY DEF GoodTables
<1>3. GoodTables([t EXCEPT !.publishers = u])
  BY <1>1, <1>2 DEF GoodTables
<1> QED
  BY <1>3 DEF advertise, u

LEMMA SubscribeKeeps ==
  ASSUME NEW d, NEW t, GoodTables(t), NEW role \in SubRoles, NEW name
  PROVE  GoodTables(subscribe(d, t, Endpoint(role, name)))
<1> DEFINE u == Append(t.subscribers, Endpoint(role, name))
<1>1. Table(u, SubRoles)
  BY TableGrows DEF GoodTables
<1> HIDE DEF u
<1>2. [t EXCEPT !.subscribers = u]
        = [publishers |-> t.publishers, subscribers |-> u, foreign |-> t.foreign]
  BY DEF GoodTables
<1>3. GoodTables([t EXCEPT !.subscribers = u])
  BY <1>1, <1>2 DEF GoodTables
<1> QED
  BY <1>3 DEF subscribe, u

LEMMA RegisterKeeps ==
  ASSUME NEW d, NEW t, GoodTables(t), NEW kind \in RegistrationKinds, NEW name
  PROVE  GoodTables(register(d, t, <<kind, name>>))
<1>1. /\ "publisher" \in PubRoles /\ "server_pub" \in PubRoles /\ "client_pub" \in PubRoles
      /\ "subscriber" \in SubRoles /\ "server_sub" \in SubRoles /\ "client_sub" \in SubRoles
  BY DEF PubRoles, SubRoles
<1>2. CASE kind = "publisher"
  BY <1>1, <1>2, AdvertiseKeeps DEF register
<1>3. CASE kind = "subscriber"
  BY <1>1, <1>3, SubscribeKeeps DEF register
<1>4. CASE kind = "server"
  <2>1. GoodTables(advertiseService(d, t, name))
    BY <1>1, AdvertiseKeeps, SubscribeKeeps DEF advertiseService
  <2> QED
    BY <1>4, <2>1 DEF register
<1>5. CASE kind = "client"
  <2>1. GoodTables(serviceClient(d, t, name))
    BY <1>1, AdvertiseKeeps, SubscribeKeeps DEF serviceClient
  <2> QED
    BY <1>5, <2>1 DEF register
<1> QED
  BY <1>2, <1>3, <1>4, <1>5 DEF RegistrationKinds

\* Whatever the sketch registers, the tables are sequences of endpoints that
\* are what their roles say.
LEMMA SketchesMakeGoodTables ==
  ASSUME NEW d \in Devices
  PROVE  GoodTables(Registered(d))
<1> DEFINE l == Len(d.sketch)
           S == {n \in Nat : n <= l => GoodTables(steps(d)[n])}
<1>1. /\ l \in Nat
      /\ \A i \in 1 .. l : \E kind \in RegistrationKinds : \E name : d.sketch[i] = <<kind, name>>
  <2> DEFINE Names == {r[2] : r \in ToSet(d.sketch)}
  <2>1. d.sketch \in Seq(RegistrationKinds \X Names)
    BY SketchesAssumption DEF RegistrationKinds
  <2> HIDE DEF Names
  <2>2. \A i \in 1 .. l : d.sketch[i] \in RegistrationKinds \X Names
    BY <2>1
  <2> QED
    BY <2>1, <2>2
<1>2. /\ steps(d)[0] = [publishers |-> <<>>, subscribers |-> <<>>, foreign |-> d.foreign]
      /\ \A n \in Nat : n + 1 <= l => steps(d)[n + 1] = register(d, steps(d)[n], d.sketch[n + 1])
  <2> DEFINE f == steps(d)
  <2>1. f = [i \in 0 .. l |-> IF i = 0 THEN [publishers |-> <<>>, subscribers |-> <<>>, foreign |-> d.foreign]
                              ELSE register(d, f[i - 1], d.sketch[i])]
    BY <1>1, StepsDef
  <2> HIDE DEF f
  <2> QED
    BY <1>1, <2>1 DEF f
<1>3. 0 \in S
  <2>1. Table(<<>>, PubRoles) /\ Table(<<>>, SubRoles)
    BY DEF Table
  <2> QED
    BY <1>2, <2>1 DEF GoodTables
<1>4. ASSUME NEW n \in Nat, n \in S PROVE n + 1 \in S
  <2> SUFFICES ASSUME n + 1 <= l PROVE GoodTables(steps(d)[n + 1])
    OBVIOUS
  <2>1. GoodTables(steps(d)[n])
    BY <1>1, <1>4
  <2>2. PICK kind \in RegistrationKinds : \E name : d.sketch[n + 1] = <<kind, name>>
    BY <1>1
  <2>0. PICK name : d.sketch[n + 1] = <<kind, name>>
    BY <2>2
  <2>3. GoodTables(register(d, steps(d)[n], <<kind, name>>))
    BY <2>1, RegisterKeeps
  <2> QED
    BY <1>2, <2>0, <2>3
<1> HIDE DEF S
<1>5. l \in S
  BY <1>1, <1>3, <1>4, Induction
<1> QED
  BY <1>1, <1>5 DEF S, Registered

-----------------------------------------------------------------------------
(* What the invariant needs of the tables.                                 *)

\* What the device knows of itself does not change.
LEMMA TablesSound ==
  ASSUME TypeOK
  PROVE  /\ tables.publishers \in Seq(EndpointsOf(tables))
         /\ tables.subscribers \in Seq(EndpointsOf(tables))
         /\ EndpointsOf(tables) \subseteq Endpoints
         /\ \A e \in EndpointsOf(tables) : e = Endpoint(e.role, e.name)
         /\ \A e \in ToSet(tables.publishers) : e.role \in PubRoles
         /\ \A e \in ToSet(tables.subscribers) : e.role \in SubRoles
         /\ \A e \in EndpointsOf(tables) :
              e.role = "server_sub" => Endpoint("server_pub", e.name) \in EndpointsOf(tables)
<1>1. PICK d \in Devices : tables = Registered(d)
  BY DEF TypeOK
<1>2. EndpointsOf(tables) \subseteq Endpoints
  BY <1>1 DEF Endpoints
<1>3. Table(tables.publishers, PubRoles) /\ Table(tables.subscribers, SubRoles)
  BY <1>1, SketchesMakeGoodTables DEF GoodTables
<1>4. ASSUME NEW s, NEW roles, Table(s, roles)
      PROVE  /\ s \in Seq(ToSet(s))
             /\ \A e \in ToSet(s) : e = Endpoint(e.role, e.name) /\ e.role \in roles
  <2> DEFINE G == {e \in ToSet(s) : e = Endpoint(e.role, e.name) /\ e.role \in roles}
  <2>1. s \in Seq(G)
    BY <1>4 DEF Table
  <2>2. G \subseteq ToSet(s)
    OBVIOUS
  <2>3. \A i \in DOMAIN s : s[i] \in G
    BY <2>1
  <2>4. ToSet(s) \subseteq G
    BY <2>3 DEF ToSet
  <2>5. ToSet(s) = G
    BY <2>2, <2>4
  <2> QED
    BY <2>1, <2>5
<1>5. /\ tables.publishers \in Seq(ToSet(tables.publishers))
      /\ \A e \in ToSet(tables.publishers) : e = Endpoint(e.role, e.name) /\ e.role \in PubRoles
  BY <1>3, <1>4
<1>6. /\ tables.subscribers \in Seq(ToSet(tables.subscribers))
      /\ \A e \in ToSet(tables.subscribers) : e = Endpoint(e.role, e.name) /\ e.role \in SubRoles
  BY <1>3, <1>4
<1>7. /\ tables.publishers \in Seq(EndpointsOf(tables))
      /\ tables.subscribers \in Seq(EndpointsOf(tables))
  BY <1>5, <1>6 DEF EndpointsOf
<1>8. \A e \in EndpointsOf(tables) : e = Endpoint(e.role, e.name)
  BY <1>5, <1>6 DEF EndpointsOf
<1>9. \A e \in EndpointsOf(tables) :
        e.role = "server_sub" => Endpoint("server_pub", e.name) \in EndpointsOf(tables)
  BY <1>1, SlotsAssumption
<1> QED
  BY <1>2, <1>5, <1>6, <1>7, <1>8, <1>9

\* The two tables share no endpoint.
LEMMA TablesApart ==
  ASSUME TypeOK, NEW e \in EndpointsOf(tables)
  PROVE  /\ e.role \in PubRoles => e \in ToSet(tables.publishers)
         /\ e.role \in SubRoles => e \in ToSet(tables.subscribers)
         /\ e \in Endpoints /\ e # Absent /\ e # Unset
         /\ e.role \in {"client_pub", "client_sub"} => e.name \in ClientNames
         /\ e.role \in {"server_pub", "server_sub"} => e.name \in ServerNames
<1>1. e \in ToSet(tables.publishers) \/ e \in ToSet(tables.subscribers)
  BY DEF EndpointsOf
<1>2. e.role \in PubRoles \/ e.role \in SubRoles
  BY <1>1, TablesSound
<1>3. /\ e.role \in PubRoles => e \in ToSet(tables.publishers)
      /\ e.role \in SubRoles => e \in ToSet(tables.subscribers)
  BY <1>1, TablesSound DEF PubRoles, SubRoles
<1>4. e \in Endpoints
  BY TablesSound
<1>5. e # Absent /\ e # Unset
  BY <1>2 DEF Absent, Unset, PubRoles, SubRoles
<1>6. /\ e.role \in {"client_pub", "client_sub"} => e.name \in ClientNames
      /\ e.role \in {"server_pub", "server_sub"} => e.name \in ServerNames
  BY <1>4 DEF ClientNames, ServerNames, Named
<1> QED
  BY <1>3, <1>4, <1>5, <1>6

-----------------------------------------------------------------------------
(* Lines.                                                                  *)

\* All frames of t are frames of s, or the frame f.
Only(s, t, f) ==
  t \in Seq(Frames) /\ \A i \in DOMAIN t : t[i] = f \/ \E j \in DOMAIN s : t[i] = s[j]

LEMMA OnlySame == ASSUME NEW s \in Seq(Frames), NEW f PROVE Only(s, s, f)
  BY DEF Only

LEMMA OnlyTail ==
  ASSUME NEW s \in Seq(Frames), s # <<>>, NEW f
  PROVE  Only(s, Tail(s), f) /\ Head(s) \in Frames /\ \E j \in DOMAIN s : Head(s) = s[j]
<1> DEFINE t == Tail(s)
<1>1. Head(s) \in Frames /\ t \in Seq(Frames) /\ Len(s) \in Nat /\ Len(t) = Len(s) - 1
      /\ \A i \in 1 .. Len(t) : t[i] = s[i + 1]
  BY HeadTailProperties
<1>2. DOMAIN t = 1 .. Len(t) /\ DOMAIN s = 1 .. Len(s) /\ s[1] = Head(s) /\ Len(s) > 0
  BY <1>1
<1> HIDE DEF t
<1>3. \A i \in DOMAIN t : i + 1 \in DOMAIN s /\ t[i] = s[i + 1]
  BY <1>1, <1>2
<1>4. 1 \in DOMAIN s
  BY <1>1, <1>2
<1> QED
  BY <1>1, <1>2, <1>3, <1>4 DEF Only, t

LEMMA OnlyAppend ==
  ASSUME NEW s \in Seq(Frames), NEW f \in Frames PROVE Only(s, Append(s, f), f)
<1> DEFINE t == Append(s, f)
           n == Len(s) + 1
<1>1. /\ t \in Seq(Frames) /\ DOMAIN s = 1 .. Len(s) /\ Len(s) \in Nat
      /\ DOMAIN t = 1 .. n /\ t[n] = f /\ \A i \in DOMAIN s : t[i] = s[i]
  BY AppendProperties
<1> HIDE DEF t
<1>2. DOMAIN t = DOMAIN s \cup {n}
  BY <1>1
<1> QED
  BY <1>1, <1>2 DEF Only, t

LEMMA ConcatFrames ==
  ASSUME NEW s \in Seq(Frames), NEW r \in Seq(Frames)
  PROVE  /\ s \o r \in Seq(Frames)
         /\ \A i \in DOMAIN (s \o r) : \/ \E j \in DOMAIN s : (s \o r)[i] = s[j]
                                       \/ \E j \in DOMAIN r : (s \o r)[i] = r[j]
<1> DEFINE t == s \o r
<1>1. /\ t \in Seq(Frames) /\ Len(s) \in Nat /\ Len(r) \in Nat
      /\ DOMAIN s = 1 .. Len(s) /\ DOMAIN r = 1 .. Len(r) /\ DOMAIN t = 1 .. Len(s) + Len(r)
      /\ \A i \in 1 .. Len(s) + Len(r) : t[i] = IF i <= Len(s) THEN s[i] ELSE r[i - Len(s)]
  BY ConcatProperties
<1> HIDE DEF t
<1>2. ASSUME NEW i \in DOMAIN t
      PROVE  (\E j \in DOMAIN s : t[i] = s[j]) \/ (\E j \in DOMAIN r : t[i] = r[j])
  <2>1. CASE i <= Len(s)
    <3>1. i \in DOMAIN s /\ t[i] = s[i]
      BY <1>1, <2>1
    <3> QED
      BY <3>1
  <2>2. CASE i > Len(s)
    <3>1. i - Len(s) \in DOMAIN r /\ t[i] = r[i - Len(s)]
      BY <1>1, <2>2
    <3> QED
      BY <3>1
  <2>3. i <= Len(s) \/ i > Len(s)
    BY <1>1
  <2> QED
    BY <2>1, <2>2, <2>3
<1> QED
  BY <1>1, <1>2 DEF t

\* What is kept of the frames of a line when only f may be new.
LEMMA OnlyKeepsUp ==
  ASSUME SentByDevice, UNCHANGED tables, NEW f, Only(up, up', f),
         f.type = "info" => f.e \in EndpointsOf(tables),
         f.type = "data" => f.e \in ToSet(tables.publishers)
  PROVE  SentByDevice' /\ up' \in Seq(Frames)
  BY DEF SentByDevice, Only

LEMMA OnlyKeepsDown ==
  ASSUME SentToListeners, UNCHANGED tables, NEW f, Only(down, down', f),
         f.type = "data" => f.e = Unset \/ f.e \in ToSet(tables.subscribers)
  PROVE  SentToListeners' /\ down' \in Seq(Frames)
  BY DEF SentToListeners, Only

LEMMA PlainFrames ==
  /\ RequestTopics \in Frames /\ TxStop \in Frames /\ Time \in Frames
  /\ RequestTopics.type = "request_topics" /\ TxStop.type = "tx_stop" /\ Time.type = "time"
  BY DEF RequestTopics, TxStop, Time, Frame, Frames, FrameTypes

LEMMA MadeFrame ==
  ASSUME NEW type \in FrameTypes, NEW e \in Endpoints \cup {NoEndpoint, Unset}
  PROVE  Frame(type, e) \in Frames /\ Frame(type, e).type = type /\ Frame(type, e).e = e
  BY DEF Frame, Frames

LEMMA LinesOf ==
  ASSUME NegotiationInv PROVE up \in Seq(Frames) /\ down \in Seq(Frames)
  BY DEF NegotiationInv, TypeOK

\* Steps that only move frames.
LEMMA FramesStep ==
  ASSUME NegotiationInv, UNCHANGED <<tables, callbacks, subscribed, service_clients, service_servers>>,
         SentByDevice', up' \in Seq(Frames), SentToListeners', down' \in Seq(Frames)
  PROVE  NegotiationInv'
<1>1. TypeOK'
  BY DEF NegotiationInv, TypeOK
<1>2. IdsRight' /\ CallbacksBound'
  BY DEF NegotiationInv, IdsRight, CallbacksBound
<1> QED
  BY <1>1, <1>2 DEF NegotiationInv

\* The server takes a frame.
LEMMA TakesStep ==
  ASSUME NegotiationInv, NEW type, Takes(type), UNCHANGED tables
  PROVE  /\ SentByDevice' /\ up' \in Seq(Frames)
         /\ type = "info" => Head(up).e \in EndpointsOf(tables)
         /\ type = "data" => Head(up).e \in ToSet(tables.publishers)
<1>1. up \in Seq(Frames) /\ up # <<>> /\ up' = Tail(up) /\ Head(up).type = type
  BY LinesOf DEF Takes
<1>2. Only(up, up', Time) /\ \E j \in DOMAIN up : Head(up) = up[j]
  BY <1>1, OnlyTail
<1>3. SentByDevice' /\ up' \in Seq(Frames)
  BY <1>2, OnlyKeepsUp, PlainFrames DEF NegotiationInv
<1> QED
  BY <1>1, <1>2, <1>3 DEF NegotiationInv, SentByDevice

LEMMA ReceivesStep ==
  ASSUME NegotiationInv, NEW type, Receives(type), UNCHANGED tables
  PROVE  /\ SentToListeners' /\ down' \in Seq(Frames)
         /\ type = "data" => Head(down).e = Unset \/ Head(down).e \in ToSet(tables.subscribers)
<1>1. down \in Seq(Frames) /\ down # <<>> /\ down' = Tail(down) /\ Head(down).type = type
  BY LinesOf DEF Receives
<1>2. Only(down, down', Time) /\ \E j \in DOMAIN down : Head(down) = down[j]
  BY <1>1, OnlyTail
<1>3. SentToListeners' /\ down' \in Seq(Frames)
  BY <1>2, OnlyKeepsDown, PlainFrames DEF NegotiationInv
<1> QED
  BY <1>1, <1>2, <1>3 DEF NegotiationInv, SentToListeners

LEMMA SameUp == ASSUME NegotiationInv, UNCHANGED <<tables, up>> PROVE SentByDevice' /\ up' \in Seq(Frames)
  BY LinesOf DEF NegotiationInv, SentByDevice

LEMMA SameDown ==
  ASSUME NegotiationInv, UNCHANGED <<tables, down>> PROVE SentToListeners' /\ down' \in Seq(Frames)
  BY LinesOf DEF NegotiationInv, SentToListeners

LEMMA SendUp ==
  ASSUME NegotiationInv, NEW f \in Frames, up' = Append(up, f), UNCHANGED tables,
         f.type = "info" => f.e \in EndpointsOf(tables),
         f.type = "data" => f.e \in ToSet(tables.publishers)
  PROVE  SentByDevice' /\ up' \in Seq(Frames)
<1>1. Only(up, up', f)
  BY LinesOf, OnlyAppend
<1> QED
  BY <1>1, OnlyKeepsUp DEF NegotiationInv

LEMMA SendDown ==
  ASSUME NegotiationInv, NEW f \in Frames, down' = Append(down, f), UNCHANGED tables,
         f.type = "data" => f.e = Unset \/ f.e \in ToSet(tables.subscribers)
  PROVE  SentToListeners' /\ down' \in Seq(Frames)
<1>1. Only(down, down', f)
  BY LinesOf, OnlyAppend
<1> QED
  BY <1>1, OnlyKeepsDown DEF NegotiationInv

-----------------------------------------------------------------------------
(* The setup_... handlers.                                                 *)

LEMMA SetupPublisherStep == ASSUME NegotiationInv, SetupPublisher PROVE NegotiationInv'
<1> DEFINE e == Head(up).e
<1>1. /\ Takes("info") /\ e.role = "publisher"
      /\ callbacks' = IF KnownType(e) THEN [callbacks EXCEPT ![e] = "Publisher"] ELSE callbacks
      /\ UNCHANGED <<tables, down, subscribed, service_clients, service_servers>>
  BY DEF SetupPublisher, deviceVars
<1>2. TypeOK
  BY DEF NegotiationInv
<1>3. /\ SentByDevice' /\ up' \in Seq(Frames) /\ e \in EndpointsOf(tables)
      /\ SentToListeners' /\ down' \in Seq(Frames)
  BY <1>1, TakesStep, SameDown
<1>4. e \in Endpoints
  BY <1>2, <1>3, TablesApart
<1> HIDE DEF e
<1>5. callbacks' \in [Endpoints -> Classes] /\ \A x \in Endpoints :
        callbacks'[x] = callbacks[x] \/ (x = e /\ callbacks'[x] = "Publisher")
  BY <1>1, <1>2, <1>4 DEF TypeOK, Classes
<1>6. TypeOK'
  BY <1>1, <1>2, <1>3, <1>5 DEF TypeOK
<1>7. IdsRight'
  BY <1>1 DEF NegotiationInv, IdsRight
<1>8. CallbacksBound'
  BY <1>1, <1>5 DEF NegotiationInv, CallbacksBound
<1> QED
  BY <1>3, <1>6, <1>7, <1>8 DEF NegotiationInv

LEMMA SetupSubscriberStep == ASSUME NegotiationInv, SetupSubscriber PROVE NegotiationInv'
<1> DEFINE e == Head(up).e
<1>1. /\ Takes("info") /\ e.role = "subscriber" /\ subscribed' \subseteq subscribed \cup {e}
      /\ UNCHANGED <<tables, down, callbacks, service_clients, service_servers>>
  BY DEF SetupSubscriber, deviceVars
<1>2. TypeOK
  BY DEF NegotiationInv
<1>3. /\ SentByDevice' /\ up' \in Seq(Frames) /\ e \in EndpointsOf(tables)
      /\ SentToListeners' /\ down' \in Seq(Frames)
  BY <1>1, TakesStep, SameDown
<1>4. e \in ToSet(tables.subscribers)
  BY <1>1, <1>2, <1>3, TablesApart DEF SubRoles
<1> HIDE DEF e
<1>5. TypeOK'
  BY <1>1, <1>2, <1>3, <1>4 DEF TypeOK
<1>6. IdsRight' /\ CallbacksBound'
  BY <1>1 DEF NegotiationInv, IdsRight, CallbacksBound
<1> QED
  BY <1>3, <1>5, <1>6 DEF NegotiationInv

LEMMA SetupServiceClientStep == ASSUME NegotiationInv, SetupServiceClient PROVE NegotiationInv'
<1> DEFINE e == Head(up).e
           known == service_clients[e.name] # Absent
<1>1. /\ Takes("info") /\ e.role \in {"client_pub", "client_sub"}
      /\ callbacks' = IF known THEN callbacks ELSE [callbacks EXCEPT ![e] = "ServiceClient"]
      /\ service_clients' =
           IF e.role = "client_sub" THEN [service_clients EXCEPT ![e.name] = e]
           ELSE IF known THEN service_clients ELSE [service_clients EXCEPT ![e.name] = Unset]
      /\ UNCHANGED <<tables, down, subscribed, service_servers>>
  BY DEF SetupServiceClient, deviceVars
<1>2. TypeOK
  BY DEF NegotiationInv
<1>3. /\ SentByDevice' /\ up' \in Seq(Frames) /\ e \in EndpointsOf(tables)
      /\ SentToListeners' /\ down' \in Seq(Frames)
  BY <1>1, TakesStep, SameDown
<1>4. e \in Endpoints /\ e.name \in ClientNames /\ e # Absent /\ Unset # Absent
  BY <1>1, <1>2, <1>3, TablesApart DEF Unset, Absent
<1>5. e.role = "client_sub" => e = Endpoint("client_sub", e.name) /\ e \in ToSet(tables.subscribers)
  BY <1>1, <1>2, <1>3, TablesApart, TablesSound DEF SubRoles
<1> HIDE DEF e
<1>6. callbacks' \in [Endpoints -> Classes] /\ \A x \in Endpoints :
        callbacks'[x] = callbacks[x] \/ (x = e /\ callbacks'[x] = "ServiceClient")
  BY <1>1, <1>2, <1>4 DEF TypeOK, Classes
<1>7. /\ DOMAIN service_clients' = ClientNames
      /\ \A n \in ClientNames : n # e.name => service_clients'[n] = service_clients[n]
      /\ service_clients'[e.name] # Absent
      /\ \/ service_clients'[e.name] = service_clients[e.name]
         \/ service_clients'[e.name] = Unset
         \/ service_clients'[e.name] = e /\ e.role = "client_sub"
  BY <1>1, <1>2, <1>4 DEF TypeOK
<1>8. TypeOK'
  BY <1>1, <1>2, <1>3, <1>6, <1>7 DEF TypeOK
<1>9. IdsRight'
  <2>1. ASSUME NEW n \in ClientNames
        PROVE  \/ service_clients'[n] \in {Absent, Unset}
               \/ service_clients'[n] = Endpoint("client_sub", n)
                    /\ service_clients'[n] \in ToSet(tables.subscribers)
    <3>1. CASE n # e.name
      BY <1>7, <3>1 DEF NegotiationInv, IdsRight
    <3>2. CASE n = e.name
      BY <1>5, <1>7, <3>2 DEF NegotiationInv, IdsRight
    <3> QED
      BY <3>1, <3>2
  <2> QED
    BY <1>1, <2>1 DEF NegotiationInv, IdsRight
<1>10. CallbacksBound'
  <2> SUFFICES ASSUME NEW x \in Endpoints
               PROVE  /\ callbacks'[x] = "Publisher" => x.role = "publisher"
                      /\ callbacks'[x] = "ServiceClient" =>
                           /\ x.role \in {"client_pub", "client_sub"}
                           /\ service_clients'[x.name] # Absent
                      /\ callbacks'[x] = "ServiceServer" =>
                           /\ x.role \in {"server_pub", "server_sub"}
                           /\ service_servers[x.name] # Absent
    BY <1>1 DEF CallbacksBound
  <2>1. CASE callbacks'[x] = callbacks[x]
    <3>1. x.role \in {"client_pub", "client_sub"} => x.name \in ClientNames
      BY DEF ClientNames, Named
    <3> QED
      BY <1>7, <2>1, <3>1 DEF NegotiationInv, CallbacksBound
  <2>2. CASE x = e /\ callbacks'[x] = "ServiceClient"
    BY <1>1, <1>7, <2>2
  <2> QED
    BY <1>6, <2>1, <2>2
<1> QED
  BY <1>3, <1>8, <1>9, <1>10 DEF NegotiationInv

LEMMA SetupServiceServerStep == ASSUME NegotiationInv, SetupServiceServer PROVE NegotiationInv'
<1> DEFINE e == Head(up).e
           known == service_servers[e.name] # Absent
<1>1. /\ Takes("info") /\ e.role \in {"server_pub", "server_sub"}
      /\ callbacks' = IF known THEN callbacks ELSE [callbacks EXCEPT ![e] = "ServiceServer"]
      /\ service_servers' =
           IF e.role = "server_sub" THEN [service_servers EXCEPT ![e.name] = e]
           ELSE IF known THEN service_servers ELSE [service_servers EXCEPT ![e.name] = Unset]
      /\ UNCHANGED <<tables, down, subscribed, service_clients>>
  BY DEF SetupServiceServer, deviceVars
<1>2. TypeOK
  BY DEF NegotiationInv
<1>3. /\ SentByDevice' /\ up' \in Seq(Frames) /\ e \in EndpointsOf(tables)
      /\ SentToListeners' /\ down' \in Seq(Frames)
  BY <1>1, TakesStep, SameDown
<1>4. e \in Endpoints /\ e.name \in ServerNames /\ e # Absent /\ Unset # Absent
  BY <1>1, <1>2, <1>3, TablesApart DEF Unset, Absent
<1>5. e.role = "server_sub" => e = Endpoint("server_sub", e.name) /\ e \in ToSet(tables.subscribers)
  BY <1>1, <1>2, <1>3, TablesApart, TablesSound DEF SubRoles
<1> HIDE DEF e
<1>6. callbacks' \in [Endpoints -> Classes] /\ \A x \in Endpoints :
        callbacks'[x] = callbacks[x] \/ (x = e /\ callbacks'[x] = "ServiceServer")
  BY <1>1, <1>2, <1>4 DEF TypeOK, Classes
<1>7. /\ DOMAIN service_servers' = ServerNames
      /\ \A n \in ServerNames : n # e.name => service_servers'[n] = service_servers[n]
      /\ service_servers'[e.name] # Absent
      /\ \/ service_servers'[e.name] = service_servers[e.name]
         \/ service_servers'[e.name] = Unset
         \/ service_servers'[e.name] = e /\ e.role = "server_sub"
  BY <1>1, <1>2, <1>4 DEF TypeOK
<1>8. TypeOK'
  BY <1>1, <1>2, <1>3, <1>6, <1>7 DEF TypeOK
<1>9. IdsRight'
  <2>1. ASSUME NEW n \in ServerNames
        PROVE  \/ service_servers'[n] \in {Absent, Unset}
               \/ service_servers'[n] = Endpoint("server_sub", n)
                    /\ service_servers'[n] \in ToSet(tables.subscribers)
    <3>1. CASE n # e.name
      BY <1>7, <3>1 DEF NegotiationInv, IdsRight
    <3>2. CASE n = e.name
      BY <1>5, <1>7, <3>2 DEF NegotiationInv, IdsRight
    <3> QED
      BY <3>1, <3>2
  <2> QED
    BY <1>1, <2>1 DEF NegotiationInv, IdsRight
<1>10. CallbacksBound'
  <2> SUFFICES ASSUME NEW x \in Endpoints
               PROVE  /\ callbacks'[x] = "Publisher" => x.role = "publisher"
                      /\ callbacks'[x] = "ServiceClient" =>
                           /\ x.role \in {"client_pub", "client_sub"}
                           /\ service_clients[x.name] # Absent
                      /\ callbacks'[x] = "ServiceServer" =>
                           /\ x.role \in {"server_pub", "server_sub"}
                           /\ service_servers'[x.name] # Absent
    BY <1>1 DEF CallbacksBound
  <2>1. CASE callbacks'[x] = callbacks[x]
    <3>1. x.role \in {"server_pub", "server_sub"} => x.name \in ServerNames
      BY DEF ServerNames, Named
    <3> QED
      BY <1>7, <2>1, <3>1 DEF NegotiationInv, CallbacksBound
  <2>2. CASE x = e /\ callbacks'[x] = "ServiceServer"
    BY <1>1, <1>7, <2>2
  <2> QED
    BY <1>6, <2>1, <2>2
<1> QED
  BY <1>3, <1>8, <1>9, <1>10 DEF NegotiationInv

\* A new session knows nothing.
LEMMA ResynchroniseStep == ASSUME NegotiationInv, Resynchronise PROVE NegotiationInv'
<1>1. /\ callbacks' = [e \in Endpoints |-> "none"] /\ subscribed' = {}
      /\ service_clients' = [n \in ClientNames |-> Absent]
      /\ service_servers' = [n \in ServerNames |-> Absent]
      /\ down' = down \o <<TxStop, RequestTopics>> /\ UNCHANGED <<tables, up>>
  BY DEF Resynchronise, deviceVars
<1>2. SentByDevice' /\ up' \in Seq(Frames)
  BY <1>1, SameUp
<1>3. SentToListeners' /\ down' \in Seq(Frames)
  <2> DEFINE r == <<TxStop, RequestTopics>>
  <2>1. r \in Seq(Frames) /\ \A j \in DOMAIN r : r[j].type # "data"
    BY PlainFrames
  <2> HIDE DEF r
  <2>2. /\ down' \in Seq(Frames)
        /\ \A i \in DOMAIN down' : \/ \E j \in DOMAIN down : down'[i] = down[j]
                                   \/ \E j \in DOMAIN r : down'[i] = r[j]
    BY <1>1, <2>1, LinesOf, ConcatFrames DEF r
  <2> QED
    BY <1>1, <2>1, <2>2 DEF NegotiationInv, SentToListeners
<1>4. TypeOK'
  BY <1>1, <1>2, <1>3 DEF NegotiationInv, TypeOK, Classes
<1>5. IdsRight' /\ CallbacksBound'
  BY <1>1 DEF IdsRight, CallbacksBound
<1> QED
  BY <1>2, <1>3, <1>4, <1>5 DEF NegotiationInv

-----------------------------------------------------------------------------
(* Messages.                                                               *)

LEMMA MessageSteps ==
  ASSUME NegotiationInv,
         HandleTime \/ HandleData \/ HandleUnrecognised \/ \E n \in ClientNames : HandleRequest(n)
  PROVE  NegotiationInv'
<1>1. TypeOK
  BY DEF NegotiationInv
<1>2. CASE HandleTime
  BY <1>2, TakesStep, SendDown, PlainFrames, FramesStep DEF HandleTime, deviceVars
<1>3. CASE HandleData
  BY <1>3, TakesStep, SameDown, FramesStep DEF HandleData, deviceVars, serverVars
<1>4. CASE HandleUnrecognised
  BY <1>4, TakesStep, SendDown, PlainFrames, FramesStep DEF HandleUnrecognised, deviceVars
<1>5. ASSUME NEW n \in ClientNames, HandleRequest(n) PROVE NegotiationInv'
  <2> DEFINE e == Head(up).e
             f == Frame("data", service_clients[n])
  <2>1. /\ Takes("data") /\ callbacks[e] = "ServiceClient" /\ e.name = n
        /\ down' = Append(down, f)
        /\ UNCHANGED <<tables, callbacks, subscribed, service_clients, service_servers>>
    BY <1>5 DEF HandleRequest, deviceVars, serverVars
  <2>2. SentByDevice' /\ up' \in Seq(Frames) /\ e \in ToSet(tables.publishers)
    BY <2>1, TakesStep
  <2>3. e \in Endpoints
    BY <1>1, <2>2, TablesApart DEF EndpointsOf
  <2>4. service_clients[n] = Unset \/ service_clients[n] \in ToSet(tables.subscribers)
    BY <2>1, <2>3 DEF NegotiationInv, CallbacksBound, IdsRight
  <2>5. service_clients[n] \in Endpoints \cup {NoEndpoint, Unset}
    BY <1>1, <2>4, TablesApart DEF EndpointsOf
  <2>6. f \in Frames /\ f.type = "data" /\ f.e = service_clients[n]
    BY <2>5, MadeFrame DEF FrameTypes
  <2> HIDE DEF f
  <2>7. SentToListeners' /\ down' \in Seq(Frames)
    BY <2>1, <2>4, <2>6, SendDown
  <2> QED
    BY <2>1, <2>2, <2>7, FramesStep
<1> QED
  BY <1>2, <1>3, <1>4, <1>5

LEMMA RosSteps ==
  ASSUME NegotiationInv,
         (\E e \in Endpoints : RosPublishes(e)) \/ (\E n \in ServerNames : RosCalls(n))
  PROVE  NegotiationInv'
<1>1. TypeOK
  BY DEF NegotiationInv
<1>2. ASSUME NEW e, e = Unset \/ e \in ToSet(tables.subscribers), down' = Append(down, Frame("data", e)),
             UNCHANGED <<deviceVars, up, serverVars>>
      PROVE  NegotiationInv'
  <2>1. UNCHANGED <<tables, up, callbacks, subscribed, service_clients, service_servers>>
    BY <1>2 DEF deviceVars, serverVars
  <2>2. e \in Endpoints \cup {NoEndpoint, Unset}
    BY <1>1, <1>2, TablesApart DEF EndpointsOf
  <2>3. Frame("data", e) \in Frames /\ Frame("data", e).e = e
    BY <2>2, MadeFrame DEF FrameTypes
  <2>4. SentToListeners' /\ down' \in Seq(Frames)
    BY <1>2, <2>1, <2>3, SendDown
  <2> QED
    BY <2>1, <2>4, SameUp, FramesStep
<1>3. ASSUME NEW e \in Endpoints, RosPublishes(e) PROVE NegotiationInv'
  BY <1>1, <1>2, <1>3 DEF RosPublishes, TypeOK
<1>4. ASSUME NEW n \in ServerNames, RosCalls(n) PROVE NegotiationInv'
  <2>1. service_servers[n] = Unset \/ service_servers[n] \in ToSet(tables.subscribers)
    BY <1>4 DEF RosCalls, NegotiationInv, IdsRight
  <2> QED
    BY <1>2, <1>4, <2>1 DEF RosCalls
<1> QED
  BY <1>3, <1>4

LEMMA NegotiatesStep == ASSUME NegotiationInv, DeviceNegotiates PROVE NegotiationInv'
<1> DEFINE r == <<Time>>
           s == up \o r
           pubs == tables.publishers
           subs == tables.subscribers
           slots == pubs \o subs
<1>1. /\ Receives("request_topics") /\ up' = s \o Announcements
      /\ UNCHANGED <<tables, callbacks, subscribed, service_clients, service_servers>>
  BY DEF DeviceNegotiates, serverVars
<1>2. TypeOK
  BY DEF NegotiationInv
<1>3. slots \in Seq(EndpointsOf(tables))
  <2>1. pubs \in Seq(EndpointsOf(tables)) /\ subs \in Seq(EndpointsOf(tables))
    BY <1>2, TablesSound
  <2> HIDE DEF pubs, subs
  <2> QED
    BY <2>1, ConcatProperties
<1>4. Announcements = [i \in DOMAIN slots |-> Frame("info", slots[i])]
  BY DEF Announcements
<1> HIDE DEF slots
<1>5. Len(slots) \in Nat /\ DOMAIN slots = 1 .. Len(slots)
      /\ \A i \in DOMAIN slots : slots[i] \in EndpointsOf(tables)
  BY <1>3
<1>6. \A i \in DOMAIN slots : /\ Frame("info", slots[i]) \in Frames
                              /\ Frame("info", slots[i]).type = "info"
                              /\ Frame("info", slots[i]).e = slots[i]
  <2> SUFFICES ASSUME NEW i \in DOMAIN slots
               PROVE  /\ Frame("info", slots[i]) \in Frames
                      /\ Frame("info", slots[i]).type = "info"
                      /\ Frame("info", slots[i]).e = slots[i]
    OBVIOUS
  <2>1. slots[i] \in Endpoints
    BY <1>2, <1>5, TablesSound
  <2> QED
    BY <2>1, MadeFrame DEF FrameTypes
<1>7. /\ Announcements \in Seq(Frames)
      /\ \A j \in DOMAIN Announcements : /\ Announcements[j].type = "info"
                                         /\ Announcements[j].e \in EndpointsOf(tables)
  BY <1>4, <1>5, <1>6
<1>8. s \in Seq(Frames) /\ \A i \in DOMAIN s : s[i] = Time \/ \E j \in DOMAIN up : s[i] = up[j]
  <2>1. r \in Seq(Frames) /\ \A j \in DOMAIN r : r[j] = Time
    BY PlainFrames
  <2> HIDE DEF r
  <2> QED
    BY <2>1, LinesOf, ConcatFrames
<1> HIDE DEF s
<1>9. /\ up' \in Seq(Frames)
      /\ \A i \in DOMAIN up' : \/ \E j \in DOMAIN s : up'[i] = s[j]
                               \/ \E j \in DOMAIN Announcements : up'[i] = Announcements[j]
  BY <1>1, <1>7, <1>8, ConcatFrames
<1>10. SentByDevice'
  <2> SUFFICES ASSUME NEW i \in DOMAIN up'
               PROVE  /\ up'[i].type = "info" => up'[i].e \in EndpointsOf(tables)
                      /\ up'[i].type = "data" => up'[i].e \in ToSet(tables.publishers)
    BY <1>1 DEF SentByDevice
  <2>1. CASE \E j \in DOMAIN Announcements : up'[i] = Announcements[j]
    BY <1>7, <2>1
  <2>2. CASE \E j \in DOMAIN s : up'[i] = s[j]
    BY <1>8, <2>2, PlainFrames DEF NegotiationInv, SentByDevice
  <2> QED
    BY <1>9, <2>1, <2>2
<1> QED
  BY <1>1, <1>9, <1>10, ReceivesStep, FramesStep

LEMMA DeviceSteps ==
  ASSUME NegotiationInv,
         \/ DeviceStops \/ DeviceGetsTime \/ DeviceGetsData \/ DeviceAsksTime \/ DeviceGivesUp
         \/ \E e \in Endpoints : DevicePublishes(e)
  PROVE  NegotiationInv'
<1>1. TypeOK
  BY DEF NegotiationInv
<1>2. CASE DeviceStops
  BY <1>2, ReceivesStep, SameUp, FramesStep DEF DeviceStops, serverVars
<1>3. CASE DeviceGetsTime
  BY <1>3, ReceivesStep, SameUp, FramesStep DEF DeviceGetsTime, serverVars
<1>4. CASE DeviceGetsData
  <2> DEFINE e == Head(down).e
             p == Endpoint("server_pub", e.name)
  <2>1. /\ Receives("data")
        /\ up' = up \/ (e.role = "server_sub" /\ up' = Append(up, Frame("data", p)))
        /\ UNCHANGED <<tables, callbacks, subscribed, service_clients, service_servers>>
    BY <1>4 DEF DeviceGetsData, serverVars
  <2>2. /\ SentToListeners' /\ down' \in Seq(Frames)
        /\ e = Unset \/ e \in ToSet(tables.subscribers)
    BY <2>1, ReceivesStep
  <2>3. CASE up' = up
    BY <2>1, <2>2, <2>3, SameUp, FramesStep
  <2>4. CASE e.role = "server_sub" /\ up' = Append(up, Frame("data", p))
    <3>1. e \in EndpointsOf(tables)
      BY <2>2, <2>4 DEF Unset, EndpointsOf
    <3>2. p \in EndpointsOf(tables) /\ p.role = "server_pub"
      BY <1>1, <2>4, <3>1, TablesSound DEF Endpoint
    <3>3. p \in ToSet(tables.publishers) /\ p \in Endpoints
      BY <1>1, <3>2, TablesApart DEF PubRoles
    <3>4. Frame("data", p) \in Frames /\ Frame("data", p).type = "data" /\ Frame("data", p).e = p
      BY <3>3, MadeFrame DEF FrameTypes
    <3>5. SentByDevice' /\ up' \in Seq(Frames)
      BY <2>1, <2>4, <3>3, <3>4, SendUp
    <3> QED
      BY <2>1, <2>2, <3>5, FramesStep
  <2> QED
    BY <2>1, <2>3, <2>4
<1>5. CASE DeviceAsksTime
  BY <1>5, SendUp, SameDown, PlainFrames, FramesStep DEF DeviceAsksTime, serverVars
<1>6. CASE DeviceGivesUp
  BY <1>6, SameUp, SameDown, FramesStep DEF DeviceGivesUp, serverVars
<1>7. ASSUME NEW e \in Endpoints, DevicePublishes(e) PROVE NegotiationInv'
  <2>1. e \in ToSet(tables.publishers) /\ up' = Append(up, Frame("data", e))
        /\ UNCHANGED <<tables, down, callbacks, subscribed, service_clients, service_servers>>
    BY <1>7 DEF DevicePublishes, deviceVars, serverVars
  <2>2. Frame("data", e) \in Frames /\ Frame("data", e).type = "data" /\ Frame("data", e).e = e
    BY MadeFrame DEF FrameTypes
  <2>3. SentByDevice' /\ up' \in Seq(Frames)
    BY <2>1, <2>2, SendUp
  <2> QED
    BY <2>1, <2>3, SameDown, FramesStep
<1> QED
  BY <1>2, <1>3, <1>4, <1>5, <1>6, <1>7

LEMMA LossSteps == ASSUME NegotiationInv, LoseUp \/ LoseDown PROVE NegotiationInv'
<1>1. CASE LoseUp
  <2>1. /\ up # <<>> /\ up' = Tail(up)
        /\ UNCHANGED <<tables, down, callbacks, subscribed, service_clients, service_servers>>
    BY <1>1 DEF LoseUp, deviceVars, serverVars
  <2>2. Only(up, up', Time)
    BY <2>1, LinesOf, OnlyTail
  <2>3. SentByDevice' /\ up' \in Seq(Frames)
    BY <2>1, <2>2, OnlyKeepsUp, PlainFrames DEF NegotiationInv
  <2> QED
    BY <2>1, <2>3, SameDown, FramesStep
<1>2. CASE LoseDown
  <2>1. /\ down # <<>> /\ down' = Tail(down)
        /\ UNCHANGED <<tables, up, callbacks, subscribed, service_clients, service_servers>>
    BY <1>2 DEF LoseDown, deviceVars, serverVars
  <2>2. Only(down, down', Time)
    BY <2>1, LinesOf, OnlyTail
  <2>3. SentToListeners' /\ down' \in Seq(Frames)
    BY <2>1, <2>2, OnlyKeepsDown, PlainFrames DEF NegotiationInv
  <2> QED
    BY <2>1, <2>3, SameUp, FramesStep
<1> QED
  BY <1>1, <1>2

-----------------------------------------------------------------------------
LEMMA InitNegotiationInv == ASSUME Init PROVE NegotiationInv
<1>1. /\ up = <<>> /\ down = <<RequestTopics>> /\ tables \in {Registered(d) : d \in Devices}
      /\ NothingKnown
  BY DEF Init
<1>2. TypeOK
  BY <1>1, PlainFrames DEF TypeOK, NothingKnown, Classes
<1>3. SentByDevice /\ SentToListeners
  BY <1>1, PlainFrames DEF SentByDevice, SentToListeners
<1>4. IdsRight /\ CallbacksBound
  BY <1>1 DEF NothingKnown, IdsRight, CallbacksBound
<1> QED
  BY <1>2, <1>3, <1>4 DEF NegotiationInv

LEMMA NextKeepsNegotiationInv == ASSUME NegotiationInv, [Next]_vars PROVE NegotiationInv'
<1>1. CASE UNCHANGED vars
  BY <1>1, SameUp, SameDown, FramesStep DEF vars, deviceVars, serverVars
<1>2. CASE ServerStep
  BY <1>2, SetupPublisherStep, SetupSubscriberStep, SetupServiceClientStep,
     SetupServiceServerStep, MessageSteps DEF ServerStep
<1>3. CASE DeviceStep
  BY <1>3, NegotiatesStep, DeviceSteps DEF DeviceStep
<1> QED
  BY <1>1, <1>2, <1>3, ResynchroniseStep, RosSteps, DeviceSteps, LossSteps DEF Next

\* For every device whose tables hold its own endpoints, and whatever is lost
\* or announced again: what the setup_... handlers keep about a service is of
\* that service, and callbacks lead to objects that are there.
THEOREM NegotiationInvariant == Spec => []NegotiationInv
<1>1. Init => NegotiationInv
  BY InitNegotiationInv
<1>2. NegotiationInv /\ [Next]_vars => NegotiationInv'
  BY NextKeepsNegotiationInv
<1> QED
  BY <1>1, <1>2, PTL DEF Spec

\* A message of the server with a known topic id goes to a slot of the
\* device's subscribers[].
THEOREM SentToListenersAlways == Spec => []SentToListeners
<1>1. NegotiationInv => SentToListeners
  BY DEF NegotiationInv
<1> QED
  BY <1>1, NegotiationInvariant, PTL
=============================================================================

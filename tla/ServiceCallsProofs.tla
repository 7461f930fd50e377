------------------------- MODULE ServiceCallsProofs -------------------------
(***************************************************************************)
(* CallsInv is an invariant of ServiceCalls for any services and types and *)
(* any number of calls and sessions; with it no response goes to two       *)
(* callers, and answers are mixed up only after a call gave up.            *)
(***************************************************************************)
EXTENDS ServiceCalls, TLAPS, SequenceTheorems

USE TypeOfAssumption, NamesAssumption, MaxCallsAssumption, MaxSessionsAssumption

-----------------------------------------------------------------------------
(* Requests in a queue.                                                    *)

LEMMA AppendIds ==
  ASSUME NEW q \in Seq(Request), NEW e \in Request
  PROVE  /\ Append(q, e) \in Seq(Request)
         /\ IdsOf(Append(q, e)) = IdsOf(q) \cup {e.id}
         /\ Distinct(q) /\ e.id \notin IdsOf(q) => Distinct(Append(q, e))
<1> DEFINE p == Append(q, e)
           n == Len(q) + 1
<1>1. p \in Seq(Request)
  BY AppendProperties
<1>2. /\ DOMAIN q = 1 .. Len(q) /\ Len(q) \in Nat
      /\ DOMAIN p = 1 .. n /\ p[n] = e
      /\ \A i \in DOMAIN q : p[i] = q[i] /\ i # n
  BY AppendProperties
<1> HIDE DEF p
<1>3. DOMAIN p = DOMAIN q \cup {n}
  BY <1>2
<1> HIDE DEF n
<1>4. IdsOf(p) = IdsOf(q) \cup {e.id}
  BY <1>2, <1>3 DEF IdsOf
<1>5. Distinct(q) /\ e.id \notin IdsOf(q) => Distinct(p)
  BY <1>2, <1>3 DEF Distinct, IdsOf
<1> QED
  BY <1>1, <1>4, <1>5 DEF p

LEMMA TailIds ==
  ASSUME NEW q \in Seq(Request), q # <<>>
  PROVE  /\ Head(q) \in Request /\ Tail(q) \in Seq(Request)
         /\ Head(q).id \in IdsOf(q)
         /\ IdsOf(Tail(q)) \subseteq IdsOf(q)
         /\ Distinct(q) => Distinct(Tail(q)) /\ Head(q).id \notin IdsOf(Tail(q))
<1> DEFINE p == Tail(q)
<1>1. Head(q) \in Request /\ p \in Seq(Request)
  BY HeadTailProperties
<1>2. /\ DOMAIN q = 1 .. Len(q) /\ Len(q) \in Nat \ {0}
      /\ DOMAIN p = 1 .. Len(q) - 1 /\ q[1] = Head(q)
      /\ \A i \in DOMAIN p : p[i] = q[i + 1]
  BY HeadTailProperties
<1> HIDE DEF p
<1>3. /\ 1 \in DOMAIN q
      /\ \A i \in DOMAIN p : i + 1 \in DOMAIN q /\ i + 1 # 1
      /\ \A i, j \in DOMAIN p : i + 1 = j + 1 => i = j
  BY <1>2
<1>4. Head(q).id \in IdsOf(q) /\ IdsOf(p) \subseteq IdsOf(q)
  BY <1>2, <1>3 DEF IdsOf
<1>5. Distinct(q) => Distinct(p) /\ Head(q).id \notin IdsOf(p)
  BY <1>2, <1>3 DEF IdsOf, Distinct
<1> QED
  BY <1>1, <1>4, <1>5 DEF p

LEMMA EmptyQueue == <<>> \in Seq(Request) /\ IdsOf(<<>>) = {} /\ Distinct(<<>>)
  BY DEF IdsOf, Distinct

-----------------------------------------------------------------------------
(* Steps that leave the calls alone.                                       *)

\* Requests and responses move along the link, or are lost.
LEMMA LinkKeeps ==
  ASSUME CallsInv, write_buffer \/ DeviceAnswers \/ FrameLost PROVE CallsInv'
<1>1. /\ outbox \in Seq(Request) /\ toDevice \in Seq(Request) /\ fromDevice \in Seq(Request)
      /\ OnePlace
  BY DEF CallsInv, TypeOK
<1>2. /\ outbox' \in Seq(Request) /\ toDevice' \in Seq(Request) /\ fromDevice' \in Seq(Request)
      /\ Distinct(outbox') /\ Distinct(toDevice') /\ Distinct(fromDevice')
      /\ IdsOf(outbox') \cap (IdsOf(toDevice') \cup IdsOf(fromDevice')) = {}
      /\ IdsOf(toDevice') \cap IdsOf(fromDevice') = {}
      /\ InFlight' \subseteq InFlight
  <2>1. CASE write_buffer
    <3> DEFINE e == Head(outbox)
    <3>1. /\ e \in Request /\ e.id \in IdsOf(outbox) /\ outbox' = Tail(outbox)
          /\ outbox' \in Seq(Request) /\ Distinct(outbox')
          /\ IdsOf(outbox') \subseteq IdsOf(outbox) /\ e.id \notin IdsOf(outbox')
      BY <1>1, <2>1, TailIds DEF write_buffer, OnePlace
    <3>2. toDevice' \in {toDevice, Append(toDevice, e)} /\ fromDevice' = fromDevice
      BY <2>1 DEF write_buffer
    <3> HIDE DEF e
    <3>3. e.id \notin IdsOf(toDevice) /\ e.id \notin IdsOf(fromDevice)
      BY <1>1, <3>1 DEF OnePlace
    <3>4. /\ toDevice' \in Seq(Request) /\ Distinct(toDevice')
          /\ IdsOf(toDevice') \subseteq IdsOf(toDevice) \cup {e.id}
      BY <1>1, <3>1, <3>2, <3>3, AppendIds DEF OnePlace
    <3> QED
      BY <1>1, <3>1, <3>2, <3>3, <3>4 DEF OnePlace, InFlight
  <2>2. CASE DeviceAnswers
    <3> DEFINE e == Head(toDevice)
    <3>1. /\ e \in Request /\ e.id \in IdsOf(toDevice) /\ toDevice' = Tail(toDevice)
          /\ toDevice' \in Seq(Request) /\ Distinct(toDevice')
          /\ IdsOf(toDevice') \subseteq IdsOf(toDevice) /\ e.id \notin IdsOf(toDevice')
      BY <1>1, <2>2, TailIds DEF DeviceAnswers, OnePlace
    <3>2. fromDevice' = Append(fromDevice, e) /\ outbox' = outbox
      BY <2>2 DEF DeviceAnswers
    <3> HIDE DEF e
    <3>3. e.id \notin IdsOf(outbox) /\ e.id \notin IdsOf(fromDevice)
      BY <1>1, <3>1 DEF OnePlace
    <3>4. /\ fromDevice' \in Seq(Request) /\ Distinct(fromDevice')
          /\ IdsOf(fromDevice') = IdsOf(fromDevice) \cup {e.id}
      BY <1>1, <3>1, <3>2, <3>3, AppendIds DEF OnePlace
    <3> QED
      BY <1>1, <3>1, <3>2, <3>3, <3>4 DEF OnePlace, InFlight
  <2>3. CASE FrameLost
    <3>1. outbox' = outbox
      BY <2>3 DEF FrameLost
    <3>2. CASE toDevice # <<>> /\ toDevice' = Tail(toDevice) /\ fromDevice' = fromDevice
      <4>1. /\ toDevice' \in Seq(Request) /\ Distinct(toDevice')
            /\ IdsOf(toDevice') \subseteq IdsOf(toDevice)
        BY <1>1, <3>2, TailIds DEF OnePlace
      <4> QED
        BY <1>1, <3>1, <3>2, <4>1 DEF OnePlace, InFlight
    <3>3. CASE fromDevice # <<>> /\ fromDevice' = Tail(fromDevice) /\ toDevice' = toDevice
      <4>1. /\ fromDevice' \in Seq(Request) /\ Distinct(fromDevice')
            /\ IdsOf(fromDevice') \subseteq IdsOf(fromDevice)
        BY <1>1, <3>3, TailIds DEF OnePlace
      <4> QED
        BY <1>1, <3>1, <3>3, <4>1 DEF OnePlace, InFlight
    <3> QED
      BY <2>3, <3>2, <3>3 DEF FrameLost
  <2> QED
    BY <2>1, <2>2, <2>3
<1>3. UNCHANGED <<serverVars, get_response, response_buffer, callVars, clientVars, undefined>>
  BY DEF write_buffer, DeviceAnswers, FrameLost
<1> USE DEF serverVars, callVars, clientVars
<1>4. TypeOK'
  BY <1>2, <1>3 DEF CallsInv, TypeOK
<1>5. (ServersOfSession /\ ReturnedHaveOutcome /\ MismatchNeedsTimeout)'
  BY <1>3 DEF CallsInv, ServersOfSession, ReturnedHaveOutcome, MismatchNeedsTimeout,
              Alive, GaveUpBefore
<1>6. OnePlace'
  BY <1>1, <1>2, <1>3 DEF OnePlace, Unused, Answered, Alive
<1> QED
  BY <1>3, <1>4, <1>5, <1>6 DEF CallsInv

\* ServiceClient::handle() and the answer it waits for.
LEMMA ClientKeeps ==
  ASSUME CallsInv, handle \/ ExecutorTakesAnswer \/ HandleReady \/ WaitTimesOut \/ HandleTimeout
  PROVE  CallsInv'
<1>1. UNCHANGED <<serverVars, get_response, response_buffer, linkVars, callVars, undefined>>
  BY DEF handle, ExecutorTakesAnswer, HandleReady, WaitTimesOut, HandleTimeout
<1> USE DEF serverVars, linkVars, callVars
<1>2. /\ client' \in {"idle", "waiting", "expired", "ready"} /\ pending' \in BOOLEAN
      /\ pending' => client' \in {"waiting", "expired"}
  <2>1. /\ client \in {"idle", "waiting", "expired", "ready"} /\ pending \in BOOLEAN
        /\ pending => client \in {"waiting", "expired"}
    BY DEF CallsInv, TypeOK
  <2>2. CASE handle
    BY <2>2 DEF handle
  <2>3. CASE ExecutorTakesAnswer
    BY <2>1, <2>3 DEF ExecutorTakesAnswer
  <2>4. CASE HandleReady
    <3>1. client' = "idle" /\ pending' = pending /\ ~pending
      BY <2>1, <2>4 DEF HandleReady
    <3> QED
      BY <2>1, <3>1
  <2>5. CASE HandleTimeout
    BY <2>5 DEF HandleTimeout
  <2>6. CASE WaitTimesOut
    BY <2>1, <2>6 DEF WaitTimesOut
  <2> QED
    BY <2>2, <2>3, <2>4, <2>5, <2>6
<1>3. TypeOK'
  BY <1>1, <1>2 DEF CallsInv, TypeOK
<1>4. (ServersOfSession /\ ReturnedHaveOutcome /\ MismatchNeedsTimeout)'
  BY <1>1 DEF CallsInv, ServersOfSession, ReturnedHaveOutcome, MismatchNeedsTimeout,
              Alive, GaveUpBefore
<1>5. OnePlace'
  BY <1>1 DEF CallsInv, OnePlace, Unused, Answered, Alive, InFlight
<1> QED
  BY <1>2, <1>3, <1>4, <1>5 DEF CallsInv

-----------------------------------------------------------------------------
(* Sessions.                                                               *)

\* The ranges that the steps below look at.
LEMMA Ranges ==
  ASSUME CallsInv
  PROVE  /\ session \in 0 .. MaxSessions /\ calls \in 0 .. MaxCalls
         /\ server \in [Names -> 0 .. MaxSessions]
         /\ get_response \in [Names -> BOOLEAN]
         /\ response_buffer \in [Names -> 0 .. MaxCalls]
<1>1. TypeOK
  BY DEF CallsInv
<1> QED
  BY <1>1 DEF TypeOK

\* What an executor at work is.
LEMMA ExecutorType ==
  ASSUME CallsInv, executor # Free
  PROVE  /\ executor \in [name : Names, for : 1 .. MaxSessions, id : Ids,
                          at : {"poll", "copy", "race"}]
         /\ executor.name \in Names /\ executor.for \in 1 .. MaxSessions
         /\ executor.id \in Ids /\ executor.id = calls
         /\ executor.at \in {"poll", "copy", "race"}
<1>1. executor \in [name : Names, for : 1 .. MaxSessions, id : Ids,
                    at : {"poll", "copy", "race"}]
  BY DEF CallsInv, TypeOK
<1> QED
  BY <1>1 DEF CallsInv, ServersOfSession

\* A step of the session that leaves alive what is, and leaves what a live
\* call looks at as it is.
LEMMA SessionStepKeeps ==
  ASSUME CallsInv, TypeOK', ServersOfSession',
         UNCHANGED <<linkVars, callVars, clientVars, undefined>>,
         executor # Free /\ Alive(executor)' =>
           /\ Alive(executor)
           /\ get_response'[executor.name] = get_response[executor.name]
           /\ response_buffer'[executor.name] = response_buffer[executor.name]
  PROVE  CallsInv'
<1> USE DEF linkVars, callVars, clientVars
<1>1. (ReturnedHaveOutcome /\ MismatchNeedsTimeout)'
  BY DEF CallsInv, ReturnedHaveOutcome, MismatchNeedsTimeout, Alive, GaveUpBefore
<1>2. OnePlace'
  BY DEF CallsInv, OnePlace, Unused, Answered, Alive, InFlight
<1> QED
  BY <1>1, <1>2 DEF CallsInv

LEMMA StartKeeps == ASSUME CallsInv, Start PROVE CallsInv'
<1>1. session' = session + 1 /\ active' = TRUE /\ ~active /\ session < MaxSessions
  BY DEF Start
<1>2. UNCHANGED <<server, converter, get_response, response_buffer, linkVars,
                  callVars, clientVars, undefined>>
  BY DEF Start
<1> USE DEF linkVars, callVars, clientVars
<1>3. session \in 0 .. MaxSessions
  BY DEF CallsInv, TypeOK
<1>4. TypeOK'
  <2>1. session' \in 0 .. MaxSessions
    BY <1>1, <1>3
  <2> QED
    BY <1>1, <1>2, <2>1 DEF CallsInv, TypeOK
<1>5. ServersOfSession'
  <2>1. active' => session' > 0
    BY <1>1, <1>3
  <2>2. \A n \in Names : server'[n] = 0
    BY <1>1, <1>2 DEF CallsInv, ServersOfSession
  <2>3. ASSUME executor # Free
        PROVE  executor.for <= session' /\ executor.id = calls /\ executor.for # session'
    <3>1. executor.for \in 1 .. MaxSessions /\ executor.for <= session /\ executor.id = calls
      BY <2>3, ExecutorType DEF CallsInv, ServersOfSession
    <3> QED
      BY <1>1, <1>3, <3>1
  <2> QED
    BY <1>2, <2>1, <2>2, <2>3 DEF ServersOfSession
<1> QED
  BY <1>2, <1>4, <1>5, SessionStepKeeps DEF Alive

LEMMA StopKeeps == ASSUME CallsInv, Stop PROVE CallsInv'
<1>1. active' = FALSE /\ server' = [n \in Names |-> 0]
  BY DEF Stop
<1>2. UNCHANGED <<session, converter, get_response, response_buffer, linkVars,
                  callVars, clientVars, undefined>>
  BY DEF Stop
<1> USE DEF linkVars, callVars, clientVars
<1>3. TypeOK'
  <2>1. server' \in [Names -> 0 .. MaxSessions]
    BY <1>1
  <2>2. active' \in BOOLEAN
    BY <1>1
  <2> QED
    BY <1>2, <2>1, <2>2 DEF CallsInv, TypeOK
<1>4. ServersOfSession'
  <2>1. ~active' /\ \A n \in Names : server'[n] = 0
    BY <1>1
  <2>2. executor # Free => executor.for <= session' /\ executor.id = calls'
    BY <1>2 DEF CallsInv, ServersOfSession
  <2> QED
    BY <1>2, <2>1, <2>2 DEF ServersOfSession
<1>5. executor # Free => ~Alive(executor)'
  BY <1>1, <1>2, ExecutorType DEF Alive
<1> QED
  BY <1>2, <1>3, <1>4, <1>5, SessionStepKeeps

LEMMA SetupKeeps ==
  ASSUME CallsInv, NEW n \in Names, SetupServiceServer(n) PROVE CallsInv'
<1>1. /\ active /\ server[n] = 0
      /\ server' = [server EXCEPT ![n] = session]
      /\ converter' = [converter EXCEPT ![TypeOf[n]] = [offers |-> n, for |-> session]]
      /\ get_response' = [get_response EXCEPT ![n] = FALSE]
      /\ response_buffer' = [response_buffer EXCEPT ![n] = 0]
      /\ UNCHANGED <<session, active, linkVars, callVars, clientVars, undefined>>
  BY DEF SetupServiceServer
<1> USE DEF linkVars, callVars, clientVars
<1>2. /\ session \in 1 .. MaxSessions /\ server \in [Names -> 0 .. MaxSessions]
      /\ get_response \in [Names -> BOOLEAN] /\ response_buffer \in [Names -> 0 .. MaxCalls]
      /\ ServersOfSession
  <2>1. ServersOfSession /\ session > 0
    BY <1>1 DEF CallsInv, ServersOfSession
  <2> QED
    BY <2>1, Ranges
<1>3. TypeOK'
  <2>1. server' \in [Names -> 0 .. MaxSessions]
    BY <1>1, <1>2
  <2>2. converter' \in [Types -> {NoService} \cup [offers : Names, for : 1 .. MaxSessions]]
    BY <1>1, <1>2 DEF CallsInv, TypeOK
  <2>3. get_response' \in [Names -> BOOLEAN] /\ response_buffer' \in [Names -> 0 .. MaxCalls]
    BY <1>1, <1>2
  <2> QED
    BY <1>1, <2>1, <2>2, <2>3 DEF CallsInv, TypeOK
<1>4. ASSUME executor # Free PROVE Alive(executor)' <=> Alive(executor)
  <2>1. executor.name \in Names /\ executor.for \in 1 .. MaxSessions
    BY <1>4, ExecutorType
  <2>2. executor.for = session => Alive(executor)
    BY <1>1, <1>2, <1>4 DEF ServersOfSession
  <2> QED
    BY <1>1, <1>2, <2>1, <2>2 DEF Alive
<1>5. ServersOfSession'
  BY <1>1, <1>2, <1>4 DEF ServersOfSession
<1>6. ASSUME executor # Free, Alive(executor)
      PROVE  /\ get_response'[executor.name] = get_response[executor.name]
             /\ response_buffer'[executor.name] = response_buffer[executor.name]
  <2>1. executor.name \in Names /\ executor.name # n
    BY <1>1, <1>6, ExecutorType DEF Alive
  <2> QED
    BY <1>1, <1>2, <2>1
<1> QED
  BY <1>1, <1>3, <1>4, <1>5, <1>6, SessionStepKeeps

-----------------------------------------------------------------------------
(* Calls.                                                                  *)

\* A response that is still unused and is not the present call's is that of
\* an earlier call, which gave up or was itself given a wrong answer.
LEMMA LateResponse ==
  ASSUME CallsInv, ~undefined, executor # Free, NEW r, Unused(r), r # executor.id
  PROVE  r < executor.id /\ GaveUpBefore(executor.id)
<1>1. r \in Ids /\ r \in 1 .. calls /\ r < executor.id /\ executor.id \in Ids
  <2>1. r \in 1 .. calls /\ calls \in 0 .. MaxCalls
    BY Ranges DEF Unused
  <2>2. executor.id \in Ids /\ executor.id = calls
    BY ExecutorType
  <2> QED
    BY <2>1, <2>2 DEF Ids
<1>2. outcome[r] \notin {Open, r}
  BY <1>1 DEF CallsInv, ReturnedHaveOutcome, Unused
<1>3. CASE outcome[r] = TimedOut
  BY <1>1, <1>3 DEF GaveUpBefore, Ids
<1>4. CASE outcome[r] # TimedOut
  <2>1. GaveUpBefore(r)
    BY <1>1, <1>2, <1>4 DEF CallsInv, MismatchNeedsTimeout
  <2> QED
    BY <1>1, <2>1 DEF GaveUpBefore, Ids
<1> QED
  BY <1>1, <1>3, <1>4

\* A response that comes in: it is stored, or it is not and clears get_response_.
LEMMA ResponseHandleKeeps ==
  ASSUME CallsInv, NEW size \in {"fits", "empty", "large"}, response_handle(size)
  PROVE  CallsInv'
<1> DEFINE r == Head(fromDevice)
           n == r.name
<1>1. /\ active /\ fromDevice # <<>> /\ fromDevice' = Tail(fromDevice)
      /\ executor' \in {executor, Race(n)}
      /\ UNCHANGED <<serverVars, outbox, toDevice, calls, outcome, clientVars, undefined>>
  BY DEF response_handle
<1> USE DEF serverVars, clientVars
<1>2. CallsInv /\ TypeOK /\ OnePlace /\ ServersOfSession
  BY DEF CallsInv
<1>3. /\ r \in Request /\ n \in Names /\ r.id \in Ids
      /\ r.id \in IdsOf(fromDevice) /\ r.id \notin IdsOf(fromDevice')
      /\ fromDevice' \in Seq(Request) /\ Distinct(fromDevice')
      /\ IdsOf(fromDevice') \subseteq IdsOf(fromDevice)
  <2>1. fromDevice \in Seq(Request) /\ Distinct(fromDevice)
    BY <1>2 DEF TypeOK, OnePlace
  <2> QED
    BY <1>1, <2>1, TailIds DEF Request
<1>4. \/ server[n] = 0 /\ UNCHANGED <<get_response, response_buffer>>
      \/ /\ server[n] # 0
         /\ \/ /\ response_buffer' = [response_buffer EXCEPT ![n] = r.id]
               /\ get_response' = [get_response EXCEPT ![n] = TRUE]
            \/ /\ response_buffer' = [response_buffer EXCEPT ![n] = @]
               /\ get_response' = [get_response EXCEPT ![n] = FALSE]
  BY DEF response_handle
<1>5. /\ executor = Free => executor' = Free
      /\ executor # Free =>
           /\ executor' # Free
           /\ executor' \in [name : Names, for : 1 .. MaxSessions, id : Ids,
                             at : {"poll", "copy", "race"}]
           /\ executor'.name = executor.name /\ executor'.for = executor.for
           /\ executor'.id = executor.id
           /\ executor'.at = "poll" <=> executor.at = "poll"
           /\ executor'.at = "race" =>
                executor.at = "race" \/ (executor.at = "copy" /\ executor.name = n)
  <2>1. CASE executor = Free
    BY <1>1, <2>1 DEF Race, Free
  <2>2. CASE executor # Free
    <3>1. /\ executor \in [name : Names, for : 1 .. MaxSessions, id : Ids,
                            at : {"poll", "copy", "race"}]
          /\ executor.name # None
      BY <1>2, <2>2, ExecutorType
    <3>2. CASE executor' = executor
      BY <2>2, <3>1, <3>2
    <3>3. CASE executor' = Race(n)
      BY <2>2, <3>1, <3>3 DEF Race, Free
    <3> QED
      BY <1>1, <3>2, <3>3
  <2> QED
    BY <2>1, <2>2
<1> HIDE DEF r, n
<1>6. TypeOK'
  <2>1. /\ response_buffer' \in [Names -> 0 .. MaxCalls]
        /\ get_response' \in [Names -> BOOLEAN]
    <3>1. /\ response_buffer \in [Names -> 0 .. MaxCalls]
          /\ get_response \in [Names -> BOOLEAN]
      BY <1>2, Ranges
    <3>2. r.id \in 0 .. MaxCalls
      BY <1>3 DEF Ids
    <3> QED
      BY <1>3, <1>4, <3>1, <3>2
  <2>2. executor' \in {Free} \cup [name : Names, for : 1 .. MaxSessions, id : Ids,
                                   at : {"poll", "copy", "race"}]
    BY <1>5
  <2> QED
    BY <1>1, <1>2, <1>3, <2>1, <2>2 DEF TypeOK
<1>7. executor' # Free => (Alive(executor)' <=> Alive(executor))
  BY <1>1, <1>5 DEF Alive
<1>8. ServersOfSession'
  BY <1>1, <1>2, <1>5, <1>7 DEF ServersOfSession
<1>9. InFlight' \subseteq InFlight /\ r.id \in InFlight /\ r.id \notin InFlight'
  BY <1>1, <1>2, <1>3 DEF InFlight, OnePlace
<1>10. OnePlace'
  <2>1. ASSUME executor' # Free, Alive(executor)'
        PROVE  executor'.at # "poll" \/ get_response'[executor'.name] =>
                    /\ Unused(response_buffer'[executor'.name])
                    /\ response_buffer'[executor'.name] \notin InFlight'
    <3>1. /\ executor # Free /\ Alive(executor) /\ executor'.name = executor.name
          /\ executor.name \in Names
          /\ executor'.at = "poll" <=> executor.at = "poll"
      BY <1>2, <1>5, <1>7, <2>1, ExecutorType
    <3>2. /\ get_response \in [Names -> BOOLEAN]
          /\ response_buffer \in [Names -> 0 .. MaxCalls]
      BY <1>2 DEF TypeOK
    <3>3. CASE server[n] # 0 /\ executor.name = n
      <4>1. \/ response_buffer'[n] = r.id
            \/ response_buffer'[n] = response_buffer[n] /\ ~get_response'[n]
        BY <1>3, <1>4, <3>2, <3>3
      <4>2. Unused(r.id)
        BY <1>2, <1>9 DEF OnePlace
      <4> QED
        BY <1>2, <1>9, <3>1, <3>3, <4>1, <4>2 DEF OnePlace
    <3>4. CASE ~(server[n] # 0 /\ executor.name = n)
      <4>1. /\ response_buffer'[executor.name] = response_buffer[executor.name]
            /\ get_response'[executor.name] = get_response[executor.name]
        BY <1>3, <1>4, <3>1, <3>2, <3>4
      <4> QED
        BY <1>2, <1>9, <3>1, <4>1 DEF OnePlace
    <3> QED
      BY <3>3, <3>4
  <2>2. \A c : Unused(c)' <=> Unused(c)
    BY <1>1 DEF Unused
  <2> QED
    BY <1>1, <1>2, <1>3, <1>9, <2>1, <2>2 DEF OnePlace, Answered, Unused
<1>11. (ReturnedHaveOutcome /\ MismatchNeedsTimeout)'
  <2>1. MismatchNeedsTimeout'
    BY <1>1, <1>2 DEF CallsInv, MismatchNeedsTimeout, GaveUpBefore
  <2>2. ASSUME ~undefined, executor' # Free, Alive(executor)', executor'.at = "race"
        PROVE  GaveUpBefore(executor.id)'
    <3>1. executor # Free /\ Alive(executor) /\ executor'.id = executor.id
      BY <1>5, <1>7, <2>2
    <3>2. CASE executor.at = "race"
      BY <1>1, <1>2, <2>2, <3>1, <3>2 DEF CallsInv, ReturnedHaveOutcome, GaveUpBefore
    <3>3. CASE executor.at = "copy" /\ executor.name = n
      <4> DEFINE b == response_buffer[n]
      <4>1. Unused(b) /\ b \notin InFlight
        BY <1>2, <3>1, <3>3 DEF OnePlace
      <4>2. Unused(r.id) /\ b # r.id
        BY <1>2, <1>9, <4>1 DEF OnePlace
      <4>3. GaveUpBefore(executor.id)
        BY <1>2, <2>2, <3>1, <4>1, <4>2, LateResponse
      <4> QED
        BY <1>1, <3>1, <4>3 DEF GaveUpBefore
    <3> QED
      BY <1>5, <2>2, <3>1, <3>2, <3>3
  <2>3. ASSUME ~undefined, NEW c \in 1 .. calls
        PROVE  outcome[c] # Open \/ (executor' # Free /\ c = executor'.id)
    BY <1>2, <1>5, <2>3 DEF CallsInv, ReturnedHaveOutcome
  <2> QED
    BY <1>1, <2>1, <2>2, <2>3 DEF ReturnedHaveOutcome
<1> QED
  BY <1>1, <1>2, <1>6, <1>8, <1>10, <1>11 DEF CallsInv

LEMMA ServiceCallbackKeeps ==
  ASSUME CallsInv, NEW n \in Names, service_callback(n) PROVE CallsInv'
<1> DEFINE target == converter[TypeOf[n]].for
           c == calls + 1
           e == [name |-> n, for |-> target, id |-> c, at |-> "poll"]
           q == [name |-> n, id |-> c]
<1>1. /\ executor = Free /\ calls < MaxCalls /\ converter[TypeOf[n]].offers = n
      /\ calls' = c
      /\ UNCHANGED <<serverVars, response_buffer, toDevice, fromDevice, outcome, clientVars>>
  BY DEF service_callback
<1> USE DEF serverVars, clientVars
<1>2. CallsInv /\ TypeOK /\ OnePlace /\ ServersOfSession /\ ReturnedHaveOutcome
      /\ MismatchNeedsTimeout
  BY DEF CallsInv
<1>3. calls \in 0 .. MaxCalls /\ c \in Ids /\ c \in 1 .. MaxCalls /\ c > calls
  BY <1>1, <1>2, Ranges DEF Ids
<1>4. \A d \in Ids : outcome[d] \in Int /\ outcome[d] <= calls
  <2>1. \A d \in Ids : outcome[d] \in {Open, TimedOut, Torn} \cup Ids
    BY <1>2 DEF TypeOK
  <2>2. {Open, TimedOut, Torn} \cup Ids \subseteq Int
    BY DEF Open, TimedOut, Torn, Ids
  <2>3. \A d \in Ids : outcome[d] <= calls
    BY <1>2 DEF OnePlace
  <2> QED
    BY <2>1, <2>2, <2>3
<1>5. \A x : Unused(x) => Unused(x)'
  BY <1>1, <1>3 DEF Unused
<1>6. \A d \in Ids : outcome[d] <= c /\ (d > c => outcome[d] = Open)
  BY <1>2, <1>3, <1>4 DEF OnePlace, Ids
<1>7. MismatchNeedsTimeout \/ undefined'
  BY <1>2
<1>8. CASE server[n] # target
  <2>1. undefined' = TRUE /\ UNCHANGED <<executor, get_response, outbox>>
    BY <1>8 DEF service_callback
  <2>2. TypeOK'
    <3>1. calls' \in 0 .. MaxCalls
      BY <1>1, <1>3
    <3>2. undefined' \in BOOLEAN
      BY <2>1
    <3> QED
      BY <1>1, <1>2, <2>1, <3>1, <3>2 DEF TypeOK
  <2>3. ServersOfSession'
    BY <1>1, <1>2, <2>1 DEF ServersOfSession
  <2>4. OnePlace'
    BY <1>1, <1>2, <1>5, <1>6, <2>1 DEF OnePlace, InFlight, Answered
  <2>5. (ReturnedHaveOutcome /\ MismatchNeedsTimeout)'
    BY <2>1 DEF ReturnedHaveOutcome, MismatchNeedsTimeout
  <2> QED
    BY <1>1, <1>2, <2>2, <2>3, <2>4, <2>5 DEF CallsInv
<1>9. CASE server[n] = target
  <2>1. /\ executor' = e /\ get_response' = [get_response EXCEPT ![n] = FALSE]
        /\ outbox' = Append(outbox, q) /\ undefined' = undefined
    BY <1>1, <1>9 DEF service_callback
  <2>2. target \in 1 .. MaxSessions
    <3>1. converter[TypeOf[n]] \in {NoService} \cup [offers : Names, for : 1 .. MaxSessions]
      BY <1>2 DEF TypeOK
    <3> QED
      BY <1>1, <3>1 DEF NoService
  <2>3. active /\ target = session
    BY <1>2, <1>9, <2>2 DEF ServersOfSession
  <2> HIDE DEF target
  <2>4. q \in Request /\ q.id = c
    BY <1>3 DEF Request
  <2>5. /\ e \in [name : Names, for : 1 .. MaxSessions, id : Ids, at : {"poll", "copy", "race"}]
        /\ e.name = n /\ e.for = target /\ e.id = c /\ e.at = "poll" /\ e # Free
    BY <1>3, <2>2 DEF Free
  <2> HIDE DEF e, q
  <2>6. c \notin InFlight /\ \A d \in Ids : outcome[d] # c
    <3>1. \A x \in InFlight : x \in 1 .. calls
      BY <1>2 DEF OnePlace, Unused
    <3> QED
      BY <1>3, <1>4, <3>1
  <2>7. /\ outbox' \in Seq(Request) /\ IdsOf(outbox') = IdsOf(outbox) \cup {c}
        /\ Distinct(outbox')
    <3>1. outbox \in Seq(Request) /\ Distinct(outbox) /\ c \notin IdsOf(outbox)
      BY <1>2, <2>6 DEF TypeOK, OnePlace, InFlight
    <3> QED
      BY <2>1, <2>4, <3>1, AppendIds
  <2>8. TypeOK'
    <3>1. calls' \in 0 .. MaxCalls
      BY <1>1, <1>3
    <3>2. get_response' \in [Names -> BOOLEAN]
      BY <1>2, <2>1 DEF TypeOK
    <3>3. executor' \in {Free} \cup [name : Names, for : 1 .. MaxSessions, id : Ids,
                                     at : {"poll", "copy", "race"}]
      BY <2>1, <2>5
    <3> QED
      BY <1>1, <1>2, <2>1, <2>7, <3>1, <3>2, <3>3 DEF TypeOK
  <2>9. executor'.name = n /\ executor'.for = session /\ executor'.id = c
        /\ executor'.at = "poll" /\ server'[executor'.name] = session
    BY <1>1, <1>9, <2>1, <2>3, <2>5
  <2>10. ServersOfSession'
    <3>1. session \in 0 .. MaxSessions
      BY <1>2 DEF TypeOK
    <3>2. executor'.for <= session' /\ executor'.id = calls' /\ Alive(executor)'
      BY <1>1, <2>9, <3>1 DEF Alive
    <3> QED
      BY <1>1, <1>2, <3>2 DEF ServersOfSession
  <2>11. OnePlace'
    <3> DEFINE Live == executor' # Free /\ Alive(executor)'
    <3>1. ~get_response'[executor'.name]
      BY <1>2, <2>1, <2>9 DEF TypeOK
    <3>2. \A x \in InFlight' : Unused(x)'
      <4>1. \A x : x = c => Unused(x)'
        BY <1>1, <1>3, <2>6 DEF Unused
      <4>2. InFlight' = InFlight \cup {c}
        BY <1>1, <2>7 DEF InFlight
      <4> QED
        BY <1>2, <1>5, <4>1, <4>2 DEF OnePlace
    <3>3. c \notin IdsOf(toDevice) /\ c \notin IdsOf(fromDevice)
      BY <2>6 DEF InFlight
    <3> QED
      BY <1>1, <1>2, <1>6, <2>7, <2>9, <3>1, <3>2, <3>3 DEF OnePlace, Answered
  <2>12. (ReturnedHaveOutcome /\ MismatchNeedsTimeout)'
    <3>1. MismatchNeedsTimeout'
      BY <1>1, <1>2, <2>1 DEF MismatchNeedsTimeout, GaveUpBefore
    <3>2. ASSUME ~undefined, NEW d \in 1 .. c PROVE outcome[d] # Open \/ d = c
      <4>1. d \in 1 .. calls \/ d = c
        BY <1>3
      <4> QED
        BY <1>1, <1>2, <3>2, <4>1 DEF ReturnedHaveOutcome
    <3> QED
      BY <1>1, <2>1, <2>5, <2>9, <3>1, <3>2 DEF ReturnedHaveOutcome
  <2> QED
    BY <1>1, <1>2, <2>8, <2>10, <2>11, <2>12 DEF CallsInv
<1> QED
  BY <1>8, <1>9

LEMMA GotResponseKeeps == ASSUME CallsInv, GotResponse PROVE CallsInv'
<1>1. /\ executor # Free /\ Alive(executor) /\ get_response[executor.name]
      /\ executor' = [executor EXCEPT !.at = "copy"]
      /\ UNCHANGED <<serverVars, get_response, response_buffer, linkVars, calls,
                     outcome, clientVars, undefined>>
  BY DEF GotResponse, Polling
<1> USE DEF serverVars, linkVars, clientVars
<1>2. CallsInv /\ TypeOK /\ OnePlace /\ ServersOfSession /\ ReturnedHaveOutcome
      /\ MismatchNeedsTimeout
  BY DEF CallsInv
<1>3. /\ executor' \in [name : Names, for : 1 .. MaxSessions, id : Ids,
                        at : {"poll", "copy", "race"}]
      /\ executor'.name = executor.name /\ executor'.for = executor.for
      /\ executor'.id = executor.id /\ executor'.at = "copy"
      /\ executor' # Free
  BY <1>1, ExecutorType DEF Free
<1>4. TypeOK'
  BY <1>1, <1>2, <1>3 DEF TypeOK
<1>5. Alive(executor)'
  BY <1>1, <1>3 DEF Alive
<1>6. ServersOfSession'
  BY <1>1, <1>2, <1>3, <1>5 DEF ServersOfSession
<1>7. OnePlace'
  BY <1>1, <1>2, <1>3 DEF OnePlace, InFlight, Unused, Answered
<1>8. (ReturnedHaveOutcome /\ MismatchNeedsTimeout)'
  BY <1>1, <1>2, <1>3 DEF ReturnedHaveOutcome, MismatchNeedsTimeout, GaveUpBefore
<1> QED
  BY <1>1, <1>2, <1>4, <1>6, <1>7, <1>8 DEF CallsInv

\* The present call is given the outcome v, with whatever v asks for.
LEMMA OutcomeKeeps ==
  ASSUME CallsInv, executor # Free, NEW v \in {TimedOut, Torn} \cup Ids,
         outcome' = [outcome EXCEPT ![executor.id] = v], executor' = Free,
         UNCHANGED <<serverVars, get_response, response_buffer, linkVars, calls,
                     clientVars, undefined>>,
         v \in Ids => Unused(v) /\ v \notin InFlight,
         ~undefined /\ v \notin {TimedOut, executor.id} =>
           v < executor.id /\ GaveUpBefore(executor.id)
  PROVE  CallsInv'
<1> DEFINE k == executor.id
<1> USE DEF serverVars, linkVars, clientVars
<1>1. CallsInv /\ TypeOK /\ OnePlace /\ ServersOfSession /\ ReturnedHaveOutcome
      /\ MismatchNeedsTimeout
  BY DEF CallsInv
<1>2. k \in Ids /\ k = calls /\ calls \in Nat
  BY ExecutorType DEF Ids
<1>3. outcome \in [Ids -> {Open, TimedOut, Torn} \cup Ids]
  BY <1>1 DEF TypeOK
<1>4. outcome'[k] = v /\ \A c \in Ids : c # k => outcome'[c] = outcome[c]
  BY <1>2, <1>3
<1>5. TypeOK'
  <2>1. outcome' \in [Ids -> {Open, TimedOut, Torn} \cup Ids]
    BY <1>2, <1>3
  <2> QED
    BY <1>1, <2>1 DEF TypeOK
<1>6. ServersOfSession'
  BY <1>1 DEF ServersOfSession
<1>7. v \in Int /\ v <= calls /\ v # Open
  <2>1. v \in Ids => v \in 1 .. calls
    BY DEF Unused
  <2> QED
    BY <1>2, <2>1 DEF TimedOut, Torn, Open
<1>8. OnePlace'
  <2>1. \A c \in InFlight' : Unused(c)'
    <3> SUFFICES ASSUME NEW c \in InFlight PROVE Unused(c)'
      BY DEF InFlight
    <3>1. Unused(c) /\ c # v
      <4>1. Unused(c)
        BY <1>1 DEF OnePlace
      <4>2. c \in Ids
        BY <1>2, <4>1 DEF Unused, Ids
      <4> QED
        BY <4>1, <4>2 DEF TimedOut, Torn, Ids
    <3> QED
      BY <1>4, <3>1 DEF Unused
  <2>2. \A c, d \in Ids : Answered(c)' /\ Answered(d)' /\ c # d => outcome'[c] # outcome'[d]
    <3>1. ASSUME NEW c \in Ids, v \in Ids PROVE outcome[c] # v
      BY <3>1 DEF Unused
    <3> QED
      BY <1>1, <1>4, <3>1 DEF OnePlace, Answered
  <2>3. \A c \in Ids : outcome'[c] <= calls /\ (c > calls => outcome'[c] = Open)
    <3>1. \A c \in Ids : c > calls => c # k
      BY <1>2 DEF Ids
    <3>2. \A c \in Ids : outcome[c] <= calls /\ (c > calls => outcome[c] = Open)
      BY <1>1 DEF OnePlace
    <3> QED
      BY <1>4, <1>7, <3>1, <3>2
  <2> QED
    BY <1>1, <2>1, <2>2, <2>3 DEF OnePlace
<1>9. ReturnedHaveOutcome'
  <2>1. \A c \in 1 .. calls : c \in Ids
    BY <1>2 DEF Ids
  <2> QED
    BY <1>1, <1>4, <1>7, <2>1 DEF ReturnedHaveOutcome
<1>10. MismatchNeedsTimeout'
  <2> SUFFICES ASSUME ~undefined, NEW c \in Ids, outcome'[c] \notin {Open, TimedOut, c}
               PROVE  outcome'[c] < c /\ GaveUpBefore(c)'
    BY DEF MismatchNeedsTimeout
  <2>1. \/ outcome[c] < c /\ GaveUpBefore(c) /\ c # k /\ c <= k
        \/ c = k /\ v < k /\ GaveUpBefore(k)
    <3>1. CASE c = k
      BY <1>4, <3>1
    <3>2. CASE c # k
      <4>1. outcome[c] < c /\ GaveUpBefore(c)
        BY <1>1, <1>4, <3>2 DEF MismatchNeedsTimeout
      <4>2. outcome[c] # Open /\ (c > calls => outcome[c] = Open)
        BY <1>1, <1>4, <3>2 DEF OnePlace
      <4>3. c <= k
        BY <1>2, <4>2 DEF Ids
      <4> QED
        BY <3>2, <4>1, <4>3
    <3> QED
      BY <3>1, <3>2
  <2>2. outcome'[c] < c /\ GaveUpBefore(c) /\ c <= k
    BY <1>2, <1>4, <2>1 DEF Ids
  <2>3. PICK d \in 1 .. c - 1 : outcome[d] = TimedOut
    BY <2>2 DEF GaveUpBefore
  <2>4. d \in Ids /\ d # k
    BY <1>2, <2>2 DEF Ids
  <2>5. outcome'[d] = TimedOut
    BY <1>4, <2>3, <2>4
  <2> QED
    BY <2>2, <2>5 DEF GaveUpBefore
<1> QED
  BY <1>1, <1>5, <1>6, <1>8, <1>9, <1>10 DEF CallsInv

LEMMA NoResponseKeeps == ASSUME CallsInv, NoResponse PROVE CallsInv'
<1>1. TimedOut \notin Ids
  BY DEF TimedOut, Ids
<1> QED
  BY <1>1, OutcomeKeeps DEF NoResponse, Polling

LEMMA CopyResponseKeeps == ASSUME CallsInv, CopyResponse PROVE CallsInv'
<1>1. /\ executor # Free /\ Alive(executor) /\ executor.at # "poll" /\ executor' = Free
      /\ UNCHANGED <<serverVars, get_response, response_buffer, linkVars, calls,
                     clientVars, undefined>>
  BY DEF CopyResponse
<1>2. PICK v \in {response_buffer[executor.name]} \cup
                 (IF executor.at = "race" THEN {Torn} ELSE {}) :
        outcome' = [outcome EXCEPT ![executor.id] = v]
  BY DEF CopyResponse
<1> DEFINE b == response_buffer[executor.name]
<1>3. Unused(b) /\ b \notin InFlight
  BY <1>1 DEF CallsInv, OnePlace
<1>4. b \in Ids
  <2>1. b \in 1 .. calls /\ calls \in 0 .. MaxCalls
    BY <1>3, Ranges DEF Unused
  <2> QED
    BY <2>1 DEF Ids
<1>5. executor.id \in Ids
  BY <1>1, ExecutorType
<1>6. Torn \notin Ids /\ \A k \in Ids : Torn < k
  BY DEF Torn, Ids
<1>7. CASE v = b
  <2>1. ~undefined /\ v # executor.id => v < executor.id /\ GaveUpBefore(executor.id)
    BY <1>1, <1>3, <1>7, LateResponse
  <2> QED
    BY <1>1, <1>2, <1>3, <1>4, <1>7, <2>1, OutcomeKeeps
<1>8. CASE v = Torn /\ executor.at = "race"
  <2>1. ~undefined => v < executor.id /\ GaveUpBefore(executor.id)
    BY <1>1, <1>5, <1>6, <1>8 DEF CallsInv, ReturnedHaveOutcome
  <2> QED
    BY <1>1, <1>2, <1>6, <1>8, <2>1, OutcomeKeeps
<1> QED
  BY <1>2, <1>7, <1>8

LEMMA PollsDestroyedKeeps == ASSUME CallsInv, PollsDestroyed PROVE CallsInv'
<1>1. /\ undefined' = TRUE /\ executor' = Free
      /\ UNCHANGED <<serverVars, get_response, response_buffer, linkVars, calls,
                     outcome, clientVars>>
  BY DEF PollsDestroyed
<1> USE DEF serverVars, linkVars, clientVars
<1>2. undefined' \in BOOLEAN
  BY <1>1
<1>3. TypeOK'
  BY <1>1, <1>2 DEF CallsInv, TypeOK
<1>4. ServersOfSession'
  BY <1>1 DEF CallsInv, ServersOfSession
<1>5. OnePlace'
  BY <1>1 DEF CallsInv, OnePlace, InFlight, Unused, Answered
<1>6. (ReturnedHaveOutcome /\ MismatchNeedsTimeout)'
  BY <1>1 DEF ReturnedHaveOutcome, MismatchNeedsTimeout
<1> QED
  BY <1>1, <1>3, <1>4, <1>5, <1>6 DEF CallsInv

-----------------------------------------------------------------------------
(* The invariant and what follows from it.                                 *)

LEMMA InitCallsInv == Init => CallsInv
<1> SUFFICES ASSUME Init PROVE CallsInv
  OBVIOUS
<1> USE DEF Init
<1>1. TypeOK
  <2>1. /\ session \in 0 .. MaxSessions /\ server \in [Names -> 0 .. MaxSessions]
        /\ response_buffer \in [Names -> 0 .. MaxCalls] /\ calls \in 0 .. MaxCalls
    OBVIOUS
  <2>2. converter \in [Types -> {NoService} \cup [offers : Names, for : 1 .. MaxSessions]]
    OBVIOUS
  <2>3. outcome \in [Ids -> {Open, TimedOut, Torn} \cup Ids]
    BY DEF Ids
  <2>4. active \in BOOLEAN /\ pending \in BOOLEAN /\ undefined \in BOOLEAN
    OBVIOUS
  <2>5. get_response \in [Names -> BOOLEAN]
    OBVIOUS
  <2> QED
    BY <2>1, <2>2, <2>3, <2>4, <2>5, EmptyQueue DEF TypeOK
<1>2. ServersOfSession
  BY DEF ServersOfSession
<1>3. OnePlace
  <2>1. \A c \in Ids : outcome[c] = 0 /\ outcome[c] \notin Ids
    BY DEF Open, Ids
  <2>2. InFlight = {}
    BY EmptyQueue DEF InFlight
  <2> QED
    BY <2>1, <2>2, EmptyQueue DEF OnePlace, Answered, Open
<1>4. ReturnedHaveOutcome /\ MismatchNeedsTimeout
  BY DEF ReturnedHaveOutcome, MismatchNeedsTimeout, Ids
<1>5. ~pending
  OBVIOUS
<1> QED
  BY <1>1, <1>2, <1>3, <1>4, <1>5 DEF CallsInv

LEMMA NextKeepsCallsInv == CallsInv /\ [Next]_vars => CallsInv'
<1> SUFFICES ASSUME CallsInv, [Next]_vars PROVE CallsInv'
  OBVIOUS
<1>1. CASE Io
  BY <1>1, StartKeeps, StopKeeps, LinkKeeps, ResponseHandleKeeps, ClientKeeps, SetupKeeps
     DEF Io
<1>2. CASE Executor
  BY <1>2, ServiceCallbackKeeps, GotResponseKeeps, CopyResponseKeeps, NoResponseKeeps,
     PollsDestroyedKeeps, ClientKeeps DEF Executor
<1>3. CASE DeviceAnswers \/ FrameLost \/ HandleReady \/ WaitTimesOut \/ HandleTimeout
  BY <1>3, LinkKeeps, ClientKeeps
<1>4. CASE UNCHANGED vars
  BY <1>4 DEF vars, serverVars, linkVars, callVars, clientVars, CallsInv, TypeOK,
     ServersOfSession, OnePlace, ReturnedHaveOutcome, MismatchNeedsTimeout, InFlight,
     Unused, Answered, Alive, GaveUpBefore
<1> QED
  BY <1>1, <1>2, <1>3, <1>4 DEF Next, Ended

(* Whatever the two threads, the device and the link do, a request and its  *)
(* response are in one place, and every call that has returned without      *)
(* touching a destroyed ServiceServer has its outcome.                      *)
THEOREM CallsInvariant == Spec => []CallsInv
  BY InitCallsInv, NextKeepsCallsInv, PTL DEF Spec

(* service_callback() never gives a response of the device to two callers.  *)
THEOREM NoAnswerGivenTwice == Spec => []NoAnswerTwice
<1>1. CallsInv => NoAnswerTwice
  BY DEF CallsInv, OnePlace, NoAnswerTwice
<1> QED
  BY <1>1, CallsInvariant, PTL

(* service_callback() gives a caller another call's response, or pieces of  *)
(* two, only after an earlier call gave up waiting.                         *)
THEOREM MismatchOnlyAfterTimeout == Spec => []MismatchNeedsTimeout
<1>1. CallsInv => MismatchNeedsTimeout
  BY DEF CallsInv
<1> QED
  BY <1>1, CallsInvariant, PTL

(* ServiceClient::handle() returns with no request of its own left in the   *)
(* table of pending requests.                                               *)
THEOREM NothingLeftPending == Spec => []NothingPending
<1>1. CallsInv => NothingPending
  BY DEF CallsInv, NothingPending, IoFree
<1> QED
  BY <1>1, CallsInvariant, PTL
=============================================================================

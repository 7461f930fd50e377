--------------------------- MODULE SessionProofs ---------------------------
(***************************************************************************)
(* SessionInv is an invariant of Session for every set of topics, every    *)
(* threshold and any number of units and queued handlers.                  *)
(*                                                                         *)
(* A handler breaks the invariant while it runs: it has left the queue,    *)
(* and what it was there for is not yet done.  So there is a lemma for     *)
(* each method, which says what the method needs of the objects and what   *)
(* it establishes, and one for each handler, which puts these together.    *)
(***************************************************************************)
EXTENDS Session, TLAPS, SequenceTheorems

USE RetryThresholdAssumption, MaxUnitsAssumption, MaxReadyAssumption

Entry == [h : Handlers, units : 0 .. MaxUnits]

\* What holds of the objects in the middle of a handler.
Sound(s) == s \in State /\ Quiet(s) /\ OneRead(s) /\ TransfersBringUnits(s)

\* What no method does but check_connection() itself.
KeepsSchedule(s, t) ==
  /\ t.link = s.link /\ t.timer = s.timer
  /\ t.running => s.running
  /\ Queued(s, "check_connection") => Queued(t, "check_connection")

-----------------------------------------------------------------------------
(* The queue.                                                              *)

LEMMA HandlerIsEntry == ASSUME NEW h \in Handlers PROVE Handler(h) \in Entry
  BY DEF Handler, Entry

\* Everything a state keeps when a handler is posted.
SameButReady(s, t) ==
  /\ t.link = s.link /\ t.active = s.active /\ t.open = s.open
  /\ t.callbacks = s.callbacks /\ t.subscribers = s.subscribers
  /\ t.unrecognised = s.unrecognised /\ t.sync_timer = s.sync_timer
  /\ t.timer = s.timer /\ t.requested = s.requested /\ t.success = s.success
  /\ t.count = s.count /\ t.abandoned = s.abandoned /\ t.buffered = s.buffered
  /\ t.reading = s.reading /\ t.writing = s.writing /\ t.running = s.running

LEMMA PostEffect ==
  ASSUME NEW s \in State, NEW e \in Entry
  PROVE  /\ post(s, e) \in State
         /\ SameButReady(s, post(s, e))
         /\ \A h : Queued(post(s, e), h) <=> Queued(s, h) \/ e.h = h
         /\ Pending(post(s, e)) <=> Pending(s) \/ e.h \in Completions
         /\ OneCompletion(s) /\ (e.h \in Completions => ~Pending(s))
              => OneCompletion(post(s, e))
         /\ TransfersBringUnits(s) /\ (e.h = "callback" => e.units > 0)
              => TransfersBringUnits(post(s, e))
<1> DEFINE q == s.ready
           n == Len(q) + 1
           t == post(s, e)
<1>1. q \in Seq(Entry)
  BY DEF State, Entry
<1>2. Append(q, e) \in Seq(Entry)
  BY <1>1, AppendProperties
<1>3. t \in State
  BY <1>2 DEF State, Entry, post
<1>4. t.ready = Append(q, e)
  BY <1>2 DEF State, post
<1>5. SameButReady(s, t)
  BY <1>2 DEF State, post, SameButReady
<1>6. /\ DOMAIN q = 1 .. Len(q) /\ Len(q) \in Nat
      /\ DOMAIN t.ready = 1 .. n
      /\ t.ready[n] = e
      /\ \A i \in DOMAIN q : t.ready[i] = q[i] /\ i # n
  BY <1>1, <1>4, AppendProperties
<1> HIDE DEF t
<1>7. \A i \in DOMAIN t.ready : i \in DOMAIN q \/ i = n
  BY <1>6
<1>8. n \in DOMAIN t.ready /\ DOMAIN q \subseteq DOMAIN t.ready
  BY <1>6
<1> HIDE DEF q, n
<1>9. \A h : Queued(t, h) <=> Queued(s, h) \/ e.h = h
  BY <1>6, <1>7, <1>8 DEF Queued, q
<1>10. Pending(t) <=> Pending(s) \/ e.h \in Completions
  BY <1>6, <1>7, <1>8 DEF Pending, Completes, q
<1>11. OneCompletion(s) /\ (e.h \in Completions => ~Pending(s)) => OneCompletion(t)
  BY <1>6, <1>7, <1>8 DEF OneCompletion, Pending, Completes, q
<1>12. TransfersBringUnits(s) /\ (e.h = "callback" => e.units > 0)
         => TransfersBringUnits(t)
  BY <1>6, <1>7 DEF TransfersBringUnits, q
<1> QED
  BY <1>3, <1>5, <1>9, <1>10, <1>11, <1>12 DEF t

\* The objects when the first handler of the queue has been taken from it.
Rest(s) == [s EXCEPT !.ready = Tail(@)]

LEMMA TakeEffect ==
  ASSUME NEW s \in State, s.ready # <<>>
  PROVE  /\ Rest(s) \in State
         /\ SameButReady(s, Rest(s))
         /\ Head(s.ready) \in Entry
         /\ \A h : /\ Queued(Rest(s), h) => Queued(s, h)
                   /\ Queued(s, h) => Queued(Rest(s), h) \/ Head(s.ready).h = h
         /\ Queued(s, Head(s.ready).h)
         /\ Pending(Rest(s)) => Pending(s)
         /\ Pending(s) => Pending(Rest(s)) \/ Head(s.ready).h \in Completions
         /\ Head(s.ready).h \in Completions => Pending(s)
         /\ OneCompletion(s) =>
              /\ OneCompletion(Rest(s))
              /\ Head(s.ready).h \in Completions => ~Pending(Rest(s))
         /\ TransfersBringUnits(s) =>
              /\ TransfersBringUnits(Rest(s))
              /\ Head(s.ready).h = "callback" => Head(s.ready).units > 0
<1> DEFINE q == s.ready
           t == Rest(s)
           e == Head(q)
<1>1. q \in Seq(Entry) /\ q # <<>>
  BY DEF State, Entry
<1>2. e \in Entry /\ Tail(q) \in Seq(Entry)
  BY <1>1, HeadTailProperties
<1>3. t \in State
  BY <1>2 DEF State, Entry, Rest
<1>4. t.ready = Tail(q)
  BY <1>2 DEF State, Rest
<1>5. SameButReady(s, t)
  BY <1>2 DEF State, Rest, SameButReady
<1>6. /\ DOMAIN q = 1 .. Len(q) /\ Len(q) \in Nat \ {0}
      /\ DOMAIN t.ready = 1 .. Len(q) - 1
      /\ q[1] = e
      /\ \A i \in DOMAIN t.ready : t.ready[i] = q[i + 1]
  BY <1>1, <1>4, HeadTailProperties
<1> HIDE DEF t, e
<1>7. \A i \in DOMAIN t.ready : i + 1 \in DOMAIN q /\ i + 1 # 1
  BY <1>6
<1>8. \A i \in DOMAIN q : i = 1 \/ \E j \in DOMAIN t.ready : i = j + 1
  <2> SUFFICES ASSUME NEW i \in DOMAIN q, i # 1 PROVE i - 1 \in DOMAIN t.ready /\ i = (i - 1) + 1
    OBVIOUS
  <2> QED
    BY <1>6
<1>9. 1 \in DOMAIN q /\ \A i, j \in DOMAIN t.ready : i + 1 = j + 1 => i = j
  BY <1>6
<1> HIDE DEF q
<1>10. ASSUME NEW h
       PROVE  /\ Queued(t, h) => Queued(s, h)
              /\ Queued(s, h) => Queued(t, h) \/ e.h = h
  BY <1>6, <1>7, <1>8 DEF Queued, q
<1>11. Queued(s, e.h)
  BY <1>6, <1>9 DEF Queued, q
<1>12. /\ Pending(t) => Pending(s)
       /\ Pending(s) => Pending(t) \/ e.h \in Completions
       /\ e.h \in Completions => Pending(s)
  <2>1. Pending(t) => Pending(s)
    BY <1>6, <1>7 DEF Pending, Completes, q
  <2>2. Pending(s) => Pending(t) \/ e.h \in Completions
    <3> SUFFICES ASSUME NEW i \in DOMAIN q, q[i].h \in Completions, i # 1
                 PROVE  Pending(t)
      BY <1>6 DEF Pending, Completes, q
    <3> QED
      BY <1>6, <1>8 DEF Pending, Completes
  <2>3. e.h \in Completions => Pending(s)
    BY <1>6, <1>9 DEF Pending, Completes, q
  <2> QED
    BY <2>1, <2>2, <2>3
<1>13. OneCompletion(s) => OneCompletion(t) /\ (e.h \in Completions => ~Pending(t))
  BY <1>6, <1>7, <1>9 DEF OneCompletion, Pending, Completes, q
<1>14. TransfersBringUnits(s) => TransfersBringUnits(t) /\ (e.h = "callback" => e.units > 0)
  BY <1>6, <1>7, <1>9 DEF TransfersBringUnits, q
<1> QED
  BY <1>2, <1>3, <1>5, <1>10, <1>11, <1>12, <1>13, <1>14 DEF t, e, q

LEMMA SameQueue ==
  ASSUME NEW s, NEW t, t.ready = s.ready
  PROVE  /\ \A h : Queued(t, h) <=> Queued(s, h)
         /\ Pending(t) <=> Pending(s)
         /\ OneCompletion(t) <=> OneCompletion(s)
         /\ TransfersBringUnits(t) <=> TransfersBringUnits(s)
  BY DEF Queued, Pending, OneCompletion, TransfersBringUnits, Completes

-----------------------------------------------------------------------------
(* The methods.                                                            *)

\* A write starts, or fails at once and posts its completion.
Writes(s, t) ==
  /\ t \in State
  /\ SameButReady(s, [t EXCEPT !.writing = s.writing])
  /\ \A h : Queued(s, h) => Queued(t, h)
  /\ \A h : Queued(t, h) => Queued(s, h) \/ h = "write_completion_cb"
  /\ Pending(t) <=> Pending(s)
  /\ OneCompletion(s) => OneCompletion(t)
  /\ TransfersBringUnits(s) => TransfersBringUnits(t)

LEMMA WriteEffect == ASSUME NEW s \in State PROVE Writes(s, write_buffer(s))
<1> DEFINE t == write_buffer(s)
<1>1. CASE s.open
  <2>1. t = [s EXCEPT !.writing = TRUE]
    BY <1>1 DEF write_buffer, async_write_some
  <2>2. t \in State /\ t.ready = s.ready
    BY <2>1 DEF State
  <2>3. SameButReady(s, [t EXCEPT !.writing = s.writing])
    BY <2>1 DEF State, SameButReady
  <2> QED
    BY <2>2, <2>3, SameQueue DEF Writes
<1>2. CASE ~s.open
  <2> DEFINE e == Handler("write_completion_cb")
  <2>1. t = post(s, e)
    BY <1>2 DEF write_buffer, async_write_some
  <2>2. e \in Entry /\ e.h = "write_completion_cb"
    BY HandlerIsEntry DEF Handlers, Handler
  <2>3. e.h \notin Completions /\ e.h # "callback"
    BY <2>2 DEF Completions
  <2> HIDE DEF e
  <2>4. t \in State /\ SameButReady(s, t)
    BY <2>1, <2>2, PostEffect
  <2>5. SameButReady(s, [t EXCEPT !.writing = s.writing])
    BY <2>4 DEF State, SameButReady
  <2> QED
    BY <2>1, <2>2, <2>3, <2>4, <2>5, PostEffect DEF Writes
<1> QED
  BY <1>1, <1>2

LEMMA CloseEffect ==
  ASSUME NEW s \in State
  PROVE  /\ close(s) \in State
         /\ SameButReady([s EXCEPT !.open = FALSE, !.reading = FALSE, !.writing = FALSE],
                         close(s))
         /\ \A h : Queued(s, h) => Queued(close(s), h)
         /\ Pending(close(s)) <=> Pending(s) \/ s.reading
         /\ OneCompletion(s) /\ ~(s.reading /\ Pending(s)) => OneCompletion(close(s))
         /\ TransfersBringUnits(s) => TransfersBringUnits(close(s))
<1> DEFINE a == Handler("callback_aborted")
           c == Handler("write_completion_cb")
           r == IF s.reading THEN post(s, a) ELSE s
           w == IF s.writing THEN post(r, c) ELSE r
           t == [w EXCEPT !.open = FALSE, !.reading = FALSE, !.writing = FALSE]
<1>1. close(s) = t
  BY DEF close
<1>2. /\ a \in Entry /\ a.h \in Completions /\ a.h # "callback"
      /\ c \in Entry /\ c.h \notin Completions /\ c.h # "callback"
  BY HandlerIsEntry DEF Handlers, Handler, Completions
<1> HIDE DEF a, c
<1>3. /\ r \in State /\ SameButReady(s, r)
      /\ \A h : Queued(s, h) => Queued(r, h)
      /\ Pending(r) <=> Pending(s) \/ s.reading
      /\ OneCompletion(s) /\ ~(s.reading /\ Pending(s)) => OneCompletion(r)
      /\ TransfersBringUnits(s) => TransfersBringUnits(r)
  BY <1>2, PostEffect DEF SameButReady
<1> HIDE DEF r
<1>4. /\ w \in State /\ SameButReady(s, w)
      /\ \A h : Queued(r, h) => Queued(w, h)
      /\ Pending(w) <=> Pending(r)
      /\ OneCompletion(r) => OneCompletion(w)
      /\ TransfersBringUnits(r) => TransfersBringUnits(w)
  <2>1. CASE s.writing
    <3>1. w = post(r, c)
      BY <2>1
    <3>2. SameButReady(r, w)
      BY <1>2, <1>3, <3>1, PostEffect
    <3> HIDE DEF w
    <3>3. SameButReady(s, w)
      BY <1>3, <3>2 DEF SameButReady
    <3> QED
      BY <1>2, <1>3, <3>1, <3>3, PostEffect
  <2>2. CASE ~s.writing
    BY <1>3, <2>2
  <2> QED
    BY <2>1, <2>2
<1> HIDE DEF w
<1>5. t \in State /\ t.ready = w.ready
  BY <1>4 DEF State
<1>6. SameButReady([s EXCEPT !.open = FALSE, !.reading = FALSE, !.writing = FALSE], t)
  BY <1>4 DEF State, SameButReady
<1> HIDE DEF t
<1> QED
  BY <1>1, <1>3, <1>4, <1>5, <1>6, SameQueue

\* stop() needs a sound state and leaves no session behind.
LEMMA StopEffect ==
  ASSUME NEW s, Sound(s)
  PROVE  /\ Sound(stop(s)) /\ ~stop(s).active
         /\ KeepsSchedule(s, stop(s))
<1>1. CASE ~s.active
  <2>1. stop(s) = s
    BY <1>1 DEF stop
  <2> QED
    BY <1>1, <2>1 DEF KeepsSchedule
<1>2. CASE s.active
  <2> DEFINE q == [s EXCEPT !.active = FALSE, !.sync_timer = FALSE,
                            !.callbacks = {}, !.subscribers = FALSE]
             w == write_buffer(q)
             t == close(w)
  <2>1. stop(s) = t
    BY <1>2 DEF stop
  <2>2. /\ q \in State /\ q.ready = s.ready
        /\ ~q.active /\ q.callbacks = {} /\ ~q.subscribers /\ ~q.sync_timer
        /\ q.link = s.link /\ q.timer = s.timer /\ q.running = s.running
        /\ q.requested = s.requested /\ q.abandoned = s.abandoned /\ q.reading = s.reading
    BY DEF Sound, State
  <2> HIDE DEF q
  <2>3. Writes(q, w)
    BY <2>2, WriteEffect
  <2> HIDE DEF w
  <2>4. /\ w \in State
        /\ ~w.active /\ w.callbacks = {} /\ ~w.subscribers /\ ~w.sync_timer
        /\ w.link = s.link /\ w.timer = s.timer /\ w.running = s.running
        /\ w.requested = s.requested /\ w.abandoned = s.abandoned /\ w.reading = s.reading
    BY <2>2, <2>3 DEF Writes, SameButReady, State
  <2>5. /\ t \in State
        /\ ~t.active /\ t.callbacks = {} /\ ~t.subscribers /\ ~t.sync_timer /\ ~t.open
        /\ t.link = s.link /\ t.timer = s.timer /\ t.running = s.running
        /\ t.requested = s.requested /\ t.abandoned = s.abandoned /\ ~t.reading
    <3>1. /\ t \in State
          /\ SameButReady([w EXCEPT !.open = FALSE, !.reading = FALSE, !.writing = FALSE], t)
      BY <2>4, CloseEffect
    <3> QED
      BY <2>4, <3>1 DEF SameButReady, State
  <2>6. Pending(w) <=> Pending(s)
    BY <2>2, <2>3, SameQueue DEF Writes
  <2>7. OneCompletion(s) => OneCompletion(w)
    BY <2>2, <2>3, SameQueue DEF Writes
  <2>8. OneRead(t)
    BY <2>4, <2>5, <2>6, <2>7, CloseEffect DEF OneRead, Sound
  <2>9. TransfersBringUnits(t)
    BY <2>2, <2>3, <2>4, SameQueue, CloseEffect DEF Writes, Sound
  <2>10. Queued(s, "check_connection") => Queued(t, "check_connection")
    BY <2>2, <2>3, <2>4, SameQueue, CloseEffect DEF Writes
  <2> QED
    BY <2>1, <2>5, <2>8, <2>9, <2>10 DEF Sound, Quiet, KeepsSchedule
<1> QED
  BY <1>1, <1>2

\* A state between two handlers, but for the time of the next check.
Healthy(s) == Sound(s) /\ Watched(s) /\ Hearing(s) /\ AbortsHarmless(s)

LEMMA StoppedIsHealthy ==
  ASSUME NEW s, Sound(s), ~s.active PROVE Healthy(s)
  BY DEF Healthy, Watched, Hearing, AbortsHarmless

LEMMA WritesKeep ==
  ASSUME NEW s, NEW t, Sound(s), Writes(s, t)
  PROVE  /\ Sound(t) /\ KeepsSchedule(s, t)
         /\ t.active = s.active
         /\ Watched(s) => Watched(t)
         /\ Hearing(s) => Hearing(t)
         /\ AbortsHarmless(s) => AbortsHarmless(t)
<1>1. /\ t \in State
      /\ t.active = s.active /\ t.open = s.open /\ t.callbacks = s.callbacks
      /\ t.subscribers = s.subscribers /\ t.sync_timer = s.sync_timer
      /\ t.link = s.link /\ t.timer = s.timer /\ t.running = s.running
      /\ t.requested = s.requested /\ t.abandoned = s.abandoned /\ t.reading = s.reading
  BY DEF Sound, Writes, SameButReady, State
<1>2. Sound(t)
  BY <1>1 DEF Sound, Quiet, OneRead, Writes
<1>3. KeepsSchedule(s, t)
  BY <1>1 DEF KeepsSchedule, Writes
<1>4. /\ Watched(s) => Watched(t)
      /\ Hearing(s) => Hearing(t)
  BY <1>1 DEF Watched, Hearing, Writes
<1>5. AbortsHarmless(s) => AbortsHarmless(t)
  BY <1>1 DEF AbortsHarmless, Writes
<1> QED
  BY <1>1, <1>2, <1>3, <1>4, <1>5

LEMMA ShutdownEffect ==
  ASSUME NEW s, Sound(s)
  PROVE  /\ Healthy(shutdown(s)) /\ KeepsSchedule(s, shutdown(s))
         /\ ~shutdown(s).running
<1> DEFINE q == stop(s)
           t == [q EXCEPT !.running = FALSE]
<1>1. shutdown(s) = t
  BY DEF shutdown
<1>2. Sound(q) /\ ~q.active /\ KeepsSchedule(s, q)
  BY StopEffect
<1> HIDE DEF q
<1>3. /\ t \in State /\ t.ready = q.ready /\ ~t.running
      /\ ~t.active /\ t.open = q.open /\ t.callbacks = q.callbacks
      /\ t.subscribers = q.subscribers /\ t.sync_timer = q.sync_timer
      /\ t.link = q.link /\ t.timer = q.timer
      /\ t.requested = q.requested /\ t.abandoned = q.abandoned /\ t.reading = q.reading
  BY <1>2 DEF Sound, State
<1> HIDE DEF t
<1>4. Sound(t)
  BY <1>2, <1>3, SameQueue DEF Sound, Quiet, OneRead
<1>5. KeepsSchedule(s, t)
  BY <1>2, <1>3, SameQueue DEF KeepsSchedule
<1> QED
  BY <1>1, <1>3, <1>4, <1>5, StoppedIsHealthy

\* The watchdog is set, or the node is down and the session with it.
LEMMA SetSyncTimeoutEffect ==
  ASSUME NEW s, Sound(s), s.active
  PROVE  /\ Sound(set_sync_timeout(s)) /\ Watched(set_sync_timeout(s))
         /\ KeepsSchedule(s, set_sync_timeout(s))
<1>1. CASE ~ok
  BY <1>1, ShutdownEffect DEF set_sync_timeout, Healthy
<1>2. CASE ok
  <2> DEFINE t == [s EXCEPT !.sync_timer = TRUE]
  <2>1. set_sync_timeout(s) = t
    BY <1>2 DEF set_sync_timeout
  <2>2. /\ t \in State /\ t.ready = s.ready /\ t.sync_timer
        /\ t.active /\ t.running = s.running
        /\ t.link = s.link /\ t.timer = s.timer
        /\ t.requested = s.requested /\ t.abandoned = s.abandoned /\ t.reading = s.reading
    BY DEF Sound, State
  <2> HIDE DEF t
  <2>3. Sound(t)
    BY <2>2, SameQueue DEF Sound, Quiet, OneRead
  <2>4. Watched(t) /\ KeepsSchedule(s, t)
    BY <2>2, SameQueue DEF Watched, KeepsSchedule
  <2> QED
    BY <2>1, <2>3, <2>4
<1> QED
  BY <1>1, <1>2

LEMMA AttemptSyncEffect ==
  ASSUME NEW s, Sound(s), s.active
  PROVE  /\ Sound(attempt_sync(s)) /\ Watched(attempt_sync(s))
         /\ KeepsSchedule(s, attempt_sync(s))
<1> DEFINE w == write_buffer(s)
<1>1. Sound(w) /\ w.active /\ KeepsSchedule(s, w)
  BY WriteEffect, WritesKeep DEF Sound
<1>2. attempt_sync(s) = set_sync_timeout(w)
  BY DEF attempt_sync
<1> HIDE DEF w
<1> QED
  BY <1>1, <1>2, SetSyncTimeoutEffect DEF KeepsSchedule

\* A refused call ends the session.  It is the call that makes abandoned
\* true when it forgets a live read, so that OneRead has nothing to say.
LEMMA RefusedEffect ==
  ASSUME NEW s, Sound(s), s.requested # "none"
  PROVE  Healthy(read_refused(s)) /\ KeepsSchedule(s, read_refused(s))
<1> DEFINE r == [s EXCEPT !.count = @ + 1]
           g == [r EXCEPT !.requested = "none", !.buffered = 0,
                          !.abandoned = @ \/ s.requested = "fits"]
           q == IF r.count > 3 THEN g ELSE r
<1>1. read_refused(s) = stop(q)
  BY DEF read_refused
<1>2. /\ r \in State /\ r.ready = s.ready
      /\ r.active = s.active /\ r.open = s.open /\ r.callbacks = s.callbacks
      /\ r.subscribers = s.subscribers /\ r.sync_timer = s.sync_timer
      /\ r.link = s.link /\ r.timer = s.timer /\ r.running = s.running
      /\ r.requested = s.requested /\ r.abandoned = s.abandoned /\ r.reading = s.reading
  <2>1. s \in State /\ s.count + 1 \in Nat
    BY DEF Sound, State
  <2> QED
    BY <2>1 DEF State
<1> HIDE DEF r
<1>3. Sound(r) /\ KeepsSchedule(s, r)
  BY <1>2, SameQueue DEF Sound, Quiet, OneRead, KeepsSchedule
<1>4. /\ g \in State /\ g.ready = r.ready
      /\ g.active = r.active /\ g.open = r.open /\ g.callbacks = r.callbacks
      /\ g.subscribers = r.subscribers /\ g.sync_timer = r.sync_timer
      /\ g.link = r.link /\ g.timer = r.timer /\ g.running = r.running
      /\ g.requested = "none" /\ g.reading = r.reading
      /\ ~g.abandoned => r.requested # "fits" /\ ~r.abandoned
  BY <1>2 DEF State
<1> HIDE DEF g
<1>5. Sound(g) /\ KeepsSchedule(s, g)
  BY <1>2, <1>3, <1>4, SameQueue DEF Sound, Quiet, OneRead, KeepsSchedule
<1>6. Sound(q) /\ KeepsSchedule(s, q)
  BY <1>3, <1>5
<1> HIDE DEF q
<1> QED
  BY <1>1, <1>6, StopEffect, StoppedIsHealthy DEF KeepsSchedule

\* callSuccessCallback() after the last completion: the request is answered.
LEMMA AnswerEffect ==
  ASSUME NEW s \in State, Quiet(s), Watched(s), TransfersBringUnits(s),
         ~s.abandoned => ~s.reading /\ ~Pending(s) /\ OneCompletion(s),
         s.buffered > 0
  PROVE  Healthy(callSuccessCallback(s)) /\ KeepsSchedule(s, callSuccessCallback(s))
<1> DEFINE e == Handler(s.success)
           p == post(s, e)
           t == [p EXCEPT !.requested = "none", !.buffered = @ - 1]
<1>1. callSuccessCallback(s) = t
  BY DEF callSuccessCallback
<1>2. e \in Entry /\ e.h = s.success /\ s.success \in ReadHandlers
  BY HandlerIsEntry DEF State, Handlers, Handler
<1>3. e.h \in ReadHandlers /\ e.h \notin Completions
  BY <1>2 DEF ReadHandlers, Completions
<1> HIDE DEF e
<1>4. /\ p \in State /\ SameButReady(s, p)
      /\ \A h : Queued(p, h) <=> Queued(s, h) \/ e.h = h
      /\ Pending(p) <=> Pending(s)
      /\ OneCompletion(s) => OneCompletion(p)
      /\ TransfersBringUnits(p)
  BY <1>2, <1>3, PostEffect DEF Completions
<1> HIDE DEF p
<1>5. /\ t \in State /\ t.ready = p.ready
      /\ t.active = s.active /\ t.open = s.open /\ t.callbacks = s.callbacks
      /\ t.subscribers = s.subscribers /\ t.sync_timer = s.sync_timer
      /\ t.link = s.link /\ t.timer = s.timer /\ t.running = s.running
      /\ t.requested = "none" /\ t.reading = s.reading /\ t.abandoned = s.abandoned
  <2>1. p.buffered - 1 \in Nat
    BY <1>4 DEF State, SameButReady
  <2> DEFINE n == p.buffered - 1
  <2>2. t = [p EXCEPT !.requested = "none", !.buffered = n]
    OBVIOUS
  <2> HIDE DEF n
  <2>3. n \in Nat
    BY <2>1 DEF n
  <2> QED
    BY <1>4, <2>2, <2>3 DEF State, SameButReady
<1> HIDE DEF t
<1>6. Sound(t)
  BY <1>4, <1>5, SameQueue DEF Sound, Quiet, OneRead
<1>7. Watched(t) /\ KeepsSchedule(s, t)
  BY <1>4, <1>5, SameQueue DEF Watched, KeepsSchedule
<1>8. Queued(t, e.h)
  BY <1>4, <1>5, SameQueue
<1>9. Hearing(t)
  BY <1>3, <1>8 DEF Hearing
<1>10. t.abandoned \/ ~Queued(t, "callback_aborted")
  <2>1. Queued(t, "callback_aborted") => Pending(t)
    BY DEF Queued, Pending, Completes, Completions
  <2> QED
    BY <2>1, <1>4, <1>5, SameQueue
<1> QED
  BY <1>1, <1>6, <1>7, <1>9, <1>10 DEF Healthy, AbortsHarmless

\* read() of bytes that fit: refused, answered at once, or a transfer starts
\* or fails at once.
LEMMA ReadEffect ==
  ASSUME NEW s, Sound(s), Watched(s), NEW h \in ReadHandlers
  PROVE  Healthy(read(s, h)) /\ KeepsSchedule(s, read(s, h))
<1> DEFINE r == [s EXCEPT !.count = 0, !.success = h, !.requested = "fits"]
<1>1. CASE s.requested # "none"
  BY <1>1, RefusedEffect DEF read
<1>2. ASSUME s.requested = "none"
      PROVE  /\ r \in State /\ r.ready = s.ready
             /\ r.active = s.active /\ r.open = s.open /\ r.callbacks = s.callbacks
             /\ r.subscribers = s.subscribers /\ r.sync_timer = s.sync_timer
             /\ r.link = s.link /\ r.timer = s.timer /\ r.running = s.running
             /\ r.requested = "fits" /\ r.abandoned = s.abandoned
             /\ r.reading = s.reading /\ r.buffered = s.buffered
             /\ ~r.abandoned => ~r.reading /\ ~Pending(r) /\ OneCompletion(r)
             /\ Quiet(r) /\ Watched(r) /\ TransfersBringUnits(r) /\ KeepsSchedule(s, r)
  <2>1. /\ r \in State /\ r.ready = s.ready
        /\ r.active = s.active /\ r.open = s.open /\ r.callbacks = s.callbacks
        /\ r.subscribers = s.subscribers /\ r.sync_timer = s.sync_timer
        /\ r.link = s.link /\ r.timer = s.timer /\ r.running = s.running
        /\ r.requested = "fits" /\ r.abandoned = s.abandoned
        /\ r.reading = s.reading /\ r.buffered = s.buffered
    BY DEF Sound, State
  <2> HIDE DEF r
  <2>2. ~r.abandoned => ~r.reading /\ ~Pending(r) /\ OneCompletion(r)
    BY <1>2, <2>1, SameQueue DEF Sound, OneRead
  <2>3. Quiet(r) /\ Watched(r) /\ TransfersBringUnits(r) /\ KeepsSchedule(s, r)
    BY <2>1, SameQueue DEF Sound, Quiet, Watched, KeepsSchedule
  <2> QED
    BY <2>1, <2>2, <2>3
<1>3. CASE s.requested = "none" /\ s.buffered > 0
  <2>1. read(s, h) = callSuccessCallback(r)
    BY <1>3 DEF read
  <2> HIDE DEF r
  <2> QED
    BY <1>2, <1>3, <2>1, AnswerEffect DEF KeepsSchedule
<1>4. CASE s.requested = "none" /\ ~(s.buffered > 0) /\ s.open
  <2> DEFINE t == [r EXCEPT !.reading = TRUE]
  <2>1. read(s, h) = t
    <3>1. read(s, h) = async_read_some(r)
      BY <1>4 DEF read
    <3>2. r.open
      BY <1>2, <1>4
    <3> QED
      BY <3>1, <3>2 DEF async_read_some
  <2> HIDE DEF r
  <2>2. /\ t \in State /\ t.ready = r.ready
        /\ t.active = r.active /\ t.open = r.open /\ t.callbacks = r.callbacks
        /\ t.subscribers = r.subscribers /\ t.sync_timer = r.sync_timer
        /\ t.link = r.link /\ t.timer = r.timer /\ t.running = r.running
        /\ t.requested = "fits" /\ t.abandoned = r.abandoned /\ t.reading
    BY <1>2, <1>4 DEF State
  <2> HIDE DEF t
  <2>3. Sound(t)
    BY <1>2, <1>4, <2>2, SameQueue DEF Sound, Quiet, OneRead
  <2>4. Watched(t) /\ Hearing(t) /\ KeepsSchedule(s, t)
    BY <1>2, <1>4, <2>2, SameQueue DEF Watched, Hearing, KeepsSchedule
  <2>5. ~t.abandoned => ~Queued(t, "callback_aborted")
    <3>1. Queued(t, "callback_aborted") => Pending(t)
      BY DEF Queued, Pending, Completes, Completions
    <3> QED
      BY <3>1, <2>2, <1>2, <1>4, SameQueue
  <2> QED
    BY <2>1, <2>3, <2>4, <2>5 DEF Healthy, AbortsHarmless
<1>5. CASE s.requested = "none" /\ ~(s.buffered > 0) /\ ~s.open
  <2> DEFINE e == Handler("callback_error")
             t == post(r, e)
  <2>1. read(s, h) = t
    <3>1. read(s, h) = async_read_some(r)
      BY <1>5 DEF read
    <3>2. ~r.open
      BY <1>2, <1>5
    <3> QED
      BY <3>1, <3>2 DEF async_read_some
  <2> HIDE DEF r
  <2>2. e \in Entry /\ e.h = "callback_error" /\ e.h \in Completions
    BY HandlerIsEntry DEF Handlers, Handler, Completions
  <2> HIDE DEF e
  <2>3. /\ t \in State /\ SameButReady(r, t)
        /\ \A k : Queued(t, k) <=> Queued(r, k) \/ e.h = k
        /\ Pending(t)
        /\ OneCompletion(r) /\ ~Pending(r) => OneCompletion(t)
        /\ TransfersBringUnits(t)
    BY <1>2, <1>5, <2>2, PostEffect
  <2> HIDE DEF t
  <2>4. Sound(t)
    BY <1>2, <1>5, <2>3 DEF Sound, Quiet, OneRead, SameButReady
  <2>5. Watched(t) /\ Hearing(t) /\ KeepsSchedule(s, t)
    BY <1>2, <1>5, <2>2, <2>3 DEF Watched, Hearing, KeepsSchedule, SameButReady
  <2>6. AbortsHarmless(t)
    <3>1. Queued(r, "callback_aborted") => Pending(r)
      BY DEF Queued, Pending, Completes, Completions
    <3>2. Queued(t, "callback_aborted") => Queued(r, "callback_aborted")
      BY <2>2, <2>3
    <3> QED
      BY <1>2, <1>5, <2>3, <3>1, <3>2 DEF AbortsHarmless, SameButReady
  <2> QED
    BY <2>1, <2>4, <2>5, <2>6 DEF Healthy
<1> QED
  BY <1>1, <1>3, <1>4, <1>5

LEMMA ReadSyncHeaderEffect ==
  ASSUME NEW s, Sound(s), Watched(s)
  PROVE  Healthy(read_sync_header(s)) /\ KeepsSchedule(s, read_sync_header(s))
  BY ReadEffect DEF read_sync_header, ReadHandlers

\* A read that does not fit: the read_sync_header() after it is refused.
LEMMA ReadOversizeEffect ==
  ASSUME NEW s, Sound(s), Watched(s)
  PROVE  Healthy(read_oversize(s)) /\ KeepsSchedule(s, read_oversize(s))
<1> DEFINE r == [s EXCEPT !.count = 0, !.success = "read_body", !.requested = "oversize"]
<1>1. CASE s.requested # "none"
  BY <1>1, RefusedEffect DEF read_oversize
<1>2. CASE s.requested = "none"
  <2>1. read_oversize(s) = read_sync_header(r)
    BY <1>2 DEF read_oversize
  <2>2. /\ r \in State /\ r.ready = s.ready
        /\ r.active = s.active /\ r.open = s.open /\ r.callbacks = s.callbacks
        /\ r.subscribers = s.subscribers /\ r.sync_timer = s.sync_timer
        /\ r.link = s.link /\ r.timer = s.timer /\ r.running = s.running
        /\ r.requested = "oversize" /\ r.abandoned = s.abandoned /\ r.reading = s.reading
    BY DEF Sound, State, ReadHandlers
  <2> HIDE DEF r
  <2>3. Sound(r)
    BY <1>2, <2>2, SameQueue DEF Sound, Quiet, OneRead
  <2>4. Watched(r) /\ KeepsSchedule(s, r)
    BY <2>2, SameQueue DEF Watched, KeepsSchedule
  <2> QED
    BY <2>1, <2>3, <2>4, ReadSyncHeaderEffect DEF KeepsSchedule
<1> QED
  BY <1>1, <1>2

\* A new session over the port that was just opened.
LEMMA StartEffect ==
  ASSUME NEW s, Sound(s)
  PROVE  Healthy(start(open(s))) /\ KeepsSchedule(s, start(open(s)))
<1> DEFINE r == [open(s) EXCEPT !.callbacks = @ \cup SetupIds, !.active = TRUE]
           a == attempt_sync(r)
<1>1. start(open(s)) = read_sync_header(a)
  BY DEF start
<1>2. /\ r \in State /\ r.ready = s.ready /\ r.active
      /\ r.link = s.link /\ r.timer = s.timer /\ r.running = s.running
      /\ r.requested = s.requested /\ r.abandoned = s.abandoned /\ r.reading = s.reading
  BY DEF Sound, State, open
<1> HIDE DEF r
<1>3. Sound(r) /\ KeepsSchedule(s, r)
  BY <1>2, SameQueue DEF Sound, Quiet, OneRead, KeepsSchedule
<1>4. Sound(a) /\ Watched(a) /\ KeepsSchedule(s, a)
  BY <1>2, <1>3, AttemptSyncEffect DEF KeepsSchedule
<1> HIDE DEF a
<1> QED
  BY <1>1, <1>4, ReadSyncHeaderEffect DEF KeepsSchedule

\* What a message may make an active session do leaves it able to read on.
LEMMA DispatchEffect ==
  ASSUME NEW s, Sound(s), Watched(s), s.active, NEW d \in dispatch(s)
  PROVE  Sound(d) /\ Watched(d) /\ KeepsSchedule(s, d)
<1>1. CASE d = s
  BY <1>1 DEF KeepsSchedule
<1>2. ASSUME NEW t \in Topics, d = setup_publisher(s, t)
      PROVE  Sound(d) /\ Watched(d) /\ KeepsSchedule(s, d)
  <2> DEFINE r == [s EXCEPT !.callbacks = @ \cup {t}]
  <2>1. /\ r \in State /\ r.ready = s.ready /\ r.active
        /\ r.link = s.link /\ r.timer = s.timer /\ r.running = s.running
        /\ r.requested = s.requested /\ r.abandoned = s.abandoned /\ r.reading = s.reading
    BY DEF Sound, State
  <2>2. d = set_sync_timeout(r)
    BY <1>2 DEF setup_publisher
  <2> HIDE DEF r
  <2>3. Sound(r) /\ KeepsSchedule(s, r)
    BY <2>1, SameQueue DEF Sound, Quiet, OneRead, KeepsSchedule
  <2> QED
    BY <2>1, <2>2, <2>3, SetSyncTimeoutEffect DEF KeepsSchedule
<1>3. CASE d = setup_subscriber(s)
  <2> DEFINE r == [s EXCEPT !.subscribers = TRUE]
  <2>1. /\ r \in State /\ r.ready = s.ready /\ r.active
        /\ r.link = s.link /\ r.timer = s.timer /\ r.running = s.running
        /\ r.requested = s.requested /\ r.abandoned = s.abandoned /\ r.reading = s.reading
    BY DEF Sound, State
  <2>2. d = set_sync_timeout(r)
    BY <1>3 DEF setup_subscriber
  <2> HIDE DEF r
  <2>3. Sound(r) /\ KeepsSchedule(s, r)
    BY <2>1, SameQueue DEF Sound, Quiet, OneRead, KeepsSchedule
  <2> QED
    BY <2>1, <2>2, <2>3, SetSyncTimeoutEffect DEF KeepsSchedule
<1>4. CASE d = handle_time(s)
  BY <1>4, AttemptSyncEffect DEF handle_time, attempt_sync
<1>5. CASE d = unrecognised(s)
  <2>1. CASE RetryThreshold = 0
    BY <1>1, <1>5, <2>1 DEF unrecognised
  <2>2. CASE RetryThreshold # 0 /\ s.unrecognised + 1 < RetryThreshold
    <3> DEFINE n == s.unrecognised + 1
               r == [s EXCEPT !.unrecognised = n]
    <3>1. d = r
      BY <1>5, <2>2 DEF unrecognised
    <3>2. n \in Nat
      BY DEF Sound, State
    <3> HIDE DEF n
    <3>3. /\ r \in State /\ r.ready = s.ready /\ r.active
          /\ r.link = s.link /\ r.timer = s.timer /\ r.running = s.running
          /\ r.sync_timer = s.sync_timer
          /\ r.requested = s.requested /\ r.abandoned = s.abandoned /\ r.reading = s.reading
      BY <3>2 DEF Sound, State
    <3> HIDE DEF r
    <3>4. Sound(r) /\ Watched(r) /\ KeepsSchedule(s, r)
      BY <3>3, SameQueue DEF Sound, Quiet, OneRead, Watched, KeepsSchedule
    <3> QED
      BY <3>1, <3>4
  <2>3. CASE RetryThreshold # 0 /\ ~(s.unrecognised + 1 < RetryThreshold)
    <3> DEFINE a == attempt_sync(s)
               r == [a EXCEPT !.unrecognised = 0]
    <3>1. d = r
      BY <1>5, <2>3 DEF unrecognised
    <3>2. Sound(a) /\ Watched(a) /\ KeepsSchedule(s, a)
      BY AttemptSyncEffect
    <3> HIDE DEF a
    <3>3. /\ r \in State /\ r.ready = a.ready
          /\ r.active = a.active /\ r.open = a.open /\ r.callbacks = a.callbacks
          /\ r.subscribers = a.subscribers /\ r.sync_timer = a.sync_timer
          /\ r.link = a.link /\ r.timer = a.timer /\ r.running = a.running
          /\ r.requested = a.requested /\ r.abandoned = a.abandoned /\ r.reading = a.reading
      BY <3>2 DEF Sound, State
    <3> HIDE DEF r
    <3>4. Sound(r) /\ Watched(r) /\ KeepsSchedule(s, r)
      BY <3>2, <3>3, SameQueue DEF Sound, Quiet, OneRead, Watched, KeepsSchedule
    <3> QED
      BY <3>1, <3>4
  <2> QED
    BY <2>1, <2>2, <2>3
<1> QED
  BY <1>1, <1>2, <1>3, <1>4, <1>5 DEF dispatch

-----------------------------------------------------------------------------
(* The handlers and what happens around them.                              *)

LEMMA KeepsScheduled ==
  ASSUME NEW s, NEW t, Scheduled(s), KeepsSchedule(s, t) PROVE Scheduled(t)
  BY DEF Scheduled, KeepsSchedule

LEMMA TakenIsRest == Taken = Rest(io)
  BY DEF Taken, Rest

\* What the handler at the head of the queue finds.
LEMMA TakenEffect ==
  ASSUME SessionInv, io.ready # <<>>
  PROVE  /\ Taken \in State /\ SameButReady(io, Taken)
         /\ Quiet(Taken) /\ TransfersBringUnits(Taken) /\ AbortsHarmless(Taken)
         /\ Head(io.ready) \in Entry
         /\ Head(io.ready).h \notin Completions => Sound(Taken)
         /\ Head(io.ready).h \in Completions /\ ~Taken.abandoned =>
              /\ ~Taken.reading /\ ~Pending(Taken) /\ OneCompletion(Taken)
              /\ Taken.requested = "fits"
         /\ Head(io.ready).h = "callback" => Head(io.ready).units > 0
         /\ Head(io.ready).h # "sync_timeout" => Watched(Taken)
         /\ Head(io.ready).h # "check_connection" => Scheduled(Taken)
         /\ Head(io.ready).h \notin ReadHandlers \cup {"callback", "callback_error"} => Hearing(Taken)
         /\ Head(io.ready).h = "callback_aborted" /\ ~Taken.abandoned => ~Taken.active
<1> DEFINE t == Rest(io)
           k == Head(io.ready).h
<1>1. io \in State /\ Quiet(io) /\ Watched(io) /\ Scheduled(io) /\ Hearing(io)
      /\ OneRead(io) /\ AbortsHarmless(io) /\ TransfersBringUnits(io)
  BY DEF SessionInv, TypeOK, StoppedIsQuiet, WatchdogOn, ReconnectScheduled, NeverDeaf
<1>2. /\ t \in State /\ SameButReady(io, t) /\ Head(io.ready) \in Entry
      /\ \A h : /\ Queued(t, h) => Queued(io, h)
                /\ Queued(io, h) => Queued(t, h) \/ k = h
      /\ Queued(io, k)
      /\ Pending(t) => Pending(io)
      /\ Pending(io) => Pending(t) \/ k \in Completions
      /\ k \in Completions => Pending(io)
      /\ OneCompletion(io) => OneCompletion(t) /\ (k \in Completions => ~Pending(t))
      /\ TransfersBringUnits(t)
      /\ k = "callback" => Head(io.ready).units > 0
  BY <1>1, TakeEffect
<1> HIDE DEF t, k
<1>3. Quiet(t) /\ AbortsHarmless(t)
  BY <1>1, <1>2 DEF Quiet, AbortsHarmless, SameButReady
<1>4. k \notin Completions => Sound(t)
  BY <1>1, <1>2, <1>3 DEF Sound, OneRead, SameButReady
<1>5. k \in Completions /\ ~t.abandoned =>
        ~t.reading /\ ~Pending(t) /\ OneCompletion(t) /\ t.requested = "fits"
  BY <1>1, <1>2 DEF OneRead, SameButReady
<1>6. k # "sync_timeout" => Watched(t)
  BY <1>1, <1>2 DEF Watched, SameButReady
<1>7. k # "check_connection" => Scheduled(t)
  BY <1>1, <1>2 DEF Scheduled, SameButReady
<1>8. k \notin ReadHandlers \cup {"callback", "callback_error"} => Hearing(t)
  BY <1>1, <1>2 DEF Hearing, SameButReady
<1>9. k = "callback_aborted" /\ ~t.abandoned => ~t.active
  BY <1>1, <1>2 DEF AbortsHarmless, SameButReady
<1> QED
  BY <1>2, <1>3, <1>4, <1>5, <1>6, <1>7, <1>8, <1>9, TakenIsRest DEF t, k

LEMMA InvFromParts ==
  ASSUME Healthy(io'), Scheduled(io'), ok' \in BOOLEAN PROVE SessionInv'
  BY DEF Healthy, Sound, SessionInv, TypeOK, StoppedIsQuiet, WatchdogOn,
         ReconnectScheduled, NeverDeaf

\* A handler that is none of the completions and not check_connection() is
\* left with a healthy state by the methods it calls.
LEMMA HandlerKeeps ==
  ASSUME SessionInv, io.ready # <<>>, Head(io.ready).h # "check_connection",
         Healthy(io'), KeepsSchedule(Taken, io'), UNCHANGED ok
  PROVE  SessionInv'
<1>1. Scheduled(io')
  BY TakenEffect, KeepsScheduled
<1>2. ok' \in BOOLEAN
  BY DEF SessionInv, TypeOK
<1> QED
  BY <1>1, <1>2, InvFromParts

LEMMA SyncTimeoutKeeps == ASSUME SessionInv, RunSyncTimeout PROVE SessionInv'
<1>1. io.ready # <<>> /\ Head(io.ready).h = "sync_timeout"
  BY DEF RunSyncTimeout, Runs
<1>2. Sound(Taken)
  BY <1>1, TakenEffect DEF Completions
<1>3. io' = stop(Taken) /\ UNCHANGED ok
  BY DEF RunSyncTimeout
<1> QED
  BY <1>1, <1>2, <1>3, StopEffect, StoppedIsHealthy, HandlerKeeps

LEMMA HandleAcceptKeeps ==
  ASSUME SessionInv, NEW error \in BOOLEAN, RunHandleAccept(error) PROVE SessionInv'
<1>1. io.ready # <<>> /\ Head(io.ready).h = "handle_accept" /\ UNCHANGED ok
  BY DEF RunHandleAccept, Runs
<1>2. Sound(Taken) /\ Watched(Taken) /\ Hearing(Taken) /\ AbortsHarmless(Taken)
  BY <1>1, TakenEffect DEF Completions, ReadHandlers
<1>3. CASE error
  <2> DEFINE e == Handler("handle_accept")
             t == post(Taken, e)
  <2>1. io' = t
    BY <1>3 DEF RunHandleAccept
  <2>2. e \in Entry /\ e.h = "handle_accept"
    BY HandlerIsEntry DEF Handlers, Handler
  <2>3. e.h \notin Completions /\ e.h # "callback" /\ e.h # "callback_aborted"
    BY <2>2 DEF Completions
  <2> HIDE DEF e
  <2>4. Taken \in State
    BY <1>2 DEF Sound
  <2>5. /\ t \in State /\ SameButReady(Taken, t)
        /\ \A h : Queued(t, h) <=> Queued(Taken, h) \/ e.h = h
        /\ Pending(t) <=> Pending(Taken)
        /\ OneCompletion(Taken) => OneCompletion(t)
        /\ TransfersBringUnits(Taken) => TransfersBringUnits(t)
    BY <2>2, <2>3, <2>4, PostEffect
  <2> HIDE DEF t
  <2>6. Sound(t)
    BY <1>2, <2>5 DEF Sound, Quiet, OneRead, SameButReady
  <2>7. Watched(t) /\ Hearing(t) /\ KeepsSchedule(Taken, t)
    BY <1>2, <2>5 DEF Watched, Hearing, KeepsSchedule, SameButReady
  <2>8. AbortsHarmless(t)
    BY <1>2, <2>3, <2>5 DEF AbortsHarmless, SameButReady
  <2> QED
    BY <1>1, <2>1, <2>6, <2>7, <2>8, HandlerKeeps DEF Healthy
<1>4. CASE ~error
  <2>1. io' = start(open(Taken))
    BY <1>4 DEF RunHandleAccept
  <2> QED
    BY <1>1, <1>2, <2>1, StartEffect, HandlerKeeps
<1> QED
  BY <1>3, <1>4

\* The end of check_connection(): the timer is set again, or the node is down.
LEMMA RescheduleEffect ==
  ASSUME NEW s, Healthy(s), NEW up \in BOOLEAN
  PROVE  LET t == IF up THEN [s EXCEPT !.timer = TRUE] ELSE shutdown(s)
         IN  Healthy(t) /\ Scheduled(t)
<1>1. CASE up
  <2> DEFINE t == [s EXCEPT !.timer = TRUE]
  <2>1. /\ t \in State /\ t.ready = s.ready /\ t.timer
        /\ t.active = s.active /\ t.open = s.open /\ t.callbacks = s.callbacks
        /\ t.subscribers = s.subscribers /\ t.sync_timer = s.sync_timer
        /\ t.requested = s.requested /\ t.abandoned = s.abandoned /\ t.reading = s.reading
    BY DEF Healthy, Sound, State
  <2> HIDE DEF t
  <2>2. Sound(t)
    BY <2>1, SameQueue DEF Healthy, Sound, Quiet, OneRead
  <2>3. Watched(t) /\ Hearing(t) /\ AbortsHarmless(t) /\ Scheduled(t)
    BY <2>1, SameQueue DEF Healthy, Watched, Hearing, AbortsHarmless, Scheduled
  <2> QED
    BY <1>1, <2>2, <2>3 DEF Healthy, t
<1>2. CASE ~up
  BY <1>2, ShutdownEffect DEF Healthy, Scheduled
<1> QED
  BY <1>1, <1>2

LEMMA CheckConnectionKeeps ==
  ASSUME SessionInv, NEW opened \in BOOLEAN, RunCheckConnection(opened) PROVE SessionInv'
<1> DEFINE s == IF Taken.active THEN Taken ELSE attempt_connection(Taken, opened)
<1>1. io.ready # <<>> /\ Head(io.ready).h = "check_connection"
  BY DEF RunCheckConnection, Runs
<1>2. Sound(Taken) /\ Healthy(Taken)
  BY <1>1, TakenEffect DEF Healthy, Completions, ReadHandlers
<1>3. Healthy(s)
  BY <1>2, StartEffect DEF attempt_connection
<1>4. ok' \in BOOLEAN
  BY DEF RunCheckConnection, SessionInv, TypeOK
<1>5. io' = IF ok' THEN [s EXCEPT !.timer = TRUE] ELSE shutdown(s)
  BY DEF RunCheckConnection
<1> HIDE DEF s
<1> QED
  BY <1>3, <1>4, <1>5, RescheduleEffect, InvFromParts

\* An exception nobody catches ends the node in the middle of a handler.
LEMMA NodeEndsKeeps ==
  ASSUME Sound(Taken), Healthy(Taken), io' = [Taken EXCEPT !.running = FALSE], ok' \in BOOLEAN
  PROVE  SessionInv'
<1> DEFINE s == Taken
           t == [s EXCEPT !.running = FALSE]
<1>1. io' = t
  OBVIOUS
<1>2. Sound(s) /\ Healthy(s)
  OBVIOUS
<1> HIDE DEF s
<1>3. /\ t \in State /\ t.ready = s.ready /\ ~t.running
      /\ t.active = s.active /\ t.open = s.open /\ t.callbacks = s.callbacks
      /\ t.subscribers = s.subscribers /\ t.sync_timer = s.sync_timer
      /\ t.requested = s.requested /\ t.abandoned = s.abandoned /\ t.reading = s.reading
  BY <1>2 DEF Sound, State
<1> HIDE DEF t
<1>4. Sound(t)
  BY <1>2, <1>3, SameQueue DEF Sound, Quiet, OneRead
<1>5. Watched(t) /\ Hearing(t) /\ AbortsHarmless(t) /\ Scheduled(t)
  BY <1>2, <1>3, SameQueue DEF Healthy, Watched, Hearing, AbortsHarmless, Scheduled
<1> QED
  BY <1>1, <1>4, <1>5, InvFromParts DEF Healthy

LEMMA SetOptionThrowsKeeps == ASSUME SessionInv, RunSetOptionThrows PROVE SessionInv'
<1>1. io.ready # <<>> /\ Head(io.ready).h = "check_connection"
  BY DEF RunSetOptionThrows, Runs
<1>2. Sound(Taken) /\ Healthy(Taken)
  BY <1>1, TakenEffect DEF Healthy, Completions, ReadHandlers
<1>3. io' = [Taken EXCEPT !.running = FALSE] /\ ok' \in BOOLEAN
  BY DEF RunSetOptionThrows
<1> QED
  BY <1>2, <1>3, NodeEndsKeeps

LEMMA UdpCheckConnectionKeeps ==
  ASSUME SessionInv, NEW bound \in BOOLEAN, RunUdpCheckConnection(bound) PROVE SessionInv'
<1>1. io.ready # <<>> /\ Head(io.ready).h = "check_connection"
  BY DEF RunUdpCheckConnection, Runs
<1>2. Sound(Taken) /\ Healthy(Taken)
  BY <1>1, TakenEffect DEF Healthy, Completions, ReadHandlers
<1>3. CASE io.active \/ bound
  <2> DEFINE s == IF io.active THEN Taken ELSE start(open(Taken))
  <2>1. Healthy(s)
    BY <1>2, StartEffect
  <2>2. ok' \in BOOLEAN /\ io' = IF ok' THEN [s EXCEPT !.timer = TRUE] ELSE shutdown(s)
    BY <1>3 DEF RunUdpCheckConnection, SessionInv, TypeOK
  <2> HIDE DEF s
  <2> QED
    BY <2>1, <2>2, RescheduleEffect, InvFromParts
<1>4. CASE ~(io.active \/ bound)
  <2>1. io' = [Taken EXCEPT !.running = FALSE] /\ ok' \in BOOLEAN
    BY <1>4 DEF RunUdpCheckConnection
  <2> QED
    BY <1>2, <2>1, NodeEndsKeeps
<1> QED
  BY <1>3, <1>4

LEMMA CallbackKeeps == ASSUME SessionInv, RunCallback PROVE SessionInv'
<1> DEFINE s == Taken
           n == s.buffered + Head(io.ready).units
           r == [s EXCEPT !.buffered = n]
<1>1. io.ready # <<>> /\ Head(io.ready).h = "callback" /\ UNCHANGED ok
  BY DEF RunCallback, Runs
<1>2. io' = callSuccessCallback(r)
  BY DEF RunCallback
<1>3. /\ s \in State /\ Quiet(s) /\ Watched(s) /\ TransfersBringUnits(s)
      /\ ~s.abandoned => ~s.reading /\ ~Pending(s) /\ OneCompletion(s)
      /\ Head(io.ready) \in Entry /\ Head(io.ready).units > 0
  BY <1>1, TakenEffect DEF Completions
<1>4. n \in Nat /\ n > 0
  <2>1. s.buffered \in Nat /\ Head(io.ready).units \in Nat
    BY <1>3 DEF State, Entry
  <2> QED
    BY <1>3, <2>1
<1> HIDE DEF s, n
<1>5. /\ r \in State /\ r.ready = s.ready /\ r.buffered = n
      /\ r.active = s.active /\ r.open = s.open /\ r.callbacks = s.callbacks
      /\ r.subscribers = s.subscribers /\ r.sync_timer = s.sync_timer
      /\ r.link = s.link /\ r.timer = s.timer /\ r.running = s.running
      /\ r.abandoned = s.abandoned /\ r.reading = s.reading
  BY <1>3, <1>4 DEF State
<1> HIDE DEF r
<1>6. /\ Quiet(r) /\ Watched(r) /\ TransfersBringUnits(r) /\ KeepsSchedule(s, r)
      /\ ~r.abandoned => ~r.reading /\ ~Pending(r) /\ OneCompletion(r)
  BY <1>3, <1>5, SameQueue DEF Quiet, Watched, KeepsSchedule
<1>7. Healthy(io') /\ KeepsSchedule(r, io')
  BY <1>2, <1>4, <1>5, <1>6, AnswerEffect
<1>8. KeepsSchedule(Taken, io')
  BY <1>6, <1>7 DEF KeepsSchedule, s
<1> QED
  BY <1>1, <1>7, <1>8, HandlerKeeps

LEMMA CallbackErrorKeeps == ASSUME SessionInv, RunCallbackError PROVE SessionInv'
<1> DEFINE q == Taken
           s == [q EXCEPT !.requested = "none"]
           k == Head(io.ready).h
<1>1. io.ready # <<>> /\ k \in {"callback_error", "callback_aborted"} /\ UNCHANGED ok
  BY DEF RunCallbackError, Runs
<1>2. io' = IF k = "callback_aborted" THEN s ELSE stop(s)
  BY DEF RunCallbackError
<1>3. /\ q \in State /\ Quiet(q) /\ Watched(q) /\ TransfersBringUnits(q)
      /\ ~q.abandoned => ~q.reading /\ ~Pending(q) /\ OneCompletion(q)
      /\ k = "callback_aborted" => Hearing(q) /\ (~q.abandoned => ~q.active)
  BY <1>1, TakenEffect DEF Completions, ReadHandlers
<1> HIDE DEF q
<1>4. /\ s \in State /\ s.ready = q.ready /\ s.requested = "none"
      /\ s.active = q.active /\ s.open = q.open /\ s.callbacks = q.callbacks
      /\ s.subscribers = q.subscribers /\ s.sync_timer = q.sync_timer
      /\ s.link = q.link /\ s.timer = q.timer /\ s.running = q.running
      /\ s.abandoned = q.abandoned /\ s.reading = q.reading
  BY <1>3 DEF State
<1> HIDE DEF s
<1>5. Sound(s)
  BY <1>3, <1>4, SameQueue DEF Sound, Quiet, OneRead
<1>6. Watched(s) /\ KeepsSchedule(q, s)
  BY <1>3, <1>4, SameQueue DEF Watched, KeepsSchedule
<1>7. k = "callback_aborted" => Hearing(s) /\ AbortsHarmless(s)
  BY <1>3, <1>4, SameQueue DEF Hearing, AbortsHarmless
<1>8. Healthy(io') /\ KeepsSchedule(s, io')
  <2>1. CASE k = "callback_aborted"
    BY <1>2, <1>5, <1>6, <1>7, <2>1 DEF Healthy, KeepsSchedule
  <2>2. CASE k # "callback_aborted"
    BY <1>2, <1>5, <2>2, StopEffect, StoppedIsHealthy
  <2> QED
    BY <2>1, <2>2
<1>9. KeepsSchedule(Taken, io')
  BY <1>6, <1>8 DEF KeepsSchedule, q
<1> QED
  BY <1>1, <1>8, <1>9, HandlerKeeps

\* The four handlers of the session's reads.
LEMMA ReadHandlersKeep ==
  ASSUME SessionInv, RunReadSyncFirst \/ RunReadSyncSecond \/ RunReadIdLength \/ RunReadBody
  PROVE  SessionInv'
<1>1. io.ready # <<>> /\ Head(io.ready).h \in ReadHandlers /\ UNCHANGED ok
  BY DEF RunReadSyncFirst, RunReadSyncSecond, RunReadIdLength, RunReadBody, Runs, ReadHandlers
<1>2. Head(io.ready).h \notin Completions \cup {"sync_timeout", "check_connection"}
  BY <1>1 DEF ReadHandlers, Completions
<1>3. Sound(Taken) /\ Watched(Taken)
  BY <1>1, <1>2, TakenEffect
<1>4. Healthy(io') /\ KeepsSchedule(Taken, io')
  <2>1. CASE \E h \in ReadHandlers : io' = read(Taken, h)
    BY <1>3, <2>1, ReadEffect
  <2>2. CASE io' = read_oversize(Taken)
    BY <1>3, <2>2, ReadOversizeEffect
  <2>3. CASE ~Taken.active /\ io' = Taken
    BY <1>3, <2>3, StoppedIsHealthy DEF KeepsSchedule
  <2>4. CASE Taken.active /\ \E s \in dispatch(Taken) : io' = read_sync_header(s)
    <3>1. PICK s \in dispatch(Taken) : io' = read_sync_header(s)
      BY <2>4
    <3>2. Sound(s) /\ Watched(s) /\ KeepsSchedule(Taken, s)
      BY <1>3, <2>4, DispatchEffect
    <3> QED
      BY <3>1, <3>2, ReadSyncHeaderEffect DEF KeepsSchedule
  <2> QED
    BY <2>1, <2>2, <2>3, <2>4
       DEF RunReadSyncFirst, RunReadSyncSecond, RunReadIdLength, RunReadBody, ReadHandlers
<1> QED
  BY <1>1, <1>2, <1>4, HandlerKeeps

LEMMA WriteHandlersKeep ==
  ASSUME SessionInv, RunWriteBuffer \/ RunWriteCompletion PROVE SessionInv'
<1>1. io.ready # <<>> /\ Head(io.ready).h \in {"write_buffer", "write_completion_cb"}
      /\ UNCHANGED ok
  BY DEF RunWriteBuffer, RunWriteCompletion, Runs
<1>2. Healthy(Taken) /\ Sound(Taken)
  BY <1>1, TakenEffect DEF Healthy, Completions, ReadHandlers
<1>3. Healthy(io') /\ KeepsSchedule(Taken, io')
  <2>1. CASE io' = write_buffer(Taken)
    BY <1>2, <2>1, WriteEffect, WritesKeep DEF Healthy, Sound
  <2>2. CASE io' = Taken
    BY <1>2, <2>2 DEF KeepsSchedule
  <2>3. CASE io' = stop(Taken)
    BY <1>2, <2>3, StopEffect, StoppedIsHealthy
  <2> QED
    BY <2>1, <2>2, <2>3 DEF RunWriteBuffer, RunWriteCompletion
<1> QED
  BY <1>1, <1>3, HandlerKeeps

\* A completion or an expired timer is queued, or nothing is.
LEMMA EnvironmentKeeps == ASSUME SessionInv, Environment PROVE SessionInv'
<1>1. io \in State /\ Quiet(io) /\ Watched(io) /\ Scheduled(io) /\ Hearing(io)
      /\ OneRead(io) /\ AbortsHarmless(io) /\ TransfersBringUnits(io) /\ ok \in BOOLEAN
  BY DEF SessionInv, TypeOK, StoppedIsQuiet, WatchdogOn, ReconnectScheduled, NeverDeaf
<1> DEFINE Ready(e) ==
      /\ post(io, e) \in State
      /\ SameButReady(io, post(io, e))
      /\ \A h : Queued(post(io, e), h) <=> Queued(io, h) \/ e.h = h
      /\ Pending(post(io, e)) <=> Pending(io) \/ e.h \in Completions
      /\ OneCompletion(io) /\ (e.h \in Completions => ~Pending(io))
           => OneCompletion(post(io, e))
      /\ (e.h = "callback" => e.units > 0) => TransfersBringUnits(post(io, e))
<1>2. \A e \in Entry : Ready(e)
  BY <1>1, PostEffect
<1> HIDE DEF Ready
\* A step that changes one flag of the posted state p, to give t.
<1> DEFINE Frame(p, t) ==
      /\ t \in State /\ t.ready = p.ready
      /\ t.active = io.active /\ t.open = io.open /\ t.callbacks = io.callbacks
      /\ t.subscribers = io.subscribers /\ t.link = io.link /\ t.running = io.running
      /\ t.requested = io.requested /\ t.abandoned = io.abandoned
<1>3. ASSUME NEW e \in Entry, e.h \in {"callback", "callback_error"},
             e.h = "callback" => e.units > 0, io.reading,
             io' = [post(io, e) EXCEPT !.reading = FALSE], UNCHANGED ok
      PROVE  SessionInv'
  <2> DEFINE p == post(io, e)
  <2>1. p \in State /\ SameButReady(io, p)
    BY <1>2 DEF Ready
  <2>2. e.h \in Completions /\ e.h # "callback_aborted"
    BY <1>3 DEF Completions
  <2>3. io' = [p EXCEPT !.reading = FALSE]
    BY <1>3
  <2> HIDE DEF p
  <2>4. /\ Frame(p, io') /\ ~io'.reading
        /\ io'.sync_timer = io.sync_timer /\ io'.timer = io.timer
    BY <2>1, <2>3 DEF State, SameButReady
  <2>5. /\ \A h : Queued(io', h) <=> Queued(io, h) \/ e.h = h
        /\ Pending(io')
        /\ OneCompletion(io) /\ ~Pending(io) => OneCompletion(io')
        /\ TransfersBringUnits(io')
    <3>1. Ready(e) /\ io'.ready = p.ready
      BY <1>2, <2>4
    <3>2. /\ \A h : Queued(p, h) <=> Queued(io, h) \/ e.h = h
          /\ Pending(p)
          /\ OneCompletion(io) /\ ~Pending(io) => OneCompletion(p)
          /\ TransfersBringUnits(p)
      BY <1>3, <2>2, <3>1 DEF Ready, p
    <3> QED
      BY <3>1, <3>2, SameQueue
  <2>6. Sound(io')
    BY <1>1, <1>3, <2>4, <2>5 DEF Sound, Quiet, OneRead
  <2>7. Watched(io') /\ Hearing(io') /\ Scheduled(io')
    BY <1>1, <1>3, <2>4, <2>5 DEF Watched, Hearing, Scheduled
  <2>8. AbortsHarmless(io')
    BY <1>1, <2>2, <2>4, <2>5 DEF AbortsHarmless
  <2> QED
    BY <1>1, <1>3, <2>6, <2>7, <2>8, InvFromParts DEF Healthy
<1>4. CASE \E units \in 1 .. MaxUnits : ReadCompletes(units)
  <2>1. PICK units \in 1 .. MaxUnits : ReadCompletes(units)
    BY <1>4
  <2> DEFINE e == [Handler("callback") EXCEPT !.units = units]
  <2>2. e = [h |-> "callback", units |-> units]
    BY DEF Handler
  <2>3. e \in Entry /\ e.h = "callback" /\ e.units > 0
    BY <2>2 DEF Entry, Handlers
  <2>4. io.reading /\ io' = [post(io, e) EXCEPT !.reading = FALSE] /\ UNCHANGED ok
    BY <2>1 DEF ReadCompletes
  <2> HIDE DEF e
  <2> QED
    BY <1>3, <2>3, <2>4
<1>5. CASE ReadFails
  <2> DEFINE e == Handler("callback_error")
  <2>1. e \in Entry /\ e.h = "callback_error"
    BY HandlerIsEntry DEF Handlers, Handler
  <2>2. io.reading /\ io' = [post(io, e) EXCEPT !.reading = FALSE] /\ UNCHANGED ok
    BY <1>5 DEF ReadFails
  <2> HIDE DEF e
  <2> QED
    BY <1>3, <2>1, <2>2
<1>6. CASE WriteCompletes
  <2>1. io' = [io EXCEPT !.writing = FALSE] /\ UNCHANGED ok
    BY <1>6 DEF WriteCompletes
  <2>2. /\ Frame(io, io') /\ io'.reading = io.reading
        /\ io'.sync_timer = io.sync_timer /\ io'.timer = io.timer
    BY <1>1, <2>1 DEF State
  <2>3. Sound(io')
    BY <1>1, <2>2, SameQueue DEF Sound, Quiet, OneRead
  <2>4. Watched(io') /\ Hearing(io') /\ Scheduled(io') /\ AbortsHarmless(io')
    BY <1>1, <2>2, SameQueue DEF Watched, Hearing, Scheduled, AbortsHarmless
  <2> QED
    BY <1>1, <2>1, <2>3, <2>4, InvFromParts DEF Healthy
\* The other handlers that are posted complete no read.
<1>7. ASSUME NEW e \in Entry, NEW p, p = post(io, e), Frame(p, io'), UNCHANGED ok,
             e.h \notin Completions, io'.reading = io.reading,
             io'.sync_timer => io.sync_timer,
             io.sync_timer => io'.sync_timer \/ e.h = "sync_timeout",
             io.timer => io'.timer \/ e.h = "check_connection"
      PROVE  SessionInv'
  <2>1. e.h # "callback" /\ e.h # "callback_aborted"
    BY <1>7 DEF Completions
  <2>2. Ready(e)
    BY <1>2, <1>7
  <2>3. /\ \A h : Queued(io', h) <=> Queued(io, h) \/ e.h = h
        /\ Pending(io') <=> Pending(io)
        /\ OneCompletion(io) => OneCompletion(io')
        /\ TransfersBringUnits(io')
    BY <1>7, <2>1, <2>2, SameQueue DEF Ready
  <2>4. Sound(io')
    BY <1>1, <1>7, <2>3 DEF Sound, Quiet, OneRead
  <2>5. Watched(io') /\ Hearing(io') /\ Scheduled(io')
    BY <1>1, <1>7, <2>3 DEF Watched, Hearing, Scheduled
  <2>6. AbortsHarmless(io')
    BY <1>1, <1>7, <2>1, <2>3 DEF AbortsHarmless
  <2> QED
    BY <1>1, <1>7, <2>4, <2>5, <2>6, InvFromParts DEF Healthy
<1>8. ASSUME NEW h \in Handlers
      PROVE  /\ Handler(h) \in Entry /\ Handler(h).h = h
             /\ post(io, Handler(h)) \in State
             /\ SameButReady(io, post(io, Handler(h)))
  BY <1>2, HandlerIsEntry DEF Ready, Handler
<1>9. CASE WriteFails
  <2> DEFINE e == Handler("write_completion_cb")
             p == post(io, e)
  <2>1. e \in Entry /\ e.h = "write_completion_cb" /\ p \in State /\ SameButReady(io, p)
    BY <1>8 DEF Handlers
  <2>2. io' = [p EXCEPT !.writing = FALSE] /\ UNCHANGED ok
    BY <1>9 DEF WriteFails
  <2> HIDE DEF p
  <2>3. /\ Frame(p, io') /\ io'.reading = io.reading
        /\ io'.sync_timer = io.sync_timer /\ io'.timer = io.timer
    BY <2>1, <2>2 DEF State, SameButReady
  <2>4. e.h \notin Completions
    BY <2>1 DEF Completions
  <2> HIDE DEF e
  <2> QED
    BY <1>7, <2>1, <2>2, <2>3, <2>4 DEF p
<1>10. CASE SyncTimerExpires
  <2> DEFINE e == Handler("sync_timeout")
             p == post(io, e)
  <2>1. e \in Entry /\ e.h = "sync_timeout" /\ p \in State /\ SameButReady(io, p)
    BY <1>8 DEF Handlers
  <2>2. io' = [p EXCEPT !.sync_timer = FALSE] /\ UNCHANGED ok
    BY <1>10 DEF SyncTimerExpires
  <2> HIDE DEF p
  <2>3. /\ Frame(p, io') /\ io'.reading = io.reading
        /\ ~io'.sync_timer /\ io'.timer = io.timer
    BY <2>1, <2>2 DEF State, SameButReady
  <2>4. e.h \notin Completions
    BY <2>1 DEF Completions
  <2> HIDE DEF e
  <2> QED
    BY <1>7, <2>1, <2>2, <2>3, <2>4 DEF p
<1>11. CASE ConnectionTimerExpires
  <2> DEFINE e == Handler("check_connection")
             p == post(io, e)
  <2>1. e \in Entry /\ e.h = "check_connection" /\ p \in State /\ SameButReady(io, p)
    BY <1>8 DEF Handlers
  <2>2. io' = [p EXCEPT !.timer = FALSE] /\ UNCHANGED ok
    BY <1>11 DEF ConnectionTimerExpires
  <2> HIDE DEF p
  <2>3. /\ Frame(p, io') /\ io'.reading = io.reading
        /\ io'.sync_timer = io.sync_timer /\ ~io'.timer
    BY <2>1, <2>2 DEF State, SameButReady
  <2>4. e.h \notin Completions
    BY <2>1 DEF Completions
  <2> HIDE DEF e
  <2> QED
    BY <1>7, <2>1, <2>2, <2>3, <2>4 DEF p
<1>12. CASE RosMessage
  <2> DEFINE e == Handler("write_buffer")
             p == post(io, e)
  <2>1. e \in Entry /\ e.h = "write_buffer" /\ p \in State /\ SameButReady(io, p)
    BY <1>8 DEF Handlers
  <2>2. io' = p /\ UNCHANGED ok
    BY <1>12 DEF RosMessage
  <2> HIDE DEF p
  <2>3. /\ Frame(p, io') /\ io'.reading = io.reading
        /\ io'.sync_timer = io.sync_timer /\ io'.timer = io.timer
    BY <2>1, <2>2 DEF SameButReady
  <2>4. e.h \notin Completions
    BY <2>1 DEF Completions
  <2> HIDE DEF e
  <2> QED
    BY <1>7, <2>1, <2>2, <2>3, <2>4 DEF p
<1>13. CASE RosShutdown
  BY <1>1, <1>13, InvFromParts DEF RosShutdown, Healthy, Sound
<1> QED
  BY <1>4, <1>5, <1>6, <1>9, <1>10, <1>11, <1>12, <1>13 DEF Environment

-----------------------------------------------------------------------------
(* The invariant.                                                          *)

LEMMA InitSessionInv == Init => SessionInv
<1> SUFFICES ASSUME Init PROVE SessionInv
  OBVIOUS
<1>1. PICK link \in {"serial", "udp", "tcp"} :
        io = [link |-> link, active |-> FALSE, open |-> FALSE, callbacks |-> {},
              subscribers |-> FALSE, unrecognised |-> 0, sync_timer |-> FALSE, timer |-> FALSE,
              requested |-> "none", success |-> "read_sync_first", count |-> 0,
              abandoned |-> FALSE, buffered |-> 0, reading |-> FALSE, writing |-> FALSE,
              running |-> TRUE,
              ready |-> <<Handler(IF link = "tcp" THEN "handle_accept" ELSE "check_connection")>>]
  BY DEF Init
<1> DEFINE k == IF link = "tcp" THEN "handle_accept" ELSE "check_connection"
           e == Handler(k)
<1>2. /\ k \in Handlers /\ k \notin Completions
      /\ e \in Entry /\ e.h = k /\ io.ready = <<e>>
  BY <1>1, HandlerIsEntry DEF Handlers, Handler, Completions
<1>3. <<e>> \in Seq(Entry) /\ DOMAIN <<e>> = {1} /\ <<e>>[1] = e
  BY <1>2
<1>4. io \in State
  BY <1>1, <1>2, <1>3 DEF State, Entry, ReadHandlers
<1>5. DOMAIN io.ready = {1} /\ io.ready[1].h = k
  BY <1>2, <1>3
<1>6. ~Pending(io) /\ OneCompletion(io) /\ TransfersBringUnits(io)
  BY <1>2, <1>5 DEF Pending, OneCompletion, TransfersBringUnits, Completes, Completions
<1>7. Queued(io, k)
  BY <1>5 DEF Queued
<1>8. Scheduled(io)
  BY <1>1, <1>7 DEF Scheduled
<1>9. Sound(io) /\ ~io.active
  BY <1>1, <1>4, <1>6 DEF Sound, Quiet, OneRead
<1>10. Healthy(io) /\ ok \in BOOLEAN
  BY <1>9, StoppedIsHealthy DEF Init
<1> QED
  BY <1>8, <1>10 DEF Healthy, Sound, SessionInv, TypeOK, StoppedIsQuiet, WatchdogOn,
         ReconnectScheduled, NeverDeaf

LEMMA NextKeepsSessionInv == SessionInv /\ [Next]_vars => SessionInv'
<1> SUFFICES ASSUME SessionInv, [Next]_vars PROVE SessionInv'
  OBVIOUS
<1>1. CASE RunHandler
  BY <1>1, SyncTimeoutKeeps, CheckConnectionKeeps, SetOptionThrowsKeeps, UdpCheckConnectionKeeps,
     HandleAcceptKeeps, CallbackKeeps, CallbackErrorKeeps, ReadHandlersKeep,
     WriteHandlersKeep DEF RunHandler
<1>2. CASE Environment
  BY <1>2, EnvironmentKeeps
<1>3. CASE UNCHANGED vars
  BY <1>3 DEF vars, SessionInv, TypeOK, StoppedIsQuiet, WatchdogOn,
              ReconnectScheduled, NeverDeaf
<1> QED
  BY <1>1, <1>2, <1>3 DEF Next, Ended

(* Whatever the order in which completions, aborts, timer expiries and the  *)
(* handlers of ended sessions are queued, each handler of the io thread     *)
(* finds what it relies on: a quiet stopped session or a watched one that   *)
(* hears, one read on record for one completion, and check_connection()     *)
(* still to come.                                                           *)
THEOREM SessionInvariant == Spec => []SessionInv
  BY InitSessionInv, NextKeepsSessionInv, PTL DEF Spec

(* No order of handlers leaves an active session without a read under way   *)
(* or about to start: read_sync_header() is reached on every path through   *)
(* the read handlers, or the session stops.                                 *)
THEOREM NeverDeafAlways == Spec => []NeverDeaf
<1>1. SessionInv => NeverDeaf
  BY DEF SessionInv
<1> QED
  BY <1>1, SessionInvariant, PTL
=============================================================================

---------------------------- MODULE PythonProofs ----------------------------
(***************************************************************************)
(* The two Python programs.                                                *)
(*                                                                         *)
(* ClientInv is an invariant of SerialClient for any sketches, parameters  *)
(* and callers, any number of faults and restarts and lines of any length. *)
(* The proof follows the frames of three kinds of conversation through the *)
(* three lines up, queue and down: nearly every step leaves at most what   *)
(* was there (Fewer), and a few move the one frame there is (Moves).       *)
(*                                                                         *)
(* XbeeStreamsKept is an invariant of XbeeNetwork for any addresses, bytes *)
(* and number of threads.  One lemma, FrameByte, says what a receiver does *)
(* with the next byte of a frame, whether the byte is escaped or not; both *)
(* directions follow from it.                                              *)
(***************************************************************************)
EXTENDS SerialClient, XbeeNetwork, FiniteSetTheorems, SequenceTheorems, TLAPS

-----------------------------------------------------------------------------
(* Frames in a line.                                                       *)

LEMMA InFrames ==
  ASSUME NEW s \in Seq(Frames), NEW kinds
  PROVE  /\ \A f : f \in FramesIn(s, kinds) <=>
                     f[1] \in kinds /\ \E i \in DOMAIN s : s[i] = f
         /\ FramesIn(s, kinds) \subseteq Frames
  BY DEF FramesIn

\* Of these kinds, t holds nothing that s did not.
Fewer(s, t, kinds) ==
  /\ t \in Seq(Frames)
  /\ FramesIn(t, kinds) \subseteq FramesIn(s, kinds)
  /\ One(s, kinds) => One(t, kinds)

LEMMA FewerTransitive ==
  ASSUME NEW r, NEW s, NEW t, NEW kinds, Fewer(r, s, kinds), Fewer(s, t, kinds)
  PROVE  Fewer(r, t, kinds)
  BY DEF Fewer

LEMMA FewerSame ==
  ASSUME NEW s \in Seq(Frames), NEW kinds PROVE Fewer(s, s, kinds)
  BY DEF Fewer

LEMMA FewerEmpty == ASSUME NEW s, NEW kinds PROVE Fewer(s, <<>>, kinds)
  BY DEF Fewer, FramesIn, One

\* A part of a line that starts k places further back.
LEMMA FewerPart ==
  ASSUME NEW s \in Seq(Frames), NEW t \in Seq(Frames), NEW k \in Nat, NEW kinds,
         \A i \in DOMAIN t : i + k \in DOMAIN s /\ t[i] = s[i + k]
  PROVE  Fewer(s, t, kinds)
<1>1. FramesIn(t, kinds) \subseteq FramesIn(s, kinds)
  BY DEF FramesIn
<1>2. One(s, kinds) => One(t, kinds)
  <2> SUFFICES ASSUME One(s, kinds), NEW i \in DOMAIN t, NEW j \in DOMAIN t,
                      t[i][1] \in kinds, t[j][1] \in kinds
               PROVE  i = j
    BY DEF One
  <2>1. i + k = j + k
    BY DEF One
  <2> QED
    BY <2>1
<1> QED
  BY <1>1, <1>2 DEF Fewer

LEMMA FewerTail ==
  ASSUME NEW s \in Seq(Frames), s # <<>>, NEW kinds PROVE Fewer(s, Tail(s), kinds)
<1> DEFINE t == Tail(s)
<1>1. t \in Seq(Frames) /\ Len(s) \in Nat /\ Len(t) = Len(s) - 1
      /\ \A i \in 1 .. Len(t) : t[i] = s[i + 1]
  BY HeadTailProperties
<1>2. DOMAIN t = 1 .. Len(t) /\ DOMAIN s = 1 .. Len(s)
  BY <1>1
<1> HIDE DEF t
<1>3. \A i \in DOMAIN t : i + 1 \in DOMAIN s /\ t[i] = s[i + 1]
  BY <1>1, <1>2
<1>4. Fewer(s, t, kinds)
  BY <1>1, <1>3, FewerPart
<1> QED
  BY <1>4 DEF t

LEMMA FewerSuffix ==
  ASSUME NEW s \in Seq(Frames), NEW k \in Nat, k <= Len(s), NEW kinds
  PROVE  Fewer(s, SubSeq(s, k + 1, Len(s)), kinds)
<1> DEFINE n == Len(s)
           t == SubSeq(s, k + 1, n)
<1>1. n \in Nat /\ DOMAIN s = 1 .. n /\ \A i \in 1 .. n : s[i] \in Frames
  OBVIOUS
<1>2. \A i \in k + 1 .. n : s[i] \in Frames
  BY <1>1
<1>k. k <= n /\ n \in Nat
  OBVIOUS
<1> HIDE DEF n
<1>3. t \in Seq(Frames) /\ Len(t) = IF k + 1 <= n THEN n - (k + 1) + 1 ELSE 0
  BY <1>1, <1>2, SubSeqProperties
<1>4. \A i \in 1 .. n - (k + 1) + 1 : t[i] = s[k + 1 + i - 1]
  BY <1>1, <1>2, SubSeqProperties
<1>5. DOMAIN t = 1 .. Len(t)
  BY <1>3
<1> HIDE DEF t
<1>6. Len(t) = n - k
  <2>1. CASE k + 1 <= n
    BY <1>3, <1>k, <2>1
  <2>2. CASE ~(k + 1 <= n)
    <3>1. n = k
      BY <1>k, <2>2
    <3>2. Len(t) = 0
      BY <1>3, <2>2
    <3> QED
      BY <3>1, <3>2, <1>k
  <2> QED
    BY <2>1, <2>2
<1>7. \A i \in DOMAIN t : /\ i + k \in DOMAIN s /\ k + 1 + i - 1 = i + k
                           /\ i \in 1 .. n - (k + 1) + 1
  BY <1>1, <1>5, <1>6
<1>8. \A i \in DOMAIN t : i + k \in DOMAIN s /\ t[i] = s[i + k]
  BY <1>4, <1>7
<1>9. Fewer(s, t, kinds)
  BY <1>3, <1>8, FewerPart
<1> QED
  BY <1>9 DEF t, n

LEMMA FewerPrefix ==
  ASSUME NEW s \in Seq(Frames), NEW k \in {0, Len(s)}, NEW kinds
  PROVE  Fewer(s, SubSeq(s, 1, k), kinds)
<1>1. CASE k = 0
  <2>1. SubSeq(s, 1, 0) = <<>>
    BY SubSeqEmpty
  <2> QED
    BY <1>1, <2>1, FewerEmpty
<1>2. CASE k = Len(s)
  <2>1. SubSeq(s, 1, Len(s)) = s
    BY SubSeqFull
  <2> QED
    BY <1>2, <2>1, FewerSame
<1> QED
  BY <1>1, <1>2

LEMMA AppendFrame ==
  ASSUME NEW s \in Seq(Frames), NEW f \in Frames, NEW kinds
  PROVE  /\ Append(s, f) \in Seq(Frames)
         /\ f[1] \notin kinds => Fewer(s, Append(s, f), kinds)
         /\ f[1] \in kinds /\ FramesIn(s, kinds) = {} =>
              One(Append(s, f), kinds) /\ FramesIn(Append(s, f), kinds) = {f}
<1> DEFINE t == Append(s, f)
           n == Len(s) + 1
<1>1. /\ t \in Seq(Frames) /\ DOMAIN s = 1 .. Len(s) /\ Len(s) \in Nat
      /\ DOMAIN t = 1 .. n /\ t[n] = f /\ \A i \in DOMAIN s : t[i] = s[i] /\ i # n
  BY AppendProperties
<1> HIDE DEF t
<1>2. DOMAIN t = DOMAIN s \cup {n}
  BY <1>1
<1> HIDE DEF n
<1>3. f[1] \notin kinds => Fewer(s, t, kinds)
  <2> SUFFICES ASSUME f[1] \notin kinds PROVE Fewer(s, t, kinds)
    OBVIOUS
  <2>1. \A i \in DOMAIN t : t[i][1] \in kinds => i \in DOMAIN s /\ t[i] = s[i]
    BY <1>1, <1>2
  <2> QED
    BY <1>1, <2>1 DEF Fewer, FramesIn, One
<1>4. f[1] \in kinds /\ FramesIn(s, kinds) = {} => One(t, kinds) /\ FramesIn(t, kinds) = {f}
  <2> SUFFICES ASSUME f[1] \in kinds, FramesIn(s, kinds) = {}
               PROVE  One(t, kinds) /\ FramesIn(t, kinds) = {f}
    OBVIOUS
  <2>1. \A i \in DOMAIN s : s[i][1] \notin kinds
    BY DEF FramesIn
  <2>2. \A i \in DOMAIN t : t[i][1] \in kinds <=> i = n
    BY <1>1, <1>2, <2>1
  <2>3. One(t, kinds)
    BY <2>2 DEF One
  <2>4. n \in DOMAIN t
    BY <1>2
  <2>5. {j \in DOMAIN t : t[j][1] \in kinds} = {n}
    BY <2>2, <2>4
  <2> QED
    BY <1>1, <2>3, <2>5 DEF FramesIn
<1> QED
  BY <1>1, <1>3, <1>4 DEF t

LEMMA HeadFrame ==
  ASSUME NEW s \in Seq(Frames), s # <<>>, NEW kinds
  PROVE  /\ Head(s) \in Frames /\ Tail(s) \in Seq(Frames)
         /\ Head(s)[1] \in kinds => Head(s) \in FramesIn(s, kinds)
         /\ Head(s)[1] \in kinds /\ One(s, kinds) => FramesIn(Tail(s), kinds) = {}
<1> DEFINE t == Tail(s)
<1>1. Head(s) \in Frames /\ t \in Seq(Frames) /\ Len(s) \in Nat /\ Len(t) = Len(s) - 1
      /\ \A i \in 1 .. Len(t) : t[i] = s[i + 1]
  BY HeadTailProperties
<1>2. DOMAIN t = 1 .. Len(t) /\ DOMAIN s = 1 .. Len(s) /\ s[1] = Head(s) /\ Len(s) > 0
  BY <1>1
<1> HIDE DEF t
<1>3. 1 \in DOMAIN s /\ \A i \in DOMAIN t : i + 1 \in DOMAIN s /\ i + 1 # 1 /\ t[i] = s[i + 1]
  BY <1>1, <1>2
<1>4. Head(s)[1] \in kinds => Head(s) \in FramesIn(s, kinds)
  BY <1>2, <1>3 DEF FramesIn
<1>5. Head(s)[1] \in kinds /\ One(s, kinds) => FramesIn(t, kinds) = {}
  BY <1>2, <1>3 DEF FramesIn, One
<1> QED
  BY <1>1, <1>4, <1>5 DEF t

LEMMA FewerConcat ==
  ASSUME NEW s \in Seq(Frames), NEW r \in Seq(Frames), NEW kinds,
         \A i \in DOMAIN r : r[i][1] \notin kinds
  PROVE  Fewer(s, s \o r, kinds)
<1> DEFINE t == s \o r
<1>1. /\ t \in Seq(Frames) /\ Len(s) \in Nat /\ Len(r) \in Nat
      /\ DOMAIN s = 1 .. Len(s) /\ DOMAIN r = 1 .. Len(r) /\ DOMAIN t = 1 .. Len(s) + Len(r)
      /\ \A i \in 1 .. Len(s) + Len(r) : t[i] = IF i <= Len(s) THEN s[i] ELSE r[i - Len(s)]
  BY ConcatProperties
<1> HIDE DEF t
<1>2. \A i \in DOMAIN t : t[i][1] \in kinds => i \in DOMAIN s /\ t[i] = s[i]
  <2> SUFFICES ASSUME NEW i \in DOMAIN t, i > Len(s) PROVE t[i][1] \notin kinds
    BY <1>1
  <2>1. i - Len(s) \in DOMAIN r /\ t[i] = r[i - Len(s)]
    BY <1>1
  <2> QED
    BY <2>1
<1>3. Fewer(s, t, kinds)
  BY <1>1, <1>2 DEF Fewer, FramesIn, One
<1> QED
  BY <1>3 DEF t

-----------------------------------------------------------------------------
(* The three lines together.                                               *)

Apart(a, b, kinds) == FramesIn(a, kinds) = {} \/ FramesIn(b, kinds) = {}

Sole3(a, b, c, kinds) ==
  /\ One(a, kinds) /\ One(b, kinds) /\ One(c, kinds)
  /\ Apart(a, b, kinds) /\ Apart(a, c, kinds) /\ Apart(b, c, kinds)

All3(a, b, c, kinds) == FramesIn(a, kinds) \cup FramesIn(b, kinds) \cup FramesIn(c, kinds)

LEMMA SoleIsSole3 ==
  ASSUME NEW kinds
  PROVE  /\ Sole(kinds) <=> Sole3(up, queue, down, kinds)
         /\ Sole(kinds)' <=> Sole3(up', queue', down', kinds)
         /\ InTransit(kinds) = All3(up, queue, down, kinds)
         /\ InTransit(kinds)' = All3(up', queue', down', kinds)
  BY DEF Sole, Sole3, Apart, InTransit, All3

LEMMA Sole3Turns ==
  ASSUME NEW a, NEW b, NEW c, NEW kinds
  PROVE  /\ Sole3(a, b, c, kinds) <=> Sole3(b, c, a, kinds)
         /\ All3(a, b, c, kinds) = All3(b, c, a, kinds)
  BY DEF Sole3, Apart, All3

\* The frame at the head of one line is taken, and g put at the end of another.
LEMMA Moves ==
  ASSUME NEW a \in Seq(Frames), NEW b \in Seq(Frames), NEW c \in Seq(Frames), NEW kinds,
         Sole3(a, b, c, kinds), a # <<>>, Head(a)[1] \in kinds,
         NEW g \in Frames, g[1] \in kinds
  PROVE  /\ Sole3(Tail(a), Append(b, g), c, kinds)
         /\ All3(Tail(a), Append(b, g), c, kinds) = {g}
         /\ Head(a) \in All3(a, b, c, kinds)
<1>1. Head(a) \in FramesIn(a, kinds) /\ FramesIn(Tail(a), kinds) = {}
  BY HeadFrame DEF Sole3
<1>2. FramesIn(b, kinds) = {} /\ FramesIn(c, kinds) = {}
  BY <1>1 DEF Sole3, Apart
<1>3. One(Append(b, g), kinds) /\ FramesIn(Append(b, g), kinds) = {g}
  BY <1>2, AppendFrame
<1>4. One(Tail(a), kinds)
  BY FewerTail DEF Fewer, Sole3
<1> QED
  BY <1>1, <1>2, <1>3, <1>4 DEF Sole3, Apart, All3

\* A first frame.
LEMMA Starts ==
  ASSUME NEW a \in Seq(Frames), NEW b \in Seq(Frames), NEW c \in Seq(Frames), NEW kinds,
         Sole3(a, b, c, kinds), All3(a, b, c, kinds) = {},
         NEW g \in Frames, g[1] \in kinds
  PROVE  /\ Sole3(Append(a, g), b, c, kinds)
         /\ All3(Append(a, g), b, c, kinds) = {g}
<1>1. FramesIn(a, kinds) = {} /\ FramesIn(b, kinds) = {} /\ FramesIn(c, kinds) = {}
  BY DEF All3
<1>2. One(Append(a, g), kinds) /\ FramesIn(Append(a, g), kinds) = {g}
  BY <1>1, AppendFrame
<1> QED
  BY <1>1, <1>2 DEF Sole3, Apart, All3

Lines == up \in Seq(Frames) /\ queue \in Seq(Frames) /\ down \in Seq(Frames)

\* A step after which no more frames of these kinds are on their way.
Quiet(kinds) ==
  Fewer(up, up', kinds) /\ Fewer(queue, queue', kinds) /\ Fewer(down, down', kinds)
Kept(kinds) == Sole(kinds) => Sole(kinds)' /\ InTransit(kinds)' \subseteq InTransit(kinds)

LEMMA QuietKeeps == ASSUME NEW kinds, Quiet(kinds) PROVE Kept(kinds)
  BY DEF Quiet, Kept, Fewer, Sole, InTransit

\* What the sketch's requests for parameters depend on stays as it is.
ParamsKept ==
  /\ dev'.timedOut = dev.timedOut /\ dev'.nestedParams = dev.nestedParams
  /\ dev'.mixups = dev.mixups
  /\ dev'.received = dev.received /\ dev'.value = dev.value
  /\ \A i : Requests(i)' => Requests(i)
  /\ \A i : Requests(i) => Requests(i)' /\ dev'.stack[i].asked = dev.stack[i].asked

LEMMA ParamStep ==
  ASSUME Kept(ParamKinds), ParamsOnTheirWay, ParamMismatchNeedsTimeout, ParamsKept
  PROVE  ParamsOnTheirWay' /\ ParamMismatchNeedsTimeout'
<1>1. ParamMismatchNeedsTimeout'
  BY DEF ParamMismatchNeedsTimeout, ParamsKept
<1>2. ASSUME ~dev.timedOut, ~dev.nestedParams
      PROVE  /\ Sole(ParamKinds)'
             /\ \A f \in InTransit(ParamKinds)' :
                  ~dev'.received /\ \E i : Requests(i)'
             /\ \A i, j : Requests(i)' /\ Requests(j)' => i = j
             /\ \A i : Requests(i)' =>
                  /\ \A f \in InTransit(ParamKinds)' : f[2] = dev'.stack[i].asked
                  /\ dev'.received => dev'.value = dev'.stack[i].asked
  <2>1. /\ Sole(ParamKinds)
        /\ \A f \in InTransit(ParamKinds) : ~dev.received /\ \E i : Requests(i)
        /\ \A i, j : Requests(i) /\ Requests(j) => i = j
        /\ \A i : Requests(i) =>
             /\ \A f \in InTransit(ParamKinds) : f[2] = dev.stack[i].asked
             /\ dev.received => dev.value = dev.stack[i].asked
    BY <1>2 DEF ParamsOnTheirWay, Requests
  <2>2. Sole(ParamKinds)' /\ InTransit(ParamKinds)' \subseteq InTransit(ParamKinds)
    BY <2>1 DEF Kept
  <2> QED
    BY <2>1, <2>2 DEF ParamsKept
<1>3. \A i : Requests(i)' => i \in (DOMAIN dev.stack)'
  BY DEF Requests
<1>4. ParamsOnTheirWay'
  BY <1>2, <1>3 DEF ParamsOnTheirWay, ParamsKept
<1> QED
  BY <1>1, <1>4

\* No call begins or gets an answer.
CallsKept ==
  /\ dev.brokenOff => dev'.brokenOff
  /\ dev'.nestedCalls = dev.nestedCalls /\ dev'.strayWrite = dev.strayWrite
  /\ dev.ret # 0 /\ dev.waiting => dev'.brokenOff \/ (dev'.ret # 0 /\ dev'.waiting)
  /\ RetOnStack'

LEMMA CallStep ==
  ASSUME Kept(CallKinds), CallsOnTheirWay, StrayAnswerNeedsBreak, CallsKept
  PROVE  RetOnStack' /\ CallsOnTheirWay' /\ StrayAnswerNeedsBreak'
<1>1. StrayAnswerNeedsBreak'
  BY DEF StrayAnswerNeedsBreak, CallsKept
<1>2. CallsOnTheirWay'
  BY DEF CallsOnTheirWay, Kept, CallsKept
<1> QED
  BY <1>1, <1>2 DEF CallsKept

\* The parts of ClientInv that speak of the sketch's own questions.
QuestionInv ==
  /\ ParamsOnTheirWay /\ ParamMismatchNeedsTimeout
  /\ RetOnStack /\ CallsOnTheirWay /\ StrayAnswerNeedsBreak

LEMMA DeviceAsideStep ==
  ASSUME ClientInv, UNCHANGED dev, Kept(ParamKinds), Kept(CallKinds)
  PROVE  QuestionInv'
<1>1. ParamsKept
  BY DEF ParamsKept, Requests
<1>2. CallsKept
  BY DEF CallsKept, ClientInv, RetOnStack
<1> QED
  BY <1>1, <1>2, ParamStep, CallStep DEF ClientInv, QuestionInv

RequestInv ==
  RequestsOnTheirWay /\ MixupNeedsOverlap /\ IdleIsAlone /\ ExitedIsOver /\ ResponseHasServer

LEMMA RequestStep ==
  ASSUME Kept(RequestKinds), RequestInv, UNCHANGED <<callers, response>>,
         client'.run = "exited" <=> client.run = "exited",
         client.run = "exited" => ros'.served = ros.served,
         client.services \subseteq client'.services,
         "response" \in client'.callbacks =>
           "response" \in client.callbacks \/ "server" \in client'.services
  PROVE  RequestInv'
<1>1. RequestsOnTheirWay'
  BY DEF RequestInv, RequestsOnTheirWay, Kept, NoOverlap, Waits
<1>2. MixupNeedsOverlap'
  BY DEF RequestInv, MixupNeedsOverlap
<1>3. IdleIsAlone' /\ ExitedIsOver' /\ ResponseHasServer'
  BY DEF RequestInv, IdleIsAlone, ExitedIsOver, ResponseHasServer
<1> QED
  BY <1>1, <1>2, <1>3 DEF RequestInv

-----------------------------------------------------------------------------
(* What the frames carry.                                                  *)

PlainKinds == {"topics", "time", "stop", "log", "data", "call", "answer", "message", "large"}

LEMMA FrameMade ==
  /\ \A kind \in PlainKinds : <<kind>> \in Frames /\ <<kind>>[1] = kind
  /\ \A p \in Params : /\ <<"param", p>> \in Frames /\ <<"value", p>> \in Frames
                       /\ <<"param", p>>[1] = "param" /\ <<"value", p>>[1] = "value"
                       /\ <<"param", p>>[2] = p /\ <<"value", p>>[2] = p
  /\ \A c \in Callers : /\ <<"request", c>> \in Frames /\ <<"response", c>> \in Frames
                        /\ <<"request", c>>[1] = "request" /\ <<"response", c>>[1] = "response"
                        /\ <<"request", c>>[2] = c /\ <<"response", c>>[2] = c
<1>1. \A kind \in PlainKinds : <<kind>> \in Frames /\ <<kind>>[1] = kind
  BY DEF Frames, PlainKinds
<1>2. \A p \in Params : /\ <<"param", p>> \in Frames /\ <<"value", p>> \in Frames
                        /\ <<"param", p>>[1] = "param" /\ <<"value", p>>[1] = "value"
                        /\ <<"param", p>>[2] = p /\ <<"value", p>>[2] = p
  BY DEF Frames
<1>3. \A c \in Callers : /\ <<"request", c>> \in Frames /\ <<"response", c>> \in Frames
                         /\ <<"request", c>>[1] = "request" /\ <<"response", c>>[1] = "response"
                         /\ <<"request", c>>[2] = c /\ <<"response", c>>[2] = c
  BY DEF Frames
<1> QED
  BY <1>1, <1>2, <1>3

LEMMA FrameTaken ==
  ASSUME NEW f \in Frames
  PROVE  /\ f[1] \in ParamKinds => f[2] \in Params
         /\ f[1] \in RequestKinds => f[2] \in Callers
<1>1. CASE \E kind \in PlainKinds : f = <<kind>>
  BY <1>1 DEF PlainKinds, ParamKinds, RequestKinds
<1>2. CASE \E kind \in {"param", "value"}, p \in Params : f = <<kind, p>>
  BY <1>2 DEF RequestKinds
<1>3. CASE \E kind \in {"request", "response"}, c \in Callers : f = <<kind, c>>
  BY <1>3 DEF ParamKinds
<1>4. CASE \E e \in Entities, half \in {"pub", "sub"} : f = <<"info", e, half>>
  BY <1>4 DEF ParamKinds, RequestKinds
<1> QED
  BY <1>1, <1>2, <1>3, <1>4 DEF Frames, PlainKinds

-----------------------------------------------------------------------------
(* The steps of the client that leave the device and the callers alone.    *)

LEMMA FlushedFewer ==
  ASSUME NEW s \in Seq(Frames), NEW t \in Flushed(s), NEW kinds
  PROVE  Fewer(s, t, kinds)
<1>1. PICK k \in IF ros.port = "tcp" THEN {0} ELSE 0 .. Len(s) : t = SubSeq(s, k + 1, Len(s))
  BY DEF Flushed
<1>2. Len(s) \in Nat
  OBVIOUS
<1>3. k \in Nat /\ k <= Len(s)
  BY <1>2
<1> QED
  BY <1>1, <1>3, FewerSuffix

LEMMA PutFewer ==
  ASSUME queue \in Seq(Frames), NEW f \in Frames, Put(f), NEW kinds, f[1] \notin kinds
  PROVE  Fewer(queue, queue', kinds)
  BY AppendFrame DEF Put

LEMMA ConsumeFewer ==
  ASSUME up \in Seq(Frames), up # <<>>, Consume, NEW kinds
  PROVE  Fewer(up, up', kinds)
  BY FewerTail DEF Consume

LEMMA SameFewer ==
  ASSUME Lines, NEW kinds
  PROVE  /\ UNCHANGED up => Fewer(up, up', kinds)
         /\ UNCHANGED queue => Fewer(queue, queue', kinds)
         /\ UNCHANGED down => Fewer(down, down', kinds)
  BY FewerSame DEF Lines

\* A step of the client with its reading thread alive, or of its environment,
\* that changes nothing on the device and no call.
Aside ==
  /\ UNCHANGED <<dev, callers, response>>
  /\ client'.run = "exited" <=> client.run = "exited"
  /\ client.run = "exited" => ros'.served = ros.served
  /\ client.services \subseteq client'.services
  /\ "response" \in client'.callbacks =>
       "response" \in client.callbacks \/ "server" \in client'.services
  /\ client' \in ClientStates /\ ros' \in RosStates

LEMMA LinesOfClient == ASSUME ClientInv PROVE Lines
  BY DEF ClientInv, TypeOK, Lines

LEMMA AsideStep ==
  ASSUME ClientInv, Aside, up' \in Seq(Frames), queue' \in Seq(Frames), down' \in Seq(Frames),
         Kept(ParamKinds), Kept(CallKinds), Kept(RequestKinds)
  PROVE  ClientInv'
<1>1. TypeOK'
  BY DEF ClientInv, TypeOK, Aside
<1>2. QuestionInv'
  BY DeviceAsideStep DEF Aside
<1>4. RequestInv'
  BY RequestStep DEF ClientInv, RequestInv, Aside
<1> QED
  BY <1>1, <1>2, <1>4 DEF ClientInv, QuestionInv, RequestInv

LEMMA QuietAsideStep ==
  ASSUME ClientInv, Aside, Quiet(ParamKinds), Quiet(CallKinds), Quiet(RequestKinds)
  PROVE  ClientInv'
  BY AsideStep, QuietKeeps DEF Quiet, Fewer

\* A packet is taken from up, and nothing else sent.
LEMMA ConsumeStep ==
  ASSUME ClientInv, Aside, up # <<>>, Consume, UNCHANGED <<queue, down>>
  PROVE  ClientInv'
<1>1. Lines
  BY LinesOfClient
<1>2. ASSUME NEW kinds PROVE Quiet(kinds)
  BY <1>1, ConsumeFewer, SameFewer DEF Quiet, Lines
<1> QED
  BY <1>2, QuietAsideStep

\* up loses frames, and the client asks for the topics, answers with the time
\* or asks the device to stop.
LEMMA PlainPutStep ==
  ASSUME ClientInv, Aside, NEW kind \in PlainKinds \ {"call", "answer"}, Put(<<kind>>),
         \A kinds : Fewer(up, up', kinds), \A kinds : Fewer(down, down', kinds)
  PROVE  ClientInv'
<1>1. Lines
  BY LinesOfClient
<1>2. <<kind>> \in Frames /\ <<kind>>[1] = kind
  BY FrameMade
<1>3. kind \notin ParamKinds /\ kind \notin CallKinds /\ kind \notin RequestKinds
  BY DEF PlainKinds, ParamKinds, CallKinds, RequestKinds
<1>4. ASSUME NEW kinds, kind \notin kinds PROVE Quiet(kinds)
  BY <1>1, <1>2, <1>4, PutFewer DEF Quiet, Lines
<1> QED
  BY <1>3, <1>4, QuietAsideStep

LEMMA SetupSteps ==
  ASSUME ClientInv,
         \/ setupPublisher \/ setupSubscriber
         \/ setupServiceServerPublisher \/ setupServiceServerSubscriber
         \/ setupServiceClientPublisher \/ setupServiceClientSubscriber
  PROVE  ClientInv'
<1>1. client \in ClientStates /\ ros \in RosStates
  BY DEF ClientInv, TypeOK
<1>2. CASE setupPublisher
  <2>1. Aside
    BY <1>1, <1>2 DEF setupPublisher, Reads, Same, devVars, Aside, ClientStates
  <2> QED
    BY <1>2, <2>1, ConsumeStep DEF setupPublisher, Reads, Same
<1>3. CASE setupSubscriber
  <2>1. Aside
    BY <1>1, <1>3 DEF setupSubscriber, Reads, Same, devVars, Aside, ClientStates
  <2> QED
    BY <1>3, <2>1, ConsumeStep DEF setupSubscriber, Reads, Same
<1>4. ASSUME NEW half \in {"pub", "sub"}, setupServiceServer(half) PROVE ClientInv'
  <2>1. Reads("info") /\ Consume /\ Same /\ UNCHANGED <<queue, callers, response>>
    BY <1>4 DEF setupServiceServer
  <2>2. ros' \in RosStates
    BY <1>1, <1>4 DEF setupServiceServer, RosStates
  <2>3. CASE client' = client
    BY <1>1, <2>1, <2>2, <2>3, ConsumeStep DEF Reads, Same, devVars, Aside
  <2>4. CASE client' = [client EXCEPT
               !.services = @ \cup {"server"},
               !.callbacks = @ \cup (IF half = "pub" THEN {"response"} ELSE {}),
               !.ids = @ \cup (IF half = "sub" THEN {"server"} ELSE {})]
    <3>1. Aside
      BY <1>1, <2>1, <2>2, <2>4 DEF Reads, Same, devVars, Aside, ClientStates
    <3> QED
      BY <2>1, <3>1, ConsumeStep DEF Reads, Same
  <2> QED
    BY <1>4, <2>3, <2>4 DEF setupServiceServer
<1>5. ASSUME NEW half \in {"pub", "sub"}, setupServiceClient(half) PROVE ClientInv'
  <2>1. Aside
    BY <1>1, <1>5 DEF setupServiceClient, Reads, Same, devVars, Aside, ClientStates
  <2> QED
    BY <1>5, <2>1, ConsumeStep DEF setupServiceClient, Reads, Same
<1> QED
  BY <1>2, <1>3, <1>4, <1>5
  DEF setupServiceServerPublisher, setupServiceServerSubscriber,
      setupServiceClientPublisher, setupServiceClientSubscriber

LEMMA PlainSteps ==
  ASSUME ClientInv,
         \/ handleTimeRequest \/ handleLoggingRequest \/ NotConfigured
         \/ Publisher_handlePacket \/ SyncLost \/ ReadFails \/ txStopRequest
         \/ Subscriber_callback
  PROVE  ClientInv'
<1>1. client \in ClientStates /\ ros \in RosStates /\ Lines
  BY LinesOfClient DEF ClientInv, TypeOK
<1>2. up # <<>> /\ Consume => \A kinds : Fewer(up, up', kinds)
  BY <1>1, ConsumeFewer DEF Lines
<1>3. UNCHANGED down => \A kinds : Fewer(down, down', kinds)
  BY <1>1, SameFewer
<1>4. ASSUME UNCHANGED <<dev, callers, response, client>>, UNCHANGED ros PROVE Aside
  BY <1>1, <1>4 DEF Aside
<1>5. CASE handleTimeRequest
  <2>1. "time" \in PlainKinds \ {"call", "answer"}
    BY DEF PlainKinds
  <2> QED
    BY <1>2, <1>3, <1>4, <1>5, <2>1, PlainPutStep DEF handleTimeRequest, Reads, Same, devVars
<1>6. CASE handleLoggingRequest \/ Publisher_handlePacket
  BY <1>4, <1>6, ConsumeStep
  DEF handleLoggingRequest, Publisher_handlePacket, Reads, Same, devVars, clientVars
<1>7. ASSUME NEW s \in Seq(Frames), \A kinds : Fewer(up, s, kinds), requestTopics(s)
      PROVE  /\ Put(<<"topics">>) /\ \A kinds : Fewer(up, up', kinds)
             /\ "topics" \in PlainKinds \ {"call", "answer"}
  BY <1>7, FlushedFewer, FewerTransitive DEF requestTopics, PlainKinds
<1>8. up # <<>> => Tail(up) \in Seq(Frames) /\ \A kinds : Fewer(up, Tail(up), kinds)
  BY <1>1, FewerTail DEF Fewer, Lines
<1>9. CASE NotConfigured
  <2>1. up # <<>>
    BY <1>9 DEF NotConfigured, Reads
  <2> QED
    BY <1>3, <1>4, <1>7, <1>8, <1>9, <2>1, PlainPutStep DEF NotConfigured, Same, devVars
<1>10. CASE SyncLost
  BY <1>1, <1>3, <1>4, <1>7, <1>10, FewerSame, PlainPutStep DEF SyncLost, devVars, Lines
<1>11. CASE ReadFails
  <2>1. \A kinds : Fewer(down, down', kinds)
    BY <1>1, <1>11, FewerPrefix DEF ReadFails, Lines
  <2> QED
    BY <1>4, <1>7, <1>8, <1>11, <2>1, PlainPutStep DEF ReadFails, devVars
<1>12. CASE txStopRequest
  <2>1. "stop" \in PlainKinds \ {"call", "answer"}
    BY DEF PlainKinds
  <2>2. ros' \in RosStates
    BY <1>1, <1>12 DEF txStopRequest, RosStates
  <2>3. Aside
    BY <1>1, <1>12, <2>2 DEF txStopRequest, Aside, devVars
  <2>4. \A kinds : Fewer(up, up', kinds)
    BY <1>1, <1>12, FlushedFewer DEF txStopRequest, Lines
  <2> QED
    BY <1>3, <1>12, <2>1, <2>3, <2>4, PlainPutStep DEF txStopRequest
<1>13. CASE Subscriber_callback
  <2>1. {"message", "large"} \subseteq PlainKinds \ {"call", "answer"}
    BY DEF PlainKinds
  <2>2. \A kinds : Fewer(up, up', kinds)
    BY <1>1, <1>13, SameFewer DEF Subscriber_callback
  <2> QED
    BY <1>3, <1>4, <1>13, <2>1, <2>2, PlainPutStep DEF Subscriber_callback, devVars
<1> QED
  BY <1>5, <1>6, <1>9, <1>10, <1>11, <1>12, <1>13

LEMMA LossSteps ==
  ASSUME ClientInv, RunEnds \/ Disconnects \/ ServiceAppears \/ FrameLost
  PROVE  ClientInv'
<1>1. client \in ClientStates /\ ros \in RosStates /\ Lines
  BY LinesOfClient DEF ClientInv, TypeOK
<1>2. CASE RunEnds
  <2>1. Aside
    BY <1>1, <1>2 DEF RunEnds, Leaves, Aside, devVars, ClientStates
  <2>2. ASSUME NEW kinds PROVE Quiet(kinds)
    BY <1>1, <1>2, SameFewer DEF RunEnds, Quiet
  <2> QED
    BY <2>1, <2>2, QuietAsideStep
<1>3. CASE Disconnects
  <2>1. Aside
    BY <1>1, <1>3 DEF Disconnects, Leaves, Aside, devVars, ClientStates
  <2>2. ASSUME NEW kinds PROVE Quiet(kinds)
    BY <1>1, <1>3, SameFewer, FewerEmpty DEF Disconnects, Quiet
  <2> QED
    BY <2>1, <2>2, QuietAsideStep
<1>4. CASE ServiceAppears
  <2>1. ros' \in RosStates
    BY <1>1, <1>4 DEF ServiceAppears, RosStates
  <2>2. Aside
    BY <1>1, <1>4, <2>1 DEF ServiceAppears, Aside, devVars
  <2>3. ASSUME NEW kinds PROVE Quiet(kinds)
    BY <1>1, <1>4, SameFewer DEF ServiceAppears, Quiet
  <2> QED
    BY <2>2, <2>3, QuietAsideStep
<1>5. CASE FrameLost
  <2>1. Aside
    BY <1>1, <1>5 DEF FrameLost, Aside, devVars, clientVars
  <2>2. ASSUME NEW kinds PROVE Quiet(kinds)
    BY <1>1, <1>5, SameFewer, FewerTail DEF FrameLost, Quiet, Lines, clientVars
  <2> QED
    BY <2>1, <2>2, QuietAsideStep
<1> QED
  BY <1>2, <1>3, <1>4, <1>5

\* The writing thread moves the head of the queue to the device's line.
LEMMA WriteStep == ASSUME ClientInv, processWriteQueue PROVE ClientInv'
<1>1. client \in ClientStates /\ ros \in RosStates /\ Lines
  BY LinesOfClient DEF ClientInv, TypeOK
<1>2. CASE Head(queue) = <<"large">>
  <2>1. Aside
    BY <1>1, <1>2 DEF processWriteQueue, Aside, devVars, ClientStates
  <2>2. ASSUME NEW kinds PROVE Quiet(kinds)
    BY <1>1, <1>2, SameFewer, FewerTail DEF processWriteQueue, Quiet, Lines
  <2> QED
    BY <2>1, <2>2, QuietAsideStep
<1>3. CASE Head(queue) # <<"large">>
  <2> DEFINE g == Head(queue)
  <2>1. /\ queue # <<>> /\ queue' = Tail(queue) /\ down' = Append(down, g) /\ UNCHANGED up
        /\ UNCHANGED <<dev, callers, response, client, ros>>
    BY <1>3 DEF processWriteQueue, devVars
  <2>2. Aside
    BY <1>1, <2>1 DEF Aside
  <2>3. g \in Frames
    BY <1>1, <2>1, HeadFrame DEF Lines
  <2> HIDE DEF g
  <2>4. up' \in Seq(Frames) /\ queue' \in Seq(Frames) /\ down' \in Seq(Frames)
    BY <1>1, <2>1, <2>3, HeadFrame, AppendFrame DEF Lines
  <2>5. ASSUME NEW kinds PROVE Kept(kinds)
    <3>1. CASE g[1] \in kinds
      <4> SUFFICES ASSUME Sole(kinds)
                   PROVE  Sole(kinds)' /\ InTransit(kinds)' \subseteq InTransit(kinds)
        BY DEF Kept
      <4>1. Sole3(queue, down, up, kinds)
        BY SoleIsSole3, Sole3Turns
      <4>2. /\ Sole3(queue', down', up', kinds) /\ All3(queue', down', up', kinds) = {g}
            /\ g \in All3(queue, down, up, kinds)
        BY <1>1, <2>1, <2>3, <3>1, <4>1, Moves DEF Lines, g
      <4>3. /\ Sole3(up', queue', down', kinds) /\ All3(up', queue', down', kinds) = {g}
            /\ g \in All3(up, queue, down, kinds)
        BY <4>2, Sole3Turns
      <4> QED
        BY <4>3, SoleIsSole3
    <3>2. CASE g[1] \notin kinds
      <4>1. Quiet(kinds)
        BY <1>1, <2>1, <2>3, <3>2, FewerTail, AppendFrame, SameFewer DEF Quiet, Lines
      <4> QED
        BY <4>1, QuietKeeps
    <3> QED
      BY <3>1, <3>2
  <2> QED
    BY <2>2, <2>4, <2>5, AsideStep
<1> QED
  BY <1>2, <1>3

\* The request for a parameter becomes its value, under the same name.
LEMMA ParameterStep == ASSUME ClientInv, handleParameterRequest PROVE ClientInv'
<1>1. client \in ClientStates /\ ros \in RosStates /\ Lines
  BY LinesOfClient DEF ClientInv, TypeOK
<1>2. CASE Leaves("exception") /\ UNCHANGED queue
  <2>1. Aside
    BY <1>1, <1>2 DEF handleParameterRequest, Reads, Leaves, Same, Aside, devVars, ClientStates
  <2> QED
    BY <1>2, <2>1, ConsumeStep DEF handleParameterRequest, Reads, Same
<1>3. CASE UNCHANGED <<queue, client>>
  <2>1. Aside
    BY <1>1, <1>3 DEF handleParameterRequest, Same, Aside, devVars
  <2> QED
    BY <1>3, <2>1, ConsumeStep DEF handleParameterRequest, Reads, Same
<1>4. CASE Put(<<"value", Packet[2]>>) /\ UNCHANGED client
  <2> DEFINE f == Head(up)
             g == <<"value", f[2]>>
  <2>1. /\ up # <<>> /\ f[1] = "param" /\ up' = Tail(up) /\ queue' = Append(queue, g)
        /\ UNCHANGED <<down, dev, callers, response, client, ros>>
    BY <1>4 DEF handleParameterRequest, Reads, Packet, Consume, Put, Same, devVars
  <2>2. f \in Frames /\ f[2] \in Params
    BY <1>1, <2>1, HeadFrame, FrameTaken DEF Lines, ParamKinds
  <2>3. g \in Frames /\ g[1] = "value" /\ g[2] = f[2]
    BY <2>2, FrameMade
  <2> HIDE DEF f, g
  <2>4. Aside
    BY <1>1, <2>1 DEF Aside
  <2>5. ASSUME NEW kinds, "value" \notin kinds PROVE Quiet(kinds)
    BY <1>1, <2>1, <2>3, <2>5, FewerTail, AppendFrame, SameFewer DEF Quiet, Lines
  <2>6. Quiet(CallKinds) /\ Quiet(RequestKinds)
    BY <2>5 DEF CallKinds, RequestKinds
  <2>7. TypeOK'
    BY <2>1, <2>4, <2>6 DEF ClientInv, TypeOK, Aside, Quiet, Fewer
  <2>8. ParamsOnTheirWay' /\ ParamMismatchNeedsTimeout'
    <3>1. ParamMismatchNeedsTimeout'
      BY <2>1 DEF ClientInv, ParamMismatchNeedsTimeout
    <3>2. ASSUME ~dev.timedOut, ~dev.nestedParams
          PROVE  /\ Sole(ParamKinds)' /\ InTransit(ParamKinds)' = {g}
                 /\ f \in InTransit(ParamKinds)
      <4>1. Sole3(up, queue, down, ParamKinds)
        BY <3>2, SoleIsSole3 DEF ClientInv, ParamsOnTheirWay
      <4>2. f[1] \in ParamKinds /\ g[1] \in ParamKinds
        BY <2>1, <2>3 DEF ParamKinds
      <4>3. /\ Sole3(up', queue', down', ParamKinds)
            /\ All3(up', queue', down', ParamKinds) = {g}
            /\ f \in All3(up, queue, down, ParamKinds)
        BY <1>1, <2>1, <2>3, <4>1, <4>2, Moves DEF Lines, f
      <4> QED
        BY <4>3, SoleIsSole3
    <3>3. ParamsOnTheirWay'
      BY <2>1, <2>3, <3>2 DEF ClientInv, ParamsOnTheirWay, Requests
    <3> QED
      BY <3>1, <3>3
  <2>9. RetOnStack' /\ CallsOnTheirWay' /\ StrayAnswerNeedsBreak'
    <3>1. CallsKept
      BY <2>1 DEF CallsKept, ClientInv, RetOnStack
    <3> QED
      BY <2>6, <3>1, QuietKeeps, CallStep DEF ClientInv
  <2>10. RequestInv'
    BY <2>4, <2>6, QuietKeeps, RequestStep DEF ClientInv, RequestInv, Aside
  <2> QED
    BY <2>7, <2>8, <2>9, <2>10 DEF ClientInv, RequestInv
<1> QED
  BY <1>2, <1>3, <1>4 DEF handleParameterRequest

\* The device's call becomes the answer to it.
LEMMA ClientCallStep == ASSUME ClientInv, ServiceClient_handlePacket PROVE ClientInv'
<1>1. client \in ClientStates /\ ros \in RosStates /\ Lines
  BY LinesOfClient DEF ClientInv, TypeOK
<1>2. CASE Leaves("exception") /\ UNCHANGED queue
  <2>1. Aside
    BY <1>1, <1>2 DEF ServiceClient_handlePacket, Reads, Leaves, Same, Aside, devVars, ClientStates
  <2> QED
    BY <1>2, <2>1, ConsumeStep DEF ServiceClient_handlePacket, Reads, Same
<1>3. CASE Put(<<"answer">>) /\ UNCHANGED client
  <2> DEFINE f == Head(up)
             g == <<"answer">>
  <2>1. /\ up # <<>> /\ f[1] = "call" /\ up' = Tail(up) /\ queue' = Append(queue, g)
        /\ UNCHANGED <<down, dev, callers, response, client, ros>>
    BY <1>3 DEF ServiceClient_handlePacket, Reads, Packet, Consume, Put, Same, devVars
  <2>2. f \in Frames
    BY <1>1, <2>1, HeadFrame DEF Lines
  <2>3. g \in Frames /\ g[1] = "answer"
    BY FrameMade DEF PlainKinds
  <2> HIDE DEF f, g
  <2>4. Aside
    BY <1>1, <2>1 DEF Aside
  <2>5. ASSUME NEW kinds, "answer" \notin kinds PROVE Quiet(kinds)
    BY <1>1, <2>1, <2>3, <2>5, FewerTail, AppendFrame, SameFewer DEF Quiet, Lines
  <2>6. Quiet(ParamKinds) /\ Quiet(RequestKinds)
    BY <2>5 DEF ParamKinds, RequestKinds
  <2>7. TypeOK'
    BY <2>1, <2>4, <2>6 DEF ClientInv, TypeOK, Aside, Quiet, Fewer
  <2>8. ParamsOnTheirWay' /\ ParamMismatchNeedsTimeout'
    <3>1. ParamsKept
      BY <2>1 DEF ParamsKept, Requests
    <3> QED
      BY <2>6, <3>1, QuietKeeps, ParamStep DEF ClientInv
  <2>9. RetOnStack' /\ CallsOnTheirWay' /\ StrayAnswerNeedsBreak'
    <3>1. StrayAnswerNeedsBreak'
      BY <2>1 DEF ClientInv, StrayAnswerNeedsBreak
    <3>2. ASSUME ~dev.brokenOff, ~dev.nestedCalls
          PROVE  Sole(CallKinds)' /\ dev.ret # 0 /\ dev.waiting
      <4>1. Sole3(up, queue, down, CallKinds)
        BY <3>2, SoleIsSole3 DEF ClientInv, CallsOnTheirWay
      <4>2. f[1] \in CallKinds /\ g[1] \in CallKinds
        BY <2>1, <2>3 DEF CallKinds
      <4>3. Sole3(up', queue', down', CallKinds) /\ f \in All3(up, queue, down, CallKinds)
        BY <1>1, <2>1, <2>3, <4>1, <4>2, Moves DEF Lines, f
      <4> QED
        BY <3>2, <4>3, SoleIsSole3 DEF ClientInv, CallsOnTheirWay
    <3>3. CallsOnTheirWay'
      BY <2>1, <3>2 DEF CallsOnTheirWay
    <3>4. RetOnStack'
      BY <2>1 DEF ClientInv, RetOnStack
    <3> QED
      BY <3>1, <3>3, <3>4
  <2>10. RequestInv'
    BY <2>4, <2>6, QuietKeeps, RequestStep DEF ClientInv, RequestInv, Aside
  <2> QED
    BY <2>7, <2>8, <2>9, <2>10 DEF ClientInv, RequestInv
<1> QED
  BY <1>2, <1>3 DEF ServiceClient_handlePacket

-----------------------------------------------------------------------------
(* The steps of the callers and of their requests, and a new client.       *)

LEMMA ServerResponseStep == ASSUME ClientInv, ServiceServer_handlePacket PROVE ClientInv'
<1> DEFINE f == Head(up)
<1>1. Lines
  BY LinesOfClient
<1>2. /\ up # <<>> /\ f[1] = "response" /\ up' = Tail(up) /\ response' = f[2]
      /\ client.run = "reading" /\ "response" \in client.callbacks
      /\ UNCHANGED <<queue, down, dev, callers, client, ros>>
  BY DEF ServiceServer_handlePacket, Reads, Packet, Consume, Same, devVars
<1>3. f \in Frames /\ f[2] \in Callers
  BY <1>1, <1>2, HeadFrame, FrameTaken DEF Lines, RequestKinds
<1> HIDE DEF f
<1>4. ASSUME NEW kinds PROVE Quiet(kinds)
  BY <1>1, <1>2, FewerTail, SameFewer DEF Quiet, Lines
<1>5. TypeOK'
  BY <1>2, <1>3, <1>4 DEF ClientInv, TypeOK, Quiet, Fewer
<1>6. RequestsOnTheirWay'
  <2> SUFFICES ASSUME NoOverlap
               PROVE  /\ Sole(RequestKinds)'
                      /\ InTransit(RequestKinds)' = {}
                      /\ \A c, d \in Callers : Waits(c) /\ Waits(d) => c = d
                      /\ \A c \in Callers : Waits(c) => c = f[2]
    BY <1>2 DEF RequestsOnTheirWay, NoOverlap, Waits
  <2>1. /\ Sole(RequestKinds)
        /\ \A h \in InTransit(RequestKinds) : Waits(h[2]) /\ response = None
        /\ \A c, d \in Callers : Waits(c) /\ Waits(d) => c = d
    BY <1>2 DEF ClientInv, RequestsOnTheirWay
  <2>2. Sole(RequestKinds)'
    BY <1>4, <2>1, QuietKeeps DEF Kept
  <2>3. f \in FramesIn(up, RequestKinds) /\ FramesIn(Tail(up), RequestKinds) = {}
    BY <1>1, <1>2, <2>1, HeadFrame DEF Lines, Sole, RequestKinds, f
  <2>4. InTransit(RequestKinds)' = {} /\ f \in InTransit(RequestKinds)
    BY <1>2, <2>1, <2>3 DEF InTransit, Sole
  <2>5. Waits(f[2])
    BY <2>1, <2>4
  <2> QED
    BY <1>3, <2>1, <2>2, <2>4, <2>5
<1>7. MixupNeedsOverlap' /\ IdleIsAlone' /\ ExitedIsOver'
  BY <1>2 DEF ClientInv, MixupNeedsOverlap, IdleIsAlone, ExitedIsOver
<1>8. ResponseHasServer'
  BY <1>2 DEF ClientInv, ResponseHasServer
<1> QED
  BY <1>2, <1>4, <1>5, <1>6, <1>7, <1>8, QuietKeeps, DeviceAsideStep DEF ClientInv, QuestionInv

LEMMA ReturnStep ==
  ASSUME ClientInv, NEW c \in Callers, ServiceServer_returns(c) PROVE ClientInv'
<1>1. Lines /\ callers \in [Callers -> CallStates] /\ response \in Callers \cup {None}
  BY LinesOfClient DEF ClientInv, TypeOK
<1>2. /\ callers[c].st = "waiting" /\ response # None
      /\ callers' = [callers EXCEPT ![c].st = "done", ![c].answer = response]
      /\ UNCHANGED <<up, queue, down, dev, client, ros, response>>
  BY DEF ServiceServer_returns, devVars
<1>3. /\ \A d \in Callers : d # c => callers'[d] = callers[d]
      /\ callers'[c].st = "done" /\ callers'[c].answer = response
      /\ callers'[c].alone = callers[c].alone /\ callers'[c] \in CallStates
  BY <1>1, <1>2 DEF CallStates
<1>4. ASSUME NEW kinds PROVE Quiet(kinds)
  BY <1>1, <1>2, SameFewer DEF Quiet
<1>5. callers' \in [Callers -> CallStates]
  BY <1>1, <1>2, <1>3
<1>6. TypeOK'
  BY <1>2, <1>4, <1>5 DEF ClientInv, TypeOK
<1>7. client.run # "exited"
  BY <1>2 DEF ClientInv, ExitedIsOver
<1>8. NoOverlap' <=> NoOverlap
  BY <1>3 DEF NoOverlap
<1>9. NoOverlap => /\ Sole(RequestKinds)
                   /\ \A f \in InTransit(RequestKinds) : response = None
                   /\ \A a, b \in Callers : Waits(a) /\ Waits(b) => a = b
                   /\ \A d \in Callers : Waits(d) => response \in {None, d}
  BY <1>7 DEF ClientInv, RequestsOnTheirWay
<1>10. \A d \in Callers : Waits(d)' => Waits(d)
  BY <1>3 DEF Waits
<1>11. Sole(RequestKinds)' = Sole(RequestKinds) /\ InTransit(RequestKinds)' = InTransit(RequestKinds)
  BY <1>2 DEF Sole, InTransit
<1>12. RequestsOnTheirWay'
  <2> SUFFICES ASSUME NoOverlap'
               PROVE  /\ Sole(RequestKinds)'
                      /\ InTransit(RequestKinds)' = {}
                      /\ \A a, b \in Callers : Waits(a)' /\ Waits(b)' => a = b
                      /\ \A d \in Callers : Waits(d)' => response' \in {None, d}
    BY DEF RequestsOnTheirWay
  <2>1. InTransit(RequestKinds) = {}
    BY <1>2, <1>8, <1>9
  <2> QED
    BY <1>2, <1>8, <1>9, <1>10, <1>11, <2>1
<1>13. MixupNeedsOverlap'
  <2> SUFFICES ASSUME NoOverlap', NEW d \in Callers, callers'[d].st = "done"
               PROVE  callers'[d].answer = d
    BY DEF MixupNeedsOverlap, NoOverlap
  <2>1. CASE d = c
    <3>1. Waits(c)
      BY <1>2 DEF Waits
    <3> QED
      BY <1>2, <1>3, <1>8, <1>9, <2>1, <3>1
  <2>2. CASE d # c
    BY <1>3, <1>8, <2>2 DEF ClientInv, MixupNeedsOverlap, NoOverlap
  <2> QED
    BY <2>1, <2>2
<1>14. IdleIsAlone' /\ ExitedIsOver' /\ ResponseHasServer'
  BY <1>2, <1>3, <1>7 DEF ClientInv, IdleIsAlone, ExitedIsOver, ResponseHasServer
<1> QED
  BY <1>2, <1>4, <1>6, <1>12, <1>13, <1>14, QuietKeeps, DeviceAsideStep DEF ClientInv, QuestionInv

\* A caller that finds no other one waiting has the line to itself.
LEMMA CallbackStep ==
  ASSUME ClientInv, NEW c \in Callers, ServiceServer_callback(c) PROVE ClientInv'
<1> DEFINE others == {d \in Callers : callers[d].st \in {"waiting", "stuck"}}
           g == <<"request", c>>
           state == IF "server" \in client.ids THEN "waiting"
                    ELSE IF "server" \in client.services THEN "failed" ELSE "stuck"
           asks == "server" \in client.ids
<1>1. Lines /\ callers \in [Callers -> CallStates] /\ response \in Callers \cup {None}
  BY LinesOfClient DEF ClientInv, TypeOK
<1>2. /\ callers[c].st = "idle" /\ ros.served
      /\ callers' = [d \in Callers |->
           IF d = c THEN [st |-> state, answer |-> None, alone |-> others = {}]
           ELSE IF d \in others THEN [callers[d] EXCEPT !.alone = FALSE]
           ELSE callers[d]]
      /\ UNCHANGED <<up, down, dev, client, ros>>
  BY DEF ServiceServer_callback, devVars
<1>3. /\ asks => response' = None /\ queue' = Append(queue, g)
      /\ ~asks => UNCHANGED <<response, queue>>
  BY DEF ServiceServer_callback, Put
<1>4. g \in Frames /\ g[1] = "request" /\ g[2] = c
  BY FrameMade
<1>5. /\ state \in {"waiting", "failed", "stuck"} /\ (asks => state = "waiting")
      /\ ~asks /\ state = "stuck" => "server" \notin client.services
      /\ ~asks => state # "waiting"
  OBVIOUS
<1> HIDE DEF g, state, asks
<1>6. ASSUME NEW kinds, "request" \notin kinds PROVE Quiet(kinds)
  <2>1. Fewer(queue, queue', kinds)
    <3>1. CASE asks
      <4>1. queue' = Append(queue, g)
        BY <1>3, <3>1
      <4>2. queue \in Seq(Frames) /\ g[1] \notin kinds
        BY <1>1, <1>4, <1>6 DEF Lines
      <4> QED
        BY <1>4, <4>1, <4>2, AppendFrame
    <3>2. CASE ~asks
      BY <1>1, <1>3, <3>2, SameFewer
    <3> QED
      BY <3>1, <3>2
  <2> QED
    BY <1>1, <1>2, <2>1, SameFewer DEF Quiet
<1>7. Kept(ParamKinds) /\ Kept(CallKinds) /\ queue' \in Seq(Frames)
  <2>1. Quiet(ParamKinds) /\ Quiet(CallKinds)
    BY <1>6 DEF ParamKinds, CallKinds
  <2> QED
    BY <2>1, QuietKeeps DEF Quiet, Fewer
<1>8. /\ callers'[c].st = state /\ callers'[c].answer = None
      /\ callers'[c].alone = (others = {}) /\ callers'[c] \in CallStates
  BY <1>2, <1>5 DEF CallStates
<1>9. ASSUME NEW d \in Callers, d # c
      PROVE  /\ callers'[d].st = callers[d].st /\ callers'[d].answer = callers[d].answer
             /\ d \notin others => callers'[d] = callers[d]
             /\ callers'[d] \in CallStates
  <2>1. callers'[d] = IF d \in others THEN [callers[d] EXCEPT !.alone = FALSE] ELSE callers[d]
    BY <1>2, <1>9
  <2>2. callers[d] \in CallStates
    BY <1>1
  <2> QED
    BY <2>1, <2>2 DEF CallStates
<1>10. TypeOK'
  <2>1. callers' \in [Callers -> CallStates]
    BY <1>2, <1>8, <1>9
  <2> QED
    BY <1>1, <1>2, <1>3, <1>7, <2>1 DEF ClientInv, TypeOK
<1>11. client.run # "exited"
  BY <1>2 DEF ClientInv, ExitedIsOver
<1>12. NoOverlap' => others = {} /\ NoOverlap
  <2> SUFFICES ASSUME NoOverlap' PROVE others = {} /\ NoOverlap
    OBVIOUS
  <2>1. others = {}
    BY <1>8 DEF NoOverlap
  <2>2. \A d \in Callers : d # c => callers[d].alone
    BY <1>9, <2>1 DEF NoOverlap
  <2>3. callers[c].alone
    BY <1>2 DEF ClientInv, IdleIsAlone
  <2> QED
    BY <2>1, <2>2, <2>3 DEF NoOverlap
<1>13. MixupNeedsOverlap'
  <2> SUFFICES ASSUME NoOverlap', NEW d \in Callers, callers'[d].st = "done"
               PROVE  callers'[d].answer = d
    BY DEF MixupNeedsOverlap, NoOverlap
  <2>1. d # c
    BY <1>5, <1>8
  <2> QED
    BY <1>9, <1>12, <2>1 DEF ClientInv, MixupNeedsOverlap, NoOverlap
<1>14. RequestsOnTheirWay'
  <2> SUFFICES ASSUME NoOverlap'
               PROVE  /\ Sole(RequestKinds)'
                      /\ \A f \in InTransit(RequestKinds)' : Waits(f[2])' /\ response' = None
                      /\ \A a, b \in Callers : Waits(a)' /\ Waits(b)' => a = b
                      /\ \A d \in Callers : Waits(d)' => response' \in {None, d}
    BY DEF RequestsOnTheirWay
  <2>1. /\ Sole(RequestKinds)
        /\ \A f \in InTransit(RequestKinds) : Waits(f[2])
    BY <1>11, <1>12 DEF ClientInv, RequestsOnTheirWay
  <2>2. \A d \in Callers : ~Waits(d)
    BY <1>12 DEF Waits
  <2>3. InTransit(RequestKinds) = {}
    <3> SUFFICES ASSUME NEW f \in InTransit(RequestKinds) PROVE FALSE
      OBVIOUS
    <3>1. f[1] \in RequestKinds /\ f \in Frames
      BY <1>1, InFrames DEF InTransit, Lines
    <3>2. f[2] \in Callers
      BY <3>1, FrameTaken
    <3> QED
      BY <2>1, <2>2, <3>2
  <2>4. \A d \in Callers : Waits(d)' => d = c
    BY <1>9, <2>2 DEF Waits
  <2>5. CASE asks
    <3>1. Sole3(queue, down, up, RequestKinds) /\ All3(queue, down, up, RequestKinds) = {}
      BY <2>1, <2>3, SoleIsSole3, Sole3Turns
    <3>g. g[1] \in RequestKinds
      BY <1>4 DEF RequestKinds
    <3>2. Sole3(queue', down', up', RequestKinds) /\ All3(queue', down', up', RequestKinds) = {g}
      <4>1. queue' = Append(queue, g) /\ UNCHANGED <<up, down>>
        BY <1>2, <1>3, <2>5
      <4> QED
        BY <1>1, <1>4, <3>1, <3>g, <4>1, Starts DEF Lines
    <3>3. Sole(RequestKinds)' /\ InTransit(RequestKinds)' = {g}
      BY <3>2, SoleIsSole3, Sole3Turns
    <3>4. Waits(c)'
      BY <1>5, <1>8, <2>5 DEF Waits
    <3> QED
      BY <1>3, <1>4, <2>4, <2>5, <3>3, <3>4
  <2>6. CASE ~asks
    <3>1. Sole(RequestKinds)' /\ InTransit(RequestKinds)' = {}
      BY <1>2, <1>3, <2>1, <2>3, <2>6 DEF Sole, InTransit
    <3>2. Waits(c)' => response' = None
      BY <1>3, <1>5, <1>8, <2>6 DEF Waits, ClientInv, ResponseHasServer
    <3> QED
      BY <2>4, <3>1, <3>2
  <2> QED
    BY <2>5, <2>6
<1>15. IdleIsAlone'
  <2> SUFFICES ASSUME NEW d \in Callers, callers'[d].st = "idle" PROVE callers'[d].alone
    BY DEF IdleIsAlone
  <2>1. d # c
    BY <1>5, <1>8
  <2>2. callers[d].st = "idle"
    BY <1>9, <2>1
  <2>3. callers'[d] = callers[d]
    BY <1>9, <2>1, <2>2
  <2> QED
    BY <2>2, <2>3 DEF ClientInv, IdleIsAlone
<1>16. ExitedIsOver' /\ ResponseHasServer'
  BY <1>2, <1>3, <1>11 DEF ClientInv, ExitedIsOver, ResponseHasServer
<1> QED
  BY <1>2, <1>7, <1>10, <1>13, <1>14, <1>15, <1>16, DeviceAsideStep
  DEF ClientInv, QuestionInv

LEMMA ExitStep ==
  ASSUME ClientInv, Exits, UNCHANGED <<up, down, dev>> PROVE ClientInv'
<1>1. Lines /\ ros \in RosStates
  BY LinesOfClient DEF ClientInv, TypeOK
<1>2. ASSUME NEW kinds PROVE Quiet(kinds)
  BY <1>1, SameFewer, FewerEmpty DEF Exits, Quiet
<1>3. /\ client' \in ClientStates /\ client'.run = "exited" /\ client'.callbacks = {}
      /\ response' = None
  BY DEF Exits, NewClient, ClientStates
<1>4. ros' \in RosStates /\ ~ros'.served
  BY <1>1 DEF Exits, RosStates
<1>5. callers' \in [Callers -> CallStates] /\ \A c \in Callers : callers'[c].st = "idle" /\ callers'[c].alone
  BY DEF Exits, NoCalls, CallStates
<1>6. TypeOK'
  BY <1>2, <1>3, <1>4, <1>5 DEF ClientInv, TypeOK, Quiet, Fewer
<1>7. RequestsOnTheirWay' /\ ExitedIsOver' /\ ResponseHasServer'
  BY <1>3, <1>4, <1>5 DEF RequestsOnTheirWay, ExitedIsOver, ResponseHasServer
<1>8. MixupNeedsOverlap' /\ IdleIsAlone'
  BY <1>5 DEF MixupNeedsOverlap, IdleIsAlone
<1> QED
  BY <1>2, <1>6, <1>7, <1>8, QuietKeeps, DeviceAsideStep DEF ClientInv, QuestionInv

LEMMA StartOverStep ==
  ASSUME ClientInv, StartsOver, ros' \in RosStates, UNCHANGED <<down, dev>> PROVE ClientInv'
<1>1. Lines /\ client \in ClientStates /\ callers \in [Callers -> CallStates]
  BY LinesOfClient DEF ClientInv, TypeOK
<1>2. ASSUME NEW kinds, "topics" \notin kinds PROVE Quiet(kinds)
  <2>1. <<"topics">> \in Frames /\ <<"topics">>[1] = "topics"
    BY FrameMade DEF PlainKinds
  <2>2. Fewer(<<>>, Append(<<>>, <<"topics">>), kinds)
    <3>1. <<>> \in Seq(Frames)
      OBVIOUS
    <3> QED
      BY <1>2, <2>1, <3>1, AppendFrame
  <2>3. Fewer(queue, queue', kinds)
    <3>1. Append(<<>>, <<"topics">>) = <<<<"topics">>>>
      OBVIOUS
    <3> QED
      BY <2>2, <3>1, FewerEmpty, FewerTransitive DEF StartsOver
  <2> QED
    BY <1>1, <2>3, SameFewer, FewerEmpty DEF StartsOver, Quiet
<1>3. Quiet(ParamKinds) /\ Quiet(CallKinds) /\ Quiet(RequestKinds)
  BY <1>2 DEF ParamKinds, CallKinds, RequestKinds
<1>4. /\ client' \in ClientStates /\ client'.run = "reading" /\ client'.callbacks = {}
      /\ client.run = "dead" /\ response' = None
  <2>1. client.restarts + 1 \in Nat
    BY <1>1 DEF ClientStates
  <2> QED
    BY <2>1 DEF StartsOver, NewClient, ClientStates
<1>5. ASSUME NEW c \in Callers
      PROVE  /\ callers'[c] \in CallStates /\ callers'[c].answer = callers[c].answer
             /\ callers'[c].alone = callers[c].alone /\ (Waits(c)' <=> Waits(c))
             /\ callers'[c].st = "done" <=> callers[c].st = "done"
             /\ callers'[c].st = "idle" <=> callers[c].st = "idle"
  <2>1. callers[c] \in CallStates
    BY <1>1
  <2>2. callers'[c] = IF callers[c].st = "waiting"
                        THEN [callers[c] EXCEPT !.st = "stuck"] ELSE callers[c]
    BY DEF StartsOver
  <2> QED
    BY <2>1, <2>2 DEF CallStates, Waits
<1>6. TypeOK'
  <2>1. callers' \in [Callers -> CallStates]
    BY <1>5 DEF StartsOver
  <2> QED
    BY <1>3, <1>4, <2>1 DEF ClientInv, TypeOK, Quiet, Fewer
<1>7. NoOverlap' <=> NoOverlap
  BY <1>5 DEF NoOverlap
<1>8. RequestsOnTheirWay'
  <2> SUFFICES ASSUME NoOverlap'
               PROVE  /\ Sole(RequestKinds)'
                      /\ \A f \in InTransit(RequestKinds)' : Waits(f[2])'
                      /\ \A a, b \in Callers : Waits(a)' /\ Waits(b)' => a = b
    BY <1>4 DEF RequestsOnTheirWay
  <2>1. /\ Sole(RequestKinds)
        /\ \A f \in InTransit(RequestKinds) : Waits(f[2])
        /\ \A a, b \in Callers : Waits(a) /\ Waits(b) => a = b
    BY <1>4, <1>7 DEF ClientInv, RequestsOnTheirWay
  <2>2. Sole(RequestKinds)' /\ InTransit(RequestKinds)' \subseteq InTransit(RequestKinds)
    BY <1>3, <2>1, QuietKeeps DEF Kept
  <2>3. \A f \in InTransit(RequestKinds) : f[2] \in Callers
    <3> SUFFICES ASSUME NEW f \in InTransit(RequestKinds) PROVE f[2] \in Callers
      OBVIOUS
    <3>1. f[1] \in RequestKinds /\ f \in Frames
      BY <1>1, InFrames DEF InTransit, Lines
    <3> QED
      BY <3>1, FrameTaken
  <2> QED
    BY <1>5, <2>1, <2>2, <2>3
<1>9. MixupNeedsOverlap' /\ IdleIsAlone'
  BY <1>5 DEF ClientInv, MixupNeedsOverlap, IdleIsAlone
<1>10. ExitedIsOver' /\ ResponseHasServer'
  BY <1>4 DEF ExitedIsOver, ResponseHasServer
<1> QED
  BY <1>3, <1>6, <1>8, <1>9, <1>10, QuietKeeps, DeviceAsideStep DEF ClientInv, QuestionInv

LEMMA RestartSteps ==
  ASSUME ClientInv, serial_node \/ startSerialClient \/ is_shutdown PROVE ClientInv'
<1>1. ros \in RosStates
  BY DEF ClientInv, TypeOK
<1>2. CASE serial_node
  BY <1>1, <1>2, StartOverStep DEF serial_node, devVars
<1>3. CASE startSerialClient
  <2>1. CASE Exits /\ UNCHANGED up
    BY <1>3, <2>1, ExitStep DEF startSerialClient, devVars
  <2>2. CASE StartsOver /\ ros' = [ros EXCEPT !.served = FALSE]
    <3>1. ros' \in RosStates
      BY <1>1, <2>2 DEF RosStates
    <3> QED
      BY <1>3, <2>2, <3>1, StartOverStep DEF startSerialClient, devVars
  <2> QED
    BY <1>3, <2>1, <2>2 DEF startSerialClient
<1>4. CASE is_shutdown
  BY <1>4, ExitStep DEF is_shutdown, devVars
<1> QED
  BY <1>2, <1>3, <1>4

-----------------------------------------------------------------------------
(* The steps of the device.                                                *)

LEMMA DeviceStep ==
  ASSUME ClientInv, UNCHANGED clientVars, dev' \in DevStates,
         up' \in Seq(Frames), down' \in Seq(Frames), Kept(RequestKinds), QuestionInv'
  PROVE  ClientInv'
<1>1. TypeOK'
  BY DEF ClientInv, TypeOK, clientVars
<1>2. RequestInv'
  BY RequestStep DEF ClientInv, RequestInv, clientVars
<1> QED
  BY <1>1, <1>2 DEF ClientInv, QuestionInv, RequestInv

\* The device neither asks a question nor gets an answer.
Undisturbed == dev' \in DevStates /\ ParamsKept /\ CallsKept

LEMMA UndisturbedStep ==
  ASSUME ClientInv, UNCHANGED clientVars, Undisturbed,
         \A kinds : Fewer(down, down', kinds),
         Fewer(up, up', ParamKinds), Fewer(up, up', CallKinds), Fewer(up, up', RequestKinds)
  PROVE  ClientInv'
<1>1. Lines
  BY LinesOfClient
<1>2. Quiet(ParamKinds) /\ Quiet(CallKinds) /\ Quiet(RequestKinds)
  BY <1>1, SameFewer DEF Quiet, clientVars
<1>3. Kept(ParamKinds) /\ Kept(CallKinds) /\ Kept(RequestKinds)
  BY <1>2, QuietKeeps
<1>4. up' \in Seq(Frames) /\ down' \in Seq(Frames)
  BY <1>2 DEF Quiet, Fewer
<1>5. QuestionInv'
  BY <1>3, ParamStep, CallStep DEF ClientInv, Undisturbed, QuestionInv
<1> QED
  BY <1>3, <1>4, <1>5, DeviceStep DEF Undisturbed

\* What is on the stack after a push, a pop, and the mark of WillEnd.
LEMMA Pushed ==
  ASSUME NEW s \in Seq(Activations), NEW e \in Activations
  PROVE  /\ Append(s, e) \in Seq(Activations) /\ Len(s) \in Nat
         /\ DOMAIN s = 1 .. Len(s) /\ DOMAIN Append(s, e) = 1 .. Len(s) + 1
         /\ \A i \in 1 .. Len(s) : Append(s, e)[i] = s[i]
         /\ Append(s, e)[Len(s) + 1] = e
  BY AppendProperties

LEMMA Popped ==
  ASSUME NEW s \in Seq(Activations), s # <<>>
  PROVE  /\ Front(s) \in Seq(Activations) /\ Len(s) \in Nat /\ Len(s) > 0
         /\ DOMAIN s = 1 .. Len(s) /\ DOMAIN Front(s) = 1 .. Len(s) - 1
         /\ \A i \in 1 .. Len(s) - 1 : Front(s)[i] = s[i]
         /\ Last(s) = s[Len(s)]
<1> DEFINE n == Len(s)
<1>1. n \in Nat /\ n > 0 /\ DOMAIN s = 1 .. n /\ \A i \in 1 .. n : s[i] \in Activations
  BY EmptySeq
<1>2. Front(s) = SubSeq(s, 1, n - 1) /\ Last(s) = s[n]
  BY DEF Front, Last
<1> HIDE DEF n
<1>3. \A i \in 1 .. n - 1 : s[i] \in Activations
  BY <1>1
<1>4. /\ SubSeq(s, 1, n - 1) \in Seq(Activations)
      /\ Len(SubSeq(s, 1, n - 1)) = IF 1 <= n - 1 THEN n - 1 - 1 + 1 ELSE 0
      /\ \A i \in 1 .. n - 1 - 1 + 1 : SubSeq(s, 1, n - 1)[i] = s[1 + i - 1]
  BY <1>1, <1>3, SubSeqProperties
<1>5. Len(SubSeq(s, 1, n - 1)) = n - 1
  BY <1>1, <1>4
<1>6. \A i \in 1 .. n - 1 : i \in 1 .. n - 1 - 1 + 1 /\ 1 + i - 1 = i
  BY <1>1
<1>7. DOMAIN SubSeq(s, 1, n - 1) = 1 .. n - 1
  BY <1>4, <1>5
<1>8. \A i \in 1 .. n - 1 : SubSeq(s, 1, n - 1)[i] = s[i]
  BY <1>4, <1>6
<1> QED
  BY <1>1, <1>2, <1>4, <1>7, <1>8 DEF n

LEMMA Marked ==
  ASSUME dev \in DevStates
  PROVE  /\ WillEnd \in Seq(Activations) /\ DOMAIN WillEnd = DOMAIN dev.stack
         /\ \A i \in DOMAIN dev.stack : /\ WillEnd[i].kind = dev.stack[i].kind
                                      /\ WillEnd[i].asked = dev.stack[i].asked
<1> DEFINE s == dev.stack
           n == Len(s)
<1>1. s \in Seq(Activations) /\ n \in Nat /\ DOMAIN s = 1 .. n
  BY DEF DevStates
<1>2. CASE ~Spinning("call")
  BY <1>1, <1>2 DEF WillEnd
<1>3. CASE Spinning("call")
  <2> DEFINE t == [s EXCEPT ![n].ending = TRUE]
  <2>1. WillEnd = t
    BY <1>3 DEF WillEnd
  <2>2. \A i \in 1 .. n : s[i] \in Activations
    BY <1>1
  <2> HIDE DEF s, n
  <2>3. DOMAIN t = 1 .. n
    BY <1>1
  <2>4. ASSUME NEW i \in 1 .. n
        PROVE  t[i] \in Activations /\ t[i].kind = s[i].kind /\ t[i].asked = s[i].asked
    <3>1. t[i] = IF i = n THEN [s[i] EXCEPT !.ending = TRUE] ELSE s[i]
      BY <1>1
    <3>2. ASSUME NEW a \in Activations
          PROVE  /\ [a EXCEPT !.ending = TRUE] \in Activations
                 /\ [a EXCEPT !.ending = TRUE].kind = a.kind
                 /\ [a EXCEPT !.ending = TRUE].asked = a.asked
      BY DEF Activations
    <3>3. s[i] \in Activations
      BY <2>2
    <3> HIDE DEF t
    <3>4. CASE i = n
      BY <3>1, <3>2, <3>3, <3>4
    <3>5. CASE i # n
      BY <3>1, <3>3, <3>5
    <3> QED
      BY <3>4, <3>5
  <2>5. t \in [1 .. n -> Activations]
    BY <1>1, <2>3, <2>4
  <2>6. t \in Seq(Activations)
    BY <1>1, <2>5
  <2> HIDE DEF t
  <2> QED
    BY <1>1, <2>1, <2>3, <2>4, <2>6 DEF s
<1> QED
  BY <1>2, <1>3

\* A step that only marks the stack, or leaves it alone.
LEMMA MarkedUndisturbed ==
  ASSUME ClientInv, dev' \in DevStates, dev'.stack = WillEnd \/ dev'.stack = dev.stack,
         dev'.timedOut = dev.timedOut, dev'.nestedParams = dev.nestedParams,
         dev'.mixups = dev.mixups, dev'.received = dev.received, dev'.value = dev.value,
         dev'.brokenOff = dev.brokenOff, dev'.nestedCalls = dev.nestedCalls,
         dev'.strayWrite = dev.strayWrite, dev'.ret = dev.ret, dev'.waiting = dev.waiting
  PROVE  Undisturbed
<1>1. /\ DOMAIN dev'.stack = DOMAIN dev.stack
      /\ \A i \in DOMAIN dev.stack : /\ dev'.stack[i].kind = dev.stack[i].kind
                                   /\ dev'.stack[i].asked = dev.stack[i].asked
  BY Marked DEF ClientInv, TypeOK
<1>2. ParamsKept
  BY <1>1 DEF ParamsKept, Requests
<1>3. CallsKept
  BY <1>1 DEF CallsKept, ClientInv, RetOnStack
<1> QED
  BY <1>2, <1>3 DEF Undisturbed

\* A call() returns.
LEMMA ReturnedUndisturbed ==
  ASSUME ClientInv, dev' \in DevStates, Spinning("call"), dev'.stack = Return,
         dev'.ret = IF dev.ret = Len(dev.stack) THEN 0 ELSE dev.ret,
         dev'.brokenOff = (dev.brokenOff \/ dev.waiting),
         dev'.timedOut = dev.timedOut, dev'.nestedParams = dev.nestedParams,
         dev'.mixups = dev.mixups, dev'.received = dev.received, dev'.value = dev.value,
         dev'.nestedCalls = dev.nestedCalls, dev'.strayWrite = dev.strayWrite,
         dev'.waiting = dev.waiting
  PROVE  Undisturbed
<1> DEFINE s == dev.stack
           n == Len(s)
<1>1. s \in Seq(Activations) /\ s # <<>> /\ Last(s).kind = "call"
  BY DEF ClientInv, TypeOK, DevStates, Spinning
<1>2. /\ n \in Nat /\ n > 0 /\ DOMAIN s = 1 .. n
      /\ DOMAIN dev'.stack = 1 .. n - 1
      /\ \A i \in 1 .. n - 1 : dev'.stack[i] = s[i]
      /\ s[n].kind = "call"
  BY <1>1, Popped DEF Return
<1> HIDE DEF n
<1>3. ParamsKept
  <2>1. ASSUME NEW i, Requests(i) PROVE i \in 1 .. n - 1
    BY <1>2, <2>1 DEF Requests
  <2>2. ASSUME NEW i, i \in 1 .. n - 1 PROVE i \in DOMAIN s
    BY <1>2, <2>2
  <2> QED
    BY <1>2, <2>1, <2>2 DEF ParamsKept, Requests
<1>4. RetOnStack'
  <2> SUFFICES ASSUME dev'.ret # 0
               PROVE  dev'.ret \in DOMAIN dev'.stack /\ dev'.stack[dev'.ret].kind = "call"
    BY DEF RetOnStack
  <2>1. dev'.ret = dev.ret /\ dev.ret # n
    BY DEF n
  <2>2. dev.ret \in 1 .. n /\ s[dev.ret].kind = "call"
    BY <1>2, <2>1 DEF ClientInv, RetOnStack
  <2>3. dev.ret \in 1 .. n - 1
    BY <1>2, <2>1, <2>2
  <2> QED
    BY <1>2, <2>1, <2>2, <2>3
<1>5. CallsKept
  BY <1>4 DEF CallsKept
<1> QED
  BY <1>3, <1>5 DEF Undisturbed

\* A requestParam() returns: nothing that calls depend on changes.
LEMMA ParamReturnKeepsCalls ==
  ASSUME ClientInv, Spinning("param"), dev'.stack = Return, dev'.ret = dev.ret,
         dev'.waiting = dev.waiting, dev'.brokenOff = dev.brokenOff,
         dev'.nestedCalls = dev.nestedCalls, dev'.strayWrite = dev.strayWrite
  PROVE  CallsKept
<1> DEFINE s == dev.stack
           n == Len(s)
<1>1. s \in Seq(Activations) /\ s # <<>> /\ Last(s).kind = "param"
  BY DEF ClientInv, TypeOK, DevStates, Spinning
<1>2. /\ n \in Nat /\ n > 0 /\ DOMAIN s = 1 .. n
      /\ DOMAIN dev'.stack = 1 .. n - 1
      /\ \A i \in 1 .. n - 1 : dev'.stack[i] = s[i]
      /\ s[n].kind = "param"
  BY <1>1, Popped DEF Return
<1> HIDE DEF n
<1>3. RetOnStack'
  <2> SUFFICES ASSUME dev.ret # 0
               PROVE  dev.ret \in DOMAIN dev'.stack /\ dev'.stack[dev.ret].kind = "call"
    BY DEF RetOnStack
  <2>1. dev.ret \in 1 .. n /\ s[dev.ret].kind = "call"
    BY <1>2 DEF ClientInv, RetOnStack
  <2>2. dev.ret # n
    BY <1>2, <2>1
  <2>3. dev.ret \in 1 .. n - 1
    BY <1>2, <2>1, <2>2
  <2> QED
    BY <1>2, <2>1, <2>3
<1> QED
  BY <1>3 DEF CallsKept

LEMMA TakeFewer ==
  ASSUME Lines, NEW kind, Take(kind), NEW kinds
  PROVE  Fewer(down, down', kinds)
  BY FewerTail DEF Lines, Take

LEMMA PublishFewer ==
  ASSUME Lines, NEW f \in Frames, NEW internal \in BOOLEAN, publish(f, internal),
         NEW kinds, f[1] \notin kinds
  PROVE  Fewer(up, up', kinds)
  BY AppendFrame, FewerSame DEF Lines, publish

LEMMA PlainPublish ==
  ASSUME Lines, NEW kind \in PlainKinds \ {"call", "answer"}, NEW internal \in BOOLEAN,
         publish(<<kind>>, internal)
  PROVE  Fewer(up, up', ParamKinds) /\ Fewer(up, up', CallKinds) /\ Fewer(up, up', RequestKinds)
<1>1. <<kind>> \in Frames /\ <<kind>>[1] = kind
  BY FrameMade
<1>2. kind \notin ParamKinds /\ kind \notin CallKinds /\ kind \notin RequestKinds
  BY DEF PlainKinds, ParamKinds, CallKinds, RequestKinds
<1> QED
  BY <1>1, <1>2, PublishFewer

LEMMA NegotiationFrames ==
  /\ negotiateTopics \in Seq(Frames)
  /\ \A i \in DOMAIN negotiateTopics : negotiateTopics[i][1] = "info"
<1> DEFINE Infos == {<<"info", e, half>> : e \in Entities, half \in {"pub", "sub"}}
<1>1. \A e \in Entities, half \in {"pub", "sub"} : TopicInfo(e, half) \in Seq(Infos)
  <2> SUFFICES ASSUME NEW e \in Entities, NEW half \in {"pub", "sub"}
               PROVE  TopicInfo(e, half) \in Seq(Infos)
    OBVIOUS
  <2>1. <<"info", e, half>> \in Infos
    OBVIOUS
  <2> HIDE DEF Infos
  <2> DEFINE f == <<"info", e, half>>
  <2> HIDE DEF f
  <2>2. f \in Infos
    BY <2>1 DEF f
  <2>3. <<f>> \in Seq(Infos) /\ <<>> \in Seq(Infos)
    BY <2>2
  <2> QED
    BY <2>3 DEF TopicInfo, f
<1>2. /\ TopicInfo("pub", "pub") \in Seq(Infos) /\ TopicInfo("server", "pub") \in Seq(Infos)
      /\ TopicInfo("client", "pub") \in Seq(Infos) /\ TopicInfo("sub", "sub") \in Seq(Infos)
      /\ TopicInfo("server", "sub") \in Seq(Infos) /\ TopicInfo("client", "sub") \in Seq(Infos)
  BY <1>1 DEF Entities
<1>3. \A r, s \in Seq(Infos) : r \o s \in Seq(Infos)
  BY ConcatProperties
<1>4. negotiateTopics \in Seq(Infos)
  BY <1>2, <1>3 DEF negotiateTopics
<1>5. \A f \in Infos : f \in Frames /\ f[1] = "info"
  BY DEF Frames
<1> HIDE DEF Infos
<1> QED
  BY <1>4, <1>5

LEMMA TopicsStep == ASSUME ClientInv, spin_topics, UNCHANGED clientVars PROVE ClientInv'
<1>1. Lines /\ dev \in DevStates
  BY LinesOfClient DEF ClientInv, TypeOK
<1>2. \A kinds : Fewer(down, down', kinds)
  BY <1>1, TakeFewer DEF spin_topics
<1>3. ASSUME NEW kinds, "time" \notin kinds, "info" \notin kinds PROVE Fewer(up, up', kinds)
  <2> DEFINE r == <<requestSyncTime>>
             s == up \o r
  <2>1. r \in Seq(Frames) /\ \A i \in DOMAIN r : r[i][1] = "time"
    <3>1. <<"time">> \in Frames /\ <<"time">>[1] = "time"
      BY FrameMade DEF PlainKinds
    <3> QED
      BY <3>1 DEF requestSyncTime
  <2>2. up' = s \o negotiateTopics
    BY DEF spin_topics
  <2> HIDE DEF r
  <2>3. Fewer(up, s, kinds)
    BY <1>1, <1>3, <2>1, FewerConcat DEF Lines
  <2> HIDE DEF s
  <2>4. s \in Seq(Frames)
    BY <2>3 DEF Fewer
  <2>5. Fewer(s, up', kinds)
    BY <1>3, <2>2, <2>4, NegotiationFrames, FewerConcat
  <2> QED
    BY <2>3, <2>5, FewerTransitive
<1>4. Fewer(up, up', ParamKinds) /\ Fewer(up, up', CallKinds) /\ Fewer(up, up', RequestKinds)
  BY <1>3 DEF ParamKinds, CallKinds, RequestKinds
<1>5. Undisturbed
  <2>1. CASE Spinning("call")
    <3>1. dev' = [CallReturned EXCEPT !.configured = TRUE]
      BY <2>1 DEF spin_topics
    <3>2. Return \in Seq(Activations)
      BY <1>1, <2>1, Popped DEF Spinning, Return, DevStates
    <3>3. dev' \in DevStates
      BY <1>1, <3>1, <3>2 DEF CallReturned, DevStates
    <3> QED
      BY <1>1, <2>1, <3>1, <3>3, ReturnedUndisturbed DEF CallReturned, DevStates
  <2>2. CASE ~Spinning("call")
    <3>1. dev' = [dev EXCEPT !.configured = TRUE]
      BY <2>2 DEF spin_topics
    <3> QED
      BY <1>1, <3>1, MarkedUndisturbed DEF DevStates
  <2> QED
    BY <2>1, <2>2
<1> QED
  BY <1>2, <1>4, <1>5, UndisturbedStep

LEMMA UndisturbedSteps ==
  ASSUME ClientInv, UNCHANGED clientVars,
         \/ spin_time \/ spin_tx_stop \/ call_ends
         \/ Publisher_publish \/ SyncTick \/ LoseSync
  PROVE  ClientInv'
<1>1. Lines /\ dev \in DevStates
  BY LinesOfClient DEF ClientInv, TypeOK
<1>2. UNCHANGED up => \A kinds : Fewer(up, up', kinds)
  BY <1>1, SameFewer
<1>3. UNCHANGED down => \A kinds : Fewer(down, down', kinds)
  BY <1>1, SameFewer
<1>4. UNCHANGED dev => Undisturbed
  BY <1>1, MarkedUndisturbed
<1>5. CASE spin_time
  <2>1. Undisturbed
    BY <1>1, <1>5, Marked, MarkedUndisturbed DEF spin_time, DevStates
  <2> QED
    BY <1>1, <1>2, <1>5, <2>1, TakeFewer, UndisturbedStep DEF spin_time
<1>6. CASE spin_tx_stop
  <2>1. Undisturbed
    BY <1>1, <1>6, Marked, MarkedUndisturbed DEF spin_tx_stop, DevStates
  <2> QED
    BY <1>1, <1>2, <1>6, <2>1, TakeFewer, UndisturbedStep DEF spin_tx_stop
<1>7. CASE call_ends
  <2>1. Return \in Seq(Activations)
    BY <1>1, <1>7, Popped DEF call_ends, Spinning, Return, DevStates
  <2>2. dev' \in DevStates
    BY <1>1, <1>7, <2>1 DEF call_ends, CallReturned, DevStates
  <2>3. Undisturbed
    BY <1>1, <1>7, <2>2, ReturnedUndisturbed DEF call_ends, CallReturned, DevStates
  <2> QED
    BY <1>2, <1>3, <1>7, <2>3, UndisturbedStep DEF call_ends
<1>9. CASE Publisher_publish
  <2>1. "data" \in PlainKinds \ {"call", "answer"}
    BY DEF PlainKinds
  <2>2. Fewer(up, up', ParamKinds) /\ Fewer(up, up', CallKinds) /\ Fewer(up, up', RequestKinds)
    BY <1>1, <1>9, <2>1, PlainPublish DEF Publisher_publish
  <2> QED
    BY <1>3, <1>4, <1>9, <2>2, UndisturbedStep DEF Publisher_publish, devVars
<1>10. CASE SyncTick
  <2>1. "time" \in PlainKinds \ {"call", "answer"}
    BY DEF PlainKinds
  <2>2. Fewer(up, up', ParamKinds) /\ Fewer(up, up', CallKinds) /\ Fewer(up, up', RequestKinds)
    BY <1>1, <1>10, <2>1, PlainPublish DEF SyncTick, requestSyncTime
  <2> QED
    BY <1>3, <1>4, <1>10, <2>2, UndisturbedStep DEF SyncTick, devVars
<1>11. CASE LoseSync
  <2>1. dev.losses + 1 \in Nat /\ dev.events + 1 \in Nat
    BY <1>1 DEF DevStates
  <2>2. Undisturbed
    BY <1>1, <1>11, <2>1, MarkedUndisturbed DEF LoseSync, DevStates
  <2> QED
    BY <1>2, <1>3, <1>11, <2>2, UndisturbedStep DEF LoseSync
<1> QED
  BY <1>5, <1>6, <1>7, <1>9, <1>10, <1>11

\* A value: that of the parameter that the sketch waits for, unless a request
\* has timed out or two have overlapped.
LEMMA ValueStep == ASSUME ClientInv, spin_param, UNCHANGED clientVars PROVE ClientInv'
<1> DEFINE f == Head(down)
<1>1. Lines /\ dev \in DevStates
  BY LinesOfClient DEF ClientInv, TypeOK
<1>2. /\ down # <<>> /\ f[1] = "value" /\ down' = Tail(down) /\ Take("value") /\ UNCHANGED up
      /\ dev' = [dev EXCEPT !.received = TRUE, !.value = f[2]]
  BY DEF spin_param, Take, Frame
<1>3. f \in Frames /\ f[2] \in Params /\ f[1] \in ParamKinds
  BY <1>1, <1>2, HeadFrame, FrameTaken DEF Lines, ParamKinds
<1>4. ASSUME NEW kinds PROVE Quiet(kinds)
  BY <1>1, <1>2, TakeFewer, SameFewer DEF Quiet, clientVars
<1>5. ASSUME NEW kinds PROVE Kept(kinds)
  BY <1>4, QuietKeeps
<1> HIDE DEF f
<1>6. /\ dev' \in DevStates /\ dev'.received /\ dev'.value = f[2]
      /\ dev'.stack = dev.stack /\ dev'.timedOut = dev.timedOut
      /\ dev'.nestedParams = dev.nestedParams /\ dev'.mixups = dev.mixups
      /\ dev'.ret = dev.ret /\ dev'.waiting = dev.waiting /\ dev'.brokenOff = dev.brokenOff
      /\ dev'.nestedCalls = dev.nestedCalls /\ dev'.strayWrite = dev.strayWrite
  BY <1>1, <1>2, <1>3 DEF DevStates
<1>7. ASSUME ~dev.timedOut, ~dev.nestedParams
      PROVE  Sole(ParamKinds)' /\ InTransit(ParamKinds)' = {} /\ f \in InTransit(ParamKinds)
  <2>1. Sole(ParamKinds)
    BY <1>7 DEF ClientInv, ParamsOnTheirWay
  <2>2. f \in FramesIn(down, ParamKinds) /\ FramesIn(down', ParamKinds) = {}
    BY <1>1, <1>2, <1>3, <2>1, HeadFrame DEF Lines, Sole, f
  <2>3. FramesIn(up', ParamKinds) = {} /\ FramesIn(queue', ParamKinds) = {}
    BY <1>4, <2>1, <2>2 DEF Quiet, Fewer, Sole
  <2> QED
    BY <1>5, <2>1, <2>2, <2>3 DEF Kept, InTransit
<1>8. ParamsOnTheirWay'
  BY <1>6, <1>7 DEF ClientInv, ParamsOnTheirWay, Requests
<1>9. ParamMismatchNeedsTimeout'
  BY <1>6 DEF ClientInv, ParamMismatchNeedsTimeout
<1>10. CallsKept
  BY <1>6 DEF CallsKept, ClientInv, RetOnStack
<1>11. QuestionInv'
  BY <1>5, <1>8, <1>9, <1>10, CallStep DEF ClientInv, QuestionInv
<1> QED
  BY <1>4, <1>5, <1>6, <1>11, DeviceStep DEF Quiet, Fewer

\* getParam() takes the value that has come in.
LEMMA ParamReturnStep == ASSUME ClientInv, getParam, UNCHANGED clientVars PROVE ClientInv'
<1> DEFINE s == dev.stack
           n == Len(s)
           asked == Last(s).asked
           fits == Shape[dev.value] = Shape[asked]
<1>1. Lines /\ dev \in DevStates
  BY LinesOfClient DEF ClientInv, TypeOK
<1>2. /\ Spinning("param") /\ dev.received /\ UNCHANGED down
      /\ up' = IF fits THEN up ELSE Append(up, logwarn)
      /\ dev' = [dev EXCEPT !.stack = Return,
                   !.mixups = IF fits /\ dev.value # asked
                                THEN @ \cup {<<asked, dev.value>>} ELSE @]
  BY DEF getParam
<1>3. s \in Seq(Activations) /\ s # <<>>
  BY <1>1, <1>2 DEF DevStates, Spinning
<1>4. /\ n \in Nat /\ n > 0 /\ DOMAIN s = 1 .. n
      /\ Return \in Seq(Activations) /\ DOMAIN Return = 1 .. n - 1
      /\ \A i \in 1 .. n - 1 : Return[i] = s[i]
      /\ s[n] \in Activations /\ s[n].kind = "param" /\ s[n].asked = asked
  BY <1>2, <1>3, Popped DEF Return, Spinning
<1>5. asked \in Params \cup {None} /\ dev.value \in Params \cup {None}
  BY <1>1, <1>4 DEF Activations, DevStates
<1>6. Requests(n)
  BY <1>4 DEF Requests
<1> HIDE DEF asked, n
<1>7. <<asked, dev.value>> \in (Params \cup {None}) \X (Params \cup {None})
  BY <1>5
<1>8. /\ dev'.stack = Return /\ dev'.timedOut = dev.timedOut
      /\ dev'.nestedParams = dev.nestedParams
      /\ dev'.ret = dev.ret /\ dev'.waiting = dev.waiting /\ dev'.brokenOff = dev.brokenOff
      /\ dev'.nestedCalls = dev.nestedCalls /\ dev'.strayWrite = dev.strayWrite
      /\ dev'.mixups \subseteq dev.mixups \cup {<<asked, dev.value>>}
      /\ \A p \in dev'.mixups : p \notin dev.mixups =>
            p = <<asked, dev.value>> /\ fits /\ dev.value # asked
  BY <1>1, <1>2 DEF DevStates
<1>9. dev' \in DevStates
  <2>1. dev'.mixups \in SUBSET ((Params \cup {None}) \X (Params \cup {None}))
    BY <1>1, <1>7, <1>8 DEF DevStates
  <2>2. dev' = [dev EXCEPT !.stack = Return, !.mixups = dev'.mixups]
    BY <1>1, <1>2 DEF DevStates
  <2> QED
    BY <1>1, <1>4, <2>1, <2>2 DEF DevStates
<1>10. logwarn \in Frames /\ logwarn[1] = "log"
  BY FrameMade DEF PlainKinds, logwarn
<1>11. ASSUME NEW kinds, "log" \notin kinds PROVE Quiet(kinds)
  <2>1. Fewer(up, up', kinds)
    <3>1. up' = up \/ up' = Append(up, logwarn)
      BY <1>2
    <3>2. Fewer(up, Append(up, logwarn), kinds)
      BY <1>1, <1>10, <1>11, AppendFrame DEF Lines
    <3>3. Fewer(up, up, kinds)
      BY <1>1, FewerSame DEF Lines
    <3> QED
      BY <3>1, <3>2, <3>3
  <2> QED
    BY <1>1, <1>2, <2>1, SameFewer DEF Quiet, clientVars
<1>12. Quiet(ParamKinds) /\ Quiet(CallKinds) /\ Quiet(RequestKinds)
  BY <1>11 DEF ParamKinds, CallKinds, RequestKinds
<1>13. Kept(ParamKinds) /\ Kept(CallKinds) /\ Kept(RequestKinds)
  BY <1>12, QuietKeeps
<1>14. ASSUME ~dev.timedOut, ~dev.nestedParams
       PROVE  /\ Sole(ParamKinds)' /\ InTransit(ParamKinds)' = {}
              /\ dev.value = asked /\ \A i : ~Requests(i)'
  <2>1. /\ Sole(ParamKinds) /\ \A f \in InTransit(ParamKinds) : ~dev.received
        /\ \A i : Requests(i) => i = n
        /\ dev.received => dev.value = s[n].asked
    BY <1>6, <1>14 DEF ClientInv, ParamsOnTheirWay, Requests
  <2>2. InTransit(ParamKinds) = {}
    BY <1>2, <2>1
  <2>3. ASSUME NEW i, Requests(i)' PROVE FALSE
    <3>1. i \in 1 .. n - 1 /\ s[i].kind = "param"
      BY <1>4, <1>8, <2>3 DEF Requests
    <3>2. i # n /\ i \in 1 .. n
      BY <1>4, <3>1
    <3> QED
      BY <1>4, <2>1, <3>1, <3>2 DEF Requests
  <2> QED
    BY <1>2, <1>4, <1>13, <2>1, <2>2, <2>3 DEF Kept
<1>15. ParamsOnTheirWay'
  BY <1>8, <1>14 DEF ParamsOnTheirWay
<1>16. ParamMismatchNeedsTimeout'
  <2> SUFFICES ASSUME NEW p \in dev'.mixups
               PROVE  (dev'.timedOut \/ dev'.nestedParams) /\ Shape[p[1]] = Shape[p[2]]
    BY DEF ParamMismatchNeedsTimeout
  <2>1. CASE p \in dev.mixups
    BY <1>8, <2>1 DEF ClientInv, ParamMismatchNeedsTimeout
  <2>2. CASE p \notin dev.mixups
    <3>1. p = <<asked, dev.value>> /\ fits /\ dev.value # asked
      BY <1>8, <2>2
    <3>2. p[1] = asked /\ p[2] = dev.value
      BY <3>1
    <3>3. dev.timedOut \/ dev.nestedParams
      BY <1>14, <3>1
    <3> QED
      BY <1>8, <3>1, <3>2, <3>3
  <2> QED
    BY <2>1, <2>2
<1>17. CallsKept
  BY <1>2, <1>8, ParamReturnKeepsCalls
<1>18. QuestionInv'
  BY <1>13, <1>15, <1>16, <1>17, CallStep DEF ClientInv, QuestionInv
<1> QED
  BY <1>9, <1>12, <1>13, <1>18, DeviceStep DEF Quiet, Fewer

\* An answer: to the call that waits, unless a call has been broken off or two
\* have overlapped.
LEMMA AnswerStep == ASSUME ClientInv, spin_answer, UNCHANGED clientVars PROVE ClientInv'
<1> DEFINE f == Head(down)
<1>1. Lines /\ dev \in DevStates
  BY LinesOfClient DEF ClientInv, TypeOK
<1>2. /\ down # <<>> /\ f[1] = "answer" /\ down' = Tail(down) /\ Take("answer") /\ UNCHANGED up
      /\ dev' = [dev EXCEPT !.waiting = FALSE, !.strayWrite = @ \/ dev.ret = 0]
  BY DEF spin_answer, Take, Frame
<1>3. ASSUME NEW kinds PROVE Quiet(kinds)
  BY <1>1, <1>2, TakeFewer, SameFewer DEF Quiet, clientVars
<1>4. ASSUME NEW kinds PROVE Kept(kinds)
  BY <1>3, QuietKeeps
<1>5. /\ dev' \in DevStates /\ dev'.stack = dev.stack
      /\ dev'.timedOut = dev.timedOut /\ dev'.nestedParams = dev.nestedParams
      /\ dev'.mixups = dev.mixups /\ dev'.received = dev.received /\ dev'.value = dev.value
      /\ dev'.brokenOff = dev.brokenOff /\ dev'.nestedCalls = dev.nestedCalls
      /\ dev'.strayWrite => dev.strayWrite \/ dev.ret = 0
  BY <1>1, <1>2 DEF DevStates
<1>r. dev'.ret = dev.ret
  BY <1>1, <1>2 DEF DevStates
<1>6. ParamsOnTheirWay' /\ ParamMismatchNeedsTimeout'
  <2>1. ParamsKept
    BY <1>5 DEF ParamsKept, Requests
  <2> QED
    BY <1>4, <2>1, ParamStep DEF ClientInv
<1> HIDE DEF f
<1>7. ASSUME ~dev.brokenOff, ~dev.nestedCalls
      PROVE  Sole(CallKinds)' /\ InTransit(CallKinds)' = {} /\ dev.ret # 0
  <2>1. Sole(CallKinds) /\ (InTransit(CallKinds) # {} => dev.ret # 0)
    BY <1>7 DEF ClientInv, CallsOnTheirWay
  <2>2. f[1] \in CallKinds
    BY <1>2 DEF CallKinds
  <2>3. f \in FramesIn(down, CallKinds) /\ FramesIn(down', CallKinds) = {}
    BY <1>1, <1>2, <2>1, <2>2, HeadFrame DEF Lines, Sole, f
  <2>4. FramesIn(up', CallKinds) = {} /\ FramesIn(queue', CallKinds) = {}
    BY <1>3, <2>1, <2>3 DEF Quiet, Fewer, Sole
  <2> QED
    BY <1>4, <2>1, <2>3, <2>4 DEF Kept, InTransit
<1>8. CallsOnTheirWay'
  BY <1>5, <1>7 DEF CallsOnTheirWay
<1>9. StrayAnswerNeedsBreak'
  BY <1>5, <1>r, <1>7 DEF ClientInv, StrayAnswerNeedsBreak
<1>10. RetOnStack'
  BY <1>5, <1>r DEF ClientInv, RetOnStack
<1> QED
  BY <1>3, <1>4, <1>5, <1>6, <1>8, <1>9, <1>10, DeviceStep DEF Quiet, Fewer, QuestionInv

\* The request of a caller becomes the response to it.
LEMMA ServerStep == ASSUME ClientInv, spin_request, UNCHANGED clientVars PROVE ClientInv'
<1> DEFINE f == Head(down)
           g == <<"response", f[2]>>
<1>1. Lines /\ dev \in DevStates
  BY LinesOfClient DEF ClientInv, TypeOK
<1>2. /\ down # <<>> /\ f[1] = "request" /\ down' = Tail(down) /\ Take("request")
      /\ UNCHANGED dev /\ up' = IF dev.configured THEN Append(up, g) ELSE up
  BY DEF spin_request, Take, Frame, publish, devVars
<1>3. f \in Frames /\ f[2] \in Callers
  BY <1>1, <1>2, HeadFrame, FrameTaken DEF Lines, RequestKinds
<1>4. g \in Frames /\ g[1] = "response" /\ g[2] = f[2]
  BY <1>3, FrameMade
<1>5. \A kinds : Fewer(down, down', kinds)
  BY <1>1, <1>2, TakeFewer
<1> HIDE DEF f, g
<1>6. CASE ~dev.configured
  <2>1. Undisturbed
    BY <1>1, <1>2, MarkedUndisturbed
  <2> QED
    BY <1>1, <1>2, <1>5, <1>6, <2>1, SameFewer, UndisturbedStep
<1>7. CASE dev.configured
  <2>1. up' = Append(up, g) /\ UNCHANGED <<queue, client, ros, callers, response>>
    BY <1>2, <1>7 DEF clientVars
  <2>2. ASSUME NEW kinds, "response" \notin kinds PROVE Quiet(kinds)
    BY <1>1, <1>4, <1>5, <2>1, <2>2, AppendFrame, SameFewer DEF Quiet, Lines
  <2>3. Quiet(ParamKinds) /\ Quiet(CallKinds)
    BY <2>2 DEF ParamKinds, CallKinds
  <2>4. QuestionInv'
    BY <1>2, <2>3, QuietKeeps, DeviceAsideStep
  <2>5. TypeOK'
    BY <1>2, <2>1, <2>3 DEF ClientInv, TypeOK, Quiet, Fewer
  <2>6. RequestsOnTheirWay'
    <3> SUFFICES ASSUME NoOverlap, client.run # "exited"
                 PROVE  Sole(RequestKinds)' /\ InTransit(RequestKinds)' = {g}
                        /\ Waits(g[2]) /\ response = None
      BY <2>1 DEF ClientInv, RequestsOnTheirWay, NoOverlap, Waits
    <3>1. /\ Sole3(up, queue, down, RequestKinds)
          /\ \A h \in InTransit(RequestKinds) : Waits(h[2]) /\ response = None
      BY SoleIsSole3 DEF ClientInv, RequestsOnTheirWay
    <3>2. f[1] \in RequestKinds /\ g[1] \in RequestKinds
      BY <1>2, <1>4 DEF RequestKinds
    <3>3. Sole3(down, up, queue, RequestKinds)
      BY <3>1, Sole3Turns
    <3>4. /\ Sole3(down', up', queue', RequestKinds) /\ All3(down', up', queue', RequestKinds) = {g}
          /\ f \in All3(down, up, queue, RequestKinds)
      BY <1>1, <1>2, <1>4, <2>1, <3>2, <3>3, Moves DEF Lines, f
    <3>5. /\ Sole3(up', queue', down', RequestKinds) /\ All3(up', queue', down', RequestKinds) = {g}
          /\ f \in All3(up, queue, down, RequestKinds)
      BY <3>4, Sole3Turns
    <3>6. Waits(f[2]) /\ response = None
      BY <3>1, <3>5, SoleIsSole3
    <3> QED
      BY <1>4, <3>5, <3>6, SoleIsSole3
  <2>7. MixupNeedsOverlap' /\ IdleIsAlone' /\ ExitedIsOver' /\ ResponseHasServer'
    BY <2>1 DEF ClientInv, MixupNeedsOverlap, IdleIsAlone, ExitedIsOver, ResponseHasServer
  <2> QED
    BY <2>4, <2>5, <2>6, <2>7 DEF ClientInv, QuestionInv
<1> QED
  BY <1>6, <1>7

\* The sketch asks, in its loop or when a message has been taken.
LEMMA AskStep ==
  ASSUME ClientInv, UNCHANGED clientVars, \A kinds : Fewer(down, down', kinds),
         NEW name \in Params, requestParam(name)
  PROVE  ClientInv'
<1> DEFINE g == <<"param", name>>
           e == [kind |-> "param", asked |-> name, ending |-> FALSE]
           s == dev.stack
<1>n. PICK n : n = Len(s)
  OBVIOUS
<1>1. Lines /\ dev \in DevStates
  BY LinesOfClient DEF ClientInv, TypeOK
<1>2. /\ up' = Append(up, g) /\ UNCHANGED queue
      /\ dev' = [dev EXCEPT !.events = @ + 1, !.received = FALSE, !.stack = Append(s, e),
                            !.nestedParams = @ \/ Open("param")]
  BY DEF requestParam, publish, clientVars, Spins
<1>3. g \in Frames /\ g[1] = "param" /\ g[2] = name
  BY FrameMade
<1>4. dev.events + 1 \in Nat /\ s \in Seq(Activations) /\ Open("param") \in BOOLEAN
  BY <1>1 DEF DevStates, Open
<1>5. e \in Activations /\ e.kind = "param" /\ e.asked = name
  BY DEF Activations
<1> HIDE DEF g, e
<1>6. /\ Append(s, e) \in Seq(Activations) /\ n \in Nat
      /\ DOMAIN s = 1 .. n /\ DOMAIN Append(s, e) = 1 .. n + 1
      /\ \A i \in 1 .. n : Append(s, e)[i] = s[i]
      /\ Append(s, e)[n + 1] = e
  BY <1>n, <1>4, <1>5, Pushed
<1>7. /\ dev' \in DevStates /\ dev'.stack = Append(s, e) /\ ~dev'.received
      /\ dev'.timedOut = dev.timedOut /\ dev'.mixups = dev.mixups
      /\ dev'.nestedParams = (dev.nestedParams \/ Open("param"))
      /\ dev'.ret = dev.ret /\ dev'.waiting = dev.waiting /\ dev'.brokenOff = dev.brokenOff
      /\ dev'.nestedCalls = dev.nestedCalls /\ dev'.strayWrite = dev.strayWrite
  <2> HIDE DEF s
  <2> QED
    BY <1>1, <1>2, <1>4, <1>6 DEF DevStates
<1>8. ASSUME NEW kinds, "param" \notin kinds PROVE Quiet(kinds)
  BY <1>1, <1>2, <1>3, <1>8, AppendFrame, SameFewer DEF Quiet, Lines
<1>9. Quiet(CallKinds) /\ Quiet(RequestKinds)
  BY <1>8 DEF CallKinds, RequestKinds
<1>10. ParamMismatchNeedsTimeout'
  BY <1>7 DEF ClientInv, ParamMismatchNeedsTimeout
<1>11. ASSUME ~dev'.timedOut, ~dev'.nestedParams
       PROVE  /\ Sole(ParamKinds)' /\ InTransit(ParamKinds)' = {g}
              /\ Requests(n + 1)' /\ \A i : Requests(i)' => i = n + 1
  <2>1. ~dev.timedOut /\ ~dev.nestedParams /\ \A i \in DOMAIN s : s[i].kind # "param"
    BY <1>7, <1>11 DEF Open
  <2>2. Sole3(up, queue, down, ParamKinds) /\ All3(up, queue, down, ParamKinds) = {}
    BY <2>1, SoleIsSole3 DEF ClientInv, ParamsOnTheirWay, Requests
  <2>3. Sole3(up, queue, down', ParamKinds) /\ All3(up, queue, down', ParamKinds) = {}
    BY <2>2 DEF Fewer, Sole3, All3, Apart
  <2>4. g[1] \in ParamKinds
    BY <1>3 DEF ParamKinds
  <2>5. down' \in Seq(Frames)
    BY DEF Fewer
  <2>6. Sole3(up', queue', down', ParamKinds) /\ All3(up', queue', down', ParamKinds) = {g}
    <3>1. ASSUME NEW d \in Seq(Frames), Sole3(up, queue, d, ParamKinds),
                 All3(up, queue, d, ParamKinds) = {}
          PROVE  /\ Sole3(Append(up, g), queue, d, ParamKinds)
                 /\ All3(Append(up, g), queue, d, ParamKinds) = {g}
      BY <1>1, <1>3, <2>4, <3>1, Starts DEF Lines
    <3> QED
      BY <1>2, <2>3, <2>5, <3>1
  <2>7. Requests(n + 1)'
    <3>1. n + 1 \in 1 .. n + 1
      BY <1>6
    <3>2. n + 1 \in DOMAIN dev'.stack /\ dev'.stack[n + 1].kind = "param"
      BY <1>5, <1>6, <1>7, <3>1
    <3> QED
      BY <3>2 DEF Requests
  <2>8. ASSUME NEW i, Requests(i)' PROVE i = n + 1
    <3>1. i \in 1 .. n + 1 /\ Append(s, e)[i].kind = "param"
      BY <1>6, <1>7, <2>8 DEF Requests
    <3>2. CASE i \in 1 .. n
      BY <1>6, <2>1, <3>1, <3>2
    <3>3. CASE i \notin 1 .. n
      BY <1>6, <3>1, <3>3
    <3> QED
      BY <3>2, <3>3
  <2> QED
    BY <2>6, <2>7, <2>8, SoleIsSole3
<1>12. dev'.stack[n + 1].asked = name
  BY <1>5, <1>6, <1>7
<1>13. ParamsOnTheirWay'
  <2> SUFFICES ASSUME ~dev'.timedOut, ~dev'.nestedParams
               PROVE  /\ Sole(ParamKinds)'
                      /\ \A f \in InTransit(ParamKinds)' :
                           ~dev'.received /\ \E i \in DOMAIN dev'.stack : Requests(i)'
                      /\ \A i, j \in DOMAIN dev'.stack : Requests(i)' /\ Requests(j)' => i = j
                      /\ \A i \in DOMAIN dev'.stack : Requests(i)' =>
                           /\ \A f \in InTransit(ParamKinds)' : f[2] = dev'.stack[i].asked
                           /\ dev'.received => dev'.value = dev'.stack[i].asked
    BY DEF ParamsOnTheirWay
  <2>1. n + 1 \in DOMAIN dev'.stack
    BY <1>6, <1>7
  <2> QED
    BY <1>3, <1>7, <1>11, <1>12, <2>1
<1>14. CallsKept
  <2>1. dev.ret \in DOMAIN s => dev.ret \in DOMAIN dev'.stack /\ dev'.stack[dev.ret] = s[dev.ret]
    BY <1>6, <1>7
  <2> QED
    BY <1>7, <2>1 DEF CallsKept, ClientInv, RetOnStack
<1>15. QuestionInv'
  BY <1>9, <1>10, <1>13, <1>14, QuietKeeps, CallStep DEF ClientInv, QuestionInv
<1> QED
  BY <1>7, <1>9, <1>15, QuietKeeps, DeviceStep DEF Quiet, Fewer

LEMMA CallStartStep ==
  ASSUME ClientInv, UNCHANGED clientVars, \A kinds : Fewer(down, down', kinds),
         ServiceClient_call
  PROVE  ClientInv'
<1> DEFINE g == <<"call">>
           e == [kind |-> "call", asked |-> None, ending |-> FALSE]
           s == dev.stack
           n == Len(s)
<1>1. Lines /\ dev \in DevStates
  BY LinesOfClient DEF ClientInv, TypeOK
<1>2. /\ up' = Append(up, g) /\ UNCHANGED queue
      /\ dev' = [dev EXCEPT !.events = @ + 1, !.waiting = TRUE, !.stack = Append(s, e),
                            !.ret = n + 1, !.nestedCalls = @ \/ Open("call")]
  BY DEF ServiceClient_call, publish, clientVars, Spins
<1>3. g \in Frames /\ g[1] = "call"
  BY FrameMade DEF PlainKinds
<1>4. dev.events + 1 \in Nat /\ s \in Seq(Activations) /\ Open("call") \in BOOLEAN
  BY <1>1 DEF DevStates, Open
<1>5. e \in Activations /\ e.kind = "call"
  BY DEF Activations
<1> HIDE DEF g, e
<1>6. /\ Append(s, e) \in Seq(Activations) /\ n \in Nat /\ n + 1 \in Nat /\ n + 1 # 0
      /\ DOMAIN s = 1 .. n /\ DOMAIN Append(s, e) = 1 .. n + 1
      /\ \A i \in 1 .. n : Append(s, e)[i] = s[i]
      /\ Append(s, e)[n + 1] = e
  BY <1>4, <1>5, Pushed
<1> HIDE DEF n
<1>7. /\ dev' \in DevStates /\ dev'.stack = Append(s, e) /\ dev'.ret = n + 1 /\ dev'.waiting
      /\ dev'.timedOut = dev.timedOut /\ dev'.mixups = dev.mixups
      /\ dev'.nestedParams = dev.nestedParams /\ dev'.received = dev.received
      /\ dev'.value = dev.value /\ dev'.brokenOff = dev.brokenOff
      /\ dev'.nestedCalls = (dev.nestedCalls \/ Open("call"))
      /\ dev'.strayWrite = dev.strayWrite
  <2> HIDE DEF s
  <2> QED
    BY <1>1, <1>2, <1>4, <1>6 DEF DevStates
<1>8. ASSUME NEW kinds, "call" \notin kinds PROVE Quiet(kinds)
  BY <1>1, <1>2, <1>3, <1>8, AppendFrame, SameFewer DEF Quiet, Lines
<1>9. Quiet(ParamKinds) /\ Quiet(RequestKinds)
  BY <1>8 DEF ParamKinds, RequestKinds
<1>10. ParamsKept
  <2>1. ASSUME NEW i, Requests(i) PROVE Requests(i)' /\ dev'.stack[i].asked = s[i].asked
    <3>1. i \in 1 .. n /\ i \in 1 .. n + 1
      BY <1>6, <2>1 DEF Requests
    <3> QED
      BY <1>6, <1>7, <2>1, <3>1 DEF Requests
  <2>2. ASSUME NEW i, Requests(i)' PROVE Requests(i)
    <3>1. i \in 1 .. n + 1 /\ Append(s, e)[i].kind = "param"
      BY <1>6, <1>7, <2>2 DEF Requests
    <3>2. i \in 1 .. n
      BY <1>5, <1>6, <3>1
    <3> QED
      BY <1>6, <3>1, <3>2 DEF Requests
  <2> QED
    BY <1>7, <2>1, <2>2 DEF ParamsKept
<1>11. ParamsOnTheirWay' /\ ParamMismatchNeedsTimeout'
  BY <1>9, <1>10, QuietKeeps, ParamStep DEF ClientInv
<1>12. StrayAnswerNeedsBreak'
  BY <1>7 DEF ClientInv, StrayAnswerNeedsBreak
<1>13. RetOnStack'
  BY <1>5, <1>6, <1>7 DEF RetOnStack
<1>14. CallsOnTheirWay'
  <2> SUFFICES ASSUME ~dev.brokenOff, ~dev.nestedCalls, ~Open("call") PROVE Sole(CallKinds)'
    BY <1>6, <1>7 DEF CallsOnTheirWay
  <2>1. dev.ret = 0
    BY DEF ClientInv, RetOnStack, Open
  <2>2. Sole3(up, queue, down, CallKinds) /\ All3(up, queue, down, CallKinds) = {}
    BY <2>1, SoleIsSole3 DEF ClientInv, CallsOnTheirWay
  <2>3. Sole3(up, queue, down', CallKinds) /\ All3(up, queue, down', CallKinds) = {}
    BY <2>2 DEF Fewer, Sole3, All3, Apart
  <2>4. g[1] \in CallKinds
    BY <1>3 DEF CallKinds
  <2>5. down' \in Seq(Frames)
    BY DEF Fewer
  <2>6. ASSUME NEW d \in Seq(Frames), Sole3(up, queue, d, CallKinds),
               All3(up, queue, d, CallKinds) = {}
        PROVE  Sole3(Append(up, g), queue, d, CallKinds)
    BY <1>1, <1>3, <2>4, <2>6, Starts DEF Lines
  <2> QED
    BY <1>2, <2>3, <2>5, <2>6, SoleIsSole3
<1> QED
  BY <1>7, <1>9, <1>11, <1>12, <1>13, <1>14, QuietKeeps, DeviceStep DEF Quiet, Fewer, QuestionInv

LEMMA AsksStep ==
  ASSUME ClientInv, UNCHANGED clientVars, \A kinds : Fewer(down, down', kinds), Asks
  PROVE  ClientInv'
  BY AskStep, CallStartStep DEF Asks

LEMMA MessageStep == ASSUME ClientInv, spin_message, UNCHANGED clientVars PROVE ClientInv'
<1>1. Lines /\ dev \in DevStates
  BY LinesOfClient DEF ClientInv, TypeOK
<1>2. \A kinds : Fewer(down, down', kinds)
  BY <1>1, TakeFewer DEF spin_message
<1>3. CASE Asks
  BY <1>2, <1>3, AsksStep
<1>4. CASE UNCHANGED <<up, devVars>>
  <2>1. Undisturbed
    BY <1>1, <1>4, MarkedUndisturbed DEF devVars
  <2> QED
    BY <1>1, <1>2, <1>4, <2>1, SameFewer, UndisturbedStep
<1> QED
  BY <1>3, <1>4 DEF spin_message

LEMMA LoopAsksStep == ASSUME ClientInv, LoopAsks, UNCHANGED clientVars PROVE ClientInv'
<1>1. \A kinds : Fewer(down, down', kinds)
  BY LinesOfClient, SameFewer DEF LoopAsks
<1> QED
  BY <1>1, AsksStep DEF LoopAsks

LEMMA TimeoutStep ==
  ASSUME ClientInv, UNCHANGED clientVars, requestParam_timeout PROVE ClientInv'
<1>1. Lines /\ dev \in DevStates
  BY LinesOfClient DEF ClientInv, TypeOK
<1>2. Spinning("param") /\ dev' = [dev EXCEPT !.stack = Return, !.timedOut = TRUE]
  BY DEF requestParam_timeout
<1>3. Return \in Seq(Activations)
  BY <1>1, <1>2, Popped DEF Spinning, Return, DevStates
<1>4. /\ dev' \in DevStates /\ dev'.stack = Return /\ dev'.timedOut
      /\ dev'.mixups = dev.mixups /\ dev'.nestedParams = dev.nestedParams
      /\ dev'.ret = dev.ret /\ dev'.waiting = dev.waiting /\ dev'.brokenOff = dev.brokenOff
      /\ dev'.nestedCalls = dev.nestedCalls /\ dev'.strayWrite = dev.strayWrite
  BY <1>1, <1>2, <1>3 DEF DevStates
<1>5. "log" \in PlainKinds \ {"call", "answer"}
  BY DEF PlainKinds
<1>6. Fewer(up, up', CallKinds) /\ Fewer(up, up', RequestKinds)
  BY <1>1, <1>5, PlainPublish DEF requestParam_timeout, logwarn
<1>7. Quiet(CallKinds) /\ Quiet(RequestKinds)
  BY <1>1, <1>6, SameFewer DEF Quiet, requestParam_timeout, clientVars
<1>8. ParamsOnTheirWay' /\ ParamMismatchNeedsTimeout'
  BY <1>4 DEF ClientInv, ParamsOnTheirWay, ParamMismatchNeedsTimeout
<1>9. CallsKept
  BY <1>2, <1>4, ParamReturnKeepsCalls
<1>10. QuestionInv'
  BY <1>7, <1>8, <1>9, QuietKeeps, CallStep DEF ClientInv, QuestionInv
<1> QED
  BY <1>4, <1>7, <1>10, QuietKeeps, DeviceStep DEF Quiet, Fewer

-----------------------------------------------------------------------------
LEMMA InitClientInv == ASSUME Init PROVE ClientInv
<1>1. up = <<>> /\ down = <<>> /\ queue = <<<<"topics">>>> /\ response = None
  BY DEF Init, DevInit
<1>2. <<"topics">> \in Frames
  BY FrameMade DEF PlainKinds
<1>3. /\ dev \in DevStates /\ ~dev.strayWrite /\ dev.mixups = {}
      /\ dev.ret = 0 /\ dev.stack = <<>>
  BY DEF Init, DevInit, DevStates
<1>4. client \in ClientStates /\ client.run = "reading" /\ client.callbacks = {}
  BY DEF Init, NewClient, ClientStates
<1>5. ros \in RosStates
  BY DEF Init, RosStates
<1>6. /\ callers \in [Callers -> CallStates]
      /\ \A c \in Callers : callers[c].st = "idle" /\ callers[c].alone
  BY DEF Init, NoCalls, CallStates
<1>7. TypeOK
  BY <1>1, <1>2, <1>3, <1>4, <1>5, <1>6 DEF TypeOK
<1>8. ASSUME NEW kinds, "topics" \notin kinds PROVE Sole(kinds) /\ InTransit(kinds) = {}
  BY <1>1, <1>8 DEF Sole, InTransit, One, FramesIn
<1>9. /\ "topics" \notin ParamKinds /\ "topics" \notin CallKinds /\ "topics" \notin RequestKinds
  BY DEF ParamKinds, CallKinds, RequestKinds
<1>10. ParamsOnTheirWay /\ CallsOnTheirWay /\ RetOnStack
  BY <1>3, <1>8, <1>9 DEF ParamsOnTheirWay, CallsOnTheirWay, RetOnStack, Requests
<1>11. RequestsOnTheirWay
  BY <1>1, <1>6, <1>8, <1>9 DEF RequestsOnTheirWay, Waits
<1>12. ParamMismatchNeedsTimeout /\ StrayAnswerNeedsBreak /\ ExitedIsOver /\ ResponseHasServer
  BY <1>1, <1>3, <1>4
  DEF ParamMismatchNeedsTimeout, StrayAnswerNeedsBreak, ExitedIsOver, ResponseHasServer
<1>13. MixupNeedsOverlap /\ IdleIsAlone
  BY <1>6 DEF MixupNeedsOverlap, IdleIsAlone
<1> QED
  BY <1>7, <1>10, <1>11, <1>12, <1>13 DEF ClientInv

LEMMA NextKeepsClientInv == ASSUME ClientInv, [Next]_vars PROVE ClientInv'
<1>1. CASE UNCHANGED vars
  <2>1. UNCHANGED <<up, down, dev, client, queue, ros, callers, response>>
    BY <1>1 DEF vars, devVars, clientVars
  <2>2. client \in ClientStates /\ ros \in RosStates /\ Lines
    BY LinesOfClient DEF ClientInv, TypeOK
  <2>3. Aside
    BY <2>1, <2>2 DEF Aside
  <2>4. ASSUME NEW kinds PROVE Quiet(kinds)
    BY <2>1, <2>2, SameFewer DEF Quiet
  <2> QED
    BY <2>3, <2>4, QuietAsideStep
<1>2. CASE Device
  <2>1. UNCHANGED clientVars
    BY <1>2 DEF Device
  <2>2. CASE Spin
    BY <2>1, <2>2, TopicsStep, UndisturbedSteps, ValueStep, ParamReturnStep, AnswerStep,
       ServerStep, MessageStep
    DEF Spin
  <2>3. CASE Sketch
    BY <2>1, <2>3, UndisturbedSteps, LoopAsksStep, TimeoutStep DEF Sketch
  <2> QED
    BY <1>2, <2>2, <2>3 DEF Device
<1>3. CASE Run
  BY <1>3, SetupSteps, PlainSteps, ParameterStep, ServerResponseStep, ClientCallStep, LossSteps
  DEF Run
<1>4. CASE SyncLost \/ ReadFails \/ txStopRequest \/ Subscriber_callback
  BY <1>4, PlainSteps
<1>5. CASE serial_node \/ startSerialClient \/ is_shutdown
  BY <1>5, RestartSteps
<1>6. CASE Disconnects \/ ServiceAppears \/ FrameLost
  BY <1>6, LossSteps
<1>7. CASE processWriteQueue
  BY <1>7, WriteStep
<1>8. CASE \E c \in Callers : ServiceServer_callback(c) \/ ServiceServer_returns(c)
  BY <1>8, CallbackStep, ReturnStep
<1> QED
  BY <1>1, <1>2, <1>3, <1>4, <1>5, <1>6, <1>7, <1>8 DEF Next

\* For any sketches, parameters and callers, any loss and any number of new
\* clients: at most one question of each sort and its answer are under way, as
\* long as no request for a parameter has timed out, no call of the device has
\* been broken off, no callback has asked what an interrupted one waits for,
\* and no two callers of its service have overlapped.
THEOREM ClientInvariant == Spec => []ClientInv
<1>1. Init => ClientInv
  BY InitClientInv
<1>2. ClientInv /\ [Next]_vars => ClientInv'
  BY NextKeepsClientInv
<1> QED
  BY <1>1, <1>2, PTL DEF Spec

\* getParam() never returns the value of another parameter unless an earlier
\* request of the sketch has timed out or a callback has asked for one while a
\* request waited, at any depth, and then only one of the same type and length.
THEOREM MismatchedParamNeedsTimeout == Spec => []ParamMismatchNeedsTimeout
<1>1. ClientInv => ParamMismatchNeedsTimeout
  BY DEF ClientInv
<1> QED
  BY <1>1, ClientInvariant, PTL

\* ServiceClient::callback() never stores an answer through the response of a
\* call() that has returned, unless some call() was broken off or a callback
\* called while a call() waited, at any depth.
THEOREM StrayWriteNeedsBreak == Spec => []StrayAnswerNeedsBreak
<1>1. ClientInv => StrayAnswerNeedsBreak
  BY DEF ClientInv
<1> QED
  BY <1>1, ClientInvariant, PTL

\* A caller of ServiceServer.callback() gets the answer to its own request
\* unless two calls have overlapped.
THEOREM MixedUpNeedsOverlap == Spec => []MixupNeedsOverlap
<1>1. ClientInv => MixupNeedsOverlap
  BY DEF ClientInv
<1> QED
  BY <1>1, ClientInvariant, PTL

-----------------------------------------------------------------------------
(* Induction on the natural numbers, for sets.                              *)

LEMMA Smallest ==
  ASSUME NEW T \in SUBSET Nat, T # {}
  PROVE  \E n \in T : \A k \in T : n <= k
<1> DEFINE F == {0 .. n : n \in T}
<1>1. F \subseteq FiniteSubsetsOf(Nat) /\ F # {}
  <2>1. \A n \in T : 0 .. n \in SUBSET Nat /\ IsFiniteSet(0 .. n)
    BY FS_Interval
  <2> QED
    BY <2>1 DEF FiniteSubsetsOf
<1>2. IsWellFoundedOn(StrictSubsetOrdering(Nat), FiniteSubsetsOf(Nat))
  BY FS_StrictSubsetOrderingWellFounded
<1> HIDE DEF F
<1>3. PICK x \in F : \A y \in F : ~(<<y, x>> \in StrictSubsetOrdering(Nat))
  BY <1>1, <1>2, WFMin
<1>4. PICK n \in T : x = 0 .. n
  BY DEF F
<1>5. ASSUME NEW k \in T, k < n PROVE FALSE
  <2>1. 0 .. k \in F /\ 0 .. k \subseteq 0 .. n /\ n \notin 0 .. k /\ n \in 0 .. n
    BY <1>5 DEF F
  <2>2. 0 .. k \in SUBSET Nat /\ 0 .. n \in SUBSET Nat /\ 0 .. k # 0 .. n
    BY <2>1
  <2> QED
    BY <1>3, <1>4, <2>1, <2>2 DEF StrictSubsetOrdering
<1> QED
  BY <1>5

LEMMA Induction ==
  ASSUME NEW S, 0 \in S, \A n \in Nat : n \in S => n + 1 \in S
  PROVE  Nat \subseteq S
<1> SUFFICES ASSUME Nat \ S # {} PROVE FALSE
  OBVIOUS
<1>1. PICK n \in Nat \ S : \A k \in Nat \ S : n <= k
  BY Smallest
<1>2. n # 0 /\ n - 1 \in Nat /\ n - 1 \in S
  BY <1>1
<1> QED
  BY <1>1, <1>2

-----------------------------------------------------------------------------
(* Sequences.                                                              *)

LEMMA Joins ==
  ASSUME NEW s \in Octets, NEW t \in Octets
  PROVE  /\ s \o t \in Octets /\ Len(s) \in Nat /\ Len(t) \in Nat
         /\ Len(s \o t) = Len(s) + Len(t)
         /\ \A i \in 1 .. Len(s) : (s \o t)[i] = s[i]
         /\ \A i \in 1 .. Len(t) : (s \o t)[i + Len(s)] = t[i]
<1> DEFINE B == 0 .. 255
<1>1. s \in Seq(B) /\ t \in Seq(B)
  BY DEF Octets
<1> HIDE DEF B
<1>2. /\ s \o t \in Seq(B) /\ Len(s) \in Nat /\ Len(t) \in Nat
      /\ Len(s \o t) = Len(s) + Len(t)
      /\ \A i \in 1 .. Len(s) : (s \o t)[i] = s[i]
      /\ \A i \in 1 .. Len(t) : (s \o t)[i + Len(s)] = t[i]
  BY <1>1
<1> QED
  BY <1>2 DEF Octets, B

LEMMA OctetsAreNumbers ==
  ASSUME NEW s \in Octets
  PROVE  /\ s \in Seq(Nat) /\ Len(s) \in Nat
         /\ \A i \in 1 .. Len(s) : s[i] \in 0 .. 255
<1> DEFINE B == 0 .. 255
<1>0. B \subseteq Nat
  OBVIOUS
<1>1. s \in Seq(B)
  BY DEF Octets
<1> HIDE DEF B
<1>2. Len(s) \in Nat /\ \A i \in 1 .. Len(s) : s[i] \in B
  BY <1>1
<1>3. \A i \in 1 .. Len(s) : s[i] \in Nat
  BY <1>0, <1>2
<1>4. s \in [1 .. Len(s) -> Nat]
  BY <1>1, <1>3
<1> QED
  BY <1>2, <1>3, <1>4 DEF B

-----------------------------------------------------------------------------
(* Sums and escaped bytes.                                                 *)

(* The recursion of totals() has a solution. *)
LEMMA TotalsDef ==
  ASSUME NEW s \in Seq(Nat)
  PROVE  totals(s) = [i \in 0 .. Len(s) |-> IF i = 0 THEN 0 ELSE totals(s)[i - 1] + s[i]]
<1> DEFINE Solves(g, n) == g = [i \in 0 .. n |-> IF i = 0 THEN 0 ELSE g[i - 1] + s[i]]
           S == {n \in Nat : n <= Len(s) => \E g : Solves(g, n)}
<1>1. 0 \in S
  <2> DEFINE g == [i \in 0 .. 0 |-> 0]
  <2>1. Solves(g, 0)
    OBVIOUS
  <2> QED
    BY <2>1
<1>2. ASSUME NEW n \in Nat, n \in S PROVE n + 1 \in S
  <2> SUFFICES ASSUME n + 1 <= Len(s) PROVE \E g : Solves(g, n + 1)
    OBVIOUS
  <2>0. Len(s) \in Nat
    OBVIOUS
  <2>1. PICK g : Solves(g, n)
    BY <1>2, <2>0
  <2> DEFINE h == [i \in 0 .. n + 1 |-> IF i = n + 1 THEN g[n] + s[n + 1] ELSE g[i]]
  <2>2. Solves(h, n + 1)
    BY <2>1
  <2> QED
    BY <2>2
<1> HIDE DEF S
<1>3. Nat \subseteq S
  BY <1>1, <1>2, Induction
<1>4. PICK g : Solves(g, Len(s))
  BY <1>3 DEF S
<1> QED
  BY <1>4 DEF totals

LEMMA TotalType ==
  ASSUME NEW s \in Seq(Nat)
  PROVE  Total(s) \in Nat
<1> DEFINE f == totals(s)
           S == {n \in Nat : n <= Len(s) => f[n] \in Nat}
<1>1. f = [i \in 0 .. Len(s) |-> IF i = 0 THEN 0 ELSE f[i - 1] + s[i]] /\ Len(s) \in Nat
  BY TotalsDef
<1> HIDE DEF f
<1>2. 0 \in S
  BY <1>1
<1>3. ASSUME NEW n \in Nat, n \in S PROVE n + 1 \in S
  <2> SUFFICES ASSUME n + 1 <= Len(s) PROVE f[n + 1] \in Nat
    OBVIOUS
  <2>1. f[n] \in Nat /\ n + 1 \in 1 .. Len(s) /\ n + 1 \in 0 .. Len(s)
    BY <1>1, <1>3
  <2>2. s[n + 1] \in Nat
    BY <2>1
  <2> QED
    BY <1>1, <2>1, <2>2
<1> HIDE DEF S
<1>4. Nat \subseteq S
  BY <1>2, <1>3, Induction
<1> QED
  BY <1>1, <1>4 DEF S, Total, f

(* The lengths of the fields of a reception, whose sum _split_response() uses. *)
LEMMA ReceptionHeader == Total(<<2, 1, 1>>) = 4
<1> DEFINE s == <<2, 1, 1>>
           f == totals(s)
<1>1. s \in Seq(Nat) /\ Len(s) = 3 /\ s[1] = 2 /\ s[2] = 1 /\ s[3] = 1
  OBVIOUS
<1> HIDE DEF s
<1>2. f = [i \in 0 .. 3 |-> IF i = 0 THEN 0 ELSE f[i - 1] + s[i]]
  BY <1>1, TotalsDef
<1> HIDE DEF f
<1>3. f[0] = 0 /\ f[1] = f[0] + 2 /\ f[2] = f[1] + 1 /\ f[3] = f[2] + 1
  <2>1. f[0] = 0
    BY <1>2
  <2>2. \A i \in 1 .. 3 : f[i] = f[i - 1] + s[i]
    BY <1>2
  <2> QED
    BY <1>1, <2>1, <2>2
<1>4. f[3] = 4
  BY <1>3
<1> QED
  BY <1>1, <1>4 DEF Total, f, s

(* Escaping twice gives the byte back. *)
LEMMA EscapeUndone ==
  ASSUME NEW b \in ESCAPE_BYTES
  PROVE  Xor20(b) \in 0 .. 255 /\ Xor20(Xor20(b)) = b
<1>1. /\ Xor20(126) = 94 /\ Xor20(94) = 126 /\ Xor20(125) = 93 /\ Xor20(93) = 125
      /\ Xor20(17) = 49 /\ Xor20(49) = 17 /\ Xor20(19) = 51 /\ Xor20(51) = 19
  BY DEF Xor20
<1>2. b = 126 \/ b = 125 \/ b = 17 \/ b = 19
  BY DEF ESCAPE_BYTES, START_BYTE, ESCAPE_BYTE
<1> QED
  BY <1>1, <1>2

(* The recursion of escaping() has a solution. *)
EscapesFrom(s, l, g, a) ==
  g = [i \in a .. l + 1 |-> IF i > l THEN <<>> ELSE Escaped(s[i]) \o g[i + 1]]

LEMMA EscapesFromBefore ==
  ASSUME NEW s, NEW l \in Nat, NEW a \in 1 .. l, NEW g, EscapesFrom(s, l, g, a + 1)
  PROVE  \E h : EscapesFrom(s, l, h, a)
<1> DEFINE first == Escaped(s[a]) \o g[a + 1]
           h == [i \in a .. l + 1 |-> IF i = a THEN first ELSE g[i]]
<1> HIDE DEF first
<1>1. ASSUME NEW i \in a .. l + 1
      PROVE  h[i] = IF i > l THEN <<>> ELSE Escaped(s[i]) \o h[i + 1]
  <2>1. CASE i = a
    <3>1. a + 1 \in a .. l + 1 /\ a + 1 # a /\ ~(a > l)
      OBVIOUS
    <3>2. h[a] = first /\ h[a + 1] = g[a + 1]
      BY <3>1
    <3> HIDE DEF h
    <3> QED
      BY <2>1, <3>1, <3>2 DEF first
  <2>2. CASE i # a
    <3>1. i \in a + 1 .. l + 1 /\ h[i] = g[i]
      BY <2>2
    <3>2. g[i] = IF i > l THEN <<>> ELSE Escaped(s[i]) \o g[i + 1]
      BY <3>1 DEF EscapesFrom
    <3>3. ~(i > l) => h[i + 1] = g[i + 1]
      BY <3>1
    <3> HIDE DEF h
    <3> QED
      BY <3>1, <3>2, <3>3
  <2> QED
    BY <2>1, <2>2
<1>2. h = [i \in a .. l + 1 |-> h[i]]
  OBVIOUS
<1> HIDE DEF h
<1>3. EscapesFrom(s, l, h, a)
  BY <1>1, <1>2 DEF EscapesFrom
<1> QED
  BY <1>3

LEMMA EscapingDef ==
  ASSUME NEW s, NEW l \in Nat, Len(s) = l
  PROVE  EscapesFrom(s, l, escaping(s), 1)
<1> DEFINE S == {n \in Nat : n <= l => \E g : EscapesFrom(s, l, g, (l + 1) - n)}
<1>1. 0 \in S
  <2> DEFINE empty == <<>>
             g == [i \in l + 1 .. l + 1 |-> empty]
  <2> HIDE DEF empty
  <2>0. /\ \A i \in l + 1 .. l + 1 : i > l /\ g[i] = empty
        /\ g = [i \in l + 1 .. l + 1 |-> g[i]]
    OBVIOUS
  <2> HIDE DEF g
  <2>1. EscapesFrom(s, l, g, l + 1)
    BY <2>0 DEF EscapesFrom, empty
  <2>2. \E h : EscapesFrom(s, l, h, (l + 1) - 0)
    BY <2>1
  <2> QED
    BY <2>2
<1>2. ASSUME NEW n \in Nat, n \in S PROVE n + 1 \in S
  <2> SUFFICES ASSUME n + 1 <= l PROVE \E g : EscapesFrom(s, l, g, (l + 1) - (n + 1))
    OBVIOUS
  <2>1. PICK g : EscapesFrom(s, l, g, (l + 1) - n)
    BY <1>2
  <2> DEFINE a == (l + 1) - (n + 1)
  <2>2. a \in 1 .. l /\ a + 1 = (l + 1) - n
    OBVIOUS
  <2> HIDE DEF a
  <2>3. \E h : EscapesFrom(s, l, h, a)
    BY <2>1, <2>2, EscapesFromBefore
  <2> QED
    BY <2>3 DEF a
<1>3. l \in S
  <2> HIDE DEF S
  <2> QED
    BY <1>1, <1>2, Induction
<1>4. PICK g : EscapesFrom(s, l, g, 1)
  <2>1. (l + 1) - l = 1
    OBVIOUS
  <2> QED
    BY <1>3, <2>1
<1> QED
  BY <1>4 DEF escaping, EscapesFrom

LEMMA EscapingSteps ==
  ASSUME NEW s \in Octets
  PROVE  /\ escaping(s)[Len(s) + 1] = <<>>
         /\ \A i \in 1 .. Len(s) : escaping(s)[i] = Escaped(s[i]) \o escaping(s)[i + 1]
         /\ \A i \in 1 .. Len(s) + 1 : escaping(s)[i] \in Octets
<1> DEFINE f == escaping(s)
           l == Len(s)
           S == {n \in Nat : n <= l => f[(l + 1) - n] \in Octets}
<1>1. l \in Nat /\ \A i \in 1 .. l : s[i] \in 0 .. 255
  <2> DEFINE B == 0 .. 255
  <2>1. s \in Seq(B)
    BY DEF Octets
  <2> HIDE DEF B
  <2>2. Len(s) \in Nat /\ \A i \in 1 .. Len(s) : s[i] \in B
    BY <2>1
  <2> QED
    BY <2>2 DEF B
<1>2. f = [i \in 1 .. l + 1 |-> IF i > l THEN <<>> ELSE Escaped(s[i]) \o f[i + 1]]
  BY <1>1, EscapingDef DEF EscapesFrom
<1> HIDE DEF f, l
<1>3. f[l + 1] = <<>> /\ \A i \in 1 .. l : f[i] = Escaped(s[i]) \o f[i + 1]
  <2>1. \A i \in 1 .. l + 1 : f[i] = IF i > l THEN <<>> ELSE Escaped(s[i]) \o f[i + 1]
    BY <1>2, Zenon
  <2>2. l + 1 \in 1 .. l + 1 /\ l + 1 > l
    BY <1>1
  <2>3. \A i \in 1 .. l : i \in 1 .. l + 1 /\ ~(i > l)
    BY <1>1
  <2> QED
    BY <2>1, <2>2, <2>3
<1>4. <<>> \in Octets
  BY DEF Octets
<1>5. \A b \in 0 .. 255 : Escaped(b) \in Octets
  <2> SUFFICES ASSUME NEW b \in 0 .. 255 PROVE Escaped(b) \in Octets
    OBVIOUS
  <2>1. CASE b \in ESCAPE_BYTES
    <3>1. Xor20(b) \in 0 .. 255 /\ ESCAPE_BYTE \in 0 .. 255
      BY <2>1, EscapeUndone DEF ESCAPE_BYTE
    <3>2. <<ESCAPE_BYTE, Xor20(b)>> \in Octets
      BY <3>1 DEF Octets
    <3> QED
      BY <2>1, <3>2 DEF Escaped
  <2>2. CASE b \notin ESCAPE_BYTES
    BY <2>2 DEF Escaped, Octets
  <2> QED
    BY <2>1, <2>2
<1>6. 0 \in S
  BY <1>1, <1>3, <1>4
<1>7. ASSUME NEW n \in Nat, n \in S PROVE n + 1 \in S
  <2> SUFFICES ASSUME n + 1 <= l PROVE f[(l + 1) - (n + 1)] \in Octets
    OBVIOUS
  <2> DEFINE i == l - n
  <2>1. i \in 1 .. l /\ i + 1 = (l + 1) - n /\ i = (l + 1) - (n + 1)
    BY <1>1
  <2>2. f[i + 1] \in Octets
    BY <1>1, <1>7, <2>1
  <2> HIDE DEF i
  <2>3. Escaped(s[i]) \in Octets
    BY <1>1, <1>5, <2>1
  <2>4. Escaped(s[i]) \o f[i + 1] \in Octets
    BY <2>2, <2>3, ConcatProperties DEF Octets
  <2> QED
    BY <1>3, <2>1, <2>4
<1> HIDE DEF S
<1>8. \A i \in 1 .. l + 1 : f[i] \in Octets
  <2> SUFFICES ASSUME NEW i \in 1 .. l + 1 PROVE f[i] \in Octets
    OBVIOUS
  <2>1. (l + 1) - i \in Nat /\ (l + 1) - i <= l /\ (l + 1) - ((l + 1) - i) = i
    BY <1>1
  <2>2. (l + 1) - i \in S
    BY <1>6, <1>7, <2>1, Induction
  <2> QED
    BY <2>1, <2>2 DEF S
<1> QED
  BY <1>3, <1>8 DEF f, l

-----------------------------------------------------------------------------
(* One frame, byte by byte.                                                *)

\* What a frame may carry, and what it holds between start byte and end.
Sendable(data) == data \in Octets /\ Len(data) < 32768
Body(data) == len_bytes(data) \o data \o <<checksum(data)>>

\* The receiver when it has k bytes of the body, and whether an escape byte came
\* before the next.
Raw(body, k) == <<START_BYTE>> \o SubSeq(body, 1, k)
Partial(body, k, u) == [mode |-> 1, raw |-> Raw(body, k), unescape |-> u]

LEMMA RawGrows ==
  ASSUME NEW body \in Octets, NEW k \in Nat, k <= Len(body)
  PROVE  /\ Raw(body, k) \in Octets /\ Len(Raw(body, k)) = k + 1
         /\ Raw(body, k)[1] = START_BYTE
         /\ \A i \in 1 .. k : Raw(body, k)[i + 1] = body[i]
         /\ k < Len(body) => Raw(body, k + 1) = Append(Raw(body, k), body[k + 1])
<1> DEFINE B == 0 .. 255
           raw == Raw(body, k)
<1>1. body \in Seq(B) /\ START_BYTE \in B
  BY DEF Octets, START_BYTE
<1> HIDE DEF B
<1>2. Len(body) \in Nat
  BY <1>1
<1>3. /\ SubSeq(body, 1, k) \in Seq(B) /\ Len(SubSeq(body, 1, k)) = k
      /\ \A i \in 1 .. k : SubSeq(body, 1, k)[i] = body[i]
  BY <1>1, <1>2
<1> DEFINE part == SubSeq(body, 1, k)
           start == START_BYTE
<1> HIDE DEF start, part
<1>4. /\ <<start>> \o part \in Seq(B) /\ Len(<<start>> \o part) = k + 1
      /\ (<<start>> \o part)[1] = start
      /\ \A i \in 1 .. k : (<<start>> \o part)[i + 1] = part[i]
  BY <1>1, <1>3 DEF part, start
<1>5. raw = <<start>> \o part
  BY DEF Raw, part, start
<1>6. ASSUME k < Len(body) PROVE Raw(body, k + 1) = Append(raw, body[k + 1])
  <2> DEFINE next == SubSeq(body, 1, k + 1)
             c == body[k + 1]
  <2>1. /\ next \in Seq(B) /\ Len(next) = k + 1 /\ c \in B
        /\ \A i \in 1 .. k + 1 : next[i] = body[i]
    BY <1>1, <1>2, <1>6
  <2>2. part \in Seq(B) /\ Len(part) = k /\ \A i \in 1 .. k : part[i] = body[i]
    BY <1>3 DEF part
  <2> HIDE DEF next, c
  <2>3. next = Append(part, c)
    BY <2>1, <2>2 DEF c
  <2>4. <<start>> \o Append(part, c) = Append(<<start>> \o part, c)
    BY <1>1, <2>1, <2>2 DEF start
  <2> QED
    BY <1>5, <2>3, <2>4 DEF Raw, next, c, start
<1> HIDE DEF raw
<1>7. raw \in Seq(B) /\ Len(raw) = k + 1 /\ raw[1] = start /\ \A i \in 1 .. k : raw[i + 1] = body[i]
  BY <1>3, <1>4, <1>5 DEF part
<1> QED
  BY <1>6, <1>7 DEF raw, start, Octets, B

LEMMA Modulo256 ==
  ASSUME NEW t \in Nat
  PROVE  255 - (t % 256) \in 0 .. 255 /\ (t + (255 - (t % 256))) % 256 = 255
OBVIOUS

LEMMA BodyFacts ==
  ASSUME NEW data, Sendable(data)
  PROVE  /\ Body(data) \in Octets /\ Len(Body(data)) = Len(data) + 3 /\ Len(data) \in Nat
         /\ 256 * Body(data)[1] + Body(data)[2] = Len(data)
         /\ \A i \in 1 .. Len(data) : Body(data)[i + 2] = data[i]
         /\ Body(data)[Len(data) + 3] = checksum(data)
         /\ verify(data, checksum(data))
<1> DEFINE n == Len(data)
           c == checksum(data)
           h == n \div 256
           l == n % 256
<1>1. data \in Octets /\ n < 32768
  BY DEF Sendable
<1>2. data \in Seq(Nat) /\ n \in Nat
  BY <1>1, OctetsAreNumbers
<1>3. Total(data) \in Nat
  BY <1>2, TotalType
<1>4. c \in 0 .. 255 /\ verify(data, c)
  BY <1>3, Modulo256 DEF checksum, verify
<1> HIDE DEF n
<1>6. h \in 0 .. 255 /\ l \in 0 .. 255 /\ 256 * h + l = n
  BY <1>1, <1>2
<1> HIDE DEF c, h, l
<1> DEFINE head == <<h, l>>
           tail == <<c>>
<1>7. /\ head \in Octets /\ Len(head) = 2 /\ head[1] = h /\ head[2] = l
      /\ tail \in Octets /\ Len(tail) = 1 /\ tail[1] = c
  BY <1>4, <1>6 DEF Octets
<1> HIDE DEF head, tail
<1> DEFINE front == head \o data
           body == front \o tail
<1>8. /\ front \in Octets /\ Len(front) = n + 2 /\ front[1] = h /\ front[2] = l
      /\ \A i \in 1 .. n : front[i + 2] = data[i]
  <2>1. /\ front \in Octets /\ Len(front) = Len(head) + Len(data)
        /\ \A i \in 1 .. Len(head) : front[i] = head[i]
        /\ \A i \in 1 .. Len(data) : front[i + Len(head)] = data[i]
    <3>1. head \in Octets /\ data \in Octets
      BY <1>1, <1>7
    <3> QED
      BY <3>1, Joins
  <2>2. Len(data) = n
    BY DEF n
  <2>3. 1 \in 1 .. Len(head) /\ 2 \in 1 .. Len(head)
    BY <1>7
  <2> HIDE DEF front
  <2> QED
    BY <1>2, <1>7, <2>1, <2>2, <2>3
<1> HIDE DEF front
<1>9. /\ body \in Octets /\ Len(body) = n + 3
      /\ \A i \in 1 .. n + 2 : body[i] = front[i]
      /\ body[n + 3] = c
  <2>1. /\ body \in Octets /\ Len(body) = Len(front) + Len(tail)
        /\ \A i \in 1 .. Len(front) : body[i] = front[i]
        /\ \A i \in 1 .. Len(tail) : body[i + Len(front)] = tail[i]
    BY <1>7, <1>8, Joins
  <2> HIDE DEF body
  <2>2. body[1 + Len(front)] = c
    BY <1>7, <2>1
  <2>3. n \in Nat
    BY <1>2 DEF n
  <2> QED
    BY <1>7, <1>8, <2>1, <2>2, <2>3
<1> HIDE DEF body
<1>10. body = Body(data)
  BY DEF body, front, head, tail, Body, len_bytes, h, l, c, n
<1>11. /\ body[1] = h /\ body[2] = l /\ \A i \in 1 .. n : body[i + 2] = data[i]
  <2>1. n \in Nat
    BY <1>2 DEF n
  <2>2. 1 \in 1 .. n + 2 /\ 2 \in 1 .. n + 2 /\ \A i \in 1 .. n : i + 2 \in 1 .. n + 2
    BY <2>1
  <2> QED
    BY <1>8, <1>9, <2>2
<1> QED
  BY <1>2, <1>4, <1>6, <1>9, <1>10, <1>11 DEF n, c

\* How many bytes the receiver still waits for.
LEMMA Remaining ==
  ASSUME NEW data, Sendable(data), NEW k \in 0 .. Len(data) + 3, NEW u
  PROVE  /\ remaining_bytes(Partial(Body(data), k, u))
               = IF k >= 2 THEN (Len(data) + 3) - k ELSE 2 - k
         /\ k >= 2 => data_len(Partial(Body(data), k, u)) = Len(data)
<1> DEFINE body == Body(data)
           n == Len(data)
           f == Partial(body, k, u)
           raw == Raw(body, k)
<1>1. body \in Octets /\ Len(body) = n + 3 /\ n \in Nat /\ 256 * body[1] + body[2] = n /\ n < 32768
  BY BodyFacts DEF Sendable
<1> HIDE DEF body, n
<1>2. k \in Nat /\ k <= Len(body)
  BY <1>1 DEF n
<1>3. Len(raw) = k + 1 /\ \A i \in 1 .. k : raw[i + 1] = body[i]
  BY <1>1, <1>2, RawGrows
<1>4. f.raw = raw
  BY DEF Partial
<1> HIDE DEF f, raw
<1>5. ASSUME k >= 2 PROVE data_len(f) = n
  <2>1. raw[2] = body[1] /\ raw[3] = body[2]
    <3>1. 1 \in 1 .. k /\ 2 \in 1 .. k
      BY <1>2, <1>5
    <3>2. raw[1 + 1] = body[1] /\ raw[2 + 1] = body[2]
      BY <1>3, <3>1
    <3> QED
      BY <3>2
  <2>2. 256 * f.raw[2] + f.raw[3] = n
    BY <1>1, <1>4, <2>1
  <2> QED
    BY <1>1, <2>2 DEF data_len
<1>6. remaining_bytes(f) = IF k >= 2 THEN (n + 3) - k ELSE 2 - k
  BY <1>1, <1>2, <1>3, <1>4, <1>5 DEF remaining_bytes
<1> QED
  BY <1>5, <1>6 DEF f, body, n

LEMMA PayloadIs ==
  ASSUME NEW data, Sendable(data)
  PROVE  LET g == Partial(Body(data), Len(data) + 3, FALSE)
         IN  Payload(g) = data /\ Last(g.raw) = checksum(data)
<1> DEFINE body == Body(data)
           n == Len(data)
           raw == Raw(body, n + 3)
           g == Partial(body, n + 3, FALSE)
           m == Max({data_len(g), 0})
           part == SubSeq(raw, 4, 3 + n)
<1>1. /\ body \in Octets /\ Len(body) = n + 3 /\ n \in Nat /\ data \in Octets
      /\ body[n + 3] = checksum(data) /\ \A i \in 1 .. n : body[i + 2] = data[i]
  BY BodyFacts DEF Sendable
<1>2. data_len(g) = n
  <2>1. n + 3 \in 0 .. n + 3 /\ n + 3 >= 2
    BY <1>1
  <2> DEFINE k == n + 3
  <2> HIDE DEF k
  <2>2. k \in 0 .. Len(data) + 3 /\ k >= 2
    BY <2>1 DEF k
  <2>3. data_len(Partial(Body(data), k, FALSE)) = Len(data)
    BY <2>2, Remaining
  <2> QED
    BY <2>3 DEF k
<1> HIDE DEF body, n
<1>3. Len(raw) = n + 4 /\ raw \in Octets /\ \A i \in 1 .. n + 3 : raw[i + 1] = body[i]
  BY <1>1, RawGrows
<1>4. g.raw = raw
  BY DEF Partial
<1>5. m = n
  <2>1. m = Max({n, 0})
    BY <1>2
  <2> HIDE DEF m
  <2> QED
    BY <1>1, <2>1 DEF Max
<1> HIDE DEF raw, g, m
<1>6. Last(g.raw) = checksum(data)
  <2>1. raw[(n + 3) + 1] = body[n + 3]
    BY <1>1, <1>3
  <2>2. raw[n + 4] = checksum(data)
    BY <1>1, <2>1
  <2> QED
    BY <1>3, <1>4, <2>2 DEF Last
<1>7. part = data
  <2>1. raw \in Seq(Nat) /\ data \in Seq(Nat)
    BY <1>1, <1>3, OctetsAreNumbers
  <2>2. \A i \in 1 .. n : raw[i + 3] = data[i]
    <3> SUFFICES ASSUME NEW i \in 1 .. n PROVE raw[i + 3] = data[i]
      OBVIOUS
    <3>1. i + 2 \in 1 .. n + 3 /\ (i + 2) + 1 = i + 3
      BY <1>1
    <3> QED
      BY <1>1, <1>3, <3>1
  <2>3. part \in Seq(Nat) /\ Len(part) = n /\ \A i \in 1 .. n : part[i] = raw[i + 3]
    BY <1>1, <1>3, <2>1
  <2> HIDE DEF part
  <2>4. Len(data) = n
    BY DEF n
  <2>5. \A i \in 1 .. n : part[i] = data[i]
    BY <2>2, <2>3
  <2> QED
    BY <2>1, <2>3, <2>4, <2>5
<1>8. Payload(g) = data
  BY <1>4, <1>5, <1>7 DEF Payload, m
<1> QED
  BY <1>6, <1>8 DEF g, body, n

\* A byte that _wait_for_frame() gives to fill(), and the outcome.
Accepts(f, byte, g) == (f.mode = 0 => byte = START_BYTE) /\ fill([f EXCEPT !.mode = 1], byte) = g

\* What _wait_for_frame() does with a byte that brings the receiver to k bytes.
Reaches(f, byte, data, k, u) ==
  /\ k \in 0 .. Len(data) + 3 /\ u \in BOOLEAN /\ (k = Len(data) + 3 => u = FALSE)
  /\ Accepts(f, byte, Partial(Body(data), k, u))

Gives(f, byte, data, k, u) ==
  LET r == _wait_for_frame(f, byte)
  IN  /\ r.returns \in BOOLEAN /\ (r.returns <=> k = Len(data) + 3)
      /\ r.frame = Partial(Body(data), k, u)

LEMMA Outcome ==
  ASSUME NEW data, Sendable(data), NEW k, NEW u, NEW f, NEW byte, Reaches(f, byte, data, k, u)
  PROVE  Gives(f, byte, data, k, u)
<1>0. /\ k \in 0 .. Len(data) + 3 /\ u \in BOOLEAN /\ (k = Len(data) + 3 => u = FALSE)
      /\ Accepts(f, byte, Partial(Body(data), k, u))
  BY DEF Reaches
<1> DEFINE n == Len(data)
           g == Partial(Body(data), k, u)
           whole == remaining_bytes(g) <= 0
           valid == whole /\ verify(Payload(g), Last(g.raw))
           r == _wait_for_frame(f, byte)
<1>1. n \in Nat
  BY BodyFacts
<1>2. whole <=> k = n + 3
  <2>1. remaining_bytes(g) = IF k >= 2 THEN (n + 3) - k ELSE 2 - k
    BY <1>0, Remaining
  <2> HIDE DEF g, n
  <2>2. k \in 0 .. n + 3
    BY <1>0 DEF n
  <2> QED
    BY <1>1, <2>1, <2>2
<1>3. valid <=> k = n + 3
  <2>1. ASSUME k = n + 3 PROVE Payload(g) = data /\ Last(g.raw) = checksum(data)
    BY <1>0, <2>1, PayloadIs
  <2>2. verify(data, checksum(data))
    BY BodyFacts
  <2> HIDE DEF g, n, whole
  <2> QED
    BY <1>2, <2>1, <2>2
<1>4. r = [frame |-> IF whole /\ ~valid THEN NewFrame ELSE g, returns |-> valid]
  <2>1. ~(f.mode = 0 /\ byte # START_BYTE) /\ fill([f EXCEPT !.mode = 1], byte) = g
    BY <1>0, Zenon DEF Accepts
  <2> QED
    BY <2>1, Zenon DEF _wait_for_frame
<1>5. valid \in BOOLEAN
  BY DEF valid
<1> HIDE DEF valid, whole, g, r, n
<1>6. r.returns = valid /\ r.frame = g
  BY <1>2, <1>3, <1>4
<1> QED
  BY <1>3, <1>5, <1>6, Zenon DEF Gives, r, g, n

\* fill() on a receiver that is in a frame.
FrameState(m, r, u) == [mode |-> m, raw |-> r, unescape |-> u]

LEMMA ModeIsSet ==
  ASSUME NEW m, NEW r, NEW u, NEW f, f = FrameState(m, r, u)
  PROVE  [f EXCEPT !.mode = 1] = FrameState(1, r, u)
<1> DEFINE g == [f EXCEPT !.mode = 1]
<1>1. g = [f EXCEPT !.mode = 1]
  OBVIOUS
<1> HIDE DEF g
<1>2. g = FrameState(1, r, u)
  BY <1>1 DEF FrameState
<1> QED
  BY <1>2 DEF g

LEMMA FillByte ==
  ASSUME NEW raw, NEW byte, byte # ESCAPE_BYTE, NEW f, f = FrameState(1, raw, FALSE)
  PROVE  fill(f, byte) = FrameState(1, Append(raw, byte), FALSE)
<1> DEFINE s == Append(raw, byte)
           g == [f EXCEPT !.raw = s]
<1>1. f.raw = raw /\ f.unescape = FALSE
  BY DEF FrameState
<1>2. fill(f, byte) = [f EXCEPT !.raw = Append(f.raw, byte)]
  BY <1>1, Zenon DEF fill
<1>3. fill(f, byte) = g
  BY <1>1, <1>2, Zenon
<1>4. g = [f EXCEPT !.raw = s]
  OBVIOUS
<1> HIDE DEF g, s
<1>5. g = FrameState(1, s, FALSE)
  BY <1>4 DEF FrameState
<1> QED
  BY <1>3, <1>5, Zenon DEF s

LEMMA FillEscape ==
  ASSUME NEW raw, NEW f, f = FrameState(1, raw, FALSE)
  PROVE  fill(f, ESCAPE_BYTE) = FrameState(1, raw, TRUE)
<1> DEFINE g == [f EXCEPT !.unescape = TRUE]
<1>1. f.unescape = FALSE
  BY DEF FrameState
<1>2. fill(f, ESCAPE_BYTE) = g
  BY <1>1, Zenon DEF fill
<1>3. g = [f EXCEPT !.unescape = TRUE]
  OBVIOUS
<1> HIDE DEF g
<1>4. g = FrameState(1, raw, TRUE)
  BY <1>3 DEF FrameState
<1> QED
  BY <1>2, <1>4, Zenon

LEMMA FillEscaped ==
  ASSUME NEW raw, NEW byte, NEW f, f = FrameState(1, raw, TRUE)
  PROVE  fill(f, byte) = FrameState(1, Append(raw, Xor20(byte)), FALSE)
<1> DEFINE s == Append(raw, Xor20(byte))
           g == [f EXCEPT !.raw = s, !.unescape = FALSE]
<1>1. f.raw = raw /\ f.unescape = TRUE
  BY DEF FrameState
<1>2. fill(f, byte) = [f EXCEPT !.raw = Append(f.raw, Xor20(byte)), !.unescape = FALSE]
  BY <1>1, Zenon DEF fill
<1>3. fill(f, byte) = g
  BY <1>1, <1>2, Zenon
<1>4. g = [f EXCEPT !.raw = s, !.unescape = FALSE]
  OBVIOUS
<1> HIDE DEF g, s
<1>5. g = FrameState(1, s, FALSE)
  BY <1>4 DEF FrameState
<1> QED
  BY <1>3, <1>5, Zenon DEF s

LEMMA FillsFirst ==
  ASSUME NEW body \in Octets
  PROVE  fill([NewFrame EXCEPT !.mode = 1], START_BYTE) = Partial(body, 0, FALSE)
<1> DEFINE f == [NewFrame EXCEPT !.mode = 1]
           empty == <<>>
           one == Append(empty, START_BYTE)
<1>1. f = FrameState(1, empty, FALSE)
  <2> DEFINE new == NewFrame
             no == FALSE
             zero == 0
  <2>1. new = FrameState(zero, empty, no)
    BY DEF NewFrame, FrameState
  <2> HIDE DEF new, empty, no, zero
  <2>2. [new EXCEPT !.mode = 1] = FrameState(1, empty, no)
    BY <2>1, ModeIsSet
  <2> QED
    BY <2>2, Zenon DEF new, no
<1>2. START_BYTE # ESCAPE_BYTE
  BY DEF START_BYTE, ESCAPE_BYTE
<1>3. one = Raw(body, 0)
  <2>1. SubSeq(body, 1, 0) = <<>> /\ START_BYTE \in Nat
    BY DEF Octets, START_BYTE
  <2>2. \A c \in Nat : <<c>> \o <<>> = Append(<<>>, c)
    OBVIOUS
  <2> QED
    BY <2>1, <2>2 DEF Raw
<1> HIDE DEF f, empty
<1>4. fill(f, START_BYTE) = FrameState(1, Append(empty, START_BYTE), FALSE)
  BY <1>1, <1>2, FillByte
<1> QED
  BY <1>3, <1>4, Zenon DEF f, Partial, FrameState

LEMMA Fills ==
  ASSUME NEW body \in Octets, NEW k \in Nat, k < Len(body)
  PROVE  /\ \A u \in BOOLEAN : [Partial(body, k, u) EXCEPT !.mode = 1] = Partial(body, k, u)
         /\ body[k + 1] \notin ESCAPE_BYTES =>
              fill(Partial(body, k, FALSE), body[k + 1]) = Partial(body, k + 1, FALSE)
         /\ body[k + 1] \in ESCAPE_BYTES =>
              /\ fill(Partial(body, k, FALSE), ESCAPE_BYTE) = Partial(body, k, TRUE)
              /\ fill(Partial(body, k, TRUE), Xor20(body[k + 1])) = Partial(body, k + 1, FALSE)
<1> DEFINE raw == Raw(body, k)
           next == Raw(body, k + 1)
           b == body[k + 1]
           f == Partial(body, k, FALSE)
           g == Partial(body, k, TRUE)
           h == Partial(body, k + 1, FALSE)
<1>1. next = Append(raw, b)
  BY RawGrows
<1>2. ESCAPE_BYTE \in ESCAPE_BYTES
  BY DEF ESCAPE_BYTE, ESCAPE_BYTES
<1>3. f = FrameState(1, raw, FALSE) /\ g = FrameState(1, raw, TRUE) /\ h = FrameState(1, next, FALSE)
  BY Zenon DEF Partial, FrameState
<1>4. \A u \in BOOLEAN : [Partial(body, k, u) EXCEPT !.mode = 1] = Partial(body, k, u)
  <2> TAKE u \in BOOLEAN
  <2> DEFINE d == Partial(body, k, u)
  <2>1. d = FrameState(1, raw, u)
    BY Zenon DEF Partial, FrameState
  <2> HIDE DEF d, raw
  <2>2. [d EXCEPT !.mode = 1] = FrameState(1, raw, u)
    BY <2>1, ModeIsSet
  <2> QED
    BY <2>1, <2>2, Zenon DEF d
<1> HIDE DEF raw, next, b, f, g, h
<1>5. ASSUME b \notin ESCAPE_BYTES PROVE fill(f, b) = h
  <2>1. b # ESCAPE_BYTE
    BY <1>2, <1>5
  <2>2. fill(f, b) = FrameState(1, Append(raw, b), FALSE)
    BY <1>3, <2>1, FillByte
  <2> QED
    BY <1>1, <1>3, <2>2, Zenon
<1>6. fill(f, ESCAPE_BYTE) = g
  <2>1. fill(f, ESCAPE_BYTE) = FrameState(1, raw, TRUE)
    BY <1>3, FillEscape
  <2> QED
    BY <1>3, <2>1, Zenon
<1>7. ASSUME b \in ESCAPE_BYTES PROVE fill(g, Xor20(b)) = h
  <2> DEFINE c == Xor20(b)
  <2>1. Xor20(c) = b
    BY <1>7, EscapeUndone
  <2> HIDE DEF c
  <2>2. fill(g, c) = FrameState(1, Append(raw, Xor20(c)), FALSE)
    BY <1>3, FillEscaped
  <2> QED
    BY <1>1, <1>3, <2>1, <2>2, Zenon DEF c
<1> QED
  BY <1>4, <1>5, <1>6, <1>7, Zenon DEF b, f, g, h

\* The receiver f is in the middle of a frame with this data, of which l is still
\* to come: before it, between two bytes of the body, or behind an escape byte.
InFrame(f, l, data) ==
  \/ f = NewFrame /\ l = output(data)
  \/ \E k \in 0 .. Len(data) + 2 :
       f = Partial(Body(data), k, FALSE) /\ l = escaping(Body(data))[k + 1]
  \/ \E k \in 0 .. Len(data) + 2 :
       /\ Body(data)[k + 1] \in ESCAPE_BYTES
       /\ f = Partial(Body(data), k, TRUE)
       /\ l = <<Xor20(Body(data)[k + 1])>> \o escaping(Body(data))[k + 2]

\* What the receiver makes of the first byte of l.
Takes(f, l, data) ==
  LET r == _wait_for_frame(f, Head(l))
  IN  /\ l \in Octets /\ l # <<>> /\ Tail(l) \in Octets /\ r.returns \in BOOLEAN
      /\ ~r.returns => InFrame(r.frame, Tail(l), data)
      /\ r.returns => Tail(l) = <<>> /\ Payload(r.frame) = data

LEMMA FirstByte ==
  ASSUME NEW c \in 0 .. 255, NEW t \in Octets
  PROVE  LET l == <<c>> \o t
         IN  l \in Octets /\ l # <<>> /\ Head(l) = c /\ Tail(l) = t
<1> DEFINE B == 0 .. 255
<1>1. t \in Seq(B)
  BY DEF Octets
<1> HIDE DEF B
<1>2. c \in B
  BY DEF B
<1>3. LET l == <<c>> \o t IN l \in Seq(B) /\ l # <<>> /\ Head(l) = c /\ Tail(l) = t
  BY <1>1, <1>2
<1> QED
  BY <1>3 DEF Octets, B

\* A frame that waits for the next byte of its body.
LEMMA NextByte ==
  ASSUME NEW data, Sendable(data), NEW k \in 0 .. Len(data) + 2
  PROVE  LET body == Body(data)
             b == body[k + 1]
             rest == escaping(body)[k + 2]
         IN  /\ body \in Octets /\ Len(body) = Len(data) + 3 /\ Len(data) \in Nat
             /\ b \in 0 .. 255 /\ rest \in Octets
             /\ escaping(body)[k + 1] = Escaped(b) \o rest
             /\ k = Len(data) + 2 => rest = <<>>
<1> DEFINE body == Body(data)
           n == Len(data)
<1>1. body \in Octets /\ Len(body) = n + 3 /\ n \in Nat
  BY BodyFacts
<1> HIDE DEF body, n
<1>2. k \in 0 .. n + 2
  BY DEF n
<1>3. k + 1 \in 1 .. Len(body) /\ k + 2 \in 1 .. Len(body) + 1 /\ (k + 1) + 1 = k + 2
      /\ (k = n + 2 => k + 2 = Len(body) + 1)
  BY <1>1, <1>2
<1>4. body[k + 1] \in 0 .. 255
  BY <1>1, <1>3, OctetsAreNumbers
<1>5. /\ escaping(body)[Len(body) + 1] = <<>>
      /\ \A i \in 1 .. Len(body) : escaping(body)[i] = Escaped(body[i]) \o escaping(body)[i + 1]
      /\ \A i \in 1 .. Len(body) + 1 : escaping(body)[i] \in Octets
  BY <1>1, EscapingSteps
<1>6. escaping(body)[k + 1] = Escaped(body[k + 1]) \o escaping(body)[k + 2]
  BY <1>3, <1>5
<1> QED
  BY <1>1, <1>3, <1>4, <1>5, <1>6, Zenon DEF body, n

\* What the receiver becomes with this byte.
LEMMA Steps ==
  ASSUME NEW data, Sendable(data), NEW k, NEW u, NEW f, NEW c \in 0 .. 255,
         Reaches(f, c, data, k, u), NEW t \in Octets,
         IF k = Len(data) + 3 THEN t = <<>> ELSE InFrame(Partial(Body(data), k, u), t, data)
  PROVE  Takes(f, <<c>> \o t, data)
<1> DEFINE l == <<c>> \o t
           r == _wait_for_frame(f, c)
           g == Partial(Body(data), k, u)
<1>1. l \in Octets /\ l # <<>> /\ Head(l) = c /\ Tail(l) = t
  BY FirstByte
<1>2. r.returns \in BOOLEAN /\ (r.returns <=> k = Len(data) + 3) /\ r.frame = g
  <2>1. Gives(f, c, data, k, u)
    BY Outcome
  <2> QED
    BY <2>1, Zenon DEF Gives
<1>3. ASSUME k = Len(data) + 3 PROVE Payload(g) = data
  <2>1. u = FALSE
    BY <1>3 DEF Reaches
  <2> QED
    BY <1>3, <2>1, PayloadIs, Zenon
<1> HIDE DEF l, r, g
<1> QED
  BY <1>1, <1>2, <1>3, Zenon DEF Takes, r, g, l

LEMMA Behind ==
  ASSUME NEW data, Sendable(data), NEW k \in 0 .. Len(data) + 2
  PROVE  LET rest == escaping(Body(data))[k + 2]
             g == Partial(Body(data), k + 1, FALSE)
         IN  k + 1 # Len(data) + 3 => InFrame(g, rest, data)
<1>1. Len(data) \in Nat
  BY NextByte
<1> DEFINE i == k + 1
<1>2. i + 1 = k + 2 /\ (i # Len(data) + 3 => i \in 0 .. Len(data) + 2)
  BY <1>1
<1>3. ASSUME i # Len(data) + 3
      PROVE  InFrame(Partial(Body(data), i, FALSE), escaping(Body(data))[i + 1], data)
  BY <1>2, <1>3, Zenon DEF InFrame
<1> QED
  BY <1>2, <1>3, Zenon

LEMMA FrameByte ==
  ASSUME NEW data, Sendable(data), NEW f, NEW l, InFrame(f, l, data)
  PROVE  Takes(f, l, data)
<1> DEFINE body == Body(data)
           n == Len(data)
<1>0. n \in Nat /\ body \in Octets /\ Len(body) = n + 3
  BY BodyFacts
<1>1. CASE f = NewFrame /\ l = output(data)
  <2>1. l = <<START_BYTE>> \o escaping(body)[1]
    BY <1>1, Zenon DEF output, escape, Body
  <2>2. fill([f EXCEPT !.mode = 1], START_BYTE) = Partial(body, 0, FALSE)
    BY <1>0, <1>1, FillsFirst
  <2>3. escaping(body)[1] \in Octets
    <3>1. 1 \in 1 .. Len(body) + 1
      BY <1>0
    <3> QED
      BY <1>0, <3>1, EscapingSteps
  <2>4. InFrame(Partial(body, 0, FALSE), escaping(body)[1], data)
    <3> DEFINE z == 0
    <3>1. z \in 0 .. n + 2 /\ z + 1 = 1
      BY <1>0
    <3> HIDE DEF z
    <3>2. InFrame(Partial(body, z, FALSE), escaping(body)[z + 1], data)
      BY <3>1, Zenon DEF InFrame
    <3> QED
      BY <3>1, <3>2, Zenon DEF z
  <2>5. START_BYTE \in 0 .. 255
    BY DEF START_BYTE
  <2> DEFINE z == 0
             c == START_BYTE
             t == escaping(body)[1]
             u == FALSE
  <2>6. z \in 0 .. n + 3 /\ z # n + 3 /\ u \in BOOLEAN
    BY <1>0
  <2> HIDE DEF z, c, t, u
  <2>7. Takes(f, <<c>> \o t, data)
    <3>1. c \in 0 .. 255 /\ t \in Octets /\ InFrame(Partial(Body(data), z, u), t, data)
          /\ fill([f EXCEPT !.mode = 1], c) = Partial(Body(data), z, u)
      BY <2>2, <2>3, <2>4, <2>5, Zenon DEF z, c, t, u
    <3>2. Accepts(f, c, Partial(Body(data), z, u))
      BY <3>1, Zenon DEF c, Accepts
    <3>3. Reaches(f, c, data, z, u) /\ z # Len(data) + 3
      BY <2>6, <3>2, Zenon DEF Reaches
    <3>4. IF z = Len(data) + 3 THEN t = <<>> ELSE InFrame(Partial(Body(data), z, u), t, data)
      BY <3>1, <3>3, Zenon
    <3> QED
      BY <3>1, <3>3, <3>4, Steps
  <2> QED
    BY <2>1, <2>7, Zenon DEF c, t
<1>2. CASE \E k \in 0 .. n + 2 : f = Partial(body, k, FALSE) /\ l = escaping(body)[k + 1]
  <2> PICK k \in 0 .. n + 2 : f = Partial(body, k, FALSE) /\ l = escaping(body)[k + 1]
    BY <1>2
  <2> DEFINE b == body[k + 1]
             rest == escaping(body)[k + 2]
             i == k + 1
             no == FALSE
             yes == TRUE
             x == Xor20(b)
             e == ESCAPE_BYTE
  <2>0. f.mode # 0
    BY DEF Partial
  <2>1. b \in 0 .. 255 /\ rest \in Octets /\ l = Escaped(b) \o rest /\ (k = n + 2 => rest = <<>>)
    BY NextByte
  <2>2. k \in Nat /\ k < Len(body) /\ i \in 0 .. n + 3 /\ k \in 0 .. n + 3 /\ k # n + 3
        /\ (i = n + 3 => k = n + 2)
    BY <1>0
  <2>3. /\ [f EXCEPT !.mode = 1] = f /\ f.mode = 1
        /\ b \notin ESCAPE_BYTES => fill(f, b) = Partial(body, i, FALSE)
        /\ b \in ESCAPE_BYTES => fill(f, ESCAPE_BYTE) = Partial(body, k, TRUE)
    <3>1. f.mode = 1
      BY DEF Partial
    <3> QED
      BY <1>0, <2>2, <3>1, Fills
  <2>4. CASE b \notin ESCAPE_BYTES
    <3>1. l = <<b>> \o rest
      BY <2>1, <2>4, Zenon DEF Escaped
    <3>2. i # n + 3 => InFrame(Partial(body, i, no), rest, data)
      BY Behind, Zenon
    <3>3. no \in BOOLEAN /\ no = FALSE /\ fill([f EXCEPT !.mode = 1], b) = Partial(body, i, no)
      BY <2>3, <2>4
    <3> HIDE DEF i, no, b, rest
    <3>4. Takes(f, <<b>> \o rest, data)
      <4>1. i = n + 3 => rest = <<>>
        BY <2>1, <2>2
      <4>2. Accepts(f, b, Partial(body, i, no))
        BY <2>0, <3>3, Zenon DEF Accepts
      <4>3. Reaches(f, b, data, i, no)
        BY <2>2, <3>3, <4>2, Zenon DEF Reaches
      <4>4. IF i = Len(data) + 3 THEN rest = <<>> ELSE InFrame(Partial(Body(data), i, no), rest, data)
        BY <3>2, <4>1, Zenon
      <4>5. b \in 0 .. 255 /\ rest \in Octets
        BY <2>1
      <4> QED
        BY <4>3, <4>4, <4>5, Steps
    <3> QED
      BY <3>1, <3>4, Zenon
  <2>5. CASE b \in ESCAPE_BYTES
    <3>0. x \in 0 .. 255 /\ e \in 0 .. 255
      <4>1. x \in 0 .. 255
        <5> HIDE DEF b
        <5> QED
          BY <2>5, EscapeUndone
      <4> QED
        BY <4>1 DEF ESCAPE_BYTE
    <3> DEFINE t == <<x>> \o rest
    <3>1. t \in Octets /\ l = <<e>> \o t
      <4>1. l = <<e, x>> \o rest
        BY <2>1, <2>5, Zenon DEF Escaped
      <4> DEFINE B == 0 .. 255
      <4>2. rest \in Seq(B) /\ x \in B /\ e \in B
        BY <2>1, <3>0 DEF Octets
      <4> HIDE DEF B, x, e, rest
      <4>3. <<e, x>> \o rest = <<e>> \o (<<x>> \o rest) /\ <<x>> \o rest \in Seq(B)
        BY <4>2
      <4> QED
        BY <4>1, <4>3 DEF Octets, B
    <3>2. InFrame(Partial(body, k, yes), t, data)
      BY <2>5, Zenon DEF InFrame
    <3>3. yes \in BOOLEAN /\ fill([f EXCEPT !.mode = 1], e) = Partial(body, k, yes)
      BY <2>3, <2>5
    <3>4. Accepts(f, e, Partial(body, k, yes))
      BY <2>0, <3>3, Zenon DEF Accepts
    <3> HIDE DEF yes, e, t
    <3>6. Reaches(f, e, data, k, yes)
      BY <2>2, <3>3, <3>4, Zenon DEF Reaches
    <3>7. IF k = Len(data) + 3 THEN t = <<>> ELSE InFrame(Partial(Body(data), k, yes), t, data)
      BY <2>2, <3>2, Zenon
    <3>8. e \in 0 .. 255 /\ t \in Octets
      BY <3>0, <3>1
    <3>5. Takes(f, <<e>> \o t, data)
      BY <3>6, <3>7, <3>8, Steps
    <3> QED
      BY <3>1, <3>5, Zenon
  <2> QED
    BY <2>4, <2>5
<1>3. CASE \E k \in 0 .. n + 2 :
             /\ body[k + 1] \in ESCAPE_BYTES
             /\ f = Partial(body, k, TRUE)
             /\ l = <<Xor20(body[k + 1])>> \o escaping(body)[k + 2]
  <2> PICK k \in 0 .. n + 2 :
             /\ body[k + 1] \in ESCAPE_BYTES
             /\ f = Partial(body, k, TRUE)
             /\ l = <<Xor20(body[k + 1])>> \o escaping(body)[k + 2]
    BY <1>3
  <2> DEFINE b == body[k + 1]
             rest == escaping(body)[k + 2]
             i == k + 1
             no == FALSE
             x == Xor20(b)
  <2>0. f.mode # 0
    BY DEF Partial
  <2>1. b \in 0 .. 255 /\ rest \in Octets /\ (k = n + 2 => rest = <<>>)
    BY NextByte
  <2>2. k \in Nat /\ k < Len(body) /\ i \in 0 .. n + 3 /\ (i = n + 3 => k = n + 2)
    BY <1>0
  <2>3. [f EXCEPT !.mode = 1] = f /\ f.mode = 1 /\ fill(f, x) = Partial(body, i, FALSE)
    <3>1. f.mode = 1
      BY DEF Partial
    <3> QED
      BY <1>0, <2>2, <3>1, Fills
  <2>4. x \in 0 .. 255
    BY EscapeUndone
  <2>5. i # n + 3 => InFrame(Partial(body, i, no), rest, data)
    BY Behind, Zenon
  <2>6. no \in BOOLEAN /\ no = FALSE /\ fill([f EXCEPT !.mode = 1], x) = Partial(body, i, no)
    BY <2>3
  <2>7. l = <<x>> \o rest
    OBVIOUS
  <2> HIDE DEF i, no, x, rest
  <2>8. Takes(f, <<x>> \o rest, data)
    <3>1. i = n + 3 => rest = <<>>
      BY <2>1, <2>2
    <3>2. Accepts(f, x, Partial(body, i, no))
      BY <2>0, <2>6, Zenon DEF Accepts
    <3>3. Reaches(f, x, data, i, no)
      BY <2>2, <2>6, <3>2, Zenon DEF Reaches
    <3>4. IF i = Len(data) + 3 THEN rest = <<>> ELSE InFrame(Partial(Body(data), i, no), rest, data)
      BY <2>5, <3>1, Zenon
    <3>5. x \in 0 .. 255 /\ rest \in Octets
      BY <2>1, <2>4
    <3> QED
      BY <3>3, <3>4, <3>5, Steps
  <2> QED
    BY <2>7, <2>8, Zenon
<1> QED
  BY <1>1, <1>2, <1>3 DEF InFrame

-----------------------------------------------------------------------------
(* A serial.write() of some bytes, as the radio takes them.                *)

(* The recursion of taking() has a solution. *)
Feeds(g, first, bytes, n) ==
  g = [i \in 0 .. n |-> IF i = 0 THEN first ELSE RadioTakes(g[i - 1], bytes[i])]

LEMMA FeedsOneMore ==
  ASSUME NEW n \in Nat, NEW g, NEW first, NEW bytes, Feeds(g, first, bytes, n)
  PROVE  \E h : Feeds(h, first, bytes, n + 1)
<1> DEFINE last == RadioTakes(g[n], bytes[n + 1])
           h == [i \in 0 .. n + 1 |-> IF i = n + 1 THEN last ELSE g[i]]
<1> HIDE DEF last
<1>1. ASSUME NEW i \in 0 .. n + 1
      PROVE  h[i] = IF i = 0 THEN first ELSE RadioTakes(h[i - 1], bytes[i])
  <2>1. CASE i = n + 1
    <3>1. h[i] = last /\ h[i - 1] = g[n] /\ i # 0
      BY <2>1
    <3> HIDE DEF h
    <3> QED
      BY <2>1, <3>1 DEF last
  <2>2. CASE i # n + 1
    <3>1. i \in 0 .. n /\ h[i] = g[i]
      BY <2>2
    <3>2. i # 0 => h[i - 1] = g[i - 1]
      BY <3>1
    <3>3. g[i] = IF i = 0 THEN first ELSE RadioTakes(g[i - 1], bytes[i])
      BY <3>1 DEF Feeds
    <3> HIDE DEF h
    <3> QED
      BY <3>1, <3>2, <3>3
  <2> QED
    BY <2>1, <2>2
<1>2. h = [i \in 0 .. n + 1 |-> h[i]]
  OBVIOUS
<1> HIDE DEF h
<1>3. Feeds(h, first, bytes, n + 1)
  BY <1>1, <1>2 DEF Feeds
<1> QED
  BY <1>3

LEMMA TakingDef ==
  ASSUME NEW frame, NEW took, NEW bytes, NEW l \in Nat, Len(bytes) = l
  PROVE  Feeds(taking(frame, took, bytes), [frame |-> frame, took |-> took], bytes, l)
<1> DEFINE first == [frame |-> frame, took |-> took]
           S == {n \in Nat : \E g : Feeds(g, first, bytes, n)}
<1>1. 0 \in S
  <2> HIDE DEF first
  <2> DEFINE g == [i \in 0 .. 0 |-> first]
  <2>1. g = [i \in 0 .. 0 |-> g[i]] /\ \A i \in 0 .. 0 : i = 0 /\ g[i] = first
    OBVIOUS
  <2> HIDE DEF g
  <2>2. Feeds(g, first, bytes, 0)
    BY <2>1 DEF Feeds
  <2> QED
    BY <2>2
<1>2. ASSUME NEW n \in Nat, n \in S PROVE n + 1 \in S
  BY <1>2, FeedsOneMore
<1>3. l \in S
  <2> HIDE DEF S
  <2> QED
    BY <1>1, <1>2, Induction
<1> HIDE DEF first
<1>4. \E g : Feeds(g, first, bytes, l)
  BY <1>3
<1> QED
  BY <1>4 DEF taking, Feeds, first

LEMMA Drops ==
  ASSUME NEW l \in Octets, NEW k \in Nat, k < Len(l)
  PROVE  LET d == SubSeq(l, k + 1, Len(l))
         IN  /\ d \in Octets /\ d # <<>> /\ Head(d) = l[k + 1] /\ Len(d) = Len(l) - k
             /\ Tail(d) = SubSeq(l, (k + 1) + 1, Len(l))
             /\ Tail(d) = <<>> <=> k + 1 = Len(l)
<1> DEFINE B == 0 .. 255
           d == SubSeq(l, k + 1, Len(l))
           e == SubSeq(l, (k + 1) + 1, Len(l))
<1>1. l \in Seq(B)
  BY DEF Octets
<1> HIDE DEF B
<1>2. Len(l) \in Nat
  BY <1>1
<1>3. /\ d \in Seq(B) /\ Len(d) = Len(l) - k
      /\ \A i \in 1 .. Len(l) - k : d[i] = l[k + i]
  BY <1>1, <1>2
<1>4. /\ e \in Seq(B) /\ Len(e) = Len(l) - (k + 1)
      /\ \A i \in 1 .. Len(l) - (k + 1) : e[i] = l[(k + 1) + i]
  BY <1>1, <1>2
<1> HIDE DEF d, e
<1>5. d # <<>> /\ Head(d) = l[k + 1]
  BY <1>2, <1>3
<1>6. Tail(d) = e
  <2>1. /\ Tail(d) \in Seq(B) /\ Len(Tail(d)) = Len(l) - (k + 1)
        /\ \A i \in 1 .. Len(l) - (k + 1) : Tail(d)[i] = d[i + 1]
    BY <1>2, <1>3, <1>5
  <2>2. \A i \in 1 .. Len(l) - (k + 1) : d[i + 1] = l[(k + 1) + i]
    <3> SUFFICES ASSUME NEW i \in 1 .. Len(l) - (k + 1) PROVE d[i + 1] = l[(k + 1) + i]
      OBVIOUS
    <3>1. i + 1 \in 1 .. Len(l) - k /\ k + (i + 1) = (k + 1) + i
      BY <1>2
    <3> QED
      BY <1>3, <3>1
  <2> DEFINE s == Tail(d)
  <2> HIDE DEF s
  <2>3. \A i \in 1 .. Len(l) - (k + 1) : s[i] = e[i]
    BY <1>4, <2>1, <2>2 DEF s
  <2> QED
    BY <1>4, <2>1, <2>3 DEF s
<1>7. e = <<>> <=> k + 1 = Len(l)
  BY <1>2, <1>4
<1> QED
  BY <1>3, <1>5, <1>6, <1>7 DEF d, e, Octets, B

\* After the k-th byte of the rest of a frame.
Fed(acc, took, l, data, k) ==
  /\ k < Len(l) => InFrame(acc.frame, SubSeq(l, k + 1, Len(l)), data) /\ acc.took = took
  /\ k = Len(l) =>
       /\ acc.frame = NewFrame
       /\ acc.took = IF Len(data) < 5 THEN took
                       ELSE Append(took, <<SubSeq(data, 3, 4), SubSeq(data, 6, Len(data))>>)

LEMMA FedOneMore ==
  ASSUME NEW data, Sendable(data), NEW l \in Octets, NEW k \in Nat, k < Len(l), NEW took,
         NEW acc, Fed(acc, took, l, data, k)
  PROVE  Fed(RadioTakes(acc, l[k + 1]), took, l, data, k + 1)
<1> DEFINE d == SubSeq(l, k + 1, Len(l))
           e == SubSeq(l, (k + 1) + 1, Len(l))
           byte == l[k + 1]
           r == _wait_for_frame(acc.frame, byte)
           next == RadioTakes(acc, byte)
           more == IF Len(data) < 5 THEN took
                     ELSE Append(took, <<SubSeq(data, 3, 4), SubSeq(data, 6, Len(data))>>)
<1>1. Head(d) = byte /\ Tail(d) = e /\ (e = <<>> <=> k + 1 = Len(l)) /\ Len(l) \in Nat
  BY Drops, OctetsAreNumbers
<1>2. InFrame(acc.frame, d, data) /\ acc.took = took
  BY Zenon DEF Fed
<1>3. /\ r.returns \in BOOLEAN
      /\ ~r.returns => InFrame(r.frame, e, data)
      /\ r.returns => e = <<>> /\ Payload(r.frame) = data
  <2>1. Takes(acc.frame, d, data)
    BY <1>2, FrameByte
  <2> QED
    BY <1>1, <2>1, Zenon DEF Takes
<1>4. /\ ~r.returns => next = [frame |-> r.frame, took |-> acc.took]
      /\ r.returns => next = [frame |-> NewFrame, took |-> IF Len(Payload(r.frame)) < 5 THEN acc.took
              ELSE Append(acc.took, <<SubSeq(Payload(r.frame), 3, 4),
                                      SubSeq(Payload(r.frame), 6, Len(Payload(r.frame)))>>)]
  BY Zenon DEF RadioTakes
<1>5. r.returns => next = [frame |-> NewFrame, took |-> more]
  BY <1>2, <1>3, <1>4, Zenon
<1> HIDE DEF next, r, d, more, byte
<1>6. CASE r.returns
  <2>1. k + 1 = Len(l) /\ ~(k + 1 < Len(l))
    BY <1>1, <1>3, <1>6
  <2>2. next.frame = NewFrame /\ next.took = more
    BY <1>5, <1>6
  <2> QED
    BY <2>1, <2>2, Zenon DEF Fed, more, next, byte
<1>7. CASE ~r.returns
  <2>1. InFrame(r.frame, e, data)
    BY <1>3, <1>7
  <2>2. e # <<>>
    <3>1. Takes(r.frame, e, data)
      BY <2>1, FrameByte
    <3> QED
      BY <3>1, Zenon DEF Takes
  <2>3. next.frame = r.frame /\ next.took = took
    BY <1>2, <1>4, <1>7
  <2>4. k + 1 # Len(l)
    BY <1>1, <2>2
  <2> QED
    BY <2>1, <2>3, <2>4, Zenon DEF Fed, next, byte
<1> QED
  BY <1>3, <1>6, <1>7

LEMMA FrameBytes ==
  ASSUME NEW data, Sendable(data), NEW f, NEW l, InFrame(f, l, data), NEW took,
         NEW k \in 0 .. Len(l)
  PROVE  Fed(taking(f, took, l)[k], took, l, data, k)
<1> DEFINE acc == taking(f, took, l)
           first == [frame |-> f, took |-> took]
           S == {n \in Nat : n <= Len(l) => Fed(acc[n], took, l, data, n)}
<1>1. l \in Octets /\ l # <<>> /\ Len(l) \in Nat
  <2>1. Takes(f, l, data)
    BY FrameByte
  <2>2. l \in Octets /\ l # <<>>
    BY <2>1, Zenon DEF Takes
  <2> QED
    BY <2>2, OctetsAreNumbers
<1>2. acc = [i \in 0 .. Len(l) |-> IF i = 0 THEN first ELSE RadioTakes(acc[i - 1], l[i])]
  BY <1>1, TakingDef DEF Feeds
<1> HIDE DEF acc
<1>3. 0 \in S
  <2>1. acc[0] = first
    BY <1>1, <1>2
  <2>2. first.frame = f /\ first.took = took
    OBVIOUS
  <2>3. SubSeq(l, 0 + 1, Len(l)) = l /\ 0 # Len(l)
    <3> DEFINE B == 0 .. 255
    <3>1. l \in Seq(B)
      BY <1>1 DEF Octets
    <3> HIDE DEF B
    <3> QED
      BY <1>1, <3>1
  <2> HIDE DEF first
  <2>4. Fed(acc[0], took, l, data, 0)
    BY <2>1, <2>2, <2>3, Zenon DEF Fed
  <2> QED
    BY <2>4
<1>4. ASSUME NEW n \in Nat, n \in S PROVE n + 1 \in S
  <2> SUFFICES ASSUME n + 1 <= Len(l) PROVE Fed(acc[n + 1], took, l, data, n + 1)
    OBVIOUS
  <2>1. n < Len(l) /\ n + 1 \in 0 .. Len(l) /\ n + 1 # 0 /\ (n + 1) - 1 = n
    BY <1>1
  <2>2. acc[n + 1] = RadioTakes(acc[n], l[n + 1])
    BY <1>2, <2>1
  <2>3. Fed(acc[n], took, l, data, n)
    BY <1>1, <1>4
  <2>4. Fed(RadioTakes(acc[n], l[n + 1]), took, l, data, n + 1)
    BY <1>1, <2>1, <2>3, FedOneMore
  <2> QED
    BY <2>2, <2>4, Zenon
<1>5. k \in Nat /\ k <= Len(l)
  BY <1>1
<1>6. k \in S
  <2> HIDE DEF S
  <2> QED
    BY <1>3, <1>4, <1>5, Induction
<1> QED
  BY <1>5, <1>6 DEF acc

-----------------------------------------------------------------------------
(* What is left of a sequence.                                             *)

LEMMA OctetsAreFunctions ==
  ASSUME NEW s \in Octets
  PROVE  DOMAIN s = 1 .. Len(s) /\ Len(s) \in Nat
<1> DEFINE B == 0 .. 255
<1>1. s \in Seq(B)
  BY DEF Octets
<1> HIDE DEF B
<1> QED
  BY <1>1

LEMMA InOrderAll ==
  ASSUME NEW s \in Octets
  PROVE  InOrder(s, s)
<1> DEFINE f == [i \in DOMAIN s |-> i]
<1>1. f \in [DOMAIN s -> DOMAIN s] /\ \A i \in DOMAIN s : f[i] = i
  OBVIOUS
<1>2. DOMAIN s = 1 .. Len(s) /\ Len(s) \in Nat
  BY OctetsAreFunctions
<1> HIDE DEF f
<1> QED
  BY <1>1, <1>2 DEF InOrder

LEMMA InOrderTwice ==
  ASSUME NEW s \in Octets, NEW t \in Octets, NEW u \in Octets, InOrder(s, t), InOrder(t, u)
  PROVE  InOrder(s, u)
<1>1. PICK f \in [DOMAIN s -> DOMAIN t] :
        /\ \A i, j \in DOMAIN s : i < j => f[i] < f[j]
        /\ \A i \in DOMAIN s : s[i] = t[f[i]]
  BY DEF InOrder
<1>2. PICK g \in [DOMAIN t -> DOMAIN u] :
        /\ \A i, j \in DOMAIN t : i < j => g[i] < g[j]
        /\ \A i \in DOMAIN t : t[i] = u[g[i]]
  BY DEF InOrder
<1> DEFINE h == [i \in DOMAIN s |-> g[f[i]]]
<1>3. h \in [DOMAIN s -> DOMAIN u] /\ \A i \in DOMAIN s : h[i] = g[f[i]]
  BY <1>1, <1>2
<1> HIDE DEF h
<1>4. \A i, j \in DOMAIN s : i < j => h[i] < h[j]
  BY <1>1, <1>2, <1>3
<1>5. \A i \in DOMAIN s : s[i] = u[h[i]]
  BY <1>1, <1>2, <1>3
<1> QED
  BY <1>3, <1>4, <1>5 DEF InOrder

LEMMA InOrderMore ==
  ASSUME NEW s \in Octets, NEW t \in Octets, NEW u \in Octets, InOrder(s, t)
  PROVE  InOrder(s \o u, t \o u)
<1> DEFINE a == s \o u
           b == t \o u
           k == Len(s)
           l == Len(t)
           m == Len(u)
<1>1. /\ a \in Octets /\ b \in Octets /\ k \in Nat /\ l \in Nat /\ m \in Nat
      /\ Len(a) = k + m /\ Len(b) = l + m
      /\ \A i \in 1 .. k : a[i] = s[i]
      /\ \A i \in 1 .. m : a[i + k] = u[i]
      /\ \A i \in 1 .. l : b[i] = t[i]
      /\ \A i \in 1 .. m : b[i + l] = u[i]
  BY Joins
<1>2. DOMAIN s = 1 .. k /\ DOMAIN t = 1 .. l
  BY OctetsAreFunctions
<1> HIDE DEF k, l, m
<1>3. PICK f \in [1 .. k -> 1 .. l] :
        /\ \A i, j \in 1 .. k : i < j => f[i] < f[j]
        /\ \A i \in 1 .. k : s[i] = t[f[i]]
  BY <1>2 DEF InOrder
<1>4. DOMAIN a = 1 .. k + m /\ DOMAIN b = 1 .. l + m
  <2> HIDE DEF a, b
  <2> QED
    BY <1>1, OctetsAreFunctions
<1> HIDE DEF a, b
<1> DEFINE h == [i \in 1 .. k + m |-> IF i <= k THEN f[i] ELSE (i - k) + l]
<1>5. h \in [1 .. k + m -> 1 .. l + m]
  <2> SUFFICES ASSUME NEW i \in 1 .. k + m
               PROVE  (IF i <= k THEN f[i] ELSE (i - k) + l) \in 1 .. l + m
    OBVIOUS
  <2>1. i <= k => f[i] \in 1 .. l
    BY <1>1, <1>3
  <2> QED
    BY <1>1, <2>1
<1>6. \A i \in 1 .. k + m : h[i] = IF i <= k THEN f[i] ELSE (i - k) + l
  OBVIOUS
<1> HIDE DEF h
<1>7. \A i, j \in 1 .. k + m : i < j => h[i] < h[j]
  <2> SUFFICES ASSUME NEW i \in 1 .. k + m, NEW j \in 1 .. k + m, i < j PROVE h[i] < h[j]
    OBVIOUS
  <2>1. CASE j <= k
    <3>1. i \in 1 .. k /\ j \in 1 .. k /\ i <= k
      BY <1>1, <2>1
    <3> QED
      BY <1>3, <1>6, <2>1, <3>1
  <2>2. CASE i <= k /\ ~(j <= k)
    <3>1. f[i] \in 1 .. l
      BY <1>1, <1>3, <2>2
    <3> QED
      BY <1>1, <1>6, <2>2, <3>1
  <2>3. CASE ~(i <= k)
    <3>1. ~(j <= k)
      BY <1>1, <2>3
    <3> QED
      BY <1>1, <1>6, <2>3, <3>1
  <2> QED
    BY <2>1, <2>2, <2>3
<1>8. \A i \in 1 .. k + m : a[i] = b[h[i]]
  <2> SUFFICES ASSUME NEW i \in 1 .. k + m PROVE a[i] = b[h[i]]
    OBVIOUS
  <2>1. CASE i <= k
    <3>1. i \in 1 .. k /\ f[i] \in 1 .. l
      BY <1>1, <1>3, <2>1
    <3>2. a[i] = s[i] /\ s[i] = t[f[i]] /\ b[f[i]] = t[f[i]]
      BY <1>1, <1>3, <3>1
    <3> QED
      BY <1>6, <2>1, <3>2
  <2>2. CASE ~(i <= k)
    <3>1. i - k \in 1 .. m /\ (i - k) + k = i
      BY <1>1, <2>2
    <3>2. a[i] = u[i - k] /\ b[(i - k) + l] = u[i - k]
      BY <1>1, <3>1
    <3> QED
      BY <1>6, <2>2, <3>2
  <2> QED
    BY <2>1, <2>2
<1> QED
  BY <1>4, <1>5, <1>7, <1>8 DEF InOrder, a, b

LEMMA InOrderPrefix ==
  ASSUME NEW s \in Octets, NEW t \in Octets
  PROVE  InOrder(s, s \o t)
<1> DEFINE a == s \o t
           k == Len(s)
           f == [i \in 1 .. k |-> i]
<1>1. /\ a \in Octets /\ k \in Nat /\ Len(t) \in Nat /\ Len(a) = k + Len(t)
      /\ \A i \in 1 .. k : a[i] = s[i]
  BY Joins
<1>2. DOMAIN s = 1 .. k
  BY OctetsAreFunctions
<1> HIDE DEF a, k
<1>3. DOMAIN a = 1 .. k + Len(t)
  BY <1>1, OctetsAreFunctions
<1>4. f \in [1 .. k -> 1 .. k + Len(t)] /\ \A i \in 1 .. k : f[i] = i
  BY <1>1
<1> HIDE DEF f
<1>5. /\ \A i, j \in 1 .. k : i < j => f[i] < f[j]
      /\ \A i \in 1 .. k : s[i] = a[f[i]]
  BY <1>1, <1>4
<1> QED
  BY <1>2, <1>3, <1>4, <1>5 DEF InOrder, a

\* Bytes in the middle are lost.
LEMMA InOrderLess ==
  ASSUME NEW a \in Octets, NEW b \in Octets, NEW c \in Octets, NEW t \in Octets,
         InOrder((a \o b) \o c, t)
  PROVE  InOrder(a \o c, t)
<1>1. a \o b \in Octets /\ a \o c \in Octets
  BY Joins
<1>2. (a \o b) \o c \in Octets
  BY <1>1, Joins
<1>3. InOrder(a, a \o b)
  BY InOrderPrefix
<1>4. InOrder(a \o c, (a \o b) \o c)
  BY <1>1, <1>3, InOrderMore
<1> QED
  BY <1>1, <1>2, <1>4, InOrderTwice

LEMMA Associative ==
  ASSUME NEW a \in Octets, NEW b \in Octets, NEW c \in Octets
  PROVE  (a \o b) \o c = a \o (b \o c) /\ a \o b \in Octets
<1> DEFINE B == 0 .. 255
<1>1. a \in Seq(B) /\ b \in Seq(B) /\ c \in Seq(B)
  BY DEF Octets
<1> HIDE DEF B
<1>2. (a \o b) \o c = a \o (b \o c) /\ a \o b \in Seq(B)
  BY <1>1, ConcatAssociative, ConcatProperties
<1> QED
  BY <1>2 DEF Octets, B

LEMMA Empty ==
  ASSUME NEW a \in Octets
  PROVE  a \o <<>> = a /\ <<>> \o a = a /\ <<>> \in Octets
<1> DEFINE B == 0 .. 255
<1>1. a \in Seq(B) /\ <<>> \in Seq(B)
  BY DEF Octets
<1> HIDE DEF B
<1>2. a \o <<>> = a /\ <<>> \o a = a /\ <<>> \in Seq(B)
  BY <1>1
<1> QED
  BY <1>2 DEF Octets, B

LEMMA Parts ==
  ASSUME NEW s \in Octets, NEW k \in Nat, k <= Len(s)
  PROVE  LET a == SubSeq(s, 1, k)
             b == SubSeq(s, k + 1, Len(s))
         IN  a \in Octets /\ b \in Octets /\ a \o b = s /\ Len(a) = k
<1> DEFINE B == 0 .. 255
           a == SubSeq(s, 1, k)
           b == SubSeq(s, k + 1, Len(s))
<1>1. s \in Seq(B)
  BY DEF Octets
<1> HIDE DEF B
<1>2. Len(s) \in Nat
  BY <1>1
<1>3. a \in Seq(B) /\ Len(a) = k /\ \A i \in 1 .. k : a[i] = s[i]
  BY <1>1, <1>2
<1>4. b \in Seq(B) /\ Len(b) = Len(s) - k /\ \A i \in 1 .. Len(s) - k : b[i] = s[k + i]
  BY <1>1, <1>2
<1> HIDE DEF a, b
<1> DEFINE c == a \o b
<1>5. /\ c \in Seq(B) /\ Len(c) = Len(s)
      /\ \A i \in 1 .. k : c[i] = a[i]
      /\ \A i \in 1 .. Len(s) - k : c[k + i] = b[i]
  BY <1>2, <1>3, <1>4
<1> HIDE DEF c
<1>6. \A i \in 1 .. Len(s) : c[i] = s[i]
  <2> SUFFICES ASSUME NEW i \in 1 .. Len(s) PROVE c[i] = s[i]
    OBVIOUS
  <2>1. CASE i <= k
    BY <1>2, <1>3, <1>5, <2>1
  <2>2. CASE ~(i <= k)
    <3>1. i - k \in 1 .. Len(s) - k /\ k + (i - k) = i
      BY <1>2, <2>2
    <3> QED
      BY <1>4, <1>5, <3>1
  <2> QED
    BY <2>1, <2>2
<1>7. c = s
  BY <1>1, <1>5, <1>6
<1> QED
  BY <1>3, <1>4, <1>7 DEF a, b, c, Octets, B

-----------------------------------------------------------------------------
(* The bytes of one device: g read, h in its port, p in the radio's frame, *)
(* of s sent; x is the set of the ports that were flushed.                 *)

StreamKept(n, x, g, h, p, s) ==
  /\ g \in Octets /\ h \in Octets /\ p \in Octets /\ s \in Octets
  /\ n \notin x => (g \o h) \o p = s
  /\ InOrder((g \o h) \o p, s)

LEMMA KeptWhenSent ==
  ASSUME NEW n, NEW x, NEW g, NEW h, NEW p, NEW s, StreamKept(n, x, g, h, p, s), p = <<>>, NEW d \in Octets
  PROVE  StreamKept(n, x, g, h, d, s \o d)
<1> DEFINE a == g \o h
<1>1. g \in Octets /\ h \in Octets /\ s \in Octets /\ (n \notin x => a \o p = s) /\ InOrder(a \o p, s)
  BY DEF StreamKept
<1>2. a \in Octets /\ s \o d \in Octets /\ a \o d \in Octets
  <2>1. a \in Octets
    BY <1>1, Joins
  <2> HIDE DEF a
  <2> QED
    BY <1>1, <2>1, Joins
<1> HIDE DEF a
<1>3. a \o p = a
  BY <1>2, Empty
<1>4. InOrder(a \o d, s \o d)
  BY <1>1, <1>2, <1>3, InOrderMore
<1>5. n \notin x => a \o d = s \o d
  BY <1>1, <1>3
<1> QED
  BY <1>1, <1>2, <1>4, <1>5 DEF StreamKept, a

LEMMA KeptWhenReceived ==
  ASSUME NEW n, NEW x, NEW g, NEW h, NEW p, NEW s, StreamKept(n, x, g, h, p, s)
  PROVE  StreamKept(n, x, g, h \o p, <<>>, s)
<1> DEFINE e == <<>>
           hp == h \o p
           b == g \o hp
<1>1. g \in Octets /\ h \in Octets /\ p \in Octets /\ s \in Octets
      /\ (n \notin x => (g \o h) \o p = s) /\ InOrder((g \o h) \o p, s)
  BY DEF StreamKept
<1>2. (g \o h) \o p = b
  <2>1. g \in Octets /\ h \in Octets /\ p \in Octets
    BY <1>1
  <2> QED
    BY <2>1, Associative
<1>3. hp \in Octets
  BY <1>1, Joins
<1> HIDE DEF hp
<1>4. b \in Octets
  BY <1>1, <1>3, Joins
<1> HIDE DEF b
<1>5. b \o e = b /\ e \in Octets
  BY <1>4, Empty
<1> HIDE DEF e
<1>6. InOrder(b \o e, s) /\ (n \notin x => b \o e = s)
  BY <1>1, <1>2, <1>5
<1> QED
  BY <1>1, <1>3, <1>5, <1>6 DEF StreamKept, b, hp, e

LEMMA KeptWhenRead ==
  ASSUME NEW n, NEW x, NEW g, NEW h, NEW p, NEW s, StreamKept(n, x, g, h, p, s),
         NEW k \in Nat, k <= Len(h)
  PROVE  StreamKept(n, x, g \o SubSeq(h, 1, k), SubSeq(h, k + 1, Len(h)), p, s)
<1> DEFINE a == SubSeq(h, 1, k)
           b == SubSeq(h, k + 1, Len(h))
<1>1. g \in Octets /\ h \in Octets /\ p \in Octets /\ s \in Octets
      /\ (n \notin x => (g \o h) \o p = s) /\ InOrder((g \o h) \o p, s)
  BY DEF StreamKept
<1>2. a \in Octets /\ b \in Octets /\ a \o b = h
  BY <1>1, Parts
<1> HIDE DEF a, b
<1>3. (g \o a) \o b = g \o h /\ g \o a \in Octets
  <2>1. g \in Octets /\ a \in Octets /\ b \in Octets
    BY <1>1, <1>2
  <2>2. (g \o a) \o b = g \o (a \o b) /\ g \o a \in Octets
    BY <2>1, Associative
  <2> QED
    BY <1>2, <2>2, Zenon
<1> QED
  BY <1>1, <1>2, <1>3 DEF StreamKept, a, b

LEMMA KeptWhenFlushed ==
  ASSUME NEW n, NEW x, NEW g, NEW h, NEW p, NEW s, StreamKept(n, x, g, h, p, s),
         NEW y, n \in y
  PROVE  StreamKept(n, y, g, h, p, s) /\ StreamKept(n, y, g, <<>>, p, s)
<1> DEFINE e == <<>>
<1>1. g \in Octets /\ h \in Octets /\ p \in Octets /\ s \in Octets /\ InOrder((g \o h) \o p, s)
  BY DEF StreamKept
<1>2. InOrder(g \o p, s)
  BY <1>1, InOrderLess
<1>3. g \o e = g /\ e \in Octets
  BY <1>1, Empty
<1> HIDE DEF e
<1>4. InOrder((g \o e) \o p, s)
  BY <1>2, <1>3
<1> QED
  BY <1>1, <1>3, <1>4 DEF StreamKept, e

LEMMA KeptMeans ==
  ASSUME NEW n, NEW x, NEW g, NEW h, NEW p, NEW s, StreamKept(n, x, g, h, p, s)
  PROVE  InOrder(g \o h, s) /\ (n \notin x /\ p = <<>> => g \o h = s) /\ g \o h \in Octets
<1> DEFINE a == g \o h
           e == <<>>
<1>1. g \in Octets /\ h \in Octets /\ p \in Octets /\ s \in Octets
      /\ (n \notin x => a \o p = s) /\ InOrder(a \o p, s)
  BY DEF StreamKept
<1>2. a \in Octets
  BY <1>1, Joins
<1> HIDE DEF a
<1>3. a \o e = a /\ e \in Octets
  BY <1>2, Empty
<1> HIDE DEF e
<1>4. (a \o p) \o e = a \o p /\ a \o p \in Octets
  <2>1. a \o p \in Octets
    BY <1>1, <1>2, Joins
  <2> QED
    BY <2>1, Empty DEF e
<1>5. InOrder((a \o p) \o e, s)
  BY <1>1, <1>4
<1>6. InOrder(a \o e, s)
  BY <1>1, <1>2, <1>3, <1>5, InOrderLess
<1> QED
  BY <1>1, <1>2, <1>3, <1>6 DEF a, e

-----------------------------------------------------------------------------
(* The radio's frames.                                                     *)

\* Frames that the main thread can do with.
RadioFrame(data) ==
  Sendable(data) /\ _split_response(data) /\ (data[1] = 129 => Len(data) > 5)

LEMMA ReportFrames ==
  ASSUME NEW data \in Reports
  PROVE  RadioFrame(data)
BY ReportsAssumption DEF RadioFrame, Sendable

LEMMA TrafficFrames ==
  ASSUME NEW m \in Traffic
  PROVE  RadioFrame(<<129>> \o m.src \o <<40, 0>> \o m.data)
<1> DEFINE B == 0 .. 255
           id == <<129>>
           src == m.src
           opt == <<40, 0>>
           rf == m.data
           data == ((id \o src) \o opt) \o rf
<1>1. src \in Octets /\ Len(src) = 2 /\ rf \in Octets /\ rf # <<>> /\ Len(rf) + 5 < 32768
  BY PayloadAssumption
<1>2. id \in Octets /\ Len(id) = 1 /\ id[1] = 129 /\ opt \in Octets /\ Len(opt) = 2
  BY DEF Octets
<1> HIDE DEF id, src, opt, rf
<1>3. Len(rf) \in Nat /\ Len(rf) # 0
  <2>1. rf \in Seq(B)
    BY <1>1 DEF Octets
  <2> HIDE DEF B
  <2> QED
    BY <1>1, <2>1
<1> DEFINE a == id \o src
           b == a \o opt
<1>4. a \in Octets /\ Len(a) = 3 /\ a[1] = 129
  <2>1. a \in Octets /\ Len(a) = Len(id) + Len(src) /\ \A i \in 1 .. Len(id) : a[i] = id[i]
    <3>1. id \in Octets /\ src \in Octets
      BY <1>1, <1>2
    <3> HIDE DEF a
    <3> QED
      BY <3>1, Joins DEF a
  <2> HIDE DEF a
  <2> QED
    BY <1>1, <1>2, <2>1
<1> HIDE DEF a
<1>5. b \in Octets /\ Len(b) = 5 /\ b[1] = 129
  <2>1. b \in Octets /\ Len(b) = Len(a) + Len(opt) /\ \A i \in 1 .. Len(a) : b[i] = a[i]
    <3>1. a \in Octets /\ opt \in Octets
      BY <1>2, <1>4
    <3> HIDE DEF b
    <3> QED
      BY <3>1, Joins DEF b
  <2> HIDE DEF b
  <2> QED
    BY <1>2, <1>4, <2>1
<1> HIDE DEF b
<1>6. data \in Octets /\ Len(data) = Len(rf) + 5 /\ data[1] = 129
  <2> DEFINE c == b \o rf
  <2>1. c \in Octets /\ Len(c) = Len(b) + Len(rf) /\ \A i \in 1 .. Len(b) : c[i] = b[i]
    <3>1. b \in Octets /\ rf \in Octets
      BY <1>1, <1>5
    <3> QED
      BY <3>1, Joins
  <2> HIDE DEF c
  <2>2. c \in Octets /\ Len(c) = Len(rf) + 5 /\ c[1] = 129
    BY <1>3, <1>5, <2>1
  <2> QED
    BY <2>2 DEF c, b, a
<1> HIDE DEF data
<1>7. Sendable(data) /\ Len(data) > 5
  BY <1>1, <1>3, <1>6 DEF Sendable
<1>8. api_responses(data[1]) = Response(<<2, 1, 1>>, TRUE, FALSE)
  BY <1>6 DEF api_responses
<1>9. _split_response(data)
  <2> DEFINE r == api_responses(data[1])
  <2>1. r.lens = <<2, 1, 1>> /\ r.rest = TRUE /\ r.samples = FALSE
    BY <1>8 DEF Response
  <2> HIDE DEF r
  <2>2. 1 + Total(r.lens) = 5
    BY <2>1, ReceptionHeader
  <2>3. data # <<>> /\ data[1] \in Known
    <3>1. data[1] \in Known
      BY <1>6 DEF Known
    <3>2. data # <<>>
      BY <1>7
    <3> QED
      BY <3>1, <3>2
  <2>4. 5 <= Len(data)
    BY <1>3, <1>6
  <2> QED
    BY <2>1, <2>2, <2>3, <2>4, Zenon DEF _split_response, r
<1> QED
  BY <1>7, <1>9, Zenon DEF RadioFrame, data, id, src, opt, rf

-----------------------------------------------------------------------------
(* The invariant of XbeeNetwork.  A behaviour has traffic in one direction. *)
(* Towards the computer, the frame on the line, read up to some byte,      *)
(* holds what its port lacks of the bytes sent; between the two halves of  *)
(* putData() the port counts as having what is put.  Towards the radio,    *)
(* the frame that it fills is the one that the only writing thread is at.  *)

XbeeFields == {"way", "line", "frames", "damaged", "frame", "pc", "put", "loaded", "sent",
           "rxdata", "got", "flushed", "writing", "asked", "took", "overlap"}

XbeeShape ==
  /\ xb = [f \in XbeeFields |-> xb[f]] /\ xb.damaged \in Nat /\ xb.overlap \in BOOLEAN
  /\ xb.writing = [n \in Nodes |-> xb.writing[n]]

\* What port n has, or has as soon as putData() stores it.
Held(n) == IF Locked(n) THEN xb.loaded \o xb.put[2] ELSE xb.rxdata[n]

\* What a frame of the radio holds for port n.
DataFor(n, data) ==
  IF data[1] = 129 /\ SubSeq(data, 2, 3) = n THEN SubSeq(data, 6, Len(data)) ELSE <<>>

\* p is what the frame on the line, if there is one, holds for each port.
OnLine(p) ==
  \/ xb.line = <<>> /\ xb.frame = NewFrame /\ \A n \in Nodes : p[n] = <<>>
  \/ \E data : /\ RadioFrame(data) /\ InFrame(xb.frame, xb.line, data)
               /\ \A n \in Nodes : p[n] = DataFor(n, data)

Puts == \E n \in Nodes, d \in Octets : xb.put = <<n, d>>

KeptAt(n, p) == StreamKept(n, xb.flushed, xb.got[n], Held(n), p[n], xb.sent[n])

Receiving ==
  /\ xb.sent \in [Nodes -> Octets] /\ xb.rxdata \in [Nodes -> Octets] /\ xb.got \in [Nodes -> Octets]
  /\ xb.pc = "wait" \/ (xb.pc = "put" /\ Puts)
  /\ \A n \in Nodes : Locked(n) /\ n \notin xb.flushed => xb.loaded = xb.rxdata[n]
  /\ \E p \in [Nodes -> Octets] : OnLine(p) /\ \A n \in Nodes : KeptAt(n, p)

Blank == [n \in Nodes |-> <<>>]

\* Without overlap one command at most is on its way to the radio.
Sending ==
  \/ xb.writing = Blank /\ xb.frame = NewFrame /\ xb.took = xb.asked
  \/ \E n \in Nodes, chunk \in Chunks :
       /\ InFrame(xb.frame, xb.writing[n], _build_command(n, chunk))
       /\ xb.asked = Append(xb.took, <<n, chunk>>)
       /\ \A m \in Nodes : m # n => xb.writing[m] = <<>>

XbeeInv ==
  /\ XbeeShape
  /\ xb.way = "rx" =>
       /\ xb.writing = Blank /\ xb.asked = <<>> /\ xb.took = <<>>
       /\ xb.damaged = 0 => Receiving
  /\ xb.way # "rx" =>
       /\ xb.line = <<>> /\ xb.pc = "wait"
       /\ xb.sent = Blank /\ xb.rxdata = Blank /\ xb.got = Blank
       /\ xb.asked \in Seq(Nodes \X Chunks)
       /\ ~xb.overlap => Sending /\ xb.took \in Seq(Nodes \X Chunks)

LEMMA LineIsNotEmpty ==
  ASSUME NEW f, NEW data, RadioFrame(data), NEW l, InFrame(f, l, data)
  PROVE  l # <<>> /\ Takes(f, l, data)
<1>1. Sendable(data)
  BY DEF RadioFrame
<1>2. Takes(f, l, data)
  BY <1>1, FrameByte
<1> QED
  BY <1>2, Zenon DEF Takes

\* What a frame holds is octets.
LEMMA DataIsOctets ==
  ASSUME NEW data, RadioFrame(data), NEW n
  PROVE  DataFor(n, data) \in Octets
<1> DEFINE B == 0 .. 255
           d == SubSeq(data, 6, Len(data))
<1>1. data \in Seq(B) /\ (data[1] = 129 => Len(data) > 5)
  BY DEF RadioFrame, Sendable, Octets
<1> HIDE DEF B
<1>2. Len(data) \in Nat
  BY <1>1
<1>3. d \in Seq(B)
  BY <1>1, <1>2
<1>4. <<>> \in Seq(B)
  OBVIOUS
<1> HIDE DEF d
<1> QED
  BY <1>3, <1>4 DEF DataFor, d, Octets, B

LEMMA RadioSendsKeeps ==
  ASSUME XbeeInv, NEW data, RadioFrame(data), RadioSends(data)
  PROVE  XbeeInv'
<1> DEFINE line == output(data)
           frames == xb.frames + 1
           src == SubSeq(data, 2, 3)
           sent == IF data[1] = 129 /\ src \in Nodes
                     THEN [xb.sent EXCEPT ![src] = xb.sent[src] \o SubSeq(data, 6, Len(data))]
                     ELSE xb.sent
<1>1. xb.way = "rx" /\ xb.line = <<>>
  BY DEF RadioSends
<1>0. xb' = [xb EXCEPT !.line = line, !.frames = frames, !.sent = sent]
  BY Zenon DEF RadioSends
<1>2. XbeeShape
  BY DEF XbeeInv
<1>3. xb.writing = Blank /\ xb.asked = <<>> /\ xb.took = <<>>
  BY <1>1 DEF XbeeInv
<1> HIDE DEF line, frames, sent
<1>4. /\ XbeeShape'
      /\ xb'.line = line /\ xb'.sent = sent
      /\ xb'.way = xb.way /\ xb'.damaged = xb.damaged /\ xb'.frame = xb.frame /\ xb'.pc = xb.pc
      /\ xb'.put = xb.put /\ xb'.loaded = xb.loaded /\ xb'.rxdata = xb.rxdata /\ xb'.got = xb.got
      /\ xb'.flushed = xb.flushed /\ xb'.writing = xb.writing /\ xb'.asked = xb.asked
      /\ xb'.took = xb.took /\ xb'.overlap = xb.overlap
  BY <1>0, <1>2 DEF XbeeShape, XbeeFields
<1>5. ASSUME xb.damaged = 0 PROVE Receiving'
  <2>1. Receiving
    BY <1>1, <1>5 DEF XbeeInv
  <2>2. PICK p \in [Nodes -> Octets] : OnLine(p) /\ \A n \in Nodes : KeptAt(n, p)
    BY <2>1, Zenon DEF Receiving
  <2>3. xb.frame = NewFrame /\ \A n \in Nodes : p[n] = <<>>
    BY <1>1, <2>2, LineIsNotEmpty, Zenon DEF OnLine
  <2> DEFINE q == [n \in Nodes |-> DataFor(n, data)]
  <2>4. q \in [Nodes -> Octets] /\ \A n \in Nodes : q[n] = DataFor(n, data)
    BY DataIsOctets
  <2> HIDE DEF q
  <2>5. xb.sent \in [Nodes -> Octets] /\ xb.rxdata \in [Nodes -> Octets] /\ xb.got \in [Nodes -> Octets]
    BY <2>1, Zenon DEF Receiving
  <2>6. \A n \in Nodes : sent[n] = xb.sent[n] \o q[n]
    <3> TAKE n \in Nodes
    <3> DEFINE d == SubSeq(data, 6, Len(data))
               f == xb.sent
               e == <<>>
               one == data[1]
    <3>1. q[n] = IF one = 129 /\ src = n THEN d ELSE e
      BY <2>4, Zenon DEF DataFor
    <3>2. sent = IF one = 129 /\ src \in Nodes THEN [f EXCEPT ![src] = f[src] \o d] ELSE f
      BY Zenon DEF sent
    <3>3. f \in [Nodes -> Octets]
      BY <2>5
    <3> HIDE DEF src, d, f, e, one
    <3>4. f[n] \o e = f[n]
      BY <3>3, Empty DEF e
    <3>5. sent[n] = f[n] \o q[n]
      <4>1. CASE one = 129 /\ src = n
        <5>1. q[n] = d /\ sent = [f EXCEPT ![n] = f[n] \o d]
          BY <3>1, <3>2, <4>1
        <5> DEFINE v == f[n] \o d
        <5> HIDE DEF v
        <5>2. sent = [f EXCEPT ![n] = v]
          BY <5>1 DEF v
        <5>3. sent[n] = v
          BY <3>3, <5>2
        <5> QED
          BY <5>1, <5>3 DEF v
      <4>2. CASE ~(one = 129 /\ src = n)
        <5>1. q[n] = e
          BY <3>1, <4>2, Zenon
        <5> DEFINE v == f[src] \o d
        <5> HIDE DEF v
        <5>2. sent = IF one = 129 /\ src \in Nodes THEN [f EXCEPT ![src] = v] ELSE f
          BY <3>2 DEF v
        <5>3. sent[n] = f[n]
          BY <3>3, <4>2, <5>2
        <5> QED
          BY <3>4, <5>1, <5>3, Zenon
      <4> QED
        BY <4>1, <4>2
    <3> QED
      BY <3>5 DEF f
  <2>7. sent \in [Nodes -> Octets]
    <3> DEFINE f == xb.sent
               d == SubSeq(data, 6, Len(data))
               v == f[src] \o d
    <3>1. sent = IF data[1] = 129 /\ src \in Nodes THEN [f EXCEPT ![src] = v] ELSE f
      BY Zenon DEF sent
    <3>2. src \in Nodes /\ data[1] = 129 => v \in Octets
      <4> SUFFICES ASSUME src \in Nodes, data[1] = 129 PROVE v \in Octets
        OBVIOUS
      <4>1. q[src] \in Octets /\ f[src] \in Octets /\ q[src] = d
        <5>1. q[src] = DataFor(src, data) /\ q[src] \in Octets
          BY <2>4
        <5>2. DataFor(src, data) = d
          BY Zenon DEF DataFor
        <5>3. f[src] \in Octets
          BY <2>5
        <5> QED
          BY <5>1, <5>2, <5>3, Zenon
      <4> HIDE DEF d, f, src
      <4> QED
        BY <4>1, Joins
    <3>3. f \in [Nodes -> Octets]
      BY <2>5
    <3> HIDE DEF f, v, src
    <3> QED
      BY <3>1, <3>2, <3>3
  <2>8. \A n \in Nodes : StreamKept(n, xb.flushed, xb.got[n], Held(n), q[n], xb.sent[n] \o q[n])
    <3> TAKE n \in Nodes
    <3> DEFINE e == p[n]
               x == xb.flushed
               g == xb.got[n]
               h == Held(n)
               s == xb.sent[n]
               d == q[n]
    <3>1. StreamKept(n, x, g, h, e, s) /\ e = <<>> /\ d \in Octets
      BY <2>2, <2>3, <2>4, Zenon DEF KeptAt
    <3> HIDE DEF e, x, g, h, s, d
    <3>2. StreamKept(n, x, g, h, d, s \o d)
      BY <3>1, KeptWhenSent
    <3> QED
      BY <3>2 DEF x, g, h, s, d
  <2>9. \A n \in Nodes : Held(n)' = Held(n) /\ (Locked(n)' <=> Locked(n))
    BY <1>4, Zenon DEF Held, Locked
  <2>10. \A n \in Nodes : KeptAt(n, q)'
    BY <1>4, <2>6, <2>8, <2>9, Zenon DEF KeptAt
  <2>11. OnLine(q)'
    <3>1. InFrame(xb.frame, line, data)
      BY <2>3, Zenon DEF InFrame, line
    <3> QED
      BY <1>4, <2>4, <3>1, Zenon DEF OnLine
  <2>12. xb'.pc = "wait" \/ (xb'.pc = "put" /\ Puts')
    BY <1>4, <2>1, Zenon DEF Receiving, Puts
  <2>13. \A n \in Nodes : Locked(n)' /\ n \notin xb'.flushed => xb'.loaded = xb'.rxdata[n]
    BY <1>4, <2>1, <2>9, Zenon DEF Receiving
  <2>14. /\ xb'.sent \in [Nodes -> Octets] /\ xb'.rxdata \in [Nodes -> Octets]
         /\ xb'.got \in [Nodes -> Octets]
    BY <1>4, <2>5, <2>7, Zenon
  <2> QED
    BY <2>4, <2>10, <2>11, <2>12, <2>13, <2>14, Zenon DEF Receiving
<1> QED
  BY <1>1, <1>3, <1>4, <1>5, Zenon DEF XbeeInv

\* The first byte of the frame on the line, as it was sent.
LEMMA ReadsKeeps ==
  ASSUME XbeeInv, wait_read_frame
  PROVE  XbeeInv'
<1> DEFINE byte == Head(xb.line)
           r == _wait_for_frame(xb.frame, byte)
           data == Payload(r.frame)
           rx == data[1] = 129
           rf_data == SubSeq(data, 6, Len(data))
           src == SubSeq(data, 2, 3)
           line == Tail(xb.line)
           frame == IF r.returns THEN NewFrame ELSE r.frame
           put == <<src, rf_data>>
           loaded == xb.rxdata[src]
           a == [xb EXCEPT !.line = line, !.frame = frame]
           bad == ~_split_response(data) \/ (rx /\ rf_data = << >>)
           mine == rx /\ src \in Nodes
<1>1. xb.pc = "wait" /\ xb.line # <<>> /\ xb' = ReadsByte(byte)
  BY Zenon DEF wait_read_frame
<1>2. XbeeShape
  BY DEF XbeeInv
<1>3. /\ ~r.returns => xb' = a
      /\ r.returns /\ bad => xb' = [a EXCEPT !.pc = "dead"]
      /\ r.returns /\ ~bad /\ ~mine => xb' = a
      /\ r.returns /\ ~bad /\ mine =>
           xb' = [a EXCEPT !.pc = "put", !.put = put, !.loaded = loaded]
  BY <1>1, Zenon DEF ReadsByte
<1> HIDE DEF line, frame, put, loaded, r, data, rx, bad, mine
<1> DEFINE Others ==
      /\ XbeeShape'
      /\ xb'.line = line /\ xb'.frame = frame
      /\ xb'.way = xb.way /\ xb'.damaged = xb.damaged /\ xb'.rxdata = xb.rxdata /\ xb'.got = xb.got
      /\ xb'.flushed = xb.flushed /\ xb'.writing = xb.writing /\ xb'.asked = xb.asked
      /\ xb'.took = xb.took /\ xb'.overlap = xb.overlap /\ xb'.sent = xb.sent
<1>4. /\ Others
      /\ ~r.returns \/ (~bad /\ ~mine) => xb'.pc = xb.pc /\ xb'.put = xb.put /\ xb'.loaded = xb.loaded
      /\ r.returns /\ ~bad /\ mine => xb'.pc = "put" /\ xb'.put = put /\ xb'.loaded = loaded
  <2>1. /\ a = [f \in XbeeFields |-> a[f]]
        /\ a.line = line /\ a.frame = frame
        /\ \A f \in XbeeFields : f # "line" /\ f # "frame" => a[f] = xb[f]
    BY <1>2 DEF XbeeShape, XbeeFields
  <2> HIDE DEF a
  <2>2. ASSUME xb' = a PROVE Others /\ xb'.pc = xb.pc /\ xb'.put = xb.put /\ xb'.loaded = xb.loaded
    BY <1>2, <2>1, <2>2 DEF XbeeShape, XbeeFields
  <2>3. ASSUME xb' = [a EXCEPT !.pc = "dead"] PROVE Others
    BY <1>2, <2>1, <2>3 DEF XbeeShape, XbeeFields
  <2>4. ASSUME xb' = [a EXCEPT !.pc = "put", !.put = put, !.loaded = loaded]
        PROVE  Others /\ xb'.pc = "put" /\ xb'.put = put /\ xb'.loaded = loaded
    BY <1>2, <2>1, <2>4 DEF XbeeShape, XbeeFields
  <2> HIDE DEF Others
  <2> QED
    BY <1>3, <2>2, <2>3, <2>4, Zenon
<1>5. ASSUME xb.damaged = 0, Receiving PROVE Receiving'
  <2>1. PICK p \in [Nodes -> Octets] : OnLine(p) /\ \A n \in Nodes : KeptAt(n, p)
    BY <1>5, Zenon DEF Receiving
  <2>2. PICK d : /\ RadioFrame(d) /\ InFrame(xb.frame, xb.line, d)
                 /\ \A n \in Nodes : p[n] = DataFor(n, d)
    BY <1>1, <2>1, Zenon DEF OnLine
  <2>3. /\ r.returns \in BOOLEAN
        /\ ~r.returns => InFrame(r.frame, line, d)
        /\ r.returns => line = <<>> /\ data = d
    <3>1. Takes(xb.frame, xb.line, d)
      BY <2>2, LineIsNotEmpty
    <3> QED
      BY <3>1, Zenon DEF Takes, r, line, data
  <2>4. /\ xb.sent \in [Nodes -> Octets] /\ xb.rxdata \in [Nodes -> Octets] /\ xb.got \in [Nodes -> Octets]
        /\ xb.pc = "wait"
    BY <1>1, <1>5, Zenon DEF Receiving
  <2>5. \A n \in Nodes : ~Locked(n) /\ Held(n) = xb.rxdata[n]
    <3>1. \A n \in Nodes : ~Locked(n)
      BY <2>4 DEF Locked
    <3> QED
      BY <3>1, Zenon DEF Held
  <2>6. ASSUME r.returns PROVE ~bad
    <3>1. _split_response(data) /\ (rx => Len(data) > 5) /\ data \in Octets
      <4>1. data = d
        BY <2>3, <2>6, Zenon
      <4>2. RadioFrame(data)
        BY <2>2, <4>1, Zenon
      <4>3. _split_response(data) /\ (data[1] = 129 => Len(data) > 5) /\ Sendable(data)
        BY <4>2 DEF RadioFrame
      <4>4. data \in Octets
        BY <4>3 DEF Sendable
      <4> QED
        BY <4>3, <4>4 DEF rx
    <3>2. rx => rf_data # <<>>
      <4> SUFFICES ASSUME Len(data) > 5 PROVE SubSeq(data, 6, Len(data)) # <<>>
        BY <3>1
      <4> DEFINE k == 5
                 b == SubSeq(data, k + 1, Len(data))
      <4>1. k \in Nat /\ k < Len(data)
        BY <3>1, OctetsAreNumbers
      <4>2. k + 1 = 6
        OBVIOUS
      <4> HIDE DEF k
      <4>3. b # <<>>
        BY <3>1, <4>1, Drops
      <4> QED
        BY <4>2, <4>3, Zenon
    <3> QED
      BY <3>1, <3>2, Zenon DEF bad
  <2>7. CASE ~r.returns
    <3>1. xb'.frame = r.frame /\ xb'.line = line /\ xb'.pc = "wait" /\ xb'.put = xb.put /\ xb'.loaded = xb.loaded
      BY <1>4, <2>4, <2>7, Zenon DEF frame
    <3>2. OnLine(p)'
      BY <2>2, <2>3, <2>7, <3>1, Zenon DEF OnLine
    <3>3. \A n \in Nodes : Held(n)' = Held(n) /\ ~Locked(n)'
      <4>1. \A n \in Nodes : ~Locked(n)'
        BY <3>1 DEF Locked
      <4> QED
        BY <1>4, <2>5, <4>1, Zenon DEF Held
    <3>4. \A n \in Nodes : KeptAt(n, p)'
      BY <1>4, <2>1, <3>3, Zenon DEF KeptAt
    <3>5. /\ xb'.sent \in [Nodes -> Octets] /\ xb'.rxdata \in [Nodes -> Octets]
          /\ xb'.got \in [Nodes -> Octets]
      BY <1>4, <2>4, Zenon
    <3> QED
      BY <3>1, <3>2, <3>3, <3>4, <3>5, Zenon DEF Receiving
  <2>8. CASE r.returns /\ ~mine
    <3>1. xb'.frame = NewFrame /\ xb'.line = <<>> /\ xb'.pc = "wait" /\ xb'.put = xb.put /\ xb'.loaded = xb.loaded
      BY <1>4, <2>3, <2>4, <2>6, <2>8, Zenon DEF frame
    <3>2. \A n \in Nodes : p[n] = <<>>
      BY <2>2, <2>3, <2>8, Zenon DEF DataFor, mine, rx
    <3>3. OnLine(p)'
      BY <3>1, <3>2, Zenon DEF OnLine
    <3>4. \A n \in Nodes : Held(n)' = Held(n) /\ ~Locked(n)'
      <4>1. \A n \in Nodes : ~Locked(n)'
        BY <3>1 DEF Locked
      <4> QED
        BY <1>4, <2>5, <4>1, Zenon DEF Held
    <3>5. \A n \in Nodes : KeptAt(n, p)'
      BY <1>4, <2>1, <3>4, Zenon DEF KeptAt
    <3>6. /\ xb'.sent \in [Nodes -> Octets] /\ xb'.rxdata \in [Nodes -> Octets]
          /\ xb'.got \in [Nodes -> Octets]
      BY <1>4, <2>4, Zenon
    <3> QED
      BY <3>1, <3>3, <3>4, <3>5, <3>6, Zenon DEF Receiving
  <2>9. CASE r.returns /\ mine
    <3>1. /\ xb'.frame = NewFrame /\ xb'.line = <<>> /\ xb'.pc = "put" /\ xb'.put = put
          /\ xb'.loaded = loaded
      BY <1>4, <2>3, <2>6, <2>9, Zenon DEF frame
    <3>2. put[1] = src /\ put[2] = rf_data /\ src \in Nodes /\ rx
      BY <2>9 DEF put, mine
    <3>3. \A n \in Nodes : p[n] = IF src = n THEN rf_data ELSE <<>>
      <4>1. d = data /\ d[1] = 129
        BY <2>3, <2>9, <3>2, Zenon DEF rx
      <4> QED
        BY <2>2, <4>1, Zenon DEF DataFor
    <3> DEFINE none == [n \in Nodes |-> <<>>]
    <3>4. none \in [Nodes -> Octets] /\ \A n \in Nodes : none[n] = <<>>
      BY Empty DEF Octets
    <3> HIDE DEF none
    <3>5. OnLine(none)'
      BY <3>1, <3>4, Zenon DEF OnLine
    <3>6. \A n \in Nodes : (Locked(n)' <=> src = n)
      BY <3>1, <3>2 DEF Locked
    <3>7. \A n \in Nodes : Held(n)' = Held(n) \o p[n]
      <4> TAKE n \in Nodes
      <4>1. CASE src = n
        <5>1. Held(n)' = loaded \o rf_data
          BY <3>1, <3>2, <3>6, <4>1, Zenon DEF Held
        <5>2. loaded = Held(n) /\ p[n] = rf_data
          BY <2>5, <3>3, <4>1, Zenon DEF loaded
        <5> QED
          BY <5>1, <5>2, Zenon
      <4>2. CASE src # n
        <5>1. Held(n)' = xb.rxdata[n]
          BY <1>4, <3>6, <4>2, Zenon DEF Held
        <5>2. p[n] = <<>> /\ Held(n) = xb.rxdata[n] /\ xb.rxdata[n] \in Octets
          BY <2>4, <2>5, <3>3, <4>2
        <5>3. Held(n) \o <<>> = Held(n)
          <6> DEFINE h == Held(n)
          <6>1. h \in Octets
            BY <5>2
          <6> HIDE DEF h
          <6> QED
            BY <6>1, Empty DEF h
        <5> QED
          BY <5>1, <5>2, <5>3, Zenon
      <4> QED
        BY <4>1, <4>2
    <3>8. \A n \in Nodes : KeptAt(n, none)'
      <4> SUFFICES ASSUME NEW n \in Nodes PROVE KeptAt(n, none)'
        OBVIOUS
      <4> DEFINE x == xb.flushed
                 g == xb.got[n]
                 h == Held(n)
                 c == p[n]
                 t == xb.sent[n]
      <4>1. StreamKept(n, x, g, h, c, t)
        BY <2>1, Zenon DEF KeptAt
      <4> HIDE DEF x, g, h, c, t
      <4>2. StreamKept(n, x, g, h \o c, <<>>, t)
        BY <4>1, KeptWhenReceived
      <4> QED
        BY <1>4, <3>4, <3>7, <4>2, Zenon DEF KeptAt, x, g, h, c, t
    <3>9. \A n \in Nodes : Locked(n)' => xb'.loaded = xb'.rxdata[n]
      BY <1>4, <3>1, <3>6, Zenon DEF loaded
    <3>10. Puts'
      <4>1. rf_data \in Octets
        <5>1. p[src] \in Octets /\ p[src] = rf_data
          <6>1. p[src] \in Octets
            BY <3>2
          <6> QED
            BY <3>2, <3>3, <6>1, Zenon
        <5> QED
          BY <5>1
      <4> QED
        BY <3>1, <3>2, <4>1, Zenon DEF Puts, put
    <3>11. /\ xb'.sent \in [Nodes -> Octets] /\ xb'.rxdata \in [Nodes -> Octets]
           /\ xb'.got \in [Nodes -> Octets]
      BY <1>4, <2>4, Zenon
    <3> QED
      BY <3>1, <3>4, <3>5, <3>8, <3>9, <3>10, <3>11, Zenon DEF Receiving
  <2> QED
    BY <2>3, <2>7, <2>8, <2>9
<1>6. xb.way = "rx"
  BY <1>1, Zenon DEF XbeeInv
<1> QED
  BY <1>4, <1>5, <1>6, Zenon DEF XbeeInv

LEMMA DamageKeeps ==
  ASSUME XbeeInv, NEW byte, Damage(byte)
  PROVE  XbeeInv'
<1> DEFINE r == _wait_for_frame(xb.frame, byte)
           data == Payload(r.frame)
           rx == data[1] = 129
           rf_data == SubSeq(data, 6, Len(data))
           src == SubSeq(data, 2, 3)
           line == Tail(xb.line)
           frame == IF r.returns THEN NewFrame ELSE r.frame
           put == <<src, rf_data>>
           loaded == xb.rxdata[src]
           a == [xb EXCEPT !.line = line, !.frame = frame]
           d == ReadsByte(byte)
           more == d.damaged + 1
<1>1. xb.line # <<>> /\ xb' = [d EXCEPT !.damaged = more]
  BY Zenon DEF Damage
<1>2. d = a \/ d = [a EXCEPT !.pc = "dead"] \/ d = [a EXCEPT !.pc = "put", !.put = put, !.loaded = loaded]
  BY Zenon DEF ReadsByte
<1>3. XbeeShape
  BY DEF XbeeInv
<1> HIDE DEF line, frame, put, loaded, r, data, rx, d, more
<1> DEFINE Others(e) ==
      /\ e = [f \in XbeeFields |-> e[f]] /\ e.damaged = xb.damaged /\ e.way = xb.way
      /\ e.writing = xb.writing /\ e.asked = xb.asked /\ e.took = xb.took /\ e.overlap = xb.overlap
<1>4. Others(d)
  <2>1. Others(a)
    BY <1>3 DEF XbeeShape, XbeeFields
  <2> HIDE DEF a
  <2>2. CASE d = a
    BY <2>1, <2>2
  <2>3. CASE d = [a EXCEPT !.pc = "dead"]
    BY <2>1, <2>3 DEF XbeeFields
  <2>4. CASE d = [a EXCEPT !.pc = "put", !.put = put, !.loaded = loaded]
    BY <2>1, <2>4 DEF XbeeFields
  <2> QED
    BY <1>2, <2>2, <2>3, <2>4
<1>5. /\ XbeeShape' /\ xb'.damaged = more /\ xb'.way = xb.way
      /\ xb'.writing = xb.writing /\ xb'.asked = xb.asked /\ xb'.took = xb.took
      /\ xb'.overlap = xb.overlap
  <2>1. more \in Nat
    BY <1>3, <1>4 DEF XbeeShape, more
  <2> QED
    BY <1>1, <1>3, <1>4, <2>1 DEF XbeeShape, XbeeFields
<1>6. more # 0
  BY <1>3, <1>4 DEF XbeeShape, more
<1>7. xb.way = "rx"
  BY <1>1, Zenon DEF XbeeInv
<1> QED
  BY <1>5, <1>6, <1>7, Zenon DEF XbeeInv

LEMMA PutDataKeeps ==
  ASSUME XbeeInv, putData
  PROVE  XbeeInv'
<1> DEFINE port == xb.put[1]
           all == xb.loaded \o xb.put[2]
           rxdata == [xb.rxdata EXCEPT ![port] = all]
           none == <<>>
<1>1. xb.pc = "put" /\ xb' = [xb EXCEPT !.rxdata = rxdata, !.pc = "wait", !.put = none, !.loaded = none]
  BY DEF putData
<1>2. XbeeShape
  BY DEF XbeeInv
<1> HIDE DEF rxdata, none
<1>4. /\ XbeeShape'
      /\ xb'.rxdata = rxdata /\ xb'.pc = "wait"
      /\ xb'.line = xb.line /\ xb'.frame = xb.frame
      /\ xb'.way = xb.way /\ xb'.damaged = xb.damaged /\ xb'.sent = xb.sent /\ xb'.got = xb.got
      /\ xb'.flushed = xb.flushed /\ xb'.writing = xb.writing /\ xb'.asked = xb.asked
      /\ xb'.took = xb.took /\ xb'.overlap = xb.overlap
  BY <1>1, <1>2 DEF XbeeShape, XbeeFields
<1>5. ASSUME xb.damaged = 0, Receiving PROVE Receiving'
  <2>1. PICK p \in [Nodes -> Octets] : OnLine(p) /\ \A n \in Nodes : KeptAt(n, p)
    BY <1>5, Zenon DEF Receiving
  <2>2. /\ xb.sent \in [Nodes -> Octets] /\ xb.rxdata \in [Nodes -> Octets] /\ xb.got \in [Nodes -> Octets]
        /\ Puts
    BY <1>1, <1>5, Zenon DEF Receiving
  <2>3. port \in Nodes
    BY <2>2 DEF Puts
  <2>4. \A n \in Nodes : (Locked(n) <=> port = n)
    BY <1>1 DEF Locked
  <2>5. all \in Octets /\ Held(port) = all
    <3>1. Held(port) = all
      BY <2>3, <2>4, Zenon DEF Held
    <3>2. StreamKept(port, xb.flushed, xb.got[port], Held(port), p[port], xb.sent[port])
      BY <2>1, <2>3, Zenon DEF KeptAt
    <3>3. Held(port) \in Octets
      BY <3>2, Zenon DEF StreamKept
    <3> QED
      BY <3>1, <3>3
  <2>6. rxdata \in [Nodes -> Octets] /\ \A n \in Nodes : rxdata[n] = IF port = n THEN all ELSE xb.rxdata[n]
    <3> DEFINE f == xb.rxdata
    <3>1. rxdata = [f EXCEPT ![port] = all] /\ f \in [Nodes -> Octets]
      BY <2>2 DEF rxdata
    <3>2. all \in Octets
      BY <2>5
    <3> HIDE DEF f, port, all
    <3>3. rxdata \in [Nodes -> Octets] /\ \A n \in Nodes : rxdata[n] = IF port = n THEN all ELSE f[n]
      BY <2>3, <3>1, <3>2
    <3> QED
      BY <3>3 DEF f
  <2>7. \A n \in Nodes : ~Locked(n)'
    BY <1>4 DEF Locked
  <2>8. \A n \in Nodes : Held(n)' = Held(n)
    <3> TAKE n \in Nodes
    <3>1. Held(n)' = rxdata[n]
      BY <1>4, <2>7, Zenon DEF Held
    <3>2. Held(n) = IF port = n THEN all ELSE xb.rxdata[n]
      BY <2>4, Zenon DEF Held
    <3> QED
      BY <2>6, <3>1, <3>2, Zenon
  <2>9. OnLine(p)' /\ \A n \in Nodes : KeptAt(n, p)'
    <3>1. \A n \in Nodes : KeptAt(n, p)'
      BY <1>4, <2>1, <2>8, Zenon DEF KeptAt
    <3>2. OnLine(p)'
      BY <1>4, <2>1, Zenon DEF OnLine
    <3> QED
      BY <3>1, <3>2
  <2>10. /\ xb'.sent \in [Nodes -> Octets] /\ xb'.rxdata \in [Nodes -> Octets]
         /\ xb'.got \in [Nodes -> Octets]
    BY <1>4, <2>2, <2>6, Zenon
  <2> QED
    BY <1>4, <2>7, <2>9, <2>10, Zenon DEF Receiving
<1>6. xb.way = "rx"
  BY <1>1 DEF XbeeInv
<1> QED
  BY <1>4, <1>5, <1>6, Zenon DEF XbeeInv

LEMMA ReadKeeps ==
  ASSUME XbeeInv, NEW n \in Nodes, NEW size \in 1 .. 2, read(n, size)
  PROVE  XbeeInv'
<1> DEFINE had == xb.rxdata[n]
           part == xb.got[n] \o SubSeq(had, 1, size)
           left == SubSeq(had, size + 1, Len(had))
           got == [xb.got EXCEPT ![n] = part]
           rxdata == [xb.rxdata EXCEPT ![n] = left]
<1>1. ~Locked(n) /\ Len(had) >= size /\ xb' = [xb EXCEPT !.got = got, !.rxdata = rxdata]
  BY DEF read
<1>2. XbeeShape
  BY DEF XbeeInv
<1> HIDE DEF got, rxdata, part, left
<1>4. /\ XbeeShape'
      /\ xb'.rxdata = rxdata /\ xb'.got = got /\ xb'.pc = xb.pc /\ xb'.put = xb.put /\ xb'.loaded = xb.loaded
      /\ xb'.line = xb.line /\ xb'.frame = xb.frame
      /\ xb'.way = xb.way /\ xb'.damaged = xb.damaged /\ xb'.sent = xb.sent
      /\ xb'.flushed = xb.flushed /\ xb'.writing = xb.writing /\ xb'.asked = xb.asked
      /\ xb'.took = xb.took /\ xb'.overlap = xb.overlap
  BY <1>1, <1>2 DEF XbeeShape, XbeeFields
<1>5. ASSUME xb.damaged = 0, Receiving PROVE Receiving'
  <2>1. PICK p \in [Nodes -> Octets] : OnLine(p) /\ \A m \in Nodes : KeptAt(m, p)
    BY <1>5, Zenon DEF Receiving
  <2>2. xb.sent \in [Nodes -> Octets] /\ xb.rxdata \in [Nodes -> Octets] /\ xb.got \in [Nodes -> Octets]
    BY <1>5, Zenon DEF Receiving
  <2>3. StreamKept(n, xb.flushed, part, left, p[n], xb.sent[n])
    <3> DEFINE x == xb.flushed
               g == xb.got[n]
               c == p[n]
               t == xb.sent[n]
    <3>1. StreamKept(n, x, g, had, c, t)
      BY <1>1, <2>1, Zenon DEF KeptAt, Held
    <3>2. had \in Octets
      BY <2>2
    <3>3. size \in Nat /\ size <= Len(had)
      BY <1>1, <3>2, OctetsAreNumbers
    <3> HIDE DEF x, g, c, t, had
    <3>4. StreamKept(n, x, g \o SubSeq(had, 1, size), SubSeq(had, size + 1, Len(had)), c, t)
      BY <3>1, <3>3, KeptWhenRead
    <3> QED
      BY <3>4 DEF x, g, c, t, part, left, had
  <2>4. part \in Octets /\ left \in Octets
    BY <2>3, Zenon DEF StreamKept
  <2>5. /\ got \in [Nodes -> Octets] /\ \A m \in Nodes : got[m] = IF m = n THEN part ELSE xb.got[m]
        /\ rxdata \in [Nodes -> Octets] /\ \A m \in Nodes : rxdata[m] = IF m = n THEN left ELSE xb.rxdata[m]
    <3> DEFINE f == xb.got
               h == xb.rxdata
    <3>1. got = [f EXCEPT ![n] = part] /\ rxdata = [h EXCEPT ![n] = left]
          /\ f \in [Nodes -> Octets] /\ h \in [Nodes -> Octets]
      BY <2>2 DEF got, rxdata
    <3> HIDE DEF f, h
    <3>2. /\ got \in [Nodes -> Octets] /\ \A m \in Nodes : got[m] = IF m = n THEN part ELSE f[m]
          /\ rxdata \in [Nodes -> Octets] /\ \A m \in Nodes : rxdata[m] = IF m = n THEN left ELSE h[m]
      BY <2>4, <3>1
    <3> QED
      BY <3>2 DEF f, h
  <2>6. \A m \in Nodes : (Locked(m)' <=> Locked(m))
    BY <1>4, Zenon DEF Locked
  <2>7. \A m \in Nodes : Held(m)' = IF m = n THEN left ELSE Held(m)
    <3> TAKE m \in Nodes
    <3>1. CASE m = n
      <4>1. Held(m)' = rxdata[m]
        BY <1>1, <1>4, <2>6, <3>1, Zenon DEF Held
      <4> QED
        BY <2>5, <3>1, <4>1
    <3>2. CASE m # n
      <4>1. rxdata[m] = xb.rxdata[m]
        BY <2>5, <3>2
      <4> QED
        BY <1>4, <2>6, <3>2, <4>1, Zenon DEF Held
    <3> QED
      BY <3>1, <3>2
  <2>8. \A m \in Nodes : KeptAt(m, p)'
    <3> TAKE m \in Nodes
    <3>1. CASE m = n
      <4>1. xb'.got[m] = part /\ Held(m)' = left
        BY <1>4, <2>5, <2>7, <3>1, Zenon
      <4> QED
        BY <1>4, <2>3, <3>1, <4>1, Zenon DEF KeptAt
    <3>2. CASE m # n
      <4>1. xb'.got[m] = xb.got[m] /\ Held(m)' = Held(m)
        BY <1>4, <2>5, <2>7, <3>2, Zenon
      <4> QED
        BY <1>4, <2>1, <4>1, Zenon DEF KeptAt
    <3> QED
      BY <3>1, <3>2
  <2>9. OnLine(p)'
    BY <1>4, <2>1, Zenon DEF OnLine
  <2>10. \A m \in Nodes : Locked(m)' /\ m \notin xb'.flushed => xb'.loaded = xb'.rxdata[m]
    <3> TAKE m \in Nodes
    <3>1. Locked(m) => m # n
      BY <1>1
    <3>2. m # n => rxdata[m] = xb.rxdata[m]
      BY <2>5
    <3> QED
      BY <1>4, <1>5, <2>6, <3>1, <3>2, Zenon DEF Receiving
  <2>11. /\ xb'.sent \in [Nodes -> Octets] /\ xb'.rxdata \in [Nodes -> Octets]
         /\ xb'.got \in [Nodes -> Octets]
    BY <1>4, <2>2, <2>5, Zenon
  <2>12. xb'.pc = "wait" \/ (xb'.pc = "put" /\ Puts')
    BY <1>4, <1>5, Zenon DEF Receiving, Puts
  <2> QED
    BY <2>8, <2>9, <2>10, <2>11, <2>12, Zenon DEF Receiving
<1>6. xb.way = "rx"
  <2> SUFFICES ASSUME xb.way # "rx" PROVE FALSE
    OBVIOUS
  <2>1. had = <<>>
    BY DEF XbeeInv, Blank
  <2> QED
    BY <1>1, <2>1
<1> QED
  BY <1>4, <1>5, <1>6, Zenon DEF XbeeInv

\* Also while putData() stores.
LEMMA FlushKeeps ==
  ASSUME XbeeInv, NEW n \in Nodes, flushInput(n)
  PROVE  XbeeInv'
<1> DEFINE e == <<>>
           rxdata == [xb.rxdata EXCEPT ![n] = e]
           flushed == xb.flushed \cup {n}
<1>1. xb.rxdata[n] # <<>> /\ xb' = [xb EXCEPT !.rxdata = rxdata, !.flushed = flushed]
  BY DEF flushInput
<1>2. XbeeShape
  BY DEF XbeeInv
<1> HIDE DEF rxdata, e, flushed
<1>4. /\ XbeeShape'
      /\ xb'.rxdata = rxdata /\ xb'.flushed = flushed
      /\ xb'.pc = xb.pc /\ xb'.put = xb.put /\ xb'.loaded = xb.loaded
      /\ xb'.line = xb.line /\ xb'.frame = xb.frame /\ xb'.got = xb.got
      /\ xb'.way = xb.way /\ xb'.damaged = xb.damaged /\ xb'.sent = xb.sent
      /\ xb'.writing = xb.writing /\ xb'.asked = xb.asked
      /\ xb'.took = xb.took /\ xb'.overlap = xb.overlap
  BY <1>1, <1>2 DEF XbeeShape, XbeeFields
<1>5. ASSUME xb.damaged = 0, Receiving PROVE Receiving'
  <2>1. PICK p \in [Nodes -> Octets] : OnLine(p) /\ \A m \in Nodes : KeptAt(m, p)
    BY <1>5, Zenon DEF Receiving
  <2>2. xb.sent \in [Nodes -> Octets] /\ xb.rxdata \in [Nodes -> Octets] /\ xb.got \in [Nodes -> Octets]
    BY <1>5, Zenon DEF Receiving
  <2>3. n \in flushed /\ \A m \in Nodes : m # n => (m \in flushed <=> m \in xb.flushed)
    BY DEF flushed
  <2>4. /\ StreamKept(n, flushed, xb.got[n], Held(n), p[n], xb.sent[n])
        /\ StreamKept(n, flushed, xb.got[n], e, p[n], xb.sent[n])
    <3> DEFINE x == xb.flushed
               g == xb.got[n]
               h == Held(n)
               c == p[n]
               t == xb.sent[n]
    <3>1. StreamKept(n, x, g, h, c, t)
      BY <2>1, Zenon DEF KeptAt
    <3> HIDE DEF x, g, c, t, h
    <3>2. StreamKept(n, flushed, g, h, c, t) /\ StreamKept(n, flushed, g, <<>>, c, t)
      BY <2>3, <3>1, KeptWhenFlushed
    <3> QED
      BY <3>2 DEF g, c, t, h, e
  <2>5. /\ rxdata \in [Nodes -> Octets] /\ \A m \in Nodes : rxdata[m] = IF m = n THEN e ELSE xb.rxdata[m]
    <3> DEFINE h == xb.rxdata
    <3>1. rxdata = [h EXCEPT ![n] = e] /\ h \in [Nodes -> Octets] /\ e \in Octets
      BY <2>2 DEF rxdata, e, Octets
    <3> HIDE DEF h
    <3>2. rxdata \in [Nodes -> Octets] /\ \A m \in Nodes : rxdata[m] = IF m = n THEN e ELSE h[m]
      BY <3>1
    <3> QED
      BY <3>2 DEF h
  <2>6. \A m \in Nodes : (Locked(m)' <=> Locked(m))
    BY <1>4, Zenon DEF Locked
  <2>7. \A m \in Nodes : Held(m)' = IF m = n /\ ~Locked(n) THEN e ELSE Held(m)
    <3> TAKE m \in Nodes
    <3>1. CASE Locked(m)
      BY <1>4, <2>6, <3>1, Zenon DEF Held
    <3>2. CASE ~Locked(m)
      <4>1. Held(m)' = rxdata[m] /\ Held(m) = xb.rxdata[m]
        BY <1>4, <2>6, <3>2, Zenon DEF Held
      <4> QED
        BY <2>5, <3>2, <4>1, Zenon
    <3> QED
      BY <3>1, <3>2
  <2>8. \A m \in Nodes : KeptAt(m, p)'
    <3> TAKE m \in Nodes
    <3>1. CASE m = n
      <4>1. Held(m)' = e \/ Held(m)' = Held(m)
        BY <2>7, <3>1, Zenon
      <4> QED
        BY <1>4, <2>4, <3>1, <4>1, Zenon DEF KeptAt
    <3>2. CASE m # n
      <4>1. Held(m)' = Held(m)
        BY <2>7, <3>2, Zenon
      <4>2. StreamKept(m, xb.flushed, xb.got[m], Held(m), p[m], xb.sent[m])
        BY <2>1, Zenon DEF KeptAt
      <4>3. StreamKept(m, flushed, xb.got[m], Held(m), p[m], xb.sent[m])
        BY <2>3, <3>2, <4>2, Zenon DEF StreamKept
      <4> QED
        BY <1>4, <4>1, <4>3, Zenon DEF KeptAt
    <3> QED
      BY <3>1, <3>2
  <2>9. OnLine(p)'
    BY <1>4, <2>1, Zenon DEF OnLine
  <2>10. \A m \in Nodes : Locked(m)' /\ m \notin xb'.flushed => xb'.loaded = xb'.rxdata[m]
    <3> TAKE m \in Nodes
    <3>1. m # n => rxdata[m] = xb.rxdata[m]
      BY <2>5
    <3> QED
      BY <1>4, <1>5, <2>3, <2>6, <3>1, Zenon DEF Receiving
  <2>11. /\ xb'.sent \in [Nodes -> Octets] /\ xb'.rxdata \in [Nodes -> Octets]
         /\ xb'.got \in [Nodes -> Octets]
    BY <1>4, <2>2, <2>5, Zenon
  <2>12. xb'.pc = "wait" \/ (xb'.pc = "put" /\ Puts')
    BY <1>4, <1>5, Zenon DEF Receiving, Puts
  <2> QED
    BY <2>8, <2>9, <2>10, <2>11, <2>12, Zenon DEF Receiving
<1>6. xb.way = "rx"
  <2> SUFFICES ASSUME xb.way # "rx" PROVE FALSE
    OBVIOUS
  <2>1. xb.rxdata[n] = <<>>
    BY DEF XbeeInv, Blank
  <2> QED
    BY <1>1, <2>1
<1> QED
  BY <1>4, <1>5, <1>6, Zenon DEF XbeeInv

LEMMA Middle ==
  ASSUME NEW a \in Octets, NEW b \in Octets, NEW c \in Octets
  PROVE  SubSeq((a \o b) \o c, Len(a) + 1, Len(a) + Len(b)) = b
<1> DEFINE B == 0 .. 255
           ab == a \o b
           k == Len(a)
           l == Len(b)
           d == ab \o c
           s == SubSeq(d, k + 1, k + l)
<1>1. /\ ab \in Octets /\ Len(ab) = k + l /\ k \in Nat /\ l \in Nat
      /\ \A i \in 1 .. l : ab[i + k] = b[i]
  BY Joins
<1> HIDE DEF ab, k, l
<1>2. d \in Octets /\ Len(d) = (k + l) + Len(c) /\ Len(c) \in Nat /\ \A i \in 1 .. k + l : d[i] = ab[i]
  <2>1. /\ d \in Octets /\ Len(d) = Len(ab) + Len(c) /\ Len(c) \in Nat
        /\ \A i \in 1 .. Len(ab) : d[i] = ab[i]
    BY <1>1, Joins
  <2> QED
    BY <1>1, <2>1
<1> HIDE DEF d
<1>3. \A i \in 1 .. l : d[i + k] = b[i]
  <2> TAKE i \in 1 .. l
  <2>1. i + k \in 1 .. k + l
    BY <1>1
  <2> QED
    BY <1>1, <1>2, <2>1
<1>4. d \in Seq(B) /\ b \in Seq(B)
  BY <1>2 DEF Octets
<1> HIDE DEF B
<1>5. s \in Seq(B) /\ Len(s) = l /\ \A i \in 1 .. l : s[i] = d[i + k]
  BY <1>1, <1>2, <1>4
<1>6. \A i \in 1 .. l : s[i] = b[i]
  BY <1>3, <1>5
<1>7. Len(b) = l
  BY DEF l
<1> HIDE DEF s
<1>8. s = b
  BY <1>1, <1>4, <1>5, <1>6, <1>7
<1> QED
  BY <1>8 DEF s, d, ab, k, l

\* The command that a chunk makes, and what the radio finds in it.
LEMMA Commands ==
  ASSUME NEW n \in Nodes, NEW chunk \in Chunks
  PROVE  LET cmd == _build_command(n, chunk)
         IN  /\ Sendable(cmd) /\ ~(Len(cmd) < 5)
             /\ SubSeq(cmd, 3, 4) = n /\ SubSeq(cmd, 6, Len(cmd)) = chunk
<1> DEFINE a == <<1, 48>>
           one == <<1>>
           an == a \o n
           cmd == (an \o one) \o chunk
           e == <<>>
<1>1. n \in Octets /\ Len(n) = 2 /\ chunk \in Octets /\ Len(chunk) + 5 < 32768
  BY NodesAssumption, PayloadAssumption
<1>2. a \in Octets /\ Len(a) = 2 /\ one \in Octets /\ Len(one) = 1
  BY DEF Octets
<1> HIDE DEF a, one
<1>3. an \in Octets /\ Len(an) = 4
  <2>1. a \in Octets /\ n \in Octets
    BY <1>1, <1>2
  <2>2. an \in Octets /\ Len(an) = Len(a) + Len(n)
    BY <2>1, Joins
  <2> QED
    BY <1>1, <1>2, <2>2
<1> HIDE DEF an
<1> DEFINE front == an \o one
<1>4. front \in Octets /\ Len(front) = 5
  <2>2. front \in Octets /\ Len(front) = Len(an) + Len(one)
    BY <1>2, <1>3, Joins
  <2> QED
    BY <1>2, <1>3, <2>2
<1> HIDE DEF front
<1>5. cmd \in Octets /\ Len(cmd) = 5 + Len(chunk) /\ Len(chunk) \in Nat
  <2>1. chunk \in Octets
    BY <1>1
  <2> DEFINE c == front \o chunk
  <2>2. c \in Octets /\ Len(c) = Len(front) + Len(chunk) /\ Len(chunk) \in Nat
    BY <1>4, <2>1, Joins
  <2> HIDE DEF c
  <2>3. c \in Octets /\ Len(c) = 5 + Len(chunk)
    BY <1>4, <2>2
  <2> QED
    BY <2>2, <2>3 DEF c, front
<1>6. SubSeq(cmd, 3, 4) = n
  <2> DEFINE rest == one \o chunk
  <2>1. chunk \in Octets
    BY <1>1
  <2>2. rest \in Octets
    BY <1>2, <2>1, Joins
  <2>3. cmd = an \o rest
    BY <1>2, <1>3, <2>1, Associative
  <2> HIDE DEF rest
  <2>4. a \in Octets /\ n \in Octets
    BY <1>1, <1>2
  <2>5. SubSeq((a \o n) \o rest, Len(a) + 1, Len(a) + Len(n)) = n
    BY <2>2, <2>4, Middle
  <2>6. Len(a) + 1 = 3 /\ Len(a) + Len(n) = 4
    BY <1>1, <1>2
  <2> QED
    BY <2>3, <2>5, <2>6, Zenon DEF an
<1>7. SubSeq(cmd, 6, Len(cmd)) = chunk
  <2> DEFINE c == front \o chunk
  <2>1. chunk \in Octets /\ e \in Octets
    BY <1>1, Empty
  <2>2. c \in Octets
    BY <1>4, <2>1, Joins
  <2> HIDE DEF c, e
  <2>3. c \o e = c
    BY <2>2, Empty DEF e
  <2>4. SubSeq((front \o chunk) \o e, Len(front) + 1, Len(front) + Len(chunk)) = chunk
    BY <1>4, <2>1, Middle
  <2>5. Len(front) + 1 = 6 /\ Len(front) + Len(chunk) = Len(cmd)
    BY <1>4, <1>5
  <2>6. c = cmd
    BY DEF c, front
  <2> QED
    BY <2>3, <2>4, <2>5, <2>6, Zenon DEF c
<1>8. Sendable(cmd) /\ ~(Len(cmd) < 5)
  <2> DEFINE l == Len(chunk)
             m == Len(cmd)
  <2>1. l + 5 < 32768 /\ l \in Nat /\ m = 5 + l /\ cmd \in Octets
    BY <1>1, <1>5
  <2> HIDE DEF l, m, cmd
  <2>2. m < 32768 /\ ~(m < 5)
    BY <2>1
  <2> QED
    BY <2>1, <2>2 DEF Sendable, m
<1> QED
  BY <1>6, <1>7, <1>8, Zenon DEF _build_command, an, a, one

LEMMA WriteKeeps ==
  ASSUME XbeeInv, NEW n \in Nodes, NEW data \in Chunks, write(n, data)
  PROVE  XbeeInv'
<1> DEFINE cmd == _build_command(n, data)
           l == output(cmd)
           writing == [xb.writing EXCEPT ![n] = l]
           overlap == xb.overlap \/ \E m \in Nodes : xb.writing[m] # <<>>
           pair == <<n, data>>
           asked == Append(xb.asked, pair)
<1>1. xb.way = "tx" /\ xb' = [xb EXCEPT !.writing = writing, !.overlap = overlap, !.asked = asked]
  BY DEF write
<1>2. XbeeShape
  BY DEF XbeeInv
<1>3. overlap \in BOOLEAN
  OBVIOUS
<1> HIDE DEF overlap, asked, l
<1>4. writing = [m \in Nodes |-> writing[m]] /\ \A m \in Nodes : writing[m] = IF m = n THEN l ELSE xb.writing[m]
  <2> DEFINE w == xb.writing
  <2>1. w = [m \in Nodes |-> w[m]]
    BY <1>2 DEF XbeeShape
  <2>2. writing = [w EXCEPT ![n] = l]
    OBVIOUS
  <2> HIDE DEF w, writing
  <2>3. writing = [m \in Nodes |-> writing[m]] /\ \A m \in Nodes : writing[m] = IF m = n THEN l ELSE w[m]
    BY <2>1, <2>2
  <2> QED
    BY <2>3 DEF w
<1> HIDE DEF writing
<1>5. /\ XbeeShape'
      /\ xb'.writing = writing /\ xb'.overlap = overlap /\ xb'.asked = asked
      /\ xb'.rxdata = xb.rxdata /\ xb'.flushed = xb.flushed
      /\ xb'.pc = xb.pc /\ xb'.put = xb.put /\ xb'.loaded = xb.loaded
      /\ xb'.line = xb.line /\ xb'.frame = xb.frame /\ xb'.got = xb.got
      /\ xb'.way = xb.way /\ xb'.damaged = xb.damaged /\ xb'.sent = xb.sent
      /\ xb'.took = xb.took
  BY <1>1, <1>2, <1>3, <1>4 DEF XbeeShape, XbeeFields
<1>6. xb.way # "rx"
  BY <1>1
<1>7. asked \in Seq(Nodes \X Chunks)
  <2> DEFINE S == Nodes \X Chunks
             old == xb.asked
  <2>1. old \in Seq(S) /\ pair \in S
    BY <1>6 DEF XbeeInv
  <2>2. asked = Append(old, pair)
    BY DEF asked
  <2> HIDE DEF S, old, pair
  <2> QED
    BY <2>1, <2>2 DEF S
<1>8. ASSUME ~overlap PROVE Sending'
  <2>1. ~xb.overlap /\ \A m \in Nodes : xb.writing[m] = <<>>
    BY <1>8 DEF overlap
  <2>2. Sending
    BY <1>6, <2>1 DEF XbeeInv
  <2>3. xb.frame = NewFrame /\ xb.took = xb.asked
    <3>1. ASSUME NEW m \in Nodes, NEW chunk \in Chunks,
                 InFrame(xb.frame, xb.writing[m], _build_command(m, chunk))
          PROVE  FALSE
      <4>1. Sendable(_build_command(m, chunk))
        BY Commands
      <4>2. Takes(xb.frame, xb.writing[m], _build_command(m, chunk))
        BY <3>1, <4>1, FrameByte
      <4>3. xb.writing[m] # <<>>
        BY <4>2, Zenon DEF Takes
      <4> QED
        BY <2>1, <4>3
    <3> QED
      BY <2>2, <3>1, Zenon DEF Sending
  <2>4. InFrame(xb'.frame, xb'.writing[n], cmd)
    <3>1. xb'.frame = NewFrame /\ xb'.writing[n] = l
      BY <1>4, <1>5, <2>3
    <3> QED
      BY <3>1, Zenon DEF InFrame, l
  <2>5. xb'.asked = Append(xb'.took, pair)
    BY <1>5, <2>3, Zenon DEF asked
  <2>6. \A m \in Nodes : m # n => xb'.writing[m] = <<>>
    BY <1>4, <1>5, <2>1
  <2> QED
    BY <2>4, <2>5, <2>6, Zenon DEF Sending
<1> HIDE DEF cmd, pair
<1>9. /\ xb'.line = <<>> /\ xb'.pc = "wait"
      /\ xb'.sent = Blank /\ xb'.rxdata = Blank /\ xb'.got = Blank
      /\ xb'.asked \in Seq(Nodes \X Chunks)
      /\ ~xb'.overlap => Sending' /\ xb'.took \in Seq(Nodes \X Chunks)
  <2>1. ~overlap => ~xb.overlap
    BY DEF overlap
  <2> QED
    BY <1>5, <1>6, <1>7, <1>8, <2>1, Zenon DEF XbeeInv
<1>10. xb'.way # "rx"
  BY <1>5, <1>6
<1> QED
  BY <1>5, <1>9, <1>10, Zenon DEF XbeeInv

LEMMA SerialWriteKeeps ==
  ASSUME XbeeInv, NEW n \in Nodes, NEW k \in {PortRoom, Len(xb.writing[n])},
         k <= Len(xb.writing[n]), serial_write(n, k)
  PROVE  XbeeInv'
<1> DEFINE old == xb.writing[n]
           left == SubSeq(old, k + 1, Len(old))
           radio == taking(xb.frame, xb.took, old)[k]
           frame == radio.frame
           took == radio.took
           writing == [xb.writing EXCEPT ![n] = left]
<1>1. old # <<>> /\ xb' = [xb EXCEPT !.writing = writing, !.frame = frame, !.took = took]
  BY Zenon DEF serial_write
<1>2. XbeeShape
  BY DEF XbeeInv
<1> HIDE DEF left, frame, took
<1>3. writing = [m \in Nodes |-> writing[m]] /\ \A m \in Nodes : writing[m] = IF m = n THEN left ELSE xb.writing[m]
  <2> DEFINE w == xb.writing
  <2>1. w = [m \in Nodes |-> w[m]]
    BY <1>2 DEF XbeeShape
  <2>2. writing = [w EXCEPT ![n] = left]
    OBVIOUS
  <2> HIDE DEF w, writing
  <2>3. writing = [m \in Nodes |-> writing[m]] /\ \A m \in Nodes : writing[m] = IF m = n THEN left ELSE w[m]
    BY <2>1, <2>2
  <2> QED
    BY <2>3 DEF w
<1> HIDE DEF writing
<1>4. /\ XbeeShape'
      /\ xb'.writing = writing /\ xb'.frame = frame /\ xb'.took = took
      /\ xb'.rxdata = xb.rxdata /\ xb'.flushed = xb.flushed
      /\ xb'.pc = xb.pc /\ xb'.put = xb.put /\ xb'.loaded = xb.loaded
      /\ xb'.line = xb.line /\ xb'.got = xb.got
      /\ xb'.way = xb.way /\ xb'.damaged = xb.damaged /\ xb'.sent = xb.sent
      /\ xb'.asked = xb.asked /\ xb'.overlap = xb.overlap
  BY <1>1, <1>2, <1>3 DEF XbeeShape, XbeeFields
<1>5. xb.way # "rx"
  <2> SUFFICES ASSUME xb.way = "rx" PROVE FALSE
    OBVIOUS
  <2>1. old = <<>>
    BY DEF XbeeInv, Blank
  <2> QED
    BY <1>1, <2>1
<1>6. xb.asked \in Seq(Nodes \X Chunks)
  BY <1>5 DEF XbeeInv
<1>7. ASSUME ~xb.overlap PROVE Sending' /\ took \in Seq(Nodes \X Chunks)
  <2>1. Sending
    BY <1>5, <1>7 DEF XbeeInv
  <2>2. PICK chunk \in Chunks :
           /\ InFrame(xb.frame, old, _build_command(n, chunk))
           /\ xb.asked = Append(xb.took, <<n, chunk>>)
           /\ \A m \in Nodes : m # n => xb.writing[m] = <<>>
    <3>1. xb.writing # Blank
      BY <1>1 DEF Blank
    <3>2. PICK m \in Nodes, chunk \in Chunks :
             /\ InFrame(xb.frame, xb.writing[m], _build_command(m, chunk))
             /\ xb.asked = Append(xb.took, <<m, chunk>>)
             /\ \A o \in Nodes : o # m => xb.writing[o] = <<>>
      BY <2>1, <3>1, Zenon DEF Sending
    <3>3. m = n
      BY <1>1, <3>2
    <3> QED
      BY <3>2, <3>3, Zenon
  <2> DEFINE cmd == _build_command(n, chunk)
             pair == <<n, chunk>>
  <2>3. Sendable(cmd) /\ ~(Len(cmd) < 5) /\ <<SubSeq(cmd, 3, 4), SubSeq(cmd, 6, Len(cmd))>> = pair
    BY Commands, Zenon
  <2>4. old \in Octets
    <3>1. Takes(xb.frame, old, cmd)
      BY <2>2, <2>3, FrameByte
    <3> QED
      BY <3>1, Zenon DEF Takes
  <2>5. k \in 0 .. Len(old) /\ Len(old) \in Nat /\ k \in Nat
    BY <2>4, BoundsAssumption, OctetsAreNumbers
  <2>6. Fed(radio, xb.took, old, cmd, k)
    <3> DEFINE f == xb.frame
               t == xb.took
    <3>1. InFrame(f, old, cmd) /\ Sendable(cmd) /\ k \in 0 .. Len(old)
      BY <2>2, <2>3, <2>5
    <3> HIDE DEF f, t, old, cmd, radio
    <3>2. Fed(taking(f, t, old)[k], t, old, cmd, k)
      BY <3>1, FrameBytes
    <3> QED
      BY <3>2, Zenon DEF radio, f, t
  <2>7. /\ k < Len(old) => InFrame(frame, left, cmd) /\ took = xb.took
        /\ k = Len(old) => frame = NewFrame /\ took = Append(xb.took, pair)
    BY <2>3, <2>6, Zenon DEF Fed, frame, took, left
  <2>8. Append(xb.took, pair) \in Seq(Nodes \X Chunks)
    BY <1>6, <2>2, Zenon
  <2> HIDE DEF pair
  <2>0. xb.took \in Seq(Nodes \X Chunks)
    BY <1>5, <1>7 DEF XbeeInv
  <2>9. took \in Seq(Nodes \X Chunks)
    <3>1. k < Len(old) \/ k = Len(old)
      BY <2>5
    <3> QED
      BY <2>0, <2>7, <2>8, <3>1, Zenon
  <2>10. CASE k < Len(old)
    <3>1. InFrame(xb'.frame, xb'.writing[n], cmd)
      BY <1>3, <1>4, <2>7, <2>10, Zenon
    <3>2. xb'.asked = Append(xb'.took, pair)
      BY <1>4, <2>2, <2>7, <2>10, Zenon DEF pair
    <3>3. \A m \in Nodes : m # n => xb'.writing[m] = <<>>
      BY <1>3, <1>4, <2>2, Zenon
    <3> QED
      BY <2>9, <3>1, <3>2, <3>3, Zenon DEF Sending, pair
  <2>11. CASE k = Len(old)
    <3>1. left = <<>>
      <4> DEFINE B == 0 .. 255
      <4>1. old \in Seq(B)
        BY <2>4 DEF Octets
      <4> HIDE DEF B, old
      <4>2. SubSeq(old, Len(old) + 1, Len(old)) = <<>>
        BY <4>1
      <4> QED
        BY <2>11, <4>2, Zenon DEF left
    <3>2. writing = Blank
      BY <1>3, <2>2, <3>1 DEF Blank
    <3>3. xb'.frame = NewFrame /\ xb'.took = xb'.asked
      BY <1>4, <2>2, <2>7, <2>11, Zenon DEF pair
    <3> QED
      BY <1>4, <2>9, <3>2, <3>3, Zenon DEF Sending
  <2> QED
    BY <2>5, <2>10, <2>11
<1>8. /\ xb'.line = <<>> /\ xb'.pc = "wait"
      /\ xb'.sent = Blank /\ xb'.rxdata = Blank /\ xb'.got = Blank
      /\ xb'.asked \in Seq(Nodes \X Chunks)
      /\ ~xb'.overlap => Sending' /\ xb'.took \in Seq(Nodes \X Chunks)
  BY <1>4, <1>5, <1>7, Zenon DEF XbeeInv
<1> QED
  BY <1>4, <1>5, <1>8, Zenon DEF XbeeInv

LEMMA XbeeInvAtInit == XbeeInit => XbeeInv
<1> SUFFICES ASSUME XbeeInit PROVE XbeeInv
  OBVIOUS
<1> DEFINE blank == Blank
           none == <<>>
           new == NewFrame
           empty == {}
           p == blank
<1>1. /\ xb.way \in {"rx", "tx"} /\ xb.line = none /\ xb.damaged = 0 /\ xb.frame = new
      /\ xb.pc = "wait" /\ xb.sent = blank /\ xb.rxdata = blank /\ xb.got = blank
      /\ xb.flushed = empty /\ xb.writing = blank /\ xb.asked = none /\ xb.took = none
      /\ xb.overlap = FALSE /\ xb = [f \in XbeeFields |-> xb[f]]
  <2> HIDE DEF new
  <2> QED
    BY DEF XbeeInit, XbeeFields, Blank, new
<1>2. blank \in [Nodes -> Octets] /\ none \in Octets /\ \A n \in Nodes : blank[n] = none
  BY Empty DEF Blank, Octets
<1>3. XbeeShape
  <2>1. xb.writing = [n \in Nodes |-> xb.writing[n]]
    BY <1>1 DEF Blank
  <2>2. 0 \in Nat /\ FALSE \in BOOLEAN
    OBVIOUS
  <2> HIDE DEF blank, none, new, empty
  <2> QED
    BY <1>1, <2>1, <2>2, Zenon DEF XbeeShape
<1> HIDE DEF p
<1>4. p \in [Nodes -> Octets] /\ OnLine(p)
  BY <1>1, <1>2, Zenon DEF OnLine, p
<1>5. \A n \in Nodes : ~Locked(n)
  BY <1>1 DEF Locked
<1>6. \A n \in Nodes : KeptAt(n, p)
  <2> SUFFICES ASSUME NEW n \in Nodes PROVE KeptAt(n, p)
    OBVIOUS
  <2>1. xb.got[n] = none /\ Held(n) = none /\ p[n] = none /\ xb.sent[n] = none
    BY <1>1, <1>2, <1>5, Zenon DEF Held, p
  <2>2. (none \o none) \o none = none /\ InOrder(none, none)
    <3>1. none \o none = none
      BY <1>2, Empty
    <3>2. InOrder(none, none)
      BY <1>2, InOrderAll
    <3> QED
      BY <3>1, <3>2, Zenon
  <2>3. StreamKept(n, xb.flushed, none, none, none, none)
    BY <1>2, <2>2, Zenon DEF StreamKept
  <2> QED
    BY <2>1, <2>3, Zenon DEF KeptAt
<1>7. Receiving
  <2>1. /\ xb.sent \in [Nodes -> Octets] /\ xb.rxdata \in [Nodes -> Octets]
        /\ xb.got \in [Nodes -> Octets]
    BY <1>1, <1>2, Zenon
  <2> QED
    BY <1>1, <1>4, <1>5, <1>6, <2>1, Zenon DEF Receiving
<1>8. Sending /\ none \in Seq(Nodes \X Chunks)
  BY <1>1 DEF Sending
<1> HIDE DEF blank, none
<1>9. /\ xb.writing = Blank /\ xb.asked = <<>> /\ xb.took = <<>> /\ xb.line = <<>> /\ xb.pc = "wait"
      /\ xb.sent = Blank /\ xb.rxdata = Blank /\ xb.got = Blank
      /\ xb.asked \in Seq(Nodes \X Chunks) /\ xb.took \in Seq(Nodes \X Chunks)
  BY <1>1, <1>8, Zenon DEF blank, none
<1> QED
  BY <1>3, <1>7, <1>8, <1>9, Zenon DEF XbeeInv

(* The frame the coordinator's radio hands up for the message m. *)
Heard(m) == <<129>> \o m.src \o <<40, 0>> \o m.data

LEMMA XbeeInvKept == XbeeInv /\ [XbeeNext]_xb => XbeeInv'
<1> SUFFICES ASSUME XbeeInv, [XbeeNext]_xb PROVE XbeeInv'
  OBVIOUS
<1>1. ASSUME NEW m \in Traffic, RadioSends(Heard(m))
      PROVE  XbeeInv'
  <2>1. RadioFrame(Heard(m))
    BY TrafficFrames, Zenon DEF Heard
  <2> QED
    BY <1>1, <2>1, RadioSendsKeeps
<1>2. ASSUME NEW data \in Reports, RadioSends(data)
      PROVE  XbeeInv'
  BY <1>2, ReportFrames, RadioSendsKeeps
<1>3. CASE wait_read_frame
  BY <1>3, ReadsKeeps
<1>4. ASSUME NEW byte \in Noise, Damage(byte)
      PROVE  XbeeInv'
  BY <1>4, DamageKeeps
<1>5. CASE putData
  BY <1>5, PutDataKeeps
<1>6. ASSUME NEW n \in Nodes, NEW size \in 1 .. 2, read(n, size)
      PROVE  XbeeInv'
  BY <1>6, ReadKeeps
<1>7. ASSUME NEW n \in Nodes, flushInput(n)
      PROVE  XbeeInv'
  BY <1>7, FlushKeeps
<1>8. ASSUME NEW n \in Nodes, NEW data \in Chunks, write(n, data)
      PROVE  XbeeInv'
  BY <1>8, WriteKeeps
<1>9. ASSUME NEW n \in Nodes, NEW k \in {PortRoom, Len(xb.writing[n])},
             k <= Len(xb.writing[n]) /\ serial_write(n, k)
      PROVE  XbeeInv'
  BY <1>9, SerialWriteKeeps
<1>10. CASE UNCHANGED xb
  BY <1>10 DEF XbeeInv, XbeeShape, Receiving, Sending, OnLine, Puts, KeptAt, Held, Locked
<1> QED
  BY <1>1, <1>2, <1>3, <1>4, <1>5, <1>6, <1>7, <1>8, <1>9, <1>10, Zenon DEF XbeeNext, Heard

LEMMA XbeeInvMeans == XbeeInv => XbeeStreamsKept
<1> SUFFICES ASSUME XbeeInv PROVE XbeeStreamsKept
  OBVIOUS
<1>1. ASSUME xb.damaged = 0, xb.way = "rx"
      PROVE  /\ xb.pc # "dead"
             /\ \A n \in Nodes :
                  LET seen == xb.got[n] \o xb.rxdata[n] \o UnderWay(n)
                  IN  /\ n \notin xb.flushed /\ xb.line = << >> => seen = xb.sent[n]
                      /\ ~Locked(n) => InOrder(seen, xb.sent[n])
  <2>1. Receiving
    BY <1>1 DEF XbeeInv
  <2>2. PICK p \in [Nodes -> Octets] : OnLine(p) /\ \A n \in Nodes : KeptAt(n, p)
    BY <2>1, Zenon DEF Receiving
  <2>3. xb.rxdata \in [Nodes -> Octets]
    BY <2>1, Zenon DEF Receiving
  <2>4. \A n \in Nodes : xb.line = <<>> => p[n] = <<>>
    BY <2>2, LineIsNotEmpty, Zenon DEF OnLine
  <2>5. xb.pc # "dead"
    BY <2>1 DEF Receiving
  <2>6. ASSUME NEW n \in Nodes
        PROVE  LET seen == xb.got[n] \o xb.rxdata[n] \o UnderWay(n)
               IN  /\ n \notin xb.flushed /\ xb.line = << >> => seen = xb.sent[n]
                   /\ ~Locked(n) => InOrder(seen, xb.sent[n])
    <3> DEFINE x == xb.flushed
               g == xb.got[n]
               h == Held(n)
               c == p[n]
               t == xb.sent[n]
               u == UnderWay(n)
               r == xb.rxdata[n]
    <3>1. StreamKept(n, x, g, h, c, t)
      BY <2>2, Zenon DEF KeptAt
    <3>2. r \in Octets
      BY <2>3
    <3>3. g \in Octets
      BY <3>1, Zenon DEF StreamKept
    <3>4. ~Locked(n) => h = r /\ u = <<>>
      BY Zenon DEF Held, UnderWay
    <3>5. Locked(n) /\ n \notin x => h = r \o u /\ u \in Octets
      <4> SUFFICES ASSUME Locked(n), n \notin x PROVE h = r \o u /\ u \in Octets
        OBVIOUS
      <4>1. xb.loaded = r
        BY <2>1, Zenon DEF Receiving
      <4>2. h = r \o u
        BY <4>1, Zenon DEF Held, UnderWay
      <4>3. u \in Octets
        <5>1. xb.pc = "put"
          BY DEF Locked
        <5>2. Puts
          BY <2>1, <5>1 DEF Receiving
        <5>3. xb.put[2] \in Octets
          BY <5>2 DEF Puts
        <5> QED
          BY <5>3, Zenon DEF UnderWay
      <4> QED
        BY <4>2, <4>3
    <3>6. xb.line = <<>> => c = <<>>
      BY <2>4
    <3> HIDE DEF x, g, h, c, t, u, r
    <3>7. InOrder(g \o h, t) /\ (n \notin x /\ c = <<>> => g \o h = t) /\ g \o h \in Octets
      BY <3>1, KeptMeans
    <3>8. ~Locked(n) => (g \o r) \o u = g \o h
      <4> SUFFICES ASSUME ~Locked(n) PROVE (g \o r) \o u = g \o h
        OBVIOUS
      <4> DEFINE a == g \o h
      <4>1. g \o r = a /\ a \in Octets
        BY <3>4, <3>7
      <4> HIDE DEF a
      <4>2. a \o <<>> = a
        BY <4>1, Empty
      <4>3. u = <<>>
        BY <3>4
      <4> QED
        BY <4>1, <4>2, <4>3, Zenon DEF a
    <3>9. Locked(n) /\ n \notin x => (g \o r) \o u = g \o h
      <4> SUFFICES ASSUME Locked(n), n \notin x PROVE (g \o r) \o u = g \o h
        OBVIOUS
      <4>1. r \in Octets /\ g \in Octets /\ u \in Octets /\ h = r \o u
        BY <3>2, <3>3, <3>5, Zenon
      <4>2. (g \o r) \o u = g \o (r \o u)
        BY <4>1, Associative
      <4> QED
        BY <4>1, <4>2, Zenon
    <3>10. /\ n \notin x /\ xb.line = <<>> => (g \o r) \o u = t
           /\ ~Locked(n) => InOrder((g \o r) \o u, t)
      BY <3>6, <3>7, <3>8, <3>9, Zenon
    <3> QED
      BY <3>10, Zenon DEF x, g, t, u, r
  <2> QED
    BY <2>5, <2>6
<1>2. ASSUME xb.way # "rx"
      PROVE  /\ xb.pc # "dead"
             /\ \A n \in Nodes :
                  LET seen == xb.got[n] \o xb.rxdata[n] \o UnderWay(n)
                  IN  /\ n \notin xb.flushed /\ xb.line = << >> => seen = xb.sent[n]
                      /\ ~Locked(n) => InOrder(seen, xb.sent[n])
  <2> DEFINE none == <<>>
  <2>1. xb.pc = "wait" /\ \A n \in Nodes : xb.got[n] = none /\ xb.rxdata[n] = none /\ xb.sent[n] = none
    BY <1>2 DEF XbeeInv, Blank
  <2>2. \A n \in Nodes : UnderWay(n) = none
    BY <2>1 DEF UnderWay, Locked
  <2>3. none \in Octets
    BY DEF Octets
  <2> HIDE DEF none
  <2>4. none \o none = none /\ InOrder(none, none)
    <3>1. none \o none = none
      BY <2>3, Empty DEF none
    <3> QED
      BY <2>3, <3>1, InOrderAll
  <2>5. \A n \in Nodes : (xb.got[n] \o xb.rxdata[n]) \o UnderWay(n) = none
    BY <2>1, <2>2, <2>4
  <2>6. xb.pc # "dead"
    BY <2>1
  <2> QED
    BY <2>1, <2>4, <2>5, <2>6, Zenon
<1>3. ASSUME ~xb.overlap
      PROVE  /\ IsPrefix(xb.took, xb.asked)
             /\ (\A n \in Nodes : xb.writing[n] = << >>) => xb.took = xb.asked
  <2> DEFINE S == Nodes \X Chunks
             took == xb.took
             asked == xb.asked
  <2>1. took \in Seq(S) /\ asked \in Seq(S)
    <3>1. CASE xb.way = "rx"
      <4>1. took = <<>> /\ asked = <<>>
        BY <3>1 DEF XbeeInv
      <4> HIDE DEF S, took, asked
      <4> QED
        BY <4>1
    <3>2. CASE xb.way # "rx"
      BY <1>3, <3>2 DEF XbeeInv
    <3> QED
      BY <3>1, <3>2
  <2>2. took = asked \/ \E e \in S : asked = Append(took, e) /\ \E n \in Nodes : xb.writing[n] # <<>>
    <3>1. CASE xb.way = "rx"
      BY <3>1 DEF XbeeInv
    <3>2. CASE xb.way # "rx"
      <4>1. Sending
        BY <1>3, <3>2 DEF XbeeInv
      <4>2. CASE xb.writing = Blank /\ xb.frame = NewFrame /\ xb.took = xb.asked
        BY <4>2
      <4>3. ASSUME NEW n \in Nodes, NEW chunk \in Chunks,
                   InFrame(xb.frame, xb.writing[n], _build_command(n, chunk)),
                   xb.asked = Append(xb.took, <<n, chunk>>)
            PROVE  \E e \in S : asked = Append(took, e) /\ \E m \in Nodes : xb.writing[m] # <<>>
        <5>1. Sendable(_build_command(n, chunk))
          BY Commands
        <5>2. Takes(xb.frame, xb.writing[n], _build_command(n, chunk))
          BY <4>3, <5>1, FrameByte
        <5>3. xb.writing[n] # <<>>
          BY <5>2, Zenon DEF Takes
        <5>4. <<n, chunk>> \in S
          OBVIOUS
        <5> QED
          BY <4>3, <5>3, <5>4, Zenon
      <4> QED
        BY <4>1, <4>2, <4>3, Zenon DEF Sending
    <3> QED
      BY <3>1, <3>2
  <2> HIDE DEF S, took, asked
  <2>3. IsPrefix(took, asked)
    <3>1. CASE took = asked
      BY <2>1, <3>1 DEF IsPrefix
    <3>2. ASSUME NEW e \in S, asked = Append(took, e) PROVE IsPrefix(took, asked)
      BY <2>1, <3>2 DEF IsPrefix
    <3> QED
      BY <2>2, <3>1, <3>2
  <2> QED
    BY <2>2, <2>3, Zenon DEF took, asked
<1> QED
  BY <1>1, <1>2, <1>3, Zenon DEF XbeeStreamsKept

-----------------------------------------------------------------------------
(* Over one radio, whatever bytes the streams hold: a SerialClient reads   *)
(* from its FakeSerial what its device sent, in order, and flushInput() in *)
(* the middle of putData() may lose bytes but neither repeats nor mixes;   *)
(* no frame of the radio ends the main thread of xbee_network.py; and the  *)
(* radio takes the commands that the threads wrote, unless two of them     *)
(* were in serial.write() at once.                                         *)
THEOREM XbeeKeepsStreams == XbeeInit /\ [][XbeeNext]_xb => []XbeeStreamsKept
<1>1. XbeeInit => XbeeInv
  BY XbeeInvAtInit
<1>2. XbeeInv /\ [XbeeNext]_xb => XbeeInv'
  BY XbeeInvKept
<1>3. XbeeInv => XbeeStreamsKept
  BY XbeeInvMeans
<1> QED
  BY <1>1, <1>2, <1>3, PTL
=============================================================================

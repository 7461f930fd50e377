--------------------------- MODULE NodeHandleProofs ---------------------------
(***************************************************************************)
(* TimesInv is an invariant of NodeHandle, and with it the two action      *)
(* properties about time limits hold, for every width of the clock and all *)
(* limits that fit into it.                                                *)
(***************************************************************************)
EXTENDS NodeHandle, TLAPS, SequenceTheorems

\* A remainder within reach of one turn of the clock.
LEMMA RemainderNear ==
  ASSUME NEW n \in Nat \ {0}, NEW x \in -n .. 2 * n - 1
  PROVE  x % n = IF x < 0 THEN x + n ELSE IF x < n THEN x ELSE x - n
  OBVIOUS

\* Differences of the wrapping clock without the remainder.
LEMMA SinceIs ==
  ASSUME NEW t \in 0 .. Wrap - 1, NEW from \in 0 .. Wrap - 1
  PROVE  Since(t, from) = IF t >= from THEN t - from ELSE t - from + Wrap
<1>1. Wrap \in Nat \ {0}
  BY TimesAssumption
<1>2. t - from \in -Wrap .. 2 * Wrap - 1
  BY <1>1
<1>3. (t - from) % Wrap = IF t - from < 0 THEN t - from + Wrap
                          ELSE IF t - from < Wrap THEN t - from ELSE t - from - Wrap
  <2> DEFINE x == t - from
  <2>1. x \in -Wrap .. 2 * Wrap - 1
    BY <1>2
  <2> HIDE DEF x
  <2>2. x % Wrap = IF x < 0 THEN x + Wrap ELSE IF x < Wrap THEN x ELSE x - Wrap
    BY <1>1, <2>1, RemainderNear
  <2> QED
    BY <2>2 DEF x
<1> QED
  BY <1>1, <1>3 DEF Since

\* The clock stays in its range and steps by one, but for the wrap-around.
LEMMA ClockSteps ==
  ASSUME NEW t \in 0 .. Wrap - 1
  PROVE  /\ (t + 1) % Wrap \in 0 .. Wrap - 1
         /\ (t + 1) % Wrap = IF t = Wrap - 1 THEN 0 ELSE t + 1
<1>1. Wrap \in Nat \ {0}
  BY TimesAssumption
<1>2. t + 1 \in -Wrap .. 2 * Wrap - 1
  BY <1>1
<1> DEFINE x == t + 1
<1>3. x \in -Wrap .. 2 * Wrap - 1
  BY <1>2
<1>4. x % Wrap = IF x < 0 THEN x + Wrap ELSE IF x < Wrap THEN x ELSE x - Wrap
  <2> HIDE DEF x
  <2> QED
    BY <1>1, <1>3, RemainderNear
<1> QED
  BY <1>1, <1>4

----------------------------------------------------------------------------
(* Types *)

\* The innermost activation and what is left when it returns.
LEMMA StackSound ==
  ASSUME TypeOK, stack # <<>>
  PROVE  /\ Top \in Activations /\ Top.c_time \in 0 .. Wrap - 1
         /\ Front(stack) \in Seq(Activations)
<1>1. stack \in Seq(Activations) /\ Len(stack) \in Nat \ {0} /\ DOMAIN stack = 1 .. Len(stack)
  BY EmptySeq, LenProperties DEF TypeOK
<1>2. Top \in Activations
  BY <1>1, ElementOfSeq DEF Top, Last
<1>3. Front(stack) \in Seq(Activations)
  <2>1. \A i \in 1 .. Len(stack) - 1 : stack[i] \in Activations
    BY <1>1, ElementOfSeq
  <2> QED
    BY <1>1, <2>1, SubSeqProperties DEF Front
<1> QED
  BY <1>2, <1>3 DEF Activations

\* However an activation ends, or goes on to its callback or back from it, the
\* stack is one of activations.
LEMMA StackStays ==
  ASSUME TypeOK
  PROVE  /\ \A what \in {"read", "callback", "call"} :
              stack # <<>> /\ SetTop(what) => stack' \in Seq(Activations)
         /\ stack # <<>> /\ Return => stack' \in Seq(Activations)
         /\ stack # <<>> /\ ReturnError => stack' \in Seq(Activations)
         /\ \A a \in Activations : Append(stack, a) \in Seq(Activations)
<1>1. stack \in Seq(Activations)
  BY DEF TypeOK
<1>2. ASSUME NEW what \in {"read", "callback", "call"}, stack # <<>>, SetTop(what)
      PROVE  stack' \in Seq(Activations)
  <2>1. Top \in Activations /\ Len(stack) \in 1 .. Len(stack)
    BY <1>1, <1>2, StackSound, EmptySeq, LenProperties
  <2>2. [stack[Len(stack)] EXCEPT !.at = what] \in Activations
    BY <2>1, <1>2 DEF Activations, Top, Last
  <2>3. stack' = [stack EXCEPT ![Len(stack)] = [stack[Len(stack)] EXCEPT !.at = what]]
    BY <1>2 DEF SetTop
  <2> QED
    BY <1>1, <2>1, <2>2, <2>3, ExceptSeq
<1>3. ASSUME stack # <<>>, Return PROVE stack' \in Seq(Activations)
  BY <1>3, StackSound DEF Return
<1>4. ASSUME stack # <<>>, ReturnError PROVE stack' \in Seq(Activations)
  <2> DEFINE below == Front(stack)
  <2>1. below \in Seq(Activations)
    BY <1>4, StackSound
  <2>2. stack' = IF below = <<>> THEN below ELSE Front(below)
    BY <1>4 DEF ReturnError
  <2> HIDE DEF below
  <2>3. CASE below = <<>>
    BY <2>1, <2>2, <2>3
  <2>4. CASE below # <<>>
    <3>1. Len(below) \in Nat \ {0} /\ \A i \in 1 .. Len(below) - 1 : below[i] \in Activations
      BY <2>1, <2>4, EmptySeq, LenProperties, ElementOfSeq
    <3> QED
      BY <2>1, <2>2, <2>4, <3>1, SubSeqProperties DEF Front
  <2> QED
    BY <2>3, <2>4
<1> QED
  BY <1>1, <1>2, <1>3, <1>4, AppendProperties

\* Every step keeps the stack one of activations and the line one of bytes.
LEMMA SequencesTyped ==
  ASSUME TypeOK, Next
  PROVE  stack' \in Seq(Activations) /\ line' \in Seq(Bytes)
<1> USE DEF frame, sync
<1>1. stack \in Seq(Activations) /\ line \in Seq(Bytes) /\ time \in 0 .. Wrap - 1
  BY DEF TypeOK
<1>2. line # <<>> => Tail(line) \in Seq(Bytes)
  BY <1>1, HeadTailProperties
<1>3. \A b \in Bytes : Reads(b) => stack # <<>> /\ line' \in Seq(Bytes)
  BY <1>2 DEF Reads, At
<1>4. \A what : At(what) => stack # <<>>
  BY DEF At
<1>5. Complete => stack # <<>> /\ line' \in Seq(Bytes)
  BY <1>3 DEF Complete, Bytes
<1>6. ASSUME HostSends PROVE stack' \in Seq(Activations) /\ line' \in Seq(Bytes)
  <2>1. Frame \in Seq(Bytes)
    BY DEF Frame, Bytes
  <2> QED
    BY <1>1, <1>6, <2>1, ConcatProperties DEF HostSends
<1>7. ASSUME spinOnce PROVE stack' \in Seq(Activations) /\ line' \in Seq(Bytes)
  <2>1. Spin \in Activations
    BY <1>1 DEF Activations, Spin
  <2> QED
    BY <1>1, <1>7, <2>1, StackStays DEF spinOnce
<1>8. ASSUME NEW c \in Clients, call(c)
      PROVE stack' \in Seq(Activations) /\ line' \in Seq(Bytes)
  <2>1. [at |-> "call", c_time |-> 0, client |-> c] \in Activations
    BY TimesAssumption DEF Activations
  <2> QED
    BY <1>1, <1>8, <2>1, StackStays DEF call
<1>9. ASSUME Tick \/ Lose \/ HostDies PROVE stack' \in Seq(Activations) /\ line' \in Seq(Bytes)
  BY <1>1, <1>2, <1>9 DEF Tick, Lose, HostDies
<1>10. ASSUME NEW timeout, setSpinTimeout(timeout)
       PROVE stack' \in Seq(Activations) /\ line' \in Seq(Bytes)
  BY <1>1, <1>10 DEF setSpinTimeout
<1>11. ASSUME SpinTimesOut PROVE stack' \in Seq(Activations) /\ line' \in Seq(Bytes)
  BY <1>1, <1>4, <1>11, StackStays DEF SpinTimesOut
<1>12. ASSUME ReadFirst \/ ReadMiddle \/ ReadWrong
       PROVE stack' \in Seq(Activations) /\ line' \in Seq(Bytes)
  BY <1>1, <1>3, <1>12 DEF ReadFirst, ReadMiddle, ReadWrong, Bytes
<1>13. ASSUME ReadNoise PROVE stack' \in Seq(Activations) /\ line' \in Seq(Bytes)
  <2>1. PICK b \in Bytes : Reads(b)
    BY <1>13 DEF ReadNoise
  <2>2. ReturnError \/ UNCHANGED stack
    BY <1>13 DEF ReadNoise
  <2> QED
    BY <1>1, <1>3, <2>1, <2>2, StackStays
<1>14. ASSUME ReadTopics PROVE stack' \in Seq(Activations) /\ line' \in Seq(Bytes)
  BY <1>5, <1>14, StackStays DEF ReadTopics
<1>15. ASSUME ReadTime \/ ReadTxStop \/ ReadResponse
       PROVE stack' \in Seq(Activations) /\ line' \in Seq(Bytes)
  BY <1>1, <1>5, <1>15 DEF ReadTime, ReadTxStop, ReadResponse
<1>16. ASSUME ReadData PROVE stack' \in Seq(Activations) /\ line' \in Seq(Bytes)
  BY <1>5, <1>16, StackStays DEF ReadData
<1>17. ASSUME EndSpin \/ CallReturns PROVE stack' \in Seq(Activations) /\ line' \in Seq(Bytes)
  BY <1>1, <1>4, <1>17, StackStays DEF EndSpin, CallReturns
<1>18. ASSUME CallbackReturns PROVE stack' \in Seq(Activations) /\ line' \in Seq(Bytes)
  BY <1>1, <1>4, <1>18, StackStays DEF CallbackReturns
<1> QED
  BY <1>6, <1>7, <1>8, <1>9, <1>10, <1>11, <1>12, <1>13, <1>14, <1>15, <1>16, <1>17, <1>18
     DEF Next, Device

\* Steps that leave the clock and the stored times alone.
Timeless ==
  HostSends \/ Lose \/ HostDies \/ (\E c \in Clients : call(c)) \/ SpinTimesOut \/ ReadNoise \/ EndSpin
    \/ CallbackReturns \/ CallReturns

\* Every step keeps the other variables in their ranges.
LEMMA ScalarsTyped ==
  ASSUME TypeOK, Next
  PROVE  /\ {time, last_sync_receive_time, last_msg_timeout_time}' \subseteq 0 .. Wrap - 1
         /\ mode' \in {"FIRST_FF", "mid", "end"}
         /\ {configured, alive}' \subseteq BOOLEAN /\ waiting' \subseteq Clients
         /\ spin_timeout' \in SpinTimeouts
         /\ heard' \in [ago : 0 .. LOST + 1, late : BOOLEAN]
         /\ busy' \in 0 .. MaxBusy
         /\ age' \in 0 .. SERIAL_MSG_TIMEOUT + 1 /\ excuse' \subseteq {"stale", "wrap"}
<1> USE DEF frame, sync
<1> DEFINE Typed ==
      /\ {time, last_sync_receive_time, last_msg_timeout_time} \subseteq 0 .. Wrap - 1
      /\ mode \in {"FIRST_FF", "mid", "end"}
      /\ {configured, alive} \subseteq BOOLEAN /\ waiting \subseteq Clients
      /\ heard \in [ago : 0 .. LOST + 1, late : BOOLEAN]
      /\ busy \in 0 .. MaxBusy
      /\ age \in 0 .. SERIAL_MSG_TIMEOUT + 1 /\ excuse \subseteq {"stale", "wrap"}
<1>1. Typed /\ Wrap \in Nat \ {0} /\ LOST \in Nat /\ MaxBusy \in Nat /\ SERIAL_MSG_TIMEOUT \in Nat
  BY TimesAssumption DEF TypeOK
<1>2. spin_timeout' \in SpinTimeouts
  BY DEF Next, TypeOK, setSpinTimeout
<1>3. ASSUME Timeless \/ \E timeout \in SpinTimeouts : setSpinTimeout(timeout) PROVE Typed'
  BY <1>1, <1>3 DEF Timeless, HostSends, Lose, HostDies, call, SpinTimesOut, ReadNoise, EndSpin,
     CallbackReturns, CallReturns, setSpinTimeout
<1>4. ASSUME Tick PROVE Typed'
  BY <1>1, <1>4, ClockSteps DEF Tick
<1>5. NoFrame => /\ mode' = "FIRST_FF" /\ last_msg_timeout_time' \in 0 .. Wrap - 1
                 /\ age' \in 0 .. SERIAL_MSG_TIMEOUT + 1 /\ excuse' \subseteq {"stale", "wrap"}
  BY <1>1 DEF NoFrame
<1>6. ASSUME spinOnce PROVE Typed'
  <2>1. configured' \in BOOLEAN
    BY <1>6 DEF spinOnce
  <2>2. CASE NoFrame
    BY <1>1, <1>5, <1>6, <2>1, <2>2 DEF spinOnce
  <2>3. CASE UNCHANGED frame
    BY <1>1, <1>6, <2>1, <2>3 DEF spinOnce
  <2> QED
    BY <1>6, <2>2, <2>3 DEF spinOnce
<1>7. ASSUME ReadFirst PROVE Typed'
  <2>1. last_msg_timeout_time' \in 0 .. Wrap - 1
    <3>1. Top.c_time \in 0 .. Wrap - 1
      BY <1>7, StackSound DEF ReadFirst, Reads, At
    <3>2. Top.c_time + SERIAL_MSG_TIMEOUT \in Nat
      BY <1>1, <3>1
    <3> DEFINE x == Top.c_time + SERIAL_MSG_TIMEOUT
    <3>3. last_msg_timeout_time' = x % Wrap
      BY <1>7 DEF ReadFirst
    <3> HIDE DEF x
    <3>4. x % Wrap \in 0 .. Wrap - 1
      BY <1>1, <3>2 DEF x
    <3> QED
      BY <3>3, <3>4
  <2>2. excuse' \subseteq {"stale", "wrap"}
    BY <1>7 DEF ReadFirst
  <2> QED
    BY <1>1, <1>7, <2>1, <2>2 DEF ReadFirst
<1>8. ASSUME ReadMiddle PROVE Typed'
  BY <1>1, <1>8 DEF ReadMiddle
<1>9. ASSUME ReadWrong PROVE Typed'
  BY <1>1, <1>5, <1>9 DEF ReadWrong
<1>10. ASSUME ReadTopics PROVE Typed'
  <2>1. Top.c_time \in 0 .. Wrap - 1
    BY <1>10, StackSound DEF ReadTopics, Complete, Reads, At
  <2>2. (Top.c_time # time) \in BOOLEAN /\ 0 \in 0 .. LOST + 1
    BY <1>1
  <2> QED
    BY <1>1, <1>5, <1>10, <2>1, <2>2 DEF ReadTopics, Complete
<1>11. ASSUME ReadTime \/ ReadTxStop \/ ReadData \/ ReadResponse PROVE Typed'
  <2>1. NoFrame /\ UNCHANGED <<time, alive, busy>>
    BY <1>11 DEF ReadTime, ReadTxStop, ReadData, ReadResponse, Complete
  <2>2. CASE ReadTime
    <3>1. [ago |-> 0, late |-> FALSE] \in [ago : 0 .. LOST + 1, late : BOOLEAN]
      BY <1>1
    <3> QED
      BY <1>1, <1>5, <2>1, <2>2, <3>1 DEF ReadTime
  <2>3. CASE ReadTxStop
    BY <1>1, <1>5, <2>1, <2>3 DEF ReadTxStop
  <2>4. CASE ReadData
    BY <1>1, <1>5, <2>1, <2>4 DEF ReadData
  <2>5. CASE ReadResponse
    BY <1>1, <1>5, <2>1, <2>5 DEF ReadResponse
  <2> QED
    BY <1>11, <2>2, <2>3, <2>4, <2>5
<1>12. Typed'
  BY <1>3, <1>4, <1>6, <1>7, <1>8, <1>9, <1>10, <1>11 DEF Next, Device, Timeless
<1> QED
  BY <1>2, <1>12

----------------------------------------------------------------------------
(* What the stored times mean *)

\* The silence is measured right: the clock's tick lengthens both sides, and a
\* frame that renews the connection without being late sets both to nothing.
LEMMA SilenceKept ==
  ASSUME TimesInv, Next
  PROVE  SilenceMeasured'
<1> USE DEF frame, sync
<1>1. /\ time \in 0 .. Wrap - 1 /\ last_sync_receive_time \in 0 .. Wrap - 1
      /\ heard \in [ago : 0 .. LOST + 1, late : BOOLEAN]
  BY DEF TimesInv, TypeOK
<1>2. Wrap \in Nat /\ LOST \in Nat /\ LOST + 1 < Wrap
  BY TimesAssumption
<1>3. ASSUME UNCHANGED <<time, last_sync_receive_time, heard>> PROVE SilenceMeasured'
  BY <1>3 DEF TimesInv, SilenceMeasured, Since
<1>4. ASSUME Tick PROVE SilenceMeasured'
  <2> SUFFICES ASSUME ~heard'.late, heard'.ago <= LOST
               PROVE  Since(time', last_sync_receive_time') = heard'.ago
    BY DEF SilenceMeasured, Since
  <2>1. heard' = [heard EXCEPT !.ago = IF @ > LOST THEN @ ELSE @ + 1]
    BY <1>4 DEF Tick
  <2>2. ~heard.late /\ heard.ago \in Nat /\ heard.ago + 1 <= LOST /\ heard'.ago = heard.ago + 1
    BY <1>1, <1>2, <2>1
  <2>3. Since(time, last_sync_receive_time) = heard.ago
    BY <1>2, <2>2 DEF TimesInv, SilenceMeasured
  <2>4. /\ last_sync_receive_time' = last_sync_receive_time /\ time' \in 0 .. Wrap - 1
        /\ time' = IF time = Wrap - 1 THEN 0 ELSE time + 1
    BY <1>1, <1>4, ClockSteps DEF Tick
  <2>5. Since(time, last_sync_receive_time)
          = IF time >= last_sync_receive_time THEN time - last_sync_receive_time
            ELSE time - last_sync_receive_time + Wrap
    BY <1>1, SinceIs
  <2>6. Since(time', last_sync_receive_time)
          = IF time' >= last_sync_receive_time THEN time' - last_sync_receive_time
            ELSE time' - last_sync_receive_time + Wrap
    BY <1>1, <2>4, SinceIs
  <2> QED
    BY <1>1, <1>2, <2>2, <2>3, <2>4, <2>5, <2>6
<1>5. Since(time, time) = 0
  BY <1>1, SinceIs
<1>6. ASSUME ReadTime PROVE SilenceMeasured'
  BY <1>5, <1>6 DEF ReadTime, SilenceMeasured, Since
<1>7. ASSUME ReadTopics PROVE SilenceMeasured'
  <2>1. /\ heard' = [ago |-> 0, late |-> Top.c_time # time]
        /\ last_sync_receive_time' = Top.c_time /\ time' = time
    BY <1>7 DEF ReadTopics
  <2>2. ~heard'.late => Top.c_time = time
    BY <2>1
  <2>3. heard'.ago = 0
    BY <2>1
  <2> QED
    BY <1>5, <2>1, <2>2, <2>3 DEF SilenceMeasured, Since
<1>8. CASE Tick \/ ReadTime \/ ReadTopics
  BY <1>4, <1>6, <1>7, <1>8
<1>9. CASE ~(Tick \/ ReadTime \/ ReadTopics)
  <2>1. UNCHANGED <<time, last_sync_receive_time, heard>>
    BY <1>9 DEF Next, Device, HostSends, Lose, HostDies, call, spinOnce, SpinTimesOut, ReadFirst,
       ReadNoise, ReadMiddle, ReadWrong, ReadTxStop, ReadData, ReadResponse, EndSpin,
       CallbackReturns, CallReturns, setSpinTimeout
  <2> QED
    BY <1>3, <2>1
<1> QED
  BY <1>8, <1>9

\* A frame without an excuse keeps the rest of its time: its first byte is read
\* at c_time, and no tick before the limit wraps the clock.
LEMMA DeadlineKept ==
  ASSUME TimesInv, Next
  PROVE  DeadlineAhead'
<1> USE DEF frame, sync
<1>1. /\ time \in 0 .. Wrap - 1 /\ last_msg_timeout_time \in 0 .. Wrap - 1
      /\ age \in 0 .. SERIAL_MSG_TIMEOUT + 1
  BY DEF TimesInv, TypeOK
<1>2. Wrap \in Nat \ {0} /\ SERIAL_MSG_TIMEOUT \in Nat
  BY TimesAssumption
<1>3. ASSUME UNCHANGED <<time, mode, last_msg_timeout_time, age, excuse>> PROVE DeadlineAhead'
  BY <1>3 DEF TimesInv, DeadlineAhead
<1>4. ASSUME NoFrame PROVE DeadlineAhead'
  BY <1>4 DEF NoFrame, DeadlineAhead
<1>5. ASSUME Tick PROVE DeadlineAhead'
  <2> SUFFICES ASSUME mode # "FIRST_FF", excuse = {}, age' <= SERIAL_MSG_TIMEOUT
               PROVE  last_msg_timeout_time - time' = SERIAL_MSG_TIMEOUT - age'
    BY <1>5 DEF DeadlineAhead, Tick
  <2>1. age' = age + 1 /\ age + 1 <= SERIAL_MSG_TIMEOUT
    BY <1>1, <1>2, <1>5 DEF Tick
  <2>2. last_msg_timeout_time - time = SERIAL_MSG_TIMEOUT - age
    BY <1>1, <1>2, <2>1 DEF TimesInv, DeadlineAhead
  <2>3. time < Wrap - 1
    BY <1>1, <1>2, <2>1, <2>2
  <2>4. time' = time + 1
    BY <1>1, <1>2, <1>5, <2>3, ClockSteps DEF Tick
  <2> QED
    BY <1>1, <1>2, <2>1, <2>2, <2>4
<1>6. ASSUME ReadFirst PROVE DeadlineAhead'
  <2>1. Top.c_time \in 0 .. Wrap - 1
    BY <1>6, StackSound DEF TimesInv, ReadFirst, Reads, At
  <2> DEFINE x == Top.c_time + SERIAL_MSG_TIMEOUT
  <2>2. /\ last_msg_timeout_time' = x % Wrap /\ age' = 0 /\ time' = time
        /\ excuse' = {y \in {"stale", "wrap"} :
                        (y = "stale" /\ Top.c_time # time) \/ (y = "wrap" /\ x >= Wrap)}
    BY <1>6 DEF ReadFirst
  <2>3. excuse' = {} => Top.c_time = time /\ x < Wrap
    <3>1. Top.c_time # time => "stale" \in excuse'
      BY <2>2
    <3>2. x >= Wrap => "wrap" \in excuse'
      BY <2>2
    <3> QED
      BY <1>2, <2>1, <3>1, <3>2
  <2>4. x < Wrap => x % Wrap = x
    <3>1. x \in Nat
      BY <1>2, <2>1
    <3> HIDE DEF x
    <3> QED
      BY <1>2, <3>1
  <2> QED
    BY <1>1, <1>2, <2>2, <2>3, <2>4 DEF DeadlineAhead
<1>7. ASSUME ReadMiddle PROVE DeadlineAhead'
  BY <1>7 DEF ReadMiddle, TimesInv, DeadlineAhead
<1>8. CASE Tick \/ ReadFirst \/ ReadMiddle
  BY <1>5, <1>6, <1>7, <1>8
<1>9. CASE ~(Tick \/ ReadFirst \/ ReadMiddle)
  <2>1. NoFrame \/ UNCHANGED <<time, mode, last_msg_timeout_time, age, excuse>>
    BY <1>9 DEF Next, Device, HostSends, Lose, HostDies, call, spinOnce, SpinTimesOut, ReadNoise,
       ReadWrong, ReadTopics, ReadTime, ReadTxStop, ReadData, ReadResponse, Complete, EndSpin,
       CallbackReturns, CallReturns, setSpinTimeout
  <2> QED
    BY <1>3, <1>4, <2>1
<1> QED
  BY <1>8, <1>9

----------------------------------------------------------------------------
(* Theorems *)

\* The times that spinOnce() stores and compares mean what it takes them for, at
\* every depth of nested activations and whenever the clock wraps around.
THEOREM TimesInvariant == Spec => []TimesInv
<1>1. Init => TimesInv
  <2> SUFFICES ASSUME Init PROVE TimesInv
    OBVIOUS
  <2>1. Wrap \in Nat \ {0} /\ LOST \in Nat /\ MaxBusy \in Nat /\ SERIAL_MSG_TIMEOUT \in Nat
        /\ 0 \in SpinTimeouts
    BY TimesAssumption
  <2>2. TypeOK
    <3>1. <<>> \in Seq(Activations) /\ <<>> \in Seq(Bytes)
      OBVIOUS
    <3>2. [ago |-> 0, late |-> FALSE] \in [ago : 0 .. LOST + 1, late : BOOLEAN]
      BY <2>1
    <3>3. {configured, alive} \subseteq BOOLEAN /\ waiting \subseteq Clients
      BY DEF Init
    <3>4. {time, last_sync_receive_time, last_msg_timeout_time} \subseteq 0 .. Wrap - 1
      BY <2>1 DEF Init
    <3>5. stack \in Seq(Activations) /\ line \in Seq(Bytes)
      BY <3>1 DEF Init
    <3>6. heard \in [ago : 0 .. LOST + 1, late : BOOLEAN]
      BY <3>2 DEF Init
    <3>7. /\ mode \in {"FIRST_FF", "mid", "end"} /\ spin_timeout \in SpinTimeouts
          /\ busy \in 0 .. MaxBusy /\ age \in 0 .. SERIAL_MSG_TIMEOUT + 1
          /\ excuse \subseteq {"stale", "wrap"}
      BY <2>1 DEF Init
    <3> QED
      BY <3>3, <3>4, <3>5, <3>6, <3>7 DEF TypeOK
  <2>3. SilenceMeasured
    <3>1. time = 0 /\ last_sync_receive_time = 0 /\ heard.ago = 0 /\ 0 \in 0 .. Wrap - 1
      BY <2>1 DEF Init
    <3>2. Since(0, 0) = 0
      BY <3>1, SinceIs
    <3> QED
      BY <3>1, <3>2 DEF SilenceMeasured
  <2>4. DeadlineAhead
    BY DEF Init, DeadlineAhead
  <2> QED
    BY <2>2, <2>3, <2>4 DEF TimesInv
<1>2. TimesInv /\ [Next]_vars => TimesInv'
  <2> SUFFICES ASSUME TimesInv, [Next]_vars PROVE TimesInv'
    OBVIOUS
  <2>1. CASE Next
    <3>1. TypeOK'
      BY <2>1, SequencesTyped, ScalarsTyped DEF TimesInv, TypeOK, Activations
    <3> QED
      BY <2>1, <3>1, SilenceKept, DeadlineKept DEF TimesInv
  <2>2. CASE UNCHANGED vars
    BY <2>2 DEF vars, frame, sync, TimesInv, TypeOK, SilenceMeasured, DeadlineAhead, Since,
       Activations
  <2> QED
    BY <2>1, <2>2
<1> QED
  BY <1>1, <1>2, PTL DEF Spec

\* For every width of the clock and every limit that fits into it, spinOnce()
\* gives the connection up only after LOST of silence or when the time stored for
\* the last request for topics was one of the past.
THEOREM LossAlwaysJustified == Spec => LossJustified
<1>1. TimesInv /\ [Next]_vars =>
        [spinOnce /\ configured /\ ~configured' => heard.ago > LOST \/ heard.late]_vars
  <2> SUFFICES ASSUME TimesInv, spinOnce, configured, ~configured', ~heard.late
               PROVE  heard.ago > LOST
    OBVIOUS
  <2>1. Since(time, last_sync_receive_time) > LOST
    BY DEF spinOnce
  <2>2. heard.ago \in Int /\ LOST \in Int
    BY TimesAssumption DEF TimesInv, TypeOK
  <2>3. heard.ago <= LOST => Since(time, last_sync_receive_time) = heard.ago
    BY DEF TimesInv, SilenceMeasured
  <2> QED
    BY <2>1, <2>2, <2>3
<1> QED
  BY <1>1, TimesInvariant, PTL DEF Spec, LossJustified

\* Likewise a frame is given up for its age only after SERIAL_MSG_TIMEOUT, unless
\* its limit was computed from an old c_time or lies beyond the wrap-around.
THEOREM AbandonAlwaysJustified == Spec => AbandonJustified
<1>1. TimesInv /\ [Next]_vars =>
        [spinOnce /\ mode # "FIRST_FF" /\ mode' = "FIRST_FF"
           => age > SERIAL_MSG_TIMEOUT \/ excuse # {}]_vars
  <2> SUFFICES ASSUME TimesInv, spinOnce, mode # "FIRST_FF", mode' = "FIRST_FF", excuse = {}
               PROVE  age > SERIAL_MSG_TIMEOUT
    OBVIOUS
  <2>1. time > last_msg_timeout_time
    BY DEF spinOnce, TimedOut, frame
  <2>2. /\ age \in Int /\ SERIAL_MSG_TIMEOUT \in Int /\ time \in Int
        /\ last_msg_timeout_time \in Int
    BY TimesAssumption DEF TimesInv, TypeOK
  <2>3. age <= SERIAL_MSG_TIMEOUT
          => last_msg_timeout_time - time = SERIAL_MSG_TIMEOUT - age
    BY DEF TimesInv, DeadlineAhead
  <2> QED
    BY <2>1, <2>2, <2>3
<1> QED
  BY <1>1, TimesInvariant, PTL DEF Spec, AbandonJustified

==============================================================================

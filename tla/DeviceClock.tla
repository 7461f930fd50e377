---------------------------- MODULE DeviceClock ----------------------------
(***************************************************************************)
(* The clock of a device and the arithmetic of ros::Time and ros::Duration.*)
(* A device without a real-time clock asks the server for the time,        *)
(* remembers when it asked (rt_time), and keeps the difference between the *)
(* server's time and its own millisecond counter, which starts anywhere    *)
(* and wraps around, on some boards sooner than after 2^32 milliseconds.   *)
(* Answers take time, get lost, and may belong to an earlier request than  *)
(* the one rt_time is of.                                                  *)
(***************************************************************************)
EXTENDS TimeArithmetic

CONSTANTS
  DayMs,      \* milliseconds of a day
  Boots,      \* values of the millisecond counter at time 0
  MaxTime,    \* bound on the time, in milliseconds
  MaxAsked    \* bound on the number of requests

(* An answer is not awaited for a whole turn of the widest counter. *)
ASSUME DeviceClockAssumption ==
  /\ DayMs \in Nat \ {0} /\ Boots \subseteq Nat /\ MaxTime \in Nat /\ MaxTime < Wrap
  /\ MaxAsked \in Nat

VARIABLE
  clock   \* [source, t, boot, rt_time, sec_offset, nsec_offset, asked, requests,
          \*  answers, synced]: the kind of counter, the true time and the
          \* counter at time 0; the
          \* members of NodeHandle_; how many requests were made; the requests
          \* and answers on their way, with the times they were made at; the
          \* last synchronisation, or NotSynced

NotSynced == [at |-> -1, asked |-> 0, stamped |-> 0]

(* The server's clock differs from the true time by less than a millisecond. *)
HostPhase == NsPerMs - 1
HostTime(t) ==
  LET ns == t * NsPerMs + HostPhase
  IN  [sec |-> ns \div NsPerSec, nsec |-> ns % NsPerSec]

(* What time() of the hardware classes returns when ms milliseconds have   *)
(* passed since the counter was 0.  Tiva: an interrupt counts them.        *)
SystickIntHandler(ms) == Unsigned(ms)

(* Linux: the difference of two readings of the clock, the first of which  *)
(* was taken some nanoseconds after a full millisecond, rounded.           *)
time_linux(ms) ==
  LET start == [tv_sec |-> 1, tv_nsec |-> NsPerSec - NsPerMs + (NsPerMs \div 2)]
      end_ns == TimeNs([sec |-> start.tv_sec, nsec |-> start.tv_nsec]) + ms * NsPerMs
      seconds == (end_ns \div NsPerSec) - start.tv_sec
      nseconds == (end_ns % NsPerSec) - start.tv_nsec
  IN  Unsigned((seconds * NsPerSec + nseconds + (NsPerMs \div 2)) \div NsPerMs)

(* OS X: ticks of numer / denom nanoseconds, here of one, in 64 bits. *)
time_mach(ms) == Unsigned((ms * NsPerMs) \div NsPerMs)

(* ChibiOS without a conversion of its own: the product of the system time *)
(* (one tick per millisecond) and 1000 has the width of the system time.   *)
time_chibios(ms) == Unsigned(Unsigned(ms) * MsPerSec) \div MsPerSec

(* Windows: the time of day. *)
time_windows(ms) == ms % DayMs

Sources == {"systick", "linux", "mach", "chibios", "windows"}
Count(source, ms) ==
  CASE source = "systick" -> SystickIntHandler(ms)
    [] source = "linux"   -> time_linux(ms)
    [] source = "mach"    -> time_mach(ms)
    [] source = "chibios" -> time_chibios(ms)
    [] source = "windows" -> time_windows(ms)

time(c) == Count(c.source, c.boot + c.t)

ClockInit ==
  \E source \in Sources, boot \in Boots :
    clock = [source |-> source, t |-> 0, boot |-> boot, rt_time |-> 0, sec_offset |-> 0, nsec_offset |-> 0,
             asked |-> 0, requests |-> {}, answers |-> {}, synced |-> NotSynced]

Tick == clock.t < MaxTime /\ clock' = [clock EXCEPT !.t = @ + 1]

requestSyncTime ==
  /\ clock.asked < MaxAsked
  /\ clock' = [clock EXCEPT !.rt_time = time(clock), !.asked = @ + 1,
                            !.requests = @ \cup {clock.t}]

(* handle_time() of the server: the answer is its time at that moment. *)
handle_time ==
  \E r \in clock.requests :
    clock' = [clock EXCEPT !.requests = @ \ {r},
                           !.answers = @ \cup {[asked |-> r, stamped |-> clock.t]}]

(* Mutant: no second is borrowed for the nanoseconds. *)
setNow_noBorrow(c, t) ==
  LET ms == time(c)
      off == normalizeSecNSec(Unsigned(t.sec - ms \div MsPerSec),
                              Unsigned(t.nsec - (ms % MsPerSec) * NsPerMs))
  IN  [c EXCEPT !.sec_offset = off.sec, !.nsec_offset = off.nsec]

setNow(c, t) ==
  LET ms == time(c)
      off == normalizeSecNSec(
               Unsigned(t.sec - ms \div MsPerSec - 1),
               Unsigned(t.nsec - (ms % MsPerSec) * NsPerMs + NsPerSec))
  IN  [c EXCEPT !.sec_offset = off.sec, !.nsec_offset = off.nsec]

syncTime(a) ==
  LET offset == Unsigned(time(clock) - clock.rt_time)
      stamp == HostTime(a.stamped)
      t == [sec |-> Unsigned(stamp.sec + offset \div MsPerSec),
            nsec |-> Unsigned(stamp.nsec + (offset % MsPerSec) * NsPerMs)]
  IN  clock' = [setNow(clock, t) EXCEPT !.answers = @ \ {a},
                                          !.synced = [at |-> clock.t, asked |-> a.asked,
                                                      stamped |-> a.stamped]]

(* A request or an answer is lost on the wire. *)
Lost ==
  \/ \E r \in clock.requests : clock' = [clock EXCEPT !.requests = @ \ {r}]
  \/ \E a \in clock.answers : clock' = [clock EXCEPT !.answers = @ \ {a}]

now(c) ==
  LET ms == time(c)
  IN  normalizeSecNSec(Unsigned(ms \div MsPerSec + c.sec_offset),
                       Unsigned((ms % MsPerSec) * NsPerMs + c.nsec_offset))

ClockNext ==
  \/ Tick
  \/ requestSyncTime
  \/ handle_time
  \/ \E a \in clock.answers : syncTime(a)
  \/ Lost

ClockSpec == ClockInit /\ [][ClockNext]_clock

(* How far the device's clock is ahead of the server's, in nanoseconds, as *)
(* the difference of two wrapping times.                                   *)
Ahead(c) ==
  LET d == now(c)
      h == HostTime(c.t)
      diff == (d.sec - h.sec) * NsPerSec + d.nsec - h.nsec
      all == Wrap * NsPerSec
  IN  ((diff + all \div 2) % all) - all \div 2

(* The counter went on by one every millisecond from one time to another. *)
Steady(c, from, to) ==
  Count(c.source, c.boot + to) - Count(c.source, c.boot + from) = to - from

ClockTypeOK ==
  clock \in [source : Sources, t : 0 .. MaxTime, boot : Boots, rt_time : Int,
             sec_offset : 0 .. Wrap - 1, nsec_offset : 0 .. NsPerSec - 1,
             asked : 0 .. MaxAsked, requests : SUBSET (0 .. MaxTime),
             answers : SUBSET [asked : 0 .. MaxTime, stamped : 0 .. MaxTime],
             synced : [at : -1 .. MaxTime, asked : 0 .. MaxTime, stamped : 0 .. MaxTime]]

(* rt_time is what the counter was at some time, and no request that is    *)
(* under way or answered was made after that time.                         *)
RequestRemembered ==
  clock.requests # {} \/ clock.answers # {} =>
    \E at \in 0 .. clock.t :
      /\ clock.rt_time = Count(clock.source, clock.boot + at)
      /\ \A r \in clock.requests : r <= at
      /\ \A a \in clock.answers : a.asked <= at /\ a.asked <= a.stamped /\ a.stamped <= clock.t

(* The counter was good enough to measure how long the answer took. *)
Measured(c) ==
  c.source \in {"chibios", "windows"} => Steady(c, c.synced.asked, c.synced.at)

(* The offsets are the server's time, later by the time since some request *)
(* not before the one that was answered, less the counter.                 *)
OffsetKnown ==
  LET s == clock.synced
  IN  s # NotSynced =>
        /\ s.asked <= s.stamped /\ s.stamped <= s.at /\ s.at <= clock.t
        /\ Measured(clock) =>
             \E r \in s.asked .. s.at :
               TimeNs([sec |-> clock.sec_offset, nsec |-> clock.nsec_offset])
                 = ((s.stamped + (s.at - r) - Count(clock.source, clock.boot + s.at)) * NsPerMs
                    + HostPhase) % (Wrap * NsPerSec)

(* What the synchronisation remembers is what it takes it for, whichever of *)
(* several requests an answer is to.                                        *)
ClockInv == ClockTypeOK /\ RequestRemembered /\ OffsetKnown

(* As long as the millisecond counter has not wrapped since the last       *)
(* synchronisation, the device's clock is ahead of the server's by no more *)
(* than the request took to get there, and behind by no more than the      *)
(* answer took to come back: even if the answer was to an earlier request  *)
(* than the one whose time rt_time holds, if a counter of the full width   *)
(* wrapped between request and answer (one that starts again sooner, as on *)
(* Windows at midnight, must not have), and whatever carries and borrows   *)
(* between seconds and nanoseconds there were.                             *)
ClockWithinDelay ==
  LET s == clock.synced
  IN  s # NotSynced /\ Steady(clock, s.at, clock.t) /\ Measured(clock)
      => Ahead(clock) \in -(s.at - s.stamped) * NsPerMs .. (s.stamped - s.asked) * NsPerMs
============================================================================

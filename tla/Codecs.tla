------------------------------ MODULE Codecs -------------------------------
(***************************************************************************)
(* The conversions that have no other module of their own, side by side:   *)
(* in a behaviour one of them is at work and the others rest.              *)
(***************************************************************************)
EXTENDS RosLibMessages, DeviceClock, AvrFloat64, XbeeNetwork, MessageLookup

VARIABLE part
codecVars == <<part, msg, object, clock, calc, number, xb, lookup>>

CodecsInit ==
  /\ part \in {"serialization", "clock", "arithmetic", "float64", "xbee", "names"}
  /\ RosLibInit /\ ClockInit /\ CalcInit /\ FloatInit /\ XbeeInit /\ LookupInit
  /\ part # "xbee" => xb.way = "rx"
  /\ part # "clock" => clock.boot = Min(Boots) /\ clock.source = "systick"

CodecsNext ==
  /\ UNCHANGED part
  /\ \/ part = "serialization" /\ RosLibNext /\ UNCHANGED <<clock, calc, number, xb, lookup>>
     \/ part = "clock" /\ ClockNext /\ UNCHANGED <<msg, object, calc, number, xb, lookup>>
     \/ part = "arithmetic" /\ CalcNext /\ UNCHANGED <<msg, object, clock, number, xb, lookup>>
     \/ part = "float64" /\ FloatNext /\ UNCHANGED <<msg, object, clock, calc, xb, lookup>>
     \/ part = "xbee" /\ XbeeNext /\ UNCHANGED <<msg, object, clock, calc, number, lookup>>
     \/ part = "names" /\ LookupNext /\ UNCHANGED <<msg, object, clock, calc, number, xb>>

CodecsSpec == CodecsInit /\ [][CodecsNext]_codecVars

(* What one side writes the other reads as the same value (MessagesFaithful *)
(* of RosLibMessages), and the types that a device names are found as the   *)
(* ones they are (NamesResolved of MessageLookup).                          *)
SerializationFaithful == MessagesFaithful /\ NamesResolved
============================================================================

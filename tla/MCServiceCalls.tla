--------------------------- MODULE MCServiceCalls ---------------------------
(***************************************************************************)
(* ServiceCalls for two services of different types.                       *)
(* Three calls let a late response meet the call after the next; two       *)
(* sessions let a service outlive its session and be announced again.      *)
(***************************************************************************)
EXTENDS ServiceCalls, TLC

CONSTANTS a, b, SetBool, Trigger

MCNames == {a, b}
MCTypes == {SetBool, Trigger}
DifferentTypes == (a :> SetBool) @@ (b :> Trigger)
=============================================================================

--------------------------- MODULE MCRideEngine ---------------------------
(* Small instances of RideEngine for TLC. *)
EXTENDS RideEngine, TLC

CONSTANTS q1, q2, q3, p1, p2, p3

\* q1 and q3 are two requests of one rider.
MCSamePerson == (q1 :> p1) @@ (q2 :> p2) @@ (q3 :> p1)
MCSeatsNeeded == (q1 :> 2) @@ (q2 :> 2) @@ (q3 :> 1)
AllCompatible == Requests \X Requests

TwoPersonOf == (q1 :> p1) @@ (q2 :> p2)
TwoSeatsNeeded == (q1 :> 1) @@ (q2 :> 2)

OnePersonOf == q1 :> p1
OneSeatsNeeded == q1 :> 1
=============================================================================

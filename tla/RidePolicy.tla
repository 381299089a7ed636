----------------------------- MODULE RidePolicy -----------------------------
(***************************************************************************)
(* The pure rules of lib/ride-policy.ts: which status a ride may take      *)
(* next, who may ask for it, and what a cancellation does to a request.    *)
(***************************************************************************)
EXTENDS Naturals

RideStatuses == {"confirmed", "driver_en_route", "arrived", "picked_up",
                 "completed", "cancelled", "no_show"}

transitions ==
  [s \in RideStatuses |->
     CASE s = "confirmed" -> {"driver_en_route", "cancelled", "no_show"}
       [] s = "driver_en_route" -> {"arrived", "cancelled"}
       [] s = "arrived" -> {"picked_up", "no_show", "cancelled"}
       [] s = "picked_up" -> {"completed", "cancelled"}
       [] OTHER -> {}]

driverOnlyTransitions == {"driver_en_route", "arrived", "picked_up", "completed", "no_show"}

canTransitionRide(from, to) == from \in RideStatuses /\ to \in transitions[from]

\* Either the driver, or somebody who manages the primary request.
canActorTransitionRide(actorIsDriver, to) == to \in driverOnlyTransitions => actorIsDriver

requestStatusAfterRideCancellationBug(prePickup, driverCancelled, isPrimary) ==
  IF prePickup THEN "reopened" ELSE "cancelled"

requestStatusAfterRideCancellation(prePickup, driverCancelled, isPrimary) ==
  IF prePickup /\ (driverCancelled \/ ~isPrimary) THEN "open" ELSE "cancelled"

canEndPooledRideAsNoShow(assignmentCount) == assignmentCount <= 1

EndedStatuses == {s \in RideStatuses : transitions[s] = {}}

PrePickupStatuses == {"confirmed", "driver_en_route", "arrived"}
=============================================================================

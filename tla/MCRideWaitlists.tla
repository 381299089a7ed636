-------------------------- MODULE MCRideWaitlists --------------------------
(***************************************************************************)
(* Small instances of RideWaitlists.  The runs start after the primary     *)
(* requests of Confirmed were created, offered a ride and accepted.        *)
(***************************************************************************)
EXTENDS RideWaitlists, TLC

CONSTANTS q1, q2, q3, p1, p2, p3, d1, d2,
          Confirmed,  \* [rides that are confirmed at the start -> their drivers]
          StartSeats, \* and the seats their drivers offered
          OpenAtStart \* other requests that were created before

ConfirmedInit ==
  LET primary == DOMAIN Confirmed
  IN  /\ WaitlistInit
      /\ request = [q \in Requests |->
                      [status |-> IF q \in primary THEN "matched"
                                  ELSE IF q \in OpenAtStart THEN "open" ELSE "none",
                       approval |-> "not_required"]]
      /\ offer = [q \in Requests |-> [d \in Drivers |->
                    IF q \in primary /\ Confirmed[q] = d
                    THEN [status |-> "accepted", seats |-> StartSeats[q]]
                    ELSE [status |-> "none", seats |-> 0]]]
      /\ ride = [r \in Requests |->
                   IF r \in primary
                   THEN [status |-> "confirmed", driver |-> Confirmed[r],
                         capacity |-> StartSeats[r], reserved |-> SeatsNeeded[r]]
                   ELSE NoRide]
      /\ assignment = [q \in Requests |->
                         IF q \in primary THEN [ride |-> q, status |-> "confirmed"]
                         ELSE [ride |-> None, status |-> "none"]]
      /\ passenger = [r \in Requests |-> [p \in Persons |->
                        IF r \in primary /\ PersonOf[r] = p
                        THEN [request |-> r, status |-> "confirmed"]
                        ELSE [request |-> None, status |-> "none"]]]
      /\ approving = {} /\ offering = {}

ConfirmedSpec == ConfirmedInit /\ [][WaitlistNext]_allVars
ConfirmedFairSpec == ConfirmedSpec /\ WaitlistFairness

\* One ride and two parties who wait for it.
OneRide == q1 :> d1
OneRidePersonOf == (q1 :> p1) @@ (q2 :> p2) @@ (q3 :> p3)
OneRideSeatsNeeded == (q1 :> 1) @@ (q2 :> 2) @@ (q3 :> 1)

OneRideFull == q1 :> 1
OneRideFree == q1 :> 2

\* Two rides to the same event and somebody who waits for either.
TwoRides == (q1 :> d1) @@ (q2 :> d2)
TwoRidesPersonOf == (q1 :> p1) @@ (q2 :> p2) @@ (q3 :> p3)
OneSeatEach == (q1 :> 1) @@ (q2 :> 1) @@ (q3 :> 1)

FirstRideFull == (q1 :> 1) @@ (q2 :> 2)

\* One ride and a minor who waits for it.
MinorPersonOf == (q1 :> p1) @@ (q2 :> p2)
MinorSeatsNeeded == (q1 :> 1) @@ (q2 :> 3)
MinorRideSeats == q1 :> 4

\* One ride and two requests of the same rider.
OneRiderPersonOf == (q1 :> p1) @@ (q2 :> p2) @@ (q3 :> p2)

AllCompatible == Requests \X Requests
=============================================================================

-------------------------- MODULE RideEngineProofs --------------------------
(* Safety of rides, offers and pooling for any number of requests, drivers *)
(* and riders.                                                             *)
EXTENDS RideEngine, FiniteSetTheorems, TLAPS

LEMMA EndedAre == EndedStatuses = {"completed", "cancelled", "no_show"}
BY DEF EndedStatuses, RideStatuses, transitions

\* Only a ride that has not ended changes its status.
LEMMA TransitionsLeave ==
  ASSUME NEW from, NEW to, canTransitionRide(from, to)
  PROVE  from \in {"confirmed", "driver_en_route", "arrived", "picked_up"} /\ to \in RideStatuses
BY DEF canTransitionRide, RideStatuses, transitions

LEMMA ActiveAre ==
  ASSUME RideTypeOK, NEW r \in Requests
  PROVE  ActiveRide(r) <=>
           ride[r].status \in {"confirmed", "driver_en_route", "arrived", "picked_up"}
BY EndedAre DEF RideTypeOK, RideRows, RideStatuses, ActiveRide

LEMMA RequestFacts ==
  /\ \A q \in Requests : PersonOf[q] \in Persons /\ SeatsNeeded[q] \in 1..12 /\ q # None
  /\ \A d \in Drivers : d # None
  /\ SeatChoices \subseteq 1..12
BY PersonOfAssumption, SeatsNeededAssumption, SeatChoicesAssumption, NoneAssumption

-----------------------------------------------------------------------------
(* Types *)


\* The fields of a row, and a row with one of them replaced.
LEMMA RideParts ==
  ASSUME RideTypeOK, NEW r \in Requests
  PROVE  /\ ride[r] \in RideRows
         /\ ride[r].status \in RideStatuses \cup {"none"}
         /\ ride[r].driver \in Drivers \cup {None}
         /\ ride[r].capacity \in 0..12 /\ ride[r].reserved \in Nat
BY DEF RideTypeOK, RideRows

LEMMA RideWith ==
  ASSUME NEW row \in RideRows, NEW n \in Nat, NEW c \in 0..12, NEW status \in RideStatuses
  PROVE  /\ [row EXCEPT !.reserved = n] \in RideRows
         /\ [row EXCEPT !.capacity = c] \in RideRows
         /\ [row EXCEPT !.status = status] \in RideRows
         /\ [row EXCEPT !.status = status, !.reserved = n] \in RideRows
BY DEF RideRows

LEMMA OfferParts ==
  ASSUME RideTypeOK, NEW q \in Requests, NEW d \in Drivers
  PROVE  /\ offer[q][d] \in OfferRows /\ offer[q][d].seats \in 0..12
         /\ \A status \in {"accepted", "declined", "withdrawn"} :
              [offer[q][d] EXCEPT !.status = status] \in OfferRows
BY DEF RideTypeOK, OfferRows

LEMMA RequestWith ==
  ASSUME RideTypeOK, NEW q \in Requests
  PROVE  /\ request[q] \in RequestRows
         /\ \A status \in {"open", "matched", "completed", "cancelled"} :
              [request[q] EXCEPT !.status = status] \in RequestRows
BY DEF RideTypeOK, RequestRows

LEMMA PassengerWith ==
  ASSUME RideTypeOK, NEW r \in Requests, NEW p \in Persons
  PROVE  /\ passenger[r][p] \in PassengerRows
         /\ \A status \in {"confirmed", "cancelled", "completed", "no_show"} :
              [passenger[r][p] EXCEPT !.status = status] \in PassengerRows
<1>1. passenger[r][p] \in PassengerRows
  BY DEF RideTypeOK
<1> QED BY <1>1 DEF PassengerRows

LEMMA AssignmentsTyped ==
  ASSUME RideTypeOK, NEW Q, NEW status \in {"confirmed", "cancelled", "completed", "no_show"}
  PROVE  AssignmentsOf(Q, status) \in [Requests -> AssignmentRows]
BY DEF RideTypeOK, AssignmentRows, AssignmentsOf

LEMMA PassengersTyped ==
  ASSUME RideTypeOK, NEW r \in Requests, NEW Q,
         NEW status \in {"confirmed", "cancelled", "completed", "no_show"}
  PROVE  PassengersOf(r, Q, status) \in [Requests -> [Persons -> PassengerRows]]
<1>1. [p \in Persons |-> IF passenger[r][p].request \in Q
                         THEN [passenger[r][p] EXCEPT !.status = status]
                         ELSE passenger[r][p]] \in [Persons -> PassengerRows]
  BY DEF RideTypeOK, PassengerRows
<1> QED BY <1>1 DEF RideTypeOK, PassengersOf

LEMMA ReservedWithoutNat ==
  ASSUME RideTypeOK, NEW r \in Requests, NEW q \in Requests
  PROVE  ReservedWithout(r, q) \in 0..ride[r].reserved
<1>1. SeatsNeeded[q] \in 1..12 /\ ride[r].reserved \in Nat
  BY RequestFacts, RideParts
<1> QED BY <1>1 DEF ReservedWithout

LEMMA RideTypeInit == RideInit => RideTypeOK
BY DEF RideInit, RideTypeOK, RequestRows, OfferRows, RideRows, AssignmentRows,
       PassengerRows, NoRide, RideStatuses

LEMMA RideTypeStep == RideTypeOK /\ [RideNext]_rideVars => RideTypeOK'
<1> SUFFICES ASSUME RideTypeOK, [RideNext]_rideVars PROVE RideTypeOK'
  OBVIOUS
<1>a. \A q \in Requests : SeatsNeeded[q] \in Nat
  BY RequestFacts
<1>b. \A r \in Requests : ride[r].reserved \in Nat
  BY RideParts
<1>c. \A q \in Requests, d \in Drivers : offer[q][d].seats \in 0..12
  BY OfferParts
<1>d. \A q \in Requests : \A status \in {"open", "cancelled"} :
        [request[q] EXCEPT !.status = status] \in RequestRows
  BY RequestWith
<1> USE DEF RideTypeOK
<1>1. ASSUME NEW q \in Requests, createRideRequest(q) PROVE RideTypeOK'
  <2>1. \A approval \in guardianApprovalFor(q) : NewRequest(approval) \in RequestRows
    BY DEF guardianApprovalFor, NewRequest, RequestRows
  <2> QED BY <1>1, <2>1 DEF createRideRequest
<1>2. ASSUME NEW q \in Requests, NEW approve \in BOOLEAN, ReadForApproval(q, approve)
      PROVE RideTypeOK'
  BY <1>2 DEF ReadForApproval
<1>3. ASSUME NEW q \in Requests, NEW approve \in BOOLEAN, approveRideRequest(q, approve)
      PROVE RideTypeOK'
  BY <1>3 DEF approveRideRequest, RequestRows
<1>4. ASSUME NEW q \in Requests, NEW d \in Drivers, NEW seats \in SeatChoices,
             ReadForOffer(q, d, seats)
      PROVE RideTypeOK'
  BY <1>4 DEF ReadForOffer
<1>5. ASSUME NEW q \in Requests, NEW d \in Drivers, NEW seats \in SeatChoices,
             createRideOffer(q, d, seats)
      PROVE RideTypeOK'
  <2>1. [status |-> "offered", seats |-> seats] \in OfferRows
    BY RequestFacts DEF OfferRows
  <2>2. offer' \in [Requests -> [Drivers -> OfferRows]]
    BY <1>5, <2>1 DEF createRideOffer
  <2> QED BY <1>5, <2>2 DEF createRideOffer
<1>6. ASSUME NEW q \in Requests, NEW d \in Drivers, acceptRideOffer(q, d) PROVE RideTypeOK'
  <2>1. PooledRide(q, d) \in RideRows
    <3>1. offer[q][d].seats \in 0..12 /\ SeatsNeeded[q] \in Nat
      BY <1>a, <1>c
    <3> QED BY <3>1 DEF PooledRide, RideRows, RideStatuses
  <2>2. PrimaryAssignment(q) \in [Requests -> AssignmentRows]
    BY DEF PrimaryAssignment, AssignmentRows
  <2>3. passenger' \in [Requests -> [Persons -> PassengerRows]]
    <3>1. [request |-> q, status |-> "confirmed"] \in PassengerRows
      BY DEF PassengerRows
    <3> QED BY <1>6, <3>1, RequestFacts DEF acceptRideOffer
  <2>4. request' \in [Requests -> RequestRows]
    BY <1>6 DEF acceptRideOffer, RequestRows
  <2>5. offer' \in [Requests -> [Drivers -> OfferRows]]
    <3>1. [e \in Drivers |->
             IF offer[q][e].status = "offered"
             THEN [offer[q][e] EXCEPT !.status = IF e = d THEN "accepted" ELSE "declined"]
             ELSE offer[q][e]] \in [Drivers -> OfferRows]
      BY OfferParts
    <3> QED BY <1>6, <3>1 DEF acceptRideOffer
  <2> QED BY <1>6, <2>1, <2>2, <2>3, <2>4, <2>5 DEF acceptRideOffer
<1>7. ASSUME NEW r \in Requests, NEW q \in Requests, attachRequestToRide(r, q, 0)
      PROVE RideTypeOK'
  <2>1. assignment' \in [Requests -> AssignmentRows]
    BY <1>7 DEF attachRequestToRide, reserveSeatForRequest, AssignmentRows
  <2>2. passenger' \in [Requests -> [Persons -> PassengerRows]]
    <3>1. [request |-> q, status |-> "confirmed"] \in PassengerRows
      BY DEF PassengerRows
    <3> QED BY <1>7, <3>1, RequestFacts DEF attachRequestToRide, reserveSeatForRequest
  <2>3. ride' \in [Requests -> RideRows]
    <3>1. ride[r].reserved + SeatsNeeded[q] \in Nat
      BY <1>a, <1>b
    <3>2. [ride[r] EXCEPT !.reserved = ride[r].reserved + SeatsNeeded[q]] \in RideRows
      BY <3>1, RideParts, RideWith DEF RideStatuses
    <3> QED BY <1>7, <3>2 DEF attachRequestToRide, reserveSeatForRequest
  <2>4. request' \in [Requests -> RequestRows]
    BY <1>7 DEF attachRequestToRide, reserveSeatForRequest, Match, RequestRows
  <2> QED BY <1>7, <2>1, <2>2, <2>3, <2>4 DEF attachRequestToRide
<1>8. ASSUME NEW r \in Requests, NEW q \in Requests, removeRequestFromRide(r, q)
      PROVE RideTypeOK'
  <2>1. assignment' \in [Requests -> AssignmentRows]
    BY <1>8 DEF removeRequestFromRide, AssignmentRows
  <2>2. passenger' \in [Requests -> [Persons -> PassengerRows]]
    BY <1>8, PassengersTyped DEF removeRequestFromRide
  <2>3. ride' \in [Requests -> RideRows]
    <3>1. ReservedWithout(r, q) \in Nat
      BY ReservedWithoutNat, RideParts
    <3>2. [ride[r] EXCEPT !.reserved = ReservedWithout(r, q)] \in RideRows
      BY <3>1, RideParts, RideWith DEF RideStatuses
    <3> QED BY <1>8, <3>2 DEF removeRequestFromRide
  <2>4. request' \in [Requests -> RequestRows]
    BY <1>8 DEF removeRequestFromRide, RequestRows
  <2> QED BY <1>8, <2>1, <2>2, <2>3, <2>4 DEF removeRequestFromRide
<1>9. ASSUME NEW r \in Requests, NEW seats \in SeatChoices, updateRideSeats(r, seats, 0)
      PROVE RideTypeOK'
  <2>1. [ride[r] EXCEPT !.capacity = seats] \in RideRows
    <3>1. seats \in 0..12
      BY RequestFacts
    <3> QED BY <3>1, RideParts, RideWith DEF RideStatuses
  <2> QED BY <1>9, <2>1 DEF updateRideSeats
<1>10. ASSUME NEW r \in Requests, NEW to \in RideStatuses, AdvanceRide(r, to) PROVE RideTypeOK'
  <2>1. [ride[r] EXCEPT !.status = to] \in RideRows
    BY RideParts, RideWith
  <2> QED BY <1>10, <2>1 DEF AdvanceRide
<1>11. ASSUME NEW r \in Requests, CompleteRide(r) PROVE RideTypeOK'
  <2>1. ride' \in [Requests -> RideRows]
    BY <1>11 DEF CompleteRide, RideRows, RideStatuses
  <2>2. passenger' \in [Requests -> [Persons -> PassengerRows]]
    <3>1. [p \in Persons |-> IF passenger[r][p].status = "confirmed"
                             THEN [passenger[r][p] EXCEPT !.status = "completed"]
                             ELSE passenger[r][p]] \in [Persons -> PassengerRows]
      BY PassengerWith
    <3> QED BY <1>11, <3>1 DEF CompleteRide
  <2>3. request' \in [Requests -> RequestRows]
    BY <1>11 DEF CompleteRide, RequestRows
  <2> QED BY <1>11, <2>1, <2>2, <2>3, AssignmentsTyped DEF CompleteRide
<1>12. ASSUME NEW r \in Requests, NEW byDriver \in BOOLEAN, CancelRide(r, byDriver)
       PROVE RideTypeOK'
  <2>1. request' \in [Requests -> RequestRows]
    <3> DEFINE New(q) == requestStatusAfterRideCancellation(
                           ride[r].status \in PrePickupStatuses, byDriver, q = r)
    <3>1. \A q \in Requests : [request[q] EXCEPT !.status = New(q)] \in RequestRows
      <4>1. \A q \in Requests : New(q) \in {"open", "cancelled"}
        BY DEF requestStatusAfterRideCancellation
      <4> QED BY <4>1, <1>d
    <3> QED BY <1>12, <3>1, RequestWith DEF CancelRide
  <2>2. ride' \in [Requests -> RideRows]
    BY <1>12 DEF CancelRide, RideRows, RideStatuses
  <2>3. offer' \in [Requests -> [Drivers -> OfferRows]]
    <3> DEFINE d == ride[r].driver
               new(status) == IF status = "accepted"
                              THEN (IF byDriver THEN "withdrawn" ELSE "declined") ELSE status
    <3>1. d \in Drivers => [offer[r][d] EXCEPT !.status = new(offer[r][d].status)] \in OfferRows
      <4>1. new(offer[r][d].status) \in {"none", "offered", "accepted", "declined", "withdrawn"} \/ d \notin Drivers
        BY DEF OfferRows
      <4>2. d \in Drivers => offer[r][d] \in OfferRows
        OBVIOUS
      <4> QED BY <4>1, <4>2 DEF OfferRows
    <3>2. offer' = [offer EXCEPT ![r] = [offer[r] EXCEPT ![d] =
                      [offer[r][d] EXCEPT !.status = new(offer[r][d].status)]]]
      BY <1>12 DEF CancelRide
    <3> QED BY <3>1, <3>2
  <2> QED BY <1>12, <2>1, <2>2, <2>3, AssignmentsTyped, PassengersTyped DEF CancelRide
<1>13. ASSUME NEW r \in Requests, NoShowRide(r) PROVE RideTypeOK'
  <2>1. PICK q \in Affected(r) :
          /\ assignment' = AssignmentsOf({q}, "no_show")
          /\ passenger' = PassengersOf(r, {q}, "no_show")
          /\ request' = [request EXCEPT ![q].status = "cancelled"]
    BY <1>13 DEF NoShowRide
  <2>2. request' \in [Requests -> RequestRows]
    BY <2>1 DEF RequestRows
  <2>3. ride' \in [Requests -> RideRows]
    BY <1>13 DEF NoShowRide, RideRows, RideStatuses
  <2> QED BY <1>13, <2>1, <2>2, <2>3, AssignmentsTyped, PassengersTyped DEF NoShowRide
<1>14. CASE UNCHANGED rideVars
  BY <1>14 DEF rideVars
<1> QED BY <1>1, <1>2, <1>3, <1>4, <1>5, <1>6, <1>7, <1>8, <1>9, <1>10, <1>11, <1>12,
           <1>13, <1>14 DEF RideNext, RequestStep, LifecycleStep, PoolingStep

\* Every table keeps well-typed rows; the seat counter never becomes negative.
THEOREM RideTypeCorrect == RideSpec => []RideTypeOK
BY RideTypeInit, RideTypeStep, PTL DEF RideSpec

-----------------------------------------------------------------------------
(* No overbooking *)

\* An offer that stands, or is about to be written, has seats for its request:
\* with it the ride made from the offer starts within its capacity.
OffersSuffice ==
  /\ \A q \in Requests, d \in Drivers :
       offer[q][d].status = "offered" => SeatsNeeded[q] <= offer[q][d].seats
  /\ \A q \in Requests, d \in Drivers, s \in SeatChoices :
       <<q, d, s>> \in offering => SeatsNeeded[q] <= s

LEMMA BookingInit == RideInit => OffersSuffice /\ NoOverbooking
BY DEF RideInit, NoRide, OffersSuffice, NoOverbooking

\* A step that touches neither offers nor seats.
LEMMA BookingKept ==
  ASSUME OffersSuffice, NoOverbooking, offer' = offer, offering' \subseteq offering,
         \A r \in Requests : ride'[r].reserved = ride[r].reserved
                             /\ ride'[r].capacity = ride[r].capacity
  PROVE  OffersSuffice' /\ NoOverbooking'
BY DEF OffersSuffice, NoOverbooking

\* A step of one ride that keeps it within its capacity.
LEMMA BookingOfOne ==
  ASSUME RideTypeOK, NoOverbooking, NEW r \in Requests, NEW new,
         ride' = [ride EXCEPT ![r] = new], new.reserved <= new.capacity
  PROVE  NoOverbooking'
BY DEF RideTypeOK, NoOverbooking

LEMMA BookingStep ==
  RideTypeOK /\ OffersSuffice /\ NoOverbooking /\ [RideNext]_rideVars
    => OffersSuffice' /\ NoOverbooking'
<1> SUFFICES ASSUME RideTypeOK, OffersSuffice, NoOverbooking, [RideNext]_rideVars
             PROVE  OffersSuffice' /\ NoOverbooking'
  OBVIOUS
<1>a. \A r \in Requests : /\ ride[r] \in RideRows
                          /\ ride[r].reserved \in Nat /\ ride[r].capacity \in Nat
                          /\ ride[r].reserved <= ride[r].capacity
  BY RideParts DEF NoOverbooking
<1>b. \A q \in Requests : SeatsNeeded[q] \in Nat
  BY RequestFacts
<1>c. ASSUME UNCHANGED <<offer, offering>> PROVE OffersSuffice'
  BY <1>c DEF OffersSuffice
<1>d. ASSUME UNCHANGED ride PROVE NoOverbooking'
  BY <1>d DEF NoOverbooking
<1>1. ASSUME NEW q \in Requests, createRideRequest(q) PROVE OffersSuffice' /\ NoOverbooking'
  BY <1>1, <1>c, <1>d DEF createRideRequest
<1>2. ASSUME NEW q \in Requests, NEW approve \in BOOLEAN,
             ReadForApproval(q, approve) \/ approveRideRequest(q, approve)
      PROVE OffersSuffice' /\ NoOverbooking'
  BY <1>2, <1>c, <1>d DEF ReadForApproval, approveRideRequest
<1>3. ASSUME NEW q \in Requests, NEW d \in Drivers, NEW seats \in SeatChoices,
             ReadForOffer(q, d, seats)
      PROVE OffersSuffice' /\ NoOverbooking'
  <2>1. SeatsNeeded[q] <= seats
    BY <1>3, <1>b, RequestFacts DEF ReadForOffer
  <2>2. OffersSuffice'
    BY <1>3, <2>1 DEF ReadForOffer, OffersSuffice
  <2> QED BY <1>3, <1>d, <2>2 DEF ReadForOffer
<1>4. ASSUME NEW q \in Requests, NEW d \in Drivers, NEW seats \in SeatChoices,
             createRideOffer(q, d, seats)
      PROVE OffersSuffice' /\ NoOverbooking'
  <2>1. SeatsNeeded[q] <= seats
    BY <1>4 DEF createRideOffer, OffersSuffice
  <2>2. OffersSuffice'
    BY <1>4, <2>1 DEF createRideOffer, OffersSuffice, RideTypeOK
  <2> QED BY <1>4, <1>d, <2>2 DEF createRideOffer
<1>5. ASSUME NEW q \in Requests, NEW d \in Drivers, acceptRideOffer(q, d)
      PROVE OffersSuffice' /\ NoOverbooking'
  <2>1. PooledRide(q, d).reserved <= PooledRide(q, d).capacity
    BY <1>5 DEF acceptRideOffer, MayAccept, OffersSuffice, PooledRide
  <2>2. OffersSuffice'
    <3>1. ASSUME NEW k \in Requests, NEW e \in Drivers, offer'[k][e].status = "offered"
          PROVE  offer'[k][e] = offer[k][e]
      <4>1. CASE k = q
        <5>1. offer'[q][e].status # "offered" \/ offer'[q][e] = offer[q][e]
          BY <1>5 DEF acceptRideOffer, RideTypeOK, OfferRows
        <5> QED BY <3>1, <4>1, <5>1
      <4>2. CASE k # q
        BY <1>5, <4>2 DEF acceptRideOffer, RideTypeOK
      <4> QED BY <4>1, <4>2
    <3> QED BY <1>5, <3>1 DEF acceptRideOffer, OffersSuffice
  <2>3. ride' = [ride EXCEPT ![q] = PooledRide(q, d)]
    BY <1>5 DEF acceptRideOffer
  <2> QED BY <2>1, <2>2, <2>3, BookingOfOne
<1>6. ASSUME NEW r \in Requests, NEW q \in Requests, attachRequestToRide(r, q, 0)
      PROVE OffersSuffice' /\ NoOverbooking'
  <2> DEFINE new == [ride[r] EXCEPT !.reserved = @ + SeatsNeeded[q]]
  <2>1. ride' = [ride EXCEPT ![r] = new]
    BY <1>6 DEF attachRequestToRide, reserveSeatForRequest
  <2>2. new.reserved = ride[r].reserved + SeatsNeeded[q] /\ new.capacity = ride[r].capacity
    BY <1>a DEF RideRows
  <2>3. new.reserved <= new.capacity
    BY <1>6, <1>a, <1>b, <2>2 DEF attachRequestToRide, Fits
  <2>4. OffersSuffice'
    BY <1>6, <1>c DEF attachRequestToRide
  <2> QED BY <2>1, <2>3, <2>4, BookingOfOne
<1>7. ASSUME NEW r \in Requests, NEW q \in Requests, removeRequestFromRide(r, q)
      PROVE OffersSuffice' /\ NoOverbooking'
  <2> DEFINE new == [ride[r] EXCEPT !.reserved = ReservedWithout(r, q)]
  <2>1. ride' = [ride EXCEPT ![r] = new]
    BY <1>7 DEF removeRequestFromRide
  <2>2. new.reserved = ReservedWithout(r, q) /\ new.capacity = ride[r].capacity
    BY <1>a DEF RideRows
  <2>3. ReservedWithout(r, q) \in 0..ride[r].reserved
    BY ReservedWithoutNat
  <2>4. new.reserved <= new.capacity
    BY <1>a, <2>2, <2>3
  <2>5. OffersSuffice'
    BY <1>7, <1>c DEF removeRequestFromRide
  <2> QED BY <2>1, <2>4, <2>5, BookingOfOne
<1>8. ASSUME NEW r \in Requests, NEW seats \in SeatChoices, updateRideSeats(r, seats, 0)
      PROVE OffersSuffice' /\ NoOverbooking'
  <2> DEFINE new == [ride[r] EXCEPT !.capacity = seats]
  <2>1. ride' = [ride EXCEPT ![r] = new]
    BY <1>8 DEF updateRideSeats
  <2>2. new.reserved = ride[r].reserved /\ new.capacity = seats
    BY <1>a DEF RideRows
  <2>3. new.reserved <= new.capacity
    BY <1>8, <1>a, <2>2, RequestFacts DEF updateRideSeats
  <2>4. OffersSuffice'
    BY <1>8, <1>c DEF updateRideSeats
  <2> QED BY <2>1, <2>3, <2>4, BookingOfOne
<1>9. ASSUME NEW r \in Requests, NEW to \in RideStatuses,
             ride' = [ride EXCEPT ![r].status = to], UNCHANGED <<offer, offering>>
      PROVE OffersSuffice' /\ NoOverbooking'
  <2> DEFINE new == [ride[r] EXCEPT !.status = to]
  <2>1. new.reserved = ride[r].reserved /\ new.capacity = ride[r].capacity
    BY <1>a DEF RideRows
  <2>2. new.reserved <= new.capacity
    BY <1>a, <2>1
  <2> QED BY <1>9, <1>c, <2>2, BookingOfOne
<1>10. ASSUME NEW r \in Requests, NEW byDriver \in BOOLEAN, CancelRide(r, byDriver)
       PROVE OffersSuffice' /\ NoOverbooking'
  <2> DEFINE new == [ride[r] EXCEPT !.status = "cancelled", !.reserved = 0]
  <2>1. new.reserved = 0 /\ new.capacity = ride[r].capacity
    BY <1>a DEF RideRows
  <2>2. ride' = [ride EXCEPT ![r] = new]
    BY <1>10 DEF CancelRide
  <2>3. new.reserved <= new.capacity
    BY <1>a, <2>1
  <2>4. ASSUME NEW k \in Requests, NEW e \in Drivers, offer'[k][e].status = "offered"
        PROVE  offer'[k][e] = offer[k][e]
    <3>1. CASE k = r /\ e = ride[r].driver
      <4>1. offer[r][e] \in OfferRows
        BY OfferParts
      <4>2. offer'[r][e] = [offer[r][e] EXCEPT !.status =
                 IF offer[r][e].status = "accepted"
                 THEN (IF byDriver THEN "withdrawn" ELSE "declined") ELSE offer[r][e].status]
        BY <1>10, <3>1 DEF CancelRide, RideTypeOK
      <4> QED BY <2>4, <3>1, <4>1, <4>2 DEF OfferRows
    <3>2. CASE ~(k = r /\ e = ride[r].driver)
      BY <1>10, <3>2 DEF CancelRide, RideTypeOK
    <3> QED BY <3>1, <3>2
  <2>5. OffersSuffice'
    BY <1>10, <2>4 DEF CancelRide, OffersSuffice
  <2> QED BY <2>2, <2>3, <2>5, BookingOfOne
<1>11. CASE UNCHANGED rideVars
  BY <1>11, <1>c, <1>d DEF rideVars
<1>12. ASSUME NEW r \in Requests, CompleteRide(r) \/ NoShowRide(r)
       PROVE OffersSuffice' /\ NoOverbooking'
  BY <1>12, <1>9 DEF CompleteRide, NoShowRide, RideStatuses
<1>13. ASSUME NEW r \in Requests, NEW to \in RideStatuses, AdvanceRide(r, to)
       PROVE OffersSuffice' /\ NoOverbooking'
  BY <1>13, <1>9 DEF AdvanceRide
<1> QED BY <1>1, <1>2, <1>3, <1>4, <1>5, <1>6, <1>7, <1>8, <1>10, <1>11, <1>12, <1>13
        DEF RideNext, RequestStep, LifecycleStep, PoolingStep

\* The seats reserved on a ride never exceed its capacity, for any number of
\* requests, drivers and handlers in flight.
THEOREM BookingCorrect == RideSpec => []NoOverbooking
BY BookingInit, BookingStep, RideTypeCorrect, PTL DEF RideSpec

-----------------------------------------------------------------------------
(* Who is aboard *)

\* A confirmed assignment is to a ride that is under way, and the rider's
\* passenger row there is for the same request.
SeatFits(q, r) ==
  /\ ActiveRide(r)
  /\ passenger[r][PersonOf[q]] = [request |-> q, status |-> "confirmed"]

SeatsFit == \A q, r \in Requests : OnRide(q, r) => SeatFits(q, r)

LEMMA SeatsFitMeans == SeatsFit => EndedRideCarriesNobody /\ SeatHasPassenger
BY DEF SeatsFit, SeatFits, EndedRideCarriesNobody, SeatHasPassenger, Carried

LEMMA SeatsInit == RideInit => SeatsFit
BY DEF RideInit, SeatsFit, OnRide

\* A step that leaves rides and passengers alone and seats nobody.
LEMMA SeatsKept ==
  ASSUME SeatsFit, ride' = ride, assignment' = assignment, passenger' = passenger
  PROVE  SeatsFit'
BY DEF SeatsFit, SeatFits, OnRide, ActiveRide

\* Of a set with at most one element a member is all there is.
LEMMA OnlyMember ==
  ASSUME NEW S, IsFiniteSet(S), Cardinality(S) <= 1, NEW q \in S
  PROVE  S = {q}
<1>1. Cardinality({q}) = 1
  BY FS_Singleton
<1>2. Cardinality(S \ {q}) = Cardinality(S) - 1 /\ IsFiniteSet(S \ {q})
  BY FS_RemoveElement
<1>3. Cardinality(S) \in Nat /\ Cardinality(S \ {q}) \in Nat
  BY <1>2, FS_CardinalityType
<1>4. S \ {q} = {}
  BY <1>2, <1>3, FS_EmptySet
<1> QED BY <1>4

\* The end of ride r for the requests Q it carried: they lose their seats, the
\* passengers of other requests and all other rides are left alone.
LEMMA SeatsAfterEnd ==
  ASSUME RideTypeOK, RideTypeOK', SeatsFit, NEW r \in Requests, NEW status \in {"cancelled", "completed", "no_show"},
         assignment' = AssignmentsOf(Carried(r), status),
         \A k \in Requests : k # r => ride'[k].status = ride[k].status /\ passenger'[k] = passenger[k]
  PROVE  SeatsFit'
<1> SUFFICES ASSUME NEW q \in Requests, NEW k \in Requests, OnRide(q, k)'
             PROVE  SeatFits(q, k)'
  BY DEF SeatsFit
<1>1. q \notin Carried(r) /\ OnRide(q, k)
  <2>1. assignment[q] \in AssignmentRows /\ assignment'[q].status = "confirmed"
    BY DEF RideTypeOK, OnRide
  <2>2. q \notin Carried(r)
    BY <2>1 DEF AssignmentsOf, AssignmentRows
  <2> QED BY <2>2 DEF AssignmentsOf, OnRide
<1>2. k # r
  BY <1>1 DEF Carried
<1>3. SeatFits(q, k)
  BY <1>1 DEF SeatsFit
<1> QED BY <1>2, <1>3, ActiveAre DEF SeatFits, ActiveRide

LEMMA SeatsStep == RideTypeOK /\ RideTypeOK' /\ SeatsFit /\ [RideNext]_rideVars => SeatsFit'
<1> SUFFICES ASSUME RideTypeOK, RideTypeOK', SeatsFit, [RideNext]_rideVars PROVE SeatsFit'
  OBVIOUS
<1>1. ASSUME NEW q \in Requests, RequestStep(q), \A d \in Drivers : ~acceptRideOffer(q, d)
      PROVE  SeatsFit'
  BY <1>1, SeatsKept DEF RequestStep, createRideRequest, ReadForApproval, approveRideRequest,
     ReadForOffer, createRideOffer
<1>2. ASSUME NEW q \in Requests, NEW d \in Drivers, acceptRideOffer(q, d) PROVE SeatsFit'
  <2> DEFINE seat == [request |-> q, status |-> "confirmed"]
  <2>1. /\ ride[q].status = "none"
        /\ ride' = [ride EXCEPT ![q] = PooledRide(q, d)]
        /\ assignment' = PrimaryAssignment(q)
        /\ passenger' = [passenger EXCEPT ![q][PersonOf[q]] = seat]
    BY <1>2 DEF acceptRideOffer, MayAccept
  <2>2. ActiveRide(q)'
    <3>1. ride'[q].status = "confirmed"
      BY <2>1 DEF PooledRide, RideTypeOK
    <3> QED BY <3>1, EndedAre DEF ActiveRide
  <2>3. \A k \in Requests : ~OnRide(k, q)
    BY <2>1 DEF SeatsFit, SeatFits, ActiveRide
  <2>4. ASSUME NEW k \in Requests, NEW r \in Requests, OnRide(k, r)' PROVE SeatFits(k, r)'
    <3>1. CASE k = q /\ r = q
      BY <2>1, <2>2, <3>1, RequestFacts DEF SeatFits, RideTypeOK
    <3>2. CASE ~(k = q /\ r = q)
      <4>1. OnRide(k, r)
        BY <2>1, <2>4, <3>2 DEF OnRide, PrimaryAssignment, RideTypeOK
      <4>2. r # q
        BY <2>3, <4>1
      <4>3. ride'[r] = ride[r] /\ passenger'[r] = passenger[r]
        BY <2>1, <4>2 DEF RideTypeOK
      <4> QED BY <4>1, <4>3 DEF SeatsFit, SeatFits, ActiveRide
    <3> QED BY <3>1, <3>2
  <2> QED BY <2>4 DEF SeatsFit
<1>3. ASSUME NEW r \in Requests, NEW q \in Requests, attachRequestToRide(r, q, 0)
      PROVE  SeatsFit'
  <2> DEFINE seat == [request |-> q, status |-> "confirmed"]
  <2>1. /\ ride[r].status = "confirmed" /\ ~Aboard(r, q)
        /\ assignment' = [assignment EXCEPT ![q] = [ride |-> r, status |-> "confirmed"]]
        /\ passenger' = [passenger EXCEPT ![r][PersonOf[q]] = seat]
        /\ ride' = [ride EXCEPT ![r].reserved = @ + SeatsNeeded[q]]
    BY <1>3 DEF attachRequestToRide, reserveSeatForRequest
  <2>2. \A k \in Requests : ride'[k].status = ride[k].status
    BY <2>1, RideParts DEF RideTypeOK, RideRows
  <2>3. ASSUME NEW k \in Requests, NEW s \in Requests, OnRide(k, s)' PROVE SeatFits(k, s)'
    <3>1. CASE k = q
      <4>1. s = r
        BY <2>1, <2>3, <3>1 DEF OnRide, RideTypeOK
      <4>2. passenger'[r][PersonOf[q]] = seat
        BY <2>1, RequestFacts DEF RideTypeOK
      <4> QED BY <2>1, <2>2, <3>1, <4>1, <4>2, EndedAre DEF SeatFits, ActiveRide
    <3>2. CASE k # q
      <4>1. OnRide(k, s)
        BY <2>1, <2>3, <3>2 DEF OnRide, RideTypeOK
      <4>2. SeatFits(k, s)
        BY <4>1 DEF SeatsFit
      <4>3. s = r => PersonOf[k] # PersonOf[q]
        BY <2>1, <4>2 DEF Aboard, SeatFits
      <4>4. passenger'[s][PersonOf[k]] = passenger[s][PersonOf[k]]
        BY <2>1, <4>3, RequestFacts DEF RideTypeOK
      <4> QED BY <2>2, <4>2, <4>4 DEF SeatFits, ActiveRide
    <3> QED BY <3>1, <3>2
  <2> QED BY <2>3 DEF SeatsFit
<1>4. ASSUME NEW r \in Requests, NEW q \in Requests, removeRequestFromRide(r, q)
      PROVE  SeatsFit'
  <2>1. /\ assignment' = [assignment EXCEPT ![q].status = "cancelled"]
        /\ passenger' = PassengersOf(r, {q}, "cancelled")
        /\ ride' = [ride EXCEPT ![r].reserved = ReservedWithout(r, q)]
    BY <1>4 DEF removeRequestFromRide
  <2>2. \A k \in Requests : ride'[k].status = ride[k].status
    BY <2>1, RideParts DEF RideTypeOK, RideRows
  <2>3. ASSUME NEW k \in Requests, NEW s \in Requests, OnRide(k, s)' PROVE SeatFits(k, s)'
    <3>1. k # q
      BY <2>1, <2>3 DEF OnRide, RideTypeOK, AssignmentRows
    <3>2. OnRide(k, s)
      BY <2>1, <2>3, <3>1 DEF OnRide, RideTypeOK
    <3>3. SeatFits(k, s)
      BY <3>2 DEF SeatsFit
    <3>4. passenger[s][PersonOf[k]].request # q
      BY <3>1, <3>3 DEF SeatFits
    <3>5. passenger'[s][PersonOf[k]] = passenger[s][PersonOf[k]]
      BY <2>1, <3>4, RequestFacts DEF PassengersOf, RideTypeOK
    <3> QED BY <2>2, <3>3, <3>5 DEF SeatFits, ActiveRide
  <2> QED BY <2>3 DEF SeatsFit
<1>5. ASSUME NEW r \in Requests, UNCHANGED <<assignment, passenger>>,
             \/ ride'[r].status = ride[r].status
             \/ ride'[r].status \in {"driver_en_route", "arrived", "picked_up"},
             \A k \in Requests : k # r => ride'[k].status = ride[k].status
      PROVE  SeatsFit'
  BY <1>5, EndedAre DEF SeatsFit, SeatFits, OnRide, ActiveRide
<1>6. ASSUME NEW r \in Requests, NEW seats \in SeatChoices, updateRideSeats(r, seats, 0)
      PROVE  SeatsFit'
  <2>1. \A k \in Requests : ride'[k].status = ride[k].status
    BY <1>6, RideParts DEF updateRideSeats, RideTypeOK, RideRows
  <2> QED BY <1>5, <1>6, <2>1 DEF updateRideSeats
<1>7. ASSUME NEW r \in Requests, NEW to \in RideStatuses, AdvanceRide(r, to) PROVE SeatsFit'
  <2>1. ride'[r].status = to /\ \A k \in Requests : k # r => ride'[k].status = ride[k].status
    BY <1>7, RideParts DEF AdvanceRide, RideTypeOK, RideRows
  <2> QED BY <1>5, <1>7, <2>1 DEF AdvanceRide
<1>8. ASSUME NEW r \in Requests, CompleteRide(r) PROVE SeatsFit'
  <2>1. \A k \in Requests : k # r => ride'[k] = ride[k] /\ passenger'[k] = passenger[k]
    BY <1>8 DEF CompleteRide, RideTypeOK
  <2> QED BY <1>8, <2>1, SeatsAfterEnd DEF CompleteRide
<1>9. ASSUME NEW r \in Requests, NEW byDriver \in BOOLEAN, CancelRide(r, byDriver)
      PROVE  SeatsFit'
  <2>1. \A k \in Requests : k # r => ride'[k] = ride[k] /\ passenger'[k] = passenger[k]
    BY <1>9 DEF CancelRide, RideTypeOK, PassengersOf
  <2> QED BY <1>9, <2>1, SeatsAfterEnd DEF CancelRide, Affected
<1>10. ASSUME NEW r \in Requests, NoShowRide(r) PROVE SeatsFit'
  <2>1. PICK q \in Affected(r) : /\ assignment' = AssignmentsOf({q}, "no_show")
                                 /\ passenger' = PassengersOf(r, {q}, "no_show")
    BY <1>10 DEF NoShowRide
  <2>2. Carried(r) = {q}
    <3>1. IsFiniteSet(Carried(r))
      BY RequestsAssumption, FS_Subset DEF Carried
    <3>2. Cardinality(Carried(r)) <= 1
      BY <1>10 DEF NoShowRide, Affected, canEndPooledRideAsNoShow
    <3> QED BY <2>1, <3>1, <3>2, OnlyMember DEF Affected
  <2>3. \A k \in Requests : k # r => ride'[k] = ride[k] /\ passenger'[k] = passenger[k]
    BY <1>10, <2>1 DEF NoShowRide, RideTypeOK, PassengersOf
  <2> QED BY <2>1, <2>2, <2>3, SeatsAfterEnd
<1>11. CASE UNCHANGED rideVars
  BY <1>11, SeatsKept DEF rideVars
<1> QED BY <1>1, <1>2, <1>3, <1>4, <1>6, <1>7, <1>8, <1>9, <1>10, <1>11
        DEF RideNext, RequestStep, LifecycleStep, PoolingStep

\* A ride that has ended or does not exist carries nobody.
THEOREM NobodyLeftAboard == RideSpec => []EndedRideCarriesNobody
BY SeatsInit, SeatsStep, SeatsFitMeans, RideTypeCorrect, PTL DEF RideSpec

\* Assignments and passenger rows, written by separate statements, agree.
THEOREM SeatsHavePassengers == RideSpec => []SeatHasPassenger
BY SeatsInit, SeatsStep, SeatsFitMeans, RideTypeCorrect, PTL DEF RideSpec

-----------------------------------------------------------------------------
(* Requests and their offers *)

\* A request that has not been sent, or waits for its guardian, is untouched.
Waiting(q) == request[q].status = "none" \/ request[q].approval = "pending"
Untouched(q) ==
  /\ \A d \in Drivers : offer[q][d].status = "none"
  /\ \A x \in offering : x[1] # q
  /\ assignment[q] = [ride |-> None, status |-> "none"] /\ ride[q].status = "none"

WaitingUntouched ==
  \A q \in Requests : Waiting(q) => Untouched(q) /\ request[q].status \in {"none", "pending_approval"}

\* Only a minor's request is ever approved or denied.
MinorsAsk == \A x \in approving : x[1] \in Minors

\* An accepted offer has its ride.
AcceptedHasRide ==
  \A q \in Requests, d \in Drivers :
    offer[q][d].status = "accepted" => ride[q].status # "none" /\ ride[q].driver = d

RequestsInv == WaitingUntouched /\ MinorsAsk /\ AcceptedHasRide /\ SeatedIsMatched

LEMMA RequestsMean == RequestsInv => PendingIsUntouched /\ OneOfferAccepted /\ SeatedIsMatched
BY DEF RequestsInv, WaitingUntouched, Waiting, Untouched, AcceptedHasRide, PendingIsUntouched, OneOfferAccepted

LEMMA RequestsInit == RideInit => RequestsInv
BY DEF RideInit, NoRide, RequestsInv, WaitingUntouched, Waiting, Untouched, MinorsAsk, AcceptedHasRide, SeatedIsMatched

LEMMA StatusSet ==
  ASSUME RideTypeOK, NEW q \in Requests, NEW status
  PROVE  /\ [request[q] EXCEPT !.status = status].status = status
         /\ [request[q] EXCEPT !.status = status].approval = request[q].approval
         /\ \A d \in Drivers : /\ [offer[q][d] EXCEPT !.status = status].status = status
                               /\ [offer[q][d] EXCEPT !.status = offer[q][d].status] = offer[q][d]
<1>1. request[q] \in RequestRows /\ \A d \in Drivers : offer[q][d] \in OfferRows
  BY DEF RideTypeOK
<1> QED BY <1>1 DEF RequestRows, OfferRows

\* Steps that leave offers alone, touch no request that waits, and seat nobody.
LEMMA RequestsKept ==
  ASSUME RequestsInv, approving' \subseteq approving, UNCHANGED offering,
         \A q \in Requests, d \in Drivers : offer'[q][d].status \in {offer[q][d].status, "withdrawn", "declined"}
                                           /\ (offer[q][d].status = "none" => offer'[q][d] = offer[q][d]),
         \A k \in Requests : ride'[k].driver = ride[k].driver /\ (ride'[k].status = "none" <=> ride[k].status = "none"),
         \A k \in Requests : /\ Waiting(k)' => Waiting(k) /\ request'[k] = request[k] /\ assignment'[k] = assignment[k]
                             /\ assignment'[k].status = "confirmed" =>
                                  assignment[k].status = "confirmed" /\ (request'[k] = request[k] \/ k \in Minors)
  PROVE  RequestsInv'
<1>1. WaitingUntouched'
  BY DEF RequestsInv, WaitingUntouched, Waiting, Untouched
<1>2. MinorsAsk'
  BY DEF RequestsInv, MinorsAsk
<1>3. AcceptedHasRide'
  BY DEF RequestsInv, AcceptedHasRide
<1>4. SeatedIsMatched'
  BY DEF RequestsInv, SeatedIsMatched
<1> QED BY <1>1, <1>2, <1>3, <1>4 DEF RequestsInv

\* The end of a ride: those it carried lose their seats.
LEMMA RequestsAfterEnd ==
  ASSUME RideTypeOK, RequestsInv, UNCHANGED <<approving, offering>>, NEW r \in Requests, ActiveRide(r),
         \A q \in Requests, d \in Drivers : offer'[q][d].status \in {offer[q][d].status, "withdrawn", "declined"}
                                           /\ (offer[q][d].status = "none" => offer'[q][d] = offer[q][d]),
         \A k \in Requests : k # r => ride'[k] = ride[k],
         ride'[r].driver = ride[r].driver, ride'[r].status # "none",
         NEW status \in {"cancelled", "completed", "no_show"}, assignment' = AssignmentsOf(Carried(r), status),
         \A k \in Requests : \/ request'[k] = request[k]
                             \/ /\ assignment[k].ride = r
                                /\ request'[k].approval = request[k].approval /\ request'[k].status # "none"
                                /\ assignment[k].status = "confirmed" => k \in Carried(r)
  PROVE  RequestsInv'
<1>1. \A k \in Requests : Waiting(k) => assignment[k].ride # r
  BY RequestFacts DEF RequestsInv, WaitingUntouched, Untouched
<1>2. \A k \in Requests : Waiting(k)' => Waiting(k) /\ request'[k] = request[k]
  BY <1>1 DEF Waiting
<1>3. \A k \in Requests : Waiting(k) => assignment'[k] = assignment[k]
  BY DEF RequestsInv, WaitingUntouched, Untouched, AssignmentsOf, Carried, OnRide
<1>4. ASSUME NEW k \in Requests, assignment'[k].status = "confirmed"
      PROVE  assignment[k].status = "confirmed" /\ request'[k] = request[k]
  <2>1. k \notin Carried(r)
    BY <1>4 DEF AssignmentsOf, RideTypeOK, AssignmentRows
  <2> QED BY <1>4, <2>1 DEF AssignmentsOf
<1>5. ride[r].status # "none"
  BY DEF ActiveRide
<1> QED BY <1>2, <1>3, <1>4, <1>5, RequestsKept

LEMMA RequestsStep == RideTypeOK /\ RequestsInv /\ [RideNext]_rideVars => RequestsInv'
<1> SUFFICES ASSUME RideTypeOK, RequestsInv, [RideNext]_rideVars PROVE RequestsInv'
  OBVIOUS
<1>1. ASSUME UNCHANGED <<request, offer, ride, assignment, approving, offering>> PROVE RequestsInv'
  BY <1>1, RequestsKept DEF Waiting
<1>2. ASSUME NEW q \in Requests, createRideRequest(q) PROVE RequestsInv'
  <2>1. PICK approval \in guardianApprovalFor(q) : request' = [request EXCEPT ![q] = NewRequest(approval)]
    BY <1>2 DEF createRideRequest
  <2>2. UNCHANGED <<offer, ride, assignment, approving, offering>> /\ Waiting(q) /\ Untouched(q)
    BY <1>2 DEF createRideRequest, RequestsInv, WaitingUntouched, Waiting
  <2>3. request'[q].status \in {"open", "pending_approval"} /\ (request'[q].approval = "pending" => request'[q].status = "pending_approval")
    BY <2>1 DEF NewRequest, RideTypeOK
  <2>4. \A k \in Requests : k # q => request'[k] = request[k]
    BY <2>1 DEF RideTypeOK
  <2>5. WaitingUntouched'
    BY <2>2, <2>3, <2>4 DEF RequestsInv, WaitingUntouched, Waiting, Untouched
  <2>6. SeatedIsMatched'
    BY <2>2, <2>4 DEF RequestsInv, SeatedIsMatched, Untouched
  <2> QED BY <2>2, <2>5, <2>6 DEF RequestsInv, MinorsAsk, AcceptedHasRide
<1>3. ASSUME NEW q \in Requests, NEW approve \in BOOLEAN, ReadForApproval(q, approve) PROVE RequestsInv'
  BY <1>3 DEF ReadForApproval, RequestsInv, WaitingUntouched, Waiting, Untouched, MinorsAsk, AcceptedHasRide, SeatedIsMatched
<1>4. ASSUME NEW q \in Requests, NEW approve \in BOOLEAN, approveRideRequest(q, approve) PROVE RequestsInv'
  <2>1. /\ UNCHANGED <<offer, ride, assignment, offering>> /\ approving' \subseteq approving /\ q \in Minors
        /\ \A k \in Requests : k # q => request'[k] = request[k]
        /\ request'[q].status \in {"open", "cancelled"} /\ request'[q].approval \in {"approved", "denied"}
    BY <1>4 DEF approveRideRequest, RideTypeOK, RequestsInv, MinorsAsk
  <2> QED BY <2>1, RequestsKept DEF Waiting
<1>5. ASSUME NEW q \in Requests, NEW d \in Drivers, NEW seats \in SeatChoices, ReadForOffer(q, d, seats) PROVE RequestsInv'
  <2>1. UNCHANGED <<request, offer, ride, assignment, approving>> /\ offering' = offering \cup {<<q, d, seats>>} /\ ~Waiting(q)
    BY <1>5 DEF ReadForOffer, OpenForOffers, Waiting
  <2> QED BY <2>1 DEF RequestsInv, WaitingUntouched, Waiting, Untouched, MinorsAsk, AcceptedHasRide, SeatedIsMatched
<1>6. ASSUME NEW q \in Requests, NEW d \in Drivers, NEW seats \in SeatChoices, createRideOffer(q, d, seats) PROVE RequestsInv'
  <2>1. /\ UNCHANGED <<request, ride, assignment, approving>> /\ offering' \subseteq offering
        /\ offer' = [offer EXCEPT ![q][d] = [status |-> "offered", seats |-> seats]]
    BY <1>6 DEF createRideOffer
  <2>2. ~Waiting(q)
    BY <1>6 DEF createRideOffer, RequestsInv, WaitingUntouched, Untouched
  <2>3. \A k \in Requests, e \in Drivers : offer'[k][e] = offer[k][e] \/ (k = q /\ offer'[k][e].status = "offered")
    BY <2>1 DEF RideTypeOK
  <2>4. WaitingUntouched'
    BY <2>1, <2>2, <2>3 DEF RequestsInv, WaitingUntouched, Waiting, Untouched
  <2>5. AcceptedHasRide'
    BY <2>1, <2>3 DEF RequestsInv, AcceptedHasRide
  <2> QED BY <2>1, <2>4, <2>5 DEF RequestsInv, MinorsAsk, SeatedIsMatched
<1>7. ASSUME NEW q \in Requests, NEW d \in Drivers, acceptRideOffer(q, d) PROVE RequestsInv'
  <2>1. /\ request[q].status = "open" /\ offer[q][d].status = "offered" /\ ride[q].status = "none"
        /\ ride' = [ride EXCEPT ![q] = PooledRide(q, d)] /\ assignment' = PrimaryAssignment(q)
        /\ request' = [request EXCEPT ![q].status = "matched"] /\ UNCHANGED <<approving, offering>>
    BY <1>7 DEF acceptRideOffer, MayAccept
  <2>2. \A k \in Requests : k # q => ride'[k] = ride[k] /\ assignment'[k] = assignment[k] /\ request'[k] = request[k]
    BY <2>1 DEF RideTypeOK, PrimaryAssignment
  <2>3. ride'[q].status = "confirmed" /\ ride'[q].driver = d
    BY <2>1 DEF RideTypeOK, PooledRide
  <2>4. request'[q].status = "matched" /\ request'[q].approval = request[q].approval
    BY <2>1, RequestWith DEF RideTypeOK, RequestRows
  <2>5. ~Waiting(q)
    BY <2>1 DEF RequestsInv, WaitingUntouched, Waiting
  <2>6. ~Waiting(q)'
    BY <2>4, <2>5 DEF Waiting
  <2>7. \A k \in Requests : k # q => offer'[k] = offer[k]
    BY <1>7 DEF acceptRideOffer, RideTypeOK
  <2>8. \A e \in Drivers : offer'[q][e].status = "accepted" => e = d
    <3>1. \A e \in Drivers : offer[q][e].status # "accepted"
      BY <2>1 DEF RequestsInv, AcceptedHasRide
    <3>2. \A e \in Drivers : offer'[q][e] = IF offer[q][e].status = "offered"
                                            THEN [offer[q][e] EXCEPT !.status = IF e = d THEN "accepted" ELSE "declined"]
                                            ELSE offer[q][e]
      BY <1>7 DEF acceptRideOffer, RideTypeOK
    <3> QED BY <3>1, <3>2, OfferParts DEF OfferRows
  <2>9. WaitingUntouched'
    BY <2>1, <2>2, <2>6, <2>7 DEF RequestsInv, WaitingUntouched, Waiting, Untouched
  <2>10. AcceptedHasRide'
    BY <2>2, <2>3, <2>7, <2>8 DEF RequestsInv, AcceptedHasRide
  <2>11. SeatedIsMatched'
    BY <2>2, <2>4 DEF RequestsInv, SeatedIsMatched
  <2> QED BY <2>1, <2>9, <2>10, <2>11 DEF RequestsInv, MinorsAsk
<1>8. ASSUME NEW r \in Requests, NEW q \in Requests, attachRequestToRide(r, q, 0) PROVE RequestsInv'
  <2>1. /\ request[q].status = "open" /\ request[q].approval # "pending" /\ UNCHANGED <<offer, approving, offering>>
        /\ assignment' = [assignment EXCEPT ![q] = [ride |-> r, status |-> "confirmed"]]
        /\ ride' = [ride EXCEPT ![r].reserved = @ + SeatsNeeded[q]]
        /\ request' = [request EXCEPT ![q].status = "matched"]
    BY <1>8 DEF attachRequestToRide, reserveSeatForRequest, Match
  <2>2. \A k \in Requests : k # q => assignment'[k] = assignment[k] /\ request'[k] = request[k]
    BY <2>1 DEF RideTypeOK
  <2>3. request'[q].status = "matched" /\ request'[q].approval = request[q].approval
    BY <2>1, RequestWith DEF RideTypeOK, RequestRows
  <2>4. \A k \in Requests : ride'[k].status = ride[k].status /\ ride'[k].driver = ride[k].driver
    BY <2>1, RideParts DEF RideTypeOK, RideRows
  <2>5. WaitingUntouched'
    BY <2>1, <2>2, <2>3, <2>4 DEF RequestsInv, WaitingUntouched, Waiting, Untouched
  <2>6. AcceptedHasRide'
    BY <2>1, <2>4 DEF RequestsInv, AcceptedHasRide
  <2>7. SeatedIsMatched'
    BY <2>2, <2>3 DEF RequestsInv, SeatedIsMatched
  <2> QED BY <2>1, <2>5, <2>6, <2>7 DEF RequestsInv, MinorsAsk
<1>9. ASSUME NEW r \in Requests, NEW q \in Requests, removeRequestFromRide(r, q) PROVE RequestsInv'
  <2>1. /\ assignment[q].status = "confirmed" /\ UNCHANGED <<offer, approving, offering>>
        /\ assignment' = [assignment EXCEPT ![q].status = "cancelled"]
        /\ ride' = [ride EXCEPT ![r].reserved = ReservedWithout(r, q)]
        /\ request' = [request EXCEPT ![q].status = "open"]
    BY <1>9 DEF removeRequestFromRide, MayRemove, OnRide
  <2>2. \A k \in Requests : k # q => assignment'[k] = assignment[k] /\ request'[k] = request[k]
    BY <2>1 DEF RideTypeOK
  <2>3. request'[q].status = "open" /\ request'[q].approval = request[q].approval /\ assignment'[q].status = "cancelled"
    BY <2>1, RequestWith DEF RideTypeOK, RequestRows, AssignmentRows
  <2>4. \A k \in Requests : ride'[k].status = ride[k].status /\ ride'[k].driver = ride[k].driver
    BY <2>1, RideParts DEF RideTypeOK, RideRows
  <2>5. ~Waiting(q)
    BY <2>1 DEF RequestsInv, WaitingUntouched, Untouched
  <2>6. ~Waiting(q)'
    BY <2>3, <2>5 DEF Waiting
  <2> QED BY <2>1, <2>2, <2>3, <2>4, <2>6, RequestsKept DEF Waiting
<1>10. ASSUME NEW r \in Requests, UNCHANGED <<request, offer, assignment, approving, offering>>,
              \A k \in Requests : ride'[k].driver = ride[k].driver /\ (ride'[k].status = "none" <=> ride[k].status = "none")
       PROVE  RequestsInv'
  BY <1>10, RequestsKept DEF Waiting
<1>11. ASSUME NEW r \in Requests, NEW seats \in SeatChoices, updateRideSeats(r, seats, 0) PROVE RequestsInv'
  BY <1>10, <1>11, RideParts DEF updateRideSeats, RideTypeOK, RideRows
<1>12. ASSUME NEW r \in Requests, NEW to \in RideStatuses, AdvanceRide(r, to) PROVE RequestsInv'
  <2>1. ride[r].status # "none" /\ to # "none"
    BY <1>12, TransitionsLeave DEF AdvanceRide, MayTransition
  <2>2. \A k \in Requests : ride'[k].driver = ride[k].driver /\ ride'[k].status = IF k = r THEN to ELSE ride[k].status
    BY <1>12, RideParts DEF AdvanceRide, RideTypeOK, RideRows
  <2> QED BY <1>10, <1>12, <2>1, <2>2 DEF AdvanceRide
<1>13. ASSUME NEW r \in Requests, NEW to, canTransitionRide(ride[r].status, to) PROVE ActiveRide(r)
  BY <1>13, ActiveAre, TransitionsLeave
<1>14. ASSUME NEW r \in Requests, CompleteRide(r) PROVE RequestsInv'
  <2>1. /\ \A k \in Requests : k # r => ride'[k] = ride[k]
        /\ ride'[r].driver = ride[r].driver /\ ride'[r].status = "completed"
        /\ UNCHANGED <<offer, approving, offering>> /\ assignment' = AssignmentsOf(Carried(r), "completed") /\ ActiveRide(r)
    BY <1>13, <1>14, RideParts DEF CompleteRide, MayTransition, RideTypeOK, RideRows
  <2>2. \A k \in Requests : request'[k] = request[k] \/ (assignment[k].ride = r /\ request'[k] = [request[k] EXCEPT !.status = "completed"])
    BY <1>14 DEF CompleteRide
  <2>3. \A k \in Requests : \/ request'[k] = request[k]
                            \/ /\ assignment[k].ride = r
                               /\ request'[k].approval = request[k].approval /\ request'[k].status # "none"
                               /\ assignment[k].status = "confirmed" => k \in Carried(r)
    <3> SUFFICES ASSUME NEW k \in Requests, request'[k] # request[k]
                 PROVE  /\ assignment[k].ride = r
                        /\ request'[k].approval = request[k].approval /\ request'[k].status # "none"
                        /\ assignment[k].status = "confirmed" => k \in Carried(r)
      OBVIOUS
    <3>1. assignment[k].ride = r /\ request'[k] = [request[k] EXCEPT !.status = "completed"]
      BY <2>2
    <3>2. request'[k].approval = request[k].approval /\ request'[k].status = "completed"
      BY <3>1, StatusSet
    <3>3. assignment[k].status = "confirmed" => k \in Carried(r)
      BY <3>1 DEF Carried, OnRide, RideTypeOK, AssignmentRows
    <3> QED BY <3>1, <3>2, <3>3
  <2> QED BY <2>1, <2>3, RequestsAfterEnd
<1>15. ASSUME NEW r \in Requests, NEW byDriver \in BOOLEAN, CancelRide(r, byDriver) PROVE RequestsInv'
  <2>1. /\ \A k \in Requests : k # r => ride'[k] = ride[k]
        /\ ride'[r].driver = ride[r].driver /\ ride'[r].status = "cancelled"
        /\ UNCHANGED <<approving, offering>> /\ assignment' = AssignmentsOf(Carried(r), "cancelled") /\ ActiveRide(r)
    BY <1>13, <1>15, RideParts DEF CancelRide, Affected, MayTransition, RideTypeOK, RideRows
  <2>2. \A k \in Requests : \/ request'[k] = request[k]
                            \/ k \in Carried(r) /\ \E status \in {"open", "cancelled"} : request'[k] = [request[k] EXCEPT !.status = status]
    BY <1>15 DEF CancelRide, Affected, requestStatusAfterRideCancellation
  <2>3. \A k \in Requests : \/ request'[k] = request[k]
                            \/ /\ assignment[k].ride = r
                               /\ request'[k].approval = request[k].approval /\ request'[k].status # "none"
                               /\ assignment[k].status = "confirmed" => k \in Carried(r)
    <3> SUFFICES ASSUME NEW k \in Requests, request'[k] # request[k]
                 PROVE  /\ assignment[k].ride = r /\ k \in Carried(r)
                        /\ request'[k].approval = request[k].approval /\ request'[k].status # "none"
      OBVIOUS
    <3>1. PICK status \in {"open", "cancelled"} : request'[k] = [request[k] EXCEPT !.status = status]
      BY <2>2
    <3>2. request'[k].approval = request[k].approval /\ request'[k].status = status
      BY <3>1, StatusSet
    <3>3. k \in Carried(r)
      BY <2>2
    <3>4. assignment[k].ride = r
      BY <3>3 DEF Carried, OnRide
    <3> QED BY <3>2, <3>3, <3>4
  <2>4. \A q \in Requests, d \in Drivers : offer'[q][d].status \in {offer[q][d].status, "withdrawn", "declined"}
                                           /\ (offer[q][d].status = "none" => offer'[q][d] = offer[q][d])
    <3>1. \A q \in Requests, d \in Drivers : q # r \/ d # ride[r].driver => offer'[q][d] = offer[q][d]
      BY <1>15 DEF CancelRide, RideTypeOK
    <3>2. ASSUME NEW d \in Drivers, d = ride[r].driver
          PROVE  \/ offer'[r][d] = offer[r][d]
                 \/ offer[r][d].status = "accepted" /\ offer'[r][d].status \in {"withdrawn", "declined"}
      <4> DEFINE now == IF offer[r][d].status = "accepted" THEN (IF byDriver THEN "withdrawn" ELSE "declined")
                                                           ELSE offer[r][d].status
      <4>1. offer'[r][d] = [offer[r][d] EXCEPT !.status = now]
        BY <1>15, <3>2 DEF CancelRide, RideTypeOK
      <4>2. offer'[r][d].status = now
        BY <4>1, StatusSet
      <4>3. offer[r][d].status # "accepted" => offer'[r][d] = offer[r][d]
        BY <4>1, StatusSet
      <4> QED BY <4>2, <4>3
    <3>3. ASSUME NEW q \in Requests, NEW d \in Drivers
          PROVE  /\ offer'[q][d].status \in {offer[q][d].status, "withdrawn", "declined"}
                 /\ offer[q][d].status = "none" => offer'[q][d] = offer[q][d]
      <4>1. CASE q # r \/ d # ride[r].driver
        BY <3>1, <4>1
      <4>2. CASE q = r /\ d = ride[r].driver
        BY <3>2, <4>2
      <4> QED BY <4>1, <4>2
    <3> QED BY <3>3
  <2> QED BY <2>1, <2>3, <2>4, RequestsAfterEnd
<1>16. ASSUME NEW r \in Requests, NoShowRide(r) PROVE RequestsInv'
  <2>1. PICK q \in Carried(r) : assignment' = AssignmentsOf({q}, "no_show") /\ request' = [request EXCEPT ![q].status = "cancelled"]
    BY <1>16 DEF NoShowRide, Affected
  <2>2. Carried(r) = {q} /\ assignment[q].ride = r
    <3>1. IsFiniteSet(Carried(r)) /\ Cardinality(Carried(r)) <= 1
      BY <1>16, RequestsAssumption, FS_Subset DEF NoShowRide, Affected, canEndPooledRideAsNoShow, Carried
    <3> QED BY <2>1, <3>1, OnlyMember DEF Carried, OnRide
  <2>3. /\ \A k \in Requests : k # r => ride'[k] = ride[k]
        /\ ride'[r].driver = ride[r].driver /\ ride'[r].status = "no_show"
        /\ UNCHANGED <<offer, approving, offering>> /\ ActiveRide(r)
    BY <1>13, <1>16, RideParts DEF NoShowRide, MayTransition, RideTypeOK, RideRows
  <2>4. \A k \in Requests : k # q => request'[k] = request[k]
    BY <2>1 DEF RideTypeOK
  <2>5. request'[q].approval = request[q].approval /\ request'[q].status = "cancelled"
    BY <2>1, <2>2, RequestWith DEF RequestRows, Carried, RideTypeOK
  <2> QED BY <2>1, <2>2, <2>3, <2>4, <2>5, RequestsAfterEnd
<1>17. CASE UNCHANGED rideVars
  BY <1>1, <1>17 DEF rideVars
<1> QED BY <1>2, <1>3, <1>4, <1>5, <1>6, <1>7, <1>8, <1>9, <1>11, <1>12, <1>14, <1>15, <1>16, <1>17
        DEF RideNext, RequestStep, LifecycleStep, PoolingStep

\* A request collects no offer and no seat before its guardian has answered.
THEOREM PendingCorrect == RideSpec => []PendingIsUntouched
BY RequestsInit, RequestsStep, RequestsMean, RideTypeCorrect, PTL DEF RideSpec

\* One offer of a request is accepted, and by its acceptance the ride is its driver's.
THEOREM OfferCorrect == RideSpec => []OneOfferAccepted
BY RequestsInit, RequestsStep, RequestsMean, RideTypeCorrect, PTL DEF RideSpec

\* Where no guardian answers late, who is seated has a matched request.
THEOREM SeatedCorrect == RideSpec => []SeatedIsMatched
BY RequestsInit, RequestsStep, RequestsMean, RideTypeCorrect, PTL DEF RideSpec

\* Seats, passenger rows and rides agree whatever handlers interleave
\* (lib/carpool.ts, lib/ride-lifecycle.ts).
THEOREM AboardCorrect == RideSpec => []SeatedIsAboard
<1>1. SeatHasPassenger /\ EndedRideCarriesNobody => SeatedIsAboard
  BY DEF SeatedIsAboard
<1> QED BY <1>1, SeatsHavePassengers, NobodyLeftAboard, PTL

\* A request's status and its seats and offers agree (api/rides).
THEOREM FollowCorrect == RideSpec => []SeatsFollowRequests
<1>1. PendingIsUntouched /\ SeatedIsMatched => SeatsFollowRequests
  BY DEF SeatsFollowRequests
<1> QED BY <1>1, PendingCorrect, SeatedCorrect, PTL

-----------------------------------------------------------------------------
(* The counter of a ride is the sum of the seats it carries, and the tables  *)
(* implement the ledger of seats, for any number of requests.                *)

(* Counting seats *)

LEMMA SeatsFinite ==
  ASSUME NEW Q \in SUBSET Requests
  PROVE  IsFiniteSet(Seats(Q)) /\ SeatsOf(Q) \in Nat
<1>1. IsFiniteSet(1..12)
  <2>1. 1 \in Int /\ 12 \in Int
    OBVIOUS
  <2> QED BY <2>1, FS_Interval, Zenon
<1>2. IsFiniteSet(Requests \X (1..12))
  BY <1>1, RequestsAssumption, FS_Product
<1>3. Seats(Q) \in SUBSET (Requests \X (1..12))
  BY RequestFacts DEF Seats
<1>4. IsFiniteSet(Seats(Q))
  BY <1>2, <1>3, FS_Subset
<1> QED BY <1>4, FS_CardinalityType DEF SeatsOf

LEMMA SeatsOfOne ==
  ASSUME NEW q \in Requests
  PROVE  SeatsOf({q}) = SeatsNeeded[q]
<1>1. IsFiniteSet({q}) /\ Cardinality({q}) = 1
  BY FS_Singleton
<1>2. SeatsNeeded[q] \in 1..12
  BY RequestFacts
<1>3. IsFiniteSet(1..SeatsNeeded[q]) /\ Cardinality(1..SeatsNeeded[q]) = SeatsNeeded[q]
  BY <1>2, FS_Interval
<1>4. Cardinality({q} \X (1..SeatsNeeded[q])) = 1 * SeatsNeeded[q]
  BY <1>1, <1>3, FS_Product
<1>5. Seats({q}) = {q} \X (1..SeatsNeeded[q])
  BY DEF Seats
<1> QED BY <1>2, <1>4, <1>5 DEF SeatsOf

LEMMA SeatsOfMore ==
  ASSUME NEW Q \in SUBSET Requests, NEW q \in Requests, q \notin Q
  PROVE  SeatsOf(Q \cup {q}) = SeatsOf(Q) + SeatsNeeded[q]
<1>1. Seats(Q \cup {q}) = Seats(Q) \cup Seats({q})
  BY DEF Seats
<1>2. Seats(Q) \cap Seats({q}) = {}
  BY DEF Seats
<1>3. IsFiniteSet(Seats(Q)) /\ IsFiniteSet(Seats({q})) /\ SeatsOf(Q) \in Nat /\ SeatsOf({q}) \in Nat
  BY SeatsFinite
<1>4. SeatsOf(Q \cup {q}) = SeatsOf(Q) + SeatsOf({q}) - Cardinality({})
  BY <1>1, <1>2, <1>3, FS_Union DEF SeatsOf
<1>5. Cardinality({}) = 0
  BY FS_EmptySet
<1>6. SeatsOf({q}) = SeatsNeeded[q]
  BY SeatsOfOne
<1> QED BY <1>3, <1>4, <1>5, <1>6

-----------------------------------------------------------------------------
(* Whom a step leaves aboard *)

LEMMA CarriedIn == \A r \in Requests : Carried(r) \subseteq Requests
BY DEF Carried

LEMMA CarriedSame ==
  ASSUME assignment' = assignment
  PROVE  \A k \in Requests : Carried(k)' = Carried(k)
BY DEF Carried, OnRide

LEMMA CarriedMatched ==
  ASSUME RideTypeOK, EndedRideCarriesNobody, NEW q \in Requests, NEW d \in Drivers, acceptRideOffer(q, d)
  PROVE  /\ Carried(q) = {} /\ Carried(q)' \in {{}, {q}}
         /\ \A k \in Requests : k # q => Carried(k)' = Carried(k)
         /\ Carried(q)' = {q} => \A k \in Requests : q \notin Carried(k)
<1>1. ride[q].status = "none" /\ assignment' = PrimaryAssignment(q)
  BY DEF acceptRideOffer, MayAccept
<1>2. Carried(q) = {}
  BY <1>1 DEF EndedRideCarriesNobody, ActiveRide
<1>3. CASE assignment[q].status = "none"
  <2>1. assignment' = [assignment EXCEPT ![q] = [ride |-> q, status |-> "confirmed"]]
    BY <1>1, <1>3 DEF PrimaryAssignment
  <2>2. \A k \in Requests : q \notin Carried(k)
    BY <1>3 DEF Carried, OnRide
  <2>3. \A k, p \in Requests : OnRide(p, k)' <=> (p = q /\ k = q) \/ (p # q /\ OnRide(p, k))
    BY <2>1 DEF OnRide, RideTypeOK
  <2> QED BY <1>2, <2>2, <2>3 DEF Carried
<1>4. CASE assignment[q].status # "none"
  BY <1>1, <1>2, <1>4, CarriedSame DEF PrimaryAssignment
<1> QED BY <1>3, <1>4

LEMMA CarriedReserved ==
  ASSUME RideTypeOK, NEW r \in Requests, NEW q \in Requests, reserveSeatForRequest(r, q)
  PROVE  /\ Carried(r)' = Carried(r) \cup {q}
         /\ \A k \in Requests : q \notin Carried(k) /\ (k # r => Carried(k)' = Carried(k))
<1>1. /\ assignment[q].status \in {"none", "cancelled"}
      /\ assignment' = [assignment EXCEPT ![q] = [ride |-> r, status |-> "confirmed"]]
  BY DEF reserveSeatForRequest, Assignable
<1>2. \A k \in Requests : q \notin Carried(k)
  BY <1>1 DEF Carried, OnRide
<1>3. \A k, p \in Requests : OnRide(p, k)' <=> (p = q /\ k = r) \/ (p # q /\ OnRide(p, k))
  BY <1>1 DEF OnRide, RideTypeOK
<1> QED BY <1>2, <1>3 DEF Carried

LEMMA CarriedPooled ==
  ASSUME RideTypeOK, NEW r \in Requests, NEW q \in Requests, attachRequestToRide(r, q, 0)
  PROVE  /\ Carried(r)' = Carried(r) \cup {q}
         /\ \A k \in Requests : q \notin Carried(k) /\ (k # r => Carried(k)' = Carried(k))
BY CarriedReserved DEF attachRequestToRide

LEMMA CarriedRemoved ==
  ASSUME RideTypeOK, NEW r \in Requests, NEW q \in Requests, removeRequestFromRide(r, q)
  PROVE  /\ q # r /\ q \in Carried(r) /\ Carried(r)' = Carried(r) \ {q}
         /\ \A k \in Requests : k # r => Carried(k)' = Carried(k)
<1>1. q # r /\ OnRide(q, r) /\ assignment' = [assignment EXCEPT ![q].status = "cancelled"]
  BY DEF removeRequestFromRide, MayRemove
<1>2. \A k, p \in Requests : OnRide(p, k)' <=> p # q /\ OnRide(p, k)
  BY <1>1 DEF OnRide, RideTypeOK, AssignmentRows
<1>3. \A k \in Requests : k # r => q \notin Carried(k)
  BY <1>1, RequestFacts DEF Carried, OnRide
<1> QED BY <1>1, <1>2, <1>3 DEF Carried

LEMMA CarriedEnded ==
  ASSUME RideTypeOK, NEW r \in Requests, NEW Q, Q = Carried(r),
         NEW status \in {"cancelled", "completed", "no_show"}, assignment' = AssignmentsOf(Q, status)
  PROVE  Carried(r)' = {} /\ \A k \in Requests : k # r => Carried(k)' = Carried(k)
<1>1. \A p \in Requests : assignment'[p] = IF p \in Carried(r) THEN [assignment[p] EXCEPT !.status = status] ELSE assignment[p]
  BY DEF AssignmentsOf
<1>2. \A p \in Requests : assignment[p] \in AssignmentRows
  BY DEF RideTypeOK
<1>3. \A k, p \in Requests : OnRide(p, k)' <=> p \notin Carried(r) /\ OnRide(p, k)
  <2> SUFFICES ASSUME NEW k \in Requests, NEW p \in Requests
               PROVE  OnRide(p, k)' <=> p \notin Carried(r) /\ OnRide(p, k)
    OBVIOUS
  <2>1. CASE p \in Carried(r)
    <3>1. assignment'[p].status = status
      BY <1>1, <1>2, <2>1 DEF AssignmentRows
    <3> QED BY <2>1, <3>1 DEF OnRide
  <2>2. CASE p \notin Carried(r)
    BY <1>1, <2>2 DEF OnRide
  <2> QED BY <2>1, <2>2
<1>4. \A k \in Requests : k # r => Carried(k) \cap Carried(r) = {}
  BY DEF Carried, OnRide
<1> QED BY <1>3, <1>4 DEF Carried

\* The one rider of a ride that ends as a no-show is all it carries.
LEMMA NoShowIsOfAll ==
  ASSUME RideTypeOK, NEW r \in Requests, NEW q \in Carried(r),
         Cardinality(Carried(r)) <= 1
  PROVE  Carried(r) = {q}
<1>1. IsFiniteSet(Carried(r))
  BY RequestsAssumption, FS_Subset DEF Carried
<1> QED BY <1>1, OnlyMember

-----------------------------------------------------------------------------
(* The counter is the sum of the seats *)

\* The rider a ride was opened for keeps the passenger row, even where the
\* assignment row was left on another ride: nobody can be pooled over it.
PrimaryHasPassenger ==
  \A r \in Requests : ActiveRide(r) => passenger[r][PersonOf[r]] = [request |-> r, status |-> "confirmed"]

SeatsInv == RideTypeOK /\ SeatsFit /\ PrimaryHasPassenger /\ SeatsAccounted

LEMMA AccountInit == RideInit => PrimaryHasPassenger /\ SeatsAccounted
BY DEF RideInit, NoRide, PrimaryHasPassenger, SeatsAccounted, ActiveRide

\* A step that leaves to every active ride its counter, riders and passengers.
LEMMA AccountKept ==
  ASSUME PrimaryHasPassenger, SeatsAccounted,
         \A k \in Requests : ActiveRide(k)' => /\ ActiveRide(k) /\ ride'[k].reserved = ride[k].reserved
                                               /\ passenger'[k] = passenger[k] /\ Carried(k)' = Carried(k)
  PROVE  PrimaryHasPassenger' /\ SeatsAccounted'
BY DEF PrimaryHasPassenger, SeatsAccounted, SeatsOf, Seats

\* The same of all rides but one, of which it is shown apart.
LEMMA AccountOfOne ==
  ASSUME PrimaryHasPassenger, SeatsAccounted, NEW r \in Requests,
         \A k \in Requests : k # r => ride'[k] = ride[k] /\ passenger'[k] = passenger[k] /\ Carried(k)' = Carried(k),
         passenger'[r][PersonOf[r]] = [request |-> r, status |-> "confirmed"],
         ride'[r].reserved = SeatsOf(Carried(r)' \cup {r})
  PROVE  PrimaryHasPassenger' /\ SeatsAccounted'
BY DEF PrimaryHasPassenger, SeatsAccounted, SeatsOf, Seats, ActiveRide

\* A ride that is over has no account.
LEMMA AccountClosed ==
  ASSUME RideTypeOK, PrimaryHasPassenger, SeatsAccounted, NEW r \in Requests,
         NEW status \in {"cancelled", "completed", "no_show"}, ride'[r].status = status,
         \A k \in Requests : k # r => ride'[k] = ride[k] /\ passenger'[k] = passenger[k],
         assignment' = AssignmentsOf(Carried(r), status)
  PROVE  PrimaryHasPassenger' /\ SeatsAccounted'
<1>1. \A k \in Requests : k # r => Carried(k)' = Carried(k)
  BY CarriedEnded
<1>2. ~ActiveRide(r)'
  BY EndedAre DEF ActiveRide
<1> QED BY <1>1, <1>2, AccountKept DEF ActiveRide

LEMMA AccountStep == SeatsInv /\ [RideNext]_rideVars => PrimaryHasPassenger' /\ SeatsAccounted'
<1> SUFFICES ASSUME SeatsInv, [RideNext]_rideVars PROVE PrimaryHasPassenger' /\ SeatsAccounted'
  OBVIOUS
<1> USE DEF SeatsInv
<1>1. ASSUME UNCHANGED <<ride, assignment, passenger>> PROVE PrimaryHasPassenger' /\ SeatsAccounted'
  BY <1>1, CarriedSame, AccountKept DEF ActiveRide
<1>2. ASSUME NEW q \in Requests, RequestStep(q), \A d \in Drivers : ~acceptRideOffer(q, d)
      PROVE  PrimaryHasPassenger' /\ SeatsAccounted'
  BY <1>1, <1>2 DEF RequestStep, createRideRequest, ReadForApproval, approveRideRequest, ReadForOffer, createRideOffer
<1>3. ASSUME NEW q \in Requests, NEW d \in Drivers, acceptRideOffer(q, d) PROVE PrimaryHasPassenger' /\ SeatsAccounted'
  <2>1. /\ ride' = [ride EXCEPT ![q] = PooledRide(q, d)]
        /\ passenger' = [passenger EXCEPT ![q][PersonOf[q]] = [request |-> q, status |-> "confirmed"]]
    BY <1>3 DEF acceptRideOffer
  <2>2. \A k \in Requests : k # q => ride'[k] = ride[k] /\ passenger'[k] = passenger[k] /\ Carried(k)' = Carried(k)
    BY <1>3, <2>1, SeatsFitMeans, CarriedMatched DEF RideTypeOK
  <2>3. passenger'[q][PersonOf[q]] = [request |-> q, status |-> "confirmed"]
    BY <2>1, RequestFacts DEF RideTypeOK
  <2>4. ride'[q].reserved = SeatsNeeded[q]
    BY <2>1 DEF PooledRide, RideTypeOK
  <2>5. Carried(q)' \cup {q} = {q}
    BY <1>3, SeatsFitMeans, CarriedMatched
  <2> QED BY <2>2, <2>3, <2>4, <2>5, SeatsOfOne, AccountOfOne
<1>4. ASSUME NEW r \in Requests, NEW q \in Requests, attachRequestToRide(r, q, 0)
      PROVE  PrimaryHasPassenger' /\ SeatsAccounted'
  <2>1. /\ ride[r].status = "confirmed" /\ ~Aboard(r, q)
        /\ passenger' = [passenger EXCEPT ![r][PersonOf[q]] = [request |-> q, status |-> "confirmed"]]
        /\ ride' = [ride EXCEPT ![r].reserved = @ + SeatsNeeded[q]]
    BY <1>4 DEF attachRequestToRide, reserveSeatForRequest
  <2>2. ActiveRide(r) /\ passenger[r][PersonOf[r]] = [request |-> r, status |-> "confirmed"]
    BY <2>1, ActiveAre DEF PrimaryHasPassenger
  <2>3. PersonOf[q] # PersonOf[r]
    BY <2>1, <2>2 DEF Aboard
  <2>4. \A k \in Requests : k # r => ride'[k] = ride[k] /\ passenger'[k] = passenger[k] /\ Carried(k)' = Carried(k)
    BY <1>4, <2>1, CarriedPooled DEF RideTypeOK
  <2>5. passenger'[r][PersonOf[r]] = [request |-> r, status |-> "confirmed"]
    BY <2>1, <2>2, <2>3, RequestFacts DEF RideTypeOK
  <2>6. ride'[r].reserved = ride[r].reserved + SeatsNeeded[q]
    BY <2>1, RideParts DEF RideTypeOK, RideRows
  <2>7. Carried(r)' \cup {r} = (Carried(r) \cup {r}) \cup {q} /\ q \notin Carried(r) \cup {r}
    BY <1>4, <2>3, CarriedPooled
  <2>8. SeatsOf(Carried(r)' \cup {r}) = SeatsOf(Carried(r) \cup {r}) + SeatsNeeded[q]
    BY <2>7, CarriedIn, SeatsOfMore
  <2> QED BY <2>2, <2>4, <2>5, <2>6, <2>8, AccountOfOne DEF SeatsAccounted
<1>5. ASSUME NEW r \in Requests, NEW q \in Requests, removeRequestFromRide(r, q)
      PROVE  PrimaryHasPassenger' /\ SeatsAccounted'
  <2>1. /\ ride[r].status = "confirmed"
        /\ passenger' = PassengersOf(r, {q}, "cancelled")
        /\ ride' = [ride EXCEPT ![r].reserved = ReservedWithout(r, q)]
    BY <1>5 DEF removeRequestFromRide, MayRemove
  <2>2. ActiveRide(r) /\ passenger[r][PersonOf[r]] = [request |-> r, status |-> "confirmed"]
    BY <2>1, ActiveAre DEF PrimaryHasPassenger
  <2>3. q # r /\ q \in Carried(r) /\ Carried(r)' = Carried(r) \ {q}
    BY <1>5, CarriedRemoved
  <2>4. \A k \in Requests : k # r => ride'[k] = ride[k] /\ passenger'[k] = passenger[k] /\ Carried(k)' = Carried(k)
    BY <1>5, <2>1, CarriedRemoved DEF RideTypeOK, PassengersOf
  <2>5. passenger'[r][PersonOf[r]] = [request |-> r, status |-> "confirmed"]
    BY <2>1, <2>2, <2>3, RequestFacts DEF RideTypeOK, PassengersOf
  <2>6. SeatsOf(Carried(r) \cup {r}) = SeatsOf(Carried(r)' \cup {r}) + SeatsNeeded[q]
    <3>1. Carried(r) \cup {r} = (Carried(r)' \cup {r}) \cup {q} /\ q \notin Carried(r)' \cup {r}
      BY <2>3
    <3>2. Carried(r)' \cup {r} \in SUBSET Requests
      BY <2>3, CarriedIn
    <3> QED BY <3>1, <3>2, SeatsOfMore
  <2>7. ride'[r].reserved = ReservedWithout(r, q)
    BY <2>1, RideParts DEF RideTypeOK, RideRows
  <2>8. SeatsOf(Carried(r)' \cup {r}) \in Nat /\ SeatsNeeded[q] \in Nat
    BY <2>3, CarriedIn, SeatsFinite, RequestFacts
  <2>9. ride[r].reserved = SeatsOf(Carried(r)' \cup {r}) + SeatsNeeded[q]
    BY <2>2, <2>6 DEF SeatsAccounted
  <2>10. ReservedWithout(r, q) = SeatsOf(Carried(r)' \cup {r})
    BY <2>8, <2>9 DEF ReservedWithout
  <2> QED BY <2>4, <2>5, <2>7, <2>10, AccountOfOne
<1>6. ASSUME NEW r \in Requests, NEW seats \in SeatChoices, updateRideSeats(r, seats, 0)
      PROVE  PrimaryHasPassenger' /\ SeatsAccounted'
  <2>1. \A k \in Requests : ride'[k].status = ride[k].status /\ ride'[k].reserved = ride[k].reserved
    BY <1>6, RideParts DEF updateRideSeats, RideTypeOK, RideRows
  <2> QED BY <1>6, <2>1, CarriedSame, AccountKept DEF updateRideSeats, ActiveRide
<1>7. ASSUME NEW r \in Requests, NEW to \in RideStatuses, AdvanceRide(r, to)
      PROVE  PrimaryHasPassenger' /\ SeatsAccounted'
  <2>1. \A k \in Requests : ride'[k].reserved = ride[k].reserved /\ (k # r => ride'[k].status = ride[k].status)
    BY <1>7, RideParts DEF AdvanceRide, RideTypeOK, RideRows
  <2>2. ActiveRide(r)
    BY <1>7, ActiveAre, TransitionsLeave DEF AdvanceRide, MayTransition
  <2> QED BY <1>7, <2>1, <2>2, CarriedSame, AccountKept DEF AdvanceRide, ActiveRide
<1>8. ASSUME NEW r \in Requests, CompleteRide(r) PROVE PrimaryHasPassenger' /\ SeatsAccounted'
  <2>1. ride'[r].status = "completed" /\ \A k \in Requests : k # r => ride'[k] = ride[k] /\ passenger'[k] = passenger[k]
    BY <1>8, RideParts DEF CompleteRide, RideTypeOK, RideRows
  <2> QED BY <1>8, <2>1, AccountClosed DEF CompleteRide
<1>9. ASSUME NEW r \in Requests, NEW byDriver \in BOOLEAN, CancelRide(r, byDriver)
      PROVE  PrimaryHasPassenger' /\ SeatsAccounted'
  <2>1. ride'[r].status = "cancelled" /\ \A k \in Requests : k # r => ride'[k] = ride[k] /\ passenger'[k] = passenger[k]
    BY <1>9, RideParts DEF CancelRide, RideTypeOK, RideRows, PassengersOf
  <2> QED BY <1>9, <2>1, AccountClosed DEF CancelRide, Affected
<1>10. ASSUME NEW r \in Requests, NoShowRide(r) PROVE PrimaryHasPassenger' /\ SeatsAccounted'
  <2>1. PICK q \in Carried(r) : /\ assignment' = AssignmentsOf({q}, "no_show")
                                /\ passenger' = PassengersOf(r, {q}, "no_show")
    BY <1>10 DEF NoShowRide, Affected
  <2>2. Carried(r) = {q}
    BY <1>10, NoShowIsOfAll DEF NoShowRide, Affected, canEndPooledRideAsNoShow
  <2>3. ride'[r].status = "no_show" /\ \A k \in Requests : k # r => ride'[k] = ride[k] /\ passenger'[k] = passenger[k]
    BY <1>10, <2>1, RideParts DEF NoShowRide, RideTypeOK, RideRows, PassengersOf
  <2> QED BY <2>1, <2>2, <2>3, AccountClosed
<1>11. CASE UNCHANGED rideVars
  BY <1>1, <1>11 DEF rideVars
<1> QED BY <1>2, <1>3, <1>4, <1>5, <1>6, <1>7, <1>8, <1>9, <1>10, <1>11
        DEF RideNext, RequestStep, LifecycleStep, PoolingStep

LEMMA SeatsInvStep == SeatsInv /\ [RideNext]_rideVars => SeatsInv'
BY RideTypeStep, SeatsStep, AccountStep DEF SeatsInv

LEMMA SeatsInvInit == RideInit => SeatsInv
BY RideTypeInit, SeatsInit, AccountInit DEF SeatsInv

\* No seat is lost and none is sold twice: the counter of a ride under way, kept
\* by additions and subtractions, is the sum over those it carries.
THEOREM AccountCorrect == RideSpec => []SeatsAccounted
<1>1. SeatsInv => SeatsAccounted
  BY DEF SeatsInv
<1> QED BY <1>1, SeatsInvInit, SeatsInvStep, PTL DEF RideSpec
-----------------------------------------------------------------------------
(* The tables implement the ledger *)

LEMMA Stages ==
  /\ StageOf("confirmed") = "boarding" /\ StageOf("none") = "none"
  /\ \A status \in {"driver_en_route", "arrived", "picked_up"} : StageOf(status) = "moving"
  /\ \A status \in {"completed", "cancelled", "no_show"} : StageOf(status) = "over"
BY DEF StageOf

\* What a step of one ride changes in the ledger.
LEMMA StageOfOne ==
  ASSUME NEW r \in Requests, \A k \in Requests : k # r => ride'[k] = ride[k]
  PROVE  LedgerStage[r] = StageOf(ride[r].status)
         /\ LedgerStage' = [LedgerStage EXCEPT ![r] = StageOf(ride'[r].status)]
BY DEF LedgerStage

LEMMA CapacityOfOne ==
  ASSUME NEW r \in Requests, \A k \in Requests : k # r => ride'[k] = ride[k]
  PROVE  LedgerCapacity[r] = ride[r].capacity
         /\ LedgerCapacity' = [LedgerCapacity EXCEPT ![r] = ride'[r].capacity]
         /\ (ride'[r].capacity = ride[r].capacity => LedgerCapacity' = LedgerCapacity)
BY DEF LedgerCapacity

LEMMA AboardOfOne ==
  ASSUME NEW r \in Requests, \A k \in Requests : k # r => Carried(k)' = Carried(k)
  PROVE  LedgerAboard[r] = Carried(r) /\ LedgerAboard' = [LedgerAboard EXCEPT ![r] = Carried(r)']
         /\ (Carried(r)' = Carried(r) => LedgerAboard' = LedgerAboard)
BY DEF LedgerAboard

LEMMA SeatsStay ==
  ASSUME assignment' = assignment
  PROVE  LedgerAboard' = LedgerAboard
BY CarriedSame DEF LedgerAboard

LEMMA StandingMeans ==
  ASSUME NEW q \in Requests
  PROVE  Ledger!Standing(q) <=> \A k \in Requests : q \notin Carried(k)
BY DEF Ledger!Standing, LedgerAboard

LEMMA LedgerMoves ==
  ASSUME NEW r \in Requests, Ledger!LedgerStep(r)
  PROVE  [Ledger!LedgerNext]_(Ledger!ledgerVars)
BY DEF Ledger!LedgerNext

LEMMA LedgerStays ==
  ASSUME UNCHANGED <<ride, assignment>>
  PROVE  [Ledger!LedgerNext]_(Ledger!ledgerVars)
<1>1. LedgerStage' = LedgerStage /\ LedgerCapacity' = LedgerCapacity /\ LedgerAboard' = LedgerAboard
  BY SeatsStay DEF LedgerStage, LedgerCapacity
<1> QED BY <1>1 DEF Ledger!ledgerVars

\* A ride that ends is over for all it carried.
LEMMA LedgerOver ==
  ASSUME RideTypeOK, NEW r \in Requests, ActiveRide(r),
         NEW status \in {"cancelled", "completed", "no_show"},
         ride'[r].status = status, ride'[r].capacity = ride[r].capacity,
         \A k \in Requests : k # r => ride'[k] = ride[k],
         assignment' = AssignmentsOf(Carried(r), status)
  PROVE  Ledger!Over(r)
<1>1. LedgerStage[r] \in {"boarding", "moving"} /\ LedgerStage' = [LedgerStage EXCEPT ![r] = "over"]
  BY ActiveAre, Stages, StageOfOne
<1>2. LedgerCapacity' = LedgerCapacity
  BY CapacityOfOne
<1>3. LedgerAboard' = [LedgerAboard EXCEPT ![r] = {}]
  BY CarriedEnded, AboardOfOne
<1> QED BY <1>1, <1>2, <1>3 DEF Ledger!Over

LEMMA LedgerInitial == RideInit => Ledger!LedgerInit
<1> SUFFICES ASSUME RideInit PROVE Ledger!LedgerInit
  OBVIOUS
<1>1. \A r \in Requests : ride[r].status = "none" /\ ride[r].capacity = 0
  BY DEF RideInit, NoRide
<1>2. \A r \in Requests : Carried(r) = {}
  BY DEF RideInit, Carried, OnRide
<1>3. LedgerStage = [r \in Requests |-> "none"] /\ LedgerCapacity = [r \in Requests |-> 0]
  BY <1>1, Stages DEF LedgerStage, LedgerCapacity
<1>4. LedgerAboard = [r \in Requests |-> {}]
  BY <1>2 DEF LedgerAboard
<1> QED BY <1>3, <1>4 DEF Ledger!LedgerInit

LEMMA LedgerStepped ==
  SeatsInv /\ OffersSuffice /\ NoOverbooking /\ [RideNext]_rideVars
    => [Ledger!LedgerNext]_(Ledger!ledgerVars)
<1> SUFFICES ASSUME SeatsInv, OffersSuffice, NoOverbooking, [RideNext]_rideVars
             PROVE  [Ledger!LedgerNext]_(Ledger!ledgerVars)
  OBVIOUS
<1> DEFINE Kept == [Ledger!LedgerNext]_(Ledger!ledgerVars)
<1> HIDE DEF Kept
<1>a. ASSUME UNCHANGED <<ride, assignment>> PROVE Kept
  BY <1>a, LedgerStays DEF Kept
<1>b. ASSUME NEW r \in Requests, Ledger!LedgerStep(r) PROVE Kept
  BY <1>b, LedgerMoves DEF Kept
<1>c. RideTypeOK /\ SeatsFit
  BY DEF SeatsInv
<1>1. ASSUME NEW q \in Requests, RequestStep(q), \A d \in Drivers : ~acceptRideOffer(q, d)
      PROVE  Kept
  BY <1>a, <1>1 DEF RequestStep, createRideRequest, ReadForApproval, approveRideRequest, ReadForOffer, createRideOffer
<1>2. ASSUME NEW q \in Requests, NEW d \in Drivers, acceptRideOffer(q, d) PROVE Kept
  <2> DEFINE c == offer[q][d].seats
  <2>1. /\ ride[q].status = "none" /\ offer[q][d].status = "offered"
        /\ ride' = [ride EXCEPT ![q] = PooledRide(q, d)]
    BY <1>2 DEF acceptRideOffer, MayAccept
  <2>2. /\ \A k \in Requests : k # q => ride'[k] = ride[k]
        /\ ride'[q].status = "confirmed" /\ ride'[q].capacity = c
    BY <1>c, <2>1 DEF RideTypeOK, PooledRide
  <2>3. LedgerStage[q] = "none" /\ LedgerStage' = [LedgerStage EXCEPT ![q] = "boarding"]
    BY <2>1, <2>2, StageOfOne, Stages
  <2>4. LedgerCapacity' = [LedgerCapacity EXCEPT ![q] = c]
    BY <2>2, CapacityOfOne
  <2>5. SeatsOf({q}) <= c /\ c \in 0..12
    BY <1>c, <2>1, SeatsOfOne, OfferParts DEF OffersSuffice
  <2>6. UNCHANGED LedgerAboard \/ (Ledger!Standing(q) /\ LedgerAboard' = [LedgerAboard EXCEPT ![q] = {q}])
    BY <1>c, <1>2, SeatsFitMeans, CarriedMatched, AboardOfOne, StandingMeans
  <2>7. Ledger!Open(q, c)
    BY <2>3, <2>4, <2>5, <2>6 DEF Ledger!Open
  <2> QED BY <1>b, <2>5, <2>7 DEF Ledger!LedgerStep
<1>3. ASSUME NEW r \in Requests, NEW q \in Requests, attachRequestToRide(r, q, 0) PROVE Kept
  <2>1. /\ ride[r].status = "confirmed" /\ ~Aboard(r, q) /\ Fits(r, q, 0)
        /\ ride' = [ride EXCEPT ![r].reserved = @ + SeatsNeeded[q]]
    BY <1>3 DEF attachRequestToRide, reserveSeatForRequest
  <2>2. /\ \A k \in Requests : k # r => ride'[k] = ride[k]
        /\ ride'[r].status = ride[r].status /\ ride'[r].capacity = ride[r].capacity
    BY <1>c, <2>1, RideParts DEF RideTypeOK, RideRows
  <2>3. LedgerStage[r] = "boarding" /\ LedgerStage' = LedgerStage
    BY <2>1, <2>2, StageOfOne, Stages DEF LedgerStage
  <2>4. LedgerCapacity[r] = ride[r].capacity /\ LedgerCapacity' = LedgerCapacity
    BY <2>2, CapacityOfOne
  <2>5. LedgerAboard[r] = Carried(r) /\ LedgerAboard' = [LedgerAboard EXCEPT ![r] = Carried(r) \cup {q}]
    BY <1>c, <1>3, CarriedPooled, AboardOfOne
  <2>6. ActiveRide(r) /\ passenger[r][PersonOf[r]] = [request |-> r, status |-> "confirmed"]
    BY <1>c, <2>1, ActiveAre DEF PrimaryHasPassenger, SeatsInv
  <2>7. q # r /\ q \notin Carried(r) \cup {r} /\ Ledger!Standing(q)
    BY <1>c, <1>3, <2>1, <2>6, CarriedPooled, StandingMeans DEF Aboard
  <2>8. SeatsOf((Carried(r) \cup {r}) \cup {q}) = SeatsOf(Carried(r) \cup {r}) + SeatsNeeded[q]
    BY <2>7, CarriedIn, SeatsOfMore
  <2>9. SeatsOf(Carried(r) \cup {r}) = ride[r].reserved
    BY <2>6 DEF SeatsAccounted, SeatsInv
  <2>10. SeatsOf(Carried(r) \cup {r, q}) <= ride[r].capacity
    <3>1. SeatsOf(Carried(r) \cup {r, q}) = SeatsOf((Carried(r) \cup {r}) \cup {q})
      <4>1. Carried(r) \cup {r, q} = (Carried(r) \cup {r}) \cup {q}
        OBVIOUS
      <4> QED BY <4>1
    <3>2. ride[r].reserved \in Nat /\ ride[r].reserved + 0 + SeatsNeeded[q] <= ride[r].capacity
      BY <1>c, <2>1, RideParts DEF Fits
    <3>3. SeatsNeeded[q] \in Nat /\ ride[r].capacity \in Nat
      BY <1>c, RideParts, RequestFacts
    <3> QED BY <2>8, <2>9, <3>1, <3>2, <3>3
  <2>11. Ledger!Book(r, q)
    BY <2>3, <2>4, <2>5, <2>7, <2>10 DEF Ledger!Book
  <2> QED BY <1>b, <2>11 DEF Ledger!LedgerStep
<1>4. ASSUME NEW r \in Requests, NEW q \in Requests, removeRequestFromRide(r, q) PROVE Kept
  <2>1. ride[r].status = "confirmed" /\ ride' = [ride EXCEPT ![r].reserved = ReservedWithout(r, q)]
    BY <1>4 DEF removeRequestFromRide, MayRemove
  <2>2. /\ \A k \in Requests : k # r => ride'[k] = ride[k]
        /\ ride'[r].status = ride[r].status /\ ride'[r].capacity = ride[r].capacity
    BY <1>c, <2>1, RideParts DEF RideTypeOK, RideRows
  <2>3. LedgerStage[r] = "boarding" /\ LedgerStage' = LedgerStage
    BY <2>1, <2>2, StageOfOne, Stages DEF LedgerStage
  <2>4. LedgerCapacity' = LedgerCapacity
    BY <2>2, CapacityOfOne
  <2>5. q # r /\ q \in Carried(r) /\ LedgerAboard[r] = Carried(r)
        /\ LedgerAboard' = [LedgerAboard EXCEPT ![r] = Carried(r) \ {q}]
    BY <1>c, <1>4, CarriedRemoved, AboardOfOne
  <2>6. Ledger!Release(r, q)
    BY <2>3, <2>4, <2>5 DEF Ledger!Release
  <2> QED BY <1>b, <2>6 DEF Ledger!LedgerStep
<1>5. ASSUME NEW r \in Requests, NEW seats \in SeatChoices, updateRideSeats(r, seats, 0) PROVE Kept
  <2>1. /\ ride[r].status = "confirmed" /\ seats >= ride[r].reserved + 0
        /\ ride' = [ride EXCEPT ![r].capacity = seats] /\ assignment' = assignment
    BY <1>5 DEF updateRideSeats
  <2>2. /\ \A k \in Requests : k # r => ride'[k] = ride[k]
        /\ ride'[r].status = ride[r].status /\ ride'[r].capacity = seats
    BY <1>c, <2>1, RideParts DEF RideTypeOK, RideRows
  <2>3. LedgerStage[r] = "boarding" /\ LedgerStage' = LedgerStage
    BY <2>1, <2>2, StageOfOne, Stages DEF LedgerStage
  <2>4. LedgerCapacity' = [LedgerCapacity EXCEPT ![r] = seats]
    BY <2>2, CapacityOfOne
  <2>5. LedgerAboard[r] = Carried(r) /\ LedgerAboard' = LedgerAboard
    BY <2>1, SeatsStay DEF LedgerAboard
  <2>6. seats \in 0..12 /\ ride[r].reserved \in Nat
    BY <1>c, RequestFacts, RideParts
  <2>7. SeatsOf(Carried(r) \cup {r}) <= seats
    BY <1>c, <2>1, <2>6, ActiveAre DEF SeatsAccounted, SeatsInv
  <2>8. Ledger!Resize(r, seats)
    BY <2>3, <2>4, <2>5, <2>7 DEF Ledger!Resize
  <2> QED BY <1>b, <2>6, <2>8 DEF Ledger!LedgerStep
<1>6. ASSUME NEW r \in Requests, NEW to \in RideStatuses, AdvanceRide(r, to) PROVE Kept
  <2>1. /\ to \in {"driver_en_route", "arrived", "picked_up"} /\ canTransitionRide(ride[r].status, to)
        /\ ride' = [ride EXCEPT ![r].status = to] /\ assignment' = assignment
    BY <1>6 DEF AdvanceRide, MayTransition
  <2>2. /\ \A k \in Requests : k # r => ride'[k] = ride[k]
        /\ ride'[r].status = to /\ ride'[r].capacity = ride[r].capacity
    BY <1>c, <2>1, RideParts DEF RideTypeOK, RideRows
  <2>3. LedgerCapacity' = LedgerCapacity /\ LedgerAboard' = LedgerAboard
    BY <2>1, <2>2, CapacityOfOne, SeatsStay
  <2>4. /\ LedgerStage[r] = StageOf(ride[r].status)
        /\ LedgerStage' = [LedgerStage EXCEPT ![r] = "moving"]
    BY <2>1, <2>2, StageOfOne, Stages
  <2>5. CASE ride[r].status = "confirmed"
    <3>1. Ledger!Depart(r)
      BY <2>3, <2>4, <2>5, Stages DEF Ledger!Depart
    <3> QED BY <1>b, <3>1 DEF Ledger!LedgerStep
  <2>6. CASE ride[r].status \in {"driver_en_route", "arrived", "picked_up"}
    <3>1. LedgerStage[r] = "moving"
      BY <2>4, <2>6, Stages
    <3>2. LedgerStage' = LedgerStage
      BY <2>4, <3>1 DEF LedgerStage
    <3> QED BY <2>3, <3>2 DEF Kept, Ledger!ledgerVars
  <2> QED BY <2>1, <2>5, <2>6, TransitionsLeave
<1>7. ASSUME NEW r \in Requests, Ledger!Over(r) PROVE Kept
  BY <1>b, <1>7 DEF Ledger!LedgerStep
<1>8. ASSUME NEW r \in Requests, NEW to, canTransitionRide(ride[r].status, to) PROVE ActiveRide(r)
  BY <1>c, <1>8, ActiveAre, TransitionsLeave
<1>9. ASSUME NEW r \in Requests, CompleteRide(r) PROVE Kept
  <2>1. /\ ride'[r].status = "completed" /\ ride'[r].capacity = ride[r].capacity
        /\ \A k \in Requests : k # r => ride'[k] = ride[k]
    BY <1>c, <1>9, RideParts DEF CompleteRide, RideTypeOK, RideRows
  <2>2. assignment' = AssignmentsOf(Carried(r), "completed") /\ ActiveRide(r)
    BY <1>8, <1>9 DEF CompleteRide, MayTransition
  <2> QED BY <1>c, <1>7, <2>1, <2>2, LedgerOver
<1>10. ASSUME NEW r \in Requests, NEW byDriver \in BOOLEAN, CancelRide(r, byDriver) PROVE Kept
  <2>1. /\ ride'[r].status = "cancelled" /\ ride'[r].capacity = ride[r].capacity
        /\ \A k \in Requests : k # r => ride'[k] = ride[k]
    BY <1>c, <1>10, RideParts DEF CancelRide, RideTypeOK, RideRows
  <2>2. assignment' = AssignmentsOf(Carried(r), "cancelled") /\ ActiveRide(r)
    BY <1>8, <1>10 DEF CancelRide, MayTransition, Affected
  <2> QED BY <1>c, <1>7, <2>1, <2>2, LedgerOver
<1>11. ASSUME NEW r \in Requests, NoShowRide(r) PROVE Kept
  <2>1. PICK q \in Carried(r) : assignment' = AssignmentsOf({q}, "no_show")
    BY <1>11 DEF NoShowRide, Affected
  <2>2. Carried(r) = {q}
    BY <1>c, <1>11, NoShowIsOfAll DEF NoShowRide, Affected, canEndPooledRideAsNoShow
  <2>3. /\ ride'[r].status = "no_show" /\ ride'[r].capacity = ride[r].capacity
        /\ \A k \in Requests : k # r => ride'[k] = ride[k]
    BY <1>c, <1>11, RideParts DEF NoShowRide, RideTypeOK, RideRows
  <2>4. ActiveRide(r)
    BY <1>8, <1>11 DEF NoShowRide, MayTransition
  <2> QED BY <1>c, <1>7, <2>1, <2>2, <2>3, <2>4, LedgerOver
<1>12. ASSUME UNCHANGED rideVars PROVE Kept
  BY <1>a, <1>12 DEF rideVars
<1>13. Kept
  BY <1>1, <1>2, <1>3, <1>4, <1>5, <1>6, <1>9, <1>10, <1>11, <1>12
     DEF RideNext, RequestStep, LifecycleStep, PoolingStep
<1> QED BY <1>13 DEF Kept

\* The tables, the counter and the handlers that stop between a read and a
\* write implement the ledger: every step of theirs is one of it, or none.
THEOREM LedgerImplemented == RideSpec => SeatsAreKept
<1>1. SeatsInv => RideTypeOK
  BY DEF SeatsInv
<1> QED BY <1>1, SeatsInvInit, SeatsInvStep, BookingInit, BookingStep, LedgerInitial, LedgerStepped, PTL
        DEF RideSpec, SeatsAreKept, Ledger!LedgerSpec

\* The counter of a ride is what its seats add up to, and fits the car
\* (lib/carpool.ts attachRequestToRide, migration 044).
THEOREM CounterCorrect == RideSpec => []SeatCounterTrue
<1>1. SeatsAccounted /\ NoOverbooking => SeatCounterTrue
  BY DEF SeatCounterTrue
<1> QED BY <1>1, AccountCorrect, BookingCorrect, PTL
=============================================================================

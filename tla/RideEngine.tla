----------------------------- MODULE RideEngine -----------------------------
(***************************************************************************)
(* Ride requests, driver offers, rides and pooled passengers: the handlers *)
(* of lib/rides.ts, lib/carpool.ts and lib/ride-lifecycle.ts with the      *)
(* triggers and unique indexes of the migrations they run against.         *)
(*                                                                         *)
(* A handler that runs in one transaction under row locks is one action.   *)
(* approveRideRequest and createRideOffer read a request outside any       *)
(* transaction and write later, so each is two actions.  A ride is named   *)
(* by its primary request: rides.ride_request_id is unique.  The           *)
(* organisation, event, direction and pickup gap that pooling compares are *)
(* the relation Compatible; the actor of an action is authorised.  That a  *)
(* required pickup verification may refuse or bring about a pickup is in   *)
(* PickupHandshake; here each lifecycle step may simply not be taken.      *)
(***************************************************************************)
EXTENDS RidePolicy, FiniteSets, FiniteSetsExt

CONSTANTS
  Requests,    \* ride requests, and the rides they are primary for
  Drivers,
  Persons,     \* passengers
  PersonOf,    \* the passenger of a request
  SeatsNeeded, \* seats_needed of a request, fixed when it is created
  Minors,      \* the requests whose passenger has guardians
  Compatible,  \* pairs <<ride, request>> that pooling accepts
  SeatChoices, \* bound: the seat numbers drivers enter
  MaxInFlight, \* bound: handlers between their read and their write
  None         \* SQL null

ASSUME RequestsAssumption == IsFiniteSet(Requests)
ASSUME PersonOfAssumption == PersonOf \in [Requests -> Persons]
ASSUME SeatsNeededAssumption == SeatsNeeded \in [Requests -> 1..12]
ASSUME MinorsAssumption == Minors \subseteq Requests
ASSUME SeatChoicesAssumption == SeatChoices \subseteq 1..12
ASSUME MaxInFlightAssumption == MaxInFlight \in Nat
ASSUME NoneAssumption == None \notin Requests \cup Drivers

VARIABLES
  request,    \* ride_requests
  offer,      \* ride_offers, one row per request and driver
  ride,       \* rides
  assignment, \* ride_request_assignments, one row per request
  passenger,  \* ride_passengers, one row per ride and person
  approving,  \* approveRideRequest between its read and its write
  offering    \* createRideOffer between its read and its write

rideVars == <<request, offer, ride, assignment, passenger, approving, offering>>

RequestRows ==
  [status : {"none", "pending_approval", "open", "matched", "completed", "cancelled"},
   approval : {"not_required", "pending", "approved", "denied"}]

OfferRows ==
  [status : {"none", "offered", "accepted", "declined", "withdrawn"}, seats : 0..12]

RideRows ==
  [status : RideStatuses \cup {"none"}, driver : Drivers \cup {None},
   capacity : 0..12, reserved : Nat]

AssignmentRows ==
  [ride : Requests \cup {None}, status : {"none", "confirmed", "cancelled", "completed", "no_show"}]

PassengerRows ==
  [request : Requests \cup {None}, status : {"none", "confirmed", "cancelled", "completed", "no_show"}]

NoRide == [status |-> "none", driver |-> None, capacity |-> 0, reserved |-> 0]

RideInit ==
  /\ request = [q \in Requests |-> [status |-> "none", approval |-> "not_required"]]
  /\ offer = [q \in Requests |-> [d \in Drivers |-> [status |-> "none", seats |-> 0]]]
  /\ ride = [r \in Requests |-> NoRide]
  /\ assignment = [q \in Requests |-> [ride |-> None, status |-> "none"]]
  /\ passenger = [r \in Requests |-> [p \in Persons |-> [request |-> None, status |-> "none"]]]
  /\ approving = {}
  /\ offering = {}

-----------------------------------------------------------------------------
(* Requests and offers: lib/rides.ts *)

\* An adult needs no approval, a minor may: it depends on who asks.
guardianApprovalFor(q) ==
  IF q \in Minors THEN {"not_required", "approved", "pending"} ELSE {"not_required"}

NewRequest(approval) ==
  [status |-> IF approval = "pending" THEN "pending_approval" ELSE "open",
   approval |-> approval]

createRideRequest(q) ==
  /\ request[q].status = "none"
  /\ \E approval \in guardianApprovalFor(q) :
       request' = [request EXCEPT ![q] = NewRequest(approval)]
  /\ UNCHANGED <<offer, ride, assignment, passenger, approving, offering>>

MayStart == Cardinality(approving) + Cardinality(offering) < MaxInFlight

\* approveRideRequest reads the request and checks its status ...
ReadForApproval(q, approve) ==
  /\ q \in Minors
  /\ request[q].status \in {"pending_approval", "open"}
  /\ MayStart
  /\ approving' = approving \cup {<<q, approve>>}
  /\ UNCHANGED <<request, offer, ride, assignment, passenger, offering>>

\* ... and writes by id, whatever the status has become.
approveRideRequest(q, approve) ==
  /\ <<q, approve>> \in approving
  /\ approving' = approving \ {<<q, approve>>}
  /\ request' = [request EXCEPT ![q] =
                   IF approve THEN [status |-> "open", approval |-> "approved"]
                              ELSE [status |-> "cancelled", approval |-> "denied"]]
  /\ UNCHANGED <<offer, ride, assignment, passenger, offering>>

OpenForOffersBug(q) == request[q].status \in {"open", "pending_approval"}
OpenForOffers(q) == request[q].status = "open" /\ request[q].approval # "pending"

\* createRideOffer reads the request and checks that it is open ...
ReadForOffer(q, d, seats) ==
  /\ OpenForOffers(q)
  /\ PersonOf[q] # d
  /\ seats >= SeatsNeeded[q]
  /\ MayStart
  /\ offering' = offering \cup {<<q, d, seats>>}
  /\ UNCHANGED <<request, offer, ride, assignment, passenger, approving>>

\* ... and inserts the offer, or overwrites the driver's earlier one.
createRideOffer(q, d, seats) ==
  /\ <<q, d, seats>> \in offering
  /\ offering' = offering \ {<<q, d, seats>>}
  /\ offer' = [offer EXCEPT ![q][d] = [status |-> "offered", seats |-> seats]]
  /\ UNCHANGED <<request, ride, assignment, passenger, approving>>

\* Trigger bandwagon_initialize_ride_pooling (both inputs are in 1..12).
PooledRide(q, d) ==
  [status |-> "confirmed", driver |-> d,
   capacity |-> offer[q][d].seats, reserved |-> SeatsNeeded[q]]

\* Trigger bandwagon_create_primary_assignment: on conflict do nothing.
PrimaryAssignment(q) ==
  IF assignment[q].status = "none"
  THEN [assignment EXCEPT ![q] = [ride |-> q, status |-> "confirmed"]]
  ELSE assignment

\* rides.ride_request_id is unique: a second ride for q is refused.
MayAcceptBug(q, d) == offer[q][d].status = "offered"
MayAccept(q, d) ==
  /\ request[q].status = "open"
  /\ offer[q][d].status = "offered"
  /\ ride[q].status = "none"

acceptRideOffer(q, d) ==
  /\ MayAccept(q, d)
  /\ ride' = [ride EXCEPT ![q] = PooledRide(q, d)]
  /\ assignment' = PrimaryAssignment(q)
  /\ passenger' = [passenger EXCEPT ![q][PersonOf[q]] = [request |-> q, status |-> "confirmed"]]
  /\ request' = [request EXCEPT ![q].status = "matched"]
  /\ offer' = [offer EXCEPT ![q] =
                 [e \in Drivers |->
                    IF offer[q][e].status = "offered"
                    THEN [offer[q][e] EXCEPT !.status = IF e = d THEN "accepted" ELSE "declined"]
                    ELSE offer[q][e]]]
  /\ UNCHANGED <<approving, offering>>

-----------------------------------------------------------------------------
(* Pooling: lib/carpool.ts *)

OnRide(q, r) == assignment[q] = [ride |-> r, status |-> "confirmed"]

Carried(r) == {q \in Requests : OnRide(q, r)}

\* The upsert of the assignment only replaces a cancelled one.
AssignableBug(q) == TRUE
Assignable(q) == assignment[q].status \in {"none", "cancelled"}

Match(q) == [request EXCEPT ![q].status = "matched"]

reserveSeatForRequest(r, q) ==
  /\ Assignable(q)
  /\ assignment' = [assignment EXCEPT ![q] = [ride |-> r, status |-> "confirmed"]]
  /\ passenger' = [passenger EXCEPT ![r][PersonOf[q]] = [request |-> q, status |-> "confirmed"]]
  /\ ride' = [ride EXCEPT ![r].reserved = @ + SeatsNeeded[q]]
  /\ request' = Match(q)

AboardBug(r, q) == FALSE
Aboard(r, q) == passenger[r][PersonOf[q]].status = "confirmed"

Fits(r, q, held) == ride[r].reserved + held + SeatsNeeded[q] <= ride[r].capacity

\* held: the seats of the ride that open standby offers hold
attachRequestToRide(r, q, held) ==
  /\ ride[r].status = "confirmed"
  /\ request[q].status = "open" /\ request[q].approval # "pending"
  /\ <<r, q>> \in Compatible
  /\ ~Aboard(r, q)
  /\ Fits(r, q, held)
  /\ reserveSeatForRequest(r, q)
  /\ UNCHANGED <<offer, approving, offering>>

\* update ride_passengers ... where ride_id = r and ride_request_id \in Q
PassengersOf(r, Q, status) ==
  [passenger EXCEPT ![r] =
     [p \in Persons |-> IF passenger[r][p].request \in Q
                        THEN [passenger[r][p] EXCEPT !.status = status]
                        ELSE passenger[r][p]]]

\* greatest(0, seats_reserved - seats)
ReservedWithoutBug(r, q) == ride[r].reserved - 1
ReservedWithout(r, q) ==
  IF ride[r].reserved >= SeatsNeeded[q] THEN ride[r].reserved - SeatsNeeded[q] ELSE 0

MayRemove(r, q) == q # r /\ ride[r].status = "confirmed" /\ OnRide(q, r)

removeRequestFromRide(r, q) ==
  /\ MayRemove(r, q)
  /\ assignment' = [assignment EXCEPT ![q].status = "cancelled"]
  /\ passenger' = PassengersOf(r, {q}, "cancelled")
  /\ ride' = [ride EXCEPT ![r].reserved = ReservedWithout(r, q)]
  /\ request' = [request EXCEPT ![q].status = "open"]
  /\ UNCHANGED <<offer, approving, offering>>

\* updateRideSeats of lib/ride-waitlists.ts
updateRideSeats(r, seats, held) ==
  /\ ride[r].status = "confirmed"
  /\ seats >= ride[r].reserved + held
  /\ ride' = [ride EXCEPT ![r].capacity = seats]
  /\ UNCHANGED <<request, offer, assignment, passenger, approving, offering>>

-----------------------------------------------------------------------------
(* Lifecycle: transitionRide of lib/ride-lifecycle.ts *)

\* The confirmed assignments a cancellation or a no-show works through.
Affected(r) == Carried(r)

MayTransition(r, to, byDriver) ==
  canTransitionRide(ride[r].status, to) /\ canActorTransitionRide(byDriver, to)

AssignmentsOf(Q, status) ==
  [q \in Requests |-> IF q \in Q THEN [assignment[q] EXCEPT !.status = status]
                                 ELSE assignment[q]]

AdvanceRide(r, to) ==
  /\ to \in {"driver_en_route", "arrived", "picked_up"}
  /\ MayTransition(r, to, TRUE)
  /\ ride' = [ride EXCEPT ![r].status = to]
  /\ UNCHANGED <<request, offer, assignment, passenger, approving, offering>>

\* Trigger bandwagon_sync_pooled_ride_status: confirmed passengers and
\* assignments are completed, and every request with an assignment row here.
CompleteRide(r) ==
  /\ MayTransition(r, "completed", TRUE)
  /\ ride' = [ride EXCEPT ![r].status = "completed"]
  /\ assignment' = AssignmentsOf(Carried(r), "completed")
  /\ passenger' = [passenger EXCEPT ![r] =
                     [p \in Persons |-> IF passenger[r][p].status = "confirmed"
                                        THEN [passenger[r][p] EXCEPT !.status = "completed"]
                                        ELSE passenger[r][p]]]
  /\ request' = [q \in Requests |-> IF assignment[q].ride = r
                                    THEN [request[q] EXCEPT !.status = "completed"]
                                    ELSE request[q]]
  /\ UNCHANGED <<offer, approving, offering>>

CancelRide(r, byDriver) ==
  /\ MayTransition(r, "cancelled", byDriver)
  /\ request' = [q \in Requests |->
                   IF q \in Affected(r)
                   THEN [request[q] EXCEPT !.status =
                           requestStatusAfterRideCancellation(
                             ride[r].status \in PrePickupStatuses, byDriver, q = r)]
                   ELSE request[q]]
  /\ assignment' = AssignmentsOf(Affected(r), "cancelled")
  /\ passenger' = PassengersOf(r, Affected(r), "cancelled")
  /\ ride' = [ride EXCEPT ![r].status = "cancelled", ![r].reserved = 0]
  /\ offer' = [offer EXCEPT ![r][ride[r].driver].status =
                 IF @ = "accepted" THEN (IF byDriver THEN "withdrawn" ELSE "declined") ELSE @]
  /\ UNCHANGED <<approving, offering>>

\* Exactly one confirmed assignment: none is an error, more are a pooled ride.
NoShowRide(r) ==
  /\ MayTransition(r, "no_show", TRUE)
  /\ canEndPooledRideAsNoShow(Cardinality(Affected(r)))
  /\ \E q \in Affected(r) :
       /\ assignment' = AssignmentsOf({q}, "no_show")
       /\ passenger' = PassengersOf(r, {q}, "no_show")
       /\ request' = [request EXCEPT ![q].status = "cancelled"]
  /\ ride' = [ride EXCEPT ![r].status = "no_show"]
  /\ UNCHANGED <<offer, approving, offering>>

-----------------------------------------------------------------------------

RequestStep(q) ==
  \/ createRideRequest(q)
  \/ \E approve \in BOOLEAN : ReadForApproval(q, approve) \/ approveRideRequest(q, approve)
  \/ \E d \in Drivers :
       \/ \E seats \in SeatChoices : ReadForOffer(q, d, seats) \/ createRideOffer(q, d, seats)
       \/ acceptRideOffer(q, d)

LifecycleStep(r) ==
  \/ \E to \in RideStatuses : AdvanceRide(r, to)
  \/ CompleteRide(r)
  \/ \E byDriver \in BOOLEAN : CancelRide(r, byDriver)
  \/ NoShowRide(r)

PoolingStep(r) ==
  \/ \E q \in Requests : attachRequestToRide(r, q, 0) \/ removeRequestFromRide(r, q)
  \/ \E seats \in SeatChoices : updateRideSeats(r, seats, 0)

RideNext == \E r \in Requests : RequestStep(r) \/ LifecycleStep(r) \/ PoolingStep(r)

RideSpec == RideInit /\ [][RideNext]_rideVars

-----------------------------------------------------------------------------
(* Properties *)

\* Every table has well-typed rows, and the handlers in flight carry what they
\* checked: offers in flight have seats enough for their request.
RideTypeOK ==
  /\ request \in [Requests -> RequestRows]
  /\ offer \in [Requests -> [Drivers -> OfferRows]]
  /\ ride \in [Requests -> RideRows]
  /\ assignment \in [Requests -> AssignmentRows]
  /\ passenger \in [Requests -> [Persons -> PassengerRows]]
  /\ approving \subseteq Requests \X BOOLEAN
  /\ offering \subseteq Requests \X Drivers \X SeatChoices

ActiveRide(r) == ride[r].status \notin EndedStatuses \cup {"none"}

\* The seats of a set of requests, one by one.
Seats(Q) == UNION {{q} \X (1..SeatsNeeded[q]) : q \in Q}
SeatsOf(Q) == Cardinality(Seats(Q))

\* What passengers and drivers may rely on, as a ledger of rides and seats.
StageOf(status) ==
  CASE status = "confirmed" -> "boarding"
    [] status \in {"driver_en_route", "arrived", "picked_up"} -> "moving"
    [] status = "none" -> "none"
    [] OTHER -> "over"

LedgerStage == [r \in Requests |-> StageOf(ride[r].status)]
LedgerCapacity == [r \in Requests |-> ride[r].capacity]
LedgerAboard == [r \in Requests |-> Carried(r)]

Ledger == INSTANCE SeatLedger WITH
  stage <- LedgerStage, capacity <- LedgerCapacity, aboard <- LedgerAboard

\* The seat counter of a ride is never beyond its capacity, whatever offers,
\* poolings, removals and capacity changes follow each other (releases/0.11:
\* "Transaction locks to prevent overbooking").
NoOverbooking == \A r \in Requests : ride[r].reserved <= ride[r].capacity

\* The counter of an active ride is exactly what its assignments hold, plus the
\* seats of a primary request whose assignment row was left on another ride: no
\* seat is lost or sold twice by a removal, a re-assignment or a denied approval.
SeatsAccounted ==
  \A r \in Requests : ActiveRide(r) =>
    ride[r].reserved = SeatsOf(Carried(r) \cup {r})

\* What the application reads off the counter is true: it is what the ride
\* carries, and it fits.
SeatCounterTrue == SeatsAccounted /\ NoOverbooking

\* Six tables, a counter and handlers that stop between a read and a write keep
\* the ledger: whoever sits in a ride has seats there that fit, one ride at a
\* time, and gives them up before the driver leaves or when the ride is over.
SeatsAreKept == Ledger!LedgerSpec

\* A ride that ended, however it ended, keeps nobody aboard: each rider it
\* carried was completed, reopened, cancelled or reported.
EndedRideCarriesNobody ==
  \A r \in Requests : ~ActiveRide(r) => Carried(r) = {}

\* A confirmed assignment and the passenger row of the same ride agree although
\* the two tables are written by separate statements and one row of the latter
\* serves all requests of a person; so one person has one seat in a ride.
SeatHasPassenger ==
  \A r, q \in Requests :
    OnRide(q, r) => passenger[r][PersonOf[q]] = [request |-> q, status |-> "confirmed"]

\* Whoever has a confirmed seat is a passenger of a ride that is still to come
\* or under way: none of the tables leaves somebody behind in a ride.
SeatedIsAboard == SeatHasPassenger /\ EndedRideCarriesNobody

\* Of the offers of a request at most one is ever accepted, and the ride belongs
\* to the driver who made it (RIDE-WORKFLOW.md: "This prevents two offers from
\* being accepted for the same request during a race").
OneOfferAccepted ==
  \A q \in Requests, d \in Drivers :
    offer[q][d].status = "accepted" => ride[q].driver = d

\* A request that still waits for its guardian has no offer and no seat.
PendingIsUntouched ==
  \A q \in Requests : request[q].approval = "pending" =>
    /\ \A d \in Drivers : offer[q][d].status = "none"
    /\ assignment[q].status = "none" /\ ride[q].status = "none"

\* Where no guardian answers late, a request and its assignment tell the same
\* story: a confirmed seat belongs to a matched request, never to one that is
\* open for other drivers or already over.
SeatedIsMatched ==
  \A q \in Requests \ Minors :
    assignment[q].status = "confirmed" => request[q].status = "matched"

\* Requests and seats tell the same story: a request that waits for its guardian
\* has none, a seat belongs to a request that is matched.
SeatsFollowRequests == PendingIsUntouched /\ SeatedIsMatched

\* A seat is only given up together with its ride, or by a removal before the
\* driver leaves: no other step takes a rider out of a ride under way.
SeatKeptUnderWay ==
  [][\A q \in Requests :
       assignment[q].status = "confirmed" /\ ride[assignment[q].ride].status # "confirmed"
       => \/ assignment'[q] = assignment[q]
          \/ ride'[assignment[q].ride].status \in EndedStatuses]_rideVars

\* rides.ts: "Ride request can no longer be approved" once it is neither pending
\* nor open, so a denial never meets a request that is already seated.
DeniedIsNotSeated ==
  \A q \in Requests : request[q].approval = "denied" => assignment[q].status # "confirmed"

\* ride-lifecycle.ts tells the rider of a cancelled ride: "Your ride request has
\* been reopened so another driver can help", so an open request can be matched:
\* no earlier ride occupies rides.ride_request_id.
ReopenedIsMatchable ==
  \A q \in Requests : request[q].status = "open" => ride[q].status = "none"

\* releases/0.11: a secondary request can be removed "and later reassign[ed]", so
\* the ride it then gets of its own carries it.
MatchedRideCarriesPrimary ==
  \A r \in Requests : ActiveRide(r) => OnRide(r, r)

\* Migration 044: "Completion is a whole-ride event", of the riders the ride
\* carries: no request is completed by a ride that it was removed from.
CompletedWasCarried ==
  [][\A q \in Requests :
       request[q].status # "completed" /\ request'[q].status = "completed"
       => assignment[q].status = "confirmed"]_rideVars
=============================================================================

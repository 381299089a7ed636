--------------------------- MODULE RideWaitlists ---------------------------
(***************************************************************************)
(* Waitlists and standby offers (lib/ride-waitlists.ts with the rules of   *)
(* lib/ride-waitlist-policy.ts) on top of the ride engine.                 *)
(*                                                                         *)
(* Every change of a waitlist runs in one transaction under the lock of    *)
(* the ride, so each is one action.  A process_ride or offer_expire job    *)
(* may be delayed, repeated or lost: processing is possible at any time,   *)
(* and only the scheduled sweep is relied on.  The rides are those of one  *)
(* event and direction, the only ones whose waitlists meet.  Entries are   *)
(* numbered in the order of joined_at.                                     *)
(***************************************************************************)
EXTENDS RideEngine

CONSTANTS
  MaxEntries, \* bound: rows of ride_waitlist_entries
  BatchLimit, \* the "limit 50" of the candidate query
  Contended,  \* may SKIP LOCKED find rows that somebody else has locked?
  Leavers,    \* bound: the persons who may leave the organisation
  MayDisable  \* bound: may the organisation change its settings?

ASSUME MaxEntriesAssumption == MaxEntries \in Nat
ASSUME BatchLimitAssumption == BatchLimit \in Nat \ {0}
ASSUME SwitchesAssumption == Contended \in BOOLEAN /\ MayDisable \in BOOLEAN
ASSUME LeaversAssumption == Leavers \subseteq Persons

VARIABLES
  waitlist, \* ride_waitlist_entries
  clock,    \* how close the departure of a ride is
  members,  \* persons with an active membership
  enabled   \* waitlists_enabled of the organisation

waitVars == <<waitlist, clock, members, enabled>>
allVars == <<rideVars, waitVars>>

Entries == 1..MaxEntries

ActiveStatuses == {"waiting", "offered"}

EntryRows ==
  [status : {"none", "waiting", "offered", "accepted", "declined", "expired", "left",
             "removed", "cancelled"},
   ride : Requests \cup {None}, request : Requests \cup {None},
   offeredOn : Requests \cup {None}, open : BOOLEAN]

\* early: an offer can be made; short: too close for one; late: past the cutoff
ClockPhases == <<"early", "short", "late", "departed">>

NoEntry == [status |-> "none", ride |-> None, request |-> None, offeredOn |-> None,
            open |-> FALSE]

WaitlistInit ==
  /\ waitlist = [e \in Entries |-> NoEntry]
  /\ clock = [r \in Requests |-> 1]
  /\ members = Persons
  /\ enabled = TRUE

-----------------------------------------------------------------------------
(* Facts about entries *)

Active(e) == waitlist[e].status \in ActiveStatuses
RequestOf(e) == request[waitlist[e].request]
PassengerOf(e) == PersonOf[waitlist[e].request]
SeatsFor(e) == SeatsNeeded[waitlist[e].request]

HeldBy(r, wl) == {e \in Entries : wl[e].status = "offered" /\ wl[e].offeredOn = r}

\* seats_needed of each entry, the seats taken one by one
SeatsOfEntries(wl, E) == Cardinality(UNION {{e} \X (1..SeatsNeeded[wl[e].request]) : e \in E})

\* heldSeats: the seats open standby offers hold on ride r
HeldSeats(r, wl) == SeatsOfEntries(wl, HeldBy(r, wl))

\* Manual pooling does not count what the request holds itself.
HeldForOthersBug(r, q) == 0
HeldForOthers(r, q) ==
  SeatsOfEntries(waitlist, {e \in HeldBy(r, waitlist) : waitlist[e].request # q})

FreeSeats(r, wl) == ride[r].capacity - ride[r].reserved - HeldSeats(r, wl)

\* seatedForEvent: a confirmed seat in an active carpool of the event
SeatedForEvent(p) ==
  \E r \in Requests : ActiveRide(r) /\ passenger[r][p].status = "confirmed"

-----------------------------------------------------------------------------
(* processLockedRide *)

CloseReason(r) ==
  IF ride[r].status = "cancelled" THEN "ride_cancelled"
  ELSE IF ride[r].status # "confirmed" \/ ClockPhases[clock[r]] = "departed"
       THEN "ride_departed"
  ELSE IF ~enabled THEN "waitlists_disabled" ELSE "none"

ClosedWaitlistBug(r, wl) ==
  [e \in Entries |-> IF Active(e) /\ (wl[e].ride = r \/ wl[e].offeredOn = r)
                     THEN [wl[e] EXCEPT !.status = "cancelled"] ELSE wl[e]]
\* Entries of r end; offers on r to people who wait elsewhere are withdrawn.
ClosedWaitlist(r, wl) ==
  [e \in Entries |->
     IF /\ wl[e].ride = r /\ wl[e].status \in ActiveStatuses
        /\ \/ wl[e].status = "waiting" \/ wl[e].offeredOn = r
           \/ CloseReason(r) = "waitlists_disabled"
     THEN [wl[e] EXCEPT !.status = "cancelled"]
     ELSE IF e \in HeldBy(r, wl)
          THEN [wl[e] EXCEPT !.status = "waiting", !.offeredOn = None, !.open = FALSE]
          ELSE wl[e]]

ExpiredOffers(r, wl) ==
  [e \in Entries |-> IF e \in HeldBy(r, wl) /\ ~wl[e].open
                     THEN [wl[e] EXCEPT !.status = "expired"] ELSE wl[e]]

\* Waiting on this ride, or on another carpool of the event.
Candidates(r, wl) ==
  {e \in Entries : wl[e].status = "waiting" /\ PersonOf[wl[e].request] # ride[r].driver}

Batch(C) == {e \in C : Cardinality({d \in C : d < e}) < BatchLimit}

\* evaluateCandidate: the entry can never be offered a seat ...
MustEnd(e) ==
  \/ PassengerOf(e) \notin members
  \/ RequestOf(e).approval = "denied"
  \/ SeatedForEvent(PassengerOf(e))
  \/ RequestOf(e).status \in {"matched", "cancelled", "completed"}

EndStatus(e) == IF PassengerOf(e) \in members THEN "cancelled" ELSE "removed"

\* ... or keeps its place until a guardian approves.
AwaitsGuardian(e) ==
  RequestOf(e).approval = "pending" \/ RequestOf(e).status = "pending_approval"

OfferableBug(e) == ~MustEnd(e)
Offerable(e) == ~MustEnd(e) /\ ~AwaitsGuardian(e) /\ RequestOf(e).status = "open"

\* planOffers: walk the line; a party too large for the free seats is skipped.
PlanOffersNoSkip(C, free) ==
  {e \in C : Offerable(e) /\ SeatsOfEntries(waitlist, {d \in C : Offerable(d) /\ d <= e}) <= free}
PlanOffersReversed(C, free) ==
  LET left[n \in 1..MaxEntries + 1] ==
        IF n > MaxEntries THEN free
        ELSE IF n \in C /\ Offerable(n) /\ SeatsFor(n) <= left[n + 1]
             THEN left[n + 1] - SeatsFor(n) ELSE left[n + 1]
  IN  {e \in C : Offerable(e) /\ SeatsFor(e) <= left[e + 1]}
PlanOffers(C, free) ==
  LET left[n \in 0..MaxEntries] ==
        IF n = 0 THEN free
        ELSE IF n \in C /\ Offerable(n) /\ SeatsFor(n) <= left[n - 1]
             THEN left[n - 1] - SeatsFor(n) ELSE left[n - 1]
  IN  {e \in C : Offerable(e) /\ SeatsFor(e) <= left[e - 1]}

OffersMade(r, wl, C) ==
  LET offers == PlanOffers(C, FreeSeats(r, wl))
  IN  [e \in Entries |->
         IF e \in offers
         THEN [wl[e] EXCEPT !.status = "offered", !.offeredOn = r, !.open = TRUE]
         ELSE IF e \in C /\ MustEnd(e) THEN [wl[e] EXCEPT !.status = EndStatus(e)]
         ELSE wl[e]]

\* The rows SKIP LOCKED may pass over.
Skippable(C) == IF Contended THEN SUBSET C ELSE {{}}

\* What processing ride r makes of the table wl.
ProcessLockedRide(r, wl, result) ==
  IF CloseReason(r) # "none" THEN result = ClosedWaitlist(r, wl)
  ELSE LET kept == ExpiredOffers(r, wl)
       IN  IF ClockPhases[clock[r]] # "early" \/ FreeSeats(r, kept) <= 0
           THEN result = kept
           ELSE \E skip \in Skippable(Candidates(r, kept)) :
                  result = OffersMade(r, kept, Batch(Candidates(r, kept) \ skip))

-----------------------------------------------------------------------------
(* Handlers *)

\* waitlist.process_ride jobs and the loop that clears disabled waitlists
ProcessRideWaitlist(r) ==
  /\ ride[r].status # "none"
  /\ ProcessLockedRide(r, waitlist, waitlist')
  /\ UNCHANGED <<rideVars, clock, members, enabled>>

\* the rides the scheduled sweep selects
SweptBug(r) == \E e \in Entries : Active(e) /\ waitlist[e].ride = r
Swept(r) ==
  \/ \E e \in HeldBy(r, waitlist) : ~waitlist[e].open
  \/ \E e \in Entries : Active(e) /\ waitlist[e].ride = r
  \/ /\ ride[r].status = "confirmed" /\ ride[r].capacity > ride[r].reserved
     /\ \E e \in Entries : waitlist[e].status = "waiting"

SweepRideWaitlists(r) == Swept(r) /\ ProcessRideWaitlist(r)

\* waitlist.offer_expire, at the expiry time of the offer
ExpireStandbyOffer(e) ==
  /\ waitlist[e].status = "offered" /\ ~waitlist[e].open
  /\ ProcessRideWaitlist(waitlist[e].offeredOn)

\* An open request of the passenger without a seat is reused.
Reusable(p) ==
  {q \in Requests : /\ PersonOf[q] = p
                    /\ request[q].status \in {"open", "pending_approval"}
                    /\ assignment[q].status # "confirmed"}

CanJoinWaitlist(r, p, seats) ==
  /\ p \in members /\ enabled
  /\ ride[r].status = "confirmed" /\ ride[r].driver # p
  /\ ClockPhases[clock[r]] \in {"early", "short"}
  /\ passenger[r][p].status # "confirmed"
  /\ ~\E e \in Entries : Active(e) /\ waitlist[e].ride = r /\ PassengerOf(e) = p
  /\ ~\E s \in Requests \ {r} : ActiveRide(s) /\ passenger[s][p].status = "confirmed"
  /\ FreeSeats(r, waitlist) < seats

AddEntry(e, r, q) ==
  /\ waitlist[e].status = "none"
  /\ \A d \in Entries : d < e => waitlist[d].status # "none"
  /\ waitlist' = [waitlist EXCEPT ![e] =
                    [NoEntry EXCEPT !.status = "waiting", !.ride = r, !.request = q]]

\* Reusing a request keeps its own seats_needed, whatever number was asked for.
JoinWaitlist(e, r, q) ==
  /\ \/ /\ q \in Reusable(PersonOf[q])
        /\ request[q].approval # "denied"
        /\ \E seats \in 1..12 : CanJoinWaitlist(r, PersonOf[q], seats)
        /\ UNCHANGED request
     \/ /\ request[q].status = "none" /\ Reusable(PersonOf[q]) = {}
        /\ CanJoinWaitlist(r, PersonOf[q], SeatsNeeded[q])
        /\ \E approval \in guardianApprovalFor(q) :
             request' = [request EXCEPT ![q] = NewRequest(approval)]
  /\ AddEntry(e, r, q)
  /\ UNCHANGED <<offer, ride, assignment, passenger, approving, offering,
                 clock, members, enabled>>

Ended(e, status) == [waitlist EXCEPT ![e].status = status]

\* Leaving with an offer in hand processes the ride of the offer at once.
LeaveWaitlist(e) ==
  /\ \/ waitlist[e].status = "waiting" /\ waitlist' = Ended(e, "left")
     \/ /\ waitlist[e].status = "offered"
        /\ ProcessLockedRide(waitlist[e].offeredOn, Ended(e, "left"), waitlist')
  /\ UNCHANGED <<rideVars, clock, members, enabled>>

DeclineStandbyOffer(e) ==
  /\ waitlist[e].status = "offered"
  /\ ProcessLockedRide(waitlist[e].offeredOn, Ended(e, "declined"), waitlist')
  /\ UNCHANGED <<rideVars, clock, members, enabled>>

CanAcceptOffer(e) ==
  /\ waitlist[e].status = "offered" /\ waitlist[e].open
  /\ PassengerOf(e) \in members
  /\ ride[waitlist[e].offeredOn].status = "confirmed"
  /\ RequestOf(e).approval \notin {"pending", "denied"}
  /\ RequestOf(e).status = "open"
  /\ FreeSeats(waitlist[e].offeredOn, Ended(e, "accepted")) >= SeatsFor(e)

\* Every other active entry of the passenger for the event is cancelled.
AcceptStandbyOffer(e) ==
  /\ CanAcceptOffer(e)
  /\ reserveSeatForRequest(waitlist[e].offeredOn, waitlist[e].request)
  /\ waitlist' = [d \in Entries |->
                    IF d = e THEN [waitlist[e] EXCEPT !.status = "accepted"]
                    ELSE IF Active(d) /\ PassengerOf(d) = PassengerOf(e)
                    THEN [waitlist[d] EXCEPT !.status = "cancelled"]
                    ELSE waitlist[d]]
  /\ UNCHANGED <<offer, approving, offering, clock, members, enabled>>

-----------------------------------------------------------------------------
(* What happens around the waitlists *)

\* offer_expires_at <= now()
OfferLapses(e) ==
  /\ waitlist[e].status = "offered" /\ waitlist[e].open
  /\ waitlist' = [waitlist EXCEPT ![e].open = FALSE]
  /\ UNCHANGED <<rideVars, clock, members, enabled>>

DepartureNears(r) ==
  /\ ride[r].status # "none" /\ clock[r] < 4
  /\ clock' = [clock EXCEPT ![r] = @ + 1]
  /\ UNCHANGED <<rideVars, waitlist, members, enabled>>

RemoveMember(p) ==
  /\ p \in members \cap Leavers
  /\ members' = members \ {p}
  /\ UNCHANGED <<rideVars, waitlist, clock, enabled>>

\* The rides to clear are then processed one by one.
UpdateWaitlistSettings ==
  /\ MayDisable
  /\ enabled' = ~enabled
  /\ UNCHANGED <<rideVars, waitlist, clock, members>>

\* The handlers of the ride engine, which count the seats held by offers.
EngineStep(r) ==
  /\ \/ RequestStep(r)
     \/ LifecycleStep(r)
     \/ \E q \in Requests : \/ attachRequestToRide(r, q, HeldForOthers(r, q))
                            \/ removeRequestFromRide(r, q)
     \/ \E seats \in SeatChoices : updateRideSeats(r, seats, HeldSeats(r, waitlist))
  /\ UNCHANGED waitVars

EntryStep(e) ==
  \/ \E r, q \in Requests : JoinWaitlist(e, r, q)
  \/ LeaveWaitlist(e) \/ DeclineStandbyOffer(e) \/ AcceptStandbyOffer(e)
  \/ ExpireStandbyOffer(e) \/ OfferLapses(e)

WaitlistNext ==
  \/ \E e \in Entries : EntryStep(e)
  \/ \E r \in Requests : ProcessRideWaitlist(r) \/ DepartureNears(r) \/ EngineStep(r)
  \/ \E p \in Persons : RemoveMember(p)
  \/ UpdateWaitlistSettings

WaitlistSpec == RideInit /\ WaitlistInit /\ [][WaitlistNext]_allVars

-----------------------------------------------------------------------------
(* Properties *)

\* Entries are well typed, and an offered entry names the ride of its offer.
WaitlistTypeOK ==
  /\ RideTypeOK
  /\ waitlist \in [Entries -> EntryRows]
  /\ \A e \in Entries : waitlist[e].status = "offered" => waitlist[e].offeredOn # None
  /\ clock \in [Requests -> 1..4]
  /\ members \subseteq Persons
  /\ enabled \in BOOLEAN

\* The offers on ride r whose rider is not aboard.  Manual pooling of somebody
\* with an offer leaves the offer open, and it may be needed again.
Promised(r) == {e \in HeldBy(r, waitlist) : ~OnRide(waitlist[e].request, r)}

\* A held seat is never booked by anybody else: the passengers of an active ride
\* and those it has promised a seat together fit into it, through manual pooling,
\* removals, capacity changes, accepts, withdrawn offers and late expiries
\* (RIDE-WORKFLOW.md: "Manual pooling also counts held seats, so an offer cannot
\* be double booked").
HeldSeatsFit ==
  \A r \in Requests : ActiveRide(r) =>
    ride[r].reserved + SeatsOfEntries(waitlist, Promised(r)) <= ride[r].capacity

\* Nobody is offered a seat, or takes one, before the guardian has answered.
GuardianFirst ==
  \A e \in Entries : waitlist[e].status \in {"offered", "accepted"} =>
                       RequestOf(e).approval # "pending"

\* First come, first served: an entry that could have been offered a seat is only
\* passed over for a smaller party behind it.
PassedOverFor(d, e) ==
  /\ d < e
  /\ waitlist[d].status = "waiting" /\ waitlist[e].status = "waiting"
  /\ waitlist'[e].status = "offered" /\ waitlist'[d].status = "waiting"
  /\ PassengerOf(d) # ride[waitlist'[e].offeredOn].driver
  /\ Offerable(d)

FirstComeFirstServed ==
  [][\A d, e \in Entries : PassedOverFor(d, e) => SeatsFor(e) < SeatsFor(d)]_allVars

\* Nobody loses a place in line because of another ride: while the ride of an
\* entry can still be joined, the entry is only ended for a reason of its own or
\* because its rider has a seat; an offer of a ride that closes goes back in line.
PlaceIsKept ==
  [][\A e \in Entries :
       /\ Active(e) /\ CloseReason(waitlist[e].ride) = "none"
       /\ waitlist'[e].status \in {"cancelled", "removed"}
       => MustEnd(e) \/ SeatedForEvent(PassengerOf(e))']_allVars

\* ride-waitlists.ts, of processors on sibling rides: they "never offer one
\* person twice".
OfferedOnce ==
  \A d, e \in Entries :
    waitlist[d].status = "offered" /\ waitlist[e].status = "offered"
    /\ PassengerOf(d) = PassengerOf(e) => d = e

\* RIDE-WORKFLOW.md: accepting adds the rider "with the same seat logic as manual
\* pooling", which refuses a passenger who is aboard: a rider has one seat.
OneSeatPerRider ==
  \A r, p, q \in Requests :
    OnRide(p, r) /\ OnRide(q, r) /\ PersonOf[p] = PersonOf[q] => p = q

\* A seat does not stay empty while somebody in line could take it: when another
\* round of processing would change nothing, every party that may be offered a
\* seat is too large for the free seats (RIDE-WORKFLOW.md: a large party "keeps its
\* place while a smaller party behind it may take the seat").
SeatsFilled ==
  \A r \in Requests :
    /\ CloseReason(r) = "none" /\ ClockPhases[clock[r]] = "early"
    /\ ride[r].status = "confirmed"
    /\ ProcessLockedRide(r, waitlist, waitlist)
    => \A e \in Candidates(r, waitlist) : Offerable(e) => SeatsFor(e) > FreeSeats(r, waitlist)

\* The clock runs, offers lapse and the scheduled sweep comes round.
WaitlistFairness ==
  /\ \A r \in Requests : WF_allVars(DepartureNears(r)) /\ WF_allVars(SweepRideWaitlists(r))
  /\ \A e \in Entries : WF_allVars(OfferLapses(e))

WaitlistFairSpec == WaitlistSpec /\ WaitlistFairness

\* Nobody waits for ever, although every job may be lost: each entry is ended by
\* an answer, by processing, or at the latest by the sweep after departure.
EveryWaitEnds == \A e \in Entries : Active(e) ~> ~Active(e)
=============================================================================

---------------------------- MODULE RideLocking ----------------------------
(***************************************************************************)
(* The row locks of the transactions around waitlists and pooling, in the  *)
(* order in which lib/ride-waitlists.ts, lib/carpool.ts and                *)
(* lib/ride-lifecycle.ts take them.  PostgreSQL keeps a row lock until the *)
(* transaction ends and lets whoever wants the row wait.                   *)
(*                                                                         *)
(* A transaction takes the rows of one statement after the other; the rows *)
(* of one UPDATE it takes in the order of the query plan, which is any.    *)
(* The tables are a snapshot: which lines and offers there are is chosen   *)
(* at the start; transactions run over it again and again.                 *)
(***************************************************************************)
EXTENDS Naturals, Sequences, FiniteSets

CONSTANTS
  Rides,
  Entries,     \* active rows of ride_waitlist_entries
  People,     \* passengers; each has one ride request
  CarriedBy,   \* the ride that carries the waiter, NoOne if the request is open
  Waiters,     \* bound: the passengers of the entries
  PrimaryOf,   \* the waiter of the primary request of a ride
  Transactions,
  Handlers,    \* the handlers that may run
  MayDisable,  \* may the organisation have waitlists turned off?
  MayWaitTwice,\* may one waiter have two active entries?
  NoOne

ASSUME NoOneAssumption == NoOne \notin Rides
ASSUME CarriedByAssumption == CarriedBy \in [People -> Rides \cup {NoOne}]
ASSUME PrimaryOfAssumption ==
  PrimaryOf \in [Rides -> People] /\ \A r \in Rides : CarriedBy[PrimaryOf[r]] = r
ASSUME WaitersAssumption == Waiters \subseteq People
ASSUME HandlersAssumption ==
  Handlers \subseteq {"joinWaitlist", "answer", "acceptStandbyOffer", "processRideWaitlist",
                      "attachRequestToRide", "removeRequestFromRide", "transitionRide"}
ASSUME SwitchesAssumption == MayDisable \in BOOLEAN /\ MayWaitTwice \in BOOLEAN

VARIABLES
  home,      \* ride_id of an entry
  offeredOn, \* offered_ride_id of an entry, NoOne while it waits
  waiter, \* passenger_person_id of an entry
  closing,   \* the close reason of a ride
  plan,      \* the statements a transaction still has to run
  waiting,   \* the row whose lock a transaction has asked for
  held       \* the rows it has locked

tables == <<home, offeredOn, waiter, closing>>
lockVars == <<tables, plan, waiting, held>>

RideRow(r) == <<"ride", r>>
EntryRow(e) == <<"entry", e>>
RequestRow(p) == <<"request", p>>
AssignmentRow(p) == <<"assignment", p>>

Rows == ({"ride"} \X Rides) \cup ({"entry"} \X Entries)
        \cup ({"request", "assignment"} \X People)

NoRow == <<"none", NoOne>>

\* A statement locks rows, waiting for each, or skips those that are locked.
Lock(rows) == [rows |-> rows, skip |-> FALSE]
SkipLocked(rows) == [rows |-> rows, skip |-> TRUE]

LockInit ==
  /\ home \in [Entries -> Rides]
  /\ offeredOn \in [Entries -> Rides \cup {NoOne}]
  /\ waiter \in [Entries -> Waiters]
  /\ closing \in [Rides -> {"none", "closed"} \cup (IF MayDisable THEN {"disabled"} ELSE {})]
  /\ (\E r \in Rides : closing[r] = "disabled") => \A r \in Rides : closing[r] # "none"
  /\ ~MayWaitTwice => \A d, e \in Entries : waiter[d] = waiter[e] => d = e
  /\ plan = [t \in Transactions |-> <<>>]
  /\ waiting = [t \in Transactions |-> NoRow]
  /\ held = [t \in Transactions |-> {}]

-----------------------------------------------------------------------------
(* The statements of the handlers *)

EntryRows(E) == {EntryRow(e) : e \in E}

\* A query that joins a ride with its primary request locks both rows.
RideWithPrimary(r) == <<Lock({RideRow(r)}), Lock({RequestRow(PrimaryOf[r])})>>

\* Closing: entries of r end, and offers on r go back to their own line.
Closed(r) == {e \in Entries : /\ home[e] = r
                              /\ \/ offeredOn[e] \in {NoOne, r}
                                 \/ closing[r] = "disabled"}
Returned(r) == {e \in Entries : offeredOn[e] = r /\ home[e] # r}

\* Otherwise lapsed offers expire, any of those on r, and candidates are locked.
ProcessPlans(r) ==
  IF closing[r] # "none"
  THEN {<<Lock(EntryRows(Closed(r))), Lock(EntryRows(Returned(r)))>>}
  ELSE {<<Lock(EntryRows(E)), SkipLocked(EntryRows({e \in Entries : offeredOn[e] = NoOne}))>> :
          E \in SUBSET {e \in Entries : offeredOn[e] = r}}

\* lockEntryWithRide: the ride of the offer, or the one waited for
RideOf(e) == IF offeredOn[e] # NoOne THEN offeredOn[e] ELSE home[e]
EntryLocksBug(e) == <<Lock({EntryRow(e)}), Lock({RideRow(RideOf(e))})>>
EntryLocks(e) == <<Lock({RideRow(RideOf(e))}), Lock({EntryRow(e)})>>

\* Giving up an offer processes its ride; leaving the line does not.
AnswerPlans ==
  {EntryLocks(e) : e \in {d \in Entries : offeredOn[d] = NoOne}}
  \cup
  UNION {{EntryLocks(e) \o p : p \in ProcessPlans(offeredOn[e])} :
           e \in {d \in Entries : offeredOn[d] # NoOne}}

\* Once seated, the other active entries of the waiter are cancelled.
OthersOf(e) == {d \in Entries \ {e} : waiter[d] = waiter[e]}

\* The handler gives up when the locked request is not open.
SeatLocks(p) ==
  IF CarriedBy[p] = NoOne THEN <<Lock({RequestRow(p)}), Lock({AssignmentRow(p)})>>
                         ELSE <<Lock({RequestRow(p)})>>

AcceptPlans ==
  {EntryLocks(e) \o SeatLocks(waiter[e])
     \o (IF CarriedBy[waiter[e]] = NoOne THEN <<Lock(EntryRows(OthersOf(e)))>> ELSE <<>>) :
     e \in {d \in Entries : offeredOn[d] # NoOne}}

\* transitionRide locks the carried assignments and their requests in one query.
CarriedRows(r) ==
  {row \in Rows : row[1] \in {"request", "assignment"} /\ CarriedBy[row[2]] = r}

\* The requests that pooling is asked for are not the primary ones of active rides.
\* Two calls that swap such requests would wait for each other, then be refused.
Secondaries == People \ {PrimaryOf[r] : r \in Rides}

RemovePlan(r, p) ==
  <<Lock({RideRow(r)})>>
    \o (IF p = PrimaryOf[r] THEN <<>> ELSE <<Lock({RequestRow(p)})>>)
    \o (IF p \in Secondaries /\ CarriedBy[p] = r THEN <<Lock({AssignmentRow(p)})>> ELSE <<>>)

PlansOf(handler) ==
  CASE handler = "joinWaitlist" ->
         {<<Lock({RideRow(r)}), Lock({RequestRow(p)})>> :
            r \in Rides, p \in {q \in People : CarriedBy[q] = NoOne}}
    [] handler = "answer" -> AnswerPlans  \* leaveWaitlist, declineStandbyOffer
    [] handler = "acceptStandbyOffer" -> AcceptPlans
    [] handler = "processRideWaitlist" ->
         UNION {{<<Lock({RideRow(r)})>> \o p : p \in ProcessPlans(r)} : r \in Rides}
    [] handler = "attachRequestToRide" ->
         {RideWithPrimary(r) \o SeatLocks(p) : r \in Rides, p \in Secondaries}
    [] handler = "removeRequestFromRide" -> {RemovePlan(r, p) : r \in Rides, p \in People}
    [] handler = "transitionRide" ->
         {RideWithPrimary(r) \o <<Lock(CarriedRows(r))>> : r \in Rides}

-----------------------------------------------------------------------------

Begin(t) ==
  /\ plan[t] = <<>> /\ held[t] = {}
  /\ \E handler \in Handlers : \E p \in PlansOf(handler) : plan' = [plan EXCEPT ![t] = p]
  /\ UNCHANGED <<tables, waiting, held>>

Current(t) == Head(plan[t])
Missing(t) == Current(t).rows \ held[t]
HeldByOthers(t) == UNION {held[u] : u \in Transactions \ {t}}

AskForRow(t) ==
  /\ plan[t] # <<>> /\ ~Current(t).skip /\ waiting[t] = NoRow
  /\ \E row \in Missing(t) : waiting' = [waiting EXCEPT ![t] = row]
  /\ UNCHANGED <<tables, plan, held>>

GetRow(t) ==
  /\ waiting[t] # NoRow /\ waiting[t] \notin HeldByOthers(t)
  /\ held' = [held EXCEPT ![t] = @ \cup {waiting[t]}]
  /\ waiting' = [waiting EXCEPT ![t] = NoRow]
  /\ UNCHANGED <<tables, plan>>

GetUnlockedRows(t) ==
  /\ plan[t] # <<>> /\ Current(t).skip
  /\ held' = [held EXCEPT ![t] = @ \cup (Missing(t) \ HeldByOthers(t))]
  /\ plan' = [plan EXCEPT ![t] = Tail(@)]
  /\ UNCHANGED <<tables, waiting>>

NextStatement(t) ==
  /\ plan[t] # <<>> /\ ~Current(t).skip /\ Missing(t) = {}
  /\ plan' = [plan EXCEPT ![t] = Tail(@)]
  /\ UNCHANGED <<tables, waiting, held>>

Commit(t) ==
  /\ plan[t] = <<>> /\ held[t] # {}
  /\ held' = [held EXCEPT ![t] = {}]
  /\ UNCHANGED <<tables, plan, waiting>>

LockNext == \E t \in Transactions :
  Begin(t) \/ AskForRow(t) \/ GetRow(t) \/ GetUnlockedRows(t) \/ NextStatement(t) \/ Commit(t)

LockSpec == LockInit /\ [][LockNext]_lockVars

-----------------------------------------------------------------------------
(* Properties *)

\* Locks are on rows that exist, one transaction at a time, and a transaction
\* only waits for a row that its current statement needs.
LockTypeOK ==
  /\ \A t \in Transactions : waiting[t] \in Rows \cup {NoRow} /\ held[t] \subseteq Rows
  /\ \A t, u \in Transactions : t # u => held[t] \cap held[u] = {}
  /\ \A t \in Transactions : waiting[t] # NoRow =>
       plan[t] # <<>> /\ waiting[t] \in Missing(t)

\* ride-waitlists.ts: the locking order is "used everywhere so concurrent workers
\* and web requests cannot deadlock": no transactions wait for each other.
NoWaitCycle ==
  ~\E T \in (SUBSET Transactions) \ {{}} :
     \A t \in T : \E u \in T \ {t} : waiting[t] \in held[u]
=============================================================================

----------------------------- MODULE SeatLedger -----------------------------
(***************************************************************************)
(* What the tables of RideEngine promise to riders and drivers, without    *)
(* offers, approvals, row states or a counter: a ride is opened for one    *)
(* request, takes on and gives up other riders until its driver leaves,    *)
(* keeps those it has while it moves, and is over once and for all.        *)
(* A rider sits in one ride at a time, and the seats of those aboard,      *)
(* with those of the request the ride was opened for, fit its capacity.    *)
(***************************************************************************)
EXTENDS Naturals

CONSTANTS
  Requests,     \* requests, and the rides opened for them
  SeatsOf(_)    \* the seats that a set of requests takes

VARIABLES
  stage,     \* of a ride: "none", "boarding", "moving" or "over"
  capacity,  \* of a ride
  aboard     \* the requests that have their seats in a ride

ledgerVars == <<stage, capacity, aboard>>

Standing(q) == \A r \in Requests : q \notin aboard[r]

LedgerInit ==
  /\ stage = [r \in Requests |-> "none"]
  /\ capacity = [r \in Requests |-> 0]
  /\ aboard = [r \in Requests |-> {}]

\* The seats of r are its own even if r sits, or sat, elsewhere.
Open(r, c) ==
  /\ stage[r] = "none" /\ stage' = [stage EXCEPT ![r] = "boarding"]
  /\ capacity' = [capacity EXCEPT ![r] = c] /\ SeatsOf({r}) <= c
  /\ \/ UNCHANGED aboard
     \/ Standing(r) /\ aboard' = [aboard EXCEPT ![r] = {r}]

Book(r, q) ==
  /\ stage[r] = "boarding" /\ q # r /\ Standing(q)
  /\ aboard' = [aboard EXCEPT ![r] = @ \cup {q}]
  /\ SeatsOf(aboard[r] \cup {r, q}) <= capacity[r]
  /\ UNCHANGED <<stage, capacity>>

Release(r, q) ==
  /\ stage[r] = "boarding" /\ q # r /\ q \in aboard[r]
  /\ aboard' = [aboard EXCEPT ![r] = @ \ {q}]
  /\ UNCHANGED <<stage, capacity>>

Resize(r, c) ==
  /\ stage[r] = "boarding" /\ capacity' = [capacity EXCEPT ![r] = c]
  /\ SeatsOf(aboard[r] \cup {r}) <= c
  /\ UNCHANGED <<stage, aboard>>

Depart(r) ==
  /\ stage[r] = "boarding" /\ stage' = [stage EXCEPT ![r] = "moving"]
  /\ UNCHANGED <<capacity, aboard>>

Over(r) ==
  /\ stage[r] \in {"boarding", "moving"} /\ stage' = [stage EXCEPT ![r] = "over"]
  /\ aboard' = [aboard EXCEPT ![r] = {}]
  /\ UNCHANGED capacity

LedgerStep(r) ==
  \/ \E c \in 0..12 : Open(r, c) \/ Resize(r, c)
  \/ \E q \in Requests : Book(r, q) \/ Release(r, q)
  \/ Depart(r) \/ Over(r)

\* Only what changes the ledger is a step of it.
LedgerNext == ledgerVars' # ledgerVars /\ \E r \in Requests : LedgerStep(r)
LedgerSpec == LedgerInit /\ [][LedgerNext]_ledgerVars

-----------------------------------------------------------------------------
(* What follows for whoever implements it *)

\* Nobody has seats in two rides.
OneSeatEach == \A r, s \in Requests : r # s => aboard[r] \cap aboard[s] = {}

\* Nobody stands in a ride.
EveryoneSits ==
  \A r \in Requests : stage[r] \in {"boarding", "moving"} => SeatsOf(aboard[r] \cup {r}) <= capacity[r]
=============================================================================

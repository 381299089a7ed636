------------------------------- MODULE MCRides -------------------------------
(* The tables of the rides, the verified pickup of one ride and the row locks *)
(* of the transactions, side by side: three views of the same handlers that   *)
(* share no variable.  Each behaviour is one of one view.  The tables have    *)
(* two instances: a pool of three requests with one driver, and one request   *)
(* that two drivers offer on.                                                 *)
EXTENDS MCRideEngine, PickupHandshake, RideLocking

CONSTANTS p4, a, b, e1, e2, t1, t2, d1, d2

VARIABLE part
vars == <<part, rideVars, pickupVars, lockVars>>

TwoCarriedBy == (p1 :> NoOne) @@ (p2 :> a) @@ (p3 :> a) @@ (p4 :> b)
TwoPrimaries == (a :> p3) @@ (b :> p4)

\* Entries and transactions are interchangeable.
Alike == Permutations({e1, e2}) \cup Permutations({t1, t2})

NobodyWaits ==
  /\ home = [e \in Entries |-> a] /\ offeredOn = [e \in Entries |-> NoOne]
  /\ closing = [r \in Rides |-> "none"]

\* One driver, and one handler at a time between its read and its write.
Pool ==
  /\ \A q \in Requests : offer'[q][d2] = offer[q][d2]
  /\ \A o \in offering' : o[2] = d1
  /\ Cardinality(approving') + Cardinality(offering') <= 1

\* One request.
Offers == \A q \in Requests \ {q2} : request'[q] = request[q]

Init ==
  /\ RideInit /\ PickupInit /\ LockInit
  /\ part \in {"pool", "offers", "pickup", "locks"}
  /\ part # "locks" => NobodyWaits

Next ==
  \/ part = "pool" /\ RideNext /\ Pool /\ UNCHANGED <<part, pickupVars, lockVars>>
  \/ part = "offers" /\ RideNext /\ Offers /\ UNCHANGED <<part, pickupVars, lockVars>>
  \/ part = "pickup" /\ PickupNext /\ UNCHANGED <<part, rideVars, lockVars>>
  \/ part = "locks" /\ LockNext /\ UNCHANGED <<part, rideVars, pickupVars>>

Spec == Init /\ [][Next]_vars
=============================================================================

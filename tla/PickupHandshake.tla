-------------------------- MODULE PickupHandshake --------------------------
(***************************************************************************)
(* Verified pickup (lib/pickup-handshake.ts with migration 024): driver    *)
(* and passenger both confirm a short-lived handshake, and a ride whose    *)
(* organisation or guardian requires it cannot be picked up without one.   *)
(*                                                                         *)
(* One ride.  confirmPickupHandshake locks the handshake row, but reads    *)
(* the status of the ride on another connection and without a lock, so it  *)
(* is two actions; startPickupHandshake runs without a transaction, so it  *)
(* is two as well.  The actors are authorised for the ride.                *)
(***************************************************************************)
EXTENDS RidePolicy, FiniteSets

CONSTANTS
  Riders,      \* persons who may ride
  Primary,     \* the passenger of the primary request
  OrgRequires, \* pickup_verification_mode = 'required'
  Guarded,     \* the riders whose guardian set require_verified_pickup
  MaxShakes,   \* bound: handshakes of the ride
  MaxStarts    \* bound: concurrent calls of startPickupHandshake

ASSUME PrimaryAssumption == Primary \in Riders
ASSUME GuardedAssumption == Guarded \subseteq Riders
ASSUME OrgRequiresAssumption == OrgRequires \in BOOLEAN
ASSUME BoundsAssumption == MaxShakes \in Nat /\ MaxStarts \in Nat

VARIABLES
  status,     \* rides.status
  aboard,     \* the riders with a confirmed seat
  handshake,  \* ride_pickup_handshakes
  confirming, \* per handshake, the call that holds its lock
  starting    \* calls that have checked the status of the ride

pickupVars == <<status, aboard, handshake, confirming, starting>>

Shakes == 1..MaxShakes
Roles == {"driver", "passenger"}
ActiveStatuses == {"pending", "driver_confirmed", "passenger_confirmed"}

ShakeRows ==
  [status : ActiveStatuses \cup {"none", "verified", "expired"},
   confirmed : SUBSET Roles, \* driver_confirmed_at and passenger_confirmed_at
   verifiedAt : BOOLEAN,
   live : BOOLEAN]           \* expires_at is in the future

Idle == [role |-> "none", seen |-> "none"]

PickupInit ==
  /\ status = "confirmed"
  /\ aboard = {Primary}
  /\ handshake = [h \in Shakes |-> [status |-> "none", confirmed |-> {},
                                    verifiedAt |-> FALSE, live |-> FALSE]]
  /\ confirming = [h \in Shakes |-> Idle]
  /\ starting = 0

-----------------------------------------------------------------------------
(* startPickupHandshake *)

ReadForStart ==
  /\ status \in {"driver_en_route", "arrived"}
  /\ starting < MaxStarts
  /\ starting' = starting + 1
  /\ UNCHANGED <<status, aboard, handshake, confirming>>

ActiveShakes == {h \in Shakes : handshake[h].status \in ActiveStatuses}
Lapsed == {h \in ActiveShakes : ~handshake[h].live}

\* Lapsed handshakes expire, which waits for a confirmation that holds the row;
\* a live one is reused, otherwise the next one is inserted.
startPickupHandshake ==
  /\ starting > 0 /\ starting' = starting - 1
  /\ \A h \in Lapsed : confirming[h] = Idle
  /\ LET swept == [h \in Shakes |-> IF h \in Lapsed
                                    THEN [handshake[h] EXCEPT !.status = "expired"]
                                    ELSE handshake[h]]
     IN  \/ /\ ActiveShakes # Lapsed
            /\ handshake' = swept
         \/ /\ ActiveShakes = Lapsed
            /\ \E h \in Shakes :
                 /\ handshake[h].status = "none"
                 /\ \A g \in Shakes : g < h => handshake[g].status # "none"
                 /\ handshake' = [swept EXCEPT ![h] =
                                    [status |-> "pending", confirmed |-> {},
                                     verifiedAt |-> FALSE, live |-> TRUE]]
  /\ UNCHANGED <<status, aboard, confirming>>

\* TTL_MINUTES pass.
Lapse(h) ==
  /\ handshake[h].live
  /\ handshake' = [handshake EXCEPT ![h].live = FALSE]
  /\ UNCHANGED <<status, aboard, confirming, starting>>

-----------------------------------------------------------------------------
(* confirmPickupHandshake *)

\* A call that comes too late expires the handshake, even a verified one.
ConfirmTooLate(h) ==
  /\ handshake[h].status # "none" /\ ~handshake[h].live
  /\ confirming[h] = Idle
  /\ handshake' = [handshake EXCEPT ![h].status = "expired"]
  /\ UNCHANGED <<status, aboard, confirming, starting>>

ReadForConfirm(h, role) ==
  /\ handshake[h].status # "none" /\ handshake[h].live
  /\ confirming[h] = Idle
  /\ confirming' = [confirming EXCEPT ![h] = [role |-> role, seen |-> status]]
  /\ UNCHANGED <<status, aboard, handshake, starting>>

VerifiedBy(roles) == roles = Roles

Confirmed(h) ==
  LET role == confirming[h].role
      roles == handshake[h].confirmed \cup {role}
  IN  [handshake[h] EXCEPT
         !.confirmed = roles,
         !.status = IF VerifiedBy(roles) THEN "verified"
                    ELSE IF role = "driver" THEN "driver_confirmed" ELSE "passenger_confirmed",
         !.verifiedAt = @ \/ VerifiedBy(roles)]

\* The second confirmation of an arrived ride picks the rider up.  The trigger
\* bandwagon_enforce_verified_pickup then finds this very handshake verified.
confirmPickupHandshake(h) ==
  /\ confirming[h] # Idle
  /\ handshake' = [handshake EXCEPT ![h] = Confirmed(h)]
  /\ status' = IF Confirmed(h).status = "verified" /\ confirming[h].seen = "arrived"
               THEN "picked_up" ELSE status
  /\ confirming' = [confirming EXCEPT ![h] = Idle]
  /\ UNCHANGED <<aboard, starting>>

-----------------------------------------------------------------------------
(* transitionRide, and the riders that join before the driver leaves *)

\* Only the passenger of the primary request is asked about.
Required == OrgRequires \/ Primary \in Guarded

HasVerifiedBug == \E h \in Shakes : handshake[h].confirmed # {}
HasVerified == \E h \in Shakes : handshake[h].status = "verified" /\ handshake[h].verifiedAt

\* The check of the handler and the trigger of migration 024 are the same.
transitionRide(to) ==
  /\ canTransitionRide(status, to)
  /\ to = "picked_up" => ~Required \/ HasVerified
  /\ to = "no_show" => canEndPooledRideAsNoShow(Cardinality(aboard))
  /\ status' = to
  /\ UNCHANGED <<aboard, handshake, confirming, starting>>

AttachRider(p) ==
  /\ status = "confirmed" /\ p \notin aboard
  /\ aboard' = aboard \cup {p}
  /\ UNCHANGED <<status, handshake, confirming, starting>>

PickupNext ==
  \/ ReadForStart \/ startPickupHandshake
  \/ \E h \in Shakes : \/ Lapse(h) \/ ConfirmTooLate(h) \/ confirmPickupHandshake(h)
                       \/ \E role \in Roles : ReadForConfirm(h, role)
  \/ \E to \in RideStatuses : transitionRide(to)
  \/ \E p \in Riders : AttachRider(p)

PickupSpec == PickupInit /\ [][PickupNext]_pickupVars

-----------------------------------------------------------------------------
(* Properties *)

\* Rows are well typed; at most one handshake is active, as the unique index
\* ride_pickup_handshake_one_active_idx demands, although a confirmation may
\* finish after the handshake lapsed.
PickupTypeOK ==
  /\ status \in RideStatuses
  /\ aboard \subseteq Riders
  /\ handshake \in [Shakes -> ShakeRows]
  /\ confirming \in [Shakes -> [role : Roles \cup {"none"}, seen : RideStatuses \cup {"none"}]]
  /\ starting \in 0..MaxStarts
  /\ Cardinality(ActiveShakes) <= 1

\* README.md: "Both sides must confirm": a handshake counts as verified only
\* after the driver and the passenger both did, in whatever order, twice or
\* across its expiry.
VerifiedIsMutual ==
  \A h \in Shakes : handshake[h].status = "verified" \/ handshake[h].verifiedAt
                      => handshake[h].confirmed = Roles

\* Where pickup verification is required, a ride under way has been verified,
\* whether the driver tapped "Picked Up" or the last confirmation did it.
RequiredPickupIsVerified ==
  Required /\ status \in {"picked_up", "completed"}
    => \E h \in Shakes : handshake[h].verifiedAt /\ handshake[h].confirmed = Roles

\* A pickup is proven by a handshake, one at a time and of both sides, and where
\* proof is required no ride gets under way without.
PickupIsProven == Cardinality(ActiveShakes) <= 1 /\ VerifiedIsMutual /\ RequiredPickupIsVerified

\* ride-policy.test.ts: no status follows "cancelled" or "completed": a ride that
\* ended is not brought back by a confirmation that read its status before.
EndedStaysEnded == [][(status \in EndedStatuses) => UNCHANGED status]_pickupVars

\* Household page: with "Require Verified Pickup", "Driver and rider must complete
\* the one-time pickup handshake", whether the rider's request is the primary one
\* of the ride or was pooled with it.
GuardedRiderIsVerified ==
  status = "picked_up" /\ aboard \cap Guarded # {} => \E h \in Shakes : handshake[h].verifiedAt
=============================================================================

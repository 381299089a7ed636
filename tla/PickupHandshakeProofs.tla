----------------------- MODULE PickupHandshakeProofs -----------------------
(* Safety of verified pickup for any number of riders, handshakes and      *)
(* concurrent calls; and freedom from deadlock of the transactions around  *)
(* rides, in the second half, for any number of them.                      *)
EXTENDS PickupHandshake, RideLocking, FiniteSetTheorems, TLAPS

\* The types, with the index of active handshakes left to OneActive.
Typed ==
  /\ status \in RideStatuses
  /\ aboard \subseteq Riders
  /\ handshake \in [Shakes -> ShakeRows]
  /\ confirming \in [Shakes -> [role : Roles \cup {"none"}, seen : RideStatuses \cup {"none"}]]
  /\ starting \in 0..MaxStarts

Active(h) == handshake[h].status \in ActiveStatuses

\* ride_pickup_handshake_one_active_idx.
OneActive == \A g, h \in Shakes : Active(g) /\ Active(h) => g = h

\* A row that was not inserted yet carries nothing, and an expired one has
\* lapsed: it cannot be confirmed again.
RowsInOrder ==
  \A h \in Shakes :
    /\ handshake[h].status = "none" => ~handshake[h].live /\ ~handshake[h].verifiedAt
    /\ handshake[h].status = "expired" => ~handshake[h].live

\* A confirmation in flight holds the lock of its row, which nobody expires
\* or inserts under it.
HeldRowStays ==
  \A h \in Shakes : confirming[h] # Idle =>
    /\ confirming[h].role \in Roles
    /\ handshake[h].status \notin {"none", "expired"}

PickupInv ==
  /\ Typed
  /\ OneActive
  /\ RowsInOrder
  /\ HeldRowStays
  /\ VerifiedIsMutual
  /\ RequiredPickupIsVerified

-----------------------------------------------------------------------------
(* Lemmas on the operators of the model *)

\* Only a ride that was picked up is completed.
LEMMA CompletedAfterPickup ==
  ASSUME NEW from, NEW to, canTransitionRide(from, to)
  PROVE  to \in RideStatuses /\ (to = "completed" => from = "picked_up")
BY DEF canTransitionRide, RideStatuses, transitions

\* What a confirmation makes of a row: it is verified by the second side, once
\* verified stays so, and is otherwise active as before.
LEMMA ConfirmedRow ==
  ASSUME PickupInv, NEW h \in Shakes, confirming[h] # Idle
  PROVE  /\ Confirmed(h) \in ShakeRows
         /\ Confirmed(h).status \notin {"none", "expired"}
         /\ Confirmed(h).status = "verified" \/ Confirmed(h).verifiedAt
              => Confirmed(h).confirmed = Roles
         /\ Confirmed(h).status = "verified" => Confirmed(h).verifiedAt
         /\ handshake[h].verifiedAt => Confirmed(h).verifiedAt
         /\ Confirmed(h).status \in ActiveStatuses => Active(h)
<1> DEFINE role == confirming[h].role
           roles == handshake[h].confirmed \cup {role}
<1>1. /\ handshake[h] \in ShakeRows
      /\ role \in Roles
      /\ handshake[h].status \notin {"none", "expired"}
      /\ handshake[h].status = "verified" \/ handshake[h].verifiedAt
           => handshake[h].confirmed = Roles
  BY DEF PickupInv, Typed, HeldRowStays, VerifiedIsMutual
<1>2. roles \in SUBSET Roles /\ VerifiedBy(roles) \in BOOLEAN
  BY <1>1 DEF ShakeRows, VerifiedBy
<1>3. handshake[h].confirmed = Roles => roles = Roles
  BY <1>1
<1>4. /\ Confirmed(h).confirmed = roles
      /\ Confirmed(h).status = IF VerifiedBy(roles) THEN "verified"
                               ELSE IF role = "driver" THEN "driver_confirmed"
                               ELSE "passenger_confirmed"
      /\ Confirmed(h).verifiedAt = (handshake[h].verifiedAt \/ VerifiedBy(roles))
      /\ Confirmed(h).live = handshake[h].live
  BY <1>1 DEF Confirmed, ShakeRows
<1>5. Confirmed(h) \in ShakeRows
  BY <1>1, <1>2 DEF Confirmed, ShakeRows, ActiveStatuses
<1>6. handshake[h].status # "verified" => Active(h)
  BY <1>1 DEF ShakeRows, Active
<1> QED
  BY <1>1, <1>2, <1>3, <1>4, <1>5, <1>6 DEF VerifiedBy, ActiveStatuses

\* What startPickupHandshake makes of the rows.
LEMMA Started ==
  ASSUME PickupInv, startPickupHandshake
  PROVE  /\ handshake' \in [Shakes -> ShakeRows]
         /\ \A h \in Shakes :
              \/ handshake'[h] = handshake[h] /\ h \notin Lapsed
              \/ /\ h \in Lapsed /\ confirming[h] = Idle
                 /\ handshake'[h] = [handshake[h] EXCEPT !.status = "expired"]
              \/ /\ handshake[h].status = "none" /\ ActiveShakes = Lapsed
                 /\ handshake'[h] = [status |-> "pending", confirmed |-> {},
                                     verifiedAt |-> FALSE, live |-> TRUE]
         /\ \A g, h \in Shakes : handshake[g].status = "none" /\ handshake'[g] # handshake[g]
              /\ handshake[h].status = "none" /\ handshake'[h] # handshake[h] => g = h
<1> DEFINE fresh == [status |-> "pending", confirmed |-> {}, verifiedAt |-> FALSE, live |-> TRUE]
           swept == [h \in Shakes |-> IF h \in Lapsed
                                      THEN [handshake[h] EXCEPT !.status = "expired"]
                                      ELSE handshake[h]]
<1>1. handshake \in [Shakes -> ShakeRows]
  BY DEF PickupInv, Typed
<1>2. fresh \in ShakeRows
  BY DEF ShakeRows, ActiveStatuses
<1>3. \A h \in Shakes : [handshake[h] EXCEPT !.status = "expired"] \in ShakeRows
  BY <1>1 DEF ShakeRows
<1>4. swept \in [Shakes -> ShakeRows]
  BY <1>1, <1>3
<1>5. \A h \in Lapsed : confirming[h] = Idle /\ handshake[h].status # "none"
  BY DEF startPickupHandshake, Lapsed, ActiveShakes, ActiveStatuses
<1>6. CASE handshake' = swept
  BY <1>4, <1>5, <1>6
<1>7. CASE /\ ActiveShakes = Lapsed
           /\ \E h \in Shakes : handshake[h].status = "none"
                                /\ handshake' = [swept EXCEPT ![h] = fresh]
  <2>1. PICK n \in Shakes : handshake[n].status = "none" /\ handshake' = [swept EXCEPT ![n] = fresh]
    BY <1>7
  <2>2. handshake' \in [Shakes -> ShakeRows]
    BY <1>2, <1>4, <2>1
  <2>3. handshake'[n] = fresh /\ \A h \in Shakes : h # n => handshake'[h] = swept[h]
    BY <1>4, <2>1
  <2>4. n \notin Lapsed
    BY <1>5, <2>1
  <2> QED
    BY <1>5, <1>7, <2>1, <2>2, <2>3, <2>4
<1> QED
  BY <1>6, <1>7 DEF startPickupHandshake

-----------------------------------------------------------------------------
(* Steps *)

LEMMA InitInv == PickupInit => PickupInv
<1> SUFFICES ASSUME PickupInit PROVE PickupInv
  OBVIOUS
<1>1. Typed
  BY PrimaryAssumption, BoundsAssumption
  DEF PickupInit, Typed, ShakeRows, Idle, RideStatuses
<1>2. OneActive /\ RowsInOrder /\ HeldRowStays
  BY DEF PickupInit, OneActive, Active, ActiveStatuses, RowsInOrder, HeldRowStays
<1>3. VerifiedIsMutual /\ RequiredPickupIsVerified
  BY DEF PickupInit, VerifiedIsMutual, RequiredPickupIsVerified
<1> QED
  BY <1>1, <1>2, <1>3 DEF PickupInv

\* Rows and status unchanged, every other conjunct but the types follows.
LEMMA RowsUnchanged ==
  ASSUME PickupInv, Typed', UNCHANGED <<status, handshake, confirming>>
  PROVE  PickupInv'
<1>1. OneActive' /\ RowsInOrder' /\ HeldRowStays'
  BY DEF PickupInv, OneActive, Active, RowsInOrder, HeldRowStays
<1>2. VerifiedIsMutual' /\ RequiredPickupIsVerified'
  BY DEF PickupInv, VerifiedIsMutual, RequiredPickupIsVerified, Required
<1> QED
  BY <1>1, <1>2 DEF PickupInv

\* A step that changes one row at most keeps the row a required pickup rests on
\* when that row does not lose its verification.
LEMMA StillVerified ==
  ASSUME PickupInv, VerifiedIsMutual', UNCHANGED status,
         \A h \in Shakes : handshake[h].verifiedAt => handshake'[h].verifiedAt
  PROVE  RequiredPickupIsVerified'
BY DEF PickupInv, RequiredPickupIsVerified, VerifiedIsMutual, Required

LEMMA StartStep == ASSUME PickupInv, startPickupHandshake PROVE PickupInv'
<1>1. Typed'
  <2>1. handshake' \in [Shakes -> ShakeRows]
    BY Started
  <2>2. starting' \in 0..MaxStarts
    BY BoundsAssumption DEF startPickupHandshake, PickupInv, Typed
  <2> QED
    BY <2>1, <2>2 DEF startPickupHandshake, PickupInv, Typed
<1> DEFINE fresh == [status |-> "pending", confirmed |-> {}, verifiedAt |-> FALSE, live |-> TRUE]
           Kept(h) == handshake'[h] = handshake[h] /\ h \notin Lapsed
           Expires(h) == /\ h \in Lapsed /\ confirming[h] = Idle
                         /\ handshake'[h] = [handshake[h] EXCEPT !.status = "expired"]
           Inserted(h) == /\ handshake[h].status = "none" /\ ActiveShakes = Lapsed
                          /\ handshake'[h] = fresh
<1>2. \A h \in Shakes : Kept(h) \/ Expires(h) \/ Inserted(h)
  BY Started
<1>3. \A h \in Shakes : Expires(h) =>
        /\ handshake'[h].status = "expired" /\ ~handshake'[h].live
        /\ handshake'[h].confirmed = handshake[h].confirmed
        /\ handshake'[h].verifiedAt = handshake[h].verifiedAt
  BY DEF PickupInv, Typed, ShakeRows, Lapsed
<1>4. \A h \in Shakes : Inserted(h) =>
        /\ handshake'[h].status = "pending" /\ handshake'[h] # handshake[h]
        /\ ~handshake'[h].verifiedAt /\ ~handshake[h].verifiedAt
  BY DEF PickupInv, RowsInOrder
<1>5. OneActive'
  <2> SUFFICES ASSUME NEW g \in Shakes, NEW h \in Shakes, Active(g)', Active(h)'
               PROVE  g = h
    BY DEF OneActive
  <2>1. \A k \in Shakes : Active(k)' => Kept(k) \/ Inserted(k)
    BY <1>2, <1>3 DEF Active, ActiveStatuses
  <2>2. \A k \in Shakes : Active(k)' /\ Kept(k) => Active(k) /\ ActiveShakes # Lapsed
    BY DEF Active, ActiveShakes
  <2>3. CASE ActiveShakes # Lapsed
    BY <2>1, <2>2, <2>3 DEF PickupInv, OneActive
  <2>4. CASE ActiveShakes = Lapsed
    BY <1>4, <2>1, <2>2, <2>4, Started
  <2> QED
    BY <2>3, <2>4
<1>6. RowsInOrder'
  BY <1>2, <1>3, <1>4 DEF PickupInv, RowsInOrder
<1>7. HeldRowStays'
  BY <1>2, <1>3, <1>4 DEF startPickupHandshake, PickupInv, HeldRowStays
<1>8. VerifiedIsMutual'
  <2>1. \A h \in Shakes : Expires(h) => handshake[h].status # "verified"
    BY DEF Lapsed, ActiveShakes, ActiveStatuses
  <2> QED
    BY <1>2, <1>3, <1>4, <2>1 DEF PickupInv, VerifiedIsMutual
<1>9. RequiredPickupIsVerified'
  BY <1>2, <1>3, <1>4, <1>8, StillVerified DEF startPickupHandshake
<1> QED
  BY <1>1, <1>5, <1>6, <1>7, <1>8, <1>9 DEF PickupInv

LEMMA LapseStep == ASSUME PickupInv, NEW h \in Shakes, Lapse(h) PROVE PickupInv'
<1>1. Typed'
  BY DEF Lapse, PickupInv, Typed, ShakeRows
<1>2. \A g \in Shakes :
        /\ handshake'[g].status = handshake[g].status
        /\ handshake'[g].confirmed = handshake[g].confirmed
        /\ handshake'[g].verifiedAt = handshake[g].verifiedAt
        /\ handshake'[g].live => handshake[g].live
  BY DEF Lapse, PickupInv, Typed, ShakeRows
<1>3. OneActive' /\ RowsInOrder' /\ HeldRowStays'
  BY <1>2 DEF Lapse, PickupInv, OneActive, Active, RowsInOrder, HeldRowStays
<1>4. VerifiedIsMutual'
  BY <1>2 DEF PickupInv, VerifiedIsMutual
<1> QED
  BY <1>1, <1>2, <1>3, <1>4, StillVerified DEF Lapse, PickupInv

LEMMA TooLateStep == ASSUME PickupInv, NEW h \in Shakes, ConfirmTooLate(h) PROVE PickupInv'
<1>1. Typed'
  BY DEF ConfirmTooLate, PickupInv, Typed, ShakeRows
<1>2. \A g \in Shakes :
        /\ IF g = h THEN handshake'[g].status = "expired" /\ ~handshake'[g].live
                    ELSE handshake'[g].status = handshake[g].status
                         /\ handshake'[g].live = handshake[g].live
        /\ handshake'[g].confirmed = handshake[g].confirmed
        /\ handshake'[g].verifiedAt = handshake[g].verifiedAt
  BY DEF ConfirmTooLate, PickupInv, Typed, ShakeRows
<1>3. OneActive' /\ RowsInOrder'
  BY <1>2 DEF PickupInv, OneActive, Active, ActiveStatuses, RowsInOrder
<1>4. HeldRowStays'
  BY <1>2 DEF ConfirmTooLate, PickupInv, HeldRowStays
<1>5. VerifiedIsMutual'
  BY <1>2 DEF PickupInv, VerifiedIsMutual
<1> QED
  BY <1>1, <1>2, <1>3, <1>4, <1>5, StillVerified DEF ConfirmTooLate, PickupInv

LEMMA ReadStep ==
  ASSUME PickupInv, NEW h \in Shakes, NEW role \in Roles, ReadForConfirm(h, role)
  PROVE  PickupInv'
<1>1. Typed'
  BY DEF ReadForConfirm, PickupInv, Typed
<1>2. OneActive' /\ RowsInOrder' /\ VerifiedIsMutual' /\ RequiredPickupIsVerified'
  BY StillVerified
  DEF ReadForConfirm, PickupInv, OneActive, Active, RowsInOrder, VerifiedIsMutual
<1>3. HeldRowStays'
  <2>1. /\ handshake[h].status \notin {"none", "expired"}
        /\ confirming'[h].role \in Roles
        /\ \A g \in Shakes : g # h => confirming'[g] = confirming[g]
    BY DEF ReadForConfirm, PickupInv, Typed, RowsInOrder
  <2> QED
    BY <2>1 DEF ReadForConfirm, PickupInv, HeldRowStays
<1> QED
  BY <1>1, <1>2, <1>3 DEF PickupInv

LEMMA ConfirmStep == ASSUME PickupInv, NEW h \in Shakes, confirmPickupHandshake(h) PROVE PickupInv'
<1>1. /\ confirming[h] # Idle /\ handshake'[h] = Confirmed(h)
      /\ confirming'[h] = Idle
      /\ \A g \in Shakes : g # h => handshake'[g] = handshake[g] /\ confirming'[g] = confirming[g]
  BY DEF confirmPickupHandshake, PickupInv, Typed
<1>2. Typed'
  <2>1. status' \in RideStatuses
    BY DEF confirmPickupHandshake, PickupInv, Typed, RideStatuses
  <2>2. handshake' \in [Shakes -> ShakeRows]
    BY <1>1, ConfirmedRow DEF confirmPickupHandshake, PickupInv, Typed
  <2>3. confirming' \in [Shakes -> [role : Roles \cup {"none"}, seen : RideStatuses \cup {"none"}]]
    BY DEF confirmPickupHandshake, PickupInv, Typed, Idle
  <2> QED
    BY <2>1, <2>2, <2>3 DEF confirmPickupHandshake, PickupInv, Typed
<1>3. OneActive'
  BY <1>1, ConfirmedRow DEF PickupInv, OneActive, Active
<1>4. RowsInOrder'
  BY <1>1, ConfirmedRow DEF PickupInv, RowsInOrder
<1>5. HeldRowStays'
  BY <1>1 DEF PickupInv, HeldRowStays
<1>6. VerifiedIsMutual'
  BY <1>1, ConfirmedRow DEF PickupInv, VerifiedIsMutual
<1>7. RequiredPickupIsVerified'
  <2>1. CASE status' = status
    BY <1>1, <1>6, <2>1, ConfirmedRow, StillVerified
  <2>2. CASE Confirmed(h).status = "verified"
    BY <1>1, <1>6, <2>2, ConfirmedRow DEF RequiredPickupIsVerified, VerifiedIsMutual
  <2> QED
    BY <2>1, <2>2 DEF confirmPickupHandshake
<1> QED
  BY <1>2, <1>3, <1>4, <1>5, <1>6, <1>7 DEF PickupInv

LEMMA TransitionStep ==
  ASSUME PickupInv, NEW to \in RideStatuses, transitionRide(to)
  PROVE  PickupInv'
<1>1. Typed'
  BY DEF transitionRide, PickupInv, Typed
<1>2. OneActive' /\ RowsInOrder' /\ HeldRowStays' /\ VerifiedIsMutual'
  BY DEF transitionRide, PickupInv, OneActive, Active, RowsInOrder, HeldRowStays, VerifiedIsMutual
<1>3. RequiredPickupIsVerified'
  <2> SUFFICES ASSUME Required, to \in {"picked_up", "completed"}
               PROVE  \E h \in Shakes : handshake[h].verifiedAt /\ handshake[h].confirmed = Roles
    BY DEF transitionRide, RequiredPickupIsVerified, Required
  <2>1. CASE to = "picked_up"
    BY <2>1 DEF transitionRide, HasVerified, PickupInv, VerifiedIsMutual
  <2>2. CASE to = "completed"
    BY <2>2, CompletedAfterPickup DEF transitionRide, PickupInv, RequiredPickupIsVerified
  <2> QED
    BY <2>1, <2>2
<1> QED
  BY <1>1, <1>2, <1>3 DEF PickupInv

LEMMA NextInv == PickupInv /\ [PickupNext]_pickupVars => PickupInv'
<1> SUFFICES ASSUME PickupInv, [PickupNext]_pickupVars PROVE PickupInv'
  OBVIOUS
<1>1. CASE ReadForStart
  <2>1. Typed'
    BY <1>1, BoundsAssumption DEF ReadForStart, PickupInv, Typed
  <2> QED
    BY <1>1, <2>1, RowsUnchanged DEF ReadForStart
<1>2. CASE startPickupHandshake
  BY <1>2, StartStep
<1>3. ASSUME NEW h \in Shakes, Lapse(h) PROVE PickupInv'
  BY <1>3, LapseStep
<1>4. ASSUME NEW h \in Shakes, ConfirmTooLate(h) PROVE PickupInv'
  BY <1>4, TooLateStep
<1>5. ASSUME NEW h \in Shakes, confirmPickupHandshake(h) PROVE PickupInv'
  BY <1>5, ConfirmStep
<1>6. ASSUME NEW h \in Shakes, NEW role \in Roles, ReadForConfirm(h, role) PROVE PickupInv'
  BY <1>6, ReadStep
<1>7. ASSUME NEW to \in RideStatuses, transitionRide(to) PROVE PickupInv'
  BY <1>7, TransitionStep
<1>8. ASSUME NEW p \in Riders, AttachRider(p) PROVE PickupInv'
  <2>1. Typed'
    BY <1>8 DEF AttachRider, PickupInv, Typed
  <2> QED
    BY <1>8, <2>1, RowsUnchanged DEF AttachRider
<1>9. CASE UNCHANGED pickupVars
  <2>1. Typed'
    BY <1>9 DEF pickupVars, PickupInv, Typed
  <2> QED
    BY <1>9, <2>1, RowsUnchanged DEF pickupVars
<1> QED
  BY <1>1, <1>2, <1>3, <1>4, <1>5, <1>6, <1>7, <1>8, <1>9 DEF PickupNext

-----------------------------------------------------------------------------
(* Theorems *)

\* The invariant holds of every behaviour of the handshake.
THEOREM PickupInvariant == PickupSpec => []PickupInv
<1>1. PickupInit => PickupInv
  BY InitInv
<1>2. PickupInv /\ [PickupNext]_pickupVars => PickupInv'
  BY NextInv
<1> QED
  BY <1>1, <1>2, PTL DEF PickupSpec

\* Rows keep their types and at most one handshake of a ride is active, with
\* any number of calls that start one at once.
THEOREM PickupTypeCorrect == PickupSpec => []PickupTypeOK
<1>1. PickupInv => PickupTypeOK
  <2> SUFFICES ASSUME PickupInv PROVE Cardinality(ActiveShakes) <= 1
    BY DEF PickupInv, Typed, PickupTypeOK
  <2>1. CASE ActiveShakes = {}
    BY <2>1, FS_EmptySet
  <2>2. CASE \E h \in Shakes : h \in ActiveShakes
    <3>1. PICK h \in Shakes : h \in ActiveShakes
      BY <2>2
    <3>2. ActiveShakes = {h}
      BY <3>1 DEF PickupInv, OneActive, Active, ActiveShakes
    <3> QED
      BY <3>2, FS_Singleton
  <2> QED
    BY <2>1, <2>2 DEF ActiveShakes
<1> QED
  BY <1>1, PickupInvariant, PTL

\* A handshake counts as verified only after both sides confirmed it.
THEOREM VerificationCorrect == PickupSpec => []VerifiedIsMutual
<1>1. PickupInv => VerifiedIsMutual
  BY DEF PickupInv
<1> QED
  BY <1>1, PickupInvariant, PTL

\* Where it is required, no ride is under way without a verified pickup.
THEOREM RequirementCorrect == PickupSpec => []RequiredPickupIsVerified
<1>1. PickupInv => RequiredPickupIsVerified
  BY DEF PickupInv
<1> QED
  BY <1>1, PickupInvariant, PTL

\* The verified pickup as a whole: one live handshake, both sides' answers, and
\* no passenger picked up without them (lib/pickup-handshake.ts).
THEOREM ProofOfPickup == PickupSpec => []PickupIsProven
<1>1. PickupTypeOK /\ VerifiedIsMutual /\ RequiredPickupIsVerified => PickupIsProven
  BY DEF PickupIsProven, PickupTypeOK
<1> QED BY <1>1, PickupTypeCorrect, VerificationCorrect, RequirementCorrect, PTL

-----------------------------------------------------------------------------
(* Row locks: the order of the rows that every plan of every handler keeps *)
(* to, the ride row first, and why nobody can wait in a circle in it.      *)

Statements == [rows : SUBSET Rows, skip : BOOLEAN]

\* The rows a transaction may wait for once it has locked ride r.
AskedWith(r, b) ==
  \/ \E e \in Entries : b = EntryRow(e) /\ RideOf(e) = r
  \/ \E p \in People : b = RequestRow(p)
  \/ \E p \in People : b = AssignmentRow(p) /\ CarriedBy[p] \in {r, NoOne}

Carries(r, b) == \E p \in People : CarriedBy[p] = r /\ b \in {RequestRow(p), AssignmentRow(p)}

\* ... and what it may still wait for while it holds row a as well.
Precedes(r, a, b) ==
  /\ AskedWith(r, b)
  /\ \/ a = RideRow(r)
     \/ \E e \in Entries : a = EntryRow(e) /\ RideOf(e) = r
     \/ a = RequestRow(PrimaryOf[r]) /\ \A s \in Rides \ {r} : b # RequestRow(PrimaryOf[s])
     \/ Carries(r, a) /\ Carries(r, b)
     \/ \E p \in People : CarriedBy[p] = NoOne /\ a = RequestRow(p) /\ b = AssignmentRow(p)

\* The statements of a plan lock, after the rows of h, every row in that order.
InLockOrder(r, h, s) ==
  \A i \in DOMAIN s : ~s[i].skip =>
    \A b \in s[i].rows :
      /\ \A a \in h \ {b} : Precedes(r, a, b)
      /\ \A j \in 1..i : \A a \in s[j].rows \ {b} : Precedes(r, a, b)

RideFirst(r, h, s) == RideRow(r) \in h \/ (h = {} /\ s[1] = Lock({RideRow(r)}))

Follows(t) ==
  plan[t] = <<>> \/ \E r \in Rides : /\ RideFirst(r, held[t], plan[t])
                                     /\ InLockOrder(r, held[t], plan[t])

TablesInv ==
  /\ home \in [Entries -> Rides]
  /\ offeredOn \in [Entries -> Rides \cup {NoOne}]
  /\ waiter \in [Entries -> People]
  /\ \A r \in Rides : closing[r] # "disabled"
  /\ \A d, e \in Entries : waiter[d] = waiter[e] => d = e

PlansInv ==
  /\ plan \in [Transactions -> Seq(Statements)]
  /\ waiting \in [Transactions -> Rows \cup {NoRow}]
  /\ held \in [Transactions -> SUBSET Rows]

LockingInv ==
  /\ TablesInv /\ PlansInv /\ LockTypeOK
  /\ \A t \in Transactions : Follows(t)
  /\ \A t \in Transactions : waiting[t] # NoRow => ~Current(t).skip

\* Rows of different tables differ.
LEMMA RowNames ==
  /\ \A r, s : RideRow(r) = RideRow(s) => r = s
  /\ \A r, s : EntryRow(r) = EntryRow(s) => r = s
  /\ \A r, s : RequestRow(r) = RequestRow(s) => r = s
  /\ \A r, s : AssignmentRow(r) = AssignmentRow(s) => r = s
  /\ \A r, s : RideRow(r) # EntryRow(s) /\ RideRow(r) # RequestRow(s) /\ RideRow(r) # AssignmentRow(s)
  /\ \A r, s : EntryRow(r) # RequestRow(s) /\ EntryRow(r) # AssignmentRow(s)
  /\ \A r, s : RequestRow(r) # AssignmentRow(s)
BY DEF RideRow, EntryRow, RequestRow, AssignmentRow

LEMMA RowsTyped ==
  /\ \A r \in Rides : RideRow(r) \in Rows
  /\ \A e \in Entries : EntryRow(e) \in Rows
  /\ \A p \in People : RequestRow(p) \in Rows /\ AssignmentRow(p) \in Rows
  /\ NoRow \notin Rows
BY DEF Rows, RideRow, EntryRow, RequestRow, AssignmentRow, NoRow

LEMMA CarriedOnes ==
  ASSUME NEW r \in Rides PROVE CarriedRows(r) \subseteq Rows /\ \A b \in CarriedRows(r) : Carries(r, b)
<1> SUFFICES ASSUME NEW b \in CarriedRows(r) PROVE Carries(r, b)
  BY DEF CarriedRows
<1>1. b \in Rows /\ b[1] \in {"request", "assignment"} /\ CarriedBy[b[2]] = r
  BY DEF CarriedRows
<1>2. b \in {"request", "assignment"} \X People
  BY <1>1 DEF Rows
<1> QED BY <1>1, <1>2 DEF Carries, RequestRow, AssignmentRow

-----------------------------------------------------------------------------
\* In such an order nobody waits for each other.  From the last kind of row to the
\* first: an entry, or a row the ride carries, is only held with the ride itself; who
\* holds an open assignment waits for nothing, who holds an open request waits for its
\* assignment, who holds a pooled request for a row of its ride, and who holds a
\* primary request for any row but another ride's primary request.
LEMMA OrderMeansNoCycle == LockingInv => NoWaitCycle
<1> SUFFICES ASSUME LockingInv, NEW T \in (SUBSET Transactions) \ {{}},
                    \A t \in T : \E u \in T \ {t} : waiting[t] \in held[u]
             PROVE  FALSE
  BY DEF NoWaitCycle
<1> DEFINE RideWith(t, r) == /\ RideRow(r) \in held[t]
                             /\ \A a \in held[t] : Precedes(r, a, waiting[t])
<1>1. \A t \in T : \E u \in T \ {t} : waiting[t] \in held[u] /\ held[t] \cap held[u] = {}
  BY DEF LockingInv, LockTypeOK
<1>2. ASSUME NEW t \in T
      PROVE  \E r \in Rides : \/ waiting[t] = RideRow(r) /\ held[t] = {}
                              \/ RideWith(t, r)
  <2>1. waiting[t] \in Rows /\ waiting[t] # NoRow
    BY RowsTyped DEF LockingInv, PlansInv
  <2>2. plan[t] \in Seq(Statements) /\ plan[t] # <<>> /\ waiting[t] \in plan[t][1].rows \ held[t]
        /\ ~plan[t][1].skip
    BY <2>1 DEF LockingInv, LockTypeOK, PlansInv, Missing, Current
  <2>3. PICK r \in Rides : RideFirst(r, held[t], plan[t]) /\ InLockOrder(r, held[t], plan[t])
    BY <2>2 DEF LockingInv, Follows
  <2>4. 1 \in DOMAIN plan[t]
    BY <2>2
  <2>5. \A a \in held[t] : Precedes(r, a, waiting[t])
    BY <2>2, <2>3, <2>4 DEF InLockOrder
  <2>6. CASE RideRow(r) \in held[t]
    BY <2>5, <2>6
  <2>7. CASE held[t] = {} /\ plan[t][1] = Lock({RideRow(r)})
    BY <2>2, <2>7 DEF Lock
  <2> QED BY <2>3, <2>6, <2>7 DEF RideFirst
<1>3. ASSUME NEW t \in T, held[t] # {}
      PROVE  \E r \in Rides : RideWith(t, r)
  BY <1>2, <1>3
<1> HIDE DEF RideWith
<1>4. \A t \in T, r \in Rides : RideWith(t, r) =>
         RideRow(r) \in held[t] /\ \A a \in held[t] : Precedes(r, a, waiting[t])
  BY DEF RideWith
<1>5. \A t \in T, e \in Entries : waiting[t] # EntryRow(e)
  <2> SUFFICES ASSUME NEW t \in T, NEW e \in Entries, waiting[t] = EntryRow(e) PROVE FALSE
    OBVIOUS
  <2>1. PICK u \in T \ {t} : waiting[t] \in held[u] /\ held[t] \cap held[u] = {}
    BY <1>1
  <2>2. PICK r \in Rides : RideWith(t, r)
    BY <1>2, RowNames
  <2>3. RideOf(e) = r
    <3>1. Precedes(r, RideRow(r), waiting[t])
      BY <1>4, <2>2
    <3> QED BY <3>1, RowNames DEF Precedes, AskedWith
  <2>4. PICK s \in Rides : RideWith(u, s)
    BY <1>3, <2>1
  <2>5. Precedes(s, EntryRow(e), waiting[u])
    BY <1>4, <2>1, <2>4
  <2>6. s = r
    BY <2>3, <2>5, RowNames DEF Precedes, Carries
  <2> QED BY <1>4, <2>1, <2>2, <2>4, <2>6
<1>6. \A t \in T, r \in Rides : \A b : RideRow(r) \in held[t] /\ Carries(r, b) => waiting[t] # b
  <2> SUFFICES ASSUME NEW t \in T, NEW r \in Rides, NEW b, RideRow(r) \in held[t], Carries(r, b),
                      waiting[t] = b
               PROVE  FALSE
    OBVIOUS
  <2>1. PICK u \in T \ {t} : waiting[t] \in held[u] /\ held[t] \cap held[u] = {}
    BY <1>1
  <2>2. PICK s \in Rides : RideWith(u, s)
    BY <1>3, <2>1
  <2>3. Precedes(s, b, waiting[u])
    BY <1>4, <2>1, <2>2
  <2>4. s = r
    BY <2>3, RowNames, PrimaryOfAssumption, NoOneAssumption DEF Precedes, Carries
  <2> QED BY <1>4, <2>1, <2>2, <2>4
<1>7. \A t \in T, p \in People : CarriedBy[p] = NoOne => waiting[t] # AssignmentRow(p)
  <2> SUFFICES ASSUME NEW t \in T, NEW p \in People, CarriedBy[p] = NoOne, waiting[t] = AssignmentRow(p)
               PROVE  FALSE
    OBVIOUS
  <2>1. PICK u \in T \ {t} : waiting[t] \in held[u]
    BY <1>1
  <2>2. PICK s \in Rides : RideWith(u, s)
    BY <1>3, <2>1
  <2>3. Precedes(s, AssignmentRow(p), waiting[u])
    BY <1>4, <2>1, <2>2
  <2> QED BY <2>3, RowNames, NoOneAssumption DEF Precedes, Carries
<1>8. \A t \in T, p \in People : CarriedBy[p] = NoOne => waiting[t] # RequestRow(p)
  <2> SUFFICES ASSUME NEW t \in T, NEW p \in People, CarriedBy[p] = NoOne, waiting[t] = RequestRow(p)
               PROVE  FALSE
    OBVIOUS
  <2>1. PICK u \in T \ {t} : waiting[t] \in held[u]
    BY <1>1
  <2>2. PICK s \in Rides : RideWith(u, s)
    BY <1>3, <2>1
  <2>3. Precedes(s, RequestRow(p), waiting[u])
    BY <1>4, <2>1, <2>2
  <2>4. waiting[u] = AssignmentRow(p)
    BY <2>3, RowNames, NoOneAssumption, PrimaryOfAssumption DEF Precedes, Carries
  <2> QED BY <1>7, <2>4
<1>9. \A t \in T, p \in Secondaries : waiting[t] # RequestRow(p)
  <2> SUFFICES ASSUME NEW t \in T, NEW p \in Secondaries, waiting[t] = RequestRow(p)
               PROVE  FALSE
    OBVIOUS
  <2>1. PICK u \in T \ {t} : waiting[t] \in held[u]
    BY <1>1
  <2>2. PICK s \in Rides : RideWith(u, s)
    BY <1>3, <2>1
  <2>3. Precedes(s, RequestRow(p), waiting[u]) /\ RideRow(s) \in held[u]
    BY <1>4, <2>1, <2>2
  <2>4. p \in People /\ CarriedBy[p] # NoOne /\ p # PrimaryOf[s]
    BY <1>8 DEF Secondaries
  <2>5. Carries(s, waiting[u])
    BY <2>3, <2>4, RowNames DEF Precedes
  <2> QED BY <1>6, <2>3, <2>5
<1>10. \A t \in T, p \in People : waiting[t] # RequestRow(p)
  <2> SUFFICES ASSUME NEW t \in T, NEW p \in People, waiting[t] = RequestRow(p)
               PROVE  FALSE
    OBVIOUS
  <2>1. PICK u \in T \ {t} : waiting[t] \in held[u]
    BY <1>1
  <2>2. PICK s \in Rides : RideWith(u, s)
    BY <1>3, <2>1
  <2>3. Precedes(s, RequestRow(p), waiting[u]) /\ RideRow(s) \in held[u]
    BY <1>4, <2>1, <2>2
  <2>4. PICK r \in Rides : p = PrimaryOf[r] /\ CarriedBy[p] = r
    BY <1>9, PrimaryOfAssumption DEF Secondaries
  <2>5. ~Carries(s, waiting[u])
    BY <1>6, <2>3
  <2>6. \A q \in Rides \ {s} : waiting[u] # RequestRow(PrimaryOf[q])
    BY <2>3, <2>4, <2>5, RowNames, NoOneAssumption DEF Precedes
  <2>7. AskedWith(s, waiting[u])
    BY <2>3 DEF Precedes
  <2>8. CASE \E q \in People : waiting[u] = RequestRow(q)
    <3>1. PICK q \in People : waiting[u] = RequestRow(q)
      BY <2>8
    <3>2. q \notin Secondaries
      BY <1>9, <3>1
    <3>3. PICK x \in Rides : q = PrimaryOf[x]
      BY <3>2 DEF Secondaries
    <3>4. x = s
      BY <2>6, <3>1, <3>3
    <3> QED BY <2>5, <3>1, <3>3, <3>4, PrimaryOfAssumption DEF Carries
  <2> QED BY <1>5, <1>7, <2>5, <2>7, <2>8 DEF AskedWith, Carries
<1>11. \A t \in T : \E r \in Rides : waiting[t] = RideRow(r) /\ held[t] = {}
  <2> SUFFICES ASSUME NEW t \in T, NEW r \in Rides, RideWith(t, r) PROVE FALSE
    BY <1>2
  <2>1. RideRow(r) \in held[t] /\ AskedWith(r, waiting[t])
    BY <1>4 DEF Precedes
  <2>2. PICK p \in People : waiting[t] = AssignmentRow(p) /\ CarriedBy[p] \in {r, NoOne}
    BY <1>5, <1>10, <2>1 DEF AskedWith
  <2>3. Carries(r, waiting[t])
    BY <1>7, <2>2 DEF Carries
  <2> QED BY <1>6, <2>1, <2>3
<1> QED
  <2>1. PICK t \in T : TRUE
    OBVIOUS
  <2>2. PICK u \in T \ {t} : waiting[t] \in held[u]
    BY <1>1
  <2> QED BY <1>11, <2>2

-----------------------------------------------------------------------------
\* Rows locked one after the other.

Fits(r, h, X) == \A b \in X : \A a \in (h \cup X) \ {b} : Precedes(r, a, b)

LEMMA LockedRows ==
  ASSUME NEW X PROVE /\ Lock(X).rows = X /\ ~Lock(X).skip
                     /\ SkipLocked(X).rows = X /\ SkipLocked(X).skip
                     /\ X \in SUBSET Rows => Lock(X) \in Statements /\ SkipLocked(X) \in Statements
BY DEF Lock, SkipLocked, Statements

LEMMA OneStatement ==
  ASSUME NEW r, NEW h, NEW X \in SUBSET Rows, Fits(r, h, X)
  PROVE  /\ <<Lock(X)>> \in Seq(Statements) /\ InLockOrder(r, h, <<Lock(X)>>)
         /\ \A i \in DOMAIN <<Lock(X)>> : <<Lock(X)>>[i].rows \subseteq X
<1>1. <<Lock(X)>> \in Seq(Statements)
  BY LockedRows
<1>3. InLockOrder(r, h, <<Lock(X)>>)
  BY LockedRows DEF InLockOrder, Fits
<1> QED BY <1>1, <1>3, LockedRows

LEMMA TwoStatements ==
  ASSUME NEW r, NEW h, NEW X \in SUBSET Rows, NEW Y \in SUBSET Rows, Fits(r, h, X), Fits(r, h \cup X, Y)
  PROVE  LET s == <<Lock(X), Lock(Y)>> IN
           /\ s \in Seq(Statements) /\ InLockOrder(r, h, s)
           /\ s # <<>> /\ s[1] = Lock(X) /\ \A i \in DOMAIN s : s[i].rows \subseteq X \cup Y
<1> DEFINE s == <<Lock(X), Lock(Y)>>
<1>1. s \in Seq(Statements) /\ DOMAIN s = 1..2 /\ s[1] = Lock(X) /\ s[2] = Lock(Y)
  BY LockedRows
<1>2. s[1].rows = X /\ s[2].rows = Y
  BY <1>1, LockedRows
<1> HIDE DEF s
<1>3. ASSUME NEW i \in 1..2, NEW b \in s[i].rows
      PROVE  /\ \A a \in h \ {b} : Precedes(r, a, b)
             /\ \A j \in 1..i : \A a \in s[j].rows \ {b} : Precedes(r, a, b)
  <2>1. CASE i = 1
    BY <1>2, <1>3, <2>1 DEF Fits
  <2>2. CASE i = 2
    <3>1. \A j \in 1..i : j = 1 \/ j = 2
      BY <2>2
    <3> QED BY <1>2, <1>3, <2>2, <3>1 DEF Fits
  <2> QED BY <2>1, <2>2
<1>4. InLockOrder(r, h, s)
  BY <1>1, <1>3 DEF InLockOrder
<1>5. s # <<>> /\ \A i \in DOMAIN s : s[i].rows \subseteq X \cup Y
  BY <1>1, <1>2
<1> QED BY <1>1, <1>4, <1>5 DEF s

LEMMA AndWhatIsFree ==
  ASSUME NEW r, NEW h, NEW X \in SUBSET Rows, NEW Y \in SUBSET Rows, Fits(r, h, X)
  PROVE  <<Lock(X), SkipLocked(Y)>> \in Seq(Statements) /\ InLockOrder(r, h, <<Lock(X), SkipLocked(Y)>>)
<1> DEFINE s == <<Lock(X), SkipLocked(Y)>>
<1>1. s \in Seq(Statements) /\ DOMAIN s = 1..2 /\ s[1] = Lock(X) /\ s[2] = SkipLocked(Y)
  BY LockedRows
<1>2. s[1].rows = X /\ s[2].skip
  BY <1>1, LockedRows
<1> HIDE DEF s
<1>3. ASSUME NEW i \in 1..2, ~s[i].skip, NEW b \in s[i].rows
      PROVE  /\ \A a \in h \ {b} : Precedes(r, a, b)
             /\ \A j \in 1..i : \A a \in s[j].rows \ {b} : Precedes(r, a, b)
  <2>1. i = 1
    BY <1>2, <1>3
  <2> QED BY <1>2, <1>3, <2>1 DEF Fits
<1>4. InLockOrder(r, h, s)
  BY <1>1, <1>3 DEF InLockOrder
<1> QED BY <1>1, <1>4 DEF s

\* One part of a plan after the other: what comes first is locked by then.
LEMMA PartsJoined ==
  ASSUME NEW r, NEW h, NEW H, NEW s \in Seq(Statements), NEW u \in Seq(Statements),
         InLockOrder(r, h, s), InLockOrder(r, H, u), h \subseteq H,
         \A i \in DOMAIN s : s[i].rows \subseteq H
  PROVE  /\ s \o u \in Seq(Statements) /\ InLockOrder(r, h, s \o u)
         /\ s # <<>> => (s \o u) # <<>> /\ (s \o u)[1] = s[1]
<1> DEFINE w == s \o u
<1>1. w \in Seq(Statements)
  OBVIOUS
<1>2. /\ DOMAIN w = 1..(Len(s) + Len(u)) /\ DOMAIN s = 1..Len(s) /\ DOMAIN u = 1..Len(u)
      /\ Len(s) \in Nat /\ Len(u) \in Nat
  OBVIOUS
<1>3. /\ \A i \in 1..Len(s) : w[i] = s[i]
      /\ \A i \in 1..(Len(s) + Len(u)) : i > Len(s) => i - Len(s) \in 1..Len(u) /\ w[i] = u[i - Len(s)]
  OBVIOUS
<1> HIDE DEF w
<1>4. ASSUME NEW i \in DOMAIN w, ~w[i].skip, NEW b \in w[i].rows
      PROVE  /\ \A a \in h \ {b} : Precedes(r, a, b)
             /\ \A j \in 1..i : \A a \in w[j].rows \ {b} : Precedes(r, a, b)
  <2>1. CASE i <= Len(s)
    <3>1. i \in DOMAIN s /\ w[i] = s[i] /\ \A j \in 1..i : w[j] = s[j]
      BY <1>2, <1>3, <2>1
    <3> QED BY <1>4, <3>1 DEF InLockOrder
  <2>2. CASE i > Len(s)
    <3>1. i - Len(s) \in DOMAIN u /\ w[i] = u[i - Len(s)]
      BY <1>2, <1>3, <2>2
    <3>2. /\ \A a \in H \ {b} : Precedes(r, a, b)
          /\ \A j \in 1..(i - Len(s)) : \A a \in u[j].rows \ {b} : Precedes(r, a, b)
      BY <1>4, <3>1 DEF InLockOrder
    <3>3. ASSUME NEW j \in 1..i, NEW a \in w[j].rows \ {b} PROVE Precedes(r, a, b)
      <4>1. CASE j <= Len(s)
        <5>1. w[j] = s[j] /\ j \in DOMAIN s
          BY <1>2, <1>3, <4>1
        <5> QED BY <3>2, <3>3, <5>1
      <4>2. CASE j > Len(s)
        <5>1. w[j] = u[j - Len(s)] /\ j - Len(s) \in 1..(i - Len(s))
          BY <1>2, <1>3, <4>2
        <5> QED BY <3>2, <3>3, <5>1
      <4> QED BY <1>2, <4>1, <4>2
    <3> QED BY <3>2, <3>3
  <2> QED BY <1>2, <2>1, <2>2
<1>5. InLockOrder(r, h, w)
  BY <1>4 DEF InLockOrder
<1>6. s # <<>> => w # <<>> /\ w[1] = s[1]
  <2> SUFFICES ASSUME s # <<>> PROVE w # <<>> /\ w[1] = s[1]
    OBVIOUS
  <2>1. Len(s) >= 1
    OBVIOUS
  <2>2. w[1] = s[1] /\ 1 \in DOMAIN w
    BY <1>2, <1>3, <2>1
  <2> QED BY <2>2
<1> QED BY <1>1, <1>5, <1>6 DEF w

-----------------------------------------------------------------------------
\* Every plan of every handler is in that order.

Ordered(s) == \E r \in Rides : /\ s \in Seq(Statements) /\ s # <<>> /\ s[1] = Lock({RideRow(r)})
                               /\ InLockOrder(r, {}, s)

EntriesWith(r) == {e \in Entries : RideOf(e) = r}

\* The ride and entries of its line do not restrict what follows.
LEMMA AfterEntries ==
  ASSUME NEW r \in Rides, NEW h \in SUBSET ({RideRow(r)} \cup EntryRows(EntriesWith(r))),
         NEW b, AskedWith(r, b)
  PROVE  \A a \in h : Precedes(r, a, b)
BY DEF Precedes, EntryRows, EntriesWith

LEMMA EntriesFit ==
  ASSUME NEW r \in Rides, NEW h \in SUBSET ({RideRow(r)} \cup EntryRows(EntriesWith(r))),
         NEW E \in SUBSET EntriesWith(r)
  PROVE  Fits(r, h, EntryRows(E)) /\ EntryRows(E) \subseteq Rows
<1>1. \A b \in EntryRows(E) : AskedWith(r, b)
  BY DEF EntryRows, EntriesWith, AskedWith
<1>2. h \cup EntryRows(E) \in SUBSET ({RideRow(r)} \cup EntryRows(EntriesWith(r)))
  BY DEF EntryRows
<1>3. \A b \in EntryRows(E) : \A a \in h \cup EntryRows(E) : Precedes(r, a, b)
  BY <1>1, <1>2, AfterEntries
<1>4. EntryRows(E) \subseteq Rows
  BY RowsTyped DEF EntryRows, EntriesWith
<1> QED BY <1>3, <1>4 DEF Fits

LEMMA RideAndRow ==
  ASSUME NEW r \in Rides, NEW b \in Rows, AskedWith(r, b)
  PROVE  LET s == <<Lock({RideRow(r)}), Lock({b})>> IN
           /\ s \in Seq(Statements) /\ s # <<>> /\ s[1] = Lock({RideRow(r)}) /\ InLockOrder(r, {}, s)
           /\ \A i \in DOMAIN s : s[i].rows \subseteq {RideRow(r), b}
<1>1. {RideRow(r)} \in SUBSET Rows /\ {b} \in SUBSET Rows
  BY RowsTyped
<1>2. Precedes(r, RideRow(r), b)
  BY DEF Precedes
<1>3. Fits(r, {}, {RideRow(r)}) /\ Fits(r, {} \cup {RideRow(r)}, {b})
  BY <1>2 DEF Fits
<1>4. {RideRow(r)} \cup {b} = {RideRow(r), b}
  OBVIOUS
<1> QED BY <1>1, <1>3, <1>4, TwoStatements

LEMMA SeatsOrdered ==
  ASSUME NEW r \in Rides, NEW h, NEW p \in People, \A a \in h : Precedes(r, a, RequestRow(p)),
         CarriedBy[p] = NoOne => \A a \in h : Precedes(r, a, AssignmentRow(p))
  PROVE  SeatLocks(p) \in Seq(Statements) /\ InLockOrder(r, h, SeatLocks(p))
<1>1. {RequestRow(p)} \in SUBSET Rows /\ {AssignmentRow(p)} \in SUBSET Rows
  BY RowsTyped
<1>2. Fits(r, h, {RequestRow(p)})
  BY DEF Fits
<1>3. CASE CarriedBy[p] = NoOne
  <2>1. Precedes(r, RequestRow(p), AssignmentRow(p))
    BY <1>3 DEF Precedes, AskedWith
  <2>2. Fits(r, h \cup {RequestRow(p)}, {AssignmentRow(p)})
    BY <1>3, <2>1 DEF Fits
  <2> QED BY <1>1, <1>2, <1>3, <2>2, TwoStatements DEF SeatLocks
<1>4. CASE CarriedBy[p] # NoOne
  BY <1>1, <1>2, <1>4, OneStatement DEF SeatLocks
<1> QED BY <1>3, <1>4

LEMMA ProcessOrdered ==
  ASSUME TablesInv, NEW r \in Rides, NEW h \in SUBSET ({RideRow(r)} \cup EntryRows(EntriesWith(r))),
         NEW s \in ProcessPlans(r)
  PROVE  s \in Seq(Statements) /\ InLockOrder(r, h, s)
<1>1. CASE closing[r] # "none"
  <2>1. Closed(r) \in SUBSET EntriesWith(r) /\ Returned(r) \in SUBSET EntriesWith(r)
    BY NoOneAssumption DEF Closed, Returned, EntriesWith, RideOf, TablesInv
  <2>2. /\ Fits(r, h, EntryRows(Closed(r))) /\ EntryRows(Closed(r)) \in SUBSET Rows
        /\ EntryRows(Returned(r)) \in SUBSET Rows
    BY <2>1, EntriesFit
  <2>3. h \cup EntryRows(Closed(r)) \in SUBSET ({RideRow(r)} \cup EntryRows(EntriesWith(r)))
    BY <2>1 DEF EntryRows
  <2>4. Fits(r, h \cup EntryRows(Closed(r)), EntryRows(Returned(r)))
    BY <2>1, <2>3, EntriesFit
  <2>5. s = <<Lock(EntryRows(Closed(r))), Lock(EntryRows(Returned(r)))>>
    BY <1>1 DEF ProcessPlans
  <2> QED BY <2>2, <2>4, <2>5, TwoStatements
<1>2. CASE closing[r] = "none"
  <2> DEFINE free == {e \in Entries : offeredOn[e] = NoOne}
  <2>1. PICK E \in SUBSET {e \in Entries : offeredOn[e] = r} :
               s = <<Lock(EntryRows(E)), SkipLocked(EntryRows(free))>>
    BY <1>2 DEF ProcessPlans
  <2>2. E \in SUBSET EntriesWith(r)
    BY NoOneAssumption DEF EntriesWith, RideOf
  <2>3. EntryRows(free) \in SUBSET Rows
    BY RowsTyped DEF EntryRows
  <2>4. Fits(r, h, EntryRows(E)) /\ EntryRows(E) \in SUBSET Rows
    BY <2>2, EntriesFit
  <2> QED BY <2>1, <2>3, <2>4, AndWhatIsFree
<1> QED BY <1>1, <1>2

LEMMA EntryFirst ==
  ASSUME TablesInv, NEW e \in Entries
  PROVE  LET r == RideOf(e) IN
           /\ r \in Rides /\ EntryLocks(e) \in Seq(Statements) /\ EntryLocks(e) # <<>>
           /\ EntryLocks(e)[1] = Lock({RideRow(r)}) /\ InLockOrder(r, {}, EntryLocks(e))
           /\ {RideRow(r), EntryRow(e)} \in SUBSET ({RideRow(r)} \cup EntryRows(EntriesWith(r)))
           /\ \A i \in DOMAIN EntryLocks(e) : EntryLocks(e)[i].rows \subseteq {RideRow(r), EntryRow(e)}
<1>1. RideOf(e) \in Rides
  BY DEF TablesInv, RideOf
<1>2. AskedWith(RideOf(e), EntryRow(e)) /\ EntryRow(e) \in Rows
  BY RowsTyped DEF AskedWith
<1>3. {RideRow(RideOf(e)), EntryRow(e)} \in SUBSET ({RideRow(RideOf(e))} \cup EntryRows(EntriesWith(RideOf(e))))
  BY DEF EntryRows, EntriesWith
<1> QED BY <1>1, <1>2, <1>3, RideAndRow DEF EntryLocks

LEMMA AnswersOrdered ==
  ASSUME TablesInv, NEW s \in AnswerPlans PROVE Ordered(s)
<1>1. CASE \E e \in Entries : s = EntryLocks(e)
  BY <1>1, EntryFirst DEF Ordered
<1>2. CASE \E e \in Entries : offeredOn[e] # NoOne /\ \E p \in ProcessPlans(offeredOn[e]) : s = EntryLocks(e) \o p
  <2>0. PICK e \in Entries : /\ offeredOn[e] # NoOne
                            /\ \E p \in ProcessPlans(offeredOn[e]) : s = EntryLocks(e) \o p
    BY <1>2
  <2>1. PICK p \in ProcessPlans(offeredOn[e]) : s = EntryLocks(e) \o p
    BY <2>0
  <2> DEFINE r == RideOf(e)
  <2>2. r = offeredOn[e]
    BY <2>0 DEF RideOf
  <2>3. p \in Seq(Statements) /\ InLockOrder(r, {RideRow(r), EntryRow(e)}, p)
    BY <2>2, EntryFirst, ProcessOrdered
  <2> HIDE DEF r
  <2>4. r \in Rides /\ EntryLocks(e) \in Seq(Statements) /\ EntryLocks(e) # <<>>
        /\ EntryLocks(e)[1] = Lock({RideRow(r)}) /\ InLockOrder(r, {}, EntryLocks(e))
        /\ \A i \in DOMAIN EntryLocks(e) : EntryLocks(e)[i].rows \subseteq {RideRow(r), EntryRow(e)}
    BY EntryFirst DEF r
  <2> QED BY <2>1, <2>3, <2>4, PartsJoined DEF Ordered
<1> QED BY <1>1, <1>2 DEF AnswerPlans

LEMMA AcceptsOrdered ==
  ASSUME TablesInv, NEW s \in AcceptPlans PROVE Ordered(s)
<1>1. PICK e \in Entries :
        s = EntryLocks(e) \o SeatLocks(waiter[e])
              \o (IF CarriedBy[waiter[e]] = NoOne THEN <<Lock(EntryRows(OthersOf(e)))>> ELSE <<>>)
  BY DEF AcceptPlans
<1> DEFINE r == RideOf(e)
           p == waiter[e]
           first == EntryLocks(e) \o SeatLocks(p)
           h == {RideRow(r), EntryRow(e)}
<1>2. p \in People
  BY DEF TablesInv
<1>3. AskedWith(r, RequestRow(p)) /\ (CarriedBy[p] = NoOne => AskedWith(r, AssignmentRow(p)))
  BY <1>2 DEF AskedWith
<1>4. /\ r \in Rides /\ EntryLocks(e) \in Seq(Statements) /\ EntryLocks(e) # <<>>
      /\ EntryLocks(e)[1] = Lock({RideRow(r)}) /\ InLockOrder(r, {}, EntryLocks(e))
      /\ \A i \in DOMAIN EntryLocks(e) : EntryLocks(e)[i].rows \subseteq h
      /\ h \in SUBSET ({RideRow(r)} \cup EntryRows(EntriesWith(r)))
  BY EntryFirst
<1>5. SeatLocks(p) \in Seq(Statements) /\ InLockOrder(r, h, SeatLocks(p))
  <2> HIDE DEF r, p, h
  <2> QED BY <1>2, <1>3, <1>4, AfterEntries, SeatsOrdered
<1>6. first \in Seq(Statements) /\ InLockOrder(r, {}, first) /\ first # <<>> /\ first[1] = Lock({RideRow(r)})
  <2> HIDE DEF r, p, h
  <2> QED BY <1>4, <1>5, PartsJoined
<1>7. CASE CarriedBy[p] = NoOne
  <2>1. EntryRows(OthersOf(e)) = {}
    BY DEF TablesInv, OthersOf, EntryRows
  <2>2. Fits(r, Rows, {})
    BY DEF Fits
  <2>3. <<Lock({})>> \in Seq(Statements) /\ InLockOrder(r, Rows, <<Lock({})>>)
    BY <2>2, OneStatement
  <2>4. \A i \in DOMAIN first : first[i].rows \subseteq Rows
    <3> HIDE DEF first
    <3>1. \A i \in DOMAIN first : first[i] \in Statements
      BY <1>6
    <3> QED BY <3>1 DEF Statements
  <2>5. s = first \o <<Lock({})>>
    BY <1>1, <1>7, <2>1
  <2> HIDE DEF first, r
  <2>6. Ordered(first \o <<Lock({})>>)
    BY <1>4, <1>6, <2>3, <2>4, PartsJoined DEF Ordered
  <2> QED BY <2>5, <2>6
<1>8. CASE CarriedBy[p] # NoOne
  <2>1. s = first \o <<>>
    BY <1>1, <1>8
  <2>2. s = first
    BY <1>6, <2>1
  <2> QED BY <1>4, <1>6, <2>2 DEF Ordered
<1> QED BY <1>7, <1>8

\* A ride with its primary request, and what may follow it.
LEMMA PrimaryNext ==
  ASSUME NEW r \in Rides
  PROVE  LET s == RideWithPrimary(r)
             h == {RideRow(r), RequestRow(PrimaryOf[r])}
         IN /\ s \in Seq(Statements) /\ s # <<>> /\ s[1] = Lock({RideRow(r)}) /\ InLockOrder(r, {}, s)
            /\ \A i \in DOMAIN s : s[i].rows \subseteq h
            /\ \A b : AskedWith(r, b) /\ (\A q \in Rides \ {r} : b # RequestRow(PrimaryOf[q])) =>
                     \A a \in h : Precedes(r, a, b)
<1>1. PrimaryOf[r] \in People
  BY PrimaryOfAssumption
<1>2. RequestRow(PrimaryOf[r]) \in Rows /\ AskedWith(r, RequestRow(PrimaryOf[r]))
  BY <1>1, RowsTyped DEF AskedWith
<1>3. ASSUME NEW b, AskedWith(r, b), \A q \in Rides \ {r} : b # RequestRow(PrimaryOf[q]),
             NEW a \in {RideRow(r), RequestRow(PrimaryOf[r])}
      PROVE  Precedes(r, a, b)
  BY <1>3 DEF Precedes
<1> QED BY <1>2, <1>3, RideAndRow DEF RideWithPrimary

LEMMA AttachOrdered ==
  ASSUME NEW r \in Rides, NEW p \in Secondaries
  PROVE  Ordered(RideWithPrimary(r) \o SeatLocks(p))
<1> DEFINE h == {RideRow(r), RequestRow(PrimaryOf[r])}
           s == RideWithPrimary(r)
<1>1. p \in People /\ \A q \in Rides : p # PrimaryOf[q]
  BY DEF Secondaries
<1>2. /\ AskedWith(r, RequestRow(p)) /\ CarriedBy[p] = NoOne => AskedWith(r, AssignmentRow(p))
      /\ \A q \in Rides : RequestRow(p) # RequestRow(PrimaryOf[q]) /\ AssignmentRow(p) # RequestRow(PrimaryOf[q])
  BY <1>1, RowNames DEF AskedWith
<1>3. /\ s \in Seq(Statements) /\ s # <<>> /\ s[1] = Lock({RideRow(r)}) /\ InLockOrder(r, {}, s)
      /\ \A i \in DOMAIN s : s[i].rows \subseteq h
      /\ \A b : AskedWith(r, b) /\ (\A q \in Rides \ {r} : b # RequestRow(PrimaryOf[q])) =>
               \A a \in h : Precedes(r, a, b)
  BY PrimaryNext
<1> HIDE DEF h, s
<1>4. AskedWith(r, RequestRow(p)) /\ \A a \in h : Precedes(r, a, RequestRow(p))
  <2>1. AskedWith(r, RequestRow(p)) /\ \A q \in Rides \ {r} : RequestRow(p) # RequestRow(PrimaryOf[q])
    BY <1>1, <1>2 DEF AskedWith
  <2> QED BY <1>3, <2>1
<1>5. CarriedBy[p] = NoOne => \A a \in h : Precedes(r, a, AssignmentRow(p))
  BY <1>1, <1>2, <1>3 DEF AskedWith
<1>6. SeatLocks(p) \in Seq(Statements) /\ InLockOrder(r, h, SeatLocks(p))
  BY <1>1, <1>4, <1>5, SeatsOrdered
<1>7. Ordered(s \o SeatLocks(p))
  BY <1>3, <1>6, PartsJoined DEF Ordered
<1> QED BY <1>7 DEF s

LEMMA TransitionOrdered ==
  ASSUME NEW r \in Rides
  PROVE  Ordered(RideWithPrimary(r) \o <<Lock(CarriedRows(r))>>)
<1> DEFINE h == {RideRow(r), RequestRow(PrimaryOf[r])}
           s == RideWithPrimary(r)
<1>1. /\ s \in Seq(Statements) /\ s # <<>> /\ s[1] = Lock({RideRow(r)}) /\ InLockOrder(r, {}, s)
      /\ \A i \in DOMAIN s : s[i].rows \subseteq h
  BY PrimaryNext
<1>2. Carries(r, RequestRow(PrimaryOf[r]))
  BY PrimaryOfAssumption DEF Carries
<1>3. \A b : Carries(r, b) => AskedWith(r, b)
  BY DEF Carries, AskedWith
<1>4. \A b \in CarriedRows(r) : \A a \in h \cup CarriedRows(r) : Precedes(r, a, b)
  <2>1. \A b \in CarriedRows(r) : Carries(r, b)
    BY CarriedOnes
  <2> QED BY <1>2, <1>3, <2>1 DEF Precedes
<1>5. CarriedRows(r) \in SUBSET Rows /\ Fits(r, h, CarriedRows(r))
  BY <1>4, CarriedOnes DEF Fits
<1> HIDE DEF h, s
<1>6. <<Lock(CarriedRows(r))>> \in Seq(Statements) /\ InLockOrder(r, h, <<Lock(CarriedRows(r))>>)
  BY <1>5, OneStatement
<1>7. Ordered(s \o <<Lock(CarriedRows(r))>>)
  BY <1>1, <1>6, PartsJoined DEF Ordered
<1> QED BY <1>7 DEF s

LEMMA JoinOrdered ==
  ASSUME NEW r \in Rides, NEW p \in People
  PROVE  Ordered(<<Lock({RideRow(r)}), Lock({RequestRow(p)})>>)
<1>1. AskedWith(r, RequestRow(p)) /\ RequestRow(p) \in Rows
  BY RowsTyped DEF AskedWith
<1> QED BY <1>1, RideAndRow DEF Ordered

LEMMA RideAlone ==
  ASSUME NEW r \in Rides
  PROVE  LET s == <<Lock({RideRow(r)})>> IN
           /\ s \in Seq(Statements) /\ s # <<>> /\ s[1] = Lock({RideRow(r)}) /\ InLockOrder(r, {}, s)
           /\ \A i \in DOMAIN s : s[i].rows \subseteq {RideRow(r)}
<1>1. {RideRow(r)} \in SUBSET Rows /\ Fits(r, {}, {RideRow(r)})
  BY RowsTyped DEF Fits
<1> QED BY <1>1, OneStatement

LEMMA ProcessesOrdered ==
  ASSUME TablesInv, NEW r \in Rides, NEW p \in ProcessPlans(r)
  PROVE  Ordered(<<Lock({RideRow(r)})>> \o p)
<1> DEFINE s == <<Lock({RideRow(r)})>>
<1>1. /\ s \in Seq(Statements) /\ s # <<>> /\ s[1] = Lock({RideRow(r)}) /\ InLockOrder(r, {}, s)
      /\ \A i \in DOMAIN s : s[i].rows \subseteq {RideRow(r)}
  BY RideAlone
<1>2. p \in Seq(Statements) /\ InLockOrder(r, {RideRow(r)}, p)
  BY ProcessOrdered
<1> HIDE DEF s
<1>3. Ordered(s \o p)
  BY <1>1, <1>2, PartsJoined DEF Ordered
<1> QED BY <1>3 DEF s

LEMMA RemovesOrdered ==
  ASSUME NEW r \in Rides, NEW p \in People PROVE Ordered(RemovePlan(r, p))
<1> DEFINE ride == <<Lock({RideRow(r)})>>
           request == IF p = PrimaryOf[r] THEN <<>> ELSE <<Lock({RequestRow(p)})>>
           assignment == IF p \in Secondaries /\ CarriedBy[p] = r THEN <<Lock({AssignmentRow(p)})>> ELSE <<>>
           h == {RideRow(r), RequestRow(p)}
<1>1. /\ ride \in Seq(Statements) /\ ride # <<>> /\ ride[1] = Lock({RideRow(r)})
      /\ InLockOrder(r, {}, ride) /\ \A i \in DOMAIN ride : ride[i].rows \subseteq {RideRow(r)}
  BY RideAlone
<1>2. {RequestRow(p)} \in SUBSET Rows /\ {AssignmentRow(p)} \in SUBSET Rows
  BY RowsTyped
<1>3. AskedWith(r, RequestRow(p)) /\ Precedes(r, RideRow(r), RequestRow(p))
  BY DEF AskedWith, Precedes
<1>4. request \in Seq(Statements) /\ InLockOrder(r, {RideRow(r)}, request)
      /\ \A i \in DOMAIN request : request[i].rows \subseteq h
  <2>1. Fits(r, {RideRow(r)}, {RequestRow(p)})
    BY <1>3 DEF Fits
  <2>2. CASE p = PrimaryOf[r]
    BY <2>2 DEF InLockOrder
  <2>3. CASE p # PrimaryOf[r]
    BY <1>2, <2>1, <2>3, OneStatement
  <2> QED BY <2>2, <2>3
<1>5. assignment \in Seq(Statements) /\ InLockOrder(r, h, assignment)
  <2>1. CASE p \in Secondaries /\ CarriedBy[p] = r
    <3>1. AskedWith(r, AssignmentRow(p)) /\ Carries(r, AssignmentRow(p)) /\ Carries(r, RequestRow(p))
      BY <2>1 DEF AskedWith, Carries
    <3>2. Fits(r, h, {AssignmentRow(p)})
      BY <3>1 DEF Fits, Precedes
    <3> QED BY <1>2, <2>1, <3>2, OneStatement
  <2>2. CASE ~(p \in Secondaries /\ CarriedBy[p] = r)
    BY <2>2 DEF InLockOrder
  <2> QED BY <2>1, <2>2
<1> HIDE DEF ride, request, assignment, h
<1> DEFINE first == ride \o request
<1>6. first \in Seq(Statements) /\ first # <<>> /\ first[1] = Lock({RideRow(r)}) /\ InLockOrder(r, {}, first)
  BY <1>1, <1>4, PartsJoined
<1>7. \A i \in DOMAIN first : first[i].rows \subseteq h
  <2>1. RideRow(r) \in h
    BY DEF h
  <2> QED BY <1>1, <1>4, <2>1
<1>8. Ordered(first \o assignment)
  <2> HIDE DEF first
  <2> QED BY <1>5, <1>6, <1>7, PartsJoined DEF Ordered
<1> QED BY <1>8 DEF ride, request, assignment, RemovePlan

LEMMA PlansOrdered ==
  ASSUME TablesInv, NEW handler \in Handlers, NEW s \in PlansOf(handler) PROVE Ordered(s)
<1>1. CASE handler = "joinWaitlist"
  <2> DEFINE open == {q \in People : CarriedBy[q] = NoOne}
             joining(r, p) == <<Lock({RideRow(r)}), Lock({RequestRow(p)})>>
  <2>1. PlansOf(handler) = {joining(r, p) : r \in Rides, p \in open}
    BY <1>1 DEF PlansOf
  <2> HIDE DEF open, joining
  <2>2. PICK r \in Rides, p \in open : s = joining(r, p)
    BY <2>1
  <2> QED BY <2>2, JoinOrdered DEF open, joining
<1>2. CASE handler = "answer"
  BY <1>2, AnswersOrdered DEF PlansOf
<1>3. CASE handler = "acceptStandbyOffer"
  BY <1>3, AcceptsOrdered DEF PlansOf
<1>4. CASE handler = "processRideWaitlist"
  <2>1. PlansOf(handler) = UNION {{<<Lock({RideRow(r)})>> \o p : p \in ProcessPlans(r)} : r \in Rides}
    BY <1>4 DEF PlansOf
  <2>2. PICK r \in Rides : \E p \in ProcessPlans(r) : s = <<Lock({RideRow(r)})>> \o p
    BY <2>1
  <2>3. PICK p \in ProcessPlans(r) : s = <<Lock({RideRow(r)})>> \o p
    BY <2>2
  <2> QED BY <2>3, ProcessesOrdered
<1>5. CASE handler = "attachRequestToRide"
  <2>1. PlansOf(handler) = {RideWithPrimary(r) \o SeatLocks(p) : r \in Rides, p \in Secondaries}
    BY <1>5 DEF PlansOf
  <2>2. PICK r \in Rides, p \in Secondaries : s = RideWithPrimary(r) \o SeatLocks(p)
    BY <2>1
  <2> QED BY <2>2, AttachOrdered
<1>6. CASE handler = "removeRequestFromRide"
  BY <1>6, RemovesOrdered DEF PlansOf
<1>7. CASE handler = "transitionRide"
  <2>1. PlansOf(handler) = {RideWithPrimary(r) \o <<Lock(CarriedRows(r))>> : r \in Rides}
    BY <1>7 DEF PlansOf
  <2>2. PICK r \in Rides : s = RideWithPrimary(r) \o <<Lock(CarriedRows(r))>>
    BY <2>1
  <2> QED BY <2>2, TransitionOrdered
<1> QED BY <1>1, <1>2, <1>3, <1>4, <1>5, <1>6, <1>7, HandlersAssumption

-----------------------------------------------------------------------------
\* The steps.

LEMMA LockInitOK == LockInit /\ ~MayDisable /\ ~MayWaitTwice => LockingInv
<1> SUFFICES ASSUME LockInit, ~MayDisable, ~MayWaitTwice PROVE LockingInv
  OBVIOUS
<1>1. TablesInv
  BY WaitersAssumption DEF LockInit, TablesInv
<1>2. PlansInv
  BY DEF LockInit, PlansInv
<1>3. LockTypeOK
  BY DEF LockInit, LockTypeOK
<1> QED BY <1>1, <1>2, <1>3 DEF LockInit, LockingInv, Follows

LEMMA SamePrecedes ==
  ASSUME UNCHANGED tables PROVE \A r, a, b : Precedes(r, a, b) => Precedes(r, a, b)'
<1>1. \A r, b : AskedWith(r, b) <=> AskedWith(r, b)'
  BY DEF AskedWith, RideOf, tables
<1> QED BY <1>1 DEF Precedes, RideOf, tables

LEMMA SameTables ==
  ASSUME UNCHANGED tables
  PROVE  /\ TablesInv => TablesInv'
         /\ \A r, h, s : InLockOrder(r, h, s) => InLockOrder(r, h, s)'
<1>1. TablesInv => TablesInv'
  BY DEF TablesInv, tables
<1> QED BY <1>1, SamePrecedes DEF InLockOrder

LEMMA SameOrder ==
  ASSUME UNCHANGED tables, NEW r, NEW h, NEW s, InLockOrder(r, h, s), NEW t \in Transactions,
         held'[t] = h, plan'[t] = s
  PROVE  InLockOrder(r, held[t], plan[t])'
<1>1. \A i \in DOMAIN s : ~s[i].skip => \A b \in s[i].rows :
        /\ \A a \in h \ {b} : Precedes(r, a, b)'
        /\ \A j \in 1..i : \A a \in s[j].rows \ {b} : Precedes(r, a, b)'
  BY SamePrecedes DEF InLockOrder
<1> QED BY <1>1 DEF InLockOrder

\* What is left of a plan when its first statement has locked its rows.
LEMMA RestOrdered ==
  ASSUME NEW r, NEW h, NEW s \in Seq(Statements), s # <<>>, InLockOrder(r, h, s),
         NEW H \in SUBSET (h \cup s[1].rows)
  PROVE  InLockOrder(r, H, Tail(s))
<1> DEFINE u == Tail(s)
<1>1. /\ 1 \in DOMAIN s
      /\ \A i \in DOMAIN u : i + 1 \in DOMAIN s /\ u[i] = s[i + 1] /\ i \in Nat \ {0}
      /\ \A i \in DOMAIN u : \A j \in 1..i : j \in DOMAIN u /\ j + 1 \in 1..(i + 1)
  OBVIOUS
<1> HIDE DEF u
<1>2. ASSUME NEW i \in DOMAIN u, ~u[i].skip, NEW b \in u[i].rows
      PROVE  /\ \A a \in H \ {b} : Precedes(r, a, b)
             /\ \A j \in 1..i : \A a \in u[j].rows \ {b} : Precedes(r, a, b)
  <2>1. /\ \A a \in h \ {b} : Precedes(r, a, b)
        /\ \A j \in 1..(i + 1) : \A a \in s[j].rows \ {b} : Precedes(r, a, b)
    BY <1>1, <1>2 DEF InLockOrder
  <2>2. 1 \in 1..(i + 1)
    BY <1>1
  <2> QED BY <1>1, <2>1, <2>2
<1>3. InLockOrder(r, H, u)
  BY <1>2 DEF InLockOrder
<1> QED BY <1>3 DEF u

LEMMA OthersFollow ==
  ASSUME LockingInv, UNCHANGED tables, NEW u \in Transactions, plan'[u] = plan[u], held'[u] = held[u]
  PROVE  Follows(u)'
BY SameTables DEF LockingInv, Follows, RideFirst

LEMMA LockStep == LockingInv /\ [LockNext]_lockVars => LockingInv'
<1> SUFFICES ASSUME LockingInv, [LockNext]_lockVars PROVE LockingInv'
  OBVIOUS
<1> USE DEF PlansInv
<1>1. UNCHANGED tables
  BY DEF LockNext, lockVars, Begin, AskForRow, GetRow, GetUnlockedRows, NextStatement, Commit
<1>2. TablesInv' /\ TablesInv /\ PlansInv /\ LockTypeOK
  BY <1>1, SameTables DEF LockingInv
<1>3. ASSUME NEW t \in Transactions, Begin(t) PROVE LockingInv'
  <2>1. PICK handler \in Handlers, p \in Seq(Statements) :
           p \in PlansOf(handler) /\ plan' = [plan EXCEPT ![t] = p]
    BY <1>2, <1>3, PlansOrdered DEF Begin, Ordered
  <2>2. Ordered(p)
    BY <1>2, <2>1, PlansOrdered
  <2>3. held[t] = {} /\ plan[t] = <<>> /\ UNCHANGED <<waiting, held>>
    BY <1>3 DEF Begin
  <2>4. waiting[t] = NoRow
    BY <1>2, <2>3 DEF LockTypeOK
  <2>5. PlansInv'
    BY <1>2, <2>1, <2>3
  <2>6. LockTypeOK'
    BY <1>2, <2>1, <2>3, <2>4 DEF LockTypeOK, Missing, Current
  <2>7. Follows(t)'
    <3>1. plan'[t] = p /\ held'[t] = {}
      BY <1>2, <2>1, <2>3
    <3>2. PICK r \in Rides : p[1] = Lock({RideRow(r)}) /\ InLockOrder(r, {}, p)
      BY <2>2 DEF Ordered
    <3>3. InLockOrder(r, {}, p)'
      BY <1>1, <3>2, SameTables
    <3> QED BY <3>1, <3>2, <3>3 DEF Follows, RideFirst
  <2>8. \A u \in Transactions \ {t} : Follows(u)'
    BY <1>1, <2>1, <2>3, OthersFollow
  <2>9. \A u \in Transactions : waiting'[u] # NoRow => ~Current(u)'.skip
    BY <2>1, <2>3, <2>4 DEF LockingInv, Current
  <2> QED BY <1>2, <2>5, <2>6, <2>7, <2>8, <2>9 DEF LockingInv
<1>4. ASSUME NEW t \in Transactions, AskForRow(t) PROVE LockingInv'
  <2>1. PICK row \in Missing(t) : waiting' = [waiting EXCEPT ![t] = row]
    BY <1>4 DEF AskForRow
  <2>2. plan[t] # <<>> /\ ~Current(t).skip /\ UNCHANGED <<plan, held>>
    BY <1>4 DEF AskForRow
  <2>3. row \in Rows
    <3>1. plan[t] \in Seq(Statements) /\ Current(t) \in Statements
      BY <1>2, <2>2 DEF Current
    <3> QED BY <3>1 DEF Missing, Statements
  <2>4. PlansInv'
    BY <1>2, <2>1, <2>2, <2>3
  <2>5. LockTypeOK'
    BY <1>2, <2>1, <2>2, <2>3 DEF LockTypeOK, Missing, Current
  <2>6. \A u \in Transactions : Follows(u)'
    BY <1>1, <2>2, OthersFollow
  <2>7. \A u \in Transactions : waiting'[u] # NoRow => ~Current(u)'.skip
    BY <1>2, <2>1, <2>2 DEF LockingInv, Current
  <2> QED BY <1>2, <2>4, <2>5, <2>6, <2>7 DEF LockingInv
<1>5. ASSUME NEW t \in Transactions, GetRow(t) PROVE LockingInv'
  <2> DEFINE row == waiting[t]
  <2>1. /\ row # NoRow /\ row \notin HeldByOthers(t) /\ plan' = plan
        /\ held' = [held EXCEPT ![t] = @ \cup {row}] /\ waiting' = [waiting EXCEPT ![t] = NoRow]
    BY <1>5 DEF GetRow
  <2>2. plan[t] # <<>> /\ plan[t] \in Seq(Statements) /\ row \in plan[t][1].rows /\ row \in Rows
    BY <1>2, <2>1 DEF LockTypeOK, Missing, Current
  <2> HIDE DEF row
  <2>3. PlansInv'
    BY <1>2, <2>1, <2>2
  <2>4. held'[t] = held[t] \cup {row} /\ \A u \in Transactions \ {t} : held'[u] = held[u]
    BY <1>2, <2>1
  <2>5. \A u \in Transactions \ {t} : row \notin held[u]
    BY <2>1 DEF HeldByOthers
  <2>6. LockTypeOK'
    <3>1. \A u, v \in Transactions : u # v => held'[u] \cap held'[v] = {}
      BY <1>2, <2>4, <2>5 DEF LockTypeOK
    <3>2. \A u \in Transactions : waiting'[u] # NoRow => u # t /\ waiting'[u] = waiting[u]
      BY <1>2, <2>1
    <3>3. \A u \in Transactions : waiting'[u] # NoRow => plan'[u] # <<>> /\ waiting'[u] \in Missing(u)'
      BY <1>2, <2>1, <2>4, <3>2 DEF LockTypeOK, Missing, Current
    <3> QED BY <2>3, <3>1, <3>3 DEF LockTypeOK
  <2>7. Follows(t)'
    <3>1. PICK r \in Rides : RideFirst(r, held[t], plan[t]) /\ InLockOrder(r, held[t], plan[t])
      BY <2>2 DEF LockingInv, Follows
    <3>2. RideFirst(r, held'[t], plan[t])
      BY <2>2, <2>4, <3>1 DEF RideFirst, Lock
    <3>3. InLockOrder(r, held'[t], plan[t])
      <4>1. 1 \in DOMAIN plan[t] /\ \A i \in DOMAIN plan[t] : 1 \in 1..i
        BY <2>2
      <4> QED BY <2>2, <2>4, <3>1, <4>1 DEF InLockOrder
    <3>4. InLockOrder(r, held[t], plan[t])'
      BY <1>1, <2>1, <3>3, SameOrder
    <3> QED BY <2>1, <3>2, <3>4 DEF Follows, RideFirst
  <2>8. \A u \in Transactions \ {t} : Follows(u)'
    BY <1>1, <2>1, <2>4, OthersFollow
  <2>9. \A u \in Transactions : waiting'[u] # NoRow => ~Current(u)'.skip
    BY <1>2, <2>1 DEF LockingInv, Current
  <2> QED BY <1>2, <2>3, <2>6, <2>7, <2>8, <2>9 DEF LockingInv
<1>6. ASSUME NEW t \in Transactions, GetUnlockedRows(t) \/ NextStatement(t) PROVE LockingInv'
  <2>1. /\ plan[t] # <<>> /\ plan[t] \in Seq(Statements) /\ waiting' = waiting
        /\ plan' = [plan EXCEPT ![t] = Tail(@)]
        /\ \/ Current(t).skip /\ held' = [held EXCEPT ![t] = @ \cup (Missing(t) \ HeldByOthers(t))]
           \/ Missing(t) = {} /\ held' = held
    BY <1>2, <1>6 DEF GetUnlockedRows, NextStatement
  <2>2. waiting[t] = NoRow
    BY <1>2, <2>1 DEF LockingInv, LockTypeOK
  <2>3. /\ plan'[t] = Tail(plan[t]) /\ Tail(plan[t]) \in Seq(Statements)
        /\ \A u \in Transactions \ {t} : plan'[u] = plan[u] /\ held'[u] = held[u]
    BY <1>2, <2>1
  <2>4. Current(t) = plan[t][1] /\ Current(t) \in Statements
    BY <2>1 DEF Current
  <2>5. held[t] \subseteq held'[t] /\ held'[t] \subseteq held[t] \cup plan[t][1].rows /\ held'[t] \subseteq Rows
    BY <1>2, <2>1, <2>4 DEF Missing, Statements
  <2>6. PlansInv'
    <3>1. held' \in [Transactions -> SUBSET Rows]
      BY <1>2, <2>1, <2>3, <2>5
    <3> QED BY <1>2, <2>1, <2>3, <3>1
  <2>7. LockTypeOK'
    <3>1. \A u \in Transactions \ {t} : held'[t] \cap held[u] = {}
      BY <1>2, <2>1 DEF LockTypeOK, HeldByOthers
    <3>2. \A u, v \in Transactions : u # v => held'[u] \cap held'[v] = {}
      BY <1>2, <2>3, <3>1 DEF LockTypeOK
    <3>3. \A u \in Transactions : waiting'[u] # NoRow => plan'[u] # <<>> /\ waiting'[u] \in Missing(u)'
      BY <1>2, <2>1, <2>2, <2>3 DEF LockTypeOK, Missing, Current
    <3> QED BY <2>6, <3>2, <3>3 DEF LockTypeOK
  <2>8. Follows(t)'
    <3>1. PICK r \in Rides : RideFirst(r, held[t], plan[t]) /\ InLockOrder(r, held[t], plan[t])
      BY <2>1 DEF LockingInv, Follows
    <3>2. RideRow(r) \in held'[t]
      <4>1. CASE RideRow(r) \in held[t]
        BY <2>5, <4>1
      <4>2. CASE held[t] = {} /\ plan[t][1] = Lock({RideRow(r)})
        <5>1. RideRow(r) \in Missing(t) /\ ~Current(t).skip
          BY <2>4, <4>2, LockedRows DEF Missing
        <5> QED BY <2>1, <5>1
      <4> QED BY <3>1, <4>1, <4>2 DEF RideFirst
    <3>3. InLockOrder(r, held'[t], Tail(plan[t]))
      BY <2>1, <2>5, <3>1, RestOrdered
    <3>4. InLockOrder(r, held[t], plan[t])'
      BY <1>1, <2>3, <3>3, SameOrder
    <3> QED BY <3>2, <3>4 DEF Follows, RideFirst
  <2>9. \A u \in Transactions \ {t} : Follows(u)'
    BY <1>1, <2>3, OthersFollow
  <2>10. \A u \in Transactions : waiting'[u] # NoRow => ~Current(u)'.skip
    BY <2>1, <2>2, <2>3 DEF LockingInv, Current
  <2> QED BY <1>2, <2>6, <2>7, <2>8, <2>9, <2>10 DEF LockingInv
<1>7. ASSUME NEW t \in Transactions, Commit(t) PROVE LockingInv'
  <2>1. plan[t] = <<>> /\ held' = [held EXCEPT ![t] = {}] /\ UNCHANGED <<plan, waiting>>
    BY <1>7 DEF Commit
  <2>2. waiting[t] = NoRow
    BY <1>2, <2>1 DEF LockTypeOK
  <2>3. PlansInv'
    BY <1>2, <2>1
  <2>4. held'[t] = {} /\ \A u \in Transactions \ {t} : held'[u] = held[u]
    BY <1>2, <2>1
  <2>5. LockTypeOK'
    BY <1>2, <2>1, <2>2, <2>3, <2>4 DEF LockTypeOK, Missing, Current
  <2>6. \A u \in Transactions \ {t} : Follows(u)'
    BY <1>1, <2>1, <2>4, OthersFollow
  <2>7. Follows(t)'
    BY <2>1 DEF Follows
  <2> QED BY <1>2, <2>1, <2>3, <2>5, <2>6, <2>7 DEF LockingInv, Current
<1>8. CASE UNCHANGED lockVars
  <2>1. UNCHANGED <<plan, waiting, held>>
    BY <1>8 DEF lockVars
  <2>2. \A u \in Transactions : Follows(u)'
    BY <1>1, <2>1, OthersFollow
  <2> QED BY <1>2, <2>1, <2>2 DEF LockingInv, LockTypeOK, Missing, Current
<1> QED BY <1>3, <1>4, <1>5, <1>6, <1>7, <1>8 DEF LockNext

\* No transactions wait for each other, however many run and whatever the lines and
\* offers are, as long as nobody waits in two lines and waitlists stay on
\* (ride-waitlists.ts: "used everywhere so concurrent workers and web requests
\* cannot deadlock").
THEOREM NoCycleCorrect == LockSpec /\ ~MayDisable /\ ~MayWaitTwice => []NoWaitCycle
<1>1. LockInit /\ ~MayDisable /\ ~MayWaitTwice => LockingInv
  BY LockInitOK
<1>2. LockingInv /\ [LockNext]_lockVars => LockingInv'
  BY LockStep
<1>3. LockingInv => NoWaitCycle
  BY OrderMeansNoCycle
<1> QED BY <1>1, <1>2, <1>3, PTL DEF LockSpec

\* A row has one owner, and what a transaction waits for is a row its statement needs.
THEOREM LockTypes == LockSpec /\ ~MayDisable /\ ~MayWaitTwice => []LockTypeOK
<1>1. LockingInv => LockTypeOK
  BY DEF LockingInv
<1> QED BY <1>1, LockInitOK, LockStep, PTL DEF LockSpec
=============================================================================

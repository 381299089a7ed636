------------------------- MODULE RideWaitlistsProofs -------------------------
(* Waitlists and standby offers for any number of riders, entries and rides. *)
(* PlanOffers walks along the line by a recursive function; what it does is  *)
(* shown by least counterexamples: a set of places where a claim fails would *)
(* have a least member, and its predecessor a place where the claim holds.   *)
EXTENDS RideWaitlists, RideEngineProofs

-----------------------------------------------------------------------------
(* Least members and the seats of entries *)

\* A non-empty set of natural numbers up to N has a least member.
LEMMA LeastMember ==
  ASSUME NEW N \in Nat, NEW S \in SUBSET (0..N), S # {}
  PROVE  \E x \in S : \A y \in S : x <= y
<1>1. IsFiniteSet(0..N)
  BY FS_Interval
<1> DEFINE F == {0..n : n \in S}  R == StrictSubsetOrdering(0..N)
<1>2. IsWellFoundedOn(R, FiniteSubsetsOf(0..N))
  BY FS_StrictSubsetOrderingWellFounded
<1>3. F \subseteq FiniteSubsetsOf(0..N)
  <2>1. FiniteSubsetsOf(0..N) = SUBSET (0..N)
    BY <1>1, FS_FiniteSubsetsOfFinite
  <2>2. \A n \in S : 0..n \subseteq 0..N
    OBVIOUS
  <2> QED BY <2>1, <2>2
<1>4. PICK X \in F : \A Y \in F : <<Y, X>> \notin R
  <2>1. F # {}
    OBVIOUS
  <2> HIDE DEF F, R
  <2> QED BY <1>2, <1>3, <2>1, WFMin
<1>5. PICK x \in S : X = 0..x
  OBVIOUS
<1>6. \A y \in S : ~(y < x)
  <2> SUFFICES ASSUME NEW y \in S, y < x PROVE FALSE
    OBVIOUS
  <2>1. 0..y \in F /\ 0..y \subseteq 0..x /\ 0..x \subseteq 0..N
    OBVIOUS
  <2>2. x \in 0..x /\ x \notin 0..y
    OBVIOUS
  <2>3. <<0..y, 0..x>> \in R
    BY <2>1, <2>2 DEF StrictSubsetOrdering
  <2> QED BY <1>4, <1>5, <2>1, <2>3
<1> QED BY <1>6

\* Seats of entries
Parts(wl, E) == UNION {{e} \X (1..SeatsNeeded[wl[e].request]) : e \in E}

LEMMA EntriesFinite == IsFiniteSet(Entries) /\ \A E \in SUBSET Entries : IsFiniteSet(E)
<1>1. IsFiniteSet(Entries)
  BY MaxEntriesAssumption, FS_Interval DEF Entries
<1> QED BY <1>1, FS_Subset

\* The entries of E are for requests.
Asked(wl, E) == \A e \in E : wl[e].request \in Requests

LEMMA PartsFinite ==
  ASSUME NEW wl, NEW E \in SUBSET Entries, Asked(wl, E)
  PROVE  IsFiniteSet(Parts(wl, E)) /\ SeatsOfEntries(wl, E) \in Nat
<1>1. IsFiniteSet(1..12)
  <2>1. 1 \in Int /\ 12 \in Int
    OBVIOUS
  <2> QED BY <2>1, FS_Interval, Zenon
<1>2. IsFiniteSet(Entries \X (1..12))
  BY <1>1, EntriesFinite, FS_Product
<1>3. Parts(wl, E) \in SUBSET (Entries \X (1..12))
  BY SeatsNeededAssumption DEF Parts, Asked
<1>4. IsFiniteSet(Parts(wl, E))
  BY <1>2, <1>3, FS_Subset
<1> QED BY <1>4, FS_CardinalityType DEF SeatsOfEntries, Parts

LEMMA SeatsOfNobody == ASSUME NEW wl PROVE SeatsOfEntries(wl, {}) = 0
<1>1. UNION {{e} \X (1..SeatsNeeded[wl[e].request]) : e \in {}} = {}
  OBVIOUS
<1> QED BY <1>1, FS_EmptySet DEF SeatsOfEntries

LEMMA SeatsOfOneEntry ==
  ASSUME NEW wl, NEW e \in Entries, wl[e].request \in Requests
  PROVE  SeatsOfEntries(wl, {e}) = SeatsNeeded[wl[e].request]
<1>1. IsFiniteSet({e}) /\ Cardinality({e}) = 1
  BY FS_Singleton
<1>2. PICK n \in 1..12 : n = SeatsNeeded[wl[e].request]
  BY SeatsNeededAssumption
<1>3. IsFiniteSet(1..n) /\ Cardinality(1..n) = n
  <2>1. n \in Int /\ 1 \in Int /\ ~(1 > n)
    OBVIOUS
  <2>2. IsFiniteSet(1..n) /\ Cardinality(1..n) = n - 1 + 1
    BY <2>1, FS_Interval, Zenon
  <2> QED BY <2>2
<1>4. Cardinality({e} \X (1..n)) = 1 * n
  BY <1>1, <1>3, FS_Product
<1>5. UNION {{d} \X (1..SeatsNeeded[wl[d].request]) : d \in {e}} = {e} \X (1..n)
  BY <1>2
<1> QED BY <1>2, <1>4, <1>5 DEF SeatsOfEntries

LEMMA SeatsOfMoreEntries ==
  ASSUME NEW wl, NEW E \in SUBSET Entries, NEW e \in Entries \ E, Asked(wl, E), wl[e].request \in Requests
  PROVE  SeatsOfEntries(wl, E \cup {e}) = SeatsOfEntries(wl, E) + SeatsNeeded[wl[e].request]
<1>1. Parts(wl, E \cup {e}) = Parts(wl, E) \cup Parts(wl, {e})
  BY DEF Parts
<1>2. Parts(wl, E) \cap Parts(wl, {e}) = {}
  BY DEF Parts
<1>a. Asked(wl, {e}) /\ {e} \in SUBSET Entries
  BY DEF Asked
<1>3. /\ IsFiniteSet(Parts(wl, E)) /\ IsFiniteSet(Parts(wl, {e}))
      /\ SeatsOfEntries(wl, E) \in Nat /\ SeatsOfEntries(wl, {e}) \in Nat
  BY <1>a, PartsFinite
<1>b. \A D : SeatsOfEntries(wl, D) = Cardinality(Parts(wl, D))
  BY DEF SeatsOfEntries, Parts
<1>5. Cardinality({}) = 0
  BY FS_EmptySet
<1>4. SeatsOfEntries(wl, E \cup {e}) = SeatsOfEntries(wl, E) + SeatsOfEntries(wl, {e}) - Cardinality({})
  <2>1. Cardinality(Parts(wl, E) \cup Parts(wl, {e}))
          = Cardinality(Parts(wl, E)) + Cardinality(Parts(wl, {e})) - Cardinality(Parts(wl, E) \cap Parts(wl, {e}))
    BY <1>3, FS_Union
  <2>2. SeatsOfEntries(wl, E \cup {e}) = Cardinality(Parts(wl, E) \cup Parts(wl, {e}))
    BY <1>1, <1>b
  <2>3. /\ SeatsOfEntries(wl, E) = Cardinality(Parts(wl, E))
        /\ SeatsOfEntries(wl, {e}) = Cardinality(Parts(wl, {e}))
    BY <1>b
  <2> QED BY <1>2, <2>1, <2>2, <2>3
<1>6. SeatsOfEntries(wl, {e}) = SeatsNeeded[wl[e].request]
  BY SeatsOfOneEntry
<1> QED BY <1>3, <1>4, <1>5, <1>6

\* Fewer entries have no more seats, whatever else the table says of them.
LEMMA SeatsOfFewer ==
  ASSUME NEW wl, NEW new, NEW E \in SUBSET Entries, NEW D \in SUBSET E, Asked(wl, E),
         \A e \in D : new[e].request = wl[e].request
  PROVE  SeatsOfEntries(new, D) <= SeatsOfEntries(wl, E) /\ SeatsOfEntries(new, D) \in Nat
<1>1. Parts(new, D) = Parts(wl, D) /\ Parts(wl, D) \in SUBSET Parts(wl, E)
  BY DEF Parts
<1>2. IsFiniteSet(Parts(wl, E))
  BY PartsFinite
<1>3. SeatsOfEntries(new, D) = Cardinality(Parts(wl, D)) /\ SeatsOfEntries(wl, E) = Cardinality(Parts(wl, E))
  BY <1>1 DEF SeatsOfEntries, Parts
<1> QED BY <1>1, <1>2, <1>3, FS_Subset, FS_CardinalityType

-----------------------------------------------------------------------------
(* The walk along the line *)

\* What the walk along the line has left after entry n.
LeftAfter(C, free, left, n) ==
  IF n = 0 THEN free
  ELSE IF n \in C /\ Offerable(n) /\ SeatsFor(n) <= left[n - 1]
       THEN left[n - 1] - SeatsFor(n) ELSE left[n - 1]

Walk(C, free, left, N) ==
  left \in [0..N -> Int] /\ \A n \in 0..N : left[n] = LeftAfter(C, free, left, n)

LEMMA WalkStarts ==
  ASSUME NEW C \in SUBSET Entries, NEW free \in Int
  PROVE  Walk(C, free, [n \in 0..0 |-> free], 0)
BY DEF Walk, LeftAfter

LEMMA WalkGoesOn ==
  ASSUME NEW C \in SUBSET Entries, NEW free \in Int, Asked(waitlist, C),
         NEW N \in Nat, NEW left, Walk(C, free, left, N)
  PROVE  \E more : Walk(C, free, more, N + 1)
<1>1. left \in [0..N -> Int] /\ \A n \in 0..N : left[n] = LeftAfter(C, free, left, n)
  BY DEF Walk
<1>2. PICK last \in Int : last = LeftAfter(C, free, left, N + 1)
  <2>1. N + 1 \in C => SeatsFor(N + 1) \in Nat
    BY SeatsNeededAssumption DEF Asked, SeatsFor
  <2>2. left[N] \in Int /\ N + 1 # 0 /\ (N + 1) - 1 = N
    BY <1>1
  <2> QED BY <2>1, <2>2 DEF LeftAfter
<1> DEFINE more == [n \in 0..(N + 1) |-> IF n = N + 1 THEN last ELSE left[n]]
<1>3. more \in [0..(N + 1) -> Int]
  BY <1>1, <1>2
<1>4. \A n \in 0..N : more[n] = left[n]
  OBVIOUS
<1>5. more[N + 1] = last
  OBVIOUS
<1> HIDE DEF more
<1>6. \A n \in 0..N : LeftAfter(C, free, more, n) = LeftAfter(C, free, left, n)
  <2> SUFFICES ASSUME NEW n \in 0..N PROVE LeftAfter(C, free, more, n) = LeftAfter(C, free, left, n)
    OBVIOUS
  <2>1. n # 0 => more[n - 1] = left[n - 1]
    BY <1>4
  <2> QED BY <2>1 DEF LeftAfter
<1>7. LeftAfter(C, free, more, N + 1) = last
  <2>1. N + 1 # 0 /\ (N + 1) - 1 = N /\ more[N] = left[N]
    BY <1>4
  <2> QED BY <1>2, <2>1 DEF LeftAfter
<1>8. \A n \in 0..(N + 1) : n \in 0..N \/ n = N + 1
  OBVIOUS
<1>9. \A n \in 0..(N + 1) : more[n] = LeftAfter(C, free, more, n)
  BY <1>1, <1>4, <1>5, <1>6, <1>7, <1>8
<1> QED BY <1>3, <1>9 DEF Walk

\* The line can be walked to its end, so the recursive definition means the walk.
LEMMA WalkEnds ==
  ASSUME NEW C \in SUBSET Entries, NEW free \in Int, Asked(waitlist, C)
  PROVE  \E left : Walk(C, free, left, MaxEntries)
<1> DEFINE Bad == {n \in 0..MaxEntries : ~ \E left : Walk(C, free, left, n)}
<1> SUFFICES ASSUME Bad # {} PROVE FALSE
  BY MaxEntriesAssumption
<1>1. PICK n \in Bad : \A m \in Bad : n <= m
  <2>1. Bad \in SUBSET (0..MaxEntries)
    OBVIOUS
  <2> HIDE DEF Bad
  <2> QED BY <2>1, MaxEntriesAssumption, LeastMember
<1>2. n # 0
  BY WalkStarts
<1>3. n - 1 \in Nat /\ n - 1 \in 0..MaxEntries /\ n - 1 \notin Bad
  BY <1>1, <1>2, MaxEntriesAssumption
<1>4. PICK left : Walk(C, free, left, n - 1)
  BY <1>3
<1>5. \E more : Walk(C, free, more, (n - 1) + 1)
  BY <1>3, <1>4, WalkGoesOn
<1>6. (n - 1) + 1 = n
  BY <1>3
<1> QED BY <1>5, <1>6

LEMMA WalkUnique ==
  ASSUME NEW C \in SUBSET Entries, NEW free \in Int, NEW left, Walk(C, free, left, MaxEntries),
         NEW f, f = [n \in 0..MaxEntries |-> LeftAfter(C, free, f, n)]
  PROVE  f = left
<1>0. left \in [0..MaxEntries -> Int] /\ \A n \in 0..MaxEntries : left[n] = LeftAfter(C, free, left, n)
  BY DEF Walk
<1>a. \A n \in 0..MaxEntries : f[n] = LeftAfter(C, free, f, n)
  OBVIOUS
<1> DEFINE Bad == {n \in 0..MaxEntries : f[n] # left[n]}
<1>1. ASSUME Bad # {} PROVE FALSE
  <2>1. PICK n \in Bad : \A m \in Bad : n <= m
    <3>1. Bad \in SUBSET (0..MaxEntries)
      OBVIOUS
    <3> HIDE DEF Bad
    <3> QED BY <1>1, <3>1, MaxEntriesAssumption, LeastMember
  <2>2. n # 0 => n - 1 \in 0..MaxEntries /\ n - 1 \notin Bad
    BY <2>1, MaxEntriesAssumption
  <2>3. n # 0 => f[n - 1] = left[n - 1]
    BY <2>2
  <2>4. LeftAfter(C, free, f, n) = LeftAfter(C, free, left, n)
    BY <2>3 DEF LeftAfter
  <2> QED BY <1>0, <1>a, <2>4
<1>2. \A n \in 0..MaxEntries : f[n] = left[n]
  BY <1>1
<1>3. f \in [0..MaxEntries -> Int]
  BY <1>0, <1>2
<1> QED BY <1>0, <1>2, <1>3

LEMMA PlanIsWalk ==
  ASSUME NEW C \in SUBSET Entries, NEW free \in Int, Asked(waitlist, C)
  PROVE  \E left : /\ Walk(C, free, left, MaxEntries)
                   /\ PlanOffers(C, free) = {e \in C : Offerable(e) /\ SeatsFor(e) <= left[e - 1]}
<1>1. PICK left : Walk(C, free, left, MaxEntries)
  BY WalkEnds
<1>2. left = [n \in 0..MaxEntries |-> LeftAfter(C, free, left, n)]
  BY <1>1 DEF Walk
<1> DEFINE f == CHOOSE g : g = [n \in 0..MaxEntries |->
                  IF n = 0 THEN free
                  ELSE IF n \in C /\ Offerable(n) /\ SeatsFor(n) <= g[n - 1]
                       THEN g[n - 1] - SeatsFor(n) ELSE g[n - 1]]
<1>3. PlanOffers(C, free) = {e \in C : Offerable(e) /\ SeatsFor(e) <= f[e - 1]}
  BY DEF PlanOffers
<1>4. f = [n \in 0..MaxEntries |-> LeftAfter(C, free, f, n)]
  BY <1>2 DEF LeftAfter
<1>5. f = left
  <2> HIDE DEF f
  <2> QED BY <1>1, <1>4, WalkUnique
<1> QED BY <1>1, <1>3, <1>5

-----------------------------------------------------------------------------
(* What the walk gives *)

\* What is true of the start of the line and handed on from entry to entry is true
\* of the whole line: the least entry where it fails would have no predecessor.
LEMMA AlongTheLine ==
  ASSUME NEW G \in SUBSET (0..MaxEntries), 0 \in G,
         \A n \in 0..MaxEntries : n # 0 /\ n - 1 \in G => n \in G
  PROVE  G = 0..MaxEntries
<1> DEFINE Bad == (0..MaxEntries) \ G
<1> SUFFICES ASSUME Bad # {} PROVE FALSE
  OBVIOUS
<1>1. PICK n \in Bad : \A m \in Bad : n <= m
  <2>1. Bad \in SUBSET (0..MaxEntries)
    OBVIOUS
  <2> HIDE DEF Bad
  <2> QED BY <2>1, MaxEntriesAssumption, LeastMember
<1>2. n # 0 /\ n - 1 \in 0..MaxEntries /\ n - 1 \notin Bad
  BY <1>1, MaxEntriesAssumption
<1> QED BY <1>2

\* The walk never has more left than before.
LEMMA LeftShrinks ==
  ASSUME NEW C \in SUBSET Entries, NEW free \in Int, Asked(waitlist, C),
         NEW left, Walk(C, free, left, MaxEntries),
         NEW m \in 0..MaxEntries, NEW n \in 0..MaxEntries, m <= n
  PROVE  left[n] <= left[m]
<1>0. left \in [0..MaxEntries -> Int] /\ \A k \in 0..MaxEntries : left[k] = LeftAfter(C, free, left, k)
  BY DEF Walk
<1> DEFINE G == {k \in 0..MaxEntries : k < m \/ left[k] <= left[m]}
<1>1. 0 \in G
  BY <1>0, MaxEntriesAssumption
<1>2. ASSUME NEW k \in 0..MaxEntries, k # 0, k - 1 \in G PROVE k \in G
  <2>1. CASE k <= m
    BY <1>0, <2>1
  <2>2. CASE k > m
    <3>1. left[k - 1] <= left[m] /\ left[k - 1] \in Int /\ left[k] \in Int /\ left[m] \in Int
      BY <1>0, <1>2, <2>2
    <3>2. left[k] = LeftAfter(C, free, left, k)
      BY <1>0
    <3>3. k \in C => SeatsFor(k) \in Nat
      BY SeatsNeededAssumption DEF Asked, SeatsFor
    <3> QED BY <1>2, <3>1, <3>2, <3>3 DEF LeftAfter
  <2> QED BY <2>1, <2>2
<1>3. G = 0..MaxEntries
  <2>1. G \in SUBSET (0..MaxEntries)
    OBVIOUS
  <2> HIDE DEF G
  <2> QED BY <1>1, <1>2, <2>1, AlongTheLine
<1> QED BY <1>3

\* If the walk gives nothing, it has everything left.
LEMMA LeftUntouched ==
  ASSUME NEW C \in SUBSET Entries, NEW free \in Int, Asked(waitlist, C),
         NEW left, Walk(C, free, left, MaxEntries), \A e \in C : ~(Offerable(e) /\ SeatsFor(e) <= left[e - 1]),
         NEW n \in 0..MaxEntries
  PROVE  left[n] = free
<1>0. \A k \in 0..MaxEntries : left[k] = LeftAfter(C, free, left, k)
  BY DEF Walk
<1> DEFINE G == {k \in 0..MaxEntries : left[k] = free}
<1>1. 0 \in G
  BY <1>0, MaxEntriesAssumption DEF LeftAfter
<1>2. ASSUME NEW k \in 0..MaxEntries, k # 0, k - 1 \in G PROVE k \in G
  BY <1>0, <1>2 DEF LeftAfter
<1>3. G = 0..MaxEntries
  <2>1. G \in SUBSET (0..MaxEntries)
    OBVIOUS
  <2> HIDE DEF G
  <2> QED BY <1>1, <1>2, <2>1, AlongTheLine
<1> QED BY <1>3

\* Whoever is passed over asks for more than whoever is offered a seat behind.
LEMMA PassedOverNeedsMore ==
  ASSUME NEW C \in SUBSET Entries, NEW free \in Int, Asked(waitlist, C),
         NEW d \in C, NEW e \in PlanOffers(C, free), d < e, Offerable(d), d \notin PlanOffers(C, free)
  PROVE  SeatsFor(e) < SeatsFor(d)
<1>1. PICK left : /\ Walk(C, free, left, MaxEntries)
                  /\ PlanOffers(C, free) = {a \in C : Offerable(a) /\ SeatsFor(a) <= left[a - 1]}
  BY PlanIsWalk
<1>2. e \in C /\ SeatsFor(e) <= left[e - 1] /\ ~(SeatsFor(d) <= left[d - 1])
  BY <1>1
<1>3. d - 1 \in 0..MaxEntries /\ e - 1 \in 0..MaxEntries /\ d - 1 <= e - 1
  BY <1>2, MaxEntriesAssumption DEF Entries
<1>4. left[e - 1] <= left[d - 1] /\ left[e - 1] \in Int /\ left[d - 1] \in Int
  BY <1>1, <1>3, LeftShrinks DEF Walk
<1>5. SeatsFor(d) \in Nat /\ SeatsFor(e) \in Nat
  BY <1>2, SeatsNeededAssumption DEF Asked, SeatsFor
<1> QED BY <1>2, <1>4, <1>5

\* When nobody is offered a seat, whoever could have been asks for more than is free.
LEMMA NobodyFits ==
  ASSUME NEW C \in SUBSET Entries, NEW free \in Int, Asked(waitlist, C),
         PlanOffers(C, free) = {}, NEW e \in C, Offerable(e)
  PROVE  SeatsFor(e) > free
<1>1. PICK left : /\ Walk(C, free, left, MaxEntries)
                  /\ PlanOffers(C, free) = {a \in C : Offerable(a) /\ SeatsFor(a) <= left[a - 1]}
  BY PlanIsWalk
<1>2. \A a \in C : ~(Offerable(a) /\ SeatsFor(a) <= left[a - 1])
  BY <1>1
<1>3. e - 1 \in 0..MaxEntries
  BY MaxEntriesAssumption DEF Entries
<1>4. left[e - 1] = free
  BY <1>1, <1>2, <1>3, LeftUntouched
<1>5. SeatsFor(e) \in Nat
  BY SeatsNeededAssumption DEF Asked, SeatsFor
<1> QED BY <1>2, <1>4, <1>5

\* What is offered in one round fits into what was free.
LEMMA OffersFit ==
  ASSUME NEW C \in SUBSET Entries, NEW free \in Nat, Asked(waitlist, C)
  PROVE  /\ PlanOffers(C, free) \in SUBSET C
         /\ SeatsOfEntries(waitlist, PlanOffers(C, free)) <= free
<1>1. PICK left : /\ Walk(C, free, left, MaxEntries)
                  /\ PlanOffers(C, free) = {a \in C : Offerable(a) /\ SeatsFor(a) <= left[a - 1]}
  BY PlanIsWalk
<1> DEFINE Upto(n) == {e \in PlanOffers(C, free) : e <= n}
           G == {n \in 0..MaxEntries : left[n] >= 0 /\ SeatsOfEntries(waitlist, Upto(n)) = free - left[n]}
<1>0. left \in [0..MaxEntries -> Int] /\ \A k \in 0..MaxEntries : left[k] = LeftAfter(C, free, left, k)
  BY <1>1 DEF Walk
<1>2. PlanOffers(C, free) \in SUBSET C
  BY <1>1
<1>a. \A e \in PlanOffers(C, free) : e \in Nat /\ 1 <= e /\ e <= MaxEntries
  <2>1. \A e \in PlanOffers(C, free) : e \in 1..MaxEntries
    BY <1>2 DEF Entries
  <2> QED BY <2>1, MaxEntriesAssumption
<1>3. \A n : Upto(n) \in SUBSET Entries /\ Asked(waitlist, Upto(n))
  BY <1>2 DEF Asked
<1>4. 0 \in G
  <2>1. Upto(0) = {}
    BY <1>a
  <2>2. left[0] = free
    BY <1>0, MaxEntriesAssumption DEF LeftAfter
  <2> QED BY <2>1, <2>2, SeatsOfNobody, MaxEntriesAssumption
<1>5. ASSUME NEW n \in 0..MaxEntries, n # 0, n - 1 \in G PROVE n \in G
  <2>1. left[n] \in Int /\ left[n - 1] \in Nat /\ SeatsOfEntries(waitlist, Upto(n - 1)) = free - left[n - 1]
    BY <1>0, <1>5
  <2>2. n \in Entries
    BY <1>5 DEF Entries
  <2>3. CASE n \in PlanOffers(C, free)
    <3>1. n \in C /\ Offerable(n) /\ SeatsFor(n) <= left[n - 1] /\ SeatsFor(n) \in Nat
      BY <1>1, <2>3, SeatsNeededAssumption DEF Asked, SeatsFor
    <3>2. left[n] = left[n - 1] - SeatsFor(n)
      BY <1>0, <1>5, <3>1 DEF LeftAfter
    <3>3. Upto(n) = Upto(n - 1) \cup {n} /\ n \notin Upto(n - 1)
      <4>1. \A e \in PlanOffers(C, free) : e <= n <=> e <= n - 1 \/ e = n
        BY <1>5, <1>a
      <4>2. ~(n <= n - 1) /\ n <= n
        BY <1>5, MaxEntriesAssumption
      <4> QED BY <2>3, <4>1, <4>2
    <3>4. waitlist[n].request \in Requests
      BY <3>1 DEF Asked
    <3> HIDE DEF Upto
    <3>5. SeatsOfEntries(waitlist, Upto(n)) = SeatsOfEntries(waitlist, Upto(n - 1)) + SeatsNeeded[waitlist[n].request]
      BY <1>3, <2>2, <3>3, <3>4, SeatsOfMoreEntries
    <3> QED BY <2>1, <3>1, <3>2, <3>5 DEF SeatsFor
  <2>4. CASE n \notin PlanOffers(C, free)
    <3>1. ~(n \in C /\ Offerable(n) /\ SeatsFor(n) <= left[n - 1])
      BY <1>1, <2>4
    <3>2. left[n] = left[n - 1]
      BY <1>0, <1>5, <3>1 DEF LeftAfter
    <3>3. Upto(n) = Upto(n - 1)
      <4>1. \A e \in PlanOffers(C, free) : e <= n <=> e <= n - 1
        BY <1>5, <1>a, <2>4
      <4> QED BY <4>1
    <3>4. SeatsOfEntries(waitlist, Upto(n)) = free - left[n] /\ left[n] >= 0
      <4> HIDE DEF Upto
      <4> QED BY <2>1, <3>2, <3>3
    <3> QED BY <3>4
  <2> QED BY <2>3, <2>4
<1>6. G = 0..MaxEntries
  <2>1. G \in SUBSET (0..MaxEntries)
    OBVIOUS
  <2> HIDE DEF G
  <2> QED BY <1>4, <1>5, <2>1, AlongTheLine
<1>7. MaxEntries \in G /\ Upto(MaxEntries) = PlanOffers(C, free)
  BY <1>6, <1>a, MaxEntriesAssumption
<1>8. left[MaxEntries] \in Int
  BY <1>0, MaxEntriesAssumption
<1> QED BY <1>2, <1>7, <1>8

-----------------------------------------------------------------------------
(* What processing makes of an entry *)

\* A used entry is for a request that was sent and for a ride; an offer, also an
\* accepted one, is of a ride that exists.
EntrySound(row) ==
  /\ row.status # "none" =>
       row.request \in Requests /\ row.ride \in Requests /\ request[row.request].status # "none"
  /\ row.status \in {"offered", "accepted"} =>
       row.offeredOn \in Requests /\ ride[row.offeredOn].status # "none"

EntriesSound == \A e \in Entries : EntrySound(waitlist[e])

EntriesInv == WaitlistTypeOK /\ EntriesSound

\* What a round of processing of ride r may do to a row.
Cancels(r, row, new) ==
  /\ row.status \in ActiveStatuses /\ row.ride = r /\ CloseReason(r) # "none"
  /\ new = [row EXCEPT !.status = "cancelled"]
Returns(r, row, new) ==
  /\ row.status = "offered" /\ row.offeredOn = r
  /\ new = [row EXCEPT !.status = "waiting", !.offeredOn = None, !.open = FALSE]
Expires(r, row, new) ==
  /\ row.status = "offered" /\ row.offeredOn = r
  /\ new = [row EXCEPT !.status = "expired"]
Offers(r, e, row, new) ==
  /\ row.status = "waiting" /\ Offerable(e)
  /\ CloseReason(r) = "none"
  /\ new = [row EXCEPT !.status = "offered", !.offeredOn = r, !.open = TRUE]
Ends(e, row, new) ==
  /\ row.status = "waiting" /\ MustEnd(e)
  /\ new = [row EXCEPT !.status = EndStatus(e)]

Outcome(r, e, row, new) ==
  \/ new = row \/ Cancels(r, row, new) \/ Returns(r, row, new) \/ Expires(r, row, new)
  \/ Offers(r, e, row, new) \/ Ends(e, row, new)

LEMMA EndStatusIs == \A e : EndStatus(e) \in {"cancelled", "removed"}
BY DEF EndStatus

LEMMA OutcomeTyped ==
  ASSUME NEW r \in Requests, NEW e, NEW row \in EntryRows, NEW new, Outcome(r, e, row, new)
  PROVE  /\ new \in EntryRows /\ new.request = row.request /\ new.ride = row.ride
         /\ new.status = "none" <=> row.status = "none"
         /\ new.status = "accepted" <=> row.status = "accepted"
         /\ new.status = "accepted" => new = row
         /\ new.status = "offered" => new = row \/ (Offers(r, e, row, new) /\ new.offeredOn = r)
<1> DEFINE fits ==
         /\ new \in EntryRows /\ new.request = row.request /\ new.ride = row.ride
         /\ new.status = "none" <=> row.status = "none"
         /\ new.status = "accepted" <=> row.status = "accepted"
         /\ new.status = "accepted" => new = row
         /\ new.status = "offered" => new = row \/ (Offers(r, e, row, new) /\ new.offeredOn = r)
<1>0. row.status \in ActiveStatuses <=> row.status \in {"waiting", "offered"}
  BY DEF ActiveStatuses
<1>1. ASSUME Cancels(r, row, new) PROVE fits
  BY <1>0, <1>1 DEF Cancels, EntryRows
<1>2. ASSUME Returns(r, row, new) PROVE fits
  BY <1>2 DEF Returns, EntryRows
<1>3. ASSUME Expires(r, row, new) PROVE fits
  BY <1>3 DEF Expires, EntryRows
<1>4. ASSUME Offers(r, e, row, new) PROVE fits
  <2>1. row.status = "waiting" /\ new = [row EXCEPT !.status = "offered", !.offeredOn = r, !.open = TRUE]
    BY <1>4 DEF Offers
  <2> QED BY <1>4, <2>1 DEF EntryRows
<1>5. ASSUME Ends(e, row, new) PROVE fits
  <2>1. PICK status \in {"cancelled", "removed"} : new = [row EXCEPT !.status = status] /\ row.status = "waiting"
    BY <1>5, EndStatusIs DEF Ends
  <2> QED BY <2>1 DEF EntryRows
<1>6. ASSUME new = row PROVE fits
  BY <1>6
<1> SUFFICES fits
  OBVIOUS
<1> HIDE DEF fits
<1> QED BY <1>1, <1>2, <1>3, <1>4, <1>5, <1>6 DEF Outcome

\* The rounds that end the waiting, and those that only let offers expire.
LEMMA ClosedOutcome ==
  ASSUME NEW r \in Requests, NEW wl, CloseReason(r) # "none", NEW e \in Entries
  PROVE  Outcome(r, e, wl[e], ClosedWaitlist(r, wl)[e])
BY DEF ClosedWaitlist, Outcome, Cancels, Returns, HeldBy

LEMMA ExpiredOutcome ==
  ASSUME NEW r \in Requests, NEW wl, NEW e \in Entries
  PROVE  \/ ExpiredOffers(r, wl)[e] = wl[e]
         \/ Expires(r, wl[e], ExpiredOffers(r, wl)[e])
BY DEF ExpiredOffers, Expires, HeldBy

LEMMA MadeOutcome ==
  ASSUME NEW r \in Requests, NEW wl, NEW C, CloseReason(r) = "none", NEW e \in Entries,
         \A c \in C : wl[c].status = "waiting"
  PROVE  LET new == OffersMade(r, wl, C)[e]
         IN  new = wl[e] \/ Offers(r, e, wl[e], new) \/ Ends(e, wl[e], new)
<1>1. \A c \in PlanOffers(C, FreeSeats(r, wl)) : c \in C /\ Offerable(c)
  BY DEF PlanOffers
<1> QED BY <1>1 DEF OffersMade, Offers, Ends

\* The rows a round with free seats looks at.
Looked(r, wl, C) ==
  \E skip \in Skippable(Candidates(r, ExpiredOffers(r, wl))) :
    C = Batch(Candidates(r, ExpiredOffers(r, wl)) \ skip)

LEMMA LookedWait ==
  ASSUME NEW r \in Requests, NEW wl, NEW C, Looked(r, wl, C), NEW c \in C
  PROVE  c \in Entries /\ wl[c].status = "waiting" /\ ExpiredOffers(r, wl)[c] = wl[c]
<1>1. c \in Candidates(r, ExpiredOffers(r, wl))
  BY DEF Looked, Batch
<1>2. c \in Entries /\ ExpiredOffers(r, wl)[c].status = "waiting"
  BY <1>1 DEF Candidates
<1>3. ASSUME Expires(r, wl[c], ExpiredOffers(r, wl)[c]) PROVE FALSE
  <2>1. ExpiredOffers(r, wl)[c] = [wl[c] EXCEPT !.status = "expired"] /\ wl[c].status = "offered"
    BY <1>3 DEF Expires
  <2> QED BY <1>2, <2>1, ExpiredOutcome
<1> QED BY <1>2, <1>3, ExpiredOutcome

\* A round closes, or expires and perhaps offers.
Round(r, wl, result, C) ==
  \/ CloseReason(r) # "none" /\ result = ClosedWaitlist(r, wl) /\ C = {}
  \/ CloseReason(r) = "none" /\ result = ExpiredOffers(r, wl) /\ C = {}
  \/ /\ CloseReason(r) = "none" /\ ~(FreeSeats(r, ExpiredOffers(r, wl)) <= 0) /\ Looked(r, wl, C)
     /\ result = OffersMade(r, ExpiredOffers(r, wl), C)

LEMMA ProcessRounds ==
  ASSUME NEW r \in Requests, NEW wl, NEW result, ProcessLockedRide(r, wl, result)
  PROVE  \E C : Round(r, wl, result, C)
<1>1. CASE CloseReason(r) # "none"
  BY <1>1, Zenon DEF ProcessLockedRide, Round
<1>2. CASE CloseReason(r) = "none" /\ (ClockPhases[clock[r]] # "early" \/ FreeSeats(r, ExpiredOffers(r, wl)) <= 0)
  BY <1>2, Zenon DEF ProcessLockedRide, Round
<1>3. CASE CloseReason(r) = "none" /\ ~(ClockPhases[clock[r]] # "early" \/ FreeSeats(r, ExpiredOffers(r, wl)) <= 0)
  <2>1. PICK skip \in Skippable(Candidates(r, ExpiredOffers(r, wl))) :
          result = OffersMade(r, ExpiredOffers(r, wl), Batch(Candidates(r, ExpiredOffers(r, wl)) \ skip))
    BY <1>3 DEF ProcessLockedRide
  <2> QED BY <1>3, <2>1, Zenon DEF Round, Looked
<1> QED BY <1>1, <1>2, <1>3

LEMMA ProcessOutcome ==
  ASSUME NEW r \in Requests, NEW wl, NEW result, ProcessLockedRide(r, wl, result), NEW e \in Entries
  PROVE  Outcome(r, e, wl[e], result[e])
<1>1. PICK C : Round(r, wl, result, C)
  BY ProcessRounds
<1>2. CASE CloseReason(r) # "none" /\ result = ClosedWaitlist(r, wl)
  BY <1>2, ClosedOutcome
<1>3. CASE result = ExpiredOffers(r, wl)
  BY <1>3, ExpiredOutcome, Zenon DEF Outcome
<1>4. CASE CloseReason(r) = "none" /\ Looked(r, wl, C) /\ result = OffersMade(r, ExpiredOffers(r, wl), C)
  <2> DEFINE kept == ExpiredOffers(r, wl)
  <2>1. \A c \in C : kept[c].status = "waiting" /\ kept[c] = wl[c]
    BY <1>4, LookedWait
  <2> HIDE DEF kept
  <2>2. result[e] = kept[e] \/ Offers(r, e, kept[e], result[e]) \/ Ends(e, kept[e], result[e])
    BY <1>4, <2>1, MadeOutcome DEF kept
  <2>3. e \notin C => result[e] = kept[e]
    <3>1. PlanOffers(C, FreeSeats(r, kept)) \subseteq C
      BY DEF PlanOffers
    <3> QED BY <1>4, <3>1 DEF OffersMade, kept
  <2>4. kept[e] = wl[e] \/ Expires(r, wl[e], kept[e])
    BY ExpiredOutcome DEF kept
  <2>5. CASE kept[e] = wl[e]
    BY <2>2, <2>5, Zenon DEF Outcome
  <2>6. CASE kept[e] # wl[e]
    BY <2>1, <2>3, <2>4, <2>6, Zenon DEF Outcome
  <2> QED BY <2>5, <2>6
<1> QED BY <1>1, <1>2, <1>3, <1>4 DEF Round

-----------------------------------------------------------------------------
(* The engine under the waitlists *)

\* The upsert of a seat, whoever may make it.
LEMMA ReserveTyped ==
  ASSUME RideTypeOK, NEW r \in Requests, NEW q \in Requests, reserveSeatForRequest(r, q),
         UNCHANGED <<offer, approving, offering>>
  PROVE  RideTypeOK'
<1>a. \A k \in Requests : SeatsNeeded[k] \in Nat
  BY RequestFacts
<1> USE DEF RideTypeOK
<1>1. assignment' \in [Requests -> AssignmentRows]
  BY DEF reserveSeatForRequest, AssignmentRows
<1>2. passenger' \in [Requests -> [Persons -> PassengerRows]]
  <2>1. [request |-> q, status |-> "confirmed"] \in PassengerRows
    BY DEF PassengerRows
  <2> QED BY <2>1, RequestFacts DEF reserveSeatForRequest
<1>3. ride' \in [Requests -> RideRows]
  <2>1. ride[r].reserved + SeatsNeeded[q] \in Nat
    <3>1. ride[r].reserved \in Nat
      BY RideParts
    <3> QED BY <1>a, <3>1
  <2>2. [ride[r] EXCEPT !.reserved = ride[r].reserved + SeatsNeeded[q]] \in RideRows
    BY <2>1, RideParts, RideWith DEF RideStatuses
  <2> QED BY <2>2 DEF reserveSeatForRequest
<1>4. request' \in [Requests -> RequestRows]
  BY DEF reserveSeatForRequest, Match, RequestRows
<1> QED BY <1>1, <1>2, <1>3, <1>4

\* No step takes back a request or a ride, or asks a guardian again.
RequestOnward(q) ==
  request[q].status # "none" =>
    /\ request'[q].status # "none"
    /\ request'[q].approval = "pending" => request[q].approval = "pending"
Onward ==
  \A q \in Requests : RequestOnward(q) /\ (ride[q].status # "none" => ride'[q].status # "none")

LEMMA MatchOnward ==
  ASSUME RideTypeOK, NEW q \in Requests, NEW status \in {"open", "matched", "completed", "cancelled"},
         request'[q] \in {request[q], [request[q] EXCEPT !.status = status]}
  PROVE  RequestOnward(q)
<1>1. request[q] \in RequestRows
  BY DEF RideTypeOK
<1> QED BY <1>1 DEF RequestOnward, RequestRows

LEMMA OnwardReserve ==
  ASSUME RideTypeOK, NEW r \in Requests, NEW q \in Requests, reserveSeatForRequest(r, q)
  PROVE  Onward
<1>1. \A k \in Requests : request'[k] \in {request[k], [request[k] EXCEPT !.status = "matched"]}
  BY DEF reserveSeatForRequest, Match, RideTypeOK
<1>2. \A k \in Requests : ride'[k].status = ride[k].status
  BY RideParts DEF reserveSeatForRequest, RideTypeOK, RideRows
<1> QED BY <1>1, <1>2, MatchOnward DEF Onward

LEMMA OnwardStep ==
  ASSUME RideTypeOK, [RideNext]_rideVars
  PROVE  Onward
<1>a. \A k \in Requests : request[k] \in RequestRows /\ ride[k] \in RideRows
  BY DEF RideTypeOK
<1>b. \A k \in Requests : request'[k] = request[k] => RequestOnward(k)
  BY DEF RequestOnward
<1>1. ASSUME NEW q \in Requests, createRideRequest(q) PROVE Onward
  <2>1. \A k \in Requests : k # q => request'[k] = request[k]
    BY <1>1 DEF createRideRequest, RideTypeOK
  <2>2. request[q].status = "none" /\ ride' = ride
    BY <1>1 DEF createRideRequest
  <2> QED BY <1>b, <2>1, <2>2 DEF Onward, RequestOnward
<1>2. ASSUME NEW q \in Requests, NEW approve \in BOOLEAN, approveRideRequest(q, approve) PROVE Onward
  <2>1. \A k \in Requests : k # q => request'[k] = request[k]
    BY <1>2 DEF approveRideRequest, RideTypeOK
  <2>2. request'[q].status # "none" /\ request'[q].approval # "pending" /\ ride' = ride
    BY <1>2 DEF approveRideRequest, RideTypeOK
  <2> QED BY <1>b, <2>1, <2>2 DEF Onward, RequestOnward
<1>3. ASSUME UNCHANGED <<request, ride>> PROVE Onward
  BY <1>3, <1>b DEF Onward
<1>4. ASSUME NEW q \in Requests, NEW d \in Drivers, acceptRideOffer(q, d) PROVE Onward
  <2>1. \A k \in Requests : request'[k] \in {request[k], [request[k] EXCEPT !.status = "matched"]}
    BY <1>4 DEF acceptRideOffer, RideTypeOK
  <2>2. \A k \in Requests : ride[k].status # "none" => ride'[k] = ride[k]
    BY <1>4 DEF acceptRideOffer, MayAccept, RideTypeOK
  <2> QED BY <2>1, <2>2, MatchOnward DEF Onward
<1>5. ASSUME NEW r \in Requests, NEW q \in Requests, attachRequestToRide(r, q, 0) PROVE Onward
  BY <1>5, OnwardReserve DEF attachRequestToRide
<1>6. ASSUME NEW r \in Requests, NEW q \in Requests, removeRequestFromRide(r, q) PROVE Onward
  <2>1. \A k \in Requests : request'[k] \in {request[k], [request[k] EXCEPT !.status = "open"]}
    BY <1>6 DEF removeRequestFromRide, RideTypeOK
  <2>2. \A k \in Requests : ride'[k].status = ride[k].status
    BY <1>6, <1>a DEF removeRequestFromRide, RideTypeOK, RideRows
  <2> QED BY <2>1, <2>2, MatchOnward DEF Onward
<1>7. ASSUME NEW r \in Requests, NEW seats \in SeatChoices, updateRideSeats(r, seats, 0) PROVE Onward
  <2>1. \A k \in Requests : ride'[k].status = ride[k].status
    BY <1>7, <1>a DEF updateRideSeats, RideTypeOK, RideRows
  <2> QED BY <1>7, <1>b, <2>1 DEF Onward, updateRideSeats
<1>8. ASSUME NEW r \in Requests, NEW to \in RideStatuses, AdvanceRide(r, to) PROVE Onward
  <2>1. \A k \in Requests : ride'[k].status # "none" \/ ride'[k].status = ride[k].status
    BY <1>8, <1>a DEF AdvanceRide, RideTypeOK, RideRows
  <2> QED BY <1>8, <1>b, <2>1 DEF Onward, AdvanceRide
<1>9. ASSUME NEW r \in Requests, CompleteRide(r) PROVE Onward
  <2>1. \A k \in Requests : request'[k] \in {request[k], [request[k] EXCEPT !.status = "completed"]}
    BY <1>9 DEF CompleteRide
  <2>2. \A k \in Requests : ride'[k].status # "none" \/ ride'[k].status = ride[k].status
    BY <1>9, <1>a DEF CompleteRide, RideTypeOK, RideRows
  <2> QED BY <2>1, <2>2, MatchOnward DEF Onward
<1>10. ASSUME NEW r \in Requests, NEW byDriver \in BOOLEAN, CancelRide(r, byDriver) PROVE Onward
  <2>1. \A k \in Requests : \E status \in {"open", "cancelled"} :
          request'[k] \in {request[k], [request[k] EXCEPT !.status = status]}
    <3>1. \A pre, is : requestStatusAfterRideCancellation(pre, byDriver, is) \in {"open", "cancelled"}
      BY DEF requestStatusAfterRideCancellation
    <3> QED BY <1>10, <3>1 DEF CancelRide
  <2>2. \A k \in Requests : ride'[k].status # "none" \/ ride'[k].status = ride[k].status
    BY <1>10, <1>a DEF CancelRide, RideTypeOK, RideRows
  <2> QED BY <2>1, <2>2, MatchOnward DEF Onward
<1>11. ASSUME NEW r \in Requests, NoShowRide(r) PROVE Onward
  <2>1. \A k \in Requests : request'[k] \in {request[k], [request[k] EXCEPT !.status = "cancelled"]}
    BY <1>11 DEF NoShowRide, RideTypeOK
  <2>2. \A k \in Requests : ride'[k].status # "none" \/ ride'[k].status = ride[k].status
    BY <1>11, <1>a DEF NoShowRide, RideTypeOK, RideRows
  <2> QED BY <2>1, <2>2, MatchOnward DEF Onward
<1>12. ASSUME NEW q \in Requests, RequestStep(q) PROVE Onward
  <2>1. CASE \E approve \in BOOLEAN : ReadForApproval(q, approve)
    BY <1>3, <2>1 DEF ReadForApproval
  <2>2. CASE \E d \in Drivers, seats \in SeatChoices : ReadForOffer(q, d, seats) \/ createRideOffer(q, d, seats)
    BY <1>3, <2>2 DEF ReadForOffer, createRideOffer
  <2> QED BY <1>1, <1>2, <1>4, <1>12, <2>1, <2>2 DEF RequestStep
<1> QED BY <1>3, <1>5, <1>6, <1>7, <1>8, <1>9, <1>10, <1>11, <1>12
        DEF RideNext, LifecycleStep, PoolingStep, rideVars

-----------------------------------------------------------------------------
\* Offers hold a number of seats.
LEMMA HeldAsked ==
  ASSUME EntriesInv, NEW r \in Requests, NEW E \in SUBSET HeldBy(r, waitlist)
  PROVE  /\ E \in SUBSET Entries /\ Asked(waitlist, E) /\ SeatsOfEntries(waitlist, E) \in Nat
<1>1. E \in SUBSET Entries /\ Asked(waitlist, E)
  BY DEF EntriesInv, EntriesSound, EntrySound, HeldBy, Asked
<1> QED BY <1>1, PartsFinite

\* A handler of the engine that counts what offers hold is one that does not, in fewer states.
LEMMA EngineIsRide ==
  ASSUME EntriesInv, NEW r \in Requests, EngineStep(r)
  PROVE  RideNext
<1>a. \A k \in Requests : ride[k].reserved \in Nat /\ ride[k].capacity \in Nat /\ SeatsNeeded[k] \in Nat
  BY RideParts, RequestFacts DEF EntriesInv, WaitlistTypeOK
<1>1. ASSUME NEW q \in Requests, attachRequestToRide(r, q, HeldForOthers(r, q)) PROVE attachRequestToRide(r, q, 0)
  <2>1. HeldForOthers(r, q) \in Nat
    <3>1. {e \in HeldBy(r, waitlist) : waitlist[e].request # q} \in SUBSET HeldBy(r, waitlist)
      OBVIOUS
    <3> QED BY <3>1, HeldAsked DEF HeldForOthers
  <2>2. Fits(r, q, HeldForOthers(r, q)) => Fits(r, q, 0)
    BY <1>a, <2>1 DEF Fits
  <2> QED BY <1>1, <2>2 DEF attachRequestToRide
<1>2. ASSUME NEW seats \in SeatChoices, updateRideSeats(r, seats, HeldSeats(r, waitlist)) PROVE updateRideSeats(r, seats, 0)
  <2>1. HeldSeats(r, waitlist) \in Nat
    BY HeldAsked DEF HeldSeats
  <2>2. seats \in Nat
    BY RequestFacts
  <2> QED BY <1>2, <1>a, <2>1, <2>2 DEF updateRideSeats
<1> QED BY <1>1, <1>2 DEF EngineStep, RideNext, PoolingStep

LEMMA JoinIsRide ==
  ASSUME NEW e, NEW r \in Requests, NEW q \in Requests, JoinWaitlist(e, r, q)
  PROVE  [RideNext]_rideVars
<1>1. CASE UNCHANGED request
  BY <1>1 DEF JoinWaitlist, rideVars
<1>2. CASE request[q].status = "none" /\ \E approval \in guardianApprovalFor(q) :
             request' = [request EXCEPT ![q] = NewRequest(approval)]
  <2>1. createRideRequest(q)
    BY <1>2 DEF JoinWaitlist, createRideRequest
  <2> QED BY <2>1 DEF RideNext, RequestStep
<1> QED BY <1>1, <1>2 DEF JoinWaitlist

-----------------------------------------------------------------------------
(* Entries live on *)

\* What a step leaves of an entry, so that the facts about entries live on.
RowLater(row, new) ==
  /\ new.request = row.request /\ new.ride = row.ride
  /\ new.status = "none" <=> row.status = "none"
  /\ new.status \in {"offered", "accepted"} =>
       \/ row.status = "offered" /\ new.offeredOn = row.offeredOn
       \/ row.status = "accepted" /\ new.offeredOn = row.offeredOn
       \/ /\ row.status = "waiting"
          /\ new.offeredOn \in Requests /\ ride[new.offeredOn].status # "none"
          /\ request[row.request].approval # "pending"

\* The other tables change as the engine may change them, and the entries so that
\* each is later than before or is a new one that waits.
LEMMA SoundLater ==
  ASSUME EntriesInv, Onward, NEW e \in Entries,
         RowLater(waitlist[e], waitlist'[e])
  PROVE  EntrySound(waitlist[e])'
<1>1. EntrySound(waitlist[e])
  BY DEF EntriesInv, EntriesSound
<1>2. waitlist'[e].status # "none" =>
        waitlist'[e].request \in Requests /\ waitlist'[e].ride \in Requests
        /\ request'[waitlist'[e].request].status # "none"
  BY <1>1 DEF RowLater, EntrySound, Onward, RequestOnward
<1>3. waitlist'[e].status \in {"offered", "accepted"} =>
        waitlist'[e].offeredOn \in Requests /\ ride'[waitlist'[e].offeredOn].status # "none"
  BY <1>1 DEF RowLater, EntrySound, Onward
<1> QED BY <1>2, <1>3 DEF EntrySound

\* The invariant with the property it is for.
Guarded == EntriesInv /\ GuardianFirst

LEMMA GuardianLater ==
  ASSUME Guarded, Onward, NEW e \in Entries, RowLater(waitlist[e], waitlist'[e])
  PROVE  waitlist'[e].status \in {"offered", "accepted"} => request'[waitlist'[e].request].approval # "pending"
<1> SUFFICES ASSUME waitlist'[e].status \in {"offered", "accepted"}
             PROVE  request'[waitlist'[e].request].approval # "pending"
  OBVIOUS
<1>1. EntrySound(waitlist[e]) /\ waitlist'[e].request = waitlist[e].request
  BY DEF Guarded, EntriesInv, EntriesSound, RowLater
<1>2. request[waitlist[e].request].approval # "pending"
  BY DEF Guarded, GuardianFirst, RequestOf, RowLater
<1>3. waitlist[e].status # "none"
  BY DEF RowLater
<1>4. RequestOnward(waitlist[e].request) /\ request[waitlist[e].request].status # "none"
  BY <1>1, <1>3 DEF EntrySound, Onward
<1> QED BY <1>1, <1>2, <1>4 DEF RequestOnward

LEMMA GuardedOf ==
  ASSUME Guarded, Onward, RideTypeOK', waitlist' \in [Entries -> EntryRows],
         clock' \in [Requests -> 1..4], members' \subseteq Persons, enabled' \in BOOLEAN,
         \A e \in Entries : RowLater(waitlist[e], waitlist'[e])
  PROVE  Guarded'
<1>1. EntriesSound'
  <2>1. \A e \in Entries : EntrySound(waitlist[e])'
    BY SoundLater DEF Guarded
  <2> QED BY <2>1 DEF EntriesSound
<1>2. \A e \in Entries : waitlist'[e].status = "offered" => waitlist'[e].offeredOn # None
  BY <1>1, NoneAssumption DEF EntriesSound, EntrySound
<1>3. GuardianFirst'
  BY GuardianLater DEF GuardianFirst, RequestOf
<1> QED BY <1>1, <1>2, <1>3 DEF Guarded, EntriesInv, WaitlistTypeOK

LEMMA GuardedInit == RideInit /\ WaitlistInit => Guarded
<1> SUFFICES ASSUME RideInit, WaitlistInit PROVE Guarded
  OBVIOUS
<1>1. RideTypeOK
  BY RideTypeInit
<1>2. NoEntry \in EntryRows /\ NoEntry.status = "none"
  BY DEF NoEntry, EntryRows
<1>3. waitlist \in [Entries -> EntryRows] /\ \A e \in Entries : waitlist[e].status = "none"
  BY <1>2 DEF WaitlistInit
<1>4. EntriesSound /\ GuardianFirst
  BY <1>3 DEF EntriesSound, EntrySound, GuardianFirst
<1>5. clock \in [Requests -> 1..4] /\ members \subseteq Persons /\ enabled \in BOOLEAN
  BY DEF WaitlistInit
<1> QED BY <1>1, <1>3, <1>4, <1>5 DEF Guarded, EntriesInv, WaitlistTypeOK

\* Statuses set by hand.
LEMMA RowEnded ==
  ASSUME NEW row \in EntryRows, NEW status \in {"left", "declined", "cancelled"}, row.status # "none"
  PROVE  /\ [row EXCEPT !.status = status] \in EntryRows
         /\ RowLater(row, [row EXCEPT !.status = status])
BY DEF EntryRows, RowLater

\* A round of processing on the table, or on the table without an entry that left.
LEMMA RoundLater ==
  ASSUME EntriesInv, NEW r \in Requests, ride[r].status # "none", NEW wl \in [Entries -> EntryRows], NEW result,
         ProcessLockedRide(r, wl, result), \A e \in Entries : RowLater(waitlist[e], wl[e]),
         \A e \in Entries : wl[e].status \in {"waiting", "offered"} => wl[e] = waitlist[e],
         result = waitlist'
  PROVE  /\ waitlist' \in [Entries -> EntryRows] /\ \A e \in Entries : RowLater(waitlist[e], waitlist'[e])
<1>1. result \in [Entries -> EntryRows]
  <2>1. \A e \in Entries : result[e] \in EntryRows
    BY ProcessOutcome, OutcomeTyped
  <2>2. result = [e \in Entries |-> result[e]]
    <3>1. PICK C : Round(r, wl, result, C)
      BY ProcessRounds
    <3> QED BY <3>1 DEF Round, ClosedWaitlist, ExpiredOffers, OffersMade
  <2> QED BY <2>1, <2>2
<1>2. ASSUME NEW e \in Entries PROVE RowLater(waitlist[e], result[e])
  <2>0. Outcome(r, e, wl[e], result[e])
    BY ProcessOutcome
  <2>1. /\ result[e].request = wl[e].request /\ result[e].ride = wl[e].ride
        /\ result[e].status = "none" <=> wl[e].status = "none"
        /\ result[e].status = "accepted" => result[e] = wl[e]
        /\ result[e].status = "offered" => result[e] = wl[e] \/ (Offers(r, e, wl[e], result[e]) /\ result[e].offeredOn = r)
    BY <2>0, OutcomeTyped
  <2>2. RowLater(waitlist[e], wl[e])
    OBVIOUS
  <2>3. CASE result[e] = wl[e]
    BY <2>2, <2>3
  <2>4. CASE result[e].status \notin {"offered", "accepted"}
    BY <2>1, <2>2, <2>4 DEF RowLater
  <2>5. CASE Offers(r, e, wl[e], result[e]) /\ result[e].offeredOn = r
    <3>1. wl[e].status = "waiting" /\ Offerable(e)
      BY <2>5 DEF Offers
    <3>2. waitlist[e] = wl[e]
      BY <3>1
    <3>3. request[waitlist[e].request].approval # "pending"
      BY <3>1 DEF Offerable, AwaitsGuardian, RequestOf
    <3> QED BY <2>1, <2>5, <3>1, <3>2, <3>3 DEF RowLater
  <2> QED BY <2>1, <2>3, <2>4, <2>5
<1> QED BY <1>1, <1>2

-----------------------------------------------------------------------------
(* Guardians are asked first *)

LEMMA RowSame == \A row : RowLater(row, row)
BY DEF RowLater

LEMMA GuardedJoin ==
  ASSUME Guarded, NEW e \in Entries, NEW r \in Requests, NEW q \in Requests, JoinWaitlist(e, r, q)
  PROVE  Guarded'
<1>0. RideTypeOK /\ waitlist \in [Entries -> EntryRows]
  BY DEF Guarded, EntriesInv, WaitlistTypeOK
<1>1. Onward /\ RideTypeOK'
  BY <1>0, JoinIsRide, OnwardStep, RideTypeStep
<1> DEFINE row == [NoEntry EXCEPT !.status = "waiting", !.ride = r, !.request = q]
<1>2. row \in EntryRows /\ row.status = "waiting" /\ row.ride = r /\ row.request = q
  BY DEF NoEntry, EntryRows
<1>3. waitlist' = [waitlist EXCEPT ![e] = row]
  BY DEF JoinWaitlist, AddEntry
<1>4. request'[q].status # "none"
  <2>1. CASE q \in Reusable(PersonOf[q]) /\ UNCHANGED request
    BY <2>1 DEF Reusable
  <2>2. CASE \E approval \in guardianApprovalFor(q) : request' = [request EXCEPT ![q] = NewRequest(approval)]
    BY <1>0, <2>2 DEF NewRequest, RideTypeOK
  <2> QED BY <2>1, <2>2 DEF JoinWaitlist
<1> HIDE DEF row
<1>5. waitlist' \in [Entries -> EntryRows] /\ waitlist'[e] = row
      /\ \A d \in Entries : d # e => waitlist'[d] = waitlist[d]
  BY <1>0, <1>2, <1>3
<1>6. EntrySound(waitlist[e])'
  BY <1>2, <1>4, <1>5 DEF EntrySound
<1>7. \A d \in Entries : EntrySound(waitlist[d])'
  <2>1. \A d \in Entries : d # e => RowLater(waitlist[d], waitlist'[d])
    BY <1>5, RowSame
  <2> QED BY <1>1, <1>6, <2>1, SoundLater DEF Guarded
<1>8. GuardianFirst'
  <2>1. \A d \in Entries : d # e => (waitlist'[d].status \in {"offered", "accepted"} => request'[waitlist'[d].request].approval # "pending")
    BY <1>1, <1>5, RowSame, GuardianLater
  <2> QED BY <1>2, <1>5, <2>1 DEF GuardianFirst, RequestOf
<1>9. \A d \in Entries : waitlist'[d].status = "offered" => waitlist'[d].offeredOn # None
  BY <1>7, NoneAssumption DEF EntrySound
<1>10. UNCHANGED <<clock, members, enabled>>
  BY DEF JoinWaitlist
<1> QED BY <1>1, <1>5, <1>7, <1>8, <1>9, <1>10 DEF Guarded, EntriesInv, WaitlistTypeOK, EntriesSound

\* Rows that stay, while the engine or nothing else moves.
LEMMA GuardedStill ==
  ASSUME Guarded, [RideNext]_rideVars, waitlist' \in [Entries -> EntryRows],
         clock' \in [Requests -> 1..4], members' \subseteq Persons, enabled' \in BOOLEAN,
         \A e \in Entries : RowLater(waitlist[e], waitlist'[e])
  PROVE  Guarded'
<1>1. RideTypeOK
  BY DEF Guarded, EntriesInv, WaitlistTypeOK
<1>2. Onward /\ RideTypeOK'
  BY <1>1, OnwardStep, RideTypeStep
<1> QED BY <1>2, GuardedOf

LEMMA OthersTyped ==
  ASSUME Guarded
  PROVE  /\ RideTypeOK /\ waitlist \in [Entries -> EntryRows] /\ EntriesInv
         /\ clock \in [Requests -> 1..4] /\ members \subseteq Persons /\ enabled \in BOOLEAN
         /\ \A e \in Entries : EntrySound(waitlist[e]) /\ waitlist[e] \in EntryRows
BY DEF Guarded, EntriesInv, WaitlistTypeOK, EntriesSound

LEMMA GuardedProcess ==
  ASSUME Guarded, NEW r \in Requests, ProcessRideWaitlist(r)
  PROVE  Guarded'
<1>1. UNCHANGED <<rideVars, clock, members, enabled>> /\ ride[r].status # "none" /\ ProcessLockedRide(r, waitlist, waitlist')
  BY DEF ProcessRideWaitlist
<1>2. waitlist' \in [Entries -> EntryRows] /\ \A e \in Entries : RowLater(waitlist[e], waitlist'[e])
  BY <1>1, OthersTyped, RowSame, RoundLater
<1> QED BY <1>1, <1>2, OthersTyped, GuardedStill

LEMMA EndedTyped ==
  ASSUME Guarded, NEW e \in Entries, NEW status \in {"left", "declined"}, waitlist[e].status # "none"
  PROVE  /\ Ended(e, status) \in [Entries -> EntryRows] /\ Ended(e, status)[e].status = status
         /\ \A d \in Entries : d # e => Ended(e, status)[d] = waitlist[d]
         /\ \A d \in Entries : RowLater(waitlist[d], Ended(e, status)[d])
<1>0. waitlist \in [Entries -> EntryRows] /\ waitlist[e] \in EntryRows
  BY OthersTyped
<1> DEFINE row == [waitlist[e] EXCEPT !.status = status]
<1>1. Ended(e, status) = [waitlist EXCEPT ![e] = row]
  BY DEF Ended
<1>2. row \in EntryRows /\ RowLater(waitlist[e], row)
  BY <1>0, RowEnded
<1>3. row.status = status
  BY <1>0 DEF EntryRows
<1> HIDE DEF row
<1> QED BY <1>0, <1>1, <1>2, <1>3, RowSame

LEMMA GuardedWithdraw ==
  ASSUME Guarded, NEW e \in Entries, NEW status \in {"left", "declined"},
         UNCHANGED <<rideVars, clock, members, enabled>>,
         \/ waitlist[e].status = "waiting" /\ waitlist' = Ended(e, status)
         \/ /\ waitlist[e].status = "offered"
            /\ ProcessLockedRide(waitlist[e].offeredOn, Ended(e, status), waitlist')
  PROVE  Guarded'
<1>1. /\ Ended(e, status) \in [Entries -> EntryRows] /\ Ended(e, status)[e].status = status
      /\ \A d \in Entries : d # e => Ended(e, status)[d] = waitlist[d]
      /\ \A d \in Entries : RowLater(waitlist[d], Ended(e, status)[d])
  BY EndedTyped
<1>2. CASE waitlist' = Ended(e, status)
  BY <1>1, <1>2, OthersTyped, GuardedStill
<1>3. CASE waitlist[e].status = "offered" /\ ProcessLockedRide(waitlist[e].offeredOn, Ended(e, status), waitlist')
  <2>1. PICK r \in Requests : r = waitlist[e].offeredOn /\ ride[r].status # "none"
    BY <1>3, OthersTyped DEF EntrySound
  <2>2. \A d \in Entries : Ended(e, status)[d].status \in {"waiting", "offered"} => Ended(e, status)[d] = waitlist[d]
    BY <1>1
  <2>3. waitlist' \in [Entries -> EntryRows] /\ \A d \in Entries : RowLater(waitlist[d], waitlist'[d])
    BY <1>1, <1>3, <2>1, <2>2, OthersTyped, RoundLater
  <2> QED BY <2>3, OthersTyped, GuardedStill
<1> QED BY <1>2, <1>3

LEMMA GuardedAccept ==
  ASSUME Guarded, NEW e \in Entries, AcceptStandbyOffer(e)
  PROVE  Guarded' /\ \E r, q \in Requests : r = waitlist[e].offeredOn /\ q = waitlist[e].request /\ reserveSeatForRequest(r, q)
<1>1. waitlist[e].status = "offered" /\ reserveSeatForRequest(waitlist[e].offeredOn, waitlist[e].request)
      /\ UNCHANGED <<offer, approving, offering, clock, members, enabled>>
  BY DEF AcceptStandbyOffer, CanAcceptOffer
<1>2. PICK r, q \in Requests : r = waitlist[e].offeredOn /\ q = waitlist[e].request
  BY <1>1, OthersTyped DEF EntrySound
<1>3. Onward /\ RideTypeOK'
  BY <1>1, <1>2, OthersTyped, OnwardReserve, ReserveTyped
<1>4. ASSUME NEW d \in Entries PROVE waitlist'[d] \in EntryRows /\ RowLater(waitlist[d], waitlist'[d])
  <2>0. waitlist[d] \in EntryRows
    BY OthersTyped
  <2>1. CASE waitlist'[d] = waitlist[d]
    BY <2>0, <2>1, RowSame
  <2>2. CASE Active(d) /\ waitlist'[d] = [waitlist[d] EXCEPT !.status = "cancelled"]
    <3>1. waitlist[d].status # "none"
      BY <2>2 DEF Active, ActiveStatuses
    <3> QED BY <2>0, <2>2, <3>1, RowEnded
  <2>3. CASE d = e /\ waitlist'[d] = [waitlist[d] EXCEPT !.status = "accepted"]
    BY <1>1, <2>0, <2>3 DEF RowLater, EntryRows
  <2> QED BY <2>1, <2>2, <2>3 DEF AcceptStandbyOffer
<1>5. waitlist' \in [Entries -> EntryRows]
  <2>1. waitlist' = [d \in Entries |-> waitlist'[d]]
    BY DEF AcceptStandbyOffer
  <2> QED BY <1>4, <2>1
<1> QED BY <1>1, <1>2, <1>3, <1>4, <1>5, OthersTyped, GuardedOf

LEMMA GuardedStep == Guarded /\ [WaitlistNext]_allVars => Guarded'
<1> SUFFICES ASSUME Guarded, [WaitlistNext]_allVars PROVE Guarded'
  OBVIOUS
<1>1. ASSUME NEW e \in Entries, NEW r \in Requests, NEW q \in Requests, JoinWaitlist(e, r, q) PROVE Guarded'
  BY <1>1, GuardedJoin
<1>2. ASSUME NEW e \in Entries, LeaveWaitlist(e) PROVE Guarded'
  BY <1>2, GuardedWithdraw DEF LeaveWaitlist
<1>3. ASSUME NEW e \in Entries, DeclineStandbyOffer(e) PROVE Guarded'
  BY <1>3, GuardedWithdraw DEF DeclineStandbyOffer
<1>4. ASSUME NEW e \in Entries, AcceptStandbyOffer(e) PROVE Guarded'
  BY <1>4, GuardedAccept
<1>5. ASSUME NEW r \in Requests, ProcessRideWaitlist(r) PROVE Guarded'
  BY <1>5, GuardedProcess
<1>6. ASSUME NEW e \in Entries, ExpireStandbyOffer(e) PROVE Guarded'
  <2>1. waitlist[e].offeredOn \in Requests
    BY <1>6, OthersTyped DEF ExpireStandbyOffer, EntrySound
  <2> QED BY <1>6, <2>1, GuardedProcess DEF ExpireStandbyOffer
<1>7. ASSUME NEW e \in Entries, OfferLapses(e) PROVE Guarded'
  <2>0. waitlist \in [Entries -> EntryRows] /\ waitlist[e] \in EntryRows
    BY OthersTyped
  <2> DEFINE row == [waitlist[e] EXCEPT !.open = FALSE]
  <2>1. waitlist' = [waitlist EXCEPT ![e] = row]
    BY <1>7 DEF OfferLapses
  <2>2. row \in EntryRows /\ RowLater(waitlist[e], row)
    BY <2>0 DEF EntryRows, RowLater
  <2> HIDE DEF row
  <2>3. waitlist' \in [Entries -> EntryRows] /\ \A d \in Entries : RowLater(waitlist[d], waitlist'[d])
    BY <2>0, <2>1, <2>2, RowSame
  <2> QED BY <1>7, <2>3, OthersTyped, GuardedStill DEF OfferLapses
<1>8. ASSUME NEW r \in Requests, EngineStep(r) PROVE Guarded'
  <2>1. RideNext /\ UNCHANGED waitVars
    BY <1>8, OthersTyped, EngineIsRide DEF EngineStep
  <2> QED BY <2>1, OthersTyped, RowSame, GuardedStill DEF waitVars
<1>9. ASSUME UNCHANGED <<rideVars, waitlist>>, clock' \in [Requests -> 1..4], members' \subseteq Persons, enabled' \in BOOLEAN
      PROVE  Guarded'
  BY <1>9, OthersTyped, RowSame, GuardedStill
<1>10. ASSUME NEW r \in Requests, DepartureNears(r) PROVE Guarded'
  <2>1. clock[r] \in 1..4 /\ clock[r] + 1 \in 1..4
    BY <1>10, OthersTyped DEF DepartureNears
  <2>2. clock' = [clock EXCEPT ![r] = clock[r] + 1]
    BY <1>10 DEF DepartureNears
  <2>3. clock' \in [Requests -> 1..4]
    BY <2>1, <2>2, OthersTyped
  <2> QED BY <1>9, <1>10, <2>3, OthersTyped DEF DepartureNears
<1>11. ASSUME NEW p \in Persons, RemoveMember(p) PROVE Guarded'
  BY <1>9, <1>11, OthersTyped DEF RemoveMember
<1>12. ASSUME UpdateWaitlistSettings PROVE Guarded'
  BY <1>9, <1>12, OthersTyped DEF UpdateWaitlistSettings
<1>13. CASE UNCHANGED allVars
  BY <1>9, <1>13, OthersTyped DEF allVars, waitVars
<1> QED BY <1>1, <1>2, <1>3, <1>4, <1>5, <1>6, <1>7, <1>8, <1>10, <1>11, <1>12, <1>13 DEF WaitlistNext, EntryStep

\* Whatever becomes of approvals, rounds and accepts, no entry for a request that
\* still waits for its guardian is offered a seat (lib/ride-waitlists.ts
\* evaluateCandidate and acceptStandbyOffer).
THEOREM GuardianCorrect == WaitlistSpec => []GuardianFirst
<1>1. Guarded => GuardianFirst
  BY DEF Guarded
<1> QED BY <1>1, GuardedInit, GuardedStep, PTL DEF WaitlistSpec

-----------------------------------------------------------------------------
(* A place in line is kept *)

\* Whoever gets a seat in a confirmed ride is seated for the event.
LEMMA SeatedByReserve ==
  ASSUME RideTypeOK, NEW r \in Requests, NEW q \in Requests, ride[r].status = "confirmed", reserveSeatForRequest(r, q)
  PROVE  ActiveRide(r)' /\ passenger'[r][PersonOf[q]].status = "confirmed"
<1>1. ride'[r].status = "confirmed"
  BY RideParts DEF reserveSeatForRequest, RideTypeOK, RideRows
<1>2. PersonOf[q] \in Persons
  BY RequestFacts
<1>3. passenger'[r][PersonOf[q]] = [request |-> q, status |-> "confirmed"]
  BY <1>2 DEF reserveSeatForRequest, RideTypeOK
<1> QED BY <1>1, <1>3, EndedAre DEF ActiveRide

LEMMA PlaceRound ==
  ASSUME EntriesInv, NEW r \in Requests, NEW wl, ProcessLockedRide(r, wl, waitlist'), NEW e \in Entries,
         wl[e] = waitlist[e], CloseReason(waitlist[e].ride) = "none", Active(e),
         waitlist'[e].status \in {"cancelled", "removed"}
  PROVE  MustEnd(e)
<1>1. Outcome(r, e, waitlist[e], waitlist'[e])
  BY ProcessOutcome
<1>2. waitlist[e].status \in {"waiting", "offered"} /\ waitlist[e] \in EntryRows
  BY DEF Active, ActiveStatuses, EntriesInv, WaitlistTypeOK
<1>3. ~Cancels(r, waitlist[e], waitlist'[e])
  BY DEF Cancels
<1>4. ~Returns(r, waitlist[e], waitlist'[e]) /\ ~Expires(r, waitlist[e], waitlist'[e])
  BY <1>2 DEF Returns, Expires, EntryRows
<1>5. ~Offers(r, e, waitlist[e], waitlist'[e])
  <2>1. ASSUME Offers(r, e, waitlist[e], waitlist'[e]) PROVE FALSE
    <3>1. waitlist'[e] = [waitlist[e] EXCEPT !.status = "offered", !.offeredOn = r, !.open = TRUE]
      BY <2>1 DEF Offers
    <3> QED BY <1>2, <3>1 DEF EntryRows
  <2> QED BY <2>1
<1>6. waitlist'[e] # waitlist[e]
  BY <1>2
<1> QED BY <1>1, <1>3, <1>4, <1>5, <1>6 DEF Outcome, Ends

\* An entry whose ride can still be joined, and its end by somebody else.
Displaced(e) ==
  /\ Active(e) /\ CloseReason(waitlist[e].ride) = "none"
  /\ waitlist'[e].status \in {"cancelled", "removed"}

LEMMA PlaceStep ==
  ASSUME Guarded, WaitlistNext, NEW e \in Entries, Displaced(e)
  PROVE  MustEnd(e) \/ SeatedForEvent(PassengerOf(e))'
<1>a. waitlist[e].status \in {"waiting", "offered"} /\ waitlist'[e].status \in {"cancelled", "removed"}
      /\ CloseReason(waitlist[e].ride) = "none" /\ Active(e)
  BY DEF Displaced, Active, ActiveStatuses
<1>b. waitlist \in [Entries -> EntryRows] /\ waitlist'[e] # waitlist[e]
  BY <1>a, OthersTyped
<1>1. ASSUME NEW d \in Entries, NEW r \in Requests, NEW q \in Requests, JoinWaitlist(d, r, q) PROVE FALSE
  <2>1. d # e /\ waitlist'[e] = waitlist[e]
    BY <1>1, <1>a, <1>b DEF JoinWaitlist, AddEntry
  <2> QED BY <1>b, <2>1
<1>2. ASSUME NEW d \in Entries, NEW status \in {"left", "declined"},
         \/ waitlist[d].status = "waiting" /\ waitlist' = Ended(d, status)
         \/ /\ waitlist[d].status = "offered"
            /\ ProcessLockedRide(waitlist[d].offeredOn, Ended(d, status), waitlist')
      PROVE MustEnd(e)
  <2>1. /\ Ended(d, status)[d].status = status
        /\ \A c \in Entries : c # d => Ended(d, status)[c] = waitlist[c]
    BY <1>2, EndedTyped
  <2>2. CASE waitlist' = Ended(d, status)
    BY <1>a, <1>b, <2>1, <2>2
  <2>3. CASE waitlist[d].status = "offered" /\ ProcessLockedRide(waitlist[d].offeredOn, Ended(d, status), waitlist')
    <3>1. waitlist[d].offeredOn \in Requests
      BY <2>3, OthersTyped DEF EntrySound
    <3>2. CASE e # d
      BY <1>a, <2>1, <2>3, <3>1, <3>2, OthersTyped, PlaceRound
    <3>3. CASE e = d
      <4>1. Outcome(waitlist[d].offeredOn, e, Ended(d, status)[e], waitlist'[e])
        BY <2>3, <3>1, ProcessOutcome
      <4>2. waitlist'[e] = Ended(d, status)[e]
        BY <2>1, <3>3, <4>1 DEF Outcome, Cancels, Returns, Expires, Offers, Ends, ActiveStatuses
      <4> QED BY <1>a, <2>1, <3>3, <4>2
    <3> QED BY <3>2, <3>3
  <2> QED BY <1>2, <2>2, <2>3
<1>3. ASSUME NEW d \in Entries, AcceptStandbyOffer(d) PROVE SeatedForEvent(PassengerOf(e))'
  <2>1. PICK r, q \in Requests : r = waitlist[d].offeredOn /\ q = waitlist[d].request /\ reserveSeatForRequest(r, q)
    BY <1>3, GuardedAccept
  <2>2. ride[r].status = "confirmed"
    BY <1>3, <2>1 DEF AcceptStandbyOffer, CanAcceptOffer
  <2>3. ActiveRide(r)' /\ passenger'[r][PersonOf[q]].status = "confirmed"
    BY <2>1, <2>2, OthersTyped, SeatedByReserve
  <2>4. e # d /\ PassengerOf(e) = PassengerOf(d) /\ waitlist'[e] = [waitlist[e] EXCEPT !.status = "cancelled"]
    <3>1. waitlist'[d] = [waitlist[d] EXCEPT !.status = "accepted"]
      BY <1>3 DEF AcceptStandbyOffer
    <3>2. waitlist'[d].status = "accepted"
      BY <1>b, <3>1 DEF EntryRows
    <3> QED BY <1>3, <1>a, <1>b, <3>2 DEF AcceptStandbyOffer
  <2>5. waitlist'[e].request = waitlist[e].request
    BY <1>b, <2>4 DEF EntryRows
  <2>6. PassengerOf(e)' = PersonOf[q]
    BY <2>1, <2>4, <2>5 DEF PassengerOf
  <2> QED BY <2>3, <2>6 DEF SeatedForEvent
<1>4. ASSUME NEW r \in Requests, ProcessRideWaitlist(r) PROVE MustEnd(e)
  BY <1>4, <1>a, OthersTyped, PlaceRound DEF ProcessRideWaitlist
<1>5. ASSUME NEW d \in Entries, ExpireStandbyOffer(d) PROVE MustEnd(e)
  <2>1. waitlist[d].offeredOn \in Requests
    BY <1>5, OthersTyped DEF ExpireStandbyOffer, EntrySound
  <2> QED BY <1>4, <1>5, <2>1 DEF ExpireStandbyOffer
<1>6. ASSUME NEW d \in Entries, OfferLapses(d) PROVE FALSE
  <2>1. waitlist'[e].status = waitlist[e].status
    BY <1>6, <1>b DEF OfferLapses, EntryRows
  <2> QED BY <1>a, <2>1
<1>7. ASSUME waitlist' = waitlist PROVE FALSE
  BY <1>7, <1>b
<1>8. CASE \E d \in Entries : EntryStep(d)
  BY <1>1, <1>2, <1>3, <1>5, <1>6, <1>8 DEF EntryStep, LeaveWaitlist, DeclineStandbyOffer
<1>9. CASE \E r \in Requests : DepartureNears(r) \/ EngineStep(r)
  BY <1>7, <1>9 DEF DepartureNears, EngineStep, waitVars
<1> QED BY <1>4, <1>7, <1>8, <1>9 DEF WaitlistNext, RemoveMember, UpdateWaitlistSettings

\* Another ride's end never costs a rider the place in line for a ride that can
\* still be joined (processLockedRide of lib/ride-waitlists.ts).
THEOREM PlaceCorrect == WaitlistSpec => PlaceIsKept
<1>1. Guarded /\ [WaitlistNext]_allVars =>
        [\A e \in Entries :
           /\ Active(e) /\ CloseReason(waitlist[e].ride) = "none"
           /\ waitlist'[e].status \in {"cancelled", "removed"}
           => MustEnd(e) \/ SeatedForEvent(PassengerOf(e))']_allVars
  BY PlaceStep DEF Displaced
<1> QED BY <1>1, GuardedInit, GuardedStep, PTL DEF WaitlistSpec, PlaceIsKept

-----------------------------------------------------------------------------
(* First come, first served *)

\* A table in which whoever waits or has an offer does so in the waitlist.
Fresh(wl) == \A e \in Entries : wl[e].status \in {"waiting", "offered"} => wl[e] = waitlist[e]

LEMMA KeptFresh ==
  ASSUME EntriesInv, NEW r \in Requests, NEW wl \in [Entries -> EntryRows], Fresh(wl)
  PROVE  /\ Fresh(ExpiredOffers(r, wl))
         /\ HeldBy(r, ExpiredOffers(r, wl)) \in SUBSET Entries
         /\ Asked(ExpiredOffers(r, wl), HeldBy(r, ExpiredOffers(r, wl)))
         /\ HeldSeats(r, ExpiredOffers(r, wl)) \in Nat
         /\ FreeSeats(r, ExpiredOffers(r, wl)) = ride[r].capacity - ride[r].reserved - HeldSeats(r, ExpiredOffers(r, wl))
         /\ FreeSeats(r, ExpiredOffers(r, wl)) \in Int
<1> DEFINE kept == ExpiredOffers(r, wl)
<1>1. \A e \in Entries : kept[e].status \in {"waiting", "offered"} => kept[e] = waitlist[e]
  <2> SUFFICES ASSUME NEW e \in Entries, kept[e].status \in {"waiting", "offered"} PROVE kept[e] = waitlist[e]
    OBVIOUS
  <2>1. ~Expires(r, wl[e], kept[e])
    BY DEF Expires, EntryRows
  <2>2. kept[e] = wl[e]
    BY <2>1, ExpiredOutcome
  <2> QED BY <2>2 DEF Fresh
<1>2. HeldBy(r, kept) \in SUBSET Entries /\ Asked(kept, HeldBy(r, kept))
  BY <1>1 DEF HeldBy, Asked, EntriesInv, EntriesSound, EntrySound
<1> HIDE DEF kept
<1>3. HeldSeats(r, kept) \in Nat
  BY <1>2, PartsFinite DEF HeldSeats
<1>4. ride[r].capacity \in Nat /\ ride[r].reserved \in Nat
  BY RideParts DEF EntriesInv, WaitlistTypeOK
<1>5. FreeSeats(r, kept) = ride[r].capacity - ride[r].reserved - HeldSeats(r, kept)
  BY DEF FreeSeats
<1>6. FreeSeats(r, kept) \in Int
  BY <1>3, <1>4, <1>5
<1> QED BY <1>1, <1>2, <1>3, <1>5, <1>6 DEF kept, Fresh

LEMMA LookedAsked ==
  ASSUME EntriesInv, NEW r \in Requests, NEW wl, Fresh(wl), NEW C, Looked(r, wl, C)
  PROVE  C \in SUBSET Entries /\ Asked(waitlist, C)
<1>1. \A c \in C : c \in Entries /\ wl[c].status = "waiting"
  BY LookedWait
<1> QED BY <1>1 DEF Fresh, Asked, EntriesInv, EntriesSound, EntrySound

\* Without SKIP LOCKED finding locked rows, a round looks at the head of the line.
LEMMA LookedAll ==
  ASSUME ~Contended, NEW r, NEW wl, NEW C, Looked(r, wl, C)
  PROVE  C = Batch(Candidates(r, ExpiredOffers(r, wl)))
<1>1. Skippable(Candidates(r, ExpiredOffers(r, wl))) = {{}}
  BY DEF Skippable
<1>2. Candidates(r, ExpiredOffers(r, wl)) \ {} = Candidates(r, ExpiredOffers(r, wl))
  OBVIOUS
<1> QED BY <1>1, <1>2 DEF Looked

LEMMA AheadInBatch ==
  ASSUME NEW C \in SUBSET Entries, NEW e \in Batch(C), NEW d \in C, d < e
  PROVE  d \in Batch(C)
<1> DEFINE ahead(n) == {c \in C : c < n}
<1>0. \A c \in C : c \in Int
  BY MaxEntriesAssumption DEF Entries
<1>1. e \in C /\ ahead(d) \in SUBSET ahead(e)
  BY <1>0 DEF Batch
<1>2. IsFiniteSet(ahead(e)) /\ IsFiniteSet(ahead(d))
  BY EntriesFinite
<1>3. Cardinality(ahead(d)) <= Cardinality(ahead(e))
  BY <1>1, <1>2, FS_Subset
<1>4. Cardinality(ahead(d)) \in Nat /\ Cardinality(ahead(e)) \in Nat
  BY <1>2, FS_CardinalityType
<1>5. Cardinality(ahead(e)) < BatchLimit
  BY DEF Batch
<1>6. Cardinality(ahead(d)) < BatchLimit
  <2> HIDE DEF ahead
  <2> QED BY <1>3, <1>4, <1>5, BatchLimitAssumption
<1> QED BY <1>6 DEF Batch

\* Of a round that offers a seat to e and none to d, who came earlier.
LEMMA RoundInOrder ==
  ASSUME EntriesInv, ~Contended, NEW r \in Requests, NEW wl \in [Entries -> EntryRows], Fresh(wl),
         ProcessLockedRide(r, wl, waitlist'), NEW d \in Entries, NEW e \in Entries, PassedOverFor(d, e)
  PROVE  SeatsFor(e) < SeatsFor(d)
<1>1. /\ d < e /\ waitlist[d].status = "waiting" /\ waitlist[e].status = "waiting"
      /\ waitlist'[e].status = "offered" /\ waitlist'[d].status = "waiting"
      /\ PassengerOf(d) # ride[waitlist'[e].offeredOn].driver /\ Offerable(d)
  BY DEF PassedOverFor
<1>2. /\ Outcome(r, e, wl[e], waitlist'[e]) /\ Outcome(r, d, wl[d], waitlist'[d])
      /\ wl[e] \in EntryRows /\ wl[d] \in EntryRows
  BY ProcessOutcome
<1>3. waitlist'[e] # wl[e]
  BY <1>1, <1>2 DEF Fresh
<1>4. Offers(r, e, wl[e], waitlist'[e]) /\ waitlist'[e].offeredOn = r
  BY <1>1, <1>2, <1>3, OutcomeTyped
<1>5. wl[d].status = "waiting" \/ wl[d].status = "offered"
  BY <1>1, <1>2 DEF Outcome, Cancels, Returns, Expires, Offers, Ends, EntryRows, ActiveStatuses
<1>6. wl[d] = waitlist[d] /\ wl[d].status = "waiting" /\ wl[e].status = "waiting"
  BY <1>1, <1>4, <1>5 DEF Fresh, Offers
<1>7. PICK C : Round(r, wl, waitlist', C)
  BY ProcessRounds
<1> DEFINE kept == ExpiredOffers(r, wl)
<1>8. CloseReason(r) = "none"
  BY <1>4 DEF Offers
<1>9. waitlist' # kept
  <2>1. ~Expires(r, wl[e], kept[e])
    BY <1>6 DEF Expires
  <2> QED BY <1>3, <2>1, ExpiredOutcome
<1>10. Looked(r, wl, C) /\ waitlist' = OffersMade(r, kept, C)
  BY <1>7, <1>8, <1>9 DEF Round
<1>11. C = Batch(Candidates(r, kept)) /\ C \in SUBSET Entries /\ Asked(waitlist, C)
  BY <1>10, LookedAll, LookedAsked
<1>12. FreeSeats(r, kept) \in Int
  BY KeptFresh
<1>13. kept[d] = wl[d] /\ kept[e] = wl[e]
  BY <1>6, ExpiredOutcome DEF Expires
<1> HIDE DEF kept
<1>14. e \in PlanOffers(C, FreeSeats(r, kept))
  <2> SUFFICES ASSUME e \notin PlanOffers(C, FreeSeats(r, kept)) PROVE FALSE
    OBVIOUS
  <2>1. waitlist'[e] = kept[e] \/ waitlist'[e] = [kept[e] EXCEPT !.status = EndStatus(e)]
    BY <1>10 DEF OffersMade
  <2>2. waitlist'[e].status \in {"waiting", "cancelled", "removed"}
    BY <1>2, <1>6, <1>13, <2>1, EndStatusIs DEF EntryRows
  <2> QED BY <1>1, <2>2
<1>15. d \notin PlanOffers(C, FreeSeats(r, kept))
  <2> SUFFICES ASSUME d \in PlanOffers(C, FreeSeats(r, kept)) PROVE FALSE
    OBVIOUS
  <2>1. waitlist'[d] = [kept[d] EXCEPT !.status = "offered", !.offeredOn = r, !.open = TRUE]
    BY <1>10 DEF OffersMade
  <2>2. waitlist'[d].status = "offered"
    BY <1>2, <1>13, <2>1 DEF EntryRows
  <2> QED BY <1>1, <2>2
<1>16. d \in C
  <2>1. d \in Candidates(r, kept)
    BY <1>1, <1>4, <1>6, <1>13 DEF Candidates, PassengerOf
  <2>2. e \in C /\ Candidates(r, kept) \in SUBSET Entries
    BY <1>14 DEF PlanOffers, Candidates
  <2> QED BY <1>1, <1>11, <2>1, <2>2, AheadInBatch
<1> QED BY <1>1, <1>11, <1>12, <1>14, <1>15, <1>16, PassedOverNeedsMore

LEMMA OrderStep ==
  ASSUME Guarded, ~Contended, WaitlistNext, NEW d \in Entries, NEW e \in Entries, PassedOverFor(d, e)
  PROVE  SeatsFor(e) < SeatsFor(d)
<1>1. /\ waitlist[d].status = "waiting" /\ waitlist[e].status = "waiting"
      /\ waitlist'[e].status = "offered" /\ waitlist'[d].status = "waiting"
  BY DEF PassedOverFor
<1>a. waitlist \in [Entries -> EntryRows] /\ Fresh(waitlist) /\ waitlist'[e] # waitlist[e] /\ EntriesInv
  BY <1>1, OthersTyped DEF Fresh
<1>2. ASSUME NEW r \in Requests, ProcessRideWaitlist(r) PROVE SeatsFor(e) < SeatsFor(d)
  BY <1>2, <1>a, RoundInOrder DEF ProcessRideWaitlist
<1>3. ASSUME NEW c \in Entries, NEW status \in {"left", "declined"},
         \/ waitlist[c].status = "waiting" /\ waitlist' = Ended(c, status)
         \/ /\ waitlist[c].status = "offered"
            /\ ProcessLockedRide(waitlist[c].offeredOn, Ended(c, status), waitlist')
      PROVE SeatsFor(e) < SeatsFor(d)
  <2>1. /\ Ended(c, status) \in [Entries -> EntryRows] /\ Ended(c, status)[c].status = status
        /\ \A b \in Entries : b # c => Ended(c, status)[b] = waitlist[b]
    BY <1>3, EndedTyped
  <2>2. Fresh(Ended(c, status))
    BY <2>1 DEF Fresh
  <2>3. waitlist' # Ended(c, status)
    BY <1>1, <2>1
  <2>4. waitlist[c].offeredOn \in Requests
    BY <1>3, <2>3, OthersTyped DEF EntrySound
  <2> QED BY <1>3, <1>a, <2>1, <2>2, <2>3, <2>4, RoundInOrder
<1>4. ASSUME NEW c \in Entries, AcceptStandbyOffer(c) PROVE FALSE
  <2>1. waitlist[c].status = "offered"
    BY <1>4 DEF AcceptStandbyOffer, CanAcceptOffer
  <2>2. waitlist'[e] = waitlist[e] \/ waitlist'[e] = [waitlist[e] EXCEPT !.status = "cancelled"]
    BY <1>1, <1>4, <2>1 DEF AcceptStandbyOffer
  <2> QED BY <1>1, <1>a, <2>2 DEF EntryRows
<1>5. ASSUME NEW c \in Entries, NEW r \in Requests, NEW q \in Requests, JoinWaitlist(c, r, q) PROVE FALSE
  BY <1>5, <1>1, <1>a DEF JoinWaitlist, AddEntry
<1>6. ASSUME NEW c \in Entries, OfferLapses(c) PROVE FALSE
  BY <1>6, <1>1, <1>a DEF OfferLapses
<1>7. ASSUME NEW c \in Entries, ExpireStandbyOffer(c) PROVE SeatsFor(e) < SeatsFor(d)
  <2>1. waitlist[c].offeredOn \in Requests
    BY <1>7, OthersTyped DEF ExpireStandbyOffer, EntrySound
  <2> QED BY <1>2, <1>7, <2>1 DEF ExpireStandbyOffer
<1>8. CASE \E c \in Entries : EntryStep(c)
  BY <1>3, <1>4, <1>5, <1>6, <1>7, <1>8 DEF EntryStep, LeaveWaitlist, DeclineStandbyOffer
<1>9. CASE waitlist' = waitlist
  BY <1>9, <1>a
<1>10. CASE \E r \in Requests : DepartureNears(r) \/ EngineStep(r)
  BY <1>9, <1>10 DEF DepartureNears, EngineStep, waitVars
<1> QED BY <1>2, <1>8, <1>9, <1>10 DEF WaitlistNext, RemoveMember, UpdateWaitlistSettings

\* Where SKIP LOCKED finds nothing locked, a round offers seats in the order of
\* joined_at, and passes over only larger parties (planOffers of
\* lib/ride-waitlist-policy.ts).
THEOREM OrderCorrect == ~Contended => (WaitlistSpec => FirstComeFirstServed)
<1> SUFFICES ASSUME ~Contended PROVE WaitlistSpec => FirstComeFirstServed
  OBVIOUS
<1>1. Guarded /\ [WaitlistNext]_allVars =>
        [\A d, e \in Entries : PassedOverFor(d, e) => SeatsFor(e) < SeatsFor(d)]_allVars
  BY OrderStep
<1> QED BY <1>1, GuardedInit, GuardedStep, PTL DEF WaitlistSpec, FirstComeFirstServed

-----------------------------------------------------------------------------
(* Seats do not stay empty *)

\* A line no longer than the query's limit is looked at as a whole.
LEMMA WholeLine ==
  ASSUME MaxEntries <= BatchLimit, NEW C \in SUBSET Entries
  PROVE  Batch(C) = C
<1> SUFFICES ASSUME NEW e \in C PROVE Cardinality({c \in C : c < e}) < BatchLimit
  BY DEF Batch
<1>0. (\A c \in C : c \in Nat /\ 1 <= c) /\ e \in 1..MaxEntries
  BY MaxEntriesAssumption DEF Entries
<1>1. {c \in C : c < e} \in SUBSET (1..(e - 1))
  <2>1. e \in Nat
    BY <1>0, MaxEntriesAssumption
  <2>2. \A c \in C : c < e => c \in 1..(e - 1)
    BY <1>0, <2>1
  <2> QED BY <2>2
<1>2. IsFiniteSet(1..(e - 1)) /\ Cardinality(1..(e - 1)) = e - 1
  <2>1. PICK n \in Nat : n = e - 1
    BY <1>0, MaxEntriesAssumption
  <2>2. IsFiniteSet(1..n) /\ Cardinality(1..n) = IF 1 > n THEN 0 ELSE n - 1 + 1
    <3>1. 1 \in Int /\ n \in Int
      OBVIOUS
    <3> QED BY <3>1, FS_Interval, Zenon
  <2> QED BY <2>1, <2>2
<1>3. Cardinality({c \in C : c < e}) <= e - 1 /\ Cardinality({c \in C : c < e}) \in Nat
  BY <1>1, <1>2, FS_Subset, FS_CardinalityType
<1> QED BY <1>0, <1>3, MaxEntriesAssumption, BatchLimitAssumption

\* A round that changes nothing lets nothing expire and offers nothing.
LEMMA IdleRound ==
  ASSUME EntriesInv, ~Contended, NEW r \in Requests, NEW C, Looked(r, waitlist, C),
         waitlist = OffersMade(r, ExpiredOffers(r, waitlist), C)
  PROVE  /\ ExpiredOffers(r, waitlist) = waitlist
         /\ PlanOffers(C, FreeSeats(r, waitlist)) = {}
<1> DEFINE kept == ExpiredOffers(r, waitlist)
<1>0. waitlist \in [Entries -> EntryRows]
  BY DEF EntriesInv, WaitlistTypeOK
<1>1. \A c \in C : c \in Entries /\ waitlist[c].status = "waiting" /\ kept[c] = waitlist[c]
  BY LookedWait
<1>2. \A f : PlanOffers(C, f) \subseteq C
  BY DEF PlanOffers
<1>3. \A e \in Entries : kept[e] = waitlist[e]
  <2> SUFFICES ASSUME NEW e \in Entries, e \notin C PROVE kept[e] = waitlist[e]
    BY <1>1
  <2>1. OffersMade(r, kept, C)[e] = kept[e]
    BY <1>2 DEF OffersMade
  <2> QED BY <2>1
<1>4. kept = waitlist
  <2>1. kept = [e \in Entries |-> kept[e]]
    BY DEF ExpiredOffers
  <2> HIDE DEF kept
  <2> QED BY <1>0, <1>3, <2>1
<1>5. ASSUME NEW e \in PlanOffers(C, FreeSeats(r, waitlist)) PROVE FALSE
  <2>1. e \in Entries /\ waitlist[e].status = "waiting"
    BY <1>1, <1>2
  <2>2. OffersMade(r, waitlist, C)[e] = [waitlist[e] EXCEPT !.status = "offered", !.offeredOn = r, !.open = TRUE]
    BY <2>1 DEF OffersMade
  <2>3. waitlist[e] = [waitlist[e] EXCEPT !.status = "offered", !.offeredOn = r, !.open = TRUE]
    BY <1>4, <2>2
  <2> QED BY <1>0, <2>1, <2>3 DEF EntryRows
<1> QED BY <1>4, <1>5

LEMMA FilledNow ==
  ASSUME EntriesInv, ~Contended, MaxEntries <= BatchLimit
  PROVE  SeatsFilled
<1> SUFFICES ASSUME NEW r \in Requests, CloseReason(r) = "none", ClockPhases[clock[r]] = "early",
                    ProcessLockedRide(r, waitlist, waitlist),
                    NEW e \in Candidates(r, waitlist), Offerable(e)
             PROVE  SeatsFor(e) > FreeSeats(r, waitlist)
  BY DEF SeatsFilled
<1> DEFINE kept == ExpiredOffers(r, waitlist)
<1>0. waitlist \in [Entries -> EntryRows] /\ Fresh(waitlist)
  BY DEF EntriesInv, WaitlistTypeOK, Fresh
<1>1. FreeSeats(r, kept) \in Int
  BY <1>0, KeptFresh
<1>2. e \in Entries /\ SeatsFor(e) \in 1..12
  BY SeatsNeededAssumption DEF Candidates, SeatsFor, EntriesInv, EntriesSound, EntrySound
<1>3. CASE FreeSeats(r, kept) <= 0
  <2>1. waitlist = kept
    BY <1>3, Zenon DEF ProcessLockedRide
  <2>2. FreeSeats(r, waitlist) <= 0 /\ FreeSeats(r, waitlist) \in Int
    BY <1>1, <1>3, <2>1
  <2> QED BY <1>2, <2>2
<1>4. CASE ~(FreeSeats(r, kept) <= 0)
  <2>1. PICK skip \in Skippable(Candidates(r, kept)) : waitlist = OffersMade(r, kept, Batch(Candidates(r, kept) \ skip))
    BY <1>4, Zenon DEF ProcessLockedRide
  <2>2. PICK C : C = Batch(Candidates(r, kept) \ skip)
    OBVIOUS
  <2>3. Looked(r, waitlist, C) /\ waitlist = OffersMade(r, kept, C)
    BY <2>1, <2>2 DEF Looked
  <2>4. kept = waitlist /\ PlanOffers(C, FreeSeats(r, waitlist)) = {}
    BY <2>3, IdleRound
  <2>5. C = Batch(Candidates(r, waitlist)) /\ C \in SUBSET Entries /\ Asked(waitlist, C)
    BY <1>0, <2>3, <2>4, LookedAll, LookedAsked
  <2>6. e \in C
    BY <2>5, WholeLine DEF Candidates
  <2> QED BY <1>1, <2>4, <2>5, <2>6, NobodyFits
<1> QED BY <1>3, <1>4

\* A round that changes nothing leaves no seat that somebody in line fits into,
\* as long as the line is no longer than the limit of the candidate query.
THEOREM FilledCorrect == ~Contended /\ MaxEntries <= BatchLimit => (WaitlistSpec => []SeatsFilled)
<1> SUFFICES ASSUME ~Contended, MaxEntries <= BatchLimit PROVE WaitlistSpec => []SeatsFilled
  OBVIOUS
<1>1. Guarded => SeatsFilled
  BY FilledNow DEF Guarded
<1> QED BY <1>1, GuardedInit, GuardedStep, PTL DEF WaitlistSpec

-----------------------------------------------------------------------------
(* Offers that need room *)

\* The offers of ride r in the table wl that need room while Q is aboard: manual
\* pooling may seat somebody who has an offer, and then the first offer for that
\* request is covered by the seat.
NeededIn(r, wl, Q) ==
  {e \in HeldBy(r, wl) :
     wl[e].request \in Q =>
       \E d \in HeldBy(r, wl) : d < e /\ wl[d].request = wl[e].request}

Needed(r) == NeededIn(r, waitlist, Carried(r))

\* Whatever is aboard is counted, and leaves room for the offers that need it.
Room(r) ==
  ActiveRide(r) =>
    /\ SeatsOf(Carried(r)) <= ride[r].reserved
    /\ ride[r].reserved + SeatsOfEntries(waitlist, Needed(r)) <= ride[r].capacity

RoomInv ==
  /\ Guarded
  /\ EndedRideCarriesNobody
  /\ OffersSuffice /\ NoOverbooking
  /\ \A r \in Requests : Room(r)

\* Seats held in the table new that were held in the table wl.
Fewer(k, wl, new) ==
  \A e \in HeldBy(k, new) : e \in HeldBy(k, wl) /\ new[e].request = wl[e].request

LEMMA NeededIsHeld ==
  ASSUME NEW k, NEW wl, NEW Q
  PROVE  NeededIn(k, wl, Q) \in SUBSET HeldBy(k, wl) /\ NeededIn(k, wl, Q) \in SUBSET Entries
BY DEF NeededIn, HeldBy

LEMMA NeededFewer ==
  ASSUME NEW k, NEW wl, NEW new, Fewer(k, wl, new), NEW Q
  PROVE  NeededIn(k, new, Q) \in SUBSET NeededIn(k, wl, Q)
<1> SUFFICES ASSUME NEW e \in NeededIn(k, new, Q) PROVE e \in NeededIn(k, wl, Q)
  OBVIOUS
<1>1. e \in HeldBy(k, new) /\ e \in HeldBy(k, wl) /\ new[e].request = wl[e].request
  BY DEF NeededIn, Fewer
<1>2. CASE wl[e].request \in Q
  <2>1. PICK d \in HeldBy(k, new) : d < e /\ new[d].request = new[e].request
    BY <1>1, <1>2 DEF NeededIn
  <2>2. d \in HeldBy(k, wl) /\ new[d].request = wl[d].request
    BY <2>1 DEF Fewer
  <2> QED BY <1>1, <2>1, <2>2 DEF NeededIn
<1> QED BY <1>1, <1>2 DEF NeededIn

\* The first offer for a request on a ride.
LEMMA FirstOffer ==
  ASSUME NEW k, NEW wl, NEW q, \E e \in HeldBy(k, wl) : wl[e].request = q
  PROVE  \E f \in HeldBy(k, wl) :
           wl[f].request = q /\ \A d \in HeldBy(k, wl) : wl[d].request = q => f <= d
<1> DEFINE S == {e \in HeldBy(k, wl) : wl[e].request = q}
<1>1. S \in SUBSET (0..MaxEntries) /\ S # {}
  BY MaxEntriesAssumption DEF HeldBy, Entries
<1> HIDE DEF S
<1>2. PICK f \in S : \A d \in S : f <= d
  BY <1>1, MaxEntriesAssumption, LeastMember
<1> QED BY <1>2 DEF S

\* Whoever gets a seat no longer needs the first offer, and nobody needs more.
LEMMA NeededSeated ==
  ASSUME NEW k, NEW wl, NEW Q, NEW q
  PROVE  /\ NeededIn(k, wl, Q \cup {q}) \in SUBSET NeededIn(k, wl, Q)
         /\ q \notin Q /\ (\E e \in HeldBy(k, wl) : wl[e].request = q) =>
              \E f \in NeededIn(k, wl, Q) :
                wl[f].request = q /\ f \notin NeededIn(k, wl, Q \cup {q})
<1>1. NeededIn(k, wl, Q \cup {q}) \in SUBSET NeededIn(k, wl, Q)
  BY DEF NeededIn
<1>2. ASSUME q \notin Q, \E e \in HeldBy(k, wl) : wl[e].request = q
      PROVE  \E f \in NeededIn(k, wl, Q) :
               wl[f].request = q /\ f \notin NeededIn(k, wl, Q \cup {q})
  <2>1. PICK f \in HeldBy(k, wl) :
           wl[f].request = q /\ \A d \in HeldBy(k, wl) : wl[d].request = q => f <= d
    BY <1>2, FirstOffer
  <2>2. \A d \in HeldBy(k, wl) : d \in Nat
    BY DEF HeldBy, Entries
  <2>3. ~ \E d \in HeldBy(k, wl) : d < f /\ wl[d].request = wl[f].request
    BY <2>1, <2>2
  <2>4. f \in NeededIn(k, wl, Q) /\ f \notin NeededIn(k, wl, Q \cup {q})
    BY <1>2, <2>1, <2>3 DEF NeededIn
  <2> QED BY <2>1, <2>4
<1> QED BY <1>1, <1>2

\* Whoever loses the seat needs at most the first offer again.
LEMMA NeededAgain ==
  ASSUME NEW k, NEW wl, NEW Q, NEW q
  PROVE  \/ NeededIn(k, wl, Q \ {q}) \in SUBSET NeededIn(k, wl, Q)
         \/ \E f \in HeldBy(k, wl) :
              /\ wl[f].request = q
              /\ NeededIn(k, wl, Q \ {q}) \in SUBSET (NeededIn(k, wl, Q) \cup {f})
<1>1. CASE \E e \in HeldBy(k, wl) : wl[e].request = q
  <2>1. PICK f \in HeldBy(k, wl) :
           wl[f].request = q /\ \A d \in HeldBy(k, wl) : wl[d].request = q => f <= d
    BY <1>1, FirstOffer
  <2>2. \A d \in HeldBy(k, wl) : d \in Nat
    BY DEF HeldBy, Entries
  <2>3. ASSUME NEW e \in NeededIn(k, wl, Q \ {q}), e # f PROVE e \in NeededIn(k, wl, Q)
    <3>1. CASE wl[e].request = q
      <4>1. e \in HeldBy(k, wl) /\ f < e
        BY <2>1, <2>2, <2>3, <3>1 DEF NeededIn
      <4> QED BY <2>1, <3>1, <4>1 DEF NeededIn
    <3>2. CASE wl[e].request # q
      BY <3>2 DEF NeededIn
    <3> QED BY <3>1, <3>2
  <2> QED BY <2>1, <2>3
<1>2. CASE ~\E e \in HeldBy(k, wl) : wl[e].request = q
  BY <1>2 DEF NeededIn
<1> QED BY <1>1, <1>2

-----------------------------------------------------------------------------
(* Room in a ride *)

LEMMA RoomParts ==
  ASSUME RoomInv
  PROVE  /\ Guarded /\ EntriesInv /\ RideTypeOK /\ EndedRideCarriesNobody /\ OffersSuffice /\ NoOverbooking
         /\ \A r \in Requests : Room(r)
         /\ waitlist \in [Entries -> EntryRows] /\ \A e \in Entries : EntrySound(waitlist[e])
<1>1. Guarded /\ EntriesInv /\ RideTypeOK /\ EndedRideCarriesNobody /\ OffersSuffice /\ NoOverbooking
  BY DEF RoomInv, Guarded, EntriesInv, WaitlistTypeOK
<1>2. waitlist \in [Entries -> EntryRows] /\ \A e \in Entries : EntrySound(waitlist[e])
  BY <1>1, OthersTyped
<1> QED BY <1>1, <1>2 DEF RoomInv

LEMMA RoomNumbers ==
  ASSUME RoomInv, NEW r \in Requests
  PROVE  /\ ride[r].reserved \in Nat /\ ride[r].capacity \in Nat
         /\ SeatsNeeded[r] \in Nat /\ SeatsOf(Carried(r)) \in Nat
         /\ Asked(waitlist, HeldBy(r, waitlist)) /\ HeldBy(r, waitlist) \in SUBSET Entries
         /\ Needed(r) \in SUBSET HeldBy(r, waitlist) /\ Asked(waitlist, Needed(r))
         /\ SeatsOfEntries(waitlist, Needed(r)) \in Nat
<1>0. Guarded /\ EntriesInv /\ RideTypeOK
  BY RoomParts
<1>1. SeatsOf(Carried(r)) \in Nat
  BY CarriedIn, SeatsFinite
<1>2. Needed(r) \in SUBSET HeldBy(r, waitlist)
  BY NeededIsHeld DEF Needed
<1>3. HeldBy(r, waitlist) \in SUBSET Entries /\ Asked(waitlist, HeldBy(r, waitlist))
  BY <1>0, HeldAsked
<1>4. Asked(waitlist, Needed(r)) /\ SeatsOfEntries(waitlist, Needed(r)) \in Nat
  BY <1>0, <1>2, HeldAsked
<1>5. ride[r].reserved \in Nat /\ ride[r].capacity \in Nat
  BY <1>0, RideParts
<1>6. SeatsNeeded[r] \in Nat
  BY RequestFacts
<1> QED BY <1>1, <1>2, <1>3, <1>4, <1>5, <1>6

\* The room of a ride after a step, in the terms of the tables after it.
LEMMA RoomMeans ==
  ASSUME NEW r \in Requests,
         ActiveRide(r)' =>
           /\ SeatsOf(Carried(r)') <= ride'[r].reserved
           /\ ride'[r].reserved + SeatsOfEntries(waitlist', NeededIn(r, waitlist', Carried(r)')) <= ride'[r].capacity
  PROVE  Room(r)'
<1>1. SeatsOf(Carried(r))' = SeatsOf(Carried(r)')
  BY DEF SeatsOf, Seats
<1>2. SeatsOfEntries(waitlist, Needed(r))' = SeatsOfEntries(waitlist', Needed(r)')
  BY DEF SeatsOfEntries
<1>3. Needed(r)' = NeededIn(r, waitlist', Carried(r)')
  BY DEF Needed, NeededIn, HeldBy
<1> QED BY <1>1, <1>2, <1>3 DEF Room

\* The room of a ride is kept when the offers that need some are among known ones.
LEMMA RoomByHeld ==
  ASSUME NEW r \in Requests, ride'[r].reserved \in Nat, ride'[r].capacity \in Nat,
         SeatsOf(Carried(r)') <= ride'[r].reserved,
         NEW wl, NEW D \in SUBSET Entries, Asked(wl, D), NeededIn(r, waitlist', Carried(r)') \in SUBSET D,
         \A e \in NeededIn(r, waitlist', Carried(r)') : waitlist'[e].request = wl[e].request,
         ride'[r].reserved + SeatsOfEntries(wl, D) <= ride'[r].capacity
  PROVE  Room(r)'
<1> DEFINE N == NeededIn(r, waitlist', Carried(r)')
<1>1. SeatsOfEntries(waitlist', N) <= SeatsOfEntries(wl, D) /\ SeatsOfEntries(waitlist', N) \in Nat
  <2>1. N \in SUBSET D /\ \A e \in N : waitlist'[e].request = wl[e].request
    OBVIOUS
  <2> HIDE DEF N
  <2> QED BY <2>1, SeatsOfFewer
<1>2. SeatsOfEntries(wl, D) \in Nat
  BY PartsFinite
<1> HIDE DEF N
<1>3. ride'[r].reserved + SeatsOfEntries(waitlist', N) <= ride'[r].capacity
  BY <1>1, <1>2
<1> QED BY <1>3, RoomMeans DEF N

\* A ride of which a step changes neither seats nor riders.
LEMMA RoomSame ==
  ASSUME RoomInv, NEW k \in Requests, Fewer(k, waitlist, waitlist'),
         ActiveRide(k)' => /\ ActiveRide(k) /\ Carried(k)' = Carried(k)
                           /\ ride'[k].reserved = ride[k].reserved /\ ride'[k].capacity = ride[k].capacity
  PROVE  Room(k)'
<1>1. CASE ~ActiveRide(k)'
  BY <1>1, RoomMeans
<1>2. CASE ActiveRide(k)'
  <2>0. Room(k)
    BY RoomParts
  <2>1. ActiveRide(k) /\ Carried(k)' = Carried(k) /\ ride'[k].reserved = ride[k].reserved
        /\ ride'[k].capacity = ride[k].capacity
    BY <1>2
  <2>2. NeededIn(k, waitlist', Carried(k)') \in SUBSET Needed(k)
    BY <2>1, NeededFewer DEF Needed
  <2>3. \A e \in NeededIn(k, waitlist', Carried(k)') : waitlist'[e].request = waitlist[e].request
    BY NeededIsHeld DEF Fewer
  <2>4. /\ ride[k].reserved \in Nat /\ ride[k].capacity \in Nat
        /\ Asked(waitlist, Needed(k)) /\ Needed(k) \in SUBSET Entries
    BY RoomNumbers
  <2>5. SeatsOf(Carried(k)) <= ride[k].reserved
        /\ ride[k].reserved + SeatsOfEntries(waitlist, Needed(k)) <= ride[k].capacity
    BY <2>0, <2>1 DEF Room
  <2>6. SeatsOf(Carried(k)') <= ride'[k].reserved
    BY <2>1, <2>5
  <2>7. ride'[k].reserved \in Nat /\ ride'[k].capacity \in Nat
        /\ ride'[k].reserved + SeatsOfEntries(waitlist, Needed(k)) <= ride'[k].capacity
    BY <2>1, <2>4, <2>5
  <2> QED BY <2>2, <2>3, <2>4, <2>6, <2>7, RoomByHeld
<1> QED BY <1>1, <1>2

LEMMA HeldStay == ASSUME waitlist' = waitlist PROVE \A k \in Requests : Fewer(k, waitlist, waitlist')
BY DEF Fewer

-----------------------------------------------------------------------------
(* Seats that are booked and given back by the engine *)

\* Manual pooling: an offer for the request is covered, or its seats are free.
LEMMA RoomPooled ==
  ASSUME RoomInv, NEW r \in Requests, NEW q \in Requests,
         attachRequestToRide(r, q, HeldForOthers(r, q)), waitlist' = waitlist
  PROVE  \A k \in Requests : Room(k)'
<1>0. RideTypeOK /\ reserveSeatForRequest(r, q) /\ ride[r].status = "confirmed" /\ Fits(r, q, HeldForOthers(r, q))
  BY RoomParts DEF attachRequestToRide
<1>1. /\ Carried(r)' = Carried(r) \cup {q}
      /\ \A k \in Requests : q \notin Carried(k) /\ (k # r => Carried(k)' = Carried(k))
  BY <1>0, CarriedReserved
<1>2. /\ ride[r].reserved \in Nat /\ ride[r].capacity \in Nat
      /\ SeatsOf(Carried(r)) \in Nat
      /\ Asked(waitlist, Needed(r)) /\ Needed(r) \in SUBSET Entries /\ Needed(r) \in SUBSET HeldBy(r, waitlist)
      /\ Asked(waitlist, HeldBy(r, waitlist)) /\ HeldBy(r, waitlist) \in SUBSET Entries
      /\ SeatsOfEntries(waitlist, Needed(r)) \in Nat
  BY RoomNumbers
<1>3. SeatsNeeded[q] \in Nat
  BY RequestFacts
<1>4. /\ ride'[r].reserved = ride[r].reserved + SeatsNeeded[q] /\ ride'[r].capacity = ride[r].capacity
      /\ \A k \in Requests : k # r => ride'[k] = ride[k]
  BY <1>0, RideParts DEF reserveSeatForRequest, RideTypeOK, RideRows
<1>5. SeatsOf(Carried(r)') = SeatsOf(Carried(r)) + SeatsNeeded[q]
  BY <1>1, CarriedIn, SeatsOfMore
<1>6. /\ SeatsOf(Carried(r)) <= ride[r].reserved
      /\ ride[r].reserved + SeatsOfEntries(waitlist, Needed(r)) <= ride[r].capacity
  <2>1. ActiveRide(r) /\ Room(r)
    BY <1>0, RoomParts, ActiveAre
  <2> QED BY <2>1 DEF Room
<1>7. SeatsOf(Carried(r)') <= ride'[r].reserved /\ ride'[r].reserved \in Nat /\ ride'[r].capacity \in Nat
  BY <1>2, <1>3, <1>4, <1>5, <1>6
<1> DEFINE N == NeededIn(r, waitlist', Carried(r)')
<1>8. N \in SUBSET Needed(r)
  BY <1>1, NeededSeated DEF Needed
<1>9. Room(r)'
  <2>1. CASE \E e \in HeldBy(r, waitlist) : waitlist[e].request = q
    <3>0. q \notin Carried(r) /\ N = NeededIn(r, waitlist, Carried(r) \cup {q})
      BY <1>1
    <3>1. PICK f \in Needed(r) : waitlist[f].request = q /\ f \notin N
      <4>1. \E f \in NeededIn(r, waitlist, Carried(r)) :
              waitlist[f].request = q /\ f \notin NeededIn(r, waitlist, Carried(r) \cup {q})
        BY <2>1, <3>0, NeededSeated
      <4> QED BY <3>0, <4>1 DEF Needed
    <3> DEFINE D == Needed(r) \ {f}
    <3>2. /\ D \in SUBSET Entries /\ Asked(waitlist, D) /\ f \in Entries \ D /\ N \in SUBSET D
          /\ D \cup {f} = Needed(r)
      BY <1>2, <1>8, <3>1 DEF Asked
    <3> HIDE DEF D, N
    <3>3. SeatsOfEntries(waitlist, Needed(r)) = SeatsOfEntries(waitlist, D) + SeatsNeeded[q]
      BY <3>1, <3>2, SeatsOfMoreEntries
    <3>4. SeatsOfEntries(waitlist, D) \in Nat
      BY <3>2, PartsFinite
    <3>5. ride'[r].reserved + SeatsOfEntries(waitlist, D) <= ride'[r].capacity
      BY <1>2, <1>3, <1>4, <1>6, <3>3, <3>4
    <3> QED BY <1>7, <3>2, <3>5, RoomByHeld DEF N
  <2>2. CASE ~\E e \in HeldBy(r, waitlist) : waitlist[e].request = q
    <3> DEFINE D == HeldBy(r, waitlist)
    <3>1. {e \in HeldBy(r, waitlist) : waitlist[e].request # q} = D
      BY <2>2
    <3>2. HeldForOthers(r, q) = SeatsOfEntries(waitlist, D)
      BY <3>1 DEF HeldForOthers
    <3>3. D \in SUBSET Entries /\ Asked(waitlist, D) /\ N \in SUBSET D
      BY <1>2, <1>8
    <3> HIDE DEF D, N
    <3>4. SeatsOfEntries(waitlist, D) \in Nat
      BY <3>3, PartsFinite
    <3>5. ride'[r].reserved + SeatsOfEntries(waitlist, D) <= ride'[r].capacity
      BY <1>0, <1>2, <1>3, <1>4, <3>2, <3>4 DEF Fits
    <3> QED BY <1>7, <3>3, <3>5, RoomByHeld DEF N
  <2> QED BY <2>1, <2>2
<1>10. ASSUME NEW k \in Requests, k # r PROVE Room(k)'
  BY <1>1, <1>4, <1>10, HeldStay, RoomSame DEF ActiveRide
<1> QED BY <1>9, <1>10

\* Removal: the counter falls by the seats, and the rider may need an offer again.
LEMMA RoomRemoved ==
  ASSUME RoomInv, NEW r \in Requests, NEW q \in Requests, removeRequestFromRide(r, q), waitlist' = waitlist
  PROVE  \A k \in Requests : Room(k)'
<1>0. RideTypeOK /\ ride[r].status = "confirmed" /\ ride' = [ride EXCEPT ![r].reserved = ReservedWithout(r, q)]
  BY RoomParts DEF removeRequestFromRide, MayRemove
<1>1. /\ q \in Carried(r) /\ Carried(r)' = Carried(r) \ {q}
      /\ \A k \in Requests : k # r => Carried(k)' = Carried(k)
  BY <1>0, CarriedRemoved
<1>2. /\ ride[r].reserved \in Nat /\ ride[r].capacity \in Nat
      /\ Asked(waitlist, Needed(r)) /\ Needed(r) \in SUBSET Entries /\ Needed(r) \in SUBSET HeldBy(r, waitlist)
      /\ Asked(waitlist, HeldBy(r, waitlist)) /\ HeldBy(r, waitlist) \in SUBSET Entries
      /\ SeatsOfEntries(waitlist, Needed(r)) \in Nat
  BY RoomNumbers
<1>3. SeatsNeeded[q] \in Nat
  BY RequestFacts
<1>4. /\ SeatsOf(Carried(r)) <= ride[r].reserved
      /\ ride[r].reserved + SeatsOfEntries(waitlist, Needed(r)) <= ride[r].capacity
  <2>1. ActiveRide(r) /\ Room(r)
    BY <1>0, RoomParts, ActiveAre
  <2> QED BY <2>1 DEF Room
<1>5. SeatsOf(Carried(r)) = SeatsOf(Carried(r)') + SeatsNeeded[q] /\ SeatsOf(Carried(r)') \in Nat
  <2>1. Carried(r) \ {q} \in SUBSET Requests /\ q \notin Carried(r) \ {q} /\ (Carried(r) \ {q}) \cup {q} = Carried(r)
    BY <1>1, CarriedIn
  <2> QED BY <1>1, <2>1, SeatsOfMore, SeatsFinite
<1>6. /\ ride'[r].reserved = ride[r].reserved - SeatsNeeded[q] /\ ride'[r].reserved \in Nat
      /\ ride'[r].capacity = ride[r].capacity
      /\ \A k \in Requests : k # r => ride'[k] = ride[k]
  <2>1. ride[r].reserved >= SeatsNeeded[q]
    BY <1>2, <1>3, <1>4, <1>5
  <2>2. ReservedWithout(r, q) = ride[r].reserved - SeatsNeeded[q] /\ ReservedWithout(r, q) \in Nat
    BY <1>2, <1>3, <2>1 DEF ReservedWithout
  <2> QED BY <1>0, <2>2 DEF RideTypeOK, RideRows
<1>7. SeatsOf(Carried(r)') <= ride'[r].reserved
  BY <1>2, <1>3, <1>4, <1>5, <1>6
<1> DEFINE N == NeededIn(r, waitlist', Carried(r)')
<1>8. Room(r)'
  <2>1. CASE N \in SUBSET Needed(r)
    <3>1. ride'[r].reserved + SeatsOfEntries(waitlist, Needed(r)) <= ride'[r].capacity
      BY <1>2, <1>3, <1>4, <1>6
    <3> QED BY <1>2, <1>6, <1>7, <2>1, <3>1, RoomByHeld
  <2>2. ASSUME NEW f \in HeldBy(r, waitlist), waitlist[f].request = q, N \in SUBSET (Needed(r) \cup {f})
        PROVE  Room(r)'
    <3> DEFINE D == Needed(r) \cup {f}
    <3>1. D \in SUBSET Entries /\ Asked(waitlist, D) /\ N \in SUBSET D /\ f \in Entries
      BY <1>2, <2>2 DEF Asked
    <3>2. SeatsOfEntries(waitlist, D) <= SeatsOfEntries(waitlist, Needed(r)) + SeatsNeeded[q]
          /\ SeatsOfEntries(waitlist, D) \in Nat
      <4>1. CASE f \in Needed(r)
        <5>1. D = Needed(r)
          BY <4>1
        <5> QED BY <1>2, <1>3, <5>1
      <4>2. CASE f \notin Needed(r)
        <5>1. SeatsOfEntries(waitlist, D) = SeatsOfEntries(waitlist, Needed(r)) + SeatsNeeded[q]
          BY <1>2, <2>2, <3>1, <4>2, SeatsOfMoreEntries
        <5> QED BY <1>2, <1>3, <5>1
      <4> QED BY <4>1, <4>2
    <3> HIDE DEF D, N
    <3>3. ride'[r].reserved + SeatsOfEntries(waitlist, D) <= ride'[r].capacity
      BY <1>2, <1>3, <1>4, <1>6, <3>2
    <3> QED BY <1>2, <1>6, <1>7, <3>1, <3>3, RoomByHeld DEF N
  <2> QED BY <1>1, <2>1, <2>2, NeededAgain DEF Needed
<1>9. ASSUME NEW k \in Requests, k # r PROVE Room(k)'
  BY <1>1, <1>6, <1>9, HeldStay, RoomSame DEF ActiveRide
<1> QED BY <1>8, <1>9

-----------------------------------------------------------------------------
(* Rounds and accepted offers *)

\* The seats of two sets of entries together.
LEMMA SeatsOfBoth ==
  ASSUME NEW wl, NEW D \in SUBSET Entries, NEW E \in SUBSET Entries, Asked(wl, D), Asked(wl, E)
  PROVE  SeatsOfEntries(wl, D \cup E) <= SeatsOfEntries(wl, D) + SeatsOfEntries(wl, E)
<1>1. Parts(wl, D \cup E) = Parts(wl, D) \cup Parts(wl, E)
  BY DEF Parts
<1>2. /\ IsFiniteSet(Parts(wl, D)) /\ IsFiniteSet(Parts(wl, E))
      /\ SeatsOfEntries(wl, D) \in Nat /\ SeatsOfEntries(wl, E) \in Nat
  BY PartsFinite
<1>3. /\ SeatsOfEntries(wl, D) = Cardinality(Parts(wl, D)) /\ SeatsOfEntries(wl, E) = Cardinality(Parts(wl, E))
      /\ SeatsOfEntries(wl, D \cup E) = Cardinality(Parts(wl, D) \cup Parts(wl, E))
  BY <1>1 DEF SeatsOfEntries, Parts
<1>4. Cardinality(Parts(wl, D) \cup Parts(wl, E))
        = Cardinality(Parts(wl, D)) + Cardinality(Parts(wl, E)) - Cardinality(Parts(wl, D) \cap Parts(wl, E))
  BY <1>2, FS_Union
<1>5. Cardinality(Parts(wl, D) \cap Parts(wl, E)) \in Nat
  <2>1. IsFiniteSet(Parts(wl, D) \cap Parts(wl, E))
    BY <1>2, FS_Intersection
  <2> QED BY <2>1, FS_CardinalityType
<1> QED BY <1>2, <1>3, <1>4, <1>5

\* A round of processing: its offers fit into what the held seats leave free.
LEMMA RoomRound ==
  ASSUME RoomInv, NEW r \in Requests, NEW wl \in [Entries -> EntryRows], Fresh(wl),
         \A e \in Entries : wl[e].request = waitlist[e].request,
         ProcessLockedRide(r, wl, waitlist'), UNCHANGED rideVars
  PROVE  \A k \in Requests : Room(k)'
<1>0. EntriesInv /\ ride' = ride /\ \A k \in Requests : Carried(k)' = Carried(k) /\ (ActiveRide(k)' <=> ActiveRide(k))
  BY RoomParts, CarriedSame DEF rideVars, ActiveRide
<1>1. ASSUME NEW e \in Entries
      PROVE  /\ waitlist'[e].request = waitlist[e].request
             /\ waitlist'[e].status = "offered" =>
                  waitlist'[e] = waitlist[e] \/ (Offers(r, e, wl[e], waitlist'[e]) /\ waitlist'[e].offeredOn = r)
  <2>1. Outcome(r, e, wl[e], waitlist'[e]) /\ wl[e] \in EntryRows
    BY ProcessOutcome
  <2>2. waitlist'[e].request = wl[e].request
        /\ (waitlist'[e].status = "offered" =>
              waitlist'[e] = wl[e] \/ (Offers(r, e, wl[e], waitlist'[e]) /\ waitlist'[e].offeredOn = r))
    BY <2>1, OutcomeTyped
  <2> QED BY <2>2 DEF Fresh
<1>2. ASSUME NEW k \in Requests, k # r PROVE Room(k)'
  <2>1. Fewer(k, waitlist, waitlist')
    BY <1>1, <1>2 DEF Fewer, HeldBy
  <2> QED BY <1>0, <2>1, RoomSame
<1>3. ASSUME ActiveRide(r) PROVE Room(r)'
  <2>1. PICK C : Round(r, wl, waitlist', C)
    BY ProcessRounds
  <2>2. CASE \A e \in Entries : ~Offers(r, e, wl[e], waitlist'[e])
    <3>1. Fewer(r, waitlist, waitlist')
      BY <1>1, <2>2 DEF Fewer, HeldBy
    <3> QED BY <1>0, <3>1, RoomSame
  <2>3. CASE CloseReason(r) # "none" /\ waitlist' = ClosedWaitlist(r, wl)
    <3>1. \A e \in Entries : ~Offers(r, e, wl[e], waitlist'[e])
      BY <2>3 DEF Offers
    <3> QED BY <2>2, <3>1
  <2>4. CASE waitlist' = ExpiredOffers(r, wl)
    <3>1. \A e \in Entries : ~Offers(r, e, wl[e], waitlist'[e])
      <4> SUFFICES ASSUME NEW e \in Entries, Offers(r, e, wl[e], waitlist'[e]) PROVE FALSE
        OBVIOUS
      <4>1. wl[e].status = "waiting" /\ waitlist'[e].status = "offered"
        BY DEF Offers, EntryRows
      <4>2. waitlist'[e] = wl[e]
        BY <2>4, <4>1 DEF ExpiredOffers, HeldBy
      <4> QED BY <4>1, <4>2
    <3> QED BY <2>2, <3>1
  <2>5. ASSUME ~(FreeSeats(r, ExpiredOffers(r, wl)) <= 0), Looked(r, wl, C),
               waitlist' = OffersMade(r, ExpiredOffers(r, wl), C)
        PROVE  Room(r)'
    <3> DEFINE kept == ExpiredOffers(r, wl)
               free == FreeSeats(r, kept)
               offers == PlanOffers(C, free)
               D == HeldBy(r, kept) \cup offers
    <3>1. /\ HeldBy(r, kept) \in SUBSET Entries /\ Asked(kept, HeldBy(r, kept)) /\ Fresh(kept)
          /\ HeldSeats(r, kept) \in Nat
          /\ free = ride[r].capacity - ride[r].reserved - HeldSeats(r, kept) /\ free \in Nat
      BY <1>0, <2>5, KeptFresh
    <3>2. C \in SUBSET Entries /\ Asked(waitlist, C)
      BY <1>0, <2>5, LookedAsked
    <3>3. offers \in SUBSET C /\ SeatsOfEntries(waitlist, offers) <= free
      BY <3>1, <3>2, OffersFit
    <3>4. \A e \in HeldBy(r, kept) : kept[e] = waitlist[e]
      BY <3>1 DEF HeldBy, Fresh
    <3>5. SeatsOfEntries(waitlist, HeldBy(r, kept)) <= HeldSeats(r, kept)
          /\ SeatsOfEntries(waitlist, HeldBy(r, kept)) \in Nat
      BY <3>1, <3>4, SeatsOfFewer DEF HeldSeats
    <3>6. HeldBy(r, waitlist') \in SUBSET D
      <4> SUFFICES ASSUME NEW e \in Entries, waitlist'[e].status = "offered", waitlist'[e].offeredOn = r, e \notin offers
                   PROVE  e \in HeldBy(r, kept)
        BY DEF HeldBy
      <4>1. waitlist'[e] = IF e \in C /\ MustEnd(e) THEN [kept[e] EXCEPT !.status = EndStatus(e)] ELSE kept[e]
        BY <2>5 DEF OffersMade
      <4>2. kept[e] \in EntryRows
        BY DEF ExpiredOffers, EntryRows
      <4>3. waitlist'[e] = kept[e]
        BY <4>1, <4>2, EndStatusIs DEF EntryRows
      <4> QED BY <4>3 DEF HeldBy
    <3>7. D \in SUBSET Entries /\ Asked(waitlist, D) /\ Asked(waitlist, HeldBy(r, kept))
          /\ offers \in SUBSET Entries /\ Asked(waitlist, offers)
      BY <3>1, <3>2, <3>3, <3>4 DEF Asked
    <3>8. SeatsOfEntries(waitlist, D) <= SeatsOfEntries(waitlist, HeldBy(r, kept)) + SeatsOfEntries(waitlist, offers)
          /\ SeatsOfEntries(waitlist, D) \in Nat /\ SeatsOfEntries(waitlist, offers) \in Nat
      BY <3>1, <3>7, SeatsOfBoth, PartsFinite
    <3>9. /\ SeatsOf(Carried(r)) <= ride[r].reserved
          /\ ride[r].reserved \in Nat /\ ride[r].capacity \in Nat
      BY <1>3, RoomParts, RoomNumbers DEF Room
    <3>10. NeededIn(r, waitlist', Carried(r)') \in SUBSET D
           /\ \A e \in NeededIn(r, waitlist', Carried(r)') : waitlist'[e].request = waitlist[e].request
      BY <1>1, <3>6, NeededIsHeld
    <3> HIDE DEF D, offers, free, kept
    <3>11. ride'[r].reserved + SeatsOfEntries(waitlist, D) <= ride'[r].capacity
      BY <1>0, <3>1, <3>3, <3>5, <3>8, <3>9
    <3> QED BY <1>0, <3>7, <3>9, <3>10, <3>11, RoomByHeld
  <2> QED BY <2>1, <2>3, <2>4, <2>5 DEF Round
<1>4. ASSUME ~ActiveRide(r) PROVE Room(r)'
  BY <1>0, <1>4, RoomMeans
<1> QED BY <1>2, <1>3, <1>4

\* Accepting an offer: its seats were held, and those of the others stay held.
LEMMA RoomAccepted ==
  ASSUME RoomInv, NEW e \in Entries, AcceptStandbyOffer(e)
  PROVE  (\A k \in Requests : Room(k)') /\ NoOverbooking'
<1>0. RideTypeOK /\ waitlist \in [Entries -> EntryRows] /\ EntrySound(waitlist[e]) /\ CanAcceptOffer(e)
  BY RoomParts DEF AcceptStandbyOffer
<1>1. PICK r \in Requests, q \in Requests :
         /\ r = waitlist[e].offeredOn /\ q = waitlist[e].request /\ reserveSeatForRequest(r, q)
         /\ ride[r].status = "confirmed"
  BY <1>0 DEF AcceptStandbyOffer, CanAcceptOffer, EntrySound
<1>2. /\ Carried(r)' = Carried(r) \cup {q}
      /\ \A k \in Requests : q \notin Carried(k) /\ (k # r => Carried(k)' = Carried(k))
  BY <1>0, <1>1, CarriedReserved
<1>3. /\ ride'[r].reserved = ride[r].reserved + SeatsNeeded[q] /\ ride'[r].capacity = ride[r].capacity
      /\ \A k \in Requests : k # r => ride'[k] = ride[k]
  BY <1>0, <1>1, RideParts DEF reserveSeatForRequest, RideTypeOK, RideRows
<1>4. \A d \in Entries : waitlist'[d].request = waitlist[d].request
                         /\ (waitlist'[d].status = "offered" => d # e /\ waitlist'[d] = waitlist[d])
  <2>1. \A d \in Entries : waitlist[d] \in EntryRows
    BY <1>0
  <2> QED BY <2>1 DEF AcceptStandbyOffer, EntryRows
<1>5. \A k \in Requests : Fewer(k, waitlist, waitlist')
  BY <1>4 DEF Fewer, HeldBy
<1>6. ASSUME NEW k \in Requests, k # r PROVE Room(k)'
  BY <1>2, <1>3, <1>5, <1>6, RoomSame DEF ActiveRide
<1> DEFINE wl == Ended(e, "accepted")
           D == HeldBy(r, wl)
<1>7. \A d \in Entries : wl[d].request = waitlist[d].request /\ (d # e => wl[d] = waitlist[d]) /\ wl[e].status = "accepted"
  BY <1>0 DEF Ended, EntryRows
<1>8. D \in SUBSET Entries /\ Asked(wl, D) /\ HeldBy(r, waitlist') \in SUBSET D
  <2>1. D \in SUBSET Entries /\ HeldBy(r, waitlist') \in SUBSET D
    BY <1>4, <1>7 DEF HeldBy
  <2>2. \A d \in D : d \in HeldBy(r, waitlist)
    BY <1>7 DEF HeldBy
  <2>3. Asked(wl, D)
    <3>1. Asked(waitlist, HeldBy(r, waitlist))
      BY RoomNumbers
    <3> QED BY <1>7, <2>1, <2>2, <3>1 DEF Asked
  <2> QED BY <2>1, <2>3
<1>9. NeededIn(r, waitlist', Carried(r)') \in SUBSET D
      /\ \A d \in NeededIn(r, waitlist', Carried(r)') : waitlist'[d].request = wl[d].request
  BY <1>4, <1>7, <1>8, NeededIsHeld
<1>10. FreeSeats(r, wl) >= SeatsNeeded[q] /\ FreeSeats(r, wl) = ride[r].capacity - ride[r].reserved - SeatsOfEntries(wl, D)
  BY <1>0, <1>1 DEF CanAcceptOffer, SeatsFor, FreeSeats, HeldSeats
<1> HIDE DEF D, wl
<1>11. /\ SeatsOfEntries(wl, D) \in Nat /\ SeatsNeeded[q] \in Nat
       /\ ride[r].reserved \in Nat /\ ride[r].capacity \in Nat /\ SeatsOf(Carried(r)) \in Nat
  BY <1>8, PartsFinite, RequestFacts, RoomNumbers
<1>12. SeatsOf(Carried(r)') <= ride'[r].reserved
  <2>1. SeatsOf(Carried(r)) <= ride[r].reserved
    BY <1>0, <1>1, RoomParts, ActiveAre DEF Room
  <2>2. SeatsOf(Carried(r)') = SeatsOf(Carried(r)) + SeatsNeeded[q]
    BY <1>2, CarriedIn, SeatsOfMore
  <2> QED BY <1>3, <1>11, <2>1, <2>2
<1>13. ride'[r].reserved \in Nat /\ ride'[r].capacity \in Nat
       /\ ride'[r].reserved + SeatsOfEntries(wl, D) <= ride'[r].capacity
  BY <1>3, <1>10, <1>11
<1>14. Room(r)'
  BY <1>8, <1>9, <1>12, <1>13, RoomByHeld
<1>15. ride'[r].reserved <= ride'[r].capacity
  BY <1>11, <1>13
<1>16. NoOverbooking'
  BY <1>3, <1>15, RoomParts DEF NoOverbooking
<1> QED BY <1>6, <1>14, <1>16

-----------------------------------------------------------------------------
(* What the engine does to the room of its rides *)

LEMMA SeatsOfNone == SeatsOf({}) = 0
<1>1. Seats({}) = {}
  BY DEF Seats
<1> QED BY <1>1, FS_EmptySet DEF SeatsOf

\* A new ride: nobody can have an offer of it yet.
LEMMA RoomMatched ==
  ASSUME RoomInv, NEW q \in Requests, NEW d \in Drivers, acceptRideOffer(q, d), waitlist' = waitlist
  PROVE  \A k \in Requests : Room(k)'
<1>0. RideTypeOK /\ EndedRideCarriesNobody /\ OffersSuffice
      /\ ride[q].status = "none" /\ offer[q][d].status = "offered" /\ ride' = [ride EXCEPT ![q] = PooledRide(q, d)]
  BY RoomParts DEF acceptRideOffer, MayAccept
<1>1. /\ Carried(q)' \in {{}, {q}}
      /\ \A k \in Requests : k # q => Carried(k)' = Carried(k) /\ ride'[k] = ride[k]
  BY <1>0, CarriedMatched DEF RideTypeOK
<1>2. ASSUME NEW k \in Requests, k # q PROVE Room(k)'
  BY <1>1, <1>2, HeldStay, RoomSame DEF ActiveRide
<1>3. ride'[q].reserved = SeatsNeeded[q] /\ ride'[q].capacity = offer[q][d].seats
  BY <1>0 DEF PooledRide, RideTypeOK
<1>4. SeatsNeeded[q] \in Nat /\ offer[q][d].seats \in Nat /\ SeatsNeeded[q] <= offer[q][d].seats
  <2>1. SeatsNeeded[q] \in Nat /\ SeatsNeeded[q] <= offer[q][d].seats
    BY <1>0, RequestFacts DEF OffersSuffice
  <2>2. offer[q][d] \in OfferRows
    BY <1>0 DEF RideTypeOK
  <2> QED BY <2>1, <2>2 DEF OfferRows
<1>5. SeatsOf(Carried(q)') <= ride'[q].reserved
  BY <1>1, <1>3, <1>4, SeatsOfNone, SeatsOfOne
<1>6. HeldBy(q, waitlist') = {}
  BY <1>0, RoomParts DEF HeldBy, EntrySound
<1>7. NeededIn(q, waitlist', Carried(q)') \in SUBSET {}
  BY <1>6, NeededIsHeld
<1>8. SeatsOfEntries(waitlist, {}) = 0
  BY SeatsOfNobody
<1>9. {} \in SUBSET Entries /\ Asked(waitlist, {})
  BY DEF Asked
<1>10. /\ ride'[q].reserved \in Nat /\ ride'[q].capacity \in Nat
       /\ ride'[q].reserved + SeatsOfEntries(waitlist, {}) <= ride'[q].capacity
  BY <1>3, <1>4, <1>8
<1>11. Room(q)'
  BY <1>5, <1>7, <1>9, <1>10, RoomByHeld
<1> QED BY <1>2, <1>11

\* The driver changes the seats, not below what is taken and held.
LEMMA RoomResized ==
  ASSUME RoomInv, NEW r \in Requests, NEW seats \in SeatChoices,
         updateRideSeats(r, seats, HeldSeats(r, waitlist)), waitlist' = waitlist
  PROVE  \A k \in Requests : Room(k)'
<1>0. /\ RideTypeOK /\ ride[r].status = "confirmed" /\ seats >= ride[r].reserved + HeldSeats(r, waitlist)
      /\ ride' = [ride EXCEPT ![r].capacity = seats] /\ assignment' = assignment
  BY RoomParts DEF updateRideSeats
<1>1. \A k \in Requests : Carried(k)' = Carried(k)
  BY <1>0, CarriedSame
<1>2. /\ ride'[r].reserved = ride[r].reserved /\ ride'[r].capacity = seats
      /\ \A k \in Requests : k # r => ride'[k] = ride[k]
  BY <1>0, RideParts DEF RideTypeOK, RideRows
<1>3. ASSUME NEW k \in Requests, k # r PROVE Room(k)'
  BY <1>1, <1>2, <1>3, HeldStay, RoomSame DEF ActiveRide
<1>4. /\ ride[r].reserved \in Nat /\ seats \in Nat
      /\ HeldBy(r, waitlist) \in SUBSET Entries /\ Asked(waitlist, HeldBy(r, waitlist))
  BY RoomNumbers, RequestFacts
<1>5. SeatsOf(Carried(r)') <= ride'[r].reserved
  BY <1>0, <1>1, <1>2, RoomParts, ActiveAre DEF Room
<1>6. NeededIn(r, waitlist', Carried(r)') \in SUBSET HeldBy(r, waitlist)
  BY NeededIsHeld
<1>7. ride'[r].reserved + SeatsOfEntries(waitlist, HeldBy(r, waitlist)) <= ride'[r].capacity
  BY <1>0, <1>2, <1>4 DEF HeldSeats
<1>8. Room(r)'
  BY <1>2, <1>4, <1>5, <1>6, <1>7, RoomByHeld
<1> QED BY <1>3, <1>8

\* A ride moves on or ends: no other ride is touched.
LEMMA RoomAdvanced ==
  ASSUME RoomInv, NEW r \in Requests, NEW to \in RideStatuses, AdvanceRide(r, to), waitlist' = waitlist
  PROVE  \A k \in Requests : Room(k)'
<1>0. RideTypeOK
  BY RoomParts
<1>1. \A k \in Requests : /\ ride'[k].reserved = ride[k].reserved /\ ride'[k].capacity = ride[k].capacity
                          /\ (k # r => ride'[k].status = ride[k].status)
  BY <1>0, RideParts DEF AdvanceRide, RideTypeOK, RideRows
<1>2. ActiveRide(r)
  BY <1>0, ActiveAre, TransitionsLeave DEF AdvanceRide, MayTransition
<1>3. \A k \in Requests : Carried(k)' = Carried(k)
  BY CarriedSame DEF AdvanceRide
<1> QED BY <1>1, <1>2, <1>3, HeldStay, RoomSame DEF ActiveRide

LEMMA RoomClosed ==
  ASSUME RoomInv, NEW r \in Requests, NEW status \in {"cancelled", "completed", "no_show"},
         ride'[r].status = status, \A k \in Requests : k # r => ride'[k] = ride[k],
         assignment' = AssignmentsOf(Carried(r), status), waitlist' = waitlist
  PROVE  \A k \in Requests : Room(k)'
<1>1. \A k \in Requests : k # r => Carried(k)' = Carried(k)
  BY RoomParts, CarriedEnded
<1>2. ~ActiveRide(r)'
  BY EndedAre DEF ActiveRide
<1> QED BY <1>1, <1>2, HeldStay, RoomSame DEF ActiveRide

\* What the end of a ride does to the rides and assignments, however it ends.
LEMMA RideOver ==
  ASSUME RideTypeOK, NEW r \in Requests,
         \/ CompleteRide(r)
         \/ \E byDriver \in BOOLEAN : CancelRide(r, byDriver)
         \/ NoShowRide(r)
  PROVE  \E status \in {"cancelled", "completed", "no_show"} :
           /\ ride'[r].status = status /\ \A k \in Requests : k # r => ride'[k] = ride[k]
           /\ assignment' = AssignmentsOf(Carried(r), status)
<1>1. CASE CompleteRide(r)
  <2>1. ride'[r].status = "completed" /\ \A k \in Requests : k # r => ride'[k] = ride[k]
    BY <1>1, RideParts DEF CompleteRide, RideTypeOK, RideRows
  <2> QED BY <1>1, <2>1 DEF CompleteRide
<1>2. ASSUME NEW byDriver \in BOOLEAN, CancelRide(r, byDriver)
      PROVE  /\ ride'[r].status = "cancelled" /\ \A k \in Requests : k # r => ride'[k] = ride[k]
             /\ assignment' = AssignmentsOf(Carried(r), "cancelled")
  BY <1>2, RideParts DEF CancelRide, RideTypeOK, RideRows, Affected
<1>3. CASE NoShowRide(r)
  <2>1. PICK q \in Carried(r) : assignment' = AssignmentsOf({q}, "no_show")
    BY <1>3 DEF NoShowRide, Affected
  <2>2. Carried(r) = {q}
    BY <1>3, NoShowIsOfAll DEF NoShowRide, Affected, canEndPooledRideAsNoShow
  <2>3. ride'[r].status = "no_show" /\ \A k \in Requests : k # r => ride'[k] = ride[k]
    BY <1>3, RideParts DEF NoShowRide, RideTypeOK, RideRows
  <2> QED BY <2>1, <2>2, <2>3
<1> QED BY <1>1, <1>2, <1>3

LEMMA RoomEngine ==
  ASSUME RoomInv, NEW r \in Requests, EngineStep(r)
  PROVE  \A k \in Requests : Room(k)'
<1>0. RideTypeOK /\ waitlist' = waitlist
  BY RoomParts DEF EngineStep, waitVars
<1>1. CASE UNCHANGED <<ride, assignment>>
  BY <1>0, <1>1, CarriedSame, HeldStay, RoomSame DEF ActiveRide
<1>2. ASSUME RequestStep(r), \A d \in Drivers : ~acceptRideOffer(r, d) PROVE UNCHANGED <<ride, assignment>>
  BY <1>2 DEF RequestStep, createRideRequest, ReadForApproval, approveRideRequest, ReadForOffer, createRideOffer
<1>3. ASSUME NEW d \in Drivers, acceptRideOffer(r, d) PROVE \A k \in Requests : Room(k)'
  BY <1>0, <1>3, RoomMatched
<1>4. CASE RequestStep(r)
  BY <1>1, <1>2, <1>3, <1>4
<1>5. CASE LifecycleStep(r)
  <2>1. ASSUME NEW to \in RideStatuses, AdvanceRide(r, to) PROVE \A k \in Requests : Room(k)'
    BY <1>0, <2>1, RoomAdvanced
  <2>2. CASE CompleteRide(r) \/ (\E byDriver \in BOOLEAN : CancelRide(r, byDriver)) \/ NoShowRide(r)
    BY <1>0, <2>2, RideOver, RoomClosed
  <2> QED BY <1>5, <2>1, <2>2 DEF LifecycleStep
<1>6. ASSUME NEW q \in Requests, attachRequestToRide(r, q, HeldForOthers(r, q)) PROVE \A k \in Requests : Room(k)'
  BY <1>0, <1>6, RoomPooled
<1>7. ASSUME NEW q \in Requests, removeRequestFromRide(r, q) PROVE \A k \in Requests : Room(k)'
  BY <1>0, <1>7, RoomRemoved
<1>8. ASSUME NEW seats \in SeatChoices, updateRideSeats(r, seats, HeldSeats(r, waitlist))
      PROVE  \A k \in Requests : Room(k)'
  BY <1>0, <1>8, RoomResized
<1> QED BY <1>4, <1>5, <1>6, <1>7, <1>8 DEF EngineStep

-----------------------------------------------------------------------------
(* A ride that ended keeps nobody aboard, also with waitlists *)

LEMMA EndedOfOne ==
  ASSUME EndedRideCarriesNobody, NEW r \in Requests, ActiveRide(r)' \/ Carried(r)' = {},
         \A k \in Requests : k # r => ride'[k].status = ride[k].status /\ Carried(k)' = Carried(k)
  PROVE  EndedRideCarriesNobody'
BY DEF EndedRideCarriesNobody, ActiveRide

LEMMA EndedKept ==
  ASSUME EndedRideCarriesNobody, assignment' = assignment, \A k \in Requests : ride'[k].status = ride[k].status
  PROVE  EndedRideCarriesNobody'
BY CarriedSame DEF EndedRideCarriesNobody, ActiveRide

LEMMA EndedReserved ==
  ASSUME RideTypeOK, EndedRideCarriesNobody, NEW r \in Requests, NEW q \in Requests,
         ride[r].status = "confirmed", reserveSeatForRequest(r, q)
  PROVE  EndedRideCarriesNobody'
<1>1. \A k \in Requests : ride'[k].status = ride[k].status
  BY RideParts DEF reserveSeatForRequest, RideTypeOK, RideRows
<1>2. ActiveRide(r)'
  BY <1>1, EndedAre DEF ActiveRide
<1> QED BY <1>1, <1>2, CarriedReserved, EndedOfOne

LEMMA EndedStep ==
  ASSUME RideTypeOK, EndedRideCarriesNobody, [RideNext]_rideVars
  PROVE  EndedRideCarriesNobody'
<1>1. CASE UNCHANGED <<ride, assignment>>
  BY <1>1, EndedKept
<1>2. ASSUME NEW q \in Requests, RequestStep(q), \A d \in Drivers : ~acceptRideOffer(q, d) PROVE UNCHANGED <<ride, assignment>>
  BY <1>2 DEF RequestStep, createRideRequest, ReadForApproval, approveRideRequest, ReadForOffer, createRideOffer
<1>3. ASSUME NEW q \in Requests, NEW d \in Drivers, acceptRideOffer(q, d) PROVE EndedRideCarriesNobody'
  <2>1. ride' = [ride EXCEPT ![q] = PooledRide(q, d)]
    BY <1>3 DEF acceptRideOffer
  <2>2. ride'[q].status = "confirmed" /\ \A k \in Requests : k # q => ride'[k] = ride[k]
    BY <2>1 DEF PooledRide, RideTypeOK
  <2>3. ActiveRide(q)'
    BY <2>2, EndedAre DEF ActiveRide
  <2> QED BY <1>3, <2>2, <2>3, CarriedMatched, EndedOfOne
<1>4. ASSUME NEW r \in Requests, NEW q \in Requests, attachRequestToRide(r, q, 0) PROVE EndedRideCarriesNobody'
  BY <1>4, EndedReserved DEF attachRequestToRide
<1>5. ASSUME NEW r \in Requests, NEW q \in Requests, removeRequestFromRide(r, q) PROVE EndedRideCarriesNobody'
  <2>1. ride[r].status = "confirmed" /\ \A k \in Requests : ride'[k].status = ride[k].status
    BY <1>5, RideParts DEF removeRequestFromRide, MayRemove, RideTypeOK, RideRows
  <2>2. ActiveRide(r)'
    BY <2>1, EndedAre DEF ActiveRide
  <2> QED BY <1>5, <2>1, <2>2, CarriedRemoved, EndedOfOne
<1>6. ASSUME NEW r \in Requests, NEW seats \in SeatChoices, updateRideSeats(r, seats, 0) PROVE EndedRideCarriesNobody'
  <2>1. \A k \in Requests : ride'[k].status = ride[k].status
    BY <1>6, RideParts DEF updateRideSeats, RideTypeOK, RideRows
  <2> QED BY <1>6, <2>1, EndedKept DEF updateRideSeats
<1>7. ASSUME NEW r \in Requests, NEW to \in RideStatuses, AdvanceRide(r, to) PROVE EndedRideCarriesNobody'
  <2>1. to \in {"driver_en_route", "arrived", "picked_up"} /\ ride'[r].status = to
        /\ assignment' = assignment /\ \A k \in Requests : k # r => ride'[k].status = ride[k].status
    BY <1>7, RideParts DEF AdvanceRide, RideTypeOK, RideRows
  <2>2. ActiveRide(r)'
    BY <2>1, EndedAre DEF ActiveRide
  <2> QED BY <2>1, <2>2, CarriedSame, EndedOfOne
<1>8. ASSUME NEW r \in Requests,
             CompleteRide(r) \/ (\E byDriver \in BOOLEAN : CancelRide(r, byDriver)) \/ NoShowRide(r)
      PROVE  EndedRideCarriesNobody'
  BY <1>8, RideOver, CarriedEnded, EndedOfOne
<1>9. CASE UNCHANGED rideVars
  BY <1>1, <1>9 DEF rideVars
<1> QED BY <1>1, <1>2, <1>3, <1>4, <1>5, <1>6, <1>7, <1>8, <1>9
        DEF RideNext, RequestStep, LifecycleStep, PoolingStep

-----------------------------------------------------------------------------
(* Held seats are there *)

\* A step that changes no ride, and after which only held seats are held.
LEMMA RoomStill ==
  ASSUME RoomInv, UNCHANGED <<ride, assignment>>, \A k \in Requests : Fewer(k, waitlist, waitlist')
  PROVE  \A k \in Requests : Room(k)'
BY CarriedSame, RoomSame DEF ActiveRide

\* Leaving or declining, with the round of processing that follows.
LEMMA RoomWithdrawn ==
  ASSUME RoomInv, NEW e \in Entries, NEW status \in {"left", "declined"}, UNCHANGED rideVars,
         \/ waitlist[e].status = "waiting" /\ waitlist' = Ended(e, status)
         \/ /\ waitlist[e].status = "offered"
            /\ ProcessLockedRide(waitlist[e].offeredOn, Ended(e, status), waitlist')
  PROVE  \A k \in Requests : Room(k)'
<1>0. waitlist \in [Entries -> EntryRows] /\ EntrySound(waitlist[e]) /\ Guarded /\ waitlist[e].status # "none"
  BY RoomParts
<1>1. /\ Ended(e, status) \in [Entries -> EntryRows] /\ Ended(e, status)[e].status = status
      /\ \A d \in Entries : d # e => Ended(e, status)[d] = waitlist[d]
      /\ \A d \in Entries : RowLater(waitlist[d], Ended(e, status)[d])
  BY <1>0, EndedTyped
<1>2. CASE waitlist' = Ended(e, status)
  <2>1. \A k \in Requests : Fewer(k, waitlist, waitlist')
    BY <1>1, <1>2 DEF Fewer, HeldBy
  <2> QED BY <2>1, RoomStill DEF rideVars
<1>3. CASE waitlist[e].status = "offered" /\ ProcessLockedRide(waitlist[e].offeredOn, Ended(e, status), waitlist')
  <2>1. waitlist[e].offeredOn \in Requests
    BY <1>0, <1>3 DEF EntrySound
  <2>2. Fresh(Ended(e, status)) /\ \A d \in Entries : Ended(e, status)[d].request = waitlist[d].request
    BY <1>1 DEF Fresh, RowLater
  <2> QED BY <1>1, <1>3, <2>1, <2>2, RoomRound
<1> QED BY <1>2, <1>3

LEMMA RoomProcessed ==
  ASSUME RoomInv, NEW r \in Requests, ProcessRideWaitlist(r)
  PROVE  \A k \in Requests : Room(k)'
<1>1. waitlist \in [Entries -> EntryRows] /\ Fresh(waitlist)
  BY RoomParts DEF Fresh
<1> QED BY <1>1, RoomRound DEF ProcessRideWaitlist

LEMMA RoomJoined ==
  ASSUME RoomInv, NEW e \in Entries, NEW r \in Requests, NEW q \in Requests, JoinWaitlist(e, r, q)
  PROVE  \A k \in Requests : Room(k)'
<1>1. waitlist \in [Entries -> EntryRows]
  BY RoomParts
<1>2. waitlist' = [waitlist EXCEPT ![e] = [NoEntry EXCEPT !.status = "waiting", !.ride = r, !.request = q]]
  BY DEF JoinWaitlist, AddEntry
<1>3. waitlist'[e].status = "waiting" /\ \A d \in Entries : d # e => waitlist'[d] = waitlist[d]
  BY <1>1, <1>2 DEF NoEntry
<1>4. \A k \in Requests : Fewer(k, waitlist, waitlist')
  BY <1>3 DEF Fewer, HeldBy
<1> QED BY <1>4, RoomStill DEF JoinWaitlist

LEMMA RoomLapsed ==
  ASSUME RoomInv, NEW e \in Entries, OfferLapses(e)
  PROVE  \A k \in Requests : Room(k)'
<1>1. waitlist \in [Entries -> EntryRows]
  BY RoomParts
<1>2. waitlist' = [waitlist EXCEPT ![e] = [waitlist[e] EXCEPT !.open = FALSE]]
  BY DEF OfferLapses
<1>3. \A d \in Entries : /\ waitlist'[d].status = waitlist[d].status /\ waitlist'[d].request = waitlist[d].request
                         /\ waitlist'[d].offeredOn = waitlist[d].offeredOn
  BY <1>1, <1>2 DEF EntryRows
<1>4. \A k \in Requests : Fewer(k, waitlist, waitlist')
  BY <1>3 DEF Fewer, HeldBy
<1> QED BY <1>4, RoomStill DEF OfferLapses, rideVars

LEMMA RoomStep == RoomInv /\ [WaitlistNext]_allVars => \A k \in Requests : Room(k)'
<1> SUFFICES ASSUME RoomInv, [WaitlistNext]_allVars PROVE \A k \in Requests : Room(k)'
  OBVIOUS
<1> DEFINE Kept == \A k \in Requests : Room(k)'
<1>1. ASSUME NEW e \in Entries, EntryStep(e) PROVE Kept
  <2>1. ASSUME NEW r \in Requests, NEW q \in Requests, JoinWaitlist(e, r, q) PROVE Kept
    BY <1>1, <2>1, RoomJoined
  <2>2. CASE LeaveWaitlist(e)
    BY <1>1, <2>2, RoomWithdrawn DEF LeaveWaitlist
  <2>3. CASE DeclineStandbyOffer(e)
    BY <1>1, <2>3, RoomWithdrawn DEF DeclineStandbyOffer
  <2>4. CASE AcceptStandbyOffer(e)
    BY <1>1, <2>4, RoomAccepted
  <2>5. CASE ExpireStandbyOffer(e)
    <3>1. waitlist[e].offeredOn \in Requests
      BY <1>1, <2>5, RoomParts DEF ExpireStandbyOffer, EntrySound
    <3> QED BY <2>5, <3>1, RoomProcessed DEF ExpireStandbyOffer
  <2>6. CASE OfferLapses(e)
    BY <1>1, <2>6, RoomLapsed
  <2> QED BY <1>1, <2>1, <2>2, <2>3, <2>4, <2>5, <2>6 DEF EntryStep
<1>2. ASSUME NEW r \in Requests, ProcessRideWaitlist(r) PROVE Kept
  BY <1>2, RoomProcessed
<1>3. ASSUME NEW r \in Requests, EngineStep(r) PROVE Kept
  BY <1>3, RoomEngine
<1>4. CASE UNCHANGED <<rideVars, waitlist>>
  BY <1>4, HeldStay, RoomStill DEF rideVars
<1> QED BY <1>1, <1>2, <1>3, <1>4
        DEF WaitlistNext, DepartureNears, RemoveMember, UpdateWaitlistSettings, allVars, waitVars

\* What accepting an offer does besides: no ride ends, and the counter stays in the car.
LEMMA AcceptBooks ==
  ASSUME RoomInv, NEW e \in Entries, AcceptStandbyOffer(e)
  PROVE  EndedRideCarriesNobody' /\ OffersSuffice' /\ NoOverbooking'
<1>0. RideTypeOK /\ EndedRideCarriesNobody /\ OffersSuffice /\ NoOverbooking /\ EntrySound(waitlist[e]) /\ CanAcceptOffer(e)
  BY RoomParts DEF AcceptStandbyOffer
<1>1. PICK r \in Requests, q \in Requests :
         /\ r = waitlist[e].offeredOn /\ q = waitlist[e].request /\ reserveSeatForRequest(r, q)
         /\ ride[r].status = "confirmed"
  BY <1>0 DEF AcceptStandbyOffer, CanAcceptOffer, EntrySound
<1>2. EndedRideCarriesNobody'
  BY <1>0, <1>1, EndedReserved
<1>3. OffersSuffice'
  BY <1>0 DEF OffersSuffice, AcceptStandbyOffer
<1>4. NoOverbooking'
  BY RoomAccepted
<1> QED BY <1>2, <1>3, <1>4

LEMMA RoomInvStep == RoomInv /\ [WaitlistNext]_allVars => RoomInv'
<1> SUFFICES ASSUME RoomInv, [WaitlistNext]_allVars PROVE RoomInv'
  OBVIOUS
<1>0. Guarded /\ EntriesInv /\ RideTypeOK /\ EndedRideCarriesNobody /\ OffersSuffice /\ NoOverbooking
  BY RoomParts
<1>1. Guarded' /\ \A k \in Requests : Room(k)'
  BY <1>0, GuardedStep, RoomStep
<1>2. ASSUME [RideNext]_rideVars PROVE EndedRideCarriesNobody' /\ OffersSuffice' /\ NoOverbooking'
  BY <1>0, <1>2, EndedStep, BookingStep
<1>3. EndedRideCarriesNobody' /\ OffersSuffice' /\ NoOverbooking'
  <2>1. ASSUME NEW e \in Entries, NEW r \in Requests, NEW q \in Requests, JoinWaitlist(e, r, q)
        PROVE  EndedRideCarriesNobody' /\ OffersSuffice' /\ NoOverbooking'
    BY <1>2, <2>1, JoinIsRide
  <2>2. ASSUME NEW e \in Entries, AcceptStandbyOffer(e)
        PROVE  EndedRideCarriesNobody' /\ OffersSuffice' /\ NoOverbooking'
    BY <2>2, AcceptBooks
  <2>3. ASSUME NEW r \in Requests, EngineStep(r)
        PROVE  EndedRideCarriesNobody' /\ OffersSuffice' /\ NoOverbooking'
    BY <1>0, <1>2, <2>3, EngineIsRide
  <2>4. CASE UNCHANGED rideVars
    BY <1>2, <2>4
  <2> QED BY <2>1, <2>2, <2>3, <2>4
          DEF WaitlistNext, EntryStep, LeaveWaitlist, DeclineStandbyOffer, ExpireStandbyOffer, OfferLapses,
              ProcessRideWaitlist, DepartureNears, RemoveMember, UpdateWaitlistSettings, allVars
<1> QED BY <1>1, <1>3 DEF RoomInv

LEMMA RoomInvInit == RideInit /\ WaitlistInit => RoomInv
<1> SUFFICES ASSUME RideInit, WaitlistInit PROVE RoomInv
  OBVIOUS
<1>1. Guarded /\ OffersSuffice /\ NoOverbooking
  BY GuardedInit, BookingInit
<1>2. \A r \in Requests : ~ActiveRide(r) /\ Carried(r) = {}
  BY DEF RideInit, NoRide, ActiveRide, Carried, OnRide
<1> QED BY <1>1, <1>2 DEF RoomInv, EndedRideCarriesNobody, Room

\* Held seats are never booked away: through pooling of riders with an offer,
\* removals, capacity changes, accepts, withdrawals and late expiries, the riders
\* and the open offers of a ride fit into it (heldSeats of lib/ride-waitlists.ts and
\* its uses in lib/carpool.ts).
THEOREM HeldCorrect == WaitlistSpec => []HeldSeatsFit
<1>1. ASSUME RoomInv PROVE HeldSeatsFit
  <2> SUFFICES ASSUME NEW r \in Requests, ActiveRide(r)
               PROVE  ride[r].reserved + SeatsOfEntries(waitlist, Promised(r)) <= ride[r].capacity
    BY DEF HeldSeatsFit
  <2>1. Promised(r) \in SUBSET Needed(r)
    <3> SUFFICES ASSUME NEW e \in Promised(r) PROVE e \in Needed(r)
      OBVIOUS
    <3> QED BY DEF Promised, Needed, NeededIn, Carried
  <2>2. /\ Needed(r) \in SUBSET Entries /\ Asked(waitlist, Needed(r))
        /\ ride[r].reserved \in Nat /\ ride[r].capacity \in Nat /\ SeatsOfEntries(waitlist, Needed(r)) \in Nat
    BY <1>1, RoomNumbers
  <2>3. SeatsOfEntries(waitlist, Promised(r)) <= SeatsOfEntries(waitlist, Needed(r))
        /\ SeatsOfEntries(waitlist, Promised(r)) \in Nat
    BY <2>1, <2>2, SeatsOfFewer
  <2>4. ride[r].reserved + SeatsOfEntries(waitlist, Needed(r)) <= ride[r].capacity
    BY <1>1, RoomParts DEF Room
  <2> QED BY <2>2, <2>3, <2>4
<1>2. RoomInv => HeldSeatsFit
  BY <1>1
<1> QED BY <1>2, RoomInvInit, RoomInvStep, PTL DEF WaitlistSpec
=============================================================================

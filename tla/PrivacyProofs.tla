------------------------- MODULE PrivacyProofs -------------------------
(***************************************************************************)
(* What the hourly job that deletes accounts guarantees for any number of  *)
(* people, of processes that run it and of requests, as long as the lock   *)
(* of the job is held for as long as the job runs.  None of the properties *)
(* is inductive.  They rest on JobInv: one process at a time runs the job, *)
(* so what it holds is in the state it left it in, and what the second     *)
(* look found is still so when the rows are erased.                        *)
(*                                                                         *)
(* At the end, the credentials of drivers: nobody drives on an answer that *)
(* was not given.                                                          *)
(***************************************************************************)
EXTENDS AccountDeletion, CredentialVault, FiniteSetTheorems, TLAPS

HoldSteps == {"claimed", "clear", "frozen", "checked", "emptied", "blocking", "blocked", "failing"}
WorkSteps == HoldSteps \cup {"idle", "started", "recovered", "next"}

Typed ==
  /\ \E n \in 0..MaxRequests : requests \in [1..n -> Requests]
  /\ account \in [People -> {"active", "deleting", "erased"}]
  /\ owns \subseteq People /\ guards \subseteq People /\ busy \subseteq People
  /\ lock \in Cleaners \cup {Nobody}
  /\ work \in [Cleaners -> [step : WorkSteps, claimed : SUBSET (0..MaxRequests), at : 0..MaxRequests]]
  /\ calls \subseteq RoleChanges /\ change \subseteq RoleChanges

OneRun == \A c \in Cleaners : work[c].step # "idle" => lock = c

\* What a process has in hand is being processed, and what it found holds.
InHand(c) ==
  /\ work[c].claimed \subseteq Deletions
  /\ \A r \in work[c].claimed : requests[r].status = "processing"
  /\ work[c].step \in {"idle", "started", "recovered"} => work[c].claimed = {}
  /\ work[c].step \in HoldSteps =>
       work[c].at \in Deletions \ work[c].claimed /\ requests[work[c].at].status = "processing"
  /\ work[c].step = "blocked" => account[Person(c)] # "deleting"
  /\ work[c].step \in {"checked", "emptied"} => ~SoleGuardian(Person(c))

OneDeletionEach ==
  \A r, s \in Deletions : requests[r].person = requests[s].person /\ r # s =>
    {"completed", "cancelled"} \cap {requests[r].status, requests[s].status} # {}

JobInv ==
  /\ Typed /\ OneRun /\ (\A c \in Cleaners : InHand(c))
  /\ OneDeletionEach /\ FrozenHasRequest /\ GuardianRemains

\* The requests stand as they were, but for the status of those in X.
Rewritten(X, s) ==
  /\ DOMAIN requests' = DOMAIN requests /\ Deletions' = Deletions
  /\ \A q \in DOMAIN requests : /\ requests'[q].person = requests[q].person
                                /\ requests'[q].status = IF q \in X THEN s ELSE requests[q].status

\* What a request of somebody adds to the table.
Added(k, p, s) ==
  \E m \in Nat \ DOMAIN requests :
    /\ DOMAIN requests' = DOMAIN requests \cup {m}
    /\ Deletions' = Deletions \cup (IF k = "delete" THEN {m} ELSE {})
    /\ requests'[m].person = p /\ requests'[m].status = s
    /\ \A q \in DOMAIN requests : requests'[q] = requests[q]

\* What is in hand stays in hand, and what is done stays done.
Settled == {"completed", "cancelled"}
SettledStays ==
  /\ Deletions \subseteq Deletions'
  /\ \A q \in DOMAIN requests : /\ requests'[q].person = requests[q].person
                                /\ requests[q].status \in Settled => requests'[q].status = requests[q].status
  /\ \A q \in Deletions' \ Deletions, r \in Deletions' :
       q # r /\ requests'[q].person = requests'[r].person => requests'[r].status \in Settled

-----------------------------------------------------------------------------
LEMMA JobInvInit == DeletionInit => JobInv
<1> SUFFICES ASSUME DeletionInit PROVE JobInv
  OBVIOUS
<1>1. requests \in [1..0 -> Requests] /\ DOMAIN requests = {} /\ 0 \in 0..MaxRequests
  BY DeletionAssumption DEF DeletionInit
<1>2. Typed
  BY <1>1, DeletionAssumption DEF DeletionInit, Typed, Idle, WorkSteps, NoChange
<1>3. OneRun /\ \A c \in Cleaners : InHand(c)
  BY <1>1 DEF DeletionInit, OneRun, InHand, Idle, HoldSteps
<1>4. OneDeletionEach /\ FrozenHasRequest
  BY <1>1 DEF DeletionInit, OneDeletionEach, FrozenHasRequest, Deletions
<1>5. GuardianRemains
  <2>1. guards \subseteq People /\ guards # {} /\ account = [p \in People |-> "active"]
    BY DEF DeletionInit
  <2>2. PICK p \in guards : account[p] = "active"
    BY <2>1
  <2> QED BY <2>2 DEF GuardianRemains
<1> QED BY <1>2, <1>3, <1>4, <1>5 DEF JobInv

\* The parts of what is typed, without the number of requests.
LEMMA TypedParts ==
  ASSUME Typed
  PROVE  /\ \A r \in DOMAIN requests : requests[r] \in Requests
         /\ DOMAIN requests \subseteq 1..MaxRequests
         /\ \A c \in Cleaners : work[c].step \in WorkSteps
<1>1. PICK n \in 0..MaxRequests : requests \in [1..n -> Requests]
  BY DEF Typed
<1>2. n \in Nat /\ n <= MaxRequests /\ MaxRequests \in Nat /\ DOMAIN requests = 1..n
  BY <1>1, DeletionAssumption
<1> QED BY <1>1, <1>2 DEF Typed

\* The status of one request changes.
LEMMA StatusWritten ==
  ASSUME Typed, NEW r \in DOMAIN requests, NEW s \in Statuses, NEW d \in BOOLEAN,
         requests' = [requests EXCEPT ![r].status = s, ![r].due = d]
  PROVE  Rewritten({r}, s)
<1>1. PICK n \in 0..MaxRequests : requests \in [1..n -> Requests]
  BY DEF Typed
<1>2. requests' \in [1..n -> Requests]
  BY <1>1 DEF Requests
<1>3. DOMAIN requests' = DOMAIN requests
  BY <1>1
<1>4. \A q \in DOMAIN requests : requests'[q].kind = requests[q].kind /\ requests'[q].person = requests[q].person
                                 /\ requests'[q].status = IF q = r THEN s ELSE requests[q].status
  BY <1>1 DEF Requests
<1> QED BY <1>3, <1>4 DEF Deletions, Rewritten

\* A request is made.
LEMMA RequestMade ==
  ASSUME Typed, NEW k \in {"delete", "export"}, NEW p \in People, NEW s \in Statuses, Insert(k, p, s)
  PROVE  /\ \E n \in 0..MaxRequests : requests' \in [1..n -> Requests]
         /\ Added(k, p, s)
<1>1. PICK n \in 0..MaxRequests : requests \in [1..n -> Requests]
  BY DEF Typed
<1>2. n \in Nat /\ MaxRequests \in Nat /\ DOMAIN requests = 1..n
  BY <1>1, DeletionAssumption
<1>3. Cardinality(DOMAIN requests) = n
  <2>1. Cardinality(1..n) = IF 1 > n THEN 0 ELSE n - 1 + 1
    BY <1>2, FS_Interval
  <2> QED BY <1>2, <2>1
<1>4. n < MaxRequests /\ requests' = [r \in 1..(n + 1) |->
        IF r \in 1..n THEN requests[r] ELSE [kind |-> k, person |-> p, status |-> s, due |-> FALSE]]
  BY <1>2, <1>3 DEF Insert
<1>5. requests' \in [1..(n + 1) -> Requests] /\ n + 1 \in 0..MaxRequests
  BY <1>1, <1>2, <1>4 DEF Requests
<1>6. n + 1 \notin 1..n /\ 1..(n + 1) = 1..n \cup {n + 1} /\ DOMAIN requests' = 1..(n + 1)
  BY <1>2, <1>4
<1>7. /\ n + 1 \in Nat /\ DOMAIN requests' = DOMAIN requests \cup {n + 1}
      /\ requests'[n + 1] = [kind |-> k, person |-> p, status |-> s, due |-> FALSE]
      /\ \A q \in DOMAIN requests : requests'[q] = requests[q]
  BY <1>2, <1>4, <1>6
<1>8. \E m \in 0..MaxRequests : requests' \in [1..m -> Requests]
  BY <1>5
<1>9. Deletions' = Deletions \cup (IF k = "delete" THEN {n + 1} ELSE {})
  BY <1>7 DEF Deletions
<1> QED BY <1>2, <1>6, <1>7, <1>8, <1>9 DEF Added

\* The types are kept, whoever does what.
LEMMA TypedStep == Typed /\ (\A c \in Cleaners : InHand(c)) /\ [DeletionNext]_deletionVars => Typed'
<1> SUFFICES ASSUME Typed, \A c \in Cleaners : InHand(c), [DeletionNext]_deletionVars PROVE Typed'
  OBVIOUS
<1>0. /\ DOMAIN requests \subseteq 1..MaxRequests /\ MaxRequests \in Nat /\ Deletions \subseteq DOMAIN requests
      /\ \A r \in DOMAIN requests : requests[r] \in Requests
  BY TypedParts, DeletionAssumption DEF Deletions
<1>1. PICK n \in 0..MaxRequests : requests \in [1..n -> Requests] /\ DOMAIN requests = 1..n
  BY DEF Typed
<1>2. CASE PrivacyRoute
  <2>1. ASSUME NEW p \in People, requestAccountDeletion(p) PROVE Typed'
    <3>1. Insert("delete", p, "scheduled") /\ "scheduled" \in Statuses
      BY <2>1 DEF requestAccountDeletion, Statuses
    <3>2. \E m \in 0..MaxRequests : requests' \in [1..m -> Requests]
      BY <3>1, RequestMade
    <3> QED BY <2>1, <3>2 DEF Typed, requestAccountDeletion, roles
  <2>2. ASSUME NEW p \in People, buildMyDataExport(p) PROVE Typed'
    <3>1. CASE Insert("export", p, "processing")
      <4>1. \E m \in 0..MaxRequests : requests' \in [1..m -> Requests]
        BY <3>1, RequestMade DEF Statuses
      <4> QED BY <2>2, <4>1 DEF Typed, buildMyDataExport, roles
    <3>2. ASSUME NEW r \in DOMAIN requests, NEW t \in {"completed", "failed"}, requests' = [requests EXCEPT ![r].status = t]
          PROVE  Typed'
      <4>1. requests' \in [1..n -> Requests]
        BY <1>1, <3>2 DEF Requests, Statuses
      <4> QED BY <2>2, <4>1 DEF Typed, buildMyDataExport, roles
    <3> QED BY <2>2, <3>1, <3>2 DEF buildMyDataExport
  <2>3. ASSUME NEW r \in Deletions, cancelAccountDeletion(r) PROVE Typed'
    <3>1. requests' \in [1..n -> Requests]
      BY <1>1, <2>3 DEF cancelAccountDeletion, Requests, Statuses
    <3> QED BY <2>3, <3>1 DEF Typed, cancelAccountDeletion, roles
  <2> QED BY <1>2, <2>1, <2>2, <2>3 DEF PrivacyRoute
<1>3. CASE PlatformRolesRoute
  <2>1. UNCHANGED <<requests, account, guards, busy, lock, work>>
    BY <1>3 DEF PlatformRolesRoute, requirePlatformRole, CheckRoleChange, CommitRoleChange
  <2>2. owns' \subseteq People /\ calls' \subseteq RoleChanges /\ change' \subseteq RoleChanges
    BY <1>3 DEF Typed, PlatformRolesRoute, requirePlatformRole, CheckRoleChange, CommitRoleChange, RoleChanges, NoChange
  <2> QED BY <1>1, <2>1, <2>2 DEF Typed
<1>4. ASSUME NEW p \in People, BusyChanges(p) \/ addGuardian(p) \/ BootstrapOwner(p) PROVE Typed'
  <2>1. UNCHANGED <<requests, account, lock, work, calls, change>>
    BY <1>4 DEF BusyChanges, addGuardian, BootstrapOwner, roles
  <2>2. owns' \subseteq People /\ guards' \subseteq People /\ busy' \subseteq People
    BY <1>4 DEF Typed, BusyChanges, addGuardian, BootstrapOwner, roles
  <2> QED BY <1>1, <2>1, <2>2 DEF Typed
<1>5. ASSUME NEW c \in Cleaners, WorkStep(c) \/ Crash(c) \/ LockDrops(c) PROVE Typed'
  <2>0. /\ work[c] \in [step : WorkSteps, claimed : SUBSET (0..MaxRequests), at : 0..MaxRequests]
        /\ work[c].step \in HoldSteps => work[c].at \in DOMAIN requests
    BY <1>0, <1>5 DEF Typed, InHand
  <2>1. UNCHANGED <<owns, busy, calls, change>>
    BY <1>5 DEF WorkStep, StartRun, RecoverInterrupted, ClaimDue, NextRequest, LookForBlockers, Freeze, LookAgain,
      blockDeletion, ObjectsDeleted, StorageFails, Erase, failDeletion, Crash, LockDrops, roles
  <2>2. work' \in [Cleaners -> [step : WorkSteps, claimed : SUBSET (0..MaxRequests), at : 0..MaxRequests]]
    <3>1. ASSUME NEW x \in WorkSteps, Move(c, x)
          PROVE  work' \in [Cleaners -> [step : WorkSteps, claimed : SUBSET (0..MaxRequests), at : 0..MaxRequests]]
      <4>1. [work[c] EXCEPT !.step = x] \in [step : WorkSteps, claimed : SUBSET (0..MaxRequests), at : 0..MaxRequests]
        BY <2>0
      <4>2. work' = [work EXCEPT ![c] = [work[c] EXCEPT !.step = x]]
        BY <3>1 DEF Move
      <4> QED BY <4>1, <4>2 DEF Typed
    <3>2. {"started", "recovered", "next", "blocking", "clear", "failing", "frozen", "checked", "blocked", "emptied"} \subseteq WorkSteps
      BY DEF WorkSteps, HoldSteps
    <3>3. CASE ClaimDue(c)
      <4>1. Due \in SUBSET (0..MaxRequests) /\ 0 \in 0..MaxRequests
        BY <1>0 DEF Due
      <4> QED BY <3>2, <3>3, <4>1 DEF ClaimDue, Typed
    <3>4. CASE NextRequest(c)
      <4>1. ASSUME NEW r \in work[c].claimed, work' = [work EXCEPT ![c] = [step |-> "claimed", claimed |-> @.claimed \ {r}, at |-> r]]
            PROVE  work' \in [Cleaners -> [step : WorkSteps, claimed : SUBSET (0..MaxRequests), at : 0..MaxRequests]]
        <5>1. r \in 0..MaxRequests /\ work[c].claimed \ {r} \in SUBSET (0..MaxRequests) /\ "claimed" \in WorkSteps
          BY <2>0 DEF WorkSteps, HoldSteps
        <5> QED BY <4>1, <5>1 DEF Typed
      <4>2. CASE work' = [work EXCEPT ![c] = Idle]
        BY <1>0, <4>2 DEF Typed, Idle, WorkSteps
      <4> QED BY <3>4, <4>1, <4>2 DEF NextRequest
    <3>5. CASE Crash(c)
      BY <1>0, <3>5 DEF Crash, Typed, Idle, WorkSteps
    <3>6. CASE LockDrops(c)
      BY <3>6 DEF LockDrops, Typed
    <3> QED BY <1>5, <3>1, <3>2, <3>3, <3>4, <3>5, <3>6 DEF WorkStep, StartRun, RecoverInterrupted, LookForBlockers, Freeze,
      LookAgain, blockDeletion, GiveAccountBack, ObjectsDeleted, StorageFails, Erase, failDeletion
  <2>3. lock' \in Cleaners \cup {Nobody} /\ guards' \subseteq People
    BY <1>5 DEF Typed, WorkStep, StartRun, RecoverInterrupted, ClaimDue, NextRequest, LookForBlockers, Freeze, LookAgain,
      blockDeletion, ObjectsDeleted, StorageFails, Erase, failDeletion, Crash, LockDrops
  <2>4. account' \in [People -> {"active", "deleting", "erased"}]
    BY <1>5 DEF Typed, WorkStep, StartRun, RecoverInterrupted, ClaimDue, NextRequest, LookForBlockers, Freeze, LookAgain,
      blockDeletion, GiveAccountBack, ObjectsDeleted, StorageFails, Erase, failDeletion, Crash, LockDrops
  <2>5. requests' \in [1..n -> Requests]
    <3>1. ASSUME NEW s \in {"completed", "blocked", "failed"}, Answer(c, s), work[c].step \in HoldSteps
          PROVE  requests' \in [1..n -> Requests]
      BY <1>1, <2>0, <3>1 DEF Answer, Requests, Statuses
    <3>2. {"claimed", "blocked", "emptied", "failing"} \subseteq HoldSteps
      BY DEF HoldSteps
    <3>3. CASE RecoverInterrupted(c)
      BY <1>1, <3>3 DEF RecoverInterrupted, Requests, Statuses
    <3>4. CASE ClaimDue(c)
      BY <1>1, <3>4 DEF ClaimDue, Requests, Statuses
    <3> QED BY <1>1, <1>5, <3>1, <3>2, <3>3, <3>4 DEF At, WorkStep, StartRun, NextRequest, LookForBlockers, Freeze, LookAgain,
      blockDeletion, ObjectsDeleted, StorageFails, Erase, failDeletion, Crash, LockDrops
  <2> QED BY <2>1, <2>2, <2>3, <2>4, <2>5 DEF Typed
<1>6. ASSUME NEW r \in DOMAIN requests, HoursPass(r) PROVE Typed'
  <2>1. requests' \in [1..n -> Requests]
    BY <1>1, <1>6 DEF HoursPass, Requests
  <2> QED BY <1>6, <2>1 DEF Typed, HoursPass, roles
<1>7. CASE UNCHANGED deletionVars
  BY <1>7 DEF Typed, deletionVars
<1> QED BY <1>2, <1>3, <1>4, <1>5, <1>6, <1>7 DEF DeletionNext

-----------------------------------------------------------------------------
(* How each action writes the requests *)

LEMMA CancelWrites ==
  ASSUME Typed, NEW r \in Deletions, cancelAccountDeletion(r)
  PROVE  Rewritten({r}, "cancelled")
BY StatusWritten DEF cancelAccountDeletion, Deletions, Statuses

LEMMA ExportWrites ==
  ASSUME Typed, NEW r \in DOMAIN requests, NEW t \in Statuses, requests' = [requests EXCEPT ![r].status = t]
  PROVE  Rewritten({r}, t)
<1>1. PICK n \in 0..MaxRequests : requests \in [1..n -> Requests]
  BY DEF Typed
<1>2. DOMAIN requests' = DOMAIN requests
  BY <1>1
<1>3. \A q \in DOMAIN requests : requests'[q].kind = requests[q].kind /\ requests'[q].person = requests[q].person
                                 /\ requests'[q].status = IF q = r THEN t ELSE requests[q].status
  BY <1>1 DEF Requests
<1> QED BY <1>2, <1>3 DEF Deletions, Rewritten

LEMMA HoursWrite ==
  ASSUME Typed, NEW r \in DOMAIN requests, HoursPass(r)
  PROVE  Rewritten({}, "failed")
<1>1. PICK n \in 0..MaxRequests : requests \in [1..n -> Requests]
  BY DEF Typed
<1>2. DOMAIN requests' = DOMAIN requests
  BY <1>1 DEF HoursPass
<1>3. \A q \in DOMAIN requests : requests'[q].kind = requests[q].kind /\ requests'[q].person = requests[q].person
                                 /\ requests'[q].status = requests[q].status
  BY <1>1 DEF Requests, HoursPass
<1> QED BY <1>2, <1>3 DEF Deletions, Rewritten

Abandoned == {r \in Deletions : requests[r].status = "processing" /\ requests[r].due}

LEMMA RecoverWrites ==
  ASSUME Typed, NEW c \in Cleaners, RecoverInterrupted(c)
  PROVE  Rewritten(Abandoned, "failed")
<1>1. PICK n \in 0..MaxRequests : requests \in [1..n -> Requests]
  BY DEF Typed
<1>2. DOMAIN requests' = DOMAIN requests
  BY <1>1 DEF RecoverInterrupted
<1>3. \A q \in DOMAIN requests : requests'[q].kind = requests[q].kind /\ requests'[q].person = requests[q].person
                                 /\ requests'[q].status = IF q \in Abandoned THEN "failed" ELSE requests[q].status
  BY <1>1 DEF Requests, RecoverInterrupted, Abandoned
<1> QED BY <1>2, <1>3 DEF Deletions, Rewritten

LEMMA ClaimWrites ==
  ASSUME Typed, NEW c \in Cleaners, ClaimDue(c)
  PROVE  Rewritten(Due, "processing")
<1>1. PICK n \in 0..MaxRequests : requests \in [1..n -> Requests]
  BY DEF Typed
<1>2. DOMAIN requests' = DOMAIN requests
  BY <1>1 DEF ClaimDue
<1>3. \A q \in DOMAIN requests : requests'[q].kind = requests[q].kind /\ requests'[q].person = requests[q].person
                                 /\ requests'[q].status = IF q \in Due THEN "processing" ELSE requests[q].status
  BY <1>1 DEF Requests, ClaimDue
<1> QED BY <1>2, <1>3 DEF Deletions, Rewritten

LEMMA AnswerWrites ==
  ASSUME Typed, NEW c \in Cleaners, InHand(c), work[c].step \in HoldSteps,
         NEW s \in {"completed", "blocked", "failed"}, Answer(c, s)
  PROVE  Rewritten({work[c].at}, s)
<1>1. work[c].at \in DOMAIN requests /\ s \in Statuses /\ FALSE \in BOOLEAN
  BY DEF InHand, Deletions, Statuses
<1> QED BY <1>1, StatusWritten DEF Answer

-----------------------------------------------------------------------------
(* One process at a time runs the job *)

LEMMA OthersIdle ==
  ASSUME OneRun, NEW c \in Cleaners, work[c].step # "idle", NEW d \in Cleaners \ {c}
  PROVE  work[d].step = "idle"
BY DEF OneRun

LEMMA OneRunStep == Typed /\ OneRun /\ ~LockMayDrop /\ [DeletionNext]_deletionVars => OneRun'
<1> SUFFICES ASSUME Typed, OneRun, ~LockMayDrop, [DeletionNext]_deletionVars PROVE OneRun'
  OBVIOUS
<1>1. CASE UNCHANGED <<work, lock>>
  BY <1>1 DEF OneRun
<1>2. ASSUME NEW c \in Cleaners, WorkStep(c) \/ Crash(c) \/ LockDrops(c) PROVE OneRun'
  <2>0. /\ work \in [Cleaners -> [step : WorkSteps, claimed : SUBSET (0..MaxRequests), at : 0..MaxRequests]]
        /\ Idle.step = "idle" /\ Nobody \notin Cleaners
    BY DeletionAssumption DEF Typed, Idle
  <2>1. CASE StartRun(c)
    <3>1. \A d \in Cleaners : work[d].step = "idle"
      BY <2>0, <2>1 DEF StartRun, runCronWithHeartbeat, OneRun
    <3> QED BY <2>0, <2>1, <3>1 DEF StartRun, Move, OneRun
  <2>2. ASSUME work[c].step # "idle", \A d \in Cleaners \ {c} : work'[d] = work[d],
               lock' = lock \/ (lock' = Nobody /\ work'[c] = Idle)
        PROVE  OneRun'
    BY <2>0, <2>2, OthersIdle DEF OneRun
  <2>3. CASE RecoverInterrupted(c) \/ ClaimDue(c) \/ NextRequest(c)
    BY <2>0, <2>2, <2>3 DEF RecoverInterrupted, ClaimDue, NextRequest, Move
  <2>4. CASE LookForBlockers(c) \/ Freeze(c) \/ LookAgain(c) \/ blockDeletion(c)
    BY <2>0, <2>2, <2>4 DEF LookForBlockers, Freeze, LookAgain, blockDeletion, GiveAccountBack, Move, At
  <2>5. CASE ObjectsDeleted(c) \/ StorageFails(c) \/ Erase(c) \/ failDeletion(c)
    BY <2>0, <2>2, <2>5 DEF ObjectsDeleted, StorageFails, Erase, failDeletion, Move, At
  <2>6. CASE Crash(c)
    BY <2>0, <2>2, <2>6 DEF Crash
  <2> QED BY <1>2, <2>1, <2>3, <2>4, <2>5, <2>6 DEF WorkStep, LockDrops
<1>3. CASE UNCHANGED deletionVars
  BY <1>1, <1>3 DEF deletionVars
<1>4. CASE PrivacyRoute
  BY <1>1, <1>4 DEF PrivacyRoute, requestAccountDeletion, buildMyDataExport, cancelAccountDeletion
<1>5. CASE PlatformRolesRoute
  BY <1>1, <1>5 DEF PlatformRolesRoute, requirePlatformRole, CheckRoleChange, CommitRoleChange
<1>6. ASSUME NEW p \in People, BusyChanges(p) \/ addGuardian(p) \/ BootstrapOwner(p) PROVE OneRun'
  BY <1>1, <1>6 DEF BusyChanges, addGuardian, BootstrapOwner
<1>7. ASSUME NEW r \in DOMAIN requests, HoursPass(r) PROVE OneRun'
  BY <1>1, <1>7 DEF HoursPass
<1> QED BY <1>2, <1>3, <1>4, <1>5, <1>6, <1>7 DEF DeletionNext
-----------------------------------------------------------------------------
(* What is settled stays settled *)

LEMMA RewritingSettles ==
  ASSUME NEW X, NEW s, Rewritten(X, s), \A q \in X \cap DOMAIN requests : requests[q].status \notin Settled
  PROVE  SettledStays
BY DEF Rewritten, SettledStays

LEMMA SameRequestsSettle ==
  ASSUME UNCHANGED requests
  PROVE  SettledStays
BY DEF SettledStays, Deletions

LEMMA SettledStep ==
  Typed /\ (\A c \in Cleaners : InHand(c)) /\ [DeletionNext]_deletionVars => SettledStays
<1> SUFFICES ASSUME Typed, \A c \in Cleaners : InHand(c), [DeletionNext]_deletionVars PROVE SettledStays
  OBVIOUS
<1>0. /\ \A r \in DOMAIN requests : requests[r] \in Requests
      /\ Deletions \subseteq DOMAIN requests
  BY TypedParts DEF Deletions
<1>1. CASE PrivacyRoute
  <2>1. ASSUME NEW p \in People, requestAccountDeletion(p) PROVE SettledStays
    <3>1. Added("delete", p, "scheduled")
      BY <2>1, RequestMade DEF requestAccountDeletion, Statuses
    <3>2. PICK m \in Nat \ DOMAIN requests :
            /\ Deletions' = Deletions \cup {m} /\ requests'[m].person = p
            /\ \A q \in DOMAIN requests : requests'[q] = requests[q]
      BY <3>1 DEF Added
    <3>3. \A r \in Deletions : requests[r].person = p => requests[r].status \in Settled
      BY <1>0, <2>1 DEF requestAccountDeletion, Requests, Statuses, Active, Settled
    <3> QED BY <1>0, <3>2, <3>3 DEF SettledStays
  <2>2. ASSUME NEW p \in People, buildMyDataExport(p) PROVE SettledStays
    <3>1. CASE Insert("export", p, "processing")
      <4>1. Added("export", p, "processing")
        BY <3>1, RequestMade DEF Statuses
      <4>2. Deletions' = Deletions /\ \A q \in DOMAIN requests : requests'[q] = requests[q]
        BY <4>1 DEF Added
      <4> QED BY <4>2 DEF SettledStays
    <3>2. ASSUME NEW r \in DOMAIN requests, NEW t \in {"completed", "failed"}, requests[r].status = "processing",
                 requests' = [requests EXCEPT ![r].status = t]
          PROVE  SettledStays
      <4>1. Rewritten({r}, t)
        BY <3>2, ExportWrites DEF Statuses
      <4> QED BY <3>2, <4>1, RewritingSettles DEF Settled
    <3> QED BY <2>2, <3>1, <3>2 DEF buildMyDataExport
  <2>3. ASSUME NEW r \in Deletions, cancelAccountDeletion(r) PROVE SettledStays
    <3>1. requests[r].status \notin Settled
      BY <2>3 DEF cancelAccountDeletion, Cancellable, Settled
    <3> QED BY <2>3, <3>1, CancelWrites, RewritingSettles
  <2> QED BY <1>1, <2>1, <2>2, <2>3 DEF PrivacyRoute
<1>2. CASE PlatformRolesRoute
  BY <1>2, SameRequestsSettle DEF PlatformRolesRoute, requirePlatformRole, CheckRoleChange, CommitRoleChange
<1>3. ASSUME NEW p \in People, BusyChanges(p) \/ addGuardian(p) \/ BootstrapOwner(p) PROVE SettledStays
  BY <1>3, SameRequestsSettle DEF BusyChanges, addGuardian, BootstrapOwner
<1>4. ASSUME NEW c \in Cleaners, WorkStep(c) \/ Crash(c) \/ LockDrops(c) PROVE SettledStays
  <2>1. CASE RecoverInterrupted(c)
    BY <2>1, RecoverWrites, RewritingSettles DEF Abandoned, Settled
  <2>2. CASE ClaimDue(c)
    BY <2>2, ClaimWrites, RewritingSettles DEF Due, Settled
  <2>3. ASSUME NEW s \in {"completed", "blocked", "failed"}, Answer(c, s), work[c].step \in HoldSteps PROVE SettledStays
    <3>1. requests[work[c].at].status \notin Settled
      BY <2>3 DEF InHand, Settled
    <3> QED BY <2>3, <3>1, AnswerWrites, RewritingSettles
  <2>4. CASE LookForBlockers(c) \/ blockDeletion(c) \/ Erase(c) \/ failDeletion(c)
    BY <2>3, <2>4, SameRequestsSettle DEF LookForBlockers, blockDeletion, Erase, failDeletion, At, HoldSteps
  <2>5. CASE StartRun(c) \/ NextRequest(c) \/ Freeze(c) \/ LookAgain(c) \/ ObjectsDeleted(c) \/ StorageFails(c)
    BY <2>5, SameRequestsSettle DEF StartRun, NextRequest, Freeze, LookAgain, ObjectsDeleted, StorageFails
  <2>6. CASE Crash(c) \/ LockDrops(c)
    BY <2>6, SameRequestsSettle DEF Crash, LockDrops
  <2> QED BY <1>4, <2>1, <2>2, <2>4, <2>5, <2>6 DEF WorkStep
<1>5. ASSUME NEW r \in DOMAIN requests, HoursPass(r) PROVE SettledStays
  BY <1>5, HoursWrite, RewritingSettles
<1>6. CASE UNCHANGED deletionVars
  BY <1>6, SameRequestsSettle DEF deletionVars
<1> QED BY <1>1, <1>2, <1>3, <1>4, <1>5, <1>6 DEF DeletionNext

LEMMA OneEachStep == OneDeletionEach /\ SettledStays => OneDeletionEach'
<1> SUFFICES ASSUME OneDeletionEach, SettledStays,
                    NEW r \in Deletions', NEW s \in Deletions', r # s, requests'[r].person = requests'[s].person
             PROVE  requests'[r].status \in Settled \/ requests'[s].status \in Settled
  BY DEF OneDeletionEach, Settled
<1>1. CASE r \in Deletions /\ s \in Deletions
  BY <1>1 DEF OneDeletionEach, SettledStays, Settled, Deletions
<1>2. CASE r \notin Deletions
  BY <1>2 DEF SettledStays
<1>3. CASE s \notin Deletions
  BY <1>3 DEF SettledStays
<1> QED BY <1>1, <1>2, <1>3
-----------------------------------------------------------------------------
(* What a process has in hand *)

LEMMA IdleKeeps ==
  ASSUME NEW d \in Cleaners, InHand(d), work[d].step = "idle", work'[d] = work[d]
  PROVE  InHand(d)'
BY DEF InHand, HoldSteps

LEMMA HandKeeps ==
  ASSUME NEW d \in Cleaners, InHand(d), UNCHANGED <<work, account>>, Deletions \subseteq Deletions',
         \A q \in Deletions : /\ requests'[q].person = requests[q].person
                              /\ requests[q].status = "processing" => requests'[q].status = "processing",
         \A p \in People : ~SoleGuardian(p) => ~SoleGuardian(p)',
         work[d].step \in HoldSteps => Person(d) \in People
  PROVE  InHand(d)'
<1>1. work[d].step \in HoldSteps => Person(d)' = Person(d) /\ work[d].at \in Deletions
  BY DEF InHand, Person
<1>2. {"checked", "emptied", "blocked"} \subseteq HoldSteps
  BY DEF HoldSteps
<1> QED BY <1>1, <1>2 DEF InHand

LEMMA PersonTyped ==
  ASSUME Typed, NEW d \in Cleaners, InHand(d), work[d].step \in HoldSteps
  PROVE  Person(d) \in People
BY TypedParts DEF InHand, Deletions, Requests, Person

\* The last two steps leave somebody else beside the person; others only join.
LEMMA GuardiansJoin ==
  ASSUME Typed, GuardianRemains, UNCHANGED account, NEW p \in People, ~SoleGuardian(p),
         \/ UNCHANGED guards
         \/ \E g \in People \ guards : guards' = guards \cup {g}
  PROVE  ~SoleGuardian(p)'
BY DEF SoleGuardian, GuardianRemains

LEMMA HandStep ==
  Typed /\ OneRun /\ GuardianRemains /\ (\A c \in Cleaners : InHand(c)) /\ [DeletionNext]_deletionVars
    => \A c \in Cleaners : InHand(c)'
<1> SUFFICES ASSUME Typed, OneRun, GuardianRemains, \A c \in Cleaners : InHand(c), [DeletionNext]_deletionVars,
                    NEW d \in Cleaners
             PROVE  InHand(d)'
  OBVIOUS
<1>0. /\ Deletions \subseteq DOMAIN requests
      /\ work \in [Cleaners -> [step : WorkSteps, claimed : SUBSET (0..MaxRequests), at : 0..MaxRequests]]
      /\ work[d].step \in HoldSteps => Person(d) \in People
  BY PersonTyped DEF Deletions, Typed
<1>1. ASSUME UNCHANGED <<work, account>>,
             UNCHANGED guards \/ \E g \in People \ guards : guards' = guards \cup {g},
             Deletions \subseteq Deletions',
             \A q \in Deletions : /\ requests'[q].person = requests[q].person
                                  /\ requests[q].status = "processing" => requests'[q].status = "processing"
      PROVE  InHand(d)'
  <2>1. \A p \in People : ~SoleGuardian(p) => ~SoleGuardian(p)'
    BY <1>1, GuardiansJoin
  <2> QED BY <1>0, <1>1, <2>1, HandKeeps
<1>2. CASE PrivacyRoute
  <2>1. UNCHANGED <<work, account, guards>>
    BY <1>2 DEF PrivacyRoute, requestAccountDeletion, buildMyDataExport, cancelAccountDeletion
  <2>2. ASSUME NEW p \in People, requestAccountDeletion(p) PROVE InHand(d)'
    <3>1. Added("delete", p, "scheduled")
      BY <2>2, RequestMade DEF requestAccountDeletion, Statuses
    <3> QED BY <1>0, <1>1, <2>1, <3>1 DEF Added
  <2>3. ASSUME NEW p \in People, buildMyDataExport(p) PROVE InHand(d)'
    <3>1. CASE Insert("export", p, "processing")
      <4>1. Added("export", p, "processing")
        BY <3>1, RequestMade DEF Statuses
      <4> QED BY <1>0, <1>1, <2>1, <4>1 DEF Added
    <3>2. ASSUME NEW r \in DOMAIN requests \ Deletions, NEW t \in {"completed", "failed"},
                 requests' = [requests EXCEPT ![r].status = t]
          PROVE  InHand(d)'
      <4>1. Rewritten({r}, t)
        BY <3>2, ExportWrites DEF Statuses
      <4> QED BY <1>0, <1>1, <2>1, <4>1, <3>2 DEF Rewritten
    <3> QED BY <2>3, <3>1, <3>2 DEF buildMyDataExport
  <2>4. ASSUME NEW r \in Deletions, cancelAccountDeletion(r) PROVE InHand(d)'
    <3>1. requests[r].status # "processing"
      BY <2>4 DEF cancelAccountDeletion, Cancellable
    <3>2. Rewritten({r}, "cancelled")
      BY <2>4, CancelWrites
    <3> QED BY <1>0, <1>1, <2>1, <3>1, <3>2 DEF Rewritten
  <2> QED BY <1>2, <2>2, <2>3, <2>4 DEF PrivacyRoute
<1>3. CASE PlatformRolesRoute
  <2>1. UNCHANGED <<work, account, guards, requests>>
    BY <1>3 DEF PlatformRolesRoute, requirePlatformRole, CheckRoleChange, CommitRoleChange
  <2> QED BY <1>1, <2>1 DEF Deletions
<1>4. ASSUME NEW p \in People, BusyChanges(p) \/ addGuardian(p) \/ BootstrapOwner(p) PROVE InHand(d)'
  <2>1. UNCHANGED <<work, account, requests>> /\ (UNCHANGED guards \/ \E g \in People \ guards : guards' = guards \cup {g})
    BY <1>4 DEF BusyChanges, addGuardian, BootstrapOwner
  <2> QED BY <1>1, <2>1 DEF Deletions
<1>5. ASSUME NEW c \in Cleaners, WorkStep(c) \/ Crash(c) \/ LockDrops(c) PROVE InHand(d)'
  <2>1. CASE StartRun(c)
    <3>1. CASE d = c
      <4>1. work'[d].step = "started" /\ work'[d].claimed = {}
        BY <1>0, <2>1, <3>1 DEF StartRun, Move, InHand
      <4> QED BY <4>1 DEF InHand, HoldSteps
    <3>2. CASE d # c
      <4>1. work'[d] = work[d] /\ UNCHANGED <<account, requests, guards>>
        BY <1>0, <2>1, <3>2 DEF StartRun, Move
      <4> QED BY <4>1 DEF InHand, Person, Deletions, SoleGuardian
    <3> QED BY <3>1, <3>2
  <2>2. ASSUME d # c, work[c].step # "idle", \A e \in Cleaners \ {c} : work'[e] = work[e] PROVE InHand(d)'
    BY <2>2, OthersIdle, IdleKeeps
  <2>3. CASE LockDrops(c)
    BY <1>1, <2>3 DEF LockDrops, Deletions
  <2>4. CASE ~StartRun(c) /\ ~LockDrops(c) /\ d # c
    <3>1. work[c].step # "idle"
      BY <1>5, <2>4 DEF WorkStep, RecoverInterrupted, ClaimDue, NextRequest, LookForBlockers, Freeze, LookAgain,
        blockDeletion, ObjectsDeleted, StorageFails, Erase, failDeletion, Crash, At
    <3>2. \A e \in Cleaners \ {c} : work'[e] = work[e]
      BY <1>0, <1>5, <2>4 DEF WorkStep, RecoverInterrupted, ClaimDue, NextRequest, LookForBlockers, Freeze, LookAgain,
        blockDeletion, GiveAccountBack, ObjectsDeleted, StorageFails, Erase, failDeletion, Crash, Move
    <3> QED BY <2>2, <2>4, <3>1, <3>2
  <2>5. CASE d = c /\ RecoverInterrupted(c)
    <3>1. work'[d].step = "recovered" /\ work'[d].claimed = {}
      BY <1>0, <2>5 DEF RecoverInterrupted, Move, InHand
    <3> QED BY <3>1 DEF InHand, HoldSteps
  <2>6. CASE d = c /\ ClaimDue(c)
    <3>1. work'[d].step = "next" /\ work'[d].claimed = Due
      BY <1>0, <2>6 DEF ClaimDue
    <3>2. Rewritten(Due, "processing")
      BY <2>6, ClaimWrites
    <3>3. Due \subseteq Deletions
      BY DEF Due
    <3> QED BY <1>0, <3>1, <3>2, <3>3 DEF InHand, HoldSteps, Rewritten
  <2>7. CASE d = c /\ NextRequest(c)
    <3>1. UNCHANGED <<account, requests>>
      BY <2>7 DEF NextRequest
    <3>2. ASSUME NEW r \in work[d].claimed, work'[d] = [step |-> "claimed", claimed |-> work[d].claimed \ {r}, at |-> r]
          PROVE  InHand(d)'
      BY <3>1, <3>2 DEF InHand, Deletions
    <3>3. CASE work'[d] = Idle
      BY <3>3 DEF InHand, Idle, HoldSteps
    <3> QED BY <1>0, <2>7, <3>2, <3>3 DEF NextRequest
  <2>8. ASSUME d = c, work[d].step \in HoldSteps, NEW s \in {"completed", "blocked", "failed"}, Answer(d, s), Move(d, "next")
        PROVE  InHand(d)'
    <3>1. Rewritten({work[d].at}, s)
      BY <2>8, AnswerWrites
    <3>2. work'[d].step = "next" /\ work'[d].claimed = work[d].claimed
      BY <1>0, <2>8 DEF Move
    <3>3. work[d].at \notin work[d].claimed /\ work[d].claimed \subseteq Deletions
      BY <2>8 DEF InHand
    <3> QED BY <1>0, <3>1, <3>2, <3>3 DEF InHand, Rewritten, HoldSteps
  <2>9. ASSUME d = c, work[d].step \in HoldSteps, NEW x \in HoldSteps, Move(d, x), UNCHANGED requests,
               x = "blocked" => account'[Person(d)] # "deleting",
               x \in {"checked", "emptied"} => ~SoleGuardian(Person(d))'
        PROVE  InHand(d)'
    <3>1. work'[d].step = x /\ work'[d].claimed = work[d].claimed /\ work'[d].at = work[d].at
      BY <1>0, <2>9 DEF Move
    <3>2. Person(d)' = Person(d) /\ Deletions' = Deletions
      BY <2>9, <3>1 DEF Person, Deletions
    <3>3. x \notin {"idle", "started", "recovered"}
      BY <2>9 DEF HoldSteps
    <3> QED BY <2>9, <3>1, <3>2, <3>3 DEF InHand, SoleGuardian
  <2>10. {"claimed", "clear", "frozen", "checked", "emptied", "blocking", "blocked", "failing"} = HoldSteps
    BY DEF HoldSteps
  <2>11. CASE d = c /\ LookForBlockers(c)
    BY <2>8, <2>9, <2>10, <2>11 DEF LookForBlockers, At
  <2>12. CASE d = c /\ Freeze(c)
    BY <2>9, <2>10, <2>12 DEF Freeze, At
  <2>13. CASE d = c /\ LookAgain(c)
    <3>0. Person(d)' = Person(d)
      BY <1>0, <2>13 DEF LookAgain, Move, Person
    <3>1. ~getAccountDeletionBlockers(Person(d)) => ~SoleGuardian(Person(d))'
      BY <2>13, <3>0 DEF LookAgain, getAccountDeletionBlockers, SoleGuardian
    <3> QED BY <2>9, <2>10, <2>13, <3>1 DEF LookAgain, At
  <2>14. CASE d = c /\ blockDeletion(c)
    <3>1. CASE At(c, "blocked")
      BY <2>8, <2>10, <2>14, <3>1 DEF blockDeletion, At
    <3>2. CASE At(c, "blocking")
      <4>1. Person(d) \in People
        BY <1>0, <2>10, <2>14, <3>2 DEF At
      <4>2. GiveAccountBack(d) /\ UNCHANGED requests
        BY <2>14, <3>2 DEF blockDeletion, At
      <4>3. account'[Person(d)] # "deleting"
        BY <4>1, <4>2 DEF GiveAccountBack, Typed
      <4> QED BY <2>9, <2>10, <2>14, <3>2, <4>2, <4>3 DEF GiveAccountBack, At
    <3> QED BY <2>14, <3>1, <3>2 DEF blockDeletion
  <2>15. CASE d = c /\ ObjectsDeleted(c)
    <3>0. Person(d)' = Person(d)
      BY <1>0, <2>15 DEF ObjectsDeleted, Move, Person
    <3>1. ~SoleGuardian(Person(d))'
      BY <2>15, <3>0 DEF ObjectsDeleted, InHand, At, SoleGuardian
    <3> QED BY <2>9, <2>10, <2>15, <3>1 DEF ObjectsDeleted, At
  <2>16. CASE d = c /\ StorageFails(c)
    BY <2>9, <2>10, <2>16 DEF StorageFails, At
  <2>17. CASE d = c /\ Erase(c)
    BY <2>8, <2>9, <2>10, <2>17 DEF Erase, At
  <2>18. CASE d = c /\ failDeletion(c)
    BY <2>8, <2>10, <2>18 DEF failDeletion, At
  <2>19. CASE d = c /\ Crash(c)
    <3>1. work'[d] = Idle
      BY <1>0, <2>19 DEF Crash
    <3> QED BY <3>1 DEF InHand, Idle, HoldSteps
  <2> QED BY <1>5, <2>1, <2>3, <2>4, <2>5, <2>6, <2>7, <2>11, <2>12, <2>13, <2>14, <2>15, <2>16, <2>17, <2>18, <2>19 DEF WorkStep
<1>6. ASSUME NEW r \in DOMAIN requests, HoursPass(r) PROVE InHand(d)'
  <2>1. Rewritten({}, "failed")
    BY <1>6, HoursWrite
  <2> QED BY <1>0, <1>1, <1>6, <2>1 DEF Rewritten, HoursPass
<1>7. CASE UNCHANGED deletionVars
  BY <1>1, <1>7 DEF deletionVars, Deletions
<1> QED BY <1>2, <1>3, <1>4, <1>5, <1>6, <1>7 DEF DeletionNext
-----------------------------------------------------------------------------
(* Nobody is locked out, and the minor keeps a guardian *)

\* A step that freezes nobody and leaves the requests of frozen people in the
\* hands of the job.
LEMMA FrozenKeeps ==
  ASSUME FrozenHasRequest, Deletions \subseteq Deletions',
         \A p \in People : account'[p] = "deleting" => account[p] = "deleting",
         \A q \in Deletions : /\ requests'[q].person = requests[q].person
                              /\ /\ account[requests[q].person] = "deleting"
                                 /\ account'[requests[q].person] = "deleting"
                                 /\ requests[q].status \in {"processing", "failed"}
                                 => requests'[q].status \in {"processing", "failed"}
  PROVE  FrozenHasRequest'
<1> SUFFICES ASSUME NEW p \in People, account'[p] = "deleting"
             PROVE  \E r \in Deletions' : requests'[r].person = p /\ requests'[r].status \in {"processing", "failed"}
  BY DEF FrozenHasRequest
<1>1. PICK r \in Deletions : requests[r].person = p /\ requests[r].status \in {"processing", "failed"}
  BY DEF FrozenHasRequest
<1> QED BY <1>1

LEMMA FrozenStep ==
  Typed /\ (\A c \in Cleaners : InHand(c)) /\ FrozenHasRequest /\ [DeletionNext]_deletionVars => FrozenHasRequest'
<1> SUFFICES ASSUME Typed, \A c \in Cleaners : InHand(c), FrozenHasRequest, [DeletionNext]_deletionVars
             PROVE  FrozenHasRequest'
  OBVIOUS
<1>0. /\ Deletions \subseteq DOMAIN requests
      /\ work \in [Cleaners -> [step : WorkSteps, claimed : SUBSET (0..MaxRequests), at : 0..MaxRequests]]
      /\ account \in [People -> {"active", "deleting", "erased"}]
      /\ \A q \in DOMAIN requests : requests[q].person \in People
  BY TypedParts DEF Deletions, Typed, Requests
<1>1. ASSUME UNCHANGED <<requests, account>> PROVE FrozenHasRequest'
  BY <1>1 DEF FrozenHasRequest, Deletions
<1>2. CASE PrivacyRoute
  <2>1. UNCHANGED account
    BY <1>2 DEF PrivacyRoute, requestAccountDeletion, buildMyDataExport, cancelAccountDeletion
  <2>2. ASSUME NEW p \in People, requestAccountDeletion(p) PROVE FrozenHasRequest'
    <3>1. Added("delete", p, "scheduled")
      BY <2>2, RequestMade DEF requestAccountDeletion, Statuses
    <3> QED BY <1>0, <2>1, <3>1, FrozenKeeps DEF Added
  <2>3. ASSUME NEW p \in People, buildMyDataExport(p) PROVE FrozenHasRequest'
    <3>1. CASE Insert("export", p, "processing")
      <4>1. Added("export", p, "processing")
        BY <3>1, RequestMade DEF Statuses
      <4> QED BY <1>0, <2>1, <4>1, FrozenKeeps DEF Added
    <3>2. ASSUME NEW r \in DOMAIN requests \ Deletions, NEW t \in {"completed", "failed"},
                 requests' = [requests EXCEPT ![r].status = t]
          PROVE  FrozenHasRequest'
      <4>1. Rewritten({r}, t)
        BY <3>2, ExportWrites DEF Statuses
      <4> QED BY <1>0, <2>1, <4>1, <3>2, FrozenKeeps DEF Rewritten
    <3> QED BY <2>3, <3>1, <3>2 DEF buildMyDataExport
  <2>4. ASSUME NEW r \in Deletions, cancelAccountDeletion(r) PROVE FrozenHasRequest'
    <3>1. account[requests[r].person] # "deleting"
      BY <2>4 DEF cancelAccountDeletion
    <3>2. Rewritten({r}, "cancelled")
      BY <2>4, CancelWrites
    <3> QED BY <1>0, <2>1, <3>1, <3>2, FrozenKeeps DEF Rewritten
  <2> QED BY <1>2, <2>2, <2>3, <2>4 DEF PrivacyRoute
<1>3. CASE PlatformRolesRoute
  BY <1>1, <1>3 DEF PlatformRolesRoute, requirePlatformRole, CheckRoleChange, CommitRoleChange
<1>4. ASSUME NEW p \in People, BusyChanges(p) \/ addGuardian(p) \/ BootstrapOwner(p) PROVE FrozenHasRequest'
  BY <1>1, <1>4 DEF BusyChanges, addGuardian, BootstrapOwner
<1>5. ASSUME NEW c \in Cleaners, WorkStep(c) \/ Crash(c) \/ LockDrops(c) PROVE FrozenHasRequest'
  <2>0. work[c].step \in HoldSteps => work[c].at \in Deletions /\ requests[work[c].at].status = "processing" /\ Person(c) \in People
    BY PersonTyped DEF InHand
  <2>1. {"claimed", "clear", "frozen", "checked", "emptied", "blocking", "blocked", "failing"} = HoldSteps
    BY DEF HoldSteps
  <2>2. CASE RecoverInterrupted(c)
    <3>1. Rewritten(Abandoned, "failed") /\ UNCHANGED account
      BY <2>2, RecoverWrites DEF RecoverInterrupted
    <3> QED BY <1>0, <3>1, FrozenKeeps DEF Rewritten
  <2>3. CASE ClaimDue(c)
    <3>1. Rewritten(Due, "processing") /\ UNCHANGED account
      BY <2>3, ClaimWrites DEF ClaimDue
    <3> QED BY <1>0, <3>1, FrozenKeeps DEF Rewritten
  <2>4. ASSUME work[c].step \in HoldSteps, NEW s \in {"completed", "blocked", "failed"}, Answer(c, s),
               s = "failed" \/ account'[Person(c)] # "deleting",
               \A p \in People : account'[p] = "deleting" => account[p] = "deleting"
        PROVE  FrozenHasRequest'
    <3>1. Rewritten({work[c].at}, s)
      BY <2>4, AnswerWrites
    <3> QED BY <1>0, <2>4, <3>1, FrozenKeeps DEF Rewritten, Person
  <2>5. CASE LookForBlockers(c)
    BY <1>1, <2>0, <2>1, <2>4, <2>5 DEF LookForBlockers, At
  <2>6. CASE Freeze(c)
    <3>1. CASE UNCHANGED account
      BY <1>1, <2>6, <3>1 DEF Freeze
    <3>2. CASE account' = [account EXCEPT ![Person(c)] = "deleting"]
      <4>1. work[c].at \in Deletions /\ requests[work[c].at].status = "processing" /\ requests[work[c].at].person = Person(c)
        BY <2>0, <2>1, <2>6 DEF Freeze, At, Person
      <4>2. UNCHANGED requests /\ Deletions' = Deletions
        BY <2>6 DEF Freeze, Deletions
      <4>3. \A p \in People \ {Person(c)} : account'[p] = account[p]
        BY <1>0, <3>2
      <4> QED BY <4>1, <4>2, <4>3 DEF FrozenHasRequest
    <3> QED BY <2>6, <3>1, <3>2 DEF Freeze
  <2>7. CASE blockDeletion(c)
    <3>1. CASE At(c, "blocked")
      <4>1. account[Person(c)] # "deleting"
        BY <3>1 DEF InHand, At
      <4>2. Answer(c, "blocked") /\ UNCHANGED account
        BY <2>7, <3>1 DEF blockDeletion, At
      <4> QED BY <2>1, <2>4, <3>1, <4>1, <4>2 DEF At
    <3>2. CASE At(c, "blocking")
      <4>1. UNCHANGED requests /\ GiveAccountBack(c)
        BY <2>7, <3>2 DEF blockDeletion, At
      <4>2. \A p \in People : account'[p] = "deleting" => account[p] = "deleting"
        BY <1>0, <4>1 DEF GiveAccountBack
      <4> QED BY <4>1, <4>2, FrozenKeeps DEF Deletions
    <3> QED BY <2>7, <3>1, <3>2 DEF blockDeletion
  <2>8. CASE Erase(c)
    <3>1. CASE UNCHANGED <<account, requests>>
      BY <1>1, <3>1
    <3>2. CASE account' = [account EXCEPT ![Person(c)] = "erased"] /\ Answer(c, "completed")
      <4>1. account'[Person(c)] = "erased" /\ \A p \in People : account'[p] = "deleting" => account[p] = "deleting"
        BY <1>0, <2>0, <2>1, <2>8, <3>2 DEF Erase, At
      <4> QED BY <2>1, <2>4, <2>8, <3>2, <4>1 DEF Erase, At
    <3> QED BY <2>8, <3>1, <3>2 DEF Erase
  <2>9. CASE failDeletion(c)
    BY <2>1, <2>4, <2>9 DEF failDeletion, At
  <2>10. CASE StartRun(c) \/ NextRequest(c) \/ LookAgain(c) \/ ObjectsDeleted(c) \/ StorageFails(c) \/ Crash(c) \/ LockDrops(c)
    BY <1>1, <2>10 DEF StartRun, NextRequest, LookAgain, ObjectsDeleted, StorageFails, Crash, LockDrops
  <2> QED BY <1>5, <2>2, <2>3, <2>5, <2>6, <2>7, <2>8, <2>9, <2>10 DEF WorkStep
<1>6. ASSUME NEW r \in DOMAIN requests, HoursPass(r) PROVE FrozenHasRequest'
  <2>1. Rewritten({}, "failed") /\ UNCHANGED account
    BY <1>6, HoursWrite DEF HoursPass
  <2> QED BY <1>0, <2>1, FrozenKeeps DEF Rewritten
<1>7. CASE UNCHANGED deletionVars
  BY <1>1, <1>7 DEF deletionVars
<1> QED BY <1>2, <1>3, <1>4, <1>5, <1>6, <1>7 DEF DeletionNext

LEMMA GuardianStep ==
  Typed /\ (\A c \in Cleaners : InHand(c)) /\ GuardianRemains /\ [DeletionNext]_deletionVars => GuardianRemains'
<1> SUFFICES ASSUME Typed, \A c \in Cleaners : InHand(c), GuardianRemains, [DeletionNext]_deletionVars
             PROVE  GuardianRemains'
  OBVIOUS
<1>0. account \in [People -> {"active", "deleting", "erased"}] /\ guards \subseteq People
  BY DEF Typed
<1>1. ASSUME guards \subseteq guards', \A p \in People : account'[p] = "erased" => account[p] = "erased"
      PROVE  GuardianRemains'
  BY <1>0, <1>1 DEF GuardianRemains
<1>2. ASSUME NEW c \in Cleaners, Erase(c) PROVE GuardianRemains'
  <2>1. Person(c) \in People /\ ~SoleGuardian(Person(c))
    <3>1. work[c].step \in HoldSteps /\ work[c].step \in {"checked", "emptied"}
      BY <1>2 DEF Erase, At, HoldSteps
    <3> QED BY <3>1, PersonTyped DEF InHand
  <2>2. CASE UNCHANGED <<account, guards>>
    BY <1>1, <2>2
  <2>3. CASE account' = [account EXCEPT ![Person(c)] = "erased"] /\ guards' = guards \ {Person(c)}
    <3>1. \E q \in guards \ {Person(c)} : account[q] # "erased"
      BY <2>1 DEF SoleGuardian, GuardianRemains
    <3> QED BY <1>0, <2>3, <3>1 DEF GuardianRemains
  <2> QED BY <1>2, <2>2, <2>3 DEF Erase
<1>3. ASSUME NEW c \in Cleaners, Freeze(c) \/ blockDeletion(c) PROVE GuardianRemains'
  <2>1. UNCHANGED guards /\ \A p \in People : account'[p] = "erased" => account[p] = "erased"
    BY <1>0, <1>3 DEF Freeze, blockDeletion, GiveAccountBack
  <2> QED BY <1>1, <2>1
<1>4. ASSUME NEW c \in Cleaners, WorkStep(c) \/ Crash(c) \/ LockDrops(c) PROVE GuardianRemains'
  BY <1>1, <1>2, <1>3, <1>4 DEF WorkStep, StartRun, RecoverInterrupted, ClaimDue, NextRequest, LookForBlockers, LookAgain,
    ObjectsDeleted, StorageFails, failDeletion, Crash, LockDrops
<1>5. CASE PrivacyRoute \/ PlatformRolesRoute
  BY <1>1, <1>5 DEF PrivacyRoute, requestAccountDeletion, buildMyDataExport, cancelAccountDeletion,
    PlatformRolesRoute, requirePlatformRole, CheckRoleChange, CommitRoleChange
<1>6. ASSUME NEW p \in People, BusyChanges(p) \/ addGuardian(p) \/ BootstrapOwner(p) PROVE GuardianRemains'
  BY <1>1, <1>6 DEF BusyChanges, addGuardian, BootstrapOwner
<1>7. ASSUME NEW r \in DOMAIN requests, HoursPass(r) PROVE GuardianRemains'
  BY <1>1, <1>7 DEF HoursPass
<1>8. CASE UNCHANGED deletionVars
  BY <1>1, <1>8 DEF deletionVars
<1> QED BY <1>4, <1>5, <1>6, <1>7, <1>8 DEF DeletionNext
-----------------------------------------------------------------------------
(* Changes of roles: one transaction at a time, and a role is only taken while *)
(* somebody else has it.                                                       *)

RolesInv ==
  /\ owns # {}
  /\ \A t, u \in change : t = u
  /\ \A t \in change : ~t.grant /\ t.target \in owns => owns \ {t.target} # {}

LEMMA RolesInit == DeletionInit => RolesInv
BY DEF DeletionInit, RolesInv, NoChange

LEMMA RolesStep == RolesInv /\ [DeletionNext]_deletionVars => RolesInv'
<1> SUFFICES ASSUME RolesInv, [DeletionNext]_deletionVars PROVE RolesInv'
  OBVIOUS
<1>1. CASE UNCHANGED <<owns, change>>
  BY <1>1 DEF RolesInv
<1>2. ASSUME NEW op \in People, NEW target \in People, NEW grant \in BOOLEAN, requirePlatformRole(op, target, grant)
      PROVE  RolesInv'
  BY <1>1, <1>2 DEF requirePlatformRole
<1>3. ASSUME NEW t, CheckRoleChange(t) PROVE RolesInv'
  <2>1. ~t.grant /\ t.target \in owns => owns \ {t.target} # {}
    BY <1>3 DEF CheckRoleChange, platformRoleChangeError
  <2> QED BY <1>3, <2>1 DEF CheckRoleChange, RolesInv
<1>4. ASSUME NEW t, CommitRoleChange(t) PROVE RolesInv'
  <2>1. owns' # {}
    BY <1>4 DEF CommitRoleChange, RolesInv
  <2> QED BY <1>4, <2>1 DEF CommitRoleChange, RolesInv, NoChange
<1>5. CASE PlatformRolesRoute
  BY <1>2, <1>3, <1>4, <1>5 DEF PlatformRolesRoute
<1>6. CASE PrivacyRoute
  BY <1>1, <1>6 DEF PrivacyRoute, requestAccountDeletion, buildMyDataExport, cancelAccountDeletion, roles
<1>7. ASSUME NEW p \in People, BusyChanges(p) \/ addGuardian(p) \/ BootstrapOwner(p) PROVE RolesInv'
  <2>1. CASE BootstrapOwner(p)
    BY <2>1 DEF BootstrapOwner, RolesInv
  <2> QED BY <1>1, <1>7, <2>1 DEF BusyChanges, addGuardian, roles
<1>8. ASSUME NEW c \in Cleaners, WorkStep(c) \/ Crash(c) \/ LockDrops(c) PROVE RolesInv'
  BY <1>1, <1>8 DEF WorkStep, StartRun, RecoverInterrupted, ClaimDue, NextRequest, LookForBlockers, Freeze, LookAgain,
    blockDeletion, ObjectsDeleted, StorageFails, Erase, failDeletion, Crash, LockDrops, roles
<1>9. ASSUME NEW r \in DOMAIN requests, HoursPass(r) PROVE RolesInv'
  BY <1>1, <1>9 DEF HoursPass, roles
<1>10. CASE UNCHANGED deletionVars
  BY <1>1, <1>10 DEF deletionVars
<1> QED BY <1>5, <1>6, <1>7, <1>8, <1>9, <1>10 DEF DeletionNext

-----------------------------------------------------------------------------
(* The theorems *)

LEMMA JobInvStep == JobInv /\ ~LockMayDrop /\ [DeletionNext]_deletionVars => JobInv'
<1> SUFFICES ASSUME JobInv, ~LockMayDrop, [DeletionNext]_deletionVars PROVE JobInv'
  OBVIOUS
<1>1. Typed /\ OneRun /\ (\A c \in Cleaners : InHand(c)) /\ OneDeletionEach /\ FrozenHasRequest /\ GuardianRemains
  BY DEF JobInv
<1>2. Typed' /\ OneRun'
  BY <1>1, TypedStep, OneRunStep
<1>3. (\A c \in Cleaners : InHand(c))'
  BY <1>1, HandStep
<1>4. OneDeletionEach'
  BY <1>1, SettledStep, OneEachStep
<1>5. FrozenHasRequest' /\ GuardianRemains'
  BY <1>1, FrozenStep, GuardianStep
<1> QED BY <1>2, <1>3, <1>4, <1>5 DEF JobInv

\* Everything the properties below need, as long as the job keeps its lock.
THEOREM JobInvariant == ASSUME ~LockMayDrop PROVE DeletionSpec => []JobInv
<1>1. JobInv /\ [DeletionNext]_deletionVars => JobInv'
  BY JobInvStep
<1> QED BY <1>1, JobInvInit, PTL DEF DeletionSpec

\* However many owners change each other's roles at the same time, the platform
\* keeps an owner; this needs no lock of the job (api/admin/platform-roles).
THEOREM OwnerCorrect == DeletionSpec => []RolesKeepOwner
<1>1. RolesInv => RolesKeepOwner
  BY DEF RolesInv, RolesKeepOwner
<1> QED BY <1>1, RolesInit, RolesStep, PTL DEF DeletionSpec

\* With it: the minor keeps a guardian, whoever deletes an account at the same
\* time, because the second look is still true when the rows are erased
\* (lib/privacy-maintenance.ts, processAccountDeletions).
THEOREM SomebodyCorrect == ASSUME ~LockMayDrop PROVE DeletionSpec => []SomebodyRemains
<1>1. JobInv /\ RolesKeepOwner => SomebodyRemains
  BY DEF JobInv, SomebodyRemains
<1> QED BY <1>1, JobInvariant, OwnerCorrect, PTL

\* A frozen account always belongs to a deletion that is in hand or failed, and
\* the job takes those up again.
THEOREM FrozenCorrect == ASSUME ~LockMayDrop PROVE DeletionSpec => []FrozenHasRequest
<1>1. JobInv => FrozenHasRequest
  BY DEF JobInv
<1> QED BY <1>1, JobInvariant, PTL

\* Rows keep their types, and nobody has two deletions under way, whichever of
\* them failed, was blocked or recovered in between.
THEOREM DeletionsTyped == ASSUME ~LockMayDrop PROVE DeletionSpec => []DeletionTypeOK
<1>1. JobInv => DeletionTypeOK
  <2> SUFFICES ASSUME JobInv PROVE DeletionTypeOK
    OBVIOUS
  <2>1. Typed /\ OneDeletionEach
    BY DEF JobInv
  <2>2. PICK n \in 0..MaxRequests : requests \in [1..n -> Requests]
    BY <2>1 DEF Typed
  <2>3. DOMAIN requests \in {1..k : k \in 0..MaxRequests}
    BY <2>2
  <2>4. \A c \in Cleaners : work[c].claimed \cup {work[c].at} \subseteq 0..MaxRequests
    BY <2>1 DEF Typed
  <2> QED BY <2>1, <2>2, <2>3, <2>4 DEF Typed, OneDeletionEach, DeletionTypeOK
<1> QED BY <1>1, JobInvariant, PTL

\* A deletion that was cancelled stays cancelled: whatever a run of the job
\* writes goes to a request it holds, and what it holds cannot be cancelled.
THEOREM CancelCorrect == ASSUME ~LockMayDrop PROVE DeletionSpec => CancelledStays
<1>1. JobInv /\ [DeletionNext]_deletionVars =>
        [\A r \in DOMAIN requests : requests[r].status = "cancelled" => requests'[r].status = "cancelled"]_deletionVars
  BY SettledStep DEF JobInv, SettledStays, Settled
<1> QED BY <1>1, JobInvariant, PTL DEF DeletionSpec, CancelledStays

-----------------------------------------------------------------------------
(* Credential documents.  That an approval is of the document the           *)
(* requirement has is inductive once rows are typed; that only reviews      *)
(* admit follows step by step.                                              *)

VaultInv == VaultTypeOK /\ ApprovalIsOfItsDocument /\ reviews \in Nat

LEMMA DeletedRow == ASSUME NEW row \in DocRows PROVE Deleted(row) \in DocRows
BY DEF Deleted, DocRows

\* Taking documents away from the requirement takes its approval away too.
LEMMA UnlinkedRow ==
  ASSUME NEW D, VaultInv
  PROVE  /\ Unlinked(D) \in ReqRows
         /\ Unlinked(D).status = "not_submitted" => Unlinked(D).doc = NoDoc
         /\ Unlinked(D) = req \/ Unlinked(D).status = "not_submitted"
         /\ Unlinked(D).expires = req.expires
BY DEF Unlinked, VaultInv, VaultTypeOK, ReqRows

\* What no step but an answer of the organization may do.
Admits == ~driverIsEligible /\ driverIsEligible'

LEMMA VaultInitOK == VaultInit => VaultInv
BY VaultAssumption DEF VaultInit, VaultInv, VaultTypeOK, ApprovalIsOfItsDocument, Absent, DocRows, ReqRows, Dates

\* The driver's own requests.
LEMMA CredentialsStep ==
  ASSUME VaultInv, NEW d \in Docs, CredentialsRoute(d)
  PROVE  VaultInv' /\ ~Admits
<1> USE DEF VaultInv, VaultTypeOK, ApprovalIsOfItsDocument, Admits, driverIsEligible, history, files
<1> DEFINE Same == UNCHANGED <<req, approved, reviews>>
<1>0. Same => ~Admits /\ ApprovalIsOfItsDocument' /\ req' \in ReqRows /\ reviews' \in Nat
              /\ (req'.status = "not_submitted" => req'.doc = NoDoc)
  OBVIOUS
<1>1. ASSUME NEW s \in {"absent", "pending_upload", "uploaded", "processing", "ready", "deleted"}, Update(d, s)
      PROVE  docs' \in [Docs -> DocRows]
  BY <1>1 DEF Update, DocRows
<1>2. CASE createCredentialUpload(d)
  BY <1>0, <1>1, <1>2 DEF createCredentialUpload
<1>3. CASE headPrivateObject(d)
  BY <1>0, <1>3 DEF headPrivateObject, Begin, Steps
<1>4. CASE finalizeCredentialUpload(d)
  <2>1. docs' \in [Docs -> DocRows]
    BY <1>4 DEF finalizeCredentialUpload, DocRows
  <2> QED BY <1>0, <1>4, <2>1 DEF finalizeCredentialUpload, End
<1>5. CASE processMyCredential(d)
  BY <1>0, <1>5 DEF processMyCredential, Begin, Steps
<1>6. CASE MarkProcessing(d)
  BY <1>0, <1>1, <1>6 DEF MarkProcessing, Go, Steps
<1>7. CASE AnalysisFails(d)
  BY <1>0, <1>1, <1>7 DEF AnalysisFails, End
<1>8. CASE AnalysisSucceeds(d)
  <2>1. docs' \in [Docs -> DocRows]
    BY <1>1, <1>8 DEF AnalysisSucceeds, DocRows
  <2> QED BY <1>0, <1>8, <2>1 DEF AnalysisSucceeds, Go, Steps
<1>9. CASE LinkRequirement(d)
  BY <1>9 DEF LinkRequirement, Linked, End, ReqRows
<1>10. CASE deleteMyCredential(d)
  <2>1. docs' \in [Docs -> DocRows]
    <3>1. docs[d] \in DocRows
      OBVIOUS
    <3>2. Deleted(docs[d]) \in DocRows
      BY <3>1, DeletedRow
    <3>3. docs' = [docs EXCEPT ![d] = Deleted(docs[d])]
      BY <1>10 DEF deleteMyCredential
    <3> QED BY <3>2, <3>3
  <2>2. /\ req' \in ReqRows /\ (req'.status = "not_submitted" => req'.doc = NoDoc)
        /\ req' = req \/ req'.status = "not_submitted"
    <3>1. CASE req.doc = d
      <4>1. Unlinked({d}) = [req EXCEPT !.status = "not_submitted", !.doc = NoDoc]
        BY <3>1 DEF Unlinked
      <4>2. req' = [[req EXCEPT !.status = "not_submitted", !.doc = NoDoc] EXCEPT !.expires = "none"]
        BY <1>10, <3>1, <4>1 DEF deleteMyCredential
      <4> QED BY <4>2 DEF ReqRows, Dates
    <3>2. CASE req.doc # d
      BY <1>10, <3>2 DEF deleteMyCredential
    <3> QED BY <3>1, <3>2
  <2>3. doing' \subseteq Docs \X Steps
    BY <1>10 DEF deleteMyCredential, Begin, Steps
  <2>4. UNCHANGED <<objects, links, approved, reviews>>
    BY <1>10 DEF deleteMyCredential
  <2> QED BY <2>1, <2>2, <2>3, <2>4
<1>11. CASE deletePrivateObject(d, "delete_object", "note_deleted")
  BY <1>0, <1>11 DEF deletePrivateObject, Go, End, Steps
<1>12. CASE NoteDeleted(d, "note_deleted")
  <2>1. docs' \in [Docs -> DocRows]
    BY <1>12 DEF NoteDeleted, DocRows
  <2> QED BY <1>0, <1>12, <2>1 DEF NoteDeleted, End
<1> QED
  BY <1>2, <1>3, <1>4, <1>5, <1>6, <1>7, <1>8, <1>9, <1>10, <1>11, <1>12 DEF CredentialsRoute

\* The jobs, the bucket and the passing of days.
LEMMA VaultJobsStep ==
  ASSUME VaultInv,
         \/ \E d \in Docs : PurgeStep(d) \/ PutObject(d) \/ LinkExpires(d)
         \/ scheduleExpiredCredentialDeletion \/ processCredentialExpirations \/ DaysPass \/ RequestDies
  PROVE  VaultInv' /\ ~Admits
<1> USE DEF VaultInv, VaultTypeOK, ApprovalIsOfItsDocument, Admits, driverIsEligible, history, files
<1> DEFINE Same == UNCHANGED <<req, approved, reviews>>
<1>0. Same => ~Admits /\ ApprovalIsOfItsDocument' /\ req' \in ReqRows /\ reviews' \in Nat
              /\ (req'.status = "not_submitted" => req'.doc = NoDoc)
  OBVIOUS
<1>1. ASSUME NEW d \in Docs, purgeDocumentObjects(d) PROVE VaultInv' /\ ~Admits
  BY <1>0, <1>1 DEF purgeDocumentObjects, Steps
<1>2. ASSUME NEW d \in Docs, deletePrivateObject(d, "purge", "purged") PROVE VaultInv' /\ ~Admits
  BY <1>0, <1>2 DEF deletePrivateObject, Go, End, Steps
<1>3. ASSUME NEW d \in Docs, NoteDeleted(d, "purged") PROVE VaultInv' /\ ~Admits
  <2>1. docs' \in [Docs -> DocRows]
    BY <1>3 DEF NoteDeleted, DocRows
  <2> QED BY <1>0, <1>3, <2>1 DEF NoteDeleted, End
<1>4. ASSUME NEW d \in Docs, PutObject(d) \/ LinkExpires(d) PROVE VaultInv' /\ ~Admits
  BY <1>0, <1>4 DEF PutObject, LinkExpires
<1>5. CASE scheduleExpiredCredentialDeletion
  <2>1. docs' \in [Docs -> DocRows]
    BY <1>5, DeletedRow DEF scheduleExpiredCredentialDeletion
  <2>2. /\ req' \in ReqRows /\ (req'.status = "not_submitted" => req'.doc = NoDoc)
        /\ req' = req \/ req'.status = "not_submitted"
    BY <1>5, UnlinkedRow DEF scheduleExpiredCredentialDeletion
  <2> QED BY <1>5, <2>1, <2>2 DEF scheduleExpiredCredentialDeletion
<1>6. CASE processCredentialExpirations
  BY <1>6 DEF processCredentialExpirations, ReqRows
<1>7. CASE DaysPass
  <2>1. docs' \in [Docs -> DocRows]
    BY <1>7 DEF DaysPass, DocRows
  <2>2. /\ req' \in ReqRows /\ req'.status = req.status /\ req'.doc = req.doc
        /\ req.expires = "past" => req'.expires = "past"
    BY <1>7 DEF DaysPass, ReqRows, Dates
  <2> QED BY <1>7, <2>1, <2>2 DEF DaysPass
<1>8. CASE RequestDies
  BY <1>0, <1>8 DEF RequestDies
<1> QED
  BY <1>1, <1>2, <1>3, <1>4, <1>5, <1>6, <1>7, <1>8 DEF PurgeStep

\* The organization.
LEMMA OperationsStep ==
  ASSUME VaultInv, OperationsRoute
  PROVE  VaultInv' /\ OnlyReviewsAdmit
<1> USE DEF VaultInv, VaultTypeOK, ApprovalIsOfItsDocument, OnlyReviewsAdmit, driverIsEligible, history, files
<1>1. ASSUME NEW s \in {"verified", "rejected"}, NEW e \in {"none", "future"}, reviewDriverRequirement(s, e)
      PROVE  VaultInv' /\ OnlyReviewsAdmit
  <2>1. req' \in ReqRows /\ req'.status = s /\ req'.doc = req.doc
    BY <1>1 DEF reviewDriverRequirement, ReqRows, Dates
  <2>2. reviews' > reviews /\ reviews' \in Nat
    BY <1>1 DEF reviewDriverRequirement
  <2> QED BY <1>1, <2>1, <2>2 DEF reviewDriverRequirement
<1>2. CASE updateDriverRequirements
  BY <1>2 DEF updateDriverRequirements
<1> QED BY <1>1, <1>2 DEF OperationsRoute

\* Nobody drives on an answer that was not given: a requirement is verified
\* only for the document it had when the organization answered, and a driver
\* the database refuses is admitted by an answer alone, for any number of
\* documents, requests under way and crashes between their steps.
THEOREM ApprovalCorrect == VaultSpec => ApprovalIsEarned
<1>1. VaultInit => VaultInv
  BY VaultInitOK
<1>2. VaultInv /\ [VaultNext]_vaultVars => VaultInv' /\ (OnlyReviewsAdmit \/ UNCHANGED vaultVars)
  <2> SUFFICES ASSUME VaultInv, [VaultNext]_vaultVars
               PROVE  VaultInv' /\ (OnlyReviewsAdmit \/ UNCHANGED vaultVars)
    OBVIOUS
  <2>1. CASE UNCHANGED vaultVars
    BY <2>1 DEF vaultVars, files, history, VaultInv, VaultTypeOK, ApprovalIsOfItsDocument
  <2>2. ASSUME NEW d \in Docs, CredentialsRoute(d) PROVE VaultInv' /\ OnlyReviewsAdmit
    BY <2>2, CredentialsStep DEF Admits, OnlyReviewsAdmit
  <2>3. CASE OperationsRoute
    BY <2>3, OperationsStep
  <2>4. CASE \/ \E d \in Docs : PurgeStep(d) \/ PutObject(d) \/ LinkExpires(d)
             \/ scheduleExpiredCredentialDeletion \/ processCredentialExpirations \/ DaysPass \/ RequestDies
    BY <2>4, VaultJobsStep DEF Admits, OnlyReviewsAdmit
  <2> QED BY <2>1, <2>2, <2>3, <2>4 DEF VaultNext
<1>3. VaultInv' => ApprovalIsOfItsDocument'
  BY DEF VaultInv
<1> QED BY <1>1, <1>2, <1>3, PTL DEF VaultSpec, ApprovalIsEarned
=============================================================================

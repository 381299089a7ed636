---------------------------- MODULE AccountDeletion ----------------------------
(***************************************************************************)
(* The deletion of accounts on request (lib/privacy.ts), carried out by an *)
(* hourly job (lib/privacy-maintenance.ts) under the lock every scheduled  *)
(* job takes (lib/cron-health.ts), and the platform roles that a deletion  *)
(* must not leave without an owner (api/admin/platform-roles).             *)
(*                                                                         *)
(* A deletion is not one transaction: the worker claims the request, looks *)
(* for blockers, freezes the account, looks again, empties the object      *)
(* storage and erases the rows.  It may die between any two of these.      *)
(* Of the blockers, "busy" stands for rides, requests and safety alerts;   *)
(* the sole manager of a household is like the sole guardian of a minor.   *)
(***************************************************************************)
EXTENDS Naturals, FiniteSets

CONSTANTS
  People,        \* persons with an account
  Cleaners,      \* processes that may run the hourly job
  Nobody,        \* no process holds the lock
  LockMayDrop,   \* whether the lock's connection can be lost while its job runs on
  MaxRequests,   \* bound: deletion requests ever made
  MaxCalls,      \* bound: role changes under way
  MaxCrashes,    \* bound: processes that die
  MaxBusy        \* bound: changes of "busy"

ASSUME DeletionAssumption ==
  /\ MaxRequests \in Nat /\ MaxCalls \in Nat /\ MaxCrashes \in Nat /\ MaxBusy \in Nat
  /\ LockMayDrop \in BOOLEAN /\ Nobody \notin Cleaners

VARIABLES
  account,    \* user_accounts.status, "erased" when the row is gone
  owns,       \* accounts with platform_role owner, erased ones included
  guards,     \* profile-managing guardians of one minor
  busy,       \* people with an active ride, an open request or an open alert
  requests,   \* privacy_requests, of type delete_account and export
  lock,       \* who holds the advisory lock of the job
  work,       \* where each process is in its run of the job
  calls,      \* role changes whose operator has been checked
  change,     \* the open transaction of a role change, or none
  crashes, flips  \* how often processes died, and "busy" changed

deletionVars == <<account, owns, guards, busy, requests, lock, work, calls, change, crashes, flips>>
roles == <<owns, calls, change>>
counts == <<crashes, flips>>

Statuses == {"scheduled", "processing", "blocked", "failed", "completed", "cancelled"}
Active == {"scheduled", "processing", "blocked", "failed"}
\* "due": scheduled_for has come or, while processing, an hour has passed.
Requests == [kind : {"delete", "export"}, person : People, status : Statuses, due : BOOLEAN]
Deletions == {r \in DOMAIN requests : requests[r].kind = "delete"}
RoleChanges == [op : People, target : People, grant : BOOLEAN]
NoChange == {}
Idle == [step |-> "idle", claimed |-> {}, at |-> 0]

DeletionInit ==
  /\ account = [p \in People |-> "active"] /\ owns \in (SUBSET People) \ {{}}
  /\ guards \in (SUBSET People) \ {{}} /\ busy = {}
  /\ requests = <<>>
  /\ lock = Nobody /\ work = [c \in Cleaners |-> Idle]
  /\ calls = {} /\ change = NoChange /\ crashes = 0 /\ flips = 0

-----------------------------------------------------------------------------
(* What people ask for *)

\* Erased people are no longer active; frozen ones still are.
SoleGuardian(p) == p \in guards /\ \A q \in guards \ {p} : account[q] = "erased"
LastOwner(p) == p \in owns /\ \A q \in owns \ {p} : account[q] # "active"

getAccountDeletionBlockersBug(p) == p \in busy \/ LastOwner(p)
getAccountDeletionBlockers(p) == p \in busy \/ SoleGuardian(p) \/ LastOwner(p)

Insert(kind, p, status) ==
  /\ Cardinality(DOMAIN requests) < MaxRequests
  /\ requests' = [r \in 1..(Cardinality(DOMAIN requests) + 1) |->
       IF r \in DOMAIN requests THEN requests[r]
       ELSE [kind |-> kind, person |-> p, status |-> status, due |-> FALSE]]

requestAccountDeletion(p) ==
  /\ account[p] = "active" /\ ~getAccountDeletionBlockers(p)
  /\ \A r \in Deletions : requests[r].person = p => requests[r].status \notin Active
  /\ Insert("delete", p, "scheduled")
  /\ UNCHANGED <<account, roles, guards, busy, lock, work, counts>>

CancellableBug == Active
Cancellable == {"scheduled", "blocked", "failed"}
\* Who cancels is signed in, so the account is not frozen.
cancelAccountDeletion(r) ==
  /\ account[requests[r].person] = "active"
  /\ requests[r].status \in Cancellable
  /\ requests' = [requests EXCEPT ![r].status = "cancelled", ![r].due = FALSE]
  /\ UNCHANGED <<account, roles, guards, busy, lock, work, counts>>

\* The reads of an export are statements of their own; a process that dies
\* leaves the request processing, and nothing takes it up again.
buildMyDataExport(p) ==
  /\ \/ account[p] = "active" /\ Insert("export", p, "processing")
     \/ \E r \in DOMAIN requests \ Deletions, s \in {"completed", "failed"} :
          /\ requests[r].person = p /\ requests[r].status = "processing"
          /\ requests' = [requests EXCEPT ![r].status = s]
  /\ UNCHANGED <<account, roles, guards, busy, lock, work, counts>>

\* Other people end rides and begin them, whatever becomes of the account.
BusyChanges(p) ==
  /\ account[p] # "erased" /\ flips < MaxBusy /\ flips' = flips + 1
  /\ busy' = IF p \in busy THEN busy \ {p} ELSE busy \cup {p}
  /\ UNCHANGED <<account, roles, guards, requests, lock, work, crashes>>

addGuardian(p) ==
  /\ account[p] # "erased" /\ p \notin guards /\ guards' = guards \cup {p}
  /\ UNCHANGED <<account, roles, busy, requests, lock, work, counts>>

-----------------------------------------------------------------------------
(* The hourly job *)

Move(c, step) == work' = [work EXCEPT ![c].step = step]
At(c, step) == work[c].step = step
Answer(c, status) == requests' = [requests EXCEPT ![work[c].at].status = status, ![work[c].at].due = FALSE]
Person(c) == requests[work[c].at].person
\* "for update" of a role change makes whoever updates the account wait.
RowFree(p) == \A t \in change : t.target # p

runCronWithHeartbeat(c) == lock = Nobody

StartRun(c) ==
  /\ work[c].step = "idle" /\ runCronWithHeartbeat(c)
  /\ lock' = c /\ Move(c, "started")
  /\ UNCHANGED <<account, roles, guards, busy, requests, counts>>

\* Requests that have been processing for an hour are taken for abandoned.
RecoverInterrupted(c) ==
  /\ work[c].step = "started" /\ Move(c, "recovered")
  /\ requests' = [r \in DOMAIN requests |->
       IF r \in Deletions /\ requests[r].status = "processing" /\ requests[r].due
       THEN [requests[r] EXCEPT !.status = "failed"] ELSE requests[r]]
  /\ UNCHANGED <<account, roles, guards, busy, lock, counts>>

Due == {r \in Deletions : requests[r].status \in {"scheduled", "blocked", "failed"} /\ requests[r].due}

ClaimDue(c) ==
  /\ work[c].step = "recovered"
  /\ requests' = [r \in DOMAIN requests |->
       IF r \in Due THEN [requests[r] EXCEPT !.status = "processing", !.due = FALSE] ELSE requests[r]]
  /\ work' = [work EXCEPT ![c] = [step |-> "next", claimed |-> Due, at |-> 0]]
  /\ UNCHANGED <<account, roles, guards, busy, lock, counts>>

NextRequest(c) ==
  /\ work[c].step = "next"
  /\ \/ \E r \in work[c].claimed :
          /\ work' = [work EXCEPT ![c] = [step |-> "claimed", claimed |-> @.claimed \ {r}, at |-> r]]
          /\ UNCHANGED lock
     \/ /\ work[c].claimed = {} /\ work' = [work EXCEPT ![c] = Idle]
        /\ lock' = IF lock = c THEN Nobody ELSE lock
  /\ UNCHANGED <<account, roles, guards, busy, requests, counts>>

\* The first look: nothing to erase, something in the way, or go on.
LookForBlockers(c) ==
  /\ At(c, "claimed")
  /\ IF account[Person(c)] = "erased"
     THEN /\ Answer(c, "completed") /\ Move(c, "next")
     ELSE /\ Move(c, IF getAccountDeletionBlockers(Person(c)) THEN "blocking" ELSE "clear")
          /\ UNCHANGED requests
  /\ UNCHANGED <<account, roles, guards, busy, lock, counts>>

Freeze(c) ==
  /\ At(c, "clear") /\ RowFree(Person(c))
  /\ IF account[Person(c)] = "erased" THEN Move(c, "failing") /\ UNCHANGED account
     ELSE Move(c, "frozen") /\ account' = [account EXCEPT ![Person(c)] = "deleting"]
  /\ UNCHANGED <<roles, guards, busy, requests, lock, counts>>

LookAgain(c) ==
  /\ At(c, "frozen")
  /\ Move(c, IF getAccountDeletionBlockers(Person(c)) THEN "blocking" ELSE "checked")
  /\ UNCHANGED <<account, roles, guards, busy, requests, lock, counts>>

\* blockDeletion gives the account back and then says so.
GiveAccountBackBug(c) == Move(c, "blocked") /\ UNCHANGED account
GiveAccountBack(c) ==
  /\ Move(c, "blocked")
  /\ account' = IF account[Person(c)] = "deleting" THEN [account EXCEPT ![Person(c)] = "active"] ELSE account

blockDeletion(c) ==
  /\ \/ At(c, "blocking") /\ RowFree(Person(c)) /\ GiveAccountBack(c) /\ UNCHANGED requests
     \/ /\ At(c, "blocked") /\ Move(c, "next") /\ UNCHANGED account
        /\ Answer(c, "blocked")
  /\ UNCHANGED <<roles, guards, busy, lock, counts>>

ObjectsDeleted(c) ==
  /\ At(c, "checked") /\ Move(c, "emptied")
  /\ UNCHANGED <<account, roles, guards, busy, requests, lock, counts>>

StorageFails(c) ==
  /\ At(c, "checked") /\ Move(c, "failing")
  /\ UNCHANGED <<account, roles, guards, busy, requests, lock, counts>>

\* The last transaction looks at the request and the account once more.
Erase(c) ==
  LET p == Person(c) IN
  /\ At(c, "emptied") /\ RowFree(p)
  /\ IF requests[work[c].at].status = "processing" /\ account[p] = "deleting"
     THEN /\ account' = [account EXCEPT ![p] = "erased"]
          /\ guards' = guards \ {p}
          /\ Answer(c, "completed")
          /\ Move(c, "next")
     ELSE Move(c, "failing") /\ UNCHANGED <<account, guards, requests>>
  /\ UNCHANGED <<roles, busy, lock, counts>>

\* failDeletion asks nothing about the state of the request.
failDeletion(c) ==
  /\ At(c, "failing") /\ Move(c, "next")
  /\ Answer(c, "failed")
  /\ UNCHANGED <<account, roles, guards, busy, lock, counts>>

\* A process dies; PostgreSQL ends its session and with it the lock.
Crash(c) ==
  /\ crashes < MaxCrashes /\ crashes' = crashes + 1
  /\ work[c].step # "idle" /\ work' = [work EXCEPT ![c] = Idle]
  /\ lock' = IF lock = c THEN Nobody ELSE lock
  /\ UNCHANGED <<account, roles, guards, busy, requests, flips>>

LockDrops(c) ==
  /\ LockMayDrop /\ lock = c /\ lock' = Nobody
  /\ UNCHANGED <<account, roles, guards, busy, requests, work, counts>>

\* scheduled_for comes, or processing_started_at is an hour old.
HoursPass(r) ==
  /\ r \in Deletions /\ ~requests[r].due /\ requests[r].status \in Active
  /\ requests' = [requests EXCEPT ![r].due = TRUE]
  /\ UNCHANGED <<account, roles, guards, busy, lock, work, counts>>

-----------------------------------------------------------------------------
(* Platform roles: the operator is checked, then one transaction at a time   *)
(* counts the other owners and writes the role.                              *)

requirePlatformRole(op, target, grant) ==
  /\ account[op] = "active" /\ op \in owns /\ Cardinality(calls) < MaxCalls
  /\ calls' = calls \cup {[op |-> op, target |-> target, grant |-> grant]}
  /\ UNCHANGED <<account, owns, change, guards, busy, requests, lock, work, counts>>

platformRoleChangeError(t) ==
  \/ t.op = t.target /\ (t.target \in owns) # t.grant
  \/ t.target \in owns /\ ~t.grant /\ ~\E q \in owns \ {t.target} : account[q] = "active"

CheckRoleChange(t) ==
  /\ t \in calls /\ change = NoChange /\ calls' = calls \ {t}
  /\ account[t.target] = "active" /\ ~platformRoleChangeError(t) /\ change' = {t}
  /\ UNCHANGED <<account, owns, guards, busy, requests, lock, work, counts>>

CommitRoleChange(t) ==
  /\ t \in change /\ change' = NoChange
  /\ owns' = IF t.grant THEN owns \cup {t.target} ELSE owns \ {t.target}
  /\ UNCHANGED <<account, calls, guards, busy, requests, lock, work, counts>>

\* Without an active owner, one may be named with the test token.
BootstrapOwner(p) ==
  /\ account[p] = "active" /\ ~\E q \in owns : account[q] = "active"
  /\ owns' = owns \cup {p}
  /\ UNCHANGED <<account, calls, change, guards, busy, requests, lock, work, counts>>

-----------------------------------------------------------------------------
WorkStep(c) ==
  \/ StartRun(c) \/ RecoverInterrupted(c) \/ ClaimDue(c) \/ NextRequest(c) \/ LookForBlockers(c) \/ Freeze(c)
  \/ LookAgain(c) \/ blockDeletion(c) \/ ObjectsDeleted(c) \/ StorageFails(c) \/ Erase(c) \/ failDeletion(c)

PrivacyRoute ==
  \/ \E p \in People : requestAccountDeletion(p) \/ buildMyDataExport(p)
  \/ \E r \in Deletions : cancelAccountDeletion(r)

PlatformRolesRoute ==
  \/ \E op, target \in People, grant \in BOOLEAN : requirePlatformRole(op, target, grant)
  \/ \E t \in calls \cup change : CheckRoleChange(t) \/ CommitRoleChange(t)

DeletionNext ==
  \/ PrivacyRoute \/ PlatformRolesRoute
  \/ \E p \in People : BusyChanges(p) \/ addGuardian(p) \/ BootstrapOwner(p)
  \/ \E c \in Cleaners : WorkStep(c) \/ Crash(c) \/ LockDrops(c)
  \/ \E r \in DOMAIN requests : HoursPass(r)

\* A process that runs goes on, a role change in its transaction commits, the
\* hours pass, and the storage does not refuse for ever.
DeletionFairness ==
  /\ \A c \in Cleaners : WF_deletionVars(WorkStep(c)) /\ SF_deletionVars(ObjectsDeleted(c))
  /\ WF_deletionVars(\E t \in change : CommitRoleChange(t))
  /\ WF_deletionVars(\E r \in DOMAIN requests : HoursPass(r))

DeletionSpec == DeletionInit /\ [][DeletionNext]_deletionVars /\ DeletionFairness

-----------------------------------------------------------------------------
(* Properties *)

\* Rows are well typed, and nobody has two deletions that are neither done nor
\* cancelled, whichever of them failed, was blocked or recovered in between.
DeletionTypeOK ==
  /\ account \in [People -> {"active", "deleting", "erased"}]
  /\ owns \subseteq People /\ guards \subseteq People /\ busy \subseteq People
  /\ DOMAIN requests \in {1..n : n \in 0..MaxRequests}
  /\ \A r \in DOMAIN requests : requests[r] \in Requests
  /\ \A r, s \in Deletions : requests[r].person = requests[s].person /\ r # s =>
       {"completed", "cancelled"} \cap {requests[r].status, requests[s].status} # {}
  /\ lock \in Cleaners \cup {Nobody}
  /\ \A c \in Cleaners : work[c].claimed \cup {work[c].at} \subseteq 0..MaxRequests
  /\ calls \subseteq RoleChanges /\ change \subseteq calls \cup RoleChanges

\* "Assign another profile-managing guardian for managed minors first": however
\* many guardians delete their accounts at the same time, one remains.
GuardianRemains == \E p \in guards : account[p] # "erased"

\* cancelAccountDeletion is final: no run of the job, interrupted, recovered or
\* late, takes a cancelled request up again.
CancelledStays ==
  [][\A r \in DOMAIN requests : requests[r].status = "cancelled" => requests'[r].status = "cancelled"]_deletionVars

\* Nobody is left locked out: a frozen account belongs to a request that the
\* job still has in hand or will take up again.
FrozenHasRequest ==
  \A p \in People : account[p] = "deleting" =>
    \E r \in Deletions : requests[r].person = p /\ requests[r].status \in {"processing", "failed"}

\* "BandWagon must retain at least one active platform owner", as far as
\* changes of roles go: owners who change each other's roles at the same time
\* never leave none; only a deletion may take the last one.
RolesKeepOwner == owns # {}

\* However many people decide at the same time, somebody remains: a guardian for
\* the minor, and an owner for the platform.
SomebodyRemains == GuardianRemains /\ RolesKeepOwner

\* The same sentence as it stands, deletions included.
OwnerRemains == \E p \in owns : account[p] # "erased"

\* A freeze ends: the account is erased or given back, whatever crashes,
\* refusals of the storage and new blockers come in between.
FreezeEnds == \A p \in People : []<>(account[p] # "deleting")
=============================================================================

--------------------------- MODULE JobQueueProofs ---------------------------
(* Safety of the job queue for any number of jobs, workers and faults.     *)
EXTENDS JobQueue, FiniteSetTheorems, TLAPS

\* What a lock holder writes back is a row again, without the lock.
LEMMA UnlockedRow ==
  ASSUME NEW r \in Rows, NEW status \in Statuses
  PROVE  /\ Unlocked(r, status) \in Rows
         /\ Unlocked(r, status).status = status
         /\ Unlocked(r, status).lockedBy = None
         /\ Unlocked(r, status).lease = "none"
         /\ Unlocked(r, status).attempts = r.attempts
BY DEF Unlocked, Rows

\* A claimed row is a row, running and locked by its claimer.
LEMMA ClaimedRow ==
  ASSUME NEW r \in Rows, NEW w \in Workers
  PROVE  /\ Claimed(w, r) \in Rows
         /\ Claimed(w, r).status = "running"
         /\ Claimed(w, r).lockedBy = w
         /\ Claimed(w, r).lease = "live"
<1>1. r.due \in BOOLEAN /\ r.attempts + 1 \in Nat
  BY DEF Rows
<1> QED BY <1>1 DEF Claimed, Rows, Statuses

LEMMA FailedRowRow ==
  ASSUME NEW r \in Rows, NEW run \in Runs
  PROVE  /\ FailedRow(run, r) \in Rows
         /\ FailedRow(run, r).status \in {"queued", "dead"}
         /\ FailedRow(run, r).lockedBy = None
         /\ FailedRow(run, r).lease = "none"
<1>1. /\ Unlocked(r, "dead") \in Rows /\ Unlocked(r, "dead").status = "dead"
      /\ Unlocked(r, "dead").lockedBy = None /\ Unlocked(r, "dead").lease = "none"
  BY UnlockedRow DEF Statuses
<1>2. /\ Unlocked(r, "queued") \in Rows /\ Unlocked(r, "queued").status = "queued"
      /\ Unlocked(r, "queued").lockedBy = None /\ Unlocked(r, "queued").lease = "none"
  BY UnlockedRow DEF Statuses
<1> QED BY <1>1, <1>2 DEF FailedRow, Rows

LEMMA ReleasedRowRow ==
  ASSUME NEW r \in Rows
  PROVE  /\ ReleasedRow(r) \in Rows
         /\ ReleasedRow(r).status = "queued"
         /\ ReleasedRow(r).lockedBy = None
         /\ ReleasedRow(r).lease = "none"
<1>1. /\ Unlocked(r, "queued") \in Rows /\ Unlocked(r, "queued").status = "queued"
      /\ Unlocked(r, "queued").lockedBy = None /\ Unlocked(r, "queued").lease = "none"
  BY UnlockedRow DEF Statuses
<1> QED BY <1>1 DEF ReleasedRow, Rows

\* The type invariant needs nothing but itself.
THEOREM TypeCorrect == Spec => []TypeOK
<1>1. Init => TypeOK
  BY MaxFaultsAssumption DEF Init, TypeOK, NoRow, Rows, Statuses, Runs
<1>2. TypeOK /\ [Next]_vars => TypeOK'
  <2> SUFFICES ASSUME TypeOK, [Next]_vars PROVE TypeOK'
    OBVIOUS
  <2> USE DEF TypeOK
  <2>1. ASSUME NEW w \in Workers, StartWorker(w) PROVE TypeOK'
    BY <2>1 DEF StartWorker
  <2>2. ASSUME NEW w \in Workers, NEW S \in SUBSET Jobs, Claim(w, S) PROVE TypeOK'
    <3>1. row' \in [Jobs -> Rows]
      BY <2>2, ClaimedRow DEF Claim
    <3>2. runs' \subseteq Runs
      BY <2>2 DEF Claim, Runs, Phases, Rows
    <3> QED BY <2>2, <3>1, <3>2 DEF Claim
  <2>3. ASSUME NEW w \in Workers, ExtendLeases(w) PROVE TypeOK'
    <3>1. row' \in [Jobs -> Rows]
      BY <2>3 DEF ExtendLeases, Rows
    <3> QED BY <2>3, <3>1 DEF ExtendLeases
  <2>4. ASSUME NEW w \in Workers, Shutdown(w) PROVE TypeOK'
    BY <2>4 DEF Shutdown
  <2>5. ASSUME NEW w \in Workers, ReleaseJobs(w) PROVE TypeOK'
    <3>1. row' \in [Jobs -> Rows]
      BY <2>5, ReleasedRowRow DEF ReleaseJobs
    <3> QED BY <2>5, <3>1, MaxFaultsAssumption DEF ReleaseJobs, Fault
  <2>6. ASSUME NEW w \in Workers, Exit(w) PROVE TypeOK'
    BY <2>6 DEF Exit, Gone
  <2>7. ASSUME NEW w \in Workers, Kill(w) PROVE TypeOK'
    BY <2>7, MaxFaultsAssumption DEF Kill, Gone, Fault
  <2>8. ASSUME NEW run \in runs, RunStep(run) PROVE TypeOK'
    <3> run \in Runs
      BY <2>8
    <3> DEFINE j == run.job
    <3> j \in Jobs /\ run.worker \in Workers
      BY DEF Runs
    <3>1. \A phase \in Phases : [run EXCEPT !.phase = phase] \in Runs
      BY DEF Runs
    <3>2. CASE HandlerSucceeds(run)
      BY <3>1, <3>2 DEF HandlerSucceeds, Advance, Phases
    <3>3. CASE HandlerThrows(run)
      BY <3>1, <3>3 DEF HandlerThrows, Advance, Phases
    <3>4. CASE CompleteJob(run)
      <4>1. Unlocked(row[j], "succeeded") \in Rows
        BY UnlockedRow DEF Statuses
      <4> QED BY <3>4, <4>1 DEF CompleteJob, Finish
    <3>5. CASE CompleteJobRejects(run)
      BY <3>1, <3>5, MaxFaultsAssumption DEF CompleteJobRejects, Advance, Phases, Fault
    <3>6. CASE FailJob(run)
      <4>1. FailedRow(run, row[j]) \in Rows
        BY FailedRowRow
      <4> QED BY <3>6, <4>1 DEF FailJob, Finish
    <3>7. CASE FailJobRejects(run)
      BY <3>7, MaxFaultsAssumption DEF FailJobRejects, Finish, Fault
    <3> QED BY <2>8, <3>2, <3>3, <3>4, <3>5, <3>6, <3>7 DEF RunStep
  <2>9. ASSUME NEW j \in Jobs, JobStep(j) PROVE TypeOK'
    <3>1. CASE EnqueueJob(j)
      <4>1. \A due \in BOOLEAN : [NoRow EXCEPT !.status = "queued", !.due = due] \in Rows
        BY DEF NoRow, Rows, Statuses
      <4> QED BY <3>1, <4>1 DEF EnqueueJob
    <3>2. CASE BecomeDue(j)
      BY <3>2 DEF BecomeDue, Rows
    <3>3. CASE LeaseLapses(j)
      BY <3>3 DEF LeaseLapses, Rows
    <3>4. CASE Outage(j)
      BY <3>4, MaxFaultsAssumption DEF Outage, Rows, Fault
    <3>5. CASE PruneFinishedJobs(j)
      BY <3>5 DEF PruneFinishedJobs, Rows, Statuses
    <3> QED BY <2>9, <3>1, <3>2, <3>3, <3>4, <3>5 DEF JobStep
  <2>10. ASSUME DeadLetterExpiredJobs PROVE TypeOK'
    <3>1. \A j \in Jobs : Unlocked(row[j], "dead") \in Rows
      BY UnlockedRow DEF Statuses
    <3> QED BY <2>10, <3>1 DEF DeadLetterExpiredJobs
  <2>11. CASE UNCHANGED vars
    BY <2>11 DEF vars
  <2> QED BY <2>1, <2>2, <2>3, <2>4, <2>5, <2>6, <2>7, <2>8, <2>9, <2>10, <2>11
          DEF Next, WorkerStep
<1> QED BY <1>1, <1>2, PTL DEF Spec

-----------------------------------------------------------------------------

\* The condition LockedIffRunning puts on one row.
LockFits(r) ==
  /\ r.status = "running" <=> r.lockedBy # None
  /\ r.status = "running" <=> r.lease # "none"

\* Without a lock and not running, or locked, leased and running: both fit.
LEMMA FreeFits ==
  ASSUME NEW r, r.status # "running", r.lockedBy = None, r.lease = "none"
  PROVE  LockFits(r)
BY DEF LockFits

LEMMA HeldFits ==
  ASSUME NEW r, NEW w \in Workers,
         r.status = "running", r.lockedBy = w, r.lease \in {"live", "lapsed"}
  PROVE  LockFits(r)
BY NoneAssumption DEF LockFits

LEMMA LockInit == Init => LockedIffRunning
BY DEF Init, NoRow, LockedIffRunning

\* A step that changes one row to one that fits.
LEMMA OneRowFits ==
  ASSUME TypeOK, LockedIffRunning, NEW j \in Jobs, NEW r,
         row' = [row EXCEPT ![j] = r], LockFits(r)
  PROVE  LockedIffRunning'
BY DEF TypeOK, LockedIffRunning, LockFits

LEMMA LockStep == TypeOK /\ LockedIffRunning /\ [Next]_vars => LockedIffRunning'
<1> SUFFICES ASSUME TypeOK, LockedIffRunning, [Next]_vars PROVE LockedIffRunning'
  OBVIOUS
<1>a. ASSUME UNCHANGED row PROVE LockedIffRunning'
  BY <1>a DEF LockedIffRunning
<1>b. \A j \in Jobs : row[j] \in Rows /\ LockFits(row[j])
  BY DEF TypeOK, LockedIffRunning, LockFits
<1>1. ASSUME NEW w \in Workers, NEW S \in SUBSET Jobs, Claim(w, S) PROVE LockedIffRunning'
  <2>1. \A j \in Jobs : LockFits(Claimed(w, row[j]))
    BY NoneAssumption DEF Claimed, LockFits
  <2>2. row' = [j \in Jobs |-> IF j \in S THEN Claimed(w, row[j]) ELSE row[j]]
    BY <1>1 DEF Claim
  <2> QED BY <2>1, <2>2 DEF LockedIffRunning, LockFits
<1>2. ASSUME NEW w \in Workers, ExtendLeases(w) PROVE LockedIffRunning'
  <2> DEFINE mine == {j \in tracked[w] : row[j].status = "running" /\ row[j].lockedBy = w}
  <2>1. row' = [j \in Jobs |-> IF j \in mine THEN [row[j] EXCEPT !.lease = "live"] ELSE row[j]]
    BY <1>2 DEF ExtendLeases
  <2>2. \A j \in mine \cap Jobs : LockFits([row[j] EXCEPT !.lease = "live"])
    BY <1>b, NoneAssumption DEF Rows, LockFits
  <2> QED BY <2>1, <2>2 DEF LockedIffRunning, LockFits
<1>3. ASSUME NEW w \in Workers, ReleaseJobs(w) PROVE LockedIffRunning'
  <2>1. \A j \in Jobs : LockFits(ReleasedRow(row[j]))
    BY <1>b, ReleasedRowRow DEF LockFits
  <2>2. CASE UNCHANGED row
    BY <2>2, <1>a
  <2>3. CASE row' = [j \in Jobs |->
                  IF j \in tracked[w] /\ row[j].status = "running" /\ row[j].lockedBy = w
                  THEN ReleasedRow(row[j]) ELSE row[j]]
    BY <2>1, <2>3 DEF LockedIffRunning, LockFits
  <2> QED BY <1>3, <2>2, <2>3 DEF ReleaseJobs
<1>4. ASSUME NEW run \in runs, RunStep(run) PROVE LockedIffRunning'
  <2> run \in Runs
    BY DEF TypeOK
  <2> run.job \in Jobs
    BY DEF Runs
  <2>1. LockFits(Unlocked(row[run.job], "succeeded"))
    BY <1>b, UnlockedRow DEF LockFits, Statuses
  <2>2. LockFits(FailedRow(run, row[run.job]))
    BY <1>b, FailedRowRow DEF LockFits
  <2>3. CASE CompleteJob(run)
    BY <2>1, <2>3, <1>a, OneRowFits DEF CompleteJob
  <2>4. CASE FailJob(run)
    BY <2>2, <2>4, <1>a, OneRowFits DEF FailJob
  <2>5. CASE HandlerSucceeds(run) \/ HandlerThrows(run) \/ CompleteJobRejects(run)
               \/ FailJobRejects(run)
    BY <2>5, <1>a DEF HandlerSucceeds, HandlerThrows, CompleteJobRejects, FailJobRejects
  <2> QED BY <1>4, <2>3, <2>4, <2>5 DEF RunStep
<1>5. ASSUME NEW j \in Jobs, JobStep(j) PROVE LockedIffRunning'
  <2>1. CASE EnqueueJob(j)
    <3>1. \A due \in BOOLEAN : LockFits([NoRow EXCEPT !.status = "queued", !.due = due])
      BY DEF LockFits, NoRow
    <3> QED BY <2>1, <3>1, OneRowFits DEF EnqueueJob
  <2>2. CASE BecomeDue(j)
    <3>1. LockFits([row[j] EXCEPT !.due = TRUE])
      BY <1>b DEF LockFits, Rows
    <3> QED BY <2>2, <3>1, OneRowFits DEF BecomeDue
  <2>3. CASE row[j].status = "running" /\ row' = [row EXCEPT ![j].lease = "lapsed"]
    <3>1. LockFits([row[j] EXCEPT !.lease = "lapsed"])
      BY <2>3, <1>b DEF LockFits, Rows
    <3> QED BY <2>3, <3>1, OneRowFits
  <2>4. CASE PruneFinishedJobs(j)
    <3>1. LockFits([row[j] EXCEPT !.status = "deleted"])
      BY <2>4, <1>b DEF PruneFinishedJobs, LockFits, Rows
    <3> QED BY <2>4, <3>1, OneRowFits DEF PruneFinishedJobs
  <2> QED BY <1>5, <2>1, <2>2, <2>3, <2>4 DEF JobStep, LeaseLapses, Outage
<1>6. ASSUME DeadLetterExpiredJobs PROVE LockedIffRunning'
  <2>1. \A j \in Jobs : LockFits(Unlocked(row[j], "dead"))
    BY <1>b, UnlockedRow DEF LockFits, Statuses
  <2> QED BY <1>6, <2>1 DEF DeadLetterExpiredJobs, LockedIffRunning, LockFits
<1>7. ASSUME NEW w \in Workers,
             StartWorker(w) \/ Shutdown(w) \/ Exit(w) \/ Kill(w)
      PROVE LockedIffRunning'
  BY <1>7, <1>a DEF StartWorker, Shutdown, Exit, Kill, Gone
<1>8. CASE UNCHANGED vars
  BY <1>8, <1>a DEF vars
<1> QED BY <1>1, <1>2, <1>3, <1>4, <1>5, <1>6, <1>7, <1>8 DEF Next, WorkerStep

\* A lock is held exactly while the job runs, whatever the workers do.
THEOREM LockCorrect == Spec => []LockedIffRunning
BY LockInit, LockStep, TypeCorrect, PTL DEF Spec

\* The outcome of a job is final: nobody holds the lock of a finished row, so
\* no late call can write to it.
THEOREM OutcomeCorrect == Spec => OutcomeIsFinal
<1>1. TypeOK /\ LockedIffRunning /\ [Next]_vars => OutcomesKept
  <2> SUFFICES ASSUME TypeOK, LockedIffRunning, [Next]_vars,
                      NEW j \in Jobs, row[j].status \in {"succeeded", "dead"}
               PROVE  KeepsOutcome(j)
    BY DEF OutcomesKept, KeepsOutcome
  <2>a. row[j] \in Rows /\ row[j].lockedBy = None /\ row \in [Jobs -> Rows]
    BY DEF TypeOK, LockedIffRunning
  <2>b. ASSUME row'[j] = row[j] PROVE KeepsOutcome(j)
    BY <2>a, <2>b DEF Rows, KeepsOutcome
  <2>1. ASSUME NEW w \in Workers, WorkerStep(w) PROVE row'[j] = row[j]
    <3>1. \A S \in SUBSET Jobs : Claim(w, S) => row'[j] = row[j]
      BY <2>a DEF Claim, Ready
    <3>2. ExtendLeases(w) \/ ReleaseJobs(w) => row'[j] = row[j]
      BY <2>a DEF ExtendLeases, ReleaseJobs
    <3>3. StartWorker(w) \/ Shutdown(w) \/ Exit(w) \/ Kill(w) => row'[j] = row[j]
      BY DEF StartWorker, Shutdown, Exit, Kill, Gone
    <3> QED BY <2>1, <3>1, <3>2, <3>3 DEF WorkerStep
  <2>2. ASSUME NEW run \in runs, RunStep(run) PROVE row'[j] = row[j]
    <3>1. run \in Runs
      BY DEF TypeOK
    <3>2. HoldsLock(run) => run.job # j
      BY <3>1, <2>a, NoneAssumption DEF HoldsLock, Runs
    <3> QED BY <2>a, <2>2, <3>2
            DEF RunStep, HandlerSucceeds, HandlerThrows, CompleteJob, CompleteJobRejects,
                FailJob, FailJobRejects
  <2>3. ASSUME NEW k \in Jobs, JobStep(k) PROVE KeepsOutcome(j)
    <3>1. CASE k # j
      <4>1. row'[j] = row[j]
        BY <3>1, <2>a, <2>3
        DEF JobStep, EnqueueJob, BecomeDue, LeaseLapses, Outage, PruneFinishedJobs
      <4> QED BY <4>1, <2>b
    <3>2. CASE k = j
      <4>1. PruneFinishedJobs(j)
        BY <3>2, <2>3 DEF JobStep, EnqueueJob, BecomeDue, LeaseLapses, Outage
      <4> QED BY <4>1, <2>a DEF PruneFinishedJobs, Rows, KeepsOutcome
    <3> QED BY <3>1, <3>2
  <2>4. ASSUME DeadLetterExpiredJobs PROVE row'[j] = row[j]
    BY <2>a, <2>4 DEF DeadLetterExpiredJobs
  <2>5. CASE UNCHANGED vars
    BY <2>5, <2>b DEF vars
  <2> QED BY <2>b, <2>1, <2>2, <2>3, <2>4, <2>5 DEF Next
<1>2. TypeOK /\ LockedIffRunning /\ [Next]_vars => [OutcomesKept]_vars
  BY <1>1
<1> QED BY <1>2, TypeCorrect, LockCorrect, PTL DEF Spec, OutcomeIsFinal

-----------------------------------------------------------------------------

\* What a call in flight knows of its row r and of the effects e of its job.
\* The attempt number it read bounds the row's counter from below as long as it
\* holds the lock, although a hand-back of another process lowers the counter;
\* a process that may still claim has to know it without the lock, too: who took
\* the row over counted an attempt of its own, and only that one is handed back.
CallFits(run, r, e, up) ==
  /\ r.status # "absent"
  /\ run.phase = "completing" => e > 0
  /\ r.lockedBy = run.worker => run.attempt <= r.attempts
  /\ up => /\ run.attempt <= r.attempts
           /\ r.lockedBy \notin {run.worker, None} => run.attempt < r.attempts

CallsFit ==
  \A run \in runs :
    /\ proc[run.worker] # "off"
    /\ CallFits(run, row[run.job], effects[run.job], proc[run.worker] = "up")

RowEarned(r, e) ==
  /\ r.status = "succeeded" => e > 0
  /\ r.status = "dead" => r.attempts >= MaxAttempts

EarnedInv == TypeOK /\ CallsFit /\ OutcomeIsEarned

LEMMA RunParts ==
  ASSUME NEW run \in Runs
  PROVE  /\ run.worker \in Workers /\ run.job \in Jobs
         /\ run.attempt \in Nat \ {0} /\ run.phase \in Phases
BY DEF Runs

LEMMA RowParts ==
  ASSUME NEW r \in Rows
  PROVE  r.status \in Statuses /\ r.lockedBy \in Workers \cup {None} /\ r.attempts \in Nat
BY DEF Rows

\* A call keeps fitting when its row is unlocked, handed back by another
\* process, claimed, or changed in neither lock nor counter.
LEMMA FitsUnlocked ==
  ASSUME NEW run \in Runs, NEW r \in Rows, NEW r2 \in Rows, NEW e \in Nat, NEW up \in BOOLEAN,
         CallFits(run, r, e, up), r2.status # "absent",
         r2.lockedBy = None, r2.attempts = r.attempts
  PROVE  CallFits(run, r2, e, up)
BY RunParts, RowParts, NoneAssumption DEF CallFits

LEMMA FitsReleased ==
  ASSUME NEW run \in Runs, NEW r \in Rows, NEW r2 \in Rows, NEW e \in Nat, NEW up \in BOOLEAN,
         CallFits(run, r, e, up), r2.status # "absent",
         r.lockedBy # None, up => r.lockedBy # run.worker,
         r2.lockedBy = None, r2.attempts >= r.attempts - 1
  PROVE  CallFits(run, r2, e, up)
BY RunParts, RowParts, NoneAssumption DEF CallFits

LEMMA FitsClaimed ==
  ASSUME NEW run \in Runs, NEW r \in Rows, NEW r2 \in Rows, NEW e \in Nat, NEW up \in BOOLEAN,
         CallFits(run, r, e, up), r2.status # "absent", NEW w \in Workers,
         r2.lockedBy = w, r2.attempts = r.attempts + 1, w = run.worker => up
  PROVE  CallFits(run, r2, e, up)
BY RunParts, RowParts, NoneAssumption DEF CallFits

LEMMA FitsKept ==
  ASSUME NEW run \in Runs, NEW r \in Rows, NEW r2 \in Rows, NEW e \in Nat, NEW up \in BOOLEAN,
         CallFits(run, r, e, up), r2.status # "absent",
         r2.lockedBy = r.lockedBy, r2.attempts = r.attempts
  PROVE  CallFits(run, r2, e, up)
BY DEF CallFits

LEMMA FitsNew ==
  ASSUME NEW run \in Runs, NEW r \in Rows, NEW e \in Nat, NEW up \in BOOLEAN,
         run.phase = "handling", r.status # "absent",
         r.lockedBy = run.worker, r.attempts = run.attempt
  PROVE  CallFits(run, r, e, up)
BY RunParts, RowParts DEF CallFits, Phases

\* Of the calls of a step that changes no row each is an old one, perhaps in
\* another phase, and its process may have stopped claiming.
LEMMA CallsKept ==
  ASSUME TypeOK, TypeOK', CallsFit, row' = row,
         \A j \in Jobs : effects'[j] >= effects[j],
         \A run \in runs' : \E old \in runs :
           /\ run.worker = old.worker /\ run.job = old.job /\ run.attempt = old.attempt
           /\ run.phase = "completing" => old.phase = "completing" \/ effects'[run.job] > 0
           /\ proc'[run.worker] = "up" => proc[run.worker] = "up"
           /\ proc'[run.worker] # "off"
  PROVE  CallsFit'
<1> SUFFICES ASSUME NEW run \in runs'
             PROVE  CallFits(run, row[run.job], effects'[run.job], proc'[run.worker] = "up")
  BY DEF CallsFit
<1>1. PICK old \in runs :
           /\ run.worker = old.worker /\ run.job = old.job /\ run.attempt = old.attempt
           /\ run.phase = "completing" => old.phase = "completing" \/ effects'[run.job] > 0
           /\ proc'[run.worker] = "up" => proc[run.worker] = "up"
  OBVIOUS
<1>2. CallFits(old, row[old.job], effects[old.job], proc[old.worker] = "up")
  BY DEF CallsFit
<1>3. old.job \in Jobs /\ effects[old.job] \in Nat /\ effects'[old.job] \in Nat
      /\ effects'[old.job] >= effects[old.job]
  BY RunParts DEF TypeOK
<1>4. run.phase = "completing" => effects'[run.job] > 0
  BY <1>1, <1>2, <1>3 DEF CallFits
<1> QED BY <1>1, <1>2, <1>4 DEF CallFits

\* A step that leaves the rows alone and forgets no effect keeps what is earned.
LEMMA EarnedKept ==
  ASSUME TypeOK, TypeOK', OutcomeIsEarned, row' = row,
         \A j \in Jobs : effects'[j] >= effects[j]
  PROVE  OutcomeIsEarned'
<1>1. \A j \in Jobs : effects[j] \in Nat /\ effects'[j] \in Nat
  BY DEF TypeOK
<1> QED BY <1>1 DEF OutcomeIsEarned

\* A step that changes rows but no calls (except to end some) and no effects.
LEMMA RowsChanged ==
  ASSUME EarnedInv, TypeOK', effects' = effects, runs' \subseteq runs,
         \A w \in Workers : /\ proc'[w] = "up" => proc[w] = "up"
                            /\ proc'[w] = "off" => proc[w] = "off",
         \A j \in Jobs : \/ row'[j] = row[j]
                         \/ /\ RowEarned(row'[j], effects[j])
                            /\ \A run \in runs : run.job = j =>
                                 CallFits(run, row'[j], effects[j], proc'[run.worker] = "up")
  PROVE  CallsFit' /\ OutcomeIsEarned'
<1>1. CallsFit'
  <2> SUFFICES ASSUME NEW run \in runs'
               PROVE  /\ proc'[run.worker] # "off"
                      /\ CallFits(run, row'[run.job], effects[run.job], proc'[run.worker] = "up")
    BY DEF CallsFit
  <2>1. run \in runs /\ run.job \in Jobs /\ run.worker \in Workers
    BY RunParts DEF EarnedInv, TypeOK
  <2>2. /\ proc[run.worker] # "off"
        /\ CallFits(run, row[run.job], effects[run.job], proc[run.worker] = "up")
    BY <2>1 DEF EarnedInv, CallsFit
  <2>3. CASE row'[run.job] = row[run.job]
    BY <2>1, <2>2, <2>3 DEF CallFits
  <2> QED BY <2>1, <2>2, <2>3
<1>2. OutcomeIsEarned'
  BY DEF EarnedInv, OutcomeIsEarned, RowEarned
<1> QED BY <1>1, <1>2

LEMMA EarnedInit == Init => CallsFit /\ OutcomeIsEarned
BY DEF Init, NoRow, CallsFit, OutcomeIsEarned

LEMMA EarnedStep == EarnedInv /\ TypeOK' /\ [Next]_vars => CallsFit' /\ OutcomeIsEarned'
<1> SUFFICES ASSUME EarnedInv, TypeOK', [Next]_vars PROVE CallsFit' /\ OutcomeIsEarned'
  OBVIOUS
<1> DEFINE Ups == \A w \in Workers : /\ proc'[w] = "up" => proc[w] = "up"
                                     /\ proc'[w] = "off" => proc[w] = "off"
<1>a. /\ TypeOK /\ CallsFit /\ OutcomeIsEarned
      /\ \A j \in Jobs : row[j] \in Rows /\ effects[j] \in Nat /\ RowEarned(row[j], effects[j])
      /\ \A run \in runs : run \in Runs /\ run.job \in Jobs /\ run.worker \in Workers
  BY RunParts DEF EarnedInv, TypeOK, OutcomeIsEarned, RowEarned
<1>b. \A run \in runs : /\ proc[run.worker] # "off"
                        /\ CallFits(run, row[run.job], effects[run.job], proc[run.worker] = "up")
  BY <1>a DEF CallsFit
<1>c. \A j \in Jobs : row'[j] \in Rows
  BY DEF TypeOK
<1>d. \A run \in runs : CallFits(run, row[run.job], effects[run.job], FALSE)
  BY <1>b DEF CallFits
<1>1. ASSUME NEW w \in Workers, StartWorker(w) PROVE CallsFit' /\ OutcomeIsEarned'
  <2>1. \A run \in runs : run.worker # w
    BY <1>1, <1>b DEF StartWorker
  <2>2. CallsFit'
    BY <1>1, <1>a, <2>1 DEF StartWorker, CallsFit, TypeOK
  <2> QED BY <1>1, <1>a, <2>2 DEF StartWorker, OutcomeIsEarned
<1>2. ASSUME NEW w \in Workers, NEW S \in SUBSET Jobs, Claim(w, S)
      PROVE CallsFit' /\ OutcomeIsEarned'
  <2>1. /\ row' = [j \in Jobs |-> IF j \in S THEN Claimed(w, row[j]) ELSE row[j]]
        /\ effects' = effects /\ proc' = proc /\ proc[w] = "up"
        /\ \A j \in S : row[j].status \in {"queued", "running"}
    BY <1>2 DEF Claim, Ready
  <2>2. ASSUME NEW run \in runs', run \notin runs
        PROVE  /\ proc'[run.worker] # "off"
               /\ CallFits(run, row'[run.job], effects'[run.job], proc'[run.worker] = "up")
    <3>1. PICK j \in S : run = [worker |-> w, job |-> j, attempt |-> row[j].attempts + 1,
                                phase |-> "handling"]
      BY <1>2, <2>2 DEF Claim
    <3>2. row'[j] = Claimed(w, row[j])
      BY <2>1
    <3>3. run \in Runs
      BY DEF TypeOK
    <3> QED BY <1>a, <1>c, <2>1, <3>1, <3>2, <3>3, FitsNew DEF Claimed
  <2>3. ASSUME NEW run \in runs
        PROVE  CallFits(run, row'[run.job], effects'[run.job], proc'[run.worker] = "up")
    <3>1. CASE run.job \in S
      <4>1. row'[run.job] = Claimed(w, row[run.job])
        BY <2>1, <3>1
      <4>2. /\ row'[run.job].status # "absent" /\ row'[run.job].lockedBy = w
            /\ row'[run.job].attempts = row[run.job].attempts + 1
        BY <4>1 DEF Claimed
      <4> QED BY <1>a, <1>b, <1>c, <2>1, <4>2, FitsClaimed
    <3>2. CASE run.job \notin S
      BY <1>a, <1>b, <2>1, <3>2
    <3> QED BY <3>1, <3>2
  <2>4. CallsFit'
    BY <1>b, <2>1, <2>2, <2>3 DEF CallsFit
  <2>5. OutcomeIsEarned'
    BY <1>a, <2>1 DEF OutcomeIsEarned, Claimed
  <2> QED BY <2>4, <2>5
<1>3. ASSUME NEW w \in Workers, ExtendLeases(w) PROVE CallsFit' /\ OutcomeIsEarned'
  <2>1. ASSUME NEW j \in Jobs, row'[j] # row[j]
        PROVE  row[j].status = "running" /\ row'[j] = [row[j] EXCEPT !.lease = "live"]
    BY <1>3, <2>1 DEF ExtendLeases
  <2>2. ASSUME NEW j \in Jobs, row'[j] # row[j]
        PROVE  /\ row'[j].status = "running" /\ row'[j].lockedBy = row[j].lockedBy
               /\ row'[j].attempts = row[j].attempts
    BY <1>a, <2>1, <2>2 DEF Rows
  <2>3. /\ effects' = effects /\ runs' = runs /\ proc' = proc
    BY <1>3 DEF ExtendLeases
  <2>4. ASSUME NEW j \in Jobs, row'[j] # row[j], NEW run \in runs, run.job = j
        PROVE  CallFits(run, row'[j], effects[j], proc'[run.worker] = "up")
    BY <1>a, <1>b, <1>c, <2>2, <2>3, <2>4, FitsKept
  <2>5. \A j \in Jobs : row'[j] # row[j] => RowEarned(row'[j], effects[j])
    BY <2>2 DEF RowEarned
  <2> QED BY <2>3, <2>4, <2>5, RowsChanged
<1>4. ASSUME NEW w \in Workers, ReleaseJobs(w) PROVE CallsFit' /\ OutcomeIsEarned'
  <2>1. /\ effects' = effects /\ runs' = runs
        /\ proc' = [proc EXCEPT ![w] = "released"]
    BY <1>4 DEF ReleaseJobs
  <2>2. Ups
    BY <1>a, <2>1 DEF TypeOK
  <2>3. ASSUME NEW j \in Jobs, row'[j] # row[j]
        PROVE  row[j].status = "running" /\ row[j].lockedBy = w /\ row'[j] = ReleasedRow(row[j])
    BY <1>4, <2>3 DEF ReleaseJobs
  <2>4. ASSUME NEW j \in Jobs, row'[j] # row[j]
        PROVE  /\ row'[j].status = "queued" /\ row'[j].lockedBy = None
               /\ row'[j].attempts >= row[j].attempts - 1
    <3>1. Unlocked(row[j], "queued") \in Rows /\ Unlocked(row[j], "queued").attempts = row[j].attempts
      BY <1>a, UnlockedRow DEF Statuses
    <3>2. row'[j].status = "queued" /\ row'[j].lockedBy = None
      BY <1>a, <2>3, <2>4, ReleasedRowRow
    <3>3. row[j].attempts \in Nat
      BY <1>a, RowParts
    <3>4. ReleasedRow(row[j]).attempts = IF row[j].attempts > 0 THEN row[j].attempts - 1 ELSE 0
      BY <3>1 DEF ReleasedRow, Rows
    <3> QED BY <2>3, <2>4, <3>2, <3>3, <3>4
  <2>5. ASSUME NEW j \in Jobs, row'[j] # row[j], NEW run \in runs, run.job = j
        PROVE  CallFits(run, row'[j], effects[j], proc'[run.worker] = "up")
    <3>1. CASE run.worker = w
      <4>1. proc'[run.worker] # "up"
        BY <1>a, <2>1, <3>1 DEF TypeOK
      <4>2. CallFits(run, row'[j], effects[j], FALSE)
        BY <1>a, <1>c, <1>d, <2>3, <2>4, <2>5, NoneAssumption, FitsReleased
      <4> QED BY <4>1, <4>2
    <3>2. CASE run.worker # w
      <4>1. proc'[run.worker] = proc[run.worker]
        BY <1>a, <2>1, <3>2 DEF TypeOK
      <4> QED BY <1>a, <1>b, <1>c, <2>3, <2>4, <2>5, <3>2, <4>1, NoneAssumption, FitsReleased
    <3> QED BY <3>1, <3>2
  <2>6. \A j \in Jobs : row'[j] # row[j] => RowEarned(row'[j], effects[j])
    BY <2>4 DEF RowEarned
  <2> QED BY <2>1, <2>2, <2>5, <2>6, RowsChanged
<1>5. ASSUME NEW w \in Workers, Shutdown(w) \/ Exit(w) \/ Kill(w)
      PROVE CallsFit' /\ OutcomeIsEarned'
  <2>1. row' = row /\ effects' = effects /\ runs' \subseteq runs /\ Ups
    BY <1>5, <1>a DEF Shutdown, Exit, Kill, Gone, TypeOK
  <2> QED BY <2>1, RowsChanged
<1>6. ASSUME NEW run \in runs, RunStep(run) PROVE CallsFit' /\ OutcomeIsEarned'
  <2> DEFINE j == run.job
  <2> run \in Runs /\ j \in Jobs
    BY <1>a
  <2>1. CASE CompleteJob(run) /\ HoldsLock(run)
    <3>1. /\ effects' = effects /\ runs' \subseteq runs /\ proc' = proc
          /\ row' = [row EXCEPT ![j] = Unlocked(row[j], "succeeded")]
          /\ run.phase = "completing"
      BY <2>1 DEF CompleteJob, Finish
    <3>2. /\ row'[j].status = "succeeded" /\ row'[j].lockedBy = None
          /\ row'[j].attempts = row[j].attempts
      BY <1>a, <3>1, UnlockedRow DEF Statuses, TypeOK
    <3>3. \A k \in Jobs : k # j => row'[k] = row[k]
      BY <1>a, <3>1 DEF TypeOK
    <3>4. RowEarned(row'[j], effects[j])
      BY <1>b, <3>1, <3>2 DEF CallFits, RowEarned
    <3>5. ASSUME NEW other \in runs, other.job = j
          PROVE  CallFits(other, row'[j], effects[j], proc'[other.worker] = "up")
      <4>1. row[j] \in Rows /\ row'[j] \in Rows /\ effects[j] \in Nat /\ other \in Runs
        BY <1>a, <1>c
      <4>2. row'[j].status # "absent" /\ row'[j].lockedBy = None
            /\ row'[j].attempts = row[j].attempts
        BY <3>1, <3>2
      <4>3. CallFits(other, row[j], effects[j], proc[other.worker] = "up")
        BY <1>b, <3>5
      <4>4. CallFits(other, row'[j], effects[j], proc[other.worker] = "up")
        BY <4>1, <4>2, <4>3, RunParts, RowParts, NoneAssumption DEF CallFits
      <4> QED BY <3>1, <4>4
    <3> QED BY <3>1, <3>3, <3>4, <3>5, RowsChanged
  <2>2. CASE FailJob(run) /\ HoldsLock(run)
    <3>1. /\ effects' = effects /\ runs' \subseteq runs /\ proc' = proc
          /\ row' = [row EXCEPT ![j] = FailedRow(run, row[j])]
      BY <2>2 DEF FailJob, Finish
    <3>2. \A status \in Statuses : /\ Unlocked(row[j], status) \in Rows
                                   /\ Unlocked(row[j], status).status = status
                                   /\ Unlocked(row[j], status).attempts = row[j].attempts
      BY <1>a, UnlockedRow
    <3>3. /\ FailedRow(run, row[j]).attempts = row[j].attempts
          /\ FailedRow(run, row[j]).status = "dead" => run.attempt >= MaxAttempts
      BY <3>2 DEF FailedRow, Rows, Statuses
    <3>4. /\ row'[j] = FailedRow(run, row[j])
          /\ row'[j].status \in {"queued", "dead"} /\ row'[j].lockedBy = None
      BY <1>a, <3>1, FailedRowRow DEF TypeOK
    <3>5. \A k \in Jobs : k # j => row'[k] = row[k]
      BY <1>a, <3>1 DEF TypeOK
    <3>6. run.attempt <= row[j].attempts
      BY <1>b, <2>2 DEF CallFits, HoldsLock
    <3>7. RowEarned(row'[j], effects[j])
      BY <1>a, <3>3, <3>4, <3>6, RunParts, RowParts, MaxAttemptsAssumption DEF RowEarned
    <3>8. ASSUME NEW other \in runs, other.job = j
          PROVE  CallFits(other, row'[j], effects[j], proc'[other.worker] = "up")
      <4>1. row[j] \in Rows /\ row'[j] \in Rows /\ effects[j] \in Nat /\ other \in Runs
        BY <1>a, <1>c
      <4>2. row'[j].status # "absent" /\ row'[j].lockedBy = None
            /\ row'[j].attempts = row[j].attempts
        BY <3>1, <3>3, <3>4
      <4>3. CallFits(other, row[j], effects[j], proc[other.worker] = "up")
        BY <1>b, <3>8
      <4>4. CallFits(other, row'[j], effects[j], proc[other.worker] = "up")
        BY <4>1, <4>2, <4>3, RunParts, RowParts, NoneAssumption DEF CallFits
      <4> QED BY <3>1, <4>4
    <3> QED BY <3>1, <3>5, <3>7, <3>8, RowsChanged
  <2>3. CASE row' = row /\ effects' = effects /\ proc' = proc /\ runs' \subseteq runs
    BY <2>3, RowsChanged
  <2>4. CASE HandlerSucceeds(run)
    <3>1. /\ row' = row /\ proc' = proc
          /\ runs' = (runs \ {run}) \cup {[run EXCEPT !.phase = "completing"]}
          /\ effects' = [effects EXCEPT ![j] = @ + 1]
      BY <2>4 DEF HandlerSucceeds, Advance
    <3>2. effects'[j] > 0 /\ \A k \in Jobs : effects'[k] >= effects[k]
      BY <1>a, <3>1 DEF TypeOK
    <3>3. ASSUME NEW new \in runs'
          PROVE \E old \in runs :
             /\ new.worker = old.worker /\ new.job = old.job /\ new.attempt = old.attempt
             /\ new.phase = "completing" => old.phase = "completing" \/ effects'[new.job] > 0
             /\ proc'[new.worker] = "up" => proc[new.worker] = "up"
             /\ proc'[new.worker] # "off"
      <4>1. CASE new \in runs
        BY <1>b, <3>1, <4>1
      <4>2. CASE new = [run EXCEPT !.phase = "completing"]
        <5>1. new.worker = run.worker /\ new.job = run.job /\ new.attempt = run.attempt
          BY <4>2 DEF Runs
        <5> QED BY <1>b, <3>1, <3>2, <5>1
      <4> QED BY <3>1, <4>1, <4>2
    <3> QED BY <1>a, <3>1, <3>2, <3>3, CallsKept, EarnedKept
  <2>5. CASE /\ row' = row /\ proc' = proc /\ effects' = effects
             /\ runs' = (runs \ {run}) \cup {[run EXCEPT !.phase = "failing"]}
    <3>1. \A k \in Jobs : effects'[k] >= effects[k]
      BY <1>a, <2>5
    <3>2. ASSUME NEW new \in runs'
          PROVE \E old \in runs :
             /\ new.worker = old.worker /\ new.job = old.job /\ new.attempt = old.attempt
             /\ new.phase = "completing" => old.phase = "completing" \/ effects'[new.job] > 0
             /\ proc'[new.worker] = "up" => proc[new.worker] = "up"
             /\ proc'[new.worker] # "off"
      <4>1. CASE new \in runs
        BY <1>b, <2>5, <4>1
      <4>2. CASE new = [run EXCEPT !.phase = "failing"]
        <5>1. /\ new.worker = run.worker /\ new.job = run.job /\ new.attempt = run.attempt
              /\ new.phase = "failing"
          BY <4>2 DEF Runs
        <5> QED BY <1>b, <2>5, <5>1
      <4> QED BY <2>5, <4>1, <4>2
    <3> QED BY <1>a, <2>5, <3>1, <3>2, CallsKept, EarnedKept
  <2> QED BY <1>6, <2>1, <2>2, <2>3, <2>4, <2>5
          DEF RunStep, HandlerThrows, CompleteJob, CompleteJobRejects, FailJob,
              FailJobRejects, Finish, Advance
<1>7. ASSUME NEW j \in Jobs, JobStep(j) PROVE CallsFit' /\ OutcomeIsEarned'
  <2>1. effects' = effects /\ runs' = runs /\ proc' = proc
    BY <1>7 DEF JobStep, EnqueueJob, BecomeDue, LeaseLapses, Outage, PruneFinishedJobs
  <2>2. \A k \in Jobs : k # j => row'[k] = row[k]
    BY <1>7, <1>a
    DEF TypeOK, JobStep, EnqueueJob, BecomeDue, LeaseLapses, Outage, PruneFinishedJobs
  <2>3. CASE EnqueueJob(j)
    <3>1. row[j].status = "absent" /\ row'[j].status = "queued"
      BY <1>a, <2>3 DEF EnqueueJob, NoRow, TypeOK
    <3>2. \A run \in runs : run.job # j
      BY <1>b, <3>1 DEF CallFits
    <3> QED BY <2>1, <2>2, <3>1, <3>2, RowsChanged DEF RowEarned
  <2>4. CASE ~EnqueueJob(j)
    <3>1. /\ row'[j].status \in {"queued", "running", "deleted"}
          /\ row'[j].lockedBy = row[j].lockedBy /\ row'[j].attempts = row[j].attempts
      BY <1>7, <1>a, <2>4
      DEF TypeOK, Rows, JobStep, BecomeDue, LeaseLapses, Outage, PruneFinishedJobs
    <3>2. RowEarned(row'[j], effects[j])
      BY <3>1 DEF RowEarned
    <3> QED BY <1>a, <1>b, <1>c, <2>1, <2>2, <3>1, <3>2, FitsKept, RowsChanged
  <2> QED BY <2>3, <2>4
<1>8. ASSUME DeadLetterExpiredJobs PROVE CallsFit' /\ OutcomeIsEarned'
  <2>1. effects' = effects /\ runs' = runs /\ proc' = proc
    BY <1>8 DEF DeadLetterExpiredJobs
  <2>2. ASSUME NEW j \in Jobs, row'[j] # row[j]
        PROVE  row[j].attempts >= MaxAttempts /\ row'[j] = Unlocked(row[j], "dead")
    BY <1>8, <2>2 DEF DeadLetterExpiredJobs
  <2>3. ASSUME NEW j \in Jobs, row'[j] # row[j]
        PROVE  /\ row'[j].status = "dead" /\ row'[j].lockedBy = None
               /\ row'[j].attempts = row[j].attempts /\ RowEarned(row'[j], effects[j])
    BY <1>a, <2>2, <2>3, UnlockedRow DEF Statuses, RowEarned
  <2> QED BY <1>a, <1>b, <1>c, <2>1, <2>3, FitsUnlocked, RowsChanged
<1>9. CASE UNCHANGED vars
  BY <1>9, <1>a DEF vars, CallsFit, OutcomeIsEarned
<1> QED BY <1>1, <1>2, <1>3, <1>4, <1>5, <1>6, <1>7, <1>8, <1>9 DEF Next, WorkerStep

\* A job is reported done only after its handler ended, and given up only after
\* its last attempt, for any number of competing processes and hand-backs.
THEOREM EarnedCorrect == Spec => []OutcomeIsEarned
<1>1. Init => CallsFit /\ OutcomeIsEarned
  BY EarnedInit
<1>2. TypeOK /\ TypeOK' /\ CallsFit /\ OutcomeIsEarned /\ [Next]_vars
        => CallsFit' /\ OutcomeIsEarned'
  BY EarnedStep DEF EarnedInv
<1> QED BY <1>1, <1>2, TypeCorrect, PTL DEF Spec

\* The two halves of what a row says of its job, together (lib/jobs.ts).
THEOREM RowsCorrect == Spec => []RowsAreTrue
<1>1. LockedIffRunning /\ OutcomeIsEarned => RowsAreTrue
  BY DEF RowsAreTrue
<1> QED BY <1>1, LockCorrect, EarnedCorrect, PTL

-----------------------------------------------------------------------------
(* Repeated effects.  A call that has not succeeded may still have its      *)
(* effect, and so may a row that somebody can claim; both are counted, so   *)
(* that a claim, a success or a failure adds nothing and a fault one.       *)

Owed(j) == {run \in runs : run.job = j /\ run.phase \in {"handling", "failing"}}
Loose(j) ==
  \/ row[j].status \in {"absent", "queued"}
  \/ row[j].status = "running" /\ (row[j].lease = "lapsed" \/ ~Renews(row[j].lockedBy, j))
PaidFor(j) ==
  /\ IsFiniteSet(Owed(j))
  /\ effects[j] + Cardinality(Owed(j)) + (IF Loose(j) THEN 1 ELSE 0) <= 1 + faults
RepeatsInv == \A j \in Jobs : PaidFor(j)

LEMMA FewerOwed ==
  ASSUME NEW S, NEW T, IsFiniteSet(S), T \subseteq S
  PROVE  /\ IsFiniteSet(T) /\ Cardinality(S) \in Nat /\ Cardinality(T) \in Nat
         /\ Cardinality(T) <= Cardinality(S)
BY FS_Subset, FS_CardinalityType

LEMMA OneLess ==
  ASSUME NEW S, NEW T, NEW x \in S, IsFiniteSet(S), T \subseteq S \ {x}
  PROVE  /\ IsFiniteSet(T) /\ Cardinality(S) \in Nat /\ Cardinality(T) \in Nat
         /\ Cardinality(T) + 1 <= Cardinality(S)
<1>1. IsFiniteSet(S \ {x}) /\ Cardinality(S \ {x}) = Cardinality(S) - 1
  BY FS_RemoveElement
<1>2. IsFiniteSet(T) /\ Cardinality(T) <= Cardinality(S \ {x})
  BY <1>1, FewerOwed
<1> QED BY <1>1, <1>2, FS_CardinalityType

LEMMA OneMore ==
  ASSUME NEW S, NEW T, NEW x, IsFiniteSet(S), T \subseteq S \cup {x}
  PROVE  /\ IsFiniteSet(T) /\ Cardinality(S) \in Nat /\ Cardinality(T) \in Nat
         /\ Cardinality(T) <= Cardinality(S) + 1
<1>1. /\ IsFiniteSet(S \cup {x}) /\ Cardinality(S) \in Nat
      /\ Cardinality(S \cup {x}) \in {Cardinality(S), Cardinality(S) + 1}
  BY FS_AddElement, FS_CardinalityType
<1>2. IsFiniteSet(T) /\ Cardinality(T) <= Cardinality(S \cup {x}) /\ Cardinality(T) \in Nat
  BY <1>1, FewerOwed
<1> QED BY <1>1, <1>2

\* The ways a step may change what is counted for a job.
Same(j) == effects'[j] = effects[j] /\ Owed(j)' \subseteq Owed(j)
Quiet(j) == faults' >= faults /\ Same(j) /\ (Loose(j)' => Loose(j))
Faulty(j) == faults' = faults + 1 /\ Same(j)
Refailing(j) == /\ faults' = faults + 1 /\ effects'[j] = effects[j] /\ (Loose(j)' => Loose(j))
                /\ \E x : Owed(j)' \subseteq Owed(j) \cup {x}
Taken(j) == /\ faults' = faults /\ effects'[j] = effects[j] /\ Loose(j) /\ ~Loose(j)'
            /\ \E x : Owed(j)' \subseteq Owed(j) \cup {x}
Ending(j) == /\ faults' = faults /\ effects'[j] = effects[j]
             /\ \E x \in Owed(j) : Owed(j)' \subseteq Owed(j) \ {x}
Taking(j) == /\ faults' = faults /\ effects'[j] = effects[j] + 1 /\ (Loose(j)' => Loose(j))
             /\ \E x \in Owed(j) : Owed(j)' \subseteq Owed(j) \ {x}
Throwing(j) == /\ faults' = faults /\ effects'[j] = effects[j] /\ (Loose(j)' => Loose(j))
               /\ \E x \in Owed(j) : \E y : Owed(j)' \subseteq (Owed(j) \ {x}) \cup {y}

LEMMA StillPaid ==
  ASSUME TypeOK, TypeOK', NEW j \in Jobs, PaidFor(j),
         \/ Quiet(j) \/ Faulty(j) \/ Refailing(j) \/ Taken(j) \/ Ending(j) \/ Taking(j) \/ Throwing(j)
  PROVE  PaidFor(j)'
<1> DEFINE S == Owed(j)
           T == Owed(j)'
           a == IF Loose(j) THEN 1 ELSE 0
           b == IF Loose(j)' THEN 1 ELSE 0
           e == effects[j]
           f == effects'[j]
<1>1. e \in Nat /\ f \in Nat /\ faults \in Nat /\ faults' \in Nat
  BY MaxFaultsAssumption DEF TypeOK
<1>2. a \in {0, 1} /\ b \in {0, 1} /\ (a = 1 <=> Loose(j)) /\ (b = 1 <=> Loose(j)')
  OBVIOUS
<1>3. IsFiniteSet(S) /\ e + Cardinality(S) + a <= 1 + faults
  BY DEF PaidFor
<1>4. SUFFICES IsFiniteSet(T) /\ f + Cardinality(T) + b <= 1 + faults'
  BY DEF PaidFor
<1>5. CASE Quiet(j)
  <2>1. T \subseteq S /\ f = e /\ faults' >= faults /\ b <= a
    BY <1>2, <1>5 DEF Quiet, Same
  <2> HIDE DEF S, T, a, b, e, f
  <2> QED BY <1>1, <1>2, <1>3, <2>1, FewerOwed
<1>6. CASE Faulty(j)
  <2>1. T \subseteq S /\ f = e /\ faults' = faults + 1
    BY <1>6 DEF Faulty, Same
  <2> HIDE DEF S, T, a, b, e, f
  <2> QED BY <1>1, <1>2, <1>3, <2>1, FewerOwed
<1>7. CASE Refailing(j)
  <2>1. PICK x : T \subseteq S \cup {x}
    BY <1>7 DEF Refailing
  <2>2. f = e /\ faults' = faults + 1 /\ b <= a
    BY <1>2, <1>7 DEF Refailing
  <2> HIDE DEF S, T, a, b, e, f
  <2>3. IsFiniteSet(T) /\ Cardinality(S) \in Nat /\ Cardinality(T) \in Nat /\ Cardinality(T) <= Cardinality(S) + 1
    BY <1>3, <2>1, OneMore
  <2> QED BY <1>1, <1>2, <1>3, <2>2, <2>3
<1>8. CASE Taken(j)
  <2>1. PICK x : T \subseteq S \cup {x}
    BY <1>8 DEF Taken
  <2>2. f = e /\ faults' = faults /\ a = 1 /\ b = 0
    BY <1>2, <1>8 DEF Taken
  <2> HIDE DEF S, T, a, b, e, f
  <2>3. IsFiniteSet(T) /\ Cardinality(S) \in Nat /\ Cardinality(T) \in Nat /\ Cardinality(T) <= Cardinality(S) + 1
    BY <1>3, <2>1, OneMore
  <2> QED BY <1>1, <1>2, <1>3, <2>2, <2>3
<1>9. CASE Ending(j)
  <2>1. PICK x \in S : T \subseteq S \ {x}
    BY <1>9 DEF Ending
  <2>2. f = e /\ faults' = faults
    BY <1>9 DEF Ending
  <2> HIDE DEF S, T, a, b, e, f
  <2> QED BY <1>1, <1>2, <1>3, <2>1, <2>2, OneLess
<1>10. CASE Taking(j)
  <2>1. PICK x \in S : T \subseteq S \ {x}
    BY <1>10 DEF Taking
  <2>2. f = e + 1 /\ faults' = faults /\ b <= a
    BY <1>2, <1>10 DEF Taking
  <2> HIDE DEF S, T, a, b, e, f
  <2> QED BY <1>1, <1>2, <1>3, <2>1, <2>2, OneLess
<1>11. CASE Throwing(j)
  <2>1. PICK x \in S : \E y : T \subseteq (S \ {x}) \cup {y}
    BY <1>11 DEF Throwing
  <2>5. PICK y : T \subseteq (S \ {x}) \cup {y}
    BY <2>1
  <2>2. f = e /\ faults' = faults /\ b <= a
    BY <1>2, <1>11 DEF Throwing
  <2> HIDE DEF S, T, a, b, e, f
  <2>3. IsFiniteSet(S \ {x}) /\ Cardinality(S \ {x}) + 1 <= Cardinality(S) /\ Cardinality(S) \in Nat
    BY <1>3, OneLess
  <2>4. IsFiniteSet(T) /\ Cardinality(T) \in Nat /\ Cardinality(S \ {x}) \in Nat /\ Cardinality(T) <= Cardinality(S \ {x}) + 1
    BY <2>3, <2>5, OneMore
  <2> QED BY <1>1, <1>2, <1>3, <2>2, <2>3, <2>4
<1> QED BY <1>5, <1>6, <1>7, <1>8, <1>9, <1>10, <1>11

LEMMA RepeatsStep == TypeOK /\ TypeOK' /\ RepeatsInv /\ [Next]_vars => RepeatsInv'
<1> SUFFICES ASSUME TypeOK, TypeOK', RepeatsInv, [Next]_vars, NEW j \in Jobs
             PROVE  Quiet(j) \/ Faulty(j) \/ Refailing(j) \/ Taken(j) \/ Ending(j) \/ Taking(j) \/ Throwing(j)
  BY StillPaid DEF RepeatsInv
<1>a. /\ row[j] \in Rows /\ row'[j] \in Rows /\ faults \in Nat /\ effects[j] \in Nat
      /\ \A run \in runs : run \in Runs
  BY MaxFaultsAssumption DEF TypeOK
<1>1. ASSUME NEW w \in Workers, StartWorker(w) PROVE Quiet(j)
  <2>1. \A v : Renews(v, j) => Renews(v, j)'
    BY <1>1 DEF StartWorker, Renews, TypeOK
  <2> QED BY <1>1, <1>a, <2>1 DEF StartWorker, Quiet, Same, Owed, Loose
<1>2. ASSUME NEW w \in Workers, NEW S \in SUBSET Jobs, Claim(w, S) PROVE Quiet(j) \/ Taken(j)
  <2>1. /\ row'[j] = IF j \in S THEN Claimed(w, row[j]) ELSE row[j]
        /\ effects' = effects /\ proc' = proc /\ proc[w] = "up" /\ faults' = faults
        /\ tracked' = [tracked EXCEPT ![w] = @ \cup S]
    BY <1>2 DEF Claim
  <2>2. CASE j \in S
    <3>1. Loose(j)
      BY <1>2, <2>2 DEF Claim, Ready, Loose
    <3>2. /\ row'[j].status = "running" /\ row'[j].lockedBy = w /\ row'[j].lease = "live"
      BY <1>a, <2>1, <2>2, ClaimedRow
    <3>3. j \in tracked'[w] /\ proc'[w] = "up"
      BY <2>1, <2>2 DEF TypeOK
    <3>4. ~Loose(j)'
      BY <3>2, <3>3 DEF Loose, Renews
    <3>5. Owed(j)' \subseteq Owed(j) \cup {[worker |-> w, job |-> j, attempt |-> row[j].attempts + 1, phase |-> "handling"]}
      BY <1>2 DEF Claim, Owed
    <3> QED BY <2>1, <3>1, <3>4, <3>5 DEF Taken
  <2>3. CASE j \notin S
    <3>1. Owed(j)' \subseteq Owed(j)
      BY <1>2, <2>3 DEF Claim, Owed
    <3>2. \A v \in Workers : Renews(v, j) => Renews(v, j)'
      BY <2>1 DEF Renews, TypeOK
    <3>3. \A v : Renews(v, j) => Renews(v, j)'
      BY <2>1 DEF Renews, TypeOK
    <3> QED BY <1>a, <2>1, <2>3, <3>1, <3>3 DEF Quiet, Same, Loose
  <2> QED BY <2>2, <2>3
<1>3. ASSUME NEW w \in Workers, ExtendLeases(w) PROVE Quiet(j)
  <2>1. row'[j] = row[j] \/ (row[j].status = "running" /\ row'[j] = [row[j] EXCEPT !.lease = "live"])
    BY <1>3 DEF ExtendLeases
  <2>2. row'[j].status = row[j].status /\ row'[j].lockedBy = row[j].lockedBy /\ row'[j].lease \in {row[j].lease, "live"}
    BY <1>a, <2>1 DEF Rows
  <2> QED BY <1>3, <1>a, <2>2 DEF ExtendLeases, Quiet, Same, Owed, Loose, Renews
<1>4. ASSUME NEW w \in Workers, ReleaseJobs(w) \/ Kill(w) PROVE Faulty(j)
  BY <1>4 DEF ReleaseJobs, Kill, Gone, Fault, Faulty, Same, Owed
<1>5. ASSUME NEW w \in Workers, Shutdown(w) PROVE Quiet(j)
  <2>1. \A v : Renews(v, j) => Renews(v, j)'
    BY <1>5 DEF Shutdown, Renews, TypeOK
  <2> QED BY <1>5, <1>a, <2>1 DEF Shutdown, Quiet, Same, Owed, Loose
<1>6. ASSUME NEW w \in Workers, Exit(w) PROVE Quiet(j)
  <2>1. ~Renews(w, j) /\ row' = row /\ effects' = effects /\ faults' = faults /\ runs' \subseteq runs
    BY <1>6 DEF Exit, Gone, Renews
  <2>2. \A v : Renews(v, j) => Renews(v, j)'
    BY <1>6, <2>1 DEF Exit, Gone, Renews, TypeOK
  <2> QED BY <1>a, <2>1, <2>2 DEF Quiet, Same, Owed, Loose
<1>7. ASSUME NEW run \in runs, RunStep(run)
      PROVE  Quiet(j) \/ Faulty(j) \/ Refailing(j) \/ Ending(j) \/ Taking(j) \/ Throwing(j)
  <2> DEFINE untracked == tracked' = [tracked EXCEPT ![run.worker] = @ \ {run.job}]
  <2>a. run \in Runs /\ run.worker \in Workers /\ run.job \in Jobs
    BY <1>a, RunParts
  <2>b. ASSUME UNCHANGED <<row, proc, tracked>> PROVE Loose(j)' => Loose(j)
    BY <2>b DEF Loose, Renews
  <2>c. ASSUME untracked, UNCHANGED <<row, proc>>, run.job = j => ~HoldsLock(run) PROVE Loose(j)' => Loose(j)
    <3>1. \A v : (v # run.worker \/ j # run.job) => (Renews(v, j) => Renews(v, j)')
      BY <2>c DEF Renews, TypeOK
    <3> QED BY <2>c, <3>1 DEF Loose, HoldsLock
  <2>d. ASSUME NEW phase, Advance(run, phase)
        PROVE  /\ j # run.job => Owed(j)' \subseteq Owed(j)
               /\ Owed(j)' \subseteq (Owed(j) \ {run}) \cup {[run EXCEPT !.phase = phase]}
               /\ phase = "completing" => Owed(j)' \subseteq Owed(j) \ {run}
    <3>1. runs' = (runs \ {run}) \cup {[run EXCEPT !.phase = phase]}
      BY <2>d DEF Advance
    <3>2. [run EXCEPT !.phase = phase].job = run.job /\ [run EXCEPT !.phase = phase].phase = phase
      BY <2>a DEF Runs
    <3> QED BY <3>1, <3>2 DEF Owed
  <2>1. CASE HandlerSucceeds(run)
    <3>1. /\ Advance(run, "completing") /\ UNCHANGED <<row, proc, tracked>> /\ faults' = faults
          /\ effects' = [effects EXCEPT ![run.job] = @ + 1] /\ run.phase = "handling"
      BY <2>1 DEF HandlerSucceeds
    <3>2. CASE j = run.job
      <4>1. run \in Owed(j) /\ effects'[j] = effects[j] + 1
        BY <3>1, <3>2 DEF Owed, TypeOK
      <4> QED BY <2>b, <2>d, <3>1, <4>1 DEF Taking
    <3>3. CASE j # run.job
      <4>1. effects'[j] = effects[j]
        BY <3>1, <3>3 DEF TypeOK
      <4> QED BY <1>a, <2>b, <2>d, <3>1, <3>3, <4>1 DEF Quiet, Same
    <3> QED BY <3>2, <3>3
  <2>2. CASE HandlerThrows(run)
    <3>1. /\ Advance(run, "failing") /\ UNCHANGED <<row, proc, tracked, effects>> /\ faults' = faults
          /\ run.phase = "handling"
      BY <2>2 DEF HandlerThrows
    <3>2. CASE j = run.job
      <4>1. run \in Owed(j)
        BY <3>1, <3>2 DEF Owed
      <4> QED BY <2>b, <2>d, <3>1, <4>1 DEF Throwing
    <3>3. CASE j # run.job
      BY <1>a, <2>b, <2>d, <3>1, <3>3 DEF Quiet, Same
    <3> QED BY <3>2, <3>3
  <2>3. CASE CompleteJobRejects(run)
    <3>1. /\ Advance(run, "failing") /\ UNCHANGED <<row, proc, tracked, effects>> /\ faults' = faults + 1
      BY <2>3 DEF CompleteJobRejects, Fault
    <3>2. Owed(j)' \subseteq Owed(j) \cup {[run EXCEPT !.phase = "failing"]}
      BY <2>d, <3>1
    <3> QED BY <2>b, <3>1, <3>2 DEF Refailing
  <2>4. CASE FailJobRejects(run)
    BY <2>4 DEF FailJobRejects, Fault, Finish, Faulty, Same, Owed
  <2>5. CASE CompleteJob(run)
    <3>1. untracked /\ UNCHANGED <<proc, effects, faults>> /\ Owed(j)' \subseteq Owed(j)
      BY <2>5 DEF CompleteJob, Finish, Owed
    <3>2. Loose(j)' => Loose(j)
      <4>1. CASE HoldsLock(run) /\ run.job = j
        <5>1. row'[j] = Unlocked(row[j], "succeeded")
          BY <2>5, <4>1 DEF CompleteJob, TypeOK
        <5>2. row'[j].status = "succeeded"
          BY <1>a, <5>1, UnlockedRow DEF Statuses
        <5> QED BY <5>2 DEF Loose
      <4>2. CASE HoldsLock(run) /\ run.job # j
        <5>1. row'[j] = row[j]
          BY <2>5, <4>2 DEF CompleteJob, TypeOK
        <5>2. \A v : Renews(v, j) => Renews(v, j)'
          BY <3>1, <4>2 DEF Renews, TypeOK
        <5> QED BY <5>1, <5>2 DEF Loose
      <4>3. CASE ~HoldsLock(run)
        BY <2>5, <2>c, <3>1, <4>3 DEF CompleteJob
      <4> QED BY <4>1, <4>2, <4>3
    <3> QED BY <1>a, <3>1, <3>2 DEF Quiet, Same
  <2>6. CASE FailJob(run)
    <3>1. untracked /\ UNCHANGED <<proc, effects, faults>> /\ runs' = runs \ {run} /\ run.phase = "failing"
      BY <2>6 DEF FailJob, Finish
    <3>2. CASE run.job = j
      <4>1. run \in Owed(j) /\ Owed(j)' \subseteq Owed(j) \ {run}
        BY <3>1, <3>2 DEF Owed
      <4> QED BY <3>1, <4>1 DEF Ending
    <3>3. CASE run.job # j
      <4>1. row'[j] = row[j]
        BY <2>6, <3>3 DEF FailJob, TypeOK
      <4>2. \A v : Renews(v, j) => Renews(v, j)'
        BY <3>1, <3>3 DEF Renews, TypeOK
      <4>3. Owed(j)' \subseteq Owed(j)
        BY <3>1 DEF Owed
      <4> QED BY <1>a, <3>1, <4>1, <4>2, <4>3 DEF Quiet, Same, Loose
    <3> QED BY <3>2, <3>3
  <2> QED BY <1>7, <2>1, <2>2, <2>3, <2>4, <2>5, <2>6 DEF RunStep
<1>8. ASSUME NEW k \in Jobs, JobStep(k) PROVE Quiet(j) \/ Faulty(j)
  <2>1. CASE Outage(k)
    BY <2>1 DEF Outage, Fault, Faulty, Same, Owed
  <2>2. CASE ~Outage(k)
    <3>1. UNCHANGED <<proc, tracked, runs, effects, faults>>
      BY <1>8, <2>2 DEF JobStep, EnqueueJob, BecomeDue, LeaseLapses, PruneFinishedJobs
    <3>2. CASE j # k
      <4>1. row'[j] = row[j]
        BY <1>8, <3>2 DEF JobStep, EnqueueJob, BecomeDue, LeaseLapses, Outage, PruneFinishedJobs, TypeOK
      <4> QED BY <1>a, <3>1, <4>1 DEF Quiet, Same, Owed, Loose, Renews
    <3>3. CASE j = k
      <4>1. CASE EnqueueJob(j)
        BY <1>a, <3>1, <4>1 DEF EnqueueJob, Quiet, Same, Owed, Loose
      <4>2. CASE BecomeDue(j)
        <5>1. row[j].status = "queued"
          BY <4>2 DEF BecomeDue
        <5> QED BY <1>a, <3>1, <5>1 DEF Quiet, Same, Owed, Loose
      <4>3. CASE LeaseLapses(j)
        <5>1. row[j].status = "running" /\ ~Renews(row[j].lockedBy, j)
          BY <4>3 DEF LeaseLapses
        <5> QED BY <1>a, <3>1, <5>1 DEF Quiet, Same, Owed, Loose
      <4>4. CASE PruneFinishedJobs(j)
        <5>1. row'[j] = [row[j] EXCEPT !.status = "deleted"]
          BY <4>4 DEF PruneFinishedJobs, TypeOK
        <5>2. row'[j].status = "deleted"
          BY <1>a, <5>1 DEF Rows
        <5> QED BY <1>a, <3>1, <5>2 DEF Quiet, Same, Owed, Loose
      <4> QED BY <1>8, <2>2, <3>3, <4>1, <4>2, <4>3, <4>4 DEF JobStep
    <3> QED BY <3>2, <3>3
  <2> QED BY <2>1, <2>2
<1>9. ASSUME DeadLetterExpiredJobs PROVE Quiet(j)
  <2>1. row'[j] = row[j] \/ row'[j] = Unlocked(row[j], "dead")
    BY <1>9 DEF DeadLetterExpiredJobs
  <2>2. row'[j] = row[j] \/ row'[j].status = "dead"
    BY <1>a, <2>1, UnlockedRow DEF Statuses
  <2> QED BY <1>9, <1>a, <2>2 DEF DeadLetterExpiredJobs, Quiet, Same, Owed, Loose, Renews
<1>10. CASE UNCHANGED vars
  BY <1>10, <1>a DEF vars, Quiet, Same, Owed, Loose, Renews
<1> QED BY <1>1, <1>2, <1>3, <1>4, <1>5, <1>6, <1>7, <1>8, <1>9, <1>10 DEF Next, WorkerStep

\* A handler has run to its end at most once more often than there were crashes,
\* outages, lost replies and hand-backs, for any number of workers and jobs
\* (lib/jobs.ts, lib/worker.ts).
THEOREM RepeatsCorrect == Spec => []RepeatsNeedFaults
<1>1. Init => RepeatsInv
  <2> SUFFICES ASSUME Init, NEW j \in Jobs PROVE PaidFor(j)
    BY DEF RepeatsInv
  <2>1. Owed(j) = {} /\ effects[j] = 0 /\ faults = 0
    BY DEF Init, Owed
  <2> QED BY <2>1, FS_EmptySet DEF PaidFor
<1>2. TypeOK /\ TypeOK' /\ RepeatsInv /\ [Next]_vars => RepeatsInv'
  BY RepeatsStep
<1>3. TypeOK /\ RepeatsInv => RepeatsNeedFaults
  <2> SUFFICES ASSUME TypeOK, RepeatsInv, NEW j \in Jobs PROVE effects[j] <= 1 + faults
    BY DEF RepeatsNeedFaults
  <2> DEFINE c == Cardinality(Owed(j))
             a == IF Loose(j) THEN 1 ELSE 0
  <2>1. c \in Nat /\ a \in Nat /\ effects[j] + c + a <= 1 + faults
    BY FS_CardinalityType DEF RepeatsInv, PaidFor
  <2>2. effects[j] \in Nat /\ faults \in Nat
    BY MaxFaultsAssumption DEF TypeOK
  <2> HIDE DEF c, a
  <2> QED BY <2>1, <2>2
<1> QED BY <1>1, <1>2, <1>3, TypeCorrect, PTL DEF Spec
=============================================================================

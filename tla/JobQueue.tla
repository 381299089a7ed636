------------------------------ MODULE JobQueue ------------------------------
(***************************************************************************)
(* The background job queue of the web app: the table background_jobs      *)
(* (lib/jobs.ts) and the worker processes that drain it (lib/worker.ts).   *)
(*                                                                         *)
(* A row is claimed with a lease, the handler runs outside any             *)
(* transaction, and its outcome is written back only by the process whose  *)
(* id the row still carries in locked_by.  Time is abstract: "due" says    *)
(* that run_at has come, "lease" that locked_until has not (live) or has   *)
(* passed (lapsed).  A worker id is drawn at random when a process starts  *)
(* and is never used again, so a member of Workers is one incarnation.     *)
(***************************************************************************)
EXTENDS Naturals, FiniteSets

CONSTANTS
  Jobs,          \* row ids
  Workers,       \* worker incarnations
  None,          \* SQL null in locked_by
  Concurrency,   \* WORKER_CONCURRENCY
  MaxAttempts,   \* max_attempts of every row
  MaxFaults      \* bound: crashes, outages and hand-backs in one behaviour

ASSUME ConcurrencyAssumption == Concurrency \in Nat \ {0}
ASSUME MaxAttemptsAssumption == MaxAttempts \in Nat \ {0}
ASSUME MaxFaultsAssumption == MaxFaults \in Nat
ASSUME NoneAssumption == None \notin Workers

VARIABLES
  row,      \* the table: one record per job id
  proc,     \* the life of each worker process
  tracked,  \* the keys of its map "running"
  runs,     \* the calls of runJob in flight in any process
  effects,  \* how often the job's handler ran to its end
  faults    \* crashes, outages and hand-backs so far

vars == <<row, proc, tracked, runs, effects, faults>>

Statuses == {"absent", "queued", "running", "succeeded", "dead", "deleted"}
Phases == {"handling", "completing", "failing"}

Rows == [status : Statuses, lockedBy : Workers \cup {None},
         lease : {"none", "live", "lapsed"}, due : BOOLEAN, attempts : Nat]

Runs == [worker : Workers, job : Jobs, attempt : Nat \ {0}, phase : Phases]

NoRow == [status |-> "absent", lockedBy |-> None, lease |-> "none",
          due |-> FALSE, attempts |-> 0]

Init ==
  /\ row = [j \in Jobs |-> NoRow]
  /\ proc = [w \in Workers |-> "off"]
  /\ tracked = [w \in Workers |-> {}]
  /\ runs = {}
  /\ effects = [j \in Jobs |-> 0]
  /\ faults = 0

-----------------------------------------------------------------------------
(* Rows *)

\* insert: a fresh id, at once due or with a later run_at
EnqueueJob(j) ==
  /\ row[j].status = "absent"
  /\ \E due \in BOOLEAN :
       row' = [row EXCEPT ![j] = [NoRow EXCEPT !.status = "queued", !.due = due]]
  /\ UNCHANGED <<proc, tracked, runs, effects, faults>>

\* run_at <= now()
BecomeDue(j) ==
  /\ row[j].status = "queued" /\ ~row[j].due
  /\ row' = [row EXCEPT ![j].due = TRUE]
  /\ UNCHANGED <<proc, tracked, runs, effects, faults>>

ReadyBug1(j) == row[j].status = "queued" /\ row[j].due
ReadyBug2(j) ==
  \/ row[j].status = "queued" /\ row[j].due
  \/ row[j].status = "running" /\ row[j].attempts < MaxAttempts
Ready(j) ==
  \/ row[j].status = "queued" /\ row[j].due
  \/ /\ row[j].status = "running" /\ row[j].lease = "lapsed"
     /\ row[j].attempts < MaxAttempts

Claimed(w, r) ==
  [status |-> "running", lockedBy |-> w, lease |-> "live",
   due |-> r.due, attempts |-> r.attempts + 1]

Unlocked(r, status) == [r EXCEPT !.status = status, !.lockedBy = None, !.lease = "none"]

\* update ... where id = run.job and locked_by = run.worker
HoldsLockBug(run) == TRUE
HoldsLock(run) == row[run.job].lockedBy = run.worker

-----------------------------------------------------------------------------
(* Worker processes *)

StartWorker(w) ==
  /\ proc[w] = "off"
  /\ proc' = [proc EXCEPT ![w] = "up"]
  /\ UNCHANGED <<row, tracked, runs, effects, faults>>

\* pollOnce: claimJobs for the free places, then runJob for each claimed row.
\* SKIP LOCKED lets concurrent claims leave any ready row out.
Claim(w, S) ==
  /\ proc[w] = "up"
  /\ S # {} /\ \A j \in S : Ready(j)
  /\ Cardinality(S) <= Concurrency - Cardinality(tracked[w])
  /\ row' = [j \in Jobs |-> IF j \in S THEN Claimed(w, row[j]) ELSE row[j]]
  /\ runs' = runs \cup {[worker |-> w, job |-> j, attempt |-> row[j].attempts + 1,
                          phase |-> "handling"] : j \in S}
  /\ tracked' = [tracked EXCEPT ![w] = @ \cup S]
  /\ UNCHANGED <<proc, effects, faults>>

Fault == faults < MaxFaults /\ faults' = faults + 1

Advance(run, phase) == runs' = (runs \ {run}) \cup {[run EXCEPT !.phase = phase]}

HandlerSucceeds(run) ==
  /\ run.phase = "handling"
  /\ Advance(run, "completing")
  /\ effects' = [effects EXCEPT ![run.job] = @ + 1]
  /\ UNCHANGED <<row, proc, tracked, faults>>

HandlerThrows(run) ==
  /\ run.phase = "handling"
  /\ Advance(run, "failing")
  /\ UNCHANGED <<row, proc, tracked, effects, faults>>

\* runJob(...).finally(() => state.running.delete(job.id))
Finish(run) ==
  /\ runs' = runs \ {run}
  /\ tracked' = [tracked EXCEPT ![run.worker] = @ \ {run.job}]

CompleteJob(run) ==
  /\ run.phase = "completing"
  /\ row' = IF HoldsLock(run)
            THEN [row EXCEPT ![run.job] = Unlocked(@, "succeeded")]
            ELSE row
  /\ Finish(run)
  /\ UNCHANGED <<proc, effects, faults>>

\* completeJob rejects: the catch of runJob fails the job instead
CompleteJobRejects(run) ==
  /\ run.phase = "completing"
  /\ Fault
  /\ Advance(run, "failing")
  /\ UNCHANGED <<row, proc, tracked, effects>>

\* dead is decided from the attempt number read at the claim
FailedRowBug2(run, r) ==
  IF run.attempt + 1 >= MaxAttempts THEN Unlocked(r, "dead") ELSE Unlocked(r, "queued")
FailedRow(run, r) ==
  IF run.attempt >= MaxAttempts
  THEN Unlocked(r, "dead")
  ELSE [Unlocked(r, "queued") EXCEPT !.due = FALSE]

FailJob(run) ==
  /\ run.phase = "failing"
  /\ row' = IF HoldsLock(run)
            THEN [row EXCEPT ![run.job] = FailedRow(run, @)]
            ELSE row
  /\ Finish(run)
  /\ UNCHANGED <<proc, effects, faults>>

\* failJob(...).catch(() => ...): the row keeps its lock until the lease lapses
FailJobRejects(run) ==
  /\ run.phase = "failing"
  /\ Fault
  /\ Finish(run)
  /\ UNCHANGED <<row, proc, effects>>

\* heartbeat: extendLeases over the tracked jobs
ExtendLeases(w) ==
  LET mine == {j \in tracked[w] : row[j].status = "running" /\ row[j].lockedBy = w}
  IN  /\ proc[w] = "up"
      /\ \E j \in mine : row[j].lease = "lapsed"
      /\ row' = [j \in Jobs |-> IF j \in mine THEN [row[j] EXCEPT !.lease = "live"]
                                              ELSE row[j]]
      /\ UNCHANGED <<proc, tracked, runs, effects, faults>>

\* The heartbeat (every 20 s) renews j before its lease (at least 45 s) ends; a
\* stopping process no longer renews, but its lease outlives the grace of 20 s.
Renews(w, j) == proc[w] \in {"up", "stopping"} /\ j \in tracked[w]

\* locked_until < now(): nobody renews the lease
LeaseLapses(j) ==
  /\ row[j].status = "running" /\ row[j].lease = "live"
  /\ ~Renews(row[j].lockedBy, j)
  /\ row' = [row EXCEPT ![j].lease = "lapsed"]
  /\ UNCHANGED <<proc, tracked, runs, effects, faults>>

\* the holder is alive but its renewals were rejected or late for a whole lease
Outage(j) ==
  /\ row[j].status = "running" /\ row[j].lease = "live"
  /\ Renews(row[j].lockedBy, j)
  /\ Fault
  /\ row' = [row EXCEPT ![j].lease = "lapsed"]
  /\ UNCHANGED <<proc, tracked, runs, effects>>

-----------------------------------------------------------------------------
(* Redeploys and crashes: the platform keeps another worker available *)

Replaceable(w) == \E v \in Workers \ {w} : proc[v] \in {"off", "up"}

\* SIGTERM: no more polls or heartbeats
Shutdown(w) ==
  /\ proc[w] = "up" /\ Replaceable(w)
  /\ proc' = [proc EXCEPT ![w] = "stopping"]
  /\ UNCHANGED <<row, tracked, runs, effects, faults>>

ReleasedRow(r) == [Unlocked(r, "queued") EXCEPT !.attempts = IF @ > 0 THEN @ - 1 ELSE 0]

\* the grace period ended first: releaseJobs for what is still tracked.  The
\* calls of runJob go on until the process exits; a rejected update is ignored.
ReleaseJobs(w) ==
  /\ proc[w] = "stopping" /\ tracked[w] # {}
  /\ Fault
  /\ \/ row' = [j \in Jobs |->
                  IF j \in tracked[w] /\ row[j].status = "running" /\ row[j].lockedBy = w
                  THEN ReleasedRow(row[j]) ELSE row[j]]
     \/ UNCHANGED row
  /\ proc' = [proc EXCEPT ![w] = "released"]
  /\ UNCHANGED <<tracked, runs, effects>>

Gone(w) ==
  /\ proc' = [proc EXCEPT ![w] = "gone"]
  /\ runs' = {run \in runs : run.worker # w}
  /\ tracked' = [tracked EXCEPT ![w] = {}]
  /\ UNCHANGED <<row, effects>>

Exit(w) ==
  /\ \/ proc[w] = "released"
     \/ proc[w] = "stopping" /\ tracked[w] = {}
  /\ Gone(w)
  /\ UNCHANGED faults

Kill(w) ==
  /\ proc[w] \in {"up", "stopping"} /\ Replaceable(w)
  /\ Fault
  /\ Gone(w)

-----------------------------------------------------------------------------
(* Queue maintenance, itself a scheduled task *)

DeadLetterExpiredJobs ==
  LET expired == {j \in Jobs : /\ row[j].status = "running" /\ row[j].lease = "lapsed"
                               /\ row[j].attempts >= MaxAttempts}
  IN  /\ expired # {}
      /\ row' = [j \in Jobs |-> IF j \in expired THEN Unlocked(row[j], "dead") ELSE row[j]]
      /\ UNCHANGED <<proc, tracked, runs, effects, faults>>

PruneFinishedJobs(j) ==
  /\ row[j].status \in {"succeeded", "dead"}
  /\ row' = [row EXCEPT ![j].status = "deleted"]
  /\ UNCHANGED <<proc, tracked, runs, effects, faults>>

-----------------------------------------------------------------------------

WorkerStep(w) ==
  \/ StartWorker(w)
  \/ \E S \in SUBSET Jobs : Claim(w, S)
  \/ ExtendLeases(w)
  \/ Shutdown(w) \/ ReleaseJobs(w) \/ Exit(w) \/ Kill(w)

RunStep(run) ==
  \/ HandlerSucceeds(run) \/ HandlerThrows(run)
  \/ CompleteJob(run) \/ CompleteJobRejects(run)
  \/ FailJob(run) \/ FailJobRejects(run)

JobStep(j) ==
  EnqueueJob(j) \/ BecomeDue(j) \/ LeaseLapses(j) \/ Outage(j) \/ PruneFinishedJobs(j)

Next ==
  \/ \E w \in Workers : WorkerStep(w)
  \/ \E run \in runs : RunStep(run)
  \/ \E j \in Jobs : JobStep(j)
  \/ DeadLetterExpiredJobs

Spec == Init /\ [][Next]_vars

\* Handlers return, timers fire and the database answers again in the end;
\* the claim is strongly fair because it takes rows in the order of run_at.
Returns(w, j) ==
  \E run \in runs : /\ run.worker = w /\ run.job = j
                    /\ \/ HandlerSucceeds(run) \/ HandlerThrows(run)
                       \/ CompleteJob(run) \/ FailJob(run)

ClaimOf(w, j) == \E S \in SUBSET Jobs : j \in S /\ Claim(w, S)

Fairness ==
  /\ \A w \in Workers : /\ WF_vars(StartWorker(w))
                        /\ WF_vars(ReleaseJobs(w)) /\ WF_vars(Exit(w))
  /\ \A j \in Jobs : WF_vars(BecomeDue(j)) /\ WF_vars(LeaseLapses(j))
  /\ \A w \in Workers, j \in Jobs : SF_vars(ClaimOf(w, j)) /\ WF_vars(Returns(w, j))
  /\ WF_vars(DeadLetterExpiredJobs)

FairSpec == Spec /\ Fairness

-----------------------------------------------------------------------------
(* Properties *)

\* Every variable has its type, and a tracked job or a call in flight belongs
\* to a process that is alive.
TypeOK ==
  /\ row \in [Jobs -> Rows]
  /\ proc \in [Workers -> {"off", "up", "stopping", "released", "gone"}]
  /\ tracked \in [Workers -> SUBSET Jobs]
  /\ runs \subseteq Runs
  /\ effects \in [Jobs -> Nat]
  /\ faults \in 0..MaxFaults

\* A row carries a lock exactly while it is running, whatever order the
\* outcomes of competing calls, hand-backs and dead-lettering arrive in: a
\* finished or queued row with a lock could be finished again by its old holder,
\* a running one without could never be finished.
LockedIffRunning ==
  \A j \in Jobs : /\ row[j].status = "running" <=> row[j].lockedBy # None
                  /\ row[j].status = "running" <=> row[j].lease # "none"

\* A job is only reported done when its handler ran to the end, and only given
\* up after its last attempt, even when several processes ran it at once and a
\* redeploy handed attempts back.
OutcomeIsEarned ==
  \A j \in Jobs : /\ row[j].status = "succeeded" => effects[j] > 0
                  /\ row[j].status = "dead" => row[j].attempts >= MaxAttempts

\* What a row says of its job is true: who has it, and how it ended.
RowsAreTrue == LockedIffRunning /\ OutcomeIsEarned

\* Each repetition of a job's effect is paid for by a crash, an outage, a lost
\* reply of the database or a hand-back: without those the handler runs to its
\* end once.
RepeatsNeedFaults == \A j \in Jobs : effects[j] <= 1 + faults

\* worker.ts says of the workers that "nothing runs twice": no two calls of a
\* job's handler at the same time.
NothingRunsTwice ==
  \A r1, r2 \in runs :
    r1.job = r2.job /\ r1.phase = "handling" /\ r2.phase = "handling" => r1 = r2

\* jobs.ts: a failed job is retried "or mark[ed] dead once attempts are used
\* up": no claim goes beyond max_attempts.
AttemptsWithinMax == \A j \in Jobs : row[j].attempts <= MaxAttempts

KeepsOutcome(j) ==
  row[j].status \in {"succeeded", "dead"} =>
    /\ row'[j] = [row[j] EXCEPT !.status = row'[j].status]
    /\ row'[j].status \in {row[j].status, "deleted"}

OutcomesKept == \A j \in Jobs : KeepsOutcome(j)

\* The outcome of a job is final: a late call of an old holder never reopens a
\* finished job or turns one outcome into the other.
OutcomeIsFinal == [][OutcomesKept]_vars

\* Every accepted job is finished or given up, although workers crash, stop and
\* lose their leases: the lease, the retry and the dead letter leave none behind.
EveryJobEnds ==
  \A j \in Jobs : row[j].status = "queued" ~> row[j].status \in {"succeeded", "dead", "deleted"}
=============================================================================

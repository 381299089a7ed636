-------------------------- MODULE StatusMonitoring --------------------------
(***************************************************************************)
(* The registration of communities with the uptime monitor: a trigger      *)
(* keeps one row per organization, a synchronisation brings the monitor in *)
(* line with the rows, the removal of a community runs one of its own      *)
(* beside the scheduled one.  The bridge to the monitor is configured.     *)
(***************************************************************************)
EXTENDS Naturals, FiniteSets

CONSTANTS
    Communities,    \* organizations with a tenant hostname
    NoCommunity,
    Scheduled,      \* the scheduled synchronisation, one at a time by its advisory lock
    Removals,       \* runs of the removal worker, which synchronise without that lock
    MaxMishaps,     \* bound on refused calls, lost answers and dead processes
    MaxChecks       \* bound on daily checks of active rows

ASSUME MonitoringAssumption ==
    /\ NoCommunity \notin Communities
    /\ Scheduled \notin Removals
    /\ {MaxMishaps, MaxChecks} \subseteq Nat

Syncs == {Scheduled} \cup Removals

VARIABLES
    closing,         \* organizations that are being decommissioned
    retired,         \* those whose address the removal has freed
    registrations,   \* status_monitoring_registrations
    monitors,        \* the communities that the monitor watches
    syncs,           \* what each synchronisation is doing
    abandoned,       \* history: communities whose monitor no row will know of
    mishaps, checks

monitoringVars == <<closing, retired, registrations, monitors, syncs, abandoned,
                    mishaps, checks>>

Rows == [community : Communities, removed : BOOLEAN, known : BOOLEAN]
Resting == [at |-> "idle", rows |-> {}, row |-> {}, for |-> NoCommunity]
Begun(rows, c) == [at |-> "rows", rows |-> rows, row |-> {}, for |-> c]

MonitoringTypeOK ==
    /\ closing \subseteq Communities /\ retired \subseteq closing
    /\ registrations \in [Communities ->
          [desired : {"active", "removed"}, known : BOOLEAN,
           status : {"pending", "waiting_ready", "provisioning", "active", "failed",
                     "removing", "removed"}]]
    /\ monitors \subseteq Communities /\ abandoned \subseteq Communities
    /\ \A s \in Syncs :
          /\ syncs[s].at \in {"idle", "rows", "delete", "forget", "upsert", "record"}
          /\ syncs[s].rows \subseteq Rows /\ syncs[s].row \subseteq Rows
          /\ syncs[s].for \in Communities \cup {NoCommunity}
    /\ mishaps \in 0..MaxMishaps /\ checks \in 0..MaxChecks

MonitoringInit ==
    /\ closing = {} /\ retired = {}
    /\ registrations = [c \in Communities |->
          [desired |-> "active", known |-> FALSE, status |-> "pending"]]
    /\ monitors = {} /\ abandoned = {}
    /\ syncs = [s \in Syncs |-> Resting]
    /\ mishaps = 0 /\ checks = 0

----------------------------------------------------------------------------
(* The trigger on organizations, and markOrganizationMonitoringForRemoval. *)
ToBeRemoved(row) ==
    [row EXCEPT !.desired = "removed", !.status = IF @ = "removed" THEN @ ELSE "removing"]

DecommissionCommunity(c) ==
    /\ c \notin closing
    /\ closing' = closing \cup {c}
    /\ registrations' = [registrations EXCEPT ![c] = ToBeRemoved(@)]
    /\ UNCHANGED <<retired, monitors, syncs, abandoned, mishaps, checks>>

(* Rows that are not as desired; an active one is checked again daily. *)
DueBug(regs) == {c \in Communities :
                    regs[c].status # regs[c].desired /\ regs[c].status # "failed"}
DueCheck(regs) == {c \in Communities : regs[c].status # regs[c].desired}
ReadRows(regs, cs) ==
    {[community |-> c, known |-> regs[c].known,
      removed |-> regs[c].desired = "removed" \/ c \in closing] : c \in cs}

(* syncStatusMonitoring, as the scheduled task *)
BeginScheduledSync ==
    /\ syncs[Scheduled].at = "idle"
    /\ \E daily \in SUBSET {c \in Communities : /\ registrations[c].status = "active"
                                                /\ registrations[c].desired = "active"} :
          /\ daily # {} => checks < MaxChecks
          /\ checks' = IF daily # {} THEN checks + 1 ELSE checks
          /\ LET due == DueCheck(registrations) \cup daily IN
                /\ due # {}
                /\ syncs' = [syncs EXCEPT ![Scheduled] =
                                Begun(ReadRows(registrations, due), NoCommunity)]
    /\ UNCHANGED <<closing, retired, registrations, monitors, abandoned, mishaps>>

(* ... and at the end of cleanupOrganizationInfrastructure, which marks    *)
(* the row of its own organization first.                                  *)
BeginRemovalSync(s, c) ==
    /\ syncs[s].at = "idle"
    /\ c \in closing \ retired
    /\ \A t \in Removals : syncs[t].for # c
    /\ registrations' = [registrations EXCEPT ![c] = ToBeRemoved(@)]
    /\ syncs' = [syncs EXCEPT ![s] =
                    Begun(ReadRows(registrations', DueCheck(registrations')), c)]
    /\ UNCHANGED <<closing, retired, monitors, abandoned, mishaps, checks>>

----------------------------------------------------------------------------
(* One row after the other, each as it was read at the beginning.          *)

Row(s) == CHOOSE r \in syncs[s].row : TRUE
Community(s) == Row(s).community
SetStatus(c, status) == registrations' = [registrations EXCEPT ![c].status = status]
Turn(s, place) == syncs' = [syncs EXCEPT ![s].at = place]
NextRow(s) == syncs' = [syncs EXCEPT ![s].at = "rows", ![s].row = {}]
Take(s, row, place) ==
    syncs' = [syncs EXCEPT ![s].at = place, ![s].rows = @ \ {row}, ![s].row = {row}]

(* A row to remove: the monitor is asked only if the row knows its id. *)
TakeRemoved(s) ==
    /\ syncs[s].at = "rows"
    /\ \E row \in syncs[s].rows :
          /\ row.removed
          /\ SetStatus(row.community, "removing")
          /\ Take(s, row, IF row.known THEN "delete" ELSE "forget")
    /\ UNCHANGED <<closing, retired, monitors, abandoned, mishaps, checks>>

DeleteMonitor(s) ==
    /\ syncs[s].at = "delete"
    /\ monitors' = monitors \ {Community(s)}
    /\ Turn(s, "forget")
    /\ UNCHANGED <<closing, retired, registrations, abandoned, mishaps, checks>>

WriteRemoved(s) ==
    /\ syncs[s].at = "forget"
    /\ abandoned' = abandoned \cup ({Community(s)} \cap monitors)
    /\ registrations' = [registrations EXCEPT ![Community(s)].status = "removed",
                                              ![Community(s)].known = FALSE]
    /\ NextRow(s)
    /\ UNCHANGED <<closing, retired, monitors, mishaps, checks>>

(* A row to watch: first the community has to answer its readiness check. *)
TakeActive(s) ==
    /\ syncs[s].at = "rows"
    /\ \E row \in syncs[s].rows :
          /\ ~row.removed
          /\ SetStatus(row.community, "provisioning")
          /\ Take(s, row, "upsert")
    /\ UNCHANGED <<closing, retired, monitors, abandoned, mishaps, checks>>

TakeUnready(s) ==
    /\ syncs[s].at = "rows"
    /\ mishaps < MaxMishaps
    /\ \E row \in syncs[s].rows :
          /\ ~row.removed
          /\ SetStatus(row.community, "waiting_ready")
          /\ Take(s, row, "rows")
    /\ mishaps' = mishaps + 1
    /\ UNCHANGED <<closing, retired, monitors, abandoned, checks>>

UpsertMonitor(s) ==
    /\ syncs[s].at = "upsert"
    /\ monitors' = monitors \cup {Community(s)}
    /\ Turn(s, "record")
    /\ UNCHANGED <<closing, retired, registrations, abandoned, mishaps, checks>>

WriteActive(s) ==
    /\ syncs[s].at = "record"
    /\ registrations' = [registrations EXCEPT ![Community(s)].status = "active",
                                              ![Community(s)].known = TRUE]
    /\ NextRow(s)
    /\ UNCHANGED <<closing, retired, monitors, abandoned, mishaps, checks>>

(* A call or a statement fails: the row is marked and the next one taken.  *)
(* A monitor that was made is not written down.                            *)
Unrecorded(s) == IF syncs[s].at = "record" THEN {Community(s)} ELSE {}
RowFails(s) ==
    /\ mishaps < MaxMishaps
    /\ syncs[s].at \in {"delete", "forget", "upsert", "record"}
    /\ SetStatus(Community(s), "failed")
    /\ abandoned' = abandoned \cup Unrecorded(s)
    /\ NextRow(s)
    /\ mishaps' = mishaps + 1
    /\ UNCHANGED <<closing, retired, monitors, checks>>

SyncDies(s) ==
    /\ mishaps < MaxMishaps
    /\ syncs[s].at # "idle"
    /\ abandoned' = abandoned \cup Unrecorded(s)
    /\ syncs' = [syncs EXCEPT ![s] = Resting]
    /\ mishaps' = mishaps + 1
    /\ UNCHANGED <<closing, retired, registrations, monitors, checks>>

(* The end.  What failed for single rows is not looked at: the removal     *)
(* goes on to free the address.                                            *)
EndSync(s) ==
    /\ syncs[s].at = "rows"
    /\ syncs[s].rows = {}
    /\ syncs' = [syncs EXCEPT ![s] = Resting]
    /\ retired' = retired \cup ({syncs[s].for} \ {NoCommunity})
    /\ UNCHANGED <<closing, registrations, monitors, abandoned, mishaps, checks>>

----------------------------------------------------------------------------
RowSteps(s) ==
    \/ TakeRemoved(s) \/ DeleteMonitor(s) \/ WriteRemoved(s)
    \/ TakeActive(s) \/ UpsertMonitor(s) \/ WriteActive(s) \/ EndSync(s)

Mishaps(s) == TakeUnready(s) \/ RowFails(s) \/ SyncDies(s)

MonitoringNext ==
    \/ \E c \in Communities : DecommissionCommunity(c)
    \/ BeginScheduledSync
    \/ \E s \in Removals, c \in Communities : BeginRemovalSync(s, c)
    \/ \E s \in Syncs : RowSteps(s) \/ Mishaps(s)

MonitoringSpec == MonitoringInit /\ [][MonitoringNext]_monitoringVars

(* The scheduler starts the task again and again, and what runs goes on.   *)
MonitoringFairness ==
    /\ WF_monitoringVars(BeginScheduledSync)
    /\ \A s \in Syncs : WF_monitoringVars(RowSteps(s))

FairMonitoringSpec == MonitoringSpec /\ MonitoringFairness

----------------------------------------------------------------------------
(* A community that is being removed is at last no longer watched, however *)
(* the scheduled synchronisation and the removal's own one overlap and     *)
(* whatever rows fail, unless a run made the monitor and could not write   *)
(* it down, or wrote the row off while another run had just made it        *)
(* (status-monitoring.ts syncStatusMonitoring).                            *)
MonitorsGo ==
    \A c \in Communities : []<>(c \in closing \cap monitors => c \in abandoned)

(* Not kept: a registration is removed only when nothing watches the       *)
(* community.  A run that read the row before another made the monitor has *)
(* no id to delete and writes the row off.                                 *)
RemovedIsUnwatched ==
    \A c \in Communities :
        (/\ registrations[c].status = "removed"
         /\ \A s \in Syncs : syncs[s].at = "idle") => c \notin monitors

(* docs/ORGANIZATION-ONBOARDING.md, not kept: the address "is freed as     *)
(* soon as the outside cleanup finishes (DNS, certificates, monitors)".    *)
RetiredIsUnwatched == retired \cap monitors = {}
=============================================================================

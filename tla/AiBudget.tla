------------------------------ MODULE AiBudget ------------------------------
(***************************************************************************)
(* Governed AI jobs of an organization: the opt-in with its monthly cap,   *)
(* the admission of a job under a lock of the settings row, the call of    *)
(* the provider, the record of its cost, and the fall back to the manual   *)
(* workflow.  A gateway job asks the LLM gateway, a document job Google    *)
(* Document AI; they differ in what they record after the answer.          *)
(***************************************************************************)
EXTENDS Naturals, FiniteSets

CONSTANTS
    GatewayJobs, DocumentJobs,  \* requests that each start one job
    Budgets,        \* monthly caps an administrator may set; 0 is none
    Reservation,    \* what an admitted job reserves: AI_MAX_JOB_COST_MICROUSD
    Costs,          \* what a provider may charge for one call
    MaxSettings,    \* bound on the changes of the settings
    MaxLosses,      \* bound on dead processes and refused statements
    MaxMonths       \* bound on the turns of the month

AiJobs == GatewayJobs \cup DocumentJobs

ASSUME AiAssumption ==
    /\ GatewayJobs \cap DocumentJobs = {} /\ IsFiniteSet(AiJobs)
    /\ Budgets \subseteq Nat /\ Costs \subseteq Nat
    /\ Reservation \in Nat \ {0}
    /\ {MaxSettings, MaxLosses, MaxMonths} \subseteq Nat

VARIABLES
    optIn,       \* organization_ai_settings: whether AI is enabled, and the cap
    aiJobs,      \* ai_jobs
    calls,       \* where each request is, and the month its transaction began in
    charged,     \* history: what the provider charged for each request's call
    stranded,    \* history: requests that could not release their reservation
    month,       \* the calendar month
    settingsChanges, losses

aiVars == <<optIn, aiJobs, calls, charged, stranded, month, settingsChanges, losses>>

NoJob == [status |-> "none", reserved |-> 0, cost |-> 0, month |-> 0]

AiTypeOK ==
    /\ optIn \in [enabled : BOOLEAN, budget : Budgets \cup {0}]
    /\ aiJobs \in [AiJobs -> [status : {"none", "processing", "completed", "failed"},
                              reserved : {0, Reservation}, cost : Costs \cup {0},
                              month : 0..MaxMonths]]
    /\ calls \in [AiJobs -> [at : {"idle", "begun", "locked", "counted", "provider",
                                   "answered", "daily", "fallback", "over"},
                             month : 0..MaxMonths]]
    /\ charged \in [AiJobs -> Costs \cup {0}]
    /\ stranded \subseteq AiJobs
    /\ month \in 0..MaxMonths
    /\ settingsChanges \in 0..MaxSettings
    /\ losses \in 0..MaxLosses

AiInit ==
    /\ optIn = [enabled |-> FALSE, budget |-> 0]
    /\ aiJobs = [j \in AiJobs |-> NoJob]
    /\ calls = [j \in AiJobs |-> [at |-> "idle", month |-> 0]]
    /\ charged = [j \in AiJobs |-> 0]
    /\ stranded = {}
    /\ month = 0
    /\ settingsChanges = 0
    /\ losses = 0

----------------------------------------------------------------------------
(* The lock of the settings row, held from the read of the settings to the *)
(* commit of the admission.                                                *)

SettingsLockedBug == FALSE
SettingsLocked == \E j \in AiJobs : calls[j].at \in {"locked", "counted"}

(* updateOrganizationAiSettings: enabling asks for a cap. *)
UpdateAiSettings ==
    /\ settingsChanges < MaxSettings
    /\ ~SettingsLocked
    /\ \E on \in BOOLEAN, b \in Budgets \cup {0} :
          /\ on => b >= 1
          /\ optIn' = [enabled |-> on, budget |-> b]
    /\ settingsChanges' = settingsChanges + 1
    /\ UNCHANGED <<aiJobs, calls, charged, stranded, month, losses>>

(* The month turns; usage is counted by the month a job was created in. *)
MonthTurns ==
    /\ month < MaxMonths
    /\ month' = month + 1
    /\ UNCHANGED <<optIn, aiJobs, calls, charged, stranded, settingsChanges, losses>>

----------------------------------------------------------------------------
At(j, place) == calls' = [calls EXCEPT ![j].at = place]

UsageOf == [j \in AiJobs |->
    CASE aiJobs[j].status = "processing" -> aiJobs[j].reserved
      [] aiJobs[j].status = "completed" -> aiJobs[j].cost
      [] OTHER -> 0]

(* The sum of the amounts of jobs, counted unit by unit. *)
SumOf(amounts, jobs) == Cardinality(UNION {{j} \X (1..amounts[j]) : j \in jobs})

JobsSince(m) == {j \in AiJobs : aiJobs[j].month >= m}
Usage(m) == SumOf(UsageOf, JobsSince(m))

BudgetAllows(usage) == optIn.budget > 0 /\ usage + Reservation <= optIn.budget

(* beginGovernedAiJob: the transaction's start gives the month of the job. *)
BeginJob(j) ==
    /\ calls[j].at = "idle"
    /\ calls' = [calls EXCEPT ![j] = [at |-> "begun", month |-> month]]
    /\ UNCHANGED <<optIn, aiJobs, charged, stranded, month, settingsChanges, losses>>

(* ... the settings are read and locked; what is not enabled is refused *)
LockSettings(j) ==
    /\ calls[j].at = "begun"
    /\ ~SettingsLocked
    /\ At(j, IF optIn.enabled THEN "locked" ELSE "over")
    /\ UNCHANGED <<optIn, aiJobs, charged, stranded, month, settingsChanges, losses>>

(* ... the usage of the month is counted; over the cap it is refused *)
CountUsage(j) ==
    /\ calls[j].at = "locked"
    /\ At(j, IF BudgetAllows(Usage(calls[j].month)) THEN "counted" ELSE "over")
    /\ UNCHANGED <<optIn, aiJobs, charged, stranded, month, settingsChanges, losses>>

(* ... and the job is inserted with its reservation, and committed. *)
AdmitJob(j) ==
    /\ calls[j].at = "counted"
    /\ aiJobs' = [aiJobs EXCEPT ![j] = [status |-> "processing", reserved |-> Reservation,
                                        cost |-> 0, month |-> calls[j].month]]
    /\ At(j, "provider")
    /\ UNCHANGED <<optIn, charged, stranded, month, settingsChanges, losses>>

----------------------------------------------------------------------------
(* The provider is called.  It answers, at a cost; or the call fails, is   *)
(* cut off by the time limit or gives no structured text, at a cost the    *)
(* program is not told.                                                    *)
ProviderAnswers(j) ==
    /\ calls[j].at = "provider"
    /\ \E c \in Costs : charged' = [charged EXCEPT ![j] = c]
    /\ At(j, "answered")
    /\ UNCHANGED <<optIn, aiJobs, stranded, month, settingsChanges, losses>>

ProviderFails(j) ==
    /\ calls[j].at = "provider"
    /\ \E c \in Costs \cup {0} : charged' = [charged EXCEPT ![j] = c]
    /\ At(j, "fallback")
    /\ UNCHANGED <<optIn, aiJobs, stranded, month, settingsChanges, losses>>

(* The result and its cost are recorded, and the reservation is released. *)
RecordResult(j) ==
    /\ calls[j].at = "answered"
    /\ aiJobs' = [aiJobs EXCEPT ![j] = [status |-> "completed", reserved |-> 0,
                                        cost |-> charged[j], month |-> @.month]]
    /\ At(j, "daily")
    /\ UNCHANGED <<optIn, charged, stranded, month, settingsChanges, losses>>

RecordDaily(j) ==
    /\ calls[j].at = "daily"
    /\ At(j, "over")
    /\ UNCHANGED <<optIn, aiJobs, charged, stranded, month, settingsChanges, losses>>

(* A statement after the answer is refused.  Only the gateway forgives a   *)
(* failure of the daily total; everything else falls back.                 *)
StatementRefused(j) ==
    /\ losses < MaxLosses
    /\ calls[j].at \in {"answered", "daily"}
    /\ At(j, IF calls[j].at = "daily" /\ j \in GatewayJobs THEN "over" ELSE "fallback")
    /\ losses' = losses + 1
    /\ UNCHANGED <<optIn, aiJobs, charged, stranded, month, settingsChanges>>

(* recordAiFallback *)
Failed(job) == [job EXCEPT !.status = "failed", !.reserved = 0]
FallBack(j) ==
    /\ calls[j].at = "fallback"
    /\ aiJobs' = [aiJobs EXCEPT ![j] = Failed(@)]
    /\ At(j, "over")
    /\ UNCHANGED <<optIn, charged, stranded, month, settingsChanges, losses>>

(* recordAiFallback is refused, or the process dies: nobody looks for the  *)
(* job again.  An open admission is rolled back.                           *)
RequestLost(j) ==
    /\ losses < MaxLosses
    /\ calls[j].at \notin {"idle", "over"}
    /\ At(j, "over")
    /\ losses' = losses + 1
    /\ stranded' = stranded \cup {j}
    /\ UNCHANGED <<optIn, aiJobs, charged, month, settingsChanges>>

AdmissionSteps(j) == BeginJob(j) \/ LockSettings(j) \/ CountUsage(j) \/ AdmitJob(j)

CallSteps(j) == \/ ProviderAnswers(j) \/ ProviderFails(j) \/ RecordResult(j)
                \/ RecordDaily(j) \/ StatementRefused(j)

AiNext ==
    \/ UpdateAiSettings
    \/ MonthTurns
    \/ \E j \in AiJobs : AdmissionSteps(j) \/ CallSteps(j) \/ FallBack(j) \/ RequestLost(j)

AiSpec == AiInit /\ [][AiNext]_aiVars

----------------------------------------------------------------------------
(* What a job stands for in the budget, leaving out what its provider      *)
(* charged above the job's own reservation.                                *)
Booked == [j \in AiJobs |->
    CASE aiJobs[j].status = "processing" -> Reservation
      [] aiJobs[j].status = "completed" ->
            IF aiJobs[j].cost <= Reservation THEN aiJobs[j].cost ELSE Reservation
      [] OTHER -> 0]

(* However many requests ask at once and others end meanwhile, a job that  *)
(* is admitted leaves the reservations and costs since its month began     *)
(* within the cap as it is set then (ai-governance.ts beginGovernedAiJob;  *)
(* docs/architecture/AI-GATEWAY.md, "Completed costs and in-flight         *)
(* reservations count against the cap before a job starts").               *)
AdmittedWithinBudget ==
    [][\A j \in AiJobs :
          aiJobs[j].status = "none" /\ aiJobs'[j].status = "processing" =>
             SumOf(Booked, JobsSince(calls[j].month)) + Reservation
                <= optIn.budget]_aiVars

(* A request that is over has released its reservation, whatever went      *)
(* wrong on the way, unless its process died or the release itself was     *)
(* refused (ai-governance.ts recordAiFallback and the catch clauses of     *)
(* ai-gateway.ts and google-document-ai.ts).                               *)
ReservationsReleased ==
    \A j \in AiJobs \ stranded : calls[j].at = "over" =>
        aiJobs[j].status # "processing" /\ aiJobs[j].reserved = 0

(* The budget is kept: nothing is admitted beyond it, and what was set     *)
(* aside for a request is given back when the request is over.             *)
BudgetIsKept == AdmittedWithinBudget /\ []ReservationsReleased

(* Not kept: a completed job stays completed.  A document job whose daily  *)
(* total cannot be written is turned into a failed one, and its cost no    *)
(* longer counts against the cap.                                          *)
CompletedStays ==
    [][\A j \in AiJobs : aiJobs[j].status = "completed" => aiJobs'[j].status = "completed"]_aiVars

(* Not kept: what the providers charged in a month stays within the cap    *)
(* that was last set.                                                      *)
ChargedThisMonth == [j \in AiJobs |-> IF aiJobs[j].month = month THEN charged[j] ELSE 0]
ChargedWithinCap ==
    settingsChanges <= 1 =>
        SumOf(ChargedThisMonth, AiJobs) <= optIn.budget
=============================================================================

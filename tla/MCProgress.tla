------------------------------ MODULE MCProgress ------------------------------
(* What must end: the parts whose promises are of progress, side by side.  The *)
(* modules share no variable, so each behaviour belongs to one part, and the   *)
(* fairness of each module is stated for the behaviours of its part.           *)
EXTENDS AccountDeletion, CredentialVault, Communities, CalendarSync, StatusMonitoring

VARIABLE part
vars == <<part, deletionVars, vaultVars, communityVars, calendarVars, monitoringVars>>

OneTime == {<<"practice", 1>>}

\* Accounts and documents begin in different states; elsewhere they are at rest.
AccountsAtRest == owns = People /\ guards = People
DocumentsAtRest == suspend = TRUE

Init ==
  /\ DeletionInit /\ VaultInit /\ CommunitiesInit /\ CalendarInit /\ MonitoringInit
  /\ part \in {"accounts", "documents", "communities", "calendars", "monitors"}
  /\ part # "accounts" => AccountsAtRest
  /\ part # "documents" => DocumentsAtRest

Others ==
  /\ part' = part
  /\ part # "accounts" => UNCHANGED deletionVars
  /\ part # "documents" => UNCHANGED vaultVars
  /\ part # "communities" => UNCHANGED communityVars
  /\ part # "calendars" => UNCHANGED calendarVars
  /\ part # "monitors" => UNCHANGED monitoringVars

Next ==
  /\ \/ part = "accounts" /\ DeletionNext
     \/ part = "documents" /\ VaultNext
     \/ part = "communities" /\ CommunitiesNext
     \/ part = "calendars" /\ CalendarNext
     \/ part = "monitors" /\ MonitoringNext
  /\ Others

\* The weak fairness of each module, and the strong: a part never changes, so
\* strong fairness of one action of each part together is that of all of them.
Onwards ==
  /\ \A c \in Cleaners : WF_deletionVars(part = "accounts" /\ WorkStep(c))
  /\ WF_deletionVars(part = "accounts" /\ \E t \in change : CommitRoleChange(t))
  /\ WF_deletionVars(part = "accounts" /\ \E r \in DOMAIN requests : HoursPass(r))
  /\ \A d \in Docs : WF_vaultVars(part = "documents" /\ purgeDocumentObjects(d))
  /\ WF_communityVars(part = "communities" /\ JobStep)
  /\ \A w \in Workers : WF_calendarVars(part = "calendars" /\ SyncStep(w))
  /\ WF_monitoringVars(part = "monitors" /\ BeginScheduledSync)
  /\ \A s \in Syncs : WF_monitoringVars(part = "monitors" /\ RowSteps(s))

FilePurged(d) == Go(d, "purge", "purged") /\ deletePrivateObject(d, "purge", "purged")
CleanedUp == cleanupOrganizationInfrastructure /\ job'.step = "clean"
TakenUp(r) == r \in DOMAIN removals /\ processOrganizationDecommissions(r)
RetentionEnds(r) == r \in DOMAIN removals /\ purgeDueOrganizationData(r)

AtLast ==
  \A c \in Cleaners, d \in Docs, r \in 1..MaxRemovals :
    /\ SF_vars(/\ \/ part = "accounts" /\ ObjectsDeleted(c)
                  \/ part = "documents" /\ FilePurged(d)
                  \/ part = "communities" /\ CleanedUp
                  \/ part = "calendars" /\ SyncRoutes("google")
               /\ Others)
    /\ SF_vars(/\ \/ part = "documents" /\ NoteDeleted(d, "purged")
                  \/ part = "communities" /\ TakenUp(r)
                  \/ part = "calendars" /\ SyncRoutes("microsoft")
               /\ Others)
    /\ SF_communityVars(part = "communities" /\ RetentionEnds(r))

\* What was given up is cleared away at the services outside: the files of
\* deleted documents at the object store, the monitors of removed communities
\* at the status service.
LeftoversGo == FilesGo /\ MonitorsGo

Spec == Init /\ [][Next]_vars /\ Onwards /\ AtLast
=============================================================================

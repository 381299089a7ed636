------------------------------ MODULE CalendarSync ------------------------------
(***************************************************************************)
(* The calendars of one organization: its connections to Google and to     *)
(* Microsoft with their tokens (lib/google.ts, lib/microsoft.ts), the copy *)
(* of what these calendars hold, and the events made of the copy or merged *)
(* into those already there (lib/events.ts).                               *)
(*                                                                         *)
(* A job refreshes a token if it must, copies event by event, then takes   *)
(* the list of the copy and goes through it, each row looked up and then   *)
(* written.  The scheduled jobs of both calendars and the buttons of       *)
(* administrators run side by side and nothing locks.  A token is the      *)
(* number of the connection that gave it.                                  *)
(***************************************************************************)
EXTENDS Naturals, FiniteSets

CONSTANTS
  GoogleItems, MicrosoftItems, \* what is in the calendars
  Manual,       \* events an organizer enters
  None,         \* no event
  Workers,      \* who synchronises
  Contents,     \* pairs of a title and a time
  MaxEdits,     \* bound: changes in the calendars
  MaxControls,  \* bound: changes of the controls
  MaxConnects,  \* bound: connections made
  MaxTroubles   \* bound: revocations, refusals that pass, calendars that fail

ASSUME CalendarAssumption ==
  /\ {MaxEdits, MaxControls, MaxConnects, MaxTroubles} \subseteq Nat
  /\ None \notin GoogleItems \cup MicrosoftItems \cup Manual

Providers == {"google", "microsoft"}
Items == GoogleItems \cup MicrosoftItems
EventRows == Items \cup Manual
From(r) == IF r \in GoogleItems THEN "google" ELSE IF r \in MicrosoftItems THEN "microsoft" ELSE "manual"
Of(p) == {i \in Items : From(i) = p}

VARIABLES
  calendars,   \* what the calendars hold
  connections, \* google_connections and microsoft_connections
  dead,        \* tokens that a calendar refuses for good
  controls,    \* organization_calendar_settings and the selected calendars
  mirror,      \* calendar_events
  events,      \* events of the organization
  conflicts,   \* calendar_event_conflicts: of a copy with an event
  jobs,        \* where each worker is
  used         \* how often <<edits, controls, connects, troubles>>

calendarVars == <<calendars, connections, dead, controls, mirror, events, conflicts, jobs, used>>
access == <<connections, dead>>
content == <<mirror, events, conflicts>>
Counts(k) == /\ used[k] < <<MaxEdits, MaxControls, MaxConnects, MaxTroubles>>[k]
             /\ used' = [used EXCEPT ![k] = @ + 1]

Blank == [status |-> "none", is |-> <<>>]
Unmirrored == [status |-> "none", is |-> <<>>, link |-> None]
IdleWorker == [step |-> "idle", p |-> "manual", token |-> 0, todo |-> {}, list |-> [i \in Items |-> Unmirrored], at |-> None, hit |-> None]

CalendarInit ==
  /\ calendars = [i \in Items |-> Blank]
  /\ connections = [p \in Providers |-> [status |-> "none", token |-> 0, fresh |-> FALSE, bound |-> FALSE]]
  /\ dead = {} /\ controls = [mode |-> "merge_exact", on |-> Providers, selected |-> {}]
  /\ mirror = [i \in Items |-> Unmirrored] /\ events = [r \in EventRows |-> Blank]
  /\ conflicts = [c \in Items \X EventRows |-> "none"]
  /\ jobs = [w \in Workers |-> IdleWorker] /\ used = <<0, 0, 0, 0>>

-----------------------------------------------------------------------------
(* Calendars, connections and controls *)

\* Google reports what was deleted as cancelled; Microsoft no longer reports it.
EditCalendar(i) ==
  /\ Counts(1)
  /\ \/ \E c \in Contents : calendars' = [calendars EXCEPT ![i] = [status |-> "confirmed", is |-> c]]
     \/ calendars[i].status = "confirmed" /\ calendars' = [calendars EXCEPT ![i].status = "cancelled"]
     \/ calendars[i].status = "confirmed" /\ From(i) = "microsoft" /\ calendars' = [calendars EXCEPT ![i] = Blank]
  /\ calendars' # calendars /\ UNCHANGED <<access, controls, content, jobs>>

saveConnection(p) ==
  /\ Counts(3)
  /\ connections' = [connections EXCEPT ![p] = [status |-> "active", token |-> used[3] + 1, fresh |-> TRUE, bound |-> @.bound \/ p = "microsoft"]]
  /\ UNCHANGED <<calendars, dead, controls, content, jobs>>

active(p) == connections[p].status = "active"
assignActiveGoogleConnectionToOrganization ==
  /\ active("google") /\ ~connections["google"].bound
  /\ connections' = [connections EXCEPT !["google"].bound = TRUE]
  /\ UNCHANGED <<calendars, dead, controls, content, jobs, used>>

Revoked(p) ==
  /\ Counts(4) /\ dead' = dead \cup {<<p, connections[p].token>>} /\ dead' # dead
  /\ UNCHANGED <<calendars, connections, controls, content, jobs>>
Expires(p) ==
  /\ connections[p].fresh /\ connections' = [connections EXCEPT ![p].fresh = FALSE]
  /\ UNCHANGED <<calendars, dead, controls, content, jobs, used>>

setSelectedCalendars(p, on) ==
  /\ active(p) /\ Counts(2)
  /\ controls' = [controls EXCEPT !.selected = IF on THEN @ \cup {p} ELSE @ \ {p}] /\ controls' # controls
  /\ UNCHANGED <<calendars, access, content, jobs>>
updateOrganizationCalendarControls(on, mode) ==
  /\ Counts(2) /\ controls' = [controls EXCEPT !.on = on, !.mode = mode] /\ controls' # controls
  /\ UNCHANGED <<calendars, access, content, jobs>>
createManualEvent(r, c) ==
  /\ events[r] = Blank /\ events' = [events EXCEPT ![r] = [status |-> "active", is |-> c]]
  /\ UNCHANGED <<calendars, access, controls, mirror, conflicts, jobs, used>>

-----------------------------------------------------------------------------
(* Copying *)

Goes(w, job) == jobs' = [jobs EXCEPT ![w] = job]
Stops(w) == Goes(w, IdleWorker)
JobAt(w, step) == jobs[w].step = step

syncSelectedCalendars(w, p) ==
  /\ JobAt(w, "idle") /\ active(p)
  /\ LET job == [IdleWorker EXCEPT !.p = p, !.token = connections[p].token] IN
     Goes(w, IF p \notin controls.on \cap controls.selected THEN [IdleWorker EXCEPT !.step = "list"]
             ELSE IF connections[p].fresh THEN [job EXCEPT !.step = "fetch"] ELSE [job EXCEPT !.step = "refresh"])
  /\ UNCHANGED <<calendars, access, controls, content, used>>

\* Microsoft gives a new token to refresh with too: it follows the one it came from.
Refreshed(p, token) == [connections[p] EXCEPT !.fresh = TRUE, !.token = IF p = "microsoft" THEN token ELSE @]
refreshAccessToken(w) ==
  /\ JobAt(w, "refresh") /\ <<jobs[w].p, jobs[w].token>> \notin dead
  /\ connections' = [connections EXCEPT ![jobs[w].p] = Refreshed(jobs[w].p, jobs[w].token)]
  /\ Goes(w, [jobs[w] EXCEPT !.step = "fetch"])
  /\ UNCHANGED <<calendars, dead, controls, content, used>>

\* Google is given up when it says so, Microsoft whenever a refresh fails.
RefusedStatus(p, dies) ==
  IF p = "microsoft" THEN "error" ELSE IF dies /\ active(p) THEN "reconnect_required" ELSE connections[p].status
RefreshFails(w) ==
  /\ JobAt(w, "refresh") /\ Stops(w)
  /\ LET p == jobs[w].p
         dies == <<p, jobs[w].token>> \in dead
     IN /\ IF dies THEN UNCHANGED used ELSE Counts(4)
        /\ connections' = [connections EXCEPT ![p].status = RefusedStatus(p, dies)]
  /\ UNCHANGED <<calendars, dead, controls, content>>

Fetch(w) ==
  /\ JobAt(w, "fetch")
  /\ Goes(w, [jobs[w] EXCEPT !.step = "copy", !.todo = {i \in Of(jobs[w].p) : calendars[i] # Blank},
                             !.list = [i \in Items |-> [status |-> calendars[i].status, is |-> calendars[i].is, link |-> None]]])
  /\ UNCHANGED <<calendars, access, controls, content, used>>
FetchFails(w) ==
  /\ jobs[w].step \in {"fetch", "copy"} /\ Counts(4) /\ Stops(w)
  /\ UNCHANGED <<calendars, access, controls, content>>
CopyEvent(w, i) ==
  /\ JobAt(w, "copy") /\ i \in jobs[w].todo
  /\ mirror' = [mirror EXCEPT ![i] = [jobs[w].list[i] EXCEPT !.link = mirror[i].link]]
  /\ Goes(w, [jobs[w] EXCEPT !.todo = @ \ {i}])
  /\ UNCHANGED <<calendars, access, controls, events, conflicts, used>>
Copied(w) ==
  /\ JobAt(w, "copy") /\ jobs[w].todo = {} /\ Goes(w, [IdleWorker EXCEPT !.step = "list"])
  /\ UNCHANGED <<calendars, access, controls, content, used>>

-----------------------------------------------------------------------------
(* Making events of the copy *)

\* The list is read whole; a connection that is no longer active counts.
normalizeImportedCalendarEvents(w) ==
  /\ JobAt(w, "list")
  /\ Goes(w, [IdleWorker EXCEPT !.step = "look", !.list = mirror,
                !.todo = {i \in Items : mirror[i].status # "none" /\ connections[From(i)].bound /\ From(i) \in controls.on}])
  /\ UNCHANGED <<calendars, access, controls, content, used>>

classifyCalendarConflict(a, b) ==
  IF a = b THEN "exact_duplicate" ELSE IF a[1] = b[1] THEN "potential_overlap" ELSE "none"
NearbyBug(i, c) == {r \in EventRows : events[r] # Blank /\ classifyCalendarConflict(c, events[r].is) # "none"}
Nearby(i, c) == {r \in EventRows : From(r) # From(i) /\ events[r] # Blank /\ classifyCalendarConflict(c, events[r].is) # "none"}
First(S) == {r \in S : \A q \in S : events[r].is[2] <= events[q].is[2]}

LookUp(w, i) ==
  /\ JobAt(w, "look") /\ i \in jobs[w].todo
  /\ LET is == jobs[w].list[i].is
         near == Nearby(i, is)
         merges(hit) == hit # None /\ controls.mode = "merge_exact" /\ classifyCalendarConflict(is, events[hit].is) = "exact_duplicate"
     IN \E hit \in IF near = {} THEN {None} ELSE First(near) :
          Goes(w, [jobs[w] EXCEPT !.step = IF merges(hit) THEN "merge" ELSE "write", !.at = i, !.hit = hit])
  /\ UNCHANGED <<calendars, access, controls, content, used>>

Links(w, i, r) == mirror' = [mirror EXCEPT ![i].link = r]
Proceeds(w) == Goes(w, [jobs[w] EXCEPT !.step = "look", !.todo = @ \ {jobs[w].at}, !.at = None, !.hit = None])
Merge(w) ==
  LET j == jobs[w] IN
  /\ JobAt(w, "merge") /\ Links(w, j.at, j.hit) /\ conflicts' = [conflicts EXCEPT ![<<j.at, j.hit>>] = "merged"]
  /\ Proceeds(w) /\ UNCHANGED <<calendars, access, controls, events, used>>

\* The event, its link and the conflict: three statements on rows of this one.
WriteEvent(w) ==
  LET j == jobs[w]
      row == j.list[j.at]
  IN /\ JobAt(w, "write") /\ Links(w, j.at, j.at)
     /\ events' = [events EXCEPT ![j.at] = [status |-> IF row.status = "cancelled" THEN "cancelled" ELSE "active", is |-> row.is]]
     /\ conflicts' = IF j.hit = None THEN conflicts
                     ELSE [conflicts EXCEPT ![<<j.at, j.hit>>] =
                            IF classifyCalendarConflict(row.is, events[j.hit].is) = "exact_duplicate" THEN "kept_separate" ELSE "pending_review"]
     /\ Proceeds(w) /\ UNCHANGED <<calendars, access, controls, used>>

Done(w) ==
  /\ JobAt(w, "look") /\ jobs[w].todo = {} /\ Stops(w)
  /\ UNCHANGED <<calendars, access, controls, content, used>>
\* The owner's button makes events of the copy without copying.
NormalizeButton(w) ==
  /\ JobAt(w, "idle") /\ Goes(w, [IdleWorker EXCEPT !.step = "list"])
  /\ UNCHANGED <<calendars, access, controls, content, used>>

AdminEventsRoute ==
  \/ assignActiveGoogleConnectionToOrganization \/ \E w \in Workers : NormalizeButton(w)
  \/ \E on \in SUBSET Providers, mode \in {"merge_exact", "keep_separate"} : updateOrganizationCalendarControls(on, mode)
  \/ \E r \in Manual, c \in Contents : createManualEvent(r, c)

SyncStep(w) ==
  \/ refreshAccessToken(w) \/ RefreshFails(w) \/ Fetch(w) \/ FetchFails(w) \/ Copied(w)
  \/ normalizeImportedCalendarEvents(w) \/ Merge(w) \/ WriteEvent(w) \/ Done(w)
  \/ \E i \in Items : CopyEvent(w, i) \/ LookUp(w, i)
SyncRoutes(p) == \E w \in Workers : syncSelectedCalendars(w, p)

CalendarNext ==
  \/ \E i \in Items : EditCalendar(i)
  \/ \E p \in Providers : saveConnection(p) \/ Revoked(p) \/ Expires(p) \/ SyncRoutes(p)
                         \/ \E on \in BOOLEAN : setSelectedCalendars(p, on)
  \/ AdminEventsRoute
  \/ \E w \in Workers : SyncStep(w)
CalendarSpec == CalendarInit /\ [][CalendarNext]_calendarVars

\* A request that was sent is answered, and the scheduler asks for each sync
\* again and again.
CalendarFairness == (\A w \in Workers : WF_calendarVars(SyncStep(w))) /\ \A p \in Providers : SF_calendarVars(SyncRoutes(p))
FairCalendarSpec == CalendarSpec /\ CalendarFairness

-----------------------------------------------------------------------------
CalendarTypeOK ==
  /\ connections \in [Providers -> [status : {"none", "active", "error", "reconnect_required"}, token : 0..MaxConnects, fresh : BOOLEAN, bound : BOOLEAN]]
  /\ dead \subseteq Providers \X (0..MaxConnects)
  /\ \A i \in Items : mirror[i].link \in {None} \cup EventRows /\ mirror[i].status \in {"none", "confirmed", "cancelled"}
  /\ \A r \in EventRows : events[r].status \in {"none", "active", "cancelled"}
  /\ \A c \in Items \X EventRows : conflicts[c] \in {"none", "merged", "kept_separate", "pending_review"}
  /\ \A w \in Workers : jobs[w].step \in {"idle", "refresh", "fetch", "copy", "list", "look", "merge", "write"} /\ jobs[w].todo \subseteq Items

\* A connection to Google asks for a new sign-in only if a sign-in of it was
\* refused for good: a refusal that passes must not stop the hourly sync.
GivenUpWhenDead ==
  connections["google"].status = "reconnect_required" => \E token \in 1..MaxConnects : <<"google", token>> \in dead

\* As the code says ("Stop retrying a dead sign-in", google.ts:114): it is the
\* sign-in it has now that is dead.
DeadSignInOnly ==
  connections["google"].status = "reconnect_required" => <<"google", connections["google"].token>> \in dead

\* "so scheduled read-only sync can continue" (docs/GITHUB-DEPLOY.md:161):
\* Microsoft is given up only if it refuses.
ErrorMeansRefused ==
  connections["microsoft"].status = "error" => \E token \in 1..MaxConnects : <<"microsoft", token>> \in dead

Same(row, held) == row.is = held.is /\ (row.status = "cancelled" <=> held.status = "cancelled")
Synced(i) ==
  LET p == From(i) IN active(p) /\ connections[p].bound /\ p \in controls.on \cap controls.selected /\ calendars[i] # Blank
Follows(i) ==
  Synced(i) => /\ mirror[i].link # None /\ Same(mirror[i], calendars[i])
               /\ mirror[i].link = i => Same(events[i], calendars[i])

\* Jobs that overlap write what they have read before; in the end the events
\* made of a Google calendar say what the calendar says.
EventsCatchUp == \A i \in GoogleItems : <>[]Follows(i)

\* What was cancelled at Google does not stay among the events.
CancelledDisappears ==
  \A i \in GoogleItems : <>[](Synced(i) /\ Follows(i) /\ mirror[i].status = "cancelled" => events[i].status # "active")

\* "Duplicate and overlapping calendar entries are caught" (README.md:106): an
\* imported event beside an equal one of another source is known as such.
DuplicatesCaught ==
  \A i \in GoogleItems, r \in EventRows : From(r) # "google" =>
    <>[](Synced(i) /\ Follows(i) /\ {events[i].status, events[r].status} = {"active"} /\ events[i].is = events[r].is
           => conflicts[<<i, r>>] # "none" \/ (r \in MicrosoftItems /\ conflicts[<<r, i>>] # "none"))
=============================================================================

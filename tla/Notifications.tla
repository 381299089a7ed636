----------------------------- MODULE Notifications -----------------------------
(***************************************************************************)
(* Notices to people by push, text and mail, and the reminders of rides    *)
(* (lib/notification-router.ts, lib/notification-queue.ts, lib/push.ts,    *)
(* lib/email-send.ts, lib/ride-reminders.ts, lib/cron-health.ts,           *)
(* lib/notification-preferences.ts).                                       *)
(*                                                                         *)
(* Reminders are claimed one by one by a run of the scheduled task, which  *)
(* holds a session lock on a connection of its own.  A notice reads what   *)
(* its person allows, and then calls one provider after the other.         *)
(***************************************************************************)
EXTENDS Naturals, FiniteSets

CONSTANTS
  Rides,       \* confirmed rides with a time
  Riders,      \* the people of each of them
  Runners,     \* processes that run the scheduled task
  Others,      \* notices other than reminders
  Types,       \* their types
  LockMayDrop, \* a connection is lost while its process runs on
  MaxTries,    \* runs of a queued notice (4 in the code)
  MaxRuns,     \* runs of the task
  Profiles,    \* preferences anyone may have, the defaults among them
  MaxChanges   \* changes of preferences

KINDS == {"day", "hour"}   \* "24h" and "1h" in the code
Claims == Rides \X Riders \X KINDS
POLICIES ==
  LET P(u, push, fallback, always, sms, now, only) ==
        [urgency |-> u, push |-> push, emailFallback |-> fallback, emailAlways |-> always,
         smsFallback |-> sms, smsImmediate |-> now, smsOnly |-> only]
  IN [new_ride_available |-> P("routine", TRUE, TRUE, FALSE, FALSE, FALSE, FALSE),
      ride_matched |-> P("important", TRUE, TRUE, FALSE, TRUE, FALSE, FALSE),
      reminder_24h |-> P("routine", TRUE, TRUE, FALSE, FALSE, FALSE, FALSE),
      reminder_1h |-> P("important", TRUE, FALSE, FALSE, TRUE, FALSE, FALSE),
      driver_arriving |-> P("critical", TRUE, FALSE, FALSE, FALSE, TRUE, FALSE),
      last_minute_cancellation |-> P("critical", TRUE, TRUE, FALSE, FALSE, TRUE, FALSE),
      platform_test |-> P("important", TRUE, FALSE, FALSE, TRUE, FALSE, FALSE),
      organization_removed |-> P("important", TRUE, TRUE, TRUE, FALSE, FALSE, FALSE),
      otp |-> P("critical", FALSE, FALSE, FALSE, FALSE, TRUE, TRUE),
      household_delegate_invitation |-> P("important", FALSE, TRUE, TRUE, FALSE, FALSE, FALSE)]
ASSUME NotificationsAssumption ==
  Types \subseteq DOMAIN POLICIES /\ LockMayDrop \in BOOLEAN /\ Others \cap Claims = {}

VARIABLES
  rides,      \* [status, time] of each ride
  dispatches, \* ride_reminder_dispatches
  runs,       \* runs of dispatchRideReminders
  holder,     \* the run that has the lock of the task, as a set
  notices,    \* notices on their way
  prefs,      \* notification_preferences without an organization: rows of a person
  saving,     \* updateNotificationPreferences that have read
  spent       \* runs and changes so far

rideVars == <<rides, dispatches>>
runVars == <<runs, holder>>
prefVars == <<prefs, saving>>
noticeVars == <<rideVars, runVars, notices, prefVars, spent>>

DEFAULTS == [push |-> TRUE, email |-> TRUE, sms |-> TRUE, smsForCriticalOnly |-> TRUE,
             reminderPush |-> TRUE, reminderEmail |-> FALSE, reminderSms |-> FALSE]
Unrouted == [step |-> "none", to |-> CHOOSE p \in Riders : TRUE, type |-> "otp", queued |-> FALSE, tries |-> 0, allows |-> DEFAULTS,
             pushed |-> FALSE, text |-> "none", mail |-> "none", heard |-> 0]

NotificationsInit ==
  /\ rides = [r \in Rides |-> [status |-> "confirmed", time |-> "early"]]
  /\ dispatches = [c \in Claims |-> "none"]
  /\ runs = {} /\ holder = {}
  /\ notices = [n \in Claims \cup Others |-> Unrouted]
  /\ prefs = [p \in Riders |-> {}] /\ saving = {}
  /\ spent = [runs |-> 0, changes |-> 0]

-----------------------------------------------------------------------------
(* Rides *)

Hours == [early |-> "day", day |-> "between", between |-> "hour", hour |-> "gone", gone |-> "gone"]
TimePasses(r) ==
  /\ rides[r].time # "gone" /\ rides' = [rides EXCEPT ![r].time = Hours[@]]
  /\ UNCHANGED <<dispatches, runVars, notices, prefVars, spent>>

\* Somewhere else (ride-lifecycle.ts).
CancelRide(r) ==
  /\ rides[r].status = "confirmed" /\ rides' = [rides EXCEPT ![r].status = "cancelled"]
  /\ UNCHANGED <<dispatches, runVars, notices, prefVars, spent>>

-----------------------------------------------------------------------------
(* The runs of the task *)

Moves(u, v) == runs' = (runs \ {u}) \cup {v}

runCronWithHeartbeat(w) ==
  /\ spent.runs < MaxRuns /\ spent' = [spent EXCEPT !.runs = @ + 1]
  /\ holder = {} /\ \A u \in runs : u.by # w
  /\ holder' = {w} /\ runs' = runs \cup {[by |-> w, kind |-> "day", step |-> "asking", todo |-> {}, doing |-> {}]}
  /\ UNCHANGED <<rideVars, notices, prefVars>>

\* PostgreSQL ends a session whose connection is lost, and frees its lock.
LockDrops ==
  /\ LockMayDrop /\ holder # {} /\ holder' = {}
  /\ UNCHANGED <<rideVars, runs, notices, prefVars, spent>>

dueRides(u) ==
  /\ u.step = "asking"
  /\ Moves(u, [u EXCEPT !.step = "claiming",
                 !.todo = {c \in Claims : c[3] = u.kind /\ rides[c[1]] = [status |-> "confirmed", time |-> u.kind]}])
  /\ UNCHANGED <<rideVars, holder, notices, prefVars, spent>>

UnclaimedBug(c) == dispatches[c] \in {"none", "failed", "pending"}
Unclaimed(c) == dispatches[c] = "none"
ClaimReminder(u, c) ==
  /\ u.step = "claiming" /\ c \in u.todo
  /\ IF Unclaimed(c)
     THEN /\ dispatches' = [dispatches EXCEPT ![c] = "pending"]
          /\ Moves(u, [u EXCEPT !.step = "sending", !.todo = @ \ {c}, !.doing = {c}])
          /\ notices' = [notices EXCEPT ![c] = [Unrouted EXCEPT !.step = "called", !.to = c[2], !.tries = notices[c].tries,
                                                  !.type = IF c[3] = "day" THEN "reminder_24h" ELSE "reminder_1h"]]
     ELSE Moves(u, [u EXCEPT !.todo = @ \ {c}]) /\ UNCHANGED <<dispatches, notices>>
  /\ UNCHANGED <<rides, holder, prefVars, spent>>

\* Nothing is tried again: whatever channel failed, the reminder is sent.
MarkDispatched(u, c) ==
  /\ u.doing = {c} /\ notices[c].step \in {"routed", "thrown"}
  /\ dispatches' = [dispatches EXCEPT ![c] = IF notices[c].step = "routed" THEN "sent" ELSE "failed"]
  /\ Moves(u, [u EXCEPT !.step = "claiming", !.doing = {}])
  /\ notices' = [notices EXCEPT ![c].step = "done"]
  /\ UNCHANGED <<rides, holder, prefVars, spent>>

NextKind(u) ==
  /\ u.step = "claiming" /\ u.todo = {} /\ u.kind = "day"
  /\ Moves(u, [u EXCEPT !.step = "asking", !.kind = "hour"])
  /\ UNCHANGED <<rideVars, holder, notices, prefVars, spent>>

\* It finishes, or its process dies; the lock is its own or it is lost.
RunEnds(u) ==
  /\ runs' = runs \ {u} /\ holder' = holder \ {u.by}
  /\ notices' = [c \in DOMAIN notices |-> IF c \in u.doing THEN [notices[c] EXCEPT !.step = "done"] ELSE notices[c]]
  /\ UNCHANGED <<rideVars, prefVars, spent>>

-----------------------------------------------------------------------------
(* One notice *)

PolicyOf(n) == POLICIES[n.type]
queueNotification(n) ==
  /\ notices[n].step = "none"
  /\ \E p \in Riders, type \in Types, queued \in BOOLEAN :
       notices' = [notices EXCEPT ![n] = [Unrouted EXCEPT !.step = "called", !.to = p, !.type = type, !.queued = queued]]
  /\ UNCHANGED <<rideVars, runVars, prefVars, spent>>

\* One of the rows of the person, whichever comes first, or the defaults.
Preferences(p) == IF prefs[p] = {} THEN {DEFAULTS} ELSE {row.values : row \in prefs[p]}
recipientContext(n) ==
  /\ notices[n].step = "called"
  /\ \E f \in Preferences(notices[n].to) :
       notices' = [notices EXCEPT ![n].step = "pushing", ![n].allows = f, ![n].tries = @ + 1]
  /\ UNCHANGED <<rideVars, runVars, prefVars, spent>>

Reminds(x) == x.type \in {"reminder_24h", "reminder_1h"}
pushAllowed(x) == PolicyOf(x).push /\ ~PolicyOf(x).smsOnly /\ x.allows.push /\ (Reminds(x) => x.allows.reminderPush)
emailAllowed(x) == x.allows.email /\ (Reminds(x) => x.allows.reminderEmail)
smsAllowed(x) ==
  LET critical == PolicyOf(x).urgency = "critical"
  IN x.allows.sms /\ (x.allows.smsForCriticalOnly => critical) /\ (Reminds(x) => x.allows.reminderSms \/ critical)

\* Each device answers, or none does.
sendPushToSubscription(n) ==
  /\ notices[n].step = "pushing"
  /\ \E ok \in IF pushAllowed(notices[n]) THEN BOOLEAN ELSE {FALSE} :
       notices' = [notices EXCEPT ![n].step = "texting", ![n].pushed = ok, ![n].heard = IF ok THEN @ + 1 ELSE @]
  /\ UNCHANGED <<rideVars, runVars, prefVars, spent>>

\* What texting throws is kept: the organization's limit, or anything else.
sendText(n) ==
  LET x == notices[n]
      now == PolicyOf(x).smsImmediate \/ (PolicyOf(x).smsFallback /\ ~x.pushed)
  IN /\ x.step = "texting"
     /\ \E outcome \in IF ~now \/ ~smsAllowed(x) THEN {"skipped"}
                        ELSE {"accepted", "failed"} \cup (IF PolicyOf(x).urgency = "critical" THEN {} ELSE {"paused"}) :
          notices' = [notices EXCEPT ![n].step = "mailing", ![n].text = outcome,
                                    ![n].heard = IF outcome = "accepted" THEN @ + 1 ELSE @]
     /\ UNCHANGED <<rideVars, runVars, prefVars, spent>>

PausedByLimit(x) == x.text = "paused" /\ ~x.pushed
shouldEmail(x) ==
  /\ emailAllowed(x)
  /\ \/ PolicyOf(x).emailFallback /\ (PolicyOf(x).emailAlways \/ ~x.pushed \/ PolicyOf(x).urgency = "critical")
     \/ PausedByLimit(x)

\* The mail goes out before its delivery is logged, which may throw.
sendEmailNotification(n) ==
  /\ notices[n].step = "mailing"
  /\ \E outcome \in IF shouldEmail(notices[n]) THEN {"accepted", "failed"} ELSE {"none"}, logged \in BOOLEAN :
       /\ outcome = "none" => logged
       /\ notices' = [notices EXCEPT ![n].step = IF logged THEN "routed" ELSE "thrown", ![n].mail = outcome,
                                     ![n].heard = IF outcome = "accepted" THEN @ + 1 ELSE @]
  /\ UNCHANGED <<rideVars, runVars, prefVars, spent>>

\* A push that cannot be logged, or keys that are not configured.
PushThrows(n) ==
  /\ notices[n].step = "pushing" /\ pushAllowed(notices[n])
  /\ \E ok \in BOOLEAN : notices' = [notices EXCEPT ![n].step = "thrown", ![n].heard = IF ok THEN @ + 1 ELSE @]
  /\ UNCHANGED <<rideVars, runVars, prefVars, spent>>

\* The queue runs a notice again that threw, four times in all.
RetryNotice(n) ==
  /\ notices[n].step = "thrown" /\ notices[n].queued /\ notices[n].tries < MaxTries
  /\ notices' = [notices EXCEPT ![n].step = "called"]
  /\ UNCHANGED <<rideVars, runVars, prefVars, spent>>

-----------------------------------------------------------------------------
(* Preferences *)

\* Reads a row, puts one flag into what it read, and looks for a row to write.
updateNotificationPreferences(p, flag, value) ==
  /\ spent.changes < MaxChanges /\ spent' = [spent EXCEPT !.changes = @ + 1]
  /\ \E f \in Preferences(p) :
       /\ [f EXCEPT ![flag] = value] \in Profiles
       /\ \E id \in IF prefs[p] = {} THEN {0} ELSE {row.id : row \in prefs[p]} :
            saving' = saving \cup {[of |-> p, values |-> [f EXCEPT ![flag] = value], flag |-> flag, id |-> id]}
  /\ UNCHANGED <<rideVars, runVars, notices, prefs>>

WritePreferences(s) ==
  /\ s \in saving /\ saving' = saving \ {s}
  /\ prefs' = [prefs EXCEPT ![s.of] =
       IF s.id = 0 THEN @ \cup {[id |-> 1 + Cardinality(@), values |-> s.values]}
       ELSE {row \in @ : row.id # s.id} \cup {[id |-> s.id, values |-> s.values]}]
  /\ UNCHANGED <<rideVars, runVars, notices, spent>>

-----------------------------------------------------------------------------
Reminder(u) == dueRides(u) \/ (\E c \in Claims : ClaimReminder(u, c) \/ MarkDispatched(u, c)) \/ NextKind(u) \/ RunEnds(u)
routeNotification(n) ==
  recipientContext(n) \/ sendPushToSubscription(n) \/ PushThrows(n) \/ sendText(n) \/ sendEmailNotification(n) \/ RetryNotice(n)

NotificationsNext ==
  \/ \E r \in Rides : TimePasses(r) \/ CancelRide(r)
  \/ \E w \in Runners : runCronWithHeartbeat(w)
  \/ LockDrops
  \/ \E u \in runs : Reminder(u)
  \/ \E n \in Others : queueNotification(n)
  \/ \E n \in DOMAIN notices : routeNotification(n)
  \/ \E p \in Riders, flag \in DOMAIN DEFAULTS, value \in BOOLEAN : updateNotificationPreferences(p, flag, value)
  \/ \E s \in saving : WritePreferences(s)
NotificationsSpec == NotificationsInit /\ [][NotificationsNext]_noticeVars

-----------------------------------------------------------------------------
(* Properties *)

\* Every variable holds what its column or its call can hold.
NotificationsTypeOK ==
  /\ dispatches \in [Claims -> {"none", "pending", "sent", "failed"}]
  /\ \A u \in runs : u.by \in Runners /\ u.kind \in KINDS /\ u.todo \subseteq Claims /\ Cardinality(u.doing) <= 1
  /\ holder \subseteq Runners /\ Cardinality(holder) <= 1
  /\ \A n \in DOMAIN notices : notices[n].allows \in Profiles /\ notices[n].tries \in 0..MaxTries
  /\ \A p \in Riders : \A row \in prefs[p] : row.values \in Profiles

\* Nobody is reminded twice of one ride for one time, though runs overlap,
\* die, or lose the lock (the key of ride_reminder_dispatches).
RemindedOnce ==
  /\ \A c \in Claims : Cardinality({u \in runs : c \in u.doing}) <= 1
  /\ \A c \in Claims : notices[c].tries <= 1

\* A text that its organization's limit has paused is replaced by mail, when
\* no push got through and the person allows mail ("so nobody is silently
\* missed", notification-router.ts).
PausedTextIsMailed ==
  \A n \in DOMAIN notices :
    LET x == notices[n]
    IN x.step = "routed" /\ x.text = "paused" /\ ~x.pushed /\ emailAllowed(x) => x.mail # "none"

\* Notices arrive: a reminder not twice, and one that may not be a text as mail.
NoticesArrive == RemindedOnce /\ PausedTextIsMailed

\* A notice of the queue reaches its person once by each channel.
HeardOncePerChannel ==
  \A n \in Others : notices[n].heard <=
     (IF notices[n].pushed THEN 1 ELSE 0) + (IF notices[n].text = "accepted" THEN 1 ELSE 0) + (IF notices[n].mail = "accepted" THEN 1 ELSE 0)

\* No reminder of a ride that is cancelled is begun.
NoReminderOfCancelled ==
  [][\A c \in Claims : notices[c].step = "none" /\ notices'[c].step = "called" => rides[c[1]].status = "confirmed"]_noticeVars

\* A person has one row of preferences of its own.
OnePreferenceRow == \A p \in Riders : Cardinality(prefs[p]) <= 1
=============================================================================

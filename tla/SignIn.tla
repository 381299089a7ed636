------------------------------- MODULE SignIn -------------------------------
(***************************************************************************)
(* Signing in with a one-time code or a passkey (lib/auth-service.ts,      *)
(* auth.ts, passkeys.ts), for people who sign up themselves and for one    *)
(* student whose guardians switch the login on and off (lib/onboarding.ts).*)
(*                                                                         *)
(* verifyOtp is one transaction.  A passkey ceremony is two actions: the   *)
(* challenge is consumed and the credential read before the transaction.   *)
(* The cryptography is external: a response either verifies or does not.   *)
(* The limits per IP address only refuse calls and are left out.           *)
(***************************************************************************)
EXTENDS Naturals, FiniteSets

CONSTANTS
  Emails,       \* email addresses
  StudentGuardians,      \* of the student
  RedisFaults,    \* {"none"}, "refused" and "lost_reply": what Redis may do to a call
  CodeLimit,      \* OTP_IDENTIFIER_LIMIT
  MaxAttempts,    \* auth_otp_challenges.max_attempts
  MaxCodes,       \* bound: codes ever requested
  MaxSessions,    \* bound: sessions ever begun
  MaxChallenges   \* bound: passkey challenges ever issued

ASSUME SignInBoundsAssumption ==
  /\ CodeLimit \in Nat \ {0} /\ MaxAttempts \in Nat \ {0}
  /\ MaxCodes \in Nat /\ MaxSessions \in Nat /\ MaxChallenges \in Nat
ASSUME FaultsAssumption == "none" \in RedisFaults /\ RedisFaults \subseteq {"none", "refused", "lost_reply"}

VARIABLES
  owner,      \* emails: whose row a contact is
  account,    \* user_accounts.status
  access,     \* managed_student_account_access of the student
  consent,    \* guardians with an active guardian_consents row
  codes,      \* auth_otp_challenges, in the order they are made
  codesAged,       \* how many of them are past their ten minutes, and fifteen
  sessions,   \* auth_sessions, in the order they begin
  passkeys,   \* webauthn_credentials
  issued,     \* passkey challenges issued
  redis, pg,  \* the challenge each store holds for a flow, 0 for none
  calls,      \* second halves of passkey ceremonies
  cut         \* history: student sessions begun before access was last withdrawn

signInVars == <<owner, account, access, consent, codes, codesAged, sessions, passkeys, issued, redis, pg, calls, cut>>
ceremony == <<issued, redis, pg, calls>>
family == <<owner, access, consent>>

\* People are the student and, for each contact, who signs up with it.
Student == "student"
Nobody == "nobody"
People == {Student} \cup Emails

Codes == 1..MaxCodes
Sessions == 1..MaxSessions
Challenges == 1..MaxChallenges
\* Flow keys: a sign-in has one of its own, a registration that of its session.
Flows == [auth : Challenges] \cup [reg : Sessions]

NoAccess == [set |-> FALSE, enabled |-> FALSE, login |-> Nobody]
CodeRows == [contact : Emails, purpose : {"sign_in", "sign_up", "claim"}, person : People \cup {Nobody},
             attempts : 0..MaxAttempts, spent : BOOLEAN]
SessionRows == [person : People, by : [code : Codes] \cup [challenge : Challenges],
                state : {"fresh", "old", "over", "revoked"}]
Passkeys == [id : 0..MaxChallenges, person : People, login : Emails \cup {Nobody}]

\* Nobody has an account, or the student has one and a passkey.
SignInInit ==
  /\ \/ /\ owner = [k \in Emails |-> Nobody] /\ access = NoAccess
        /\ account = [p \in People |-> "none"] /\ passkeys = {}
     \/ \E k \in Emails :
          /\ owner = [c \in Emails |-> IF c = k THEN Student ELSE Nobody]
          /\ access = [set |-> TRUE, enabled |-> TRUE, login |-> k]
          /\ account = [p \in People |-> IF p = Student THEN "active" ELSE "none"]
          /\ passkeys = {[id |-> 0, person |-> Student, login |-> k]}
  /\ consent = StudentGuardians
  /\ codes = <<>> /\ codesAged = [ttl |-> 0, window |-> 0]
  /\ sessions = <<>> /\ cut = {}
  /\ issued = 0 /\ calls = {}
  /\ redis = [f \in Flows |-> 0] /\ pg = redis

Size(rows) == Cardinality(DOMAIN rows)
Append1(rows, row) == [i \in 1..(Size(rows) + 1) |-> IF i > Size(rows) THEN row ELSE rows[i]]

-----------------------------------------------------------------------------
(* Who may sign in *)

ManagedAccess(login) == access.enabled /\ consent # {} /\ login

findExistingAccount(k) ==
  /\ owner[k] # Nobody /\ account[owner[k]] = "active"
  /\ owner[k] = Student /\ access.set => ManagedAccess(access.login = k)

findManagedStudentClaim(k) ==
  owner[k] = Student /\ account[Student] = "none" /\ ManagedAccess(access.login = k)

findSignInEligibleAccount(p, login) ==
  /\ account[p] = "active"
  /\ p = Student /\ access.set => ManagedAccess(access.login = login)

loadIdentityForUserAccount(p) ==
  /\ account[p] = "active"
  /\ p = Student /\ access.set => ManagedAccess(TRUE)

getBaseSessionIdentity(s) ==
  /\ s \in DOMAIN sessions /\ sessions[s].state \in {"fresh", "old"}
  /\ loadIdentityForUserAccount(sessions[s].person)

createSession(p, by) ==
  /\ Size(sessions) < MaxSessions
  /\ sessions' = Append1(sessions, [person |-> p, by |-> by, state |-> "fresh"])

-----------------------------------------------------------------------------
(* One-time codes *)

RecentCodes(k) == {i \in DOMAIN codes : i > codesAged.window /\ codes[i].contact = k}
Quota(k) == Cardinality(RecentCodes(k)) < CodeLimit

\* The advisory lock makes the count and the insert one step.  An unknown
\* contact gets a row too, but no code is sent.
requestOtp(k, signupIntent) ==
  /\ Size(codes) < MaxCodes /\ Quota(k)
  /\ LET purpose == CASE findManagedStudentClaim(k) -> "claim"
                      [] findExistingAccount(k) -> "sign_in"
                      [] OTHER -> IF signupIntent THEN "sign_up" ELSE "sign_in"
         known == findExistingAccount(k) \/ findManagedStudentClaim(k)
     IN  codes' = Append1(codes, [contact |-> k, purpose |-> purpose, attempts |-> 0, spent |-> FALSE,
                                  person |-> IF known THEN owner[k] ELSE Nobody])
  /\ UNCHANGED <<family, account, codesAged, sessions, passkeys, ceremony, cut>>

\* A code that could not be sent is spent, unless it was used before that.
DeliveryFails(i) ==
  /\ ~(codes[i].purpose = "sign_in" /\ codes[i].person = Nobody)
  /\ ~codes[i].spent
  /\ codes' = [codes EXCEPT ![i].spent = TRUE]
  /\ UNCHANGED <<family, account, codesAged, sessions, passkeys, ceremony, cut>>

Usable(i) == ~codes[i].spent /\ i > codesAged.ttl /\ codes[i].attempts < MaxAttempts

WrongCode(i) ==
  /\ Usable(i)
  /\ codes' = [codes EXCEPT ![i].attempts = @ + 1]
  /\ UNCHANGED <<family, account, codesAged, sessions, passkeys, ceremony, cut>>

\* The account of a sign-in is the one found when the code was requested; only
\* a claim is checked again.  A second sign-up fails on the unique address.
verifyOtp(i) ==
  LET c == codes[i]
      p == IF c.purpose = "sign_up" THEN c.contact ELSE c.person
  IN  /\ Usable(i)
      /\ CASE c.purpose = "claim" ->
                /\ owner[c.contact] = Student /\ ManagedAccess(access.login = c.contact)
                /\ account' = [account EXCEPT ![Student] = IF @ = "none" THEN "active" ELSE @]
                /\ UNCHANGED owner
           [] c.purpose = "sign_up" ->
                /\ owner[c.contact] = Nobody
                /\ account' = [account EXCEPT ![p] = "active"]
                /\ owner' = [owner EXCEPT ![c.contact] = p]
           [] OTHER -> p # Nobody /\ UNCHANGED <<account, owner>>
      /\ codes' = [codes EXCEPT ![i].spent = TRUE, ![i].attempts = @ + 1]
      /\ createSession(p, [code |-> i])
      /\ UNCHANGED <<access, consent, codesAged, passkeys, ceremony, cut>>

revokeSessionByToken(s) ==
  /\ sessions[s].state # "revoked"
  /\ sessions' = [sessions EXCEPT ![s].state = "revoked"]
  /\ UNCHANGED <<family, account, codes, codesAged, passkeys, ceremony, cut>>

-----------------------------------------------------------------------------
(* Passkeys.  A challenge goes to Redis, or to PostgreSQL when Redis fails;  *)
(* when only the reply is lost, it is in both.                               *)

PutChallenge(f) ==
  /\ issued < MaxChallenges /\ issued' = issued + 1
  /\ \E fault \in RedisFaults :
       /\ redis' = IF fault = "refused" THEN redis ELSE [redis EXCEPT ![f] = issued']
       /\ pg' = IF fault = "none" THEN pg ELSE [pg EXCEPT ![f] = issued']

ConsumedBug(f, fault) ==
  IF fault = "none" /\ redis[f] # 0
  THEN [got |-> redis[f], redis |-> redis, pg |-> pg]
  ELSE [got |-> pg[f], pg |-> [pg EXCEPT ![f] = 0], redis |-> redis]
\* What consume returns, with the stores it leaves behind.
Consumed(f, fault) ==
  IF fault = "none" /\ redis[f] # 0
  THEN [got |-> redis[f], redis |-> [redis EXCEPT ![f] = 0], pg |-> pg]
  ELSE [got |-> pg[f], pg |-> [pg EXCEPT ![f] = 0],
        redis |-> IF fault = "refused" THEN redis ELSE [redis EXCEPT ![f] = 0]]

ConsumeChallenge(f, call) ==
  \E fault \in RedisFaults :
    LET c == Consumed(f, fault)
    IN  /\ redis' = c.redis /\ pg' = c.pg /\ c.got # 0
        /\ calls' = calls \cup {call[c.got]}

\* Ten minutes after the sign-in a passkey can no longer be added.
assertRecentSignIn(s) == sessions[s].state = "fresh"

startPasskeyRegistration(s) ==
  /\ getBaseSessionIdentity(s) /\ assertRecentSignIn(s)
  /\ PutChallenge([reg |-> s])
  /\ UNCHANGED <<family, account, codes, codesAged, sessions, passkeys, calls, cut>>

RegistrationVerified(s) ==
  /\ getBaseSessionIdentity(s) /\ assertRecentSignIn(s)
  /\ ConsumeChallenge([reg |-> s],
       [n \in Challenges |-> [add |-> n, person |-> sessions[s].person, login |-> access.login]])
  /\ UNCHANGED <<family, account, codes, codesAged, sessions, passkeys, issued, cut>>

\* The login is read in the transaction, under a lock on the access row.
managedStudentLoginEmailId(call) == IF call.person = Student THEN access.login ELSE Nobody

finishPasskeyRegistration(call) ==
  /\ call \in calls /\ "add" \in DOMAIN call /\ calls' = calls \ {call}
  /\ passkeys' \in {passkeys} \cup
       (IF call.person = Student /\ access.set /\ ~access.enabled THEN {}
        ELSE {passkeys \cup {[id |-> call.add, person |-> call.person,
                              login |-> managedStudentLoginEmailId(call)]}})
  /\ UNCHANGED <<family, account, codes, codesAged, sessions, issued, redis, pg, cut>>

removePasskey(s, k) ==
  /\ getBaseSessionIdentity(s) /\ sessions[s].person = k.person
  /\ passkeys' = passkeys \ {k}
  /\ UNCHANGED <<family, account, codes, codesAged, sessions, ceremony, cut>>

startPasskeySignIn ==
  /\ PutChallenge([auth |-> issued + 1])
  /\ UNCHANGED <<family, account, codes, codesAged, sessions, passkeys, calls, cut>>

\* The response is verified against the credential as it was read.
SignInVerified(n, k) ==
  /\ ConsumeChallenge([auth |-> n], [got \in Challenges |-> [use |-> got, key |-> k]])
  /\ UNCHANGED <<family, account, codes, codesAged, sessions, passkeys, issued, cut>>

\* The credential is read again under a lock, so that a removal wins.
StillThere(k) == k \in passkeys

finishPasskeySignIn(call) ==
  /\ call \in calls /\ "use" \in DOMAIN call /\ calls' = calls \ {call}
  /\ IF StillThere(call.key) /\ findSignInEligibleAccount(call.key.person, call.key.login)
     THEN createSession(call.key.person, [challenge |-> call.use])
     ELSE UNCHANGED sessions
  /\ UNCHANGED <<family, account, codes, codesAged, passkeys, issued, redis, pg, cut>>

-----------------------------------------------------------------------------
(* The guardians, accounts and time *)

RevokedSessionsBug == [s \in DOMAIN sessions |->
  IF sessions[s].person = Student /\ account[Student] # "active" THEN [sessions[s] EXCEPT !.state = "revoked"] ELSE sessions[s]]
RevokedSessions == [s \in DOMAIN sessions |->
  IF sessions[s].person = Student THEN [sessions[s] EXCEPT !.state = "revoked"] ELSE sessions[s]]
StudentSessions == {s \in DOMAIN sessions : sessions[s].person = Student}

\* Switching the login off ends its sessions; passkeys stay only with the
\* address they were added under.
setManagedStudentAccountAccess(k, enabled) ==
  /\ enabled => consent # {}
  /\ owner[k] \in {Nobody, Student}
  /\ owner' = [owner EXCEPT ![k] = Student]
  /\ access' = [set |-> TRUE, enabled |-> enabled, login |-> k]
  /\ sessions' = IF enabled THEN sessions ELSE RevokedSessions
  /\ cut' = IF enabled THEN cut ELSE StudentSessions
  /\ passkeys' = {key \in passkeys : key.person # Student \/ (enabled /\ key.login = k)}
  /\ UNCHANGED <<account, consent, codes, codesAged, ceremony>>

\* The last consent withdrawn ends the student's sessions and passkeys.
updateManagedStudentSettings(g, granted) ==
  /\ consent' = IF granted THEN consent \cup {g} ELSE consent \ {g}
  /\ LET over == ~granted /\ consent' = {}
     IN  /\ sessions' = IF over THEN RevokedSessions ELSE sessions
         /\ cut' = IF over THEN StudentSessions ELSE cut
         /\ passkeys' = IF over THEN {key \in passkeys : key.person # Student} ELSE passkeys
  /\ UNCHANGED <<owner, account, access, codes, codesAged, ceremony>>

\* A deletion that runs suspends the account, and gives it back when it fails.
DeletionRuns(p) ==
  /\ account[p] # "none"
  /\ account' = [account EXCEPT ![p] = IF @ = "active" THEN "deleting" ELSE "active"]
  /\ UNCHANGED <<family, codes, codesAged, sessions, passkeys, ceremony, cut>>

CodesAge ==
  /\ \/ codesAged.ttl < Size(codes) /\ codesAged' = [codesAged EXCEPT !.ttl = @ + 1]
     \/ codesAged.window < codesAged.ttl /\ codesAged' = [codesAged EXCEPT !.window = @ + 1]
  /\ UNCHANGED <<family, account, codes, sessions, passkeys, ceremony, cut>>

SessionAges(s) ==
  /\ \/ sessions[s].state = "fresh" /\ sessions' = [sessions EXCEPT ![s].state = "old"]
     \/ sessions[s].state = "old" /\ sessions' = [sessions EXCEPT ![s].state = "over"]
  /\ UNCHANGED <<family, account, codes, codesAged, passkeys, ceremony, cut>>

(* What each route handler may do *)

OtpRoute ==
  \/ \E k \in Emails, signup \in BOOLEAN : requestOtp(k, signup)
  \/ \E i \in DOMAIN codes : DeliveryFails(i) \/ WrongCode(i) \/ verifyOtp(i)

SessionRoute == \E s \in DOMAIN sessions : revokeSessionByToken(s)

PasskeyRoute ==
  \/ startPasskeySignIn
  \/ \E n \in Challenges, k \in passkeys : SignInVerified(n, k)
  \/ \E call \in calls : finishPasskeySignIn(call)

PasskeysRoute ==
  \/ \E s \in DOMAIN sessions : \/ startPasskeyRegistration(s) \/ RegistrationVerified(s)
                                \/ \E k \in passkeys : removePasskey(s, k)
  \/ \E call \in calls : finishPasskeyRegistration(call)

OnboardingRoute ==
  \/ \E k \in Emails, enabled \in BOOLEAN : setManagedStudentAccountAccess(k, enabled)
  \/ \E g \in StudentGuardians, granted \in BOOLEAN : updateManagedStudentSettings(g, granted)

SignInNext ==
  \/ OtpRoute \/ SessionRoute \/ PasskeyRoute \/ PasskeysRoute \/ OnboardingRoute
  \/ \E p \in People : DeletionRuns(p)
  \/ CodesAge \/ \E s \in DOMAIN sessions : SessionAges(s)

SignInSpec == SignInInit /\ [][SignInNext]_signInVars

-----------------------------------------------------------------------------
(* Properties *)

\* Rows are well typed: attempts never pass max_attempts, and every
\* session, code and passkey belongs to somebody with an account.
SignInTypeOK ==
  /\ owner \in [Emails -> People \cup {Nobody}]
  /\ account \in [People -> {"none", "active", "deleting"}]
  /\ access \in [set : BOOLEAN, enabled : BOOLEAN, login : Emails \cup {Nobody}]
  /\ consent \subseteq StudentGuardians
  /\ \A i \in DOMAIN codes : codes[i] \in CodeRows
  /\ codesAged \in [ttl : 0..Size(codes), window : 0..codesAged.ttl]
  /\ \A s \in DOMAIN sessions : sessions[s] \in SessionRows /\ account[sessions[s].person] # "none"
  /\ passkeys \subseteq Passkeys /\ \A k \in passkeys : account[k.person] # "none"
  /\ issued \in 0..MaxChallenges /\ {redis, pg} \subseteq [Flows -> 0..issued]

\* One-time codes: whichever requests, deliveries and attempts meet, a code
\* begins one session at most, and so does a passkey challenge ("so a challenge
\* can be read only once", passkeys.ts) even when Redis refuses calls.
OneSessionEach == \A s, t \in DOMAIN sessions : s # t => sessions[s].by # sessions[t].by

\* requestOtp: "same-identifier requests serialize": the quota is never overrun.
CodesWithinQuota == \A k \in Emails : Cardinality(RecentCodes(k)) <= CodeLimit

\* What proves who somebody is cannot be multiplied: no more codes than the
\* quota allows, and no more sessions than codes and challenges.
CodesAreLimited == OneSessionEach /\ CodesWithinQuota

\* "Passkeys are tied to the login email that was authorized when they were
\* added": a passkey with a login is one of the student, under the login that
\* is switched on now, however registrations and switches interleave.
PasskeyFollowsLogin ==
  \A k \in passkeys : k.login # Nobody => k.person = Student /\ access.enabled /\ k.login = access.login

\* "a concurrent removal wins": a passkey signs in only while it is there and
\* its account may sign in, although it was verified before.
PasskeySignsInNow ==
  \A s \in DOMAIN sessions' \ DOMAIN sessions : "challenge" \in DOMAIN sessions'[s].by =>
    \E k \in passkeys : k.person = sessions'[s].person /\ findSignInEligibleAccount(k.person, k.login)

\* Guardians who withdraw their consent, or switch the login off, end what was
\* begun: consenting again brings no earlier session back.
WithdrawalEndsSessions == \A s \in cut : sessions[s].state = "revoked"

\* What was withdrawn opens nothing: neither a session that had begun, nor a
\* passkey of the login, nor one that was verified just before.
WithdrawalIsEffective ==
  [][WithdrawalEndsSessions' /\ PasskeyFollowsLogin' /\ PasskeySignsInNow]_signInVars
=============================================================================

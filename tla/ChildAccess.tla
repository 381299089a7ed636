---------------------------- MODULE ChildAccess ----------------------------
(***************************************************************************)
(* Trusted adults of one household (lib/household-delegates.ts with        *)
(* household-delegate-policy.ts, child-access.ts and migration 061): a     *)
(* guardian invites a delegate by email or phone, the delegate accepts,    *)
(* and from then on acts for the children within the scopes of the grant.  *)
(*                                                                         *)
(* createDelegateInvitation and updateDelegate check the guardian's rights *)
(* before their transaction begins, so they are two actions each;          *)
(* leaveDelegation has no transaction, so its two statements are two.      *)
(* Timestamps are compared by the number of invitations made before them.  *)
(***************************************************************************)
EXTENDS Naturals, FiniteSets

CONSTANTS
  Guardians,    \* adults who may come to manage the household
  Children,     \* minors who may come to live in it
  Delegates,    \* adults outside of it
  Contacts,     \* email addresses and phone numbers
  OwnerOf,      \* whose account a contact is, once it is verified there
  TermChoices,  \* what guardians tick: scopes, and the children they cover
  AdminRights,  \* what administrators let a guardian do for a child
  RateLimit,    \* DELEGATE_INVITES_PER_INVITER_PER_HOUR
  MaxInvites,   \* bound: invitations ever made
  MaxCalls      \* bound: calls between their check and their transaction

Scopes == {"request_rides", "approve_rides", "view_ride_details", "receive_notifications"}

\* What a grant covers: named children, or "all" of the household.
Cover == [all : BOOLEAN, named : SUBSET Children]

ASSUME OwnerAssumption == OwnerOf \in [Contacts -> Delegates]
ASSUME TermsAssumption == TermChoices # {} /\ TermChoices \subseteq [scopes : (SUBSET Scopes) \ {{}}, cover : Cover]
ASSUME RightsAssumption == AdminRights \subseteq SUBSET {"request_rides", "approve_rides"}
ASSUME LimitAssumption == RateLimit \in Nat \ {0} /\ MaxCalls \in Nat \ {0} /\ MaxInvites \in Nat

VARIABLES
  manages,  \* household_members with can_manage_household
  children, \* the minors of the household
  rights,   \* guardian_relationships
  verified, \* contacts verified on their owner's account
  allowed,  \* organizations.household_delegates_enabled
  invite,   \* household_delegate_invitations, in the order they are made
  aged,     \* how many of them are older than an hour, and than seven days
  grant,    \* the live row of household_delegates, and when access was last cut
  checked,  \* calls that passed the guardian's checks
  leaving,  \* calls of leaveDelegation between their two statements
  since     \* history: invitations made since the access of a delegate was cut

childVars == <<manages, children, rights, verified, allowed, invite, aged, grant, checked, leaving, since>>
people == <<manages, children, rights, verified, allowed>>

Invites == 1..MaxInvites
Rights == {"guardian", "request_rides", "approve_rides"}

Terms == [by : Guardians, scopes : SUBSET Scopes, cover : Cover]
Offered == {[by |-> g, scopes |-> t.scopes, cover |-> t.cover] : g \in Guardians, t \in TermChoices}

Calls == [terms : Offered, for : [invite : Contacts] \cup [update : Delegates]]

InviteRows ==
  [status : {"none", "open", "accepted", "revoked"}, contact : Contacts \cup {"none"}, terms : Terms]
GrantRows ==
  [status : {"none", "active", "paused", "revoked"}, ended : BOOLEAN, cut : 0..MaxInvites, terms : Terms]

Made == Cardinality({i \in Invites : invite[i].status # "none"})

ChildInit ==
  /\ \E g \in Guardians :
       /\ manages = {g}
       /\ invite = [i \in Invites |-> [status |-> "none",
                                        contact |-> "none",
                                        terms |-> CHOOSE t \in Offered : t.by = g]]
       /\ grant = [d \in Delegates |-> [status |-> "none", ended |-> FALSE, cut |-> 0,
                                        terms |-> CHOOSE t \in Offered : t.by = g]]
  /\ children = {} /\ rights = [g \in Guardians |-> [c \in Children |-> {}]]
  /\ verified = {} /\ aged = [hour |-> 0, week |-> 0]
  /\ allowed = TRUE
  /\ checked = {} /\ leaving = {}
  /\ since = [d \in Delegates |-> {}]

-----------------------------------------------------------------------------
(* The policy: evaluateChildAccess *)

Covered(cover) == IF cover.all THEN children ELSE cover.named \cap children

\* A guardian gives only what they may do themselves, for every covered child.
delegateGrantRightsError(t) ==
  \E c \in Covered(t.cover) :
    ~ {"guardian"} \cup (t.scopes \cap Rights) \subseteq rights[t.by][c]

delegateGrantInputError(t) ==
  \/ children = {}
  \/ ~t.cover.all /\ (t.cover.named = {} \/ ~ t.cover.named \subseteq children)

\* Acting on a request follows from being allowed to ask for it.
scopeFor(action) == IF action = "manage_ride_request" THEN "request_rides" ELSE action

delegateGrantAllows(d, c, action) ==
  /\ scopeFor(action) \in Scopes
  /\ c \in Covered(grant[d].terms.cover)
  /\ grant[d].status = "active" /\ ~grant[d].ended
  /\ allowed
  /\ scopeFor(action) \in grant[d].terms.scopes

guardianAllows(g, c, action) ==
  /\ "guardian" \in rights[g][c]
  /\ CASE action = "request_rides" -> "request_rides" \in rights[g][c]
       [] action \in {"approve_rides", "manage_ride_request"} -> "approve_rides" \in rights[g][c]
       [] action \in {"view_ride_details", "receive_notifications"} -> TRUE
       [] OTHER -> FALSE

canActForChild(p, c, action) ==
  \/ p \in Guardians /\ guardianAllows(p, c, action)
  \/ p \in Delegates /\ delegateGrantAllows(p, c, action)

-----------------------------------------------------------------------------
(* The guardian's side *)

managedHouseholdFor(g) == g \in manages

RecentBy(g) == {i \in 1..Made : i > aged.hour /\ invite[i].terms.by = g}
delegateInviteRateLimitError(g) == Cardinality(RecentBy(g)) >= RateLimit

\* Both handlers check everything on rows they do not lock.
CheckTerms(call) ==
  /\ Cardinality(checked) < MaxCalls /\ call \notin checked
  /\ managedHouseholdFor(call.terms.by)
  /\ ~delegateGrantInputError(call.terms) /\ ~delegateGrantRightsError(call.terms)
  /\ "invite" \in DOMAIN call.for => ~delegateInviteRateLimitError(call.terms.by)
  /\ checked' = checked \cup {call}
  /\ UNCHANGED <<people, invite, aged, grant, leaving, since>>

\* A new invitation replaces the open ones to the same contact.
createDelegateInvitation(call) ==
  /\ call \in checked /\ "invite" \in DOMAIN call.for
  /\ Made < MaxInvites
  /\ LET contact == call.for.invite
     IN  /\ invite' = [i \in Invites |->
              IF i = Made + 1
              THEN [status |-> "open", contact |-> contact, terms |-> call.terms]
              ELSE IF invite[i].status = "open" /\ invite[i].contact = contact
              THEN [invite[i] EXCEPT !.status = "revoked"]
              ELSE invite[i]]
         /\ since' = [d \in Delegates |-> since[d] \cup {Made + 1}]
  /\ checked' = checked \ {call}
  /\ UNCHANGED <<people, aged, grant, leaving>>

cancelDelegateInvitation(g, i) ==
  /\ managedHouseholdFor(g) /\ invite[i].status = "open"
  /\ invite' = [invite EXCEPT ![i].status = "revoked"]
  /\ UNCHANGED <<people, aged, grant, checked, leaving, since>>

\* The transaction only looks at the status of the grant again.  A new end
\* date lies ahead.
updateDelegate(call) ==
  /\ call \in checked /\ "update" \in DOMAIN call.for
  /\ LET d == call.for.update
     IN  /\ grant[d].status \in {"active", "paused"}
         /\ grant' = [grant EXCEPT ![d] = [@ EXCEPT !.ended = FALSE,
                        !.terms = [call.terms EXCEPT !.by = grant[d].terms.by]]]
  /\ checked' = checked \ {call}
  /\ UNCHANGED <<people, invite, aged, leaving, since>>

\* A check that leads to nothing: the request is refused or given up.
GiveUp(call) ==
  /\ call \in checked /\ checked' = checked \ {call}
  /\ UNCHANGED <<people, invite, aged, grant, leaving, since>>

\* Only contacts that are on the account by now are found.
cancelOpenInvitesForPerson(d) ==
  [i \in Invites |-> IF invite[i].status = "open" /\ invite[i].contact \in verified
                        /\ OwnerOf[invite[i].contact] = d
                     THEN [invite[i] EXCEPT !.status = "revoked"] ELSE invite[i]]

setDelegateStatus(g, d, to) ==
  /\ managedHouseholdFor(g) /\ grant[d].status \in {"active", "paused"}
  /\ to \in {"active", "paused", "revoked"}
  /\ grant' = [grant EXCEPT ![d].status = to, ![d].cut = IF to = "active" THEN @ ELSE Made]
  /\ invite' = IF to = "active" THEN invite ELSE cancelOpenInvitesForPerson(d)
  /\ since' = IF to = "active" THEN since ELSE [since EXCEPT ![d] = {}]
  /\ UNCHANGED <<people, aged, checked, leaving>>

-----------------------------------------------------------------------------
(* The delegate's side *)

delegateInviteAcceptBlockBug(i, d) ==
  \/ invite[i].terms.by \notin manages
  \/ grant[d].status = "paused"
delegateInviteAcceptBlock(i, d) ==
  \/ invite[i].terms.by \notin manages
  \/ grant[d].status = "paused"
  \/ grant[d].cut >= i /\ grant[d].cut > 0

\* Named children who left the household are dropped.  The end date of the
\* invitation must lie ahead, or the CHECK of the table fails.
acceptDelegateInvitation(i, d) ==
  LET terms == [invite[i].terms EXCEPT !.cover.named = @ \cap children]
  IN  /\ invite[i].status = "open" /\ i > aged.week
      /\ invite[i].contact \in verified /\ OwnerOf[invite[i].contact] = d
      /\ terms.cover.all \/ terms.cover.named # {}
      /\ ~delegateInviteAcceptBlock(i, d)
      /\ ~delegateGrantRightsError(terms)
      /\ grant' = [grant EXCEPT ![d] = [@ EXCEPT !.status = "active", !.ended = FALSE, !.terms = terms]]
      /\ invite' = [cancelOpenInvitesForPerson(d) EXCEPT ![i] = [invite[i] EXCEPT !.status = "accepted"]]
      /\ UNCHANGED <<people, aged, checked, leaving, since>>

Left(d) == [grant EXCEPT ![d].status = "revoked", ![d].cut = Made]

leaveDelegation(d) ==
  /\ grant[d].status \in {"active", "paused"}
  /\ grant' = Left(d)
  /\ leaving' = leaving \cup {d}
  /\ since' = [since EXCEPT ![d] = {}]
  /\ UNCHANGED <<people, invite, aged, checked>>

\* The second statement runs, or the process stops before it.
CancelAfterLeaving(d) ==
  /\ d \in leaving /\ leaving' = leaving \ {d}
  /\ invite' \in {invite, cancelOpenInvitesForPerson(d)}
  /\ UNCHANGED <<people, aged, grant, checked, since>>

-----------------------------------------------------------------------------
(* The rest of the system: accounts, onboarding, administrators, time *)

\* addStudentToHousehold: the manager who adds a child becomes its guardian.
addStudentToHousehold(g, c) ==
  /\ managedHouseholdFor(g) /\ c \notin children
  /\ children' = children \cup {c}
  /\ rights' = [rights EXCEPT ![g][c] = Rights]
  /\ UNCHANGED <<manages, verified, allowed, invite, aged, grant, checked, leaving, since>>

\* addHouseholdMember: an administrator sets who manages the household.
addHouseholdMember(g) ==
  /\ manages' \in {manages \cup {g}, manages \ {g}}
  /\ UNCHANGED <<children, rights, verified, allowed, invite, aged, grant, checked, leaving, since>>

\* addGuardian: an administrator sets what a guardian may do for a child.
addGuardian(g, c) ==
  /\ \E may \in AdminRights :
       rights' = [rights EXCEPT ![g][c] = {"guardian"} \cup may]
  /\ UNCHANGED <<manages, children, verified, allowed, invite, aged, grant, checked, leaving, since>>

\* updateManagedStudentRights makes any manager a guardian with every right.
updateManagedStudentRights(g, c) ==
  /\ c \in children /\ (managedHouseholdFor(g) \/ "request_rides" \in rights[g][c])
  /\ rights' = [rights EXCEPT ![g][c] = Rights]
  /\ UNCHANGED <<manages, children, verified, allowed, invite, aged, grant, checked, leaving, since>>

VerifyContact(k) ==
  /\ verified' = verified \cup {k}
  /\ UNCHANGED <<manages, children, rights, allowed, invite, aged, grant, checked, leaving, since>>

SwitchDelegates ==
  /\ allowed' = ~allowed
  /\ UNCHANGED <<manages, children, rights, verified, invite, aged, grant, checked, leaving, since>>

\* Seven days pass for an invitation, an hour for the limit, an end date comes.
PassTime ==
  /\ \/ aged.hour < Made /\ aged' = [aged EXCEPT !.hour = @ + 1] /\ UNCHANGED grant
     \/ aged.week < aged.hour /\ aged' = [aged EXCEPT !.week = @ + 1] /\ UNCHANGED grant
     \/ \E d \in Delegates : /\ grant[d].status # "none" /\ ~grant[d].ended
                             /\ grant' = [grant EXCEPT ![d].ended = TRUE] /\ UNCHANGED aged
  /\ UNCHANGED <<people, invite, checked, leaving, since>>

ChildNext ==
  \/ \E call \in Calls : CheckTerms(call)
  \/ \E call \in checked : createDelegateInvitation(call) \/ updateDelegate(call) \/ GiveUp(call)
  \/ \E g \in Guardians, i \in Invites : cancelDelegateInvitation(g, i)
  \/ \E g \in Guardians, d \in Delegates : \E to \in {"active", "paused", "revoked"} : setDelegateStatus(g, d, to)
  \/ \E d \in Delegates : \/ leaveDelegation(d) \/ CancelAfterLeaving(d)
                          \/ \E i \in Invites : acceptDelegateInvitation(i, d)
  \/ \E g \in Guardians : addHouseholdMember(g)
  \/ \E g \in Guardians, c \in Children :
       addStudentToHousehold(g, c) \/ addGuardian(g, c) \/ updateManagedStudentRights(g, c)
  \/ \E k \in Contacts : VerifyContact(k)
  \/ SwitchDelegates \/ PassTime

ChildSpec == ChildInit /\ [][ChildNext]_childVars

-----------------------------------------------------------------------------
(* Properties *)

\* Rows are well typed, invitations are made in order, and a grant is cut by
\* something that happened after some invitation.
ChildTypeOK ==
  /\ manages \subseteq Guardians /\ children \subseteq Children /\ verified \subseteq Contacts
  /\ rights \in [Guardians -> [Children -> SUBSET Rights]]
  /\ allowed \in BOOLEAN
  /\ aged \in [hour : 0..Made, week : 0..Made] /\ aged.week <= aged.hour
  /\ invite \in [Invites -> InviteRows] /\ grant \in [Delegates -> GrantRows]
  /\ checked \subseteq Calls /\ leaving \subseteq Delegates
  /\ \A i \in Invites : invite[i].status # "none" <=> i <= Made
  /\ \A d \in Delegates : since[d] = {i \in 1..Made : i > grant[d].cut}

\* household-delegate-policy.ts: "A paused grant is never turned back on by an
\* invite, and a grant paused or removed after the invite was sent makes the
\* invite unusable": whoever lost access gets it back from a guardian who
\* resumes it or who sent an invitation since, even when older invitations went
\* to contacts that were not on the account yet, or were never cancelled.
RevivedByConsent ==
  [][\A d \in Delegates : grant[d].status # "active" /\ grant'[d].status = "active" =>
       \/ grant[d].status = "paused" /\ invite' = invite
       \/ \E i \in since[d] : invite[i].status = "open" /\ invite'[i].status = "accepted"]_childVars

\* Migration 061: "Single-use invite links": an invitation that was used or
\* cancelled stays so, whoever else cancels, replaces or accepts at that time.
InvitationIsSpent ==
  [][\A i \in Invites : invite[i].status \in {"accepted", "revoked"} =>
                         invite'[i].status = invite[i].status]_childVars

\* What a guardian has ended stays ended, until a guardian begins it anew.
ConsentIsFinal == RevivedByConsent /\ InvitationIsSpent

\* The hourly limit is overrun by the calls between check and insert only.
InvitesWithinLimit ==
  \A g \in Guardians : Cardinality(RecentBy(g)) <= RateLimit + MaxCalls - 1

\* household-delegate-policy.ts: "A guardian can only give permissions they
\* hold themselves, for each child the grant covers", and a grant for all
\* children covers every child that the household has.
DelegateWithinInviter ==
  \A d \in Delegates, c \in Children, s \in {"request_rides", "approve_rides"} :
    canActForChild(d, c, s) => "guardian" \in rights[grant[d].terms.by][c]
=============================================================================

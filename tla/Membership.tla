------------------------------- MODULE Membership -------------------------------
(***************************************************************************)
(* How people become members of one organization: invitations of admins    *)
(* and managers (lib/organization-invitations.ts with its policy), join    *)
(* codes, students added by their parents (lib/onboarding.ts,              *)
(* lib/accounts.ts), while the organization may be removed                 *)
(* (lib/organization-decommission.ts).                                     *)
(*                                                                         *)
(* There is one row per person (the unique index of migration 017).  A     *)
(* transaction is two steps, the reads with the locks they take and the    *)
(* writes with the commit; what it has locked is what its kind locks.      *)
(* An e-mail address stands for the person who has verified it.            *)
(***************************************************************************)
EXTENDS Naturals, FiniteSets

CONSTANTS
  Founder,        \* the person whose request made the organization
  Newcomers,      \* everybody else
  Invitations,    \* invitations that may be sent
  JoinCodes,      \* join codes that may be made
  MaxUses,        \* max_uses of a join code
  PerHour         \* invitations one inviter may send in an hour

ASSUME MembershipAssumption == MaxUses \in Nat \ {0} /\ PerHour \in Nat \ {0} /\ Founder \notin Newcomers

Folk == {Founder} \cup Newcomers
ROLE_RANK == [none |-> 0, member |-> 1, manager |-> 2, admin |-> 3, owner |-> 4]
NotMember == [role |-> "none", status |-> "none"]

VARIABLES
  live,     \* organizations.status is active
  removed,  \* how far the removal is: no, begun, suspended
  members,  \* memberships
  invites,  \* organization_invitations
  sending,  \* invitations checked and not yet inserted
  joins,    \* organization_join_codes: status and use_count
  open      \* transactions that have read and not yet written

membershipVars == <<live, removed, members, invites, sending, joins, open>>

Uninvited == [state |-> "none", to |-> Founder, role |-> "none", by |-> Founder]
MembershipInit ==
  /\ live = TRUE /\ removed = "no"
  /\ members = [p \in Folk |-> IF p = Founder THEN [role |-> "owner", status |-> "active"] ELSE NotMember]
  /\ invites = [i \in Invitations |-> Uninvited] /\ sending = {}
  /\ joins = [c \in JoinCodes |-> [made |-> FALSE, used |-> 0]]
  /\ open = {}

Active(p) == members[p].status = "active"
Role(p) == IF Active(p) THEN members[p].role ELSE "none"

\* Row locks: of an invitation, of a membership that was found, of the
\* organization with the code.
InviteFreeBug(i) == TRUE
InviteFree(i) == /\ \A t \in open : t.kind # "accept" \/ t.of # i
                 /\ \A s \in sending : i \notin s.drop
MemberFreeBug(p) == TRUE
MemberFree(p) == \A t \in open : t.by # p \/ t.kind = "copy" \/ t.found = NotMember
OrganizationFree == \A t \in open : t.kind # "join"

-----------------------------------------------------------------------------
(* Invitations *)

invitableRoles(role) == CASE role = "owner" -> {"admin", "manager"} [] role = "admin" -> {"manager"} [] OTHER -> {}

acceptedMembershipRole(current, invited) == IF ROLE_RANK[current] >= ROLE_RANK[invited] THEN current ELSE invited

\* Counted and compared before the transaction; every sending is within the hour.
SentBy(p) == Cardinality({i \in Invitations : invites[i].state # "none" /\ invites[i].by = p})
createInvitation(i, by, to, role) ==
  /\ invites[i].state = "none" /\ \A s \in sending : s.i # i
  /\ role \in invitableRoles(Role(by)) /\ SentBy(by) < PerHour
  /\ Active(to) => acceptedMembershipRole(Role(to), role) # Role(to)
  /\ sending' = sending \cup {[i |-> i, by |-> by, to |-> to, role |-> role, begun |-> FALSE, drop |-> {}]}
  /\ UNCHANGED <<live, removed, members, invites, joins, open>>

\* The transaction: whatever is still open for the address is revoked, then
\* the new one is inserted; what another transaction inserts is not seen.
Replaced(to) == {j \in Invitations : invites[j].to = to /\ invites[j].state \in {"open", "expired"}}
ReplaceOpen(s) ==
  /\ s \in sending /\ ~s.begun /\ \A j \in Replaced(s.to) : InviteFree(j)
  /\ sending' = (sending \ {s}) \cup {[s EXCEPT !.begun = TRUE, !.drop = Replaced(s.to)]}
  /\ UNCHANGED <<live, removed, members, invites, joins, open>>

InsertInvitation(s) ==
  /\ s \in sending /\ s.begun /\ sending' = sending \ {s}
  /\ invites' = [j \in Invitations |->
       IF j = s.i THEN [state |-> "open", to |-> s.to, role |-> s.role, by |-> s.by]
       ELSE IF j \in s.drop THEN [invites[j] EXCEPT !.state = "revoked"] ELSE invites[j]]
  /\ UNCHANGED <<live, removed, members, joins, open>>

revokeInvitation(i, by) ==
  /\ invites[i].role \in invitableRoles(Role(by)) /\ InviteFree(i)
  /\ invites[i].state \in {"open", "expired"} /\ invites' = [invites EXCEPT ![i].state = "revoked"]
  /\ UNCHANGED <<live, removed, members, sending, joins, open>>

InvitationExpires(i) ==
  /\ invites[i].state = "open" /\ invites' = [invites EXCEPT ![i].state = "expired"]
  /\ UNCHANGED <<live, removed, members, sending, joins, open>>

invitationState(i) == invites[i].state

\* The invitation is locked and looked at; the organization is looked at only.
acceptInvitation(i, p) ==
  /\ InviteFree(i) /\ MemberFree(p) /\ live /\ invitationState(i) = "open" /\ p = invites[i].to
  /\ open' = open \cup {[kind |-> "accept", of |-> i, by |-> p, found |-> members[p]]}
  /\ UNCHANGED <<live, removed, members, invites, sending, joins>>

\* One row per person: inserting where somebody else has inserted fails.
RowIsAsFound(t) == t.found = NotMember => members[t.by] = NotMember
Ends(t) == t \in open /\ open' = open \ {t}

AcceptWrites(t) ==
  LET was == IF t.found.status = "active" THEN t.found.role ELSE "none" IN
  /\ t.kind = "accept" /\ Ends(t)
  /\ IF RowIsAsFound(t)
     THEN /\ members' = [members EXCEPT ![t.by] = [role |-> acceptedMembershipRole(was, invites[t.of].role), status |-> "active"]]
          /\ invites' = [invites EXCEPT ![t.of].state = "accepted"]
     ELSE UNCHANGED <<members, invites>>
  /\ UNCHANGED <<live, removed, sending, joins>>

-----------------------------------------------------------------------------
(* Join codes, and students *)

\* The platform owner may bound the uses; a manager may not make one.
createJoinCode(c, by) ==
  /\ Role(by) \in {"owner", "admin"} /\ ~joins[c].made /\ joins' = [joins EXCEPT ![c].made = TRUE]
  /\ UNCHANGED <<live, removed, members, invites, sending, open>>

\* The code and its organization are locked, then the membership, if any.
joinOrganizationWithCode(c, p) ==
  /\ OrganizationFree /\ MemberFree(p)
  /\ joins[c].made /\ live /\ joins[c].used < MaxUses
  /\ open' = open \cup {[kind |-> "join", of |-> c, by |-> p, found |-> members[p]]}
  /\ UNCHANGED <<live, removed, members, invites, sending, joins>>

JoinWrites(t) ==
  /\ t.kind = "join" /\ Ends(t)
  /\ IF t.found.status = "active" \/ ~RowIsAsFound(t) THEN UNCHANGED <<members, joins>>
     ELSE /\ members' = [members EXCEPT ![t.by] = [role |-> "member", status |-> "active"]]
          /\ joins' = [joins EXCEPT ![t.of].used = @ + 1]
  /\ UNCHANGED <<live, removed, invites, sending>>

\* Statements without a transaction: the parent is a member, the student has
\* a row or not, and what was read is what is then updated or inserted.
copyOrganizationMembershipToStudent(parent, p) ==
  /\ Active(parent) /\ parent # p /\ \A t \in open : t.by # p \/ t.kind # "copy"
  /\ open' = open \cup {[kind |-> "copy", of |-> parent, by |-> p, found |-> members[p]]}
  /\ UNCHANGED <<live, removed, members, invites, sending, joins>>

CopyWrites(t) ==
  /\ t.kind = "copy" /\ Ends(t) /\ MemberFree(t.by)
  /\ members' = IF t.found # NotMember THEN [members EXCEPT ![t.by].status = "active"]
                ELSE IF RowIsAsFound(t) THEN [members EXCEPT ![t.by] = [role |-> "member", status |-> "active"]]
                ELSE members
  /\ UNCHANGED <<live, removed, invites, sending, joins>>

-----------------------------------------------------------------------------
(* The organization is removed *)

OrganizationEnds ==
  /\ removed = "no" /\ OrganizationFree /\ removed' = "begun" /\ live' = FALSE
  /\ UNCHANGED <<members, invites, sending, joins, open>>

MembershipsEnd ==
  /\ removed = "begun" /\ removed' = "suspended" /\ \A p \in Folk : MemberFree(p)
  /\ members' = [p \in Folk |-> IF Active(p) THEN [members[p] EXCEPT !.status = "suspended"] ELSE members[p]]
  /\ UNCHANGED <<live, invites, sending, joins, open>>

\* A process dies: what it had begun is rolled back.
MembershipCrash ==
  /\ \/ \E t \in open : open' = open \ {t} /\ UNCHANGED sending
     \/ \E s \in sending : sending' = sending \ {s} /\ UNCHANGED open
  /\ UNCHANGED <<live, removed, members, invites, joins>>

-----------------------------------------------------------------------------
InvitationsAdminRoute ==
  \/ \E i \in Invitations, by, to \in Folk, role \in {"admin", "manager"} : createInvitation(i, by, to, role)
  \/ \E s \in sending : ReplaceOpen(s) \/ InsertInvitation(s)
  \/ \E i \in Invitations, by \in Folk : revokeInvitation(i, by)
InvitationsRoute ==
  \/ \E i \in Invitations, p \in Folk : acceptInvitation(i, p)
  \/ \E t \in open : AcceptWrites(t)
SetupRoute == \E c \in JoinCodes, by \in Folk : createJoinCode(c, by)
OnboardingJoins ==
  \/ \E c \in JoinCodes, p \in Folk : joinOrganizationWithCode(c, p)
  \/ \E parent \in Folk, p \in Newcomers : copyOrganizationMembershipToStudent(parent, p)
  \/ \E t \in open : JoinWrites(t) \/ CopyWrites(t)

MembershipNext ==
  \/ InvitationsAdminRoute \/ InvitationsRoute \/ SetupRoute \/ OnboardingJoins
  \/ OrganizationEnds \/ MembershipsEnd \/ MembershipCrash
  \/ \E i \in Invitations : InvitationExpires(i)

MembershipSpec == MembershipInit /\ [][MembershipNext]_membershipVars

-----------------------------------------------------------------------------
(* Properties *)

\* Rows are well typed, and no code is used more often than it may be, however
\* many use it at once (lib/onboarding.ts, joinOrganizationWithCode).
CodesWithinUses ==
  /\ members \in [Folk -> [role : DOMAIN ROLE_RANK, status : {"none", "active", "suspended"}]]
  /\ \A i \in Invitations : invites[i].state \in {"none", "open", "expired", "revoked", "accepted"}
  /\ \A c \in JoinCodes : joins[c].used \in 0..MaxUses

\* "Accepting creates or upgrades the org-level membership and never lowers an
\* existing role": nothing that runs at the same time, a second invitation, a
\* code or a parent, takes from an active member what the member already is.
RolesNeverLowered ==
  [][\A p \in Folk : Active(p) /\ members'[p].status = "active" => ROLE_RANK[members'[p].role] >= ROLE_RANK[members[p].role]]_membershipVars

\* Memberships come by codes that still have uses, and are not lowered.
MembershipsHold == []CodesWithinUses /\ RolesNeverLowered

\* "The link works once": what was revoked, replaced or used admits nobody any
\* more, whoever had already begun to accept it.
ClosedInvitationsStay ==
  [][\A i \in Invitations : invites[i].state \in {"revoked", "accepted"} => invites'[i] = invites[i]]_membershipVars

\* "Sending a new invite to the same email cancels the older open one."
\* Violated: two sent at the same time do not see each other.
OneOpenInvitation ==
  \A i, j \in Invitations : invites[i].state = "open" /\ invites[j].state = "open" /\ invites[i].to = invites[j].to => i = j

\* Once the memberships of a removed organization are suspended nobody is an
\* active member of it.  Violated: who accepts an invitation has looked at the
\* organization without locking it.
NoneActiveAfterRemoval == removed = "suspended" => \A p \in Folk : ~Active(p)
=============================================================================

--------------------------- MODULE OrganizationsProofs ---------------------------
(* Codes are used no more often than they may be, closed invitations stay   *)
(* closed and no member is lowered, for any number of people, invitations,  *)
(* codes and transactions at once; hostnames of organizations are sound,    *)
(* for any number of hostnames, organizations, events and handlers; and     *)
(* communities are made by approval and leave nothing behind them outside.  *)
EXTENDS Membership, TenantDomains, Communities, FiniteSetTheorems, TLAPS

MemberRows == [role : DOMAIN ROLE_RANK, status : {"none", "active", "suspended"}]
InviteRows == [state : {"none", "open", "expired", "revoked", "accepted"}, to : Folk,
               role : {"none", "admin", "manager"}, by : Folk]
Sendings == [i : Invitations, by : Folk, to : Folk, role : {"admin", "manager"},
             begun : BOOLEAN, drop : SUBSET Invitations]
Accepts == [kind : {"accept"}, of : Invitations, by : Folk, found : MemberRows]
Joins == [kind : {"join"}, of : JoinCodes, by : Folk, found : MemberRows]
Copies == [kind : {"copy"}, of : Folk, by : Folk, found : MemberRows]

MembershipTypes ==
  /\ members \in [Folk -> MemberRows] /\ invites \in [Invitations -> InviteRows]
  /\ joins \in [JoinCodes -> [made : BOOLEAN, used : Nat]]
  /\ sending \subseteq Sendings /\ open \subseteq Accepts \cup Joins \cup Copies

-----------------------------------------------------------------------------
(* Roles and rows *)

LEMMA Roles ==
  /\ DOMAIN ROLE_RANK = {"none", "member", "manager", "admin", "owner"}
  /\ ROLE_RANK["none"] = 0 /\ ROLE_RANK["member"] = 1 /\ ROLE_RANK["manager"] = 2
  /\ ROLE_RANK["admin"] = 3 /\ ROLE_RANK["owner"] = 4
BY DEF ROLE_RANK

\* Accepting never gives less than there was.
LEMMA AcceptedRole ==
  ASSUME NEW was \in DOMAIN ROLE_RANK, NEW invited \in {"none", "admin", "manager"}
  PROVE  /\ acceptedMembershipRole(was, invited) \in DOMAIN ROLE_RANK
         /\ ROLE_RANK[acceptedMembershipRole(was, invited)] >= ROLE_RANK[was]
BY Roles DEF acceptedMembershipRole

LEMMA Inviting ==
  ASSUME NEW role, NEW invited \in invitableRoles(role)
  PROVE  invited \in {"admin", "manager"}
<1>1. CASE role = "owner"
  BY <1>1 DEF invitableRoles
<1>2. CASE role = "admin"
  BY <1>2 DEF invitableRoles
<1>3. CASE role # "owner" /\ role # "admin"
  BY <1>3 DEF invitableRoles
<1> QED BY <1>1, <1>2, <1>3

LEMMA MemberParts ==
  ASSUME MembershipTypes, NEW p \in Folk
  PROVE  /\ members[p] \in MemberRows /\ members[p].role \in DOMAIN ROLE_RANK
         /\ members[p].status \in {"none", "active", "suspended"}
         /\ \A status \in {"active", "suspended"} :
              /\ [members[p] EXCEPT !.status = status] \in MemberRows
              /\ [members[p] EXCEPT !.status = status].role = members[p].role
              /\ [members[p] EXCEPT !.status = status].status = status
BY DEF MembershipTypes, MemberRows

LEMMA RankNat ==
  ASSUME MembershipTypes, NEW p \in Folk
  PROVE  ROLE_RANK[members[p].role] \in Nat
<1>1. members[p].role \in {"none", "member", "manager", "admin", "owner"}
  BY MemberParts, Roles
<1> QED BY <1>1, Roles

LEMMA InviteParts ==
  ASSUME MembershipTypes, NEW i \in Invitations
  PROVE  /\ invites[i] \in InviteRows
         /\ invites[i].role \in {"none", "admin", "manager"} /\ invites[i].to \in Folk
         /\ \A state \in {"expired", "revoked", "accepted"} :
              /\ [invites[i] EXCEPT !.state = state] \in InviteRows
              /\ [invites[i] EXCEPT !.state = state].state = state
BY DEF MembershipTypes, InviteRows

LEMMA TxnParts ==
  ASSUME MembershipTypes, NEW t \in open
  PROVE  /\ t.by \in Folk /\ t.found \in MemberRows /\ t.kind \in {"accept", "join", "copy"}
         /\ t.found.role \in DOMAIN ROLE_RANK
         /\ t.kind = "accept" => t.of \in Invitations
         /\ t.kind = "join" => t.of \in JoinCodes
BY DEF MembershipTypes, Accepts, Joins, Copies, MemberRows

LEMMA SendParts ==
  ASSUME MembershipTypes, NEW s \in sending
  PROVE  /\ s.i \in Invitations /\ s.by \in Folk /\ s.to \in Folk /\ s.role \in {"admin", "manager"}
         /\ s.drop \subseteq Invitations
         /\ \A D \in SUBSET Invitations : LET u == [s EXCEPT !.begun = TRUE, !.drop = D] IN
              u \in Sendings /\ u.i = s.i /\ u.drop = D
BY DEF MembershipTypes, Sendings

-----------------------------------------------------------------------------
(* Types *)

LEMMA MembershipTypesInit == MembershipInit => MembershipTypes
BY Roles DEF MembershipInit, MembershipTypes, MemberRows, InviteRows, Folk, NotMember, Uninvited

LEMMA NotMemberTyped == NotMember \in MemberRows
BY Roles DEF NotMember, MemberRows

LEMMA AcceptTyped ==
  ASSUME MembershipTypes, NEW t \in open, AcceptWrites(t)
  PROVE  members' \in [Folk -> MemberRows] /\ invites' \in [Invitations -> InviteRows]
<1>1. t.by \in Folk /\ t.of \in Invitations
  BY TxnParts DEF AcceptWrites
<1> DEFINE was == IF t.found.status = "active" THEN t.found.role ELSE "none"
           row == [role |-> acceptedMembershipRole(was, invites[t.of].role), status |-> "active"]
<1>2. row \in MemberRows
  <2>1. was \in DOMAIN ROLE_RANK
    BY TxnParts, Roles
  <2>2. acceptedMembershipRole(was, invites[t.of].role) \in DOMAIN ROLE_RANK
    BY <1>1, <2>1, InviteParts, AcceptedRole
  <2> QED BY <2>2 DEF MemberRows
<1>3. CASE RowIsAsFound(t)
  <2>1. members' = [members EXCEPT ![t.by] = row] /\ invites' = [invites EXCEPT ![t.of].state = "accepted"]
    BY <1>3 DEF AcceptWrites
  <2> HIDE DEF row
  <2> QED BY <1>1, <1>2, <2>1, InviteParts DEF MembershipTypes
<1>4. CASE ~RowIsAsFound(t)
  BY <1>4 DEF AcceptWrites, MembershipTypes
<1> QED BY <1>3, <1>4

LEMMA WritesTyped ==
  ASSUME MembershipTypes, NEW t \in open, JoinWrites(t) \/ CopyWrites(t)
  PROVE  members' \in [Folk -> MemberRows]
         /\ joins' \in [JoinCodes -> [made : BOOLEAN, used : Nat]]
<1>1. t.by \in Folk /\ (t.kind = "join" => t.of \in JoinCodes)
  BY TxnParts
<1>2. [role |-> "member", status |-> "active"] \in MemberRows
  BY Roles DEF MemberRows
<1>3. joins' \in [JoinCodes -> [made : BOOLEAN, used : Nat]]
  BY <1>1 DEF JoinWrites, CopyWrites, MembershipTypes
<1>4. members' \in {members, [members EXCEPT ![t.by] = [role |-> "member", status |-> "active"]],
                    [members EXCEPT ![t.by].status = "active"]}
  BY DEF JoinWrites, CopyWrites
<1> QED BY <1>1, <1>2, <1>3, <1>4, MemberParts DEF MembershipTypes

LEMMA MembershipTypesStep == MembershipTypes /\ [MembershipNext]_membershipVars => MembershipTypes'
<1> SUFFICES ASSUME MembershipTypes, [MembershipNext]_membershipVars PROVE MembershipTypes'
  OBVIOUS
<1>1. ASSUME NEW i \in Invitations, NEW by \in Folk, NEW to \in Folk, NEW role \in {"admin", "manager"},
             createInvitation(i, by, to, role)
      PROVE  MembershipTypes'
  <2>1. [i |-> i, by |-> by, to |-> to, role |-> role, begun |-> FALSE, drop |-> {}] \in Sendings
    BY DEF Sendings
  <2> QED BY <1>1, <2>1 DEF createInvitation, MembershipTypes
<1>2. ASSUME NEW s \in sending, ReplaceOpen(s) PROVE MembershipTypes'
  <2>1. [s EXCEPT !.begun = TRUE, !.drop = Replaced(s.to)] \in Sendings
    BY SendParts DEF Replaced
  <2> QED BY <1>2, <2>1 DEF ReplaceOpen, MembershipTypes
<1>3. ASSUME NEW s \in sending, InsertInvitation(s) PROVE MembershipTypes'
  <2>1. [state |-> "open", to |-> s.to, role |-> s.role, by |-> s.by] \in InviteRows
    BY SendParts DEF InviteRows
  <2>2. invites' \in [Invitations -> InviteRows]
    BY <1>3, <2>1, InviteParts DEF InsertInvitation
  <2> QED BY <1>3, <2>2 DEF InsertInvitation, MembershipTypes
<1>4. ASSUME NEW i \in Invitations, \/ \E by \in Folk : revokeInvitation(i, by)
                                    \/ InvitationExpires(i)
      PROVE  MembershipTypes'
  <2>1. \E state \in {"expired", "revoked"} : invites' = [invites EXCEPT ![i].state = state]
    BY <1>4 DEF revokeInvitation, InvitationExpires
  <2>2. invites' \in [Invitations -> InviteRows]
    BY <2>1, InviteParts DEF MembershipTypes
  <2> QED BY <1>4, <2>2 DEF revokeInvitation, InvitationExpires, MembershipTypes
<1>5. ASSUME NEW i \in Invitations, NEW p \in Folk, acceptInvitation(i, p) PROVE MembershipTypes'
  <2>1. [kind |-> "accept", of |-> i, by |-> p, found |-> members[p]] \in Accepts
    BY MemberParts DEF Accepts
  <2> QED BY <1>5, <2>1 DEF acceptInvitation, MembershipTypes
<1>6. ASSUME NEW c \in JoinCodes, NEW p \in Folk, joinOrganizationWithCode(c, p) PROVE MembershipTypes'
  <2>1. [kind |-> "join", of |-> c, by |-> p, found |-> members[p]] \in Joins
    BY MemberParts DEF Joins
  <2> QED BY <1>6, <2>1 DEF joinOrganizationWithCode, MembershipTypes
<1>7. ASSUME NEW parent \in Folk, NEW p \in Newcomers, copyOrganizationMembershipToStudent(parent, p) PROVE MembershipTypes'
  <2>1. [kind |-> "copy", of |-> parent, by |-> p, found |-> members[p]] \in Copies
    BY MemberParts DEF Copies, Folk
  <2> QED BY <1>7, <2>1 DEF copyOrganizationMembershipToStudent, MembershipTypes
<1>8. ASSUME NEW t \in open, AcceptWrites(t) PROVE MembershipTypes'
  BY <1>8, AcceptTyped DEF AcceptWrites, Ends, MembershipTypes
<1>9. ASSUME NEW t \in open, JoinWrites(t) \/ CopyWrites(t) PROVE MembershipTypes'
  BY <1>9, WritesTyped DEF JoinWrites, CopyWrites, Ends, MembershipTypes
<1>10. ASSUME NEW c \in JoinCodes, NEW by \in Folk, createJoinCode(c, by) PROVE MembershipTypes'
  BY <1>10 DEF createJoinCode, MembershipTypes
<1>11. ASSUME MembershipsEnd PROVE MembershipTypes'
  <2>1. members' \in [Folk -> MemberRows]
    BY <1>11, MemberParts DEF MembershipsEnd
  <2> QED BY <1>11, <2>1 DEF MembershipsEnd, MembershipTypes
<1>12. ASSUME OrganizationEnds \/ MembershipCrash PROVE MembershipTypes'
  BY <1>12 DEF OrganizationEnds, MembershipCrash, MembershipTypes
<1>13. CASE UNCHANGED membershipVars
  BY <1>13 DEF membershipVars, MembershipTypes
<1> QED BY <1>1, <1>2, <1>3, <1>4, <1>5, <1>6, <1>7, <1>8, <1>9, <1>10, <1>11, <1>12, <1>13
        DEF MembershipNext, InvitationsAdminRoute, InvitationsRoute, SetupRoute, OnboardingJoins

-----------------------------------------------------------------------------
(* Codes *)

\* One join at a time holds the organization, and what it read still holds.
OneJoin ==
  /\ \A t, u \in open : t.kind = "join" /\ u.kind = "join" => t = u
  /\ \A t \in open : t.kind = "join" => joins[t.of].used < MaxUses
  /\ \A c \in JoinCodes : joins[c].used <= MaxUses

CodesInv == MembershipTypes /\ OneJoin

LEMMA CodesMean == CodesInv => CodesWithinUses
<1> SUFFICES ASSUME CodesInv PROVE CodesWithinUses
  OBVIOUS
<1>1. \A c \in JoinCodes : joins[c].used \in 0..MaxUses
  BY MembershipAssumption DEF CodesInv, OneJoin, MembershipTypes
<1>2. \A i \in Invitations : invites[i].state \in {"none", "open", "expired", "revoked", "accepted"}
  BY DEF CodesInv, MembershipTypes, InviteRows
<1> QED BY <1>1, <1>2 DEF CodesInv, MembershipTypes, CodesWithinUses, MemberRows

LEMMA CodesInit == MembershipInit => CodesInv
<1>1. MembershipInit => OneJoin
  BY MembershipAssumption DEF MembershipInit, OneJoin
<1> QED BY <1>1, MembershipTypesInit DEF CodesInv

\* Steps that begin no join and use no code.
LEMMA CodesKept ==
  ASSUME OneJoin, \A t \in open' : t.kind = "join" => t \in open, \A c \in JoinCodes : joins'[c].used = joins[c].used,
         MembershipTypes
  PROVE  OneJoin'
BY TxnParts DEF OneJoin

LEMMA CodesStep == CodesInv /\ [MembershipNext]_membershipVars => CodesInv'
<1> SUFFICES ASSUME MembershipTypes, OneJoin, [MembershipNext]_membershipVars PROVE OneJoin'
  BY MembershipTypesStep DEF CodesInv
<1>1. ASSUME open' \subseteq open, UNCHANGED joins PROVE OneJoin'
  BY <1>1, CodesKept
<1>2. ASSUME InvitationsAdminRoute PROVE OneJoin'
  BY <1>1, <1>2 DEF InvitationsAdminRoute, createInvitation, ReplaceOpen, InsertInvitation, revokeInvitation
<1>3. ASSUME NEW i \in Invitations, NEW p \in Folk, acceptInvitation(i, p) PROVE OneJoin'
  BY <1>3, CodesKept DEF acceptInvitation
<1>4. ASSUME NEW parent \in Folk, NEW p \in Newcomers, copyOrganizationMembershipToStudent(parent, p) PROVE OneJoin'
  BY <1>4, CodesKept DEF copyOrganizationMembershipToStudent
<1>5. ASSUME NEW t \in open, AcceptWrites(t) \/ CopyWrites(t) PROVE OneJoin'
  BY <1>1, <1>5 DEF AcceptWrites, CopyWrites, Ends
<1>6. ASSUME NEW c \in JoinCodes, NEW by \in Folk, createJoinCode(c, by) PROVE OneJoin'
  <2>1. \A d \in JoinCodes : joins'[d].used = joins[d].used
    BY <1>6 DEF createJoinCode, MembershipTypes
  <2> QED BY <1>6, <2>1, CodesKept DEF createJoinCode
<1>7. ASSUME NEW c \in JoinCodes, NEW p \in Folk, joinOrganizationWithCode(c, p) PROVE OneJoin'
  <2> DEFINE t == [kind |-> "join", of |-> c, by |-> p, found |-> members[p]]
  <2>1. /\ open' = open \cup {t} /\ joins' = joins /\ joins[c].used < MaxUses
        /\ \A u \in open : u.kind # "join"
    BY <1>7 DEF joinOrganizationWithCode, OrganizationFree
  <2>2. t.kind = "join" /\ t.of = c
    OBVIOUS
  <2> HIDE DEF t
  <2> QED BY <2>1, <2>2 DEF OneJoin
<1>8. ASSUME NEW t \in open, JoinWrites(t) PROVE OneJoin'
  <2>1. t.kind = "join" /\ open' = open \ {t} /\ t.of \in JoinCodes
    BY <1>8, TxnParts DEF JoinWrites, Ends
  <2>2. \A u \in open' : u.kind # "join"
    BY <2>1 DEF OneJoin
  <2>3. \A c \in JoinCodes : joins'[c].used <= MaxUses
    <3>1. CASE joins' = joins
      BY <3>1 DEF OneJoin
    <3>2. CASE joins' = [joins EXCEPT ![t.of].used = @ + 1]
      <4>1. joins[t.of].used \in Nat /\ joins[t.of].used < MaxUses
        BY <2>1 DEF OneJoin, MembershipTypes
      <4>2. \A c \in JoinCodes : joins'[c].used = IF c = t.of THEN joins[c].used + 1 ELSE joins[c].used
        BY <3>2 DEF MembershipTypes
      <4> QED BY <4>1, <4>2, MembershipAssumption DEF OneJoin
    <3> QED BY <1>8, <3>1, <3>2 DEF JoinWrites
  <2> QED BY <2>2, <2>3 DEF OneJoin
<1>9. ASSUME \/ OrganizationEnds \/ MembershipsEnd \/ MembershipCrash \/ UNCHANGED membershipVars
             \/ \E i \in Invitations : InvitationExpires(i)
      PROVE  OneJoin'
  BY <1>1, <1>9 DEF OrganizationEnds, MembershipsEnd, MembershipCrash, membershipVars, InvitationExpires
<1> QED BY <1>2, <1>3, <1>4, <1>5, <1>6, <1>7, <1>8, <1>9
        DEF MembershipNext, InvitationsRoute, SetupRoute, OnboardingJoins

\* However many use a code at once, it is used no more often than it may be.
THEOREM CodesCorrect == MembershipSpec => []CodesWithinUses
BY CodesInit, CodesStep, CodesMean, PTL DEF MembershipSpec

-----------------------------------------------------------------------------
(* Roles *)

\* A transaction that has found a row holds it, alone: the row is as it was.
Holds(t) == t.kind # "copy" /\ t.found # NotMember

RowsHeld ==
  /\ \A t, u \in open : Holds(t) /\ Holds(u) /\ t.by = u.by => t = u
  /\ \A t \in open : Holds(t) => members[t.by] = t.found
  /\ \A p \in Folk : members[p].status = "active" => members[p] # NotMember

HeldInv == MembershipTypes /\ RowsHeld

LEMMA HeldInit == MembershipInit => HeldInv
<1>1. MembershipInit => RowsHeld
  BY DEF MembershipInit, RowsHeld, NotMember
<1> QED BY <1>1, MembershipTypesInit DEF HeldInv

\* What a step may do to the row of one person.
Raises(p) ==
  \/ members'[p] = members[p]
  \/ members'[p].status = "active" /\ (members[p].status = "active" => ROLE_RANK[members'[p].role] >= ROLE_RANK[members[p].role])
  \/ members'[p].status = "suspended"

LEMMA RowStatus ==
  ASSUME MembershipTypes, \A p \in Folk : Raises(p), \A p \in Folk : members[p].status = "active" => members[p] # NotMember
  PROVE  /\ \A p \in Folk : members'[p].status = "active" => members'[p] # NotMember
         /\ \A p \in Folk : Active(p) /\ members'[p].status = "active" => ROLE_RANK[members'[p].role] >= ROLE_RANK[members[p].role]
<1>1. NotMember.status = "none"
  BY DEF NotMember
<1>2. \A p \in Folk : ROLE_RANK[members[p].role] \in Nat
  BY RankNat
<1> QED BY <1>1, <1>2 DEF Raises, Active

LEMMA AcceptRaises ==
  ASSUME HeldInv, NEW t \in open, AcceptWrites(t)
  PROVE  \A p \in Folk : Raises(p) /\ (p # t.by => members'[p] = members[p])
<1> USE DEF HeldInv
<1>1. t.kind = "accept" /\ t.by \in Folk /\ t.of \in Invitations
  BY TxnParts DEF AcceptWrites
<1> DEFINE was == IF t.found.status = "active" THEN t.found.role ELSE "none"
           new == acceptedMembershipRole(was, invites[t.of].role)
<1>2. ROLE_RANK[new] >= ROLE_RANK[was]
  BY <1>1, TxnParts, InviteParts, AcceptedRole, Roles
<1>3. CASE ~RowIsAsFound(t)
  BY <1>3 DEF AcceptWrites, Raises
<1>4. CASE RowIsAsFound(t)
  <2>1. members' = [members EXCEPT ![t.by] = [role |-> new, status |-> "active"]]
    BY <1>4 DEF AcceptWrites
  <2>2. members'[t.by].role = new /\ members'[t.by].status = "active" /\ \A p \in Folk : p # t.by => members'[p] = members[p]
    BY <1>1, <2>1 DEF MembershipTypes
  <2>3. members[t.by] = t.found
    BY <1>1, <1>4 DEF RowIsAsFound, RowsHeld, Holds
  <2> QED BY <1>2, <2>2, <2>3 DEF Raises
<1> QED BY <1>3, <1>4

LEMMA WritesRaise ==
  ASSUME HeldInv, NEW t \in open, JoinWrites(t) \/ CopyWrites(t)
  PROVE  \A p \in Folk : Raises(p) /\ (p # t.by => members'[p] = members[p])
<1> USE DEF HeldInv
<1>1. t.by \in Folk
  BY TxnParts
<1>2. CASE members' = members
  BY <1>2 DEF Raises
<1>3. CASE members' = [members EXCEPT ![t.by] = [role |-> "member", status |-> "active"]] /\ members[t.by].status # "active"
  BY <1>1, <1>3 DEF Raises, MembershipTypes
<1>4. CASE members' = [members EXCEPT ![t.by].status = "active"]
  <2>1. members'[t.by] = [members[t.by] EXCEPT !.status = "active"] /\ \A p \in Folk : p # t.by => members'[p] = members[p]
    BY <1>1, <1>4 DEF MembershipTypes
  <2>2. members'[t.by].status = "active" /\ members'[t.by].role = members[t.by].role
    BY <1>1, <2>1, MemberParts
  <2>3. ROLE_RANK[members[t.by].role] \in Nat
    BY <1>1, RankNat
  <2>4. Raises(t.by)
    BY <2>2, <2>3 DEF Raises
  <2> QED BY <2>1, <2>4 DEF Raises
<1>5. NotMember.status = "none"
  BY DEF NotMember
<1>6. CASE JoinWrites(t) /\ members' # members
  <2>1. t.kind = "join" /\ t.found.status # "active" /\ RowIsAsFound(t)
        /\ members' = [members EXCEPT ![t.by] = [role |-> "member", status |-> "active"]]
    BY <1>6 DEF JoinWrites
  <2>2. members[t.by].status # "active"
    BY <1>5, <2>1 DEF RowIsAsFound, RowsHeld, Holds
  <2> QED BY <1>3, <2>1, <2>2
<1>7. CASE CopyWrites(t) /\ members' # members
  BY <1>3, <1>4, <1>5, <1>7 DEF CopyWrites, RowIsAsFound
<1> QED BY <1>2, <1>6, <1>7

\* A write of the row of one person is by who holds it, or where nobody does.
LEMMA HeldWrites ==
  ASSUME HeldInv, \A p \in Folk : Raises(p), open' \subseteq open,
         \A t \in open' : Holds(t) => members'[t.by] = members[t.by]
  PROVE  RowsHeld'
BY RowStatus DEF HeldInv, RowsHeld, Holds

LEMMA HeldStep ==
  HeldInv /\ [MembershipNext]_membershipVars => /\ HeldInv' /\ \A p \in Folk : Raises(p)
<1> SUFFICES ASSUME HeldInv, [MembershipNext]_membershipVars
             PROVE  RowsHeld' /\ \A p \in Folk : Raises(p)
  BY MembershipTypesStep DEF HeldInv
<1>1. MembershipTypes /\ RowsHeld
  BY DEF HeldInv
<1>2. ASSUME open' \subseteq open, UNCHANGED members PROVE RowsHeld' /\ \A p \in Folk : Raises(p)
  BY <1>1, <1>2 DEF RowsHeld, Holds, Raises
<1>3. ASSUME NEW p \in Folk, MemberFree(p), UNCHANGED members, NEW t, t.by = p, t.found = members[p], open' = open \cup {t}
      PROVE  RowsHeld' /\ \A q \in Folk : Raises(q)
  <2>1. \A u \in open : u.by = p => ~Holds(u)
    BY <1>3 DEF MemberFree, Holds
  <2> QED BY <1>1, <1>3, <2>1 DEF RowsHeld, Holds, Raises
<1>4. ASSUME NEW i \in Invitations, NEW p \in Folk, acceptInvitation(i, p) PROVE RowsHeld' /\ \A q \in Folk : Raises(q)
  <2> DEFINE t == [kind |-> "accept", of |-> i, by |-> p, found |-> members[p]]
  <2>1. MemberFree(p) /\ UNCHANGED members /\ open' = open \cup {t} /\ t.by = p /\ t.found = members[p]
    BY <1>4 DEF acceptInvitation
  <2> HIDE DEF t
  <2> QED BY <1>3, <2>1
<1>5. ASSUME NEW c \in JoinCodes, NEW p \in Folk, joinOrganizationWithCode(c, p) PROVE RowsHeld' /\ \A q \in Folk : Raises(q)
  <2> DEFINE t == [kind |-> "join", of |-> c, by |-> p, found |-> members[p]]
  <2>1. MemberFree(p) /\ UNCHANGED members /\ open' = open \cup {t} /\ t.by = p /\ t.found = members[p]
    BY <1>5 DEF joinOrganizationWithCode
  <2> HIDE DEF t
  <2> QED BY <1>3, <2>1
<1>6. ASSUME NEW parent \in Folk, NEW p \in Newcomers, copyOrganizationMembershipToStudent(parent, p)
      PROVE  RowsHeld' /\ \A q \in Folk : Raises(q)
  <2> DEFINE t == [kind |-> "copy", of |-> parent, by |-> p, found |-> members[p]]
  <2>1. UNCHANGED members /\ open' = open \cup {t} /\ t.kind = "copy"
    BY <1>6 DEF copyOrganizationMembershipToStudent
  <2> HIDE DEF t
  <2> QED BY <1>1, <2>1 DEF RowsHeld, Holds, Raises
<1>7. ASSUME NEW t \in open, AcceptWrites(t) \/ JoinWrites(t) \/ CopyWrites(t)
      PROVE  RowsHeld' /\ \A p \in Folk : Raises(p)
  <2>1. open' = open \ {t} /\ t.by \in Folk
    BY <1>1, <1>7, TxnParts DEF AcceptWrites, JoinWrites, CopyWrites, Ends
  <2>2. \A p \in Folk : Raises(p) /\ (p # t.by => members'[p] = members[p])
    BY <1>7, AcceptRaises, WritesRaise
  <2>3. ASSUME NEW u \in open', Holds(u), u.by = t.by PROVE members'[u.by] = members[u.by]
    <3>1. u \in open /\ u # t /\ members[u.by] = u.found
      BY <1>1, <2>1, <2>3 DEF RowsHeld
    <3>2. CASE CopyWrites(t)
      BY <2>3, <3>1, <3>2 DEF CopyWrites, MemberFree, Holds
    <3>3. CASE AcceptWrites(t) \/ JoinWrites(t)
      <4>1. t.kind # "copy"
        BY <3>3 DEF AcceptWrites, JoinWrites
      <4>2. t.found = NotMember
        BY <1>1, <2>3, <3>1, <4>1 DEF RowsHeld, Holds
      <4>3. ~RowIsAsFound(t)
        BY <2>3, <3>1, <4>2 DEF RowIsAsFound, Holds
      <4> QED BY <3>3, <4>3 DEF AcceptWrites, JoinWrites
    <3> QED BY <1>7, <3>2, <3>3
  <2>4. \A u \in open' : u.by \in Folk
    BY <1>1, <2>1, TxnParts
  <2> QED BY <2>1, <2>2, <2>3, <2>4, HeldWrites
<1>8. ASSUME MembershipsEnd PROVE RowsHeld' /\ \A p \in Folk : Raises(p)
  <2>1. open' = open /\ \A t \in open : ~Holds(t)
    BY <1>1, <1>8, TxnParts DEF MembershipsEnd, MemberFree, Holds
  <2>2. \A p \in Folk : Raises(p)
    BY <1>1, <1>8, MemberParts DEF MembershipsEnd, Raises
  <2> QED BY <2>1, <2>2, HeldWrites
<1>9. ASSUME InvitationsAdminRoute \/ SetupRoute \/ OrganizationEnds \/ MembershipCrash \/ \E i \in Invitations : InvitationExpires(i)
      PROVE  RowsHeld' /\ \A p \in Folk : Raises(p)
  BY <1>2, <1>9 DEF InvitationsAdminRoute, createInvitation, ReplaceOpen, InsertInvitation, revokeInvitation,
                   SetupRoute, createJoinCode, OrganizationEnds, MembershipCrash, InvitationExpires
<1>10. CASE UNCHANGED membershipVars
  BY <1>2, <1>10 DEF membershipVars
<1> QED BY <1>4, <1>5, <1>6, <1>7, <1>8, <1>9, <1>10 DEF MembershipNext, InvitationsRoute, OnboardingJoins

\* An active member keeps at least the role there was, whatever transactions
\* read the row before it changed.
THEOREM RolesCorrect == MembershipSpec => RolesNeverLowered
<1>1. HeldInv /\ [MembershipNext]_membershipVars =>
        [\A p \in Folk : Active(p) /\ members'[p].status = "active" => ROLE_RANK[members'[p].role] >= ROLE_RANK[members[p].role]]_membershipVars
  BY HeldStep, RowStatus DEF HeldInv, RowsHeld
<1> QED BY <1>1, HeldInit, HeldStep, PTL DEF MembershipSpec, RolesNeverLowered

-----------------------------------------------------------------------------
(* Invitations *)

Closable(i) == invites[i].state \in {"open", "expired"}

\* What a sending is about to insert does not exist yet; what it is about to
\* revoke, and what is being accepted, is locked by nobody else and not closed.
InvitesHeld ==
  /\ \A s \in sending : invites[s.i].state = "none" /\ \A j \in s.drop : Closable(j)
  /\ \A s, u \in sending : s.i = u.i \/ s.drop \cap u.drop # {} => s = u
  /\ \A t \in open : t.kind = "accept" =>
       /\ Closable(t.of) /\ \A s \in sending : t.of \notin s.drop
       /\ \A u \in open : u.kind = "accept" /\ u.of = t.of => u = t

InvitesInv == MembershipTypes /\ InvitesHeld

LEMMA InvitesInit == MembershipInit => InvitesInv
<1>1. MembershipInit => InvitesHeld
  BY DEF MembershipInit, InvitesHeld
<1> QED BY <1>1, MembershipTypesInit DEF InvitesInv

ClosedKept == \A i \in Invitations : invites[i].state \in {"revoked", "accepted"} => invites'[i] = invites[i]

\* Nothing is locked anew and no invitation written.
LEMMA InvitesKept ==
  ASSUME InvitesHeld, invites' = invites, sending' \subseteq sending, \A t \in open' : t.kind = "accept" => t \in open
  PROVE  InvitesHeld' /\ ClosedKept
BY DEF InvitesHeld, Closable, ClosedKept

\* One invitation that nobody else has locked is written.
LEMMA InviteWritten ==
  ASSUME InvitesInv, NEW i \in Invitations, Closable(i), NEW state \in {"expired", "revoked", "accepted"},
         invites' = [invites EXCEPT ![i].state = state], sending' = sending, open' \subseteq open,
         \/ state = "expired"
         \/ /\ \A s \in sending : i \notin s.drop
            /\ \A t \in open' : t.kind = "accept" => t.of # i
  PROVE  InvitesHeld' /\ ClosedKept
<1>1. \A j \in Invitations : j # i => invites'[j] = invites[j]
  BY DEF InvitesInv, MembershipTypes
<1>2. invites'[i].state = state
  BY InviteParts DEF InvitesInv, MembershipTypes
<1>3. ClosedKept
  BY <1>1 DEF ClosedKept, Closable
<1>4. ASSUME NEW s \in sending' PROVE invites'[s.i].state = "none" /\ \A j \in s.drop : Closable(j)'
  <2>1. s.i \in Invitations /\ s.i # i /\ s.drop \subseteq Invitations
    BY <1>4, SendParts DEF InvitesInv, InvitesHeld, Closable
  <2>2. \A j \in s.drop : j # i \/ state = "expired"
    BY <1>4
  <2> QED BY <1>1, <1>2, <1>4, <2>1, <2>2 DEF InvitesInv, InvitesHeld, Closable
<1>5. ASSUME NEW t \in open', t.kind = "accept" PROVE Closable(t.of)'
  <2>1. t.of \in Invitations /\ (t.of # i \/ state = "expired")
    BY <1>5, TxnParts DEF InvitesInv
  <2> QED BY <1>1, <1>2, <1>5, <2>1 DEF InvitesInv, InvitesHeld, Closable
<1> QED BY <1>3, <1>4, <1>5 DEF InvitesInv, InvitesHeld

LEMMA InvitesStep == InvitesInv /\ [MembershipNext]_membershipVars => InvitesInv' /\ ClosedKept
<1> SUFFICES ASSUME InvitesInv, [MembershipNext]_membershipVars PROVE InvitesHeld' /\ ClosedKept
  BY MembershipTypesStep DEF InvitesInv
<1>1. MembershipTypes /\ InvitesHeld
  BY DEF InvitesInv
<1>2. ASSUME NEW i \in Invitations, NEW by \in Folk, NEW to \in Folk, NEW role \in {"admin", "manager"},
             createInvitation(i, by, to, role)
      PROVE  InvitesHeld' /\ ClosedKept
  <2> DEFINE s == [i |-> i, by |-> by, to |-> to, role |-> role, begun |-> FALSE, drop |-> {}]
  <2>1. /\ invites[i].state = "none" /\ \A u \in sending : u.i # i
        /\ sending' = sending \cup {s} /\ UNCHANGED <<invites, open>>
    BY <1>2 DEF createInvitation
  <2>2. s.i = i /\ s.drop = {}
    OBVIOUS
  <2> HIDE DEF s
  <2> QED BY <1>1, <2>1, <2>2 DEF InvitesHeld, Closable, ClosedKept
<1>3. ASSUME NEW s \in sending, ReplaceOpen(s) PROVE InvitesHeld' /\ ClosedKept
  <2> DEFINE u == [s EXCEPT !.begun = TRUE, !.drop = Replaced(s.to)]
  <2>1. /\ sending' = (sending \ {s}) \cup {u} /\ UNCHANGED <<invites, open>>
        /\ \A j \in Replaced(s.to) : InviteFree(j)
    BY <1>3 DEF ReplaceOpen
  <2>2. u.i = s.i /\ u.drop = Replaced(s.to)
    BY <1>1, SendParts DEF Replaced
  <2>3. \A j \in u.drop : Closable(j) /\ (\A t \in open : t.kind # "accept" \/ t.of # j) /\ \A v \in sending : j \notin v.drop
    BY <2>1, <2>2 DEF Replaced, Closable, InviteFree
  <2> HIDE DEF u
  <2> QED BY <1>1, <2>1, <2>2, <2>3 DEF InvitesHeld, Closable, ClosedKept
<1>4. ASSUME NEW s \in sending, InsertInvitation(s) PROVE InvitesHeld' /\ ClosedKept
  <2>1. sending' = sending \ {s} /\ open' = open
    BY <1>4 DEF InsertInvitation
  <2>2. s.i \in Invitations /\ invites[s.i].state = "none" /\ \A j \in s.drop : Closable(j)
    BY <1>1, SendParts DEF InvitesHeld
  <2>3. \A j \in Invitations : j # s.i /\ j \notin s.drop => invites'[j] = invites[j]
    BY <1>4 DEF InsertInvitation
  <2>4. ClosedKept
    BY <2>2, <2>3 DEF ClosedKept, Closable
  <2>5. ASSUME NEW u \in sending' PROVE invites'[u.i].state = "none" /\ \A j \in u.drop : Closable(j)'
    <3>1. u \in sending /\ u.i # s.i /\ u.drop \cap s.drop = {} /\ invites[u.i].state = "none" /\ \A j \in u.drop : Closable(j)
      BY <1>1, <2>1, <2>5 DEF InvitesHeld
    <3>2. u.i \in Invitations /\ u.drop \subseteq Invitations /\ u.i \notin s.drop /\ s.i \notin u.drop
      BY <1>1, <2>2, <3>1, SendParts DEF Closable
    <3> QED BY <2>3, <3>1, <3>2 DEF Closable
  <2>6. ASSUME NEW t \in open, t.kind = "accept" PROVE Closable(t.of)'
    <3>1. t.of \in Invitations /\ t.of \notin s.drop /\ Closable(t.of) /\ t.of # s.i
      BY <1>1, <2>2, <2>6, TxnParts DEF InvitesHeld, Closable
    <3> QED BY <2>3, <3>1 DEF Closable
  <2> QED BY <1>1, <2>1, <2>4, <2>5, <2>6 DEF InvitesHeld
<1>5. ASSUME NEW i \in Invitations, NEW by \in Folk, revokeInvitation(i, by) PROVE InvitesHeld' /\ ClosedKept
  <2>1. /\ Closable(i) /\ InviteFree(i) /\ invites' = [invites EXCEPT ![i].state = "revoked"]
        /\ UNCHANGED <<sending, open>>
    BY <1>5 DEF revokeInvitation, Closable
  <2> QED BY <2>1, InviteWritten DEF InviteFree
<1>6. ASSUME NEW i \in Invitations, InvitationExpires(i) PROVE InvitesHeld' /\ ClosedKept
  BY <1>6, InviteWritten DEF InvitationExpires, Closable
<1>7. ASSUME NEW i \in Invitations, NEW p \in Folk, acceptInvitation(i, p) PROVE InvitesHeld' /\ ClosedKept
  <2> DEFINE t == [kind |-> "accept", of |-> i, by |-> p, found |-> members[p]]
  <2>1. InviteFree(i) /\ Closable(i) /\ open' = open \cup {t} /\ UNCHANGED <<invites, sending>>
    BY <1>7 DEF acceptInvitation, invitationState, Closable
  <2>2. t.kind = "accept" /\ t.of = i
    OBVIOUS
  <2> HIDE DEF t
  <2> QED BY <1>1, <2>1, <2>2 DEF InvitesHeld, Closable, InviteFree, ClosedKept
<1>8. ASSUME NEW t \in open, AcceptWrites(t) PROVE InvitesHeld' /\ ClosedKept
  <2>1. t.kind = "accept" /\ open' = open \ {t} /\ sending' = sending /\ t.of \in Invitations
    BY <1>1, <1>8, TxnParts DEF AcceptWrites, Ends
  <2>2. CASE RowIsAsFound(t)
    <3>1. invites' = [invites EXCEPT ![t.of].state = "accepted"]
      BY <1>8, <2>2 DEF AcceptWrites
    <3>2. Closable(t.of) /\ (\A s \in sending : t.of \notin s.drop) /\ \A u \in open' : u.kind = "accept" => u.of # t.of
      BY <1>1, <2>1 DEF InvitesHeld
    <3> QED BY <2>1, <3>1, <3>2, InviteWritten
  <2>3. CASE ~RowIsAsFound(t)
    BY <1>1, <1>8, <2>1, <2>3, InvitesKept DEF AcceptWrites
  <2> QED BY <2>2, <2>3
<1>9. ASSUME OnboardingJoins PROVE InvitesHeld' /\ ClosedKept
  <2>1. ASSUME NEW c \in JoinCodes, NEW p \in Folk, joinOrganizationWithCode(c, p) PROVE InvitesHeld' /\ ClosedKept
    <3> DEFINE t == [kind |-> "join", of |-> c, by |-> p, found |-> members[p]]
    <3>1. invites' = invites /\ sending' = sending /\ open' = open \cup {t}
      BY <2>1 DEF joinOrganizationWithCode
    <3>2. t.kind # "accept"
      OBVIOUS
    <3> HIDE DEF t
    <3> QED BY <1>1, <3>1, <3>2, InvitesKept
  <2>2. ASSUME NEW q \in Folk, NEW p \in Newcomers, copyOrganizationMembershipToStudent(q, p)
        PROVE  InvitesHeld' /\ ClosedKept
    <3> DEFINE t == [kind |-> "copy", of |-> q, by |-> p, found |-> members[p]]
    <3>1. invites' = invites /\ sending' = sending /\ open' = open \cup {t}
      BY <2>2 DEF copyOrganizationMembershipToStudent
    <3>2. t.kind # "accept"
      OBVIOUS
    <3> HIDE DEF t
    <3> QED BY <1>1, <3>1, <3>2, InvitesKept
  <2>3. ASSUME NEW t \in open, JoinWrites(t) \/ CopyWrites(t) PROVE InvitesHeld' /\ ClosedKept
    <3>1. invites' = invites /\ sending' = sending /\ open' = open \ {t}
      BY <2>3 DEF JoinWrites, CopyWrites, Ends
    <3> QED BY <1>1, <3>1, InvitesKept
  <2> QED BY <1>9, <2>1, <2>2, <2>3 DEF OnboardingJoins
<1>10. ASSUME SetupRoute \/ OrganizationEnds \/ MembershipsEnd \/ MembershipCrash \/ UNCHANGED membershipVars
       PROVE  InvitesHeld' /\ ClosedKept
  BY <1>1, <1>10, InvitesKept DEF SetupRoute, createJoinCode, OrganizationEnds, MembershipsEnd, MembershipCrash, membershipVars
<1> QED BY <1>2, <1>3, <1>4, <1>5, <1>6, <1>7, <1>8, <1>9, <1>10 DEF MembershipNext, InvitationsAdminRoute, InvitationsRoute

\* What was revoked, replaced or used is not opened, used or written again.
THEOREM ClosedCorrect == MembershipSpec => ClosedInvitationsStay
<1>1. InvitesInv /\ [MembershipNext]_membershipVars =>
        [\A i \in Invitations : invites[i].state \in {"revoked", "accepted"} => invites'[i] = invites[i]]_membershipVars
  BY InvitesStep DEF ClosedKept
<1> QED BY <1>1, InvitesInit, InvitesStep, PTL DEF MembershipSpec, ClosedInvitationsStay

\* Codes are used as often as they allow, and joining takes no role from
\* anybody (lib/onboarding.ts, lib/organization-invitations.ts).
THEOREM MembershipCorrect == MembershipSpec => MembershipsHold
<1>1. MembershipsHold <=> []CodesWithinUses /\ RolesNeverLowered
  BY DEF MembershipsHold
<1> QED BY <1>1, CodesCorrect, RolesCorrect, PTL

-----------------------------------------------------------------------------
(* Hostnames: rows and what each handler carries. *)

HostStatuses == {"none", "requested", "active"}
SslStatuses == {"none", "pending", "active"}
HostRows == [org : Tenants \cup {NoTenant}, status : HostStatuses, primary : BOOLEAN,
             cert : BOOLEAN, ssl : SslStatuses, moved : BOOLEAN]
DeliveryRows == [name : Names, verified : BOOLEAN, applied : Nat,
                 status : {"none", "received", "processed", "ignored", "failed"}, told : BOOLEAN]
Owned(h) == hostnames[h].org \in Tenants

\* What a handler carries names a row that is there, and what it would make
\* active has led to the platform at some time.
Carries(r) ==
  /\ r.at = "insert" => /\ r.name \in Names /\ r.org \in Tenants /\ r.cert \in BOOLEAN
                        /\ r.ssl \in SslStatuses /\ r.status \in HostStatuses
                        /\ r.status = "active" => pointed[r.name] # {}
  /\ r.at = "network" => /\ r.name \in Names /\ Owned(r.name) /\ r.read \in HostRows /\ r.read.org \in Tenants
                         /\ r.read.status = "active" => pointed[r.name] # {}
  /\ r.at = "write" => /\ r.name \in Names /\ Owned(r.name)
                       /\ r.ssl \in SslStatuses /\ r.status \in HostStatuses
                       /\ r.status = "active" => pointed[r.name] # {}
  /\ r.at = "clear" => r.name \in Names /\ Owned(r.name) /\ r.org \in Tenants
  /\ r.at = "crown" => r.name \in Names /\ Owned(r.name) /\ \A h \in r.rows : h \in Names /\ Owned(h)
  /\ r.at = "claim" => \A e \in r.event \cap WebhookEvents : r.known => Owned(deliveries[e].name)
  /\ r.at = "apply" => \A e \in r.event \cap WebhookEvents : Owned(deliveries[e].name)

PointedInv ==
  /\ hostnames \in [Names -> HostRows] /\ DOMAIN handling = Handlers /\ deliveries \in [WebhookEvents -> DeliveryRows]
  /\ \A h \in Names : Owned(h) \/ hostnames[h] = NoRow
  /\ pointed \in [Names -> SUBSET Tenants] /\ pointing \in [Names -> Tenants \cup {NoTenant}]
  /\ edge \in [Names -> SslStatuses]
  /\ \A h \in Names : pointing[h] # NoTenant \/ edge[h] = "active" \/ hostnames[h].status = "active"
                        => pointed[h] # {}
  /\ \A w \in Handlers : Carries(handling[w])

LEMMA NoRowTyped == NoRow \in HostRows /\ NoRow.org = NoTenant /\ NoRow.status = "none"
BY DEF NoRow, HostRows, HostStatuses, SslStatuses

\* What was true of a record stays true while rows and records of the past stay.
StillThere ==
  /\ \A h \in Names : Owned(h) => Owned(h)'
  /\ \A h \in Names : pointed[h] # {} => pointed'[h] # {}
  /\ \A e \in WebhookEvents : deliveries'[e].name = deliveries[e].name

LEMMA CarriesStill ==
  ASSUME PointedInv, StillThere, NEW w \in Handlers, handling'[w] = handling[w]
  PROVE  Carries(handling[w])'
<1>1. Carries(handling[w])
  BY DEF PointedInv
<1> QED BY <1>1 DEF PointedInv, StillThere, Carries, DeliveryRows

LEMMA OneGoes ==
  ASSUME PointedInv, StillThere, NEW w \in Handlers, NEW r, Go(w, r), handling'[w] = r => Carries(handling[w])'
  PROVE  DOMAIN handling' = Handlers /\ \A v \in Handlers : Carries(handling[v])'
<1>1. handling' = [handling EXCEPT ![w] = r] /\ DOMAIN handling = Handlers
  BY DEF Go, PointedInv
<1>2. handling'[w] = r /\ \A v \in Handlers \ {w} : handling'[v] = handling[v]
  BY <1>1
<1> QED BY <1>1, <1>2, CarriesStill

\* Handlers that write no row.
LEMMA NoRowWritten ==
  ASSUME PointedInv, NEW w \in Handlers, NEW r, Go(w, r),
         UNCHANGED <<hostnames, pointing, pointed, edge>>, deliveries' \in [WebhookEvents -> DeliveryRows],
         \A e \in WebhookEvents : deliveries'[e].name = deliveries[e].name,
         Carries(r)
  PROVE  PointedInv'
<1>1. StillThere
  BY DEF StillThere, Owned
<1>2. handling'[w] = r
  BY DEF Go, PointedInv
<1>3. handling'[w] = r => Carries(handling[w])'
  BY DEF Carries, Owned
<1>4. DOMAIN handling' = Handlers /\ \A v \in Handlers : Carries(handling[v])'
  BY <1>1, <1>3, OneGoes
<1> QED BY <1>4 DEF PointedInv, Owned

LEMMA PointedInit == DomainsInit => PointedInv
<1> SUFFICES ASSUME DomainsInit PROVE PointedInv
  OBVIOUS
<1>1. \A w \in Handlers : handling[w].at = "idle"
  BY DEF DomainsInit, Waiting
<1>2. \A w \in Handlers : Carries(handling[w])
  BY <1>1 DEF Carries
<1>3. deliveries \in [WebhookEvents -> DeliveryRows]
  <2>1. deliveries \in [WebhookEvents -> [name : Names, verified : BOOLEAN, applied : {0}, status : {"none"}, told : {FALSE}]]
    BY DEF DomainsInit
  <2>2. {0} \subseteq Nat /\ {FALSE} \subseteq BOOLEAN
    OBVIOUS
  <2>3. [name : Names, verified : BOOLEAN, applied : {0}, status : {"none"}, told : {FALSE}] \subseteq DeliveryRows
    BY <2>2, Zenon DEF DeliveryRows
  <2> QED BY <2>1, <2>3
<1> QED BY <1>2, <1>3, NoRowTyped DEF DomainsInit, PointedInv, SslStatuses

LEMMA OutsidePoints ==
  ASSUME PointedInv, NEW h \in Names, PointName(h) \/ EdgeActivates(h)
  PROVE  PointedInv'
<1>1. UNCHANGED <<hostnames, handling, deliveries>>
  BY DEF PointName, EdgeActivates
<1>2. CASE PointName(h)
  <2>1. PICK o \in (Tenants \cup {NoTenant}) \ {pointing[h]} :
          /\ pointing' = [pointing EXCEPT ![h] = o]
          /\ pointed' = [pointed EXCEPT ![h] = @ \cup ({o} \ {NoTenant})]
    BY <1>2 DEF PointName
  <2>2. edge' = edge
    BY <1>2 DEF PointName
  <2>3. StillThere
    BY <1>1, <2>1 DEF StillThere, PointedInv, Owned
  <2>4. \A w \in Handlers : Carries(handling[w])'
    BY <1>1, <2>3, CarriesStill
  <2> QED BY <1>1, <2>1, <2>2, <2>4, TenantAssumption DEF PointedInv, Owned
<1>3. CASE EdgeActivates(h)
  <2>1. StillThere
    BY <1>1, <1>3 DEF StillThere, EdgeActivates, Owned
  <2>2. \A w \in Handlers : Carries(handling[w])'
    BY <1>1, <2>1, CarriesStill
  <2> QED BY <1>1, <1>3, <2>2 DEF EdgeActivates, PointedInv, Owned, SslStatuses
<1> QED BY <1>2, <1>3

LEMMA DomainRequested ==
  ASSUME PointedInv, NEW w \in Handlers, NEW o \in Tenants, NEW h \in Names, RequestDomain(w, o, h)
  PROVE  PointedInv'
<1>1. UNCHANGED <<hostnames, pointing, pointed, deliveries>>
  BY DEF RequestDomain
<1>2. StillThere
  BY <1>1 DEF StillThere, Owned
<1>3. CASE configured
  <2>1. PICK answer \in IF pointing[h] = NoTenant THEN {"pending"} ELSE {"pending", "active"} :
          /\ edge' = [edge EXCEPT ![h] = answer]
          /\ Go(w, [at |-> "insert", org |-> o, name |-> h, cert |-> TRUE, ssl |-> answer,
                    status |-> IF answer = "active" THEN "active" ELSE "requested"])
    BY <1>3 DEF RequestDomain
  <2> DEFINE r == [at |-> "insert", org |-> o, name |-> h, cert |-> TRUE, ssl |-> answer,
                    status |-> IF answer = "active" THEN "active" ELSE "requested"]
  <2>2. answer \in {"pending", "active"} /\ (answer = "active" => pointed[h] # {})
    BY <2>1 DEF PointedInv
  <2>3. Carries(r)
    BY <2>2 DEF Carries, SslStatuses, HostStatuses
  <2>4. Go(w, r)
    BY <2>1
  <2> HIDE DEF r
  <2>5. handling'[w] = r => Carries(handling[w])'
    BY <1>1, <2>3 DEF Carries, Owned
  <2>6. DOMAIN handling' = Handlers /\ \A v \in Handlers : Carries(handling[v])'
    BY <1>2, <2>4, <2>5, OneGoes
  <2> QED BY <1>1, <2>1, <2>2, <2>6 DEF PointedInv, Owned, SslStatuses
<1>4. CASE ~configured
  <2> DEFINE r == [at |-> "insert", org |-> o, name |-> h, cert |-> FALSE, ssl |-> "pending", status |-> "requested"]
  <2>1. Go(w, r) /\ UNCHANGED edge
    BY <1>4 DEF RequestDomain
  <2>2. Carries(r)
    BY DEF Carries, SslStatuses, HostStatuses
  <2> HIDE DEF r
  <2> QED BY <1>1, <2>1, <2>2, NoRowWritten DEF PointedInv
<1> QED BY <1>3, <1>4

\* A row is written: it stays owned, and is active only where it may be.
LEMMA RowWritten ==
  ASSUME PointedInv, NEW w \in Handlers, NEW r, Go(w, r), NEW h \in Names, NEW row \in HostRows, row.org \in Tenants,
         row.status = "active" => pointed[h] # {},
         hostnames' = [hostnames EXCEPT ![h] = row], UNCHANGED <<pointing, pointed, edge, deliveries>>,
         r = Waiting \/ r.at = "mark"
  PROVE  PointedInv'
<1>1. StillThere
  BY DEF StillThere, Owned, PointedInv
<1>2. handling'[w] = r => Carries(handling[w])'
  BY DEF Carries, Waiting
<1>3. DOMAIN handling' = Handlers /\ \A v \in Handlers : Carries(handling[v])'
  BY <1>1, <1>2, OneGoes
<1>4. hostnames' \in [Names -> HostRows] /\ \A g \in Names : hostnames'[g] = IF g = h THEN row ELSE hostnames[g]
  BY DEF PointedInv
<1> QED BY <1>3, <1>4 DEF PointedInv, Owned

LEMMA DomainUpserted ==
  ASSUME PointedInv, NEW w \in Handlers, UpsertDomain(w)
  PROVE  PointedInv'
<1>1. PICK wish : wish = handling[w]
  OBVIOUS
<1>2. PICK h : h = wish.name
  OBVIOUS
<1>3. /\ h \in Names /\ wish.org \in Tenants /\ wish.cert \in BOOLEAN
      /\ wish.ssl \in SslStatuses /\ wish.status \in HostStatuses
      /\ wish.status = "active" => pointed[h] # {}
  BY <1>1, <1>2 DEF UpsertDomain, PointedInv, Carries
<1>4. PICK row : row = Upserted(h, wish)
  OBVIOUS
<1>5. /\ hostnames' = [hostnames EXCEPT ![h] = row] /\ Go(w, Waiting)
      /\ UNCHANGED <<pointing, pointed, edge, deliveries>>
  BY <1>1, <1>2, <1>4 DEF UpsertDomain
<1>6. hostnames[h] \in HostRows /\ (hostnames[h].status = "active" => pointed[h] # {})
  BY <1>3 DEF PointedInv
<1>7. row \in HostRows /\ row.org \in Tenants /\ (row.status = "active" => pointed[h] # {})
  <2>1. CASE HasRow(h)
    <3>1. row = [hostnames[h] EXCEPT !.org = wish.org, !.cert = @ \/ wish.cert, !.ssl = wish.ssl,
                                     !.moved = @ \/ wish.org # hostnames[h].org]
      BY <1>4, <2>1 DEF Upserted
    <3> QED BY <1>3, <1>6, <3>1 DEF HostRows
  <2>2. CASE ~HasRow(h)
    <3>1. row = [NoRow EXCEPT !.org = wish.org, !.cert = wish.cert, !.ssl = wish.ssl, !.status = wish.status]
      BY <1>4, <2>2 DEF Upserted
    <3> QED BY <1>3, <3>1, NoRowTyped DEF HostRows
  <2> QED BY <2>1, <2>2
<1> QED BY <1>3, <1>5, <1>7, RowWritten

LEMMA VerificationWritten ==
  ASSUME PointedInv, NEW w \in Handlers, WriteVerification(w)
  PROVE  PointedInv'
<1>1. PICK found : found = handling[w]
  OBVIOUS
<1>2. PICK h : h = found.name
  OBVIOUS
<1>3. /\ h \in Names /\ Owned(h) /\ found.ssl \in SslStatuses /\ found.status \in HostStatuses
      /\ found.status = "active" => pointed[h] # {}
  BY <1>1, <1>2 DEF WriteVerification, PointedInv, Carries
<1>4. PICK row : row = [hostnames[h] EXCEPT !.status = found.status, !.ssl = found.ssl]
  OBVIOUS
<1>5. /\ hostnames' = [hostnames EXCEPT ![h] = row] /\ UNCHANGED <<pointing, pointed, edge, deliveries>>
  BY <1>1, <1>2, <1>4 DEF WriteVerification, PointedInv
<1>6. \E r : Go(w, r) /\ (r = Waiting \/ r.at = "mark")
  <2>1. CASE handling[w].event = {}
    BY <2>1 DEF WriteVerification
  <2>2. CASE handling[w].event # {}
    <3> DEFINE r == [at |-> "mark", event |-> handling[w].event]
    <3>1. Go(w, r) /\ r.at = "mark"
      BY <2>2 DEF WriteVerification
    <3> QED BY <3>1
  <2> QED BY <2>1, <2>2
<1>7. hostnames[h] \in HostRows /\ hostnames[h].org \in Tenants
  BY <1>3 DEF PointedInv, Owned
<1>8. row \in HostRows /\ row.org \in Tenants /\ row.status = found.status
  BY <1>3, <1>4, <1>7 DEF HostRows
<1> QED BY <1>3, <1>5, <1>6, <1>8, RowWritten

LEMMA VerificationAnswered ==
  ASSUME PointedInv, NEW w \in Handlers, AskNetwork(w)
  PROVE  PointedInv'
<1>1. PICK wish : wish = handling[w]
  OBVIOUS
<1>2. PICK h : h = wish.name
  OBVIOUS
<1>3. /\ h \in Names /\ Owned(h) /\ wish.read \in HostRows /\ wish.read.org \in Tenants
      /\ wish.read.status = "active" => pointed[h] # {}
  BY <1>1, <1>2 DEF AskNetwork, PointedInv, Carries
<1>4. PICK ssl, status : ssl = Ssl(w) /\ status = IF Verified(w) THEN "active" ELSE EdgeStatus(w)
  OBVIOUS
<1>5. wish.read.ssl \in SslStatuses /\ wish.read.status \in HostStatuses
  BY <1>3 DEF HostRows
<1>6. ssl \in SslStatuses
  BY <1>1, <1>4, <1>5 DEF Ssl, SslStatuses
<1>7. status \in HostStatuses
  BY <1>1, <1>4, <1>5 DEF EdgeStatus, HostStatuses
<1>8. status = "active" => pointed[h] # {}
  <2>1. Verified(w) => pointing[h] \in Tenants
    BY <1>1, <1>2, <1>3 DEF Verified, CnameOk
  <2>2. EdgeStatus(w) = "active" => edge[h] = "active" \/ wish.read.status = "active"
    BY <1>1, <1>2 DEF EdgeStatus
  <2>3. (pointing[h] # NoTenant \/ edge[h] = "active") => pointed[h] # {}
    BY <1>3 DEF PointedInv
  <2> QED BY <1>3, <1>4, <2>1, <2>2, <2>3, TenantAssumption
<1> DEFINE r == [at |-> "write", name |-> h, event |-> wish.event, ssl |-> ssl, status |-> status]
<1>9. Go(w, r) /\ UNCHANGED <<hostnames, pointing, pointed, edge, deliveries>>
  BY <1>1, <1>2, <1>4 DEF AskNetwork
<1>10. Carries(r)
  BY <1>3, <1>6, <1>7, <1>8 DEF Carries
<1> HIDE DEF r
<1> QED BY <1>9, <1>10, NoRowWritten DEF PointedInv

LEMMA PrimaryCommitted ==
  ASSUME PointedInv, NEW w \in Handlers, CommitPrimary(w)
  PROVE  PointedInv'
<1>1. PICK name, rows : name = handling[w].name /\ rows = handling[w].rows
  OBVIOUS
<1>2. name \in Names /\ Owned(name)
  BY <1>1 DEF CommitPrimary, PointedInv, Carries
<1>3. /\ hostnames' = [h \in Names |->
            IF h = name THEN [hostnames[h] EXCEPT !.primary = TRUE]
            ELSE IF h \in rows THEN [hostnames[h] EXCEPT !.primary = FALSE] ELSE hostnames[h]]
      /\ Go(w, Waiting) /\ UNCHANGED <<pointing, pointed, edge, deliveries>>
  BY <1>1 DEF CommitPrimary
<1>4. \A h \in Names : hostnames[h] \in HostRows
  BY DEF PointedInv
<1>5. ASSUME NEW h \in Names
      PROVE  /\ hostnames'[h] \in HostRows /\ hostnames'[h].org = hostnames[h].org
             /\ hostnames'[h].status = hostnames[h].status
             /\ ~Owned(h) => hostnames'[h] = hostnames[h]
  <2>1. CASE h = name
    <3>1. hostnames'[h] = [hostnames[h] EXCEPT !.primary = TRUE]
      BY <1>3, <2>1
    <3> QED BY <1>2, <1>4, <2>1, <3>1 DEF HostRows
  <2>2. CASE h # name /\ h \in rows
    <3>1. hostnames'[h] = [hostnames[h] EXCEPT !.primary = FALSE]
      BY <1>3, <2>2
    <3>2. Owned(h)
      BY <1>1, <2>2 DEF CommitPrimary, PointedInv, Carries
    <3> QED BY <1>4, <3>1, <3>2 DEF HostRows
  <2>3. CASE h # name /\ h \notin rows
    BY <1>3, <1>4, <2>3
  <2> QED BY <2>1, <2>2, <2>3
<1>6. StillThere
  BY <1>3, <1>5 DEF StillThere, Owned
<1>7. handling'[w] = Waiting => Carries(handling[w])'
  BY DEF Carries, Waiting
<1>8. DOMAIN handling' = Handlers /\ \A v \in Handlers : Carries(handling[v])'
  BY <1>3, <1>6, <1>7, OneGoes
<1>9. hostnames' \in [Names -> HostRows]
  BY <1>3, <1>5
<1>10. \A h \in Names : (Owned(h) \/ hostnames[h] = NoRow)'
  BY <1>5 DEF PointedInv, Owned
<1> QED BY <1>3, <1>5, <1>8, <1>9, <1>10 DEF PointedInv

LEMMA DeliveryChanges ==
  ASSUME deliveries \in [WebhookEvents -> DeliveryRows], NEW e \in WebhookEvents,
         \/ deliveries' = deliveries
         \/ deliveries' = [deliveries EXCEPT ![e].told = TRUE]
         \/ \E status \in {"received", "processed", "failed", "ignored"} :
              \/ deliveries' = [deliveries EXCEPT ![e].status = status]
              \/ deliveries' = [deliveries EXCEPT ![e].status = status, ![e].told = TRUE]
         \/ deliveries' = [deliveries EXCEPT ![e].applied = @ + 1]
  PROVE  /\ deliveries' \in [WebhookEvents -> DeliveryRows]
         /\ \A x \in WebhookEvents : deliveries'[x].name = deliveries[x].name
<1>1. deliveries[e] \in DeliveryRows
  OBVIOUS
<1>2. ASSUME NEW r \in DeliveryRows, r.name = deliveries[e].name, deliveries' = [deliveries EXCEPT ![e] = r]
      PROVE  /\ deliveries' \in [WebhookEvents -> DeliveryRows]
             /\ \A x \in WebhookEvents : deliveries'[x].name = deliveries[x].name
  BY <1>2
<1>3. CASE deliveries' = deliveries
  BY <1>3
<1>4. CASE deliveries' = [deliveries EXCEPT ![e].told = TRUE]
  <2> DEFINE r == [deliveries[e] EXCEPT !.told = TRUE]
  <2>1. r \in DeliveryRows /\ r.name = deliveries[e].name
    BY <1>1 DEF DeliveryRows
  <2>2. deliveries' = [deliveries EXCEPT ![e] = r]
    BY <1>4
  <2> HIDE DEF r
  <2> QED BY <1>2, <2>1, <2>2
<1>5. ASSUME NEW status \in {"received", "processed", "failed", "ignored"},
             deliveries' = [deliveries EXCEPT ![e].status = status]
      PROVE  /\ deliveries' \in [WebhookEvents -> DeliveryRows]
             /\ \A x \in WebhookEvents : deliveries'[x].name = deliveries[x].name
  <2> DEFINE r == [deliveries[e] EXCEPT !.status = status]
  <2>1. r \in DeliveryRows /\ r.name = deliveries[e].name
    BY <1>1 DEF DeliveryRows
  <2>2. deliveries' = [deliveries EXCEPT ![e] = r]
    BY <1>5
  <2> HIDE DEF r
  <2> QED BY <1>2, <2>1, <2>2
<1>6. ASSUME NEW status \in {"received", "processed", "failed", "ignored"},
             deliveries' = [deliveries EXCEPT ![e].status = status, ![e].told = TRUE]
      PROVE  /\ deliveries' \in [WebhookEvents -> DeliveryRows]
             /\ \A x \in WebhookEvents : deliveries'[x].name = deliveries[x].name
  <2> DEFINE r == [deliveries[e] EXCEPT !.status = status, !.told = TRUE]
  <2>1. r \in DeliveryRows /\ r.name = deliveries[e].name
    BY <1>1 DEF DeliveryRows
  <2>2. deliveries' = [deliveries EXCEPT ![e] = r]
    BY <1>6
  <2> HIDE DEF r
  <2> QED BY <1>2, <2>1, <2>2
<1>7. CASE deliveries' = [deliveries EXCEPT ![e].applied = @ + 1]
  <2> DEFINE r == [deliveries[e] EXCEPT !.applied = @ + 1]
  <2>1. r \in DeliveryRows /\ r.name = deliveries[e].name
    BY <1>1 DEF DeliveryRows
  <2>2. deliveries' = [deliveries EXCEPT ![e] = r]
    BY <1>7
  <2> HIDE DEF r
  <2> QED BY <1>2, <2>1, <2>2
<1> QED BY <1>3, <1>4, <1>5, <1>6, <1>7

\* The steps that read, choose, mark or give up.
LEMMA OthersCarry ==
  ASSUME PointedInv, NEW w \in Handlers,
         \/ \E o \in Tenants, h \in Names : SelectPrimary(w, o, h)
         \/ \E h \in Names : BeginVerification(w, h)
         \/ ClearPrimaries(w) \/ VerificationRefused(w) \/ HandlerDies(w) \/ WebhookSteps(w)
  PROVE  PointedInv'
<1>a. UNCHANGED <<hostnames, pointing, pointed, edge>>
  BY DEF SelectPrimary, BeginVerification, ClearPrimaries, VerificationRefused, HandlerDies,
         WebhookSteps, ReceiveEvent, ClaimEvent, ApplyEvent, MarkEvent, FailEvent
<1>b. \A h \in Names : hostnames[h] \in HostRows /\ (HasRow(h) => Owned(h))
  BY DEF PointedInv, HasRow
<1>c. Carries(Waiting) /\ \A event : Carries([at |-> "mark", event |-> event])
  BY DEF Carries, Waiting
<1>d. ASSUME UNCHANGED deliveries, NEW r, Go(w, r), Carries(r) PROVE PointedInv'
  BY <1>a, <1>d, NoRowWritten DEF PointedInv
<1>1. ASSUME NEW o \in Tenants, NEW h \in Names, SelectPrimary(w, o, h) PROVE PointedInv'
  <2> DEFINE r == [at |-> "clear", org |-> o, name |-> h]
  <2>1. Go(w, r) /\ UNCHANGED deliveries /\ Owned(h)
    BY <1>1 DEF SelectPrimary, Owned
  <2>2. Carries(r)
    BY <2>1 DEF Carries
  <2> HIDE DEF r
  <2> QED BY <1>d, <2>1, <2>2
<1>2. ASSUME NEW h \in Names, BeginVerification(w, h) PROVE PointedInv'
  <2>1. PICK read : read = hostnames[h]
    OBVIOUS
  <2> DEFINE r == [at |-> "network", name |-> h, read |-> read, event |-> {}]
  <2>2. Go(w, r) /\ UNCHANGED deliveries /\ Owned(h)
    BY <1>2, <1>b, <2>1 DEF BeginVerification
  <2>3. Carries(r)
    BY <1>b, <2>1, <2>2 DEF Carries, Owned, PointedInv
  <2> HIDE DEF r
  <2> QED BY <1>d, <2>2, <2>3
<1>3. CASE ClearPrimaries(w)
  <2>1. PICK name, rows : name = handling[w].name /\ rows = RowsOf(handling[w].org)
    OBVIOUS
  <2> DEFINE r == [at |-> "crown", name |-> name, rows |-> rows]
  <2>2. Go(w, r) /\ UNCHANGED deliveries
    BY <1>3, <2>1 DEF ClearPrimaries
  <2>3. name \in Names /\ Owned(name) /\ \A h \in rows : h \in Names /\ Owned(h)
    BY <1>3, <2>1 DEF ClearPrimaries, PointedInv, Carries, RowsOf, Owned
  <2>4. Carries(r)
    BY <2>3 DEF Carries
  <2> HIDE DEF r
  <2> QED BY <1>d, <2>2, <2>4
<1>4. CASE VerificationRefused(w) \/ HandlerDies(w)
  <2>1. UNCHANGED deliveries
    BY <1>4 DEF VerificationRefused, HandlerDies
  <2>2. Go(w, Waiting) \/ \E event : Go(w, [at |-> "mark", event |-> event])
    BY <1>4 DEF VerificationRefused, HandlerDies
  <2> QED BY <1>c, <1>d, <2>1, <2>2
<1>5. ASSUME NEW e \in WebhookEvents, ReceiveEvent(w, e) PROVE PointedInv'
  <2>1. deliveries' \in [WebhookEvents -> DeliveryRows] /\ \A x \in WebhookEvents : deliveries'[x].name = deliveries[x].name
    BY <1>5, DeliveryChanges DEF ReceiveEvent, PointedInv
  <2>2. CASE deliveries[e].status = "none"
    <3>1. PICK known : known = HasRow(deliveries[e].name)
      OBVIOUS
    <3> DEFINE r == [at |-> "claim", event |-> {e}, known |-> known]
    <3>2. Go(w, r) /\ UNCHANGED deliveries
      BY <1>5, <2>2, <3>1 DEF ReceiveEvent
    <3>3. Carries(r)
      BY <1>b, <3>1 DEF Carries, PointedInv, DeliveryRows
    <3> HIDE DEF r
    <3> QED BY <1>d, <3>2, <3>3
  <2>3. CASE deliveries[e].status # "none"
    <3>1. UNCHANGED handling
      BY <1>5, <2>3 DEF ReceiveEvent
    <3>2. StillThere
      BY <1>a, <2>1 DEF StillThere, Owned
    <3>3. \A v \in Handlers : Carries(handling[v])'
      BY <3>1, <3>2, CarriesStill
    <3> QED BY <1>a, <2>1, <3>1, <3>3 DEF PointedInv, Owned
  <2> QED BY <2>2, <2>3
<1>6. ASSUME NEW e \in WebhookEvents, ClaimEvent(w, e) \/ MarkEvent(w, e) \/ FailEvent(w, e) PROVE PointedInv'
  <2>1. deliveries' \in [WebhookEvents -> DeliveryRows] /\ \A x \in WebhookEvents : deliveries'[x].name = deliveries[x].name
    <3>1. \/ deliveries' = [deliveries EXCEPT ![e].told = TRUE]
          \/ \E status \in {"received", "processed", "failed", "ignored"} :
               \/ deliveries' = [deliveries EXCEPT ![e].status = status]
               \/ deliveries' = [deliveries EXCEPT ![e].status = status, ![e].told = TRUE]
      BY <1>6 DEF ClaimEvent, MarkEvent, FailEvent
    <3>2. deliveries \in [WebhookEvents -> DeliveryRows]
      BY DEF PointedInv
    <3> QED BY <3>1, <3>2, DeliveryChanges
  <2>2. Go(w, Waiting) \/ (ClaimEvent(w, e) /\ handling[w].known /\ Go(w, [at |-> "apply", event |-> {e}]))
    BY <1>6 DEF ClaimEvent, MarkEvent, FailEvent
  <2>3. CASE Go(w, Waiting)
    BY <1>a, <1>c, <2>1, <2>3, NoRowWritten
  <2>4. CASE ClaimEvent(w, e) /\ handling[w].known /\ Go(w, [at |-> "apply", event |-> {e}])
    <3> DEFINE r == [at |-> "apply", event |-> {e}]
    <3>1. Owned(deliveries[e].name)
      BY <2>4 DEF ClaimEvent, PointedInv, Carries
    <3>2. Carries(r)
      BY <3>1 DEF Carries
    <3>3. Go(w, r)
      BY <2>4
    <3> HIDE DEF r
    <3> QED BY <1>a, <2>1, <3>2, <3>3, NoRowWritten
  <2> QED BY <2>2, <2>3, <2>4
<1>7. ASSUME NEW e \in WebhookEvents, ApplyEvent(w, e) PROVE PointedInv'
  <2>1. deliveries' \in [WebhookEvents -> DeliveryRows] /\ \A x \in WebhookEvents : deliveries'[x].name = deliveries[x].name
    BY <1>7, DeliveryChanges DEF ApplyEvent, PointedInv
  <2>2. PICK h, read : h = deliveries[e].name /\ read = hostnames[h]
    OBVIOUS
  <2>3. h \in Names /\ Owned(h)
    BY <1>7, <2>2 DEF ApplyEvent, PointedInv, Carries, DeliveryRows
  <2> DEFINE r == [at |-> "network", name |-> h, read |-> read, event |-> {e}]
  <2>4. Go(w, r) \/ Go(w, [at |-> "mark", event |-> {e}])
    BY <1>7, <2>2 DEF ApplyEvent
  <2>5. Carries(r)
    BY <1>b, <2>2, <2>3 DEF Carries, Owned, PointedInv
  <2> HIDE DEF r
  <2> QED BY <1>a, <1>c, <2>1, <2>4, <2>5, NoRowWritten
<1> QED BY <1>1, <1>2, <1>3, <1>4, <1>5, <1>6, <1>7 DEF WebhookSteps

LEMMA PointedStep == PointedInv /\ [DomainsNext]_domainVars => PointedInv'
<1> SUFFICES ASSUME PointedInv, [DomainsNext]_domainVars PROVE PointedInv'
  OBVIOUS
<1>1. CASE UNCHANGED domainVars
  <2>1. StillThere
    BY <1>1 DEF StillThere, domainVars, Owned
  <2>2. \A w \in Handlers : Carries(handling[w])'
    BY <1>1, <2>1, CarriesStill DEF domainVars
  <2> QED BY <1>1, <2>2 DEF domainVars, PointedInv, Owned
<1> QED BY <1>1, OutsidePoints, DomainRequested, DomainUpserted, VerificationWritten, VerificationAnswered,
           PrimaryCommitted, OthersCarry DEF DomainsNext, AdministratorSteps, VerificationSteps

-----------------------------------------------------------------------------
(* An event is applied by the handler that claimed it, and by no other. *)

Applies(w, e) == handling[w].at = "apply" /\ e \in handling[w].event
AppliedInv ==
  \A e \in WebhookEvents :
    /\ deliveries[e].applied <= 1 /\ (deliveries[e].status = "none" => deliveries[e].applied = 0)
    /\ \A w \in Handlers : Applies(w, e) =>
         /\ deliveries[e].applied = 0 /\ deliveries[e].status # "none"
         /\ \A v \in Handlers : Applies(v, e) => v = w

LEMMA NobodyApplies ==
  ASSUME PointedInv, AppliedInv, NEW w \in Handlers, NEW r, Go(w, r), r.at # "apply",
         \A e \in WebhookEvents : /\ deliveries'[e].applied = deliveries[e].applied
                                  /\ deliveries'[e].status = "none" => deliveries[e].status = "none"
  PROVE  AppliedInv'
<1>1. handling'[w] = r /\ \A v \in Handlers \ {w} : handling'[v] = handling[v]
  BY DEF Go, PointedInv
<1>2. \A v \in Handlers, e \in WebhookEvents : Applies(v, e)' => Applies(v, e)
  BY <1>1 DEF Applies
<1> QED BY <1>2 DEF AppliedInv

LEMMA AppliedKept ==
  ASSUME AppliedInv, UNCHANGED handling,
         \A e \in WebhookEvents : /\ deliveries'[e].applied = deliveries[e].applied
                                  /\ deliveries'[e].status = "none" => deliveries[e].status = "none"
  PROVE  AppliedInv'
<1>1. \A v \in Handlers, e \in WebhookEvents : Applies(v, e)' <=> Applies(v, e)
  BY DEF Applies
<1> QED BY <1>1 DEF AppliedInv

LEMMA RequestGoes ==
  ASSUME NEW w \in Handlers, NEW o \in Tenants, NEW h \in Names, RequestDomain(w, o, h)
  PROVE  UNCHANGED hostnames /\ \E r : Go(w, r) /\ r.at = "insert"
<1>1. ASSUME NEW cert, NEW ssl, NEW status,
             Go(w, [at |-> "insert", org |-> o, name |-> h, cert |-> cert, ssl |-> ssl, status |-> status])
      PROVE  \E r : Go(w, r) /\ r.at = "insert"
  <2> DEFINE r == [at |-> "insert", org |-> o, name |-> h, cert |-> cert, ssl |-> ssl, status |-> status]
  <2>1. Go(w, r) /\ r.at = "insert"
    BY <1>1
  <2> QED BY <2>1
<1>2. CASE configured
  <2>1. PICK answer \in IF pointing[h] = NoTenant THEN {"pending"} ELSE {"pending", "active"} :
          Go(w, [at |-> "insert", org |-> o, name |-> h, cert |-> TRUE, ssl |-> answer,
                 status |-> IF answer = "active" THEN "active" ELSE "requested"])
    BY <1>2 DEF RequestDomain
  <2> QED BY <1>1, <2>1 DEF RequestDomain
<1>3. CASE ~configured
  <2>1. Go(w, [at |-> "insert", org |-> o, name |-> h, cert |-> FALSE, ssl |-> "pending", status |-> "requested"])
    BY <1>3 DEF RequestDomain
  <2> QED BY <1>1, <2>1 DEF RequestDomain
<1> QED BY <1>2, <1>3

LEMMA OthersGo ==
  ASSUME NEW w \in Handlers,
         \/ \E h \in Names : BeginVerification(w, h)
         \/ AskNetwork(w) \/ VerificationRefused(w) \/ HandlerDies(w)
  PROVE  UNCHANGED hostnames /\ \E r : Go(w, r) /\ r.at \in {"network", "write", "idle", "mark"}
<1>1. ASSUME NEW h \in Names, BeginVerification(w, h)
      PROVE  UNCHANGED hostnames /\ \E r : Go(w, r) /\ r.at \in {"network", "write", "idle", "mark"}
  <2> DEFINE r == [at |-> "network", name |-> h, read |-> hostnames[h], event |-> {}]
  <2>1. Go(w, r) /\ r.at = "network" /\ UNCHANGED hostnames
    BY <1>1 DEF BeginVerification
  <2> QED BY <2>1
<1>2. CASE AskNetwork(w)
  <2> DEFINE r == [at |-> "write", name |-> handling[w].name, event |-> handling[w].event, ssl |-> Ssl(w),
                   status |-> IF Verified(w) THEN "active" ELSE EdgeStatus(w)]
  <2>1. Go(w, r) /\ r.at = "write" /\ UNCHANGED hostnames
    BY <1>2 DEF AskNetwork
  <2> QED BY <2>1
<1>3. CASE VerificationRefused(w) \/ HandlerDies(w)
  BY <1>3 DEF VerificationRefused, HandlerDies, Waiting
<1> QED BY <1>1, <1>2, <1>3

\* A row whose status or answer is written keeps its count, and is not forgotten.
LEMMA TouchedOnly ==
  ASSUME deliveries \in [WebhookEvents -> DeliveryRows], NEW e \in WebhookEvents,
         \/ deliveries' = deliveries
         \/ deliveries' = [deliveries EXCEPT ![e].told = TRUE]
         \/ \E status \in {"received", "processed", "failed", "ignored"} :
              \/ deliveries' = [deliveries EXCEPT ![e].status = status]
              \/ deliveries' = [deliveries EXCEPT ![e].status = status, ![e].told = TRUE]
  PROVE  \A x \in WebhookEvents : /\ deliveries'[x].applied = deliveries[x].applied
                                  /\ deliveries'[x].status = "none" => deliveries[x].status = "none"
<1>1. deliveries[e] \in DeliveryRows
  OBVIOUS
<1>2. ASSUME NEW r, r.applied = deliveries[e].applied, r.status = "none" => deliveries[e].status = "none",
             deliveries' = [deliveries EXCEPT ![e] = r]
      PROVE  \A x \in WebhookEvents : /\ deliveries'[x].applied = deliveries[x].applied
                                      /\ deliveries'[x].status = "none" => deliveries[x].status = "none"
  <2>1. \A x \in WebhookEvents : deliveries'[x] = IF x = e THEN r ELSE deliveries[x]
    BY <1>2
  <2> QED BY <1>2, <2>1
<1>3. CASE deliveries' = [deliveries EXCEPT ![e].told = TRUE]
  <2> DEFINE r == [deliveries[e] EXCEPT !.told = TRUE]
  <2>1. r.applied = deliveries[e].applied /\ r.status = deliveries[e].status
    BY <1>1 DEF DeliveryRows
  <2>2. deliveries' = [deliveries EXCEPT ![e] = r]
    BY <1>3
  <2> HIDE DEF r
  <2> QED BY <1>2, <2>1, <2>2
<1>4. ASSUME NEW status \in {"received", "processed", "failed", "ignored"},
             deliveries' = [deliveries EXCEPT ![e].status = status]
      PROVE  \A x \in WebhookEvents : /\ deliveries'[x].applied = deliveries[x].applied
                                      /\ deliveries'[x].status = "none" => deliveries[x].status = "none"
  <2> DEFINE r == [deliveries[e] EXCEPT !.status = status]
  <2>1. r.applied = deliveries[e].applied /\ r.status # "none"
    BY <1>1 DEF DeliveryRows
  <2>2. deliveries' = [deliveries EXCEPT ![e] = r]
    BY <1>4
  <2> HIDE DEF r
  <2> QED BY <1>2, <2>1, <2>2
<1>5. ASSUME NEW status \in {"received", "processed", "failed", "ignored"},
             deliveries' = [deliveries EXCEPT ![e].status = status, ![e].told = TRUE]
      PROVE  \A x \in WebhookEvents : /\ deliveries'[x].applied = deliveries[x].applied
                                      /\ deliveries'[x].status = "none" => deliveries[x].status = "none"
  <2> DEFINE r == [deliveries[e] EXCEPT !.status = status, !.told = TRUE]
  <2>1. r.applied = deliveries[e].applied /\ r.status # "none"
    BY <1>1 DEF DeliveryRows
  <2>2. deliveries' = [deliveries EXCEPT ![e] = r]
    BY <1>5
  <2> HIDE DEF r
  <2> QED BY <1>2, <2>1, <2>2
<1> QED BY <1>3, <1>4, <1>5

LEMMA AppliedStep == PointedInv /\ AppliedInv /\ [DomainsNext]_domainVars => AppliedInv'
<1> SUFFICES ASSUME PointedInv, AppliedInv, [DomainsNext]_domainVars PROVE AppliedInv'
  OBVIOUS
<1>a. \A e \in WebhookEvents : deliveries[e] \in DeliveryRows
  BY DEF PointedInv
<1>1. CASE (\E h \in Names : PointName(h) \/ EdgeActivates(h)) \/ UNCHANGED domainVars
  BY <1>1, AppliedKept DEF PointName, EdgeActivates, domainVars
<1>2. ASSUME NEW w \in Handlers, AdministratorSteps(w) \/ VerificationSteps(w) \/ HandlerDies(w) PROVE AppliedInv'
  <2>1. UNCHANGED deliveries
    BY <1>2 DEF AdministratorSteps, VerificationSteps, HandlerDies, RequestDomain, SelectPrimary, BeginVerification,
                UpsertDomain, ClearPrimaries, CommitPrimary, AskNetwork, WriteVerification, VerificationRefused
  <2>2. \E r : Go(w, r) /\ r.at # "apply"
    <3>1. CASE \E o \in Tenants, h \in Names : RequestDomain(w, o, h)
      BY <3>1, RequestGoes
    <3>2. CASE UpsertDomain(w) \/ CommitPrimary(w)
      BY <3>2 DEF UpsertDomain, CommitPrimary, Waiting
    <3>3. CASE WriteVerification(w)
      <4>1. CASE handling[w].event = {}
        BY <3>3, <4>1 DEF WriteVerification, Waiting
      <4>2. CASE handling[w].event # {}
        <5> DEFINE r == [at |-> "mark", event |-> handling[w].event]
        <5>1. Go(w, r) /\ r.at # "apply"
          BY <3>3, <4>2 DEF WriteVerification
        <5> QED BY <5>1
      <4> QED BY <4>1, <4>2
    <3>4. ASSUME NEW o \in Tenants, NEW h \in Names, SelectPrimary(w, o, h) PROVE \E r : Go(w, r) /\ r.at # "apply"
      <4> DEFINE r == [at |-> "clear", org |-> o, name |-> h]
      <4>1. Go(w, r) /\ r.at # "apply"
        BY <3>4 DEF SelectPrimary
      <4> QED BY <4>1
    <3>6. CASE ClearPrimaries(w)
      <4> DEFINE r == [at |-> "crown", name |-> handling[w].name, rows |-> RowsOf(handling[w].org)]
      <4>1. Go(w, r) /\ r.at # "apply"
        BY <3>6 DEF ClearPrimaries
      <4> QED BY <4>1
    <3>5. CASE \/ \E h \in Names : BeginVerification(w, h)
               \/ AskNetwork(w) \/ VerificationRefused(w) \/ HandlerDies(w)
      BY <3>5, OthersGo
    <3> QED BY <1>2, <3>1, <3>2, <3>3, <3>4, <3>5, <3>6 DEF AdministratorSteps, VerificationSteps
  <2> QED BY <2>1, <2>2, NobodyApplies
<1>3. ASSUME NEW w \in Handlers, NEW e \in WebhookEvents, ReceiveEvent(w, e) \/ MarkEvent(w, e) \/ FailEvent(w, e)
      PROVE  AppliedInv'
  <2>1. \A x \in WebhookEvents : /\ deliveries'[x].applied = deliveries[x].applied
                                 /\ deliveries'[x].status = "none" => deliveries[x].status = "none"
    <3>1. \/ deliveries' = deliveries
          \/ deliveries' = [deliveries EXCEPT ![e].told = TRUE]
          \/ \E status \in {"received", "processed", "failed", "ignored"} :
               \/ deliveries' = [deliveries EXCEPT ![e].status = status]
               \/ deliveries' = [deliveries EXCEPT ![e].status = status, ![e].told = TRUE]
      BY <1>3 DEF ReceiveEvent, MarkEvent, FailEvent
    <3> QED BY <3>1, TouchedOnly DEF PointedInv
  <2>2. UNCHANGED handling \/ \E r : Go(w, r) /\ r.at # "apply"
    BY <1>3 DEF ReceiveEvent, MarkEvent, FailEvent, Waiting
  <2> QED BY <2>1, <2>2, AppliedKept, NobodyApplies
<1>4. ASSUME NEW w \in Handlers, NEW e \in WebhookEvents, ClaimEvent(w, e) PROVE AppliedInv'
  <2>1. CASE Unseen(e) /\ handling[w].known
    <3>1. /\ deliveries' = [deliveries EXCEPT ![e].status = "received"]
          /\ handling' = [handling EXCEPT ![w] = [at |-> "apply", event |-> {e}]]
          /\ deliveries[e].status = "none"
      BY <1>4, <2>1 DEF ClaimEvent, Unseen, Go
    <3>2. /\ deliveries'[e].status = "received" /\ \A x \in WebhookEvents \ {e} : deliveries'[x] = deliveries[x]
          /\ deliveries'[e].applied = deliveries[e].applied
      BY <1>a, <3>1 DEF PointedInv, DeliveryRows
    <3>3. \A v \in Handlers : ~Applies(v, e)
      BY <3>1 DEF AppliedInv
    <3>4. \A v \in Handlers, x \in WebhookEvents :
            Applies(v, x)' <=> (IF v = w THEN x = e ELSE Applies(v, x))
      BY <3>1 DEF Applies, PointedInv
    <3>5. ~ \E x \in WebhookEvents : Applies(w, x)
      BY <1>4 DEF ClaimEvent, Applies
    <3> QED BY <3>1, <3>2, <3>3, <3>4, <3>5 DEF AppliedInv
  <2>2. CASE ~(Unseen(e) /\ handling[w].known)
    <3>1. \A x \in WebhookEvents : /\ deliveries'[x].applied = deliveries[x].applied
                                   /\ deliveries'[x].status = "none" => deliveries[x].status = "none"
      <4>1. \/ deliveries' = [deliveries EXCEPT ![e].told = TRUE]
            \/ deliveries' = [deliveries EXCEPT ![e].status = "ignored", ![e].told = TRUE]
        BY <1>4, <2>2 DEF ClaimEvent
      <4> QED BY <4>1, TouchedOnly DEF PointedInv
    <3>2. Go(w, Waiting)
      BY <1>4, <2>2 DEF ClaimEvent
    <3> QED BY <3>1, <3>2, NobodyApplies DEF Waiting
  <2> QED BY <2>1, <2>2
<1>5. ASSUME NEW w \in Handlers, NEW e \in WebhookEvents, ApplyEvent(w, e) PROVE AppliedInv'
  <2>1. Applies(w, e) /\ deliveries' = [deliveries EXCEPT ![e].applied = @ + 1]
    BY <1>5 DEF ApplyEvent, Applies
  <2>2. deliveries[e].applied = 0 /\ deliveries[e].status # "none" /\ \A v \in Handlers \ {w} : ~Applies(v, e)
    BY <2>1 DEF AppliedInv
  <2>3. /\ deliveries'[e].applied = 1 /\ deliveries'[e].status = deliveries[e].status
        /\ \A x \in WebhookEvents \ {e} : deliveries'[x] = deliveries[x]
    BY <1>a, <2>1, <2>2 DEF PointedInv, DeliveryRows
  <2>4. PICK r : Go(w, r) /\ r.at # "apply"
    BY <1>5 DEF ApplyEvent
  <2>5. \A v \in Handlers, x \in WebhookEvents : Applies(v, x)' => v # w /\ Applies(v, x)
    BY <2>4 DEF Applies, Go, PointedInv
  <2> QED BY <2>2, <2>3, <2>5 DEF AppliedInv
<1> QED BY <1>1, <1>2, <1>3, <1>4, <1>5 DEF DomainsNext, WebhookSteps

-----------------------------------------------------------------------------
(* Primaries.  A transaction that may crown a hostname holds every row of   *)
(* its organization that counts, so two of them are of two organizations.   *)

Counts(h) == hostnames[h].primary /\ ~hostnames[h].moved
Of(h) == hostnames[h].org
Moved(h) == hostnames[h].moved
Crowning(w) == handling[w].at = "crown" /\ ~Moved(handling[w].name)

CrownInv ==
  /\ \A h, g \in Names : Counts(h) /\ Counts(g) /\ Of(h) = Of(g) /\ Of(h) \in Tenants => h = g
  /\ \A w \in Handlers : handling[w].at = "clear" => Moved(handling[w].name) \/ Of(handling[w].name) = handling[w].org
  /\ \A w \in Handlers : Crowning(w) =>
       /\ handling[w].name \in handling[w].rows
       /\ \A h \in Names : Counts(h) /\ Of(h) = Of(handling[w].name) => h \in handling[w].rows
       /\ \A v \in Handlers : Crowning(v) /\ Of(handling[v].name) = Of(handling[w].name) => v = w

\* A row that counts was there before, and a name keeps its organization or is moved.
Steady(h) ==
  /\ Moved(h) => Moved(h)'
  /\ Owned(h) /\ ~Moved(h)' => Of(h)' = Of(h)
  /\ Counts(h)' => Counts(h) /\ Of(h)' = Of(h)

LEMMA CrownsKept ==
  ASSUME PointedInv, CrownInv, \A h \in Names : Steady(h), NEW w \in Handlers,
         \A v \in Handlers \ {w} : handling'[v] = handling[v],
         handling'[w] = handling[w] \/ handling'[w].at \notin {"clear", "crown"}
  PROVE  CrownInv'
<1>a. \A v \in Handlers : handling[v].at \in {"clear", "crown"} => handling[v].name \in Names /\ Owned(handling[v].name)
  BY DEF PointedInv, Carries
<1>b. \A v \in Handlers : handling'[v].at \in {"clear", "crown"} => handling'[v] = handling[v]
  OBVIOUS
<1>1. \A h, g \in Names : (Counts(h) /\ Counts(g) /\ Of(h) = Of(g) /\ Of(h) \in Tenants)' => h = g
  BY DEF CrownInv, Steady
<1>2. ASSUME NEW v \in Handlers, handling'[v].at = "clear"
      PROVE  (Moved(handling[v].name) \/ Of(handling[v].name) = handling[v].org)'
  <2>1. PICK r : r = handling[v]
    OBVIOUS
  <2>2. handling'[v] = r /\ r.at = "clear" /\ r.name \in Names /\ Owned(r.name)
    BY <1>a, <1>b, <1>2, <2>1
  <2>3. Moved(r.name) \/ Of(r.name) = r.org
    BY <2>1, <2>2 DEF CrownInv
  <2>4. Moved(r.name)' \/ Of(r.name)' = r.org
    BY <2>2, <2>3 DEF Steady
  <2> QED BY <2>2, <2>4 DEF Moved, Of
<1>3. ASSUME NEW v \in Handlers, Crowning(v)'
      PROVE  /\ Crowning(v) /\ handling'[v] = handling[v] /\ handling[v].name \in Names
             /\ hostnames'[handling[v].name].org = Of(handling[v].name)
  <2>1. PICK r : r = handling[v]
    OBVIOUS
  <2>2. handling'[v] = r /\ r.at = "crown" /\ r.name \in Names /\ Owned(r.name) /\ ~Moved(r.name)'
    BY <1>a, <1>b, <1>3, <2>1 DEF Crowning, Moved
  <2>3. ~Moved(r.name) /\ Of(r.name)' = Of(r.name)
    BY <2>2 DEF Steady
  <2> QED BY <2>1, <2>2, <2>3 DEF Crowning, Of
<1>4. ASSUME NEW v \in Handlers, Crowning(v)'
      PROVE  /\ (handling[v].name \in handling[v].rows)'
             /\ \A h \in Names : (Counts(h) /\ Of(h) = Of(handling[v].name) => h \in handling[v].rows)'
             /\ \A u \in Handlers : (Crowning(u) /\ Of(handling[u].name) = Of(handling[v].name))' => u = v
  <2>1. /\ Crowning(v) /\ handling'[v] = handling[v] /\ handling[v].name \in Names
        /\ hostnames'[handling[v].name].org = Of(handling[v].name)
    BY <1>3, <1>4
  <2>2. \A h \in Names : (Counts(h) /\ Of(h) = Of(handling[v].name) => h \in handling[v].rows)'
    BY <2>1 DEF CrownInv, Steady, Of
  <2>3. ASSUME NEW u \in Handlers, (Crowning(u) /\ Of(handling[u].name) = Of(handling[v].name))' PROVE u = v
    <3>1. /\ Crowning(u) /\ handling'[u] = handling[u]
          /\ hostnames'[handling[u].name].org = Of(handling[u].name)
      BY <1>3, <2>3
    <3> QED BY <2>1, <2>3, <3>1 DEF CrownInv, Of
  <2> QED BY <2>1, <2>2, <2>3 DEF CrownInv
<1> QED BY <1>1, <1>2, <1>4 DEF CrownInv

LEMMA RowsSteady ==
  ASSUME UNCHANGED hostnames
  PROVE  \A h \in Names : Steady(h)
BY DEF Steady, Moved, Of, Counts

LEMMA WritesSteady ==
  ASSUME PointedInv, NEW w \in Handlers, UpsertDomain(w) \/ WriteVerification(w)
  PROVE  \A h \in Names : Steady(h)
<1>1. CASE UpsertDomain(w)
  <2>1. PICK wish : wish = handling[w]
    OBVIOUS
  <2>2. PICK h : h = wish.name
    OBVIOUS
  <2>3. h \in Names /\ hostnames[h] \in HostRows
    BY <1>1, <2>1, <2>2 DEF UpsertDomain, PointedInv, Carries
  <2>4. hostnames' = [hostnames EXCEPT ![h] = Upserted(h, wish)]
    BY <1>1, <2>1, <2>2 DEF UpsertDomain
  <2>5. \A g \in Names \ {h} : hostnames'[g] = hostnames[g]
    BY <2>4 DEF PointedInv
  <2>6. hostnames'[h] = Upserted(h, wish)
    BY <2>3, <2>4 DEF PointedInv
  <2>7. Steady(h)
    <3>1. CASE HasRow(h)
      <4>1. hostnames'[h] = [hostnames[h] EXCEPT !.org = wish.org, !.cert = @ \/ wish.cert, !.ssl = wish.ssl,
                                                 !.moved = @ \/ wish.org # hostnames[h].org]
        BY <2>6, <3>1 DEF Upserted
      <4>2. /\ hostnames'[h].org = wish.org /\ hostnames'[h].primary = hostnames[h].primary
            /\ hostnames'[h].moved = (hostnames[h].moved \/ wish.org # hostnames[h].org)
        BY <2>3, <4>1 DEF HostRows
      <4> QED BY <4>2 DEF Steady, Moved, Of, Counts
    <3>2. CASE ~HasRow(h)
      <4>1. hostnames[h] = NoRow
        BY <3>2 DEF HasRow
      <4>2. hostnames'[h] = [NoRow EXCEPT !.org = wish.org, !.cert = wish.cert, !.ssl = wish.ssl, !.status = wish.status]
        BY <2>6, <3>2 DEF Upserted
      <4>3. ~hostnames'[h].primary /\ ~NoRow.moved /\ NoRow.org = NoTenant
        BY <4>2 DEF NoRow
      <4> QED BY <4>1, <4>3, TenantAssumption DEF Steady, Moved, Of, Counts, Owned
    <3> QED BY <3>1, <3>2
  <2> QED BY <2>5, <2>7 DEF Steady, Moved, Of, Counts
<1>2. CASE WriteVerification(w)
  <2>1. PICK found : found = handling[w]
    OBVIOUS
  <2>2. PICK h : h = found.name
    OBVIOUS
  <2>3. h \in Names /\ hostnames[h] \in HostRows
    BY <1>2, <2>1, <2>2 DEF WriteVerification, PointedInv, Carries
  <2>4. hostnames' = [hostnames EXCEPT ![h] = [hostnames[h] EXCEPT !.status = found.status, !.ssl = found.ssl]]
    BY <1>2, <2>1, <2>2, <2>3 DEF WriteVerification, PointedInv
  <2>5. \A g \in Names \ {h} : hostnames'[g] = hostnames[g]
    BY <2>4 DEF PointedInv
  <2>6. hostnames'[h] = [hostnames[h] EXCEPT !.status = found.status, !.ssl = found.ssl]
    BY <2>3, <2>4 DEF PointedInv
  <2>7. /\ hostnames'[h].org = hostnames[h].org /\ hostnames'[h].primary = hostnames[h].primary
        /\ hostnames'[h].moved = hostnames[h].moved
    BY <2>3, <2>6 DEF HostRows
  <2> QED BY <2>5, <2>7 DEF Steady, Moved, Of, Counts
<1> QED BY <1>1, <1>2

\* The three statements of setPrimaryDomain.
LEMMA PrimarySelected ==
  ASSUME PointedInv, CrownInv, NEW w \in Handlers, NEW o \in Tenants, NEW h \in Names, SelectPrimary(w, o, h)
  PROVE  CrownInv'
<1> DEFINE r == [at |-> "clear", org |-> o, name |-> h]
<1>1. handling' = [handling EXCEPT ![w] = r] /\ UNCHANGED hostnames /\ hostnames[h].org = o
  BY DEF SelectPrimary, Go
<1>2. handling'[w] = r /\ \A v \in Handlers \ {w} : handling'[v] = handling[v]
  BY <1>1 DEF PointedInv
<1>3. r.at = "clear" /\ r.org = o /\ r.name = h
  OBVIOUS
<1> HIDE DEF r
<1>4. \A v \in Handlers : (Crowning(v)' <=> v # w /\ Crowning(v))
  BY <1>1, <1>2, <1>3 DEF Crowning, Moved
<1> QED BY <1>1, <1>2, <1>3, <1>4 DEF CrownInv, Counts, Of, Moved

LEMMA PrimariesCleared ==
  ASSUME PointedInv, CrownInv, NEW w \in Handlers, ClearPrimaries(w)
  PROVE  CrownInv'
<1>1. PICK o, name, rows : o = handling[w].org /\ name = handling[w].name /\ rows = RowsOf(handling[w].org)
  OBVIOUS
<1> DEFINE r == [at |-> "crown", name |-> name, rows |-> rows]
<1>2. handling' = [handling EXCEPT ![w] = r] /\ UNCHANGED hostnames /\ \A h \in rows : RowFreeOf(h, w)
  BY <1>1 DEF ClearPrimaries, Go
<1>3. handling'[w] = r /\ \A v \in Handlers \ {w} : handling'[v] = handling[v]
  BY <1>2 DEF PointedInv
<1>4. r.at = "crown" /\ r.rows = rows /\ r.name = name
  OBVIOUS
<1> HIDE DEF r
<1>5. Moved(name) \/ Of(name) = o
  BY <1>1 DEF ClearPrimaries, CrownInv
<1>6. rows = {h \in Names : Of(h) = o} /\ name \in Names
  BY <1>1 DEF RowsOf, Of, ClearPrimaries, PointedInv, Carries
<1>7. \A v \in Handlers : Crowning(v)' <=> (IF v = w THEN ~Moved(name) ELSE Crowning(v))
  BY <1>2, <1>3, <1>4 DEF Crowning, Moved
<1>8. ASSUME NEW v \in Handlers \ {w}, Crowning(v), ~Moved(name) PROVE Of(handling[v].name) # Of(name)
  <2>1. handling[v].name \in handling[v].rows /\ handling[v].at = "crown" /\ handling[v].name \in Names
    BY <1>8 DEF CrownInv, Crowning, PointedInv, Carries
  <2> QED BY <1>2, <1>5, <1>6, <1>8, <2>1 DEF RowFreeOf
<1>9. \A v \in Handlers : handling'[v].at = "clear" => v # w /\ handling'[v] = handling[v]
  BY <1>3, <1>4
<1>10. \A h : Of(h)' = Of(h) /\ (Counts(h)' <=> Counts(h)) /\ (Moved(h)' <=> Moved(h))
  BY <1>2 DEF Of, Counts, Moved
<1>11. \A h, g \in Names : (Counts(h) /\ Counts(g) /\ Of(h) = Of(g) /\ Of(h) \in Tenants)' => h = g
  BY <1>10 DEF CrownInv
<1>12. \A v \in Handlers : (handling[v].at = "clear" => Moved(handling[v].name) \/ Of(handling[v].name) = handling[v].org)'
  BY <1>2, <1>9 DEF CrownInv, Moved, Of
<1>13. ASSUME NEW v \in Handlers, Crowning(v)'
       PROVE  /\ (handling[v].name \in handling[v].rows)'
              /\ \A h \in Names : (Counts(h) /\ Of(h) = Of(handling[v].name) => h \in handling[v].rows)'
              /\ \A u \in Handlers : (Crowning(u) /\ Of(handling[u].name) = Of(handling[v].name))' => u = v
  <2>a. \A u \in Handlers : (Of(handling[u].name))' = IF u = w THEN Of(name) ELSE Of(handling[u].name)
    BY <1>2, <1>3, <1>4 DEF Of
  <2>1. CASE v = w
    <3>1. ~Moved(name) /\ Of(name) = o
      BY <1>5, <1>7, <1>13, <2>1
    <3>2. name \in rows
      BY <1>6, <3>1
    <3>3. \A h \in Names : Counts(h) /\ Of(h) = Of(name) => h \in rows
      BY <1>6, <3>1
    <3>4. \A h \in Names : (Counts(h) /\ Of(h) = Of(handling[v].name) => h \in handling[v].rows)'
      BY <1>3, <1>4, <1>10, <2>1, <2>a, <3>3
    <3>5. \A u \in Handlers : (Crowning(u) /\ Of(handling[u].name) = Of(handling[v].name))' => u = v
      BY <1>7, <1>8, <2>1, <2>a, <3>1
    <3> QED BY <1>3, <1>4, <2>1, <3>2, <3>4, <3>5
  <2>2. CASE v # w
    <3>1. Crowning(v) /\ handling'[v] = handling[v]
      BY <1>3, <1>7, <1>13, <2>2
    <3>2. \A h \in Names : (Counts(h) /\ Of(h) = Of(handling[v].name) => h \in handling[v].rows)'
      BY <1>10, <2>a, <2>2, <3>1 DEF CrownInv
    <3>3. \A u \in Handlers : (Crowning(u) /\ Of(handling[u].name) = Of(handling[v].name))' => u = v
      BY <1>7, <1>8, <2>a, <2>2, <3>1 DEF CrownInv
    <3> QED BY <3>1, <3>2, <3>3 DEF CrownInv
  <2> QED BY <2>1, <2>2
<1> QED BY <1>11, <1>12, <1>13 DEF CrownInv

LEMMA PrimaryCrowned ==
  ASSUME PointedInv, CrownInv, NEW w \in Handlers, CommitPrimary(w)
  PROVE  CrownInv'
<1>1. PICK name, rows : name = handling[w].name /\ rows = handling[w].rows
  OBVIOUS
<1>2. name \in Names /\ handling[w].at = "crown" /\ (Crowning(w) <=> ~Moved(name))
  BY <1>1 DEF CommitPrimary, PointedInv, Carries, Crowning
<1>3. /\ hostnames' = [h \in Names |->
            IF h = name THEN [hostnames[h] EXCEPT !.primary = TRUE]
            ELSE IF h \in rows THEN [hostnames[h] EXCEPT !.primary = FALSE] ELSE hostnames[h]]
      /\ handling' = [handling EXCEPT ![w] = Waiting]
  BY <1>1 DEF CommitPrimary, Go
<1>4. ASSUME NEW h \in Names
      PROVE  /\ Of(h)' = Of(h) /\ (Moved(h)' <=> Moved(h))
             /\ h # name /\ Counts(h)' => Counts(h) /\ h \notin rows
  <2>1. hostnames[h] \in HostRows
    BY DEF PointedInv
  <2>2. CASE h = name
    <3>1. hostnames'[h] = [hostnames[h] EXCEPT !.primary = TRUE]
      BY <1>3, <2>2
    <3> QED BY <2>1, <2>2, <3>1 DEF HostRows, Of, Moved, Counts
  <2>3. CASE h # name /\ h \in rows
    <3>1. hostnames'[h] = [hostnames[h] EXCEPT !.primary = FALSE]
      BY <1>3, <2>3
    <3> QED BY <2>1, <3>1 DEF HostRows, Of, Moved, Counts
  <2>4. CASE h # name /\ h \notin rows
    <3>1. hostnames'[h] = hostnames[h]
      BY <1>3, <2>4
    <3> QED BY <2>4, <3>1 DEF Of, Moved, Counts
  <2> QED BY <2>2, <2>3, <2>4
<1>5. /\ handling'[w] = Waiting /\ Waiting.at = "idle" /\ \A v \in Handlers \ {w} : handling'[v] = handling[v]
  BY <1>3 DEF PointedInv, Waiting
<1>6. Counts(name)' => ~Moved(name)
  BY <1>2, <1>4 DEF Counts, Moved
<1>7. ASSUME NEW h \in Names, NEW g \in Names, (Counts(h) /\ Counts(g) /\ Of(h) = Of(g) /\ Of(h) \in Tenants)' PROVE h = g
  <2>1. CASE h # name /\ g # name
    BY <1>4, <1>7, <2>1 DEF CrownInv
  <2>2. ASSUME NEW x \in Names, x # name, Counts(x)', Of(x) = Of(name), Counts(name)' PROVE FALSE
    <3>1. Crowning(w)
      BY <1>2, <1>6, <2>2
    <3>2. Counts(x) /\ x \notin rows
      BY <1>4, <2>2
    <3> QED BY <1>1, <2>2, <3>1, <3>2 DEF CrownInv
  <2>3. Of(h) = Of(g)
    BY <1>4, <1>7
  <2> QED BY <1>2, <1>7, <2>1, <2>2, <2>3
<1>8. ASSUME NEW v \in Handlers, handling'[v].at \in {"clear", "crown"}
      PROVE  /\ v # w /\ handling'[v] = handling[v] /\ handling[v].name \in Names
             /\ (Of(handling[v].name))' = Of(handling[v].name)
             /\ (Moved(handling[v].name))' <=> Moved(handling[v].name)
  <2>1. PICK r : r = handling[v]
    OBVIOUS
  <2>2. v # w /\ handling'[v] = r /\ r.name \in Names
    BY <1>5, <1>8, <2>1 DEF PointedInv, Carries
  <2>3. Of(r.name)' = Of(r.name) /\ (Moved(r.name)' <=> Moved(r.name))
    BY <1>4, <2>2
  <2> QED BY <2>1, <2>2, <2>3 DEF Of, Moved
<1>9. \A v \in Handlers : Crowning(v)' => v # w /\ Crowning(v)
  BY <1>8 DEF Crowning
<1>10. \A v \in Handlers : (handling[v].at = "clear" => Moved(handling[v].name) \/ Of(handling[v].name) = handling[v].org)'
  BY <1>8 DEF CrownInv
<1>11. ASSUME NEW v \in Handlers, Crowning(v)'
       PROVE  /\ (handling[v].name \in handling[v].rows)'
              /\ \A h \in Names : (Counts(h) /\ Of(h) = Of(handling[v].name) => h \in handling[v].rows)'
              /\ \A u \in Handlers : (Crowning(u) /\ Of(handling[u].name) = Of(handling[v].name))' => u = v
  <2>1. /\ v # w /\ Crowning(v) /\ handling'[v] = handling[v]
        /\ (Of(handling[v].name))' = Of(handling[v].name)
    BY <1>8, <1>9, <1>11 DEF Crowning
  <2>2. ASSUME NEW h \in Names, (Counts(h) /\ Of(h) = Of(handling[v].name))' PROVE h \in handling[v].rows
    <3>1. Of(h) = Of(handling[v].name)
      BY <1>4, <2>1, <2>2
    <3>2. CASE h # name
      BY <1>4, <2>1, <2>2, <3>1, <3>2 DEF CrownInv
    <3>3. CASE h = name
      <4>1. Crowning(w)
        BY <1>2, <1>6, <2>2, <3>3
      <4> QED BY <1>1, <2>1, <3>1, <3>3, <4>1 DEF CrownInv
    <3> QED BY <3>2, <3>3
  <2>3. \A u \in Handlers : (Crowning(u) /\ Of(handling[u].name) = Of(handling[v].name))' => u = v
    <3>1. ASSUME NEW u \in Handlers, (Crowning(u) /\ Of(handling[u].name) = Of(handling[v].name))' PROVE u = v
      <4>1. Crowning(u) /\ (Of(handling[u].name))' = Of(handling[u].name)
        BY <1>8, <1>9, <3>1 DEF Crowning
      <4> QED BY <2>1, <3>1, <4>1 DEF CrownInv
    <3> QED BY <3>1
  <2> QED BY <2>1, <2>2, <2>3 DEF CrownInv
<1> QED BY <1>7, <1>10, <1>11 DEF CrownInv

LEMMA CrownStep == PointedInv /\ CrownInv /\ [DomainsNext]_domainVars => CrownInv'
<1> SUFFICES ASSUME PointedInv, CrownInv, [DomainsNext]_domainVars PROVE CrownInv'
  OBVIOUS
<1>a. ASSUME NEW w \in Handlers, NEW r, Go(w, r), r.at \notin {"clear", "crown"}, \A h \in Names : Steady(h)
      PROVE  CrownInv'
  <2>1. handling'[w] = r /\ \A v \in Handlers \ {w} : handling'[v] = handling[v]
    BY <1>a DEF Go, PointedInv
  <2> QED BY <1>a, <2>1, CrownsKept
<1>b. ASSUME UNCHANGED <<handling, hostnames>> PROVE CrownInv'
  BY <1>b DEF CrownInv, Counts, Of, Moved, Crowning
<1>1. CASE (\E h \in Names : PointName(h) \/ EdgeActivates(h)) \/ UNCHANGED domainVars
  BY <1>1, <1>b DEF PointName, EdgeActivates, domainVars
<1>2. ASSUME NEW w \in Handlers, NEW o \in Tenants, NEW h \in Names, RequestDomain(w, o, h) PROVE CrownInv'
  BY <1>2, <1>a, RequestGoes, RowsSteady
<1>3. ASSUME NEW w \in Handlers, UpsertDomain(w) \/ WriteVerification(w) PROVE CrownInv'
  <2>1. \E r : Go(w, r) /\ r.at \notin {"clear", "crown"}
    BY <1>3 DEF UpsertDomain, WriteVerification, Waiting
  <2> QED BY <1>3, <1>a, <2>1, WritesSteady
<1>4. ASSUME NEW w \in Handlers, \/ \E h \in Names : BeginVerification(w, h)
                                 \/ AskNetwork(w) \/ VerificationRefused(w) \/ HandlerDies(w)
      PROVE  CrownInv'
  BY <1>4, <1>a, OthersGo, RowsSteady
<1>5. ASSUME NEW w \in Handlers, WebhookSteps(w) PROVE CrownInv'
  <2>1. UNCHANGED hostnames
    BY <1>5 DEF WebhookSteps, ReceiveEvent, ClaimEvent, ApplyEvent, MarkEvent, FailEvent
  <2>2. UNCHANGED handling \/ \E r : Go(w, r) /\ r.at \notin {"clear", "crown"}
    <3>1. ASSUME NEW e \in WebhookEvents, ReceiveEvent(w, e) PROVE UNCHANGED handling \/ \E r : Go(w, r) /\ r.at \notin {"clear", "crown"}
      BY <3>1 DEF ReceiveEvent
    <3>2. ASSUME NEW e \in WebhookEvents, ClaimEvent(w, e) PROVE \E r : Go(w, r) /\ r.at \notin {"clear", "crown"}
      BY <3>2 DEF ClaimEvent, Waiting
    <3>3. ASSUME NEW e \in WebhookEvents, ApplyEvent(w, e) PROVE \E r : Go(w, r) /\ r.at \notin {"clear", "crown"}
      BY <3>3 DEF ApplyEvent
    <3>4. ASSUME NEW e \in WebhookEvents, MarkEvent(w, e) \/ FailEvent(w, e) PROVE \E r : Go(w, r) /\ r.at \notin {"clear", "crown"}
      BY <3>4 DEF MarkEvent, FailEvent, Waiting
    <3> QED BY <1>5, <3>1, <3>2, <3>3, <3>4 DEF WebhookSteps
  <2> QED BY <1>a, <1>b, <2>1, <2>2, RowsSteady
<1> QED BY <1>1, <1>2, <1>3, <1>4, <1>5, PrimarySelected, PrimariesCleared, PrimaryCrowned
        DEF DomainsNext, AdministratorSteps, VerificationSteps

LEMMA OneAtMost ==
  ASSUME NEW S, \A x, y \in S : x = y
  PROVE  Cardinality(S) <= 1
<1>1. CASE S = {}
  BY <1>1, FS_EmptySet
<1>2. ASSUME NEW x \in S PROVE Cardinality(S) <= 1
  <2>1. S = {x}
    BY <1>2
  <2> QED BY <2>1, FS_Singleton
<1> QED BY <1>1, <1>2

\* An organization has one main hostname at most, a hostname is active only if
\* it has led to the platform, and an event is written once, for any number of
\* hostnames, organizations and handlers, whatever fails or dies between
\* (saas-tenants.ts, dodomain-webhook.ts).
THEOREM HostnamesCorrect == DomainsSpec => []HostnamesAreSound
<1>1. DomainsInit => PointedInv /\ AppliedInv /\ CrownInv
  <2> SUFFICES ASSUME DomainsInit PROVE AppliedInv /\ CrownInv
    BY PointedInit
  <2>1. PointedInv /\ \A w \in Handlers : handling[w].at = "idle"
    BY PointedInit DEF DomainsInit, Waiting
  <2>2. \A e \in WebhookEvents : deliveries[e].applied = 0
    BY DEF DomainsInit
  <2>3. \A h \in Names : hostnames[h] = NoRow /\ ~NoRow.primary
    BY DEF DomainsInit, NoRow
  <2>4. AppliedInv
    BY <2>1, <2>2 DEF AppliedInv, Applies
  <2> QED BY <2>1, <2>3, <2>4 DEF CrownInv, Counts, Crowning
<1>2. PointedInv /\ AppliedInv /\ CrownInv /\ [DomainsNext]_domainVars => (PointedInv /\ AppliedInv /\ CrownInv)'
  BY PointedStep, AppliedStep, CrownStep
<1>3. PointedInv /\ AppliedInv /\ CrownInv => HostnamesAreSound
  <2> SUFFICES ASSUME PointedInv, AppliedInv, CrownInv PROVE HostnamesAreSound
    OBVIOUS
  <2>1. OnePrimaryEach
    <3> SUFFICES ASSUME NEW o \in Tenants
                 PROVE  Cardinality({h \in Names : hostnames[h].org = o /\ hostnames[h].primary /\ ~hostnames[h].moved}) <= 1
      BY DEF OnePrimaryEach
    <3> QED BY OneAtMost DEF CrownInv, Counts, Of
  <2>2. SelectedWasPointed
    BY DEF SelectedWasPointed, TenantOf, PointedInv
  <2>3. AppliedOnce
    BY DEF AppliedOnce, AppliedInv
  <2> QED BY <2>1, <2>2, <2>3 DEF HostnamesAreSound
<1> QED BY <1>1, <1>2, <1>3, PTL DEF DomainsSpec

-----------------------------------------------------------------------------
(* Communities: what is asked for, decided, removed and given back. *)

RequestRows == [status : {"none", "pending", "approved", "rejected", "withdrawn"}, by : Members \cup {"nobody"},
                slug : Slugs \cup {NoSlug}, org : Orgs \cup {"none"}]
OrgRows == [status : {"none", "active", "decommissioning", "purged"}, slug : Slugs \cup {NoSlug}, released : BOOLEAN]
CodeRows == [org : Orgs, by : Members, emergency : BOOLEAN, status : {"pending", "confirmed", "used", "cancelled", "expired"}]
ConfirmRows == [code : Nat, by : {"email_link", "code"}, step : {"mark", "preview", "begin", "suspend", "used"},
                keep : SUBSET Members, drop : SUBSET Members]
RemovalStatuses == {"quiescing", "external_cleanup", "blocked", "retention", "completed", "failed"}
RemovalRows == [org : Orgs, emergency : BOOLEAN, code : Nat, status : RemovalStatuses, keep : SUBSET Members, drop : SUBSET Members]
JobRows == [step : {"idle", "rides", "cleanup", "clean", "release", "purge"}, r : Nat, doomed : SUBSET Members]

CommunityTypes ==
  /\ people \subseteq Members /\ orgs \in [Orgs -> OrgRows] /\ asked \in [Applications -> RequestRows]
  /\ codes \in Seq(CodeRows) /\ confirming \subseteq ConfirmRows /\ \A x \in confirming : x.code \in DOMAIN codes
  /\ removals \in Seq(RemovalRows) /\ job \in JobRows /\ (job.step # "idle" => job.r \in DOMAIN removals)

\* An organization that a request has is one that was made.
ApprovedInv ==
  CommunitiesAreApproved /\ \A a \in Applications : asked[a].org \in Orgs => orgs[asked[a].org].status # "none"

\* From the end of its cleanup nothing outside points at a removed community.
Gone(r) == removals[r].org \notin outside
FreedInv ==
  /\ outside \subseteq domains
  /\ \A o \in Orgs : orgs[o].released => orgs[o].status \in {"decommissioning", "purged"} /\ o \notin outside
  /\ \A r \in DOMAIN removals : orgs[removals[r].org].status \in {"decommissioning", "purged"}
  /\ \A r \in DOMAIN removals : removals[r].status \in {"retention", "completed", "failed"} => Gone(r)
  /\ job.step = "clean" => Gone(job.r)
  /\ job.step \in {"release", "purge"} => removals[job.r].status = "retention"

LEMMA RequestWritten ==
  ASSUME CommunityTypes, NEW a \in Applications, NEW r \in RequestRows, asked' = [asked EXCEPT ![a] = r]
  PROVE  /\ asked' \in [Applications -> RequestRows] /\ asked'[a] = r
         /\ \A b \in Applications \ {a} : asked'[b] = asked[b]
BY DEF CommunityTypes

LEMMA OrgMade ==
  ASSUME CommunityTypes, NEW o \in Orgs, NEW slug \in Slugs \cup {NoSlug}, createOrganizationWithClient(o, slug)
  PROVE  /\ orgs' \in [Orgs -> OrgRows] /\ orgs[o].status = "none" /\ ~orgs[o].released
         /\ orgs'[o].status = "active" /\ ~orgs'[o].released /\ \A q \in Orgs \ {o} : orgs'[q] = orgs[q]
<1> DEFINE r == [status |-> "active", slug |-> slug, released |-> FALSE]
<1>1. r \in OrgRows /\ r.status = "active" /\ ~r.released
  BY DEF OrgRows
<1>2. orgs' = [orgs EXCEPT ![o] = r] /\ orgs[o].status = "none" /\ ~orgs[o].released
  BY DEF createOrganizationWithClient, NoOrg
<1> HIDE DEF r
<1> QED BY <1>1, <1>2 DEF CommunityTypes

LEMMA StatusWritten ==
  ASSUME CommunityTypes, job.r \in DOMAIN removals, NEW s \in RemovalStatuses, Becomes(s)
  PROVE  /\ removals' \in Seq(RemovalRows) /\ DOMAIN removals' = DOMAIN removals
         /\ removals'[job.r].status = s
         /\ \A r \in DOMAIN removals : /\ removals'[r].org = removals[r].org
                                       /\ r # job.r => removals'[r] = removals[r]
<1> DEFINE row == [removals[job.r] EXCEPT !.status = s]
<1>1. removals \in Seq(RemovalRows) /\ removals[job.r] \in RemovalRows
  BY DEF CommunityTypes
<1>2. row \in RemovalRows /\ row.status = s /\ row.org = removals[job.r].org
  BY <1>1 DEF RemovalRows
<1>3. removals' = [removals EXCEPT ![job.r] = row]
  BY DEF Becomes
<1> HIDE DEF row
<1> QED BY <1>1, <1>2, <1>3

LEMMA CodeWritten ==
  ASSUME CommunityTypes, NEW c \in DOMAIN codes, NEW s \in {"pending", "confirmed", "used", "cancelled", "expired"},
         codes' = [codes EXCEPT ![c].status = s]
  PROVE  codes' \in Seq(CodeRows) /\ DOMAIN codes' = DOMAIN codes
<1> DEFINE row == [codes[c] EXCEPT !.status = s]
<1>1. codes \in Seq(CodeRows) /\ codes[c] \in CodeRows
  BY DEF CommunityTypes
<1>2. row \in CodeRows
  BY <1>1 DEF CodeRows
<1>3. codes' = [codes EXCEPT ![c] = row]
  OBVIOUS
<1> HIDE DEF row
<1> QED BY <1>1, <1>2, <1>3

\* A request is made, withdrawn or decided.
LEMMA RequestSteps ==
  ASSUME CommunityTypes, NEW a \in Applications,
         \/ \E p \in Members, slug \in Slugs : InsertRequest(a, p, slug)
         \/ withdrawOrganizationRequest(a)
         \/ decideOrganizationRequest(a)
  PROVE  /\ asked' \in [Applications -> RequestRows]
         /\ \A b \in Applications \ {a} : asked'[b] = asked[b]
         /\ orgs' \in [Orgs -> OrgRows] /\ UNCHANGED <<people, codes, confirming, removals, job, outside, domains>>
         /\ \/ UNCHANGED <<asked, orgs>>
            \/ /\ UNCHANGED orgs /\ asked'[a].status # "approved"
               /\ (asked[a].status = "pending" /\ asked'[a].org = asked[a].org) \/ asked'[a].org = "none"
            \/ /\ asked[a].status = "pending" /\ asked'[a].status = "approved" /\ asked'[a].org \in Orgs
               /\ \E o \in Orgs : /\ asked'[a].org = o /\ orgs[o].status = "none" /\ ~orgs[o].released
                                  /\ orgs'[o].status = "active" /\ ~orgs'[o].released /\ \A q \in Orgs \ {o} : orgs'[q] = orgs[q]
<1>1. asked[a] \in RequestRows /\ orgs \in [Orgs -> OrgRows] /\ asked \in [Applications -> RequestRows]
  BY DEF CommunityTypes
<1>2. UNCHANGED <<people, codes, confirming, removals, job, outside, domains>>
  BY DEF InsertRequest, withdrawOrganizationRequest, decideOrganizationRequest, removing, hosting
<1>3. ASSUME NEW p \in Members, NEW slug \in Slugs, InsertRequest(a, p, slug), ~PendingSlug(slug)
      PROVE  /\ asked' \in [Applications -> RequestRows] /\ UNCHANGED orgs /\ asked'[a].status = "pending" /\ asked'[a].org = "none"
             /\ \A b \in Applications \ {a} : asked'[b] = asked[b]
  <2> DEFINE r == [status |-> "pending", by |-> p, slug |-> slug, org |-> "none"]
  <2>1. r \in RequestRows /\ r.status = "pending" /\ r.org = "none"
    BY DEF RequestRows
  <2>2. asked' = [asked EXCEPT ![a] = r] /\ UNCHANGED orgs
    BY <1>3 DEF InsertRequest
  <2> HIDE DEF r
  <2> QED BY <2>1, <2>2, RequestWritten
<1>4. ASSUME NEW p \in Members, NEW slug \in Slugs, InsertRequest(a, p, slug), PendingSlug(slug) PROVE UNCHANGED <<asked, orgs>>
  BY <1>4 DEF InsertRequest
<1>5. ASSUME NEW s \in {"withdrawn", "rejected"}, asked' = [asked EXCEPT ![a].status = s]
      PROVE  /\ asked' \in [Applications -> RequestRows] /\ asked'[a].status = s /\ asked'[a].org = asked[a].org
             /\ \A b \in Applications \ {a} : asked'[b] = asked[b]
  <2> DEFINE r == [asked[a] EXCEPT !.status = s]
  <2>1. r \in RequestRows /\ r.status = s /\ r.org = asked[a].org
    BY <1>1 DEF RequestRows
  <2>2. asked' = [asked EXCEPT ![a] = r]
    BY <1>5
  <2> HIDE DEF r
  <2> QED BY <2>1, <2>2, RequestWritten
<1>6. CASE withdrawOrganizationRequest(a)
  <2>1. asked' = [asked EXCEPT ![a].status = "withdrawn"] /\ UNCHANGED orgs /\ asked[a].status = "pending"
    BY <1>6 DEF withdrawOrganizationRequest, canWithdrawRequest
  <2> QED BY <1>1, <1>2, <1>5, <2>1
<1>7. CASE decideOrganizationRequest(a)
  <2>1. asked[a].status = "pending"
    BY <1>7 DEF decideOrganizationRequest
  <2>2. CASE asked' = [asked EXCEPT ![a].status = "rejected"] /\ UNCHANGED orgs
    BY <1>1, <1>2, <1>5, <2>1, <2>2
  <2>3. ASSUME NEW o \in Orgs, createOrganizationWithClient(o, asked[a].slug), asked' = [asked EXCEPT ![a].status = "approved", ![a].org = o]
        PROVE  /\ asked' \in [Applications -> RequestRows] /\ asked'[a].status = "approved" /\ asked'[a].org = o
               /\ \A b \in Applications \ {a} : asked'[b] = asked[b]
               /\ orgs' \in [Orgs -> OrgRows] /\ orgs[o].status = "none" /\ ~orgs[o].released
               /\ orgs'[o].status = "active" /\ ~orgs'[o].released /\ \A q \in Orgs \ {o} : orgs'[q] = orgs[q]
    <3> DEFINE r == [asked[a] EXCEPT !.status = "approved", !.org = o]
    <3>1. r \in RequestRows /\ r.status = "approved" /\ r.org = o
      BY <1>1 DEF RequestRows
    <3>2. asked' = [asked EXCEPT ![a] = r]
      BY <1>1, <2>3
    <3>3. asked[a].slug \in Slugs \cup {NoSlug}
      BY <1>1 DEF RequestRows
    <3> HIDE DEF r
    <3> QED BY <2>3, <3>1, <3>2, <3>3, RequestWritten, OrgMade
  <2>4. \/ asked' = [asked EXCEPT ![a].status = "rejected"] /\ UNCHANGED orgs
        \/ \E o \in Orgs : createOrganizationWithClient(o, asked[a].slug) /\ asked' = [asked EXCEPT ![a].status = "approved", ![a].org = o]
    BY <1>7 DEF decideOrganizationRequest
  <2> QED BY <1>2, <2>1, <2>2, <2>3, <2>4
<1> QED BY <1>1, <1>2, <1>3, <1>4, <1>6, <1>7

\* Steps that write neither requests nor organizations, codes, removals or the job.
Quiet == \/ UNCHANGED communityVars
         \/ \E a \in Applications, p \in Members, slug \in Slugs : createOrganizationRequest(a, p, slug)
         \/ \E p \in Members, o \in Orgs : Join(p, o)
         \/ \E o \in Orgs : RidesChange(o) \/ InsertDomain(o) \/ requestCustomDomain(o)

LEMMA QuietSteps ==
  ASSUME Quiet
  PROVE  /\ UNCHANGED <<people, orgs, asked, codes, confirming, removals, job>>
         /\ FreedInv /\ ~LateDomains => outside' \subseteq domains' /\ \A o \in Orgs : o \in outside' => o \in outside \/ orgs[o].status = "active"
<1>1. UNCHANGED <<people, orgs, asked, codes, confirming, removals, job>>
  BY DEF Quiet, communityVars, createOrganizationRequest, Join, RidesChange, InsertDomain, requestCustomDomain,
         applying, removing
<1>2. ASSUME FreedInv, ~LateDomains
      PROVE  outside' \subseteq domains' /\ \A o \in Orgs : o \in outside' => o \in outside \/ orgs[o].status = "active"
  <2>1. CASE \E o \in Orgs : InsertDomain(o)
    BY <1>2, <2>1 DEF InsertDomain, FreedInv
  <2>2. CASE \E o \in Orgs : requestCustomDomain(o)
    BY <1>2, <2>2 DEF requestCustomDomain, FreedInv, Live
  <2>3. CASE ~\E o \in Orgs : InsertDomain(o) \/ requestCustomDomain(o)
    <3>1. UNCHANGED <<outside, domains>>
      BY <2>3 DEF Quiet, communityVars, createOrganizationRequest, Join, RidesChange, hosting
    <3> QED BY <1>2, <3>1 DEF FreedInv
  <2> QED BY <2>1, <2>2, <2>3
<1> QED BY <1>1, <1>2

\* Steps of codes and confirmations.
LEMMA CodeSteps ==
  ASSUME CommunityTypes, DecommissionRoute \/ Confirmation, ~\E x \in confirming : requestOrganizationDecommission(x)
  PROVE  /\ UNCHANGED <<people, orgs, asked, removals, job, outside, domains>>
         /\ codes' \in Seq(CodeRows) /\ DOMAIN codes \subseteq DOMAIN codes'
         /\ confirming' \subseteq ConfirmRows /\ \A x \in confirming' : x.code \in DOMAIN codes
<1>1. /\ codes \in Seq(CodeRows) /\ DOMAIN codes = 1..Len(codes) /\ Len(codes) \in Nat
      /\ confirming \subseteq ConfirmRows /\ people \subseteq Members /\ \A x \in confirming : x.code \in DOMAIN codes
  BY DEF CommunityTypes
<1>a. UNCHANGED <<people, orgs, asked, removals, job, outside, domains>>
  BY DEF DecommissionRoute, Confirmation, createOrganizationDecommissionConfirmation, CodeExpires, confirmOrganizationDecommission,
         MarkConfirmed, previewOrganizationDecommission, SuspendMemberships, CodeUsed, applying, hosting
<1>b. ASSUME NEW x \in confirming, NEW step \in {"preview", "used", "suspend"}, Step(x, step)
      PROVE  confirming' \subseteq ConfirmRows /\ \A y \in confirming' : y.code \in DOMAIN codes
  <2> DEFINE y == [x EXCEPT !.step = step]
  <2>1. y \in ConfirmRows /\ y.code = x.code
    BY <1>1 DEF ConfirmRows
  <2>2. confirming' = (confirming \ {x}) \cup {y}
    BY <1>b DEF Step
  <2> HIDE DEF y
  <2> QED BY <1>1, <2>1, <2>2
<1>2. ASSUME NEW p \in Members, NEW o \in Orgs, NEW e \in BOOLEAN, createOrganizationDecommissionConfirmation(p, o, e)
      PROVE  codes' \in Seq(CodeRows) /\ DOMAIN codes \subseteq DOMAIN codes' /\ UNCHANGED confirming
  <2> DEFINE old == [c \in DOMAIN codes |-> IF codes[c].org = o /\ codes[c].by = p /\ codes[c].status = "pending"
                                              THEN [codes[c] EXCEPT !.status = "cancelled"] ELSE codes[c]]
             row == [org |-> o, by |-> p, emergency |-> e, status |-> "pending"]
  <2>1. row \in CodeRows
    BY DEF CodeRows
  <2>2. \A c \in DOMAIN codes : old[c] \in CodeRows
    <3> SUFFICES ASSUME NEW c \in DOMAIN codes PROVE old[c] \in CodeRows
      OBVIOUS
    <3>1. codes[c] \in CodeRows
      BY <1>1
    <3>2. [codes[c] EXCEPT !.status = "cancelled"] \in CodeRows
      BY <3>1 DEF CodeRows
    <3> QED BY <3>1, <3>2
  <2>3. old \in [1..Len(codes) -> CodeRows]
    BY <1>1, <2>2
  <2>4. old \in Seq(CodeRows) /\ Len(old) = Len(codes)
    BY <1>1, <2>3
  <2>5. codes' = Append(old, row) /\ UNCHANGED confirming
    BY <1>2 DEF createOrganizationDecommissionConfirmation
  <2> HIDE DEF old, row
  <2> QED BY <1>1, <2>1, <2>4, <2>5
<1>3. ASSUME NEW c \in DOMAIN codes, CodeExpires(c) PROVE codes' \in Seq(CodeRows) /\ DOMAIN codes \subseteq DOMAIN codes' /\ UNCHANGED confirming
  BY <1>3, CodeWritten DEF CodeExpires
<1>4. ASSUME NEW c \in DOMAIN codes, NEW channel \in {"email_link", "code"}, confirmOrganizationDecommission(c, channel)
      PROVE  UNCHANGED codes /\ confirming' \subseteq ConfirmRows /\ \A y \in confirming' : y.code \in DOMAIN codes
  <2> DEFINE y == [code |-> c, by |-> channel, step |-> "mark", keep |-> {}, drop |-> {}]
  <2>1. y \in ConfirmRows /\ y.code = c
    BY <1>1 DEF ConfirmRows
  <2>2. confirming' = confirming \cup {y} /\ UNCHANGED codes
    BY <1>4 DEF confirmOrganizationDecommission
  <2> HIDE DEF y
  <2> QED BY <1>1, <2>1, <2>2
<1>5. ASSUME NEW x \in confirming, MarkConfirmed(x) \/ CodeUsed(x) \/ SuspendMemberships(x)
      PROVE  /\ codes' \in Seq(CodeRows) /\ DOMAIN codes \subseteq DOMAIN codes'
             /\ confirming' \subseteq ConfirmRows /\ \A y \in confirming' : y.code \in DOMAIN codes
  BY <1>1, <1>5, <1>b, CodeWritten DEF MarkConfirmed, CodeUsed, SuspendMemberships, Leave
<1>6. ASSUME NEW x \in confirming, previewOrganizationDecommission(x)
      PROVE  /\ codes' \in Seq(CodeRows) /\ DOMAIN codes \subseteq DOMAIN codes'
             /\ confirming' \subseteq ConfirmRows /\ \A y \in confirming' : y.code \in DOMAIN codes
  <2>1. CASE Leave(x) /\ codes' = [codes EXCEPT ![x.code].status = "pending"]
    BY <1>1, <2>1, CodeWritten DEF Leave
  <2>2. CASE UNCHANGED codes /\ \E keep, drop \in SUBSET Members :
               confirming' = (confirming \ {x}) \cup {[x EXCEPT !.step = "begin", !.keep = keep, !.drop = drop]}
    <3>1. PICK keep, drop \in SUBSET Members :
               confirming' = (confirming \ {x}) \cup {[x EXCEPT !.step = "begin", !.keep = keep, !.drop = drop]}
      BY <2>2
    <3> DEFINE y == [x EXCEPT !.step = "begin", !.keep = keep, !.drop = drop]
    <3>2. y \in ConfirmRows /\ y.code = x.code
      BY <1>1 DEF ConfirmRows
    <3>3. confirming' = (confirming \ {x}) \cup {y}
      BY <3>1
    <3> HIDE DEF y
    <3> QED BY <1>1, <2>2, <3>2, <3>3
  <2>3. \/ Leave(x) /\ codes' = [codes EXCEPT ![x.code].status = "pending"]
        \/ UNCHANGED codes /\ \E keep, drop \in SUBSET Members :
               confirming' = (confirming \ {x}) \cup {[x EXCEPT !.step = "begin", !.keep = keep, !.drop = drop]}
    <3> DEFINE c == codes[x.code]
               in == {p \in people : <<p, c.org>> \in belongs}
               keeps == {p \in in : InOther(p, c.org)}
               drops == {p \in in : ~InOther(p, c.org)}
    <3>1. keeps \in SUBSET Members /\ drops \in SUBSET Members
      BY <1>1
    <3>2. \/ Leave(x) /\ codes' = [codes EXCEPT ![x.code].status = "pending"]
          \/ UNCHANGED codes /\ confirming' = (confirming \ {x}) \cup {[x EXCEPT !.step = "begin", !.keep = keeps, !.drop = drops]}
      BY <1>6, Zenon DEF previewOrganizationDecommission
    <3> HIDE DEF keeps, drops
    <3> QED BY <3>1, <3>2
  <2> QED BY <2>1, <2>2, <2>3
<1>7. confirming' = confirming => \A x \in confirming' : x.code \in DOMAIN codes
  BY <1>1
<1> QED BY <1>1, <1>a, <1>2, <1>3, <1>4, <1>5, <1>6, <1>7 DEF DecommissionRoute, Confirmation

\* A confirmed removal begins.
LEMMA RemovalBegins ==
  ASSUME CommunityTypes, NEW x \in confirming, requestOrganizationDecommission(x)
  PROVE  /\ UNCHANGED <<people, asked, codes, job, outside, domains>>
         /\ confirming' \subseteq ConfirmRows /\ \A y \in confirming' : y.code \in DOMAIN codes
         /\ removals' \in Seq(RemovalRows) /\ DOMAIN removals \subseteq DOMAIN removals' /\ \A r \in DOMAIN removals : removals'[r] = removals[r]
         /\ orgs' \in [Orgs -> OrgRows]
         /\ \E o \in Orgs : /\ orgs'[o].status = "decommissioning" /\ orgs'[o].released = orgs[o].released
                            /\ \A q \in Orgs \ {o} : orgs'[q] = orgs[q]
                            /\ \A r \in DOMAIN removals' \ DOMAIN removals : removals'[r].org = o /\ removals'[r].status = "quiescing"
<1> DEFINE c == codes[x.code]
           row == [org |-> c.org, emergency |-> c.emergency, code |-> x.code, status |-> "quiescing", keep |-> x.keep, drop |-> x.drop]
           y == [x EXCEPT !.step = "suspend"]
           now == [orgs[c.org] EXCEPT !.status = "decommissioning"]
<1>1. x \in ConfirmRows /\ x.code \in DOMAIN codes /\ c \in CodeRows /\ removals \in Seq(RemovalRows)
      /\ orgs \in [Orgs -> OrgRows] /\ confirming \subseteq ConfirmRows /\ \A z \in confirming : z.code \in DOMAIN codes
  BY DEF CommunityTypes
<1>2. c.org \in Orgs /\ c.emergency \in BOOLEAN
  BY <1>1 DEF CodeRows
<1>3. row \in RemovalRows /\ row.org = c.org /\ row.status = "quiescing"
  BY <1>1, <1>2 DEF ConfirmRows, RemovalRows, RemovalStatuses
<1>4. y \in ConfirmRows /\ y.code = x.code
  BY <1>1 DEF ConfirmRows
<1>5. orgs[c.org] \in OrgRows
  BY <1>1, <1>2
<1>6. now \in OrgRows /\ now.status = "decommissioning" /\ now.released = orgs[c.org].released
  BY <1>5 DEF OrgRows
<1>7. /\ removals' = Append(removals, row) /\ confirming' = (confirming \ {x}) \cup {y}
      /\ orgs' = [orgs EXCEPT ![c.org] = now] /\ UNCHANGED <<people, asked, codes, job, outside, domains>>
  BY DEF requestOrganizationDecommission, Step, applying, hosting
<1> HIDE DEF c, row, y, now
<1>8. confirming' \subseteq ConfirmRows /\ \A z \in confirming' : z.code \in DOMAIN codes
  BY <1>1, <1>4, <1>7
<1>9. /\ removals' \in Seq(RemovalRows) /\ DOMAIN removals \subseteq DOMAIN removals'
      /\ \A r \in DOMAIN removals : removals'[r] = removals[r]
      /\ \A r \in DOMAIN removals' \ DOMAIN removals : removals'[r] = row
  BY <1>1, <1>3, <1>7
<1>10. /\ orgs' \in [Orgs -> OrgRows] /\ orgs'[c.org] = now /\ \A q \in Orgs \ {c.org} : orgs'[q] = orgs[q]
  BY <1>1, <1>2, <1>6, <1>7
<1> QED BY <1>2, <1>3, <1>6, <1>7, <1>8, <1>9, <1>10

LEMMA JobTypes ==
  ASSUME CommunityTypes, JobStep
  PROVE  /\ CommunityTypes' /\ UNCHANGED <<asked, codes, confirming>>
         /\ \A o \in Orgs : orgs[o].status # "none" => orgs'[o].status # "none"
<1>1. /\ job \in JobRows /\ job.r \in Nat /\ removals \in Seq(RemovalRows) /\ people \subseteq Members
      /\ orgs \in [Orgs -> OrgRows] /\ (job.step # "idle" => job.r \in DOMAIN removals)
      /\ \A r \in DOMAIN removals : r \in Nat
  BY DEF CommunityTypes, JobRows
<1>2. UNCHANGED <<asked, codes, confirming>>
  BY DEF JobStep, processOrganizationDecommissions, purgeDueOrganizationData, LookForRides, cleanupOrganizationInfrastructure,
         BeginRetention, releaseOrganizationAddress, CommitPurge, PurgeFails, applying
<1>3. JobIdle \in JobRows /\ JobIdle.step = "idle"
  BY DEF JobIdle, JobRows
<1>4. ASSUME NEW step \in {"idle", "rides", "cleanup", "clean", "release", "purge"}, Now(step)
      PROVE  job' \in JobRows /\ job'.r = job.r
  BY <1>1, <1>4 DEF Now, JobRows
<1>m. ASSUME job' \in JobRows, job'.step # "idle" => job'.r \in DOMAIN removals',
             removals' \in Seq(RemovalRows), people' \subseteq people,
             \/ UNCHANGED orgs
             \/ \E o \in Orgs, now \in OrgRows : orgs' = [orgs EXCEPT ![o] = now] /\ now.status # "none"
      PROVE  CommunityTypes' /\ \A o \in Orgs : orgs[o].status # "none" => orgs'[o].status # "none"
  BY <1>1, <1>2, <1>m DEF CommunityTypes
<1>n. ASSUME job' = JobIdle, removals' \in Seq(RemovalRows), people' \subseteq people,
             \/ UNCHANGED orgs
             \/ \E o \in Orgs, now \in OrgRows : orgs' = [orgs EXCEPT ![o] = now] /\ now.status # "none"
      PROVE  CommunityTypes' /\ \A o \in Orgs : orgs[o].status # "none" => orgs'[o].status # "none"
  <2>1. job' \in JobRows /\ job'.step = "idle"
    BY <1>3, <1>n
  <2> QED BY <1>m, <1>n, <2>1
<1>5. ASSUME job.step # "idle" PROVE Removed \in Orgs
  <2>1. removals[job.r] \in RemovalRows
    BY <1>1, <1>5
  <2> QED BY <2>1 DEF Removed, RemovalRows
<1>6. ASSUME NEW r \in DOMAIN removals, processOrganizationDecommissions(r) \/ purgeDueOrganizationData(r)
      PROVE  CommunityTypes' /\ \A o \in Orgs : orgs[o].status # "none" => orgs'[o].status # "none"
  <2>1. PICK step \in {"rides", "purge"}, doomed \in SUBSET Members : job' = [step |-> step, r |-> r, doomed |-> doomed]
    BY <1>1, <1>6 DEF processOrganizationDecommissions, purgeDueOrganizationData
  <2>2. job' \in JobRows /\ job'.r = r
    BY <1>1, <2>1 DEF JobRows
  <2>3. UNCHANGED <<removals, people, orgs>>
    BY <1>6 DEF processOrganizationDecommissions, purgeDueOrganizationData
  <2> QED BY <1>1, <1>m, <2>2, <2>3
<1>7. ASSUME NEW s \in RemovalStatuses, Becomes(s), job.step # "idle"
      PROVE  removals' \in Seq(RemovalRows) /\ job.r \in DOMAIN removals'
  BY <1>1, <1>7, StatusWritten
<1>8. CASE LookForRides
  <2>1. job.step = "rides" /\ UNCHANGED <<people, orgs>>
        /\ \/ Becomes("blocked") /\ job' = JobIdle
           \/ Becomes("external_cleanup") /\ Now("cleanup")
    BY <1>8 DEF LookForRides
  <2>2. "blocked" \in RemovalStatuses /\ "external_cleanup" \in RemovalStatuses
    BY DEF RemovalStatuses
  <2> QED BY <1>2, <1>4, <1>7, <1>m, <1>n, <2>1, <2>2
<1>9. CASE cleanupOrganizationInfrastructure
  <2>1. job.step = "cleanup" /\ UNCHANGED <<people, orgs, removals>> /\ (Now("clean") \/ job' = JobIdle)
    BY <1>9 DEF cleanupOrganizationInfrastructure
  <2> QED BY <1>2, <1>1, <1>4, <1>m, <1>n, <2>1
<1>10. CASE BeginRetention
  <2>1. job.step = "clean" /\ UNCHANGED <<people, orgs>> /\ Becomes("retention") /\ Now("release")
    BY <1>10 DEF BeginRetention
  <2>2. "retention" \in RemovalStatuses
    BY DEF RemovalStatuses
  <2> QED BY <1>2, <1>4, <1>7, <1>m, <2>1, <2>2
<1>11. CASE releaseOrganizationAddress
  <2>1. job.step = "release" /\ job' = JobIdle /\ UNCHANGED <<people, removals>>
    BY <1>11 DEF releaseOrganizationAddress
  <2>2. CASE UNCHANGED orgs
    BY <1>2, <1>1, <1>n, <2>1, <2>2
  <2>3. CASE ~UNCHANGED orgs
    <3> DEFINE now == [orgs[Removed] EXCEPT !.slug = NoSlug, !.released = TRUE]
    <3>1. Removed \in Orgs
      BY <1>5, <2>1
    <3>2. orgs' = [orgs EXCEPT ![Removed].slug = NoSlug, ![Removed].released = TRUE] /\ orgs[Removed].status = "decommissioning"
      BY <1>11, <2>3 DEF releaseOrganizationAddress
    <3>3. orgs[Removed] \in OrgRows
      BY <1>1, <3>1
    <3>4. now \in OrgRows /\ now.status # "none"
      BY <3>2, <3>3 DEF OrgRows
    <3>5. orgs' = [orgs EXCEPT ![Removed] = now]
      BY <1>1, <3>1, <3>2
    <3> HIDE DEF now
    <3> QED BY <1>2, <1>1, <1>n, <2>1, <3>1, <3>4, <3>5
  <2> QED BY <2>2, <2>3
<1>12. CASE CommitPurge
  <2> DEFINE now == [status |-> "purged", slug |-> NoSlug, released |-> TRUE]
  <2>1. job.step = "purge" /\ job' = JobIdle /\ people' \subseteq people /\ Becomes("completed") /\ orgs' = [orgs EXCEPT ![Removed] = now]
    BY <1>12 DEF CommitPurge
  <2>2. now \in OrgRows /\ now.status # "none" /\ "completed" \in RemovalStatuses
    BY DEF OrgRows, RemovalStatuses
  <2> HIDE DEF now
  <2>3. Removed \in Orgs
    BY <1>5, <2>1
  <2> QED BY <1>2, <1>7, <1>n, <2>1, <2>2, <2>3
<1>13. CASE PurgeFails
  <2>1. job.step = "purge" /\ job' = JobIdle /\ UNCHANGED <<people, orgs>> /\ Becomes("failed")
    BY <1>13 DEF PurgeFails
  <2>2. "failed" \in RemovalStatuses
    BY DEF RemovalStatuses
  <2> QED BY <1>2, <1>7, <1>n, <2>1, <2>2
<1> QED BY <1>2, <1>6, <1>8, <1>9, <1>10, <1>11, <1>12, <1>13 DEF JobStep

LEMMA JobFreed ==
  ASSUME CommunityTypes, FreedInv, JobStep
  PROVE  FreedInv'
<1>1. /\ job \in JobRows /\ removals \in Seq(RemovalRows) /\ orgs \in [Orgs -> OrgRows]
      /\ job.step # "idle" => job.r \in DOMAIN removals
      /\ \A r \in DOMAIN removals : removals[r].org \in Orgs
  <2>1. \A r \in DOMAIN removals : removals[r] \in RemovalRows
    BY DEF CommunityTypes
  <2>2. \A row \in RemovalRows : row.org \in Orgs
    BY DEF RemovalRows
  <2> QED BY <2>1, <2>2 DEF CommunityTypes
<1>2. JobIdle.step = "idle"
  BY DEF JobIdle
<1>3. ASSUME NEW step \in {"cleanup", "clean", "release"}, Now(step) PROVE job'.r = job.r /\ job'.step = step
  BY <1>1, <1>3 DEF Now, JobRows
<1>4. ASSUME UNCHANGED <<orgs, outside, domains, removals>>, job'.step \notin {"clean", "release"},
             job'.step = "purge" => removals[job'.r].status = "retention"
      PROVE  FreedInv'
  BY <1>4 DEF FreedInv, Gone
<1>5. ASSUME NEW s \in RemovalStatuses, Becomes(s), job.step # "idle", UNCHANGED <<orgs, outside, domains>>,
             s \in {"retention", "completed", "failed"} => Gone(job.r),
             job'.step \in {"idle", "cleanup"} \/ (job'.step = "release" /\ job'.r = job.r /\ s = "retention")
      PROVE  FreedInv'
  <2>1. /\ DOMAIN removals' = DOMAIN removals /\ removals'[job.r].status = s
        /\ \A r \in DOMAIN removals : removals'[r].org = removals[r].org /\ (r # job.r => removals'[r] = removals[r])
    BY <1>1, <1>5, StatusWritten
  <2> QED BY <1>5, <2>1 DEF FreedInv, Gone
<1>6. CASE \E r \in DOMAIN removals : processOrganizationDecommissions(r) \/ purgeDueOrganizationData(r)
  <2>1. PICK r \in DOMAIN removals : processOrganizationDecommissions(r) \/ purgeDueOrganizationData(r)
    BY <1>6
  <2>2. UNCHANGED <<orgs, outside, domains, removals>>
    BY <2>1 DEF processOrganizationDecommissions, purgeDueOrganizationData, hosting
  <2>3. job'.step = "rides" \/ (job'.step = "purge" /\ job'.r = r /\ removals[r].status = "retention")
    BY <2>1 DEF processOrganizationDecommissions, purgeDueOrganizationData
  <2> QED BY <1>4, <2>2, <2>3
<1>7. CASE LookForRides
  <2>1. /\ job.step = "rides" /\ UNCHANGED <<orgs, outside, domains>>
        /\ \/ Becomes("blocked") /\ job' = JobIdle
           \/ Becomes("external_cleanup") /\ Now("cleanup")
    BY <1>7 DEF LookForRides, hosting
  <2>2. "blocked" \in RemovalStatuses /\ "external_cleanup" \in RemovalStatuses
    BY DEF RemovalStatuses
  <2> QED BY <1>2, <1>3, <1>5, <2>1, <2>2
<1>8. CASE cleanupOrganizationInfrastructure
  <2>1. job.step = "cleanup" /\ UNCHANGED <<orgs, removals>> /\ job.r \in DOMAIN removals
    BY <1>1, <1>8 DEF cleanupOrganizationInfrastructure
  <2>2. outside' \subseteq domains' /\ outside' \subseteq outside
    BY <1>8 DEF cleanupOrganizationInfrastructure, FreedInv, hosting
  <2>3. \/ job'.step = "idle"
        \/ job'.step = "clean" /\ job'.r = job.r /\ Removed \notin domains'
    BY <1>2, <1>3, <1>8 DEF cleanupOrganizationInfrastructure, allClean
  <2> QED BY <2>1, <2>2, <2>3 DEF FreedInv, Gone, Removed
<1>9. CASE BeginRetention
  <2>1. job.step = "clean" /\ UNCHANGED <<orgs, outside, domains>> /\ Becomes("retention") /\ Now("release")
    BY <1>9 DEF BeginRetention, hosting
  <2>2. "retention" \in RemovalStatuses /\ Gone(job.r)
    BY <2>1 DEF RemovalStatuses, FreedInv
  <2> QED BY <1>3, <1>5, <2>1, <2>2
<1>10. CASE releaseOrganizationAddress
  <2>1. job.step = "release" /\ job' = JobIdle /\ UNCHANGED <<outside, domains, removals>>
    BY <1>10 DEF releaseOrganizationAddress, hosting
  <2>2. Removed \in Orgs /\ Removed \notin outside /\ job.r \in DOMAIN removals
    BY <1>1, <2>1 DEF FreedInv, Gone, Removed
  <2>3. CASE UNCHANGED orgs
    BY <1>2, <1>4, <2>1, <2>3
  <2>4. CASE ~UNCHANGED orgs
    <3> DEFINE now == [orgs[Removed] EXCEPT !.slug = NoSlug, !.released = TRUE]
    <3>2. orgs' = [orgs EXCEPT ![Removed].slug = NoSlug, ![Removed].released = TRUE] /\ orgs[Removed].status = "decommissioning"
      BY <1>10, <2>4 DEF releaseOrganizationAddress
    <3>3. orgs[Removed] \in OrgRows
      BY <1>1, <2>2
    <3>4. now.status = "decommissioning"
      BY <3>2, <3>3 DEF OrgRows
    <3>5. orgs' = [orgs EXCEPT ![Removed] = now]
      BY <1>1, <2>2, <3>2
    <3> HIDE DEF now
    <3>6. orgs'[Removed].status = "decommissioning" /\ \A o \in Orgs \ {Removed} : orgs'[o] = orgs[o]
      BY <1>1, <2>2, <3>4, <3>5
    <3> QED BY <1>1, <1>2, <2>1, <2>2, <3>6 DEF FreedInv, Gone
  <2> QED BY <2>3, <2>4
<1>11. CASE CommitPurge
  <2>1. job.step = "purge" /\ job' = JobIdle /\ Becomes("completed") /\ UNCHANGED outside /\ domains' = domains \ {Removed}
        /\ orgs' = [orgs EXCEPT ![Removed] = [status |-> "purged", slug |-> NoSlug, released |-> TRUE]]
    BY <1>11 DEF CommitPurge
  <2>2. Removed \in Orgs /\ Removed \notin outside /\ job.r \in DOMAIN removals /\ Gone(job.r)
    BY <1>1, <2>1 DEF FreedInv, Gone, Removed
  <2>3. /\ DOMAIN removals' = DOMAIN removals /\ removals'[job.r].status = "completed"
        /\ \A r \in DOMAIN removals : removals'[r].org = removals[r].org /\ (r # job.r => removals'[r] = removals[r])
    BY <2>1, <2>2, StatusWritten DEF RemovalStatuses
  <2>4. orgs'[Removed].status = "purged" /\ \A o \in Orgs \ {Removed} : orgs'[o] = orgs[o]
    BY <1>1, <2>1, <2>2
  <2> QED BY <1>1, <1>2, <2>1, <2>2, <2>3, <2>4 DEF FreedInv, Gone
<1>12. CASE PurgeFails
  <2>1. job.step = "purge" /\ job' = JobIdle /\ UNCHANGED <<orgs, outside, domains>> /\ Becomes("failed")
    BY <1>12 DEF PurgeFails, hosting
  <2>2. "failed" \in RemovalStatuses /\ Gone(job.r)
    BY <1>1, <2>1 DEF RemovalStatuses, FreedInv
  <2> QED BY <1>2, <1>5, <2>1, <2>2
<1> QED BY <1>6, <1>7, <1>8, <1>9, <1>10, <1>11, <1>12 DEF JobStep

LEMMA CommunityCases ==
  ASSUME [CommunitiesNext]_communityVars
  PROVE  \/ Quiet
         \/ \E a \in Applications : \/ \E p \in Members, slug \in Slugs : InsertRequest(a, p, slug)
                                    \/ withdrawOrganizationRequest(a)
                                    \/ decideOrganizationRequest(a)
         \/ \E o \in Orgs, slug \in Slugs : createOrganization(o, slug)
         \/ \E x \in confirming : requestOrganizationDecommission(x)
         \/ (DecommissionRoute \/ Confirmation) /\ ~\E x \in confirming : requestOrganizationDecommission(x)
         \/ JobStep \/ Dies
BY Zenon DEF CommunitiesNext, Quiet, OrganizationRequestsRoute, TenantsRoute

LEMMA DeathKeeps ==
  ASSUME CommunityTypes, Dies
  PROVE  /\ UNCHANGED <<people, orgs, asked, codes, removals, outside, domains>>
         /\ confirming' \subseteq confirming /\ job' \in JobRows /\ (job' = job \/ job'.step = "idle")
<1>1. JobIdle \in JobRows /\ JobIdle.step = "idle"
  BY DEF JobIdle, JobRows
<1>2. job' = job \/ job' = JobIdle
  BY DEF Dies
<1>3. UNCHANGED <<people, orgs, asked, codes, removals, outside, domains>> /\ confirming' \subseteq confirming
  BY DEF Dies, Leave, applying, hosting
<1> QED BY <1>1, <1>2, <1>3 DEF CommunityTypes

LEMMA CommunityTypesStep == CommunityTypes /\ [CommunitiesNext]_communityVars => CommunityTypes'
<1> SUFFICES ASSUME CommunityTypes, [CommunitiesNext]_communityVars PROVE CommunityTypes'
  OBVIOUS
<1>1. CASE Quiet
  BY <1>1, QuietSteps DEF CommunityTypes
<1>2. ASSUME NEW a \in Applications, \/ \E p \in Members, slug \in Slugs : InsertRequest(a, p, slug)
                                     \/ withdrawOrganizationRequest(a)
                                     \/ decideOrganizationRequest(a)
      PROVE  CommunityTypes'
  BY <1>2, RequestSteps DEF CommunityTypes
<1>3. ASSUME NEW o \in Orgs, NEW slug \in Slugs, createOrganization(o, slug) PROVE CommunityTypes'
  <2>1. orgs' \in [Orgs -> OrgRows] /\ UNCHANGED <<people, asked, codes, confirming, removals, job>>
    BY <1>3, OrgMade DEF createOrganization, applying, removing
  <2> QED BY <2>1 DEF CommunityTypes
<1>4. ASSUME NEW x \in confirming, requestOrganizationDecommission(x) PROVE CommunityTypes'
  <2>1. /\ UNCHANGED <<people, asked, codes, job>> /\ confirming' \subseteq ConfirmRows /\ \A y \in confirming' : y.code \in DOMAIN codes
        /\ removals' \in Seq(RemovalRows) /\ DOMAIN removals \subseteq DOMAIN removals' /\ orgs' \in [Orgs -> OrgRows]
    BY <1>4, RemovalBegins
  <2> QED BY <2>1 DEF CommunityTypes
<1>5. CASE (DecommissionRoute \/ Confirmation) /\ ~\E x \in confirming : requestOrganizationDecommission(x)
  BY <1>5, CodeSteps DEF CommunityTypes
<1>6. CASE Dies
  BY <1>6, DeathKeeps DEF CommunityTypes
<1> QED BY <1>1, <1>2, <1>3, <1>4, <1>5, <1>6, CommunityCases, JobTypes

LEMMA ApprovedStep == CommunityTypes /\ ApprovedInv /\ [CommunitiesNext]_communityVars => ApprovedInv'
<1> SUFFICES ASSUME CommunityTypes, ApprovedInv, [CommunitiesNext]_communityVars PROVE ApprovedInv'
  OBVIOUS
<1>1. ASSUME UNCHANGED asked, \A o \in Orgs : orgs[o].status # "none" => orgs'[o].status # "none" PROVE ApprovedInv'
  BY <1>1 DEF ApprovedInv, CommunitiesAreApproved
<1>2. ASSUME NEW a \in Applications, \/ \E p \in Members, slug \in Slugs : InsertRequest(a, p, slug)
                                     \/ withdrawOrganizationRequest(a)
                                     \/ decideOrganizationRequest(a)
      PROVE  ApprovedInv'
  <2>1. \A b \in Applications \ {a} : asked'[b] = asked[b]
    BY <1>2, RequestSteps
  <2>2. CASE UNCHANGED <<asked, orgs>>
    BY <1>1, <2>2
  <2>3. CASE /\ UNCHANGED orgs /\ asked'[a].status # "approved"
             /\ (asked[a].status = "pending" /\ asked'[a].org = asked[a].org) \/ asked'[a].org = "none"
    <3>1. asked'[a].org \notin Orgs
      BY <2>3, CommunitiesAssumption DEF ApprovedInv, CommunitiesAreApproved
    <3> QED BY <2>1, <2>3, <3>1 DEF ApprovedInv, CommunitiesAreApproved
  <2>4. ASSUME NEW o \in Orgs, asked'[a].org = o, orgs[o].status = "none", orgs'[o].status = "active",
               \A q \in Orgs \ {o} : orgs'[q] = orgs[q], asked'[a].status = "approved"
        PROVE  ApprovedInv'
    <3>1. \A b \in Applications \ {a} : asked'[b].org # o
      BY <2>1, <2>4 DEF ApprovedInv
    <3> QED BY <2>1, <2>4, <3>1 DEF ApprovedInv, CommunitiesAreApproved
  <2> QED BY <1>2, <2>2, <2>3, <2>4, RequestSteps
<1>3. ASSUME NEW o \in Orgs, NEW slug \in Slugs, createOrganization(o, slug) PROVE ApprovedInv'
  <2>1. UNCHANGED asked /\ orgs'[o].status = "active" /\ \A q \in Orgs \ {o} : orgs'[q] = orgs[q]
    BY <1>3, OrgMade DEF createOrganization, applying
  <2> QED BY <1>1, <2>1
<1>4. ASSUME NEW x \in confirming, requestOrganizationDecommission(x) PROVE ApprovedInv'
  <2>1. UNCHANGED asked /\ \E o \in Orgs : orgs'[o].status = "decommissioning" /\ \A q \in Orgs \ {o} : orgs'[q] = orgs[q]
    BY <1>4, RemovalBegins
  <2> QED BY <1>1, <2>1
<1>5. CASE (DecommissionRoute \/ Confirmation) /\ ~\E x \in confirming : requestOrganizationDecommission(x)
  BY <1>1, <1>5, CodeSteps
<1>6. CASE Quiet \/ Dies
  BY <1>1, <1>6, QuietSteps, DeathKeeps
<1>7. CASE JobStep
  BY <1>1, <1>7, JobTypes
<1> QED BY <1>2, <1>3, <1>4, <1>5, <1>6, <1>7, CommunityCases

LEMMA FreedStep == ~LateDomains /\ CommunityTypes /\ FreedInv /\ [CommunitiesNext]_communityVars => FreedInv'
<1> SUFFICES ASSUME ~LateDomains, CommunityTypes, FreedInv, [CommunitiesNext]_communityVars PROVE FreedInv'
  OBVIOUS
<1>t. \A r \in DOMAIN removals : removals[r].org \in Orgs
  <2>1. \A r \in DOMAIN removals : removals[r] \in RemovalRows
    BY DEF CommunityTypes
  <2>2. \A row \in RemovalRows : row.org \in Orgs
    BY DEF RemovalRows
  <2> QED BY <2>1, <2>2
<1>j. job.step # "idle" => job.r \in DOMAIN removals
  BY DEF CommunityTypes
<1>1. CASE Quiet
  <2>1. /\ UNCHANGED <<orgs, removals, job>> /\ outside' \subseteq domains'
        /\ \A o \in Orgs : o \in outside' => o \in outside \/ orgs[o].status = "active"
    BY <1>1, QuietSteps
  <2> QED BY <1>t, <1>j, <2>1 DEF FreedInv, Gone
<1>2. ASSUME NEW o \in Orgs, UNCHANGED <<removals, job, outside, domains>>, orgs[o].status = "none",
             orgs'[o].status = "active", ~orgs'[o].released, \A q \in Orgs \ {o} : orgs'[q] = orgs[q]
      PROVE  FreedInv'
  <2>1. \A r \in DOMAIN removals : removals[r].org # o
    BY <1>2 DEF FreedInv
  <2> QED BY <1>t, <1>2, <2>1 DEF FreedInv, Gone
<1>3. CASE UNCHANGED <<orgs, removals, job, outside, domains>>
  BY <1>3 DEF FreedInv, Gone
<1>4. ASSUME NEW a \in Applications, \/ \E p \in Members, slug \in Slugs : InsertRequest(a, p, slug)
                                     \/ withdrawOrganizationRequest(a)
                                     \/ decideOrganizationRequest(a)
      PROVE  FreedInv'
  BY <1>2, <1>3, <1>4, RequestSteps
<1>5. ASSUME NEW o \in Orgs, NEW slug \in Slugs, createOrganization(o, slug) PROVE FreedInv'
  <2>1. UNCHANGED <<removals, job, outside, domains>>
    BY <1>5 DEF createOrganization, removing, hosting
  <2>2. createOrganizationWithClient(o, slug)
    BY <1>5 DEF createOrganization
  <2> QED BY <1>2, <2>1, <2>2, OrgMade
<1>6. ASSUME NEW x \in confirming, requestOrganizationDecommission(x) PROVE FreedInv'
  <2>1. PICK o \in Orgs : /\ orgs'[o].status = "decommissioning" /\ orgs'[o].released = orgs[o].released
                          /\ \A q \in Orgs \ {o} : orgs'[q] = orgs[q]
                          /\ \A r \in DOMAIN removals' \ DOMAIN removals : removals'[r].org = o /\ removals'[r].status = "quiescing"
    BY <1>6, RemovalBegins
  <2>2. /\ UNCHANGED <<job, outside, domains>> /\ DOMAIN removals \subseteq DOMAIN removals'
        /\ \A r \in DOMAIN removals : removals'[r] = removals[r]
    BY <1>6, RemovalBegins
  <2> QED BY <1>t, <1>j, <2>1, <2>2 DEF FreedInv, Gone
<1>7. CASE (DecommissionRoute \/ Confirmation) /\ ~\E x \in confirming : requestOrganizationDecommission(x)
  BY <1>3, <1>7, CodeSteps
<1>8. CASE Dies
  <2>1. UNCHANGED <<orgs, removals, outside, domains>> /\ (job' = job \/ job'.step = "idle")
    BY <1>8, DeathKeeps
  <2> QED BY <2>1 DEF FreedInv, Gone
<1> QED BY <1>1, <1>4, <1>5, <1>6, <1>7, <1>8, CommunityCases, JobFreed

LEMMA CommunitiesStart == CommunitiesInit => CommunityTypes /\ ApprovedInv /\ FreedInv
<1> SUFFICES ASSUME CommunitiesInit PROVE CommunityTypes /\ ApprovedInv /\ FreedInv
  OBVIOUS
<1>1. /\ NoOrg \in OrgRows /\ ~NoOrg.released /\ Unasked \in RequestRows /\ Unasked.org = "none" /\ Unasked.status = "none"
      /\ JobIdle \in JobRows /\ JobIdle.step = "idle"
  BY DEF NoOrg, OrgRows, Unasked, RequestRows, JobIdle, JobRows
<1>2. /\ orgs = [o \in Orgs |-> NoOrg] /\ asked = [a \in Applications |-> Unasked] /\ people = Members
      /\ codes = <<>> /\ confirming = {} /\ removals = <<>> /\ job = JobIdle /\ outside = {} /\ domains = {}
  BY DEF CommunitiesInit
<1>3. CommunityTypes
  BY <1>1, <1>2 DEF CommunityTypes
<1>4. ApprovedInv
  BY <1>1, <1>2, CommunitiesAssumption DEF ApprovedInv, CommunitiesAreApproved
<1>5. FreedInv
  BY <1>1, <1>2 DEF FreedInv
<1> QED BY <1>3, <1>4, <1>5

\* A community is there because its request was approved, and no two requests
\* share one, however withdrawals and reviews meet.
THEOREM ApprovedCorrect == CommunitiesSpec => []CommunitiesAreApproved
<1>1. ApprovedInv => CommunitiesAreApproved
  BY DEF ApprovedInv
<1> QED BY <1>1, CommunitiesStart, CommunityTypesStep, ApprovedStep, PTL DEF CommunitiesSpec

\* If no hostname is requested while a removal runs, an address is given to
\* others only when nothing outside points at the community, whatever refuses
\* or dies in between.
THEOREM AddressesCorrect == ~LateDomains => (CommunitiesSpec => []AddressesAreEarned)
<1> SUFFICES ASSUME ~LateDomains PROVE CommunitiesSpec => []AddressesAreEarned
  OBVIOUS
<1> DEFINE Inv == CommunityTypes /\ ApprovedInv /\ FreedInv
<1>1. CommunitiesInit => Inv
  BY CommunitiesStart
<1>2. Inv /\ [CommunitiesNext]_communityVars => Inv'
  BY CommunityTypesStep, ApprovedStep, FreedStep
<1>3. Inv => AddressesAreEarned
  BY DEF ApprovedInv, FreedInv, AddressesAreEarned, FreedWhenClean
<1> QED BY <1>1, <1>2, <1>3, PTL DEF CommunitiesSpec
================================================================================

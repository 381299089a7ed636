------------------------------ MODULE AccessProofs ------------------------------
(***************************************************************************)
(* What those who give access can rely on.  Guardians: what they ended     *)
(* stays ended, for any number of delegates, invitations and handlers      *)
(* between their check and their transaction.  Everybody who signs in: a   *)
(* code or a challenge begins one session at most, and what was withdrawn  *)
(* opens nothing, for any number of people, sessions and ceremonies.       *)
(***************************************************************************)
EXTENDS ChildAccess, SignIn, FiniteSetTheorems, TLAPS

-----------------------------------------------------------------------------
(* Invitations and grants.  Invitations are numbered in the order they are  *)
(* made and a cut remembers how many there were, so an invitation that may  *)
(* still be accepted was made since.                                        *)

MadeOnes == {i \in Invites : invite[i].status # "none"}
MadeInOrder == \A i \in Invites : invite[i].status # "none" <=> i <= Made
SinceCut == \A d \in Delegates : since[d] = {i \in 1..Made : i > grant[d].cut} /\ grant[d].cut <= Made

ChildInv ==
  /\ invite \in [Invites -> InviteRows] /\ grant \in [Delegates -> GrantRows]
  /\ checked \subseteq Calls /\ since \in [Delegates -> SUBSET Nat]
  /\ Made \in 0..MaxInvites /\ MadeInOrder /\ SinceCut

LEMMA MadeCount == \A n \in Nat : Cardinality(1..n) = n
BY FS_Interval

\* What leaves the made invitations made leaves their number.
LEMMA SameMade ==
  ASSUME \A i \in Invites : invite'[i].status = "none" <=> invite[i].status = "none"
  PROVE  Made' = Made
BY DEF Made

LEMMA OfferedTerms == Offered \subseteq Terms
BY TermsAssumption DEF Offered, Terms

LEMMA ChildInitOK == ChildInit => ChildInv
<1> SUFFICES ASSUME ChildInit PROVE ChildInv
  OBVIOUS
<1>1. PICK g \in Guardians :
        /\ invite = [i \in Invites |-> [status |-> "none", contact |-> "none", terms |-> CHOOSE t \in Offered : t.by = g]]
        /\ grant = [d \in Delegates |-> [status |-> "none", ended |-> FALSE, cut |-> 0,
                                         terms |-> CHOOSE t \in Offered : t.by = g]]
  BY DEF ChildInit
<1>2. (CHOOSE t \in Offered : t.by = g) \in Terms
  <2>1. \E t \in Offered : t.by = g
    <3>1. PICK u \in TermChoices : TRUE
      BY TermsAssumption
    <3>2. [by |-> g, scopes |-> u.scopes, cover |-> u.cover] \in Offered
      BY <3>1 DEF Offered
    <3> QED BY <3>2
  <2> QED BY <2>1, OfferedTerms
<1>3. invite \in [Invites -> InviteRows] /\ grant \in [Delegates -> GrantRows]
  <2> DEFINE t == CHOOSE t \in Offered : t.by = g
  <2>1. t \in Terms
    BY <1>2
  <2> HIDE DEF t
  <2>2. /\ [status |-> "none", contact |-> "none", terms |-> t] \in InviteRows
        /\ [status |-> "none", ended |-> FALSE, cut |-> 0, terms |-> t] \in GrantRows
    BY <2>1, LimitAssumption DEF InviteRows, GrantRows
  <2>3. /\ invite = [i \in Invites |-> [status |-> "none", contact |-> "none", terms |-> t]]
        /\ grant = [d \in Delegates |-> [status |-> "none", ended |-> FALSE, cut |-> 0, terms |-> t]]
    BY <1>1 DEF t
  <2> QED BY <2>2, <2>3
<1>4. Made = 0
  <2>1. {i \in Invites : invite[i].status # "none"} = {}
    BY <1>1
  <2> QED BY <2>1, FS_EmptySet DEF Made
<1>5. MadeInOrder /\ Made \in 0..MaxInvites
  BY <1>1, <1>4, LimitAssumption DEF MadeInOrder, Invites
<1>6. SinceCut /\ since \in [Delegates -> SUBSET Nat] /\ checked \subseteq Calls
  BY <1>1, <1>4 DEF ChildInit, SinceCut
<1> QED BY <1>3, <1>5, <1>6 DEF ChildInv

\* What a step may not do: change what was used or cancelled, or bring back
\* an access that was lost without a guardian.
Spent ==
  \A i \in Invites : invite[i].status \in {"accepted", "revoked"} => invite'[i].status = invite[i].status
Revived ==
  \A d \in Delegates : grant[d].status # "active" /\ grant'[d].status = "active" =>
    \/ grant[d].status = "paused" /\ invite' = invite
    \/ \E i \in since[d] : invite[i].status = "open" /\ invite'[i].status = "accepted"

\* Open invitations are cancelled, nothing else about them changes.
LEMMA CancelledOnes ==
  ASSUME ChildInv, NEW d \in Delegates
  PROVE  /\ cancelOpenInvitesForPerson(d) \in [Invites -> InviteRows]
         /\ \A i \in Invites : /\ cancelOpenInvitesForPerson(d)[i].status = "none" <=> invite[i].status = "none"
                               /\ invite[i].status # "open" => cancelOpenInvitesForPerson(d)[i].status = invite[i].status
BY DEF cancelOpenInvitesForPerson, ChildInv, InviteRows

\* A step that makes no invitation and moves no cut keeps the invariant.
LEMMA NothingMade ==
  ASSUME ChildInv, invite' \in [Invites -> InviteRows], grant' \in [Delegates -> GrantRows], checked' \subseteq Calls,
         \A i \in Invites : invite'[i].status = "none" <=> invite[i].status = "none",
         UNCHANGED since, \A d \in Delegates : grant'[d].cut = grant[d].cut
  PROVE  ChildInv'
BY SameMade DEF ChildInv, MadeInOrder, SinceCut

\* Access that ends now is cut after all invitations there are.
LEMMA CutNow ==
  ASSUME ChildInv, invite' \in [Invites -> InviteRows], grant' \in [Delegates -> GrantRows], checked' \subseteq Calls,
         \A i \in Invites : invite'[i].status = "none" <=> invite[i].status = "none",
         NEW d \in Delegates, since' = [since EXCEPT ![d] = {}], grant'[d].cut = Made,
         \A e \in Delegates \ {d} : grant'[e].cut = grant[e].cut
  PROVE  ChildInv'
<1>1. Made' = Made
  BY SameMade
<1>2. MadeInOrder' /\ Made' \in 0..MaxInvites
  BY <1>1 DEF ChildInv, MadeInOrder
<1>3. {i \in 1..Made : i > Made} = {}
  BY DEF ChildInv
<1>4. SinceCut' /\ since' \in [Delegates -> SUBSET Nat]
  BY <1>1, <1>3 DEF ChildInv, SinceCut
<1> QED BY <1>2, <1>4 DEF ChildInv

LEMMA CreateOK ==
  ASSUME ChildInv, NEW call \in checked, createDelegateInvitation(call)
  PROVE  ChildInv' /\ Spent /\ Revived
<1> DEFINE n == Made + 1
           contact == call.for.invite
<1>1. /\ n \in Invites /\ invite[n].status = "none" /\ n \in Nat /\ Made \in Nat /\ n = Made + 1
  BY LimitAssumption DEF ChildInv, createDelegateInvitation, MadeInOrder, Invites
<1> HIDE DEF n
<1>2. contact \in Contacts /\ call.terms \in Terms
  <2>1. call \in Calls /\ "invite" \in DOMAIN call.for
    BY DEF ChildInv, createDelegateInvitation
  <2>2. call.for \in [invite : Contacts] \cup [update : Delegates] /\ call.terms \in Offered
    BY <2>1 DEF Calls
  <2>3. call.for \in [invite : Contacts]
    BY <2>1, <2>2
  <2> QED BY <2>2, <2>3, OfferedTerms
<1>3. /\ invite' = [i \in Invites |->
           IF i = n THEN [status |-> "open", contact |-> contact, terms |-> call.terms]
           ELSE IF invite[i].status = "open" /\ invite[i].contact = contact
                THEN [invite[i] EXCEPT !.status = "revoked"] ELSE invite[i]]
      /\ since' = [d \in Delegates |-> since[d] \cup {n}]
      /\ checked' = checked \ {call} /\ UNCHANGED grant
  BY DEF createDelegateInvitation, n
<1> HIDE DEF contact
<1>4. invite'[n] = [status |-> "open", contact |-> contact, terms |-> call.terms] /\ invite'[n] \in InviteRows
  BY <1>1, <1>2, <1>3 DEF InviteRows
<1>5. \A i \in Invites \ {n} : /\ invite'[i] \in InviteRows /\ (invite'[i].status = "none" <=> invite[i].status = "none")
                               /\ invite[i].status # "open" => invite'[i] = invite[i]
  BY <1>3 DEF ChildInv, InviteRows
<1>6. \A i \in Invites : /\ invite'[i] \in InviteRows
                         /\ (invite'[i].status # "none") <=> (i = n \/ invite[i].status # "none")
  <2> TAKE i \in Invites
  <2>1. CASE i = n
    BY <1>4, <2>1
  <2>2. CASE i # n
    BY <1>5, <2>2
  <2> QED BY <2>1, <2>2
<1>7. n = Made + 1
  BY <1>1
<1>8. \A i \in Invites : invite'[i].status # "none" <=> i <= n
  <2> TAKE i \in Invites
  <2>1. i \in Int /\ (invite[i].status # "none" <=> i <= Made)
    BY LimitAssumption DEF ChildInv, MadeInOrder, Invites
  <2> QED BY <1>1, <1>6, <1>7, <2>1
<1>9. Made' = n
  <2>1. {i \in Invites : invite'[i].status # "none"} = 1..n
    BY <1>1, <1>8, LimitAssumption DEF Invites
  <2> QED BY <1>1, <2>1, MadeCount DEF Made
<1>11. MadeInOrder'
  BY <1>8, <1>9 DEF MadeInOrder
<1>12. SinceCut' /\ since' \in [Delegates -> SUBSET Nat]
  <2> SUFFICES ASSUME NEW d \in Delegates
               PROVE  since'[d] = {i \in 1..n : i > grant[d].cut} /\ grant[d].cut <= n
    BY <1>1, <1>3, <1>9 DEF SinceCut, ChildInv
  <2>1. since'[d] = {i \in 1..Made : i > grant[d].cut} \cup {n} /\ grant[d].cut <= Made
    BY <1>3 DEF ChildInv, SinceCut
  <2>2. grant[d].cut \in Nat
    BY LimitAssumption DEF ChildInv, GrantRows
  <2> QED BY <1>1, <1>7, <2>1, <2>2
<1>13. invite' \in [Invites -> InviteRows] /\ checked' \subseteq Calls /\ grant' \in [Delegates -> GrantRows]
  <2>1. invite' = [i \in Invites |-> invite'[i]]
    BY <1>3, Zenon
  <2> QED BY <1>3, <1>6, <2>1 DEF ChildInv
<1>10. Spent /\ Revived
  BY <1>1, <1>3, <1>5 DEF Spent, Revived
<1> QED BY <1>1, <1>9, <1>10, <1>11, <1>12, <1>13 DEF ChildInv, Invites

\* What a guardian does.
LEMMA GuardianOK ==
  ASSUME ChildInv,
         \/ \E call \in Calls : CheckTerms(call)
         \/ \E call \in checked : updateDelegate(call) \/ GiveUp(call)
         \/ \E g \in Guardians, i \in Invites : cancelDelegateInvitation(g, i)
         \/ \E g \in Guardians, d \in Delegates : \E to \in {"active", "paused", "revoked"} : setDelegateStatus(g, d, to)
  PROVE  ChildInv' /\ Spent /\ Revived
<1>1. ASSUME UNCHANGED <<invite, grant, since>>, checked' \subseteq Calls PROVE ChildInv' /\ Spent /\ Revived
  BY <1>1, NothingMade DEF ChildInv, Spent, Revived
<1>2. ASSUME NEW call \in Calls, CheckTerms(call) PROVE ChildInv' /\ Spent /\ Revived
  BY <1>1, <1>2 DEF CheckTerms, ChildInv
<1>3. ASSUME NEW call \in checked, GiveUp(call) PROVE ChildInv' /\ Spent /\ Revived
  BY <1>1, <1>3 DEF GiveUp, ChildInv
<1>4. ASSUME NEW call \in checked, updateDelegate(call) PROVE ChildInv' /\ Spent /\ Revived
  <2> DEFINE d == call.for.update
             terms == [call.terms EXCEPT !.by = grant[d].terms.by]
  <2>1. d \in Delegates /\ call.terms \in Terms
    <3>1. call \in Calls /\ "update" \in DOMAIN call.for
      BY <1>4 DEF ChildInv, updateDelegate
    <3>2. call.for \in [invite : Contacts] \cup [update : Delegates] /\ call.terms \in Offered
      BY <3>1 DEF Calls
    <3>3. call.for \in [update : Delegates]
      BY <3>1, <3>2
    <3> QED BY <3>2, <3>3, OfferedTerms
  <2>2. /\ grant' = [grant EXCEPT ![d] = [grant[d] EXCEPT !.ended = FALSE, !.terms = terms]]
        /\ checked' = checked \ {call} /\ UNCHANGED <<invite, since>>
    BY <1>4 DEF updateDelegate
  <2> HIDE DEF d
  <2>3. grant[d] \in GrantRows
    BY <2>1 DEF ChildInv
  <2>4. terms \in Terms
    BY <2>1, <2>3 DEF GrantRows, Terms
  <2> HIDE DEF terms
  <2>5. /\ [grant[d] EXCEPT !.ended = FALSE, !.terms = terms] \in GrantRows
        /\ [grant[d] EXCEPT !.ended = FALSE, !.terms = terms].cut = grant[d].cut
        /\ [grant[d] EXCEPT !.ended = FALSE, !.terms = terms].status = grant[d].status
    BY <2>3, <2>4 DEF GrantRows
  <2>6. grant' \in [Delegates -> GrantRows] /\ \A e \in Delegates : grant'[e].cut = grant[e].cut /\ grant'[e].status = grant[e].status
    BY <2>1, <2>2, <2>5 DEF ChildInv
  <2>7. ChildInv'
    BY <2>2, <2>6, NothingMade DEF ChildInv
  <2> QED BY <2>2, <2>6, <2>7 DEF Spent, Revived
<1>5. ASSUME NEW g \in Guardians, NEW i \in Invites, cancelDelegateInvitation(g, i) PROVE ChildInv' /\ Spent /\ Revived
  <2>1. /\ invite' = [invite EXCEPT ![i].status = "revoked"] /\ invite[i].status = "open" /\ invite[i] \in InviteRows
        /\ UNCHANGED <<grant, checked, since>>
    BY <1>5 DEF cancelDelegateInvitation, ChildInv
  <2>2. /\ invite' \in [Invites -> InviteRows] /\ invite'[i].status = "revoked"
        /\ \A j \in Invites \ {i} : invite'[j] = invite[j]
    BY <2>1 DEF InviteRows, ChildInv
  <2>3. ChildInv'
    BY <2>1, <2>2, NothingMade DEF ChildInv
  <2> QED BY <2>1, <2>2, <2>3 DEF Spent, Revived
<1>6. ASSUME NEW g \in Guardians, NEW d \in Delegates, NEW to \in {"active", "paused", "revoked"}, setDelegateStatus(g, d, to)
      PROVE  ChildInv' /\ Spent /\ Revived
  <2> DEFINE row == [grant[d] EXCEPT !.status = to, !.cut = IF to = "active" THEN grant[d].cut ELSE Made]
  <2>1. /\ grant' = [grant EXCEPT ![d] = row] /\ grant[d] \in GrantRows
        /\ grant[d].status \in {"active", "paused"} /\ UNCHANGED checked
    BY <1>6 DEF setDelegateStatus, ChildInv
  <2>2. row \in GrantRows /\ row.status = to /\ row.cut = IF to = "active" THEN grant[d].cut ELSE Made
    BY <2>1 DEF ChildInv, GrantRows
  <2> HIDE DEF row
  <2>3. /\ grant' \in [Delegates -> GrantRows] /\ grant'[d] = row
        /\ \A e \in Delegates \ {d} : grant'[e] = grant[e]
    BY <2>1, <2>2 DEF ChildInv
  <2>4. CASE to = "active"
    <3>1. UNCHANGED <<invite, since>>
      BY <1>6, <2>4 DEF setDelegateStatus
    <3>2. ChildInv'
      BY <2>1, <2>2, <2>3, <2>4, <3>1, NothingMade DEF ChildInv
    <3> QED BY <2>1, <2>3, <3>1, <3>2 DEF Spent, Revived
  <2>5. CASE to # "active"
    <3>1. invite' = cancelOpenInvitesForPerson(d) /\ since' = [since EXCEPT ![d] = {}]
      BY <1>6, <2>5 DEF setDelegateStatus
    <3>2. ChildInv'
      BY <2>1, <2>2, <2>3, <2>5, <3>1, CutNow, CancelledOnes DEF ChildInv
    <3> QED BY <2>2, <2>3, <2>5, <3>1, <3>2, CancelledOnes DEF Spent, Revived
  <2> QED BY <2>4, <2>5
<1> QED BY <1>2, <1>3, <1>4, <1>5, <1>6

\* What a delegate does.
LEMMA DelegateOK ==
  ASSUME ChildInv, NEW d \in Delegates,
         leaveDelegation(d) \/ CancelAfterLeaving(d) \/ \E i \in Invites : acceptDelegateInvitation(i, d)
  PROVE  ChildInv' /\ Spent /\ Revived
<1>1. CASE leaveDelegation(d)
  <2>1. /\ grant' = [grant EXCEPT ![d].status = "revoked", ![d].cut = Made] /\ grant[d] \in GrantRows
        /\ since' = [since EXCEPT ![d] = {}] /\ UNCHANGED <<invite, checked>>
    BY <1>1 DEF leaveDelegation, Left, ChildInv
  <2>2. grant' \in [Delegates -> GrantRows] /\ grant'[d].cut = Made /\ grant'[d].status = "revoked"
    BY <2>1 DEF ChildInv, GrantRows
  <2>3. \A e \in Delegates \ {d} : grant'[e] = grant[e]
    BY <2>1 DEF ChildInv
  <2>4. ChildInv'
    BY <2>1, <2>2, <2>3, CutNow DEF ChildInv
  <2> QED BY <2>1, <2>2, <2>3, <2>4 DEF Spent, Revived
<1>2. CASE CancelAfterLeaving(d)
  <2>1. invite' \in {invite, cancelOpenInvitesForPerson(d)} /\ UNCHANGED <<grant, checked, since>>
    BY <1>2 DEF CancelAfterLeaving
  <2>2. ChildInv'
    BY <2>1, CancelledOnes, NothingMade DEF ChildInv
  <2> QED BY <2>1, <2>2, CancelledOnes DEF Spent, Revived
<1>3. ASSUME NEW i \in Invites, acceptDelegateInvitation(i, d) PROVE ChildInv' /\ Spent /\ Revived
  <2> DEFINE terms == [invite[i].terms EXCEPT !.cover.named = @ \cap children]
             row == [invite[i] EXCEPT !.status = "accepted"]
  <2>1. /\ invite[i].status = "open" /\ grant[d].status # "paused" /\ ~(grant[d].cut >= i /\ grant[d].cut > 0)
        /\ grant' = [grant EXCEPT ![d] = [grant[d] EXCEPT !.status = "active", !.ended = FALSE, !.terms = terms]]
        /\ invite' = [cancelOpenInvitesForPerson(d) EXCEPT ![i] = row]
        /\ UNCHANGED <<checked, since>>
    BY <1>3 DEF acceptDelegateInvitation, delegateInviteAcceptBlock
  <2>2. invite[i] \in InviteRows /\ grant[d] \in GrantRows
    BY DEF ChildInv
  <2>3. terms \in Terms
    BY <2>2 DEF InviteRows, Terms, Cover
  <2>4. row \in InviteRows /\ row.status = "accepted"
    BY <2>2 DEF InviteRows
  <2> HIDE DEF terms, row
  <2>5. /\ [grant[d] EXCEPT !.status = "active", !.ended = FALSE, !.terms = terms] \in GrantRows
        /\ [grant[d] EXCEPT !.status = "active", !.ended = FALSE, !.terms = terms].cut = grant[d].cut
    BY <2>2, <2>3 DEF GrantRows
  <2>6. grant' \in [Delegates -> GrantRows] /\ \A e \in Delegates : grant'[e].cut = grant[e].cut
    BY <2>1, <2>5 DEF ChildInv
  <2>7. \A e \in Delegates \ {d} : grant'[e] = grant[e]
    BY <2>1 DEF ChildInv
  <2>8. /\ invite' \in [Invites -> InviteRows] /\ invite'[i].status = "accepted"
        /\ \A j \in Invites \ {i} : invite'[j] = cancelOpenInvitesForPerson(d)[j]
    BY <2>1, <2>4, CancelledOnes
  <2>9. ChildInv'
    BY <2>1, <2>6, <2>8, CancelledOnes, NothingMade DEF ChildInv
  <2>10. i \in since[d]
    <3>1. i \in 1..Made
      BY <2>1, LimitAssumption DEF ChildInv, MadeInOrder, Invites
    <3>2. grant[d].cut \in Nat
      BY <2>2, LimitAssumption DEF GrantRows
    <3> QED BY <2>1, <3>1, <3>2 DEF ChildInv, SinceCut
  <2> QED BY <2>1, <2>7, <2>8, <2>9, <2>10, CancelledOnes DEF Spent, Revived
<1> QED BY <1>1, <1>2, <1>3

\* Everything else changes neither invitations nor what a grant says of them.
LEMMA RestOK ==
  ASSUME ChildInv,
         \/ \E g \in Guardians : addHouseholdMember(g)
         \/ \E g \in Guardians, c \in Children :
              addStudentToHousehold(g, c) \/ addGuardian(g, c) \/ updateManagedStudentRights(g, c)
         \/ \E k \in Contacts : VerifyContact(k)
         \/ SwitchDelegates \/ PassTime
  PROVE  ChildInv' /\ Spent /\ Revived
<1>1. ASSUME UNCHANGED <<invite, checked, since>>, grant' \in [Delegates -> GrantRows],
             \A d \in Delegates : grant'[d].cut = grant[d].cut /\ grant'[d].status = grant[d].status
      PROVE  ChildInv' /\ Spent /\ Revived
  BY <1>1, NothingMade DEF ChildInv, Spent, Revived
<1>2. CASE PassTime
  <2>1. UNCHANGED <<invite, checked, since>>
    BY <1>2 DEF PassTime
  <2>2. CASE UNCHANGED grant
    BY <1>1, <2>1, <2>2 DEF ChildInv
  <2>3. ASSUME NEW d \in Delegates, grant' = [grant EXCEPT ![d].ended = TRUE] PROVE ChildInv' /\ Spent /\ Revived
    <3>1. grant[d] \in GrantRows
      BY DEF ChildInv
    <3>2. /\ grant' \in [Delegates -> GrantRows]
          /\ \A e \in Delegates : grant'[e].cut = grant[e].cut /\ grant'[e].status = grant[e].status
      BY <2>3, <3>1 DEF ChildInv, GrantRows
    <3> QED BY <1>1, <2>1, <3>2
  <2> QED BY <1>2, <2>2, <2>3 DEF PassTime
<1>3. CASE UNCHANGED <<invite, checked, since, grant>>
  BY <1>1, <1>3 DEF ChildInv
<1> QED BY <1>2, <1>3 DEF addHouseholdMember, addStudentToHousehold, addGuardian, updateManagedStudentRights, VerifyContact,
                         SwitchDelegates

\* What a guardian has ended stays ended: an access that was lost comes back
\* only by a guardian who resumes it or by an invitation made since, and an
\* invitation that was used or cancelled stays so, whoever acts at that time.
THEOREM ConsentCorrect == ChildSpec => ConsentIsFinal
<1>1. ChildInit => ChildInv
  BY ChildInitOK
<1>2. ChildInv /\ [ChildNext]_childVars => ChildInv' /\ ((Spent /\ Revived) \/ UNCHANGED childVars)
  <2> SUFFICES ASSUME ChildInv, [ChildNext]_childVars
               PROVE  ChildInv' /\ ((Spent /\ Revived) \/ UNCHANGED childVars)
    OBVIOUS
  <2>1. CASE UNCHANGED childVars
    BY <2>1, NothingMade DEF childVars, ChildInv
  <2> QED BY <2>1, CreateOK, GuardianOK, DelegateOK, RestOK DEF ChildNext
<1> QED BY <1>1, <1>2, PTL DEF ChildSpec, ConsentIsFinal, RevivedByConsent, InvitationIsSpent, Spent, Revived

-----------------------------------------------------------------------------
(* Sessions and passkeys.  Rows are only ever appended, so a number keeps   *)
(* its meaning.                                                             *)

RowsTo(rows, n) == DOMAIN rows = 1..n
SessionsShaped ==
  /\ \E n \in 0..MaxSessions : RowsTo(sessions, n)
  /\ \A s \in DOMAIN sessions : DOMAIN sessions[s] = {"person", "by", "state"}
AccessShaped ==
  /\ access \in [set : BOOLEAN, enabled : BOOLEAN, login : Emails \cup {Nobody}]
  /\ ~access.set => ~access.enabled /\ access.login = Nobody

LEMMA Appended ==
  ASSUME NEW rows, NEW row, NEW n \in Nat, RowsTo(rows, n)
  PROVE  /\ Size(rows) = n /\ RowsTo(Append1(rows, row), n + 1)
         /\ Append1(rows, row)[n + 1] = row
         /\ \A i \in 1..n : Append1(rows, row)[i] = rows[i]
<1>1. Size(rows) = n
  BY MadeCount DEF RowsTo, Size
<1> QED BY <1>1 DEF RowsTo, Append1

\* A session begins after all there are.
LEMMA CreateSession ==
  ASSUME SessionsShaped, NEW p, NEW by, createSession(p, by)
  PROVE  /\ SessionsShaped' /\ DOMAIN sessions \subseteq DOMAIN sessions'
         /\ \A s \in DOMAIN sessions : sessions'[s] = sessions[s]
         /\ \A s \in DOMAIN sessions' \ DOMAIN sessions : sessions'[s] = [person |-> p, by |-> by, state |-> "fresh"]
<1> DEFINE row == [person |-> p, by |-> by, state |-> "fresh"]
<1>1. PICK n \in 0..MaxSessions : RowsTo(sessions, n)
  BY DEF SessionsShaped
<1>2. n \in Nat /\ sessions' = Append1(sessions, row) /\ Size(sessions) < MaxSessions
  BY <1>1, SignInBoundsAssumption DEF createSession
<1>3. DOMAIN row = {"person", "by", "state"}
  OBVIOUS
<1> HIDE DEF row
<1>4. /\ Size(sessions) = n /\ RowsTo(sessions', n + 1) /\ sessions'[n + 1] = row
      /\ \A i \in 1..n : sessions'[i] = sessions[i]
  BY <1>1, <1>2, Appended
<1>5. DOMAIN sessions = 1..n /\ DOMAIN sessions' = 1..(n + 1) /\ n + 1 \in 0..MaxSessions
  BY <1>1, <1>2, <1>4, SignInBoundsAssumption DEF RowsTo
<1>6. \A s \in DOMAIN sessions' \ DOMAIN sessions : s = n + 1
  BY <1>2, <1>5
<1>7. SessionsShaped'
  BY <1>3, <1>4, <1>5, <1>6 DEF SessionsShaped, RowsTo
<1> QED BY <1>2, <1>4, <1>5, <1>6, <1>7 DEF row

\* Sessions whose state changes are the same sessions.
LEMMA StateChanged ==
  ASSUME SessionsShaped, DOMAIN sessions' = DOMAIN sessions,
         \A s \in DOMAIN sessions : sessions'[s] = sessions[s] \/ \E st : sessions'[s] = [sessions[s] EXCEPT !.state = st]
  PROVE  /\ SessionsShaped'
         /\ \A s \in DOMAIN sessions : sessions'[s].person = sessions[s].person /\ sessions'[s].by = sessions[s].by
BY DEF SessionsShaped, RowsTo

LEMMA Revocation ==
  ASSUME SessionsShaped
  PROVE  /\ DOMAIN RevokedSessions = DOMAIN sessions
         /\ \A s \in DOMAIN sessions :
              /\ RevokedSessions[s] = sessions[s] \/ RevokedSessions[s] = [sessions[s] EXCEPT !.state = "revoked"]
              /\ s \in StudentSessions \/ sessions[s].state = "revoked" => RevokedSessions[s].state = "revoked"
BY DEF SessionsShaped, RevokedSessions, StudentSessions

WithdrawalInv ==
  /\ SessionsShaped /\ AccessShaped /\ cut \subseteq DOMAIN sessions
  /\ WithdrawalEndsSessions /\ PasskeyFollowsLogin

LEMMA WithdrawalInitOK == SignInInit => WithdrawalInv
<1> SUFFICES ASSUME SignInInit PROVE WithdrawalInv
  OBVIOUS
<1>1. DOMAIN sessions = 1..0 /\ cut = {}
  BY DEF SignInInit
<1>2. SessionsShaped
  BY <1>1, SignInBoundsAssumption DEF SessionsShaped, RowsTo
<1>3. AccessShaped /\ PasskeyFollowsLogin
  <2>1. CASE access = NoAccess /\ passkeys = {}
    <3>1. access = [set |-> FALSE, enabled |-> FALSE, login |-> Nobody]
      BY <2>1 DEF NoAccess
    <3>2. PasskeyFollowsLogin
      BY <2>1 DEF PasskeyFollowsLogin
    <3>3. AccessShaped
      BY <3>1 DEF AccessShaped
    <3> QED BY <3>2, <3>3
  <2>2. ASSUME NEW k \in Emails, access = [set |-> TRUE, enabled |-> TRUE, login |-> k],
               passkeys = {[id |-> 0, person |-> Student, login |-> k]}
        PROVE  AccessShaped /\ PasskeyFollowsLogin
    <3>1. AccessShaped
      BY <2>2 DEF AccessShaped
    <3>2. PasskeyFollowsLogin
      BY <2>2 DEF PasskeyFollowsLogin
    <3> QED BY <3>1, <3>2
  <2> QED BY <2>1, <2>2 DEF SignInInit
<1> QED BY <1>1, <1>2, <1>3 DEF WithdrawalInv, WithdrawalEndsSessions

NoNewSession == DOMAIN sessions' \subseteq DOMAIN sessions

\* Sessions, access and passkeys stay as they are, or passkeys are removed.
LEMMA NothingOpened ==
  ASSUME WithdrawalInv, UNCHANGED <<sessions, access, cut>>, passkeys' \subseteq passkeys
  PROVE  WithdrawalInv' /\ PasskeySignsInNow
BY DEF WithdrawalInv, SessionsShaped, RowsTo, AccessShaped, WithdrawalEndsSessions, PasskeyFollowsLogin, PasskeySignsInNow

\* Codes, and sessions that end.
LEMMA OtpWithdrawal ==
  ASSUME WithdrawalInv, OtpRoute \/ SessionRoute \/ \E s \in DOMAIN sessions : SessionAges(s)
  PROVE  WithdrawalInv' /\ PasskeySignsInNow
<1>1. ASSUME NEW k \in Emails, NEW signup \in BOOLEAN, requestOtp(k, signup) PROVE WithdrawalInv' /\ PasskeySignsInNow
  BY <1>1, NothingOpened DEF requestOtp, family
<1>2. ASSUME NEW i \in DOMAIN codes, DeliveryFails(i) \/ WrongCode(i) PROVE WithdrawalInv' /\ PasskeySignsInNow
  BY <1>2, NothingOpened DEF DeliveryFails, WrongCode, family
<1>3. ASSUME NEW i \in DOMAIN codes, verifyOtp(i) PROVE WithdrawalInv' /\ PasskeySignsInNow
  <2>1. PICK p : createSession(p, [code |-> i])
    BY <1>3 DEF verifyOtp
  <2>2. UNCHANGED <<access, cut, passkeys>>
    BY <1>3 DEF verifyOtp
  <2>3. "challenge" \notin DOMAIN [code |-> i]
    OBVIOUS
  <2>4. SessionsShaped' /\ cut' \subseteq DOMAIN sessions' /\ WithdrawalEndsSessions'
    BY <2>1, <2>2, CreateSession DEF WithdrawalInv, WithdrawalEndsSessions
  <2>5. AccessShaped' /\ PasskeyFollowsLogin'
    BY <2>2 DEF WithdrawalInv, AccessShaped, PasskeyFollowsLogin
  <2>6. PasskeySignsInNow
    BY <2>1, <2>3, CreateSession DEF WithdrawalInv, PasskeySignsInNow
  <2> QED BY <2>4, <2>5, <2>6 DEF WithdrawalInv
<1>4. ASSUME NEW s \in DOMAIN sessions, revokeSessionByToken(s) \/ SessionAges(s) PROVE WithdrawalInv' /\ PasskeySignsInNow
  <2>1. /\ UNCHANGED <<access, cut, passkeys>> /\ DOMAIN sessions' = DOMAIN sessions
        /\ \A t \in DOMAIN sessions \ {s} : sessions'[t] = sessions[t]
        /\ \E st : sessions'[s] = [sessions[s] EXCEPT !.state = st]
        /\ sessions[s].state = "revoked" => sessions'[s] = sessions[s]
    <3>1. CASE revokeSessionByToken(s)
      BY <1>4, <3>1 DEF revokeSessionByToken, family
    <3>2. CASE SessionAges(s)
      BY <1>4, <3>2 DEF SessionAges, family
    <3> QED BY <1>4, <3>1, <3>2
  <2>2. SessionsShaped'
    BY <2>1, StateChanged DEF WithdrawalInv
  <2>3. WithdrawalEndsSessions' /\ cut' \subseteq DOMAIN sessions' /\ AccessShaped' /\ PasskeyFollowsLogin'
    BY <2>1 DEF WithdrawalInv, WithdrawalEndsSessions, AccessShaped, PasskeyFollowsLogin
  <2> QED BY <2>1, <2>2, <2>3 DEF WithdrawalInv, PasskeySignsInNow
<1> QED BY <1>1, <1>2, <1>3, <1>4 DEF OtpRoute, SessionRoute

\* Passkeys are added and used.
LEMMA PasskeyWithdrawal ==
  ASSUME WithdrawalInv, PasskeyRoute \/ PasskeysRoute
  PROVE  WithdrawalInv' /\ PasskeySignsInNow
<1>1. ASSUME startPasskeySignIn \/ \E n \in Challenges, k \in passkeys : SignInVerified(n, k)
      PROVE  WithdrawalInv' /\ PasskeySignsInNow
  BY <1>1, NothingOpened DEF startPasskeySignIn, SignInVerified, family
<1>2. ASSUME NEW s \in DOMAIN sessions,
             startPasskeyRegistration(s) \/ RegistrationVerified(s) \/ \E k \in passkeys : removePasskey(s, k)
      PROVE  WithdrawalInv' /\ PasskeySignsInNow
  BY <1>2, NothingOpened DEF startPasskeyRegistration, RegistrationVerified, removePasskey, family
<1>3. ASSUME NEW call \in calls, finishPasskeySignIn(call) PROVE WithdrawalInv' /\ PasskeySignsInNow
  <2>1. UNCHANGED <<access, cut, passkeys>>
    BY <1>3 DEF finishPasskeySignIn, family
  <2>2. CASE UNCHANGED sessions
    BY <2>1, <2>2, NothingOpened
  <2>3. CASE /\ StillThere(call.key) /\ findSignInEligibleAccount(call.key.person, call.key.login)
             /\ createSession(call.key.person, [challenge |-> call.use])
    <3>1. SessionsShaped' /\ cut' \subseteq DOMAIN sessions' /\ WithdrawalEndsSessions'
      BY <2>1, <2>3, CreateSession DEF WithdrawalInv, WithdrawalEndsSessions
    <3>2. AccessShaped' /\ PasskeyFollowsLogin'
      BY <2>1 DEF WithdrawalInv, AccessShaped, PasskeyFollowsLogin
    <3>3. \A s \in DOMAIN sessions' \ DOMAIN sessions : sessions'[s].person = call.key.person
      BY <2>3, CreateSession DEF WithdrawalInv
    <3>4. PasskeySignsInNow
      BY <2>3, <3>3 DEF StillThere, PasskeySignsInNow
    <3> QED BY <3>1, <3>2, <3>4 DEF WithdrawalInv
  <2> QED BY <1>3, <2>2, <2>3 DEF finishPasskeySignIn
<1>4. ASSUME NEW call \in calls, finishPasskeyRegistration(call) PROVE WithdrawalInv' /\ PasskeySignsInNow
  <2> DEFINE key == [id |-> call.add, person |-> call.person, login |-> managedStudentLoginEmailId(call)]
  <2>1. UNCHANGED <<access, cut, sessions>>
    BY <1>4 DEF finishPasskeyRegistration, family
  <2>2. passkeys' = passkeys \/ (passkeys' = passkeys \cup {key} /\ ~(call.person = Student /\ access.set /\ ~access.enabled))
    BY <1>4 DEF finishPasskeyRegistration
  <2>3. key.person = call.person /\ key.login = managedStudentLoginEmailId(call)
    OBVIOUS
  <2> HIDE DEF key
  <2>4. PasskeyFollowsLogin'
    BY <2>1, <2>2, <2>3 DEF PasskeyFollowsLogin, managedStudentLoginEmailId, AccessShaped, WithdrawalInv
  <2> QED BY <2>1, <2>4 DEF WithdrawalInv, SessionsShaped, RowsTo, AccessShaped, WithdrawalEndsSessions, PasskeySignsInNow
<1> QED BY <1>1, <1>2, <1>3, <1>4 DEF PasskeyRoute, PasskeysRoute

\* The guardians.
LEMMA GuardiansWithdraw ==
  ASSUME WithdrawalInv, OnboardingRoute
  PROVE  WithdrawalInv' /\ PasskeySignsInNow
<1>1. ASSUME (sessions' = sessions /\ cut' = cut) \/ (sessions' = RevokedSessions /\ cut' = StudentSessions)
      PROVE  SessionsShaped' /\ cut' \subseteq DOMAIN sessions' /\ WithdrawalEndsSessions' /\ PasskeySignsInNow
  <2>1. CASE sessions' = sessions /\ cut' = cut
    BY <2>1 DEF WithdrawalInv, SessionsShaped, RowsTo, WithdrawalEndsSessions, PasskeySignsInNow
  <2>2. CASE sessions' = RevokedSessions /\ cut' = StudentSessions
    <3>1. DOMAIN sessions' = DOMAIN sessions /\ \A s \in StudentSessions : sessions'[s].state = "revoked"
      BY <2>2, Revocation DEF WithdrawalInv, StudentSessions
    <3>2. SessionsShaped'
      BY <2>2, Revocation, StateChanged DEF WithdrawalInv
    <3> QED BY <2>2, <3>1, <3>2 DEF WithdrawalEndsSessions, PasskeySignsInNow, StudentSessions
  <2> QED BY <1>1, <2>1, <2>2
<1>2. ASSUME NEW k \in Emails, NEW enabled \in BOOLEAN, setManagedStudentAccountAccess(k, enabled)
      PROVE  WithdrawalInv' /\ PasskeySignsInNow
  <2>1. /\ access' = [set |-> TRUE, enabled |-> enabled, login |-> k]
        /\ passkeys' = {key \in passkeys : key.person # Student \/ (enabled /\ key.login = k)}
    BY <1>2 DEF setManagedStudentAccountAccess
  <2>4. (sessions' = sessions /\ cut' = cut) \/ (sessions' = RevokedSessions /\ cut' = StudentSessions)
    <3>1. CASE enabled
      BY <1>2, <3>1 DEF setManagedStudentAccountAccess
    <3>2. CASE ~enabled
      BY <1>2, <3>2 DEF setManagedStudentAccountAccess
    <3> QED BY <3>1, <3>2
  <2>2. AccessShaped'
    BY <2>1 DEF AccessShaped
  <2>3. PasskeyFollowsLogin'
    BY <2>1 DEF WithdrawalInv, PasskeyFollowsLogin
  <2> QED BY <1>1, <2>2, <2>3, <2>4 DEF WithdrawalInv
<1>3. ASSUME NEW g \in StudentGuardians, NEW granted \in BOOLEAN, updateManagedStudentSettings(g, granted)
      PROVE  WithdrawalInv' /\ PasskeySignsInNow
  <2> DEFINE over == ~granted /\ consent' = {}
  <2>1. /\ access' = access
        /\ sessions' = IF over THEN RevokedSessions ELSE sessions
        /\ cut' = IF over THEN StudentSessions ELSE cut
        /\ passkeys' = IF over THEN {key \in passkeys : key.person # Student} ELSE passkeys
    BY <1>3, Zenon DEF updateManagedStudentSettings
  <2> HIDE DEF over
  <2>2. passkeys' \subseteq passkeys
    BY <2>1
  <2>3. (sessions' = sessions /\ cut' = cut) \/ (sessions' = RevokedSessions /\ cut' = StudentSessions)
    BY <2>1
  <2>4. AccessShaped' /\ PasskeyFollowsLogin'
    BY <2>1, <2>2 DEF WithdrawalInv, AccessShaped, PasskeyFollowsLogin
  <2> QED BY <1>1, <2>3, <2>4 DEF WithdrawalInv
<1> QED BY <1>2, <1>3 DEF OnboardingRoute

\* What was withdrawn opens nothing: a session begun before is over for good, a
\* passkey of the student has the login that is switched on now, and a passkey
\* signs in only while it is there, for any number of people and ceremonies.
THEOREM WithdrawalCorrect == SignInSpec => WithdrawalIsEffective
<1>1. SignInInit => WithdrawalInv
  BY WithdrawalInitOK
<1>2. WithdrawalInv /\ [SignInNext]_signInVars => WithdrawalInv' /\ (PasskeySignsInNow \/ UNCHANGED signInVars)
  <2> SUFFICES ASSUME WithdrawalInv, [SignInNext]_signInVars
               PROVE  WithdrawalInv' /\ PasskeySignsInNow
    OBVIOUS
  <2>1. CASE UNCHANGED signInVars
    BY <2>1, NothingOpened DEF signInVars
  <2>2. CASE (\E p \in People : DeletionRuns(p)) \/ CodesAge
    BY <2>2, NothingOpened DEF DeletionRuns, CodesAge, family
  <2> QED BY <2>1, <2>2, OtpWithdrawal, PasskeyWithdrawal, GuardiansWithdraw DEF SignInNext
<1>3. WithdrawalInv' => WithdrawalEndsSessions' /\ PasskeyFollowsLogin'
  BY DEF WithdrawalInv
<1> QED BY <1>1, <1>2, <1>3, PTL DEF SignInSpec, WithdrawalIsEffective

-----------------------------------------------------------------------------
(* A code or a challenge is used once.  A challenge is in one store or in   *)
(* one call or nowhere any more; where only a reply may be lost it is in    *)
(* both stores, and the theorem below leaves that fault out.                *)

Uses(call) == "use" \in DOMAIN call
InStore(n) == \E f \in Flows : redis[f] = n \/ pg[f] = n
InHand(n) == \E call \in calls : Uses(call) /\ call.use = n
Held(n) == InStore(n) \/ InHand(n)

OnePlaceEach ==
  /\ \A f, g \in Flows : /\ redis[f] # 0 /\ redis[f] = redis[g] => f = g
                         /\ pg[f] # 0 /\ pg[f] = pg[g] => f = g
                         /\ redis[f] # 0 => redis[f] # pg[g]
  /\ \A call \in calls : Uses(call) => call.use \in 1..issued /\ ~InStore(call.use)
  /\ \A call, other \in calls : Uses(call) /\ Uses(other) /\ call.use = other.use => call = other

Stores ==
  /\ issued \in 0..MaxChallenges
  /\ redis \in [Flows -> 0..issued] /\ pg \in [Flows -> 0..issued]
  /\ OnePlaceEach

CodesShaped ==
  /\ \E n \in 0..MaxCodes : RowsTo(codes, n)
  /\ \A i \in DOMAIN codes : DOMAIN codes[i] = {"contact", "purpose", "person", "attempts", "spent"}

ByCode(s) == \E i \in DOMAIN codes : codes[i].spent /\ sessions[s].by = [code |-> i]
ByChallenge(s) == \E n \in 1..issued : ~Held(n) /\ sessions[s].by = [challenge |-> n]
EachIsSpent == \A s \in DOMAIN sessions : ByCode(s) \/ ByChallenge(s)

SessionsInv == SessionsShaped /\ CodesShaped /\ Stores /\ EachIsSpent /\ OneSessionEach

LEMMA SessionsInit == SignInInit => SessionsInv
<1> SUFFICES ASSUME SignInInit PROVE SessionsInv
  OBVIOUS
<1>1. DOMAIN sessions = 1..0 /\ DOMAIN codes = 1..0 /\ calls = {} /\ issued = 0
  BY DEF SignInInit
<1>2. SessionsShaped /\ CodesShaped /\ EachIsSpent /\ OneSessionEach
  BY <1>1, SignInBoundsAssumption DEF SessionsShaped, CodesShaped, RowsTo, EachIsSpent, OneSessionEach
<1>3. redis = [f \in Flows |-> 0] /\ pg = [f \in Flows |-> 0]
  BY DEF SignInInit
<1>4. Stores
  BY <1>1, <1>3, SignInBoundsAssumption DEF Stores, OnePlaceEach
<1> QED BY <1>2, <1>4 DEF SessionsInv

\* A challenge begins in one place.
LEMMA Put ==
  ASSUME Stores, "lost_reply" \notin RedisFaults, NEW f \in Flows, PutChallenge(f), UNCHANGED calls
  PROVE  Stores' /\ issued' = issued + 1 /\ \A n \in 1..issued : Held(n)' => Held(n)
<1>1. PICK fault \in RedisFaults :
        /\ redis' = IF fault = "refused" THEN redis ELSE [redis EXCEPT ![f] = issued']
        /\ pg' = IF fault = "none" THEN pg ELSE [pg EXCEPT ![f] = issued']
  BY DEF PutChallenge
<1>2. issued' = issued + 1 /\ issued \in Nat /\ issued' \in 0..MaxChallenges
  BY SignInBoundsAssumption DEF PutChallenge, Stores
<1>3. \/ redis' = [redis EXCEPT ![f] = issued'] /\ pg' = pg
      \/ redis' = redis /\ pg' = [pg EXCEPT ![f] = issued']
  BY <1>1, FaultsAssumption
<1>4. redis' \in [Flows -> 0..issued'] /\ pg' \in [Flows -> 0..issued']
  BY <1>2, <1>3 DEF Stores
<1>5. \A g \in Flows : redis[g] \in 0..issued /\ pg[g] \in 0..issued
  BY DEF Stores
<1>6. OnePlaceEach'
  BY <1>2, <1>3, <1>5 DEF Stores, OnePlaceEach, InStore, Uses
<1>7. \A n \in 1..issued : Held(n)' => Held(n)
  BY <1>2, <1>3, <1>5 DEF Stores, Held, InStore, InHand, Uses
<1> QED BY <1>2, <1>4, <1>6, <1>7 DEF Stores

\* What was consumed is in no store any more.
LEMMA Taken ==
  ASSUME Stores, NEW f \in Flows, NEW fault \in RedisFaults, NEW got, got = Consumed(f, fault).got, got # 0,
         redis' = Consumed(f, fault).redis, pg' = Consumed(f, fault).pg
  PROVE  /\ got \in 1..issued /\ InStore(got)
         /\ redis' \in [Flows -> 0..issued] /\ pg' \in [Flows -> 0..issued]
         /\ \A g \in Flows : redis'[g] \in {redis[g], 0} \ {got} /\ pg'[g] \in {pg[g], 0} \ {got}
<1>1. issued \in Nat /\ \A g \in Flows : redis[g] \in 0..issued /\ pg[g] \in 0..issued
  BY SignInBoundsAssumption DEF Stores
<1>2. ASSUME NEW r1, NEW r2, r1 \in {redis, [redis EXCEPT ![f] = 0]}, r2 \in {pg, [pg EXCEPT ![f] = 0]}
      PROVE  /\ r1 \in [Flows -> 0..issued] /\ r2 \in [Flows -> 0..issued]
             /\ \A g \in Flows : r1[g] \in {redis[g], 0} /\ r2[g] \in {pg[g], 0}
  BY <1>1, <1>2 DEF Stores
<1>3. CASE fault = "none" /\ redis[f] # 0
  <2>1. Consumed(f, fault) = [got |-> redis[f], redis |-> [redis EXCEPT ![f] = 0], pg |-> pg]
    BY <1>3 DEF Consumed
  <2>2. got = redis[f] /\ redis' = [redis EXCEPT ![f] = 0] /\ pg' = pg
    BY <2>1
  <2>3. got \in 1..issued /\ InStore(got)
    BY <1>1, <2>2 DEF InStore
  <2>4. \A g \in Flows : redis'[g] # got /\ pg'[g] # got
    BY <2>2 DEF Stores, OnePlaceEach
  <2> QED BY <1>2, <2>2, <2>3, <2>4
<1>4. CASE ~(fault = "none" /\ redis[f] # 0)
  <2> DEFINE left == IF fault = "refused" THEN redis ELSE [redis EXCEPT ![f] = 0]
  <2>1. Consumed(f, fault) = [got |-> pg[f], pg |-> [pg EXCEPT ![f] = 0], redis |-> left]
    BY <1>4 DEF Consumed
  <2>2. got = pg[f] /\ pg' = [pg EXCEPT ![f] = 0] /\ redis' = left
    BY <2>1
  <2>3. got \in 1..issued /\ InStore(got)
    BY <1>1, <2>2 DEF InStore
  <2>4. redis' \in {redis, [redis EXCEPT ![f] = 0]}
    BY <2>2
  <2>5. \A g \in Flows : redis'[g] # got /\ pg'[g] # got
    BY <2>2, <2>4 DEF Stores, OnePlaceEach
  <2> QED BY <1>2, <2>2, <2>3, <2>4, <2>5
<1> QED BY <1>3, <1>4

LEMMA Consume ==
  ASSUME Stores, NEW f \in Flows, NEW next, UNCHANGED issued, ConsumeChallenge(f, next),
         \A n \in Challenges : ~Uses(next[n]) \/ next[n].use = n
  PROVE  Stores' /\ \A n \in 1..issued : Held(n)' => Held(n)
<1>1. PICK fault \in RedisFaults :
        /\ redis' = Consumed(f, fault).redis /\ pg' = Consumed(f, fault).pg /\ Consumed(f, fault).got # 0
        /\ calls' = calls \cup {next[Consumed(f, fault).got]}
  BY DEF ConsumeChallenge
<1>2. PICK got : got = Consumed(f, fault).got
  OBVIOUS
<1>3. /\ got \in 1..issued /\ InStore(got)
      /\ redis' \in [Flows -> 0..issued] /\ pg' \in [Flows -> 0..issued]
      /\ \A g \in Flows : redis'[g] \in {redis[g], 0} \ {got} /\ pg'[g] \in {pg[g], 0} \ {got}
  BY <1>1, <1>2, Taken
<1>4. calls' = calls \cup {next[got]}
  BY <1>1, <1>2
<1>5. ~Uses(next[got]) \/ next[got].use = got
  BY <1>3, SignInBoundsAssumption DEF Challenges, Stores
<1>6. ~InStore(got)' /\ \A n \in 1..issued : InStore(n)' => InStore(n)
  BY <1>3, SignInBoundsAssumption DEF InStore, Stores
<1>7. \A call \in calls : Uses(call) => call.use # got /\ ~InStore(call.use)'
  BY <1>3, <1>6 DEF Stores, OnePlaceEach
<1>8. OnePlaceEach'
  <2>1. \A a, b \in Flows : /\ redis'[a] # 0 /\ redis'[a] = redis'[b] => a = b
                            /\ pg'[a] # 0 /\ pg'[a] = pg'[b] => a = b
                            /\ redis'[a] # 0 => redis'[a] # pg'[b]
    BY <1>3 DEF Stores, OnePlaceEach
  <2>2. ASSUME NEW call \in calls', Uses(call)
        PROVE  call.use \in 1..issued' /\ ~InStore(call.use)'
    <3>1. CASE call \in calls
      BY <1>7, <2>2, <3>1 DEF Stores, OnePlaceEach
    <3>2. CASE call = next[got]
      <4>1. call.use = got
        BY <1>5, <2>2, <3>2
      <4> QED BY <1>3, <1>6, <4>1
    <3> QED BY <1>4, <3>1, <3>2
  <2>3. \A call, other \in calls' : Uses(call) /\ Uses(other) /\ call.use = other.use => call = other
    BY <1>4, <1>5, <1>7 DEF Stores, OnePlaceEach
  <2> QED BY <2>1, <2>2, <2>3 DEF OnePlaceEach, Uses
<1>9. \A n \in 1..issued : Held(n)' => Held(n)
  BY <1>3, <1>4, <1>5, <1>6 DEF Held, InHand, Uses
<1> QED BY <1>3, <1>8, <1>9 DEF Stores

\* Calls end.
LEMMA CallEnds ==
  ASSUME Stores, UNCHANGED <<issued, redis, pg>>, calls' \subseteq calls
  PROVE  Stores' /\ \A n \in 1..issued : Held(n)' => Held(n)
BY DEF Stores, OnePlaceEach, InStore, InHand, Held, Uses

\* The codes there were are still there, and those that were spent are spent.
CodesLast ==
  /\ CodesShaped' /\ DOMAIN codes \subseteq DOMAIN codes'
  /\ \A i \in DOMAIN codes : /\ codes[i].spent => codes'[i].spent
                            /\ codes'[i].contact = codes[i].contact
StoresLast == Stores' /\ issued' \in Nat /\ issued <= issued' /\ \A n \in 1..issued : Held(n)' => Held(n)
SessionsLast ==
  /\ SessionsShaped' /\ DOMAIN sessions' = DOMAIN sessions
  /\ \A s \in DOMAIN sessions : sessions'[s].by = sessions[s].by

LEMMA StillSpent ==
  ASSUME SessionsInv, CodesLast, StoresLast, NEW s \in DOMAIN sessions, sessions'[s].by = sessions[s].by
  PROVE  ByCode(s)' \/ ByChallenge(s)'
<1>1. CASE ByCode(s)
  BY <1>1 DEF ByCode, CodesLast
<1>2. CASE ByChallenge(s)
  <2>1. PICK n \in 1..issued : ~Held(n) /\ sessions[s].by = [challenge |-> n]
    BY <1>2 DEF ByChallenge
  <2>2. n \in 1..issued' /\ ~Held(n)'
    BY <2>1 DEF StoresLast, SessionsInv, Stores
  <2> QED BY <2>1, <2>2 DEF ByChallenge
<1> QED BY <1>1, <1>2 DEF SessionsInv, EachIsSpent

LEMMA NoSessionBegins ==
  ASSUME SessionsInv, CodesLast, StoresLast, SessionsLast
  PROVE  SessionsInv'
<1>1. EachIsSpent'
  BY StillSpent DEF EachIsSpent, SessionsLast
<1>2. OneSessionEach'
  BY DEF OneSessionEach, SessionsInv, SessionsLast
<1> QED BY <1>1, <1>2 DEF SessionsInv, CodesLast, StoresLast, SessionsLast

\* What begins a session has begun none before, and is spent with it.
LEMMA SessionBegins ==
  ASSUME SessionsInv, CodesLast, StoresLast, NEW p, NEW by, createSession(p, by),
         \/ \E i \in DOMAIN codes : by = [code |-> i] /\ ~codes[i].spent /\ codes'[i].spent
         \/ \E n \in 1..issued : by = [challenge |-> n] /\ Held(n) /\ ~Held(n)'
  PROVE  SessionsInv'
<1>1. /\ SessionsShaped' /\ DOMAIN sessions \subseteq DOMAIN sessions'
      /\ \A s \in DOMAIN sessions : sessions'[s] = sessions[s]
      /\ \A s \in DOMAIN sessions' \ DOMAIN sessions : sessions'[s].by = by
  BY CreateSession DEF SessionsInv
<1>2. PICK new : DOMAIN sessions' = DOMAIN sessions \cup {new} /\ new \notin DOMAIN sessions
  <2>1. PICK n \in 0..MaxSessions : RowsTo(sessions, n)
    BY DEF SessionsInv, SessionsShaped
  <2>2. n \in Nat /\ sessions' = Append1(sessions, [person |-> p, by |-> by, state |-> "fresh"])
    BY <2>1, SignInBoundsAssumption DEF createSession
  <2>3. DOMAIN sessions = 1..n /\ DOMAIN sessions' = 1..(n + 1)
    BY <2>1, <2>2, Appended DEF RowsTo
  <2>5. \A m \in Nat : 1..(m + 1) = (1..m) \cup {m + 1} /\ m + 1 \notin 1..m
    OBVIOUS
  <2>6. n \in Nat
    BY <2>2
  <2>4. DOMAIN sessions' = DOMAIN sessions \cup {n + 1} /\ n + 1 \notin DOMAIN sessions
    BY <2>3, <2>5, <2>6
  <2> QED BY <2>4
<1>3. \A s \in DOMAIN sessions : sessions[s].by # by
  <2>1. CASE \E i \in DOMAIN codes : by = [code |-> i] /\ ~codes[i].spent
    <3>1. PICK i \in DOMAIN codes : by = [code |-> i] /\ ~codes[i].spent
      BY <2>1
    <3>2. by.code = i /\ DOMAIN by = {"code"}
      BY <3>1
    <3>3. \A j : [code |-> j].code = j
      OBVIOUS
    <3>4. \A n : DOMAIN [challenge |-> n] = {"challenge"}
      OBVIOUS
    <3>5. \A s \in DOMAIN sessions : ByCode(s) => sessions[s].by # by
      BY <3>1, <3>2, <3>3 DEF ByCode
    <3>6. \A s \in DOMAIN sessions : ByChallenge(s) => sessions[s].by # by
      BY <3>2, <3>4 DEF ByChallenge
    <3> QED BY <3>5, <3>6 DEF SessionsInv, EachIsSpent
  <2>2. CASE \E n \in 1..issued : by = [challenge |-> n] /\ Held(n)
    <3>1. PICK n \in 1..issued : by = [challenge |-> n] /\ Held(n)
      BY <2>2
    <3>2. by.challenge = n /\ DOMAIN by = {"challenge"}
      BY <3>1
    <3>3. \A m : [challenge |-> m].challenge = m
      OBVIOUS
    <3>4. \A i : DOMAIN [code |-> i] = {"code"}
      OBVIOUS
    <3>5. \A s \in DOMAIN sessions : ByChallenge(s) => sessions[s].by # by
      BY <3>1, <3>2, <3>3 DEF ByChallenge
    <3>6. \A s \in DOMAIN sessions : ByCode(s) => sessions[s].by # by
      BY <3>2, <3>4 DEF ByCode
    <3> QED BY <3>5, <3>6 DEF SessionsInv, EachIsSpent
  <2> QED BY <2>1, <2>2
<1>4. OneSessionEach'
  BY <1>1, <1>2, <1>3 DEF SessionsInv, OneSessionEach
<1>5. \A s \in DOMAIN sessions : ByCode(s)' \/ ByChallenge(s)'
  BY <1>1, StillSpent
<1>6. ByCode(new)' \/ ByChallenge(new)'
  <2>1. sessions'[new].by = by
    BY <1>1, <1>2
  <2>2. ASSUME NEW i \in DOMAIN codes, by = [code |-> i], codes'[i].spent PROVE ByCode(new)'
    BY <2>1, <2>2 DEF ByCode, CodesLast
  <2>3. ASSUME NEW n \in 1..issued, by = [challenge |-> n], ~Held(n)' PROVE ByChallenge(new)'
    <3>1. n \in 1..issued'
      BY DEF StoresLast, SessionsInv, Stores
    <3> QED BY <2>1, <2>3, <3>1 DEF ByChallenge
  <2> QED BY <2>2, <2>3
<1>7. EachIsSpent'
  BY <1>2, <1>5, <1>6 DEF EachIsSpent
<1> QED BY <1>1, <1>4, <1>7 DEF SessionsInv, CodesLast, StoresLast

\* Rows of codes: appended, spent, or counted up.
LEMMA CodeRequested ==
  ASSUME CodesShaped, NEW k \in Emails, NEW signup \in BOOLEAN, requestOtp(k, signup)
  PROVE  /\ CodesLast
         /\ \E new : /\ DOMAIN codes' = DOMAIN codes \cup {new} /\ new \notin DOMAIN codes
                     /\ codes'[new].contact = k
<1>1. PICK purpose, p : codes' = Append1(codes, [contact |-> k, purpose |-> purpose, attempts |-> 0, spent |-> FALSE, person |-> p])
  BY Zenon DEF requestOtp
<1> DEFINE row == [contact |-> k, purpose |-> purpose, attempts |-> 0, spent |-> FALSE, person |-> p]
<1>2. codes' = Append1(codes, row)
  BY <1>1
<1>3. DOMAIN row = {"contact", "purpose", "person", "attempts", "spent"} /\ row.contact = k
  OBVIOUS
<1> HIDE DEF row
<1>4. PICK n \in 0..MaxCodes : RowsTo(codes, n)
  BY DEF CodesShaped
<1>5. n \in Nat /\ Size(codes) < MaxCodes
  BY <1>4, SignInBoundsAssumption DEF requestOtp
<1>6. /\ Size(codes) = n /\ RowsTo(codes', n + 1) /\ codes'[n + 1] = row
      /\ \A i \in 1..n : codes'[i] = codes[i]
  BY <1>2, <1>4, <1>5, Appended
<1>7. n + 1 \in 0..MaxCodes /\ n + 1 \notin 1..n /\ 1..(n + 1) = (1..n) \cup {n + 1}
  BY <1>5, <1>6, SignInBoundsAssumption
<1>8. DOMAIN codes = 1..n /\ DOMAIN codes' = DOMAIN codes \cup {n + 1}
  BY <1>4, <1>6, <1>7 DEF RowsTo
<1>9. CodesShaped'
  BY <1>3, <1>6, <1>7, <1>8 DEF CodesShaped
<1> QED BY <1>3, <1>6, <1>7, <1>8, <1>9 DEF CodesLast

LEMMA CodeRowChanges ==
  ASSUME CodesShaped, NEW i \in DOMAIN codes, NEW row, codes' = [codes EXCEPT ![i] = row],
         DOMAIN row = DOMAIN codes[i], row.contact = codes[i].contact, codes[i].spent => row.spent
  PROVE  CodesLast /\ DOMAIN codes' = DOMAIN codes /\ codes'[i] = row
<1>1. DOMAIN codes' = DOMAIN codes /\ codes'[i] = row /\ \A j \in DOMAIN codes \ {i} : codes'[j] = codes[j]
  OBVIOUS
<1>2. CodesShaped'
  BY <1>1 DEF CodesShaped, RowsTo
<1> QED BY <1>1, <1>2 DEF CodesLast

\* A code that is used or cannot be sent is spent; a wrong answer is counted.
LEMMA CodeSpent ==
  ASSUME CodesShaped, NEW i \in DOMAIN codes, DeliveryFails(i) \/ WrongCode(i)
  PROVE  CodesLast /\ DOMAIN codes' = DOMAIN codes
<1>1. DOMAIN codes[i] = {"contact", "purpose", "person", "attempts", "spent"}
  BY DEF CodesShaped
<1>2. ASSUME NEW row, row = [codes[i] EXCEPT !.spent = TRUE] \/ row = [codes[i] EXCEPT !.attempts = @ + 1],
             codes' = [codes EXCEPT ![i] = row]
      PROVE  CodesLast /\ DOMAIN codes' = DOMAIN codes
  <2>1. DOMAIN row = DOMAIN codes[i] /\ row.contact = codes[i].contact
    BY <1>1, <1>2
  <2>2. codes[i].spent => row.spent
    BY <1>1, <1>2
  <2> QED BY <1>2, <2>1, <2>2, CodeRowChanges
<1>3. CASE DeliveryFails(i)
  <2>1. codes' = [codes EXCEPT ![i] = [codes[i] EXCEPT !.spent = TRUE]]
    BY <1>3 DEF DeliveryFails
  <2> QED BY <1>2, <2>1
<1>4. CASE WrongCode(i)
  <2>1. codes' = [codes EXCEPT ![i] = [codes[i] EXCEPT !.attempts = @ + 1]]
    BY <1>4 DEF WrongCode
  <2> QED BY <1>2, <2>1
<1> QED BY <1>3, <1>4

LEMMA CodeUsed ==
  ASSUME CodesShaped, NEW i \in DOMAIN codes, verifyOtp(i)
  PROVE  CodesLast /\ DOMAIN codes' = DOMAIN codes /\ ~codes[i].spent /\ codes'[i].spent
<1>1. DOMAIN codes[i] = {"contact", "purpose", "person", "attempts", "spent"}
  BY DEF CodesShaped
<1> DEFINE row == [codes[i] EXCEPT !.spent = TRUE, !.attempts = @ + 1]
<1>2. codes' = [codes EXCEPT ![i] = row] /\ ~codes[i].spent
  BY DEF verifyOtp, Usable
<1>3. DOMAIN row = DOMAIN codes[i] /\ row.contact = codes[i].contact /\ row.spent
  BY <1>1
<1> HIDE DEF row
<1> QED BY <1>2, <1>3, CodeRowChanges

\* Who signs in with codes, and sessions that end.
LEMMA OtpSessions ==
  ASSUME SessionsInv, OtpRoute \/ SessionRoute \/ \E s \in DOMAIN sessions : SessionAges(s)
  PROVE  SessionsInv' /\ CodesLast
<1>1. ASSUME UNCHANGED ceremony PROVE StoresLast
  BY <1>1, SignInBoundsAssumption DEF ceremony, StoresLast, SessionsInv, Stores, OnePlaceEach, Held, InStore, InHand, Uses
<1>2. ASSUME UNCHANGED sessions PROVE SessionsLast
  BY <1>2 DEF SessionsLast, SessionsInv, SessionsShaped, RowsTo
<1>3. ASSUME NEW k \in Emails, NEW signup \in BOOLEAN, requestOtp(k, signup) PROVE SessionsInv' /\ CodesLast
  <2>1. CodesLast
    BY <1>3, CodeRequested DEF SessionsInv
  <2>2. UNCHANGED <<sessions, ceremony>>
    BY <1>3 DEF requestOtp
  <2> QED BY <1>1, <1>2, <2>1, <2>2, NoSessionBegins
<1>4. ASSUME NEW i \in DOMAIN codes, DeliveryFails(i) \/ WrongCode(i) PROVE SessionsInv' /\ CodesLast
  <2>1. CodesLast
    BY <1>4, CodeSpent DEF SessionsInv
  <2>2. UNCHANGED <<sessions, ceremony>>
    BY <1>4 DEF DeliveryFails, WrongCode
  <2> QED BY <1>1, <1>2, <2>1, <2>2, NoSessionBegins
<1>5. ASSUME NEW i \in DOMAIN codes, verifyOtp(i) PROVE SessionsInv' /\ CodesLast
  <2>1. CodesLast /\ ~codes[i].spent /\ codes'[i].spent
    BY <1>5, CodeUsed DEF SessionsInv
  <2>2. PICK p : createSession(p, [code |-> i])
    BY <1>5 DEF verifyOtp
  <2>3. UNCHANGED ceremony
    BY <1>5 DEF verifyOtp
  <2> QED BY <1>1, <2>1, <2>2, <2>3, SessionBegins
<1>6. ASSUME NEW s \in DOMAIN sessions, revokeSessionByToken(s) \/ SessionAges(s) PROVE SessionsInv' /\ CodesLast
  <2>1. UNCHANGED <<codes, ceremony>>
    BY <1>6 DEF revokeSessionByToken, SessionAges
  <2>2. CodesLast
    BY <2>1 DEF CodesLast, SessionsInv, CodesShaped, RowsTo
  <2>3. PICK st : sessions' = [sessions EXCEPT ![s] = [sessions[s] EXCEPT !.state = st]]
    BY <1>6 DEF revokeSessionByToken, SessionAges
  <2>4. DOMAIN sessions' = DOMAIN sessions /\ \A t \in DOMAIN sessions \ {s} : sessions'[t] = sessions[t]
    BY <2>3
  <2>5. sessions'[s] = [sessions[s] EXCEPT !.state = st]
    BY <2>3
  <2>6. SessionsLast
    BY <2>4, <2>5, StateChanged DEF SessionsLast, SessionsInv
  <2> QED BY <1>1, <2>1, <2>2, <2>6, NoSessionBegins
<1> QED BY <1>3, <1>4, <1>5, <1>6 DEF OtpRoute, SessionRoute

\* Who signs in with passkeys.
LEMMA PasskeySessions ==
  ASSUME SessionsInv, "lost_reply" \notin RedisFaults, PasskeyRoute \/ PasskeysRoute
  PROVE  SessionsInv' /\ UNCHANGED <<codes, codesAged>>
<1>1. UNCHANGED <<codes, codesAged>>
  BY DEF PasskeyRoute, PasskeysRoute, startPasskeySignIn, SignInVerified, finishPasskeySignIn,
         startPasskeyRegistration, RegistrationVerified, removePasskey, finishPasskeyRegistration
<1>2. CodesLast
  BY <1>1 DEF CodesLast, SessionsInv, CodesShaped, RowsTo
<1>3. Stores /\ issued \in Nat
  BY SignInBoundsAssumption DEF SessionsInv, Stores
<1>4. ASSUME UNCHANGED sessions, StoresLast PROVE SessionsInv'
  <2>1. SessionsLast
    BY <1>4 DEF SessionsLast, SessionsInv, SessionsShaped, RowsTo
  <2> QED BY <1>2, <1>4, <2>1, NoSessionBegins
<1>5. ASSUME NEW f \in Flows, PutChallenge(f), UNCHANGED calls PROVE StoresLast
  BY <1>3, <1>5, Put DEF StoresLast
<1>6. ASSUME NEW f \in Flows, NEW next, UNCHANGED issued, ConsumeChallenge(f, next),
             \A n \in Challenges : ~Uses(next[n]) \/ next[n].use = n
      PROVE  StoresLast
  BY <1>3, <1>6, Consume DEF StoresLast
<1>7. ASSUME UNCHANGED <<issued, redis, pg>>, calls' \subseteq calls PROVE StoresLast
  BY <1>3, <1>7, CallEnds DEF StoresLast
<1>8. \A s \in DOMAIN sessions : s \in Sessions
  BY SignInBoundsAssumption DEF SessionsInv, SessionsShaped, RowsTo, Sessions
<1>9. CASE startPasskeySignIn
  <2>1. PutChallenge([auth |-> issued + 1]) /\ UNCHANGED <<sessions, calls>>
    BY <1>9 DEF startPasskeySignIn
  <2>2. [auth |-> issued + 1] \in Flows
    BY <1>3, <2>1, SignInBoundsAssumption DEF PutChallenge, Flows, Challenges
  <2> QED BY <1>1, <1>4, <1>5, <2>1, <2>2
<1>10. ASSUME NEW n \in Challenges, NEW k \in passkeys, SignInVerified(n, k) PROVE SessionsInv'
  <2> DEFINE next == [got \in Challenges |-> [use |-> got, key |-> k]]
  <2>1. ConsumeChallenge([auth |-> n], next) /\ UNCHANGED <<sessions, issued>>
    BY <1>10 DEF SignInVerified
  <2>2. [auth |-> n] \in Flows
    BY DEF Flows
  <2>3. \A got \in Challenges : next[got].use = got
    OBVIOUS
  <2> HIDE DEF next
  <2> QED BY <1>4, <1>6, <2>1, <2>2, <2>3
<1>11. ASSUME NEW call \in calls, finishPasskeySignIn(call) PROVE SessionsInv'
  <2>1. UNCHANGED <<issued, redis, pg>> /\ calls' = calls \ {call} /\ Uses(call)
    BY <1>11 DEF finishPasskeySignIn, Uses
  <2>2. StoresLast
    BY <1>7, <2>1
  <2>3. CASE UNCHANGED sessions
    BY <1>4, <2>2, <2>3
  <2>4. CASE createSession(call.key.person, [challenge |-> call.use])
    <3>1. call.use \in 1..issued /\ ~InStore(call.use) /\ InHand(call.use)
      BY <1>3, <2>1 DEF Stores, OnePlaceEach, InHand
    <3>2. ~InStore(call.use)' /\ ~InHand(call.use)'
      BY <1>3, <2>1, <3>1 DEF Stores, OnePlaceEach, InStore, InHand, Uses
    <3>3. Held(call.use) /\ ~Held(call.use)'
      BY <3>1, <3>2 DEF Held
    <3> QED BY <1>2, <2>2, <2>4, <3>1, <3>3, SessionBegins
  <2> QED BY <1>11, <2>3, <2>4 DEF finishPasskeySignIn
<1>12. ASSUME NEW s \in DOMAIN sessions, startPasskeyRegistration(s) PROVE SessionsInv'
  <2>1. PutChallenge([reg |-> s]) /\ UNCHANGED <<sessions, calls>>
    BY <1>12 DEF startPasskeyRegistration
  <2>2. [reg |-> s] \in Flows
    BY <1>8 DEF Flows
  <2> QED BY <1>4, <1>5, <2>1, <2>2
<1>13. ASSUME NEW s \in DOMAIN sessions, RegistrationVerified(s) PROVE SessionsInv'
  <2> DEFINE next == [n \in Challenges |-> [add |-> n, person |-> sessions[s].person, login |-> access.login]]
  <2>1. ConsumeChallenge([reg |-> s], next) /\ UNCHANGED <<sessions, issued>>
    BY <1>13 DEF RegistrationVerified
  <2>2. [reg |-> s] \in Flows
    BY <1>8 DEF Flows
  <2>3. \A n \in Challenges : ~Uses(next[n])
    BY DEF Uses
  <2> HIDE DEF next
  <2> QED BY <1>4, <1>6, <2>1, <2>2, <2>3
<1>14. ASSUME NEW s \in DOMAIN sessions, NEW k \in passkeys, removePasskey(s, k) PROVE SessionsInv'
  <2>1. UNCHANGED <<issued, redis, pg, calls, sessions>>
    BY <1>14 DEF removePasskey, ceremony
  <2> QED BY <1>4, <1>7, <2>1
<1>15. ASSUME NEW call \in calls, finishPasskeyRegistration(call) PROVE SessionsInv'
  <2>1. UNCHANGED <<issued, redis, pg, sessions>> /\ calls' \subseteq calls
    BY <1>15 DEF finishPasskeyRegistration
  <2> QED BY <1>4, <1>7, <2>1
<1> QED BY <1>1, <1>9, <1>10, <1>11, <1>12, <1>13, <1>14, <1>15 DEF PasskeyRoute, PasskeysRoute

\* The guardians, deletions and time begin no session.
LEMMA OtherSessions ==
  ASSUME SessionsInv,
         OnboardingRoute \/ (\E p \in People : DeletionRuns(p)) \/ CodesAge \/ UNCHANGED signInVars
  PROVE  SessionsInv' /\ UNCHANGED codes
<1>1. UNCHANGED <<codes, issued, redis, pg, calls>>
  BY DEF OnboardingRoute, setManagedStudentAccountAccess, updateManagedStudentSettings, DeletionRuns, CodesAge,
         ceremony, signInVars
<1>2. CodesLast
  BY <1>1 DEF CodesLast, SessionsInv, CodesShaped, RowsTo
<1>3. StoresLast
  BY <1>1, SignInBoundsAssumption, CallEnds DEF StoresLast, SessionsInv, Stores
<1>4. sessions' = sessions \/ sessions' = RevokedSessions
  <2>1. ASSUME NEW k \in Emails, NEW enabled \in BOOLEAN, setManagedStudentAccountAccess(k, enabled)
        PROVE  sessions' = sessions \/ sessions' = RevokedSessions
    BY <2>1 DEF setManagedStudentAccountAccess
  <2>2. ASSUME NEW g \in StudentGuardians, NEW granted \in BOOLEAN, updateManagedStudentSettings(g, granted)
        PROVE  sessions' = sessions \/ sessions' = RevokedSessions
    BY <2>2 DEF updateManagedStudentSettings
  <2>3. CASE (\E p \in People : DeletionRuns(p)) \/ CodesAge \/ UNCHANGED signInVars
    BY <2>3 DEF DeletionRuns, CodesAge, signInVars
  <2> QED BY <2>1, <2>2, <2>3 DEF OnboardingRoute
<1>5. SessionsLast
  <2>1. CASE sessions' = sessions
    BY <2>1 DEF SessionsLast, SessionsInv, SessionsShaped, RowsTo
  <2>2. CASE sessions' = RevokedSessions
    BY <2>2, Revocation, StateChanged DEF SessionsLast, SessionsInv
  <2> QED BY <1>4, <2>1, <2>2
<1> QED BY <1>1, <1>2, <1>3, <1>5, NoSessionBegins

\* The quota.  Codes only leave the window, except the one that is requested
\* while there is room.
QuotaInv ==
  /\ CodesWithinQuota
  /\ codesAged \in [ttl : Nat, window : Nat]

LEMMA RecentFinite ==
  ASSUME CodesShaped, NEW k
  PROVE  IsFiniteSet(RecentCodes(k)) /\ Cardinality(RecentCodes(k)) \in Nat
<1>1. PICK n \in 0..MaxCodes : DOMAIN codes = 1..n
  BY DEF CodesShaped, RowsTo
<1>2. n \in Int
  BY <1>1, SignInBoundsAssumption
<1>3. IsFiniteSet(DOMAIN codes)
  BY <1>1, <1>2, FS_Interval
<1>4. RecentCodes(k) \in SUBSET DOMAIN codes
  BY DEF RecentCodes
<1> QED BY <1>3, <1>4, FS_Subset, FS_CardinalityType

LEMMA FewerRecent ==
  ASSUME CodesShaped, QuotaInv, NEW k \in Emails, RecentCodes(k)' \subseteq RecentCodes(k)
  PROVE  Cardinality(RecentCodes(k))' <= CodeLimit
<1> DEFINE before == RecentCodes(k)
           after == RecentCodes(k)'
<1>1. IsFiniteSet(before) /\ Cardinality(before) \in Nat
  BY RecentFinite
<1>2. after \in SUBSET before
  OBVIOUS
<1>3. Cardinality(before) <= CodeLimit
  BY DEF QuotaInv, CodesWithinQuota
<1> HIDE DEF before, after
<1>4. IsFiniteSet(after) /\ Cardinality(after) <= Cardinality(before)
  BY <1>1, <1>2, FS_Subset
<1>5. Cardinality(after) \in Nat
  BY <1>4, FS_CardinalityType
<1>6. Cardinality(after) <= CodeLimit
  BY <1>1, <1>3, <1>4, <1>5, SignInBoundsAssumption
<1> QED BY <1>6 DEF after

LEMMA NoneRequested ==
  ASSUME CodesShaped, QuotaInv, CodesLast, DOMAIN codes' = DOMAIN codes,
         codesAged' = codesAged \/ CodesAge
  PROVE  QuotaInv'
<1>1. /\ codesAged' \in [ttl : Nat, window : Nat]
      /\ codesAged.window \in Nat /\ codesAged'.window \in Nat /\ codesAged.window <= codesAged'.window
  BY DEF QuotaInv, CodesAge
<1>2. \A i \in DOMAIN codes : i \in Nat
  BY SignInBoundsAssumption DEF CodesShaped, RowsTo
<1>3. ASSUME NEW k \in Emails PROVE Cardinality(RecentCodes(k))' <= CodeLimit
  <2>1. ASSUME NEW i \in DOMAIN codes, i > codesAged'.window PROVE i > codesAged.window
    BY <1>1, <1>2, <2>1
  <2>2. RecentCodes(k)' \subseteq RecentCodes(k)
    BY <2>1 DEF RecentCodes, CodesLast
  <2> QED BY <2>2, FewerRecent
<1> QED BY <1>1, <1>3 DEF QuotaInv, CodesWithinQuota

LEMMA OneRequested ==
  ASSUME CodesShaped, QuotaInv, NEW k \in Emails, NEW signup \in BOOLEAN, requestOtp(k, signup)
  PROVE  QuotaInv'
<1>1. CodesLast
  BY CodeRequested
<1>2. PICK new : DOMAIN codes' = DOMAIN codes \cup {new} /\ new \notin DOMAIN codes /\ codes'[new].contact = k
  BY CodeRequested
<1>3. codesAged' = codesAged /\ Cardinality(RecentCodes(k)) < CodeLimit
  BY DEF requestOtp, Quota
<1>4. ASSUME NEW c \in Emails, c # k PROVE Cardinality(RecentCodes(c))' <= CodeLimit
  <2>1. RecentCodes(c)' \subseteq RecentCodes(c)
    BY <1>1, <1>2, <1>3, <1>4 DEF RecentCodes, CodesLast
  <2> QED BY <2>1, FewerRecent
<1>5. Cardinality(RecentCodes(k))' <= CodeLimit
  <2> DEFINE before == RecentCodes(k)
             after == RecentCodes(k)'
  <2>1. IsFiniteSet(before) /\ Cardinality(before) \in Nat /\ Cardinality(before) < CodeLimit
    BY <1>3, RecentFinite
  <2>2. after \in SUBSET (before \cup {new})
    BY <1>1, <1>2, <1>3 DEF RecentCodes, CodesLast
  <2> HIDE DEF before, after
  <2>3. /\ IsFiniteSet(before \cup {new})
        /\ Cardinality(before \cup {new}) \in {Cardinality(before), Cardinality(before) + 1}
    BY <2>1, FS_AddElement
  <2>4. IsFiniteSet(after) /\ Cardinality(after) <= Cardinality(before \cup {new})
    BY <2>2, <2>3, FS_Subset
  <2>5. Cardinality(after) \in Nat
    BY <2>4, FS_CardinalityType
  <2>6. Cardinality(after) <= CodeLimit
    BY <2>1, <2>3, <2>4, <2>5, SignInBoundsAssumption
  <2> QED BY <2>6 DEF after
<1>6. CodesWithinQuota'
  BY <1>4, <1>5 DEF CodesWithinQuota
<1> QED BY <1>3, <1>6 DEF QuotaInv

LEMMA QuotaKept ==
  ASSUME SessionsInv, QuotaInv, "lost_reply" \notin RedisFaults, [SignInNext]_signInVars
  PROVE  QuotaInv'
<1>1. CodesShaped
  BY DEF SessionsInv
<1>2. ASSUME UNCHANGED codes, codesAged' = codesAged \/ CodesAge PROVE QuotaInv'
  <2>1. CodesLast
    BY <1>1, <1>2 DEF CodesLast, CodesShaped, RowsTo
  <2> QED BY <1>1, <1>2, <2>1, NoneRequested
<1>3. CASE OtpRoute
  <2>1. ASSUME NEW i \in DOMAIN codes, DeliveryFails(i) \/ WrongCode(i) \/ verifyOtp(i) PROVE QuotaInv'
    <3>1. codesAged' = codesAged
      BY <2>1 DEF DeliveryFails, WrongCode, verifyOtp
    <3> QED BY <1>1, <2>1, <3>1, CodeSpent, CodeUsed, NoneRequested
  <2> QED BY <1>1, <1>3, <2>1, OneRequested DEF OtpRoute
<1>4. CASE SessionRoute \/ \E s \in DOMAIN sessions : SessionAges(s)
  BY <1>2, <1>4 DEF SessionRoute, revokeSessionByToken, SessionAges
<1>5. CASE PasskeyRoute \/ PasskeysRoute
  BY <1>2, <1>5, PasskeySessions
<1>6. CASE OnboardingRoute \/ (\E p \in People : DeletionRuns(p)) \/ CodesAge \/ UNCHANGED signInVars
  <2>1. UNCHANGED codes
    BY <1>6, OtherSessions
  <2>2. codesAged' = codesAged \/ CodesAge
    BY <1>6 DEF OnboardingRoute, setManagedStudentAccountAccess, updateManagedStudentSettings, DeletionRuns, signInVars
  <2> QED BY <1>2, <2>1, <2>2
<1> QED BY <1>3, <1>4, <1>5, <1>6 DEF SignInNext

\* A code and a challenge begin one session at most and nobody is sent more
\* codes than the quota allows, for any number of addresses, ceremonies and
\* calls that Redis refuses; a reply that is lost after Redis has stored the
\* challenge leaves it in both stores, which is what the assumption leaves out.
THEOREM LimitedCorrect ==
  ASSUME "lost_reply" \notin RedisFaults
  PROVE  SignInSpec => []CodesAreLimited
<1>1. SignInInit => SessionsInv /\ QuotaInv
  <2> SUFFICES ASSUME SignInInit PROVE QuotaInv
    BY SessionsInit
  <2>1. codesAged = [ttl |-> 0, window |-> 0] /\ DOMAIN codes = {}
    BY DEF SignInInit
  <2>2. \A k : RecentCodes(k) = {}
    BY <2>1 DEF RecentCodes
  <2>3. codesAged \in [ttl : Nat, window : Nat]
    BY <2>1
  <2> QED BY <2>2, <2>3, FS_EmptySet, SignInBoundsAssumption DEF QuotaInv, CodesWithinQuota
<1>2. (SessionsInv /\ QuotaInv) /\ [SignInNext]_signInVars => (SessionsInv /\ QuotaInv)'
  BY QuotaKept, OtpSessions, PasskeySessions, OtherSessions DEF SignInNext
<1>3. SessionsInv /\ QuotaInv => CodesAreLimited
  BY DEF SessionsInv, QuotaInv, CodesAreLimited
<1> QED BY <1>1, <1>2, <1>3, PTL DEF SignInSpec
=============================================================================

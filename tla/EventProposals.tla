----------------------------- MODULE EventProposals -----------------------------
(***************************************************************************)
(* Events that members propose and organizers approve                      *)
(* (lib/event-proposals.ts with lib/event-proposal-policy.ts), and events  *)
(* drafted from pasted text (lib/event-intake.ts), of one organization.    *)
(*                                                                         *)
(* A transaction is two steps, what it locks and reads and what it writes. *)
(* A draft is published by statements of their own.  What a proposal says  *)
(* is only whether its start has passed.                                   *)
(***************************************************************************)
EXTENDS Naturals, FiniteSets

CONSTANTS
  Proposers,  \* adults who are active members
  Guardians,  \* those with a student in the organization
  Proposals,  \* proposals that may be sent
  Drafts,     \* drafts that may be made
  PROPOSALS_PER_DAY, OPEN_PROPOSALS_MAX,
  MaxEvents   \* bound: events published from one draft

ASSUME ProposalsAssumption ==
  /\ Guardians \subseteq Proposers /\ IsFiniteSet(Proposals)
  /\ {PROPOSALS_PER_DAY, OPEN_PROPOSALS_MAX, MaxEvents} \subseteq Nat

VARIABLES
  settings,   \* organization_event_proposal_settings
  proposals,  \* event_proposals
  working,    \* transactions on them that have read and not yet written
  drafts,     \* event_intake_drafts
  publishing  \* publications of drafts: the draft and whether the event exists

proposalVars == <<settings, proposals, working, drafts, publishing>>
intake == <<drafts, publishing>>

Unsent == [status |-> "none", by |-> "nobody", today |-> FALSE, past |-> FALSE, events |-> 0]
ProposalsInit ==
  /\ settings = [enabled |-> FALSE, scope |-> "adult_members"]
  /\ proposals = [i \in Proposals |-> Unsent] /\ working = {}
  /\ drafts = [d \in Drafts |-> [status |-> "none", events |-> 0, asking |-> FALSE]] /\ publishing = {}

PROPOSAL_TRANSITIONS ==
  [pending |-> [approve |-> "approved", request_changes |-> "changes_requested", decline |-> "declined", withdraw |-> "withdrawn"],
   changes_requested |-> [resubmit |-> "pending", decline |-> "declined", withdraw |-> "withdrawn"]]
isOpenProposalStatus(status) == status \in DOMAIN PROPOSAL_TRANSITIONS
assertProposalTransition(i, action) ==
  isOpenProposalStatus(proposals[i].status) /\ action \in DOMAIN PROPOSAL_TRANSITIONS[proposals[i].status]

RowFreeBug(i) == TRUE
RowFree(i) == \A t \in working : t.of # i
SubmitFree(p) == \A t \in working : t.action # "submit" \/ t.by # p
Opens(t) == working' = working \cup {t}
Closes(t) == t \in working /\ working' = working \ {t}

-----------------------------------------------------------------------------
(* Settings and proposers *)

\* What is in the queue stays as it is.
updateEventProposalSettings(on, scope) ==
  /\ settings' = [enabled |-> on, scope |-> scope] /\ settings' # settings
  /\ UNCHANGED <<proposals, working, intake>>

Mine(p) == {i \in Proposals : proposals[i].by = p}
proposalSubmitDenial(p, resubmitting) ==
  \/ ~settings.enabled
  \/ settings.scope = "guardians_only" /\ p \notin Guardians
  \/ ~resubmitting /\ Cardinality({i \in Mine(p) : proposals[i].today}) >= PROPOSALS_PER_DAY
  \/ ~resubmitting /\ Cardinality({i \in Mine(p) : isOpenProposalStatus(proposals[i].status)}) >= OPEN_PROPOSALS_MAX

\* One submission of a person at a time, by an advisory lock.
submitEventProposal(i, p) ==
  /\ proposals[i] = Unsent /\ RowFree(i) /\ SubmitFree(p) /\ ~proposalSubmitDenial(p, FALSE)
  /\ Opens([action |-> "submit", of |-> i, by |-> p])
  /\ UNCHANGED <<settings, proposals, intake>>

InsertProposal(t) ==
  /\ t.action = "submit" /\ Closes(t)
  /\ proposals' = [proposals EXCEPT ![t.of] = [status |-> "pending", by |-> t.by, today |-> TRUE, past |-> FALSE, events |-> 0]]
  /\ UNCHANGED <<settings, intake>>

lockOwnProposal(i, p) == proposals[i].by = p /\ RowFree(i)

\* A new start in the future may be given.
resubmitEventProposal(i, p) ==
  /\ lockOwnProposal(i, p) /\ assertProposalTransition(i, "resubmit") /\ ~proposalSubmitDenial(p, TRUE)
  /\ Opens([action |-> "resubmit", of |-> i, by |-> p])
  /\ UNCHANGED <<settings, proposals, intake>>

withdrawEventProposal(i, p) ==
  /\ lockOwnProposal(i, p) /\ assertProposalTransition(i, "withdraw")
  /\ Opens([action |-> "withdraw", of |-> i, by |-> p])
  /\ UNCHANGED <<settings, proposals, intake>>

UpdateProposal(t) ==
  /\ t.action \in {"resubmit", "withdraw"} /\ Closes(t)
  /\ proposals' = [proposals EXCEPT ![t.of].status = IF t.action = "resubmit" THEN "pending" ELSE "withdrawn",
                                    ![t.of].past = IF t.action = "resubmit" THEN FALSE ELSE @]
  /\ UNCHANGED <<settings, intake>>

-----------------------------------------------------------------------------
(* Organizers *)

\* Declining always works; nothing is published while proposals are off, or
\* with a start that has passed unless the organizer moves it.
proposalModerationBlock(i, action, moved) ==
  /\ action # "decline"
  /\ ~settings.enabled \/ (action = "approve" /\ proposals[i].past /\ ~moved)

moderateEventProposal(i, action) ==
  /\ RowFree(i) /\ assertProposalTransition(i, action)
  /\ \E moved \in BOOLEAN : ~proposalModerationBlock(i, action, moved)
  /\ Opens([action |-> action, of |-> i, by |-> "organizer"])
  /\ UNCHANGED <<settings, proposals, intake>>

createManualEvent(count) == count + 1
DecideProposal(t) ==
  /\ t.action \in {"approve", "request_changes", "decline"} /\ Closes(t)
  /\ proposals' = [proposals EXCEPT ![t.of].status = CASE t.action = "approve" -> "approved" [] t.action = "decline" -> "declined"
                                                       [] OTHER -> "changes_requested",
                                    ![t.of].events = IF t.action = "approve" THEN createManualEvent(@) ELSE @]
  /\ UNCHANGED <<settings, intake>>

\* A day goes by; the start of a proposal passes; a process dies.
DayPasses == /\ proposals' = [i \in Proposals |-> [proposals[i] EXCEPT !.today = FALSE]] /\ proposals' # proposals
             /\ UNCHANGED <<settings, working, intake>>
StartPasses(i) == /\ isOpenProposalStatus(proposals[i].status) /\ ~proposals[i].past /\ RowFree(i)
                  /\ proposals' = [proposals EXCEPT ![i].past = TRUE] /\ UNCHANGED <<settings, working, intake>>
Rollback(t) == Closes(t) /\ UNCHANGED <<settings, proposals, intake>>

-----------------------------------------------------------------------------
(* Drafts from pasted text *)

\* Written down, then the model is asked; its answer is written by id.
createEventIntakeDraft(d) ==
  /\ drafts[d].status = "none" /\ drafts' = [drafts EXCEPT ![d].status = "draft", ![d].asking = TRUE]
  /\ UNCHANGED <<settings, proposals, working, publishing>>
ModelAnswers(d) ==
  /\ drafts[d].asking
  /\ \E s \in {"ready_for_review", "failed"} : drafts' = [drafts EXCEPT ![d].status = s, ![d].asking = FALSE]
  /\ UNCHANGED <<settings, proposals, working, publishing>>

publishEventIntakeDraft(d) ==
  /\ drafts[d].status = "ready_for_review" /\ drafts[d].events < MaxEvents
  /\ \E by \in {"first", "second"} : /\ \A x \in publishing : x.draft # d \/ x.by # by
                                     /\ publishing' = publishing \cup {[draft |-> d, by |-> by, step |-> "event"]}
  /\ UNCHANGED <<settings, proposals, working, drafts>>

PublishEvent(x) ==
  /\ x \in publishing /\ x.step = "event" /\ drafts[x.draft].events < MaxEvents
  /\ publishing' = (publishing \ {x}) \cup {[x EXCEPT !.step = "status"]}
  /\ drafts' = [drafts EXCEPT ![x.draft].events = createManualEvent(@)]
  /\ UNCHANGED <<settings, proposals, working>>

\* Written by id, whatever the status has become; or the process dies first.
MarkPublished(x) ==
  /\ x \in publishing /\ x.step = "status" /\ publishing' = publishing \ {x}
  /\ \/ drafts' = [drafts EXCEPT ![x.draft].status = "published"]
     \/ UNCHANGED drafts
  /\ UNCHANGED <<settings, proposals, working>>

rejectEventIntakeDraft(d) ==
  /\ drafts[d].status \in {"draft", "ready_for_review"}
  /\ drafts' = [drafts EXCEPT ![d].status = "rejected"]
  /\ UNCHANGED <<settings, proposals, working, publishing>>

-----------------------------------------------------------------------------
EventProposalsRoute ==
  \/ \E i \in Proposals, p \in Proposers : submitEventProposal(i, p) \/ resubmitEventProposal(i, p) \/ withdrawEventProposal(i, p)
  \/ \E t \in working : InsertProposal(t) \/ UpdateProposal(t) \/ Rollback(t)
ModerationRoute ==
  \/ \E on \in BOOLEAN, scope \in {"adult_members", "guardians_only"} : updateEventProposalSettings(on, scope)
  \/ \E i \in Proposals, a \in {"approve", "request_changes", "decline"} : moderateEventProposal(i, a)
  \/ \E t \in working : DecideProposal(t)
EventIntakeRoute ==
  \/ \E d \in Drafts : createEventIntakeDraft(d) \/ ModelAnswers(d) \/ publishEventIntakeDraft(d) \/ rejectEventIntakeDraft(d)
  \/ \E x \in publishing : PublishEvent(x) \/ MarkPublished(x)
ProposalsNext == EventProposalsRoute \/ ModerationRoute \/ EventIntakeRoute \/ DayPasses \/ \E i \in Proposals : StartPasses(i)

ProposalsSpec == ProposalsInit /\ [][ProposalsNext]_proposalVars

-----------------------------------------------------------------------------
(* Properties *)

\* However many submissions of one person run at once, the limits of a day and
\* of the queue hold: "serialize submissions per member and organization".
SubmissionsWithinLimits ==
  \A p \in Proposers : /\ Cardinality({i \in Mine(p) : proposals[i].today}) <= PROPOSALS_PER_DAY
                       /\ Cardinality({i \in Mine(p) : isOpenProposalStatus(proposals[i].status)}) <= OPEN_PROPOSALS_MAX

\* "Each decision locks the proposal row, so two organizers cannot act on the
\* same proposal at once": what is approved has one event, all else has none.
ApprovedHasItsEvent ==
  \A i \in Proposals : proposals[i].events = IF proposals[i].status = "approved" THEN 1 ELSE 0

\* Proposals are neither too many nor published twice.
ProposalsInOrder == SubmissionsWithinLimits /\ ApprovedHasItsEvent

\* "Nothing is published" while proposals are off.  Violated: the settings are
\* read in the transaction and not locked.
NothingPublishedWhileOff ==
  [][~settings.enabled => \A i \in Proposals : proposals'[i].events = proposals[i].events]_proposalVars

\* A draft that an organizer reviews makes at most one event, and a rejected
\* one none.  Violated: it is published without a lock.
DraftPublishedOnce ==
  \A d \in Drafts : drafts[d].events <= 1 /\ (drafts[d].status = "rejected" => drafts[d].events = 0)
=============================================================================

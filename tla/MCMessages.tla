------------------------------ MODULE MCMessages ------------------------------
(* What the platform sends to its members and takes in from them, and what it  *)
(* asks of AI, side by side: the modules share no state, so each behaviour belongs to one part.    *)
(* Texts have three parts and notices two, in which the rest of their state    *)
(* stays still.  The parts share their model values: x1 and x2 are numbers,    *)
(* runners, sponsors, jobs or ideas, y1 and y2 are texts or proposals.         *)
EXTENDS Messaging, Notifications, SupportPayments, AiBudget, FeatureRequests, EventProposals, TLC

CONSTANTS x1, x2, y1, y2
Alike == Permutations({x1, x2}) \cup Permutations({y1, y2})
SomeProfiles ==
  {DEFAULTS, [DEFAULTS EXCEPT !.smsForCriticalOnly = FALSE], [DEFAULTS EXCEPT !.smsForCriticalOnly = FALSE, !.push = FALSE]}

VARIABLE part
vars == <<part, messagingVars, noticeVars, paymentVars, aiVars, ideaVars, proposalVars>>

SmsParts == {"texts", "reports", "consents"}

SmsStep ==
  /\ CASE part = "texts" -> UNCHANGED <<consentVars, carried>>
       [] part = "reports" -> UNCHANGED <<consentVars, spendVars>>
       [] part = "consents" -> UNCHANGED <<carried, spendVars, turns>>
  /\ MessagingNext
  /\ part = "texts" => turns'.ages = turns.ages

NoticeStep ==
  \/ part = "reminders" /\ NotificationsNext /\ \A n \in Others : notices'[n] = notices[n]
  \/ part = "notices" /\ UNCHANGED <<rideVars, runVars>> /\ NotificationsNext

ProposalStep ==
  \/ part = "proposals" /\ UNCHANGED intake /\ ProposalsNext
  \/ part = "drafts" /\ UNCHANGED <<settings, proposals, working>> /\ ProposalsNext

\* Only texts begin in different states.
NobodyTexts == \A n \in Numbers : phones[n] = "none"

Init ==
  /\ MessagingInit /\ NotificationsInit /\ PaymentsInit /\ AiInit /\ IdeasInit /\ ProposalsInit
  /\ part \in SmsParts \cup {"reminders", "notices", "payments", "ai", "ideas", "proposals", "drafts"}
  /\ \A o \in Payers : limits[o].cap = 1
  /\ part \notin SmsParts => NobodyTexts

Next ==
  \/ part \in SmsParts /\ SmsStep
     /\ UNCHANGED <<part, noticeVars, paymentVars, aiVars, ideaVars, proposalVars>>
  \/ NoticeStep
     /\ UNCHANGED <<part, messagingVars, paymentVars, aiVars, ideaVars, proposalVars>>
  \/ part = "payments" /\ PaymentsNext
     /\ UNCHANGED <<part, messagingVars, noticeVars, aiVars, ideaVars, proposalVars>>
  \/ part = "ai" /\ AiNext
     /\ UNCHANGED <<part, messagingVars, noticeVars, paymentVars, ideaVars, proposalVars>>
  \/ part = "ideas" /\ IdeasNext
     /\ UNCHANGED <<part, messagingVars, noticeVars, paymentVars, aiVars, proposalVars>>
  \/ ProposalStep
     /\ UNCHANGED <<part, messagingVars, noticeVars, paymentVars, aiVars, ideaVars>>

Spec == Init /\ [][Next]_vars
=============================================================================

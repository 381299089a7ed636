------------------------------- MODULE Messaging -------------------------------
(***************************************************************************)
(* Texts, the consent to them and what an organization may spend on them   *)
(* (lib/twilio-send.ts, lib/sms-consent.ts, lib/org-messaging-limits.ts,   *)
(* lib/twilio-status.ts and the webhooks of the carrier).                  *)
(*                                                                         *)
(* A text is reserved in a transaction that holds an advisory lock on its  *)
(* number while it reads the consent and counts, and one on its            *)
(* organization while it adds up the month.  The carrier is called after   *)
(* the commit, and reports later, in any order and more than once.         *)
(***************************************************************************)
EXTENDS Naturals, FiniteSets

CONSTANTS
  Numbers,    \* mobile numbers
  NoNumber,   \* of a text not sent yet
  Payers,     \* organizations
  NoPayer,    \* of a text that no organization pays
  Texts,      \* calls of sendTwilioNotification
  OTP_LIMIT,  \* codes for a number in 15 minutes (5 in the code)
  TEXT_LIMIT, \* other texts for a number in an hour (20 in the code)
  Caps,       \* what an organization may be allowed in a month, in texts
  MaxConsents, \* changes of consent
  MaxReported, \* texts whose way is followed beyond the carrier's answer
  MaxLimits,   \* changes of a limit
  MaxAgeing    \* how often a text gets older than a window

ASSUME MessagingAssumption ==
  NoPayer \notin Payers /\ NoNumber \notin Numbers /\ Caps \subseteq Nat /\ Caps # {} /\ OTP_LIMIT \in Nat /\ TEXT_LIMIT \in Nat

VARIABLES
  registry,  \* sms_opt_outs
  phones,    \* phones.messaging_consent_status of the verified phone
  consents,  \* recordSmsConsent calls that have read
  consented, \* how many there were
  texts,     \* notification_deliveries, and how far each call is
  carried,   \* external: what the carrier has done with a text
  limits,    \* the cap of organization_messaging_limits in force, and the largest there was
  alerts,    \* organization_messaging_alerts, and how often each was mailed
  evaluating, \* evaluateOrgMessagingAlerts under way
  turns      \* changes of a limit and ageings so far

consentVars == <<registry, phones, consents, consented>>
spendVars == <<limits, alerts, evaluating>>
messagingVars == <<consentVars, texts, carried, spendVars, turns>>

Kinds == {"otp", "critical", "routine"}
Thresholds == {"alert", "full"}
Unwritten == [step |-> "unsent", to |-> NoNumber, payer |-> NoPayer, kind |-> "otp",
              row |-> "none", age |-> 0, sid |-> FALSE, delivered |-> "unknown"]

MessagingInit ==
  /\ \E on \in SUBSET Numbers :  \* numbers whose people have agreed before
       /\ registry = [n \in Numbers |-> IF n \in on THEN [state |-> "opted_in", source |-> "settings"] ELSE [state |-> "none", source |-> "none"]]
       /\ phones = [n \in Numbers |-> IF n \in on THEN "opted_in" ELSE "none"]
  /\ consents = {} /\ consented = 0
  /\ texts = [t \in Texts |-> Unwritten]
  /\ carried = [t \in Texts |-> "none"]
  /\ limits \in [Payers -> {[cap |-> c, ceiling |-> c] : c \in Caps}]
  /\ alerts = [o \in Payers |-> [h \in Thresholds |-> [status |-> "none", old |-> FALSE, mails |-> 0]]]
  /\ evaluating = {} /\ turns = [limits |-> 0, ages |-> 0]

-----------------------------------------------------------------------------
(* Consent *)

isCarrierStop(r) == r.state = "opted_out" /\ r.source # "settings"
FromWeb(c) == c.source # "carrier"
webOptInBlockedByCarrierStop(c) == c.action = "opted_in" /\ FromWeb(c) /\ isCarrierStop(registry[c.of])
StopStandsBug(c) == FALSE
StopStands(c) == webOptInBlockedByCarrierStop(c)
NothingWritten(c) == StopStands(c)

\* A person verifies a number: that alone is no consent.
upsertVerifiedPhone(n) ==
  /\ phones[n] = "none" /\ phones' = [phones EXCEPT ![n] = "not_configured"]
  /\ UNCHANGED <<registry, consents, consented, texts, carried, spendVars, turns>>

\* The first reading, without a lock, ends a consent from the web that a STOP forbids.
recordSmsConsent(c) ==
  /\ consented < MaxConsents
  /\ FromWeb(c) => phones[c.of] # "none"
  /\ c \notin consents /\ ~webOptInBlockedByCarrierStop(c)
  /\ consents' = consents \cup {c} /\ consented' = consented + 1
  /\ UNCHANGED <<registry, phones, texts, carried, spendVars, turns>>

\* The write holds the registry's row until the phone is written too.
WriteConsent(c) ==
  /\ c \in consents /\ consents' = consents \ {c}
  /\ registry' = IF StopStands(c) THEN registry
                 ELSE [registry EXCEPT ![c.of] = [state |-> c.action,
                         source |-> IF isCarrierStop(@) /\ c.action = "opted_out" THEN @.source ELSE c.source]]
  /\ phones' = IF NothingWritten(c) \/ phones[c.of] = "none" THEN phones ELSE [phones EXCEPT ![c.of] = c.action]
  /\ UNCHANGED <<consented, texts, carried, spendVars, turns>>

Consents ==
  {[of |-> n, action |-> a, source |-> s] : n \in Numbers, a \in {"opted_in", "opted_out"}, s \in {"settings", "carrier"}}
SmsConsentRoute == \E c \in Consents : FromWeb(c) /\ (recordSmsConsent(c) \/ WriteConsent(c))
InboundRoute == \E c \in Consents : ~FromWeb(c) /\ (recordSmsConsent(c) \/ WriteConsent(c))

-----------------------------------------------------------------------------
(* Reserving a text *)

Exempt(x) == x.kind # "routine"
mobileSendDecision(x) ==
  /\ registry[x.to].state # "opted_out" /\ phones[x.to] # "opted_out"
  /\ x.kind = "otp" \/ phones[x.to] = "opted_in"

InTransaction == {"addressed", "counted"}
DestinationFree(n) == \A t \in Texts : ~(texts[t].to = n /\ texts[t].step \in InTransaction)
PayerFreeBug(o) == TRUE
PayerFree(o) == \A t \in Texts : ~(texts[t].payer = o /\ texts[t].step = "counted")

RowsFor(n, age) ==
  {t \in Texts : texts[t].to = n /\ texts[t].age <= age /\ texts[t].row \notin {"none", "blocked_org_cap"}}
WithinRecipientLimit(x) ==
  IF x.kind = "otp" THEN Cardinality(RowsFor(x.to, 0)) < OTP_LIMIT ELSE Cardinality(RowsFor(x.to, 1)) < TEXT_LIMIT

Counted(o) == {t \in Texts : texts[t].payer = o /\ texts[t].row \in {"reserved", "accepted"}}
decideOrgMobileCap(x) == Exempt(x) \/ Cardinality(Counted(x.payer)) + 1 <= limits[x.payer].cap

Evaluation(t, o) == [by |-> t, of |-> o, step |-> "called", left |-> {}, at |-> "none", failed |-> FALSE]
TextStep(t, step) == texts' = [texts EXCEPT ![t].step = step]

\* The sandbox keeps a text from every number that is not on its list.
sendTwilioNotification(t, n, o, k) ==
  /\ texts[t].step = "unsent"
  /\ LET x == [Unwritten EXCEPT !.to = n, !.payer = o, !.kind = k]
     IN \/ texts' = [texts EXCEPT ![t] = [x EXCEPT !.step = "done", !.row = "sandbox_skipped"]]
        \/ DestinationFree(n) /\ mobileSendDecision(x) /\ WithinRecipientLimit(x)
           /\ texts' = [texts EXCEPT ![t] = [x EXCEPT !.step = "addressed"]]
  /\ UNCHANGED <<consentVars, carried, spendVars, turns>>

CountMonth(t) ==
  LET x == texts[t] IN
  /\ x.step = "addressed" /\ x.payer # NoPayer /\ PayerFree(x.payer)
  /\ IF decideOrgMobileCap(x) THEN TextStep(t, "counted") /\ UNCHANGED evaluating
     ELSE \* recordOrgCapBlocked, after the rollback
          /\ texts' = [texts EXCEPT ![t].step = "done", ![t].row = "blocked_org_cap"]
          /\ evaluating' = evaluating \cup {Evaluation(t, x.payer)}
  /\ UNCHANGED <<consentVars, carried, limits, alerts, turns>>

reserveMobileDelivery(t) ==
  LET x == texts[t] IN
  /\ x.step = "counted" \/ (x.step = "addressed" /\ x.payer = NoPayer)
  /\ texts' = [texts EXCEPT ![t].step = "sending", ![t].row = "reserved"]
  /\ evaluating' = IF x.payer = NoPayer THEN evaluating
                   ELSE evaluating \cup {Evaluation(t, x.payer)}
  /\ UNCHANGED <<consentVars, carried, limits, alerts, turns>>

\* The process dies: a transaction is rolled back, a reserved text stays so.
SenderDies(t) ==
  /\ texts[t].step \in InTransaction \cup {"sending", "accepted", "rejected", "unheard"} /\ TextStep(t, "done")
  /\ UNCHANGED <<consentVars, carried, spendVars, turns>>

-----------------------------------------------------------------------------
(* The carrier, its answer and its reports *)

\* External: it accepts or rejects, and the answer, or the request, may be lost.
CarrierAnswers(t) ==
  /\ texts[t].step = "sending"
  /\ \E accepts \in BOOLEAN, heard \in BOOLEAN :
       /\ texts' = [texts EXCEPT ![t].step = IF ~heard THEN "unheard" ELSE IF accepts THEN "accepted" ELSE "rejected"]
       /\ carried' = [carried EXCEPT ![t] = IF accepts THEN "accepted" ELSE @]
  /\ UNCHANGED <<consentVars, spendVars, turns>>

\* No answer counts as a failure, whatever the carrier did; the write itself may fail.
FinalizeDelivery(t) ==
  /\ texts[t].step \in {"accepted", "rejected", "unheard"}
  /\ \/ TextStep(t, "done")
     \/ texts' = [texts EXCEPT ![t].step = "done", ![t].sid = (texts[t].step = "accepted"),
                               ![t].row = IF texts[t].step = "accepted" THEN "accepted" ELSE "failed"]
  /\ UNCHANGED <<consentVars, carried, spendVars, turns>>

\* External: RCS is tried first, then a plain text.
Carried == {"rcs_sent", "rcs_failed", "rcs_delivered", "sms_sent", "sms_delivered"}
Onward ==
  [accepted |-> {"rcs_sent", "sms_sent"}, rcs_sent |-> {"rcs_failed", "rcs_delivered"}, rcs_failed |-> {"sms_sent"},
   sms_sent |-> {"sms_delivered"}, rcs_delivered |-> {}, sms_delivered |-> {}, none |-> {}]
CarrierDelivers(t) ==
  /\ \E c \in Onward[carried[t]] : carried' = [carried EXCEPT ![t] = c]
  /\ carried[t] = "accepted" => Cardinality({u \in Texts : carried[u] \in Carried}) < MaxReported
  /\ UNCHANGED <<consentVars, texts, spendVars, turns>>

\* What may have been reported by now, and may arrive now, or again.
Reported(t) ==
  [none |-> {}, accepted |-> {}, rcs_sent |-> {"rcs_sent"}, rcs_failed |-> {"rcs_sent", "rcs_failed"},
   rcs_delivered |-> {"rcs_sent", "rcs_delivered"}, sms_sent |-> {"rcs_sent", "rcs_failed", "sms_sent"},
   sms_delivered |-> {"rcs_sent", "rcs_failed", "sms_sent", "sms_delivered"}][carried[t]]
ChannelOf(r) == IF r \in {"sms_sent", "sms_delivered"} THEN "sms" ELSE "rcs"
DELIVERED_STATUSES == {"rcs_delivered", "sms_delivered"}
TellsDelivery(r) == r \in DELIVERED_STATUSES
recordDeliveredChannelFromStatus(t) ==
  /\ texts[t].sid
  /\ \E r \in Reported(t) : TellsDelivery(r) /\ texts' = [texts EXCEPT ![t].delivered = ChannelOf(r)]
  /\ UNCHANGED <<consentVars, carried, spendVars, turns>>

-----------------------------------------------------------------------------
(* Limits and alerts *)

setOrgMessagingLimit(o, c) ==
  /\ turns.limits < MaxLimits /\ turns' = [turns EXCEPT !.limits = @ + 1]
  /\ limits' = [limits EXCEPT ![o] = [cap |-> c, ceiling |-> IF c > @.ceiling THEN c ELSE @.ceiling]]
  /\ UNCHANGED <<consentVars, texts, carried, alerts, evaluating>>

Used(o) == Cardinality(Counted(o))
reachedAlertThresholds(o) ==
  {h \in Thresholds : IF limits[o].cap = 0 THEN Used(o) > 0
                       ELSE IF h = "full" THEN Used(o) >= limits[o].cap ELSE Used(o) * 5 >= limits[o].cap * 4}
Claimable(a) == a.status = "none" \/ (a.status \in {"failed", "pending"} /\ a.old)

Evaluates(e, f) == evaluating' = (evaluating \ {e}) \cup {f}
evaluateOrgMessagingAlerts(e) ==
  /\ e.step = "called" /\ Evaluates(e, [e EXCEPT !.step = "reached", !.left = reachedAlertThresholds(e.of)])
  /\ UNCHANGED <<consentVars, texts, carried, limits, alerts, turns>>

\* The alert percentage comes before 100.
ClaimAlert(e) ==
  /\ e.step = "reached" /\ e.left # {}
  /\ LET h == IF "alert" \in e.left THEN "alert" ELSE "full"
         f == [e EXCEPT !.left = @ \ {h}]
     IN IF Claimable(alerts[e.of][h])
        THEN /\ alerts' = [alerts EXCEPT ![e.of][h].status = "pending", ![e.of][h].old = FALSE]
             /\ Evaluates(e, [f EXCEPT !.step = "claimed", !.at = h])
        ELSE UNCHANGED alerts /\ Evaluates(e, f)
  /\ UNCHANGED <<consentVars, texts, carried, limits, turns>>

\* One recipient without mail makes the whole alert failed.
MailAlert(e) ==
  /\ e.step = "claimed"
  /\ \E fails \in BOOLEAN :
       /\ alerts' = [alerts EXCEPT ![e.of][e.at].mails = IF fails THEN @ ELSE @ + 1]
       /\ Evaluates(e, [e EXCEPT !.step = "mailed", !.failed = fails])
  /\ UNCHANGED <<consentVars, texts, carried, limits, turns>>

CloseAlert(e) ==
  /\ e.step = "mailed"
  /\ alerts' = [alerts EXCEPT ![e.of][e.at].status = IF e.failed THEN "failed" ELSE "sent"]
  /\ Evaluates(e, [e EXCEPT !.step = "reached", !.at = "none", !.failed = FALSE])
  /\ UNCHANGED <<consentVars, texts, carried, limits, turns>>

EvaluationEnds(e) ==
  /\ evaluating' = evaluating \ {e}
  /\ UNCHANGED <<consentVars, texts, carried, limits, alerts, turns>>

\* An hour passes since the last attempt; a mail under way takes less.
AlertGetsOld(o, h) ==
  /\ alerts[o][h].status \in {"failed", "pending", "sent"} /\ ~alerts[o][h].old
  /\ \A e \in evaluating : ~(e.of = o /\ e.at = h)
  /\ alerts' = [alerts EXCEPT ![o][h].old = TRUE]
  /\ UNCHANGED <<consentVars, texts, carried, limits, evaluating, turns>>

\* A quarter of an hour passes since a text was reserved, then an hour.
TextAges(t) ==
  /\ texts[t].step = "done" /\ texts[t].row # "none" /\ texts[t].age < 2
  /\ turns.ages < MaxAgeing /\ turns' = [turns EXCEPT !.ages = @ + 1]
  /\ texts' = [texts EXCEPT ![t].age = @ + 1]
  /\ UNCHANGED <<consentVars, carried, spendVars>>

-----------------------------------------------------------------------------
Send(t) ==
  \/ \E n \in Numbers, o \in Payers \cup {NoPayer}, k \in Kinds : sendTwilioNotification(t, n, o, k)
  \/ CountMonth(t) \/ reserveMobileDelivery(t) \/ FinalizeDelivery(t) \/ SenderDies(t)
StatusRoute(t) == recordDeliveredChannelFromStatus(t)
Evaluate(e) == evaluateOrgMessagingAlerts(e) \/ ClaimAlert(e) \/ MailAlert(e) \/ CloseAlert(e) \/ EvaluationEnds(e)

MessagingNext ==
  \/ \E n \in Numbers : upsertVerifiedPhone(n)
  \/ SmsConsentRoute \/ InboundRoute
  \/ \E t \in Texts : Send(t) \/ CarrierAnswers(t) \/ CarrierDelivers(t) \/ StatusRoute(t) \/ TextAges(t)
  \/ \E o \in Payers, c \in Caps : setOrgMessagingLimit(o, c)
  \/ \E e \in evaluating : Evaluate(e)
  \/ \E o \in Payers, h \in Thresholds : AlertGetsOld(o, h)
MessagingSpec == MessagingInit /\ [][MessagingNext]_messagingVars

-----------------------------------------------------------------------------
(* Properties *)

\* Every variable holds what its column or its call can hold.
MessagingTypeOK ==
  /\ registry \in [Numbers -> [state : {"none", "opted_in", "opted_out"}, source : {"none", "settings", "carrier"}]]
  /\ phones \in [Numbers -> {"none", "not_configured", "opted_in", "opted_out"}]
  /\ consents \subseteq Consents /\ consented \in 0..MaxConsents
  /\ DOMAIN texts = Texts /\ \A t \in Texts : texts[t].to \in Numbers \cup {NoNumber} /\ texts[t].payer \in Payers \cup {NoPayer}
  /\ carried \in [Texts -> Carried \cup {"none", "accepted"}]
  /\ \A o \in Payers : limits[o].cap <= limits[o].ceiling

\* The phone and the registry never disagree about a refusal: the send path
\* may read either (mobileSendDecision), whatever order consents arrive in.
PhonesFollowRegistry == \A n \in Numbers : registry[n].state = "opted_out" => phones[n] # "opted_in"

\* A STOP from the carrier is lifted by nothing but a START from the carrier,
\* even when it lands between the reading and the writing of a web opt-in.
CarrierStopStays ==
  [][\A n \in Numbers : isCarrierStop(registry[n]) /\ ~isCarrierStop(registry'[n]) => registry'[n].source = "carrier"]_messagingVars

\* Calls in parallel do not take a number past its codes in 15 minutes or its
\* texts in an hour (reserveMobileDelivery, the lock on the destination).
WithinRecipientLimits ==
  \A n \in Numbers :
    LET Sent(otp, age) == {t \in RowsFor(n, age) : (texts[t].kind = "otp") = otp /\ texts[t].row # "sandbox_skipped"}
    IN Cardinality(Sent(TRUE, 0)) <= OTP_LIMIT /\ Cardinality(Sent(FALSE, 1)) <= TEXT_LIMIT

\* Calls in parallel do not take an organization past its month, codes and
\* critical texts aside (the lock on the organization).
WithinOrganizationCap ==
  \A o \in Payers : Cardinality({t \in Counted(o) : ~Exempt(texts[t])}) <= limits[o].ceiling

\* However late, often or disordered its reports arrive, a text is recorded
\* under the channel that reached the phone (twilio-status.ts).
DeliveredChannelTrue ==
  \A t \in Texts : texts[t].delivered # "unknown" =>
     carried[t] \in DELIVERED_STATUSES /\ texts[t].delivered = ChannelOf(carried[t])

\* Texts keep to what their receiver allows and what is paid for, and are
\* recorded as what they became, through calls in parallel and late reports.
TextsKeepTheRules ==
  PhonesFollowRegistry /\ WithinRecipientLimits /\ WithinOrganizationCap /\ DeliveredChannelTrue

\* An alert that was sent to everyone is not claimed or mailed again.
SentAlertIsFinal ==
  [][\A o \in Payers, h \in Thresholds : alerts[o][h].status = "sent" =>
       alerts'[o][h].status = "sent" /\ alerts'[o][h].mails = alerts[o][h].mails]_messagingVars

\* What was said once stays said: a STOP, and an alert that went out.
WhatWasSaidStays == CarrierStopStays /\ SentAlertIsFinal

\* At most one alert per organization, month and threshold is mailed, as the
\* comment over evaluateOrgMessagingAlerts says.
AlertedOnce == \A o \in Payers, h \in Thresholds : alerts[o][h].mails <= 1

\* What the carrier took is counted (the audit of a lost answer says failed).
CarriedIsCounted == \A t \in Texts : carried[t] # "none" => texts[t].row # "failed"

\* No text but a code is reserved for a number that has been refused.
NoTextAfterStop ==
  [][\A t \in Texts : texts'[t].row = "reserved" /\ texts[t].row # "reserved" => registry[texts[t].to].state # "opted_out"]_messagingVars
=============================================================================

---------------------------- MODULE SupportPayments ----------------------------
(***************************************************************************)
(* Payments in support of the platform (lib/stripe-support.ts): a checkout *)
(* at Stripe, the row that waits for its outcome, the events Stripe        *)
(* delivers until they are acknowledged, and the sponsors that paid        *)
(* sponsorships and organizers make (lib/org-sponsors.ts).                 *)
(*                                                                         *)
(* Every statement of the webhook is a step: between them other deliveries *)
(* are handled, statements fail, the process dies, or Stripe stops waiting *)
(* and delivers the event again.                                           *)
(***************************************************************************)
EXTENDS Naturals, FiniteSets

CONSTANTS
  Sessions,       \* checkout sessions
  NoSession,      \* the session of a sponsor that an organizer enters
  SponsorRows,    \* rows that organization_sponsors may hold
  SPONSOR_LIMIT,  \* rows past which organizers may not enter another
  Faults,         \* what may go wrong, of "fails", "late", "dies"
  MaxFaults       \* bound: how often something goes wrong

ASSUME PaymentsAssumption ==
  /\ NoSession \notin Sessions /\ {SPONSOR_LIMIT, MaxFaults} \subseteq Nat
  /\ Faults \subseteq {"fails", "late", "dies"}

VARIABLES
  money,         \* what Stripe knows of a session
  posted,        \* events that Stripe still has to deliver
  marks,         \* stripe_webhook_events
  handling,      \* deliveries past their mark, at most one of an event
  contributions, \* support_contributions, by session
  sponsors,      \* organization_sponsors
  entering,      \* sponsors being entered, counted and not yet inserted
  went           \* what went wrong, and how often

paymentVars == <<money, posted, marks, handling, contributions, sponsors, entering, went>>
atStripe == <<money, posted>>
arriving == <<marks, handling, went>>
recognition == <<sponsors, entering>>

EventKinds == {"completed", "completed_unpaid", "async_succeeded", "async_failed", "refunded"}
Events == Sessions \X EventKinds
NoRow == [status |-> "none", intent |-> FALSE, public |-> FALSE]
NoSponsor == [status |-> "none", of |-> NoSession, public |-> FALSE]

PaymentsInit ==
  /\ money = [s \in Sessions |-> "none"] /\ posted = {} /\ marks = {} /\ handling = {}
  /\ contributions = [s \in Sessions |-> NoRow]
  /\ sponsors = [x \in SponsorRows |-> NoSponsor] /\ entering = 0
  /\ went = [kinds |-> {}, times |-> 0]

-----------------------------------------------------------------------------
(* Checkout *)

\* The address to pay at is handed out only when the row is there.
createSupportCheckout(s, public) ==
  /\ money[s] = "none" /\ contributions[s] = NoRow
  /\ \/ contributions' = [contributions EXCEPT ![s] = [NoRow EXCEPT !.status = "pending", !.public = public]]
     \/ UNCHANGED contributions \* the insert failed
  /\ money' = [money EXCEPT ![s] = "open"]
  /\ UNCHANGED <<posted, arriving, recognition>>

Posts(s, now, kind) == money' = [money EXCEPT ![s] = now] /\ posted' = posted \cup {<<s, kind>>}
Pay(s) ==
  /\ money[s] = "open" /\ contributions[s].status # "none"
  /\ Posts(s, "paid", "completed") \/ Posts(s, "processing", "completed_unpaid")
  /\ UNCHANGED <<contributions, arriving, recognition>>
Settle(s) ==
  /\ money[s] = "processing" /\ (Posts(s, "paid", "async_succeeded") \/ Posts(s, "failed", "async_failed"))
  /\ UNCHANGED <<contributions, arriving, recognition>>
RefundCharge(s) ==
  /\ money[s] = "paid" /\ Posts(s, "refunded", "refunded")
  /\ UNCHANGED <<contributions, arriving, recognition>>

-----------------------------------------------------------------------------
(* The webhook *)

Goes(kind) ==
  /\ kind \in Faults /\ went.times < MaxFaults
  /\ went' = [kinds |-> went.kinds \cup {kind}, times |-> went.times + 1]
Acknowledged(h) == posted' = IF h.awaited THEN posted \ {h.event} ELSE posted
Ended(h) == handling' = handling \ {h}

Fresh(e) == e \notin marks

\* A repeat is acknowledged whatever has become of the first delivery.
processStripeEvent(e) ==
  /\ e \in posted /\ \A h \in handling : ~(h.event = e /\ h.awaited)
  /\ IF Fresh(e)
     THEN /\ marks' = marks \cup {e} /\ UNCHANGED posted
          /\ handling' = handling \cup {[event |-> e, step |-> "apply", awaited |-> TRUE]}
     ELSE posted' = posted \ {e} /\ UNCHANGED <<marks, handling>>
  /\ UNCHANGED <<money, contributions, recognition, went>>

Paid(kind) == kind \in {"completed", "async_succeeded"}
Known(s) == contributions[s].intent

Becomes(e) ==
  LET s == e[1] IN
  CASE Paid(e[2]) -> [contributions EXCEPT ![s].status = "paid", ![s].intent = TRUE]
    [] e[2] = "async_failed" -> [contributions EXCEPT ![s].status = "failed"]
    [] e[2] = "refunded" /\ Known(s) -> [contributions EXCEPT ![s].status = "refunded"]
    [] OTHER -> contributions

Sponsorship(e) == Paid(e[2]) /\ contributions[e[1]].public

applyStripeEvent(h) ==
  /\ h \in handling /\ h.step = "apply" /\ contributions' = Becomes(h.event)
  /\ IF Sponsorship(h.event)
     THEN handling' = (handling \ {h}) \cup {[h EXCEPT !.step = "sponsor"]} /\ UNCHANGED posted
     ELSE Ended(h) /\ Acknowledged(h)
  /\ UNCHANGED <<money, marks, recognition, went>>

\* Nothing in the table makes a second sponsor of a contribution a conflict.
InsertSponsor(h, x) ==
  /\ h \in handling /\ h.step = "sponsor" /\ sponsors[x] = NoSponsor
  /\ sponsors' = [sponsors EXCEPT ![x] = [status |-> "active", of |-> h.event[1], public |-> FALSE]]
  /\ Ended(h) /\ Acknowledged(h)
  /\ UNCHANGED <<money, marks, contributions, entering, went>>

\* The statement fails; the mark is taken back and Stripe will deliver again.
UnmarkBug(e) == marks
Unmark(e) == marks \ {e}
TakeBack(h) ==
  /\ h \in handling /\ Goes("fails")
  /\ marks' = Unmark(h.event) /\ Ended(h)
  /\ UNCHANGED <<atStripe, contributions, recognition>>

\* Stripe no longer waits for the answer.
TimeOut(h) ==
  /\ h \in handling /\ h.awaited /\ Goes("late")
  /\ handling' = (handling \ {h}) \cup {[h EXCEPT !.awaited = FALSE]}
  /\ UNCHANGED <<atStripe, marks, contributions, recognition>>

ProcessDies(h) ==
  /\ h \in handling /\ Goes("dies") /\ Ended(h)
  /\ UNCHANGED <<atStripe, marks, contributions, recognition>>

StripeWebhook ==
  \/ \E e \in Events : processStripeEvent(e)
  \/ \E h \in handling : applyStripeEvent(h) \/ TakeBack(h) \/ TimeOut(h) \/ ProcessDies(h)
                         \/ \E x \in SponsorRows : InsertSponsor(h, x)

-----------------------------------------------------------------------------
(* What organizers do with sponsors *)

Rows == {x \in SponsorRows : sponsors[x].status # "none"}
createOrganizationSponsor ==
  /\ Cardinality(Rows) < SPONSOR_LIMIT /\ entering' = entering + 1 /\ entering < 2
  /\ UNCHANGED <<atStripe, arriving, contributions, sponsors>>
EnterSponsor(x, public) ==
  /\ entering > 0 /\ entering' = entering - 1 /\ sponsors[x] = NoSponsor
  /\ sponsors' = [sponsors EXCEPT ![x] = [status |-> "active", of |-> NoSession, public |-> public]]
  /\ UNCHANGED <<atStripe, arriving, contributions>>
updateOrganizationSponsor(x, public) ==
  /\ x \in Rows /\ sponsors' = [sponsors EXCEPT ![x].public = public] /\ sponsors' # sponsors
  /\ UNCHANGED <<atStripe, arriving, contributions, entering>>
endOrganizationSponsor(x) ==
  /\ x \in Rows /\ sponsors' = [sponsors EXCEPT ![x].status = "ended"] /\ sponsors' # sponsors
  /\ UNCHANGED <<atStripe, arriving, contributions, entering>>

SponsorsRoute ==
  \/ createOrganizationSponsor
  \/ \E x \in SponsorRows : \/ endOrganizationSponsor(x)
                            \/ \E public \in BOOLEAN : EnterSponsor(x, public) \/ updateOrganizationSponsor(x, public)

CheckoutRoute == \E s \in Sessions, public \in BOOLEAN : createSupportCheckout(s, public)
Stripe == \E s \in Sessions : Pay(s) \/ Settle(s) \/ RefundCharge(s)
PaymentsNext == CheckoutRoute \/ Stripe \/ StripeWebhook \/ SponsorsRoute
PaymentsSpec == PaymentsInit /\ [][PaymentsNext]_paymentVars

-----------------------------------------------------------------------------
PaymentsTypeOK ==
  /\ money \in [Sessions -> {"none", "open", "processing", "paid", "failed", "refunded"}]
  /\ posted \subseteq Events /\ marks \subseteq Events /\ entering \in 0..2
  /\ handling \subseteq [event : marks, step : {"apply", "sponsor"}, awaited : BOOLEAN]
  /\ contributions \in [Sessions -> [status : {"none", "pending", "paid", "failed", "refunded"}, intent : BOOLEAN, public : BOOLEAN]]
  /\ sponsors \in [SponsorRows -> [status : {"none", "active", "ended"}, of : Sessions \cup {NoSession}, public : BOOLEAN]]

\* What the dashboards count as paid was paid: an order that is complete and
\* whose payment is still being processed is not (stripe-support.ts:187).
PaidIsPaid ==
  \A s \in Sessions : contributions[s].status \in {"paid", "refunded"} => money[s] \in {"paid", "refunded"}

SponsorsOf(s) == {x \in SponsorRows : sponsors[x].of = s}
Quiet(s) == \A k \in EventKinds : <<s, k>> \notin posted /\ \A h \in handling : h.event # <<s, k>>
Recorded(s) ==
  money[s] = "paid" /\ Quiet(s) => contributions[s].status = "paid" /\ (contributions[s].public => SponsorsOf(s) # {})

\* Once Stripe has nothing left to deliver, a payment it holds is recorded
\* with its sponsor, although statements failed or although events came
\* twice; not always if both happen, nor if a process dies (RetriesGoThrough).
SettledIsRecorded ==
  (went.kinds \subseteq {"fails"} \/ went.kinds \subseteq {"late"}) => \A s \in Sessions : Recorded(s)

\* "If processing fails, the row is removed so Stripe's retry goes through"
\* (docs/operations/HIGH-AVAILABILITY.md:71), whenever it is that it fails.
RetriesGoThrough == \A s \in Sessions : Recorded(s)

\* A contribution makes one sponsor, whatever is delivered again (unless a
\* statement is reported to have failed that has not, which is not modelled).
OneSponsorEach == \A s \in Sessions : Cardinality(SponsorsOf(s)) <= 1

\* The contributions, the sponsors and the payments at Stripe tell one story,
\* whichever statements fail and whatever is delivered twice, late or again.
BooksAgree == PaidIsPaid /\ SettledIsRecorded /\ OneSponsorEach

\* A refund stays a refund, although events come twice or late, as long as no
\* statement fails: a payment that is retried after its refund is paid again.
RefundStays ==
  [][\A s \in Sessions : contributions[s].status = "refunded" => contributions'[s].status = "refunded" \/ "fails" \in went.kinds]_paymentVars

\* A refund that Stripe has nothing left to say about is a refund here too.
RefundsShow == \A s \in Sessions : money[s] = "refunded" /\ Quiet(s) => contributions[s].status = "refunded"
=============================================================================

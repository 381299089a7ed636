---------------------------- MODULE MessagesProofs ----------------------------
(***************************************************************************)
(* What people send to the platform is settled once.  Payments: what is    *)
(* recorded was paid, a payment of which Stripe has nothing left to say is *)
(* recorded, and none makes two sponsors.  Ideas and proposals: limits and *)
(* decisions hold, for any number of people and of requests at once.       *)
(* Texts: the counts under the two locks hold, a STOP and an alert that    *)
(* went out stay, and the channel recorded is the one that was used.       *)
(* Notices: no reminder twice, and mail for a text that was paused.        *)
(* AI: an admission counts under its lock, and what it counted holds.      *)
(***************************************************************************)
EXTENDS SupportPayments, FeatureRequests, EventProposals, Messaging, Notifications, AiBudget, FiniteSetTheorems, TLAPS

Handlers == [event : Events, step : {"apply", "sponsor"}, awaited : BOOLEAN]

\* Of an event one delivery at most is past its mark, and Stripe goes on
\* delivering what it waits for.
OneHandler ==
  /\ \A h, g \in handling : h.event = g.event => h = g
  /\ \A h \in handling : h.awaited => h.event \in posted

Deliveries == PaymentsTypeOK /\ OneHandler

LEMMA EventParts ==
  /\ \A e \in Events : e[1] \in Sessions /\ e[2] \in EventKinds /\ e = <<e[1], e[2]>>
  /\ \A s \in Sessions, k \in EventKinds : <<s, k>> \in Events /\ <<s, k>>[1] = s /\ <<s, k>>[2] = k
BY DEF Events

LEMMA HandlerMarked ==
  ASSUME PaymentsTypeOK
  PROVE  \A h \in handling : h \in Handlers /\ h.event \in marks /\ h.event \in Events
BY DEF PaymentsTypeOK, Handlers

LEMMA HandlerParts ==
  ASSUME PaymentsTypeOK, NEW h \in handling
  PROVE  /\ \A b \in BOOLEAN : LET g == [h EXCEPT !.awaited = b] IN
              g \in Handlers /\ g.event = h.event /\ g.step = h.step /\ g.awaited = b
         /\ LET g == [h EXCEPT !.step = "sponsor"] IN
              g \in Handlers /\ g.event = h.event /\ g.step = "sponsor" /\ g.awaited = h.awaited
<1>1. h \in [event : marks, step : {"apply", "sponsor"}, awaited : BOOLEAN] /\ marks \subseteq Events
  BY DEF PaymentsTypeOK
<1> QED BY <1>1 DEF Handlers

LEMMA DeliveriesInit == PaymentsInit => Deliveries
BY DEF PaymentsInit, Deliveries, PaymentsTypeOK, OneHandler, NoRow, NoSponsor

LEMMA BecomesTyped ==
  ASSUME PaymentsTypeOK, NEW e \in Events
  PROVE  /\ Becomes(e) \in [Sessions -> [status : {"none", "pending", "paid", "failed", "refunded"}, intent : BOOLEAN, public : BOOLEAN]]
         /\ \A s \in Sessions : /\ Becomes(e)[s].public = contributions[s].public
                                /\ Becomes(e)[s].status = contributions[s].status
                                   \/ (s = e[1] /\ Becomes(e)[s].status =
                                         IF Paid(e[2]) THEN "paid" ELSE IF e[2] = "async_failed" THEN "failed" ELSE "refunded")
         /\ Paid(e[2]) => Becomes(e)[e[1]].status = "paid"
         /\ e[2] = "completed_unpaid" => Becomes(e) = contributions
<1> DEFINE Row == [status : {"none", "pending", "paid", "failed", "refunded"}, intent : BOOLEAN, public : BOOLEAN]
<1>1. contributions \in [Sessions -> Row] /\ e[1] \in Sessions /\ e[2] \in EventKinds
  BY EventParts DEF PaymentsTypeOK
<1>2. CASE Paid(e[2])
  BY <1>1, <1>2 DEF Becomes, Paid
<1>3. CASE e[2] = "async_failed"
  BY <1>1, <1>3 DEF Becomes, Paid
<1>4. CASE e[2] = "refunded" /\ Known(e[1])
  BY <1>1, <1>4 DEF Becomes, Paid
<1>5. CASE ~Paid(e[2]) /\ e[2] # "async_failed" /\ ~(e[2] = "refunded" /\ Known(e[1]))
  BY <1>1, <1>5 DEF Becomes, Paid
<1> QED BY <1>2, <1>3, <1>4, <1>5

-----------------------------------------------------------------------------
(* Types, and one delivery of an event at a time *)

\* What everybody but the webhook does to deliveries: Stripe posts more.
LEMMA DeliveriesPosted ==
  ASSUME OneHandler, posted \subseteq posted', UNCHANGED handling
  PROVE  OneHandler'
BY DEF OneHandler

LEMMA CheckoutTyped ==
  ASSUME Deliveries, CheckoutRoute \/ Stripe
  PROVE  Deliveries'
<1>1. ASSUME NEW s \in Sessions, NEW public \in BOOLEAN, createSupportCheckout(s, public) PROVE Deliveries'
  <2>1. money' = [money EXCEPT ![s] = "open"] /\ UNCHANGED <<posted, marks, handling, sponsors, entering>>
        /\ contributions' \in {contributions, [contributions EXCEPT ![s] = [NoRow EXCEPT !.status = "pending", !.public = public]]}
    BY <1>1 DEF createSupportCheckout, arriving, recognition
  <2>2. money' \in [Sessions -> {"none", "open", "processing", "paid", "failed", "refunded"}]
    BY <2>1 DEF Deliveries, PaymentsTypeOK
  <2>3. contributions' \in [Sessions -> [status : {"none", "pending", "paid", "failed", "refunded"}, intent : BOOLEAN, public : BOOLEAN]]
    <3> DEFINE row == [NoRow EXCEPT !.status = "pending", !.public = public]
    <3>1. row \in [status : {"none", "pending", "paid", "failed", "refunded"}, intent : BOOLEAN, public : BOOLEAN]
      BY DEF NoRow
    <3>2. contributions' = contributions \/ contributions' = [contributions EXCEPT ![s] = row]
      BY <2>1
    <3> HIDE DEF row
    <3> QED BY <3>1, <3>2 DEF Deliveries, PaymentsTypeOK
  <2>4. PaymentsTypeOK'
    BY <2>1, <2>2, <2>3 DEF Deliveries, PaymentsTypeOK
  <2> QED BY <2>1, <2>4, DeliveriesPosted DEF Deliveries
<1>2. ASSUME NEW s \in Sessions, NEW now \in {"paid", "processing", "failed", "refunded"}, NEW kind \in EventKinds,
             Posts(s, now, kind), UNCHANGED <<contributions, arriving, recognition>>
      PROVE  Deliveries'
  <2>1. money' = [money EXCEPT ![s] = now] /\ posted' = posted \cup {<<s, kind>>}
    BY <1>2 DEF Posts
  <2>2. PaymentsTypeOK'
    BY <1>2, <2>1, EventParts DEF Deliveries, PaymentsTypeOK, arriving, recognition
  <2> QED BY <1>2, <2>1, <2>2, DeliveriesPosted DEF Deliveries, arriving
<1>3. ASSUME NEW s \in Sessions, Pay(s) \/ Settle(s) \/ RefundCharge(s) PROVE Deliveries'
  BY <1>2, <1>3 DEF Pay, Settle, RefundCharge, EventKinds
<1> QED BY <1>1, <1>3 DEF CheckoutRoute, Stripe

LEMMA SponsorsTyped ==
  ASSUME Deliveries, SponsorsRoute
  PROVE  Deliveries'
<1>1. UNCHANGED <<money, posted, marks, handling, contributions>>
  BY DEF SponsorsRoute, createOrganizationSponsor, EnterSponsor, updateOrganizationSponsor, endOrganizationSponsor, atStripe, arriving
<1>2. entering' \in 0..2
  BY DEF Deliveries, PaymentsTypeOK, SponsorsRoute, createOrganizationSponsor, EnterSponsor, updateOrganizationSponsor, endOrganizationSponsor
<1>3. sponsors' \in [SponsorRows -> [status : {"none", "active", "ended"}, of : Sessions \cup {NoSession}, public : BOOLEAN]]
  BY DEF Deliveries, PaymentsTypeOK, SponsorsRoute, createOrganizationSponsor, EnterSponsor, updateOrganizationSponsor, endOrganizationSponsor, Rows
<1> QED BY <1>1, <1>2, <1>3, DeliveriesPosted DEF Deliveries, PaymentsTypeOK

\* What the steps of a delivery leave: it ends, acknowledged or not, or goes on.
LEMMA HandlingStep ==
  ASSUME Deliveries, NEW h \in handling, NEW g \in Handlers, g.event = h.event, g.awaited => h.awaited,
         marks' = marks,
         \/ handling' = (handling \ {h}) \cup {g} /\ posted' = posted
         \/ Ended(h) /\ (Acknowledged(h) \/ posted' = posted)
  PROVE  OneHandler' /\ posted' \subseteq Events
         /\ handling' \subseteq [event : marks', step : {"apply", "sponsor"}, awaited : BOOLEAN]
<1>1. h.event \in marks
  BY HandlerMarked DEF Deliveries
<1>2. OneHandler'
  BY DEF Deliveries, OneHandler, Ended, Acknowledged
<1> QED BY <1>1, <1>2 DEF Deliveries, PaymentsTypeOK, Handlers, Ended, Acknowledged

LEMMA WebhookTyped ==
  ASSUME Deliveries, StripeWebhook
  PROVE  Deliveries'
<1>1. ASSUME NEW e \in Events, processStripeEvent(e) PROVE Deliveries'
  <2>1. UNCHANGED <<money, contributions, sponsors, entering>> /\ \A h \in handling : ~(h.event = e /\ h.awaited)
    BY <1>1 DEF processStripeEvent, recognition
  <2>2. CASE Fresh(e)
    <3> DEFINE g == [event |-> e, step |-> "apply", awaited |-> TRUE]
    <3>1. e \in posted /\ marks' = marks \cup {e} /\ posted' = posted /\ handling' = handling \cup {g}
      BY <1>1, <2>2 DEF processStripeEvent
    <3>2. \A h \in handling : h.event # e
      BY <2>2, HandlerMarked DEF Fresh, Deliveries
    <3>a. g.event = e /\ g.awaited = TRUE /\ g \in [event : {e}, step : {"apply", "sponsor"}, awaited : BOOLEAN]
      OBVIOUS
    <3> HIDE DEF g
    <3>3. OneHandler'
      BY <3>1, <3>2, <3>a DEF Deliveries, OneHandler
    <3>4. handling' \subseteq [event : marks', step : {"apply", "sponsor"}, awaited : BOOLEAN]
      BY <3>1, <3>a DEF Deliveries, PaymentsTypeOK
    <3> QED BY <2>1, <3>1, <3>3, <3>4 DEF Deliveries, PaymentsTypeOK
  <2>3. CASE ~Fresh(e)
    BY <1>1, <2>1, <2>3 DEF processStripeEvent, Deliveries, PaymentsTypeOK, OneHandler
  <2> QED BY <2>2, <2>3
<1>2. ASSUME NEW h \in handling, applyStripeEvent(h) PROVE Deliveries'
  <2>1. UNCHANGED <<money, marks, sponsors, entering>> /\ contributions' = Becomes(h.event)
    BY <1>2 DEF applyStripeEvent, recognition
  <2>2. \/ handling' = (handling \ {h}) \cup {[h EXCEPT !.step = "sponsor"]} /\ posted' = posted
        \/ Ended(h) /\ Acknowledged(h)
    BY <1>2 DEF applyStripeEvent
  <2>3. [h EXCEPT !.step = "sponsor"] \in Handlers /\ [h EXCEPT !.step = "sponsor"].event = h.event
        /\ [h EXCEPT !.step = "sponsor"].awaited = h.awaited /\ h.event \in Events
    BY HandlerParts, HandlerMarked DEF Deliveries
  <2>4. OneHandler' /\ posted' \subseteq Events /\ handling' \subseteq [event : marks', step : {"apply", "sponsor"}, awaited : BOOLEAN]
    BY <2>1, <2>2, <2>3, HandlingStep
  <2> QED BY <2>1, <2>3, <2>4, BecomesTyped DEF Deliveries, PaymentsTypeOK
<1>3. ASSUME NEW h \in handling, NEW x \in SponsorRows, InsertSponsor(h, x) PROVE Deliveries'
  <2>1. h \in Handlers /\ h.event[1] \in Sessions
    BY HandlerMarked, EventParts DEF Deliveries
  <2>2. OneHandler' /\ posted' \subseteq Events /\ handling' \subseteq [event : marks', step : {"apply", "sponsor"}, awaited : BOOLEAN]
    BY <1>3, <2>1, HandlingStep DEF InsertSponsor
  <2> QED BY <1>3, <2>1, <2>2 DEF InsertSponsor, Deliveries, PaymentsTypeOK
<1>4. ASSUME NEW h \in handling, TakeBack(h) PROVE Deliveries'
  <2>1. /\ UNCHANGED <<money, posted, contributions, sponsors, entering>>
        /\ marks' = marks \ {h.event} /\ handling' = handling \ {h}
    BY <1>4 DEF TakeBack, Unmark, Ended, atStripe, recognition
  <2>2. \A g \in handling' : g.event \in marks'
    BY <2>1, HandlerMarked DEF Deliveries, OneHandler
  <2> QED BY <2>1, <2>2 DEF Deliveries, PaymentsTypeOK, OneHandler
<1>5. ASSUME NEW h \in handling, TimeOut(h) PROVE Deliveries'
  <2>1. [h EXCEPT !.awaited = FALSE] \in Handlers /\ [h EXCEPT !.awaited = FALSE].event = h.event
        /\ [h EXCEPT !.awaited = FALSE].awaited = FALSE
    BY HandlerParts DEF Deliveries
  <2>2. OneHandler' /\ handling' \subseteq [event : marks', step : {"apply", "sponsor"}, awaited : BOOLEAN]
    BY <1>5, <2>1, HandlingStep DEF TimeOut, atStripe
  <2> QED BY <1>5, <2>2 DEF TimeOut, Deliveries, PaymentsTypeOK, atStripe, recognition
<1>6. ASSUME NEW h \in handling, ProcessDies(h) PROVE Deliveries'
  <2>1. h \in Handlers
    BY HandlerMarked DEF Deliveries
  <2>2. OneHandler' /\ handling' \subseteq [event : marks', step : {"apply", "sponsor"}, awaited : BOOLEAN]
    BY <1>6, <2>1, HandlingStep DEF ProcessDies, atStripe
  <2> QED BY <1>6, <2>2 DEF ProcessDies, Deliveries, PaymentsTypeOK, atStripe, recognition
<1> QED BY <1>1, <1>2, <1>3, <1>4, <1>5, <1>6 DEF StripeWebhook

LEMMA DeliveriesStep == Deliveries /\ [PaymentsNext]_paymentVars => Deliveries'
<1>1. ASSUME Deliveries, UNCHANGED paymentVars PROVE Deliveries'
  BY <1>1 DEF paymentVars, Deliveries, PaymentsTypeOK, OneHandler
<1> QED BY <1>1, CheckoutTyped, SponsorsTyped, WebhookTyped DEF PaymentsNext

\* Rows keep their types, and a delivery past its mark is of a marked event.
THEOREM PaymentsTyped == PaymentsSpec => []PaymentsTypeOK
<1>1. Deliveries => PaymentsTypeOK
  BY DEF Deliveries
<1> QED BY <1>1, DeliveriesInit, DeliveriesStep, PTL DEF PaymentsSpec

-----------------------------------------------------------------------------
(* What is recorded as paid was paid *)

PaidKinds == {"completed", "async_succeeded"}
Said(s, k) == <<s, k>> \in posted \/ <<s, k>> \in marks

\* Stripe says only what is so, and says once that a session was paid.
StripeIsTrue ==
  \A s \in Sessions :
    /\ \A k \in EventKinds : Said(s, k) => /\ money[s] \notin {"none", "open"}
                                           /\ money[s] = "processing" => k = "completed_unpaid"
                                           /\ k \in PaidKinds => money[s] \in {"paid", "refunded"}
                                           /\ k = "async_failed" => money[s] = "failed"
                                           /\ k = "refunded" => money[s] = "refunded"
    /\ ~(Said(s, "completed") /\ Said(s, "async_succeeded"))

\* Only what was paid is recorded as paid, or as paid and refunded.
RowsFollowMoney ==
  \A s \in Sessions : /\ contributions[s].status \in {"paid", "refunded"} => money[s] \in {"paid", "refunded"}
                      /\ contributions[s].status = "refunded" => money[s] = "refunded"

PaidInv == Deliveries /\ StripeIsTrue /\ RowsFollowMoney

LEMMA PaidInit == PaymentsInit => PaidInv
<1>1. PaymentsInit => StripeIsTrue /\ RowsFollowMoney
  BY DEF PaymentsInit, StripeIsTrue, Said, RowsFollowMoney, NoRow
<1> QED BY <1>1, DeliveriesInit DEF PaidInv

\* Nothing new is said and no money moves.
LEMMA TruthKept ==
  ASSUME StripeIsTrue, posted' \cup marks' \subseteq posted \cup marks, money' = money
  PROVE  StripeIsTrue'
<1>1. \A s, k : Said(s, k)' => Said(s, k)
  BY DEF Said
<1> QED BY <1>1 DEF StripeIsTrue

LEMMA TruthPosted ==
  ASSUME PaymentsTypeOK, StripeIsTrue, RowsFollowMoney, UNCHANGED <<contributions, marks>>,
         NEW s \in Sessions, NEW now, NEW kind \in EventKinds, Posts(s, now, kind),
         \/ money[s] = "open" /\ <<now, kind>> \in {<<"paid", "completed">>, <<"processing", "completed_unpaid">>}
         \/ money[s] = "processing" /\ <<now, kind>> \in {<<"paid", "async_succeeded">>, <<"failed", "async_failed">>}
         \/ money[s] = "paid" /\ now = "refunded" /\ kind = "refunded"
  PROVE  StripeIsTrue' /\ RowsFollowMoney'
<1>1. /\ \A t \in Sessions : money'[t] = IF t = s THEN now ELSE money[t]
      /\ \A t, k : Said(t, k)' <=> Said(t, k) \/ (t = s /\ k = kind)
  BY DEF Posts, Said, PaymentsTypeOK
<1>2. RowsFollowMoney'
  BY <1>1 DEF RowsFollowMoney
<1>3. ASSUME NEW t \in Sessions, t # s
      PROVE  /\ \A k \in EventKinds : Said(t, k)' => /\ money'[t] \notin {"none", "open"}
                                                     /\ money'[t] = "processing" => k = "completed_unpaid"
                                                     /\ k \in PaidKinds => money'[t] \in {"paid", "refunded"}
                                                     /\ k = "async_failed" => money'[t] = "failed"
                                                     /\ k = "refunded" => money'[t] = "refunded"
             /\ ~(Said(t, "completed") /\ Said(t, "async_succeeded"))'
  BY <1>1, <1>3 DEF StripeIsTrue
<1>4. ASSUME NEW k \in EventKinds, Said(s, k)'
      PROVE  /\ now \notin {"none", "open"}
             /\ now = "processing" => k = "completed_unpaid"
             /\ k \in PaidKinds => now \in {"paid", "refunded"}
             /\ k = "async_failed" => now = "failed"
             /\ k = "refunded" => now = "refunded"
  BY <1>1, <1>4 DEF StripeIsTrue, PaidKinds
<1>5. ~(Said(s, "completed") /\ Said(s, "async_succeeded"))'
  BY <1>1 DEF StripeIsTrue, PaidKinds, EventKinds
<1> QED BY <1>1, <1>2, <1>3, <1>4, <1>5 DEF StripeIsTrue

\* A delivery that is applied records what Stripe said.
LEMMA RowsApplied ==
  ASSUME Deliveries, StripeIsTrue, RowsFollowMoney, NEW h \in handling, contributions' = Becomes(h.event), money' = money
  PROVE  RowsFollowMoney'
<1> DEFINE e == h.event
<1>1. e \in Events /\ e \in marks
  BY HandlerMarked DEF Deliveries
<1>2. e[1] \in Sessions /\ e[2] \in EventKinds /\ Said(e[1], e[2])
  BY <1>1, EventParts DEF Said
<1>3. /\ Paid(e[2]) => money[e[1]] \in {"paid", "refunded"}
      /\ e[2] = "refunded" => money[e[1]] = "refunded"
  BY <1>2 DEF StripeIsTrue, Paid, PaidKinds
<1>4. ASSUME NEW s \in Sessions, contributions'[s].status # contributions[s].status
      PROVE  /\ s = e[1] /\ e[2] # "completed_unpaid"
             /\ contributions'[s].status = IF Paid(e[2]) THEN "paid" ELSE IF e[2] = "async_failed" THEN "failed" ELSE "refunded"
  BY <1>1, <1>4, BecomesTyped DEF Deliveries
<1>5. ASSUME NEW s \in Sessions
      PROVE  /\ contributions'[s].status \in {"paid", "refunded"} => money[s] \in {"paid", "refunded"}
             /\ contributions'[s].status = "refunded" => money[s] = "refunded"
  <2>1. CASE contributions'[s].status = contributions[s].status
    BY <2>1 DEF RowsFollowMoney
  <2>2. CASE contributions'[s].status # contributions[s].status
    BY <1>2, <1>3, <1>4, <2>2 DEF EventKinds, Paid
  <2> QED BY <2>1, <2>2
<1> QED BY <1>5 DEF RowsFollowMoney

LEMMA PaidStep == PaidInv /\ [PaymentsNext]_paymentVars => PaidInv'
<1> SUFFICES ASSUME PaidInv, [PaymentsNext]_paymentVars PROVE PaidInv'
  OBVIOUS
<1>1. Deliveries /\ PaymentsTypeOK /\ StripeIsTrue /\ RowsFollowMoney /\ Deliveries'
  BY DeliveriesStep DEF PaidInv, Deliveries
<1>2. ASSUME posted' \cup marks' \subseteq posted \cup marks, UNCHANGED <<money, contributions>> PROVE PaidInv'
  BY <1>1, <1>2, TruthKept DEF PaidInv, RowsFollowMoney
<1>3. ASSUME NEW s \in Sessions, NEW public \in BOOLEAN, createSupportCheckout(s, public) PROVE PaidInv'
  <2>1. /\ money[s] = "none" /\ money' = [money EXCEPT ![s] = "open"] /\ UNCHANGED <<posted, marks>>
        /\ \A t \in Sessions : contributions'[t] = contributions[t] \/ contributions'[t].status = "pending"
    BY <1>1, <1>3 DEF createSupportCheckout, arriving, NoRow, PaymentsTypeOK
  <2>2. \A t, k : Said(t, k)' <=> Said(t, k)
    BY <2>1 DEF Said
  <2>3. \A t \in Sessions : money'[t] = IF t = s THEN "open" ELSE money[t]
    BY <1>1, <2>1 DEF PaymentsTypeOK
  <2>4. StripeIsTrue'
    BY <1>1, <2>1, <2>2, <2>3 DEF StripeIsTrue
  <2>5. RowsFollowMoney'
    BY <1>1, <2>1, <2>3 DEF RowsFollowMoney
  <2> QED BY <1>1, <2>4, <2>5 DEF PaidInv
<1>4. ASSUME NEW s \in Sessions, Pay(s) \/ Settle(s) \/ RefundCharge(s) PROVE PaidInv'
  BY <1>1, <1>4, TruthPosted DEF PaidInv, Pay, Settle, RefundCharge, EventKinds, arriving
<1>5. ASSUME NEW e \in Events, processStripeEvent(e) PROVE PaidInv'
  BY <1>2, <1>5 DEF processStripeEvent
<1>6. ASSUME NEW h \in handling, applyStripeEvent(h) PROVE PaidInv'
  <2>1. money' = money /\ marks' = marks /\ posted' \subseteq posted /\ contributions' = Becomes(h.event)
    BY <1>6 DEF applyStripeEvent, Acknowledged
  <2> QED BY <1>1, <2>1, RowsApplied, TruthKept DEF PaidInv
<1>7. ASSUME NEW h \in handling, \/ TakeBack(h) \/ TimeOut(h) \/ ProcessDies(h)
                                 \/ \E x \in SponsorRows : InsertSponsor(h, x)
      PROVE  PaidInv'
  BY <1>2, <1>7 DEF TakeBack, TimeOut, ProcessDies, InsertSponsor, Unmark, Acknowledged, atStripe
<1>8. ASSUME SponsorsRoute PROVE PaidInv'
  BY <1>2, <1>8 DEF SponsorsRoute, createOrganizationSponsor, EnterSponsor, updateOrganizationSponsor, endOrganizationSponsor, atStripe, arriving
<1>9. CASE UNCHANGED paymentVars
  BY <1>2, <1>9 DEF paymentVars
<1> QED BY <1>3, <1>4, <1>5, <1>6, <1>7, <1>8, <1>9 DEF PaymentsNext, CheckoutRoute, Stripe, StripeWebhook

\* No contribution is counted as paid before Stripe has the money, in whatever
\* order the events of its sessions arrive, fail and arrive again.
THEOREM PaidCorrect == PaymentsSpec => []PaidIsPaid
<1>1. PaidInv => PaidIsPaid
  BY DEF PaidInv, RowsFollowMoney, PaidIsPaid
<1> QED BY <1>1, PaidInit, PaidStep, PTL DEF PaymentsSpec

-----------------------------------------------------------------------------
(* A contribution makes one sponsor *)

\* The delivery that made a sponsor has ended and left its mark, and there is
\* no other event that says the same.
SponsorMade(s) ==
  /\ \E k \in PaidKinds : <<s, k>> \in marks
  /\ \A h \in handling, k \in PaidKinds : h.event # <<s, k>>

SponsorInv ==
  /\ \A h \in handling : h.step = "sponsor" => h.event[2] \in PaidKinds
  /\ \A x, y \in SponsorRows : sponsors[x].of \in Sessions /\ sponsors[x].of = sponsors[y].of => x = y
  /\ \A x \in SponsorRows : sponsors[x].of \in Sessions => SponsorMade(sponsors[x].of)

LEMMA SponsorMeans == SponsorInv => OneSponsorEach
<1> SUFFICES ASSUME SponsorInv, NEW s \in Sessions PROVE Cardinality(SponsorsOf(s)) <= 1
  BY DEF OneSponsorEach
<1>1. CASE SponsorsOf(s) = {}
  BY <1>1, FS_EmptySet
<1>2. CASE SponsorsOf(s) # {}
  <2>1. PICK x : x \in SponsorsOf(s)
    BY <1>2
  <2>2. SponsorsOf(s) = {x}
    BY <2>1 DEF SponsorsOf, SponsorInv
  <2> QED BY <2>2, FS_Singleton
<1> QED BY <1>1, <1>2

LEMMA SponsorInit == PaymentsInit => SponsorInv
BY PaymentsAssumption DEF PaymentsInit, SponsorInv, NoSponsor

\* Deliveries end or stay the events they are, and no paid event of a sponsor
\* loses its mark.
LEMMA SponsorsKept ==
  ASSUME SponsorInv, \A x \in SponsorRows : sponsors'[x].of \in {sponsors[x].of, NoSession},
         \A h \in handling' : /\ \E g \in handling : h.event = g.event
                              /\ h.step = "sponsor" => h.event[2] \in PaidKinds,
         \A e \in marks \ marks' : \E g \in handling : e = g.event
  PROVE  SponsorInv'
<1>1. ASSUME NEW s \in Sessions, SponsorMade(s) PROVE SponsorMade(s)'
  BY <1>1 DEF SponsorMade
<1> QED BY <1>1, PaymentsAssumption DEF SponsorInv

LEMMA SponsorStep == PaidInv /\ SponsorInv /\ [PaymentsNext]_paymentVars => SponsorInv'
<1> SUFFICES ASSUME PaidInv, SponsorInv, [PaymentsNext]_paymentVars PROVE SponsorInv'
  OBVIOUS
<1>1. Deliveries /\ PaymentsTypeOK /\ StripeIsTrue
  BY DEF PaidInv, Deliveries
<1>2. ASSUME UNCHANGED <<marks, handling>>, \A x \in SponsorRows : sponsors'[x].of \in {sponsors[x].of, NoSession} PROVE SponsorInv'
  BY <1>2, SponsorsKept DEF SponsorInv
<1>3. ASSUME CheckoutRoute \/ Stripe PROVE SponsorInv'
  BY <1>2, <1>3 DEF CheckoutRoute, Stripe, createSupportCheckout, Pay, Settle, RefundCharge, arriving, recognition
<1>4. ASSUME SponsorsRoute PROVE SponsorInv'
  <2>1. \A x \in SponsorRows : sponsors'[x].of \in {sponsors[x].of, NoSession}
    BY <1>1, <1>4 DEF SponsorsRoute, createOrganizationSponsor, EnterSponsor, updateOrganizationSponsor, endOrganizationSponsor, PaymentsTypeOK
  <2> QED BY <1>2, <1>4, <2>1 DEF SponsorsRoute, createOrganizationSponsor, EnterSponsor, updateOrganizationSponsor, endOrganizationSponsor, arriving
<1>5. ASSUME NEW e \in Events, processStripeEvent(e) PROVE SponsorInv'
  <2>1. CASE Fresh(e)
    <3> DEFINE g == [event |-> e, step |-> "apply", awaited |-> TRUE]
    <3>1. e \in posted /\ e \notin marks /\ marks' = marks \cup {e} /\ handling' = handling \cup {g} /\ sponsors' = sponsors
      BY <1>5, <2>1 DEF processStripeEvent, Fresh, recognition
    <3>2. g.event = e /\ g.step = "apply"
      OBVIOUS
    <3> HIDE DEF g
    <3>3. ASSUME NEW s \in Sessions, SponsorMade(s), NEW k \in PaidKinds PROVE e # <<s, k>>
      <4>1. PICK j \in PaidKinds : <<s, j>> \in marks
        BY <3>3 DEF SponsorMade
      <4>2. j # k => ~(Said(s, j) /\ Said(s, k))
        BY <1>1, <3>3 DEF StripeIsTrue, PaidKinds
      <4> QED BY <3>1, <4>1, <4>2 DEF Said
    <3>4. ASSUME NEW s \in Sessions, SponsorMade(s) PROVE SponsorMade(s)'
      BY <3>1, <3>2, <3>3, <3>4 DEF SponsorMade
    <3> QED BY <3>1, <3>2, <3>4 DEF SponsorInv
  <2>2. CASE ~Fresh(e)
    BY <1>2, <1>5, <2>2 DEF processStripeEvent, recognition
  <2> QED BY <2>1, <2>2
<1>6. ASSUME NEW h \in handling, applyStripeEvent(h) PROVE SponsorInv'
  <2> DEFINE g == [h EXCEPT !.step = "sponsor"]
  <2>1. marks' = marks /\ sponsors' = sponsors
    BY <1>6 DEF applyStripeEvent, recognition
  <2>2. \/ handling' = (handling \ {h}) \cup {g} /\ h.event[2] \in PaidKinds
        \/ handling' = handling \ {h}
    BY <1>6 DEF applyStripeEvent, Sponsorship, Paid, PaidKinds, Ended
  <2>3. g.event = h.event
    BY <1>1, HandlerParts
  <2> HIDE DEF g
  <2> QED BY <2>1, <2>2, <2>3, SponsorsKept DEF SponsorInv
<1>7. ASSUME NEW h \in handling, NEW x \in SponsorRows, InsertSponsor(h, x) PROVE SponsorInv'
  <2> DEFINE s == h.event[1]
  <2>1. /\ marks' = marks /\ handling' = handling \ {h} /\ h.step = "sponsor"
        /\ sponsors' = [sponsors EXCEPT ![x] = [status |-> "active", of |-> s, public |-> FALSE]]
    BY <1>7 DEF InsertSponsor, Ended
  <2>2. h.event \in marks /\ h.event \in Events
    BY <1>1, HandlerMarked
  <2>3. s \in Sessions /\ h.event = <<s, h.event[2]>> /\ h.event[2] \in PaidKinds
    BY <2>1, <2>2, EventParts DEF SponsorInv
  <2>4. \A y \in SponsorRows : sponsors[y].of # s
    BY <2>3 DEF SponsorInv, SponsorMade
  <2>5. \A y \in SponsorRows : sponsors'[y].of = IF y = x THEN s ELSE sponsors[y].of
    BY <1>1, <2>1 DEF PaymentsTypeOK
  <2>6. SponsorMade(s)'
    <3> SUFFICES ASSUME NEW g \in handling, g # h, NEW k \in PaidKinds, g.event = <<s, k>> PROVE FALSE
      BY <2>1, <2>2, <2>3 DEF SponsorMade
    <3>1. g.event # h.event
      BY <1>1 DEF Deliveries, OneHandler
    <3>2. k # h.event[2]
      BY <2>3, <3>1
    <3>3. Said(s, k) /\ Said(s, h.event[2])
      BY <1>1, <2>2, <2>3, HandlerMarked DEF Said
    <3> QED BY <1>1, <2>3, <3>2, <3>3 DEF StripeIsTrue, PaidKinds
  <2>7. ASSUME NEW t \in Sessions, SponsorMade(t) PROVE SponsorMade(t)'
    BY <2>1, <2>7 DEF SponsorMade
  <2> HIDE DEF s
  <2> QED BY <2>1, <2>3, <2>4, <2>5, <2>6, <2>7 DEF SponsorInv
<1>8. ASSUME NEW h \in handling, TakeBack(h) PROVE SponsorInv'
  BY <1>8, SponsorsKept DEF TakeBack, Unmark, Ended, recognition, SponsorInv
<1>9. ASSUME NEW h \in handling, TimeOut(h) PROVE SponsorInv'
  <2> DEFINE g == [h EXCEPT !.awaited = FALSE]
  <2>1. marks' = marks /\ sponsors' = sponsors /\ handling' = (handling \ {h}) \cup {g}
    BY <1>9 DEF TimeOut, recognition
  <2>2. g.event = h.event /\ g.step = h.step
    BY <1>1, HandlerParts
  <2> HIDE DEF g
  <2> QED BY <2>1, <2>2, SponsorsKept DEF SponsorInv
<1>10. ASSUME NEW h \in handling, ProcessDies(h) PROVE SponsorInv'
  BY <1>10, SponsorsKept DEF ProcessDies, Ended, recognition, SponsorInv
<1>11. CASE UNCHANGED paymentVars
  BY <1>2, <1>11 DEF paymentVars
<1> QED BY <1>3, <1>4, <1>5, <1>6, <1>7, <1>8, <1>9, <1>10, <1>11 DEF PaymentsNext, StripeWebhook

\* Whatever is delivered twice, late or again after a failure, no contribution
\* makes a second sponsor, though nothing in the table would refuse one.
THEOREM SponsorCorrect == PaymentsSpec => []OneSponsorEach
BY PaidInit, PaidStep, SponsorInit, SponsorStep, SponsorMeans, PTL DEF PaymentsSpec

-----------------------------------------------------------------------------
(* Once Stripe is silent, what it holds is recorded *)

Applied(s) == contributions[s].status = "paid" /\ (contributions[s].public => SponsorsOf(s) # {})
HandlersOf(s) == {h \in handling : \E k \in PaidKinds : h.event = <<s, k>>}

\* A payment is announced, in hand or recorded; a mark is not left alone.
Settling(s) ==
  /\ (\E k \in PaidKinds : <<s, k>> \in posted) \/ HandlersOf(s) # {} \/ Applied(s)
  /\ (\E k \in PaidKinds : <<s, k>> \in marks) => HandlersOf(s) # {} \/ Applied(s)
  /\ \A h \in HandlersOf(s) : h.step = "sponsor" => contributions[s].status = "paid"

OneSortOfFault == went.kinds \subseteq {"fails"} \/ went.kinds \subseteq {"late"}

SettledInv ==
  OneSortOfFault => /\ went.kinds \subseteq {"fails"} => \A h \in handling : h.awaited
                    /\ \A s \in Sessions : money[s] = "paid" => Settling(s)

LEMMA SettledMeans == SettledInv => SettledIsRecorded
<1> SUFFICES ASSUME SettledInv, OneSortOfFault, NEW s \in Sessions, money[s] = "paid", Quiet(s)
             PROVE  contributions[s].status = "paid" /\ (contributions[s].public => SponsorsOf(s) # {})
  BY DEF SettledIsRecorded, OneSortOfFault, Recorded
<1>1. HandlersOf(s) = {} /\ \A k \in PaidKinds : <<s, k>> \notin posted
  BY DEF Quiet, HandlersOf, PaidKinds, EventKinds
<1> QED BY <1>1 DEF SettledInv, Settling, Applied

LEMMA SettledInit == PaymentsInit => SettledInv
BY DEF PaymentsInit, SettledInv

\* A step that is none of the payment of s, beyond what Stripe may announce.
LEMMA SettlingKept ==
  ASSUME NEW s \in Sessions, Settling(s), HandlersOf(s)' = HandlersOf(s),
         \A k \in PaidKinds : /\ <<s, k>> \in posted => <<s, k>> \in posted'
                              /\ <<s, k>> \in marks' => <<s, k>> \in marks,
         contributions'[s] = contributions[s], SponsorsOf(s) \subseteq SponsorsOf(s)'
  PROVE  Settling(s)'
<1>1. Applied(s) => Applied(s)'
  BY DEF Applied
<1>2. Settling(s)' <=>
        /\ (\E k \in PaidKinds : <<s, k>> \in posted') \/ HandlersOf(s)' # {} \/ Applied(s)'
        /\ (\E k \in PaidKinds : <<s, k>> \in marks') => HandlersOf(s)' # {} \/ Applied(s)'
        /\ \A h \in HandlersOf(s)' : h.step = "sponsor" => contributions'[s].status = "paid"
  BY DEF Settling
<1>3. /\ (\E k \in PaidKinds : <<s, k>> \in posted) \/ HandlersOf(s) # {} \/ Applied(s)
      /\ (\E k \in PaidKinds : <<s, k>> \in marks) => HandlersOf(s) # {} \/ Applied(s)
      /\ \A h \in HandlersOf(s) : h.step = "sponsor" => contributions[s].status = "paid"
  BY DEF Settling
<1> QED BY <1>1, <1>2, <1>3

\* Nobody takes a sponsor of a contribution away.
LEMMA SponsorsStay ==
  ASSUME PaymentsTypeOK, \A x \in SponsorRows : sponsors'[x].of = sponsors[x].of \/ sponsors[x] = NoSponsor
  PROVE  \A s \in Sessions : SponsorsOf(s) \subseteq SponsorsOf(s)'
BY PaymentsAssumption DEF SponsorsOf, NoSponsor

\* With nothing new among deliveries and nothing else gone wrong.
LEMMA SettledElsewhere ==
  ASSUME PaymentsTypeOK, StripeIsTrue, SettledInv, UNCHANGED <<marks, handling, went>>, posted \subseteq posted',
         \A x \in SponsorRows : sponsors'[x].of = sponsors[x].of \/ sponsors[x] = NoSponsor,
         \A s \in Sessions : money'[s] = "paid" =>
           /\ money[s] = "paid" \/ (money[s] \in {"open", "processing"} /\ \E k \in PaidKinds : <<s, k>> \in posted')
           /\ contributions'[s] = contributions[s]
  PROVE  SettledInv'
<1> SUFFICES ASSUME OneSortOfFault, NEW s \in Sessions, money'[s] = "paid" PROVE Settling(s)'
  BY DEF SettledInv, OneSortOfFault
<1>1. HandlersOf(s)' = HandlersOf(s) /\ SponsorsOf(s) \subseteq SponsorsOf(s)'
  BY SponsorsStay DEF HandlersOf
<1>2. CASE money[s] = "paid"
  BY <1>1, <1>2, SettlingKept DEF SettledInv
<1>3. CASE money[s] \in {"open", "processing"} /\ \E k \in PaidKinds : <<s, k>> \in posted'
  <2>1. \A k \in PaidKinds : <<s, k>> \notin marks
    BY <1>3 DEF StripeIsTrue, Said, PaidKinds, EventKinds
  <2>2. HandlersOf(s) = {}
    BY <2>1, HandlerMarked DEF HandlersOf
  <2> QED BY <1>1, <1>3, <2>1, <2>2 DEF Settling
<1> QED BY <1>2, <1>3

\* Of what is paid for s there is one delivery at most past its mark.
LEMMA OneInHand ==
  ASSUME Deliveries, StripeIsTrue, NEW s \in Sessions, NEW h \in HandlersOf(s)
  PROVE  /\ HandlersOf(s) = {h}
         /\ \A k \in PaidKinds : <<s, k>> \in marks => h.event = <<s, k>>
<1>1. PICK k \in PaidKinds : h \in handling /\ h.event = <<s, k>> /\ <<s, k>> \in marks
  BY HandlerMarked DEF HandlersOf, Deliveries
<1>2. \A j \in PaidKinds : <<s, j>> \in marks => j = k
  BY <1>1 DEF StripeIsTrue, Said, PaidKinds
<1>3. ASSUME NEW g \in HandlersOf(s) PROVE g = h
  <2>1. PICK j \in PaidKinds : g \in handling /\ g.event = <<s, j>> /\ <<s, j>> \in marks
    BY HandlerMarked DEF HandlersOf, Deliveries
  <2> QED BY <1>1, <1>2, <2>1 DEF Deliveries, OneHandler
<1> QED BY <1>1, <1>2, <1>3

LEMMA SettledApplied ==
  ASSUME PaidInv, SponsorInv, SettledInv, NEW h \in handling, applyStripeEvent(h)
  PROVE  SettledInv'
<1> DEFINE g == [h EXCEPT !.step = "sponsor"]
<1>1. Deliveries /\ PaymentsTypeOK /\ StripeIsTrue
  BY DEF PaidInv, Deliveries
<1>2. /\ g.event = h.event /\ g.step = "sponsor" /\ g.awaited = h.awaited
      /\ h.event \in Events /\ h.event \in marks
  BY <1>1, HandlerParts, HandlerMarked
<1>3. /\ UNCHANGED <<money, marks, sponsors, went>> /\ contributions' = Becomes(h.event)
      /\ \/ Sponsorship(h.event) /\ handling' = (handling \ {h}) \cup {g} /\ posted' = posted
         \/ ~Sponsorship(h.event) /\ handling' = handling \ {h} /\ posted' \in {posted, posted \ {h.event}}
  BY DEF applyStripeEvent, Ended, Acknowledged, recognition
<1> HIDE DEF g
<1> SUFFICES ASSUME OneSortOfFault, NEW s \in Sessions, money[s] = "paid" PROVE Settling(s)'
  BY <1>2, <1>3 DEF SettledInv, OneSortOfFault
<1>4. Settling(s)
  BY DEF SettledInv
<1>5. SponsorsOf(s)' = SponsorsOf(s)
  BY <1>3 DEF SponsorsOf
<1>6. CASE h \in HandlersOf(s)
  <2>1. HandlersOf(s) = {h} /\ h.event[1] = s /\ h.event[2] \in PaidKinds
    BY <1>1, <1>6, OneInHand DEF HandlersOf
  <2>2. contributions'[s].status = "paid" /\ contributions'[s].public = contributions[s].public
    BY <1>1, <1>2, <1>3, <2>1, BecomesTyped DEF Paid, PaidKinds
  <2>3. CASE Sponsorship(h.event)
    <3>1. HandlersOf(s)' = {g}
      BY <1>2, <1>3, <1>6, <2>1, <2>3 DEF HandlersOf
    <3> QED BY <2>2, <3>1 DEF Settling
  <2>4. CASE ~Sponsorship(h.event)
    <3>1. ~contributions[s].public
      BY <2>1, <2>4 DEF Sponsorship, Paid, PaidKinds
    <3>2. Applied(s)' /\ HandlersOf(s)' = {}
      BY <1>3, <2>1, <2>2, <2>4, <3>1 DEF Applied, HandlersOf
    <3> QED BY <3>2 DEF Settling
  <2> QED BY <2>3, <2>4
<1>7. CASE h \notin HandlersOf(s)
  <2>1. \A k \in PaidKinds : h.event # <<s, k>>
    BY <1>7 DEF HandlersOf
  <2>2. HandlersOf(s)' = HandlersOf(s)
    BY <1>2, <1>3, <2>1 DEF HandlersOf
  <2>3. contributions'[s] = contributions[s]
    <3>1. CASE h.event[1] # s
      <4>1. \A e \in Events, t \in Sessions : e[1] # t => Becomes(e)[t] = contributions[t]
        BY <1>1 DEF Becomes, PaymentsTypeOK
      <4> QED BY <1>2, <1>3, <3>1, <4>1
    <3>2. CASE h.event[1] = s
      <4>1. Said(s, h.event[2]) /\ h.event[2] \in EventKinds /\ h.event[2] \notin PaidKinds
        BY <1>2, <2>1, <3>2, EventParts DEF Said
      <4>2. h.event[2] = "completed_unpaid"
        BY <1>1, <4>1 DEF StripeIsTrue, EventKinds, PaidKinds
      <4> QED BY <1>1, <1>2, <1>3, <4>2, BecomesTyped
    <3> QED BY <3>1, <3>2
  <2>4. \A k \in PaidKinds : <<s, k>> \in posted => <<s, k>> \in posted'
    BY <1>3, <2>1
  <2> QED BY <1>3, <1>4, <1>5, <2>2, <2>3, <2>4, SettlingKept
<1> QED BY <1>6, <1>7

LEMMA SettledInserted ==
  ASSUME PaidInv, SponsorInv, SettledInv, NEW h \in handling, NEW x \in SponsorRows, InsertSponsor(h, x)
  PROVE  SettledInv'
<1>1. Deliveries /\ PaymentsTypeOK /\ StripeIsTrue
  BY DEF PaidInv, Deliveries
<1>2. /\ UNCHANGED <<money, marks, contributions, went>> /\ handling' = handling \ {h}
      /\ posted' \in {posted, posted \ {h.event}} /\ h.step = "sponsor" /\ sponsors[x] = NoSponsor
      /\ sponsors' = [sponsors EXCEPT ![x] = [status |-> "active", of |-> h.event[1], public |-> FALSE]]
  BY DEF InsertSponsor, Ended, Acknowledged
<1> SUFFICES ASSUME OneSortOfFault, NEW s \in Sessions, money[s] = "paid" PROVE Settling(s)'
  BY <1>2 DEF SettledInv, OneSortOfFault
<1>3. Settling(s)
  BY DEF SettledInv
<1>4. \A y \in SponsorRows : sponsors'[y].of = IF y = x THEN h.event[1] ELSE sponsors[y].of
  BY <1>1, <1>2 DEF PaymentsTypeOK
<1>5. SponsorsOf(s) \subseteq SponsorsOf(s)'
  BY <1>1, <1>2, <1>4, SponsorsStay
<1>6. CASE h \in HandlersOf(s)
  <2>1. HandlersOf(s) = {h} /\ h.event[1] = s
    BY <1>1, <1>6, OneInHand DEF HandlersOf
  <2>2. contributions[s].status = "paid"
    BY <1>2, <1>3, <1>6 DEF Settling
  <2>3. x \in SponsorsOf(s)'
    BY <1>4, <2>1 DEF SponsorsOf
  <2>4. Applied(s)' /\ HandlersOf(s)' = {}
    BY <1>2, <2>1, <2>2, <2>3 DEF Applied, HandlersOf
  <2> QED BY <2>4 DEF Settling
<1>7. CASE h \notin HandlersOf(s)
  <2>1. \A k \in PaidKinds : h.event # <<s, k>>
    BY <1>7 DEF HandlersOf
  <2>2. HandlersOf(s)' = HandlersOf(s)
    BY <1>2, <2>1 DEF HandlersOf
  <2> QED BY <1>2, <1>3, <1>5, <2>1, <2>2, SettlingKept
<1> QED BY <1>6, <1>7

LEMMA SettledArrived ==
  ASSUME PaidInv, SponsorInv, SettledInv, NEW e \in Events, processStripeEvent(e)
  PROVE  SettledInv'
<1>1. Deliveries /\ PaymentsTypeOK /\ StripeIsTrue
  BY DEF PaidInv, Deliveries
<1>2. e \in posted /\ UNCHANGED <<money, contributions, sponsors, went>>
  BY DEF processStripeEvent, recognition
<1>3. \A s \in Sessions : SponsorsOf(s)' = SponsorsOf(s)
  BY <1>2 DEF SponsorsOf
<1>4. CASE Fresh(e)
  <2> DEFINE g == [event |-> e, step |-> "apply", awaited |-> TRUE]
  <2>1. e \notin marks /\ marks' = marks \cup {e} /\ posted' = posted /\ handling' = handling \cup {g}
    BY <1>4 DEF processStripeEvent, Fresh
  <2>2. g.event = e /\ g.step = "apply" /\ g.awaited = TRUE
    OBVIOUS
  <2> HIDE DEF g
  <2> SUFFICES ASSUME OneSortOfFault, NEW s \in Sessions, money[s] = "paid" PROVE Settling(s)'
    BY <1>2, <2>1, <2>2 DEF SettledInv, OneSortOfFault
  <2>3. CASE \E k \in PaidKinds : e = <<s, k>>
    <3>1. HandlersOf(s)' = HandlersOf(s) \cup {g}
      BY <2>1, <2>2, <2>3 DEF HandlersOf
    <3> QED BY <1>2, <2>2, <3>1 DEF Settling, SettledInv
  <2>4. CASE \A k \in PaidKinds : e # <<s, k>>
    <3>1. HandlersOf(s)' = HandlersOf(s)
      BY <2>1, <2>2, <2>4 DEF HandlersOf
    <3> QED BY <1>2, <1>3, <2>1, <2>4, <3>1, SettlingKept DEF SettledInv
  <2> QED BY <2>3, <2>4
<1>5. CASE ~Fresh(e)
  <2>1. e \in marks /\ UNCHANGED <<marks, handling>> /\ posted' = posted \ {e}
    BY <1>5 DEF processStripeEvent, Fresh
  <2> SUFFICES ASSUME OneSortOfFault, NEW s \in Sessions, money[s] = "paid" PROVE Settling(s)'
    BY <1>2, <2>1 DEF SettledInv, OneSortOfFault
  <2>2. HandlersOf(s)' = HandlersOf(s) /\ Applied(s)' = Applied(s)
    BY <1>2, <1>3, <2>1 DEF HandlersOf, Applied
  <2>3. (\E k \in PaidKinds : <<s, k>> \in posted') \/ HandlersOf(s) # {} \/ Applied(s)
    BY <1>2, <2>1 DEF SettledInv, Settling
  <2> QED BY <1>2, <2>1, <2>2, <2>3 DEF SettledInv, Settling
<1> QED BY <1>4, <1>5

\* A delivery that fails is delivered again; one that is late goes on.
LEMMA SettledFaults ==
  ASSUME PaidInv, SponsorInv, SettledInv, NEW h \in handling, TakeBack(h) \/ TimeOut(h) \/ ProcessDies(h)
  PROVE  SettledInv'
<1>1. Deliveries /\ PaymentsTypeOK /\ StripeIsTrue
  BY DEF PaidInv, Deliveries
<1>2. UNCHANGED <<money, posted, contributions, sponsors>>
  BY DEF TakeBack, TimeOut, ProcessDies, atStripe, recognition
<1>3. \A s \in Sessions : SponsorsOf(s)' = SponsorsOf(s)
  BY <1>2 DEF SponsorsOf
<1>4. ASSUME ProcessDies(h) PROVE SettledInv'
  BY <1>4 DEF ProcessDies, Goes, SettledInv, OneSortOfFault
<1>5. ASSUME TimeOut(h) PROVE SettledInv'
  <2> DEFINE g == [h EXCEPT !.awaited = FALSE]
  <2>1. /\ g.event = h.event /\ g.step = h.step
        /\ marks' = marks /\ handling' = (handling \ {h}) \cup {g} /\ went'.kinds = went.kinds \cup {"late"}
    BY <1>1, <1>5, HandlerParts DEF TimeOut, Goes
  <2> HIDE DEF g
  <2>2. OneSortOfFault' => OneSortOfFault /\ ~(went'.kinds \subseteq {"fails"})
    BY <2>1 DEF OneSortOfFault
  <2> SUFFICES ASSUME OneSortOfFault, NEW s \in Sessions, money[s] = "paid" PROVE Settling(s)'
    BY <1>2, <2>2 DEF SettledInv
  <2>3. Settling(s)
    BY DEF SettledInv
  <2>4. CASE h \in HandlersOf(s)
    <3>1. HandlersOf(s)' = (HandlersOf(s) \ {h}) \cup {g}
      BY <2>1, <2>4 DEF HandlersOf
    <3> QED BY <1>2, <2>1, <2>3, <2>4, <3>1 DEF Settling
  <2>5. CASE h \notin HandlersOf(s)
    <3>1. HandlersOf(s)' = HandlersOf(s)
      BY <2>1, <2>5 DEF HandlersOf
    <3> QED BY <1>2, <1>3, <2>1, <2>3, <3>1, SettlingKept
  <2> QED BY <2>4, <2>5
<1>6. ASSUME TakeBack(h) PROVE SettledInv'
  <2>1. marks' = marks \ {h.event} /\ handling' = handling \ {h} /\ went'.kinds = went.kinds \cup {"fails"}
    BY <1>6 DEF TakeBack, Unmark, Ended, Goes
  <2>2. OneSortOfFault' => OneSortOfFault /\ went.kinds \subseteq {"fails"}
    BY <2>1 DEF OneSortOfFault
  <2> SUFFICES ASSUME OneSortOfFault, went.kinds \subseteq {"fails"}, NEW s \in Sessions, money[s] = "paid" PROVE Settling(s)'
    BY <1>2, <2>1, <2>2 DEF SettledInv
  <2>3. Settling(s) /\ h.awaited
    BY DEF SettledInv
  <2>4. CASE h \in HandlersOf(s)
    <3>1. /\ \A k \in PaidKinds : <<s, k>> \in marks => h.event = <<s, k>>
          /\ HandlersOf(s) = {h}
      BY <1>1, <2>4, OneInHand
    <3>2. \E k \in PaidKinds : <<s, k>> \in posted'
      BY <1>1, <1>2, <2>3, <2>4 DEF Deliveries, OneHandler, HandlersOf
    <3>3. HandlersOf(s)' = {} /\ \A k \in PaidKinds : <<s, k>> \notin marks'
      BY <2>1, <3>1 DEF HandlersOf
    <3> QED BY <3>2, <3>3 DEF Settling
  <2>5. CASE h \notin HandlersOf(s)
    <3>1. HandlersOf(s)' = HandlersOf(s)
      BY <2>1, <2>5 DEF HandlersOf
    <3> QED BY <1>2, <1>3, <2>1, <2>3, <3>1, SettlingKept
  <2> QED BY <2>4, <2>5
<1> QED BY <1>4, <1>5, <1>6

LEMMA SettledStep == PaidInv /\ SponsorInv /\ SettledInv /\ [PaymentsNext]_paymentVars => SettledInv'
<1> SUFFICES ASSUME PaidInv, SponsorInv, SettledInv, [PaymentsNext]_paymentVars PROVE SettledInv'
  OBVIOUS
<1>1. PaymentsTypeOK /\ StripeIsTrue
  BY DEF PaidInv, Deliveries
<1>2. ASSUME NEW s \in Sessions, NEW public \in BOOLEAN, createSupportCheckout(s, public) PROVE SettledInv'
  <2>1. /\ UNCHANGED <<marks, handling, went, posted, sponsors>>
        /\ \A t \in Sessions : money'[t] = IF t = s THEN "open" ELSE money[t]
        /\ \A t \in Sessions : t # s => contributions'[t] = contributions[t]
    BY <1>1, <1>2 DEF createSupportCheckout, arriving, recognition, PaymentsTypeOK
  <2> QED BY <1>1, <2>1, SettledElsewhere
<1>3. ASSUME NEW s \in Sessions, Pay(s) \/ Settle(s) \/ RefundCharge(s) PROVE SettledInv'
  <2>1. UNCHANGED <<marks, handling, went, contributions, sponsors>> /\ posted \subseteq posted'
    BY <1>3 DEF Pay, Settle, RefundCharge, Posts, arriving, recognition
  <2>2. \A t \in Sessions : t # s => money'[t] = money[t]
    BY <1>1, <1>3 DEF Pay, Settle, RefundCharge, Posts, PaymentsTypeOK
  <2>3. money'[s] = "paid" => money[s] \in {"open", "processing"} /\ \E k \in PaidKinds : <<s, k>> \in posted'
    BY <1>1, <1>3 DEF Pay, Settle, RefundCharge, Posts, PaymentsTypeOK, PaidKinds
  <2> QED BY <1>1, <2>1, <2>2, <2>3, SettledElsewhere
<1>4. ASSUME SponsorsRoute PROVE SettledInv'
  <2>1. \A x \in SponsorRows : sponsors'[x].of = sponsors[x].of \/ sponsors[x] = NoSponsor
    BY <1>1, <1>4 DEF SponsorsRoute, createOrganizationSponsor, EnterSponsor, updateOrganizationSponsor, endOrganizationSponsor, PaymentsTypeOK
  <2>2. UNCHANGED <<marks, handling, went, posted, money, contributions>>
    BY <1>4 DEF SponsorsRoute, createOrganizationSponsor, EnterSponsor, updateOrganizationSponsor, endOrganizationSponsor, atStripe, arriving
  <2> QED BY <1>1, <2>1, <2>2, SettledElsewhere
<1>5. CASE UNCHANGED paymentVars
  BY <1>1, <1>5, SettledElsewhere DEF paymentVars
<1> QED BY <1>2, <1>3, <1>4, <1>5, SettledApplied, SettledInserted, SettledArrived, SettledFaults
        DEF PaymentsNext, CheckoutRoute, Stripe, StripeWebhook

\* Statements may fail, or events be answered late, as often as they like: when
\* Stripe is silent the payments it holds are recorded, each with its sponsor.
THEOREM SettledCorrect == PaymentsSpec => []SettledIsRecorded
BY PaidInit, PaidStep, SponsorInit, SponsorStep, SettledInit, SettledStep, SettledMeans, PTL DEF PaymentsSpec

\* The books agree with Stripe's, and no session names two sponsors
\* (lib/stripe-support.ts).
THEOREM BooksCorrect == PaymentsSpec => []BooksAgree
<1>1. PaidIsPaid /\ SettledIsRecorded /\ OneSponsorEach => BooksAgree
  BY DEF BooksAgree
<1> QED BY <1>1, PaidCorrect, SettledCorrect, SponsorCorrect, PTL

-----------------------------------------------------------------------------
(* Ideas.  A change of status is decided when it locks its idea and written *)
(* later; what was decided stays right because nothing else changes the     *)
(* status or the original of a locked idea.                                 *)

Statuses == DOMAIN TRANSITIONS
VoteCounts == 0..Cardinality(Voters)
IdeaRows == [status : Statuses, dup : Ideas \cup {NoIdea}, count : VoteCounts]
Changes == [of : Ideas, next : Statuses \ {"none"}, dup : Ideas \cup {NoIdea}]
Votings == [step : {"cast", "count", "write"}, of : Ideas, by : Voters, vote : BOOLEAN, n : VoteCounts]

IdeasTyped == ideas \in [Ideas -> IdeaRows] /\ changing \subseteq Changes /\ voting \subseteq Votings
OriginalOfEach == \A i \in Ideas : (ideas[i].status = "duplicate") <=> (ideas[i].dup \in Ideas \ {i})

\* A change of status holds the lock of its idea alone, and may be written.
Decided(t) ==
  /\ ideas[t.of].status # "none" /\ (t.next # "duplicate" => t.dup = NoIdea)
  /\ statusChanged(t) => ~statusTransitionError(t)
ChangesDecided ==
  /\ \A t, u \in changing : t.of = u.of => t = u
  /\ \A t \in changing : Decided(t)

IdeasInv == IdeasTyped /\ OriginalOfEach /\ ChangesDecided

LEMMA StatusNames ==
  {"none", "new", "under_review", "planned", "in_progress", "shipped", "declined", "duplicate"} = Statuses
BY DEF Statuses, TRANSITIONS

LEMMA CountOfVotes ==
  ASSUME NEW V, V \subseteq Voters
  PROVE  Cardinality(V) \in VoteCounts
BY IdeasAssumption, FS_Subset, FS_CardinalityType DEF VoteCounts

LEMMA NoVotes == 0 \in VoteCounts
BY IdeasAssumption, FS_CardinalityType DEF VoteCounts

LEMMA IdeasInitOK == IdeasInit => IdeasInv
<1> SUFFICES ASSUME IdeasInit PROVE IdeasInv
  OBVIOUS
<1>1. ideas \in [Ideas -> IdeaRows]
  BY NoVotes, StatusNames DEF IdeasInit, IdeaRows
<1> QED BY <1>1, IdeasAssumption DEF IdeasInit, IdeasInv, IdeasTyped, OriginalOfEach, ChangesDecided

\* Whether a change may be written depends on its own idea's row alone.
LEMMA DecidedStays ==
  ASSUME NEW t, Decided(t), ideas'[t.of].status = ideas[t.of].status, ideas'[t.of].dup = ideas[t.of].dup
  PROVE  Decided(t)'
BY DEF Decided, statusChanged, statusTransitionError

\* What a step of the table may do.
Allowed ==
  \A i \in Ideas : ideas'[i].status # ideas[i].status =>
    ideas'[i].status \in TRANSITIONS[ideas[i].status] \/ ideas[i].status = "none"

\* Sending and voting.
LEMMA VotingStep ==
  ASSUME IdeasInv, FeatureRequestsRoute
  PROVE  IdeasInv' /\ Allowed
<1> USE DEF IdeasInv, IdeasTyped, OriginalOfEach, ChangesDecided
<1>1. ASSUME NEW i \in Ideas, createFeatureRequest(i) PROVE IdeasInv' /\ Allowed
  <2>1. ideas' \in [Ideas -> IdeaRows]
    BY <1>1, StatusNames DEF createFeatureRequest, IdeaRows
  <2>2. /\ \A j \in Ideas \ {i} : ideas'[j] = ideas[j]
        /\ ideas[i].status = "none" /\ ideas'[i].status = "new" /\ ideas'[i].dup = ideas[i].dup
        /\ UNCHANGED <<changing, voting>>
    BY <1>1 DEF createFeatureRequest, IdeaRows
  <2>3. \A t \in changing : Decided(t)'
    BY <2>2, DecidedStays DEF Decided, Changes
  <2> QED BY <2>1, <2>2, <2>3 DEF Allowed
<1>2. ASSUME UNCHANGED <<ideas, changing>>, voting' \subseteq Votings PROVE IdeasInv' /\ Allowed
  BY <1>2 DEF Allowed, Decided, statusChanged, statusTransitionError
<1>3. ASSUME NEW i \in Ideas, NEW p \in Voters, NEW vote \in BOOLEAN, setFeatureRequestVote(i, p, vote)
      PROVE  IdeasInv' /\ Allowed
  <2>1. [step |-> "cast", of |-> i, by |-> p, vote |-> vote, n |-> 0] \in Votings
    BY NoVotes, Zenon DEF Votings
  <2> QED BY <1>2, <1>3, <2>1 DEF setFeatureRequestVote
<1>4. ASSUME NEW x \in voting, CastVote(x) PROVE IdeasInv' /\ Allowed
  <2>1. [x EXCEPT !.step = "count"] \in Votings
    BY DEF Votings
  <2> QED BY <1>2, <1>4, <2>1 DEF CastVote
<1>5. ASSUME NEW x \in voting, CountVotes(x) PROVE IdeasInv' /\ Allowed
  <2>1. Cardinality(VotesFor(x.of)) \in VoteCounts
    BY CountOfVotes DEF VotesFor
  <2>2. [x EXCEPT !.step = "write", !.n = Cardinality(VotesFor(x.of))] \in Votings
    BY <2>1 DEF Votings
  <2> QED BY <1>2, <1>5, <2>2 DEF CountVotes
<1>6. ASSUME NEW x \in voting, WriteCount(x) PROVE IdeasInv' /\ Allowed
  <2>1. x.of \in Ideas /\ x.n \in VoteCounts
    BY DEF Votings
  <2>2. /\ ideas' \in [Ideas -> IdeaRows] /\ UNCHANGED changing /\ voting' \subseteq voting
        /\ \A j \in Ideas : ideas'[j].status = ideas[j].status /\ ideas'[j].dup = ideas[j].dup
    BY <1>6, <2>1 DEF WriteCount, IdeaRows
  <2>3. \A t \in changing : Decided(t)'
    BY <2>2, DecidedStays DEF Changes
  <2> QED BY <2>2, <2>3 DEF Allowed
<1> QED BY <1>1, <1>3, <1>4, <1>5, <1>6 DEF FeatureRequestsRoute

\* A change of status locks its idea and decides.
LEMMA DecideStep ==
  ASSUME IdeasInv, NEW i \in Ideas, NEW next \in DOMAIN TRANSITIONS \ {"none"}, NEW original \in Ideas \cup {NoIdea},
         updateFeatureRequestStatus(i, next, original)
  PROVE  IdeasInv' /\ Allowed
<1> USE DEF IdeasInv, IdeasTyped, OriginalOfEach, ChangesDecided
<1> DEFINE t == [of |-> i, next |-> next, dup |-> IF next = "duplicate" THEN Root(original) ELSE NoIdea]
<1>1. Root(original) \in Ideas \cup {NoIdea}
  BY DEF Root, IdeaRows
<1>2. t \in Changes /\ t.of = i /\ (t.next # "duplicate" => t.dup = NoIdea)
  BY <1>1 DEF Changes, Statuses
<1>3. /\ ideas[i].status # "none" /\ ~Locked(i) /\ (statusChanged(t) => ~statusTransitionError(t))
      /\ changing' = changing \cup {t} /\ UNCHANGED <<ideas, voting>>
  BY <1>1, Zenon DEF updateFeatureRequestStatus
<1> HIDE DEF t
<1>4. Decided(t)
  BY <1>2, <1>3 DEF Decided
<1>5. \A u \in changing' : Decided(u)'
  BY <1>3, <1>4, DecidedStays
<1> QED BY <1>2, <1>3, <1>5 DEF Locked, Allowed

\* The change is written, and the votes carried to the original.
LEMMA CommitStep ==
  ASSUME IdeasInv, NEW t \in changing, CommitStatus(t)
  PROVE  IdeasInv' /\ Allowed
<1> USE DEF IdeasInv, IdeasTyped, OriginalOfEach, ChangesDecided
<1> DEFINE all == votes \cup CarriedTo(t)
           counted(i) == Cardinality({p \in Voters : <<i, p>> \in all})
<1>1. t \in Changes /\ Decided(t)
  OBVIOUS
<1>2. \A i \in Ideas : counted(i) \in VoteCounts
  BY CountOfVotes, Zenon
<1>3. /\ changing' = changing \ {t} /\ UNCHANGED voting
      /\ ideas' = [i \in Ideas |->
           IF i = t.of THEN [ideas[i] EXCEPT !.status = t.next, !.dup = t.dup]
           ELSE IF i = t.dup /\ statusChanged(t) THEN [ideas[i] EXCEPT !.count = counted(i)]
           ELSE ideas[i]]
  BY DEF CommitStatus
<1> HIDE DEF counted
<1>4. /\ ideas'[t.of].status = t.next /\ ideas'[t.of].dup = t.dup /\ ideas'[t.of].count = ideas[t.of].count
      /\ ideas'[t.of] \in IdeaRows
  <2>1. ideas'[t.of] = [ideas[t.of] EXCEPT !.status = t.next, !.dup = t.dup]
    BY <1>1, <1>3, Zenon DEF Changes
  <2>2. ideas[t.of] \in IdeaRows /\ t.next \in Statuses /\ t.dup \in Ideas \cup {NoIdea}
    BY <1>1 DEF Changes
  <2> QED BY <2>1, <2>2 DEF IdeaRows
<1>5. \A j \in Ideas \ {t.of} : /\ ideas'[j].status = ideas[j].status /\ ideas'[j].dup = ideas[j].dup
                                /\ ideas'[j] \in IdeaRows
  <2> SUFFICES ASSUME NEW j \in Ideas \ {t.of}
               PROVE  ideas'[j].status = ideas[j].status /\ ideas'[j].dup = ideas[j].dup /\ ideas'[j] \in IdeaRows
    OBVIOUS
  <2>1. ideas'[j] = [ideas[j] EXCEPT !.count = counted(j)] \/ ideas'[j] = ideas[j]
    BY <1>3, Zenon
  <2>2. ideas[j] \in IdeaRows /\ counted(j) \in VoteCounts
    BY <1>2
  <2> QED BY <2>1, <2>2 DEF IdeaRows
<1>6. ideas' \in [Ideas -> IdeaRows]
  BY <1>3, <1>4, <1>5, Zenon
<1>7. (t.next = "duplicate") <=> (t.dup \in Ideas \ {t.of})
  BY <1>1, IdeasAssumption DEF Decided, statusChanged, statusTransitionError, Changes
<1>8. t.next # ideas[t.of].status => t.next \in TRANSITIONS[ideas[t.of].status]
  BY <1>1 DEF Decided, statusChanged, statusTransitionError
<1>9. \A u \in changing' : Decided(u)'
  <2> SUFFICES ASSUME NEW u \in changing' PROVE Decided(u)'
    OBVIOUS
  <2>1. u \in changing /\ u # t
    BY <1>3
  <2>2. Decided(u) /\ u.of \in Ideas \ {t.of}
    BY <2>1 DEF Changes
  <2>3. ideas'[u.of].status = ideas[u.of].status /\ ideas'[u.of].dup = ideas[u.of].dup
    BY <1>5, <2>2
  <2> QED BY <2>2, <2>3, DecidedStays
<1>10. OriginalOfEach' /\ Allowed
  BY <1>4, <1>5, <1>7, <1>8 DEF Allowed
<1>11. IdeasTyped' /\ ChangesDecided'
  BY <1>3, <1>6, <1>9
<1> QED BY <1>10, <1>11

\* Ideas keep to the table of transitions and duplicates to an original of
\* their own, for any number of ideas, votes and administrators at once: each
\* change is written as it was decided.
THEOREM IdeasCorrect == IdeasSpec => IdeasKeepTheRules
<1>1. IdeasInit => IdeasInv
  BY IdeasInitOK
<1>2. IdeasInv /\ [IdeasNext]_ideaVars => IdeasInv' /\ [Allowed]_ideaVars
  <2> SUFFICES ASSUME IdeasInv, [IdeasNext]_ideaVars PROVE IdeasInv' /\ [Allowed]_ideaVars
    OBVIOUS
  <2>1. CASE UNCHANGED ideaVars
    BY <2>1 DEF ideaVars, IdeasInv, IdeasTyped, OriginalOfEach, ChangesDecided, Decided, statusChanged, statusTransitionError
  <2>2. CASE FeatureRequestsRoute
    BY <2>2, VotingStep
  <2>3. CASE AdminFeatureRequestsRoute
    BY <2>3, DecideStep, CommitStep DEF AdminFeatureRequestsRoute
  <2>4. CASE GivesUp
    BY <2>4 DEF GivesUp, IdeasInv, IdeasTyped, OriginalOfEach, ChangesDecided, Decided, statusChanged,
                statusTransitionError, Allowed
  <2> QED BY <2>1, <2>2, <2>3, <2>4 DEF IdeasNext
<1>3. IdeasInv => DuplicatesHaveAnOriginal
  BY DEF IdeasInv, IdeasTyped, OriginalOfEach, DuplicatesHaveAnOriginal, IdeaRows, Statuses, VoteCounts
<1> QED BY <1>1, <1>2, <1>3, PTL DEF IdeasSpec, IdeasKeepTheRules, OnlyAllowedTransitions, Allowed

-----------------------------------------------------------------------------
(* Proposals.  The limits are read when a submission begins and must hold   *)
(* when it is written: until then the person's advisory lock keeps other    *)
(* submissions of theirs away, and every other step only lowers the counts. *)

ProposalRows == [status : {"none", "pending", "changes_requested", "approved", "declined", "withdrawn"},
                 by : Proposers \cup {"nobody"}, today : BOOLEAN, past : BOOLEAN, events : 0..1]
Works == [action : {"submit", "resubmit", "withdraw", "approve", "request_changes", "decline"},
          of : Proposals, by : Proposers \cup {"organizer"}]

SentToday(p) == {i \in Mine(p) : proposals[i].today}
OpenOf(p) == {i \in Mine(p) : isOpenProposalStatus(proposals[i].status)}

ProposalsTyped == proposals \in [Proposals -> ProposalRows] /\ working \subseteq Works

\* There is room for what a submission will write.
MaySubmit(t) ==
  /\ t.by \in Proposers /\ proposals[t.of] = Unsent
  /\ Cardinality(SentToday(t.by)) < PROPOSALS_PER_DAY /\ Cardinality(OpenOf(t.by)) < OPEN_PROPOSALS_MAX
RowsHeld ==
  /\ \A t, u \in working : t.of = u.of => t = u
  /\ \A t, u \in working : t.action = "submit" /\ u.action = "submit" /\ t.by = u.by => t = u
  /\ \A t \in working : IF t.action = "submit" THEN MaySubmit(t) ELSE isOpenProposalStatus(proposals[t.of].status)

ProposalsInv == ProposalsTyped /\ RowsHeld /\ SubmissionsWithinLimits /\ ApprovedHasItsEvent

LEMMA OpenStatuses ==
  \A s : isOpenProposalStatus(s) <=> s \in {"pending", "changes_requested"}
BY DEF isOpenProposalStatus, PROPOSAL_TRANSITIONS

LEMMA FewerProposals ==
  ASSUME NEW S, NEW T, S \subseteq T, T \subseteq Proposals
  PROVE  Cardinality(S) \in Nat /\ Cardinality(T) \in Nat /\ Cardinality(S) <= Cardinality(T)
BY ProposalsAssumption, FS_Subset, FS_CardinalityType

LEMMA OneProposalMore ==
  ASSUME NEW S, S \subseteq Proposals, NEW i \in Proposals
  PROVE  Cardinality(S \cup {i}) <= Cardinality(S) + 1 /\ S \cup {i} \subseteq Proposals
BY ProposalsAssumption, FS_Subset, FS_AddElement, FS_CardinalityType

LEMMA ProposalCounts == \A p : SentToday(p) \subseteq Proposals /\ OpenOf(p) \subseteq Proposals
BY DEF SentToday, OpenOf, Mine

LEMMA ProposalsInitOK == ProposalsInit => ProposalsInv
<1> SUFFICES ASSUME ProposalsInit PROVE ProposalsInv
  OBVIOUS
<1>1. ProposalsTyped /\ RowsHeld /\ ApprovedHasItsEvent
  BY DEF ProposalsInit, Unsent, ProposalsTyped, ProposalRows, RowsHeld, ApprovedHasItsEvent
<1>2. SubmissionsWithinLimits
  <2> SUFFICES ASSUME NEW p \in Proposers
               PROVE  /\ Cardinality({i \in Mine(p) : proposals[i].today}) <= PROPOSALS_PER_DAY
                      /\ Cardinality({i \in Mine(p) : isOpenProposalStatus(proposals[i].status)}) <= OPEN_PROPOSALS_MAX
    BY DEF SubmissionsWithinLimits
  <2>1. {i \in Mine(p) : proposals[i].today} = {}
    BY DEF ProposalsInit, Unsent, Mine
  <2>2. {i \in Mine(p) : isOpenProposalStatus(proposals[i].status)} = {}
    BY OpenStatuses DEF ProposalsInit, Unsent, Mine
  <2>3. Cardinality({}) = 0
    BY FS_EmptySet
  <2>4. PROPOSALS_PER_DAY \in Nat /\ OPEN_PROPOSALS_MAX \in Nat
    BY ProposalsAssumption
  <2> QED BY <2>1, <2>2, <2>3, <2>4
<1> QED BY <1>1, <1>2 DEF ProposalsInv

\* A step that adds nothing to what anybody sent today or has open keeps the
\* limits, and the room of whoever is submitting.
LEMMA LimitsKept ==
  ASSUME ProposalsInv,
         \A p : SentToday(p)' \subseteq SentToday(p) /\ OpenOf(p)' \subseteq OpenOf(p)
  PROVE  /\ SubmissionsWithinLimits'
         /\ \A t \in working : t.action = "submit" /\ proposals'[t.of] = Unsent => MaySubmit(t)'
<1>1. \A p : /\ Cardinality(SentToday(p)') \in Nat /\ Cardinality(SentToday(p)') <= Cardinality(SentToday(p))
             /\ Cardinality(OpenOf(p)') \in Nat /\ Cardinality(OpenOf(p)') <= Cardinality(OpenOf(p))
             /\ Cardinality(SentToday(p)) \in Nat /\ Cardinality(OpenOf(p)) \in Nat
  BY ProposalCounts, FewerProposals
<1>2. \A p \in Proposers : /\ Cardinality(SentToday(p)) <= PROPOSALS_PER_DAY /\ Cardinality(OpenOf(p)) <= OPEN_PROPOSALS_MAX
  BY DEF ProposalsInv, SubmissionsWithinLimits, SentToday, OpenOf
<1>3. \A p \in Proposers : /\ Cardinality(SentToday(p)') <= PROPOSALS_PER_DAY /\ Cardinality(OpenOf(p)') <= OPEN_PROPOSALS_MAX
  BY <1>1, <1>2, ProposalsAssumption
<1>4. SubmissionsWithinLimits'
  BY <1>3 DEF SubmissionsWithinLimits, SentToday, OpenOf
<1>5. ASSUME NEW t \in working, t.action = "submit", proposals'[t.of] = Unsent PROVE MaySubmit(t)'
  <2>1. MaySubmit(t)
    BY <1>5 DEF ProposalsInv, RowsHeld
  <2>2. Cardinality(SentToday(t.by)') < PROPOSALS_PER_DAY /\ Cardinality(OpenOf(t.by)') < OPEN_PROPOSALS_MAX
    BY <1>1, <2>1, ProposalsAssumption DEF MaySubmit
  <2> QED BY <1>5, <2>1, <2>2 DEF MaySubmit
<1> QED BY <1>4, <1>5

\* A transaction takes its row, which was free.
LEMMA OpensOK ==
  ASSUME ProposalsInv, NEW t \in Works, RowFree(t.of), Opens(t), UNCHANGED proposals,
         IF t.action = "submit" THEN MaySubmit(t) /\ SubmitFree(t.by) ELSE isOpenProposalStatus(proposals[t.of].status)
  PROVE  ProposalsInv'
<1>1. /\ SubmissionsWithinLimits' /\ ApprovedHasItsEvent' /\ ProposalsTyped'
      /\ \A u \in working' : MaySubmit(u)' <=> MaySubmit(u)
  BY DEF ProposalsInv, SubmissionsWithinLimits, ApprovedHasItsEvent, ProposalsTyped, Opens, MaySubmit, SentToday, OpenOf,
         Mine, isOpenProposalStatus
<1>2. RowsHeld'
  BY <1>1 DEF ProposalsInv, RowsHeld, Opens, RowFree, SubmitFree, isOpenProposalStatus
<1> QED BY <1>1, <1>2 DEF ProposalsInv

\* A transaction on a row that is not new ends: it leaves the other rows alone,
\* opens nothing and keeps the event of an approved proposal.
LEMMA WritesRow ==
  ASSUME ProposalsInv, NEW t \in working, t.action # "submit", Closes(t),
         proposals' \in [Proposals -> ProposalRows],
         \A i \in Proposals \ {t.of} : proposals'[i] = proposals[i],
         proposals'[t.of].by = proposals[t.of].by, proposals'[t.of].today = proposals[t.of].today,
         proposals'[t.of].events = IF proposals'[t.of].status = "approved" THEN 1 ELSE 0
  PROVE  ProposalsInv'
<1>1. isOpenProposalStatus(proposals[t.of].status) /\ t.of \in Proposals
  BY DEF ProposalsInv, ProposalsTyped, RowsHeld, Works
<1>2. \A p : SentToday(p)' \subseteq SentToday(p) /\ OpenOf(p)' \subseteq OpenOf(p)
  BY <1>1 DEF SentToday, OpenOf, Mine, isOpenProposalStatus
<1>3. \A u \in working' : u \in working /\ u.of \in Proposals \ {t.of}
  BY DEF ProposalsInv, ProposalsTyped, RowsHeld, Closes, Works
<1>4. \A u \in working' : u.action = "submit" => MaySubmit(u)'
  BY <1>2, <1>3, LimitsKept DEF ProposalsInv, RowsHeld, MaySubmit
<1>5. RowsHeld'
  BY <1>3, <1>4 DEF ProposalsInv, RowsHeld, isOpenProposalStatus
<1>6. ProposalsTyped' /\ ApprovedHasItsEvent'
  BY DEF ProposalsInv, ProposalsTyped, ApprovedHasItsEvent, Closes
<1> QED BY <1>2, <1>5, <1>6, LimitsKept DEF ProposalsInv

\* A submission is written: one proposal more for its sender.
LEMMA InsertOK ==
  ASSUME ProposalsInv, NEW t \in working, InsertProposal(t)
  PROVE  ProposalsInv'
<1> DEFINE row == [status |-> "pending", by |-> t.by, today |-> TRUE, past |-> FALSE, events |-> 0]
<1>1. /\ t.action = "submit" /\ MaySubmit(t) /\ t.of \in Proposals /\ t.by \in Proposers
      /\ proposals[t.of] = Unsent
  BY DEF ProposalsInv, ProposalsTyped, RowsHeld, Works, InsertProposal, MaySubmit
<1>2. row \in ProposalRows
  BY <1>1 DEF ProposalRows
<1>3. /\ proposals' = [proposals EXCEPT ![t.of] = row] /\ working' = working \ {t}
      /\ proposals' \in [Proposals -> ProposalRows]
  BY <1>1, <1>2 DEF InsertProposal, Closes, ProposalsInv, ProposalsTyped
<1>4. /\ proposals'[t.of] = row /\ \A i \in Proposals \ {t.of} : proposals'[i] = proposals[i]
  BY <1>1, <1>3 DEF ProposalsInv, ProposalsTyped
<1> HIDE DEF row
<1>5. row.status = "pending" /\ row.by = t.by /\ row.events = 0
  BY DEF row
<1>6. \A p : p # t.by => SentToday(p)' \subseteq SentToday(p) /\ OpenOf(p)' \subseteq OpenOf(p)
  BY <1>4, <1>5 DEF SentToday, OpenOf, Mine, isOpenProposalStatus
<1>7. SentToday(t.by)' \subseteq SentToday(t.by) \cup {t.of} /\ OpenOf(t.by)' \subseteq OpenOf(t.by) \cup {t.of}
  BY <1>4 DEF SentToday, OpenOf, Mine, isOpenProposalStatus
<1>8. /\ Cardinality(SentToday(t.by)') <= PROPOSALS_PER_DAY /\ Cardinality(OpenOf(t.by)') <= OPEN_PROPOSALS_MAX
  <2>1. /\ Cardinality(SentToday(t.by) \cup {t.of}) <= Cardinality(SentToday(t.by)) + 1
        /\ Cardinality(OpenOf(t.by) \cup {t.of}) <= Cardinality(OpenOf(t.by)) + 1
        /\ SentToday(t.by) \cup {t.of} \subseteq Proposals /\ OpenOf(t.by) \cup {t.of} \subseteq Proposals
    BY <1>1, ProposalCounts, OneProposalMore
  <2>2. /\ Cardinality(SentToday(t.by)') \in Nat /\ Cardinality(OpenOf(t.by)') \in Nat
        /\ Cardinality(SentToday(t.by) \cup {t.of}) \in Nat /\ Cardinality(OpenOf(t.by) \cup {t.of}) \in Nat
        /\ Cardinality(SentToday(t.by)') <= Cardinality(SentToday(t.by) \cup {t.of})
        /\ Cardinality(OpenOf(t.by)') <= Cardinality(OpenOf(t.by) \cup {t.of})
    BY <1>7, <2>1, FewerProposals
  <2>3. Cardinality(SentToday(t.by)) \in Nat /\ Cardinality(OpenOf(t.by)) \in Nat
    BY ProposalCounts, FewerProposals
  <2>4. Cardinality(SentToday(t.by)) < PROPOSALS_PER_DAY /\ Cardinality(OpenOf(t.by)) < OPEN_PROPOSALS_MAX
    BY <1>1 DEF MaySubmit
  <2> QED BY <2>1, <2>2, <2>3, <2>4, ProposalsAssumption
<1>9. \A p : p # t.by => /\ Cardinality(SentToday(p)') \in Nat /\ Cardinality(SentToday(p)') <= Cardinality(SentToday(p))
                         /\ Cardinality(OpenOf(p)') \in Nat /\ Cardinality(OpenOf(p)') <= Cardinality(OpenOf(p))
                         /\ Cardinality(SentToday(p)) \in Nat /\ Cardinality(OpenOf(p)) \in Nat
  BY <1>6, ProposalCounts, FewerProposals
<1>10. \A p \in Proposers : Cardinality(SentToday(p)) <= PROPOSALS_PER_DAY /\ Cardinality(OpenOf(p)) <= OPEN_PROPOSALS_MAX
  BY DEF ProposalsInv, SubmissionsWithinLimits, SentToday, OpenOf
<1>11. \A p \in Proposers : Cardinality(SentToday(p)') <= PROPOSALS_PER_DAY /\ Cardinality(OpenOf(p)') <= OPEN_PROPOSALS_MAX
  BY <1>8, <1>9, <1>10, ProposalsAssumption
<1>12. SubmissionsWithinLimits'
  BY <1>11 DEF SubmissionsWithinLimits, SentToday, OpenOf
<1>13. \A u \in working' : u \in working /\ u.of \in Proposals \ {t.of} /\ (u.action = "submit" => u.by # t.by)
  BY <1>1, <1>3 DEF ProposalsInv, ProposalsTyped, RowsHeld, Works
<1>14. ASSUME NEW u \in working', u.action = "submit" PROVE MaySubmit(u)'
  <2>1. MaySubmit(u) /\ u.by # t.by /\ proposals'[u.of] = proposals[u.of]
    BY <1>4, <1>13, <1>14 DEF ProposalsInv, RowsHeld
  <2>2. Cardinality(SentToday(u.by)') < PROPOSALS_PER_DAY /\ Cardinality(OpenOf(u.by)') < OPEN_PROPOSALS_MAX
    BY <1>9, <2>1, ProposalsAssumption DEF MaySubmit
  <2> QED BY <2>1, <2>2 DEF MaySubmit
<1>15. RowsHeld'
  BY <1>4, <1>13, <1>14 DEF ProposalsInv, RowsHeld, isOpenProposalStatus
<1>16. ProposalsTyped' /\ ApprovedHasItsEvent'
  BY <1>1, <1>3, <1>4, <1>5 DEF ProposalsInv, ProposalsTyped, ApprovedHasItsEvent
<1> QED BY <1>12, <1>15, <1>16 DEF ProposalsInv

\* Time passes, and processes die.
LEMMA PassingOK ==
  ASSUME ProposalsInv, DayPasses \/ (\E i \in Proposals : StartPasses(i)) \/ (\E t \in working : Rollback(t))
  PROVE  ProposalsInv'
<1>1. CASE DayPasses
  <2>1. /\ proposals' = [i \in Proposals |-> [proposals[i] EXCEPT !.today = FALSE]] /\ UNCHANGED working
        /\ \A i \in Proposals : proposals[i] \in ProposalRows
    BY <1>1 DEF DayPasses, ProposalsInv, ProposalsTyped
  <2>2. \A i \in Proposals : /\ proposals'[i] \in ProposalRows /\ proposals'[i].today = FALSE
                             /\ proposals'[i].status = proposals[i].status /\ proposals'[i].by = proposals[i].by
                             /\ proposals'[i].events = proposals[i].events
                             /\ proposals[i] = Unsent => proposals'[i] = Unsent
    <3> SUFFICES ASSUME NEW i \in Proposals
                 PROVE  /\ proposals'[i] \in ProposalRows /\ proposals'[i].today = FALSE
                        /\ proposals'[i].status = proposals[i].status /\ proposals'[i].by = proposals[i].by
                        /\ proposals'[i].events = proposals[i].events
                        /\ proposals[i] = Unsent => proposals'[i] = Unsent
      OBVIOUS
    <3>1. proposals'[i] = [proposals[i] EXCEPT !.today = FALSE] /\ proposals[i] \in ProposalRows
      BY <2>1
    <3>2. /\ proposals'[i] \in ProposalRows /\ proposals'[i].today = FALSE
          /\ proposals'[i].status = proposals[i].status /\ proposals'[i].by = proposals[i].by
          /\ proposals'[i].events = proposals[i].events
      BY <3>1 DEF ProposalRows
    <3>3. [Unsent EXCEPT !.today = FALSE] = Unsent
      <4> DEFINE r == [Unsent EXCEPT !.today = FALSE]
      <4>1. Unsent \in ProposalRows /\ Unsent.today = FALSE
        BY DEF Unsent, ProposalRows
      <4> HIDE DEF r
      <4>2. r = [Unsent EXCEPT !.today = FALSE] /\ DOMAIN r = DOMAIN Unsent
        BY DEF r
      <4>3. \A f \in DOMAIN Unsent : r[f] = Unsent[f]
        BY <4>1, <4>2
      <4> QED BY <4>1, <4>2, <4>3 DEF ProposalRows
    <3> QED BY <3>1, <3>2, <3>3
  <2>3. \A p : SentToday(p)' \subseteq SentToday(p) /\ OpenOf(p)' \subseteq OpenOf(p)
    BY <2>2 DEF SentToday, OpenOf, Mine, isOpenProposalStatus
  <2>4. RowsHeld'
    BY <2>1, <2>2, <2>3, LimitsKept DEF ProposalsInv, ProposalsTyped, RowsHeld, Works, MaySubmit, isOpenProposalStatus
  <2>5. ProposalsTyped' /\ ApprovedHasItsEvent'
    BY <2>1, <2>2 DEF ProposalsInv, ProposalsTyped, ApprovedHasItsEvent
  <2> QED BY <2>3, <2>4, <2>5, LimitsKept DEF ProposalsInv
<1>2. ASSUME NEW i \in Proposals, StartPasses(i) PROVE ProposalsInv'
  <2>1. /\ proposals' = [proposals EXCEPT ![i].past = TRUE] /\ UNCHANGED working /\ RowFree(i)
        /\ \A j \in Proposals : proposals[j] \in ProposalRows
    BY <1>2 DEF StartPasses, ProposalsInv, ProposalsTyped
  <2>2. /\ \A j \in Proposals \ {i} : proposals'[j] = proposals[j]
        /\ \A j \in Proposals : /\ proposals'[j] \in ProposalRows /\ proposals'[j].today = proposals[j].today
                                /\ proposals'[j].status = proposals[j].status /\ proposals'[j].by = proposals[j].by
                                /\ proposals'[j].events = proposals[j].events
    BY <2>1 DEF ProposalRows, ProposalsInv, ProposalsTyped
  <2>3. \A p : SentToday(p)' \subseteq SentToday(p) /\ OpenOf(p)' \subseteq OpenOf(p)
    BY <2>2 DEF SentToday, OpenOf, Mine, isOpenProposalStatus
  <2>4. \A t \in working : t.of \in Proposals \ {i}
    BY <2>1 DEF ProposalsInv, ProposalsTyped, Works, RowFree
  <2>5. RowsHeld'
    BY <2>1, <2>2, <2>3, <2>4, LimitsKept DEF ProposalsInv, RowsHeld, MaySubmit, isOpenProposalStatus
  <2>6. ProposalsTyped' /\ ApprovedHasItsEvent'
    BY <2>1, <2>2 DEF ProposalsInv, ProposalsTyped, ApprovedHasItsEvent
  <2> QED BY <2>3, <2>5, <2>6, LimitsKept DEF ProposalsInv
<1>3. ASSUME NEW t \in working, Rollback(t) PROVE ProposalsInv'
  BY <1>3 DEF Rollback, Closes, ProposalsInv, ProposalsTyped, RowsHeld, MaySubmit, SentToday, OpenOf, Mine,
              isOpenProposalStatus, SubmissionsWithinLimits, ApprovedHasItsEvent
<1> QED BY <1>1, <1>2, <1>3

\* Members: what they begin, and what they write.
LEMMA MembersOK ==
  ASSUME ProposalsInv, EventProposalsRoute
  PROVE  ProposalsInv'
<1>1. ASSUME NEW i \in Proposals, NEW p \in Proposers, submitEventProposal(i, p) PROVE ProposalsInv'
  <2> DEFINE t == [action |-> "submit", of |-> i, by |-> p]
  <2>1. t \in Works /\ t.action = "submit" /\ t.of = i /\ t.by = p
    BY DEF Works
  <2>2. RowFree(i) /\ SubmitFree(p) /\ Opens(t) /\ UNCHANGED proposals /\ proposals[i] = Unsent
    BY <1>1 DEF submitEventProposal
  <2>3. Cardinality(SentToday(p)) < PROPOSALS_PER_DAY /\ Cardinality(OpenOf(p)) < OPEN_PROPOSALS_MAX
    <3>1. ~(Cardinality(SentToday(p)) >= PROPOSALS_PER_DAY) /\ ~(Cardinality(OpenOf(p)) >= OPEN_PROPOSALS_MAX)
      BY <1>1 DEF submitEventProposal, proposalSubmitDenial, SentToday, OpenOf
    <3>2. Cardinality(SentToday(p)) \in Nat /\ Cardinality(OpenOf(p)) \in Nat
      BY ProposalCounts, FewerProposals
    <3> QED BY <3>1, <3>2, ProposalsAssumption
  <2> HIDE DEF t
  <2> QED BY <2>1, <2>2, <2>3, OpensOK DEF MaySubmit
<1>2. ASSUME NEW i \in Proposals, NEW p \in Proposers, NEW a \in {"resubmit", "withdraw"},
             RowFree(i), assertProposalTransition(i, a), Opens([action |-> a, of |-> i, by |-> p]), UNCHANGED proposals
      PROVE  ProposalsInv'
  <2> DEFINE t == [action |-> a, of |-> i, by |-> p]
  <2>1. t \in Works /\ t.action # "submit" /\ t.of = i
    BY DEF Works
  <2> HIDE DEF t
  <2> QED BY <1>2, <2>1, OpensOK DEF t, assertProposalTransition
<1>3. ASSUME NEW i \in Proposals, NEW p \in Proposers, resubmitEventProposal(i, p) \/ withdrawEventProposal(i, p)
      PROVE  ProposalsInv'
  BY <1>2, <1>3 DEF resubmitEventProposal, withdrawEventProposal, lockOwnProposal
<1>4. ASSUME NEW t \in working, UpdateProposal(t) PROVE ProposalsInv'
  <2>1. /\ t.of \in Proposals /\ t.action \in {"resubmit", "withdraw"} /\ Closes(t)
        /\ isOpenProposalStatus(proposals[t.of].status) /\ proposals[t.of] \in ProposalRows
        /\ proposals \in [Proposals -> ProposalRows]
    BY <1>4 DEF UpdateProposal, ProposalsInv, ProposalsTyped, RowsHeld, Works
  <2>2. proposals[t.of].events = 0
    BY <2>1, OpenStatuses DEF ProposalsInv, ApprovedHasItsEvent
  <2>3. /\ proposals' \in [Proposals -> ProposalRows] /\ \A i \in Proposals \ {t.of} : proposals'[i] = proposals[i]
        /\ proposals'[t.of].by = proposals[t.of].by /\ proposals'[t.of].today = proposals[t.of].today
        /\ proposals'[t.of].events = proposals[t.of].events /\ proposals'[t.of].status \in {"pending", "withdrawn"}
    BY <1>4, <2>1 DEF UpdateProposal, ProposalRows
  <2> QED BY <2>1, <2>2, <2>3, WritesRow
<1> QED BY <1>1, <1>3, <1>4, InsertOK, PassingOK DEF EventProposalsRoute

\* Organizers.
LEMMA OrganizersOK ==
  ASSUME ProposalsInv,
         \/ \E i \in Proposals, a \in {"approve", "request_changes", "decline"} : moderateEventProposal(i, a)
         \/ \E t \in working : DecideProposal(t)
  PROVE  ProposalsInv'
<1>1. ASSUME NEW i \in Proposals, NEW a \in {"approve", "request_changes", "decline"}, moderateEventProposal(i, a)
      PROVE  ProposalsInv'
  <2> DEFINE t == [action |-> a, of |-> i, by |-> "organizer"]
  <2>1. t \in Works /\ t.action # "submit" /\ t.of = i
    BY DEF Works
  <2>2. RowFree(i) /\ isOpenProposalStatus(proposals[i].status) /\ Opens(t) /\ UNCHANGED proposals
    BY <1>1 DEF moderateEventProposal, assertProposalTransition
  <2> HIDE DEF t
  <2> QED BY <2>1, <2>2, OpensOK
<1>2. ASSUME NEW t \in working, DecideProposal(t) PROVE ProposalsInv'
  <2>1. /\ t.of \in Proposals /\ t.action \in {"approve", "request_changes", "decline"} /\ Closes(t)
        /\ isOpenProposalStatus(proposals[t.of].status) /\ proposals[t.of] \in ProposalRows
        /\ proposals \in [Proposals -> ProposalRows]
    BY <1>2 DEF DecideProposal, ProposalsInv, ProposalsTyped, RowsHeld, Works
  <2>2. proposals[t.of].events = 0
    BY <2>1, OpenStatuses DEF ProposalsInv, ApprovedHasItsEvent
  <2>3. CASE t.action = "approve"
    <3>1. proposals' = [proposals EXCEPT ![t.of].status = "approved", ![t.of].events = createManualEvent(@)]
      BY <1>2, <2>3 DEF DecideProposal
    <3>2. /\ proposals' \in [Proposals -> ProposalRows] /\ \A i \in Proposals \ {t.of} : proposals'[i] = proposals[i]
          /\ proposals'[t.of].by = proposals[t.of].by /\ proposals'[t.of].today = proposals[t.of].today
          /\ proposals'[t.of].events = 1 /\ proposals'[t.of].status = "approved"
      BY <2>1, <2>2, <3>1 DEF ProposalRows, createManualEvent
    <3> QED BY <2>1, <2>3, <3>2, WritesRow
  <2>4. CASE t.action # "approve"
    <3>1. PICK s \in {"declined", "changes_requested"} :
            proposals' = [proposals EXCEPT ![t.of].status = s, ![t.of].events = @]
      BY <1>2, <2>1, <2>4 DEF DecideProposal
    <3>2. /\ proposals' \in [Proposals -> ProposalRows] /\ \A i \in Proposals \ {t.of} : proposals'[i] = proposals[i]
          /\ proposals'[t.of].by = proposals[t.of].by /\ proposals'[t.of].today = proposals[t.of].today
          /\ proposals'[t.of].events = 0 /\ proposals'[t.of].status = s
      BY <2>1, <2>2, <3>1 DEF ProposalRows
    <3> QED BY <2>1, <3>2, WritesRow
  <2> QED BY <2>3, <2>4
<1> QED BY <1>1, <1>2

\* However many submissions, answers and decisions run at once, nobody has more
\* proposals than the limits of a day and of the queue, and an approved
\* proposal and no other has exactly one event.
THEOREM ProposalsCorrect == ProposalsSpec => []ProposalsInOrder
<1>1. ProposalsInit => ProposalsInv
  BY ProposalsInitOK
<1>2. ProposalsInv /\ [ProposalsNext]_proposalVars => ProposalsInv'
  <2> SUFFICES ASSUME ProposalsInv, [ProposalsNext]_proposalVars PROVE ProposalsInv'
    OBVIOUS
  <2>1. CASE UNCHANGED <<proposals, working>>
    BY <2>1 DEF ProposalsInv, ProposalsTyped, RowsHeld, MaySubmit, SentToday, OpenOf, Mine, isOpenProposalStatus,
                SubmissionsWithinLimits, ApprovedHasItsEvent
  <2>2. CASE EventIntakeRoute
    BY <2>1, <2>2 DEF EventIntakeRoute, createEventIntakeDraft, ModelAnswers, publishEventIntakeDraft,
                      rejectEventIntakeDraft, PublishEvent, MarkPublished
  <2>3. CASE \E on \in BOOLEAN, scope \in {"adult_members", "guardians_only"} : updateEventProposalSettings(on, scope)
    BY <2>1, <2>3 DEF updateEventProposalSettings
  <2> QED BY <2>1, <2>2, <2>3, MembersOK, OrganizersOK, PassingOK DEF ProposalsNext, ModerationRoute, proposalVars
<1>3. ProposalsInv => ProposalsInOrder
  BY DEF ProposalsInv, ProposalsInOrder
<1> QED BY <1>1, <1>2, <1>3, PTL DEF ProposalsSpec

-----------------------------------------------------------------------------
(* What was said: consents and alerts. *)

RegistryRows == [state : {"none", "opted_in", "opted_out"}, source : {"none", "settings", "carrier"}]
RegistryTyped == registry \in [Numbers -> RegistryRows]

AlertRows == [status : {"none", "pending", "sent", "failed"}, old : BOOLEAN, mails : Nat]
Evaluations == [by : Texts, of : Payers, step : {"called", "reached", "claimed", "mailed"},
                left : SUBSET Thresholds, at : Thresholds \cup {"none"}, failed : BOOLEAN]
Mails(e) == e.step \in {"claimed", "mailed"}

\* A mail under way has its alert to itself, and the alert waits for it.
AlertsInv ==
  /\ alerts \in [Payers -> [Thresholds -> AlertRows]] /\ evaluating \subseteq Evaluations
  /\ \A e \in evaluating : e.at \in Thresholds <=> Mails(e)
  /\ \A e \in evaluating : Mails(e) => alerts[e.of][e.at].status = "pending" /\ ~alerts[e.of][e.at].old
  /\ \A e, f \in evaluating : Mails(e) /\ Mails(f) /\ e.of = f.of /\ e.at = f.at => e = f

\* What a step may not do to an alert.
AlertStays ==
  \A o \in Payers, h \in Thresholds : alerts[o][h].status = "sent" =>
    alerts'[o][h].status = "sent" /\ alerts'[o][h].mails = alerts[o][h].mails
StopStaysPut ==
  \A n \in Numbers : isCarrierStop(registry[n]) /\ ~isCarrierStop(registry'[n]) => registry'[n].source = "carrier"

LEMMA RegistryStep == RegistryTyped /\ [MessagingNext]_messagingVars => RegistryTyped' /\ StopStaysPut
<1> SUFFICES ASSUME RegistryTyped, [MessagingNext]_messagingVars PROVE RegistryTyped' /\ StopStaysPut
  OBVIOUS
<1>1. CASE UNCHANGED registry
  BY <1>1 DEF RegistryTyped, StopStaysPut
<1>2. ASSUME NEW c \in Consents, WriteConsent(c) PROVE RegistryTyped' /\ StopStaysPut
  <2>1. PICK n \in Numbers : n = c.of
    BY DEF Consents
  <2>2. PICK row : row = [state |-> c.action, source |-> IF isCarrierStop(registry[n]) /\ c.action = "opted_out"
                                                         THEN registry[n].source ELSE c.source]
    OBVIOUS
  <2>3. registry[n] \in RegistryRows
    BY DEF RegistryTyped
  <2>4. c.action \in {"opted_in", "opted_out"} /\ c.source \in {"settings", "carrier"}
    BY DEF Consents
  <2>5. row \in RegistryRows
    BY <2>2, <2>3, <2>4 DEF RegistryRows
  <2>6. registry' = registry \/ (~StopStands(c) /\ registry' = [registry EXCEPT ![n] = row])
    BY <1>2, <2>1, <2>2 DEF WriteConsent
  <2>7. CASE registry' = registry
    BY <1>1, <2>7
  <2>8. CASE ~StopStands(c) /\ registry' = [registry EXCEPT ![n] = row]
    <3>1. registry' \in [Numbers -> RegistryRows] /\ registry'[n] = row /\ \A m \in Numbers \ {n} : registry'[m] = registry[m]
      BY <2>5, <2>8 DEF RegistryTyped
    <3>2. isCarrierStop(registry[n]) /\ ~isCarrierStop(row) => row.source = "carrier"
      BY <2>1, <2>2, <2>4, <2>8 DEF StopStands, webOptInBlockedByCarrierStop, FromWeb, isCarrierStop
    <3> QED BY <3>1, <3>2 DEF RegistryTyped, StopStaysPut
  <2> QED BY <2>6, <2>7, <2>8
<1>3. UNCHANGED registry \/ \E c \in Consents : WriteConsent(c)
  <2>1. CASE UNCHANGED messagingVars
    BY <2>1 DEF messagingVars, consentVars
  <2>2. CASE \E n \in Numbers : upsertVerifiedPhone(n)
    BY <2>2 DEF upsertVerifiedPhone
  <2>3. CASE SmsConsentRoute \/ InboundRoute
    BY <2>3 DEF SmsConsentRoute, InboundRoute, recordSmsConsent
  <2>4. CASE \E t \in Texts : Send(t) \/ CarrierAnswers(t) \/ CarrierDelivers(t) \/ StatusRoute(t) \/ TextAges(t)
    BY <2>4 DEF Send, sendTwilioNotification, CountMonth, reserveMobileDelivery, FinalizeDelivery, SenderDies,
                CarrierAnswers, CarrierDelivers, StatusRoute, recordDeliveredChannelFromStatus, TextAges, consentVars
  <2>5. CASE \/ \E o \in Payers, c \in Caps : setOrgMessagingLimit(o, c)
             \/ \E e \in evaluating : Evaluate(e)
             \/ \E o \in Payers, h \in Thresholds : AlertGetsOld(o, h)
    BY <2>5 DEF setOrgMessagingLimit, Evaluate, evaluateOrgMessagingAlerts, ClaimAlert, MailAlert, CloseAlert,
                EvaluationEnds, AlertGetsOld, consentVars
  <2> QED BY <2>1, <2>2, <2>3, <2>4, <2>5 DEF MessagingNext
<1> QED BY <1>1, <1>2, <1>3

-----------------------------------------------------------------------------
(* Texts: every step writes one of them. *)

Reserved == {"sending", "accepted", "rejected", "unheard"}
Early == {"unsent"} \cup InTransaction
TextRows == [step : Early \cup Reserved \cup {"done"}, to : Numbers \cup {NoNumber}, payer : Payers \cup {NoPayer},
             kind : Kinds, row : {"none", "sandbox_skipped", "blocked_org_cap", "reserved", "accepted", "failed"},
             age : 0..2, sid : BOOLEAN, delivered : {"unknown", "rcs", "sms"}]
TextsTyped == texts \in [Texts -> TextRows]

\* What a step makes of a text.
OnlyText(t) == texts'[t] \in TextRows /\ \A u \in Texts \ {t} : texts'[u] = texts[u]
Kept(t) == /\ texts'[t].to = texts[t].to /\ texts'[t].payer = texts[t].payer /\ texts'[t].kind = texts[t].kind
           /\ texts'[t].delivered = texts[t].delivered
NewRow(t) == texts'[t].age = 0 /\ ~texts'[t].sid /\ texts'[t].delivered = "unknown"

LEMMA Rewritten ==
  ASSUME TextsTyped, NEW t \in Texts, NEW r \in TextRows, texts' = [texts EXCEPT ![t] = r]
  PROVE  TextsTyped' /\ texts'[t] = r /\ OnlyText(t)
BY DEF TextsTyped, OnlyText

LEMMA Sends ==
  ASSUME TextsTyped, NEW t \in Texts, NEW n \in Numbers, NEW o \in Payers \cup {NoPayer}, NEW k \in Kinds,
         sendTwilioNotification(t, n, o, k)
  PROVE  /\ TextsTyped' /\ OnlyText(t) /\ NewRow(t) /\ texts[t].step = "unsent"
         /\ texts'[t].to = n /\ texts'[t].payer = o /\ texts'[t].kind = k
         /\ \/ texts'[t].step = "done" /\ texts'[t].row = "sandbox_skipped"
            \/ /\ texts'[t].step = "addressed" /\ texts'[t].row = "none" /\ DestinationFree(n)
               /\ IF k = "otp" THEN Cardinality(RowsFor(n, 0)) < OTP_LIMIT ELSE Cardinality(RowsFor(n, 1)) < TEXT_LIMIT
<1> DEFINE x == [Unwritten EXCEPT !.to = n, !.payer = o, !.kind = k]
           a == [x EXCEPT !.step = "done", !.row = "sandbox_skipped"]
           b == [x EXCEPT !.step = "addressed"]
<1>u. /\ Unwritten \in TextRows /\ Unwritten.age = 0 /\ ~Unwritten.sid /\ Unwritten.delivered = "unknown"
      /\ Unwritten.row = "none"
  BY DEF Unwritten, TextRows, Early, Reserved, InTransaction, Kinds
<1>1. /\ x \in TextRows /\ x.to = n /\ x.payer = o /\ x.kind = k /\ x.age = 0 /\ ~x.sid /\ x.delivered = "unknown"
      /\ x.row = "none"
  BY <1>u DEF TextRows
<1> HIDE DEF x
<1>2. /\ a \in TextRows /\ a.to = n /\ a.payer = o /\ a.kind = k /\ a.age = 0 /\ ~a.sid
      /\ a.delivered = "unknown" /\ a.step = "done" /\ a.row = "sandbox_skipped"
  BY <1>1 DEF TextRows
<1>3. /\ b \in TextRows /\ b.to = n /\ b.payer = o /\ b.kind = k /\ b.age = 0 /\ ~b.sid
      /\ b.delivered = "unknown" /\ b.step = "addressed" /\ b.row = "none"
  BY <1>1 DEF TextRows, Early, InTransaction
<1>4. /\ texts[t].step = "unsent"
      /\ texts' = [texts EXCEPT ![t] = a] \/ (DestinationFree(n) /\ WithinRecipientLimit(x) /\ texts' = [texts EXCEPT ![t] = b])
  BY Zenon DEF sendTwilioNotification, x
<1>5. WithinRecipientLimit(x) =>
        IF k = "otp" THEN Cardinality(RowsFor(n, 0)) < OTP_LIMIT ELSE Cardinality(RowsFor(n, 1)) < TEXT_LIMIT
  BY <1>1 DEF WithinRecipientLimit
<1> HIDE DEF a, b
<1>6. CASE texts' = [texts EXCEPT ![t] = a]
  BY <1>2, <1>4, <1>6, Rewritten DEF NewRow
<1>7. CASE DestinationFree(n) /\ WithinRecipientLimit(x) /\ texts' = [texts EXCEPT ![t] = b]
  BY <1>3, <1>4, <1>5, <1>7, Rewritten DEF NewRow
<1> QED BY <1>4, <1>6, <1>7

LEMMA StepOnly ==
  ASSUME TextsTyped, NEW t \in Texts, NEW step \in Early \cup Reserved \cup {"done"}, texts' = [texts EXCEPT ![t].step = step]
  PROVE  /\ TextsTyped' /\ OnlyText(t) /\ Kept(t) /\ texts'[t].step = step
         /\ texts'[t].row = texts[t].row /\ texts'[t].age = texts[t].age /\ texts'[t].sid = texts[t].sid
<1> DEFINE r == [texts[t] EXCEPT !.step = step]
<1>1. texts[t] \in TextRows
  BY DEF TextsTyped
<1>2. r \in TextRows /\ r.to = texts[t].to /\ r.payer = texts[t].payer /\ r.kind = texts[t].kind /\ r.step = step
      /\ r.row = texts[t].row /\ r.age = texts[t].age /\ r.sid = texts[t].sid /\ r.delivered = texts[t].delivered
  BY <1>1 DEF TextRows
<1>3. texts' = [texts EXCEPT ![t] = r]
  OBVIOUS
<1> HIDE DEF r
<1> QED BY <1>2, <1>3, Rewritten DEF Kept

LEMMA RowToo ==
  ASSUME TextsTyped, NEW t \in Texts, NEW step \in Early \cup Reserved \cup {"done"},
         NEW row \in {"none", "sandbox_skipped", "blocked_org_cap", "reserved", "accepted", "failed"},
         texts' = [texts EXCEPT ![t].step = step, ![t].row = row]
  PROVE  /\ TextsTyped' /\ OnlyText(t) /\ Kept(t) /\ texts'[t].step = step
         /\ texts'[t].row = row /\ texts'[t].age = texts[t].age /\ texts'[t].sid = texts[t].sid
<1> DEFINE r == [texts[t] EXCEPT !.step = step, !.row = row]
<1>1. texts[t] \in TextRows
  BY DEF TextsTyped
<1>2. r \in TextRows /\ r.to = texts[t].to /\ r.payer = texts[t].payer /\ r.kind = texts[t].kind /\ r.step = step
      /\ r.row = row /\ r.age = texts[t].age /\ r.sid = texts[t].sid /\ r.delivered = texts[t].delivered
  BY <1>1 DEF TextRows
<1>3. texts' = [texts EXCEPT ![t] = r]
  BY DEF TextsTyped
<1> HIDE DEF r
<1> QED BY <1>2, <1>3, Rewritten DEF Kept

LEMMA Finalizes ==
  ASSUME TextsTyped, NEW t \in Texts, FinalizeDelivery(t)
  PROVE  /\ TextsTyped' /\ OnlyText(t) /\ Kept(t) /\ texts'[t].step = "done" /\ texts[t].step \in Reserved
         /\ texts'[t].row \in {texts[t].row, "accepted", "failed"} /\ texts'[t].age = texts[t].age
<1>1. texts[t] \in TextRows
  BY DEF TextsTyped
<1>2. texts[t].step \in Reserved
  BY DEF FinalizeDelivery, Reserved
<1>3. CASE TextStep(t, "done")
  BY <1>2, <1>3, StepOnly DEF TextStep
<1>4. CASE ~TextStep(t, "done")
  <2>1. PICK sid \in BOOLEAN, row \in {"accepted", "failed"} :
          texts' = [texts EXCEPT ![t].step = "done", ![t].sid = sid, ![t].row = row]
    BY <1>4 DEF FinalizeDelivery
  <2> DEFINE r == [texts[t] EXCEPT !.step = "done", !.sid = sid, !.row = row]
  <2>2. r \in TextRows /\ r.to = texts[t].to /\ r.payer = texts[t].payer /\ r.kind = texts[t].kind /\ r.step = "done"
        /\ r.row = row /\ r.age = texts[t].age /\ r.delivered = texts[t].delivered
    BY <1>1 DEF TextRows
  <2>3. texts' = [texts EXCEPT ![t] = r]
    BY <2>1 DEF TextsTyped
  <2> HIDE DEF r
  <2> QED BY <1>2, <2>2, <2>3, Rewritten DEF Kept
<1> QED BY <1>3, <1>4

LEMMA Ages ==
  ASSUME TextsTyped, NEW t \in Texts, TextAges(t)
  PROVE  /\ TextsTyped' /\ OnlyText(t) /\ Kept(t) /\ texts'[t].step = "done" /\ texts[t].step = "done"
         /\ texts'[t].row = texts[t].row /\ texts'[t].sid = texts[t].sid /\ texts'[t].age >= texts[t].age
<1>1. texts[t] \in TextRows /\ texts[t].step = "done" /\ texts[t].age < 2 /\ texts' = [texts EXCEPT ![t].age = @ + 1]
  BY DEF TextsTyped, TextAges
<1> DEFINE r == [texts[t] EXCEPT !.age = @ + 1]
<1>2. r \in TextRows /\ r.to = texts[t].to /\ r.payer = texts[t].payer /\ r.kind = texts[t].kind /\ r.step = texts[t].step
      /\ r.row = texts[t].row /\ r.age >= texts[t].age /\ r.sid = texts[t].sid /\ r.delivered = texts[t].delivered
  BY <1>1 DEF TextRows
<1>3. texts' = [texts EXCEPT ![t] = r]
  BY <1>1 DEF TextsTyped
<1> HIDE DEF r
<1> QED BY <1>1, <1>2, <1>3, Rewritten DEF Kept

LEMMA Delivered ==
  ASSUME TextsTyped, NEW t \in Texts, recordDeliveredChannelFromStatus(t)
  PROVE  /\ TextsTyped' /\ OnlyText(t) /\ texts'[t].step = texts[t].step /\ texts[t].sid /\ texts'[t].sid
         /\ texts'[t].to = texts[t].to /\ texts'[t].payer = texts[t].payer /\ texts'[t].kind = texts[t].kind
         /\ texts'[t].row = texts[t].row /\ texts'[t].age = texts[t].age
         /\ \E c \in Reported(t) : TellsDelivery(c) /\ texts'[t].delivered = ChannelOf(c)
<1>1. PICK c \in Reported(t) : TellsDelivery(c) /\ texts' = [texts EXCEPT ![t].delivered = ChannelOf(c)]
  BY DEF recordDeliveredChannelFromStatus
<1>2. texts[t] \in TextRows /\ texts[t].sid
  BY DEF TextsTyped, recordDeliveredChannelFromStatus
<1> DEFINE r == [texts[t] EXCEPT !.delivered = ChannelOf(c)]
<1>3. r \in TextRows /\ r.to = texts[t].to /\ r.payer = texts[t].payer /\ r.kind = texts[t].kind /\ r.step = texts[t].step
      /\ r.row = texts[t].row /\ r.age = texts[t].age /\ r.sid = texts[t].sid /\ r.delivered = ChannelOf(c)
  BY <1>2 DEF TextRows, ChannelOf
<1>4. texts' = [texts EXCEPT ![t] = r]
  BY <1>1 DEF TextsTyped
<1> HIDE DEF r
<1> QED BY <1>1, <1>2, <1>3, <1>4, Rewritten

LEMMA EvaluationBegins ==
  ASSUME AlertsInv, NEW t \in Texts, NEW o \in Payers, UNCHANGED alerts,
         evaluating' = evaluating \/ evaluating' = evaluating \cup {Evaluation(t, o)}
  PROVE  AlertsInv' /\ AlertStays
<1>1. Evaluation(t, o) \in Evaluations /\ ~Mails(Evaluation(t, o)) /\ Evaluation(t, o).at = "none"
  BY DEF Evaluation, Evaluations, Mails, Thresholds
<1>2. "none" \notin Thresholds
  BY DEF Thresholds
<1> QED BY <1>1, <1>2 DEF AlertsInv, AlertStays

LEMMA AlertWritten ==
  ASSUME alerts \in [Payers -> [Thresholds -> AlertRows]], NEW o \in Payers, NEW h \in Thresholds, NEW r \in AlertRows,
         alerts' = [alerts EXCEPT ![o][h] = r]
  PROVE  /\ alerts' \in [Payers -> [Thresholds -> AlertRows]] /\ alerts'[o][h] = r
         /\ \A q \in Payers, k \in Thresholds : q # o \/ k # h => alerts'[q][k] = alerts[q][k]
OBVIOUS

\* An evaluation goes on: e becomes f.
LEMMA EvaluationGoes ==
  ASSUME AlertsInv, NEW e \in evaluating, NEW f \in Evaluations, evaluating' = (evaluating \ {e}) \cup {f},
         f.at \in Thresholds <=> Mails(f), f.of = e.of,
         alerts' \in [Payers -> [Thresholds -> AlertRows]],
         AlertStays,
         Mails(f) => /\ alerts'[f.of][f.at].status = "pending" /\ ~alerts'[f.of][f.at].old
                     /\ \A d \in evaluating \ {e} : Mails(d) => d.of # f.of \/ d.at # f.at,
         \A d \in evaluating \ {e} : Mails(d) => alerts'[d.of][d.at] = alerts[d.of][d.at]
  PROVE  AlertsInv' /\ AlertStays
BY DEF AlertsInv

LEMMA EvaluationSteps ==
  ASSUME AlertsInv, NEW e \in evaluating, Evaluate(e)
  PROVE  AlertsInv' /\ AlertStays
<1>1. e \in Evaluations /\ e.of \in Payers /\ e.left \subseteq Thresholds /\ "none" \notin Thresholds
  BY DEF AlertsInv, Evaluations, Thresholds
<1>2. alerts \in [Payers -> [Thresholds -> AlertRows]] /\ (e.at \in Thresholds <=> Mails(e))
  BY DEF AlertsInv
<1>3. CASE evaluateOrgMessagingAlerts(e)
  <2>1. PICK left \in SUBSET Thresholds : left = reachedAlertThresholds(e.of)
    BY DEF reachedAlertThresholds
  <2> DEFINE f == [e EXCEPT !.step = "reached", !.left = left]
  <2>2. f \in Evaluations /\ f.of = e.of /\ f.step = "reached" /\ f.at = e.at
    BY <1>1 DEF Evaluations
  <2>3. evaluating' = (evaluating \ {e}) \cup {f} /\ UNCHANGED alerts /\ e.step = "called"
    BY <1>3, <2>1 DEF evaluateOrgMessagingAlerts, Evaluates
  <2> HIDE DEF f
  <2> QED BY <1>1, <1>2, <2>2, <2>3, EvaluationGoes DEF Mails, AlertStays
<1>4. CASE ClaimAlert(e)
  <2>1. PICK h \in Thresholds : h = IF "alert" \in e.left THEN "alert" ELSE "full"
    BY DEF Thresholds
  <2> DEFINE f == [e EXCEPT !.left = @ \ {h}]
             g == [f EXCEPT !.step = "claimed", !.at = h]
             r == [alerts[e.of][h] EXCEPT !.status = "pending", !.old = FALSE]
  <2>2. f \in Evaluations /\ f.of = e.of /\ f.step = e.step /\ f.at = e.at
    BY <1>1 DEF Evaluations
  <2>3. g \in Evaluations /\ g.of = e.of /\ g.step = "claimed" /\ g.at = h
    BY <2>2 DEF Evaluations
  <2>4. alerts[e.of][h] \in AlertRows
    BY <1>1, <1>2
  <2>5. r \in AlertRows /\ r.status = "pending" /\ ~r.old
    BY <2>4 DEF AlertRows
  <2>6. e.step = "reached" /\ e.left # {}
    BY <1>4 DEF ClaimAlert
  <2>7. CASE Claimable(alerts[e.of][h])
    <3>1. evaluating' = (evaluating \ {e}) \cup {g}
      BY <1>4, <2>1, <2>7, Zenon DEF ClaimAlert, Evaluates
    <3>2. alerts' = [alerts EXCEPT ![e.of][h].status = "pending", ![e.of][h].old = FALSE]
      BY <1>4, <2>1, <2>7, Zenon DEF ClaimAlert
    <3>3. alerts' = [alerts EXCEPT ![e.of][h] = r]
      BY <1>1, <1>2, <3>2
    <3> HIDE DEF f, g, r
    <3>4. /\ alerts' \in [Payers -> [Thresholds -> AlertRows]] /\ alerts'[e.of][h] = r
          /\ \A q \in Payers, k \in Thresholds : q # e.of \/ k # h => alerts'[q][k] = alerts[q][k]
      BY <1>1, <1>2, <2>5, <3>3, AlertWritten
    <3>5. AlertStays
      BY <2>7, <3>4 DEF AlertStays, Claimable
    <3>6. \A d \in evaluating : Mails(d) => d.of # e.of \/ d.at # h
      BY <2>7 DEF AlertsInv, Claimable
    <3>7. \A d \in evaluating : Mails(d) => d.of \in Payers /\ d.at \in Thresholds
      BY DEF AlertsInv, Evaluations
    <3> QED BY <2>3, <2>5, <3>1, <3>4, <3>5, <3>6, <3>7, EvaluationGoes DEF Mails
  <2>8. CASE ~Claimable(alerts[e.of][h])
    <3>1. evaluating' = (evaluating \ {e}) \cup {f} /\ UNCHANGED alerts
      BY <1>4, <2>1, <2>8, Zenon DEF ClaimAlert, Evaluates
    <3> HIDE DEF f
    <3> QED BY <1>2, <2>2, <2>6, <3>1, EvaluationGoes DEF Mails, AlertStays
  <2> QED BY <2>7, <2>8
<1>5. CASE MailAlert(e)
  <2>1. PICK fails \in BOOLEAN :
          /\ alerts' = [alerts EXCEPT ![e.of][e.at].mails = IF fails THEN @ ELSE @ + 1]
          /\ evaluating' = (evaluating \ {e}) \cup {[e EXCEPT !.step = "mailed", !.failed = fails]}
    BY <1>5 DEF MailAlert, Evaluates
  <2> DEFINE f == [e EXCEPT !.step = "mailed", !.failed = fails]
             r == [alerts[e.of][e.at] EXCEPT !.mails = IF fails THEN @ ELSE @ + 1]
  <2>2. f \in Evaluations /\ f.of = e.of /\ f.step = "mailed" /\ f.at = e.at
    BY <1>1 DEF Evaluations
  <2>3. Mails(e) /\ e.at \in Thresholds
    BY <1>2, <1>5 DEF MailAlert, Mails
  <2>4. alerts[e.of][e.at] \in AlertRows /\ alerts[e.of][e.at].status = "pending" /\ ~alerts[e.of][e.at].old
    BY <1>1, <1>2, <2>3 DEF AlertsInv
  <2>5. r \in AlertRows /\ r.status = "pending" /\ ~r.old
    BY <2>4 DEF AlertRows
  <2>6. alerts' = [alerts EXCEPT ![e.of][e.at] = r]
    BY <1>1, <1>2, <2>1, <2>3
  <2>7. evaluating' = (evaluating \ {e}) \cup {f}
    BY <2>1
  <2> HIDE DEF f, r
  <2>8. /\ alerts' \in [Payers -> [Thresholds -> AlertRows]] /\ alerts'[e.of][e.at] = r
        /\ \A q \in Payers, k \in Thresholds : q # e.of \/ k # e.at => alerts'[q][k] = alerts[q][k]
    BY <1>1, <1>2, <2>3, <2>5, <2>6, AlertWritten
  <2>9. AlertStays
    BY <2>4, <2>8 DEF AlertStays
  <2>10. \A d \in evaluating \ {e} : Mails(d) => d.of \in Payers /\ d.at \in Thresholds /\ (d.of # e.of \/ d.at # e.at)
    BY <2>3 DEF AlertsInv, Evaluations
  <2> QED BY <2>2, <2>3, <2>5, <2>7, <2>8, <2>9, <2>10, EvaluationGoes DEF Mails
<1>6. CASE CloseAlert(e)
  <2>1. PICK status \in {"failed", "sent"} :
          /\ alerts' = [alerts EXCEPT ![e.of][e.at].status = status]
          /\ evaluating' = (evaluating \ {e}) \cup {[e EXCEPT !.step = "reached", !.at = "none", !.failed = FALSE]}
    BY <1>6 DEF CloseAlert, Evaluates
  <2> DEFINE f == [e EXCEPT !.step = "reached", !.at = "none", !.failed = FALSE]
             r == [alerts[e.of][e.at] EXCEPT !.status = status]
  <2>2. f \in Evaluations /\ f.of = e.of /\ f.step = "reached" /\ f.at = "none"
    BY <1>1 DEF Evaluations
  <2>3. Mails(e) /\ e.at \in Thresholds
    BY <1>2, <1>6 DEF CloseAlert, Mails
  <2>4. alerts[e.of][e.at] \in AlertRows /\ alerts[e.of][e.at].status = "pending"
    BY <1>1, <1>2, <2>3 DEF AlertsInv
  <2>5. r \in AlertRows
    BY <2>4 DEF AlertRows
  <2>6. alerts' = [alerts EXCEPT ![e.of][e.at] = r]
    BY <1>1, <1>2, <2>1, <2>3
  <2>7. evaluating' = (evaluating \ {e}) \cup {f}
    BY <2>1
  <2> HIDE DEF f, r
  <2>8. /\ alerts' \in [Payers -> [Thresholds -> AlertRows]]
        /\ \A q \in Payers, k \in Thresholds : q # e.of \/ k # e.at => alerts'[q][k] = alerts[q][k]
    BY <1>1, <1>2, <2>3, <2>5, <2>6, AlertWritten
  <2>9. AlertStays
    BY <2>4, <2>8 DEF AlertStays
  <2>10. \A d \in evaluating \ {e} : Mails(d) => d.of \in Payers /\ d.at \in Thresholds /\ (d.of # e.of \/ d.at # e.at)
    BY <2>3 DEF AlertsInv, Evaluations
  <2> QED BY <1>1, <2>2, <2>7, <2>8, <2>9, <2>10, EvaluationGoes DEF Mails
<1>7. CASE EvaluationEnds(e)
  BY <1>7 DEF EvaluationEnds, AlertsInv, AlertStays
<1> QED BY <1>3, <1>4, <1>5, <1>6, <1>7 DEF Evaluate

LEMMA AlertsStep == AlertsInv /\ TextsTyped /\ [MessagingNext]_messagingVars => AlertsInv' /\ AlertStays
<1> SUFFICES ASSUME AlertsInv, TextsTyped, [MessagingNext]_messagingVars PROVE AlertsInv' /\ AlertStays
  OBVIOUS
<1>1. CASE UNCHANGED <<alerts, evaluating>>
  BY <1>1 DEF AlertsInv, AlertStays
<1>2. ASSUME NEW t \in Texts, CountMonth(t) \/ reserveMobileDelivery(t) PROVE AlertsInv' /\ AlertStays
  <2>1. texts[t].payer \in Payers \cup {NoPayer}
    BY DEF TextsTyped, TextRows
  <2>2. CASE texts[t].payer = NoPayer
    BY <1>1, <1>2, <2>2 DEF CountMonth, reserveMobileDelivery
  <2>3. CASE texts[t].payer \in Payers
    BY <1>2, <2>3, EvaluationBegins DEF CountMonth, reserveMobileDelivery
  <2> QED BY <2>1, <2>2, <2>3
<1>3. ASSUME NEW o \in Payers, NEW h \in Thresholds, AlertGetsOld(o, h) PROVE AlertsInv' /\ AlertStays
  <2> DEFINE r == [alerts[o][h] EXCEPT !.old = TRUE]
  <2>1. alerts \in [Payers -> [Thresholds -> AlertRows]] /\ alerts[o][h] \in AlertRows
    BY DEF AlertsInv
  <2>2. r \in AlertRows /\ r.status = alerts[o][h].status /\ r.mails = alerts[o][h].mails
    BY <2>1 DEF AlertRows
  <2>3. alerts' = [alerts EXCEPT ![o][h] = r] /\ UNCHANGED evaluating
    BY <1>3 DEF AlertGetsOld
  <2>4. \A e \in evaluating : ~(e.of = o /\ e.at = h)
    BY <1>3 DEF AlertGetsOld
  <2> HIDE DEF r
  <2>5. /\ alerts' \in [Payers -> [Thresholds -> AlertRows]] /\ alerts'[o][h] = r
        /\ \A q \in Payers, k \in Thresholds : q # o \/ k # h => alerts'[q][k] = alerts[q][k]
    BY <2>1, <2>2, <2>3, AlertWritten
  <2>6. \A d \in evaluating : Mails(d) => d.of \in Payers /\ d.at \in Thresholds /\ alerts'[d.of][d.at] = alerts[d.of][d.at]
    BY <2>4, <2>5 DEF AlertsInv, Evaluations
  <2> QED BY <2>2, <2>3, <2>5, <2>6 DEF AlertsInv, AlertStays
<1>4. CASE UNCHANGED messagingVars \/ SmsConsentRoute \/ InboundRoute \/ \E n \in Numbers : upsertVerifiedPhone(n)
  BY <1>1, <1>4 DEF messagingVars, spendVars, SmsConsentRoute, InboundRoute, recordSmsConsent, WriteConsent, upsertVerifiedPhone
<1>5. ASSUME NEW t \in Texts, Send(t) \/ CarrierAnswers(t) \/ CarrierDelivers(t) \/ StatusRoute(t) \/ TextAges(t)
      PROVE  AlertsInv' /\ AlertStays
  <2>1. CASE CountMonth(t) \/ reserveMobileDelivery(t)
    BY <1>2, <2>1
  <2>2. CASE ~(CountMonth(t) \/ reserveMobileDelivery(t))
    BY <1>1, <1>5, <2>2 DEF Send, sendTwilioNotification, FinalizeDelivery, SenderDies, CarrierAnswers, CarrierDelivers,
                            StatusRoute, recordDeliveredChannelFromStatus, TextAges, spendVars
  <2> QED BY <2>1, <2>2
<1>6. ASSUME NEW o \in Payers, NEW c \in Caps, setOrgMessagingLimit(o, c) PROVE AlertsInv' /\ AlertStays
  BY <1>1, <1>6 DEF setOrgMessagingLimit
<1> QED BY <1>3, <1>4, <1>5, <1>6, EvaluationSteps DEF MessagingNext

-----------------------------------------------------------------------------
(* What is counted for a number and for an organization. *)

SentTo(n, otp, age) == {t \in RowsFor(n, age) : (texts[t].kind = "otp") = otp /\ texts[t].row # "sandbox_skipped"}
Charged(o) == {t \in Counted(o) : ~Exempt(texts[t])}
Begun == {t \in Texts : texts[t].row # "none"}
InTx(t) == texts[t].step \in InTransaction
HasRoom(n, otp) == Cardinality(SentTo(n, otp, IF otp THEN 0 ELSE 1)) < IF otp THEN OTP_LIMIT ELSE TEXT_LIMIT

LimitsTyped == /\ limits \in [Payers -> [cap : Nat, ceiling : Nat]]
               /\ \A o \in Payers : limits[o].cap <= limits[o].ceiling
RowOfStep ==
  \A t \in Texts : /\ texts[t].step \in Early => texts[t].row = "none"
                   /\ texts[t].step \in Reserved => texts[t].row = "reserved"
                   /\ texts[t].step \in Early \cup {"sending"} => ~texts[t].sid /\ texts[t].delivered = "unknown"

\* A transaction has its number to itself, and room for its text.
RoomInv ==
  \A t \in Texts : InTx(t) =>
    /\ texts[t].to \in Numbers /\ HasRoom(texts[t].to, texts[t].kind = "otp")
    /\ \A u \in Texts : InTx(u) /\ texts[u].to = texts[t].to => u = t
\* Past its count it has its organization to itself, and a share of the month.
ShareInv ==
  \A t \in Texts : texts[t].step = "counted" =>
    /\ texts[t].payer \in Payers \/ texts[t].payer = NoPayer
    /\ texts[t].payer \in Payers /\ ~Exempt(texts[t]) => Cardinality(Charged(texts[t].payer)) < limits[texts[t].payer].ceiling
    /\ \A u \in Texts : texts[u].step = "counted" /\ texts[u].payer = texts[t].payer => u = t
CountsInv ==
  /\ TextsTyped /\ LimitsTyped /\ RowOfStep /\ IsFiniteSet(Begun)
  /\ RoomInv /\ ShareInv /\ WithinRecipientLimits /\ WithinOrganizationCap

\* A step that adds nothing to what is counted.
Mild(t) ==
  \/ texts'[t].row \in {"none", "blocked_org_cap", "sandbox_skipped"}
  \/ /\ texts[t].row \notin {"none", "blocked_org_cap", "sandbox_skipped"}
     /\ texts'[t].to = texts[t].to /\ texts'[t].payer = texts[t].payer /\ texts'[t].kind = texts[t].kind
     /\ texts'[t].age >= texts[t].age
     /\ texts'[t].row \in {"reserved", "accepted"} => texts[t].row \in {"reserved", "accepted"}

LEMMA LimitsAsSets ==
  WithinRecipientLimits <=> \A n \in Numbers : /\ Cardinality(SentTo(n, TRUE, 0)) <= OTP_LIMIT
                                               /\ Cardinality(SentTo(n, FALSE, 1)) <= TEXT_LIMIT
BY DEF WithinRecipientLimits, SentTo

LEMMA FewerOf ==
  ASSUME NEW S, NEW T, IsFiniteSet(S), T \subseteq S
  PROVE  /\ IsFiniteSet(T) /\ Cardinality(T) \in Nat /\ Cardinality(S) \in Nat
         /\ Cardinality(T) <= Cardinality(S)
BY FS_Subset, FS_CardinalityType

LEMMA OneMoreOf ==
  ASSUME NEW S, NEW T, NEW x, IsFiniteSet(S), T \subseteq S \cup {x}
  PROVE  /\ IsFiniteSet(T) /\ Cardinality(T) \in Nat /\ Cardinality(S) \in Nat
         /\ Cardinality(T) <= Cardinality(S) + 1
<1>1. /\ IsFiniteSet(S \cup {x}) /\ Cardinality(S) \in Nat
      /\ Cardinality(S \cup {x}) \in {Cardinality(S), Cardinality(S) + 1}
  BY FS_AddElement, FS_CardinalityType
<1>2. IsFiniteSet(T) /\ Cardinality(T) <= Cardinality(S \cup {x}) /\ Cardinality(T) \in Nat
  BY <1>1, FewerOf
<1> QED BY <1>1, <1>2

LEMMA CountedAreBegun ==
  ASSUME IsFiniteSet(Begun)
  PROVE  /\ \A n, otp, age : SentTo(n, otp, age) \subseteq RowsFor(n, age) /\ IsFiniteSet(RowsFor(n, age)) /\ IsFiniteSet(SentTo(n, otp, age))
         /\ \A o : Charged(o) \subseteq Counted(o) /\ IsFiniteSet(Counted(o)) /\ IsFiniteSet(Charged(o))
<1>1. \A n, otp, age : SentTo(n, otp, age) \subseteq RowsFor(n, age) /\ RowsFor(n, age) \subseteq Begun
  BY DEF SentTo, RowsFor, Begun
<1>2. \A o : Charged(o) \subseteq Counted(o) /\ Counted(o) \subseteq Begun
  BY DEF Charged, Counted, Begun
<1> QED BY <1>1, <1>2, FS_Subset

LEMMA MildSets ==
  ASSUME TextsTyped, TextsTyped', NEW t \in Texts, OnlyText(t), Mild(t)
  PROVE  /\ \A n : \A otp \in BOOLEAN : SentTo(n, otp, IF otp THEN 0 ELSE 1)' \subseteq SentTo(n, otp, IF otp THEN 0 ELSE 1)
         /\ \A o \in Payers : Charged(o)' \subseteq Charged(o)
         /\ Begun' \subseteq Begun \cup {t}
<1>1. texts[t].age \in Nat /\ texts'[t].age \in Nat
  BY DEF TextsTyped, TextRows
<1>2. ASSUME NEW n, NEW otp \in BOOLEAN, NEW age \in {0, 1} PROVE SentTo(n, otp, age)' \subseteq SentTo(n, otp, age)
  <2> SUFFICES ASSUME NEW u \in SentTo(n, otp, age)' PROVE u \in SentTo(n, otp, age)
    OBVIOUS
  <2>1. u \in Texts /\ texts'[u].to = n /\ texts'[u].age <= age
        /\ texts'[u].row \notin {"none", "blocked_org_cap", "sandbox_skipped"} /\ (texts'[u].kind = "otp") = otp
    BY DEF SentTo, RowsFor
  <2>2. CASE u = t
    BY <1>1, <2>1, <2>2 DEF Mild, SentTo, RowsFor
  <2>3. CASE u # t
    BY <2>1, <2>3 DEF OnlyText, SentTo, RowsFor
  <2> QED BY <2>2, <2>3
<1>3. ASSUME NEW o \in Payers PROVE Charged(o)' \subseteq Charged(o)
  <2> SUFFICES ASSUME NEW u \in Charged(o)' PROVE u \in Charged(o)
    OBVIOUS
  <2>1. u \in Texts /\ texts'[u].payer = o /\ texts'[u].row \in {"reserved", "accepted"} /\ ~(texts'[u].kind # "routine")
    BY DEF Charged, Counted, Exempt
  <2>2. CASE u = t
    BY <2>1, <2>2 DEF Mild, Charged, Counted, Exempt
  <2>3. CASE u # t
    BY <2>1, <2>3 DEF OnlyText, Charged, Counted, Exempt
  <2> QED BY <2>2, <2>3
<1>4. Begun' \subseteq Begun \cup {t}
  BY DEF Begun, OnlyText
<1> QED BY <1>2, <1>3, <1>4

\* What else a step must do for the counts to hold.
Follows(t) ==
  /\ InTx(t)' => \/ InTx(t) /\ texts'[t].to = texts[t].to /\ texts'[t].kind = texts[t].kind
                 \/ /\ texts'[t].to \in Numbers /\ HasRoom(texts'[t].to, texts'[t].kind = "otp")
                    /\ \A u \in Texts : InTx(u) => texts[u].to # texts'[t].to
  /\ texts'[t].step = "counted" =>
       /\ texts'[t].payer \in Payers \/ texts'[t].payer = NoPayer
       /\ texts'[t].payer \in Payers /\ ~Exempt(texts'[t]) => Cardinality(Charged(texts'[t].payer)) < limits[texts'[t].payer].ceiling
       /\ \A u \in Texts \ {t} : texts[u].step = "counted" => texts[u].payer # texts'[t].payer

LEMMA MildStep ==
  ASSUME CountsInv, TextsTyped', NEW t \in Texts, OnlyText(t), Mild(t), Follows(t), RowOfStep', UNCHANGED limits
  PROVE  CountsInv'
<1>1. IsFiniteSet(Begun) /\ IsFiniteSet(Begun')
  BY MildSets, OneMoreOf DEF CountsInv
<1>2. \A n : \A otp \in BOOLEAN : Cardinality(SentTo(n, otp, IF otp THEN 0 ELSE 1)') <= Cardinality(SentTo(n, otp, IF otp THEN 0 ELSE 1))
                                  /\ Cardinality(SentTo(n, otp, IF otp THEN 0 ELSE 1)') \in Nat
                                  /\ Cardinality(SentTo(n, otp, IF otp THEN 0 ELSE 1)) \in Nat
  BY <1>1, MildSets, CountedAreBegun, FewerOf DEF CountsInv
<1>3. \A o \in Payers : Cardinality(Charged(o)') <= Cardinality(Charged(o)) /\ Cardinality(Charged(o)') \in Nat /\ Cardinality(Charged(o)) \in Nat
  BY <1>1, MildSets, CountedAreBegun, FewerOf DEF CountsInv
<1>4. \A n : \A otp \in BOOLEAN : HasRoom(n, otp) => HasRoom(n, otp)'
  BY <1>2, MessagingAssumption DEF HasRoom
<1>5. WithinRecipientLimits'
  <2>1. \A n \in Numbers : /\ Cardinality(SentTo(n, TRUE, 0)) <= OTP_LIMIT /\ Cardinality(SentTo(n, FALSE, 1)) <= TEXT_LIMIT
    BY LimitsAsSets DEF CountsInv
  <2>2. \A n : /\ Cardinality(SentTo(n, TRUE, 0)') <= Cardinality(SentTo(n, TRUE, 0))
               /\ Cardinality(SentTo(n, TRUE, 0)') \in Nat /\ Cardinality(SentTo(n, TRUE, 0)) \in Nat
    BY <1>2, Zenon
  <2>3. \A n : /\ Cardinality(SentTo(n, FALSE, 1)') <= Cardinality(SentTo(n, FALSE, 1))
               /\ Cardinality(SentTo(n, FALSE, 1)') \in Nat /\ Cardinality(SentTo(n, FALSE, 1)) \in Nat
    BY <1>2, Zenon
  <2>4. \A n \in Numbers : /\ Cardinality(SentTo(n, TRUE, 0)') <= OTP_LIMIT /\ Cardinality(SentTo(n, FALSE, 1)') <= TEXT_LIMIT
    <3> SUFFICES ASSUME NEW n \in Numbers
                 PROVE  Cardinality(SentTo(n, TRUE, 0)') <= OTP_LIMIT /\ Cardinality(SentTo(n, FALSE, 1)') <= TEXT_LIMIT
      OBVIOUS
    <3> DEFINE a == Cardinality(SentTo(n, TRUE, 0)) b == Cardinality(SentTo(n, FALSE, 1))
               c == Cardinality(SentTo(n, TRUE, 0)') d == Cardinality(SentTo(n, FALSE, 1)')
    <3>1. a \in Nat /\ c \in Nat /\ c <= a /\ a <= OTP_LIMIT
      BY <2>1, <2>2, Zenon
    <3>2. b \in Nat /\ d \in Nat /\ d <= b /\ b <= TEXT_LIMIT
      BY <2>1, <2>3, Zenon
    <3> HIDE DEF a, b, c, d
    <3>3. c <= OTP_LIMIT /\ d <= TEXT_LIMIT
      BY <3>1, <3>2, MessagingAssumption
    <3> QED BY <3>3 DEF c, d
  <2> QED BY <2>4 DEF WithinRecipientLimits, SentTo
<1>6. WithinOrganizationCap'
  <2>1. \A o \in Payers : Cardinality(Charged(o)) <= limits[o].ceiling /\ limits[o].ceiling \in Nat
    BY DEF CountsInv, WithinOrganizationCap, Charged, LimitsTyped
  <2>2. \A o \in Payers : Cardinality(Charged(o)') <= limits'[o].ceiling
    BY <1>3, <2>1
  <2> QED BY <2>2 DEF WithinOrganizationCap, Charged
<1>7. ASSUME NEW u \in Texts, InTx(u)'
      PROVE  /\ (texts[u].to \in Numbers /\ HasRoom(texts[u].to, texts[u].kind = "otp"))'
             /\ \A v \in Texts : (InTx(v) /\ texts[v].to = texts[u].to)' => v = u
  <2>1. \A v \in Texts \ {t} : (InTx(v)' <=> InTx(v)) /\ texts'[v] = texts[v]
    BY DEF OnlyText, InTx
  <2>a. PICK n : n = texts'[u].to
    OBVIOUS
  <2>b. PICK otp \in BOOLEAN : otp = (texts'[u].kind = "otp")
    OBVIOUS
  <2>2. n = texts'[u].to /\ otp = (texts'[u].kind = "otp")
    BY <2>a, <2>b
  <2>3. n \in Numbers /\ HasRoom(n, otp)
    BY <1>7, <2>1, <2>2 DEF Follows, CountsInv, RoomInv
  <2>4. \A v \in Texts : InTx(v)' /\ texts'[v].to = n => v = u
    BY <1>7, <2>1, <2>2 DEF Follows, CountsInv, RoomInv
  <2> QED BY <1>4, <2>2, <2>3, <2>4
<1>8. ASSUME NEW u \in Texts, texts'[u].step = "counted"
      PROVE  /\ texts'[u].payer \in Payers \/ texts'[u].payer = NoPayer
             /\ (texts[u].payer \in Payers /\ ~Exempt(texts[u]) => Cardinality(Charged(texts[u].payer)) < limits[texts[u].payer].ceiling)'
             /\ \A v \in Texts : texts'[v].step = "counted" /\ texts'[v].payer = texts'[u].payer => v = u
  <2>1. \A v \in Texts \ {t} : texts'[v] = texts[v]
    BY DEF OnlyText
  <2>2. PICK o : o = texts'[u].payer
    OBVIOUS
  <2>3. o \in Payers \/ o = NoPayer
    BY <1>8, <2>1, <2>2 DEF Follows, CountsInv, ShareInv
  <2>4. o \in Payers /\ ~Exempt(texts'[u]) => Cardinality(Charged(o)) < limits[o].ceiling
    BY <1>8, <2>1, <2>2 DEF Follows, CountsInv, ShareInv
  <2>5. o \in Payers => limits[o].ceiling \in Nat
    BY DEF CountsInv, LimitsTyped
  <2>6. o \in Payers /\ ~Exempt(texts'[u]) => Cardinality(Charged(o)') < limits'[o].ceiling
    BY <1>3, <2>4, <2>5
  <2>7. \A v \in Texts : texts'[v].step = "counted" /\ texts'[v].payer = o => v = u
    BY <1>8, <2>1, <2>2 DEF Follows, CountsInv, ShareInv
  <2> QED BY <2>2, <2>3, <2>6, <2>7
<1> QED BY <1>1, <1>5, <1>6, <1>7, <1>8 DEF CountsInv, RoomInv, ShareInv, LimitsTyped

LEMMA FewerThan ==
  ASSUME NEW S, NEW T, IsFiniteSet(S), T \subseteq S, NEW m \in Nat, Cardinality(S) < m
  PROVE  Cardinality(T) < m
<1>1. Cardinality(T) \in Nat /\ Cardinality(S) \in Nat /\ Cardinality(T) <= Cardinality(S)
  BY FewerOf
<1> QED BY <1>1

LEMMA RowStays ==
  ASSUME RowOfStep, NEW t \in Texts, OnlyText(t),
         texts'[t].step \in Early => texts'[t].row = "none",
         texts'[t].step \in Reserved => texts'[t].row = "reserved",
         texts'[t].step \in Early \cup {"sending"} => ~texts'[t].sid /\ texts'[t].delivered = "unknown"
  PROVE  RowOfStep'
BY DEF RowOfStep, OnlyText

LEMMA SendCounts ==
  ASSUME CountsInv, UNCHANGED limits, NEW t \in Texts, NEW n \in Numbers, NEW o \in Payers \cup {NoPayer}, NEW k \in Kinds,
         sendTwilioNotification(t, n, o, k)
  PROVE  CountsInv'
<1>1. /\ TextsTyped' /\ OnlyText(t) /\ NewRow(t) /\ texts[t].step = "unsent"
      /\ texts'[t].to = n /\ texts'[t].payer = o /\ texts'[t].kind = k
      /\ \/ texts'[t].step = "done" /\ texts'[t].row = "sandbox_skipped"
         \/ /\ texts'[t].step = "addressed" /\ texts'[t].row = "none" /\ DestinationFree(n)
            /\ IF k = "otp" THEN Cardinality(RowsFor(n, 0)) < OTP_LIMIT ELSE Cardinality(RowsFor(n, 1)) < TEXT_LIMIT
  BY Sends DEF CountsInv
<1>2. Mild(t)
  BY <1>1 DEF Mild
<1>3. RowOfStep'
  BY <1>1, RowStays DEF NewRow, Early, Reserved, CountsInv, InTransaction
<1>4. ASSUME texts'[t].step = "addressed" PROVE HasRoom(n, k = "otp")
  <2>1. IsFiniteSet(Begun)
    BY DEF CountsInv
  <2>2. CASE k = "otp"
    <3>1. Cardinality(RowsFor(n, 0)) < OTP_LIMIT /\ IsFiniteSet(RowsFor(n, 0)) /\ SentTo(n, TRUE, 0) \subseteq RowsFor(n, 0)
      BY <1>1, <1>4, <2>1, <2>2, CountedAreBegun
    <3>2. Cardinality(SentTo(n, TRUE, 0)) < OTP_LIMIT
      BY <3>1, FewerThan, MessagingAssumption
    <3>3. (k = "otp") = TRUE
      BY <2>2
    <3> QED BY <3>2, <3>3, Zenon DEF HasRoom
  <2>3. CASE k # "otp"
    <3>1. Cardinality(RowsFor(n, 1)) < TEXT_LIMIT /\ IsFiniteSet(RowsFor(n, 1)) /\ SentTo(n, FALSE, 1) \subseteq RowsFor(n, 1)
      BY <1>1, <1>4, <2>1, <2>3, CountedAreBegun
    <3>2. Cardinality(SentTo(n, FALSE, 1)) < TEXT_LIMIT
      BY <3>1, FewerThan, MessagingAssumption
    <3>3. (k = "otp") = FALSE
      BY <2>3
    <3> QED BY <3>2, <3>3, Zenon DEF HasRoom
  <2> QED BY <2>2, <2>3
<1>5. Follows(t)
  <2>1. CASE texts'[t].step = "done"
    BY <2>1 DEF Follows, InTx, InTransaction
  <2>2. CASE texts'[t].step = "addressed"
    <3>1. HasRoom(n, k = "otp")
      BY <1>4, <2>2
    <3>2. HasRoom(texts'[t].to, texts'[t].kind = "otp")
      BY <1>1, <3>1
    <3>3. \A u \in Texts : InTx(u) => texts[u].to # n
      BY <1>1, <2>2 DEF DestinationFree, InTx
    <3> QED BY <1>1, <2>2, <3>2, <3>3 DEF Follows
  <2> QED BY <1>1, <2>1, <2>2
<1> QED BY <1>1, <1>2, <1>3, <1>5, MildStep

LEMMA CountCounts ==
  ASSUME CountsInv, UNCHANGED limits, NEW t \in Texts, CountMonth(t)
  PROVE  CountsInv'
<1>1. PICK o : o = texts[t].payer
  OBVIOUS
<1>2. texts[t].step = "addressed" /\ o \in Payers /\ PayerFree(o) /\ texts[t].row = "none" /\ InTx(t)
  BY <1>1 DEF CountMonth, CountsInv, TextsTyped, TextRows, RowOfStep, Early, InTransaction, InTx
<1>3. CASE decideOrgMobileCap(texts[t])
  <2>1. texts' = [texts EXCEPT ![t].step = "counted"]
    BY <1>3 DEF CountMonth, TextStep
  <2>2. /\ TextsTyped' /\ OnlyText(t) /\ Kept(t) /\ texts'[t].step = "counted"
        /\ texts'[t].row = "none" /\ texts'[t].sid = texts[t].sid
    BY <1>2, <2>1, StepOnly DEF CountsInv, Early, InTransaction
  <2>3. Mild(t)
    BY <2>2 DEF Mild
  <2>4. RowOfStep'
    <3>1. ~texts[t].sid /\ texts[t].delivered = "unknown"
      BY <1>2 DEF CountsInv, RowOfStep, Early, InTransaction
    <3> QED BY <2>2, <3>1, RowStays DEF Kept, Early, Reserved, CountsInv, InTransaction
  <2>5. ~Exempt(texts[t]) => Cardinality(Charged(o)) < limits[o].ceiling
    <3>1. IsFiniteSet(Counted(o)) /\ Charged(o) \subseteq Counted(o)
      BY CountedAreBegun DEF CountsInv
    <3>2. limits[o].cap \in Nat /\ limits[o].ceiling \in Nat /\ limits[o].cap <= limits[o].ceiling
      BY <1>2 DEF CountsInv, LimitsTyped
    <3>3. ~Exempt(texts[t]) => Cardinality(Counted(o)) + 1 <= limits[o].cap
      BY <1>1, <1>3 DEF decideOrgMobileCap
    <3> QED BY <3>1, <3>2, <3>3, FewerOf
  <2>6. Exempt(texts'[t]) <=> Exempt(texts[t])
    BY <2>2 DEF Exempt, Kept
  <2>7. texts'[t].payer = o
    BY <1>1, <2>2 DEF Kept
  <2>8. \A u \in Texts : texts[u].step = "counted" => texts[u].payer # o
    BY <1>2 DEF PayerFree
  <2>9. Follows(t)
    BY <1>2, <2>2, <2>5, <2>6, <2>7, <2>8 DEF Follows, Kept
  <2> QED BY <2>2, <2>3, <2>4, <2>9, MildStep
<1>4. CASE ~decideOrgMobileCap(texts[t])
  <2>1. texts' = [texts EXCEPT ![t].step = "done", ![t].row = "blocked_org_cap"]
    BY <1>4 DEF CountMonth
  <2>2. /\ TextsTyped' /\ OnlyText(t) /\ texts'[t].step = "done" /\ texts'[t].row = "blocked_org_cap"
    BY <2>1, RowToo DEF CountsInv
  <2>3. Mild(t) /\ Follows(t)
    BY <2>2 DEF Mild, Follows, InTx, InTransaction
  <2>4. RowOfStep'
    BY <2>2, RowStays DEF Early, Reserved, CountsInv, InTransaction
  <2> QED BY <2>2, <2>3, <2>4, MildStep
<1> QED BY <1>3, <1>4

\* The steps after a text was reserved, and the death of its process.
LEMMA LaterCounts ==
  ASSUME CountsInv, UNCHANGED limits, NEW t \in Texts,
         \/ SenderDies(t) \/ CarrierAnswers(t) \/ FinalizeDelivery(t) \/ recordDeliveredChannelFromStatus(t) \/ TextAges(t)
  PROVE  CountsInv'
<1>t. TextsTyped /\ texts[t] \in TextRows
  BY DEF CountsInv, TextsTyped
<1>r. /\ texts[t].step \in Early => texts[t].row = "none"
      /\ texts[t].step \in Reserved => texts[t].row = "reserved"
      /\ texts[t].step \in Early \cup {"sending"} => ~texts[t].sid /\ texts[t].delivered = "unknown"
  BY DEF CountsInv, RowOfStep
<1>a. texts[t].age \in Nat
  BY <1>t DEF TextRows
<1>m. ASSUME TextsTyped', OnlyText(t), texts'[t].step \in {"done", "accepted", "rejected", "unheard"},
             texts'[t].to = texts[t].to, texts'[t].payer = texts[t].payer, texts'[t].kind = texts[t].kind, texts'[t].age >= texts[t].age,
             \/ texts'[t].row = texts[t].row
             \/ texts[t].row = "reserved" /\ texts'[t].row \in {"accepted", "failed"},
             texts'[t].step \in Reserved => texts'[t].row = "reserved"
      PROVE  CountsInv'
  <2>1. Mild(t)
    BY <1>m DEF Mild
  <2>2. Follows(t)
    BY <1>m DEF Follows, InTx, InTransaction
  <2>3. RowOfStep'
    BY <1>m, RowStays DEF Early, Reserved, CountsInv, InTransaction
  <2> QED BY <1>m, <2>1, <2>2, <2>3, MildStep
<1>1. CASE SenderDies(t)
  <2>1. texts' = [texts EXCEPT ![t].step = "done"]
    BY <1>1 DEF SenderDies, TextStep
  <2>2. /\ TextsTyped' /\ OnlyText(t) /\ Kept(t) /\ texts'[t].step = "done"
        /\ texts'[t].row = texts[t].row /\ texts'[t].age = texts[t].age
    BY <1>t, <2>1, StepOnly
  <2> QED BY <1>a, <1>m, <2>2 DEF Kept, Reserved
<1>2. CASE CarrierAnswers(t)
  <2>1. PICK step \in {"accepted", "rejected", "unheard"} : texts' = [texts EXCEPT ![t].step = step]
    BY <1>2 DEF CarrierAnswers
  <2>2. texts[t].row = "reserved"
    BY <1>2, <1>r DEF CarrierAnswers, Reserved
  <2>3. /\ TextsTyped' /\ OnlyText(t) /\ Kept(t) /\ texts'[t].step = step
        /\ texts'[t].row = texts[t].row /\ texts'[t].age = texts[t].age
    BY <1>t, <2>1, StepOnly DEF Reserved
  <2> QED BY <1>a, <1>m, <2>2, <2>3 DEF Kept
<1>3. CASE FinalizeDelivery(t)
  <2>1. /\ TextsTyped' /\ OnlyText(t) /\ Kept(t) /\ texts'[t].step = "done" /\ texts[t].step \in Reserved
        /\ texts'[t].row \in {texts[t].row, "accepted", "failed"} /\ texts'[t].age = texts[t].age
    BY <1>t, <1>3, Finalizes
  <2> QED BY <1>a, <1>m, <1>r, <2>1 DEF Kept, Reserved
<1>4. CASE TextAges(t)
  BY <1>t, <1>m, <1>4, Ages DEF Kept, Reserved
<1>5. CASE recordDeliveredChannelFromStatus(t)
  <2>1. /\ TextsTyped' /\ OnlyText(t) /\ texts'[t].step = texts[t].step /\ texts[t].sid /\ texts'[t].sid
        /\ texts'[t].to = texts[t].to /\ texts'[t].payer = texts[t].payer /\ texts'[t].kind = texts[t].kind
        /\ texts'[t].row = texts[t].row /\ texts'[t].age = texts[t].age
    BY <1>t, <1>5, Delivered
  <2>2. texts'[t].step \in {"done", "accepted", "rejected", "unheard"}
    BY <1>t, <1>r, <2>1 DEF TextRows, Reserved
  <2> QED BY <1>a, <1>m, <1>r, <2>1, <2>2
<1> QED BY <1>1, <1>2, <1>3, <1>4, <1>5

\* A text is reserved: one more for its number, and one more for its organization.
LEMMA ReserveCounts ==
  ASSUME CountsInv, UNCHANGED limits, NEW t \in Texts, reserveMobileDelivery(t)
  PROVE  CountsInv'
<1>t. TextsTyped /\ texts[t] \in TextRows
  BY DEF CountsInv, TextsTyped
<1>a. PICK n : n = texts[t].to
  OBVIOUS
<1>b. PICK o : o = texts[t].payer
  OBVIOUS
<1>c. PICK q \in BOOLEAN : q = (texts[t].kind = "otp")
  OBVIOUS
<1>1. /\ texts' = [texts EXCEPT ![t].step = "sending", ![t].row = "reserved"]
      /\ InTx(t) /\ n \in Numbers /\ (o = NoPayer \/ texts[t].step = "counted") /\ o \in Payers \cup {NoPayer}
  BY <1>t, <1>a, <1>b DEF reserveMobileDelivery, InTx, InTransaction, CountsInv, RoomInv, TextRows
<1>2. /\ TextsTyped' /\ OnlyText(t) /\ Kept(t) /\ texts'[t].step = "sending" /\ texts'[t].row = "reserved"
      /\ texts'[t].age = texts[t].age /\ texts'[t].sid = texts[t].sid
  BY <1>t, <1>1, RowToo DEF Reserved
<1>3. HasRoom(n, q) /\ \A u \in Texts : InTx(u) /\ texts[u].to = n => u = t
  BY <1>1, <1>a, <1>c DEF CountsInv, RoomInv
<1>4. o \in Payers => /\ ~Exempt(texts[t]) => Cardinality(Charged(o)) < limits[o].ceiling
                      /\ \A u \in Texts : texts[u].step = "counted" /\ texts[u].payer = o => u = t
  BY <1>1, <1>b, MessagingAssumption DEF CountsInv, ShareInv
<1>5. RowOfStep'
  <2>1. ~texts[t].sid /\ texts[t].delivered = "unknown"
    BY <1>1 DEF CountsInv, RowOfStep, InTx, Early
  <2> QED BY <1>2, <2>1, RowStays DEF Kept, Early, Reserved, CountsInv, InTransaction
<1>6. ASSUME NEW m, NEW p \in BOOLEAN, NEW age
      PROVE  /\ SentTo(m, p, age)' \subseteq SentTo(m, p, age) \cup {t}
             /\ m # n \/ p # q => SentTo(m, p, age)' \subseteq SentTo(m, p, age)
  BY <1>2, <1>a, <1>c DEF SentTo, RowsFor, OnlyText, Kept
<1>7. ASSUME NEW p \in Payers
      PROVE  /\ Charged(p)' \subseteq Charged(p) \cup {t}
             /\ p # o \/ Exempt(texts[t]) => Charged(p)' \subseteq Charged(p)
  BY <1>2, <1>b DEF Charged, Counted, OnlyText, Kept, Exempt
<1>8. IsFiniteSet(Begun) /\ IsFiniteSet(Begun')
  <2>1. Begun' \subseteq Begun \cup {t}
    BY <1>2 DEF Begun, OnlyText
  <2> QED BY <2>1, OneMoreOf DEF CountsInv
<1>9. ASSUME NEW m, NEW p \in BOOLEAN, m # n \/ p # q, HasRoom(m, p) PROVE HasRoom(m, p)'
  <2>1. PICK age \in {0, 1} : age = IF p THEN 0 ELSE 1
    OBVIOUS
  <2>2. PICK most \in Nat : most = IF p THEN OTP_LIMIT ELSE TEXT_LIMIT
    BY MessagingAssumption
  <2>3. IsFiniteSet(SentTo(m, p, age)) /\ SentTo(m, p, age)' \subseteq SentTo(m, p, age)
    BY <1>6, <1>8, <1>9, CountedAreBegun
  <2>4. Cardinality(SentTo(m, p, age)) < most
    BY <1>9, <2>1, <2>2, Zenon DEF HasRoom
  <2>5. Cardinality(SentTo(m, p, age)') < most
    BY <2>3, <2>4, FewerThan
  <2> QED BY <2>1, <2>2, <2>5, Zenon DEF HasRoom
<1>10. ASSUME NEW m \in Numbers, NEW p \in BOOLEAN, NEW age, NEW most \in Nat, age = (IF p THEN 0 ELSE 1),
              most = (IF p THEN OTP_LIMIT ELSE TEXT_LIMIT), Cardinality(SentTo(m, p, age)) <= most
       PROVE  Cardinality(SentTo(m, p, age)') <= most
  <2>1. IsFiniteSet(SentTo(m, p, age)) /\ SentTo(m, p, age)' \subseteq SentTo(m, p, age) \cup {t}
    BY <1>6, <1>8, CountedAreBegun
  <2>2. CASE m # n \/ p # q
    <3>1. Cardinality(SentTo(m, p, age)') <= Cardinality(SentTo(m, p, age)) /\ Cardinality(SentTo(m, p, age)') \in Nat
          /\ Cardinality(SentTo(m, p, age)) \in Nat
      BY <1>6, <2>1, <2>2, FewerOf
    <3> QED BY <1>10, <3>1
  <2>3. CASE m = n /\ p = q
    <3>1. Cardinality(SentTo(m, p, age)) < most
      BY <1>3, <1>10, <2>3, Zenon DEF HasRoom
    <3>2. Cardinality(SentTo(m, p, age)') <= Cardinality(SentTo(m, p, age)) + 1 /\ Cardinality(SentTo(m, p, age)') \in Nat
          /\ Cardinality(SentTo(m, p, age)) \in Nat
      BY <2>1, OneMoreOf
    <3> QED BY <3>1, <3>2
  <2> QED BY <2>2, <2>3
<1>11. WithinRecipientLimits'
  <2> SUFFICES ASSUME NEW m \in Numbers
               PROVE  Cardinality(SentTo(m, TRUE, 0)') <= OTP_LIMIT /\ Cardinality(SentTo(m, FALSE, 1)') <= TEXT_LIMIT
    BY DEF WithinRecipientLimits, SentTo
  <2>1. Cardinality(SentTo(m, TRUE, 0)) <= OTP_LIMIT /\ Cardinality(SentTo(m, FALSE, 1)) <= TEXT_LIMIT
    BY LimitsAsSets DEF CountsInv
  <2>2. Cardinality(SentTo(m, TRUE, 0)') <= OTP_LIMIT
    <3>1. OTP_LIMIT \in Nat /\ TRUE \in BOOLEAN /\ 0 = (IF TRUE THEN 0 ELSE 1) /\ OTP_LIMIT = (IF TRUE THEN OTP_LIMIT ELSE TEXT_LIMIT)
      BY MessagingAssumption
    <3> QED BY <1>10, <2>1, <3>1, Zenon
  <2>3. Cardinality(SentTo(m, FALSE, 1)') <= TEXT_LIMIT
    <3>1. TEXT_LIMIT \in Nat /\ FALSE \in BOOLEAN /\ 1 = (IF FALSE THEN 0 ELSE 1) /\ TEXT_LIMIT = (IF FALSE THEN OTP_LIMIT ELSE TEXT_LIMIT)
      BY MessagingAssumption
    <3> QED BY <1>10, <2>1, <3>1, Zenon
  <2> QED BY <2>2, <2>3
<1>12. ASSUME NEW p \in Payers PROVE Cardinality(Charged(p)') <= limits[p].ceiling
  <2>1. IsFiniteSet(Charged(p)) /\ Charged(p)' \subseteq Charged(p) \cup {t}
    BY <1>7, <1>8, CountedAreBegun
  <2>2. Cardinality(Charged(p)) <= limits[p].ceiling /\ limits[p].ceiling \in Nat
    BY DEF CountsInv, WithinOrganizationCap, Charged, LimitsTyped
  <2>3. CASE p # o \/ Exempt(texts[t])
    <3>1. Cardinality(Charged(p)') <= Cardinality(Charged(p)) /\ Cardinality(Charged(p)') \in Nat /\ Cardinality(Charged(p)) \in Nat
      BY <1>7, <2>1, <2>3, FewerOf
    <3> QED BY <2>2, <3>1
  <2>4. CASE p = o /\ ~Exempt(texts[t])
    <3>1. Cardinality(Charged(p)') <= Cardinality(Charged(p)) + 1 /\ Cardinality(Charged(p)') \in Nat /\ Cardinality(Charged(p)) \in Nat
      BY <2>1, OneMoreOf
    <3> QED BY <1>4, <2>2, <2>4, <3>1
  <2> QED BY <2>3, <2>4
<1>13. ASSUME NEW u \in Texts, InTx(u)'
       PROVE  /\ (texts[u].to \in Numbers /\ HasRoom(texts[u].to, texts[u].kind = "otp"))'
              /\ \A v \in Texts : (InTx(v) /\ texts[v].to = texts[u].to)' => v = u
  <2>1. u # t /\ \A v \in Texts : InTx(v)' => v # t /\ InTx(v) /\ texts'[v] = texts[v]
    BY <1>2, <1>13 DEF OnlyText, InTx, InTransaction
  <2>a. PICK m : m = texts'[u].to
    OBVIOUS
  <2>b. PICK p \in BOOLEAN : p = (texts'[u].kind = "otp")
    OBVIOUS
  <2>2. m \in Numbers /\ HasRoom(m, p) /\ \A v \in Texts : InTx(v) /\ texts[v].to = m => v = u
    BY <1>13, <2>1, <2>a, <2>b DEF CountsInv, RoomInv
  <2>3. m # n
    BY <1>1, <1>a, <2>1, <2>2
  <2>4. HasRoom(m, p)'
    BY <1>9, <2>2, <2>3
  <2> QED BY <2>1, <2>2, <2>4, <2>a, <2>b
<1>14. ASSUME NEW u \in Texts, texts'[u].step = "counted"
       PROVE  /\ texts'[u].payer \in Payers \/ texts'[u].payer = NoPayer
              /\ (texts[u].payer \in Payers /\ ~Exempt(texts[u]) => Cardinality(Charged(texts[u].payer)) < limits[texts[u].payer].ceiling)'
              /\ \A v \in Texts : texts'[v].step = "counted" /\ texts'[v].payer = texts'[u].payer => v = u
  <2>1. u # t /\ \A v \in Texts : texts'[v].step = "counted" => v # t /\ texts'[v] = texts[v]
    BY <1>2, <1>14 DEF OnlyText
  <2>a. PICK p : p = texts'[u].payer
    OBVIOUS
  <2>2. /\ p \in Payers \/ p = NoPayer
        /\ p \in Payers /\ ~Exempt(texts[u]) => Cardinality(Charged(p)) < limits[p].ceiling
        /\ \A v \in Texts : texts[v].step = "counted" /\ texts[v].payer = p => v = u
    BY <1>14, <2>1, <2>a DEF CountsInv, ShareInv
  <2>3. p \in Payers => p # o
    BY <1>1, <1>b, <1>4, <1>14, <2>1, <2>a, MessagingAssumption
  <2>4. ASSUME p \in Payers, ~Exempt(texts[u]) PROVE Cardinality(Charged(p)') < limits[p].ceiling
    <3>1. IsFiniteSet(Charged(p)) /\ Charged(p)' \subseteq Charged(p) /\ limits[p].ceiling \in Nat
      BY <1>7, <1>8, <2>3, <2>4, CountedAreBegun DEF CountsInv, LimitsTyped
    <3> QED BY <2>2, <2>4, <3>1, FewerThan
  <2>5. Exempt(texts'[u]) <=> Exempt(texts[u])
    BY <1>14, <2>1 DEF Exempt
  <2> QED BY <1>14, <2>1, <2>2, <2>4, <2>5, <2>a
<1>15. WithinOrganizationCap'
  BY <1>12 DEF WithinOrganizationCap, Charged
<1> QED BY <1>2, <1>5, <1>8, <1>11, <1>13, <1>14, <1>15 DEF CountsInv, RoomInv, ShareInv, LimitsTyped

-----------------------------------------------------------------------------
(* Every step, and the start. *)

LEMMA CountsStay ==
  ASSUME CountsInv, UNCHANGED texts, LimitsTyped',
         \A o \in Payers : limits'[o].ceiling >= limits[o].ceiling
  PROVE  CountsInv'
<1>1. \A o \in Payers : limits[o].ceiling \in Nat /\ limits'[o].ceiling \in Nat
  BY DEF CountsInv, LimitsTyped
<1>2. \A o : Charged(o)' = Charged(o)
  BY DEF Charged, Counted, Exempt
<1>3. \A n, otp, age : SentTo(n, otp, age)' = SentTo(n, otp, age)
  BY DEF SentTo, RowsFor
<1>4. \A n, otp : HasRoom(n, otp)' <=> HasRoom(n, otp)
  BY <1>3, Zenon DEF HasRoom
<1>5. WithinRecipientLimits'
  BY DEF CountsInv, WithinRecipientLimits, RowsFor
<1>6. \A o \in Payers : /\ Cardinality(Charged(o)) \in Nat
                        /\ Cardinality(Charged(o)) <= limits[o].ceiling
  BY CountedAreBegun, FS_CardinalityType DEF CountsInv, WithinOrganizationCap, Charged
<1>7. \A o \in Payers : Cardinality(Charged(o)') <= limits'[o].ceiling
  BY <1>1, <1>2, <1>6
<1>8. WithinOrganizationCap'
  BY <1>7 DEF WithinOrganizationCap, Charged
<1>9. RoomInv'
  <2> SUFFICES ASSUME NEW t \in Texts, InTx(t)'
               PROVE  /\ (texts[t].to \in Numbers /\ HasRoom(texts[t].to, texts[t].kind = "otp"))'
                      /\ \A u \in Texts : (InTx(u) /\ texts[u].to = texts[t].to)' => u = t
    BY DEF RoomInv
  <2>1. PICK n : n = texts[t].to /\ n = texts'[t].to
    OBVIOUS
  <2>2. PICK q \in BOOLEAN : q = (texts[t].kind = "otp") /\ q = (texts'[t].kind = "otp")
    OBVIOUS
  <2>3. \A u \in Texts : InTx(u)' <=> InTx(u)
    BY DEF InTx
  <2>4. n \in Numbers /\ HasRoom(n, q) /\ \A u \in Texts : InTx(u) /\ texts[u].to = n => u = t
    BY <2>1, <2>2, <2>3 DEF CountsInv, RoomInv
  <2>5. HasRoom(n, q)'
    BY <1>4, <2>4
  <2> QED BY <2>1, <2>2, <2>3, <2>4, <2>5
<1>10. ShareInv'
  <2> SUFFICES ASSUME NEW t \in Texts, texts'[t].step = "counted"
               PROVE  /\ texts'[t].payer \in Payers \/ texts'[t].payer = NoPayer
                      /\ (texts[t].payer \in Payers /\ ~Exempt(texts[t]) => Cardinality(Charged(texts[t].payer)) < limits[texts[t].payer].ceiling)'
                      /\ \A u \in Texts : texts'[u].step = "counted" /\ texts'[u].payer = texts'[t].payer => u = t
    BY DEF ShareInv
  <2>1. PICK o : o = texts[t].payer /\ o = texts'[t].payer
    OBVIOUS
  <2>2. /\ o \in Payers \/ o = NoPayer
        /\ o \in Payers /\ ~Exempt(texts[t]) => Cardinality(Charged(o)) < limits[o].ceiling
        /\ \A u \in Texts : texts[u].step = "counted" /\ texts[u].payer = o => u = t
    BY <2>1 DEF CountsInv, ShareInv
  <2>3. o \in Payers /\ ~Exempt(texts[t]) => Cardinality(Charged(o)') < limits'[o].ceiling
    BY <1>1, <1>2, <1>6, <2>2
  <2>4. Exempt(texts'[t]) <=> Exempt(texts[t])
    BY DEF Exempt
  <2> QED BY <2>1, <2>2, <2>3, <2>4
<1> QED BY <1>5, <1>8, <1>9, <1>10 DEF CountsInv, TextsTyped, RowOfStep, Begun

\* Which steps write the texts or the limits.
WritesText(t) ==
  \/ \E n \in Numbers, o \in Payers \cup {NoPayer}, k \in Kinds : sendTwilioNotification(t, n, o, k)
  \/ CountMonth(t) \/ reserveMobileDelivery(t) \/ FinalizeDelivery(t) \/ SenderDies(t) \/ CarrierAnswers(t)
  \/ recordDeliveredChannelFromStatus(t) \/ TextAges(t)

LEMMA WritersOfTexts ==
  ASSUME [MessagingNext]_messagingVars
  PROVE  \/ UNCHANGED <<texts, limits>>
         \/ UNCHANGED limits /\ \E t \in Texts : WritesText(t)
         \/ UNCHANGED texts /\ \E o \in Payers, c \in Caps : setOrgMessagingLimit(o, c)
<1>1. CASE UNCHANGED messagingVars \/ SmsConsentRoute \/ InboundRoute \/ \E n \in Numbers : upsertVerifiedPhone(n)
  BY <1>1 DEF messagingVars, spendVars, SmsConsentRoute, InboundRoute, recordSmsConsent, WriteConsent, upsertVerifiedPhone
<1>2. ASSUME NEW t \in Texts, Send(t) \/ CarrierAnswers(t) \/ StatusRoute(t) \/ TextAges(t)
      PROVE  UNCHANGED limits /\ WritesText(t)
  BY <1>2 DEF WritesText, Send, sendTwilioNotification, CountMonth, reserveMobileDelivery, FinalizeDelivery, SenderDies,
              CarrierAnswers, StatusRoute, recordDeliveredChannelFromStatus, TextAges, spendVars
<1>3. ASSUME NEW t \in Texts, CarrierDelivers(t) PROVE UNCHANGED <<texts, limits>>
  BY <1>3 DEF CarrierDelivers, spendVars
<1>4. ASSUME NEW o \in Payers, NEW c \in Caps, setOrgMessagingLimit(o, c) PROVE UNCHANGED texts
  BY <1>4 DEF setOrgMessagingLimit
<1>5. ASSUME NEW e \in evaluating, Evaluate(e) PROVE UNCHANGED <<texts, limits>>
  BY <1>5 DEF Evaluate, evaluateOrgMessagingAlerts, ClaimAlert, MailAlert, CloseAlert, EvaluationEnds
<1>6. ASSUME NEW o \in Payers, NEW h \in Thresholds, AlertGetsOld(o, h) PROVE UNCHANGED <<texts, limits>>
  BY <1>6 DEF AlertGetsOld
<1> QED BY <1>1, <1>2, <1>3, <1>4, <1>5, <1>6 DEF MessagingNext

LEMMA CountsStep == CountsInv /\ [MessagingNext]_messagingVars => CountsInv'
<1> SUFFICES ASSUME CountsInv, [MessagingNext]_messagingVars PROVE CountsInv'
  OBVIOUS
<1>1. CASE UNCHANGED <<texts, limits>>
  BY <1>1, CountsStay DEF CountsInv, LimitsTyped
<1>2. ASSUME NEW t \in Texts, UNCHANGED limits, WritesText(t) PROVE CountsInv'
  BY <1>2, SendCounts, CountCounts, ReserveCounts, LaterCounts DEF WritesText
<1>3. ASSUME NEW o \in Payers, NEW c \in Caps, UNCHANGED texts, setOrgMessagingLimit(o, c) PROVE CountsInv'
  <2>1. c \in Nat /\ limits[o].ceiling \in Nat
    BY MessagingAssumption DEF CountsInv, LimitsTyped
  <2>2. PICK most \in Nat : most = IF c > limits[o].ceiling THEN c ELSE limits[o].ceiling
    BY <2>1
  <2>3. limits' = [limits EXCEPT ![o] = [cap |-> c, ceiling |-> most]] /\ c <= most /\ limits[o].ceiling <= most
    BY <1>3, <2>1, <2>2 DEF setOrgMessagingLimit
  <2>4. /\ limits' \in [Payers -> [cap : Nat, ceiling : Nat]] /\ limits'[o].cap = c /\ limits'[o].ceiling = most
        /\ \A p \in Payers \ {o} : limits'[p] = limits[p]
    BY <2>1, <2>3 DEF CountsInv, LimitsTyped
  <2>5. LimitsTyped' /\ \A p \in Payers : limits'[p].ceiling >= limits[p].ceiling
    BY <2>3, <2>4 DEF CountsInv, LimitsTyped
  <2> QED BY <1>3, <2>5, CountsStay
<1> QED BY <1>1, <1>2, <1>3, WritersOfTexts

LEMMA CountsInit == MessagingInit => CountsInv
<1> SUFFICES ASSUME MessagingInit PROVE CountsInv
  OBVIOUS
<1>1. /\ Unwritten \in TextRows /\ Unwritten.step = "unsent" /\ Unwritten.row = "none"
      /\ ~Unwritten.sid /\ Unwritten.delivered = "unknown"
  BY DEF Unwritten, TextRows, Early, Reserved, InTransaction, Kinds
<1>2. texts = [t \in Texts |-> Unwritten]
  BY DEF MessagingInit
<1>3. TextsTyped /\ RowOfStep /\ \A t \in Texts : texts[t].step = "unsent" /\ texts[t].row = "none"
  BY <1>1, <1>2 DEF TextsTyped, RowOfStep, Early, Reserved, InTransaction
<1>4. LimitsTyped
  BY MessagingAssumption DEF MessagingInit, LimitsTyped
<1>5. Begun = {} /\ \A o : Charged(o) = {}
  BY <1>3 DEF Begun, Charged, Counted
<1>6. \A n, otp, age : SentTo(n, otp, age) = {}
  BY <1>3 DEF SentTo, RowsFor
<1>7. IsFiniteSet({}) /\ Cardinality({}) = 0
  BY FS_EmptySet
<1>8. WithinRecipientLimits
  <2>1. 0 <= OTP_LIMIT /\ 0 <= TEXT_LIMIT
    BY MessagingAssumption
  <2> QED BY <1>6, <1>7, <2>1, LimitsAsSets
<1>9. WithinOrganizationCap
  <2>1. \A o \in Payers : 0 <= limits[o].ceiling
    BY <1>4 DEF LimitsTyped
  <2>2. \A o \in Payers : Cardinality(Charged(o)) <= limits[o].ceiling
    BY <1>5, <1>7, <2>1
  <2> QED BY <2>2 DEF WithinOrganizationCap, Charged
<1> QED BY <1>3, <1>4, <1>5, <1>7, <1>8, <1>9 DEF CountsInv, RoomInv, ShareInv, InTx, InTransaction

\* What the carrier has done with a text, and the channel recorded for it.
CarriedInv == carried \in [Texts -> Carried \cup {"none", "accepted"}] /\ DeliveredChannelTrue

LEMMA CarriedStep == CarriedInv /\ TextsTyped /\ RowOfStep /\ [MessagingNext]_messagingVars => CarriedInv'
<1> SUFFICES ASSUME CarriedInv, TextsTyped, RowOfStep, [MessagingNext]_messagingVars PROVE CarriedInv'
  OBVIOUS
<1>1. ASSUME NEW t \in Texts, UNCHANGED carried, OnlyText(t), texts'[t].delivered \in {"unknown", texts[t].delivered}
      PROVE  CarriedInv'
  BY <1>1 DEF CarriedInv, DeliveredChannelTrue, OnlyText
<1>2. CASE UNCHANGED <<texts, carried>>
  BY <1>2 DEF CarriedInv, DeliveredChannelTrue
<1>3. ASSUME NEW t \in Texts, CarrierAnswers(t) PROVE CarriedInv'
  <2>1. PICK step \in {"accepted", "rejected", "unheard"}, c \in {"accepted", carried[t]} :
          texts' = [texts EXCEPT ![t].step = step] /\ carried' = [carried EXCEPT ![t] = c]
    BY <1>3 DEF CarrierAnswers
  <2>2. OnlyText(t) /\ texts'[t].delivered = "unknown"
    BY <1>3, <2>1, StepOnly DEF Reserved, Kept, RowOfStep, CarrierAnswers
  <2>3. /\ carried' \in [Texts -> Carried \cup {"none", "accepted"}]
        /\ \A u \in Texts \ {t} : carried'[u] = carried[u]
    BY <2>1 DEF CarriedInv
  <2> QED BY <2>2, <2>3 DEF CarriedInv, DeliveredChannelTrue, OnlyText
<1>4. ASSUME NEW t \in Texts, CarrierDelivers(t) PROVE CarriedInv'
  <2>1. PICK c \in Onward[carried[t]] : carried' = [carried EXCEPT ![t] = c]
    BY <1>4 DEF CarrierDelivers
  <2>2. carried[t] \in {"none", "accepted", "rcs_sent", "rcs_failed", "rcs_delivered", "sms_sent", "sms_delivered"}
    BY DEF CarriedInv, Carried
  <2>3. c \in Carried /\ carried[t] \notin DELIVERED_STATUSES
    BY <2>1, <2>2 DEF Onward, Carried, DELIVERED_STATUSES
  <2>4. /\ carried' \in [Texts -> Carried \cup {"none", "accepted"}]
        /\ \A u \in Texts \ {t} : carried'[u] = carried[u]
    BY <2>1, <2>3 DEF CarriedInv
  <2>5. UNCHANGED texts
    BY <1>4 DEF CarrierDelivers
  <2> QED BY <2>3, <2>4, <2>5 DEF CarriedInv, DeliveredChannelTrue
<1>5. ASSUME NEW t \in Texts, recordDeliveredChannelFromStatus(t) PROVE CarriedInv'
  <2>1. OnlyText(t) /\ \E c \in Reported(t) : TellsDelivery(c) /\ texts'[t].delivered = ChannelOf(c)
    BY <1>5, Delivered
  <2>2. carried[t] \in {"none", "accepted", "rcs_sent", "rcs_failed", "rcs_delivered", "sms_sent", "sms_delivered"}
    BY DEF CarriedInv, Carried
  <2>3. \A c \in Reported(t) : TellsDelivery(c) => c = carried[t]
    BY <2>2 DEF Reported, TellsDelivery, DELIVERED_STATUSES
  <2>4. carried[t] \in DELIVERED_STATUSES /\ texts'[t].delivered = ChannelOf(carried[t])
    BY <2>1, <2>3 DEF TellsDelivery
  <2>5. UNCHANGED carried
    BY <1>5 DEF recordDeliveredChannelFromStatus
  <2> QED BY <2>1, <2>4, <2>5 DEF CarriedInv, DeliveredChannelTrue, OnlyText, ChannelOf
<1>6. ASSUME NEW t \in Texts, WritesText(t), ~CarrierAnswers(t), ~recordDeliveredChannelFromStatus(t) PROVE CarriedInv'
  <2>1. UNCHANGED carried
    BY <1>6 DEF WritesText, sendTwilioNotification, CountMonth, reserveMobileDelivery, FinalizeDelivery, SenderDies, TextAges
  <2>2. CASE \E n \in Numbers, o \in Payers \cup {NoPayer}, k \in Kinds : sendTwilioNotification(t, n, o, k)
    BY <1>1, <2>1, <2>2, Sends DEF NewRow
  <2>3. CASE CountMonth(t) \/ reserveMobileDelivery(t)
    <3>1. \/ texts' = [texts EXCEPT ![t].step = "counted"]
          \/ texts' = [texts EXCEPT ![t].step = "done", ![t].row = "blocked_org_cap"]
          \/ texts' = [texts EXCEPT ![t].step = "sending", ![t].row = "reserved"]
      BY <2>3 DEF CountMonth, TextStep, reserveMobileDelivery
    <3>2. OnlyText(t) /\ Kept(t)
      BY <3>1, StepOnly, RowToo DEF Early, Reserved, InTransaction
    <3> QED BY <1>1, <2>1, <3>2 DEF Kept
  <2>4. CASE FinalizeDelivery(t) \/ TextAges(t)
    BY <1>1, <2>1, <2>4, Finalizes, Ages DEF Kept
  <2>5. CASE SenderDies(t)
    BY <1>1, <2>1, <2>5, StepOnly DEF SenderDies, TextStep, Kept
  <2> QED BY <1>6, <2>2, <2>3, <2>4, <2>5 DEF WritesText
<1>7. \/ UNCHANGED <<texts, carried>> \/ \E t \in Texts : WritesText(t) \/ CarrierDelivers(t)
  <2>1. CASE UNCHANGED messagingVars \/ SmsConsentRoute \/ InboundRoute \/ \E n \in Numbers : upsertVerifiedPhone(n)
    BY <2>1 DEF messagingVars, SmsConsentRoute, InboundRoute, recordSmsConsent, WriteConsent, upsertVerifiedPhone
  <2>2. ASSUME NEW t \in Texts, Send(t) \/ CarrierAnswers(t) \/ CarrierDelivers(t) \/ StatusRoute(t) \/ TextAges(t)
        PROVE  WritesText(t) \/ CarrierDelivers(t)
    BY <2>2 DEF WritesText, Send, StatusRoute
  <2>3. CASE \/ \E o \in Payers, c \in Caps : setOrgMessagingLimit(o, c)
             \/ \E e \in evaluating : Evaluate(e)
             \/ \E o \in Payers, h \in Thresholds : AlertGetsOld(o, h)
    BY <2>3 DEF setOrgMessagingLimit, Evaluate, evaluateOrgMessagingAlerts, ClaimAlert, MailAlert, CloseAlert,
                EvaluationEnds, AlertGetsOld
  <2> QED BY <2>1, <2>2, <2>3 DEF MessagingNext
<1> QED BY <1>2, <1>3, <1>4, <1>5, <1>6, <1>7

\* A refusal is in the phone and in the registry.
PhonesInv == phones \in [Numbers -> {"none", "not_configured", "opted_in", "opted_out"}] /\ PhonesFollowRegistry

LEMMA PhonesStep == PhonesInv /\ RegistryTyped /\ [MessagingNext]_messagingVars => PhonesInv'
<1> SUFFICES ASSUME PhonesInv, RegistryTyped, [MessagingNext]_messagingVars PROVE PhonesInv'
  OBVIOUS
<1>1. CASE UNCHANGED <<registry, phones>>
  BY <1>1 DEF PhonesInv, PhonesFollowRegistry
<1>2. ASSUME NEW n \in Numbers, upsertVerifiedPhone(n) PROVE PhonesInv'
  BY <1>2 DEF upsertVerifiedPhone, PhonesInv, PhonesFollowRegistry
<1>3. ASSUME NEW c \in Consents, WriteConsent(c) PROVE PhonesInv'
  <2>1. c.of \in Numbers /\ c.action \in {"opted_in", "opted_out"}
    BY DEF Consents
  <2>2. CASE StopStands(c)
    BY <1>1, <1>3, <2>2 DEF WriteConsent, NothingWritten
  <2>3. CASE ~StopStands(c)
    <3>1. PICK source : source = IF isCarrierStop(registry[c.of]) /\ c.action = "opted_out"
                                 THEN registry[c.of].source ELSE c.source
      OBVIOUS
    <3>r. PICK row : row = [state |-> c.action, source |-> source]
      OBVIOUS
    <3>3. registry' = [registry EXCEPT ![c.of] = row] /\ row.state = c.action
      BY <1>3, <2>3, <3>1, <3>r DEF WriteConsent
    <3>2. PICK now \in {"none", c.action} : phones' = [phones EXCEPT ![c.of] = now]
      BY <1>3, <2>1, <2>3 DEF WriteConsent, NothingWritten, PhonesInv
    <3> QED BY <2>1, <3>2, <3>3 DEF PhonesInv, PhonesFollowRegistry, RegistryTyped
  <2> QED BY <2>2, <2>3
<1>4. CASE UNCHANGED messagingVars \/ SmsConsentRoute \/ InboundRoute
  BY <1>1, <1>3, <1>4 DEF messagingVars, consentVars, SmsConsentRoute, InboundRoute, recordSmsConsent
<1>5. CASE \/ \E t \in Texts : Send(t) \/ CarrierAnswers(t) \/ CarrierDelivers(t) \/ StatusRoute(t) \/ TextAges(t)
           \/ \E o \in Payers, c \in Caps : setOrgMessagingLimit(o, c)
           \/ \E e \in evaluating : Evaluate(e)
           \/ \E o \in Payers, h \in Thresholds : AlertGetsOld(o, h)
  <2>1. UNCHANGED consentVars
    BY <1>5 DEF Send, sendTwilioNotification, CountMonth, reserveMobileDelivery, FinalizeDelivery, SenderDies,
                CarrierAnswers, CarrierDelivers, StatusRoute, recordDeliveredChannelFromStatus, TextAges,
                setOrgMessagingLimit, Evaluate, evaluateOrgMessagingAlerts, ClaimAlert, MailAlert, CloseAlert,
                EvaluationEnds, AlertGetsOld
  <2> QED BY <1>1, <2>1 DEF consentVars
<1> QED BY <1>2, <1>4, <1>5 DEF MessagingNext

LEMMA SaidInit == MessagingInit => RegistryTyped /\ PhonesInv /\ AlertsInv /\ CarriedInv
<1> SUFFICES ASSUME MessagingInit PROVE RegistryTyped /\ PhonesInv /\ AlertsInv /\ CarriedInv
  OBVIOUS
<1>1. RegistryTyped /\ PhonesInv
  <2>1. PICK on \in SUBSET Numbers :
          /\ registry = [n \in Numbers |-> IF n \in on THEN [state |-> "opted_in", source |-> "settings"] ELSE [state |-> "none", source |-> "none"]]
          /\ phones = [n \in Numbers |-> IF n \in on THEN "opted_in" ELSE "none"]
    BY DEF MessagingInit
  <2> QED BY <2>1 DEF RegistryTyped, RegistryRows, PhonesInv, PhonesFollowRegistry
<1>2. AlertsInv
  <2>1. alerts = [o \in Payers |-> [h \in Thresholds |-> [status |-> "none", old |-> FALSE, mails |-> 0]]] /\ evaluating = {}
    BY DEF MessagingInit
  <2>2. [status |-> "none", old |-> FALSE, mails |-> 0] \in AlertRows
    BY DEF AlertRows
  <2> QED BY <2>1, <2>2 DEF AlertsInv
<1>3. CarriedInv
  BY DEF MessagingInit, CarriedInv, DeliveredChannelTrue, Unwritten
<1> QED BY <1>1, <1>2, <1>3

\* A text is sent to nobody who refused it, past no limit of its number or its
\* organization, and is recorded under the channel that reached the phone.
THEOREM TextsCorrect == MessagingSpec => []TextsKeepTheRules
<1> DEFINE Inv == CountsInv /\ CarriedInv /\ PhonesInv /\ RegistryTyped
<1>1. MessagingInit => Inv
  BY CountsInit, SaidInit
<1>2. Inv /\ [MessagingNext]_messagingVars => Inv'
  <2>1. CountsInv => TextsTyped /\ RowOfStep
    BY DEF CountsInv
  <2> QED BY <2>1, CountsStep, CarriedStep, PhonesStep, RegistryStep
<1>3. Inv => TextsKeepTheRules
  BY DEF TextsKeepTheRules, CountsInv, CarriedInv, PhonesInv
<1> QED BY <1>1, <1>2, <1>3, PTL DEF MessagingSpec

\* A STOP is lifted only by the carrier, and an alert that went out to everyone
\* is final, whatever consents and evaluations run in parallel.
THEOREM SaidCorrect == MessagingSpec => WhatWasSaidStays
<1> DEFINE Inv == CountsInv /\ AlertsInv /\ RegistryTyped
<1>1. MessagingInit => Inv
  BY CountsInit, SaidInit
<1>2. Inv /\ [MessagingNext]_messagingVars => Inv' /\ StopStaysPut /\ AlertStays
  <2>1. CountsInv => TextsTyped
    BY DEF CountsInv
  <2> QED BY <2>1, CountsStep, AlertsStep, RegistryStep
<1>3. Inv /\ Inv' /\ [MessagingNext]_messagingVars => [StopStaysPut /\ AlertStays]_messagingVars
  BY <1>2
<1>4. [StopStaysPut /\ AlertStays]_messagingVars => [\A n \in Numbers : isCarrierStop(registry[n]) /\ ~isCarrierStop(registry'[n]) => registry'[n].source = "carrier"]_messagingVars
  BY DEF StopStaysPut
<1>5. [StopStaysPut /\ AlertStays]_messagingVars => [\A o \in Payers, h \in Thresholds : alerts[o][h].status = "sent" =>
       alerts'[o][h].status = "sent" /\ alerts'[o][h].mails = alerts[o][h].mails]_messagingVars
  BY DEF AlertStays
<1> QED BY <1>1, <1>2, <1>3, <1>4, <1>5, PTL DEF MessagingSpec, WhatWasSaidStays, CarrierStopStays, SentAlertIsFinal

-----------------------------------------------------------------------------
(* Notices: a reminder is claimed once, and one run has it. *)

NoticeRows ==
  [step : {"none", "called", "pushing", "texting", "mailing", "routed", "thrown", "done"}, to : Riders \cup {Unrouted.to},
   type : DOMAIN POLICIES, queued : BOOLEAN, tries : Nat, allows : Profiles \cup {DEFAULTS}, pushed : BOOLEAN,
   text : {"none", "skipped", "accepted", "failed", "paused"}, mail : {"none", "accepted", "failed"}, heard : Nat]
RunRows == [by : Runners, kind : KINDS, step : {"asking", "claiming", "sending"}, todo : SUBSET Claims, doing : SUBSET Claims]

\* What a routed notice did about a text that was paused.
Mailed(x) == x.text = "paused" /\ ~x.pushed /\ emailAllowed(x) => x.mail # "none"
\* A reminder is not queued, so that its one call is its one try.
TriedOnce(x) == ~x.queued /\ x.tries <= 1 /\ (x.step \in {"none", "called"} => x.tries = 0)

PrefsInv ==
  /\ DOMAIN prefs = Riders /\ \A p \in Riders : \A row \in prefs[p] : row.values \in Profiles
  /\ \A s \in saving : s.values \in Profiles
RowsInv ==
  /\ notices \in [Claims \cup Others -> NoticeRows]
  /\ \A n \in Claims \cup Others : /\ notices[n].step # "none" => notices[n].to \in Riders
                                   /\ notices[n].step = "routed" => Mailed(notices[n])
  /\ \A c \in Claims : TriedOnce(notices[c])
\* A reminder that nobody claimed is not under way, and one run at most has one.
RunsInv ==
  /\ dispatches \in [Claims -> {"none", "pending", "sent", "failed"}] /\ runs \subseteq RunRows
  /\ \A c \in Claims : dispatches[c] = "none" <=> notices[c].step = "none"
  /\ \A u \in runs : \A c \in u.doing : dispatches[c] # "none"
  /\ \A u, v \in runs : \A c \in Claims : c \in u.doing /\ c \in v.doing => u = v
NoticesInv == PrefsInv /\ RowsInv /\ RunsInv

LEMMA PreferencesTyped ==
  ASSUME PrefsInv, NEW p \in Riders
  PROVE  Preferences(p) \subseteq Profiles \cup {DEFAULTS}
BY DEF PrefsInv, Preferences

LEMMA UnroutedTyped ==
  /\ Unrouted \in NoticeRows /\ Unrouted.step = "none" /\ ~Unrouted.queued /\ Unrouted.tries = 0
BY DEF Unrouted, NoticeRows, POLICIES

\* A notice becomes r.
LEMMA NoticeWritten ==
  ASSUME RowsInv, NEW n \in Claims \cup Others, NEW r \in NoticeRows, notices' = [notices EXCEPT ![n] = r],
         r.step # "none" => r.to \in Riders, r.step = "routed" => Mailed(r), n \in Claims => TriedOnce(r)
  PROVE  /\ RowsInv' /\ notices'[n] = r /\ \A m \in (Claims \cup Others) \ {n} : notices'[m] = notices[m]
<1>1. /\ notices' \in [Claims \cup Others -> NoticeRows] /\ notices'[n] = r
      /\ \A m \in (Claims \cup Others) \ {n} : notices'[m] = notices[m]
  BY DEF RowsInv
<1> QED BY <1>1 DEF RowsInv

\* Routing: a notice that was called goes on.
LEMMA RouteKeeps ==
  ASSUME NoticesInv, NEW n \in Claims \cup Others, NEW r \in NoticeRows, notices' = [notices EXCEPT ![n] = r],
         UNCHANGED <<dispatches, runs, prefs, saving>>, n \in Others \/ notices[n].step # "none", r.step # "none",
         r.to \in Riders, r.step = "routed" => Mailed(r), n \in Claims => TriedOnce(r)
  PROVE  NoticesInv'
<1>1. RowsInv' /\ \A m \in (Claims \cup Others) \ {n} : notices'[m] = notices[m]
  BY NoticeWritten DEF NoticesInv
<1>2. n \in Others => n \notin Claims
  BY NotificationsAssumption
<1>3. \A c \in Claims : dispatches[c] = "none" <=> notices'[c].step = "none"
  BY <1>1, <1>2 DEF NoticesInv, RunsInv
<1>4. RunsInv'
  BY <1>3 DEF NoticesInv, RunsInv
<1>5. PrefsInv'
  BY DEF NoticesInv, PrefsInv
<1> QED BY <1>1, <1>4, <1>5 DEF NoticesInv

LEMMA RouteStep ==
  ASSUME NoticesInv, NEW n \in Claims \cup Others, routeNotification(n)
  PROVE  NoticesInv'
<1> DEFINE x == notices[n]
<1>1. x \in NoticeRows /\ PrefsInv
  BY DEF NoticesInv, RowsInv
<1>t. notices \in [Claims \cup Others -> NoticeRows]
  BY DEF NoticesInv, RowsInv
<1>2. /\ x.step # "none" => x.to \in Riders
      /\ n \in Claims => TriedOnce(x)
  BY DEF NoticesInv, RowsInv
<1>3. UNCHANGED <<dispatches, runs, prefs, saving>> /\ x.step # "none"
  BY DEF routeNotification, recipientContext, sendPushToSubscription, PushThrows, sendText, sendEmailNotification, RetryNotice,
         rideVars, runVars, prefVars
<1>h. x.heard \in Nat /\ x.heard + 1 \in Nat
  BY <1>1 DEF NoticeRows
<1>4. CASE recipientContext(n)
  <2>t. PICK tries \in Nat : tries = x.tries + 1
    BY <1>1 DEF NoticeRows
  <2>1. PICK f \in Preferences(x.to) : notices' = [notices EXCEPT ![n].step = "pushing", ![n].allows = f, ![n].tries = tries]
    BY <1>4, <2>t DEF recipientContext
  <2>2. x.step = "called" /\ f \in Profiles \cup {DEFAULTS}
    BY <1>1, <1>2, <1>3, <1>4, PreferencesTyped DEF recipientContext
  <2> DEFINE r == [x EXCEPT !.step = "pushing", !.allows = f, !.tries = tries]
  <2>3. /\ r \in NoticeRows /\ r.step = "pushing" /\ r.to = x.to /\ r.queued = x.queued /\ r.tries = x.tries + 1
    BY <1>1, <2>2, <2>t DEF NoticeRows
  <2>4. notices' = [notices EXCEPT ![n] = r]
    BY <1>t, <2>1
  <2>5. n \in Claims => TriedOnce(r)
    BY <1>2, <2>2, <2>3 DEF TriedOnce
  <2>6. r.step # "none" /\ r.step # "routed" /\ r.to \in Riders
    BY <1>2, <1>3, <2>3
  <2> HIDE DEF r
  <2> QED BY <1>3, <2>3, <2>4, <2>5, <2>6, RouteKeeps, Zenon
<1>5. ASSUME NEW r \in NoticeRows, notices' = [notices EXCEPT ![n] = r], r.step \notin {"none", "called"}, r.to = x.to,
             r.queued = x.queued, r.tries = x.tries, r.step = "routed" => Mailed(r)
      PROVE  NoticesInv'
  BY <1>1, <1>2, <1>3, <1>5, RouteKeeps DEF TriedOnce
<1>6. CASE sendPushToSubscription(n)
  <2>1. PICK ok \in BOOLEAN, heard \in Nat : notices' = [notices EXCEPT ![n].step = "texting", ![n].pushed = ok, ![n].heard = heard]
    BY <1>h, <1>6 DEF sendPushToSubscription
  <2> DEFINE r == [x EXCEPT !.step = "texting", !.pushed = ok, !.heard = heard]
  <2>2. r \in NoticeRows /\ r.step = "texting" /\ r.to = x.to /\ r.queued = x.queued /\ r.tries = x.tries
    BY <1>1 DEF NoticeRows
  <2>3. notices' = [notices EXCEPT ![n] = r]
    BY <1>t, <2>1
  <2> HIDE DEF x, r
  <2> QED BY <1>5, <2>2, <2>3
<1>7. CASE PushThrows(n)
  <2>1. PICK ok \in BOOLEAN, heard \in Nat : notices' = [notices EXCEPT ![n].step = "thrown", ![n].heard = heard]
    BY <1>h, <1>7 DEF PushThrows
  <2> DEFINE r == [x EXCEPT !.step = "thrown", !.heard = heard]
  <2>2. r \in NoticeRows /\ r.step = "thrown" /\ r.to = x.to /\ r.queued = x.queued /\ r.tries = x.tries
    BY <1>1 DEF NoticeRows
  <2>3. notices' = [notices EXCEPT ![n] = r]
    BY <1>t, <2>1
  <2> HIDE DEF x, r
  <2> QED BY <1>5, <2>2, <2>3
<1>8. CASE sendText(n)
  <2>1. PICK outcome \in {"skipped", "accepted", "failed", "paused"}, heard \in Nat :
          notices' = [notices EXCEPT ![n].step = "mailing", ![n].text = outcome,
                                    ![n].heard = heard]
    BY <1>h, <1>8 DEF sendText
  <2> DEFINE r == [x EXCEPT !.step = "mailing", !.text = outcome, !.heard = heard]
  <2>2. r \in NoticeRows /\ r.step = "mailing" /\ r.to = x.to /\ r.queued = x.queued /\ r.tries = x.tries
    BY <1>1 DEF NoticeRows
  <2>3. notices' = [notices EXCEPT ![n] = r]
    BY <1>t, <2>1
  <2> HIDE DEF x, r
  <2> QED BY <1>5, <2>2, <2>3
<1>9. CASE sendEmailNotification(n)
  <2>1. PICK outcome \in {"none", "accepted", "failed"}, step \in {"routed", "thrown"}, heard \in Nat :
          /\ outcome = "none" => ~shouldEmail(x)
          /\ notices' = [notices EXCEPT ![n].step = step, ![n].mail = outcome,
                                    ![n].heard = heard]
    BY <1>h, <1>9 DEF sendEmailNotification
  <2> DEFINE r == [x EXCEPT !.step = step, !.mail = outcome, !.heard = heard]
  <2>2. /\ r \in NoticeRows /\ r.step = step /\ r.to = x.to /\ r.queued = x.queued /\ r.tries = x.tries
        /\ r.mail = outcome /\ r.text = x.text /\ r.pushed = x.pushed /\ r.allows = x.allows /\ r.type = x.type
    BY <1>1 DEF NoticeRows
  <2>3. notices' = [notices EXCEPT ![n] = r]
    BY <1>t, <2>1
  <2> HIDE DEF x, r
  <2>4. Mailed(r)
    BY <2>1, <2>2 DEF Mailed, shouldEmail, PausedByLimit, emailAllowed, Reminds
  <2> QED BY <1>5, <2>1, <2>2, <2>3, <2>4
<1>10. CASE RetryNotice(n)
  <2>1. x.queued /\ notices' = [notices EXCEPT ![n].step = "called"]
    BY <1>10 DEF RetryNotice
  <2> DEFINE r == [x EXCEPT !.step = "called"]
  <2>2. r \in NoticeRows /\ r.step = "called" /\ r.to = x.to
    BY <1>1 DEF NoticeRows
  <2>3. notices' = [notices EXCEPT ![n] = r]
    BY <1>t, <2>1
  <2>4. n \notin Claims
    BY <1>2, <2>1 DEF TriedOnce
  <2> HIDE DEF r
  <2> QED BY <1>2, <1>3, <2>2, <2>3, <2>4, RouteKeeps
<1> QED BY <1>4, <1>6, <1>7, <1>8, <1>9, <1>10 DEF routeNotification

\* A run goes on: u becomes v.
LEMMA RunGoes ==
  ASSUME NoticesInv, NEW u \in runs, NEW v \in RunRows, Moves(u, v), RowsInv', UNCHANGED <<prefs, saving>>,
         dispatches' \in [Claims -> {"none", "pending", "sent", "failed"}],
         \A c \in Claims : dispatches'[c] = "none" => dispatches[c] = "none",
         \A c \in Claims : dispatches'[c] = "none" <=> notices'[c].step = "none",
         \A c \in v.doing : /\ dispatches'[c] # "none"
                            /\ \A w \in runs \ {u} : c \notin w.doing
  PROVE  NoticesInv'
<1>1. runs' = (runs \ {u}) \cup {v} /\ runs' \subseteq RunRows
  BY DEF Moves, NoticesInv, RunsInv
<1>2. \A w \in runs \ {u} : \A c \in w.doing : c \in Claims /\ dispatches'[c] # "none"
  <2>1. \A w \in runs : w.doing \subseteq Claims /\ \A c \in w.doing : dispatches[c] # "none"
    BY DEF NoticesInv, RunsInv, RunRows
  <2> QED BY <2>1
<1>3. \A w, y \in runs' : \A c \in Claims : c \in w.doing /\ c \in y.doing => w = y
  BY <1>1 DEF NoticesInv, RunsInv
<1>4. PrefsInv'
  BY DEF NoticesInv, PrefsInv
<1> QED BY <1>1, <1>2, <1>3, <1>4 DEF NoticesInv, RunsInv

LEMMA RunStep ==
  ASSUME NoticesInv, NEW u \in runs, Reminder(u)
  PROVE  NoticesInv'
<1>1. u \in RunRows /\ u.doing \subseteq Claims /\ u.todo \subseteq Claims
  BY DEF NoticesInv, RunsInv, RunRows
<1>2. /\ \A c \in u.doing : dispatches[c] # "none" /\ \A w \in runs \ {u} : c \notin w.doing
      /\ \A c \in Claims : dispatches[c] = "none" <=> notices[c].step = "none"
      /\ dispatches \in [Claims -> {"none", "pending", "sent", "failed"}]
      /\ notices \in [Claims \cup Others -> NoticeRows] /\ RowsInv
  BY <1>1 DEF NoticesInv, RunsInv, RowsInv
<1>3. ASSUME NEW v \in RunRows, Moves(u, v), v.doing \subseteq u.doing, UNCHANGED <<dispatches, notices, prefs, saving>> PROVE NoticesInv'
  <2>1. RowsInv'
    BY <1>2, <1>3 DEF RowsInv
  <2> QED BY <1>2, <1>3, <2>1, RunGoes
<1>4. CASE dueRides(u)
  <2>1. PICK due \in SUBSET Claims : Moves(u, [u EXCEPT !.step = "claiming", !.todo = due])
    BY <1>4 DEF dueRides
  <2> DEFINE v == [u EXCEPT !.step = "claiming", !.todo = due]
  <2>2. v \in RunRows /\ v.doing = u.doing /\ Moves(u, v)
    BY <1>1, <2>1 DEF RunRows
  <2> HIDE DEF v
  <2> QED BY <1>3, <1>4, <2>2 DEF dueRides, rideVars, prefVars
<1>5. CASE NextKind(u)
  <2> DEFINE v == [u EXCEPT !.step = "asking", !.kind = "hour"]
  <2>2. v \in RunRows /\ v.doing = u.doing /\ Moves(u, v)
    BY <1>1, <1>5 DEF RunRows, NextKind, KINDS
  <2> HIDE DEF v
  <2> QED BY <1>3, <1>5, <2>2 DEF NextKind, rideVars, prefVars
<1>6. ASSUME NEW c \in Claims, ClaimReminder(u, c) PROVE NoticesInv'
  <2>1. CASE ~Unclaimed(c)
    <3> DEFINE v == [u EXCEPT !.todo = @ \ {c}]
    <3>1. v \in RunRows /\ v.doing = u.doing /\ Moves(u, v)
      BY <1>1, <1>6, <2>1 DEF RunRows, ClaimReminder
    <3> HIDE DEF v
    <3> QED BY <1>3, <1>6, <2>1, <3>1 DEF ClaimReminder, prefVars
  <2>2. CASE Unclaimed(c)
    <3>1. PICK type \in {"reminder_24h", "reminder_1h"} :
            type = IF c[3] = "day" THEN "reminder_24h" ELSE "reminder_1h"
      OBVIOUS
    <3> DEFINE v == [u EXCEPT !.step = "sending", !.todo = @ \ {c}, !.doing = {c}]
               r == [Unrouted EXCEPT !.step = "called", !.to = c[2], !.tries = notices[c].tries, !.type = type]
    <3>2. v \in RunRows /\ v.doing = {c}
      BY <1>1 DEF RunRows
    <3>3. dispatches' = [dispatches EXCEPT ![c] = "pending"] /\ Moves(u, v) /\ notices' = [notices EXCEPT ![c] = r]
      BY <1>6, <2>2, <3>1, Zenon DEF ClaimReminder
    <3>4. dispatches[c] = "none" /\ notices[c].tries = 0
      BY <1>2, <2>2 DEF Unclaimed, RowsInv, TriedOnce
    <3>5. c[2] \in Riders /\ type \in DOMAIN POLICIES
      BY DEF Claims, POLICIES
    <3>6. r \in NoticeRows /\ r.step = "called" /\ r.to \in Riders /\ r.tries = 0 /\ ~r.queued
      BY <3>4, <3>5, UnroutedTyped DEF NoticeRows
    <3> HIDE DEF v, r
    <3>t. TriedOnce(r) /\ r.step # "routed" /\ r.step # "none"
      BY <3>6 DEF TriedOnce
    <3>7. RowsInv' /\ notices'[c] = r /\ \A d \in Claims \ {c} : notices'[d] = notices[d]
      BY <1>2, <3>3, <3>6, <3>t, NoticeWritten
    <3>8. \A d \in v.doing : dispatches'[d] # "none" /\ \A w \in runs \ {u} : d \notin w.doing
      BY <1>2, <3>2, <3>3, <3>4 DEF NoticesInv, RunsInv
    <3>9. /\ dispatches' \in [Claims -> {"none", "pending", "sent", "failed"}]
          /\ \A d \in Claims : dispatches'[d] = "none" => dispatches[d] = "none"
          /\ \A d \in Claims : dispatches'[d] = "none" <=> notices'[d].step = "none"
      BY <1>2, <3>3, <3>t, <3>7
    <3>10. UNCHANGED <<prefs, saving>>
      BY <1>6 DEF ClaimReminder, prefVars
    <3> QED BY <3>2, <3>3, <3>7, <3>8, <3>9, <3>10, RunGoes
  <2> QED BY <2>1, <2>2
<1>7. ASSUME NEW c \in Claims, MarkDispatched(u, c) PROVE NoticesInv'
  <2> DEFINE v == [u EXCEPT !.step = "claiming", !.doing = {}]
             r == [notices[c] EXCEPT !.step = "done"]
  <2>1. PICK outcome \in {"sent", "failed"} : dispatches' = [dispatches EXCEPT ![c] = outcome]
    BY <1>7 DEF MarkDispatched
  <2>2. v \in RunRows /\ v.doing = {} /\ Moves(u, v) /\ u.doing = {c} /\ UNCHANGED <<prefs, saving>>
    BY <1>1, <1>7 DEF RunRows, MarkDispatched, prefVars
  <2>3. notices[c] \in NoticeRows /\ notices[c].step \in {"routed", "thrown"} /\ notices[c].to \in Riders /\ TriedOnce(notices[c])
    BY <1>2, <1>7 DEF MarkDispatched, RowsInv
  <2>4. r \in NoticeRows /\ r.step = "done" /\ r.to \in Riders /\ TriedOnce(r)
    BY <2>3 DEF NoticeRows, TriedOnce
  <2>5. notices' = [notices EXCEPT ![c] = r]
    BY <1>2, <1>7 DEF MarkDispatched
  <2> HIDE DEF v, r
  <2>6. RowsInv' /\ notices'[c] = r /\ \A d \in Claims \ {c} : notices'[d] = notices[d]
    BY <1>2, <2>4, <2>5, NoticeWritten
  <2>7. /\ dispatches' \in [Claims -> {"none", "pending", "sent", "failed"}]
        /\ \A d \in Claims : dispatches'[d] = "none" => dispatches[d] = "none"
        /\ \A d \in Claims : dispatches'[d] = "none" <=> notices'[d].step = "none"
    BY <1>2, <2>1, <2>3, <2>4, <2>6
  <2> QED BY <2>2, <2>6, <2>7, RunGoes
<1>8. CASE RunEnds(u)
  <2>1. /\ runs' = runs \ {u} /\ UNCHANGED <<dispatches, prefs, saving>>
        /\ notices' = [c \in Claims \cup Others |-> IF c \in u.doing THEN [notices[c] EXCEPT !.step = "done"] ELSE notices[c]]
    BY <1>2, <1>8 DEF RunEnds, rideVars, prefVars
  <2>2. ASSUME NEW n \in Claims \cup Others
        PROVE  /\ notices'[n] \in NoticeRows /\ (notices'[n].step # "none" => notices'[n].to \in Riders)
               /\ notices'[n].step = "routed" => Mailed(notices'[n])
               /\ n \in Claims => TriedOnce(notices'[n]) /\ (dispatches[n] = "none" <=> notices'[n].step = "none")
    <3>1. CASE n \notin u.doing
      BY <1>2, <2>1, <3>1 DEF RowsInv
    <3>2. CASE n \in u.doing
      <4> DEFINE r == [notices[n] EXCEPT !.step = "done"]
      <4>1. dispatches[n] # "none" /\ notices[n].step # "none"
        BY <1>1, <1>2, <3>2
      <4>2. notices[n] \in NoticeRows /\ TriedOnce(notices[n]) /\ notices[n].to \in Riders
        BY <1>1, <1>2, <3>2, <4>1 DEF RowsInv
      <4>3. r \in NoticeRows /\ r.step = "done" /\ r.to = notices[n].to /\ TriedOnce(r)
        BY <4>2 DEF NoticeRows, TriedOnce
      <4>4. notices'[n] = r
        BY <2>1, <3>2
      <4> HIDE DEF r
      <4> QED BY <4>1, <4>2, <4>3, <4>4
    <3> QED BY <3>1, <3>2
  <2>3. RowsInv'
    BY <2>1, <2>2 DEF RowsInv
  <2> QED BY <2>1, <2>2, <2>3 DEF NoticesInv, RunsInv, PrefsInv
<1> QED BY <1>4, <1>5, <1>6, <1>7, <1>8 DEF Reminder


LEMMA NoticesStay == NoticesInv /\ UNCHANGED <<dispatches, runs, notices, prefs, saving>> => NoticesInv'
BY DEF NoticesInv, PrefsInv, RowsInv, RunsInv

LEMMA RunBegins ==
  ASSUME NoticesInv, NEW w \in Runners, runCronWithHeartbeat(w)
  PROVE  NoticesInv'
<1> DEFINE v == [by |-> w, kind |-> "day", step |-> "asking", todo |-> {}, doing |-> {}]
<1>1. v \in RunRows /\ v.doing = {}
  BY DEF RunRows, KINDS
<1>2. runs' = runs \cup {v} /\ UNCHANGED <<dispatches, notices, prefs, saving>>
  BY DEF runCronWithHeartbeat, rideVars, prefVars
<1> HIDE DEF v
<1>3. PrefsInv' /\ RowsInv'
  BY <1>2 DEF NoticesInv, PrefsInv, RowsInv
<1>4. RunsInv'
  BY <1>1, <1>2 DEF NoticesInv, RunsInv
<1> QED BY <1>3, <1>4 DEF NoticesInv

LEMMA NoticeQueued ==
  ASSUME NoticesInv, NEW n \in Others, queueNotification(n)
  PROVE  NoticesInv'
<1>1. PICK p \in Riders, type \in Types, queued \in BOOLEAN :
        notices' = [notices EXCEPT ![n] = [Unrouted EXCEPT !.step = "called", !.to = p, !.type = type, !.queued = queued]]
  BY DEF queueNotification
<1> DEFINE r == [Unrouted EXCEPT !.step = "called", !.to = p, !.type = type, !.queued = queued]
<1>2. r \in NoticeRows /\ r.step = "called" /\ r.to \in Riders
  BY <1>1, UnroutedTyped, NotificationsAssumption DEF NoticeRows
<1>3. notices' = [notices EXCEPT ![n] = r] /\ n \notin Claims
  BY <1>1, NotificationsAssumption
<1>4. UNCHANGED <<dispatches, runs, prefs, saving>>
  BY DEF queueNotification, rideVars, runVars, prefVars
<1> HIDE DEF r
<1>5. r.step # "none" /\ r.step # "routed"
  BY <1>2
<1> QED BY <1>2, <1>3, <1>4, <1>5, RouteKeeps

LEMMA PreferencesStep ==
  ASSUME NoticesInv,
         \/ \E p \in Riders, flag \in DOMAIN DEFAULTS, value \in BOOLEAN : updateNotificationPreferences(p, flag, value)
         \/ \E s \in saving : WritePreferences(s)
  PROVE  NoticesInv'
<1>1. PrefsInv /\ UNCHANGED <<dispatches, runs, notices>>
  BY DEF NoticesInv, updateNotificationPreferences, WritePreferences, rideVars, runVars
<1>2. CASE \E p \in Riders, flag \in DOMAIN DEFAULTS, value \in BOOLEAN : updateNotificationPreferences(p, flag, value)
  <2>1. PICK p \in Riders, flag \in DOMAIN DEFAULTS, value \in BOOLEAN : updateNotificationPreferences(p, flag, value)
    BY <1>2
  <2>2. PICK f, id : /\ [f EXCEPT ![flag] = value] \in Profiles
                     /\ saving' = saving \cup {[of |-> p, values |-> [f EXCEPT ![flag] = value], flag |-> flag, id |-> id]}
    BY <2>1 DEF updateNotificationPreferences
  <2>3. UNCHANGED prefs
    BY <2>1 DEF updateNotificationPreferences
  <2>4. PICK values \in Profiles : saving' = saving \cup {[of |-> p, values |-> values, flag |-> flag, id |-> id]}
    BY <2>2
  <2>5. PrefsInv'
    BY <1>1, <2>3, <2>4 DEF PrefsInv
  <2> QED BY <1>1, <2>5 DEF NoticesInv, RowsInv, RunsInv
<1>3. CASE \E s \in saving : WritePreferences(s)
  <2>1. PICK s \in saving : WritePreferences(s)
    BY <1>3
  <2>2. s.values \in Profiles /\ saving' \subseteq saving
    BY <1>1, <2>1 DEF PrefsInv, WritePreferences
  <2>3. PICK id : prefs' = [prefs EXCEPT ![s.of] = IF s.id = 0 THEN @ \cup {[id |-> id, values |-> s.values]}
                                                    ELSE {row \in @ : row.id # s.id} \cup {[id |-> s.id, values |-> s.values]}]
    BY <2>1 DEF WritePreferences
  <2>4. PrefsInv'
    BY <1>1, <2>2, <2>3 DEF PrefsInv
  <2> QED BY <1>1, <2>4 DEF NoticesInv, RowsInv, RunsInv
<1> QED BY <1>2, <1>3

LEMMA NoticesStep == NoticesInv /\ [NotificationsNext]_noticeVars => NoticesInv'
<1> SUFFICES ASSUME NoticesInv, [NotificationsNext]_noticeVars PROVE NoticesInv'
  OBVIOUS
<1>1. CASE UNCHANGED noticeVars \/ LockDrops \/ \E r \in Rides : TimePasses(r) \/ CancelRide(r)
  <2>1. UNCHANGED <<dispatches, runs, notices, prefs, saving>>
    BY <1>1 DEF noticeVars, rideVars, runVars, prefVars, LockDrops, TimePasses, CancelRide
  <2> QED BY <2>1, NoticesStay
<1>2. DOMAIN notices = Claims \cup Others
  BY DEF NoticesInv, RowsInv
<1> QED BY <1>1, <1>2, RunBegins, RunStep, NoticeQueued, RouteStep, PreferencesStep DEF NotificationsNext

LEMMA NoticesInit == NotificationsInit => NoticesInv
<1> SUFFICES ASSUME NotificationsInit PROVE NoticesInv
  OBVIOUS
<1>1. RowsInv
  BY UnroutedTyped DEF NotificationsInit, RowsInv, TriedOnce
<1>2. PrefsInv
  BY DEF NotificationsInit, PrefsInv
<1>3. RunsInv
  BY UnroutedTyped DEF NotificationsInit, RunsInv
<1> QED BY <1>1, <1>2, <1>3 DEF NoticesInv

\* A reminder is sent to nobody twice, whatever runs of the task overlap, die or
\* lose their lock, and a text that is paused is replaced by a mail.
THEOREM NoticesCorrect == NotificationsSpec => []NoticesArrive
<1>1. NoticesInv => NoticesArrive
  <2> SUFFICES ASSUME NoticesInv PROVE NoticesArrive
    OBVIOUS
  <2>1. ASSUME NEW c \in Claims PROVE Cardinality({u \in runs : c \in u.doing}) <= 1
    <3> DEFINE S == {u \in runs : c \in u.doing}
    <3>1. CASE S = {}
      BY <3>1, FS_EmptySet
    <3>2. CASE S # {}
      <4>1. PICK u : S = {u}
        BY <3>2 DEF NoticesInv, RunsInv
      <4>2. Cardinality({u}) = 1
        BY FS_Singleton
      <4> QED BY <4>1, <4>2
    <3> QED BY <3>1, <3>2
  <2>2. \A c \in Claims : notices[c].tries <= 1
    BY DEF NoticesInv, RowsInv, TriedOnce
  <2>3. PausedTextIsMailed
    <3>1. DOMAIN notices = Claims \cup Others
      BY DEF NoticesInv, RowsInv
    <3> QED BY <3>1 DEF NoticesInv, RowsInv, PausedTextIsMailed, Mailed
  <2> QED BY <2>1, <2>2, <2>3 DEF NoticesArrive, RemindedOnce
<1> QED BY <1>1, NoticesInit, NoticesStep, PTL DEF NotificationsSpec

-----------------------------------------------------------------------------
(* AI jobs: the reservations and costs of a month are a sum over the jobs, *)
(* here the size of a set of units; smaller amounts make a smaller set.    *)

Amounts(f, J) == UNION {{j} \X (1..f[j]) : j \in J}

\* Sums of amounts are numbers, and smaller amounts have a smaller sum.
LEMMA SumSmaller ==
  ASSUME NEW J \in SUBSET AiJobs, NEW f \in [AiJobs -> Nat], NEW g \in [AiJobs -> Nat],
         \A j \in J : f[j] <= g[j], NEW I \in SUBSET J
  PROVE  SumOf(f, I) <= SumOf(g, J) /\ SumOf(f, I) \in Nat /\ SumOf(g, J) \in Nat
<1>1. ASSUME NEW K \in SUBSET AiJobs, NEW h \in [AiJobs -> Nat]
      PROVE  IsFiniteSet(Amounts(h, K))
  <2> DEFINE Parts == {{j} \X (1..h[j]) : j \in K}
  <2>1. IsFiniteSet(K)
    BY AiAssumption, FS_Subset
  <2>2. IsFiniteSet(Parts)
    <3> DEFINE part == [j \in K |-> {j} \X (1..h[j])]
    <3>1. part \in Surjection(K, Parts)
      BY DEF Surjection
    <3> QED BY <2>1, <3>1, FS_Surjection
  <2>3. ASSUME NEW P \in Parts PROVE IsFiniteSet(P)
    <3>1. PICK j \in K : P = {j} \X (1..h[j])
      OBVIOUS
    <3>2. IsFiniteSet({j})
      BY FS_Singleton
    <3>3. IsFiniteSet(1..h[j])
      BY FS_Interval
    <3> QED BY <3>1, <3>2, <3>3, FS_Product
  <2>4. IsFiniteSet(UNION Parts)
    <3> HIDE DEF Parts
    <3> QED BY <2>2, <2>3, FS_UNION
  <2> QED BY <2>4 DEF Amounts
<1>2. IsFiniteSet(Amounts(f, I)) /\ IsFiniteSet(Amounts(g, J))
  BY <1>1
<1>3. Amounts(f, I) \in SUBSET Amounts(g, J)
  <2> SUFFICES ASSUME NEW j \in I, NEW n \in 1..f[j] PROVE <<j, n>> \in Amounts(g, J)
    BY DEF Amounts
  <2>1. n \in 1..g[j] /\ j \in J
    <3>1. f[j] \in Nat /\ g[j] \in Nat /\ f[j] <= g[j]
      OBVIOUS
    <3> QED BY <3>1
  <2> QED BY <2>1 DEF Amounts
<1>4. Cardinality(Amounts(f, I)) <= Cardinality(Amounts(g, J))
  BY <1>2, <1>3, FS_Subset
<1>5. Cardinality(Amounts(f, I)) \in Nat /\ Cardinality(Amounts(g, J)) \in Nat
  BY <1>2, FS_CardinalityType
<1> QED BY <1>4, <1>5 DEF SumOf, Amounts

\* Jobs that have not begun, are with the provider, or are recorded, look like it.
CallsAgree ==
  \A j \in AiJobs :
    /\ aiJobs[j].status = "processing" => aiJobs[j].reserved = Reservation
    /\ aiJobs[j].status # "processing" => aiJobs[j].reserved = 0
    /\ calls[j].at \in {"idle", "begun", "locked", "counted"} => aiJobs[j].status = "none"
    /\ calls[j].at \in {"provider", "answered"} => aiJobs[j].status = "processing"
    /\ calls[j].at = "daily" => aiJobs[j].status = "completed"

\* One admission at a time holds the settings, and what it counted holds till it commits.
OneAdmits ==
  \A j, k \in AiJobs : calls[j].at \in {"locked", "counted"} /\ calls[k].at \in {"locked", "counted"} => j = k

CountHolds ==
  \A j \in AiJobs : calls[j].at = "counted" =>
    SumOf(Booked, JobsSince(calls[j].month)) + Reservation <= optIn.budget

BudgetInv == AiTypeOK /\ CallsAgree /\ OneAdmits /\ ReservationsReleased /\ CountHolds

LEMMA BudgetInit == AiInit => BudgetInv
BY AiAssumption DEF AiInit, BudgetInv, AiTypeOK, NoJob, CallsAgree, OneAdmits, ReservationsReleased, CountHolds

\* Every step keeps the types.
LEMMA AiTypeStep == AiTypeOK /\ [AiNext]_aiVars => AiTypeOK'
<1> SUFFICES ASSUME AiTypeOK, [AiNext]_aiVars PROVE AiTypeOK'
  OBVIOUS
<1> USE AiAssumption DEF AiTypeOK
<1>0. \A j \in AiJobs : charged[j] \in Costs \cup {0} /\ calls[j] \in [at : {"idle", "begun", "locked", "counted", "provider",
                                   "answered", "daily", "fallback", "over"}, month : 0..MaxMonths]
                        /\ aiJobs[j] \in [status : {"none", "processing", "completed", "failed"},
                              reserved : {0, Reservation}, cost : Costs \cup {0}, month : 0..MaxMonths]
  OBVIOUS
<1>1. CASE UpdateAiSettings
  BY <1>1 DEF UpdateAiSettings
<1>2. CASE MonthTurns
  BY <1>2 DEF MonthTurns
<1>3. ASSUME NEW j \in AiJobs, AdmissionSteps(j) PROVE AiTypeOK'
  <2>1. CASE BeginJob(j)
    BY <2>1 DEF BeginJob
  <2>2. CASE LockSettings(j)
    BY <2>2 DEF LockSettings, At
  <2>3. CASE CountUsage(j)
    BY <2>3 DEF CountUsage, At
  <2>4. CASE AdmitJob(j)
    BY <1>0, <2>4 DEF AdmitJob, At
  <2> QED BY <1>3, <2>1, <2>2, <2>3, <2>4 DEF AdmissionSteps
<1>4. ASSUME NEW j \in AiJobs, CallSteps(j) PROVE AiTypeOK'
  <2>1. CASE ProviderAnswers(j)
    BY <2>1 DEF ProviderAnswers, At
  <2>2. CASE ProviderFails(j)
    BY <2>2 DEF ProviderFails, At
  <2>3. CASE RecordResult(j)
    <3>1. aiJobs' \in [AiJobs -> [status : {"none", "processing", "completed", "failed"},
                              reserved : {0, Reservation}, cost : Costs \cup {0}, month : 0..MaxMonths]]
      <4> DEFINE row == [status |-> "completed", reserved |-> 0, cost |-> charged[j],
                         month |-> aiJobs[j].month]
      <4>1. row \in [status : {"none", "processing", "completed", "failed"},
                     reserved : {0, Reservation}, cost : Costs \cup {0}, month : 0..MaxMonths]
        BY <1>0
      <4>2. aiJobs' = [aiJobs EXCEPT ![j] = row]
        BY <2>3 DEF RecordResult
      <4> QED BY <4>1, <4>2
    <3> QED BY <2>3, <3>1 DEF RecordResult, At
  <2>4. CASE RecordDaily(j)
    BY <2>4 DEF RecordDaily, At
  <2>5. CASE StatementRefused(j)
    BY <2>5 DEF StatementRefused, At
  <2> QED BY <1>4, <2>1, <2>2, <2>3, <2>4, <2>5 DEF CallSteps
<1>5. ASSUME NEW j \in AiJobs, FallBack(j) PROVE AiTypeOK'
  <2>1. aiJobs' \in [AiJobs -> [status : {"none", "processing", "completed", "failed"},
                              reserved : {0, Reservation}, cost : Costs \cup {0}, month : 0..MaxMonths]]
    BY <1>0, <1>5 DEF FallBack, Failed
  <2> QED BY <1>5, <2>1 DEF FallBack, At
<1>6. ASSUME NEW j \in AiJobs, RequestLost(j) PROVE AiTypeOK'
  BY <1>6 DEF RequestLost, At
<1>7. CASE UNCHANGED aiVars
  BY <1>7 DEF aiVars
<1> QED BY <1>1, <1>2, <1>3, <1>4, <1>5, <1>6, <1>7 DEF AiNext

\* Amounts of money are numbers.
LEMMA NumbersHere ==
  {0, Reservation} \subseteq Nat /\ Costs \cup {0} \subseteq Nat /\ Budgets \cup {0} \subseteq Nat
  /\ Reservation \in Nat
BY AiAssumption

\* What a job has reserved and what it cost are numbers.
LEMMA JobAmounts ==
  ASSUME AiTypeOK, NEW j \in AiJobs
  PROVE  aiJobs[j].reserved \in Nat /\ aiJobs[j].cost \in Nat /\ Reservation \in Nat
<1>1. aiJobs[j] \in [status : {"none", "processing", "completed", "failed"},
                    reserved : {0, Reservation}, cost : Costs \cup {0}, month : 0..MaxMonths]
  BY DEF AiTypeOK
<1>2. aiJobs[j].reserved \in {0, Reservation} /\ aiJobs[j].cost \in Costs \cup {0}
  BY <1>1
<1> QED BY <1>2, NumbersHere

\* What is booked for a job is a number, at most what the job counts as.
LEMMA BookedIsLess ==
  AiTypeOK /\ CallsAgree =>
     /\ Booked \in [AiJobs -> Nat] /\ UsageOf \in [AiJobs -> Nat]
     /\ \A j \in AiJobs : Booked[j] <= UsageOf[j]
<1> SUFFICES ASSUME AiTypeOK, CallsAgree
             PROVE  /\ Booked \in [AiJobs -> Nat] /\ UsageOf \in [AiJobs -> Nat]
                    /\ \A j \in AiJobs : Booked[j] <= UsageOf[j]
  OBVIOUS
<1>1. ASSUME NEW j \in AiJobs
      PROVE  Booked[j] \in Nat /\ UsageOf[j] \in Nat /\ Booked[j] <= UsageOf[j]
  <2>1. aiJobs[j].reserved \in Nat /\ aiJobs[j].cost \in Nat /\ Reservation \in Nat
    BY JobAmounts
  <2> QED BY <2>1 DEF Booked, UsageOf, CallsAgree
<1> QED BY <1>1 DEF Booked, UsageOf

\* Between two admissions what is booked for a job only falls, and stays in its month.
LEMMA BookedFalls ==
  ASSUME AiTypeOK, CallsAgree, [AiNext]_aiVars, \A j \in AiJobs : ~AdmitJob(j)
  PROVE  \A j \in AiJobs : Booked'[j] <= Booked[j] /\ aiJobs'[j].month = aiJobs[j].month
<1>1. ASSUME NEW k \in AiJobs
      PROVE  Booked[k] \in Nat /\ aiJobs[k].cost \in Nat /\ Reservation \in Nat
  BY JobAmounts, BookedIsLess
<1>2. CASE UNCHANGED aiJobs
  BY <1>1, <1>2 DEF Booked
<1>3. ASSUME NEW j \in AiJobs, RecordResult(j)
      PROVE  \A k \in AiJobs : Booked'[k] <= Booked[k] /\ aiJobs'[k].month = aiJobs[k].month
  <2> TAKE k \in AiJobs
  <2>1. CASE k = j
    <3>1. /\ aiJobs'[j].month = aiJobs[j].month /\ aiJobs'[j].status = "completed"
          /\ aiJobs'[j].cost = charged[j]
      BY <1>3 DEF RecordResult, AiTypeOK
    <3>2. aiJobs[j].status = "processing" /\ charged[j] \in Nat
      <4>1. charged[j] \in Costs \cup {0} /\ Costs \subseteq Nat
        BY AiAssumption DEF AiTypeOK
      <4> QED BY <1>3, <4>1 DEF RecordResult, CallsAgree
    <3> QED BY <1>1, <2>1, <3>1, <3>2 DEF Booked
  <2>2. CASE k # j
    <3>1. aiJobs'[k] = aiJobs[k]
      BY <1>3, <2>2 DEF RecordResult, AiTypeOK
    <3> QED BY <1>1, <3>1 DEF Booked
  <2> QED BY <2>1, <2>2
<1>4. ASSUME NEW j \in AiJobs, FallBack(j)
      PROVE  \A k \in AiJobs : Booked'[k] <= Booked[k] /\ aiJobs'[k].month = aiJobs[k].month
  <2> TAKE k \in AiJobs
  <2>1. CASE k = j
    <3>1. aiJobs'[j].month = aiJobs[j].month /\ aiJobs'[j].status = "failed"
      BY <1>4 DEF FallBack, Failed, AiTypeOK
    <3> QED BY <1>1, <2>1, <3>1 DEF Booked
  <2>2. CASE k # j
    <3>1. aiJobs'[k] = aiJobs[k]
      BY <1>4, <2>2 DEF FallBack, AiTypeOK
    <3> QED BY <1>1, <3>1 DEF Booked
  <2> QED BY <2>1, <2>2
<1>5. \/ UNCHANGED aiJobs
      \/ \E j \in AiJobs : RecordResult(j) \/ FallBack(j)
  BY DEF AiNext, aiVars, UpdateAiSettings, MonthTurns, AdmissionSteps, BeginJob, LockSettings,
         CountUsage, CallSteps, ProviderAnswers, ProviderFails, RecordDaily, StatementRefused,
         RequestLost
<1> QED BY <1>2, <1>3, <1>4, <1>5

\* Each step keeps the agreement of a job with the place of its request.
LEMMA AgreeStep ==
  ASSUME AiTypeOK, CallsAgree, OneAdmits, ReservationsReleased, [AiNext]_aiVars
  PROVE  CallsAgree' /\ OneAdmits' /\ ReservationsReleased'
<1> USE AiAssumption DEF AiTypeOK, CallsAgree, OneAdmits, ReservationsReleased
<1>1. CASE UpdateAiSettings
  BY <1>1 DEF UpdateAiSettings
<1>2. CASE MonthTurns
  BY <1>2 DEF MonthTurns
<1>3. ASSUME NEW j \in AiJobs, AdmissionSteps(j)
      PROVE  CallsAgree' /\ OneAdmits' /\ ReservationsReleased'
  <2>1. CASE BeginJob(j)
    BY <2>1 DEF BeginJob
  <2>2. CASE LockSettings(j)
    BY <2>2 DEF LockSettings, At, SettingsLocked
  <2>3. CASE CountUsage(j)
    BY <2>3 DEF CountUsage, At
  <2>4. CASE AdmitJob(j)
    BY <2>4 DEF AdmitJob, At
  <2> QED BY <1>3, <2>1, <2>2, <2>3, <2>4 DEF AdmissionSteps
<1>4. ASSUME NEW j \in AiJobs, CallSteps(j)
      PROVE  CallsAgree' /\ OneAdmits' /\ ReservationsReleased'
  <2>1. CASE ProviderAnswers(j)
    BY <2>1 DEF ProviderAnswers, At
  <2>2. CASE ProviderFails(j)
    BY <2>2 DEF ProviderFails, At
  <2>3. CASE RecordResult(j)
    BY <2>3 DEF RecordResult, At
  <2>4. CASE RecordDaily(j)
    BY <2>4 DEF RecordDaily, At
  <2>5. CASE StatementRefused(j)
    BY <2>5 DEF StatementRefused, At
  <2> QED BY <1>4, <2>1, <2>2, <2>3, <2>4, <2>5 DEF CallSteps
<1>5. ASSUME NEW j \in AiJobs, FallBack(j)
      PROVE  CallsAgree' /\ OneAdmits' /\ ReservationsReleased'
  BY <1>5 DEF FallBack, Failed, At
<1>6. ASSUME NEW j \in AiJobs, RequestLost(j)
      PROVE  CallsAgree' /\ OneAdmits' /\ ReservationsReleased'
  BY <1>6 DEF RequestLost, At
<1>7. CASE UNCHANGED aiVars
  BY <1>7 DEF aiVars
<1> QED BY <1>1, <1>2, <1>3, <1>4, <1>5, <1>6, <1>7 DEF AiNext

\* A request begins once, with its month; it has counted by a step of its own.
LEMMA CallsMove ==
  ASSUME AiTypeOK, [AiNext]_aiVars, NEW k \in AiJobs
  PROVE  /\ calls'[k].month = calls[k].month \/ BeginJob(k)
         /\ calls'[k].at = "counted" => calls[k].at = "counted" \/ CountUsage(k)
<1>1. CASE UNCHANGED calls
  BY <1>1
<1>2. ASSUME NEW j \in AiJobs, NEW place, At(j, place), place # "counted" \/ CountUsage(j)
      PROVE  /\ calls'[k].month = calls[k].month
             /\ calls'[k].at = "counted" => calls[k].at = "counted" \/ CountUsage(k)
  <2>1. calls' = [calls EXCEPT ![j] = [calls[j] EXCEPT !.at = place]]
    BY <1>2 DEF At
  <2>2. CASE j = k
    <3>1. calls'[k] = [calls[k] EXCEPT !.at = place]
      BY <2>1, <2>2 DEF AiTypeOK
    <3>2. calls[k] \in [at : {"idle", "begun", "locked", "counted", "provider",
                             "answered", "daily", "fallback", "over"}, month : 0..MaxMonths]
      BY DEF AiTypeOK
    <3>3. calls'[k].month = calls[k].month /\ calls'[k].at = place
      BY <3>1, <3>2
    <3> QED BY <1>2, <2>2, <3>3
  <2>3. CASE j # k
    <3>1. calls'[k] = calls[k]
      BY <2>1, <2>3 DEF AiTypeOK
    <3> QED BY <3>1
  <2> QED BY <2>2, <2>3
<1>3. ASSUME NEW j \in AiJobs, BeginJob(j)
      PROVE  /\ calls'[k].month = calls[k].month \/ BeginJob(k)
             /\ calls'[k].at = "counted" => calls[k].at = "counted" \/ CountUsage(k)
  BY <1>3 DEF BeginJob, AiTypeOK
<1>4. \/ UNCHANGED calls
      \/ \E j \in AiJobs : BeginJob(j) \/ \E place : At(j, place) /\ (place # "counted" \/ CountUsage(j))
  <2>1. CASE UpdateAiSettings \/ MonthTurns \/ UNCHANGED aiVars
    BY <2>1 DEF UpdateAiSettings, MonthTurns, aiVars
  <2>2. ASSUME NEW j \in AiJobs, AdmissionSteps(j), ~BeginJob(j)
        PROVE  \E place : At(j, place) /\ (place # "counted" \/ CountUsage(j))
    <3>1. CASE LockSettings(j)
      BY <3>1 DEF LockSettings
    <3>2. CASE CountUsage(j)
      <4>1. \E place : At(j, place)
        BY <3>2 DEF CountUsage
      <4> QED BY <3>2, <4>1
    <3>3. CASE AdmitJob(j)
      BY <3>3 DEF AdmitJob
    <3> QED BY <2>2, <3>1, <3>2, <3>3 DEF AdmissionSteps
  <2>3. ASSUME NEW j \in AiJobs, CallSteps(j) \/ FallBack(j) \/ RequestLost(j)
        PROVE  \E place : At(j, place) /\ (place # "counted" \/ CountUsage(j))
    BY <2>3 DEF CallSteps, ProviderAnswers, ProviderFails, RecordResult, RecordDaily,
         StatementRefused, FallBack, RequestLost
  <2> QED BY <2>1, <2>2, <2>3 DEF AiNext
<1> QED BY <1>1, <1>2, <1>3, <1>4

\* What a request counted holds until it commits: nobody else can be admitted,
\* the cap cannot move, and the other jobs' ends only give back.
LEMMA CountStep ==
  ASSUME AiTypeOK, AiTypeOK', CallsAgree, CallsAgree', OneAdmits, CountHolds, [AiNext]_aiVars
  PROVE  CountHolds'
<1> SUFFICES ASSUME NEW k \in AiJobs, calls'[k].at = "counted"
             PROVE  (SumOf(Booked, JobsSince(calls[k].month)) + Reservation <= optIn.budget)'
  BY DEF CountHolds
<1>1. /\ Booked \in [AiJobs -> Nat] /\ Booked' \in [AiJobs -> Nat] /\ UsageOf \in [AiJobs -> Nat]
      /\ \A j \in AiJobs : Booked[j] <= UsageOf[j]
  <2>1. (AiTypeOK /\ CallsAgree => Booked \in [AiJobs -> Nat])'
    BY BookedIsLess, PTL
  <2> QED BY <2>1, BookedIsLess
<1>2. optIn.budget \in Nat /\ Reservation \in Nat
  <2>1. optIn.budget \in Budgets \cup {0}
    BY DEF AiTypeOK
  <2> QED BY <2>1, NumbersHere
<1>3. CASE calls[k].at = "counted"
  <2>1. calls'[k].month = calls[k].month
    BY <1>3, CallsMove DEF BeginJob
  <2>2. optIn' = optIn
    BY <1>3 DEF AiNext, aiVars, UpdateAiSettings, SettingsLocked, MonthTurns, AdmissionSteps, BeginJob,
         LockSettings, CountUsage, AdmitJob, CallSteps, ProviderAnswers, ProviderFails, RecordResult,
         RecordDaily, StatementRefused, FallBack, RequestLost
  <2>3. \A j \in AiJobs : ~AdmitJob(j)
    BY <1>3 DEF AdmitJob, At, OneAdmits, AiTypeOK
  <2>4. \A j \in AiJobs : Booked'[j] <= Booked[j] /\ aiJobs'[j].month = aiJobs[j].month
    BY <2>3, BookedFalls
  <2> DEFINE since == JobsSince(calls[k].month)
  <2>5. JobsSince(calls[k].month)' = since /\ since \in SUBSET AiJobs
    BY <2>1, <2>4 DEF JobsSince
  <2>6. SumOf(Booked', since) <= SumOf(Booked, since) /\ SumOf(Booked', since) \in Nat
        /\ SumOf(Booked, since) \in Nat
    <3> HIDE DEF since
    <3> QED BY <1>1, <2>4, <2>5, SumSmaller
  <2>7. SumOf(Booked, since) + Reservation <= optIn.budget
    BY <1>3 DEF CountHolds
  <2> QED BY <1>2, <2>2, <2>5, <2>6, <2>7
<1>4. CASE calls[k].at # "counted"
  <2>1. CountUsage(k)
    BY <1>4, CallsMove
  <2> DEFINE since == JobsSince(calls[k].month)
  <2>2. /\ calls'[k].month = calls[k].month /\ UNCHANGED <<aiJobs, optIn>>
        /\ BudgetAllows(Usage(calls[k].month))
    BY <2>1 DEF CountUsage, At, AiTypeOK
  <2>3. JobsSince(calls[k].month)' = since /\ since \in SUBSET AiJobs /\ Booked' = Booked
    BY <2>2 DEF JobsSince, Booked
  <2>4. SumOf(UsageOf, since) + Reservation <= optIn.budget
    BY <2>2 DEF BudgetAllows, Usage
  <2>5. SumOf(Booked, since) <= SumOf(UsageOf, since) /\ SumOf(Booked, since) \in Nat
        /\ SumOf(UsageOf, since) \in Nat
    <3> HIDE DEF since
    <3> QED BY <1>1, <2>3, SumSmaller
  <2> QED BY <1>2, <2>2, <2>3, <2>4, <2>5
<1> QED BY <1>3, <1>4

\* A job starts processing only when its request commits what it counted.
LEMMA AdmittedStep ==
  ASSUME BudgetInv, [AiNext]_aiVars, NEW j \in AiJobs,
         aiJobs[j].status = "none", aiJobs'[j].status = "processing"
  PROVE  SumOf(Booked, JobsSince(calls[j].month)) + Reservation <= optIn.budget
<1>1. calls[j].at = "counted"
  <2>1. \/ UNCHANGED aiJobs
        \/ \E k \in AiJobs : AdmitJob(k) \/ RecordResult(k) \/ FallBack(k)
    BY DEF AiNext, aiVars, UpdateAiSettings, MonthTurns, AdmissionSteps, BeginJob, LockSettings,
           CountUsage, CallSteps, ProviderAnswers, ProviderFails, RecordDaily, StatementRefused,
           RequestLost
  <2>2. CASE UNCHANGED aiJobs
    BY <2>2
  <2>3. ASSUME NEW k \in AiJobs, AdmitJob(k) PROVE calls[j].at = "counted"
    BY <2>3 DEF AdmitJob, BudgetInv, AiTypeOK
  <2>4. ASSUME NEW k \in AiJobs, RecordResult(k) PROVE FALSE
    BY <2>4 DEF RecordResult, BudgetInv, AiTypeOK
  <2>5. ASSUME NEW k \in AiJobs, FallBack(k) PROVE FALSE
    BY <2>5 DEF FallBack, Failed, BudgetInv, AiTypeOK
  <2> QED BY <2>1, <2>2, <2>3, <2>4, <2>5
<1> QED BY <1>1 DEF BudgetInv, CountHolds

\* Nothing is admitted beyond the cap of the month, however many requests ask at
\* once and others end meanwhile, and a request that is over has given back what
\* was set aside for it (beginGovernedAiJob, recordAiFallback).
THEOREM BudgetCorrect == AiSpec => BudgetIsKept
<1>1. BudgetInv /\ [AiNext]_aiVars => BudgetInv'
  <2>1. BudgetInv /\ [AiNext]_aiVars => AiTypeOK'
    BY AiTypeStep DEF BudgetInv
  <2>2. BudgetInv /\ [AiNext]_aiVars => CallsAgree' /\ OneAdmits' /\ ReservationsReleased'
    BY AgreeStep DEF BudgetInv
  <2>3. BudgetInv /\ [AiNext]_aiVars => CountHolds'
    BY <2>1, <2>2, CountStep DEF BudgetInv
  <2> QED BY <2>1, <2>2, <2>3 DEF BudgetInv
<1>2. BudgetInv /\ [AiNext]_aiVars =>
        [\A j \in AiJobs :
          aiJobs[j].status = "none" /\ aiJobs'[j].status = "processing" =>
             SumOf(Booked, JobsSince(calls[j].month)) + Reservation
                <= optIn.budget]_aiVars
  BY AdmittedStep
<1>3. BudgetInv => ReservationsReleased
  BY DEF BudgetInv
<1> QED BY BudgetInit, <1>1, <1>2, <1>3, PTL DEF AiSpec, BudgetIsKept, AdmittedWithinBudget
==============================================================================

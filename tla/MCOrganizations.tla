---------------------------- MODULE MCOrganizations ----------------------------
(* Communities, their members, their hostnames and their calendars, side by    *)
(* side: the modules share no variable, so each behaviour belongs to one part. *)
(* The parts share their model values: x1 and x2 are communities, persons,     *)
(* names or workers, y1 and y2 applications, invitations or tenants.           *)
EXTENDS Communities, Membership, TenantDomains, CalendarSync, TLC

CONSTANTS x1, x2, y1, y2
Alike == Permutations({x1, x2}) \cup Permutations({y1, y2})
OneTime == {<<"practice", 1>>}

VARIABLE part
vars == <<part, communityVars, membershipVars, domainVars, calendarVars>>

\* Hostnames begin in different states; in the other parts nothing is known of them.
NoDomains ==
  /\ hostnames = [h \in Names |-> NoRow] /\ configured = FALSE
  /\ pointing = [h \in Names |-> NoTenant] /\ pointed = [h \in Names |-> {}]
  /\ edge = [h \in Names |-> "none"] /\ handling = [w \in Handlers |-> Waiting]
  /\ deliveries = [e \in WebhookEvents |-> [applied |-> 0]]
  /\ pointings = 0 /\ outages = 0

Init ==
  /\ CommunitiesInit /\ MembershipInit /\ CalendarInit
  /\ part \in {"communities", "members", "domains", "calendars"}
  /\ IF part = "domains" THEN DomainsInit ELSE NoDomains

Next ==
  \/ part = "communities" /\ CommunitiesNext
     /\ UNCHANGED <<part, membershipVars, domainVars, calendarVars>>
  \/ part = "members" /\ MembershipNext
     /\ UNCHANGED <<part, communityVars, domainVars, calendarVars>>
  \/ part = "domains" /\ DomainsNext
     /\ UNCHANGED <<part, communityVars, membershipVars, calendarVars>>
  \/ part = "calendars" /\ CalendarNext
     /\ UNCHANGED <<part, communityVars, membershipVars, domainVars>>

Spec == Init /\ [][Next]_vars
=============================================================================

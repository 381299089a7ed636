--------------------------- MODULE TenantDomains ---------------------------
(***************************************************************************)
(* The custom hostnames of organizations: how a platform owner asks for    *)
(* one, how it is verified against DNS and the edge provider (Cloudflare), *)
(* how one of them becomes the primary, how the setup provider (DoDomain)  *)
(* reports through its webhook, and which organization a request's Host    *)
(* header selects.                                                         *)
(*                                                                         *)
(* The network is asked between the read of a row and its write, so every  *)
(* handler is several steps.  The columns that are only shown to platform  *)
(* administrators (setup_status, dns_status, provider_monitor_status and   *)
(* the times beside them) are left out.                                    *)
(***************************************************************************)
EXTENDS Naturals, FiniteSets

CONSTANTS
    Names,            \* custom hostnames; organization_domains has one row of each
    Tenants,          \* organizations
    NoTenant,
    Handlers,         \* requests being served, by any web process
    WebhookEvents,    \* ids of the setup provider's events
    Deployments,      \* whether the edge provider is configured: a subset of BOOLEAN
    MaxPointings,     \* bound on the changes of the hostnames' CNAME records
    MaxOutages        \* bound on refused network calls, failed statements and dead processes

ASSUME TenantAssumption ==
    /\ NoTenant \notin Tenants
    /\ Deployments \subseteq BOOLEAN
    /\ MaxPointings \in Nat
    /\ MaxOutages \in Nat

VARIABLES
    hostnames,    \* organization_domains, by hostname
    configured,   \* cloudflareConfigured()
    pointing,     \* the CNAME of each hostname: the tenant it leads to
    pointed,      \* history: the tenants each hostname has led to at some time
    edge,         \* the edge provider's custom hostnames
    handling,     \* what each handler is doing
    deliveries,   \* domain_provider_webhook_events, with what the provider was told
    pointings, outages

domainVars == <<hostnames, configured, pointing, pointed, edge, handling,
                deliveries, pointings, outages>>

NoRow == [org |-> NoTenant, status |-> "none", primary |-> FALSE,
          cert |-> FALSE, ssl |-> "none", moved |-> FALSE]
HasRow(h) == hostnames[h] # NoRow
Waiting == [at |-> "idle"]

DomainsTypeOK ==
    /\ hostnames \in [Names -> [org : Tenants \cup {NoTenant},
                                status : {"none", "requested", "active"},
                                primary : BOOLEAN, cert : BOOLEAN,
                                ssl : {"none", "pending", "active"}, moved : BOOLEAN]]
    /\ configured \in Deployments
    /\ pointing \in [Names -> Tenants \cup {NoTenant}]
    /\ pointed \in [Names -> SUBSET Tenants]
    /\ edge \in [Names -> {"none", "pending", "active"}]
    /\ \A w \in Handlers : handling[w].at \in
          {"idle", "insert", "network", "write", "clear", "crown", "claim", "apply", "mark"}
    /\ deliveries \in [WebhookEvents ->
          [name : Names, verified : BOOLEAN, applied : 0..Cardinality(Handlers),
           status : {"none", "received", "processed", "ignored", "failed"},
           told : BOOLEAN]]
    /\ pointings \in 0..MaxPointings
    /\ outages \in 0..MaxOutages

DomainsInit ==
    /\ hostnames = [h \in Names |-> NoRow]
    /\ configured \in Deployments
    /\ pointing = [h \in Names |-> NoTenant]
    /\ pointed = [h \in Names |-> {}]
    /\ edge = [h \in Names |-> "none"]
    /\ handling = [w \in Handlers |-> Waiting]
    /\ deliveries \in [WebhookEvents ->
          [name : Names, verified : BOOLEAN, applied : {0}, status : {"none"}, told : {FALSE}]]
    /\ pointings = 0
    /\ outages = 0

----------------------------------------------------------------------------
(* The outside: owners of hostnames and the edge provider.                 *)

(* The owner of a hostname points it at a tenant, or away. *)
PointName(h) ==
    /\ pointings < MaxPointings
    /\ \E o \in (Tenants \cup {NoTenant}) \ {pointing[h]} :
          /\ pointing' = [pointing EXCEPT ![h] = o]
          /\ pointed' = [pointed EXCEPT ![h] = @ \cup ({o} \ {NoTenant})]
    /\ pointings' = pointings + 1
    /\ UNCHANGED <<hostnames, configured, edge, handling, deliveries, outages>>

(* The edge provider activates a hostname that leads to the platform. *)
EdgeActivates(h) ==
    /\ edge[h] = "pending"
    /\ pointing[h] # NoTenant
    /\ edge' = [edge EXCEPT ![h] = "active"]
    /\ UNCHANGED <<hostnames, configured, pointing, pointed, handling, deliveries,
                   pointings, outages>>

----------------------------------------------------------------------------
(* setPrimaryDomain holds the locks of all rows of its organization from   *)
(* the statement that clears them to the commit; another writer of one of  *)
(* these rows waits.                                                       *)

RowFreeOf(h, w) ==
    \A v \in Handlers \ {w} : handling[v].at = "crown" => h \notin handling[v].rows

Go(w, record) == handling' = [handling EXCEPT ![w] = record]

(* requestCustomDomain: the edge provider is asked first.  It knows a      *)
(* hostname once; asking again is refused and ends the request.            *)
RequestDomain(w, o, h) ==
    /\ handling[w].at = "idle"
    /\ IF configured
         THEN /\ edge[h] = "none"
              /\ \E answer \in IF pointing[h] = NoTenant THEN {"pending"}
                                                        ELSE {"pending", "active"} :
                    /\ edge' = [edge EXCEPT ![h] = answer]
                    /\ Go(w, [at |-> "insert", org |-> o, name |-> h, cert |-> TRUE,
                              ssl |-> answer,
                              status |-> IF answer = "active" THEN "active"
                                                              ELSE "requested"])
         ELSE /\ Go(w, [at |-> "insert", org |-> o, name |-> h, cert |-> FALSE,
                        ssl |-> "pending", status |-> "requested"])
              /\ UNCHANGED edge
    /\ UNCHANGED <<hostnames, configured, pointing, pointed, deliveries, pointings, outages>>

(* The row after the upsert: a hostname that has a row moves to the new    *)
(* organization and keeps its status and its mark as primary.              *)
Upserted(h, asked) ==
    IF HasRow(h)
    THEN [hostnames[h] EXCEPT !.org = asked.org, !.cert = @ \/ asked.cert,
                              !.ssl = asked.ssl,
                              !.moved = @ \/ asked.org # hostnames[h].org]
    ELSE [NoRow EXCEPT !.org = asked.org, !.cert = asked.cert, !.ssl = asked.ssl,
                       !.status = asked.status]

UpsertDomain(w) ==
    /\ handling[w].at = "insert"
    /\ LET h == handling[w].name IN
          /\ RowFreeOf(h, w)
          /\ hostnames' = [hostnames EXCEPT ![h] = Upserted(h, handling[w])]
    /\ Go(w, Waiting)
    /\ UNCHANGED <<configured, pointing, pointed, edge, deliveries, pointings, outages>>

(* verifyCustomDomain, asked for by a platform owner: the row is read. *)
BeginVerification(w, h) ==
    /\ handling[w].at = "idle"
    /\ HasRow(h)
    /\ Go(w, [at |-> "network", name |-> h, read |-> hostnames[h], event |-> {}])
    /\ UNCHANGED <<hostnames, configured, pointing, pointed, edge, deliveries,
                   pointings, outages>>

CnameOk(w) == pointing[handling[w].name] = handling[w].read.org
AskEdge(w) == handling[w].read.cert /\ configured
Ssl(w) == IF AskEdge(w) /\ edge[handling[w].name] = "active"
          THEN "active" ELSE handling[w].read.ssl
EdgeStatus(w) == IF AskEdge(w) /\ edge[handling[w].name] = "active"
                 THEN "active" ELSE handling[w].read.status
Verified(w) == CnameOk(w) /\ (Ssl(w) = "active" \/ ~configured)

(* ... DNS and the edge provider answer, in terms of the row that was read *)
AskNetwork(w) ==
    /\ handling[w].at = "network"
    /\ Go(w, [at |-> "write", name |-> handling[w].name, event |-> handling[w].event,
              ssl |-> Ssl(w),
              status |-> IF Verified(w) THEN "active" ELSE EdgeStatus(w)])
    /\ UNCHANGED <<hostnames, configured, pointing, pointed, edge, deliveries,
                   pointings, outages>>

(* ... and the answer is written over whatever the row has become. *)
WriteVerification(w) ==
    /\ handling[w].at = "write"
    /\ LET h == handling[w].name IN
          /\ RowFreeOf(h, w)
          /\ hostnames' = [hostnames EXCEPT ![h].status = handling[w].status,
                                            ![h].ssl = handling[w].ssl]
    /\ IF handling[w].event = {} THEN Go(w, Waiting)
       ELSE Go(w, [at |-> "mark", event |-> handling[w].event])
    /\ UNCHANGED <<configured, pointing, pointed, edge, deliveries, pointings, outages>>

----------------------------------------------------------------------------
(* setPrimaryDomain: one transaction of three statements.                  *)

SelectPrimary(w, o, h) ==
    /\ handling[w].at = "idle"
    /\ hostnames[h].org = o
    /\ hostnames[h].status = "active"
    /\ Go(w, [at |-> "clear", org |-> o, name |-> h])
    /\ UNCHANGED <<hostnames, configured, pointing, pointed, edge, deliveries,
                   pointings, outages>>

RowsOf(o) == {h \in Names : hostnames[h].org = o}

ClearPrimaries(w) ==
    /\ handling[w].at = "clear"
    /\ \A h \in RowsOf(handling[w].org) : RowFreeOf(h, w)
    /\ Go(w, [at |-> "crown", name |-> handling[w].name, rows |-> RowsOf(handling[w].org)])
    /\ UNCHANGED <<hostnames, configured, pointing, pointed, edge, deliveries,
                   pointings, outages>>

CommitPrimary(w) ==
    /\ handling[w].at = "crown"
    /\ RowFreeOf(handling[w].name, w)
    /\ hostnames' = [h \in Names |->
          IF h = handling[w].name THEN [hostnames[h] EXCEPT !.primary = TRUE]
          ELSE IF h \in handling[w].rows THEN [hostnames[h] EXCEPT !.primary = FALSE]
          ELSE hostnames[h]]
    /\ Go(w, Waiting)
    /\ UNCHANGED <<configured, pointing, pointed, edge, deliveries, pointings, outages>>

----------------------------------------------------------------------------
(* processDoDomainWebhook.  The provider sends an event again until it is  *)
(* answered with success, and may send it twice at once.                   *)

UnseenBug(e) == TRUE
Unseen(e) == deliveries[e].status = "none"

ReceiveEvent(w, e) ==
    /\ handling[w].at = "idle"
    /\ ~deliveries[e].told
    /\ IF deliveries[e].status = "none"
         THEN /\ Go(w, [at |-> "claim", event |-> {e},
                        known |-> HasRow(deliveries[e].name)])
              /\ UNCHANGED deliveries
         ELSE /\ deliveries' = [deliveries EXCEPT ![e].told = TRUE]
              /\ UNCHANGED handling
    /\ UNCHANGED <<hostnames, configured, pointing, pointed, edge, pointings, outages>>

(* The primary key of the event decides which handler processes it. *)
ClaimEvent(w, e) ==
    /\ handling[w].at = "claim"
    /\ e \in handling[w].event
    /\ IF Unseen(e)
         THEN IF handling[w].known
                THEN /\ deliveries' = [deliveries EXCEPT ![e].status = "received"]
                     /\ Go(w, [at |-> "apply", event |-> {e}])
                ELSE /\ deliveries' = [deliveries EXCEPT ![e].status = "ignored",
                                                         ![e].told = TRUE]
                     /\ Go(w, Waiting)
         ELSE /\ deliveries' = [deliveries EXCEPT ![e].told = TRUE]
              /\ Go(w, Waiting)
    /\ UNCHANGED <<hostnames, configured, pointing, pointed, edge, pointings, outages>>

(* The event is written on the row; one that says "verified" is followed   *)
(* by a verification of the row as it is now.                              *)
ApplyEvent(w, e) ==
    /\ handling[w].at = "apply"
    /\ e \in handling[w].event
    /\ LET h == deliveries[e].name IN
          /\ RowFreeOf(h, w)
          /\ Go(w, IF deliveries[e].verified
                   THEN [at |-> "network", name |-> h, read |-> hostnames[h], event |-> {e}]
                   ELSE [at |-> "mark", event |-> {e}])
    /\ deliveries' = [deliveries EXCEPT ![e].applied = @ + 1]
    /\ UNCHANGED <<hostnames, configured, pointing, pointed, edge, pointings, outages>>

MarkEvent(w, e) ==
    /\ handling[w].at = "mark"
    /\ e \in handling[w].event
    /\ deliveries' = [deliveries EXCEPT ![e].status = "processed", ![e].told = TRUE]
    /\ Go(w, Waiting)
    /\ UNCHANGED <<hostnames, configured, pointing, pointed, edge, pointings, outages>>

(* A statement fails while an event is being applied: the event is marked  *)
(* failed and the provider is told so.                                     *)
FailEvent(w, e) ==
    /\ outages < MaxOutages
    /\ handling[w].at \in {"apply", "mark"}
    /\ e \in handling[w].event
    /\ deliveries' = [deliveries EXCEPT ![e].status = "failed"]
    /\ Go(w, Waiting)
    /\ outages' = outages + 1
    /\ UNCHANGED <<hostnames, configured, pointing, pointed, edge, pointings>>

(* A network call of a verification is refused: an event goes on to be     *)
(* marked, a platform owner is shown the error.                            *)
VerificationRefused(w) ==
    /\ outages < MaxOutages
    /\ handling[w].at = "network"
    /\ Go(w, IF handling[w].event = {} THEN Waiting
             ELSE [at |-> "mark", event |-> handling[w].event])
    /\ outages' = outages + 1
    /\ UNCHANGED <<hostnames, configured, pointing, pointed, edge, deliveries, pointings>>

(* The process dies; an open transaction is rolled back. *)
HandlerDies(w) ==
    /\ outages < MaxOutages
    /\ handling[w].at # "idle"
    /\ Go(w, Waiting)
    /\ outages' = outages + 1
    /\ UNCHANGED <<hostnames, configured, pointing, pointed, edge, deliveries, pointings>>

----------------------------------------------------------------------------
AdministratorSteps(w) ==
    \/ \E o \in Tenants, h \in Names : RequestDomain(w, o, h) \/ SelectPrimary(w, o, h)
    \/ \E h \in Names : BeginVerification(w, h)
    \/ UpsertDomain(w) \/ ClearPrimaries(w) \/ CommitPrimary(w)

VerificationSteps(w) ==
    AskNetwork(w) \/ WriteVerification(w) \/ VerificationRefused(w)

WebhookSteps(w) ==
    \E e \in WebhookEvents :
        \/ ReceiveEvent(w, e) \/ ClaimEvent(w, e)
        \/ ApplyEvent(w, e) \/ MarkEvent(w, e) \/ FailEvent(w, e)

DomainsNext ==
    \/ \E h \in Names : PointName(h) \/ EdgeActivates(h)
    \/ \E w \in Handlers : \/ AdministratorSteps(w) \/ VerificationSteps(w)
                           \/ WebhookSteps(w) \/ HandlerDies(w)

DomainsSpec == DomainsInit /\ [][DomainsNext]_domainVars

(* resolveTenant: the organization that a request's hostname selects. *)
TenantOf(h) == IF hostnames[h].status = "active" THEN hostnames[h].org ELSE NoTenant

----------------------------------------------------------------------------
(* An organization has at most one primary hostname, however setPrimary    *)
(* calls, verifications and events interleave; a hostname that changed     *)
(* hands brings its mark along and is not counted (saas-tenants.ts         *)
(* setPrimaryDomain; the upsert of requestCustomDomain).                   *)
OnePrimaryEach ==
    \A o \in Tenants :
        Cardinality({h \in Names : /\ hostnames[h].org = o
                                   /\ hostnames[h].primary
                                   /\ ~hostnames[h].moved}) <= 1

(* A hostname selects an organization only after its owner has once        *)
(* pointed it at the platform: nobody can take a name by asking for it     *)
(* (saas-tenants.ts verifyCustomDomain, tenant.ts resolveTenant).          *)
SelectedWasPointed ==
    \A h \in Names : TenantOf(h) # NoTenant => pointed[h] # {}

(* However often and by however many processes an event is received, it is *)
(* written on its row at most once (dodomain-webhook.ts: the primary key   *)
(* of domain_provider_webhook_events decides).                             *)
AppliedOnce == \A e \in WebhookEvents : deliveries[e].applied <= 1

(* A hostname leads where its owner once pointed it, an organization has   *)
(* one main hostname, and no event is written twice.                       *)
HostnamesAreSound == OnePrimaryEach /\ SelectedWasPointed /\ AppliedOnce

(* Stated by dodomain-webhook.ts and not kept: an event that was answered  *)
(* with success and is in nobody's hands was applied or matched no         *)
(* hostname.  One that failed is answered as a duplicate on its retry.     *)
AnsweredIsApplied ==
    \A e \in WebhookEvents :
        (/\ deliveries[e].told
         /\ \A w \in Handlers : handling[w].at \in {"claim", "apply", "network", "write", "mark"}
                                   => e \notin handling[w].event)
        => deliveries[e].status \in {"processed", "ignored"}

(* "Domain must be active before it can be primary", stated by             *)
(* setPrimaryDomain and not kept: a verification that read the row while   *)
(* it was requested writes that status back.                               *)
PrimaryIsActive ==
    \A h \in Names : hostnames[h].primary => hostnames[h].status = "active"

(* "This prevents an arbitrary Host header from crossing tenant            *)
(* boundaries", tenant.ts: a hostname selects an organization only if its  *)
(* owner has once pointed it there.  Not kept after the move of an active  *)
(* row, nor when the edge provider is active for another tenant's CNAME.   *)
SelectedWasPointedThere ==
    \A h \in Names : TenantOf(h) # NoTenant => TenantOf(h) \in pointed[h]
=============================================================================

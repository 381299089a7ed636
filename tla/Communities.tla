------------------------------ MODULE Communities ------------------------------
(***************************************************************************)
(* Communities: the request for one and its review                         *)
(* (lib/organization-requests.ts), the creation with its web address       *)
(* (lib/saas-tenants.ts), and the removal, confirmed by code               *)
(* (lib/organization-decommission.ts) and carried out by a scheduled job   *)
(* (lib/organization-decommission-worker.ts) that cleans up what other     *)
(* services hold for the community (lib/organization-infrastructure-       *)
(* cleanup.ts), frees the address and, when retention ends, erases.        *)
(*                                                                         *)
(* A removal is a row that outlives crashes of whoever works on it; the    *)
(* steps of a confirmation and of the job are separate statements.  Rides, *)
(* memberships and custom hostnames are what the guards ask of them.       *)
(***************************************************************************)
EXTENDS Naturals, FiniteSets, Sequences

CONSTANTS
  Members,      \* people with an account
  Orgs,         \* organizations that may ever exist
  Slugs,        \* web addresses
  NoSlug,       \* the address of a community that has released its own
  Applications, \* requests for a community
  MaxOpen,      \* MAX_OPEN_ORGANIZATION_REQUESTS
  MaxRemovals,  \* bound: removals ever begun
  MaxCodes,     \* bound: confirmations ever sent
  LateDomains,  \* whether a hostname may be requested while a removal runs
  MaxDomains,   \* bound: custom hostnames requested
  MaxStops      \* bound: deaths of a process

ASSUME CommunitiesAssumption ==
  /\ MaxOpen \in Nat /\ MaxRemovals \in Nat /\ MaxCodes \in Nat /\ MaxDomains \in Nat /\ MaxStops \in Nat
  /\ LateDomains \in BOOLEAN
  /\ NoSlug \notin Slugs /\ "none" \notin Orgs

VARIABLES
  people,     \* rows of people
  orgs,       \* rows of organizations
  belongs,    \* active memberships: pairs of person and organization
  asked,      \* organization_requests
  asking,     \* checked but not yet inserted: pairs of application and person
  codes,      \* organization_decommission_confirmations
  confirming, \* confirmations being carried out
  removals,   \* organization_decommissions with their members
  job,        \* where the scheduled job is
  rides,      \* organizations with active rides
  outside,    \* organizations to which a hostname at another service points
  domains,    \* organizations with a row for that hostname
  spent       \* how often <<domains were requested, processes died>>

communityVars == <<people, orgs, belongs, asked, asking, codes, confirming, removals, job, rides, outside, domains, spent>>
applying == <<asked, asking>>
removing == <<codes, confirming, removals, job>>
hosting == <<outside, domains>>

Unasked == [status |-> "none", by |-> "nobody", slug |-> NoSlug, org |-> "none"]
NoOrg == [status |-> "none", slug |-> NoSlug, released |-> FALSE]
JobIdle == [step |-> "idle", r |-> 0, doomed |-> {}]

CommunitiesInit ==
  /\ people = Members /\ orgs = [o \in Orgs |-> NoOrg] /\ belongs = {}
  /\ asked = [a \in Applications |-> Unasked] /\ asking = {}
  /\ codes = <<>> /\ confirming = {} /\ removals = <<>> /\ job = JobIdle
  /\ rides = {} /\ outside = {} /\ domains = {} /\ spent = <<0, 0>>

Live(o) == orgs[o].status = "active"
InOther(p, o) == \E q \in Orgs \ {o} : <<p, q>> \in belongs
Taken(slug) == \E o \in Orgs : orgs[o].slug = slug

-----------------------------------------------------------------------------
(* Asking for a community *)

openRequestLimitReached(p) == Cardinality({a \in Applications : asked[a].by = p /\ asked[a].status = "pending"}) >= MaxOpen
PendingSlug(slug) == \E a \in Applications : asked[a].status = "pending" /\ asked[a].slug = slug
checkRequestedSlug(slug) == ~PendingSlug(slug) /\ ~Taken(slug)

createOrganizationRequest(a, p, slug) ==
  /\ p \in people /\ asked[a] = Unasked /\ \A x \in asking : x[1] # a
  /\ ~openRequestLimitReached(p) /\ checkRequestedSlug(slug)
  /\ asking' = asking \cup {<<a, p, slug>>}
  /\ UNCHANGED <<people, orgs, belongs, asked, removing, rides, hosting, spent>>

\* The unique index refuses a second pending request for one address.
InsertRequest(a, p, slug) ==
  /\ <<a, p, slug>> \in asking /\ asking' = asking \ {<<a, p, slug>>}
  /\ asked' = IF PendingSlug(slug) THEN asked
              ELSE [asked EXCEPT ![a] = [status |-> "pending", by |-> p, slug |-> slug, org |-> "none"]]
  /\ UNCHANGED <<people, orgs, belongs, removing, rides, hosting, spent>>

canWithdrawRequest(a) == asked[a].status = "pending"

\* The update asks again for what was read.
withdrawOrganizationRequest(a) ==
  /\ canWithdrawRequest(a) /\ asked' = [asked EXCEPT ![a].status = "withdrawn"]
  /\ UNCHANGED <<people, orgs, belongs, asking, removing, rides, hosting, spent>>

createOrganizationWithClient(o, slug) ==
  /\ ~Taken(slug) /\ orgs[o] = NoOrg
  /\ orgs' = [orgs EXCEPT ![o] = [status |-> "active", slug |-> slug, released |-> FALSE]]

\* The platform creates communities without a request too.
createOrganization(o, slug) ==
  /\ createOrganizationWithClient(o, slug)
  /\ UNCHANGED <<people, belongs, applying, removing, rides, hosting, spent>>

decideOrganizationRequest(a) ==
  /\ asked[a].status = "pending"
  /\ \/ \E o \in Orgs :
          /\ asked[a].by \in people /\ createOrganizationWithClient(o, asked[a].slug)
          /\ belongs' = belongs \cup {<<asked[a].by, o>>}
          /\ asked' = [asked EXCEPT ![a].status = "approved", ![a].org = o]
     \/ asked' = [asked EXCEPT ![a].status = "rejected"] /\ UNCHANGED <<orgs, belongs>>
  /\ UNCHANGED <<people, asking, removing, rides, hosting, spent>>

\* Codes and invitations let people join, rides begin and end.
Join(p, o) ==
  /\ p \in people /\ Live(o) /\ belongs' = belongs \cup {<<p, o>>}
  /\ UNCHANGED <<people, orgs, applying, removing, rides, hosting, spent>>

RidesChange(o) ==
  /\ o \in rides \/ Live(o)
  /\ rides' = IF o \in rides THEN rides \ {o} ELSE rides \cup {o}
  /\ UNCHANGED <<people, orgs, belongs, applying, removing, hosting, spent>>

\* The hostname is made known to the other service before its row is written,
\* and nobody asks whether the community is being removed.
requestCustomDomain(o) ==
  /\ orgs[o].status \notin {"none", "purged"}
  /\ LateDomains \/ Live(o)
  /\ spent[1] < MaxDomains /\ spent' = [spent EXCEPT ![1] = @ + 1]
  /\ outside' = outside \cup {o} /\ domains' = IF LateDomains THEN domains ELSE domains \cup {o}
  /\ UNCHANGED <<people, orgs, belongs, applying, removing, rides>>
InsertDomain(o) ==
  /\ o \in outside \ domains /\ orgs[o].status \notin {"none", "purged"} /\ domains' = domains \cup {o}
  /\ UNCHANGED <<people, orgs, belongs, applying, removing, rides, outside, spent>>

-----------------------------------------------------------------------------
(* Confirming a removal *)

RidesInTheWay(o, emergency) == o \in rides /\ ~emergency

createOrganizationDecommissionConfirmation(p, o, emergency) ==
  /\ <<p, o>> \in belongs /\ orgs[o].status \notin {"none", "purged"} /\ ~RidesInTheWay(o, emergency)
  /\ Len(codes) < MaxCodes
  /\ codes' = Append([c \in DOMAIN codes |->
                        IF codes[c].org = o /\ codes[c].by = p /\ codes[c].status = "pending"
                        THEN [codes[c] EXCEPT !.status = "cancelled"] ELSE codes[c]],
                     [org |-> o, by |-> p, emergency |-> emergency, status |-> "pending"])
  /\ UNCHANGED <<people, orgs, belongs, applying, confirming, removals, job, rides, hosting, spent>>

CodeExpires(c) ==
  /\ codes[c].status = "pending" /\ codes' = [codes EXCEPT ![c].status = "expired"]
  /\ UNCHANGED <<people, orgs, belongs, applying, confirming, removals, job, rides, hosting, spent>>

\* Found pending; that it is confirmed is written by id, whoever wrote before.
confirmOrganizationDecommission(c, channel) ==
  /\ codes[c].status = "pending"
  /\ \A x \in confirming : x.code # c \/ x.by # channel
  /\ confirming' = confirming \cup {[code |-> c, by |-> channel, step |-> "mark", keep |-> {}, drop |-> {}]}
  /\ UNCHANGED <<people, orgs, belongs, applying, codes, removals, job, rides, hosting, spent>>

Step(x, step) == confirming' = (confirming \ {x}) \cup {[x EXCEPT !.step = step]}
Leave(x) == confirming' = confirming \ {x}

MarkConfirmed(x) ==
  /\ x \in confirming /\ x.step = "mark" /\ Step(x, "preview")
  /\ codes' = [codes EXCEPT ![x.code].status = "confirmed"]
  /\ UNCHANGED <<people, orgs, belongs, applying, removals, job, rides, hosting, spent>>

\* Who is a member, and whether of another community too, is read before the
\* transaction; rides in the way give the code back.
previewOrganizationDecommission(x) ==
  LET c == codes[x.code]
      in == {p \in people : <<p, c.org>> \in belongs} IN
  /\ x \in confirming /\ x.step = "preview"
  /\ IF RidesInTheWay(c.org, c.emergency) \/ orgs[c.org].status = "purged"
     THEN Leave(x) /\ codes' = [codes EXCEPT ![x.code].status = "pending"]
     ELSE /\ confirming' = (confirming \ {x}) \cup
               {[x EXCEPT !.step = "begin", !.keep = {p \in in : InOther(p, c.org)},
                                            !.drop = {p \in in : ~InOther(p, c.org)}]}
          /\ UNCHANGED codes
  /\ UNCHANGED <<people, orgs, belongs, applying, removals, job, rides, hosting, spent>>

requestOrganizationDecommission(x) ==
  LET c == codes[x.code] IN
  /\ x \in confirming /\ x.step = "begin" /\ orgs[c.org].status # "purged" /\ Len(removals) < MaxRemovals
  /\ removals' = Append(removals, [org |-> c.org, emergency |-> c.emergency, code |-> x.code,
                                   status |-> "quiescing", keep |-> x.keep, drop |-> x.drop])
  /\ orgs' = [orgs EXCEPT ![c.org].status = "decommissioning"] /\ Step(x, "suspend")
  /\ UNCHANGED <<people, belongs, applying, codes, job, rides, hosting, spent>>

SuspendMemberships(x) ==
  /\ x \in confirming /\ x.step = "suspend" /\ Step(x, "used")
  /\ belongs' = {m \in belongs : m[2] # codes[x.code].org}
  /\ UNCHANGED <<people, orgs, applying, codes, removals, job, rides, hosting, spent>>

CodeUsed(x) ==
  /\ x \in confirming /\ x.step = "used" /\ Leave(x)
  /\ codes' = [codes EXCEPT ![x.code].status = "used"]
  /\ UNCHANGED <<people, orgs, belongs, applying, removals, job, rides, hosting, spent>>

-----------------------------------------------------------------------------
(* The job, one at a time under its lock *)

Now(step) == job' = [job EXCEPT !.step = step]
Becomes(status) == removals' = [removals EXCEPT ![job.r].status = status]
Removed == removals[job.r].org

SelectedBug(r) == removals[r].status = "quiescing"
Selected(r) == removals[r].status \in {"quiescing", "external_cleanup"}

processOrganizationDecommissions(r) ==
  /\ job = JobIdle /\ Selected(r) /\ job' = [step |-> "rides", r |-> r, doomed |-> {}]
  /\ UNCHANGED <<people, orgs, belongs, applying, codes, confirming, removals, rides, hosting, spent>>

LookForRides ==
  /\ job.step = "rides"
  /\ IF RidesInTheWay(Removed, removals[job.r].emergency)
     THEN Becomes("blocked") /\ job' = JobIdle
     ELSE Becomes("external_cleanup") /\ Now("cleanup")
  /\ UNCHANGED <<people, orgs, belongs, applying, codes, confirming, rides, hosting, spent>>

\* A hostname that the other service does not give up is tried again.
allCleanBug == TRUE
allClean == Removed \notin domains'
cleanupOrganizationInfrastructure ==
  /\ job.step = "cleanup"
  /\ \/ domains' = domains \ {Removed} /\ outside' = outside \ (domains \cap {Removed})
     \/ Removed \in domains /\ UNCHANGED hosting
  /\ IF allClean THEN Now("clean") ELSE job' = JobIdle
  /\ UNCHANGED <<people, orgs, belongs, applying, codes, confirming, removals, rides, spent>>

BeginRetention ==
  /\ job.step = "clean" /\ Becomes("retention") /\ Now("release")
  /\ UNCHANGED <<people, orgs, belongs, applying, codes, confirming, rides, hosting, spent>>

releaseOrganizationAddress ==
  /\ job.step = "release" /\ job' = JobIdle
  /\ orgs' = IF orgs[Removed].status = "decommissioning"
             THEN [orgs EXCEPT ![Removed].slug = NoSlug, ![Removed].released = TRUE] ELSE orgs
  /\ UNCHANGED <<people, belongs, applying, codes, confirming, removals, rides, hosting, spent>>

\* When retention ends: the memberships that remain are counted, then the
\* accounts without any are deleted, and all is committed together.
purgeDueOrganizationData(r) ==
  /\ job = JobIdle /\ removals[r].status = "retention"
  /\ job' = [step |-> "purge", r |-> r, doomed |-> {p \in people \cap removals[r].drop : ~InOther(p, removals[r].org)}]
  /\ UNCHANGED <<people, orgs, belongs, applying, codes, confirming, removals, rides, hosting, spent>>

CommitPurge ==
  /\ job.step = "purge" /\ job' = JobIdle /\ Becomes("completed")
  /\ people' = people \ job.doomed
  /\ orgs' = [orgs EXCEPT ![Removed] = [status |-> "purged", slug |-> NoSlug, released |-> TRUE]]
  /\ belongs' = {m \in belongs : m[2] # Removed /\ m[1] \notin job.doomed}
  /\ domains' = domains \ {Removed} /\ rides' = rides \ {Removed}
  /\ UNCHANGED <<applying, codes, confirming, outside, spent>>

PurgeFails ==
  /\ job.step = "purge" /\ job' = JobIdle /\ Becomes("failed")
  /\ UNCHANGED <<people, orgs, belongs, applying, codes, confirming, rides, hosting, spent>>

\* The process of a confirmation or of the job dies.
Dies ==
  /\ spent[2] < MaxStops /\ spent' = [spent EXCEPT ![2] = @ + 1]
  /\ \/ job # JobIdle /\ job' = JobIdle /\ UNCHANGED confirming
     \/ \E x \in confirming : Leave(x) /\ UNCHANGED job
  /\ UNCHANGED <<people, orgs, belongs, applying, codes, removals, rides, hosting>>

-----------------------------------------------------------------------------
OrganizationRequestsRoute ==
  \/ \E a \in Applications, p \in Members, slug \in Slugs : createOrganizationRequest(a, p, slug) \/ InsertRequest(a, p, slug)
  \/ \E a \in Applications : withdrawOrganizationRequest(a)

TenantsRoute == \E o \in Orgs : requestCustomDomain(o) \/ \E slug \in Slugs : createOrganization(o, slug)

DecommissionRoute == \E p \in Members, o \in Orgs, e \in BOOLEAN : createOrganizationDecommissionConfirmation(p, o, e)

Confirmation ==
  \/ \E c \in DOMAIN codes : CodeExpires(c) \/ \E channel \in {"email_link", "code"} : confirmOrganizationDecommission(c, channel)
  \/ \E x \in confirming : \/ MarkConfirmed(x) \/ previewOrganizationDecommission(x) \/ requestOrganizationDecommission(x)
                           \/ SuspendMemberships(x) \/ CodeUsed(x)

JobStep ==
  \/ \E r \in DOMAIN removals : processOrganizationDecommissions(r) \/ purgeDueOrganizationData(r)
  \/ LookForRides \/ cleanupOrganizationInfrastructure \/ BeginRetention
  \/ releaseOrganizationAddress \/ CommitPurge \/ PurgeFails

CommunitiesNext ==
  \/ OrganizationRequestsRoute \/ \E a \in Applications : decideOrganizationRequest(a)
  \/ \E p \in Members, o \in Orgs : Join(p, o)
  \/ \E o \in Orgs : RidesChange(o) \/ InsertDomain(o)
  \/ TenantsRoute
  \/ DecommissionRoute \/ Confirmation \/ JobStep \/ Dies

\* The scheduler runs the job again and again, retention ends, and the other
\* service does not refuse for ever.
CommunitiesFairness ==
  /\ WF_communityVars(JobStep)
  /\ SF_communityVars(cleanupOrganizationInfrastructure /\ job'.step = "clean")
  /\ \A r \in 1..MaxRemovals : SF_communityVars(r \in DOMAIN removals /\ processOrganizationDecommissions(r))
  /\ \A r \in 1..MaxRemovals : SF_communityVars(r \in DOMAIN removals /\ purgeDueOrganizationData(r))

CommunitiesSpec == CommunitiesInit /\ [][CommunitiesNext]_communityVars /\ CommunitiesFairness

-----------------------------------------------------------------------------
(* Properties *)

\* Rows are well typed, no address is asked for twice at a time or given twice.
CommunitiesTypeOK ==
  /\ \A a, b \in Applications : asked[a].status = "pending" /\ asked[b].status = "pending" /\ asked[a].slug = asked[b].slug => a = b
  /\ \A o, q \in Orgs : orgs[o].slug = orgs[q].slug /\ orgs[o].slug # NoSlug => o = q
  /\ people \subseteq Members /\ belongs \subseteq Members \X Orgs
  /\ \A o \in Orgs : /\ orgs[o].status \in {"none", "active", "decommissioning", "purged"}
                     /\ orgs[o].slug \in Slugs \cup {NoSlug} /\ orgs[o].released \in BOOLEAN
  /\ \A a \in Applications : asked[a].status \in {"none", "pending", "approved", "rejected", "withdrawn"}
  /\ \A c \in DOMAIN codes : codes[c].status \in {"pending", "confirmed", "used", "cancelled", "expired"}
  /\ \A r \in DOMAIN removals : removals[r].status \in
       {"quiescing", "external_cleanup", "blocked", "retention", "completed", "failed"}
  /\ Len(removals) <= MaxRemovals /\ Len(codes) <= MaxCodes /\ job.r \in 0..MaxRemovals

\* A decision and the community it made agree for ever: no withdrawal, in
\* whatever order with the review, leaves a community whose request was not
\* approved, and no two requests share one.
CommunitiesAreApproved ==
  \A a \in Applications :
    /\ asked[a].status = "approved" <=> asked[a].org \in Orgs
    /\ \A b \in Applications \ {a} : asked[a].org \in Orgs => asked[b].org # asked[a].org

\* "Runs only after external cleanup succeeded, so nothing outside still points
\* at it": an address that is free for others has no hostname of the community
\* left at another service, through refusals, deaths and second removals.
FreedWhenClean == \A o \in Orgs : orgs[o].released => o \notin outside

\* An address is somebody's by approval, and anybody's again when it is clean.
AddressesAreEarned == CommunitiesAreApproved /\ FreedWhenClean

\* "preserve_people_used_by_other_orgs": the end of retention deletes nobody who
\* belongs to another community by then.
SharedAccountsStay ==
  [][\A p \in people \ people' : \A o \in Orgs : <<p, o>> \in belongs => removals[job.r].org = o]_communityVars

\* An "expiring one-time code": a code begins one removal at most.
OneRemovalPerCode ==
  \A r, s \in DOMAIN removals : removals[r].code = removals[s].code => r = s

\* "At most 3 pending requests per person."
RequestsWithinLimit ==
  \A p \in Members : Cardinality({a \in Applications : asked[a].by = p /\ asked[a].status = "pending"}) <= MaxOpen

\* A removal that the job has taken up comes to its end, blocked by rides or
\* with everything erased and the address free, through refusals of other
\* services and deaths, even one between the cleanup and the release.
RemovalEnds ==
  \A r \in 1..MaxRemovals :
    []<>(r \in DOMAIN removals =>
           \/ removals[r].status \in {"blocked", "failed"}
           \/ removals[r].status = "completed" /\ orgs[removals[r].org].released)
=============================================================================

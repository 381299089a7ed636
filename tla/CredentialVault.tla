---------------------------- MODULE CredentialVault ----------------------------
(***************************************************************************)
(* The credential documents of one driver (lib/credentials.ts), their      *)
(* automatic reading (lib/credential-review.ts), an organization's review  *)
(* of the requirement they answer (lib/admin-operations.ts), expiration    *)
(* (lib/credential-expiration.ts), retention (lib/privacy-maintenance.ts), *)
(* and what all this makes of the driver (lib/driver-eligibility.ts and    *)
(* the function of migration 023).                                         *)
(*                                                                         *)
(* Rows live in PostgreSQL, files in an object store that shares no        *)
(* transaction with it, and the reading is a call of another service, so   *)
(* each request is a sequence of steps that others interleave with and     *)
(* that a crash may cut short.  Of a date of expiry, a requirement needs   *)
(* to know whether it is past, a document whether it outlived retention.   *)
(***************************************************************************)
EXTENDS Naturals, FiniteSets

CONSTANTS
  Docs,         \* documents the driver may ever upload
  NoDoc,        \* a requirement without a document
  MaxDoing,     \* bound: requests of the driver under way at once
  MaxReviews    \* bound: answers of the organization

ASSUME VaultAssumption == MaxDoing \in Nat /\ MaxReviews \in Nat /\ NoDoc \notin Docs

VARIABLES
  docs,      \* person_documents
  objects,   \* documents whose file is in the bucket
  links,     \* documents whose upload address still works
  doing,     \* requests and jobs under way: the document and the next step
  req,       \* the row of driver_requirement_status
  suspend,   \* suspend_on_expired_credentials of organization_driver_requirements
  approved,  \* history: the document the row had when it was last approved
  erased,    \* history: documents whose deletion was committed
  reviews    \* how often the organization answered

vaultVars == <<docs, objects, links, doing, req, suspend, approved, erased, reviews>>
files == <<objects, links>>
history == <<approved, erased>>

Dates == {"none", "future", "past"}
DocRows == [status : {"absent", "pending_upload", "uploaded", "processing", "ready", "deleted"},
            dated : BOOLEAN, outlived : BOOLEAN, gone : BOOLEAN]
ReqRows == [status : {"not_submitted", "pending", "verified", "rejected", "expired"},
            doc : Docs \cup {NoDoc}, expires : Dates]
Steps == {"finalize", "mark", "analyze", "link", "delete_object", "note_deleted", "purge", "purged"}
Absent == [status |-> "absent", dated |-> FALSE, outlived |-> FALSE, gone |-> FALSE]

VaultInit ==
  /\ docs = [d \in Docs |-> Absent] /\ objects = {} /\ links = {} /\ doing = {}
  /\ req = [status |-> "not_submitted", doc |-> NoDoc, expires |-> "none"]
  /\ suspend \in BOOLEAN
  /\ approved = NoDoc /\ erased = {} /\ reviews = 0

\* A request goes from one step to the next, or ends.
Begin(d, step) == Cardinality(doing) < MaxDoing /\ doing' = doing \cup {<<d, step>>}
Go(d, step, next) == <<d, step>> \in doing /\ doing' = (doing \ {<<d, step>>}) \cup {<<d, next>>}
End(d, step) == <<d, step>> \in doing /\ doing' = doing \ {<<d, step>>}
Update(d, status) == docs' = [docs EXCEPT ![d].status = status]

-----------------------------------------------------------------------------
(* Uploading *)

createCredentialUpload(d) ==
  /\ docs[d].status = "absent" /\ Update(d, "pending_upload") /\ links' = links \cup {d}
  /\ UNCHANGED <<objects, doing, req, suspend, history, reviews>>

\* The browser uses the address until it expires, whatever became of the row.
PutObject(d) ==
  /\ d \in links /\ objects' = objects \cup {d}
  /\ UNCHANGED <<docs, links, doing, req, suspend, history, reviews>>

LinkExpires(d) ==
  /\ d \in links /\ links' = links \ {d}
  /\ UNCHANGED <<docs, objects, doing, req, suspend, history, reviews>>

headPrivateObject(d) ==
  /\ docs[d].status = "pending_upload" /\ d \in objects /\ Begin(d, "finalize")
  /\ UNCHANGED <<docs, files, req, suspend, history, reviews>>

\* The update asks for the id alone.
finalizeCredentialUpload(d) ==
  /\ End(d, "finalize") /\ docs' = [docs EXCEPT ![d].status = "uploaded", ![d].outlived = FALSE]
  /\ UNCHANGED <<files, req, suspend, history, reviews>>

-----------------------------------------------------------------------------
(* Automatic reading: three updates around a call of another service *)

processMyCredential(d) ==
  /\ docs[d].status \in {"uploaded", "ready"} /\ Begin(d, "mark")
  /\ UNCHANGED <<docs, files, req, suspend, history, reviews>>

MarkProcessing(d) ==
  /\ Go(d, "mark", "analyze") /\ Update(d, "processing")
  /\ UNCHANGED <<files, req, suspend, history, reviews>>

AnalysisFails(d) ==
  /\ End(d, "analyze") /\ Update(d, "uploaded")
  /\ UNCHANGED <<files, req, suspend, history, reviews>>

\* A date of expiry that was found replaces the one there was.
AnalysisSucceeds(d) ==
  /\ Go(d, "analyze", "link")
  /\ Update(d, "ready") \/ docs' = [docs EXCEPT ![d].status = "ready", ![d].dated = TRUE, ![d].outlived = FALSE]
  /\ UNCHANGED <<files, req, suspend, history, reviews>>

\* A requirement with a new document waits for the organization again.
LinkedBug(d, e) == [req EXCEPT !.doc = d, !.expires = e, !.status = IF @ = "verified" THEN @ ELSE "pending"]
Linked(d, e) == [status |-> "pending", doc |-> d, expires |-> e]
LinkRequirement(d) ==
  /\ End(d, "link") /\ \E e \in Dates : req' = Linked(d, e)
  /\ UNCHANGED <<docs, files, suspend, history, reviews>>

-----------------------------------------------------------------------------
(* Deleting, by the driver and by retention *)

Deleted(row) == [row EXCEPT !.status = "deleted", !.dated = FALSE, !.outlived = FALSE]
Unlinked(D) == IF req.doc \in D THEN [req EXCEPT !.status = "not_submitted", !.doc = NoDoc] ELSE req

deleteMyCredential(d) ==
  /\ docs[d].status \notin {"absent", "deleted"} /\ Begin(d, "delete_object")
  /\ docs' = [docs EXCEPT ![d] = Deleted(@)]
  /\ req' = IF req.doc = d THEN [Unlinked({d}) EXCEPT !.expires = "none"] ELSE req
  /\ erased' = erased \cup {d} /\ UNCHANGED <<files, suspend, approved, reviews>>

\* Deleting the file and writing it down are two steps; a refusal only
\* leaves the row to the job.
deletePrivateObject(d, step, next) ==
  /\ \/ Go(d, step, next) /\ objects' = objects \ {d}
     \/ End(d, step) /\ UNCHANGED objects
  /\ UNCHANGED <<docs, links, req, suspend, history, reviews>>
NoteDeleted(d, step) ==
  /\ End(d, step) /\ docs' = [docs EXCEPT ![d].gone = TRUE]
  /\ UNCHANGED <<files, req, suspend, history, reviews>>

\* A pending upload outlives its 24 hours, a dated document its retention.
Outlived(d) == docs[d].status \in {"pending_upload", "uploaded", "ready"} /\ docs[d].outlived
scheduleExpiredCredentialDeletion ==
  LET D == {d \in Docs : Outlived(d)} IN
  /\ D # {} /\ docs' = [d \in Docs |-> IF d \in D THEN Deleted(docs[d]) ELSE docs[d]]
  /\ req' = Unlinked(D) /\ erased' = erased \cup D
  /\ UNCHANGED <<files, doing, suspend, approved, reviews>>

Purgeable(d) == docs[d].status = "deleted" /\ ~docs[d].gone
purgeDocumentObjects(d) ==
  /\ Purgeable(d) /\ Docs \X {"purge", "purged"} \cap doing = {} /\ doing' = doing \cup {<<d, "purge">>}
  /\ UNCHANGED <<docs, files, req, suspend, history, reviews>>

-----------------------------------------------------------------------------
(* The organization, and the passing of days *)

\* The answer goes to whatever document the row has by then.  A date that is
\* not given leaves the one there was.
reviewDriverRequirement(status, e) ==
  /\ reviews < MaxReviews /\ reviews' = reviews + 1
  /\ req' = [req EXCEPT !.status = status, !.expires = IF e = "none" THEN @ ELSE e]
  /\ approved' = IF status = "verified" THEN req.doc ELSE approved
  /\ UNCHANGED <<docs, files, doing, suspend, erased>>

updateDriverRequirements ==
  /\ suspend' = ~suspend
  /\ UNCHANGED <<docs, files, doing, req, history, reviews>>

processCredentialExpirations ==
  /\ suspend /\ req.status = "verified" /\ req.expires = "past"
  /\ req' = [req EXCEPT !.status = "expired"]
  /\ UNCHANGED <<docs, files, doing, suspend, history, reviews>>

DaysPass ==
  /\ docs' = [d \in Docs |-> [docs[d] EXCEPT !.outlived = docs[d].dated \/ docs[d].status = "pending_upload"]]
  /\ req' = [req EXCEPT !.expires = IF @ = "future" THEN "past" ELSE @]
  /\ <<docs', req'>> # <<docs, req>>
  /\ links' = {} /\ UNCHANGED <<objects, doing, suspend, history, reviews>>

\* A request whose process dies goes no further.
RequestDies ==
  /\ \E x \in doing : doing' = doing \ {x}
  /\ UNCHANGED <<docs, files, req, suspend, history, reviews>>

\* The application and the database each decide on a driver who is adult and
\* has driving switched on: the application for what drivers and organizations
\* are shown, the database for offers and rides.
\* The application compares the first ten characters of a Date object, "Thu
\* Jan 01", with a day, "2026-01-01": a letter is never less than a digit, so
\* it finds no credential expired.
evaluateDriverEligibility == req.status = "verified"
driverIsEligible == req.status = "verified" /\ req.expires # "past"

-----------------------------------------------------------------------------
CredentialsRoute(d) ==
  \/ createCredentialUpload(d) \/ headPrivateObject(d) \/ finalizeCredentialUpload(d)
  \/ processMyCredential(d) \/ MarkProcessing(d) \/ AnalysisFails(d) \/ AnalysisSucceeds(d) \/ LinkRequirement(d)
  \/ deleteMyCredential(d) \/ deletePrivateObject(d, "delete_object", "note_deleted") \/ NoteDeleted(d, "note_deleted")

PurgeStep(d) == purgeDocumentObjects(d) \/ deletePrivateObject(d, "purge", "purged") \/ NoteDeleted(d, "purged")

OperationsRoute ==
  \/ \E s \in {"verified", "rejected"}, e \in {"none", "future"} : reviewDriverRequirement(s, e)
  \/ updateDriverRequirements

VaultNext ==
  \/ \E d \in Docs : CredentialsRoute(d) \/ PurgeStep(d) \/ PutObject(d) \/ LinkExpires(d)
  \/ OperationsRoute \/ scheduleExpiredCredentialDeletion \/ processCredentialExpirations
  \/ DaysPass \/ RequestDies

\* The hourly job comes again, and a store that is asked again and again
\* does not refuse, nor the process die, every time.
VaultFairness ==
  \A d \in Docs : /\ WF_vaultVars(purgeDocumentObjects(d))
                  /\ SF_vaultVars(Go(d, "purge", "purged") /\ deletePrivateObject(d, "purge", "purged"))
                  /\ SF_vaultVars(NoteDeleted(d, "purged"))

VaultSpec == VaultInit /\ [][VaultNext]_vaultVars /\ VaultFairness

-----------------------------------------------------------------------------
(* Properties *)

\* Rows are well typed, and a requirement that waits for a document has none:
\* every way a document goes, by the driver or by retention, takes the link.
VaultTypeOK ==
  /\ docs \in [Docs -> DocRows] /\ objects \subseteq Docs /\ links \subseteq Docs
  /\ doing \subseteq Docs \X Steps /\ req \in ReqRows
  /\ req.status = "not_submitted" => req.doc = NoDoc

\* "AI never approves a driver": a requirement stands as verified only for the
\* very document it had when the organization answered; a document read,
\* exchanged or deleted since then, in whatever order, takes the answer back.
ApprovalIsOfItsDocument == req.status = "verified" => req.doc = approved

\* A driver the database refused is admitted by an answer of the organization
\* alone: no new document, date, deletion, expiry or change of rules admits.
OnlyReviewsAdmit == ~driverIsEligible /\ driverIsEligible' => reviews' > reviews

\* Nobody drives on an answer the organization has not given: not for this
\* document, and not at all.
ApprovalIsEarned ==
  [][ApprovalIsOfItsDocument' /\ OnlyReviewsAdmit]_vaultVars

\* "suspend on expired credentials": where the organization wants it, the
\* application refuses a driver whose credential has expired.
ExpiredIsRefused ==
  suspend /\ req.status = "verified" /\ req.expires = "past" => ~evaluateDriverEligibility

\* "suspend on expired credentials" is the organization's choice: where it is
\* switched off, an expired but verified credential does not suspend.
SuspensionIsAChoice == ~suspend /\ req.status = "verified" => driverIsEligible

\* "Eligibility links, extracted AI data, filenames, metadata, and
\* object-storage data are removed": nothing brings a deleted document back.
DeletedLeavesNothing == \A d \in erased : req.doc # d /\ docs[d].status = "deleted"

\* The same of the file: it is removed or still waits for the job.
NoFileForgotten == \A d \in objects : ~docs[d].gone

\* The file of a deleted document is deleted in the end, through refusals of
\* the store and deaths of the job, unless somebody revives the document.
FilesGo ==
  \A d \in Docs : []<>(docs[d].status = "deleted" => docs[d].gone)
=============================================================================

--------------------------- MODULE RefundEvidence ---------------------------
(***************************************************************************)
(* The photo evidence of one refund workflow: uploads that take their time *)
(* to validate and store, a reviewer who judges the set a page showed, the *)
(* workflow that acts on the accepted set, recovery of uploads whose       *)
(* handler died, and the operator's retention run.                         *)
(*                                                                         *)
(* An upload key stands for the attachment it creates.  Who may claim and  *)
(* decide the case is the subject of HumanCases; here its one reviewer has *)
(* claimed it or not.                                                      *)
(***************************************************************************)
EXTENDS Naturals, FiniteSetsExt

CONSTANTS
  Keys,          \* idempotency keys of uploads
  Requests,      \* upload requests that can be in flight
  Sizes,         \* sizes of a photo, as sent and as normalized
  MaxPhotos,     \* MAX_PHOTOS: photos in the current set
  MaxSetBytes,   \* MAX_SET_BYTES: size of the current set
  MaxAttempts,   \* MAX_UPLOAD_ATTEMPTS: photos in the life of the collection
  MaxUploads     \* upload requests admitted at a time

ASSUME SizesAssumption == Sizes \subseteq Nat \ {0}
ASSUME LimitsAssumption ==
  {MaxPhotos, MaxSetBytes, MaxAttempts, MaxUploads} \subseteq Nat \ {0}

VARIABLES
  caseRow,     \* refund_cases: [type, status, version]
  revision,    \* document: evidence_version
  assessment,  \* document: the last review's outcome
  manifest,    \* document: the photos the accepted manifest hash covers
  retired,     \* document: the retention run has emptied it
  photo,       \* document: per key, the attachment it created
  stored,      \* private store: keys whose normalized bytes are on disk
  upload,      \* per request: where it is, and what it carries
  leases,      \* requests that hold one of the upload leases
  page,        \* what the reviewer's console shows: [version, revision, photos]
  held         \* workflow: the accepted evidence it works with

docVars == <<revision, assessment, manifest, retired, photo>>
vars == <<caseRow, docVars, stored, upload, leases, page, held>>

----------------------------------------------------------------------------

CaseTypes == {"NONE", "REFUND_EVIDENCE_REVIEW", "MONETARY"}
Assessments == {"UNREVIEWED", "ACCEPTED", "MORE_REQUIRED"}
TechnicalStatus == {"NONE", "PROCESSING", "READY", "REJECTED"}

Photo == [status : TechnicalStatus, size : Nat, superseded : BOOLEAN, purged : BOOLEAN]

\* An upload request is admitted, then works: it validates and stores, and
\* finishes with the stored photo or with a rejection.
Idle == [at |-> "NONE"]
Working == {"VALIDATE", "FINISH", "REJECT"}
Leased == [at |-> "LEASED"]
Upload == {Idle, Leased} \cup [at : Working, key : Keys, size : Nat]

NoEvidence == [revision |-> 0, photos |-> {}]

TypeOK ==
  /\ caseRow \in [type : CaseTypes, status : {"OPEN", "CLAIMED", "CLOSED"}, version : Nat]
  /\ revision \in Nat
  /\ assessment \in Assessments
  /\ manifest \in SUBSET Keys
  /\ retired \in BOOLEAN
  /\ photo \in [Keys -> Photo]
  /\ stored \in SUBSET Keys
  /\ upload \in [Requests -> Upload]
  /\ leases \in SUBSET Requests
  /\ page \in [version : Nat, revision : Nat, photos : SUBSET Keys]
  /\ held \in [revision : Nat, photos : SUBSET Keys]

Attachments == {k \in Keys : photo[k].status # "NONE"}
Available == {k \in Attachments : ~photo[k].purged /\ ~photo[k].superseded}
Active == {k \in Available : photo[k].status # "REJECTED"}
Ready == {k \in Available : photo[k].status = "READY"}
Processing == {k \in Attachments : photo[k].status = "PROCESSING"}

SetBytes(keys) == MapThenSumSet(LAMBDA k : photo[k].size, keys)

Init ==
  /\ caseRow = [type |-> "NONE", status |-> "OPEN", version |-> 0]
  /\ revision = 0 /\ assessment = "UNREVIEWED" /\ manifest = {} /\ retired = FALSE
  /\ photo = [k \in Keys |->
       [status |-> "NONE", size |-> 0, superseded |-> FALSE, purged |-> FALSE]]
  /\ stored = {}
  /\ upload = [u \in Requests |-> Idle]
  /\ leases = {}
  /\ page = [version |-> 0, revision |-> 0, photos |-> {}]
  /\ held = NoEvidence

----------------------------------------------------------------------------
(* The record.  Every change of the document is saved with a new case version. *)

\* ensure: the workflow opens the collection; a repetition only reads it.
Ensure ==
  /\ caseRow.type = "NONE"
  /\ caseRow' = [type |-> "REFUND_EVIDENCE_REVIEW", status |-> "OPEN", version |-> 1]
  /\ UNCHANGED <<docVars, stored, upload, leases, page, held>>

Save == caseRow' = [caseRow EXCEPT !.version = @ + 1]

Judge(outcome, photos) == assessment' = outcome /\ manifest' = photos

SetStatus(keys, status) ==
  photo' = [k \in Keys |-> IF k \in keys THEN [photo[k] EXCEPT !.status = status] ELSE photo[k]]

----------------------------------------------------------------------------
(* Uploads *)

\* onRequest: the owner of an existing collection gets one of the leases before
\* any byte is read.
Admit(u) ==
  /\ upload[u] = Idle
  /\ caseRow.type # "NONE"
  /\ Cardinality(leases) < MaxUploads
  /\ upload' = [upload EXCEPT ![u] = Leased]
  /\ leases' = leases \cup {u}
  /\ UNCHANGED <<caseRow, docVars, stored, page, held>>

\* Mutation: a disconnect returns the lease of a handler at work.
DisconnectReleases(u) ==
  /\ u \in leases
  /\ upload' = [upload EXCEPT ![u] = IF @.at = "LEASED" THEN Idle ELSE @]
  /\ leases' = leases \ {u}
  /\ UNCHANGED <<caseRow, docVars, stored, page, held>>

\* releaseUpload on a disconnect, an abort or a timeout: while the handler works
\* the lease stays with it.
Disconnect(u) ==
  /\ u \in leases
  /\ upload[u].at = "LEASED"
  /\ upload' = [upload EXCEPT ![u] = Idle]
  /\ leases' = leases \ {u}
  /\ UNCHANGED <<caseRow, docVars, stored, page, held>>

\* The handler's finally block: the request is answered and its lease returned.
Answer(u) == upload' = [upload EXCEPT ![u] = Idle] /\ leases' = leases \ {u}

MayUpload(k, size, expected) ==
  /\ k \notin Attachments
  /\ assessment # "ACCEPTED" /\ ~retired
  /\ caseRow.type = "REFUND_EVIDENCE_REVIEW" /\ caseRow.status \in {"OPEN", "CLAIMED"}
  /\ revision = expected
  /\ Cardinality(Active) < MaxPhotos
  /\ Cardinality(Attachments) < MaxAttempts
  /\ SetBytes(Active) + size <= MaxSetBytes

\* beginUpload reserves the photo's place and size in the set.
Reserve(u, k, size) ==
  /\ photo' = [photo EXCEPT ![k] = [status |-> "PROCESSING", size |-> size,
       superseded |-> FALSE, purged |-> FALSE]]
  /\ revision' = revision + 1
  /\ Judge("UNREVIEWED", {})
  /\ Save
  /\ upload' = [upload EXCEPT ![u] = [at |-> "VALIDATE", key |-> k, size |-> size]]
  /\ UNCHANGED <<retired, leases>>

\* beginUpload of a photo sent from a page that showed revision expected: a
\* known key or a refusal is answered at once.
BeginUpload(u, k, size, expected) ==
  /\ upload[u].at = "LEASED"
  /\ \/ MayUpload(k, size, expected) /\ Reserve(u, k, size)
     \/ ~MayUpload(k, size, expected) /\ Answer(u) /\ UNCHANGED <<caseRow, docVars>>
  /\ UNCHANGED <<stored, page, held>>

\* validatePhoto and store.put: the normalized photo has a size of its own.
Validate(u) ==
  /\ upload[u].at = "VALIDATE"
  /\ \/ /\ \E size \in Sizes :
            upload' = [upload EXCEPT ![u].at = "FINISH", ![u].size = size]
        /\ stored' = stored \cup {upload[u].key}
     \/ upload' = [upload EXCEPT ![u].at = "REJECT"] /\ UNCHANGED stored
  /\ UNCHANGED <<caseRow, docVars, leases, page, held>>

\* Mutation: the reservation made on the size sent is trusted.
AcceptsReserved(u) == upload[u].at = "FINISH" /\ caseRow.status # "CLOSED" /\ ~retired

\* finishUpload's verdict: the others in the set and this photo must still fit.
Accepts(u) ==
  /\ upload[u].at = "FINISH"
  /\ caseRow.status # "CLOSED" /\ ~retired
  /\ SetBytes(Active \ {upload[u].key}) + upload[u].size <= MaxSetBytes

Settle(u, k) ==
  /\ \/ Accepts(u) /\ photo' = [photo EXCEPT ![k].status = "READY", ![k].size = upload[u].size]
     \/ ~Accepts(u) /\ SetStatus({k}, "REJECTED")
  /\ revision' = revision + 1
  /\ Save

\* Mutation: a late result overrides the recovery of its photo.
FinishAnyStatus(u) ==
  /\ upload[u].at \in {"FINISH", "REJECT"}
  /\ Settle(u, upload[u].key)
  /\ Answer(u)
  /\ UNCHANGED <<assessment, manifest, retired, stored, page, held>>

\* finishUpload: nothing happens to a photo that is no longer PROCESSING.
FinishUpload(u) ==
  /\ upload[u].at \in {"FINISH", "REJECT"}
  /\ LET k == upload[u].key
     IN  \/ photo[k].status = "PROCESSING" /\ Settle(u, k)
         \/ photo[k].status # "PROCESSING" /\ UNCHANGED <<photo, revision, caseRow>>
  /\ Answer(u)
  /\ UNCHANGED <<assessment, manifest, retired, stored, page, held>>

\* A database error in finishUpload: the caller gets an error, the photo stays
\* PROCESSING.
FinishFails(u) ==
  /\ upload[u].at \in {"FINISH", "REJECT"}
  /\ Answer(u)
  /\ UNCHANGED <<caseRow, docVars, stored, page, held>>

\* The process dies: requests and leases are gone, records and files remain.
Crash ==
  /\ leases # {}
  /\ upload' = [u \in Requests |-> Idle]
  /\ leases' = {}
  /\ UNCHANGED <<caseRow, docVars, stored, page, held>>

\* Mutation: recovery passes over the cases a reviewer has claimed.
RecoverUnclaimed(keys) ==
  /\ keys # {} /\ keys \subseteq Processing /\ caseRow.status # "CLAIMED"
  /\ SetStatus(keys, "REJECTED")
  /\ revision' = revision + 1
  /\ Save
  /\ UNCHANGED <<assessment, manifest, retired, stored, upload, leases, page, held>>

\* recoverStaleUploads: photos that have been PROCESSING for ten minutes.
RecoverStaleUploads(keys) ==
  /\ keys # {} /\ keys \subseteq Processing
  /\ SetStatus(keys, "REJECTED")
  /\ revision' = revision + 1
  /\ Save
  /\ UNCHANGED <<assessment, manifest, retired, stored, upload, leases, page, held>>

----------------------------------------------------------------------------
(* The reviewer.  A page reads the case first and its evidence after it.    *)

Claim ==
  /\ caseRow.type # "NONE" /\ caseRow.status = "OPEN"
  /\ caseRow' = [caseRow EXCEPT !.status = "CLAIMED", !.version = @ + 1]
  /\ UNCHANGED <<docVars, stored, upload, leases, page, held>>

ViewCase ==
  /\ caseRow.type = "REFUND_EVIDENCE_REVIEW" /\ caseRow.status = "CLAIMED"
  /\ page' = [version |-> caseRow.version, revision |-> 0, photos |-> {}]
  /\ UNCHANGED <<caseRow, docVars, stored, upload, leases, held>>

\* evidenceSnapshot: the photos of the current set, none once retired.
ViewEvidence ==
  /\ page.version > 0 /\ page.revision = 0
  /\ page' = [page EXCEPT !.revision = revision, !.photos = IF retired THEN {} ELSE Ready]
  /\ UNCHANGED <<caseRow, docVars, stored, upload, leases, held>>

CanReviewEvidence ==
  /\ caseRow.type = "REFUND_EVIDENCE_REVIEW" /\ caseRow.status = "CLAIMED"
  /\ assessment # "ACCEPTED"
  /\ Ready # {}
  /\ \A k \in Processing : photo[k].superseded

Accept ==
  /\ Judge("ACCEPTED", Ready)
  /\ UNCHANGED <<revision, photo>>

\* Asking for more starts a fresh set and keeps the old photos.
RequestMore ==
  /\ Judge("MORE_REQUIRED", {})
  /\ photo' = [k \in Keys |-> [photo[k] EXCEPT !.superseded = @ \/ k \in Available]]
  /\ revision' = revision + 1

\* The console offers a review of the photos it shows, with the versions it read.
PageOffersReview == page.revision > 0 /\ page.photos # {}

\* Mutation: the review does not look at the evidence's version.
ReviewAnyEvidence ==
  /\ CanReviewEvidence /\ PageOffersReview
  /\ Accept \/ RequestMore
  /\ Save
  /\ UNCHANGED <<retired, stored, upload, leases, page, held>>

Review ==
  /\ CanReviewEvidence /\ PageOffersReview
  /\ page.version = caseRow.version /\ page.revision = revision
  /\ Accept \/ RequestMore
  /\ Save
  /\ UNCHANGED <<retired, stored, upload, leases, page, held>>

----------------------------------------------------------------------------
(* The workflow *)

\* evidenceSnapshot hides the assessment of a retired record.
Accepted == assessment = "ACCEPTED" /\ ~retired

\* authoritativeSnapshot: acceptance is reported only with every file in place.
ReadAccepted ==
  /\ Accepted
  /\ Ready \subseteq stored
  /\ held' = [revision |-> revision, photos |-> manifest]
  /\ UNCHANGED <<caseRow, docVars, stored, upload, leases, page>>

\* transition: the case goes on to a monetary decision about that evidence.
Transition ==
  /\ Accepted /\ Ready \subseteq stored
  /\ held.revision = revision
  /\ caseRow.type = "REFUND_EVIDENCE_REVIEW" /\ caseRow.status # "CLOSED"
  /\ caseRow' = [type |-> "MONETARY", status |-> "OPEN", version |-> caseRow.version + 1]
  /\ UNCHANGED <<docVars, stored, upload, leases, page, held>>

Close ==
  /\ caseRow.type # "NONE" /\ caseRow.status # "CLOSED"
  /\ caseRow' = [caseRow EXCEPT !.status = "CLOSED", !.version = @ + 1]
  /\ UNCHANGED <<docVars, stored, upload, leases, page, held>>

----------------------------------------------------------------------------
(* Retention, run by an operator.  Time is left out: any photo may be old    *)
(* enough, except that no handler still works on a photo of a day ago.       *)

Old(keys) == \A u \in Requests : upload[u].at \in Working => upload[u].key \notin keys

\* Mutation: retirement deletes the current set and forgets superseded photos.
DeletableCurrent(stale, keys, expired) ==
  /\ stale \subseteq Processing
  /\ Old(keys)
  /\ \/ /\ ~expired
        /\ keys \subseteq {k \in Attachments : photo[k].status = "REJECTED"} \cup stale
        /\ \A k \in keys : ~photo[k].purged
     \/ /\ expired /\ caseRow.status = "CLOSED" /\ ~retired
        /\ stale = Processing /\ keys = Available

\* The photos a run deletes: rejected ones, or all of an expired closed case.
Deletable(stale, keys, expired) ==
  /\ stale \subseteq Processing
  /\ Old(keys)
  /\ \/ /\ ~expired
        /\ keys \subseteq {k \in Attachments : photo[k].status = "REJECTED"} \cup stale
        /\ \A k \in keys : ~photo[k].purged
     \/ /\ expired /\ caseRow.status = "CLOSED" /\ ~retired
        /\ stale = Processing /\ keys = {k \in Attachments : ~photo[k].purged}

Purge(stale, keys, expired) ==
  /\ Deletable(stale, keys, expired)
  /\ stale \cup keys # {} \/ expired
  /\ stored' = stored \ keys
  /\ photo' = [k \in Keys |-> [photo[k] EXCEPT
       !.status = IF k \in stale THEN "REJECTED" ELSE @, !.purged = @ \/ k \in keys]]
  /\ retired' = (retired \/ expired)
  /\ revision' = IF assessment # "ACCEPTED" \/ retired' THEN revision + 1 ELSE revision
  /\ Save
  /\ UNCHANGED <<assessment, manifest, upload, leases, page, held>>

\* The run fails after some files are gone: its transaction is rolled back.
PurgeAborts(stale, keys, expired) ==
  /\ Deletable(stale, keys, expired)
  /\ \E gone \in SUBSET keys : gone # {} /\ stored' = stored \ gone
  /\ UNCHANGED <<caseRow, docVars, upload, leases, page, held>>

----------------------------------------------------------------------------

UploadStep(u) ==
  \/ \E k \in Keys, size \in Sizes, expected \in 0 .. revision : BeginUpload(u, k, size, expected)
  \/ Validate(u) \/ FinishUpload(u) \/ FinishFails(u)

Next ==
  \/ Ensure
  \/ \E u \in Requests : Admit(u) \/ UploadStep(u) \/ Disconnect(u)
  \/ Crash
  \/ \E keys \in SUBSET Keys : RecoverStaleUploads(keys)
  \/ Claim \/ ViewCase \/ ViewEvidence \/ Review
  \/ ReadAccepted \/ Transition \/ Close
  \/ \E stale, keys \in SUBSET Keys, expired \in BOOLEAN :
       Purge(stale, keys, expired) \/ PurgeAborts(stale, keys, expired)

Spec == Init /\ [][Next]_vars

\* A request that was admitted is handled, or times out; recovery runs every
\* minute and reaches each photo that stays PROCESSING.
FairSpec ==
  /\ Spec
  /\ \A u \in Requests : WF_vars(UploadStep(u) \/ Disconnect(u))
  /\ \A k \in Keys : WF_vars(\E keys \in SUBSET Keys : k \in keys /\ RecoverStaleUploads(keys))

----------------------------------------------------------------------------
(* Properties *)

\* Uploads reserve by the size sent and finish by the size normalized, others
\* beside them: the current set never outgrows its size.
SetWithinLimit == SetBytes(Active) <= MaxSetBytes

\* Decoding is bounded though clients disconnect: a handler at work holds one
\* of the leases.
DecodersBounded ==
  Cardinality({u \in Requests : upload[u].at \in Working}) <= MaxUploads

\* What a reviewer accepts is what the page had shown: no photo that was added,
\* finished or dropped in between is accepted unseen.
AcceptedWasShown ==
  [][assessment' = "ACCEPTED" /\ assessment # "ACCEPTED" => manifest' = page.photos]_vars

\* The accepted set is frozen: late results, recovery and retention leave the
\* evidence a workflow holds as it read it, until the record is retired.
HeldStaysTrue ==
  held.revision > 0 /\ ~retired =>
    /\ assessment = "ACCEPTED" /\ revision = held.revision
    /\ Ready = held.photos /\ manifest = held.photos

\* While its case is open every READY photo has its file; once a record is
\* retired no file of it is left.
FilesFollowRecord ==
  /\ caseRow.status # "CLOSED" => {k \in Attachments : photo[k].status = "READY"} \subseteq stored
  /\ retired => stored = {}

\* Whatever becomes of its handler, no photo stays PROCESSING and every lease of
\* the upload route is returned (releaseUpload, recoverStaleUploads).
UploadsSettle ==
  /\ \A k \in Keys : photo[k].status = "PROCESSING" ~> photo[k].status # "PROCESSING"
  /\ \A u \in Requests : u \in leases ~> u \notin leases

=============================================================================

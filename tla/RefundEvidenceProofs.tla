------------------------ MODULE RefundEvidenceProofs ------------------------
(***************************************************************************)
(* The photo evidence, for any uploads, sizes and limits: decoding is      *)
(* bounded by the leases, files follow the record, a reviewer accepts what *)
(* the page showed, accepted evidence stays what the workflow read, and    *)
(* the current set stays within its size.                                  *)
(***************************************************************************)
EXTENDS RefundEvidence, FiniteSums, FiniteSetTheorems, TLAPS

----------------------------------------------------------------------------
(* The inductive invariant.                                                *)

\* A request past its admission has a lease, and leases are counted.
LeaseInv ==
  /\ IsFiniteSet(leases) /\ Cardinality(leases) <= MaxUploads
  /\ \A u \in Requests : upload[u].at # "NONE" => u \in leases

\* A collection that was not opened is not closed, so a closed one stays closed.
CaseInv == caseRow.type = "NONE" => caseRow.status = "OPEN"

\* A photo that is worked on is in the current set: no review passes over it, and
\* an accepted set has none.
FrozenInv ==
  /\ \A k \in Keys : photo[k].status = "PROCESSING" => ~photo[k].superseded
  /\ assessment = "ACCEPTED" => \A k \in Keys : photo[k].status # "PROCESSING"
  /\ assessment = "ACCEPTED" /\ ~retired => manifest = Ready
  /\ held.revision > 0 /\ ~retired =>
       assessment = "ACCEPTED" /\ revision = held.revision /\ manifest = held.photos

\* The revision tells a page whether the set is the one it shows.
PageInv ==
  /\ page.revision <= revision
  /\ page.revision > 0 /\ page.revision = revision =>
       page.photos = IF retired THEN {} ELSE Ready

\* A file belongs to an attachment that was not purged, and so does the work of a
\* handler; retirement finds no handler at work and leaves no file.
FileInv ==
  /\ \A u \in Requests : upload[u].at \in Working =>
       /\ upload[u].key \in Attachments /\ ~photo[upload[u].key].purged
       /\ upload[u].at = "FINISH" => upload[u].key \in stored
  /\ stored \subseteq {k \in Attachments : ~photo[k].purged}
  /\ retired => \A u \in Requests : upload[u].at \notin Working

IInv == TypeOK /\ LeaseInv /\ CaseInv /\ FrozenInv /\ PageInv /\ FileInv /\ FilesFollowRecord

----------------------------------------------------------------------------
(* Type correctness.                                                       *)

\* A collection starts closed to uploads, empty and unread.
LEMMA TypeInit == Init => TypeOK
<1> SUFFICES ASSUME Init PROVE TypeOK
  OBVIOUS
<1>1. photo \in [Keys -> Photo]
  BY DEF Init, Photo, TechnicalStatus
<1>2. upload \in [Requests -> Upload]
  BY DEF Init, Upload
<1>3. caseRow \in [type : CaseTypes, status : {"OPEN", "CLAIMED", "CLOSED"}, version : Nat]
  BY DEF Init, CaseTypes
<1>4. /\ page \in [version : Nat, revision : Nat, photos : SUBSET Keys]
      /\ held \in [revision : Nat, photos : SUBSET Keys]
  BY DEF Init, NoEvidence
<1> QED
  BY <1>1, <1>2, <1>3, <1>4 DEF Init, TypeOK, Assessments

\* A request at work carries a photo.
LEMMA WorkingUpload ==
  ASSUME TypeOK, NEW u \in Requests, upload[u].at \in Working
  PROVE  upload[u] \in [at : Working, key : Keys, size : Nat]
<1>1. upload[u] \in Upload
  BY DEF TypeOK
<1>2. upload[u] # Idle /\ upload[u] # Leased
  BY DEF Idle, Leased, Working
<1> QED
  BY <1>1, <1>2 DEF Upload

\* Saving a document counts the case version up.
LEMMA SaveFields ==
  ASSUME TypeOK, Save
  PROVE  /\ caseRow' \in [type : CaseTypes, status : {"OPEN", "CLAIMED", "CLOSED"}, version : Nat]
         /\ caseRow'.type = caseRow.type /\ caseRow'.status = caseRow.status
         /\ caseRow'.version = caseRow.version + 1
BY DEF TypeOK, Save

\* Claiming and closing change the status of the case.
LEMMA ClaimFields ==
  ASSUME TypeOK, Claim
  PROVE  /\ caseRow' \in [type : CaseTypes, status : {"OPEN", "CLAIMED", "CLOSED"}, version : Nat]
         /\ caseRow'.type = caseRow.type /\ caseRow'.status = "CLAIMED"
<1>1. caseRow \in [type : CaseTypes, status : {"OPEN", "CLAIMED", "CLOSED"}, version : Nat]
  BY DEF TypeOK
<1>2. caseRow' = [caseRow EXCEPT !.status = "CLAIMED", !.version = caseRow.version + 1]
  BY DEF Claim
<1>3. caseRow' = [type |-> caseRow.type, status |-> "CLAIMED", version |-> caseRow.version + 1]
  BY <1>1, <1>2
<1>4. caseRow.type \in CaseTypes /\ caseRow.version + 1 \in Nat
  BY <1>1
<1> QED
  BY <1>3, <1>4

\* Closing is final.
LEMMA CloseFields ==
  ASSUME TypeOK, Close
  PROVE  /\ caseRow' \in [type : CaseTypes, status : {"OPEN", "CLAIMED", "CLOSED"}, version : Nat]
         /\ caseRow'.type = caseRow.type /\ caseRow'.status = "CLOSED"
<1>1. caseRow \in [type : CaseTypes, status : {"OPEN", "CLAIMED", "CLOSED"}, version : Nat]
  BY DEF TypeOK
<1>2. caseRow' = [caseRow EXCEPT !.status = "CLOSED", !.version = caseRow.version + 1]
  BY DEF Close
<1>3. caseRow' = [type |-> caseRow.type, status |-> "CLOSED", version |-> caseRow.version + 1]
  BY <1>1, <1>2
<1>4. caseRow.type \in CaseTypes /\ caseRow.version + 1 \in Nat
  BY <1>1
<1> QED
  BY <1>3, <1>4

\* An answered request is idle and gives its lease back.
LEMMA AnswerType ==
  ASSUME TypeOK, NEW u \in Requests, Answer(u)
  PROVE  upload' \in [Requests -> Upload] /\ leases' \in SUBSET Requests
BY DEF TypeOK, Answer, Upload

\* A change of status is one of the photos named, and of nothing else in them.
LEMMA SetStatusFields ==
  ASSUME TypeOK, NEW keys \in SUBSET Keys, NEW status \in TechnicalStatus, SetStatus(keys, status)
  PROVE  /\ photo' \in [Keys -> Photo]
         /\ \A k \in Keys : /\ photo'[k].superseded = photo[k].superseded
                            /\ photo'[k].purged = photo[k].purged
                            /\ photo'[k].size = photo[k].size
                            /\ photo'[k].status = IF k \in keys THEN status ELSE photo[k].status
<1>1. ASSUME NEW k \in Keys
      PROVE  /\ photo'[k] \in Photo
             /\ photo'[k].superseded = photo[k].superseded
             /\ photo'[k].purged = photo[k].purged
             /\ photo'[k].size = photo[k].size
             /\ photo'[k].status = IF k \in keys THEN status ELSE photo[k].status
  <2>1. photo[k] \in Photo
    BY DEF TypeOK
  <2>2. photo'[k] = IF k \in keys THEN [photo[k] EXCEPT !.status = status] ELSE photo[k]
    BY DEF SetStatus
  <2> QED
    BY <2>1, <2>2 DEF Photo
<1>2. photo' = [k \in Keys |-> photo'[k]]
  BY DEF SetStatus
<1> QED
  BY <1>1, <1>2

\* A settled upload leaves its photo READY with the normalized size, or REJECTED;
\* it was PROCESSING, and no other photo changes.
LEMMA SettleFields ==
  ASSUME TypeOK, NEW u \in Requests, upload[u].at \in Working, Settle(u, upload[u].key)
  PROVE  /\ photo' \in [Keys -> Photo]
         /\ \A k \in Keys : /\ photo'[k].superseded = photo[k].superseded
                            /\ photo'[k].purged = photo[k].purged
                            /\ k # upload[u].key => photo'[k] = photo[k]
         /\ \/ /\ photo'[upload[u].key].status = "READY" /\ Accepts(u)
               /\ photo'[upload[u].key].size = upload[u].size
            \/ photo'[upload[u].key].status = "REJECTED"
<1>0. upload[u].key \in Keys /\ upload[u].size \in Nat
  BY WorkingUpload
<1>1. CASE Accepts(u) /\ photo' = [photo EXCEPT ![upload[u].key].status = "READY",
                                             ![upload[u].key].size = upload[u].size]
  BY <1>0, <1>1 DEF TypeOK, Photo, TechnicalStatus
<1>2. CASE ~Accepts(u) /\ SetStatus({upload[u].key}, "REJECTED")
  <2>1. PICK j \in Keys : j = upload[u].key
    BY <1>0
  <2>2. SetStatus({j}, "REJECTED") /\ "REJECTED" \in TechnicalStatus
    BY <1>2, <2>1 DEF TechnicalStatus
  <2>3. \A k \in Keys : k # j => photo'[k] = photo[k]
    BY <2>2 DEF SetStatus
  <2> QED
    BY <2>1, <2>2, <2>3, SetStatusFields
<1> QED
  BY <1>1, <1>2 DEF Settle

\* Asking for more supersedes the set and changes nothing else in a photo.
LEMMA RequestMoreFields ==
  ASSUME TypeOK, RequestMore
  PROVE  /\ photo' \in [Keys -> Photo]
         /\ \A k \in Keys : /\ photo'[k].superseded = (photo[k].superseded \/ k \in Available)
                            /\ photo'[k].purged = photo[k].purged
                            /\ photo'[k].status = photo[k].status
                            /\ photo'[k].size = photo[k].size
<1>1. ASSUME NEW k \in Keys
      PROVE  /\ photo'[k] \in Photo
             /\ photo'[k].superseded = (photo[k].superseded \/ k \in Available)
             /\ photo'[k].purged = photo[k].purged
             /\ photo'[k].status = photo[k].status
             /\ photo'[k].size = photo[k].size
  <2>1. photo[k] \in Photo
    BY DEF TypeOK
  <2>2. photo'[k] = [photo[k] EXCEPT !.superseded = photo[k].superseded \/ k \in Available]
    BY DEF RequestMore
  <2> QED
    BY <2>1, <2>2 DEF Photo
<1>2. photo' = [k \in Keys |-> photo'[k]]
  BY DEF RequestMore
<1> QED
  BY <1>1, <1>2

\* A retention run rejects the stale photos and marks the deleted ones.
LEMMA PurgeFields ==
  ASSUME TypeOK, NEW stale \in SUBSET Keys, NEW keys \in SUBSET Keys, NEW expired \in BOOLEAN,
         Purge(stale, keys, expired)
  PROVE  /\ photo' \in [Keys -> Photo]
         /\ \A k \in Keys : /\ photo'[k].superseded = photo[k].superseded
                            /\ photo'[k].purged = (photo[k].purged \/ k \in keys)
                            /\ photo'[k].status = IF k \in stale THEN "REJECTED" ELSE photo[k].status
                            /\ photo'[k].size = photo[k].size
<1>1. ASSUME NEW k \in Keys
      PROVE  /\ photo'[k] \in Photo
             /\ photo'[k].superseded = photo[k].superseded
             /\ photo'[k].purged = (photo[k].purged \/ k \in keys)
             /\ photo'[k].status = IF k \in stale THEN "REJECTED" ELSE photo[k].status
             /\ photo'[k].size = photo[k].size
  <2>1. photo[k] \in Photo
    BY DEF TypeOK
  <2>2. photo'[k] = [photo[k] EXCEPT !.status = IF k \in stale THEN "REJECTED" ELSE photo[k].status,
                                     !.purged = photo[k].purged \/ k \in keys]
    BY DEF Purge
  <2> QED
    BY <2>1, <2>2 DEF Photo, TechnicalStatus
<1>2. photo' = [k \in Keys |-> photo'[k]]
  BY DEF Purge
<1> QED
  BY <1>1, <1>2

\* Every handler keeps the types.
LEMMA TypeStep ==
  ASSUME TypeOK, [Next]_vars
  PROVE  TypeOK'
<1> USE DEF docVars
<1>Ensure. CASE Ensure
  BY <1>Ensure DEF TypeOK, Ensure, CaseTypes
<1>Admit. ASSUME NEW u \in Requests, Admit(u) PROVE TypeOK'
  BY <1>Admit DEF TypeOK, Admit, Upload
<1>Disconnect. ASSUME NEW u \in Requests, Disconnect(u) PROVE TypeOK'
  BY <1>Disconnect DEF TypeOK, Disconnect, Upload
<1>BeginUpload. ASSUME NEW u \in Requests, NEW k \in Keys, NEW size \in Sizes,
                    NEW expected \in 0 .. revision, BeginUpload(u, k, size, expected)
             PROVE  TypeOK'
  <2>1. size \in Nat
    BY SizesAssumption
  <2>2. CASE MayUpload(k, size, expected) /\ Reserve(u, k, size)
    <3>1. photo' \in [Keys -> Photo]
      BY <2>1, <2>2 DEF Reserve, TypeOK, Photo, TechnicalStatus
    <3>2. upload' \in [Requests -> Upload]
      BY <2>1, <2>2 DEF Reserve, TypeOK, Upload, Working
    <3>3. caseRow' \in [type : CaseTypes, status : {"OPEN", "CLAIMED", "CLOSED"}, version : Nat]
      BY <2>2, SaveFields DEF Reserve
    <3> QED
      BY <1>BeginUpload, <2>2, <3>1, <3>2, <3>3 DEF BeginUpload, Reserve, Judge, TypeOK, Assessments
  <2>3. CASE Answer(u) /\ UNCHANGED <<caseRow, docVars>>
    BY <1>BeginUpload, <2>3, AnswerType DEF BeginUpload, TypeOK
  <2> QED
    BY <1>BeginUpload, <2>2, <2>3 DEF BeginUpload
<1>Validate. ASSUME NEW u \in Requests, Validate(u) PROVE TypeOK'
  <2>1. upload[u].at = "VALIDATE"
    BY <1>Validate DEF Validate
  <2>2. upload[u] \in [at : Working, key : Keys, size : Nat]
    BY <2>1, WorkingUpload DEF Working
  <2>3. CASE \E size \in Sizes : upload' = [upload EXCEPT ![u].at = "FINISH", ![u].size = size]
    <3>1. PICK size \in Sizes : upload' = [upload EXCEPT ![u].at = "FINISH", ![u].size = size]
      BY <2>3
    <3>2. size \in Nat
      BY SizesAssumption
    <3>3. [upload[u] EXCEPT !.at = "FINISH", !.size = size] \in [at : Working, key : Keys, size : Nat]
      BY <2>2, <3>2 DEF Working
    <3>4. upload' \in [Requests -> Upload]
      BY <3>1, <3>3 DEF TypeOK, Upload
    <3> QED
      BY <1>Validate, <2>2, <3>4 DEF Validate, TypeOK
  <2>4. CASE upload' = [upload EXCEPT ![u].at = "REJECT"]
    <3>1. [upload[u] EXCEPT !.at = "REJECT"] \in [at : Working, key : Keys, size : Nat]
      BY <2>2 DEF Working
    <3>2. upload' \in [Requests -> Upload]
      BY <2>4, <3>1 DEF TypeOK, Upload
    <3> QED
      BY <1>Validate, <2>2, <3>2 DEF Validate, TypeOK
  <2> QED
    BY <1>Validate, <2>3, <2>4 DEF Validate
<1>FinishUpload. ASSUME NEW u \in Requests, FinishUpload(u) PROVE TypeOK'
  <2>1. upload[u].at \in Working
    BY <1>FinishUpload DEF FinishUpload, Working
  <2>2. CASE Settle(u, upload[u].key)
    <3>1. photo' \in [Keys -> Photo]
      BY <2>1, <2>2, SettleFields
    <3>2. caseRow' \in [type : CaseTypes, status : {"OPEN", "CLAIMED", "CLOSED"}, version : Nat]
      BY <2>2, SaveFields DEF Settle
    <3>3. upload' \in [Requests -> Upload] /\ leases' \in SUBSET Requests
      BY <1>FinishUpload, AnswerType DEF FinishUpload
    <3>4. revision' \in Nat
      BY <2>2 DEF Settle, TypeOK
    <3> QED
      BY <1>FinishUpload, <3>1, <3>2, <3>3, <3>4 DEF FinishUpload, TypeOK
  <2>3. CASE UNCHANGED <<photo, revision, caseRow>>
    BY <1>FinishUpload, <2>3, AnswerType DEF FinishUpload, TypeOK
  <2> QED
    BY <1>FinishUpload, <2>2, <2>3 DEF FinishUpload
<1>FinishFails. ASSUME NEW u \in Requests, FinishFails(u) PROVE TypeOK'
  BY <1>FinishFails, AnswerType DEF FinishFails, TypeOK
<1>Crash. CASE Crash
  BY <1>Crash DEF TypeOK, Crash, Upload
<1>RecoverStaleUploads. ASSUME NEW keys \in SUBSET Keys, RecoverStaleUploads(keys) PROVE TypeOK'
  <2>1. photo' \in [Keys -> Photo]
    BY <1>RecoverStaleUploads, SetStatusFields DEF RecoverStaleUploads, TechnicalStatus
  <2>2. caseRow' \in [type : CaseTypes, status : {"OPEN", "CLAIMED", "CLOSED"}, version : Nat]
    BY <1>RecoverStaleUploads, SaveFields DEF RecoverStaleUploads
  <2> QED
    BY <1>RecoverStaleUploads, <2>1, <2>2 DEF RecoverStaleUploads, TypeOK
<1>Claim. CASE Claim
  <2>1. caseRow' \in [type : CaseTypes, status : {"OPEN", "CLAIMED", "CLOSED"}, version : Nat]
    BY <1>Claim, ClaimFields
  <2> QED
    BY <1>Claim, <2>1 DEF Claim, TypeOK
<1>ViewCase. CASE ViewCase
  BY <1>ViewCase DEF TypeOK, ViewCase
<1>ViewEvidence. CASE ViewEvidence
  <2>1. (IF retired THEN {} ELSE Ready) \in SUBSET Keys
    BY DEF Ready, Available, Attachments
  <2> QED
    BY <1>ViewEvidence, <2>1 DEF ViewEvidence, TypeOK
<1>Review. CASE Review
  <2>1. caseRow' \in [type : CaseTypes, status : {"OPEN", "CLAIMED", "CLOSED"}, version : Nat]
    BY <1>Review, SaveFields DEF Review
  <2>2. CASE Accept
    <3>1. manifest' \in SUBSET Keys /\ assessment' \in Assessments
      BY <2>2 DEF Accept, Judge, Ready, Available, Attachments, Assessments
    <3> QED
      BY <1>Review, <2>1, <2>2, <3>1 DEF Review, Accept, TypeOK
  <2>3. CASE RequestMore
    <3>1. photo' \in [Keys -> Photo]
      BY <2>3, RequestMoreFields
    <3> QED
      BY <1>Review, <2>1, <2>3, <3>1 DEF Review, RequestMore, Judge, TypeOK, Assessments
  <2> QED
    BY <1>Review, <2>2, <2>3 DEF Review
<1>ReadAccepted. CASE ReadAccepted
  BY <1>ReadAccepted DEF TypeOK, ReadAccepted
<1>Transition. CASE Transition
  BY <1>Transition DEF TypeOK, Transition, CaseTypes
<1>Close. CASE Close
  <2>1. caseRow' \in [type : CaseTypes, status : {"OPEN", "CLAIMED", "CLOSED"}, version : Nat]
    BY <1>Close, CloseFields
  <2> QED
    BY <1>Close, <2>1 DEF Close, TypeOK
<1>Purge. ASSUME NEW stale \in SUBSET Keys, NEW keys \in SUBSET Keys, NEW expired \in BOOLEAN,
          Purge(stale, keys, expired)
   PROVE  TypeOK'
  <2>1. photo' \in [Keys -> Photo]
    BY <1>Purge, PurgeFields
  <2>2. caseRow' \in [type : CaseTypes, status : {"OPEN", "CLAIMED", "CLOSED"}, version : Nat]
    BY <1>Purge, SaveFields DEF Purge
  <2>3. retired' \in BOOLEAN
    BY <1>Purge DEF Purge, TypeOK
  <2>4. revision' = revision + 1 \/ revision' = revision
    BY <1>Purge DEF Purge
  <2>5. revision' \in Nat
    BY <2>4 DEF TypeOK
  <2> QED
    BY <1>Purge, <2>1, <2>2, <2>3, <2>5 DEF Purge, TypeOK
<1>PurgeAborts. ASSUME NEW stale \in SUBSET Keys, NEW keys \in SUBSET Keys, NEW expired \in BOOLEAN,
          PurgeAborts(stale, keys, expired)
   PROVE  TypeOK'
  BY <1>PurgeAborts DEF TypeOK, PurgeAborts
<1>stutter. CASE UNCHANGED vars
  BY <1>stutter DEF vars, TypeOK
<1> QED
  BY <1>Ensure, <1>Admit, <1>Disconnect, <1>BeginUpload, <1>Validate, <1>FinishUpload, <1>FinishFails,
     <1>Crash, <1>RecoverStaleUploads, <1>Claim, <1>ViewCase, <1>ViewEvidence, <1>Review,
     <1>ReadAccepted, <1>Transition, <1>Close, <1>Purge, <1>PurgeAborts, <1>stutter
     DEF Next, UploadStep

----------------------------------------------------------------------------
(* Leases.                                                                 *)

\* An admission takes a free lease; every other step keeps or returns them.
LEMMA FewerLeases ==
  ASSUME LeaseInv, NEW S, S \subseteq leases
  PROVE  IsFiniteSet(S) /\ Cardinality(S) <= MaxUploads
<1>1. IsFiniteSet(leases) /\ Cardinality(leases) <= MaxUploads
  BY DEF LeaseInv
<1>2. IsFiniteSet(S) /\ Cardinality(S) <= Cardinality(leases)
  BY <1>1, FS_Subset
<1>3. Cardinality(S) \in Nat /\ Cardinality(leases) \in Nat
  BY <1>1, <1>2, FS_CardinalityType
<1> QED
  BY <1>1, <1>2, <1>3, LimitsAssumption

\* A handler at work keeps its lease: releaseUpload and the finally block return it once.
LEMMA LeaseStep ==
  ASSUME TypeOK, LeaseInv, [Next]_vars
  PROVE  LeaseInv'
<1> USE DEF docVars
<1>Ensure. CASE Ensure
  BY <1>Ensure DEF Ensure, LeaseInv
<1>Admit. ASSUME NEW u \in Requests, Admit(u) PROVE LeaseInv'
  <2>1. IsFiniteSet(leases) /\ Cardinality(leases) \in Nat /\ Cardinality(leases) < MaxUploads
    BY <1>Admit, FS_CardinalityType DEF Admit, LeaseInv
  <2>2. leases' = leases \cup {u}
    BY <1>Admit DEF Admit
  <2>3. IsFiniteSet(leases \cup {u}) /\ Cardinality(leases \cup {u}) <= Cardinality(leases) + 1
    BY <2>1, FS_AddElement
  <2>4. Cardinality(leases \cup {u}) \in Nat
    BY <2>3, FS_CardinalityType
  <2>5. Cardinality(leases') <= MaxUploads
    BY <2>1, <2>2, <2>3, <2>4, LimitsAssumption
  <2>6. \A v \in Requests : upload'[v].at # "NONE" => v \in leases'
    BY <1>Admit DEF Admit, LeaseInv, TypeOK
  <2> QED
    BY <2>2, <2>3, <2>5, <2>6 DEF LeaseInv
<1>Disconnect. ASSUME NEW u \in Requests, Disconnect(u) PROVE LeaseInv'
  <2>1. leases' \subseteq leases /\ (\A v \in Requests : upload'[v].at # "NONE" => v \in leases')
    BY <1>Disconnect DEF Disconnect, LeaseInv, TypeOK, Answer, Idle
  <2>2. PICK S : S = leases'
    OBVIOUS
  <2> QED
    BY <2>1, <2>2, FewerLeases DEF LeaseInv
<1>BeginUpload. ASSUME NEW u \in Requests, NEW k \in Keys, NEW size \in Sizes,
                    NEW expected \in 0 .. revision, BeginUpload(u, k, size, expected)
             PROVE  LeaseInv'
  <2>1. leases' \subseteq leases /\ (\A v \in Requests : upload'[v].at # "NONE" => v \in leases')
    BY <1>BeginUpload DEF BeginUpload, LeaseInv, TypeOK, Reserve, Answer, Idle
  <2>2. PICK S : S = leases'
    OBVIOUS
  <2> QED
    BY <2>1, <2>2, FewerLeases DEF LeaseInv
<1>Validate. ASSUME NEW u \in Requests, Validate(u) PROVE LeaseInv'
  <2>1. leases' \subseteq leases /\ (\A v \in Requests : upload'[v].at # "NONE" => v \in leases')
    BY <1>Validate DEF Validate, LeaseInv, TypeOK, Answer, Idle
  <2>2. PICK S : S = leases'
    OBVIOUS
  <2> QED
    BY <2>1, <2>2, FewerLeases DEF LeaseInv
<1>FinishUpload. ASSUME NEW u \in Requests, FinishUpload(u) PROVE LeaseInv'
  <2>1. leases' \subseteq leases /\ (\A v \in Requests : upload'[v].at # "NONE" => v \in leases')
    BY <1>FinishUpload DEF FinishUpload, LeaseInv, TypeOK, Answer, Idle
  <2>2. PICK S : S = leases'
    OBVIOUS
  <2> QED
    BY <2>1, <2>2, FewerLeases DEF LeaseInv
<1>FinishFails. ASSUME NEW u \in Requests, FinishFails(u) PROVE LeaseInv'
  <2>1. leases' \subseteq leases /\ (\A v \in Requests : upload'[v].at # "NONE" => v \in leases')
    BY <1>FinishFails DEF FinishFails, LeaseInv, TypeOK, Answer, Idle
  <2>2. PICK S : S = leases'
    OBVIOUS
  <2> QED
    BY <2>1, <2>2, FewerLeases DEF LeaseInv
<1>Crash. CASE Crash
  <2>1. leases' \subseteq leases /\ (\A v \in Requests : upload'[v].at # "NONE" => v \in leases')
    BY <1>Crash DEF Crash, LeaseInv, TypeOK, Answer, Idle
  <2>2. PICK S : S = leases'
    OBVIOUS
  <2> QED
    BY <2>1, <2>2, FewerLeases DEF LeaseInv
<1>RecoverStaleUploads. ASSUME NEW keys \in SUBSET Keys, RecoverStaleUploads(keys) PROVE LeaseInv'
  BY <1>RecoverStaleUploads DEF RecoverStaleUploads, LeaseInv
<1>Claim. CASE Claim
  BY <1>Claim DEF Claim, LeaseInv
<1>ViewCase. CASE ViewCase
  BY <1>ViewCase DEF ViewCase, LeaseInv
<1>ViewEvidence. CASE ViewEvidence
  BY <1>ViewEvidence DEF ViewEvidence, LeaseInv
<1>Review. CASE Review
  BY <1>Review DEF Review, LeaseInv
<1>ReadAccepted. CASE ReadAccepted
  BY <1>ReadAccepted DEF ReadAccepted, LeaseInv
<1>Transition. CASE Transition
  BY <1>Transition DEF Transition, LeaseInv
<1>Close. CASE Close
  BY <1>Close DEF Close, LeaseInv
<1>Purge. ASSUME NEW stale \in SUBSET Keys, NEW keys \in SUBSET Keys, NEW expired \in BOOLEAN,
          Purge(stale, keys, expired)
   PROVE  LeaseInv'
  BY <1>Purge DEF Purge, LeaseInv
<1>PurgeAborts. ASSUME NEW stale \in SUBSET Keys, NEW keys \in SUBSET Keys, NEW expired \in BOOLEAN,
          PurgeAborts(stale, keys, expired)
   PROVE  LeaseInv'
  BY <1>PurgeAborts DEF PurgeAborts, LeaseInv
<1>stutter. CASE UNCHANGED vars
  BY <1>stutter DEF vars, LeaseInv
<1> QED
  BY <1>Ensure, <1>Admit, <1>Disconnect, <1>BeginUpload, <1>Validate, <1>FinishUpload, <1>FinishFails,
     <1>Crash, <1>RecoverStaleUploads, <1>Claim, <1>ViewCase, <1>ViewEvidence, <1>Review,
     <1>ReadAccepted, <1>Transition, <1>Close, <1>Purge, <1>PurgeAborts, <1>stutter
     DEF Next, UploadStep

\* Nothing but the workflow's ensure opens the collection.
LEMMA CaseStep ==
  ASSUME TypeOK, CaseInv, [Next]_vars
  PROVE  CaseInv'
<1> USE DEF docVars
<1>Ensure. CASE Ensure
  BY <1>Ensure DEF CaseInv, Ensure
<1>Admit. ASSUME NEW u \in Requests, Admit(u) PROVE CaseInv'
  BY <1>Admit DEF CaseInv, Admit
<1>Disconnect. ASSUME NEW u \in Requests, Disconnect(u) PROVE CaseInv'
  BY <1>Disconnect DEF CaseInv, Disconnect
<1>BeginUpload. ASSUME NEW u \in Requests, NEW k \in Keys, NEW size \in Sizes,
                    NEW expected \in 0 .. revision, BeginUpload(u, k, size, expected)
             PROVE  CaseInv'
  BY <1>BeginUpload, SaveFields DEF CaseInv, BeginUpload, Reserve
<1>Validate. ASSUME NEW u \in Requests, Validate(u) PROVE CaseInv'
  BY <1>Validate DEF CaseInv, Validate
<1>FinishUpload. ASSUME NEW u \in Requests, FinishUpload(u) PROVE CaseInv'
  BY <1>FinishUpload, SaveFields DEF CaseInv, FinishUpload, Settle
<1>FinishFails. ASSUME NEW u \in Requests, FinishFails(u) PROVE CaseInv'
  BY <1>FinishFails DEF CaseInv, FinishFails
<1>Crash. CASE Crash
  BY <1>Crash DEF CaseInv, Crash
<1>RecoverStaleUploads. ASSUME NEW keys \in SUBSET Keys, RecoverStaleUploads(keys) PROVE CaseInv'
  BY <1>RecoverStaleUploads, SaveFields DEF CaseInv, RecoverStaleUploads
<1>Claim. CASE Claim
  BY <1>Claim, ClaimFields DEF CaseInv, Claim
<1>ViewCase. CASE ViewCase
  BY <1>ViewCase DEF CaseInv, ViewCase
<1>ViewEvidence. CASE ViewEvidence
  BY <1>ViewEvidence DEF CaseInv, ViewEvidence
<1>Review. CASE Review
  BY <1>Review, SaveFields DEF CaseInv, Review
<1>ReadAccepted. CASE ReadAccepted
  BY <1>ReadAccepted DEF CaseInv, ReadAccepted
<1>Transition. CASE Transition
  BY <1>Transition DEF CaseInv, Transition
<1>Close. CASE Close
  BY <1>Close, CloseFields DEF CaseInv, Close
<1>Purge. ASSUME NEW stale \in SUBSET Keys, NEW keys \in SUBSET Keys, NEW expired \in BOOLEAN,
          Purge(stale, keys, expired)
   PROVE  CaseInv'
  BY <1>Purge, SaveFields DEF CaseInv, Purge
<1>PurgeAborts. ASSUME NEW stale \in SUBSET Keys, NEW keys \in SUBSET Keys, NEW expired \in BOOLEAN,
          PurgeAborts(stale, keys, expired)
   PROVE  CaseInv'
  BY <1>PurgeAborts DEF CaseInv, PurgeAborts
<1>stutter. CASE UNCHANGED vars
  BY <1>stutter DEF vars, CaseInv
<1> QED
  BY <1>Ensure, <1>Admit, <1>Disconnect, <1>BeginUpload, <1>Validate, <1>FinishUpload, <1>FinishFails,
     <1>Crash, <1>RecoverStaleUploads, <1>Claim, <1>ViewCase, <1>ViewEvidence, <1>Review,
     <1>ReadAccepted, <1>Transition, <1>Close, <1>Purge, <1>PurgeAborts, <1>stutter
     DEF Next, UploadStep

----------------------------------------------------------------------------
(* The accepted set.                                                       *)

\* The current set, photo by photo.
LEMMA ReadyIs ==
  /\ \A k : k \in Ready <=> /\ k \in Keys /\ photo[k].status = "READY"
                            /\ ~photo[k].purged /\ ~photo[k].superseded
  /\ \A k : k \in Ready' <=> /\ k \in Keys /\ photo'[k].status = "READY"
                             /\ ~photo'[k].purged /\ ~photo'[k].superseded
BY DEF Ready, Available, Attachments

\* A retention run that retires nothing deletes no photo of the current set.
LEMMA PurgeSpares ==
  ASSUME TypeOK, NEW stale \in SUBSET Keys, NEW keys \in SUBSET Keys, NEW expired \in BOOLEAN,
         Purge(stale, keys, expired), ~expired
  PROVE  Ready' = Ready
<1>1. \A k \in stale \cup keys : photo[k].status # "READY"
  BY DEF Purge, Deletable, Processing, Attachments
<1>2. \A k \in Keys : /\ photo'[k].superseded = photo[k].superseded
                      /\ photo'[k].purged = (photo[k].purged \/ k \in keys)
                      /\ photo'[k].status = IF k \in stale THEN "REJECTED" ELSE photo[k].status
  BY PurgeFields
<1>3. ASSUME NEW k PROVE k \in Ready' <=> k \in Ready
  <2>1. CASE k \in Keys /\ k \in stale \cup keys
    BY <1>1, <1>2, <2>1, ReadyIs
  <2>2. CASE k \in Keys /\ k \notin stale \cup keys
    BY <1>2, <2>2, ReadyIs
  <2> QED
    BY <2>1, <2>2, ReadyIs
<1> QED
  BY <1>3

\* Late results, recovery and retention find nothing to change in an accepted set.
LEMMA FrozenStep ==
  ASSUME TypeOK, FrozenInv, [Next]_vars
  PROVE  FrozenInv'
<1> USE DEF docVars
<1>Ensure. CASE Ensure
  BY <1>Ensure DEF Ensure, FrozenInv, Ready, Available, Attachments
<1>Admit. ASSUME NEW u \in Requests, Admit(u) PROVE FrozenInv'
  BY <1>Admit DEF Admit, FrozenInv, Ready, Available, Attachments
<1>Disconnect. ASSUME NEW u \in Requests, Disconnect(u) PROVE FrozenInv'
  BY <1>Disconnect DEF Disconnect, FrozenInv, Ready, Available, Attachments
<1>BeginUpload. ASSUME NEW u \in Requests, NEW k \in Keys, NEW size \in Sizes,
                    NEW expected \in 0 .. revision, BeginUpload(u, k, size, expected)
             PROVE  FrozenInv'
  <2>1. CASE MayUpload(k, size, expected) /\ Reserve(u, k, size)
    <3>1. /\ assessment # "ACCEPTED" /\ ~retired /\ assessment' = "UNREVIEWED"
          /\ retired' = retired /\ held' = held
      BY <1>BeginUpload, <2>1 DEF MayUpload, Reserve, Judge, BeginUpload
    <3>2. \A j \in Keys : photo'[j].status = "PROCESSING" => ~photo'[j].superseded
      BY <2>1 DEF Reserve, FrozenInv, TypeOK
    <3> QED
      BY <3>1, <3>2 DEF FrozenInv
  <2>2. CASE UNCHANGED <<caseRow, docVars>>
    BY <1>BeginUpload, <2>2 DEF BeginUpload, FrozenInv, Ready, Available, Attachments
  <2> QED
    BY <1>BeginUpload, <2>1, <2>2 DEF BeginUpload
<1>Validate. ASSUME NEW u \in Requests, Validate(u) PROVE FrozenInv'
  BY <1>Validate DEF Validate, FrozenInv, Ready, Available, Attachments
<1>FinishUpload. ASSUME NEW u \in Requests, FinishUpload(u) PROVE FrozenInv'
  <2>1. upload[u].at \in Working /\ UNCHANGED <<assessment, manifest, retired, held>>
    BY <1>FinishUpload DEF FinishUpload, Working
  <2>2. CASE photo[upload[u].key].status = "PROCESSING" /\ Settle(u, upload[u].key)
    <3>1. upload[u].key \in Keys
      BY <2>1, WorkingUpload
    <3>2. assessment # "ACCEPTED"
      BY <2>2, <3>1 DEF FrozenInv
    <3>3. \A j \in Keys : photo'[j].status = "PROCESSING" => ~photo'[j].superseded
      BY <2>1, <2>2, <3>1, SettleFields DEF FrozenInv
    <3> QED
      BY <2>1, <3>2, <3>3 DEF FrozenInv
  <2>3. CASE UNCHANGED <<photo, revision, caseRow>>
    BY <2>1, <2>3 DEF FrozenInv, Ready, Available, Attachments
  <2> QED
    BY <1>FinishUpload, <2>2, <2>3 DEF FinishUpload
<1>FinishFails. ASSUME NEW u \in Requests, FinishFails(u) PROVE FrozenInv'
  BY <1>FinishFails DEF FinishFails, FrozenInv, Ready, Available, Attachments
<1>Crash. CASE Crash
  BY <1>Crash DEF Crash, FrozenInv, Ready, Available, Attachments
<1>RecoverStaleUploads. ASSUME NEW keys \in SUBSET Keys, RecoverStaleUploads(keys) PROVE FrozenInv'
  <2>1. PICK k \in Keys : photo[k].status = "PROCESSING"
    BY <1>RecoverStaleUploads DEF RecoverStaleUploads, Processing, Attachments
  <2>2. assessment # "ACCEPTED" /\ UNCHANGED <<assessment, manifest, retired, held>>
    BY <1>RecoverStaleUploads, <2>1 DEF FrozenInv, RecoverStaleUploads
  <2>3. \A j \in Keys : photo'[j].status = "PROCESSING" => ~photo'[j].superseded
    BY <1>RecoverStaleUploads, SetStatusFields DEF RecoverStaleUploads, TechnicalStatus, FrozenInv
  <2> QED
    BY <2>2, <2>3 DEF FrozenInv
<1>Claim. CASE Claim
  BY <1>Claim DEF Claim, FrozenInv, Ready, Available, Attachments
<1>ViewCase. CASE ViewCase
  BY <1>ViewCase DEF ViewCase, FrozenInv, Ready, Available, Attachments
<1>ViewEvidence. CASE ViewEvidence
  BY <1>ViewEvidence DEF ViewEvidence, FrozenInv, Ready, Available, Attachments
<1>Review. CASE Review
  <2>1. \A k \in Keys : photo[k].status # "PROCESSING"
    BY <1>Review DEF Review, CanReviewEvidence, Processing, Attachments, FrozenInv
  <2>2. assessment # "ACCEPTED" /\ UNCHANGED <<retired, held>>
    BY <1>Review DEF Review, CanReviewEvidence
  <2>3. CASE Accept
    <3>1. assessment' = "ACCEPTED" /\ manifest' = Ready /\ photo' = photo
      BY <2>3 DEF Accept, Judge
    <3>2. Ready' = Ready
      BY <3>1 DEF Ready, Available, Attachments
    <3> QED
      BY <2>1, <2>2, <3>1, <3>2 DEF FrozenInv
  <2>4. CASE RequestMore
    <3>1. assessment' = "MORE_REQUIRED"
      BY <2>4 DEF RequestMore, Judge
    <3>2. \A k \in Keys : photo'[k].status # "PROCESSING"
      BY <2>1, <2>4, RequestMoreFields
    <3> QED
      BY <2>2, <3>1, <3>2 DEF FrozenInv
  <2> QED
    BY <1>Review, <2>3, <2>4 DEF Review
<1>ReadAccepted. CASE ReadAccepted
  <2>1. /\ assessment = "ACCEPTED" /\ ~retired /\ UNCHANGED <<assessment, manifest, retired, revision, photo>>
        /\ held' = [revision |-> revision, photos |-> manifest]
    BY <1>ReadAccepted DEF ReadAccepted, Accepted
  <2>2. held'.revision = revision /\ held'.photos = manifest /\ Ready' = Ready
    BY <2>1 DEF Ready, Available, Attachments
  <2> QED
    BY <2>1, <2>2 DEF FrozenInv
<1>Transition. CASE Transition
  BY <1>Transition DEF Transition, FrozenInv, Ready, Available, Attachments
<1>Close. CASE Close
  BY <1>Close DEF Close, FrozenInv, Ready, Available, Attachments
<1>Purge. ASSUME NEW stale \in SUBSET Keys, NEW keys \in SUBSET Keys, NEW expired \in BOOLEAN,
          Purge(stale, keys, expired)
   PROVE  FrozenInv'
  <2>1. UNCHANGED <<assessment, manifest, held>> /\ (~retired' => ~retired /\ ~expired)
    BY <1>Purge DEF Purge
  <2>2. \A k \in Keys : photo'[k].status = "PROCESSING" =>
                          photo[k].status = "PROCESSING" /\ photo'[k].superseded = photo[k].superseded
    BY <1>Purge, PurgeFields
  <2>3. assessment = "ACCEPTED" /\ ~retired' => revision' = revision
    BY <1>Purge DEF Purge
  <2>4. ~retired' => Ready' = Ready
    BY <1>Purge, <2>1, PurgeSpares
  <2> QED
    BY <2>1, <2>2, <2>3, <2>4 DEF FrozenInv
<1>PurgeAborts. ASSUME NEW stale \in SUBSET Keys, NEW keys \in SUBSET Keys, NEW expired \in BOOLEAN,
          PurgeAborts(stale, keys, expired)
   PROVE  FrozenInv'
  BY <1>PurgeAborts DEF PurgeAborts, FrozenInv, Ready, Available, Attachments
<1>stutter. CASE UNCHANGED vars
  BY <1>stutter DEF vars, FrozenInv, Ready, Available, Attachments
<1> QED
  BY <1>Ensure, <1>Admit, <1>Disconnect, <1>BeginUpload, <1>Validate, <1>FinishUpload, <1>FinishFails,
     <1>Crash, <1>RecoverStaleUploads, <1>Claim, <1>ViewCase, <1>ViewEvidence, <1>Review,
     <1>ReadAccepted, <1>Transition, <1>Close, <1>Purge, <1>PurgeAborts, <1>stutter
     DEF Next, UploadStep

----------------------------------------------------------------------------
(* The page.                                                               *)

\* Whatever changes the current set counts its revision up.
LEMMA PageStep ==
  ASSUME TypeOK, PageInv, [Next]_vars
  PROVE  PageInv'
<1> USE DEF docVars
<1>Ensure. CASE Ensure
  BY <1>Ensure DEF Ensure, PageInv, Ready, Available, Attachments
<1>Admit. ASSUME NEW u \in Requests, Admit(u) PROVE PageInv'
  BY <1>Admit DEF Admit, PageInv, Ready, Available, Attachments
<1>Disconnect. ASSUME NEW u \in Requests, Disconnect(u) PROVE PageInv'
  BY <1>Disconnect DEF Disconnect, PageInv, Ready, Available, Attachments
<1>BeginUpload. ASSUME NEW u \in Requests, NEW k \in Keys, NEW size \in Sizes,
                    NEW expected \in 0 .. revision, BeginUpload(u, k, size, expected)
             PROVE  PageInv'
  <2>1. CASE revision' = revision + 1 /\ page' = page
    BY <2>1 DEF PageInv, TypeOK
  <2>2. CASE UNCHANGED <<caseRow, docVars>>
    BY <1>BeginUpload, <2>2 DEF BeginUpload, PageInv, Ready, Available, Attachments
  <2> QED
    BY <1>BeginUpload, <2>1, <2>2 DEF BeginUpload, Reserve
<1>Validate. ASSUME NEW u \in Requests, Validate(u) PROVE PageInv'
  BY <1>Validate DEF Validate, PageInv, Ready, Available, Attachments
<1>FinishUpload. ASSUME NEW u \in Requests, FinishUpload(u) PROVE PageInv'
  <2>1. CASE revision' = revision + 1 /\ page' = page
    BY <2>1 DEF PageInv, TypeOK
  <2>2. CASE UNCHANGED <<photo, revision, caseRow>>
    BY <1>FinishUpload, <2>2 DEF FinishUpload, PageInv, Ready, Available, Attachments
  <2> QED
    BY <1>FinishUpload, <2>1, <2>2 DEF FinishUpload, Settle
<1>FinishFails. ASSUME NEW u \in Requests, FinishFails(u) PROVE PageInv'
  BY <1>FinishFails DEF FinishFails, PageInv, Ready, Available, Attachments
<1>Crash. CASE Crash
  BY <1>Crash DEF Crash, PageInv, Ready, Available, Attachments
<1>RecoverStaleUploads. ASSUME NEW keys \in SUBSET Keys, RecoverStaleUploads(keys) PROVE PageInv'
  BY <1>RecoverStaleUploads DEF RecoverStaleUploads, PageInv, TypeOK
<1>Claim. CASE Claim
  BY <1>Claim DEF Claim, PageInv, Ready, Available, Attachments
<1>ViewCase. CASE ViewCase
  <2>1. page'.revision = 0 /\ revision' = revision
    BY <1>ViewCase DEF ViewCase
  <2> QED
    BY <2>1 DEF PageInv, TypeOK
<1>ViewEvidence. CASE ViewEvidence
  <2>1. /\ page'.revision = revision /\ page'.photos = IF retired THEN {} ELSE Ready
        /\ UNCHANGED <<revision, retired, photo>>
    BY <1>ViewEvidence DEF ViewEvidence, TypeOK
  <2>2. Ready' = Ready
    BY <2>1 DEF Ready, Available, Attachments
  <2> QED
    BY <2>1, <2>2 DEF PageInv, TypeOK
<1>Review. CASE Review
  <2>1. CASE Accept
    BY <1>Review, <2>1 DEF Review, Accept, PageInv, Ready, Available, Attachments
  <2>2. CASE RequestMore
    BY <1>Review, <2>2 DEF Review, RequestMore, PageInv, TypeOK
  <2> QED
    BY <1>Review, <2>1, <2>2 DEF Review
<1>ReadAccepted. CASE ReadAccepted
  BY <1>ReadAccepted DEF ReadAccepted, PageInv, Ready, Available, Attachments
<1>Transition. CASE Transition
  BY <1>Transition DEF Transition, PageInv, Ready, Available, Attachments
<1>Close. CASE Close
  BY <1>Close DEF Close, PageInv, Ready, Available, Attachments
<1>Purge. ASSUME NEW stale \in SUBSET Keys, NEW keys \in SUBSET Keys, NEW expired \in BOOLEAN,
          Purge(stale, keys, expired)
   PROVE  PageInv'
  <2>1. CASE revision' = revision + 1 /\ page' = page
    BY <2>1 DEF PageInv, TypeOK
  <2>2. CASE revision' = revision /\ page' = page
    <3>1. ~retired' /\ ~retired /\ ~expired
      <4>1. revision + 1 # revision
        BY DEF TypeOK
      <4>2. ~retired'
        BY <1>Purge, <2>2, <4>1 DEF Purge
      <4> QED
        BY <1>Purge, <4>2 DEF Purge
    <3>2. Ready' = Ready
      BY <1>Purge, <3>1, PurgeSpares
    <3> QED
      BY <2>2, <3>1, <3>2 DEF PageInv
  <2> QED
    BY <1>Purge, <2>1, <2>2 DEF Purge
<1>PurgeAborts. ASSUME NEW stale \in SUBSET Keys, NEW keys \in SUBSET Keys, NEW expired \in BOOLEAN,
          PurgeAborts(stale, keys, expired)
   PROVE  PageInv'
  BY <1>PurgeAborts DEF PurgeAborts, PageInv, Ready, Available, Attachments
<1>stutter. CASE UNCHANGED vars
  BY <1>stutter DEF vars, PageInv, Ready, Available, Attachments
<1> QED
  BY <1>Ensure, <1>Admit, <1>Disconnect, <1>BeginUpload, <1>Validate, <1>FinishUpload, <1>FinishFails,
     <1>Crash, <1>RecoverStaleUploads, <1>Claim, <1>ViewCase, <1>ViewEvidence, <1>Review,
     <1>ReadAccepted, <1>Transition, <1>Close, <1>Purge, <1>PurgeAborts, <1>stutter
     DEF Next, UploadStep

----------------------------------------------------------------------------
(* Files.                                                                  *)

\* Files come with an attachment, and go only when no handler works on it.
LEMMA FileStep ==
  ASSUME TypeOK, FileInv, [Next]_vars
  PROVE  FileInv'
<1> USE DEF docVars
<1>Ensure. CASE Ensure
  BY <1>Ensure DEF Ensure, FileInv, Attachments
<1>Admit. ASSUME NEW u \in Requests, Admit(u) PROVE FileInv'
  <2>1. /\ \A v \in Requests : upload'[v].at \in Working => upload'[v] = upload[v]
        /\ UNCHANGED <<photo, stored, retired>>
    BY <1>Admit DEF Admit, Answer, Idle, Leased, Working, TypeOK
  <2> QED
    BY <2>1 DEF FileInv, Attachments
<1>Disconnect. ASSUME NEW u \in Requests, Disconnect(u) PROVE FileInv'
  <2>1. /\ \A v \in Requests : upload'[v].at \in Working => upload'[v] = upload[v]
        /\ UNCHANGED <<photo, stored, retired>>
    BY <1>Disconnect DEF Disconnect, Answer, Idle, Leased, Working, TypeOK
  <2> QED
    BY <2>1 DEF FileInv, Attachments
<1>BeginUpload. ASSUME NEW u \in Requests, NEW k \in Keys, NEW size \in Sizes,
                    NEW expected \in 0 .. revision, BeginUpload(u, k, size, expected)
             PROVE  FileInv'
  <2>1. CASE MayUpload(k, size, expected) /\ Reserve(u, k, size)
    <3>1. /\ photo'[k].status = "PROCESSING" /\ ~photo'[k].purged
          /\ \A j \in Keys : j # k => photo'[j] = photo[j]
      BY <2>1 DEF Reserve, TypeOK
    <3>2. /\ upload'[u].at = "VALIDATE" /\ upload'[u].key = k
          /\ \A v \in Requests : v # u => upload'[v] = upload[v]
      BY <2>1 DEF Reserve, TypeOK
    <3>3. stored' = stored /\ retired' = retired /\ ~retired /\ k \notin stored
      BY <1>BeginUpload, <2>1 DEF BeginUpload, Reserve, MayUpload, FileInv
    <3>4. \A j \in Attachments : j # k /\ j \in Attachments' /\ photo'[j] = photo[j]
      BY <2>1, <3>1 DEF MayUpload, Attachments
    <3>5. k \in Attachments'
      BY <3>1 DEF Attachments
    <3>6. ASSUME NEW v \in Requests, upload'[v].at \in Working
          PROVE  /\ upload'[v].key \in Attachments' /\ ~photo'[upload'[v].key].purged
                 /\ upload'[v].at = "FINISH" => upload'[v].key \in stored'
      <4>1. CASE v = u
        BY <3>1, <3>2, <3>5, <4>1
      <4>2. CASE v # u
        BY <3>2, <3>3, <3>4, <3>6, <4>2 DEF FileInv
      <4> QED
        BY <4>1, <4>2
    <3>7. \A j \in stored' : j \in Attachments' /\ ~photo'[j].purged
      BY <3>3, <3>4 DEF FileInv
    <3> QED
      BY <3>3, <3>6, <3>7 DEF FileInv
  <2>2. CASE Answer(u) /\ UNCHANGED <<caseRow, docVars>>
    <3>1. /\ \A v \in Requests : upload'[v].at \in Working => upload'[v] = upload[v]
          /\ UNCHANGED <<photo, stored, retired>>
      BY <1>BeginUpload, <2>2 DEF BeginUpload, Answer, Idle, Working, TypeOK
    <3> QED
      BY <3>1 DEF FileInv, Attachments
  <2> QED
    BY <1>BeginUpload, <2>1, <2>2 DEF BeginUpload
<1>Validate. ASSUME NEW u \in Requests, Validate(u) PROVE FileInv'
  <2>1. upload[u].at = "VALIDATE" /\ UNCHANGED <<photo, retired>>
    BY <1>Validate DEF Validate
  <2>2. upload[u] \in [at : Working, key : Keys, size : Nat]
    BY <2>1, WorkingUpload DEF Working
  <2>3. /\ upload'[u].key = upload[u].key
        /\ \A v \in Requests : v # u => upload'[v] = upload[v]
        /\ \/ upload'[u].at = "FINISH" /\ stored' = stored \cup {upload[u].key}
           \/ upload'[u].at = "REJECT" /\ stored' = stored
    BY <1>Validate, <2>2 DEF Validate, TypeOK
  <2>4. Attachments' = Attachments
    BY <2>1 DEF Attachments
  <2>5. upload[u].key \in Attachments /\ ~photo[upload[u].key].purged /\ ~retired
    BY <2>1 DEF FileInv, Working
  <2> QED
    BY <2>1, <2>3, <2>4, <2>5 DEF FileInv, Working
<1>FinishUpload. ASSUME NEW u \in Requests, FinishUpload(u) PROVE FileInv'
  <2>1. /\ upload[u].at \in Working /\ UNCHANGED <<stored, retired>>
        /\ \A v \in Requests : upload'[v].at \in Working => upload'[v] = upload[v]
    BY <1>FinishUpload DEF FinishUpload, Working, Answer, Idle, TypeOK
  <2>2. \A k \in Attachments : k \in Attachments' /\ photo'[k].purged = photo[k].purged
    <3>1. CASE Settle(u, upload[u].key)
      BY <2>1, <3>1, SettleFields DEF Attachments
    <3>2. CASE UNCHANGED <<photo, revision, caseRow>>
      BY <3>2 DEF Attachments
    <3> QED
      BY <1>FinishUpload, <3>1, <3>2 DEF FinishUpload
  <2> QED
    BY <2>1, <2>2 DEF FileInv
<1>FinishFails. ASSUME NEW u \in Requests, FinishFails(u) PROVE FileInv'
  <2>1. /\ \A v \in Requests : upload'[v].at \in Working => upload'[v] = upload[v]
        /\ UNCHANGED <<photo, stored, retired>>
    BY <1>FinishFails DEF FinishFails, Answer, Idle, Leased, Working, TypeOK
  <2> QED
    BY <2>1 DEF FileInv, Attachments
<1>Crash. CASE Crash
  <2>1. /\ \A v \in Requests : upload'[v].at \in Working => upload'[v] = upload[v]
        /\ UNCHANGED <<photo, stored, retired>>
    BY <1>Crash DEF Crash, Answer, Idle, Leased, Working, TypeOK
  <2> QED
    BY <2>1 DEF FileInv, Attachments
<1>RecoverStaleUploads. ASSUME NEW keys \in SUBSET Keys, RecoverStaleUploads(keys) PROVE FileInv'
  <2>1. \A k \in Attachments : k \in Attachments' /\ photo'[k].purged = photo[k].purged
    BY <1>RecoverStaleUploads, SetStatusFields DEF RecoverStaleUploads, TechnicalStatus, Attachments
  <2>2. UNCHANGED <<stored, retired, upload>>
    BY <1>RecoverStaleUploads DEF RecoverStaleUploads
  <2> QED
    BY <2>1, <2>2 DEF FileInv
<1>Claim. CASE Claim
  BY <1>Claim DEF Claim, FileInv, Attachments
<1>ViewCase. CASE ViewCase
  BY <1>ViewCase DEF ViewCase, FileInv, Attachments
<1>ViewEvidence. CASE ViewEvidence
  BY <1>ViewEvidence DEF ViewEvidence, FileInv, Attachments
<1>Review. CASE Review
  <2>1. \A k \in Attachments : k \in Attachments' /\ photo'[k].purged = photo[k].purged
    BY <1>Review, RequestMoreFields DEF Review, Accept, Attachments
  <2>2. UNCHANGED <<stored, retired, upload>>
    BY <1>Review DEF Review
  <2> QED
    BY <2>1, <2>2 DEF FileInv
<1>ReadAccepted. CASE ReadAccepted
  BY <1>ReadAccepted DEF ReadAccepted, FileInv, Attachments
<1>Transition. CASE Transition
  BY <1>Transition DEF Transition, FileInv, Attachments
<1>Close. CASE Close
  BY <1>Close DEF Close, FileInv, Attachments
<1>Purge. ASSUME NEW stale \in SUBSET Keys, NEW keys \in SUBSET Keys, NEW expired \in BOOLEAN,
          Purge(stale, keys, expired)
   PROVE  FileInv'
  <2>1. \A k \in Attachments : k \in Attachments' /\ (photo'[k].purged => photo[k].purged \/ k \in keys)
    <3>1. \A k \in Keys : /\ photo'[k].purged = (photo[k].purged \/ k \in keys)
                          /\ photo'[k].status = IF k \in stale THEN "REJECTED" ELSE photo[k].status
      BY <1>Purge, PurgeFields
    <3> QED
      BY <3>1 DEF Attachments
  <2>2. stored' = stored \ keys /\ upload' = upload /\ retired' = (retired \/ expired) /\ Old(keys)
    BY <1>Purge DEF Purge, Deletable
  <2>3. \A v \in Requests : upload[v].at \in Working => upload[v].key \notin keys
    BY <2>2 DEF Old
  <2>4. expired => \A v \in Requests : upload[v].at \notin Working
    <3>1. expired => keys = {k \in Attachments : ~photo[k].purged}
      BY <1>Purge DEF Purge, Deletable
    <3> QED
      BY <2>3, <3>1 DEF FileInv
  <2> QED
    BY <2>1, <2>2, <2>3, <2>4 DEF FileInv
<1>PurgeAborts. ASSUME NEW stale \in SUBSET Keys, NEW keys \in SUBSET Keys, NEW expired \in BOOLEAN,
          PurgeAborts(stale, keys, expired)
   PROVE  FileInv'
  <2>1. stored' \subseteq stored /\ stored \ keys \subseteq stored' /\ Old(keys)
    BY <1>PurgeAborts DEF PurgeAborts, Deletable
  <2>2. UNCHANGED <<upload, photo, retired>>
    BY <1>PurgeAborts DEF PurgeAborts
  <2> QED
    BY <2>1, <2>2 DEF Old, FileInv, Attachments
<1>stutter. CASE UNCHANGED vars
  BY <1>stutter DEF vars, FileInv, Attachments
<1> QED
  BY <1>Ensure, <1>Admit, <1>Disconnect, <1>BeginUpload, <1>Validate, <1>FinishUpload, <1>FinishFails,
     <1>Crash, <1>RecoverStaleUploads, <1>Claim, <1>ViewCase, <1>ViewEvidence, <1>Review,
     <1>ReadAccepted, <1>Transition, <1>Close, <1>Purge, <1>PurgeAborts, <1>stutter
     DEF Next, UploadStep

\* A photo becomes READY after its file, and loses it only with its case closed.
LEMMA FilesStep ==
  ASSUME TypeOK, CaseInv, FileInv, FilesFollowRecord, [Next]_vars
  PROVE  FilesFollowRecord'
<1> USE DEF docVars
<1>Ensure. CASE Ensure
  BY <1>Ensure DEF Ensure, CaseInv, FilesFollowRecord, Attachments
<1>Admit. ASSUME NEW u \in Requests, Admit(u) PROVE FilesFollowRecord'
  BY <1>Admit DEF Admit, FilesFollowRecord, Attachments
<1>Disconnect. ASSUME NEW u \in Requests, Disconnect(u) PROVE FilesFollowRecord'
  BY <1>Disconnect DEF Disconnect, FilesFollowRecord, Attachments
<1>BeginUpload. ASSUME NEW u \in Requests, NEW k \in Keys, NEW size \in Sizes,
                    NEW expected \in 0 .. revision, BeginUpload(u, k, size, expected)
             PROVE  FilesFollowRecord'
  <2>1. CASE MayUpload(k, size, expected) /\ Reserve(u, k, size)
    <3>1. /\ photo'[k].status = "PROCESSING"
          /\ \A j \in Keys : j # k => photo'[j] = photo[j]
      BY <2>1 DEF Reserve, TypeOK
    <3>2. stored' = stored /\ retired' = retired /\ caseRow'.status = caseRow.status
      BY <1>BeginUpload, <2>1, SaveFields DEF BeginUpload, Reserve
    <3> QED
      BY <3>1, <3>2 DEF FilesFollowRecord, Attachments
  <2>2. CASE UNCHANGED <<caseRow, docVars>>
    BY <1>BeginUpload, <2>2 DEF BeginUpload, FilesFollowRecord, Attachments
  <2> QED
    BY <1>BeginUpload, <2>1, <2>2 DEF BeginUpload
<1>Validate. ASSUME NEW u \in Requests, Validate(u) PROVE FilesFollowRecord'
  <2>1. stored \subseteq stored' /\ UNCHANGED <<caseRow, photo, retired>> /\ upload[u].at \in Working
    BY <1>Validate DEF Validate, Working
  <2>2. ~retired
    BY <2>1 DEF FileInv
  <2> QED
    BY <2>1, <2>2 DEF FilesFollowRecord, Attachments
<1>FinishUpload. ASSUME NEW u \in Requests, FinishUpload(u) PROVE FilesFollowRecord'
  <2>1. upload[u].at \in Working /\ UNCHANGED <<stored, retired>>
    BY <1>FinishUpload DEF FinishUpload, Working
  <2>2. CASE Settle(u, upload[u].key)
    <3>1. caseRow'.status = caseRow.status
      BY <2>2, SaveFields DEF Settle
    <3>2. /\ \A k \in Keys : k # upload[u].key => photo'[k] = photo[k]
          /\ photo'[upload[u].key].status = "READY" => upload[u].at = "FINISH"
      BY <2>1, <2>2, SettleFields DEF Accepts
    <3>3. upload[u].at = "FINISH" => upload[u].key \in stored
      BY <2>1 DEF FileInv
    <3> QED
      BY <2>1, <3>1, <3>2, <3>3 DEF FilesFollowRecord, Attachments
  <2>3. CASE UNCHANGED <<photo, revision, caseRow>>
    BY <2>1, <2>3 DEF FilesFollowRecord, Attachments
  <2> QED
    BY <1>FinishUpload, <2>2, <2>3 DEF FinishUpload
<1>FinishFails. ASSUME NEW u \in Requests, FinishFails(u) PROVE FilesFollowRecord'
  BY <1>FinishFails DEF FinishFails, FilesFollowRecord, Attachments
<1>Crash. CASE Crash
  BY <1>Crash DEF Crash, FilesFollowRecord, Attachments
<1>RecoverStaleUploads. ASSUME NEW keys \in SUBSET Keys, RecoverStaleUploads(keys) PROVE FilesFollowRecord'
  <2>1. \A k \in Keys : photo'[k].status = "READY" => photo[k].status = "READY"
    BY <1>RecoverStaleUploads, SetStatusFields DEF RecoverStaleUploads, TechnicalStatus
  <2>2. UNCHANGED <<stored, retired>> /\ caseRow'.status = caseRow.status
    BY <1>RecoverStaleUploads, SaveFields DEF RecoverStaleUploads
  <2> QED
    BY <2>1, <2>2 DEF FilesFollowRecord, Attachments
<1>Claim. CASE Claim
  BY <1>Claim, ClaimFields DEF Claim, FilesFollowRecord, Attachments
<1>ViewCase. CASE ViewCase
  BY <1>ViewCase DEF ViewCase, FilesFollowRecord, Attachments
<1>ViewEvidence. CASE ViewEvidence
  BY <1>ViewEvidence DEF ViewEvidence, FilesFollowRecord, Attachments
<1>Review. CASE Review
  <2>1. \A k \in Keys : photo'[k].status = photo[k].status
    BY <1>Review, RequestMoreFields DEF Review, Accept
  <2>2. UNCHANGED <<stored, retired>> /\ caseRow'.status = caseRow.status
    BY <1>Review, SaveFields DEF Review
  <2> QED
    BY <2>1, <2>2 DEF FilesFollowRecord, Attachments
<1>ReadAccepted. CASE ReadAccepted
  BY <1>ReadAccepted DEF ReadAccepted, FilesFollowRecord, Attachments
<1>Transition. CASE Transition
  BY <1>Transition DEF Transition, FilesFollowRecord, Attachments
<1>Close. CASE Close
  BY <1>Close, CloseFields DEF Close, FilesFollowRecord, Attachments
<1>Purge. ASSUME NEW stale \in SUBSET Keys, NEW keys \in SUBSET Keys, NEW expired \in BOOLEAN,
          Purge(stale, keys, expired)
   PROVE  FilesFollowRecord'
  <2>1. \A k \in Keys : photo'[k].status = "READY" => photo[k].status = "READY"
    BY <1>Purge, PurgeFields
  <2>2. /\ caseRow'.status = caseRow.status /\ stored' = stored \ keys
        /\ retired' = (retired \/ expired)
    BY <1>Purge, SaveFields DEF Purge
  <2>3. caseRow.status # "CLOSED" => \A k \in keys : photo[k].status # "READY"
    BY <1>Purge DEF Purge, Deletable, Processing, Attachments
  <2>4. expired => stored \subseteq keys
    BY <1>Purge DEF Purge, Deletable, FileInv
  <2> QED
    BY <2>1, <2>2, <2>3, <2>4 DEF FilesFollowRecord, Attachments
<1>PurgeAborts. ASSUME NEW stale \in SUBSET Keys, NEW keys \in SUBSET Keys, NEW expired \in BOOLEAN,
          PurgeAborts(stale, keys, expired)
   PROVE  FilesFollowRecord'
  <2>1. stored' \subseteq stored /\ stored \ keys \subseteq stored' /\ UNCHANGED <<photo, retired, caseRow>>
    BY <1>PurgeAborts DEF PurgeAborts
  <2>2. caseRow.status # "CLOSED" => \A k \in keys : photo[k].status # "READY"
    BY <1>PurgeAborts DEF PurgeAborts, Deletable, Processing, Attachments
  <2> QED
    BY <2>1, <2>2 DEF FilesFollowRecord, Attachments
<1>stutter. CASE UNCHANGED vars
  BY <1>stutter DEF vars, FilesFollowRecord, Attachments
<1> QED
  BY <1>Ensure, <1>Admit, <1>Disconnect, <1>BeginUpload, <1>Validate, <1>FinishUpload, <1>FinishFails,
     <1>Crash, <1>RecoverStaleUploads, <1>Claim, <1>ViewCase, <1>ViewEvidence, <1>Review,
     <1>ReadAccepted, <1>Transition, <1>Close, <1>Purge, <1>PurgeAborts, <1>stutter
     DEF Next, UploadStep

----------------------------------------------------------------------------
(* The properties.                                                         *)

\* An unopened collection has no lease, no photo and no file.
LEMMA InitEstablishes == Init => IInv
<1> SUFFICES ASSUME Init PROVE IInv
  OBVIOUS
<1>1. TypeOK
  BY TypeInit
<1>2. LeaseInv
  BY FS_EmptySet, LimitsAssumption DEF Init, LeaseInv, Idle
<1>3. CaseInv
  BY DEF Init, CaseInv
<1>4. Attachments = {} /\ Ready = {}
  BY DEF Init, Attachments, Available, Ready
<1>5. FrozenInv
  BY DEF Init, FrozenInv, NoEvidence
<1>6. PageInv
  BY DEF Init, PageInv
<1>7. FileInv
  BY DEF Init, FileInv, Idle, Working
<1>8. FilesFollowRecord
  BY <1>4 DEF Init, FilesFollowRecord
<1> QED
  BY <1>1, <1>2, <1>3, <1>5, <1>6, <1>7, <1>8 DEF IInv

\* One lemma per part of the invariant.
LEMMA StepKeeps == IInv /\ [Next]_vars => IInv'
BY TypeStep, LeaseStep, CaseStep, FrozenStep, PageStep, FileStep, FilesStep DEF IInv

\* So it holds throughout.
LEMMA AlwaysIInv == Spec => []IInv
BY InitEstablishes, StepKeeps, PTL DEF Spec

\* Every handler of the evidence routes, recovery and the retention run keep the
\* record, the store and the leases in their sets.
THEOREM TypeCorrect == Spec => []TypeOK
<1>1. IInv => TypeOK
  BY DEF IInv
<1> QED
  BY <1>1, AlwaysIInv, PTL

\* However clients disconnect and handlers die, no more photos are decoded at a time
\* than the upload route has leases.
THEOREM DecodersBoundedHolds == Spec => []DecodersBounded
<1>1. IInv => DecodersBounded
  <2> SUFFICES ASSUME IInv PROVE DecodersBounded
    OBVIOUS
  <2>1. PICK S : S = {u \in Requests : upload[u].at \in Working}
    OBVIOUS
  <2>2. S \subseteq leases
    BY <2>1 DEF IInv, LeaseInv, Working
  <2> QED
    BY <2>1, <2>2, FewerLeases DEF IInv, DecodersBounded
<1> QED
  BY <1>1, AlwaysIInv, PTL

\* finishUpload, recoverStaleUploads and the retention run leave the evidence a
\* workflow holds as it read it, until the record is retired.
THEOREM HeldStaysTrueHolds == Spec => []HeldStaysTrue
<1>1. IInv => HeldStaysTrue
  BY DEF IInv, FrozenInv, HeldStaysTrue
<1> QED
  BY <1>1, AlwaysIInv, PTL

\* A READY photo of an open case has its file, though uploads race the retention run
\* and the run may fail half way; a retired record has none.
THEOREM FilesFollowRecordHolds == Spec => []FilesFollowRecord
<1>1. IInv => FilesFollowRecord
  BY DEF IInv
<1> QED
  BY <1>1, AlwaysIInv, PTL

\* The review handler's version check is enough: the set it accepts is the set the
\* page had shown, whatever was uploaded, finished or dropped in between.
THEOREM AcceptedWasShownHolds == Spec => AcceptedWasShown
<1>1. ASSUME IInv, [Next]_vars, assessment' = "ACCEPTED", assessment # "ACCEPTED"
      PROVE  manifest' = page.photos
  <2>1. Review /\ Accept
    BY <1>1 DEF Next, UploadStep, vars, docVars, Ensure, Admit, Disconnect, BeginUpload, Reserve, Judge,
       Validate, FinishUpload, FinishFails, Crash, RecoverStaleUploads, Claim, ViewCase,
       ViewEvidence, Review, RequestMore, ReadAccepted, Transition, Close, Purge, PurgeAborts
  <2>2. manifest' = Ready /\ page.revision > 0 /\ page.revision = revision /\ page.photos # {}
    BY <2>1 DEF Review, Accept, Judge, PageOffersReview
  <2>3. page.photos = Ready
    BY <1>1, <2>2 DEF IInv, PageInv
  <2> QED
    BY <2>2, <2>3
<1>2. IInv /\ [Next]_vars =>
        [assessment' = "ACCEPTED" /\ assessment # "ACCEPTED" => manifest' = page.photos]_vars
  BY <1>1
<1> QED
  BY <1>2, AlwaysIInv, PTL DEF Spec, AcceptedWasShown

----------------------------------------------------------------------------
(* The size of a set of photos.                                            *)

\* What SetBytes adds up, for photos g.
Bytes(g, S) == MapThenSumSet(LAMBDA k : g[k].size, S)

\* The reduce over the attachments' sizes is a sum.
LEMMA BytesAreSum ==
  ASSUME NEW g, NEW S, IsFiniteSet(S), NEW f, \A k \in S : f[k] = g[k].size
  PROVE  Bytes(g, S) = SumOver(f, S)
<1> DEFINE Adds(t) == t = [s \in SUBSET S |->
                             IF s = {} THEN 0 ELSE g[Pick(s)].size + t[s \ {Pick(s)}]]
           iter == CHOOSE t : Adds(t)
<1>1. Bytes(g, S) = iter[S]
  BY DEF Bytes, MapThenSumSet, MapThenFoldSet, Pick
<1>2. \A s \in SUBSET S : s # {} => f[Pick(s)] = g[Pick(s)].size
  BY DEF Pick
<1>3. ASSUME NEW t PROVE Adds(t) <=> IsTotal(t, f, S)
  BY <1>2 DEF IsTotal
<1>4. \E t : Adds(t)
  BY <1>3, TotalExists
<1>5. PICK u : u = iter
  OBVIOUS
<1>6. Adds(u)
  BY <1>4, <1>5
<1>7. IsTotal(u, f, S)
  BY <1>3, <1>6
<1>8. u[S] = SumOver(f, S)
  BY <1>7, TotalIsSum
<1> QED
  BY <1>1, <1>5, <1>8

\* Every photo has a size.
Sized(g, S) == \A k \in S : g[k].size \in Nat

\* For the limit of the set: a part of a set whose photos did not grow is no larger.
LEMMA BytesMonotone ==
  ASSUME NEW g, NEW S, IsFiniteSet(S), Sized(g, S),
         NEW h, NEW R \in SUBSET S, Sized(h, R), \A k \in R : h[k].size <= g[k].size
  PROVE  /\ Bytes(g, S) \in Nat /\ Bytes(h, R) \in Nat
         /\ Bytes(h, R) <= Bytes(g, S)
<1>0. IsFiniteSet(R)
  BY FS_Subset
<1>1. PICK a : a = [k \in S |-> g[k].size]
  OBVIOUS
<1>2. PICK b : b = [k \in R |-> h[k].size]
  OBVIOUS
<1>3. Bytes(g, S) = SumOver(a, S)
  BY <1>1, BytesAreSum
<1>4. Bytes(h, R) = SumOver(b, R)
  BY <1>0, <1>2, BytesAreSum
<1>5. Numbers(a, S) /\ Numbers(b, R) /\ \A k \in R : b[k] <= a[k]
  BY <1>1, <1>2 DEF Sized, Numbers
<1> QED
  BY <1>3, <1>4, <1>5, SumMonotone

\* For a reservation: a photo added to a set adds its size.
LEMMA BytesAdd ==
  ASSUME NEW g, NEW S, IsFiniteSet(S), NEW k, k \notin S, Sized(g, S \cup {k})
  PROVE  Bytes(g, S \cup {k}) = Bytes(g, S) + g[k].size
<1>1. PICK W : W = S \cup {k}
  OBVIOUS
<1>2. PICK a : a = [i \in W |-> g[i].size]
  OBVIOUS
<1>3. IsFiniteSet(W)
  BY <1>1, FS_AddElement
<1>4. Bytes(g, W) = SumOver(a, W)
  BY <1>2, <1>3, BytesAreSum
<1>5. Bytes(g, S) = SumOver(a, S)
  BY <1>1, <1>2, BytesAreSum
<1>6. Numbers(a, S \cup {k}) /\ a[k] = g[k].size
  BY <1>1, <1>2 DEF Sized, Numbers
<1>7. SumOver(a, W) = SumOver(a, S) + a[k]
  BY <1>1, <1>6, SumAdd
<1> QED
  BY <1>1, <1>4, <1>5, <1>6, <1>7

----------------------------------------------------------------------------
(* The limit of the current set.                                           *)

\* Attachments come one at a time, and those of the current set fit.
SizeInv == IsFiniteSet(Attachments) /\ SetWithinLimit

\* The limit, as a sum over the photos of the record.
LEMMA LimitIs == SetWithinLimit <=> Bytes(photo, Active) <= MaxSetBytes
BY DEF SetWithinLimit, SetBytes, Bytes

\* A step that adds no photo to the set and changes no size in it keeps the limit.
LEMMA NotLarger ==
  ASSUME TypeOK, TypeOK', SizeInv, Attachments' \subseteq Attachments, Active' \subseteq Active,
         \A k \in Active' : photo'[k].size = photo[k].size
  PROVE  SizeInv'
<1>1. PICK g : g = photo
  OBVIOUS
<1>2. PICK h : h = photo'
  OBVIOUS
<1>3. PICK S : S = Active
  OBVIOUS
<1>4. PICK R : R = Active'
  OBVIOUS
<1>5. IsFiniteSet(Attachments') /\ IsFiniteSet(S)
  BY <1>3, FS_Subset DEF SizeInv, Active, Available
<1>6. Sized(g, S) /\ Sized(h, R)
  BY <1>1, <1>2, <1>3, <1>4 DEF Sized, TypeOK, Photo, Active, Available, Attachments
<1>7. R \in SUBSET S /\ \A k \in R : h[k].size <= g[k].size
  BY <1>1, <1>2, <1>3, <1>4, <1>6 DEF Sized
<1>8. Bytes(g, S) \in Nat /\ Bytes(h, R) \in Nat /\ Bytes(h, R) <= Bytes(g, S)
  BY <1>5, <1>6, <1>7, BytesMonotone
<1>9. Bytes(g, S) <= MaxSetBytes
  BY <1>1, <1>3 DEF SizeInv, SetWithinLimit, SetBytes, Bytes
<1>10. Bytes(h, R) <= MaxSetBytes
  BY <1>8, <1>9, LimitsAssumption
<1>11. SetWithinLimit'
  <2>1. (Bytes(photo, Active) <= MaxSetBytes)'
    BY <1>2, <1>4, <1>10
  <2> QED
    BY <2>1, LimitIs, PTL
<1> QED
  BY <1>5, <1>11 DEF SizeInv

\* A photo that joins a set it fits in, or takes its final size there, keeps the limit.
LEMMA OneFits ==
  ASSUME TypeOK, TypeOK', SizeInv, NEW k \in Keys, NEW size \in Nat,
         Attachments' \subseteq Attachments \cup {k}, Active' \subseteq Active \cup {k}, k \in Active',
         photo'[k].size = size, \A j \in Keys \ {k} : photo'[j] = photo[j],
         SetBytes(Active \ {k}) + size <= MaxSetBytes
  PROVE  SizeInv'
<1>1. PICK g : g = photo
  OBVIOUS
<1>2. PICK h : h = photo'
  OBVIOUS
<1>3. PICK S : S = Active \ {k}
  OBVIOUS
<1>4. PICK R : R = Active' \ {k}
  OBVIOUS
<1>5. IsFiniteSet(Attachments') /\ IsFiniteSet(S) /\ IsFiniteSet(R)
  <2>1. IsFiniteSet(Attachments \cup {k})
    BY FS_AddElement DEF SizeInv
  <2>2. IsFiniteSet(Attachments')
    BY <2>1, FS_Subset
  <2>3. S \subseteq Attachments \cup {k} /\ R \subseteq Attachments'
    BY <1>3, <1>4 DEF Active, Available
  <2> QED
    BY <2>1, <2>2, <2>3, FS_Subset
<1>6. Sized(g, S) /\ Sized(h, R) /\ Sized(h, R \cup {k})
  BY <1>1, <1>2, <1>3, <1>4 DEF Sized, TypeOK, Photo, Active, Available, Attachments
<1>7. R \in SUBSET S /\ \A j \in R : h[j].size <= g[j].size
  <2>1. R \in SUBSET S
    BY <1>3, <1>4
  <2>2. \A j \in R : h[j] = g[j]
    BY <1>1, <1>2, <1>4 DEF Active, Available, Attachments
  <2> QED
    BY <1>6, <2>1, <2>2 DEF Sized
<1>8. Bytes(g, S) \in Nat /\ Bytes(h, R) \in Nat /\ Bytes(h, R) <= Bytes(g, S)
  BY <1>5, <1>6, <1>7, BytesMonotone
<1>9. Bytes(h, R \cup {k}) = Bytes(h, R) + size
  <2>1. k \notin R /\ h[k].size = size
    BY <1>2, <1>4
  <2> QED
    BY <1>5, <1>6, <2>1, BytesAdd
<1>10. Bytes(g, S) + size <= MaxSetBytes
  BY <1>1, <1>3 DEF SetBytes, Bytes
<1>11. Bytes(h, R \cup {k}) <= MaxSetBytes
  BY <1>8, <1>9, <1>10, LimitsAssumption
<1>12. R \cup {k} = Active'
  BY <1>4
<1>13. SetWithinLimit'
  <2>1. (Bytes(photo, Active) <= MaxSetBytes)'
    BY <1>2, <1>11, <1>12
  <2> QED
    BY <2>1, LimitIs, PTL
<1> QED
  BY <1>5, <1>13 DEF SizeInv

\* Only beginUpload and finishUpload make the current set larger, and both look at
\* what it holds then.
LEMMA SizeStep ==
  ASSUME IInv, IInv', SizeInv, [Next]_vars
  PROVE  SizeInv'
<1> USE DEF docVars
<1>0. TypeOK /\ TypeOK'
  BY DEF IInv
<1>same. ASSUME UNCHANGED photo PROVE SizeInv'
  <2>1. Attachments' = Attachments /\ Active' = Active
    BY <1>same DEF Attachments, Active, Available
  <2> QED
    BY <1>0, <1>same, <2>1, NotLarger
<1>BeginUpload. ASSUME NEW u \in Requests, NEW k \in Keys, NEW size \in Sizes,
                    NEW expected \in 0 .. revision, BeginUpload(u, k, size, expected)
             PROVE  SizeInv'
  <2>1. CASE MayUpload(k, size, expected) /\ Reserve(u, k, size)
    <3>1. photo' = [photo EXCEPT ![k] = [status |-> "PROCESSING", size |-> size,
                      superseded |-> FALSE, purged |-> FALSE]]
      BY <2>1 DEF Reserve
    <3>2. photo \in [Keys -> Photo]
      BY <1>0 DEF TypeOK
    <3>3. /\ photo'[k].status = "PROCESSING" /\ photo'[k].size = size
          /\ photo'[k].superseded = FALSE /\ photo'[k].purged = FALSE
          /\ \A j \in Keys \ {k} : photo'[j] = photo[j]
      BY <3>1, <3>2
    <3>4. k \notin Attachments
      BY <2>1 DEF MayUpload
    <3>5. /\ Attachments' \subseteq Attachments \cup {k} /\ Active' \subseteq Active \cup {k}
          /\ k \in Active' /\ Active \ {k} = Active
      BY <3>3, <3>4 DEF Attachments, Active, Available
    <3>6. SetBytes(Active \ {k}) + size <= MaxSetBytes
      BY <2>1, <3>5 DEF MayUpload
    <3>7. size \in Nat
      BY SizesAssumption
    <3> QED
      BY <1>0, <3>3, <3>5, <3>6, <3>7, OneFits
  <2>2. CASE UNCHANGED <<caseRow, docVars>>
    BY <2>2, <1>same
  <2> QED
    BY <1>BeginUpload, <2>1, <2>2 DEF BeginUpload
<1>FinishUpload. ASSUME NEW u \in Requests, FinishUpload(u) PROVE SizeInv'
  <2>1. upload[u].at \in Working
    BY <1>FinishUpload DEF FinishUpload, Working
  <2>2. upload[u].key \in Keys /\ upload[u].size \in Nat
    BY <1>0, <2>1, WorkingUpload
  <2>3. PICK k \in Keys : k = upload[u].key
    BY <2>2
  <2>4. PICK size \in Nat : size = upload[u].size
    BY <2>2
  <2>5. CASE photo[k].status = "PROCESSING" /\ Settle(u, k)
    <3>1. /\ \A j \in Keys : /\ photo'[j].superseded = photo[j].superseded
                             /\ photo'[j].purged = photo[j].purged
                             /\ j # k => photo'[j] = photo[j]
          /\ \/ photo'[k].status = "READY" /\ Accepts(u) /\ photo'[k].size = size
             \/ photo'[k].status = "REJECTED"
      BY <1>0, <2>1, <2>3, <2>4, <2>5, SettleFields
    <3>2. k \in Active
      BY <2>1, <2>3, <2>5 DEF IInv, FrozenInv, FileInv, Attachments, Active, Available
    <3>3. CASE photo'[k].status = "READY" /\ Accepts(u) /\ photo'[k].size = size
      <4>1. /\ Attachments' \subseteq Attachments \cup {k} /\ Active' \subseteq Active \cup {k}
            /\ k \in Active'
        BY <3>1, <3>2, <3>3 DEF Attachments, Active, Available
      <4>2. SetBytes(Active \ {k}) + size <= MaxSetBytes
        BY <2>3, <2>4, <3>3 DEF Accepts
      <4>3. \A j \in Keys \ {k} : photo'[j] = photo[j]
        BY <3>1
      <4> QED
        BY <1>0, <3>3, <4>1, <4>2, <4>3, OneFits
    <3>4. CASE photo'[k].status = "REJECTED"
      <4>1. Attachments' \subseteq Attachments
        BY <3>1, <3>2 DEF Attachments, Active, Available
      <4>2. Active' \subseteq Active /\ \A j \in Active' : photo'[j].size = photo[j].size
        BY <3>1, <3>4 DEF Attachments, Active, Available
      <4> QED
        BY <1>0, <4>1, <4>2, NotLarger
    <3> QED
      BY <3>1, <3>3, <3>4
  <2>6. CASE UNCHANGED <<photo, revision, caseRow>>
    BY <2>6, <1>same
  <2> QED
    BY <1>FinishUpload, <2>3, <2>5, <2>6 DEF FinishUpload
<1>RecoverStaleUploads. ASSUME NEW keys \in SUBSET Keys, RecoverStaleUploads(keys) PROVE SizeInv'
  <2>1. SetStatus(keys, "REJECTED") /\ "REJECTED" \in TechnicalStatus /\ keys \subseteq Processing
    BY <1>RecoverStaleUploads DEF RecoverStaleUploads, TechnicalStatus
  <2>2. \A k \in Keys : /\ photo'[k].superseded = photo[k].superseded
                        /\ photo'[k].purged = photo[k].purged
                        /\ photo'[k].size = photo[k].size
                        /\ photo'[k].status = IF k \in keys THEN "REJECTED" ELSE photo[k].status
    BY <1>0, <2>1, SetStatusFields
  <2>3. Attachments' \subseteq Attachments /\ Active' \subseteq Active
    BY <2>1, <2>2 DEF Attachments, Active, Available, Processing
  <2>4. \A k \in Active' : photo'[k].size = photo[k].size
    BY <2>2 DEF Attachments, Active, Available
  <2> QED
    BY <1>0, <2>3, <2>4, NotLarger
<1>Review. CASE Review
  <2>1. CASE Accept
    BY <2>1, <1>same DEF Accept
  <2>2. CASE RequestMore
    <3>1. \A k \in Keys : /\ photo'[k].superseded = (photo[k].superseded \/ k \in Available)
                          /\ photo'[k].purged = photo[k].purged
                          /\ photo'[k].status = photo[k].status
                          /\ photo'[k].size = photo[k].size
      BY <1>0, <2>2, RequestMoreFields
    <3>2. Attachments' \subseteq Attachments /\ Active' \subseteq Active
      BY <3>1 DEF Attachments, Active, Available
    <3>3. \A k \in Active' : photo'[k].size = photo[k].size
      BY <3>1 DEF Attachments, Active, Available
    <3> QED
      BY <1>0, <3>2, <3>3, NotLarger
  <2> QED
    BY <1>Review, <2>1, <2>2 DEF Review
<1>Purge. ASSUME NEW stale \in SUBSET Keys, NEW keys \in SUBSET Keys, NEW expired \in BOOLEAN,
                 Purge(stale, keys, expired)
          PROVE  SizeInv'
  <2>1. \A k \in Keys : /\ photo'[k].superseded = photo[k].superseded
                        /\ photo'[k].purged = (photo[k].purged \/ k \in keys)
                        /\ photo'[k].status = IF k \in stale THEN "REJECTED" ELSE photo[k].status
                        /\ photo'[k].size = photo[k].size
    BY <1>0, <1>Purge, PurgeFields
  <2>2. stale \subseteq Processing
    BY <1>Purge DEF Purge, Deletable
  <2>3. Attachments' \subseteq Attachments /\ Active' \subseteq Active
    BY <2>1, <2>2 DEF Attachments, Active, Available, Processing
  <2>4. \A k \in Active' : photo'[k].size = photo[k].size
    BY <2>1 DEF Attachments, Active, Available
  <2> QED
    BY <1>0, <2>3, <2>4, NotLarger
<1>other. ASSUME \/ Ensure \/ Crash \/ Claim \/ ViewCase \/ ViewEvidence \/ ReadAccepted \/ Transition
                 \/ Close \/ UNCHANGED vars
                 \/ \E u \in Requests : Admit(u) \/ Disconnect(u) \/ Validate(u) \/ FinishFails(u)
                 \/ \E stale, keys \in SUBSET Keys, expired \in BOOLEAN :
                      PurgeAborts(stale, keys, expired)
          PROVE  SizeInv'
  <2>1. UNCHANGED photo
    BY <1>other DEF Ensure, Crash, Claim, ViewCase, ViewEvidence, ReadAccepted, Transition, Close,
       vars, Admit, Disconnect, Validate, FinishFails, PurgeAborts
  <2> QED
    BY <1>same, <2>1
<1> QED
  BY <1>BeginUpload, <1>FinishUpload, <1>RecoverStaleUploads, <1>Review, <1>Purge, <1>other
     DEF Next, UploadStep

\* Photos reserve their place by the size sent and take it by the normalized size,
\* with other uploads, reviews and retention between: the set stays within
\* MAX_SET_BYTES.
THEOREM SetWithinLimitHolds == Spec => []SetWithinLimit
<1>1. Init => SizeInv
  <2> SUFFICES ASSUME Init PROVE SizeInv
    OBVIOUS
  <2>1. Attachments = {} /\ Active = {}
    BY DEF Init, Attachments, Available, Active
  <2>2. PICK g : g = photo
    OBVIOUS
  <2>3. IsFiniteSet({})
    BY FS_EmptySet
  <2>4. Bytes(g, {}) = 0
    BY <2>3, BytesAreSum, SumOfNone
  <2>5. SetBytes(Active) = 0
    BY <2>1, <2>2, <2>4 DEF SetBytes, Bytes
  <2> QED
    BY <2>1, <2>3, <2>5, LimitsAssumption DEF SizeInv, SetWithinLimit
<1>2. IInv /\ IInv' /\ SizeInv /\ [Next]_vars => SizeInv'
  BY SizeStep
<1>3. SizeInv => SetWithinLimit
  BY DEF SizeInv
<1> QED
  BY <1>1, <1>2, <1>3, AlwaysIInv, PTL DEF Spec
=============================================================================

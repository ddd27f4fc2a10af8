--------------------------- MODULE ControlsProofs ---------------------------
(***************************************************************************)
(* What holds of the publication of controls for every set of requirement  *)
(* ids, every set of manifests, every batch size and number of executions: *)
(* with one writer at a time, a framework version holds the documents of   *)
(* one manifest, and an execution that reports "uploaded" leaves exactly   *)
(* its records there; and executions that publish one manifest at the same *)
(* time, undisturbed, leave the version whole once all are over.           *)
(***************************************************************************)
EXTENDS ControlsPublish, TLAPS

LEMMA PagesAreParts ==
  ASSUME NEW S, NEW n, NEW B \in Pages(S, n)
  PROVE  B \subseteq S
BY DEF Pages

LEMMA AllOfTheVersion ==
  ASSUME TypeOK, NEW m, NEW B \in Pages(SameVersion(m), Top)
  PROVE  B = SameVersion(m)
<1>1. SameVersion(m) \in SUBSET Req
  BY DEF SameVersion, Loaded
<1> QED BY <1>1, TopAssumption DEF Pages

-----------------------------------------------------------------------------
(* Types. *)

\* An execution that deletes or uploads has a manifest.
HasManifest == \A j \in Job : pc[j] \in {"delete", "upload"} => man[j] \in Manifest

LEMMA InitTypes == ASSUME Init PROVE TypeOK /\ HasManifest
BY PublishAssumption DEF Init, TypeOK, HasManifest, Published, Outcome

LEMMA ExitTypes ==
  ASSUME TypeOK, NEW j \in Job, ExitWithError(j)
  PROVE  /\ pc' \in [Job -> {"idle", "examine", "delete", "upload"}]
         /\ doomed' \in [Job -> SUBSET Req]
         /\ todo' \in [Job -> SUBSET Req]
         /\ failed' \in [Job -> BOOLEAN]
         /\ tries' \in [Job -> 0 .. RetryLimit]
         /\ outcome' \in [Job -> Outcome]
<1>1. CASE tries[j] < RetryLimit
  <2>1. tries[j] + 1 \in 0 .. RetryLimit
    BY <1>1, PublishAssumption DEF TypeOK
  <2> QED BY <1>1, <2>1 DEF TypeOK, ExitWithError, Goto
<1>2. CASE ~(tries[j] < RetryLimit)
  BY <1>2 DEF TypeOK, ExitWithError, Report, Goto, Outcome
<1> QED BY <1>1, <1>2

LEMMA FaultTypes ==
  ASSUME TypeOK, SpendFault \/ UNCHANGED faults
  PROVE  faults' \in 0 .. MaxFaults
BY PublishAssumption DEF TypeOK, SpendFault

LEMMA DeleteTypes ==
  ASSUME TypeOK, NEW B \in SUBSET Req, NEW bad \in SUBSET B, Delete(B, bad)
  PROVE  index' \in [Req -> Manifest \cup {NoDoc}] /\ left' \in SUBSET Req
BY DEF TypeOK, Delete

LEMMA StartTypes == ASSUME TypeOK, NEW j \in Job, Start(j) PROVE TypeOK'
BY PublishAssumption DEF TypeOK, Start, Goto, clearVars, Outcome

LEMMA ExamineTypes == ASSUME TypeOK, NEW j \in Job, Examine(j) PROVE TypeOK'
<1>1. CASE Report(j, "skipped_missing_source")
  BY <1>1 DEF TypeOK, Examine, Report, Goto, clearVars, Outcome
<1>2. ASSUME NEW existing \in Pages(SameVersion(source), Top), NEW dry \in BOOLEAN,
             Gate(j, source, existing, dry)
      PROVE  TypeOK'
  <2>1. existing \in SUBSET Req
    BY PagesAreParts DEF SameVersion, Loaded
  <2>2. Records[source] \in SUBSET Req
    BY PublishAssumption DEF TypeOK
  <2>3. CASE \E what \in Outcome : Report(j, what)
    BY <2>3 DEF TypeOK, Examine, Report, Goto, clearVars
  <2>4. CASE Replace(j, source, existing)
    BY <2>1, <2>4 DEF TypeOK, Examine, Replace, Goto, clearVars
  <2>5. CASE StartUpload(j, source) /\ UNCHANGED <<doomed, failed, outcome>>
    BY <2>2, <2>5 DEF TypeOK, Examine, StartUpload, Goto, clearVars
  <2> QED BY <1>2, <2>3, <2>4, <2>5 DEF Gate, Outcome
<1> QED BY <1>1, <1>2 DEF Examine

LEMMA DeleteBatchTypes == 
  ASSUME TypeOK, HasManifest, NEW j \in Job, DeleteBatch(j)
  PROVE  TypeOK'
<1>1. PICK B \in Pages(doomed[j], DeleteSize) :
        /\ \E bad \in SUBSET B : ItemsFail(bad) /\ Delete(B, bad)
        /\ doomed' = [doomed EXCEPT ![j] = @ \ B]
        /\ IF doomed[j] \ B = {}
           THEN StartUpload(j, man[j])
           ELSE UNCHANGED <<pc, todo>>
  BY DEF DeleteBatch
<1>2. B \in SUBSET Req
  BY PagesAreParts DEF TypeOK
<1>3. index' \in [Req -> Manifest \cup {NoDoc}] /\ left' \in SUBSET Req
  BY <1>1, <1>2, DeleteTypes
<1>4. faults' \in 0 .. MaxFaults
  BY <1>1, FaultTypes DEF ItemsFail
<1>5. pc' \in [Job -> {"idle", "examine", "delete", "upload"}]
  BY <1>1 DEF TypeOK, StartUpload, Goto
<1>6. todo' \in [Job -> SUBSET Req]
  <2>1. pc[j] = "delete"
    BY DEF DeleteBatch
  <2>2. Records[man[j]] \in SUBSET Req
    BY <2>1, PublishAssumption DEF HasManifest
  <2> QED BY <1>1, <2>2 DEF TypeOK, StartUpload
<1>7. doomed' \in [Job -> SUBSET Req]
  BY <1>1 DEF TypeOK
<1> QED BY <1>3, <1>4, <1>5, <1>6, <1>7 DEF TypeOK, DeleteBatch, clearVars

LEMMA UploadBatchTypes ==
  ASSUME TypeOK, HasManifest, NEW j \in Job, UploadBatch(j)
  PROVE  TypeOK'
<1>1. PICK B \in Pages(todo[j], BatchSize) : \E bad \in SUBSET B :
        /\ ItemsFail(bad)
        /\ index' = [q \in Req |-> IF q \in B \ bad THEN man[j] ELSE index[q]]
        /\ left' = left \ (B \ bad)
        /\ IF todo[j] \ B = {}
           THEN EndUpload(j, failed[j] \/ bad # {})
           ELSE /\ todo' = [todo EXCEPT ![j] = @ \ B]
                /\ failed' = [failed EXCEPT ![j] = @ \/ bad # {}]
                /\ UNCHANGED <<pc, doomed, tries, outcome>>
  BY DEF UploadBatch
<1>2. /\ UNCHANGED <<alone, source, replace, man, clearVars>>
      /\ pc[j] = "upload"
  BY DEF UploadBatch
<1>3. man[j] \in Manifest
  BY <1>2 DEF HasManifest
<1>4. index' \in [Req -> Manifest \cup {NoDoc}] /\ left' \in SUBSET Req
  BY <1>1, <1>3 DEF TypeOK
<1>5. faults' \in 0 .. MaxFaults
  BY <1>1, FaultTypes DEF ItemsFail
<1>6. CASE todo[j] \ B = {} /\ ExitWithError(j)
  BY <1>2, <1>4, <1>5, <1>6, ExitTypes DEF TypeOK, clearVars
<1>7. CASE todo[j] \ B = {} /\ Report(j, "uploaded") /\ UNCHANGED tries
  BY <1>2, <1>4, <1>5, <1>7 DEF TypeOK, Report, Goto, Outcome, clearVars
<1>8. CASE todo[j] \ B # {}
  <2>1. todo' \in [Job -> SUBSET Req]
    BY <1>1, <1>8 DEF TypeOK
  <2>2. PICK more \in BOOLEAN : failed' = [failed EXCEPT ![j] = more]
    BY <1>1, <1>8 DEF TypeOK
  <2>3. failed' \in [Job -> BOOLEAN]
    BY <2>2 DEF TypeOK
  <2> QED BY <1>1, <1>2, <1>4, <1>5, <1>8, <2>1, <2>3 DEF TypeOK, clearVars
<1> QED BY <1>1, <1>6, <1>7, <1>8 DEF EndUpload

LEMMA DiesTypes == ASSUME TypeOK, NEW j \in Job, Dies(j) PROVE TypeOK'
BY ExitTypes, FaultTypes DEF TypeOK, Dies, clearVars

LEMMA ClearTypes ==
  ASSUME TypeOK, StartClear \/ ClearSearch \/ ClearDelete \/ ClearDies
  PROVE  TypeOK'
<1>1. CASE StartClear
  BY <1>1 DEF TypeOK, StartClear, jobVars
<1>2. CASE ClearSearch
  <2>1. purge' \in SUBSET Req
    BY <1>2, PagesAreParts DEF ClearSearch, Loaded
  <2> QED BY <1>2, <2>1 DEF TypeOK, ClearSearch, jobVars
<1>3. CASE ClearDelete
  <2>1. PICK bad \in SUBSET purge : ItemsFail(bad) /\ Delete(purge, bad)
    BY <1>3 DEF ClearDelete
  <2>2. index' \in [Req -> Manifest \cup {NoDoc}] /\ left' \in SUBSET Req
    BY <2>1, DeleteTypes DEF TypeOK
  <2>3. faults' \in 0 .. MaxFaults
    BY <2>1, FaultTypes DEF ItemsFail
  <2> QED BY <1>3, <2>2, <2>3 DEF TypeOK, ClearDelete, jobVars
<1>4. CASE ClearDies
  BY <1>4, FaultTypes DEF TypeOK, ClearDies, jobVars
<1> QED BY <1>1, <1>2, <1>3, <1>4

LEMMA ManifestStep == ASSUME TypeOK, HasManifest, [Next]_vars PROVE HasManifest'
<1>1. ASSUME NEW j \in Job, Start(j) PROVE HasManifest'
  BY <1>1 DEF HasManifest, TypeOK, Start, Goto
<1>2. ASSUME NEW j \in Job, Examine(j) PROVE HasManifest'
  <2>1. man' = [man EXCEPT ![j] = source] /\ source \in Manifest
    BY <1>2 DEF Examine, TypeOK
  <2>2. \A i \in Job : i # j => pc'[i] = pc[i]
    BY <1>2 DEF Examine, Gate, Report, Replace, StartUpload, Goto, TypeOK
  <2> QED BY <2>1, <2>2 DEF HasManifest, TypeOK
<1>3. ASSUME NEW j \in Job, DeleteBatch(j) PROVE HasManifest'
  BY <1>3 DEF HasManifest, TypeOK, DeleteBatch, StartUpload, Goto
<1>4. ASSUME NEW j \in Job, UploadBatch(j) PROVE HasManifest'
  BY <1>4 DEF HasManifest, TypeOK, UploadBatch, EndUpload, ExitWithError, Report, Goto
<1>5. ASSUME NEW j \in Job, Dies(j) PROVE HasManifest'
  BY <1>5 DEF HasManifest, TypeOK, Dies, ExitWithError, Report, Goto
<1>6. CASE UNCHANGED <<pc, man>>
  BY <1>6 DEF HasManifest
<1> QED
  BY <1>1, <1>2, <1>3, <1>4, <1>5, <1>6
  DEF Next, StartClear, ClearSearch, ClearDelete, ClearDies, SourceChanges, vars, jobVars

LEMMA TypesStep ==
  ASSUME TypeOK, HasManifest, [Next]_vars
  PROVE  TypeOK' /\ HasManifest'
<1>1. ASSUME SourceChanges PROVE TypeOK'
  BY <1>1 DEF TypeOK, SourceChanges, jobVars, clearVars
<1>2. ASSUME UNCHANGED vars PROVE TypeOK'
  BY <1>2 DEF TypeOK, vars, jobVars, clearVars
<1> QED
  BY <1>1, <1>2, ManifestStep, StartTypes, ExamineTypes, DeleteBatchTypes, UploadBatchTypes,
     DiesTypes, ClearTypes DEF Next

\* Every variable keeps its type (all of upload_controls_records and the
\* requests around it).
THEOREM TypesAreKept == Spec => []TypeOK
<1>1. Spec => [](TypeOK /\ HasManifest)
  BY InitTypes, TypesStep, PTL DEF Spec
<1> QED BY <1>1, PTL

-----------------------------------------------------------------------------
(* One writer at a time. *)

\* With one writer at a time, at most one execution or the clear request works.
OneWriter ==
  alone =>
    /\ \A i, j \in Job : pc[i] # "idle" /\ pc[j] # "idle" => i = j
    /\ clearing # "idle" => \A j \in Job : pc[j] = "idle"

\* The documents of m's version, those whose deletion failed apart.
Current(m) == SameVersion(m) \ left

\* What is still there of the version an execution replaces is to be deleted.
Deleting ==
  alone => \A j \in Job : pc[j] = "delete" => Current(man[j]) \subseteq doomed[j]

\* What is there of the version an execution uploads is what it uploaded.
Uploading ==
  alone => \A j \in Job : pc[j] = "upload" =>
    /\ todo[j] \subseteq Records[man[j]]
    /\ \A q \in Current(man[j]) : index[q] = man[j] /\ q \in Records[man[j]]
    /\ ~failed[j] => \A q \in Records[man[j]] \ todo[j] : index[q] = man[j] /\ q \notin left

Inv == TypeOK /\ HasManifest /\ OneWriter /\ Deleting /\ Uploading /\ OneManifest

\* A deletion leaves what it is not about, and takes or marks the rest.
LEMMA DeleteLeaves ==
  ASSUME TypeOK, NEW B \in SUBSET Req, NEW bad \in SUBSET B, Delete(B, bad)
  PROVE  \A q \in Loaded' \ left' : q \in Loaded \ left /\ q \notin B /\ index'[q] = index[q]
BY DEF TypeOK, Delete, Loaded

LEMMA InitInv == ASSUME Init PROVE Inv
<1>1. OneManifest
  BY PublishAssumption DEF Init, OneManifest, Loaded, Published
<1> QED BY <1>1, InitTypes DEF Init, Inv, OneWriter, Deleting, Uploading

LEMMA WriterStep == ASSUME Inv, [Next]_vars PROVE OneWriter'
<1> SUFFICES ASSUME alone, alone' PROVE OneWriter'
  BY DEF OneWriter, Next, Start, Examine, DeleteBatch, UploadBatch, Dies, StartClear,
         ClearSearch, ClearDelete, ClearDies, SourceChanges, vars
<1> USE DEF Inv, TypeOK, OneWriter
<1>1. ASSUME NEW j \in Job, Start(j) PROVE OneWriter'
  BY <1>1 DEF Start, Quiet, Goto, clearVars
<1>2. ASSUME NEW j \in Job, pc[j] # "idle", \A i \in Job : i # j => pc'[i] = pc[i],
             UNCHANGED clearing
      PROVE  OneWriter'
  BY <1>2
<1>3. ASSUME NEW j \in Job, Examine(j) PROVE OneWriter'
  BY <1>2, <1>3 DEF Examine, Gate, Report, Replace, StartUpload, Goto, clearVars
<1>4. ASSUME NEW j \in Job, DeleteBatch(j) PROVE OneWriter'
  BY <1>2, <1>4 DEF DeleteBatch, StartUpload, Goto, clearVars
<1>5. ASSUME NEW j \in Job, UploadBatch(j) PROVE OneWriter'
  BY <1>2, <1>5 DEF UploadBatch, EndUpload, ExitWithError, Report, Goto, clearVars
<1>6. ASSUME NEW j \in Job, Dies(j) PROVE OneWriter'
  BY <1>2, <1>6 DEF Dies, ExitWithError, Report, Goto, clearVars
<1>7. CASE StartClear
  BY <1>7 DEF StartClear, Quiet, jobVars
<1>8. CASE ClearSearch \/ ClearDelete \/ ClearDies
  BY <1>8 DEF ClearSearch, ClearDelete, ClearDies, jobVars
<1>9. CASE SourceChanges \/ UNCHANGED vars
  BY <1>9 DEF SourceChanges, vars, jobVars, clearVars
<1> QED BY <1>1, <1>3, <1>4, <1>5, <1>6, <1>7, <1>8, <1>9 DEF Next

\* What stays true when the documents do not change and no execution goes on
\* to delete or upload.
LEMMA IndexStays ==
  ASSUME Inv, UNCHANGED <<alone, index, left>>,
         \A j \in Job : pc'[j] \in {"delete", "upload"} =>
           /\ pc'[j] = pc[j] /\ man'[j] = man[j] /\ doomed'[j] = doomed[j]
           /\ todo'[j] = todo[j] /\ failed'[j] = failed[j]
  PROVE  Deleting' /\ Uploading' /\ OneManifest'
BY DEF Inv, Deleting, Uploading, OneManifest, Current, SameVersion, Loaded

LEMMA ExamineStep ==
  ASSUME Inv, NEW j \in Job, Examine(j)
  PROVE  Deleting' /\ Uploading' /\ OneManifest'
<1> USE DEF Inv
<1>1. /\ UNCHANGED <<alone, source, index, left>>
      /\ man' = [man EXCEPT ![j] = source]
      /\ source \in Manifest
      /\ pc[j] = "examine"
  BY DEF Examine, TypeOK
<1>2. OneManifest'
  BY <1>1 DEF OneManifest, Loaded
<1>3. ASSUME NEW what, Report(j, what) PROVE Deleting' /\ Uploading'
  BY <1>1, <1>2, <1>3, IndexStays DEF Report, Goto, TypeOK
<1>4. ASSUME Replace(j, source, SameVersion(source)) PROVE Deleting' /\ Uploading'
  <2>1. /\ \A i \in Job : i # j => pc'[i] = pc[i] /\ man'[i] = man[i] /\ doomed'[i] = doomed[i]
        /\ pc'[j] = "delete" /\ man'[j] = source /\ doomed'[j] = SameVersion(source)
    BY <1>1, <1>4 DEF Replace, Goto, TypeOK
  <2>2. Deleting'
    BY <1>1, <2>1 DEF Deleting, Current, SameVersion, Loaded
  <2>3. Uploading'
    BY <1>1, <1>4, <2>1 DEF Replace, Uploading, Current, SameVersion, Loaded
  <2> QED BY <2>2, <2>3
<1>5. ASSUME StartUpload(j, source), UNCHANGED <<doomed, failed, outcome>>, SameVersion(source) = {}
      PROVE  Deleting' /\ Uploading'
  <2>1. /\ \A i \in Job : i # j => pc'[i] = pc[i] /\ man'[i] = man[i] /\ todo'[i] = todo[i]
        /\ pc'[j] = "upload" /\ man'[j] = source /\ todo'[j] = Records[source]
    BY <1>1, <1>5 DEF StartUpload, Goto, TypeOK
  <2>2. Deleting'
    BY <1>1, <1>5, <2>1 DEF Deleting, Current, SameVersion, Loaded
  <2>3. Current(source)' = {}
    BY <1>1, <1>5 DEF Current, SameVersion, Loaded
  <2>4. Uploading'
    BY <1>1, <1>5, <2>1, <2>3 DEF Uploading, Current, SameVersion, Loaded
  <2> QED BY <2>2, <2>4
<1>6. CASE Report(j, "skipped_missing_source")
  BY <1>2, <1>3, <1>6
<1>7. CASE \E existing \in Pages(SameVersion(source), Top), dry \in BOOLEAN :
             Gate(j, source, existing, dry)
  <2>1. PICK dry \in BOOLEAN : Gate(j, source, SameVersion(source), dry)
    BY <1>7, AllOfTheVersion
  <2> QED BY <1>2, <1>3, <1>4, <1>5, <2>1 DEF Gate
<1> QED BY <1>6, <1>7 DEF Examine

LEMMA DeleteBatchStep ==
  ASSUME Inv, NEW j \in Job, DeleteBatch(j)
  PROVE  Deleting' /\ Uploading' /\ OneManifest'
<1> USE DEF Inv
<1> SUFFICES ASSUME alone PROVE Deleting' /\ Uploading' /\ OneManifest'
  BY DEF DeleteBatch, Deleting, Uploading, OneManifest
<1>1. PICK B \in Pages(doomed[j], DeleteSize) :
        /\ \E bad \in SUBSET B : Delete(B, bad)
        /\ doomed' = [doomed EXCEPT ![j] = @ \ B]
        /\ IF doomed[j] \ B = {}
           THEN StartUpload(j, man[j])
           ELSE UNCHANGED <<pc, todo>>
  BY DEF DeleteBatch
<1>2. B \subseteq Req
  BY PagesAreParts DEF TypeOK
<1>3. \A q \in Loaded' \ left' : q \in Loaded \ left /\ q \notin B /\ index'[q] = index[q]
  BY <1>1, <1>2, DeleteLeaves
<1>4. pc[j] = "delete" /\ UNCHANGED <<alone, man, failed>>
  BY DEF DeleteBatch
<1>5. \A i \in Job : i # j => pc'[i] = "idle"
  BY <1>1, <1>4 DEF OneWriter, StartUpload, Goto, TypeOK
<1>6. doomed'[j] = doomed[j] \ B
  BY <1>1 DEF TypeOK
<1>7. Current(man[j])' \subseteq doomed[j] \ B
  BY <1>3, <1>4 DEF Current, SameVersion, Deleting
<1>8. Deleting'
  BY <1>4, <1>5, <1>6, <1>7 DEF Deleting
<1>9. Uploading'
  <2>1. CASE doomed[j] \ B = {}
    <3>1. todo'[j] = Records[man[j]] /\ Current(man[j])' = {}
      BY <1>1, <1>7, <2>1 DEF StartUpload, TypeOK
    <3> QED BY <1>4, <1>5, <3>1 DEF Uploading
  <2>2. CASE doomed[j] \ B # {}
    BY <1>1, <1>4, <1>5, <2>2 DEF Uploading
  <2> QED BY <2>1, <2>2
<1>10. OneManifest'
  BY <1>3, <1>4 DEF OneManifest
<1> QED BY <1>8, <1>9, <1>10

\* The index after a batch of records of m, of which the items of bad failed.
Uploaded(j, m, B, bad) ==
  /\ index' = [q \in Req |-> IF q \in B \ bad THEN m ELSE index[q]]
  /\ left' = left \ (B \ bad)

LEMMA UploadLeaves ==
  ASSUME Inv, alone, NEW j \in Job, pc[j] = "upload",
         NEW B \in SUBSET todo[j], NEW bad \in SUBSET B, Uploaded(j, man[j], B, bad)
  PROVE  /\ \A q \in Loaded' \ left' :
              \/ index'[q] = man[j]
              \/ q \in Loaded \ left /\ index'[q] = index[q]
         /\ \A q \in Req : q \notin left' /\ index'[q] # NoDoc
                           /\ VersionOf[index'[q]] = VersionOf[man[j]]
                           => index'[q] = man[j] /\ q \in Records[man[j]]
         /\ ~failed[j] /\ bad = {} =>
              \A q \in Records[man[j]] \ (todo[j] \ B) : index'[q] = man[j] /\ q \notin left'
<1> USE DEF Inv
<1>1. /\ todo[j] \subseteq Req
      /\ Records[man[j]] \subseteq Req
      /\ man[j] \in Manifest
  BY PublishAssumption DEF TypeOK, HasManifest
<1>2. /\ todo[j] \subseteq Records[man[j]]
      /\ \A q \in Current(man[j]) : index[q] = man[j] /\ q \in Records[man[j]]
      /\ ~failed[j] => \A q \in Records[man[j]] \ todo[j] : index[q] = man[j] /\ q \notin left
  BY DEF Uploading
<1>3. \A q \in Req : IF q \in B \ bad THEN index'[q] = man[j] ELSE index'[q] = index[q]
  BY DEF Uploaded
<1>4. \A q \in Req : q \notin left' => q \in B \ bad \/ q \notin left
  BY DEF Uploaded
<1>5. \A q \in Loaded' \ left' :
        index'[q] = man[j] \/ (q \in Loaded \ left /\ index'[q] = index[q])
  BY <1>3, <1>4 DEF Loaded
<1>6. ASSUME NEW q \in Req, q \notin left', index'[q] # NoDoc,
             VersionOf[index'[q]] = VersionOf[man[j]]
      PROVE  index'[q] = man[j] /\ q \in Records[man[j]]
  <2>1. CASE q \in B \ bad
    BY <1>2, <1>3, <2>1
  <2>2. CASE q \notin B \ bad
    BY <1>2, <1>3, <1>4, <1>6, <2>2 DEF Current, SameVersion, Loaded
  <2> QED BY <2>1, <2>2
<1>7. ASSUME ~failed[j], bad = {}, NEW q \in Records[man[j]] \ (todo[j] \ B)
      PROVE  index'[q] = man[j] /\ q \notin left'
  BY <1>1, <1>2, <1>3, <1>7 DEF Uploaded
<1> QED BY <1>5, <1>6, <1>7

LEMMA UploadBatchStep ==
  ASSUME Inv, NEW j \in Job, UploadBatch(j)
  PROVE  Deleting' /\ Uploading' /\ OneManifest'
<1> USE DEF Inv
<1> SUFFICES ASSUME alone PROVE Deleting' /\ Uploading' /\ OneManifest'
  BY DEF UploadBatch, Deleting, Uploading, OneManifest
<1>1. PICK B \in Pages(todo[j], BatchSize) : \E bad \in SUBSET B :
        /\ Uploaded(j, man[j], B, bad)
        /\ IF todo[j] \ B = {}
           THEN EndUpload(j, failed[j] \/ bad # {})
           ELSE /\ todo' = [todo EXCEPT ![j] = @ \ B]
                /\ failed' = [failed EXCEPT ![j] = @ \/ bad # {}]
                /\ UNCHANGED <<pc, doomed, tries, outcome>>
  BY DEF UploadBatch, Uploaded
<1>2. PICK bad \in SUBSET B :
        /\ Uploaded(j, man[j], B, bad)
        /\ IF todo[j] \ B = {}
           THEN EndUpload(j, failed[j] \/ bad # {})
           ELSE /\ todo' = [todo EXCEPT ![j] = @ \ B]
                /\ failed' = [failed EXCEPT ![j] = @ \/ bad # {}]
                /\ UNCHANGED <<pc, doomed, tries, outcome>>
  BY <1>1
<1>3. pc[j] = "upload" /\ UNCHANGED <<alone, man>>
  BY DEF UploadBatch
<1>4. B \subseteq todo[j]
  BY PagesAreParts
<1>5. /\ \A q \in Loaded' \ left' :
           \/ index'[q] = man[j]
           \/ q \in Loaded \ left /\ index'[q] = index[q]
      /\ \A q \in Req : q \notin left' /\ index'[q] # NoDoc
                        /\ VersionOf[index'[q]] = VersionOf[man[j]]
                        => index'[q] = man[j] /\ q \in Records[man[j]]
      /\ ~failed[j] /\ bad = {} =>
           \A q \in Records[man[j]] \ (todo[j] \ B) : index'[q] = man[j] /\ q \notin left'
  BY <1>2, <1>3, <1>4, UploadLeaves
<1>6. OneManifest'
  <2> SUFFICES ASSUME NEW p \in Loaded' \ left', NEW q \in Loaded' \ left',
                      VersionOf[index'[p]] = VersionOf[index'[q]]
               PROVE  index'[p] = index'[q]
    BY DEF OneManifest
  <2>1. CASE index'[p] = man[j] \/ index'[q] = man[j]
    BY <1>5, <2>1 DEF Loaded
  <2>2. CASE index'[p] # man[j] /\ index'[q] # man[j]
    BY <1>5, <2>2 DEF OneManifest
  <2> QED BY <2>1, <2>2
<1>7. \A i \in Job : i # j => pc'[i] = "idle"
  BY <1>2, <1>3 DEF OneWriter, EndUpload, ExitWithError, Report, Goto, TypeOK
<1>8. CASE todo[j] \ B = {}
  <2>1. pc'[j] \in {"idle", "examine"}
    BY <1>2, <1>8 DEF EndUpload, ExitWithError, Report, Goto, TypeOK
  <2> QED BY <1>6, <1>7, <2>1 DEF Deleting, Uploading
<1>9. CASE todo[j] \ B # {}
  <2>1. todo'[j] = todo[j] \ B /\ pc'[j] = "upload" /\ (~failed'[j] => ~failed[j] /\ bad = {})
    BY <1>2, <1>3, <1>9 DEF TypeOK
  <2>2. \A q \in Current(man[j])' : index'[q] = man[j] /\ q \in Records[man[j]]
    BY <1>3, <1>5 DEF Current, SameVersion, Loaded
  <2>3. todo[j] \subseteq Records[man[j]]
    BY <1>3 DEF Uploading
  <2>4. Uploading'
    BY <1>3, <1>5, <1>7, <2>1, <2>2, <2>3 DEF Uploading
  <2>5. Deleting'
    BY <1>7, <2>1 DEF Deleting
  <2> QED BY <1>6, <2>4, <2>5
<1> QED BY <1>8, <1>9

LEMMA ClearDeleteStep ==
  ASSUME Inv, ClearDelete
  PROVE  Deleting' /\ Uploading' /\ OneManifest'
<1> USE DEF Inv
<1>1. PICK bad \in SUBSET purge : Delete(purge, bad)
  BY DEF ClearDelete
<1>2. \A q \in Loaded' \ left' : q \in Loaded \ left /\ index'[q] = index[q]
  BY <1>1, DeleteLeaves DEF TypeOK
<1>3. UNCHANGED alone
  BY DEF ClearDelete
<1>4. OneManifest'
  BY <1>2, <1>3 DEF OneManifest
<1>5. alone => \A j \in Job : pc'[j] = "idle"
  BY DEF ClearDelete, OneWriter, jobVars
<1> QED BY <1>3, <1>4, <1>5 DEF Deleting, Uploading

LEMMA InvStep == ASSUME Inv, [Next]_vars PROVE Inv'
<1>1. ASSUME NEW j \in Job, Start(j) PROVE Deleting' /\ Uploading' /\ OneManifest'
  BY <1>1, IndexStays DEF Start, Goto, Inv, TypeOK
<1>2. ASSUME NEW j \in Job, Dies(j) PROVE Deleting' /\ Uploading' /\ OneManifest'
  BY <1>2, IndexStays DEF Dies, ExitWithError, Report, Goto, Inv, TypeOK
<1>3. ASSUME StartClear \/ ClearSearch \/ ClearDies \/ SourceChanges \/ UNCHANGED vars
      PROVE  Deleting' /\ Uploading' /\ OneManifest'
  <2>1. UNCHANGED <<alone, index, left, pc, man, doomed, todo, failed>>
    BY <1>3 DEF StartClear, ClearSearch, ClearDies, SourceChanges, vars, jobVars
  <2> QED BY <2>1, IndexStays
<1>4. Deleting' /\ Uploading' /\ OneManifest'
  BY <1>1, <1>2, <1>3, ExamineStep, DeleteBatchStep, UploadBatchStep, ClearDeleteStep DEF Next
<1> QED BY <1>4, TypesStep, WriterStep DEF Inv

\* With one writer at a time a framework version holds the documents of one
\* manifest, those whose deletion failed apart, whatever fails, dies, is retried
\* or changes between (the delete-then-upload order of upload_controls_records).
THEOREM OneManifestHolds == Spec => []OneManifest
<1>1. Spec => []Inv
  BY InitInv, InvStep, PTL DEF Spec
<1>2. Inv => OneManifest
  BY DEF Inv
<1> QED BY <1>1, <1>2, PTL

\* An execution that reports "uploaded" to one writer at a time leaves exactly
\* its records for the version in the index (records_failed counts every item).
THEOREM UploadedIsWholeHolds == Spec => UploadedIsWhole
<1> DEFINE Ended(j) == alone /\ pc[j] = "upload" /\ pc'[j] = "idle" /\ outcome'[j] = "uploaded"
<1>1. ASSUME Inv, Next, NEW j \in Job, Ended(j) PROVE Whole(man[j])'
  <2> USE DEF Inv
  <2>1. UploadBatch(j)
    <3>1. \A i \in Job : pc[i] # "idle" => i = j
      BY <1>1 DEF OneWriter
    <3>2. ~Dies(j)
      BY <1>1 DEF Dies, ExitWithError, Report, Goto, TypeOK
    <3>3. pc' # pc /\ pc[j] = "upload" /\ alone
      BY <1>1
    <3>4. ~(StartClear \/ ClearSearch \/ ClearDelete \/ ClearDies \/ SourceChanges)
      BY <3>3 DEF StartClear, ClearSearch, ClearDelete, ClearDies, SourceChanges, jobVars
    <3>5. \A i \in Job : ~Start(i)
      BY <3>3 DEF Start, Quiet
    <3>6. ~Examine(j) /\ ~DeleteBatch(j)
      BY <3>3 DEF Examine, DeleteBatch
    <3>7. \A i \in Job : Examine(i) \/ DeleteBatch(i) \/ UploadBatch(i) \/ Dies(i) => pc[i] # "idle"
      BY DEF Examine, DeleteBatch, UploadBatch, Dies
    <3> QED BY <1>1, <3>1, <3>2, <3>4, <3>5, <3>6, <3>7 DEF Next
  <2>2. PICK B \in Pages(todo[j], BatchSize) : \E bad \in SUBSET B :
          /\ Uploaded(j, man[j], B, bad)
          /\ IF todo[j] \ B = {}
             THEN EndUpload(j, failed[j] \/ bad # {})
             ELSE UNCHANGED pc
    BY <2>1 DEF UploadBatch, Uploaded
  <2>3. PICK bad \in SUBSET B :
          /\ Uploaded(j, man[j], B, bad)
          /\ IF todo[j] \ B = {}
             THEN EndUpload(j, failed[j] \/ bad # {})
             ELSE UNCHANGED pc
    BY <2>2
  <2>4. todo[j] \ B = {} /\ ~failed[j] /\ bad = {}
    BY <1>1, <2>3 DEF EndUpload, ExitWithError, Report, Goto, TypeOK
  <2>5. B \subseteq todo[j]
    BY PagesAreParts
  <2>6. /\ \A q \in Req : q \notin left' /\ index'[q] # NoDoc
                          /\ VersionOf[index'[q]] = VersionOf[man[j]]
                          => index'[q] = man[j] /\ q \in Records[man[j]]
        /\ \A q \in Records[man[j]] : index'[q] = man[j] /\ q \notin left'
    BY <1>1, <2>3, <2>4, <2>5, UploadLeaves
  <2>7. man[j] \in Manifest /\ NoDoc \notin Manifest /\ Records[man[j]] \subseteq Req
    BY <1>1, PublishAssumption DEF HasManifest
  <2>8. man' = man
    BY <2>1 DEF UploadBatch
  <2> QED BY <2>6, <2>7, <2>8 DEF Whole, SameVersion, Loaded
<1>2. Inv /\ [Next]_vars => [\A j \in Job : Ended(j) => Whole(man[j])']_vars
  BY <1>1
<1>3. Spec => []Inv
  BY InitInv, InvStep, PTL DEF Spec
<1> QED BY <1>2, <1>3, PTL DEF Spec, UploadedIsWhole

-----------------------------------------------------------------------------
(* Executions at the same time. *)

\* Documents of the version with another manifest's text.
Old == {q \in SameVersion(source) : index[q] # source}

\* Some execution still has q to upload.
Pending(q) == \E j \in Job : pc[j] = "delete" \/ (pc[j] = "upload" /\ q \in todo[j])

\* Nothing fails, and every execution that writes publishes the source.
Undisturbed ==
  /\ clearing = "idle" /\ left = {}
  /\ \A j \in Job : ~failed[j]
  /\ \A j \in Job : pc[j] \in {"delete", "upload"} => man[j] = source
  /\ \A j \in Job : pc[j] = "upload" => todo[j] \subseteq Records[source]

NoStray == \A q \in Loaded : q \in Records[index[q]]

\* An execution that deletes goes on to delete every old document, and there is
\* none from its first upload on.
OldGoes ==
  /\ \A j \in Job : pc[j] = "delete" => Old \subseteq doomed[j]
  /\ \A j \in Job : pc[j] = "upload" \/ outcome[j] = "uploaded" => Old = {}

\* What one execution deleted of another's uploads is one's to upload again.
NoneForgotten ==
  \A j \in Job : pc[j] \in {"delete", "upload"} \/ outcome[j] = "uploaded" =>
    \A q \in Records[source] : index[q] = source \/ Pending(q)

Together == ~alone => Undisturbed /\ NoStray /\ OldGoes /\ NoneForgotten

LEMMA InitTogether == ASSUME Init PROVE Together
BY DEF Init, Together, Undisturbed, NoStray, OldGoes, NoneForgotten, Loaded, Published

\* What stays true when the documents do not change and the executions that
\* write, or have written, are the same.
LEMMA TogetherStays ==
  ASSUME TypeOK, Together, UNCHANGED <<alone, source, index, left, clearing>>,
         \A j \in Job : ~failed[j] => ~failed'[j],
         \A j \in Job : pc[j] \in {"delete", "upload"} \/ pc'[j] \in {"delete", "upload"} =>
           pc'[j] = pc[j] /\ man'[j] = man[j] /\ doomed'[j] = doomed[j] /\ todo'[j] = todo[j],
         \A j \in Job : outcome'[j] = "uploaded" => outcome[j] = "uploaded"
  PROVE  Together'
<1> SUFFICES ASSUME ~alone PROVE (Undisturbed /\ NoStray /\ OldGoes /\ NoneForgotten)'
  BY DEF Together
<1>1. Old' = Old /\ Loaded' = Loaded
  BY DEF Old, SameVersion, Loaded
<1>2. \A q \in Req : Pending(q) => Pending(q)'
  BY DEF Pending
<1>3. Undisturbed'
  BY DEF Together, Undisturbed
<1>4. NoStray'
  BY <1>1 DEF Together, NoStray
<1>5. OldGoes'
  BY <1>1 DEF Together, OldGoes
<1>6. NoneForgotten'
  BY DEF Together, NoneForgotten, Pending
<1> QED BY <1>3, <1>4, <1>5, <1>6

LEMMA ExamineTogether ==
  ASSUME TypeOK, Together, NEW j \in Job, Examine(j)
  PROVE  Together'
<1>1. /\ UNCHANGED <<alone, source, index, left, clearing>>
      /\ man' = [man EXCEPT ![j] = source]
      /\ pc[j] = "examine" /\ source \in Manifest
  BY DEF Examine, TypeOK, clearVars
<1>2. ASSUME NEW what, what # "uploaded", Report(j, what) PROVE Together'
  BY <1>1, <1>2, TogetherStays DEF Report, Goto, TypeOK
<1>3. Old' = Old /\ Loaded' = Loaded /\ Old \subseteq SameVersion(source)
  BY <1>1 DEF Old, SameVersion, Loaded
<1>4. ASSUME Replace(j, source, SameVersion(source)), ~alone PROVE Together'
  <2>1. /\ \A i \in Job : i # j => pc'[i] = pc[i] /\ man'[i] = man[i] /\ doomed'[i] = doomed[i]
        /\ pc'[j] = "delete" /\ man'[j] = source /\ doomed'[j] = SameVersion(source)
        /\ UNCHANGED <<todo, failed, outcome>>
    BY <1>1, <1>4 DEF Replace, Goto, TypeOK
  <2>2. Undisturbed'
    BY <1>1, <1>4, <2>1 DEF Together, Undisturbed
  <2>3. NoStray'
    BY <1>1, <1>3, <1>4 DEF Together, NoStray
  <2>4. OldGoes'
    BY <1>3, <1>4, <2>1 DEF Together, OldGoes
  <2>5. NoneForgotten'
    BY <2>1 DEF NoneForgotten, Pending
  <2> QED BY <2>2, <2>3, <2>4, <2>5 DEF Together
<1>5. ASSUME StartUpload(j, source), UNCHANGED <<doomed, failed, outcome>>,
             SameVersion(source) = {}, ~alone
      PROVE  Together'
  <2>1. /\ \A i \in Job : i # j => pc'[i] = pc[i] /\ man'[i] = man[i] /\ todo'[i] = todo[i]
        /\ pc'[j] = "upload" /\ man'[j] = source /\ todo'[j] = Records[source]
    BY <1>1, <1>5 DEF StartUpload, Goto, TypeOK
  <2>2. Undisturbed'
    BY <1>1, <1>5, <2>1 DEF Together, Undisturbed
  <2>3. NoStray'
    BY <1>1, <1>3, <1>5 DEF Together, NoStray
  <2>4. OldGoes'
    BY <1>3, <1>5 DEF OldGoes
  <2>5. NoneForgotten'
    BY <1>1, <2>1 DEF NoneForgotten, Pending
  <2> QED BY <2>2, <2>3, <2>4, <2>5 DEF Together
<1>6. CASE alone
  BY <1>1, <1>6 DEF Together
<1>7. CASE Report(j, "skipped_missing_source")
  BY <1>2, <1>7
<1>8. CASE ~alone /\ \E existing \in Pages(SameVersion(source), Top), dry \in BOOLEAN :
             Gate(j, source, existing, dry)
  <2>1. PICK dry \in BOOLEAN : Gate(j, source, SameVersion(source), dry)
    BY <1>8, AllOfTheVersion
  <2> QED BY <1>2, <1>4, <1>5, <1>8, <2>1 DEF Gate
<1> QED BY <1>6, <1>7, <1>8 DEF Examine

LEMMA DeleteBatchTogether ==
  ASSUME TypeOK, Together, NEW j \in Job, DeleteBatch(j)
  PROVE  Together'
<1> SUFFICES ASSUME ~alone PROVE (Undisturbed /\ NoStray /\ OldGoes /\ NoneForgotten)'
  BY DEF Together, DeleteBatch
<1>1. PICK B \in Pages(doomed[j], DeleteSize) :
        /\ Delete(B, {})
        /\ doomed' = [doomed EXCEPT ![j] = @ \ B]
        /\ IF doomed[j] \ B = {}
           THEN StartUpload(j, man[j])
           ELSE UNCHANGED <<pc, todo>>
  BY DEF DeleteBatch, ItemsFail, SpendFault
<1>2. /\ pc[j] = "delete" /\ man[j] = source
      /\ UNCHANGED <<alone, source, man, failed, outcome, clearing>>
  BY DEF DeleteBatch, Together, Undisturbed, clearVars
<1>3. /\ \A q \in Req : index'[q] = IF q \in B THEN NoDoc ELSE index[q]
      /\ left' = {}
  BY <1>1 DEF Delete, Together, Undisturbed
<1>4. \A q \in Loaded' : q \in Loaded /\ q \notin B /\ index'[q] = index[q]
  BY <1>3 DEF Loaded
<1>5. Old' \subseteq Old \ B
  BY <1>2, <1>4 DEF Old, SameVersion
<1>6. \A i \in Job : i # j => pc'[i] = pc[i] /\ doomed'[i] = doomed[i] /\ todo'[i] = todo[i]
  BY <1>1 DEF StartUpload, Goto, TypeOK
<1>7. doomed'[j] = doomed[j] \ B
  BY <1>1 DEF TypeOK
<1>8. Old \subseteq doomed[j]
  BY <1>2 DEF Together, OldGoes
<1>9. \/ pc'[j] = "delete"
      \/ pc'[j] = "upload" /\ todo'[j] = Records[source] /\ Old' = {}
  BY <1>1, <1>2, <1>5, <1>8 DEF StartUpload, Goto, TypeOK
<1>10. Undisturbed'
  BY <1>2, <1>3, <1>6, <1>9 DEF Together, Undisturbed
<1>11. NoStray'
  BY <1>4 DEF Together, NoStray
<1>12. OldGoes'
  BY <1>2, <1>5, <1>6, <1>7, <1>8, <1>9 DEF Together, OldGoes
<1>13. NoneForgotten'
  BY <1>2, <1>9 DEF NoneForgotten, Pending
<1> QED BY <1>10, <1>11, <1>12, <1>13

LEMMA UploadBatchTogether ==
  ASSUME TypeOK, Together, NEW j \in Job, UploadBatch(j)
  PROVE  Together'
<1> SUFFICES ASSUME ~alone PROVE (Undisturbed /\ NoStray /\ OldGoes /\ NoneForgotten)'
  BY DEF Together, UploadBatch
<1>1. /\ pc[j] = "upload" /\ man[j] = source /\ ~failed[j]
      /\ todo[j] \subseteq Records[source]
      /\ source \in Manifest
      /\ UNCHANGED <<alone, source, man, clearing>>
  BY DEF UploadBatch, Together, Undisturbed, clearVars, TypeOK
<1>2. PICK B \in Pages(todo[j], BatchSize) :
        /\ index' = [q \in Req |-> IF q \in B THEN source ELSE index[q]]
        /\ left' = left \ B
        /\ IF todo[j] \ B = {}
           THEN EndUpload(j, FALSE)
           ELSE /\ todo' = [todo EXCEPT ![j] = @ \ B]
                /\ failed' = [failed EXCEPT ![j] = FALSE]
                /\ UNCHANGED <<pc, doomed, tries, outcome>>
  <2>1. PICK B \in Pages(todo[j], BatchSize) : \E bad \in SUBSET B :
          /\ ItemsFail(bad)
          /\ index' = [q \in Req |-> IF q \in B \ bad THEN man[j] ELSE index[q]]
          /\ left' = left \ (B \ bad)
          /\ IF todo[j] \ B = {}
             THEN EndUpload(j, failed[j] \/ bad # {})
             ELSE /\ todo' = [todo EXCEPT ![j] = @ \ B]
                  /\ failed' = [failed EXCEPT ![j] = @ \/ bad # {}]
                  /\ UNCHANGED <<pc, doomed, tries, outcome>>
    BY DEF UploadBatch
  <2>2. \A bad : ItemsFail(bad) => bad = {}
    BY DEF ItemsFail, SpendFault
  <2>3. (failed[j] \/ {} # {}) = FALSE
    BY <1>1
  <2> QED BY <1>1, <2>1, <2>2, <2>3 DEF EndUpload
<1>3. B \subseteq todo[j] /\ B \subseteq Records[source] /\ B \subseteq Req
  BY <1>1, PagesAreParts DEF TypeOK
<1>4. \A q \in Req : index'[q] = IF q \in B THEN source ELSE index[q]
  BY <1>2
<1>5. Old' \subseteq Old /\ Old = {}
  <2>1. Old = {}
    BY <1>1 DEF Together, OldGoes
  <2>2. Old' \subseteq Old
    BY <1>1, <1>4 DEF Old, SameVersion, Loaded
  <2> QED BY <2>1, <2>2
<1>6. /\ \A i \in Job : i # j => /\ pc'[i] = pc[i] /\ todo'[i] = todo[i]
                                 /\ failed'[i] = failed[i]
                                 /\ outcome'[i] = outcome[i]
      /\ ~failed'[j]
      /\ \/ pc'[j] = "upload" /\ todo'[j] = todo[j] \ B
         \/ pc'[j] = "idle" /\ todo[j] \ B = {}
  <2>1. CASE todo[j] \ B = {}
    BY <1>2, <2>1 DEF EndUpload, Report, Goto, TypeOK
  <2>2. CASE todo[j] \ B # {}
    BY <1>1, <1>2, <2>2 DEF TypeOK
  <2> QED BY <2>1, <2>2
<1>7. Undisturbed'
  BY <1>1, <1>2, <1>3, <1>6 DEF Together, Undisturbed
<1>8. NoStray'
  BY <1>3, <1>4 DEF Together, NoStray, Loaded
<1>9. OldGoes'
  <2>1. Old' = {}
    BY <1>5
  <2> QED BY <2>1 DEF OldGoes
<1>10. NoneForgotten'
  <2> SUFFICES ASSUME NEW q \in Records[source], index'[q] # source PROVE Pending(q)'
    BY <1>1 DEF NoneForgotten
  <2>1. q \in Req
    BY <1>1, PublishAssumption
  <2>2. q \notin B /\ index[q] # source
    BY <1>4, <2>1
  <2>3. PICK i \in Job : pc[i] = "delete" \/ (pc[i] = "upload" /\ q \in todo[i])
    BY <1>1, <2>2 DEF Together, NoneForgotten, Pending
  <2> QED BY <1>1, <1>6, <2>2, <2>3 DEF Pending
<1> QED BY <1>7, <1>8, <1>9, <1>10

LEMMA TogetherStep == ASSUME TypeOK, Together, [Next]_vars PROVE Together'
<1>1. ASSUME NEW j \in Job, Start(j) PROVE Together'
  BY <1>1, TogetherStays DEF Start, Goto, TypeOK, clearVars
<1>2. ASSUME NEW j \in Job, Dies(j) PROVE Together'
  BY <1>2 DEF Dies, SpendFault, Together
<1>3. CASE StartClear \/ ClearDies \/ SourceChanges
  BY <1>3 DEF StartClear, ClearDies, SourceChanges, SpendFault, Together
<1>4. CASE ClearSearch \/ ClearDelete
  BY <1>4 DEF ClearSearch, ClearDelete, Together, Undisturbed
<1>5. CASE UNCHANGED vars
  BY <1>5, TogetherStays DEF vars, jobVars, clearVars
<1> QED BY <1>1, <1>2, <1>3, <1>4, <1>5, ExamineTogether, DeleteBatchTogether,
           UploadBatchTogether DEF Next

\* Executions that publish one manifest at the same time, with no fault, leave
\* the version whole once all are over, however many they are and whoever
\* deletes what another uploaded (each deletes first what it saw in
\* upload_controls_records, then uploads every record).
THEOREM ConcurrentEndsWholeHolds == Spec => []ConcurrentEndsWhole
<1>1. Spec => [](TypeOK /\ HasManifest)
  BY InitTypes, TypesStep, PTL DEF Spec
<1>2. Spec => []Together
  BY <1>1, InitTogether, TogetherStep, PTL DEF Spec
<1>3. ASSUME TypeOK, Together PROVE ConcurrentEndsWhole
  <2> SUFFICES ASSUME ~alone, Quiet, NEW j \in Job, outcome[j] = "uploaded"
               PROVE  Whole(source)
    BY DEF ConcurrentEndsWhole
  <2>1. source \in Manifest /\ left = {} /\ Old = {}
    BY <1>3 DEF Together, Undisturbed, OldGoes, TypeOK
  <2>2. \A q \in Records[source] : index[q] = source
    BY <1>3 DEF Together, NoneForgotten, Pending, Quiet
  <2>3. Records[source] \subseteq SameVersion(source)
    BY <2>1, <2>2, PublishAssumption DEF SameVersion, Loaded
  <2>4. \A q \in SameVersion(source) : q \in Records[source]
    BY <1>3, <2>1 DEF Together, NoStray, Old, SameVersion
  <2> QED BY <2>1, <2>2, <2>3, <2>4 DEF Whole
<1> QED BY <1>1, <1>2, <1>3, PTL
=============================================================================

------------------------ MODULE SourceLifecycleProofs ------------------------
(* For any requests, versions and jobs: what a deletion has removed stays    *)
(* out of the index; and with one administrator at a time, the files that    *)
(* the index and the queue count on are kept.                                *)
EXTENDS SerialLifecycle, TLAPS

(* The configs that the requests and the worker read and write are configs. *)
LEMMA ConfigShape ==
  /\ NewConfig \in Configs
  /\ \A c \in Configs, v \in Versions \cup {Null} :
        /\ [c EXCEPT !.pending = v] \in Configs
  /\ \A c \in Configs : [c EXCEPT !.life = "deleting"] \in Configs /\ [c EXCEPT !.life = "deleted"] \in Configs
  /\ \A c \in Configs : c.pending \in Versions \cup {Null}
  BY DEF Configs, NewConfig

(* So are the jobs, and the jobs that are queued or change their state keep *)
(* their kind.                                                              *)
LEMMA JobShape ==
  ASSUME NEW j \in Jobs, NEW state \in {"queued", "running", "succeeded", "failed", "removed"}
  PROVE  [j EXCEPT !.state = state] \in Jobs /\ [j EXCEPT !.state = state].kind = j.kind
  BY DEF Jobs

(* A source that was just created satisfies IInv. *)
LEMMA InitIInv == Init => IInv
<1> SUFFICES ASSUME NEW v \in Versions, Init,
                    config = [NewConfig EXCEPT !.pending = v], disk = {v},
                    jobs = [i \in Ids |-> IF i = 1
                       THEN [kind |-> "document", version |-> v, state |-> "queued"] ELSE NoJob]
             PROVE  IInv
  BY DEF Init
<1>1. config \in Configs /\ NewConfig \in Configs
  BY ConfigShape
<1>2. jobs \in [Ids -> Jobs] /\ \A i \in Ids : jobs[i].kind = "document"
  BY DEF Jobs, NoJob
<1>3. 1 \in Ids
  BY JobBoundAssumption DEF Ids
<1>4. TypeOK
  <2>1. /\ enabled \in BOOLEAN /\ config \in Configs /\ disk \subseteq Versions /\ index \in Versions \cup {Null}
        /\ jobs \in [Ids -> Jobs]
    BY <1>1, <1>2 DEF Init
  <2>2. /\ hpc \in [Handlers -> {"idle"} \cup Upload \cup Delete]
        /\ hcfg \in [Handlers -> Configs]
        /\ hver \in [Handlers -> Versions \cup {Null}]
        /\ hjob \in [Handlers -> {0} \cup Ids]
    BY <1>1 DEF Init
  <2>3. /\ wpc \in {"down", "idle", "verdict"} \cup Indexing \cup Purging
        /\ wjob \in {0} \cup Ids /\ wcfg \in Configs
        /\ wver \in Versions \cup {Null} /\ wold \in Versions \cup {Null}
        /\ accepted \in Ids /\ taken \subseteq Handlers
        /\ torn \subseteq Versions /\ left \subseteq Versions /\ purged \in BOOLEAN
    BY <1>1, <1>3 DEF Init
  <2> QED
    BY <2>1, <2>2, <2>3 DEF TypeOK
<1>5. InHand /\ DeletionDisables /\ PurgedIsOver /\ PurgedStaysEmpty
  BY <1>2 DEF Init, InHand, DeletionDisables, PurgedIsOver, PurgedStaysEmpty, Purging, Upload
<1> QED
  BY <1>4, <1>5 DEF IInv

(* The steps of an upload: none of them queues or begins a deletion. *)
LEMMA UploadIInv ==
  ASSUME IInv, NEW h \in Handlers,
         \/ \E v \in Versions : UploadRead(h, v)
         \/ Uploading(h) \/ UploadRefused(h) \/ UploadFails(h) \/ UndoFails(h)
  PROVE  IInv'
<1> USE ConfigShape DEF HGoto, Answer, UndoFiles, source, stores, worker, history
<1>1. ASSUME NEW v \in Versions, UploadRead(h, v) PROVE IInv'
  <2>1. TypeOK'
    BY <1>1 DEF UploadRead, IInv, TypeOK, InHand, Upload
  <2> QED
    BY <1>1, <2>1 DEF UploadRead, IInv, TypeOK, InHand, Upload, DeletionDisables, PurgedIsOver,
         PurgedStaysEmpty
<1>2. ASSUME UploadCheck(h) PROVE IInv'
  <2>1. TypeOK'
    BY <1>2 DEF UploadCheck, IInv, TypeOK, InHand, Upload
  <2> QED
    BY <1>2, <2>1 DEF UploadCheck, IInv, TypeOK, InHand, Upload, DeletionDisables, PurgedIsOver,
         PurgedStaysEmpty
<1>3. ASSUME UploadFiles(h) PROVE IInv'
  <2>1. TypeOK'
    BY <1>3 DEF UploadFiles, IInv, TypeOK, InHand, Upload
  <2> QED
    BY <1>3, <2>1 DEF UploadFiles, IInv, TypeOK, InHand, Upload, DeletionDisables, PurgedIsOver,
         PurgedStaysEmpty
<1>4. ASSUME UploadConfig(h) PROVE IInv'
  <2>1. TypeOK'
    BY <1>4 DEF UploadConfig, IInv, TypeOK, InHand, Upload
  <2> QED
    BY <1>4, <2>1 DEF UploadConfig, IInv, TypeOK, InHand, Upload, DeletionDisables, PurgedIsOver,
         PurgedStaysEmpty
<1>5. ASSUME NEW i \in Ids, UploadEnqueue(h, i) PROVE IInv'
  <2>1. [kind |-> "document", version |-> hver[h], state |-> "queued"] \in Jobs
    BY DEF IInv, TypeOK, Jobs
  <2>2. TypeOK'
    BY <1>5, <2>1 DEF UploadEnqueue, EnqueueJob, IInv, TypeOK, InHand, Upload
  <2> QED
    BY <1>5, <2>1, <2>2 DEF UploadEnqueue, EnqueueJob, IInv, TypeOK, InHand, Upload, DeletionDisables,
         PurgedIsOver, PurgedStaysEmpty
<1>6. ASSUME UploadAudit(h) PROVE IInv'
  <2>1. TypeOK'
    BY <1>6 DEF UploadAudit, IInv, TypeOK, InHand, Upload
  <2> QED
    BY <1>6, <2>1 DEF UploadAudit, IInv, TypeOK, InHand, Upload, DeletionDisables, PurgedIsOver,
         PurgedStaysEmpty
<1>7. ASSUME UndoJob(h) PROVE IInv'
  <2>1. ASSUME NEW i \in Ids, i = hjob[h]
        PROVE  [jobs[i] EXCEPT !.state = "removed"] \in Jobs
               /\ [jobs[i] EXCEPT !.state = "removed"].kind = jobs[i].kind
    BY JobShape DEF IInv, TypeOK
  <2>2. /\ jobs' \in [Ids -> Jobs]
        /\ \A i \in Ids : jobs'[i].kind = jobs[i].kind
    BY <1>7, <2>1 DEF UndoJob, IInv, TypeOK
  <2>3. TypeOK'
    BY <1>7, <2>2 DEF UndoJob, IInv, TypeOK, InHand, Upload
  <2> QED
    BY <1>7, <2>2, <2>3 DEF UndoJob, IInv, TypeOK, InHand, Upload, DeletionDisables, PurgedIsOver,
         PurgedStaysEmpty
<1>8. ASSUME UndoConfig(h) PROVE IInv'
  <2>1. TypeOK'
    BY <1>8 DEF UndoConfig, IInv, TypeOK, InHand, Upload
  <2> QED
    BY <1>8, <2>1 DEF UndoConfig, IInv, TypeOK, InHand, Upload, DeletionDisables, PurgedIsOver,
         PurgedStaysEmpty
<1>9. ASSUME UploadRefused(h) \/ UndoFails(h) PROVE IInv'
  <2>1. TypeOK'
    BY <1>9 DEF UploadRefused, UndoFails, IInv, TypeOK, InHand, Upload
  <2> QED
    BY <1>9, <2>1 DEF UploadRefused, UndoFails, IInv, TypeOK, InHand, Upload, DeletionDisables, PurgedIsOver,
         PurgedStaysEmpty
<1>10. ASSUME UploadFails(h) PROVE IInv'
  <2>1. TypeOK'
    BY <1>10 DEF UploadFails, IInv, TypeOK, InHand, Upload
  <2> QED
    BY <1>10, <2>1 DEF UploadFails, IInv, TypeOK, InHand, Upload, DeletionDisables, PurgedIsOver,
         PurgedStaysEmpty
<1> QED
  BY <1>1, <1>2, <1>3, <1>4, <1>5, <1>6, <1>7, <1>8, <1>9, <1>10 DEF Uploading

(* The steps of a deletion: its job comes after the source was disabled. *)
LEMMA DeleteIInv ==
  ASSUME IInv, NEW h \in Handlers, DeleteRead(h) \/ Deleting(h) \/ DeleteFails(h)
  PROVE  IInv'
<1> USE ConfigShape DEF HGoto, Answer, UndoFiles, source, stores, worker, history
<1>1. ASSUME DeleteRead(h) \/ DeleteCheck(h) PROVE IInv'
  <2>1. TypeOK'
    BY <1>1 DEF DeleteRead, DeleteCheck, IInv, TypeOK, Delete
  <2> QED
    BY <1>1, <2>1 DEF DeleteRead, DeleteCheck, IInv, TypeOK, InHand, Upload, Delete, DeletionDisables,
         PurgedIsOver, PurgedStaysEmpty
<1>2. ASSUME DeleteConfig(h) PROVE IInv'
  <2>1. TypeOK'
    BY <1>2 DEF DeleteConfig, IInv, TypeOK, Delete
  <2> QED
    BY <1>2, <2>1 DEF DeleteConfig, IInv, TypeOK, InHand, Upload, Delete, DeletionDisables, PurgedIsOver,
         PurgedStaysEmpty
<1>3. ASSUME NEW i \in Ids, DeleteEnqueue(h, i) PROVE IInv'
  <2>1. [kind |-> "delete", version |-> Null, state |-> "queued"] \in Jobs
    BY DEF Jobs
  <2>2. TypeOK'
    BY <1>3, <2>1 DEF DeleteEnqueue, EnqueueJob, IInv, TypeOK
  <2>3. ~enabled'
    BY <1>3 DEF DeleteEnqueue, IInv, DeletionDisables
  <2> QED
    BY <1>3, <2>2, <2>3 DEF DeleteEnqueue, EnqueueJob, IInv, TypeOK, InHand, Upload, Delete, DeletionDisables,
         PurgedIsOver, PurgedStaysEmpty
<1>4. ASSUME DeleteFails(h) PROVE IInv'
  <2>1. TypeOK'
    BY <1>4 DEF DeleteFails, IInv, TypeOK
  <2> QED
    BY <1>4, <2>1 DEF DeleteFails, IInv, TypeOK, InHand, Upload, Delete, DeletionDisables, PurgedIsOver,
         PurgedStaysEmpty
<1> QED
  BY <1>1, <1>2, <1>3, <1>4 DEF Deleting

(* A step that changes nothing but the state of one job keeps every kind. *)
LEMMA JobStateChanges ==
  ASSUME jobs \in [Ids -> Jobs], NEW i \in Ids,
         NEW state \in {"queued", "running", "succeeded", "failed", "removed"},
         jobs' = [jobs EXCEPT ![i].state = state]
  PROVE  jobs' \in [Ids -> Jobs] /\ \A k \in Ids : jobs'[k].kind = jobs[k].kind
<1>1. ASSUME NEW k \in Ids
      PROVE  jobs'[k] \in Jobs /\ jobs'[k].kind = jobs[k].kind
  <2>1. [jobs[k] EXCEPT !.state = state] \in Jobs /\ [jobs[k] EXCEPT !.state = state].kind = jobs[k].kind
    BY JobShape
  <2>2. jobs'[k] = IF k = i THEN [jobs[k] EXCEPT !.state = state] ELSE jobs[k]
    OBVIOUS
  <2> QED
    BY <2>1, <2>2
<1> QED
  BY <1>1

(* The worker's steps on a document job: it indexes what it found enabled. *)
LEMMA IndexingIInv ==
  ASSUME IInv, DocBegin \/ DocRequire \/ DocIndex \/ DocRecord \/ DocReread \/ DocPop
  PROVE  IInv'
<1> USE ConfigShape DEF WGoto, Locals, source, stores, handlers, history
<1>1. ASSUME DocBegin PROVE IInv'
  BY <1>1 DEF DocBegin, IInv, TypeOK, Indexing, Purging, InHand, DeletionDisables, PurgedIsOver,
         PurgedStaysEmpty
<1>2. ASSUME DocRequire PROVE IInv'
  BY <1>2 DEF DocRequire, IInv, TypeOK, Indexing, Purging, InHand, DeletionDisables, PurgedIsOver,
         PurgedStaysEmpty
<1>3. ASSUME DocIndex PROVE IInv'
  BY <1>3 DEF DocIndex, IInv, TypeOK, Indexing, Purging, InHand, DeletionDisables, PurgedIsOver,
         PurgedStaysEmpty
<1>4. ASSUME DocRecord PROVE IInv'
  BY <1>4 DEF DocRecord, IInv, TypeOK, Indexing, Purging, InHand, DeletionDisables, PurgedIsOver,
         PurgedStaysEmpty
<1>5. ASSUME DocReread PROVE IInv'
  BY <1>5 DEF DocReread, IInv, TypeOK, Indexing, Purging, InHand, DeletionDisables, PurgedIsOver,
         PurgedStaysEmpty
<1>6. ASSUME DocPop PROVE IInv'
  BY <1>6 DEF DocPop, IInv, TypeOK, Indexing, Purging, InHand, DeletionDisables, PurgedIsOver, PurgedStaysEmpty
<1> QED
  BY <1>1, <1>2, <1>3, <1>4, <1>5, <1>6

(* The worker's steps on a delete job: the source was disabled before it. *)
LEMMA PurgingIInv ==
  ASSUME IInv, DelBegin \/ DelContent \/ DelFiles \/ DelRecord
  PROVE  IInv'
<1> USE ConfigShape DEF WGoto, Locals, source, stores, handlers, history
<1>1. ASSUME DelBegin PROVE IInv'
  BY <1>1 DEF DelBegin, IInv, TypeOK, Purging, InHand, DeletionDisables, PurgedIsOver, PurgedStaysEmpty
<1>2. ASSUME DelContent PROVE IInv'
  BY <1>2 DEF DelContent, IInv, TypeOK, Purging, InHand, DeletionDisables, PurgedIsOver, PurgedStaysEmpty
<1>3. ASSUME DelFiles PROVE IInv'
  BY <1>3 DEF DelFiles, IInv, TypeOK, Purging, InHand, DeletionDisables, PurgedIsOver, PurgedStaysEmpty
<1>4. ASSUME DelRecord PROVE IInv'
  BY <1>4 DEF DelRecord, IInv, TypeOK, Purging, InHand, DeletionDisables, PurgedIsOver, PurgedStaysEmpty
<1> QED
  BY <1>1, <1>2, <1>3, <1>4

(* Leases, verdicts, retries, crashes and restarts. *)
LEMMA LeaseIInv ==
  ASSUME IInv,
         \/ \E i \in Ids : AdminRetry(i) \/ Claim(i)
         \/ Complete
         \/ \E state \in {"queued", "failed"} : Raise(state)
         \/ Crash
         \/ \E stale \in BOOLEAN : Restart(stale)
  PROVE  IInv'
<1> USE ConfigShape DEF WGoto, Locals, source, stores, handlers, worker, history, UndoFiles
<1>1. ASSUME NEW i \in Ids, AdminRetry(i) PROVE IInv'
  <2>1. jobs' \in [Ids -> Jobs] /\ \A k \in Ids : jobs'[k].kind = jobs[k].kind
    BY <1>1, JobStateChanges DEF AdminRetry, IInv, TypeOK
  <2> QED
    BY <1>1, <2>1 DEF AdminRetry, IInv, TypeOK, InHand, DeletionDisables, PurgedIsOver, PurgedStaysEmpty
<1>2. ASSUME NEW i \in Ids, Claim(i) PROVE IInv'
  <2>1. jobs' \in [Ids -> Jobs] /\ \A k \in Ids : jobs'[k].kind = jobs[k].kind
    BY <1>2, JobStateChanges DEF Claim, IInv, TypeOK
  <2>2. TypeOK'
    BY <1>2, <2>1 DEF Claim, IInv, TypeOK, Indexing, Purging
  <2>3. wpc' \in Purging => ~enabled
    BY <1>2 DEF Claim, IInv, DeletionDisables, Purging
  <2> QED
    BY <1>2, <2>1, <2>2, <2>3 DEF Claim, IInv, InHand, DeletionDisables, PurgedIsOver, PurgedStaysEmpty
<1>3. ASSUME NEW state \in {"queued", "failed", "succeeded"}, Verdict(state), wjob \in Ids,
             UNCHANGED <<enabled, disk, handlers, history>>,
             config' \in Configs, index' \in Versions \cup {Null}, purged => index' = Null
      PROVE  IInv'
  <2>1. jobs' \in [Ids -> Jobs] /\ \A k \in Ids : jobs'[k].kind = jobs[k].kind
    BY <1>3, JobStateChanges DEF Verdict, IInv, TypeOK
  <2> QED
    BY <1>3, <2>1 DEF Verdict, IInv, TypeOK, InHand, DeletionDisables, PurgedIsOver, PurgedStaysEmpty, Purging
<1>4. ASSUME Complete PROVE IInv'
  BY <1>3, <1>4 DEF Complete, IInv, TypeOK, InHand, PurgedStaysEmpty
<1>5. ASSUME NEW state \in {"queued", "failed"}, Raise(state) PROVE IInv'
  <2>1. wjob \in Ids
    BY <1>5 DEF Raise, IInv, InHand, Indexing, Purging
  <2>2. config' \in Configs /\ index' \in Versions \cup {Null} /\ (purged => index' = Null)
    BY <1>5 DEF Raise, RolledBack, IInv, TypeOK, PurgedIsOver, PurgedStaysEmpty
  <2> QED
    BY <1>3, <1>5, <2>1, <2>2 DEF Raise
<1>6. ASSUME Crash PROVE IInv'
  BY <1>6 DEF Crash, IInv, TypeOK, InHand, Upload, Purging, DeletionDisables, PurgedIsOver, PurgedStaysEmpty
<1>7. ASSUME NEW stale \in BOOLEAN, Restart(stale) PROVE IInv'
  <2>1. jobs' \in [Ids -> Jobs] /\ \A k \in Ids : jobs'[k].kind = jobs[k].kind
    <3>1. ASSUME NEW k \in Ids PROVE jobs'[k] \in Jobs /\ jobs'[k].kind = jobs[k].kind
      <4>1. jobs[k] \in Jobs
        BY DEF IInv, TypeOK
      <4>2. jobs'[k] = [jobs[k] EXCEPT !.state = "queued"] \/ jobs'[k] = jobs[k]
        BY <1>7 DEF Restart
      <4> QED
        BY <4>1, <4>2, JobShape
    <3> QED
      BY <1>7, <3>1 DEF Restart
  <2> QED
    BY <1>7, <2>1 DEF Restart, IInv, TypeOK, InHand, Purging, DeletionDisables, PurgedIsOver, PurgedStaysEmpty
<1> QED
  BY <1>1, <1>2, <1>4, <1>5, <1>6, <1>7

LEMMA StepIInv == IInv /\ [Next]_vars => IInv'
<1> SUFFICES ASSUME IInv, [Next]_vars PROVE IInv'
  OBVIOUS
<1>1. CASE Next
  BY <1>1, UploadIInv, DeleteIInv, IndexingIInv, PurgingIInv, LeaseIInv
     DEF Next, Request, Mishap, Process
<1>2. CASE UNCHANGED vars
  BY <1>2 DEF vars, source, stores, handlers, worker, history, IInv, TypeOK, InHand, DeletionDisables,
         PurgedIsOver, PurgedStaysEmpty
<1> QED
  BY <1>1, <1>2

(* What a deletion has removed from the index stays out of it, whatever      *)
(* uploads, retries, crashes and restarts overlap with it: the source is     *)
(* disabled before there is a delete job, nothing enables it again, and the  *)
(* worker indexes only what it found enabled (index_document_version's       *)
(* _require_source).                                                         *)
THEOREM DeletionIsFinal == Spec => []PurgedStaysEmpty
<1>1. IInv => PurgedStaysEmpty
  BY DEF IInv
<1> QED
  BY InitIInv, StepIInv, <1>1, PTL DEF Spec

(* Every request holds the version it uploads and the job it has enqueued,   *)
(* and the worker its job, in every step that uses them.                     *)
THEOREM TypesCorrect == Spec => []TypeOK
<1>1. IInv => TypeOK
  BY DEF IInv
<1> QED
  BY InitIInv, StepIInv, <1>1, PTL DEF Spec

-----------------------------------------------------------------------------
(* One administrator at a time: the directories are kept.  FilesInv of       *)
(* SerialLifecycle, one lemma for each of its parts.                         *)

\* What the setting of a job's state does to each job.
LEMMA Moved ==
  ASSUME jobs \in [Ids -> Jobs], NEW i \in Ids, NEW s, jobs' = [jobs EXCEPT ![i].state = s]
  PROVE  \A k \in Ids : /\ jobs'[k].kind = jobs[k].kind /\ jobs'[k].version = jobs[k].version
                        /\ jobs'[k].state = IF k = i THEN s ELSE jobs[k].state
<1> TAKE k \in Ids
<1>1. jobs'[k] = IF k = i THEN [jobs[k] EXCEPT !.state = s] ELSE jobs[k]
  OBVIOUS
<1>2. jobs[k] \in Jobs
  OBVIOUS
<1>3. /\ [jobs[k] EXCEPT !.state = s].kind = jobs[k].kind
      /\ [jobs[k] EXCEPT !.state = s].version = jobs[k].version
      /\ [jobs[k] EXCEPT !.state = s].state = s
  BY <1>2 DEF Jobs
<1> QED BY <1>1, <1>3

LEMMA JobKinds == \A j \in Jobs : j.kind \in {"document", "delete"}
BY DEF Jobs

\* An enqueued job is the newest.
LEMMA Enqueued ==
  ASSUME jobs \in [Ids -> Jobs], NEW i \in Ids, NEW kind, NEW v, EnqueueJob(i, kind, v),
         InOrder
  PROVE  /\ Newest(i)' /\ jobs[i].state = "unused" /\ \A k \in Ids : k < i => jobs[k].state # "unused"
         /\ jobs'[i].kind = kind /\ jobs'[i].version = v /\ jobs'[i].state = "queued"
         /\ \A k \in Ids : k # i => jobs'[k] = jobs[k]
<1>1. jobs' = [jobs EXCEPT ![i] = [kind |-> kind, version |-> v, state |-> "queued"]]
  BY DEF EnqueueJob
<1>2. /\ jobs'[i] = [kind |-> kind, version |-> v, state |-> "queued"]
      /\ \A k \in Ids : k # i => jobs'[k] = jobs[k]
  BY <1>1
<1>3. \A k \in Ids : k > i => jobs[k].state = "unused"
  BY DEF EnqueueJob, InOrder, Ids
<1>4. Newest(i)'
  BY <1>2, <1>3 DEF Newest, Ids
<1> QED BY <1>2, <1>4 DEF EnqueueJob

LEMMA ConfigFields ==
  ASSUME NEW c \in Configs, NEW v
  PROVE  [c EXCEPT !.pending = v].pending = v /\ [c EXCEPT !.pending = v].life = c.life
BY DEF Configs

\* A restart moves running jobs only.
LEMMA Requeued ==
  ASSUME jobs \in [Ids -> Jobs], NEW stale \in BOOLEAN, Restart(stale)
  PROVE  \A k \in Ids : /\ jobs'[k].kind = jobs[k].kind /\ jobs'[k].version = jobs[k].version
                        /\ jobs'[k].state = IF stale /\ jobs[k].state = "running" THEN "queued" ELSE jobs[k].state
<1> TAKE k \in Ids
<1>1. jobs'[k] = IF stale /\ jobs[k].state = "running" THEN [jobs[k] EXCEPT !.state = "queued"] ELSE jobs[k]
  BY DEF Restart
<1>2. jobs[k] \in Jobs
  OBVIOUS
<1>3. /\ [jobs[k] EXCEPT !.state = "queued"].kind = jobs[k].kind
      /\ [jobs[k] EXCEPT !.state = "queued"].version = jobs[k].version
      /\ [jobs[k] EXCEPT !.state = "queued"].state = "queued"
  BY <1>2 DEF Jobs
<1> QED BY <1>1, <1>3

\* A request begins when no other is under way.
LEMMA OneRequestStep ==
  ASSUME IInv, FilesInv, SerialNext
  PROVE  OneRequest'
<1> USE NullAssumption DEF IInv, TypeOK, FilesInv, HGoto, Answer, WGoto, Locals, source, stores, handlers,
         worker, history, UndoFiles, OneRequest, Waiting
<1>1. ASSUME NEW h \in Handlers,
             \/ (Waiting /\ \E v \in Versions : UploadRead(h, v)) \/ UploadCheck(h)
             \/ UploadFiles(h) \/ UploadRefused(h) \/ UploadConfig(h)
             \/ (\E i \in Ids : UploadEnqueue(h, i)) \/ UploadAudit(h)
             \/ UploadFails(h) \/ UndoJob(h) \/ UndoConfig(h)
             \/ UndoFails(h)
             \/ (Waiting /\ DeleteRead(h)) \/ DeleteCheck(h) \/ DeleteConfig(h)
             \/ (\E i \in Ids : DeleteEnqueue(h, i)) \/ DeleteFails(h)
      PROVE  OneRequest'
  BY <1>1 DEF UploadRead, UploadCheck, OpenJobs, UploadFiles, UploadRefused, UploadConfig, UploadEnqueue,
         UploadAudit, UploadFails, UndoJob, UndoConfig, UndoFails, DeleteRead, DeleteCheck, DeleteConfig,
         DeleteEnqueue, DeleteFails
<1>2. ASSUME \/ DocBegin \/ DocRequire \/ DocIndex \/ DocRecord \/ DocReread \/ DocPop
             \/ DelBegin \/ DelContent \/ DelFiles \/ DelRecord \/ Complete
             \/ (\E state \in {"queued", "failed"} : Raise(state)) \/ Crash
             \/ (\E stale \in BOOLEAN : Restart(stale))
      PROVE  OneRequest'
  BY <1>2 DEF DocBegin, DocRequire, DocIndex, DocRecord, DocReread, DocPop, DelBegin, DelContent, DelFiles,
         DelRecord, Complete, Verdict, Raise, RolledBack, Crash, Restart
<1>3. ASSUME NEW i \in Ids,
             \/ (Waiting /\ AdminRetry(i))
             \/ Claim(i)
      PROVE  OneRequest'
  BY <1>3 DEF AdminRetry, Claim
<1> QED
  BY <1>1, <1>2, <1>3
     DEF SerialNext, Mishap, Uploading, Deleting, Process

\* Only a deletion disables the source, and none runs beside an upload.
LEMMA UploadsEnabledStep ==
  ASSUME IInv, FilesInv, SerialNext
  PROVE  UploadsEnabled'
<1> USE NullAssumption DEF IInv, TypeOK, FilesInv, HGoto, Answer, WGoto, Locals, source, stores, handlers,
         worker, history, UndoFiles, UploadsEnabled, OneRequest, Upload, Delete, Purging, DeletionDisables
<1>1. ASSUME NEW h \in Handlers,
             \/ (Waiting /\ \E v \in Versions : UploadRead(h, v)) \/ UploadCheck(h)
             \/ UploadFiles(h) \/ UploadRefused(h) \/ UploadConfig(h)
             \/ (\E i \in Ids : UploadEnqueue(h, i)) \/ UploadAudit(h)
             \/ UploadFails(h) \/ UndoJob(h) \/ UndoConfig(h)
             \/ UndoFails(h)
             \/ (Waiting /\ DeleteRead(h)) \/ DeleteCheck(h) \/ DeleteConfig(h)
             \/ (\E i \in Ids : DeleteEnqueue(h, i)) \/ DeleteFails(h)
      PROVE  UploadsEnabled'
  BY <1>1 DEF UploadRead, UploadCheck, OpenJobs, UploadFiles, UploadRefused, UploadConfig, UploadEnqueue,
         UploadAudit, UploadFails, UndoJob, UndoConfig, UndoFails, DeleteRead, DeleteCheck, DeleteConfig,
         DeleteEnqueue, DeleteFails
<1>2. ASSUME \/ DocBegin \/ DocRequire \/ DocIndex \/ DocRecord \/ DocReread \/ DocPop
             \/ DelBegin \/ DelContent \/ DelFiles \/ DelRecord \/ Complete
             \/ (\E state \in {"queued", "failed"} : Raise(state)) \/ Crash
             \/ (\E stale \in BOOLEAN : Restart(stale))
      PROVE  UploadsEnabled'
  BY <1>2 DEF DocBegin, DocRequire, DocIndex, DocRecord, DocReread, DocPop, DelBegin, DelContent, DelFiles,
         DelRecord, Complete, Verdict, Raise, RolledBack, Crash, Restart
<1>3. ASSUME NEW i \in Ids,
             \/ (Waiting /\ AdminRetry(i))
             \/ Claim(i)
      PROVE  UploadsEnabled'
  BY <1>3 DEF AdminRetry, Claim
<1> QED
  BY <1>1, <1>2, <1>3
     DEF SerialNext, Mishap, Uploading, Deleting, Process

\* A claimed job is running until its verdict.
LEMMA WorkerRunsStep ==
  ASSUME IInv, FilesInv, SerialNext
  PROVE  WorkerRuns'
<1> USE NullAssumption DEF IInv, TypeOK, FilesInv, HGoto, Answer, WGoto, Locals, source, stores, handlers,
         worker, history, UndoFiles, WorkerRuns, OwnJob, Owns, InHand, Indexing, Purging, Upload
<1>1. ASSUME NEW h \in Handlers,
             \/ (Waiting /\ \E v \in Versions : UploadRead(h, v)) \/ UploadCheck(h)
             \/ UploadFiles(h) \/ UploadRefused(h) \/ UploadConfig(h)
             \/ UploadAudit(h) \/ UploadFails(h) \/ UndoConfig(h) \/ UndoFails(h)
             \/ (Waiting /\ DeleteRead(h)) \/ DeleteCheck(h) \/ DeleteConfig(h)
             \/ DeleteFails(h)
      PROVE  WorkerRuns'
  <2>1. /\ UNCHANGED <<jobs, wpc, wjob>>
        /\ \A g \in Handlers : hjob'[g] = hjob[g] \/ (g = h /\ hjob'[g] = 0)
        /\ \A g \in Handlers : hjob'[g] # 0 /\ g \in taken => g \in taken'
    BY <1>1 DEF UploadRead, UploadCheck, OpenJobs, UploadFiles, UploadRefused, UploadConfig, UploadAudit,
         UploadFails, UndoConfig, UndoFails, DeleteRead, DeleteCheck, DeleteConfig, DeleteFails
  <2>2. wpc \notin {"down", "idle"} => wjob # 0
    BY DEF Ids
  <2> QED BY <2>1, <2>2
<1>5. ASSUME NEW h \in Handlers, NEW i \in Ids, UploadEnqueue(h, i) \/ DeleteEnqueue(h, i)
      PROVE  WorkerRuns'
  <2>1. jobs[i].state = "unused" /\ \A k \in Ids : k # i => jobs'[k] = jobs[k]
    BY <1>5, Enqueued DEF UploadEnqueue, DeleteEnqueue
  <2>2. UNCHANGED <<wpc, wjob, taken>> /\ \A g \in Handlers : hjob'[g] \in {hjob[g], i, 0}
    BY <1>5 DEF UploadEnqueue, DeleteEnqueue
  <2>3. wpc \notin {"down", "idle"} => wjob \in Ids /\ wjob # i /\ wjob # 0
    BY <2>1 DEF Ids
  <2> QED BY <2>1, <2>2, <2>3
<1>6. ASSUME NEW h \in Handlers, UndoJob(h) PROVE WorkerRuns'
  <2>1. hjob[h] \in Ids /\ UNCHANGED <<wpc, wjob, taken, hjob>>
    BY <1>6 DEF UndoJob
  <2>2. \A k \in Ids : jobs[k].state = "running" => jobs'[k] = jobs[k]
    BY <1>6, <2>1 DEF UndoJob
  <2> QED BY <2>1, <2>2
<1>2. ASSUME \/ DocBegin \/ DocRequire \/ DocIndex \/ DocRecord \/ DocReread \/ DocPop
             \/ DelBegin \/ DelContent \/ DelFiles \/ DelRecord \/ Complete
             \/ (\E state \in {"queued", "failed"} : Raise(state)) \/ Crash
             \/ (\E stale \in BOOLEAN : Restart(stale))
      PROVE  WorkerRuns'
  BY <1>2, Moved, Requeued DEF DocBegin, DocRequire, DocIndex, DocRecord, DocReread, DocPop, DelBegin,
         DelContent, DelFiles, DelRecord, Complete, Verdict, Raise, RolledBack, Crash, Restart
<1>3. ASSUME NEW i \in Ids, Waiting /\ AdminRetry(i)
      PROVE  WorkerRuns'
  BY <1>3, Moved DEF AdminRetry
<1>4. ASSUME NEW i \in Ids, Claim(i)
      PROVE  WorkerRuns'
  BY <1>4, Moved, JobKinds DEF Claim
<1> QED
  BY <1>1, <1>2, <1>3, <1>4, <1>5, <1>6
     DEF SerialNext, Mishap, Uploading, Deleting, Process

\* enqueue_job appends.
LEMMA InOrderStep ==
  ASSUME IInv, FilesInv, SerialNext
  PROVE  InOrder'
<1> USE NullAssumption DEF IInv, TypeOK, FilesInv, HGoto, Answer, WGoto, Locals, source, stores, handlers,
         worker, history, UndoFiles, InOrder, OwnJob, Owns, WorkerRuns, InHand, Indexing, Purging, Ids
<1>1. ASSUME NEW h \in Handlers,
             \/ (Waiting /\ \E v \in Versions : UploadRead(h, v)) \/ UploadCheck(h)
             \/ UploadFiles(h) \/ UploadRefused(h) \/ UploadConfig(h) \/ UploadAudit(h)
             \/ UploadFails(h) \/ UndoConfig(h)
             \/ UndoFails(h)
             \/ (Waiting /\ DeleteRead(h)) \/ DeleteCheck(h) \/ DeleteConfig(h)
             \/ DeleteFails(h)
      PROVE  InOrder'
  <2>1. UNCHANGED jobs /\ accepted' \in {accepted, hjob[h]} /\ (accepted' # accepted => hpc[h] = "uploadAudit")
    BY <1>1 DEF UploadRead, UploadCheck, OpenJobs, UploadFiles, UploadRefused, UploadConfig, UploadAudit,
         UploadFails, UndoConfig, UndoFails, DeleteRead, DeleteCheck, DeleteConfig, DeleteFails
  <2> QED BY <2>1 DEF InOrder
<1>2. ASSUME NEW h \in Handlers, \E i \in Ids : UploadEnqueue(h, i)
      PROVE  InOrder'
  BY <1>2, Enqueued DEF UploadEnqueue
<1>3. ASSUME NEW h \in Handlers, UndoJob(h) PROVE InOrder'
  BY <1>3, Moved DEF UndoJob
<1>4. ASSUME NEW h \in Handlers, \E i \in Ids : DeleteEnqueue(h, i)
      PROVE  InOrder'
  BY <1>4, Enqueued DEF DeleteEnqueue
<1>5. ASSUME \/ DocBegin \/ DocRequire \/ DocIndex \/ DocRecord \/ DocReread \/ DocPop
             \/ DelBegin \/ DelContent \/ DelFiles \/ DelRecord \/ Crash
      PROVE  InOrder'
  <2>1. UNCHANGED <<jobs, accepted>>
    BY <1>5 DEF DocBegin, DocRequire, DocIndex, DocRecord, DocReread, DocPop, DelBegin, DelContent, DelFiles,
         DelRecord, Crash
  <2> QED BY <2>1 DEF InOrder
<1>6. ASSUME Complete PROVE InOrder'
  BY <1>6, Moved DEF Complete, Verdict
<1>7. ASSUME \E state \in {"queued", "failed"} : Raise(state) PROVE InOrder'
  BY <1>7, Moved DEF Raise, RolledBack, Verdict
<1>8. ASSUME \E stale \in BOOLEAN : Restart(stale) PROVE InOrder'
  BY <1>8, Requeued DEF Restart
<1>9. ASSUME NEW i \in Ids, Waiting /\ AdminRetry(i) PROVE InOrder'
  BY <1>9, Moved DEF AdminRetry
<1>10. ASSUME NEW i \in Ids, Claim(i)
      PROVE  InOrder'
  BY <1>10, Moved DEF Claim
<1> QED
  BY <1>1, <1>2, <1>3, <1>4, <1>5, <1>6, <1>7, <1>8, <1>9, <1>10
     DEF SerialNext, Mishap, Uploading, Deleting, Process

\* No job is enqueued beside an upload, and none is claimed that is being taken back.
LEMMA OwnJobStep ==
  ASSUME IInv, FilesInv, SerialNext
  PROVE  OwnJob'
<1> USE NullAssumption DEF IInv, TypeOK, FilesInv, HGoto, Answer, WGoto, Locals, source, stores, handlers,
         worker, history, UndoFiles, OwnJob, Owns, OneRequest, WorkerRuns, InOrder, OneOpen, UploadsEnabled,
         Newest, Ids, InHand, Upload, Waiting
<1>1. ASSUME NEW h \in Handlers, Waiting /\ \E v \in Versions : UploadRead(h, v)
      PROVE  OwnJob'
  BY <1>1 DEF UploadRead
<1>2. ASSUME NEW h \in Handlers, UploadCheck(h) PROVE OwnJob'
  BY <1>2, JobKinds DEF UploadCheck, OpenJobs
<1>3. ASSUME NEW h \in Handlers, UploadFiles(h) PROVE OwnJob'
  BY <1>3 DEF UploadFiles
<1>4. ASSUME NEW h \in Handlers, UploadRefused(h) PROVE OwnJob'
  BY <1>4 DEF UploadRefused
<1>5. ASSUME NEW h \in Handlers, UploadConfig(h) PROVE OwnJob'
  BY <1>5, ConfigFields DEF UploadConfig
<1>6. ASSUME NEW h \in Handlers, \E i \in Ids : UploadEnqueue(h, i) PROVE OwnJob'
  <2>1. PICK i \in Ids : UploadEnqueue(h, i)
    BY <1>6
  <2>2. /\ Newest(i)' /\ jobs[i].state = "unused"
        /\ jobs'[i].version = hver[h] /\ jobs'[i].state = "queued"
    BY <2>1, Enqueued DEF UploadEnqueue
  <2>3. /\ hpc' = [hpc EXCEPT ![h] = "uploadAudit"] /\ hjob' = [hjob EXCEPT ![h] = i]
        /\ UNCHANGED <<hver, accepted, taken>> /\ hpc[h] = "uploadEnqueue"
    BY <2>1 DEF UploadEnqueue
  <2> SUFFICES ASSUME NEW g \in Handlers PROVE Owns(g)'
    OBVIOUS
  <2>4. CASE g = h
    BY <2>2, <2>3, <2>4 DEF Owns
  <2>5. CASE g # h
    <3>1. hpc[g] = "idle" /\ hpc'[g] = "idle" /\ hjob'[g] = hjob[g]
      BY <2>3, <2>5
    <3>2. Owns(g)
      OBVIOUS
    <3> QED BY <2>3, <3>1, <3>2 DEF Owns
  <2> QED BY <2>4, <2>5
<1>7. ASSUME NEW h \in Handlers, UploadAudit(h) PROVE OwnJob'
  BY <1>7 DEF UploadAudit
<1>8. ASSUME NEW h \in Handlers, UploadFails(h) PROVE OwnJob'
  <2>1. UNCHANGED <<jobs, hjob, hver, accepted, taken>>
    BY <1>8 DEF UploadFails
  <2>2. \/ hpc[h] = "uploadEnqueue" /\ hpc' = [hpc EXCEPT ![h] = "undoConfig"]
        \/ hpc[h] = "uploadAudit" /\ hpc' = [hpc EXCEPT ![h] = "undoJob"]
    BY <1>8 DEF UploadFails
  <2> SUFFICES ASSUME NEW g \in Handlers PROVE Owns(g)'
    OBVIOUS
  <2>3. Owns(g)
    OBVIOUS
  <2>4. \/ hpc'[g] = hpc[g]
        \/ hpc[g] = "uploadEnqueue" /\ hpc'[g] = "undoConfig"
        \/ hpc[g] = "uploadAudit" /\ hpc'[g] = "undoJob"
    BY <2>2
  <2> QED BY <2>1, <2>3, <2>4 DEF Owns
<1>9. ASSUME NEW h \in Handlers, UndoJob(h) PROVE OwnJob'
  <2>1. hjob[h] \in Ids /\ UNCHANGED <<hjob, hver, accepted, taken>>
    BY <1>9 DEF UndoJob
  <2>2. \A k \in Ids : /\ jobs'[k].version = jobs[k].version
                       /\ (jobs'[k].state = "unused") = (jobs[k].state = "unused")
    BY <1>9, <2>1, Moved DEF UndoJob
  <2>3. hpc[h] = "undoJob" /\ hpc' = [hpc EXCEPT ![h] = "undoConfig"]
    BY <1>9 DEF UndoJob
  <2> SUFFICES ASSUME NEW g \in Handlers PROVE Owns(g)'
    OBVIOUS
  <2>4. Owns(g)
    OBVIOUS
  <2>5. hpc'[g] = hpc[g] \/ (g = h /\ hpc'[g] = "undoConfig")
    BY <2>3
  <2> QED BY <2>1, <2>2, <2>4, <2>5 DEF Owns
<1>10. ASSUME NEW h \in Handlers, UndoConfig(h) PROVE OwnJob'
  BY <1>10 DEF UndoConfig
<1>11. ASSUME NEW h \in Handlers, UndoFails(h)
      PROVE  OwnJob'
  BY <1>11 DEF UndoFails
<1>12. ASSUME NEW h \in Handlers, Waiting /\ DeleteRead(h) PROVE OwnJob'
  BY <1>12 DEF DeleteRead
<1>13. ASSUME NEW h \in Handlers, DeleteCheck(h) PROVE OwnJob'
  BY <1>13 DEF DeleteCheck
<1>14. ASSUME NEW h \in Handlers, DeleteConfig(h) PROVE OwnJob'
  BY <1>14, ConfigFields DEF DeleteConfig
<1>15. ASSUME NEW h \in Handlers, \E i \in Ids : DeleteEnqueue(h, i) PROVE OwnJob'
  BY <1>15, Enqueued DEF DeleteEnqueue
<1>16. ASSUME NEW h \in Handlers, DeleteFails(h) PROVE OwnJob'
  BY <1>16 DEF DeleteFails, Delete
<1>17. ASSUME \/ DocBegin \/ DocRequire \/ DocIndex \/ DocRecord \/ DocReread \/ DocPop
             \/ DelBegin \/ DelContent \/ DelFiles \/ DelRecord
      PROVE  OwnJob'
  <2>1. UNCHANGED <<handlers, jobs, accepted, taken>>
    BY <1>17 DEF DocBegin, DocRequire, DocIndex, DocRecord, DocReread, DocPop, DelBegin, DelContent, DelFiles,
         DelRecord
  <2> QED BY <2>1 DEF OwnJob, Owns, Newest
<1>18. ASSUME Complete PROVE OwnJob'
  BY <1>18, Moved DEF Complete, Verdict
<1>19. ASSUME NEW state \in {"queued", "failed"}, Raise(state) PROVE OwnJob'
  <2>1. jobs[wjob].state = "running" /\ wjob \in Ids
    BY <1>19 DEF Raise, Indexing, Purging
  <2>2. \A k \in Ids : /\ jobs'[k].version = jobs[k].version
                       /\ jobs'[k].state = IF k = wjob THEN state ELSE jobs[k].state
    BY <1>19, <2>1, Moved DEF Raise, Verdict
  <2>3. UNCHANGED <<handlers, accepted, taken>>
    BY <1>19 DEF Raise
  <2> QED BY <2>1, <2>2, <2>3
<1>20. ASSUME Crash PROVE OwnJob'
  BY <1>20 DEF Crash
<1>21. ASSUME \E stale \in BOOLEAN : Restart(stale) PROVE OwnJob'
  BY <1>21, Requeued DEF Restart
<1>22. ASSUME NEW i \in Ids, Waiting /\ AdminRetry(i) PROVE OwnJob'
  BY <1>22, Moved DEF AdminRetry
<1>23. ASSUME NEW i \in Ids, Claim(i)
      PROVE  OwnJob'
  BY <1>23, Moved, JobKinds DEF Claim
<1> QED
  BY <1>1, <1>2, <1>3, <1>4, <1>5, <1>6, <1>7, <1>8, <1>9, <1>10, <1>11, <1>12,
        <1>13, <1>14, <1>15, <1>16, <1>17, <1>18, <1>19, <1>20, <1>21, <1>22, <1>23
     DEF SerialNext, Mishap, Uploading, Deleting, Process

\* The check (list_jobs) is followed by the one job of the request.
LEMMA OneOpenStep ==
  ASSUME IInv, FilesInv, SerialNext
  PROVE  OneOpen'
<1> USE NullAssumption DEF IInv, TypeOK, FilesInv, HGoto, Answer, WGoto, Locals, source, stores, handlers,
         worker, history, UndoFiles, OneOpen, OneRequest, OwnJob, Owns, UploadsEnabled, WorkerRuns, Newest,
         Ids, InHand, Upload, Purging, Indexing, DeletionDisables, Waiting
<1>1. ASSUME NEW h \in Handlers, Waiting /\ \E v \in Versions : UploadRead(h, v)
      PROVE  OneOpen'
  BY <1>1 DEF UploadRead
<1>2. ASSUME NEW h \in Handlers, UploadCheck(h) PROVE OneOpen'
  BY <1>2, JobKinds DEF UploadCheck, OpenJobs
<1>3. ASSUME NEW h \in Handlers, UploadFiles(h) \/ UploadRefused(h)
      PROVE  OneOpen'
  <2>1. UNCHANGED jobs
    BY <1>3 DEF UploadFiles, UploadRefused
  <2>2. \A g \in Handlers :
            \/ hpc'[g] = hpc[g] /\ hjob'[g] = hjob[g]
            \/ hpc'[g] = "idle"
            \/ hpc[g] = "uploadFiles" /\ hjob'[g] = hjob[g]
    BY <1>3 DEF UploadFiles, UploadRefused
  <2> QED BY <2>1, <2>2
<1>4. ASSUME NEW h \in Handlers, UploadConfig(h) PROVE OneOpen'
  BY <1>4, ConfigFields DEF UploadConfig
<1>5. ASSUME NEW h \in Handlers, \E i \in Ids : UploadEnqueue(h, i)
      PROVE  OneOpen'
  BY <1>5, Enqueued DEF UploadEnqueue
<1>6. ASSUME NEW h \in Handlers, UploadAudit(h) PROVE OneOpen'
  BY <1>6 DEF UploadAudit
<1>7. ASSUME NEW h \in Handlers, UploadFails(h) PROVE OneOpen'
  BY <1>7 DEF UploadFails
<1>8. ASSUME NEW h \in Handlers, UndoJob(h) PROVE OneOpen'
  BY <1>8, Moved DEF UndoJob
<1>9. ASSUME NEW h \in Handlers, UndoConfig(h) PROVE OneOpen'
  BY <1>9 DEF UndoConfig
<1>10. ASSUME NEW h \in Handlers, UndoFails(h)
      PROVE  OneOpen'
  BY <1>10 DEF UndoFails
<1>11. ASSUME NEW h \in Handlers, Waiting /\ DeleteRead(h) PROVE OneOpen'
  BY <1>11 DEF DeleteRead
<1>12. ASSUME NEW h \in Handlers, DeleteCheck(h) PROVE OneOpen'
  BY <1>12 DEF DeleteCheck
<1>13. ASSUME NEW h \in Handlers, DeleteConfig(h) PROVE OneOpen'
  BY <1>13, ConfigFields DEF DeleteConfig
<1>14. ASSUME NEW h \in Handlers, \E i \in Ids : DeleteEnqueue(h, i)
      PROVE  OneOpen'
  BY <1>14, Enqueued DEF DeleteEnqueue
<1>15. ASSUME NEW h \in Handlers, DeleteFails(h) PROVE OneOpen'
  BY <1>15 DEF DeleteFails
<1>16. ASSUME \/ DocBegin \/ DocRequire \/ DocIndex \/ DocRecord \/ DocReread \/ DocPop
             \/ DelBegin \/ DelContent \/ DelFiles
      PROVE  OneOpen'
  <2>1. UNCHANGED <<enabled, jobs, handlers>>
    BY <1>16 DEF DocBegin, DocRequire, DocIndex, DocRecord, DocReread, DocPop, DelBegin, DelContent, DelFiles
  <2> QED BY <2>1 DEF OneOpen, Newest
<1>17. ASSUME DelRecord PROVE OneOpen'
  BY <1>17 DEF DelRecord
<1>18. ASSUME Complete PROVE OneOpen'
  BY <1>18, Moved DEF Complete, Verdict
<1>19. ASSUME \E state \in {"queued", "failed"} : Raise(state) PROVE OneOpen'
  BY <1>19, Moved DEF Raise, RolledBack, Verdict
<1>20. ASSUME Crash PROVE OneOpen'
  BY <1>20 DEF Crash
<1>21. ASSUME \E stale \in BOOLEAN : Restart(stale) PROVE OneOpen'
  BY <1>21, Requeued DEF Restart
<1>22. ASSUME NEW i \in Ids, Waiting /\ AdminRetry(i) PROVE OneOpen'
  BY <1>22, Moved DEF AdminRetry
<1>23. ASSUME NEW i \in Ids, Claim(i)
      PROVE  OneOpen'
  BY <1>23, Moved, JobKinds DEF Claim
<1> QED
  BY <1>1, <1>2, <1>3, <1>4, <1>5, <1>6, <1>7, <1>8, <1>9, <1>10, <1>11, <1>12,
        <1>13, <1>14, <1>15, <1>16, <1>17, <1>18, <1>19, <1>20, <1>21, <1>22, <1>23
     DEF SerialNext, Mishap, Uploading, Deleting, Process

\* Files go with an upload that is new, or after the content.
LEMMA IndexedFilesExistStep ==
  ASSUME IInv, FilesInv, SerialNext
  PROVE  IndexedFilesExist'
<1> USE NullAssumption DEF IInv, TypeOK, FilesInv, HGoto, Answer, WGoto, Locals, source, stores, handlers,
         worker, history, UndoFiles, IndexedFilesExist, RollbackHasFiles, UploadIsNew, PurgedStaysEmpty,
         DeletedIsWritten, Upload
<1>1. ASSUME NEW h \in Handlers,
             \/ (Waiting /\ \E v \in Versions : UploadRead(h, v)) \/ UploadCheck(h)
             \/ UploadFiles(h) \/ UploadConfig(h)
             \/ (\E i \in Ids : UploadEnqueue(h, i)) \/ UploadAudit(h)
             \/ UploadFails(h) \/ UndoJob(h)
             \/ (Waiting /\ DeleteRead(h)) \/ DeleteCheck(h) \/ DeleteConfig(h)
             \/ (\E i \in Ids : DeleteEnqueue(h, i)) \/ DeleteFails(h)
      PROVE  IndexedFilesExist'
  <2>1. index' = index /\ torn' = torn /\ disk \subseteq disk'
    BY <1>1 DEF UploadRead, UploadCheck, OpenJobs, UploadFiles, UploadConfig, UploadEnqueue, UploadAudit,
         UploadFails, UndoJob, DeleteRead, DeleteCheck, DeleteConfig, DeleteEnqueue, DeleteFails
  <2> QED BY <2>1
<1>4. ASSUME NEW h \in Handlers, UploadRefused(h) \/ UndoConfig(h) \/ UndoFails(h)
      PROVE  IndexedFilesExist'
  <2>1. /\ index' = index /\ torn \subseteq torn' /\ disk' = disk \ {hver[h]}
        /\ h \in taken => hver[h] \in torn' \/ hjob[h] = 0
    BY <1>4 DEF UploadRefused, UndoConfig, UndoFails, OwnJob, Owns
  <2>2. h \notin taken => index # hver[h] \/ hver[h] \in torn
    BY <1>4 DEF UploadRefused, UndoConfig, UndoFails
  <2>3. hjob[h] = 0 => h \notin taken
    BY DEF OwnJob, Owns
  <2> QED BY <2>1, <2>2, <2>3
<1>2. ASSUME \/ DocBegin \/ DocRequire \/ DocIndex \/ DocRecord \/ DocReread \/ DocPop
             \/ DelBegin \/ DelContent \/ DelFiles \/ DelRecord \/ Complete
             \/ (\E state \in {"queued", "failed"} : Raise(state)) \/ Crash
             \/ (\E stale \in BOOLEAN : Restart(stale))
      PROVE  IndexedFilesExist'
  BY <1>2 DEF DocBegin, DocRequire, DocIndex, DocRecord, DocReread, DocPop, DelBegin, DelContent, DelFiles,
         DelRecord, Complete, Verdict, Raise, RolledBack, Crash, Restart
<1>3. ASSUME NEW i \in Ids,
             \/ (Waiting /\ AdminRetry(i))
             \/ Claim(i)
      PROVE  IndexedFilesExist'
  BY <1>3 DEF AdminRetry, Claim
<1> QED
  BY <1>1, <1>2, <1>3, <1>4
     DEF SerialNext, Mishap, Uploading, Deleting, Process

\* The version to go back to was indexed, with its files.
LEMMA RollbackHasFilesStep ==
  ASSUME IInv, FilesInv, SerialNext
  PROVE  RollbackHasFiles'
<1> USE NullAssumption DEF IInv, TypeOK, FilesInv, HGoto, Answer, WGoto, Locals, source, stores, handlers,
         worker, history, UndoFiles, RollbackHasFiles, IndexedFilesExist, UploadIsNew, OneOpen, OwnJob, Owns,
         WorkerRuns, UploadsEnabled, InHand, Newest, Ids, Upload, Indexing
<1>1. ASSUME NEW h \in Handlers,
             \/ (Waiting /\ \E v \in Versions : UploadRead(h, v)) \/ UploadCheck(h)
             \/ UploadFiles(h) \/ UploadRefused(h) \/ UploadConfig(h)
             \/ (\E i \in Ids : UploadEnqueue(h, i))
      PROVE  RollbackHasFiles'
  BY <1>1 DEF UploadRead, UploadCheck, OpenJobs, UploadFiles, UploadRefused, UploadConfig, UploadEnqueue
<1>2. ASSUME NEW h \in Handlers,
             \/ UploadAudit(h) \/ UploadFails(h) \/ UndoJob(h)
             \/ UndoConfig(h) \/ UndoFails(h)
      PROVE  RollbackHasFiles'
  BY <1>2 DEF UploadAudit, UploadFails, UndoJob, UndoConfig, UndoFails
<1>3. ASSUME NEW h \in Handlers,
             \/ (Waiting /\ DeleteRead(h)) \/ DeleteCheck(h) \/ DeleteConfig(h)
             \/ (\E i \in Ids : DeleteEnqueue(h, i)) \/ DeleteFails(h)
      PROVE  RollbackHasFiles'
  BY <1>3 DEF DeleteRead, DeleteCheck, DeleteConfig, DeleteEnqueue, DeleteFails
<1>4. ASSUME DocBegin \/ DocRequire \/ DocIndex \/ DocRecord \/ DocReread \/ DocPop
      PROVE  RollbackHasFiles'
  BY <1>4 DEF DocBegin, DocRequire, DocIndex, DocRecord, DocReread, DocPop
<1>5. ASSUME DelBegin \/ DelContent \/ DelFiles \/ DelRecord
      PROVE  RollbackHasFiles'
  BY <1>5 DEF DelBegin, DelContent, DelFiles, DelRecord
<1>6. ASSUME \/ Complete \/ (\E state \in {"queued", "failed"} : Raise(state))
             \/ Crash \/ (\E stale \in BOOLEAN : Restart(stale))
      PROVE  RollbackHasFiles'
  BY <1>6 DEF Complete, Verdict, Raise, RolledBack, Crash, Restart
<1>7. ASSUME NEW i \in Ids,
             \/ (Waiting /\ AdminRetry(i))
             \/ Claim(i)
      PROVE  RollbackHasFiles'
  BY <1>7 DEF AdminRetry, Claim
<1> QED
  BY <1>1, <1>2, <1>3, <1>4, <1>5, <1>6, <1>7
     DEF SerialNext, Mishap, Uploading, Deleting, Process

\* destination.exists() is asked first, and nothing is indexed until the job is there.
LEMMA UploadIsNewStep ==
  ASSUME IInv, FilesInv, SerialNext
  PROVE  UploadIsNew'
<1> USE NullAssumption DEF IInv, TypeOK, FilesInv, HGoto, Answer, WGoto, Locals, source, stores, handlers,
         worker, history, UndoFiles, UploadIsNew, UploadsEnabled, OneRequest, OneOpen, OwnJob, Owns,
         WorkerRuns, IndexedFilesExist, RollbackHasFiles, InHand, Newest, Ids, Upload, Indexing, Purging,
         DeletionDisables, Waiting
<1>1. ASSUME NEW h \in Handlers,
             \/ (Waiting /\ \E v \in Versions : UploadRead(h, v)) \/ UploadCheck(h)
             \/ UploadFiles(h) \/ UploadRefused(h)
      PROVE  UploadIsNew'
  BY <1>1 DEF UploadRead, UploadCheck, OpenJobs, UploadFiles, UploadRefused
<1>2. ASSUME NEW h \in Handlers, UploadConfig(h) PROVE UploadIsNew'
  BY <1>2, ConfigFields DEF UploadConfig
<1>3. ASSUME NEW h \in Handlers, \E i \in Ids : UploadEnqueue(h, i)
      PROVE  UploadIsNew'
  BY <1>3, Enqueued DEF UploadEnqueue
<1>4. ASSUME NEW h \in Handlers, UploadAudit(h) \/ UploadFails(h)
      PROVE  UploadIsNew'
  BY <1>4 DEF UploadAudit, UploadFails
<1>5. ASSUME NEW h \in Handlers,
             \/ UndoJob(h) \/ UndoConfig(h)
             \/ UndoFails(h)
      PROVE  UploadIsNew'
  BY <1>5 DEF UndoJob, UndoConfig, UndoFails
<1>6. ASSUME NEW h \in Handlers,
             \/ (Waiting /\ DeleteRead(h)) \/ DeleteCheck(h) \/ DeleteConfig(h)
             \/ (\E i \in Ids : DeleteEnqueue(h, i)) \/ DeleteFails(h)
      PROVE  UploadIsNew'
  BY <1>6, ConfigFields, Enqueued DEF DeleteRead, DeleteCheck, DeleteConfig, DeleteEnqueue, DeleteFails
<1>7. ASSUME DocBegin \/ DocRequire \/ DocIndex \/ DocRecord \/ DocReread \/ DocPop
      PROVE  UploadIsNew'
  BY <1>7, ConfigFields DEF DocBegin, DocRequire, DocIndex, DocRecord, DocReread, DocPop
<1>8. ASSUME DelBegin \/ DelContent \/ DelFiles \/ DelRecord PROVE UploadIsNew'
  BY <1>8 DEF DelBegin, DelContent, DelFiles, DelRecord
<1>9. ASSUME \/ Complete \/ (\E state \in {"queued", "failed"} : Raise(state))
             \/ Crash \/ (\E stale \in BOOLEAN : Restart(stale))
      PROVE  UploadIsNew'
  BY <1>9 DEF Complete, Verdict, Raise, RolledBack, Crash, Restart
<1>10. ASSUME NEW i \in Ids,
             \/ (Waiting /\ AdminRetry(i))
             \/ Claim(i)
      PROVE  UploadIsNew'
  BY <1>10 DEF AdminRetry, Claim
<1> QED
  BY <1>1, <1>2, <1>3, <1>4, <1>5, <1>6, <1>7, <1>8, <1>9, <1>10
     DEF SerialNext, Mishap, Uploading, Deleting, Process

\* Whoever writes the config back had read it before it said deleted.
LEMMA DeletedIsWrittenStep ==
  ASSUME IInv, FilesInv, SerialNext
  PROVE  DeletedIsWritten'
<1> USE NullAssumption DEF IInv, TypeOK, FilesInv, HGoto, Answer, WGoto, Locals, source, stores, handlers,
         worker, history, UndoFiles, DeletedIsWritten, UploadsEnabled, OneRequest, NewConfig, Configs, Upload,
         Delete, Purging, DeletionDisables, PurgedStaysEmpty
<1>1. ASSUME NEW h \in Handlers,
             \/ (Waiting /\ \E v \in Versions : UploadRead(h, v)) \/ UploadCheck(h)
             \/ UploadFiles(h) \/ UploadRefused(h) \/ UploadConfig(h)
             \/ (\E i \in Ids : UploadEnqueue(h, i))
      PROVE  DeletedIsWritten'
  BY <1>1, ConfigFields DEF UploadRead, UploadCheck, OpenJobs, UploadFiles, UploadRefused, UploadConfig,
         UploadEnqueue
<1>2. ASSUME NEW h \in Handlers,
             \/ UploadAudit(h) \/ UploadFails(h) \/ UndoJob(h)
             \/ UndoConfig(h) \/ UndoFails(h)
      PROVE  DeletedIsWritten'
  BY <1>2 DEF UploadAudit, UploadFails, UndoJob, UndoConfig, UndoFails
<1>3. ASSUME NEW h \in Handlers,
             \/ (Waiting /\ DeleteRead(h)) \/ DeleteCheck(h) \/ DeleteConfig(h)
             \/ (\E i \in Ids : DeleteEnqueue(h, i)) \/ DeleteFails(h)
      PROVE  DeletedIsWritten'
  BY <1>3, ConfigFields DEF DeleteRead, DeleteCheck, DeleteConfig, DeleteEnqueue, DeleteFails
<1>4. ASSUME DocBegin \/ DocRequire \/ DocIndex \/ DocRecord \/ DocReread \/ DocPop
      PROVE  DeletedIsWritten'
  BY <1>4, ConfigFields DEF DocBegin, DocRequire, DocIndex, DocRecord, DocReread, DocPop
<1>5. ASSUME DelBegin \/ DelContent \/ DelFiles \/ DelRecord
      PROVE  DeletedIsWritten'
  BY <1>5 DEF DelBegin, DelContent, DelFiles, DelRecord
<1>6. ASSUME \/ Complete \/ (\E state \in {"queued", "failed"} : Raise(state))
             \/ Crash \/ (\E stale \in BOOLEAN : Restart(stale))
      PROVE  DeletedIsWritten'
  BY <1>6 DEF Complete, Verdict, Raise, RolledBack, Crash, Restart
<1>7. ASSUME NEW i \in Ids,
             \/ (Waiting /\ AdminRetry(i))
             \/ Claim(i)
      PROVE  DeletedIsWritten'
  BY <1>7 DEF AdminRetry, Claim
<1> QED
  BY <1>1, <1>2, <1>3, <1>4, <1>5, <1>6, <1>7
     DEF SerialNext, Mishap, Uploading, Deleting, Process

\* An upload replaces the pending version when the job before it is over.
LEMMA AwaitedIsFoundStep ==
  ASSUME IInv, FilesInv, SerialNext
  PROVE  AwaitedIsFound'
<1> USE NullAssumption DEF IInv, TypeOK, FilesInv, HGoto, Answer, WGoto, Locals, source, stores, handlers,
         worker, history, UndoFiles, AwaitedIsFound, WorkerAgrees, Spares, Finds, Misleads, Awaited,
         OneRequest, OneOpen, OwnJob, Owns, WorkerRuns, UploadsEnabled, UploadIsNew, IndexedFilesExist,
         RollbackHasFiles, InHand, Newest, Ids, Upload, Delete, Indexing, Purging, DeletionDisables, Waiting
<1>1. ASSUME NEW h \in Handlers, Waiting /\ \E v \in Versions : UploadRead(h, v)
      PROVE  AwaitedIsFound'
  BY <1>1 DEF UploadRead
<1>2. ASSUME NEW h \in Handlers, UploadCheck(h) PROVE AwaitedIsFound'
  BY <1>2, JobKinds DEF UploadCheck, OpenJobs
<1>3. ASSUME NEW h \in Handlers, UploadFiles(h) PROVE AwaitedIsFound'
  BY <1>3 DEF UploadFiles
<1>4. ASSUME NEW h \in Handlers, UploadRefused(h) PROVE AwaitedIsFound'
  BY <1>4 DEF UploadRefused
<1>5. ASSUME NEW h \in Handlers, UploadConfig(h) PROVE AwaitedIsFound'
  BY <1>5, ConfigFields DEF UploadConfig
<1>6. ASSUME NEW h \in Handlers, \E i \in Ids : UploadEnqueue(h, i)
      PROVE  AwaitedIsFound'
  BY <1>6, Enqueued DEF UploadEnqueue
<1>7. ASSUME NEW h \in Handlers, UploadAudit(h) PROVE AwaitedIsFound'
  BY <1>7 DEF UploadAudit
<1>8. ASSUME NEW h \in Handlers, UploadFails(h)
      PROVE  AwaitedIsFound'
  BY <1>8 DEF UploadFails
<1>9. ASSUME NEW h \in Handlers, UndoJob(h) PROVE AwaitedIsFound'
  BY <1>9, Moved DEF UndoJob
<1>10. ASSUME NEW h \in Handlers, UndoConfig(h) PROVE AwaitedIsFound'
  BY <1>10 DEF UndoConfig
<1>11. ASSUME NEW h \in Handlers, UndoFails(h)
      PROVE  AwaitedIsFound'
  BY <1>11 DEF UndoFails
<1>12. ASSUME NEW h \in Handlers, Waiting /\ DeleteRead(h) PROVE AwaitedIsFound'
  BY <1>12 DEF DeleteRead
<1>13. ASSUME NEW h \in Handlers, DeleteCheck(h) PROVE AwaitedIsFound'
  BY <1>13 DEF DeleteCheck
<1>14. ASSUME NEW h \in Handlers, DeleteConfig(h) PROVE AwaitedIsFound'
  BY <1>14, ConfigFields DEF DeleteConfig
<1>15. ASSUME NEW h \in Handlers, \E i \in Ids : DeleteEnqueue(h, i)
      PROVE  AwaitedIsFound'
  BY <1>15, Enqueued DEF DeleteEnqueue
<1>16. ASSUME NEW h \in Handlers, DeleteFails(h) PROVE AwaitedIsFound'
  BY <1>16 DEF DeleteFails
<1>17. ASSUME DocBegin PROVE AwaitedIsFound'
  BY <1>17 DEF DocBegin
<1>18. ASSUME DocRequire PROVE AwaitedIsFound'
  BY <1>18 DEF DocRequire
<1>19. ASSUME DocIndex PROVE AwaitedIsFound'
  BY <1>19 DEF DocIndex
<1>20. ASSUME DocRecord PROVE AwaitedIsFound'
  BY <1>20, ConfigFields DEF DocRecord
<1>21. ASSUME DocReread PROVE AwaitedIsFound'
  BY <1>21 DEF DocReread
<1>22. ASSUME DocPop PROVE AwaitedIsFound'
  BY <1>22, ConfigFields DEF DocPop
<1>23. ASSUME DelBegin PROVE AwaitedIsFound'
  BY <1>23 DEF DelBegin
<1>24. ASSUME DelContent \/ DelFiles \/ DelRecord PROVE AwaitedIsFound'
  BY <1>24 DEF DelContent, DelFiles, DelRecord
<1>25. ASSUME Complete PROVE AwaitedIsFound'
  BY <1>25, Moved DEF Complete, Verdict
<1>26. ASSUME \E state \in {"queued", "failed"} : Raise(state)
      PROVE  AwaitedIsFound'
  BY <1>26, Moved DEF Raise, RolledBack, Verdict
<1>27. ASSUME Crash PROVE AwaitedIsFound'
  BY <1>27 DEF Crash
<1>28. ASSUME \E stale \in BOOLEAN : Restart(stale) PROVE AwaitedIsFound'
  BY <1>28, Requeued DEF Restart
<1>29. ASSUME NEW i \in Ids, Waiting /\ AdminRetry(i)
      PROVE  AwaitedIsFound'
  BY <1>29, Moved DEF AdminRetry
<1>30. ASSUME NEW i \in Ids, Claim(i)
      PROVE  AwaitedIsFound'
  BY <1>30, Moved, JobKinds DEF Claim
<1> QED
  BY <1>1, <1>2, <1>3, <1>4, <1>5, <1>6, <1>7, <1>8, <1>9, <1>10, <1>11, <1>12,
        <1>13, <1>14, <1>15, <1>16, <1>17, <1>18, <1>19, <1>20, <1>21, <1>22, <1>23,
        <1>24, <1>25, <1>26, <1>27, <1>28, <1>29, <1>30
     DEF SerialNext, Mishap, Uploading, Deleting, Process

\* A source that was just created, with its files and its job.
LEMMA InitFilesInv == Init => FilesInv
<1> SUFFICES ASSUME NEW v \in Versions, Init,
                    config = [NewConfig EXCEPT !.pending = v], disk = {v},
                    jobs = [i \in Ids |-> IF i = 1
                       THEN [kind |-> "document", version |-> v, state |-> "queued"] ELSE NoJob]
             PROVE  FilesInv
  BY DEF Init
<1>1. config.pending = v /\ config.life = "active"
  BY DEF NewConfig
<1>2. 1 \in Ids /\ Ids \subseteq Int
  BY JobBoundAssumption DEF Ids
<1>3. jobs[1].version = v /\ jobs[1].state = "queued" /\ \A i \in Ids : i # 1 => jobs[i].state = "unused"
  BY <1>2 DEF NoJob
<1>4. accepted = 1 /\ taken = {} /\ (\A h \in Handlers : hjob[h] = 0) /\ (\A h \in Handlers : hpc[h] = "idle") /\ wpc = "idle" /\ index = Null
  BY DEF Init
<1>5. OneOpen
  BY <1>4 DEF OneOpen, Upload
<1>6. InOrder
  BY <1>2, <1>3, <1>4 DEF InOrder, Ids
<1>7. AwaitedIsFound
  <2>1. ASSUME NEW i \in Ids, Awaited(i) PROVE i = 1
    BY <2>1, <1>3 DEF Awaited
  <2> QED BY <2>1, <1>1, <1>3, <1>4 DEF AwaitedIsFound, WorkerAgrees, Spares, Finds, Upload, Indexing
<1>8. /\ OneRequest /\ UploadsEnabled /\ WorkerRuns /\ OwnJob
      /\ IndexedFilesExist /\ RollbackHasFiles /\ UploadIsNew /\ DeletedIsWritten
  BY <1>1, <1>3, <1>4 DEF OneRequest, UploadsEnabled, WorkerRuns, OwnJob, Owns, IndexedFilesExist,
         RollbackHasFiles, UploadIsNew, DeletedIsWritten, Upload
<1> QED BY <1>5, <1>6, <1>7, <1>8 DEF FilesInv

\* What one administrator at a time does keeps IInv, as every request does.
LEMMA SerialIInv == IInv /\ SerialNext => IInv'
BY UploadIInv, DeleteIInv, IndexingIInv, PurgingIInv, LeaseIInv
   DEF SerialNext, Mishap, Uploading, Process

LEMMA StepFilesInv == IInv /\ FilesInv /\ [SerialNext]_vars => IInv' /\ FilesInv'
<1> SUFFICES ASSUME IInv, FilesInv, [SerialNext]_vars PROVE IInv' /\ FilesInv'
  OBVIOUS
<1>1. CASE SerialNext
  <2>1. /\ OneRequest' /\ UploadsEnabled' /\ WorkerRuns' /\ InOrder' /\ OwnJob' /\ OneOpen'
        /\ IndexedFilesExist' /\ RollbackHasFiles' /\ UploadIsNew'
        /\ DeletedIsWritten' /\ AwaitedIsFound'
    BY <1>1, OneRequestStep, UploadsEnabledStep, WorkerRunsStep, InOrderStep, OwnJobStep, OneOpenStep,
       IndexedFilesExistStep, RollbackHasFilesStep, UploadIsNewStep, DeletedIsWrittenStep,
       AwaitedIsFoundStep
  <2> QED BY <1>1, <2>1, SerialIInv DEF FilesInv
<1>2. CASE UNCHANGED vars
  <2>1. IInv'
    BY <1>2, StepIInv
  <2>2. UNCHANGED <<enabled, config, disk, index, jobs, hpc, hcfg, hver, hjob,
                    wpc, wjob, wcfg, wver, wold, accepted, taken, torn, left, purged>>
    BY <1>2 DEF vars, source, stores, handlers, worker, history
  <2> QED BY <2>1, <2>2 DEF FilesInv, OneRequest, UploadsEnabled, WorkerRuns, InOrder, OwnJob, Owns, OneOpen,
         IndexedFilesExist, RollbackHasFiles, UploadIsNew, DeletedIsWritten, AwaitedIsFound, Awaited,
         WorkerAgrees, Spares, Finds, Misleads, Newest
<1> QED BY <1>1, <1>2

\* FilesInv is what has to be added to FilesAreKept.
LEMMA FilesInvSuffices == IInv /\ FilesInv => FilesAreKept
<1> SUFFICES ASSUME IInv, FilesInv PROVE FilesAreKept
  OBVIOUS
<1>1. DeletedLeavesNothing
  BY DEF IInv, FilesInv, DeletedIsWritten, DeletedLeavesNothing, PurgedStaysEmpty
<1>2. ASSUME enabled, Newest(accepted), jobs[accepted].state \in {"queued", "running"}
      PROVE  Finds(config, accepted) \/ Misleads(config)
  <2>1. accepted \in Ids /\ Awaited(accepted)
    BY <1>2 DEF IInv, TypeOK, Awaited
  <2>2. \A h \in Handlers : hpc[h] \notin {"uploadEnqueue", "undoConfig"}
    <3>1. ASSUME NEW h \in Handlers, hpc[h] \in {"uploadEnqueue", "undoConfig"} PROVE FALSE
      <4>1. accepted = hjob[h] /\ hjob[h] # 0
        BY <1>2, <2>1, <3>1 DEF FilesInv, OneOpen, Upload, Ids
      <4> QED BY <4>1 DEF FilesInv, OwnJob, Owns
    <3> QED BY <3>1
  <2> QED BY <1>2, <2>1, <2>2 DEF FilesInv, AwaitedIsFound
<1> QED BY <1>1, <1>2 DEF FilesInv, FilesAreKept, AcceptedUploadIsKept

(* As long as an administrator waits for each answer, whatever raises or       *)
(* crashes, in the worker or in a request, at whatever step: the version that  *)
(* can be searched has its files, unless its own upload failed after the       *)
(* worker had its job; an upload answered with 202 keeps its directory and is  *)
(* the version its job finds until it is indexed or a newer job is enqueued,   *)
(* unless an upload that broke off while it took back what it had written has  *)
(* left its own version pending; and a deletion that is over has left neither  *)
(* content nor files (admin_upload_document_version with its except and        *)
(* finally, DocumentSourceJobProcessor, DeleteSourceJobProcessor).             *)
THEOREM DirectoriesAreKept == SerialSpec => []FilesAreKept
BY InitIInv, InitFilesInv, StepFilesInv, FilesInvSuffices, PTL DEF SerialSpec
=============================================================================

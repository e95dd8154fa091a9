--------------------------- MODULE SourceLifecycle ---------------------------
(***************************************************************************)
(* The life of one document source: administrators upload new versions and *)
(* finally delete it (admin_upload_document_version, admin_delete_source   *)
(* in knowledge/api/app.py) while the worker indexes and deletes it        *)
(* (DocumentSourceJobProcessor, DeleteSourceJobProcessor,                  *)
(* index_document_version).                                                *)
(*                                                                         *)
(* All of them read knowledge_sources.config, wait, and later write it     *)
(* back whole; none of them locks it.  Every await is a step here, so the  *)
(* requests interleave with one another and with the one worker.  How a    *)
(* job is leased and retried is the subject of SyncJobs; here a job that   *)
(* raises is queued again or has failed for good.                          *)
(***************************************************************************)
EXTENDS Integers

CONSTANTS
    Handlers,       \* requests that administrators have under way at once
    Versions,       \* version names an administrator may choose
    Null,
    JobBound        \* bound: jobs ever enqueued for the source

ASSUME NullAssumption == Null \notin Versions
ASSUME JobBoundAssumption == JobBound \in Nat \ {0}

VARIABLES
    enabled,    \* knowledge_sources.enabled
    config,     \* knowledge_sources.config_json
    disk,       \* versions that have a directory under uploads/<source>
    index,      \* the version whose chunks are in the vector store
    jobs,       \* sync_jobs of the source
    hpc,        \* where each request is
    hcfg,       \* the config it read first
    hver,       \* the version it uploads
    hjob,       \* the job it has enqueued
    wpc,        \* where the worker is
    wjob,       \* the job it works on
    wcfg,       \* the config it read last
    wver,       \* the version it indexes
    wold,       \* the version that was indexed before: the rollback's backup
    accepted,   \* history: the document job last answered with 202
    taken,      \* history: requests under way whose job a worker has had
    torn,       \* history: versions whose upload broke off after its job was claimed
    left,       \* history: versions left pending by an upload that has broken off
    purged      \* history: a delete job has removed the content

source == <<enabled, config>>
stores == <<disk, index>>
handlers == <<hpc, hcfg, hver, hjob>>
worker == <<wpc, wjob, wcfg, wver, wold>>
history == <<accepted, taken, torn, left, purged>>
vars == <<source, stores, jobs, handlers, worker, history>>

Ids == 1..JobBound
Configs == [life : {"active", "deleting", "deleted"},
            pending : Versions \cup {Null}]
NoJob == [kind |-> "document", version |-> Null, state |-> "unused"]
Jobs == [kind : {"document", "delete"}, version : Versions \cup {Null},
         state : {"unused", "queued", "running", "succeeded", "failed", "removed"}]

OpenJobs(kind) == {i \in Ids : jobs[i].kind = kind /\ jobs[i].state \in {"queued", "running"}}

Upload == {"uploadCheck", "uploadFiles", "uploadConfig", "uploadEnqueue",
           "uploadAudit", "undoJob", "undoConfig"}
Delete == {"deleteCheck", "deleteConfig", "deleteEnqueue"}
Indexing == {"docBegin", "docRequire", "docIndex", "docRecord", "docReread", "docPop"}
Purging == {"delBegin", "delContent", "delFiles", "delRecord"}

TypeOK ==
    /\ enabled \in BOOLEAN
    /\ config \in Configs
    /\ disk \subseteq Versions
    /\ index \in Versions \cup {Null}
    /\ jobs \in [Ids -> Jobs]
    /\ hpc \in [Handlers -> {"idle"} \cup Upload \cup Delete]
    /\ hcfg \in [Handlers -> Configs]
    /\ hver \in [Handlers -> Versions \cup {Null}]
    /\ hjob \in [Handlers -> {0} \cup Ids]
    /\ wpc \in {"down", "idle", "verdict"} \cup Indexing \cup Purging
    /\ wjob \in {0} \cup Ids
    /\ wcfg \in Configs
    /\ wver \in Versions \cup {Null}
    /\ wold \in Versions \cup {Null}
    /\ accepted \in Ids /\ taken \subseteq Handlers
    /\ torn \subseteq Versions /\ left \subseteq Versions
    /\ purged \in BOOLEAN

NewConfig == [life |-> "active", pending |-> Null]

\* admin_create_document_source has returned: the first version is on disk,
\* pending and queued.
Init ==
    \E v \in Versions :
        /\ enabled = TRUE
        /\ config = [NewConfig EXCEPT !.pending = v]
        /\ disk = {v}
        /\ index = Null
        /\ jobs = [i \in Ids |-> IF i = 1
                THEN [kind |-> "document", version |-> v, state |-> "queued"] ELSE NoJob]
        /\ hpc = [h \in Handlers |-> "idle"]
        /\ hcfg = [h \in Handlers |-> NewConfig]
        /\ hver = [h \in Handlers |-> Null]
        /\ hjob = [h \in Handlers |-> 0]
        /\ wpc = "idle"
        /\ wjob = 0
        /\ wcfg = NewConfig
        /\ wver = Null
        /\ wold = Null
        /\ accepted = 1 /\ taken = {}
        /\ torn = {} /\ left = {}
        /\ purged = FALSE

-----------------------------------------------------------------------------
(* Requests: every await ends a step *)

HGoto(h, from, to) ==
    /\ hpc[h] = from
    /\ hpc' = [hpc EXCEPT ![h] = to]

\* The request is answered.
Answer(h) ==
    /\ hpc' = [hpc EXCEPT ![h] = "idle"]
    /\ hcfg' = [hcfg EXCEPT ![h] = NewConfig]
    /\ hver' = [hver EXCEPT ![h] = Null]
    /\ hjob' = [hjob EXCEPT ![h] = 0]

\* enqueue_job without a target_commit: always a new row.
EnqueueJob(i, kind, v) ==
    /\ jobs[i].state = "unused"
    /\ \A k \in Ids : k < i => jobs[k].state # "unused"
    /\ jobs' = [jobs EXCEPT ![i] = [kind |-> kind, version |-> v, state |-> "queued"]]

\* get_source, and destination.exists() in the same step.
UploadRead(h, v) ==
    /\ enabled
    /\ v \notin disk
    /\ HGoto(h, "idle", "uploadCheck")
    /\ hcfg' = [hcfg EXCEPT ![h] = config]
    /\ hver' = [hver EXCEPT ![h] = v]
    /\ UNCHANGED <<source, stores, jobs, hjob, worker, history>>

\* list_jobs: 409 while a document job is queued or running.
UploadCheck(h) ==
    /\ hpc[h] = "uploadCheck"
    /\ IF OpenJobs("document") = {}
       THEN hpc' = [hpc EXCEPT ![h] = "uploadFiles"] /\ UNCHANGED <<hcfg, hver, hjob>>
       ELSE Answer(h)
    /\ UNCHANGED <<source, stores, jobs, worker, history>>

\* The body is received and unpacked into the version's directory ...
UploadFiles(h) ==
    /\ HGoto(h, "uploadFiles", "uploadConfig")
    /\ disk' = disk \cup {hver[h]}
    /\ UNCHANGED <<source, index, jobs, hcfg, hver, hjob, worker, history>>

\* ... or refused (or update_source raises): the finally removes the directory,
\* whoever made it.
UploadRefused(h) ==
    /\ hpc[h] \in {"uploadFiles", "uploadConfig"}
    /\ disk' = disk \ {hver[h]}
    /\ Answer(h)
    /\ UNCHANGED <<source, index, jobs, worker, history>>

UploadConfig(h) ==
    /\ HGoto(h, "uploadConfig", "uploadEnqueue")
    /\ config' = [hcfg[h] EXCEPT !.pending = hver[h]]
    /\ UNCHANGED <<enabled, stores, jobs, hcfg, hver, hjob, worker, history>>

UploadEnqueue(h, i) ==
    /\ HGoto(h, "uploadEnqueue", "uploadAudit")
    /\ EnqueueJob(i, "document", hver[h])
    /\ hjob' = [hjob EXCEPT ![h] = i]
    /\ UNCHANGED <<source, stores, hcfg, hver, worker, history>>

\* append_audit_event, then 202.
UploadAudit(h) ==
    /\ hpc[h] = "uploadAudit"
    /\ accepted' = hjob[h]
    /\ taken' = taken \ {h}
    /\ Answer(h)
    /\ UNCHANGED <<source, stores, jobs, worker, torn, left, purged>>

\* enqueue_job or append_audit_event raises: the except branch.
UploadFails(h) ==
    /\ \/ HGoto(h, "uploadEnqueue", "undoConfig")
       \/ HGoto(h, "uploadAudit", "undoJob")
    /\ UNCHANGED <<source, stores, jobs, hcfg, hver, hjob, worker, history>>

\* delete_queued_job: only a job nobody has claimed.
UndoJob(h) ==
    /\ HGoto(h, "undoJob", "undoConfig")
    /\ jobs' = IF jobs[hjob[h]].state = "queued"
               THEN [jobs EXCEPT ![hjob[h]].state = "removed"] ELSE jobs
    /\ UNCHANGED <<source, stores, hcfg, hver, hjob, worker, history>>

\* The finally removes the directory, also if the worker has had the job.
UndoFiles(h) ==
    /\ disk' = disk \ {hver[h]}
    /\ torn' = IF h \in taken THEN torn \cup {hver[h]} ELSE torn
    /\ taken' = taken \ {h}
    /\ Answer(h)

\* Mutant: the version stays pending.
UndoFilesOnly(h) ==
    /\ hpc[h] = "undoConfig"
    /\ UndoFiles(h)
    /\ UNCHANGED <<source, index, jobs, worker, accepted, left, purged>>

\* The config as it was read, then the files.
UndoConfig(h) ==
    /\ hpc[h] = "undoConfig"
    /\ config' = hcfg[h]
    /\ UndoFiles(h)
    /\ UNCHANGED <<enabled, index, jobs, worker, accepted, left, purged>>

\* The except branch raises itself: only the finally is left.
UndoFails(h) ==
    /\ hpc[h] \in {"undoJob", "undoConfig"}
    /\ UndoFiles(h)
    /\ left' = IF hpc[h] = "undoConfig" THEN left \cup {hver[h]} ELSE left
    /\ UNCHANGED <<source, index, jobs, worker, accepted, purged>>

DeleteRead(h) ==
    /\ config.life # "deleted"
    /\ HGoto(h, "idle", "deleteCheck")
    /\ hcfg' = [hcfg EXCEPT ![h] = config]
    /\ UNCHANGED <<source, stores, jobs, hver, hjob, worker, history>>

\* list_jobs: a delete job that is queued or running is the answer.
DeleteCheck(h) ==
    /\ hpc[h] = "deleteCheck"
    /\ IF OpenJobs("delete") = {}
       THEN hpc' = [hpc EXCEPT ![h] = "deleteConfig"] /\ UNCHANGED <<hcfg, hver, hjob>>
       ELSE Answer(h)
    /\ UNCHANGED <<source, stores, jobs, worker, history>>

\* Mutant: the source stays enabled until it has been deleted.
DeleteConfigOnly(h) ==
    /\ HGoto(h, "deleteConfig", "deleteEnqueue")
    /\ config' = [hcfg[h] EXCEPT !.life = "deleting"]
    /\ hcfg' = [hcfg EXCEPT ![h] = NewConfig]
    /\ UNCHANGED <<enabled, stores, jobs, hver, hjob, worker, history>>

DeleteConfig(h) ==
    /\ HGoto(h, "deleteConfig", "deleteEnqueue")
    /\ enabled' = FALSE
    /\ config' = [hcfg[h] EXCEPT !.life = "deleting"]
    /\ hcfg' = [hcfg EXCEPT ![h] = NewConfig]
    /\ UNCHANGED <<stores, jobs, hver, hjob, worker, history>>

DeleteEnqueue(h, i) ==
    /\ hpc[h] = "deleteEnqueue"
    /\ EnqueueJob(i, "delete", Null)
    /\ Answer(h)
    /\ UNCHANGED <<source, stores, worker, history>>

\* A call of the deletion raises: 500, and what was written stays.
DeleteFails(h) ==
    /\ hpc[h] \in Delete
    /\ Answer(h)
    /\ UNCHANGED <<source, stores, jobs, worker, history>>

AdminRetry(i) ==
    /\ wpc # "down"
    /\ jobs[i].state = "failed"
    /\ jobs' = [jobs EXCEPT ![i].state = "queued"]
    /\ UNCHANGED <<source, stores, handlers, worker, history>>

-----------------------------------------------------------------------------
(* The worker *)

WGoto(from, to) ==
    /\ wpc = from
    /\ wpc' = to

\* The worker keeps its job and drops what it read.
Locals(j) ==
    /\ wjob' = j
    /\ wcfg' = NewConfig
    /\ wver' = Null
    /\ wold' = Null

\* claim_next_job and SourceJobRouter; delayed retries make any order possible.
Claim(i) ==
    /\ jobs[i].state = "queued"
    /\ WGoto("idle", IF jobs[i].kind = "delete" THEN "delBegin" ELSE "docBegin")
    /\ jobs' = [jobs EXCEPT ![i].state = "running"]
    /\ wjob' = i
    /\ taken' = taken \cup {h \in Handlers : hjob[h] = i}
    /\ UNCHANGED <<source, stores, handlers, wcfg, wver, wold, accepted, torn, left, purged>>

\* DocumentSourceJobProcessor: the source is enabled and a version is pending.
DocBegin ==
    /\ WGoto("docBegin", "docRequire")
    /\ enabled
    /\ config.pending # Null
    /\ wver' = config.pending
    /\ UNCHANGED <<source, stores, jobs, handlers, wjob, wcfg, wold, history>>

\* index_document_version: _require_source, then the directory must exist.
DocRequire ==
    /\ WGoto("docRequire", "docIndex")
    /\ enabled
    /\ wver \in disk
    /\ wcfg' = config
    /\ wold' = index
    /\ UNCHANGED <<source, stores, jobs, handlers, wjob, wver, history>>

\* The files are parsed and the version replaces the one before.
DocIndex ==
    /\ WGoto("docIndex", "docRecord")
    /\ wver \in disk
    /\ index' = wver
    /\ UNCHANGED <<source, disk, jobs, handlers, wjob, wcfg, wver, wold, history>>

\* The config as it was read, but for last_synced_version, which nobody here reads.
DocRecord ==
    /\ WGoto("docRecord", "docReread")
    /\ config' = wcfg
    /\ Locals(wjob)
    /\ UNCHANGED <<enabled, stores, jobs, handlers, history>>

\* Back in the processor: read the config again, take the pending version out.
DocReread ==
    /\ WGoto("docReread", "docPop")
    /\ wcfg' = config
    /\ UNCHANGED <<source, stores, jobs, handlers, wjob, wver, wold, history>>

DocPop ==
    /\ WGoto("docPop", "verdict")
    /\ config' = [wcfg EXCEPT !.pending = Null]
    /\ Locals(wjob)
    /\ UNCHANGED <<enabled, stores, jobs, handlers, history>>

\* DeleteSourceJobProcessor: read the source ...
DelBegin ==
    /\ WGoto("delBegin", "delContent")
    /\ wcfg' = config
    /\ UNCHANGED <<source, stores, jobs, handlers, wjob, wver, wold, history>>

\* ... delete its vectors, rows, secrets and versions ...
DelContent ==
    /\ WGoto("delContent", "delFiles")
    /\ index' = Null
    /\ purged' = TRUE
    /\ UNCHANGED <<source, disk, jobs, handlers, wjob, wcfg, wver, wold, accepted, taken, torn, left>>

\* Mutant: the uploaded files stay.
DelFilesNot ==
    /\ WGoto("delFiles", "delRecord")
    /\ UNCHANGED <<source, stores, jobs, handlers, wjob, wcfg, wver, wold, history>>

\* ... and its uploads.
DelFiles ==
    /\ WGoto("delFiles", "delRecord")
    /\ disk' = {}
    /\ UNCHANGED <<source, index, jobs, handlers, wjob, wcfg, wver, wold, history>>

\* Mutant: the deletion writes the config it read, with nothing new in it.
DelRecordSame ==
    /\ WGoto("delRecord", "verdict")
    /\ enabled' = FALSE
    /\ config' = wcfg
    /\ Locals(wjob)
    /\ UNCHANGED <<stores, jobs, handlers, history>>

DelRecord ==
    /\ WGoto("delRecord", "verdict")
    /\ enabled' = FALSE
    /\ config' = [wcfg EXCEPT !.life = "deleted"]
    /\ Locals(wjob)
    /\ UNCHANGED <<stores, jobs, handlers, history>>

Verdict(state) ==
    /\ jobs' = [jobs EXCEPT ![wjob].state = state]
    /\ wpc' = "idle"
    /\ Locals(0)

Complete ==
    /\ wpc = "verdict"
    /\ Verdict("succeeded")
    /\ UNCHANGED <<source, stores, handlers, history>>

\* What the coordinator's rollback writes if it had begun to change anything:
\* the index, and the config as read.
RolledBack ==
    \/ wpc \in {"docIndex", "docRecord"} /\ index' = wold /\ config' = wcfg
    \/ wpc # "docRecord" /\ UNCHANGED <<index, config>>

\* A guard or a call raises: run_once requeues the job or fails it.
Raise(state) ==
    /\ wpc \in Indexing \cup Purging
    /\ state \in {"queued", "failed"}
    /\ RolledBack
    /\ Verdict(state)
    /\ UNCHANGED <<enabled, disk, handlers, history>>

\* The process dies, the requests under way with it.
Crash ==
    /\ wpc # "down"
    /\ wpc' = "down"
    /\ Locals(0)
    /\ hpc' = [h \in Handlers |-> "idle"]
    /\ hcfg' = [h \in Handlers |-> NewConfig]
    /\ hver' = [h \in Handlers |-> Null]
    /\ hjob' = [h \in Handlers |-> 0]
    /\ left' = left \cup {hver[h] : h \in {g \in Handlers : hpc[g] \in {"uploadEnqueue", "undoConfig"}}}
    /\ taken' = {}
    /\ UNCHANGED <<source, stores, jobs, accepted, torn, purged>>

\* start() requeues running jobs, if they look stale.
Restart(stale) ==
    /\ WGoto("down", "idle")
    /\ jobs' = [i \in Ids |-> IF stale /\ jobs[i].state = "running"
                              THEN [jobs[i] EXCEPT !.state = "queued"] ELSE jobs[i]]
    /\ UNCHANGED <<source, stores, handlers, wjob, wcfg, wver, wold, history>>

-----------------------------------------------------------------------------
Uploading(h) ==
    \/ UploadCheck(h) \/ UploadFiles(h) \/ UploadConfig(h)
    \/ (\E i \in Ids : UploadEnqueue(h, i)) \/ UploadAudit(h)
    \/ UndoJob(h) \/ UndoConfig(h)

Deleting(h) == DeleteCheck(h) \/ DeleteConfig(h) \/ (\E i \in Ids : DeleteEnqueue(h, i))

Process ==
    \/ DocBegin \/ DocRequire \/ DocIndex \/ DocRecord \/ DocReread \/ DocPop
    \/ DelBegin \/ DelContent \/ DelFiles \/ DelRecord \/ Complete

Request(h) ==
    \/ (\E v \in Versions : UploadRead(h, v)) \/ Uploading(h)
    \/ DeleteRead(h) \/ Deleting(h)

Mishap(h) == UploadRefused(h) \/ UploadFails(h) \/ UndoFails(h) \/ DeleteFails(h)

Next ==
    \/ \E h \in Handlers : wpc # "down" /\ (Request(h) \/ Mishap(h))
    \/ \E i \in Ids : AdminRetry(i) \/ Claim(i)
    \/ Process
    \/ \E state \in {"queued", "failed"} : Raise(state)
    \/ Crash \/ (\E stale \in BOOLEAN : Restart(stale))

Spec == Init /\ [][Next]_vars

\* Requests are processed and so are jobs: their calls return or raise.
RequestFairness == \A h \in Handlers : WF_vars(Uploading(h) \/ Deleting(h))
WorkerFairness ==
    /\ WF_vars(Process \/ \E state \in {"queued", "failed"} : Raise(state))
    /\ \A i \in Ids : SF_vars(Claim(i))
    /\ WF_vars(\E stale \in BOOLEAN : Restart(stale))
    \* failures end: an outage does not hit the same step for ever
    /\ SF_vars(DelBegin) /\ SF_vars(DelContent) /\ SF_vars(DelFiles) /\ SF_vars(DelRecord)

-----------------------------------------------------------------------------
(* Safety *)

\* Once a deletion has removed the content nothing of the source is indexed
\* again, whatever uploads, retries and restarts are still under way.
PurgedStaysEmpty == purged => index = Null

\* No job was enqueued after i.
Newest(i) == \A k \in Ids : k > i => jobs[k].state = "unused"

\* Config c leads to a version that an upload which broke off has left behind.
Misleads(c) == c.pending \in left \/ (c.pending = Null /\ index \in left)

\* Job i, found with config c, indexes its version or has done so.
Finds(c, i) ==
    /\ jobs[i].version \in disk
    /\ \/ c.pending = jobs[i].version
       \/ c.pending = Null /\ index = jobs[i].version

\* An upload that was accepted waits for its job untouched: until a job has indexed
\* it or a newer one is enqueued, its files are on disk and it is the version its
\* job will find.  An upload that fails takes back what it has written and leaves
\* the one before as it was; only if that breaks off as well, or the process dies in
\* it, may the version be found that it has left pending.
AcceptedUploadIsKept ==
    enabled /\ Newest(accepted) /\ jobs[accepted].state \in {"queued", "running"} =>
        Finds(config, accepted) \/ Misleads(config)

\* A finished deletion leaves no content and no files behind.
DeletedLeavesNothing == config.life = "deleted" => index = Null /\ disk = {}

\* The files of the version that is searchable exist, so that a citation opens; they
\* go too early only if its own upload failed after the worker had its job.
IndexedFilesExist == index # Null => index \in disk \cup torn

\* The directories on disk are the ones the index, the queue and the config count
\* on, as long as an administrator waits for the answer before the next request.
FilesAreKept == IndexedFilesExist /\ AcceptedUploadIsKept /\ DeletedLeavesNothing

\* Why purging is final: whoever deletes has disabled the source before there is
\* a job, and the worker, which indexes only what it found enabled, is alone.
DeletionDisables ==
    (\/ purged \/ wpc \in Purging
     \/ \E i \in Ids : jobs[i].kind = "delete"
     \/ \E h \in Handlers : hpc[h] = "deleteEnqueue") => ~enabled
PurgedIsOver == purged => wpc \notin {"docIndex", "docRecord"}
InHand ==
    /\ \A h \in Handlers :
        /\ hpc[h] \in Upload => hver[h] \in Versions
        /\ hpc[h] \in {"uploadAudit", "undoJob"} => hjob[h] \in Ids
    /\ wpc \notin {"down", "idle"} => wjob \in Ids
IInv == TypeOK /\ InHand /\ DeletionDisables /\ PurgedIsOver /\ PurgedStaysEmpty

-----------------------------------------------------------------------------
(* Liveness *)

\* A delete job that is enqueued makes the source "deleted", although a document
\* job under way writes the config it read back over the request's mark, unless
\* the job runs out of retries or is stranded by a crash.
DeletionCompletes ==
    \A i \in Ids : (jobs[i].kind = "delete" /\ jobs[i].state = "queued") ~>
        \/ config.life = "deleted"
        \/ jobs[i].state = "failed"
        \/ jobs[i].state = "running" /\ wjob # i
=============================================================================

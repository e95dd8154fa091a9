--------------------------- MODULE SerialLifecycle ---------------------------
(***************************************************************************)
(* SourceLifecycle with one administrator at a time, the use for which the *)
(* directories on disk stay the ones that the index, the queue and the     *)
(* config count on, and the invariant that explains it.                    *)
(***************************************************************************)
EXTENDS SourceLifecycle

\* One administrator, who waits for each answer before the next request.  Whatever a
\* request calls may raise, also while it takes back what it has done, the worker
\* takes a job as soon as it is there, and the process may die at any step.
Waiting == wpc # "down" /\ \A h \in Handlers : hpc[h] = "idle"

SerialNext ==
    \/ \E h \in Handlers : Waiting /\ ((\E v \in Versions : UploadRead(h, v)) \/ DeleteRead(h))
    \/ \E i \in Ids : Waiting /\ AdminRetry(i)
    \/ \E h \in Handlers : Uploading(h) \/ Deleting(h) \/ Mishap(h)
    \/ \E i \in Ids : Claim(i)
    \/ Process
    \/ \E state \in {"queued", "failed"} : Raise(state)
    \/ Crash \/ (\E stale \in BOOLEAN : Restart(stale))

SerialSpec == Init /\ [][SerialNext]_vars /\ RequestFairness /\ WorkerFairness

-----------------------------------------------------------------------------
(* Why the directories are kept *)

OneRequest == \A g, h \in Handlers : hpc[g] # "idle" /\ hpc[h] # "idle" => g = h

\* Who uploads found the source enabled; only a deletion, which is a request as
\* well, would have changed that.
UploadsEnabled == \A h \in Handlers : hpc[h] \in Upload => enabled

\* The worker's job is running, and of the kind it was routed by.
WorkerRuns ==
    wpc \notin {"down", "idle"} =>
        /\ \A h \in Handlers : hjob[h] = wjob => h \in taken
        /\ jobs[wjob].state = "running"
        /\ wpc \in Indexing => jobs[wjob].kind = "document"
        /\ wpc \in Purging => jobs[wjob].kind = "delete"

\* Rows are numbered in the order they are enqueued.
InOrder ==
    /\ \A i, k \in Ids : k < i /\ jobs[i].state # "unused" => jobs[k].state # "unused"
    /\ jobs[accepted].state # "unused"

\* A request that has enqueued a job has enqueued the newest.
Owns(h) ==
    /\ hpc[h] \notin {"uploadAudit", "undoJob", "undoConfig"} => hjob[h] = 0
    /\ hpc[h] \in {"uploadAudit", "undoJob"} => hjob[h] # 0
    /\ hjob[h] = 0 => h \notin taken
    /\ hjob[h] # 0 =>
        /\ Newest(hjob[h]) /\ hjob[h] # accepted
        /\ jobs[hjob[h]].version = hver[h] /\ jobs[hjob[h]].state # "unused"

OwnJob == \A h \in Handlers : Owns(h)

\* Between its check and its answer an upload is the only work there is.
OneOpen ==
    \A h \in Handlers : hpc[h] \in Upload \ {"uploadCheck"} =>
        \A i \in Ids : jobs[i].state \in {"queued", "running"} => i = hjob[h]

\* A rollback has files to go back to; an upload that may still be taken back is of
\* a version that is not indexed, or the worker has had its job.
RollbackHasFiles ==
    wpc \in {"docIndex", "docRecord"} => wold = Null \/ wold \in disk \cup torn

UploadIsNew ==
    \A h \in Handlers :
        /\ hpc[h] \in {"uploadCheck", "uploadFiles"} => hver[h] \notin disk
        /\ hpc[h] \in Upload /\ h \notin taken => index # hver[h] \/ hver[h] \in torn
        /\ hpc[h] \in {"uploadConfig", "uploadEnqueue", "uploadAudit"} => hver[h] \in disk
        /\ hpc[h] = "uploadEnqueue" \/ (hpc[h] = "undoConfig" /\ hjob[h] = 0) =>
                config.pending = hver[h]

\* "deleted" is written once the files are gone, and by nobody else.
DeletedIsWritten ==
    /\ config.life = "deleted" => purged /\ disk = {}
    /\ \A h \in Handlers : hpc[h] # "idle" => hcfg[h].life # "deleted"
    /\ purged => wpc \notin {"docIndex", "docRecord", "docReread", "docPop"}
    /\ wpc \in {"docIndex", "docRecord", "docPop"} => wcfg.life # "deleted"
    /\ wpc \in {"delFiles", "delRecord"} => purged
    /\ wpc = "delRecord" => disk = {}

\* The job whose upload is answered with 202, or will be if nothing raises, while it
\* may still be worked on and no newer one was enqueued.
Awaited(i) ==
    /\ i = accepted \/ \E h \in Handlers : hpc[h] = "uploadAudit" /\ hjob[h] = i
    /\ Newest(i)
    /\ jobs[i].state \in {"queued", "running", "failed"}

\* Whichever job the worker is on, it works on what the config says.
WorkerAgrees ==
    /\ wpc \in {"docRequire", "docIndex", "docRecord"} => wver = config.pending
    /\ wpc \in {"docIndex", "docRecord"} => wcfg.pending = config.pending
    /\ wpc \in {"docRecord", "docReread", "docPop"} => index = config.pending
    /\ wpc \in Indexing \ {"docBegin"} => config.pending # Null
    /\ wpc = "verdict" => config.pending = Null

\* An upload does not touch the files of the one before.
Spares(h, c, i) == jobs[i].version # hver[h] \/ Misleads(c)

AwaitedIsFound ==
    enabled => \A i \in Ids : Awaited(i) =>
        /\ jobs[i].version \in Versions
        /\ WorkerAgrees
        /\ (\A h \in Handlers : hpc[h] \notin {"uploadEnqueue", "undoConfig"}) =>
                Finds(config, i) \/ Misleads(config)
        /\ \A h \in Handlers :
            /\ hpc[h] \in Upload \ {"uploadAudit"} =>
                    (Finds(hcfg[h], i) \/ Misleads(hcfg[h])) /\ Spares(h, hcfg[h], i)
            /\ hpc[h] \in {"uploadCheck", "uploadFiles", "uploadConfig"} => Spares(h, config, i)
            /\ hpc[h] = "uploadCheck" /\ hcfg[h].pending = Null => config.pending = Null

FilesInv ==
    /\ OneRequest /\ UploadsEnabled /\ WorkerRuns /\ InOrder /\ OwnJob /\ OneOpen
    /\ IndexedFilesExist /\ RollbackHasFiles /\ UploadIsNew
    /\ DeletedIsWritten /\ AwaitedIsFound
=============================================================================

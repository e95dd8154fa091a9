---------------------------- MODULE SourceIndex ----------------------------
(***************************************************************************)
(* One Git source on its way into the search index: the job that takes a   *)
(* snapshot of the branch (GitSourceJobProcessor.process) and the          *)
(* coordinator that brings the vector store and the catalog from the last  *)
(* synchronised commit to the snapshot (index_git_snapshot), or back when  *)
(* a step raises (_rollback_index).                                        *)
(*                                                                         *)
(* Two stores are written, in steps that commit one by one: the vector     *)
(* store, whose batched calls may stop half way, and the catalog database, *)
(* where deleting a version deletes its files and chunk rows.  Any step    *)
(* may raise and the process may die between (or inside) any two of them.  *)
(*                                                                         *)
(* A file is one chunk: the id of a code chunk is derived from its path    *)
(* and symbol, not from the commit, so a path names the chunk, its vector  *)
(* and its row.  The row's version tells its content hash, because a row   *)
(* is only ever written with the content of its version.                   *)
(***************************************************************************)
EXTENDS FiniteSets

CONSTANTS
    Commits,        \* commits the branch may point to
    Paths,          \* files of the repository that the file policy accepts
    Contents,
    Null,           \* no commit, no content
    Tree,           \* Tree[c][p]: content of file p in commit c, Null if absent
    Ancestor        \* <<a, b>>: merge-base --is-ancestor a b succeeds

ASSUME TreeAssumption == Tree \in [Commits -> [Paths -> Contents \cup {Null}]]
ASSUME AncestorAssumption ==
    /\ Ancestor \subseteq Commits \X Commits
    /\ \A c \in Commits : <<c, c>> \in Ancestor
    /\ \A a, b, c \in Commits :
            <<a, b>> \in Ancestor /\ <<b, c>> \in Ancestor => <<a, c>> \in Ancestor
ASSUME NullAssumption == Null \notin Commits \cup Contents

VARIABLES
    head,       \* the branch in the remote repository
    vectors,    \* vector store: content of each chunk, Null if absent
    owner,      \* chunk_catalog: version of each chunk's row, Null if absent
    files,      \* source_files: <<version, path>>
    status,     \* source_versions.status by commit, "none" without a row
    current,    \* the version with current = 1
    synced,     \* knowledge_sources.config.last_synced_commit
    pc,         \* where the running job is
    run,        \* what index_git_snapshot holds in its local variables
    mutating,   \* mutation_started: an exception enters the rollback
    todo,       \* what is left of the loop over files, chunks or rows
    dirty,      \* history: commits whose run was interrupted, not yet redone
    lost,       \* history: files whose rows were deleted and not indexed again
    aborted     \* history: a rollback did not reach its end

catalog == <<owner, files, status, current, synced>>
vars == <<head, vectors, catalog, pc, run, mutating, todo, dirty, lost, aborted>>

Versions == Commits \cup {Null}
Forward == {"start", "create", "backup", "embed", "files", "chunks",
            "staleVectors", "staleRows", "record", "refresh"}
Undo == {"undoVectors", "undoRows", "undoUpsert", "undoCatalog", "undoCurrent",
         "undoCandidate", "undoSource"}

\* Local variables of a run that has not started.
NoRun == [target |-> Null, was |-> Null, old |-> [p \in Paths |-> Null],
          baseline |-> {}, current |-> Null, backups |-> [p \in {} |-> Null]]

Runs == [target : Versions, was : Versions, old : [Paths -> Versions],
         baseline : SUBSET Paths, current : Versions,
         backups : UNION {[S -> Contents] : S \in SUBSET Paths}]

TypeOK ==
    /\ head \in Commits
    /\ vectors \in [Paths -> Contents \cup {Null}]
    /\ owner \in [Paths -> Versions]
    /\ files \subseteq Commits \X Paths
    /\ status \in [Commits -> {"none", "indexing", "succeeded", "failed"}]
    /\ current \in Versions
    /\ synced \in Versions
    /\ pc \in {"idle"} \cup Forward \cup Undo
    /\ run \in Runs
    /\ pc # "idle" => run.target \in Commits
    /\ \A p \in run.baseline : run.old[p] # Null
    /\ mutating \in BOOLEAN
    /\ todo \subseteq Paths
    /\ dirty \subseteq Commits
    /\ lost \subseteq Paths
    /\ aborted \in BOOLEAN

Init ==
    /\ head \in Commits
    /\ vectors = [p \in Paths |-> Null]
    /\ owner = [p \in Paths |-> Null]
    /\ files = {}
    /\ status = [c \in Commits |-> "none"]
    /\ current = Null
    /\ synced = Null
    /\ pc = "idle"
    /\ run = NoRun
    /\ mutating = FALSE
    /\ todo = {}
    /\ dirty = {}
    /\ lost = {}
    /\ aborted = FALSE

-----------------------------------------------------------------------------
(* What a run computes from its snapshot and the catalog as it found it *)

\* merge-base --is-ancestor: a forced push leaves the commit indexed last behind.
Descends(newer, older) == <<older, newer>> \in Ancestor

\* diff --name-status: a rename names both of its paths.
Changed(older, newer) == {p \in Paths : Tree[older][p] # Tree[newer][p]}

\* Between two commits: all files after a reset of the branch or without a
\* synchronised commit, else those that differ.
FullReconcile(older, newer) == older = Null \/ ~Descends(newer, older)

AffectedBetween(older, newer) ==
    IF FullReconcile(older, newer) THEN Paths ELSE Changed(older, newer)

Affected == AffectedBetween(run.was, run.target)

\* The chunks of the snapshot: of all files, or of the changed ones.
Chunks == {p \in Affected : Tree[run.target][p] # Null}

OldRows == {p \in Paths : run.old[p] # Null}

\* Mutant: what the snapshot does not list is stale, affected or not.
StaleEverything == OldRows \ Chunks

\* _stale_chunk_ids: rows of affected files that the snapshot no longer has.
Stale == (OldRows \cap Affected) \ Chunks

\* _diff_chunks: chunks without a baseline row of the same content hash.
ToEmbed ==
    {p \in Chunks : p \in run.baseline => Tree[run.old[p]][p] # Tree[run.target][p]}

\* discarded_entry_ids: rows of versions that never succeeded.
Discarded == OldRows \ run.baseline

-----------------------------------------------------------------------------
(* The two stores *)

\* What the vector call at pc writes, for the ids it is given.
Call ==
    CASE pc = "embed"        -> [p \in ToEmbed |-> Tree[run.target][p]]
      [] pc = "staleVectors" -> [p \in Stale |-> Null]
      [] pc = "undoVectors"  -> [p \in Chunks \cup Discarded |-> Null]
      [] pc = "undoUpsert"   -> run.backups
      [] OTHER               -> [p \in {} |-> Null]

WriteVectors ==
    vectors' = [p \in Paths |-> IF p \in DOMAIN Call THEN Call[p] ELSE vectors[p]]

\* A call that stops half way: upsert deletes a batch before it adds it, so a
\* chunk may also be missing, whatever it was and was to be.
TornVectors ==
    \E torn \in [DOMAIN Call -> Contents \cup {Null}] :
        /\ \A p \in DOMAIN Call : torn[p] \in {vectors[p], Null, Call[p]}
        /\ vectors' = [p \in Paths |-> IF p \in DOMAIN Call THEN torn[p] ELSE vectors[p]]

\* Mutant: the chunk rows are not deleted with their version.
DeleteVersionAlone(c) ==
    /\ status' = [status EXCEPT ![c] = "none"]
    /\ files' = {f \in files : f[1] # c}
    /\ owner' = owner
    /\ current' = IF current = c THEN Null ELSE current

\* DELETE FROM source_versions cascades to its files and chunk rows.
DeleteVersion(c) ==
    /\ status' = [status EXCEPT ![c] = "none"]
    /\ files' = {f \in files : f[1] # c}
    /\ owner' = [p \in Paths |-> IF owner[p] = c THEN Null ELSE owner[p]]
    /\ current' = IF current = c THEN Null ELSE current

DeleteRows(ps) == owner' = [p \in Paths |-> IF p \in ps THEN Null ELSE owner[p]]

\* update_version(id, status, current=True) takes the flag from the others.
MakeCurrent(c, s) ==
    /\ status' = [status EXCEPT ![c] = s]
    /\ current' = c

Goto(from, to) ==
    /\ pc = from
    /\ pc' = to

local == <<run, mutating, todo>>
ghosts == <<dirty, lost, aborted>>

Leave ==
    /\ pc' = "idle"
    /\ run' = NoRun
    /\ mutating' = FALSE
    /\ todo' = {}

-----------------------------------------------------------------------------
(* The forward path *)

\* Somebody pushes, forward or with force to any other commit.
MoveHead(c) ==
    /\ c # head
    /\ head' = c
    /\ UNCHANGED <<vectors, catalog, pc, local, ghosts>>

\* prepare_snapshot and the reads of index_git_snapshot: the snapshot is the
\* head of the branch, whatever commit the job was enqueued for.
Begin ==
    /\ Goto("idle", "start")
    /\ run' = [target |-> head, was |-> synced, old |-> owner,
               baseline |-> {p \in Paths :
                    owner[p] # Null /\ status[owner[p]] = "succeeded"},
               current |-> current, backups |-> [p \in {} |-> Null]]
    /\ UNCHANGED <<head, vectors, catalog, mutating, todo, ghosts>>

\* _start_version: a current, succeeded version is not indexed again; any
\* other version of this commit is deleted, with its files and rows.
StartVersion ==
    /\ pc = "start"
    /\ IF current = run.target /\ status[run.target] = "succeeded"
       THEN /\ pc' = "staleVectors"
            /\ UNCHANGED <<owner, files, status, current, lost>>
       ELSE /\ pc' = "create"
            /\ DeleteVersion(run.target)
            /\ lost' = lost \cup {p \in run.baseline : run.old[p] = run.target}
    /\ UNCHANGED <<head, vectors, synced, local, dirty, aborted>>

CreateVersion ==
    /\ Goto("create", "backup")
    /\ status' = [status EXCEPT ![run.target] = "indexing"]
    /\ UNCHANGED <<head, vectors, owner, files, current, synced, local, ghosts>>

\* _backup_vectors of the baseline rows; the try block begins.
Backup ==
    /\ Goto("backup", "embed")
    /\ run' = [run EXCEPT !.backups =
                [p \in {q \in run.baseline : vectors[q] # Null} |-> vectors[p]]]
    /\ mutating' = TRUE
    /\ UNCHANGED <<head, vectors, catalog, todo, ghosts>>

\* vector_repository.upsert, then update_metadata for the unchanged chunks.
Embed ==
    /\ Goto("embed", "files")
    /\ WriteVectors
    /\ todo' = Chunks
    /\ UNCHANGED <<head, catalog, run, mutating, ghosts>>

\* _persist_chunks: one INSERT and commit for each file ...
PersistFile(p) ==
    /\ pc = "files"
    /\ p \in todo
    /\ files' = files \cup {<<run.target, p>>}
    /\ todo' = todo \ {p}
    /\ UNCHANGED <<head, vectors, owner, status, current, synced, pc, run, mutating, ghosts>>

FilesPersisted ==
    /\ Goto("files", "chunks")
    /\ todo = {}
    /\ todo' = Chunks
    /\ UNCHANGED <<head, vectors, catalog, run, mutating, ghosts>>

\* ... and one upsert and commit for each chunk.
PersistChunk(p) ==
    /\ pc = "chunks"
    /\ p \in todo
    /\ owner' = [owner EXCEPT ![p] = run.target]
    /\ todo' = todo \ {p}
    /\ UNCHANGED <<head, vectors, files, status, current, synced, pc, run, mutating, ghosts>>

Promote ==
    /\ Goto("chunks", "staleVectors")
    /\ todo = {}
    /\ MakeCurrent(run.target, "succeeded")
    /\ UNCHANGED <<head, vectors, owner, files, synced, local, ghosts>>

\* _delete_stale: the vectors, then the rows.
DeleteStaleVectors ==
    /\ Goto("staleVectors", "staleRows")
    /\ WriteVectors
    /\ UNCHANGED <<head, catalog, local, ghosts>>

DeleteStaleRows ==
    /\ Goto("staleRows", "record")
    /\ DeleteRows(Stale)
    /\ UNCHANGED <<head, vectors, files, status, current, synced, local, ghosts>>

RecordSynced ==
    /\ Goto("record", "refresh")
    /\ synced' = run.target
    /\ UNCHANGED <<head, vectors, owner, files, status, current, local, ghosts>>

\* pipeline_registry.refresh returns and so does the job: the run redid its
\* commit, which heals what an interrupted run of the same commit left behind.
Finish ==
    /\ pc = "refresh"
    /\ dirty' = IF dirty \subseteq {run.target} THEN {} ELSE dirty
    /\ lost' = lost \ Chunks
    /\ Leave
    /\ UNCHANGED <<head, vectors, catalog, aborted>>

-----------------------------------------------------------------------------
(* Exceptions, the rollback, and crashes *)

\* A step inside the try raises, possibly after a part of its effect.
Raise ==
    /\ pc \in Forward
    /\ mutating
    /\ TornVectors
    /\ pc' = "undoVectors"
    /\ UNCHANGED <<head, catalog, local, ghosts>>

\* A step outside the try raises: nothing is rolled back.
RaiseOutside ==
    /\ pc \in Forward
    /\ ~mutating
    /\ TornVectors
    /\ dirty' = IF pc = "start" THEN dirty ELSE dirty \cup {run.target}
    /\ Leave
    /\ UNCHANGED <<head, catalog, lost, aborted>>

UndoVectors ==
    /\ Goto("undoVectors", "undoRows")
    /\ WriteVectors
    /\ UNCHANGED <<head, catalog, local, ghosts>>

UndoRows ==
    /\ Goto("undoRows", "undoUpsert")
    /\ DeleteRows(Chunks \cup Discarded)
    /\ UNCHANGED <<head, vectors, files, status, current, synced, local, ghosts>>

UndoUpsert ==
    /\ Goto("undoUpsert", "undoCatalog")
    /\ WriteVectors
    /\ todo' = run.baseline
    /\ UNCHANGED <<head, catalog, run, mutating, ghosts>>

\* upsert_chunk of a baseline row: its version and its file must still exist.
RowAllowed(p) ==
    /\ status[run.old[p]] # "none"
    /\ <<run.old[p], p>> \in files

RestoreRow(p) ==
    /\ pc = "undoCatalog"
    /\ p \in todo
    /\ RowAllowed(p)
    /\ owner' = [owner EXCEPT ![p] = run.old[p]]
    /\ todo' = todo \ {p}
    /\ UNCHANGED <<head, vectors, files, status, current, synced, pc, run, mutating, ghosts>>

\* The foreign key refuses the row: the rollback itself raises and ends here.
RestoreRefused(p) ==
    /\ pc = "undoCatalog"
    /\ p \in todo
    /\ ~RowAllowed(p)
    /\ aborted' = TRUE
    /\ Leave
    /\ UNCHANGED <<head, vectors, catalog, dirty, lost>>

RowsRestored ==
    /\ Goto("undoCatalog", "undoCurrent")
    /\ todo = {}
    /\ UNCHANGED <<head, vectors, catalog, local, ghosts>>

UndoCurrent ==
    /\ Goto("undoCurrent", "undoCandidate")
    /\ IF run.current # Null
       THEN MakeCurrent(run.current, "succeeded")
       ELSE UNCHANGED <<status, current>>
    /\ UNCHANGED <<head, vectors, owner, files, synced, local, ghosts>>

UndoCandidate ==
    /\ Goto("undoCandidate", "undoSource")
    /\ status' = [status EXCEPT ![run.target] = "failed"]
    /\ current' = IF current = run.target THEN Null ELSE current
    /\ UNCHANGED <<head, vectors, owner, files, synced, local, ghosts>>

\* Mutant: the rollback leaves last_synced_commit where the run put it.
UndoAllButSource ==
    /\ pc = "undoSource"
    /\ Leave
    /\ UNCHANGED <<head, vectors, catalog, ghosts>>

\* update_source with the configuration as it was read, then invalidate; the
\* exception goes on to the worker.
UndoSource ==
    /\ pc = "undoSource"
    /\ synced' = run.was
    /\ Leave
    /\ UNCHANGED <<head, vectors, owner, files, status, current, ghosts>>

\* A step of the rollback raises.
RaiseInUndo ==
    /\ pc \in Undo
    /\ TornVectors
    /\ aborted' = TRUE
    /\ Leave
    /\ UNCHANGED <<head, catalog, dirty, lost>>

\* The process dies, or stop() cancels the job (a CancelledError is no
\* Exception, so nothing is rolled back).
Crash ==
    /\ pc \in Forward \cup Undo
    /\ TornVectors
    /\ dirty' = IF pc = "start" THEN dirty ELSE dirty \cup {run.target}
    /\ aborted' = (aborted \/ pc \in Undo)
    /\ Leave
    /\ UNCHANGED <<head, catalog, lost>>

-----------------------------------------------------------------------------
Advance ==
    \/ Begin \/ StartVersion \/ CreateVersion \/ Backup \/ Embed
    \/ (\E p \in Paths : PersistFile(p)) \/ FilesPersisted
    \/ (\E p \in Paths : PersistChunk(p)) \/ Promote
    \/ DeleteStaleVectors \/ DeleteStaleRows \/ RecordSynced \/ Finish

Rollback ==
    \/ UndoVectors \/ UndoRows \/ UndoUpsert
    \/ (\E p \in Paths : RestoreRow(p) \/ RestoreRefused(p))
    \/ RowsRestored \/ UndoCurrent \/ UndoCandidate \/ UndoSource

Next ==
    \/ \E c \in Commits : MoveHead(c)
    \/ Advance \/ Rollback
    \/ Raise \/ RaiseOutside \/ RaiseInUndo \/ Crash

Spec == Init /\ [][Next]_vars

-----------------------------------------------------------------------------
(* Safety *)

Content(c, p) == IF c = Null THEN Null ELSE Tree[c][p]

Synced(p) == Content(synced, p)

\* Nothing was left behind that a later run has not redone: by an interruption,
\* or by a reset to a commit indexed before, whose version is deleted first.
Clean == dirty = {} /\ lost = {} /\ ~aborted

\* Between jobs, whatever jobs failed and were rolled back before, and whatever
\* crashed and was redone for the same commit, the index is exactly the tree of
\* last_synced_commit: each file searchable with that content, with one row, of
\* a succeeded version, and nothing else.
IndexMatchesTree ==
    (pc = "idle" /\ Clean) =>
        \A p \in Paths :
            /\ vectors[p] = Synced(p)
            /\ owner[p] = Null <=> Synced(p) = Null
            /\ owner[p] # Null =>
                /\ Tree[owner[p]][p] = Synced(p)
                /\ status[owner[p]] = "succeeded"

\* While a job goes forward, a file that its commit does not touch stays
\* searchable with its content (the design of 2026-07-30, query optimisation:
\* the old index keeps serving during a synchronisation).
UntouchedStaySearchable ==
    (pc \in Forward /\ Clean) => \A p \in Paths \ Affected : vectors[p] = Synced(p)

\* What the catalog says is current has been indexed to the end: no crash, no
\* failed rollback makes a half-indexed version the current one.
CurrentSucceeded == current # Null => status[current] = "succeeded"

\* Every chunk row has its version and its file.
RowsHaveFiles ==
    \A p \in Paths : owner[p] # Null =>
        status[owner[p]] # "none" /\ <<owner[p], p>> \in files

\* At every step, of a crash and of a rollback too, the catalog can be searched:
\* the current version was indexed to its end, and each row leads to a file.
CatalogIsWhole == CurrentSucceeded /\ RowsHaveFiles

\* What makes them inductive: which version can be current at a step of a run,
\* and that a candidate's chunks are written after its files.
CurrentOfRun ==
    /\ pc = "start" => current = run.current
    /\ pc \in {"create", "backup", "embed", "files", "chunks"} =>
        current = run.current /\ run.current # run.target
    /\ pc # "idle" => current \in {run.current, run.target}
    /\ pc \in {"idle", "start", "create", "backup"} => ~mutating
    /\ pc \in {"embed", "files", "chunks"} \cup Undo => mutating
    /\ mutating => run.current # run.target
    /\ (pc = "undoCandidate" /\ run.current # Null) => current = run.current

FilesOfRun ==
    /\ (mutating \/ pc = "backup") => status[run.target] # "none"
    /\ pc = "files" => \A p \in Chunks \ todo : <<run.target, p>> \in files
    /\ pc = "chunks" => \A p \in Chunks : <<run.target, p>> \in files
    /\ pc \in {"files", "chunks"} => todo \subseteq Chunks
    /\ pc = "undoCatalog" => todo \subseteq run.baseline

IInv == TypeOK /\ CurrentSucceeded /\ RowsHaveFiles /\ CurrentOfRun /\ FilesOfRun

\* Once a source has been indexed, some version stays current, and only the
\* promotion of a finished run or the rollback of it changes which one.
CurrentMoves ==
    [][current # current' =>
        \/ pc = "chunks" /\ current' = run.target
        \/ pc = "undoCurrent" /\ current = run.target /\ current' = run.current
        \/ pc = "undoCandidate" /\ run.current = Null]_vars
=============================================================================

--------------------------- MODULE SourceIndexTree ---------------------------
(***************************************************************************)
(* Why the index of SourceIndex is the tree of its last synchronised       *)
(* commit: what every step preserves that IndexMatchesTree and             *)
(* UntouchedStaySearchable follow from, also while one interrupted run     *)
(* waits to be redone.  Each part speaks of one file at a time.            *)
(***************************************************************************)
EXTENDS SourceIndex

\* Nothing is claimed once a rollback ended early or two commits are unfinished.
OneUnfinished == ~aborted /\ \A c, d \in dirty : c = d

\* The unfinished commit did not touch p, counted from commit at.
Settled(p, at) == \A c \in dirty : p \notin AffectedBetween(at, c)

\* The unfinished commit touched p, and gives it another content than x.
Exposed(p, x, at) == \E c \in dirty : p \in AffectedBetween(at, c) /\ Tree[c][p] # x

\* A row is of a file its version has; a row of no succeeded version is of the
\* unfinished commit; where that touched nothing, the row has the content of at.
RowFits(p, row, good, at) ==
    /\ row # Null => Tree[row][p] # Null
    /\ (row # Null /\ ~good /\ p \notin lost) => row \in dirty
    /\ (Settled(p, at) /\ p \notin lost) =>
            Content(row, p) = Content(at, p) /\ (row # Null => good)

\* The vector of a row that a run can build on, or of no row, has its content,
\* unless the unfinished commit is about to write it again.
Kept(p, row, good, at) ==
    (good \/ (row = Null /\ p \notin lost)) =>
        vectors[p] = Content(row, p) \/ Exposed(p, Content(row, p), at)

\* A version that a run made current without recording its commit.
Ahead(p, row, good, at, now) ==
    (now # Null /\ now # at) =>
        /\ now \in dirty
        /\ (p \in AffectedBetween(at, now) /\ Tree[now][p] # Null) => good /\ row = now

-----------------------------------------------------------------------------
(* Between jobs *)

\* The row that the next run takes into its baseline.
Good(p) == owner[p] # Null /\ status[owner[p]] = "succeeded"

FileOK(p) ==
    /\ RowFits(p, owner[p], Good(p), synced)
    /\ Kept(p, owner[p], Good(p), synced)
    /\ Ahead(p, owner[p], Good(p), synced, current)

IdleOK == pc = "idle" => \A p \in Paths : FileOK(p)

-----------------------------------------------------------------------------
(* In a job: what it found, and how far it has come with each store *)

Promoted == {"staleVectors", "staleRows", "record", "refresh"}

OldGood(p) == p \in run.baseline
OldContent(p) == Content(run.old[p], p)
OldKept(p) == Kept(p, run.old[p], OldGood(p), run.was)
NewContent(p) == Tree[run.target][p]

FoundOK == pc # "idle" => \A p \in Paths :
    /\ RowFits(p, run.old[p], OldGood(p), run.was)
    /\ Ahead(p, run.old[p], OldGood(p), run.was, run.current)

\* Succeeded rows that _start_version has deleted with their version are lost.
LostOK == (mutating \/ pc \in {"create", "backup"}) =>
    \A p \in run.baseline : run.old[p] = run.target => p \in lost

VectorsOK == \A p \in Paths :
    /\ pc \in {"start", "create", "backup", "embed"} => OldKept(p)
    /\ (pc \in Forward /\ p \notin Chunks \cup Stale) => OldKept(p)
    /\ (pc \in {"files", "chunks"} \cup Promoted /\ p \in Chunks) =>
            vectors[p] = NewContent(p) \/ Exposed(p, NewContent(p), run.target)
    /\ (pc \in Promoted \ {"staleVectors"} /\ p \in Stale) => vectors[p] = Null
    /\ (pc \in Undo /\ p \notin Chunks \cup OldRows) => OldKept(p)
    /\ (pc \in Undo \ {"undoVectors"} /\ p \in (Chunks \cup Discarded) \ run.baseline) =>
            vectors[p] = Null
    /\ (pc \in {"undoCatalog", "undoCurrent", "undoCandidate", "undoSource"}
          /\ p \in DOMAIN run.backups) => vectors[p] = run.backups[p]

BackupsOK == mutating =>
    /\ DOMAIN run.backups \subseteq run.baseline
    /\ \A p \in run.baseline :
        \/ p \in DOMAIN run.backups /\ run.backups[p] = OldContent(p)
        \/ Exposed(p, OldContent(p), run.was)

\* The row of a file that the run has not written: deleted with its version, if
\* that is the one indexed again.
Left(p) ==
    IF run.old[p] = run.target /\ run.current # run.target THEN Null ELSE run.old[p]

OwnerOK == \A p \in Paths :
    /\ pc = "start" => owner[p] = run.old[p]
    /\ pc \in {"create", "backup", "embed", "files"} => owner[p] = Left(p)
    /\ pc = "chunks" => owner[p] = IF p \in Chunks \ todo THEN run.target ELSE Left(p)
    /\ pc \in {"staleVectors", "staleRows"} =>
            owner[p] = IF p \in Chunks THEN run.target ELSE Left(p)
    /\ pc \in {"record", "refresh"} =>
            owner[p] = IF p \in Chunks THEN run.target
                       ELSE IF p \in Stale THEN Null ELSE Left(p)
    /\ (pc \in {"undoVectors", "undoRows"} /\ p \notin Chunks \cup OldRows) => owner[p] = Null
    /\ (pc \in Undo \ {"undoVectors", "undoRows"} /\ p \notin run.baseline) => owner[p] = Null
    /\ (pc = "undoCatalog" /\ p \in run.baseline \ todo) => owner[p] = run.old[p]
    /\ (pc \in {"undoCurrent", "undoCandidate", "undoSource"} /\ p \in run.baseline) =>
            owner[p] = run.old[p]

StatusOK ==
    /\ pc # "idle" => \A p \in run.baseline \ lost : status[run.old[p]] = "succeeded"
    /\ pc \in Promoted => status[run.target] = "succeeded"
    /\ pc \in Forward => \A p \in Paths :
        (run.old[p] # Null
           /\ (pc = "start" \/ run.old[p] # run.target \/ run.current = run.target)) =>
        (p \in run.baseline <=> status[run.old[p]] = "succeeded")

SyncedOK ==
    /\ pc \in Forward \ {"refresh"} => synced = run.was
    /\ pc = "refresh" => synced = run.target
    /\ pc = "undoSource" => current = run.current
    /\ pc \in Promoted => current = run.target
    /\ (pc \in Promoted /\ ~mutating) => run.current = run.target

JobOK == /\ FoundOK /\ LostOK /\ VectorsOK /\ BackupsOK
         /\ OwnerOK /\ StatusOK /\ SyncedOK

TreeInv == OneUnfinished => IdleOK /\ JobOK
=============================================================================

------------------------- MODULE SourceIndexProofs -------------------------
(* Theorems about SourceIndex, for every tree and every set of commits. *)
EXTENDS SourceIndexTree, TLAPS

\* Every vector call writes contents, or removes chunks, of known paths.
LEMMA CallType ==
    ASSUME TypeOK
    PROVE  DOMAIN Call \subseteq Paths /\ \A p \in DOMAIN Call : Call[p] \in Contents \cup {Null}
<1> DEFINE none == [p \in {} |-> Null]
<1>1. CASE pc = "embed"
  <2>1. run.target \in Commits
    BY <1>1 DEF TypeOK
  <2>2. Call = [p \in ToEmbed |-> Tree[run.target][p]]
    BY <1>1 DEF Call
  <2>3. ToEmbed \subseteq Paths
    BY DEF ToEmbed, Chunks, Affected, AffectedBetween, Changed
  <2> QED BY <2>1, <2>2, <2>3, TreeAssumption
<1>2. CASE pc = "staleVectors"
  <2>1. Call = [p \in Stale |-> Null]
    BY <1>2 DEF Call
  <2> QED BY <2>1 DEF Stale, OldRows
<1>3. CASE pc = "undoVectors"
  <2>1. Call = [p \in Chunks \cup Discarded |-> Null]
    BY <1>3 DEF Call
  <2> QED BY <2>1 DEF Chunks, Affected, AffectedBetween, Changed, Discarded, OldRows
<1>4. CASE pc = "undoUpsert"
  <2>1. Call = run.backups
    BY <1>4 DEF Call
  <2>2. PICK S \in SUBSET Paths : run.backups \in [S -> Contents]
    BY DEF TypeOK, Runs
  <2> QED BY <2>1, <2>2
<1>5. CASE pc \notin {"embed", "staleVectors", "undoVectors", "undoUpsert"}
  <2>1. Call = none
    BY <1>5 DEF Call
  <2> QED BY <2>1
<1> QED BY <1>1, <1>2, <1>3, <1>4, <1>5

\* A vector call keeps the store well typed, whole or torn.
LEMMA VectorsType ==
    ASSUME TypeOK, WriteVectors \/ TornVectors
    PROVE  vectors' \in [Paths -> Contents \cup {Null}]
<1>1. DOMAIN Call \subseteq Paths /\ \A p \in DOMAIN Call : Call[p] \in Contents \cup {Null}
  BY CallType
<1>2. vectors \in [Paths -> Contents \cup {Null}]
  BY DEF TypeOK
<1>3. CASE WriteVectors
  BY <1>1, <1>2, <1>3 DEF WriteVectors
<1>4. CASE TornVectors
  <2>1. PICK torn \in [DOMAIN Call -> Contents \cup {Null}] :
            vectors' = [p \in Paths |-> IF p \in DOMAIN Call THEN torn[p] ELSE vectors[p]]
    BY <1>4 DEF TornVectors
  <2> QED BY <1>2, <2>1
<1> QED BY <1>3, <1>4

\* What a job leaves in memory when it ends.
LEMMA LeaveType ==
    ASSUME Leave
    PROVE  /\ pc' = "idle" /\ mutating' = FALSE /\ todo' = {}
           /\ run' \in Runs /\ run'.baseline = {}
<1>1. run' = NoRun /\ pc' = "idle" /\ mutating' = FALSE /\ todo' = {}
  BY DEF Leave
<1>2. [p \in {} |-> Null] \in [{} -> Contents]
  OBVIOUS
<1>3. [p \in {} |-> Null] \in UNION {[S -> Contents] : S \in SUBSET Paths}
  BY <1>2
<1>4. NoRun \in Runs /\ NoRun.baseline = {}
  BY <1>3 DEF NoRun, Runs, Versions
<1> QED BY <1>1, <1>4

\* The empty index satisfies the invariant.
LEMMA InitIInv == Init => IInv
<1> SUFFICES ASSUME Init PROVE IInv
  OBVIOUS
<1>2. [p \in {} |-> Null] \in [{} -> Contents]
  OBVIOUS
<1>3. [p \in {} |-> Null] \in UNION {[S -> Contents] : S \in SUBSET Paths}
  BY <1>2
<1>4. NoRun \in Runs /\ NoRun.baseline = {}
  BY <1>3 DEF NoRun, Runs, Versions
<1>5. TypeOK
  BY <1>4 DEF Init, TypeOK, Versions
<1>6. CurrentSucceeded /\ RowsHaveFiles /\ CurrentOfRun /\ FilesOfRun
  BY DEF Init, CurrentSucceeded, RowsHaveFiles, CurrentOfRun, FilesOfRun, Undo
<1> QED BY <1>5, <1>6 DEF IInv

\* Types, action by action.
LEMMA TypesStep == TypeOK /\ [Next]_vars => TypeOK'
<1> SUFFICES ASSUME TypeOK, [Next]_vars PROVE TypeOK'
  OBVIOUS
<1> USE DEF Versions
<1>1. CASE UNCHANGED vars
  BY <1>1 DEF vars, catalog, TypeOK
<1>2. ASSUME NEW c \in Commits, MoveHead(c) PROVE TypeOK'
  BY <1>2 DEF MoveHead, catalog, local, ghosts, TypeOK
<1>3. CASE Begin
  <2>1. [p \in {} |-> Null] \in [{} -> Contents]
    OBVIOUS
  <2> DEFINE base == {p \in Paths : owner[p] # Null /\ status[owner[p]] = "succeeded"}
             none == [p \in {} |-> Null]
  <2>4. none \in UNION {[S -> Contents] : S \in SUBSET Paths}
    BY <2>1
  <2>5. run' = [target |-> head, was |-> synced, old |-> owner, baseline |-> base,
                current |-> current, backups |-> none]
    BY <1>3 DEF Begin
  <2>6. base \in SUBSET Paths
    OBVIOUS
  <2> HIDE DEF base, none
  <2>2. run' \in Runs
    BY <2>4, <2>5, <2>6 DEF TypeOK, Runs
  <2>3. run'.target = head /\ run'.old = owner
        /\ run'.baseline = {p \in Paths : owner[p] # Null /\ status[owner[p]] = "succeeded"}
    BY <1>3 DEF Begin
  <2> QED BY <1>3, <2>2, <2>3 DEF Begin, Goto, catalog, ghosts, TypeOK, Forward
<1>4. CASE StartVersion
  <2>1. {p \in run.baseline : run.old[p] = run.target} \subseteq Paths
    BY DEF TypeOK, Runs
  <2>2. lost' \subseteq Paths
    BY <1>4, <2>1 DEF StartVersion, TypeOK
  <2> QED BY <1>4, <2>2 DEF StartVersion, DeleteVersion, local, TypeOK, Forward
<1>5. CASE CreateVersion
  BY <1>5 DEF CreateVersion, Goto, local, ghosts, TypeOK, Forward
<1>6. CASE Backup
  <2> DEFINE S == {q \in run.baseline : vectors[q] # Null}
             b == [p \in S |-> vectors[p]]
  <2>1. S \subseteq Paths
    BY DEF TypeOK, Runs
  <2>2. b \in [S -> Contents]
    BY <2>1 DEF TypeOK
  <2>3. b \in UNION {[T -> Contents] : T \in SUBSET Paths}
    BY <2>1, <2>2
  <2>4. run' = [run EXCEPT !.backups = b]
    BY <1>6 DEF Backup
  <2>5. run' \in Runs /\ run'.target = run.target /\ run'.baseline = run.baseline
        /\ run'.old = run.old
    BY <2>3, <2>4 DEF TypeOK, Runs
  <2> QED BY <1>6, <2>5 DEF Backup, Goto, catalog, ghosts, TypeOK, Forward
<1>7. CASE Embed
  BY <1>7, VectorsType DEF Embed, Goto, catalog, ghosts, TypeOK, Forward, Chunks, Affected, AffectedBetween,
           Changed
<1>8. ASSUME NEW p \in Paths, PersistFile(p) PROVE TypeOK'
  BY <1>8 DEF PersistFile, ghosts, TypeOK, Forward
<1>9. CASE FilesPersisted
  BY <1>9 DEF FilesPersisted, Goto, catalog, ghosts, TypeOK, Forward, Chunks, Affected, AffectedBetween,
           Changed
<1>10. ASSUME NEW p \in Paths, PersistChunk(p) PROVE TypeOK'
  BY <1>10 DEF PersistChunk, ghosts, TypeOK, Forward
<1>11. CASE Promote
  BY <1>11 DEF Promote, MakeCurrent, Goto, local, ghosts, TypeOK, Forward
<1>12. CASE DeleteStaleVectors
  BY <1>12, VectorsType DEF DeleteStaleVectors, Goto, catalog, local, ghosts, TypeOK, Forward
<1>13. CASE DeleteStaleRows
  BY <1>13 DEF DeleteStaleRows, DeleteRows, Goto, local, ghosts, TypeOK, Forward
<1>14. CASE RecordSynced
  BY <1>14 DEF RecordSynced, Goto, local, ghosts, TypeOK, Forward
<1>15. CASE Finish
  BY <1>15, LeaveType DEF Finish, catalog, TypeOK
<1>16. CASE Raise
  BY <1>16, VectorsType DEF Raise, catalog, local, ghosts, TypeOK, Forward, Undo
<1>17. CASE RaiseOutside
  BY <1>17, VectorsType, LeaveType DEF RaiseOutside, catalog, TypeOK, Forward
<1>18. CASE UndoVectors
  BY <1>18, VectorsType DEF UndoVectors, Goto, catalog, local, ghosts, TypeOK, Undo
<1>19. CASE UndoRows
  BY <1>19 DEF UndoRows, DeleteRows, Goto, local, ghosts, TypeOK, Undo
<1>20. CASE UndoUpsert
  BY <1>20, VectorsType DEF UndoUpsert, Goto, catalog, ghosts, TypeOK, Undo, Runs
<1>21. ASSUME NEW p \in Paths, RestoreRow(p) PROVE TypeOK'
  BY <1>21 DEF RestoreRow, ghosts, TypeOK, Undo, Runs
<1>22. ASSUME NEW p \in Paths, RestoreRefused(p) PROVE TypeOK'
  BY <1>22, LeaveType DEF RestoreRefused, catalog, TypeOK
<1>23. CASE RowsRestored
  BY <1>23 DEF RowsRestored, Goto, catalog, local, ghosts, TypeOK, Undo
<1>24. CASE UndoCurrent
  BY <1>24 DEF UndoCurrent, MakeCurrent, Goto, local, ghosts, TypeOK, Undo, Runs
<1>25. CASE UndoCandidate
  BY <1>25 DEF UndoCandidate, Goto, local, ghosts, TypeOK, Undo
<1>26. CASE UndoSource
  BY <1>26, LeaveType DEF UndoSource, ghosts, TypeOK, Runs
<1>27. CASE RaiseInUndo
  BY <1>27, VectorsType, LeaveType DEF RaiseInUndo, catalog, TypeOK
<1>28. CASE Crash
  BY <1>28, VectorsType, LeaveType DEF Crash, catalog, TypeOK, Forward, Undo
<1> QED BY <1>1, <1>2, <1>3, <1>4, <1>5, <1>6, <1>7, <1>8, <1>9, <1>10, <1>11, <1>12,
           <1>13, <1>14, <1>15, <1>16, <1>17, <1>18, <1>19, <1>20, <1>21, <1>22, <1>23,
           <1>24, <1>25, <1>26, <1>27, <1>28 DEF Next, Advance, Rollback

\* Current version and rollback, action by action.
LEMMA CurrentStep == IInv /\ [Next]_vars => CurrentSucceeded' /\ CurrentOfRun'
<1> SUFFICES ASSUME IInv, [Next]_vars PROVE CurrentSucceeded' /\ CurrentOfRun'
  OBVIOUS
<1> USE DEF IInv, CurrentSucceeded, CurrentOfRun, Forward, Undo
<1>t. /\ status \in [Commits -> {"none", "indexing", "succeeded", "failed"}]
      /\ current \in Versions
      /\ pc # "idle" => run.target \in Commits
      /\ pc \in {"idle"} \cup Forward \cup Undo
      /\ run \in Runs
  BY DEF TypeOK
<1>n. Null \notin Commits
  BY NullAssumption
<1>1. CASE UNCHANGED vars
  BY <1>1 DEF vars, catalog
<1>2. ASSUME NEW c \in Commits, MoveHead(c) PROVE CurrentSucceeded' /\ CurrentOfRun'
  BY <1>2 DEF MoveHead, catalog, local, ghosts
<1>3. CASE Begin
  BY <1>3, <1>t DEF Begin, Goto, catalog, ghosts
<1>4. CASE StartVersion
  <2>1. CASE current = run.target /\ status[run.target] = "succeeded"
    BY <1>4, <2>1 DEF StartVersion, local, ghosts
  <2>2. CASE ~(current = run.target /\ status[run.target] = "succeeded")
    <3>1. current # run.target
      BY <1>4, <1>t, <1>n, <2>2 DEF StartVersion
    <3>2. current' = current /\ pc' = "create" /\ UNCHANGED <<run, mutating>>
      BY <1>4, <2>2, <3>1 DEF StartVersion, DeleteVersion, local
    <3>3. current # Null => status'[current] = status[current]
      BY <1>4, <1>t, <2>2, <3>1 DEF StartVersion, DeleteVersion, Versions
    <3> QED BY <1>4, <3>1, <3>2, <3>3 DEF StartVersion
  <2> QED BY <2>1, <2>2
<1>5. CASE CreateVersion
  BY <1>5, <1>t, <1>n DEF CreateVersion, Goto, local, ghosts
<1>6. CASE Backup
  <2>1. run'.current = run.current /\ run'.target = run.target
    BY <1>6, <1>t DEF Backup, Runs
  <2> QED BY <1>6, <2>1 DEF Backup, Goto, catalog, ghosts
<1>7. CASE Embed
  BY <1>7 DEF Embed, Goto, catalog, ghosts
<1>8. ASSUME NEW p \in Paths, PersistFile(p) PROVE CurrentSucceeded' /\ CurrentOfRun'
  BY <1>8 DEF PersistFile, ghosts
<1>9. CASE FilesPersisted
  BY <1>9 DEF FilesPersisted, Goto, catalog, ghosts
<1>10. ASSUME NEW p \in Paths, PersistChunk(p) PROVE CurrentSucceeded' /\ CurrentOfRun'
  BY <1>10 DEF PersistChunk, ghosts
<1>11. CASE Promote
  BY <1>11, <1>t DEF Promote, MakeCurrent, Goto, local, ghosts
<1>12. CASE DeleteStaleVectors
  BY <1>12 DEF DeleteStaleVectors, Goto, catalog, local, ghosts
<1>13. CASE DeleteStaleRows
  BY <1>13 DEF DeleteStaleRows, Goto, local, ghosts
<1>14. CASE RecordSynced
  BY <1>14 DEF RecordSynced, Goto, local, ghosts
<1>15. CASE Finish
  BY <1>15 DEF Finish, Leave, catalog
<1>16. CASE Raise
  BY <1>16 DEF Raise, catalog, local, ghosts
<1>17. CASE RaiseOutside
  BY <1>17 DEF RaiseOutside, Leave, catalog
<1>18. CASE UndoVectors
  BY <1>18 DEF UndoVectors, Goto, catalog, local, ghosts
<1>19. CASE UndoRows
  BY <1>19 DEF UndoRows, Goto, local, ghosts
<1>20. CASE UndoUpsert
  BY <1>20 DEF UndoUpsert, Goto, catalog, ghosts
<1>21. ASSUME NEW p \in Paths, RestoreRow(p) PROVE CurrentSucceeded' /\ CurrentOfRun'
  BY <1>21 DEF RestoreRow, ghosts
<1>22. ASSUME NEW p \in Paths, RestoreRefused(p) PROVE CurrentSucceeded' /\ CurrentOfRun'
  BY <1>22 DEF RestoreRefused, Leave, catalog
<1>23. CASE RowsRestored
  BY <1>23 DEF RowsRestored, Goto, catalog, local, ghosts
<1>24. CASE UndoCurrent
  <2>1. run.current \in Versions
    BY <1>t DEF Runs
  <2> QED BY <1>24, <1>t, <2>1 DEF UndoCurrent, MakeCurrent, Goto, local, ghosts, Versions
<1>25. CASE UndoCandidate
  BY <1>25, <1>t, <1>n DEF UndoCandidate, Goto, local, ghosts, Versions
<1>26. CASE UndoSource
  BY <1>26 DEF UndoSource, Leave, ghosts
<1>27. CASE RaiseInUndo
  BY <1>27 DEF RaiseInUndo, Leave, catalog
<1>28. CASE Crash
  BY <1>28 DEF Crash, Leave, catalog
<1> QED BY <1>1, <1>2, <1>3, <1>4, <1>5, <1>6, <1>7, <1>8, <1>9, <1>10, <1>11, <1>12,
           <1>13, <1>14, <1>15, <1>16, <1>17, <1>18, <1>19, <1>20, <1>21, <1>22, <1>23,
           <1>24, <1>25, <1>26, <1>27, <1>28 DEF Next, Advance, Rollback

\* The chunks of a run depend only on its commit and the last synchronised one.
LEMMA SameChunks ==
    ASSUME run'.target = run.target, run'.was = run.was
    PROVE  Chunks' = Chunks
BY DEF Chunks, Affected

\* Foreign keys, action by action: the version and the files of a candidate are
\* written before its chunk rows and deleted after or with them.
LEMMA FilesStep == IInv /\ [Next]_vars => RowsHaveFiles' /\ FilesOfRun'
<1> SUFFICES ASSUME IInv, [Next]_vars PROVE RowsHaveFiles' /\ FilesOfRun'
  OBVIOUS
<1> USE DEF IInv, RowsHaveFiles, FilesOfRun, Forward, Undo
<1>t. /\ status \in [Commits -> {"none", "indexing", "succeeded", "failed"}]
      /\ owner \in [Paths -> Versions]
      /\ pc # "idle" => run.target \in Commits
      /\ run \in Runs
      /\ pc \in {"idle"} \cup Forward \cup Undo
  BY DEF TypeOK
<1>n. Null \notin Commits
  BY NullAssumption
<1>m. /\ pc \in {"idle", "start", "create", "backup"} => ~mutating
      /\ pc \in {"embed", "files", "chunks"} \cup Undo => mutating
      /\ mutating => run.current # run.target
      /\ pc = "undoCurrent" => pc \in Undo
  BY DEF CurrentOfRun
<1>s. run' = run => Chunks' = Chunks
  BY SameChunks
<1>1. CASE UNCHANGED vars
  BY <1>1, <1>s DEF vars, catalog
<1>2. ASSUME NEW c \in Commits, MoveHead(c) PROVE RowsHaveFiles' /\ FilesOfRun'
  BY <1>2, <1>s DEF MoveHead, catalog, local, ghosts
<1>3. CASE Begin
  BY <1>3, <1>m DEF Begin, Goto, catalog, ghosts
<1>4. CASE StartVersion
  BY <1>4, <1>t, <1>m DEF StartVersion, DeleteVersion, local, ghosts, Versions
<1>5. CASE CreateVersion
  BY <1>5, <1>t, <1>m DEF CreateVersion, Goto, local, ghosts, Versions
<1>6. CASE Backup
  <2>1. run'.target = run.target
    BY <1>6, <1>t DEF Backup, Runs
  <2> QED BY <1>6, <2>1 DEF Backup, Goto, catalog, ghosts
<1>7. CASE Embed
  BY <1>7, <1>s, <1>m DEF Embed, Goto, catalog, ghosts
<1>8. ASSUME NEW p \in Paths, PersistFile(p) PROVE RowsHaveFiles' /\ FilesOfRun'
  BY <1>8, <1>s, <1>m DEF PersistFile, ghosts
<1>9. CASE FilesPersisted
  BY <1>9, <1>s, <1>m DEF FilesPersisted, Goto, catalog, ghosts
<1>10. ASSUME NEW p \in Paths, PersistChunk(p) PROVE RowsHaveFiles' /\ FilesOfRun'
  BY <1>10, <1>s, <1>t, <1>m DEF PersistChunk, ghosts
<1>11. CASE Promote
  BY <1>11, <1>t, <1>n DEF Promote, MakeCurrent, Goto, local, ghosts, Versions
<1>12. CASE DeleteStaleVectors
  BY <1>12 DEF DeleteStaleVectors, Goto, catalog, local, ghosts
<1>13. CASE DeleteStaleRows
  BY <1>13, <1>t DEF DeleteStaleRows, DeleteRows, Goto, local, ghosts
<1>14. CASE RecordSynced
  BY <1>14 DEF RecordSynced, Goto, local, ghosts
<1>15. CASE Finish
  BY <1>15 DEF Finish, Leave, catalog
<1>16. CASE Raise
  BY <1>16 DEF Raise, catalog, local, ghosts
<1>17. CASE RaiseOutside
  BY <1>17 DEF RaiseOutside, Leave, catalog
<1>18. CASE UndoVectors
  BY <1>18 DEF UndoVectors, Goto, catalog, local, ghosts
<1>19. CASE UndoRows
  BY <1>19, <1>t DEF UndoRows, DeleteRows, Goto, local, ghosts
<1>20. CASE UndoUpsert
  BY <1>20 DEF UndoUpsert, Goto, catalog, ghosts
<1>21. ASSUME NEW p \in Paths, RestoreRow(p) PROVE RowsHaveFiles' /\ FilesOfRun'
  BY <1>21, <1>t DEF RestoreRow, RowAllowed, ghosts
<1>22. ASSUME NEW p \in Paths, RestoreRefused(p) PROVE RowsHaveFiles' /\ FilesOfRun'
  BY <1>22 DEF RestoreRefused, Leave, catalog
<1>23. CASE RowsRestored
  BY <1>23 DEF RowsRestored, Goto, catalog, local, ghosts
<1>24. CASE UndoCurrent
  <2>1. run.current \in Versions
    BY <1>t DEF Runs
  <2> QED BY <1>24, <1>t, <2>1 DEF UndoCurrent, MakeCurrent, Goto, local, ghosts, Versions
<1>25. CASE UndoCandidate
  BY <1>25, <1>t, <1>n DEF UndoCandidate, Goto, local, ghosts, Versions
<1>26. CASE UndoSource
  BY <1>26 DEF UndoSource, Leave, ghosts
<1>27. CASE RaiseInUndo
  BY <1>27 DEF RaiseInUndo, Leave, catalog
<1>28. CASE Crash
  BY <1>28 DEF Crash, Leave, catalog
<1> QED BY <1>1, <1>2, <1>3, <1>4, <1>5, <1>6, <1>7, <1>8, <1>9, <1>10, <1>11, <1>12,
           <1>13, <1>14, <1>15, <1>16, <1>17, <1>18, <1>19, <1>20, <1>21, <1>22, <1>23,
           <1>24, <1>25, <1>26, <1>27, <1>28 DEF Next, Advance, Rollback

\* The inductive invariant holds throughout.
LEMMA IInvHolds == Spec => []IInv
<1>1. IInv /\ [Next]_vars => IInv'
  BY TypesStep, CurrentStep, FilesStep DEF IInv
<1> QED BY InitIInv, <1>1, PTL DEF Spec

\* Every variable of the index keeps its type, for every tree.
THEOREM TypesCorrect == Spec => []TypeOK
BY IInvHolds, PTL DEF IInv

\* Whatever fails or crashes where, the version the catalog calls current has
\* been indexed to the end, and every chunk row keeps its version and its file.
THEOREM CatalogStaysWhole == Spec => []CatalogIsWhole
BY IInvHolds, PTL DEF IInv, CatalogIsWhole

\* Only a promotion or its rollback changes which version is current.
THEOREM CurrentMovesRightly == Spec => CurrentMoves
<1> DEFINE P == current # current' =>
        \/ pc = "chunks" /\ current' = run.target
        \/ pc = "undoCurrent" /\ current = run.target /\ current' = run.current
        \/ pc = "undoCandidate" /\ run.current = Null
<1>1. IInv /\ [Next]_vars => P
  <2> SUFFICES ASSUME IInv, [Next]_vars, current # current' PROVE P
    OBVIOUS
  <2>1. Next
    BY DEF vars, catalog
  <2>2. CASE StartVersion
    BY <2>2 DEF StartVersion, DeleteVersion, IInv, CurrentSucceeded, CurrentOfRun, TypeOK
  <2>3. CASE Promote
    BY <2>3 DEF Promote, MakeCurrent, Goto
  <2>4. CASE UndoCurrent
    BY <2>4 DEF UndoCurrent, MakeCurrent, Goto, IInv, CurrentOfRun
  <2>5. CASE UndoCandidate
    BY <2>5 DEF UndoCandidate, Goto, IInv, CurrentOfRun, Undo
  <2>6. CASE \/ \E c \in Commits : MoveHead(c)
             \/ Begin \/ CreateVersion \/ Backup \/ Embed
             \/ (\E p \in Paths : PersistFile(p)) \/ FilesPersisted
             \/ (\E p \in Paths : PersistChunk(p))
             \/ DeleteStaleVectors \/ DeleteStaleRows \/ RecordSynced \/ Finish
             \/ UndoVectors \/ UndoRows \/ UndoUpsert
             \/ (\E p \in Paths : RestoreRow(p) \/ RestoreRefused(p))
             \/ RowsRestored \/ UndoSource
             \/ Raise \/ RaiseOutside \/ RaiseInUndo \/ Crash
    BY <2>6 DEF MoveHead, Begin, CreateVersion, Backup, Embed, PersistFile, FilesPersisted,
           PersistChunk, DeleteStaleVectors, DeleteStaleRows, RecordSynced, Finish,
           UndoVectors, UndoRows, UndoUpsert, RestoreRow, RestoreRefused, RowsRestored,
           UndoSource, Raise, RaiseOutside, RaiseInUndo, Crash, catalog
  <2> QED BY <2>1, <2>2, <2>3, <2>4, <2>5, <2>6 DEF Next, Advance, Rollback
<1> QED BY IInvHolds, <1>1, PTL DEF Spec, CurrentMoves

-----------------------------------------------------------------------------
(* The index is the tree of the last synchronised commit.  TreeInv, part by  *)
(* part: one lemma for what a job found (FoundStep, LostStep), for each      *)
(* store (VectorsStep, BackupsStep, OwnerStep, StatusStep, SyncedStep) and   *)
(* for the ways a job ends (IdleStep).                                       *)

\* Nothing changed between a commit and itself.
LEMMA NothingSinceItself ==
    ASSUME NEW t \in Commits
    PROVE  AffectedBetween(t, t) = {}
BY AncestorAssumption, NullAssumption DEF AffectedBetween, FullReconcile, Descends, Changed

\* Files with different contents are affected, whatever git says of the commits.
LEMMA DifferentIsAffected ==
    ASSUME NEW t \in Commits, NEW c \in Commits, NEW p \in Paths, Tree[c][p] # Tree[t][p]
    PROVE  p \in AffectedBetween(t, c)
BY DEF AffectedBetween, Changed

\* A file that t did not touch since w has its content of w, and what happened to
\* it since w happened since t.
LEMMA Unaffected ==
    ASSUME NEW w \in Versions, NEW t \in Commits, NEW c \in Commits, NEW p \in Paths,
           p \notin AffectedBetween(w, t)
    PROVE  /\ w # Null /\ Tree[w][p] = Tree[t][p]
           /\ p \in AffectedBetween(w, c) => p \in AffectedBetween(t, c)
<1>1. w \in Commits /\ <<w, t>> \in Ancestor /\ Tree[w][p] = Tree[t][p]
  BY DEF AffectedBetween, FullReconcile, Descends, Changed, Versions
<1>2. ASSUME p \notin AffectedBetween(t, c) PROVE p \notin AffectedBetween(w, c)
  <2>1. <<t, c>> \in Ancestor /\ Tree[t][p] = Tree[c][p]
    BY <1>2 DEF AffectedBetween, FullReconcile, Descends, Changed
  <2>2. <<w, c>> \in Ancestor
    BY <1>1, <2>1, AncestorAssumption
  <2> QED BY <1>1, <2>1, <2>2, NullAssumption DEF AffectedBetween, FullReconcile, Descends, Changed
<1> QED BY <1>1, <1>2, NullAssumption

\* Where a file of a run belongs.
LEMMA FileOfRun ==
    ASSUME TypeOK, pc # "idle", NEW p \in Paths
    PROVE  /\ p \in Chunks <=> p \in AffectedBetween(run.was, run.target) /\ NewContent(p) # Null
           /\ p \in Stale <=> /\ run.old[p] # Null /\ NewContent(p) = Null
                              /\ p \in AffectedBetween(run.was, run.target)
           /\ p \in OldRows <=> run.old[p] # Null
           /\ p \in Discarded <=> run.old[p] # Null /\ p \notin run.baseline
           /\ p \in ToEmbed <=> p \in Chunks
                                 /\ (p \in run.baseline => OldContent(p) # NewContent(p))
           /\ p \in run.baseline => run.old[p] # Null
BY DEF TypeOK, Chunks, Affected, Stale, OldRows, Discarded, ToEmbed, NewContent, OldContent, Content

\* The steps inside one job change neither what it found nor the history.
SameJob ==
    /\ pc # "idle" /\ pc' # "idle"
    /\ run'.target = run.target /\ run'.was = run.was /\ run'.old = run.old
    /\ run'.baseline = run.baseline /\ run'.current = run.current
    /\ dirty' = dirty /\ lost \subseteq lost' /\ aborted' = aborted

\* Nor the sets of files the job computed from it.
LEMMA SameSets ==
    ASSUME SameJob
    PROVE  /\ Chunks' = Chunks /\ Stale' = Stale /\ OldRows' = OldRows
           /\ Discarded' = Discarded
BY DEF SameJob, Chunks, Affected, Stale, OldRows, Discarded

\* A step into or inside a job begins it or keeps what it found.
LEMMA JobStep ==
    ASSUME IInv, [Next]_vars, pc' # "idle"
    PROVE  /\ Begin \/ SameJob
           /\ pc # "idle" => run'.backups = run.backups \/ Backup
           /\ pc # "idle" => lost' = lost \/ StartVersion
           /\ pc # "idle" => mutating' = mutating \/ Backup
           /\ pc' \in {"create", "backup"} => pc' = pc \/ StartVersion \/ CreateVersion
<1>t. run \in Runs
  BY DEF IInv, TypeOK
<1>1. CASE UNCHANGED vars \/ \E c \in Commits : MoveHead(c)
  <2> UNCHANGED <<pc, run, mutating, dirty, lost, aborted>>
    BY <1>1 DEF vars, MoveHead, local, ghosts
  <2> QED BY <1>1 DEF SameJob, Begin, Goto
<1>2. CASE Begin
  BY <1>2 DEF Begin, Goto
<1>3. CASE StartVersion
  BY <1>3 DEF StartVersion, SameJob, local
<1>4. CASE Backup
  BY <1>4, <1>t DEF Backup, SameJob, Goto, ghosts, Runs
<1>5. CASE CreateVersion \/ Embed \/ Promote \/ DeleteStaleVectors
  BY <1>5 DEF CreateVersion, Embed, Promote, DeleteStaleVectors, Goto, local, ghosts, SameJob
<1>6. CASE FilesPersisted \/ \E p \in Paths : PersistFile(p) \/ PersistChunk(p)
  BY <1>6 DEF FilesPersisted, PersistFile, PersistChunk, Goto, ghosts, SameJob
<1>7. CASE DeleteStaleRows \/ RecordSynced \/ Raise
  BY <1>7 DEF DeleteStaleRows, RecordSynced, Raise, Goto, local, ghosts, SameJob, Forward
<1>8. CASE UndoVectors \/ UndoRows \/ UndoUpsert \/ RowsRestored \/ UndoCurrent \/ UndoCandidate
  BY <1>8 DEF UndoVectors, UndoRows, UndoUpsert, RowsRestored, UndoCurrent, UndoCandidate, Goto,
         local, ghosts, SameJob
<1>9. CASE \E p \in Paths : RestoreRow(p)
  BY <1>9 DEF RestoreRow, ghosts, SameJob
<1>10. CASE \/ Finish \/ RaiseOutside \/ RaiseInUndo \/ Crash \/ UndoSource
            \/ \E p \in Paths : RestoreRefused(p)
  BY <1>10 DEF Finish, RaiseOutside, RaiseInUndo, Crash, UndoSource, RestoreRefused, Leave
<1> QED BY <1>1, <1>2, <1>3, <1>4, <1>5, <1>6, <1>7, <1>8, <1>9, <1>10 DEF Next, Advance, Rollback

\* The steps after which no job runs.
LEMMA JobEnds ==
    ASSUME IInv, [Next]_vars, pc' = "idle"
    PROVE  \/ pc = "idle" /\ UNCHANGED <<vectors, catalog, dirty, lost, aborted>>
           \/ pc # "idle" /\ \/ Finish \/ RaiseOutside \/ RaiseInUndo \/ Crash \/ UndoSource
                             \/ \E p \in Paths : RestoreRefused(p)
<1>1. CASE UNCHANGED vars \/ \E c \in Commits : MoveHead(c)
  <2>1. UNCHANGED <<vectors, catalog, pc, dirty, lost, aborted>>
    BY <1>1 DEF vars, MoveHead, ghosts
  <2> QED BY <2>1
<1>2. CASE \/ Finish \/ RaiseOutside \/ RaiseInUndo \/ Crash \/ UndoSource
           \/ \E p \in Paths : RestoreRefused(p)
  BY <1>2 DEF Finish, RaiseOutside, RaiseInUndo, Crash, UndoSource, RestoreRefused, Forward, Undo
<1>3. CASE \/ Begin \/ StartVersion \/ CreateVersion \/ Backup \/ Embed \/ FilesPersisted
           \/ Promote \/ DeleteStaleVectors \/ DeleteStaleRows \/ RecordSynced \/ Raise
           \/ UndoVectors \/ UndoRows \/ UndoUpsert \/ RowsRestored \/ UndoCurrent \/ UndoCandidate
  BY <1>3 DEF Begin, StartVersion, CreateVersion, Backup, Embed, FilesPersisted, Promote,
       DeleteStaleVectors, DeleteStaleRows, RecordSynced, Raise, UndoVectors, UndoRows,
       UndoUpsert, RowsRestored, UndoCurrent, UndoCandidate, Goto
<1>4. CASE \E p \in Paths : PersistFile(p) \/ PersistChunk(p) \/ RestoreRow(p)
  BY <1>4 DEF PersistFile, PersistChunk, RestoreRow
<1> QED BY <1>1, <1>2, <1>3, <1>4 DEF Next, Advance, Rollback

\* A history that is simple after a step was so before.
LEMMA StillOne ==
    ASSUME IInv, [Next]_vars, OneUnfinished'
    PROVE  OneUnfinished
<1> USE DEF OneUnfinished
<1>t. aborted \in BOOLEAN /\ dirty \subseteq Commits
  BY DEF IInv, TypeOK
<1>1. CASE pc = "idle" /\ pc' = "idle"
  BY <1>1, JobEnds
<1>2. CASE pc' # "idle"
  BY <1>2, JobStep DEF SameJob, Begin, ghosts
<1>3. CASE Finish
  BY <1>3 DEF Finish
<1>4. CASE RaiseOutside \/ RaiseInUndo \/ Crash
  <2>1. aborted' = aborted \/ aborted' = TRUE
    BY <1>4, <1>t DEF RaiseOutside, RaiseInUndo, Crash, Undo
  <2>2. dirty \subseteq dirty'
    BY <1>4 DEF RaiseOutside, RaiseInUndo, Crash
  <2> QED BY <2>1, <2>2
<1>5. CASE UndoSource \/ \E p \in Paths : RestoreRefused(p)
  BY <1>5 DEF UndoSource, RestoreRefused, ghosts
<1> QED BY <1>1, <1>2, <1>3, <1>4, <1>5, JobEnds

\* A file of the next job has the row and the vector it has now.
LEMMA BeginFound ==
    ASSUME IInv, Begin
    PROVE  /\ pc = "idle" /\ pc' = "start" /\ mutating = FALSE /\ mutating' = FALSE
           /\ run'.target = head /\ run'.was = synced /\ run'.old = owner
           /\ run'.current = current
           /\ run'.baseline = {p \in Paths : Good(p)}
           /\ UNCHANGED <<vectors, owner, files, status, current, synced, dirty, lost, aborted>>
<1>1. mutating = FALSE
  BY DEF IInv, TypeOK, CurrentOfRun, Begin, Goto
<1> QED BY <1>1 DEF Begin, Goto, catalog, ghosts, Good

\* What a job found: it is in order when it begins, and stays.
LEMMA FoundStep ==
    ASSUME IInv, OneUnfinished => IdleOK /\ FoundOK, OneUnfinished', [Next]_vars
    PROVE  FoundOK'
<1> SUFFICES ASSUME pc' # "idle", NEW p \in Paths
             PROVE  /\ RowFits(p, run.old[p], OldGood(p), run.was)'
                    /\ Ahead(p, run.old[p], OldGood(p), run.was, run.current)'
  BY DEF FoundOK
<1>1. IdleOK /\ FoundOK
  BY StillOne
<1>2. CASE Begin
  <2>1. FileOK(p)
    BY <1>1, <1>2, BeginFound DEF IdleOK
  <2> QED BY <2>1, <1>2, BeginFound DEF FileOK, OldGood, RowFits, Ahead, Settled
<1>3. CASE SameJob
  <2>1. /\ RowFits(p, run.old[p], OldGood(p), run.was)
        /\ Ahead(p, run.old[p], OldGood(p), run.was, run.current)
    BY <1>1, <1>3 DEF FoundOK, SameJob
  <2> QED BY <2>1, <1>3 DEF SameJob, OldGood, RowFits, Ahead, Settled
<1> QED BY <1>2, <1>3, JobStep

\* A vector that a step leaves alone stays kept.
LEMMA KeptStays ==
    ASSUME SameJob, NEW p \in Paths, vectors'[p] = vectors[p], OldKept(p)
    PROVE  OldKept(p)'
BY DEF SameJob, OldKept, Kept, OldGood, Exposed

\* _start_version records what it deletes as lost, before anything is written.
LEMMA LostStep ==
    ASSUME IInv, OneUnfinished => LostOK, OneUnfinished', [Next]_vars
    PROVE  LostOK'
<1> SUFFICES ASSUME mutating' \/ pc' \in {"create", "backup"}, NEW p \in run'.baseline,
                    run'.old[p] = run'.target
             PROVE  p \in lost'
  BY DEF LostOK
<1>1. LostOK
  BY StillOne
<1>2. pc' # "idle"
  BY CurrentStep DEF CurrentOfRun
<1>3. SameJob
  BY <1>2, JobStep, BeginFound
<1>4. CASE mutating \/ pc \in {"create", "backup"}
  BY <1>1, <1>3, <1>4 DEF LostOK, SameJob
<1>5. CASE StartVersion
  BY <1>3, <1>5 DEF StartVersion, SameJob, IInv, CurrentOfRun, local
<1> QED BY <1>2, <1>3, <1>4, <1>5, JobStep DEF CreateVersion, Backup, Goto, SameJob

\* The backup holds every vector that has its content.
LEMMA BackupsStep ==
    ASSUME IInv, OneUnfinished => FoundOK /\ VectorsOK /\ BackupsOK, OneUnfinished', [Next]_vars
    PROVE  BackupsOK'
<1> SUFFICES ASSUME mutating'
             PROVE  /\ DOMAIN run'.backups \subseteq run'.baseline
                    /\ \A p \in run'.baseline :
                        \/ p \in DOMAIN run'.backups /\ run'.backups[p] = OldContent(p)'
                        \/ Exposed(p, OldContent(p), run.was)'
  BY DEF BackupsOK
<1>1. FoundOK /\ VectorsOK /\ BackupsOK
  BY StillOne
<1>2. pc' # "idle"
  BY CurrentStep DEF CurrentOfRun
<1>3. SameJob
  BY <1>2, JobStep, BeginFound
<1>4. CASE Backup
  <2>1. run'.backups = [p \in {q \in run.baseline : vectors[q] # Null} |-> vectors[p]]
    BY <1>4 DEF Backup, IInv, TypeOK, Runs
  <2>2. ASSUME NEW p \in run.baseline
        PROVE  (vectors[p] = OldContent(p) /\ vectors[p] # Null) \/ Exposed(p, OldContent(p), run.was)
    <3>1. p \in Paths /\ run.old[p] # Null /\ OldKept(p) /\ pc # "idle"
      BY <1>1, <1>4 DEF Backup, Goto, VectorsOK, IInv, TypeOK, Runs
    <3>2. vectors[p] = OldContent(p) \/ Exposed(p, OldContent(p), run.was)
      BY <3>1 DEF OldKept, Kept, OldGood, OldContent
    <3> QED BY <1>1, <3>1, <3>2 DEF FoundOK, RowFits, OldContent, Content
  <2>3. ASSUME NEW p \in run.baseline
        PROVE  \/ p \in DOMAIN run'.backups /\ run'.backups[p] = OldContent(p)'
               \/ Exposed(p, OldContent(p), run.was)'
    BY <1>3, <2>1, <2>2 DEF SameJob, Exposed, OldContent
  <2> QED BY <1>3, <2>1, <2>3 DEF SameJob
<1>5. CASE run'.backups = run.backups /\ mutating' = mutating
  BY <1>1, <1>3, <1>5 DEF SameJob, BackupsOK, Exposed, OldContent
<1> QED BY <1>2, <1>3, <1>4, <1>5, JobStep DEF SameJob

\* Which commit is recorded and which version is current, step by step.
LEMMA SyncedStep ==
    ASSUME IInv, OneUnfinished => SyncedOK, OneUnfinished', [Next]_vars
    PROVE  SyncedOK'
<1>1. SyncedOK
  BY StillOne
<1> USE DEF SyncedOK, Promoted, Forward, Undo
<1>2. CASE pc' = "idle"
  BY <1>2
<1>3. CASE Begin
  BY <1>3, BeginFound
<1>c. CurrentOfRun
  BY DEF IInv
<1>4. ASSUME SameJob PROVE SyncedOK'
  <2> USE DEF SameJob
  <2>1. CASE UNCHANGED vars \/ \E c \in Commits : MoveHead(c)
    <3> UNCHANGED <<pc, mutating, current, synced>>
      BY <2>1 DEF vars, catalog, MoveHead, local
    <3> QED BY <1>1, <1>4
  <2>2. CASE StartVersion
    BY <1>1, <1>4, <1>c, <2>2 DEF StartVersion, CurrentOfRun, DeleteVersion, local
  <2>3. CASE CreateVersion \/ Embed \/ FilesPersisted \/ DeleteStaleVectors \/ DeleteStaleRows
    BY <1>1, <1>4, <2>3 DEF CreateVersion, Embed, FilesPersisted, DeleteStaleVectors, DeleteStaleRows,
       Goto, local, catalog
  <2>4. CASE Backup \/ Raise
    BY <1>1, <1>4, <2>4 DEF Backup, Raise, Goto, local, catalog
  <2>5. CASE \E p \in Paths : PersistFile(p) \/ PersistChunk(p) \/ RestoreRow(p)
    BY <1>1, <1>4, <2>5 DEF PersistFile, PersistChunk, RestoreRow
  <2>6. CASE Promote
    BY <1>1, <1>4, <1>c, <2>6 DEF Promote, MakeCurrent, CurrentOfRun, Goto, local
  <2>7. CASE RecordSynced
    BY <1>1, <1>4, <2>7 DEF RecordSynced, Goto, local
  <2>8. CASE UndoVectors \/ UndoRows \/ UndoUpsert \/ RowsRestored \/ UndoCurrent
    BY <1>1, <1>4, <2>8 DEF UndoVectors, UndoRows, UndoUpsert, RowsRestored, UndoCurrent, Goto
  <2>9. CASE UndoCandidate
    <3>1. run.current # run.target /\ current \in {run.current, run.target}
          /\ (run.current # Null => current = run.current)
      BY <1>c, <2>9 DEF CurrentOfRun, UndoCandidate, Goto
    <3> QED BY <1>4, <2>9, <3>1 DEF UndoCandidate, Goto
  <2> QED BY <1>4, <2>1, <2>2, <2>3, <2>4, <2>5, <2>6, <2>7, <2>8, <2>9, BeginFound
       DEF Next, Advance, Rollback, Finish, RaiseOutside, RaiseInUndo, Crash, UndoSource,
           RestoreRefused, Leave
<1> QED BY <1>2, <1>3, <1>4, JobStep

\* A row of the baseline stays one of a succeeded version, unless it is lost.
LEMMA StatusStep ==
    ASSUME IInv, OneUnfinished => LostOK /\ StatusOK, OneUnfinished', [Next]_vars
    PROVE  StatusOK'
<1>1. LostOK /\ StatusOK
  BY StillOne
<1> USE DEF StatusOK, Promoted, Forward, Undo
<1>2. CASE pc' = "idle"
  BY <1>2
<1>3. CASE Begin
  BY <1>3, BeginFound DEF Good
<1>c. CurrentOfRun /\ CurrentSucceeded
  BY DEF IInv
<1>t. /\ status \in [Commits -> {"none", "indexing", "succeeded", "failed"}]
      /\ run.old \in [Paths -> Versions] /\ run.baseline \subseteq Paths
      /\ \A p \in run.baseline : run.old[p] # Null
      /\ pc # "idle" => run.target \in Commits
      /\ run.current \in Versions
  BY DEF IInv, TypeOK, Runs
<1>4. ASSUME SameJob PROVE StatusOK'
  <2> USE DEF SameJob
  <2>1. CASE UNCHANGED vars \/ \E c \in Commits : MoveHead(c)
    <3> UNCHANGED <<pc, status>>
      BY <2>1 DEF vars, catalog, MoveHead, local
    <3> QED BY <1>1, <1>4
  <2>2. CASE StartVersion
    <3>1. CASE current = run.target /\ status[run.target] = "succeeded"
      <4>1. UNCHANGED <<status, lost>> /\ pc = "start" /\ pc' = "staleVectors" /\ run.current = current
        BY <1>c, <2>2, <3>1 DEF StartVersion, CurrentOfRun
      <4> QED BY <1>1, <1>4, <3>1, <4>1
    <3>2. CASE ~(current = run.target /\ status[run.target] = "succeeded")
      <4>1. /\ status' = [status EXCEPT ![run.target] = "none"] /\ pc = "start" /\ pc' = "create"
            /\ lost' = lost \cup {p \in run.baseline : run.old[p] = run.target}
            /\ run.current # run.target
        BY <1>c, <1>t, <2>2, <3>2, NullAssumption DEF StartVersion, DeleteVersion, CurrentOfRun,
           CurrentSucceeded
      <4> QED BY <1>1, <1>4, <1>t, <4>1 DEF Versions
    <3> QED BY <3>1, <3>2
  <2>3. CASE CreateVersion
    <3>1. /\ status' = [status EXCEPT ![run.target] = "indexing"] /\ pc = "create" /\ pc' = "backup"
          /\ run.current # run.target /\ UNCHANGED lost
      BY <1>c, <2>3 DEF CreateVersion, Goto, ghosts, CurrentOfRun
    <3> QED BY <1>1, <1>4, <1>t, <3>1 DEF LostOK, Versions
  <2>4. CASE Embed \/ FilesPersisted \/ DeleteStaleVectors \/ DeleteStaleRows \/ RecordSynced
    BY <1>1, <1>4, <2>4 DEF Embed, FilesPersisted, DeleteStaleVectors, DeleteStaleRows, RecordSynced,
       Goto, catalog
  <2>5. CASE Backup \/ Raise \/ UndoVectors \/ UndoRows \/ UndoUpsert \/ RowsRestored
    BY <1>1, <1>4, <2>5 DEF Backup, Raise, UndoVectors, UndoRows, UndoUpsert, RowsRestored, Goto, catalog
  <2>6. CASE \E p \in Paths : PersistFile(p) \/ PersistChunk(p) \/ RestoreRow(p)
    BY <1>1, <1>4, <2>6 DEF PersistFile, PersistChunk, RestoreRow
  <2>7. CASE Promote
    <3>1. /\ status' = [status EXCEPT ![run.target] = "succeeded"]
          /\ pc = "chunks" /\ pc' = "staleVectors" /\ run.current # run.target
      BY <1>c, <2>7 DEF Promote, MakeCurrent, CurrentOfRun, Goto
    <3> QED BY <1>1, <1>4, <1>t, <3>1 DEF Versions
  <2>8. CASE UndoCurrent
    <3>1. /\ status' = status \/ status' = [status EXCEPT ![run.current] = "succeeded"]
          /\ pc' = "undoCandidate" /\ pc = "undoCurrent"
      BY <2>8 DEF UndoCurrent, MakeCurrent, Goto
    <3> QED BY <1>1, <1>4, <1>t, <3>1 DEF Versions
  <2>9. CASE UndoCandidate
    <3>1. /\ status' = [status EXCEPT ![run.target] = "failed"] /\ mutating
          /\ pc = "undoCandidate" /\ pc' = "undoSource" /\ UNCHANGED lost
      BY <1>c, <2>9 DEF UndoCandidate, Goto, ghosts, CurrentOfRun
    <3> QED BY <1>1, <1>4, <1>t, <3>1 DEF LostOK, Versions
  <2> QED BY <1>4, <2>1, <2>2, <2>3, <2>4, <2>5, <2>6, <2>7, <2>8, <2>9, BeginFound
       DEF Next, Advance, Rollback, Finish, RaiseOutside, RaiseInUndo, Crash, UndoSource,
           RestoreRefused, Leave
<1> QED BY <1>2, <1>3, <1>4, JobStep

\* The rows, step by step: what a run writes is of its target, what it leaves is
\* as it was found, and the rollback brings the baseline back.
LEMMA OwnerStep ==
    ASSUME IInv, OneUnfinished => FoundOK /\ OwnerOK, OneUnfinished', [Next]_vars
    PROVE  OwnerOK'
<1>1. FoundOK /\ OwnerOK
  BY StillOne
<1> USE DEF OwnerOK, Promoted, Forward, Undo
<1>2. CASE pc' = "idle"
  BY <1>2
<1>3. CASE Begin
  BY <1>3, BeginFound
<1>c. CurrentOfRun /\ FilesOfRun /\ CurrentSucceeded
  BY DEF IInv
<1>t. TypeOK /\ owner \in [Paths -> Versions] /\ (pc # "idle" => run.target \in Commits)
  BY DEF IInv, TypeOK
<1>v. run.was \in Versions
  BY DEF IInv, TypeOK, Runs
<1>4. ASSUME SameJob PROVE OwnerOK'
  <2> USE DEF SameJob
  <2>s. Chunks' = Chunks /\ Stale' = Stale /\ OldRows' = OldRows /\ \A p \in Paths : Left(p)' = Left(p)
    BY <1>4, SameSets DEF Left
  <2>f. \A p \in Paths :
           /\ p \in Chunks => p \notin Stale
           /\ p \in OldRows <=> run.old[p] # Null
           /\ p \in Discarded <=> run.old[p] # Null /\ p \notin run.baseline
    BY <1>4, <1>t, FileOfRun
  <2>1. CASE UNCHANGED vars \/ \E c \in Commits : MoveHead(c)
    <3> UNCHANGED <<pc, owner, todo>>
      BY <2>1 DEF vars, catalog, MoveHead, local
    <3> QED BY <1>1, <1>4, <2>s
  <2>2. CASE StartVersion
    <3>1. CASE current = run.target /\ status[run.target] = "succeeded"
      <4>1. owner' = owner /\ pc = "start" /\ pc' = "staleVectors" /\ run.current = run.target
        BY <1>c, <2>2, <3>1 DEF StartVersion, CurrentOfRun
      <4>2. ASSUME NEW p \in Paths, p \in Chunks PROVE run.old[p] = run.target
        <5>1. p \in AffectedBetween(run.was, run.target) /\ Tree[run.target][p] # Null
          BY <1>4, <1>t, <4>2, FileOfRun DEF NewContent
        <5>2. run.was # run.target /\ run.current # Null
          BY <1>4, <1>t, <4>1, <5>1, NothingSinceItself, NullAssumption
        <5> QED BY <1>1, <1>4, <4>1, <5>1, <5>2 DEF FoundOK, Ahead
      <4> QED BY <1>1, <1>4, <2>s, <4>1, <4>2 DEF Left
    <3>2. CASE ~(current = run.target /\ status[run.target] = "succeeded")
      <4>1. /\ owner' = [p \in Paths |-> IF owner[p] = run.target THEN Null ELSE owner[p]]
            /\ pc = "start" /\ pc' = "create" /\ run.current # run.target
        BY <1>c, <1>4, <1>t, <2>2, <3>2, NullAssumption DEF StartVersion, DeleteVersion, CurrentOfRun,
           CurrentSucceeded
      <4> QED BY <1>1, <1>4, <2>s, <4>1 DEF Left
    <3> QED BY <3>1, <3>2
  <2>3. CASE CreateVersion \/ Embed \/ DeleteStaleVectors \/ RecordSynced
    BY <1>1, <1>4, <2>s, <2>3 DEF CreateVersion, Embed, DeleteStaleVectors, RecordSynced, Goto, catalog
  <2>4. CASE Backup \/ UndoVectors \/ UndoCurrent \/ UndoCandidate
    BY <1>1, <1>4, <2>s, <2>4 DEF Backup, UndoVectors, UndoCurrent, UndoCandidate, Goto, catalog
  <2>5. CASE FilesPersisted \/ \E p \in Paths : PersistFile(p)
    BY <1>1, <1>4, <2>s, <2>5 DEF FilesPersisted, PersistFile, Goto, catalog
  <2>6. ASSUME NEW q \in Paths, PersistChunk(q) PROVE OwnerOK'
    <3>1. pc = "chunks" /\ pc' = pc /\ q \in Chunks /\ todo' = todo \ {q}
          /\ owner' = [owner EXCEPT ![q] = run.target]
      BY <1>c, <2>6 DEF PersistChunk, FilesOfRun
    <3> QED BY <1>1, <1>4, <1>t, <2>s, <3>1
  <2>7. CASE Promote
    BY <1>1, <1>4, <2>s, <2>7 DEF Promote, Goto
  <2>8. CASE DeleteStaleRows
    <3>1. /\ owner' = [p \in Paths |-> IF p \in Stale THEN Null ELSE owner[p]]
          /\ pc = "staleRows" /\ pc' = "record"
      BY <2>8 DEF DeleteStaleRows, DeleteRows, Goto
    <3> QED BY <1>1, <1>4, <2>s, <2>f, <3>1
  <2>9. CASE Raise
    <3>1. owner' = owner /\ pc' = "undoVectors" /\ pc \in Forward
      BY <2>9 DEF Raise, catalog
    <3>2. ASSUME NEW p \in Paths, p \notin Chunks \cup OldRows PROVE owner[p] = Null
      <4>1. run.old[p] = Null /\ Left(p) = Null
        BY <2>f, <3>2 DEF Left
      <4> QED BY <1>1, <3>1, <3>2, <4>1
    <3> QED BY <1>4, <2>s, <3>1, <3>2
  <2>10. CASE UndoRows
    <3>1. /\ owner' = [p \in Paths |-> IF p \in Chunks \cup Discarded THEN Null ELSE owner[p]]
          /\ pc = "undoRows" /\ pc' = "undoUpsert"
      BY <2>10 DEF UndoRows, DeleteRows, Goto
    <3> QED BY <1>1, <1>4, <2>s, <2>f, <3>1
  <2>11. CASE UndoUpsert
    BY <1>1, <1>4, <2>s, <2>11 DEF UndoUpsert, Goto, catalog
  <2>12. ASSUME NEW q \in Paths, RestoreRow(q) PROVE OwnerOK'
    <3>1. pc = "undoCatalog" /\ pc' = pc /\ q \in run.baseline /\ todo' = todo \ {q}
          /\ owner' = [owner EXCEPT ![q] = run.old[q]]
      BY <1>c, <2>12 DEF RestoreRow, FilesOfRun
    <3> QED BY <1>1, <1>4, <1>t, <2>s, <3>1
  <2>13. CASE RowsRestored
    BY <1>1, <1>4, <2>s, <2>13 DEF RowsRestored, Goto, catalog
  <2> QED BY <1>4, <2>1, <2>2, <2>3, <2>4, <2>5, <2>6, <2>7, <2>8, <2>9, <2>10, <2>11, <2>12, <2>13,
       BeginFound
       DEF Next, Advance, Rollback, Finish, RaiseOutside, RaiseInUndo, Crash, UndoSource,
           RestoreRefused, Leave
<1> QED BY <1>2, <1>3, <1>4, JobStep

\* A file outside of the running vector call keeps its vector, torn or whole.
LEMMA OutsideOfCall ==
    ASSUME WriteVectors \/ TornVectors, NEW p \in Paths, p \notin DOMAIN Call
    PROVE  vectors'[p] = vectors[p]
BY DEF WriteVectors, TornVectors

\* Which files a vector call is about, by place.
LEMMA CallDomain ==
    ASSUME NEW p \in DOMAIN Call
    PROVE  \/ pc = "embed" /\ p \in ToEmbed /\ Call[p] = NewContent(p)
           \/ pc = "staleVectors" /\ p \in Stale /\ Call[p] = Null
           \/ pc = "undoVectors" /\ p \in Chunks \cup Discarded /\ Call[p] = Null
           \/ pc = "undoUpsert" /\ p \in DOMAIN run.backups /\ Call[p] = run.backups[p]
<1>1. CASE pc = "embed"
  <2>1. Call = [q \in ToEmbed |-> Tree[run.target][q]]
    BY <1>1 DEF Call
  <2> QED BY <1>1, <2>1 DEF NewContent
<1>2. CASE pc = "staleVectors"
  <2>1. Call = [q \in Stale |-> Null]
    BY <1>2 DEF Call
  <2> QED BY <1>2, <2>1
<1>3. CASE pc = "undoVectors"
  <2>1. Call = [q \in Chunks \cup Discarded |-> Null]
    BY <1>3 DEF Call
  <2> QED BY <1>3, <2>1
<1>4. CASE pc = "undoUpsert"
  <2>1. Call = run.backups
    BY <1>4 DEF Call
  <2> QED BY <1>4, <2>1
<1>5. CASE pc \notin {"embed", "staleVectors", "undoVectors", "undoUpsert"}
  <2>1. Call = [q \in {} |-> Null]
    BY <1>5 DEF Call
  <2> QED BY <2>1
<1> QED BY <1>1, <1>2, <1>3, <1>4, <1>5

\* A whole call reaches all of its files.
LEMMA CallWritten ==
    ASSUME WriteVectors, NEW p \in Paths
    PROVE  /\ (pc = "embed" /\ p \in ToEmbed) => vectors'[p] = NewContent(p)
           /\ (pc = "staleVectors" /\ p \in Stale) => vectors'[p] = Null
           /\ (pc = "undoVectors" /\ p \in Chunks \cup Discarded) => vectors'[p] = Null
           /\ (pc = "undoUpsert" /\ p \in DOMAIN run.backups) => vectors'[p] = run.backups[p]
<1>1. CASE pc = "embed"
  <2>1. Call = [q \in ToEmbed |-> Tree[run.target][q]]
    BY <1>1 DEF Call
  <2> QED BY <1>1, <2>1 DEF NewContent, WriteVectors
<1>2. CASE pc = "staleVectors"
  <2>1. Call = [q \in Stale |-> Null]
    BY <1>2 DEF Call
  <2> QED BY <1>2, <2>1 DEF WriteVectors
<1>3. CASE pc = "undoVectors"
  <2>1. Call = [q \in Chunks \cup Discarded |-> Null]
    BY <1>3 DEF Call
  <2> QED BY <1>3, <2>1 DEF WriteVectors
<1>4. CASE pc = "undoUpsert"
  <2>1. Call = run.backups
    BY <1>4 DEF Call
  <2> QED BY <1>4, <2>1 DEF WriteVectors
<1> QED BY <1>1, <1>2, <1>3, <1>4

\* A row with the content of the target also serves the target.
LEMMA KeptServes ==
    ASSUME TypeOK, pc # "idle", NEW p \in Paths, OldKept(p), p \in run.baseline,
           OldContent(p) = NewContent(p)
    PROVE  vectors[p] = NewContent(p) \/ Exposed(p, NewContent(p), run.target)
<1>1. vectors[p] = NewContent(p) \/ Exposed(p, NewContent(p), run.was)
  BY DEF OldKept, Kept, OldGood, OldContent
<1>2. run.target \in Commits /\ dirty \subseteq Commits
  BY DEF TypeOK
<1> QED BY <1>1, <1>2, DifferentIsAffected DEF Exposed, NewContent

\* The vectors, step by step.
LEMMA VectorsStep ==
    ASSUME IInv, OneUnfinished => IdleOK /\ FoundOK /\ VectorsOK /\ BackupsOK,
           OneUnfinished', [Next]_vars
    PROVE  VectorsOK'
<1>1. IdleOK /\ FoundOK /\ VectorsOK /\ BackupsOK
  BY StillOne
<1>2. CASE pc' = "idle"
  BY <1>2 DEF VectorsOK, Forward, Undo, Promoted
<1>3. CASE Begin
  <2>1. ASSUME NEW p \in Paths PROVE OldKept(p)'
    <3>1. Kept(p, owner[p], Good(p), synced)
      BY <1>1, <1>3, BeginFound DEF IdleOK, FileOK
    <3> QED BY <1>3, <3>1, BeginFound DEF OldKept, Kept, OldGood, Exposed
  <2> QED BY <1>3, <2>1, BeginFound DEF VectorsOK, Forward, Undo, Promoted
<1>c. CurrentOfRun /\ CurrentSucceeded
  BY DEF IInv
<1>t. TypeOK /\ (pc # "idle" => run.target \in Commits) /\ run.was \in Versions
  BY DEF IInv, TypeOK, Runs
<1>4. ASSUME SameJob PROVE VectorsOK'
  <2>s. Chunks' = Chunks /\ Stale' = Stale /\ OldRows' = OldRows /\ Discarded' = Discarded
        /\ run'.baseline = run.baseline
        /\ \A p \in Paths : NewContent(p)' = NewContent(p)
    BY <1>4, SameSets DEF SameJob, NewContent
  <2>f. \A p \in Paths :
           /\ p \in Chunks => p \notin Stale
           /\ p \in Stale => p \in OldRows
           /\ p \in ToEmbed => p \in Chunks
           /\ (p \in Chunks /\ p \notin ToEmbed) =>
                    p \in run.baseline /\ OldContent(p) = NewContent(p)
           /\ p \in run.baseline => p \in OldRows
           /\ p \in OldRows <=> p \in run.baseline \/ p \in Discarded
    BY <1>4, <1>t, FileOfRun DEF SameJob
  <2>k. \A p \in Paths : vectors'[p] = vectors[p] /\ OldKept(p) => OldKept(p)'
    BY <1>4, KeptStays
  <2>e. \A p \in Paths : Exposed(p, NewContent(p), run.target)' = Exposed(p, NewContent(p), run.target)
    BY <1>4 DEF SameJob, Exposed, NewContent
  <2>1. ASSUME vectors' = vectors, run' = run,
               \/ pc' = pc
               \/ pc = "start" /\ pc' = "create"
               \/ pc = "create" /\ pc' = "backup"
               \/ pc = "files" /\ pc' = "chunks"
               \/ pc = "chunks" /\ pc' = "staleVectors"
               \/ pc = "staleRows" /\ pc' = "record"
               \/ pc = "record" /\ pc' = "refresh"
               \/ pc = "undoRows" /\ pc' = "undoUpsert"
               \/ pc = "undoCatalog" /\ pc' = "undoCurrent"
               \/ pc = "undoCurrent" /\ pc' = "undoCandidate"
               \/ pc = "undoCandidate" /\ pc' = "undoSource"
        PROVE  VectorsOK'
    BY <1>1, <2>s, <2>k, <2>e, <2>1 DEF VectorsOK, Forward, Undo, Promoted
  <2>2. CASE UNCHANGED vars \/ \E c \in Commits : MoveHead(c)
    BY <2>1, <2>2 DEF vars, MoveHead, local
  <2>3. CASE StartVersion
    <3>1. CASE current = run.target /\ status[run.target] = "succeeded"
      <4>1. vectors' = vectors /\ pc = "start" /\ pc' = "staleVectors" /\ run.current = run.target
        BY <1>c, <2>3, <3>1 DEF StartVersion, CurrentOfRun
      <4>2. ASSUME NEW p \in Paths, p \in Chunks
            PROVE  vectors[p] = NewContent(p) \/ Exposed(p, NewContent(p), run.target)
        <5>1. p \in AffectedBetween(run.was, run.target) /\ Tree[run.target][p] # Null
          BY <1>t, <4>1, <4>2, FileOfRun DEF NewContent
        <5>2. run.was # run.target /\ run.current # Null /\ run.target # Null
          BY <1>t, <4>1, <5>1, NothingSinceItself, NullAssumption
        <5>3. run.old[p] = run.target /\ p \in run.baseline /\ OldKept(p)
          BY <1>1, <4>1, <5>1, <5>2 DEF FoundOK, Ahead, OldGood, VectorsOK
        <5> QED BY <1>t, <4>1, <5>2, <5>3, KeptServes DEF OldContent, NewContent, Content
      <4> QED BY <1>1, <2>s, <2>k, <2>e, <4>1, <4>2 DEF VectorsOK, Forward, Undo, Promoted
    <3>2. CASE ~(current = run.target /\ status[run.target] = "succeeded")
      <4>1. UNCHANGED <<vectors, run>> /\ pc = "start" /\ pc' = "create"
        BY <2>3, <3>2 DEF StartVersion, local
      <4> QED BY <2>1, <4>1
    <3> QED BY <3>1, <3>2
  <2>4. CASE CreateVersion \/ FilesPersisted \/ Promote \/ DeleteStaleRows \/ RecordSynced
    <3>1. UNCHANGED <<vectors, run>>
      BY <2>4 DEF CreateVersion, FilesPersisted, Promote, DeleteStaleRows, RecordSynced, local
    <3>2. \/ pc = "create" /\ pc' = "backup"
          \/ pc = "files" /\ pc' = "chunks"
          \/ pc = "chunks" /\ pc' = "staleVectors"
          \/ pc = "staleRows" /\ pc' = "record"
          \/ pc = "record" /\ pc' = "refresh"
      BY <2>4 DEF CreateVersion, FilesPersisted, Promote, DeleteStaleRows, RecordSynced, Goto
    <3> QED BY <2>1, <3>1, <3>2
  <2>5. CASE Backup
    BY <1>1, <2>s, <2>k, <2>e, <2>5 DEF Backup, Goto, VectorsOK, Forward, Undo, Promoted
  <2>6. CASE Embed
    <3>1. WriteVectors /\ pc = "embed" /\ pc' = "files"
      BY <2>6 DEF Embed, Goto
    <3>2. ASSUME NEW p \in Paths, p \notin ToEmbed PROVE vectors'[p] = vectors[p]
      BY <3>1, <3>2, CallDomain, OutsideOfCall
    <3>3. ASSUME NEW p \in Paths, p \in Chunks
          PROVE  vectors'[p] = NewContent(p) \/ Exposed(p, NewContent(p), run.target)
      <4>1. CASE p \in ToEmbed
        BY <3>1, <4>1, CallWritten
      <4>2. CASE p \notin ToEmbed
        <5>1. p \in run.baseline /\ OldContent(p) = NewContent(p) /\ OldKept(p)
          BY <1>1, <2>f, <3>1, <3>3, <4>2 DEF VectorsOK
        <5> QED BY <1>t, <3>1, <3>2, <4>2, <5>1, KeptServes
      <4> QED BY <4>1, <4>2
    <3>4. ASSUME NEW p \in Paths, p \notin Chunks PROVE OldKept(p)'
      BY <1>1, <2>f, <2>k, <3>1, <3>2, <3>4 DEF VectorsOK
    <3> QED BY <2>s, <2>e, <3>1, <3>3, <3>4 DEF VectorsOK, Forward, Undo, Promoted
  <2>7. CASE \E p \in Paths : PersistFile(p) \/ PersistChunk(p) \/ RestoreRow(p)
    BY <2>1, <2>7 DEF PersistFile, PersistChunk, RestoreRow
  <2>8. CASE DeleteStaleVectors
    <3>1. WriteVectors /\ pc = "staleVectors" /\ pc' = "staleRows"
      BY <2>8 DEF DeleteStaleVectors, Goto
    <3>2. ASSUME NEW p \in Paths, p \notin Stale PROVE vectors'[p] = vectors[p]
      BY <3>1, <3>2, CallDomain, OutsideOfCall
    <3>3. ASSUME NEW p \in Paths, p \in Stale PROVE vectors'[p] = Null
      BY <3>1, <3>3, CallWritten
    <3> QED BY <1>1, <2>s, <2>f, <2>k, <2>e, <3>1, <3>2, <3>3 DEF VectorsOK, Forward, Undo, Promoted
  <2>9. CASE Raise
    <3>1. TornVectors /\ pc \in Forward /\ pc' = "undoVectors"
      BY <2>9 DEF Raise
    <3>2. ASSUME NEW p \in Paths, p \notin Chunks \cup OldRows PROVE OldKept(p)'
      <4>1. p \notin DOMAIN Call
        BY <2>f, <3>1, <3>2, CallDomain DEF Forward
      <4> QED BY <1>1, <2>f, <2>k, <3>1, <3>2, <4>1, OutsideOfCall DEF VectorsOK
    <3> QED BY <2>s, <3>1, <3>2 DEF VectorsOK, Forward, Undo, Promoted
  <2>10. CASE UndoVectors
    <3>1. WriteVectors /\ pc = "undoVectors" /\ pc' = "undoRows"
      BY <2>10 DEF UndoVectors, Goto
    <3>2. ASSUME NEW p \in Paths, p \notin Chunks \cup Discarded PROVE vectors'[p] = vectors[p]
      BY <3>1, <3>2, CallDomain, OutsideOfCall
    <3>3. ASSUME NEW p \in Paths, p \in Chunks \cup Discarded PROVE vectors'[p] = Null
      BY <3>1, <3>3, CallWritten
    <3> QED BY <1>1, <2>s, <2>f, <2>k, <3>1, <3>2, <3>3 DEF VectorsOK, Forward, Undo, Promoted
  <2>11. CASE UndoRows \/ RowsRestored \/ UndoCurrent \/ UndoCandidate
    BY <2>1, <2>11 DEF UndoRows, RowsRestored, UndoCurrent, UndoCandidate, Goto, local
  <2>12. CASE UndoUpsert
    <3>1. WriteVectors /\ pc = "undoUpsert" /\ pc' = "undoCatalog" /\ run' = run
      BY <2>12 DEF UndoUpsert, Goto
    <3>2. DOMAIN run.backups \subseteq run.baseline
      BY <1>1, <1>c, <3>1 DEF BackupsOK, CurrentOfRun, Undo
    <3>3. ASSUME NEW p \in Paths, p \notin DOMAIN run.backups PROVE vectors'[p] = vectors[p]
      BY <3>1, <3>3, CallDomain, OutsideOfCall
    <3>4. ASSUME NEW p \in Paths, p \in DOMAIN run.backups PROVE vectors'[p] = run.backups[p]
      BY <3>1, <3>4, CallWritten
    <3> QED BY <1>1, <2>s, <2>f, <2>k, <3>1, <3>2, <3>3, <3>4 DEF VectorsOK, Forward, Undo, Promoted
  <2> QED BY <1>4, <2>2, <2>3, <2>4, <2>5, <2>6, <2>7, <2>8, <2>9, <2>10, <2>11, <2>12, BeginFound
       DEF SameJob, Next, Advance, Rollback, Finish, RaiseOutside, RaiseInUndo, Crash, UndoSource,
           RestoreRefused, Leave
<1> QED BY <1>2, <1>3, <1>4, JobStep

\* The row of a file at a step of a run: of the target, gone, or as it was left.
LEMMA RowOfRun ==
    ASSUME TypeOK, OwnerOK, pc \in Forward \ {"start"}, NEW p \in Paths
    PROVE  \/ owner[p] = run.target /\ p \in Chunks /\ pc \in {"chunks"} \cup Promoted
           \/ owner[p] = Null /\ p \in Stale /\ pc \in {"record", "refresh"}
           \/ /\ owner[p] = Left(p)
              /\ pc \in Promoted => p \notin Chunks
              /\ pc \in {"record", "refresh"} => p \notin Stale
BY DEF OwnerOK, Forward, Promoted

\* Whether the row that was left is one to build on does not change in the run.
LEMMA LeftGood ==
    ASSUME TypeOK, StatusOK, pc \in Forward \ {"start"}, NEW p \in Paths, Left(p) # Null
    PROVE  /\ Left(p) = run.old[p]
           /\ status[Left(p)] = "succeeded" <=> p \in run.baseline
BY DEF TypeOK, StatusOK, Left

\* A row of the target that was deleted with its version is lost or unfinished.
LEMMA LeftBehind ==
    ASSUME IInv, LostOK, SyncedOK, pc \in Forward \ {"start"},
           NEW p \in run.baseline, Left(p) # run.old[p]
    PROVE  p \in lost
<1>1. run.old[p] = run.target /\ run.current # run.target
  BY DEF Left
<1>2. mutating \/ pc \in {"create", "backup"}
  BY <1>1 DEF IInv, CurrentOfRun, SyncedOK, Forward, Promoted
<1> QED BY <1>1, <1>2 DEF LostOK

\* What a run that is in doubt leaves of a file until it is redone.
LEMMA CrashedFile ==
    ASSUME IInv, JobOK, pc \in Forward \ {"start", "refresh"}, NEW p \in Paths,
           dirty \subseteq {run.target}, dirty' = {run.target},
           TornVectors, UNCHANGED <<catalog, lost>>
    PROVE  FileOK(p)'
<1> DEFINE T == run.target
           o == run.old[p]
           w == run.was
<1> USE DEF JobOK
<1>t. TypeOK /\ T \in Commits /\ w \in Versions /\ T # Null /\ o \in Versions /\ pc # "idle"
  BY NullAssumption DEF IInv, TypeOK, Runs, Forward
<1>u. UNCHANGED <<owner, status, current, synced, lost>> /\ synced = w
  BY DEF catalog, SyncedOK, Forward
<1>f. /\ p \in Chunks <=> p \in AffectedBetween(w, T) /\ Tree[T][p] # Null
      /\ p \in Stale <=> o # Null /\ Tree[T][p] = Null /\ p \in AffectedBetween(w, T)
      /\ p \in ToEmbed <=> p \in Chunks /\ (p \in run.baseline => Content(o, p) # Tree[T][p])
      /\ p \in run.baseline => o # Null
  BY <1>t, FileOfRun DEF NewContent, OldContent
<1>o. RowFits(p, o, p \in run.baseline, w)
  BY <1>t DEF FoundOK, OldGood
<1>k. (p \notin Chunks \cup Stale \/ pc \in {"create", "backup", "embed"}) =>
        Kept(p, o, p \in run.baseline, w)
  BY DEF VectorsOK, OldKept, OldGood
<1>n. (p \in Chunks /\ pc \in {"files", "chunks"} \cup Promoted) => vectors[p] = Tree[T][p]
  BY <1>t, NothingSinceItself DEF VectorsOK, Exposed, NewContent
<1>c. \/ pc = "embed" /\ p \in ToEmbed
      \/ pc = "staleVectors" /\ p \in Stale
      \/ vectors'[p] = vectors[p]
  BY CallDomain, OutsideOfCall DEF Forward
<1>1. Ahead(p, owner[p], Good(p), synced, current)'
  <2>1. CASE pc \in Promoted
    <3>1. current = T /\ status[T] = "succeeded"
      BY <2>1 DEF SyncedOK, StatusOK
    <3>2. p \in Chunks => owner[p] = T
      BY <1>t, <2>1, RowOfRun DEF Promoted, Forward, OwnerOK
    <3> QED BY <1>t, <1>u, <1>f, <3>1, <3>2 DEF Ahead, Good
  <2>2. CASE pc \notin Promoted
    <3>1. current = run.current /\ run.current # T
      BY <2>2 DEF IInv, CurrentOfRun, Forward, Promoted
    <3>2. Ahead(p, o, p \in run.baseline, w, run.current)
      BY <1>t DEF FoundOK, OldGood
    <3> QED BY <1>u, <3>1, <3>2 DEF Ahead
  <2> QED BY <2>1, <2>2
<1>2. CASE owner[p] = T /\ p \in Chunks /\ pc \in {"chunks"} \cup Promoted
  <2>1. vectors'[p] = Tree[T][p]
    BY <1>f, <1>n, <1>c, <1>2 DEF Promoted
  <2> QED BY <1>t, <1>u, <1>f, <1>1, <1>2, <2>1 DEF FileOK, RowFits, Kept, Good, Content, Settled
<1>3. CASE owner[p] = Null /\ p \in Stale /\ pc \in {"record", "refresh"}
  <2>1. vectors'[p] = Null
    BY <1>c, <1>3 DEF VectorsOK, Promoted
  <2> QED BY <1>t, <1>u, <1>f, <1>1, <1>3, <2>1 DEF FileOK, RowFits, Kept, Good, Content, Settled
<1>4. CASE /\ owner[p] = Left(p)
           /\ pc \in Promoted => p \notin Chunks
           /\ pc \in {"record", "refresh"} => p \notin Stale
  <2>1. /\ Left(p) # Null => /\ Left(p) = o
                             /\ status[Left(p)] = "succeeded" <=> p \in run.baseline
        /\ Left(p) # o => Left(p) = Null /\ o = T
    BY <1>t, LeftGood DEF Left
  <2>2. (p \in run.baseline /\ Left(p) # o) => p \in lost
    BY LeftBehind
  <2>3. CASE p \in AffectedBetween(w, T)
    <3>1. RowFits(p, owner[p], Good(p), synced)'
      BY <1>u, <1>o, <1>4, <2>1, <2>3 DEF RowFits, Good, Settled
    <3>2. Kept(p, owner[p], Good(p), synced)'
      <4>1. CASE Content(Left(p), p) # Tree[T][p]
        BY <1>u, <1>4, <2>3, <4>1 DEF Kept, Exposed
      <4>2. CASE Content(Left(p), p) = Tree[T][p] /\ Left(p) # o
        BY <1>t, <1>o, <2>1, <4>2 DEF RowFits, Content
      <4>3. CASE Content(o, p) = Tree[T][p] /\ Left(p) = o
        <5> SUFFICES ASSUME p \in run.baseline \/ (o = Null /\ p \notin lost)
                     PROVE  vectors'[p] = Tree[T][p]
          BY <1>u, <1>4, <2>1, <4>3 DEF Kept, Good
        <5>1. p \notin ToEmbed /\ p \notin Stale
          BY <1>f, <1>o, <1>t, <4>3 DEF Content, RowFits
        <5>2. vectors'[p] = vectors[p]
          BY <1>c, <5>1
        <5>3. CASE p \in Chunks /\ pc \in {"files", "chunks"} \cup Promoted
          BY <1>n, <5>2, <5>3
        <5>4. CASE Kept(p, o, p \in run.baseline, w)
          BY <5>2, <5>4, <4>3 DEF Kept, Exposed
        <5> QED BY <1>k, <5>1, <5>3, <5>4 DEF Forward, Promoted
      <4> QED BY <4>1, <4>2, <4>3
    <3> QED BY <1>1, <3>1, <3>2 DEF FileOK
  <2>4. CASE p \notin AffectedBetween(w, T)
    <3>1. p \notin Chunks /\ p \notin Stale /\ vectors'[p] = vectors[p]
      BY <1>f, <1>c, <2>4
    <3>2. p \notin lost => Content(o, p) = Content(w, p) /\ (o # Null => p \in run.baseline)
      BY <1>o, <2>4 DEF RowFits, Settled
    <3>3. (p \in run.baseline \/ (o = Null /\ p \notin lost)) => vectors[p] = Content(o, p)
      BY <1>k, <2>4, <3>1 DEF Kept, Exposed
    <3>4. RowFits(p, owner[p], Good(p), synced)'
      BY <1>t, <1>u, <1>o, <1>4, <2>1, <2>2, <3>2 DEF RowFits, Good, Settled
    <3>5. Kept(p, owner[p], Good(p), synced)'
      BY <1>t, <1>u, <1>4, <2>1, <2>2, <3>1, <3>2, <3>3 DEF Kept, Good
    <3> QED BY <1>1, <3>4, <3>5 DEF FileOK
  <2> QED BY <2>3, <2>4
<1> QED BY <1>t, <1>2, <1>3, <1>4, RowOfRun

\* What a finished run leaves of a file, whether its end is recorded or not.
LEMMA RefreshedFile ==
    ASSUME IInv, JobOK, OneUnfinished, pc = "refresh", NEW p \in Paths,
           dirty' = dirty \/ (dirty \subseteq {run.target} /\ dirty' \subseteq {run.target}),
           lost' = lost \/ lost' = lost \ Chunks, UNCHANGED <<vectors, catalog>>
    PROVE  FileOK(p)'
<1> DEFINE T == run.target
           o == run.old[p]
           w == run.was
           ExposedNow(x) == \E c \in dirty' : p \in AffectedBetween(T, c) /\ Tree[c][p] # x
<1> USE DEF JobOK
<1>t. /\ TypeOK /\ T \in Commits /\ w \in Versions /\ T # Null /\ o \in Versions
      /\ dirty \subseteq Commits
  BY NullAssumption DEF IInv, TypeOK, Runs
<1>u. /\ UNCHANGED <<owner, status, current, synced, vectors>> /\ synced = T /\ current = T
      /\ status[T] = "succeeded"
  BY DEF catalog, SyncedOK, StatusOK, Promoted
<1>f. /\ p \in Chunks <=> p \in AffectedBetween(w, T) /\ Tree[T][p] # Null
      /\ p \in Stale <=> o # Null /\ Tree[T][p] = Null /\ p \in AffectedBetween(w, T)
      /\ p \in run.baseline => o # Null
  BY <1>t, FileOfRun DEF NewContent
<1>o. RowFits(p, o, p \in run.baseline, w)
  BY DEF FoundOK, OldGood
<1>k. p \notin Chunks \cup Stale => Kept(p, o, p \in run.baseline, w)
  BY DEF VectorsOK, OldKept, OldGood, Forward
<1>a. AffectedBetween(T, T) = {}
  BY <1>t, NothingSinceItself
<1>1. Ahead(p, owner[p], Good(p), synced, current)'
  BY <1>u DEF Ahead
<1>2. CASE owner[p] = T /\ p \in Chunks
  <2>1. vectors[p] = Tree[T][p] \/ Exposed(p, Tree[T][p], T)
    BY <1>2 DEF VectorsOK, Promoted, NewContent
  <2>2. vectors[p] = Tree[T][p] \/ ExposedNow(Tree[T][p])
    BY <1>a, <2>1 DEF Exposed
  <2> QED BY <1>t, <1>u, <1>f, <1>1, <1>2, <2>2 DEF FileOK, RowFits, Kept, Good, Content, Exposed
<1>3. CASE owner[p] = Null /\ p \in Stale
  <2>1. vectors[p] = Null
    BY <1>3 DEF VectorsOK, Promoted
  <2> QED BY <1>t, <1>u, <1>f, <1>1, <1>3, <2>1 DEF FileOK, RowFits, Kept, Good, Content
<1>4. CASE owner[p] = Left(p) /\ p \notin Chunks /\ p \notin Stale
  <2>l. p \in lost' <=> p \in lost
    BY <1>4
  <2>1. CASE p \in AffectedBetween(w, T)
    <3>1. o = Null /\ Tree[T][p] = Null /\ owner[p] = Null
      BY <1>f, <1>4, <2>1 DEF Left
    <3>2. p \notin lost => vectors[p] = Null \/ Exposed(p, Null, w)
      BY <1>k, <1>4, <3>1 DEF Kept, Content
    <3>3. Exposed(p, Null, w) => ExposedNow(Null)
      BY <1>t, <3>1, DifferentIsAffected DEF Exposed
    <3> QED BY <1>t, <1>u, <1>1, <2>l, <3>1, <3>2, <3>3 DEF FileOK, RowFits, Kept, Good, Content, Exposed
  <2>2. CASE p \notin AffectedBetween(w, T)
    <3>1. /\ w # Null /\ Tree[w][p] = Tree[T][p]
          /\ \A c \in dirty : p \in AffectedBetween(w, c) => p \in AffectedBetween(T, c)
      BY <1>t, <2>2, Unaffected
    <3>2. (\A c \in dirty' : p \notin AffectedBetween(T, c)) => Settled(p, w)
      BY <2>2, <3>1 DEF Settled
    <3>3. \A x : Exposed(p, x, w) => ExposedNow(x)
      BY <2>2, <3>1 DEF Exposed
    <3>4. /\ Left(p) # Null => /\ Left(p) = o
                               /\ status[Left(p)] = "succeeded" <=> p \in run.baseline
          /\ Left(p) # o => Left(p) = Null /\ o = T
      BY <1>t, LeftGood DEF Left, Forward
    <3>5. (p \in run.baseline /\ Left(p) # o) => p \in lost
      BY LeftBehind DEF Forward
    <3>6. CASE Left(p) = o
      <4>1. RowFits(p, owner[p], Good(p), synced)'
        <5>1. (o # Null /\ p \notin run.baseline /\ p \notin lost) => o \in dirty /\ dirty' = dirty
          BY <1>o, <2>2 DEF RowFits, Settled
        <5> QED BY <1>t, <1>u, <1>o, <1>4, <2>l, <3>1, <3>2, <3>4, <3>6, <5>1
              DEF RowFits, Good, Content, Settled
      <4>2. Kept(p, owner[p], Good(p), synced)'
        BY <1>u, <1>k, <1>4, <2>l, <3>3, <3>4, <3>6 DEF Kept, Good, Exposed
      <4> QED BY <1>1, <4>1, <4>2 DEF FileOK
    <3>7. CASE Left(p) # o
      <4>1. p \in lost
        <5> SUFFICES ASSUME p \notin lost PROVE FALSE
          OBVIOUS
        <5>1. o = T /\ p \notin run.baseline
          BY <3>4, <3>5, <3>7
        <5>2. T \in dirty
          BY <1>o, <1>t, <5>1 DEF RowFits
        <5>3. Settled(p, w)
          BY <2>2, <5>2 DEF OneUnfinished, Settled
        <5> QED BY <1>o, <1>t, <5>1, <5>3 DEF RowFits
      <4> QED BY <1>u, <1>1, <1>4, <2>l, <3>4, <3>7, <4>1 DEF FileOK, RowFits, Kept, Good
    <3> QED BY <3>6, <3>7
  <2> QED BY <2>1, <2>2
<1> QED BY <1>t, <1>2, <1>3, <1>4, RowOfRun DEF Forward, Promoted

\* A run that raised before it wrote anything leaves everything as it found it.
LEMMA UnstartedFile ==
    ASSUME IInv, JobOK, pc = "start", NEW p \in Paths,
           TornVectors, UNCHANGED <<catalog, dirty, lost>>
    PROVE  FileOK(p)'
<1>1. vectors'[p] = vectors[p]
  BY CallDomain, OutsideOfCall
<1>2. UNCHANGED <<owner, status, current, synced>>
  BY DEF catalog
<1>3. owner[p] = run.old[p] /\ synced = run.was /\ current = run.current
  BY DEF JobOK, OwnerOK, SyncedOK, IInv, CurrentOfRun, Forward
<1>4. Good(p) <=> p \in run.baseline
  BY <1>3 DEF Good, JobOK, StatusOK, IInv, TypeOK, Forward
<1>5. /\ RowFits(p, run.old[p], p \in run.baseline, run.was)
      /\ Kept(p, run.old[p], p \in run.baseline, run.was)
      /\ Ahead(p, run.old[p], p \in run.baseline, run.was, run.current)
  BY DEF JobOK, FoundOK, VectorsOK, OldKept, OldGood
<1>6. Good(p)' <=> p \in run.baseline
  BY <1>2, <1>4 DEF Good
<1>7. RowFits(p, owner[p], Good(p), synced)'
  BY <1>2, <1>3, <1>5, <1>6 DEF RowFits, Settled
<1>8. Kept(p, owner[p], Good(p), synced)'
  BY <1>1, <1>2, <1>3, <1>5, <1>6 DEF Kept, Exposed
<1>9. Ahead(p, owner[p], Good(p), synced, current)'
  BY <1>2, <1>3, <1>5, <1>6 DEF Ahead
<1> QED BY <1>7, <1>8, <1>9 DEF FileOK

\* A rollback that reaches its end leaves the rows and the vectors it found.
LEMMA UndoneFile ==
    ASSUME IInv, JobOK, NEW p \in Paths, UndoSource
    PROVE  FileOK(p)'
<1> DEFINE o == run.old[p]
           w == run.was
           base == p \in run.baseline
<1> USE DEF JobOK
<1>1. /\ pc = "undoSource" /\ synced' = w
      /\ UNCHANGED <<vectors, owner, status, current, dirty, lost>>
  BY DEF UndoSource, ghosts
<1>2. TypeOK /\ mutating /\ current = run.current
      /\ (current # Null => status[current] = "succeeded")
  BY <1>1 DEF IInv, CurrentOfRun, CurrentSucceeded, SyncedOK, Undo
<1>3. RowFits(p, o, base, w) /\ Ahead(p, o, base, w, run.current)
  BY <1>1 DEF FoundOK, OldGood
<1>4. CASE p \notin run.baseline
  <2>1. owner[p] = Null
    BY <1>1, <1>4 DEF OwnerOK, Undo
  <2>2. (o = Null /\ p \notin lost) => vectors[p] = Null \/ Exposed(p, Null, w)
    <3>1. CASE p \in Chunks
      BY <1>1, <1>4, <3>1 DEF VectorsOK, Undo
    <3>2. CASE p \notin Chunks /\ o = Null
      <4>1. p \notin Chunks \cup OldRows
        BY <1>1, <1>2, <3>2, FileOfRun
      <4> QED BY <1>1, <3>2, <4>1 DEF VectorsOK, Undo, OldKept, Kept, Content
    <3> QED BY <3>1, <3>2
  <2>3. o # Null => vectors[p] = Null
    BY <1>1, <1>2, <1>4, FileOfRun DEF VectorsOK, Undo
  <2>4. RowFits(p, owner[p], Good(p), synced)'
    BY <1>1, <1>3, <1>4, <2>1 DEF RowFits, Good, Settled, Content
  <2>5. Kept(p, owner[p], Good(p), synced)'
    BY <1>1, <2>1, <2>2, <2>3 DEF Kept, Good, Content, Exposed
  <2>6. Ahead(p, owner[p], Good(p), synced, current)'
    BY <1>1, <1>2, <1>3, <1>4, <2>1 DEF Ahead, Good
  <2> QED BY <2>4, <2>5, <2>6 DEF FileOK
<1>5. CASE p \in run.baseline
  <2>1. owner[p] = o /\ o # Null
    BY <1>1, <1>2, <1>5 DEF OwnerOK, TypeOK
  <2>2. p \notin lost => status[o] = "succeeded"
    BY <1>1, <1>5 DEF StatusOK
  <2>3. vectors[p] = Content(o, p) \/ Exposed(p, Content(o, p), w)
    BY <1>1, <1>2, <1>5 DEF BackupsOK, VectorsOK, OldContent
  <2>4. RowFits(p, owner[p], Good(p), synced)'
    BY <1>1, <1>3, <1>5, <2>1, <2>2 DEF RowFits, Good, Settled
  <2>5. Kept(p, owner[p], Good(p), synced)'
    BY <1>1, <2>1, <2>3 DEF Kept, Good, Exposed
  <2>6. Ahead(p, owner[p], Good(p), synced, current)'
    BY <1>1, <1>2, <1>3, <1>5, <2>1 DEF Ahead, Good
  <2> QED BY <2>4, <2>5, <2>6 DEF FileOK
<1> QED BY <1>4, <1>5

\* Every way a job can end leaves every file in order.
LEMMA IdleStep ==
    ASSUME IInv, TreeInv, OneUnfinished', [Next]_vars
    PROVE  IdleOK'
<1> SUFFICES ASSUME pc' = "idle", NEW p \in Paths PROVE FileOK(p)'
  BY DEF IdleOK
<1>1. OneUnfinished /\ IdleOK /\ JobOK
  BY StillOne DEF TreeInv
<1>2. CASE pc = "idle" /\ UNCHANGED <<vectors, catalog, dirty, lost, aborted>>
  <2>1. FileOK(p)
    BY <1>1, <1>2 DEF IdleOK
  <2> QED BY <1>2, <2>1 DEF FileOK, RowFits, Kept, Ahead, Good, Settled, Exposed, catalog
<1>3. CASE Finish
  <2>1. /\ dirty' = dirty \/ (dirty \subseteq {run.target} /\ dirty' \subseteq {run.target})
        /\ lost' = lost \ Chunks /\ pc = "refresh" /\ UNCHANGED <<vectors, catalog>>
    BY <1>3 DEF Finish
  <2> QED BY <1>1, <2>1, RefreshedFile
<1>4. CASE RaiseOutside \/ Crash
  <2>1. /\ TornVectors /\ UNCHANGED <<catalog, lost>>
        /\ dirty' = IF pc = "start" THEN dirty ELSE dirty \cup {run.target}
        /\ pc \in Forward
    BY <1>4 DEF RaiseOutside, Crash, OneUnfinished
  <2>2. CASE pc = "start"
    BY <1>1, <2>1, <2>2, UnstartedFile
  <2>3. CASE pc # "start"
    <3>1. dirty \subseteq {run.target} /\ dirty' = {run.target}
      BY <2>1, <2>3 DEF OneUnfinished
    <3>2. CASE pc # "refresh"
      BY <1>1, <2>1, <2>3, <3>1, <3>2, CrashedFile
    <3>3. CASE pc = "refresh"
      <4>1. vectors' = vectors
        <5>1. \A q \in Paths : vectors'[q] = vectors[q]
          BY <2>1, <3>3, CallDomain, OutsideOfCall
        <5> QED BY <5>1, <2>1, VectorsType DEF IInv, TypeOK
      <4> QED BY <1>1, <2>1, <3>1, <3>3, <4>1, RefreshedFile
    <3> QED BY <3>2, <3>3
  <2> QED BY <2>2, <2>3
<1>5. CASE UndoSource
  BY <1>1, <1>5, UndoneFile
<1>6. CASE RaiseInUndo \/ \E q \in Paths : RestoreRefused(q)
  BY <1>6 DEF RaiseInUndo, RestoreRefused, OneUnfinished
<1> QED BY <1>2, <1>3, <1>4, <1>5, <1>6, JobEnds

\* The empty index is the tree of no commit.
LEMMA TreeInvInit == Init => TreeInv
<1> SUFFICES ASSUME Init PROVE IdleOK /\ JobOK
  BY DEF TreeInv
<1>1. ASSUME NEW p \in Paths PROVE FileOK(p)
  BY DEF Init, FileOK, RowFits, Kept, Ahead, Good, Content
<1>2. pc = "idle" /\ mutating = FALSE
  BY DEF Init
<1>3. IdleOK
  BY <1>1 DEF IdleOK
<1> QED BY <1>2, <1>3 DEF JobOK, FoundOK, LostOK, VectorsOK, BackupsOK, OwnerOK, StatusOK, SyncedOK,
       Forward, Undo, Promoted

\* Stores, rows and checkpoint keep together at every step.
LEMMA TreeInvStep == IInv /\ TreeInv /\ [Next]_vars => TreeInv'
BY IdleStep, FoundStep, LostStep, VectorsStep, BackupsStep, OwnerStep, StatusStep, SyncedStep
   DEF TreeInv, JobOK

\* The invariant holds throughout.
LEMMA TreeInvHolds == Spec => [](IInv /\ TreeInv)
<1>1. IInv /\ [Next]_vars => IInv'
  BY TypesStep, CurrentStep, FilesStep DEF IInv
<1> QED BY InitIInv, TreeInvInit, TreeInvStep, <1>1, PTL DEF Spec

\* For every tree, history of the branch and set of files: between jobs, whatever
\* failed and was rolled back and whatever crashed and was redone, vectors and
\* rows are exactly the tree of last_synced_commit.
THEOREM IndexIsTheTree == Spec => []IndexMatchesTree
<1>1. IInv /\ TreeInv => IndexMatchesTree
  <2> SUFFICES ASSUME IInv, TreeInv, pc = "idle", Clean, NEW p \in Paths
               PROVE  /\ vectors[p] = Synced(p)
                      /\ owner[p] = Null <=> Synced(p) = Null
                      /\ owner[p] # Null => /\ Tree[owner[p]][p] = Synced(p)
                                            /\ status[owner[p]] = "succeeded"
    BY DEF IndexMatchesTree
  <2>1. FileOK(p) /\ dirty = {} /\ lost = {}
    BY DEF TreeInv, OneUnfinished, Clean, IdleOK
  <2> QED BY <2>1 DEF FileOK, RowFits, Kept, Settled, Exposed, Good, Content, Synced
<1> QED BY <1>1, TreeInvHolds, PTL

\* For every tree: while a job goes forward, each file that its commit does not
\* touch stays searchable with its content.
THEOREM UntouchedAreSearchable == Spec => []UntouchedStaySearchable
<1>1. IInv /\ TreeInv => UntouchedStaySearchable
  <2> SUFFICES ASSUME IInv, TreeInv, pc \in Forward, Clean, NEW p \in Paths \ Affected
               PROVE  vectors[p] = Synced(p)
    BY DEF UntouchedStaySearchable
  <2>1. JobOK /\ dirty = {} /\ lost = {} /\ pc # "idle"
    BY DEF TreeInv, OneUnfinished, Clean, Forward
  <2>2. RowFits(p, run.old[p], OldGood(p), run.was) /\ OldKept(p)
    BY <2>1 DEF JobOK, FoundOK, VectorsOK, Chunks, Stale
  <2>3. vectors[p] = Content(run.was, p)
    BY <2>1, <2>2 DEF RowFits, OldKept, Kept, Settled, Exposed
  <2>4. Content(run.was, p) = Synced(p)
    <3>1. CASE pc # "refresh"
      BY <2>1, <3>1 DEF JobOK, SyncedOK, Synced
    <3>2. CASE pc = "refresh"
      <4>1. synced = run.target /\ run.target \in Commits /\ run.was \in Versions
        BY <2>1, <3>2 DEF JobOK, SyncedOK, IInv, TypeOK, Runs
      <4> QED BY <4>1, Unaffected, NullAssumption DEF Affected, Synced, Content
    <3> QED BY <3>1, <3>2
  <2> QED BY <2>3, <2>4
<1> QED BY <1>1, TreeInvHolds, PTL
=============================================================================

\* Two commits pushed and reset in any order, two failures or crashes, one
\* automatic retry.
CONSTANTS
    CommitBound = 2
    RetryDelays = 1
    TroubleBound = 2
SPECIFICATION BoundedSpec
INVARIANTS SucceededIsIndexed
PROPERTIES SyncedMovesForward EventuallySynced

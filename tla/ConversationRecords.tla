-------------------------- MODULE ConversationRecords --------------------------
(***************************************************************************)
(* What the databases keep of one conversation: its owner                  *)
(* (UserAuthRepository), its knowledge scope (ConversationScopeRepository),*)
(* its messages (the agent session), the runs that wait for an approval    *)
(* (PendingRunRepository) and its summary (MemoryRepository).  Each step   *)
(* is one transaction on one table.                                        *)
(***************************************************************************)
CONSTANTS
    Runs,
    Nobody      \* no owner, and no scope

VARIABLES
    owner,      \* web_conversation_owners.owner_id, or Nobody
    scope,      \* agent_conversation_scopes, or Nobody
    history,    \* runs whose messages are in agent_messages
    pending,    \* agent_pending_runs.status of each run, "none" without a row
    summary     \* runs the conversation's summary speaks of

RecordTypeOK ==
    /\ history \subseteq Runs /\ summary \subseteq Runs
    /\ pending \in [Runs -> {"none", "pending", "completed"}]

RecordInit ==
    /\ owner = Nobody
    /\ scope = Nobody
    /\ history = {}
    /\ pending = [r \in Runs |-> "none"]
    /\ summary = {}

\* bind_conversation_owner: an insert, or an update where the owner is the same.
MayOwn(o) == owner \in {Nobody, o}
\* Mutant: an update only.
BindOwnerAgain(o) == MayOwn(o) /\ UNCHANGED owner
BindOwner(o) == MayOwn(o) /\ owner' = o
\* delete_conversation_owner
ReleaseOwner(o) == MayOwn(o) /\ owner' = Nobody

\* bind: a conversation has one scope.
MayBind(s) == scope \in {Nobody, s}
BindScope(s) == MayBind(s) /\ scope' = s
\* _resolve_scope: without a scope in the request the conversation's own is taken.
Resolvable(s, provided) == MayBind(s) \/ ~provided
ResolveScope(s, provided) ==
    IF scope # Nobody /\ ~provided THEN UNCHANGED scope ELSE BindScope(s)
DeleteScope == scope' = Nobody

AddItems(r) == history' = history \cup {r}
ClearSession == history' = {}

\* save_pending: a run that stops again goes back to pending.
SavePending(r) == pending' = [pending EXCEPT ![r] = "pending"]
\* get_pending: PendingRunNotFoundError, PendingRunConflictError
IsPending(r) == pending[r] = "pending"
MarkCompleted(r) == IsPending(r) /\ pending' = [pending EXCEPT ![r] = "completed"]
\* Mutant: only the rows that still wait are deleted.
DeleteWaitingOnly == pending' = [r \in Runs |-> IF pending[r] = "pending" THEN "none" ELSE pending[r]]
DeletePending == pending' = [r \in Runs |-> "none"]

\* update_from_turn: the summary so far with this turn's question and answer added.
UpdateSummary(r) == summary' = summary \cup {r}
DeleteSummary == summary' = {}
=============================================================================

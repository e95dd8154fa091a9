----------------------------- MODULE FeishuEvents -----------------------------
(***************************************************************************)
(* The Feishu bridge's record of the events it was sent, which is to keep  *)
(* a redelivered event from being answered twice (FeishuEventRepository).  *)
(***************************************************************************)
EXTENDS Naturals

CONSTANTS Events, MaxAttempts

VARIABLE event      \* feishu_events: status and attempt of each event

Unseen == [status |-> "none", attempt |-> 0]
EventStatuses == {"none", "processing", "completed", "failed"}
EventTypeOK == event \in [Events -> [status : EventStatuses, attempt : 0..MaxAttempts]]
EventInit == event = [e \in Events |-> Unseen]

\* Mutant: what failed or was left may be claimed.
ClaimableUnlessDone(e) == event[e].status # "completed" /\ event[e].attempt < MaxAttempts
\* claim: a new event, or a failed one that has an attempt left.
Claimable(e) ==
    \/ event[e].status = "none"
    \/ event[e].status = "failed" /\ event[e].attempt < MaxAttempts

ClaimEvent(e) ==
    /\ Claimable(e)
    /\ event' = [event EXCEPT ![e] = [status |-> "processing", attempt |-> @.attempt + 1]]

\* complete, fail: UPDATE ... WHERE status='processing', whichever attempt that is.
SetStatus(e, s) ==
    event' = IF event[e].status = "processing" THEN [event EXCEPT ![e].status = s] ELSE event

\* initialize: every event in process counts as failed, whichever process holds it.
FailAll ==
    event' = [e \in Events |->
        IF event[e].status = "processing" THEN [event[e] EXCEPT !.status = "failed"] ELSE event[e]]
=============================================================================

---------------------------- MODULE MemoryRecords ----------------------------
(***************************************************************************)
(* Long-term memory: candidates proposed by the extraction become          *)
(* memories when their owner, an administrator or the passing of a day     *)
(* confirms them; memories are superseded, forgotten, promoted to a        *)
(* domain and moved to another owner (MemoryRepository, MemoryService, the *)
(* maintenance of MemoryExtractionWorker and the memory handlers of the    *)
(* API).                                                                   *)
(*                                                                         *)
(* A candidate and its memory have the same id.  Each transaction on the   *)
(* table is one step, each call of the vector index another, and every     *)
(* check of a status is made in an earlier transaction than the update it  *)
(* guards.  A decision may stop after any step: a call raises, the client  *)
(* goes away, or the process dies.                                         *)
(***************************************************************************)
EXTENDS Integers

CONSTANTS
    ItemBound,      \* bound: candidates ever created
    Handlers,       \* requests under way
    Worker,         \* the maintenance of the extraction worker
    Device,         \* the owner id of an anonymous browser
    Person,         \* the owner id of a user who signs in with it
    Domain

Actors == Handlers \cup {Worker}
Users == {Device, Person}
Owners == Users \cup {Domain}
Items == 1..ItemBound

ASSUME ItemBoundAssumption == ItemBound \in Nat
ASSUME WorkerAssumption == Worker \notin Handlers
ASSUME OwnersAssumption == Device # Person /\ Domain \notin Users

VARIABLES
    cand,       \* memory_candidates.status
    mem,        \* memories.status
    owner,      \* owner_id of the candidate while it is pending, then of the memory
    kind,       \* memory_type: confirmed automatically or only explicitly
    promo,      \* memory_domain_promotions.state, by target_candidate_id
    parent,     \* its source_memory_id
    indexed,    \* ids in the memory collection of the vector store
    repairs,    \* memory_index_repairs
    pc,         \* where each actor is
    item,       \* the candidate or memory it has in hand
    saw,        \* the owner it read, while it approves
    todo,       \* worker: due candidates, then repairs, still to be visited
    contested,  \* history: candidates two decisions were under way for at once
    broken,     \* history: approvals that stopped between commit and index
    raised      \* history: promotions whose index raised

rows == <<cand, mem, owner, kind>>
promotions == <<promo, parent>>
index == <<indexed, repairs>>
actors == <<pc, item, saw, todo>>
history == <<contested, broken, raised>>
vars == <<rows, promotions, index, actors, history>>

Steps == {"idle", "approve", "index", "queue", "reject", "forget", "unindex", "promote",
          "approvePromotion", "indexPromotion", "reviewPromotion",
          "rejectPromotion", "closePromotion", "confirm", "repair", "fix", "unfix", "fixed"}

\* A decision about the candidate in hand is under way.
Deciding == {"approve", "reject", "approvePromotion", "indexPromotion",
             "reviewPromotion", "rejectPromotion", "closePromotion"}

TypeOK ==
    /\ cand \in [Items -> {"none", "candidate", "approved", "rejected", "expired"}]
    /\ mem \in [Items -> {"none", "confirmed", "expired", "deleted"}]
    /\ owner \in [Items -> Owners]
    /\ kind \in [Items -> {"preference", "procedure"}]
    /\ promo \in [Items -> {"none", "pending", "approved", "rejected"}]
    /\ parent \in [Items -> Items \cup {0}]
    /\ indexed \subseteq Items
    /\ repairs \subseteq Items
    /\ pc \in [Actors -> Steps]
    /\ item \in [Actors -> Items \cup {0}]
    /\ saw \in [Actors -> Owners]
    /\ todo \subseteq Items
    /\ contested \subseteq Items
    /\ broken \subseteq Items
    /\ raised \subseteq Items

Init ==
    /\ cand = [i \in Items |-> "none"]
    /\ mem = [i \in Items |-> "none"]
    /\ owner = [i \in Items |-> Person]
    /\ kind = [i \in Items |-> "preference"]
    /\ promo = [i \in Items |-> "none"]
    /\ parent = [i \in Items |-> 0]
    /\ indexed = {}
    /\ repairs = {}
    /\ pc = [a \in Actors |-> "idle"]
    /\ item = [a \in Actors |-> 0]
    /\ saw = [a \in Actors |-> Person]
    /\ todo = {}
    /\ contested = {}
    /\ broken = {}
    /\ raised = {}

-----------------------------------------------------------------------------
(* Candidates *)

Unused(i) == cand[i] = "none" /\ \A k \in Items : k < i => cand[k] # "none"

\* create_candidate
Create(i, o, t) ==
    /\ Unused(i)
    /\ cand' = [cand EXCEPT ![i] = "candidate"]
    /\ owner' = [owner EXCEPT ![i] = o]
    /\ kind' = [kind EXCEPT ![i] = t]
    /\ UNCHANGED mem

\* The extraction of a turn proposes something for the user it was read with, or
\* for the domain.
Extract(i, o, t) ==
    /\ Create(i, o, t)
    /\ UNCHANGED <<promotions, index, actors, history>>

-----------------------------------------------------------------------------
(* Steps of an actor *)

Goto(a, from, to) ==
    /\ pc[a] = from
    /\ pc' = [pc EXCEPT ![a] = to]

\* A request is answered; the worker goes on with its list.
Home(a) == IF a = Worker THEN "confirm" ELSE "idle"

Leave(a) ==
    /\ pc' = [pc EXCEPT ![a] = Home(a)]
    /\ item' = [item EXCEPT ![a] = 0]
    /\ saw' = [saw EXCEPT ![a] = Person]

\* A status is read, and the decision rests on it from now on.
Take(a, i, to) ==
    /\ pc' = [pc EXCEPT ![a] = to]
    /\ item' = [item EXCEPT ![a] = i]
    /\ saw' = [saw EXCEPT ![a] = IF to \in {"approve", "approvePromotion"} THEN owner[i] ELSE @]

Contest(a, i) ==
    contested' = IF \E b \in Actors \ {a} : pc[b] \in Deciding /\ item[b] = i
                 THEN contested \cup {i} ELSE contested

-----------------------------------------------------------------------------
(* Approval *)

\* The handlers and approve_candidate read a pending candidate.
ApproveRead(a, i) ==
    /\ a \in Handlers /\ pc[a] = "idle"
    /\ cand[i] = "candidate"
    /\ Take(a, i, "approve")
    /\ Contest(a, i)
    /\ UNCHANGED <<rows, promotions, index, todo, broken, raised>>

Slot(i, o) == {k \in Items : mem[k] = "confirmed" /\ owner[k] = o /\ kind[k] = kind[i]}

\* Mutant: the memory it supersedes is left alone.
InsertAlone(i, o) ==
    /\ mem' = [mem EXCEPT ![i] = "confirmed"]
    /\ owner' = [owner EXCEPT ![i] = o]
    /\ cand' = [cand EXCEPT ![i] = "approved"]
    /\ UNCHANGED kind

\* The transaction: what is confirmed in the same slot expires, the memory is
\* inserted with what was read, the candidate is closed, whatever it is by now.
Insert(i, o) ==
    /\ mem' = [k \in Items |-> IF k = i THEN "confirmed"
                               ELSE IF k \in Slot(i, o) THEN "expired" ELSE mem[k]]
    /\ owner' = [owner EXCEPT ![i] = o]
    /\ cand' = [cand EXCEPT ![i] = "approved"]
    /\ UNCHANGED kind

ApproveCommit(a, from, to) ==
    /\ Goto(a, from, to)
    /\ mem[item[a]] = "none"
    /\ Insert(item[a], saw[a])
    /\ saw' = [saw EXCEPT ![a] = Person]
    /\ UNCHANGED <<promotions, index, item, todo, history>>

\* The primary key of memories refuses a second memory of the candidate: the
\* request ends with an error, and so does a round of the maintenance.
ApproveRefused(a) ==
    /\ pc[a] \in {"approve", "approvePromotion"}
    /\ mem[item[a]] # "none"
    /\ pc' = [pc EXCEPT ![a] = "idle"]
    /\ item' = [item EXCEPT ![a] = 0]
    /\ saw' = [saw EXCEPT ![a] = Person]
    /\ todo' = IF a = Worker THEN {} ELSE todo
    /\ UNCHANGED <<rows, promotions, index, history>>

IndexUpsert(a) ==
    /\ pc[a] = "index"
    /\ indexed' = indexed \cup {item[a]}
    /\ Leave(a)
    /\ UNCHANGED <<rows, promotions, repairs, todo, history>>

\* Mutant: a failing index is only logged.
IndexFailsSilently(a) ==
    /\ pc[a] = "index"
    /\ Leave(a)
    /\ UNCHANGED <<rows, promotions, index, todo, history>>

\* The index raises ...
IndexFails(a) ==
    /\ Goto(a, "index", "queue")
    /\ UNCHANGED <<rows, promotions, index, item, saw, todo, history>>

\* ... so a repair is queued.
QueueRepair(a) ==
    /\ pc[a] = "queue"
    /\ repairs' = repairs \cup {item[a]}
    /\ Leave(a)
    /\ UNCHANGED <<rows, promotions, indexed, todo, history>>

-----------------------------------------------------------------------------
(* Rejection, and forgetting a memory *)

RejectRead(a, i) ==
    /\ a \in Handlers /\ pc[a] = "idle"
    /\ cand[i] = "candidate"
    /\ Take(a, i, "reject")
    /\ Contest(a, i)
    /\ UNCHANGED <<rows, promotions, index, todo, broken, raised>>

\* The update is not guarded by the status.
MarkRejected(i) ==
    /\ cand' = [cand EXCEPT ![i] = "rejected"]
    /\ UNCHANGED <<mem, owner, kind>>

RejectCommit(a) ==
    /\ pc[a] = "reject"
    /\ MarkRejected(item[a])
    /\ Leave(a)
    /\ UNCHANGED <<promotions, index, todo, history>>

ForgetRead(a, i) ==
    /\ a \in Handlers /\ pc[a] = "idle"
    /\ mem[i] \in {"confirmed", "expired"}
    /\ Take(a, i, "forget")
    /\ UNCHANGED <<rows, promotions, index, todo, history>>

\* soft_delete_memory; without a row left to delete the index is not called.
ForgetCommit(a) ==
    /\ pc[a] = "forget"
    /\ mem' = [mem EXCEPT ![item[a]] = IF @ = "none" THEN @ ELSE "deleted"]
    /\ IF mem' = mem THEN Leave(a)
       ELSE pc' = [pc EXCEPT ![a] = "unindex"] /\ UNCHANGED <<item, saw>>
    /\ UNCHANGED <<cand, owner, kind, promotions, index, todo, history>>

Unindex(a) ==
    /\ pc[a] = "unindex"
    /\ indexed' = indexed \ {item[a]}
    /\ Leave(a)
    /\ UNCHANGED <<rows, promotions, repairs, todo, history>>

-----------------------------------------------------------------------------
(* Promotion of a personal memory to a domain *)

\* request_domain_promotion: a candidate for the domain ...
PromoteCandidate(a, i, k) ==
    /\ a \in Handlers /\ pc[a] = "idle"
    /\ mem[i] \in {"confirmed", "expired"} /\ owner[i] \in Users /\ kind[i] = "procedure"
    /\ Create(k, Domain, kind[i])
    /\ parent' = [parent EXCEPT ![k] = i]
    /\ pc' = [pc EXCEPT ![a] = "promote"]
    /\ item' = [item EXCEPT ![a] = k]
    /\ UNCHANGED <<promo, index, saw, todo, history>>

\* ... and a promotion, unless one of the memory is pending.
PromoteRequest(a) ==
    /\ pc[a] = "promote"
    /\ promo' = IF \E k \in Items : promo[k] = "pending" /\ parent[k] = parent[item[a]]
                THEN promo ELSE [promo EXCEPT ![item[a]] = "pending"]
    /\ Leave(a)
    /\ UNCHANGED <<rows, parent, index, todo, history>>

\* approve_domain_promotion: the promotion and its candidate are pending.
ApprovePromotion(a, k) ==
    /\ a \in Handlers /\ pc[a] = "idle"
    /\ promo[k] = "pending" /\ cand[k] = "candidate"
    /\ Take(a, k, "approvePromotion")
    /\ Contest(a, k)
    /\ UNCHANGED <<rows, promotions, index, todo, broken, raised>>

IndexPromotion(a) ==
    /\ Goto(a, "indexPromotion", "reviewPromotion")
    /\ indexed' = indexed \cup {item[a]}
    /\ UNCHANGED <<rows, promotions, repairs, item, saw, todo, history>>

\* Nothing is caught here: the request ends with an error, no repair is queued, and
\* the promotion stays pending beside a candidate that is approved.
PromotionIndexFails(a) ==
    /\ pc[a] = "indexPromotion"
    /\ raised' = raised \cup {item[a]}
    /\ Leave(a)
    /\ UNCHANGED <<rows, promotions, index, todo, contested, broken>>

\* Mutant: the verdict is written over an earlier one.
ReviewAnyState(a, from, verdict) ==
    /\ pc[a] = from
    /\ promo' = [promo EXCEPT ![item[a]] = verdict]
    /\ Leave(a)
    /\ UNCHANGED <<rows, parent, index, todo, history>>

\* review_domain_promotion, guarded by the state.
Review(a, from, verdict) ==
    /\ pc[a] = from
    /\ promo' = [promo EXCEPT ![item[a]] = IF @ = "pending" THEN verdict ELSE @]
    /\ Leave(a)
    /\ UNCHANGED <<rows, parent, index, todo, history>>

\* reject_domain_promotion: a candidate that is no longer pending is left alone.
RejectPromotion(a, k) ==
    /\ a \in Handlers /\ pc[a] = "idle"
    /\ promo[k] # "none"
    /\ Take(a, k, IF cand[k] = "candidate" THEN "rejectPromotion" ELSE "closePromotion")
    /\ Contest(a, k)
    /\ UNCHANGED <<rows, promotions, index, todo, broken, raised>>

RejectPromoted(a) ==
    /\ Goto(a, "rejectPromotion", "closePromotion")
    /\ MarkRejected(item[a])
    /\ UNCHANGED <<promotions, index, item, saw, todo, history>>

-----------------------------------------------------------------------------
(* Maintenance, one round after another *)

Worklist(step, items) ==
    /\ pc' = [pc EXCEPT ![Worker] = step]
    /\ todo' = items

\* list_due_user_candidates: the ones created long enough ago.
ListDue(n) ==
    /\ pc[Worker] = "idle"
    /\ Worklist("confirm", {i \in 1..n :
            cand[i] = "candidate" /\ owner[i] \in Users /\ kind[i] = "preference"})
    /\ UNCHANGED <<rows, promotions, index, item, saw, history>>

\* approve_candidate reads the candidate again and skips a decided one.
ConfirmNext(i) ==
    /\ pc[Worker] = "confirm"
    /\ i \in todo /\ \A k \in todo : i <= k
    /\ todo' = todo \ {i}
    /\ IF cand[i] = "candidate"
       THEN Take(Worker, i, "approve") /\ Contest(Worker, i)
       ELSE UNCHANGED <<pc, item, saw, contested>>
    /\ UNCHANGED <<rows, promotions, index, broken, raised>>

\* repair_memory_index: list_index_repairs, then one after the other.
ListRepairs ==
    /\ pc[Worker] = "confirm" /\ todo = {}
    /\ Worklist(IF repairs = {} THEN "idle" ELSE "repair", repairs)
    /\ UNCHANGED <<rows, promotions, index, item, saw, history>>

\* The memory is read: index a confirmed one, remove a deleted one, and an
\* expired one is skipped by MemoryIndex.upsert.
RepairRead(i) ==
    /\ pc[Worker] = "repair"
    /\ i \in todo
    /\ todo' = todo \ {i}
    /\ Take(Worker, i, IF mem[i] = "confirmed" THEN "fix"
                       ELSE IF mem[i] = "deleted" THEN "unfix" ELSE "fixed")
    /\ UNCHANGED <<rows, promotions, index, history>>

Fix ==
    /\ Goto(Worker, "fix", "fixed")
    /\ indexed' = indexed \cup {item[Worker]}
    /\ UNCHANGED <<rows, promotions, repairs, item, saw, todo, history>>

Unfix ==
    /\ Goto(Worker, "unfix", "fixed")
    /\ indexed' = indexed \ {item[Worker]}
    /\ UNCHANGED <<rows, promotions, repairs, item, saw, todo, history>>

NextRepair ==
    /\ pc' = [pc EXCEPT ![Worker] = "repair"]
    /\ item' = [item EXCEPT ![Worker] = 0]
    /\ saw' = [saw EXCEPT ![Worker] = Person]
    /\ UNCHANGED todo

\* complete_index_repair
RepairDone ==
    /\ pc[Worker] = "fixed"
    /\ repairs' = repairs \ {item[Worker]}
    /\ NextRepair
    /\ UNCHANGED <<rows, promotions, indexed, history>>

\* The index or the database raises: on to the next repair.
RepairFails ==
    /\ pc[Worker] \in {"fix", "unfix", "fixed"}
    /\ NextRepair
    /\ UNCHANGED <<rows, promotions, index, history>>

RepairsEnd ==
    /\ pc[Worker] = "repair" /\ todo = {}
    /\ Worklist("idle", {})
    /\ UNCHANGED <<rows, promotions, index, item, saw, history>>

-----------------------------------------------------------------------------
(* What happens to many records, and what goes wrong *)

\* expire_memories, when a process starts: valid_until or expires_at has passed.
Expire(i) ==
    /\ cand[i] = "candidate" \/ mem[i] = "confirmed"
    /\ cand' = [cand EXCEPT ![i] = IF @ = "candidate" THEN "expired" ELSE @]
    /\ mem' = [mem EXCEPT ![i] = IF @ = "confirmed" THEN "expired" ELSE @]
    /\ UNCHANGED <<owner, kind, promotions, index, actors, history>>

\* merge_user_owner, one transaction: of the device's memories those in `same`
\* repeat a fact of the person and are deleted, those whose slot the person has
\* filled come back as candidates `fresh`, the others change their owner, and
\* so do the pending candidates.
Merge(same, fresh) ==
    LET old == {i \in Items : mem[i] = "confirmed" /\ owner[i] = Device}
        conflicts == {i \in old \ same : Slot(i, Person) # {}}
        back == {k \in Items : \E i \in conflicts : fresh[i] = k}
        source(k) == CHOOSE i \in conflicts : fresh[i] = k
        moved == (old \ (same \cup conflicts)) \cup
                    {i \in Items : cand[i] = "candidate" /\ owner[i] = Device}
    IN  /\ old \cup moved # {}
        /\ same \subseteq old
        /\ same # {} => \E i \in Items \ (same \cup conflicts) :
                            mem[i] = "confirmed" /\ owner[i] \in Users
        /\ \A i, j \in conflicts : i # j => fresh[i] # fresh[j]
        /\ \A k \in back : cand[k] = "none"
        /\ \A k \in back, j \in Items \ back : j < k => cand[j] # "none"
        /\ mem' = [i \in Items |-> IF i \in same \cup conflicts THEN "deleted" ELSE mem[i]]
        /\ cand' = [k \in Items |-> IF k \in back THEN "candidate" ELSE cand[k]]
        /\ owner' = [k \in Items |-> IF k \in back \cup moved THEN Person ELSE owner[k]]
        /\ kind' = [k \in Items |-> IF k \in back THEN kind[source(k)] ELSE kind[k]]
        /\ UNCHANGED <<promotions, index, actors, history>>

\* A call raises, the client goes away or the process dies: nothing is undone.
Stop(a) ==
    /\ pc[a] # "idle"
    /\ pc' = [pc EXCEPT ![a] = "idle"]
    /\ item' = [item EXCEPT ![a] = 0]
    /\ saw' = [saw EXCEPT ![a] = Person]
    /\ todo' = IF a = Worker THEN {} ELSE todo
    /\ broken' = IF pc[a] \in {"index", "queue", "indexPromotion"}
                 THEN broken \cup {item[a]} ELSE broken
    /\ UNCHANGED <<rows, promotions, index, contested, raised>>

-----------------------------------------------------------------------------
Approve(a) ==
    \/ ApproveCommit(a, "approve", "index") \/ ApproveRefused(a)
    \/ IndexUpsert(a) \/ IndexFails(a) \/ QueueRepair(a)

Request(a) ==
    \/ \E i \in Items : ApproveRead(a, i) \/ RejectRead(a, i) \/ ForgetRead(a, i)
    \/ Approve(a) \/ RejectCommit(a) \/ ForgetCommit(a) \/ Unindex(a)

Promotion(a) ==
    \/ \E i, k \in Items : PromoteCandidate(a, i, k)
    \/ PromoteRequest(a)
    \/ \E k \in Items : ApprovePromotion(a, k) \/ RejectPromotion(a, k)
    \/ ApproveCommit(a, "approvePromotion", "indexPromotion")
    \/ IndexPromotion(a) \/ PromotionIndexFails(a)
    \/ Review(a, "reviewPromotion", "approved")
    \/ RejectPromoted(a) \/ Review(a, "closePromotion", "rejected")

Maintain ==
    \/ \E i \in Items : ConfirmNext(i) \/ RepairRead(i)
    \/ Approve(Worker)
    \/ ListRepairs \/ Fix \/ Unfix \/ RepairDone \/ RepairsEnd

Next ==
    \/ \E i \in Items, o \in Owners, t \in {"preference", "procedure"} : Extract(i, o, t)
    \/ \E a \in Handlers : Request(a) \/ Promotion(a)
    \/ \E n \in Items : ListDue(n)
    \/ Maintain \/ RepairFails
    \/ \E i \in Items : Expire(i)
    \/ \E same \in SUBSET Items, fresh \in [Items -> Items] : Merge(same, fresh)
    \/ \E a \in Actors : Stop(a)

Spec == Init /\ [][Next]_vars

-----------------------------------------------------------------------------
(* Safety *)

\* A person has one confirmed memory of a kind and subject, whoever approves
\* what while memories move from the device (approve_candidate supersedes,
\* tests/test_memory_repository.py).
OneFactPerSlot ==
    \A i, k \in Items :
        (mem[i] = "confirmed" /\ mem[k] = "confirmed" /\ owner[i] = owner[k] /\ kind[i] = kind[k])
            => i = k

\* What makes it inductive: the moves of a merge never meet a memory that is
\* there already, because nothing undecided has a memory; and whoever is in the
\* middle of something has an item in hand.
UndecidedUnknown == \A i \in Items : cand[i] \in {"none", "candidate"} => mem[i] = "none"

InHand == \A a \in Actors : item[a] = 0 => pc[a] \in {"idle", "confirm", "repair"}

IInv == TypeOK /\ OneFactPerSlot /\ UndecidedUnknown /\ InHand

\* Memories that can be found: in the index, about to be put there by whoever
\* confirmed them, or queued for repair - or left behind by an approval that was
\* stopped between its commit and its index.
Findable ==
    indexed \cup repairs \cup broken \cup
        {i \in Items : \E a \in Actors : item[a] = i /\ pc[a] \in {"index", "queue", "indexPromotion"}}

\* What is confirmed can be found, unless it was promoted to a domain and the index
\* raised then, where approve_domain_promotion queues no repair.
IndexOrRepair == \A i \in Items \ raised : mem[i] = "confirmed" => i \in Findable

\* What somebody rejected is not remembered, as long as nobody decides about the
\* same candidate at the same time.
DecisionStands == \A i \in Items \ contested : cand[i] = "rejected" => mem[i] = "none"

\* A rejection keeps the fact out of memory, and what an approval remembers can be
\* found: neither an index that fails then nor a failing repair nor what else is
\* decided meanwhile makes rows and index part for good.  Promotions whose index
\* raises are left out, and so is what becomes of forgotten memories in the index
\* (forget queues no repair either, and an upsert may come after its delete).
RecordsFollowDecisions == IndexOrRepair /\ DecisionStands

\* What somebody has decided is over: a memory that was forgotten never comes back,
\* although approvals of its candidate may still be under way, and a promotion is
\* decided by whichever of two administrators is first.
DecisionsAreFinal ==
    [][\A i \in Items :
        /\ mem[i] = "deleted" => mem'[i] = "deleted"
        /\ promo[i] \in {"approved", "rejected"} => promo'[i] = promo[i]]_vars

\* What makes the second inductive: a promotion is requested once, by the one who
\* made its candidate.
PromotionsFollow ==
    /\ \A i \in Items : cand[i] = "none" => promo[i] = "none"
    /\ \A a \in Actors : pc[a] = "promote" => cand[item[a]] # "none" /\ promo[item[a]] = "none"
    /\ \A a, b \in Actors : (pc[a] = "promote" /\ pc[b] = "promote" /\ item[a] = item[b]) => a = b

Decided == IInv /\ PromotionsFollow

\* What makes RecordsFollowDecisions inductive. Whoever is about to write to the index
\* has a memory in hand, a forgotten one if it is to be removed; a repair about to be
\* closed was made, or is of a memory that is not confirmed any more ...
IndexInHand ==
    /\ \A i \in repairs : mem[i] # "none"
    /\ pc[Worker] \in {"repair", "fix", "unfix", "fixed"} => \A i \in todo : mem[i] # "none"
    /\ \A a \in Actors :
        /\ pc[a] \in {"index", "queue", "indexPromotion", "fix"} => mem[item[a]] # "none"
        /\ pc[a] \in {"unindex", "unfix"} => mem[item[a]] = "deleted"
        /\ pc[a] = "fixed" => item[a] \in indexed \/ mem[item[a]] \in {"expired", "deleted"}

\* ... and what a decision has read still holds, unless it is contested.
DecisionsApart ==
    \A a \in Actors : pc[a] \in Deciding /\ item[a] \notin contested =>
        /\ \A b \in Actors \ {a} : pc[b] \in Deciding => item[b] # item[a]
        /\ pc[a] \in {"approve", "approvePromotion"} => cand[item[a]] # "rejected"
        /\ pc[a] \in {"reject", "rejectPromotion"} => mem[item[a]] = "none"

Followed == IndexInHand /\ DecisionsApart /\ RecordsFollowDecisions
=============================================================================

--------------------------- MODULE SwaggerSources ---------------------------
(***************************************************************************)
(* Swagger sources: how one is registered and deleted                      *)
(* (knowledge/api/app.py, knowledge/source_sync/processors.py), and how    *)
(* runs inspect it through the last good copy that the catalog keeps       *)
(* (SwaggerInspector and CatalogSwaggerCache, knowledge/swagger).          *)
(*                                                                         *)
(* A registration, a deletion and any number of inspections share the rows *)
(* of a source without a lock.  The service that publishes the document is *)
(* external: its documents are numbered in the order it published them, it *)
(* may be out of reach at any time, and it sends validators for the        *)
(* sources in Tagged.                                                      *)
(***************************************************************************)
EXTENDS Integers, Sequences, FiniteSets, SequencesExt

CONSTANTS
    Sources,        \* Swagger sources of one domain, in the order of their creation
    Auth,           \* the kind of authentication of each
    Tagged,         \* sources whose service sends an ETag or a Last-Modified
    Runs,           \* agents' runs; each inspects the domain once
    MaxDocs,        \* bound: documents a service publishes
    Steady          \* bound: sources that are registered already and stay as they are

ASSUME AuthAssumption == Auth \in [Range(Sources) -> {"none", "bearer", "basic"}]
ASSUME MaxDocsAssumption == MaxDocs \in Nat \ {0}

VARIABLES
    life,       \* knowledge_sources: no row yet, lifecycle_state, or the row is gone
    secrets,    \* encrypted_secrets: the kinds that are stored
    cache,      \* swagger_cache: the document of the row, 0 without one
    served,     \* the document the service publishes now
    making,     \* the request that creates the source: the secrets it has yet to store
    deletion,   \* the request that deletes the source, and its job
    run,        \* the inspection of each run
    best,       \* history: the newest document shown
    crossed,    \* history: sources whose copy was replaced by an older one than was shown
    late,       \* history: sources written to after they were purged
    orphaned    \* history: sources whose creation was given up half-way

rows == <<life, secrets, cache>>
ghosts == <<best, crossed, late, orphaned>>
swaggerVars == <<rows, served, making, deletion, run, ghosts>>

Ids == Range(Sources)
Kinds == {"bearer_token", "username", "password"}
Needs(s) ==
    CASE Auth[s] = "none" -> <<>>
      [] Auth[s] = "bearer" -> <<"bearer_token">>
      [] Auth[s] = "basic" -> <<"username", "password">>
Docs == 1..MaxDocs
Enabled(s) == life[s] = "active"
HasRow(s) == life[s] \in {"active", "deleting", "deleted"}

NoAnswer == [doc |-> 0, stale |-> FALSE, since |-> 0, floor |-> 0]
NewRun == [at |-> "idle", todo |-> <<>>, unread |-> <<>>, held |-> {}, base |-> 0, got |-> 0, since |-> 0, floor |-> 0,
           answers |-> [s \in Ids |-> NoAnswer]]
NotMaking == [at |-> "none", left |-> <<>>]

Documents == {0} \cup Docs
Answer == [doc : Documents, stale : BOOLEAN, since : Documents, floor : Documents]
SwaggerTypeOK ==
    /\ life \in [Ids -> {"absent", "active", "deleting", "deleted", "dropped"}]
    /\ secrets \in [Ids -> SUBSET Kinds]
    /\ cache \in [Ids -> Documents] /\ served \in [Ids -> Docs] /\ best \in [Ids -> Documents]
    /\ making \in [Ids -> [at : {"none", "secrets", "drop"}, left : Seq(Kinds)]]
    /\ deletion \in [Ids -> {"none", "marked", "queued", "unsecret", "purge", "record", "failed"}]
    /\ DOMAIN run = Runs
    /\ \A r \in Runs :
        /\ DOMAIN run[r] = DOMAIN NewRun
        /\ run[r].at \in {"idle", "secrets", "cache", "fetch", "put", "done", "failed"}
        /\ run[r].answers \in [Ids -> Answer]

SwaggerInit ==
    /\ life = [s \in Ids |-> IF s \in Steady THEN "active" ELSE "absent"]
    /\ secrets = [s \in Ids |-> IF s \in Steady THEN Range(Needs(s)) ELSE {}]
    /\ cache = [s \in Ids |-> 0]
    /\ served = [s \in Ids |-> 1]
    /\ making = [s \in Ids |-> NotMaking]
    /\ deletion = [s \in Ids |-> "none"]
    /\ run = [r \in Runs |-> NewRun]
    /\ best = [s \in Ids |-> 0]
    /\ crossed = {} /\ late = {} /\ orphaned = {}

-----------------------------------------------------------------------------
(* Registration: the row, then one secret after the other *)

Register(s) ==
    /\ life[s] = "absent"
    /\ life' = [life EXCEPT ![s] = "active"]
    /\ making' = [making EXCEPT ![s] = IF Needs(s) = <<>> THEN NotMaking ELSE [at |-> "secrets", left |-> Needs(s)]]
    /\ UNCHANGED <<secrets, cache, served, deletion, run, ghosts>>

\* _set_encrypted_secret: its row refers to the source's.
StoreSecret(s) ==
    LET left == making[s].left IN
    /\ making[s].at = "secrets" /\ HasRow(s)
    /\ secrets' = [secrets EXCEPT ![s] = @ \cup {Head(left)}]
    /\ making' = [making EXCEPT ![s] = IF Len(left) = 1 THEN NotMaking ELSE [at |-> "secrets", left |-> Tail(left)]]
    /\ late' = IF deletion[s] = "record" \/ life[s] = "deleted" THEN late \cup {s} ELSE late
    /\ UNCHANGED <<life, cache, served, deletion, run, best, crossed, orphaned>>

SecretFails(s) ==
    /\ making[s].at = "secrets"
    /\ making' = [making EXCEPT ![s] = [at |-> "drop", left |-> <<>>]]
    /\ UNCHANGED <<rows, served, deletion, run, ghosts>>

\* Mutant: the request gives up without taking the source back.
DropNothing(s) ==
    /\ making[s].at = "drop"
    /\ making' = [making EXCEPT ![s] = NotMaking]
    /\ UNCHANGED <<rows, served, deletion, run, ghosts>>

\* delete_source: everything that refers to the row goes with it, its jobs too.
Drop(s) ==
    /\ making[s].at = "drop"
    /\ life' = [life EXCEPT ![s] = "dropped"]
    /\ secrets' = [secrets EXCEPT ![s] = {}]
    /\ cache' = [cache EXCEPT ![s] = 0]
    /\ deletion' = [deletion EXCEPT ![s] = "none"]
    /\ making' = [making EXCEPT ![s] = NotMaking]
    /\ UNCHANGED <<served, run, ghosts>>

\* The process stops in the middle of it, or delete_source fails too.
GiveUp(s) ==
    /\ making[s].at # "none"
    /\ making' = [making EXCEPT ![s] = NotMaking]
    /\ orphaned' = orphaned \cup {s}
    /\ UNCHANGED <<rows, served, deletion, run, best, crossed, late>>

-----------------------------------------------------------------------------
(* Deletion: the request switches the source off, a job of the worker empties it *)

JobAt(s, from, to) ==
    /\ deletion[s] = from
    /\ deletion' = [deletion EXCEPT ![s] = to]

\* admin_delete_source, unless a deletion is queued or running.
AskDeletion(s) ==
    /\ life[s] \in {"active", "deleting"} /\ deletion[s] \in {"none", "failed"}
    /\ life' = [life EXCEPT ![s] = "deleting"]
    /\ deletion' = [deletion EXCEPT ![s] = "marked"]
    /\ UNCHANGED <<secrets, cache, served, making, run, ghosts>>

EnqueueDeletion(s) == JobAt(s, "marked", "queued") /\ UNCHANGED <<rows, served, making, run, ghosts>>
ClaimDeletion(s) == JobAt(s, "queued", "unsecret") /\ UNCHANGED <<rows, served, making, run, ghosts>>

\* secret_store.delete_all
DeleteSecrets(s) ==
    /\ JobAt(s, "unsecret", "purge")
    /\ secrets' = [secrets EXCEPT ![s] = {}]
    /\ UNCHANGED <<life, cache, served, making, run, ghosts>>

\* Mutant: the copy of the document is not among the tables that are purged.
PurgeSecrets(s) ==
    /\ JobAt(s, "purge", "record")
    /\ secrets' = [secrets EXCEPT ![s] = {}]
    /\ late' = late \ {s}
    /\ UNCHANGED <<life, cache, served, making, run, best, crossed, orphaned>>

\* purge_source_content_records, secrets included
Purge(s) ==
    /\ JobAt(s, "purge", "record")
    /\ secrets' = [secrets EXCEPT ![s] = {}]
    /\ cache' = [cache EXCEPT ![s] = 0]
    /\ late' = late \ {s}
    /\ UNCHANGED <<life, served, making, run, best, crossed, orphaned>>

RecordDeleted(s) ==
    /\ JobAt(s, "record", "none")
    /\ life' = [life EXCEPT ![s] = "deleted"]
    /\ UNCHANGED <<secrets, cache, served, making, run, ghosts>>

\* A step of it raises, or the process stops: the request is gone; the job is tried again or fails, and an administrator
\* may ask again.
DeletionFails(s) ==
    /\ \/ JobAt(s, "marked", "none")
       \/ /\ deletion[s] \in {"unsecret", "purge", "record"}
          /\ \E to \in {"queued", "failed"} : deletion' = [deletion EXCEPT ![s] = to]
    /\ UNCHANGED <<rows, served, making, run, ghosts>>

-----------------------------------------------------------------------------
(* Inspections *)

Become(r, new) == run' = [run EXCEPT ![r] = new]
Cur(r) == Head(run[r].todo)
SecretsOf(list) == FoldSeq(LAMBDA s, acc : [i \in DOMAIN Needs(s) |-> <<s, Needs(s)[i]>>] \o acc, <<>>, Reverse(list))

\* list_for_domain reads the enabled sources ...
Ask(r) ==
    LET list == SelectSeq(Sources, Enabled) IN
    /\ run[r].at = "idle" /\ list # <<>>
    /\ Become(r, [run[r] EXCEPT !.todo = list, !.unread = SecretsOf(list),
                                !.at = IF SecretsOf(list) = <<>> THEN "cache" ELSE "secrets"])
    /\ UNCHANGED <<rows, served, making, deletion, ghosts>>

\* ... and then their secrets, one by one.
ReadSecret(r) ==
    LET s == Head(run[r].unread)[1]  kind == Head(run[r].unread)[2] IN
    /\ run[r].at = "secrets"
    /\ Become(r, [run[r] EXCEPT !.unread = Tail(@), !.held = IF kind \in secrets[s] THEN @ \cup {<<s, kind>>} ELSE @,
                                !.at = IF Len(run[r].unread) = 1 THEN "cache" ELSE @])
    /\ UNCHANGED <<rows, served, making, deletion, ghosts>>

\* inspect: cache.get
ReadCache(r) ==
    /\ run[r].at = "cache"
    /\ Become(r, [run[r] EXCEPT !.at = "fetch", !.base = cache[Cur(r)], !.since = served[Cur(r)],
                                !.floor = best[Cur(r)]])
    /\ UNCHANGED <<rows, served, making, deletion, ghosts>>

\* A document is shown, and the next source is up.
Shown(r, doc, stale) ==
    [run[r] EXCEPT !.answers[Cur(r)] = [doc |-> doc, stale |-> stale, since |-> run[r].since, floor |-> run[r].floor],
                   !.todo = Tail(@), !.at = IF Len(run[r].todo) = 1 THEN "done" ELSE "cache",
                   !.base = 0, !.got = 0, !.since = 0, !.floor = 0]
Note(s, doc) == best' = [best EXCEPT ![s] = IF doc > @ THEN doc ELSE @]

Authorized(r) == \A i \in DOMAIN Needs(Cur(r)) : <<Cur(r), Needs(Cur(r))[i]>> \in run[r].held

\* _refresh: without complete credentials it raises itself, or the service does; the service answers 304 to the
\* validator of the document it still publishes.
NotModified(r) == run[r].base = served[Cur(r)] /\ Cur(r) \in Tagged

RefreshDocument(r) ==
    /\ run[r].at = "fetch" /\ Authorized(r)
    /\ IF NotModified(r) THEN Become(r, Shown(r, run[r].base, FALSE)) /\ Note(Cur(r), run[r].base)
       ELSE Become(r, [run[r] EXCEPT !.at = "put", !.got = served[Cur(r)]]) /\ UNCHANGED best
    /\ UNCHANGED <<rows, served, making, deletion, crossed, late, orphaned>>

\* Mutant: the copy is handed out as if it had just been read.
RefreshFailsSilently(r) ==
    /\ run[r].at = "fetch"
    /\ IF run[r].base = 0 THEN Become(r, [run[r] EXCEPT !.at = "failed"]) /\ UNCHANGED best
       ELSE Become(r, Shown(r, run[r].base, FALSE)) /\ Note(Cur(r), run[r].base)
    /\ UNCHANGED <<rows, served, making, deletion, crossed, late, orphaned>>

\* The service refuses, is out of reach or sends something else: the copy read before is marked as stale; without
\* one the tool fails, and leaves out the sources after this one.
RefreshFails(r) ==
    /\ run[r].at = "fetch"
    /\ IF run[r].base = 0 THEN Become(r, [run[r] EXCEPT !.at = "failed"]) /\ UNCHANGED best
       ELSE Become(r, Shown(r, run[r].base, TRUE)) /\ Note(Cur(r), run[r].base)
    /\ UNCHANGED <<rows, served, making, deletion, crossed, late, orphaned>>

\* put_swagger_cache replaces whatever copy there is by now; its row refers to the source's.
Put(r) ==
    LET s == Cur(r)  doc == run[r].got IN
    /\ run[r].at = "put" /\ HasRow(s)
    /\ cache' = [cache EXCEPT ![s] = doc]
    /\ crossed' = IF doc < best[s] THEN crossed \cup {s} ELSE crossed
    /\ late' = IF deletion[s] = "record" \/ life[s] = "deleted" THEN late \cup {s} ELSE late
    /\ Become(r, Shown(r, doc, FALSE)) /\ Note(s, doc)
    /\ UNCHANGED <<life, secrets, served, making, deletion, orphaned>>

\* A query fails, the row is gone, or the tool is cut off.
InspectionFails(r) ==
    /\ run[r].at \in {"secrets", "cache", "fetch", "put"}
    /\ Become(r, [run[r] EXCEPT !.at = "failed"])
    /\ UNCHANGED <<rows, served, making, deletion, ghosts>>

\* The service publishes another document.
PublishDocument(s) ==
    /\ served[s] < MaxDocs
    /\ served' = [served EXCEPT ![s] = @ + 1]
    /\ UNCHANGED <<rows, making, deletion, run, ghosts>>

\* Opening a citation of the source: an operation of the copy, if there is one and the source is enabled.
Detail(s) == IF Enabled(s) THEN cache[s] ELSE 0

-----------------------------------------------------------------------------
Administer(s) ==
    \/ Register(s) \/ StoreSecret(s) \/ SecretFails(s) \/ Drop(s) \/ GiveUp(s)
    \/ AskDeletion(s) \/ EnqueueDeletion(s) \/ ClaimDeletion(s) \/ DeleteSecrets(s) \/ Purge(s)
    \/ RecordDeleted(s) \/ DeletionFails(s)
Inspect(r) ==
    \/ Ask(r) \/ ReadSecret(r) \/ ReadCache(r) \/ RefreshDocument(r) \/ RefreshFails(r) \/ Put(r)
    \/ InspectionFails(r)

SwaggerNext ==
    \/ \E s \in Ids \ Steady : Administer(s) \/ PublishDocument(s)
    \/ \E r \in Runs : Inspect(r)

SwaggerSpec == SwaggerInit /\ [][SwaggerNext]_swaggerVars

-----------------------------------------------------------------------------
(* Properties *)

\* A document that is not marked as stale was published when the inspection of its source began or later, no run is
\* shown an older one, stale or not, than a run before it, and as long as the source is enabled a citation opens on the
\* document it cites or on a newer one, unless a slow inspection has put an older copy over a newer one.
AnswersAreCurrent ==
    \A r \in Runs, s \in Ids :
        LET a == run[r].answers[s] IN
        /\ ~a.stale => a.doc >= a.since
        /\ a.doc # 0 => a.doc >= a.floor \/ s \in crossed
        /\ Enabled(s) /\ s \notin crossed => Detail(s) >= a.doc

\* A deleted source keeps neither secrets nor a copy of its document, unless an inspection or the registration itself
\* that was under way has written to it after the purge.
DeletionIsClean ==
    \A s \in Ids \ late : life[s] = "deleted" => secrets[s] = {} /\ cache[s] = 0

\* A source that is enabled and whose registration is over can be authenticated for, unless the registration was
\* given up half-way.
CredentialsComplete ==
    \A s \in Ids \ orphaned : Enabled(s) /\ making[s].at = "none" => secrets[s] = Range(Needs(s))

-----------------------------------------------------------------------------
(* Why they hold *)

\* From the purge on, and not only when the job has recorded it, nothing is left.
PurgedIsClean ==
    \A s \in Ids \ late : deletion[s] = "record" \/ life[s] = "deleted" => secrets[s] = {} /\ cache[s] = 0

\* Only sources that were switched off have a job, and before its creation a source has nothing.
OffBeforeJob ==
    \A s \in Ids :
        /\ deletion[s] # "none" => ~Enabled(s)
        /\ life[s] = "absent" =>
            deletion[s] = "none" /\ making[s].at = "none" /\ secrets[s] = {} /\ cache[s] = 0 /\ best[s] = 0

\* What a registration has stored and what it has yet to store are all there is to store.
SecretsToCome ==
    \A s \in Ids : making[s].at = "secrets" =>
        /\ making[s].left # <<>>
        /\ Enabled(s) /\ s \notin orphaned => secrets[s] \cup Range(making[s].left) = Range(Needs(s))

\* The copy of an enabled source is the newest document anybody was shown, unless an older one crossed it.
CopyIsNewest ==
    \A s \in Ids :
        /\ cache[s] <= best[s]
        /\ s \notin crossed => cache[s] = best[s] \/ (cache[s] = 0 /\ ~Enabled(s))
        /\ \A r \in Runs : run[r].answers[s].doc <= best[s]

\* What an inspection has in hand: the copy it read, which is as new as what others had been shown by then, and a
\* document that is as new as the service's when it began.
InHand ==
    \A r \in Runs, s \in Ids : run[r].at \in {"fetch", "put"} /\ Cur(r) = s =>
        /\ {run[r].base, run[r].since, run[r].floor} \subseteq Documents
        /\ run[r].since <= served[s] /\ run[r].floor <= best[s] /\ run[r].base <= best[s]
        /\ run[r].base = 0 \/ run[r].base >= run[r].floor \/ s \in crossed
        /\ run[r].at = "put" => run[r].got \in Docs /\ run[r].got >= run[r].since

SwaggerIInv ==
    /\ SwaggerTypeOK /\ PurgedIsClean /\ OffBeforeJob /\ SecretsToCome /\ CredentialsComplete
    /\ CopyIsNewest /\ InHand /\ AnswersAreCurrent
=============================================================================

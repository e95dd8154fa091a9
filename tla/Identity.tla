------------------------------- MODULE Identity -------------------------------
(***************************************************************************)
(* Who a request acts as, and what becomes of a device's conversations and *)
(* memories when its user logs in and merges them into a Feishu account    *)
(* (auth/identity, service, merge, ownership, tokens, repository; the      *)
(* memory tables a merge touches).  One browser, whose requests may be in  *)
(* flight together; the memory worker and the approvals of candidates run  *)
(* beside them.                                                            *)
(***************************************************************************)
EXTENDS Integers, FiniteSets

CONSTANTS
    Requests,       \* requests; a login, its session and what a question teaches have the name of their request
    Devices, Users, Conversations,
    Nobody,
    Mixes,          \* which requests are made: see Request
    MaxInFlight,    \* bound: requests of the browser under way at once
    MaxStops        \* bound: stops of the process

\* The owner id of a device is made with a prefix that no open_id has.
ASSUME OwnersAssumption == Devices \cap Users = {} /\ Nobody \notin Devices \cup Users \cup Requests
ASSUME StopsAssumption == MaxStops \in Nat

VARIABLES
    device,     \* anonymous_devices: "none", "active", "expired", "disabled" or "deleted"
    heir,       \* anonymous_devices.merged_to_open_id
    flow,       \* oauth_login_states of each login: its device and status
    session,    \* user_sessions of each callback: user, device to merge and status
    token,      \* the personal token of each user
    owner,      \* web_conversation_owners.owner_id
    merge,      \* identity_merge_jobs.status of each device and user
    memory,     \* memory_candidates and memories: owner and status of what each question taught
    copies,     \* candidates a merge made of conflicting memories: what and whose
    job,        \* memory_extraction_jobs: owner and status
    ask,        \* the requests: kind and arguments
    database,   \* "sqlite", or "postgres", where BEGIN IMMEDIATE locks nothing
    trouble,    \* what may go wrong: devices, logins and sessions "lapse", transactions "fail", the process may "stop"
    jar,        \* the browser's cookies: its device and its session
    pc, sent,   \* where each request is, and the cookies it was sent with
    who,        \* the identity it was resolved to: owner and session
    device0,    \* the device its merge or its login is about
    class,      \* what its merge has read of each memory
    extracting, \* owner in the job the worker holds, of each question
    approving,  \* owner in the candidate an approval has read
    stops,
    moved,      \* devices whose memories a merge has moved
    late,       \* questions that acted as a device whose memories were moved before they were done
    heirs,      \* users who were given something of a device
    broken,     \* devices with a merge that overlapped another user's, or stopped half way
    disturbed   \* two requests of the browser overlapped, one was not answered, or it logged out

tables == <<device, heir, flow, session, token, owner, merge, memory, copies, job>>
fixed == <<ask, database, trouble>>
held == <<sent, who, device0, class>>
background == <<extracting, approving, stops>>
ghosts == <<moved, late, heirs, broken, disturbed>>
vars == <<tables, fixed, jar, pc, held, background, ghosts>>

Owners == Devices \cup Users
Kinds == {"ask", "codex", "login", "callback", "merge", "decline", "logout", "mint", "revoke", "none"}
Moving == {"move", "write", "transfer", "disable", "complete", "audit", "fail"}
Merging == {"begin", "start", "clear"} \cup Moving
Ended == {"done", "refused", "failed", "lost"}
Places == {"new", "resolve", "claim", "run", "state", "consume", "spend", "match", "feishu", "session", "source", "logout", "token",
           "respond"} \cup Merging \cup Ended
Kept == {"candidate", "confirmed"}
Unknown == [owner |-> Nobody, session |-> Nobody]

Kind(r) == ask[r].kind
\* A question is in a conversation, a token is of a user, and a callback names a login and whoever Feishu authenticates.
Request(a) ==
    /\ a.kind \in Kinds
    /\ a.kind \in {"ask", "codex"} => a.conv \in Conversations
    /\ a.kind \in {"codex", "callback"} => a.user \in Users
    /\ a.kind = "callback" => a.flow \in Requests
ASSUME MixesAssumption ==
    \A m \in Mixes : /\ m.database \in {"sqlite", "postgres"} /\ m.trouble \subseteq {"lapse", "fail", "stop"}
                     /\ \A r \in Requests : Request(m.ask[r])
Active(r) == pc[r] \notin {"new"} \cup Ended

Jars == [device : Devices \cup {Nobody}, session : Requests \cup {Nobody}]
TableTypeOK ==
    /\ device \in [Devices -> {"none", "active", "expired", "disabled", "deleted"}]
    /\ heir \in [Devices -> Users \cup {Nobody}]
    /\ flow \in [Requests -> [device : Devices \cup {Nobody}, status : {"none", "open", "consumed", "expired", "deleted"}]]
    /\ session \in [Requests -> [user : Users \cup {Nobody}, source : Devices \cup {Nobody},
                                 status : {"none", "active", "expired", "revoked", "deleted"}]]
    /\ token \in [Users -> {"none", "active", "revoked"}]
    /\ owner \in [Conversations -> Owners \cup {Nobody}]
    /\ merge \in [Devices \X Users -> {"none", "pending", "running", "completed", "failed"}]
MemoryTypeOK ==
    /\ memory \in [Requests -> [owner : Owners \cup {Nobody},
                                status : {"none", "candidate", "confirmed", "expired", "deleted"}]]
    /\ copies \subseteq Requests \X Users
    /\ job \in [Requests -> [owner : Owners \cup {Nobody}, status : {"none", "queued", "running", "succeeded", "failed"}]]
    /\ extracting \in [Requests -> Owners \cup {Nobody}]
    /\ approving \in [Requests -> Owners \cup {Nobody}]
RequestTypeOK ==
    /\ \A r \in Requests : Request(ask[r])
    /\ database \in {"sqlite", "postgres"} /\ trouble \subseteq {"lapse", "fail", "stop"}
    /\ jar \in Jars /\ sent \in [Requests -> Jars]
    /\ pc \in [Requests -> Places]
    /\ who \in [Requests -> [owner : Owners \cup {Nobody}, session : Requests \cup {Nobody}]]
    /\ device0 \in [Requests -> Devices \cup {Nobody}]
    /\ class \in [Requests -> [Requests -> {"none", "unique", "duplicate", "conflict"}]]
    /\ stops \in 0..MaxStops
HistoryTypeOK ==
    /\ moved \subseteq Devices /\ broken \subseteq Devices /\ late \subseteq Requests
    /\ heirs \in [Devices -> SUBSET Users]
    /\ disturbed \in BOOLEAN
TypeOK == TableTypeOK /\ MemoryTypeOK /\ RequestTypeOK /\ HistoryTypeOK

Init ==
    /\ device = [d \in Devices |-> "none"] /\ heir = [d \in Devices |-> Nobody]
    /\ flow = [r \in Requests |-> [device |-> Nobody, status |-> "none"]]
    /\ session = [r \in Requests |-> [user |-> Nobody, source |-> Nobody, status |-> "none"]]
    /\ token = [u \in Users |-> "none"]
    /\ owner = [c \in Conversations |-> Nobody]
    /\ merge = [p \in Devices \X Users |-> "none"]
    /\ memory = [r \in Requests |-> [owner |-> Nobody, status |-> "none"]] /\ copies = {}
    /\ job = [r \in Requests |-> [owner |-> Nobody, status |-> "none"]]
    /\ \E m \in Mixes : ask = m.ask /\ database = m.database /\ trouble = m.trouble
    /\ jar = [device |-> Nobody, session |-> Nobody]
    /\ pc = [r \in Requests |-> "new"]
    /\ sent = [r \in Requests |-> [device |-> Nobody, session |-> Nobody]]
    /\ who = [r \in Requests |-> Unknown]
    /\ device0 = [r \in Requests |-> Nobody]
    /\ class = [r \in Requests |-> [m \in Requests |-> "none"]]
    /\ extracting = [r \in Requests |-> Nobody] /\ approving = [r \in Requests |-> Nobody]
    /\ stops = 0
    /\ moved = {} /\ late = {} /\ heirs = [d \in Devices |-> {}] /\ broken = {} /\ disturbed = FALSE

Go(r, from, to) == pc[r] = from /\ pc' = [pc EXCEPT ![r] = to]

-----------------------------------------------------------------------------
(* Who a request acts as *)

First(r) == IF Kind(r) = "callback" THEN "consume" ELSE "resolve"
\* A login comes back once Feishu was asked; what needs a login is not asked for without one; and the mix may order two.
Sensible(r) ==
    /\ ask[r].after # Nobody => pc[ask[r].after] \in Ended
    /\ Kind(r) = "callback" => pc[ask[r].flow] = "done"
    /\ Kind(r) \in {"merge", "decline", "logout", "mint", "revoke"} => jar.session # Nobody
Send(r) ==
    /\ Kind(r) # "none" /\ Sensible(r)
    /\ Cardinality({s \in Requests : Active(s)}) < MaxInFlight
    /\ Go(r, "new", First(r))
    /\ sent' = [sent EXCEPT ![r] = jar]
    /\ disturbed' = (disturbed \/ \E s \in Requests : Active(s))
    /\ UNCHANGED <<tables, fixed, jar, who, device0, class, background, moved, late, heirs, broken>>

SignedIn(r) == sent[r].session # Nobody /\ session[sent[r].session].status = "active" /\ Kind(r) # "login"
Remembered(r) == sent[r].device # Nobody /\ device[sent[r].device] = "active"
AfterResolve(r) == CASE Kind(r) \in {"ask", "codex"} -> "claim"
                     [] Kind(r) = "login" -> "state"
                     [] Kind(r) \in {"merge", "decline"} -> "source"
                     [] Kind(r) = "logout" -> "logout"
                     [] Kind(r) \in {"mint", "revoke"} -> "token"
ActAs(r, o, x) ==
    /\ who' = [who EXCEPT ![r] = [owner |-> o, session |-> x]]
    /\ late' = IF o \in moved THEN late \cup {r} ELSE late

\* A bearer token stands alone; then the session; then the device of the cookie, or a new one.
ByToken(r) ==
    /\ Kind(r) = "codex"
    /\ IF token[ask[r].user] = "active" THEN Go(r, "resolve", "claim") /\ ActAs(r, ask[r].user, Nobody)
       ELSE Go(r, "resolve", "refused") /\ UNCHANGED <<who, late>>
    /\ UNCHANGED device
BySession(r) ==
    /\ Kind(r) # "codex" /\ SignedIn(r)
    /\ Go(r, "resolve", AfterResolve(r))
    /\ ActAs(r, session[sent[r].session].user, sent[r].session)
    /\ UNCHANGED device
\* validate_user_csrf and _require_feishu_identity refuse a device.
ByDevice(r) ==
    /\ Kind(r) # "codex" /\ ~SignedIn(r)
    /\ Go(r, "resolve", IF Kind(r) \in {"ask", "login"} THEN AfterResolve(r) ELSE "refused")
    /\ IF Remembered(r) THEN ActAs(r, sent[r].device, Nobody) /\ UNCHANGED device
       ELSE /\ \E d \in Devices : device[d] = "none"
            /\ LET d == CHOOSE e \in Devices : device[e] = "none"
               IN device' = [device EXCEPT ![d] = "active"] /\ ActAs(r, d, Nobody)
Resolve(r) ==
    /\ ByToken(r) \/ BySession(r) \/ ByDevice(r)
    /\ UNCHANGED <<heir, flow, session, token, owner, merge, memory, copies, job, fixed, jar, sent, device0, class,
                   background, moved, heirs, broken, disturbed>>

-----------------------------------------------------------------------------
(* A question: the conversation is bound to its owner, answered, and queued for extraction *)

Claim(r) ==
    LET c == ask[r].conv
        mine == owner[c] \in {Nobody, who[r].owner}
    IN
    /\ Go(r, "claim", IF mine THEN "run" ELSE "refused")
    /\ owner' = IF mine THEN [owner EXCEPT ![c] = who[r].owner] ELSE owner
    /\ UNCHANGED <<device, heir, flow, session, token, merge, memory, copies, job, fixed, jar, held, background, ghosts>>
Answer(r) ==
    /\ Go(r, "run", "respond")
    /\ job' = [job EXCEPT ![r] = [owner |-> who[r].owner, status |-> "queued"]]
    /\ UNCHANGED <<device, heir, flow, session, token, owner, merge, memory, copies, fixed, jar, held, background, ghosts>>

Touched(r, o) == late' = IF o \in moved THEN late \cup {r} ELSE late
ClaimJob(r) ==
    /\ job[r].status = "queued"
    /\ job' = [job EXCEPT ![r].status = "running"]
    /\ extracting' = [extracting EXCEPT ![r] = job[r].owner]
    /\ Touched(r, job[r].owner)
    /\ UNCHANGED <<device, heir, flow, session, token, owner, merge, memory, copies, fixed, jar, pc, held, approving, stops,
                   moved, heirs, broken, disturbed>>
\* The worker saves the candidate for the owner it read, and closes the job; or tries again until it gives up.
FinishJob(r) ==
    /\ extracting[r] # Nobody
    /\ \/ /\ memory' = [memory EXCEPT ![r] = [owner |-> extracting[r], status |-> "candidate"]]
          /\ job' = [job EXCEPT ![r].status = "succeeded"]
       \/ /\ "fail" \in trouble
          /\ \E s \in {"queued", "failed"} : job' = [job EXCEPT ![r].status = s]
          /\ UNCHANGED memory
    /\ extracting' = [extracting EXCEPT ![r] = Nobody]
    /\ UNCHANGED <<device, heir, flow, session, token, owner, merge, copies, fixed, jar, pc, held, approving, stops, ghosts>>
\* An approval reads the candidate, and in a second transaction stores the memory for the owner it read.
ReadCandidate(r) ==
    /\ memory[r].status = "candidate" /\ approving[r] = Nobody
    /\ approving' = [approving EXCEPT ![r] = memory[r].owner]
    /\ UNCHANGED <<tables, fixed, jar, pc, held, extracting, stops, ghosts>>
SameSlot(r, m, o) == memory[m].owner = o /\ memory[m].status = "confirmed" /\ ask[m].subject = ask[r].subject
Approve(r) ==
    LET o == approving[r] IN
    /\ o # Nobody
    /\ memory' = [m \in Requests |->
                    IF m = r THEN [owner |-> o, status |-> "confirmed"]
                    ELSE IF SameSlot(r, m, o) THEN [memory[m] EXCEPT !.status = "expired"]
                    ELSE memory[m]]
    /\ approving' = [approving EXCEPT ![r] = Nobody]
    /\ UNCHANGED <<device, heir, flow, session, token, owner, merge, copies, job, fixed, jar, pc, held, extracting, stops,
                   ghosts>>

-----------------------------------------------------------------------------
(* Logging in *)

BeginLogin(r) ==
    /\ Go(r, "state", "respond")
    /\ flow' = [flow EXCEPT ![r] = [device |-> who[r].owner, status |-> "open"]]
    /\ UNCHANGED <<device, heir, session, token, owner, merge, memory, copies, job, fixed, jar, held, background, ghosts>>
\* On PostgreSQL the row read is not locked, and the UPDATE that spends it looks at nothing but its id.
Consume(r) ==
    LET f == ask[r].flow
        open == flow[f].status = "open"
    IN
    /\ Go(r, "consume", IF ~open THEN "refused" ELSE IF database = "sqlite" THEN "match" ELSE "spend")
    /\ flow' = IF open /\ database = "sqlite" THEN [flow EXCEPT ![f].status = "consumed"] ELSE flow
    /\ UNCHANGED <<device, heir, session, token, owner, merge, memory, copies, job, fixed, jar, held, background, ghosts>>
Spend(r) ==
    /\ Go(r, "spend", "match")
    /\ flow' = [flow EXCEPT ![ask[r].flow].status = "consumed"]
    /\ UNCHANGED <<device, heir, session, token, owner, merge, memory, copies, job, fixed, jar, held, background, ghosts>>
Match(r) ==
    /\ Go(r, "match", IF Remembered(r) /\ sent[r].device = flow[ask[r].flow].device THEN "feishu" ELSE "refused")
    /\ device0' = [device0 EXCEPT ![r] = flow[ask[r].flow].device]
    /\ UNCHANGED <<tables, fixed, jar, sent, who, class, background, ghosts>>
\* Feishu is asked who the user is (ask[r].user).
Authenticate(r) ==
    /\ Go(r, "feishu", "session")
    /\ UNCHANGED <<tables, fixed, jar, held, background, ghosts>>
\* The session remembers the device whose data may be merged.
OpenSession(r) ==
    /\ Go(r, "session", "respond")
    /\ session' = [session EXCEPT ![r] = [user |-> ask[r].user, source |-> device0[r], status |-> "active"]]
    /\ UNCHANGED <<device, heir, flow, token, owner, merge, memory, copies, job, fixed, jar, held, background, ghosts>>
Logout(r) ==
    /\ Go(r, "logout", "respond")
    /\ session' = [session EXCEPT ![who[r].session].status = IF @ = "deleted" THEN @ ELSE "revoked"]
    /\ UNCHANGED <<device, heir, flow, token, owner, merge, memory, copies, job, fixed, jar, held, background, ghosts>>
\* A name is taken for good: the row of a revoked token keeps it.
SetToken(r, k, from, to) ==
    LET u == who[r].owner
        ok == token[u] = from
    IN /\ Kind(r) = k /\ Go(r, "token", IF ok THEN "respond" ELSE "refused")
       /\ token' = IF ok THEN [token EXCEPT ![u] = to] ELSE token
       /\ UNCHANGED <<device, heir, flow, session, owner, merge, memory, copies, job, fixed, jar, held, background, ghosts>>
Mint(r) == SetToken(r, "mint", "none", "active")
Revoke(r) == SetToken(r, "revoke", "active", "revoked")

-----------------------------------------------------------------------------
(* Merging the device's data into the account *)

Source(r) ==
    LET d == session[who[r].session].source IN
    /\ Go(r, "source", IF d = Nobody THEN "respond" ELSE IF Kind(r) = "decline" THEN "clear" ELSE "begin")
    /\ device0' = [device0 EXCEPT ![r] = d]
    /\ UNCHANGED <<tables, fixed, jar, sent, who, class, background, ghosts>>

Job(r) == <<device0[r], who[r].owner>>
Begin(r) ==
    /\ Go(r, "begin", IF merge[Job(r)] = "completed" THEN "clear" ELSE "start")
    /\ merge' = [merge EXCEPT ![Job(r)] = IF @ = "none" THEN "pending" ELSE @]
    /\ UNCHANGED <<device, heir, flow, session, token, owner, memory, copies, job, fixed, jar, held, background, ghosts>>
\* Another account's merge of the device is under way.
Contested(r) == \E s \in Requests \ {r} : pc[s] \in Moving /\ device0[s] = device0[r] /\ who[s].owner # who[r].owner
Start(r) ==
    /\ Go(r, "start", "move")
    /\ merge' = [merge EXCEPT ![Job(r)] = "running"]
    /\ broken' = IF Contested(r) THEN broken \cup {device0[r]} ELSE broken
    /\ UNCHANGED <<device, heir, flow, session, token, owner, memory, copies, job, fixed, jar, held, background,
                   moved, late, heirs, disturbed>>

\* Mutant: candidates stay with the device.
OfferedNone(m, d) == FALSE
\* Confirmed memories one by one: the same fact is there already, another one is in its slot, or neither.
Confirmed(m, o) == memory[m] = [owner |-> o, status |-> "confirmed"]
\* Mutant: what the account has in the slot is not looked for.
ClassifyFacts(d, u) ==
    [m \in Requests |-> IF ~Confirmed(m, d) THEN "none"
                        ELSE IF \E k \in Requests : Confirmed(k, u) /\ ask[k].fact = ask[m].fact THEN "duplicate"
                        ELSE "unique"]
Classify(d, u) ==
    [m \in Requests |->
        IF ~Confirmed(m, d) THEN "none"
        ELSE IF \E k \in Requests : Confirmed(k, u) /\ ask[k].fact = ask[m].fact THEN "duplicate"
        ELSE IF \E k \in Requests : Confirmed(k, u) /\ ask[k].subject = ask[m].subject THEN "conflict"
        ELSE "unique"]
Offered(m, d) == memory[m] = [owner |-> d, status |-> "candidate"]
\* A conflict is offered to the account as a candidate; candidates and jobs change hands as they are.
MoveMemory(r, c) ==
    LET d == device0[r]
        u == who[r].owner
    IN /\ memory' = [m \in Requests |->
                        IF c[m] = "unique" THEN [memory[m] EXCEPT !.owner = u]
                        ELSE IF c[m] # "none" THEN [memory[m] EXCEPT !.status = "deleted"]
                        ELSE IF Offered(m, d) THEN [memory[m] EXCEPT !.owner = u]
                        ELSE memory[m]]
       /\ copies' = copies \cup {<<m, u>> : m \in {k \in Requests : c[k] = "conflict"}}
       /\ job' = [m \in Requests |-> IF job[m].owner = d THEN [job[m] EXCEPT !.owner = u] ELSE job[m]]
       /\ moved' = moved \cup {d}
       /\ late' = late \cup {s \in Requests : \/ Active(s) /\ who[s].owner = d
                                              \/ extracting[s] = d \/ approving[s] = d
                                              \/ Confirmed(s, d) /\ c[s] = "none"}
       /\ heirs' = IF memory' # memory \/ job' # job THEN [heirs EXCEPT ![d] = @ \cup {u}] ELSE heirs
ReadMemories(r) ==
    /\ database = "postgres"
    /\ Go(r, "move", "write")
    /\ class' = [class EXCEPT ![r] = Classify(device0[r], who[r].owner)]
    /\ UNCHANGED <<tables, fixed, jar, sent, who, device0, background, ghosts>>
MergeMemories(r) ==
    /\ \/ database = "sqlite" /\ Go(r, "move", "transfer") /\ MoveMemory(r, Classify(device0[r], who[r].owner))
       \/ Go(r, "write", "transfer") /\ MoveMemory(r, class[r])
    /\ UNCHANGED <<device, heir, flow, session, token, owner, merge, fixed, jar, held, background, broken, disturbed>>
Transfer(r) ==
    LET d == device0[r]
        all == {c \in Conversations : owner[c] = d}
    IN /\ Go(r, "transfer", "disable")
       /\ owner' = [c \in Conversations |-> IF c \in all THEN who[r].owner ELSE owner[c]]
       /\ heirs' = IF all # {} THEN [heirs EXCEPT ![d] = @ \cup {who[r].owner}] ELSE heirs
       /\ late' = late \cup {s \in Requests : Active(s) /\ who[s].owner = d}
       /\ UNCHANGED <<device, heir, flow, session, token, merge, memory, copies, job, fixed, jar, held, background,
                      moved, broken, disturbed>>
Disable(r) ==
    LET d == device0[r]
        live == device[d] \in {"active", "expired"}
    IN /\ Go(r, "disable", "complete")
       /\ device' = IF live THEN [device EXCEPT ![d] = "disabled"] ELSE device
       /\ heir' = IF live THEN [heir EXCEPT ![d] = who[r].owner] ELSE heir
       /\ UNCHANGED <<flow, session, token, owner, merge, memory, copies, job, fixed, jar, held, background, ghosts>>
Complete(r) ==
    /\ Go(r, "complete", "audit")
    /\ merge' = [merge EXCEPT ![Job(r)] = "completed"]
    /\ UNCHANGED <<device, heir, flow, session, token, owner, memory, copies, job, fixed, jar, held, background, ghosts>>
Audit(r) ==
    /\ Go(r, "audit", "clear")
    /\ UNCHANGED <<tables, fixed, jar, held, background, ghosts>>
Clear(r) ==
    /\ Go(r, "clear", "respond")
    /\ session' = [session EXCEPT ![who[r].session].source = Nobody]
    /\ UNCHANGED <<device, heir, flow, token, owner, merge, memory, copies, job, fixed, jar, held, background, ghosts>>

\* From the memories to the audit an exception fails the job, even a completed one.
FailMerge(r) ==
    /\ Go(r, "fail", "failed")
    /\ merge' = [merge EXCEPT ![Job(r)] = "failed"]
    /\ UNCHANGED <<device, heir, flow, session, token, owner, memory, copies, job, fixed, jar, held, background, ghosts>>
HalfWay(r) == pc[r] \in {"transfer", "disable"}
Break(r) ==
    /\ "fail" \in trouble
    /\ pc[r] \in {"run", "feishu", "session"} \cup Merging
    /\ pc' = [pc EXCEPT ![r] = IF @ \in Moving \ {"fail"} THEN "fail" ELSE "failed"]
    /\ broken' = IF HalfWay(r) THEN broken \cup {device0[r]} ELSE broken
    /\ disturbed' = TRUE
    /\ UNCHANGED <<tables, fixed, jar, held, background, moved, late, heirs>>

-----------------------------------------------------------------------------
(* The answer sets the cookies *)

\* Mutant: the cookie of the device goes whatever the answer was.
MergedAny(r) == Kind(r) \in {"merge", "decline"}
Merged(r) == Kind(r) = "merge" /\ device0[r] # Nobody
Respond(r) ==
    /\ Go(r, "respond", "done")
    /\ jar' = CASE Kind(r) = "ask" /\ who[r].session # Nobody -> [jar EXCEPT !.session = sent[r].session]
                [] Kind(r) = "ask" /\ who[r].session = Nobody ->
                       [device |-> who[r].owner, session |-> IF sent[r].session # Nobody THEN Nobody ELSE jar.session]
                [] Kind(r) = "login" -> [jar EXCEPT !.device = who[r].owner]
                [] Kind(r) = "callback" -> [jar EXCEPT !.session = r]
                [] Merged(r) -> [jar EXCEPT !.device = Nobody]
                [] Kind(r) = "logout" -> [device |-> Nobody, session |-> Nobody]
                [] OTHER -> jar
    /\ disturbed' = (disturbed \/ Kind(r) = "logout")
    /\ UNCHANGED <<tables, fixed, held, background, moved, late, heirs, broken>>

-----------------------------------------------------------------------------
(* Time, and the end of the process *)

Lapse ==
    /\ "lapse" \in trouble
    /\ \/ \E d \in Devices : /\ device[d] = "active" /\ device' = [device EXCEPT ![d] = "expired"]
                             /\ disturbed' = TRUE /\ UNCHANGED <<flow, session>>
       \/ \E r \in Requests : /\ flow[r].status \in {"open", "consumed"} /\ flow' = [flow EXCEPT ![r].status = "expired"]
                              /\ UNCHANGED <<device, session, disturbed>>
       \/ \E r \in Requests : /\ session[r].status = "active" /\ session' = [session EXCEPT ![r].status = "expired"]
                              /\ UNCHANGED <<device, flow, disturbed>>
    /\ UNCHANGED <<heir, token, owner, merge, memory, copies, job, fixed, jar, pc, held, background, moved, late, heirs,
                   broken>>

\* What no login, session or merge refers to any more.
Forgotten(d, f, s) ==
    /\ device[d] = "expired"
    /\ \A r \in Requests : f[r].status \in {"open", "consumed"} => f[r].device # d
    /\ \A r \in Requests : s[r].status # "none" /\ s[r].status # "deleted" => s[r].source # d
    /\ \A u \in Users : merge[<<d, u>>] = "none"
CleanUp ==
    /\ flow' = [r \in Requests |-> IF flow[r].status = "expired" THEN [flow[r] EXCEPT !.status = "deleted"] ELSE flow[r]]
    /\ session' = [r \in Requests |-> IF session[r].status \in {"expired", "revoked"}
                                      THEN [session[r] EXCEPT !.status = "deleted"] ELSE session[r]]
    /\ device' = [d \in Devices |-> IF Forgotten(d, flow', session') THEN "deleted" ELSE device[d]]
\* Every request in flight is lost; the next start takes back the running jobs that are old enough, and cleans up.
Stop ==
    /\ "stop" \in trouble /\ stops < MaxStops /\ stops' = stops + 1
    /\ \E r \in Requests : pc[r] # "new"
    /\ pc' = [r \in Requests |-> IF Active(r) THEN "lost" ELSE pc[r]]
    /\ \E stale \in SUBSET {r \in Requests : job[r].status = "running"} :
           job' = [r \in Requests |-> IF r \in stale THEN [job[r] EXCEPT !.status = "queued"] ELSE job[r]]
    /\ extracting' = [r \in Requests |-> Nobody] /\ approving' = [r \in Requests |-> Nobody]
    /\ CleanUp
    /\ broken' = broken \cup {device0[r] : r \in {s \in Requests : HalfWay(s)}}
    /\ disturbed' = TRUE
    /\ UNCHANGED <<heir, token, owner, merge, memory, copies, fixed, jar, held, moved, late, heirs>>

Next ==
    \/ \E r \in Requests :
        \/ Send(r) \/ Resolve(r) \/ Claim(r) \/ Answer(r) \/ Respond(r)
        \/ ClaimJob(r) \/ FinishJob(r) \/ ReadCandidate(r) \/ Approve(r)
        \/ BeginLogin(r) \/ Consume(r) \/ Spend(r) \/ Match(r) \/ Authenticate(r) \/ OpenSession(r)
        \/ Logout(r) \/ Mint(r) \/ Revoke(r)
        \/ Source(r) \/ Begin(r) \/ Start(r) \/ ReadMemories(r) \/ MergeMemories(r) \/ Transfer(r) \/ Disable(r)
        \/ Complete(r) \/ Audit(r) \/ Clear(r) \/ FailMerge(r) \/ Break(r)
    \/ Lapse
    \/ Stop

-----------------------------------------------------------------------------
(* Properties *)

\* A merge that got as far as disabling the device leaves nothing of it behind: no conversation, no memory or
\* candidate, no extraction in the queue, but those of questions that already acted as the device when the merge moved
\* the memories, which nobody will ever find again (auth/merge.py:42, memory/repository.py:932).
NothingStaysBehind ==
    \A d \in Devices : heir[d] # Nobody =>
        /\ \A c \in Conversations : owner[c] = d => \E r \in late : Kind(r) = "ask" /\ ask[r].conv = c
        /\ \A r \in Requests : memory[r].owner = d /\ memory[r].status \in Kept => r \in late
        /\ \A r \in Requests : job[r].owner = d /\ job[r].status = "queued" => r \in late

\* What a device had goes to one account, whoever logs in on it and however often a merge is asked for, unless another
\* account's merge ran at the same time, a merge broke off half way, or a late question left something to a second
\* merge: the three stores are written one after the other, and the job only keeps one account from merging twice.
OneHeir ==
    \A d \in Devices :
        \/ Cardinality(heirs[d]) <= 1
        \/ d \in broken
        \/ \E r \in late : who[r].owner = d

\* What an anonymous browser had is handed over to one account, and nothing of it is forgotten.
HandedOver == NothingStaysBehind /\ OneHeir

\* A merge loses nothing and doubles nothing: a memory it deletes is kept by an account as the same fact or as a
\* candidate, and an owner has one confirmed memory in a slot.  On PostgreSQL an approval or another merge between the
\* rows it read and the rows it writes breaks this, so it is only stated of SQLite (memory/repository.py:952).
FactsSurvive ==
    database = "sqlite" =>
        /\ \A r \in Requests : memory[r].status = "deleted" =>
               \/ \E u \in Users : <<r, u>> \in copies
               \/ \E m \in Requests : /\ m # r /\ ask[m].fact = ask[r].fact
                                      /\ memory[m].owner \in Users /\ memory[m].status \in {"confirmed", "expired"}
        /\ \A r, m \in Requests : r # m /\ SameSlot(r, m, memory[r].owner) => memory[r].status # "confirmed"

\* The browser keeps hold of what it asked: while its requests come one by one and are answered, nothing expires and
\* nobody logs out, a conversation owned by a device is owned by the device of its cookie, so a cookie is only taken
\* away with the conversations moved, and only replaced by a device that owns none (auth/api.py:152, identity.py:149).
WithinReach ==
    ~disturbed /\ (\A r \in Requests : ~Active(r)) =>
        \A c \in Conversations : owner[c] \in Devices => owner[c] = jar.device

Spec == Init /\ [][Next]_vars
=============================================================================

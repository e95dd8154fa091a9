---------------------------- MODULE IdentityProofs ----------------------------
(***************************************************************************)
(* Proofs about Identity, for any requests, devices, users, conversations  *)
(* and bounds: the parts of IdentityInv are an inductive invariant (one    *)
(* lemma each, cut along the actions), and the three properties follow     *)
(* from it.  Where a part only changes in a few actions, a lemma states    *)
(* what keeps it and the others are shown to do that.                      *)
(***************************************************************************)
EXTENDS IdentityInv, FiniteSetTheorems, TLAPS

\* The types of single variables, which the lemmas below name one by one.
LEMMA Types ==
  ASSUME TypeOK
  PROVE  /\ approving \in [Requests -> Owners \cup {Nobody}]
         /\ class \in [Requests -> [Requests -> {"none", "unique", "duplicate", "conflict"}]]
         /\ device \in [Devices -> {"none", "active", "expired", "disabled", "deleted"}]
         /\ device0 \in [Requests -> Devices \cup {Nobody}]
         /\ extracting \in [Requests -> Owners \cup {Nobody}]
         /\ flow \in [Requests -> [device : Devices \cup {Nobody}, status : {"none", "open", "consumed", "expired", "deleted"}]]
         /\ jar \in Jars
         /\ job \in [Requests -> [owner : Owners \cup {Nobody}, status : {"none", "queued", "running", "succeeded", "failed"}]]
         /\ late \subseteq Requests
         /\ memory \in [Requests -> [owner : Owners \cup {Nobody}, status : {"none", "candidate", "confirmed", "expired", "deleted"}]]
         /\ merge \in [Devices \X Users -> {"none", "pending", "running", "completed", "failed"}]
         /\ pc \in [Requests -> Places]
         /\ \A r \in Requests : Request(ask[r])
         /\ sent \in [Requests -> Jars]
         /\ session \in [Requests -> [user : Users \cup {Nobody}, source : Devices \cup {Nobody}, status : {"none", "active", "expired", "revoked", "deleted"}]]
         /\ who \in [Requests -> [owner : Owners \cup {Nobody}, session : Requests \cup {Nobody}]]
BY DEF TypeOK, TableTypeOK, MemoryTypeOK, RequestTypeOK, HistoryTypeOK

-----------------------------------------------------------------------------
(* What the code does with a request, in the words of the invariant *)

\* The identities a request can be resolved to.
LEMMA ResolveCases ==
  ASSUME NEW r \in Requests, Resolve(r), OnCourse, Identified, TableTypeOK, RequestTypeOK
  PROVE  /\ pc[r] = "resolve" /\ who[r] = Unknown
         /\ \E p \in {"claim", "state", "source", "logout", "token", "refused"} :
               /\ pc' = [pc EXCEPT ![r] = p]
               /\ p = "claim" => Kind(r) \in {"ask", "codex"}
               /\ p = "state" => Kind(r) = "login"
               /\ p = "source" => Kind(r) \in {"merge", "decline"}
               /\ p \in {"logout", "token"} => Kind(r) \in {"logout", "mint", "revoke"}
               /\ \/ p = "refused" /\ UNCHANGED <<who, late, device>>
                  \/ /\ Kind(r) = "codex" /\ ask[r].user \in Users /\ ActAs(r, ask[r].user, Nobody) /\ device' = device
                  \/ /\ Kind(r) \notin {"codex", "login"}
                     /\ sent[r].session \in Requests /\ session[sent[r].session].status = "active"
                     /\ ActAs(r, session[sent[r].session].user, sent[r].session) /\ device' = device
                  \/ /\ Kind(r) # "codex" /\ p \in {"claim", "state", "refused"}
                     /\ \E d \in Devices :
                           /\ ActAs(r, d, Nobody)
                           /\ \/ d = sent[r].device /\ device[d] = "active" /\ device' = device
                              \/ ~Remembered(r) /\ device[d] = "none" /\ device' = [device EXCEPT ![d] = "active"]
         /\ UNCHANGED <<heir, flow, session, token, owner, merge, memory, copies, job, fixed, jar, sent, device0, class,
                        background, moved, heirs, broken, disturbed>>
<1>0. /\ Kind(r) \notin {"callback", "none"} /\ Kind(r) \in Kinds /\ sent[r] \in Jars
      /\ pc[r] = "resolve" /\ who[r] = Unknown
      /\ UNCHANGED <<heir, flow, session, token, owner, merge, memory, copies, job, fixed, jar, sent, device0, class,
                     background, moved, heirs, broken, disturbed>>
  BY DEF Resolve, ByToken, BySession, ByDevice, Go, OnCourse, Identified, RequestTypeOK, Request, Kind
<1>1. AfterResolve(r) \in {"claim", "state", "source", "logout", "token"}
      /\ (AfterResolve(r) = "claim" => Kind(r) \in {"ask", "codex"}) /\ (AfterResolve(r) = "state" => Kind(r) = "login")
      /\ (AfterResolve(r) = "source" => Kind(r) \in {"merge", "decline"})
      /\ (AfterResolve(r) \in {"logout", "token"} => Kind(r) \in {"logout", "mint", "revoke"})
      /\ (Kind(r) \in {"ask", "login"} => AfterResolve(r) \in {"claim", "state"})
  BY <1>0 DEF AfterResolve, Kinds
<1>2. CASE ByToken(r)
  <2>1. ask[r].user \in Users
    BY <1>2 DEF ByToken, RequestTypeOK, Request, Kind
  <2> QED BY <1>2, <1>0, <2>1 DEF ByToken, Go
<1>3. CASE BySession(r)
  <2>1. sent[r].session \in Requests
    BY <1>3, <1>0 DEF BySession, SignedIn, Jars
  <2> QED BY <1>3, <1>0, <1>1, <2>1 DEF BySession, SignedIn, Go
<1>4. CASE ByDevice(r)
  <2> DEFINE p == IF Kind(r) \in {"ask", "login"} THEN AfterResolve(r) ELSE "refused"
             e == CHOOSE d \in Devices : device[d] = "none"
  <2>1. p \in {"claim", "state", "refused"} /\ pc' = [pc EXCEPT ![r] = p] /\ Kind(r) # "codex"
    BY <1>4, <1>1 DEF ByDevice, Go
  <2>2. CASE Remembered(r)
    <3>1. sent[r].device \in Devices
      BY <1>0, <2>2 DEF Remembered, Jars
    <3> QED BY <1>4, <1>0, <1>1, <2>1, <2>2, <3>1 DEF ByDevice, Remembered
  <2>3. CASE ~Remembered(r)
    <3>1. ActAs(r, e, Nobody) /\ device' = [device EXCEPT ![e] = "active"] /\ \E d \in Devices : device[d] = "none"
      BY <1>4, <2>3 DEF ByDevice
    <3>2. e \in Devices /\ device[e] = "none"
      BY <3>1
    <3> HIDE DEF e
    <3> QED BY <1>0, <1>1, <2>1, <2>3, <3>1, <3>2
  <2> QED BY <2>2, <2>3
<1> QED BY <1>2, <1>3, <1>4 DEF Resolve

\* A merge of the memories, with what it has read.
LEMMA MergeMoves ==
  ASSUME NEW r \in Requests, MergeMemories(r), OnCourse, Identified, RequestTypeOK
  PROVE  \E c \in [Requests -> {"none", "unique", "duplicate", "conflict"}] :
            /\ MoveMemory(r, c)
            /\ \/ pc[r] = "move" /\ database = "sqlite" /\ c = Classify(device0[r], who[r].owner)
               \/ pc[r] = "write" /\ database = "postgres" /\ c = class[r]
            /\ pc' = [pc EXCEPT ![r] = "transfer"]
            /\ device0[r] \in Devices /\ who[r].owner \in Users
            /\ UNCHANGED <<device, heir, flow, session, token, owner, merge, fixed, jar, held, background, broken, disturbed>>
<1>1. device0[r] \in Devices /\ who[r].owner \in Users
  BY DEF MergeMemories, Go, Identified, RequestTypeOK, Merging, Moving
<1>2. Classify(device0[r], who[r].owner) \in [Requests -> {"none", "unique", "duplicate", "conflict"}]
  BY DEF Classify
<1>3. class[r] \in [Requests -> {"none", "unique", "duplicate", "conflict"}]
  BY DEF RequestTypeOK
<1>4. UNCHANGED <<device, heir, flow, session, token, owner, merge, fixed, jar, held, background, broken, disturbed>>
  BY DEF MergeMemories
<1>5. CASE database = "sqlite" /\ Go(r, "move", "transfer") /\ MoveMemory(r, Classify(device0[r], who[r].owner))
  BY <1>1, <1>2, <1>4, <1>5 DEF Go
<1>6. CASE Go(r, "write", "transfer") /\ MoveMemory(r, class[r])
  BY <1>1, <1>3, <1>4, <1>6 DEF Go, OnCourse
<1> QED BY <1>5, <1>6 DEF MergeMemories

LEMMA ResolveFrame ==
  ASSUME NEW r \in Requests, Resolve(r), OnCourse, Identified, TableTypeOK, RequestTypeOK
  PROVE  /\ \A s \in Requests : s # r => pc'[s] = pc[s] /\ who'[s] = who[s]
         /\ pc[r] = "resolve" /\ pc'[r] \in {"claim", "state", "source", "logout", "token", "refused"}
         /\ who[r] = Unknown
         /\ late' \in {late, late \cup {r}} /\ (who'[r].owner \in moved => r \in late' \/ who'[r].owner = Nobody)
         /\ \A d \in Devices : device'[d] = device[d] \/ device[d] = "none"
<1>1. /\ pc[r] = "resolve" /\ who[r] = Unknown
      /\ \E p \in {"claim", "state", "source", "logout", "token", "refused"} : pc' = [pc EXCEPT ![r] = p]
  BY ResolveCases
<1>2. /\ \A s \in Requests : s # r => pc'[s] = pc[s]
      /\ pc'[r] \in {"claim", "state", "source", "logout", "token", "refused"}
  BY <1>1 DEF RequestTypeOK
<1>3. ASSUME NEW o, NEW x, ActAs(r, o, x)
      PROVE  /\ \A s \in Requests : s # r => who'[s] = who[s]
             /\ late' \in {late, late \cup {r}} /\ (who'[r].owner \in moved => r \in late')
  BY <1>3 DEF ActAs, RequestTypeOK
<1>4. \A d \in Devices : device'[d] = device[d] \/ device[d] = "none"
  BY ResolveCases DEF TableTypeOK
<1>5. ASSUME UNCHANGED <<who, late, device>>
      PROVE  late' \in {late, late \cup {r}} /\ who'[r].owner = Nobody
  BY <1>1, <1>5 DEF Unknown
<1>6. \/ UNCHANGED <<who, late, device>>
      \/ \E o, x : ActAs(r, o, x)
  BY ResolveCases
<1> QED BY <1>1, <1>2, <1>3, <1>4, <1>5, <1>6

LEMMA MoveFrame ==
  ASSUME NEW r \in Requests, MergeMemories(r), OnCourse, Identified, TypeOK
  PROVE  /\ pc[r] \in {"move", "write"} /\ pc' = [pc EXCEPT ![r] = "transfer"]
         /\ device0[r] \in Devices /\ who[r].owner \in Users
         /\ moved' = moved \cup {device0[r]} /\ late \subseteq late'
         /\ UNCHANGED <<ask, owner, who, device0, broken, heir, extracting, approving, database, class>>
         /\ heirs' \in {heirs, [heirs EXCEPT ![device0[r]] = @ \cup {who[r].owner}]}
<1>1. PICK c \in [Requests -> {"none", "unique", "duplicate", "conflict"}] :
            /\ MoveMemory(r, c)
            /\ pc[r] \in {"move", "write"}
            /\ pc' = [pc EXCEPT ![r] = "transfer"]
            /\ device0[r] \in Devices /\ who[r].owner \in Users
            /\ UNCHANGED <<device, heir, flow, session, token, owner, merge, fixed, jar, held, background, broken, disturbed>>
  BY MergeMoves DEF TypeOK
<1> QED BY <1>1 DEF MoveMemory, fixed, held, background

-----------------------------------------------------------------------------
(* Types *)

LEMMA ResolveTypes ==
  ASSUME NEW r \in Requests, Resolve(r), OnCourse, Identified, Credentials, TypeOK
  PROVE  TypeOK'
<1>1. /\ pc[r] = "resolve"
      /\ UNCHANGED <<heir, flow, session, token, owner, merge, memory, copies, job, fixed, jar, sent, device0, class,
                     background, moved, heirs, broken, disturbed>>
  BY ResolveCases DEF TypeOK
<1>2. pc' \in [Requests -> Places] /\ device' \in [Devices -> {"none", "active", "expired", "disabled", "deleted"}]
  <2>1. \E p \in {"claim", "state", "source", "logout", "token", "refused"} : pc' = [pc EXCEPT ![r] = p]
    BY ResolveCases DEF TypeOK
  <2>2. \/ device' = device
        \/ \E d \in Devices : device' = [device EXCEPT ![d] = "active"]
    BY ResolveCases DEF TypeOK
  <2>3. pc' \in [Requests -> Places]
    BY <2>1 DEF TypeOK, RequestTypeOK, Places, Ended
  <2> QED BY <2>2, <2>3 DEF TypeOK, TableTypeOK
<1>3. /\ who' \in [Requests -> [owner : Owners \cup {Nobody}, session : Requests \cup {Nobody}]]
      /\ late' \subseteq Requests
  <2>1. /\ who \in [Requests -> [owner : Owners \cup {Nobody}, session : Requests \cup {Nobody}]]
        /\ late \subseteq Requests
    BY DEF TypeOK, RequestTypeOK, HistoryTypeOK
  <2>2. ASSUME NEW o \in Owners, NEW x \in Requests \cup {Nobody}, ActAs(r, o, x)
        PROVE  /\ who' \in [Requests -> [owner : Owners \cup {Nobody}, session : Requests \cup {Nobody}]]
               /\ late' \subseteq Requests
    BY <2>1, <2>2 DEF ActAs
  <2>3. \A x \in Requests : session[x].status = "active" => session[x].user \in Users
    BY DEF Credentials
  <2> QED BY <2>1, <2>2, <2>3, ResolveCases DEF TypeOK, Owners
<1> QED
  BY <1>1, <1>2, <1>3 DEF TypeOK, TableTypeOK, MemoryTypeOK, RequestTypeOK, HistoryTypeOK, fixed, background

LEMMA TablesChange ==
  ASSUME NEW r \in Requests, TableTypeOK, RequestTypeOK, OnCourse, Identified, Logout(r) \/ Clear(r) \/ Consume(r) \/ Spend(r)
  PROVE  TableTypeOK'
<1>1. CASE Logout(r)
  <2>1. who[r].session \in Requests
    BY <1>1 DEF Logout, Go, Identified, RequestTypeOK
  <2>2. session' = [session EXCEPT ![who[r].session].status = IF @ = "deleted" THEN @ ELSE "revoked"]
    BY <1>1 DEF Logout
  <2>3. session \in [Requests -> [user : Users \cup {Nobody}, source : Devices \cup {Nobody},
                                 status : {"none", "active", "expired", "revoked", "deleted"}]]
    BY DEF TableTypeOK
  <2>4. session' \in [Requests -> [user : Users \cup {Nobody}, source : Devices \cup {Nobody},
                                  status : {"none", "active", "expired", "revoked", "deleted"}]]
    BY <2>1, <2>2, <2>3
  <2> QED BY <1>1, <2>4 DEF Logout, TableTypeOK
<1>2. CASE Clear(r)
  BY <1>2 DEF Clear, TableTypeOK
<1>3. CASE Consume(r)
  BY <1>3 DEF Consume, TableTypeOK
<1>4. CASE Spend(r)
  BY <1>4 DEF Spend, TableTypeOK
<1> QED BY <1>1, <1>2, <1>3, <1>4

LEMMA LapseTypes ==
  ASSUME TableTypeOK, Lapse
  PROVE  TableTypeOK'
<1>1. /\ device' = device \/ \E d \in Devices : device' = [device EXCEPT ![d] = "expired"]
      /\ flow' = flow \/ \E s \in Requests : flow' = [flow EXCEPT ![s].status = "expired"]
      /\ session' = session \/ \E s \in Requests : session' = [session EXCEPT ![s].status = "expired"]
      /\ UNCHANGED <<heir, token, owner, merge>>
  BY DEF Lapse
<1>2. device' \in [Devices -> {"none", "active", "expired", "disabled", "deleted"}]
  BY <1>1 DEF TableTypeOK
<1>3. flow' \in [Requests -> [device : Devices \cup {Nobody}, status : {"none", "open", "consumed", "expired", "deleted"}]]
  BY <1>1 DEF TableTypeOK
<1>4. session' \in [Requests -> [user : Users \cup {Nobody}, source : Devices \cup {Nobody},
                                 status : {"none", "active", "expired", "revoked", "deleted"}]]
  <2>1. session \in [Requests -> [user : Users \cup {Nobody}, source : Devices \cup {Nobody},
                                  status : {"none", "active", "expired", "revoked", "deleted"}]]
    BY DEF TableTypeOK
  <2> QED BY <1>1, <2>1
<1> QED BY <1>1, <1>2, <1>3, <1>4 DEF TableTypeOK

LEMMA StopTypes ==
  ASSUME TableTypeOK, MemoryTypeOK, RequestTypeOK, Stop
  PROVE  TableTypeOK' /\ MemoryTypeOK' /\ RequestTypeOK'
<1>1. TableTypeOK'
  <2>1. /\ flow \in [Requests -> [device : Devices \cup {Nobody}, status : {"none", "open", "consumed", "expired", "deleted"}]]
        /\ session \in [Requests -> [user : Users \cup {Nobody}, source : Devices \cup {Nobody},
                                   status : {"none", "active", "expired", "revoked", "deleted"}]]
        /\ device \in [Devices -> {"none", "active", "expired", "disabled", "deleted"}]
    BY DEF TableTypeOK
  <2>2. /\ flow' = [r \in Requests |-> IF flow[r].status = "expired" THEN [flow[r] EXCEPT !.status = "deleted"] ELSE flow[r]]
        /\ session' = [r \in Requests |-> IF session[r].status \in {"expired", "revoked"}
                                          THEN [session[r] EXCEPT !.status = "deleted"] ELSE session[r]]
        /\ device' = [d \in Devices |-> IF Forgotten(d, flow', session') THEN "deleted" ELSE device[d]]
    BY DEF Stop, CleanUp
  <2>3. flow' \in [Requests -> [device : Devices \cup {Nobody}, status : {"none", "open", "consumed", "expired", "deleted"}]]
    BY <2>1, <2>2
  <2>4. session' \in [Requests -> [user : Users \cup {Nobody}, source : Devices \cup {Nobody},
                                  status : {"none", "active", "expired", "revoked", "deleted"}]]
    BY <2>1, <2>2
  <2>5. device' \in [Devices -> {"none", "active", "expired", "disabled", "deleted"}]
    BY <2>1, <2>2
  <2> QED BY <2>3, <2>4, <2>5 DEF Stop, TableTypeOK
<1>2. MemoryTypeOK'
  BY DEF Stop, MemoryTypeOK
<1>3. RequestTypeOK'
  BY StopsAssumption DEF Stop, RequestTypeOK, Places, Ended, fixed, held
<1> QED BY <1>1, <1>2, <1>3

LEMMA MemoryTypes ==
  ASSUME NEW r \in Requests, MemoryTypeOK, FinishJob(r) \/ ClaimJob(r) \/ Approve(r)
  PROVE  MemoryTypeOK'
<1>1. CASE FinishJob(r)
  <2>1. memory' = memory \/ memory' = [memory EXCEPT ![r] = [owner |-> extracting[r], status |-> "candidate"]]
    BY <1>1 DEF FinishJob
  <2>2. \E s \in {"succeeded", "queued", "failed"} : job' = [job EXCEPT ![r].status = s]
    BY <1>1 DEF FinishJob
  <2>3. extracting[r] \in Owners /\ extracting' = [extracting EXCEPT ![r] = Nobody] /\ UNCHANGED <<copies, approving>>
    BY <1>1 DEF FinishJob, MemoryTypeOK
  <2>4. memory' \in [Requests -> [owner : Owners \cup {Nobody}, status : {"none", "candidate", "confirmed", "expired", "deleted"}]]
    BY <2>1, <2>3 DEF MemoryTypeOK
  <2>5. job' \in [Requests -> [owner : Owners \cup {Nobody}, status : {"none", "queued", "running", "succeeded", "failed"}]]
    BY <2>2 DEF MemoryTypeOK
  <2> QED BY <2>3, <2>4, <2>5 DEF MemoryTypeOK
<1>2. CASE ClaimJob(r)
  BY <1>2 DEF ClaimJob, MemoryTypeOK
<1>3. CASE Approve(r)
  BY <1>3 DEF Approve, MemoryTypeOK
<1> QED BY <1>1, <1>2, <1>3

LEMMA MergeTypes ==
  ASSUME NEW r \in Requests, MergeMemories(r), OnCourse, Identified, TypeOK
  PROVE  MemoryTypeOK' /\ RequestTypeOK' /\ HistoryTypeOK'
<1>1. PICK c \in [Requests -> {"none", "unique", "duplicate", "conflict"}] :
         /\ MoveMemory(r, c) /\ pc' = [pc EXCEPT ![r] = "transfer"]
         /\ device0[r] \in Devices /\ who[r].owner \in Users
         /\ UNCHANGED <<device, heir, flow, session, token, owner, merge, fixed, jar, held, background, broken, disturbed>>
  BY MergeMoves DEF TypeOK
<1>2. MemoryTypeOK'
  <2>1. memory' \in [Requests -> [owner : Owners \cup {Nobody}, status : {"none", "candidate", "confirmed", "expired", "deleted"}]]
    BY <1>1 DEF MoveMemory, TypeOK, MemoryTypeOK, Owners
  <2>2. job' \in [Requests -> [owner : Owners \cup {Nobody}, status : {"none", "queued", "running", "succeeded", "failed"}]]
    BY <1>1 DEF MoveMemory, TypeOK, MemoryTypeOK, Owners
  <2>3. copies' \subseteq Requests \X Users
    BY <1>1 DEF MoveMemory, TypeOK, MemoryTypeOK
  <2> QED BY <1>1, <2>1, <2>2, <2>3 DEF TypeOK, MemoryTypeOK, background
<1>3. RequestTypeOK'
  BY <1>1 DEF TypeOK, RequestTypeOK, fixed, held, background, Places, Merging, Moving
<1>4. HistoryTypeOK'
  <2>1. heirs' \in [Devices -> SUBSET Users]
    BY <1>1 DEF MoveMemory, TypeOK, HistoryTypeOK
  <2>2. moved' \subseteq Devices /\ late' \subseteq Requests
    BY <1>1 DEF MoveMemory, TypeOK, HistoryTypeOK
  <2> QED BY <1>1, <2>1, <2>2 DEF TypeOK, HistoryTypeOK
<1> QED BY <1>2, <1>3, <1>4

\* The tables of users, devices, logins and merges hold what their columns allow.
LEMMA TableTypeOKStep ==
  ASSUME TableTypeOK, OnCourse, Identified, TypeOK, RequestTypeOK, MemoryTypeOK, Credentials,
         \A r \in Requests : Request(ask[r]), pc \in [Requests -> Places],
         who \in [Requests -> [owner : Owners \cup {Nobody}, session : Requests \cup {Nobody}]],
         device0 \in [Requests -> Devices \cup {Nobody}], jar \in Jars, sent \in [Requests -> Jars], Next
  PROVE  TableTypeOK'
<1>1. ASSUME NEW r \in Requests, Logout(r) \/ Clear(r) \/ Consume(r) \/ Spend(r) PROVE TableTypeOK'
  BY <1>1, TablesChange
<1>2. ASSUME Lapse PROVE TableTypeOK'
  BY <1>2, LapseTypes
<1>3. ASSUME NEW r \in Requests, Resolve(r) PROVE TableTypeOK'
  BY <1>3, ResolveTypes DEF TypeOK
<1>4. ASSUME Stop PROVE TableTypeOK'
  BY <1>4, StopTypes
<1> USE DEF TableTypeOK, OnCourse, Identified, Moving, Merging, Ended, Request, Owners, Unknown, Jars, Job,
         Active, Kind, tables, fixed, held, background, ghosts
<1>5. ASSUME NEW r \in Requests, Send(r) PROVE TableTypeOK'
  BY <1>5, OwnersAssumption DEF Send, Go, First
<1>6. ASSUME NEW r \in Requests, Claim(r) PROVE TableTypeOK'
  BY <1>6, OwnersAssumption DEF Claim, Go
<1>7. ASSUME NEW r \in Requests, Answer(r) PROVE TableTypeOK'
  BY <1>7, OwnersAssumption DEF Answer, Go
<1>8. ASSUME NEW r \in Requests, Respond(r) \/ ClaimJob(r) \/ FinishJob(r) \/ ReadCandidate(r)
      PROVE  TableTypeOK'
  BY <1>8, OwnersAssumption DEF Respond, Go, ClaimJob, FinishJob, ReadCandidate
<1>9. ASSUME NEW r \in Requests, Approve(r) PROVE TableTypeOK'
  BY <1>9, OwnersAssumption DEF Approve
<1>10. ASSUME NEW r \in Requests, BeginLogin(r) PROVE TableTypeOK'
  BY <1>10, OwnersAssumption DEF BeginLogin, Go
<1>11. ASSUME NEW r \in Requests, Match(r) \/ Authenticate(r) PROVE TableTypeOK'
  BY <1>11, OwnersAssumption DEF Match, Remembered, Go, Authenticate
<1>12. ASSUME NEW r \in Requests, OpenSession(r) PROVE TableTypeOK'
  BY <1>12, OwnersAssumption DEF OpenSession, Go
<1>13. ASSUME NEW r \in Requests, Mint(r) PROVE TableTypeOK'
  BY <1>13, OwnersAssumption DEF Mint, SetToken, Go
<1>14. ASSUME NEW r \in Requests, Revoke(r) PROVE TableTypeOK'
  BY <1>14, OwnersAssumption DEF Revoke, SetToken, Go
<1>15. ASSUME NEW r \in Requests, Source(r) PROVE TableTypeOK'
  BY <1>15, OwnersAssumption DEF Source, Go
<1>16. ASSUME NEW r \in Requests, Begin(r) PROVE TableTypeOK'
  BY <1>16, OwnersAssumption DEF Begin, Job, Go
<1>17. ASSUME NEW r \in Requests, Start(r) PROVE TableTypeOK'
  BY <1>17, OwnersAssumption DEF Start, Job, Contested, Go
<1>18. ASSUME NEW r \in Requests, ReadMemories(r) PROVE TableTypeOK'
  BY <1>18, OwnersAssumption DEF ReadMemories, Go
<1>19. ASSUME NEW r \in Requests, MergeMemories(r) PROVE TableTypeOK'
  BY <1>19, OwnersAssumption DEF MergeMemories, Go
<1>20. ASSUME NEW r \in Requests, Transfer(r) PROVE TableTypeOK'
  BY <1>20, OwnersAssumption DEF Transfer, Go
<1>21. ASSUME NEW r \in Requests, Disable(r) PROVE TableTypeOK'
  BY <1>21, OwnersAssumption DEF Disable, Go
<1>22. ASSUME NEW r \in Requests, Complete(r) PROVE TableTypeOK'
  BY <1>22, OwnersAssumption DEF Complete, Job, Go
<1>23. ASSUME NEW r \in Requests, Audit(r) PROVE TableTypeOK'
  BY <1>23, OwnersAssumption DEF Audit, Go
<1>24. ASSUME NEW r \in Requests, FailMerge(r) PROVE TableTypeOK'
  BY <1>24, OwnersAssumption DEF FailMerge, Job, Go
<1>25. ASSUME NEW r \in Requests, Break(r) PROVE TableTypeOK'
  BY <1>25, OwnersAssumption DEF Break, HalfWay
<1> QED
  BY <1>1, <1>2, <1>3, <1>4, <1>5, <1>6, <1>7, <1>8, <1>9, <1>10, <1>11, <1>12, <1>13, <1>14, <1>15,
     <1>16, <1>17, <1>18, <1>19, <1>20, <1>21, <1>22, <1>23, <1>24, <1>25
     DEF Next

\* So do those of the memory.
LEMMA MemoryTypeOKStep ==
  ASSUME MemoryTypeOK, OnCourse, Identified, TypeOK, TableTypeOK, RequestTypeOK,
         \A r \in Requests : Request(ask[r]), pc \in [Requests -> Places],
         who \in [Requests -> [owner : Owners \cup {Nobody}, session : Requests \cup {Nobody}]],
         device0 \in [Requests -> Devices \cup {Nobody}],
         class \in [Requests -> [Requests -> {"none", "unique", "duplicate", "conflict"}]], Next
  PROVE  MemoryTypeOK'
<1>1. ASSUME NEW r \in Requests, FinishJob(r) \/ ClaimJob(r) \/ Approve(r) PROVE MemoryTypeOK'
  BY <1>1, MemoryTypes
<1>2. ASSUME NEW r \in Requests, MergeMemories(r) PROVE MemoryTypeOK'
  BY <1>2, MergeTypes
<1>3. ASSUME Stop PROVE MemoryTypeOK'
  BY <1>3, StopTypes
<1> USE DEF MemoryTypeOK, OnCourse, Identified, Moving, Merging, Ended, Request, Owners, Unknown, Job, Active,
         Kind, tables, fixed, held, background, ghosts
<1>4. ASSUME NEW r \in Requests, Send(r) \/ Resolve(r) PROVE MemoryTypeOK'
  BY <1>4, OwnersAssumption DEF Send, Go, First, Resolve, ByToken, BySession, ByDevice, ActAs, AfterResolve
<1>5. ASSUME NEW r \in Requests, Claim(r) PROVE MemoryTypeOK'
  BY <1>5, OwnersAssumption DEF Claim, Go
<1>6. ASSUME NEW r \in Requests, Answer(r) PROVE MemoryTypeOK'
  BY <1>6, OwnersAssumption DEF Answer, Go
<1>7. ASSUME NEW r \in Requests, Respond(r) PROVE MemoryTypeOK'
  BY <1>7, OwnersAssumption DEF Respond, Go
<1>8. ASSUME NEW r \in Requests, ReadCandidate(r) PROVE MemoryTypeOK'
  BY <1>8, OwnersAssumption DEF ReadCandidate
<1>9. ASSUME NEW r \in Requests, BeginLogin(r) PROVE MemoryTypeOK'
  BY <1>9, OwnersAssumption DEF BeginLogin, Go
<1>10. ASSUME NEW r \in Requests, Consume(r) \/ Spend(r) PROVE MemoryTypeOK'
  BY <1>10, OwnersAssumption DEF Consume, Go, Spend
<1>11. ASSUME NEW r \in Requests, Match(r) \/ Authenticate(r) \/ OpenSession(r) \/ Logout(r) PROVE MemoryTypeOK'
  BY <1>11, OwnersAssumption DEF Match, Go, Authenticate, OpenSession, Logout
<1>12. ASSUME NEW r \in Requests, Mint(r) \/ Revoke(r) \/ Source(r) \/ Begin(r) PROVE MemoryTypeOK'
  BY <1>12, OwnersAssumption DEF Mint, SetToken, Go, Revoke, Source, Begin, Job
<1>13. ASSUME NEW r \in Requests, Start(r) \/ ReadMemories(r) PROVE MemoryTypeOK'
  BY <1>13, OwnersAssumption DEF Start, Job, Contested, Go, ReadMemories, Classify
<1>14. ASSUME NEW r \in Requests, Transfer(r) PROVE MemoryTypeOK'
  BY <1>14, OwnersAssumption DEF Transfer, Go
<1>15. ASSUME NEW r \in Requests, Disable(r) \/ Complete(r) \/ Audit(r) \/ Clear(r) PROVE MemoryTypeOK'
  BY <1>15, OwnersAssumption DEF Disable, Go, Complete, Job, Audit, Clear
<1>16. ASSUME NEW r \in Requests, FailMerge(r) \/ Break(r) PROVE MemoryTypeOK'
  BY <1>16, OwnersAssumption DEF FailMerge, Job, Go, Break, HalfWay
<1>17. ASSUME Lapse PROVE MemoryTypeOK'
  BY <1>17, OwnersAssumption DEF Lapse
<1> QED
  BY <1>1, <1>2, <1>3, <1>4, <1>5, <1>6, <1>7, <1>8, <1>9, <1>10, <1>11, <1>12, <1>13, <1>14, <1>15,
     <1>16, <1>17
     DEF Next

\* A request is at a place of a handler, with an identity that exists.
LEMMA RequestTypeOKStep ==
  ASSUME RequestTypeOK, OnCourse, Identified, TableTypeOK, TypeOK, MemoryTypeOK, Credentials, Next
  PROVE  RequestTypeOK'
<1>1. ASSUME NEW r \in Requests, Resolve(r) PROVE RequestTypeOK'
  BY <1>1, ResolveTypes DEF TypeOK
<1>2. ASSUME NEW r \in Requests, MergeMemories(r) PROVE RequestTypeOK'
  BY <1>2, MergeTypes
<1>3. ASSUME Stop PROVE RequestTypeOK'
  BY <1>3, StopTypes
<1> USE DEF RequestTypeOK, OnCourse, Identified, TableTypeOK, Moving, Merging, Ended, Request, Owners, Unknown,
         Jars, Places, Kinds, Active, Kind, tables, fixed, held, background, ghosts
<1>4. ASSUME NEW r \in Requests, Send(r) PROVE RequestTypeOK'
  BY <1>4, OwnersAssumption DEF Send, Go, First
<1>5. ASSUME NEW r \in Requests, Claim(r) PROVE RequestTypeOK'
  BY <1>5, OwnersAssumption DEF Claim, Go
<1>6. ASSUME NEW r \in Requests, Answer(r) PROVE RequestTypeOK'
  BY <1>6, OwnersAssumption DEF Answer, Go
<1>7. ASSUME NEW r \in Requests, Respond(r) PROVE RequestTypeOK'
  BY <1>7, OwnersAssumption DEF Respond, Go, Merged
<1>8. ASSUME NEW r \in Requests, ClaimJob(r) PROVE RequestTypeOK'
  BY <1>8, OwnersAssumption DEF ClaimJob
<1>9. ASSUME NEW r \in Requests, FinishJob(r) \/ ReadCandidate(r) PROVE RequestTypeOK'
  BY <1>9, OwnersAssumption DEF FinishJob, ReadCandidate
<1>10. ASSUME NEW r \in Requests, Approve(r) PROVE RequestTypeOK'
  BY <1>10, OwnersAssumption DEF Approve, SameSlot
<1>11. ASSUME NEW r \in Requests, BeginLogin(r) PROVE RequestTypeOK'
  BY <1>11, OwnersAssumption DEF BeginLogin, Go
<1>12. ASSUME NEW r \in Requests, Consume(r) PROVE RequestTypeOK'
  BY <1>12, OwnersAssumption DEF Consume, Go
<1>13. ASSUME NEW r \in Requests, Spend(r) PROVE RequestTypeOK'
  BY <1>13, OwnersAssumption DEF Spend, Go
<1>14. ASSUME NEW r \in Requests, Match(r) PROVE RequestTypeOK'
  BY <1>14, OwnersAssumption DEF Match, Remembered, Go
<1>15. ASSUME NEW r \in Requests, Authenticate(r) PROVE RequestTypeOK'
  BY <1>15, OwnersAssumption DEF Authenticate, Go
<1>16. ASSUME NEW r \in Requests, OpenSession(r) PROVE RequestTypeOK'
  BY <1>16, OwnersAssumption DEF OpenSession, Go
<1>17. ASSUME NEW r \in Requests, Logout(r) PROVE RequestTypeOK'
  BY <1>17, OwnersAssumption DEF Logout, Go
<1>18. ASSUME NEW r \in Requests, Mint(r) PROVE RequestTypeOK'
  BY <1>18, OwnersAssumption DEF Mint, SetToken, Go
<1>19. ASSUME NEW r \in Requests, Revoke(r) PROVE RequestTypeOK'
  BY <1>19, OwnersAssumption DEF Revoke, SetToken, Go
<1>20. ASSUME NEW r \in Requests, Source(r) PROVE RequestTypeOK'
  BY <1>20, OwnersAssumption DEF Source, Go
<1>21. ASSUME NEW r \in Requests, Begin(r) PROVE RequestTypeOK'
  BY <1>21, OwnersAssumption DEF Begin, Job, Go
<1>22. ASSUME NEW r \in Requests, Start(r) PROVE RequestTypeOK'
  BY <1>22, OwnersAssumption DEF Start, Job, Contested, Go
<1>23. ASSUME NEW r \in Requests, ReadMemories(r) PROVE RequestTypeOK'
  BY <1>23, OwnersAssumption DEF ReadMemories, Go, Classify
<1>24. ASSUME NEW r \in Requests, Transfer(r) PROVE RequestTypeOK'
  BY <1>24, OwnersAssumption DEF Transfer, Go
<1>25. ASSUME NEW r \in Requests, Disable(r) PROVE RequestTypeOK'
  BY <1>25, OwnersAssumption DEF Disable, Go
<1>26. ASSUME NEW r \in Requests, Complete(r) PROVE RequestTypeOK'
  BY <1>26, OwnersAssumption DEF Complete, Job, Go
<1>27. ASSUME NEW r \in Requests, Audit(r) PROVE RequestTypeOK'
  BY <1>27, OwnersAssumption DEF Audit, Go
<1>28. ASSUME NEW r \in Requests, Clear(r) PROVE RequestTypeOK'
  BY <1>28, OwnersAssumption DEF Clear, Go
<1>29. ASSUME NEW r \in Requests, FailMerge(r) PROVE RequestTypeOK'
  BY <1>29, OwnersAssumption DEF FailMerge, Job, Go
<1>30. ASSUME NEW r \in Requests, Break(r) PROVE RequestTypeOK'
  BY <1>30, OwnersAssumption DEF Break, HalfWay
<1>31. ASSUME Lapse PROVE RequestTypeOK'
  BY <1>31, OwnersAssumption DEF Lapse
<1> QED
  BY <1>1, <1>2, <1>3, <1>4, <1>5, <1>6, <1>7, <1>8, <1>9, <1>10, <1>11, <1>12, <1>13, <1>14, <1>15,
     <1>16, <1>17, <1>18, <1>19, <1>20, <1>21, <1>22, <1>23, <1>24, <1>25, <1>26, <1>27, <1>28, <1>29, <1>30,
     <1>31
     DEF Next

\* What is remembered for the properties is about devices, users and requests.
LEMMA HistoryTypeOKStep ==
  ASSUME HistoryTypeOK, OnCourse, Identified, TypeOK, pc \in [Requests -> Places],
         who \in [Requests -> [owner : Owners \cup {Nobody}, session : Requests \cup {Nobody}]],
         device0 \in [Requests -> Devices \cup {Nobody}], Next
  PROVE  HistoryTypeOK'
<1>1. ASSUME NEW r \in Requests, MergeMemories(r) PROVE HistoryTypeOK'
  BY <1>1, MergeTypes
<1> USE DEF HistoryTypeOK, OnCourse, Identified, Moving, Merging, Ended, Owners, Unknown, Active, Kind, tables,
         fixed, held, background, ghosts
<1>2. ASSUME NEW r \in Requests, Send(r) PROVE HistoryTypeOK'
  BY <1>2, OwnersAssumption DEF Send, Go, First
<1>3. ASSUME NEW r \in Requests, Resolve(r) PROVE HistoryTypeOK'
  BY <1>3, OwnersAssumption DEF Resolve, ByToken, BySession, ByDevice, ActAs, AfterResolve, Go
<1>4. ASSUME NEW r \in Requests, Claim(r) \/ Answer(r) PROVE HistoryTypeOK'
  BY <1>4, OwnersAssumption DEF Claim, Go, Answer
<1>5. ASSUME NEW r \in Requests, Respond(r) \/ ClaimJob(r) \/ FinishJob(r) \/ ReadCandidate(r)
      PROVE  HistoryTypeOK'
  BY <1>5, OwnersAssumption DEF Respond, Go, ClaimJob, Touched, FinishJob, ReadCandidate
<1>6. ASSUME NEW r \in Requests, Approve(r) \/ BeginLogin(r) \/ Consume(r) \/ Spend(r) PROVE HistoryTypeOK'
  BY <1>6, OwnersAssumption DEF Approve, SameSlot, BeginLogin, Go, Consume, Spend
<1>7. ASSUME NEW r \in Requests, Match(r) \/ Authenticate(r) \/ OpenSession(r) \/ Logout(r) PROVE HistoryTypeOK'
  BY <1>7, OwnersAssumption DEF Match, Go, Authenticate, OpenSession, Logout
<1>8. ASSUME NEW r \in Requests, Mint(r) \/ Revoke(r) \/ Source(r) \/ Begin(r) PROVE HistoryTypeOK'
  BY <1>8, OwnersAssumption DEF Mint, SetToken, Go, Revoke, Source, Begin, Job
<1>9. ASSUME NEW r \in Requests, Start(r) \/ ReadMemories(r) PROVE HistoryTypeOK'
  BY <1>9, OwnersAssumption DEF Start, Job, Contested, Go, ReadMemories, Classify
<1>10. ASSUME NEW r \in Requests, Transfer(r) PROVE HistoryTypeOK'
  BY <1>10, OwnersAssumption DEF Transfer, Go
<1>11. ASSUME NEW r \in Requests, Disable(r) \/ Complete(r) \/ Audit(r) \/ Clear(r) PROVE HistoryTypeOK'
  BY <1>11, OwnersAssumption DEF Disable, Go, Complete, Job, Audit, Clear
<1>12. ASSUME NEW r \in Requests, FailMerge(r) PROVE HistoryTypeOK'
  BY <1>12, OwnersAssumption DEF FailMerge, Job, Go
<1>13. ASSUME NEW r \in Requests, Break(r) PROVE HistoryTypeOK'
  BY <1>13, OwnersAssumption DEF Break, HalfWay
<1>14. ASSUME Lapse PROVE HistoryTypeOK'
  BY <1>14, OwnersAssumption DEF Lapse
<1>15. ASSUME Stop PROVE HistoryTypeOK'
  BY <1>15, OwnersAssumption DEF Stop, HalfWay
<1> QED
  BY <1>1, <1>2, <1>3, <1>4, <1>5, <1>6, <1>7, <1>8, <1>9, <1>10, <1>11, <1>12, <1>13, <1>14, <1>15
     DEF Next

-----------------------------------------------------------------------------
(* Who a request acts as *)

\* Each step leaves its request at a place of its own kind.
LEMMA OnCourseStep ==
  ASSUME OnCourse, \A r \in Requests : Request(ask[r]), pc \in [Requests -> Places], Next
  PROVE  OnCourse'
<1> USE DEF OnCourse, Moving, Merging, Ended, Request, Kinds, Active, Kind, tables, fixed, held, background,
         ghosts
<1>1. ASSUME NEW r \in Requests, Send(r) \/ Resolve(r) \/ Claim(r) \/ Answer(r) PROVE OnCourse'
  BY <1>1, OwnersAssumption DEF Send, Go, First, Resolve, ByToken, BySession, ByDevice, ActAs, AfterResolve,
         Claim, Answer
<1>2. ASSUME NEW r \in Requests, Respond(r) \/ ClaimJob(r) \/ FinishJob(r) \/ ReadCandidate(r) PROVE OnCourse'
  BY <1>2, OwnersAssumption DEF Respond, Go, ClaimJob, FinishJob, ReadCandidate
<1>3. ASSUME NEW r \in Requests, Approve(r) \/ BeginLogin(r) \/ Consume(r) \/ Spend(r) PROVE OnCourse'
  BY <1>3, OwnersAssumption DEF Approve, BeginLogin, Go, Consume, Spend
<1>4. ASSUME NEW r \in Requests, Match(r) \/ Authenticate(r) \/ OpenSession(r) \/ Logout(r) PROVE OnCourse'
  BY <1>4, OwnersAssumption DEF Match, Go, Authenticate, OpenSession, Logout
<1>5. ASSUME NEW r \in Requests, Mint(r) \/ Revoke(r) \/ Source(r) \/ Begin(r) PROVE OnCourse'
  BY <1>5, OwnersAssumption DEF Mint, SetToken, Go, Revoke, Source, Begin, Job
<1>6. ASSUME NEW r \in Requests, Start(r) \/ ReadMemories(r) \/ MergeMemories(r) \/ Transfer(r) PROVE OnCourse'
  BY <1>6, OwnersAssumption DEF Start, Job, Contested, Go, ReadMemories, MergeMemories, Transfer
<1>7. ASSUME NEW r \in Requests, Disable(r) \/ Complete(r) \/ Audit(r) \/ Clear(r) PROVE OnCourse'
  BY <1>7, OwnersAssumption DEF Disable, Go, Complete, Job, Audit, Clear
<1>8. ASSUME NEW r \in Requests, FailMerge(r) \/ Break(r) PROVE OnCourse'
  BY <1>8, OwnersAssumption DEF FailMerge, Job, Go, Break, HalfWay
<1>9. ASSUME Lapse \/ Stop PROVE OnCourse'
  BY <1>9, OwnersAssumption DEF Lapse, Stop, HalfWay
<1> QED
  BY <1>1, <1>2, <1>3, <1>4, <1>5, <1>6, <1>7, <1>8, <1>9
     DEF Next

LEMMA LogoutIdentified ==
  ASSUME NEW r \in Requests, Logout(r), OnCourse, Identified, RequestTypeOK
  PROVE  Identified'
<1>1. UNCHANGED <<who, sent, device0, ask>> /\ pc[r] = "logout" /\ pc' = [pc EXCEPT ![r] = "respond"]
  BY DEF Logout, Go, held, fixed
<1>2. Kind(r) \in {"logout", "mint", "revoke"} /\ \A s \in Requests : Kind(s)' = Kind(s)
  BY <1>1 DEF OnCourse, Kind
<1>3. pc'[r] = "respond" /\ \A s \in Requests : s # r => pc'[s] = pc[s]
  BY <1>1 DEF RequestTypeOK
<1> QED BY <1>1, <1>2, <1>3 DEF Identified, Merging, Moving

LEMMA ResolveIdentified ==
  ASSUME NEW r \in Requests, Resolve(r), OnCourse, Identified, Credentials, TableTypeOK, RequestTypeOK
  PROVE  Identified'
<1>1. /\ pc[r] = "resolve" /\ who[r] = Unknown
      /\ \A s \in Requests : s # r => pc'[s] = pc[s] /\ who'[s] = who[s]
      /\ UNCHANGED <<ask, sent, device0>>
  BY ResolveFrame, ResolveCases DEF fixed
<1>2. \A s \in Requests : Kind(s)' = Kind(s)
  BY <1>1 DEF Kind
<1>3. Kind(r) \notin {"callback", "none"}
  BY <1>1 DEF OnCourse
<1>4. ASSUME NEW o, NEW x, ActAs(r, o, x) PROVE who'[r] = [owner |-> o, session |-> x]
  BY <1>4 DEF ActAs, RequestTypeOK
<1>5. PICK p \in {"claim", "state", "source", "logout", "token", "refused"} :
          /\ pc' = [pc EXCEPT ![r] = p]
          /\ p = "claim" => Kind(r) \in {"ask", "codex"}
          /\ p = "state" => Kind(r) = "login"
          /\ p = "source" => Kind(r) \in {"merge", "decline"}
          /\ p \in {"logout", "token"} => Kind(r) \in {"logout", "mint", "revoke"}
          /\ \/ p = "refused" /\ UNCHANGED <<who, late, device>>
             \/ /\ Kind(r) = "codex" /\ ask[r].user \in Users /\ ActAs(r, ask[r].user, Nobody)
             \/ /\ Kind(r) \notin {"codex", "login"} /\ sent[r].session \in Requests /\ session[sent[r].session].status = "active"
                /\ ActAs(r, session[sent[r].session].user, sent[r].session)
             \/ /\ Kind(r) # "codex" /\ p \in {"claim", "state", "refused"}
                /\ \E d \in Devices : ActAs(r, d, Nobody)
  BY ResolveCases
<1>6. pc'[r] = p
  BY <1>5 DEF RequestTypeOK
<1>7. CASE p = "refused" /\ UNCHANGED <<who, late, device>>
  BY <1>1, <1>2, <1>3, <1>6, <1>7 DEF Identified, Unknown, Merging, Moving
<1>8. CASE Kind(r) = "codex" /\ ask[r].user \in Users /\ ActAs(r, ask[r].user, Nobody)
  <2>1. who'[r] = [owner |-> ask[r].user, session |-> Nobody] /\ p \in {"claim", "refused"}
    BY <1>4, <1>5, <1>8
  <2> QED BY <1>1, <1>2, <1>6, <1>8, <2>1, OwnersAssumption DEF Identified, Merging, Moving
<1>9. CASE /\ Kind(r) \notin {"codex", "login"} /\ sent[r].session \in Requests /\ session[sent[r].session].status = "active"
           /\ ActAs(r, session[sent[r].session].user, sent[r].session)
  <2>1. session[sent[r].session].user \in Users /\ sent[r].session # Nobody
    BY <1>9, OwnersAssumption DEF Credentials
  <2>2. who'[r] = [owner |-> session[sent[r].session].user, session |-> sent[r].session]
    BY <1>4, <1>9
  <2>3. p = "state" => FALSE
    BY <1>5, <1>9
  <2> QED BY <1>1, <1>2, <1>3, <1>5, <1>6, <1>9, <2>1, <2>2, OwnersAssumption DEF Identified, Merging, Moving
<1>10. CASE /\ Kind(r) # "codex" /\ p \in {"claim", "state", "refused"}
            /\ \E d \in Devices : ActAs(r, d, Nobody)
  <2>1. PICK d \in Devices : who'[r] = [owner |-> d, session |-> Nobody]
    BY <1>4, <1>10
  <2> QED BY <1>1, <1>2, <1>3, <1>6, <1>10, <2>1, OwnersAssumption DEF Identified, Merging, Moving
<1> QED BY <1>5, <1>7, <1>8, <1>9, <1>10

\* Only Resolve gives an identity, and of the kind the request needs.
LEMMA IdentifiedStep ==
  ASSUME Identified, OnCourse, Credentials, TableTypeOK, RequestTypeOK, \A r \in Requests : Request(ask[r]),
         pc \in [Requests -> Places],
         who \in [Requests -> [owner : Owners \cup {Nobody}, session : Requests \cup {Nobody}]],
         sent \in [Requests -> Jars], device0 \in [Requests -> Devices \cup {Nobody}],
         device \in [Devices -> {"none", "active", "expired", "disabled", "deleted"}],
         session \in [Requests -> [user : Users \cup {Nobody}, source : Devices \cup {Nobody}, status : {"none", "active", "expired", "revoked", "deleted"}]],
         flow \in [Requests -> [device : Devices \cup {Nobody}, status : {"none", "open", "consumed", "expired", "deleted"}]],
         jar \in Jars, Next
  PROVE  Identified'
<1>1. ASSUME NEW r \in Requests, Logout(r) PROVE Identified'
  BY <1>1, LogoutIdentified
<1>2. ASSUME NEW r \in Requests, Resolve(r) PROVE Identified'
  BY <1>2, ResolveIdentified
<1> USE DEF Identified, OnCourse, Credentials, Moving, Merging, Ended, Request, Owners, Unknown, Jars, Kinds,
         Active, Kind, tables, fixed, held, background, ghosts
<1>3. ASSUME NEW r \in Requests, Send(r) PROVE Identified'
  BY <1>3, OwnersAssumption DEF Send, Go, First
<1>4. ASSUME NEW r \in Requests, Claim(r) \/ Answer(r) PROVE Identified'
  BY <1>4, OwnersAssumption DEF Claim, Go, Answer
<1>5. ASSUME NEW r \in Requests, Respond(r) \/ ClaimJob(r) \/ FinishJob(r) \/ ReadCandidate(r) PROVE Identified'
  BY <1>5, OwnersAssumption DEF Respond, Go, ClaimJob, FinishJob, ReadCandidate
<1>6. ASSUME NEW r \in Requests, Approve(r) \/ BeginLogin(r) \/ Consume(r) \/ Spend(r) PROVE Identified'
  BY <1>6, OwnersAssumption DEF Approve, BeginLogin, Go, Consume, Spend
<1>7. ASSUME NEW r \in Requests, Match(r) \/ Authenticate(r) PROVE Identified'
  BY <1>7, OwnersAssumption DEF Match, Remembered, Go, Authenticate
<1>8. ASSUME NEW r \in Requests, OpenSession(r) PROVE Identified'
  BY <1>8, OwnersAssumption DEF OpenSession, Go
<1>9. ASSUME NEW r \in Requests, Mint(r) \/ Revoke(r) \/ Source(r) \/ Begin(r) PROVE Identified'
  BY <1>9, OwnersAssumption DEF Mint, SetToken, Go, Revoke, Source, Begin, Job
<1>10. ASSUME NEW r \in Requests, Start(r) \/ ReadMemories(r) \/ MergeMemories(r) \/ Transfer(r)
      PROVE  Identified'
  BY <1>10, OwnersAssumption DEF Start, Job, Contested, Go, ReadMemories, MergeMemories, Transfer
<1>11. ASSUME NEW r \in Requests, Disable(r) \/ Complete(r) \/ Audit(r) \/ Clear(r) PROVE Identified'
  BY <1>11, OwnersAssumption DEF Disable, Go, Complete, Job, Audit, Clear
<1>12. ASSUME NEW r \in Requests, FailMerge(r) \/ Break(r) PROVE Identified'
  BY <1>12, OwnersAssumption DEF FailMerge, Job, Go, Break, HalfWay
<1>13. ASSUME Lapse \/ Stop PROVE Identified'
  BY <1>13, OwnersAssumption DEF Lapse, Stop, HalfWay
<1> QED
  BY <1>1, <1>2, <1>3, <1>4, <1>5, <1>6, <1>7, <1>8, <1>9, <1>10, <1>11, <1>12, <1>13
     DEF Next

\* Logins and sessions only change their status, and none is taken back.
LEMMA CredentialsKept ==
  ASSUME Credentials, TableTypeOK, RequestTypeOK, OnCourse,
         UNCHANGED <<who, device0, ask, jar>>,
         \A r \in Requests : /\ session'[r].status # "none" <=> session[r].status # "none"
                             /\ session'[r].user = session[r].user /\ session'[r].source = session[r].source
                             /\ flow'[r].device = flow[r].device /\ (flow[r].status = "none" <=> flow'[r].status = "none")
                             /\ pc'[r] \in {"feishu", "session", "spend"} \cup Merging => pc'[r] = pc[r],
         \A d \in Devices : device[d] # "none" => device'[d] # "none"
  PROVE  Credentials'
<1>1. \A r \in Requests : /\ who[r].owner \in Owners \cup {Nobody} /\ who[r].session \in Requests \cup {Nobody}
                          /\ device0[r] \in Devices \cup {Nobody} /\ session[r].source \in Devices \cup {Nobody}
                          /\ pc[r] = "spend" => ask[r].flow \in Requests
  BY DEF TableTypeOK, RequestTypeOK, OnCourse, Request, Kind
<1>2. jar.device \in Devices \cup {Nobody}
  BY DEF RequestTypeOK, Jars
<1> QED BY <1>1, <1>2 DEF Credentials

LEMMA LapseCredentials ==
  ASSUME Lapse, Credentials, TableTypeOK, RequestTypeOK, OnCourse
  PROVE  Credentials'
<1>1. /\ UNCHANGED <<who, device0, ask, jar, pc>>
      /\ \A d \in Devices : device[d] # "none" => device'[d] # "none"
  BY DEF Lapse, fixed, held, TableTypeOK
<1>2. \A s \in Requests : /\ flow'[s].device = flow[s].device /\ (flow[s].status = "none" <=> flow'[s].status = "none")
  BY DEF Lapse, TableTypeOK
<1>3. \A s \in Requests : /\ session'[s].status # "none" <=> session[s].status # "none"
                          /\ session'[s].user = session[s].user /\ session'[s].source = session[s].source
  BY DEF Lapse, TableTypeOK
<1> QED BY <1>1, <1>2, <1>3, CredentialsKept

LEMMA ResolveCredentials ==
  ASSUME NEW r \in Requests, Resolve(r), OnCourse, Identified, Credentials, TableTypeOK, RequestTypeOK
  PROVE  Credentials'
<1>1. /\ pc[r] = "resolve" /\ who[r] = Unknown
      /\ \E p \in {"claim", "state", "source", "logout", "token", "refused"} : pc' = [pc EXCEPT ![r] = p]
      /\ UNCHANGED <<flow, session, ask, jar, sent, device0>>
  BY ResolveCases DEF fixed
<1>2. ASSUME UNCHANGED <<who, late, device>>, pc' = [pc EXCEPT ![r] = "refused"] PROVE Credentials'
  BY <1>1, <1>2 DEF Credentials, Identified, RequestTypeOK, Merging, Moving, Kind
<1>3. ASSUME NEW o \in Owners, NEW x \in Requests \cup {Nobody}, ActAs(r, o, x),
             x # Nobody => session[x].status # "none",
             o \in Devices => device'[o] # "none",
             \A d \in Devices : device[d] # "none" => device'[d] # "none"
      PROVE  Credentials'
  <2>1. who' = [who EXCEPT ![r] = [owner |-> o, session |-> x]]
    BY <1>3 DEF ActAs
  <2>2. PICK p \in {"claim", "state", "source", "logout", "token", "refused"} : pc' = [pc EXCEPT ![r] = p]
    BY <1>1
  <2>3. p \notin {"feishu", "session", "spend"} \cup Merging
    BY <2>2 DEF Merging, Moving
  <2> QED BY <1>1, <1>3, <2>1, <2>2, <2>3, OwnersAssumption DEF Credentials, RequestTypeOK, TableTypeOK, Jars
<1>4. CASE UNCHANGED <<who, late, device>>
  BY <1>1, <1>2, <1>4 DEF Credentials, Identified, RequestTypeOK, TableTypeOK, Merging, Moving, Jars
<1>5. CASE ask[r].user \in Users /\ ActAs(r, ask[r].user, Nobody) /\ device' = device
  BY <1>3, <1>5, OwnersAssumption DEF Owners
<1>6. CASE /\ sent[r].session \in Requests /\ session[sent[r].session].status = "active"
           /\ ActAs(r, session[sent[r].session].user, sent[r].session) /\ device' = device
  <2>1. session[sent[r].session].user \in Users
    BY <1>6 DEF Credentials
  <2> QED BY <1>3, <1>6, <2>1, OwnersAssumption DEF Owners
<1>7. CASE \E d \in Devices :
             /\ ActAs(r, d, Nobody)
             /\ \/ d = sent[r].device /\ device[d] = "active" /\ device' = device
                \/ ~Remembered(r) /\ device[d] = "none" /\ device' = [device EXCEPT ![d] = "active"]
  <2>1. PICK d \in Devices :
             /\ ActAs(r, d, Nobody)
             /\ \/ d = sent[r].device /\ device[d] = "active" /\ device' = device
                \/ ~Remembered(r) /\ device[d] = "none" /\ device' = [device EXCEPT ![d] = "active"]
    BY <1>7
  <2>2. device'[d] # "none" /\ \A e \in Devices : device[e] # "none" => device'[e] # "none"
    BY <2>1 DEF TableTypeOK
  <2> QED BY <1>3, <2>1, <2>2 DEF Owners
<1> QED BY <1>4, <1>5, <1>6, <1>7, ResolveCases

\* No row a request goes by is taken away before it is looked at.
LEMMA CredentialsStep ==
  ASSUME Credentials, OnCourse, Identified, TableTypeOK, RequestTypeOK, \A r \in Requests : Request(ask[r]),
         pc \in [Requests -> Places],
         who \in [Requests -> [owner : Owners \cup {Nobody}, session : Requests \cup {Nobody}]],
         sent \in [Requests -> Jars], device0 \in [Requests -> Devices \cup {Nobody}],
         device \in [Devices -> {"none", "active", "expired", "disabled", "deleted"}],
         session \in [Requests -> [user : Users \cup {Nobody}, source : Devices \cup {Nobody}, status : {"none", "active", "expired", "revoked", "deleted"}]],
         flow \in [Requests -> [device : Devices \cup {Nobody}, status : {"none", "open", "consumed", "expired", "deleted"}]],
         jar \in Jars, Next
  PROVE  Credentials'
<1>1. ASSUME Lapse PROVE Credentials'
  BY <1>1, LapseCredentials
<1>2. ASSUME NEW r \in Requests, Resolve(r) PROVE Credentials'
  BY <1>2, ResolveCredentials
<1> USE DEF Credentials, OnCourse, Identified, Moving, Merging, Ended, Request, Owners, Unknown, Jars, Active,
         Kind, tables, fixed, held, background, ghosts
<1>3. ASSUME NEW r \in Requests, Send(r) PROVE Credentials'
  BY <1>3, OwnersAssumption DEF Send, Go, First
<1>4. ASSUME NEW r \in Requests, Claim(r) \/ Answer(r) PROVE Credentials'
  BY <1>4, OwnersAssumption DEF Claim, Go, Answer
<1>5. ASSUME NEW r \in Requests, Respond(r) \/ ClaimJob(r) PROVE Credentials'
  BY <1>5, OwnersAssumption DEF Respond, Go, Merged, ClaimJob
<1>6. ASSUME NEW r \in Requests, FinishJob(r) \/ ReadCandidate(r) PROVE Credentials'
  BY <1>6, OwnersAssumption DEF FinishJob, ReadCandidate
<1>7. ASSUME NEW r \in Requests, Approve(r) PROVE Credentials'
  BY <1>7, OwnersAssumption DEF Approve
<1>8. ASSUME NEW r \in Requests, BeginLogin(r) PROVE Credentials'
  BY <1>8, OwnersAssumption DEF BeginLogin, Go
<1>9. ASSUME NEW r \in Requests, Consume(r) PROVE Credentials'
  BY <1>9, OwnersAssumption DEF Consume, Go
<1>10. ASSUME NEW r \in Requests, Spend(r) PROVE Credentials'
  BY <1>10, OwnersAssumption DEF Spend, Go
<1>11. ASSUME NEW r \in Requests, Match(r) \/ Authenticate(r) PROVE Credentials'
  BY <1>11, OwnersAssumption DEF Match, Remembered, Go, Authenticate
<1>12. ASSUME NEW r \in Requests, OpenSession(r) PROVE Credentials'
  BY <1>12, OwnersAssumption DEF OpenSession, Go
<1>13. ASSUME NEW r \in Requests, Logout(r) PROVE Credentials'
  BY <1>13, OwnersAssumption DEF Logout, Go
<1>14. ASSUME NEW r \in Requests, Mint(r) \/ Revoke(r) PROVE Credentials'
  BY <1>14, OwnersAssumption DEF Mint, SetToken, Go, Revoke
<1>15. ASSUME NEW r \in Requests, Source(r) \/ Begin(r) PROVE Credentials'
  BY <1>15, OwnersAssumption DEF Source, Go, Begin, Job
<1>16. ASSUME NEW r \in Requests, Start(r) \/ ReadMemories(r) \/ MergeMemories(r) \/ Transfer(r)
      PROVE  Credentials'
  BY <1>16, OwnersAssumption DEF Start, Job, Contested, Go, ReadMemories, MergeMemories, Transfer
<1>17. ASSUME NEW r \in Requests, Disable(r) \/ Complete(r) PROVE Credentials'
  BY <1>17, OwnersAssumption DEF Disable, Go, Complete, Job
<1>18. ASSUME NEW r \in Requests, Audit(r) PROVE Credentials'
  BY <1>18, OwnersAssumption DEF Audit, Go
<1>19. ASSUME NEW r \in Requests, Clear(r) PROVE Credentials'
  BY <1>19, OwnersAssumption DEF Clear, Go
<1>20. ASSUME NEW r \in Requests, FailMerge(r) \/ Break(r) PROVE Credentials'
  BY <1>20, OwnersAssumption DEF FailMerge, Job, Go, Break, HalfWay
<1>21. ASSUME Stop PROVE Credentials'
  BY <1>21, OwnersAssumption DEF Stop, CleanUp, Forgotten, HalfWay
<1> QED
  BY <1>1, <1>2, <1>3, <1>4, <1>5, <1>6, <1>7, <1>8, <1>9, <1>10, <1>11, <1>12, <1>13, <1>14, <1>15,
     <1>16, <1>17, <1>18, <1>19, <1>20, <1>21
     DEF Next

LEMMA ResolveOff ==
  ASSUME NEW r \in Requests, Resolve(r), OnCourse, Identified, Credentials, TableTypeOK, RequestTypeOK, MergedAreOff
  PROVE  MergedAreOff'
<1>1. /\ \A s \in Requests : s # r => pc'[s] = pc[s]
      /\ pc'[r] \in {"claim", "state", "source", "logout", "token", "refused"}
      /\ \A d \in Devices : device'[d] = device[d] \/ device[d] = "none"
  BY ResolveFrame
<1>2. merge' = merge /\ device0' = device0
  BY DEF Resolve
<1>3. \A s \in Requests : pc[s] \in {"complete", "audit"} => device0[s] \in Devices
  BY DEF Identified, RequestTypeOK, Merging, Moving
<1> QED BY <1>1, <1>2, <1>3 DEF MergedAreOff

\* A merge is completed after the device is switched off, and no device is switched on again.
LEMMA MergedAreOffStep ==
  ASSUME MergedAreOff, OnCourse, Identified, Credentials, TableTypeOK, RequestTypeOK,
         pc \in [Requests -> Places],
         who \in [Requests -> [owner : Owners \cup {Nobody}, session : Requests \cup {Nobody}]],
         device0 \in [Requests -> Devices \cup {Nobody}],
         device \in [Devices -> {"none", "active", "expired", "disabled", "deleted"}],
         merge \in [Devices \X Users -> {"none", "pending", "running", "completed", "failed"}], jar \in Jars,
         sent \in [Requests -> Jars], Next
  PROVE  MergedAreOff'
<1>1. ASSUME NEW r \in Requests, Resolve(r) PROVE MergedAreOff'
  BY <1>1, ResolveOff
<1> USE DEF MergedAreOff, OnCourse, Identified, Credentials, Moving, Merging, Ended, Owners, Unknown, Job,
         Active, Kind, tables, fixed, held, background, ghosts
<1>2. ASSUME NEW r \in Requests, Send(r) PROVE MergedAreOff'
  BY <1>2, OwnersAssumption DEF Send, Go, First
<1>3. ASSUME NEW r \in Requests, Claim(r) \/ Answer(r) PROVE MergedAreOff'
  BY <1>3, OwnersAssumption DEF Claim, Go, Answer
<1>4. ASSUME NEW r \in Requests, Respond(r) \/ ClaimJob(r) \/ FinishJob(r) \/ ReadCandidate(r)
      PROVE  MergedAreOff'
  BY <1>4, OwnersAssumption DEF Respond, Go, ClaimJob, FinishJob, ReadCandidate
<1>5. ASSUME NEW r \in Requests, Approve(r) \/ BeginLogin(r) \/ Consume(r) \/ Spend(r) PROVE MergedAreOff'
  BY <1>5, OwnersAssumption DEF Approve, BeginLogin, Go, Consume, Spend
<1>6. ASSUME NEW r \in Requests, Match(r) \/ Authenticate(r) \/ OpenSession(r) \/ Logout(r) PROVE MergedAreOff'
  BY <1>6, OwnersAssumption DEF Match, Remembered, Go, Authenticate, OpenSession, Logout
<1>7. ASSUME NEW r \in Requests, Mint(r) \/ Revoke(r) PROVE MergedAreOff'
  BY <1>7, OwnersAssumption DEF Mint, SetToken, Go, Revoke
<1>8. ASSUME NEW r \in Requests, Source(r) PROVE MergedAreOff'
  BY <1>8, OwnersAssumption DEF Source, Go
<1>9. ASSUME NEW r \in Requests, Begin(r) PROVE MergedAreOff'
  BY <1>9, OwnersAssumption DEF Begin, Job, Go
<1>10. ASSUME NEW r \in Requests, Start(r) PROVE MergedAreOff'
  BY <1>10, OwnersAssumption DEF Start, Job, Contested, Go
<1>11. ASSUME NEW r \in Requests, ReadMemories(r) PROVE MergedAreOff'
  BY <1>11, OwnersAssumption DEF ReadMemories, Go
<1>12. ASSUME NEW r \in Requests, MergeMemories(r) \/ Transfer(r) PROVE MergedAreOff'
  BY <1>12, OwnersAssumption DEF MergeMemories, Go, Transfer
<1>13. ASSUME NEW r \in Requests, Disable(r) \/ Complete(r) \/ Audit(r) \/ Clear(r) PROVE MergedAreOff'
  BY <1>13, OwnersAssumption DEF Disable, Go, Complete, Job, Audit, Clear
<1>14. ASSUME NEW r \in Requests, FailMerge(r) PROVE MergedAreOff'
  BY <1>14, OwnersAssumption DEF FailMerge, Job, Go
<1>15. ASSUME NEW r \in Requests, Break(r) PROVE MergedAreOff'
  BY <1>15, OwnersAssumption DEF Break, HalfWay
<1>16. ASSUME Lapse PROVE MergedAreOff'
  BY <1>16, OwnersAssumption DEF Lapse
<1>17. ASSUME Stop PROVE MergedAreOff'
  BY <1>17, OwnersAssumption DEF Stop, CleanUp, Forgotten, HalfWay
<1> QED
  BY <1>1, <1>2, <1>3, <1>4, <1>5, <1>6, <1>7, <1>8, <1>9, <1>10, <1>11, <1>12, <1>13, <1>14, <1>15,
     <1>16, <1>17
     DEF Next

-----------------------------------------------------------------------------
(* What a device leaves behind *)

LEMMA MergeTaught ==
  ASSUME NEW r \in Requests, MergeMemories(r), OnCourse, Identified, TypeOK, Taught
  PROVE  Taught'
<1>1. PICK c \in [Requests -> {"none", "unique", "duplicate", "conflict"}] : MoveMemory(r, c)
  BY MergeMoves DEF TypeOK
<1>2. who[r].owner \in Users /\ UNCHANGED <<who, extracting, approving>>
  BY MoveFrame
<1>3. \A m \in Requests : /\ memory'[m].owner \in {memory[m].owner, who[r].owner}
                          /\ job'[m].owner \in {job[m].owner, who[r].owner}
  BY <1>1 DEF MoveMemory, TypeOK, MemoryTypeOK
<1> QED BY <1>2, <1>3, OwnersAssumption DEF Taught

\* Whatever is done with what a question taught is done in the name of who asked, or of an account.
LEMMA TaughtStep ==
  ASSUME Taught, OnCourse, Identified, TypeOK, pc \in [Requests -> Places],
         who \in [Requests -> [owner : Owners \cup {Nobody}, session : Requests \cup {Nobody}]],
         device0 \in [Requests -> Devices \cup {Nobody}],
         memory \in [Requests -> [owner : Owners \cup {Nobody}, status : {"none", "candidate", "confirmed", "expired", "deleted"}]],
         job \in [Requests -> [owner : Owners \cup {Nobody}, status : {"none", "queued", "running", "succeeded", "failed"}]],
         extracting \in [Requests -> Owners \cup {Nobody}], approving \in [Requests -> Owners \cup {Nobody}],
         class \in [Requests -> [Requests -> {"none", "unique", "duplicate", "conflict"}]], Next
  PROVE  Taught'
<1>1. ASSUME NEW r \in Requests, MergeMemories(r) PROVE Taught'
  BY <1>1, MergeTaught
<1> USE DEF Taught, OnCourse, Identified, Moving, Merging, Ended, Owners, Unknown, Active, Kind, tables, fixed,
         held, background, ghosts
<1>2. ASSUME NEW r \in Requests, Send(r) PROVE Taught'
  BY <1>2, OwnersAssumption DEF Send, Go, First
<1>3. ASSUME NEW r \in Requests, Resolve(r) PROVE Taught'
  BY <1>3, OwnersAssumption DEF Resolve, ByToken, BySession, ByDevice, ActAs, AfterResolve, Go
<1>4. ASSUME NEW r \in Requests, Claim(r) PROVE Taught'
  BY <1>4, OwnersAssumption DEF Claim, Go
<1>5. ASSUME NEW r \in Requests, Answer(r) PROVE Taught'
  BY <1>5, OwnersAssumption DEF Answer, Go
<1>6. ASSUME NEW r \in Requests, Respond(r) PROVE Taught'
  BY <1>6, OwnersAssumption DEF Respond, Go
<1>7. ASSUME NEW r \in Requests, ClaimJob(r) PROVE Taught'
  BY <1>7, OwnersAssumption DEF ClaimJob
<1>8. ASSUME NEW r \in Requests, FinishJob(r) PROVE Taught'
  BY <1>8, OwnersAssumption DEF FinishJob
<1>9. ASSUME NEW r \in Requests, ReadCandidate(r) PROVE Taught'
  BY <1>9, OwnersAssumption DEF ReadCandidate
<1>10. ASSUME NEW r \in Requests, Approve(r) PROVE Taught'
  BY <1>10, OwnersAssumption DEF Approve, SameSlot
<1>11. ASSUME NEW r \in Requests, BeginLogin(r) PROVE Taught'
  BY <1>11, OwnersAssumption DEF BeginLogin, Go
<1>12. ASSUME NEW r \in Requests, Consume(r) \/ Spend(r) PROVE Taught'
  BY <1>12, OwnersAssumption DEF Consume, Go, Spend
<1>13. ASSUME NEW r \in Requests, Match(r) \/ Authenticate(r) \/ OpenSession(r) \/ Logout(r) PROVE Taught'
  BY <1>13, OwnersAssumption DEF Match, Go, Authenticate, OpenSession, Logout
<1>14. ASSUME NEW r \in Requests, Mint(r) \/ Revoke(r) \/ Source(r) \/ Begin(r) PROVE Taught'
  BY <1>14, OwnersAssumption DEF Mint, SetToken, Go, Revoke, Source, Begin, Job
<1>15. ASSUME NEW r \in Requests, Start(r) \/ ReadMemories(r) PROVE Taught'
  BY <1>15, OwnersAssumption DEF Start, Job, Contested, Go, ReadMemories, Classify
<1>16. ASSUME NEW r \in Requests, Transfer(r) PROVE Taught'
  BY <1>16, OwnersAssumption DEF Transfer, Go
<1>17. ASSUME NEW r \in Requests, Disable(r) \/ Complete(r) \/ Audit(r) \/ Clear(r) PROVE Taught'
  BY <1>17, OwnersAssumption DEF Disable, Go, Complete, Job, Audit, Clear
<1>18. ASSUME NEW r \in Requests, FailMerge(r) \/ Break(r) PROVE Taught'
  BY <1>18, OwnersAssumption DEF FailMerge, Job, Go, Break, HalfWay
<1>19. ASSUME Lapse PROVE Taught'
  BY <1>19, OwnersAssumption DEF Lapse
<1>20. ASSUME Stop PROVE Taught'
  BY <1>20, OwnersAssumption DEF Stop, HalfWay
<1> QED
  BY <1>1, <1>2, <1>3, <1>4, <1>5, <1>6, <1>7, <1>8, <1>9, <1>10, <1>11, <1>12, <1>13, <1>14, <1>15,
     <1>16, <1>17, <1>18, <1>19, <1>20
     DEF Next

LEMMA ResolveLate ==
  ASSUME NEW r \in Requests, Resolve(r), OnCourse, Identified, TypeOK, OnlyLate
  PROVE  OnlyLate'
<1>1. /\ \A s \in Requests : s # r => pc'[s] = pc[s] /\ who'[s] = who[s]
      /\ late' \in {late, late \cup {r}} /\ (who'[r].owner \in moved => r \in late' \/ who'[r].owner = Nobody)
  BY ResolveFrame DEF TypeOK
<1>2. UNCHANGED <<moved, memory, job, extracting, approving>>
  BY DEF Resolve, background
<1>3. moved \subseteq Devices
  BY DEF TypeOK, HistoryTypeOK
<1>4. ASSUME NEW d \in moved, NEW s \in Requests, InTheNameOf(s, d)' PROVE s \in late'
  <2>1. CASE InTheNameOf(s, d)
    BY <1>1, <1>4, <2>1 DEF OnlyLate
  <2>2. CASE ~InTheNameOf(s, d)
    <3>1. who'[s].owner = d /\ s = r
      BY <1>1, <1>2, <1>4, <2>2 DEF InTheNameOf, Active
    <3> QED BY <1>1, <1>3, <1>4, <3>1, OwnersAssumption
  <2> QED BY <2>1, <2>2
<1> QED BY <1>2, <1>4 DEF OnlyLate

LEMMA MergeLate ==
  ASSUME NEW r \in Requests, MergeMemories(r), OnCourse, Identified, TypeOK, OnlyLate
  PROVE  OnlyLate'
<1>1. PICK c \in [Requests -> {"none", "unique", "duplicate", "conflict"}] : MoveMemory(r, c)
  BY MergeMoves DEF TypeOK
<1>2. /\ pc[r] \in {"move", "write"} /\ pc' = [pc EXCEPT ![r] = "transfer"]
      /\ device0[r] \in Devices /\ who[r].owner \in Users
      /\ moved' = moved \cup {device0[r]} /\ late \subseteq late'
      /\ UNCHANGED <<who, extracting, approving>>
  BY MoveFrame
<1>3. moved \subseteq Devices
  BY DEF TypeOK, HistoryTypeOK
<1>4. \A s \in Requests : Active(s)' => Active(s)
  BY <1>2 DEF Active, Ended, TypeOK, RequestTypeOK
<1>5. ASSUME NEW d \in Devices, NEW s \in Requests, InTheNameOf(s, d)' PROVE InTheNameOf(s, d)
  <2>1. memory'[s].owner = d => memory[s].owner = d
    BY <1>1, <1>2, OwnersAssumption DEF MoveMemory, TypeOK, MemoryTypeOK
  <2>2. memory'[s].status \in Kept => memory[s].status \in Kept
    BY <1>1 DEF MoveMemory, TypeOK, MemoryTypeOK, Kept
  <2>3. job'[s].owner = d => job[s].owner = d
    BY <1>1, <1>2, OwnersAssumption DEF MoveMemory, TypeOK, MemoryTypeOK
  <2> QED BY <1>2, <1>4, <1>5, <2>1, <2>2, <2>3 DEF InTheNameOf
<1>6. ASSUME NEW s \in Requests, InTheNameOf(s, device0[r])' PROVE s \in late'
  <2> DEFINE d == device0[r]
  <2>1. late' = late \cup {k \in Requests : \/ Active(k) /\ who[k].owner = d
                                            \/ extracting[k] = d \/ approving[k] = d
                                            \/ Confirmed(k, d) /\ c[k] = "none"}
    BY <1>1 DEF MoveMemory
  <2>2. device0' = device0
    BY MoveFrame
  <2>3. CASE memory'[s].owner = d /\ memory'[s].status \in Kept
    <3>1. c[s] # "unique"
      BY <1>1, <1>2, <2>3, OwnersAssumption DEF MoveMemory, TypeOK, MemoryTypeOK
    <3>2. c[s] = "none"
      BY <1>1, <2>3, <3>1 DEF MoveMemory, TypeOK, MemoryTypeOK, Kept
    <3>3. ~Offered(s, d) /\ memory'[s] = memory[s]
      BY <1>1, <1>2, <2>3, <3>2, OwnersAssumption DEF MoveMemory, TypeOK, MemoryTypeOK
    <3>4. memory[s] = [owner |-> memory[s].owner, status |-> memory[s].status]
      BY DEF TypeOK, MemoryTypeOK
    <3>5. Confirmed(s, d)
      BY <2>3, <3>3, <3>4 DEF Offered, Confirmed, Kept
    <3> QED BY <2>1, <3>2, <3>5
  <2>4. CASE job'[s].owner = d
    BY <1>1, <1>2, <2>4, OwnersAssumption DEF MoveMemory, TypeOK, MemoryTypeOK
  <2>5. CASE extracting'[s] = d \/ approving'[s] = d \/ (Active(s)' /\ who'[s].owner = d)
    BY <1>2, <1>4, <2>1, <2>5
  <2> QED BY <1>6, <2>2, <2>3, <2>4, <2>5 DEF InTheNameOf
<1>7. device0' = device0
  BY MoveFrame
<1> QED BY <1>2, <1>3, <1>5, <1>6, <1>7 DEF OnlyLate

LEMMA LateKept ==
  ASSUME OnlyLate, moved' = moved, late \subseteq late',
         \A d \in moved, r \in Requests : InTheNameOf(r, d)' => InTheNameOf(r, d)
  PROVE  OnlyLate'
BY DEF OnlyLate

LEMMA SendLate ==
  ASSUME NEW r \in Requests, Send(r), Identified, TypeOK, OnlyLate
  PROVE  OnlyLate'
<1>1. who[r].owner = Nobody /\ \A s \in Requests : s # r => pc'[s] = pc[s]
  BY DEF Identified, Send, Go, Unknown, TypeOK, RequestTypeOK
<1>2. UNCHANGED <<memory, job, extracting, approving, who, moved, late>>
  BY DEF Send, tables, background
<1>3. \A d \in moved : d # Nobody
  BY OwnersAssumption DEF TypeOK, HistoryTypeOK
<1> QED BY <1>1, <1>2, <1>3, LateKept DEF InTheNameOf, Active

LEMMA FinishLate ==
  ASSUME NEW r \in Requests, FinishJob(r), TypeOK, OnlyLate
  PROVE  OnlyLate'
<1>1. UNCHANGED <<pc, who, approving, moved, late>>
  BY DEF FinishJob, held, ghosts
<1>2. \A s \in Requests : /\ job'[s].owner = job[s].owner
                          /\ extracting'[s] \in {extracting[s], Nobody}
                          /\ memory'[s] = memory[s] \/ memory'[s].owner = extracting[s]
  BY DEF FinishJob, TypeOK, MemoryTypeOK
<1>3. \A d \in moved : d # Nobody
  BY OwnersAssumption DEF TypeOK, HistoryTypeOK
<1> QED BY <1>1, <1>2, <1>3, LateKept DEF InTheNameOf, Active

LEMMA ApproveLate ==
  ASSUME NEW r \in Requests, Approve(r), TypeOK, OnlyLate
  PROVE  OnlyLate'
<1>1. UNCHANGED <<pc, who, job, extracting, moved, late>>
  BY DEF Approve, held, ghosts
<1>2. \A s \in Requests : /\ approving'[s] \in {approving[s], Nobody}
                          /\ \/ memory'[s] = memory[s] \/ memory'[s].owner = approving[s]
                             \/ memory'[s].status = "expired"
  BY DEF Approve, TypeOK, MemoryTypeOK
<1>3. \A d \in moved : d # Nobody
  BY OwnersAssumption DEF TypeOK, HistoryTypeOK
<1> QED BY <1>1, <1>2, <1>3, LateKept DEF InTheNameOf, Active, Kept

LEMMA StopLate ==
  ASSUME Stop, TypeOK, OnlyLate
  PROVE  OnlyLate'
<1>1. UNCHANGED <<who, memory, moved, late>>
  BY DEF Stop, held
<1>2. \A s \in Requests : /\ job'[s].owner = job[s].owner
                          /\ extracting'[s] = Nobody /\ approving'[s] = Nobody
                          /\ ~Active(s)'
  BY DEF Stop, TypeOK, MemoryTypeOK, Active, Ended
<1>3. \A d \in moved : d # Nobody
  BY OwnersAssumption DEF TypeOK, HistoryTypeOK
<1> QED BY <1>1, <1>2, <1>3, LateKept DEF InTheNameOf

\* After a merge only late questions act in the name of the device.
LEMMA OnlyLateStep ==
  ASSUME OnlyLate, OnCourse, Identified, TypeOK, pc \in [Requests -> Places],
         who \in [Requests -> [owner : Owners \cup {Nobody}, session : Requests \cup {Nobody}]],
         device0 \in [Requests -> Devices \cup {Nobody}],
         memory \in [Requests -> [owner : Owners \cup {Nobody}, status : {"none", "candidate", "confirmed", "expired", "deleted"}]],
         job \in [Requests -> [owner : Owners \cup {Nobody}, status : {"none", "queued", "running", "succeeded", "failed"}]],
         extracting \in [Requests -> Owners \cup {Nobody}], approving \in [Requests -> Owners \cup {Nobody}],
         class \in [Requests -> [Requests -> {"none", "unique", "duplicate", "conflict"}]],
         late \subseteq Requests, Next
  PROVE  OnlyLate'
<1>1. ASSUME NEW r \in Requests, Send(r) PROVE OnlyLate'
  BY <1>1, SendLate
<1>2. ASSUME NEW r \in Requests, Resolve(r) PROVE OnlyLate'
  BY <1>2, ResolveLate
<1>3. ASSUME NEW r \in Requests, FinishJob(r) PROVE OnlyLate'
  BY <1>3, FinishLate
<1>4. ASSUME NEW r \in Requests, Approve(r) PROVE OnlyLate'
  BY <1>4, ApproveLate
<1>5. ASSUME NEW r \in Requests, MergeMemories(r) PROVE OnlyLate'
  BY <1>5, MergeLate
<1>6. ASSUME Stop PROVE OnlyLate'
  BY <1>6, StopLate
<1> USE DEF OnlyLate, OnCourse, Identified, Moving, Merging, Ended, Owners, Unknown, InTheNameOf, Kept, Active,
         Kind, tables, fixed, held, background, ghosts
<1>7. ASSUME NEW r \in Requests, Claim(r) PROVE OnlyLate'
  BY <1>7, OwnersAssumption DEF Claim, Go
<1>8. ASSUME NEW r \in Requests, Answer(r) PROVE OnlyLate'
  BY <1>8, OwnersAssumption DEF Answer, Go
<1>9. ASSUME NEW r \in Requests, Respond(r) PROVE OnlyLate'
  BY <1>9, OwnersAssumption DEF Respond, Go
<1>10. ASSUME NEW r \in Requests, ClaimJob(r) PROVE OnlyLate'
  BY <1>10, OwnersAssumption DEF ClaimJob, Touched
<1>11. ASSUME NEW r \in Requests, ReadCandidate(r) PROVE OnlyLate'
  BY <1>11, OwnersAssumption DEF ReadCandidate
<1>12. ASSUME NEW r \in Requests, BeginLogin(r) PROVE OnlyLate'
  BY <1>12, OwnersAssumption DEF BeginLogin, Go
<1>13. ASSUME NEW r \in Requests, Consume(r) PROVE OnlyLate'
  BY <1>13, OwnersAssumption DEF Consume, Go
<1>14. ASSUME NEW r \in Requests, Spend(r) PROVE OnlyLate'
  BY <1>14, OwnersAssumption DEF Spend, Go
<1>15. ASSUME NEW r \in Requests, Match(r) PROVE OnlyLate'
  BY <1>15, OwnersAssumption DEF Match, Go
<1>16. ASSUME NEW r \in Requests, Authenticate(r) PROVE OnlyLate'
  BY <1>16, OwnersAssumption DEF Authenticate, Go
<1>17. ASSUME NEW r \in Requests, OpenSession(r) PROVE OnlyLate'
  BY <1>17, OwnersAssumption DEF OpenSession, Go
<1>18. ASSUME NEW r \in Requests, Logout(r) PROVE OnlyLate'
  BY <1>18, OwnersAssumption DEF Logout, Go
<1>19. ASSUME NEW r \in Requests, Mint(r) PROVE OnlyLate'
  BY <1>19, OwnersAssumption DEF Mint, SetToken, Go
<1>20. ASSUME NEW r \in Requests, Revoke(r) PROVE OnlyLate'
  BY <1>20, OwnersAssumption DEF Revoke, SetToken, Go
<1>21. ASSUME NEW r \in Requests, Source(r) PROVE OnlyLate'
  BY <1>21, OwnersAssumption DEF Source, Go
<1>22. ASSUME NEW r \in Requests, Begin(r) PROVE OnlyLate'
  BY <1>22, OwnersAssumption DEF Begin, Job, Go
<1>23. ASSUME NEW r \in Requests, Start(r) PROVE OnlyLate'
  BY <1>23, OwnersAssumption DEF Start, Job, Contested, Go
<1>24. ASSUME NEW r \in Requests, ReadMemories(r) PROVE OnlyLate'
  BY <1>24, OwnersAssumption DEF ReadMemories, Go, Classify
<1>25. ASSUME NEW r \in Requests, Transfer(r) PROVE OnlyLate'
  BY <1>25, OwnersAssumption DEF Transfer, Go
<1>26. ASSUME NEW r \in Requests, Disable(r) PROVE OnlyLate'
  BY <1>26, OwnersAssumption DEF Disable, Go
<1>27. ASSUME NEW r \in Requests, Complete(r) PROVE OnlyLate'
  BY <1>27, OwnersAssumption DEF Complete, Job, Go
<1>28. ASSUME NEW r \in Requests, Audit(r) PROVE OnlyLate'
  BY <1>28, OwnersAssumption DEF Audit, Go
<1>29. ASSUME NEW r \in Requests, Clear(r) PROVE OnlyLate'
  BY <1>29, OwnersAssumption DEF Clear, Go
<1>30. ASSUME NEW r \in Requests, FailMerge(r) \/ Break(r) PROVE OnlyLate'
  BY <1>30, OwnersAssumption DEF FailMerge, Job, Go, Break, HalfWay
<1>31. ASSUME Lapse PROVE OnlyLate'
  BY <1>31, OwnersAssumption DEF Lapse
<1> QED
  BY <1>1, <1>2, <1>3, <1>4, <1>5, <1>6, <1>7, <1>8, <1>9, <1>10, <1>11, <1>12, <1>13, <1>14, <1>15,
     <1>16, <1>17, <1>18, <1>19, <1>20, <1>21, <1>22, <1>23, <1>24, <1>25, <1>26, <1>27, <1>28, <1>29, <1>30,
     <1>31
     DEF Next

LEMMA HandedKept ==
  ASSUME NEW d, Handed(d), moved \subseteq moved', late \subseteq late', ask' = ask,
         \A s \in late : who[s].owner = d => who'[s].owner = d,
         \A c \in Conversations : owner'[c] = d =>
             owner[c] = d \/ \E s \in late' : Kind(s) = "ask" /\ ask[s].conv = c /\ who'[s].owner = d
  PROVE  Handed(d)'
BY DEF Handed, Kind

LEMMA ExcusedKept ==
  ASSUME NEW d, Excused(d), broken \subseteq broken', late \subseteq late',
         \A s \in late : who[s].owner = d => who'[s].owner = d
  PROVE  Excused(d)'
BY DEF Excused

LEMMA ResolveHands ==
  ASSUME NEW r \in Requests, Resolve(r), OnCourse, Identified, TypeOK, NEW d \in Devices
  PROVE  /\ Handed(d) => Handed(d)'
         /\ Excused(d) => Excused(d)'
<1>1. /\ \A s \in Requests : s # r => pc'[s] = pc[s] /\ who'[s] = who[s]
      /\ late' \in {late, late \cup {r}} /\ who[r].owner # d
  BY ResolveFrame, OwnersAssumption DEF TypeOK, Unknown
<1>2. UNCHANGED <<moved, ask, owner, broken>>
  BY DEF Resolve, fixed
<1>3. late \subseteq Requests
  BY DEF TypeOK, HistoryTypeOK
<1> QED BY <1>1, <1>2, <1>3, HandedKept, ExcusedKept

LEMMA ResolveInOrder ==
  ASSUME NEW r \in Requests, Resolve(r), OnCourse, Identified, TypeOK, HandedInOrder
  PROVE  HandedInOrder'
<1>1. /\ \A s \in Requests : s # r => pc'[s] = pc[s]
      /\ pc'[r] \in {"claim", "state", "source", "logout", "token", "refused"}
  BY ResolveFrame DEF TypeOK
<1>2. UNCHANGED <<moved, device0, heir>>
  BY DEF Resolve
<1>3. \A s \in Requests : pc[s] = "disable" => device0[s] \in Devices
  BY DEF Identified, TypeOK, RequestTypeOK, Merging, Moving
<1>4. \A d \in Devices : Handed(d) => Handed(d)'
  BY ResolveHands
<1> QED BY <1>1, <1>2, <1>3, <1>4 DEF HandedInOrder

LEMMA MergeHands ==
  ASSUME NEW r \in Requests, MergeMemories(r), OnCourse, Identified, TypeOK, NEW d \in Devices
  PROVE  /\ Handed(d) => Handed(d)'
         /\ Excused(d) => Excused(d)'
BY MoveFrame, HandedKept, ExcusedKept

LEMMA MergeInOrder ==
  ASSUME NEW r \in Requests, MergeMemories(r), OnCourse, Identified, TypeOK, HandedInOrder
  PROVE  HandedInOrder'
<1>1. /\ pc' = [pc EXCEPT ![r] = "transfer"] /\ moved' = moved \cup {device0[r]} /\ UNCHANGED <<device0, heir>>
  BY MoveFrame
<1>2. \A s \in Requests : pc[s] = "disable" => device0[s] \in Devices
  BY DEF Identified, TypeOK, RequestTypeOK, Merging, Moving
<1>3. \A d \in Devices : Handed(d) => Handed(d)'
  BY MergeHands
<1> QED BY <1>1, <1>2, <1>3 DEF HandedInOrder, TypeOK, RequestTypeOK

LEMMA DisableInOrder ==
  ASSUME NEW r \in Requests, Disable(r), TypeOK, Identified, HandedInOrder
  PROVE  HandedInOrder'
<1>1. UNCHANGED <<moved, late, owner, ask, who, device0>>
  BY DEF Disable, fixed, held, ghosts
<1>2. \A d : Handed(d) <=> Handed(d)'
  BY <1>1 DEF Handed, Kind
<1>3. \A s \in Requests : pc'[s] \in {"transfer", "disable"} => pc'[s] = pc[s]
  BY DEF Disable, Go, TypeOK, RequestTypeOK
<1>4. Handed(device0[r])
  BY DEF Disable, Go, HandedInOrder
<1>5. \A d \in Devices : heir'[d] # Nobody => heir[d] # Nobody \/ d = device0[r]
  BY DEF Disable, TypeOK, TableTypeOK
<1> QED BY <1>1, <1>2, <1>3, <1>4, <1>5 DEF HandedInOrder

LEMMA InOrderKept ==
  ASSUME HandedInOrder, UNCHANGED <<owner, moved, ask, who, heir>>, late \subseteq late',
         \A s \in Requests : pc'[s] \in {"transfer", "disable"} => pc'[s] = pc[s] /\ device0'[s] = device0[s]
  PROVE  HandedInOrder'
<1>1. \A d : Handed(d) => Handed(d)'
  BY HandedKept
<1> QED BY <1>1 DEF HandedInOrder

LEMMA ClaimInOrder ==
  ASSUME NEW r \in Requests, Claim(r), TypeOK, OnCourse, Identified, OnlyLate, HandedInOrder
  PROVE  HandedInOrder'
<1>1. /\ UNCHANGED <<moved, ask, who, heir, late, device0>> /\ pc[r] = "claim"
      /\ \A s \in Requests : pc'[s] \in {"transfer", "disable"} => pc'[s] = pc[s]
      /\ \A c \in Conversations : owner'[c] = owner[c] \/ (c = ask[r].conv /\ owner'[c] = who[r].owner)
  BY DEF Claim, Go, ghosts, held, fixed, TypeOK, RequestTypeOK, TableTypeOK
<1>2. ASSUME NEW d \in moved, who[r].owner = d PROVE r \in late /\ Kind(r) = "ask"
  BY <1>1, <1>2, OwnersAssumption
     DEF OnlyLate, InTheNameOf, Active, Ended, OnCourse, Identified, TypeOK, HistoryTypeOK
<1>3. \A d : Handed(d) => Handed(d)'
  BY <1>1, <1>2, HandedKept DEF Handed
<1> QED BY <1>1, <1>3 DEF HandedInOrder

LEMMA TransferInOrder ==
  ASSUME NEW r \in Requests, Transfer(r), TypeOK, Identified, HandedInOrder
  PROVE  HandedInOrder'
<1>1. /\ UNCHANGED <<moved, ask, who, heir, device0>> /\ late \subseteq late' /\ pc[r] = "transfer"
      /\ \A s \in Requests : s # r => pc'[s] = pc[s]
      /\ owner' = [c \in Conversations |-> IF c \in {k \in Conversations : owner[k] = device0[r]} THEN who[r].owner ELSE owner[c]]
      /\ pc'[r] = "disable"
  BY DEF Transfer, Go, held, fixed, TypeOK, RequestTypeOK
<1>2. device0[r] \in moved /\ device0[r] \in Devices /\ who[r].owner \in Users
  BY <1>1 DEF HandedInOrder, Identified, TypeOK, HistoryTypeOK, Merging, Moving
<1>3. \A d \in Devices : \A c \in Conversations : owner'[c] = d => owner[c] = d /\ d # device0[r]
  BY <1>1, <1>2, OwnersAssumption
<1>4. \A d \in Devices : Handed(d) => Handed(d)'
  BY <1>1, <1>3, HandedKept
<1>5. Handed(device0[r])'
  BY <1>1, <1>2, <1>3 DEF Handed
<1>6. \A s \in Requests : pc[s] = "disable" => device0[s] \in Devices
  BY DEF Identified, TypeOK, RequestTypeOK, Merging, Moving
<1> QED BY <1>1, <1>2, <1>4, <1>5, <1>6 DEF HandedInOrder

\* The other steps do not touch what is handed over, and begin no transfer.
LEMMA HandedInOrderStep ==
  ASSUME HandedInOrder, TypeOK, OnCourse, Identified, OnlyLate, pc \in [Requests -> Places],
         device0 \in [Requests -> Devices \cup {Nobody}], late \subseteq Requests, Next
  PROVE  HandedInOrder'
<1>1. ASSUME NEW r \in Requests, Claim(r) PROVE HandedInOrder'
  BY <1>1, ClaimInOrder
<1>2. ASSUME NEW r \in Requests, Resolve(r) PROVE HandedInOrder'
  BY <1>2, ResolveInOrder
<1>3. ASSUME NEW r \in Requests, MergeMemories(r) PROVE HandedInOrder'
  BY <1>3, MergeInOrder
<1>4. ASSUME NEW r \in Requests, Transfer(r) PROVE HandedInOrder'
  BY <1>4, TransferInOrder
<1>5. ASSUME NEW r \in Requests, Disable(r) PROVE HandedInOrder'
  BY <1>5, DisableInOrder
<1> USE DEF OnCourse, Moving, Merging, Ended, Active, Kind, tables, fixed, held, background, ghosts
<1>6. ASSUME NEW r \in Requests, Send(r) PROVE HandedInOrder'
  BY <1>6, OwnersAssumption, InOrderKept DEF Send, Go, First
<1>7. ASSUME NEW r \in Requests, Answer(r) PROVE HandedInOrder'
  BY <1>7, OwnersAssumption, InOrderKept DEF Answer, Go
<1>8. ASSUME NEW r \in Requests, Respond(r) \/ ClaimJob(r) \/ FinishJob(r) \/ ReadCandidate(r)
      PROVE  HandedInOrder'
  BY <1>8, OwnersAssumption, InOrderKept DEF Respond, Go, ClaimJob, Touched, FinishJob, ReadCandidate
<1>9. ASSUME NEW r \in Requests, Approve(r) \/ BeginLogin(r) \/ Consume(r) \/ Spend(r) PROVE HandedInOrder'
  BY <1>9, OwnersAssumption, InOrderKept DEF Approve, SameSlot, BeginLogin, Go, Consume, Spend
<1>10. ASSUME NEW r \in Requests, Match(r) \/ Authenticate(r) \/ OpenSession(r) \/ Logout(r)
      PROVE  HandedInOrder'
  BY <1>10, OwnersAssumption, InOrderKept DEF Match, Go, Authenticate, OpenSession, Logout
<1>11. ASSUME NEW r \in Requests, Mint(r) \/ Revoke(r) \/ Source(r) \/ Begin(r) PROVE HandedInOrder'
  BY <1>11, OwnersAssumption, InOrderKept DEF Mint, SetToken, Go, Revoke, Source, Begin, Job
<1>12. ASSUME NEW r \in Requests, Start(r) \/ ReadMemories(r) PROVE HandedInOrder'
  BY <1>12, OwnersAssumption, InOrderKept DEF Start, Job, Contested, Go, ReadMemories, Classify
<1>13. ASSUME NEW r \in Requests, Complete(r) PROVE HandedInOrder'
  BY <1>13, OwnersAssumption, InOrderKept DEF Complete, Job, Go
<1>14. ASSUME NEW r \in Requests, Audit(r) \/ Clear(r) PROVE HandedInOrder'
  BY <1>14, OwnersAssumption, InOrderKept DEF Audit, Go, Clear
<1>15. ASSUME NEW r \in Requests, FailMerge(r) \/ Break(r) PROVE HandedInOrder'
  BY <1>15, OwnersAssumption, InOrderKept DEF FailMerge, Job, Go, Break, HalfWay
<1>16. ASSUME Lapse \/ Stop PROVE HandedInOrder'
  BY <1>16, OwnersAssumption, InOrderKept DEF Lapse, Stop, HalfWay
<1> QED
  BY <1>1, <1>2, <1>3, <1>4, <1>5, <1>6, <1>7, <1>8, <1>9, <1>10, <1>11, <1>12, <1>13, <1>14, <1>15,
     <1>16
     DEF Next

-----------------------------------------------------------------------------
(* Who gets it *)

LEMMA ResolveMover ==
  ASSUME NEW r \in Requests, Resolve(r), OnCourse, Identified, TableTypeOK, RequestTypeOK, OneMover
  PROVE  OneMover'
<1>1. /\ \A s \in Requests : s # r => pc'[s] = pc[s] /\ who'[s] = who[s]
      /\ pc'[r] \in {"claim", "state", "source", "logout", "token", "refused"}
  BY ResolveFrame
<1>2. device0' = device0 /\ broken' = broken
  BY DEF Resolve
<1> QED BY <1>1, <1>2 DEF OneMover, Moving

\* A second account's merge notes that it overlaps the first.
LEMMA OneMoverStep ==
  ASSUME OneMover, OnCourse, Identified, TableTypeOK, RequestTypeOK, pc \in [Requests -> Places],
         who \in [Requests -> [owner : Owners \cup {Nobody}, session : Requests \cup {Nobody}]],
         device0 \in [Requests -> Devices \cup {Nobody}], Next
  PROVE  OneMover'
<1>1. ASSUME NEW r \in Requests, Resolve(r) PROVE OneMover'
  BY <1>1, ResolveMover
<1> USE DEF OneMover, OnCourse, Identified, Moving, Merging, Ended, Owners, Unknown, Active, Kind, tables,
         fixed, held, background, ghosts
<1>2. ASSUME NEW r \in Requests, Send(r) PROVE OneMover'
  BY <1>2, OwnersAssumption DEF Send, Go, First
<1>3. ASSUME NEW r \in Requests, Claim(r) \/ Answer(r) PROVE OneMover'
  BY <1>3, OwnersAssumption DEF Claim, Go, Answer
<1>4. ASSUME NEW r \in Requests, Respond(r) \/ ClaimJob(r) \/ FinishJob(r) \/ ReadCandidate(r) PROVE OneMover'
  BY <1>4, OwnersAssumption DEF Respond, Go, ClaimJob, FinishJob, ReadCandidate
<1>5. ASSUME NEW r \in Requests, Approve(r) \/ BeginLogin(r) \/ Consume(r) \/ Spend(r) PROVE OneMover'
  BY <1>5, OwnersAssumption DEF Approve, BeginLogin, Go, Consume, Spend
<1>6. ASSUME NEW r \in Requests, Match(r) \/ Authenticate(r) \/ OpenSession(r) \/ Logout(r) PROVE OneMover'
  BY <1>6, OwnersAssumption DEF Match, Go, Authenticate, OpenSession, Logout
<1>7. ASSUME NEW r \in Requests, Mint(r) \/ Revoke(r) \/ Source(r) \/ Begin(r) PROVE OneMover'
  BY <1>7, OwnersAssumption DEF Mint, SetToken, Go, Revoke, Source, Begin, Job
<1>8. ASSUME NEW r \in Requests, Start(r) \/ ReadMemories(r) \/ MergeMemories(r) \/ Transfer(r) PROVE OneMover'
  BY <1>8, OwnersAssumption DEF Start, Job, Contested, Go, ReadMemories, MergeMemories, Transfer
<1>9. ASSUME NEW r \in Requests, Disable(r) \/ Complete(r) \/ Audit(r) \/ Clear(r) PROVE OneMover'
  BY <1>9, OwnersAssumption DEF Disable, Go, Complete, Job, Audit, Clear
<1>10. ASSUME NEW r \in Requests, FailMerge(r) \/ Break(r) PROVE OneMover'
  BY <1>10, OwnersAssumption DEF FailMerge, Job, Go, Break, HalfWay
<1>11. ASSUME Lapse \/ Stop PROVE OneMover'
  BY <1>11, OwnersAssumption DEF Lapse, Stop, HalfWay
<1> QED
  BY <1>1, <1>2, <1>3, <1>4, <1>5, <1>6, <1>7, <1>8, <1>9, <1>10, <1>11
     DEF Next

LEMMA ResolveReceiver ==
  ASSUME NEW r \in Requests, Resolve(r), OnCourse, Identified, TypeOK, OneReceiver
  PROVE  OneReceiver'
<1>1. /\ \A s \in Requests : s # r => pc'[s] = pc[s] /\ who'[s] = who[s]
      /\ pc[r] = "resolve"
  BY ResolveFrame DEF TypeOK
<1>2. UNCHANGED <<device0, heirs>>
  BY DEF Resolve
<1>3. \A d \in Devices : (Handed(d) => Handed(d)') /\ (Excused(d) => Excused(d)')
  BY ResolveHands
<1>4. \A s \in Requests : HalfWay(s) => HalfWay(s)' /\ who'[s] = who[s]
  BY <1>1 DEF HalfWay
<1> QED BY <1>2, <1>3, <1>4 DEF OneReceiver

LEMMA MergeReceiver ==
  ASSUME NEW r \in Requests, MergeMemories(r), OnCourse, Identified, TypeOK, Taught, OnlyLate, OneMover, NothingRead,
         OneReceiver
  PROVE  OneReceiver'
<1> DEFINE x == device0[r]
           u == who[r].owner
<1>1. PICK c \in [Requests -> {"none", "unique", "duplicate", "conflict"}] :
            /\ MoveMemory(r, c)
            /\ \/ pc[r] = "move" /\ database = "sqlite" /\ c = Classify(x, u)
               \/ pc[r] = "write" /\ database = "postgres" /\ c = class[r]
  BY MergeMoves DEF TypeOK
<1>2. /\ pc[r] \in {"move", "write"} /\ pc' = [pc EXCEPT ![r] = "transfer"]
      /\ x \in Devices /\ u \in Users
      /\ moved' = moved \cup {x} /\ late \subseteq late'
      /\ UNCHANGED <<ask, owner, who, device0, broken, heir, extracting, approving, database, class>>
      /\ heirs' \in {heirs, [heirs EXCEPT ![x] = @ \cup {u}]}
  BY MoveFrame
<1>3. \A d \in Devices : (Handed(d) => Handed(d)') /\ (Excused(d) => Excused(d)')
  BY MergeHands
<1>4. \A s \in Requests : HalfWay(s) => HalfWay(s)'
  BY <1>2 DEF HalfWay, TypeOK, RequestTypeOK
<1>5. HalfWay(r)'
  BY <1>2 DEF HalfWay, TypeOK, RequestTypeOK
<1>6. ASSUME NEW d \in Devices, heirs'[d] # {}, ~Excused(d)', d # x
      PROVE  /\ \A v, w \in heirs'[d] : v = w
             /\ \/ Handed(d)'
                \/ \E s \in Requests : (HalfWay(s) /\ device0[s] = d /\ heirs[d] = {who[s].owner})'
  <2>1. heirs'[d] = heirs[d]
    BY <1>2, <1>6 DEF TypeOK, HistoryTypeOK
  <2> QED BY <1>2, <1>3, <1>4, <1>6, <2>1 DEF OneReceiver
<1>7. ASSUME heirs'[x] # {}, ~Excused(x)'
      PROVE  /\ \A v, w \in heirs'[x] : v = w
             /\ \/ Handed(x)'
                \/ \E s \in Requests : (HalfWay(s) /\ device0[s] = x /\ heirs[x] = {who[s].owner})'
  <2>1. CASE heirs[x] \subseteq {u}
    <3>1. heirs'[x] = {u}
      BY <1>2, <1>7, <2>1 DEF TypeOK, HistoryTypeOK
    <3> QED BY <1>2, <1>5, <3>1
  <2>2. CASE ~(heirs[x] \subseteq {u})
    <3>1. ~Excused(x) /\ heirs[x] # {}
      BY <1>2, <1>3, <1>7, <2>2
    <3>2. \A s \in Requests : HalfWay(s) /\ device0[s] = x => who[s].owner = u
      BY <1>2, <3>1 DEF OneMover, HalfWay, Moving, Excused
    <3>3. Handed(x) /\ \A v, w \in heirs[x] : v = w
      BY <1>2, <2>2, <3>1, <3>2 DEF OneReceiver
    <3>4. \A m \in Requests : ~InTheNameOf(m, x) \/ who[m].owner # x
      BY <3>1, <3>3 DEF Handed, OnlyLate, Excused
    <3>5. \A m \in Requests : ~(memory[m].owner = x /\ memory[m].status \in Kept) /\ job[m].owner # x
      BY <1>2, <3>4 DEF Taught, InTheNameOf
    <3>6. \A m \in Requests : c[m] = "none"
      <4>1. CASE pc[r] = "write"
        BY <1>1, <2>2, <3>1, <4>1 DEF NothingRead
      <4>2. CASE c = Classify(x, u)
        <5>1. \A m \in Requests : ~Confirmed(m, x)
          BY <3>5 DEF Confirmed, Kept
        <5> QED BY <4>2, <5>1 DEF Classify
      <4> QED BY <1>1, <4>1, <4>2
    <3>7. \A m \in Requests : ~Offered(m, x)
      BY <3>5 DEF Offered, Kept
    <3>8. memory' = memory /\ job' = job
      BY <1>1, <3>5, <3>6, <3>7 DEF MoveMemory, TypeOK, MemoryTypeOK
    <3>9. heirs' = heirs
      BY <1>1, <3>8 DEF MoveMemory
    <3> QED BY <1>2, <1>3, <3>3, <3>9
  <2> QED BY <2>1, <2>2
<1> QED BY <1>2, <1>6, <1>7 DEF OneReceiver

LEMMA ClaimReceiver ==
  ASSUME NEW r \in Requests, Claim(r), TypeOK, OnlyLate, OneReceiver
  PROVE  OneReceiver'
<1>1. UNCHANGED <<moved, late, broken, heirs, ask, who, device0>>
  BY DEF Claim, fixed, held, ghosts
<1>2. \A s \in Requests : HalfWay(s) => HalfWay(s)'
  BY DEF HalfWay, Claim, Go, TypeOK, RequestTypeOK
<1>3. ASSUME NEW d \in Devices, ~Excused(d), Handed(d) PROVE Handed(d)'
  <2>1. who[r].owner # d
    BY <1>3 DEF Handed, Excused, OnlyLate, InTheNameOf, Active, Claim, Go, Ended
  <2>2. \A c \in Conversations : owner'[c] = d => owner[c] = d
    BY <2>1 DEF Claim, TypeOK, TableTypeOK
  <2> QED BY <1>1, <1>3, <2>2, HandedKept
<1>4. \A d \in Devices : Excused(d)' <=> Excused(d)
  BY <1>1 DEF Excused
<1> QED BY <1>1, <1>2, <1>3, <1>4 DEF OneReceiver

LEMMA TransferReceiver ==
  ASSUME NEW r \in Requests, Transfer(r), TypeOK, Identified, OneMover, OneReceiver
  PROVE  OneReceiver'
<1> DEFINE x == device0[r]
           u == who[r].owner
           all == {c \in Conversations : owner[c] = x}
<1>1. /\ UNCHANGED <<moved, broken, ask, who, device0>> /\ late \subseteq late'
      /\ pc[r] = "transfer" /\ pc' = [pc EXCEPT ![r] = "disable"]
      /\ owner' = [c \in Conversations |-> IF c \in all THEN u ELSE owner[c]]
      /\ heirs' = IF all # {} THEN [heirs EXCEPT ![x] = @ \cup {u}] ELSE heirs
  BY DEF Transfer, Go, fixed, held
<1>2. x \in Devices /\ u \in Users
  BY <1>1 DEF Identified, TypeOK, RequestTypeOK, Merging, Moving
<1>3. \A d \in Devices : (Handed(d) => Handed(d)') /\ (Excused(d) => Excused(d)')
  <2>1. \A d \in Devices : \A c \in Conversations : owner'[c] = d => owner[c] = d
    BY <1>1, <1>2, OwnersAssumption
  <2> QED BY <1>1, <2>1, HandedKept, ExcusedKept
<1>4. \A s \in Requests : HalfWay(s) => HalfWay(s)'
  BY <1>1 DEF HalfWay, TypeOK, RequestTypeOK
<1>5. ASSUME NEW d \in Devices, heirs'[d] # {}, ~Excused(d)', heirs'[d] = heirs[d]
      PROVE  /\ \A v, w \in heirs'[d] : v = w
             /\ \/ Handed(d)'
                \/ \E s \in Requests : (HalfWay(s) /\ device0[s] = d /\ heirs[d] = {who[s].owner})'
  BY <1>1, <1>3, <1>4, <1>5 DEF OneReceiver
<1>6. ASSUME ~Excused(x)', heirs'[x] # heirs[x]
      PROVE  /\ \A v, w \in heirs'[x] : v = w
             /\ \/ Handed(x)'
                \/ \E s \in Requests : (HalfWay(s) /\ device0[s] = x /\ heirs[x] = {who[s].owner})'
  <2>1. all # {} /\ heirs'[x] = heirs[x] \cup {u}
    BY <1>1, <1>2, <1>6 DEF TypeOK, HistoryTypeOK
  <2>2. ~Excused(x)
    BY <1>1, <1>2, <1>3, <1>6
  <2>3. \A s \in Requests : HalfWay(s) /\ device0[s] = x => who[s].owner = u
    BY <1>1, <2>2 DEF OneMover, HalfWay, Moving, Excused
  <2>4. ~Handed(x)
    BY <2>1, <2>2 DEF Handed, Excused
  <2>5. heirs[x] \subseteq {u}
    BY <1>2, <2>2, <2>3, <2>4 DEF OneReceiver
  <2>6. HalfWay(r)' /\ heirs'[x] = {u}
    BY <1>1, <1>4, <2>1, <2>5 DEF HalfWay
  <2> QED BY <1>1, <2>6
<1>7. \A d \in Devices : d # x => heirs'[d] = heirs[d]
  BY <1>1, <1>2 DEF TypeOK, HistoryTypeOK
<1>8. ASSUME NEW d \in Devices, heirs'[d] # {}, ~Excused(d)'
      PROVE  /\ \A v, w \in heirs'[d] : v = w
             /\ \/ Handed(d)'
                \/ \E s \in Requests : (HalfWay(s) /\ device0[s] = d /\ heirs[d] = {who[s].owner})'
  <2>1. CASE heirs'[d] = heirs[d]
    BY <1>5, <1>8, <2>1
  <2>2. CASE heirs'[d] # heirs[d]
    <3>1. d = x
      BY <1>7, <2>2
    <3> QED BY <1>1, <1>6, <1>8, <2>2, <3>1
  <2> QED BY <2>1, <2>2
<1> QED BY <1>8 DEF OneReceiver

LEMMA ReceiverKept ==
  ASSUME OneReceiver, UNCHANGED <<owner, moved, ask, who, heirs>>, late \subseteq late', broken \subseteq broken',
         \A s \in Requests : HalfWay(s) => \/ HalfWay(s)' /\ device0'[s] = device0[s]
                                           \/ device0[s] \in broken'
  PROVE  OneReceiver'
<1>1. \A d : (Handed(d) => Handed(d)') /\ (Excused(d) => Excused(d)')
  BY HandedKept, ExcusedKept
<1> SUFFICES ASSUME NEW d \in Devices, heirs[d] # {}, ~Excused(d)'
             PROVE  /\ \A u, v \in heirs[d] : u = v
                    /\ \/ Handed(d)'
                       \/ \E r \in Requests : (HalfWay(r) /\ device0[r] = d /\ heirs[d] = {who[r].owner})'
  BY DEF OneReceiver
<1>2. ~Excused(d) /\ d \notin broken'
  BY <1>1 DEF Excused
<1> QED BY <1>1, <1>2 DEF OneReceiver

LEMMA DisableReceiver ==
  ASSUME NEW r \in Requests, Disable(r), TypeOK, HandedInOrder, OneReceiver
  PROVE  OneReceiver'
<1>1. /\ UNCHANGED <<owner, moved, ask, who, heirs, late, broken, device0>> /\ pc[r] = "disable"
      /\ \A s \in Requests : s # r => pc'[s] = pc[s]
  BY DEF Disable, Go, held, fixed, ghosts, TypeOK, RequestTypeOK
<1>2. \A d : (Handed(d) <=> Handed(d)') /\ (Excused(d) <=> Excused(d)')
  BY <1>1 DEF Handed, Excused, Kind
<1>3. Handed(device0[r])
  BY <1>1 DEF HandedInOrder
<1>4. \A s \in Requests : s # r => HalfWay(s)' = HalfWay(s)
  BY <1>1 DEF HalfWay
<1> QED BY <1>1, <1>2, <1>3, <1>4 DEF OneReceiver

\* The other steps give nobody anything, and leave no merge half-way without the excuse for it.
LEMMA OneReceiverStep ==
  ASSUME OneReceiver, TypeOK, OnCourse, Identified, HandedInOrder, OneMover, Taught, OnlyLate, NothingRead,
         pc \in [Requests -> Places], device0 \in [Requests -> Devices \cup {Nobody}], late \subseteq Requests,
         Next
  PROVE  OneReceiver'
<1>1. ASSUME NEW r \in Requests, Resolve(r) PROVE OneReceiver'
  BY <1>1, ResolveReceiver
<1>2. ASSUME NEW r \in Requests, Claim(r) PROVE OneReceiver'
  BY <1>2, ClaimReceiver
<1>3. ASSUME NEW r \in Requests, MergeMemories(r) PROVE OneReceiver'
  BY <1>3, MergeReceiver
<1>4. ASSUME NEW r \in Requests, Transfer(r) PROVE OneReceiver'
  BY <1>4, TransferReceiver
<1>5. ASSUME NEW r \in Requests, Disable(r) PROVE OneReceiver'
  BY <1>5, DisableReceiver
<1> USE DEF OnCourse, Moving, Merging, Ended, HalfWay, Active, Kind, tables, fixed, held, background, ghosts
<1>6. ASSUME NEW r \in Requests, Send(r) PROVE OneReceiver'
  BY <1>6, OwnersAssumption, ReceiverKept DEF Send, Go, First
<1>7. ASSUME NEW r \in Requests, Answer(r) PROVE OneReceiver'
  BY <1>7, OwnersAssumption, ReceiverKept DEF Answer, Go
<1>8. ASSUME NEW r \in Requests, Respond(r) \/ ClaimJob(r) \/ FinishJob(r) \/ ReadCandidate(r)
      PROVE  OneReceiver'
  BY <1>8, OwnersAssumption, ReceiverKept DEF Respond, Go, ClaimJob, Touched, FinishJob, ReadCandidate
<1>9. ASSUME NEW r \in Requests, Approve(r) \/ BeginLogin(r) \/ Consume(r) \/ Spend(r) PROVE OneReceiver'
  BY <1>9, OwnersAssumption, ReceiverKept DEF Approve, SameSlot, BeginLogin, Go, Consume, Spend
<1>10. ASSUME NEW r \in Requests, Match(r) \/ Authenticate(r) \/ OpenSession(r) \/ Logout(r) PROVE OneReceiver'
  BY <1>10, OwnersAssumption, ReceiverKept DEF Match, Go, Authenticate, OpenSession, Logout
<1>11. ASSUME NEW r \in Requests, Mint(r) \/ Revoke(r) \/ Source(r) \/ Begin(r) PROVE OneReceiver'
  BY <1>11, OwnersAssumption, ReceiverKept DEF Mint, SetToken, Go, Revoke, Source, Begin, Job
<1>12. ASSUME NEW r \in Requests, Start(r) \/ ReadMemories(r) PROVE OneReceiver'
  BY <1>12, OwnersAssumption, ReceiverKept DEF Start, Job, Contested, Go, ReadMemories, Classify
<1>13. ASSUME NEW r \in Requests, Complete(r) PROVE OneReceiver'
  BY <1>13, OwnersAssumption, ReceiverKept DEF Complete, Job, Go
<1>14. ASSUME NEW r \in Requests, Audit(r) \/ Clear(r) PROVE OneReceiver'
  BY <1>14, OwnersAssumption, ReceiverKept DEF Audit, Go, Clear
<1>15. ASSUME NEW r \in Requests, FailMerge(r) \/ Break(r) PROVE OneReceiver'
  BY <1>15, OwnersAssumption, ReceiverKept DEF FailMerge, Job, Go, Break, HalfWay
<1>16. ASSUME Lapse \/ Stop PROVE OneReceiver'
  BY <1>16, OwnersAssumption, ReceiverKept DEF Lapse, Stop, HalfWay
<1> QED
  BY <1>1, <1>2, <1>3, <1>4, <1>5, <1>6, <1>7, <1>8, <1>9, <1>10, <1>11, <1>12, <1>13, <1>14, <1>15,
     <1>16
     DEF Next

LEMMA ReadersKept ==
  ASSUME NothingRead,
         \A s \in Requests : pc'[s] = "write" =>
             pc[s] = "write" /\ device0'[s] = device0[s] /\ class'[s] = class[s] /\ who'[s] = who[s]
                 /\ (Excused(device0[s]) => Excused(device0[s])'),
         heirs' = heirs
  PROVE  NothingRead'
BY DEF NothingRead

LEMMA NothingReadKept ==
  ASSUME NothingRead,
         \A s \in Requests : pc'[s] = "write" => pc[s] = "write" /\ device0'[s] = device0[s] /\ class'[s] = class[s],
         UNCHANGED <<heirs, who>>, broken \subseteq broken', late \subseteq late'
  PROVE  NothingRead'
BY ReadersKept, ExcusedKept

LEMMA ResolveReaders ==
  ASSUME NEW r \in Requests, Resolve(r), OnCourse, Identified, TypeOK, NothingRead
  PROVE  NothingRead'
<1>1. /\ \A s \in Requests : s # r => pc'[s] = pc[s] /\ who'[s] = who[s]
      /\ pc'[r] # "write"
  BY ResolveFrame DEF TypeOK
<1>2. UNCHANGED <<device0, class, heirs>>
  BY DEF Resolve
<1>3. \A d \in Devices : Excused(d) => Excused(d)'
  BY ResolveHands
<1>4. \A s \in Requests : pc[s] = "write" => device0[s] \in Devices
  BY DEF Identified, TypeOK, RequestTypeOK, Merging, Moving
<1> QED BY <1>1, <1>2, <1>3, <1>4, ReadersKept

LEMMA ReadersOfHeir ==
  ASSUME NEW r \in Requests, pc[r] \in Moving, OneMover, NothingRead, device0[r] \in Devices, heirs \in [Devices -> SUBSET Users],
         UNCHANGED <<who, device0, class, broken>>, late \subseteq late',
         \A s \in Requests : pc'[s] = "write" => pc[s] = "write" /\ device0[s] \in Devices,
         heirs' \in {heirs, [heirs EXCEPT ![device0[r]] = @ \cup {who[r].owner}]}
  PROVE  NothingRead'
<1> SUFFICES ASSUME NEW s \in Requests, pc'[s] = "write", ~Excused(device0[s])', 
                    ~(heirs'[device0[s]] \subseteq {who[s].owner}), NEW m \in Requests
             PROVE  class[s][m] = "none"
  BY DEF NothingRead
<1>1. ~Excused(device0[s]) /\ pc[s] = "write"
  BY ExcusedKept
<1>2. device0[s] = device0[r] => who[s].owner = who[r].owner
  BY <1>1 DEF OneMover, Excused, Moving
<1>3. ~(heirs[device0[s]] \subseteq {who[s].owner})
  BY <1>2
<1> QED BY <1>1, <1>3 DEF NothingRead

LEMMA MergeReaders ==
  ASSUME NEW r \in Requests, MergeMemories(r), OnCourse, Identified, TypeOK, OneMover, NothingRead
  PROVE  NothingRead'
<1>1. pc[r] \in Moving /\ \A s \in Requests : pc'[s] = "write" => pc[s] = "write"
  BY MoveFrame DEF Moving, TypeOK, RequestTypeOK
<1>2. \A s \in Requests : pc[s] = "write" => device0[s] \in Devices
  BY DEF Identified, TypeOK, RequestTypeOK, Merging, Moving
<1> QED BY <1>1, <1>2, MoveFrame, ReadersOfHeir DEF TypeOK, HistoryTypeOK

LEMMA TransferReaders ==
  ASSUME NEW r \in Requests, Transfer(r), Identified, TypeOK, OneMover, NothingRead
  PROVE  NothingRead'
<1>1. /\ pc[r] \in Moving /\ \A s \in Requests : pc'[s] = "write" => pc[s] = "write"
      /\ UNCHANGED <<who, device0, class, broken>> /\ late \subseteq late'
      /\ heirs' \in {heirs, [heirs EXCEPT ![device0[r]] = @ \cup {who[r].owner}]}
  BY DEF Transfer, Go, Moving, TypeOK, RequestTypeOK, held
<1>2. \A s \in Requests : pc[s] \in Moving => device0[s] \in Devices
  BY DEF Identified, TypeOK, RequestTypeOK, Merging
<1>3. "write" \in Moving
  BY DEF Moving
<1> QED BY <1>1, <1>2, <1>3, ReadersOfHeir DEF TypeOK, HistoryTypeOK

LEMMA ReadReaders ==
  ASSUME NEW r \in Requests, ReadMemories(r), Identified, TypeOK, Taught, OnlyLate, OneMover, OneReceiver, NothingRead
  PROVE  NothingRead'
<1> DEFINE x == device0[r]
           u == who[r].owner
<1>1. /\ pc[r] = "move" /\ pc' = [pc EXCEPT ![r] = "write"] /\ class' = [class EXCEPT ![r] = Classify(x, u)]
      /\ UNCHANGED <<who, device0, heirs, broken, late, memory>>
  BY DEF ReadMemories, Go, tables, ghosts
<1>2. x \in Devices
  BY <1>1 DEF Identified, TypeOK, RequestTypeOK, Merging, Moving
<1>3. \A d : Excused(d)' <=> Excused(d)
  BY <1>1 DEF Excused
<1>4. ASSUME ~Excused(x), ~(heirs[x] \subseteq {u}), NEW m \in Requests PROVE Classify(x, u)[m] = "none"
  <2>1. \A s \in Requests : HalfWay(s) /\ device0[s] = x => who[s].owner = u
    BY <1>1, <1>4 DEF OneMover, HalfWay, Moving, Excused
  <2>2. Handed(x)
    BY <1>2, <1>4, <2>1 DEF OneReceiver
  <2>3. ~Confirmed(m, x)
    BY <1>2, <1>4, <2>2 DEF Handed, OnlyLate, InTheNameOf, Taught, Excused, Confirmed, Kept
  <2> QED BY <2>3 DEF Classify
<1> QED BY <1>1, <1>3, <1>4 DEF NothingRead, TypeOK, RequestTypeOK

\* Only a merge that has read the memories may have read something.
LEMMA NothingReadStep ==
  ASSUME NothingRead, TypeOK, OnCourse, Identified, Taught, OnlyLate, OneMover, OneReceiver,
         pc \in [Requests -> Places], device0 \in [Requests -> Devices \cup {Nobody}],
         class \in [Requests -> [Requests -> {"none", "unique", "duplicate", "conflict"}]],
         late \subseteq Requests, Next
  PROVE  NothingRead'
<1>1. ASSUME NEW r \in Requests, Resolve(r) PROVE NothingRead'
  BY <1>1, ResolveReaders
<1>2. ASSUME NEW r \in Requests, ReadMemories(r) PROVE NothingRead'
  BY <1>2, ReadReaders
<1>3. ASSUME NEW r \in Requests, MergeMemories(r) PROVE NothingRead'
  BY <1>3, MergeReaders
<1>4. ASSUME NEW r \in Requests, Transfer(r) PROVE NothingRead'
  BY <1>4, TransferReaders
<1> USE DEF Moving, Merging, Ended, Active, Kind, tables, fixed, held, background, ghosts
<1>5. ASSUME NEW r \in Requests, Send(r) PROVE NothingRead'
  BY <1>5, OwnersAssumption, NothingReadKept DEF Send, Go, First
<1>6. ASSUME NEW r \in Requests, Claim(r) \/ Answer(r) PROVE NothingRead'
  BY <1>6, OwnersAssumption, NothingReadKept DEF Claim, Go, Answer
<1>7. ASSUME NEW r \in Requests, Respond(r) \/ ClaimJob(r) \/ FinishJob(r) \/ ReadCandidate(r)
      PROVE  NothingRead'
  BY <1>7, OwnersAssumption, NothingReadKept DEF Respond, Go, ClaimJob, Touched, FinishJob, ReadCandidate
<1>8. ASSUME NEW r \in Requests, Approve(r) \/ BeginLogin(r) \/ Consume(r) \/ Spend(r) PROVE NothingRead'
  BY <1>8, OwnersAssumption, NothingReadKept DEF Approve, SameSlot, BeginLogin, Go, Consume, Spend
<1>9. ASSUME NEW r \in Requests, Match(r) \/ Authenticate(r) \/ OpenSession(r) \/ Logout(r) PROVE NothingRead'
  BY <1>9, OwnersAssumption, NothingReadKept DEF Match, Go, Authenticate, OpenSession, Logout
<1>10. ASSUME NEW r \in Requests, Mint(r) \/ Revoke(r) \/ Source(r) \/ Begin(r) PROVE NothingRead'
  BY <1>10, OwnersAssumption, NothingReadKept DEF Mint, SetToken, Go, Revoke, Source, Begin, Job
<1>11. ASSUME NEW r \in Requests, Start(r) PROVE NothingRead'
  BY <1>11, OwnersAssumption, NothingReadKept DEF Start, Job, Contested, Go
<1>12. ASSUME NEW r \in Requests, Disable(r) \/ Complete(r) \/ Audit(r) \/ Clear(r) PROVE NothingRead'
  BY <1>12, OwnersAssumption, NothingReadKept DEF Disable, Go, Complete, Job, Audit, Clear
<1>13. ASSUME NEW r \in Requests, FailMerge(r) \/ Break(r) PROVE NothingRead'
  BY <1>13, OwnersAssumption, NothingReadKept DEF FailMerge, Job, Go, Break, HalfWay
<1>14. ASSUME Lapse \/ Stop PROVE NothingRead'
  BY <1>14, OwnersAssumption, NothingReadKept DEF Lapse, Stop, HalfWay
<1> QED
  BY <1>1, <1>2, <1>3, <1>4, <1>5, <1>6, <1>7, <1>8, <1>9, <1>10, <1>11, <1>12, <1>13, <1>14
     DEF Next

-----------------------------------------------------------------------------
(* What is remembered *)

LEMMA MergeExtraction ==
  ASSUME NEW r \in Requests, MergeMemories(r), OnCourse, Identified, TypeOK, Extraction
  PROVE  Extraction'
<1>1. PICK c \in [Requests -> {"none", "unique", "duplicate", "conflict"}] :
            /\ MoveMemory(r, c)
            /\ \/ pc[r] = "move" /\ database = "sqlite" /\ c = Classify(device0[r], who[r].owner)
               \/ pc[r] = "write" /\ database = "postgres" /\ c = class[r]
  BY MergeMoves DEF TypeOK
<1>2. UNCHANGED <<extracting, approving, database, class>> /\ pc' = [pc EXCEPT ![r] = "transfer"]
  BY MoveFrame
<1>3. \A m \in Requests : job'[m].status = job[m].status
  BY <1>1 DEF MoveMemory, TypeOK, MemoryTypeOK
<1>4. \A m \in Requests : memory[m].status = "none" => c[m] = "none"
  BY <1>1 DEF Extraction, Classify, Confirmed
<1>5. \A m \in Requests : memory'[m].status = "none" <=> memory[m].status = "none"
  BY <1>1, <1>4 DEF MoveMemory, TypeOK, MemoryTypeOK
<1>6. ASSUME NEW m \in Requests, database = "sqlite", memory[m].status = "candidate"
      PROVE  memory'[m].status = "candidate"
  BY <1>1, <1>6 DEF MoveMemory, Classify, Confirmed, TypeOK, MemoryTypeOK
<1>7. \A s \in Requests : pc'[s] \in {"new", "resolve", "claim", "run"} => pc[s] = pc'[s]
  BY <1>2 DEF TypeOK, RequestTypeOK
<1> QED BY <1>2, <1>3, <1>5, <1>6, <1>7 DEF Extraction

LEMMA ReadExtraction ==
  ASSUME NEW r \in Requests, ReadMemories(r), TypeOK, Extraction
  PROVE  Extraction'
<1>1. /\ UNCHANGED <<memory, job, extracting, approving, database>>
      /\ \A s \in Requests : pc'[s] \in {"new", "resolve", "claim", "run"} => pc'[s] = pc[s]
  BY DEF ReadMemories, Go, tables, fixed, background, TypeOK, RequestTypeOK
<1>2. \A m \in Requests : Classify(device0[r], who[r].owner)[m] # "none" => memory[m].status # "none"
  BY DEF Classify, Confirmed
<1>3. \A s, m \in Requests : class'[s][m] = class[s][m] \/ class'[s][m] = Classify(device0[r], who[r].owner)[m]
  BY DEF ReadMemories, TypeOK, RequestTypeOK
<1> QED BY <1>1, <1>2, <1>3 DEF Extraction

\* What a question taught is saved once.
LEMMA ExtractionStep ==
  ASSUME Extraction, OnCourse, TypeOK, Identified, pc \in [Requests -> Places],
         memory \in [Requests -> [owner : Owners \cup {Nobody}, status : {"none", "candidate", "confirmed", "expired", "deleted"}]],
         job \in [Requests -> [owner : Owners \cup {Nobody}, status : {"none", "queued", "running", "succeeded", "failed"}]],
         extracting \in [Requests -> Owners \cup {Nobody}], approving \in [Requests -> Owners \cup {Nobody}],
         class \in [Requests -> [Requests -> {"none", "unique", "duplicate", "conflict"}]],
         device0 \in [Requests -> Devices \cup {Nobody}],
         who \in [Requests -> [owner : Owners \cup {Nobody}, session : Requests \cup {Nobody}]], Next
  PROVE  Extraction'
<1>1. ASSUME NEW r \in Requests, ReadMemories(r) PROVE Extraction'
  BY <1>1, ReadExtraction
<1>2. ASSUME NEW r \in Requests, MergeMemories(r) PROVE Extraction'
  BY <1>2, MergeExtraction
<1> USE DEF Extraction, OnCourse, Moving, Merging, Ended, Owners, Unknown, Active, Kind, tables, fixed, held,
         background, ghosts
<1>3. ASSUME NEW r \in Requests, Send(r) \/ Resolve(r) \/ Claim(r) \/ Answer(r) PROVE Extraction'
  BY <1>3, OwnersAssumption DEF Send, Go, First, Resolve, ByToken, BySession, ByDevice, ActAs, AfterResolve,
         Claim, Answer
<1>4. ASSUME NEW r \in Requests, Respond(r) \/ ClaimJob(r) PROVE Extraction'
  BY <1>4, OwnersAssumption DEF Respond, Go, ClaimJob
<1>5. ASSUME NEW r \in Requests, FinishJob(r) \/ ReadCandidate(r) PROVE Extraction'
  BY <1>5, OwnersAssumption DEF FinishJob, ReadCandidate
<1>6. ASSUME NEW r \in Requests, Approve(r) PROVE Extraction'
  BY <1>6, OwnersAssumption DEF Approve, SameSlot
<1>7. ASSUME NEW r \in Requests, BeginLogin(r) PROVE Extraction'
  BY <1>7, OwnersAssumption DEF BeginLogin, Go
<1>8. ASSUME NEW r \in Requests, Consume(r) \/ Spend(r) PROVE Extraction'
  BY <1>8, OwnersAssumption DEF Consume, Go, Spend
<1>9. ASSUME NEW r \in Requests, Match(r) \/ Authenticate(r) \/ OpenSession(r) \/ Logout(r) PROVE Extraction'
  BY <1>9, OwnersAssumption DEF Match, Go, Authenticate, OpenSession, Logout
<1>10. ASSUME NEW r \in Requests, Mint(r) \/ Revoke(r) \/ Source(r) \/ Begin(r) PROVE Extraction'
  BY <1>10, OwnersAssumption DEF Mint, SetToken, Go, Revoke, Source, Begin, Job
<1>11. ASSUME NEW r \in Requests, Start(r) PROVE Extraction'
  BY <1>11, OwnersAssumption DEF Start, Job, Contested, Go
<1>12. ASSUME NEW r \in Requests, Transfer(r) PROVE Extraction'
  BY <1>12, OwnersAssumption DEF Transfer, Go
<1>13. ASSUME NEW r \in Requests, Disable(r) \/ Complete(r) \/ Audit(r) \/ Clear(r) PROVE Extraction'
  BY <1>13, OwnersAssumption DEF Disable, Go, Complete, Job, Audit, Clear
<1>14. ASSUME NEW r \in Requests, FailMerge(r) \/ Break(r) PROVE Extraction'
  BY <1>14, OwnersAssumption DEF FailMerge, Job, Go, Break, HalfWay
<1>15. ASSUME Lapse \/ Stop PROVE Extraction'
  BY <1>15, OwnersAssumption DEF Lapse, Stop, HalfWay
<1> QED
  BY <1>1, <1>2, <1>3, <1>4, <1>5, <1>6, <1>7, <1>8, <1>9, <1>10, <1>11, <1>12, <1>13, <1>14, <1>15
     DEF Next

LEMMA FactsKept ==
  ASSUME FactsSurvive, UNCHANGED <<memory, copies, database, ask>>
  PROVE  FactsSurvive'
BY DEF FactsSurvive, SameSlot

Survives(r) ==
  \/ \E u \in Users : <<r, u>> \in copies
  \/ \E m \in Requests : /\ m # r /\ ask[m].fact = ask[r].fact
                         /\ memory[m].owner \in Users /\ memory[m].status \in {"confirmed", "expired"}

LEMMA FinishFacts ==
  ASSUME NEW r \in Requests, FinishJob(r), TypeOK, Extraction, FactsSurvive
  PROVE  FactsSurvive'
<1>1. memory[r].status = "none" /\ UNCHANGED <<copies, ask, database>>
  BY DEF FinishJob, Extraction, fixed
<1>2. \A m \in Requests : memory'[m] = memory[m] \/ (m = r /\ memory'[m].status \in {"none", "candidate"})
  BY <1>1 DEF FinishJob, TypeOK, MemoryTypeOK
<1> QED BY <1>1, <1>2 DEF FactsSurvive, SameSlot

LEMMA ApproveFacts ==
  ASSUME NEW r \in Requests, Approve(r), TypeOK, Extraction, FactsSurvive
  PROVE  FactsSurvive'
<1> SUFFICES ASSUME database = "sqlite" PROVE FactsSurvive'
  BY DEF FactsSurvive, Approve, fixed
<1>1. memory[r].status = "candidate" /\ UNCHANGED <<copies, ask>>
  BY DEF Approve, Extraction, fixed
<1>2. /\ memory'[r] = [owner |-> approving[r], status |-> "confirmed"]
      /\ \A m \in Requests : m # r => /\ memory'[m].owner = memory[m].owner
                                      /\ \/ memory'[m].status = memory[m].status /\ ~SameSlot(r, m, approving[r])
                                         \/ memory'[m].status = "expired" /\ memory[m].status = "confirmed"
  BY DEF Approve, TypeOK, MemoryTypeOK, SameSlot
<1>3. ASSUME NEW s \in Requests, memory'[s].status = "deleted" PROVE Survives(s)'
  <2>1. s # r /\ memory[s].status = "deleted"
    BY <1>2, <1>3
  <2>2. Survives(s)
    BY <2>1 DEF FactsSurvive, Survives
  <2> QED BY <1>1, <1>2, <2>2 DEF Survives
<1>4. ASSUME NEW s \in Requests, NEW m \in Requests, s # m, SameSlot(s, m, memory[s].owner)', memory'[s].status = "confirmed"
      PROVE  FALSE
  <2>1. CASE s = r
    BY <1>1, <1>2, <1>4, <2>1 DEF SameSlot
  <2>2. CASE m = r
    BY <1>1, <1>2, <1>4, <2>2 DEF SameSlot
  <2>3. CASE s # r /\ m # r
    BY <1>1, <1>2, <1>4, <2>3 DEF SameSlot, FactsSurvive
  <2> QED BY <2>1, <2>2, <2>3
<1> QED BY <1>3, <1>4 DEF FactsSurvive, Survives

LEMMA MergeFacts ==
  ASSUME NEW r \in Requests, MergeMemories(r), OnCourse, Identified, TypeOK, FactsSurvive
  PROVE  FactsSurvive'
<1> SUFFICES ASSUME database = "sqlite" PROVE FactsSurvive'
  BY MoveFrame DEF FactsSurvive
<1> DEFINE x == device0[r]
           u == who[r].owner
           c == Classify(x, u)
<1>1. MoveMemory(r, c) /\ x \in Devices /\ u \in Users /\ ask' = ask /\ x # u
  <2>1. /\ \E b \in [Requests -> {"none", "unique", "duplicate", "conflict"}] :
               /\ MoveMemory(r, b)
               /\ \/ pc[r] = "move" /\ database = "sqlite" /\ b = c
                  \/ pc[r] = "write" /\ database = "postgres" /\ b = class[r]
        /\ x \in Devices /\ u \in Users /\ ask' = ask
    BY MergeMoves DEF TypeOK, fixed
  <2> QED BY <2>1, OwnersAssumption
<1>2. \A m \in Requests : memory[m] = [owner |-> memory[m].owner, status |-> memory[m].status]
  BY DEF TypeOK, MemoryTypeOK
<1>3. \A m \in Requests : Confirmed(m, x) <=> memory[m].owner = x /\ memory[m].status = "confirmed"
  BY <1>2 DEF Confirmed
<1>4. \A m \in Requests : Confirmed(m, u) <=> memory[m].owner = u /\ memory[m].status = "confirmed"
  BY <1>2 DEF Confirmed
<1>5. \A m \in Requests : /\ c[m] = "none" <=> ~Confirmed(m, x)
                          /\ c[m] = "duplicate" => \E k \in Requests : Confirmed(k, u) /\ ask[k].fact = ask[m].fact
                          /\ c[m] = "unique" => \A k \in Requests : Confirmed(k, u) => ask[k].subject # ask[m].subject
                          /\ c[m] \in {"none", "unique", "duplicate", "conflict"}
  BY DEF Classify
<1>6. \A m \in Requests : memory[m].owner = x /\ memory[m].status = "candidate" => c[m] = "none"
  BY <1>3, <1>5
<1> HIDE DEF c
<1>7. \A m \in Requests :
        \/ c[m] = "unique" /\ memory'[m] = [owner |-> u, status |-> "confirmed"]
        \/ c[m] \in {"duplicate", "conflict"} /\ memory'[m] = [owner |-> x, status |-> "deleted"]
        \/ c[m] = "none" /\ memory'[m].status = memory[m].status
               /\ (memory'[m].owner = memory[m].owner \/ (memory[m].owner = x /\ memory[m].status = "candidate"))
  <2> SUFFICES ASSUME NEW m \in Requests
               PROVE  \/ c[m] = "unique" /\ memory'[m] = [owner |-> u, status |-> "confirmed"]
                      \/ c[m] \in {"duplicate", "conflict"} /\ memory'[m] = [owner |-> x, status |-> "deleted"]
                      \/ c[m] = "none" /\ memory'[m].status = memory[m].status
                             /\ (memory'[m].owner = memory[m].owner \/ (memory[m].owner = x /\ memory[m].status = "candidate"))
    OBVIOUS
  <2>1. memory'[m] = IF c[m] = "unique" THEN [memory[m] EXCEPT !.owner = u]
                     ELSE IF c[m] # "none" THEN [memory[m] EXCEPT !.status = "deleted"]
                     ELSE IF Offered(m, x) THEN [memory[m] EXCEPT !.owner = u]
                     ELSE memory[m]
    BY <1>1 DEF MoveMemory
  <2>2. CASE c[m] # "none"
    <3>1. memory[m] = [owner |-> x, status |-> "confirmed"]
      BY <1>5, <2>2 DEF Confirmed
    <3> QED BY <1>5, <2>1, <2>2, <3>1
  <2>3. CASE c[m] = "none"
    <3>1. CASE Offered(m, x)
      <4>1. memory[m] = [owner |-> x, status |-> "candidate"]
        BY <3>1 DEF Offered
      <4>2. memory'[m] = [memory[m] EXCEPT !.owner = u]
        BY <2>1, <2>3, <3>1
      <4>3. memory'[m] = [owner |-> u, status |-> "candidate"]
        BY <4>1, <4>2
      <4> QED BY <2>3, <4>1, <4>3
    <3>2. CASE ~Offered(m, x)
      BY <2>1, <2>3, <3>2
    <3> QED BY <3>1, <3>2
  <2> QED BY <2>2, <2>3
<1>8. copies' = copies \cup {<<m, u>> : m \in {k \in Requests : c[k] = "conflict"}}
  BY <1>1 DEF MoveMemory
<1>9. ASSUME NEW m \in Requests, memory[m].owner \in Users, memory[m].status \in {"confirmed", "expired"}
      PROVE  memory'[m].owner = memory[m].owner /\ memory'[m].status = memory[m].status
  BY <1>1, <1>3, <1>5, <1>7, <1>9, OwnersAssumption
<1>10. ASSUME NEW s \in Requests, memory'[s].status = "deleted" PROVE Survives(s)'
  <2>1. CASE c[s] = "duplicate"
    <3>1. PICK k \in Requests : Confirmed(k, u) /\ ask[k].fact = ask[s].fact
      BY <1>5, <2>1
    <3>2. k # s
      BY <1>1, <1>3, <1>4, <1>5, <2>1, <3>1
    <3>3. memory[k].owner \in Users /\ memory[k].status = "confirmed"
      BY <1>1, <1>4, <3>1
    <3> QED BY <1>1, <1>9, <3>1, <3>2, <3>3 DEF Survives
  <2>2. CASE c[s] = "conflict"
    BY <1>1, <1>8, <2>2 DEF Survives
  <2>3. CASE c[s] \notin {"duplicate", "conflict"}
    <3>1. memory[s].status = "deleted"
      BY <1>7, <1>10, <2>3
    <3>2. Survives(s)
      BY <3>1 DEF FactsSurvive, Survives
    <3> QED BY <1>1, <1>8, <1>9, <3>2 DEF Survives
  <2> QED BY <2>1, <2>2, <2>3
<1>11. ASSUME NEW s \in Requests, NEW m \in Requests, s # m, memory'[m].owner = memory'[s].owner,
              memory'[m].status = "confirmed", ask[m].subject = ask[s].subject, memory'[s].status = "confirmed"
       PROVE  FALSE
  <2>1. \A k \in Requests : memory'[k].status = "confirmed" =>
            \/ c[k] = "unique" /\ Confirmed(k, x) /\ memory'[k].owner = u
            \/ c[k] = "none" /\ memory[k].status = "confirmed" /\ memory'[k].owner = memory[k].owner /\ memory[k].owner # x
    BY <1>3, <1>5, <1>7
  <2>2. \A a, b \in Requests : a # b /\ memory[a].status = "confirmed" /\ memory[b].status = "confirmed"
                                 /\ memory[a].owner = memory[b].owner => ask[a].subject # ask[b].subject
    BY DEF FactsSurvive, SameSlot
  <2>3. CASE c[s] = "unique" /\ c[m] = "unique"
    BY <1>3, <1>11, <2>1, <2>2, <2>3
  <2>4. CASE c[s] = "unique" /\ c[m] = "none"
    BY <1>4, <1>5, <1>11, <2>1, <2>4
  <2>5. CASE c[s] = "none" /\ c[m] = "unique"
    BY <1>4, <1>5, <1>11, <2>1, <2>5
  <2>6. CASE c[s] = "none" /\ c[m] = "none"
    BY <1>11, <2>1, <2>2, <2>6
  <2> QED BY <1>11, <2>1, <2>3, <2>4, <2>5, <2>6
<1> QED BY <1>1, <1>10, <1>11 DEF FactsSurvive, Survives, SameSlot

\* The other steps leave the memories alone.
LEMMA FactsSurviveStep ==
  ASSUME FactsSurvive, TypeOK, OnCourse, Identified, Extraction,
         memory \in [Requests -> [owner : Owners \cup {Nobody}, status : {"none", "candidate", "confirmed", "expired", "deleted"}]],
         Next
  PROVE  FactsSurvive'
<1>1. ASSUME NEW r \in Requests, FinishJob(r) PROVE FactsSurvive'
  BY <1>1, FinishFacts
<1>2. ASSUME NEW r \in Requests, Approve(r) PROVE FactsSurvive'
  BY <1>2, ApproveFacts
<1>3. ASSUME NEW r \in Requests, MergeMemories(r) PROVE FactsSurvive'
  BY <1>3, MergeFacts
<1> USE DEF Moving, Merging, Ended, Active, Kind, tables, fixed, held, background, ghosts
<1>4. ASSUME NEW r \in Requests, Send(r) \/ Resolve(r) \/ Claim(r) \/ Answer(r) PROVE FactsSurvive'
  BY <1>4, OwnersAssumption, FactsKept DEF Send, Go, First, Resolve, ByToken, BySession, ByDevice, ActAs,
         AfterResolve, Claim, Answer
<1>5. ASSUME NEW r \in Requests, Respond(r) \/ ClaimJob(r) PROVE FactsSurvive'
  BY <1>5, OwnersAssumption, FactsKept DEF Respond, Go, ClaimJob
<1>6. ASSUME NEW r \in Requests, ReadCandidate(r) PROVE FactsSurvive'
  BY <1>6, OwnersAssumption, FactsKept DEF ReadCandidate
<1>7. ASSUME NEW r \in Requests, BeginLogin(r) PROVE FactsSurvive'
  BY <1>7, OwnersAssumption, FactsKept DEF BeginLogin, Go
<1>8. ASSUME NEW r \in Requests, Consume(r) \/ Spend(r) PROVE FactsSurvive'
  BY <1>8, OwnersAssumption, FactsKept DEF Consume, Go, Spend
<1>9. ASSUME NEW r \in Requests, Match(r) \/ Authenticate(r) \/ OpenSession(r) \/ Logout(r) PROVE FactsSurvive'
  BY <1>9, OwnersAssumption, FactsKept DEF Match, Go, Authenticate, OpenSession, Logout
<1>10. ASSUME NEW r \in Requests, Mint(r) \/ Revoke(r) \/ Source(r) \/ Begin(r) PROVE FactsSurvive'
  BY <1>10, OwnersAssumption, FactsKept DEF Mint, SetToken, Go, Revoke, Source, Begin, Job
<1>11. ASSUME NEW r \in Requests, Start(r) \/ ReadMemories(r) PROVE FactsSurvive'
  BY <1>11, OwnersAssumption, FactsKept DEF Start, Job, Contested, Go, ReadMemories, Classify
<1>12. ASSUME NEW r \in Requests, Transfer(r) PROVE FactsSurvive'
  BY <1>12, OwnersAssumption, FactsKept DEF Transfer, Go
<1>13. ASSUME NEW r \in Requests, Disable(r) \/ Complete(r) \/ Audit(r) \/ Clear(r) PROVE FactsSurvive'
  BY <1>13, OwnersAssumption, FactsKept DEF Disable, Go, Complete, Job, Audit, Clear
<1>14. ASSUME NEW r \in Requests, FailMerge(r) \/ Break(r) PROVE FactsSurvive'
  BY <1>14, OwnersAssumption, FactsKept DEF FailMerge, Job, Go, Break, HalfWay
<1>15. ASSUME Lapse \/ Stop PROVE FactsSurvive'
  BY <1>15, OwnersAssumption, FactsKept DEF Lapse, Stop, HalfWay
<1> QED
  BY <1>1, <1>2, <1>3, <1>4, <1>5, <1>6, <1>7, <1>8, <1>9, <1>10, <1>11, <1>12, <1>13, <1>14, <1>15
     DEF Next

-----------------------------------------------------------------------------
(* The browser's cookies *)

\* A request that comes while another is under way disturbs.
LEMMA OneByOneStep ==
  ASSUME OneByOne, pc \in [Requests -> Places], sent \in [Requests -> Jars], jar \in Jars, Next
  PROVE  OneByOne'
<1> USE DEF OneByOne, Moving, Merging, Ended, Active, Kind, tables, fixed, held, background, ghosts
<1>1. ASSUME NEW r \in Requests, Send(r) PROVE OneByOne'
  BY <1>1, OwnersAssumption DEF Send, Go, First
<1>2. ASSUME NEW r \in Requests, Resolve(r) PROVE OneByOne'
  BY <1>2, OwnersAssumption DEF Resolve, ByToken, BySession, ByDevice, ActAs, AfterResolve, Go
<1>3. ASSUME NEW r \in Requests, Claim(r) \/ Answer(r) PROVE OneByOne'
  BY <1>3, OwnersAssumption DEF Claim, Go, Answer
<1>4. ASSUME NEW r \in Requests, Respond(r) \/ ClaimJob(r) \/ FinishJob(r) \/ ReadCandidate(r) PROVE OneByOne'
  BY <1>4, OwnersAssumption DEF Respond, Go, Merged, ClaimJob, FinishJob, ReadCandidate
<1>5. ASSUME NEW r \in Requests, Approve(r) \/ BeginLogin(r) \/ Consume(r) \/ Spend(r) PROVE OneByOne'
  BY <1>5, OwnersAssumption DEF Approve, BeginLogin, Go, Consume, Spend
<1>6. ASSUME NEW r \in Requests, Match(r) \/ Authenticate(r) \/ OpenSession(r) \/ Logout(r) PROVE OneByOne'
  BY <1>6, OwnersAssumption DEF Match, Go, Authenticate, OpenSession, Logout
<1>7. ASSUME NEW r \in Requests, Mint(r) \/ Revoke(r) \/ Source(r) \/ Begin(r) PROVE OneByOne'
  BY <1>7, OwnersAssumption DEF Mint, SetToken, Go, Revoke, Source, Begin, Job
<1>8. ASSUME NEW r \in Requests, Start(r) \/ ReadMemories(r) \/ MergeMemories(r) \/ Transfer(r) PROVE OneByOne'
  BY <1>8, OwnersAssumption DEF Start, Job, Contested, Go, ReadMemories, MergeMemories, Transfer
<1>9. ASSUME NEW r \in Requests, Disable(r) \/ Complete(r) \/ Audit(r) \/ Clear(r) PROVE OneByOne'
  BY <1>9, OwnersAssumption DEF Disable, Go, Complete, Job, Audit, Clear
<1>10. ASSUME NEW r \in Requests, FailMerge(r) \/ Break(r) PROVE OneByOne'
  BY <1>10, OwnersAssumption DEF FailMerge, Job, Go, Break, HalfWay
<1>11. ASSUME Lapse \/ Stop PROVE OneByOne'
  BY <1>11, OwnersAssumption DEF Lapse, Stop, HalfWay
<1> QED
  BY <1>1, <1>2, <1>3, <1>4, <1>5, <1>6, <1>7, <1>8, <1>9, <1>10, <1>11
     DEF Next

LEMMA AloneAndJar ==
  ASSUME OneByOne, ~disturbed, NEW r \in Requests, Active(r)
  PROVE  /\ \A s \in Requests : Active(s) => s = r
         /\ sent[r] = jar
BY DEF OneByOne

LEMMA RespondAlone ==
  ASSUME NEW r \in Requests, Respond(r), OneByOne, TypeOK, ~disturbed'
  PROVE  /\ ~disturbed /\ Kind(r) # "logout" /\ pc[r] = "respond" /\ Active(r) /\ sent[r] = jar
         /\ \A s \in Requests : ~Active(s)' /\ (s # r => ~Active(s))
         /\ jar' = CASE Kind(r) = "ask" /\ who[r].session # Nobody -> [jar EXCEPT !.session = sent[r].session]
                     [] Kind(r) = "ask" /\ who[r].session = Nobody ->
                            [device |-> who[r].owner, session |-> IF sent[r].session # Nobody THEN Nobody ELSE jar.session]
                     [] Kind(r) = "login" -> [jar EXCEPT !.device = who[r].owner]
                     [] Kind(r) = "callback" -> [jar EXCEPT !.session = r]
                     [] Merged(r) -> [jar EXCEPT !.device = Nobody]
                     [] Kind(r) = "logout" -> [device |-> Nobody, session |-> Nobody]
                     [] OTHER -> jar
         /\ UNCHANGED <<device, session, owner, who, device0, sent, ask>>
<1>1. /\ ~disturbed /\ Kind(r) # "logout" /\ pc[r] = "respond" /\ Active(r) /\ pc' = [pc EXCEPT ![r] = "done"]
  BY DEF Respond, Go, Active, Ended
<1>2. sent[r] = jar /\ \A s \in Requests : s # r => ~Active(s)
  BY <1>1 DEF OneByOne
<1>3. \A s \in Requests : ~Active(s)'
  BY <1>1, <1>2 DEF Active, Ended, TypeOK, RequestTypeOK
<1> QED BY <1>1, <1>2, <1>3 DEF Respond, tables, held, fixed

LEMMA RespondJar ==
  ASSUME NEW r \in Requests, Respond(r), OneByOne, TypeOK, ~disturbed'
  PROVE  \/ Kind(r) = "ask" /\ who[r].session # Nobody /\ jar' = jar
         \/ Kind(r) = "ask" /\ who[r].session = Nobody /\ jar' = [device |-> who[r].owner, session |-> Nobody]
         \/ Kind(r) = "login" /\ jar' = [device |-> who[r].owner, session |-> jar.session]
         \/ Kind(r) = "callback" /\ jar' = [device |-> jar.device, session |-> r]
         \/ Merged(r) /\ jar' = [device |-> Nobody, session |-> jar.session]
         \/ Kind(r) \notin {"ask", "login", "callback"} /\ ~Merged(r) /\ jar' = jar
<1>1. jar = [device |-> jar.device, session |-> jar.session]
  BY DEF TypeOK, RequestTypeOK, Jars
<1>2. /\ Kind(r) # "logout" /\ sent[r] = jar
      /\ jar' = CASE Kind(r) = "ask" /\ who[r].session # Nobody -> [jar EXCEPT !.session = sent[r].session]
                     [] Kind(r) = "ask" /\ who[r].session = Nobody ->
                            [device |-> who[r].owner, session |-> IF sent[r].session # Nobody THEN Nobody ELSE jar.session]
                     [] Kind(r) = "login" -> [jar EXCEPT !.device = who[r].owner]
                     [] Kind(r) = "callback" -> [jar EXCEPT !.session = r]
                     [] Merged(r) -> [jar EXCEPT !.device = Nobody]
                     [] Kind(r) = "logout" -> [device |-> Nobody, session |-> Nobody]
                     [] OTHER -> jar
  BY RespondAlone
<1>3. CASE Kind(r) = "ask" /\ who[r].session # Nobody
  <2>1. jar' = [jar EXCEPT !.session = sent[r].session]
    BY <1>2, <1>3 DEF Merged
  <2> QED BY <1>1, <1>2, <1>3, <2>1
<1>4. CASE Kind(r) = "ask" /\ who[r].session = Nobody
  BY <1>2, <1>4 DEF Merged
<1>5. CASE Kind(r) = "login"
  <2>1. jar' = [jar EXCEPT !.device = who[r].owner]
    BY <1>2, <1>5 DEF Merged
  <2> QED BY <1>1, <1>5, <2>1
<1>6. CASE Kind(r) = "callback"
  <2>1. jar' = [jar EXCEPT !.session = r]
    BY <1>2, <1>6 DEF Merged
  <2> QED BY <1>1, <1>6, <2>1
<1>7. CASE Kind(r) \notin {"ask", "login", "callback"} /\ Merged(r)
  <2>1. jar' = [jar EXCEPT !.device = Nobody]
    BY <1>2, <1>7 DEF Merged
  <2> QED BY <1>1, <1>7, <2>1
<1>8. CASE Kind(r) \notin {"ask", "login", "callback"} /\ ~Merged(r)
  BY <1>2, <1>8
<1> QED BY <1>3, <1>4, <1>5, <1>6, <1>7, <1>8

LEMMA SendAlone ==
  ASSUME NEW r \in Requests, Send(r), TypeOK, ~disturbed'
  PROVE  /\ ~disturbed /\ pc[r] = "new" /\ pc'[r] \in {"consume", "resolve"}
         /\ \A s \in Requests : ~Active(s) /\ (s # r => ~Active(s)')
         /\ UNCHANGED <<device, session, owner, who, device0, jar, ask>>
<1>1. /\ ~disturbed /\ \A s \in Requests : ~Active(s)
      /\ pc[r] = "new" /\ pc' = [pc EXCEPT ![r] = First(r)]
      /\ UNCHANGED <<device, session, owner, who, device0, jar, ask>>
  BY DEF Send, Go, tables, fixed
<1>2. pc'[r] \in {"consume", "resolve"} /\ \A s \in Requests : s # r => pc'[s] = pc[s]
  BY <1>1 DEF First, TypeOK, RequestTypeOK
<1> QED BY <1>1, <1>2 DEF Active

LEMMA SendCookies ==
  ASSUME NEW r \in Requests, Send(r), TypeOK, Identified
  PROVE  /\ CookieInUse => CookieInUse'
         /\ SessionOfDevice => SessionOfDevice'
<1> SUFFICES ASSUME ~disturbed'
             PROVE  /\ CookieInUse => CookieInUse'
                    /\ SessionOfDevice => SessionOfDevice'
  BY DEF CookieInUse, SessionOfDevice
<1>1. /\ ~disturbed /\ pc[r] = "new" /\ pc'[r] \in {"consume", "resolve"}
      /\ \A s \in Requests : ~Active(s) /\ (s # r => ~Active(s)')
      /\ UNCHANGED <<device, session, owner, who, device0, jar, ask>>
  BY SendAlone
<1>2. who[r].owner \notin Devices
  BY <1>1, OwnersAssumption DEF Identified, Unknown
<1>3. CookieInUse => CookieInUse'
  BY <1>1, <1>2 DEF CookieInUse, Active, Ended
<1>4. SessionOfDevice => SessionOfDevice'
  BY <1>1 DEF SessionOfDevice, Active, Ended, Merging, Moving
<1> QED BY <1>3, <1>4

LEMMA ResolveAlone ==
  ASSUME NEW r \in Requests, Resolve(r), TypeOK, OnCourse, Identified, OneByOne, ~disturbed'
  PROVE  /\ ~disturbed /\ Active(r) /\ sent[r] = jar /\ pc[r] = "resolve"
         /\ pc'[r] \in {"claim", "state", "source", "logout", "token", "refused"}
         /\ \A s \in Requests : s # r => ~Active(s) /\ ~Active(s)'
         /\ UNCHANGED <<session, owner, device0, jar, ask, sent>>
<1>1. /\ UNCHANGED <<disturbed, session, owner, device0, jar, ask, sent>>
      /\ \A s \in Requests : s # r => pc'[s] = pc[s]
      /\ pc[r] = "resolve" /\ pc'[r] \in {"claim", "state", "source", "logout", "token", "refused"}
  BY ResolveFrame DEF TypeOK, Resolve, fixed
<1>2. Active(r)
  BY <1>1 DEF Active, Ended
<1> QED BY <1>1, <1>2 DEF OneByOne, Active

LEMMA RespondCookie ==
  ASSUME NEW r \in Requests, Respond(r), OneByOne, TypeOK, Identified, CookieInUse
  PROVE  CookieInUse'
<1> SUFFICES ASSUME ~disturbed' PROVE CookieInUse'
  BY DEF CookieInUse
<1>1. /\ ~disturbed /\ pc[r] = "respond" /\ Active(r) /\ sent[r] = jar
      /\ \A s \in Requests : ~Active(s)' /\ (s # r => ~Active(s))
      /\ UNCHANGED <<device, session, owner, who, device0, sent, ask>>
  BY RespondAlone
<1>2. /\ jar.device # Nobody =>
               \/ device[jar.device] = "active"
               \/ Kind(r) = "merge" /\ device0[r] = jar.device
      /\ who[r].owner \in Devices => device[who[r].owner] = "active" /\ jar.device \in {Nobody, who[r].owner}
  BY <1>1 DEF CookieInUse, Active, Ended
<1>3. /\ Kind(r) = "ask" /\ who[r].session = Nobody => who[r].owner \in Devices
      /\ Kind(r) = "login" => who[r].owner \in Devices
  BY <1>1 DEF Identified
<1>4. jar'.device # Nobody => device[jar'.device] = "active"
  BY <1>2, <1>3, RespondJar DEF Merged
<1> QED BY <1>1, <1>4 DEF CookieInUse

LEMMA ResolveCookie ==
  ASSUME NEW r \in Requests, Resolve(r), TypeOK, OnCourse, Identified, Credentials, OneByOne, CookieInUse
  PROVE  CookieInUse'
<1> SUFFICES ASSUME ~disturbed' PROVE CookieInUse'
  BY DEF CookieInUse
<1>1. /\ ~disturbed /\ Active(r) /\ sent[r] = jar /\ pc[r] = "resolve"
      /\ pc'[r] \in {"claim", "state", "source", "logout", "token", "refused"}
      /\ \A s \in Requests : s # r => ~Active(s) /\ ~Active(s)'
      /\ UNCHANGED <<session, owner, device0, jar, ask, sent>>
  BY ResolveAlone
<1>2. jar.device # Nobody => device[jar.device] = "active" /\ jar.device \in Devices
  BY <1>1 DEF CookieInUse, Active, Ended, TypeOK, RequestTypeOK, Jars
<1>3. jar.device # Nobody => device'[jar.device] = "active"
  BY <1>2, ResolveFrame DEF TypeOK
<1>4. ASSUME who'[r].owner \in Devices
      PROVE  device'[who'[r].owner] = "active" /\ jar.device \in {Nobody, who'[r].owner}
  <2>1. CASE UNCHANGED <<who, late, device>>
    BY <1>4, <2>1, ResolveFrame, OwnersAssumption DEF TypeOK, Unknown
  <2>2. CASE \E x \in Users : ActAs(r, x, Nobody) \/ ActAs(r, x, sent[r].session)
    BY <1>4, <2>2, OwnersAssumption DEF ActAs, TypeOK, RequestTypeOK
  <2>3. CASE \E d \in Devices :
             /\ ActAs(r, d, Nobody)
             /\ \/ d = sent[r].device /\ device[d] = "active" /\ device' = device
                \/ ~Remembered(r) /\ device[d] = "none" /\ device' = [device EXCEPT ![d] = "active"]
    <3>1. PICK d \in Devices :
             /\ ActAs(r, d, Nobody)
             /\ \/ d = sent[r].device /\ device[d] = "active" /\ device' = device
                \/ ~Remembered(r) /\ device[d] = "none" /\ device' = [device EXCEPT ![d] = "active"]
      BY <2>3
    <3>2. who'[r].owner = d
      BY <3>1 DEF ActAs, TypeOK, RequestTypeOK
    <3>3. ~Remembered(r) => jar.device = Nobody
      BY <1>1, <1>2 DEF Remembered
    <3> QED BY <1>1, <3>1, <3>2, <3>3 DEF TypeOK, TableTypeOK
  <2>4. \A x \in Requests : session[x].status = "active" => session[x].user \in Users
    BY DEF Credentials
  <2> QED BY <2>1, <2>2, <2>3, <2>4, ResolveCases DEF TypeOK
<1> QED BY <1>1, <1>3, <1>4 DEF CookieInUse

LEMMA DisableCookie ==
  ASSUME NEW r \in Requests, Disable(r), TypeOK, OnCourse, Identified, OneByOne, SessionOfDevice, CookieInUse
  PROVE  CookieInUse'
<1> SUFFICES ASSUME ~disturbed' PROVE CookieInUse'
  BY DEF CookieInUse
<1>1. /\ ~disturbed /\ UNCHANGED <<jar, who, device0, ask>> /\ pc[r] = "disable" /\ pc' = [pc EXCEPT ![r] = "complete"]
      /\ Active(r) /\ Kind(r) = "merge"
  BY DEF Disable, Go, ghosts, held, fixed, Active, Ended, OnCourse, Merging, Moving
<1>2. \A s \in Requests : s # r => ~Active(s) /\ ~Active(s)'
  BY <1>1 DEF OneByOne, Active, TypeOK, RequestTypeOK
<1>3. who[r].owner \notin Devices
  BY <1>1, OwnersAssumption DEF Identified, Merging, Moving
<1>4. device0[r] = jar.device /\ pc'[r] = "complete"
  BY <1>1 DEF SessionOfDevice, Merging, Moving, TypeOK, RequestTypeOK
<1> QED BY <1>1, <1>2, <1>3, <1>4 DEF CookieInUse, Kind

LEMMA CookieKept ==
  ASSUME CookieInUse,
         \/ disturbed'
         \/ /\ UNCHANGED <<jar, who, ask, device>> /\ ~disturbed
            /\ \A s \in Requests : /\ Active(s)' => Active(s)
                                   /\ Kind(s) = "merge" /\ pc[s] \in {"complete", "audit", "clear", "respond"} =>
                                          pc'[s] \in {"complete", "audit", "clear", "respond"} /\ device0'[s] = device0[s]
  PROVE  CookieInUse'
BY DEF CookieInUse, Kind

\* The other steps leave devices and cookies alone, and no merge past its transfer begins.
LEMMA CookieInUseStep ==
  ASSUME CookieInUse, TypeOK, OnCourse, Identified, Credentials, OneByOne, SessionOfDevice,
         pc \in [Requests -> Places], device0 \in [Requests -> Devices \cup {Nobody}],
         device \in [Devices -> {"none", "active", "expired", "disabled", "deleted"}], Next
  PROVE  CookieInUse'
<1>1. ASSUME NEW r \in Requests, Send(r) PROVE CookieInUse'
  BY <1>1, SendCookies
<1>2. ASSUME NEW r \in Requests, Resolve(r) PROVE CookieInUse'
  BY <1>2, ResolveCookie
<1>3. ASSUME NEW r \in Requests, Disable(r) PROVE CookieInUse'
  BY <1>3, DisableCookie
<1>4. ASSUME NEW r \in Requests, Respond(r) PROVE CookieInUse'
  BY <1>4, RespondCookie
<1> USE DEF OnCourse, Moving, Merging, Ended, Active, Kind, tables, fixed, held, background, ghosts
<1>5. ASSUME NEW r \in Requests, Claim(r) \/ Answer(r) PROVE CookieInUse'
  BY <1>5, OwnersAssumption, CookieKept DEF Claim, Go, Answer
<1>6. ASSUME NEW r \in Requests, ClaimJob(r) PROVE CookieInUse'
  BY <1>6, OwnersAssumption, CookieKept DEF ClaimJob
<1>7. ASSUME NEW r \in Requests, FinishJob(r) \/ ReadCandidate(r) PROVE CookieInUse'
  BY <1>7, OwnersAssumption, CookieKept DEF FinishJob, ReadCandidate
<1>8. ASSUME NEW r \in Requests, Approve(r) \/ BeginLogin(r) \/ Consume(r) \/ Spend(r) PROVE CookieInUse'
  BY <1>8, OwnersAssumption, CookieKept DEF Approve, BeginLogin, Go, Consume, Spend
<1>9. ASSUME NEW r \in Requests, Match(r) \/ Authenticate(r) \/ OpenSession(r) \/ Logout(r) PROVE CookieInUse'
  BY <1>9, OwnersAssumption, CookieKept DEF Match, Go, Authenticate, OpenSession, Logout
<1>10. ASSUME NEW r \in Requests, Mint(r) \/ Revoke(r) \/ Source(r) \/ Begin(r) PROVE CookieInUse'
  BY <1>10, OwnersAssumption, CookieKept DEF Mint, SetToken, Go, Revoke, Source, Begin, Job
<1>11. ASSUME NEW r \in Requests, Start(r) \/ ReadMemories(r) \/ MergeMemories(r) \/ Transfer(r)
      PROVE  CookieInUse'
  BY <1>11, OwnersAssumption, CookieKept DEF Start, Job, Contested, Go, ReadMemories, MergeMemories, Transfer
<1>12. ASSUME NEW r \in Requests, Complete(r) PROVE CookieInUse'
  BY <1>12, OwnersAssumption, CookieKept DEF Complete, Job, Go
<1>13. ASSUME NEW r \in Requests, Audit(r) \/ Clear(r) PROVE CookieInUse'
  BY <1>13, OwnersAssumption, CookieKept DEF Audit, Go, Clear
<1>14. ASSUME NEW r \in Requests, FailMerge(r) \/ Break(r) PROVE CookieInUse'
  BY <1>14, OwnersAssumption, CookieKept DEF FailMerge, Job, Go, Break, HalfWay
<1>15. ASSUME Lapse \/ Stop PROVE CookieInUse'
  BY <1>15, OwnersAssumption, CookieKept DEF Lapse, Stop, HalfWay
<1> QED
  BY <1>1, <1>2, <1>3, <1>4, <1>5, <1>6, <1>7, <1>8, <1>9, <1>10, <1>11, <1>12, <1>13, <1>14, <1>15
     DEF Next

LEMMA RespondSession ==
  ASSUME NEW r \in Requests, Respond(r), OneByOne, TypeOK, Identified, CookieInUse, SessionOfDevice
  PROVE  SessionOfDevice'
<1> SUFFICES ASSUME ~disturbed' PROVE SessionOfDevice'
  BY DEF SessionOfDevice
<1>1. /\ ~disturbed /\ pc[r] = "respond" /\ Active(r) /\ sent[r] = jar
      /\ \A s \in Requests : ~Active(s)'
      /\ UNCHANGED <<device, session, owner, who, device0, sent, ask>>
  BY RespondAlone
<1>2. who[r].owner \in Devices => jar.device \in {Nobody, who[r].owner}
  BY <1>1 DEF CookieInUse
<1>3. Kind(r) = "login" => who[r].owner \in Devices
  BY <1>1 DEF Identified
<1>4. /\ jar.session # Nobody => session[jar.session].source \in {Nobody, jar.device}
      /\ Kind(r) = "callback" => session[r].source \in {Nobody, jar.device}
      /\ Merged(r) => session[jar.session].source = Nobody
  BY <1>1 DEF SessionOfDevice, Merged
<1>5. jar'.session # Nobody => session[jar'.session].source \in {Nobody, jar'.device}
  BY <1>2, <1>3, <1>4, RespondJar
<1> QED BY <1>1, <1>5 DEF SessionOfDevice, Active, Ended, Merging, Moving

LEMMA ResolveSession ==
  ASSUME NEW r \in Requests, Resolve(r), TypeOK, OnCourse, Identified, OneByOne, SessionOfDevice
  PROVE  SessionOfDevice'
<1> SUFFICES ASSUME ~disturbed' PROVE SessionOfDevice'
  BY DEF SessionOfDevice
<1> QED BY ResolveAlone DEF SessionOfDevice, Active, Ended, Merging, Moving

LEMMA SourcesKept ==
  ASSUME SessionOfDevice, disturbed => disturbed', UNCHANGED <<jar, sent, device0, ask>>,
         \A s \in Requests : session'[s].source = session[s].source, jar.session \in Requests \cup {Nobody},
         \A s \in Requests : pc'[s] \in {"feishu", "session", "respond"} \cup Merging =>
             pc'[s] = pc[s] \/ (pc'[s] = "respond" /\ Kind(s) \notin {"callback", "merge"})
  PROVE  SessionOfDevice'
<1>1. ASSUME NEW s \in Requests, pc'[s] \in {"feishu", "session", "respond"} \cup Merging, Kind(s) \in {"callback", "merge"} \/ pc'[s] \in Merging
      PROVE  pc'[s] = pc[s]
  BY <1>1 DEF Merging, Moving
<1>2. \A s \in Requests : Kind(s)' = Kind(s)
  BY DEF Kind
<1> QED BY <1>1, <1>2 DEF SessionOfDevice

LEMMA LogoutSession ==
  ASSUME NEW r \in Requests, Logout(r), TypeOK, OnCourse, SessionOfDevice
  PROVE  SessionOfDevice'
<1>1. UNCHANGED <<jar, sent, device0, ask, disturbed>> /\ pc[r] = "logout" /\ pc' = [pc EXCEPT ![r] = "respond"]
      /\ \A s \in Requests : session'[s].source = session[s].source
  BY DEF Logout, Go, held, fixed, ghosts, TypeOK, TableTypeOK
<1>2. Kind(r) \notin {"callback", "merge"} /\ jar.session \in Requests \cup {Nobody}
  BY <1>1 DEF OnCourse, TypeOK, RequestTypeOK, Jars
<1> QED BY <1>1, <1>2, SourcesKept DEF TypeOK, RequestTypeOK

LEMMA LapseSession ==
  ASSUME Lapse, TypeOK, SessionOfDevice
  PROVE  SessionOfDevice'
<1>1. UNCHANGED <<jar, sent, device0, ask, pc>> /\ (disturbed => disturbed')
  BY DEF Lapse, held, fixed
<1>2. \A s \in Requests : session'[s].source = session[s].source
  BY DEF Lapse, TypeOK, TableTypeOK
<1>3. jar.session \in Requests \cup {Nobody}
  BY DEF TypeOK, RequestTypeOK, Jars
<1> QED BY <1>1, <1>2, <1>3, SourcesKept

LEMMA SourceSession ==
  ASSUME NEW r \in Requests, Source(r), TypeOK, OnCourse, Identified, OneByOne, SessionOfDevice
  PROVE  SessionOfDevice'
<1> SUFFICES ASSUME ~disturbed' PROVE SessionOfDevice'
  BY DEF SessionOfDevice
<1> DEFINE d == session[who[r].session].source
<1>1. /\ ~disturbed /\ UNCHANGED <<jar, sent, who, session, ask>>
      /\ pc[r] = "source" /\ pc' = [pc EXCEPT ![r] = IF d = Nobody THEN "respond" ELSE IF Kind(r) = "decline" THEN "clear" ELSE "begin"]
      /\ device0' = [device0 EXCEPT ![r] = d] /\ Active(r)
  BY DEF Source, Go, ghosts, held, fixed, tables, Active, Ended
<1>2. \A s \in Requests : s # r => ~Active(s) /\ ~Active(s)'
  BY <1>1 DEF OneByOne, Active, TypeOK, RequestTypeOK
<1>3. who[r].session = jar.session /\ jar.session # Nobody /\ Kind(r) # "callback"
  BY <1>1 DEF Identified, OneByOne, OnCourse
<1>4. d \in {Nobody, jar.device}
  BY <1>1, <1>3 DEF SessionOfDevice
<1>5. device0'[r] = d /\ pc'[r] \in {"respond", "clear", "begin"} /\ (pc'[r] = "respond" <=> d = Nobody)
  BY <1>1 DEF TypeOK, RequestTypeOK
<1> QED BY <1>1, <1>2, <1>3, <1>4, <1>5 DEF SessionOfDevice, Active, Ended, Merging, Moving, Kind

LEMMA ClearSession ==
  ASSUME NEW r \in Requests, Clear(r), TypeOK, OnCourse, Identified, OneByOne, SessionOfDevice
  PROVE  SessionOfDevice'
<1> SUFFICES ASSUME ~disturbed' PROVE SessionOfDevice'
  BY DEF SessionOfDevice
<1>1. /\ ~disturbed /\ UNCHANGED <<jar, sent, who, device0, ask>>
      /\ pc[r] = "clear" /\ pc' = [pc EXCEPT ![r] = "respond"]
      /\ session' = [session EXCEPT ![who[r].session].source = Nobody] /\ Active(r)
  BY DEF Clear, Go, ghosts, held, fixed, Active, Ended
<1>2. \A s \in Requests : s # r => ~Active(s) /\ ~Active(s)'
  BY <1>1 DEF OneByOne, Active, TypeOK, RequestTypeOK
<1>3. who[r].session = jar.session /\ jar.session \in Requests /\ jar.session # Nobody /\ Kind(r) # "callback"
  <2>1. jar.session \in Requests \cup {Nobody}
    BY DEF TypeOK, RequestTypeOK, Jars
  <2>2. sent[r] = jar /\ Kind(r) # "callback" /\ who[r].session # Nobody /\ who[r].session = sent[r].session
    BY <1>1 DEF Identified, OneByOne, OnCourse, Merging
  <2> QED BY <2>1, <2>2
<1>4. session'[jar.session].source = Nobody
  BY <1>1, <1>3 DEF TypeOK, TableTypeOK
<1>5. device0[r] = jar.device /\ pc'[r] = "respond"
  BY <1>1 DEF SessionOfDevice, Merging, TypeOK, RequestTypeOK
<1> QED BY <1>1, <1>2, <1>3, <1>4, <1>5 DEF SessionOfDevice, Active, Ended, Merging, Moving, Kind

LEMMA OpenedSession ==
  ASSUME NEW r \in Requests, OpenSession(r), TypeOK, OnCourse, Identified, OneByOne, SessionOfDevice
  PROVE  SessionOfDevice'
<1> SUFFICES ASSUME ~disturbed' PROVE SessionOfDevice'
  BY DEF SessionOfDevice
<1>1. /\ ~disturbed /\ UNCHANGED <<jar, sent, who, device0, ask>>
      /\ pc[r] = "session" /\ pc' = [pc EXCEPT ![r] = "respond"]
      /\ session' = [session EXCEPT ![r] = [user |-> ask[r].user, source |-> device0[r], status |-> "active"]] /\ Active(r)
  BY DEF OpenSession, Go, ghosts, held, fixed, Active, Ended
<1>2. \A s \in Requests : s # r => ~Active(s) /\ ~Active(s)'
  BY <1>1 DEF OneByOne, Active, TypeOK, RequestTypeOK
<1>3. Kind(r) = "callback" /\ sent[r] = jar
  BY <1>1 DEF OneByOne, OnCourse
<1>4. device0[r] = jar.device /\ pc'[r] = "respond"
  BY <1>1, <1>3 DEF SessionOfDevice, TypeOK, RequestTypeOK
<1>5. session'[r].source = jar.device /\ \A s \in Requests : s # r => session'[s] = session[s]
  BY <1>1, <1>4 DEF TypeOK, TableTypeOK
<1>6. jar.session \in Requests \cup {Nobody}
  BY DEF TypeOK, RequestTypeOK, Jars
<1> QED BY <1>1, <1>2, <1>3, <1>4, <1>5, <1>6 DEF SessionOfDevice, Active, Ended, Merging, Moving, Kind

\* A session gets the device of the cookie with which its login came back.
LEMMA SessionOfDeviceStep ==
  ASSUME SessionOfDevice, OnCourse, Identified, OneByOne, CookieInUse, TypeOK, pc \in [Requests -> Places],
         jar \in Jars, sent \in [Requests -> Jars],
         device \in [Devices -> {"none", "active", "expired", "disabled", "deleted"}],
         who \in [Requests -> [owner : Owners \cup {Nobody}, session : Requests \cup {Nobody}]],
         device0 \in [Requests -> Devices \cup {Nobody}],
         session \in [Requests -> [user : Users \cup {Nobody}, source : Devices \cup {Nobody}, status : {"none", "active", "expired", "revoked", "deleted"}]],
         Next
  PROVE  SessionOfDevice'
<1>1. ASSUME NEW r \in Requests, Send(r) PROVE SessionOfDevice'
  BY <1>1, SendCookies
<1>2. ASSUME NEW r \in Requests, Resolve(r) PROVE SessionOfDevice'
  BY <1>2, ResolveSession
<1>3. ASSUME NEW r \in Requests, Respond(r) PROVE SessionOfDevice'
  BY <1>3, RespondSession
<1>4. ASSUME NEW r \in Requests, OpenSession(r) PROVE SessionOfDevice'
  BY <1>4, OpenedSession
<1>5. ASSUME NEW r \in Requests, Logout(r) PROVE SessionOfDevice'
  BY <1>5, LogoutSession
<1>6. ASSUME NEW r \in Requests, Source(r) PROVE SessionOfDevice'
  BY <1>6, SourceSession
<1>7. ASSUME NEW r \in Requests, Clear(r) PROVE SessionOfDevice'
  BY <1>7, ClearSession
<1>8. ASSUME Lapse PROVE SessionOfDevice'
  BY <1>8, LapseSession
<1> USE DEF SessionOfDevice, OnCourse, Identified, OneByOne, CookieInUse, Moving, Merging, Ended, Owners,
         Unknown, Jars, Active, Kind, tables, fixed, held, background, ghosts
<1>9. ASSUME NEW r \in Requests, Claim(r) \/ Answer(r) PROVE SessionOfDevice'
  BY <1>9, OwnersAssumption DEF Claim, Go, Answer
<1>10. ASSUME NEW r \in Requests, ClaimJob(r) PROVE SessionOfDevice'
  BY <1>10, OwnersAssumption DEF ClaimJob
<1>11. ASSUME NEW r \in Requests, FinishJob(r) \/ ReadCandidate(r) PROVE SessionOfDevice'
  BY <1>11, OwnersAssumption DEF FinishJob, ReadCandidate
<1>12. ASSUME NEW r \in Requests, Approve(r) \/ BeginLogin(r) \/ Consume(r) \/ Spend(r) PROVE SessionOfDevice'
  BY <1>12, OwnersAssumption DEF Approve, BeginLogin, Go, Consume, Spend
<1>13. ASSUME NEW r \in Requests, Match(r) PROVE SessionOfDevice'
  BY <1>13, OwnersAssumption DEF Match, Remembered, Go
<1>14. ASSUME NEW r \in Requests, Authenticate(r) PROVE SessionOfDevice'
  BY <1>14, OwnersAssumption DEF Authenticate, Go
<1>15. ASSUME NEW r \in Requests, Mint(r) \/ Revoke(r) PROVE SessionOfDevice'
  BY <1>15, OwnersAssumption DEF Mint, SetToken, Go, Revoke
<1>16. ASSUME NEW r \in Requests, Begin(r) PROVE SessionOfDevice'
  BY <1>16, OwnersAssumption DEF Begin, Job, Go
<1>17. ASSUME NEW r \in Requests, Start(r) \/ ReadMemories(r) \/ MergeMemories(r) \/ Transfer(r)
      PROVE  SessionOfDevice'
  BY <1>17, OwnersAssumption DEF Start, Job, Contested, Go, ReadMemories, MergeMemories, Transfer
<1>18. ASSUME NEW r \in Requests, Disable(r) \/ Complete(r) PROVE SessionOfDevice'
  BY <1>18, OwnersAssumption DEF Disable, Go, Complete, Job
<1>19. ASSUME NEW r \in Requests, Audit(r) PROVE SessionOfDevice'
  BY <1>19, OwnersAssumption DEF Audit, Go
<1>20. ASSUME NEW r \in Requests, FailMerge(r) \/ Break(r) PROVE SessionOfDevice'
  BY <1>20, OwnersAssumption DEF FailMerge, Job, Go, Break, HalfWay
<1>21. ASSUME Stop PROVE SessionOfDevice'
  BY <1>21, OwnersAssumption DEF Stop, HalfWay
<1> QED
  BY <1>1, <1>2, <1>3, <1>4, <1>5, <1>6, <1>7, <1>8, <1>9, <1>10, <1>11, <1>12, <1>13, <1>14, <1>15,
     <1>16, <1>17, <1>18, <1>19, <1>20, <1>21
     DEF Next

LEMMA RespondInHand ==
  ASSUME NEW r \in Requests, Respond(r), OneByOne, TypeOK, Identified, CookieInUse, InHand
  PROVE  InHand'
<1> SUFFICES ASSUME ~disturbed' PROVE InHand'
  BY DEF InHand
<1>1. /\ ~disturbed /\ pc[r] = "respond" /\ Active(r)
      /\ \A s \in Requests : ~Active(s)' /\ (s # r => ~Active(s))
      /\ UNCHANGED <<device, session, owner, who, device0, sent, ask>>
  BY RespondAlone
<1>2. who[r].owner \in Devices => jar.device \in {Nobody, who[r].owner}
  BY <1>1 DEF CookieInUse
<1>3. /\ who[r].session # Nobody => who[r].owner \notin Devices
      /\ Kind(r) = "ask" /\ who[r].session = Nobody => who[r].owner \in Devices
      /\ Kind(r) = "login" => who[r].owner \in Devices
  BY <1>1, OwnersAssumption DEF Identified
<1>4. \A c \in Conversations : owner[c] \in Devices =>
          /\ owner[c] = jar.device \/ (Kind(r) = "ask" /\ who[r].owner = owner[c])
          /\ ~Merged(r)
  BY <1>1 DEF InHand, Transferred, Merged, Active, Ended
<1>5. \A c \in Conversations : owner[c] \in Devices => owner[c] = jar'.device
  BY <1>2, <1>3, <1>4, OwnersAssumption, RespondJar
<1>6. \A s \in Requests : ~Transferred(s)'
  BY <1>1 DEF Transferred, Active, Ended
<1> QED BY <1>1, <1>5, <1>6 DEF InHand

LEMMA InHandKept ==
  ASSUME InHand,
         \/ disturbed'
         \/ /\ UNCHANGED <<owner, who, jar, ask>> /\ ~disturbed
            /\ \A s \in Requests : /\ Kind(s) = "ask" /\ pc[s] \in {"run", "respond"} => pc'[s] \in {"run", "respond"}
                                   /\ Transferred(s)' => Transferred(s)
  PROVE  InHand'
BY DEF InHand, Kind

LEMMA ResolveInHand ==
  ASSUME NEW r \in Requests, Resolve(r), TypeOK, OnCourse, Identified, OneByOne, InHand
  PROVE  InHand'
<1> SUFFICES ASSUME ~disturbed' PROVE InHand'
  BY DEF InHand
<1>1. /\ ~disturbed /\ Active(r) /\ pc[r] = "resolve"
      /\ pc'[r] \in {"claim", "state", "source", "logout", "token", "refused"}
      /\ \A s \in Requests : s # r => ~Active(s) /\ ~Active(s)'
      /\ UNCHANGED <<session, owner, device0, jar, ask, sent>>
  BY ResolveAlone
<1>2. \A c \in Conversations : owner[c] \in Devices => owner[c] = jar.device
  BY <1>1 DEF InHand, Active, Ended
<1>3. \A s \in Requests : ~Transferred(s)'
  BY <1>1 DEF Transferred, Active, Ended
<1> QED BY <1>1, <1>2, <1>3 DEF InHand

LEMMA ClaimInHand ==
  ASSUME NEW r \in Requests, Claim(r), TypeOK, OnCourse, Identified, OneByOne, InHand
  PROVE  InHand'
<1> SUFFICES ASSUME ~disturbed' PROVE InHand'
  BY DEF InHand
<1> DEFINE mine == owner[ask[r].conv] \in {Nobody, who[r].owner}
<1>1. /\ ~disturbed /\ UNCHANGED <<who, jar, ask>> /\ pc[r] = "claim" /\ Active(r)
      /\ pc' = [pc EXCEPT ![r] = IF mine THEN "run" ELSE "refused"]
      /\ owner' = IF mine THEN [owner EXCEPT ![ask[r].conv] = who[r].owner] ELSE owner
  BY DEF Claim, Go, ghosts, held, fixed, Active, Ended
<1>2. \A s \in Requests : s # r => ~Active(s) /\ ~Active(s)'
  BY <1>1 DEF OneByOne, Active, TypeOK, RequestTypeOK
<1>3. \A c \in Conversations : owner[c] \in Devices => owner[c] = jar.device
  BY <1>1, <1>2 DEF InHand, Active, Ended
<1>4. pc'[r] = IF mine THEN "run" ELSE "refused"
  BY <1>1 DEF TypeOK, RequestTypeOK
<1>5. who[r].owner \in Devices => Kind(r) = "ask"
  BY <1>1, OwnersAssumption DEF Identified, OnCourse
<1>6. \A c \in Conversations : owner'[c] = owner[c] \/ (mine /\ owner'[c] = who[r].owner)
  BY <1>1 DEF TypeOK, TableTypeOK
<1>7. \A s \in Requests : ~Transferred(s)'
  BY <1>2, <1>4 DEF Transferred, Active, Ended
<1>8. ASSUME NEW c \in Conversations, owner'[c] \in Devices, owner'[c] # jar.device
      PROVE  (Kind(r) = "ask" /\ pc[r] \in {"run", "respond"} /\ who[r].owner = owner[c])'
  BY <1>1, <1>3, <1>4, <1>5, <1>6, <1>8 DEF Kind
<1> QED BY <1>1, <1>7, <1>8 DEF InHand

LEMMA BeginInHand ==
  ASSUME NEW r \in Requests, Begin(r), TypeOK, OnCourse, Identified, MergedAreOff, OneByOne, CookieInUse, SessionOfDevice, InHand
  PROVE  InHand'
<1> SUFFICES ASSUME ~disturbed' PROVE InHand'
  BY DEF InHand
<1>1. /\ ~disturbed /\ UNCHANGED <<owner, who, jar, ask, device0>> /\ pc[r] = "begin" /\ Active(r)
      /\ pc' = [pc EXCEPT ![r] = IF merge[<<device0[r], who[r].owner>>] = "completed" THEN "clear" ELSE "start"]
  BY DEF Begin, Job, Go, ghosts, held, fixed, Active, Ended
<1>2. \A s \in Requests : s # r => ~Active(s)
  BY <1>1 DEF OneByOne
<1>3. device0[r] = jar.device /\ device0[r] \in Devices /\ device0[r] # Nobody /\ who[r].owner \in Users /\ Kind(r) = "merge"
  BY <1>1 DEF SessionOfDevice, Identified, OnCourse, TypeOK, RequestTypeOK, Merging, Moving
<1>4. device[jar.device] = "active"
  BY <1>1, <1>2, <1>3 DEF CookieInUse, Active, Ended
<1>5. merge[<<device0[r], who[r].owner>>] # "completed"
  BY <1>3, <1>4 DEF MergedAreOff
<1>6. pc' = [pc EXCEPT ![r] = "start"]
  BY <1>1, <1>5
<1>7. \A s \in Requests : /\ Kind(s) = "ask" /\ pc[s] \in {"run", "respond"} => pc'[s] \in {"run", "respond"}
                          /\ Transferred(s)' => Transferred(s)
  BY <1>1, <1>3, <1>6 DEF Transferred, Kind, TypeOK, RequestTypeOK
<1> QED BY <1>1, <1>7, InHandKept

LEMMA TransferInHand ==
  ASSUME NEW r \in Requests, Transfer(r), TypeOK, OnCourse, Identified, OneByOne, SessionOfDevice, InHand
  PROVE  InHand'
<1> SUFFICES ASSUME ~disturbed' PROVE InHand'
  BY DEF InHand
<1>1. /\ ~disturbed /\ UNCHANGED <<who, jar, ask, device0>> /\ pc[r] = "transfer" /\ Active(r)
      /\ owner' = [c \in Conversations |-> IF c \in {k \in Conversations : owner[k] = device0[r]} THEN who[r].owner ELSE owner[c]]
  BY DEF Transfer, Go, held, fixed, Active, Ended
<1>2. \A s \in Requests : s # r => ~Active(s)
  BY <1>1 DEF OneByOne
<1>3. device0[r] = jar.device /\ who[r].owner \in Users
  BY <1>1 DEF SessionOfDevice, Identified, Merging, Moving
<1>4. \A c \in Conversations : owner[c] \in Devices => owner[c] = device0[r]
  BY <1>1, <1>2, <1>3 DEF InHand, Active, Ended
<1>5. \A c \in Conversations : owner'[c] \notin Devices
  BY <1>1, <1>3, <1>4, OwnersAssumption
<1> QED BY <1>5 DEF InHand

\* The other steps leave conversations and cookies alone, and end no question.
LEMMA InHandStep ==
  ASSUME InHand, TypeOK, OnCourse, Identified, MergedAreOff, OneByOne, CookieInUse, SessionOfDevice,
         pc \in [Requests -> Places], device0 \in [Requests -> Devices \cup {Nobody}],
         \A r \in Requests : Request(ask[r]), Next
  PROVE  InHand'
<1>1. ASSUME NEW r \in Requests, Resolve(r) PROVE InHand'
  BY <1>1, ResolveInHand
<1>2. ASSUME NEW r \in Requests, Claim(r) PROVE InHand'
  BY <1>2, ClaimInHand
<1>3. ASSUME NEW r \in Requests, Respond(r) PROVE InHand'
  BY <1>3, RespondInHand
<1>4. ASSUME NEW r \in Requests, Begin(r) PROVE InHand'
  BY <1>4, BeginInHand
<1>5. ASSUME NEW r \in Requests, Transfer(r) PROVE InHand'
  BY <1>5, TransferInHand
<1> USE DEF OnCourse, Identified, Moving, Merging, Ended, Transferred, Owners, Unknown, Job, Active, Kind,
         tables, fixed, held, background, ghosts
<1>6. ASSUME NEW r \in Requests, Send(r) PROVE InHand'
  BY <1>6, OwnersAssumption, InHandKept DEF Send, Go, First
<1>7. ASSUME NEW r \in Requests, Answer(r) PROVE InHand'
  BY <1>7, OwnersAssumption, InHandKept DEF Answer, Go
<1>8. ASSUME NEW r \in Requests, ClaimJob(r) PROVE InHand'
  BY <1>8, OwnersAssumption, InHandKept DEF ClaimJob
<1>9. ASSUME NEW r \in Requests, FinishJob(r) \/ ReadCandidate(r) PROVE InHand'
  BY <1>9, OwnersAssumption, InHandKept DEF FinishJob, ReadCandidate
<1>10. ASSUME NEW r \in Requests, Approve(r) \/ BeginLogin(r) \/ Consume(r) \/ Spend(r) PROVE InHand'
  BY <1>10, OwnersAssumption, InHandKept DEF Approve, BeginLogin, Go, Consume, Spend
<1>11. ASSUME NEW r \in Requests, Match(r) \/ Authenticate(r) \/ OpenSession(r) \/ Logout(r) PROVE InHand'
  BY <1>11, OwnersAssumption, InHandKept DEF Match, Go, Authenticate, OpenSession, Logout
<1>12. ASSUME NEW r \in Requests, Mint(r) \/ Revoke(r) PROVE InHand'
  BY <1>12, OwnersAssumption, InHandKept DEF Mint, SetToken, Go, Revoke
<1>13. ASSUME NEW r \in Requests, Source(r) PROVE InHand'
  BY <1>13, OwnersAssumption, InHandKept DEF Source, Go
<1>14. ASSUME NEW r \in Requests, Start(r) \/ ReadMemories(r) PROVE InHand'
  BY <1>14, OwnersAssumption, InHandKept DEF Start, Job, Contested, Go, ReadMemories
<1>15. ASSUME NEW r \in Requests, MergeMemories(r) PROVE InHand'
  BY <1>15, OwnersAssumption, InHandKept DEF MergeMemories, Go
<1>16. ASSUME NEW r \in Requests, Disable(r) \/ Complete(r) \/ Audit(r) \/ Clear(r) PROVE InHand'
  BY <1>16, OwnersAssumption, InHandKept DEF Disable, Go, Complete, Job, Audit, Clear
<1>17. ASSUME NEW r \in Requests, FailMerge(r) \/ Break(r) PROVE InHand'
  BY <1>17, OwnersAssumption, InHandKept DEF FailMerge, Job, Go, Break, HalfWay
<1>18. ASSUME Lapse \/ Stop PROVE InHand'
  BY <1>18, OwnersAssumption, InHandKept DEF Lapse, Stop, HalfWay
<1> QED
  BY <1>1, <1>2, <1>3, <1>4, <1>5, <1>6, <1>7, <1>8, <1>9, <1>10, <1>11, <1>12, <1>13, <1>14, <1>15,
     <1>16, <1>17, <1>18
     DEF Next

-----------------------------------------------------------------------------
(* The invariant *)

\* Before the first request there is no device, no account and no cookie.
LEMMA InitInv == Init => IInv
<1> SUFFICES ASSUME Init PROVE IInv
  OBVIOUS
<1>1. /\ \A r \in Requests : Request(ask[r])
      /\ database \in {"sqlite", "postgres"} /\ trouble \subseteq {"lapse", "fail", "stop"}
  BY MixesAssumption DEF Init
<1>2. /\ pc = [r \in Requests |-> "new"] /\ who = [r \in Requests |-> Unknown]
      /\ moved = {} /\ late = {} /\ heirs = [d \in Devices |-> {}] /\ broken = {} /\ disturbed = FALSE
      /\ \A r \in Requests : ~Active(r)
  BY DEF Init, Active
<1>3. TableTypeOK
  BY DEF Init, TableTypeOK
<1>4. MemoryTypeOK
  BY DEF Init, MemoryTypeOK
<1>5. RequestTypeOK
  BY <1>1, StopsAssumption DEF Init, RequestTypeOK, Jars, Places, Unknown
<1>6. HistoryTypeOK
  BY <1>2 DEF HistoryTypeOK
<1>7. OnCourse /\ Identified
  BY <1>2 DEF OnCourse, Identified, Unknown, Merging, Moving
<1>8. Credentials
  BY <1>2, OwnersAssumption DEF Init, Credentials, Unknown
<1>9. MergedAreOff
  BY <1>2 DEF Init, MergedAreOff
<1>10. Taught
  BY OwnersAssumption DEF Init, Taught
<1>11. OnlyLate /\ HandedInOrder
  BY <1>2 DEF Init, OnlyLate, HandedInOrder
<1>12. OneMover /\ OneReceiver /\ NothingRead
  BY <1>2 DEF OneMover, OneReceiver, NothingRead, Moving
<1>13. Extraction
  BY DEF Init, Extraction
<1>14. FactsSurvive
  BY DEF Init, FactsSurvive
<1>15. OneByOne /\ CookieInUse
  BY <1>2 DEF Init, OneByOne, CookieInUse
<1>16. SessionOfDevice
  BY <1>2 DEF Init, SessionOfDevice, Merging, Moving
<1>17. InHand
  BY <1>2, OwnersAssumption DEF Init, InHand, Transferred
<1> QED
  BY <1>3, <1>4, <1>5, <1>6, <1>7, <1>8, <1>9, <1>10, <1>11, <1>12, <1>13, <1>14, <1>15, <1>16, <1>17
     DEF IInv, TypeOK

LEMMA StutterInv ==
  ASSUME IInv, UNCHANGED vars
  PROVE  IInv'
<1> USE DEF vars, tables, fixed, held, background, ghosts
<1>1. TypeOK'
  BY DEF IInv, TypeOK, TableTypeOK, MemoryTypeOK, RequestTypeOK, HistoryTypeOK
<1>2. OnCourse' /\ Identified' /\ Credentials' /\ MergedAreOff'
  BY DEF IInv, OnCourse, Identified, Credentials, MergedAreOff, Kind
<1>3. Taught' /\ OnlyLate' /\ HandedInOrder'
  BY DEF IInv, Taught, OnlyLate, InTheNameOf, HandedInOrder, Handed, Active, Kind
<1>4. OneMover' /\ OneReceiver' /\ NothingRead'
  BY DEF IInv, OneMover, OneReceiver, NothingRead, Excused, Handed, HalfWay, Kind
<1>5. Extraction' /\ FactsSurvive'
  BY DEF IInv, Extraction, FactsSurvive, SameSlot
<1>6. OneByOne' /\ CookieInUse' /\ SessionOfDevice' /\ InHand'
  BY DEF IInv, OneByOne, CookieInUse, SessionOfDevice, InHand, Transferred, Active, Kind
<1> QED BY <1>1, <1>2, <1>3, <1>4, <1>5, <1>6 DEF IInv

\* Each step keeps every part: the lemmas above, put together.
LEMMA NextInv ==
  ASSUME IInv, Next
  PROVE  IInv'
<1>1. /\ TypeOK /\ TableTypeOK /\ MemoryTypeOK /\ RequestTypeOK /\ HistoryTypeOK
      /\ OnCourse /\ Identified /\ Credentials /\ MergedAreOff /\ Taught /\ OnlyLate /\ HandedInOrder
      /\ OneMover /\ OneReceiver /\ NothingRead /\ Extraction /\ FactsSurvive /\ OneByOne /\ CookieInUse
      /\ SessionOfDevice /\ InHand
  BY DEF IInv, TypeOK
<1>2. /\ approving \in [Requests -> Owners \cup {Nobody}]
      /\ class \in [Requests -> [Requests -> {"none", "unique", "duplicate", "conflict"}]]
      /\ device \in [Devices -> {"none", "active", "expired", "disabled", "deleted"}]
      /\ device0 \in [Requests -> Devices \cup {Nobody}]
      /\ extracting \in [Requests -> Owners \cup {Nobody}]
      /\ flow \in [Requests -> [device : Devices \cup {Nobody}, status : {"none", "open", "consumed", "expired", "deleted"}]]
      /\ jar \in Jars
      /\ job \in [Requests -> [owner : Owners \cup {Nobody}, status : {"none", "queued", "running", "succeeded", "failed"}]]
      /\ late \subseteq Requests
      /\ memory \in [Requests -> [owner : Owners \cup {Nobody}, status : {"none", "candidate", "confirmed", "expired", "deleted"}]]
      /\ merge \in [Devices \X Users -> {"none", "pending", "running", "completed", "failed"}]
      /\ pc \in [Requests -> Places]
      /\ \A r \in Requests : Request(ask[r])
      /\ sent \in [Requests -> Jars]
      /\ session \in [Requests -> [user : Users \cup {Nobody}, source : Devices \cup {Nobody}, status : {"none", "active", "expired", "revoked", "deleted"}]]
      /\ who \in [Requests -> [owner : Owners \cup {Nobody}, session : Requests \cup {Nobody}]]
  BY Types DEF IInv
<1>3. TableTypeOK'
  BY <1>1, <1>2, TableTypeOKStep
<1>4. MemoryTypeOK'
  BY <1>1, <1>2, MemoryTypeOKStep
<1>5. RequestTypeOK'
  BY <1>1, <1>2, RequestTypeOKStep
<1>6. HistoryTypeOK'
  BY <1>1, <1>2, HistoryTypeOKStep
<1>7. OnCourse'
  BY <1>1, <1>2, OnCourseStep
<1>8. Identified'
  BY <1>1, <1>2, IdentifiedStep
<1>9. Credentials'
  BY <1>1, <1>2, CredentialsStep
<1>10. MergedAreOff'
  BY <1>1, <1>2, MergedAreOffStep
<1>11. Taught'
  BY <1>1, <1>2, TaughtStep
<1>12. OnlyLate'
  BY <1>1, <1>2, OnlyLateStep
<1>13. HandedInOrder'
  BY <1>1, <1>2, HandedInOrderStep
<1>14. OneMover'
  BY <1>1, <1>2, OneMoverStep
<1>15. OneReceiver'
  BY <1>1, <1>2, OneReceiverStep
<1>16. NothingRead'
  BY <1>1, <1>2, NothingReadStep
<1>17. Extraction'
  BY <1>1, <1>2, ExtractionStep
<1>18. FactsSurvive'
  BY <1>1, <1>2, FactsSurviveStep
<1>19. OneByOne'
  BY <1>1, <1>2, OneByOneStep
<1>20. CookieInUse'
  BY <1>1, <1>2, CookieInUseStep
<1>21. SessionOfDevice'
  BY <1>1, <1>2, SessionOfDeviceStep
<1>22. InHand'
  BY <1>1, <1>2, InHandStep
<1> QED
  BY <1>3, <1>4, <1>5, <1>6, <1>7, <1>8, <1>9, <1>10, <1>11, <1>12, <1>13, <1>14, <1>15, <1>16, <1>17,
     <1>18, <1>19, <1>20, <1>21, <1>22
     DEF IInv, TypeOK

\* The invariant holds in every reachable state: types and every part above.
THEOREM InvariantHolds == Spec => []IInv
<1>1. Init => IInv
  BY InitInv
<1>2. IInv /\ [Next]_vars => IInv'
  BY NextInv, StutterInv
<1> QED BY <1>1, <1>2, PTL DEF Spec

\* Every variable keeps its type: whatever requests, jobs and restarts come in between, no table, cookie or request
\* holds a value outside of those the code writes.
THEOREM TypesCorrect == Spec => []TypeOK
<1>1. IInv => TypeOK
  BY DEF IInv
<1> QED BY <1>1, InvariantHolds, PTL

-----------------------------------------------------------------------------
(* The properties *)

\* A merge that switched the device off leaves nothing of it behind but what late questions left.
LEMMA NothingStays ==
  ASSUME IInv
  PROVE  NothingStaysBehind
<1> SUFFICES ASSUME NEW d \in Devices, heir[d] # Nobody
             PROVE  /\ \A c \in Conversations : owner[c] = d => \E r \in late : Kind(r) = "ask" /\ ask[r].conv = c
                    /\ \A r \in Requests : memory[r].owner = d /\ memory[r].status \in Kept => r \in late
                    /\ \A r \in Requests : job[r].owner = d /\ job[r].status = "queued" => r \in late
  BY DEF NothingStaysBehind
<1>1. Handed(d) /\ OnlyLate
  BY DEF IInv, HandedInOrder
<1>2. \A r \in Requests : InTheNameOf(r, d) => r \in late
  BY <1>1 DEF Handed, OnlyLate
<1> QED BY <1>1, <1>2 DEF Handed, InTheNameOf

\* What a device had goes to one account.
LEMMA HeirIsOne ==
  ASSUME IInv
  PROVE  OneHeir
<1> SUFFICES ASSUME NEW d \in Devices, ~Excused(d) PROVE Cardinality(heirs[d]) <= 1
  BY DEF OneHeir, Excused
<1>1. CASE heirs[d] = {}
  BY <1>1, FS_EmptySet
<1>2. CASE heirs[d] # {}
  <2>1. PICK u \in heirs[d] : TRUE
    BY <1>2
  <2>2. \A v, w \in heirs[d] : v = w
    <3>1. OneReceiver
      BY DEF IInv
    <3> QED BY <1>2, <3>1 DEF OneReceiver
  <2>3. heirs[d] = {u}
    BY <2>1, <2>2
  <2>4. Cardinality({u}) = 1
    BY FS_Singleton
  <2> QED BY <2>3, <2>4
<1> QED BY <1>1, <1>2

\* What an anonymous browser had is handed over to one account, and nothing of it is forgotten: the memories go first
\* and the device is switched off last, so what is late was already asked for, and the second merge finds nothing.
THEOREM MergesHandOver == Spec => []HandedOver
<1>1. IInv => HandedOver
  BY NothingStays, HeirIsOne DEF HandedOver
<1> QED BY <1>1, InvariantHolds, PTL

\* On SQLite, where a merge reads and writes the memories in one transaction, it loses nothing and doubles nothing.
THEOREM NoFactIsLost == Spec => []FactsSurvive
<1>1. IInv => FactsSurvive
  BY DEF IInv
<1> QED BY <1>1, InvariantHolds, PTL

\* While its requests come one by one, the browser's cookie reaches every conversation that is owned by a device.
THEOREM ConversationsAreWithinReach == Spec => []WithinReach
<1>1. IInv => WithinReach
  BY DEF IInv, InHand, WithinReach, Active, Ended
<1> QED BY <1>1, InvariantHolds, PTL
=============================================================================

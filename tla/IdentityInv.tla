------------------------------ MODULE IdentityInv ------------------------------
(***************************************************************************)
(* Why the safety properties of Identity hold: the parts of an inductive   *)
(* invariant, each named for what it says of the code.                     *)
(***************************************************************************)
EXTENDS Identity

-----------------------------------------------------------------------------
(* Requests and who they act as *)

\* Whose place each is: the handlers go through their own.
OnCourse ==
    \A r \in Requests :
        /\ pc[r] \in {"claim", "run"} => Kind(r) \in {"ask", "codex"}
        /\ pc[r] = "state" => Kind(r) = "login"
        /\ pc[r] \in {"consume", "spend", "match", "feishu", "session"} => Kind(r) = "callback"
        /\ pc[r] \in {"source"} \cup Merging => Kind(r) \in {"merge", "decline"}
        /\ pc[r] \in Merging \ {"clear"} => Kind(r) = "merge"
        /\ pc[r] = "write" => database = "postgres"
        /\ pc[r] = "resolve" => Kind(r) \notin {"callback", "none"}
        /\ pc[r] \in {"logout", "token"} => Kind(r) \in {"logout", "mint", "revoke"}

\* A request acts as nobody until it is resolved, as a device without a session, and what needs a login as a user; the
\* session it acts by is the one it was sent with.
Identified ==
    \A r \in Requests :
        /\ pc[r] \in {"new", "resolve"} \/ Kind(r) = "callback" => who[r] = Unknown
        /\ who[r].session # Nobody => who[r].owner \in Users /\ who[r].session = sent[r].session
        /\ Kind(r) = "codex" => who[r].owner \in Users \cup {Nobody}
        /\ Kind(r) # "codex" /\ who[r].session = Nobody => who[r].owner \in Devices \cup {Nobody}
        /\ pc[r] \in {"source", "logout", "token"} \cup Merging => who[r].owner \in Users /\ who[r].session # Nobody
        /\ pc[r] \in {"claim", "run"} => who[r].owner # Nobody
        /\ pc[r] \in {"state", "respond"} /\ Kind(r) = "login" => who[r].owner \in Devices
        /\ pc[r] = "respond" /\ Kind(r) = "ask" => who[r].owner # Nobody
        /\ pc[r] \in Merging => device0[r] # Nobody
\* The identities they are given by exist.
Credentials ==
    /\ \A r \in Requests :
        /\ session[r].status # "none" => session[r].user \in Users
        /\ who[r].session # Nobody => session[who[r].session].status # "none"
        /\ session[r].source # Nobody => device[session[r].source] # "none"
        /\ who[r].owner \in Devices => device[who[r].owner] # "none"
        /\ flow[r].status # "none" => flow[r].device \in Devices
        /\ pc[r] = "spend" => flow[ask[r].flow].status # "none"
        /\ device0[r] # Nobody /\ pc[r] \in {"feishu", "session"} \cup Merging => device[device0[r]] # "none"
    /\ jar.device # Nobody => device[jar.device] # "none"

\* A device that was merged is not in use any more.
MergedAreOff ==
    /\ \A d \in Devices, u \in Users : merge[<<d, u>>] = "completed" => device[d] \notin {"none", "active"}
    /\ \A r \in Requests : pc[r] \in {"complete", "audit"} => device[device0[r]] \notin {"none", "active"}

-----------------------------------------------------------------------------
(* What a device leaves behind *)

\* What a question taught is of whoever asked, until it is merged.
Taught ==
    \A r \in Requests : \A d \in Devices :
        memory[r].owner = d \/ job[r].owner = d \/ extracting[r] = d \/ approving[r] = d => who[r].owner = d

\* Whatever has to do with a question, or with what it taught, in the name of d.
InTheNameOf(r, d) ==
    \/ memory[r].owner = d /\ memory[r].status \in Kept
    \/ job[r].owner = d \/ extracting[r] = d \/ approving[r] = d
    \/ Active(r) /\ who[r].owner = d
\* Once the memories were moved, all that is in the name of the device is of late questions.
OnlyLate == \A d \in moved : \A r \in Requests : InTheNameOf(r, d) => r \in late

\* The device has handed over its memories and its conversations, but those of late questions.
Handed(d) ==
    /\ d \in moved
    /\ \A c \in Conversations : owner[c] = d =>
           \E r \in late : Kind(r) = "ask" /\ ask[r].conv = c /\ who[r].owner = d
HandedInOrder ==
    /\ \A r \in Requests : /\ pc[r] = "transfer" => device0[r] \in moved
                           /\ pc[r] = "disable" => Handed(device0[r])
    /\ \A d \in Devices : heir[d] # Nobody => Handed(d)

-----------------------------------------------------------------------------
(* Who gets it *)

Excused(d) == d \in broken \/ \E r \in late : who[r].owner = d
\* Merges of one device at a time are for one account, or the device is broken.
OneMover ==
    \A r, s \in Requests :
        pc[r] \in Moving /\ pc[s] \in Moving /\ device0[r] = device0[s] /\ device0[r] \notin broken =>
            who[r].owner = who[s].owner
\* Who was given something is the one whose merge is half way, or all was handed over.
OneReceiver ==
    \A d \in Devices : heirs[d] # {} /\ ~Excused(d) =>
        /\ \A u, v \in heirs[d] : u = v
        /\ \/ Handed(d)
           \/ \E r \in Requests : HalfWay(r) /\ device0[r] = d /\ heirs[d] = {who[r].owner}
\* On PostgreSQL: a merge that comes second has read nothing to move.
NothingRead ==
    \A r \in Requests :
        pc[r] = "write" /\ ~Excused(device0[r]) /\ ~(heirs[device0[r]] \subseteq {who[r].owner}) =>
            \A m \in Requests : class[r][m] = "none"

-----------------------------------------------------------------------------
(* What is remembered, on SQLite *)

\* A question is extracted once, and what it taught is a candidate until it is approved; a merge reads what was taught.
Extraction ==
    \A r \in Requests :
        /\ pc[r] \in {"new", "resolve", "claim", "run"} => job[r].status = "none"
        /\ job[r].status # "succeeded" => memory[r].status = "none"
        /\ extracting[r] # Nobody => job[r].status = "running"
        /\ database = "sqlite" /\ approving[r] # Nobody => memory[r].status = "candidate"
        /\ memory[r].status = "none" => approving[r] = Nobody /\ \A s \in Requests : class[s][r] = "none"

-----------------------------------------------------------------------------
(* The browser's cookies, while it asks for one thing after the other *)

OneByOne ==
    ~disturbed =>
        /\ \A r, s \in Requests : Active(r) /\ Active(s) => r = s
        /\ \A r \in Requests : Active(r) => sent[r] = jar

\* The device of the cookie is in use, until the merge that is about to take the cookie away has switched it off.
CookieInUse ==
    ~disturbed =>
        /\ jar.device # Nobody =>
               \/ device[jar.device] = "active"
               \/ \E r \in Requests : /\ pc[r] \in {"complete", "audit", "clear", "respond"} /\ Kind(r) = "merge"
                                      /\ device0[r] = jar.device
        /\ \A r \in Requests : Active(r) /\ who[r].owner \in Devices =>
               device[who[r].owner] = "active" /\ jar.device \in {Nobody, who[r].owner}

\* The session of the cookie may merge the device of the cookie, and no other.
SessionOfDevice ==
    ~disturbed =>
        /\ jar.session # Nobody => session[jar.session].source \in {Nobody, jar.device}
        /\ \A r \in Requests :
               /\ Kind(r) = "callback" /\ pc[r] \in {"feishu", "session"} => device0[r] = sent[r].device
               /\ Kind(r) = "callback" /\ pc[r] = "respond" => session[r].source \in {Nobody, sent[r].device}
               /\ pc[r] \in Merging => device0[r] = jar.device
               /\ Kind(r) = "merge" /\ pc[r] = "respond" /\ device0[r] # Nobody =>
                      device0[r] = jar.device /\ jar.session # Nobody /\ session[jar.session].source = Nobody

\* A merge that has given the conversations away leaves none to take the cookie from.
Transferred(r) ==
    /\ Kind(r) = "merge"
    /\ \/ pc[r] \in {"disable", "complete", "audit", "clear"}
       \/ pc[r] = "respond" /\ device0[r] # Nobody
InHand ==
    ~disturbed =>
        /\ \A c \in Conversations : owner[c] \in Devices =>
               \/ owner[c] = jar.device
               \/ \E r \in Requests : Kind(r) = "ask" /\ pc[r] \in {"run", "respond"} /\ who[r].owner = owner[c]
        /\ \A r \in Requests : Transferred(r) => \A c \in Conversations : owner[c] \notin Devices

-----------------------------------------------------------------------------
IInv ==
    /\ TypeOK /\ OnCourse /\ Identified /\ Credentials /\ MergedAreOff
    /\ Taught /\ OnlyLate /\ HandedInOrder
    /\ OneMover /\ OneReceiver /\ NothingRead
    /\ Extraction /\ FactsSurvive
    /\ OneByOne /\ CookieInUse /\ SessionOfDevice /\ InHand
=============================================================================

--------------------------- MODULE SyncJobsProofs ---------------------------
(* The lease discipline of SyncJobs, for any number of jobs and workers. *)
EXTENDS SyncJobs, TLAPS, FiniteSetTheorems

\* What the operations on the queue do to its elements.
LEMMA InRange ==
    ASSUME NEW S, NEW s \in Seq(S)
    PROVE  /\ DOMAIN s = 1..Len(s)
           /\ Range(s) \subseteq S
           /\ \A x : x \in Range(s) <=> \E k \in 1..Len(s) : s[k] = x
           /\ IsInjective(s) <=> \A a, b \in 1..Len(s) : s[a] = s[b] => a = b
<1>1. DOMAIN s = 1..Len(s) OBVIOUS
<1>2. \A x : x \in Range(s) <=> \E k \in 1..Len(s) : s[k] = x BY <1>1 DEF Range
<1>3. Range(s) \subseteq S BY <1>2
<1>4. IsInjective(s) <=> \A a, b \in 1..Len(s) : s[a] = s[b] => a = b
    BY <1>1, Zenon DEF IsInjective
<1> QED BY <1>1, <1>2, <1>3, <1>4

\* Append adds one element.
LEMMA AppendElements ==
    ASSUME NEW S, NEW s \in Seq(S), NEW e \in S
    PROVE  /\ Append(s, e) \in Seq(S)
           /\ Range(Append(s, e)) = Range(s) \cup {e}
           /\ IsInjective(s) /\ e \notin Range(s) => IsInjective(Append(s, e))
<1>1. Append(s, e) \in Seq(S) /\ Len(Append(s, e)) = Len(s) + 1 OBVIOUS
<1>2. \A k \in 1..(Len(s) + 1) : Append(s, e)[k] = IF k <= Len(s) THEN s[k] ELSE e
    OBVIOUS
<1>3. Len(s) \in Nat OBVIOUS
<1> DEFINE r == Append(s, e)
<1> HIDE DEF r
<1>4. Range(r) = Range(s) \cup {e}
    <2>1. ASSUME NEW x \in Range(r) PROVE x \in Range(s) \cup {e}
        <3>1. PICK k \in 1..(Len(s) + 1) : r[k] = x BY <1>1, <2>1, InRange DEF r
        <3>2. k <= Len(s) => k \in 1..Len(s) /\ s[k] = x BY <1>2, <1>3, <3>1 DEF r
        <3>3. k > Len(s) => x = e BY <1>2, <1>3, <3>1 DEF r
        <3> QED BY <1>3, <3>2, <3>3, InRange
    <2>2. ASSUME NEW x \in Range(s) PROVE x \in Range(r)
        <3>1. PICK k \in 1..Len(s) : s[k] = x BY <2>2, InRange
        <3>2. k \in 1..Len(r) /\ r[k] = x BY <1>1, <1>2, <1>3, <3>1 DEF r
        <3> QED BY <1>1, <3>2, InRange DEF r
    <2>3. e \in Range(r)
        <3>1. Len(s) + 1 \in 1..Len(r) /\ r[Len(s) + 1] = e BY <1>1, <1>2, <1>3 DEF r
        <3> QED BY <1>1, <3>1, InRange DEF r
    <2> QED BY <2>1, <2>2, <2>3
<1>5. ASSUME IsInjective(s), e \notin Range(s)
      PROVE  IsInjective(r)
    <2>1. SUFFICES ASSUME NEW a \in 1..(Len(s) + 1), NEW b \in 1..(Len(s) + 1), r[a] = r[b]
                   PROVE  a = b
        BY <1>1, InRange DEF r
    <2>2. \A k \in 1..Len(s) : s[k] # e BY <1>5, InRange
    <2>3. \A k \in 1..(Len(s) + 1) : k <= Len(s) => k \in 1..Len(s) /\ r[k] = s[k]
        BY <1>2, <1>3 DEF r
    <2>4. r[Len(s) + 1] = e BY <1>2, <1>3 DEF r
    <2>5. CASE a <= Len(s) /\ b <= Len(s) BY <1>5, <2>1, <2>3, <2>5, InRange
    <2>6. CASE a > Len(s) /\ b > Len(s) BY <1>3, <2>6
    <2>7. CASE a <= Len(s) /\ b > Len(s) BY <1>3, <2>1, <2>2, <2>3, <2>4, <2>7
    <2>8. CASE a > Len(s) /\ b <= Len(s) BY <1>3, <2>1, <2>2, <2>3, <2>4, <2>8
    <2> QED BY <1>3, <2>5, <2>6, <2>7, <2>8
<1> QED BY <1>1, <1>4, <1>5 DEF r

\* Tail of an injective sequence loses exactly its head.
LEMMA TailElements ==
    ASSUME NEW S, NEW s \in Seq(S), s # <<>>, IsInjective(s)
    PROVE  /\ Head(s) \in Range(s)
           /\ Tail(s) \in Seq(S)
           /\ Range(Tail(s)) \subseteq Range(s) \ {Head(s)}
           /\ IsInjective(Tail(s))
<1>1. Len(s) \in Nat /\ Len(s) > 0 /\ Head(s) = s[1] OBVIOUS
<1>2. Tail(s) \in Seq(S) /\ Len(Tail(s)) = Len(s) - 1 OBVIOUS
<1>3. \A k \in 1..(Len(s) - 1) : Tail(s)[k] = s[k + 1] OBVIOUS
<1>4. Head(s) \in Range(s) BY <1>1, InRange
<1>5. ASSUME NEW x \in Range(Tail(s)) PROVE x \in Range(s) \ {Head(s)}
    <2>1. PICK k \in 1..(Len(s) - 1) : Tail(s)[k] = x BY <1>2, <1>5, InRange
    <2>2. k + 1 \in 1..Len(s) /\ s[k + 1] = x /\ k + 1 # 1 BY <1>1, <1>3, <2>1
    <2>3. 1 \in 1..Len(s) BY <1>1
    <2> QED BY <1>1, <2>2, <2>3, InRange
<1>6. IsInjective(Tail(s))
    <2>1. SUFFICES ASSUME NEW a \in 1..(Len(s) - 1), NEW b \in 1..(Len(s) - 1),
                          Tail(s)[a] = Tail(s)[b]
                   PROVE  a = b
        BY <1>2, InRange
    <2>2. a + 1 \in 1..Len(s) /\ b + 1 \in 1..Len(s) BY <1>1
    <2>3. s[a + 1] = s[b + 1] BY <1>3, <2>1
    <2>4. a + 1 = b + 1 BY <2>2, <2>3, InRange
    <2> QED BY <2>4
<1> QED BY <1>2, <1>4, <1>5, <1>6

\* The two halves of a concatenation.
LEMMA ConcatIndex ==
    ASSUME NEW S, NEW s \in Seq(S), NEW t \in Seq(S)
    PROVE  /\ s \o t \in Seq(S) /\ Len(s \o t) = Len(s) + Len(t)
           /\ \A k \in 1..Len(s) : k \in 1..Len(s \o t) /\ (s \o t)[k] = s[k]
           /\ \A k \in 1..Len(t) :
                Len(s) + k \in 1..Len(s \o t) /\ (s \o t)[Len(s) + k] = t[k]
<1>1. Len(s) \in Nat /\ Len(t) \in Nat OBVIOUS
<1>2. s \o t \in Seq(S) /\ Len(s \o t) = Len(s) + Len(t) OBVIOUS
<1>3. \A k \in 1..(Len(s) + Len(t)) :
        (s \o t)[k] = IF k <= Len(s) THEN s[k] ELSE t[k - Len(s)]
    OBVIOUS
<1>4. ASSUME NEW k \in 1..Len(t)
      PROVE  Len(s) + k \in 1..(Len(s) + Len(t)) /\ (s \o t)[Len(s) + k] = t[k]
    <2>1. Len(s) + k \in 1..(Len(s) + Len(t)) /\ ~(Len(s) + k <= Len(s)) BY <1>1
    <2>2. (s \o t)[Len(s) + k] = t[(Len(s) + k) - Len(s)] BY <1>3, <2>1
    <2>3. (Len(s) + k) - Len(s) = k BY <1>1
    <2> QED BY <2>1, <2>2, <2>3
<1>5. ASSUME NEW k \in 1..Len(s)
      PROVE  k \in 1..(Len(s) + Len(t)) /\ (s \o t)[k] = s[k]
    <2>1. k \in 1..(Len(s) + Len(t)) /\ k <= Len(s) BY <1>1
    <2> QED BY <1>3, <2>1
<1> QED BY <1>2, <1>4, <1>5

\* RemoveAt of an injective sequence loses exactly that element.
LEMMA RemoveAtElements ==
    ASSUME NEW S, NEW s \in Seq(S), NEW i \in DOMAIN s, IsInjective(s)
    PROVE  /\ RemoveAt(s, i) \in Seq(S)
           /\ Range(RemoveAt(s, i)) \subseteq Range(s) \ {s[i]}
           /\ IsInjective(RemoveAt(s, i))
<1> DEFINE r == RemoveAt(s, i)
           u == SubSeq(s, 1, i - 1)
           v == SubSeq(s, i + 1, Len(s))
<1>1. i \in 1..Len(s) /\ Len(s) \in Nat OBVIOUS
<1>2. /\ u \in Seq(S) /\ Len(u) = i - 1
      /\ \A k \in 1..(i - 1) : u[k] = s[k]
    BY <1>1
<1>3. /\ v \in Seq(S) /\ Len(v) = Len(s) - i
      /\ \A k \in 1..(Len(s) - i) : v[k] = s[i + k]
    BY <1>1
<1>a. r = u \o v BY DEF RemoveAt
<1> HIDE DEF r, u, v
<1>b. \A p, q \in Seq(S) :
        /\ p \o q \in Seq(S) /\ Len(p \o q) = Len(p) + Len(q)
        /\ \A k \in 1..Len(p) : (p \o q)[k] = p[k]
        /\ \A k \in 1..Len(q) : (p \o q)[Len(p) + k] = q[k]
    BY ConcatIndex
<1>c. /\ r \in Seq(S) /\ Len(r) = Len(u) + Len(v)
      /\ \A k \in 1..Len(u) : r[k] = u[k]
      /\ \A k \in 1..Len(v) : r[Len(u) + k] = v[k]
    BY <1>2, <1>3, <1>a, <1>b
<1>4. r \in Seq(S) /\ Len(r) = Len(s) - 1
    BY <1>1, <1>2, <1>3, <1>c
<1>5. \A k \in 1..(Len(s) - 1) : r[k] = IF k < i THEN s[k] ELSE s[k + 1]
    <2>1. SUFFICES ASSUME NEW k \in 1..(Len(s) - 1)
                   PROVE  r[k] = IF k < i THEN s[k] ELSE s[k + 1]
        OBVIOUS
    <2>2. CASE k < i
        <3>1. k \in 1..Len(u) BY <1>1, <1>2, <2>2
        <3> QED BY <1>1, <1>2, <1>c, <2>2, <3>1
    <2>3. CASE ~(k < i)
        <3>1. k - (i - 1) \in 1..Len(v) BY <1>1, <1>3, <2>3
        <3>2. Len(u) + (k - (i - 1)) = k BY <1>1, <1>2
        <3>3. r[k] = v[k - (i - 1)] BY <1>c, <3>1, <3>2
        <3>4. i + (k - (i - 1)) = k + 1 BY <1>1
        <3> QED BY <1>3, <2>3, <3>1, <3>3, <3>4
    <2> QED BY <2>2, <2>3
<1>6. ASSUME NEW x \in Range(r) PROVE x \in Range(s) \ {s[i]}
    <2>1. PICK k \in 1..(Len(s) - 1) : r[k] = x BY <1>4, <1>6, InRange
    <2>2. PICK m \in 1..Len(s) : m # i /\ s[m] = x BY <1>1, <1>5, <2>1
    <2> QED BY <1>1, <2>2, InRange
<1>7. IsInjective(r)
    <2>1. SUFFICES ASSUME NEW a \in 1..(Len(s) - 1), NEW b \in 1..(Len(s) - 1), r[a] = r[b]
                   PROVE  a = b
        BY <1>4, InRange
    <2> DEFINE at(k) == IF k < i THEN k ELSE k + 1
    <2>2. at(a) \in 1..Len(s) /\ at(b) \in 1..Len(s) BY <1>1
    <2>3. s[at(a)] = s[at(b)] BY <1>5, <2>1
    <2>4. at(a) = at(b) BY <2>2, <2>3, InRange
    <2> QED BY <1>1, <2>4
<1> QED BY <1>4, <1>6, <1>7 DEF r

\* Concatenating two disjoint injective sequences.
LEMMA ConcatElements ==
    ASSUME NEW S, NEW s \in Seq(S), NEW t \in Seq(S),
           IsInjective(s), IsInjective(t), Range(s) \cap Range(t) = {}
    PROVE  /\ s \o t \in Seq(S)
           /\ Range(s \o t) = Range(s) \cup Range(t)
           /\ IsInjective(s \o t)
<1> DEFINE r == s \o t
<1>1. r \in Seq(S) /\ Len(r) = Len(s) + Len(t) OBVIOUS
<1>2. /\ \A k \in 1..Len(s) : k \in 1..Len(r) /\ r[k] = s[k]
      /\ \A k \in 1..Len(t) : Len(s) + k \in 1..Len(r) /\ r[Len(s) + k] = t[k]
    BY ConcatIndex
<1>3. Len(s) \in Nat /\ Len(t) \in Nat OBVIOUS
<1> HIDE DEF r
<1>4. ASSUME NEW k \in 1..Len(r)
      PROVE  \/ k \in 1..Len(s) /\ r[k] = s[k]
             \/ k - Len(s) \in 1..Len(t) /\ r[k] = t[k - Len(s)]
    <2>1. CASE k <= Len(s) BY <1>2, <1>3, <2>1
    <2>2. CASE k > Len(s)
        <3>1. k - Len(s) \in 1..Len(t) /\ Len(s) + (k - Len(s)) = k BY <1>1, <1>3, <2>2
        <3> QED BY <1>2, <3>1
    <2> QED BY <1>3, <2>1, <2>2
<1>5. Range(r) = Range(s) \cup Range(t)
    <2>1. ASSUME NEW x \in Range(r) PROVE x \in Range(s) \cup Range(t)
        <3>1. PICK k \in 1..Len(r) : r[k] = x BY <1>1, <2>1, InRange
        <3> QED BY <1>4, <3>1, InRange
    <2>2. ASSUME NEW x \in Range(s) PROVE x \in Range(r)
        <3>1. PICK k \in 1..Len(s) : s[k] = x BY <2>2, InRange
        <3> QED BY <1>1, <1>2, <3>1, InRange
    <2>3. ASSUME NEW x \in Range(t) PROVE x \in Range(r)
        <3>1. PICK k \in 1..Len(t) : t[k] = x BY <2>3, InRange
        <3> QED BY <1>1, <1>2, <3>1, InRange
    <2> QED BY <2>1, <2>2, <2>3
<1>6. IsInjective(r)
    <2>1. SUFFICES ASSUME NEW a \in 1..Len(r), NEW b \in 1..Len(r), r[a] = r[b]
                   PROVE  a = b
        BY <1>1, InRange
    <2>2. ASSUME NEW c \in 1..Len(s), NEW d \in 1..Len(t) PROVE s[c] # t[d]
        <3>1. s[c] \in Range(s) /\ t[d] \in Range(t) BY InRange
        <3> QED BY <3>1
    <2>3. CASE a \in 1..Len(s) /\ b \in 1..Len(s) BY <1>2, <2>1, <2>3, InRange
    <2>4. CASE a - Len(s) \in 1..Len(t) /\ b - Len(s) \in 1..Len(t)
        <3>1. Len(s) + (a - Len(s)) = a /\ Len(s) + (b - Len(s)) = b BY <1>1, <1>3
        <3>2. t[a - Len(s)] = t[b - Len(s)] BY <1>2, <2>1, <2>4, <3>1
        <3>3. a - Len(s) = b - Len(s) BY <2>4, <3>2, InRange
        <3> QED BY <3>1, <3>3
    <2> QED BY <1>4, <2>1, <2>2, <2>3, <2>4
<1> QED BY <1>1, <1>5, <1>6 DEF r
-----------------------------------------------------------------------------
\* The empty table satisfies the invariant.
LEMMA InitIInv == Init => IInv
<1> SUFFICES ASSUME Init PROVE IInv OBVIOUS
<1>1. due \in Seq(Jobs) /\ Range(due) = {} /\ IsInjective(due)
    BY DEF Init, Range, IsInjective
<1>2. TypeOK
    BY <1>1, NullAssumption DEF Init, TypeOK, JobStates, WorkerStates
<1> QED
    BY <1>1, <1>2, RetryDelaysAssumption
    DEF Init, IInv, QueueMatchesRows, TicketsReached, TicketsDistinct,
        RetriesCloseAttempts, RetryBudget

\* What ToQueue does to the rows of the jobs it takes, and to the others.
LEMMA ToQueueRows ==
    ASSUME TypeOK, NEW js \in SUBSET Jobs, ToQueue(js)
    PROVE  /\ state' \in [Jobs -> JobStates] /\ holder' \in [Jobs -> Workers \cup {Null}]
           /\ lapsed' = lapsed \ js
           /\ request' = request /\ attempt' = attempt
           /\ \A j \in js : state'[j] = "queued" /\ holder'[j] = Null
           /\ \A j \in Jobs \ js : state'[j] = state[j] /\ holder'[j] = holder[j]
BY DEF TypeOK, ToQueue, JobStates

\* The queue keeps matching the rows when jobs `back` join it at the end.
LEMMA JoinQueue ==
    ASSUME TypeOK, QueueMatchesRows,
           NEW js \in SUBSET Jobs, ToQueue(js), js \cap Range(due) = {},
           NEW back \in Seq(Jobs), Range(back) \subseteq js, IsInjective(back),
           due' = due \o back
    PROVE  due' \in Seq(Jobs) /\ QueueMatchesRows'
<1>1. due \in Seq(Jobs) /\ IsInjective(due) BY DEF TypeOK, QueueMatchesRows
<1>2. due' \in Seq(Jobs) /\ Range(due') \subseteq Range(due) \cup js /\ IsInjective(due')
    BY <1>1, ConcatElements
<1>3. Range(due) \subseteq Jobs BY <1>1, InRange
<1>4. \A j \in Range(due') : state'[j] = "queued"
    BY <1>2, <1>3, ToQueueRows DEF QueueMatchesRows
<1>5. \A j \in Jobs : state'[j] \in Unleased => holder'[j] = Null
    BY ToQueueRows DEF QueueMatchesRows, Unleased
<1>6. \A j \in lapsed' : state'[j] = "running"
    BY ToQueueRows DEF QueueMatchesRows, TypeOK
<1> QED BY <1>2, <1>4, <1>5, <1>6 DEF QueueMatchesRows

\* The sequences start() may append list each lapsed job once.
LEMMA SetToSeqsElements ==
    ASSUME NEW S, IsFiniteSet(S), NEW t \in SetToSeqs(S)
    PROVE  t \in Seq(S) /\ Range(t) \subseteq S /\ IsInjective(t)
<1> DEFINE n == Cardinality(S)
<1>1. n \in Nat BY FS_CardinalityType
<1>2. t \in [1..n -> S] /\ \A i, k \in 1..n : i # k => t[i] # t[k]
    BY Zenon DEF SetToSeqs
<1> HIDE DEF n
<1>3. t \in Seq(S) /\ DOMAIN t = 1..n BY <1>1, <1>2
<1> QED BY <1>2, <1>3 DEF Range, IsInjective

\* A one-element sequence, as JoinQueue wants it.
LEMMA SingleElement ==
    ASSUME NEW j \in Jobs, NEW s \in Seq(Jobs)
    PROVE  /\ <<j>> \in Seq(Jobs) /\ Range(<<j>>) = {j} /\ IsInjective(<<j>>)
           /\ Append(s, j) = s \o <<j>>
<1>1. Append(s, j) = s \o <<j>> OBVIOUS
<1>2. <<j>> \in Seq(Jobs) /\ Len(<<j>>) = 1 /\ <<j>>[1] = j OBVIOUS
<1> DEFINE t == <<j>>
<1> HIDE DEF t
<1>3. t \in Seq(Jobs) /\ Len(t) = 1 /\ t[1] = j BY <1>2 DEF t
<1>4. \A x : x \in Range(t) <=> x = j BY <1>3, InRange
<1>5. IsInjective(t) BY <1>3, InRange
<1> QED BY <1>1, <1>3, <1>4, <1>5 DEF t

\* JoinQueue for one job.
LEMMA JoinQueueOne ==
    ASSUME TypeOK, QueueMatchesRows, NEW j \in Jobs, ToQueue({j}),
           j \notin Range(due), due' = Append(due, j)
    PROVE  due' \in Seq(Jobs) /\ QueueMatchesRows'
<1>1. due \in Seq(Jobs) BY DEF TypeOK
<1> DEFINE back == <<j>>
<1>2. due' = due \o back BY <1>1, SingleElement
<1>3. back \in Seq(Jobs) /\ Range(back) \subseteq {j} /\ IsInjective(back)
    BY <1>1, SingleElement
<1>4. {j} \in SUBSET Jobs /\ {j} \cap Range(due) = {} OBVIOUS
<1> HIDE DEF back
<1> QED BY <1>2, <1>3, <1>4, JoinQueue

\* A claim takes the oldest due job out of the queue.
LEMMA ClaimQueue ==
    ASSUME IInv, NEW w \in Workers, ClaimRow(w)
    PROVE  /\ Head(due) \in Jobs /\ state[Head(due)] = "queued"
           /\ state' \in [Jobs -> JobStates] /\ attempt' \in [Jobs -> Nat]
           /\ holder' \in [Jobs -> Workers \cup {Null}] /\ due' \in Seq(Jobs)
           /\ QueueMatchesRows'
<1> DEFINE h == Head(due)
<1>1. due \in Seq(Jobs) /\ due # <<>> /\ IsInjective(due)
    BY DEF IInv, TypeOK, QueueMatchesRows, ClaimRow
<1>2. /\ h \in Range(due) /\ due' \in Seq(Jobs)
      /\ Range(due') \subseteq Range(due) \ {h} /\ IsInjective(due')
    BY <1>1, TailElements DEF ClaimRow
<1>3. h \in Jobs /\ state[h] = "queued" /\ Range(due) \subseteq Jobs
    BY <1>1, <1>2, InRange DEF IInv, QueueMatchesRows
<1> HIDE DEF h
<1>4. /\ state' = [state EXCEPT ![h] = "running"]
      /\ attempt' = [attempt EXCEPT ![h] = @ + 1]
      /\ holder' = [holder EXCEPT ![h] = w]
      /\ lapsed' = lapsed
    BY DEF ClaimRow, h
<1>5. /\ state' \in [Jobs -> JobStates] /\ attempt' \in [Jobs -> Nat]
      /\ holder' \in [Jobs -> Workers \cup {Null}]
    BY <1>3, <1>4 DEF IInv, TypeOK, JobStates
<1>6. \A j \in Range(due') : state'[j] = "queued"
    BY <1>2, <1>3, <1>4 DEF IInv, TypeOK, QueueMatchesRows
<1>7. \A j \in Jobs : state'[j] \in Unleased => holder'[j] = Null
    BY <1>3, <1>4 DEF IInv, TypeOK, QueueMatchesRows, Unleased
<1>8. \A j \in lapsed' : state'[j] = "running"
    BY <1>3, <1>4 DEF IInv, TypeOK, QueueMatchesRows
<1> QED BY <1>2, <1>3, <1>5, <1>6, <1>7, <1>8 DEF QueueMatchesRows, h

\* A verdict that does not touch the queue: the row leaves 'running'.
LEMMA VerdictQueue ==
    ASSUME IInv, NEW j \in Jobs, state[j] = "running", due' = due,
           NEW s \in {"succeeded", "failed"}, state' = [state EXCEPT ![j] = s],
           holder' = holder, lapsed' = lapsed \ {j}
    PROVE  state' \in [Jobs -> JobStates] /\ QueueMatchesRows'
<1>1. due \in Seq(Jobs) BY DEF IInv, TypeOK
<1>2. Range(due) \subseteq Jobs /\ j \notin Range(due)
    BY <1>1, InRange DEF IInv, QueueMatchesRows
<1>3. state' \in [Jobs -> JobStates] BY DEF IInv, TypeOK, JobStates
<1>4. \A k \in Range(due') : state'[k] = "queued"
    BY <1>2 DEF IInv, TypeOK, QueueMatchesRows
<1>5. \A k \in Jobs : state'[k] \in Unleased => holder'[k] = Null
    BY DEF IInv, TypeOK, QueueMatchesRows, Unleased
<1>6. \A k \in lapsed' : state'[k] = "running"
    BY DEF IInv, TypeOK, QueueMatchesRows
<1> QED BY <1>3, <1>4, <1>5, <1>6 DEF IInv, QueueMatchesRows

\* What Forget leaves in memory.
LEMMA ForgetMemory ==
    ASSUME TypeOK, NEW w \in Workers, NEW to \in {"down", "idle"}, Forget(w, to)
    PROVE  /\ pc' \in [Workers -> WorkerStates]
           /\ serving' \in [Workers -> Jobs \cup {Null}]
           /\ ticket' \in [Workers -> Nat]
           /\ pc'[w] = to /\ serving'[w] = Null /\ ticket'[w] = 0
           /\ \A v \in Workers \ {w} :
                pc'[v] = pc[v] /\ serving'[v] = serving[v] /\ ticket'[v] = ticket[v]
BY DEF TypeOK, Forget, WorkerStates

\* Types and the agreement of queue and rows, action by action.
LEMMA QueueStep == IInv /\ [Next]_vars => TypeOK' /\ QueueMatchesRows'
<1> SUFFICES ASSUME IInv, [Next]_vars PROVE TypeOK' /\ QueueMatchesRows'
    OBVIOUS
<1> USE DEF IInv
<1>0. due \in Seq(Jobs) /\ Range(due) \subseteq Jobs BY InRange DEF TypeOK
<1>1. ASSUME NEW j \in Jobs, NEW r \in Requests, Enqueue(j, r)
      PROVE  TypeOK' /\ QueueMatchesRows'
    <2>1. j \notin Range(due) BY <1>1 DEF Enqueue, QueueMatchesRows
    <2>2. /\ due' \in Seq(Jobs) /\ Range(due') = Range(due) \cup {j}
          /\ IsInjective(due')
        BY <1>0, <1>1, <2>1, AppendElements DEF Enqueue, QueueMatchesRows
    <2>3. TypeOK' BY <1>1, <2>2 DEF Enqueue, TypeOK, JobStates, memory
    <2>4. \A k \in Range(due') : state'[k] = "queued"
        BY <1>0, <1>1, <2>2 DEF Enqueue, TypeOK, QueueMatchesRows
    <2>5. \A k \in Jobs : state'[k] \in Unleased => holder'[k] = Null
        BY <1>1 DEF Enqueue, TypeOK, QueueMatchesRows, Unleased
    <2>6. \A k \in lapsed' : state'[k] = "running"
        BY <1>1 DEF Enqueue, TypeOK, QueueMatchesRows
    <2> QED BY <2>2, <2>3, <2>4, <2>5, <2>6 DEF QueueMatchesRows
<1>2. ASSUME NEW j \in Jobs, DeleteQueued(j)
      PROVE  TypeOK' /\ QueueMatchesRows'
    <2>1. /\ due' \in Seq(Jobs) /\ IsInjective(due')
          /\ Range(due') \subseteq Range(due) \ {j}
        <3>1. ASSUME NEW i \in DOMAIN due, due[i] = j, due' = RemoveAt(due, i)
              PROVE  /\ due' \in Seq(Jobs) /\ IsInjective(due')
                     /\ Range(due') \subseteq Range(due) \ {j}
            BY <1>0, <3>1, RemoveAtElements DEF QueueMatchesRows
        <3> QED BY <1>0, <1>2, <3>1 DEF DeleteQueued, QueueMatchesRows
    <2>2. TypeOK' BY <1>2, <2>1 DEF DeleteQueued, TypeOK, JobStates, memory
    <2>3. \A k \in Range(due') : state'[k] = "queued"
        BY <1>0, <1>2, <2>1 DEF DeleteQueued, TypeOK, QueueMatchesRows
    <2>4. \A k \in Jobs : state'[k] \in Unleased => holder'[k] = Null
        BY <1>2 DEF DeleteQueued, TypeOK, QueueMatchesRows, Unleased
    <2>5. \A k \in lapsed' : state'[k] = "running"
        BY <1>2 DEF DeleteQueued, TypeOK, QueueMatchesRows
    <2> QED BY <2>1, <2>2, <2>3, <2>4, <2>5 DEF QueueMatchesRows
<1>3. ASSUME NEW j \in Jobs, AdminRetry(j)
      PROVE  TypeOK' /\ QueueMatchesRows'
    <2>1. j \notin Range(due) BY <1>3 DEF AdminRetry, QueueMatchesRows
    <2>2. due' \in Seq(Jobs) /\ QueueMatchesRows'
        BY <1>3, <2>1, JoinQueueOne DEF AdminRetry
    <2> QED BY <1>3, <2>2, ToQueueRows DEF AdminRetry, TypeOK, memory
<1>4. ASSUME NEW j \in Jobs, BecomeDue(j)
      PROVE  TypeOK' /\ QueueMatchesRows'
    <2>1. /\ due' \in Seq(Jobs) /\ Range(due') = Range(due) \cup {j}
          /\ IsInjective(due')
        BY <1>0, <1>4, AppendElements DEF BecomeDue, QueueMatchesRows
    <2>2. TypeOK' BY <1>4, <2>1 DEF BecomeDue, TypeOK, memory
    <2> QED BY <1>4, <2>1, <2>2 DEF BecomeDue, QueueMatchesRows
<1>5. ASSUME NEW j \in Jobs, Lapse(j)
      PROVE  TypeOK' /\ QueueMatchesRows'
    BY <1>5 DEF Lapse, TypeOK, QueueMatchesRows, memory
<1>6. ASSUME NEW w \in Workers, Start(w)
      PROVE  TypeOK' /\ QueueMatchesRows'
    <2>1. lapsed \in SUBSET Jobs /\ lapsed \cap Range(due) = {}
        BY DEF TypeOK, QueueMatchesRows
    <2>2. PICK back \in SetToSeqs(lapsed) : due' = due \o back BY <1>6 DEF Start
    <2>3. back \in Seq(Jobs) /\ Range(back) \subseteq lapsed /\ IsInjective(back)
        <3>1. IsFiniteSet(lapsed) BY <2>1, JobsAssumption, FS_Subset
        <3>2. back \in Seq(lapsed) /\ Range(back) \subseteq lapsed /\ IsInjective(back)
            BY <3>1, SetToSeqsElements
        <3> QED BY <2>1, <3>2
    <2>4. due' \in Seq(Jobs) /\ QueueMatchesRows'
        BY <1>6, <2>1, <2>2, <2>3, JoinQueue DEF Start
    <2> QED BY <1>6, <2>1, <2>4, ToQueueRows, ForgetMemory DEF Start, TypeOK
<1>7. ASSUME NEW w \in Workers, Claim(w)
      PROVE  TypeOK' /\ QueueMatchesRows'
    <2>1. Head(due) \in Jobs /\ attempt[Head(due)] + 1 \in Nat
        BY <1>7, ClaimQueue DEF Claim, TypeOK
    <2>2. /\ pc' \in [Workers -> WorkerStates]
          /\ serving' \in [Workers -> Jobs \cup {Null}]
          /\ ticket' \in [Workers -> Nat]
        BY <1>7, <2>1 DEF Claim, TypeOK, WorkerStates
    <2> QED BY <1>7, <2>2, ClaimQueue DEF Claim, ClaimRow, TypeOK
<1>8. ASSUME NEW w \in Workers, StopInClaim(w)
      PROVE  TypeOK' /\ QueueMatchesRows'
    BY <1>8, ClaimQueue, ForgetMemory DEF StopInClaim, ClaimRow, TypeOK
<1>9. ASSUME NEW w \in Workers, ProcessOk(w) \/ ProcessError(w) \/ StopInProcess(w)
      PROVE  TypeOK' /\ QueueMatchesRows'
    BY <1>9 DEF ProcessOk, ProcessError, StopInProcess, Processed, rows,
        TypeOK, QueueMatchesRows, WorkerStates
<1>10. ASSUME NEW w \in Workers, Complete(w) \/ Fail(w)
       PROVE  TypeOK' /\ QueueMatchesRows'
    <2> DEFINE j == serving[w]
    <2>1. j \in Jobs /\ state[j] = "running"
        BY <1>10 DEF Complete, Fail, LeaseHolds, TypeOK
    <2>2. PICK s \in {"succeeded", "failed"} : state' = [state EXCEPT ![j] = s]
        BY <1>10 DEF Complete, Fail
    <2>3. state' \in [Jobs -> JobStates] /\ QueueMatchesRows'
        BY <1>10, <2>1, <2>2, VerdictQueue DEF Complete, Fail
    <2> QED BY <1>10, <2>3, ForgetMemory DEF Complete, Fail, TypeOK
<1>11. ASSUME NEW w \in Workers, Retry(w)
       PROVE  TypeOK' /\ QueueMatchesRows'
    <2> DEFINE j == serving[w]
    <2>1. j \in Jobs /\ state[j] = "running" /\ ToQueue({j}) /\ due' = due
        BY <1>11 DEF Retry, LeaseHolds, TypeOK
    <2>2. \A k \in Range(due') : state'[k] = "queued"
        BY <1>0, <2>1, ToQueueRows DEF QueueMatchesRows
    <2>3. \A k \in Jobs : state'[k] \in Unleased => holder'[k] = Null
        BY <2>1, ToQueueRows DEF QueueMatchesRows, Unleased
    <2>4. \A k \in lapsed' : state'[k] = "running"
        BY <2>1, ToQueueRows DEF QueueMatchesRows, TypeOK
    <2>5. retries' \in [Jobs -> Nat] BY <1>11, <2>1 DEF Retry, TypeOK
    <2> QED BY <1>11, <2>1, <2>2, <2>3, <2>4, <2>5, ToQueueRows, ForgetMemory
            DEF Retry, TypeOK, QueueMatchesRows
<1>12. ASSUME NEW w \in Workers, RequeueCancelled(w)
       PROVE  TypeOK' /\ QueueMatchesRows'
    <2> DEFINE j == serving[w]
    <2>1. j \in Jobs /\ state[j] = "running" /\ ToQueue({j})
        BY <1>12 DEF RequeueCancelled, LeaseHolds, TypeOK
    <2>2. due' = Append(due, j) BY <1>12 DEF RequeueCancelled
    <2>3. j \notin Range(due) BY <2>1 DEF QueueMatchesRows
    <2> HIDE DEF j
    <2>4. due' \in Seq(Jobs) /\ QueueMatchesRows'
        BY <2>1, <2>2, <2>3, JoinQueueOne
    <2> QED BY <1>12, <2>1, <2>4, ToQueueRows, ForgetMemory DEF RequeueCancelled, TypeOK
<1>13. ASSUME NEW w \in Workers, Conflict(w) \/ VerdictLost(w) \/ Crash(w)
       PROVE  TypeOK' /\ QueueMatchesRows'
    <2>1. PICK to \in {"down", "idle"} : Forget(w, to)
        BY <1>13 DEF Conflict, VerdictLost, Crash
    <2>2. UNCHANGED <<rows, retries>> BY <1>13 DEF Conflict, VerdictLost, Crash
    <2> QED BY <2>1, <2>2, ForgetMemory DEF TypeOK, QueueMatchesRows, rows
<1>14. CASE UNCHANGED vars
    BY <1>14 DEF vars, TypeOK, QueueMatchesRows
<1> QED BY <1>1, <1>2, <1>3, <1>4, <1>5, <1>6, <1>7, <1>8, <1>9, <1>10, <1>11,
           <1>12, <1>13, <1>14 DEF Next, Step, Verdict, Disturb

\* Tickets and the retry budget, by what an action does to them.
Budgets == RetriesCloseAttempts /\ RetryBudget
Tickets == TicketsReached /\ TicketsDistinct

\* A worker forgets its job while no attempt counter moves.
LEMMA ForgetTickets ==
    ASSUME IInv, NEW w \in Workers, NEW to \in {"down", "idle"}, Forget(w, to),
           attempt' = attempt
    PROVE  Tickets'
<1>1. \A v \in Workers : serving[v] # Null => serving[v] \in Jobs
    BY DEF IInv, TypeOK
<1>2. TicketsReached'
    BY <1>1, ForgetMemory DEF IInv, TicketsReached
<1>3. TicketsDistinct'
    BY <1>1, ForgetMemory DEF IInv, TicketsDistinct
<1> QED BY <1>2, <1>3 DEF Tickets

\* No job becomes running and nothing is retried or claimed.
LEMMA SameBudgets ==
    ASSUME IInv, attempt' = attempt, retries' = retries,
           \A j \in Jobs : state'[j] = "running" => state[j] = "running"
    PROVE  Budgets'
BY DEF IInv, Budgets, RetriesCloseAttempts, RetryBudget

\* Tickets and retry budgets, action by action.
LEMMA LeaseStep == IInv /\ [Next]_vars => Tickets' /\ Budgets'
<1> SUFFICES ASSUME IInv, [Next]_vars PROVE Tickets' /\ Budgets'
    OBVIOUS
<1>0. TypeOK BY DEF IInv
<1>1. ASSUME UNCHANGED <<memory, retries, attempt>>,
             \A j \in Jobs : state'[j] = "running" => state[j] = "running"
      PROVE  Tickets' /\ Budgets'
    BY <1>1, SameBudgets DEF memory, Tickets, TicketsReached, TicketsDistinct, IInv
<1>2. ASSUME NEW j \in Jobs, NEW r \in Requests, Enqueue(j, r)
      PROVE  Tickets' /\ Budgets'
    BY <1>0, <1>1, <1>2 DEF Enqueue, TypeOK
<1>3. ASSUME NEW j \in Jobs, DeleteQueued(j) \/ BecomeDue(j) \/ Lapse(j)
      PROVE  Tickets' /\ Budgets'
    BY <1>0, <1>1, <1>3 DEF DeleteQueued, BecomeDue, Lapse, TypeOK
<1>4. ASSUME NEW j \in Jobs, AdminRetry(j)
      PROVE  Tickets' /\ Budgets'
    <2>1. ToQueue({j}) /\ UNCHANGED <<memory, retries>> BY <1>4 DEF AdminRetry
    <2>2. \A k \in Jobs : state'[k] = "running" => state[k] = "running"
        BY <1>0, <2>1, ToQueueRows
    <2> QED BY <1>0, <1>1, <2>1, <2>2, ToQueueRows
<1>5. ASSUME NEW w \in Workers, Start(w)
      PROVE  Tickets' /\ Budgets'
    <2>1. ToQueue(lapsed) /\ lapsed \in SUBSET Jobs /\ retries' = retries /\ Forget(w, "idle")
        BY <1>0, <1>5 DEF Start, TypeOK
    <2>2. attempt' = attempt BY <1>0, <2>1, ToQueueRows
    <2>3. \A k \in Jobs : state'[k] = "running" => state[k] = "running"
        BY <1>0, <2>1, ToQueueRows
    <2> QED BY <2>1, <2>2, <2>3, ForgetTickets, SameBudgets
<1>6. ASSUME NEW w \in Workers, ClaimRow(w)
      PROVE  /\ Budgets'
             /\ \A j \in Jobs : attempt'[j] = IF j = Head(due) THEN attempt[j] + 1 ELSE attempt[j]
             /\ Head(due) \in Jobs
    <2> DEFINE h == Head(due)
    <2>1. h \in Jobs BY <1>6, ClaimQueue
    <2> HIDE DEF h
    <2>2. /\ state' = [state EXCEPT ![h] = "running"]
          /\ attempt' = [attempt EXCEPT ![h] = @ + 1]
          /\ retries' = retries
        BY <1>6 DEF ClaimRow, h
    <2>3. \A j \in Jobs : attempt'[j] = IF j = h THEN attempt[j] + 1 ELSE attempt[j]
        BY <1>0, <2>1, <2>2 DEF TypeOK
    <2>4. Budgets'
        BY <1>0, <2>1, <2>2, <2>3
        DEF TypeOK, IInv, Budgets, RetriesCloseAttempts, RetryBudget
    <2> QED BY <2>1, <2>3, <2>4 DEF h
<1>7. ASSUME NEW w \in Workers, Claim(w)
      PROVE  Tickets' /\ Budgets'
    <2> DEFINE h == Head(due)
    <2>1. /\ Budgets' /\ h \in Jobs
          /\ \A j \in Jobs : attempt'[j] = IF j = h THEN attempt[j] + 1 ELSE attempt[j]
        BY <1>6, <1>7 DEF Claim
    <2> HIDE DEF h
    <2>2. /\ pc' = [pc EXCEPT ![w] = "processing"]
          /\ serving' = [serving EXCEPT ![w] = h]
          /\ ticket' = [ticket EXCEPT ![w] = attempt[h] + 1]
        BY <1>7 DEF Claim, h
    <2>3. attempt \in [Jobs -> Nat] /\ h # Null BY <1>0, <2>1, NullAssumption DEF TypeOK
    <2>4. ASSUME NEW v \in Workers
          PROVE  /\ serving'[v] # Null <=> pc'[v] \in {"processing", "done", "error", "cancelled"}
                 /\ serving'[v] # Null => ticket'[v] \in 1..attempt'[serving'[v]]
        <3>1. CASE v = w BY <1>0, <2>1, <2>2, <2>3, <3>1 DEF TypeOK
        <3>2. CASE v # w
            <4>1. pc'[v] = pc[v] /\ serving'[v] = serving[v] /\ ticket'[v] = ticket[v]
                BY <1>0, <2>2, <3>2 DEF TypeOK
            <4>2. serving[v] # Null => serving[v] \in Jobs BY <1>0 DEF TypeOK
            <4> QED BY <2>1, <2>3, <4>1, <4>2 DEF IInv, TicketsReached
        <3> QED BY <3>1, <3>2
    <2>5. ASSUME NEW v \in Workers, v # w, serving[v] = h PROVE ticket[v] # attempt[h] + 1
        BY <1>0, <2>3, <2>5 DEF TypeOK, IInv, TicketsReached
    <2>6. TicketsDistinct'
        <3>1. SUFFICES ASSUME NEW u \in Workers, NEW v \in Workers, u # v,
                              serving'[u] = serving'[v], serving'[u] # Null
                       PROVE  ticket'[u] # ticket'[v]
            BY DEF TicketsDistinct
        <3>2. CASE u = w BY <1>0, <2>2, <2>5, <3>1, <3>2 DEF TypeOK
        <3>3. CASE v = w BY <1>0, <2>2, <2>5, <3>1, <3>3 DEF TypeOK
        <3>4. CASE u # w /\ v # w
            BY <1>0, <2>2, <3>1, <3>4 DEF TypeOK, IInv, TicketsDistinct
        <3> QED BY <3>2, <3>3, <3>4
    <2> QED BY <2>1, <2>4, <2>6 DEF Tickets, TicketsReached
<1>8. ASSUME NEW w \in Workers, StopInClaim(w)
      PROVE  Tickets' /\ Budgets'
    <2> DEFINE h == Head(due)
    <2>1. /\ Budgets' /\ Forget(w, "down")
          /\ \A j \in Jobs : attempt'[j] = IF j = h THEN attempt[j] + 1 ELSE attempt[j]
        BY <1>6, <1>8 DEF StopInClaim
    <2> HIDE DEF h
    <2>2. ASSUME NEW j \in Jobs
          PROVE  attempt[j] \in Nat /\ attempt'[j] \in Nat /\ attempt'[j] >= attempt[j]
        <3>1. attempt[j] \in Nat BY <1>0 DEF TypeOK
        <3>2. attempt'[j] = attempt[j] + 1 \/ attempt'[j] = attempt[j] BY <2>1
        <3> QED BY <3>1, <3>2
    <2>3. \A v \in Workers : serving[v] # Null => serving[v] \in Jobs /\ ticket[v] \in Nat
        BY <1>0 DEF TypeOK
    <2>4. TicketsReached'
        BY <1>0, <2>1, <2>2, <2>3, ForgetMemory DEF IInv, TicketsReached
    <2>5. TicketsDistinct'
        BY <1>0, <2>1, <2>3, ForgetMemory DEF IInv, TicketsDistinct
    <2> QED BY <2>1, <2>4, <2>5 DEF Tickets
<1>9. ASSUME NEW w \in Workers, ProcessOk(w) \/ ProcessError(w) \/ StopInProcess(w)
      PROVE  Tickets' /\ Budgets'
    <2>1. PICK outcome \in {"done", "error", "cancelled"} : Processed(w, outcome)
        BY <1>9 DEF ProcessOk, ProcessError, StopInProcess
    <2>2. TicketsReached'
        BY <1>0, <2>1 DEF Processed, rows, TypeOK, IInv, TicketsReached
    <2>3. TicketsDistinct'
        BY <2>1 DEF Processed, rows, IInv, TicketsDistinct
    <2>4. Budgets' BY <2>1, SameBudgets DEF Processed, rows
    <2> QED BY <2>2, <2>3, <2>4 DEF Tickets
<1>10. ASSUME NEW w \in Workers, Complete(w) \/ Fail(w)
       PROVE  Tickets' /\ Budgets'
    <2>1. Forget(w, "idle") /\ attempt' = attempt /\ retries' = retries
        BY <1>10 DEF Complete, Fail
    <2>2. \A j \in Jobs : state'[j] = "running" => state[j] = "running"
        BY <1>0, <1>10 DEF Complete, Fail, TypeOK
    <2> QED BY <2>1, <2>2, ForgetTickets, SameBudgets
<1>11. ASSUME NEW w \in Workers, Retry(w)
       PROVE  Tickets' /\ Budgets'
    <2> DEFINE j == serving[w]
    <2>1. /\ j \in Jobs /\ state[j] = "running" /\ attempt[j] = ticket[w]
          /\ ticket[w] <= RetryDelays /\ ToQueue({j})
          /\ retries' = [retries EXCEPT ![j] = @ + 1] /\ Forget(w, "idle")
        BY <1>0, <1>11 DEF Retry, LeaseHolds, TypeOK
    <2>2. attempt' = attempt /\ \A k \in Jobs : state'[k] = "running" => k # j /\ state[k] = "running"
        BY <1>0, <2>1, ToQueueRows
    <2>3. Tickets' BY <2>1, <2>2, ForgetTickets
    <2>4. ASSUME NEW k \in Jobs
          PROVE  /\ retries'[k] <= attempt'[k] /\ retries'[k] <= RetryDelays
                 /\ state'[k] = "running" => retries'[k] < attempt'[k]
        <3>1. retries[k] \in Nat /\ attempt[k] \in Nat BY <1>0 DEF TypeOK
        <3>2. CASE k = j
            <4>1. retries'[k] = retries[k] + 1 BY <1>0, <2>1, <3>2 DEF TypeOK
            <4>2. retries[k] < attempt[k] /\ attempt[k] <= RetryDelays
                BY <2>1, <3>2 DEF IInv, RetriesCloseAttempts
            <4> QED BY <2>2, <3>1, <3>2, <4>1, <4>2, RetryDelaysAssumption
        <3>3. CASE k # j
            <4>1. retries'[k] = retries[k] BY <1>0, <2>1, <3>3 DEF TypeOK
            <4> QED BY <2>2, <4>1 DEF IInv, RetriesCloseAttempts, RetryBudget
        <3> QED BY <3>2, <3>3
    <2> QED BY <2>3, <2>4 DEF Budgets, RetriesCloseAttempts, RetryBudget
<1>12. ASSUME NEW w \in Workers, RequeueCancelled(w)
       PROVE  Tickets' /\ Budgets'
    <2>1. /\ serving[w] \in Jobs /\ ToQueue({serving[w]})
          /\ Forget(w, "down") /\ retries' = retries
        BY <1>0, <1>12 DEF RequeueCancelled, LeaseHolds, TypeOK
    <2>2. attempt' = attempt /\ \A k \in Jobs : state'[k] = "running" => state[k] = "running"
        BY <1>0, <2>1, ToQueueRows
    <2> QED BY <2>1, <2>2, ForgetTickets, SameBudgets
<1>13. ASSUME NEW w \in Workers, Conflict(w) \/ VerdictLost(w) \/ Crash(w)
       PROVE  Tickets' /\ Budgets'
    <2>1. PICK to \in {"down", "idle"} : Forget(w, to)
        BY <1>13 DEF Conflict, VerdictLost, Crash
    <2>2. UNCHANGED <<rows, retries>> BY <1>13 DEF Conflict, VerdictLost, Crash
    <2> QED BY <2>1, <2>2, ForgetTickets, SameBudgets DEF rows
<1>14. CASE UNCHANGED vars BY <1>1, <1>14 DEF vars, memory
<1> QED BY <1>2, <1>3, <1>4, <1>5, <1>7, <1>8, <1>9, <1>10, <1>11, <1>12, <1>13,
           <1>14 DEF Next, Step, Verdict, Disturb

\* The inductive invariant holds throughout.
LEMMA IInvHolds == Spec => []IInv
<1>1. IInv /\ [Next]_vars => IInv'
    BY QueueStep, LeaseStep DEF IInv, Tickets, Budgets
<1> QED BY InitIInv, <1>1, PTL DEF Spec

-----------------------------------------------------------------------------
\* Every variable keeps its type, and the claim queue agrees with the rows:
\* claim_next_job only ever leases a queued row, once.
THEOREM QueueCorrect == Spec => [](TypeOK /\ QueueMatchesRows)
BY IInvHolds, PTL DEF IInv

\* For any number of workers alive at once, the lease that a verdict compares
\* (worker_id, attempt) never belongs to two of them.
THEOREM TicketsCorrect == Spec => []TicketsDistinct
BY IInvHolds, PTL DEF IInv

\* The automatic retries of a job never exceed the table of delays.
THEOREM RetriesBounded == Spec => []RetryBudget
BY IInvHolds, PTL DEF IInv

\* Only the worker a running row names ends its attempt, except for a starting
\* process that takes over a lapsed lease.
THEOREM HolderDecides == Spec => OnlyHolderDecides
<1> DEFINE Decided(j) ==
        (state[j] = "running" /\ state'[j] # "running") =>
            \/ \E w \in Workers :
                serving[w] = j /\ ticket[w] = attempt[j] /\ holder[j] = w /\ serving'[w] = Null
            \/ j \in lapsed /\ \E w \in Workers : pc[w] = "down" /\ pc'[w] = "idle"
<1>1. IInv /\ [Next]_vars => \A j \in Jobs : Decided(j)
    <2> SUFFICES ASSUME IInv, [Next]_vars, NEW j \in Jobs,
                        state[j] = "running", state'[j] # "running"
                 PROVE  Decided(j)
        OBVIOUS
    <2>0. TypeOK BY DEF IInv
    <2>1. ASSUME NEW k \in Jobs, NEW r \in Requests, Enqueue(k, r) PROVE FALSE
        BY <2>0, <2>1 DEF Enqueue, TypeOK
    <2>2. ASSUME NEW k \in Jobs, DeleteQueued(k) \/ BecomeDue(k) \/ Lapse(k) PROVE FALSE
        BY <2>0, <2>2 DEF DeleteQueued, BecomeDue, Lapse, TypeOK
    <2>3. ASSUME NEW k \in Jobs, AdminRetry(k) PROVE FALSE
        BY <2>0, <2>3, ToQueueRows DEF AdminRetry
    <2>4. ASSUME NEW w \in Workers, Start(w) PROVE Decided(j)
        <3>1. ToQueue(lapsed) /\ lapsed \in SUBSET Jobs /\ pc[w] = "down" /\ Forget(w, "idle")
            BY <2>0, <2>4 DEF Start, TypeOK
        <3> QED BY <2>0, <3>1, ToQueueRows, ForgetMemory
    <2>5. ASSUME NEW w \in Workers, ClaimRow(w) PROVE FALSE
        <3>1. Head(due) \in Jobs /\ state' = [state EXCEPT ![Head(due)] = "running"]
            BY <2>5, ClaimQueue DEF ClaimRow
        <3> QED BY <2>0, <3>1 DEF TypeOK
    <2>6. ASSUME NEW w \in Workers, Complete(w) \/ Fail(w) PROVE Decided(j)
        BY <2>0, <2>6, ForgetMemory DEF Complete, Fail, LeaseHolds, TypeOK
    <2>7. ASSUME NEW w \in Workers, Retry(w) \/ RequeueCancelled(w) PROVE Decided(j)
        <3>1. PICK to \in {"down", "idle"} : Forget(w, to)
            BY <2>7 DEF Retry, RequeueCancelled
        <3>2. LeaseHolds(w) /\ serving[w] \in Jobs /\ ToQueue({serving[w]})
            BY <2>0, <2>7 DEF Retry, RequeueCancelled, LeaseHolds, TypeOK
        <3>3. j = serving[w] BY <2>0, <3>2, ToQueueRows
        <3> QED BY <2>0, <3>1, <3>2, <3>3, ForgetMemory DEF LeaseHolds
    <2>8. ASSUME UNCHANGED state PROVE FALSE BY <2>8
    <2> QED BY <2>1, <2>2, <2>3, <2>4, <2>5, <2>6, <2>7, <2>8
            DEF Next, Step, Disturb, Verdict, Claim, StopInClaim, ProcessOk, ProcessError,
                StopInProcess, Processed, Conflict, VerdictLost, Crash, rows, vars
<1>2. IInv /\ [Next]_vars => [\A j \in Jobs : Decided(j)]_vars BY <1>1
<1> HIDE DEF Decided
<1>3. Spec => [][\A j \in Jobs : Decided(j)]_vars
    BY <1>2, IInvHolds, PTL DEF Spec
<1> QED BY <1>3 DEF OnlyHolderDecides, Decided

\* A succeeded job is final and a failed one returns only by a manual retry.
THEOREM FinishedIsFinal == Spec => FinishedStaysFinished
<1> DEFINE Kept(j) ==
        /\ state[j] = "succeeded" => state'[j] = "succeeded"
        /\ (state[j] = "failed" /\ state'[j] # "failed") => UNCHANGED memory
<1>1. IInv /\ [Next]_vars => \A j \in Jobs : Kept(j)
    <2> SUFFICES ASSUME IInv, [Next]_vars, NEW j \in Jobs PROVE Kept(j)
        OBVIOUS
    <2>0. TypeOK BY DEF IInv
    <2>a. ASSUME state[j] \in {"succeeded", "failed"} => state'[j] = state[j] PROVE Kept(j)
        BY <2>a
    <2>1. ASSUME NEW k \in Jobs, NEW r \in Requests, Enqueue(k, r) PROVE Kept(j)
        BY <2>0, <2>1, <2>a DEF Enqueue, TypeOK
    <2>2. ASSUME NEW k \in Jobs, DeleteQueued(k) \/ BecomeDue(k) \/ Lapse(k) PROVE Kept(j)
        BY <2>0, <2>2, <2>a DEF DeleteQueued, BecomeDue, Lapse, TypeOK
    <2>3. ASSUME NEW k \in Jobs, AdminRetry(k) PROVE Kept(j)
        BY <2>0, <2>3, ToQueueRows DEF AdminRetry
    <2>4. ASSUME NEW w \in Workers, Start(w) PROVE Kept(j)
        <3>1. ToQueue(lapsed) /\ lapsed \in SUBSET Jobs BY <2>0, <2>4 DEF Start, TypeOK
        <3>2. \A k \in lapsed : state[k] = "running" BY DEF IInv, QueueMatchesRows
        <3> QED BY <2>0, <2>a, <3>1, <3>2, ToQueueRows
    <2>5. ASSUME NEW w \in Workers, ClaimRow(w) PROVE Kept(j)
        <3>1. /\ Head(due) \in Jobs /\ state[Head(due)] = "queued"
              /\ state' = [state EXCEPT ![Head(due)] = "running"]
            BY <2>5, ClaimQueue DEF ClaimRow
        <3> QED BY <2>0, <2>a, <3>1 DEF TypeOK
    <2>6. ASSUME NEW w \in Workers, Complete(w) \/ Fail(w) PROVE Kept(j)
        BY <2>0, <2>6, <2>a DEF Complete, Fail, LeaseHolds, TypeOK
    <2>7. ASSUME NEW w \in Workers, Retry(w) \/ RequeueCancelled(w) PROVE Kept(j)
        <3>1. /\ serving[w] \in Jobs /\ state[serving[w]] = "running"
              /\ ToQueue({serving[w]})
            BY <2>0, <2>7 DEF Retry, RequeueCancelled, LeaseHolds, TypeOK
        <3> QED BY <2>0, <2>a, <3>1, ToQueueRows
    <2>8. ASSUME UNCHANGED state PROVE Kept(j) BY <2>8
    <2> QED BY <2>1, <2>2, <2>3, <2>4, <2>5, <2>6, <2>7, <2>8
            DEF Next, Step, Disturb, Verdict, Claim, StopInClaim, ProcessOk, ProcessError,
                StopInProcess, Processed, Conflict, VerdictLost, Crash, rows, vars
<1>2. IInv /\ [Next]_vars => [\A j \in Jobs : Kept(j)]_vars BY <1>1
<1> HIDE DEF Kept
<1>3. Spec => [][\A j \in Jobs : Kept(j)]_vars
    BY <1>2, IInvHolds, PTL DEF Spec
<1> QED BY <1>3 DEF FinishedStaysFinished, Kept

-----------------------------------------------------------------------------
\* Refinement.  A worker without a job shows no lease, and one with a job shows
\* the job and the attempt it remembers.
LEMMA LeasesOf ==
    ASSUME NEW w \in Workers
    PROVE  /\ serving[w] = Null => Leases[w] = <<>>
           /\ serving[w] # Null => Leases[w] = <<serving[w], ticket[w]>>
BY DEF Leases

\* Workers that keep their memory keep their leases.
LEMMA LeasesKept ==
    ASSUME UNCHANGED <<serving, ticket>>
    PROVE  Leases' = Leases
BY DEF Leases

\* Forgetting a job releases its lease, and only that one.
LEMMA ForgetReleases ==
    ASSUME TypeOK, NEW w \in Workers, NEW to \in {"down", "idle"}, Forget(w, to)
    PROVE  Leases' = [Leases EXCEPT ![w] = <<>>]
BY ForgetMemory DEF Leases

\* A verdict that passes the compare-and-set comes from the owner of the lease.
LEMMA HolderOwns ==
    ASSUME IInv, NEW w \in Workers, LeaseHolds(w)
    PROVE  /\ serving[w] \in Jobs
           /\ Lease!Owns(w, serving[w])
<1> DEFINE j == serving[w]
<1>1. j \in Jobs /\ j # Null /\ state[j] = "running" /\ attempt[j] = ticket[w]
    BY DEF IInv, TypeOK, LeaseHolds
<1>2. Leases[w] = <<j, attempt[j]>> BY <1>1, LeasesOf
<1>3. ASSUME NEW v \in Workers \ {w} PROVE Leases[v] # Leases[w]
    <2>1. CASE serving[v] = Null BY <1>2, <2>1, LeasesOf
    <2>2. CASE serving[v] # Null
        <3>1. Leases[v] = <<serving[v], ticket[v]>> BY <2>2, LeasesOf
        <3>2. serving[v] = j => ticket[v] # ticket[w]
            BY <1>1, <2>2 DEF IInv, TicketsDistinct
        <3> QED BY <1>1, <1>2, <3>1, <3>2
    <2> QED BY <2>1, <2>2
<1> QED BY <1>1, <1>2, <1>3 DEF Lease!Owns

\* The empty table shows an empty queue of leases.
LEMMA LeaseInit == Init => Lease!Init
BY RetryDelaysAssumption DEF Init, Lease!Init, Lease!NoLease, Leases, RetriesLeft

\* Every step of the queue and its workers is a step of the leases, or changes
\* nothing that they show.
LEMMA LeaseNext == IInv /\ [Next]_vars => [Lease!Next]_(Lease!vars)
<1> SUFFICES ASSUME IInv, [Next]_vars PROVE [Lease!Next]_(Lease!vars)
    OBVIOUS
<1> DEFINE Seen == <<state, attempt, RetriesLeft, lapsed, Leases>>
<1>0. TypeOK /\ (Lease!vars)' = Seen' /\ Lease!vars = Seen BY DEF IInv, Lease!vars
<1>a. ASSUME UNCHANGED retries PROVE RetriesLeft' = RetriesLeft BY <1>a DEF RetriesLeft
<1>b. ASSUME UNCHANGED memory PROVE Leases' = Leases BY <1>b, LeasesKept DEF memory
<1>1. ASSUME NEW j \in Jobs, NEW r \in Requests, Enqueue(j, r)
      PROVE  Lease!Submit(j)
    BY <1>1, <1>a, <1>b DEF Enqueue, Lease!Submit, Lease!Moves
<1>2. ASSUME NEW j \in Jobs, DeleteQueued(j)
      PROVE  Lease!Withdraw(j)
    BY <1>2, <1>a, <1>b DEF DeleteQueued, Lease!Withdraw, Lease!Moves
<1>3. ASSUME NEW j \in Jobs, AdminRetry(j)
      PROVE  Lease!Reopen(j)
    <2>1. /\ state[j] = "failed" /\ ToQueue({j}) /\ UNCHANGED <<memory, retries>>
        BY <1>3 DEF AdminRetry
    <2>2. state' = [state EXCEPT ![j] = "queued"] BY <1>0, <2>1 DEF ToQueue, TypeOK
    <2>3. lapsed' = lapsed BY <2>1 DEF ToQueue, IInv, QueueMatchesRows
    <2>4. attempt' = attempt BY <2>1 DEF ToQueue
    <2> QED BY <1>a, <1>b, <2>1, <2>2, <2>3, <2>4 DEF Lease!Reopen, Lease!Moves
<1>4. ASSUME NEW j \in Jobs, BecomeDue(j)
      PROVE  UNCHANGED Seen
    BY <1>4, <1>a, <1>b DEF BecomeDue
<1>5. ASSUME NEW j \in Jobs, Lapse(j)
      PROVE  Lease!Expire(j)
    BY <1>5, <1>a, <1>b DEF Lapse, Lease!Expire
<1>6. ASSUME NEW w \in Workers, Start(w)
      PROVE  Lease!Revoke
    <2>1. ToQueue(lapsed) /\ Forget(w, "idle") /\ retries' = retries /\ pc[w] = "down"
        BY <1>6 DEF Start
    <2>2. serving[w] = Null BY <2>1 DEF IInv, TicketsReached
    <2>3. Leases' = Leases
        <3>1. Leases' = [Leases EXCEPT ![w] = <<>>] BY <1>0, <2>1, ForgetReleases
        <3>2. Leases[w] = <<>> BY <2>2, LeasesOf
        <3> QED BY <3>1, <3>2 DEF Leases
    <2>4. lapsed' = {} /\ attempt' = attempt BY <2>1 DEF ToQueue
    <2>5. state' = [j \in Jobs |-> IF j \in lapsed THEN "queued" ELSE state[j]]
        BY <2>1 DEF ToQueue
    <2> QED BY <1>a, <2>1, <2>3, <2>4, <2>5 DEF Lease!Revoke
<1>7. ASSUME NEW w \in Workers, ClaimRow(w),
             \/ Leases' = [Leases EXCEPT ![w] = <<Head(due), attempt[Head(due)] + 1>>]
             \/ Leases' = Leases
      PROVE  Head(due) \in Jobs /\ Lease!Grant(Head(due), w)
    <2> DEFINE h == Head(due)
    <2>1. h \in Jobs /\ state[h] = "queued" BY <1>7, ClaimQueue
    <2>2. pc[w] = "idle" BY <1>7 DEF ClaimRow
    <2>3. Leases[w] = <<>> BY <2>2, LeasesOf DEF IInv, TicketsReached
    <2>4. /\ state' = [state EXCEPT ![h] = "running"]
          /\ attempt' = [attempt EXCEPT ![h] = @ + 1]
          /\ UNCHANGED <<lapsed, retries>>
        BY <1>7 DEF ClaimRow
    <2> HIDE DEF h
    <2>5. Leases' = [Leases EXCEPT ![w] = <<h, attempt[h] + 1>>] \/ Leases' = Leases
        BY <1>7 DEF h
    <2>6. Lease!Grant(h, w)
        BY <1>a, <2>1, <2>3, <2>4, <2>5 DEF Lease!Grant, Lease!NoLease, Lease!Moves
    <2> QED BY <2>1, <2>6 DEF h
<1>8. ASSUME NEW w \in Workers, Claim(w)
      PROVE  \E j \in Jobs : Lease!Grant(j, w)
    <2> DEFINE h == Head(due)
    <2>1. ClaimRow(w) /\ h \in Jobs BY <1>8, ClaimQueue DEF Claim
    <2> HIDE DEF h
    <2>2. /\ serving' = [serving EXCEPT ![w] = h]
          /\ ticket' = [ticket EXCEPT ![w] = attempt[h] + 1]
        BY <1>8 DEF Claim, h
    <2>3. Leases' = [Leases EXCEPT ![w] = <<h, attempt[h] + 1>>]
        BY <1>0, <2>1, <2>2, NullAssumption DEF Leases, TypeOK
    <2> QED BY <1>7, <2>1, <2>3 DEF h
<1>9. ASSUME NEW w \in Workers, StopInClaim(w)
      PROVE  \E j \in Jobs : Lease!Grant(j, w)
    <2>1. ClaimRow(w) /\ Forget(w, "down") /\ pc[w] = "idle"
        BY <1>9 DEF StopInClaim, ClaimRow
    <2>2. Leases' = [Leases EXCEPT ![w] = <<>>] BY <1>0, <2>1, ForgetReleases
    <2>3. Leases[w] = <<>> BY <2>1, LeasesOf DEF IInv, TicketsReached
    <2>4. Leases' = Leases BY <2>2, <2>3 DEF Leases
    <2> QED BY <1>7, <2>1, <2>4
<1>10. ASSUME NEW w \in Workers, ProcessOk(w) \/ ProcessError(w) \/ StopInProcess(w)
       PROVE  UNCHANGED Seen
    BY <1>10, <1>a, LeasesKept DEF ProcessOk, ProcessError, StopInProcess, Processed, rows
<1>11. ASSUME NEW w \in Workers, Complete(w) \/ Fail(w)
       PROVE  \E j \in Jobs : Lease!Finish(w, j) \/ Lease!GiveUp(w, j)
    <2> DEFINE j == serving[w]
    <2>1. /\ LeaseHolds(w) /\ Forget(w, "idle")
          /\ lapsed' = lapsed \ {j} /\ UNCHANGED <<attempt, retries>>
          /\ \/ state' = [state EXCEPT ![j] = "succeeded"]
             \/ state' = [state EXCEPT ![j] = "failed"]
        BY <1>11 DEF Complete, Fail
    <2>2. j \in Jobs /\ Lease!Owns(w, j) BY <2>1, HolderOwns
    <2>3. Lease!Release(w)
        BY <1>0, <2>1, ForgetReleases DEF Lease!Release, Lease!NoLease
    <2> HIDE DEF j
    <2> QED BY <1>a, <2>1, <2>2, <2>3 DEF Lease!Finish, Lease!GiveUp, Lease!Decide
<1>12. ASSUME NEW w \in Workers, NEW to \in {"down", "idle"},
              LeaseHolds(w), ToQueue({serving[w]}), Forget(w, to)
       PROVE  serving[w] \in Jobs /\ Lease!Decide(w, serving[w], "queued")
    <2> DEFINE j == serving[w]
    <2>1. j \in Jobs /\ Lease!Owns(w, j) BY <1>12, HolderOwns
    <2>2. Lease!Release(w)
        BY <1>0, <1>12, ForgetReleases DEF Lease!Release, Lease!NoLease
    <2>3. ToQueue({j}) BY <1>12
    <2> HIDE DEF j
    <2>4. /\ state' = [state EXCEPT ![j] = "queued"]
          /\ lapsed' = lapsed \ {j} /\ attempt' = attempt
        BY <1>0, <2>3 DEF ToQueue, TypeOK
    <2>5. Lease!Decide(w, j, "queued") BY <2>1, <2>2, <2>4 DEF Lease!Decide
    <2> QED BY <2>1, <2>5 DEF j
<1>13. ASSUME NEW w \in Workers, Retry(w)
       PROVE  \E j \in Jobs : Lease!TryAgain(w, j)
    <2> DEFINE j == serving[w]
    <2>1. /\ LeaseHolds(w) /\ ToQueue({j}) /\ Forget(w, "idle")
          /\ ticket[w] <= RetryDelays /\ retries' = [retries EXCEPT ![j] = @ + 1]
        BY <1>13 DEF Retry
    <2>2. j \in Jobs /\ Lease!Decide(w, j, "queued") BY <1>12, <2>1
    <2>3. state[j] = "running" /\ attempt[j] = ticket[w] BY <2>1 DEF LeaseHolds
    <2> HIDE DEF j
    <2>4. retries[j] \in Nat /\ retries[j] < attempt[j] /\ attempt[j] \in Nat
        BY <1>0, <2>2, <2>3 DEF IInv, RetriesCloseAttempts, TypeOK
    <2>5. RetriesLeft[j] > 0
        BY <2>1, <2>2, <2>3, <2>4, RetryDelaysAssumption DEF RetriesLeft
    <2>6. RetriesLeft' = [RetriesLeft EXCEPT ![j] = @ - 1]
        <3>1. ASSUME NEW k \in Jobs
              PROVE  RetryDelays - retries'[k]
                        = IF k = j THEN (RetryDelays - retries[j]) - 1 ELSE RetryDelays - retries[k]
            <4>1. retries'[k] = IF k = j THEN retries[j] + 1 ELSE retries[k]
                BY <1>0, <2>1, <2>2 DEF TypeOK
            <4> QED BY <2>4, <4>1, RetryDelaysAssumption
        <3> QED BY <2>2, <3>1 DEF RetriesLeft
    <2> QED BY <2>2, <2>5, <2>6 DEF Lease!TryAgain
<1>14. ASSUME NEW w \in Workers, RequeueCancelled(w)
       PROVE  \E j \in Jobs : Lease!GiveBack(w, j)
    <2>1. /\ LeaseHolds(w) /\ ToQueue({serving[w]}) /\ Forget(w, "down")
          /\ UNCHANGED retries
        BY <1>14 DEF RequeueCancelled
    <2> QED BY <1>12, <1>a, <2>1 DEF Lease!GiveBack
<1>15. ASSUME NEW w \in Workers, Conflict(w) \/ VerdictLost(w) \/ Crash(w)
       PROVE  Lease!Abandon(w)
    <2>1. PICK to \in {"down", "idle"} : Forget(w, to)
        BY <1>15 DEF Conflict, VerdictLost, Crash
    <2>2. UNCHANGED <<state, attempt, lapsed, retries>>
        BY <1>15 DEF Conflict, VerdictLost, Crash, rows
    <2>3. Lease!Release(w)
        BY <1>0, <2>1, ForgetReleases DEF Lease!Release, Lease!NoLease
    <2> QED BY <1>a, <2>2, <2>3 DEF Lease!Abandon
<1>16. CASE UNCHANGED vars BY <1>16, <1>a, LeasesKept, <1>0 DEF vars
<1>17. ASSUME UNCHANGED Seen PROVE UNCHANGED Lease!vars BY <1>0, <1>17
<1> HIDE DEF Seen
<1> QED BY <1>1, <1>2, <1>3, <1>4, <1>5, <1>6, <1>8, <1>9, <1>10, <1>11, <1>13, <1>14,
           <1>15, <1>16, <1>17 DEF Next, Step, Verdict, Disturb, Lease!Next

\* For any number of jobs, workers and retries the table and its workers
\* implement the leases that JobLease promises.
THEOREM LeaseRefined == Spec => ImplementsLease
<1>1. Lease!Init /\ [][Lease!Next]_(Lease!vars) => Lease!Spec BY DEF Lease!Spec
<1>2. Init => Lease!Init BY LeaseInit
<1>3. IInv /\ [Next]_vars => [Lease!Next]_(Lease!vars) BY LeaseNext
<1>4. Spec => Lease!Spec BY <1>1, <1>2, <1>3, IInvHolds, PTL DEF Spec
<1> QED BY <1>4 DEF ImplementsLease
=============================================================================

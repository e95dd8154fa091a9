------------------------ MODULE MemoryRecordsProofs ------------------------
(* For any requests, candidates and owners: a slot keeps one fact, what was *)
(* forgotten or reviewed stays so, and rows and index follow the decisions. *)
EXTENDS MemoryRecords, TLAPS

\* What the steps of a decision say about the actors.
ActorsOk ==
    /\ pc \in [Actors -> Steps]
    /\ item \in [Actors -> Items \cup {0}]
    /\ saw \in [Actors -> Owners]
    /\ InHand

LEMMA InitIInv == Init => IInv
<1> SUFFICES ASSUME Init PROVE IInv
  OBVIOUS
<1>1. Person \in Owners /\ "idle" \in Steps
  BY DEF Owners, Users, Steps
<1>2. TypeOK
  BY <1>1 DEF Init, TypeOK
<1> QED
  BY <1>2 DEF Init, IInv, OneFactPerSlot, UndecidedUnknown, InHand

(* Only the rows matter for what IInv says beyond types. *)
LEMMA SameRows ==
  ASSUME IInv, UNCHANGED rows, TypeOK', InHand'
  PROVE  IInv'
  BY DEF IInv, rows, OneFactPerSlot, UndecidedUnknown

(* The two ends of a decision. *)
LEMMA LeaveTypes ==
  ASSUME TypeOK, InHand, NEW a \in Actors, Leave(a)
  PROVE  ActorsOk'
  BY DEF TypeOK, InHand, ActorsOk, Leave, Home, Steps, Owners, Users

LEMMA TakeTypes ==
  ASSUME TypeOK, InHand, NEW a \in Actors, NEW i \in Items, NEW to \in Steps, Take(a, i, to)
  PROVE  ActorsOk'
<1>1. owner[i] \in Owners
  BY DEF TypeOK
<1> QED
  BY <1>1 DEF TypeOK, InHand, ActorsOk, Take, Items

(* The item that stops being pending is the only one that changes. *)
LEMMA RejectRows ==
  ASSUME IInv, NEW i \in Items \cup {0}, MarkRejected(i)
  PROVE  /\ cand' \in [Items -> {"none", "candidate", "approved", "rejected", "expired"}]
         /\ UndecidedUnknown' /\ OneFactPerSlot'
<1>1. TypeOK /\ UndecidedUnknown /\ OneFactPerSlot
  BY DEF IInv
<1> QED
  BY <1>1 DEF TypeOK, MarkRejected, UndecidedUnknown, OneFactPerSlot

(* A new candidate has no memory: it takes no part in a slot. *)
LEMMA CreateRows ==
  ASSUME IInv, NEW i \in Items, NEW o \in Owners, NEW t \in {"preference", "procedure"},
         Create(i, o, t)
  PROVE  /\ cand' \in [Items -> {"none", "candidate", "approved", "rejected", "expired"}]
         /\ mem' \in [Items -> {"none", "confirmed", "expired", "deleted"}]
         /\ owner' \in [Items -> Owners]
         /\ kind' \in [Items -> {"preference", "procedure"}]
         /\ UndecidedUnknown' /\ OneFactPerSlot'
<1>1. TypeOK /\ UndecidedUnknown /\ OneFactPerSlot
  BY DEF IInv
<1>2. mem[i] = "none" /\ mem' = mem
  BY <1>1 DEF Create, Unused, UndecidedUnknown
<1>3. /\ cand' \in [Items -> {"none", "candidate", "approved", "rejected", "expired"}]
      /\ mem' \in [Items -> {"none", "confirmed", "expired", "deleted"}]
      /\ owner' \in [Items -> Owners]
      /\ kind' \in [Items -> {"preference", "procedure"}]
  BY <1>1 DEF TypeOK, Create
<1>4. \A k \in Items : k # i => cand'[k] = cand[k] /\ owner'[k] = owner[k] /\ kind'[k] = kind[k]
  BY <1>1 DEF TypeOK, Create
<1>5. UndecidedUnknown'
  BY <1>1, <1>2, <1>4 DEF UndecidedUnknown
<1>6. OneFactPerSlot'
  BY <1>1, <1>2, <1>4 DEF OneFactPerSlot
<1> QED
  BY <1>3, <1>5, <1>6

(* An approval empties the slot before it fills it. *)
LEMMA InsertRows ==
  ASSUME IInv, NEW i \in Items \cup {0}, NEW o \in Owners, Insert(i, o)
  PROVE  /\ cand' \in [Items -> {"none", "candidate", "approved", "rejected", "expired"}]
         /\ mem' \in [Items -> {"none", "confirmed", "expired", "deleted"}]
         /\ owner' \in [Items -> Owners]
         /\ UndecidedUnknown' /\ OneFactPerSlot'
<1>1. TypeOK /\ UndecidedUnknown /\ OneFactPerSlot
  BY DEF IInv
<1>2. /\ cand' \in [Items -> {"none", "candidate", "approved", "rejected", "expired"}]
      /\ mem' \in [Items -> {"none", "confirmed", "expired", "deleted"}]
      /\ owner' \in [Items -> Owners]
  BY <1>1 DEF TypeOK, Insert
<1>3. /\ kind' = kind
      /\ i \in Items => cand'[i] = "approved" /\ owner'[i] = o
      /\ \A k \in Items : k # i => cand'[k] = cand[k] /\ owner'[k] = owner[k]
      /\ \A k \in Items : k # i => mem'[k] = IF k \in Slot(i, o) THEN "expired" ELSE mem[k]
  BY <1>1 DEF TypeOK, Insert
<1>4. UndecidedUnknown'
  <2> SUFFICES ASSUME NEW k \in Items, cand'[k] \in {"none", "candidate"} PROVE mem'[k] = "none"
    BY DEF UndecidedUnknown
  <2>1. k # i
    BY <1>3
  <2>2. mem[k] = "none"
    BY <2>1, <1>1, <1>3 DEF UndecidedUnknown
  <2> QED
    BY <2>1, <2>2, <1>3 DEF Slot
<1>5. OneFactPerSlot'
  <2> SUFFICES ASSUME NEW j \in Items, NEW k \in Items, mem'[j] = "confirmed", mem'[k] = "confirmed",
                      owner'[j] = owner'[k], kind[j] = kind[k], j # k
               PROVE  FALSE
    BY <1>3 DEF OneFactPerSlot
  <2>1. CASE j # i /\ k # i
    <3>1. mem[j] = "confirmed" /\ mem[k] = "confirmed"
      BY <2>1, <1>3
    <3> QED
      BY <2>1, <3>1, <1>1, <1>3 DEF OneFactPerSlot
  <2>2. CASE j = i
    <3>1. mem[k] = "confirmed" /\ k \notin Slot(i, o) /\ owner[k] = o
      BY <2>2, <1>3
    <3> QED
      BY <2>2, <3>1 DEF Slot
  <2>3. CASE k = i
    <3>1. mem[j] = "confirmed" /\ j \notin Slot(i, o) /\ owner[j] = o
      BY <2>3, <1>3
    <3> QED
      BY <2>3, <3>1 DEF Slot
  <2> QED
    BY <2>1, <2>2, <2>3
<1> QED
  BY <1>2, <1>4, <1>5

(* A merge moves a memory into an empty slot only, and two memories of the *)
(* device are in two slots.                                                *)
LEMMA MergeIInv ==
  ASSUME IInv, NEW same \in SUBSET Items, NEW fresh \in [Items -> Items], Merge(same, fresh)
  PROVE  IInv'
<1> DEFINE old == {i \in Items : mem[i] = "confirmed" /\ owner[i] = Device}
           conflicts == {i \in old \ same : Slot(i, Person) # {}}
           back == {k \in Items : \E i \in conflicts : fresh[i] = k}
           source(k) == CHOOSE i \in conflicts : fresh[i] = k
           moved == (old \ (same \cup conflicts)) \cup
                       {i \in Items : cand[i] = "candidate" /\ owner[i] = Device}
<1>1. TypeOK /\ UndecidedUnknown /\ OneFactPerSlot /\ InHand
  BY DEF IInv
<1>2. /\ same \subseteq old
      /\ \A k \in back : cand[k] = "none"
      /\ mem' = [i \in Items |-> IF i \in same \cup conflicts THEN "deleted" ELSE mem[i]]
      /\ cand' = [k \in Items |-> IF k \in back THEN "candidate" ELSE cand[k]]
      /\ owner' = [k \in Items |-> IF k \in back \cup moved THEN Person ELSE owner[k]]
      /\ kind' = [k \in Items |-> IF k \in back THEN kind[source(k)] ELSE kind[k]]
      /\ UNCHANGED <<promotions, index, actors, history>>
  BY DEF Merge
<1>3. \A k \in back : source(k) \in Items
  OBVIOUS
<1> HIDE DEF source
<1>4. kind' \in [Items -> {"preference", "procedure"}]
  BY <1>1, <1>2, <1>3 DEF TypeOK
<1>5. owner' \in [Items -> Owners]
  <2>1. Person \in Owners
    BY DEF Owners, Users
  <2> QED
    BY <2>1, <1>1, <1>2 DEF TypeOK
<1>6. /\ cand' \in [Items -> {"none", "candidate", "approved", "rejected", "expired"}]
      /\ mem' \in [Items -> {"none", "confirmed", "expired", "deleted"}]
  BY <1>1, <1>2 DEF TypeOK
<1>7. TypeOK' /\ InHand'
  BY <1>1, <1>2, <1>4, <1>5, <1>6 DEF TypeOK, InHand, promotions, index, actors, history
<1>8. \A k \in back : mem[k] = "none"
  BY <1>1, <1>2 DEF UndecidedUnknown
<1>9. UndecidedUnknown'
  <2> SUFFICES ASSUME NEW k \in Items, cand'[k] \in {"none", "candidate"} PROVE mem'[k] = "none"
    BY DEF UndecidedUnknown
  <2>1. mem[k] = "none"
    BY <1>1, <1>2, <1>8 DEF UndecidedUnknown
  <2> QED
    BY <2>1, <1>2
<1>10. OneFactPerSlot'
  <2> SUFFICES ASSUME NEW j \in Items, NEW k \in Items, mem'[j] = "confirmed", mem'[k] = "confirmed",
                      owner'[j] = owner'[k], kind'[j] = kind'[k], j # k
               PROVE  FALSE
    BY DEF OneFactPerSlot
  <2>1. /\ mem[j] = "confirmed" /\ mem[k] = "confirmed"
        /\ j \notin same \cup conflicts /\ k \notin same \cup conflicts
        /\ j \notin back /\ k \notin back
    BY <1>2, <1>8
  <2>2. kind[j] = kind[k]
    BY <2>1, <1>2
  <2>3. owner[j] # owner[k]
    BY <2>1, <2>2, <1>1 DEF OneFactPerSlot
  <2>4. (j \in moved /\ owner[k] = Person) \/ (k \in moved /\ owner[j] = Person)
    BY <2>1, <2>3, <1>2
  <2>5. \A x \in Items, y \in Items :
          (mem[x] = "confirmed" /\ x \in moved /\ mem[y] = "confirmed" /\ owner[y] = Person /\ kind[x] = kind[y])
              => x \in same \cup conflicts \/ cand[x] = "candidate"
    BY DEF Slot
  <2>6. cand[j] # "candidate" /\ cand[k] # "candidate"
    BY <2>1, <1>1 DEF UndecidedUnknown
  <2> QED
    BY <2>1, <2>2, <2>4, <2>5, <2>6
<1> QED
  BY <1>7, <1>9, <1>10 DEF IInv

(* The steps of a decision that change the rows. *)
LEMMA ApproveIInv ==
  ASSUME IInv, NEW a \in Actors
  PROVE  /\ ApproveCommit(a, "approve", "index") => IInv'
         /\ ApproveCommit(a, "approvePromotion", "indexPromotion") => IInv'
<1>1. TypeOK /\ InHand /\ item[a] \in Items \cup {0} /\ saw[a] \in Owners
  BY DEF IInv, TypeOK
<1> SUFFICES ASSUME NEW from \in {"approve", "approvePromotion"}, NEW to \in {"index", "indexPromotion"},
                    ApproveCommit(a, from, to)
             PROVE  IInv'
  OBVIOUS
<1>2. Insert(item[a], saw[a]) /\ kind' = kind
  BY DEF ApproveCommit, Insert
<1>3. UndecidedUnknown' /\ OneFactPerSlot'
  BY <1>1, <1>2, InsertRows
<1>4. /\ cand' \in [Items -> {"none", "candidate", "approved", "rejected", "expired"}]
      /\ mem' \in [Items -> {"none", "confirmed", "expired", "deleted"}]
      /\ owner' \in [Items -> Owners]
  BY <1>1, <1>2, InsertRows
<1>5. /\ ActorsOk'
      /\ UNCHANGED <<todo, promo, parent, indexed, repairs, contested, broken, raised>>
  BY <1>1 DEF ApproveCommit, Goto, TypeOK, InHand, ActorsOk, Steps, Owners, Users, promotions, index, history
<1>6. TypeOK'
  BY <1>1, <1>2, <1>4, <1>5 DEF TypeOK, ActorsOk
<1> QED
  BY <1>3, <1>5, <1>6 DEF IInv, ActorsOk

LEMMA RejectIInv ==
  ASSUME IInv, NEW a \in Actors, RejectCommit(a) \/ RejectPromoted(a)
  PROVE  IInv'
<1>1. TypeOK /\ InHand /\ item[a] \in Items \cup {0}
  BY DEF IInv, TypeOK
<1>2. MarkRejected(item[a]) /\ UNCHANGED <<mem, owner, kind>>
  BY DEF RejectCommit, RejectPromoted, MarkRejected
<1>3. /\ cand' \in [Items -> {"none", "candidate", "approved", "rejected", "expired"}]
      /\ UndecidedUnknown' /\ OneFactPerSlot'
  BY <1>1, <1>2, RejectRows
<1>4. ActorsOk'
  <2>1. CASE RejectCommit(a)
    BY <2>1, <1>1, LeaveTypes DEF RejectCommit
  <2>2. CASE RejectPromoted(a)
    BY <2>2, <1>1 DEF RejectPromoted, Goto, TypeOK, InHand, ActorsOk, Steps
  <2> QED
    BY <2>1, <2>2
<1>5. UNCHANGED <<todo, promo, parent, indexed, repairs, contested, broken, raised>>
  BY DEF RejectCommit, RejectPromoted, promotions, index, history
<1>6. TypeOK'
  BY <1>1, <1>2, <1>3, <1>4, <1>5 DEF TypeOK, ActorsOk
<1> QED
  BY <1>3, <1>4, <1>6 DEF IInv, ActorsOk

LEMMA ForgetIInv ==
  ASSUME IInv, NEW a \in Actors, ForgetCommit(a)
  PROVE  IInv'
<1>1. TypeOK /\ OneFactPerSlot /\ UndecidedUnknown /\ InHand
  BY DEF IInv
<1>2. /\ mem' = [mem EXCEPT ![item[a]] = IF @ = "none" THEN @ ELSE "deleted"]
      /\ UNCHANGED <<cand, owner, kind, promo, parent, indexed, repairs, todo, contested, broken, raised>>
  BY DEF ForgetCommit, promotions, index, history
<1>3. ActorsOk'
  <2>1. CASE Leave(a)
    BY <2>1, <1>1, LeaveTypes
  <2>2. CASE pc' = [pc EXCEPT ![a] = "unindex"] /\ UNCHANGED <<item, saw>>
    BY <2>2, <1>1 DEF ForgetCommit, TypeOK, InHand, ActorsOk, Steps
  <2> QED
    BY <2>1, <2>2 DEF ForgetCommit
<1>4. TypeOK'
  BY <1>1, <1>2, <1>3 DEF TypeOK, ActorsOk
<1>5. OneFactPerSlot'
  BY <1>1, <1>2 DEF TypeOK, OneFactPerSlot
<1>6. UndecidedUnknown'
  BY <1>1, <1>2 DEF TypeOK, UndecidedUnknown
<1> QED
  BY <1>3, <1>4, <1>5, <1>6 DEF IInv, ActorsOk

LEMMA ExpireIInv ==
  ASSUME IInv, NEW i \in Items, Expire(i)
  PROVE  IInv'
<1>1. TypeOK /\ OneFactPerSlot /\ UndecidedUnknown /\ InHand
  BY DEF IInv
<1>2. TypeOK' /\ InHand'
  BY <1>1 DEF Expire, TypeOK, InHand, promotions, index, actors, history
<1>3. OneFactPerSlot' /\ UndecidedUnknown'
  BY <1>1 DEF Expire, TypeOK, OneFactPerSlot, UndecidedUnknown
<1> QED
  BY <1>2, <1>3 DEF IInv

LEMMA CreateIInv ==
  ASSUME IInv
  PROVE  /\ \A i \in Items, o \in Owners, t \in {"preference", "procedure"} : Extract(i, o, t) => IInv'
         /\ \A a \in Handlers, i \in Items, k \in Items : PromoteCandidate(a, i, k) => IInv'
<1>1. TypeOK /\ InHand
  BY DEF IInv
<1>2. ASSUME NEW i \in Items, NEW o \in Owners, NEW t \in {"preference", "procedure"}, Extract(i, o, t)
      PROVE  IInv'
  <2>1. Create(i, o, t) /\ o \in Owners
    BY <1>2 DEF Extract, Owners
  <2>2. /\ cand' \in [Items -> {"none", "candidate", "approved", "rejected", "expired"}]
        /\ mem' \in [Items -> {"none", "confirmed", "expired", "deleted"}]
        /\ owner' \in [Items -> Owners]
        /\ kind' \in [Items -> {"preference", "procedure"}]
        /\ UndecidedUnknown' /\ OneFactPerSlot'
    BY <2>1, CreateRows
  <2>3. UNCHANGED <<promo, parent, indexed, repairs, pc, item, saw, todo, contested, broken, raised>>
    BY <1>2 DEF Extract, promotions, index, actors, history
  <2> QED
    BY <1>1, <2>2, <2>3 DEF IInv, TypeOK, InHand
<1>3. ASSUME NEW a \in Handlers, NEW i \in Items, NEW k \in Items, PromoteCandidate(a, i, k)
      PROVE  IInv'
  <2>1. Create(k, Domain, kind[i]) /\ Domain \in Owners /\ kind[i] \in {"preference", "procedure"}
    BY <1>1, <1>3 DEF PromoteCandidate, Owners, TypeOK
  <2>2. /\ cand' \in [Items -> {"none", "candidate", "approved", "rejected", "expired"}]
        /\ mem' \in [Items -> {"none", "confirmed", "expired", "deleted"}]
        /\ owner' \in [Items -> Owners]
        /\ kind' \in [Items -> {"preference", "procedure"}]
        /\ UndecidedUnknown' /\ OneFactPerSlot'
    BY <2>1, CreateRows
  <2>3. /\ parent' \in [Items -> Items \cup {0}]
        /\ ActorsOk'
        /\ UNCHANGED <<promo, indexed, repairs, todo, contested, broken, raised>>
    <3>1. a \in Actors
      BY DEF Actors
    <3>2. /\ parent' = [parent EXCEPT ![k] = i]
          /\ pc' = [pc EXCEPT ![a] = "promote"]
          /\ item' = [item EXCEPT ![a] = k]
          /\ UNCHANGED <<promo, indexed, repairs, saw, todo, contested, broken, raised>>
      BY <1>3 DEF PromoteCandidate, index, history
    <3>3. k # 0
      BY DEF Items
    <3>4. ActorsOk'
      BY <1>1, <3>1, <3>2, <3>3 DEF TypeOK, InHand, ActorsOk, Steps
    <3> QED
      BY <1>1, <3>2, <3>4 DEF TypeOK
  <2> QED
    BY <1>1, <2>2, <2>3 DEF IInv, TypeOK, ActorsOk
<1> QED
  BY <1>2, <1>3

(* The steps of a request that leave the rows alone. *)
LEMMA RequestTypes ==
  ASSUME TypeOK, InHand, NEW a \in Handlers,
         \/ \E i \in Items : ApproveRead(a, i) \/ RejectRead(a, i) \/ ForgetRead(a, i)
                             \/ ApprovePromotion(a, i) \/ RejectPromotion(a, i)
         \/ Unindex(a) \/ PromoteRequest(a) \/ IndexPromotion(a) \/ PromotionIndexFails(a)
         \/ Review(a, "reviewPromotion", "approved") \/ Review(a, "closePromotion", "rejected")
  PROVE  TypeOK' /\ InHand' /\ UNCHANGED rows
<1>0. a \in Actors
  BY DEF Actors
<1>1. ASSUME NEW i \in Items,
             \/ ApproveRead(a, i) \/ RejectRead(a, i) \/ ForgetRead(a, i)
             \/ ApprovePromotion(a, i) \/ RejectPromotion(a, i)
      PROVE  TypeOK' /\ InHand' /\ UNCHANGED rows
  <2>1. \E to \in Steps : Take(a, i, to)
    BY <1>1 DEF ApproveRead, RejectRead, ForgetRead, ApprovePromotion, RejectPromotion, Steps
  <2>2. ActorsOk'
    BY <2>1, <1>0, TakeTypes
  <2>3. contested' \subseteq Items /\ UNCHANGED <<rows, promotions, index, todo, broken, raised>>
    BY <1>1 DEF ApproveRead, RejectRead, ForgetRead, ApprovePromotion, RejectPromotion, Contest, history, TypeOK
  <2> QED
    BY <2>2, <2>3 DEF TypeOK, ActorsOk, rows, promotions, index
<1>2. ASSUME Unindex(a) \/ PromoteRequest(a)
             \/ Review(a, "reviewPromotion", "approved") \/ Review(a, "closePromotion", "rejected")
      PROVE  TypeOK' /\ InHand' /\ UNCHANGED rows
  <2>1. ActorsOk'
    BY <1>2, <1>0, LeaveTypes DEF Unindex, PromoteRequest, Review
  <2>2. promo' \in [Items -> {"none", "pending", "approved", "rejected"}] /\ indexed' \subseteq Items
    BY <1>2 DEF Unindex, PromoteRequest, Review, TypeOK, promotions, index
  <2>3. UNCHANGED <<rows, parent, repairs, todo, contested, broken, raised>>
    BY <1>2 DEF Unindex, PromoteRequest, Review, promotions, index, history
  <2> QED
    BY <2>1, <2>2, <2>3 DEF TypeOK, ActorsOk, rows
<1>3. ASSUME IndexPromotion(a)
      PROVE  TypeOK' /\ InHand' /\ UNCHANGED rows
  <2>1. item[a] \in Items
    BY <1>0, <1>3 DEF IndexPromotion, Goto, TypeOK, InHand
  <2>2. pc' \in [Actors -> Steps] /\ InHand'
    BY <1>0, <1>3 DEF IndexPromotion, Goto, TypeOK, InHand, Steps
  <2> QED
    BY <1>3, <2>1, <2>2 DEF IndexPromotion, TypeOK, rows, promotions, history
<1>4. ASSUME PromotionIndexFails(a)
      PROVE  TypeOK' /\ InHand' /\ UNCHANGED rows
  <2>1. item[a] \in Items /\ raised' = raised \cup {item[a]}
    BY <1>0, <1>4 DEF PromotionIndexFails, TypeOK, InHand
  <2>2. ActorsOk'
    BY <1>0, <1>4, LeaveTypes DEF PromotionIndexFails
  <2> QED
    BY <1>4, <2>1, <2>2 DEF PromotionIndexFails, TypeOK, ActorsOk, rows, promotions, index
<1> QED
  BY <1>1, <1>2, <1>3, <1>4

(* The rest of an approval, and what stops one. *)
LEMMA ApproveTypes ==
  ASSUME TypeOK, InHand, NEW a \in Actors,
         \/ ApproveRefused(a) \/ IndexUpsert(a) \/ IndexFails(a) \/ QueueRepair(a) \/ Stop(a)
  PROVE  TypeOK' /\ InHand' /\ UNCHANGED rows
<1>1. Person \in Owners /\ {"idle", "queue"} \subseteq Steps
  BY DEF Owners, Users, Steps
<1>2. CASE ApproveRefused(a)
  BY <1>1, <1>2 DEF ApproveRefused, TypeOK, InHand, rows, promotions, index, history
<1>3. CASE IndexUpsert(a)
  <2>1. item[a] \in Items /\ indexed' = indexed \cup {item[a]}
    BY <1>3 DEF IndexUpsert, TypeOK, InHand
  <2>2. ActorsOk'
    BY <1>3, LeaveTypes DEF IndexUpsert
  <2> QED
    BY <1>3, <2>1, <2>2 DEF IndexUpsert, TypeOK, ActorsOk, rows, promotions, history
<1>4. CASE IndexFails(a)
  BY <1>1, <1>4 DEF IndexFails, Goto, TypeOK, InHand, rows, promotions, index, history
<1>5. CASE QueueRepair(a)
  <2>1. item[a] \in Items /\ repairs' = repairs \cup {item[a]}
    BY <1>5 DEF QueueRepair, TypeOK, InHand
  <2>2. ActorsOk'
    BY <1>5, LeaveTypes DEF QueueRepair
  <2> QED
    BY <1>5, <2>1, <2>2 DEF QueueRepair, TypeOK, ActorsOk, rows, promotions, history
<1>6. CASE Stop(a)
  <2>1. pc[a] \in {"index", "queue", "indexPromotion"} => item[a] \in Items
    BY DEF TypeOK, InHand
  <2>2. /\ pc' = [pc EXCEPT ![a] = "idle"] /\ item' = [item EXCEPT ![a] = 0]
        /\ saw' = [saw EXCEPT ![a] = Person] /\ todo' \subseteq todo
        /\ UNCHANGED <<rows, promo, parent, indexed, repairs, contested, raised>>
    BY <1>6 DEF Stop, promotions, index
  <2>3. broken' \subseteq Items
    BY <1>6, <2>1 DEF Stop, TypeOK
  <2>4. pc' \in [Actors -> Steps] /\ item' \in [Actors -> Items \cup {0}] /\ saw' \in [Actors -> Owners] /\ InHand'
    BY <1>1, <2>2 DEF TypeOK, InHand
  <2> QED
    BY <2>2, <2>3, <2>4 DEF TypeOK, rows
<1> QED
  BY <1>2, <1>3, <1>4, <1>5, <1>6

(* The maintenance never writes a row but by an approval. *)
LEMMA MaintainTypes ==
  ASSUME TypeOK, InHand,
         \/ \E n \in Items : ListDue(n)
         \/ \E i \in Items : ConfirmNext(i) \/ RepairRead(i)
         \/ ListRepairs \/ Fix \/ Unfix \/ RepairDone \/ RepairsEnd \/ RepairFails
  PROVE  TypeOK' /\ InHand' /\ UNCHANGED rows
<1>0. Worker \in Actors /\ Person \in Owners /\ {"idle", "confirm", "repair", "fixed"} \subseteq Steps
  BY DEF Actors, Owners, Users, Steps
<1>1. ASSUME NEW n \in Items, ListDue(n) PROVE TypeOK' /\ InHand' /\ UNCHANGED rows
  <2>1. pc' = [pc EXCEPT ![Worker] = "confirm"] /\ todo' \subseteq Items
    BY <1>1, ItemBoundAssumption DEF ListDue, Worklist, Items
  <2> QED
    BY <1>0, <1>1, <2>1 DEF ListDue, TypeOK, InHand, rows, promotions, index, history
<1>2. ASSUME NEW i \in Items, ConfirmNext(i) PROVE TypeOK' /\ InHand' /\ UNCHANGED rows
  <2>1. CASE cand[i] = "candidate"
    <3>1. Take(Worker, i, "approve") /\ contested' \subseteq Items
      BY <1>2, <2>1 DEF ConfirmNext, Contest, TypeOK
    <3>2. ActorsOk'
      BY <1>0, <3>1, TakeTypes DEF Steps
    <3> QED
      BY <1>2, <3>1, <3>2 DEF ConfirmNext, TypeOK, ActorsOk, rows, promotions, index
  <2>2. CASE cand[i] # "candidate"
    BY <1>2, <2>2 DEF ConfirmNext, TypeOK, InHand, rows, promotions, index
  <2> QED
    BY <2>1, <2>2
<1>3. ASSUME NEW i \in Items, RepairRead(i) PROVE TypeOK' /\ InHand' /\ UNCHANGED rows
  <2>1. \E to \in Steps : Take(Worker, i, to)
    BY <1>3 DEF RepairRead, Steps
  <2>2. ActorsOk'
    BY <1>0, <2>1, TakeTypes
  <2> QED
    BY <1>3, <2>2 DEF RepairRead, TypeOK, ActorsOk, rows, promotions, index, history
<1>4. CASE ListRepairs \/ RepairsEnd
  <2>1. /\ pc' \in [Actors -> Steps] /\ pc'[Worker] \in {"idle", "repair"} /\ todo' \subseteq Items
        /\ \A a \in Actors : a # Worker => pc'[a] = pc[a]
    BY <1>0, <1>4 DEF ListRepairs, RepairsEnd, Worklist, TypeOK
  <2> QED
    BY <1>4, <2>1 DEF ListRepairs, RepairsEnd, TypeOK, InHand, rows, promotions, index, history
<1>5. CASE Fix \/ Unfix
  <2>1. item[Worker] \in Items
    BY <1>0, <1>5 DEF Fix, Unfix, Goto, TypeOK, InHand
  <2>2. pc' = [pc EXCEPT ![Worker] = "fixed"] /\ indexed' \subseteq Items
    BY <1>5, <2>1 DEF Fix, Unfix, Goto, TypeOK
  <2>3. UNCHANGED <<rows, promotions, repairs, item, saw, todo, history>>
    BY <1>5 DEF Fix, Unfix
  <2>4. InHand'
    BY <1>0, <2>1, <2>2, <2>3 DEF TypeOK, InHand, Items
  <2> QED
    BY <1>0, <2>2, <2>3, <2>4 DEF TypeOK, rows, promotions, history
<1>6. CASE RepairDone \/ RepairFails
  <2>1. NextRepair /\ repairs' \subseteq repairs /\ UNCHANGED <<rows, promotions, indexed, history>>
    BY <1>6 DEF RepairDone, RepairFails, index
  <2> QED
    BY <1>0, <2>1 DEF NextRepair, TypeOK, InHand, rows, promotions, history
<1> QED
  BY <1>1, <1>2, <1>3, <1>4, <1>5, <1>6

LEMMA StepIInv == IInv /\ [Next]_vars => IInv'
<1> SUFFICES ASSUME IInv, [Next]_vars PROVE IInv'
  OBVIOUS
<1>0. TypeOK /\ InHand /\ Worker \in Actors /\ \A a \in Handlers : a \in Actors
  BY DEF IInv, Actors
<1>1. ASSUME NEW i \in Items, NEW o \in Owners, NEW t \in {"preference", "procedure"}, Extract(i, o, t)
      PROVE  IInv'
  BY <1>1, CreateIInv
<1>2. ASSUME NEW a \in Actors, Approve(a) PROVE IInv'
  <2>1. CASE ApproveCommit(a, "approve", "index")
    BY <2>1, ApproveIInv
  <2>2. CASE ApproveRefused(a) \/ IndexUpsert(a) \/ IndexFails(a) \/ QueueRepair(a)
    BY <1>0, <2>2, ApproveTypes, SameRows
  <2> QED
    BY <1>2, <2>1, <2>2 DEF Approve
<1>3. ASSUME NEW a \in Handlers, Request(a) PROVE IInv'
  <2>1. CASE Approve(a)
    BY <1>0, <1>2, <2>1
  <2>2. CASE RejectCommit(a)
    BY <1>0, <2>2, RejectIInv
  <2>3. CASE ForgetCommit(a)
    BY <1>0, <2>3, ForgetIInv
  <2>4. CASE (\E i \in Items : ApproveRead(a, i) \/ RejectRead(a, i) \/ ForgetRead(a, i)) \/ Unindex(a)
    BY <1>0, <2>4, RequestTypes, SameRows
  <2> QED
    BY <1>3, <2>1, <2>2, <2>3, <2>4 DEF Request
<1>4. ASSUME NEW a \in Handlers, Promotion(a) PROVE IInv'
  <2>1. CASE \E i, k \in Items : PromoteCandidate(a, i, k)
    BY <2>1, CreateIInv
  <2>2. CASE ApproveCommit(a, "approvePromotion", "indexPromotion")
    BY <1>0, <2>2, ApproveIInv
  <2>3. CASE RejectPromoted(a)
    BY <1>0, <2>3, RejectIInv
  <2>4. CASE \/ PromoteRequest(a) \/ IndexPromotion(a) \/ PromotionIndexFails(a)
             \/ \E k \in Items : ApprovePromotion(a, k) \/ RejectPromotion(a, k)
             \/ Review(a, "reviewPromotion", "approved") \/ Review(a, "closePromotion", "rejected")
    BY <1>0, <2>4, RequestTypes, SameRows
  <2> QED
    BY <1>4, <2>1, <2>2, <2>3, <2>4 DEF Promotion
<1>5. CASE Maintain \/ RepairFails \/ \E n \in Items : ListDue(n)
  <2>1. CASE Approve(Worker)
    BY <1>0, <1>2, <2>1
  <2>2. CASE ~Approve(Worker)
    BY <1>0, <1>5, <2>2, MaintainTypes, SameRows DEF Maintain
  <2> QED
    BY <2>1, <2>2
<1>6. ASSUME NEW i \in Items, Expire(i) PROVE IInv'
  BY <1>6, ExpireIInv
<1>7. ASSUME NEW same \in SUBSET Items, NEW fresh \in [Items -> Items], Merge(same, fresh) PROVE IInv'
  BY <1>7, MergeIInv
<1>8. ASSUME NEW a \in Actors, Stop(a) PROVE IInv'
  BY <1>0, <1>8, ApproveTypes, SameRows
<1>9. CASE UNCHANGED vars
  BY <1>9 DEF IInv, TypeOK, OneFactPerSlot, UndecidedUnknown, InHand, vars, rows, promotions, index,
              actors, history
<1> QED
  BY <1>1, <1>3, <1>4, <1>5, <1>6, <1>7, <1>8, <1>9 DEF Next

(* Every variable keeps its type and a slot keeps one fact, for any number *)
(* of requests, whatever is merged and stopped.                            *)
THEOREM SlotsCorrect == Spec => [](TypeOK /\ OneFactPerSlot)
<1>1. IInv => TypeOK /\ OneFactPerSlot
  BY DEF IInv
<1> QED
  BY InitIInv, StepIInv, <1>1, PTL DEF Spec

(* An approval inserts a memory only where there was none, and the other    *)
(* steps that write memories take them further.                             *)
LEMMA StepForgotten ==
  ASSUME IInv, [Next]_vars, NEW i \in Items, mem[i] = "deleted"
  PROVE  mem'[i] = "deleted"
<1>0. TypeOK /\ InHand /\ Worker \in Actors /\ \A a \in Handlers : a \in Actors
  BY DEF IInv, Actors
<1>1. CASE UNCHANGED mem
  BY <1>1
<1>2. ASSUME NEW a \in Actors, NEW from, NEW to, ApproveCommit(a, from, to)
      PROVE  mem'[i] = "deleted"
  <2>1. item[a] # i
    BY <1>2 DEF ApproveCommit
  <2>2. mem'[i] = IF i \in Slot(item[a], saw[a]) THEN "expired" ELSE mem[i]
    BY <1>2, <2>1 DEF ApproveCommit, Insert
  <2> QED
    BY <2>2 DEF Slot
<1>3. ASSUME NEW a \in Actors, ForgetCommit(a) PROVE mem'[i] = "deleted"
  BY <1>0, <1>3 DEF ForgetCommit, TypeOK
<1>4. ASSUME NEW k \in Items, Expire(k) PROVE mem'[i] = "deleted"
  BY <1>0, <1>4 DEF Expire, TypeOK
<1>5. ASSUME NEW same \in SUBSET Items, NEW fresh \in [Items -> Items], Merge(same, fresh)
      PROVE  mem'[i] = "deleted"
  BY <1>5 DEF Merge
<1>6. ASSUME NEW a \in Actors, Approve(a) PROVE mem'[i] = "deleted"
  <2>1. CASE ApproveCommit(a, "approve", "index")
    BY <1>2, <2>1
  <2>2. CASE ApproveRefused(a) \/ IndexUpsert(a) \/ IndexFails(a) \/ QueueRepair(a)
    BY <1>0, <1>1, <2>2, ApproveTypes DEF rows
  <2> QED
    BY <1>6, <2>1, <2>2 DEF Approve
<1>7. ASSUME NEW a \in Handlers, Request(a) PROVE mem'[i] = "deleted"
  <2>1. CASE Approve(a)
    BY <1>0, <1>6, <2>1
  <2>2. CASE RejectCommit(a)
    BY <1>1, <2>2 DEF RejectCommit, MarkRejected
  <2>3. CASE ForgetCommit(a)
    BY <1>0, <1>3, <2>3
  <2>4. CASE (\E k \in Items : ApproveRead(a, k) \/ RejectRead(a, k) \/ ForgetRead(a, k)) \/ Unindex(a)
    BY <1>0, <1>1, <2>4, RequestTypes DEF rows
  <2> QED
    BY <1>7, <2>1, <2>2, <2>3, <2>4 DEF Request
<1>8. ASSUME NEW a \in Handlers, Promotion(a) PROVE mem'[i] = "deleted"
  <2>1. CASE \E j, k \in Items : PromoteCandidate(a, j, k)
    BY <1>1, <2>1 DEF PromoteCandidate, Create
  <2>2. CASE ApproveCommit(a, "approvePromotion", "indexPromotion")
    BY <1>0, <1>2, <2>2
  <2>3. CASE RejectPromoted(a)
    BY <1>1, <2>3 DEF RejectPromoted, MarkRejected
  <2>4. CASE \/ PromoteRequest(a) \/ IndexPromotion(a) \/ PromotionIndexFails(a)
             \/ \E k \in Items : ApprovePromotion(a, k) \/ RejectPromotion(a, k)
             \/ Review(a, "reviewPromotion", "approved") \/ Review(a, "closePromotion", "rejected")
    BY <1>0, <1>1, <2>4, RequestTypes DEF rows
  <2> QED
    BY <1>8, <2>1, <2>2, <2>3, <2>4 DEF Promotion
<1>9. CASE Maintain \/ RepairFails \/ \E n \in Items : ListDue(n)
  <2>1. CASE Approve(Worker)
    BY <1>0, <1>6, <2>1
  <2>2. CASE ~Approve(Worker)
    BY <1>0, <1>1, <1>9, <2>2, MaintainTypes DEF Maintain, rows
  <2> QED
    BY <2>1, <2>2
<1>10. ASSUME NEW k \in Items, NEW o \in Owners, NEW t \in {"preference", "procedure"}, Extract(k, o, t)
       PROVE  mem'[i] = "deleted"
  BY <1>1, <1>10 DEF Extract, Create
<1>11. ASSUME NEW a \in Actors, Stop(a) PROVE mem'[i] = "deleted"
  BY <1>0, <1>1, <1>11, ApproveTypes DEF rows
<1>12. CASE UNCHANGED vars
  BY <1>1, <1>12 DEF vars, rows
<1> QED
  BY <1>4, <1>5, <1>7, <1>8, <1>9, <1>10, <1>11, <1>12 DEF Next

(* A step that is no request of a promotion: it decides pending promotions   *)
(* only, forgets no candidate and puts nobody in the middle of a request.    *)
LEMMA QuietPromotions ==
  ASSUME Decided, [Next]_vars,
         \A k \in Items : promo'[k] = promo[k] \/ (promo[k] = "pending" /\ promo'[k] # "none"),
         \A k \in Items : cand'[k] = "none" => cand[k] = "none",
         \A a \in Actors : pc'[a] = "promote" => pc[a] = "promote" /\ item'[a] = item[a]
  PROVE  /\ PromotionsFollow'
         /\ \A k \in Items : promo[k] \in {"approved", "rejected"} => promo'[k] = promo[k]
<1>1. PromotionsFollow /\ IInv'
  BY StepIInv DEF Decided
<1>2. \A a \in Actors : pc[a] = "promote" => item[a] \in Items
  BY DEF Decided, IInv, TypeOK, InHand
<1> QED
  BY <1>1, <1>2 DEF PromotionsFollow

(* Everything but the two halves of a request is such a step. *)
LEMMA QuietSteps ==
  ASSUME Decided, [Next]_vars,
         ~ \E a \in Handlers : PromoteRequest(a) \/ \E i, k \in Items : PromoteCandidate(a, i, k)
  PROVE  /\ \A k \in Items : promo'[k] = promo[k] \/ (promo[k] = "pending" /\ promo'[k] # "none")
         /\ \A k \in Items : cand'[k] = "none" => cand[k] = "none"
         /\ \A a \in Actors : pc'[a] = "promote" => pc[a] = "promote" /\ item'[a] = item[a]
<1> DEFINE Kept == \A k \in Items : cand'[k] = "none" => cand[k] = "none"
           Calm == \A a \in Actors : pc'[a] = "promote" => pc[a] = "promote" /\ item'[a] = item[a]
<1>0. TypeOK /\ Worker \in Actors /\ \A a \in Handlers : a \in Actors
  BY DEF Decided, IInv, Actors
<1>1. ASSUME NEW a \in Actors, Leave(a) PROVE Calm
  BY <1>0, <1>1 DEF Leave, Home, TypeOK
<1>2. ASSUME NEW a \in Actors, NEW i, NEW to, Take(a, i, to), to # "promote" PROVE Calm
  BY <1>0, <1>2 DEF Take, TypeOK
<1>3. ASSUME NEW a \in Actors, NEW from, NEW to, Goto(a, from, to), to # "promote", UNCHANGED item PROVE Calm
  BY <1>0, <1>3 DEF Goto, TypeOK
<1>4. ASSUME NEW i, NEW o, Insert(i, o) PROVE Kept
  BY <1>0, <1>4 DEF Insert, TypeOK
<1>5. ASSUME NEW i, MarkRejected(i) PROVE Kept
  BY <1>0, <1>5 DEF MarkRejected, TypeOK
<1>6. ASSUME NEW a \in Actors, Approve(a) PROVE Kept /\ Calm /\ UNCHANGED promo
  <2>1. CASE ApproveCommit(a, "approve", "index")
    BY <2>1, <1>3, <1>4 DEF ApproveCommit, promotions
  <2>2. CASE ApproveRefused(a)
    BY <2>2, <1>0 DEF ApproveRefused, TypeOK, rows, promotions
  <2>3. CASE IndexUpsert(a) \/ QueueRepair(a)
    BY <2>3, <1>1 DEF IndexUpsert, QueueRepair, rows, promotions
  <2>4. CASE IndexFails(a)
    BY <2>4, <1>3 DEF IndexFails, rows, promotions
  <2> QED
    BY <1>6, <2>1, <2>2, <2>3, <2>4 DEF Approve
<1>7. ASSUME NEW a \in Handlers, Request(a) PROVE Kept /\ Calm /\ UNCHANGED promo
  <2>1. CASE Approve(a)
    BY <1>0, <1>6, <2>1
  <2>2. CASE \E i \in Items : ApproveRead(a, i) \/ RejectRead(a, i) \/ ForgetRead(a, i)
    BY <1>0, <1>2, <2>2 DEF ApproveRead, RejectRead, ForgetRead, rows, promotions
  <2>3. CASE RejectCommit(a)
    BY <1>0, <1>1, <1>5, <2>3 DEF RejectCommit, promotions
  <2>4. CASE ForgetCommit(a)
    BY <1>0, <1>1, <2>4 DEF ForgetCommit, TypeOK, promotions
  <2>5. CASE Unindex(a)
    BY <1>0, <1>1, <2>5 DEF Unindex, rows, promotions
  <2> QED
    BY <1>7, <2>1, <2>2, <2>3, <2>4, <2>5 DEF Request
<1>8. ASSUME NEW a \in Handlers, Promotion(a)
      PROVE  /\ Kept /\ Calm
             /\ \A k \in Items : promo'[k] = promo[k] \/ (promo[k] = "pending" /\ promo'[k] # "none")
  <2>1. CASE ApproveCommit(a, "approvePromotion", "indexPromotion")
    BY <1>0, <2>1, <1>3, <1>4 DEF ApproveCommit, promotions
  <2>2. CASE \E k \in Items : ApprovePromotion(a, k) \/ RejectPromotion(a, k)
    BY <1>0, <1>2, <2>2 DEF ApprovePromotion, RejectPromotion, rows, promotions
  <2>3. CASE IndexPromotion(a)
    BY <1>0, <1>3, <2>3 DEF IndexPromotion, rows, promotions
  <2>4. CASE RejectPromoted(a)
    BY <1>0, <1>3, <1>5, <2>4 DEF RejectPromoted, promotions
  <2>5. CASE Review(a, "reviewPromotion", "approved") \/ Review(a, "closePromotion", "rejected")
    BY <1>0, <1>1, <2>5 DEF Review, TypeOK, rows
  <2>6. CASE PromotionIndexFails(a)
    BY <1>0, <1>1, <2>6 DEF PromotionIndexFails, rows, promotions
  <2> QED
    BY <1>8, <2>1, <2>2, <2>3, <2>4, <2>5, <2>6 DEF Promotion
<1>9. CASE Maintain \/ RepairFails \/ \E n \in Items : ListDue(n)
  <2>1. CASE Approve(Worker)
    BY <1>0, <1>6, <2>1
  <2>2. CASE \E i \in Items : ConfirmNext(i) \/ RepairRead(i)
    BY <1>0, <1>2, <2>2 DEF ConfirmNext, RepairRead, rows, promotions
  <2>3. CASE Fix \/ Unfix
    BY <1>0, <1>3, <2>3 DEF Fix, Unfix, rows, promotions
  <2>4. CASE ListRepairs \/ RepairsEnd \/ \E n \in Items : ListDue(n)
    BY <1>0, <2>4 DEF ListRepairs, RepairsEnd, ListDue, Worklist, TypeOK, rows, promotions
  <2>5. CASE RepairDone \/ RepairFails
    BY <1>0, <2>5 DEF RepairDone, RepairFails, NextRepair, TypeOK, rows, promotions
  <2> QED
    BY <1>9, <2>1, <2>2, <2>3, <2>4, <2>5 DEF Maintain
<1>10. ASSUME NEW k \in Items, NEW o \in Owners, NEW t \in {"preference", "procedure"}, Extract(k, o, t)
       PROVE  Kept /\ Calm /\ UNCHANGED promo
  BY <1>0, <1>10 DEF Extract, Create, TypeOK, promotions, actors
<1>11. ASSUME NEW i \in Items, Expire(i) PROVE Kept /\ Calm /\ UNCHANGED promo
  BY <1>0, <1>11 DEF Expire, TypeOK, promotions, actors
<1>12. ASSUME NEW same \in SUBSET Items, NEW fresh \in [Items -> Items], Merge(same, fresh)
       PROVE  Kept /\ Calm /\ UNCHANGED promo
  BY <1>0, <1>12 DEF Merge, TypeOK, promotions, actors
<1>13. ASSUME NEW a \in Actors, Stop(a) PROVE Kept /\ Calm /\ UNCHANGED promo
  BY <1>0, <1>13 DEF Stop, TypeOK, rows, promotions
<1>14. CASE UNCHANGED vars
  BY <1>14 DEF vars, rows, promotions, actors
<1> QED
  BY <1>7, <1>8, <1>9, <1>10, <1>11, <1>12, <1>13, <1>14 DEF Next

(* The halves of a request: the candidate is new, and its promotion is.      *)
LEMMA StepPromotions ==
  ASSUME Decided, [Next]_vars
  PROVE  /\ PromotionsFollow'
         /\ \A k \in Items : promo[k] \in {"approved", "rejected"} => promo'[k] = promo[k]
<1>0. /\ TypeOK /\ PromotionsFollow /\ \A a \in Handlers : a \in Actors
      /\ \A a \in Actors : pc[a] = "promote" => item[a] \in Items
  BY DEF Decided, IInv, TypeOK, InHand, Actors
<1>1. ASSUME NEW a \in Handlers, NEW i \in Items, NEW k \in Items, PromoteCandidate(a, i, k)
      PROVE  PromotionsFollow' /\ UNCHANGED promo
  <2>1. /\ cand[k] = "none" /\ cand' = [cand EXCEPT ![k] = "candidate"]
        /\ pc' = [pc EXCEPT ![a] = "promote"] /\ item' = [item EXCEPT ![a] = k]
        /\ UNCHANGED promo
    BY <1>1 DEF PromoteCandidate, Create, Unused
  <2>2. \A b \in Actors : pc[b] = "promote" => item[b] # k
    BY <1>0, <2>1 DEF PromotionsFollow
  <2> QED
    BY <1>0, <2>1, <2>2 DEF TypeOK, PromotionsFollow
<1>2. ASSUME NEW a \in Handlers, PromoteRequest(a)
      PROVE  /\ PromotionsFollow'
             /\ \A k \in Items : promo[k] \in {"approved", "rejected"} => promo'[k] = promo[k]
  <2>1. /\ pc[a] = "promote" /\ item[a] \in Items /\ promo[item[a]] = "none" /\ cand[item[a]] # "none"
        /\ UNCHANGED cand
    BY <1>0, <1>2 DEF PromoteRequest, PromotionsFollow, rows
  <2>2. \A k \in Items : promo'[k] = promo[k] \/ k = item[a]
    BY <1>0, <1>2 DEF PromoteRequest, TypeOK
  <2>3. \A b \in Actors : pc'[b] = "promote" => b # a /\ pc[b] = "promote" /\ item'[b] = item[b]
    BY <1>0, <1>2 DEF PromoteRequest, Leave, Home, TypeOK
  <2> QED
    BY <1>0, <2>1, <2>2, <2>3 DEF PromotionsFollow
<1> QED
  BY <1>1, <1>2, QuietPromotions, QuietSteps

(* A memory that was forgotten is never confirmed again and a promotion is   *)
(* decided once, although requests and the maintenance may still hold the    *)
(* candidate as pending.                                                     *)
THEOREM DecidedOnce == Spec => DecisionsAreFinal
<1>1. Init => Decided
  BY InitIInv DEF Init, Decided, PromotionsFollow
<1>2. Decided /\ [Next]_vars => Decided'
  BY StepIInv, StepPromotions DEF Decided
<1>3. Decided /\ [Next]_vars =>
        [\A i \in Items :
            /\ mem[i] = "deleted" => mem'[i] = "deleted"
            /\ promo[i] \in {"approved", "rejected"} => promo'[i] = promo[i]]_vars
  BY StepForgotten, StepPromotions DEF Decided
<1> QED
  BY <1>1, <1>2, <1>3, PTL DEF Spec, DecisionsAreFinal
-----------------------------------------------------------------------------
(* Rows and index *)

Touching == {"index", "queue", "indexPromotion"}
Repairing == {"repair", "fix", "unfix", "fixed"}

\* Somebody else's place and item stay as they are.
OthersStay(a) == \A b \in Actors \ {a} : pc'[b] = pc[b] /\ item'[b] = item[b]

\* No memory is confirmed that was not, and nothing is rejected.
RowsFade ==
  /\ \A i \in Items : mem'[i] = mem[i] \/ (mem[i] = "confirmed" /\ mem'[i] \in {"expired", "deleted"})
  /\ \A i \in Items : cand'[i] = "rejected" => cand[i] = "rejected"

LEMMA Held ==
  ASSUME IInv
  PROVE  /\ Worker \in Actors /\ \A a \in Handlers : a \in Actors
         /\ \A a \in Actors :
                pc[a] \in Deciding \cup Touching \cup {"fix", "unfix", "fixed", "unindex", "forget", "promote"}
                    => item[a] \in Items
         /\ \A a \in Actors : item[a] \in Items \cup {0} /\ pc[a] \in Steps
  BY DEF IInv, TypeOK, InHand, Actors, Deciding, Touching

(* Records fade, actors and index stay. *)
LEMMA FollowRows ==
  ASSUME IInv, Followed, RowsFade, UNCHANGED <<index, actors, history>>
  PROVE  Followed'
<1>1. UNCHANGED <<indexed, repairs, pc, item, todo, contested, broken, raised>>
  BY DEF index, actors, history
<1>2. IndexInHand'
  BY <1>1, Held DEF IInv, TypeOK, Followed, IndexInHand, RowsFade, Deciding, Touching
<1>3. DecisionsApart'
  BY <1>1, Held DEF Followed, DecisionsApart, RowsFade, Deciding, Touching
<1>4. IndexOrRepair' /\ DecisionStands'
  BY <1>1 DEF Followed, RecordsFollowDecisions, IndexOrRepair, Findable, DecisionStands, RowsFade
<1> QED
  BY <1>2, <1>3, <1>4 DEF Followed, RecordsFollowDecisions

(* An actor that has nothing to finish goes where nothing rests on what it has. *)
LEMMA FollowFree ==
  ASSUME IInv, Followed, NEW a \in Actors, OthersStay(a),
         pc[a] \notin Touching, pc'[a] \in {"idle", "confirm", "repair", "forget", "promote"},
         RowsFade, UNCHANGED <<index, history>>, todo' \subseteq todo,
         pc'[Worker] \in Repairing => pc[Worker] \in Repairing
  PROVE  Followed'
<1>1. UNCHANGED <<indexed, repairs, contested, broken, raised>>
  BY DEF index, history
<1>2. IndexInHand'
  BY <1>1, Held DEF IInv, TypeOK, Followed, IndexInHand, RowsFade, OthersStay, Deciding, Touching, Repairing
<1>3. DecisionsApart'
  BY <1>1, Held DEF Followed, DecisionsApart, RowsFade, OthersStay, Deciding, Touching
<1>4. IndexOrRepair' /\ DecisionStands'
  BY <1>1 DEF Followed, RecordsFollowDecisions, IndexOrRepair, Findable, DecisionStands, RowsFade, OthersStay, Touching
<1> QED
  BY <1>2, <1>3, <1>4 DEF Followed, RecordsFollowDecisions

(* A decision reads a pending candidate, or rejects a promotion whose          *)
(* candidate is decided, and notes who else is at it.                          *)
LEMMA FollowRead ==
  ASSUME IInv, Followed, NEW a \in Actors, NEW i \in Items,
         NEW to \in {"approve", "reject", "approvePromotion", "rejectPromotion", "closePromotion"},
         Take(a, i, to), Contest(a, i), cand[i] = "candidate" \/ to = "closePromotion",
         pc[a] \in {"idle", "confirm"}, UNCHANGED <<rows, index, broken, raised>>, todo' \subseteq todo
  PROVE  Followed'
<1>1. UNCHANGED <<cand, mem, indexed, repairs, broken>> /\ contested \subseteq contested'
  BY DEF rows, index, Contest
<1>2. pc'[a] = to /\ item'[a] = i /\ OthersStay(a)
  BY DEF IInv, TypeOK, Take, OthersStay
<1>3. cand[i] = "candidate" => mem[i] = "none"
  BY DEF IInv, UndecidedUnknown
<1>4. IndexInHand'
  BY <1>1, <1>2, Held DEF Followed, IndexInHand, OthersStay
<1>5. DecisionsApart'
  <2> SUFFICES ASSUME NEW b \in Actors, pc'[b] \in Deciding, item'[b] \notin contested'
               PROVE  /\ \A c \in Actors \ {b} : pc'[c] \in Deciding => item'[c] # item'[b]
                      /\ pc'[b] \in {"approve", "approvePromotion"} => cand'[item'[b]] # "rejected"
                      /\ pc'[b] \in {"reject", "rejectPromotion"} => mem'[item'[b]] = "none"
    BY DEF DecisionsApart
  <2>1. i \notin contested' => \A c \in Actors \ {a} : pc[c] \in Deciding => item[c] # i
    BY DEF Contest
  <2>2. CASE b = a
    BY <2>1, <2>2, <1>1, <1>2, <1>3 DEF OthersStay
  <2>3. CASE b # a
    BY <2>1, <2>3, <1>1, <1>2 DEF OthersStay, Followed, DecisionsApart
  <2> QED
    BY <2>2, <2>3
<1>6. IndexOrRepair' /\ DecisionStands'
  BY <1>1, <1>2 DEF Followed, RecordsFollowDecisions, IndexOrRepair, Findable, DecisionStands, OthersStay
<1> QED
  BY <1>4, <1>5, <1>6 DEF Followed, RecordsFollowDecisions

(* A memory is confirmed by one whose next step is to index it. *)
LEMMA FollowInsert ==
  ASSUME IInv, Followed, NEW a \in Actors,
         \/ ApproveCommit(a, "approve", "index")
         \/ ApproveCommit(a, "approvePromotion", "indexPromotion")
  PROVE  Followed'
<1> DEFINE i == item[a]
<1>0. /\ pc[a] \in {"approve", "approvePromotion"} /\ i \in Items
      /\ pc'[a] \in {"index", "indexPromotion"} /\ OthersStay(a) /\ item' = item
      /\ UNCHANGED <<indexed, repairs, todo, contested, broken, raised>>
  BY Held DEF IInv, TypeOK, ApproveCommit, Goto, OthersStay, index, history, Deciding
<1>1. mem[i] = "none" /\ Insert(i, saw[a])
  BY DEF ApproveCommit
<1>2. /\ mem'[i] = "confirmed" /\ cand'[i] = "approved"
      /\ \A k \in Items \ {i} :
            /\ mem'[k] = mem[k] \/ (mem[k] = "confirmed" /\ mem'[k] = "expired")
            /\ cand'[k] = cand[k]
  BY <1>0, <1>1 DEF IInv, TypeOK, Insert, Slot
<1> HIDE DEF i
<1>3. IndexInHand'
  <2>1. \A k \in Items : mem[k] # "none" => k # i /\ mem'[k] # "none"
    BY <1>1, <1>2
  <2>2. \A k \in Items : mem[k] = "deleted" => mem'[k] = "deleted"
    BY <1>1, <1>2
  <2>3. \A k \in Items : mem[k] \in {"expired", "deleted"} => mem'[k] \in {"expired", "deleted"}
    BY <1>1, <1>2
  <2>4. repairs \subseteq Items /\ todo \subseteq Items
    BY DEF IInv, TypeOK
  <2>5. pc'[a] = "index" \/ pc'[a] = "indexPromotion"
    BY <1>0
  <2>6. pc'[Worker] \in Repairing => pc[Worker] \in Repairing
    BY <1>0, Held DEF OthersStay, Repairing
  <2> QED
    BY <1>0, <1>2, <2>1, <2>2, <2>3, <2>4, <2>5, <2>6, Held
       DEF i, Followed, IndexInHand, OthersStay, Touching, Repairing
<1>4. DecisionsApart'
  <2> SUFFICES ASSUME NEW b \in Actors, pc'[b] \in Deciding, item'[b] \notin contested'
               PROVE  /\ \A c \in Actors \ {b} : pc'[c] \in Deciding => item'[c] # item'[b]
                      /\ pc'[b] \in {"approve", "approvePromotion"} => cand'[item'[b]] # "rejected"
                      /\ pc'[b] \in {"reject", "rejectPromotion"} => mem'[item'[b]] = "none"
    BY DEF DecisionsApart
  <2>1. \A c \in Actors : pc'[c] \in Deciding => pc[c] \in Deciding
    BY <1>0 DEF OthersStay, Deciding
  <2>2. \A c \in Actors \ {b} : pc'[c] \in Deciding => item'[c] # item'[b]
    BY <1>0, <2>1 DEF Followed, DecisionsApart
  <2>3. CASE b = a
    BY <1>0, <2>2, <2>3
  <2>4. CASE b # a
    <3>1. pc[b] = pc'[b] /\ pc[a] \in Deciding /\ item[b] \notin contested /\ item[b] \in Items
      BY <1>0, <2>1, <2>4, Held DEF OthersStay, Deciding
    <3>2. item[b] # i
      BY <2>4, <3>1 DEF i, Followed, DecisionsApart
    <3> QED
      BY <1>0, <1>2, <2>2, <2>4, <3>1, <3>2 DEF Followed, DecisionsApart
  <2> QED
    BY <2>3, <2>4
<1>5. DecisionStands'
  <2>1. \A k \in Items \ contested : k # i => cand'[k] = cand[k] /\ (mem[k] = "none" => mem'[k] = "none")
    BY <1>2
  <2> QED
    BY <1>0, <1>2, <2>1 DEF Followed, RecordsFollowDecisions, DecisionStands
<1>6. IndexOrRepair'
  <2> SUFFICES ASSUME NEW k \in Items, mem'[k] = "confirmed"
               PROVE  \/ k \in indexed \cup repairs \cup broken \cup raised
                      \/ \E b \in Actors : item[b] = k /\ pc'[b] \in Touching
    BY <1>0 DEF IndexOrRepair, Findable, Touching
  <2>1. CASE k = i
    BY <1>0, <2>1 DEF i, Touching
  <2>2. CASE k # i
    BY <1>0, <1>2, <2>2 DEF Followed, RecordsFollowDecisions, IndexOrRepair, Findable, OthersStay, Touching
  <2> QED
    BY <2>1, <2>2
<1> QED
  BY <1>3, <1>4, <1>5, <1>6 DEF Followed, RecordsFollowDecisions

(* What was confirmed goes into the index or into the queue of repairs, or the *)
(* one who confirmed it is noted as broken or raised.                          *)
LEMMA FollowIndex ==
  ASSUME IInv, Followed, NEW a \in Actors,
         IndexUpsert(a) \/ IndexFails(a) \/ QueueRepair(a) \/ IndexPromotion(a)
         \/ PromotionIndexFails(a) \/ Stop(a)
  PROVE  Followed'
<1>0. /\ OthersStay(a) /\ RowsFade /\ contested' = contested /\ todo' \subseteq todo
      /\ UNCHANGED <<cand, mem>> /\ indexed \subseteq indexed' /\ broken \subseteq broken' /\ raised \subseteq raised'
      /\ repairs \subseteq repairs'
  BY DEF IInv, TypeOK, IndexUpsert, IndexFails, QueueRepair, IndexPromotion, PromotionIndexFails, Stop, Leave, Goto, OthersStay, RowsFade,
         rows, index, history
<1>1. /\ pc'[a] \in {"idle", "confirm", "queue", "reviewPromotion"}
      /\ pc'[a] = "queue" => pc[a] = "index" /\ item'[a] = item[a]
      /\ pc'[a] = "reviewPromotion" => pc[a] = "indexPromotion" /\ item'[a] = item[a]
  BY DEF IInv, TypeOK, IndexUpsert, IndexFails, QueueRepair, IndexPromotion, PromotionIndexFails, Stop, Leave, Home, Goto
<1>2. pc[a] \in Touching =>
        \/ item[a] \in indexed' \cup repairs' \cup broken' \cup raised'
        \/ pc'[a] = "queue" /\ item'[a] = item[a]
  BY DEF IInv, TypeOK, IndexUpsert, IndexFails, QueueRepair, IndexPromotion, PromotionIndexFails, Stop, Goto, Touching
<1>3. \A k \in repairs' : k \in repairs \/ (pc[a] \in Touching /\ k = item[a])
  BY DEF IndexUpsert, IndexFails, QueueRepair, IndexPromotion, PromotionIndexFails, Stop, Touching, index
<1>4. pc'[Worker] \in Repairing => pc[Worker] \in Repairing
  BY <1>0, <1>1, Held DEF OthersStay, Repairing
<1>5. IndexInHand'
  BY <1>0, <1>1, <1>3, <1>4, Held DEF Followed, IndexInHand, OthersStay, Touching, Repairing
<1>6. DecisionsApart'
  BY <1>0, <1>1 DEF Followed, DecisionsApart, OthersStay, Deciding
<1>7. IndexOrRepair' /\ DecisionStands'
  BY <1>0, <1>1, <1>2 DEF Followed, RecordsFollowDecisions, IndexOrRepair, Findable, DecisionStands, OthersStay, Touching
<1> QED
  BY <1>5, <1>6, <1>7 DEF Followed, RecordsFollowDecisions

(* A rejection nobody contests is of a candidate without a memory. *)
LEMMA FollowReject ==
  ASSUME IInv, Followed, NEW a \in Actors, RejectCommit(a) \/ RejectPromoted(a)
  PROVE  Followed'
<1>0. /\ pc[a] \in {"reject", "rejectPromotion"} /\ item[a] \in Items /\ OthersStay(a)
      /\ pc'[a] \in {"idle", "confirm"} \/ (pc'[a] = "closePromotion" /\ item'[a] = item[a])
      /\ UNCHANGED <<mem, indexed, repairs, todo, contested, broken, raised>>
  BY Held DEF IInv, TypeOK, RejectCommit, RejectPromoted, MarkRejected, Leave, Home, Goto, OthersStay, index, history,
              Deciding
<1>1. \A k \in Items : cand'[k] = IF k = item[a] THEN "rejected" ELSE cand[k]
  BY <1>0 DEF IInv, TypeOK, RejectCommit, RejectPromoted, MarkRejected
<1>2. pc'[Worker] \in Repairing => pc[Worker] \in Repairing
  BY <1>0, Held DEF OthersStay, Repairing
<1>3. IndexInHand'
  BY <1>0, <1>2, Held DEF Followed, IndexInHand, OthersStay, Repairing
<1>4. DecisionsApart'
  <2> SUFFICES ASSUME NEW b \in Actors, pc'[b] \in Deciding, item'[b] \notin contested'
               PROVE  /\ \A c \in Actors \ {b} : pc'[c] \in Deciding => item'[c] # item'[b]
                      /\ pc'[b] \in {"approve", "approvePromotion"} => cand'[item'[b]] # "rejected"
                      /\ pc'[b] \in {"reject", "rejectPromotion"} => mem'[item'[b]] = "none"
    BY DEF DecisionsApart
  <2>1. \A c \in Actors : pc'[c] \in Deciding => pc[c] \in Deciding /\ item'[c] = item[c]
    BY <1>0 DEF OthersStay, Deciding
  <2>2. \A c \in Actors \ {b} : pc'[c] \in Deciding => item'[c] # item'[b]
    BY <1>0, <2>1 DEF Followed, DecisionsApart
  <2>3. CASE b = a
    BY <1>0, <2>2, <2>3
  <2>4. CASE b # a
    <3>1. /\ pc[b] = pc'[b] /\ item'[b] = item[b] /\ pc[a] \in Deciding
          /\ pc[b] \in Deciding /\ item[b] \notin contested /\ item[b] \in Items
      BY <1>0, <2>1, <2>4, Held DEF OthersStay, Deciding
    <3>2. item[b] # item[a]
      BY <2>4, <3>1 DEF Followed, DecisionsApart
    <3> QED
      BY <1>0, <1>1, <2>2, <2>4, <3>1, <3>2 DEF Followed, DecisionsApart
  <2> QED
    BY <2>3, <2>4
<1>5. DecisionStands'
  <2>1. item[a] \notin contested => mem[item[a]] = "none"
    BY <1>0 DEF Followed, DecisionsApart, Deciding
  <2> QED
    BY <1>0, <1>1, <2>1 DEF Followed, RecordsFollowDecisions, DecisionStands
<1>6. IndexOrRepair'
  BY <1>0 DEF Followed, RecordsFollowDecisions, IndexOrRepair, Findable, OthersStay
<1> QED
  BY <1>3, <1>4, <1>5, <1>6 DEF Followed, RecordsFollowDecisions

(* What is forgotten leaves the index after it has left the table. *)
LEMMA FollowForget ==
  ASSUME IInv, Followed, NEW a \in Actors, ForgetCommit(a) \/ Unindex(a)
  PROVE  Followed'
<1>1. ASSUME ForgetCommit(a) PROVE Followed'
  <2>0. /\ pc[a] = "forget" /\ item[a] \in Items /\ OthersStay(a)
        /\ UNCHANGED <<cand, indexed, repairs, todo, contested, broken, raised>>
    BY <1>1, Held DEF IInv, TypeOK, ForgetCommit, Leave, OthersStay, index, history
  <2>1. \A k \in Items : mem'[k] = IF k = item[a] /\ mem[k] # "none" THEN "deleted" ELSE mem[k]
    BY <1>1, <2>0 DEF IInv, TypeOK, ForgetCommit
  <2>2. pc'[a] \in {"idle", "confirm"} \/ (pc'[a] = "unindex" /\ item'[a] = item[a] /\ mem'[item[a]] = "deleted")
    <3>1. CASE mem' = mem
      BY <1>1, <3>1 DEF IInv, TypeOK, ForgetCommit, Leave, Home
    <3>2. CASE mem' # mem
      <4>1. mem' = [mem EXCEPT ![item[a]] = IF @ = "none" THEN @ ELSE "deleted"]
        BY <1>1 DEF ForgetCommit
      <4>2. mem[item[a]] # "none"
        BY <3>2, <4>1 DEF IInv, TypeOK
      <4> QED
        BY <1>1, <2>0, <2>1, <3>2, <4>2 DEF IInv, TypeOK, ForgetCommit
    <3> QED
      BY <3>1, <3>2
  <2>3. pc'[Worker] \in Repairing => pc[Worker] \in Repairing
    BY <2>0, <2>2, Held DEF OthersStay, Repairing
  <2>4. repairs \subseteq Items /\ todo \subseteq Items
    BY DEF IInv, TypeOK
  <2>5. /\ \A k \in Items : (mem[k] = "none") = (mem'[k] = "none")
        /\ \A k \in Items : mem[k] \in {"expired", "deleted"} => mem'[k] \in {"expired", "deleted"}
        /\ \A k \in Items : mem[k] = "deleted" => mem'[k] = "deleted"
        /\ \A k \in Items : mem'[k] = "confirmed" => mem[k] = "confirmed"
    BY <2>1
  <2>6. IndexInHand'
    BY <2>0, <2>2, <2>3, <2>4, <2>5, Held DEF Followed, IndexInHand, OthersStay, Touching, Repairing
  <2>7. DecisionsApart'
    BY <2>0, <2>2, <2>5, Held DEF Followed, DecisionsApart, OthersStay, Deciding
  <2>8. IndexOrRepair' /\ DecisionStands'
    BY <2>0, <2>2, <2>5 DEF Followed, RecordsFollowDecisions, IndexOrRepair, Findable, DecisionStands, OthersStay
  <2> QED
    BY <2>6, <2>7, <2>8 DEF Followed, RecordsFollowDecisions
<1>2. ASSUME Unindex(a) PROVE Followed'
  <2>0. /\ pc[a] = "unindex" /\ item[a] \in Items /\ OthersStay(a) /\ pc'[a] \in {"idle", "confirm"}
        /\ indexed' = indexed \ {item[a]}
        /\ UNCHANGED <<cand, mem, repairs, todo, contested, broken, raised>>
    BY <1>2, Held DEF IInv, TypeOK, Unindex, Leave, Home, OthersStay, rows, history
  <2>1. mem[item[a]] = "deleted"
    BY <2>0 DEF Followed, IndexInHand
  <2>2. pc'[Worker] \in Repairing => pc[Worker] \in Repairing
    BY <2>0, Held DEF OthersStay, Repairing
  <2>3. IndexInHand'
    BY <2>0, <2>1, <2>2, Held DEF Followed, IndexInHand, OthersStay, Repairing
  <2>4. DecisionsApart'
    BY <2>0 DEF Followed, DecisionsApart, OthersStay, Deciding
  <2>5. IndexOrRepair' /\ DecisionStands'
    BY <2>0, <2>1 DEF Followed, RecordsFollowDecisions, IndexOrRepair, Findable, DecisionStands, OthersStay
  <2> QED
    BY <2>3, <2>4, <2>5 DEF Followed, RecordsFollowDecisions
<1> QED
  BY <1>1, <1>2

(* The maintenance closes a repair of a memory it has indexed, or that nobody  *)
(* needs to find.                                                              *)
LEMMA FollowRepair ==
  ASSUME IInv, Followed,
         \/ ListRepairs \/ Fix \/ Unfix \/ RepairDone
         \/ \E i \in Items : RepairRead(i)
         \/ \E n \in Items : ListDue(n)
  PROVE  Followed'
<1>0. Worker \in Actors /\ UNCHANGED <<cand, mem, contested, broken, raised>> /\ OthersStay(Worker)
  BY Held DEF IInv, TypeOK, ListRepairs, Fix, Unfix, RepairDone, RepairRead, ListDue, Worklist, Goto, Take, NextRepair,
              OthersStay, rows, history
<1>1. CASE ListRepairs \/ \E n \in Items : ListDue(n)
  <2>1. /\ pc[Worker] \in {"idle", "confirm"} /\ pc'[Worker] \in {"idle", "confirm", "repair"}
        /\ pc'[Worker] = "repair" => todo' = repairs
        /\ UNCHANGED <<indexed, repairs, item>>
    BY <1>0, <1>1 DEF IInv, TypeOK, ListRepairs, ListDue, Worklist, index
  <2>2. IndexInHand' /\ DecisionsApart'
    BY <1>0, <2>1 DEF Followed, IndexInHand, DecisionsApart, OthersStay, Deciding
  <2>3. IndexOrRepair' /\ DecisionStands'
    BY <1>0, <2>1 DEF Followed, RecordsFollowDecisions, IndexOrRepair, Findable, DecisionStands, OthersStay
  <2> QED
    BY <2>2, <2>3 DEF Followed, RecordsFollowDecisions
<1>2. ASSUME NEW i \in Items, RepairRead(i) PROVE Followed'
  <2>1. /\ pc[Worker] = "repair" /\ i \in todo /\ todo' \subseteq todo /\ item'[Worker] = i
        /\ pc'[Worker] = IF mem[i] = "confirmed" THEN "fix" ELSE IF mem[i] = "deleted" THEN "unfix" ELSE "fixed"
        /\ UNCHANGED <<indexed, repairs>>
    BY <1>0, <1>2 DEF IInv, TypeOK, RepairRead, Take, index
  <2>2. mem[i] \in {"confirmed", "expired", "deleted"}
    BY <2>1 DEF IInv, TypeOK, Followed, IndexInHand
  <2>3. IndexInHand'
    BY <1>0, <2>1, <2>2 DEF Followed, IndexInHand, OthersStay
  <2>4. DecisionsApart'
    BY <1>0, <2>1 DEF Followed, DecisionsApart, OthersStay, Deciding
  <2>5. IndexOrRepair' /\ DecisionStands'
    BY <1>0, <2>1 DEF Followed, RecordsFollowDecisions, IndexOrRepair, Findable, DecisionStands, OthersStay
  <2> QED
    BY <2>3, <2>4, <2>5 DEF Followed, RecordsFollowDecisions
<1>3. CASE Fix \/ Unfix
  <2>1. /\ pc[Worker] \in {"fix", "unfix"} /\ pc'[Worker] = "fixed" /\ item[Worker] \in Items
        /\ pc[Worker] = "fix" => indexed' = indexed \cup {item[Worker]}
        /\ pc[Worker] = "unfix" => indexed' = indexed \ {item[Worker]}
        /\ UNCHANGED <<repairs, item, todo>>
    BY <1>0, <1>3, Held DEF IInv, TypeOK, Fix, Unfix, Goto
  <2>2. pc[Worker] = "unfix" => mem[item[Worker]] = "deleted"
    BY <1>0 DEF Followed, IndexInHand
  <2>3. IndexInHand'
    BY <1>0, <2>1, <2>2, Held DEF Followed, IndexInHand, OthersStay
  <2>4. DecisionsApart'
    BY <1>0, <2>1 DEF Followed, DecisionsApart, OthersStay, Deciding
  <2>5. IndexOrRepair' /\ DecisionStands'
    BY <1>0, <2>1, <2>2 DEF Followed, RecordsFollowDecisions, IndexOrRepair, Findable, DecisionStands, OthersStay
  <2> QED
    BY <2>3, <2>4, <2>5 DEF Followed, RecordsFollowDecisions
<1>4. CASE RepairDone
  <2>1. /\ pc[Worker] = "fixed" /\ pc'[Worker] = "repair" /\ repairs' = repairs \ {item[Worker]}
        /\ UNCHANGED <<indexed, todo>>
    BY <1>0, <1>4 DEF IInv, TypeOK, RepairDone, NextRepair
  <2>2. IndexInHand' /\ DecisionsApart'
    BY <1>0, <2>1 DEF Followed, IndexInHand, DecisionsApart, OthersStay, Deciding
  <2>3. item[Worker] \in indexed \/ mem[item[Worker]] # "confirmed"
    BY <1>0, <2>1 DEF Followed, IndexInHand
  <2>4. IndexOrRepair' /\ DecisionStands'
    BY <1>0, <2>1, <2>3 DEF Followed, RecordsFollowDecisions, IndexOrRepair, Findable, DecisionStands, OthersStay
  <2> QED
    BY <2>2, <2>4 DEF Followed, RecordsFollowDecisions
<1> QED
  BY <1>1, <1>2, <1>3, <1>4

(* A request for a promotion makes a candidate nobody has heard of. *)
LEMMA FollowPromote ==
  ASSUME IInv, Followed, NEW a \in Handlers,
         PromoteRequest(a) \/ \E i, k \in Items : PromoteCandidate(a, i, k)
  PROVE  Followed'
<1>0. a \in Actors /\ Worker \in Actors /\ a # Worker
  BY WorkerAssumption DEF Actors
<1>1. /\ pc[a] \in {"idle", "promote"} /\ pc'[a] \in {"idle", "promote"} /\ OthersStay(a)
      /\ UNCHANGED <<mem, index, history, todo>>
  BY <1>0 DEF IInv, TypeOK, PromoteRequest, PromoteCandidate, Create, Leave, Home, OthersStay, rows
<1>2. \A k \in Items : cand'[k] = "rejected" => cand[k] = "rejected"
  BY DEF IInv, TypeOK, PromoteRequest, PromoteCandidate, Create, rows
<1>3. pc'[Worker] = pc[Worker]
  BY <1>0, <1>1 DEF OthersStay
<1> QED
  BY <1>0, <1>1, <1>2, <1>3, FollowFree DEF RowsFade, Touching

LEMMA StepFollowed ==
  ASSUME IInv, Followed, [Next]_vars
  PROVE  Followed'
<1>0. Worker \in Actors /\ (\A a \in Handlers : a \in Actors /\ a # Worker)
  BY WorkerAssumption DEF Actors
<1>1. ASSUME NEW a \in Actors, Approve(a) PROVE Followed'
  <2>1. CASE ApproveCommit(a, "approve", "index")
    BY <2>1, FollowInsert
  <2>2. CASE IndexUpsert(a) \/ IndexFails(a) \/ QueueRepair(a)
    BY <2>2, FollowIndex
  <2>3. CASE ApproveRefused(a)
    <3>1. /\ pc[a] \in {"approve", "approvePromotion"} /\ pc'[a] = "idle" /\ OthersStay(a) /\ todo' \subseteq todo
          /\ UNCHANGED <<cand, mem, index, history>>
      BY <2>3 DEF IInv, TypeOK, ApproveRefused, OthersStay, rows
    <3>2. pc'[Worker] \in Repairing => pc[Worker] \in Repairing
      BY <1>0, <3>1 DEF OthersStay, Repairing
    <3> QED
      BY <3>1, <3>2, FollowFree DEF RowsFade, Touching
  <2> QED
    BY <1>1, <2>1, <2>2, <2>3 DEF Approve
<1>2. ASSUME NEW a \in Handlers, NEW i \in Items,
             \/ ApproveRead(a, i) \/ RejectRead(a, i) \/ ApprovePromotion(a, i) \/ RejectPromotion(a, i)
      PROVE  Followed'
  <2>1. \E to \in {"approve", "reject", "approvePromotion", "rejectPromotion", "closePromotion"} :
            Take(a, i, to) /\ (cand[i] = "candidate" \/ to = "closePromotion")
    BY <1>2 DEF ApproveRead, RejectRead, ApprovePromotion, RejectPromotion
  <2>2. Contest(a, i) /\ pc[a] = "idle" /\ UNCHANGED <<rows, index, broken, raised, todo>>
    BY <1>2 DEF ApproveRead, RejectRead, ApprovePromotion, RejectPromotion
  <2> QED
    BY <1>0, <2>1, <2>2, FollowRead
<1>3. ASSUME NEW a \in Handlers, NEW i \in Items, ForgetRead(a, i) PROVE Followed'
  <2>1. /\ pc[a] = "idle" /\ pc'[a] = "forget" /\ OthersStay(a)
        /\ UNCHANGED <<cand, mem, index, history, todo>>
    BY <1>0, <1>3 DEF IInv, TypeOK, ForgetRead, Take, OthersStay, rows
  <2> QED
    BY <1>0, <2>1, FollowFree DEF RowsFade, Touching, OthersStay
<1>4. ASSUME NEW a \in Handlers, Request(a) PROVE Followed'
  <2>1. CASE Approve(a)
    BY <1>0, <1>1, <2>1
  <2>2. CASE RejectCommit(a) \/ ForgetCommit(a) \/ Unindex(a)
    BY <1>0, <2>2, FollowReject, FollowForget
  <2> QED
    BY <1>2, <1>3, <1>4, <2>1, <2>2 DEF Request
<1>5. ASSUME NEW a \in Handlers, Promotion(a) PROVE Followed'
  <2>1. CASE Review(a, "reviewPromotion", "approved") \/ Review(a, "closePromotion", "rejected")
    <3>1. /\ pc[a] \in {"reviewPromotion", "closePromotion"} /\ pc'[a] = "idle" /\ OthersStay(a)
          /\ UNCHANGED <<cand, mem, index, history, todo>>
      BY <1>0, <2>1 DEF IInv, TypeOK, Review, Leave, Home, OthersStay, rows
    <3> QED
      BY <1>0, <3>1, FollowFree DEF RowsFade, Touching, OthersStay
  <2>2. CASE ApproveCommit(a, "approvePromotion", "indexPromotion") \/ IndexPromotion(a) \/ PromotionIndexFails(a)
             \/ RejectPromoted(a)
    BY <1>0, <2>2, FollowInsert, FollowIndex, FollowReject
  <2> QED
    BY <1>2, <1>5, <2>1, <2>2, FollowPromote DEF Promotion
<1>6. CASE Maintain \/ RepairFails \/ \E n \in Items : ListDue(n)
  <2>1. ASSUME NEW i \in Items, ConfirmNext(i) PROVE Followed'
    <3>1. pc[Worker] = "confirm" /\ todo' \subseteq todo /\ UNCHANGED <<rows, index, broken, raised>>
      BY <2>1 DEF ConfirmNext
    <3>2. CASE cand[i] = "candidate"
      BY <1>0, <2>1, <3>1, <3>2, FollowRead DEF ConfirmNext
    <3>3. CASE cand[i] # "candidate"
      <4>1. UNCHANGED <<pc, item, contested>>
        BY <2>1, <3>3 DEF ConfirmNext
      <4> QED
        BY <1>0, <3>1, <4>1, FollowFree DEF RowsFade, OthersStay, Touching, rows, history
    <3> QED
      BY <3>2, <3>3
  <2>2. CASE RepairFails \/ RepairsEnd
    <3>1. /\ pc[Worker] \in {"repair", "fix", "unfix", "fixed"} /\ pc'[Worker] \in {"idle", "repair"}
          /\ OthersStay(Worker) /\ todo' \subseteq todo /\ UNCHANGED <<cand, mem, index, history>>
      BY <1>0, <2>2 DEF IInv, TypeOK, RepairFails, RepairsEnd, NextRepair, Worklist, OthersStay, rows
    <3> QED
      BY <1>0, <3>1, FollowFree DEF RowsFade, Touching, Repairing
  <2> QED
    BY <1>0, <1>1, <1>6, <2>1, <2>2, FollowRepair DEF Maintain
<1>7. ASSUME \/ \E i \in Items, o \in Owners, t \in {"preference", "procedure"} : Extract(i, o, t)
             \/ \E i \in Items : Expire(i)
             \/ \E same \in SUBSET Items, fresh \in [Items -> Items] : Merge(same, fresh)
             \/ UNCHANGED vars
      PROVE  Followed'
  <2>1. UNCHANGED <<index, actors, history>>
    BY <1>7 DEF Extract, Expire, Merge, vars
  <2>2. ASSUME NEW same \in SUBSET Items, NEW fresh \in [Items -> Items], Merge(same, fresh) PROVE RowsFade
    BY <2>2 DEF IInv, TypeOK, Merge, RowsFade
  <2>3. ASSUME NEW i \in Items, Expire(i) PROVE RowsFade
    BY <2>3 DEF IInv, TypeOK, Expire, RowsFade
  <2>4. ASSUME NEW i \in Items, NEW o \in Owners, NEW t \in {"preference", "procedure"}, Extract(i, o, t)
        PROVE  RowsFade
    BY <2>4 DEF IInv, TypeOK, Extract, Create, RowsFade
  <2>5. ASSUME UNCHANGED vars PROVE RowsFade
    BY <2>5 DEF RowsFade, vars, rows
  <2>6. RowsFade
    BY <1>7, <2>2, <2>3, <2>4, <2>5
  <2> QED
    BY <2>1, <2>6, FollowRows
<1> QED
  BY <1>4, <1>5, <1>6, <1>7, FollowIndex DEF Next

(* A rejection nobody contests keeps the fact out of memory, and a memory that *)
(* an approval confirmed is in the index, about to be put there or queued for  *)
(* repair, whatever index calls and repairs fail, unless that approval was     *)
(* stopped before its index or was of a promotion whose index raised.          *)
THEOREM RecordsFollow == Spec => []RecordsFollowDecisions
<1>1. Init => Followed
  BY DEF Init, Followed, IndexInHand, DecisionsApart, RecordsFollowDecisions, IndexOrRepair, Findable, DecisionStands, Deciding
<1>2. IInv /\ Followed /\ [Next]_vars => (IInv /\ Followed)'
  BY StepIInv, StepFollowed
<1>3. Followed => RecordsFollowDecisions
  BY DEF Followed
<1> QED
  BY InitIInv, <1>1, <1>2, <1>3, PTL DEF Spec
=============================================================================

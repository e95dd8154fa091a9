----------------------------- MODULE AnswersProofs -----------------------------
(***************************************************************************)
(* Proofs about Answers, for any questions, evidence, words and bounds: a  *)
(* run stays within its budget (BookKept), its citations are what its      *)
(* agents were handed (EvidenceKept), and it shows nothing unsupported     *)
(* (VoicesKept, which needs EvidenceKept), nothing internal (StreamKept,   *)
(* which needs both) and everything once (OnceKept, which needs all but    *)
(* BookKept).  What the recursive functions of the model compute follows   *)
(* from the least number principle and from induction over the sets of     *)
(* their arguments.                                                        *)
(*                                                                         *)
(* Then EvalRuns, the runs that judge answers: for any workers, cases and  *)
(* runs no run has two workers, none that has ended changes, and one that  *)
(* is completed has judged its cases.                                      *)
(***************************************************************************)
EXTENDS Answers, EvalRuns, FiniteSetTheorems, FunctionTheorems, WellFoundedInduction, TLAPS

-----------------------------------------------------------------------------
(* Recursive functions *)

(* A set of numbers that is not empty has a least one. *)
LEMMA LeastNumber ==
  ASSUME NEW S \in SUBSET Nat, S # {}
  PROVE  \E m \in S : \A n \in S : m <= n
<1> DEFINE Below == {p \in Nat \X Nat : p[1] < p[2]}
<1>1. IsWellFoundedOn(Below, Nat)
  <2>1. Below = OpToRel(<, Nat)
    BY DEF OpToRel
  <2> QED
    BY <2>1, NatLessThanWellFounded
<1>2. PICK x \in S : \A y \in S : ~(<<y, x>> \in Below)
  BY <1>1, WFMin
<1>3. ASSUME NEW y \in S PROVE x <= y
  <2>1. x \in Nat /\ y \in Nat /\ ~(<<y, x>> \in Below)
    BY <1>2
  <2>2. ~(y < x)
    BY <2>1
  <2> QED
    BY <2>1, <2>2
<1> QED
  BY <1>3

(* Induction up to a number, over a set. *)
LEMMA Induction ==
  ASSUME NEW n \in Nat, NEW S, 0 \in S, \A k \in 0..(n - 1) : k \in S => k + 1 \in S
  PROVE  \A k \in 0..n : k \in S
<1> SUFFICES ASSUME {k \in 0..n : k \notin S} # {} PROVE FALSE
  OBVIOUS
<1>1. {k \in 0..n : k \notin S} \in SUBSET Nat
  OBVIOUS
<1>2. PICK m \in {k \in 0..n : k \notin S} : \A k \in {k \in 0..n : k \notin S} : m <= k
  BY <1>1, LeastNumber
<1>3. m # 0 /\ m - 1 \in 0..(n - 1) /\ m - 1 \in S
  BY <1>2
<1> QED
  BY <1>2, <1>3

(* The functions a recursion over the numbers up to n may define, and that there is one. *)
Recursive(n, X, base, step) ==
    {g \in [0..n -> X] : g[0] = base /\ \A k \in 1..n : g[k] = step[<<k, g[k - 1]>>]}

(* A step function can be repeated any number of times. *)
LEMMA Recursion ==
  ASSUME NEW n \in Nat, NEW X, NEW base \in X, NEW step \in [(1..n) \X X -> X]
  PROVE  Recursive(n, X, base, step) # {}
<1> DEFINE Upto(m) == {g \in [0..m -> X] : g[0] = base /\ \A k \in 1..m : g[k] = step[<<k, g[k - 1]>>]}
           S == {m \in 0..n : Upto(m) # {}}
<1>1. 0 \in S
  <2>1. [k \in 0..0 |-> base] \in Upto(0)
    OBVIOUS
  <2> QED
    BY <2>1
<1>2. ASSUME NEW m \in 0..(n - 1), m \in S PROVE m + 1 \in S
  <2>1. PICK g : g \in Upto(m)
    BY <1>2
  <2> DEFINE h == [k \in 0..(m + 1) |-> IF k = m + 1 THEN step[<<m + 1, g[m]>>] ELSE g[k]]
  <2>2. g \in [0..m -> X] /\ g[0] = base /\ \A k \in 1..m : g[k] = step[<<k, g[k - 1]>>]
    BY <2>1
  <2>3. <<m + 1, g[m]>> \in (1..n) \X X
    BY <2>2
  <2>4. h \in [0..(m + 1) -> X]
    BY <2>2, <2>3
  <2>5. h[0] = base
    BY <2>2
  <2>6. ASSUME NEW k \in 1..(m + 1) PROVE h[k] = step[<<k, h[k - 1]>>]
    <3>1. CASE k = m + 1
      <4>1. m \in 0..(m + 1) /\ m # m + 1 /\ m + 1 \in 0..(m + 1)
        OBVIOUS
      <4>2. h[m] = g[m] /\ h[m + 1] = step[<<m + 1, g[m]>>]
        BY <4>1
      <4>3. k - 1 = m
        BY <3>1
      <4> QED
        BY <3>1, <4>2, <4>3
    <3>2. CASE k # m + 1
      <4>1. k \in 1..m /\ k - 1 \in 0..m
        BY <3>2
      <4>2. h[k] = g[k] /\ h[k - 1] = g[k - 1]
        BY <4>1
      <4> QED
        BY <2>2, <4>1, <4>2
    <3> QED
      BY <3>1, <3>2
  <2>7. h \in Upto(m + 1)
    BY <2>4, <2>5, <2>6
  <2>8. m + 1 \in 0..n
    OBVIOUS
  <2> QED
    BY <2>7, <2>8
<1> HIDE DEF S
<1>3. n \in S
  BY <1>1, <1>2, Induction
<1> QED
  BY <1>3 DEF S, Recursive

(* The recursion of Without, step by step. *)
Unfoldings(s, S, T) ==
    {left \in [0..Len(s) -> Seq(T)] :
        /\ left[0] = <<>>
        /\ \A n \in 1..Len(s) : left[n] = IF s[n] \in S THEN left[n - 1] ELSE Append(left[n - 1], s[n])
        /\ Without(s, S) = left[Len(s)]}

(* Without is what its definition says. *)
LEMMA WithoutUnfolds ==
  ASSUME NEW T, NEW s \in Seq(T), NEW S
  PROVE  Unfoldings(s, S, T) # {}
<1> DEFINE step == [p \in (1..Len(s)) \X Seq(T) |-> IF s[p[1]] \in S THEN p[2] ELSE Append(p[2], s[p[1]])]
           body(g) == [n \in 0..Len(s) |->
                         IF n = 0 THEN <<>> ELSE IF s[n] \in S THEN g[n - 1] ELSE Append(g[n - 1], s[n])]
           left == CHOOSE g : g = body(g)
<1>1. Len(s) \in Nat /\ \A n \in 1..Len(s) : s[n] \in T
  OBVIOUS
<1>2. <<>> \in Seq(T)
  OBVIOUS
<1>3. step \in [(1..Len(s)) \X Seq(T) -> Seq(T)]
  BY <1>1
<1>4. PICK g \in [0..Len(s) -> Seq(T)] : g[0] = <<>> /\ \A k \in 1..Len(s) : g[k] = step[<<k, g[k - 1]>>]
  <2>1. Recursive(Len(s), Seq(T), <<>>, step) # {}
    <3> HIDE DEF step
    <3> QED
      BY <1>1, <1>2, <1>3, Recursion
  <2> HIDE DEF step
  <2> QED
    BY <2>1 DEF Recursive
<1>5. \A k \in 1..Len(s) : g[k] = IF s[k] \in S THEN g[k - 1] ELSE Append(g[k - 1], s[k])
  <2> TAKE k \in 1..Len(s)
  <2>1. k - 1 \in 0..Len(s)
    BY <1>1
  <2>2. <<k, g[k - 1]>> \in (1..Len(s)) \X Seq(T)
    BY <2>1
  <2>3. step[<<k, g[k - 1]>>] = IF s[k] \in S THEN g[k - 1] ELSE Append(g[k - 1], s[k])
    BY <2>2
  <2> QED
    BY <1>4, <2>3
<1>6. g = body(g)
  <2>1. ASSUME NEW k \in 0..Len(s) PROVE g[k] = body(g)[k]
    <3>1. CASE k = 0
      BY <1>4, <3>1
    <3>2. CASE k # 0
      <4>1. k \in 1..Len(s)
        BY <1>1, <3>2
      <4> QED
        BY <1>5, <3>2, <4>1
    <3> QED
      BY <3>1, <3>2
  <2>2. g = [k \in 0..Len(s) |-> g[k]] /\ body(g) = [k \in 0..Len(s) |-> body(g)[k]]
    OBVIOUS
  <2> HIDE DEF body
  <2>3. [k \in 0..Len(s) |-> g[k]] = [k \in 0..Len(s) |-> body(g)[k]]
    BY <2>1
  <2> QED
    BY <2>2, <2>3
<1>7. left = body(left)
  <2> HIDE DEF body
  <2> QED
    BY <1>6
<1>8. left[0] = <<>> /\ \A k \in 1..Len(s) : left[k] = IF s[k] \in S THEN left[k - 1] ELSE Append(left[k - 1], s[k])
  <2>1. DOMAIN left = 0..Len(s)
    BY <1>7
  <2>2. 0 \in 0..Len(s) /\ \A k \in 1..Len(s) : k \in 0..Len(s) /\ k # 0
    BY SMTT(30), <1>1
  <2>3. left[0] = body(left)[0]
    BY ZenonT(60), <1>7
  <2>4. \A k \in 1..Len(s) : left[k] = body(left)[k]
    BY <1>7
  <2> HIDE DEF left
  <2> QED
    BY <2>2, <2>3, <2>4
<1>9. Without(s, S) = left[Len(s)]
  BY DEF Without
<1> HIDE DEF left
<1>10. \A k \in 0..Len(s) : k \in {j \in 0..Len(s) : left[j] \in Seq(T)}
  <2>1. 0 \in {j \in 0..Len(s) : left[j] \in Seq(T)}
    <3>1. 0 \in 0..Len(s)
      BY <1>1
    <3>2. left[0] \in Seq(T)
      BY <1>2, <1>8
    <3> QED
      BY <3>1, <3>2
  <2>2. ASSUME NEW k \in 0..(Len(s) - 1), left[k] \in Seq(T) PROVE left[k + 1] \in Seq(T)
    <3>1. k + 1 \in 1..Len(s) /\ (k + 1) - 1 = k
      BY <1>1
    <3>2. left[k + 1] = IF s[k + 1] \in S THEN left[k] ELSE Append(left[k], s[k + 1])
      BY <1>8, <3>1
    <3> QED
      BY <1>1, <2>2, <3>1, <3>2
  <2>3. \A k \in 0..(Len(s) - 1) : k \in {j \in 0..Len(s) : left[j] \in Seq(T)} =>
                                   k + 1 \in {j \in 0..Len(s) : left[j] \in Seq(T)}
    BY <1>1, <2>2
  <2> QED
    BY <1>1, <2>1, <2>3, Induction
<1>11. left \in [0..Len(s) -> Seq(T)]
  <2>1. left = [n \in 0..Len(s) |-> left[n]]
    BY <1>7 DEF left
  <2> QED
    BY SMTT(30), <1>10, <2>1
<1> QED
  BY <1>8, <1>9, <1>11 DEF Unfoldings

(* Embeddings of w in s: w is s without the elements of S, in their order, up to place n. *)
Embeddings(w, s, S, n) ==
    {m \in [1..Len(w) -> 1..n] :
        /\ \A j, k \in 1..Len(w) : j < k => m[j] < m[k]
        /\ \A k \in 1..Len(w) : w[k] = s[m[k]] /\ s[m[k]] \notin S
        /\ \A i \in 1..n : s[i] \notin S => \E k \in 1..Len(w) : m[k] = i}

(* What Without leaves is embedded in the sequence it was given. *)
LEMMA WithoutEmbeds ==
  ASSUME NEW T, NEW s \in Seq(T), NEW S
  PROVE  Without(s, S) \in Seq(T) /\ Embeddings(Without(s, S), s, S, Len(s)) # {}
<1>1. PICK left \in [0..Len(s) -> Seq(T)] :
         /\ left[0] = <<>>
         /\ \A n \in 1..Len(s) : left[n] = IF s[n] \in S THEN left[n - 1] ELSE Append(left[n - 1], s[n])
         /\ Without(s, S) = left[Len(s)]
  <2>1. Unfoldings(s, S, T) # {}
    BY WithoutUnfolds
  <2> QED
    BY <2>1 DEF Unfoldings
<1>2. Len(s) \in Nat
  OBVIOUS
<1> DEFINE Good == {n \in 0..Len(s) : Embeddings(left[n], s, S, n) # {}}
<1>3. 0 \in Good
  <2>1. [k \in 1..0 |-> 1] \in Embeddings(<<>>, s, S, 0)
    BY DEF Embeddings
  <2> QED
    BY <1>1, <1>2, <2>1
<1>4. ASSUME NEW n \in 0..(Len(s) - 1), n \in Good PROVE n + 1 \in Good
  <2> DEFINE w == left[n]
             v == left[n + 1]
  <2>1. PICK m : m \in Embeddings(w, s, S, n)
    BY <1>4
  <2>2. n + 1 \in 1..Len(s) /\ n \in 0..Len(s) /\ n + 1 \in 0..Len(s) /\ (n + 1) - 1 = n /\ n \in Nat
    BY <1>2
  <2>3. v = IF s[n + 1] \in S THEN w ELSE Append(w, s[n + 1])
    BY <1>1, <2>2
  <2>4. w \in Seq(T) /\ Len(w) \in Nat /\ s[n + 1] \in T
    BY <1>1, <2>2
  <2> HIDE DEF w, v
  <2>5. CASE s[n + 1] \in S
    <3>1. v = w
      BY <2>3, <2>5
    <3>2. m \in [1..Len(w) -> 1..(n + 1)]
      BY <2>1, <2>2, <2>4 DEF Embeddings
    <3>3. m \in Embeddings(w, s, S, n + 1)
      BY <2>1, <2>2, <2>4, <2>5, <3>2 DEF Embeddings
    <3> QED
      BY <2>2, <3>1, <3>3 DEF v
  <2>6. CASE s[n + 1] \notin S
    <3> DEFINE h == [k \in 1..(Len(w) + 1) |-> IF k = Len(w) + 1 THEN n + 1 ELSE m[k]]
    <3>1. v = Append(w, s[n + 1]) /\ Len(v) = Len(w) + 1 /\ v[Len(w) + 1] = s[n + 1]
          /\ \A k \in 1..Len(w) : v[k] = w[k]
      BY <2>3, <2>4, <2>6
    <3>2. m \in [1..Len(w) -> 1..n]
      BY <2>1 DEF Embeddings
    <3>3. h \in [1..(Len(w) + 1) -> 1..(n + 1)]
      BY <2>2, <2>4, <3>2
    <3>4. h[Len(w) + 1] = n + 1
      BY <2>4
    <3>9. ASSUME NEW k \in 1..Len(w) PROVE h[k] = m[k] /\ m[k] \in 1..n /\ m[k] < n + 1
      <4>1. k \in 1..(Len(w) + 1) /\ k # Len(w) + 1
        BY <2>4
      <4>2. m[k] \in 1..n
        BY <3>2
      <4> QED
        BY <2>2, <4>1, <4>2
    <3> HIDE DEF h
    <3>5. ASSUME NEW j \in 1..Len(v), NEW k \in 1..Len(v), j < k PROVE h[j] < h[k]
      <4>1. j \in 1..Len(w)
        BY <2>4, <3>1, <3>5
      <4>2. CASE k = Len(w) + 1
        BY <3>4, <3>9, <4>1, <4>2
      <4>3. CASE k # Len(w) + 1
        <5>1. k \in 1..Len(w)
          BY <2>4, <3>1, <4>3
        <5> QED
          BY <2>1, <3>5, <3>9, <4>1, <5>1 DEF Embeddings
      <4> QED
        BY <4>2, <4>3
    <3>6. \A k \in 1..Len(v) : v[k] = s[h[k]] /\ s[h[k]] \notin S
      <4> TAKE k \in 1..Len(v)
      <4>1. CASE k = Len(w) + 1
        BY <2>6, <3>1, <3>4, <4>1
      <4>2. CASE k # Len(w) + 1
        <5>1. k \in 1..Len(w)
          BY <2>4, <3>1, <4>2
        <5> QED
          BY <2>1, <3>1, <3>9, <5>1 DEF Embeddings
      <4> QED
        BY <4>1, <4>2
    <3>7. ASSUME NEW i \in 1..(n + 1), s[i] \notin S PROVE \E k \in 1..Len(v) : h[k] = i
      <4>1. CASE i = n + 1
        BY <2>4, <3>1, <3>4, <4>1
      <4>2. CASE i # n + 1
        <5>1. i \in 1..n
          BY <2>2, <4>2
        <5>2. PICK k \in 1..Len(w) : m[k] = i
          BY <2>1, <3>7, <5>1 DEF Embeddings
        <5>3. k \in 1..Len(v) /\ h[k] = i
          BY <2>4, <3>1, <3>9, <5>2
        <5> QED
          BY <5>3
      <4> QED
        BY <4>1, <4>2
    <3>8. h \in Embeddings(v, s, S, n + 1)
      BY <3>1, <3>3, <3>5, <3>6, <3>7 DEF Embeddings
    <3> QED
      BY <2>2, <3>8 DEF v
  <2> QED
    BY <2>5, <2>6
<1> HIDE DEF Good
<1>5. Len(s) \in Good
  <2>1. \A k \in 0..(Len(s) - 1) : k \in Good => k + 1 \in Good
    BY <1>4
  <2>2. \A k \in 0..Len(s) : k \in Good
    BY <1>2, <1>3, <2>1, Induction
  <2> QED
    BY <1>2, <2>2
<1> QED
  BY <1>1, <1>2, <1>5 DEF Good

(* Without leaves the elements that are not to go, and none twice that was there once. *)
LEMMA WithoutLeaves ==
  ASSUME NEW T, NEW s \in Seq(T), NEW S
  PROVE  /\ Without(s, S) \in Seq(T)
         /\ Range(Without(s, S)) = Range(s) \ S
         /\ (\A i, j \in 1..Len(s) : i # j => s[i] # s[j]) =>
               \A i, j \in 1..Len(Without(s, S)) : i # j => Without(s, S)[i] # Without(s, S)[j]
<1> DEFINE w == Without(s, S)
<1>1. w \in Seq(T)
  BY WithoutEmbeds
<1>2. PICK m : m \in Embeddings(w, s, S, Len(s))
  BY WithoutEmbeds
<1> HIDE DEF w
<1>3. Len(s) \in Nat /\ Len(w) \in Nat /\ DOMAIN s = 1..Len(s) /\ DOMAIN w = 1..Len(w)
  BY <1>1
<1>4. \A k \in 1..Len(w) : m[k] \in 1..Len(s) /\ w[k] = s[m[k]] /\ w[k] \notin S
  BY <1>2 DEF Embeddings
<1>5. Range(w) \subseteq Range(s) \ S
  BY <1>3, <1>4 DEF Range
<1>6. ASSUME NEW x \in Range(s) \ S PROVE x \in Range(w)
  <2>1. PICK i \in 1..Len(s) : s[i] = x
    BY <1>3 DEF Range
  <2>2. PICK k \in 1..Len(w) : m[k] = i
    BY <1>2, <1>6, <2>1 DEF Embeddings
  <2> QED
    BY <1>3, <1>4, <2>1, <2>2 DEF Range
<1>7. ASSUME \A i, j \in 1..Len(s) : i # j => s[i] # s[j], NEW i \in 1..Len(w), NEW j \in 1..Len(w), i # j
      PROVE  w[i] # w[j]
  <2>1. m[i] # m[j]
    <3>1. m[i] \in 1..Len(s) /\ m[j] \in 1..Len(s)
      BY <1>4
    <3>2. i < j \/ j < i
      BY <1>3, <1>7
    <3> QED
      BY <1>2, <1>3, <3>1, <3>2 DEF Embeddings
  <2> QED
    BY <1>4, <1>7, <2>1
<1> QED
  BY <1>1, <1>5, <1>6, <1>7 DEF w

-----------------------------------------------------------------------------
(* The budget *)

\* The book a run may have: its calls are its searches, within the budget.
IsBook(b) ==
    /\ b = [sigs |-> b.sigs, calls |-> b.calls]
    /\ IsFiniteSet(b.sigs) /\ Cardinality(b.sigs) = b.calls /\ b.calls <= ask.world.budget

(* The module that is instantiated filters as this one does. *)
LEMMA SameFilter == \A s, S : R!Without(s, S) = Without(s, S)
BY DEF Without, R!Without

(* A list without repetition has as many elements as places. *)
LEMMA DistinctCardinality ==
  ASSUME NEW T, NEW s \in Seq(T), \A i, j \in 1..Len(s) : i # j => s[i] # s[j]
  PROVE  IsFiniteSet(Range(s)) /\ Cardinality(Range(s)) = Len(s)
<1>1. Len(s) \in Nat /\ DOMAIN s = 1..Len(s)
  OBVIOUS
<1>2. s \in Bijection(1..Len(s), Range(s))
  <2>1. s \in [1..Len(s) -> Range(s)]
    BY <1>1 DEF Range
  <2>2. \A t \in Range(s) : \E i \in 1..Len(s) : s[i] = t
    BY <1>1 DEF Range
  <2> QED
    BY <2>1, <2>2 DEF Bijection, Injection, Surjection, IsInjective
<1>3. ExistsBijection(1..Len(s), Range(s))
  BY <1>2 DEF ExistsBijection
<1>4. IsFiniteSet(1..Len(s)) /\ Cardinality(1..Len(s)) = Len(s)
  BY <1>1, FS_Interval
<1> QED
  BY <1>3, <1>4, FS_Bijection

(* Reservations keep the book: what is allowed is new, within the budget, and reserved. *)
LEMMA ReserveKeeps ==
  ASSUME ask.world.budget \in Nat, NEW b, IsBook(b),
         NEW T, NEW sigs \in Seq(T), \A i, j \in 1..Len(sigs) : i # j => sigs[i] # sigs[j]
  PROVE  /\ IsBook(R!Reserve(b, sigs).book)
         /\ b.sigs \subseteq R!Reserve(b, sigs).book.sigs
         /\ Range(R!Reserve(b, sigs).allowed) \subseteq R!Reserve(b, sigs).book.sigs
         /\ R!Reserve(b, sigs).allowed \in Seq(T)
<1> DEFINE w == Without(sigs, b.sigs)
           room == IF b.calls < ask.world.budget THEN ask.world.budget - b.calls ELSE 0
           n == IF Len(w) < room THEN Len(w) ELSE room
           a == SubSeq(w, 1, n)
           c == [sigs |-> b.sigs \cup Range(a), calls |-> b.calls + Len(a)]
<1>1. R!Reserve(b, sigs) = [allowed |-> a, book |-> c]
  BY SameFilter DEF R!Reserve, R!Firsts, R!Range, Range
<1>2. w \in Seq(T) /\ Range(w) = Range(sigs) \ b.sigs /\ \A i, j \in 1..Len(w) : i # j => w[i] # w[j]
  BY WithoutLeaves
<1> HIDE DEF w
<1>3. b.calls \in Nat
  BY FS_CardinalityType DEF IsBook
<1>4. room \in Nat /\ b.calls + room <= ask.world.budget
  BY <1>3 DEF IsBook
<1> HIDE DEF room
<1>5. n \in Nat /\ n <= Len(w) /\ n <= room
  BY <1>2, <1>4
<1> HIDE DEF n
<1>6. a \in Seq(T) /\ Len(a) = n /\ \A i \in 1..n : a[i] = w[i]
  BY <1>2, <1>5
<1> HIDE DEF a
<1>7. \A i, j \in 1..Len(a) : i # j => a[i] # a[j]
  BY <1>2, <1>5, <1>6
<1>8. Range(a) \subseteq Range(w)
  BY <1>2, <1>5, <1>6 DEF Range
<1>9. IsFiniteSet(Range(a)) /\ Cardinality(Range(a)) = n
  BY <1>6, <1>7, DistinctCardinality
<1>10. b.sigs \cap Range(a) = {}
  BY <1>2, <1>8
<1>11. IsFiniteSet(b.sigs \cup Range(a)) /\ Cardinality(b.sigs \cup Range(a)) = b.calls + n
  <2>1. Cardinality(b.sigs \cap Range(a)) = 0
    BY <1>10, FS_EmptySet
  <2>2. /\ IsFiniteSet(b.sigs \cup Range(a))
        /\ Cardinality(b.sigs \cup Range(a)) = Cardinality(b.sigs) + Cardinality(Range(a)) - Cardinality(b.sigs \cap Range(a))
    BY <1>9, FS_Union DEF IsBook
  <2> QED
    BY <1>3, <1>5, <1>9, <2>1, <2>2 DEF IsBook
<1>12. IsBook(c)
  BY <1>3, <1>4, <1>5, <1>6, <1>11 DEF IsBook
<1> QED
  BY <1>1, <1>6, <1>12

-----------------------------------------------------------------------------
(* What a step of a run does to its evidence *)

Searches(d, q) ==
    \/ R!Collect(d, q, route.task, ask.message.lookup)
    \/ \E source \in {"code", "product_document", "knowledge"} : R!SearchScoped(d, source, q)
    \/ R!InspectDomain(d, q)
Evidences ==
    \/ \E d \in Collectors, q \in Queries : Searches(d, q)
    \/ R!Progress
    \/ \E app, confirmed : R!Prepare(app, confirmed)
    \/ R!QueryMetric(Figures)
    \/ \E tools \in Discoveries, found \in BOOLEAN : R!Discover(tools, found)
    \/ Diagnosed
    \/ UNCHANGED retrievalVars

(* The question stays, and its evidence changes by a call of a tool, by the searches of one, or by the diagnosis. *)
LEMMA StepsOfEvidence == [Next]_vars => Evidences /\ UNCHANGED <<ask, route>>
<1> SUFFICES ASSUME [Next]_vars PROVE Evidences /\ UNCHANGED <<ask, route>>
  OBVIOUS
<1>1. CASE Guard
  BY <1>1 DEF Guard, Evidences
<1>2. CASE Start
  BY <1>2 DEF Start, Evidences
<1>3. CASE Write
  BY <1>3 DEF Write, Evidences
<1>4. CASE Retrieve
  BY <1>4 DEF Retrieve, Evidences, Searches
<1>5. CASE Progress
  BY <1>5 DEF Progress, Evidences
<1>6. CASE Reuse
  BY <1>6 DEF Reuse, Evidences
<1>7. CASE AskMetric
  BY <1>7 DEF AskMetric, Evidences
<1>8. CASE Diagnose
  BY <1>8 DEF Diagnose, Evidences
<1>9. CASE Return
  BY <1>9 DEF Return, Evidences
<1>10. CASE \E s \in Specialists : Delegate(s)
  BY <1>10 DEF Delegate, Evidences
<1>11. CASE \E kind \in {"end", "raised"} : Finish(kind)
  BY <1>11 DEF Finish, Evidences
<1>12. CASE Read
  BY <1>12 DEF Read, Evidences
<1>13. CASE Respond
  BY <1>13 DEF Respond, Evidences
<1>14. CASE Synthesize
  BY <1>14 DEF Synthesize, Evidences
<1>15. CASE ProWrite
  BY <1>15 DEF ProWrite, Evidences
<1>16. CASE ProEnd
  BY <1>16 DEF ProEnd, Evidences
<1>17. CASE Break
  BY <1>17 DEF Break, Evidences
<1>18. CASE DiagnosisWrite
  BY <1>18 DEF DiagnosisWrite, Evidences
<1>19. CASE DiagnosisEnd
  BY <1>19 DEF DiagnosisEnd, Evidences
<1>20. CASE Done
  BY <1>20 DEF Done, vars, Evidences
<1>21. CASE UNCHANGED vars
  BY <1>21 DEF vars, Evidences
<1> QED
  BY <1>1, <1>2, <1>3, <1>4, <1>5, <1>6, <1>7, <1>8, <1>9, <1>10, <1>11, <1>12, <1>13, <1>14, <1>15, <1>16,
     <1>17, <1>18, <1>19, <1>20, <1>21 DEF Next

-----------------------------------------------------------------------------

\* WithinBudget, with the book's being finite.
BookKept ==
    /\ ask \in Questions
    /\ IsBook(book)
    /\ searched \subseteq book.sigs

(* One search is reserved, or was before. *)
LEMMA OneReserved ==
  ASSUME BookKept, NEW sig
  PROVE  /\ IsBook(R!Reserve(book, <<sig>>).book)
         /\ book.sigs \subseteq R!Reserve(book, <<sig>>).book.sigs
         /\ R!Allows(book, sig) => sig \in R!Reserve(book, <<sig>>).book.sigs
<1>1. <<sig>> \in Seq({sig}) /\ \A i, j \in 1..Len(<<sig>>) : i # j => <<sig>>[i] # <<sig>>[j]
  OBVIOUS
<1>2. ask.world.budget \in Nat
  BY QuestionsAssumption DEF BookKept
<1> DEFINE r == R!Reserve(book, <<sig>>)
<1>3. IsBook(r.book) /\ book.sigs \subseteq r.book.sigs /\ Range(r.allowed) \subseteq r.book.sigs /\ r.allowed \in Seq({sig})
  BY <1>1, <1>2, ReserveKeeps DEF BookKept
<1>4. R!Allows(book, sig) <=> r.allowed # <<>>
  BY DEF R!Allows
<1> HIDE DEF r
<1>5. ASSUME r.allowed # <<>> PROVE sig \in r.book.sigs
  <2>1. 1 \in DOMAIN r.allowed /\ r.allowed[1] = sig
    BY <1>3, <1>5
  <2> QED
    BY <1>3, <2>1 DEF Range
<1> QED
  BY <1>3, <1>4, <1>5 DEF r

(* The sources of a task are asked once each. *)
LEMMA PlanDistinct ==
  ASSUME NEW task, NEW interfaces
  PROVE  /\ R!Plan(task, interfaces) \in Seq({"code", "product_document", "swagger"})
         /\ LET plan == R!Plan(task, interfaces) IN \A i, j \in 1..Len(plan) : i # j => plan[i] # plan[j]
<1> DEFINE Good(p) == p \in Seq({"code", "product_document", "swagger"}) /\ \A i, j \in 1..Len(p) : i # j => p[i] # p[j]
<1>1. Good(<<"code", "swagger">>) /\ Good(<<"code">>) /\ Good(<<"product_document">>)
  OBVIOUS
<1>2. Good(<<"product_document", "code", "swagger">>) /\ Good(<<"product_document", "code">>)
  OBVIOUS
<1> HIDE DEF Good
<1>3. Good(R!Plan(task, interfaces))
  BY <1>1, <1>2 DEF R!Plan
<1> QED
  BY <1>3 DEF Good

(* Whatever a call of a tool or a search does, the book is kept. *)
LEMMA CollectKeepsBook ==
  ASSUME BookKept, ask' = ask, NEW d, NEW q, NEW task, NEW interfaces, R!Collect(d, q, task, interfaces)
  PROVE  BookKept'
<1> DEFINE plan == R!Plan(task, interfaces)
           T == {R!Sig(d, s, q) : s \in {"code", "product_document", "swagger"}}
           sigs == [i \in DOMAIN plan |-> R!Sig(d, plan[i], q)]
           r == R!Reserve(book, sigs)
<1>1. plan \in Seq({"code", "product_document", "swagger"}) /\ \A i, j \in 1..Len(plan) : i # j => plan[i] # plan[j]
  BY PlanDistinct
<1> HIDE DEF plan
<1>2. sigs \in Seq(T) /\ Len(sigs) = Len(plan)
  BY <1>1
<1>3. \A i, j \in 1..Len(sigs) : i # j => sigs[i] # sigs[j]
  BY <1>1, <1>2 DEF R!Sig
<1>4. book' = r.book /\ searched' = searched \cup R!Range(r.allowed)
  BY DEF R!Collect, R!Board, plan
<1>5. ask.world.budget \in Nat
  BY QuestionsAssumption DEF BookKept
<1> HIDE DEF sigs, T
<1>6. IsBook(r.book) /\ book.sigs \subseteq r.book.sigs /\ Range(r.allowed) \subseteq r.book.sigs
  BY <1>2, <1>3, <1>5, ReserveKeeps DEF BookKept
<1> HIDE DEF r
<1>7. searched' \subseteq book'.sigs
  BY <1>4, <1>6 DEF BookKept, Range, R!Range
<1>8. IsBook(book)'
  BY <1>4, <1>6 DEF IsBook
<1> QED
  BY <1>7, <1>8 DEF BookKept

(* One search is booked before it is counted. *)
LEMMA OneKeepsBook ==
  ASSUME BookKept, ask' = ask, NEW sig, book' = R!Reserve(book, <<sig>>).book,
         \/ searched' = searched
         \/ R!Allows(book, sig) /\ searched' = searched \cup {sig}
         \/ R!Allows(book, sig) /\ searched' = searched \cup R!Range(<<sig>>)
         \/ searched' = searched \cup R!Range(R!Reserve(book, <<sig>>).allowed)
  PROVE  BookKept'
<1> DEFINE r == R!Reserve(book, <<sig>>)
<1>1. IsBook(r.book) /\ book.sigs \subseteq r.book.sigs /\ (R!Allows(book, sig) => sig \in r.book.sigs)
  BY OneReserved
<1>2. Range(r.allowed) \subseteq r.book.sigs
  <2>1. <<sig>> \in Seq({sig}) /\ \A i, j \in 1..Len(<<sig>>) : i # j => <<sig>>[i] # <<sig>>[j]
    OBVIOUS
  <2>2. ask.world.budget \in Nat
    BY QuestionsAssumption DEF BookKept
  <2> QED
    BY <2>1, <2>2, ReserveKeeps DEF BookKept
<1>3. R!Range(<<sig>>) = {sig}
  BY DEF R!Range
<1>4. R!Range(r.allowed) = Range(r.allowed)
  BY DEF R!Range, Range
<1> HIDE DEF r
<1>5. book' = r.book
  BY DEF r
<1>6. searched' \subseteq book'.sigs
  <2>1. searched \subseteq r.book.sigs
    BY <1>1 DEF BookKept
  <2> QED
    BY <1>1, <1>2, <1>3, <1>4, <1>5, <2>1 DEF r
<1>7. IsBook(book)'
  BY <1>1, <1>5 DEF IsBook
<1> QED
  BY <1>6, <1>7 DEF BookKept

(* Whatever a tool searches for is booked first, within what is left of the budget. *)
LEMMA SearchesKeepBook ==
  ASSUME BookKept, ask' = ask, NEW d, NEW q, Searches(d, q)
  PROVE  BookKept'
<1>1. CASE R!Collect(d, q, route.task, ask.message.lookup)
  BY <1>1, CollectKeepsBook
<1>2. ASSUME NEW source \in {"code", "product_document", "knowledge"}, R!SearchScoped(d, source, q)
      PROVE  BookKept'
  <2> DEFINE sig == R!Sig(d, source, q)
  <2>1. book' = R!Reserve(book, <<sig>>).book /\ R!Allows(book, sig) /\ searched' = searched \cup R!Range(<<sig>>)
    BY <1>2 DEF R!SearchScoped, R!Board
  <2> HIDE DEF sig
  <2> QED
    BY <2>1, OneKeepsBook
<1>3. CASE R!InspectDomain(d, q)
  BY <1>3 DEF R!InspectDomain, R!bookVars, R!ghosts, BookKept, IsBook
<1> QED
  BY <1>1, <1>2, <1>3 DEF Searches

(* A search that goes on keeps to the reservation it has; a scoped one that looks
   up types asks for one of its own. *)
LEMMA ProgressKeepsBook == BookKept /\ ask' = ask /\ R!Progress => BookKept'
<1> SUFFICES ASSUME BookKept, ask' = ask, R!Progress PROVE BookKept'
  OBVIOUS
<1>1. ASSUME book' = book, searched' = searched PROVE BookKept'
  BY <1>1 DEF BookKept, IsBook
<1>2. ASSUME NEW f \in flights, R!AskVector(f) \/ R!LookUp(f) \/ R!Inspect(f) \/ R!CutOff(f) PROVE BookKept'
  BY <1>1, <1>2 DEF R!AskVector, R!LookUp, R!Inspect, R!CutOff, R!bookVars, R!ghosts
<1>3. ASSUME NEW f \in flights, R!Find(f) PROVE BookKept'
  <2> DEFINE types == R!Sig(f.sig[1], f.source, "types")
  <2>1. \/ book' = book /\ searched' = searched
        \/ book' = R!Reserve(book, <<types>>).book /\ R!Allows(book, types) /\ searched' = searched \cup {types}
        \/ book' = R!Reserve(book, <<types>>).book /\ searched' = searched
    BY <1>3 DEF R!Find, R!Found
  <2> HIDE DEF types
  <2> QED
    BY <1>1, <2>1, OneKeepsBook
<1>4. ASSUME NEW f \in flights, R!Supplement(f) PROVE BookKept'
  <2> DEFINE fields == R!Sig(f.sig[1], f.source, "fields")
  <2>1. /\ book' = R!Reserve(book, <<fields>>).book
        /\ (R!Allows(book, fields) /\ searched' = searched \cup {fields}) \/ searched' = searched
    BY <1>4 DEF R!Supplement
  <2> HIDE DEF fields
  <2> QED
    BY <2>1, OneKeepsBook
<1>5. CASE R!FallBack
  <2> DEFINE sig == R!Sig(tool.d, "product_document", tool.q)
  <2>1. book' = R!Reserve(book, <<sig>>).book /\ searched' = searched \cup R!Range(R!Reserve(book, <<sig>>).allowed)
    BY <1>5 DEF R!FallBack, R!Board
  <2> HIDE DEF sig
  <2> QED
    BY <2>1, OneKeepsBook
<1>6. CASE R!Deliver \/ \E p \in R!Providers : R!Cool(p)
  BY <1>1, <1>6 DEF R!Deliver, R!Cool, R!bookVars, R!ghosts
<1> QED
  BY <1>2, <1>3, <1>4, <1>5, <1>6 DEF R!Progress

(* The book is kept in every run. *)
LEMMA BookIsKept == Spec => []BookKept
<1>1. Init => BookKept
  <2> SUFFICES ASSUME Init PROVE BookKept
    OBVIOUS
  <2>1. ask \in Questions /\ book = [sigs |-> {}, calls |-> 0] /\ searched = {}
    BY DEF Init, R!Init
  <2>2. ask.world.budget \in Nat
    BY <2>1, QuestionsAssumption
  <2> QED
    BY <2>1, <2>2, FS_EmptySet DEF BookKept, IsBook
<1>2. BookKept /\ [Next]_vars => BookKept'
  <2> SUFFICES ASSUME BookKept, [Next]_vars PROVE BookKept'
    OBVIOUS
  <2>1. Evidences /\ ask' = ask
    BY StepsOfEvidence
  <2>2. ASSUME book' = book, searched' = searched PROVE BookKept'
    BY <2>1, <2>2 DEF BookKept, IsBook
  <2>3. ASSUME NEW d \in Collectors, NEW q \in Queries, Searches(d, q) PROVE BookKept'
    BY <2>1, <2>3, SearchesKeepBook
  <2>4. CASE R!Progress
    BY <2>1, <2>4, ProgressKeepsBook
  <2>5. ASSUME NEW app, NEW confirmed, R!Prepare(app, confirmed) PROVE BookKept'
    BY <2>2, <2>5 DEF R!Prepare, R!bookVars, R!ghosts
  <2>6. CASE R!QueryMetric(Figures)
    BY <2>2, <2>6 DEF R!QueryMetric, R!bookVars
  <2>7. CASE Diagnosed \/ UNCHANGED retrievalVars
    BY <2>2, <2>7 DEF Diagnosed, retrievalVars
  <2>8. ASSUME NEW tools, NEW found, R!Discover(tools, found) PROVE BookKept'
    BY <2>2, <2>8 DEF R!Discover, R!bookVars
  <2> QED
    BY <2>1, <2>3, <2>4, <2>5, <2>6, <2>7, <2>8 DEF Evidences
<1> QED
  BY <1>1, <1>2, PTL DEF Spec

(* For any questions, worlds and budgets: a run makes at most as many searches as its budget allows, none twice and   *)
(* each on a reservation, however its agents ask.                                                                     *)
THEOREM BudgetIsKept == Spec => []WithinBudget
<1>1. BookKept => WithinBudget
  BY DEF BookKept, IsBook, WithinBudget
<1> QED
  BY <1>1, BookIsKept, PTL

-----------------------------------------------------------------------------
(* Lists *)

\* A sequence, of whatever its elements are.
IsList(s) == s \in Seq(Range(s))

(* A sequence of the language is one. *)
LEMMA SequencesAreLists ==
  ASSUME NEW T, NEW s \in Seq(T)
  PROVE  IsList(s) /\ Range(s) \subseteq T
BY DEF IsList, Range

(* So is the empty one, which has no elements, *)
LEMMA EmptyIsList == IsList(<<>>) /\ Range(<<>>) = {}
BY DEF IsList, Range

(* and the one with a single element. *)
LEMMA OneIsList ==
  ASSUME NEW x
  PROVE  IsList(<<x>>) /\ Range(<<x>>) = {x}
<1>1. <<x>> \in Seq({x})
  OBVIOUS
<1> QED
  BY <1>1 DEF IsList, Range

(* A function on the first numbers is a list; it is empty if there is no number. *)
LEMMA FunctionsAreLists ==
  ASSUME NEW n \in Nat, NEW f, f = [i \in 1..n |-> f[i]]
  PROVE  IsList(f) /\ Len(f) = n /\ (f = <<>> <=> n = 0)
<1>1. DOMAIN f = 1..n
  OBVIOUS
<1>2. f \in [1..n -> Range(f)]
  BY <1>1 DEF Range
<1>3. f \in Seq(Range(f)) /\ Len(f) = n
  BY <1>1, <1>2
<1> QED
  BY <1>3 DEF IsList

(* Two lists one after the other are a list of both's elements. *)
LEMMA ConcatenationsAreLists ==
  ASSUME NEW s, NEW t, IsList(s), IsList(t)
  PROVE  /\ IsList(s \o t)
         /\ Range(s \o t) = Range(s) \cup Range(t)
         /\ s \o t = <<>> <=> s = <<>> /\ t = <<>>
<1> DEFINE U == Range(s) \cup Range(t)
<1>1. s \in Seq(U) /\ t \in Seq(U)
  BY DEF IsList
<1>2. s \o t \in Seq(U) /\ Len(s \o t) = Len(s) + Len(t)
  BY <1>1
<1>3. Len(s) \in Nat /\ Len(t) \in Nat /\ DOMAIN s = 1..Len(s) /\ DOMAIN t = 1..Len(t)
      /\ DOMAIN (s \o t) = 1..(Len(s) + Len(t))
  BY <1>1, <1>2
<1>4. \A i \in 1..Len(s) : (s \o t)[i] = s[i]
  BY <1>1, <1>3
<1>5. \A i \in 1..Len(t) : Len(s) + i \in 1..(Len(s) + Len(t)) /\ (s \o t)[Len(s) + i] = t[i]
  BY <1>1, <1>3
<1>6. Range(s \o t) \subseteq U
  BY <1>2, SequencesAreLists
<1>7. Range(s) \subseteq Range(s \o t)
  BY <1>3, <1>4 DEF Range
<1>8. Range(t) \subseteq Range(s \o t)
  BY <1>3, <1>5 DEF Range
<1>9. s \o t = <<>> <=> s = <<>> /\ t = <<>>
  BY <1>1, <1>2, <1>3
<1> QED
  BY <1>2, <1>6, <1>7, <1>8, <1>9, SequencesAreLists

(* What is left of a list without some elements is a list of the others. *)
LEMMA FilteredAreLists ==
  ASSUME NEW s, NEW S, IsList(s)
  PROVE  IsList(Without(s, S)) /\ Range(Without(s, S)) = Range(s) \ S
BY WithoutLeaves, SequencesAreLists DEF IsList

(* Only the empty list has no elements. *)
LEMMA EmptyRange ==
  ASSUME NEW s, IsList(s)
  PROVE  s = <<>> <=> Range(s) = {}
<1>1. Len(s) \in Nat /\ DOMAIN s = 1..Len(s) /\ (s = <<>> <=> Len(s) = 0)
  BY DEF IsList
<1>2. ASSUME Len(s) # 0 PROVE Range(s) # {}
  <2>1. 1 \in DOMAIN s
    BY <1>1, <1>2
  <2> QED
    BY <2>1 DEF Range
<1> QED
  BY <1>1, <1>2, EmptyIsList

(* The first k of a list are a list, and there are some if k is not zero. *)
LEMMA FirstsAreLists ==
  ASSUME NEW s, IsList(s), NEW k \in Nat
  PROVE  IsList(Firsts(s, k)) /\ (k # 0 /\ s # <<>> => Firsts(s, k) # <<>>)
<1>1. Len(s) \in Nat /\ (s = <<>> <=> Len(s) = 0)
  BY DEF IsList
<1> DEFINE n == IF Len(s) < k THEN Len(s) ELSE k
<1>2. n \in Nat /\ n <= Len(s) /\ (k # 0 /\ s # <<>> => n # 0)
  BY <1>1
<1> HIDE DEF n
<1>3. SubSeq(s, 1, n) \in Seq(Range(s)) /\ Len(SubSeq(s, 1, n)) = n
  BY <1>1, <1>2 DEF IsList
<1>4. Firsts(s, k) = SubSeq(s, 1, n)
  BY DEF Firsts, n
<1>5. ASSUME n # 0 PROVE SubSeq(s, 1, n) # <<>>
  <2>1. Len(<<>>) = 0
    OBVIOUS
  <2> QED
    BY <1>3, <1>5, <2>1
<1>6. IsList(SubSeq(s, 1, n))
  BY <1>3, SequencesAreLists
<1> QED
  BY <1>2, <1>4, <1>5, <1>6

-----------------------------------------------------------------------------
(* What is found and cited *)

(* The module that is instantiated ranks as this one does. *)
LEMMA SameRange == \A s : R!Range(s) = Range(s)
BY DEF Range, R!Range

(* Retrieval's own copy of the operator is the same one. *)
LEMMA SameFirsts == \A s, k : R!Firsts(s, k) = Firsts(s, k)
BY DEF Firsts, R!Firsts

(* The merged list has as many places as the keyword route's and what the other adds. *)
LEMMA MergedIsList ==
  ASSUME NEW kw, NEW vec, IsList(kw), IsList(vec)
  PROVE  IsList(R!Merged(kw, vec)) /\ (R!Merged(kw, vec) = <<>> <=> kw = <<>> /\ vec = <<>>)
<1> DEFINE found == kw \o Without(vec, Range(kw))
           m == R!Merged(kw, vec)
<1>1. IsList(Without(vec, Range(kw))) /\ Range(Without(vec, Range(kw))) = Range(vec) \ Range(kw)
  BY FilteredAreLists
<1>2. IsList(found) /\ (found = <<>> <=> kw = <<>> /\ Without(vec, Range(kw)) = <<>>)
  BY <1>1, ConcatenationsAreLists
<1>3. found = <<>> <=> kw = <<>> /\ vec = <<>>
  <2>1. ASSUME kw = <<>> PROVE Without(vec, Range(kw)) = <<>> <=> vec = <<>>
    BY <1>1, <2>1, EmptyIsList, EmptyRange
  <2> QED
    BY <1>2, <2>1
<1>4. found = kw \o R!Without(vec, R!Range(kw))
  BY SameFilter, SameRange
<1>5. DOMAIN m = DOMAIN found /\ m = [k \in DOMAIN found |-> m[k]]
  <2>1. PICK new : new = R!Without(vec, R!Range(kw))
    OBVIOUS
  <2>2. m = R!Ordered(kw \o new, LAMBDA c, e : R!Fusion(kw, vec, c) > R!Fusion(kw, vec, e))
    BY <2>1, Zenon DEF R!Merged
  <2>3. m = [k \in DOMAIN m |-> m[k]]
    BY <2>2 DEF R!Ordered
  <2>4. DOMAIN m = DOMAIN (kw \o new)
    BY <2>2, Zenon DEF R!Ordered
  <2> QED
    BY <1>4, <2>1, <2>3, <2>4
<1> HIDE DEF m, found
<1>6. Len(found) \in Nat /\ DOMAIN found = 1..Len(found) /\ (found = <<>> <=> Len(found) = 0)
  BY <1>2 DEF IsList
<1>7. IsList(m) /\ (m = <<>> <=> Len(found) = 0)
  BY <1>5, <1>6, FunctionsAreLists
<1> QED
  BY <1>3, <1>6, <1>7 DEF m

(* What the reranker names of the candidates is a list, and so is the fused order, which has something if they do. *)
LEMMA RankIsList ==
  ASSUME NEW kw, NEW vec, NEW returned, IsList(kw), IsList(vec), IsList(returned)
  PROVE  /\ IsList(R!Rank(kw, vec, returned, TopK))
         /\ R!Rank(kw, vec, returned, TopK) = <<>> => kw = <<>> /\ vec = <<>>
<1> DEFINE by == R!RankedBy(kw, vec, returned, TopK)
           fused == R!Fused(kw, vec, TopK)
           first == Firsts(R!Merged(kw, vec), TopK)
           valid == Without(Firsts(returned, TopK), {r \in Range(returned) : r.index \notin DOMAIN R!Merged(kw, vec)})
<1>1. TopK \in Nat /\ TopK # 0
  BY TopKAssumption
<1>2. IsList(first) /\ (first = <<>> => kw = <<>> /\ vec = <<>>)
  BY <1>1, MergedIsList, FirstsAreLists
<1>3. IsList(fused) /\ (fused = <<>> => first = <<>>)
  <2>1. DOMAIN fused = DOMAIN first /\ fused = [k \in DOMAIN first |-> fused[k]]
    BY SameFirsts, Zenon DEF R!Fused
  <2> HIDE DEF fused, first
  <2>2. Len(first) \in Nat /\ DOMAIN first = 1..Len(first) /\ (first = <<>> <=> Len(first) = 0)
    BY <1>2 DEF IsList
  <2> QED
    BY <2>1, <2>2, FunctionsAreLists
<1>4. IsList(valid)
  BY <1>1, FirstsAreLists, FilteredAreLists
<1>5. IsList(by)
  <2>1. valid = R!Without(R!Firsts(returned, TopK), {r \in R!Range(returned) : r.index \notin DOMAIN R!Merged(kw, vec)})
    BY SameFirsts, SameRange, SameFilter
  <2>2. DOMAIN by = DOMAIN valid /\ by = [k \in DOMAIN valid |-> by[k]]
    BY <2>1, Zenon DEF R!RankedBy
  <2> HIDE DEF by, valid
  <2>3. Len(valid) \in Nat /\ DOMAIN valid = 1..Len(valid)
    BY <1>4 DEF IsList
  <2> QED
    BY <2>2, <2>3, FunctionsAreLists
<1>6. R!Rank(kw, vec, returned, TopK) = IF by # <<>> THEN by ELSE fused
  BY DEF R!Rank
<1> HIDE DEF by, fused, first
<1> QED
  BY <1>2, <1>3, <1>5, <1>6

(* Boosting moves what was found and loses nothing of it. *)
LEMMA BoostedIsList ==
  ASSUME NEW hits, IsList(hits)
  PROVE  IsList(R!Boosted(hits)) /\ (R!Boosted(hits) = <<>> <=> hits = <<>>)
<1> DEFINE b == R!Boosted(hits)
<1>1. DOMAIN b = DOMAIN hits /\ b = [k \in DOMAIN hits |-> b[k]]
  BY DEF R!Boosted, R!Ordered
<1> HIDE DEF b
<1>2. Len(hits) \in Nat /\ DOMAIN hits = 1..Len(hits) /\ (hits = <<>> <=> Len(hits) = 0)
  BY DEF IsList
<1>3. IsList(b) /\ (b = <<>> <=> Len(hits) = 0)
  BY <1>1, <1>2, FunctionsAreLists
<1> QED
  BY <1>2, <1>3 DEF b

(* Citations are added to those there are. *)
LEMMA AddedIsList ==
  ASSUME NEW hits, IsList(hits), IsList(cites)
  PROVE  IsList(R!Added(hits)) /\ Range(R!Added(hits)) = Range(cites) \cup Range(hits)
<1>1. R!Added(hits) = cites \o Without(hits, Range(cites))
  BY SameFilter, SameRange DEF R!Added
<1>2. IsList(Without(hits, Range(cites))) /\ Range(Without(hits, Range(cites))) = Range(hits) \ Range(cites)
  BY FilteredAreLists
<1>3. IsList(cites \o Without(hits, Range(cites)))
      /\ Range(cites \o Without(hits, Range(cites))) = Range(cites) \cup Range(Without(hits, Range(cites)))
  BY <1>2, ConcatenationsAreLists
<1> QED
  BY <1>1, <1>2, <1>3

-----------------------------------------------------------------------------
(* The evidence *)

Logged == {R!Operation(l) : l \in Logs \cup Discoveries}

\* A search with all its fields.
Search(sig, source, at, saw, got, left) ==
    [sig |-> sig, source |-> source, at |-> at, saw |-> saw, got |-> got, left |-> left]

(* The fields of a search are changed one by one. *)
LEMMA FieldChanges ==
  ASSUME NEW sig, NEW source, NEW at, NEW saw, NEW got, NEW left, NEW f, f = Search(sig, source, at, saw, got, left),
         NEW x
  PROVE  /\ [f EXCEPT !.at = x] = Search(sig, source, x, saw, got, left)
         /\ [f EXCEPT !.saw = x] = Search(sig, source, at, x, got, left)
         /\ [f EXCEPT !.got = x] = Search(sig, source, at, saw, x, left)
         /\ [f EXCEPT !.left = x] = Search(sig, source, at, saw, got, x)
<1>1. [f EXCEPT !.at = x] = Search(sig, source, x, saw, got, left)
  BY DEF Search
<1>2. [f EXCEPT !.saw = x] = Search(sig, source, at, x, got, left)
  BY DEF Search
<1>3. [f EXCEPT !.got = x] = Search(sig, source, at, saw, x, left)
  BY DEF Search
<1>4. [f EXCEPT !.left = x] = Search(sig, source, at, saw, got, x)
  BY DEF Search
<1> QED
  BY <1>1, <1>2, <1>3, <1>4

(* So are two of them. *)
LEMMA AtAndGotChange ==
  ASSUME NEW f, f = Search(f.sig, f.source, f.at, f.saw, f.got, f.left), NEW x, NEW y
  PROVE  [f EXCEPT !.at = x, !.got = y] = Search(f.sig, f.source, x, f.saw, y, f.left)
<1>1. PICK h : h = [f EXCEPT !.at = x]
  OBVIOUS
<1>2. [f EXCEPT !.at = x, !.got = y] = [h EXCEPT !.got = y]
  BY <1>1 DEF Search
<1>3. h = Search(f.sig, f.source, x, f.saw, f.got, f.left)
  BY <1>1 DEF Search
<1>4. [h EXCEPT !.got = y] = Search(f.sig, f.source, x, f.saw, y, f.left)
  BY <1>3 DEF Search
<1> QED
  BY <1>2, <1>4

(* So are two of them. *)
LEMMA SawAndGotChange ==
  ASSUME NEW f, f = Search(f.sig, f.source, f.at, f.saw, f.got, f.left), NEW x, NEW y
  PROVE  [f EXCEPT !.saw = x, !.got = y] = Search(f.sig, f.source, f.at, x, y, f.left)
<1>1. PICK h : h = [f EXCEPT !.saw = x]
  OBVIOUS
<1>2. [f EXCEPT !.saw = x, !.got = y] = [h EXCEPT !.got = y]
  BY <1>1 DEF Search
<1>3. h = Search(f.sig, f.source, f.at, x, f.got, f.left)
  BY <1>1 DEF Search
<1>4. [h EXCEPT !.got = y] = Search(f.sig, f.source, f.at, x, y, f.left)
  BY <1>3 DEF Search
<1> QED
  BY <1>2, <1>4

(* So are two of them. *)
LEMMA LeftAndGotChange ==
  ASSUME NEW f, f = Search(f.sig, f.source, f.at, f.saw, f.got, f.left), NEW x, NEW y
  PROVE  [f EXCEPT !.left = x, !.got = y] = Search(f.sig, f.source, f.at, f.saw, y, x)
<1>1. PICK h : h = [f EXCEPT !.left = x]
  OBVIOUS
<1>2. [f EXCEPT !.left = x, !.got = y] = [h EXCEPT !.got = y]
  BY <1>1 DEF Search
<1>3. h = Search(f.sig, f.source, f.at, f.saw, f.got, x)
  BY <1>1 DEF Search
<1>4. [h EXCEPT !.got = y] = Search(f.sig, f.source, f.at, f.saw, y, x)
  BY <1>3 DEF Search
<1> QED
  BY <1>2, <1>4

\* What such a search has found is cited: it has come to its end, or is one of a Swagger source.
Settled(f) == f.at = "done" \/ f.source = "swagger"

\* A search has nothing before its routes have answered and when it is cut off, and afterwards something if they did.
FlightKept(f) ==
    /\ f = Search(f.sig, f.source, f.at, f.saw, f.got, f.left)
    /\ f.source \in {"code", "product_document", "swagger", "knowledge"}
    /\ f.at \in {"route", "keyword", "both", "types", "fields", "inspect", "done", "cut"}
    /\ IsList(f.got)
    /\ f.source = "swagger" => /\ f.at \in {"inspect", "done", "cut"}
                               /\ f.saw = {}
                               /\ f.left \in Seq(SUBSET Seq(Chunks))
    /\ f.source # "swagger" => f.at # "inspect"
    /\ f.at \in {"route", "keyword", "both", "cut"} => f.got = <<>>
    /\ f.at \in {"types", "fields", "done"} /\ f.saw # {} => f.got # <<>>
    /\ Settled(f) => Range(f.got) \subseteq Range(cites)

\* A call of a tool that searches is of a domain.
ToolKept ==
    /\ tool = [kind |-> tool.kind, d |-> tool.d, q |-> tool.q, task |-> tool.task, fell |-> tool.fell]
    /\ ~R!Idle => tool.d \in Domains

EvidenceKept ==
    /\ ask \in Questions /\ route = Selected(ask.message, ask.chosen)
    /\ IsList(cites)
    /\ handed \cup cut \subseteq Range(cites)
    /\ \A h \in Range(cites) : h \in handed \cup cut \cup Logged \/ \E f \in flights : Settled(f) /\ h \in Range(f.got)
    /\ R!Idle => flights = {}
    /\ ToolKept
    /\ \A f \in flights : FlightKept(f)

\* Nothing that was cited is dropped.
CitesGrow == Range(cites) \subseteq Range(cites')

(* A manager is of a domain, or the general one. *)
LEMMA ManagersOfDomains ==
  ASSUME NEW m, NEW chosen
  PROVE  Selected(m, chosen).manager \in Domains \cup {General}
<1>1. CASE chosen \in Domains
  BY <1>1 DEF Selected
<1>2. CASE chosen \notin Domains
  <2> DEFINE r == Route(m)
  <2>1. Selected(m, chosen).manager = IF Cardinality(r.domains) = 1 /\ r.domains \subseteq Domains /\ r.sure /\ ~r.vague
                                      THEN r.intent ELSE General
    BY <1>2 DEF Selected
  <2>2. r.domains = {} \/ r.intent = Intent(r.domains) \/ r.intent \in r.domains
    BY DEF Route, ByRules, ByModel, Unknown
  <2>3. ASSUME NEW S, Cardinality(S) = 1 PROVE S # {} /\ Intent(S) \in S
    <3>1. S # {}
      BY <2>3, FS_EmptySet
    <3> QED
      BY <2>3, <3>1 DEF Intent
  <2> HIDE DEF r
  <2> QED
    BY <2>1, <2>2, <2>3
<1> QED
  BY <1>1, <1>2

(* Tools search in domains. *)
LEMMA CollectorsAreDomains == EvidenceKept => Collectors \subseteq Domains
BY ManagersOfDomains DEF EvidenceKept, Collectors

(* A search that starts has nothing. *)
LEMMA FlightsStartEmpty ==
  ASSUME ask \in Questions, NEW d \in Domains, NEW q,
         NEW source \in {"code", "product_document", "swagger", "knowledge"}
  PROVE  LET f == R!Flight(R!Sig(d, source, q)) IN FlightKept(f) /\ f.got = <<>>
<1>1. ask.world.inspect[d] \in Seq(SUBSET Seq(Chunks))
  BY QuestionsAssumption
<1> DEFINE f == R!Flight(R!Sig(d, source, q))
<1>2. f = [sig |-> <<d, source, q>>, source |-> source, at |-> IF source = "swagger" THEN "inspect" ELSE "route",
           saw |-> {}, got |-> <<>>, left |-> IF source = "swagger" THEN ask.world.inspect[d] ELSE <<>>]
  BY DEF R!Flight, R!Sig
<1> HIDE DEF f
<1>3. FlightKept(f) /\ f.got = <<>>
  BY <1>1, <1>2, EmptyIsList DEF FlightKept, Settled, Search
<1> QED
  BY <1>3 DEF f

(* Searches that start cite nothing. *)
LEMMA BoardingKeeps ==
  ASSUME EvidenceKept, UNCHANGED <<ask, route, cites, handed, cut>>, ~R!Idle', ToolKept', NEW new,
         flights' = flights \cup new \/ (flights' = new /\ flights = {}),
         \A f \in new : FlightKept(f) /\ f.got = <<>>
  PROVE  EvidenceKept' /\ CitesGrow
<1>1. \A f \in flights' : FlightKept(f)'
  BY DEF EvidenceKept, FlightKept, Settled
<1>2. \A h \in Range(cites') : h \in handed' \cup cut' \cup Logged' \/ \E f \in flights' : Settled(f)' /\ h \in Range(f.got)
  BY DEF EvidenceKept, Settled, Logged
<1> QED
  BY <1>1, <1>2 DEF EvidenceKept, CitesGrow

(* A search goes on: it keeps what it has cited, unless it is cut off, and what it cites is its own. *)
LEMMA ReplacingKeeps ==
  ASSUME EvidenceKept, UNCHANGED <<ask, route, tool, handed>>, NEW f \in flights, NEW g, R!Replace(f, g),
         FlightKept(g)', IsList(cites'), Range(cites) \subseteq Range(cites'),
         cut \subseteq cut', cut' \subseteq Range(cites'),
         \A h \in Range(cites') : h \in Range(cites) \/ (Settled(g) /\ h \in Range(g.got)),
         Settled(f) => \A h \in Range(f.got) : h \in cut' \/ (Settled(g) /\ h \in Range(g.got))
  PROVE  EvidenceKept' /\ CitesGrow
<1>1. flights' = (flights \ {f}) \cup {g}
  BY DEF R!Replace
<1>2. \A e \in flights' : FlightKept(e)'
  BY <1>1 DEF EvidenceKept, FlightKept, Settled
<1>3. ASSUME NEW h \in Range(cites')
      PROVE  h \in handed' \cup cut' \cup Logged' \/ \E e \in flights' : Settled(e)' /\ h \in Range(e.got)
  <2>1. CASE Settled(g) /\ h \in Range(g.got)
    BY <1>1, <2>1 DEF Settled
  <2>2. CASE h \in Range(cites)
    <3>1. CASE h \in handed \cup cut \cup Logged
      BY <3>1 DEF Logged
    <3>2. ASSUME NEW e \in flights, Settled(e), h \in Range(e.got)
          PROVE  h \in handed' \cup cut' \cup Logged' \/ \E i \in flights' : Settled(i)' /\ h \in Range(i.got)
      <4>1. CASE e = f
        BY <1>1, <2>1, <3>2, <4>1
      <4>2. CASE e # f
        BY <1>1, <3>2, <4>2 DEF Settled
      <4> QED
        BY <4>1, <4>2
    <3> QED
      BY <2>2, <3>1, <3>2 DEF EvidenceKept
  <2> QED
    BY <2>1, <2>2
<1>4. (R!Idle' => flights' = {}) /\ ToolKept'
  BY DEF EvidenceKept, R!Idle, ToolKept
<1> QED
  BY <1>2, <1>3, <1>4 DEF EvidenceKept, CitesGrow

(* The calls of tools. *)
LEMMA CollectKeepsEvidence ==
  ASSUME EvidenceKept, UNCHANGED <<ask, route>>, NEW d \in Domains, NEW q, NEW task, NEW interfaces, BookKept,
         R!Collect(d, q, task, interfaces)
  PROVE  EvidenceKept' /\ CitesGrow
<1> DEFINE plan == R!Plan(task, interfaces)
           T == {R!Sig(d, s, q) : s \in {"code", "product_document", "swagger"}}
           sigs == [i \in DOMAIN plan |-> R!Sig(d, plan[i], q)]
           r == R!Reserve(book, sigs)
           new == {R!Flight(r.allowed[i]) : i \in DOMAIN r.allowed}
<1>1. plan \in Seq({"code", "product_document", "swagger"}) /\ \A i, j \in 1..Len(plan) : i # j => plan[i] # plan[j]
  BY PlanDistinct
<1>2. /\ flights' = flights \cup new
      /\ UNCHANGED <<cites, handed, cut>>
      /\ ~R!Idle' /\ ToolKept'
  BY DEF R!Collect, R!Board, R!Idle, ToolKept
<1> HIDE DEF plan
<1>3. sigs \in Seq(T) /\ Len(sigs) = Len(plan)
  BY <1>1
<1>4. \A i, j \in 1..Len(sigs) : i # j => sigs[i] # sigs[j]
  BY <1>1, <1>3 DEF R!Sig
<1>5. ask.world.budget \in Nat
  BY QuestionsAssumption DEF BookKept
<1>6. r.allowed \in Seq(T)
  <2> HIDE DEF sigs, T
  <2> QED
    BY <1>3, <1>4, <1>5, ReserveKeeps DEF BookKept
<1> HIDE DEF r, sigs
<1>7. ASSUME NEW f \in new PROVE FlightKept(f) /\ f.got = <<>>
  <2>1. PICK i \in DOMAIN r.allowed : f = R!Flight(r.allowed[i])
    BY <1>7
  <2>2. r.allowed[i] \in T
    BY <1>6
  <2>3. PICK s \in {"code", "product_document", "swagger"} : f = R!Flight(R!Sig(d, s, q))
    BY <2>1, <2>2
  <2> QED
    BY <2>3, FlightsStartEmpty DEF EvidenceKept
<1> HIDE DEF new
<1> QED
  BY <1>2, <1>7, BoardingKeeps

(* A search within a source starts with nothing cited and nothing found. *)
LEMMA ScopedKeepsEvidence ==
  ASSUME EvidenceKept, UNCHANGED <<ask, route>>, NEW d \in Domains, NEW q,
         NEW source \in {"code", "product_document", "knowledge"}, R!SearchScoped(d, source, q)
  PROVE  EvidenceKept' /\ CitesGrow
<1> DEFINE f == R!Flight(R!Sig(d, source, q))
<1>1. R!Board(<<R!Sig(d, source, q)>>) /\ UNCHANGED <<cites, handed, cut>> /\ ~R!Idle' /\ ToolKept'
  BY DEF R!SearchScoped, R!Idle, ToolKept
<1>2. flights' = flights \cup {f}
  BY <1>1 DEF R!Board
<1>3. FlightKept(f) /\ f.got = <<>>
  BY FlightsStartEmpty DEF EvidenceKept
<1> HIDE DEF f
<1> DEFINE new == {f}
<1>4. flights' = flights \cup new /\ \A e \in new : FlightKept(e) /\ e.got = <<>>
  BY <1>2, <1>3
<1> HIDE DEF new
<1> QED
  BY <1>1, <1>4, BoardingKeeps

(* So does the inspection of a domain's Swagger sources. *)
LEMMA InspectingKeepsEvidence ==
  ASSUME EvidenceKept, UNCHANGED <<ask, route>>, NEW d \in Domains, NEW q, R!InspectDomain(d, q)
  PROVE  EvidenceKept' /\ CitesGrow
<1> DEFINE f == R!Flight(R!Sig(d, "swagger", q))
<1>1. UNCHANGED <<cites, handed, cut>> /\ ~R!Idle' /\ ToolKept' /\ flights' = {f} /\ flights = {}
  BY DEF R!InspectDomain, R!Idle, ToolKept, R!ghosts, EvidenceKept
<1>2. FlightKept(f) /\ f.got = <<>>
  BY FlightsStartEmpty DEF EvidenceKept
<1> HIDE DEF f
<1> DEFINE new == {f}
<1>3. flights' = new /\ \A e \in new : FlightKept(e) /\ e.got = <<>>
  BY <1>1, <1>2
<1> HIDE DEF new
<1> QED
  BY <1>1, <1>3, BoardingKeeps

(* The searches of a call. *)
LEMMA AskVectorKeepsEvidence ==
  ASSUME EvidenceKept, UNCHANGED <<ask, route>>, NEW f \in flights, R!AskVector(f)
  PROVE  EvidenceKept' /\ CitesGrow
<1>4. PICK at \in {"keyword", "both"} : f.at = "route" /\ R!Replace(f, [f EXCEPT !.at = at])
  BY DEF R!AskVector
<1> DEFINE g == [f EXCEPT !.at = at]
<1>1. f.at = "route" /\ R!Replace(f, g) /\ UNCHANGED <<cites, tool, handed, cut>>
  BY <1>4 DEF R!AskVector, R!ghosts
<1>2. FlightKept(f)
  BY DEF EvidenceKept
<1>3. g = Search(f.sig, f.source, at, f.saw, f.got, f.left)
  BY <1>2, FieldChanges DEF FlightKept
<1> HIDE DEF g
<1>5. ~Settled(f) /\ ~Settled(g)
  BY <1>1, <1>2, <1>3, <1>4 DEF FlightKept, Settled, Search
<1>6. FlightKept(g)'
  <2>1. f.source # "swagger" /\ f.got = <<>>
    BY <1>1, <1>2 DEF FlightKept
  <2> QED
    BY <1>2, <1>3, <1>4, <1>5, <2>1 DEF FlightKept, Settled, Search
<1>7. IsList(cites') /\ Range(cites') = Range(cites) /\ cut' = cut /\ cut' \subseteq Range(cites')
  BY <1>1 DEF EvidenceKept
<1> QED
  BY <1>1, <1>5, <1>6, <1>7, ReplacingKeeps

\* A search that is done with these hits.
Finished(f, saw, hits) == Search(f.sig, f.source, "done", saw, hits, f.left)

(* Hits are cited when the search is done with them. *)
LEMMA FinishingKeepsEvidence ==
  ASSUME EvidenceKept, UNCHANGED <<ask, route, tool, handed, cut>>, NEW f \in flights, NEW saw, NEW hits,
         R!Replace(f, Finished(f, saw, hits)), cites' = R!Added(hits), IsList(hits),
         saw # {} => hits # <<>>, f.source = "swagger" => saw = {} /\ Range(f.got) \subseteq Range(hits), f.at # "done"
  PROVE  EvidenceKept' /\ CitesGrow
<1> DEFINE g == Finished(f, saw, hits)
<1>1. FlightKept(f) /\ IsList(cites)
  BY DEF EvidenceKept
<1>2. IsList(cites') /\ Range(cites') = Range(cites) \cup Range(hits)
  BY <1>1, AddedIsList
<1>3. g.got = hits /\ Settled(g) /\ g = Search(g.sig, g.source, g.at, g.saw, g.got, g.left)
  BY DEF Settled, Finished, Search
<1>4. g.source = f.source /\ g.at = "done" /\ g.saw = saw /\ g.left = f.left
  BY DEF Finished, Search
<1> HIDE DEF g
<1>5. FlightKept(g)'
  BY <1>1, <1>2, <1>3, <1>4 DEF FlightKept, Settled, Search
<1>6. Settled(f) => Range(f.got) \subseteq Range(g.got)
  BY <1>3 DEF Settled
<1>7. R!Replace(f, g)
  BY DEF g
<1>8. cut' = cut /\ cut' \subseteq Range(cites')
  BY <1>2 DEF EvidenceKept
<1> QED
  BY <1>2, <1>3, <1>5, <1>6, <1>7, <1>8, ReplacingKeeps
\* A search whose hits wait.
Waiting(f, at, saw, hits) == Search(f.sig, f.source, at, saw, hits, f.left)

(* Hits wait while types they refer to are looked up. *)
LEMMA WaitingKeepsEvidence ==
  ASSUME EvidenceKept, UNCHANGED <<ask, route, tool, handed, cut, cites>>, NEW f \in flights, NEW saw, NEW hits,
         NEW at, at \in {"types", "fields"}, f.source # "swagger", f.at # "done", R!Replace(f, Waiting(f, at, saw, hits)),
         IsList(hits), saw # {} => hits # <<>>
  PROVE  EvidenceKept' /\ CitesGrow
<1> DEFINE g == Waiting(f, at, saw, hits)
<1>1. FlightKept(f)
  BY DEF EvidenceKept
<1>2. ~Settled(f) /\ ~Settled(g) /\ FlightKept(g)'
  BY <1>1 DEF FlightKept, Settled, Search, Waiting
<1>3. IsList(cites') /\ Range(cites') = Range(cites) /\ cut' = cut /\ cut' \subseteq Range(cites')
  BY DEF EvidenceKept
<1>4. R!Replace(f, g)
  OBVIOUS
<1> HIDE DEF g
<1> QED
  BY <1>2, <1>3, <1>4, ReplacingKeeps

(* A search that waited is done. *)
LEMMA CompletingKeepsEvidence ==
  ASSUME EvidenceKept, UNCHANGED <<ask, route, tool, handed, cut>>, NEW f \in flights, NEW hits, R!Complete(f, hits),
         IsList(hits), f.saw # {} => hits # <<>>, f.source = "swagger" => Range(f.got) \subseteq Range(hits),
         f.at # "done"
  PROVE  EvidenceKept' /\ CitesGrow
<1>1. FlightKept(f)
  BY DEF EvidenceKept
<1>2. [f EXCEPT !.at = "done", !.got = hits] = Finished(f, f.saw, hits)
  BY <1>1, AtAndGotChange DEF FlightKept, Finished
<1>3. R!Replace(f, Finished(f, f.saw, hits)) /\ cites' = R!Added(hits)
  BY <1>2 DEF R!Complete
<1>4. f.source = "swagger" => f.saw = {}
  BY <1>1 DEF FlightKept
<1> QED
  BY <1>3, <1>4, FinishingKeepsEvidence

(* What the routes find is a list. *)
LEMMA FindsAreLists ==
  ASSUME ask \in Questions, NEW source \in {"code", "product_document", "knowledge"},
         NEW found \in ask.world.find[source], NEW returned \in ask.world.rerank
  PROVE  IsList(found[1]) /\ IsList(found[2]) /\ IsList(returned)
<1>1. found \in Seq(Chunks) \X Seq(Chunks) /\ returned \in Seq([index : Nat, rerank : {"strong", "weak"}])
  BY QuestionsAssumption
<1> QED
  BY <1>1, SequencesAreLists

(* What a route finds is noted with its search, and is a list. *)
LEMMA FindKeepsEvidence ==
  ASSUME EvidenceKept, UNCHANGED <<ask, route>>, NEW f \in flights, R!Find(f)
  PROVE  EvidenceKept' /\ CitesGrow
<1>1. FlightKept(f)
  BY DEF EvidenceKept
<1>2. f.at \in {"keyword", "both"} /\ f.source \in {"code", "product_document", "knowledge"}
  BY <1>1 DEF R!Find, FlightKept
<1>3. PICK found \in ask.world.find[f.source], vectors \in R!Verdicts, returned \in ask.world.rerank,
           reranker \in R!Verdicts :
         R!Found(f, found[1], found[2], IF f.at = "keyword" THEN "failed" ELSE vectors, returned, reranker)
  BY DEF R!Find
<1>4. IsList(found[1]) /\ IsList(found[2]) /\ IsList(returned)
  BY <1>2, FindsAreLists DEF EvidenceKept
<1> DEFINE kw == found[1]
           verdict == IF f.at = "keyword" THEN "failed" ELSE vectors
           vec == IF verdict = "ok" THEN found[2] ELSE <<>>
           wanted == "rerank" \notin circuit /\ R!Merged(kw, vec) # <<>>
           read == IF wanted /\ reranker = "ok" THEN returned ELSE <<>>
           hits == R!Boosted(R!Rank(kw, vec, read, TopK))
           saw == Range(kw) \cup (IF verdict = "ok" THEN Range(found[2]) ELSE {})
           g == [f EXCEPT !.saw = saw, !.got = hits]
<1>5. IsList(kw) /\ IsList(vec) /\ IsList(read) /\ saw = Range(kw) \cup Range(vec)
  BY <1>4, EmptyIsList
<1>6. /\ UNCHANGED <<tool, handed, cut>>
      /\ \/ (\E at \in {"types", "fields"} : R!Replace(f, [g EXCEPT !.at = at])) /\ UNCHANGED cites
         \/ R!Replace(f, [g EXCEPT !.at = "done"]) /\ cites' = R!Added(hits)
  BY <1>3, SameRange DEF R!Found, R!Results
<1> HIDE DEF read, kw, vec, saw
<1>7. IsList(R!Rank(kw, vec, read, TopK)) /\ (R!Rank(kw, vec, read, TopK) = <<>> => kw = <<>> /\ vec = <<>>)
  BY <1>5, RankIsList
<1>8. IsList(hits) /\ (hits = <<>> => R!Rank(kw, vec, read, TopK) = <<>>)
  BY <1>7, BoostedIsList
<1> HIDE DEF hits
<1>9. saw # {} => hits # <<>>
  BY <1>5, <1>7, <1>8, EmptyIsList
<1>10. \A at : [g EXCEPT !.at = at] = Search(f.sig, f.source, at, saw, hits, f.left)
  <2>1. g = Search(f.sig, f.source, f.at, saw, hits, f.left)
    BY <1>1, SawAndGotChange DEF FlightKept
  <2> HIDE DEF g, saw, hits
  <2> QED
    BY <2>1 DEF Search
<1> HIDE DEF g
<1>11. ASSUME NEW at \in {"types", "fields"}, R!Replace(f, [g EXCEPT !.at = at]), UNCHANGED cites PROVE EvidenceKept' /\ CitesGrow
  <2>1. R!Replace(f, Waiting(f, at, saw, hits))
    BY <1>10, <1>11 DEF Waiting
  <2>2. f.source # "swagger" /\ f.at # "done"
    BY <1>2
  <2>3. UNCHANGED <<ask, route, tool, handed, cut, cites>>
    BY <1>6, <1>11
  <2> QED
    BY <1>8, <1>9, <2>1, <2>2, <2>3, WaitingKeepsEvidence
<1>12. ASSUME R!Replace(f, [g EXCEPT !.at = "done"]), cites' = R!Added(hits) PROVE EvidenceKept' /\ CitesGrow
  <2>1. R!Replace(f, Finished(f, saw, hits))
    BY <1>10, <1>12 DEF Finished
  <2> QED
    BY <1>2, <1>6, <1>8, <1>9, <1>12, <2>1, FinishingKeepsEvidence
<1> QED
  BY <1>6, <1>11, <1>12

(* Types are looked up by their names. *)
LEMMA LookUpKeepsEvidence ==
  ASSUME EvidenceKept, UNCHANGED <<ask, route>>, NEW f \in flights, R!LookUp(f)
  PROVE  EvidenceKept' /\ CitesGrow
<1>1. FlightKept(f) /\ f.at = "types" /\ UNCHANGED <<tool, handed, cut>>
  BY DEF EvidenceKept, R!LookUp, R!ghosts
<1>2. f.source # "swagger" /\ IsList(f.got) /\ (f.saw # {} => f.got # <<>>)
  BY <1>1 DEF FlightKept
<1>3. PICK found \in ask.world.types :
         IF found = <<>> THEN R!Replace(f, [f EXCEPT !.at = "fields"]) /\ UNCHANGED cites
         ELSE R!Complete(f, [i \in DOMAIN found |-> R!Extra(found[i])]
                            \o R!Without(f.got, {h \in R!Range(f.got) : h.id \in R!Range(found)}))
  BY DEF R!LookUp
<1>4. IsList(found)
  BY QuestionsAssumption, SequencesAreLists DEF EvidenceKept
<1>5. CASE found = <<>>
  <2>1. [f EXCEPT !.at = "fields"] = Waiting(f, "fields", f.saw, f.got)
    BY <1>1, FieldChanges DEF FlightKept, Waiting
  <2>2. R!Replace(f, Waiting(f, "fields", f.saw, f.got)) /\ UNCHANGED cites
    BY <1>3, <1>5, <2>1
  <2> QED
    BY <1>1, <1>2, <2>2, WaitingKeepsEvidence
<1>6. CASE found # <<>>
  <2> DEFINE extra == [i \in DOMAIN found |-> R!Extra(found[i])]
             kept == R!Without(f.got, {h \in R!Range(f.got) : h.id \in R!Range(found)})
             hits == extra \o kept
  <2>1. IsList(extra) /\ extra # <<>>
    <3>1. Len(found) \in Nat /\ Len(found) # 0 /\ DOMAIN found = 1..Len(found)
      BY <1>4, <1>6 DEF IsList
    <3>2. DOMAIN extra = 1..Len(found) /\ extra = [i \in DOMAIN extra |-> extra[i]]
      BY <3>1
    <3> HIDE DEF extra
    <3>3. extra = [i \in 1..Len(found) |-> extra[i]]
      BY <3>2
    <3> QED
      BY <3>1, <3>3, FunctionsAreLists
  <2>2. IsList(kept)
    BY <1>2, SameFilter, FilteredAreLists
  <2> HIDE DEF extra, kept
  <2>3. IsList(hits) /\ hits # <<>>
    BY <2>1, <2>2, ConcatenationsAreLists
  <2>4. R!Complete(f, hits)
    BY <1>3, <1>6 DEF extra, kept
  <2> HIDE DEF hits
  <2> QED
    BY <1>1, <1>2, <2>3, <2>4, CompletingKeepsEvidence
<1> QED
  BY <1>5, <1>6

(* Fields are searched for. *)
LEMMA SupplementKeepsEvidence ==
  ASSUME EvidenceKept, UNCHANGED <<ask, route>>, NEW f \in flights, R!Supplement(f)
  PROVE  EvidenceKept' /\ CitesGrow
<1>1. FlightKept(f) /\ f.at = "fields" /\ UNCHANGED <<tool, handed, cut>>
  BY DEF EvidenceKept, R!Supplement
<1>2. f.source \in {"code", "product_document", "knowledge"} /\ IsList(f.got) /\ (f.saw # {} => f.got # <<>>)
  BY <1>1 DEF FlightKept
<1>3. CASE R!Complete(f, f.got)
  BY <1>1, <1>2, <1>3, CompletingKeepsEvidence
<1>4. ASSUME NEW found \in ask.world.find[f.source], NEW S,
             R!Complete(f, f.got \o R!Without(R!Rank(found[1], found[2], <<>>, TopK), S))
      PROVE  EvidenceKept' /\ CitesGrow
  <2> DEFINE more == R!Rank(found[1], found[2], <<>>, TopK)
             rest == R!Without(more, S)
             hits == f.got \o rest
  <2>1. found \in Seq(Chunks) \X Seq(Chunks)
    BY <1>2, QuestionsAssumption DEF EvidenceKept
  <2>2. IsList(found[1]) /\ IsList(found[2])
    BY <2>1, SequencesAreLists
  <2>3. IsList(more)
    BY <2>2, EmptyIsList, RankIsList
  <2> HIDE DEF more
  <2>4. IsList(rest)
    BY <2>3, SameFilter, FilteredAreLists
  <2>5. R!Complete(f, hits)
    BY <1>4 DEF more
  <2> HIDE DEF rest
  <2>6. IsList(hits) /\ (f.got # <<>> => hits # <<>>)
    BY <1>2, <2>4, ConcatenationsAreLists
  <2> HIDE DEF hits
  <2> QED
    BY <1>1, <1>2, <2>5, <2>6, CompletingKeepsEvidence
<1> QED
  BY <1>3, <1>4 DEF R!Supplement

(* A Swagger source is inspected. *)
LEMMA InspectKeepsEvidence ==
  ASSUME EvidenceKept, UNCHANGED <<ask, route>>, NEW f \in flights, R!Inspect(f)
  PROVE  EvidenceKept' /\ CitesGrow
<1>1. FlightKept(f) /\ f.at = "inspect" /\ UNCHANGED <<tool, handed, cut>> /\ IsList(cites)
  BY DEF EvidenceKept, R!Inspect, R!ghosts
<1>2. /\ f.source = "swagger" /\ IsList(f.got) /\ f.saw = {} /\ f.left \in Seq(SUBSET Seq(Chunks))
      /\ Settled(f) /\ Range(f.got) \subseteq Range(cites)
  BY <1>1 DEF FlightKept, Settled
<1>3. CASE f.left = <<>>
  <2>1. R!Complete(f, f.got)
    BY <1>3 DEF R!Inspect
  <2> QED
    BY <1>1, <1>2, <2>1, CompletingKeepsEvidence
<1>4. CASE f.left # <<>>
  <2>1. PICK seen \in Head(f.left) :
           LET hits == [i \in DOMAIN seen |-> R!Operation(seen[i])] IN
           /\ R!Replace(f, [f EXCEPT !.left = Tail(@), !.got = @ \o hits])
           /\ cites' = R!Added(hits)
    BY <1>4 DEF R!Inspect
  <2> DEFINE hits == [i \in DOMAIN seen |-> R!Operation(seen[i])]
             more == f.got \o hits
  <2>2. Head(f.left) \subseteq Seq(Chunks) /\ Tail(f.left) \in Seq(SUBSET Seq(Chunks))
    BY <1>2, <1>4
  <2>3. Len(seen) \in Nat /\ DOMAIN seen = 1..Len(seen)
    BY <2>2
  <2>4. IsList(hits)
    <3>1. DOMAIN hits = 1..Len(seen) /\ hits = [i \in DOMAIN hits |-> hits[i]]
      BY <2>3
    <3> HIDE DEF hits
    <3>2. hits = [i \in 1..Len(seen) |-> hits[i]]
      BY <3>1
    <3> QED
      BY <2>3, <3>2, FunctionsAreLists
  <2>5. R!Replace(f, [f EXCEPT !.left = Tail(f.left), !.got = more]) /\ cites' = R!Added(hits)
    BY <2>1
  <2> HIDE DEF hits
  <2>6. IsList(more) /\ Range(more) = Range(f.got) \cup Range(hits)
    BY <1>2, <2>4, ConcatenationsAreLists
  <2> HIDE DEF more
  <2>7. PICK g : g = Search(f.sig, f.source, f.at, f.saw, more, Tail(f.left))
    OBVIOUS
  <2>8. [f EXCEPT !.left = Tail(f.left), !.got = more] = g
    BY <1>1, <2>7, LeftAndGotChange DEF FlightKept
  <2>9. R!Replace(f, g)
    BY <2>5, <2>8
  <2>10. IsList(cites') /\ Range(cites') = Range(cites) \cup Range(hits)
    BY <1>1, <2>4, <2>5, AddedIsList
  <2>11. /\ g.source = "swagger" /\ g.at = "inspect" /\ g.saw = {} /\ g.got = more /\ g.left = Tail(f.left)
         /\ g = Search(g.sig, g.source, g.at, g.saw, g.got, g.left)
    BY <1>1, <1>2, <2>7 DEF Search
  <2>12. Settled(g) /\ FlightKept(g)'
    BY <1>2, <2>2, <2>6, <2>10, <2>11 DEF FlightKept, Settled
  <2>13. cut' = cut /\ cut' \subseteq Range(cites')
    BY <1>1, <2>10 DEF EvidenceKept
  <2>14. \A h \in Range(cites') : h \in Range(cites) \/ (Settled(g) /\ h \in Range(g.got))
    BY <2>6, <2>10, <2>11, <2>12
  <2>15. \A h \in Range(f.got) : h \in cut' \/ (Settled(g) /\ h \in Range(g.got))
    BY <2>6, <2>11, <2>12
  <2>16. Range(cites) \subseteq Range(cites') /\ cut \subseteq cut'
    BY <2>10, <2>13
  <2> QED
    BY <1>1, <2>9, <2>10, <2>12, <2>13, <2>14, <2>15, <2>16, ReplacingKeeps
<1> QED
  BY <1>3, <1>4

(* What a Swagger source has shown stays cited when its inspection is cut off. *)
LEMMA CutOffKeepsEvidence ==
  ASSUME EvidenceKept, UNCHANGED <<ask, route>>, NEW f \in flights, R!CutOff(f)
  PROVE  EvidenceKept' /\ CitesGrow
<1>1. /\ FlightKept(f) /\ f.at \notin {"done", "cut"} /\ UNCHANGED <<tool, handed, cites>> /\ IsList(cites)
      /\ R!Replace(f, [f EXCEPT !.at = "cut", !.got = <<>>])
      /\ cut' = IF f.source = "swagger" THEN cut \cup Range(f.got) ELSE cut
  BY SameRange DEF EvidenceKept, R!CutOff
<1>2. PICK g : g = Search(f.sig, f.source, "cut", f.saw, <<>>, f.left)
  OBVIOUS
<1>3. R!Replace(f, g)
  <2>1. [f EXCEPT !.at = "cut", !.got = <<>>] = g
    BY <1>1, <1>2, AtAndGotChange DEF FlightKept
  <2> QED
    BY <1>1, <2>1
<1>4. /\ g.source = f.source /\ g.at = "cut" /\ g.saw = f.saw /\ g.got = <<>> /\ g.left = f.left
      /\ g = Search(g.sig, g.source, g.at, g.saw, g.got, g.left)
  BY <1>2 DEF Search
<1>5. FlightKept(g)'
  BY <1>1, <1>4, EmptyIsList DEF FlightKept, Settled
<1>6. Settled(f) => f.source = "swagger" /\ Range(f.got) \subseteq Range(cites)
  BY <1>1 DEF FlightKept, Settled
<1>7. cut \subseteq cut' /\ cut' \subseteq Range(cites') /\ (Settled(f) => Range(f.got) \subseteq cut')
  BY <1>1, <1>6 DEF EvidenceKept, FlightKept, Settled
<1> QED
  BY <1>1, <1>3, <1>5, <1>7, ReplacingKeeps

(* A second search starts in the documents. *)
LEMMA FallBackKeepsEvidence ==
  ASSUME EvidenceKept, BookKept, UNCHANGED <<ask, route>>, R!FallBack
  PROVE  EvidenceKept' /\ CitesGrow
<1> DEFINE sig == R!Sig(tool.d, "product_document", tool.q)
           r == R!Reserve(book, <<sig>>)
           new == {R!Flight(r.allowed[i]) : i \in DOMAIN r.allowed}
<1>1. /\ flights' = flights \cup new
      /\ UNCHANGED <<cites, handed, cut>>
      /\ tool' = [tool EXCEPT !.fell = TRUE]
      /\ ~R!Idle
  BY DEF R!FallBack, R!Board
<1>2. tool.d \in Domains /\ tool.kind = "collect"
  BY <1>1 DEF EvidenceKept, ToolKept, R!FallBack, R!FallsBack
<1>3. ToolKept' /\ ~R!Idle'
  BY <1>1 DEF R!Idle, ToolKept, EvidenceKept
<1>4. r.allowed \in Seq({sig})
  <2>1. <<sig>> \in Seq({sig}) /\ \A i, j \in 1..Len(<<sig>>) : i # j => <<sig>>[i] # <<sig>>[j]
    OBVIOUS
  <2>2. ask.world.budget \in Nat
    BY QuestionsAssumption DEF BookKept
  <2> HIDE DEF sig
  <2> QED
    BY <2>1, <2>2, ReserveKeeps DEF BookKept
<1>5. FlightKept(R!Flight(sig)) /\ R!Flight(sig).got = <<>>
  BY <1>2, FlightsStartEmpty DEF EvidenceKept
<1> HIDE DEF r, sig
<1>6. ASSUME NEW f \in new PROVE FlightKept(f) /\ f.got = <<>>
  BY <1>4, <1>5
<1> HIDE DEF new
<1> QED
  BY <1>1, <1>2, <1>3, <1>6, BoardingKeeps

(* The agents are handed what the searches of a call have found. *)
LEMMA DeliverKeepsEvidence ==
  ASSUME EvidenceKept, UNCHANGED <<ask, route>>, R!Deliver
  PROVE  EvidenceKept' /\ CitesGrow
<1>1. /\ handed' = handed \cup R!Brought /\ flights' = {} /\ UNCHANGED <<cites, cut>>
      /\ tool' = [kind |-> "none", d |-> "none", q |-> "none", task |-> "none", fell |-> FALSE]
      /\ R!Landed
  BY DEF R!Deliver, R!NoTool
<1>2. R!Brought = UNION {Range(f.got) : f \in flights}
  BY SameRange DEF R!Brought
<1>3. ASSUME NEW f \in flights PROVE Range(f.got) \subseteq Range(cites)
  <2>1. FlightKept(f) /\ f.at \in {"done", "cut"}
    BY <1>1 DEF R!Landed, EvidenceKept
  <2> QED
    BY <2>1, EmptyIsList DEF FlightKept, Settled
<1>4. handed' \cup cut' \subseteq Range(cites')
  BY <1>1, <1>2, <1>3 DEF EvidenceKept
<1>5. \A h \in Range(cites') : h \in handed' \cup cut' \cup Logged'
  BY <1>1, <1>2 DEF EvidenceKept, Logged
<1>6. ToolKept'
  BY <1>1 DEF ToolKept, R!Idle
<1> QED
  BY <1>1, <1>4, <1>5, <1>6 DEF EvidenceKept, CitesGrow

(* Nothing else about the searches changes. *)
LEMMA RestKeepsEvidence ==
  ASSUME EvidenceKept, UNCHANGED <<ask, route, cites, tool, flights, handed, cut>>
  PROVE  EvidenceKept' /\ CitesGrow
<1>1. \A f \in flights' : FlightKept(f)'
  BY DEF EvidenceKept, FlightKept, Settled
<1>2. \A h \in Range(cites') : h \in handed' \cup cut' \cup Logged' \/ \E f \in flights' : Settled(f)' /\ h \in Range(f.got)
  BY DEF EvidenceKept, Settled, Logged
<1>3. (R!Idle' => flights' = {}) /\ ToolKept'
  BY DEF EvidenceKept, ToolKept, R!Idle
<1> QED
  BY <1>1, <1>2, <1>3 DEF EvidenceKept, CitesGrow

(* What a query shows, or a diagnosis has read, is cited. *)
LEMMA CitingKeepsEvidence ==
  ASSUME EvidenceKept, UNCHANGED <<ask, route, tool, flights, cut>>, NEW hits, IsList(hits), cites' = R!Added(hits),
         handed' = handed \/ handed' = handed \cup Range(hits), Range(hits) \subseteq handed' \cup Logged
  PROVE  EvidenceKept' /\ CitesGrow
<1>1. IsList(cites') /\ Range(cites') = Range(cites) \cup Range(hits)
  BY AddedIsList DEF EvidenceKept
<1>2. handed' \cup cut' \subseteq Range(cites')
  BY <1>1 DEF EvidenceKept
<1>3. \A h \in Range(cites') : h \in handed' \cup cut' \cup Logged' \/ \E f \in flights' : Settled(f)' /\ h \in Range(f.got)
  <2>1. handed \subseteq handed' /\ Logged' = Logged
    BY DEF Logged
  <2> QED
    BY <1>1, <2>1 DEF EvidenceKept, Settled
<1>4. \A f \in flights' : FlightKept(f)'
  BY <1>1 DEF EvidenceKept, FlightKept, Settled
<1>5. (R!Idle' => flights' = {}) /\ ToolKept'
  BY DEF EvidenceKept, ToolKept, R!Idle
<1> QED
  BY <1>1, <1>2, <1>3, <1>4, <1>5 DEF EvidenceKept, CitesGrow

(* The searches of a call go on, and come to its end. *)
LEMMA ProgressKeepsEvidence ==
  ASSUME EvidenceKept, BookKept, UNCHANGED <<ask, route>>, R!Progress
  PROVE  EvidenceKept' /\ CitesGrow
<1>1. ASSUME NEW f \in flights,
             R!AskVector(f) \/ R!Find(f) \/ R!LookUp(f) \/ R!Supplement(f) \/ R!Inspect(f) \/ R!CutOff(f)
      PROVE  EvidenceKept' /\ CitesGrow
  BY <1>1, AskVectorKeepsEvidence, FindKeepsEvidence, LookUpKeepsEvidence, SupplementKeepsEvidence,
     InspectKeepsEvidence, CutOffKeepsEvidence
<1>2. CASE R!FallBack
  BY <1>2, FallBackKeepsEvidence
<1>3. CASE R!Deliver
  BY <1>3, DeliverKeepsEvidence
<1>4. CASE \E p \in R!Providers : R!Cool(p)
  BY <1>4, RestKeepsEvidence DEF R!Cool, R!ghosts
<1> QED
  BY <1>1, <1>2, <1>3, <1>4 DEF R!Progress

(* Every step of a run keeps what is cited. *)
LEMMA StepsKeepEvidence ==
  ASSUME BookKept, EvidenceKept, [Next]_vars
  PROVE  EvidenceKept' /\ CitesGrow
<1>1. Evidences /\ UNCHANGED <<ask, route>>
  BY StepsOfEvidence
<1>2. ASSUME NEW d \in Collectors, NEW q \in Queries, Searches(d, q) PROVE EvidenceKept' /\ CitesGrow
  <2>1. d \in Domains
    BY CollectorsAreDomains
  <2> QED
    BY <1>1, <1>2, <2>1, CollectKeepsEvidence, ScopedKeepsEvidence, InspectingKeepsEvidence DEF Searches
<1>3. CASE R!Progress
  BY <1>1, <1>3, ProgressKeepsEvidence
<1>4. ASSUME NEW app, NEW confirmed, R!Prepare(app, confirmed) PROVE EvidenceKept' /\ CitesGrow
  BY <1>1, <1>4, RestKeepsEvidence DEF R!Prepare, R!ghosts
<1>5. CASE R!QueryMetric(Figures)
  <2>1. UNCHANGED <<tool, flights, cut>>
    BY <1>5 DEF R!QueryMetric
  <2>2. CASE UNCHANGED <<cites, handed>>
    BY <1>1, <2>1, <2>2, RestKeepsEvidence
  <2>3. CASE cites' = R!Added(<<R!Operation(Figures)>>) /\ handed' = handed \cup {R!Operation(Figures)}
    <3> DEFINE hits == <<R!Operation(Figures)>>
    <3>1. IsList(hits) /\ Range(hits) = {R!Operation(Figures)}
      BY OneIsList
    <3>2. cites' = R!Added(hits)
      BY <2>3
    <3> HIDE DEF hits
    <3> QED
      BY <1>1, <2>1, <2>3, <3>1, <3>2, CitingKeepsEvidence
  <2> QED
    BY <1>5, <2>2, <2>3 DEF R!QueryMetric
<1>6. CASE Diagnosed
  <2>1. UNCHANGED <<tool, flights, cut, handed>>
    BY <1>6 DEF Diagnosed
  <2>2. PICK logs \in {<<>>} \cup {<<R!Operation(l)>> : l \in Logs} : cites' = R!Added(logs)
    BY <1>6 DEF Diagnosed
  <2>3. IsList(logs) /\ Range(logs) \subseteq Logged
    BY EmptyIsList, OneIsList DEF Logged
  <2> QED
    BY <1>1, <2>1, <2>2, <2>3, CitingKeepsEvidence
<1>7. CASE UNCHANGED retrievalVars
  BY <1>1, <1>7, RestKeepsEvidence DEF retrievalVars
<1>8. ASSUME NEW tools \in Discoveries, NEW found \in BOOLEAN, R!Discover(tools, found) PROVE EvidenceKept' /\ CitesGrow
  <2> DEFINE hits == <<R!Operation(tools)>>
  <2>1. IsList(hits) /\ Range(hits) = {R!Operation(tools)}
    BY OneIsList
  <2>2. UNCHANGED <<tool, flights, cut>> /\ cites' = R!Added(hits)
    BY <1>8 DEF R!Discover
  <2>3. handed' = handed \/ handed' = handed \cup {R!Operation(tools)}
    BY <1>8 DEF R!Discover
  <2>4. {R!Operation(tools)} \subseteq Logged
    BY DEF Logged
  <2> HIDE DEF hits
  <2> QED
    BY <1>1, <2>1, <2>2, <2>3, <2>4, CitingKeepsEvidence
<1> QED
  BY <1>1, <1>2, <1>3, <1>4, <1>5, <1>6, <1>7, <1>8 DEF Evidences

(* Every citation has its reason in every run. *)
LEMMA EvidenceIsKept == Spec => []EvidenceKept
<1>1. Init => EvidenceKept
  <2> SUFFICES ASSUME Init PROVE EvidenceKept
    OBVIOUS
  <2>1. /\ ask \in Questions /\ route = Selected(ask.message, ask.chosen)
        /\ cites = <<>> /\ handed = {} /\ cut = {} /\ flights = {}
        /\ tool = [kind |-> "none", d |-> "none", q |-> "none", task |-> "none", fell |-> FALSE]
    BY DEF Init, R!Init, R!NoTool
  <2> QED
    BY <2>1, EmptyIsList DEF EvidenceKept, ToolKept, R!Idle
<1>2. BookKept /\ EvidenceKept /\ [Next]_vars => EvidenceKept'
  BY StepsKeepEvidence
<1> QED
  BY <1>1, <1>2, BookIsKept, PTL DEF Spec

(* For any questions, worlds, figures, discovery tools and logs: what a run cites is what its agents were handed, but *)
(* for logs, failed calls of discovery tools and operations whose inspection was cut off, and a search a route has     *)
(* found something for leaves a citation.                                                                              *)
THEOREM EvidenceIsMatched == Spec => []EvidenceMatches
<1>1. EvidenceKept => EvidenceMatches
  <2> SUFFICES ASSUME EvidenceKept PROVE EvidenceMatches
    OBVIOUS
  <2>1. R!Idle => /\ handed \cup cut \subseteq Range(cites)
                  /\ Range(cites) \ (handed \cup cut) \subseteq {R!Operation(l) : l \in Logs \cup Discoveries}
    BY DEF EvidenceKept, Logged
  <2>2. \A f \in flights : f.at = "done" => Range(f.got) \subseteq Range(cites) /\ (f.saw # {} => f.got # <<>>)
    BY DEF EvidenceKept, FlightKept, Settled
  <2> QED
    BY <2>1, <2>2 DEF EvidenceMatches
<1> QED
  BY <1>1, EvidenceIsKept, PTL

-----------------------------------------------------------------------------
(* Texts *)

(* A set of numbers up to n has a greatest one. *)
LEMMA GreatestOf ==
  ASSUME NEW n \in Nat, NEW S, S \subseteq 0..n, S # {}
  PROVE  Greatest(S) \in S /\ \A k \in S : k <= Greatest(S)
<1> DEFINE T == {n - k : k \in S}
<1>1. T \in SUBSET Nat /\ T # {}
  <2>1. PICK k : k \in S
    OBVIOUS
  <2>2. n - k \in T
    BY <2>1
  <2>3. \A i \in T : i \in Nat
    OBVIOUS
  <2> QED
    BY <2>2, <2>3
<1>2. PICK m \in T : \A k \in T : m <= k
  BY <1>1, LeastNumber
<1>3. PICK g \in S : m = n - g
  BY <1>2
<1>4. \A k \in S : k <= g
  <2> TAKE k \in S
  <2>1. n - k \in T
    OBVIOUS
  <2> QED
    BY <1>2, <1>3, <2>1
<1> QED
  BY <1>3, <1>4 DEF Greatest

(* and Least to its least one. *)
LEMMA LeastOf ==
  ASSUME NEW S, S \subseteq Nat, S # {}
  PROVE  Least(S) \in S /\ \A k \in S : Least(S) <= k
<1>1. S \in SUBSET Nat
  OBVIOUS
<1>2. PICK m \in S : \A k \in S : m <= k
  BY <1>1, LeastNumber
<1> QED
  BY <1>2 DEF Least

\* The places of a text that are left when identities are renamed.
Places(t) == Without([i \in DOMAIN t |-> i], {i + 1 : i \in Identities(t)})

(* Every identity is one piece, the others are as they were and where they were. *)
LEMMA PlacesOfRenamed ==
  ASSUME NEW P, NEW t \in Seq(P)
  PROVE  /\ Places(t) \in Seq(1..Len(t))
         /\ Renamed(t) = [k \in 1..Len(Places(t)) |->
                            IF Places(t)[k] \in Identities(t) THEN [t[Places(t)[k]] EXCEPT !.w = "name"]
                            ELSE t[Places(t)[k]]]
         /\ \A j, k \in 1..Len(Places(t)) : j < k => Places(t)[j] < Places(t)[k]
         /\ \A k \in 1..Len(Places(t)) : Places(t)[k] \notin {i + 1 : i \in Identities(t)}
         /\ \A i \in 1..Len(t) : i \notin {j + 1 : j \in Identities(t)} => \E k \in 1..Len(Places(t)) : Places(t)[k] = i
<1> DEFINE s == [i \in DOMAIN t |-> i]
           S == {i + 1 : i \in Identities(t)}
<1>1. DOMAIN t = 1..Len(t) /\ Len(t) \in Nat
  OBVIOUS
<1>2. s \in Seq(1..Len(t)) /\ Len(s) = Len(t) /\ \A i \in 1..Len(t) : s[i] = i
  BY <1>1
<1>3. Places(t) = Without(s, S)
  BY DEF Places
<1> HIDE DEF s, S
<1>4. Without(s, S) \in Seq(1..Len(t)) /\ Embeddings(Without(s, S), s, S, Len(s)) # {}
  BY <1>2, WithoutEmbeds
<1>12. PICK m : m \in Embeddings(Places(t), s, S, Len(t))
  BY <1>2, <1>3, <1>4
<1>5. /\ m \in [1..Len(Places(t)) -> 1..Len(t)]
      /\ \A j, k \in 1..Len(Places(t)) : j < k => m[j] < m[k]
      /\ \A k \in 1..Len(Places(t)) : Places(t)[k] = s[m[k]] /\ s[m[k]] \notin S
      /\ \A i \in 1..Len(t) : s[i] \notin S => \E k \in 1..Len(Places(t)) : m[k] = i
  BY <1>12 DEF Embeddings
<1>6. \A k \in 1..Len(Places(t)) : Places(t)[k] = m[k] /\ m[k] \in 1..Len(t)
  BY <1>2, <1>5
<1>7. Places(t) \in Seq(1..Len(t)) /\ DOMAIN Places(t) = 1..Len(Places(t))
  BY <1>3, <1>4
<1>8. Renamed(t) = [k \in DOMAIN Places(t) |->
                      IF Places(t)[k] \in Identities(t) THEN [t[Places(t)[k]] EXCEPT !.w = "name"]
                      ELSE t[Places(t)[k]]]
  BY DEF Renamed, Places
<1>9. \A j, k \in 1..Len(Places(t)) : j < k => Places(t)[j] < Places(t)[k]
  BY <1>5, <1>6
<1>10. \A k \in 1..Len(Places(t)) : Places(t)[k] \notin S
  BY <1>5
<1>11. \A i \in 1..Len(t) : i \notin S => \E k \in 1..Len(Places(t)) : Places(t)[k] = i
  BY <1>2, <1>5, <1>6
<1> QED
  BY <1>7, <1>8, <1>9, <1>10, <1>11 DEF S

\* Pieces that stay among themselves when they are renamed, and the text that stands for a leak.
Closed(P) ==
    /\ \A p \in P : [p EXCEPT !.w = "name"] \in P
    /\ [w |-> "leak", by |-> "code", n |-> 0] \in P

(* Renaming what a text has left of its places stays within what may be said. *)
LEMMA RenamedStays ==
  ASSUME NEW P, Closed(P), NEW t \in Seq(P)
  PROVE  Renamed(t) \in Seq(P)
<1> DEFINE m == Len(Places(t))
           r == Renamed(t)
<1>1. m \in Nat /\ \A k \in 1..m : Places(t)[k] \in 1..Len(t)
  BY PlacesOfRenamed
<1>2. /\ DOMAIN r = 1..m
      /\ \A k \in 1..m : r[k] = IF Places(t)[k] \in Identities(t) THEN [t[Places(t)[k]] EXCEPT !.w = "name"]
                                ELSE t[Places(t)[k]]
      /\ r = [k \in DOMAIN r |-> r[k]]
  <2> DEFINE e(k) == IF Places(t)[k] \in Identities(t) THEN [t[Places(t)[k]] EXCEPT !.w = "name"]
                     ELSE t[Places(t)[k]]
  <2>1. r = [k \in 1..m |-> e(k)]
    BY PlacesOfRenamed
  <2> HIDE DEF r, e, m
  <2>2. DOMAIN r = 1..m /\ (\A k \in 1..m : r[k] = e(k)) /\ r = [k \in DOMAIN r |-> r[k]]
    BY <2>1
  <2> QED
    BY <2>2 DEF e
<1> HIDE DEF r
<1>3. \A k \in 1..m : r[k] \in P
  BY <1>1, <1>2 DEF Closed
<1>4. r \in [1..m -> P]
  BY <1>2, <1>3
<1>5. r \in Seq(P)
  BY <1>1, <1>4
<1> QED
  BY <1>5 DEF r

(* A text without its closing newlines is the beginning of the text. *)
LEMMA StrippedStays ==
  ASSUME NEW P, NEW t \in Seq(P)
  PROVE  \E k \in 0..Len(t) : Stripped(t) = SubSeq(t, 1, k)
<1> DEFINE S == {0} \cup {i \in DOMAIN t : t[i].w # "nl"}
<1>1. S \subseteq 0..Len(t) /\ S # {} /\ Len(t) \in Nat
  OBVIOUS
<1> HIDE DEF S
<1>2. Greatest(S) \in 0..Len(t)
  BY <1>1, GreatestOf
<1> QED
  BY <1>2 DEF Stripped, S

(* What precedes the memory is a part of the text before its first line. *)
LEMMA BeforeMemoryStays ==
  ASSUME NEW P, NEW t \in Seq(P), MemoryLines(t) # {}
  PROVE  /\ \E k \in 0..(Least(MemoryLines(t)) - 1) : BeforeMemory(t) = SubSeq(t, 1, k)
         /\ Least(MemoryLines(t)) \in MemoryLines(t) /\ Least(MemoryLines(t)) \in 1..Len(t)
         /\ \A i \in MemoryLines(t) : Least(MemoryLines(t)) <= i
<1>1. MemoryLines(t) \subseteq 1..Len(t) /\ MemoryLines(t) \subseteq Nat
  BY DEF MemoryLines, Lines
<1>2. Least(MemoryLines(t)) \in MemoryLines(t) /\ \A i \in MemoryLines(t) : Least(MemoryLines(t)) <= i
  BY <1>1, LeastOf
<1> DEFINE l == Least(MemoryLines(t))
           front == SubSeq(t, 1, l - 1)
<1>3. l \in 1..Len(t)
  BY <1>1, <1>2
<1> HIDE DEF l
<1>4. front \in Seq(P) /\ Len(front) = l - 1 /\ \A i \in 1..(l - 1) : front[i] = t[i]
  BY <1>3
<1>5. PICK k \in 0..(l - 1) : Stripped(front) = SubSeq(front, 1, k)
  <2> HIDE DEF front
  <2> QED
    BY <1>3, <1>4, StrippedStays
<1>6. SubSeq(front, 1, k) = SubSeq(t, 1, k)
  <2> HIDE DEF front
  <2>1. k \in Nat /\ k <= Len(t) /\ k <= Len(front)
    BY <1>3, <1>4
  <2>2. /\ SubSeq(front, 1, k) = [i \in 1..k |-> front[i]]
        /\ SubSeq(t, 1, k) = [i \in 1..k |-> t[i]]
    BY <1>3, <1>4, <2>1
  <2>3. \A i \in 1..k : front[i] = t[i]
    BY <1>3, <1>4
  <2> QED
    BY <2>2, <2>3
<1>7. BeforeMemory(t) = SubSeq(t, 1, k)
  BY <1>5, <1>6 DEF BeforeMemory, l
<1> QED
  BY <1>2, <1>3, <1>7 DEF l

(* A prefix of a text is of its pieces, and so is the rest. *)
LEMMA PartsStay ==
  ASSUME NEW P, NEW t \in Seq(P), NEW k \in 0..Len(t)
  PROVE  /\ SubSeq(t, 1, k) \in Seq(P) /\ Len(SubSeq(t, 1, k)) = k
         /\ SubSeq(t, k + 1, Len(t)) \in Seq(P) /\ Len(SubSeq(t, k + 1, Len(t))) = Len(t) - k
         /\ \A i \in 1..k : SubSeq(t, 1, k)[i] = t[i]
         /\ \A i \in 1..(Len(t) - k) : SubSeq(t, k + 1, Len(t))[i] = t[k + i]
OBVIOUS

(* Sanitizing stays within what may be said. *)
LEMMA SanitizedStays ==
  ASSUME NEW P, Closed(P), NEW t \in Seq(P)
  PROVE  Sanitize(t) \in Seq(P)
<1>1. CASE MemoryLines(t) = {}
  BY <1>1, RenamedStays DEF Sanitize
<1>2. CASE MemoryLines(t) # {}
  <2>1. BeforeMemory(t) \in Seq(P)
    <3>1. PICK k \in 0..(Least(MemoryLines(t)) - 1) : BeforeMemory(t) = SubSeq(t, 1, k)
      BY <1>2, BeforeMemoryStays
    <3>2. Least(MemoryLines(t)) \in 1..Len(t)
      BY <1>2, BeforeMemoryStays
    <3>3. k \in 0..Len(t)
      BY <3>1, <3>2
    <3> QED
      BY <3>1, <3>3, PartsStay
  <2>2. Leak \in Seq(P)
    BY DEF Leak, Fixed, Closed
  <2> QED
    BY <1>2, <2>1, <2>2, RenamedStays DEF Sanitize
<1> QED
  BY <1>1, <1>2

Streams(P) == [buffer : Seq(P), blocked : BOOLEAN, emitted : BOOLEAN]

(* What a stream holds back starts at a place of its buffer, or is nothing. *)
LEMMA KeptIsPlace ==
  ASSUME NEW P, NEW t \in Seq(P)
  PROVE  Kept(t) \in 0..Len(t)
<1>1. LineStart(t) \in 0..Len(t)
  <2> DEFINE S == {0} \cup {i \in DOMAIN t : t[i].w = "nl"}
  <2>1. S \subseteq 0..Len(t) /\ S # {} /\ Len(t) \in Nat
    OBVIOUS
  <2> HIDE DEF S
  <2>2. Greatest(S) \in 0..Len(t)
    BY <2>1, GreatestOf
  <2> QED
    BY <2>2 DEF LineStart, S
<1>2. ASSUME IdentityAtEnd(t) # {} PROVE Least(IdentityAtEnd(t)) \in 1..Len(t)
  <2>1. IdentityAtEnd(t) \subseteq 1..Len(t) /\ 1..Len(t) \subseteq Nat
    BY DEF IdentityAtEnd
  <2> QED
    BY <1>2, <2>1, LeastOf
<1> QED
  BY <1>1, <1>2 DEF Kept

(* What a stream lets go and what it keeps is of the pieces it was fed. *)
LEMMA FeedStays ==
  ASSUME NEW P, Closed(P), NEW s \in Streams(P), NEW delta \in Seq(P)
  PROVE  Feed(s, delta).s \in Streams(P) /\ Feed(s, delta).out \in Seq(P)
<1> DEFINE t == s.buffer \o delta
<1>1. t \in Seq(P)
  BY DEF Streams
<1> HIDE DEF t
<1>2. CASE s.blocked
  BY <1>2 DEF Feed
<1>3. CASE ~s.blocked /\ MemoryLines(t) # {}
  <2>1. Feed(s, delta) = Emit(s, BeforeMemory(t), <<>>, TRUE)
    BY <1>3 DEF Feed, t
  <2>2. BeforeMemory(t) \in Seq(P)
    <3>1. PICK k \in 0..(Least(MemoryLines(t)) - 1) : BeforeMemory(t) = SubSeq(t, 1, k)
      BY <1>1, <1>3, BeforeMemoryStays
    <3>2. Least(MemoryLines(t)) \in 1..Len(t)
      BY <1>1, <1>3, BeforeMemoryStays
    <3>3. k \in 0..Len(t)
      BY <3>1, <3>2
    <3> QED
      BY <1>1, <3>1, <3>3, PartsStay
  <2>3. Sanitize(BeforeMemory(t)) \in Seq(P)
    BY <2>2, SanitizedStays
  <2> QED
    BY <2>1, <2>3 DEF Emit, Streams
<1>4. CASE ~s.blocked /\ MemoryLines(t) = {}
  <2>1. Feed(s, delta) = Emit(s, SubSeq(t, 1, Kept(t)), SubSeq(t, Kept(t) + 1, Len(t)), FALSE)
    BY <1>4 DEF Feed, t
  <2>2. SubSeq(t, 1, Kept(t)) \in Seq(P) /\ SubSeq(t, Kept(t) + 1, Len(t)) \in Seq(P)
    BY <1>1, KeptIsPlace, PartsStay
  <2>3. Sanitize(SubSeq(t, 1, Kept(t))) \in Seq(P)
    BY <2>2, SanitizedStays
  <2> QED
    BY <2>1, <2>2, <2>3 DEF Emit, Streams
<1> QED
  BY <1>2, <1>3, <1>4

(* The end of a stream lets go of nothing else. *)
LEMMA FlushStays ==
  ASSUME NEW P, Closed(P), NEW s \in Streams(P)
  PROVE  Flush(s).s \in Streams(P) /\ Flush(s).out \in Seq(P)
<1>1. s.buffer \in Seq(P) /\ s = [buffer |-> s.buffer, blocked |-> s.blocked, emitted |-> s.emitted]
  BY DEF Streams
<1>2. Sanitize(s.buffer) \in Seq(P)
  BY <1>1, SanitizedStays
<1>3. CASE ~s.blocked
  BY <1>2, <1>3 DEF Flush, Emit, Streams
<1>4. CASE s.blocked
  <2>1. Leak \in Seq(P)
    BY DEF Leak, Fixed, Closed
  <2>2. PICK e : e = [s EXCEPT !.buffer = <<>>]
    OBVIOUS
  <2>3. e = [buffer |-> <<>>, blocked |-> s.blocked, emitted |-> s.emitted]
    BY <1>1, <2>2
  <2>4. PICK h : h = [e EXCEPT !.emitted = TRUE]
    OBVIOUS
  <2>5. h = [buffer |-> <<>>, blocked |-> s.blocked, emitted |-> TRUE]
    BY <2>3, <2>4
  <2>6. [s EXCEPT !.buffer = <<>>, !.emitted = TRUE] = h
    BY <1>1, <2>2, <2>4
  <2>7. Flush(s) = [s |-> h, out |-> IF s.emitted THEN <<>> ELSE Leak]
    BY <1>4, <2>6 DEF Flush
  <2>8. s.blocked \in BOOLEAN /\ h \in Streams(P)
    BY <2>5 DEF Streams
  <2> QED
    BY <2>1, <2>7, <2>8
<1> QED
  BY <1>3, <1>4

(* FeedAll feeds one text after the other; what holds of a stream before and is kept by every text holds all along. *)
LEMMA FeedingUnfolds ==
  ASSUME NEW deltas, Len(deltas) \in Nat, NEW I, [s |-> request.stream, out |-> <<>>] \in I,
         \A k \in 1..Len(deltas) : \A fed \in I : FedOn(fed, deltas[k]) \in I
  PROVE  \E fed : /\ fed[0] = [s |-> request.stream, out |-> <<>>]
                  /\ \A k \in 1..Len(deltas) : fed[k] = FedOn(fed[k - 1], deltas[k])
                  /\ \A k \in 0..Len(deltas) : fed[k] \in I
                  /\ FeedAll(deltas) = fed[Len(deltas)]
<1> DEFINE n == Len(deltas)
           base == [s |-> request.stream, out |-> <<>>]
           step == [p \in (1..n) \X I |-> FedOn(p[2], deltas[p[1]])]
           body(g) == [k \in 0..n |-> IF k = 0 THEN base ELSE FedOn(g[k - 1], deltas[k])]
           fed == CHOOSE g : g = body(g)
<1>1. FeedAll(deltas) = fed[n]
  BY DEF FeedAll
<1>2. n \in Nat /\ base \in I
  OBVIOUS
<1>3. step \in [(1..n) \X I -> I]
  <2>1. \A p \in (1..n) \X I : FedOn(p[2], deltas[p[1]]) \in I
    OBVIOUS
  <2> HIDE DEF n
  <2> QED
    BY <2>1
<1>4. \A k \in 1..n : \A x \in I : step[<<k, x>>] = FedOn(x, deltas[k])
  OBVIOUS
<1> HIDE DEF base, n
<1>5. PICK g \in [0..n -> I] : g[0] = base /\ \A k \in 1..n : g[k] = step[<<k, g[k - 1]>>]
  <2> HIDE DEF step
  <2>1. Recursive(n, I, base, step) # {}
    BY <1>2, <1>3, Recursion
  <2> QED
    BY <2>1 DEF Recursive
<1>6. \A k \in 1..n : g[k] = FedOn(g[k - 1], deltas[k])
  <2> HIDE DEF step
  <2> TAKE k \in 1..n
  <2>1. k - 1 \in 0..n /\ g[k - 1] \in I
    BY <1>2
  <2> QED
    BY <1>4, <1>5, <2>1
<1> HIDE DEF step
<1>7. g = body(g)
  <2>1. ASSUME NEW k \in 0..n PROVE g[k] = body(g)[k]
    <3>1. CASE k = 0
      BY <1>5, <3>1
    <3>2. CASE k # 0
      <4>1. k \in 1..n
        BY <1>2, <3>2
      <4> QED
        BY <1>6, <3>2, <4>1
    <3> QED
      BY <3>1, <3>2
  <2>2. g = [k \in 0..n |-> g[k]] /\ body(g) = [k \in 0..n |-> body(g)[k]]
    OBVIOUS
  <2> HIDE DEF body
  <2>3. [k \in 0..n |-> g[k]] = [k \in 0..n |-> body(g)[k]]
    BY <2>1
  <2> QED
    BY <2>2, <2>3
<1>8. fed = body(fed)
  <2> HIDE DEF body
  <2> QED
    BY <1>7
<1>9. fed[0] = base /\ \A k \in 1..n : fed[k] = FedOn(fed[k - 1], deltas[k])
  <2>1. 0 \in 0..n /\ \A k \in 1..n : k \in 0..n /\ k # 0
    BY <1>2
  <2>2. fed[0] = body(fed)[0] /\ \A k \in 1..n : fed[k] = body(fed)[k]
    BY <1>8
  <2> HIDE DEF fed
  <2> QED
    BY <2>1, <2>2
<1> HIDE DEF fed
<1> DEFINE S == {k \in 0..n : fed[k] \in I}
<1>10. 0 \in S
  BY <1>2, <1>9
<1>11. \A k \in 0..(n - 1) : k \in S => k + 1 \in S
  <2> SUFFICES ASSUME NEW k \in 0..(n - 1), fed[k] \in I PROVE k + 1 \in 0..n /\ fed[k + 1] \in I
    OBVIOUS
  <2>1. k + 1 \in 1..n /\ (k + 1) - 1 = k /\ k + 1 \in 0..n
    BY <1>2
  <2>2. fed[k + 1] = FedOn(fed[k], deltas[k + 1])
    BY <1>9, <2>1
  <2> QED
    BY <2>1, <2>2 DEF n
<1> HIDE DEF S
<1>12. \A k \in 0..n : fed[k] \in I
  <2>1. \A k \in 0..n : k \in S
    BY <1>2, <1>10, <1>11, Induction
  <2> QED
    BY <2>1 DEF S
<1> QED
  BY <1>1, <1>9, <1>12 DEF base, n

(* What holds of a stream before a replay and is kept by every text of it holds afterwards. *)
LEMMA FeedingKeeps ==
  ASSUME NEW deltas, Len(deltas) \in Nat, NEW I, [s |-> request.stream, out |-> <<>>] \in I,
         \A k \in 1..Len(deltas) : \A fed \in I : FedOn(fed, deltas[k]) \in I
  PROVE  FeedAll(deltas) \in I
<1>1. PICK fed : /\ \A k \in 0..Len(deltas) : fed[k] \in I
                 /\ FeedAll(deltas) = fed[Len(deltas)]
  BY FeedingUnfolds
<1>2. Len(deltas) \in 0..Len(deltas)
  OBVIOUS
<1> QED
  BY <1>1, <1>2

\* Lengths of the messages so far, and the whole.
Lengths == {upto \in [0..Len(session) -> Nat] :
               /\ upto[0] = Len(text) /\ \A k \in 1..Len(session) : upto[k] = upto[k - 1] + Len(session[k])
               /\ Written = upto[Len(session)]}

(* Written is what its definition says. *)
LEMMA WrittenUnfolds ==
  ASSUME NEW T, session \in Seq(Seq(T)), text \in Seq(T)
  PROVE  Lengths # {}
<1> DEFINE n == Len(session)
           step == [p \in (1..n) \X Nat |-> p[2] + Len(session[p[1]])]
           body(g) == [k \in 0..n |-> IF k = 0 THEN Len(text) ELSE g[k - 1] + Len(session[k])]
           upto == CHOOSE g : g = body(g)
<1>1. Written = upto[n]
  BY DEF Written
<1>2. n \in Nat /\ Len(text) \in Nat /\ \A k \in 1..n : Len(session[k]) \in Nat
  <2>1. n \in Nat /\ \A k \in 1..n : session[k] \in Seq(T)
    OBVIOUS
  <2> QED
    BY <2>1
<1> HIDE DEF n
<1>3. step \in [(1..n) \X Nat -> Nat]
  BY <1>2
<1>4. \A k \in 1..n : \A x \in Nat : step[<<k, x>>] = x + Len(session[k])
  OBVIOUS
<1>5. PICK g \in [0..n -> Nat] : g[0] = Len(text) /\ \A k \in 1..n : g[k] = step[<<k, g[k - 1]>>]
  <2> HIDE DEF step
  <2>1. Recursive(n, Nat, Len(text), step) # {}
    BY <1>2, <1>3, Recursion
  <2> QED
    BY <2>1 DEF Recursive
<1>6. \A k \in 1..n : g[k] = g[k - 1] + Len(session[k])
  <2> HIDE DEF step
  <2> TAKE k \in 1..n
  <2>1. k - 1 \in 0..n /\ g[k - 1] \in Nat
    BY <1>2
  <2> QED
    BY <1>4, <1>5, <2>1
<1> HIDE DEF step
<1>7. g = body(g)
  <2>1. ASSUME NEW k \in 0..n PROVE g[k] = body(g)[k]
    <3>1. CASE k = 0
      BY <1>5, <3>1
    <3>2. CASE k # 0
      <4>1. k \in 1..n
        BY <1>2, <3>2
      <4> QED
        BY <1>6, <3>2, <4>1
    <3> QED
      BY <3>1, <3>2
  <2>2. g = [k \in 0..n |-> g[k]] /\ body(g) = [k \in 0..n |-> body(g)[k]]
    OBVIOUS
  <2> HIDE DEF body
  <2>3. [k \in 0..n |-> g[k]] = [k \in 0..n |-> body(g)[k]]
    BY <2>1
  <2> QED
    BY <2>2, <2>3
<1>8. upto = body(upto)
  <2> HIDE DEF body
  <2> QED
    BY <1>7
<1>9. upto[0] = Len(text) /\ \A k \in 1..n : upto[k] = upto[k - 1] + Len(session[k])
  <2>1. 0 \in 0..n /\ \A k \in 1..n : k \in 0..n /\ k # 0
    BY <1>2
  <2>2. upto[0] = body(upto)[0] /\ \A k \in 1..n : upto[k] = body(upto)[k]
    BY <1>8
  <2> HIDE DEF upto
  <2> QED
    BY <2>1, <2>2
<1>13. upto = [k \in 0..n |-> upto[k]]
  BY <1>8
<1> HIDE DEF upto
<1> DEFINE S == {k \in 0..n : upto[k] \in Nat}
<1>10. 0 \in S
  BY <1>2, <1>9
<1>11. \A k \in 0..(n - 1) : k \in S => k + 1 \in S
  <2> SUFFICES ASSUME NEW k \in 0..(n - 1), upto[k] \in Nat PROVE k + 1 \in 0..n /\ upto[k + 1] \in Nat
    OBVIOUS
  <2>1. k + 1 \in 1..n /\ (k + 1) - 1 = k /\ k + 1 \in 0..n
    BY <1>2
  <2>2. upto[k + 1] = upto[k] + Len(session[k + 1]) /\ Len(session[k + 1]) \in Nat
    <3>1. upto[k + 1] = upto[(k + 1) - 1] + Len(session[k + 1])
      BY <1>9, <2>1
    <3> QED
      BY <1>2, <2>1, <3>1
  <2> QED
    BY <2>1, <2>2
<1> HIDE DEF S
<1>12. \A k \in 0..n : k \in S
  BY <1>2, <1>10, <1>11, Induction
<1>14. upto \in [0..n -> Nat]
  BY <1>12, <1>13 DEF S
<1> QED
  BY <1>1, <1>9, <1>14 DEF Lengths, n

(* The length of what was written is a number. *)
LEMMA WrittenIsNat ==
  ASSUME NEW T, session \in Seq(Seq(T)), text \in Seq(T)
  PROVE  Written \in Nat
<1>1. PICK upto : upto \in Lengths
  BY WrittenUnfolds
<1>2. Len(session) \in 0..Len(session)
  OBVIOUS
<1> QED
  BY <1>1, <1>2 DEF Lengths

-----------------------------------------------------------------------------
(* Voices *)

Everybody == {"free", "backed", "bare", "aside", "pro", "graph", "code"}
AllWords ==
    (UNION {q.words : q \in Questions}) \cup {Guarded(q.message) : q \in Questions} \cup
    {"m1", "m2", "o1", "o2", "name", "leak", "unavailable", "guard", "diagnosis"}
\* The pieces of some voices.
Said(voices) == [w : AllWords, by : voices, n : Nat]

\* Who may be in a text of the agents: words without evidence only after a specialist was asked.
Spoken == {"free", "backed", "graph"} \cup (IF Delegated THEN {"bare"} ELSE {})
\* What a specialist's tool call is accompanied by.
AsWell == IF agent = "tool" THEN {"aside"} ELSE {}
\* Whose words may be shown.
Public ==
    {"free", "backed", "graph", "pro", "code"} \cup
    (IF Evident \/ (mode = "clarification" /\ response.status # "none") THEN {"bare"} ELSE {})

\* The event comes while a specialist works: the request has seen its call, or will, and no output since.
Within(i) ==
    \E j \in 0..(i - 1) :
        /\ IF j = 0 THEN request.active ELSE events[j].kind = "called"
        /\ \A k \in (j + 1)..(i - 1) : events[k].kind # "output"

EventsKept ==
    /\ events \in Seq([kind : {"delta", "called", "output", "end", "raised"}, piece : Said(Everybody) \cup {<<>>}])
    /\ \A i \in DOMAIN events :
          /\ events[i].kind = "delta" => events[i].piece \in Said(Spoken \cup {"aside"})
          /\ events[i].kind = "delta" /\ events[i].piece.by = "aside" => Within(i)
          /\ events[i].kind \in {"end", "raised"} => agent = "ended"
    /\ agent = "tool" => Within(Len(events) + 1)

RunKept ==
    /\ agent \notin {"speaks", "tool"} => R!Idle
    /\ agent \in {"new", "diagnoses"} => text \in Seq(Said({"graph"}))
    /\ pro.status = "writes" => agent = "ended"
    /\ response.status # "none" => agent = "ended"
    /\ response = [status |-> response.status, answer |-> response.answer, cites |-> response.cites]

RequestKept ==
    /\ request = [active |-> request.active, reasons |-> request.reasons, delegated |-> request.delegated,
                  streamed |-> request.streamed, kept |-> request.kept, stream |-> request.stream]
    /\ request.active \in BOOLEAN
    /\ request.kept \in Seq(Said(Spoken))
    /\ request.stream \in Streams(Said(Public))

VoicesKept ==
    /\ RunKept
    /\ text \in Seq(Said(Spoken \cup AsWell))
    /\ session \in Seq(Seq(Said(Everybody)))
    /\ pro = [status |-> pro.status, text |-> pro.text] /\ pro.text \in Seq(Said({"pro"}))
    /\ EventsKept
    /\ RequestKept
    /\ shown \in Seq(Said(Public))

(* More voices have more to say. *)
LEMMA SaidGrows ==
  ASSUME NEW A, NEW B, A \subseteq B
  PROVE  /\ Said(A) \subseteq Said(B)
         /\ Seq(Said(A)) \subseteq Seq(Said(B))
         /\ Streams(Said(A)) \subseteq Streams(Said(B))
<1>1. Said(A) \subseteq Said(B)
  BY DEF Said
<1>2. ASSUME NEW s \in Seq(Said(A)) PROVE s \in Seq(Said(B))
  BY <1>1
<1>3. Seq(Said(A)) \subseteq Seq(Said(B))
  BY <1>2
<1>4. Streams(Said(A)) \subseteq Streams(Said(B))
  BY <1>3 DEF Streams
<1> QED
  BY <1>1, <1>3, <1>4

(* What the code says itself is among what may be shown. *)
LEMMA SaidIsClosed ==
  ASSUME NEW A, "code" \in A
  PROVE  Closed(Said(A)) /\ \A w \in AllWords : Fixed(w) \in Seq(Said(A))
<1>1. \A p \in Said(A) : [p EXCEPT !.w = "name"] \in Said(A)
  BY DEF Said, AllWords
<1>2. \A w \in AllWords : [w |-> w, by |-> "code", n |-> 0] \in Said(A)
  BY DEF Said
<1>3. "leak" \in AllWords
  BY DEF AllWords
<1> QED
  BY <1>1, <1>2, <1>3 DEF Closed, Fixed

(* A run that has evidence keeps it: its citations are never taken back. *)
LEMMA EvidentGrows == CitesGrow /\ Evident => Evident'
BY DEF CitesGrow, Evident, Evidence

(* What its agents may have written by now they may have written later, *)
LEMMA SpokenGrows ==
  ASSUME UNCHANGED route, used \subseteq used'
  PROVE  (Delegated => Delegated') /\ Spoken \subseteq Spoken'
BY DEF Delegated, Spoken

(* and what may be shown by now may be shown later. *)
LEMMA PublicGrows ==
  ASSUME CitesGrow, response.status # "none" => response'.status # "none" /\ mode' = mode
  PROVE  Public \subseteq Public'
BY EvidentGrows DEF Public

(* What may not be said never comes to be in a text that stays. *)
LEMMA TextStays ==
  ASSUME VoicesKept, UNCHANGED text, Spoken \subseteq Spoken', agent = "tool" => agent' = "tool"
  PROVE  text' \in Seq(Said(Spoken \cup AsWell))'
<1>1. Spoken \cup AsWell \subseteq Spoken' \cup AsWell'
  BY DEF AsWell
<1>2. Seq(Said(Spoken \cup AsWell)) \subseteq Seq(Said(Spoken' \cup AsWell'))
  BY <1>1, SaidGrows
<1>3. text \in Seq(Said(Spoken \cup AsWell))
  BY DEF VoicesKept
<1>4. text' \in Seq(Said(Spoken' \cup AsWell'))
  BY <1>2, <1>3
<1>5. Said(Spoken \cup AsWell)' = Said(Spoken' \cup AsWell')
  BY DEF Said, AllWords
<1> QED
  BY <1>4, <1>5

(* A step that leaves the request's text and its stream leaves them sound, *)
LEMMA RequestStaysSaid ==
  ASSUME VoicesKept, Spoken \subseteq Spoken', Public \subseteq Public', request'.active \in BOOLEAN,
         request'.kept = request.kept, request'.stream = request.stream,
         request' = [active |-> request'.active, reasons |-> request'.reasons, delegated |-> request'.delegated,
                     streamed |-> request'.streamed, kept |-> request'.kept, stream |-> request'.stream]
  PROVE  RequestKept'
<1>1. Seq(Said(Spoken)) \subseteq Seq(Said(Spoken')) /\ Streams(Said(Public)) \subseteq Streams(Said(Public'))
  BY SaidGrows
<1>2. RequestKept
  BY DEF VoicesKept
<1>3. request'.kept \in Seq(Said(Spoken')) /\ request'.stream \in Streams(Said(Public'))
  BY <1>1, <1>2 DEF RequestKept
<1>4. Said(Spoken)' = Said(Spoken') /\ Streams(Said(Public))' = Streams(Said(Public'))
  BY DEF Said, AllWords, Streams
<1> QED
  BY <1>2, <1>3, <1>4 DEF RequestKept

(* as does one that leaves the request alone, *)
LEMMA RequestStays ==
  ASSUME VoicesKept, UNCHANGED request, Spoken \subseteq Spoken', Public \subseteq Public'
  PROVE  RequestKept'
BY RequestStaysSaid DEF VoicesKept, RequestKept

(* the text that was shown, *)
LEMMA ShownStays ==
  ASSUME VoicesKept, UNCHANGED shown, Public \subseteq Public'
  PROVE  shown' \in Seq(Said(Public))'
<1>1. Seq(Said(Public)) \subseteq Seq(Said(Public'))
  BY SaidGrows
<1>2. shown' \in Seq(Said(Public'))
  BY <1>1 DEF VoicesKept
<1> QED
  BY <1>2 DEF Said, AllWords

(* the session's messages, *)
LEMMA SessionStays ==
  ASSUME VoicesKept, UNCHANGED session
  PROVE  session' \in Seq(Seq(Said(Everybody)))'
BY DEF VoicesKept, Said, AllWords, Everybody

(* and the synthesis. *)
LEMMA ProStays ==
  ASSUME VoicesKept, UNCHANGED pro
  PROVE  pro' = [status |-> pro'.status, text |-> pro'.text] /\ pro'.text \in Seq(Said({"pro"}))'
BY DEF VoicesKept, Said, AllWords

\* What an event may be.
AnEvent == [kind : {"delta", "called", "output", "end", "raised"}, piece : Said(Everybody) \cup {<<>>}]

(* Events wait to be read. *)
LEMMA EventsStay ==
  ASSUME EventsKept, UNCHANGED events, request'.active = request.active, Spoken \subseteq Spoken',
         agent = "ended" => agent' = "ended", agent' = "tool" => agent = "tool"
  PROVE  EventsKept'
<1>1. Spoken \cup {"aside"} \subseteq Spoken' \cup {"aside"}
  OBVIOUS
<1>2. Said(Spoken \cup {"aside"}) \subseteq Said(Spoken' \cup {"aside"})
  BY <1>1, SaidGrows
<1>3. Said(Spoken \cup {"aside"})' = Said(Spoken' \cup {"aside"})
  BY DEF Said, AllWords
<1>4. \A i : Within(i)' <=> Within(i)
  BY DEF Within
<1>5. events' \in Seq([kind : {"delta", "called", "output", "end", "raised"}, piece : Said(Everybody) \cup {<<>>}])'
  BY DEF EventsKept, Said, AllWords, Everybody
<1>6. ASSUME NEW i \in DOMAIN events'
      PROVE  /\ events'[i].kind = "delta" => events'[i].piece \in Said(Spoken \cup {"aside"})'
             /\ events'[i].kind = "delta" /\ events'[i].piece.by = "aside" => Within(i)'
             /\ events'[i].kind \in {"end", "raised"} => agent' = "ended"
  BY <1>2, <1>3, <1>4, <1>6 DEF EventsKept
<1>7. agent' = "tool" => Within(Len(events) + 1)'
  BY <1>4 DEF EventsKept
<1> QED
  BY <1>5, <1>6, <1>7 DEF EventsKept

\* An event that follows those that are there.
Follows(e) ==
    /\ e \in AnEvent
    /\ e.kind = "delta" => /\ e.piece \in Said(Spoken' \cup {"aside"})
                           /\ e.piece.by = "aside" => Within(Len(events) + 1)
    /\ e.kind \in {"end", "raised"} => agent' = "ended"
    /\ agent' = "tool" => e.kind = "called" \/ (agent = "tool" /\ e.kind # "output")

(* An event that follows from the run's state may be emitted. *)
LEMMA EventFollows ==
  ASSUME EventsKept, NEW e, Emits(e), Follows(e), UNCHANGED request, Spoken \subseteq Spoken',
         agent = "ended" => agent' = "ended"
  PROVE  EventsKept'
<1>12. PICK n \in Nat : n = Len(events)
  BY DEF EventsKept
<1>1. Spoken \cup {"aside"} \subseteq Spoken' \cup {"aside"}
  OBVIOUS
<1>2. Said(Spoken \cup {"aside"}) \subseteq Said(Spoken' \cup {"aside"})
  BY <1>1, SaidGrows
<1>3. Said(Spoken \cup {"aside"})' = Said(Spoken' \cup {"aside"})
  BY DEF Said, AllWords
<1>4. events \in Seq(AnEvent) /\ events' = Append(events, e) /\ e \in AnEvent /\ AnEvent' = AnEvent
  BY DEF EventsKept, AnEvent, Emits, Follows, Said, AllWords, Everybody
<1>5. /\ n \in Nat /\ events' \in Seq(AnEvent) /\ Len(events') = n + 1
      /\ (\A i \in 1..n : events'[i] = events[i]) /\ events'[n + 1] = e
  BY <1>4, <1>12
<1>6. ASSUME NEW i \in 1..(n + 1), Within(i) PROVE Within(i)'
  <2>1. PICK j \in 0..(i - 1) : /\ IF j = 0 THEN request.active ELSE events[j].kind = "called"
                                /\ \A k \in (j + 1)..(i - 1) : events[k].kind # "output"
    BY <1>6 DEF Within
  <2>2. \A k \in 1..(i - 1) : events'[k] = events[k]
    BY <1>5
  <2>3. IF j = 0 THEN request'.active ELSE events'[j].kind = "called"
    BY <1>5, <2>1, <2>2
  <2>4. \A k \in (j + 1)..(i - 1) : events'[k].kind # "output"
    BY <1>5, <2>1, <2>2
  <2> QED
    BY <2>3, <2>4 DEF Within
<1>7. ASSUME NEW i \in DOMAIN events'
      PROVE  /\ events'[i].kind = "delta" => events'[i].piece \in Said(Spoken \cup {"aside"})'
             /\ events'[i].kind = "delta" /\ events'[i].piece.by = "aside" => Within(i)'
             /\ events'[i].kind \in {"end", "raised"} => agent' = "ended"
  <2>1. i \in 1..(n + 1)
    BY <1>5
  <2>2. CASE i = n + 1
    BY <1>3, <1>5, <1>6, <1>12, <2>1, <2>2 DEF Follows
  <2>3. CASE i # n + 1
    <3>1. i \in DOMAIN events /\ events'[i] = events[i]
      BY <1>4, <1>5, <1>12, <2>1, <2>3
    <3> QED
      BY <1>2, <1>3, <1>6, <2>1, <3>1 DEF EventsKept
  <2> QED
    BY <2>2, <2>3
<1>8. agent' = "tool" => Within(n + 2)'
  <2> SUFFICES ASSUME agent' = "tool" PROVE Within(n + 2)'
    OBVIOUS
  <2>1. CASE e.kind = "called"
    <3>1. n + 1 \in 0..(n + 2 - 1) /\ n + 1 # 0 /\ events'[n + 1].kind = "called"
      BY <1>5, <2>1
    <3>2. \A k \in (n + 1 + 1)..(n + 2 - 1) : events'[k].kind # "output"
      BY <1>5
    <3> QED
      BY <3>1, <3>2 DEF Within
  <2>2. CASE agent = "tool" /\ e.kind # "output"
    <3>1. Within(n + 1)'
      BY <1>5, <1>6, <1>12, <2>2 DEF EventsKept
    <3>2. PICK j \in 0..(n + 1 - 1) : /\ IF j = 0 THEN request'.active ELSE events'[j].kind = "called"
                                      /\ \A k \in (j + 1)..(n + 1 - 1) : events'[k].kind # "output"
      BY <3>1 DEF Within
    <3>3. \A k \in (j + 1)..(n + 2 - 1) : events'[k].kind # "output"
      BY <1>5, <2>2, <3>2
    <3>4. j \in 0..(n + 2 - 1)
      BY <1>5, <3>2
    <3> QED
      BY <3>2, <3>3, <3>4 DEF Within
  <2> QED
    BY <2>1, <2>2 DEF Follows
<1>9. Len(events') + 1 = n + 2
  BY <1>5
<1>10. agent' = "tool" => Within(Len(events) + 1)'
  BY <1>8, <1>9
<1>11. events' \in Seq([kind : {"delta", "called", "output", "end", "raised"}, piece : Said(Everybody) \cup {<<>>}])'
  BY <1>4, <1>5 DEF AnEvent
<1> QED
  BY <1>7, <1>10, <1>11 DEF EventsKept

(* An event is read. *)
LEMMA EventRead ==
  ASSUME EventsKept, events # <<>>, events' = Tail(events), UNCHANGED <<agent, Spoken>>,
         Head(events).kind = "called" => request'.active,
         Head(events).kind \notin {"called", "output"} => (request.active => request'.active)
  PROVE  EventsKept'
<1> DEFINE n == Len(events)
<1>1. Said(Spoken \cup {"aside"})' = Said(Spoken \cup {"aside"})
  BY DEF Said, AllWords
<1>2. events \in Seq(AnEvent) /\ AnEvent' = AnEvent
  BY DEF EventsKept, AnEvent, Said, AllWords, Everybody
<1>3. /\ n \in Nat /\ n > 0 /\ events' \in Seq(AnEvent) /\ Len(events') = n - 1
      /\ (\A i \in 1..(n - 1) : events'[i] = events[i + 1]) /\ Head(events) = events[1]
  BY <1>2
<1> HIDE DEF n
<1>4. ASSUME NEW i \in 1..n, Within(i + 1) PROVE Within(i)'
  <2>1. PICK j \in 0..(i + 1 - 1) : /\ IF j = 0 THEN request.active ELSE events[j].kind = "called"
                                    /\ \A k \in (j + 1)..(i + 1 - 1) : events[k].kind # "output"
    BY <1>4 DEF Within
  <2>2. ASSUME NEW k \in 1..(i - 1), j < k + 1 PROVE events'[k].kind # "output"
    <3>1. k + 1 \in (j + 1)..(i + 1 - 1) /\ k \in 1..(n - 1)
      BY <1>3, <2>2
    <3> QED
      BY <1>3, <2>1, <3>1
  <2>3. CASE j = 0 \/ j = 1
    <3>1. request'.active
      <4>1. CASE j = 1
        BY <1>3, <2>1, <4>1
      <4>2. CASE j = 0
        <5>1. 1 \in (j + 1)..(i + 1 - 1)
          BY <1>3, <4>2
        <5> QED
          BY <1>3, <2>1, <4>2, <5>1
      <4> QED
        BY <2>3, <4>1, <4>2
    <3>2. \A k \in (0 + 1)..(i - 1) : events'[k].kind # "output"
      BY <1>3, <2>2, <2>3
    <3>3. 0 \in 0..(i - 1)
      BY <1>3
    <3> QED
      BY <3>1, <3>2, <3>3 DEF Within
  <2>4. CASE j > 1
    <3>1. j - 1 \in 0..(i - 1) /\ j - 1 # 0 /\ j - 1 \in 1..(n - 1)
      BY <1>3, <2>1, <2>4
    <3>2. events'[j - 1].kind = "called"
      BY <1>3, <2>1, <2>4, <3>1
    <3>3. \A k \in (j - 1 + 1)..(i - 1) : events'[k].kind # "output"
      BY <1>3, <2>2, <2>4
    <3> QED
      BY <3>1, <3>2, <3>3 DEF Within
  <2> QED
    BY <2>1, <2>3, <2>4
<1>5. ASSUME NEW i \in DOMAIN events'
      PROVE  /\ events'[i].kind = "delta" => events'[i].piece \in Said(Spoken \cup {"aside"})'
             /\ events'[i].kind = "delta" /\ events'[i].piece.by = "aside" => Within(i)'
             /\ events'[i].kind \in {"end", "raised"} => agent' = "ended"
  <2>1. i \in 1..(n - 1) /\ i \in 1..n /\ events'[i] = events[i + 1] /\ i + 1 \in DOMAIN events
    BY <1>2, <1>3 DEF n
  <2> QED
    BY <1>1, <1>4, <2>1 DEF EventsKept
<1>6. agent' = "tool" => Within(Len(events) + 1)'
  <2>1. Len(events') + 1 = n /\ n \in 1..n
    BY <1>3
  <2> QED
    BY <1>4, <2>1 DEF EventsKept, n
<1>7. events' \in Seq([kind : {"delta", "called", "output", "end", "raised"}, piece : Said(Everybody) \cup {<<>>}])'
  BY <1>2, <1>3 DEF AnEvent
<1> QED
  BY <1>5, <1>6, <1>7 DEF EventsKept

(* A step that leaves the evidence alone. *)
LEMMA EvidenceRests == UNCHANGED retrievalVars => CitesGrow /\ mode' = mode /\ (R!Idle' <=> R!Idle)
BY DEF retrievalVars, CitesGrow, R!Idle

(* A message is one of the session's. *)
LEMMA MessageIsSaid ==
  ASSUME VoicesKept
  PROVE  text \in Seq(Said(Everybody)) /\ Append(session, text) \in Seq(Seq(Said(Everybody)))
<1>1. Spoken \cup AsWell \subseteq Everybody
  BY DEF Spoken, AsWell, Everybody
<1>2. text \in Seq(Said(Everybody))
  BY <1>1, SaidGrows DEF VoicesKept
<1> QED
  BY <1>2 DEF VoicesKept

(* The guard's words are fixed. *)
LEMMA GuardKeepsVoices ==
  ASSUME EvidenceKept, VoicesKept, Guard
  PROVE  VoicesKept'
<1>1. /\ UNCHANGED <<retrievalVars, ask, route, text, session, used, override, events, request, pro>>
      /\ agent = "new" /\ agent' = "ended" /\ shown' = Fixed(Guarded(ask.message))
      /\ response' = [status |-> "completed", answer |-> Fixed(Guarded(ask.message)), cites |-> <<>>]
  BY DEF Guard
<1>2. CitesGrow /\ mode' = mode /\ (R!Idle' <=> R!Idle)
  BY <1>1, EvidenceRests
<1>3. Public \subseteq Public' /\ Spoken \subseteq Spoken'
  BY <1>1, <1>2, PublicGrows, SpokenGrows
<1>4. RunKept'
  BY <1>1, <1>2 DEF RunKept, VoicesKept, Said, AllWords
<1>5. shown' \in Seq(Said(Public))'
  <2>1. Guarded(ask.message) \in AllWords /\ "code" \in Public'
    BY DEF AllWords, EvidenceKept, Public
  <2>2. shown' \in Seq(Said(Public'))
    BY <1>1, <2>1, SaidIsClosed
  <2> QED
    BY <2>2 DEF Said, AllWords
<1>6. text' \in Seq(Said(Spoken \cup AsWell))'
  BY <1>1, <1>3, TextStays
<1>7. EventsKept'
  BY <1>1, <1>3, EventsStay DEF VoicesKept
<1> QED
  BY <1>1, <1>3, <1>4, <1>5, <1>6, <1>7, SessionStays, ProStays, RequestStays DEF VoicesKept

(* The agents start with nothing written. *)
LEMMA StartKeepsVoices ==
  ASSUME EvidenceKept, VoicesKept, Start
  PROVE  VoicesKept'
<1>1. /\ UNCHANGED <<retrievalVars, ask, route, text, session, used, override, events, pro, shown, response>>
      /\ agent = "new" /\ agent' \in {"diagnoses", "speaks"} /\ request' = [request EXCEPT !.reasons = Reasons]
  BY DEF Start
<1>2. CitesGrow /\ mode' = mode /\ (R!Idle' <=> R!Idle)
  BY <1>1, EvidenceRests
<1>3. Public \subseteq Public' /\ Spoken \subseteq Spoken'
  BY <1>1, <1>2, PublicGrows, SpokenGrows
<1>4. RunKept'
  BY <1>1, <1>2 DEF RunKept, VoicesKept, Said, AllWords
<1>5. /\ request'.active = request.active /\ request'.active \in BOOLEAN /\ request'.kept = request.kept /\ request'.stream = request.stream
      /\ request' = [active |-> request'.active, reasons |-> request'.reasons, delegated |-> request'.delegated,
                     streamed |-> request'.streamed, kept |-> request'.kept, stream |-> request'.stream]
  BY <1>1 DEF VoicesKept, RequestKept
<1>6. text' \in Seq(Said(Spoken \cup AsWell))'
  BY <1>1, <1>3, TextStays
<1>7. EventsKept'
  <2>1. EventsKept /\ agent' # "tool" /\ agent # "ended"
    BY <1>1 DEF VoicesKept
  <2> QED
    BY <1>1, <1>3, <1>5, <2>1, EventsStay
<1>8. RequestKept'
  BY <1>3, <1>5, RequestStaysSaid
<1> QED
  BY <1>1, <1>3, <1>4, <1>6, <1>7, <1>8, SessionStays, ProStays, ShownStays DEF VoicesKept

(* What an agent writes has the standing of the run it writes in. *)
LEMMA WriteKeepsVoices ==
  ASSUME EvidenceKept, VoicesKept, Write
  PROVE  VoicesKept'
<1>1. /\ UNCHANGED <<retrievalVars, ask, route, agent, session, used, override, request, pro, shown, response>>
      /\ agent \in {"speaks", "tool"}
  BY DEF Write
<1>2. CitesGrow /\ mode' = mode /\ (R!Idle' <=> R!Idle)
  BY <1>1, EvidenceRests
<1>3. Public \subseteq Public' /\ Spoken \subseteq Spoken' /\ Spoken' = Spoken /\ AsWell' = AsWell
  BY <1>1, <1>2, PublicGrows, SpokenGrows DEF Spoken, AsWell, Delegated
<1>4. RunKept'
  BY <1>1, <1>2 DEF RunKept, VoicesKept, Said, AllWords
<1>5. PICK w \in Words : text' = Append(text, Piece(w, Standing)) /\ Emits(Delta(Piece(w, Standing)))
  BY DEF Write
<1> DEFINE p == Piece(w, Standing)
<1>6. w \in AllWords
  BY DEF Words, AllWords, EvidenceKept
<1>7. Written \in Nat
  BY MessageIsSaid, WrittenIsNat DEF VoicesKept
<1>8. Standing \in Spoken \cup AsWell /\ Standing \in Everybody /\ (Standing = "aside" => agent = "tool")
      /\ Standing \in Spoken \cup {"aside"}
  BY DEF Standing, Spoken, AsWell, Everybody
<1>9. \A voices : Standing \in voices => p \in Said(voices)
  BY <1>6, <1>7 DEF Piece, Said
<1>10. p.by = Standing
  BY DEF Piece
<1> HIDE DEF p
<1>11. text' \in Seq(Said(Spoken \cup AsWell))'
  <2>1. p \in Said(Spoken \cup AsWell)
    BY <1>8, <1>9
  <2>2. text' = Append(text, p)
    BY <1>5 DEF p
  <2>3. text' \in Seq(Said(Spoken \cup AsWell))
    BY <2>1, <2>2 DEF VoicesKept
  <2> QED
    BY <1>3, <2>3 DEF Said, AllWords
<1>12. EventsKept'
  <2>1. Emits(Delta(p))
    BY <1>5 DEF p
  <2>2. p \in Said(Everybody) /\ p \in Said(Spoken' \cup {"aside"})
    BY <1>3, <1>8, <1>9
  <2>3. p.by = "aside" => Within(Len(events) + 1)
    BY <1>8, <1>10 DEF VoicesKept, EventsKept
  <2>4. Delta(p).kind = "delta" /\ Delta(p).piece = p /\ Delta(p) \in AnEvent
    BY <2>2 DEF Delta, AnEvent
  <2>5. Follows(Delta(p))
    BY <1>1, <2>2, <2>3, <2>4 DEF Follows
  <2> QED
    BY <1>1, <1>3, <2>1, <2>5, EventFollows DEF VoicesKept
<1> QED
  BY <1>1, <1>3, <1>4, <1>11, <1>12, SessionStays, ProStays, ShownStays, RequestStays DEF VoicesKept

(* From the call of a specialist on the request will know of it. *)
LEMMA DelegateKeepsVoices ==
  ASSUME EvidenceKept, VoicesKept, NEW s \in Specialists, Delegate(s)
  PROVE  VoicesKept'
<1>1. /\ UNCHANGED <<retrievalVars, ask, route, text, session, override, request, pro, shown, response>>
      /\ agent = "speaks" /\ agent' = "tool" /\ used' = used \cup {s} /\ Emits(Event("called"))
  BY DEF Delegate
<1>2. CitesGrow /\ mode' = mode /\ (R!Idle' <=> R!Idle)
  BY <1>1, EvidenceRests
<1>3. Public \subseteq Public' /\ Spoken \subseteq Spoken'
  BY <1>1, <1>2, PublicGrows, SpokenGrows
<1>4. RunKept'
  BY <1>1, <1>2 DEF RunKept, VoicesKept, Said, AllWords
<1>5. text' \in Seq(Said(Spoken \cup AsWell))'
  BY <1>1, <1>3, TextStays
<1>6. EventsKept'
  <2>1. Event("called").kind = "called" /\ Event("called") \in AnEvent
    BY DEF Event, None, AnEvent
  <2>2. Follows(Event("called"))
    BY <2>1 DEF Follows
  <2> QED
    BY <1>1, <1>3, <2>2, EventFollows DEF VoicesKept
<1> QED
  BY <1>1, <1>3, <1>4, <1>5, <1>6, SessionStays, ProStays, ShownStays, RequestStays DEF VoicesKept

(* The output of a specialist ends the aside. *)
LEMMA ReturnKeepsVoices ==
  ASSUME EvidenceKept, VoicesKept, Return
  PROVE  VoicesKept'
<1>1. /\ UNCHANGED <<retrievalVars, ask, route, used, override, request, pro, shown, response>>
      /\ agent = "tool" /\ agent' = "speaks" /\ text' = <<>> /\ Emits(Event("output"))
      /\ session' = session \/ session' = Append(session, text)
  BY DEF Return
<1>2. CitesGrow /\ mode' = mode /\ (R!Idle' <=> R!Idle)
  BY <1>1, EvidenceRests
<1>3. Public \subseteq Public' /\ Spoken \subseteq Spoken'
  BY <1>1, <1>2, PublicGrows, SpokenGrows
<1>4. RunKept'
  BY <1>1, <1>2 DEF RunKept, VoicesKept, Said, AllWords
<1>5. text' \in Seq(Said(Spoken \cup AsWell))'
  BY <1>1
<1>6. EventsKept'
  <2>1. Event("output").kind = "output" /\ Event("output") \in AnEvent
    BY DEF Event, None, AnEvent
  <2>2. Follows(Event("output"))
    BY <1>1, <2>1 DEF Follows
  <2> QED
    BY <1>1, <1>3, <2>2, EventFollows DEF VoicesKept
<1>7. session' \in Seq(Seq(Said(Everybody)))'
  BY <1>1, MessageIsSaid, SessionStays DEF Said, AllWords, Everybody
<1> QED
  BY <1>1, <1>3, <1>4, <1>5, <1>6, <1>7, ProStays, ShownStays, RequestStays DEF VoicesKept

(* The last event follows all the others. *)
LEMMA FinishKeepsVoices ==
  ASSUME EvidenceKept, VoicesKept, NEW kind \in {"end", "raised"}, Finish(kind)
  PROVE  VoicesKept'
<1>1. /\ UNCHANGED <<retrievalVars, ask, route, text, session, used, override, request, pro, shown, response>>
      /\ agent = "speaks" /\ agent' = "ended" /\ R!Idle /\ Emits(Event(kind))
  BY DEF Finish
<1>2. CitesGrow /\ mode' = mode /\ (R!Idle' <=> R!Idle)
  BY <1>1, EvidenceRests
<1>3. Public \subseteq Public' /\ Spoken \subseteq Spoken'
  BY <1>1, <1>2, PublicGrows, SpokenGrows
<1>4. RunKept'
  BY <1>1, <1>2 DEF RunKept, VoicesKept, Said, AllWords
<1>5. text' \in Seq(Said(Spoken \cup AsWell))'
  BY <1>1, <1>3, TextStays
<1>6. EventsKept'
  <2>1. Event(kind).kind = kind /\ Event(kind) \in AnEvent
    BY DEF Event, None, AnEvent
  <2>2. Follows(Event(kind))
    BY <1>1, <2>1 DEF Follows
  <2> QED
    BY <1>1, <1>3, <2>2, EventFollows DEF VoicesKept
<1> QED
  BY <1>1, <1>3, <1>4, <1>5, <1>6, SessionStays, ProStays, ShownStays, RequestStays DEF VoicesKept

(* A tool is called, goes on, or is told to reuse what there is. *)
LEMMA CallKeepsVoices ==
  ASSUME EvidenceKept, VoicesKept, CitesGrow, UNCHANGED <<ask, route, agent, used, requestVars>>,
         agent \in {"speaks", "tool"},
         UNCHANGED <<session, text>> \/ (session' = Append(session, text) /\ text' = <<>>)
  PROVE  VoicesKept'
<1>1. UNCHANGED <<events, request, pro, shown, response>>
  BY DEF requestVars
<1>2. response.status = "none"
  BY DEF VoicesKept, RunKept
<1>3. Public \subseteq Public' /\ Spoken \subseteq Spoken'
  BY <1>1, <1>2, PublicGrows, SpokenGrows
<1>4. RunKept'
  BY <1>1 DEF RunKept, VoicesKept, Said, AllWords
<1>5. text' \in Seq(Said(Spoken \cup AsWell))'
  <2>1. CASE UNCHANGED text
    BY <1>3, <2>1, TextStays
  <2>2. CASE text' = <<>>
    BY <2>2
  <2> QED
    BY <2>1, <2>2
<1>6. session' \in Seq(Seq(Said(Everybody)))'
  BY MessageIsSaid, SessionStays DEF Said, AllWords, Everybody
<1>7. EventsKept'
  BY <1>1, <1>3, EventsStay DEF VoicesKept
<1> QED
  BY <1>1, <1>3, <1>4, <1>5, <1>6, <1>7, ProStays, ShownStays, RequestStays DEF VoicesKept

(* Without a call there is nothing to go on but the cooling of a circuit. *)
LEMMA IdleProgress ==
  ASSUME EvidenceKept, R!Idle, R!Progress
  PROVE  UNCHANGED <<cites, tool, mode>>
<1>1. flights = {}
  BY DEF EvidenceKept
<1>2. PICK p \in R!Providers : R!Cool(p)
  BY <1>1 DEF R!Progress, R!FallBack, R!Deliver
<1> QED
  BY <1>2 DEF R!Cool

(* A search that goes on changes nothing of what is written. *)
LEMMA ProgressKeepsVoices ==
  ASSUME EvidenceKept, VoicesKept, CitesGrow, Progress
  PROVE  VoicesKept'
<1>1. R!Progress /\ UNCHANGED <<ask, route, agent, text, session, used, override, requestVars>>
  BY DEF Progress, agentVars
<1>2. CASE agent \in {"speaks", "tool"}
  BY <1>1, <1>2, CallKeepsVoices
<1>3. CASE agent \notin {"speaks", "tool"}
  <2>1. R!Idle
    BY <1>3 DEF VoicesKept, RunKept
  <2>2. UNCHANGED <<cites, tool, mode>>
    BY <1>1, <2>1, IdleProgress
  <2>3. UNCHANGED <<events, request, pro, shown, response>>
    BY <1>1 DEF requestVars
  <2>4. Public \subseteq Public' /\ Spoken \subseteq Spoken'
    BY <1>1, <2>2, <2>3, PublicGrows, SpokenGrows
  <2>5. RunKept'
    BY <1>1, <2>2, <2>3 DEF RunKept, VoicesKept, R!Idle
  <2>6. text' \in Seq(Said(Spoken \cup AsWell))'
    BY <1>1, <2>4, TextStays
  <2>7. EventsKept'
    BY <1>1, <2>3, <2>4, EventsStay DEF VoicesKept
  <2> QED
    BY <1>1, <2>3, <2>4, <2>5, <2>6, <2>7, SessionStays, ProStays, ShownStays, RequestStays DEF VoicesKept
<1> QED
  BY <1>2, <1>3

(* The agents' calls. *)
LEMMA CallsKeepVoices ==
  ASSUME EvidenceKept, VoicesKept, CitesGrow, Retrieve \/ Reuse \/ AskMetric \/ Diagnose
  PROVE  VoicesKept'
<1>1. UNCHANGED <<ask, route, agent, used, requestVars>> /\ agent \in {"speaks", "tool"}
  BY DEF Retrieve, Reuse, AskMetric, Diagnose, Collecting
<1>2. UNCHANGED <<session, text>> \/ (session' = Append(session, text) /\ text' = <<>>)
  BY DEF Retrieve, Reuse, AskMetric, Diagnose, Message
<1> QED
  BY <1>1, <1>2, CallKeepsVoices

\* The request's variables, from what they may keep and stream.
ARequest(r) ==
    /\ r = [active |-> r.active, reasons |-> r.reasons, delegated |-> r.delegated, streamed |-> r.streamed,
            kept |-> r.kept, stream |-> r.stream]
    /\ r.active \in BOOLEAN /\ r.kept \in Seq(Said(Spoken)) /\ r.stream \in Streams(Said(Public))

(* A request that is sound by what may be said now is sound by what may be said later. *)
LEMMA RequestFollows ==
  ASSUME NEW r, request' = r, ARequest(r), Spoken \subseteq Spoken', Public \subseteq Public'
  PROVE  RequestKept'
<1>1. Seq(Said(Spoken)) \subseteq Seq(Said(Spoken')) /\ Streams(Said(Public)) \subseteq Streams(Said(Public'))
  BY SaidGrows
<1>2. request'.kept \in Seq(Said(Spoken')) /\ request'.stream \in Streams(Said(Public'))
  BY <1>1 DEF ARequest
<1>3. Said(Spoken)' = Said(Spoken') /\ Streams(Said(Public))' = Streams(Said(Public'))
  BY DEF Said, AllWords, Streams
<1> QED
  BY <1>2, <1>3 DEF RequestKept, ARequest

(* So is a shown text. *)
LEMMA ShownFollows ==
  ASSUME shown' \in Seq(Said(Public)), Public \subseteq Public'
  PROVE  shown' \in Seq(Said(Public))'
<1>1. Seq(Said(Public)) \subseteq Seq(Said(Public'))
  BY SaidGrows
<1>2. shown' \in Seq(Said(Public'))
  BY <1>1
<1> QED
  BY <1>2 DEF Said, AllWords

(* What is shown of a piece, and what the stream keeps of it. *)
LEMMA ShowsSaid ==
  ASSUME shown \in Seq(Said(Public)), NEW local, ARequest(local), NEW p \in Said(Public), Shows(p, local)
  PROVE  /\ shown' \in Seq(Said(Public)) /\ ARequest(request') /\ request'.active = local.active
         /\ request'.kept = local.kept
<1> DEFINE fed == Feed(local.stream, <<p>>)
<1>1. Closed(Said(Public))
  BY SaidIsClosed DEF Public
<1>2. <<p>> \in Seq(Said(Public)) /\ local.stream \in Streams(Said(Public))
  BY DEF ARequest
<1>3. fed.s \in Streams(Said(Public)) /\ fed.out \in Seq(Said(Public))
  <2> DEFINE d == <<p>>
  <2> HIDE DEF d
  <2>1. d \in Seq(Said(Public))
    BY <1>2 DEF d
  <2>2. Feed(local.stream, d).s \in Streams(Said(Public)) /\ Feed(local.stream, d).out \in Seq(Said(Public))
    BY <1>1, <1>2, <2>1, FeedStays
  <2> QED
    BY <2>2 DEF d
<1>4. shown' = shown \o fed.out /\ request' = [local EXCEPT !.stream = fed.s]
  BY DEF Shows
<1> HIDE DEF fed
<1>5. request' = [active |-> local.active, reasons |-> local.reasons, delegated |-> local.delegated,
                  streamed |-> local.streamed, kept |-> local.kept, stream |-> fed.s]
  BY <1>4 DEF ARequest
<1>6. ARequest(request')
  BY <1>3, <1>5 DEF ARequest
<1> QED
  BY <1>3, <1>4, <1>5, <1>6

(* A piece is kept, or shown, or both. *)
LEMMA KeepsSaid ==
  ASSUME ARequest(request), NEW p \in Said(Spoken)
  PROVE  /\ ARequest(Keeps(p)) /\ Keeps(p).active = request.active
         /\ ARequest([Keeps(p) EXCEPT !.reasons = TRUE]) /\ [Keeps(p) EXCEPT !.reasons = TRUE].active = request.active
         /\ ARequest([Keeps(p) EXCEPT !.streamed = TRUE]) /\ [Keeps(p) EXCEPT !.streamed = TRUE].active = request.active
<1>1. PICK h : h = Keeps(p)
  OBVIOUS
<1>2. h = [active |-> request.active, reasons |-> request.reasons, delegated |-> request.delegated,
           streamed |-> request.streamed, kept |-> Append(request.kept, p), stream |-> request.stream]
  BY <1>1 DEF Keeps, ARequest
<1>3. Append(request.kept, p) \in Seq(Said(Spoken))
  BY DEF ARequest
<1>4. ARequest(h) /\ h.active = request.active
  BY <1>2, <1>3 DEF ARequest
<1>5. PICK g : g = [h EXCEPT !.reasons = TRUE]
  OBVIOUS
<1>6. PICK i : i = [h EXCEPT !.streamed = TRUE]
  OBVIOUS
<1>7. ARequest(g) /\ g.active = request.active
  <2>1. g = [active |-> request.active, reasons |-> TRUE, delegated |-> request.delegated,
             streamed |-> request.streamed, kept |-> Append(request.kept, p), stream |-> request.stream]
    BY <1>2, <1>5
  <2> QED
    BY <1>3, <2>1 DEF ARequest
<1>8. ARequest(i) /\ i.active = request.active
  <2>1. i = [active |-> request.active, reasons |-> request.reasons, delegated |-> request.delegated,
             streamed |-> TRUE, kept |-> Append(request.kept, p), stream |-> request.stream]
    BY <1>2, <1>6
  <2> QED
    BY <1>3, <2>1 DEF ARequest
<1> QED
  BY <1>1, <1>4, <1>5, <1>6, <1>7, <1>8

(* A delta that is read is kept, or shown if the run has evidence or no specialist was asked. *)
LEMMA ReadDeltaSaid ==
  ASSUME ARequest(request), shown \in Seq(Said(Public)), NEW p \in Said(Spoken \cup {"aside"}),
         p.by = "aside" => request.active, ReadDelta(p)
  PROVE  ARequest(request') /\ request'.active = request.active /\ shown' \in Seq(Said(Public))
<1>1. CASE request.active
  BY <1>1 DEF ReadDelta
<1>2. CASE ~request.active
  <2>1. p \in Said(Spoken)
    BY <1>2 DEF Said
  <2>2. CASE request' = [Keeps(p) EXCEPT !.reasons = TRUE] /\ UNCHANGED shown
    BY <2>1, <2>2, KeepsSaid
  <2>3. CASE ~Delegated /\ Shows(p, request)
    <3>1. p \in Said(Public)
      BY <2>1, <2>3 DEF Said, Spoken, Public
    <3> QED
      BY <2>3, <3>1, ShowsSaid
  <2>4. CASE Backed /\ Shows(p, [Keeps(p) EXCEPT !.streamed = TRUE])
    <3>1. p \in Said(Public)
      BY <2>1, <2>4 DEF Said, Spoken, Public, Backed
    <3>2. PICK h : h = [Keeps(p) EXCEPT !.streamed = TRUE]
      OBVIOUS
    <3>3. ARequest(h) /\ h.active = request.active /\ Shows(p, h)
      BY <2>1, <2>4, <3>2, KeepsSaid
    <3> QED
      BY <3>1, <3>3, ShowsSaid
  <2>5. CASE request' = Keeps(p) /\ UNCHANGED shown
    BY <2>1, <2>5, KeepsSaid
  <2> QED
    BY <1>2, <2>2, <2>3, <2>4, <2>5 DEF ReadDelta
<1> QED
  BY <1>1, <1>2

(* Reading an event: a call, a delta or an output. *)
LEMMA ReadKeepsVoices ==
  ASSUME EvidenceKept, VoicesKept, Read
  PROVE  VoicesKept'
<1>1. /\ UNCHANGED <<retrievalVars, ask, route, agent, text, session, used, override, pro, response>>
      /\ events # <<>> /\ events' = Tail(events)
  BY DEF Read, agentVars
<1>2. CitesGrow /\ mode' = mode /\ (R!Idle' <=> R!Idle)
  BY <1>1, EvidenceRests
<1>3. Public \subseteq Public' /\ Spoken \subseteq Spoken' /\ Spoken' = Spoken
  BY <1>1, <1>2, PublicGrows, SpokenGrows DEF Spoken, Delegated
<1>4. RunKept'
  BY <1>1, <1>2 DEF RunKept, VoicesKept, Said, AllWords
<1>5. text' \in Seq(Said(Spoken \cup AsWell))'
  BY <1>1, <1>3, TextStays
<1> DEFINE e == Head(events)
<1>6. 1 \in DOMAIN events /\ e = events[1] /\ e \in AnEvent
  <2>1. events \in Seq(AnEvent)
    BY DEF VoicesKept, EventsKept, AnEvent
  <2> QED
    BY <1>1, <2>1
<1>7. ARequest(request) /\ shown \in Seq(Said(Public))
  BY DEF VoicesKept, RequestKept, ARequest
<1>8. \/ e.kind = "delta" /\ ReadDelta(e.piece)
      \/ e.kind = "called" /\ request' = [request EXCEPT !.active = TRUE, !.delegated = TRUE] /\ UNCHANGED shown
      \/ e.kind = "output" /\ request' = [request EXCEPT !.active = FALSE] /\ UNCHANGED shown
  BY DEF Read
<1>9. /\ ARequest(request') /\ shown' \in Seq(Said(Public))
      /\ e.kind = "called" => request'.active
      /\ e.kind \notin {"called", "output"} => (request.active => request'.active)
  <2>1. CASE e.kind = "delta" /\ ReadDelta(e.piece)
    <3>1. e.piece \in Said(Spoken \cup {"aside"}) /\ (e.piece.by = "aside" => Within(1))
      BY <1>6, <2>1 DEF VoicesKept, EventsKept
    <3>2. Within(1) => request.active
      BY DEF Within
    <3> QED
      BY <1>7, <2>1, <3>1, <3>2, ReadDeltaSaid
  <2>2. CASE e.kind = "called" /\ request' = [request EXCEPT !.active = TRUE, !.delegated = TRUE] /\ UNCHANGED shown
    <3>1. PICK h : h = [request EXCEPT !.active = TRUE]
      OBVIOUS
    <3>2. h = [active |-> TRUE, reasons |-> request.reasons, delegated |-> request.delegated,
               streamed |-> request.streamed, kept |-> request.kept, stream |-> request.stream]
      BY <1>7, <3>1 DEF ARequest
    <3>3. request' = [h EXCEPT !.delegated = TRUE]
      BY <1>7, <2>2, <3>1 DEF ARequest
    <3>4. request' = [active |-> TRUE, reasons |-> request.reasons, delegated |-> TRUE,
                      streamed |-> request.streamed, kept |-> request.kept, stream |-> request.stream]
      BY <3>2, <3>3
    <3> QED
      BY <1>7, <2>2, <3>4 DEF ARequest
  <2>3. CASE e.kind = "output" /\ request' = [request EXCEPT !.active = FALSE] /\ UNCHANGED shown
    <3>1. request' = [active |-> FALSE, reasons |-> request.reasons, delegated |-> request.delegated,
                      streamed |-> request.streamed, kept |-> request.kept, stream |-> request.stream]
      BY <1>7, <2>3 DEF ARequest
    <3> QED
      BY <1>7, <2>3, <3>1 DEF ARequest
  <2> QED
    BY <1>8, <2>1, <2>2, <2>3
<1>10. EventsKept'
  BY <1>1, <1>3, <1>9, EventRead DEF VoicesKept
<1>11. RequestKept'
  BY <1>3, <1>9, RequestFollows
<1>12. shown' \in Seq(Said(Public))'
  BY <1>3, <1>9, ShownFollows
<1> QED
  BY <1>1, <1>4, <1>5, <1>10, <1>11, <1>12, SessionStays, ProStays DEF VoicesKept

(* A text that is not empty is not empty either when its identities are renamed. *)
LEMMA RenamedNotEmpty ==
  ASSUME NEW P, NEW t \in Seq(P), t # <<>>
  PROVE  Renamed(t) # <<>>
<1>1. Len(t) \in Nat /\ 1 \in 1..Len(t)
  OBVIOUS
<1>2. 1 \notin {j + 1 : j \in Identities(t)}
  <2>1. Identities(t) \subseteq 1..Len(t)
    BY DEF Identities
  <2> QED
    BY <2>1
<1>3. PICK k \in 1..Len(Places(t)) : Places(t)[k] = 1
  BY <1>1, <1>2, PlacesOfRenamed
<1>4. 1..Len(Places(t)) = DOMAIN Renamed(t)
  BY PlacesOfRenamed
<1> QED
  BY <1>3, <1>4

(* Nobody but the code says that the evidence is not available. *)
LEMMA UnavailableIsTheCodes ==
  ASSUME NEW voices, "code" \notin voices, NEW t \in Seq(Said(voices))
  PROVE  Sanitize(Unavailable) # t
<1> DEFINE u == [w |-> "unavailable", by |-> "code", n |-> 0]
<1>1. Unavailable = <<u>> /\ Unavailable \in Seq(Said({"code"}))
  BY DEF Unavailable, Fixed, Said, AllWords
<1>2. Sanitize(Unavailable) \in Seq(Said({"code"}))
  BY <1>1, SaidIsClosed, SanitizedStays
<1>3. Sanitize(Unavailable) # <<>>
  <2>1. MemoryLines(Unavailable) = {}
    BY <1>1 DEF MemoryLines, Lines, Is
  <2>2. Unavailable # <<>>
    BY <1>1
  <2> QED
    BY <1>1, <2>1, <2>2, RenamedNotEmpty DEF Sanitize
<1> SUFFICES ASSUME Sanitize(Unavailable) = t PROVE FALSE
  OBVIOUS
<1>4. 1 \in DOMAIN t
  BY <1>3
<1>5. t[1] \in Said({"code"}) /\ t[1] \in Said(voices)
  BY <1>2, <1>4
<1> QED
  BY <1>5 DEF Said

\* Who may be heard when the run is over.
Final(B) ==
    /\ {"free", "backed", "graph", "pro", "code"} \subseteq B /\ Public \subseteq B
    /\ Evident \/ mode = "clarification" => "bare" \in B

(* The answer is backed by evidence, or the words that there is none, or a question. *)
LEMMA AnswerSaid ==
  ASSUME NEW B, Final(B), NEW given \in Seq(Said(Spoken \cup {"pro"}))
  PROVE  /\ Answer(given) \in Seq(Said(B))
         /\ Spoken \subseteq B \/ (~override => Answer(given) = Sanitize(Unavailable))
<1>1. Closed(Said(B)) /\ \A w \in AllWords : Fixed(w) \in Seq(Said(B))
  BY SaidIsClosed DEF Final
<1>2. {"diagnosis", "unavailable", "guard"} \subseteq AllWords
  BY DEF AllWords
<1>3. Sanitize(Fixed("diagnosis")) \in Seq(Said(B)) /\ Sanitize(Unavailable) \in Seq(Said(B))
  BY <1>1, <1>2, SanitizedStays DEF Unavailable
<1>4. CASE ~override /\ Delegated /\ mode # "clarification" /\ ~Evident
  BY <1>3, <1>4 DEF Answer
<1>5. CASE override \/ ~Delegated \/ mode = "clarification" \/ Evident
  <2>1. CASE override
    BY <1>3, <2>1 DEF Answer
  <2>2. CASE ~override
    <3>1. Spoken \cup {"pro"} \subseteq B
      BY <1>5, <2>2 DEF Spoken, Final
    <3>2. given \in Seq(Said(B))
      BY <3>1, SaidGrows
    <3>3. Safeguarded(given) \in Seq(Said(B))
      BY <1>1, <1>2, <3>2 DEF Safeguarded
    <3>4. Answer(given) = Sanitize(given) \/ Answer(given) = Sanitize(Safeguarded(given))
      BY <1>5, <2>2 DEF Answer
    <3>5. Sanitize(given) \in Seq(Said(B)) /\ Sanitize(Safeguarded(given)) \in Seq(Said(B))
      BY <1>1, <3>2, <3>3, SanitizedStays
    <3> QED
      BY <3>1, <3>4, <3>5
  <2> QED
    BY <2>1, <2>2
<1> QED
  BY <1>4, <1>5

(* What is streamed at the end may be heard. *)
LEMMA RestSaid ==
  ASSUME VoicesKept, agent = "ended", NEW B, Final(B), NEW given \in Seq(Said(Spoken \cup {"pro"}))
  PROVE  Rest(given) \in Seq(Seq(Said(B)))
<1>1. Answer(given) \in Seq(Said(B)) /\ (Spoken \subseteq B \/ (~override => Answer(given) = Sanitize(Unavailable)))
  BY AnswerSaid
<1>2. CASE ~request.delegated \/ request.streamed
  BY <1>2 DEF Rest
<1>3. CASE request.delegated /\ ~request.streamed /\ (override \/ Answer(given) # text)
  BY <1>1, <1>3 DEF Rest
<1>4. CASE request.delegated /\ ~request.streamed /\ ~override /\ Answer(given) = text
  <2>1. text \in Seq(Said(Spoken))
    BY DEF VoicesKept, AsWell
  <2>2. Answer(given) # Sanitize(Unavailable)
    BY <1>4, <2>1, UnavailableIsTheCodes DEF Spoken
  <2>3. Said(Spoken) \subseteq Said(B)
    BY <1>1, <1>4, <2>2, SaidGrows
  <2>4. request.kept \in Seq(Said(Spoken))
    BY DEF VoicesKept, RequestKept
  <2> DEFINE n == Len(request.kept)
             deltas == [i \in DOMAIN request.kept |-> <<request.kept[i]>>]
  <2>5. n \in Nat /\ DOMAIN request.kept = 1..n /\ \A i \in 1..n : request.kept[i] \in Said(B)
    BY <2>3, <2>4
  <2> HIDE DEF n
  <2>6. deltas \in [1..n -> Seq(Said(B))]
    BY <2>5
  <2>7. deltas \in Seq(Seq(Said(B)))
    BY <2>5, <2>6
  <2>8. Rest(given) = deltas
    BY <1>4 DEF Rest
  <2> QED
    BY <2>7, <2>8
<1> QED
  BY <1>2, <1>3, <1>4

(* What is shown at the end may be heard. *)
LEMMA ConcludeSaid ==
  ASSUME VoicesKept, agent = "ended", NEW B, Final(B), NEW given \in Seq(Said(Spoken \cup {"pro"})), Conclude(given)
  PROVE  /\ shown' \in Seq(Said(B))
         /\ request' = [request EXCEPT !.stream = request'.stream]
         /\ request'.stream \in Streams(Said(B))
         /\ response' = [status |-> "completed", answer |-> Answer(given), cites |-> PublicCitations(cites, CitationLimit)]
<1> DEFINE I == [s : Streams(Said(B)), out : Seq(Said(B))]
           deltas == Rest(given)
           fed == FeedAll(deltas)
           end == Flush(fed.s)
<1>1. Closed(Said(B))
  BY SaidIsClosed DEF Final
<1>2. deltas \in Seq(Seq(Said(B)))
  BY RestSaid
<1>3. fed \in I
  <2>1. [s |-> request.stream, out |-> <<>>] \in I
    <3>1. request.stream \in Streams(Said(Public)) /\ Streams(Said(Public)) \subseteq Streams(Said(B))
      BY SaidGrows DEF VoicesKept, RequestKept, Final
    <3> QED
      BY <3>1
  <2> HIDE DEF deltas
  <2>2. Len(deltas) \in Nat /\ \A k \in 1..Len(deltas) : deltas[k] \in Seq(Said(B))
    BY <1>2
  <2>3. ASSUME NEW k \in 1..Len(deltas), NEW f \in I PROVE FedOn(f, deltas[k]) \in I
    <3>1. f.s \in Streams(Said(B)) /\ f.out \in Seq(Said(B)) /\ deltas[k] \in Seq(Said(B))
      BY <2>2
    <3>2. Feed(f.s, deltas[k]).s \in Streams(Said(B)) /\ Feed(f.s, deltas[k]).out \in Seq(Said(B))
      BY <1>1, <3>1, FeedStays
    <3> QED
      BY <3>1, <3>2 DEF FedOn
  <2> HIDE DEF I
  <2> QED
    BY <2>1, <2>2, <2>3, FeedingKeeps
<1>4. /\ shown' = shown \o fed.out \o end.out /\ request' = [request EXCEPT !.stream = end.s]
      /\ response' = [status |-> "completed", answer |-> Answer(given), cites |-> PublicCitations(cites, CitationLimit)]
  BY DEF Conclude
<1> HIDE DEF fed
<1>5. end.s \in Streams(Said(B)) /\ end.out \in Seq(Said(B))
  BY <1>1, <1>3, FlushStays
<1> HIDE DEF end
<1>6. shown \in Seq(Said(B))
  BY SaidGrows DEF VoicesKept, Final
<1>7. request'.stream = end.s
  BY <1>4 DEF VoicesKept, RequestKept
<1>8. shown' \in Seq(Said(B))
  BY <1>3, <1>4, <1>5, <1>6
<1> QED
  BY <1>4, <1>5, <1>7, <1>8

(* The run concludes. *)
LEMMA ConcludeKeepsVoices ==
  ASSUME VoicesKept, agent = "ended", NEW given \in Seq(Said(Spoken \cup {"pro"})), Conclude(given),
         UNCHANGED <<retrievalVars, ask, route, agentVars>>,
         UNCHANGED events \/ (events # <<>> /\ events' = Tail(events) /\ Head(events).kind = "end"),
         pro' = [status |-> pro'.status, text |-> pro.text]
  PROVE  VoicesKept'
<1>1. UNCHANGED <<agent, text, session, used, override>>
  BY DEF agentVars
<1>2. CitesGrow /\ mode' = mode /\ (R!Idle' <=> R!Idle) /\ UNCHANGED cites
  BY EvidenceRests DEF retrievalVars
<1>3. Spoken \subseteq Spoken' /\ Spoken' = Spoken
  BY <1>1, SpokenGrows DEF Spoken, Delegated
<1>4. response'.status = "completed"
  BY DEF Conclude
<1>5. Public \subseteq Public'
  BY <1>2, <1>4, PublicGrows
<1>6. PICK B : B = Public'
  OBVIOUS
<1>7. Final(B)
  BY <1>2, <1>4, <1>5, <1>6 DEF Final, Public, Evident
<1>8. /\ shown' \in Seq(Said(B))
      /\ request' = [request EXCEPT !.stream = request'.stream]
      /\ request'.stream \in Streams(Said(B))
      /\ response' = [status |-> "completed", answer |-> Answer(given), cites |-> PublicCitations(cites, CitationLimit)]
  BY <1>7, ConcludeSaid
<1>9. /\ request' = [active |-> request.active, reasons |-> request.reasons, delegated |-> request.delegated,
                     streamed |-> request.streamed, kept |-> request.kept, stream |-> request'.stream]
      /\ request'.active = request.active
  BY <1>8 DEF VoicesKept, RequestKept
<1>10. RequestKept'
  <2>1. Seq(Said(Spoken))' = Seq(Said(Spoken)) /\ Streams(Said(Public))' = Streams(Said(B))
    BY <1>3, <1>6 DEF Said, AllWords, Streams
  <2>2. request'.kept \in Seq(Said(Spoken)) /\ request'.active \in BOOLEAN
    BY <1>9 DEF VoicesKept, RequestKept
  <2> QED
    BY <1>8, <1>9, <2>1, <2>2 DEF RequestKept
<1>11. shown' \in Seq(Said(Public))'
  BY <1>6, <1>8 DEF Said, AllWords
<1>12. RunKept'
  BY <1>1, <1>2, <1>8 DEF RunKept, VoicesKept, Said, AllWords
<1>13. text' \in Seq(Said(Spoken \cup AsWell))'
  BY <1>1, <1>3, TextStays
<1>14. EventsKept'
  <2>1. CASE UNCHANGED events
    BY <1>1, <1>3, <1>9, <2>1, EventsStay DEF VoicesKept
  <2>2. CASE events # <<>> /\ events' = Tail(events) /\ Head(events).kind = "end"
    BY <1>1, <1>3, <1>9, <2>2, EventRead DEF VoicesKept
  <2> QED
    BY <2>1, <2>2
<1>15. pro' = [status |-> pro'.status, text |-> pro'.text] /\ pro'.text \in Seq(Said({"pro"}))'
  BY DEF VoicesKept, Said, AllWords
<1> QED
  BY <1>1, <1>10, <1>11, <1>12, <1>13, <1>14, <1>15, SessionStays DEF VoicesKept

(* The agents' text is theirs when the run is over. *)
LEMMA GivenSaid ==
  ASSUME VoicesKept, agent = "ended"
  PROVE  text \in Seq(Said(Spoken \cup {"pro"})) /\ pro.text \in Seq(Said(Spoken \cup {"pro"}))
<1>1. text \in Seq(Said(Spoken))
  BY DEF VoicesKept, AsWell
<1>2. pro.text \in Seq(Said({"pro"}))
  BY DEF VoicesKept
<1>3. Spoken \subseteq Spoken \cup {"pro"} /\ {"pro"} \subseteq Spoken \cup {"pro"}
  OBVIOUS
<1> QED
  BY <1>1, <1>2, <1>3, SaidGrows

(* The last event is only there when the agents have ended. *)
LEMMA AllReadEnded == VoicesKept /\ AllRead => agent = "ended"
<1> SUFFICES ASSUME VoicesKept, AllRead PROVE agent = "ended"
  OBVIOUS
<1>1. events \in Seq(AnEvent) /\ events # <<>>
  BY DEF VoicesKept, EventsKept, AnEvent, AllRead
<1>2. 1 \in DOMAIN events /\ Head(events) = events[1]
  BY <1>1
<1> QED
  BY <1>2 DEF VoicesKept, EventsKept, AllRead

(* The response of a run without a synthesis. *)
LEMMA RespondKeepsVoices ==
  ASSUME VoicesKept, Respond
  PROVE  VoicesKept'
<1>1. /\ agent = "ended" /\ Conclude(text) /\ UNCHANGED <<retrievalVars, ask, route, agentVars, pro>>
      /\ events # <<>> /\ events' = Tail(events) /\ Head(events).kind = "end"
  BY AllReadEnded DEF Respond, AllRead
<1>2. pro' = [status |-> pro'.status, text |-> pro.text]
  BY <1>1 DEF VoicesKept
<1> QED
  BY <1>1, <1>2, GivenSaid, ConcludeKeepsVoices

(* The run fails: what was shown stays. *)
LEMMA FailKeepsVoices ==
  ASSUME VoicesKept, agent = "ended", Fail, UNCHANGED <<retrievalVars, ask, route, agentVars>>,
         UNCHANGED events \/ (events # <<>> /\ events' = Tail(events) /\ Head(events).kind = "raised"),
         pro' = [status |-> pro'.status, text |-> pro.text]
  PROVE  VoicesKept'
<1>1. UNCHANGED <<agent, text, session, used, override, request, shown>>
  BY DEF agentVars, Fail
<1>2. CitesGrow /\ mode' = mode /\ (R!Idle' <=> R!Idle)
  BY EvidenceRests
<1>3. response' = [status |-> "error", answer |-> response.answer, cites |-> response.cites]
  BY DEF Fail, VoicesKept, RunKept
<1>4. Public \subseteq Public' /\ Spoken \subseteq Spoken' /\ Spoken' = Spoken
  BY <1>1, <1>2, <1>3, PublicGrows, SpokenGrows DEF Spoken, Delegated
<1>5. RunKept'
  BY <1>1, <1>2, <1>3 DEF RunKept, VoicesKept, Said, AllWords
<1>6. text' \in Seq(Said(Spoken \cup AsWell))'
  BY <1>1, <1>4, TextStays
<1>7. EventsKept'
  <2>1. CASE UNCHANGED events
    BY <1>1, <1>4, <2>1, EventsStay DEF VoicesKept
  <2>2. CASE events # <<>> /\ events' = Tail(events) /\ Head(events).kind = "raised"
    BY <1>1, <1>4, <2>2, EventRead DEF VoicesKept
  <2> QED
    BY <2>1, <2>2
<1>8. pro' = [status |-> pro'.status, text |-> pro'.text] /\ pro'.text \in Seq(Said({"pro"}))'
  BY DEF VoicesKept, Said, AllWords
<1> QED
  BY <1>1, <1>4, <1>5, <1>6, <1>7, <1>8, SessionStays, ShownStays, RequestStays DEF VoicesKept

(* A run that raised shows nothing more. *)
LEMMA BreakKeepsVoices ==
  ASSUME VoicesKept, Break
  PROVE  VoicesKept'
<1>1. /\ Fail /\ UNCHANGED <<retrievalVars, ask, route, agentVars, pro>>
      /\ events # <<>> /\ events' = Tail(events) /\ Head(events).kind = "raised"
  BY DEF Break
<1>2. agent = "ended"
  <2>1. events \in Seq(AnEvent)
    BY DEF VoicesKept, EventsKept, AnEvent
  <2>2. 1 \in DOMAIN events /\ Head(events) = events[1]
    BY <1>1, <2>1
  <2> QED
    BY <1>1, <2>2 DEF VoicesKept, EventsKept
<1>3. pro' = [status |-> pro'.status, text |-> pro.text]
  BY <1>1 DEF VoicesKept
<1> QED
  BY <1>1, <1>2, <1>3, FailKeepsVoices

(* The response of a run with a synthesis, which was done or not. *)
LEMMA ProEndKeepsVoices ==
  ASSUME VoicesKept, ProEnd
  PROVE  VoicesKept'
<1>1. agent = "ended" /\ UNCHANGED <<retrievalVars, ask, route, agentVars, events>>
  BY DEF ProEnd, VoicesKept, RunKept
<1>2. PICK ok \in {pro.text # <<>>, FALSE} :
         pro' = [pro EXCEPT !.status = IF ok THEN "completed" ELSE "failed"] /\ AfterPro(ok)
  BY DEF ProEnd
<1>3. pro' = [status |-> pro'.status, text |-> pro.text]
  BY <1>2 DEF VoicesKept
<1>4. CASE Fail
  BY <1>1, <1>3, <1>4, FailKeepsVoices
<1>5. CASE Conclude(pro.text) \/ Conclude(text)
  BY <1>1, <1>3, <1>5, GivenSaid, ConcludeKeepsVoices
<1> QED
  BY <1>2, <1>4, <1>5 DEF AfterPro

(* The synthesis begins with nothing written. *)
LEMMA SynthesizeKeepsVoices ==
  ASSUME VoicesKept, Synthesize
  PROVE  VoicesKept'
<1>1. /\ AllRead /\ events' = Tail(events) /\ events # <<>> /\ Head(events).kind = "end"
      /\ pro' = [pro EXCEPT !.status = "writes"]
      /\ UNCHANGED <<retrievalVars, ask, route, agent, text, session, used, override, request, shown, response>>
  BY DEF Synthesize, AllRead, agentVars
<1>2. CitesGrow /\ mode' = mode /\ (R!Idle' <=> R!Idle) /\ agent = "ended"
  BY <1>1, EvidenceRests, AllReadEnded
<1>3. pro' = [status |-> "writes", text |-> pro.text]
  BY <1>1 DEF VoicesKept
<1>4. Public \subseteq Public' /\ Spoken \subseteq Spoken' /\ Spoken' = Spoken
  BY <1>1, <1>2, PublicGrows, SpokenGrows DEF Spoken, Delegated
<1>5. RunKept'
  BY <1>1, <1>2 DEF RunKept, VoicesKept, Said, AllWords
<1>6. text' \in Seq(Said(Spoken \cup AsWell))'
  BY <1>1, <1>4, TextStays
<1>7. EventsKept'
  BY <1>1, <1>4, EventRead DEF VoicesKept
<1>8. pro' = [status |-> pro'.status, text |-> pro'.text] /\ pro'.text \in Seq(Said({"pro"}))'
  BY <1>3 DEF VoicesKept, Said, AllWords
<1> QED
  BY <1>1, <1>4, <1>5, <1>6, <1>7, <1>8, SessionStays, ShownStays, RequestStays DEF VoicesKept

(* The request's variables say that something was streamed. *)
LEMMA StreamedSaid ==
  ASSUME VoicesKept
  PROVE  /\ ARequest([request EXCEPT !.streamed = TRUE])
         /\ [request EXCEPT !.streamed = TRUE].active = request.active
<1>1. PICK h : h = [request EXCEPT !.streamed = TRUE]
  OBVIOUS
<1>2. h = [active |-> request.active, reasons |-> request.reasons, delegated |-> request.delegated,
           streamed |-> TRUE, kept |-> request.kept, stream |-> request.stream]
  BY <1>1 DEF VoicesKept, RequestKept
<1>3. ARequest(h) /\ h.active = request.active
  BY <1>2 DEF VoicesKept, RequestKept, ARequest
<1> QED
  BY <1>1, <1>3

(* Words of a synthesis or of a diagnosis are shown as they come. *)
LEMMA StreamingSaid ==
  ASSUME VoicesKept, NEW by \in {"pro", "graph"}, NEW w \in Words, NEW n \in Nat, ask \in Questions,
         NEW p, p = [w |-> w, by |-> by, n |-> n], Shows(p, [request EXCEPT !.streamed = TRUE])
  PROVE  /\ p \in Said({by})
         /\ ARequest(request') /\ request'.active = request.active /\ shown' \in Seq(Said(Public))
<1>1. w \in AllWords
  BY DEF Words, AllWords
<1>2. p \in Said({by}) /\ p \in Said(Public)
  BY <1>1 DEF Said, Public
<1>3. PICK h : h = [request EXCEPT !.streamed = TRUE]
  OBVIOUS
<1>4. ARequest(h) /\ h.active = request.active /\ Shows(p, h)
  BY <1>3, StreamedSaid
<1>5. shown \in Seq(Said(Public))
  BY DEF VoicesKept
<1> QED
  BY <1>2, <1>4, <1>5, ShowsSaid

(* The synthesis is shown as it is written: it is only begun with evidence. *)
LEMMA ProWriteKeepsVoices ==
  ASSUME EvidenceKept, VoicesKept, ProWrite
  PROVE  VoicesKept'
<1>1. /\ UNCHANGED <<retrievalVars, ask, route, agent, text, session, used, override, events, response>>
      /\ agent = "ended"
  BY DEF ProWrite, agentVars, VoicesKept, RunKept
<1>2. CitesGrow /\ mode' = mode /\ (R!Idle' <=> R!Idle)
  BY <1>1, EvidenceRests
<1>3. Public \subseteq Public' /\ Spoken \subseteq Spoken'
  BY <1>1, <1>2, PublicGrows, SpokenGrows
<1>4. PICK w \in Words : LET p == [w |-> w, by |-> "pro", n |-> Len(pro.text) + 1] IN
                         pro' = [pro EXCEPT !.text = Append(pro.text, p)] /\ Shows(p, [request EXCEPT !.streamed = TRUE])
  BY DEF ProWrite
<1>5. PICK p : p = [w |-> w, by |-> "pro", n |-> Len(pro.text) + 1]
  OBVIOUS
<1>6. pro' = [pro EXCEPT !.text = Append(pro.text, p)] /\ Shows(p, [request EXCEPT !.streamed = TRUE])
  BY <1>4, <1>5
<1>7. Len(pro.text) + 1 \in Nat
  BY DEF VoicesKept
<1>8. /\ p \in Said({"pro"})
      /\ ARequest(request') /\ request'.active = request.active /\ shown' \in Seq(Said(Public))
  BY <1>5, <1>6, <1>7, StreamingSaid DEF EvidenceKept
<1>9. pro' = [status |-> pro.status, text |-> Append(pro.text, p)]
  BY <1>6 DEF VoicesKept
<1>10. pro' = [status |-> pro'.status, text |-> pro'.text] /\ pro'.text \in Seq(Said({"pro"}))'
  <2>1. pro'.text \in Seq(Said({"pro"}))
    BY <1>8, <1>9 DEF VoicesKept
  <2> QED
    BY <1>9, <2>1 DEF Said, AllWords
<1>11. RunKept'
  BY <1>1, <1>2, <1>9 DEF RunKept, VoicesKept, Said, AllWords
<1>12. text' \in Seq(Said(Spoken \cup AsWell))'
  BY <1>1, <1>3, TextStays
<1>13. EventsKept'
  BY <1>1, <1>3, <1>8, EventsStay DEF VoicesKept
<1>14. RequestKept' /\ shown' \in Seq(Said(Public))'
  BY <1>3, <1>8, RequestFollows, ShownFollows
<1> QED
  BY <1>1, <1>10, <1>11, <1>12, <1>13, <1>14, SessionStays DEF VoicesKept

(* The diagnosis is shown as it is written. *)
LEMMA DiagnosisWriteKeepsVoices ==
  ASSUME EvidenceKept, VoicesKept, DiagnosisWrite
  PROVE  VoicesKept'
<1>1. /\ UNCHANGED <<retrievalVars, ask, route, agent, session, used, override, events, pro, response>>
      /\ agent = "diagnoses"
  BY DEF DiagnosisWrite
<1>2. CitesGrow /\ mode' = mode /\ (R!Idle' <=> R!Idle)
  BY <1>1, EvidenceRests
<1>3. Public \subseteq Public' /\ Spoken \subseteq Spoken'
  BY <1>1, <1>2, PublicGrows, SpokenGrows
<1>4. PICK w \in Words : LET p == [w |-> w, by |-> "graph", n |-> Len(text) + 1] IN
                         text' = Append(text, p) /\ Shows(p, [request EXCEPT !.streamed = TRUE])
  BY DEF DiagnosisWrite
<1>5. PICK p : p = [w |-> w, by |-> "graph", n |-> Len(text) + 1]
  OBVIOUS
<1>6. text' = Append(text, p) /\ Shows(p, [request EXCEPT !.streamed = TRUE])
  BY <1>4, <1>5
<1>7. text \in Seq(Said({"graph"})) /\ Len(text) + 1 \in Nat
  BY <1>1 DEF VoicesKept, RunKept
<1>8. /\ p \in Said({"graph"})
      /\ ARequest(request') /\ request'.active = request.active /\ shown' \in Seq(Said(Public))
  BY <1>5, <1>6, <1>7, StreamingSaid DEF EvidenceKept
<1>9. text' \in Seq(Said({"graph"}))
  BY <1>6, <1>7, <1>8
<1>10. text' \in Seq(Said(Spoken \cup AsWell))'
  <2>1. {"graph"} \subseteq Spoken' \cup AsWell'
    BY DEF Spoken
  <2>2. text' \in Seq(Said(Spoken' \cup AsWell'))
    BY <1>9, <2>1, SaidGrows
  <2> QED
    BY <2>2 DEF Said, AllWords
<1>11. RunKept'
  BY <1>1, <1>2, <1>9 DEF RunKept, VoicesKept, Said, AllWords
<1>12. EventsKept'
  BY <1>1, <1>3, <1>8, EventsStay DEF VoicesKept
<1>13. RequestKept' /\ shown' \in Seq(Said(Public))'
  BY <1>3, <1>8, RequestFollows, ShownFollows
<1> QED
  BY <1>1, <1>10, <1>11, <1>12, <1>13, SessionStays, ProStays DEF VoicesKept

(* The answer of a diagnosis is sanitized or fixed. *)
LEMMA DiagnosisEndKeepsVoices ==
  ASSUME EvidenceKept, VoicesKept, CitesGrow, DiagnosisEnd
  PROVE  VoicesKept'
<1>1. /\ UNCHANGED <<ask, route, text, session, used, events, pro, request>>
      /\ agent = "diagnoses" /\ agent' = "ended"
  BY DEF DiagnosisEnd, Fail
<1>2. R!Idle' <=> R!Idle
  BY DEF DiagnosisEnd, Diagnosed, retrievalVars, R!Idle
<1>3. response.status = "none" /\ text \in Seq(Said({"graph"}))
  BY <1>1 DEF VoicesKept, RunKept
<1>4. Public \subseteq Public' /\ Spoken \subseteq Spoken'
  BY <1>1, <1>3, PublicGrows, SpokenGrows
<1>5. response' = [status |-> response'.status, answer |-> response'.answer, cites |-> response'.cites]
  BY DEF DiagnosisEnd, Fail, VoicesKept, RunKept
<1>6. RunKept'
  BY <1>1, <1>2, <1>5 DEF RunKept, VoicesKept
<1>7. text' \in Seq(Said(Spoken \cup AsWell))'
  BY <1>1, <1>4, TextStays
<1>8. EventsKept'
  BY <1>1, <1>4, EventsStay DEF VoicesKept
<1>9. shown' \in Seq(Said(Public))
  <2>1. Closed(Said(Public)) /\ Fixed("diagnosis") \in Seq(Said(Public))
    BY SaidIsClosed DEF Public, AllWords
  <2>2. {"graph"} \subseteq Public
    BY DEF Public
  <2>3. text \in Seq(Said(Public))
    BY <1>3, <2>2, SaidGrows
  <2>4. Sanitize(text) \in Seq(Said(Public))
    BY <2>1, <2>3, SanitizedStays
  <2>5. Flush(request.stream).out \in Seq(Said(Public))
    BY <2>1, FlushStays DEF VoicesKept, RequestKept
  <2>6. CASE shown' = shown
    BY <2>6 DEF VoicesKept
  <2>7. ASSUME NEW answer \in {Sanitize(text), Fixed("diagnosis")},
               shown' = shown \o (IF request.streamed THEN Flush(request.stream).out ELSE answer)
        PROVE  shown' \in Seq(Said(Public))
    BY <2>1, <2>4, <2>5, <2>7 DEF VoicesKept
  <2> QED
    BY <2>6, <2>7 DEF DiagnosisEnd, Fail
<1>10. shown' \in Seq(Said(Public))'
  BY <1>4, <1>9, ShownFollows
<1> QED
  BY <1>1, <1>4, <1>6, <1>7, <1>8, <1>10, SessionStays, ProStays, RequestStays DEF VoicesKept

(* A step of nothing. *)
LEMMA NothingKeepsVoices ==
  ASSUME VoicesKept, UNCHANGED vars
  PROVE  VoicesKept'
<1>1. UNCHANGED <<retrievalVars, ask, route, agent, text, session, used, override, events, request, pro, shown, response>>
  BY DEF vars, agentVars, requestVars
<1>2. CitesGrow /\ mode' = mode /\ (R!Idle' <=> R!Idle)
  BY <1>1, EvidenceRests
<1>3. Public \subseteq Public' /\ Spoken \subseteq Spoken'
  BY <1>1, <1>2, PublicGrows, SpokenGrows
<1>4. RunKept'
  BY <1>1, <1>2 DEF RunKept, VoicesKept, Said, AllWords
<1>5. text' \in Seq(Said(Spoken \cup AsWell))'
  BY <1>1, <1>3, TextStays
<1>6. EventsKept'
  BY <1>1, <1>3, EventsStay DEF VoicesKept
<1> QED
  BY <1>1, <1>3, <1>4, <1>5, <1>6, SessionStays, ProStays, ShownStays, RequestStays DEF VoicesKept

(* The voices are kept in every run. *)
LEMMA VoicesAreKept == Spec => []VoicesKept
<1>1. Init => VoicesKept
  <2> SUFFICES ASSUME Init PROVE VoicesKept
    OBVIOUS
  <2>1. /\ agent = "new" /\ text = <<>> /\ session = <<>> /\ events = <<>> /\ shown = <<>>
        /\ request = [active |-> FALSE, reasons |-> FALSE, delegated |-> FALSE, streamed |-> FALSE, kept |-> <<>>,
                      stream |-> [buffer |-> <<>>, blocked |-> FALSE, emitted |-> FALSE]]
        /\ pro = [status |-> "none", text |-> <<>>]
        /\ response = [status |-> "none", answer |-> <<>>, cites |-> <<>>]
        /\ tool.kind = "none"
    BY DEF Init, Fresh, R!Init, R!NoTool
  <2>2. RunKept
    BY <2>1 DEF RunKept, R!Idle
  <2>3. EventsKept
    BY <2>1 DEF EventsKept
  <2>4. RequestKept
    BY <2>1 DEF RequestKept, Streams
  <2> QED
    BY <2>1, <2>2, <2>3, <2>4 DEF VoicesKept
<1>2. BookKept /\ EvidenceKept /\ VoicesKept /\ [Next]_vars => VoicesKept'
  <2> SUFFICES ASSUME BookKept, EvidenceKept, VoicesKept, [Next]_vars PROVE VoicesKept'
    OBVIOUS
  <2>1. CitesGrow
    BY StepsKeepEvidence
  <2>2. CASE Guard
    BY <2>2, GuardKeepsVoices
  <2>3. CASE Start
    BY <2>3, StartKeepsVoices
  <2>4. CASE Write
    BY <2>4, WriteKeepsVoices
  <2>5. CASE Retrieve \/ Reuse \/ AskMetric \/ Diagnose
    BY <2>1, <2>5, CallsKeepVoices
  <2>6. CASE Progress
    BY <2>1, <2>6, ProgressKeepsVoices
  <2>7. CASE Return
    BY <2>7, ReturnKeepsVoices
  <2>8. ASSUME NEW s \in Specialists, Delegate(s) PROVE VoicesKept'
    BY <2>8, DelegateKeepsVoices
  <2>9. ASSUME NEW kind \in {"end", "raised"}, Finish(kind) PROVE VoicesKept'
    BY <2>9, FinishKeepsVoices
  <2>10. CASE Read
    BY <2>10, ReadKeepsVoices
  <2>11. CASE Respond
    BY <2>11, RespondKeepsVoices
  <2>12. CASE Synthesize
    BY <2>12, SynthesizeKeepsVoices
  <2>13. CASE ProWrite
    BY <2>13, ProWriteKeepsVoices
  <2>14. CASE ProEnd
    BY <2>14, ProEndKeepsVoices
  <2>15. CASE Break
    BY <2>15, BreakKeepsVoices
  <2>16. CASE DiagnosisWrite
    BY <2>16, DiagnosisWriteKeepsVoices
  <2>17. CASE DiagnosisEnd
    BY <2>1, <2>17, DiagnosisEndKeepsVoices
  <2>18. CASE Done \/ UNCHANGED vars
    BY <2>18, NothingKeepsVoices DEF Done
  <2> QED
    BY <2>2, <2>3, <2>4, <2>5, <2>6, <2>7, <2>8, <2>9, <2>10, <2>11, <2>12, <2>13, <2>14, <2>15, <2>16, <2>17, <2>18
    DEF Next
<1> QED
  BY <1>1, <1>2, BookIsKept, EvidenceIsKept, PTL DEF Spec

(* For any questions and words: what an agent writes after a specialist was asked is not streamed as long as the run  *)
(* has no evidence, unless it asks the user back, and what it writes while a specialist works is never streamed; also *)
(* when the request is behind, and when it replays at the end what it kept.                                           *)
THEOREM NothingUnsupportedIsShown == Spec => []NothingUnsupported
<1>1. VoicesKept => NothingUnsupported
  <2> SUFFICES ASSUME VoicesKept, NEW i \in DOMAIN shown
               PROVE  shown[i].by # "aside" /\ (shown[i].by = "bare" => Evident \/ mode = "clarification")
    BY DEF NothingUnsupported
  <2>1. shown[i] \in Said(Public)
    BY DEF VoicesKept
  <2> QED
    BY <2>1 DEF Said, Public
<1> QED
  BY <1>1, VoicesAreKept, PTL

-----------------------------------------------------------------------------
(* Nothing internal *)

\* Whatever anybody may ever say.
Anything == Said(Everybody)

\* Nothing internal is in a text,
Pure(t) == MemoryLines(t) = {} /\ Identities(t) = {}
\* or nothing the stream looks for.
Clean(t) == Lines(t, "m1", "m2") = {} /\ Identities(t) = {}
\* The text ends in what may be the first half of something internal,
Open(t) == t # <<>> /\ (t[Len(t)].w = "i1" \/ (t[Len(t)].w = "m1" /\ StartsLine(t, Len(t))))
\* in which case the stream has kept back a first half of an identity, which comes before any second half.
Joins(v, s) == s.blocked \/ (Open(v) => s.buffer # <<>> /\ s.buffer[1].w = "i1")

(* The pieces of the code are among them, and pieces are records. *)
LEMMA AnythingIsClosed ==
  /\ Closed(Anything)
  /\ \A p \in Anything : [p EXCEPT !.w = "name"].w = "name"
<1>1. "code" \in Everybody
  BY DEF Everybody
<1>2. Closed(Anything)
  BY <1>1, SaidIsClosed DEF Anything
<1>3. \A p \in Anything : [p EXCEPT !.w = "name"].w = "name"
  BY DEF Anything, Said
<1> QED
  BY <1>2, <1>3

(* Only after an identity a place is left out when identities are renamed. *)
LEMMA NextPlace ==
  ASSUME NEW P, NEW t \in Seq(P)
  PROVE  /\ Len(Places(t)) # 0 => Places(t)[1] = 1
         /\ \A k \in 1..Len(Places(t)) : Places(t)[k] \notin Identities(t) =>
               IF k = Len(Places(t)) THEN Places(t)[k] = Len(t) ELSE Places(t)[k + 1] = Places(t)[k] + 1
<1> DEFINE m == Len(Places(t))
           S == {j + 1 : j \in Identities(t)}
<1>1. /\ m \in Nat /\ Len(t) \in Nat /\ \A k \in 1..m : Places(t)[k] \in 1..Len(t)
      /\ \A j, k \in 1..m : j < k => Places(t)[j] < Places(t)[k]
      /\ \A i \in 1..Len(t) : i \notin S => \E k \in 1..m : Places(t)[k] = i
  <2>1. Places(t) \in Seq(1..Len(t)) /\ Len(t) \in Nat
    BY PlacesOfRenamed
  <2>2. m \in Nat /\ \A k \in 1..m : Places(t)[k] \in 1..Len(t)
    BY <2>1
  <2>3. \A j, k \in 1..m : j < k => Places(t)[j] < Places(t)[k]
    BY PlacesOfRenamed
  <2>4. \A i \in 1..Len(t) : i \notin S => \E k \in 1..m : Places(t)[k] = i
    BY PlacesOfRenamed
  <2> QED
    BY <2>1, <2>2, <2>3, <2>4
<1>2. Identities(t) \subseteq 1..Len(t)
  BY DEF Identities
<1>3. ASSUME m # 0 PROVE Places(t)[1] = 1
  <2>1. 1 \in 1..m /\ 1 \in 1..Len(t)
    BY <1>1, <1>3
  <2>2. 1 \notin S
    BY <1>2
  <2>3. PICK k \in 1..m : Places(t)[k] = 1
    BY <1>1, <2>1, <2>2
  <2>4. k = 1
    <3> SUFFICES ASSUME 1 < k PROVE FALSE
      BY <2>3
    <3>1. Places(t)[1] < Places(t)[k] /\ Places(t)[1] \in 1..Len(t)
      BY <1>1, <2>1, <2>3
    <3> QED
      BY <2>3, <3>1
  <2> QED
    BY <2>3, <2>4
<1>4. ASSUME NEW k \in 1..m, Places(t)[k] \notin Identities(t)
      PROVE  IF k = m THEN Places(t)[k] = Len(t) ELSE Places(t)[k + 1] = Places(t)[k] + 1
  <2> DEFINE q == Places(t)[k]
  <2>1. q \in 1..Len(t) /\ q + 1 \notin S
    <3>1. q \in 1..Len(t)
      BY <1>1
    <3>2. \A j \in Identities(t) : j + 1 # q + 1
      BY <1>2, <1>4, <3>1
    <3> QED
      BY <3>1, <3>2
  <2>2. ASSUME q # Len(t) PROVE k # m /\ Places(t)[k + 1] = q + 1
    <3>1. q + 1 \in 1..Len(t)
      BY <1>1, <2>1, <2>2
    <3>2. PICK j \in 1..m : Places(t)[j] = q + 1
      BY <1>1, <2>1, <3>1
    <3> HIDE DEF q, S
    <3>3. k < j
      <4> SUFFICES ASSUME j <= k PROVE FALSE
        BY <1>1
      <4>1. Places(t)[j] <= q
        BY <1>1, <2>1 DEF q
      <4> QED
        BY <2>1, <3>2, <4>1
    <3>4. k + 1 \in 1..m
      BY <1>1, <3>3
    <3>5. q < Places(t)[k + 1] /\ Places(t)[k + 1] \in 1..Len(t)
      BY <1>1, <3>4 DEF q
    <3>6. j = k + 1
      <4> SUFFICES ASSUME k + 1 < j PROVE FALSE
        BY <1>1, <3>3
      <4>1. Places(t)[k + 1] < Places(t)[j]
        BY <1>1, <3>4
      <4> QED
        BY <2>1, <3>2, <3>5, <4>1
    <3> QED
      BY <1>1, <3>2, <3>4, <3>6 DEF q
  <2>3. ASSUME k # m PROVE q # Len(t)
    <3>1. k + 1 \in 1..m
      BY <1>1, <2>3
    <3>2. q < Places(t)[k + 1] /\ Places(t)[k + 1] \in 1..Len(t)
      BY <1>1, <3>1
    <3> QED
      BY <2>1, <3>2
  <2> QED
    BY <2>2, <2>3
<1> QED
  BY <1>3, <1>4

(* What a renamed text says at each place. *)
LEMMA RenamedSays ==
  ASSUME NEW t \in Seq(Anything)
  PROVE  /\ Len(Places(t)) \in Nat /\ Renamed(t) \in Seq(Anything) /\ Len(Renamed(t)) = Len(Places(t))
         /\ \A k \in 1..Len(Places(t)) :
               /\ Places(t)[k] \in 1..Len(t)
               /\ Renamed(t)[k].w = IF Places(t)[k] \in Identities(t) THEN "name" ELSE t[Places(t)[k]].w
<1> DEFINE m == Len(Places(t))
           e(k) == IF Places(t)[k] \in Identities(t) THEN [t[Places(t)[k]] EXCEPT !.w = "name"] ELSE t[Places(t)[k]]
           r == Renamed(t)
<1>1. m \in Nat /\ r = [k \in 1..m |-> e(k)] /\ \A k \in 1..m : Places(t)[k] \in 1..Len(t)
  BY SMTT(30), PlacesOfRenamed
<1>2. r \in Seq(Anything)
  BY AnythingIsClosed, RenamedStays
<1>3. \A k \in 1..m : e(k).w = IF Places(t)[k] \in Identities(t) THEN "name" ELSE t[Places(t)[k]].w
  <2> TAKE k \in 1..m
  <2>1. t[Places(t)[k]] \in Anything
    BY <1>1
  <2> QED
    BY <2>1, AnythingIsClosed
<1> HIDE DEF m, e, r
<1>4. DOMAIN r = 1..m /\ \A k \in 1..m : r[k] = e(k)
  BY <1>1
<1>5. Len(r) = m
  BY <1>1, <1>2, <1>4
<1> QED
  BY <1>1, <1>2, <1>3, <1>4, <1>5 DEF m, r

(* No identity is left when identities are renamed, and no memory line comes to be. *)
LEMMA RenamedIsClean ==
  ASSUME NEW t \in Seq(Anything)
  PROVE  Identities(Renamed(t)) = {} /\ (MemoryLines(t) = {} => MemoryLines(Renamed(t)) = {})
<1> DEFINE m == Len(Places(t))
           r == Renamed(t)
<1>1. /\ m \in Nat /\ r \in Seq(Anything) /\ Len(r) = m /\ DOMAIN r = 1..m
      /\ \A k \in 1..m : /\ Places(t)[k] \in 1..Len(t)
                         /\ r[k].w = IF Places(t)[k] \in Identities(t) THEN "name" ELSE t[Places(t)[k]].w
  BY RenamedSays
<1>2. /\ m # 0 => Places(t)[1] = 1
      /\ \A k \in 1..m : Places(t)[k] \notin Identities(t) =>
            IF k = m THEN Places(t)[k] = Len(t) ELSE Places(t)[k + 1] = Places(t)[k] + 1
  BY NextPlace
<1>3. DOMAIN t = 1..Len(t) /\ Len(t) \in Nat
  OBVIOUS
<1> HIDE DEF m, r
\* What follows a first half follows it in the text.
<1>4. ASSUME NEW k \in 1..m, k + 1 \in 1..m, NEW x, r[k].w = x, x # "name", NEW y, r[k + 1].w = y, y # "name"
      PROVE  /\ Places(t)[k] \in 1..Len(t) /\ Places(t)[k + 1] = Places(t)[k] + 1 /\ Places(t)[k] + 1 \in 1..Len(t)
             /\ t[Places(t)[k]].w = x /\ t[Places(t)[k] + 1].w = y
  <2>1. Places(t)[k] \in 1..Len(t) /\ Places(t)[k] \notin Identities(t) /\ t[Places(t)[k]].w = x
    BY <1>1, <1>4
  <2>2. Places(t)[k + 1] \in 1..Len(t) /\ t[Places(t)[k + 1]].w = y
    BY <1>1, <1>4
  <2>3. k # m
    BY <1>1, <1>4
  <2>4. Places(t)[k + 1] = Places(t)[k] + 1
    BY <1>2, <2>1, <2>3
  <2> QED
    BY <2>1, <2>2, <2>4
<1>5. Identities(r) = {}
  <2> SUFFICES ASSUME NEW k \in Identities(r) PROVE FALSE
    OBVIOUS
  <2>1. k \in 1..m /\ k + 1 \in 1..m /\ r[k].w = "i1" /\ r[k + 1].w = "i2"
    BY <1>1 DEF Identities, Is
  <2>2. /\ Places(t)[k] \in 1..Len(t) /\ Places(t)[k] + 1 \in 1..Len(t)
        /\ t[Places(t)[k]].w = "i1" /\ t[Places(t)[k] + 1].w = "i2"
    BY <1>4, <2>1
  <2>3. Places(t)[k] \in Identities(t)
    BY <1>3, <2>2 DEF Identities, Is
  <2> QED
    BY <1>1, <2>1, <2>3
<1>6. ASSUME NEW x, NEW y, x # "name", y # "name", Lines(t, x, y) = {} PROVE Lines(r, x, y) = {}
  <2> SUFFICES ASSUME NEW k \in Lines(r, x, y) PROVE FALSE
    OBVIOUS
  <2>1. k \in 1..m /\ k + 1 \in 1..m /\ r[k].w = x /\ r[k + 1].w = y /\ StartsLine(r, k)
    BY <1>1 DEF Lines, Is
  <2>2. /\ Places(t)[k] \in 1..Len(t) /\ Places(t)[k] + 1 \in 1..Len(t)
        /\ t[Places(t)[k]].w = x /\ t[Places(t)[k] + 1].w = y
    BY <1>4, <1>6, <2>1
  <2>3. StartsLine(t, Places(t)[k])
    <3>1. CASE k = 1
      BY <1>1, <1>2, <2>1, <3>1 DEF StartsLine
    <3>2. CASE k # 1
      <4>1. k - 1 \in 1..m /\ (k - 1) + 1 = k /\ r[k - 1].w = "nl"
        BY <1>1, <2>1, <3>2 DEF StartsLine, Is
      <4>2. /\ Places(t)[k - 1] \in 1..Len(t) /\ Places(t)[k] = Places(t)[k - 1] + 1
            /\ t[Places(t)[k - 1]].w = "nl"
        <5>1. PICK j \in 1..m : j = k - 1
          BY <4>1
        <5>2. j + 1 = k /\ r[j].w = "nl"
          BY <2>1, <4>1, <5>1
        <5>3. /\ Places(t)[j] \in 1..Len(t) /\ Places(t)[j + 1] = Places(t)[j] + 1
              /\ t[Places(t)[j]].w = "nl"
          BY <1>4, <1>6, <2>1, <5>2
        <5> QED
          BY <5>1, <5>2, <5>3
      <4>3. Places(t)[k] - 1 = Places(t)[k - 1]
        BY <4>2
      <4> QED
        BY <1>3, <4>2, <4>3 DEF StartsLine, Is
    <3> QED
      BY <3>1, <3>2
  <2>4. Places(t)[k] \in Lines(t, x, y)
    BY <1>3, <2>2, <2>3 DEF Lines, Is
  <2> QED
    BY <1>6, <2>4
<1>7. ASSUME MemoryLines(t) = {} PROVE MemoryLines(r) = {}
  <2>1. Lines(t, "m1", "m2") = {} /\ Lines(t, "o1", "o2") = {}
    BY <1>7 DEF MemoryLines
  <2>2. Lines(r, "m1", "m2") = {} /\ Lines(r, "o1", "o2") = {}
    BY <1>6, <2>1
  <2> QED
    BY <2>2 DEF MemoryLines
<1> QED
  BY <1>5, <1>7 DEF r

(* The beginning of a text has no memory line that the text does not have. *)
LEMMA MemoryOfPart ==
  ASSUME NEW P, NEW t \in Seq(P), NEW k \in 0..Len(t), NEW i \in MemoryLines(SubSeq(t, 1, k))
  PROVE  i \in MemoryLines(t) /\ i + 1 <= k
<1> DEFINE u == SubSeq(t, 1, k)
<1>1. Len(u) = k /\ DOMAIN u = 1..k /\ DOMAIN t = 1..Len(t) /\ Len(t) \in Nat /\ \A j \in 1..k : u[j] = t[j]
  <2>1. u \in Seq(P) /\ Len(u) = k /\ \A j \in 1..k : u[j] = t[j]
    BY PartsStay
  <2> HIDE DEF u
  <2> QED
    BY <2>1
<1>2. i \in MemoryLines(u)
  OBVIOUS
<1> HIDE DEF u
<1>3. ASSUME NEW x, NEW y, i \in Lines(u, x, y) PROVE i \in Lines(t, x, y) /\ i + 1 <= k
  <2>1. /\ i \in 1..k /\ i + 1 \in 1..k /\ u[i].w = x /\ u[i + 1].w = y
        /\ i = 1 \/ (i - 1 \in 1..k /\ u[i - 1].w = "nl")
    BY <1>1, <1>3 DEF Lines, StartsLine, Is
  <2>2. t[i].w = x /\ t[i + 1].w = y /\ (i = 1 \/ t[i - 1].w = "nl") /\ 1..k \subseteq 1..Len(t)
    BY <1>1, <2>1
  <2> QED
    BY <1>1, <2>1, <2>2 DEF Lines, StartsLine, Is
<1> QED
  BY <1>2, <1>3 DEF MemoryLines

(* What precedes the memory is without it. *)
LEMMA BeforeMemoryIsClean ==
  ASSUME NEW P, NEW t \in Seq(P), MemoryLines(t) # {}
  PROVE  MemoryLines(BeforeMemory(t)) = {}
<1>1. PICK k \in 0..(Least(MemoryLines(t)) - 1) : BeforeMemory(t) = SubSeq(t, 1, k)
  BY BeforeMemoryStays
<1>2. Least(MemoryLines(t)) \in 1..Len(t) /\ \A i \in MemoryLines(t) : Least(MemoryLines(t)) <= i
  BY BeforeMemoryStays
<1>3. k \in 0..Len(t)
  BY <1>1, <1>2
<1>4. ASSUME NEW i \in MemoryLines(BeforeMemory(t)) PROVE FALSE
  <2>1. i \in MemoryLines(SubSeq(t, 1, k))
    BY <1>1, <1>4
  <2>2. i \in MemoryLines(t) /\ i + 1 <= k
    BY <1>3, <2>1, MemoryOfPart
  <2>3. i \in Nat
    BY <2>2 DEF MemoryLines, Lines
  <2> QED
    BY <1>1, <1>2, <2>2, <2>3
<1> QED
  BY <1>4

(* A text of one piece has nothing internal in it, and an empty one has not. *)
LEMMA OneIsClean ==
  ASSUME NEW t, t = <<>> \/ \E p : t = <<p>>
  PROVE  Pure(t) /\ Clean(t)
<1>1. \A i \in DOMAIN t : i + 1 \notin DOMAIN t
  OBVIOUS
<1> QED
  BY <1>1 DEF Pure, Clean, MemoryLines, Lines, Identities, Is

(* What has nothing internal in it has nothing the stream looks for. *)
LEMMA PureIsClean == \A t : Pure(t) => Clean(t)
BY DEF Pure, Clean, MemoryLines

(* What leaves the system has nothing internal in it. *)
LEMMA SanitizedIsClean ==
  ASSUME NEW t \in Seq(Anything)
  PROVE  Sanitize(t) \in Seq(Anything) /\ Pure(Sanitize(t)) /\ Clean(Sanitize(t))
<1>1. Sanitize(t) \in Seq(Anything)
  BY AnythingIsClosed, SanitizedStays
<1>2. CASE MemoryLines(t) = {}
  <2>1. Sanitize(t) = Renamed(t)
    BY <1>2 DEF Sanitize
  <2>2. MemoryLines(Renamed(t)) = {} /\ Identities(Renamed(t)) = {}
    BY <1>2, RenamedIsClean
  <2> QED
    BY <1>1, <2>1, <2>2, PureIsClean DEF Pure
<1>3. CASE MemoryLines(t) # {} /\ BeforeMemory(t) = <<>>
  <2>1. Pure(Leak)
    BY OneIsClean DEF Leak, Fixed
  <2>2. Sanitize(t) = Leak
    BY <1>3 DEF Sanitize
  <2> QED
    BY <1>1, <2>1, <2>2, PureIsClean
<1>4. CASE MemoryLines(t) # {} /\ BeforeMemory(t) # <<>>
  <2>1. MemoryLines(BeforeMemory(t)) = {}
    BY <1>4, BeforeMemoryIsClean
  <2>2. BeforeMemory(t) \in Seq(Anything)
    <3>1. PICK k \in 0..(Least(MemoryLines(t)) - 1) : BeforeMemory(t) = SubSeq(t, 1, k)
      BY <1>4, BeforeMemoryStays
    <3>2. Least(MemoryLines(t)) \in 1..Len(t)
      BY <1>4, BeforeMemoryStays
    <3>3. k \in 0..Len(t)
      BY <3>1, <3>2
    <3> QED
      BY <3>1, <3>3, PartsStay
  <2>3. Sanitize(t) = Renamed(BeforeMemory(t))
    BY <1>4 DEF Sanitize
  <2>4. MemoryLines(Renamed(BeforeMemory(t))) = {} /\ Identities(Renamed(BeforeMemory(t))) = {}
    BY <2>1, <2>2, RenamedIsClean
  <2> QED
    BY <1>1, <2>3, <2>4, PureIsClean DEF Pure
<1> QED
  BY <1>1, <1>2, <1>3, <1>4

(* An identity that starts a text starts what becomes public of it, whole or by its name. *)
LEMMA SanitizedStart ==
  ASSUME NEW t \in Seq(Anything), t = <<>> \/ t[1].w = "i1"
  PROVE  Sanitize(t) = <<>> \/ Sanitize(t)[1].w \in {"i1", "name", "leak"}
<1>1. ASSUME NEW u \in Seq(Anything), u = <<>> \/ u[1].w = "i1"
      PROVE  Renamed(u) = <<>> \/ Renamed(u)[1].w \in {"i1", "name"}
  <2> DEFINE m == Len(Places(u))
             r == Renamed(u)
  <2>1. /\ m \in Nat /\ r \in Seq(Anything) /\ Len(r) = m
        /\ \A k \in 1..m : /\ Places(u)[k] \in 1..Len(u)
                           /\ r[k].w = IF Places(u)[k] \in Identities(u) THEN "name" ELSE u[Places(u)[k]].w
    BY RenamedSays
  <2>2. m # 0 => Places(u)[1] = 1
    BY NextPlace
  <2> HIDE DEF m, r
  <2>3. CASE m = 0
    <3>1. r = <<>>
      BY <2>1, <2>3
    <3> QED
      BY <3>1 DEF r
  <2>4. CASE m # 0
    <3>1. 1 \in 1..m /\ Places(u)[1] = 1 /\ 1 \in 1..Len(u)
      BY <2>1, <2>2, <2>4
    <3>2. u # <<>>
      BY <3>1
    <3>3. r[1].w \in {"i1", "name"}
      BY <1>1, <2>1, <3>1, <3>2
    <3> QED
      BY <3>3 DEF r
  <2> QED
    BY <2>3, <2>4
<1>2. CASE MemoryLines(t) = {}
  <2>1. Sanitize(t) = Renamed(t)
    BY <1>2 DEF Sanitize
  <2> QED
    BY <1>1, <2>1
<1>3. CASE MemoryLines(t) # {} /\ BeforeMemory(t) = <<>>
  <2>1. Sanitize(t) = <<[w |-> "leak", by |-> "code", n |-> 0]>>
    BY <1>3 DEF Sanitize, Leak, Fixed
  <2> QED
    BY <2>1
<1>4. CASE MemoryLines(t) # {} /\ BeforeMemory(t) # <<>>
  <2> DEFINE u == BeforeMemory(t)
  <2>1. PICK k \in 0..(Least(MemoryLines(t)) - 1) : u = SubSeq(t, 1, k)
    BY <1>4, BeforeMemoryStays
  <2>2. Least(MemoryLines(t)) \in 1..Len(t)
    BY <1>4, BeforeMemoryStays
  <2>3. k \in 0..Len(t)
    BY <2>1, <2>2
  <2>4. u \in Seq(Anything) /\ Len(u) = k /\ \A j \in 1..k : u[j] = t[j]
    BY <2>1, <2>3, PartsStay
  <2>5. Sanitize(t) = Renamed(u)
    BY <1>4 DEF Sanitize
  <2>6. u # <<>>
    BY <1>4
  <2> HIDE DEF u
  <2>7. 1 \in 1..k /\ t # <<>>
    BY <2>3, <2>4, <2>6
  <2>8. u[1].w = "i1"
    BY <2>4, <2>7
  <2> QED
    BY <1>1, <2>4, <2>5, <2>8
<1> QED
  BY <1>2, <1>3, <1>4

(* Two texts without anything internal join to one, unless the second goes on with what the first began. *)
LEMMA JoinIsClean ==
  ASSUME NEW v \in Seq(Anything), NEW o \in Seq(Anything), Clean(v), Clean(o),
         Open(v) => o = <<>> \/ o[1].w \notin {"i2", "m2"}
  PROVE  Clean(v \o o)
<1> DEFINE j == v \o o
           a == Len(v)
           b == Len(o)
<1>1. /\ a \in Nat /\ b \in Nat /\ DOMAIN j = 1..(a + b) /\ DOMAIN v = 1..a /\ DOMAIN o = 1..b
      /\ (\A i \in 1..a : j[i] = v[i]) /\ (\A i \in 1..b : j[a + i] = o[i])
  OBVIOUS
<1>2. \A i \in 1..(a + b) : i \notin 1..a => i - a \in 1..b /\ j[i] = o[i - a]
  <2> SUFFICES ASSUME NEW i \in 1..(a + b), i \notin 1..a PROVE i - a \in 1..b /\ j[i] = o[i - a]
    OBVIOUS
  <2>1. PICK k \in 1..b : i = a + k
    <3>1. i - a \in 1..b /\ i = a + (i - a)
      BY <1>1
    <3> QED
      BY <3>1
  <2>2. i - a = k
    BY <1>1, <2>1
  <2> QED
    BY <1>1, <2>1, <2>2
<1>3. v # <<>> <=> a # 0
  OBVIOUS
<1>4. o # <<>> <=> b # 0
  OBVIOUS
<1> HIDE DEF j, a, b
\* Two pieces in a row are in one of the texts, or the last of the one and the first of the other.
<1>5. ASSUME NEW i, i \in DOMAIN j, i + 1 \in DOMAIN j
      PROVE  \/ i \in 1..a /\ i + 1 \in 1..a /\ j[i] = v[i] /\ j[i + 1] = v[i + 1]
             \/ i = a /\ a # 0 /\ b # 0 /\ j[i] = v[a] /\ j[i + 1] = o[1]
             \/ i - a \in 1..b /\ (i - a) + 1 \in 1..b /\ j[i] = o[i - a] /\ j[i + 1] = o[(i - a) + 1]
  <2>1. i \in 1..(a + b) /\ i + 1 \in 1..(a + b)
    BY <1>1, <1>5
  <2>2. CASE i + 1 \in 1..a
    BY <1>1, <2>1, <2>2
  <2>3. CASE i = a
    <3>1. a + 1 \notin 1..a /\ (a + 1) - a = 1 /\ a \in 1..a
      BY <1>1, <2>1, <2>3
    <3>2. j[a + 1] = o[1] /\ 1 \in 1..b /\ j[a] = v[a]
      BY <1>1, <1>2, <2>1, <2>3, <3>1
    <3> QED
      BY <1>1, <2>1, <2>3, <3>2
  <2>4. CASE i > a
    <3>1. i \notin 1..a /\ i + 1 \notin 1..a /\ (i + 1) - a = (i - a) + 1
      BY <1>1, <2>1, <2>4
    <3> QED
      BY <1>2, <2>1, <3>1
  <2> QED
    BY <1>1, <2>1, <2>2, <2>3, <2>4
<1>6. Identities(j) = {}
  <2> SUFFICES ASSUME NEW i \in Identities(j) PROVE FALSE
    OBVIOUS
  <2>1. i \in DOMAIN j /\ i + 1 \in DOMAIN j /\ j[i].w = "i1" /\ j[i + 1].w = "i2"
    BY DEF Identities, Is
  <2>2. CASE i \in 1..a /\ i + 1 \in 1..a /\ j[i] = v[i] /\ j[i + 1] = v[i + 1]
    <3>1. i \in Identities(v)
      BY <1>1, <2>1, <2>2 DEF Identities, Is
    <3> QED
      BY <3>1 DEF Clean
  <2>3. CASE i = a /\ a # 0 /\ b # 0 /\ j[i] = v[a] /\ j[i + 1] = o[1]
    <3>1. Open(v)
      BY <1>3, <2>1, <2>3 DEF Open, a
    <3> QED
      BY <1>4, <2>1, <2>3, <3>1
  <2>4. CASE i - a \in 1..b /\ (i - a) + 1 \in 1..b /\ j[i] = o[i - a] /\ j[i + 1] = o[(i - a) + 1]
    <3>1. i - a \in Identities(o)
      BY <1>1, <2>1, <2>4 DEF Identities, Is
    <3> QED
      BY <3>1 DEF Clean
  <2> QED
    BY <1>5, <2>1, <2>2, <2>3, <2>4
<1>7. Lines(j, "m1", "m2") = {}
  <2> SUFFICES ASSUME NEW i \in Lines(j, "m1", "m2") PROVE FALSE
    OBVIOUS
  <2>1. i \in DOMAIN j /\ i + 1 \in DOMAIN j /\ j[i].w = "m1" /\ j[i + 1].w = "m2" /\ StartsLine(j, i)
    BY DEF Lines, Is
  <2>2. CASE i \in 1..a /\ i + 1 \in 1..a /\ j[i] = v[i] /\ j[i + 1] = v[i + 1]
    <3>1. StartsLine(v, i)
      <4>1. CASE i = 1
        BY <4>1 DEF StartsLine
      <4>2. CASE i # 1
        <5>1. i - 1 \in 1..a /\ j[i - 1].w = "nl"
          BY <1>1, <2>1, <2>2, <4>2 DEF StartsLine, Is
        <5> QED
          BY <1>1, <5>1 DEF StartsLine, Is
      <4> QED
        BY <4>1, <4>2
    <3>2. i \in Lines(v, "m1", "m2")
      BY <1>1, <2>1, <2>2, <3>1 DEF Lines, Is
    <3> QED
      BY <3>2 DEF Clean
  <2>3. CASE i = a /\ a # 0 /\ b # 0 /\ j[i] = v[a] /\ j[i + 1] = o[1]
    <3>1. StartsLine(v, a)
      <4>1. CASE a = 1
        BY <4>1 DEF StartsLine
      <4>2. CASE a # 1
        <5>1. a - 1 \in 1..a /\ j[a - 1].w = "nl"
          BY <1>1, <2>1, <2>3, <4>2 DEF StartsLine, Is
        <5> QED
          BY <1>1, <5>1 DEF StartsLine, Is
      <4> QED
        BY <4>1, <4>2
    <3>2. Open(v)
      BY <1>3, <2>1, <2>3, <3>1 DEF Open, a
    <3> QED
      BY <1>4, <2>1, <2>3, <3>2
  <2>4. CASE i - a \in 1..b /\ (i - a) + 1 \in 1..b /\ j[i] = o[i - a] /\ j[i + 1] = o[(i - a) + 1]
    <3>1. StartsLine(o, i - a)
      <4>1. CASE i - a = 1
        BY <4>1 DEF StartsLine
      <4>2. CASE i - a # 1
        <5>1. i - 1 \in 1..(a + b) /\ i - 1 \notin 1..a /\ (i - 1) - a = (i - a) - 1 /\ i # 1
          <6> DEFINE k == i - a
          <6>1. i \in 1..(a + b) /\ a \in Nat /\ b \in Nat
            BY <1>1, <2>1
          <6>2. k \in 1..b /\ k # 1 /\ i = a + k
            BY <2>4, <4>2, <6>1
          <6> HIDE DEF k
          <6>3. i - 1 = a + (k - 1) /\ k - 1 \in 1..b
            BY <6>1, <6>2
          <6> QED
            BY <6>1, <6>2, <6>3
        <5>2. j[i - 1].w = "nl"
          BY <2>1, <5>1 DEF StartsLine, Is
        <5>3. (i - a) - 1 \in 1..b /\ o[(i - a) - 1].w = "nl"
          BY <1>2, <5>1, <5>2
        <5> QED
          BY <1>1, <5>3 DEF StartsLine, Is
      <4> QED
        BY <4>1, <4>2
    <3>2. i - a \in Lines(o, "m1", "m2")
      BY <1>1, <2>1, <2>4, <3>1 DEF Lines, Is
    <3> QED
      BY <3>2 DEF Clean
  <2> QED
    BY <1>5, <2>1, <2>2, <2>3, <2>4
<1> QED
  BY <1>6, <1>7 DEF Clean, j

(* A joined text ends as its second part does. *)
LEMMA OpenOfJoin ==
  ASSUME NEW v \in Seq(Anything), NEW o \in Seq(Anything), o # <<>>, Open(v \o o)
  PROVE  Open(o)
<1> DEFINE j == v \o o
           a == Len(v)
           b == Len(o)
<1>1. /\ a \in Nat /\ b \in Nat /\ b # 0 /\ Len(j) = a + b /\ DOMAIN j = 1..(a + b) /\ DOMAIN o = 1..b
      /\ \A i \in 1..b : j[a + i] = o[i]
  OBVIOUS
<1>2. j[Len(j)] = o[b]
  BY <1>1
<1>3. ASSUME StartsLine(j, Len(j)) PROVE StartsLine(o, b)
  <2>1. CASE b = 1
    BY <2>1 DEF StartsLine
  <2>2. CASE b # 1
    <3>1. b - 1 \in 1..b /\ a + (b - 1) = Len(j) - 1 /\ Len(j) # 1
      BY <1>1, <2>2
    <3>2. j[Len(j) - 1].w = "nl" /\ j[a + (b - 1)] = o[b - 1]
      <4>1. j[Len(j) - 1].w = "nl"
        BY <1>3, <3>1 DEF StartsLine, Is
      <4> HIDE DEF j
      <4> QED
        BY <1>1, <3>1, <4>1
    <3> HIDE DEF j
    <3> QED
      BY <1>1, <3>1, <3>2 DEF StartsLine, Is
  <2> QED
    BY <2>1, <2>2
<1>4. j[Len(j)].w = "i1" \/ (j[Len(j)].w = "m1" /\ StartsLine(j, Len(j)))
  BY DEF Open
<1> HIDE DEF j
<1> QED
  BY <1>2, <1>3, <1>4 DEF Open

(* Renaming closes no half identity and no half memory line at the end of a text. *)
LEMMA OpenOfRenamed ==
  ASSUME NEW t \in Seq(Anything), Open(Renamed(t))
  PROVE  Open(t)
<1> DEFINE m == Len(Places(t))
           r == Renamed(t)
<1>1. /\ m \in Nat /\ r \in Seq(Anything) /\ Len(r) = m
      /\ \A k \in 1..m : /\ Places(t)[k] \in 1..Len(t)
                         /\ r[k].w = IF Places(t)[k] \in Identities(t) THEN "name" ELSE t[Places(t)[k]].w
  BY RenamedSays
<1>2. /\ m # 0 => Places(t)[1] = 1
      /\ \A k \in 1..m : Places(t)[k] \notin Identities(t) =>
            IF k = m THEN Places(t)[k] = Len(t) ELSE Places(t)[k + 1] = Places(t)[k] + 1
  BY NextPlace
<1>3. r # <<>> /\ (r[m].w = "i1" \/ (r[m].w = "m1" /\ StartsLine(r, m)))
  BY <1>1 DEF Open, r
<1> HIDE DEF m, r
<1>4. m \in 1..m /\ m # 0 /\ Len(t) \in Nat
  BY <1>1, <1>3
<1>5. Places(t)[m] \notin Identities(t) /\ t[Places(t)[m]].w = r[m].w
  BY <1>1, <1>3, <1>4
<1>6. Places(t)[m] = Len(t)
  BY <1>2, <1>4, <1>5
<1>7. Len(t) \in 1..Len(t) /\ t # <<>>
  BY <1>1, <1>4, <1>6
<1>8. ASSUME StartsLine(r, m) PROVE StartsLine(t, Len(t))
  <2>1. CASE m = 1
    <3>1. Places(t)[m] = 1
      BY <1>2, <1>4, <2>1
    <3>2. Len(t) = 1
      BY <1>6, <3>1
    <3> QED
      BY <3>2 DEF StartsLine
  <2>2. CASE m # 1
    <3>1. m - 1 \in 1..m /\ r[m - 1].w = "nl" /\ m - 1 # m /\ (m - 1) + 1 = m
      BY <1>4, <1>8, <2>2 DEF StartsLine, Is
    <3>2. Places(t)[m - 1] \notin Identities(t) /\ t[Places(t)[m - 1]].w = "nl" /\ Places(t)[m - 1] \in 1..Len(t)
      BY <1>1, <3>1
    <3>3. Len(t) = Places(t)[m - 1] + 1
      BY <1>2, <1>6, <3>1, <3>2
    <3>4. Len(t) - 1 = Places(t)[m - 1] /\ DOMAIN t = 1..Len(t)
      BY <1>4, <3>2, <3>3
    <3> QED
      BY <3>2, <3>4 DEF StartsLine, Is
  <2> QED
    BY <2>1, <2>2
<1> QED
  BY <1>3, <1>5, <1>6, <1>7, <1>8 DEF Open

(* What LineStart is: the last end of a line, or 0. *)
LEMMA LineStartIs ==
  ASSUME NEW P, NEW t \in Seq(P)
  PROVE  /\ LineStart(t) \in 0..Len(t) /\ (LineStart(t) # 0 => t[LineStart(t)].w = "nl")
         /\ \A i \in 1..Len(t) : t[i].w = "nl" => i <= LineStart(t)
<1> DEFINE S == {0} \cup {i \in DOMAIN t : t[i].w = "nl"}
<1>1. S \subseteq 0..Len(t) /\ S # {} /\ Len(t) \in Nat
  OBVIOUS
<1>2. \A i \in S : i # 0 => t[i].w = "nl"
  OBVIOUS
<1>3. \A i \in 1..Len(t) : t[i].w = "nl" => i \in S
  OBVIOUS
<1> HIDE DEF S
<1>4. Greatest(S) \in S /\ \A k \in S : k <= Greatest(S)
  BY <1>1, GreatestOf
<1>5. LineStart(t) = Greatest(S)
  BY DEF LineStart, S
<1> QED
  BY <1>1, <1>2, <1>3, <1>4, <1>5

(* If a stream lets go of an open end, it holds back the first half of an identity. *)
LEMMA OpenOfKept ==
  ASSUME NEW t \in Seq(Anything), Open(SubSeq(t, 1, Kept(t)))
  PROVE  SubSeq(t, Kept(t) + 1, Len(t)) # <<>> /\ SubSeq(t, Kept(t) + 1, Len(t))[1].w = "i1"
<1> DEFINE k == Kept(t)
           n == Len(t)
           u == SubSeq(t, 1, k)
           rest == SubSeq(t, k + 1, n)
<1>1. n \in Nat /\ k \in 0..n /\ DOMAIN t = 1..n
  BY KeptIsPlace
<1>2. /\ Len(u) = k /\ rest \in Seq(Anything) /\ Len(rest) = n - k
      /\ (\A i \in 1..k : u[i] = t[i]) /\ \A i \in 1..(n - k) : rest[i] = t[k + i]
  BY KeptIsPlace, PartsStay
<1>3. u # <<>> /\ (u[k].w = "i1" \/ (u[k].w = "m1" /\ StartsLine(u, k)))
  BY <1>2 DEF Open
<1>4. u \in Seq(Anything)
  BY KeptIsPlace, PartsStay
<1> HIDE DEF u, rest, k
<1>5. k \in 1..k /\ k \in 1..n /\ k # 0
  BY <1>1, <1>2, <1>3, <1>4
<1>6. t[k].w \in {"i1", "m1"} /\ u[k] = t[k]
  BY <1>2, <1>3, <1>5
<1>7. /\ LineStart(t) \in 0..n /\ (LineStart(t) # 0 => t[LineStart(t)].w = "nl")
      /\ \A i \in 1..n : t[i].w = "nl" => i <= LineStart(t)
  BY LineStartIs
<1>8. CASE MayBeMemory(t)
  <2>1. k = LineStart(t)
    BY <1>8 DEF Kept, k
  <2> QED
    BY <1>5, <1>6, <1>7, <2>1
<1>9. CASE ~MayBeMemory(t) /\ IdentityAtEnd(t) # {}
  <2> DEFINE l == Least(IdentityAtEnd(t))
  <2>1. k = l - 1
    BY <1>9 DEF Kept, k
  <2>2. IdentityAtEnd(t) \subseteq 1..n /\ \A i \in IdentityAtEnd(t) : t[i].w = "i1"
    BY <1>1 DEF IdentityAtEnd, Is
  <2>3. l \in IdentityAtEnd(t)
    <3>1. IdentityAtEnd(t) \subseteq Nat
      BY <1>1, <2>2
    <3> QED
      BY <1>9, <3>1, LeastOf
  <2> HIDE DEF l
  <2>4. l \in 1..n /\ t[l].w = "i1"
    BY <2>2, <2>3
  <2>5. k + 1 = l /\ 1 \in 1..(n - k)
    BY <1>1, <2>1, <2>4
  <2>6. rest[1] = t[l]
    BY <1>2, <2>5
  <2>7. rest # <<>>
    BY <1>1, <1>2, <2>5
  <2> QED
    BY <2>4, <2>6, <2>7 DEF rest, k, n
<1>10. CASE ~MayBeMemory(t) /\ IdentityAtEnd(t) = {}
  <2>1. k = n
    BY <1>10 DEF Kept, k
  <2>2. CASE u[k].w = "i1"
    <3>1. n \in IdentityAtEnd(t)
      BY <1>1, <1>5, <1>6, <2>1, <2>2 DEF IdentityAtEnd, Is
    <3>2. IdentityAtEnd(t) = {}
      BY <1>10
    <3> QED
      BY <3>1, <3>2
  <2>3. CASE u[k].w = "m1" /\ StartsLine(u, k)
    <3>1. LineStart(t) = n - 1
      <4>1. LineStart(t) # n
        BY <1>5, <1>6, <1>7, <2>1, <2>3
      <4>2. CASE n = 1
        BY <1>7, <4>1, <4>2
      <4>3. CASE n # 1
        <5>1. n - 1 \in 1..k /\ u[n - 1].w = "nl"
          BY <1>1, <1>2, <2>1, <2>3, <4>3, <1>5 DEF StartsLine, Is
        <5>2. n - 1 \in 1..n /\ t[n - 1].w = "nl"
          BY <1>2, <2>1, <5>1
        <5>3. n - 1 <= LineStart(t)
          BY <1>7, <5>2
        <5> QED
          BY <1>1, <1>7, <4>1, <5>3
      <4> QED
        BY <4>2, <4>3
    <3>2. SubSeq(t, n, n) \in Seq(Anything) /\ Len(SubSeq(t, n, n)) = 1 /\ SubSeq(t, n, n)[1] = t[n]
      <4>1. n \in 1..n
        BY <1>5, <2>1
      <4> QED
        BY <4>1
    <3>3. (n - 1) + 1 = n
      BY <1>1
    <3>4. Is(SubSeq(t, n, n), 1, "m1")
      BY <1>6, <2>1, <2>3, <3>2 DEF Is
    <3>5. MayBeMemory(t)
      BY <3>1, <3>2, <3>3, <3>4 DEF MayBeMemory, n
    <3> QED
      BY <1>10, <3>5
  <2> QED
    BY <1>3, <2>2, <2>3
<1> QED
  BY <1>8, <1>9, <1>10

(* A stream shows nothing internal, and nothing of it is completed by what was shown before. *)
LEMMA FeedJoins ==
  ASSUME NEW s \in Streams(Anything), NEW delta \in Seq(Anything), NEW v \in Seq(Anything), Clean(v), Joins(v, s)
  PROVE  Clean(v \o Feed(s, delta).out) /\ Joins(v \o Feed(s, delta).out, Feed(s, delta).s)
<1> DEFINE t == s.buffer \o delta
           k == Kept(t)
<1>1. s.buffer \in Seq(Anything) /\ t \in Seq(Anything)
  BY DEF Streams
<1>2. Open(v) /\ ~s.blocked => t # <<>> /\ t[1].w = "i1"
  <2> SUFFICES ASSUME Open(v), ~s.blocked PROVE t # <<>> /\ t[1].w = "i1"
    OBVIOUS
  <2>1. s.buffer # <<>> /\ s.buffer[1].w = "i1"
    BY DEF Joins
  <2>2. t[1] = s.buffer[1] /\ t # <<>>
    BY <1>1, <2>1
  <2> QED
    BY <2>1, <2>2
<1> HIDE DEF t
<1>3. ASSUME NEW u \in Seq(Anything), NEW j \in 0..Len(t), u = SubSeq(t, 1, j), ~s.blocked
      PROVE  Sanitize(u) \in Seq(Anything) /\ Clean(Sanitize(u)) /\ Clean(v \o Sanitize(u))
  <2>1. Sanitize(u) \in Seq(Anything) /\ Clean(Sanitize(u))
    BY SanitizedIsClean
  <2>2. ASSUME Open(v) PROVE Sanitize(u) = <<>> \/ Sanitize(u)[1].w \notin {"i2", "m2"}
    <3>1. u = <<>> \/ u[1].w = "i1"
      <4>1. Len(u) = j /\ \A i \in 1..j : u[i] = t[i]
        BY <1>1, <1>3, PartsStay
      <4>2. CASE j = 0
        BY <4>1, <4>2
      <4>3. CASE j # 0
        <5>1. 1 \in 1..j
          BY <1>1, <4>3
        <5> QED
          BY <1>2, <1>3, <2>2, <4>1, <5>1
      <4> QED
        BY <4>2, <4>3
    <3>2. Sanitize(u) = <<>> \/ Sanitize(u)[1].w \in {"i1", "name", "leak"}
      BY <3>1, SanitizedStart
    <3> QED
      BY <3>2
  <2> QED
    BY <2>1, <2>2, JoinIsClean
<1>4. CASE s.blocked
  <2>1. Feed(s, delta) = [s |-> s, out |-> <<>>]
    BY <1>4 DEF Feed
  <2>2. v \o <<>> = v
    OBVIOUS
  <2> QED
    BY <2>1, <2>2
<1>5. CASE ~s.blocked /\ MemoryLines(t) # {}
  <2>1. Feed(s, delta) = Emit(s, BeforeMemory(t), <<>>, TRUE)
    BY <1>5 DEF Feed, t
  <2>2. PICK j \in 0..(Least(MemoryLines(t)) - 1) : BeforeMemory(t) = SubSeq(t, 1, j)
    BY <1>1, <1>5, BeforeMemoryStays
  <2>3. Least(MemoryLines(t)) \in 1..Len(t)
    BY <1>1, <1>5, BeforeMemoryStays
  <2>4. j \in 0..Len(t)
    BY <2>2, <2>3
  <2>5. BeforeMemory(t) \in Seq(Anything)
    BY <1>1, <2>2, <2>4, PartsStay
  <2>6. Clean(v \o Sanitize(BeforeMemory(t)))
    BY <1>3, <1>5, <2>2, <2>4, <2>5
  <2>7. Feed(s, delta).out = Sanitize(BeforeMemory(t)) /\ Feed(s, delta).s.blocked
    BY <2>1 DEF Emit
  <2> QED
    BY <2>6, <2>7 DEF Joins
<1>6. CASE ~s.blocked /\ MemoryLines(t) = {}
  <2> DEFINE ready == SubSeq(t, 1, k)
             rest == SubSeq(t, k + 1, Len(t))
             out == Sanitize(ready)
  <2>1. Feed(s, delta) = Emit(s, ready, rest, FALSE)
    BY <1>6 DEF Feed, t
  <2>2. k \in 0..Len(t) /\ ready \in Seq(Anything) /\ Len(ready) = k
    BY <1>1, KeptIsPlace, PartsStay
  <2>3. out \in Seq(Anything) /\ Clean(v \o out)
    BY <1>3, <1>6, <2>2
  <2>4. out = Renamed(ready)
    <3>1. MemoryLines(ready) = {}
      BY <1>1, <1>6, <2>2, MemoryOfPart
    <3> QED
      BY <3>1 DEF Sanitize
  <2>5. ASSUME Open(v \o out) PROVE rest # <<>> /\ rest[1].w = "i1"
    <3>1. CASE out = <<>>
      <4>1. ready = <<>>
        BY <2>2, <2>4, <3>1, RenamedNotEmpty
      <4>2. k = 0
        BY <2>2, <4>1
      <4>3. rest = t
        BY <1>1, <4>2
      <4>4. v \o out = v
        BY <3>1
      <4> QED
        BY <1>2, <1>6, <2>5, <4>3, <4>4
    <3>2. CASE out # <<>>
      <4>1. Open(out)
        BY <2>3, <2>5, <3>2, OpenOfJoin
      <4>2. Open(ready)
        BY <2>2, <2>4, <4>1, OpenOfRenamed
      <4> QED
        BY <1>1, <4>2, OpenOfKept
    <3> QED
      BY <3>1, <3>2
  <2>6. Feed(s, delta).out = out /\ Feed(s, delta).s.buffer = rest
    BY <2>1 DEF Emit
  <2> HIDE DEF out, rest
  <2> QED
    BY <2>3, <2>5, <2>6 DEF Joins
<1> QED
  BY <1>4, <1>5, <1>6

(* Nor does the end of the stream show any. *)
LEMMA FlushJoins ==
  ASSUME NEW s \in Streams(Anything), NEW v \in Seq(Anything), Clean(v), Joins(v, s)
  PROVE  Clean(v \o Flush(s).out)
<1>1. s.buffer \in Seq(Anything)
  BY DEF Streams
<1>2. CASE ~s.blocked
  <2> DEFINE out == Sanitize(s.buffer)
  <2>1. out \in Seq(Anything) /\ Clean(out)
    BY <1>1, SanitizedIsClean
  <2>2. ASSUME Open(v) PROVE out = <<>> \/ out[1].w \notin {"i2", "m2"}
    <3>1. s.buffer # <<>> /\ s.buffer[1].w = "i1"
      BY <1>2, <2>2 DEF Joins
    <3>2. out = <<>> \/ out[1].w \in {"i1", "name", "leak"}
      BY <1>1, <3>1, SanitizedStart
    <3> QED
      BY <3>2
  <2>3. Flush(s).out = out
    BY <1>2 DEF Flush, Emit
  <2> HIDE DEF out
  <2>4. Clean(v \o out)
    BY <2>1, <2>2, JoinIsClean
  <2> QED
    BY <2>3, <2>4
<1>3. CASE s.blocked
  <2>1. Flush(s).out \in {<<>>, Leak}
    BY <1>3 DEF Flush
  <2>2. Leak \in Seq(Anything) /\ Leak # <<>> /\ Leak[1].w = "leak"
    BY AnythingIsClosed DEF Closed, Leak, Fixed
  <2>3. Clean(Leak) /\ Clean(<<>>)
    BY OneIsClean DEF Leak, Fixed
  <2>4. v \o <<>> = v
    OBVIOUS
  <2>5. Clean(v \o Leak)
    BY <2>2, <2>3, JoinIsClean
  <2> QED
    BY <2>1, <2>4, <2>5
<1> QED
  BY <1>2, <1>3

\* What is shown, at any time, has nothing in it that the stream looks for and gets none from what it has kept back; what
\* is recorded has nothing internal at all.
ShownKept ==
    /\ Clean(shown) /\ Pure(response.answer)
    /\ response.status = "none" => Joins(shown, request.stream)

\* Before the agents' first words nothing is shown or to be read, while a synthesis is written nothing is read, and
\* the end of the run is its last event.
OrderKept ==
    /\ agent = "new" => shown = <<>>
    /\ agent = "diagnoses" => request.streamed \/ shown = <<>>
    /\ agent \in {"new", "diagnoses"} => events = <<>>
    /\ pro.status = "writes" => response.status = "none" /\ events = <<>>
    /\ \A i \in DOMAIN events : events[i].kind \in {"end", "raised"} => i = Len(events)

(* What a text is does not depend on when it is looked at. *)
LEMMA CleanLater ==
  /\ \A v : Clean(v) /\ v = shown' => Clean(shown)'
  /\ \A v : Pure(v) /\ v = response'.answer => Pure(response.answer)'
  /\ \A v, s : Joins(v, s) /\ v = shown' /\ s = request'.stream => Joins(shown, request.stream)'
<1>1. ASSUME NEW v, Clean(v), v = shown' PROVE Clean(shown)'
  BY <1>1 DEF Clean, Lines, Identities, Is, StartsLine
<1>2. ASSUME NEW v, Pure(v), v = response'.answer PROVE Pure(response.answer)'
  BY <1>2 DEF Pure, MemoryLines, Lines, Identities, Is, StartsLine
<1>3. ASSUME NEW v, NEW s, Joins(v, s), v = shown', s = request'.stream PROVE Joins(shown, request.stream)'
  BY <1>3 DEF Joins, Open, Is, StartsLine
<1> QED
  BY <1>1, <1>2, <1>3

(* A step that shows nothing leaves what is shown as it was. *)
LEMMA ShownRests ==
  ASSUME ShownKept, UNCHANGED shown, request'.stream = request.stream, response'.answer = response.answer,
         response'.status = "none" => response.status = "none"
  PROVE  ShownKept'
<1>1. PICK v, a, s : v = shown /\ a = response.answer /\ s = request.stream
  OBVIOUS
<1>2. Clean(v) /\ Pure(a) /\ (response'.status = "none" => Joins(v, s))
  BY <1>1 DEF ShownKept
<1>3. v = shown' /\ a = response'.answer /\ s = request'.stream
  BY <1>1
<1> QED
  BY <1>2, <1>3, CleanLater DEF ShownKept

(* A step that shows a clean text and leaves the run without a response must leave the stream behind it. *)
LEMMA ShownAnew ==
  ASSUME NEW v, NEW a, NEW s, v = shown', a = response'.answer, s = request'.stream, Clean(v), Pure(a),
         response'.status = "none" => Joins(v, s)
  PROVE  ShownKept'
BY CleanLater DEF ShownKept

(* All texts of a run are of pieces that somebody may say. *)
LEMMA AnythingSaid ==
  ASSUME VoicesKept
  PROVE  /\ shown \in Seq(Anything) /\ request.stream \in Streams(Anything)
         /\ text \in Seq(Anything) /\ pro.text \in Seq(Anything)
<1>1. Public \subseteq Everybody /\ {"pro"} \subseteq Everybody /\ Spoken \cup AsWell \subseteq Everybody
  BY DEF Public, Everybody, Spoken, AsWell
<1>2. /\ Seq(Said(Public)) \subseteq Seq(Anything) /\ Streams(Said(Public)) \subseteq Streams(Anything)
      /\ Seq(Said({"pro"})) \subseteq Seq(Anything) /\ Seq(Said(Spoken \cup AsWell)) \subseteq Seq(Anything)
  BY <1>1, SaidGrows DEF Anything
<1>3. shown \in Seq(Anything) /\ text \in Seq(Anything) /\ pro.text \in Seq(Anything)
  BY <1>2 DEF VoicesKept
<1> QED
  BY <1>2, <1>3 DEF VoicesKept, RequestKept

\* The request's variables are these.
IsRequest(r) ==
    r = [active |-> r.active, reasons |-> r.reasons, delegated |-> r.delegated, streamed |-> r.streamed,
         kept |-> r.kept, stream |-> r.stream]

(* A piece that is streamed. *)
LEMMA ShowsClean ==
  ASSUME VoicesKept, ShownKept, response.status = "none", UNCHANGED response,
         NEW local, IsRequest(local), local.stream = request.stream, NEW p \in Anything, Shows(p, local)
  PROVE  ShownKept' /\ request'.streamed = local.streamed
<1>1. PICK d : d = <<p>>
  OBVIOUS
<1>2. PICK fed : fed = Feed(local.stream, d)
  OBVIOUS
<1>3. d \in Seq(Anything) /\ shown \in Seq(Anything) /\ local.stream \in Streams(Anything)
  <2>1. d \in Seq(Anything)
    BY <1>1
  <2> QED
    BY <2>1, AnythingSaid
<1>4. Clean(shown) /\ Joins(shown, local.stream)
  BY DEF ShownKept
<1>5. Clean(shown \o fed.out) /\ Joins(shown \o fed.out, fed.s)
  BY <1>2, <1>3, <1>4, FeedJoins
<1>6. shown' = shown \o fed.out /\ request' = [local EXCEPT !.stream = fed.s]
  BY <1>1, <1>2 DEF Shows
<1>7. request'.stream = fed.s /\ request'.streamed = local.streamed
  BY <1>6 DEF IsRequest
<1>8. Pure(response.answer)
  BY DEF ShownKept
<1>9. PICK v, a : v = shown \o fed.out /\ a = response.answer
  OBVIOUS
<1>10. ShownKept'
  BY <1>5, <1>6, <1>7, <1>8, <1>9, ShownAnew
<1> QED
  BY <1>7, <1>10

(* Three texts join to the same text in whatever order they are put together. *)
LEMMA PartsJoin ==
  ASSUME NEW a \in Seq(Anything), NEW b \in Seq(Anything), NEW c \in Seq(Anything)
  PROVE  (a \o b) \o c = a \o (b \o c)
<1> DEFINE x == (a \o b) \o c
           y == a \o (b \o c)
           n == Len(a) + Len(b) + Len(c)
<1>1. Len(a) \in Nat /\ Len(b) \in Nat /\ Len(c) \in Nat
  OBVIOUS
<1>2. x \in Seq(Anything) /\ y \in Seq(Anything) /\ Len(x) = n /\ Len(y) = n
  OBVIOUS
<1>3. ASSUME NEW i \in 1..n PROVE x[i] = y[i]
  <2>1. CASE i <= Len(a)
    <3>1. x[i] = (a \o b)[i] /\ (a \o b)[i] = a[i]
      BY <1>1, <2>1
    <3>2. y[i] = a[i]
      BY <1>1, <2>1
    <3> QED
      BY <3>1, <3>2
  <2>2. CASE Len(a) < i /\ i <= Len(a) + Len(b)
    <3>1. x[i] = (a \o b)[i] /\ (a \o b)[i] = b[i - Len(a)]
      BY <1>1, <2>2
    <3>2. y[i] = (b \o c)[i - Len(a)] /\ (b \o c)[i - Len(a)] = b[i - Len(a)]
      BY <1>1, <2>2
    <3> QED
      BY <3>1, <3>2
  <2>3. CASE Len(a) + Len(b) < i
    <3>1. x[i] = c[i - (Len(a) + Len(b))]
      BY <1>1, <2>3
    <3>2. y[i] = (b \o c)[i - Len(a)] /\ (b \o c)[i - Len(a)] = c[(i - Len(a)) - Len(b)]
      BY <1>1, <2>3
    <3>3. (i - Len(a)) - Len(b) = i - (Len(a) + Len(b))
      BY <1>1
    <3> QED
      BY <3>1, <3>2, <3>3
  <2> QED
    BY <1>1, <2>1, <2>2, <2>3
<1> HIDE DEF x, y, n
<1>4. x = y
  BY <1>1, <1>2, <1>3 DEF n
<1> QED
  BY <1>4 DEF x, y

(* The end of a run shows what the stream has kept, and the response is sanitized. *)
LEMMA ConcludeClean ==
  ASSUME VoicesKept, agent = "ended", ShownKept, response.status = "none",
         NEW given \in Seq(Said(Spoken \cup {"pro"})), Conclude(given)
  PROVE  ShownKept' /\ response'.status = "completed"
<1>1. Final(Everybody)
  BY DEF Final, Public, Everybody, Spoken
<1>2. PICK answer, deltas : answer = Answer(given) /\ deltas = Rest(given)
  OBVIOUS
<1>3. deltas \in Seq(Seq(Anything))
  BY <1>1, <1>2, RestSaid DEF Anything
<1>4. Pure(answer)
  <2>1. given \in Seq(Anything)
    <3>1. Spoken \cup {"pro"} \subseteq Everybody
      BY DEF Spoken, Everybody
    <3> QED
      BY <3>1, SaidGrows DEF Anything
  <2>2. \A w \in AllWords : Fixed(w) \in Seq(Anything)
    BY SaidIsClosed DEF Anything, Everybody
  <2>3. {"diagnosis", "unavailable", "guard"} \subseteq AllWords
    BY DEF AllWords
  <2>4. Safeguarded(given) \in Seq(Anything)
    BY <2>1, <2>2, <2>3 DEF Safeguarded
  <2>5. PICK u \in Seq(Anything) : answer = Sanitize(u)
    BY <1>2, <2>1, <2>2, <2>3, <2>4 DEF Answer, Unavailable
  <2> QED
    BY <2>5, SanitizedIsClean
<1> DEFINE I == {f \in [s : Streams(Anything), out : Seq(Anything)] :
                    Clean(shown \o f.out) /\ Joins(shown \o f.out, f.s)}
           fed == FeedAll(deltas)
           end == Flush(fed.s)
<1>5. shown \in Seq(Anything) /\ request.stream \in Streams(Anything) /\ Closed(Anything)
  BY AnythingSaid, AnythingIsClosed
<1>6. fed \in I
  <2>1. [s |-> request.stream, out |-> <<>>] \in I
    <3>1. shown \o <<>> = shown
      BY <1>5
    <3>2. Clean(shown) /\ Joins(shown, request.stream)
      BY DEF ShownKept
    <3>3. PICK h : h = [s |-> request.stream, out |-> <<>>]
      OBVIOUS
    <3>4. h \in [s : Streams(Anything), out : Seq(Anything)] /\ h.out = <<>> /\ h.s = request.stream
      BY <1>5, <3>3
    <3>5. Clean(shown \o h.out) /\ Joins(shown \o h.out, h.s)
      BY <3>1, <3>2, <3>4
    <3> QED
      BY <3>3, <3>4, <3>5
  <2>2. Len(deltas) \in Nat /\ \A k \in 1..Len(deltas) : deltas[k] \in Seq(Anything)
    BY <1>3
  <2>3. ASSUME NEW k \in 1..Len(deltas), NEW f \in I PROVE FedOn(f, deltas[k]) \in I
    <3>1. f.s \in Streams(Anything) /\ f.out \in Seq(Anything) /\ deltas[k] \in Seq(Anything)
      BY <2>2
    <3> DEFINE g == Feed(f.s, deltas[k])
    <3>2. g.s \in Streams(Anything) /\ g.out \in Seq(Anything)
      BY <1>5, <3>1, FeedStays
    <3>3. shown \o f.out \in Seq(Anything) /\ Clean(shown \o f.out) /\ Joins(shown \o f.out, f.s)
      BY <1>5, <3>1
    <3>4. PICK v : v = shown \o f.out
      OBVIOUS
    <3>5. v \in Seq(Anything) /\ Clean(v) /\ Joins(v, f.s)
      BY <3>3, <3>4
    <3>6. Clean(v \o g.out) /\ Joins(v \o g.out, g.s)
      BY <3>1, <3>5, FeedJoins
    <3> HIDE DEF g
    <3>7. v \o g.out = shown \o (f.out \o g.out)
      <4>2. (shown \o f.out) \o g.out = shown \o (f.out \o g.out)
        BY <1>5, <3>1, <3>2, PartsJoin
      <4> QED
        BY <3>4, <4>2
    <3>8. PICK o : o = f.out \o g.out
      OBVIOUS
    <3>9. PICK h : h = [s |-> g.s, out |-> o]
      OBVIOUS
    <3>10. h \in [s : Streams(Anything), out : Seq(Anything)]
      BY <3>1, <3>2, <3>8, <3>9
    <3>11. Clean(shown \o h.out) /\ Joins(shown \o h.out, h.s)
      BY <3>6, <3>7, <3>8, <3>9
    <3>12. FedOn(f, deltas[k]) = h
      BY <3>8, <3>9 DEF FedOn, g
    <3> QED
      BY <3>10, <3>11, <3>12
  <2> HIDE DEF I
  <2> QED
    BY <2>1, <2>2, <2>3, FeedingKeeps
<1>7. /\ shown' = shown \o fed.out \o end.out /\ request' = [request EXCEPT !.stream = end.s]
      /\ response' = [status |-> "completed", answer |-> answer, cites |-> PublicCitations(cites, CitationLimit)]
  BY <1>2 DEF Conclude
<1> HIDE DEF fed
<1>8. PICK v : v = shown \o fed.out
  OBVIOUS
<1>9. v \in Seq(Anything) /\ Clean(v) /\ Joins(v, fed.s) /\ fed.s \in Streams(Anything)
  BY <1>5, <1>6, <1>8
<1>10. Clean(v \o end.out)
  BY <1>9, FlushJoins
<1> HIDE DEF end
<1>11. shown' = v \o end.out
  BY <1>7, <1>8
<1>12. response'.status = "completed" /\ response'.answer = answer
  BY <1>7
<1>13. ShownKept'
  <2>1. PICK w, s : w = shown' /\ s = request'.stream
    OBVIOUS
  <2> QED
    BY <1>4, <1>10, <1>11, <1>12, <2>1, ShownAnew
<1> QED
  BY <1>12, <1>13

(* The order of events when one is added, *)
LEMMA OrderAppends ==
  ASSUME VoicesKept, OrderKept, agent \in {"speaks", "tool"}, agent' \notin {"new", "diagnoses"}, UNCHANGED pro,
         NEW e, Emits(e)
  PROVE  OrderKept'
<1>1. events \in Seq(AnEvent) /\ \A i \in DOMAIN events : events[i].kind \notin {"end", "raised"}
  BY DEF VoicesKept, EventsKept, AnEvent
<1>2. pro.status # "writes"
  BY DEF VoicesKept, RunKept
<1> DEFINE n == Len(events)
<1>3. n \in Nat /\ DOMAIN events = 1..n /\ events' = Append(events, e)
  BY <1>1 DEF Emits
<1>4. Len(events') = n + 1 /\ DOMAIN events' = 1..(n + 1) /\ \A i \in 1..n : events'[i] = events[i]
  BY <1>1, <1>3
<1>5. \A i \in DOMAIN events' : events'[i].kind \in {"end", "raised"} => i = Len(events')
  BY <1>1, <1>3, <1>4
<1> QED
  BY <1>2, <1>5 DEF OrderKept

(* when none is read, *)
LEMMA OrderRests ==
  ASSUME OrderKept, UNCHANGED events, pro'.status = "writes" => pro.status = "writes" /\ response'.status = "none",
         agent' = "new" => agent = "new" /\ UNCHANGED shown,
         agent' = "diagnoses" => /\ agent \in {"new", "diagnoses"}
                                 /\ request'.streamed \/ (UNCHANGED shown /\ (agent = "diagnoses" => request'.streamed = request.streamed))
  PROVE  OrderKept'
BY DEF OrderKept

(* and when the first is read, which is the last one if the run ends with it. *)
LEMMA OrderRead ==
  ASSUME VoicesKept, OrderKept, events # <<>>, events' = Tail(events), agent' = agent,
         pro'.status = "writes" => UNCHANGED pro \/ (response'.status = "none" /\ Head(events).kind = "end")
  PROVE  OrderKept' /\ pro.status # "writes"
<1>1. events \in Seq(AnEvent)
  BY DEF VoicesKept, EventsKept, AnEvent
<1>2. agent \notin {"new", "diagnoses"} /\ pro.status # "writes"
  BY DEF OrderKept
<1> DEFINE n == Len(events)
<1>3. n \in Nat /\ n # 0 /\ DOMAIN events = 1..n /\ Head(events) = events[1] /\ 1 \in 1..n
  BY <1>1
<1>4. /\ Len(events') = n - 1 /\ DOMAIN events' = 1..(n - 1)
      /\ \A i \in 1..(n - 1) : i + 1 \in 1..n /\ events'[i] = events[i + 1]
  BY <1>1
<1>5. ASSUME NEW i \in DOMAIN events', events'[i].kind \in {"end", "raised"} PROVE i = Len(events')
  <2>1. i \in 1..(n - 1) /\ i + 1 \in DOMAIN events /\ events[i + 1].kind \in {"end", "raised"}
    BY <1>3, <1>4, <1>5
  <2>2. i + 1 = n
    BY <2>1 DEF OrderKept
  <2> QED
    BY <1>3, <1>4, <2>1, <2>2
<1>6. ASSUME Head(events).kind = "end" PROVE events' = <<>>
  <2>1. 1 = n
    BY <1>3, <1>6 DEF OrderKept
  <2> QED
    BY <1>1, <2>1
<1> QED
  BY <1>2, <1>5, <1>6 DEF OrderKept

(* The request keeps a piece or says that it streamed one; the stream has not changed. *)
LEMMA KeepsStream ==
  ASSUME IsRequest(request), NEW p
  PROVE  /\ IsRequest(Keeps(p)) /\ Keeps(p).stream = request.stream
         /\ [Keeps(p) EXCEPT !.reasons = TRUE].stream = request.stream
         /\ [Keeps(p) EXCEPT !.reasons = TRUE].streamed = request.streamed /\ Keeps(p).streamed = request.streamed
         /\ IsRequest([Keeps(p) EXCEPT !.streamed = TRUE]) /\ [Keeps(p) EXCEPT !.streamed = TRUE].stream = request.stream
         /\ IsRequest([request EXCEPT !.streamed = TRUE]) /\ [request EXCEPT !.streamed = TRUE].stream = request.stream
         /\ [request EXCEPT !.streamed = TRUE].streamed
<1>1. PICK h : h = Keeps(p)
  OBVIOUS
<1>2. h = [active |-> request.active, reasons |-> request.reasons, delegated |-> request.delegated,
           streamed |-> request.streamed, kept |-> Append(request.kept, p), stream |-> request.stream]
  BY <1>1 DEF Keeps, IsRequest
<1>3. IsRequest(h) /\ h.stream = request.stream /\ h.streamed = request.streamed
  BY <1>2 DEF IsRequest
<1>4. PICK g : g = [h EXCEPT !.reasons = TRUE]
  OBVIOUS
<1>5. g.stream = request.stream /\ g.streamed = request.streamed
  BY <1>2, <1>4
<1>6. PICK i : i = [h EXCEPT !.streamed = TRUE]
  OBVIOUS
<1>7. i = [active |-> request.active, reasons |-> request.reasons, delegated |-> request.delegated,
           streamed |-> TRUE, kept |-> Append(request.kept, p), stream |-> request.stream]
  BY <1>2, <1>6
<1>8. IsRequest(i) /\ i.stream = request.stream
  BY <1>7 DEF IsRequest
<1>9. PICK j : j = [request EXCEPT !.streamed = TRUE]
  OBVIOUS
<1>10. j = [active |-> request.active, reasons |-> request.reasons, delegated |-> request.delegated,
            streamed |-> TRUE, kept |-> request.kept, stream |-> request.stream]
  BY <1>9 DEF IsRequest
<1>11. IsRequest(j) /\ j.stream = request.stream /\ j.streamed
  BY <1>10 DEF IsRequest
<1> QED
  BY <1>1, <1>3, <1>4, <1>5, <1>6, <1>8, <1>9, <1>11

\* The stream is kept.
StreamKept == ShownKept /\ OrderKept

(* Nothing has been shown or streamed. *)
LEMMA StreamAtFirst == Init => StreamKept
<1> SUFFICES ASSUME Init PROVE StreamKept
  OBVIOUS
<1>1. /\ agent = "new" /\ events = <<>> /\ shown = <<>> /\ pro.status = "none"
      /\ response.status = "none" /\ response.answer = <<>>
  BY DEF Init
<1>2. Clean(shown) /\ Pure(response.answer)
  BY <1>1, OneIsClean
<1>3. Joins(shown, request.stream)
  BY <1>1 DEF Joins, Open
<1>4. OrderKept
  BY <1>1 DEF OrderKept
<1> QED
  BY <1>2, <1>3, <1>4 DEF StreamKept, ShownKept

(* The guard's answer is a text of the code. *)
LEMMA GuardKeepsStream ==
  ASSUME VoicesKept, StreamKept, Guard
  PROVE  StreamKept'
<1>1. /\ UNCHANGED <<events, request, pro>> /\ agent = "new" /\ agent' = "ended"
      /\ shown' = Fixed(Guarded(ask.message))
      /\ response' = [status |-> "completed", answer |-> Fixed(Guarded(ask.message)), cites |-> <<>>]
  BY DEF Guard
<1>2. PICK v : v = Fixed(Guarded(ask.message))
  OBVIOUS
<1>3. Clean(v) /\ Pure(v)
  BY <1>2, OneIsClean DEF Fixed
<1>4. v = shown' /\ v = response'.answer /\ response'.status = "completed"
  BY <1>1, <1>2
<1>5. ShownKept'
  <2>1. PICK s : s = request'.stream
    OBVIOUS
  <2> QED
    BY <1>3, <1>4, <2>1, ShownAnew
<1>6. pro.status # "writes"
  BY <1>1 DEF VoicesKept, RunKept
<1>7. OrderKept'
  BY <1>1, <1>6, OrderRests DEF StreamKept
<1> QED
  BY <1>5, <1>7 DEF StreamKept

(* The agents start: nothing is shown yet. *)
LEMMA StartKeepsStream ==
  ASSUME VoicesKept, StreamKept, Start
  PROVE  StreamKept'
<1>1. /\ agent = "new" /\ agent' \in {"diagnoses", "speaks"} /\ request' = [request EXCEPT !.reasons = Reasons]
      /\ UNCHANGED <<events, pro, shown, response>>
  BY DEF Start
<1>2. request'.stream = request.stream
  BY <1>1 DEF VoicesKept, RequestKept
<1>3. ShownKept'
  BY <1>1, <1>2, ShownRests DEF StreamKept
<1>4. pro.status # "writes"
  BY <1>1 DEF VoicesKept, RunKept
<1>5. OrderKept'
  BY <1>1, <1>4, OrderRests DEF StreamKept
<1> QED
  BY <1>3, <1>5 DEF StreamKept

(* The agents write, call and return while the request waits: what they say is still to be read. *)
LEMMA AgentsKeepStream ==
  ASSUME VoicesKept, StreamKept, agent \in {"speaks", "tool"}, agent' \notin {"new", "diagnoses"},
         UNCHANGED <<request, pro, shown, response>>, UNCHANGED events \/ \E e : Emits(e)
  PROVE  StreamKept'
<1>1. ShownKept'
  BY ShownRests DEF StreamKept
<1>2. pro.status # "writes"
  BY DEF VoicesKept, RunKept
<1>3. CASE UNCHANGED events
  <2>1. OrderKept'
    BY <1>2, <1>3, OrderRests DEF StreamKept
  <2> QED
    BY <1>1, <2>1 DEF StreamKept
<1>4. ASSUME NEW e, Emits(e) PROVE StreamKept'
  <2>1. OrderKept'
    BY <1>4, OrderAppends DEF StreamKept
  <2> QED
    BY <1>1, <2>1 DEF StreamKept
<1> QED
  BY <1>3, <1>4

(* A step that neither the agents nor the request take. *)
LEMMA NothingKeepsStream ==
  ASSUME StreamKept, UNCHANGED <<agent, events, request, pro, shown, response>>
  PROVE  StreamKept'
<1>1. ShownKept'
  BY ShownRests DEF StreamKept
<1>2. pro'.status = "writes" => pro.status = "writes" /\ response'.status = "none"
  BY DEF StreamKept, OrderKept
<1>3. OrderKept'
  BY <1>2, OrderRests DEF StreamKept
<1> QED
  BY <1>1, <1>3 DEF StreamKept

(* A piece that is read is kept or streamed. *)
LEMMA ReadKeepsStream ==
  ASSUME VoicesKept, StreamKept, Read
  PROVE  StreamKept'
<1> DEFINE e == Head(events)
<1>1. /\ UNCHANGED <<agent, pro, response>> /\ response.status = "none" /\ events # <<>> /\ events' = Tail(events)
  BY DEF Read, agentVars
<1>2. OrderKept'
  BY <1>1, OrderRead DEF StreamKept
<1>3. IsRequest(request)
  BY DEF VoicesKept, RequestKept, IsRequest
<1>4. ShownKept
  BY DEF StreamKept
<1>5. \/ e.kind = "delta" /\ ReadDelta(e.piece)
      \/ request' = [request EXCEPT !.active = TRUE, !.delegated = TRUE] /\ UNCHANGED shown
      \/ request' = [request EXCEPT !.active = FALSE] /\ UNCHANGED shown
  BY DEF Read
<1>6. CASE request' = [request EXCEPT !.active = TRUE, !.delegated = TRUE] /\ UNCHANGED shown
  <2>1. PICK h : h = [request EXCEPT !.active = TRUE]
    OBVIOUS
  <2>2. h = [active |-> TRUE, reasons |-> request.reasons, delegated |-> request.delegated,
             streamed |-> request.streamed, kept |-> request.kept, stream |-> request.stream]
    BY <1>3, <2>1 DEF IsRequest
  <2>3. request' = [h EXCEPT !.delegated = TRUE]
    BY <1>3, <1>6, <2>1 DEF IsRequest
  <2>4. request'.stream = request.stream
    BY <2>2, <2>3
  <2> QED
    BY <1>1, <1>2, <1>4, <1>6, <2>4, ShownRests DEF StreamKept
<1>7. CASE request' = [request EXCEPT !.active = FALSE] /\ UNCHANGED shown
  <2>1. request'.stream = request.stream
    BY <1>3, <1>7 DEF IsRequest
  <2> QED
    BY <1>1, <1>2, <1>4, <1>7, <2>1, ShownRests DEF StreamKept
<1>8. CASE e.kind = "delta" /\ ReadDelta(e.piece)
  <2>1. PICK p : p = e.piece
    OBVIOUS
  <2>2. p \in Anything
    <3>1. events \in Seq(AnEvent)
      BY DEF VoicesKept, EventsKept, AnEvent
    <3>2. 1 \in DOMAIN events /\ e = events[1]
      BY <1>1, <3>1
    <3>3. p \in Said(Spoken \cup {"aside"})
      BY <1>8, <2>1, <3>2 DEF VoicesKept, EventsKept
    <3>4. Spoken \cup {"aside"} \subseteq Everybody
      BY DEF Spoken, Everybody
    <3> QED
      BY <3>3, <3>4, SaidGrows DEF Anything
  <2>3. \/ request'.stream = request.stream /\ UNCHANGED shown
        \/ Shows(p, request)
        \/ Shows(p, [Keeps(p) EXCEPT !.streamed = TRUE])
    BY <1>3, <1>8, <2>1, KeepsStream DEF ReadDelta
  <2>4. CASE request'.stream = request.stream /\ UNCHANGED shown
    BY <1>1, <1>2, <1>4, <2>4, ShownRests DEF StreamKept
  <2>5. CASE Shows(p, request)
    BY <1>1, <1>2, <1>3, <1>4, <2>2, <2>5, ShowsClean DEF StreamKept
  <2>6. CASE Shows(p, [Keeps(p) EXCEPT !.streamed = TRUE])
    <3>1. PICK h : h = [Keeps(p) EXCEPT !.streamed = TRUE]
      OBVIOUS
    <3>2. IsRequest(h) /\ h.stream = request.stream /\ Shows(p, h)
      BY <1>3, <2>6, <3>1, KeepsStream
    <3> QED
      BY <1>1, <1>2, <1>4, <2>2, <3>2, ShowsClean DEF StreamKept
  <2> QED
    BY <2>3, <2>4, <2>5, <2>6
<1> QED
  BY <1>5, <1>6, <1>7, <1>8

(* The run concludes without a synthesis, *)
LEMMA RespondKeepsStream ==
  ASSUME VoicesKept, StreamKept, Respond
  PROVE  StreamKept'
<1>1. /\ agent = "ended" /\ Conclude(text) /\ UNCHANGED <<agent, pro>> /\ response.status = "none"
      /\ events # <<>> /\ events' = Tail(events)
  BY AllReadEnded DEF Respond, AllRead, agentVars
<1>2. ShownKept'
  BY <1>1, GivenSaid, ConcludeClean DEF StreamKept
<1>3. OrderKept'
  BY <1>1, OrderRead DEF StreamKept
<1> QED
  BY <1>2, <1>3 DEF StreamKept

(* or the synthesis begins when everything is read, *)
LEMMA SynthesizeKeepsStream ==
  ASSUME VoicesKept, StreamKept, Synthesize
  PROVE  StreamKept'
<1>1. /\ UNCHANGED <<agent, request, shown, response>> /\ response.status = "none"
      /\ events # <<>> /\ events' = Tail(events) /\ Head(events).kind = "end"
  BY DEF Synthesize, AllRead, agentVars
<1>2. ShownKept'
  BY <1>1, ShownRests DEF StreamKept
<1>3. OrderKept'
  BY <1>1, OrderRead DEF StreamKept
<1> QED
  BY <1>2, <1>3 DEF StreamKept

(* is streamed *)
LEMMA ProWriteKeepsStream ==
  ASSUME EvidenceKept, VoicesKept, StreamKept, ProWrite
  PROVE  StreamKept'
<1>1. UNCHANGED <<agent, events, response>> /\ pro.status = "writes"
  BY DEF ProWrite, agentVars
<1>2. PICK w \in Words : LET p == [w |-> w, by |-> "pro", n |-> Len(pro.text) + 1] IN
                         pro' = [pro EXCEPT !.text = Append(pro.text, p)] /\ Shows(p, [request EXCEPT !.streamed = TRUE])
  BY DEF ProWrite
<1>3. PICK p : p = [w |-> w, by |-> "pro", n |-> Len(pro.text) + 1]
  OBVIOUS
<1>4. PICK h : h = [request EXCEPT !.streamed = TRUE]
  OBVIOUS
<1>5. pro' = [pro EXCEPT !.text = Append(pro.text, p)] /\ Shows(p, h)
  BY <1>2, <1>3, <1>4
<1>6. p \in Anything
  <2>1. w \in AllWords
    BY DEF Words, AllWords, EvidenceKept
  <2>2. Len(pro.text) + 1 \in Nat
    BY DEF VoicesKept
  <2> QED
    BY <1>3, <2>1, <2>2 DEF Anything, Said, Everybody
<1>7. IsRequest(request)
  BY DEF VoicesKept, RequestKept, IsRequest
<1>8. IsRequest(h) /\ h.stream = request.stream
  BY <1>4, <1>7, KeepsStream
<1>9. response.status = "none" /\ agent = "ended"
  BY <1>1 DEF StreamKept, OrderKept, VoicesKept, RunKept
<1>10. ShownKept'
  BY <1>1, <1>5, <1>6, <1>8, <1>9, ShowsClean DEF StreamKept
<1>11. OrderKept'
  BY <1>1, <1>9, OrderRests DEF StreamKept
<1> QED
  BY <1>10, <1>11 DEF StreamKept

(* A run that fails shows nothing more. *)
LEMMA FailShows ==
  ASSUME VoicesKept, StreamKept, Fail
  PROVE  ShownKept' /\ response'.status = "error" /\ UNCHANGED <<request, shown>>
<1>1. response' = [response EXCEPT !.status = "error"] /\ UNCHANGED <<request, shown>>
  BY DEF Fail
<1>2. response'.status = "error" /\ response'.answer = response.answer
  BY <1>1 DEF VoicesKept, RunKept
<1> QED
  BY <1>1, <1>2, ShownRests DEF StreamKept

(* and ends as the run does. *)
LEMMA ProEndKeepsStream ==
  ASSUME VoicesKept, StreamKept, ProEnd
  PROVE  StreamKept'
<1>1. agent = "ended" /\ UNCHANGED <<agent, events>> /\ response.status = "none"
  BY DEF ProEnd, VoicesKept, RunKept, StreamKept, OrderKept, agentVars
<1>2. PICK ok \in {pro.text # <<>>, FALSE} :
         pro' = [pro EXCEPT !.status = IF ok THEN "completed" ELSE "failed"] /\ AfterPro(ok)
  BY DEF ProEnd
<1>3. pro'.status # "writes"
  BY <1>2 DEF VoicesKept
<1>4. OrderKept'
  BY <1>1, <1>3, OrderRests DEF StreamKept
<1>5. CASE Fail
  BY <1>4, <1>5, FailShows DEF StreamKept
<1>6. CASE Conclude(pro.text) \/ Conclude(text)
  BY <1>1, <1>4, <1>6, GivenSaid, ConcludeClean DEF StreamKept
<1> QED
  BY <1>2, <1>5, <1>6 DEF AfterPro

(* A run that raised shows nothing more. *)
LEMMA BreakKeepsStream ==
  ASSUME VoicesKept, StreamKept, Break
  PROVE  StreamKept'
<1>1. Fail /\ UNCHANGED <<agent, pro>> /\ events # <<>> /\ events' = Tail(events)
  BY DEF Break, agentVars
<1>2. OrderKept'
  BY <1>1, OrderRead DEF StreamKept
<1> QED
  BY <1>1, <1>2, FailShows DEF StreamKept

(* The diagnosis is streamed, *)
LEMMA DiagnosisWriteKeepsStream ==
  ASSUME EvidenceKept, VoicesKept, StreamKept, DiagnosisWrite
  PROVE  StreamKept'
<1>1. UNCHANGED <<agent, events, pro, response>> /\ agent = "diagnoses"
  BY DEF DiagnosisWrite
<1>2. PICK w \in Words : LET p == [w |-> w, by |-> "graph", n |-> Len(text) + 1] IN
                         text' = Append(text, p) /\ Shows(p, [request EXCEPT !.streamed = TRUE])
  BY DEF DiagnosisWrite
<1>3. PICK p : p = [w |-> w, by |-> "graph", n |-> Len(text) + 1]
  OBVIOUS
<1>4. PICK h : h = [request EXCEPT !.streamed = TRUE]
  OBVIOUS
<1>5. Shows(p, h)
  BY <1>2, <1>3, <1>4
<1>6. p \in Anything
  <2>1. w \in AllWords
    BY DEF Words, AllWords, EvidenceKept
  <2>2. Len(text) + 1 \in Nat
    BY DEF VoicesKept
  <2> QED
    BY <1>3, <2>1, <2>2 DEF Anything, Said, Everybody
<1>7. IsRequest(request)
  BY DEF VoicesKept, RequestKept, IsRequest
<1>8. IsRequest(h) /\ h.stream = request.stream /\ h.streamed
  BY <1>4, <1>7, KeepsStream
<1>9. response.status = "none" /\ pro.status # "writes"
  BY <1>1 DEF VoicesKept, RunKept
<1>10. ShownKept' /\ request'.streamed
  BY <1>1, <1>5, <1>6, <1>8, <1>9, ShowsClean DEF StreamKept
<1>11. OrderKept'
  BY <1>1, <1>9, <1>10, OrderRests DEF StreamKept
<1> QED
  BY <1>10, <1>11 DEF StreamKept

(* and what its stream has kept is shown at the end, or its answer if nothing was streamed. *)
LEMMA DiagnosisEndKeepsStream ==
  ASSUME VoicesKept, StreamKept, DiagnosisEnd
  PROVE  StreamKept'
<1>1. UNCHANGED <<events, pro, request>> /\ agent = "diagnoses" /\ agent' = "ended"
  BY DEF DiagnosisEnd, Fail
<1>2. response.status = "none" /\ pro.status # "writes"
  BY <1>1 DEF VoicesKept, RunKept
<1>3. OrderKept'
  BY <1>1, <1>2, OrderRests DEF StreamKept
<1>4. CASE Fail
  BY <1>3, <1>4, FailShows DEF StreamKept
<1>5. ASSUME NEW answer \in {Sanitize(text), Fixed("diagnosis")}, NEW cited,
             shown' = shown \o (IF request.streamed THEN Flush(request.stream).out ELSE answer),
             response' = [status |-> "completed", answer |-> answer, cites |-> cited]
      PROVE  StreamKept'
  <2>1. Clean(answer) /\ Pure(answer) /\ answer \in Seq(Anything)
    <3>1. Clean(Fixed("diagnosis")) /\ Pure(Fixed("diagnosis"))
      BY OneIsClean DEF Fixed
    <3>2. Fixed("diagnosis") \in Seq(Anything)
      BY SaidIsClosed DEF Anything, Everybody, AllWords
    <3> QED
      BY <1>5, <3>1, <3>2, AnythingSaid, SanitizedIsClean
  <2>2. shown \in Seq(Anything) /\ request.stream \in Streams(Anything) /\ Clean(shown) /\ Joins(shown, request.stream)
    BY <1>2, AnythingSaid DEF StreamKept, ShownKept
  <2>3. PICK v, s : v = shown' /\ s = request'.stream
    OBVIOUS
  <2>4. Clean(v)
    <3>1. CASE request.streamed
      BY <1>5, <2>2, <2>3, <3>1, FlushJoins
    <3>2. CASE ~request.streamed
      <4>1. shown = <<>>
        BY <1>1, <3>2 DEF StreamKept, OrderKept
      <4>2. v = answer
        BY <1>5, <2>1, <2>3, <3>2, <4>1
      <4> QED
        BY <2>1, <4>2
    <3> QED
      BY <3>1, <3>2
  <2>5. response'.status = "completed" /\ response'.answer = answer
    BY <1>5
  <2>6. ShownKept'
    BY <2>1, <2>3, <2>4, <2>5, ShownAnew
  <2> QED
    BY <1>3, <2>6 DEF StreamKept
<1> QED
  BY <1>4, <1>5 DEF DiagnosisEnd

(* The stream is kept in every run. *)
LEMMA StreamIsKept == Spec => []StreamKept
<1>1. EvidenceKept /\ VoicesKept /\ StreamKept /\ [Next]_vars => StreamKept'
  <2> SUFFICES ASSUME EvidenceKept, VoicesKept, StreamKept, [Next]_vars PROVE StreamKept'
    OBVIOUS
  <2>1. CASE Guard
    BY <2>1, GuardKeepsStream
  <2>2. CASE Start
    BY <2>2, StartKeepsStream
  <2>3. CASE Write
    <3>1. agent \in {"speaks", "tool"} /\ UNCHANGED <<agent, request, pro, shown, response>>
      BY <2>3 DEF Write
    <3>2. \E e : Emits(e)
      BY <2>3 DEF Write
    <3> QED
      BY <3>1, <3>2, AgentsKeepStream
  <2>4. CASE Retrieve \/ Reuse \/ AskMetric \/ Diagnose \/ Progress \/ Done \/ UNCHANGED vars
    <3>1. UNCHANGED <<agent, events, request, pro, shown, response>>
      BY <2>4 DEF Retrieve, Reuse, AskMetric, Diagnose, Progress, Done, vars, requestVars, agentVars
    <3> QED
      BY <3>1, NothingKeepsStream
  <2>5. CASE Return
    <3>1. agent \in {"speaks", "tool"} /\ agent' = "speaks" /\ UNCHANGED <<request, pro, shown, response>>
      BY <2>5 DEF Return
    <3>2. \E e : Emits(e)
      BY <2>5 DEF Return
    <3> QED
      BY <3>1, <3>2, AgentsKeepStream
  <2>6. ASSUME NEW s \in Specialists, Delegate(s) PROVE StreamKept'
    <3>1. agent \in {"speaks", "tool"} /\ agent' = "tool" /\ UNCHANGED <<request, pro, shown, response>>
      BY <2>6 DEF Delegate
    <3>2. \E e : Emits(e)
      BY <2>6 DEF Delegate
    <3> QED
      BY <3>1, <3>2, AgentsKeepStream
  <2>7. ASSUME NEW kind \in {"end", "raised"}, Finish(kind) PROVE StreamKept'
    <3>1. agent \in {"speaks", "tool"} /\ agent' = "ended" /\ UNCHANGED <<request, pro, shown, response>>
      BY <2>7 DEF Finish
    <3>2. \E e : Emits(e)
      BY <2>7 DEF Finish
    <3> QED
      BY <3>1, <3>2, AgentsKeepStream
  <2>8. CASE Read
    BY <2>8, ReadKeepsStream
  <2>9. CASE Respond
    BY <2>9, RespondKeepsStream
  <2>10. CASE Synthesize
    BY <2>10, SynthesizeKeepsStream
  <2>11. CASE ProWrite
    BY <2>11, ProWriteKeepsStream
  <2>12. CASE ProEnd
    BY <2>12, ProEndKeepsStream
  <2>13. CASE Break
    BY <2>13, BreakKeepsStream
  <2>14. CASE DiagnosisWrite
    BY <2>14, DiagnosisWriteKeepsStream
  <2>15. CASE DiagnosisEnd
    BY <2>15, DiagnosisEndKeepsStream
  <2> QED
    BY <2>1, <2>2, <2>3, <2>4, <2>5, <2>6, <2>7, <2>8, <2>9, <2>10, <2>11, <2>12, <2>13, <2>14, <2>15 DEF Next
<1> QED
  BY <1>1, StreamAtFirst, EvidenceIsKept, VoicesAreKept, PTL DEF Spec

(* For any questions and words, in whatever pieces a model writes them and whatever ends the run: the answer that is   *)
(* recorded has no line of the remembered context and no internal identity, nor has what a client is streamed, but for *)
(* lines whose ornament was cut from their marker.                                                                     *)
THEOREM NothingInternalIsShown == Spec => []NothingInternal
<1>1. StreamKept => NothingInternal
  <2> SUFFICES ASSUME StreamKept PROVE NothingInternal
    OBVIOUS
  <2>1. /\ MemoryLines(response.answer) = {} /\ Identities(response.answer) = {}
        /\ Lines(shown, "m1", "m2") = {} /\ Identities(shown) = {}
    BY DEF StreamKept, ShownKept, Pure, Clean
  <2>2. \A i \in MemoryLines(shown) : Is(shown, i, "o1")
    BY <2>1 DEF MemoryLines, Lines
  <2> QED
    BY <2>1, <2>2 DEF NothingInternal
<1> QED
  BY <1>1, StreamIsKept, PTL

-----------------------------------------------------------------------------
(* Everything once *)

\* Pieces of the same voices, of which the one that was written later has the higher number.
Together(p, q) == \E by \in {Agents, {"pro"}, {"graph"}} : {p.by, q.by} \subseteq by
Told(t) == \A i, j \in 1..Len(t) : i < j /\ Together(t[i], t[j]) => t[i].n < t[j].n
\* What some voices say in a text is up to their m-th piece.
UpTo(t, by, m) == \A i \in 1..Len(t) : t[i].by \in by => t[i].n <= m

\* How u is t with pieces left out, renamed, or replaced and preceded by what the code says.
Thinnings(u, t) ==
    {f \in [1..Len(u) -> Nat] :
        /\ \A i \in 1..Len(u) : u[i].by # "code" =>
              f[i] \in 1..Len(t) /\ t[f[i]].by = u[i].by /\ t[f[i]].n = u[i].n
        /\ \A i, j \in 1..Len(u) : i < j /\ u[i].by # "code" /\ u[j].by # "code" => f[i] < f[j]}
Thin(u, t) == Thinnings(u, t) # {}

(* A map that keeps voices, numbers and the order shows that a text is thin. *)
LEMMA ThinBy ==
  ASSUME NEW u, NEW t, NEW f \in [1..Len(u) -> Nat],
         \A i \in 1..Len(u) : u[i].by # "code" =>
            f[i] \in 1..Len(t) /\ t[f[i]].by = u[i].by /\ t[f[i]].n = u[i].n,
         \A i, j \in 1..Len(u) : i < j /\ u[i].by # "code" /\ u[j].by # "code" => f[i] < f[j]
  PROVE  Thin(u, t)
<1>1. f \in Thinnings(u, t)
  BY DEF Thinnings
<1> QED
  BY <1>1 DEF Thin

(* A thin text is told if the text is, *)
LEMMA ThinTold ==
  ASSUME NEW u, NEW t, Thin(u, t), Told(t)
  PROVE  Told(u)
<1>1. PICK f \in Thinnings(u, t) : TRUE
  BY DEF Thin
<1>2. ASSUME NEW i \in 1..Len(u), NEW j \in 1..Len(u), i < j, Together(u[i], u[j])
      PROVE  u[i].n < u[j].n
  <2>1. u[i].by # "code" /\ u[j].by # "code"
    BY <1>2 DEF Together, Agents
  <2>2. /\ f[i] \in 1..Len(t) /\ t[f[i]].by = u[i].by /\ t[f[i]].n = u[i].n
        /\ f[j] \in 1..Len(t) /\ t[f[j]].by = u[j].by /\ t[f[j]].n = u[j].n
        /\ f[i] < f[j]
    BY <1>1, <1>2, <2>1 DEF Thinnings
  <2>3. Together(t[f[i]], t[f[j]])
    BY <1>2, <2>2 DEF Together
  <2>4. t[f[i]].n < t[f[j]].n
    BY <2>2, <2>3 DEF Told
  <2> QED
    BY <2>2, <2>4
<1> QED
  BY <1>2 DEF Told

(* and says no more. *)
LEMMA ThinUpTo ==
  ASSUME NEW u, NEW t, Thin(u, t), NEW by, "code" \notin by, NEW m, UpTo(t, by, m)
  PROVE  UpTo(u, by, m)
<1>1. PICK f \in Thinnings(u, t) : TRUE
  BY DEF Thin
<1>2. ASSUME NEW i \in 1..Len(u), u[i].by \in by PROVE u[i].n <= m
  <2>1. f[i] \in 1..Len(t) /\ t[f[i]].by = u[i].by /\ t[f[i]].n = u[i].n
    BY <1>1, <1>2 DEF Thinnings
  <2> QED
    BY <1>2, <2>1 DEF UpTo
<1> QED
  BY <1>2 DEF UpTo

(* A text is thin in itself, *)
LEMMA ThinSelf ==
  ASSUME NEW t \in Seq(Anything)
  PROVE  Thin(t, t)
<1>1. PICK f : f = [i \in 1..Len(t) |-> i]
  OBVIOUS
<1>2. f \in [1..Len(t) -> Nat] /\ \A i \in 1..Len(t) : f[i] = i
  BY <1>1
<1> QED
  BY <1>2, ThinBy

(* a text of the code in any, *)
LEMMA ThinCode ==
  ASSUME NEW u \in Seq(Anything), NEW t, \A i \in 1..Len(u) : u[i].by = "code"
  PROVE  Thin(u, t)
<1>1. PICK f : f = [i \in 1..Len(u) |-> 0]
  OBVIOUS
<1>2. f \in [1..Len(u) -> Nat]
  BY <1>1
<1> QED
  BY <1>2, ThinBy

(* what is thin in a thin text is thin in the text, *)
LEMMA ThinThin ==
  ASSUME NEW u, NEW v, NEW t, Thin(u, v), Thin(v, t)
  PROVE  Thin(u, t)
<1>1. PICK f \in Thinnings(u, v) : TRUE
  BY DEF Thin
<1>2. PICK g \in Thinnings(v, t) : TRUE
  BY DEF Thin
<1>3. PICK h : h = [i \in 1..Len(u) |-> IF u[i].by # "code" THEN g[f[i]] ELSE 0]
  OBVIOUS
<1>4. ASSUME NEW i \in 1..Len(u), u[i].by # "code"
      PROVE  /\ h[i] = g[f[i]] /\ f[i] \in 1..Len(v) /\ v[f[i]].by # "code"
             /\ h[i] \in 1..Len(t) /\ t[h[i]].by = u[i].by /\ t[h[i]].n = u[i].n
  <2>1. f[i] \in 1..Len(v) /\ v[f[i]].by = u[i].by /\ v[f[i]].n = u[i].n
    BY <1>1, <1>4 DEF Thinnings
  <2>2. g[f[i]] \in 1..Len(t) /\ t[g[f[i]]].by = v[f[i]].by /\ t[g[f[i]]].n = v[f[i]].n
    BY <1>2, <1>4, <2>1 DEF Thinnings
  <2>3. h[i] = g[f[i]]
    BY <1>3, <1>4
  <2> QED
    BY <1>4, <2>1, <2>2, <2>3
<1>5. h \in [1..Len(u) -> Nat]
  <2>1. \A i \in 1..Len(u) : h[i] \in Nat
    <3> TAKE i \in 1..Len(u)
    <3>1. CASE u[i].by = "code"
      BY <1>3, <3>1
    <3>2. CASE u[i].by # "code"
      <4>1. f[i] \in 1..Len(v) /\ h[i] = g[f[i]]
        BY <1>4, <3>2
      <4>2. g \in [1..Len(v) -> Nat]
        BY <1>2 DEF Thinnings
      <4> QED
        BY <4>1, <4>2
    <3> QED
      BY <3>1, <3>2
  <2> QED
    BY <1>3, <2>1
<1>6. ASSUME NEW i \in 1..Len(u), NEW j \in 1..Len(u), i < j, u[i].by # "code", u[j].by # "code"
      PROVE  h[i] < h[j]
  <2>1. f[i] < f[j]
    BY <1>1, <1>6 DEF Thinnings
  <2>2. /\ h[i] = g[f[i]] /\ f[i] \in 1..Len(v) /\ v[f[i]].by # "code"
        /\ h[j] = g[f[j]] /\ f[j] \in 1..Len(v) /\ v[f[j]].by # "code"
    BY <1>4, <1>6
  <2> QED
    BY <1>2, <2>1, <2>2 DEF Thinnings
<1> QED
  BY <1>4, <1>5, <1>6, ThinBy

(* and so are two, one after the other. *)
LEMMA ThinJoin ==
  ASSUME NEW u \in Seq(Anything), NEW t \in Seq(Anything), NEW v \in Seq(Anything), NEW s \in Seq(Anything),
         Thin(u, t), Thin(v, s)
  PROVE  Thin(u \o v, t \o s)
<1>1. PICK f \in Thinnings(u, t) : TRUE
  BY DEF Thin
<1>2. PICK g \in Thinnings(v, s) : TRUE
  BY DEF Thin
<1>3. PICK k, l, m, n : k = Len(u) /\ l = Len(v) /\ m = Len(t) /\ n = Len(s)
  OBVIOUS
<1>4. k \in Nat /\ l \in Nat /\ m \in Nat /\ n \in Nat
  BY <1>3
<1>5. PICK x : x = u \o v
  OBVIOUS
<1>6. Len(x) = k + l /\ (\A i \in 1..k : x[i] = u[i]) /\ (\A i \in (k + 1)..(k + l) : x[i] = v[i - k])
  BY <1>3, <1>5
<1>7. PICK y : y = t \o s
  OBVIOUS
<1>8. Len(y) = m + n /\ (\A i \in 1..m : y[i] = t[i]) /\ (\A i \in 1..n : y[m + i] = s[i])
  BY <1>3, <1>7
<1>9. PICK h : h = [i \in 1..(k + l) |-> IF i <= k THEN f[i] ELSE m + g[i - k]]
  OBVIOUS
<1>10. f \in [1..k -> Nat] /\ g \in [1..l -> Nat]
  BY <1>1, <1>2, <1>3 DEF Thinnings
<1>11. h \in [1..Len(x) -> Nat]
  <2>1. \A i \in 1..(k + l) : i > k => i - k \in 1..l
    BY <1>4
  <2> QED
    BY <1>4, <1>6, <1>9, <1>10, <2>1
<1>12. ASSUME NEW i \in 1..k, x[i].by # "code"
       PROVE  h[i] = f[i] /\ h[i] \in 1..m /\ y[h[i]].by = x[i].by /\ y[h[i]].n = x[i].n
  <2>3. i \in 1..(k + l) /\ i <= k
    BY <1>4
  <2>1. h[i] = f[i] /\ x[i] = u[i]
    BY <1>6, <1>9, <2>3
  <2>2. f[i] \in 1..m /\ t[f[i]].by = u[i].by /\ t[f[i]].n = u[i].n
    BY <1>1, <1>3, <1>12, <2>1 DEF Thinnings
  <2> QED
    BY <1>8, <2>1, <2>2
<1>13. ASSUME NEW i \in (k + 1)..(k + l), x[i].by # "code"
       PROVE  /\ i - k \in 1..l /\ h[i] = m + g[i - k] /\ h[i] \in (m + 1)..(m + n)
              /\ y[h[i]].by = x[i].by /\ y[h[i]].n = x[i].n
  <2>1. i - k \in 1..l /\ i \in 1..(k + l) /\ ~(i <= k)
    BY <1>4
  <2>2. h[i] = m + g[i - k] /\ x[i] = v[i - k]
    BY <1>6, <1>9, <2>1
  <2>3. g[i - k] \in 1..n /\ s[g[i - k]].by = v[i - k].by /\ s[g[i - k]].n = v[i - k].n
    BY <1>2, <1>3, <1>13, <2>1, <2>2 DEF Thinnings
  <2>4. y[m + g[i - k]] = s[g[i - k]]
    BY <1>8, <2>3
  <2>5. m + g[i - k] \in (m + 1)..(m + n)
    <3>1. PICK c \in 1..n : c = g[i - k]
      BY <2>3
    <3> QED
      BY <1>4, <3>1
  <2> QED
    BY <2>1, <2>2, <2>3, <2>4, <2>5
<1>14. \A i \in 1..Len(x) : x[i].by # "code" => h[i] \in 1..Len(y) /\ y[h[i]].by = x[i].by /\ y[h[i]].n = x[i].n
  <2> SUFFICES ASSUME NEW i \in 1..(k + l), x[i].by # "code"
               PROVE  h[i] \in 1..(m + n) /\ y[h[i]].by = x[i].by /\ y[h[i]].n = x[i].n
    BY <1>6, <1>8
  <2>1. CASE i <= k
    <3>1. i \in 1..k
      BY <1>4, <2>1
    <3>2. h[i] \in 1..m /\ y[h[i]].by = x[i].by /\ y[h[i]].n = x[i].n
      BY <1>12, <3>1
    <3> QED
      BY <1>4, <3>2
  <2>2. CASE i > k
    <3>1. i \in (k + 1)..(k + l)
      BY <1>4, <2>2
    <3>2. h[i] \in (m + 1)..(m + n) /\ y[h[i]].by = x[i].by /\ y[h[i]].n = x[i].n
      BY <1>13, <3>1
    <3> QED
      BY <1>4, <3>2
  <2> QED
    BY <1>4, <2>1, <2>2
<1>15. ASSUME NEW i \in 1..Len(x), NEW j \in 1..Len(x), i < j, x[i].by # "code", x[j].by # "code"
       PROVE  h[i] < h[j]
  <2>1. CASE j <= k
    <3>1. i \in 1..k /\ j \in 1..k
      BY <1>4, <1>6, <1>15, <2>1
    <3>2. h[i] = f[i] /\ h[j] = f[j] /\ x[i] = u[i] /\ x[j] = u[j]
      BY <1>6, <1>12, <1>15, <3>1
    <3> QED
      BY <1>1, <1>3, <1>15, <3>1, <3>2 DEF Thinnings
  <2>2. CASE i <= k /\ j > k
    <3>1. i \in 1..k /\ j \in (k + 1)..(k + l)
      BY <1>4, <1>6, <1>15, <2>2
    <3>2. h[i] \in 1..m /\ h[j] \in (m + 1)..(m + n)
      BY <1>12, <1>13, <1>15, <3>1
    <3> QED
      BY <1>4, <3>2
  <2>3. CASE i > k
    <3>1. i \in (k + 1)..(k + l) /\ j \in (k + 1)..(k + l)
      BY <1>4, <1>6, <1>15, <2>3
    <3>2. /\ h[i] = m + g[i - k] /\ h[j] = m + g[j - k] /\ x[i] = v[i - k] /\ x[j] = v[j - k]
          /\ i - k \in 1..l /\ j - k \in 1..l
      BY <1>6, <1>13, <1>15, <3>1
    <3>3. i - k < j - k
      BY <1>4, <1>15, <3>1
    <3>4. g[i - k] < g[j - k] /\ g[i - k] \in Nat /\ g[j - k] \in Nat
      BY <1>2, <1>3, <1>10, <1>15, <3>2, <3>3 DEF Thinnings
    <3>5. PICK a \in Nat, b \in Nat : a = g[i - k] /\ b = g[j - k]
      BY <3>4
    <3>6. a < b
      BY <3>4, <3>5
    <3>7. m + a < m + b
      BY <1>4, <3>6
    <3>8. h[i] = m + a /\ h[j] = m + b
      BY <3>2, <3>5
    <3> QED
      BY <3>7, <3>8
  <2>4. j <= k \/ (i <= k /\ j > k) \/ i > k
    <3>1. i \in 1..(k + l) /\ j \in 1..(k + l)
      BY <1>6
    <3> QED
      BY <1>4, <3>1
  <2> QED
    BY <2>1, <2>2, <2>3, <2>4
<1>16. Thin(x, y)
  <2>1. \A i, j \in 1..Len(x) : i < j /\ x[i].by # "code" /\ x[j].by # "code" => h[i] < h[j]
    BY <1>15
  <2>2. h \in Thinnings(x, y)
    BY <1>11, <1>14, <2>1 DEF Thinnings
  <2> QED
    BY <2>2 DEF Thin
<1> QED
  BY <1>5, <1>7, <1>16

(* The empty text is thin in any. *)
LEMMA NothingThins == \A t : <<>> \in Seq(Anything) /\ Len(<<>>) = 0 /\ Thin(<<>>, t)
<1>1. <<>> \in Seq(Anything) /\ Len(<<>>) = 0
  OBVIOUS
<1>2. \A i \in 1..Len(<<>>) : <<>>[i].by = "code"
  BY <1>1
<1> QED
  BY <1>1, <1>2, ThinCode

(* What two texts one after the other have at each place. *)
LEMMA JoinedElements ==
  ASSUME NEW a \in Seq(Anything), NEW b \in Seq(Anything)
  PROVE  /\ \A i \in 1..Len(a) : (a \o b)[i] = a[i]
         /\ \A i \in 1..Len(b) : (a \o b)[Len(a) + i] = b[i]
  OBVIOUS

(* The beginning of a text is thin in it; with the rest it is the text. *)
LEMMA ThinPart ==
  ASSUME NEW t \in Seq(Anything), NEW k \in 0..Len(t)
  PROVE  Thin(SubSeq(t, 1, k), t) /\ SubSeq(t, 1, k) \o SubSeq(t, k + 1, Len(t)) = t
<1>1. PICK a : a = SubSeq(t, 1, k)
  OBVIOUS
<1>2. PICK b : b = SubSeq(t, k + 1, Len(t))
  OBVIOUS
<1>3. /\ a \in Seq(Anything) /\ Len(a) = k /\ \A i \in 1..k : a[i] = t[i]
      /\ b \in Seq(Anything) /\ Len(b) = Len(t) - k /\ \A i \in 1..(Len(t) - k) : b[i] = t[k + i]
  BY <1>1, <1>2, PartsStay
<1>4. Thin(a, t)
  <2>1. PICK f : f = [i \in 1..k |-> i]
    OBVIOUS
  <2>2. f \in [1..k -> Nat] /\ \A i \in 1..k : f[i] = i /\ i \in 1..Len(t)
    BY <2>1
  <2>3. f \in [1..Len(a) -> Nat]
    BY <1>3, <2>2
  <2>4. \A i \in 1..Len(a) : a[i].by # "code" => f[i] \in 1..Len(t) /\ t[f[i]].by = a[i].by /\ t[f[i]].n = a[i].n
    BY <1>3, <2>2
  <2>5. \A i, j \in 1..Len(a) : i < j /\ a[i].by # "code" /\ a[j].by # "code" => f[i] < f[j]
    BY <1>3, <2>2
  <2>6. f \in Thinnings(a, t)
    BY <2>3, <2>4, <2>5 DEF Thinnings
  <2> QED
    BY <2>6 DEF Thin
<1>5. a \o b = t
  <2>1. PICK m \in Nat : m = Len(t)
    OBVIOUS
  <2>2. PICK x : x = a \o b
    OBVIOUS
  <2>3. a \in Seq(Anything) /\ Len(a) = k /\ b \in Seq(Anything) /\ Len(b) = m - k /\ k \in 0..m
    BY <1>3, <2>1
  <2>4. x \in Seq(Anything) /\ Len(x) = Len(a) + Len(b)
    BY <2>2, <2>3
  <2>5. Len(x) = m
    BY <2>3, <2>4
  <2>6. ASSUME NEW i \in 1..m PROVE x[i] = t[i]
    <3>1. CASE i <= k
      <4>1. i \in 1..k
        BY <2>3, <3>1
      <4>2. x[i] = a[i]
        BY <2>2, <2>3, <4>1, JoinedElements
      <4>3. a[i] = t[i]
        BY <1>3, <4>1
      <4> QED
        BY <4>2, <4>3
    <3>2. CASE i > k
      <4>1. i - k \in 1..(m - k) /\ k + (i - k) = i
        BY <2>3, <3>2
      <4>2. x[i] = b[i - k]
        BY <2>2, <2>3, <4>1, JoinedElements
      <4>3. b[i - k] = t[k + (i - k)]
        BY <1>3, <2>1, <4>1
      <4> QED
        BY <4>1, <4>2, <4>3
    <3> QED
      BY <2>3, <3>1, <3>2
  <2>7. x = t
    BY <2>1, <2>4, <2>5, <2>6
  <2> QED
    BY <2>2, <2>7
<1> QED
  BY <1>1, <1>2, <1>4, <1>5

(* Renaming leaves out and changes nothing but identities. *)
LEMMA RenamedThins ==
  ASSUME NEW t \in Seq(Anything)
  PROVE  Thin(Renamed(t), t)
<1>1. /\ Places(t) \in Seq(1..Len(t))
      /\ Renamed(t) = [k \in 1..Len(Places(t)) |->
                         IF Places(t)[k] \in Identities(t) THEN [t[Places(t)[k]] EXCEPT !.w = "name"]
                         ELSE t[Places(t)[k]]]
      /\ \A j, k \in 1..Len(Places(t)) : j < k => Places(t)[j] < Places(t)[k]
  BY SMTT(30), PlacesOfRenamed
<1>2. PICK p : p = Places(t)
  OBVIOUS
<1>3. PICK u : u = Renamed(t)
  OBVIOUS
<1>4. PICK n \in Nat : n = Len(p)
  BY <1>1, <1>2
<1>5. u = [k \in 1..n |-> IF p[k] \in Identities(t) THEN [t[p[k]] EXCEPT !.w = "name"] ELSE t[p[k]]]
  BY <1>1, <1>2, <1>3, <1>4
<1>6. Len(u) = n /\ p \in [1..n -> 1..Len(t)]
  BY <1>1, <1>2, <1>4, <1>5
<1>7. ASSUME NEW k \in 1..n PROVE p[k] \in 1..Len(t) /\ t[p[k]].by = u[k].by /\ t[p[k]].n = u[k].n
  <2>1. p[k] \in 1..Len(t)
    BY <1>6
  <2>2. t[p[k]] \in Anything
    BY <2>1
  <2>3. u[k] = IF p[k] \in Identities(t) THEN [t[p[k]] EXCEPT !.w = "name"] ELSE t[p[k]]
    BY <1>5
  <2> QED
    BY <2>1, <2>2, <2>3 DEF Anything, Said
<1>8. p \in [1..Len(u) -> Nat]
  BY <1>6
<1>9. \A i, j \in 1..Len(u) : i < j => p[i] < p[j]
  BY <1>1, <1>2, <1>4, <1>6
<1>10. \A i \in 1..Len(u) : u[i].by # "code" => p[i] \in 1..Len(t) /\ t[p[i]].by = u[i].by /\ t[p[i]].n = u[i].n
  BY <1>6, <1>7
<1>11. \A i, j \in 1..Len(u) : i < j /\ u[i].by # "code" /\ u[j].by # "code" => p[i] < p[j]
  BY <1>9
<1>12. Thin(u, t)
  BY SMTT(30), <1>8, <1>10, <1>11, ThinBy
<1> QED
  BY <1>3, <1>12

(* A fixed text is the code's. *)
LEMMA FixedThins ==
  ASSUME NEW w \in AllWords, NEW t
  PROVE  Fixed(w) \in Seq(Anything) /\ Thin(Fixed(w), t)
<1>1. Fixed(w) \in Seq(Anything) /\ Len(Fixed(w)) = 1 /\ Fixed(w)[1].by = "code"
  BY DEF Fixed, Anything, Said, Everybody
<1> QED
  BY <1>1, ThinCode

(* What leaves the system is thin in what came to it. *)
LEMMA SanitizedThins ==
  ASSUME NEW t \in Seq(Anything)
  PROVE  Sanitize(t) \in Seq(Anything) /\ Thin(Sanitize(t), t)
<1>1. Sanitize(t) \in Seq(Anything)
  BY AnythingIsClosed, SanitizedStays
<1>2. CASE MemoryLines(t) = {}
  BY <1>1, <1>2, RenamedThins DEF Sanitize
<1>3. CASE MemoryLines(t) # {}
  <2>1. PICK k \in 0..(Least(MemoryLines(t)) - 1) : BeforeMemory(t) = SubSeq(t, 1, k)
    BY <1>3, BeforeMemoryStays
  <2>2. k \in 0..Len(t)
    BY <1>3, <2>1, BeforeMemoryStays
  <2>3. BeforeMemory(t) \in Seq(Anything) /\ Thin(BeforeMemory(t), t)
    <3>1. SubSeq(t, 1, k) \in Seq(Anything)
      BY <2>2, PartsStay
    <3>2. Thin(SubSeq(t, 1, k), t)
      BY <2>2, ThinPart
    <3> QED
      BY <2>1, <3>1, <3>2
  <2>4. Thin(Renamed(BeforeMemory(t)), t)
    <3>1. Thin(Renamed(BeforeMemory(t)), BeforeMemory(t))
      BY <2>3, RenamedThins
    <3> QED
      BY <2>3, <3>1, ThinThin
  <2>5. Thin(Leak, t)
    <3>1. "leak" \in AllWords
      BY DEF AllWords
    <3> QED
      BY <3>1, FixedThins DEF Leak
  <2> QED
    BY <1>1, <1>3, <2>4, <2>5 DEF Sanitize
<1> QED
  BY <1>2, <1>3

(* What a stream lets go and what it keeps is thin in what it had and was fed, *)
LEMMA FeedThins ==
  ASSUME NEW s \in Streams(Anything), NEW d \in Seq(Anything)
  PROVE  /\ Feed(s, d).s \in Streams(Anything) /\ Feed(s, d).out \in Seq(Anything)
         /\ Thin(Feed(s, d).out \o Feed(s, d).s.buffer, s.buffer \o d)
<1>1. PICK fed : fed = Feed(s, d)
  OBVIOUS
<1>2. fed.s \in Streams(Anything) /\ fed.out \in Seq(Anything)
  BY <1>1, AnythingIsClosed, FeedStays
<1>3. PICK b \in Seq(Anything) : b = s.buffer
  BY DEF Streams
<1>4. PICK t : t = s.buffer \o d
  OBVIOUS
<1>5. t \in Seq(Anything)
  BY <1>3, <1>4
<1>6. CASE s.blocked
  <2>1. fed.out = <<>> /\ fed.s.buffer = b
    BY <1>1, <1>3, <1>6 DEF Feed
  <2>2. Thin(b, b) /\ Thin(<<>>, d)
    BY ThinSelf, NothingThins
  <2>3. Thin(b \o <<>>, b \o d)
    BY <2>2, NothingThins, ThinJoin
  <2>4. fed.out \o fed.s.buffer = b \o <<>>
    BY <2>1
  <2> QED
    BY <1>1, <1>2, <1>3, <2>3, <2>4
<1>7. CASE ~s.blocked /\ MemoryLines(t) # {}
  <2>1. fed = Emit(s, BeforeMemory(t), <<>>, TRUE)
    BY <1>1, <1>4, <1>7 DEF Feed
  <2>2. PICK r : r = BeforeMemory(t)
    OBVIOUS
  <2>3. fed.out = Sanitize(r) /\ fed.s.buffer = <<>>
    BY <2>1, <2>2 DEF Emit
  <2>4. PICK k \in 0..(Least(MemoryLines(t)) - 1) : r = SubSeq(t, 1, k)
    BY <1>5, <1>7, <2>2, BeforeMemoryStays
  <2>5. k \in 0..Len(t)
    BY <1>5, <1>7, <2>4, BeforeMemoryStays
  <2>6. r \in Seq(Anything) /\ Thin(r, t)
    BY <1>5, <2>4, <2>5, ThinPart, PartsStay
  <2>7. Thin(Sanitize(r), t)
    <3>1. Thin(Sanitize(r), r)
      BY <2>6, SanitizedThins
    <3> QED
      BY <2>6, <3>1, ThinThin
  <2>8. fed.out \o fed.s.buffer = Sanitize(r)
    BY <1>2, <2>3
  <2> QED
    BY <1>1, <1>2, <1>4, <2>7, <2>8
<1>8. CASE ~s.blocked /\ MemoryLines(t) = {}
  <2>1. fed = Emit(s, SubSeq(t, 1, Kept(t)), SubSeq(t, Kept(t) + 1, Len(t)), FALSE)
    BY <1>1, <1>4, <1>8 DEF Feed
  <2>2. PICK k \in 0..Len(t) : k = Kept(t)
    BY <1>5, KeptIsPlace
  <2>3. PICK r, q : r = SubSeq(t, 1, k) /\ q = SubSeq(t, k + 1, Len(t))
    OBVIOUS
  <2>4. fed.out = Sanitize(r) /\ fed.s.buffer = q
    BY <2>1, <2>2, <2>3 DEF Emit
  <2>5. r \in Seq(Anything) /\ q \in Seq(Anything) /\ r \o q = t
    BY <1>5, <2>3, ThinPart, PartsStay
  <2>6. Thin(Sanitize(r), r) /\ Sanitize(r) \in Seq(Anything) /\ Thin(q, q)
    BY <2>5, SanitizedThins, ThinSelf
  <2>7. Thin(Sanitize(r) \o q, r \o q)
    BY <2>5, <2>6, ThinJoin
  <2> QED
    BY <1>1, <1>2, <1>4, <2>4, <2>5, <2>7
<1> QED
  BY <1>6, <1>7, <1>8

(* and so is what it lets go at the end. *)
LEMMA FlushThins ==
  ASSUME NEW s \in Streams(Anything)
  PROVE  Flush(s).out \in Seq(Anything) /\ Thin(Flush(s).out, s.buffer)
<1>1. s.buffer \in Seq(Anything) /\ Flush(s).out \in Seq(Anything)
  BY AnythingIsClosed, FlushStays DEF Streams
<1>2. CASE ~s.blocked
  BY <1>1, <1>2, SanitizedThins DEF Flush, Emit
<1>3. CASE s.blocked
  <2>1. "leak" \in AllWords
    BY DEF AllWords
  <2>2. Thin(Leak, s.buffer) /\ Thin(<<>>, s.buffer)
    BY <2>1, FixedThins, NothingThins DEF Leak
  <2>3. Flush(s).out = IF s.emitted THEN <<>> ELSE Leak
    BY <1>3 DEF Flush
  <2> QED
    BY <1>1, <2>2, <2>3
<1> QED
  BY <1>2, <1>3

\* The text that was shown, with what the stream still has.
Tale == shown \o request.stream.buffer

(* What a replay lets go and what the stream then has is thin in what it had and what was fed; parts are the texts fed  *)
(* up to each place, one after the other.                                                                              *)
LEMMA FeedingThins ==
  ASSUME request.stream \in Streams(Anything), NEW n \in Nat, NEW deltas, Len(deltas) = n,
         \A k \in 1..n : deltas[k] \in Seq(Anything),
         NEW parts, \A k \in 0..n : parts[k] \in Seq(Anything), parts[0] = <<>>,
         \A k \in 1..n : parts[k - 1] \o deltas[k] = parts[k]
  PROVE  /\ FeedAll(deltas).s \in Streams(Anything) /\ FeedAll(deltas).out \in Seq(Anything)
         /\ Thin(FeedAll(deltas).out \o FeedAll(deltas).s.buffer, request.stream.buffer \o parts[n])
<1> DEFINE I == [s : Streams(Anything), out : Seq(Anything)]
<1>1. PICK b \in Seq(Anything) : b = request.stream.buffer
  BY DEF Streams
<1>2. ASSUME NEW f \in I, NEW d \in Seq(Anything)
      PROVE  /\ FedOn(f, d) \in I /\ FedOn(f, d).s = Feed(f.s, d).s
             /\ FedOn(f, d).out = f.out \o Feed(f.s, d).out
  <2>1. Feed(f.s, d).s \in Streams(Anything) /\ Feed(f.s, d).out \in Seq(Anything)
    BY FeedThins
  <2> QED
    BY <2>1 DEF FedOn
<1>3. [s |-> request.stream, out |-> <<>>] \in I
  OBVIOUS
<1> HIDE DEF I
<1>4. PICK fed : /\ fed[0] = [s |-> request.stream, out |-> <<>>]
                 /\ \A k \in 1..n : fed[k] = FedOn(fed[k - 1], deltas[k])
                 /\ \A k \in 0..n : fed[k] \in I
                 /\ FeedAll(deltas) = fed[n]
  BY <1>2, <1>3, FeedingUnfolds
<1> DEFINE S == {k \in 0..n : Thin(fed[k].out \o fed[k].s.buffer, b \o parts[k])}
<1>5. 0 \in S
  <2>1. fed[0].out = <<>> /\ fed[0].s.buffer = b
    BY <1>1, <1>4
  <2>2. <<>> \o b = b /\ b \o <<>> = b
    OBVIOUS
  <2>3. Thin(b, b)
    BY ThinSelf
  <2>4. fed[0].out \o fed[0].s.buffer = b /\ b \o parts[0] = b /\ 0 \in 0..n
    BY <2>1, <2>2
  <2> QED
    BY <2>3, <2>4
<1>6. \A k \in 0..(n - 1) : k \in S => k + 1 \in S
  <2> SUFFICES ASSUME NEW k \in 0..(n - 1), Thin(fed[k].out \o fed[k].s.buffer, b \o parts[k])
               PROVE  k + 1 \in 0..n /\ Thin(fed[k + 1].out \o fed[k + 1].s.buffer, b \o parts[k + 1])
    OBVIOUS
  <2>1. k + 1 \in 1..n /\ (k + 1) - 1 = k /\ k + 1 \in 0..n /\ k \in 0..n
    OBVIOUS
  <2>2. PICK f \in I : f = fed[k]
    BY <1>4, <2>1
  <2>3. PICK d \in Seq(Anything) : d = deltas[k + 1]
    BY <2>1
  <2>4. f.s \in Streams(Anything) /\ f.out \in Seq(Anything) /\ f.s.buffer \in Seq(Anything)
    BY DEF I, Streams
  <2>5. PICK g : g = Feed(f.s, d)
    OBVIOUS
  <2>6. /\ g.s \in Streams(Anything) /\ g.out \in Seq(Anything) /\ g.s.buffer \in Seq(Anything)
        /\ Thin(g.out \o g.s.buffer, f.s.buffer \o d)
    BY <2>4, <2>5, FeedThins DEF Streams
  <2>7. fed[k + 1].s = g.s /\ fed[k + 1].out = f.out \o g.out
    <3>1. fed[k + 1] = FedOn(fed[(k + 1) - 1], deltas[k + 1])
      BY <1>4, <2>1
    <3>2. fed[k + 1] = FedOn(f, d)
      BY <2>1, <2>2, <2>3, <3>1
    <3> QED
      BY ZenonT(60), <1>2, <2>5, <3>2
  <2>8. PICK p \in Seq(Anything) : p = parts[k]
    BY <2>1
  <2>9. p \o d = parts[k + 1]
    BY <2>1, <2>3, <2>8
  <2>10. Thin(f.out \o (g.out \o g.s.buffer), f.out \o (f.s.buffer \o d))
    <3>1. Thin(f.out, f.out) /\ g.out \o g.s.buffer \in Seq(Anything) /\ f.s.buffer \o d \in Seq(Anything)
      BY <2>4, <2>6, ThinSelf
    <3> QED
      BY <2>4, <2>6, <3>1, ThinJoin
  <2>11. Thin((f.out \o f.s.buffer) \o d, (b \o p) \o d)
    <3>1. Thin(f.out \o f.s.buffer, b \o p)
      BY <2>2, <2>8
    <3>2. Thin(d, d) /\ f.out \o f.s.buffer \in Seq(Anything) /\ b \o p \in Seq(Anything)
      BY <2>4, ThinSelf
    <3> QED
      BY <3>1, <3>2, ThinJoin
  <2>12. /\ (f.out \o g.out) \o g.s.buffer = f.out \o (g.out \o g.s.buffer)
         /\ (f.out \o f.s.buffer) \o d = f.out \o (f.s.buffer \o d)
         /\ (b \o p) \o d = b \o (p \o d)
    <3>1. (f.out \o g.out) \o g.s.buffer = f.out \o (g.out \o g.s.buffer)
      <4>1. f.out \in Seq(Anything) /\ g.out \in Seq(Anything) /\ g.s.buffer \in Seq(Anything)
        BY <2>4, <2>6
      <4> QED
        BY ZenonT(60), <4>1, PartsJoin
    <3>2. (f.out \o f.s.buffer) \o d = f.out \o (f.s.buffer \o d)
      BY <2>4, PartsJoin
    <3>3. (b \o p) \o d = b \o (p \o d)
      BY PartsJoin
    <3> QED
      BY <3>1, <3>2, <3>3
  <2>13. Thin((f.out \o g.out) \o g.s.buffer, b \o (p \o d))
    BY <2>10, <2>11, <2>12, ThinThin
  <2> QED
    BY <2>1, <2>7, <2>9, <2>13
<1> HIDE DEF S
<1>9. \A k \in 0..n : k \in S
  BY <1>5, <1>6, Induction
<1>7. n \in S
  BY <1>9
<1>8. fed[n] \in I /\ Thin(fed[n].out \o fed[n].s.buffer, b \o parts[n])
  BY <1>4, <1>7 DEF S
<1> QED
  BY <1>1, <1>4, <1>8 DEF I

(* The answer is thin in the text it is made from. *)
LEMMA AnswerThins ==
  ASSUME NEW given \in Seq(Anything)
  PROVE  Answer(given) \in Seq(Anything) /\ Thin(Answer(given), given)
<1>1. {"diagnosis", "unavailable", "guard"} \subseteq AllWords
  BY DEF AllWords
<1>2. \A w \in {"diagnosis", "unavailable", "guard"} : Fixed(w) \in Seq(Anything) /\ Thin(Fixed(w), given) /\ Thin(Fixed(w), <<>>)
  BY <1>1, FixedThins
<1>3. Thin(given, given)
  BY ThinSelf
<1>4. Fixed("guard") \o given \in Seq(Anything) /\ Thin(Fixed("guard") \o given, given)
  <2>1. Thin(Fixed("guard") \o given, <<>> \o given)
    BY <1>2, <1>3, NothingThins, ThinJoin
  <2>2. <<>> \o given = given
    OBVIOUS
  <2>3. Fixed("guard") \o given \in Seq(Anything)
    BY <1>2
  <2> QED
    BY <2>1, <2>2, <2>3
<1>5. PICK u : u \in Seq(Anything) /\ Thin(u, given) /\ Answer(given) = Sanitize(u)
  BY <1>2, <1>3, <1>4 DEF Answer, Safeguarded, Unavailable
<1>6. Sanitize(u) \in Seq(Anything) /\ Thin(Sanitize(u), u)
  BY <1>5, SanitizedThins
<1> QED
  BY <1>5, <1>6, ThinThin

(* What the end of a run adds to what was shown keeps it told: nothing, the answer if nothing of it was streamed, or    *)
(* what was kept.                                                                                                      *)
LEMMA ConcludeTold ==
  ASSUME VoicesKept, Told(Tale), NEW given \in Seq(Anything), Conclude(given),
         request.delegated /\ ~request.streamed => Told(Tale \o given) /\ Told(Tale \o request.kept)
  PROVE  Told(shown')
<1>1. shown \in Seq(Anything) /\ request.stream \in Streams(Anything)
  BY AnythingSaid
<1>2. PICK b \in Seq(Anything) : b = request.stream.buffer
  BY <1>1 DEF Streams
<1>3. PICK k \in Seq(Anything) : k = request.kept
  <2>1. Spoken \subseteq Everybody
    BY DEF Spoken, Everybody
  <2> QED
    BY <2>1, SaidGrows DEF Anything, VoicesKept, RequestKept
<1>4. PICK deltas : deltas = Rest(given)
  OBVIOUS
<1>5. \E t \in Seq(Anything) :
         /\ Told((shown \o b) \o t)
         /\ FeedAll(deltas).s \in Streams(Anything) /\ FeedAll(deltas).out \in Seq(Anything)
         /\ Thin(FeedAll(deltas).out \o FeedAll(deltas).s.buffer, b \o t)
  <2>1. CASE ~request.delegated \/ request.streamed
    <3>1. deltas = <<>>
      BY <1>4, <2>1 DEF Rest
    <3>2. PICK parts : parts = [i \in 0..0 |-> <<>>]
      OBVIOUS
    <3>3. /\ FeedAll(deltas).s \in Streams(Anything) /\ FeedAll(deltas).out \in Seq(Anything)
          /\ Thin(FeedAll(deltas).out \o FeedAll(deltas).s.buffer, request.stream.buffer \o parts[0])
      <4>1. \A i \in 0..0 : parts[i] \in Seq(Anything)
        BY <3>2
      <4>2. parts[0] = <<>> /\ Len(deltas) = 0
        BY <3>1, <3>2
      <4>3. \A i \in 1..0 : deltas[i] \in Seq(Anything) /\ parts[i - 1] \o deltas[i] = parts[i]
        OBVIOUS
      <4>4. 0 \in Nat
        OBVIOUS
      <4> QED
        BY <1>1, <4>1, <4>2, <4>3, <4>4, FeedingThins
    <3>4. (shown \o b) \o <<>> = shown \o b
      BY <1>1
    <3>5. Told((shown \o b) \o <<>>)
      BY <1>2, <3>4 DEF Tale
    <3>6. parts[0] = <<>> /\ <<>> \in Seq(Anything)
      BY <3>2
    <3> QED
      BY <1>2, <3>3, <3>5, <3>6
  <2>2. CASE request.delegated /\ ~request.streamed /\ (override \/ Answer(given) # text)
    <3>1. PICK a : a \in Seq(Anything) /\ Thin(a, given) /\ a = Answer(given)
      BY AnswerThins
    <3>2. deltas = <<a>>
      BY <1>4, <2>2, <3>1 DEF Rest
    <3>3. PICK parts : parts = [i \in 0..1 |-> IF i = 0 THEN <<>> ELSE a]
      OBVIOUS
    <3>4. /\ FeedAll(deltas).s \in Streams(Anything) /\ FeedAll(deltas).out \in Seq(Anything)
          /\ Thin(FeedAll(deltas).out \o FeedAll(deltas).s.buffer, request.stream.buffer \o parts[1])
      <4>1. \A i \in 0..1 : parts[i] \in Seq(Anything)
        BY <3>1, <3>3
      <4>2. parts[0] = <<>> /\ parts[1] = a
        BY <3>3
      <4>3. Len(deltas) = 1 /\ \A i \in 1..1 : i = 1 /\ i - 1 = 0 /\ deltas[i] = a
        BY <3>2
      <4>4. \A i \in 1..1 : parts[i - 1] \o deltas[i] = parts[i] /\ deltas[i] \in Seq(Anything)
        BY <3>1, <4>2, <4>3
      <4> QED
        BY <1>1, <4>1, <4>2, <4>3, <4>4, FeedingThins
    <3>5. Told((shown \o b) \o a)
      <4>1. Thin((shown \o b) \o a, (shown \o b) \o given)
        <5>1. shown \o b \in Seq(Anything)
          BY <1>1
        <5> QED
          BY <3>1, <5>1, ThinSelf, ThinJoin
      <4>2. Told((shown \o b) \o given)
        BY <1>2, <2>2 DEF Tale
      <4> QED
        BY <4>1, <4>2, ThinTold
    <3>6. parts[1] = a
      BY <3>3
    <3> QED
      BY <1>2, <3>1, <3>4, <3>5, <3>6
  <2>3. CASE request.delegated /\ ~request.streamed /\ ~override /\ Answer(given) = text
    <3>1. PICK n \in Nat : n = Len(k)
      OBVIOUS
    <3>2. deltas = [i \in 1..n |-> <<k[i]>>]
      <4>1. DOMAIN k = 1..n
        BY <3>1
      <4>2. deltas = [i \in DOMAIN k |-> <<k[i]>>]
        BY <1>3, <1>4, <2>3 DEF Rest
      <4> QED
        BY <4>1, <4>2
    <3>3. PICK parts : parts = [i \in 0..n |-> SubSeq(k, 1, i)]
      OBVIOUS
    <3>4. \A i \in 1..n : k[i] \in Anything
      BY <3>1
    <3>5. \A i \in 0..n : /\ parts[i] = SubSeq(k, 1, i) /\ parts[i] \in Seq(Anything) /\ Len(parts[i]) = i
                          /\ \A j \in 1..i : parts[i][j] = k[j]
      BY <3>1, <3>3, PartsStay
    <3>6. parts[0] = <<>>
      <4>1. Len(parts[0]) = 0 /\ parts[0] \in Seq(Anything)
        BY <3>5
      <4> QED
        BY <4>1
    <3>7. ASSUME NEW i \in 1..n
          PROVE  deltas[i] \in Seq(Anything) /\ parts[i - 1] \o deltas[i] = parts[i]
      <4>1. deltas[i] = <<k[i]>> /\ <<k[i]>> \in Seq(Anything) /\ Len(<<k[i]>>) = 1
        BY <3>2, <3>4
      <4>2. i - 1 \in 0..n /\ i \in 0..n
        BY <3>1
      <4>3. PICK x, y : x = parts[i - 1] /\ y = parts[i]
        OBVIOUS
      <4>4. /\ x \in Seq(Anything) /\ Len(x) = i - 1 /\ \A j \in 1..(i - 1) : x[j] = k[j]
            /\ y \in Seq(Anything) /\ Len(y) = i /\ \A j \in 1..i : y[j] = k[j]
        BY <3>5, <4>2, <4>3
      <4>5. PICK z : z = x \o <<k[i]>>
        OBVIOUS
      <4>6. z \in Seq(Anything) /\ Len(z) = i /\ (\A j \in 1..(i - 1) : z[j] = x[j]) /\ z[i] = k[i]
        BY <4>1, <4>4, <4>5
      <4>7. z = y
        <5>1. i \in Nat /\ Len(z) = i /\ Len(y) = i /\ z \in Seq(Anything) /\ y \in Seq(Anything)
          BY <4>4, <4>6
        <5>2. ASSUME NEW j \in 1..i PROVE z[j] = y[j]
          <6>1. CASE j = i
            BY <4>4, <4>6, <6>1
          <6>2. CASE j # i
            <7>1. j \in 1..(i - 1)
              BY <5>1, <6>2
            <7> QED
              BY <4>4, <4>6, <7>1
          <6> QED
            BY <6>1, <6>2
        <5> QED
          BY <5>1, <5>2
      <4> QED
        BY <4>1, <4>3, <4>5, <4>7
    <3>8. Len(deltas) = n
      BY <3>1, <3>2
    <3>9. /\ FeedAll(deltas).s \in Streams(Anything) /\ FeedAll(deltas).out \in Seq(Anything)
          /\ Thin(FeedAll(deltas).out \o FeedAll(deltas).s.buffer, request.stream.buffer \o parts[n])
      BY <1>1, <3>1, <3>5, <3>6, <3>7, <3>8, FeedingThins
    <3>10. parts[n] = k
      <4>1. parts[n] \in Seq(Anything) /\ Len(parts[n]) = n /\ \A j \in 1..n : parts[n][j] = k[j]
        <5>1. n \in 0..n
          OBVIOUS
        <5> QED
          BY <3>5, <5>1
      <4>2. PICK y : y = parts[n]
        OBVIOUS
      <4>3. y \in Seq(Anything) /\ Len(y) = Len(k) /\ \A j \in 1..Len(k) : y[j] = k[j]
        BY <3>1, <4>1, <4>2
      <4>4. y = k
        BY <4>3
      <4> QED
        BY <4>2, <4>4
    <3>11. Told((shown \o b) \o k)
      BY <1>2, <1>3, <2>3 DEF Tale
    <3> QED
      BY <1>2, <3>9, <3>10, <3>11
  <2> QED
    BY <2>1, <2>2, <2>3
<1>6. PICK t \in Seq(Anything) :
         /\ Told((shown \o b) \o t)
         /\ FeedAll(deltas).s \in Streams(Anything) /\ FeedAll(deltas).out \in Seq(Anything)
         /\ Thin(FeedAll(deltas).out \o FeedAll(deltas).s.buffer, b \o t)
  BY <1>5
<1>7. PICK fed : fed = FeedAll(deltas)
  OBVIOUS
<1>8. PICK end : end = Flush(fed.s)
  OBVIOUS
<1>9. shown' = shown \o fed.out \o end.out
  BY <1>4, <1>7, <1>8 DEF Conclude
<1>10. /\ fed.out \in Seq(Anything) /\ fed.s.buffer \in Seq(Anything) /\ end.out \in Seq(Anything)
       /\ Thin(end.out, fed.s.buffer)
  BY <1>6, <1>7, <1>8, FlushThins DEF Streams
<1>11. Thin(fed.out \o end.out, b \o t)
  <2>1. Thin(fed.out \o end.out, fed.out \o fed.s.buffer)
    BY <1>10, ThinSelf, ThinJoin
  <2> QED
    BY <1>6, <1>7, <2>1, ThinThin
<1>12. Thin(shown \o (fed.out \o end.out), shown \o (b \o t))
  <2>1. fed.out \o end.out \in Seq(Anything) /\ b \o t \in Seq(Anything) /\ Thin(shown, shown)
    BY <1>1, <1>10, ThinSelf
  <2> QED
    BY <1>1, <1>11, <2>1, ThinJoin
<1>13. /\ (shown \o fed.out) \o end.out = shown \o (fed.out \o end.out)
       /\ (shown \o b) \o t = shown \o (b \o t)
  <2>1. (shown \o fed.out) \o end.out = shown \o (fed.out \o end.out)
    <3>1. fed.out \in Seq(Anything) /\ end.out \in Seq(Anything)
      BY <1>10
    <3>2. shown \in Seq(Anything)
      BY <1>1
    <3> QED
      BY <3>1, <3>2, PartsJoin
  <2>2. (shown \o b) \o t = shown \o (b \o t)
    BY SMTT(30), <1>1, PartsJoin
  <2> QED
    BY <2>1, <2>2
<1> QED
  BY <1>6, <1>9, <1>12, <1>13, ThinTold

(* How much was written is a number at any time, *)
LEMMA WrittenCounts == session \in Seq(Seq(Anything)) /\ text \in Seq(Anything) => Lengths # {} /\ Written \in Nat
BY WrittenUnfolds, WrittenIsNat
LEMMA WrittenCountsLater ==
  (session \in Seq(Seq(Anything)) /\ text \in Seq(Anything) => Lengths # {} /\ Written \in Nat)'
BY WrittenCounts, PTL
LEMMA WrittenLater ==
  session' \in Seq(Seq(Anything)) /\ text' \in Seq(Anything) => Lengths' # {} /\ Written' \in Nat
BY WrittenCountsLater DEF Anything, Said, AllWords, Everybody

(* one more with every piece, *)
LEMMA WrittenAppends ==
  ASSUME session \in Seq(Seq(Anything)), text \in Seq(Anything), NEW p \in Anything,
         text' = Append(text, p), UNCHANGED session
  PROVE  Written \in Nat /\ Written' = Written + 1
<1>1. text' \in Seq(Anything) /\ Len(text') = Len(text) + 1 /\ Len(text) \in Nat
  OBVIOUS
<1>2. PICK n \in Nat : n = Len(session)
  OBVIOUS
<1>3. \A k \in 1..n : Len(session[k]) \in Nat
  <2>1. \A k \in 1..n : session[k] \in Seq(Anything)
    BY <1>2
  <2> QED
    BY <2>1
<1>4. PICK f : f \in Lengths
  BY WrittenCounts
<1>5. PICK g : g \in Lengths'
  BY <1>1, WrittenLater
<1>6. /\ f \in [0..n -> Nat] /\ f[0] = Len(text) /\ Written = f[n]
      /\ \A k \in 1..n : f[k] = f[k - 1] + Len(session[k])
  BY <1>2, <1>4 DEF Lengths
<1>7. /\ g \in [0..n -> Nat] /\ g[0] = Len(text') /\ Written' = g[n]
      /\ \A k \in 1..n : g[k] = g[k - 1] + Len(session[k])
  BY <1>2, <1>5 DEF Lengths
<1> DEFINE S == {k \in 0..n : g[k] = f[k] + 1}
<1>8. 0 \in S
  <2>1. g[0] = f[0] + 1 /\ 0 \in 0..n
    BY <1>1, <1>6, <1>7
  <2> QED
    BY <2>1
<1>9. \A k \in 0..(n - 1) : k \in S => k + 1 \in S
  <2> SUFFICES ASSUME NEW k \in 0..(n - 1), g[k] = f[k] + 1 PROVE k + 1 \in 0..n /\ g[k + 1] = f[k + 1] + 1
    OBVIOUS
  <2>1. k + 1 \in 1..n /\ (k + 1) - 1 = k /\ k \in 0..n /\ k + 1 \in 0..n
    OBVIOUS
  <2>2. PICK x \in Nat, y \in Nat : x = f[k] /\ y = Len(session[k + 1])
    BY <1>3, <1>6, <2>1
  <2>3. f[k + 1] = x + y /\ g[k + 1] = (x + 1) + y
    BY <1>6, <1>7, <2>1, <2>2
  <2> QED
    BY <2>1, <2>3
<1> HIDE DEF S
<1>10. n \in S
  <2>1. \A k \in 0..n : k \in S
    BY <1>8, <1>9, Induction
  <2> QED
    BY <2>1
<1>11. n \in 0..n
  OBVIOUS
<1> QED
  BY <1>6, <1>7, <1>10, <1>11 DEF S

(* and the same when a message ends, or nothing is written. *)
LEMMA WrittenRests ==
  ASSUME session \in Seq(Seq(Anything)), text \in Seq(Anything),
         UNCHANGED <<session, text>> \/ (session' = Append(session, text) /\ text' = <<>>)
  PROVE  Written \in Nat /\ Written' = Written
<1>1. CASE UNCHANGED <<session, text>>
  BY <1>1, WrittenCounts DEF Written
<1>2. CASE session' = Append(session, text) /\ text' = <<>>
  <2>1. /\ text' \in Seq(Anything) /\ Len(text') = 0
        /\ session' \in Seq(Seq(Anything)) /\ Len(session') = Len(session) + 1
    BY <1>2
  <2>2. PICK n \in Nat : n = Len(session)
    OBVIOUS
  <2>3. PICK m \in Nat : m = Len(text)
    OBVIOUS
  <2>4. \A k \in 1..n : Len(session[k]) \in Nat /\ session'[k] = session[k]
    <3>1. \A k \in 1..n : session[k] \in Seq(Anything)
      BY <2>2
    <3> QED
      BY <1>2, <2>2, <3>1
  <2>5. Len(session'[n + 1]) = m
    BY <1>2, <2>2, <2>3
  <2>6. PICK f : f \in Lengths
    BY WrittenCounts
  <2>7. PICK g : g \in Lengths'
    BY <2>1, WrittenLater
  <2>8. /\ f \in [0..n -> Nat] /\ f[0] = m /\ Written = f[n]
        /\ \A k \in 1..n : f[k] = f[k - 1] + Len(session[k])
    BY <2>2, <2>3, <2>6 DEF Lengths
  <2>9. /\ g \in [0..(n + 1) -> Nat] /\ g[0] = 0 /\ Written' = g[n + 1]
        /\ \A k \in 1..(n + 1) : g[k] = g[k - 1] + Len(session'[k])
    BY <2>1, <2>2, <2>7 DEF Lengths
  <2> DEFINE S == {k \in 0..n : f[k] = g[k] + m}
  <2>10. 0 \in S
    BY <2>8, <2>9
  <2>11. \A k \in 0..(n - 1) : k \in S => k + 1 \in S
    <3> SUFFICES ASSUME NEW k \in 0..(n - 1), f[k] = g[k] + m PROVE k + 1 \in 0..n /\ f[k + 1] = g[k + 1] + m
      OBVIOUS
    <3>1. k + 1 \in 1..n /\ (k + 1) - 1 = k /\ k \in 0..n /\ k + 1 \in 0..n /\ k + 1 \in 1..(n + 1) /\ k \in 0..(n + 1)
      OBVIOUS
    <3>2. PICK x \in Nat, y \in Nat : x = g[k] /\ y = Len(session[k + 1])
      BY <2>4, <2>9, <3>1
    <3>3. g[k + 1] = x + y
      BY <2>4, <2>9, <3>1, <3>2
    <3>4. f[k + 1] = (x + m) + y
      BY <2>8, <3>1, <3>2
    <3> QED
      BY <3>1, <3>3, <3>4
  <2> HIDE DEF S
  <2>12. n \in S
    <3>1. \A k \in 0..n : k \in S
      BY <2>10, <2>11, Induction
    <3> QED
      BY <3>1
  <2>13. n + 1 \in 1..(n + 1) /\ (n + 1) - 1 = n
    OBVIOUS
  <2>14. g[n + 1] = g[n] + m
    BY <2>5, <2>9, <2>13
  <2>15. Written' = Written
    BY <2>8, <2>9, <2>12, <2>14 DEF S
  <2> QED
    BY <2>15, WrittenCounts
<1> QED
  BY <1>1, <1>2

\* The events that are still to be read go on where the text ends, up to what is written.
Ahead(v, ev, w) ==
    /\ UpTo(v, Agents, w)
    /\ \A i \in 1..Len(ev) : ev[i].kind = "delta" =>
          ev[i].piece.by \in Agents /\ ev[i].piece.n <= w /\ UpTo(v, Agents, ev[i].piece.n - 1)
    /\ \A i, j \in 1..Len(ev) : i < j /\ ev[i].kind = "delta" /\ ev[j].kind = "delta" => ev[i].piece.n < ev[j].piece.n

\* Events whose deltas are pieces.
Readable(ev) == ev \in Seq(AnEvent) /\ \A i \in 1..Len(ev) : ev[i].kind = "delta" => ev[i].piece \in Anything

(* A piece that goes on where its voices have come to may be told. *)
LEMMA ToldAppends ==
  ASSUME NEW v \in Seq(Anything), NEW p \in Anything, NEW by \in {Agents, {"pro"}, {"graph"}}, p.by \in by,
         Told(v), UpTo(v, by, p.n - 1)
  PROVE  Append(v, p) \in Seq(Anything) /\ Told(Append(v, p))
<1>1. PICK n \in Nat : n = Len(v)
  OBVIOUS
<1>2. PICK u : u = Append(v, p)
  OBVIOUS
<1>3. u \in Seq(Anything) /\ Len(u) = n + 1 /\ (\A i \in 1..n : u[i] = v[i]) /\ u[n + 1] = p
  BY <1>1, <1>2
<1>4. ASSUME NEW i \in 1..(n + 1), NEW j \in 1..(n + 1), i < j, Together(u[i], u[j]) PROVE u[i].n < u[j].n
  <2>1. i \in 1..n
    BY <1>4
  <2>2. CASE j \in 1..n
    BY <1>1, <1>3, <1>4, <2>1, <2>2 DEF Told
  <2>3. CASE j = n + 1
    <3>1. u[i] = v[i] /\ u[j] = p
      BY <1>3, <2>1, <2>3
    <3>2. v[i].by \in by
      BY <1>4, <3>1 DEF Together, Agents
    <3>3. v[i].n <= p.n - 1
      BY <1>1, <2>1, <3>2 DEF UpTo
    <3>4. v[i] \in Anything
      BY <1>1, <2>1
    <3>5. v[i].n \in Nat /\ p.n \in Nat
      BY <3>4 DEF Anything, Said
    <3> QED
      BY <3>1, <3>3, <3>5
  <2> QED
    BY <1>4, <2>2, <2>3
<1>5. Told(u)
  BY <1>3, <1>4 DEF Told
<1> QED
  BY <1>2, <1>3, <1>5

(* What some voices have come to when one piece is added. *)
LEMMA UpToAppends ==
  ASSUME NEW v \in Seq(Anything), NEW p \in Anything, NEW by, NEW m, UpTo(v, by, m), p.by \in by => p.n <= m
  PROVE  UpTo(Append(v, p), by, m)
<1>1. PICK n \in Nat : n = Len(v)
  OBVIOUS
<1>2. PICK u : u = Append(v, p)
  OBVIOUS
<1>3. Len(u) = n + 1 /\ (\A i \in 1..n : u[i] = v[i]) /\ u[n + 1] = p
  BY <1>1, <1>2
<1>4. ASSUME NEW i \in 1..(n + 1), u[i].by \in by PROVE u[i].n <= m
  <2>1. CASE i \in 1..n
    BY <1>1, <1>3, <1>4, <2>1 DEF UpTo
  <2>2. CASE i = n + 1
    BY <1>3, <1>4, <2>2
  <2> QED
    BY <2>1, <2>2
<1>5. UpTo(u, by, m)
  BY <1>3, <1>4 DEF UpTo
<1> QED
  BY <1>2, <1>5

(* or when a bound is raised. *)
LEMMA UpToMore ==
  ASSUME NEW v \in Seq(Anything), NEW by, NEW m \in Int, NEW k \in Int, m <= k, UpTo(v, by, m)
  PROVE  UpTo(v, by, k)
<1>1. ASSUME NEW i \in 1..Len(v), v[i].by \in by PROVE v[i].n <= k
  <2>1. v[i] \in Anything
    OBVIOUS
  <2>2. v[i].n \in Nat
    BY <2>1 DEF Anything, Said
  <2>3. v[i].n <= m
    BY <1>1 DEF UpTo
  <2> QED
    BY <2>2, <2>3
<1> QED
  BY <1>1 DEF UpTo

(* The events are ahead of a text that says less, *)
LEMMA AheadThin ==
  ASSUME NEW u, NEW v, Thin(u, v), NEW ev, NEW w, Ahead(v, ev, w)
  PROVE  Ahead(u, ev, w)
<1>1. "code" \notin Agents
  BY DEF Agents
<1>2. \A m : UpTo(v, Agents, m) => UpTo(u, Agents, m)
  BY <1>1, ThinUpTo
<1> QED
  BY <1>2 DEF Ahead

(* and of one that says more by others. *)
LEMMA AheadOfOthers ==
  ASSUME NEW v \in Seq(Anything), NEW p \in Anything, p.by \notin Agents, NEW ev, NEW w, Ahead(v, ev, w)
  PROVE  Ahead(Append(v, p), ev, w)
<1>1. \A m : UpTo(v, Agents, m) => UpTo(Append(v, p), Agents, m)
  BY UpToAppends
<1> QED
  BY <1>1 DEF Ahead

(* What is written is ahead of what was, *)
LEMMA AheadWrites ==
  ASSUME NEW v \in Seq(Anything), NEW ev, Readable(ev), NEW w \in Nat, Ahead(v, ev, w),
         NEW p \in Anything, p.by \in Agents, p.n = w + 1
  PROVE  Ahead(v, Append(ev, Delta(p)), w + 1)
<1>1. PICK n \in Nat : n = Len(ev)
  BY DEF Readable
<1>2. PICK e : e = Delta(p)
  OBVIOUS
<1>3. e.kind = "delta" /\ e.piece = p
  BY <1>2 DEF Delta
<1>4. PICK x : x = Append(ev, e)
  OBVIOUS
<1>5. Len(x) = n + 1 /\ (\A i \in 1..n : x[i] = ev[i]) /\ x[n + 1] = e
  BY <1>1, <1>4 DEF Readable
<1>6. UpTo(v, Agents, w) /\ UpTo(v, Agents, w + 1)
  BY UpToMore DEF Ahead
<1>7. ASSUME NEW i \in 1..n, ev[i].kind = "delta"
      PROVE  /\ ev[i].piece.by \in Agents /\ ev[i].piece.n <= w /\ UpTo(v, Agents, ev[i].piece.n - 1)
             /\ ev[i].piece.n \in Nat
  <2>1. ev[i].piece.by \in Agents /\ ev[i].piece.n <= w /\ UpTo(v, Agents, ev[i].piece.n - 1)
    BY <1>1, <1>7 DEF Ahead
  <2>2. ev[i].piece \in Anything
    BY <1>1, <1>7 DEF Readable
  <2> QED
    BY <2>1, <2>2 DEF Anything, Said
<1>8. ASSUME NEW i \in 1..(n + 1), x[i].kind = "delta"
      PROVE  x[i].piece.by \in Agents /\ x[i].piece.n <= w + 1 /\ UpTo(v, Agents, x[i].piece.n - 1)
  <2>1. CASE i \in 1..n
    BY <1>5, <1>7, <1>8, <2>1
  <2>2. CASE i = n + 1
    <3>1. x[i].piece = p /\ p.n - 1 = w
      BY <1>3, <1>5, <2>2
    <3> QED
      BY <1>6, <3>1
  <2> QED
    BY <2>1, <2>2
<1>9. ASSUME NEW i \in 1..(n + 1), NEW j \in 1..(n + 1), i < j, x[i].kind = "delta", x[j].kind = "delta"
      PROVE  x[i].piece.n < x[j].piece.n
  <2>1. i \in 1..n
    BY <1>9
  <2>2. CASE j \in 1..n
    BY <1>1, <1>5, <1>9, <2>1, <2>2 DEF Ahead
  <2>3. CASE j = n + 1
    BY <1>3, <1>5, <1>7, <1>9, <2>1, <2>3
  <2> QED
    BY <2>2, <2>3
<1>10. Ahead(v, x, w + 1)
  BY <1>5, <1>6, <1>8, <1>9 DEF Ahead
<1> QED
  BY <1>2, <1>4, <1>10

(* another event says nothing, *)
LEMMA AheadTurns ==
  ASSUME NEW v, NEW ev \in Seq(AnEvent), NEW w, Ahead(v, ev, w), NEW e, e.kind # "delta"
  PROVE  Ahead(v, Append(ev, e), w)
<1>1. PICK n \in Nat : n = Len(ev)
  OBVIOUS
<1>2. PICK x : x = Append(ev, e)
  OBVIOUS
<1>3. Len(x) = n + 1 /\ (\A i \in 1..n : x[i] = ev[i]) /\ x[n + 1] = e
  BY <1>1, <1>2
<1>4. \A i \in 1..(n + 1) : x[i].kind = "delta" => i \in 1..n /\ x[i] = ev[i]
  BY <1>3
<1>5. Ahead(v, x, w)
  BY <1>1, <1>3, <1>4 DEF Ahead
<1> QED
  BY <1>2, <1>5

(* and reading leaves the others ahead, of what is read, too. *)
LEMMA AheadReads ==
  ASSUME NEW v \in Seq(Anything), NEW ev, Readable(ev), ev # <<>>, NEW w, Ahead(v, ev, w)
  PROVE  /\ Ahead(v, Tail(ev), w)
         /\ Head(ev).kind = "delta" =>
               /\ Head(ev).piece \in Anything
               /\ UpTo(v, Agents, Head(ev).piece.n - 1) /\ Head(ev).piece.by \in Agents
               /\ Ahead(Append(v, Head(ev).piece), Tail(ev), w)
<1>1. PICK n \in Nat : n = Len(ev)
  BY DEF Readable
<1>2. PICK x : x = Tail(ev)
  OBVIOUS
<1>3. /\ n > 0 /\ Len(x) = n - 1 /\ Head(ev) = ev[1] /\ 1 \in 1..n
      /\ \A i \in 1..(n - 1) : i + 1 \in 1..n /\ x[i] = ev[i + 1]
  BY <1>1, <1>2 DEF Readable
<1>4. ASSUME NEW i \in 1..(n - 1), x[i].kind = "delta"
      PROVE  x[i].piece.by \in Agents /\ x[i].piece.n <= w /\ UpTo(v, Agents, x[i].piece.n - 1)
  <2>1. i + 1 \in 1..n /\ x[i] = ev[i + 1]
    BY <1>3
  <2> QED
    BY <1>1, <1>4, <2>1 DEF Ahead
<1>5. ASSUME NEW i \in 1..(n - 1), NEW j \in 1..(n - 1), i < j, x[i].kind = "delta", x[j].kind = "delta"
      PROVE  x[i].piece.n < x[j].piece.n
  <2>1. i + 1 \in 1..n /\ x[i] = ev[i + 1] /\ j + 1 \in 1..n /\ x[j] = ev[j + 1] /\ i + 1 < j + 1
    BY <1>3, <1>5
  <2> QED
    BY <1>1, <1>5, <2>1 DEF Ahead
<1>6. Ahead(v, x, w)
  <2>1. UpTo(v, Agents, w)
    BY DEF Ahead
  <2> QED
    BY <1>3, <1>4, <1>5, <2>1 DEF Ahead
<1>7. ASSUME NEW p \in Anything, p = ev[1].piece, ev[1].kind = "delta"
      PROVE  UpTo(v, Agents, p.n - 1) /\ p.by \in Agents /\ Ahead(Append(v, p), x, w)
  <2>1. UpTo(v, Agents, p.n - 1) /\ p.by \in Agents /\ p.n <= w
    BY <1>1, <1>3, <1>7 DEF Ahead
  <2>2. UpTo(Append(v, p), Agents, w)
    BY <2>1, UpToAppends DEF Ahead
  <2>3. ASSUME NEW i \in 1..(n - 1), x[i].kind = "delta"
        PROVE  UpTo(Append(v, p), Agents, x[i].piece.n - 1)
    <3>1. i + 1 \in 1..n /\ x[i] = ev[i + 1] /\ 1 < i + 1
      BY <1>3
    <3>2. p.n < x[i].piece.n
      BY <1>1, <1>3, <1>7, <2>3, <3>1 DEF Ahead
    <3>3. p.n \in Nat
      BY DEF Anything, Said
    <3>4. x[i].piece.n \in Nat
      <4>1. x[i].piece \in Anything
        BY <1>1, <2>3, <3>1 DEF Readable
      <4> QED
        BY <4>1 DEF Anything, Said
    <3>5. p.n <= x[i].piece.n - 1
      BY <3>2, <3>3, <3>4
    <3> QED
      BY <1>4, <2>3, <3>5, UpToAppends
  <2>4. Ahead(Append(v, p), x, w)
    BY <1>3, <1>4, <1>5, <2>2, <2>3 DEF Ahead
  <2> QED
    BY <2>1, <2>4
<1>8. ev[1].kind = "delta" => ev[1].piece \in Anything
  BY <1>1, <1>3 DEF Readable
<1> QED
  BY <1>2, <1>3, <1>6, <1>7, <1>8

(* The run's events are such. *)
LEMMA EventsAreReadable == VoicesKept => Readable(events)
<1> SUFFICES ASSUME VoicesKept PROVE Readable(events)
  OBVIOUS
<1>1. events \in Seq(AnEvent)
  BY DEF VoicesKept, EventsKept, AnEvent
<1>2. ASSUME NEW i \in 1..Len(events), events[i].kind = "delta" PROVE events[i].piece \in Anything
  <2>1. events[i].piece \in Said(Spoken \cup {"aside"})
    <3>1. i \in DOMAIN events
      BY <1>1
    <3> QED
      BY <1>2, <3>1 DEF VoicesKept, EventsKept
  <2>2. Spoken \cup {"aside"} \subseteq Everybody
    BY DEF Spoken, Everybody
  <2> QED
    BY <2>1, <2>2, SaidGrows DEF Anything
<1> QED
  BY <1>1, <1>2 DEF Readable

(* A piece that is added to the second of two texts is added to both together. *)
LEMMA AppendsJoin ==
  ASSUME NEW a \in Seq(Anything), NEW t \in Seq(Anything), NEW p \in Anything
  PROVE  a \o t \in Seq(Anything) /\ Append(t, p) \in Seq(Anything) /\ a \o Append(t, p) = Append(a \o t, p)
<1>1. PICK x : x = a \o Append(t, p)
  OBVIOUS
<1>2. PICK y : y = Append(a \o t, p)
  OBVIOUS
<1>3. PICK u : u = Append(t, p)
  OBVIOUS
<1>4. PICK v : v = a \o t
  OBVIOUS
<1>5. PICK n \in Nat, m \in Nat : n = Len(a) /\ m = Len(t)
  OBVIOUS
<1>6. u \in Seq(Anything) /\ v \in Seq(Anything) /\ Len(u) = m + 1 /\ Len(v) = n + m
  BY <1>3, <1>4, <1>5
<1>7. x \in Seq(Anything) /\ y \in Seq(Anything) /\ Len(x) = n + m + 1 /\ Len(y) = n + m + 1
  BY <1>1, <1>2, <1>3, <1>4, <1>5, <1>6
<1>8. ASSUME NEW i \in 1..(n + m + 1) PROVE x[i] = y[i]
  <2>1. CASE i <= n
    BY <1>1, <1>2, <1>3, <1>4, <1>5, <1>6, <2>1
  <2>2. CASE i > n /\ i <= n + m
    <3>1. x[i] = u[i - n] /\ i - n \in 1..m
      BY <1>1, <1>3, <1>5, <1>6, <2>2
    <3>2. u[i - n] = t[i - n]
      BY <1>3, <1>5, <3>1
    <3>3. y[i] = v[i] /\ v[i] = t[i - n]
      BY <1>2, <1>4, <1>5, <1>6, <2>2
    <3> QED
      BY <3>1, <3>2, <3>3
  <2>3. CASE i = n + m + 1
    <3>1. x[i] = u[m + 1] /\ u[m + 1] = p
      BY <1>1, <1>3, <1>5, <1>6, <2>3
    <3>2. y[i] = p
      BY <1>2, <1>4, <1>5, <1>6, <2>3
    <3> QED
      BY <3>1, <3>2
  <2> QED
    BY <2>1, <2>2, <2>3
<1>9. x = y
  BY <1>7, <1>8
<1> QED
  BY <1>1, <1>2, <1>3, <1>4, <1>6, <1>9

\* All that was shown, is kept back by the stream, or kept for the end.
Story == IF request.streamed THEN Tale ELSE Tale \o request.kept
\* A text of the agents so far.
Spoke(t, w) == \A i \in 1..Len(t) : t[i].by \in Agents /\ t[i].n <= w

StoryKept == Told(Story) /\ Ahead(Story, events, Written) /\ UpTo(Story, {"pro"}, Len(pro.text))
\* What is kept is not followed by what is shown without evidence; what was streamed counts.
ConsultedKept ==
    /\ agent = "tool" \/ request.delegated \/ (\E i \in DOMAIN events : events[i].kind = "called") => used # {}
    /\ request.kept # <<>> => request.reasons \/ request.delegated \/ Delegated
    /\ pro.text # <<>> => request.streamed
\* After a specialist was asked the message goes on where what was shown ends.
MessageKept ==
    /\ agent \in {"speaks", "tool", "ended"} => Spoke(text, Written)
    /\ used # {} /\ agent \in {"speaks", "ended"} /\ ~request.streamed => Told(Tale \o text)
DraftKept ==
    /\ agent = "diagnoses" => UpTo(Story, {"graph"}, Len(text)) /\ (request.streamed \/ text = <<>>)
    /\ agent = "new" => text = <<>> /\ request.kept = <<>> /\ Story = <<>>
OnceKept ==
    /\ Told(shown)
    /\ response.status = "none" => StoryKept /\ ConsultedKept /\ MessageKept /\ DraftKept

(* What is told does not depend on when it is looked at. *)
LEMMA OnceLater ==
  /\ \A v : Told(v) /\ v = shown' => Told(shown)'
  /\ \A v, ev, w, m : Told(v) /\ Ahead(v, ev, w) /\ UpTo(v, {"pro"}, m) /\ v = Story' /\ ev = events' /\ w = Written'
                      /\ m = Len(pro'.text) => StoryKept'
  /\ \A t, w : Spoke(t, w) /\ t = text' /\ w = Written' => Spoke(text, Written)'
  /\ \A v : Told(v) /\ v = Tale' \o text' => Told(Tale \o text)'
  /\ \A v, m : UpTo(v, {"graph"}, m) /\ v = Story' /\ m = Len(text') => UpTo(Story, {"graph"}, Len(text))'
<1>1. ASSUME NEW v, Told(v), v = shown' PROVE Told(shown)'
  BY <1>1 DEF Told, Together, Agents
<1>2. ASSUME NEW v, NEW ev, NEW w, NEW m, Told(v), Ahead(v, ev, w), UpTo(v, {"pro"}, m), v = Story', ev = events',
             w = Written', m = Len(pro'.text)
      PROVE  StoryKept'
  <2>1. Told(Story)'
    BY <1>2 DEF Told, Together, Agents
  <2>2. Ahead(Story, events, Written)'
    BY <1>2 DEF Ahead, UpTo, Agents
  <2>3. UpTo(Story, {"pro"}, Len(pro.text))'
    BY <1>2 DEF UpTo
  <2> QED
    BY <2>1, <2>2, <2>3 DEF StoryKept
<1>3. ASSUME NEW t, NEW w, Spoke(t, w), t = text', w = Written' PROVE Spoke(text, Written)'
  BY <1>3 DEF Spoke, Agents
<1>4. ASSUME NEW v, Told(v), v = Tale' \o text' PROVE Told(Tale \o text)'
  BY <1>4 DEF Told, Together, Agents
<1>5. ASSUME NEW v, NEW m, UpTo(v, {"graph"}, m), v = Story', m = Len(text') PROVE UpTo(Story, {"graph"}, Len(text))'
  BY <1>5 DEF UpTo
<1> QED
  BY <1>1, <1>2, <1>3, <1>4, <1>5

(* The texts of a run, and which are thin in which. *)
LEMMA StoryTyped ==
  ASSUME VoicesKept
  PROVE  /\ shown \in Seq(Anything) /\ Tale \in Seq(Anything) /\ Story \in Seq(Anything)
         /\ request.stream.buffer \in Seq(Anything) /\ request.kept \in Seq(Anything)
         /\ text \in Seq(Anything) /\ session \in Seq(Seq(Anything)) /\ Written \in Nat
         /\ Thin(shown, Tale) /\ Thin(Tale, Story)
<1>1. shown \in Seq(Anything) /\ request.stream \in Streams(Anything) /\ text \in Seq(Anything)
  BY AnythingSaid
<1>2. PICK b \in Seq(Anything) : b = request.stream.buffer
  BY <1>1 DEF Streams
<1>3. PICK k \in Seq(Anything) : k = request.kept
  <2>1. Spoken \subseteq Everybody
    BY DEF Spoken, Everybody
  <2> QED
    BY <2>1, SaidGrows DEF Anything, VoicesKept, RequestKept
<1>4. session \in Seq(Seq(Anything))
  BY DEF VoicesKept, Anything
<1>5. Written \in Nat
  BY <1>1, <1>4, WrittenCounts
<1>6. PICK v \in Seq(Anything) : v = shown
  BY <1>1
<1>7. v \o b \in Seq(Anything) /\ (v \o b) \o k \in Seq(Anything) /\ v \o <<>> = v /\ (v \o b) \o <<>> = v \o b
  OBVIOUS
<1>8. Thin(v \o <<>>, v \o b)
  BY NothingThins, ThinSelf, ThinJoin
<1>9. Thin((v \o b) \o <<>>, (v \o b) \o k) /\ Thin(v \o b, v \o b)
  BY <1>7, NothingThins, ThinSelf, ThinJoin
<1>10. Tale = v \o b /\ Story \in {v \o b, (v \o b) \o k}
  BY <1>2, <1>3, <1>6 DEF Tale, Story
<1> QED
  BY <1>1, <1>2, <1>3, <1>4, <1>5, <1>6, <1>7, <1>8, <1>9, <1>10

(* The agents go on while the request waits: they write a piece, end a message, call or return. *)
LEMMA AgentsKeepOnce ==
  ASSUME VoicesKept, OnceKept, agent \in {"speaks", "tool"}, agent' \in {"speaks", "tool", "ended"},
         UNCHANGED <<request, pro, shown, response>>, Delegated => Delegated', used # {} => used' # {},
         \/ /\ UNCHANGED events \/ \E e : Emits(e) /\ e.kind # "delta" /\ (e.kind = "called" => used' # {})
            /\ \/ UNCHANGED <<session, text>>
               \/ session' = Append(session, text) /\ text' = <<>>
            /\ used' # {} /\ agent' \in {"speaks", "ended"} /\ text' = text /\ text # <<>> => used # {} /\ agent = "speaks"
         \/ \E p \in Anything : /\ p.by \in Agents /\ p.n = Written + 1 /\ Emits(Delta(p))
                                /\ text' = Append(text, p) /\ UNCHANGED <<agent, session, used>>,
         agent' = "tool" => used' # {}
  PROVE  OnceKept'
<1>1. response.status = "none" /\ StoryKept /\ ConsultedKept /\ MessageKept
  <2>1. response.status = "none"
    BY DEF VoicesKept, RunKept
  <2> QED
    BY <2>1 DEF OnceKept
<1>2. Told(shown)'
  <2>1. PICK v : v = shown
    OBVIOUS
  <2>2. Told(v)
    BY <2>1 DEF OnceKept
  <2>3. v = shown'
    BY <2>1
  <2> QED
    BY <2>2, <2>3, OnceLater
<1>3. PICK v \in Seq(Anything), a \in Seq(Anything), t \in Seq(Anything) : v = Story /\ a = Tale /\ t = text
  BY StoryTyped
<1>4. Story' = v /\ Tale' = a
  BY <1>3 DEF Story, Tale
<1>5. PICK w \in Nat : w = Written
  BY StoryTyped
<1>6. PICK ev, m : ev = events /\ m = Len(pro.text)
  OBVIOUS
<1>7. Readable(ev)
  BY <1>6, EventsAreReadable
<1>8. Told(v) /\ Ahead(v, ev, w) /\ UpTo(v, {"pro"}, m) /\ Spoke(t, w) /\ Thin(a, v) /\ Told(a)
  BY <1>1, <1>3, <1>5, <1>6, StoryTyped, ThinTold DEF StoryKept, MessageKept
<1>9. m = Len(pro'.text)
  BY <1>6
<1>10. (request'.kept # <<>> => request'.reasons \/ request'.delegated \/ Delegated') /\ (pro'.text # <<>> => request'.streamed)
  BY <1>1 DEF ConsultedKept
<1>11. ASSUME UNCHANGED events \/ \E e : Emits(e) /\ e.kind # "delta" /\ (e.kind = "called" => used' # {}),
              \/ UNCHANGED <<session, text>>
              \/ session' = Append(session, text) /\ text' = <<>>,
              used' # {} /\ agent' \in {"speaks", "ended"} /\ text' = text /\ text # <<>> => used # {} /\ agent = "speaks"
       PROVE  OnceKept'
  <2>1. Written' = w
    BY <1>5, <1>11, StoryTyped, WrittenRests
  <2>2. PICK ev2 : ev2 = events'
    OBVIOUS
  <2>3. Ahead(v, ev2, w) /\ ((\E i \in DOMAIN events' : events'[i].kind = "called") => used' # {})
    <3>1. CASE UNCHANGED events
      BY <1>1, <1>6, <1>8, <2>2, <3>1 DEF ConsultedKept
    <3>2. CASE ~UNCHANGED events
      <4>1. PICK e : Emits(e) /\ e.kind # "delta" /\ (e.kind = "called" => used' # {})
        BY <1>11, <3>2
      <4>2. ev2 = Append(ev, e)
        BY <1>6, <2>2, <4>1 DEF Emits
      <4>3. Ahead(v, ev2, w)
        <5>1. ev \in Seq(AnEvent)
          BY <1>7 DEF Readable
        <5> QED
          BY <1>8, <4>1, <4>2, <5>1, AheadTurns
      <4>4. ASSUME NEW i \in DOMAIN ev2, ev2[i].kind = "called" PROVE used' # {}
        <5>1. CASE i \in DOMAIN ev
          <6>1. ev2[i] = ev[i]
            BY <1>7, <4>2, <5>1 DEF Readable
          <6> QED
            BY <1>1, <1>6, <4>4, <5>1, <6>1 DEF ConsultedKept
        <5>2. CASE i \notin DOMAIN ev
          <6>1. ev2[i] = e
            BY <1>7, <4>2, <4>4, <5>2 DEF Readable
          <6> QED
            BY <4>1, <4>4, <6>1
        <5> QED
          BY <5>1, <5>2
      <4> QED
        BY <2>2, <4>3, <4>4
    <3> QED
      BY <3>1, <3>2
  <2>4. StoryKept'
    BY <1>4, <1>8, <1>9, <2>1, <2>2, <2>3, OnceLater
  <2>5. ConsultedKept'
    BY <1>1, <1>10, <2>3 DEF ConsultedKept
  <2>6. PICK x : x = text'
    OBVIOUS
  <2>7. x = t \/ x = <<>>
    BY <1>3, <1>11, <2>6
  <2>8. Spoke(x, w)
    BY <1>8, <2>7 DEF Spoke
  <2>9. ASSUME used' # {}, agent' \in {"speaks", "ended"}, ~request'.streamed PROVE Told(a \o x)
    <3>1. CASE x = <<>>
      <4>1. a \o x = a
        BY <3>1
      <4> QED
        BY <1>8, <4>1
    <3>2. CASE x = t /\ x # <<>>
      <4>1. used # {} /\ agent = "speaks" /\ ~request.streamed
        BY <1>3, <1>11, <2>6, <2>9, <3>2
      <4>2. Told(Tale \o text)
        BY <1>1, <4>1 DEF MessageKept
      <4> QED
        BY <1>3, <3>2, <4>2
    <3> QED
      BY <2>7, <3>1, <3>2
  <2>10. Spoke(text, Written)'
    BY <2>1, <2>6, <2>8, OnceLater
  <2>11. ASSUME used' # {}, agent' \in {"speaks", "ended"}, ~request'.streamed PROVE Told(Tale \o text)'
    <3>1. PICK u : u = a \o x
      OBVIOUS
    <3>2. Told(u) /\ u = Tale' \o text'
      BY <1>4, <2>6, <2>9, <2>11, <3>1
    <3> QED
      BY <3>2, OnceLater
  <2>12. MessageKept'
    BY <2>10, <2>11 DEF MessageKept
  <2>13. DraftKept'
    BY DEF DraftKept
  <2> QED
    BY <1>1, <1>2, <2>4, <2>5, <2>12, <2>13 DEF OnceKept
<1>12. ASSUME NEW p \in Anything, p.by \in Agents, p.n = Written + 1, Emits(Delta(p)),
              text' = Append(text, p), UNCHANGED <<agent, session, used>>
       PROVE  OnceKept'
  <2>1. Written' = w + 1
    BY <1>5, <1>12, StoryTyped, WrittenAppends
  <2>2. PICK ev2 : ev2 = events'
    OBVIOUS
  <2>3. ev2 = Append(ev, Delta(p))
    BY <1>6, <1>12, <2>2 DEF Emits
  <2>4. Ahead(v, ev2, w + 1)
    BY <1>5, <1>7, <1>8, <1>12, <2>3, AheadWrites
  <2>5. ASSUME NEW i \in DOMAIN ev2, ev2[i].kind = "called" PROVE used' # {}
    <3>1. CASE i \in DOMAIN ev
      <4>1. ev2[i] = ev[i]
        BY <1>7, <2>3, <3>1 DEF Readable
      <4> QED
        BY <1>1, <1>6, <1>12, <2>5, <3>1, <4>1 DEF ConsultedKept
    <3>2. CASE i \notin DOMAIN ev
      <4>1. ev2[i] = Delta(p)
        BY <1>7, <2>3, <2>5, <3>2 DEF Readable
      <4> QED
        BY <2>5, <4>1 DEF Delta
    <3> QED
      BY <3>1, <3>2
  <2>6. StoryKept'
    BY <1>4, <1>8, <1>9, <2>1, <2>2, <2>4, OnceLater
  <2>7. ConsultedKept'
    BY <1>1, <1>10, <1>12, <2>2, <2>5 DEF ConsultedKept
  <2>8. PICK x : x = text'
    OBVIOUS
  <2>9. x = Append(t, p)
    BY <1>3, <1>12, <2>8
  <2>10. Spoke(x, w + 1)
    <3>1. PICK n \in Nat : n = Len(t)
      OBVIOUS
    <3>2. Len(x) = n + 1 /\ (\A i \in 1..n : x[i] = t[i]) /\ x[n + 1] = p
      BY <2>9, <3>1
    <3>3. ASSUME NEW i \in 1..(n + 1) PROVE x[i].by \in Agents /\ x[i].n <= w + 1
      <4>1. CASE i \in 1..n
        <5>1. t[i] \in Anything
          BY <3>1, <4>1
        <5>2. t[i].n \in Nat /\ t[i].by \in Agents /\ t[i].n <= w
          BY <1>8, <3>1, <4>1, <5>1 DEF Spoke, Anything, Said
        <5> QED
          BY <3>2, <4>1, <5>2
      <4>2. CASE i = n + 1
        BY <1>5, <1>12, <3>2, <4>2
      <4> QED
        BY <4>1, <4>2
    <3> QED
      BY <3>2, <3>3 DEF Spoke
  <2>11. ASSUME used # {}, agent = "speaks", ~request.streamed PROVE Told(a \o x)
    <3>1. PICK y : y = a \o t
      OBVIOUS
    <3>2. Told(y)
      BY <1>1, <1>3, <2>11, <3>1 DEF MessageKept
    <3>3. y \in Seq(Anything) /\ Append(y, p) = a \o x
      BY <1>12, <2>9, <3>1, AppendsJoin
    <3>4. UpTo(y, Agents, w)
      <4>1. UpTo(a, Agents, w)
        <5>1. "code" \notin Agents
          BY DEF Agents
        <5> QED
          BY <1>8, <5>1, ThinUpTo DEF Ahead
      <4>2. ASSUME NEW i \in 1..Len(y), y[i].by \in Agents PROVE y[i].n <= w
        <5>1. Len(y) = Len(a) + Len(t) /\ Len(a) \in Nat /\ Len(t) \in Nat
          BY <3>1
        <5>2. CASE i <= Len(a)
          <6>1. i \in 1..Len(a) /\ y[i] = a[i]
            BY <3>1, <5>1, <5>2
          <6> QED
            BY <4>1, <4>2, <6>1 DEF UpTo
        <5>3. CASE i > Len(a)
          <6>1. i - Len(a) \in 1..Len(t) /\ y[i] = t[i - Len(a)]
            BY <3>1, <5>1, <5>3
          <6> QED
            BY <1>8, <6>1 DEF Spoke
        <5> QED
          BY <5>1, <5>2, <5>3
      <4> QED
        BY <4>2 DEF UpTo
    <3>5. p.n - 1 = w
      BY <1>5, <1>12
    <3>6. Told(Append(y, p))
      BY <1>12, <3>2, <3>3, <3>4, <3>5, ToldAppends
    <3> QED
      BY <3>3, <3>6
  <2>12. Spoke(text, Written)'
    BY <2>1, <2>8, <2>10, OnceLater
  <2>13. ASSUME used' # {}, agent' \in {"speaks", "ended"}, ~request'.streamed PROVE Told(Tale \o text)'
    <3>1. PICK u : u = a \o x
      OBVIOUS
    <3>2. Told(u) /\ u = Tale' \o text'
      BY <1>4, <1>12, <2>8, <2>11, <2>13, <3>1
    <3> QED
      BY <3>2, OnceLater
  <2>14. MessageKept'
    BY <2>12, <2>13 DEF MessageKept
  <2>15. DraftKept'
    BY DEF DraftKept
  <2> QED
    BY <1>1, <1>2, <2>6, <2>7, <2>14, <2>15 DEF OnceKept
<1> QED
  BY <1>11, <1>12

(* A step that neither the agents nor the request take. *)
LEMMA NothingKeepsOnce ==
  ASSUME VoicesKept, OnceKept, UNCHANGED <<route, agent, text, session, used, events, request, pro, shown, response>>
  PROVE  OnceKept'
<1>1. PICK s, v, ev, m, a, t : s = shown /\ v = Story /\ ev = events /\ m = Len(pro.text) /\ a = Tale \o text /\ t = text
  OBVIOUS
<1>2. PICK w : w = Written
  OBVIOUS
<1>3. Written' = w
  BY <1>2, StoryTyped, WrittenRests
<1>4. s = shown' /\ v = Story' /\ ev = events' /\ m = Len(pro'.text) /\ a = Tale' \o text' /\ t = text'
  BY <1>1 DEF Story, Tale
<1>5. Told(s)
  BY <1>1 DEF OnceKept
<1>6. ASSUME response.status = "none"
      PROVE  StoryKept' /\ ConsultedKept' /\ MessageKept' /\ DraftKept'
  <2>1. StoryKept /\ ConsultedKept /\ MessageKept /\ DraftKept
    BY <1>6 DEF OnceKept
  <2>2. Told(v) /\ Ahead(v, ev, w) /\ UpTo(v, {"pro"}, m)
    BY <1>1, <1>2, <2>1 DEF StoryKept
  <2>3. StoryKept'
    BY <1>3, <1>4, <2>2, OnceLater
  <2>4. ConsultedKept'
    BY <2>1 DEF ConsultedKept, Delegated
  <2>5. agent' \in {"speaks", "tool", "ended"} => Spoke(text, Written)'
    <3>1. agent \in {"speaks", "tool", "ended"} => Spoke(t, w)
      BY <1>1, <1>2, <2>1 DEF MessageKept
    <3> QED
      BY <1>3, <1>4, <3>1, OnceLater
  <2>6. used' # {} /\ agent' \in {"speaks", "ended"} /\ ~request'.streamed => Told(Tale \o text)'
    <3>1. used # {} /\ agent \in {"speaks", "ended"} /\ ~request.streamed => Told(a)
      BY <1>1, <2>1 DEF MessageKept
    <3> QED
      BY <1>4, <3>1, OnceLater
  <2>7. MessageKept'
    BY <2>5, <2>6 DEF MessageKept
  <2>8. agent' = "diagnoses" => UpTo(Story, {"graph"}, Len(text))'
    <3>1. PICK n : n = Len(text)
      OBVIOUS
    <3>2. agent = "diagnoses" => UpTo(v, {"graph"}, n)
      BY <1>1, <2>1, <3>1 DEF DraftKept
    <3>3. n = Len(text')
      BY <3>1
    <3> QED
      BY <1>4, <3>2, <3>3, OnceLater
  <2>9. DraftKept'
    BY <1>1, <1>4, <2>1, <2>8 DEF DraftKept
  <2> QED
    BY <2>3, <2>4, <2>7, <2>9
<1>7. Told(shown)'
  BY <1>4, <1>5, OnceLater
<1> QED
  BY <1>6, <1>7 DEF OnceKept

(* What an agent writes is a piece of an agent. *)
LEMMA WriteKeepsOnce ==
  ASSUME EvidenceKept, VoicesKept, OnceKept, Write
  PROVE  OnceKept'
<1>1. agent \in {"speaks", "tool"} /\ UNCHANGED <<route, agent, session, used, request, pro, shown, response>>
  BY DEF Write
<1>2. PICK w \in Words : text' = Append(text, Piece(w, Standing)) /\ Emits(Delta(Piece(w, Standing)))
  BY DEF Write
<1>3. PICK p : p = Piece(w, Standing)
  OBVIOUS
<1>4. p \in Anything /\ p.by \in Agents /\ p.n = Written + 1
  <2>1. w \in AllWords
    BY DEF Words, AllWords, EvidenceKept
  <2>2. Written + 1 \in Nat
    BY StoryTyped
  <2>3. Standing \in Agents /\ Standing \in Everybody
    BY DEF Standing, Agents, Everybody
  <2>4. p = [w |-> w, by |-> Standing, n |-> Written + 1]
    BY <1>3 DEF Piece
  <2> QED
    BY <2>1, <2>2, <2>3, <2>4 DEF Anything, Said
<1>5. text' = Append(text, p) /\ Emits(Delta(p))
  BY <1>2, <1>3
<1>6. (Delegated => Delegated') /\ (used # {} => used' # {}) /\ agent' \in {"speaks", "tool", "ended"}
  BY <1>1 DEF Delegated
<1>7. agent' = "tool" => used' # {}
  <2>1. response.status = "none"
    BY <1>1 DEF VoicesKept, RunKept
  <2> QED
    BY <1>1, <2>1 DEF OnceKept, ConsultedKept
<1> QED
  BY <1>1, <1>4, <1>5, <1>6, <1>7, AgentsKeepOnce

(* The other steps of the agents: an event that is not a delta, or none, and the message ends or goes on. *)
LEMMA TurnsKeepOnce ==
  ASSUME VoicesKept, OnceKept, agent \in {"speaks", "tool"}, agent' \in {"speaks", "tool", "ended"},
         UNCHANGED <<route, request, pro, shown, response>>, used \subseteq used',
         UNCHANGED events \/ \E e : Emits(e) /\ e.kind # "delta" /\ (e.kind = "called" => used' # {}),
         \/ UNCHANGED <<session, text>>
         \/ session' = Append(session, text) /\ text' = <<>>,
         agent' = "tool" => agent = "tool" \/ used' # {},
         agent = "tool" => agent' = "tool" \/ text' = <<>>,
         agent = "speaks" => agent' = "tool" \/ UNCHANGED used
  PROVE  OnceKept'
<1>1. response.status = "none"
  BY DEF VoicesKept, RunKept
<1>2. agent = "tool" => used # {}
  BY <1>1 DEF OnceKept, ConsultedKept
<1>3. (Delegated => Delegated') /\ (used # {} => used' # {}) /\ (agent' = "tool" => used' # {})
  BY <1>2 DEF Delegated
<1>4. used' # {} /\ agent' \in {"speaks", "ended"} /\ text' = text /\ text # <<>> => used # {} /\ agent = "speaks"
  OBVIOUS
<1> QED
  BY <1>3, <1>4, AgentsKeepOnce

LEMMA DelegateKeepsOnce ==
  ASSUME VoicesKept, OnceKept, NEW s \in Specialists, Delegate(s)
  PROVE  OnceKept'
<1>1. /\ agent = "speaks" /\ agent' = "tool" /\ used' = used \cup {s} /\ Emits(Event("called"))
      /\ UNCHANGED <<route, text, session, request, pro, shown, response>>
  BY DEF Delegate
<1>2. \E e : Emits(e) /\ e.kind # "delta" /\ (e.kind = "called" => used' # {})
  BY <1>1 DEF Event
<1> QED
  BY <1>1, <1>2, TurnsKeepOnce

LEMMA ReturnKeepsOnce ==
  ASSUME VoicesKept, OnceKept, Return
  PROVE  OnceKept'
<1>1. /\ agent = "tool" /\ agent' = "speaks" /\ text' = <<>> /\ Emits(Event("output"))
      /\ session' = IF text = <<>> THEN session ELSE Append(session, text)
      /\ UNCHANGED <<route, used, request, pro, shown, response>>
  BY DEF Return
<1>2. \E e : Emits(e) /\ e.kind # "delta" /\ (e.kind = "called" => used' # {})
  BY <1>1 DEF Event
<1>3. UNCHANGED <<session, text>> \/ (session' = Append(session, text) /\ text' = <<>>)
  BY <1>1
<1> QED
  BY <1>1, <1>2, <1>3, TurnsKeepOnce

LEMMA FinishKeepsOnce ==
  ASSUME VoicesKept, OnceKept, NEW kind \in {"end", "raised"}, Finish(kind)
  PROVE  OnceKept'
<1>1. /\ agent = "speaks" /\ agent' = "ended" /\ Emits(Event(kind))
      /\ UNCHANGED <<route, text, session, used, request, pro, shown, response>>
  BY DEF Finish
<1>2. \E e : Emits(e) /\ e.kind # "delta" /\ (e.kind = "called" => used' # {})
  BY <1>1 DEF Event
<1> QED
  BY <1>1, <1>2, TurnsKeepOnce

(* The agents' calls: a message ends with one. *)
LEMMA CallsKeepOnce ==
  ASSUME VoicesKept, OnceKept, Retrieve \/ Reuse \/ AskMetric \/ Diagnose
  PROVE  OnceKept'
<1>1. /\ agent \in {"speaks", "tool"} /\ UNCHANGED <<route, agent, used, events, request, pro, shown, response>>
      /\ UNCHANGED <<session, text>> \/ (session' = Append(session, text) /\ text' = <<>>)
  <2>1. Retrieve \/ Reuse \/ AskMetric => agent \in {"speaks", "tool"} /\ Message /\ UNCHANGED <<route, agent, used, requestVars>>
    <3>1. AskMetric => agent \in {"speaks", "tool"}
      BY DEF AskMetric, Collecting
    <3>2. Retrieve \/ Reuse => agent \in {"speaks", "tool"}
      BY DEF Retrieve, Reuse, Collecting
    <3> QED
      BY <3>1, <3>2 DEF Retrieve, Reuse, AskMetric
  <2>2. Diagnose => agent \in {"speaks", "tool"} /\ UNCHANGED <<route, agent, text, session, used, requestVars>>
    BY DEF Diagnose
  <2> QED
    BY <2>1, <2>2 DEF Message, requestVars
<1> QED
  BY <1>1, TurnsKeepOnce

(* What is thin is thin after a text as well. *)
LEMMA ThinAfter ==
  ASSUME NEW h \in Seq(Anything), NEW u \in Seq(Anything), NEW v \in Seq(Anything), NEW t \in Seq(Anything),
         NEW s \in Seq(Anything), Thin(u \o v, t \o s)
  PROVE  Thin((h \o u) \o v, (h \o t) \o s)
<1>1. \A x, y, z \in Seq(Anything) : (x \o y) \o z = x \o (y \o z)
  BY PartsJoin
<1>2. (h \o u) \o v = h \o (u \o v)
  BY <1>1, ZenonT(60)
<1>3. (h \o t) \o s = h \o (t \o s)
  BY <1>1, ZenonT(60)
<1>4. Thin(h \o (u \o v), h \o (t \o s))
  <2>1. u \o v \in Seq(Anything) /\ t \o s \in Seq(Anything) /\ Thin(h, h)
    BY ThinSelf
  <2> QED
    BY <2>1, ThinJoin
<1> QED
  BY <1>2, <1>3, <1>4

(* A piece that is streamed: what was shown, with what the stream has, is thin in what it was with the piece. *)
LEMMA ShowsThins ==
  ASSUME VoicesKept, NEW local, IsRequest(local), local.stream = request.stream, NEW p \in Anything, Shows(p, local)
  PROVE  /\ \E v \in Seq(Anything), s \in Seq(Anything) :
               v = Tale' /\ s = shown' /\ Thin(v, Append(Tale, p)) /\ Thin(s, v)
         /\ request'.streamed = local.streamed /\ request'.kept = local.kept
         /\ request'.reasons = local.reasons /\ request'.delegated = local.delegated
<1>1. shown \in Seq(Anything) /\ request.stream \in Streams(Anything) /\ Tale \in Seq(Anything)
  BY StoryTyped, AnythingSaid
<1>2. PICK keep \in Seq(Anything) : keep = request.stream.buffer
  BY <1>1 DEF Streams
<1>3. PICK more \in Seq(Anything) : more = <<p>>
  <2>1. <<p>> \in Seq(Anything)
    OBVIOUS
  <2> QED
    BY <2>1
<1>4. more \in Seq(Anything)
  OBVIOUS
<1>5. PICK fed : fed = Feed(local.stream, more)
  OBVIOUS
<1>6. PICK out \in Seq(Anything), r \in Seq(Anything) : out = fed.out /\ r = fed.s.buffer /\ Thin(out \o r, keep \o more)
  BY <1>1, <1>2, <1>4, <1>5, FeedThins DEF Streams
<1>7. shown' = shown \o fed.out /\ request' = [local EXCEPT !.stream = fed.s]
  BY <1>3, <1>5 DEF Shows
<1>8. /\ request'.stream = fed.s /\ request'.streamed = local.streamed /\ request'.kept = local.kept
      /\ request'.reasons = local.reasons /\ request'.delegated = local.delegated
  BY <1>7 DEF IsRequest
<1>9. PICK h \in Seq(Anything) : h = shown
  BY <1>1
<1>10. PICK s \in Seq(Anything) : s = h \o out
  <2>1. h \in Seq(Anything) /\ out \in Seq(Anything)
    OBVIOUS
  <2>2. h \o out \in Seq(Anything)
    BY <2>1
  <2> QED
    BY <2>2
<1>11. PICK v \in Seq(Anything) : v = s \o r
  <2>1. s \in Seq(Anything) /\ r \in Seq(Anything)
    OBVIOUS
  <2>2. s \o r \in Seq(Anything)
    BY <2>1
  <2> QED
    BY <2>2
<1>12. s = shown' /\ v = Tale'
  BY <1>6, <1>7, <1>8, <1>9, <1>10, <1>11 DEF Tale
<1>13. Thin((h \o out) \o r, (h \o keep) \o more)
  BY <1>6, ThinAfter
<1>16. (h \o keep) \o more = Append(h \o keep, p)
  <2>1. h \o keep \in Seq(Anything)
    OBVIOUS
  <2> QED
    BY <1>3, <2>1
<1>17. Thin(v, Append(Tale, p))
  BY <1>2, <1>9, <1>10, <1>11, <1>13, <1>16 DEF Tale
<1>18. Thin(s \o <<>>, s \o r)
  BY NothingThins, ThinSelf, ThinJoin
<1>19. s \o <<>> = s
  OBVIOUS
<1>20. Thin(s, v)
  BY <1>11, <1>18, <1>19
<1> QED
  BY <1>8, <1>12, <1>17, <1>20

(* It is told, if its voice has come to where it goes on, and what was true of others with it stays true. *)
LEMMA ShowsStory ==
  ASSUME VoicesKept, StoryKept, NEW local, IsRequest(local), local.stream = request.stream, NEW p \in Anything,
         Shows(p, local), local.streamed \/ local.kept = <<>>,
         NEW by \in {Agents, {"pro"}, {"graph"}}, p.by \in by, UpTo(Tale, by, p.n - 1),
         NEW ev, NEW w, Ahead(Append(Tale, p), ev, w), NEW m, UpTo(Append(Tale, p), {"pro"}, m)
  PROVE  \E v \in Seq(Anything) :
            /\ v = Story' /\ v = Tale' /\ Thin(v, Append(Tale, p))
            /\ Told(v) /\ Ahead(v, ev, w) /\ UpTo(v, {"pro"}, m)
            /\ \E s : s = shown' /\ Told(s)
<1>1. PICK v \in Seq(Anything), s \in Seq(Anything) : v = Tale' /\ s = shown' /\ Thin(v, Append(Tale, p)) /\ Thin(s, v)
  BY ShowsThins
<1>2. request'.streamed = local.streamed /\ request'.kept = local.kept
  BY ShowsThins
<1>3. v = Story'
  <2>1. v \o <<>> = v
    OBVIOUS
  <2> QED
    BY <1>1, <1>2, <2>1 DEF Story
<1>4. Told(Tale) /\ Tale \in Seq(Anything)
  BY StoryTyped, ThinTold DEF StoryKept
<1>5. Told(Append(Tale, p))
  BY <1>4, ToldAppends
<1>6. Told(v) /\ Told(s)
  BY <1>1, <1>5, ThinTold
<1>7. Ahead(v, ev, w)
  BY <1>1, AheadThin
<1>8. UpTo(v, {"pro"}, m)
  BY <1>1, ThinUpTo
<1> QED
  BY <1>1, <1>3, <1>6, <1>7, <1>8

(* A step of the request keeps what the run is told from: the agents have not written meanwhile. *)
LEMMA RequestKeepsOnce ==
  ASSUME VoicesKept, OnceKept, response.status = "none", agent \notin {"new", "diagnoses"},
         UNCHANGED <<agent, text, session, used>>,
         NEW v, v = Story', Told(v), NEW ev, ev = events', NEW w, w = Written, Ahead(v, ev, w),
         NEW m, m = Len(pro'.text), UpTo(v, {"pro"}, m),
         NEW s, s = shown', Told(s),
         ConsultedKept',
         used # {} /\ agent \in {"speaks", "ended"} /\ ~request'.streamed => ~request.streamed /\ Tale' = Tale
  PROVE  OnceKept'
<1>1. MessageKept
  BY DEF OnceKept
<1>2. Written' = w
  BY StoryTyped, WrittenRests
<1>3. StoryKept'
  BY <1>2, OnceLater
<1>4. Told(shown)'
  BY OnceLater
<1>5. PICK t, a : t = text /\ a = Tale \o text
  OBVIOUS
<1>6. agent' \in {"speaks", "tool", "ended"} => Spoke(text, Written)'
  <2>1. agent \in {"speaks", "tool", "ended"} => Spoke(t, w)
    BY <1>1, <1>5 DEF MessageKept
  <2>2. t = text'
    BY <1>5
  <2> QED
    BY <1>2, <2>1, <2>2, OnceLater
<1>7. used' # {} /\ agent' \in {"speaks", "ended"} /\ ~request'.streamed => Told(Tale \o text)'
  <2>1. used' # {} /\ agent' \in {"speaks", "ended"} /\ ~request'.streamed => Told(a) /\ a = Tale' \o text'
    BY <1>1, <1>5 DEF MessageKept
  <2> QED
    BY <2>1, OnceLater
<1>8. MessageKept'
  BY <1>6, <1>7 DEF MessageKept
<1>9. DraftKept'
  BY DEF DraftKept
<1> QED
  BY <1>3, <1>4, <1>8, <1>9 DEF OnceKept

(* An event is read and shows nothing: nothing is told, or what is kept is told when it is shown. *)
LEMMA CallReadKeepsOnce ==
  ASSUME VoicesKept, OnceKept, response.status = "none", agent \notin {"new", "diagnoses"},
         UNCHANGED <<route, agent, text, session, used, shown>>, pro'.text = pro.text,
         request'.kept = request.kept, request'.stream = request.stream, request'.streamed = request.streamed,
         request.reasons => request'.reasons, request.delegated => request'.delegated,
         request'.delegated => request.delegated \/ (\E i \in DOMAIN events : events[i].kind = "called"),
         events # <<>>, events' = Tail(events)
  PROVE  OnceKept'
<1>0. PICK ev, w, m, s : ev = events /\ w = Written /\ m = Len(pro.text) /\ s = shown
  OBVIOUS
<1>1. PICK v \in Seq(Anything) : v = Story
  BY StoryTyped
<1>2. StoryKept /\ ConsultedKept
  BY DEF OnceKept
<1>3. Told(v) /\ Ahead(v, ev, w) /\ UpTo(v, {"pro"}, m) /\ Told(s)
  BY <1>0, <1>1, <1>2 DEF StoryKept, OnceKept
<1>4. Readable(ev) /\ ev # <<>>
  BY <1>0, <1>1, EventsAreReadable
<1>5. PICK fo : fo = Tail(ev)
  OBVIOUS
<1>6. Ahead(v, fo, w)
  BY <1>3, <1>4, <1>5, AheadReads
<1>7. Story' = v /\ Tale' = Tale /\ fo = events' /\ m = Len(pro'.text) /\ s = shown'
  BY <1>0, <1>1, <1>5 DEF Story, Tale
<1>8. ConsultedKept'
  <2>1. ASSUME NEW i \in DOMAIN events', events'[i].kind = "called" PROVE \E j \in DOMAIN events : events[j].kind = "called"
    <3>1. ev \in Seq(AnEvent)
      BY <1>4 DEF Readable
    <3>2. i + 1 \in DOMAIN ev /\ fo[i] = ev[i + 1]
      BY <1>4, <1>5, <1>7, <2>1, <3>1
    <3> QED
      BY <1>0, <1>1, <1>7, <2>1, <3>2
  <2> QED
    BY <1>2, <2>1 DEF ConsultedKept, Delegated
<1> QED
  BY <1>0, <1>1, <1>3, <1>6, <1>7, <1>8, RequestKeepsOnce

(* What a request may come to when it reads or streams a piece. *)
LEMMA RequestFields ==
  ASSUME IsRequest(request), NEW p
  PROVE  /\ IsRequest(Keeps(p)) /\ Keeps(p).kept = Append(request.kept, p) /\ Keeps(p).stream = request.stream
         /\ Keeps(p).reasons = request.reasons /\ Keeps(p).delegated = request.delegated
         /\ Keeps(p).streamed = request.streamed
         /\ \A k : IsRequest(k) => LET g == [k EXCEPT !.reasons = TRUE] IN
               g.kept = k.kept /\ g.stream = k.stream /\ g.reasons /\ g.delegated = k.delegated /\ g.streamed = k.streamed
         /\ \A k : IsRequest(k) => LET g == [k EXCEPT !.streamed = TRUE] IN
               /\ IsRequest(g) /\ g.streamed
               /\ g.kept = k.kept /\ g.stream = k.stream /\ g.reasons = k.reasons /\ g.delegated = k.delegated
<1>1. PICK h : h = Keeps(p)
  OBVIOUS
<1>2. h = [active |-> request.active, reasons |-> request.reasons, delegated |-> request.delegated,
           streamed |-> request.streamed, kept |-> Append(request.kept, p), stream |-> request.stream]
  BY <1>1 DEF Keeps, IsRequest
<1>3. /\ IsRequest(h) /\ h.kept = Append(request.kept, p) /\ h.stream = request.stream
      /\ h.reasons = request.reasons /\ h.delegated = request.delegated /\ h.streamed = request.streamed
  BY <1>2 DEF IsRequest
<1>4. ASSUME NEW k, IsRequest(k), NEW g, g = [k EXCEPT !.reasons = TRUE]
      PROVE  g.kept = k.kept /\ g.stream = k.stream /\ g.reasons /\ g.delegated = k.delegated /\ g.streamed = k.streamed
  BY <1>4 DEF IsRequest
<1>5. ASSUME NEW k, IsRequest(k), NEW g, g = [k EXCEPT !.streamed = TRUE]
      PROVE  /\ IsRequest(g) /\ g.streamed
             /\ g.kept = k.kept /\ g.stream = k.stream /\ g.reasons = k.reasons /\ g.delegated = k.delegated
  <2>1. g = [active |-> k.active, reasons |-> k.reasons, delegated |-> k.delegated,
             streamed |-> TRUE, kept |-> k.kept, stream |-> k.stream]
    BY <1>5 DEF IsRequest
  <2> QED
    BY <2>1 DEF IsRequest
<1> QED
  BY <1>1, <1>3, <1>4, <1>5

(* The events that wait after one is read are among those that waited. *)
LEMMA CallsToRead ==
  ASSUME VoicesKept, events # <<>>, NEW fo, fo = Tail(events), NEW i \in DOMAIN fo, fo[i].kind = "called"
  PROVE  \E j \in DOMAIN events : events[j].kind = "called"
<1>1. events \in Seq(AnEvent)
  BY EventsAreReadable DEF Readable
<1>2. i + 1 \in DOMAIN events /\ fo[i] = events[i + 1]
  BY <1>1
<1> QED
  BY <1>2

(* A delta is kept, *)
LEMMA KeptReadKeepsOnce ==
  ASSUME VoicesKept, OnceKept, response.status = "none", agent \notin {"new", "diagnoses"},
         UNCHANGED <<route, agent, text, session, used, shown, pro>>,
         events # <<>>, events' = Tail(events), Head(events).kind = "delta", NEW p, p = Head(events).piece,
         request'.kept = Append(request.kept, p), request'.stream = request.stream,
         request'.streamed = request.streamed, request'.delegated = request.delegated,
         request'.reasons \/ (Delegated /\ request'.reasons = request.reasons) \/ request.delegated
  PROVE  OnceKept'
<1>0. PICK ev, w, m, s : ev = events /\ w = Written /\ m = Len(pro.text) /\ s = shown
  OBVIOUS
<1>1. PICK v \in Seq(Anything) : v = Story
  BY StoryTyped
<1>2. StoryKept /\ ConsultedKept
  BY DEF OnceKept
<1>3. Told(v) /\ Ahead(v, ev, w) /\ UpTo(v, {"pro"}, m) /\ Told(s)
  BY <1>0, <1>1, <1>2 DEF StoryKept, OnceKept
<1>4. Readable(ev) /\ ev # <<>>
  BY <1>0, <1>1, EventsAreReadable
<1>5. PICK fo : fo = Tail(ev)
  OBVIOUS
<1>6. Head(ev).kind = "delta" /\ p = Head(ev).piece
  BY <1>0, <1>1
<1>7. /\ Ahead(v, fo, w) /\ p \in Anything /\ UpTo(v, Agents, p.n - 1) /\ p.by \in Agents
      /\ Ahead(Append(v, p), fo, w)
  BY <1>3, <1>4, <1>5, <1>6, AheadReads
<1>8. Tale' = Tale /\ fo = events' /\ m = Len(pro'.text) /\ s = shown'
  BY <1>0, <1>1, <1>5 DEF Tale
<1>9. ConsultedKept'
  <2>1. (\E i \in DOMAIN fo : fo[i].kind = "called") => \E j \in DOMAIN events : events[j].kind = "called"
    BY <1>0, <1>1, <1>5, CallsToRead
  <2>2. Delegated' = Delegated
    BY DEF Delegated
  <2> QED
    BY <1>2, <1>8, <2>1, <2>2 DEF ConsultedKept
<1>10. \E x : x = Story' /\ Told(x) /\ Ahead(x, fo, w) /\ UpTo(x, {"pro"}, m)
  <2>1. CASE request.streamed
    <3>1. Story' = v
      BY <1>0, <1>1, <1>8, <2>1 DEF Story
    <3> QED
      BY <1>3, <1>7, <3>1
  <2>2. CASE ~request.streamed
    <3>1. PICK a \in Seq(Anything), k \in Seq(Anything) : a = Tale /\ k = request.kept
      BY StoryTyped
    <3>2. v = a \o k
      BY <1>0, <1>1, <2>2, <3>1 DEF Story
    <3>3. a \o Append(k, p) = Append(a \o k, p)
      BY <1>7, AppendsJoin
    <3>4. Story' = Append(v, p)
      BY <1>8, <2>2, <3>1, <3>2, <3>3 DEF Story
    <3>5. Told(Append(v, p))
      BY <1>3, <1>7, ToldAppends
    <3>6. UpTo(Append(v, p), {"pro"}, m)
      <4>1. p.by \notin {"pro"}
        BY <1>7 DEF Agents
      <4> QED
        BY <1>3, <1>7, <4>1, UpToAppends
    <3> QED
      BY <1>7, <3>4, <3>5, <3>6
  <2> QED
    BY <2>1, <2>2
<1>11. PICK x : x = Story' /\ Told(x) /\ Ahead(x, fo, w) /\ UpTo(x, {"pro"}, m)
  BY <1>10
<1> QED
  BY <1>0, <1>1, <1>3, <1>8, <1>9, <1>11, RequestKeepsOnce

(* or shown. *)
LEMMA ShownReadKeepsOnce ==
  ASSUME VoicesKept, OnceKept, response.status = "none", agent \notin {"new", "diagnoses"},
         UNCHANGED <<route, agent, text, session, used, pro>>,
         events # <<>>, events' = Tail(events), Head(events).kind = "delta", NEW p, p = Head(events).piece,
         NEW local, IsRequest(local), local.stream = request.stream, Shows(p, local),
         local.delegated = request.delegated,
         \/ local.streamed
         \/ local.kept = <<>> /\ local.streamed = request.streamed /\ used = {},
         local.kept # <<>> => local.reasons \/ local.delegated \/ Delegated
  PROVE  OnceKept'
<1>0. PICK ev, w, m, s : ev = events /\ w = Written /\ m = Len(pro.text) /\ s = shown
  OBVIOUS
<1>1. PICK a \in Seq(Anything) : a = Tale
  BY StoryTyped
<1>2. StoryKept /\ ConsultedKept
  BY DEF OnceKept
<1>3. Ahead(a, ev, w) /\ UpTo(a, {"pro"}, m)
  <2>1. Ahead(Story, ev, w) /\ UpTo(Story, {"pro"}, m) /\ Thin(a, Story)
    BY <1>0, <1>1, <1>2, StoryTyped DEF StoryKept
  <2> QED
    BY <2>1, AheadThin, ThinUpTo
<1>4. Readable(ev) /\ ev # <<>>
  BY <1>0, <1>1, EventsAreReadable
<1>5. PICK fo : fo = Tail(ev)
  OBVIOUS
<1>6. Head(ev).kind = "delta" /\ p = Head(ev).piece
  BY <1>0, <1>1
<1>7. p \in Anything /\ UpTo(a, Agents, p.n - 1) /\ p.by \in Agents /\ Ahead(Append(a, p), fo, w)
  BY <1>3, <1>4, <1>5, <1>6, AheadReads
<1>8. UpTo(Append(a, p), {"pro"}, m)
  <2>1. p.by \notin {"pro"}
    BY <1>7 DEF Agents
  <2> QED
    BY <1>3, <1>7, <2>1, UpToAppends
<1>9. local.streamed \/ local.kept = <<>>
  OBVIOUS
<1>10. \E v \in Seq(Anything) : /\ v = Story' /\ v = Tale' /\ Told(v) /\ Ahead(v, fo, w) /\ UpTo(v, {"pro"}, m)
                                /\ \E x : x = shown' /\ Told(x)
  BY <1>0, <1>1, <1>2, <1>7, <1>8, <1>9, ShowsStory
<1>11. PICK v, x : v = Story' /\ Told(v) /\ Ahead(v, fo, w) /\ UpTo(v, {"pro"}, m) /\ x = shown' /\ Told(x)
  BY <1>10
<1>12. /\ request'.streamed = local.streamed /\ request'.kept = local.kept
       /\ request'.reasons = local.reasons /\ request'.delegated = local.delegated
  BY <1>7, ShowsThins
<1>13. ConsultedKept'
  <2>1. (\E i \in DOMAIN fo : fo[i].kind = "called") => \E j \in DOMAIN events : events[j].kind = "called"
    BY <1>0, <1>1, <1>5, CallsToRead
  <2>2. Delegated' = Delegated /\ fo = events'
    BY <1>0, <1>1, <1>5 DEF Delegated
  <2> QED
    BY <1>2, <1>12, <2>1, <2>2 DEF ConsultedKept
<1>14. m = Len(pro'.text) /\ fo = events'
  BY <1>0, <1>1, <1>5
<1>15. used # {} => request'.streamed
  BY <1>12
<1> QED
  BY <1>0, <1>1, <1>11, <1>13, <1>14, <1>15, RequestKeepsOnce

(* An event is read: a call, an output, or a delta that is dropped, kept or shown. *)
LEMMA ReadKeepsOnce ==
  ASSUME VoicesKept, StreamKept, OnceKept, Read
  PROVE  OnceKept'
<1> DEFINE e == Head(events)
<1>1. /\ UNCHANGED <<route, agent, text, session, used, pro, response>>
      /\ response.status = "none" /\ events # <<>> /\ events' = Tail(events)
  BY DEF Read, agentVars
<1>2. agent \notin {"new", "diagnoses"}
  BY <1>1 DEF StreamKept, OrderKept
<1>3. IsRequest(request)
  BY DEF VoicesKept, RequestKept, IsRequest
<1>4. ConsultedKept
  BY <1>1 DEF OnceKept
<1>5. CASE e.kind = "called" /\ request' = [request EXCEPT !.active = TRUE, !.delegated = TRUE] /\ UNCHANGED shown
  <2>1. PICK h : h = [request EXCEPT !.active = TRUE]
    OBVIOUS
  <2>2. h = [active |-> TRUE, reasons |-> request.reasons, delegated |-> request.delegated,
             streamed |-> request.streamed, kept |-> request.kept, stream |-> request.stream]
    BY <1>3, <2>1 DEF IsRequest
  <2>3. request' = [h EXCEPT !.delegated = TRUE]
    BY <1>3, <1>5, <2>1 DEF IsRequest
  <2>4. /\ request'.kept = request.kept /\ request'.stream = request.stream /\ request'.streamed = request.streamed
        /\ request'.reasons = request.reasons /\ request'.delegated
    BY <2>2, <2>3
  <2>5. \E i \in DOMAIN events : events[i].kind = "called"
    <3>1. events \in Seq(AnEvent)
      BY EventsAreReadable DEF Readable
    <3>2. 1 \in DOMAIN events /\ e = events[1]
      BY <1>1, <3>1
    <3> QED
      BY <1>5, <3>2
  <2> HIDE DEF e
  <2> QED
    BY <1>1, <1>2, <1>5, <2>4, <2>5, CallReadKeepsOnce
<1>6. CASE request' = [request EXCEPT !.active = FALSE] /\ UNCHANGED shown
  <2>1. /\ request'.kept = request.kept /\ request'.stream = request.stream /\ request'.streamed = request.streamed
        /\ request'.reasons = request.reasons /\ request'.delegated = request.delegated
    BY <1>3, <1>6 DEF IsRequest
  <2> QED
    BY <1>1, <1>2, <1>6, <2>1, CallReadKeepsOnce
<1>7. CASE e.kind = "delta" /\ ReadDelta(e.piece)
  <2>1. PICK p : p = e.piece
    OBVIOUS
  <2>2. PICK k : k = Keeps(p)
    OBVIOUS
  <2>3. /\ IsRequest(k) /\ k.kept = Append(request.kept, p) /\ k.stream = request.stream
        /\ k.reasons = request.reasons /\ k.delegated = request.delegated /\ k.streamed = request.streamed
    BY <1>3, <2>2, RequestFields
  <2>4. CASE request.active /\ UNCHANGED <<request, shown>>
    BY <1>1, <1>2, <2>4, CallReadKeepsOnce
  <2>5. CASE request' = [k EXCEPT !.reasons = TRUE] /\ UNCHANGED shown
    <3>1. /\ request'.kept = k.kept /\ request'.stream = k.stream /\ request'.streamed = k.streamed
          /\ request'.reasons /\ request'.delegated = k.delegated
      BY <1>3, <2>3, <2>5, RequestFields
    <3> QED
      BY <1>1, <1>2, <1>7, <2>1, <2>3, <2>5, <3>1, KeptReadKeepsOnce
  <2>6. CASE request.delegated \/ Delegated
    <3>1. CASE request' = k /\ UNCHANGED shown
      BY <1>1, <1>2, <1>7, <2>1, <2>3, <2>6, <3>1, KeptReadKeepsOnce
    <3>2. CASE Shows(p, [k EXCEPT !.streamed = TRUE])
      <4>1. PICK h : h = [k EXCEPT !.streamed = TRUE]
        OBVIOUS
      <4>2. IsRequest(h) /\ h.streamed /\ h.stream = k.stream /\ h.delegated = k.delegated
        BY <1>3, <2>3, <4>1, RequestFields
      <4>3. Shows(p, h) /\ (h.delegated \/ Delegated)
        BY <2>3, <2>6, <3>2, <4>1, <4>2
      <4> QED
        BY <1>1, <1>2, <1>7, <2>1, <2>3, <4>2, <4>3, ShownReadKeepsOnce
    <3>3. ~request.active /\ ~(request.reasons \/ Reasons) => (request' = k /\ UNCHANGED shown) \/ Shows(p, [k EXCEPT !.streamed = TRUE])
      BY <1>7, <2>1, <2>2, <2>6 DEF ReadDelta
    <3>4. request.active => UNCHANGED <<request, shown>>
      BY <1>7 DEF ReadDelta
    <3>5. ~request.active /\ (request.reasons \/ Reasons) => request' = [k EXCEPT !.reasons = TRUE] /\ UNCHANGED shown
      BY <1>7, <2>1, <2>2 DEF ReadDelta
    <3> QED
      BY <2>4, <2>5, <3>1, <3>2, <3>3, <3>4, <3>5
  <2>7. CASE ~(request.delegated \/ Delegated)
    <3>1. CASE Shows(p, request) /\ ~request.reasons
      <4>1. request.kept = <<>> /\ used = {}
        BY <1>4, <2>7, <3>1 DEF ConsultedKept, Delegated
      <4> QED
        BY <1>1, <1>2, <1>3, <1>7, <2>1, <3>1, <4>1, ShownReadKeepsOnce
    <3>2. ~request.active /\ ~(request.reasons \/ Reasons) => Shows(p, request) /\ ~request.reasons
      BY <1>7, <2>1, <2>7 DEF ReadDelta
    <3>3. request.active => UNCHANGED <<request, shown>>
      BY <1>7 DEF ReadDelta
    <3>4. ~request.active /\ (request.reasons \/ Reasons) => request' = [k EXCEPT !.reasons = TRUE] /\ UNCHANGED shown
      BY <1>7, <2>1, <2>2 DEF ReadDelta
    <3> QED
      BY <2>4, <2>5, <3>1, <3>2, <3>3, <3>4
  <2> QED
    BY <2>6, <2>7
<1> QED
  BY <1>5, <1>6, <1>7 DEF Read

(* The synthesis begins. *)
LEMMA SynthesizeKeepsOnce ==
  ASSUME VoicesKept, StreamKept, OnceKept, Synthesize
  PROVE  OnceKept'
<1>1. /\ UNCHANGED <<route, agent, text, session, used, request, shown, response>> /\ response.status = "none"
      /\ events # <<>> /\ events' = Tail(events) /\ pro' = [pro EXCEPT !.status = "writes"]
  BY DEF Synthesize, AllRead, agentVars
<1>2. agent \notin {"new", "diagnoses"}
  BY <1>1 DEF StreamKept, OrderKept
<1>3. pro'.text = pro.text
  BY <1>1 DEF VoicesKept
<1> QED
  BY <1>1, <1>2, <1>3, CallReadKeepsOnce

(* A piece of it is streamed. *)
LEMMA ProWriteKeepsOnce ==
  ASSUME EvidenceKept, VoicesKept, StreamKept, OnceKept, ProWrite
  PROVE  OnceKept'
<1>1. UNCHANGED <<route, agent, text, session, used, events, response>> /\ pro.status = "writes"
  BY DEF ProWrite, agentVars
<1>2. response.status = "none" /\ agent = "ended"
  BY <1>1 DEF StreamKept, OrderKept, VoicesKept, RunKept
<1>3. PICK c \in Words : LET p == [w |-> c, by |-> "pro", n |-> Len(pro.text) + 1] IN
                         pro' = [pro EXCEPT !.text = Append(pro.text, p)] /\ Shows(p, [request EXCEPT !.streamed = TRUE])
  BY DEF ProWrite
<1>4. PICK p : p = [w |-> c, by |-> "pro", n |-> Len(pro.text) + 1]
  OBVIOUS
<1>5. PICK h : h = [request EXCEPT !.streamed = TRUE]
  OBVIOUS
<1>6. pro' = [pro EXCEPT !.text = Append(pro.text, p)] /\ Shows(p, h)
  BY <1>3, <1>4, <1>5
<1>7. PICK l \in Nat : l = Len(pro.text)
  BY DEF VoicesKept
<1>8. Len(pro'.text) = l + 1
  <2>1. pro = [status |-> pro.status, text |-> pro.text] /\ pro.text \in Seq(Said({"pro"}))
    BY DEF VoicesKept
  <2>2. pro'.text = Append(pro.text, p)
    BY <1>6, <2>1
  <2> QED
    BY <1>7, <2>1, <2>2
<1>9. p \in Anything /\ p.by = "pro" /\ p.n = l + 1
  <2>1. c \in AllWords
    BY DEF Words, AllWords, EvidenceKept
  <2> QED
    BY <1>4, <1>7, <2>1 DEF Anything, Said, Everybody
<1>10. IsRequest(request)
  BY DEF VoicesKept, RequestKept, IsRequest
<1>11. IsRequest(h) /\ h.stream = request.stream /\ h.streamed
  BY <1>5, <1>10, KeepsStream
<1>12. StoryKept /\ ConsultedKept
  BY <1>2 DEF OnceKept
<1>0. PICK ev, w : ev = events /\ w = Written
  OBVIOUS
<1>13. PICK a \in Seq(Anything) : a = Tale
  BY StoryTyped
<1>14. Ahead(a, ev, w) /\ UpTo(a, {"pro"}, l)
  <2>1. Ahead(Story, ev, w) /\ UpTo(Story, {"pro"}, l) /\ Thin(a, Story)
    BY <1>7, <1>12, <1>0, <1>13, StoryTyped DEF StoryKept
  <2> QED
    BY <2>1, AheadThin, ThinUpTo
<1>15. Ahead(Append(a, p), ev, w)
  <2>1. p.by \notin Agents
    BY <1>9 DEF Agents
  <2> QED
    BY <1>9, <1>14, <2>1, AheadOfOthers
<1>16. UpTo(a, {"pro"}, p.n - 1) /\ UpTo(Append(a, p), {"pro"}, l + 1)
  <2>1. UpTo(a, {"pro"}, l + 1)
    BY <1>14, UpToMore
  <2>2. p.n - 1 = l /\ p.n <= l + 1
    BY <1>9
  <2>3. UpTo(Append(a, p), {"pro"}, l + 1)
    BY <1>9, <2>1, <2>2, UpToAppends
  <2> QED
    BY <1>14, <2>2, <2>3
<1>17. \E v \in Seq(Anything) : /\ v = Story' /\ v = Tale' /\ Told(v) /\ Ahead(v, ev, w) /\ UpTo(v, {"pro"}, l + 1)
                                /\ \E x : x = shown' /\ Told(x)
  <2>1. p.by \in {"pro"} /\ {"pro"} \in {Agents, {"pro"}, {"graph"}}
    BY <1>9
  <2> QED
    BY <1>6, <1>9, <1>11, <1>12, <1>0, <1>13, <1>15, <1>16, <2>1, ShowsStory
<1>18. PICK v, x : v = Story' /\ Told(v) /\ Ahead(v, ev, w) /\ UpTo(v, {"pro"}, l + 1) /\ x = shown' /\ Told(x)
  BY <1>17
<1>19. /\ request'.streamed = h.streamed /\ request'.kept = h.kept
       /\ request'.reasons = h.reasons /\ request'.delegated = h.delegated
  BY <1>6, <1>9, <1>11, ShowsThins
<1>20. h.kept = request.kept /\ h.reasons = request.reasons /\ h.delegated = request.delegated
  BY <1>5, <1>10, RequestFields
<1>21. ConsultedKept'
  BY <1>1, <1>11, <1>12, <1>19, <1>20 DEF ConsultedKept, Delegated
<1>22. agent \notin {"new", "diagnoses"} /\ request'.streamed
  BY <1>2, <1>11, <1>19
<1>23. PICK m : m = l + 1
  OBVIOUS
<1>24. m = Len(pro'.text) /\ UpTo(v, {"pro"}, m) /\ ev = events'
  BY <1>1, <1>8, <1>0, <1>13, <1>18, <1>23
<1> QED
  BY <1>1, <1>2, <1>0, <1>13, <1>18, <1>21, <1>22, <1>24, RequestKeepsOnce

(* When the run is over only what was shown counts. *)
LEMMA EndKeepsOnce ==
  ASSUME response'.status # "none", NEW s, s = shown', Told(s)
  PROVE  OnceKept'
BY OnceLater DEF OnceKept

LEMMA FailKeepsOnce ==
  ASSUME VoicesKept, OnceKept, Fail
  PROVE  OnceKept'
<1>1. response' = [response EXCEPT !.status = "error"] /\ UNCHANGED shown
  BY DEF Fail
<1>2. response'.status # "none"
  BY <1>1 DEF VoicesKept, RunKept
<1>3. PICK s : s = shown
  OBVIOUS
<1>4. s = shown' /\ Told(s)
  BY <1>1, <1>3 DEF OnceKept
<1> QED
  BY <1>2, <1>4, EndKeepsOnce

(* The answer is shown after what is told, or what was kept is; the agents have ended. *)
LEMMA ConcludeKeepsOnce ==
  ASSUME VoicesKept, OnceKept, response.status = "none", agent = "ended", NEW given, Conclude(given),
         given = text \/ (given = pro.text /\ pro.text # <<>>)
  PROVE  OnceKept'
<1>1. StoryKept /\ ConsultedKept /\ MessageKept
  BY DEF OnceKept
<1>2. given \in Seq(Anything)
  BY AnythingSaid
<1>3. Told(Tale)
  BY <1>1, StoryTyped, ThinTold DEF StoryKept
<1>4. ASSUME request.delegated, ~request.streamed PROVE Told(Tale \o given) /\ Told(Tale \o request.kept)
  <2>1. used # {} /\ pro.text = <<>>
    BY <1>1, <1>4 DEF ConsultedKept
  <2>2. Told(Tale \o text)
    BY <1>1, <1>4, <2>1 DEF MessageKept
  <2>3. given = text
    BY <2>1
  <2>4. Told(Tale \o request.kept)
    BY <1>1, <1>4 DEF StoryKept, Story
  <2> QED
    BY <2>2, <2>3, <2>4
<1>5. Told(shown')
  BY <1>2, <1>3, <1>4, ConcludeTold
<1>6. response'.status # "none"
  BY DEF Conclude
<1>7. PICK s : s = shown'
  OBVIOUS
<1> QED
  BY <1>5, <1>6, <1>7, EndKeepsOnce

LEMMA RespondKeepsOnce ==
  ASSUME VoicesKept, OnceKept, Respond
  PROVE  OnceKept'
<1>1. agent = "ended" /\ Conclude(text) /\ response.status = "none"
  BY AllReadEnded DEF Respond, AllRead
<1> QED
  BY <1>1, ConcludeKeepsOnce

LEMMA ProEndKeepsOnce ==
  ASSUME VoicesKept, StreamKept, OnceKept, ProEnd
  PROVE  OnceKept'
<1>1. agent = "ended" /\ response.status = "none"
  BY DEF ProEnd, VoicesKept, RunKept, StreamKept, OrderKept
<1>2. PICK ok \in {pro.text # <<>>, FALSE} : AfterPro(ok)
  BY DEF ProEnd
<1>3. CASE Fail
  BY <1>3, FailKeepsOnce
<1>4. CASE ok /\ Conclude(pro.text)
  <2>1. pro.text # <<>>
    BY <1>2, <1>4
  <2> QED
    BY <1>1, <1>4, <2>1, ConcludeKeepsOnce
<1>5. CASE Conclude(text)
  BY <1>1, <1>5, ConcludeKeepsOnce
<1>6. Fail \/ (ok /\ Conclude(pro.text)) \/ Conclude(text)
  BY <1>2 DEF AfterPro
<1> QED
  BY <1>3, <1>4, <1>5, <1>6

(* The guard answers with a text of the code. *)
LEMMA GuardKeepsOnce ==
  ASSUME EvidenceKept, Guard
  PROVE  OnceKept'
<1>1. /\ shown' = Fixed(Guarded(ask.message))
      /\ response' = [status |-> "completed", answer |-> Fixed(Guarded(ask.message)), cites |-> <<>>]
  BY DEF Guard
<1>2. PICK s : s = Fixed(Guarded(ask.message))
  OBVIOUS
<1>3. Guarded(ask.message) \in AllWords
  BY DEF EvidenceKept, AllWords
<1>4. Thin(s, <<>>)
  BY <1>2, <1>3, FixedThins
<1>5. Told(<<>>)
  BY DEF Told
<1>6. Told(s) /\ s = shown' /\ response'.status # "none"
  BY <1>1, <1>2, <1>4, <1>5, ThinTold
<1> QED
  BY <1>6, EndKeepsOnce

(* The agents start with nothing written, kept or shown. *)
LEMMA StartKeepsOnce ==
  ASSUME VoicesKept, StreamKept, OnceKept, Start
  PROVE  OnceKept'
<1>1. /\ agent = "new" /\ agent' \in {"diagnoses", "speaks"} /\ request' = [request EXCEPT !.reasons = Reasons]
      /\ UNCHANGED <<route, text, session, used, events, pro, shown, response>>
  BY DEF Start
<1>2. IsRequest(request)
  BY DEF VoicesKept, RequestKept, IsRequest
<1>3. /\ request'.kept = request.kept /\ request'.stream = request.stream /\ request'.streamed = request.streamed
      /\ request'.delegated = request.delegated
  BY <1>1, <1>2 DEF IsRequest
<1>4. response.status = "none" /\ events = <<>>
  BY <1>1 DEF VoicesKept, RunKept, StreamKept, OrderKept
<1>5. text = <<>> /\ request.kept = <<>> /\ Story = <<>> /\ StoryKept /\ ConsultedKept
  BY <1>1, <1>4 DEF OnceKept, DraftKept
<1>6. PICK a \in Seq(Anything) : a = Tale
  BY StoryTyped
<1>7. a = <<>>
  <2>1. a \o <<>> = a
    OBVIOUS
  <2> QED
    BY <1>5, <1>6, <2>1 DEF Story
<1>8. PICK e, n : e = <<>> /\ n = 0
  OBVIOUS
<1>9. Tale' = e /\ Story' = e /\ e = text'
  BY <1>1, <1>3, <1>5, <1>6, <1>7, <1>8 DEF Tale, Story
<1>10. PICK w, m, ev, s : w = Written /\ m = Len(pro.text) /\ ev = events /\ s = shown
  OBVIOUS
<1>11. Written' = w
  BY <1>1, <1>10, StoryTyped, WrittenRests
<1>12. Told(e) /\ Ahead(e, ev, w) /\ UpTo(e, {"pro"}, m)
  BY <1>5, <1>8, <1>10 DEF StoryKept
<1>13. ev = events' /\ m = Len(pro'.text) /\ s = shown'
  BY <1>1, <1>10
<1>14. StoryKept'
  BY <1>9, <1>11, <1>12, <1>13, OnceLater
<1>15. Told(shown)'
  <2>1. Told(s)
    BY <1>10 DEF OnceKept
  <2> QED
    BY <1>13, <2>1, OnceLater
<1>16. ConsultedKept'
  BY <1>1, <1>3, <1>4, <1>5 DEF ConsultedKept
<1>17. Spoke(text, Written)'
  <2>1. Len(e) = 0
    BY <1>8
  <2>2. Spoke(e, w)
    BY <2>1 DEF Spoke
  <2> QED
    BY <1>9, <1>11, <2>2, OnceLater
<1>18. Told(Tale \o text)'
  <2>1. e = Tale' \o text'
    BY <1>8, <1>9
  <2> QED
    BY <1>12, <2>1, OnceLater
<1>19. UpTo(Story, {"graph"}, Len(text))'
  <2>1. Len(e) = 0 /\ n = Len(text')
    BY <1>8, <1>9
  <2>2. UpTo(e, {"graph"}, n)
    BY <2>1 DEF UpTo
  <2> QED
    BY <1>9, <2>1, <2>2, OnceLater
<1>20. DraftKept'
  BY <1>1, <1>8, <1>9, <1>19 DEF DraftKept
<1>21. MessageKept'
  BY <1>17, <1>18 DEF MessageKept
<1> QED
  BY <1>14, <1>15, <1>16, <1>20, <1>21 DEF OnceKept

LEMMA OnceAtFirst == Init => OnceKept
<1> SUFFICES ASSUME Init PROVE OnceKept
  OBVIOUS
<1>1. /\ agent = "new" /\ text = <<>> /\ session = <<>> /\ events = <<>> /\ shown = <<>> /\ used = {}
      /\ request.kept = <<>> /\ request.stream.buffer = <<>> /\ ~request.delegated /\ pro.text = <<>>
  BY DEF Init, Fresh
<1>2. Tale = <<>> /\ Story = <<>>
  BY <1>1 DEF Tale, Story
<1>3. Len(<<>>) = 0
  OBVIOUS
<1>4. Told(<<>>) /\ UpTo(<<>>, {"pro"}, Len(pro.text)) /\ Ahead(<<>>, events, Written)
  BY <1>1, <1>3 DEF Told, UpTo, Ahead
<1>5. StoryKept
  BY <1>2, <1>4 DEF StoryKept
<1>6. ConsultedKept /\ MessageKept /\ DraftKept
  BY <1>1, <1>2 DEF ConsultedKept, MessageKept, DraftKept
<1> QED
  BY <1>1, <1>4, <1>5, <1>6 DEF OnceKept

(* A diagnosis is streamed as it is written, *)
LEMMA DiagnosisWriteKeepsOnce ==
  ASSUME EvidenceKept, VoicesKept, StreamKept, OnceKept, DiagnosisWrite
  PROVE  OnceKept'
<1>1. UNCHANGED <<route, agent, session, used, events, pro, response>> /\ agent = "diagnoses"
  BY DEF DiagnosisWrite
<1>2. response.status = "none" /\ events = <<>>
  BY <1>1 DEF VoicesKept, RunKept, StreamKept, OrderKept
<1>3. PICK c \in Words : LET p == [w |-> c, by |-> "graph", n |-> Len(text) + 1] IN
                         text' = Append(text, p) /\ Shows(p, [request EXCEPT !.streamed = TRUE])
  BY DEF DiagnosisWrite
<1>4. PICK p : p = [w |-> c, by |-> "graph", n |-> Len(text) + 1]
  OBVIOUS
<1>5. PICK h : h = [request EXCEPT !.streamed = TRUE]
  OBVIOUS
<1>6. text' = Append(text, p) /\ Shows(p, h)
  BY <1>3, <1>4, <1>5
<1>7. PICK t \in Seq(Anything), l \in Nat : t = text /\ l = Len(text)
  BY StoryTyped
<1>8. Len(text') = l + 1
  BY <1>6, <1>7
<1>9. p \in Anything /\ p.by = "graph" /\ p.n = l + 1
  <2>1. c \in AllWords
    BY DEF Words, AllWords, EvidenceKept
  <2> QED
    BY <1>4, <1>7, <2>1 DEF Anything, Said, Everybody
<1>10. IsRequest(request)
  BY DEF VoicesKept, RequestKept, IsRequest
<1>11. IsRequest(h) /\ h.stream = request.stream /\ h.streamed
  BY <1>5, <1>10, KeepsStream
<1>12. StoryKept /\ ConsultedKept /\ UpTo(Story, {"graph"}, Len(text))
  BY <1>1, <1>2 DEF OnceKept, DraftKept
<1>0. PICK ev, m : ev = events /\ m = Len(pro.text)
  OBVIOUS
<1>13. PICK a \in Seq(Anything) : a = Tale
  BY StoryTyped
<1>14. PICK w \in Nat : w = Written
  BY StoryTyped
<1>15. UpTo(a, Agents, w) /\ UpTo(a, {"pro"}, m) /\ UpTo(a, {"graph"}, l)
  <2>1. UpTo(Story, Agents, w) /\ UpTo(Story, {"pro"}, m) /\ UpTo(Story, {"graph"}, l) /\ Thin(a, Story)
    BY <1>7, <1>12, <1>0, <1>13, <1>14, StoryTyped DEF StoryKept, Ahead
  <2>2. "code" \notin Agents
    BY DEF Agents
  <2> QED
    BY <2>1, <2>2, ThinUpTo
<1>16. Written' = w + 1
  BY <1>1, <1>6, <1>9, <1>14, StoryTyped, WrittenAppends
<1>17. PICK b : b = w + 1
  OBVIOUS
<1>18. Ahead(Append(a, p), ev, b)
  <2>1. UpTo(a, Agents, b)
    BY <1>15, <1>17, UpToMore
  <2>2. p.by \notin Agents
    BY <1>9 DEF Agents
  <2>3. UpTo(Append(a, p), Agents, b)
    BY <1>9, <2>1, <2>2, UpToAppends
  <2>4. Len(ev) = 0
    BY <1>2, <1>0, <1>13
  <2> QED
    BY <2>3, <2>4 DEF Ahead
<1>19. UpTo(Append(a, p), {"pro"}, m)
  <2>1. p.by \notin {"pro"}
    BY <1>9
  <2> QED
    BY <1>9, <1>15, <2>1, UpToAppends
<1>20. UpTo(a, {"graph"}, p.n - 1) /\ UpTo(Append(a, p), {"graph"}, l + 1)
  <2>1. UpTo(a, {"graph"}, l + 1)
    BY <1>15, UpToMore
  <2>2. p.n - 1 = l /\ p.n <= l + 1
    BY <1>9
  <2>3. UpTo(Append(a, p), {"graph"}, l + 1)
    BY <1>9, <2>1, <2>2, UpToAppends
  <2> QED
    BY <1>15, <2>2, <2>3
<1>21. \E v \in Seq(Anything) :
          /\ v = Story' /\ Thin(v, Append(Tale, p)) /\ Told(v) /\ Ahead(v, ev, b) /\ UpTo(v, {"pro"}, m)
          /\ \E x : x = shown' /\ Told(x)
  <2>1. p.by \in {"graph"} /\ {"graph"} \in {Agents, {"pro"}, {"graph"}}
    BY <1>9
  <2> QED
    BY <1>6, <1>9, <1>11, <1>12, <1>0, <1>13, <1>18, <1>19, <1>20, <2>1, ShowsStory
<1>22. PICK v, x : /\ v = Story' /\ Thin(v, Append(a, p)) /\ Told(v) /\ Ahead(v, ev, b) /\ UpTo(v, {"pro"}, m)
                   /\ x = shown' /\ Told(x)
  BY <1>0, <1>13, <1>21
<1>23. /\ request'.streamed = h.streamed /\ request'.kept = h.kept
       /\ request'.reasons = h.reasons /\ request'.delegated = h.delegated
  BY <1>6, <1>9, <1>11, ShowsThins
<1>24. h.kept = request.kept /\ h.reasons = request.reasons /\ h.delegated = request.delegated
  BY <1>5, <1>10, RequestFields
<1>25. ConsultedKept'
  BY <1>1, <1>11, <1>12, <1>23, <1>24 DEF ConsultedKept, Delegated
<1>26. StoryKept'
  <2>1. ev = events' /\ b = Written' /\ m = Len(pro'.text)
    BY <1>1, <1>0, <1>13, <1>16, <1>17
  <2> QED
    BY <1>22, <2>1, OnceLater
<1>27. Told(shown)'
  BY <1>22, OnceLater
<1>28. UpTo(Story, {"graph"}, Len(text))'
  <2>1. PICK n : n = l + 1
    OBVIOUS
  <2>2. UpTo(v, {"graph"}, n) /\ n = Len(text')
    BY <1>8, <1>20, <1>22, <2>1, ThinUpTo
  <2> QED
    BY <1>22, <2>2, OnceLater
<1>29. DraftKept' /\ MessageKept'
  BY <1>1, <1>11, <1>23, <1>28 DEF DraftKept, MessageKept
<1> QED
  BY <1>25, <1>26, <1>27, <1>29 DEF OnceKept

(* and at the end comes what its stream has, or the answer if nothing was streamed. *)
LEMMA DiagnosisEndKeepsOnce ==
  ASSUME VoicesKept, OnceKept, DiagnosisEnd
  PROVE  OnceKept'
<1>1. agent = "diagnoses" /\ UNCHANGED request
  BY DEF DiagnosisEnd, Fail
<1>2. response.status = "none"
  BY <1>1 DEF VoicesKept, RunKept
<1>3. CASE Fail
  BY <1>3, FailKeepsOnce
<1>4. ASSUME NEW answer \in {Sanitize(text), Fixed("diagnosis")}, NEW cited,
             shown' = shown \o (IF request.streamed THEN Flush(request.stream).out ELSE answer),
             response' = [status |-> "completed", answer |-> answer, cites |-> cited]
      PROVE  OnceKept'
  <2>1. PICK h \in Seq(Anything), keep \in Seq(Anything) : h = shown /\ keep = request.stream.buffer
    BY StoryTyped
  <2>2. Told(h \o keep) /\ Told(h)
    <3>1. StoryKept /\ Thin(Tale, Story) /\ Thin(shown, Tale)
      BY <1>2, StoryTyped DEF OnceKept
    <3>2. Told(Tale) /\ Told(shown)
      BY <3>1, ThinTold DEF StoryKept
    <3> QED
      BY <2>1, <3>2 DEF Tale
  <2>3. \E s : s = shown' /\ Told(s)
    <3>1. CASE request.streamed
      <4>1. PICK out \in Seq(Anything) : out = Flush(request.stream).out /\ Thin(out, keep)
        BY <2>1, AnythingSaid, FlushThins
      <4>2. Thin(h \o out, h \o keep)
        BY <4>1, ThinSelf, ThinJoin
      <4>3. shown' = h \o out
        BY <1>4, <2>1, <3>1, <4>1
      <4> QED
        BY <2>2, <4>2, <4>3, ThinTold
    <3>2. CASE ~request.streamed
      <4>1. text = <<>>
        BY <1>1, <1>2, <3>2 DEF OnceKept, DraftKept
      <4>2. PICK out \in Seq(Anything) : out = answer /\ Thin(out, <<>>)
        <5>1. Sanitize(<<>>) \in Seq(Anything) /\ Thin(Sanitize(<<>>), <<>>)
          BY NothingThins, SanitizedThins
        <5>2. Fixed("diagnosis") \in Seq(Anything) /\ Thin(Fixed("diagnosis"), <<>>)
          BY FixedThins DEF AllWords
        <5> QED
          BY <1>4, <4>1, <5>1, <5>2
      <4>3. PICK none \in Seq(Anything) : none = <<>>
        BY NothingThins
      <4>4. Thin(h \o out, h \o none)
        BY <4>2, <4>3, ThinSelf, ThinJoin
      <4>5. h \o none = h
        BY <4>3
      <4>6. shown' = h \o out
        BY <1>4, <2>1, <3>2, <4>2
      <4> QED
        BY <2>2, <4>4, <4>5, <4>6, ThinTold
    <3> QED
      BY <3>1, <3>2
  <2>4. response'.status # "none"
    BY <1>4
  <2> QED
    BY <2>3, <2>4, EndKeepsOnce
<1> QED
  BY <1>3, <1>4 DEF DiagnosisEnd

(* Everything is told once in every run. *)
LEMMA OnceIsKept == Spec => []OnceKept
<1>1. EvidenceKept /\ VoicesKept /\ StreamKept /\ OnceKept /\ [Next]_vars => OnceKept'
  <2> SUFFICES ASSUME EvidenceKept, VoicesKept, StreamKept, OnceKept, [Next]_vars PROVE OnceKept'
    OBVIOUS
  <2>1. CASE Guard
    BY <2>1, GuardKeepsOnce
  <2>2. CASE Start
    BY <2>2, StartKeepsOnce
  <2>3. CASE Write
    BY <2>3, WriteKeepsOnce
  <2>4. CASE Retrieve \/ Reuse \/ AskMetric \/ Diagnose
    BY <2>4, CallsKeepOnce
  <2>5. CASE Progress
    BY <2>5, NothingKeepsOnce DEF Progress, agentVars, requestVars
  <2>6. CASE Return
    BY <2>6, ReturnKeepsOnce
  <2>7. ASSUME NEW s \in Specialists, Delegate(s) PROVE OnceKept'
    BY <2>7, DelegateKeepsOnce
  <2>8. ASSUME NEW kind \in {"end", "raised"}, Finish(kind) PROVE OnceKept'
    BY <2>8, FinishKeepsOnce
  <2>9. CASE Read
    BY <2>9, ReadKeepsOnce
  <2>10. CASE Respond
    BY <2>10, RespondKeepsOnce
  <2>11. CASE Synthesize
    BY <2>11, SynthesizeKeepsOnce
  <2>12. CASE ProWrite
    BY <2>12, ProWriteKeepsOnce
  <2>13. CASE ProEnd
    BY <2>13, ProEndKeepsOnce
  <2>14. CASE Break
    BY <2>14, FailKeepsOnce DEF Break
  <2>15. CASE DiagnosisWrite
    BY <2>15, DiagnosisWriteKeepsOnce
  <2>16. CASE DiagnosisEnd
    BY <2>16, DiagnosisEndKeepsOnce
  <2>17. CASE Done \/ UNCHANGED vars
    BY <2>17, NothingKeepsOnce DEF Done, vars, agentVars, requestVars
  <2> QED
    BY <2>1, <2>2, <2>3, <2>4, <2>5, <2>6, <2>7, <2>8, <2>9, <2>10, <2>11, <2>12, <2>13, <2>14, <2>15, <2>16, <2>17
    DEF Next
<1> QED
  BY <1>1, OnceAtFirst, EvidenceIsKept, VoicesAreKept, StreamIsKept, PTL DEF Spec

(* For any questions, words and lag: the client is told everything at most once and in the order it was written, by   *)
(* the agents as by the synthesis and the diagnosis, although the request keeps text, the stream holds some of it     *)
(* back, and the end of a run streams again what was kept.                                                            *)
THEOREM EverythingIsToldOnce == Spec => []ToldOnce
<1>1. VoicesKept /\ OnceKept => ToldOnce
  <2> SUFFICES ASSUME VoicesKept, OnceKept, NEW by \in {Agents, {"pro"}, {"graph"}},
                      NEW i \in DOMAIN shown, NEW j \in DOMAIN shown, i < j, {shown[i].by, shown[j].by} \subseteq by
               PROVE  shown[i].n < shown[j].n
    BY DEF ToldOnce
  <2>1. shown \in Seq(Anything)
    BY AnythingSaid
  <2>2. i \in 1..Len(shown) /\ j \in 1..Len(shown)
    BY <2>1
  <2>3. Together(shown[i], shown[j])
    BY DEF Together
  <2> QED
    BY <2>2, <2>3 DEF OnceKept, Told
<1> QED
  BY <1>1, OnceIsKept, VoicesAreKept, PTL

-----------------------------------------------------------------------------
(* Evaluation runs *)

(* Nothing is queued and no worker has started. *)
LEMMA InitEvalInv == EvalInit => EvalInv
<1> SUFFICES ASSUME EvalInit PROVE EvalInv
  OBVIOUS
<1>1. 0 \notin Runs
  BY DEF Runs
<1>2. EvalTypeOK
  BY DEF EvalInit, EvalTypeOK, Statuses
<1>3. OneWorkerEach /\ InHand /\ JudgedSoFar
  BY DEF EvalInit, OneWorkerEach, InHand, JudgedSoFar
<1>4. ResultsOfCases /\ CompletedIsJudged
  BY DEF EvalInit, ResultsOfCases, CompletedIsJudged, Completed
<1> QED
  BY <1>2, <1>3, <1>4 DEF EvalInv

(* Administrators add runs, ask for cancellations and change cases; none of  *)
(* it touches a run that a worker has in hand but to refresh it.             *)
LEMMA QueueEvalInv ==
  ASSUME EvalInv, NEW r \in Runs, NEW S \in SUBSET Cases, Queue(r, S)
  PROVE  EvalInv'
<1> USE DEF Queue, worker
<1>1. EvalTypeOK'
  BY DEF EvalInv, EvalTypeOK, Statuses
<1>2. \A w \in Workers : run[w] # r
  BY DEF EvalInv, InHand, Runs
<1>3. (OneWorkerEach /\ InHand /\ JudgedSoFar)'
  BY <1>2 DEF EvalInv, EvalTypeOK, OneWorkerEach, InHand, JudgedSoFar
<1>4. \A c \in Cases : results[r][c] = "none"
  BY DEF EvalInv, ResultsOfCases
<1>5. ResultsOfCases'
  BY <1>4 DEF EvalInv, EvalTypeOK, ResultsOfCases
<1>6. CompletedIsJudged'
  BY DEF EvalInv, EvalTypeOK, CompletedIsJudged, Completed
<1> QED
  BY <1>1, <1>3, <1>5, <1>6 DEF EvalInv

LEMMA AdministerEvalInv == EvalInv /\ Administer => EvalInv'
<1> SUFFICES ASSUME EvalInv, Administer PROVE EvalInv'
  OBVIOUS
<1>1. ASSUME NEW r \in Runs, NEW old \in Runs, RetryFailed(r, old) PROVE EvalInv'
  <2>1. WithResult(old, "failed") \in SUBSET Cases
    BY DEF WithResult
  <2> QED
    BY <1>1, <2>1, QueueEvalInv DEF RetryFailed
<1>2. ASSUME NEW r \in Runs, RequestCancel(r) PROVE EvalInv'
  BY <1>2 DEF RequestCancel, worker, EvalInv, EvalTypeOK, OneWorkerEach, InHand, JudgedSoFar,
     ResultsOfCases, CompletedIsJudged
<1>3. ASSUME NEW c \in Cases, NEW s \in {"enabled", "disabled"}, UpdateCase(c, s) PROVE EvalInv'
  <2>1. EvalTypeOK'
    BY <1>3 DEF UpdateCase, runs, worker, EvalInv, EvalTypeOK
  <2>2. \A d \in Cases : case'[d] # "deleted" => case[d] # "deleted"
    BY <1>3 DEF UpdateCase, EvalInv, EvalTypeOK
  <2>3. (OneWorkerEach /\ InHand /\ ResultsOfCases)'
    BY <1>3 DEF UpdateCase, runs, worker, EvalInv, OneWorkerEach, InHand, ResultsOfCases
  <2>4. JudgedSoFar'
    BY <1>3, <2>2 DEF UpdateCase, runs, worker, EvalInv, EvalTypeOK, JudgedSoFar
  <2>5. CompletedIsJudged'
    BY <1>3, <2>2 DEF UpdateCase, runs, worker, EvalInv, EvalTypeOK, CompletedIsJudged
  <2> QED
    BY <2>1, <2>3, <2>4, <2>5 DEF EvalInv
<1>4. ASSUME NEW c \in Cases, DeleteCase(c) PROVE EvalInv'
  <2>1. EvalTypeOK'
    BY <1>4 DEF DeleteCase, runs, worker, EvalInv, EvalTypeOK
  <2>2. \A d \in Cases : case'[d] # "deleted" => case[d] # "deleted" /\ d # c
    BY <1>4 DEF DeleteCase, EvalInv, EvalTypeOK
  <2>3. \A r \in Runs, d \in Cases : results'[r][d] = IF d = c THEN "none" ELSE results[r][d]
    BY <1>4 DEF DeleteCase, EvalInv, EvalTypeOK
  <2>4. (OneWorkerEach /\ InHand)'
    BY <1>4 DEF DeleteCase, runs, worker, EvalInv, OneWorkerEach, InHand
  <2>5. JudgedSoFar'
    <3> SUFFICES ASSUME NEW w \in Workers, pc[w] \in {"look", "progress", "judge", "complete", "cancel"},
                        NEW d \in ids[run[w]] \ todo[w], case'[d] # "deleted"
                 PROVE  results'[run[w]][d] # "none"
      BY <1>4 DEF DeleteCase, runs, worker, JudgedSoFar
    <3>1. run[w] \in Runs
      BY DEF EvalInv, EvalTypeOK, InHand
    <3>2. d \in Cases
      BY <3>1 DEF EvalInv, EvalTypeOK
    <3>3. results[run[w]][d] # "none"
      BY <2>2, <3>2 DEF EvalInv, JudgedSoFar
    <3> QED
      BY <2>2, <2>3, <3>1, <3>2, <3>3
  <2>6. ResultsOfCases'
    BY <1>4, <2>3 DEF DeleteCase, runs, worker, EvalInv, EvalTypeOK, ResultsOfCases
  <2>7. CompletedIsJudged'
    BY <1>4, <2>2 DEF DeleteCase, runs, worker, EvalInv, EvalTypeOK, CompletedIsJudged
  <2> QED
    BY <2>1, <2>4, <2>5, <2>6, <2>7 DEF EvalInv
<1> QED
  BY QueueEvalInv, <1>1, <1>2, <1>3, <1>4 DEF Administer

(* A worker that gives its run up, by a failing call or a stop.              *)
LEMMA LeaveEvalInv ==
  ASSUME EvalInv, NEW w \in Workers, NEW to \in {"down", "idle"}, Leave(w, to),
         UNCHANGED <<case, ids, asked, results>>,
         status' \in [Runs -> Statuses], fresh' \subseteq Runs,
         summary' \in [Runs -> [passed : Nat, failed : Nat]],
         \A r \in Runs \ {run[w]} : status'[r] = status[r] /\ (r \in fresh => r \in fresh') /\ summary'[r] = summary[r],
         \A r \in Runs : status[r] # "unused" => status'[r] # "unused",
         \A r \in Runs : status[r] = "unused" => status'[r] = "unused",
         run[w] # 0 => \/ status'[run[w]] = status[run[w]] /\ summary'[run[w]] = summary[run[w]]
                       \/ status'[run[w]] = "cancelled"
                       \/ (\A c \in ids[run[w]] : case[c] # "deleted") =>
                            summary'[run[w]].passed + summary'[run[w]].failed = Cardinality(ids[run[w]])
  PROVE  EvalInv'
<1> USE DEF Leave
<1>1. EvalTypeOK'
  BY DEF EvalInv, EvalTypeOK
<1>2. \A v \in Workers : v # w => pc'[v] = pc[v] /\ run'[v] = run[v] /\ todo'[v] = todo[v] /\ current'[v] = current[v]
  BY DEF EvalInv, EvalTypeOK
<1>3. pc'[w] = to /\ run'[w] = 0 /\ todo'[w] = {} /\ current'[w] = {}
  BY DEF EvalInv, EvalTypeOK
<1>4. OneWorkerEach'
  BY <1>2, <1>3 DEF EvalInv, OneWorkerEach
<1>5. ASSUME NEW v \in Workers, v # w, run[v] # 0
      PROVE  run[v] \in Runs \ {run[w]}
  BY <1>5 DEF EvalInv, EvalTypeOK, OneWorkerEach
<1>6. InHand'
  BY <1>2, <1>3, <1>5 DEF EvalInv, InHand
<1>7. JudgedSoFar'
  BY <1>2, <1>3 DEF EvalInv, JudgedSoFar
<1>8. ResultsOfCases'
  BY DEF EvalInv, ResultsOfCases
<1>9. CompletedIsJudged'
  <2> SUFFICES ASSUME NEW r \in Runs, status'[r] \in Completed, \A c \in ids[r] : case[c] # "deleted"
               PROVE  summary'[r].passed + summary'[r].failed = Cardinality(ids[r])
    BY DEF CompletedIsJudged
  <2>1. CASE r = run[w]
    BY <2>1 DEF EvalInv, EvalTypeOK, CompletedIsJudged, Completed, Runs
  <2>2. CASE r # run[w]
    BY <2>2 DEF EvalInv, CompletedIsJudged
  <2> QED
    BY <2>1, <2>2
<1> QED
  BY <1>1, <1>4, <1>6, <1>7, <1>8, <1>9 DEF EvalInv

(* The steps of a worker that end its run: the counts add up because every   *)
(* case has a verdict and no other case has one.                             *)
LEMMA EndEvalInv ==
  ASSUME EvalInv, NEW w \in Workers, CompleteRun(w) \/ MarkCancelled(w) \/ GiveUp(w) \/ Stop(w)
  PROVE  EvalInv'
<1>1. ASSUME CompleteRun(w) PROVE EvalInv'
  <2> DEFINE r == run[w]
             passed == WithResult(r, "passed")
             failed == WithResult(r, "failed")
  <2>1. r \in Runs /\ status[r] = "running"
    BY <1>1 DEF CompleteRun, EvalInv, EvalTypeOK, InHand
  <2>2. passed \subseteq Cases /\ failed \subseteq Cases /\ passed \cap failed = {}
    BY DEF WithResult
  <2>3. IsFiniteSet(passed) /\ IsFiniteSet(failed)
    BY <2>2, CasesAssumption, FS_Subset
  <2>4. Cardinality(passed) \in Nat /\ Cardinality(failed) \in Nat
    BY <2>3, FS_CardinalityType
  <2>5. ASSUME \A c \in ids[r] : case[c] # "deleted"
        PROVE  Cardinality(passed) + Cardinality(failed) = Cardinality(ids[r])
    <3>1. ids[r] \subseteq Cases /\ todo[w] = {}
      BY <1>1, <2>1 DEF CompleteRun, EvalInv, EvalTypeOK, InHand
    <3>2. \A c \in ids[r] : results[r][c] # "none"
      BY <1>1, <2>5, <3>1 DEF CompleteRun, EvalInv, JudgedSoFar
    <3>3. \A c \in Cases : results[r][c] \in {"none", "passed", "failed"}
      BY <2>1 DEF EvalInv, EvalTypeOK
    <3>4. \A c \in Cases \ ids[r] : results[r][c] = "none"
      BY <2>1 DEF EvalInv, ResultsOfCases
    <3>5. passed \cup failed = ids[r]
      BY <3>1, <3>2, <3>3, <3>4 DEF WithResult
    <3>6. Cardinality(passed \cup failed) = Cardinality(passed) + Cardinality(failed) - Cardinality({})
      BY <2>2, <2>3, FS_Union
    <3>7. Cardinality({}) = 0
      BY FS_EmptySet
    <3>8. Cardinality(passed \cup failed) = Cardinality(passed) + Cardinality(failed)
      BY <2>4, <3>6, <3>7
    <3> QED
      BY <3>5, <3>8
  <2>6. summary' = [summary EXCEPT ![r] = [passed |-> Cardinality(passed), failed |-> Cardinality(failed)]]
    BY <1>1 DEF CompleteRun
  <2>7. /\ summary' \in [Runs -> [passed : Nat, failed : Nat]]
        /\ summary'[r].passed = Cardinality(passed) /\ summary'[r].failed = Cardinality(failed)
        /\ \A k \in Runs \ {r} : summary'[k] = summary[k]
    BY <2>1, <2>4, <2>6 DEF EvalInv, EvalTypeOK
  <2>8. /\ status' \in [Runs -> Statuses] /\ status'[r] \in Completed
        /\ \A k \in Runs \ {r} : status'[k] = status[k]
    BY <1>1, <2>1 DEF CompleteRun, EvalInv, EvalTypeOK, Statuses, Ended, Completed
  <2>9. fresh' = fresh \ {r} /\ Leave(w, "idle") /\ UNCHANGED <<case, ids, asked, results>>
    BY <1>1 DEF CompleteRun
  <2>10. fresh' \subseteq Runs /\ \A k \in Runs \ {r} : k \in fresh => k \in fresh'
    BY <2>9 DEF EvalInv, EvalTypeOK
  <2>11. /\ \A k \in Runs : status[k] # "unused" => status'[k] # "unused"
         /\ \A k \in Runs : status[k] = "unused" => status'[k] = "unused"
    BY <2>1, <2>8 DEF Completed
  <2> QED
    BY <2>5, <2>7, <2>8, <2>9, <2>10, <2>11, LeaveEvalInv
<1>2. ASSUME MarkCancelled(w) PROVE EvalInv'
  <2>1. run[w] \in Runs /\ status[run[w]] = "running"
    BY <1>2 DEF MarkCancelled, EvalInv, EvalTypeOK, InHand
  <2>2. /\ status' \in [Runs -> Statuses] /\ status'[run[w]] = "cancelled"
        /\ \A k \in Runs \ {run[w]} : status'[k] = status[k]
    BY <1>2, <2>1 DEF MarkCancelled, EvalInv, EvalTypeOK, Statuses, Ended
  <2>3. /\ fresh' \subseteq Runs /\ \A k \in Runs \ {run[w]} : k \in fresh => k \in fresh'
        /\ summary' = summary /\ summary \in [Runs -> [passed : Nat, failed : Nat]]
    BY <1>2 DEF MarkCancelled, EvalInv, EvalTypeOK
  <2> QED
    BY <1>2, <2>1, <2>2, <2>3, LeaveEvalInv DEF MarkCancelled
<1>3. ASSUME NEW to \in {"down", "idle"}, Leave(w, to), UNCHANGED <<case, runs, results>> PROVE EvalInv'
  BY <1>3, LeaveEvalInv DEF runs, EvalInv, EvalTypeOK
<1>4. ASSUME GiveUp(w) \/ Stop(w) PROVE EvalInv'
  BY <1>3, <1>4 DEF GiveUp, Stop
<1> QED
  BY <1>1, <1>2, <1>4

(* The other steps of a worker.                                              *)
LEMMA WorkEvalInv ==
  ASSUME EvalInv, NEW w \in Workers, StartWorker(w) \/ Work(w)
  PROVE  EvalInv'
<1> USE DEF Goto
<1>1. ASSUME StartWorker(w) PROVE EvalInv'
  <2>1. EvalTypeOK'
    BY <1>1 DEF StartWorker, EvalInv, EvalTypeOK, Statuses
  <2>2. \A r \in Runs : status'[r] = status[r] \/ (status[r] = "running" /\ r \notin fresh /\ status'[r] = "queued")
    BY <1>1 DEF StartWorker
  <2>3. pc[w] = "down" /\ pc'[w] = "idle" /\ (\A v \in Workers : v # w => pc'[v] = pc[v])
        /\ UNCHANGED <<case, ids, asked, fresh, summary, results, run, todo, current>>
    BY <1>1 DEF StartWorker, EvalInv, EvalTypeOK
  <2>4. OneWorkerEach'
    BY <2>3 DEF EvalInv, OneWorkerEach
  <2>5. InHand'
    BY SMTT(30), <2>2, <2>3 DEF EvalInv, EvalTypeOK, InHand
  <2>6. JudgedSoFar'
    BY <2>3 DEF EvalInv, JudgedSoFar
  <2>7. (ResultsOfCases /\ CompletedIsJudged)'
    BY <2>2, <2>3 DEF EvalInv, ResultsOfCases, CompletedIsJudged, Completed
  <2> QED
    BY <2>1, <2>4, <2>5, <2>6, <2>7 DEF EvalInv
<1>2. ASSUME NEW r \in Runs, Claim(w, r) PROVE EvalInv'
  <2>1. EvalTypeOK'
    BY <1>2 DEF Claim, EvalInv, EvalTypeOK, Statuses
  <2>2. /\ pc[w] = "idle" /\ pc'[w] = "select" /\ run'[w] = r /\ status[r] = "queued" /\ status'[r] = "running"
        /\ r \in fresh' /\ fresh \subseteq fresh'
        /\ \A v \in Workers : v # w => pc'[v] = pc[v] /\ run'[v] = run[v]
        /\ \A k \in Runs : k # r => status'[k] = status[k]
        /\ UNCHANGED <<case, ids, asked, summary, results, todo, current>>
    BY <1>2 DEF Claim, EvalInv, EvalTypeOK
  <2>3. \A v \in Workers : run[v] # r
    BY <2>2 DEF EvalInv, InHand, Runs
  <2>4. OneWorkerEach'
    BY <2>2, <2>3 DEF EvalInv, OneWorkerEach
  <2>5. InHand'
    BY <2>2, <2>3 DEF EvalInv, EvalTypeOK, InHand, Runs
  <2>6. JudgedSoFar'
    BY <2>2 DEF EvalInv, JudgedSoFar
  <2>7. (ResultsOfCases /\ CompletedIsJudged)'
    BY <2>2 DEF EvalInv, ResultsOfCases, CompletedIsJudged, Completed
  <2> QED
    BY <2>1, <2>4, <2>5, <2>6, <2>7 DEF EvalInv
<1>3. ASSUME Select(w) PROVE EvalInv'
  <2>1. CASE ids[run[w]] \subseteq Enabled
    <3>1. /\ pc[w] = "select" /\ pc' = [pc EXCEPT ![w] = "look"]
          /\ todo' = [todo EXCEPT ![w] = ids[run[w]]]
          /\ UNCHANGED <<case, runs, results, run, current>>
      BY <1>3, <2>1 DEF Select
    <3>2. run[w] \in Runs
      BY <3>1 DEF EvalInv, EvalTypeOK, InHand
    <3>3. EvalTypeOK'
      BY <3>1, <3>2 DEF runs, EvalInv, EvalTypeOK
    <3>4. /\ todo'[w] = ids[run[w]] /\ pc'[w] = "look"
          /\ \A v \in Workers : v # w => pc'[v] = pc[v] /\ todo'[v] = todo[v]
      BY <3>1 DEF EvalInv, EvalTypeOK
    <3>5. todo[w] \subseteq todo'[w]
      BY <3>2, <3>4 DEF EvalInv, InHand, Runs
    <3>6. InHand'
      BY <3>1, <3>4, <3>5 DEF runs, EvalInv, EvalTypeOK, InHand
    <3>7. JudgedSoFar'
      BY <3>1, <3>4 DEF runs, EvalInv, JudgedSoFar
    <3> QED
      BY <3>1, <3>3, <3>6, <3>7 DEF runs, EvalInv, OneWorkerEach, ResultsOfCases, CompletedIsJudged
  <2>2. CASE ~(ids[run[w]] \subseteq Enabled)
    <3>1. Leave(w, "idle") /\ UNCHANGED <<case, runs, results>>
      BY <1>3, <2>2 DEF Select
    <3> QED
      BY <3>1, LeaveEvalInv DEF runs, EvalInv, EvalTypeOK
  <2> QED
    BY <2>1, <2>2
<1>4. ASSUME Look(w) PROVE EvalInv'
  BY <1>4 DEF Look, runs, EvalInv, EvalTypeOK, OneWorkerEach, InHand, JudgedSoFar, ResultsOfCases, CompletedIsJudged
<1>5. ASSUME NEW c \in Cases, ReportProgress(w, c) PROVE EvalInv'
  <2>0. run[w] \in Runs
    BY <1>5 DEF ReportProgress, EvalInv, EvalTypeOK, InHand
  <2>1. EvalTypeOK'
    BY <1>5, <2>0 DEF ReportProgress, EvalInv, EvalTypeOK
  <2>2. InHand'
    BY <1>5 DEF ReportProgress, EvalInv, EvalTypeOK, InHand
  <2> QED
    BY <1>5, <2>1, <2>2 DEF ReportProgress, EvalInv, EvalTypeOK, OneWorkerEach, JudgedSoFar, ResultsOfCases, CompletedIsJudged
<1>6. ASSUME NEW c \in Cases, NEW result \in {"passed", "failed"}, Judge(w, c, result) PROVE EvalInv'
  <2>1. CASE case[c] = "deleted"
    BY <1>6, <2>1, LeaveEvalInv DEF Judge, runs, EvalInv, EvalTypeOK
  <2>2. CASE case[c] # "deleted"
    <3> DEFINE r == run[w]
    <3>1. /\ pc[w] = "judge" /\ c \in current[w]
          /\ results' = [results EXCEPT ![r][c] = result]
          /\ todo' = [todo EXCEPT ![w] = @ \ {c}]
          /\ current' = [current EXCEPT ![w] = {}]
          /\ pc' = [pc EXCEPT ![w] = IF todo[w] = {c} THEN "complete" ELSE "look"]
          /\ UNCHANGED <<case, ids, status, asked, fresh, summary, run>>
      BY <1>6, <2>2 DEF Judge, runs
    <3>2. r \in Runs /\ c \in todo[w] /\ todo[w] \subseteq ids[r]
      BY <3>1 DEF EvalInv, EvalTypeOK, InHand
    <3>3. /\ \A k \in Runs, d \in Cases : results'[k][d] = IF k = r /\ d = c THEN result ELSE results[k][d]
          /\ results' \in [Runs -> [Cases -> {"none", "passed", "failed"}]]
      BY <3>1, <3>2 DEF EvalInv, EvalTypeOK
    <3>4. /\ todo'[w] = todo[w] \ {c} /\ current'[w] = {} /\ pc'[w] \in {"look", "complete"}
          /\ pc'[w] = "complete" => todo'[w] = {}
          /\ \A v \in Workers : v # w => pc'[v] = pc[v] /\ todo'[v] = todo[v] /\ current'[v] = current[v]
      BY <3>1 DEF EvalInv, EvalTypeOK
    <3>5. EvalTypeOK'
      BY <3>1, <3>3 DEF EvalInv, EvalTypeOK
    <3>6. InHand'
      BY <3>1, <3>4 DEF EvalInv, InHand
    <3>7. JudgedSoFar'
      <4> SUFFICES ASSUME NEW v \in Workers, pc'[v] \in {"look", "progress", "judge", "complete", "cancel"},
                          NEW d \in ids[run[v]] \ todo'[v], case[d] # "deleted"
                   PROVE  results'[run[v]][d] # "none"
        BY <3>1 DEF JudgedSoFar
      <4>1. pc[v] \in {"look", "progress", "judge", "complete", "cancel"}
        BY <3>1, <3>4
      <4>2. run[v] \in Runs
        BY <4>1 DEF EvalInv, EvalTypeOK, InHand
      <4>3. d \in Cases
        BY <4>2 DEF EvalInv, EvalTypeOK
      <4>4. CASE run[v] = r /\ d = c
        BY <3>3, <4>2, <4>3, <4>4
      <4>5. CASE run[v] # r \/ d # c
        <5>1. d \notin todo[v]
          BY <3>2, <3>4, <4>2, <4>5 DEF Runs
        <5>2. results[run[v]][d] # "none"
          BY <4>1, <5>1 DEF EvalInv, JudgedSoFar
        <5> QED
          BY <3>3, <4>2, <4>3, <4>5, <5>2
      <4> QED
        BY <4>4, <4>5
    <3>8. ResultsOfCases'
      BY <3>1, <3>2, <3>3 DEF EvalInv, ResultsOfCases
    <3> QED
      BY <3>1, <3>5, <3>6, <3>7, <3>8 DEF EvalInv, OneWorkerEach, CompletedIsJudged
  <2> QED
    BY <2>1, <2>2
<1> QED
  BY <1>1, <1>2, <1>3, <1>4, <1>5, <1>6, EndEvalInv DEF Work

LEMMA StepEvalInv == EvalInv /\ [EvalNext]_evalVars => EvalInv'
<1> SUFFICES ASSUME EvalInv, [EvalNext]_evalVars PROVE EvalInv'
  OBVIOUS
<1>1. ASSUME NEW r \in Runs, Unattended(r), Lapse(r) PROVE EvalInv'
  BY <1>1 DEF Unattended, Lapse, worker, EvalInv, EvalTypeOK, OneWorkerEach, InHand, JudgedSoFar,
     ResultsOfCases, CompletedIsJudged
<1>2. CASE UNCHANGED evalVars
  BY <1>2 DEF evalVars, runs, worker, EvalInv, EvalTypeOK, OneWorkerEach, InHand, JudgedSoFar,
     ResultsOfCases, CompletedIsJudged
<1> QED
  BY AdministerEvalInv, WorkEvalInv, EndEvalInv, <1>1, <1>2 DEF EvalNext

LEMMA EvalInvariance == EvalSpec => []EvalInv
  BY InitEvalInv, StepEvalInv, PTL DEF EvalSpec

(* No run is ever in the hands of two workers, although claim_next_eval_run  *)
(* and recover_eval_runs know the workers only by updated_at.                *)
THEOREM RunsAreExclusive == EvalSpec => []OneWorkerEach
<1>1. EvalInv => OneWorkerEach
  BY DEF EvalInv
<1> QED
  BY EvalInvariance, <1>1, PTL

(* A completed run has a verdict on each of its cases, however often it was  *)
(* stopped, taken back and begun again (complete_eval_run).                  *)
THEOREM CompletedRunsAreJudged == EvalSpec => []CompletedIsJudged
<1>1. EvalInv => CompletedIsJudged
  BY DEF EvalInv
<1> QED
  BY EvalInvariance, <1>1, PTL

(* A run that has ended keeps its status, its counts and its results: no     *)
(* worker is left that still writes to it.                                   *)
THEOREM EndedRunsAreFinal == EvalSpec => EndedIsFinal
<1> DEFINE Stays(r) == /\ status'[r] = status[r]
                       /\ summary'[r] = summary[r]
                       /\ \A c \in Cases : case'[c] # "deleted" => results'[r][c] = results[r][c]
<1>1. ASSUME EvalInv, EvalNext, NEW r \in Runs, status[r] \in Ended PROVE Stays(r)
  <2>1. \A w \in Workers : run[w] # r /\ (pc[w] \notin {"down", "idle"} => run[w] \in Runs)
    BY <1>1 DEF EvalInv, EvalTypeOK, InHand, Ended, Completed, Runs
  <2>2. CASE Administer
    BY <1>1, <2>2 DEF Administer, Queue, RetryFailed, RequestCancel, UpdateCase, DeleteCase,
       runs, EvalInv, EvalTypeOK, Ended, Completed
  <2>3. ASSUME NEW w \in Workers, StartWorker(w) \/ GiveUp(w) \/ Stop(w) PROVE Stays(r)
    BY <1>1, <2>3 DEF StartWorker, GiveUp, Stop, runs, Ended, Completed
  <2>4. ASSUME NEW w \in Workers, Work(w) PROVE Stays(r)
    <3>1. ASSUME NEW k \in Runs, Claim(w, k) PROVE Stays(r)
      BY <1>1, <3>1 DEF Claim, EvalInv, EvalTypeOK, Ended, Completed
    <3>2. ASSUME Select(w) \/ Look(w) PROVE Stays(r)
      BY <3>2 DEF Select, Look, runs
    <3>3. ASSUME CompleteRun(w) PROVE Stays(r)
      BY <1>1, <2>1, <3>3 DEF CompleteRun, EvalInv, EvalTypeOK
    <3>4. ASSUME MarkCancelled(w) PROVE Stays(r)
      BY <1>1, <2>1, <3>4 DEF MarkCancelled, EvalInv, EvalTypeOK
    <3>5. ASSUME NEW c \in Cases, ReportProgress(w, c) PROVE Stays(r)
      BY <3>5 DEF ReportProgress
    <3>6. ASSUME NEW c \in Cases, NEW result \in {"passed", "failed"}, Judge(w, c, result) PROVE Stays(r)
      BY <1>1, <2>1, <3>6 DEF Judge, runs, EvalInv, EvalTypeOK
    <3> QED
      BY <2>4, <3>1, <3>2, <3>3, <3>4, <3>5, <3>6 DEF Work
  <2>5. ASSUME NEW k \in Runs, Lapse(k) PROVE Stays(r)
    BY <2>5 DEF Lapse
  <2> QED
    BY <1>1, <2>2, <2>3, <2>4, <2>5 DEF EvalNext
<1>2. EvalInv /\ [EvalNext]_evalVars => [\A r \in Runs : status[r] \in Ended => Stays(r)]_evalVars
  BY <1>1
<1> QED
  BY EvalInvariance, <1>2, PTL DEF EvalSpec, EndedIsFinal
=============================================================================

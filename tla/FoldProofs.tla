------------------------------ MODULE FoldProofs ------------------------------
(***************************************************************************)
(* Proofs about loops.  A loop is a FoldLeft, which the library defines by *)
(* choosing a recursive function on sets of indices; that the function     *)
(* exists, and what it is on a prefix of the list, is proved here from the *)
(* well-foundedness of the naturals.  The last lemmas are about the one    *)
(* loop many places share, which keeps the elements of a list in a set.    *)
(***************************************************************************)
EXTENDS Lists, Integers, WellFoundedInduction, TLAPS

(* A set of naturals has a least member.                                   *)
LEMMA LeastNatural ==
  ASSUME NEW T \in SUBSET Nat, T # {}
  PROVE  \E m \in T : \A x \in T : m <= x
<1> DEFINE R == {ss \in Nat \X Nat : ss[1] < ss[2]}
<1>1. IsWellFoundedOn(R, Nat)
  BY Zenon, NatLessThanWellFounded DEF OpToRel
<1>2. PICK m \in T : \A x \in T : ~(<<x, m>> \in R)
  <2> HIDE DEF R
  <2> QED
    BY <1>1, WFMin
<1>3. ASSUME NEW x \in T
      PROVE  m <= x
  <2>1. ~(<<x, m>> \in R) /\ x \in Nat /\ m \in Nat
    BY <1>2
  <2> QED
    BY <2>1
<1> QED
  BY <1>3

(* One of naturals up to a bound has a greatest.                           *)
LEMMA GreatestNatural ==
  ASSUME NEW b \in Nat, NEW T \in SUBSET (0..b), T # {}
  PROVE  \E m \in T : \A x \in T : x <= m
<1> DEFINE U == {u \in 0..b : b - u \in T}
<1>1. \A x \in T : b - x \in U
  <2> TAKE x \in T
  <2>1. x \in 0..b /\ b - x \in 0..b /\ b - (b - x) = x
    OBVIOUS
  <2> QED
    BY <2>1
<1>2. PICK u \in U : \A x \in U : u <= x
  <2>1. U \in SUBSET Nat /\ U # {}
    <3>1. PICK x \in T : TRUE
      OBVIOUS
    <3>2. b - x \in U
      BY <1>1
    <3>3. U \subseteq Nat
      OBVIOUS
    <3> HIDE DEF U
    <3> QED
      BY <3>2, <3>3
  <2> HIDE DEF U
  <2> QED
    BY <2>1, LeastNatural
<1>3. b - u \in T /\ u \in 0..b
  OBVIOUS
<1>4. ASSUME NEW x \in T
      PROVE  x <= b - u
  <2>1. x \in 0..b /\ u <= b - x
    BY <1>1, <1>2
  <2> QED
    BY <1>3, <2>1
<1> QED
  BY <1>3, <1>4

(* Induction for a set: it holds all naturals if it holds zero and the     *)
(* successor of each of its members.                                       *)
LEMMA SetInduction ==
  ASSUME NEW S, 0 \in S, \A n \in Nat : n \in S => n + 1 \in S
  PROVE  Nat \subseteq S
<1> DEFINE T == {n \in Nat : n \notin S}
<1>1. SUFFICES ASSUME T # {} PROVE FALSE
  OBVIOUS
<1>2. PICK x \in T : \A y \in T : x <= y
  <2>1. T \in SUBSET Nat
    OBVIOUS
  <2> HIDE DEF T
  <2> QED
    BY <1>1, <2>1, LeastNatural
<1>3. x # 0 /\ x - 1 \in Nat
  BY <1>2
<1>4. x - 1 \in T
  BY <1>2, <1>3
<1> QED
  BY <1>2, <1>4

(* The same up to a bound.                                                 *)
LEMMA PrefixInduction ==
  ASSUME NEW n \in Nat, NEW S, 0 \in S,
         \A k \in 1..n : k - 1 \in S => k \in S
  PROVE  0..n \subseteq S
<1> DEFINE T == {k \in Nat : k <= n => k \in S}
<1>1. 0 \in T
  OBVIOUS
<1>2. ASSUME NEW k \in Nat, k \in T PROVE k + 1 \in T
  <2> SUFFICES ASSUME k + 1 <= n
               PROVE  k + 1 \in S
    OBVIOUS
  <2>1. k \in S /\ k + 1 \in 1..n /\ k + 1 - 1 = k
    BY <1>2
  <2> QED
    BY <2>1
<1>3. Nat \subseteq T
  <2> HIDE DEF T
  <2> QED
    BY <1>1, <1>2, SetInduction
<1> QED
  BY <1>3

(* A set of indices has a greatest, and Max chooses it.                    *)
LEMMA MaxOfIndices ==
  ASSUME NEW n \in Nat, NEW s \in SUBSET (1..n), s # {}
  PROVE  Max(s) \in s /\ \A i \in s : i <= Max(s)
<1>1. s \in SUBSET (0..n)
  OBVIOUS
<1>2. PICK m \in s : \A i \in s : i <= m
  BY <1>1, GreatestNatural
<1>3. \A i \in s : m >= i
  BY <1>1, <1>2
<1> QED
  BY <1>1, <1>3 DEF Max

(* The greatest index of a prefix is its length.                            *)
LEMMA MaxOfPrefix ==
  ASSUME NEW n \in Nat, NEW k \in 1..n
  PROVE  /\ 1..k \in SUBSET (1..n) /\ 1..k # {}
         /\ Max(1..k) = k /\ (1..k) \ {k} = 1..(k - 1)
<1>1. 1..k \in SUBSET (1..n) /\ 1..k # {} /\ k \in 1..k
  OBVIOUS
<1>2. Max(1..k) \in 1..k /\ k <= Max(1..k)
  BY <1>1, MaxOfIndices
<1>3. Max(1..k) = k
  BY <1>2
<1> QED
  BY <1>1, <1>3

-----------------------------------------------------------------------------
(* The function on sets of indices that a fold chooses: the base for no    *)
(* index, else a step from the set without its greatest index.             *)

IsFold(g, n, A, base, step) ==
  /\ g \in [SUBSET (1..n) -> A]
  /\ g = [s \in SUBSET (1..n) |->
            IF s = {} THEN base ELSE step[<<g[s \ {Max(s)}], Max(s)>>]]
HasFold(n, A, base, step) == \E g : IsFold(g, n, A, base, step)

(* The fold over no index.                                                 *)
LEMMA EmptyFold ==
  ASSUME NEW A, NEW base \in A, NEW step
  PROVE  HasFold(0, A, base, step)
<1> DEFINE g == [s \in SUBSET (1..0) |-> base]
<1>1. SUBSET (1..0) = {{}}
  OBVIOUS
<1>2. IsFold(g, 0, A, base, step)
  BY <1>1 DEF IsFold
<1> QED
  BY <1>2 DEF HasFold

(* The fold over one more index.                                           *)
LEMMA LongerFold ==
  ASSUME NEW n \in Nat, NEW A, NEW base \in A, NEW step \in [A \X (1..n) -> A],
         NEW k \in 1..n, HasFold(k - 1, A, base, step)
  PROVE  HasFold(k, A, base, step)
<1>1. PICK g : IsFold(g, k - 1, A, base, step)
  BY DEF HasFold
<1> DEFINE h == [s \in SUBSET (1..k) |->
                   IF k \in s THEN step[<<g[s \ {k}], k>>] ELSE g[s]]
<1>2. ASSUME NEW s \in SUBSET (1..k)
      PROVE  /\ h[s] \in A
             /\ h[s] = IF s = {} THEN base ELSE step[<<h[s \ {Max(s)}], Max(s)>>]
  <2>1. CASE k \in s
    <3>1. Max(s) = k
      <4>1. k \in Nat /\ s # {}
        BY <2>1
      <4>2. Max(s) \in s /\ k <= Max(s)
        BY <2>1, <4>1, MaxOfIndices
      <4>3. Max(s) \in 1..k
        BY <4>2
      <4> QED
        BY <4>2, <4>3
    <3>2. s \ {k} \in SUBSET (1..(k - 1))
      OBVIOUS
    <3>3. h[s \ {k}] = g[s \ {k}] /\ g[s \ {k}] \in A
      BY <1>1, <3>2 DEF IsFold
    <3>4. h[s] = step[<<g[s \ {k}], k>>]
      BY <2>1
    <3> QED
      BY <2>1, <3>1, <3>3, <3>4
  <2>2. CASE k \notin s
    <3>1. s \in SUBSET (1..(k - 1))
      BY <2>2
    <3>2. h[s] = g[s] /\ g[s] \in A
      BY <1>1, <2>2, <3>1 DEF IsFold
    <3>3. g[s] = IF s = {} THEN base ELSE step[<<g[s \ {Max(s)}], Max(s)>>]
      BY <1>1, <3>1 DEF IsFold
    <3>4. s \ {Max(s)} \in SUBSET (1..k) /\ k \notin s \ {Max(s)}
      BY <2>2
    <3>5. h[s \ {Max(s)}] = g[s \ {Max(s)}]
      BY <3>4
    <3> QED
      BY <3>2, <3>3, <3>5
  <2> QED
    BY <2>1, <2>2
<1>3. h = [s \in SUBSET (1..k) |-> h[s]]
  OBVIOUS
<1>4. IsFold(h, k, A, base, step)
  <2> HIDE DEF h
  <2> QED
    BY <1>2, <1>3 DEF IsFold
<1> QED
  BY <1>4 DEF HasFold

(* Every fold whose step stays within a set exists.                        *)
LEMMA FoldExists ==
  ASSUME NEW n \in Nat, NEW A, NEW base \in A, NEW step \in [A \X (1..n) -> A]
  PROVE  \E g : IsFold(g, n, A, base, step)
<1> DEFINE S == {k \in 0..n : HasFold(k, A, base, step)}
<1>1. 0 \in S
  BY EmptyFold
<1>2. ASSUME NEW k \in 1..n, k - 1 \in S PROVE k \in S
  <2>1. k \in 0..n
    OBVIOUS
  <2>2. HasFold(k, A, base, step)
    BY <1>2, LongerFold
  <2> QED
    BY <2>1, <2>2
<1>3. n \in S
  <2> HIDE DEF S
  <2> QED
    BY <1>1, <1>2, PrefixInduction
<1> QED
  BY <1>3 DEF HasFold

-----------------------------------------------------------------------------
(* The elements of a list that are in a set.                               *)

(* The loop, one element at a time.                                        *)
LEMMA KeptSteps ==
  ASSUME NEW T, NEW s \in Seq(T), NEW S
  PROVE  \E h : /\ h[0] = <<>>
                /\ \A k \in 1..Len(s) :
                     h[k] = IF s[k] \in S THEN Append(h[k - 1], s[k]) ELSE h[k - 1]
                /\ Kept(s, S) = h[Len(s)]
<1> DEFINE n == Len(s)
           Op(kept, x) == IF x \in S THEN Append(kept, x) ELSE kept
           step == [x \in Seq(T) \X (1..n) |-> Op(x[1], s[x[2]])]
           E(g) == g = [t \in SUBSET (DOMAIN s) |->
                          IF t = {} THEN <<>> ELSE Op(g[t \ {Max(t)}], s[Max(t)])]
           c == CHOOSE g : E(g)
<1>1. DOMAIN s = 1..n /\ n \in Nat
  OBVIOUS
<1>2. E(c)
  <2>1. step \in [Seq(T) \X (1..n) -> Seq(T)]
    BY <1>1
  <2>2. <<>> \in Seq(T)
    OBVIOUS
  <2>3. PICK g : IsFold(g, n, Seq(T), <<>>, step)
    <3> HIDE DEF step, n
    <3> QED
      BY <1>1, <2>1, <2>2, FoldExists
  <2>4. ASSUME NEW t \in SUBSET (1..n), t # {}
        PROVE  step[<<g[t \ {Max(t)}], Max(t)>>] = Op(g[t \ {Max(t)}], s[Max(t)])
    <3>1. Max(t) \in 1..n /\ g[t \ {Max(t)}] \in Seq(T)
      BY <1>1, <2>3, <2>4, MaxOfIndices DEF IsFold
    <3> QED
      BY <3>1
  <2>5. E(g)
    <3> HIDE DEF step, Op, n
    <3> QED
      BY <1>1, <2>3, <2>4 DEF IsFold
  <2> HIDE DEF E
  <2> QED
    BY <2>5
<1>3. c[{}] = <<>>
  <2> HIDE DEF c
  <2> QED
    BY <1>2
<1>4. ASSUME NEW k \in 1..n
      PROVE  c[1..k] = Op(c[1..(k - 1)], s[k])
  <2>1. /\ 1..k \in SUBSET (DOMAIN s) /\ 1..k # {}
        /\ Max(1..k) = k /\ (1..k) \ {k} = 1..(k - 1)
    BY <1>1, MaxOfPrefix
  <2> HIDE DEF c, Op
  <2> QED
    BY <1>2, <2>1
<1>5. Kept(s, S) = c[DOMAIN s]
  BY Zenon DEF Kept, FoldLeft, MapThenFoldSet
<1> DEFINE h == [k \in 0..n |-> c[1..k]]
<1>6. h[0] = <<>> /\ \A k \in 1..n : h[k] = Op(h[k - 1], s[k])
  <2>1. 1..0 = {} /\ 0 \in 0..n
    BY <1>1
  <2> HIDE DEF c, Op, n
  <2> QED
    BY <1>1, <1>3, <1>4, <2>1
<1>7. Kept(s, S) = h[n]
  <2> HIDE DEF c
  <2> QED
    BY <1>1, <1>5
<1> HIDE DEF h, c
<1> QED
  BY <1>6, <1>7

(* r is what the loop has kept of the first k elements: f tells the place  *)
(* of each, in order, and no element of the set is missing.                *)
Keeps(s, S, r, k, f) ==
  /\ f \in [1..Len(r) -> 1..k]
  /\ \A i \in 1..Len(r) : r[i] = s[f[i]] /\ s[f[i]] \in S
  /\ \A i, j \in 1..Len(r) : i < j => f[i] < f[j]
  /\ \A m \in 1..k : s[m] \in S => \E i \in 1..Len(r) : f[i] = m
KeptUpTo(T, s, S, r, k) == r \in Seq(T) /\ \E f : Keeps(s, S, r, k, f)

(* One more element is kept, or passed over.                                *)
LEMMA KeepsNext ==
  ASSUME NEW T, NEW s \in Seq(T), NEW S, NEW r, NEW k \in 1..Len(s),
         KeptUpTo(T, s, S, r, k - 1)
  PROVE  KeptUpTo(T, s, S, IF s[k] \in S THEN Append(r, s[k]) ELSE r, k)
<1>1. PICK f : Keeps(s, S, r, k - 1, f)
  BY DEF KeptUpTo
<1>2. r \in Seq(T) /\ Len(r) \in Nat /\ s[k] \in T /\ Len(s) \in Nat
  BY DEF KeptUpTo
<1>3. CASE s[k] \notin S
  <2>1. f \in [1..Len(r) -> 1..k]
    BY <1>1, <1>2 DEF Keeps
  <2>2. \A m \in 1..k : s[m] \in S => m \in 1..(k - 1)
    BY <1>3
  <2>3. Keeps(s, S, r, k, f)
    BY <1>1, <2>1, <2>2 DEF Keeps
  <2> QED
    BY <1>2, <1>3, <2>3 DEF KeptUpTo
<1>4. CASE s[k] \in S
  <2> DEFINE q == Append(r, s[k])
             n == Len(r)
             e == [i \in 1..(n + 1) |-> IF i = n + 1 THEN k ELSE f[i]]
  <2>1. q \in Seq(T) /\ Len(q) = n + 1 /\ q[n + 1] = s[k]
    BY <1>2
  <2>2. \A i \in 1..n : q[i] = r[i]
    BY <1>2
  <2>3. \A i \in 1..n : f[i] \in 1..(k - 1) /\ e[i] = f[i]
    BY <1>1, <1>2 DEF Keeps
  <2>4. e[n + 1] = k
    BY <1>2
  <2>5. \A i \in 1..(n + 1) : i \in 1..n \/ i = n + 1
    BY <1>2
  <2>6. e \in [1..(n + 1) -> 1..k]
    <3>1. ASSUME NEW i \in 1..(n + 1)
          PROVE  e[i] \in 1..k
      <4>1. CASE i = n + 1
        BY <2>4, <4>1
      <4>2. CASE i \in 1..n
        <5> HIDE DEF e, n
        <5> QED
          BY <1>2, <2>3, <4>2
      <4> QED
        BY <2>5, <4>1, <4>2
    <3> QED
      BY <3>1
  <2> HIDE DEF q, e
  <2>7. \A i \in 1..(n + 1) : q[i] = s[e[i]] /\ s[e[i]] \in S
    BY <1>1, <1>4, <2>1, <2>2, <2>3, <2>4, <2>5 DEF Keeps
  <2>8. \A i, j \in 1..(n + 1) : i < j => e[i] < e[j]
    <3> SUFFICES ASSUME NEW i \in 1..(n + 1), NEW j \in 1..(n + 1), i < j
                 PROVE  e[i] < e[j]
      OBVIOUS
    <3>1. i \in 1..n /\ e[i] = f[i] /\ f[i] \in 1..(k - 1)
      BY <1>2, <2>3
    <3>2. CASE j = n + 1
      BY <2>4, <3>1, <3>2
    <3>3. CASE j \in 1..n
      BY <1>1, <2>3, <3>1, <3>3 DEF Keeps
    <3> QED
      BY <2>5, <3>2, <3>3
  <2>9. ASSUME NEW m \in 1..k, s[m] \in S
        PROVE  \E i \in 1..(n + 1) : e[i] = m
    <3>1. CASE m = k
      BY <1>2, <2>4, <3>1
    <3>2. CASE m # k
      <4>1. m \in 1..(k - 1)
        BY <3>2
      <4>2. PICK i \in 1..n : f[i] = m
        BY <1>1, <2>9, <4>1 DEF Keeps
      <4> QED
        BY <1>2, <2>3, <4>2
    <3> QED
      BY <3>1, <3>2
  <2>10. Keeps(s, S, q, k, e)
    BY <2>1, <2>6, <2>7, <2>8, <2>9 DEF Keeps
  <2> QED
    BY <1>4, <2>1, <2>10 DEF KeptUpTo, q
<1> QED
  BY <1>3, <1>4

(* What is kept is a list of elements of the set, in the order of the      *)
(* list, and all of these.                                                 *)
LEMMA KeptRight ==
  ASSUME NEW T, NEW s \in Seq(T), NEW S
  PROVE  KeptUpTo(T, s, S, Kept(s, S), Len(s))
<1>1. PICK h : /\ h[0] = <<>>
               /\ \A k \in 1..Len(s) :
                    h[k] = IF s[k] \in S THEN Append(h[k - 1], s[k]) ELSE h[k - 1]
               /\ Kept(s, S) = h[Len(s)]
  BY KeptSteps
<1> DEFINE Good == {k \in 0..Len(s) : KeptUpTo(T, s, S, h[k], k)}
<1>2. 0 \in Good
  <2> DEFINE none == [i \in 1..0 |-> 0]
  <2>1. <<>> \in Seq(T) /\ Len(<<>>) = 0 /\ 1..0 = {} /\ Len(s) \in Nat
    OBVIOUS
  <2>2. none \in [1..0 -> 1..0]
    OBVIOUS
  <2>3. Keeps(s, S, <<>>, 0, none)
    <3> HIDE DEF none
    <3> QED
      BY <2>1, <2>2 DEF Keeps
  <2>4. KeptUpTo(T, s, S, h[0], 0)
    <3> HIDE DEF none
    <3> QED
      BY <1>1, <2>1, <2>3 DEF KeptUpTo
  <2>5. 0 \in 0..Len(s)
    BY <2>1
  <2> QED
    BY <2>4, <2>5
<1>3. ASSUME NEW k \in 1..Len(s), k - 1 \in Good PROVE k \in Good
  <2>1. KeptUpTo(T, s, S, h[k], k)
    BY <1>1, <1>3, KeepsNext
  <2> QED
    BY <2>1
<1>4. Len(s) \in Good
  <2>1. Len(s) \in Nat
    OBVIOUS
  <2> HIDE DEF Good
  <2> QED
    BY <1>2, <1>3, <2>1, PrefixInduction
<1> QED
  BY <1>1, <1>4

-----------------------------------------------------------------------------
(* A list is a list of its elements, whatever else they are.               *)
LEMMA ListOf ==
  ASSUME NEW T, NEW s \in Seq(T)
  PROVE  IsList(s)
<1>1. s \in [1..Len(s) -> {s[i] : i \in DOMAIN s}] /\ Len(s) \in Nat
  OBVIOUS
<1> QED
  BY <1>1 DEF IsList

(* Lists of elements of a set, put one after the other, are one.           *)
LEMMA FlattenTyped ==
  ASSUME NEW T, NEW seqs \in Seq(Seq(T))
  PROVE  FlattenSeq(seqs) \in Seq(T)
<1> DEFINE n == Len(seqs)
           E(f) == f = [i \in 1..n |-> IF i = 1 THEN seqs[i] ELSE f[i - 1] \o seqs[i]]
           c == CHOOSE f : E(f)
           step == [x \in Seq(T) \X (1..n) |-> x[1] \o seqs[x[2]]]
<1>1. n \in Nat /\ \A i \in 1..n : seqs[i] \in Seq(T)
  OBVIOUS
<1>2. CASE n = 0
  <2>1. seqs = <<>>
    BY <1>2
  <2> QED
    BY <1>2, <2>1 DEF FlattenSeq
<1>3. CASE n # 0
  <2>1. E(c)
    <3>1. step \in [Seq(T) \X (1..n) -> Seq(T)]
      BY <1>1
    <3>2. <<>> \in Seq(T)
      OBVIOUS
    <3>3. PICK g : IsFold(g, n, Seq(T), <<>>, step)
      <4> HIDE DEF step, n
      <4> QED
        BY <1>1, <3>1, <3>2, FoldExists
    <3>4. ASSUME NEW i \in 1..n
          PROVE  g[1..i] = IF i = 1 THEN seqs[i] ELSE g[1..(i - 1)] \o seqs[i]
      <4>1. /\ 1..i \in SUBSET (1..n) /\ 1..i # {}
            /\ Max(1..i) = i /\ (1..i) \ {i} = 1..(i - 1)
        BY <1>1, MaxOfPrefix
      <4>2. g[1..i] = step[<<g[1..(i - 1)], i>>]
        <5> HIDE DEF step, n
        <5> QED
          BY <3>3, <4>1 DEF IsFold
      <4>3. g[1..(i - 1)] \in Seq(T)
        <5>1. 1..(i - 1) \in SUBSET (1..n)
          BY <4>1
        <5> HIDE DEF step, n
        <5> QED
          BY <3>3, <5>1 DEF IsFold
      <4>4. g[1..i] = g[1..(i - 1)] \o seqs[i]
        BY <4>2, <4>3
      <4>5. ASSUME i = 1 PROVE g[1..(i - 1)] = <<>>
        <5>1. 1..(i - 1) = {} /\ {} \in SUBSET (1..n)
          BY <4>5
        <5> HIDE DEF step, n
        <5> QED
          BY <3>3, <5>1 DEF IsFold
      <4>6. seqs[i] \in Seq(T)
        BY <1>1
      <4>7. <<>> \o seqs[i] = seqs[i]
        BY <4>6
      <4> QED
        BY <4>4, <4>5, <4>7
    <3> DEFINE f == [i \in 1..n |-> g[1..i]]
    <3>5. E(f)
      <4>1. ASSUME NEW i \in 1..n
            PROVE  f[i] = IF i = 1 THEN seqs[i] ELSE f[i - 1] \o seqs[i]
        <5>1. i # 1 => i - 1 \in 1..n
          BY <1>1
        <5> HIDE DEF n
        <5> QED
          BY <3>4, <5>1
      <4>2. f = [i \in 1..n |-> f[i]]
        OBVIOUS
      <4> HIDE DEF f, n
      <4> QED
        BY <4>1, <4>2
    <3> HIDE DEF E, f
    <3> QED
      BY <3>5
  <2>2. FlattenSeq(seqs) = c[n]
    BY Zenon, <1>3 DEF FlattenSeq
  <2> DEFINE Good == {k \in 0..n : k = 0 \/ c[k] \in Seq(T)}
  <2>3. 0 \in Good
    BY <1>1
  <2>4. ASSUME NEW k \in 1..n, k - 1 \in Good PROVE k \in Good
    <3>1. c[k] = IF k = 1 THEN seqs[k] ELSE c[k - 1] \o seqs[k]
      <4> HIDE DEF c, n
      <4> QED
        BY <2>1
    <3>2. k - 1 = 0 \/ c[k - 1] \in Seq(T)
      BY <2>4
    <3>3. seqs[k] \in Seq(T) /\ k \in 0..n
      BY <1>1
    <3> HIDE DEF c, n
    <3>4. c[k] \in Seq(T)
      BY <3>1, <3>2, <3>3
    <3> QED
      BY <3>3, <3>4
  <2>5. c[n] \in Seq(T)
    <3>1. 0..n \subseteq Good
      <4> HIDE DEF Good, n
      <4> QED
        BY <1>1, <2>3, <2>4, PrefixInduction
    <3> HIDE DEF c
    <3> QED
      BY <1>1, <1>3, <3>1
  <2> QED
    BY <2>2, <2>5
<1> QED
  BY <1>2, <1>3
=============================================================================

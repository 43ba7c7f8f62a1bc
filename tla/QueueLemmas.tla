---------------------------- MODULE QueueLemmas ----------------------------
(***************************************************************************)
(* Facts about queues: members, order and injectivity under Append, Tail   *)
(* and Without, and the induction they need; and what P and V do to a set  *)
(* of semaphores and to the processes that wait.                           *)
(***************************************************************************)
EXTENDS QueueOps, Semaphores, WellFoundedInduction, FiniteSetTheorems, TLAPS

----------------------------------------------------------------------------
(***************************************************************************)
(* Induction, stated for sets.                                             *)
(***************************************************************************)

\* A set of natural numbers that is not empty has a least element.
LEMMA LeastNatural ==
    ASSUME NEW T, T \subseteq Nat, T # {}
    PROVE  \E n \in T : \A m \in T : n <= m
<1> DEFINE R == OpToRel(<, Nat)
<1>1. IsWellFoundedOn(R, Nat)
  BY NatLessThanWellFounded
<1>2. \A x, y \in Nat : x < y => <<x, y>> \in R
  BY DEF OpToRel
<1> HIDE DEF R
<1>3. PICK x \in T : \A y \in T : ~(<<y, x>> \in R)
  BY <1>1, WFMin
<1>4. ASSUME NEW m \in T PROVE x <= m
  <2>1. m \in Nat /\ x \in Nat
    OBVIOUS
  <2>2. ~(<<m, x>> \in R)
    BY <1>3
  <2>3. ~(m < x)
    BY <1>2, <2>1, <2>2
  <2> QED
    BY <2>1, <2>3
<1> QED
  BY <1>4

\* A set that contains 0 and the successors below n contains 0..n.
LEMMA IntervalInduction ==
    ASSUME NEW n \in Nat, NEW T, 0 \in T,
           \A i \in 1..n : i - 1 \in T => i \in T
    PROVE  \A i \in 0..n : i \in T
<1> DEFINE Bad == {i \in 0..n : i \notin T}
<1> SUFFICES ASSUME Bad # {} PROVE FALSE
  OBVIOUS
<1>0. Bad \subseteq Nat
  OBVIOUS
<1>1. PICK i \in Bad : \A j \in Bad : i <= j
  <2> HIDE DEF Bad
  <2> QED
    BY <1>0, LeastNatural
<1>2. i \in 1..n /\ i - 1 \in 0..n
  BY <1>1
<1>3. i - 1 \in T
  BY <1>1, <1>2
<1> QED
  BY <1>1, <1>2, <1>3

\* f is the function on 0..n with f[0] = x0 and step function G.
Steps(n, X) == [(1..n) \X X -> X]
IsRun(f, n, X, x0, G) == /\ f \in [0..n -> X]
                         /\ f[0] = x0
                         /\ \A i \in 1..n : f[i] = G[<<i, f[i-1]>>]

\* A function on 0..n can be defined by its value at 0 and a step function.
LEMMA RecursionExists ==
    ASSUME NEW n \in Nat, NEW X, NEW x0 \in X, NEW G \in Steps(n, X)
    PROVE  \E f : IsRun(f, n, X, x0, G)
<1>0. G \in [(1..n) \X X -> X]
  BY DEF Steps
<1> DEFINE Upto(m, f) == f[0] = x0 /\ \A i \in 1..m : f[i] = G[<<i, f[i-1]>>]
           T == {m \in 0..n : \E f \in [0..m -> X] : Upto(m, f)}
<1>1. 0 \in T
  <2> DEFINE f == [i \in 0..0 |-> x0]
  <2>1. f \in [0..0 -> X] /\ Upto(0, f)
    OBVIOUS
  <2> HIDE DEF f, Upto
  <2> QED
    BY <2>1
<1>2. ASSUME NEW m \in 1..n, m - 1 \in T
      PROVE  m \in T
  <2>1. PICK f \in [0..(m-1) -> X] : Upto(m - 1, f)
    BY <1>2
  <2> DEFINE g == [i \in 0..m |-> IF i = m THEN G[<<m, f[m-1]>>] ELSE f[i]]
  <2>2. f[m-1] \in X
    OBVIOUS
  <2>3. G[<<m, f[m-1]>>] \in X
    BY <1>0, <2>2
  <2>4. g \in [0..m -> X]
    BY <2>3
  <2>5. ASSUME NEW i \in 1..m PROVE g[i] = G[<<i, g[i-1]>>]
    <3>1. CASE i = m
      <4>1. g[m] = G[<<m, f[m-1]>>] /\ g[m-1] = f[m-1]
        OBVIOUS
      <4> QED
        BY <3>1, <4>1
    <3>2. CASE i # m
      BY <3>2, <2>1
    <3> QED
      BY <3>1, <3>2
  <2>6. g[0] = x0
    BY <2>1
  <2> HIDE DEF g
  <2> QED
    BY <2>4, <2>5, <2>6
<1>3. \A m \in 0..n : m \in T
  <2> HIDE DEF T
  <2> QED
    BY <1>1, <1>2, IntervalInduction
<1> QED
  BY <1>3 DEF IsRun

----------------------------------------------------------------------------
(***************************************************************************)
(* Members and injectivity.                                                *)
(***************************************************************************)
LEMMA EmptyFacts ==
    /\ ToSet(<<>>) = {}
    /\ IsInjective(<<>>)
    /\ \A S, s : s \in Seq(S) => (ToSet(s) = {} <=> s = <<>>)
BY DEF ToSet, IsInjective

LEMMA AppendFacts ==
    ASSUME NEW S, NEW s \in Seq(S), NEW x \in S
    PROVE  /\ Append(s, x) \in Seq(S)
           /\ Append(s, x) # <<>>
           /\ Len(Append(s, x)) = Len(s) + 1
           /\ ToSet(Append(s, x)) = ToSet(s) \cup {x}
           /\ IsInjective(s) /\ x \notin ToSet(s) => IsInjective(Append(s, x))
<1> DEFINE t == Append(s, x)
<1>1. /\ t \in Seq(S) /\ Len(t) = Len(s) + 1 /\ DOMAIN t = 1..(Len(s) + 1)
      /\ t[Len(s) + 1] = x
      /\ \A i \in 1..Len(s) : t[i] = s[i]
  OBVIOUS
<1>2. DOMAIN s = 1..Len(s) /\ Len(s) \in Nat
  OBVIOUS
<1> HIDE DEF t
<1>3. ToSet(t) = ToSet(s) \cup {x}
  BY <1>1, <1>2 DEF ToSet
<1>4. ASSUME IsInjective(s), x \notin ToSet(s)
      PROVE  IsInjective(t)
  BY <1>1, <1>2, <1>4 DEF ToSet, IsInjective
<1>5. t # <<>>
  BY <1>1, <1>2
<1> QED
  BY <1>1, <1>3, <1>4, <1>5 DEF t

LEMMA TailFacts ==
    ASSUME NEW S, NEW s \in Seq(S), s # <<>>
    PROVE  /\ Head(s) \in S
           /\ Head(s) \in ToSet(s)
           /\ Tail(s) \in Seq(S)
           /\ Len(Tail(s)) = Len(s) - 1
           /\ ToSet(s) = ToSet(Tail(s)) \cup {Head(s)}
           /\ IsInjective(s) => IsInjective(Tail(s)) /\ Head(s) \notin ToSet(Tail(s))
<1> DEFINE t == Tail(s)
<1>1. /\ t \in Seq(S) /\ Len(t) = Len(s) - 1 /\ DOMAIN t = 1..(Len(s) - 1)
      /\ \A i \in 1..(Len(s) - 1) : t[i] = s[i+1]
  OBVIOUS
<1>2. /\ DOMAIN s = 1..Len(s) /\ Len(s) \in Nat /\ Len(s) >= 1
      /\ Head(s) = s[1] /\ s[1] \in S
  OBVIOUS
<1> HIDE DEF t
<1>3. ToSet(s) \subseteq ToSet(t) \cup {Head(s)}
  <2> SUFFICES ASSUME NEW i \in 1..Len(s), i # 1
               PROVE  s[i] \in ToSet(t)
    BY <1>2 DEF ToSet
  <2>1. i - 1 \in DOMAIN t /\ t[i-1] = s[i]
    BY <1>1, <1>2
  <2> QED
    BY <2>1 DEF ToSet
<1>4. ToSet(t) \cup {Head(s)} \subseteq ToSet(s)
  BY <1>1, <1>2 DEF ToSet
<1>5. ASSUME IsInjective(s)
      PROVE  IsInjective(t) /\ Head(s) \notin ToSet(t)
  <2>1. IsInjective(t)
    BY <1>1, <1>2, <1>5 DEF IsInjective
  <2>2. Head(s) \notin ToSet(t)
    BY <1>1, <1>2, <1>5 DEF IsInjective, ToSet
  <2> QED
    BY <2>1, <2>2
<1> QED
  BY <1>1, <1>2, <1>3, <1>4, <1>5 DEF t

LEMMA TailAppend ==
    ASSUME NEW S, NEW s \in Seq(S), s # <<>>, NEW x \in S
    PROVE  /\ Tail(Append(s, x)) = Append(Tail(s), x)
           /\ Head(Append(s, x)) = Head(s)
OBVIOUS

\* The members of a queue in which nobody stands twice are as many as its length.
LEMMA QueueSize ==
    ASSUME NEW X, NEW q \in Seq(X), IsInjective(q)
    PROVE  IsFiniteSet(ToSet(q)) /\ Cardinality(ToSet(q)) = Len(q)
<1>1. /\ q \in [1..Len(q) -> ToSet(q)] /\ \A x \in ToSet(q) : \E k \in 1..Len(q) : q[k] = x
      /\ Len(q) \in Nat /\ DOMAIN q = 1..Len(q)
  BY DEF ToSet
<1>2. q \in Bijection(1..Len(q), ToSet(q))
  BY <1>1 DEF Bijection, Injection, Surjection, IsInjective
<1>3. IsFiniteSet(1..Len(q)) /\ Cardinality(1..Len(q)) = Len(q)
  <2>1. \A n \in Nat : IsFiniteSet(1..n) /\ Cardinality(1..n) = n
    BY FS_Interval
  <2> QED
    BY <1>1, <2>1
<1> QED
  BY <1>2, <1>3, FS_Bijection DEF ExistsBijection

----------------------------------------------------------------------------
(***************************************************************************)
(* outProc.                                                                *)
(***************************************************************************)

\* f walks along s and leaves out the members of K.
IsWalk(f, s, K, S) ==
    /\ f \in [0..Len(s) -> Seq(S)]
    /\ f[0] = <<>>
    /\ \A i \in 1..Len(s) :
         f[i] = IF s[i] \in K THEN f[i-1] ELSE Append(f[i-1], s[i])

\* The recursion that defines Without has a solution, so Without is its last
\* value.
LEMMA WithoutDef ==
    ASSUME NEW S, NEW s \in Seq(S), NEW K
    PROVE  \E f : IsWalk(f, s, K, S) /\ Without(s, K) = f[Len(s)]
<1> DEFINE n == Len(s)
           X == Seq(S)
           Body(r, i) == IF i = 0 THEN <<>>
                         ELSE IF s[i] \in K THEN r[i-1] ELSE Append(r[i-1], s[i])
           rest == CHOOSE r : r = [i \in 0..n |-> Body(r, i)]
           G == [y \in (1..n) \X X |->
                   IF s[y[1]] \in K THEN y[2] ELSE Append(y[2], s[y[1]])]
<1>1. n \in Nat /\ <<>> \in X /\ \A i \in 1..n : s[i] \in S
  OBVIOUS
<1>2. G \in Steps(n, X)
  BY <1>1 DEF Steps
<1>3. \A i \in 1..n, t \in X : G[<<i, t>>] = IF s[i] \in K THEN t ELSE Append(t, s[i])
  OBVIOUS
<1>4. Without(s, K) = rest[n]
  BY DEF Without
<1> HIDE DEF G, n, X
<1>5. PICK f : IsRun(f, n, X, <<>>, G)
  BY <1>1, <1>2, RecursionExists
<1>5a. f \in [0..n -> X] /\ f[0] = <<>> /\ \A i \in 1..n : f[i] = G[<<i, f[i-1]>>]
  BY <1>5 DEF IsRun
<1>6. ASSUME NEW i \in 1..n
      PROVE  /\ f[i] = IF s[i] \in K THEN f[i-1] ELSE Append(f[i-1], s[i])
             /\ f[i] = Body(f, i)
  <2>1. i - 1 \in 0..n /\ i # 0
    BY <1>1
  <2>2. f[i-1] \in X
    BY <1>5a, <2>1
  <2> QED
    BY <1>3, <1>5a, <2>1, <2>2
<1>7. f = [i \in 0..n |-> Body(f, i)]
  <2>1. f[0] = Body(f, 0)
    BY <1>5a
  <2>2. \A i \in 0..n : i = 0 \/ i \in 1..n
    BY <1>1
  <2> HIDE DEF Body
  <2>3. \A i \in 0..n : f[i] = Body(f, i)
    BY <1>6, <2>1, <2>2
  <2> QED
    BY <1>5a, <2>3
<1>8. rest = [i \in 0..n |-> Body(rest, i)]
  <2> HIDE DEF Body
  <2> QED
    BY <1>7
<1> HIDE DEF rest
<1>9. rest = f
  <2>1. rest[0] = <<>>
    BY <1>1, <1>8
  <2>2. ASSUME NEW i \in 1..n
        PROVE  rest[i] = IF s[i] \in K THEN rest[i-1] ELSE Append(rest[i-1], s[i])
    <3>1. i \in 0..n /\ i # 0
      BY <1>1
    <3>2. rest[i] = Body(rest, i)
      <4> HIDE DEF Body
      <4> QED
        BY <1>8, <3>1
    <3> QED
      BY <3>1, <3>2
  <2> DEFINE T == {i \in 0..n : rest[i] = f[i]}
  <2>4. 0 \in T
    BY <1>1, <1>5a, <2>1
  <2>5. \A i \in 1..n : i - 1 \in T => i \in T
    BY <1>1, <1>6, <2>2
  <2>6. \A i \in 0..n : i \in T
    <3> HIDE DEF T
    <3> QED
      BY <1>1, <2>4, <2>5, IntervalInduction
  <2>7. \A i \in 0..n : rest[i] = f[i]
    BY <2>6
  <2>8. rest = [i \in 0..n |-> rest[i]]
    BY <1>8
  <2> QED
    BY <1>5a, <2>7, <2>8
<1>10. IsWalk(f, s, K, S) /\ Without(s, K) = f[Len(s)]
  BY <1>4, <1>5a, <1>6, <1>9 DEF n, X, IsWalk
<1> QED
  BY <1>10

\* Without removes the members of K and nothing else, and keeps an injective
\* queue injective.
LEMMA WithoutFacts ==
    ASSUME NEW S, NEW s \in Seq(S), NEW K
    PROVE  /\ Without(s, K) \in Seq(S)
           /\ ToSet(Without(s, K)) = ToSet(s) \ K
           /\ IsInjective(s) => IsInjective(Without(s, K))
<1> DEFINE n == Len(s)
           Upto(i) == {s[j] : j \in 1..i}
<1>0. PICK f : IsWalk(f, s, K, S) /\ Without(s, K) = f[Len(s)]
  BY WithoutDef
<1>1. /\ f \in [0..n -> Seq(S)]
      /\ Without(s, K) = f[n]
      /\ f[0] = <<>>
      /\ \A i \in 1..n : f[i] = IF s[i] \in K THEN f[i-1] ELSE Append(f[i-1], s[i])
  BY <1>0 DEF IsWalk
<1>2. n \in Nat /\ DOMAIN s = 1..n /\ \A i \in 1..n : s[i] \in S
  OBVIOUS
<1>3. ToSet(s) = Upto(n)
  BY <1>2 DEF ToSet
<1>4. Upto(0) = {}
  OBVIOUS
<1>5. \A i \in 1..n : Upto(i) = Upto(i-1) \cup {s[i]}
  <2> TAKE i \in 1..n
  <2>1. \A j : j \in 1..i <=> j \in 1..(i-1) \/ j = i
    BY <1>2
  <2> QED
    BY <2>1
<1>6. IsInjective(s) => \A i \in 1..n : s[i] \notin Upto(i-1)
  BY <1>2 DEF IsInjective
<1> HIDE DEF n, Upto
<1> DEFINE T == {i \in 0..n : /\ ToSet(f[i]) = Upto(i) \ K
                              /\ IsInjective(s) => IsInjective(f[i])}
<1>7. 0 \in T
  BY <1>1, <1>2, <1>4, EmptyFacts
<1>8. ASSUME NEW i \in 1..n, i - 1 \in T
      PROVE  i \in T
  <2>1. i \in 0..n /\ i - 1 \in 0..n
    BY <1>2
  <2>2. f[i-1] \in Seq(S) /\ s[i] \in S
    BY <1>1, <1>2, <2>1
  <2>3. CASE s[i] \in K
    <3>1. f[i] = f[i-1] /\ Upto(i) \ K = Upto(i-1) \ K
      BY <1>1, <1>5, <2>3
    <3> QED
      BY <1>8, <2>1, <3>1
  <2>4. CASE s[i] \notin K
    <3>1. f[i] = Append(f[i-1], s[i]) /\ Upto(i) \ K = (Upto(i-1) \ K) \cup {s[i]}
      BY <1>1, <1>5, <2>4
    <3>2. ToSet(f[i-1]) = Upto(i-1) \ K /\ (IsInjective(s) => IsInjective(f[i-1]))
      BY <1>8
    <3>3. ToSet(f[i]) = Upto(i) \ K
      BY <2>2, <3>1, <3>2, AppendFacts
    <3>4. ASSUME IsInjective(s) PROVE IsInjective(f[i])
      <4>1. s[i] \notin ToSet(f[i-1])
        BY <1>6, <3>2, <3>4
      <4> QED
        BY <2>2, <3>1, <3>2, <3>4, <4>1, AppendFacts
    <3> QED
      BY <2>1, <3>3, <3>4
  <2> QED
    BY <2>3, <2>4
<1>9. \A i \in 0..n : i \in T
  <2> HIDE DEF T
  <2> QED
    BY <1>2, <1>7, <1>8, IntervalInduction
<1>10. n \in T /\ n \in 0..n
  BY <1>2, <1>9
<1> QED
  BY <1>1, <1>3, <1>10
----------------------------------------------------------------------------
(***************************************************************************)
(* Semaphores of the support level.                                        *)
(***************************************************************************)

\* The semaphores m, indexed by D, as the nucleus keeps them for the processes
\* X: the value counts the queue (SemCount of Nucleus), and nobody waits twice
\* (Placed and OneQueue of Nucleus).
Counted(m, D, X) ==
    /\ m \in [D -> [val : Int, q : Seq(X)]]
    /\ \A s \in D : Len(m[s].q) = IF m[s].val < 0 THEN -m[s].val ELSE 0
    /\ \A s \in D : IsInjective(m[s].q)
    /\ \A s, u \in D : s # u => ToSet(m[s].q) \cap ToSet(m[u].q) = {}

LEMMA CountedFacts ==
    ASSUME NEW m, NEW D, NEW X, Counted(m, D, X)
    PROVE  /\ DOMAIN m = D
           /\ \A s \in D : m[s].val \in Int /\ m[s].q \in Seq(X)
           /\ \A s \in D : \A p : Waits(m, s, p) => p \in X /\ m[s].val < 0 /\ ~Ready(m, p)
           /\ \A s, u \in D : \A p : Waits(m, s, p) /\ Waits(m, u, p) => s = u
           /\ \A s \in D : m[s].val < 0 => \E p \in X : Waits(m, s, p)
           /\ \A p : Ready(m, p) <=> \A s \in D : ~Waits(m, s, p)
<1>1. DOMAIN m = D
  BY DEF Counted
<1>2. \A s \in D : m[s].val \in Int /\ m[s].q \in Seq(X)
  BY DEF Counted
<1>3. \A p : Ready(m, p) <=> \A s \in D : ~Waits(m, s, p)
  BY <1>1 DEF Ready
<1>4. \A s \in D : ToSet(m[s].q) \subseteq X
  BY <1>2 DEF ToSet
<1>5. ASSUME NEW s \in D
      PROVE  ToSet(m[s].q) = {} <=> ~(m[s].val < 0)
  <2>1. ToSet(m[s].q) = {} <=> m[s].q = <<>>
    BY <1>2, EmptyFacts
  <2>2. m[s].q = <<>> <=> Len(m[s].q) = 0
    BY <1>2
  <2>3. Len(m[s].q) = IF m[s].val < 0 THEN -m[s].val ELSE 0
    BY DEF Counted
  <2> QED
    BY <1>2, <2>1, <2>2, <2>3
<1>6. \A s \in D : \A p : Waits(m, s, p) => p \in X /\ m[s].val < 0 /\ ~Ready(m, p)
  BY <1>3, <1>4, <1>5 DEF Waits
<1>7. \A s, u \in D : \A p : Waits(m, s, p) /\ Waits(m, u, p) => s = u
  BY DEF Waits, Counted
<1>8. \A s \in D : m[s].val < 0 => \E p \in X : Waits(m, s, p)
  BY <1>4, <1>5 DEF Waits
<1> QED
  BY <1>1, <1>2, <1>3, <1>6, <1>7, <1>8

\* Semaphores without waiting processes.
LEMMA CountedInit ==
    ASSUME NEW m, NEW D, NEW X,
           m \in [D -> [val : Nat, q : {<<>>}]]
    PROVE  Counted(m, D, X)
<1>1. \A s \in D : m[s].val \in Nat /\ m[s].q = <<>>
  OBVIOUS
<1>2. m \in [D -> [val : Int, q : Seq(X)]]
  <2>1. {<<>>} \subseteq Seq(X) /\ Nat \subseteq Int
    OBVIOUS
  <2>2. [val : Nat, q : {<<>>}] \subseteq [val : Int, q : Seq(X)]
    BY <2>1
  <2> QED
    BY <2>2
<1>3. Len(<<>>) = 0
  OBVIOUS
<1> QED
  BY <1>1, <1>2, <1>3, EmptyFacts DEF Counted

\* P by a process that does not wait: it waits now if the value was 0 or less.
LEMMA PStep ==
    ASSUME NEW m, NEW D, NEW X, Counted(m, D, X), NEW s \in D, NEW p \in X, Ready(m, p)
    PROVE  /\ Counted(P(m, s, p), D, X)
           /\ P(m, s, p)[s].val = m[s].val - 1
           /\ \A u \in D : u # s => P(m, s, p)[u] = m[u]
           /\ \A u \in D : \A r : Waits(P(m, s, p), u, r)
                                <=> Waits(m, u, r) \/ (u = s /\ r = p /\ m[s].val <= 0)
           /\ \A r : Ready(P(m, s, p), r) <=> Ready(m, r) /\ ~(r = p /\ m[s].val <= 0)
<1> DEFINE n == P(m, s, p)
<1>1. m \in [D -> [val : Int, q : Seq(X)]] /\ m[s].val \in Int /\ m[s].q \in Seq(X)
  BY DEF Counted
<1>2. /\ n \in [D -> [val : Int, q : Seq(X)]]
      /\ n[s].val = m[s].val - 1
      /\ n[s].q = IF m[s].val - 1 < 0 THEN Append(m[s].q, p) ELSE m[s].q
      /\ \A u \in D : u # s => n[u] = m[u]
  BY <1>1 DEF P
<1> HIDE DEF n
<1>3. \A u \in D : p \notin ToSet(m[u].q)
  BY CountedFacts DEF Waits
<1>4. /\ Len(Append(m[s].q, p)) = Len(m[s].q) + 1
      /\ ToSet(Append(m[s].q, p)) = ToSet(m[s].q) \cup {p}
      /\ IsInjective(m[s].q) => IsInjective(Append(m[s].q, p))
  BY <1>1, <1>3, AppendFacts
<1>5. ToSet(n[s].q) = ToSet(m[s].q) \cup (IF m[s].val <= 0 THEN {p} ELSE {})
  BY <1>1, <1>2, <1>4
<1>6. Counted(n, D, X)
  <2>1. \A u \in D : Len(n[u].q) = IF n[u].val < 0 THEN -n[u].val ELSE 0
    <3>1. Len(m[s].q) = IF m[s].val < 0 THEN -m[s].val ELSE 0
      BY DEF Counted
    <3>2. Len(n[s].q) = IF n[s].val < 0 THEN -n[s].val ELSE 0
      BY <1>1, <1>2, <1>4, <3>1
    <3> QED
      BY <1>2, <3>2 DEF Counted
  <2>2. \A u \in D : IsInjective(n[u].q)
    BY <1>2, <1>4 DEF Counted
  <2>3. \A u, v \in D : u # v => ToSet(n[u].q) \cap ToSet(n[v].q) = {}
    <3>1. \A u \in D : ToSet(n[u].q) \subseteq ToSet(m[u].q) \cup {p}
      BY <1>2, <1>5
    <3>2. \A u \in D : u # s => ToSet(n[u].q) = ToSet(m[u].q)
      BY <1>2
    <3>3. \A u, v \in D : u # v => ToSet(m[u].q) \cap ToSet(m[v].q) = {}
      BY DEF Counted
    <3> QED
      BY <1>3, <3>1, <3>2, <3>3
  <2> QED
    BY <1>2, <2>1, <2>2, <2>3 DEF Counted
<1>7. \A u \in D : \A r : Waits(n, u, r) <=> Waits(m, u, r) \/ (u = s /\ r = p /\ m[s].val <= 0)
  BY <1>2, <1>5 DEF Waits
<1>8. \A r : Ready(n, r) <=> Ready(m, r) /\ ~(r = p /\ m[s].val <= 0)
  <2>1. \A r : Ready(n, r) <=> \A u \in D : ~Waits(n, u, r)
    BY <1>6, CountedFacts
  <2>2. \A r : Ready(m, r) <=> \A u \in D : ~Waits(m, u, r)
    BY CountedFacts
  <2> QED
    BY <1>7, <2>1, <2>2
<1> QED
  BY <1>2, <1>6, <1>7, <1>8 DEF n

\* V releases one of the waiting processes, the first, if there are any.
LEMMA VStep ==
    ASSUME NEW m, NEW D, NEW X, Counted(m, D, X), NEW s \in D
    PROVE  /\ Counted(V(m, s), D, X)
           /\ V(m, s)[s].val = m[s].val + 1
           /\ \A u \in D : u # s => V(m, s)[u] = m[u]
           /\ \A u \in D : \A r : Waits(V(m, s), u, r) => Waits(m, u, r)
           /\ \A r : Ready(m, r) => Ready(V(m, s), r)
           /\ m[s].val >= 0 => /\ \A u \in D : \A r : Waits(V(m, s), u, r) <=> Waits(m, u, r)
                               /\ \A r : Ready(V(m, s), r) <=> Ready(m, r)
           /\ m[s].val < 0 =>
                /\ Head(m[s].q) \in X /\ Waits(m, s, Head(m[s].q))
                /\ \A u \in D : \A r : Waits(V(m, s), u, r)
                                     <=> Waits(m, u, r) /\ r # Head(m[s].q)
                /\ \A r : Ready(V(m, s), r) <=> Ready(m, r) \/ r = Head(m[s].q)
<1> DEFINE n == V(m, s)
           h == Head(m[s].q)
<1>1. m \in [D -> [val : Int, q : Seq(X)]] /\ m[s].val \in Int /\ m[s].q \in Seq(X)
  BY DEF Counted
<1>2. Len(m[s].q) = IF m[s].val < 0 THEN -m[s].val ELSE 0
  BY DEF Counted
<1>3. m[s].val < 0 => /\ m[s].q # <<>>
                      /\ h \in X /\ h \in ToSet(m[s].q)
                      /\ Tail(m[s].q) \in Seq(X)
                      /\ Len(Tail(m[s].q)) = Len(m[s].q) - 1
                      /\ ToSet(Tail(m[s].q)) = ToSet(m[s].q) \ {h}
                      /\ IsInjective(Tail(m[s].q))
  <2>1. m[s].val < 0 => m[s].q # <<>>
    BY <1>1, <1>2
  <2>2. IsInjective(m[s].q)
    BY DEF Counted
  <2> QED
    BY <1>1, <2>1, <2>2, TailFacts
<1>4. /\ n \in [D -> [val : Int, q : Seq(X)]]
      /\ n[s].val = m[s].val + 1
      /\ n[s].q = IF m[s].val < 0 THEN Tail(m[s].q) ELSE m[s].q
      /\ \A u \in D : u # s => n[u] = m[u]
  BY <1>1, <1>3 DEF V
<1> HIDE DEF n, h
<1>5. Counted(n, D, X)
  <2>1. \A u \in D : Len(n[u].q) = IF n[u].val < 0 THEN -n[u].val ELSE 0
    <3>1. Len(n[s].q) = IF n[s].val < 0 THEN -n[s].val ELSE 0
      BY <1>1, <1>2, <1>3, <1>4
    <3> QED
      BY <1>4, <3>1 DEF Counted
  <2>2. \A u \in D : IsInjective(n[u].q)
    BY <1>3, <1>4 DEF Counted
  <2>3. \A u, v \in D : u # v => ToSet(n[u].q) \cap ToSet(n[v].q) = {}
    <3>1. \A u \in D : ToSet(n[u].q) \subseteq ToSet(m[u].q)
      BY <1>3, <1>4
    <3>2. \A u, v \in D : u # v => ToSet(m[u].q) \cap ToSet(m[v].q) = {}
      BY DEF Counted
    <3> QED
      BY <3>1, <3>2
  <2> QED
    BY <1>4, <2>1, <2>2, <2>3 DEF Counted
<1>6. /\ \A r : Ready(n, r) <=> \A u \in D : ~Waits(n, u, r)
      /\ \A r : Ready(m, r) <=> \A u \in D : ~Waits(m, u, r)
      /\ \A u, v \in D : \A r : Waits(m, u, r) /\ Waits(m, v, r) => u = v
  BY <1>5, CountedFacts
<1>7. ASSUME m[s].val >= 0
      PROVE  \A u \in D : \A r : Waits(n, u, r) <=> Waits(m, u, r)
  <2>0. n[s].q = m[s].q
    BY <1>1, <1>4, <1>7
  <2>1. \A u \in D : n[u].q = m[u].q
    BY <1>4, <2>0
  <2> QED
    BY <2>1 DEF Waits
<1>8. ASSUME m[s].val < 0
      PROVE  /\ h \in X /\ Waits(m, s, h)
             /\ \A u \in D : \A r : Waits(n, u, r) <=> Waits(m, u, r) /\ r # h
             /\ \A r : Ready(n, r) <=> Ready(m, r) \/ r = h
  <2>1. Waits(m, s, h)
    BY <1>3, <1>8 DEF Waits
  <2>2. \A r : Waits(n, s, r) <=> Waits(m, s, r) /\ r # h
    BY <1>3, <1>4, <1>8 DEF Waits
  <2>3. \A u \in D : \A r : u # s => (Waits(n, u, r) <=> Waits(m, u, r) /\ r # h)
    BY <1>4, <1>6, <2>1, ZenonT(60) DEF Waits
  <2>4. \A u \in D : \A r : Waits(n, u, r) <=> Waits(m, u, r) /\ r # h
    BY <2>2, <2>3
  <2>5. \A r : Ready(n, r) <=> Ready(m, r) \/ r = h
    BY <1>6, <2>1, <2>4
  <2> QED
    BY <1>3, <1>8, <2>1, <2>4, <2>5
<1>9. n[s].val = m[s].val + 1 /\ \A u \in D : u # s => n[u] = m[u]
  BY <1>4
<1>10. m[s].val >= 0 => \A r : Ready(n, r) <=> Ready(m, r)
  BY <1>6, <1>7
<1>11. \A u \in D : \A r : Waits(n, u, r) => Waits(m, u, r)
  BY <1>1, <1>7, <1>8
<1>12. \A r : Ready(m, r) => Ready(n, r)
  BY <1>6, <1>11
<1> QED
  BY <1>5, <1>7, <1>8, <1>9, <1>10, <1>11, <1>12 DEF n, h
=============================================================================

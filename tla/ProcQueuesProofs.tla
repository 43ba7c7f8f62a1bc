-------------------------- MODULE ProcQueuesProofs --------------------------
(***************************************************************************)
(* Theorems about ProcQueues: the links of procq.c and asl.c represent     *)
(* queues and lists, so the counters and the descriptors agree with them,  *)
(* and every routine does to the queues what AbstractQueues says.          *)
(***************************************************************************)
EXTENDS ProcQueues, QueueLemmas

----------------------------------------------------------------------------
(***************************************************************************)
(* A place is taken out of a sequence.                                     *)
(***************************************************************************)
Cut(s, n) == [i \in 1..(Len(s) - 1) |-> IF i < n THEN s[i] ELSE s[i+1]]

LEMMA CutFacts ==
    ASSUME NEW S, NEW s \in Seq(S), NEW n \in 1..Len(s)
    PROVE  /\ Cut(s, n) \in Seq(S)
           /\ Len(Cut(s, n)) = Len(s) - 1
           /\ \A i \in 1..(Len(s) - 1) : Cut(s, n)[i] = IF i < n THEN s[i] ELSE s[i+1]
<1>1. Len(s) \in Nat /\ Len(s) - 1 \in Nat
  OBVIOUS
<1>2. \A i \in 1..(Len(s) - 1) : (IF i < n THEN s[i] ELSE s[i+1]) \in S
  OBVIOUS
<1>3. Cut(s, n) \in Seq(S)
  BY <1>1, <1>2 DEF Cut
<1>4. Len(Cut(s, n)) = Len(s) - 1
  BY <1>1, <1>3 DEF Cut
<1> QED
  BY <1>3, <1>4 DEF Cut

\* What is at another place is still there, at its new position.
LEMMA CutKeeps ==
    ASSUME NEW S, NEW s \in Seq(S), NEW n \in 1..Len(s), NEW i \in 1..Len(s), i # n
    PROVE  \E j \in 1..(Len(s) - 1) : Cut(s, n)[j] = s[i] /\ j = IF i < n THEN i ELSE i - 1
<1>1. Len(s) \in Nat
  OBVIOUS
<1>2. CASE i < n
  <2>1. i \in 1..(Len(s) - 1) /\ Cut(s, n)[i] = s[i]
    BY <1>1, <1>2 DEF Cut
  <2> QED
    BY <1>2, <2>1
<1>3. CASE i > n
  <2>1. i - 1 \in 1..(Len(s) - 1) /\ Cut(s, n)[i-1] = s[(i-1)+1]
    BY <1>1, <1>3 DEF Cut
  <2> QED
    BY <1>1, <1>3, <2>1
<1> QED
  BY <1>1, <1>2, <1>3

\* Without, for a member of an injective sequence, takes out its place.
LEMMA WithoutCut ==
    ASSUME NEW S, NEW s \in Seq(S), NEW n \in 1..Len(s),
           \A i \in 1..Len(s) : s[i] = s[n] => i = n
    PROVE  Without(s, {s[n]}) = Cut(s, n)
<1> DEFINE K == {s[n]}
<1>0. PICK f : IsWalk(f, s, K, S) /\ Without(s, K) = f[Len(s)]
  BY WithoutDef
<1>1. Len(s) \in Nat /\ \A i \in 1..Len(s) : s[i] \in S
  OBVIOUS
<1>2. /\ f \in [0..Len(s) -> Seq(S)] /\ f[0] = <<>>
      /\ \A i \in 1..Len(s) : f[i] = IF i = n THEN f[i-1] ELSE Append(f[i-1], s[i])
  BY <1>0 DEF IsWalk
<1> DEFINE Size(i) == IF i < n THEN i ELSE i - 1
           Good(i) == /\ Len(f[i]) = Size(i)
                      /\ \A j \in 1..Size(i) : f[i][j] = IF j < n THEN s[j] ELSE s[j+1]
           T == {i \in 0..Len(s) : Good(i)}
<1>3. 0 \in T
  BY <1>1, <1>2
<1>4. ASSUME NEW i \in 1..Len(s), i - 1 \in T
      PROVE  i \in T
  <2>1. f[i-1] \in Seq(S) /\ Good(i-1) /\ s[i] \in S
    BY <1>1, <1>2, <1>4
  <2>2. CASE i = n
    <3>1. f[i] = f[i-1] /\ Size(i) = Size(i-1)
      BY <1>1, <1>2, <2>2
    <3> QED
      BY <1>1, <2>1, <3>1
  <2>3. CASE i # n
    <3>1. f[i] = Append(f[i-1], s[i])
      BY <1>2, <2>3
    <3>2. /\ Len(f[i]) = Len(f[i-1]) + 1
          /\ f[i][Len(f[i-1]) + 1] = s[i]
          /\ \A j \in 1..Len(f[i-1]) : f[i][j] = f[i-1][j]
      BY <2>1, <3>1
    <3>3. Size(i) = Size(i-1) + 1 /\ Size(i-1) \in Nat
      BY <1>1, <2>3
    <3>4. s[i] = IF Size(i) < n THEN s[Size(i)] ELSE s[Size(i)+1]
      BY <1>1, <2>3
    <3>5. ASSUME NEW j \in 1..Size(i)
          PROVE  f[i][j] = IF j < n THEN s[j] ELSE s[j+1]
      <4>1. CASE j = Size(i)
        BY <2>1, <3>2, <3>3, <3>4, <4>1
      <4>2. CASE j # Size(i)
        <5>1. j \in 1..Size(i-1)
          BY <3>3, <4>2
        <5> QED
          BY <2>1, <3>2, <5>1
      <4> QED
        BY <4>1, <4>2
    <3>6. Len(f[i]) = Size(i)
      BY <2>1, <3>2, <3>3
    <3> QED
      BY <3>5, <3>6
  <2> QED
    BY <2>2, <2>3
<1>5. \A i \in 0..Len(s) : i \in T
  <2> HIDE DEF T
  <2> QED
    BY <1>1, <1>3, <1>4, IntervalInduction
<1>6. f[Len(s)] \in Seq(S) /\ Good(Len(s)) /\ Size(Len(s)) = Len(s) - 1
  <2>1. Len(s) \in 0..Len(s) /\ ~(Len(s) < n)
    BY <1>1
  <2>2. Good(Len(s))
    BY <1>5, <2>1
  <2> QED
    BY <1>2, <2>1, <2>2
<1>7. /\ Cut(s, n) \in Seq(S) /\ Len(Cut(s, n)) = Len(s) - 1
      /\ \A i \in 1..(Len(s) - 1) : Cut(s, n)[i] = IF i < n THEN s[i] ELSE s[i+1]
  BY CutFacts
<1>8. f[Len(s)] = Cut(s, n)
  <2>1. Len(f[Len(s)]) = Len(Cut(s, n))
    BY <1>6, <1>7
  <2>2. \A i \in 1..Len(f[Len(s)]) : f[Len(s)][i] = Cut(s, n)[i]
    BY <1>6, <1>7
  <2> HIDE DEF Good
  <2> QED
    BY <1>6, <1>7, <2>1, <2>2
<1> QED
  BY <1>0, <1>8

\* A process that is not in a queue is not taken out of it.
LEMMA WithoutNone ==
    ASSUME NEW S, NEW s \in Seq(S), NEW p, \A i \in 1..Len(s) : s[i] # p
    PROVE  Without(s, {p}) = s
<1>0. PICK f : IsWalk(f, s, {p}, S) /\ Without(s, {p}) = f[Len(s)]
  BY WithoutDef
<1>1. Len(s) \in Nat /\ \A i \in 1..Len(s) : s[i] \in S
  OBVIOUS
<1>2. /\ f \in [0..Len(s) -> Seq(S)] /\ f[0] = <<>>
      /\ \A i \in 1..Len(s) : f[i] = Append(f[i-1], s[i])
  BY <1>0 DEF IsWalk
<1> DEFINE Good(i) == Len(f[i]) = i /\ \A j \in 1..i : f[i][j] = s[j]
           T == {i \in 0..Len(s) : Good(i)}
<1>3. 0 \in T
  BY <1>1, <1>2
<1>4. ASSUME NEW i \in 1..Len(s), i - 1 \in T
      PROVE  i \in T
  <2>0. i - 1 \in 0..Len(s) /\ i - 1 \in Nat
    BY <1>1
  <2>1. f[i-1] \in Seq(S) /\ Good(i-1) /\ s[i] \in S /\ i - 1 \in Nat
    BY <1>1, <1>2, <1>4, <2>0
  <2>1a. f[i] = Append(f[i-1], s[i])
    BY <1>2
  <2>2. /\ Len(f[i]) = Len(f[i-1]) + 1
        /\ f[i][Len(f[i-1]) + 1] = s[i]
        /\ \A j \in 1..Len(f[i-1]) : f[i][j] = f[i-1][j]
    <3> HIDE DEF Good
    <3> QED
      BY <2>1, <2>1a
  <2>3. \A j \in 1..i : j = i \/ j \in 1..(i-1)
    BY <1>1
  <2> QED
    BY <1>1, <2>1, <2>2, <2>3
<1>5. \A i \in 0..Len(s) : i \in T
  <2> HIDE DEF T
  <2> QED
    BY <1>1, <1>3, <1>4, IntervalInduction
<1>6. f[Len(s)] \in Seq(S) /\ Good(Len(s))
  <2>1. Len(s) \in 0..Len(s)
    BY <1>1
  <2>2. f[Len(s)] \in Seq(S)
    BY <1>2, <2>1
  <2>3. Good(Len(s))
    <3> HIDE DEF Good
    <3> QED
      BY <1>5, <2>1
  <2> QED
    BY <2>2, <2>3
<1> QED
  BY <1>0, <1>1, <1>6

----------------------------------------------------------------------------
(***************************************************************************)
(* The lists.  c is the list that starts at head and goes on along next.   *)
(***************************************************************************)
IsList(c, head, next, S) ==
    /\ c \in Seq(S)
    /\ \A i, j \in 1..Len(c) : c[i] = c[j] => i = j
    /\ head = IF c = <<>> THEN ENULL ELSE c[1]
    /\ \A i \in 1..Len(c) : next[c[i]] = IF i = Len(c) THEN ENULL ELSE c[i+1]

\* A list whose nodes are different is no longer than the table.
LEMMA ShortList ==
    ASSUME NEW n \in Nat, NEW c \in Seq(1..n), \A i, j \in 1..Len(c) : c[i] = c[j] => i = j
    PROVE  Len(c) \in 0..n
<1>1. Len(c) \in Nat /\ DOMAIN c = 1..Len(c) /\ c \in [1..Len(c) -> 1..n]
  OBVIOUS
<1>2. /\ IsFiniteSet(1..n) /\ Cardinality(1..n) = n
      /\ IsFiniteSet(1..Len(c)) /\ Cardinality(1..Len(c)) = Len(c)
  <2>1. \A m \in Nat : IsFiniteSet(1..m) /\ Cardinality(1..m) = m
    <3> TAKE m \in Nat
    <3>1. 1 \in Int /\ m \in Int
      OBVIOUS
    <3>2. IsFiniteSet(1..m) /\ Cardinality(1..m) = IF 1 > m THEN 0 ELSE m - 1 + 1
      BY <3>1, FS_Interval
    <3> QED
      BY <3>2
  <2> QED
    BY <1>1, <2>1
<1>3. c \in Injection(1..Len(c), 1..n)
  BY <1>1 DEF Injection, IsInjective
<1>4. Cardinality(1..Len(c)) <= Cardinality(1..n)
  BY <1>2, <1>3, FS_Injection
<1> QED
  BY <1>1, <1>2, <1>4

\* The walk along the links finds the list.
LEMMA ChainIsList ==
    ASSUME NEW n \in Nat, NEW c, NEW head, NEW next, IsList(c, head, next, 1..n)
    PROVE  Chain(head, next, n) = c
<1> DEFINE Node(seen) == IF seen = <<>> THEN head ELSE next[Last(seen)]
           Step(seen) == IF Node(seen) = ENULL THEN seen ELSE Append(seen, Node(seen))
           Body(r, i) == IF i = 0 THEN <<>> ELSE Step(r[i-1])
           upto == CHOOSE r : r = [i \in 0..n |-> Body(r, i)]
           f == [i \in 0..n |-> SubSeq(c, 1, IF i <= Len(c) THEN i ELSE Len(c))]
<1>1. c \in Seq(1..n) /\ Len(c) \in 0..n /\ \A i \in 1..Len(c) : c[i] \in 1..n /\ c[i] # ENULL
  BY ShortList DEF IsList, ENULL
<1>2. Chain(head, next, n) = upto[n]
  BY DEF Chain
<1>3. f[0] = <<>> /\ f[n] = c
  BY <1>1
<1>4. ASSUME NEW i \in 1..n
      PROVE  f[i] = Step(f[i-1])
  <2>0. i - 1 \in 0..n /\ i \in 0..n
    OBVIOUS
  <2>1. CASE i <= Len(c)
    <3>1. f[i] = SubSeq(c, 1, i) /\ f[i-1] = SubSeq(c, 1, i-1)
      BY <1>1, <2>0, <2>1
    <3> HIDE DEF f
    <3>2. Node(f[i-1]) = c[i]
      <4>1. CASE i = 1
        <5>1. f[i-1] = <<>> /\ c # <<>>
          BY <1>1, <2>1, <3>1, <4>1
        <5> QED
          BY <4>1, <5>1 DEF IsList
      <4>2. CASE i # 1
        <5>1. i - 1 \in 1..Len(c) /\ i - 1 # Len(c) /\ (i-1)+1 = i
          BY <1>1, <2>1, <4>2
        <5>2. f[i-1] # <<>> /\ Last(f[i-1]) = c[i-1]
          <6>1. /\ SubSeq(c, 1, i-1) \in Seq(1..n) /\ Len(SubSeq(c, 1, i-1)) = i - 1
                /\ SubSeq(c, 1, i-1)[i-1] = c[i-1]
            BY <1>1, <5>1
          <6> QED
            BY <3>1, <5>1, <6>1 DEF Last
        <5>3. next[c[i-1]] = c[i]
          BY <5>1 DEF IsList
        <5> QED
          BY <5>2, <5>3
      <4> QED
        BY <4>1, <4>2
    <3>3. SubSeq(c, 1, i) = Append(SubSeq(c, 1, i-1), c[i])
      BY <1>1, <2>1
    <3>4. c[i] # ENULL
      BY <1>1, <2>1
    <3> HIDE DEF Node
    <3> QED
      BY <3>1, <3>2, <3>3, <3>4
  <2>2. CASE i > Len(c)
    <3>1. f[i] = c /\ f[i-1] = c
      <4>1. f[i] = SubSeq(c, 1, Len(c)) /\ f[i-1] = SubSeq(c, 1, Len(c))
        BY <1>1, <2>0, <2>2
      <4> QED
        BY <1>1, <4>1
    <3> HIDE DEF f
    <3>2. Node(c) = ENULL
      <4>1. CASE c = <<>>
        BY <4>1 DEF IsList
      <4>2. CASE c # <<>>
        <5>1. Len(c) \in 1..Len(c) /\ Last(c) = c[Len(c)]
          BY <1>1, <4>2 DEF Last
        <5> QED
          BY <4>2, <5>1 DEF IsList
      <4> QED
        BY <4>1, <4>2
    <3> HIDE DEF Node
    <3> QED
      BY <3>1, <3>2
  <2>3. i <= Len(c) \/ i > Len(c)
    BY <1>1
  <2> HIDE DEF f, Step
  <2> QED
    BY <2>1, <2>2, <2>3
<1>5. f = [i \in 0..n |-> Body(f, i)]
  <2>1. \A i \in 0..n : i = 0 \/ i \in 1..n
    OBVIOUS
  <2>2. \A i \in 0..n : f[i] = Body(f, i)
    <3> HIDE DEF f, Step
    <3> QED
      BY <1>3, <1>4, <2>1
  <2>3. f = [i \in 0..n |-> f[i]]
    OBVIOUS
  <2> HIDE DEF f, Body
  <2> QED
    BY <2>2, <2>3
<1> HIDE DEF f
<1>6. upto = [i \in 0..n |-> Body(upto, i)]
  <2> HIDE DEF Body
  <2> QED
    BY <1>5
<1> HIDE DEF upto, Step
<1> DEFINE T == {i \in 0..n : upto[i] = f[i]}
<1>7. 0 \in T
  BY <1>3, <1>6
<1>8. \A i \in 1..n : i - 1 \in T => i \in T
  BY <1>4, <1>6
<1>9. \A i \in 0..n : i \in T
  <2> HIDE DEF T
  <2> QED
    BY <1>7, <1>8, IntervalInduction
<1> QED
  BY <1>2, <1>3, <1>9

----------------------------------------------------------------------------
(***************************************************************************)
(* The rings.  r is the ring with tail tp: a place's link leads to the     *)
(* next place, the tail's to the head, and no process has two places.      *)
(***************************************************************************)
Place == [next : Proc, index : Slot]
At(L, x) == L[x.next][x.index]

IsRing(r, tp, L) ==
    /\ r \in Seq(Place)
    /\ tp = IF r = <<>> THEN None ELSE r[Len(r)]
    /\ \A i \in 1..Len(r) : At(L, r[i]) = IF i = Len(r) THEN r[1] ELSE r[i+1]
    /\ \A i, j \in 1..Len(r) : r[i].next = r[j].next => i = j

LEMMA NoneIsNoPlace == None \notin Place /\ \A x \in Place : x.next \in Proc /\ x.next # ENULL
                                                          /\ x.index \in Slot /\ x.index # ENULL
<1>1. \A x \in Place : x.next \in Proc /\ x.index \in Slot
  BY DEF Place
<1>2. ENULL \notin Proc /\ ENULL \notin Slot
  BY TableAssumption DEF ENULL, Proc, Slot
<1> QED
  BY <1>1, <1>2 DEF None

\* The walk along a ring meets its places in order, and no others.
LEMMA RingWalk ==
    ASSUME NEW r, NEW tp, NEW L, IsRing(r, tp, L)
    PROVE  /\ Len(r) \in 0..MAXPROC
           /\ Ring(L, tp)[0] = tp
           /\ \A n \in 1..Len(r) : Ring(L, tp)[n] = r[n]
           /\ \A n \in 0..MAXPROC : IF r = <<>> THEN Ring(L, tp)[n] = None
                                    ELSE \E i \in 1..Len(r) : Ring(L, tp)[n] = r[i]
<1> DEFINE X == IF r = <<>> THEN {None} ELSE {r[i] : i \in 1..Len(r)}
           Step(prev) == IF prev = None THEN None ELSE L[prev.next][prev.index]
           Body(g, n) == IF n = 0 THEN tp ELSE Step(g[n-1])
           at == CHOOSE g : g = [n \in 0..MAXPROC |-> Body(g, n)]
           G == [y \in (1..MAXPROC) \X X |-> Step(y[2])]
<1>0. MAXPROC \in Nat
  BY TableAssumption
<1>1. Len(r) \in Nat /\ r \in Seq(Place) /\ (r # <<>> => Len(r) \in 1..Len(r))
  BY DEF IsRing
<1>2. Len(r) \in 0..MAXPROC
  <2> DEFINE c == [i \in 1..Len(r) |-> r[i].next]
  <2>0. \A i \in 1..Len(r) : r[i].next \in 1..MAXPROC
    <3>1. \A i \in 1..Len(r) : r[i] \in Place
      BY <1>1
    <3> QED
      BY <3>1, NoneIsNoPlace DEF Proc
  <2>1. c \in Seq(1..MAXPROC) /\ Len(c) = Len(r)
    BY <1>1, <2>0
  <2>2. \A i, j \in 1..Len(c) : c[i] = c[j] => i = j
    BY <2>1 DEF IsRing
  <2> HIDE DEF c
  <2> QED
    BY <1>0, <2>1, <2>2, ShortList
<1>3. tp \in X
  BY <1>1 DEF IsRing
<1>4. \A i \in 1..Len(r) : Step(r[i]) = IF i = Len(r) THEN r[1] ELSE r[i+1]
  BY <1>1, NoneIsNoPlace DEF IsRing, At
<1>5. \A x \in X : Step(x) \in X
  <2>1. CASE r = <<>>
    BY <2>1
  <2>2. CASE r # <<>>
    <3> SUFFICES ASSUME NEW i \in 1..Len(r) PROVE Step(r[i]) \in X
      BY <2>2
    <3>1. 1 \in 1..Len(r) /\ (i # Len(r) => i + 1 \in 1..Len(r))
      BY <1>1
    <3> HIDE DEF Step
    <3> QED
      BY <1>4, <2>2, <3>1
  <2> QED
    BY <2>1, <2>2
<1> HIDE DEF X, Step
<1>6. G \in Steps(MAXPROC, X)
  BY <1>5 DEF Steps
<1>7. \A i \in 1..MAXPROC, x \in X : G[<<i, x>>] = Step(x)
  OBVIOUS
<1> HIDE DEF G
<1>8. PICK f : IsRun(f, MAXPROC, X, tp, G)
  BY <1>0, <1>3, <1>6, RecursionExists
<1>9. f \in [0..MAXPROC -> X] /\ f[0] = tp /\ \A n \in 1..MAXPROC : f[n] = Step(f[n-1])
  <2>1. f \in [0..MAXPROC -> X] /\ f[0] = tp /\ \A n \in 1..MAXPROC : f[n] = G[<<n, f[n-1]>>]
    BY <1>8 DEF IsRun
  <2>2. \A n \in 1..MAXPROC : n - 1 \in 0..MAXPROC
    BY <1>0
  <2>3. \A n \in 1..MAXPROC : f[n-1] \in X
    BY <2>1, <2>2
  <2> QED
    BY <1>7, <2>1, <2>3
<1>10. f = [n \in 0..MAXPROC |-> Body(f, n)]
  <2>1. \A n \in 0..MAXPROC : n = 0 \/ n \in 1..MAXPROC
    BY <1>0
  <2>2. \A n \in 0..MAXPROC : f[n] = Body(f, n)
    BY <1>9, <2>1
  <2> HIDE DEF Body
  <2> QED
    BY <1>9, <2>2
<1>11. at = [n \in 0..MAXPROC |-> Body(at, n)]
  <2> HIDE DEF Body
  <2> QED
    BY <1>10
<1>12. Ring(L, tp) = at
  BY DEF Ring, Step
<1> HIDE DEF at
<1> DEFINE T == {n \in 0..MAXPROC : at[n] = f[n]}
<1>13. 0 \in T
  BY <1>0, <1>9, <1>11
<1>14. \A n \in 1..MAXPROC : n - 1 \in T => n \in T
  BY <1>0, <1>9, <1>11
<1>15. \A n \in 0..MAXPROC : n \in T
  <2> HIDE DEF T
  <2> QED
    BY <1>0, <1>13, <1>14, IntervalInduction
<1>16. \A n \in 0..MAXPROC : at[n] = f[n] /\ f[n] \in X
  BY <1>9, <1>15
<1>17. \A n \in 1..Len(r) : f[n] = r[n]
  <2> DEFINE U == {n \in 0..Len(r) : n = 0 \/ f[n] = r[n]}
  <2>1. 0 \in U
    BY <1>1
  <2>2. ASSUME NEW n \in 1..Len(r), n - 1 \in U PROVE n \in U
    <3>1. n \in 1..MAXPROC /\ f[n] = Step(f[n-1])
      BY <1>0, <1>2, <1>9
    <3>2. CASE n = 1
      <4>1. f[0] = r[Len(r)] /\ Len(r) \in 1..Len(r)
        BY <1>1, <1>9, <2>2 DEF IsRing
      <4>2. Step(r[Len(r)]) = r[1]
        BY <1>4, <4>1
      <4> QED
        BY <1>1, <3>1, <3>2, <4>1, <4>2
    <3>3. CASE n # 1
      <4>1. n - 1 \in 1..Len(r) /\ n - 1 # Len(r) /\ (n-1)+1 = n
        BY <1>1, <3>3
      <4>2. f[n-1] = r[n-1]
        BY <2>2, <3>3, <4>1
      <4>3. Step(r[n-1]) = r[n]
        BY <1>4, <4>1
      <4> QED
        BY <1>1, <3>1, <4>2, <4>3
    <3> QED
      BY <3>2, <3>3
  <2>3. \A n \in 0..Len(r) : n \in U
    <3> HIDE DEF U
    <3> QED
      BY <1>1, <2>1, <2>2, IntervalInduction
  <2> QED
    BY <2>3
<1>18. \A n \in 1..Len(r) : n \in 0..MAXPROC
  BY <1>0, <1>2
<1>19. \A n \in 0..MAXPROC : IF r = <<>> THEN at[n] = None ELSE \E i \in 1..Len(r) : at[n] = r[i]
  BY <1>16 DEF X
<1>20. at[0] = tp
  BY <1>0, <1>9, <1>16
<1>21. \A n \in 1..Len(r) : at[n] = r[n]
  BY <1>16, <1>17, <1>18
<1> QED
  BY <1>2, <1>12, <1>19, <1>20, <1>21

\* The processes of a ring.
Procs(r) == [i \in 1..Len(r) |-> r[i].next]

LEMMA ProcsFacts ==
    ASSUME NEW r \in Seq(Place)
    PROVE  /\ Procs(r) \in Seq(Proc)
           /\ Len(Procs(r)) = Len(r)
           /\ \A i \in 1..Len(r) : Procs(r)[i] = r[i].next
           /\ \A i \in 1..Len(r) : r[i] \in Place
           /\ Len(r) \in Nat
           /\ Procs(r) = <<>> <=> r = <<>>
<1>1. Len(r) \in Nat /\ \A i \in 1..Len(r) : r[i] \in Place
  OBVIOUS
<1>2. \A i \in 1..Len(r) : r[i].next \in Proc
  BY <1>1, NoneIsNoPlace
<1>3. Procs(r) \in Seq(Proc) /\ Len(Procs(r)) = Len(r) /\ \A i \in 1..Len(r) : Procs(r)[i] = r[i].next
  BY <1>1, <1>2 DEF Procs
<1>4. Procs(r) = <<>> <=> r = <<>>
  BY <1>3
<1> QED
  BY <1>1, <1>3, <1>4

LEMMA MembersAre ==
    ASSUME NEW r, NEW tp, NEW L, IsRing(r, tp, L)
    PROVE  Members(L, tp) = Procs(r)
<1> DEFINE at == Ring(L, tp)
           ends == {n \in 1..MAXPROC : at[n] = tp}
<1>1. r \in Seq(Place) /\ Len(r) \in Nat /\ MAXPROC \in Nat
  BY TableAssumption DEF IsRing
<1>2. CASE r = <<>>
  <2>1. tp = None /\ Procs(r) = <<>>
    BY <1>2, ProcsFacts DEF IsRing
  <2> QED
    BY <2>1 DEF Members
<1>3. CASE r # <<>>
  <2>1. tp = r[Len(r)] /\ Len(r) \in 1..Len(r) /\ tp # None
    BY <1>1, <1>3, ProcsFacts, NoneIsNoPlace DEF IsRing
  <2>2. Len(r) \in 1..MAXPROC /\ \A n \in 1..Len(r) : at[n] = r[n]
    BY <1>1, <2>1, RingWalk
  <2>3. Len(r) \in ends
    BY <2>1, <2>2
  <2>4. \A n \in ends : Len(r) <= n
    <3> SUFFICES ASSUME NEW n \in ends, n < Len(r) PROVE FALSE
      BY <1>1
    <3>1. n \in 1..Len(r) /\ at[n] = tp
      BY <1>1
    <3> HIDE DEF ends, at
    <3>2. r[n] = r[Len(r)]
      BY <2>1, <2>2, <3>1
    <3>3. n = Len(r)
      BY <2>1, <3>1, <3>2 DEF IsRing
    <3> QED
      BY <1>1, <3>3
  <2>5. \A n \in ends : n \in Nat
    BY <1>1
  <2> DEFINE len == CHOOSE n \in ends : \A m \in ends : n <= m
  <2>6. len = Len(r)
    <3> HIDE DEF ends
    <3>1. len \in ends /\ \A m \in ends : len <= m
      BY <2>3, <2>4
    <3>2. len <= Len(r) /\ Len(r) <= len /\ len \in Nat
      BY <2>3, <2>4, <2>5, <3>1
    <3> HIDE DEF len
    <3> QED
      BY <1>1, <3>2
  <2>7. Members(L, tp) = [n \in 1..len |-> at[n].next]
    BY <2>1, <2>3 DEF Members
  <2> HIDE DEF at, len
  <2> QED
    BY <2>2, <2>6, <2>7 DEF Procs
<1> QED
  BY <1>2, <1>3

LEMMA InRingIs ==
    ASSUME NEW r, NEW tp, IsRing(r, tp, p_link), NEW p \in Proc
    PROVE  InRing(tp, p) <=> \E n \in 1..Len(r) : r[n].next = p
<1>1. r \in Seq(Place) /\ MAXPROC \in Nat
  BY TableAssumption DEF IsRing
<1>2. Len(r) \in 0..MAXPROC
  BY RingWalk
<1>3. \A n \in 1..Len(r) : n \in 1..MAXPROC /\ Ring(p_link, tp)[n] = r[n]
  BY <1>1, <1>2, RingWalk
<1>4. \A n \in 1..MAXPROC : IF r = <<>> THEN Ring(p_link, tp)[n] = None
                            ELSE \E i \in 1..Len(r) : Ring(p_link, tp)[n] = r[i]
  <2>1. \A n \in 1..MAXPROC : n \in 0..MAXPROC
    BY <1>1
  <2> QED
    BY <2>1, RingWalk
<1>5. None.next # p
  BY TableAssumption DEF None, ENULL, Proc
<1>6. ASSUME InRing(tp, p) PROVE \E n \in 1..Len(r) : r[n].next = p
  BY <1>4, <1>5, <1>6 DEF InRing
<1>7. ASSUME NEW n \in 1..Len(r), r[n].next = p PROVE InRing(tp, p)
  BY <1>3, <1>7 DEF InRing
<1> QED
  BY <1>6, <1>7

----------------------------------------------------------------------------
(***************************************************************************)
(* The links as a whole.  R[k] is the ring of queue k, with tail T[k]; F   *)
(* are the free processes.  A link is in one ring, or it is None; a free   *)
(* process uses no link but the first.                                     *)
(***************************************************************************)
Queue == {"running_queue"} \cup Sem
Link == [next : Proc \cup {ENULL}, index : Slot \cup {ENULL}]
Links == [Proc -> [Slot -> Link]]
Rings == [Queue -> Seq(Place)]

Linked(L, T, R, F) ==
    /\ L \in Links
    /\ F \in SUBSET Proc
    /\ T \in [Queue -> Place \cup {None}]
    /\ R \in [Queue -> Seq(Place)]
    /\ \A k \in Queue : IsRing(R[k], T[k], L)
    /\ \A k, l \in Queue : \A i \in 1..Len(R[k]), j \in 1..Len(R[l]) :
          R[k][i] = R[l][j] => k = l
    /\ \A k \in Queue : \A i \in 1..Len(R[k]) : R[k][i].next \notin F
    /\ \A x \in Place : x.next \notin F =>
          At(L, x) = None \/ \E k \in Queue : \E i \in 1..Len(R[k]) : R[k][i] = x
    /\ \A x \in Place : x.next \in F /\ x.index # 0 => At(L, x) = None

\* The links behind the places of rings other than the changed one.
LEMMA RingKept ==
    ASSUME NEW r, NEW tp, NEW L, NEW L2, IsRing(r, tp, L),
           \A i \in 1..Len(r) : At(L2, r[i]) = At(L, r[i])
    PROVE  IsRing(r, tp, L2)
BY DEF IsRing

\* insertProc puts a place at the end of a ring.  y is the place, that has
\* not been in use, and its process is not in the ring.
LEMMA Joined ==
    ASSUME NEW L, NEW T, NEW R, NEW F, Linked(L, T, R, F), NEW k \in Queue,
           NEW y \in Place, y.next \notin F, At(L, y) \notin Place,
           \A i \in 1..Len(R[k]) : R[k][i].next # y.next,
           NEW L2 \in Links,
           \A x \in Place : At(L2, x) =
              IF x = y THEN IF R[k] = <<>> THEN y ELSE R[k][1]
              ELSE IF x = T[k] THEN y ELSE At(L, x)
    PROVE  Linked(L2, [T EXCEPT ![k] = y], [R EXCEPT ![k] = Append(@, y)], F)
<1> DEFINE T2 == [T EXCEPT ![k] = y]
           R2 == [R EXCEPT ![k] = Append(@, y)]
           n == Len(R[k])
           r2 == Append(R[k], y)
<1>1. /\ R \in [Queue -> Seq(Place)] /\ T \in [Queue -> Place \cup {None}]
      /\ F \in SUBSET Proc
      /\ \A l \in Queue : IsRing(R[l], T[l], L)
      /\ \A l \in Queue : R[l] \in Seq(Place) /\ Len(R[l]) \in Nat
      /\ \A l \in Queue : \A i \in 1..Len(R[l]) : R[l][i] \in Place
  BY DEF Linked
<1>2. /\ r2 \in Seq(Place) /\ Len(r2) = n + 1 /\ r2[n+1] = y /\ r2 # <<>>
      /\ \A i \in 1..n : r2[i] = R[k][i]
  <2>1. R[k] \in Seq(Place) /\ n \in Nat
    BY <1>1
  <2> QED
    BY <2>1
<1>3. /\ T2 \in [Queue -> Place \cup {None}] /\ R2 \in [Queue -> Seq(Place)]
      /\ T2[k] = y /\ R2[k] = r2
      /\ \A l \in Queue : l # k => T2[l] = T[l] /\ R2[l] = R[l]
  BY <1>1, <1>2
<1>4. \A l \in Queue : \A i \in 1..Len(R[l]) : R[l][i] # y
  <2> SUFFICES ASSUME NEW l \in Queue, NEW i \in 1..Len(R[l]), R[l][i] = y PROVE FALSE
    OBVIOUS
  <2>1. At(L, R[l][i]) = IF i = Len(R[l]) THEN R[l][1] ELSE R[l][i+1]
    BY <1>1 DEF IsRing
  <2>2. At(L, R[l][i]) \in Place
    <3>1. 1 \in 1..Len(R[l]) /\ (i # Len(R[l]) => i + 1 \in 1..Len(R[l]))
      BY <1>1
    <3> QED
      BY <1>1, <2>1, <3>1
  <2> QED
    BY <2>2
<1>5. \A l \in Queue : \A i \in 1..Len(R[l]), j \in 1..Len(R[k]) : R[l][i] = R[k][j] => l = k
  BY DEF Linked
<1>6. T[k] = IF R[k] = <<>> THEN None ELSE R[k][n]
  BY <1>1 DEF IsRing
<1> HIDE DEF T2, R2, r2
<1>7. ASSUME NEW l \in Queue PROVE IsRing(R2[l], T2[l], L2)
  <2>1. CASE l # k
    <3>1. \A i \in 1..Len(R[l]) : R[l][i] # y /\ R[l][i] # T[k] /\ R[l][i] \in Place
      <4> TAKE i \in 1..Len(R[l])
      <4>1. R[l][i] # y /\ R[l][i] \in Place
        BY <1>1, <1>4
      <4>2. CASE R[k] = <<>>
        BY <1>6, <4>1, <4>2, NoneIsNoPlace
      <4>3. CASE R[k] # <<>>
        <5>1. n \in 1..Len(R[k])
          BY <1>1, <4>3
        <5> QED
          BY <1>5, <1>6, <2>1, <4>1, <4>3, <5>1
      <4> QED
        BY <4>1, <4>2, <4>3
    <3>2. \A i \in 1..Len(R[l]) : At(L2, R[l][i]) = At(L, R[l][i])
      BY <3>1
    <3>3. IsRing(R[l], T[l], L2)
      BY <1>1, <3>2, RingKept
    <3> QED
      BY <1>3, <2>1, <3>3
  <2>2. CASE l = k
    <3>1. \A i \in 1..Len(r2) : At(L2, r2[i]) = IF i = Len(r2) THEN r2[1] ELSE r2[i+1]
      <4> TAKE i \in 1..Len(r2)
      <4>1. CASE i = Len(r2)
        <5>1. r2[i] = y /\ At(L2, y) = IF R[k] = <<>> THEN y ELSE R[k][1]
          BY <1>2, <4>1
        <5>2. r2[1] = IF R[k] = <<>> THEN y ELSE R[k][1]
          BY <1>1, <1>2
        <5> QED
          BY <4>1, <5>1, <5>2
      <4>2. CASE i # Len(r2)
        <5>1. i \in 1..n /\ r2[i] = R[k][i] /\ R[k] # <<>> /\ i + 1 \in 1..(n+1) /\ n \in 1..n
          BY <1>1, <1>2, <4>2
        <5>2. r2[i] # y /\ r2[i] \in Place
          BY <1>1, <1>4, <5>1
        <5>3. CASE i = n
          <6>1. r2[i] = T[k]
            BY <1>6, <5>1, <5>3
          <6>2. At(L2, r2[i]) = y
            BY <5>2, <6>1
          <6> QED
            BY <1>2, <4>2, <5>3, <6>2
        <5>4. CASE i # n
          <6>1. R[k][i] # R[k][n]
            BY <1>1, <5>1, <5>4 DEF IsRing
          <6>2. r2[i] # T[k]
            BY <1>6, <5>1, <6>1
          <6>3. At(L2, r2[i]) = At(L, R[k][i])
            BY <5>1, <5>2, <6>2
          <6>4. At(L, R[k][i]) = R[k][i+1]
            BY <1>1, <5>1, <5>4 DEF IsRing
          <6>5. r2[i+1] = R[k][i+1]
            <7>1. i + 1 \in 1..n
              BY <1>1, <5>1, <5>4
            <7> QED
              BY <1>2, <7>1
          <6> QED
            BY <4>2, <6>3, <6>4, <6>5
        <5> QED
          BY <5>3, <5>4
      <4> QED
        BY <4>1, <4>2
    <3>2. \A i, j \in 1..Len(r2) : r2[i].next = r2[j].next => i = j
      <4>1. \A i, j \in 1..n : R[k][i].next = R[k][j].next => i = j
        BY <1>1 DEF IsRing
      <4>2. \A i \in 1..Len(r2) : i = n + 1 \/ i \in 1..n
        BY <1>1, <1>2
      <4> QED
        BY <1>2, <4>1, <4>2
    <3>3. T2[k] = r2[Len(r2)]
      BY <1>2, <1>3
    <3> QED
      BY <1>2, <1>3, <2>2, <3>1, <3>2, <3>3 DEF IsRing
  <2> QED
    BY <2>1, <2>2
<1>8. \A l \in Queue : \A i \in 1..Len(R2[l]) :
        \/ i \in 1..Len(R[l]) /\ R2[l][i] = R[l][i]
        \/ l = k /\ i = n + 1 /\ R2[l][i] = y
  <2> TAKE l \in Queue
  <2> TAKE i \in 1..Len(R2[l])
  <2>1. CASE l # k
    BY <1>3, <2>1
  <2>2. CASE l = k
    <3>1. i = n + 1 \/ i \in 1..n
      BY <1>1, <1>2, <1>3, <2>2
    <3> QED
      BY <1>2, <1>3, <2>2, <3>1
  <2> QED
    BY <2>1, <2>2
<1>9. \A l, m \in Queue : \A i \in 1..Len(R2[l]), j \in 1..Len(R2[m]) :
         R2[l][i] = R2[m][j] => l = m
  <2> TAKE l, m \in Queue
  <2> TAKE i \in 1..Len(R2[l]), j \in 1..Len(R2[m])
  <2>1. \/ i \in 1..Len(R[l]) /\ R2[l][i] = R[l][i]
        \/ l = k /\ R2[l][i] = y
    BY <1>8
  <2>2. \/ j \in 1..Len(R[m]) /\ R2[m][j] = R[m][j]
        \/ m = k /\ R2[m][j] = y
    BY <1>8
  <2>3. ASSUME i \in 1..Len(R[l]), j \in 1..Len(R[m]), R[l][i] = R[m][j] PROVE l = m
    BY <2>3 DEF Linked
  <2> QED
    BY <1>4, <2>1, <2>2, <2>3
<1>10. \A l \in Queue : \A i \in 1..Len(R2[l]) : R2[l][i].next \notin F
  <2>1. \A l \in Queue : \A i \in 1..Len(R[l]) : R[l][i].next \notin F
    BY DEF Linked
  <2> QED
    BY <1>8, <2>1
<1>11. ASSUME NEW x \in Place, x.next \notin F, At(L2, x) # None
       PROVE  \E l \in Queue : \E i \in 1..Len(R2[l]) : R2[l][i] = x
  <2>1. CASE x = y
    <3>1. n + 1 \in 1..Len(R2[k]) /\ R2[k][n+1] = x
      BY <1>1, <1>2, <1>3, <2>1
    <3> QED
      BY <3>1
  <2>2. CASE x # y
    <3>1. \E l \in Queue : \E i \in 1..Len(R[l]) : R[l][i] = x
      <4>1. CASE x = T[k]
        <5>1. R[k] # <<>> /\ n \in 1..Len(R[k]) /\ R[k][n] = x
          BY <1>1, <1>6, <4>1, NoneIsNoPlace
        <5> QED
          BY <5>1
      <4>2. CASE x # T[k]
        BY <1>11, <2>2, <4>2 DEF Linked
      <4> QED
        BY <4>1, <4>2
    <3>2. PICK l \in Queue : \E i \in 1..Len(R[l]) : R[l][i] = x
      BY <3>1
    <3>2a. PICK i \in 1..Len(R[l]) : R[l][i] = x
      BY <3>2
    <3>3. i \in 1..Len(R2[l]) /\ R2[l][i] = x
      BY <1>1, <1>2, <1>3, <3>2a
    <3> QED
      BY <3>3
  <2> QED
    BY <2>1, <2>2
<1>12. ASSUME NEW x \in Place, x.next \in F, x.index # 0
       PROVE  At(L2, x) = None
  <2>1. x # y
    BY <1>12
  <2>2. x # T[k]
    <3> SUFFICES ASSUME x = T[k] PROVE FALSE
      OBVIOUS
    <3>1. n \in 1..Len(R[k]) /\ R[k][n] = x
      BY <1>1, <1>6, NoneIsNoPlace
    <3> QED
      BY <1>12, <3>1 DEF Linked
  <2> QED
    BY <1>12, <2>1, <2>2 DEF Linked
<1> QED
  BY <1>1, <1>3, <1>7, <1>9, <1>10, <1>11, <1>12 DEF Linked, T2, R2

\* removeProc and outProc take place m out of a ring.
LEMMA Departed ==
    ASSUME NEW L, NEW T, NEW R, NEW F, Linked(L, T, R, F), NEW k \in Queue,
           NEW m \in 1..Len(R[k]), NEW tp2,
           tp2 = IF Len(R[k]) = 1 THEN None
                 ELSE IF m = Len(R[k]) THEN R[k][m-1] ELSE T[k],
           NEW L2 \in Links,
           \A x \in Place : At(L2, x) =
              IF x = R[k][m] THEN None
              ELSE IF x = R[k][IF m = 1 THEN Len(R[k]) ELSE m-1] THEN At(L, R[k][m])
              ELSE At(L, x)
    PROVE  Linked(L2, [T EXCEPT ![k] = tp2], [R EXCEPT ![k] = Cut(@, m)], F)
<1> DEFINE T2 == [T EXCEPT ![k] = tp2]
           R2 == [R EXCEPT ![k] = Cut(@, m)]
           r == R[k]
           n == Len(r)
           r2 == Cut(r, m)
           before == IF m = 1 THEN n ELSE m - 1
<1>1. /\ R \in [Queue -> Seq(Place)] /\ T \in [Queue -> Place \cup {None}]
      /\ F \in SUBSET Proc
      /\ \A l \in Queue : IsRing(R[l], T[l], L)
      /\ \A l \in Queue : R[l] \in Seq(Place) /\ Len(R[l]) \in Nat
      /\ \A l \in Queue : \A i \in 1..Len(R[l]) : R[l][i] \in Place
  BY DEF Linked
<1>2. r \in Seq(Place) /\ n \in Nat /\ n >= 1 /\ m \in 1..n /\ before \in 1..n
  BY <1>1
<1>3. /\ r2 \in Seq(Place) /\ Len(r2) = n - 1
      /\ \A i \in 1..(n-1) : r2[i] = IF i < m THEN r[i] ELSE r[i+1]
  BY <1>2, CutFacts
<1>4. tp2 \in Place \cup {None}
  BY <1>1, <1>2
<1>5. /\ T2 \in [Queue -> Place \cup {None}] /\ R2 \in [Queue -> Seq(Place)]
      /\ T2[k] = tp2 /\ R2[k] = r2
      /\ \A l \in Queue : l # k => T2[l] = T[l] /\ R2[l] = R[l]
  BY <1>1, <1>3, <1>4
<1>6. /\ \A i, j \in 1..n : r[i].next = r[j].next => i = j
      /\ \A i, j \in 1..n : r[i] = r[j] => i = j
      /\ \A i \in 1..n : At(L, r[i]) = IF i = n THEN r[1] ELSE r[i+1]
  BY <1>1 DEF IsRing
<1>7. T[k] = r[n]
  BY <1>1, <1>2 DEF IsRing
<1>8. \A l \in Queue : \A i \in 1..Len(R[l]), j \in 1..n : R[l][i] = r[j] => l = k
  BY DEF Linked
<1>9. \A x \in Place : At(L2, x) = IF x = r[m] THEN None
                                   ELSE IF x = r[before] THEN At(L, r[m]) ELSE At(L, x)
  OBVIOUS
<1>10. \A i \in 1..(n-1) : r2[i] # r[m] /\ r2[i] \in Place
  <2> TAKE i \in 1..(n-1)
  <2>1. CASE i < m
    <3>1. i \in 1..n /\ i # m /\ r2[i] = r[i]
      BY <1>2, <1>3, <2>1
    <3> QED
      BY <1>1, <1>2, <1>6, <3>1
  <2>2. CASE i >= m
    <3>0. i+1 \in 1..n /\ i+1 # m /\ ~(i < m)
      BY <1>2, <2>2
    <3>1. i+1 \in 1..n /\ i+1 # m /\ r2[i] = r[i+1]
      BY <1>3, <3>0
    <3> QED
      BY <1>1, <1>2, <1>6, <3>1
  <2> QED
    BY <1>2, <2>1, <2>2
<1> HIDE DEF T2, R2, r2
<1>11. ASSUME NEW l \in Queue PROVE IsRing(R2[l], T2[l], L2)
  <2>1. CASE l # k
    <3>1. \A i \in 1..Len(R[l]) : At(L2, R[l][i]) = At(L, R[l][i])
      BY <1>1, <1>2, <1>8, <1>9, <2>1
    <3>2. IsRing(R[l], T[l], L2)
      BY <1>1, <3>1, RingKept
    <3> QED
      BY <1>5, <2>1, <3>2
  <2>2. CASE l = k
    <3>1. \A i \in 1..Len(r2) : At(L2, r2[i]) = IF i = Len(r2) THEN r2[1] ELSE r2[i+1]
      <4> TAKE i \in 1..Len(r2)
      <4> DEFINE o == IF i < m THEN i ELSE i + 1
      <4>1. /\ i \in 1..(n-1) /\ Len(r2) = n-1 /\ n >= 2 /\ o \in 1..n /\ o # m
            /\ r2[i] = r[o] /\ 1 \in 1..(n-1) /\ (i # n-1 => i+1 \in 1..(n-1))
        <5>1. n \in Nat /\ m \in 1..n /\ i \in 1..(n-1) /\ Len(r2) = n-1
          BY <1>2, <1>3
        <5>2. r2[i] = r[o]
          BY <1>3, <5>1
        <5> HIDE DEF n
        <5> QED
          BY <5>1, <5>2
      <4>2. r[o] # r[m] /\ r[o] \in Place
        BY <1>3, <1>10, <4>1
      <4>3. r2[1] = IF 1 < m THEN r[1] ELSE r[2]
        BY <1>3, <4>1
      <4>4. i # n-1 => r2[i+1] = IF i+1 < m THEN r[i+1] ELSE r[i+2]
        BY <1>3, <4>1
      <4>5. CASE o = before
        <5>1. At(L2, r[o]) = IF m = n THEN r[1] ELSE r[m+1]
          BY <1>2, <1>6, <1>9, <4>2, <4>5
        <5>2. CASE m = 1
          <6>1. i = n-1 /\ m # n /\ m + 1 = 2
            BY <1>2, <4>1, <4>5, <5>2
          <6> QED
            BY <4>1, <4>3, <5>1, <5>2, <6>1
        <5>3. CASE m # 1
          <6>1. i = m - 1 /\ 1 < m
            BY <1>2, <4>1, <4>5, <5>3
          <6>2. CASE m = n
            BY <4>1, <4>3, <5>1, <6>1, <6>2
          <6>3. CASE m # n
            <7>1. i # n-1 /\ ~(i+1 < m) /\ i+2 = m+1
              BY <1>2, <4>1, <6>1, <6>3
            <7> QED
              BY <4>1, <4>4, <5>1, <6>3, <7>1
          <6> QED
            BY <6>2, <6>3
        <5> QED
          BY <5>2, <5>3
      <4>6. CASE o # before
        <5>1. r[o] # r[before]
          BY <1>2, <1>6, <4>1, <4>6
        <5>2. At(L2, r[o]) = IF o = n THEN r[1] ELSE r[o+1]
          BY <1>6, <1>9, <4>1, <4>2, <5>1
        <5>3. CASE o = n
          <6>1. i = n-1 /\ 1 < m
            BY <1>2, <4>1, <4>6, <5>3
          <6> QED
            BY <4>1, <4>3, <5>2, <5>3, <6>1
        <5>4. CASE o # n
          <6>1. i # n-1 /\ o+1 = IF i+1 < m THEN i+1 ELSE i+2
            <7>0. n \in Nat /\ m \in 1..n /\ i \in 1..(n-1) /\ n >= 2
              BY <1>2, <4>1
            <7>1. CASE i < m
              <8>1. o = i /\ i # before
                BY <4>6, <7>1
              <8>2. i + 1 < m
                BY <7>0, <7>1, <8>1
              <8> QED
                BY <7>0, <8>1, <8>2
            <7>2. CASE ~(i < m)
              BY <5>4, <7>0, <7>2
            <7> QED
              BY <7>1, <7>2
          <6> HIDE DEF o
          <6> QED
            BY <4>1, <4>4, <5>2, <5>4, <6>1
        <5> QED
          BY <5>3, <5>4
      <4> QED
        BY <4>5, <4>6
    <3>2. \A i, j \in 1..Len(r2) : r2[i].next = r2[j].next => i = j
      <4> SUFFICES ASSUME NEW i \in 1..(n-1), NEW j \in 1..(n-1), r2[i].next = r2[j].next
                   PROVE  i = j
        BY <1>3
      <4>1. r2[i] = r[IF i < m THEN i ELSE i+1] /\ r2[j] = r[IF j < m THEN j ELSE j+1]
        BY <1>3
      <4>2. (IF i < m THEN i ELSE i+1) \in 1..n /\ (IF j < m THEN j ELSE j+1) \in 1..n
        BY <1>2
      <4>3. (IF i < m THEN i ELSE i+1) = (IF j < m THEN j ELSE j+1)
        BY <1>6, <4>1, <4>2
      <4> QED
        BY <1>2, <4>3
    <3>3. T2[k] = IF r2 = <<>> THEN None ELSE r2[Len(r2)]
      <4>1. CASE n = 1
        <5>1. r2 = <<>>
          BY <1>3, <4>1
        <5> QED
          BY <1>5, <4>1, <5>1
      <4>2. CASE n # 1
        <5>0. n - 1 \in 1..(n-1) /\ n - 1 # 0
          <6>1. n \in Nat /\ n >= 1 /\ n # 1
            BY <1>2, <4>2
          <6> HIDE DEF n
          <6> QED
            BY <6>1
        <5>1. n - 1 \in 1..(n-1) /\ r2 # <<>>
          BY <1>3, <5>0
        <5>2. r2[n-1] = IF n-1 < m THEN r[n-1] ELSE r[(n-1)+1]
          BY <1>3, <5>1
        <5>3. tp2 = IF m = n THEN r[n-1] ELSE r[n]
          BY <1>7, <4>2
        <5>4. (n-1 < m <=> m = n) /\ (n-1)+1 = n
          BY <1>2
        <5> QED
          BY <1>3, <1>5, <5>1, <5>2, <5>3, <5>4
      <4> QED
        BY <4>1, <4>2
    <3> QED
      BY <1>3, <1>5, <2>2, <3>1, <3>2, <3>3 DEF IsRing
  <2> QED
    BY <2>1, <2>2
<1>12. \A l \in Queue : \A i \in 1..Len(R2[l]) :
          R2[l][i] # r[m] /\ \E j \in 1..Len(R[l]) : R2[l][i] = R[l][j]
  <2> TAKE l \in Queue
  <2> TAKE i \in 1..Len(R2[l])
  <2>1. CASE l # k
    BY <1>5, <1>8, <2>1
  <2>2. CASE l = k
    <3>1. i \in 1..(n-1) /\ R2[l] = r2
      BY <1>3, <1>5, <2>2
    <3>2. (IF i < m THEN i ELSE i+1) \in 1..n /\ r2[i] = r[IF i < m THEN i ELSE i+1]
      BY <1>2, <1>3, <3>1
    <3> QED
      BY <1>10, <2>2, <3>1, <3>2
  <2> QED
    BY <2>1, <2>2
<1>13. \A l, q \in Queue : \A i \in 1..Len(R2[l]), j \in 1..Len(R2[q]) :
          R2[l][i] = R2[q][j] => l = q
  <2>1. \A l, q \in Queue : \A i \in 1..Len(R[l]), j \in 1..Len(R[q]) : R[l][i] = R[q][j] => l = q
    BY DEF Linked
  <2> TAKE l, q \in Queue
  <2> TAKE i \in 1..Len(R2[l]), j \in 1..Len(R2[q])
  <2>2. PICK a \in 1..Len(R[l]) : R2[l][i] = R[l][a]
    BY <1>12
  <2>3. PICK b \in 1..Len(R[q]) : R2[q][j] = R[q][b]
    BY <1>12
  <2> QED
    BY <2>1, <2>2, <2>3
<1>14. \A l \in Queue : \A i \in 1..Len(R2[l]) : R2[l][i].next \notin F
  <2> SUFFICES ASSUME NEW l \in Queue, NEW i \in 1..Len(R2[l]) PROVE R2[l][i].next \notin F
    OBVIOUS
  <2>1. \A a \in 1..Len(R[l]) : R[l][a].next \notin F
    BY DEF Linked
  <2>2. PICK a \in 1..Len(R[l]) : R2[l][i] = R[l][a]
    BY <1>12
  <2> QED
    BY <2>1, <2>2
<1>15. \A l \in Queue : \A i \in 1..Len(R[l]) : R[l][i] # r[m] =>
          \E j \in 1..Len(R2[l]) : R2[l][j] = R[l][i]
  <2> TAKE l \in Queue
  <2> TAKE i \in 1..Len(R[l])
  <2>1. CASE l # k
    BY <1>5, <2>1
  <2>2. ASSUME l = k, i # m
        PROVE  \E j \in 1..Len(R2[l]) : R2[l][j] = R[l][i]
    <3>1. i \in 1..Len(r) /\ m \in 1..Len(r) /\ r \in Seq(Place)
      BY <1>2, <2>2
    <3>2. \E j \in 1..(Len(r) - 1) : Cut(r, m)[j] = r[i]
      <4> HIDE DEF r
      <4> QED
        BY <2>2, <3>1, CutKeeps
    <3> QED
      BY <1>3, <1>5, <2>2, <3>2 DEF r2
  <2> QED
    BY <2>1, <2>2
<1>16. ASSUME NEW x \in Place, x.next \notin F, At(L2, x) # None
       PROVE  \E l \in Queue : \E i \in 1..Len(R2[l]) : R2[l][i] = x
  <2>1. x # r[m]
    BY <1>9, <1>16
  <2>2. \E l \in Queue : \E i \in 1..Len(R[l]) : R[l][i] = x
    <3>1. CASE x = r[before]
      BY <1>2, <3>1
    <3>2. CASE x # r[before]
      <4>1. At(L, x) # None
        BY <1>9, <1>16, <2>1, <3>2
      <4> QED
        BY <1>16, <4>1 DEF Linked
    <3> QED
      BY <3>1, <3>2
  <2> QED
    BY <1>15, <2>1, <2>2
<1>17. ASSUME NEW x \in Place, x.next \in F, x.index # 0
       PROVE  At(L2, x) = None
  <2>1. \A i \in 1..n : x # r[i]
    BY <1>17 DEF Linked
  <2>2. At(L, x) = None
    BY <1>17 DEF Linked
  <2> QED
    BY <1>2, <1>9, <2>1, <2>2
<1> QED
  BY <1>1, <1>5, <1>11, <1>13, <1>14, <1>16, <1>17 DEF Linked, T2, R2

----------------------------------------------------------------------------
(***************************************************************************)
(* The routines of procq.c on the links.                                   *)
(***************************************************************************)
LEMMA PlaceEqual ==
    ASSUME NEW x \in Place, NEW z \in Place, x.next = z.next, x.index = z.index
    PROVE  x = z
BY DEF Place

LEMMA PlaceIsLink == /\ Place \subseteq Link
                     /\ None \in Link
BY DEF Place, Link, None

\* Assignments to one link, and to two.
Set(L, x, v) == [L EXCEPT ![x.next][x.index] = v]
Set2(L, x, v, y, w) == [L EXCEPT ![x.next][x.index] = v, ![y.next][y.index] = w]

LEMMA LinkSet ==
    ASSUME NEW L \in Links, NEW x \in Place, NEW v \in Link
    PROVE  /\ Set(L, x, v) \in Links
           /\ \A z \in Place : At(Set(L, x, v), z) = IF z = x THEN v ELSE At(L, z)
<1> DEFINE L2 == Set(L, x, v)
<1>1. x.next \in Proc /\ x.index \in Slot
  BY NoneIsNoPlace
<1>2. L2 \in Links
  BY <1>1 DEF Set, Links
<1>3. \A p \in Proc, i \in Slot : L2[p][i] = IF p = x.next /\ i = x.index THEN v ELSE L[p][i]
  BY <1>1 DEF Set, Links
<1>4. ASSUME NEW z \in Place PROVE At(L2, z) = IF z = x THEN v ELSE At(L, z)
  <2>1. z.next \in Proc /\ z.index \in Slot
    BY NoneIsNoPlace
  <2>2. z = x <=> z.next = x.next /\ z.index = x.index
    BY PlaceEqual
  <2> HIDE DEF L2
  <2> QED
    BY <1>3, <2>1, <2>2 DEF At
<1> QED
  BY <1>2, <1>4

LEMMA LinksSet ==
    ASSUME NEW L \in Links, NEW x \in Place, NEW v \in Link,
           NEW y \in Place, NEW w \in Link, x # y
    PROVE  /\ Set2(L, x, v, y, w) \in Links
           /\ \A z \in Place : At(Set2(L, x, v, y, w), z) =
                               IF z = x THEN v ELSE IF z = y THEN w ELSE At(L, z)
<1>1. /\ Set(L, x, v) \in Links
      /\ \A z \in Place : At(Set(L, x, v), z) = IF z = x THEN v ELSE At(L, z)
  BY LinkSet
<1>2. Set2(L, x, v, y, w) = Set(Set(L, x, v), y, w)
  BY DEF Set, Set2
<1>3. PICK L1 : L1 = Set(L, x, v)
  OBVIOUS
<1>4. /\ Set(L1, y, w) \in Links
      /\ \A z \in Place : At(Set(L1, y, w), z) = IF z = y THEN w ELSE At(L1, z)
  BY <1>1, <1>3, LinkSet
<1> QED
  BY <1>1, <1>2, <1>3, <1>4

\* The first unused link.
LEMMA FreeSlotFacts ==
    ASSUME NEW L \in Links, NEW p \in Proc,
           \E i \in Slot : L[p][i].index = ENULL
    PROVE  FreeSlot(L, p) \in Slot /\ L[p][FreeSlot(L, p)].index = ENULL
<1> DEFINE U == {i \in Slot : L[p][i].index = ENULL}
<1>1. U \subseteq Nat /\ U # {}
  BY TableAssumption DEF Slot
<1>2. PICK i \in U : \A j \in U : i <= j
  <2> HIDE DEF U
  <2> QED
    BY <1>1, LeastNatural
<1>3. i \in Slot /\ L[p][i].index = ENULL
  OBVIOUS
<1>4. \A j \in 0..(i-1) : L[p][j].index # ENULL
  <2> SUFFICES ASSUME NEW j \in 0..(i-1), L[p][j].index = ENULL PROVE FALSE
    OBVIOUS
  <2>1. j \in Slot /\ j < i
    BY <1>3, TableAssumption DEF Slot
  <2>2. i <= j
    BY <1>2, <2>1
  <2> QED
    BY <1>3, <2>1, <2>2, TableAssumption DEF Slot
<1> QED
  BY <1>3, <1>4 DEF FreeSlot

\* The links of the free processes F stay.
Kept(L2, L, F) == \A x \in Place : x.next \in F => At(L2, x) = At(L, x)

\* What a call that puts p into queue k leaves.
Joins(res, L, T, R, F, k, p) ==
    \E y \in Place :
       /\ y.next = p
       /\ res.tp = y
       /\ Linked(res.L, [T EXCEPT ![k] = y], [R EXCEPT ![k] = Append(@, y)], F)
       /\ Kept(res.L, L, F)

\* insertProc appends a place of p.
LEMMA insertProcJoins ==
    ASSUME NEW L, NEW T, NEW R, NEW F, Linked(L, T, R, F), NEW k \in Queue,
           NEW p \in Proc, p \notin F, \A i \in 1..Len(R[k]) : R[k][i].next # p,
           \E i \in Slot : L[p][i].index = ENULL
    PROVE  Joins(insertProc(L, T[k], p), L, T, R, F, k, p)
<1>0. L \in Links /\ IsRing(R[k], T[k], L) /\ R[k] \in Seq(Place)
  BY DEF Linked
<1>1. PICK i : i = FreeSlot(L, p)
  OBVIOUS
<1>2. i \in Slot /\ L[p][i].index = ENULL
  BY <1>0, <1>1, FreeSlotFacts
<1>3. PICK y : y = [next |-> p, index |-> i]
  OBVIOUS
<1>4. y \in Place /\ y.next = p /\ y.index = i
  BY <1>2, <1>3 DEF Place
<1>5. At(L, y) \notin Place
  BY <1>2, <1>4, NoneIsNoPlace DEF At
<1>6. PICK L2 : L2 = insertProc(L, T[k], p).L
  OBVIOUS
<1>7. insertProc(L, T[k], p).tp = y
  BY <1>1, <1>3 DEF insertProc
<1>8. /\ L2 \in Links
      /\ \A x \in Place : At(L2, x) =
           IF x = y THEN IF R[k] = <<>> THEN y ELSE R[k][1]
           ELSE IF x = T[k] THEN y ELSE At(L, x)
  <2>1. CASE R[k] = <<>>
    <3>1. T[k] = None /\ T[k].next = ENULL
      BY <1>0, <2>1 DEF IsRing, None
    <3>2. L2 = Set(L, y, y)
      BY <1>1, <1>3, <1>4, <1>6, <3>1 DEF insertProc, Set
    <3>3. y \in Link
      BY <1>4, PlaceIsLink
    <3>4. L2 \in Links /\ \A x \in Place : At(L2, x) = IF x = y THEN y ELSE At(L, x)
      BY <1>0, <1>4, <3>2, <3>3, LinkSet
    <3>5. \A x \in Place : x # T[k]
      BY <3>1, NoneIsNoPlace
    <3> QED
      BY <2>1, <3>4, <3>5
  <2>2. CASE R[k] # <<>>
    <3>1. /\ Len(R[k]) \in 1..Len(R[k]) /\ 1 \in 1..Len(R[k])
          /\ T[k] = R[k][Len(R[k])] /\ T[k] \in Place /\ R[k][1] \in Place
      BY <1>0, <2>2 DEF IsRing
    <3>2. T[k].next # ENULL /\ T[k] # y
      BY <1>4, <3>1, NoneIsNoPlace
    <3>3. At(L, T[k]) = R[k][1]
      BY <1>0, <3>1 DEF IsRing
    <3>4. L2 = Set2(L, y, R[k][1], T[k], y)
      BY <1>1, <1>3, <1>4, <1>6, <3>2, <3>3 DEF insertProc, At, Set2
    <3>5. R[k][1] \in Link /\ y \in Link
      BY <1>4, <3>1, PlaceIsLink
    <3>6. /\ L2 \in Links
          /\ \A x \in Place : At(L2, x) = IF x = y THEN R[k][1]
                                          ELSE IF x = T[k] THEN y ELSE At(L, x)
      BY <1>0, <1>4, <3>1, <3>2, <3>4, <3>5, LinksSet
    <3> QED
      BY <2>2, <3>6
  <2> QED
    BY <2>1, <2>2
<1>9. Linked(L2, [T EXCEPT ![k] = y], [R EXCEPT ![k] = Append(@, y)], F)
  BY <1>4, <1>5, <1>8, Joined
<1>10. T[k] \in Place => T[k].next \notin F
  <2>1. T[k] \in Place => Len(R[k]) \in 1..Len(R[k]) /\ T[k] = R[k][Len(R[k])]
    BY <1>0, NoneIsNoPlace DEF IsRing
  <2> QED
    BY <2>1 DEF Linked
<1>11. Kept(L2, L, F)
  BY <1>4, <1>8, <1>10 DEF Kept
<1> QED
  BY <1>4, <1>6, <1>7, <1>9, <1>11 DEF Joins

\* What a call that takes place m out of queue k leaves.
Takes(res, L, T, R, F, k, m) ==
    /\ res.rv = R[k][m].next
    /\ Linked(res.L, [T EXCEPT ![k] = res.tp], [R EXCEPT ![k] = Cut(@, m)], F)
    /\ Kept(res.L, L, F)

LEMMA removeOnlyTakes ==
    ASSUME NEW L, NEW T, NEW R, NEW F, Linked(L, T, R, F), NEW k \in Queue,
           Len(R[k]) = 1
    PROVE  Takes(removeOnly(L, T[k]), L, T, R, F, k, 1)
<1>1. L \in Links /\ IsRing(R[k], T[k], L) /\ R[k] \in Seq(Place)
  BY DEF Linked
<1>2. T[k] = R[k][1] /\ R[k][1] \in Place /\ 1 \in 1..Len(R[k])
  BY <1>1 DEF IsRing
<1>3. PICK L2 : L2 = removeOnly(L, T[k]).L
  OBVIOUS
<1>4. L2 = Set(L, T[k], None)
  BY <1>3 DEF removeOnly, Set
<1>5. /\ L2 \in Links
      /\ \A x \in Place : At(L2, x) = IF x = R[k][1] THEN None ELSE At(L, x)
  BY <1>1, <1>2, <1>4, LinkSet, PlaceIsLink
<1>6. \A x \in Place : At(L2, x) = IF x = R[k][1] THEN None
                                   ELSE IF x = R[k][IF 1 = 1 THEN Len(R[k]) ELSE 1-1] THEN At(L, R[k][1])
                                   ELSE At(L, x)
  BY <1>5
<1>7. PICK tp2 : tp2 = None
  OBVIOUS
<1>8. Linked(L2, [T EXCEPT ![k] = tp2], [R EXCEPT ![k] = Cut(@, 1)], F)
  BY <1>2, <1>5, <1>6, <1>7, Departed
<1>9. R[k][1].next \notin F
  BY <1>2 DEF Linked
<1>10. Kept(L2, L, F)
  BY <1>5, <1>9 DEF Kept
<1> QED
  BY <1>2, <1>3, <1>7, <1>8, <1>10 DEF Takes, removeOnly

LEMMA bypassTakes ==
    ASSUME NEW L, NEW T, NEW R, NEW F, Linked(L, T, R, F), NEW k \in Queue,
           NEW m \in 1..Len(R[k]), Len(R[k]) # 1,
           NEW prev, prev = R[k][IF m = 1 THEN Len(R[k]) ELSE m-1],
           NEW tp2, tp2 = IF m = Len(R[k]) THEN R[k][m-1] ELSE T[k]
    PROVE  Takes(bypass(L, prev, tp2), L, T, R, F, k, m)
<1>1. /\ L \in Links /\ IsRing(R[k], T[k], L) /\ R[k] \in Seq(Place)
      /\ Len(R[k]) \in Nat
  BY DEF Linked
<1> DEFINE b == IF m = 1 THEN Len(R[k]) ELSE m-1
<1>2. b \in 1..Len(R[k]) /\ b # m /\ (IF b = Len(R[k]) THEN 1 ELSE b+1) = m
  <2>1. PICK n : n = Len(R[k])
    OBVIOUS
  <2>2. n \in Nat /\ n # 1 /\ m \in 1..n
    BY <1>1, <2>1
  <2>3. CASE m = 1
    BY <2>1, <2>2, <2>3
  <2>4. CASE m # 1
    <3>1. b = m - 1 /\ b # n
      BY <2>2, <2>4
    <3> QED
      BY <2>1, <2>2, <2>4, <3>1
  <2> QED
    BY <2>3, <2>4
<1>3. prev = R[k][b]
  OBVIOUS
<1> HIDE DEF b
<1>4. At(L, prev) = R[k][m]
  BY <1>1, <1>2, <1>3 DEF IsRing
<1>5. prev \in Place /\ R[k][m] \in Place /\ prev # R[k][m]
  BY <1>1, <1>2, <1>3 DEF IsRing
<1>6. At(L, R[k][m]) \in Place
  <2>1. 1 \in 1..Len(R[k]) /\ (m # Len(R[k]) => m+1 \in 1..Len(R[k]))
    BY <1>1
  <2> QED
    BY <1>1, <2>1 DEF IsRing
<1>7. PICK L2 : L2 = bypass(L, prev, tp2).L
  OBVIOUS
<1>8. L2 = Set2(L, prev, At(L, R[k][m]), R[k][m], None)
  BY <1>4, <1>7 DEF bypass, At, Set2
<1>9. At(L, R[k][m]) \in Link /\ None \in Link
  BY <1>6, PlaceIsLink
<1>10. /\ L2 \in Links
       /\ \A x \in Place : At(L2, x) = IF x = prev THEN At(L, R[k][m])
                                       ELSE IF x = R[k][m] THEN None ELSE At(L, x)
  BY <1>1, <1>5, <1>8, <1>9, LinksSet
<1>11. \A x \in Place : At(L2, x) =
          IF x = R[k][m] THEN None
          ELSE IF x = R[k][IF m = 1 THEN Len(R[k]) ELSE m-1] THEN At(L, R[k][m])
          ELSE At(L, x)
  BY <1>5, <1>10
<1>12. tp2 = IF Len(R[k]) = 1 THEN None
             ELSE IF m = Len(R[k]) THEN R[k][m-1] ELSE T[k]
  OBVIOUS
<1>13. Linked(L2, [T EXCEPT ![k] = tp2], [R EXCEPT ![k] = Cut(@, m)], F)
  BY <1>10, <1>11, <1>12, Departed
<1>14. bypass(L, prev, tp2).rv = R[k][m].next /\ bypass(L, prev, tp2).tp = tp2
  BY <1>4 DEF bypass, At
<1>15. prev.next \notin F /\ R[k][m].next \notin F
  BY <1>2, <1>3 DEF Linked
<1>16. Kept(L2, L, F)
  BY <1>10, <1>15 DEF Kept
<1> QED
  BY <1>7, <1>13, <1>14, <1>16 DEF Takes

\* removeProc takes the head.
LEMMA removeProcTakes ==
    ASSUME NEW L, NEW T, NEW R, NEW F, Linked(L, T, R, F), NEW k \in Queue
    PROVE  IF R[k] = <<>> THEN removeProc(L, T[k]) = [L |-> L, tp |-> T[k], rv |-> ENULL]
           ELSE Takes(removeProc(L, T[k]), L, T, R, F, k, 1)
<1>1. IsRing(R[k], T[k], L) /\ R[k] \in Seq(Place) /\ Len(R[k]) \in Nat
  BY DEF Linked
<1>2. CASE R[k] = <<>>
  <2>1. T[k].next = ENULL
    BY <1>1, <1>2 DEF IsRing, None
  <2> QED
    BY <1>2, <2>1 DEF removeProc
<1>3. CASE R[k] # <<>>
  <2>1. /\ Len(R[k]) \in 1..Len(R[k]) /\ 1 \in 1..Len(R[k])
        /\ T[k] = R[k][Len(R[k])] /\ T[k] \in Place
    BY <1>1, <1>3 DEF IsRing
  <2>2. T[k].next # ENULL
    BY <2>1, NoneIsNoPlace
  <2>3. headQueue(L, T[k]) = R[k][1].next
    BY <1>1, <2>1, <2>2 DEF headQueue, IsRing, At
  <2>4. T[k].next = headQueue(L, T[k]) <=> Len(R[k]) = 1
    BY <1>1, <2>1, <2>3 DEF IsRing
  <2>5. CASE Len(R[k]) = 1
    <3>1. removeProc(L, T[k]) = removeOnly(L, T[k])
      BY <2>2, <2>4, <2>5 DEF removeProc
    <3> QED
      BY <1>3, <2>5, <3>1, removeOnlyTakes
  <2>6. CASE Len(R[k]) # 1
    <3>1. removeProc(L, T[k]) = bypass(L, T[k], T[k])
      BY <2>2, <2>4, <2>6 DEF removeProc
    <3>2. T[k] = R[k][IF 1 = 1 THEN Len(R[k]) ELSE 1-1]
      BY <2>1
    <3>3. T[k] = IF 1 = Len(R[k]) THEN R[k][1-1] ELSE T[k]
      BY <2>6
    <3>4. Takes(bypass(L, T[k], T[k]), L, T, R, F, k, 1)
      BY <2>1, <2>6, <3>2, <3>3, bypassTakes
    <3> QED
      BY <1>3, <3>1, <3>4
  <2> QED
    BY <2>5, <2>6
<1> QED
  BY <1>2, <1>3

\* outProc takes the place of p, wherever it is.
LEMMA outProcTakes ==
    ASSUME NEW L, NEW T, NEW R, NEW F, Linked(L, T, R, F), NEW k \in Queue,
           NEW p \in Proc, NEW m \in 1..Len(R[k]), R[k][m].next = p
    PROVE  Takes(outProc(L, T[k], p), L, T, R, F, k, m)
<1>1. IsRing(R[k], T[k], L) /\ R[k] \in Seq(Place) /\ Len(R[k]) \in Nat /\ MAXPROC \in Nat
  BY TableAssumption DEF Linked
<1>2. /\ Len(R[k]) \in 1..Len(R[k]) /\ 1 \in 1..Len(R[k]) /\ R[k] # <<>>
      /\ T[k] = R[k][Len(R[k])] /\ T[k] \in Place
  BY <1>1 DEF IsRing
<1>3. T[k].next # ENULL
  BY <1>2, NoneIsNoPlace
<1>4. headQueue(L, T[k]) = R[k][1].next
  BY <1>1, <1>2, <1>3 DEF headQueue, IsRing, At
<1>5. T[k].next = headQueue(L, T[k]) <=> Len(R[k]) = 1
  BY <1>1, <1>2, <1>4 DEF IsRing
<1> DEFINE at == Ring(L, T[k])
           First(j) == /\ at[j].next \in {p, T[k].next}
                       /\ \A i \in 1..(j-1) : at[i].next \notin {p, T[k].next}
           n == CHOOSE j \in 1..MAXPROC : First(j)
<1>6. Len(R[k]) \in 0..MAXPROC /\ at[0] = T[k] /\ \A j \in 1..Len(R[k]) : at[j] = R[k][j]
  BY <1>1, RingWalk
<1>7. m \in 1..MAXPROC /\ First(m)
  <2>1. m \in 1..MAXPROC /\ \A i \in 1..(m-1) : i \in 1..Len(R[k]) /\ i # m /\ i # Len(R[k])
    BY <1>1, <1>6
  <2>2. \A i \in 1..(m-1) : R[k][i].next # p /\ R[k][i].next # T[k].next
    BY <1>1, <1>2, <2>1 DEF IsRing
  <2>3. at[m].next = p
    BY <1>6
  <2> QED
    BY <1>6, <2>1, <2>2, <2>3
<1>8. \A j \in 1..MAXPROC : First(j) => j = m
  <2> SUFFICES ASSUME NEW j \in 1..MAXPROC, First(j), j # m PROVE FALSE
    OBVIOUS
  <2>1. CASE j > m
    <3>1. m \in 1..(j-1) /\ at[m].next = p
      BY <1>1, <1>6, <2>1
    <3> QED
      BY <3>1
  <2>2. CASE j < m
    <3>1. j \in 1..(m-1)
      BY <1>1, <2>2
    <3> QED
      BY <1>7, <3>1
  <2> QED
    BY <1>1, <2>1, <2>2
<1> HIDE DEF First
<1>9. n = m
  BY <1>7, <1>8
<1>10. outProc(L, T[k], p) =
          IF Len(R[k]) = 1 /\ T[k].next = p THEN removeOnly(L, T[k])
          ELSE IF at[n].next # p THEN [L |-> L, tp |-> T[k], rv |-> ENULL]
          ELSE bypass(L, at[n-1], IF p = T[k].next THEN at[n-1] ELSE T[k])
  <2> HIDE DEF at
  <2> QED
    BY <1>3, <1>5, SMTT(30) DEF outProc, at, First
<1> HIDE DEF n
<1>11. CASE Len(R[k]) = 1
  <2>1. m = 1 /\ T[k].next = p
    BY <1>2, <1>11
  <2>2. outProc(L, T[k], p) = removeOnly(L, T[k])
    BY <1>10, <1>11, <2>1
  <2> QED
    BY <1>11, <2>1, <2>2, removeOnlyTakes
<1>12. CASE Len(R[k]) # 1
  <2>1. PICK prev : prev = at[m-1]
    OBVIOUS
  <2>2. prev = R[k][IF m = 1 THEN Len(R[k]) ELSE m-1]
    <3>1. CASE m = 1
      BY <1>2, <1>6, <2>1, <3>1
    <3>2. CASE m # 1
      <4>1. m - 1 \in 1..Len(R[k])
        BY <1>1, <3>2
      <4> QED
        BY <1>6, <2>1, <3>2, <4>1
    <3> QED
      BY <3>1, <3>2
  <2>3. p = T[k].next <=> m = Len(R[k])
    BY <1>1, <1>2 DEF IsRing
  <2>4. PICK tp2 : tp2 = IF p = T[k].next THEN prev ELSE T[k]
    OBVIOUS
  <2>5. tp2 = IF m = Len(R[k]) THEN R[k][m-1] ELSE T[k]
    <3>1. m = Len(R[k]) => m # 1
      BY <1>12
    <3> QED
      BY <2>2, <2>3, <2>4, <3>1
  <2>6. outProc(L, T[k], p) = bypass(L, prev, tp2)
    BY <1>6, <1>9, <1>10, <1>12, <2>1, <2>4
  <2> QED
    BY <1>12, <2>2, <2>5, <2>6, bypassTakes
<1> QED
  BY <1>11, <1>12

\* A process that is not in the ring is not found.
LEMMA outProcMisses ==
    ASSUME NEW L, NEW T, NEW R, NEW F, Linked(L, T, R, F), NEW k \in Queue,
           NEW p \in Proc, \A i \in 1..Len(R[k]) : R[k][i].next # p
    PROVE  outProc(L, T[k], p) = [L |-> L, tp |-> T[k], rv |-> ENULL]
<1>1. IsRing(R[k], T[k], L) /\ R[k] \in Seq(Place) /\ Len(R[k]) \in Nat /\ MAXPROC \in Nat
  BY TableAssumption DEF Linked
<1>2. CASE R[k] = <<>>
  <2>1. T[k].next = ENULL
    BY <1>1, <1>2 DEF IsRing, None
  <2> QED
    BY <2>1 DEF outProc
<1>3. CASE R[k] # <<>>
  <2>1. /\ Len(R[k]) \in 1..Len(R[k])
        /\ T[k] = R[k][Len(R[k])] /\ T[k].next # p
    BY <1>1, <1>3 DEF IsRing
  <2> DEFINE at == Ring(L, T[k])
             First(j) == /\ at[j].next \in {p, T[k].next}
                         /\ \A i \in 1..(j-1) : at[i].next \notin {p, T[k].next}
             n == CHOOSE j \in 1..MAXPROC : First(j)
  <2>2. Len(R[k]) \in 0..MAXPROC /\ \A j \in 1..Len(R[k]) : at[j] = R[k][j]
    BY <1>1, RingWalk
  <2>3. \E j \in 1..MAXPROC : First(j)
    <3>1. Len(R[k]) \in 1..MAXPROC /\ at[Len(R[k])].next = T[k].next
      BY <1>1, <2>1, <2>2
    <3>2. \A i \in 1..(Len(R[k])-1) : i \in 1..Len(R[k]) /\ i # Len(R[k])
      BY <1>1
    <3>3. \A i \in 1..(Len(R[k])-1) : R[k][i].next # p /\ R[k][i].next # T[k].next
      BY <1>1, <2>1, <3>2 DEF IsRing
    <3>4. First(Len(R[k]))
      BY <2>2, <3>1, <3>2, <3>3
    <3> HIDE DEF First
    <3> QED
      BY <3>1, <3>4
  <2>4. n \in 1..MAXPROC /\ First(n)
    <3> HIDE DEF First
    <3> QED
      BY <2>3
  <2>5. n \in 1..Len(R[k])
    <3> SUFFICES ASSUME n > Len(R[k]) PROVE FALSE
      BY <1>1, <2>4, SMTT(30)
    <3> HIDE DEF n
    <3>1. Len(R[k]) \in 1..(n-1) /\ at[Len(R[k])] = T[k]
      BY <1>1, <2>1, <2>2, <2>4
    <3> QED
      BY <2>4, <3>1
  <2>6. at[n].next # p
    BY <2>2, <2>5
  <2> HIDE DEF at
  <2> QED
    BY <2>1, <2>6 DEF outProc, at, First, n
<1> QED
  BY <1>2, <1>3

----------------------------------------------------------------------------
(***************************************************************************)
(* A list gets a node at the end, and loses its first or any other node.   *)
(***************************************************************************)
LEMMA ListAppend ==
    ASSUME NEW S, NEW c, NEW head, NEW next, IsList(c, head, next, S),
           NEW x \in S, \A i \in 1..Len(c) : c[i] # x,
           NEW head2, head2 = IF c = <<>> THEN x ELSE head,
           NEW next2, next2[x] = ENULL,
           \A i \in 1..Len(c) : next2[c[i]] = IF i = Len(c) THEN x ELSE next[c[i]]
    PROVE  IsList(Append(c, x), head2, next2, S)
<1> DEFINE d == Append(c, x)
<1>1. c \in Seq(S) /\ Len(c) \in Nat
  BY DEF IsList
<1>2. /\ d \in Seq(S) /\ Len(d) = Len(c) + 1 /\ d[Len(c) + 1] = x /\ d # <<>>
      /\ \A i \in 1..Len(c) : d[i] = c[i]
  <2>1. d \in Seq(S) /\ Len(d) = Len(c) + 1 /\ d[Len(c) + 1] = x
    BY <1>1
  <2>2. \A i \in 1..Len(c) : d[i] = c[i]
    BY <1>1
  <2>3. d # <<>>
    BY <1>1, AppendFacts
  <2> QED
    BY <2>1, <2>2, <2>3
<1> HIDE DEF d
<1>3. \A i \in 1..Len(d) : i \in 1..Len(c) \/ i = Len(c) + 1
  BY <1>1, <1>2
<1>4. \A i, j \in 1..Len(d) : d[i] = d[j] => i = j
  BY <1>2, <1>3 DEF IsList
<1>5. head2 = d[1]
  <2>1. CASE c = <<>>
    BY <1>2, <2>1
  <2>2. CASE c # <<>>
    <3>1. 1 \in 1..Len(c)
      BY <1>1, <2>2
    <3> QED
      BY <1>2, <2>2, <3>1 DEF IsList
  <2> QED
    BY <2>1, <2>2
<1>6. \A i \in 1..Len(d) : next2[d[i]] = IF i = Len(d) THEN ENULL ELSE d[i+1]
  <2> TAKE i \in 1..Len(d)
  <2>1. CASE i = Len(c) + 1
    BY <1>2, <2>1
  <2>2. CASE i \in 1..Len(c) /\ i = Len(c)
    BY <1>1, <1>2, <2>2
  <2>3. CASE i \in 1..Len(c) /\ i # Len(c)
    <3>1. i + 1 \in 1..Len(c) /\ i # Len(d)
      BY <1>1, <1>2, <2>3
    <3> QED
      BY <1>2, <2>3, <3>1 DEF IsList
  <2> QED
    BY <1>3, <2>1, <2>2, <2>3
<1> QED
  BY <1>2, <1>4, <1>5, <1>6 DEF IsList, d

LEMMA ListTail ==
    ASSUME NEW S, NEW c, NEW head, NEW next, IsList(c, head, next, S), c # <<>>,
           NEW next2, \A i \in 2..Len(c) : next2[c[i]] = next[c[i]]
    PROVE  IsList(Tail(c), next[c[1]], next2, S)
<1> DEFINE d == Tail(c)
<1>1. c \in Seq(S) /\ Len(c) \in Nat /\ Len(c) >= 1
  BY DEF IsList
<1>2. /\ d \in Seq(S) /\ Len(d) = Len(c) - 1
      /\ \A i \in 1..(Len(c) - 1) : d[i] = c[i+1]
  BY <1>1
<1> HIDE DEF d
<1>3. \A i \in 1..Len(d) : i + 1 \in 1..Len(c) /\ i + 1 \in 2..Len(c) /\ d[i] = c[i+1]
  BY <1>1, <1>2
<1>4. \A i, j \in 1..Len(d) : d[i] = d[j] => i = j
  <2> TAKE i, j \in 1..Len(d)
  <2>1. d[i] = d[j] => i + 1 = j + 1
    BY <1>3 DEF IsList
  <2> QED
    BY <1>1, <1>2, <2>1
<1>5. next[c[1]] = IF d = <<>> THEN ENULL ELSE d[1]
  <2>1. next[c[1]] = IF 1 = Len(c) THEN ENULL ELSE c[2]
    <3>1. 1 \in 1..Len(c)
      BY <1>1
    <3>2. next[c[1]] = IF 1 = Len(c) THEN ENULL ELSE c[1+1]
      BY <3>1 DEF IsList
    <3> QED
      BY <3>2
  <2>2. d = <<>> <=> Len(c) = 1
    BY <1>1, <1>2
  <2>3. Len(c) # 1 => d[1] = c[2]
    BY <1>1, <1>2
  <2> QED
    BY <2>1, <2>2, <2>3
<1>6. \A i \in 1..Len(d) : next2[d[i]] = IF i = Len(d) THEN ENULL ELSE d[i+1]
  <2> TAKE i \in 1..Len(d)
  <2>1. next2[d[i]] = IF i + 1 = Len(c) THEN ENULL ELSE c[(i+1)+1]
    BY <1>3 DEF IsList
  <2>2. i + 1 = Len(c) <=> i = Len(d)
    BY <1>1, <1>2
  <2>3. i # Len(d) => d[i+1] = c[(i+1)+1]
    BY <1>1, <1>2
  <2> QED
    BY <2>1, <2>2, <2>3
<1> QED
  BY <1>2, <1>4, <1>5, <1>6 DEF IsList, d

LEMMA ListCut ==
    ASSUME NEW S, NEW c, NEW head, NEW next, IsList(c, head, next, S), NEW m \in 1..Len(c),
           NEW head2, head2 = IF m = 1 THEN next[c[1]] ELSE head,
           NEW next2, \A i \in 1..Len(c) : i # m =>
                        next2[c[i]] = IF i + 1 = m THEN next[c[m]] ELSE next[c[i]]
    PROVE  IsList(Cut(c, m), head2, next2, S)
<1> DEFINE d == Cut(c, m)
<1>1. c \in Seq(S) /\ Len(c) \in Nat /\ Len(c) >= 1 /\ m \in Nat /\ 1 <= m /\ m <= Len(c)
  BY DEF IsList
<1>2. /\ d \in Seq(S) /\ Len(d) = Len(c) - 1
      /\ \A i \in 1..(Len(c) - 1) : d[i] = IF i < m THEN c[i] ELSE c[i+1]
  BY <1>1, CutFacts
<1> HIDE DEF d
<1> DEFINE o(i) == IF i < m THEN i ELSE i + 1
<1>3. \A i \in 1..Len(d) : o(i) \in 1..Len(c) /\ o(i) # m /\ d[i] = c[o(i)]
  <2> TAKE i \in 1..Len(d)
  <2>1. i \in 1..(Len(c) - 1)
    BY <1>2
  <2>2. o(i) \in 1..Len(c) /\ o(i) # m
    BY <1>1, <2>1
  <2>3. d[i] = c[o(i)]
    BY <1>2, <2>1
  <2> HIDE DEF o
  <2> QED
    BY <2>2, <2>3
<1>4. \A i, j \in 1..Len(d) : d[i] = d[j] => i = j
  <2> TAKE i, j \in 1..Len(d)
  <2>1. d[i] = d[j] => o(i) = o(j)
    <3> HIDE DEF o
    <3> QED
      BY <1>3 DEF IsList
  <2>2. o(i) = o(j) => i = j
    BY <1>1, <1>2
  <2> QED
    BY <2>1, <2>2
<1>5. \A i \in 1..Len(c) : next[c[i]] = IF i = Len(c) THEN ENULL ELSE c[i+1]
  BY DEF IsList
<1>6. head2 = IF d = <<>> THEN ENULL ELSE d[1]
  <2>1. d = <<>> <=> Len(c) = 1
    BY <1>1, <1>2
  <2>2. Len(c) # 1 => d[1] = IF 1 < m THEN c[1] ELSE c[2]
    BY <1>1, <1>2
  <2>3. CASE m = 1
    <3>1. head2 = IF 1 = Len(c) THEN ENULL ELSE c[2]
      BY <1>1, <1>5, <2>3, SMTT(30)
    <3> QED
      BY <2>1, <2>2, <2>3, <3>1
  <2>4. CASE m # 1
    <3>1. Len(c) # 1 /\ 1 < m /\ c # <<>>
      BY <1>1, <2>4
    <3>2. head2 = c[1]
      BY <2>4, <3>1 DEF IsList
    <3> QED
      BY <2>1, <2>2, <3>1, <3>2
  <2> QED
    BY <2>3, <2>4
<1>7. \A i \in 1..Len(d) : next2[d[i]] = IF i = Len(d) THEN ENULL ELSE d[i+1]
  <2> TAKE i \in 1..Len(d)
  <2>0. i \in 1..(Len(c) - 1) /\ i \in Nat
    BY <1>1, <1>2
  <2>1. next2[d[i]] = IF o(i) + 1 = m THEN next[c[m]] ELSE next[c[o(i)]]
    <3> HIDE DEF o
    <3> QED
      BY <1>3
  <2>2. i # Len(d) => d[i+1] = IF i + 1 < m THEN c[i+1] ELSE c[i+2]
    BY <1>1, <1>2, <2>0
  <2>3. CASE o(i) + 1 = m
    <3>1. i + 1 = m /\ ~(i + 1 < m) /\ i + 2 = m + 1
      BY <1>1, <2>0, <2>3
    <3>2. i = Len(d) <=> m = Len(c)
      BY <1>1, <1>2, <2>0, <3>1
    <3> HIDE DEF o
    <3> QED
      BY <1>5, <2>1, <2>2, <2>3, <3>1, <3>2
  <2>4. CASE o(i) + 1 # m
    <3>1. i = Len(d) <=> o(i) = Len(c)
      <4>1. CASE i < m
        <5>1. o(i) = i /\ i + 1 < m
          BY <1>1, <2>0, <2>4, <4>1
        <5> QED
          BY <1>1, <1>2, <2>0, <5>1
      <4>2. CASE ~(i < m)
        BY <1>1, <1>2, <2>0, <4>2
      <4> QED
        BY <4>1, <4>2
    <3>2. o(i) + 1 = IF i + 1 < m THEN i + 1 ELSE i + 2
      BY <1>1, <2>0, <2>4
    <3>3. o(i) \in 1..Len(c)
      BY <1>3
    <3> HIDE DEF o
    <3> QED
      BY <1>5, <2>1, <2>2, <2>4, <3>1, <3>2, <3>3
  <2> QED
    BY <2>3, <2>4
<1> QED
  BY <1>2, <1>4, <1>6, <1>7 DEF IsList, d

LEMMA SecondIn == \A n \in Nat : n >= 1 => (1 # n => 1 + 1 \in 1..n)
OBVIOUS

\* The links back of a list.
Back(c, prev) == \A i \in 1..Len(c) : prev[c[i]] = IF i = 1 THEN ENULL ELSE c[i-1]

LEMMA BackAppend ==
    ASSUME NEW S, NEW c \in Seq(S), NEW prev, Back(c, prev), NEW x \in S,
           NEW prev2, prev2[x] = IF c = <<>> THEN ENULL ELSE c[Len(c)],
           \A i \in 1..Len(c) : prev2[c[i]] = prev[c[i]]
    PROVE  Back(Append(c, x), prev2)
<1> DEFINE d == Append(c, x)
<1>1. Len(c) \in Nat
  OBVIOUS
<1>2. /\ Len(d) = Len(c) + 1 /\ d[Len(c) + 1] = x
      /\ \A i \in 1..Len(c) : d[i] = c[i]
  BY <1>1
<1> HIDE DEF d
<1>3. ASSUME NEW i \in 1..Len(d) PROVE prev2[d[i]] = IF i = 1 THEN ENULL ELSE d[i-1]
  <2>1. CASE i = Len(c) + 1
    <3>1. CASE c = <<>>
      BY <1>2, <2>1, <3>1
    <3>2. CASE c # <<>>
      <4>1. i # 1 /\ i - 1 = Len(c) /\ Len(c) \in 1..Len(c)
        BY <1>1, <2>1, <3>2
      <4> QED
        BY <1>2, <2>1, <3>2, <4>1
    <3> QED
      BY <3>1, <3>2
  <2>2. CASE i \in 1..Len(c)
    <3>1. i # 1 => i - 1 \in 1..Len(c)
      BY <1>1, <2>2
    <3> QED
      BY <1>2, <2>2, <3>1 DEF Back
  <2> QED
    BY <1>1, <1>2, <2>1, <2>2
<1> QED
  BY <1>3 DEF Back, d

LEMMA BackTail ==
    ASSUME NEW S, NEW c \in Seq(S), c # <<>>, NEW prev, Back(c, prev),
           NEW prev2, \A i \in 2..Len(c) : prev2[c[i]] = IF i = 2 THEN ENULL ELSE prev[c[i]]
    PROVE  Back(Tail(c), prev2)
<1> DEFINE d == Tail(c)
<1>1. Len(c) \in Nat /\ Len(c) >= 1
  OBVIOUS
<1>2. Len(d) = Len(c) - 1 /\ \A i \in 1..(Len(c) - 1) : d[i] = c[i+1]
  BY <1>1
<1> HIDE DEF d
<1>3. ASSUME NEW i \in 1..Len(d) PROVE prev2[d[i]] = IF i = 1 THEN ENULL ELSE d[i-1]
  <2>1. i + 1 \in 2..Len(c) /\ i + 1 \in 1..Len(c) /\ d[i] = c[i+1] /\ i + 1 # 1
        /\ (i + 1) - 1 = i /\ (i + 1 = 2 <=> i = 1)
    BY <1>1, <1>2
  <2>2. prev2[d[i]] = IF i = 1 THEN ENULL ELSE c[i]
    BY <2>1 DEF Back
  <2>3. i # 1 => d[i-1] = c[i]
    BY <1>1, <1>2
  <2> QED
    BY <2>2, <2>3
<1> QED
  BY <1>3 DEF Back, d

LEMMA BackCut ==
    ASSUME NEW S, NEW c \in Seq(S), NEW prev, Back(c, prev), NEW m \in 1..Len(c),
           NEW prev2, \A i \in 1..Len(c) : i # m =>
                        prev2[c[i]] = IF i = m + 1 THEN prev[c[m]] ELSE prev[c[i]]
    PROVE  Back(Cut(c, m), prev2)
<1> DEFINE d == Cut(c, m)
<1>1. Len(c) \in Nat /\ m \in Nat /\ 1 <= m /\ m <= Len(c)
  OBVIOUS
<1>2. /\ Len(d) = Len(c) - 1
      /\ \A i \in 1..(Len(c) - 1) : d[i] = IF i < m THEN c[i] ELSE c[i+1]
  BY <1>1, CutFacts
<1> HIDE DEF d
<1>3. ASSUME NEW i \in 1..Len(d) PROVE prev2[d[i]] = IF i = 1 THEN ENULL ELSE d[i-1]
  <2>0. i \in 1..(Len(c) - 1) /\ i \in Nat
    BY <1>1, <1>2
  <2>1. i # 1 => d[i-1] = IF i - 1 < m THEN c[i-1] ELSE c[i]
    BY <1>1, <1>2, <2>0
  <2>2. CASE i < m
    <3>1. d[i] = c[i] /\ i \in 1..Len(c) /\ i # m /\ i # m + 1 /\ i - 1 < m
      BY <1>1, <1>2, <2>0, <2>2
    <3>2. prev2[c[i]] = prev[c[i]]
      BY <3>1
    <3> QED
      BY <2>1, <3>1, <3>2 DEF Back
  <2>3. CASE i = m
    <3>1. d[i] = c[m+1] /\ m + 1 \in 1..Len(c) /\ m + 1 # m /\ i - 1 < m
      BY <1>1, <1>2, <2>0, <2>3
    <3>2. prev2[c[m+1]] = prev[c[m]]
      BY <3>1
    <3> QED
      BY <2>1, <2>3, <3>1, <3>2 DEF Back
  <2>4. CASE i > m
    <3>1. d[i] = c[i+1] /\ i + 1 \in 1..Len(c) /\ i + 1 # m /\ i + 1 # m + 1 /\ ~(i - 1 < m)
          /\ (i + 1) - 1 = i /\ i # 1 /\ i + 1 # 1
      BY <1>1, <1>2, <2>0, <2>4
    <3>2. prev2[c[i+1]] = prev[c[i+1]]
      BY <3>1
    <3> QED
      BY <2>1, <3>1, <3>2 DEF Back
  <2> QED
    BY <1>1, <2>0, <2>2, <2>3, <2>4
<1> QED
  BY <1>3 DEF Back, d

----------------------------------------------------------------------------
(***************************************************************************)
(* The descriptors D: u is the list in use, that starts at cur, and f the  *)
(* free list, that starts at fs.                                           *)
(***************************************************************************)
Descriptor == [s_next : Semd \cup {ENULL}, s_prev : Semd \cup {ENULL},
               s_semAdd : Sem \cup {ENULL}, s_link : Place \cup {None}]
Descriptors == [Semd -> Descriptor]
NextOf(D) == [x \in Semd |-> D[x].s_next]
PrevOf(D) == [x \in Semd |-> D[x].s_prev]

Descr(D, cur, fs, u, f) ==
    /\ D \in Descriptors
    /\ IsList(u, cur, NextOf(D), Semd)
    /\ IsList(f, fs, NextOf(D), Semd)
    /\ Back(u, PrevOf(D))
    /\ Back(f, PrevOf(D))
    /\ \A i \in 1..Len(u), j \in 1..Len(f) : u[i] # f[j]
    /\ \A x \in Semd : (\E i \in 1..Len(u) : u[i] = x) \/ (\E j \in 1..Len(f) : f[j] = x)
    /\ \A i \in 1..Len(u) : D[u[i]].s_semAdd \in Sem
    /\ \A i, j \in 1..Len(u) : D[u[i]].s_semAdd = D[u[j]].s_semAdd => i = j
    /\ \A j \in 1..Len(f) : D[f[j]].s_link = None

LEMMA DescriptorFacts ==
    ASSUME NEW D \in Descriptors, NEW x \in Semd
    PROVE  /\ D[x] \in Descriptor
           /\ D[x].s_next \in Semd \cup {ENULL} /\ D[x].s_prev \in Semd \cup {ENULL}
           /\ D[x].s_semAdd \in Sem \cup {ENULL} /\ D[x].s_link \in Place \cup {None}
           /\ NextOf(D)[x] = D[x].s_next /\ PrevOf(D)[x] = D[x].s_prev
           /\ x # ENULL
<1>1. D[x] \in Descriptor
  BY DEF Descriptors
<1>2. /\ D[x].s_next \in Semd \cup {ENULL} /\ D[x].s_prev \in Semd \cup {ENULL}
      /\ D[x].s_semAdd \in Sem \cup {ENULL} /\ D[x].s_link \in Place \cup {None}
  BY <1>1 DEF Descriptor
<1>3. x # ENULL
  BY TableAssumption DEF Semd, ENULL
<1> QED
  BY <1>1, <1>2, <1>3 DEF NextOf, PrevOf

LEMMA ListsAre ==
    ASSUME NEW D, NEW cur, NEW fs, NEW u, NEW f, Descr(D, cur, fs, u, f)
    PROVE  /\ List(cur, D) = u /\ List(fs, D) = f
           /\ u \in Seq(Semd) /\ f \in Seq(Semd)
           /\ Len(u) \in 0..SEMD /\ Len(f) \in 0..SEMD
           /\ \A i \in 1..Len(u) : u[i] \in Semd
           /\ \A i \in 1..Len(f) : f[i] \in Semd
           /\ D \in Descriptors
<1>1. IsList(u, cur, NextOf(D), 1..SEMD) /\ IsList(f, fs, NextOf(D), 1..SEMD) /\ SEMD \in Nat
  BY TableAssumption DEF Descr, Semd
<1>2. Chain(cur, NextOf(D), SEMD) = u /\ Chain(fs, NextOf(D), SEMD) = f
  BY <1>1, ChainIsList
<1>3. u \in Seq(Semd) /\ f \in Seq(Semd)
  BY <1>1 DEF IsList, Semd
<1>4. Len(u) \in 0..SEMD /\ Len(f) \in 0..SEMD
  BY <1>1, ShortList DEF IsList
<1>5. D \in Descriptors
  BY DEF Descr
<1>6. List(cur, D) = u /\ List(fs, D) = f
  BY <1>2 DEF List, NextOf
<1> QED
  BY <1>3, <1>4, <1>5, <1>6

\* The descriptor of s is found, if there is one.
LEMMA FindFacts ==
    ASSUME NEW D, NEW cur, NEW fs, NEW u, NEW f, Descr(D, cur, fs, u, f), NEW s \in Sem
    PROVE  /\ (\A i \in 1..Len(u) : D[u[i]].s_semAdd # s) => Find(cur, D, s) = ENULL
           /\ \A i \in 1..Len(u) : D[u[i]].s_semAdd = s => Find(cur, D, s) = u[i]
           /\ Find(cur, D, s) # ENULL =>
                \E i \in 1..Len(u) : D[u[i]].s_semAdd = s /\ Find(cur, D, s) = u[i]
<1> DEFINE found == {x \in ToSet(u) : D[x].s_semAdd = s}
<1>1. /\ List(cur, D) = u /\ u \in Seq(Semd) /\ DOMAIN u = 1..Len(u)
      /\ \A i \in 1..Len(u) : u[i] # ENULL
  BY ListsAre, DescriptorFacts
<1>2. Find(cur, D, s) = IF found = {} THEN ENULL ELSE CHOOSE x \in found : TRUE
  BY <1>1 DEF Find
<1>3. \A x : x \in found <=> \E i \in 1..Len(u) : u[i] = x /\ D[x].s_semAdd = s
  BY <1>1 DEF ToSet
<1> HIDE DEF found
<1>4. ASSUME NEW i \in 1..Len(u), D[u[i]].s_semAdd = s PROVE Find(cur, D, s) = u[i]
  <2>1. u[i] \in found
    BY <1>3, <1>4
  <2>2. \A x \in found : x = u[i]
    <3> TAKE x \in found
    <3>1. PICK j \in 1..Len(u) : u[j] = x /\ D[x].s_semAdd = s
      BY <1>3
    <3> QED
      BY <1>4, <3>1 DEF Descr
  <2> QED
    BY <1>2, <2>1, <2>2
<1>5. (\A i \in 1..Len(u) : D[u[i]].s_semAdd # s) => Find(cur, D, s) = ENULL
  BY <1>2, <1>3
<1> QED
  BY <1>4, <1>5

\* What asl.c works on.
AslRecord == [L : Links, semd : Descriptors, cur : Semd \cup {ENULL}, free : Semd \cup {ENULL}]

\* No descriptor of u is for s.
NoneFor(D, u, s) == \A i \in 1..Len(u) : D[u[i]].s_semAdd # s

\* takeSemd moves the first free descriptor to the end of the list in use.
LEMMA takeSemdMoves ==
    ASSUME NEW A \in AslRecord, NEW u, NEW f, Descr(A.semd, A.cur, A.free, u, f), f # <<>>,
           NEW s \in Sem, NoneFor(A.semd, u, s)
    PROVE  /\ takeSemd(A, s) \in AslRecord
           /\ takeSemd(A, s).L = A.L
           /\ Descr(takeSemd(A, s).semd, takeSemd(A, s).cur, takeSemd(A, s).free,
                    Append(u, f[1]), Tail(f))
           /\ A.free = f[1]
           /\ takeSemd(A, s).semd[f[1]].s_semAdd = s
           /\ \A y \in Semd : takeSemd(A, s).semd[y].s_link = A.semd[y].s_link
           /\ \A y \in Semd : y # f[1] => takeSemd(A, s).semd[y].s_semAdd = A.semd[y].s_semAdd
<1> PICK D : D = A.semd
  OBVIOUS
<1> PICK cur : cur = A.cur
  OBVIOUS
<1> PICK fs : fs = A.free
  OBVIOUS
<1> PICK B : B = takeSemd(A, s)
  OBVIOUS
<1> Descr(D, cur, fs, u, f) /\ \A i \in 1..Len(u) : D[u[i]].s_semAdd # s
  BY DEF NoneFor
<1> SUFFICES /\ B \in AslRecord
             /\ B.L = A.L
             /\ Descr(B.semd, B.cur, B.free, Append(u, f[1]), Tail(f))
             /\ fs = f[1]
             /\ B.semd[f[1]].s_semAdd = s
             /\ \A y \in Semd : B.semd[y].s_link = D[y].s_link
             /\ \A y \in Semd : y # f[1] => B.semd[y].s_semAdd = D[y].s_semAdd
  OBVIOUS
<1>1. /\ List(cur, D) = u /\ List(fs, D) = f /\ u \in Seq(Semd) /\ f \in Seq(Semd)
      /\ Len(u) \in Nat /\ Len(f) \in Nat /\ Len(f) >= 1 /\ D \in Descriptors
      /\ \A i \in 1..Len(u) : u[i] \in Semd
      /\ \A i \in 1..Len(f) : f[i] \in Semd
  BY ListsAre
<1>2. PICK x : x = f[1]
  OBVIOUS
<1>3. x \in Semd /\ fs = x /\ 1 \in 1..Len(f)
  BY <1>1, <1>2 DEF Descr, IsList
<1>4. PICK last : last = IF u = <<>> THEN ENULL ELSE u[Len(u)]
  OBVIOUS
<1>5. PICK D2 : D2 = B.semd
  OBVIOUS
<1>6. PICK cur2 : cur2 = IF u = <<>> THEN x ELSE cur
  OBVIOUS
<1>7. /\ B.L = A.L /\ B.cur = cur2 /\ B.free = D[x].s_next
      /\ B = [L |-> B.L, semd |-> B.semd, cur |-> B.cur, free |-> B.free]
      /\ D2 = [y \in Semd |-> D2[y]]
      /\ \A y \in Semd : D2[y] =
            IF y = x THEN [D[x] EXCEPT !.s_next = ENULL, !.s_semAdd = s,
                                       !.s_prev = IF last = ENULL THEN @ ELSE last]
            ELSE IF y = last THEN [D[y] EXCEPT !.s_next = x]
            ELSE IF y = D[x].s_next THEN [D[y] EXCEPT !.s_prev = ENULL]
            ELSE D[y]
  <2>1. A.free = x /\ A.cur = cur /\ A.semd = D /\ List(A.cur, A.semd) = u
    BY <1>1, <1>3
  <2>2. last = IF u = <<>> THEN ENULL ELSE Last(u)
    BY <1>4 DEF Last
  <2>3. A = [L |-> A.L, semd |-> A.semd, cur |-> A.cur, free |-> A.free]
    BY DEF AslRecord
  <2> DEFINE list == List(A.cur, A.semd)
             end == IF list = <<>> THEN ENULL ELSE Last(list)
             Table == [y \in Semd |->
                     IF y = A.free
                     THEN [A.semd[A.free] EXCEPT !.s_next = ENULL, !.s_semAdd = s,
                                                 !.s_prev = IF end = ENULL THEN @ ELSE end]
                     ELSE IF y = end THEN [A.semd[y] EXCEPT !.s_next = A.free]
                     ELSE IF y = A.semd[A.free].s_next THEN [A.semd[y] EXCEPT !.s_prev = ENULL]
                     ELSE A.semd[y]]
  <2>4. B = [A EXCEPT !.free = A.semd[A.free].s_next,
                      !.cur = IF list = <<>> THEN A.free ELSE A.cur,
                      !.semd = Table]
    BY DEF takeSemd
  <2>5. end = last
    BY <2>1, <2>2
  <2> HIDE DEF list, end
  <2>6. Table = [y \in Semd |-> Table[y]] /\ \A y \in Semd : Table[y] =
            IF y = x THEN [D[x] EXCEPT !.s_next = ENULL, !.s_semAdd = s,
                                       !.s_prev = IF last = ENULL THEN @ ELSE last]
            ELSE IF y = last THEN [D[y] EXCEPT !.s_next = x]
            ELSE IF y = D[x].s_next THEN [D[y] EXCEPT !.s_prev = ENULL]
            ELSE D[y]
    <3>1. Table = [y \in Semd |-> Table[y]]
      OBVIOUS
    <3>2. ASSUME NEW y \in Semd PROVE Table[y] =
            IF y = x THEN [D[x] EXCEPT !.s_next = ENULL, !.s_semAdd = s,
                                       !.s_prev = IF last = ENULL THEN @ ELSE last]
            ELSE IF y = last THEN [D[y] EXCEPT !.s_next = x]
            ELSE IF y = D[x].s_next THEN [D[y] EXCEPT !.s_prev = ENULL]
            ELSE D[y]
      <4>1. Table[y] = IF y = A.free
                     THEN [A.semd[A.free] EXCEPT !.s_next = ENULL, !.s_semAdd = s,
                                                 !.s_prev = IF end = ENULL THEN @ ELSE end]
                     ELSE IF y = end THEN [A.semd[y] EXCEPT !.s_next = A.free]
                     ELSE IF y = A.semd[A.free].s_next THEN [A.semd[y] EXCEPT !.s_prev = ENULL]
                     ELSE A.semd[y]
        OBVIOUS
      <4> HIDE DEF Table
      <4> QED
        BY <2>1, <2>5, <4>1
    <3> HIDE DEF Table
    <3> QED
      BY <3>1, <3>2
  <2> HIDE DEF Table
  <2>7. B = [L |-> A.L, semd |-> Table, cur |-> IF list = <<>> THEN A.free ELSE A.cur,
             free |-> A.semd[A.free].s_next]
    BY <2>3, <2>4
  <2>8. /\ B.L = A.L /\ B.semd = Table /\ B.free = A.semd[A.free].s_next
        /\ B.cur = IF list = <<>> THEN A.free ELSE A.cur
        /\ B = [L |-> B.L, semd |-> B.semd, cur |-> B.cur, free |-> B.free]
    BY <2>7
  <2>9. B.cur = cur2 /\ B.free = D[x].s_next
    BY <1>6, <2>1, <2>8 DEF list
  <2> QED
    BY <1>5, <2>6, <2>8, <2>9
<1>8. last \in Semd \cup {ENULL} /\ last # x
  <2>1. CASE u = <<>>
    BY <1>3, <1>4, <2>1, DescriptorFacts, <1>1
  <2>2. CASE u # <<>>
    <3>1. Len(u) \in 1..Len(u) /\ last = u[Len(u)]
      BY <1>1, <1>4, <2>2
    <3> QED
      BY <1>1, <1>2, <1>3, <3>1 DEF Descr
  <2> QED
    BY <2>1, <2>2
<1>9. \A y \in Semd : D[y] \in Descriptor
  BY <1>1, DescriptorFacts
<1>10. ASSUME NEW y \in Semd
       PROVE  /\ D2[y] \in Descriptor
              /\ D2[y].s_next = IF y = x THEN ENULL ELSE IF y = last THEN x ELSE D[y].s_next
              /\ D2[y].s_prev = IF y = x THEN IF last = ENULL THEN D[y].s_prev ELSE last
                                ELSE IF y = last THEN D[y].s_prev
                                ELSE IF y = D[x].s_next THEN ENULL ELSE D[y].s_prev
              /\ D2[y].s_semAdd = IF y = x THEN s ELSE D[y].s_semAdd
              /\ D2[y].s_link = D[y].s_link
  <2>1. D[y] \in Descriptor /\ D[x] \in Descriptor
    BY <1>3, <1>9
  <2>2. D2[y] = IF y = x THEN [D[x] EXCEPT !.s_next = ENULL, !.s_semAdd = s,
                                           !.s_prev = IF last = ENULL THEN @ ELSE last]
                ELSE IF y = last THEN [D[y] EXCEPT !.s_next = x]
                ELSE IF y = D[x].s_next THEN [D[y] EXCEPT !.s_prev = ENULL]
                ELSE D[y]
    BY <1>7
  <2> QED
    BY <1>3, <1>8, <2>1, <2>2, ZenonT(60) DEF Descriptor
<1>11. D2 \in Descriptors
  <2>1. D2 = [y \in Semd |-> D2[y]]
    BY <1>5, <1>7
  <2> QED
    BY <1>10, <2>1 DEF Descriptors
<1>12. \A y \in Semd : NextOf(D)[y] = D[y].s_next /\ PrevOf(D)[y] = D[y].s_prev
                       /\ NextOf(D2)[y] = D2[y].s_next /\ PrevOf(D2)[y] = D2[y].s_prev
  BY DEF NextOf, PrevOf
<1>13. /\ \A i \in 1..Len(u) : u[i] # x /\ (u[i] = last <=> i = Len(u))
       /\ \A i, j \in 1..Len(u) : u[i] = u[j] => i = j
       /\ \A i, j \in 1..Len(f) : f[i] = f[j] => i = j
       /\ \A i \in 1..Len(f) : f[i] # last
  <2>1. /\ \A i, j \in 1..Len(u) : u[i] = u[j] => i = j
        /\ \A i, j \in 1..Len(f) : f[i] = f[j] => i = j
        /\ \A i \in 1..Len(u) : u[i] # x
    BY <1>2, <1>3 DEF Descr, IsList
  <2>2. \A i \in 1..Len(u) : u[i] = last <=> i = Len(u)
    <3> TAKE i \in 1..Len(u)
    <3>1. u # <<>> /\ Len(u) \in 1..Len(u)
      BY <1>1
    <3> QED
      BY <1>4, <2>1, <3>1
  <2>3. \A i \in 1..Len(f) : f[i] # last
    <3> TAKE i \in 1..Len(f)
    <3>1. CASE u = <<>>
      BY <1>1, <1>4, <3>1, DescriptorFacts
    <3>2. CASE u # <<>>
      <4>1. Len(u) \in 1..Len(u) /\ last = u[Len(u)]
        BY <1>1, <1>4, <3>2
      <4> QED
        BY <4>1 DEF Descr
    <3> QED
      BY <3>1, <3>2
  <2> QED
    BY <2>1, <2>2, <2>3
<1>14. IsList(Append(u, x), cur2, NextOf(D2), Semd)
  <2>1. IsList(u, cur, NextOf(D), Semd)
    BY DEF Descr
  <2>2. NextOf(D2)[x] = ENULL
    BY <1>3, <1>10, <1>12
  <2>3. \A i \in 1..Len(u) : NextOf(D2)[u[i]] = IF i = Len(u) THEN x ELSE NextOf(D)[u[i]]
    BY <1>1, <1>10, <1>12, <1>13
  <2> QED
    BY <1>3, <1>6, <1>13, <2>1, <2>2, <2>3, ListAppend
<1>15. IsList(Tail(f), D[x].s_next, NextOf(D2), Semd)
  <2>1. IsList(f, fs, NextOf(D), Semd)
    BY DEF Descr
  <2>2. \A i \in 2..Len(f) : i \in 1..Len(f) /\ f[i] # f[1]
    BY <1>1, <1>13
  <2>3. \A i \in 2..Len(f) : NextOf(D2)[f[i]] = NextOf(D)[f[i]]
    BY <1>1, <1>2, <1>10, <1>12, <1>13, <2>2
  <2>4. f # <<>> /\ NextOf(D)[f[1]] = D[x].s_next
    BY <1>2, <1>3, <1>12
  <2> QED
    BY <2>1, <2>3, <2>4, ListTail
<1>16. Back(Append(u, x), PrevOf(D2))
  <2>1. Back(u, PrevOf(D)) /\ Back(f, PrevOf(D))
    BY DEF Descr
  <2>2. PrevOf(D)[x] = ENULL
    BY <1>2, <1>3, <2>1 DEF Back
  <2>3. PrevOf(D2)[x] = IF u = <<>> THEN ENULL ELSE u[Len(u)]
    <3>1. last # ENULL => u # <<>>
      BY <1>4
    <3>2. u # <<>> => last # ENULL
      <4> SUFFICES ASSUME u # <<>> PROVE last # ENULL
        OBVIOUS
      <4>1. Len(u) \in 1..Len(u)
        BY <1>1
      <4> QED
        BY <1>1, <1>4, <4>1, DescriptorFacts
    <3> QED
      BY <1>3, <1>4, <1>10, <1>12, <2>2, <3>1, <3>2
  <2>4. \A i \in 1..Len(u) : PrevOf(D2)[u[i]] = PrevOf(D)[u[i]]
    <3> TAKE i \in 1..Len(u)
    <3>1. u[i] # D[x].s_next
      <4>1. D[x].s_next = IF 1 = Len(f) THEN ENULL ELSE f[1+1]
        <5>1. IsList(f, fs, NextOf(D), Semd)
          BY DEF Descr
        <5>2. NextOf(D)[f[1]] = IF 1 = Len(f) THEN ENULL ELSE f[1+1]
          BY <1>3, <5>1 DEF IsList
        <5> QED
          BY <1>2, <1>3, <1>12, <5>2
      <4>2. 1 # Len(f) => 1 + 1 \in 1..Len(f)
        <5>1. Len(f) \in Nat /\ Len(f) >= 1
          BY <1>1
        <5> QED
          BY <5>1, SecondIn
      <4>3. u[i] # ENULL /\ \A j \in 1..Len(f) : u[i] # f[j]
        BY <1>1, DescriptorFacts DEF Descr
      <4> QED
        BY <4>1, <4>2, <4>3
    <3> QED
      BY <1>1, <1>10, <1>12, <1>13, <3>1
  <2> QED
    BY <1>1, <1>3, <2>1, <2>3, <2>4, BackAppend
<1>17. Back(Tail(f), PrevOf(D2))
  <2>1. Back(f, PrevOf(D))
    BY DEF Descr
  <2>2. \A i \in 2..Len(f) : PrevOf(D2)[f[i]] = IF i = 2 THEN ENULL ELSE PrevOf(D)[f[i]]
    <3> TAKE i \in 2..Len(f)
    <3>1. i \in 1..Len(f) /\ 2 \in 1..Len(f) /\ Len(f) # 1 /\ i # 1 /\ 2 # 1
      BY <1>1
    <3>2. f[i] # x /\ f[i] # last /\ f[i] \in Semd
      BY <1>1, <1>2, <1>3, <1>13, <3>1
    <3>3. D[x].s_next = f[1+1]
      BY <1>2, <1>3, <1>12, <3>1 DEF Descr, IsList
    <3>4. f[i] = D[x].s_next <=> i = 2
      BY <1>13, <3>1, <3>3
    <3> QED
      BY <1>10, <1>12, <3>2, <3>4
  <2> QED
    BY <1>1, <2>1, <2>2, BackTail
<1>18. PICK u2 : u2 = Append(u, x)
  OBVIOUS
<1>19. PICK f2 : f2 = Tail(f)
  OBVIOUS
<1>20. /\ Len(u2) = Len(u) + 1 /\ u2[Len(u) + 1] = x
       /\ \A i \in 1..Len(u) : u2[i] = u[i]
       /\ \A i \in 1..Len(u2) : i \in 1..Len(u) \/ i = Len(u) + 1
       /\ \A i \in 1..Len(u) : i \in 1..Len(u2)
       /\ Len(u) + 1 \in 1..Len(u2)
  <2>1. u2 \in Seq(Semd) /\ Len(u2) = Len(u) + 1 /\ u2[Len(u) + 1] = x
    BY <1>1, <1>3, <1>18
  <2>2. \A i \in 1..Len(u) : u2[i] = u[i]
    BY <1>1, <1>3, <1>18
  <2> QED
    BY <1>1, <2>1, <2>2
<1>21. /\ \A i \in 1..Len(f2) : i + 1 \in 1..Len(f) /\ f2[i] = f[i+1] /\ f2[i] # x
       /\ \A i \in 2..Len(f) : i - 1 \in 1..Len(f2) /\ f2[i-1] = f[i]
  <2>1. Len(f2) = Len(f) - 1 /\ \A i \in 1..(Len(f) - 1) : f2[i] = f[i+1]
    BY <1>1, <1>19
  <2>2. \A i \in 1..Len(f2) : i + 1 \in 1..Len(f) /\ i + 1 # 1 /\ f2[i] = f[i+1]
    BY <1>1, <2>1
  <2>3. \A i \in 2..Len(f) : i - 1 \in 1..Len(f2) /\ f2[i-1] = f[i]
    BY <1>1, <2>1
  <2> QED
    BY <1>2, <1>3, <1>13, <2>2, <2>3
<1>22. \A i \in 1..Len(u2), j \in 1..Len(f2) : u2[i] # f2[j]
  BY <1>20, <1>21 DEF Descr
<1>23. ASSUME NEW y \in Semd
       PROVE  (\E i \in 1..Len(u2) : u2[i] = y) \/ (\E j \in 1..Len(f2) : f2[j] = y)
  <2>1. CASE y = x
    BY <1>20, <2>1
  <2>2. CASE \E i \in 1..Len(u) : u[i] = y
    BY <1>20, <2>2
  <2>3. ASSUME NEW j \in 1..Len(f), f[j] = y, y # x
        PROVE  \E i \in 1..Len(f2) : f2[i] = y
    <3>1. j \in 2..Len(f)
      BY <1>1, <1>2, <2>3
    <3> QED
      BY <1>21, <2>3, <3>1
  <2> QED
    BY <2>1, <2>2, <2>3 DEF Descr
<1>24. \A i \in 1..Len(u2) : D2[u2[i]].s_semAdd = IF i \in 1..Len(u) THEN D[u[i]].s_semAdd ELSE s
  <2> TAKE i \in 1..Len(u2)
  <2>1. CASE i \in 1..Len(u)
    BY <1>1, <1>10, <1>13, <1>20, <2>1
  <2>2. CASE i = Len(u) + 1
    <3>1. i \notin 1..Len(u)
      BY <1>1, <2>2
    <3> QED
      BY <1>3, <1>10, <1>20, <2>2, <3>1
  <2> QED
    BY <1>20, <2>1, <2>2
<1>25. \A i \in 1..Len(u2) : D2[u2[i]].s_semAdd \in Sem
  BY <1>24 DEF Descr
<1>26. \A i, j \in 1..Len(u2) : D2[u2[i]].s_semAdd = D2[u2[j]].s_semAdd => i = j
  <2>1. \A i, j \in 1..Len(u) : D[u[i]].s_semAdd = D[u[j]].s_semAdd => i = j
    BY DEF Descr
  <2>2. \A i \in 1..Len(u) : D[u[i]].s_semAdd # s
    OBVIOUS
  <2> TAKE i, j \in 1..Len(u2)
  <2>3. CASE i \in 1..Len(u)
    BY <1>24, <2>1, <2>2, <2>3
  <2>4. CASE i \notin 1..Len(u)
    <3>1. i = Len(u) + 1
      BY <1>20, <2>4
    <3>2. j \notin 1..Len(u) => j = Len(u) + 1
      BY <1>20
    <3> QED
      BY <1>24, <2>2, <2>4, <3>1, <3>2
  <2> QED
    BY <2>3, <2>4
<1>27. \A j \in 1..Len(f2) : D2[f2[j]].s_link = None
  <2>1. \A j \in 1..Len(f) : f[j] \in Semd /\ D[f[j]].s_link = None
    BY <1>1 DEF Descr
  <2> TAKE j \in 1..Len(f2)
  <2>2. f2[j] \in Semd /\ D[f2[j]].s_link = None
    BY <1>21, <2>1
  <2> QED
    BY <1>10, <2>2
<1>28. Descr(D2, cur2, D[x].s_next, u2, f2)
  BY <1>11, <1>14, <1>15, <1>16, <1>17, <1>18, <1>19, <1>22, <1>23, <1>25, <1>26, <1>27 DEF Descr
<1>29. B \in AslRecord
  <2>1. B.cur \in Semd \cup {ENULL} /\ B.free \in Semd \cup {ENULL}
    <3>1. A.cur \in Semd \cup {ENULL}
      BY DEF AslRecord
    <3> QED
      BY <1>1, <1>3, <1>6, <1>7, <3>1, DescriptorFacts
  <2>2. B.semd \in Descriptors
    BY <1>5, <1>11
  <2> QED
    BY <1>7, <2>1, <2>2 DEF AslRecord
<1> QED
  BY <1>2, <1>3, <1>5, <1>7, <1>10, <1>18, <1>19, <1>28, <1>29

\* removeBlockHelper moves descriptor m of the list in use to the end of the
\* free list.
LEMMA removeBlockHelperMoves ==
    ASSUME NEW A \in AslRecord, NEW D, D = A.semd, NEW cur, cur = A.cur, NEW fs, fs = A.free,
           NEW u, NEW f, Descr(D, cur, fs, u, f), NEW m \in 1..Len(u), NEW x, x = u[m],
           D[x].s_link = None, NEW B, B = removeBlockHelper(A, x)
    PROVE  /\ B \in AslRecord
           /\ B.L = A.L
           /\ Descr(B.semd, B.cur, B.free, Cut(u, m), Append(f, x))
           /\ \A y \in Semd : B.semd[y].s_link = D[y].s_link
           /\ \A y \in Semd : y # x => B.semd[y].s_semAdd = D[y].s_semAdd
<1>1. /\ List(cur, D) = u /\ List(fs, D) = f /\ u \in Seq(Semd) /\ f \in Seq(Semd)
      /\ Len(u) \in Nat /\ Len(f) \in Nat /\ D \in Descriptors
      /\ \A i \in 1..Len(u) : u[i] \in Semd
      /\ \A i \in 1..Len(f) : f[i] \in Semd
  BY ListsAre
<1>2. m \in Nat /\ 1 <= m /\ m <= Len(u) /\ Len(u) \in Nat
  BY <1>1
<1>3. x \in Semd
  BY <1>1
<1>4. PICK last : last = IF f = <<>> THEN ENULL ELSE f[Len(f)]
  OBVIOUS
<1>5. PICK prev : prev = IF m = 1 THEN ENULL ELSE u[m-1]
  OBVIOUS
<1>6. PICK next : next = IF m = Len(u) THEN ENULL ELSE u[m+1]
  OBVIOUS
<1>7. IsList(u, cur, NextOf(D), Semd) /\ IsList(f, fs, NextOf(D), Semd)
      /\ Back(u, PrevOf(D)) /\ Back(f, PrevOf(D))
  BY DEF Descr
<1>8. \A y \in Semd : NextOf(D)[y] = D[y].s_next /\ PrevOf(D)[y] = D[y].s_prev /\ y # ENULL
  BY <1>1, DescriptorFacts
<1>9. D[x].s_next = next /\ D[x].s_prev = prev
  <2>1. NextOf(D)[u[m]] = IF m = Len(u) THEN ENULL ELSE u[m+1]
    BY <1>7 DEF IsList
  <2>2. PrevOf(D)[u[m]] = IF m = 1 THEN ENULL ELSE u[m-1]
    BY <1>7 DEF Back
  <2> QED
    BY <1>3, <1>5, <1>6, <1>8, <2>1, <2>2
<1>10. PICK D2 : D2 = B.semd
  OBVIOUS
<1>11. PICK cur2 : cur2 = IF prev = ENULL THEN next ELSE cur
  OBVIOUS
<1>12. PICK fs2 : fs2 = IF f = <<>> THEN x ELSE fs
  OBVIOUS
<1>13. /\ B.L = A.L /\ B.cur = cur2 /\ B.free = fs2
       /\ B = [L |-> B.L, semd |-> B.semd, cur |-> B.cur, free |-> B.free]
       /\ D2 = [y \in Semd |-> D2[y]]
       /\ \A y \in Semd : D2[y] =
             IF y = x THEN [D[x] EXCEPT !.s_prev = last, !.s_next = ENULL, !.s_semAdd = ENULL]
             ELSE IF y = prev THEN [D[y] EXCEPT !.s_next = next]
             ELSE IF y = next THEN [D[y] EXCEPT !.s_prev = prev]
             ELSE IF y = last THEN [D[y] EXCEPT !.s_next = x]
             ELSE D[y]
  <2>1. A.free = fs /\ A.cur = cur /\ A.semd = D /\ List(A.free, A.semd) = f
    BY <1>1
  <2>2. last = IF f = <<>> THEN ENULL ELSE Last(f)
    BY <1>4 DEF Last
  <2>3. A = [L |-> A.L, semd |-> A.semd, cur |-> A.cur, free |-> A.free]
    BY DEF AslRecord
  <2> DEFINE before == A.semd[x].s_prev
             after == A.semd[x].s_next
             frees == List(A.free, A.semd)
             end == IF frees = <<>> THEN ENULL ELSE Last(frees)
             Table == [y \in Semd |->
                     IF y = x THEN [A.semd[x] EXCEPT !.s_prev = end, !.s_next = ENULL,
                                                     !.s_semAdd = ENULL]
                     ELSE IF y = before THEN [A.semd[y] EXCEPT !.s_next = after]
                     ELSE IF y = after THEN [A.semd[y] EXCEPT !.s_prev = before]
                     ELSE IF y = end THEN [A.semd[y] EXCEPT !.s_next = x]
                     ELSE A.semd[y]]
  <2>4. B = [A EXCEPT !.cur = IF before = ENULL THEN after ELSE @,
                      !.free = IF frees = <<>> THEN x ELSE @,
                      !.semd = Table]
    BY DEF removeBlockHelper
  <2>5. end = last /\ before = prev /\ after = next
    BY <1>9, <2>1, <2>2
  <2> HIDE DEF frees, end, before, after
  <2>6. Table = [y \in Semd |-> Table[y]] /\ \A y \in Semd : Table[y] =
             IF y = x THEN [D[x] EXCEPT !.s_prev = last, !.s_next = ENULL, !.s_semAdd = ENULL]
             ELSE IF y = prev THEN [D[y] EXCEPT !.s_next = next]
             ELSE IF y = next THEN [D[y] EXCEPT !.s_prev = prev]
             ELSE IF y = last THEN [D[y] EXCEPT !.s_next = x]
             ELSE D[y]
    <3>1. Table = [y \in Semd |-> Table[y]]
      OBVIOUS
    <3>2. ASSUME NEW y \in Semd PROVE Table[y] =
             IF y = x THEN [D[x] EXCEPT !.s_prev = last, !.s_next = ENULL, !.s_semAdd = ENULL]
             ELSE IF y = prev THEN [D[y] EXCEPT !.s_next = next]
             ELSE IF y = next THEN [D[y] EXCEPT !.s_prev = prev]
             ELSE IF y = last THEN [D[y] EXCEPT !.s_next = x]
             ELSE D[y]
      <4>1. Table[y] =
                     IF y = x THEN [A.semd[x] EXCEPT !.s_prev = end, !.s_next = ENULL,
                                                     !.s_semAdd = ENULL]
                     ELSE IF y = before THEN [A.semd[y] EXCEPT !.s_next = after]
                     ELSE IF y = after THEN [A.semd[y] EXCEPT !.s_prev = before]
                     ELSE IF y = end THEN [A.semd[y] EXCEPT !.s_next = x]
                     ELSE A.semd[y]
        OBVIOUS
      <4> HIDE DEF Table
      <4> QED
        BY <2>1, <2>5, <4>1
    <3> HIDE DEF Table
    <3> QED
      BY <3>1, <3>2
  <2> HIDE DEF Table
  <2>7. B = [L |-> A.L, semd |-> Table, cur |-> IF before = ENULL THEN after ELSE A.cur,
             free |-> IF frees = <<>> THEN x ELSE A.free]
    BY <2>3, <2>4
  <2>8. /\ B.L = A.L /\ B.semd = Table /\ B.free = IF frees = <<>> THEN x ELSE A.free
        /\ B.cur = IF before = ENULL THEN after ELSE A.cur
        /\ B = [L |-> B.L, semd |-> B.semd, cur |-> B.cur, free |-> B.free]
    BY <2>7
  <2>9. B.cur = cur2 /\ B.free = fs2
    BY <1>11, <1>12, <2>1, <2>5, <2>8 DEF frees
  <2>10. B.L = A.L /\ B = [L |-> B.L, semd |-> B.semd, cur |-> B.cur, free |-> B.free]
         /\ D2 = Table
    BY <1>10, <2>8
  <2> QED
    BY <2>6, <2>9, <2>10
<1>14. /\ \A i, j \in 1..Len(u) : u[i] = u[j] => i = j
       /\ \A i, j \in 1..Len(f) : f[i] = f[j] => i = j
       /\ \A i \in 1..Len(u), j \in 1..Len(f) : u[i] # f[j]
  BY <1>7 DEF Descr, IsList
<1>15. \A i \in 1..Len(u) : /\ u[i] = x <=> i = m
                            /\ u[i] = prev <=> i + 1 = m
                            /\ u[i] = next <=> i = m + 1
                            /\ u[i] # last
  <2> TAKE i \in 1..Len(u)
  <2>0. u[i] # ENULL /\ i \in Nat
    BY <1>1, <1>8
  <2>1. u[i] = x <=> i = m
    BY <1>14
  <2>2. u[i] = prev <=> i + 1 = m
    <3>1. CASE m = 1
      <4>1. i + 1 # m
        BY <2>0, <3>1
      <4> QED
        BY <1>5, <2>0, <3>1, <4>1
    <3>2. CASE m # 1
      <4>1. m - 1 \in 1..Len(u) /\ (i + 1 = m <=> i = m - 1)
        BY <1>2, <2>0, <3>2
      <4> QED
        BY <1>5, <1>14, <3>2, <4>1
    <3> QED
      BY <3>1, <3>2
  <2>3. u[i] = next <=> i = m + 1
    <3>1. CASE m = Len(u)
      <4>1. i # m + 1
        BY <1>2, <2>0, <3>1
      <4> QED
        BY <1>6, <2>0, <3>1, <4>1
    <3>2. CASE m # Len(u)
      <4>1. m + 1 \in 1..Len(u)
        BY <1>2, <3>2
      <4> QED
        BY <1>6, <1>14, <3>2, <4>1
    <3> QED
      BY <3>1, <3>2
  <2>4. u[i] # last
    <3>1. CASE f = <<>>
      BY <1>4, <2>0, <3>1
    <3>2. CASE f # <<>>
      <4>1. Len(f) \in 1..Len(f)
        BY <1>1, <3>2
      <4> QED
        BY <1>4, <1>14, <3>2, <4>1
    <3> QED
      BY <3>1, <3>2
  <2> QED
    BY <2>1, <2>2, <2>3, <2>4
<1>16. \A i \in 1..Len(f) : /\ f[i] # x /\ f[i] # prev /\ f[i] # next
                            /\ f[i] = last <=> i = Len(f)
  <2> TAKE i \in 1..Len(f)
  <2>1. f[i] # x
    BY <1>14
  <2>0. f[i] # ENULL
    BY <1>1, <1>8
  <2>2. f[i] # prev
    <3>1. m # 1 => m - 1 \in 1..Len(u)
      BY <1>2
    <3> QED
      BY <1>5, <1>14, <2>0, <3>1
  <2>3. f[i] # next
    <3>1. m # Len(u) => m + 1 \in 1..Len(u)
      BY <1>2
    <3> QED
      BY <1>6, <1>14, <2>0, <3>1
  <2>4. f[i] = last <=> i = Len(f)
    <3>1. f # <<>> /\ Len(f) \in 1..Len(f)
      BY <1>1
    <3> QED
      BY <1>4, <1>14, <3>1
  <2> QED
    BY <2>1, <2>2, <2>3, <2>4
<1>17. last \in Semd \cup {ENULL} /\ prev \in Semd \cup {ENULL} /\ next \in Semd \cup {ENULL}
  <2>1. f # <<>> => Len(f) \in 1..Len(f)
    BY <1>1
  <2>2. last \in Semd \cup {ENULL}
    BY <1>1, <1>4, <2>1
  <2> QED
    BY <1>1, <1>3, <1>9, <2>2, DescriptorFacts
<1>18. prev = next => prev = ENULL
  <2> SUFFICES ASSUME prev = next, prev # ENULL PROVE FALSE
    OBVIOUS
  <2>1. m - 1 \in 1..Len(u) /\ m # 1 /\ m - 1 # m + 1
    BY <1>2, <1>5
  <2>2. u[m-1] = next
    BY <1>5, <2>1
  <2> QED
    BY <1>15, <2>1, <2>2
<1>19. ASSUME NEW y \in Semd
       PROVE  /\ D2[y] \in Descriptor
              /\ D2[y].s_next = IF y = x THEN ENULL ELSE IF y = prev THEN next
                                ELSE IF y = next THEN D[y].s_next
                                ELSE IF y = last THEN x ELSE D[y].s_next
              /\ D2[y].s_prev = IF y = x THEN last ELSE IF y = prev THEN D[y].s_prev
                                ELSE IF y = next THEN prev ELSE D[y].s_prev
              /\ D2[y].s_semAdd = IF y = x THEN ENULL ELSE D[y].s_semAdd
              /\ D2[y].s_link = D[y].s_link
  <2>1. D[y] \in Descriptor /\ D[x] \in Descriptor
    BY <1>1, <1>3, DescriptorFacts
  <2>2. D2[y] =
             IF y = x THEN [D[x] EXCEPT !.s_prev = last, !.s_next = ENULL, !.s_semAdd = ENULL]
             ELSE IF y = prev THEN [D[y] EXCEPT !.s_next = next]
             ELSE IF y = next THEN [D[y] EXCEPT !.s_prev = prev]
             ELSE IF y = last THEN [D[y] EXCEPT !.s_next = x]
             ELSE D[y]
    BY <1>13
  <2> QED
    BY <1>3, <1>17, <2>1, <2>2, ZenonT(60) DEF Descriptor
<1>20. D2 \in Descriptors
  BY <1>13, <1>19 DEF Descriptors
<1>21. \A y \in Semd : NextOf(D2)[y] = D2[y].s_next /\ PrevOf(D2)[y] = D2[y].s_prev
  BY DEF NextOf, PrevOf
<1>22. IsList(Cut(u, m), cur2, NextOf(D2), Semd)
  <2>1. cur2 = IF m = 1 THEN NextOf(D)[u[1]] ELSE cur
    <3>1. CASE m = 1
      BY <1>3, <1>5, <1>8, <1>9, <1>11, <3>1
    <3>2. CASE m # 1
      <4>1. m - 1 \in 1..Len(u)
        BY <1>2, <3>2
      <4>2. prev # ENULL
        BY <1>1, <1>5, <1>8, <3>2, <4>1
      <4> QED
        BY <1>11, <3>2, <4>2
    <3> QED
      BY <3>1, <3>2
  <2>2. \A i \in 1..Len(u) : i # m =>
            NextOf(D2)[u[i]] = IF i + 1 = m THEN NextOf(D)[u[m]] ELSE NextOf(D)[u[i]]
    <3> SUFFICES ASSUME NEW i \in 1..Len(u), i # m
                 PROVE  NextOf(D2)[u[i]] = IF i + 1 = m THEN NextOf(D)[u[m]] ELSE NextOf(D)[u[i]]
      OBVIOUS
    <3>1. u[i] \in Semd /\ u[i] # x /\ u[i] # last /\ (u[i] = prev <=> i + 1 = m)
      BY <1>1, <1>15
    <3>2. D2[u[i]].s_next = IF u[i] = prev THEN next ELSE D[u[i]].s_next
      BY <1>19, <3>1
    <3> QED
      BY <1>3, <1>8, <1>9, <1>21, <3>1, <3>2
  <2> QED
    BY <1>7, <2>1, <2>2, ListCut
<1>23. Back(Cut(u, m), PrevOf(D2))
  <2>1. \A i \in 1..Len(u) : i # m =>
            PrevOf(D2)[u[i]] = IF i = m + 1 THEN PrevOf(D)[u[m]] ELSE PrevOf(D)[u[i]]
    <3> SUFFICES ASSUME NEW i \in 1..Len(u), i # m
                 PROVE  PrevOf(D2)[u[i]] = IF i = m + 1 THEN PrevOf(D)[u[m]] ELSE PrevOf(D)[u[i]]
      OBVIOUS
    <3>1. u[i] \in Semd /\ u[i] # x /\ u[i] # ENULL /\ (u[i] = next <=> i = m + 1)
      BY <1>1, <1>8, <1>15
    <3>2. D2[u[i]].s_prev = IF u[i] = next THEN prev ELSE D[u[i]].s_prev
      BY <1>18, <1>19, <3>1
    <3> QED
      BY <1>3, <1>8, <1>9, <1>21, <3>1, <3>2
  <2> QED
    BY <1>1, <1>7, <2>1, BackCut
<1>24. IsList(Append(f, x), fs2, NextOf(D2), Semd)
  <2>1. NextOf(D2)[x] = ENULL
    BY <1>3, <1>19, <1>21
  <2>2. \A i \in 1..Len(f) : NextOf(D2)[f[i]] = IF i = Len(f) THEN x ELSE NextOf(D)[f[i]]
    <3> TAKE i \in 1..Len(f)
    <3>1. f[i] \in Semd /\ f[i] # x /\ f[i] # prev /\ f[i] # next /\ (f[i] = last <=> i = Len(f))
      BY <1>1, <1>16
    <3>2. D2[f[i]].s_next = IF f[i] = last THEN x ELSE D[f[i]].s_next
      BY <1>19, <3>1
    <3> QED
      BY <1>8, <1>21, <3>1, <3>2
  <2>3. \A i \in 1..Len(f) : f[i] # x
    BY <1>16
  <2> QED
    BY <1>3, <1>7, <1>12, <2>1, <2>2, <2>3, ListAppend
<1>25. Back(Append(f, x), PrevOf(D2))
  <2>1. PrevOf(D2)[x] = IF f = <<>> THEN ENULL ELSE f[Len(f)]
    BY <1>3, <1>4, <1>19, <1>21
  <2>2. \A i \in 1..Len(f) : PrevOf(D2)[f[i]] = PrevOf(D)[f[i]]
    <3> TAKE i \in 1..Len(f)
    <3>1. f[i] \in Semd /\ f[i] # x /\ f[i] # prev /\ f[i] # next
      BY <1>1, <1>16
    <3>2. D2[f[i]].s_prev = D[f[i]].s_prev
      BY <1>19, <3>1
    <3> QED
      BY <1>8, <1>21, <3>1, <3>2
  <2> QED
    BY <1>1, <1>3, <1>7, <2>1, <2>2, BackAppend
<1>26. PICK u2 : u2 = Cut(u, m)
  OBVIOUS
<1>27. PICK f2 : f2 = Append(f, x)
  OBVIOUS
<1>28. /\ \A i \in 1..Len(u2) : \E j \in 1..Len(u) : /\ j # m /\ u2[i] = u[j]
                                                     /\ j = IF i < m THEN i ELSE i + 1
       /\ \A j \in 1..Len(u) : j # m => \E i \in 1..Len(u2) : u2[i] = u[j]
  <2>1. /\ Len(u2) = Len(u) - 1
        /\ \A i \in 1..(Len(u) - 1) : u2[i] = IF i < m THEN u[i] ELSE u[i+1]
    <3>1. u \in Seq(Semd)
      BY <1>1
    <3>2. /\ Len(Cut(u, m)) = Len(u) - 1
          /\ \A i \in 1..(Len(u) - 1) : Cut(u, m)[i] = IF i < m THEN u[i] ELSE u[i+1]
      BY <3>1, CutFacts
    <3> QED
      BY <1>26, <3>2
  <2>2. \A i \in 1..Len(u2) : \E j \in 1..Len(u) : /\ j # m /\ u2[i] = u[j]
                                                   /\ j = IF i < m THEN i ELSE i + 1
    <3> TAKE i \in 1..Len(u2)
    <3>0. i \in 1..(Len(u) - 1)
      BY <2>1
    <3>1. CASE i < m
      <4>1. i \in 1..Len(u) /\ i # m /\ u2[i] = u[i]
        BY <1>2, <2>1, <3>0, <3>1
      <4> QED
        BY <3>1, <4>1
    <3>2. CASE ~(i < m)
      <4>1. i + 1 \in 1..Len(u) /\ i + 1 # m /\ u2[i] = u[i+1]
        BY <1>2, <2>1, <3>0, <3>2
      <4> QED
        BY <3>2, <4>1
    <3> QED
      BY <3>1, <3>2
  <2>3. \A j \in 1..Len(u) : j # m => \E i \in 1..Len(u2) : u2[i] = u[j]
    <3>1. u \in Seq(Semd)
      BY <1>1
    <3>2. \A j \in 1..Len(u) : j # m => \E i \in 1..(Len(u) - 1) : Cut(u, m)[i] = u[j]
      BY <3>1, CutKeeps
    <3> QED
      BY <1>26, <2>1, <3>2
  <2> QED
    BY <2>2, <2>3
<1>29. /\ \A i \in 1..Len(f2) : (i \in 1..Len(f) /\ f2[i] = f[i]) \/ f2[i] = x
       /\ \A i \in 1..Len(f) : i \in 1..Len(f2) /\ f2[i] = f[i]
       /\ \E i \in 1..Len(f2) : f2[i] = x
  <2>1. f2 \in Seq(Semd) /\ Len(f2) = Len(f) + 1 /\ f2[Len(f) + 1] = x
    BY <1>1, <1>3, <1>27
  <2>2. \A i \in 1..Len(f) : f2[i] = f[i]
    BY <1>1, <1>3, <1>27
  <2>3. /\ \A i \in 1..Len(f2) : i \in 1..Len(f) \/ i = Len(f) + 1
        /\ \A i \in 1..Len(f) : i \in 1..Len(f2)
        /\ Len(f) + 1 \in 1..Len(f2)
    BY <1>1, <2>1
  <2> QED
    BY <2>1, <2>2, <2>3
<1>30. \A i \in 1..Len(u2), j \in 1..Len(f2) : u2[i] # f2[j]
  <2> TAKE i \in 1..Len(u2), j \in 1..Len(f2)
  <2>1. PICK a \in 1..Len(u) : a # m /\ u2[i] = u[a]
    BY <1>28
  <2> QED
    BY <1>14, <1>15, <1>29, <2>1
<1>31. ASSUME NEW y \in Semd
       PROVE  (\E i \in 1..Len(u2) : u2[i] = y) \/ (\E j \in 1..Len(f2) : f2[j] = y)
  <2>1. CASE y = x
    BY <1>29, <2>1
  <2>2. ASSUME NEW i \in 1..Len(u), u[i] = y, y # x
        PROVE  \E j \in 1..Len(u2) : u2[j] = y
    BY <1>15, <1>28, <2>2
  <2>3. ASSUME NEW j \in 1..Len(f), f[j] = y
        PROVE  \E i \in 1..Len(f2) : f2[i] = y
    BY <1>29, <2>3
  <2> QED
    BY <2>1, <2>2, <2>3 DEF Descr
<1>32. \A j \in 1..Len(u) : j # m => D2[u[j]].s_semAdd = D[u[j]].s_semAdd
  BY <1>1, <1>15, <1>19
<1>33. \A i \in 1..Len(u2) : D2[u2[i]].s_semAdd \in Sem
  <2>1. \A j \in 1..Len(u) : D[u[j]].s_semAdd \in Sem
    BY DEF Descr
  <2> TAKE i \in 1..Len(u2)
  <2>2. PICK j \in 1..Len(u) : j # m /\ u2[i] = u[j]
    BY <1>28
  <2> QED
    BY <1>32, <2>1, <2>2
<1>34. \A i, j \in 1..Len(u2) : D2[u2[i]].s_semAdd = D2[u2[j]].s_semAdd => i = j
  <2>1. \A i, j \in 1..Len(u) : D[u[i]].s_semAdd = D[u[j]].s_semAdd => i = j
    BY DEF Descr
  <2> TAKE i, j \in 1..Len(u2)
  <2>2. PICK a \in 1..Len(u) : a # m /\ u2[i] = u[a] /\ a = IF i < m THEN i ELSE i + 1
    BY <1>28
  <2>3. PICK b \in 1..Len(u) : b # m /\ u2[j] = u[b] /\ b = IF j < m THEN j ELSE j + 1
    BY <1>28
  <2>4. ASSUME D2[u2[i]].s_semAdd = D2[u2[j]].s_semAdd PROVE a = b
    BY <1>32, <2>1, <2>2, <2>3, <2>4
  <2>5. a = b => i = j
    BY <1>2, <2>2, <2>3
  <2> QED
    BY <2>4, <2>5
<1>35. \A j \in 1..Len(f2) : D2[f2[j]].s_link = None
  <2>1. \A j \in 1..Len(f) : f[j] \in Semd /\ D[f[j]].s_link = None
    BY <1>1 DEF Descr
  <2> TAKE j \in 1..Len(f2)
  <2>2. f2[j] \in Semd /\ D[f2[j]].s_link = None
    BY <1>3, <1>29, <2>1
  <2> QED
    BY <1>19, <2>2
<1>36. Descr(D2, cur2, fs2, u2, f2)
  BY <1>20, <1>22, <1>23, <1>24, <1>25, <1>26, <1>27, <1>30, <1>31, <1>33, <1>34, <1>35 DEF Descr
<1>37. B \in AslRecord
  <2>1. A.cur \in Semd \cup {ENULL} /\ A.free \in Semd \cup {ENULL} /\ A.L \in Links
    BY DEF AslRecord
  <2>2. B.cur \in Semd \cup {ENULL} /\ B.free \in Semd \cup {ENULL}
    BY <1>3, <1>11, <1>12, <1>13, <1>17, <2>1
  <2>3. B.semd \in Descriptors
    BY <1>10, <1>20
  <2> QED
    BY <1>13, <2>1, <2>2, <2>3 DEF AslRecord
<1> QED
  BY <1>10, <1>13, <1>19, <1>26, <1>27, <1>36, <1>37

----------------------------------------------------------------------------
(***************************************************************************)
(* The descriptors hold the tails of the rings.                            *)
(***************************************************************************)

\* T are the tails: of the running queue, of the queues of the descriptors in
\* use, except number m, and of the queues that have no descriptor.
TailsAre(T, D, u, rq, m) ==
    /\ T["running_queue"] = rq
    /\ \A i \in 1..Len(u) : i # m => /\ T[D[u[i]].s_semAdd] = D[u[i]].s_link
                                     /\ D[u[i]].s_link # None
    /\ \A s \in Sem : (\A i \in 1..Len(u) : D[u[i]].s_semAdd # s) => T[s] = None

\* Links and descriptors together represent the rings R.
Whole(A, rq, F, u, f, T, R) ==
    /\ A \in AslRecord
    /\ Linked(A.L, T, R, F)
    /\ Descr(A.semd, A.cur, A.free, u, f)
    /\ TailsAre(T, A.semd, u, rq, 0)

\* The links and the tail in descriptor x are assigned.
Relink(A, L2, x, tp) == [A EXCEPT !.L = L2, !.semd[x].s_link = tp]

LEMMA RelinkFacts ==
    ASSUME NEW A \in AslRecord, NEW L2 \in Links, NEW x \in Semd, NEW tp \in Place \cup {None},
           NEW B, B = Relink(A, L2, x, tp)
    PROVE  /\ B \in AslRecord
           /\ B.L = L2 /\ B.cur = A.cur /\ B.free = A.free
           /\ B.semd[x].s_link = tp
           /\ \A y \in Semd : /\ y # x => B.semd[y].s_link = A.semd[y].s_link
                              /\ B.semd[y].s_next = A.semd[y].s_next
                              /\ B.semd[y].s_prev = A.semd[y].s_prev
                              /\ B.semd[y].s_semAdd = A.semd[y].s_semAdd
<1>1. PICK D : D = A.semd
  OBVIOUS
<1>2. D \in Descriptors /\ A.cur \in Semd \cup {ENULL} /\ A.free \in Semd \cup {ENULL}
  BY <1>1 DEF AslRecord
<1>3. D \in [Semd -> Descriptor] /\ D[x] \in Descriptor
  BY <1>2 DEF Descriptors
<1>4. PICK d : d = [D[x] EXCEPT !.s_link = tp]
  OBVIOUS
<1>5. /\ d \in Descriptor /\ d.s_link = tp /\ d.s_next = D[x].s_next
      /\ d.s_prev = D[x].s_prev /\ d.s_semAdd = D[x].s_semAdd
  BY <1>3, <1>4 DEF Descriptor
<1>6. PICK D2 : D2 = [D EXCEPT ![x] = d]
  OBVIOUS
<1>7. D2 \in [Semd -> Descriptor] /\ D2[x] = d /\ \A y \in Semd : y # x => D2[y] = D[y]
  BY <1>3, <1>5, <1>6
<1>8. B = [A EXCEPT !.L = L2, !.semd = D2]
  BY <1>1, <1>4, <1>6 DEF Relink, AslRecord
<1>9. B.semd = D2 /\ B.L = L2 /\ B.cur = A.cur /\ B.free = A.free /\ B \in AslRecord
  <2>1. D2 \in Descriptors
    BY <1>7 DEF Descriptors
  <2> QED
    BY <1>8, <2>1 DEF AslRecord
<1> QED
  BY <1>1, <1>5, <1>7, <1>9

\* The lists do not depend on the tails of descriptors in use.
LEMMA DescrRelinked ==
    ASSUME NEW D, NEW cur, NEW fs, NEW u, NEW f, Descr(D, cur, fs, u, f),
           NEW m \in 1..Len(u), NEW D2 \in Descriptors,
           \A y \in Semd : /\ y # u[m] => D2[y].s_link = D[y].s_link
                           /\ D2[y].s_next = D[y].s_next
                           /\ D2[y].s_prev = D[y].s_prev
                           /\ D2[y].s_semAdd = D[y].s_semAdd
    PROVE  Descr(D2, cur, fs, u, f)
<1>1. NextOf(D2) = NextOf(D) /\ PrevOf(D2) = PrevOf(D)
  BY DEF NextOf, PrevOf
<1>2. /\ \A i \in 1..Len(u) : u[i] \in Semd
      /\ \A i \in 1..Len(f) : f[i] \in Semd
  BY ListsAre
<1>3. \A j \in 1..Len(f) : f[j] # u[m]
  BY DEF Descr
<1>4. \A j \in 1..Len(f) : D2[f[j]].s_link = D[f[j]].s_link
  BY <1>2, <1>3
<1>5. \A i \in 1..Len(u) : D2[u[i]].s_semAdd = D[u[i]].s_semAdd
  BY <1>2
<1> QED
  BY <1>1, <1>4, <1>5 DEF Descr

\* An assignment to one entry of a table.
Put(g, p, v) == [g EXCEPT ![p] = v]

LEMMA PutFacts ==
    ASSUME NEW X, NEW g, DOMAIN g = X, NEW p \in X, NEW v
    PROVE  /\ DOMAIN Put(g, p, v) = X
           /\ Put(g, p, v)[p] = v
           /\ \A q \in X : q # p => Put(g, p, v)[q] = g[q]
           /\ \A Y : g \in [X -> Y] /\ v \in Y => Put(g, p, v) \in [X -> Y]
BY DEF Put

\* Descriptor m of the list in use gets the tail of a queue that is not empty.
LEMMA RelinkWhole ==
    ASSUME NEW A \in AslRecord, NEW u, NEW f, Descr(A.semd, A.cur, A.free, u, f),
           NEW m \in 1..Len(u), NEW x, x = u[m], NEW s, s = A.semd[x].s_semAdd,
           NEW T, NEW rq, TailsAre(T, A.semd, u, rq, m), T \in [Queue -> Place \cup {None}],
           NEW L2, NEW tp, NEW T2, T2 = Put(T, s, tp), NEW R2, NEW F,
           Linked(L2, T2, R2, F), tp # None,
           NEW B, B = Relink(A, L2, x, tp)
    PROVE  Whole(B, rq, F, u, f, T2, R2)
<1>1. /\ u \in Seq(Semd) /\ \A i \in 1..Len(u) : u[i] \in Semd
      /\ Len(u) \in 0..SEMD
  BY ListsAre
<1>2. x \in Semd /\ s \in Sem /\ \A i \in 1..Len(u) : i # m => A.semd[u[i]].s_semAdd # s
  BY <1>1 DEF Descr
<1>2a. \A i \in 1..Len(u) : A.semd[u[i]].s_semAdd \in Sem
  BY DEF Descr
<1>3. s \in Queue /\ L2 \in Links /\ T2 \in [Queue -> Place \cup {None}]
  BY <1>2 DEF Queue, Linked
<1>4. T2[s] = tp /\ tp \in Place \cup {None} /\ \A k \in Queue : k # s => T2[k] = T[k]
  BY <1>3 DEF Put
<1>5. /\ B \in AslRecord
      /\ B.L = L2 /\ B.cur = A.cur /\ B.free = A.free
      /\ B.semd[x].s_link = tp
      /\ \A y \in Semd : /\ y # x => B.semd[y].s_link = A.semd[y].s_link
                         /\ B.semd[y].s_next = A.semd[y].s_next
                         /\ B.semd[y].s_prev = A.semd[y].s_prev
                         /\ B.semd[y].s_semAdd = A.semd[y].s_semAdd
  BY <1>2, <1>3, <1>4, RelinkFacts
<1>6. B.semd \in Descriptors
  BY <1>5 DEF AslRecord
<1>7. Descr(B.semd, B.cur, B.free, u, f)
  BY <1>5, <1>6, DescrRelinked
<1>8. TailsAre(T2, B.semd, u, rq, 0)
  <2>1. T2["running_queue"] = rq
    BY <1>2, <1>4, TableAssumption DEF TailsAre, Queue
  <2>2. \A i \in 1..Len(u) : T2[B.semd[u[i]].s_semAdd] = B.semd[u[i]].s_link
                          /\ B.semd[u[i]].s_link # None
    <3> SUFFICES ASSUME NEW i \in 1..Len(u)
                 PROVE  /\ T2[B.semd[u[i]].s_semAdd] = B.semd[u[i]].s_link
                        /\ B.semd[u[i]].s_link # None
      OBVIOUS
    <3>1. CASE i = m
      BY <1>2, <1>4, <1>5, <3>1
    <3>2. CASE i # m
      <4>1. u[i] # x /\ u[i] \in Semd
        <5>1. u[i] = u[m] => i = m
          BY DEF Descr, IsList
        <5> QED
          BY <1>1, <3>2, <5>1
      <4>2. /\ B.semd[u[i]].s_link = A.semd[u[i]].s_link
            /\ B.semd[u[i]].s_semAdd = A.semd[u[i]].s_semAdd
        BY <1>5, <4>1
      <4>3. T2[A.semd[u[i]].s_semAdd] = T[A.semd[u[i]].s_semAdd]
        BY <1>2, <1>2a, <1>4, <3>2 DEF Queue
      <4> QED
        BY <3>2, <4>2, <4>3 DEF TailsAre
    <3> QED
      BY <3>1, <3>2
  <2>3. ASSUME NEW t \in Sem, \A i \in 1..Len(u) : B.semd[u[i]].s_semAdd # t
        PROVE  T2[t] = None
    <3>1. \A i \in 1..Len(u) : A.semd[u[i]].s_semAdd # t
      BY <1>1, <1>5, <2>3
    <3>2. T[t] = None /\ t # s
      BY <3>1 DEF TailsAre
    <3> QED
      BY <1>4, <3>2 DEF Queue
  <2> QED
    BY <2>1, <2>2, <2>3 DEF TailsAre
<1> QED
  BY <1>5, <1>7, <1>8 DEF Whole

\* A ring's head is found, if it has one.
LEMMA HeadIs ==
    ASSUME NEW r, NEW tp, NEW L, IsRing(r, tp, L)
    PROVE  /\ headQueue(L, tp) = ENULL <=> r = <<>>
           /\ tp = None <=> r = <<>>
           /\ r # <<>> => tp \in Place /\ headQueue(L, tp) = r[1].next
<1>1. CASE r = <<>>
  BY <1>1 DEF IsRing, headQueue, None
<1>2. CASE r # <<>>
  <2>1. /\ Len(r) \in 1..Len(r) /\ 1 \in 1..Len(r) /\ tp = r[Len(r)]
        /\ tp \in Place /\ r[1] \in Place
    BY <1>2 DEF IsRing
  <2>2. tp.next # ENULL /\ r[1].next # ENULL /\ tp # None
    BY <2>1, NoneIsNoPlace
  <2>3. headQueue(L, tp) = r[1].next
    BY <2>1, <2>2 DEF IsRing, headQueue, At
  <2> QED
    BY <1>2, <2>1, <2>2, <2>3
<1> QED
  BY <1>1, <1>2

\* The same, for the terms themselves.
LEMMA GiveBack ==
    ASSUME NEW A \in AslRecord, NEW u, NEW f, Descr(A.semd, A.cur, A.free, u, f),
           NEW m \in 1..Len(u), A.semd[u[m]].s_link = None
    PROVE  /\ removeBlockHelper(A, u[m]) \in AslRecord
           /\ removeBlockHelper(A, u[m]).L = A.L
           /\ Descr(removeBlockHelper(A, u[m]).semd, removeBlockHelper(A, u[m]).cur,
                    removeBlockHelper(A, u[m]).free, Cut(u, m), Append(f, u[m]))
           /\ \A y \in Semd : removeBlockHelper(A, u[m]).semd[y].s_link = A.semd[y].s_link
           /\ \A y \in Semd : y # u[m] =>
                removeBlockHelper(A, u[m]).semd[y].s_semAdd = A.semd[y].s_semAdd
<1>1. PICK D : D = A.semd
  OBVIOUS
<1>2. PICK cur : cur = A.cur
  OBVIOUS
<1>3. PICK fs : fs = A.free
  OBVIOUS
<1>4. PICK x : x = u[m]
  OBVIOUS
<1>5. PICK B : B = removeBlockHelper(A, x)
  OBVIOUS
<1>6. Descr(D, cur, fs, u, f) /\ D[x].s_link = None
  BY <1>1, <1>2, <1>3, <1>4
<1> HIDE DEF None
<1>7. /\ B \in AslRecord
      /\ B.L = A.L
      /\ Descr(B.semd, B.cur, B.free, Cut(u, m), Append(f, x))
      /\ \A y \in Semd : B.semd[y].s_link = D[y].s_link
      /\ \A y \in Semd : y # x => B.semd[y].s_semAdd = D[y].s_semAdd
  BY <1>1, <1>2, <1>3, <1>4, <1>5, <1>6, removeBlockHelperMoves
<1> QED
  BY <1>1, <1>4, <1>5, <1>7

\* Some lists of descriptors go with A and the rings R.
Stands(A, rq, F, T, R) == \E u, f : Whole(A, rq, F, u, f, T, R)

\* x is the descriptor of s.
IsFor(x, s, A, u) == \E m \in 1..Len(u) : x = u[m] /\ s = A.semd[x].s_semAdd

\* The queue of s, whose descriptor is x, has lost a process.
LEMMA shrinkWhole ==
    ASSUME NEW A, NEW rq, NEW F, NEW u, NEW f, NEW T, NEW R, Whole(A, rq, F, u, f, T, R),
           NEW x, NEW s, IsFor(x, s, A, u), NEW r, NEW R2, Linked(r.L, Put(T, s, r.tp), R2, F)
    PROVE  /\ shrink(A, x, r).L = r.L
           /\ Stands(shrink(A, x, r), rq, F, Put(T, s, r.tp), R2)
<1> PICK m \in 1..Len(u) : x = u[m] /\ s = A.semd[x].s_semAdd
  BY DEF IsFor
<1> PICK T2 : T2 = Put(T, s, r.tp)
  OBVIOUS
<1> PICK B : B = shrink(A, x, r)
  OBVIOUS
<1>0. /\ A \in AslRecord /\ Linked(A.L, T, R, F) /\ Descr(A.semd, A.cur, A.free, u, f)
      /\ TailsAre(T, A.semd, u, rq, 0) /\ T \in [Queue -> Place \cup {None}]
  BY DEF Whole, Linked
<1>1. u \in Seq(Semd) /\ Len(u) \in 0..SEMD /\ \A i \in 1..Len(u) : u[i] \in Semd
  BY <1>0, ListsAre
<1>2. x \in Semd /\ s \in Sem /\ \A i \in 1..Len(u) : i # m => A.semd[u[i]].s_semAdd # s
  BY <1>0, <1>1 DEF Descr
<1>3. s \in Queue /\ r.L \in Links /\ T2 \in [Queue -> Place \cup {None}]
  BY <1>2 DEF Queue, Linked
<1>4. T2[s] = r.tp /\ r.tp \in Place \cup {None} /\ \A k \in Queue : k # s => T2[k] = T[k]
  BY <1>0, <1>3 DEF Put
<1>5. PICK A2 : A2 = Relink(A, r.L, x, r.tp)
  OBVIOUS
<1>6. /\ A2 \in AslRecord
      /\ A2.L = r.L /\ A2.cur = A.cur /\ A2.free = A.free
      /\ A2.semd[x].s_link = r.tp
      /\ \A y \in Semd : /\ y # x => A2.semd[y].s_link = A.semd[y].s_link
                         /\ A2.semd[y].s_next = A.semd[y].s_next
                         /\ A2.semd[y].s_prev = A.semd[y].s_prev
                         /\ A2.semd[y].s_semAdd = A.semd[y].s_semAdd
  BY <1>0, <1>2, <1>3, <1>4, <1>5, RelinkFacts, SMTT(30)
<1>7. IsRing(R2[s], r.tp, r.L)
  BY <1>3, <1>4 DEF Linked
<1>8. B = IF headQueue(r.L, r.tp) = ENULL THEN removeBlockHelper(A2, x) ELSE A2
  BY <1>5, <1>6 DEF shrink, Relink
<1>9. CASE R2[s] # <<>>
  <2>1. r.tp # None /\ B = A2
    BY <1>7, <1>8, <1>9, HeadIs
  <2>2. TailsAre(T, A.semd, u, rq, m)
    BY <1>0 DEF TailsAre
  <2>3. Whole(A2, rq, F, u, f, T2, R2)
    BY <1>0, <1>5, <2>1, <2>2, RelinkWhole
  <2> QED
    BY <1>6, <2>1, <2>3 DEF Stands
<1>10. CASE R2[s] = <<>>
  <2>1. r.tp = None /\ B = removeBlockHelper(A2, x)
    BY <1>7, <1>8, <1>10, HeadIs
  <2>2. A2.semd \in Descriptors
    BY <1>6 DEF AslRecord
  <2>3. Descr(A2.semd, A2.cur, A2.free, u, f)
    BY <1>0, <1>6, <2>2, DescrRelinked
  <2>4. /\ B \in AslRecord
        /\ B.L = A2.L
        /\ Descr(B.semd, B.cur, B.free, Cut(u, m), Append(f, x))
        /\ \A y \in Semd : B.semd[y].s_link = A2.semd[y].s_link
        /\ \A y \in Semd : y # x => B.semd[y].s_semAdd = A2.semd[y].s_semAdd
    <3>1. A2.semd[u[m]].s_link = None
      BY <1>6, <2>1
    <3>2. A2 \in AslRecord /\ B = removeBlockHelper(A2, u[m]) /\ x = u[m]
      BY <1>6, <2>1
    <3> HIDE DEF None
    <3>3. /\ removeBlockHelper(A2, u[m]) \in AslRecord
          /\ removeBlockHelper(A2, u[m]).L = A2.L
          /\ Descr(removeBlockHelper(A2, u[m]).semd, removeBlockHelper(A2, u[m]).cur,
                   removeBlockHelper(A2, u[m]).free, Cut(u, m), Append(f, u[m]))
          /\ \A y \in Semd : removeBlockHelper(A2, u[m]).semd[y].s_link = A2.semd[y].s_link
          /\ \A y \in Semd : y # u[m] =>
               removeBlockHelper(A2, u[m]).semd[y].s_semAdd = A2.semd[y].s_semAdd
      BY <2>3, <3>1, <3>2, GiveBack, Zenon
    <3> QED
      BY <3>2, <3>3
  <2>5. PICK c : c = Cut(u, m)
    OBVIOUS
  <2>6. /\ c \in Seq(Semd)
        /\ Len(c) = Len(u) - 1
        /\ \A i \in 1..(Len(u) - 1) : c[i] = IF i < m THEN u[i] ELSE u[i+1]
    BY <1>1, <2>5, CutFacts
  <2>7. \A j \in 1..Len(c) : \E i \in 1..Len(u) : i # m /\ c[j] = u[i]
    <3> SUFFICES ASSUME NEW j \in 1..Len(c) PROVE \E i \in 1..Len(u) : i # m /\ c[j] = u[i]
      OBVIOUS
    <3>1. Len(u) \in Nat /\ j \in 1..(Len(u) - 1)
      BY <1>1, <2>6, TableAssumption
    <3>2. CASE j < m
      BY <2>6, <3>1, <3>2
    <3>3. CASE ~(j < m)
      <4>1. j+1 \in 1..Len(u) /\ j+1 # m
        BY <3>1, <3>3
      <4> QED
        BY <2>6, <3>1, <3>3, <4>1
    <3> QED
      BY <3>2, <3>3
  <2>8. \A i \in 1..Len(u) : i # m => \E j \in 1..Len(c) : c[j] = u[i]
    <3> SUFFICES ASSUME NEW i \in 1..Len(u), i # m PROVE \E j \in 1..Len(c) : c[j] = u[i]
      OBVIOUS
    <3>1. \E j \in 1..(Len(u) - 1) : Cut(u, m)[j] = u[i]
      BY <1>1, CutKeeps
    <3> QED
      BY <2>5, <2>6, <3>1
  <2>9. \A i \in 1..Len(u) : i # m => /\ B.semd[u[i]].s_semAdd = A.semd[u[i]].s_semAdd
                                      /\ B.semd[u[i]].s_link = A.semd[u[i]].s_link
                                      /\ A.semd[u[i]].s_semAdd \in Sem
    <3> SUFFICES ASSUME NEW i \in 1..Len(u), i # m
                 PROVE  /\ B.semd[u[i]].s_semAdd = A.semd[u[i]].s_semAdd
                        /\ B.semd[u[i]].s_link = A.semd[u[i]].s_link
                        /\ A.semd[u[i]].s_semAdd \in Sem
      OBVIOUS
    <3>1. u[i] = u[m] => i = m
      BY <1>0 DEF Descr, IsList
    <3>2. u[i] # x /\ u[i] \in Semd
      BY <1>1, <3>1
    <3>3. A.semd[u[i]].s_semAdd \in Sem
      BY <1>0 DEF Descr
    <3> QED
      BY <1>6, <2>4, <3>2, <3>3
  <2>10. TailsAre(T2, B.semd, c, rq, 0)
    <3>1. T2["running_queue"] = rq
      BY <1>0, <1>2, <1>4, TableAssumption DEF TailsAre, Queue
    <3>2. ASSUME NEW j \in 1..Len(c)
          PROVE  T2[B.semd[c[j]].s_semAdd] = B.semd[c[j]].s_link /\ B.semd[c[j]].s_link # None
      <4>1. PICK i \in 1..Len(u) : i # m /\ c[j] = u[i]
        BY <2>7
      <4>2. /\ B.semd[u[i]].s_semAdd = A.semd[u[i]].s_semAdd
            /\ B.semd[u[i]].s_link = A.semd[u[i]].s_link
            /\ A.semd[u[i]].s_semAdd \in Sem
        BY <2>9, <4>1
      <4>3. A.semd[u[i]].s_semAdd # s
        BY <1>2, <4>1
      <4>4. T[A.semd[u[i]].s_semAdd] = A.semd[u[i]].s_link /\ A.semd[u[i]].s_link # None
        BY <1>0, <1>1 DEF TailsAre
      <4>5. T2[A.semd[u[i]].s_semAdd] = T[A.semd[u[i]].s_semAdd]
        BY <1>4, <4>2, <4>3 DEF Queue
      <4> QED
        BY <4>1, <4>2, <4>4, <4>5
    <3>3. ASSUME NEW t \in Sem, \A j \in 1..Len(c) : B.semd[c[j]].s_semAdd # t
          PROVE  T2[t] = None
      <4>1. CASE t = s
        BY <1>4, <2>1, <4>1
      <4>2. CASE t # s
        <5>1. ASSUME NEW i \in 1..Len(u) PROVE A.semd[u[i]].s_semAdd # t
          <6>1. CASE i = m
            BY <4>2, <6>1
          <6>2. CASE i # m
            <7>1. PICK j \in 1..Len(c) : c[j] = u[i]
              BY <2>8, <6>2
            <7> QED
              BY <2>9, <3>3, <6>2, <7>1
          <6> QED
            BY <6>1, <6>2
        <5>2. T[t] = None
          BY <1>0, <5>1 DEF TailsAre
        <5> QED
          BY <1>4, <4>2, <5>2 DEF Queue
      <4> QED
        BY <4>1, <4>2
    <3> QED
      BY <3>1, <3>2, <3>3 DEF TailsAre
  <2>11. Whole(B, rq, F, c, Append(f, x), T2, R2)
    BY <1>6, <2>4, <2>5, <2>10 DEF Whole
  <2> QED
    BY <1>6, <2>4, <2>11 DEF Stands
<1> QED
  BY <1>9, <1>10

----------------------------------------------------------------------------
(***************************************************************************)
(* The view.                                                               *)
(***************************************************************************)
FreeNext(L) == [p \in Proc |-> L[p][0].next]
Shown(R) == [k \in Queue |-> Procs(R[k])]

LEMMA ViewIs ==
    ASSUME NEW A, NEW rq, NEW F, NEW u, NEW f, NEW T, NEW R, Whole(A, rq, F, u, f, T, R),
           NEW fr, NEW fh, IsList(fr, fh, FreeNext(A.L), Proc)
    PROVE  View(A.L, fh, rq, A.semd, A.cur) = [free |-> fr, q |-> Shown(R)]
<1>0. /\ A \in AslRecord /\ Linked(A.L, T, R, F) /\ Descr(A.semd, A.cur, A.free, u, f)
      /\ TailsAre(T, A.semd, u, rq, 0) /\ T \in [Queue -> Place \cup {None}]
  BY DEF Whole, Linked
<1>1. FreeList(fh, A.L) = fr
  <2>1. PICK n : n = MAXPROC
    OBVIOUS
  <2>2. n \in Nat /\ IsList(fr, fh, FreeNext(A.L), 1..n)
    BY <2>1, TableAssumption DEF Proc
  <2>3. Chain(fh, FreeNext(A.L), n) = fr
    BY <2>2, ChainIsList
  <2> QED
    BY <2>1, <2>3 DEF FreeList, FreeNext
<1>2. \A k \in Queue : Members(A.L, T[k]) = Procs(R[k])
  BY <1>0, MembersAre DEF Linked
<1>3. Members(A.L, None) = <<>>
  BY DEF Members
<1> DEFINE Q(k) == IF k \notin Sem THEN Members(A.L, rq)
                   ELSE LET x == Find(A.cur, A.semd, k)
                        IN  IF x = ENULL THEN <<>> ELSE Members(A.L, A.semd[x].s_link)
<1>4. ASSUME NEW k \in Queue PROVE Q(k) = Procs(R[k])
  <2>1. CASE k \notin Sem
    BY <1>0, <1>2, <2>1 DEF Queue, TailsAre
  <2>2. CASE k \in Sem
    <3>1. CASE Find(A.cur, A.semd, k) = ENULL
      <4>1. \A i \in 1..Len(u) : A.semd[u[i]].s_semAdd # k
        <5>1. \A i \in 1..Len(u) : u[i] # ENULL
          BY <1>0, ListsAre, DescriptorFacts
        <5> QED
          BY <1>0, <2>2, <3>1, <5>1, FindFacts
      <4>2. T[k] = None
        BY <1>0, <2>2, <4>1 DEF TailsAre
      <4> QED
        BY <1>2, <1>3, <2>2, <3>1, <4>2
    <3>2. CASE Find(A.cur, A.semd, k) # ENULL
      <4>1. PICK i \in 1..Len(u) : A.semd[u[i]].s_semAdd = k /\ Find(A.cur, A.semd, k) = u[i]
        BY <1>0, <2>2, <3>2, FindFacts
      <4>2. T[k] = A.semd[u[i]].s_link
        BY <1>0, <4>1 DEF TailsAre
      <4> QED
        BY <1>2, <2>2, <3>2, <4>1, <4>2
    <3> QED
      BY <3>1, <3>2
  <2> QED
    BY <2>1, <2>2
<1> HIDE DEF Q
<1>5. [k \in Queue |-> Q(k)] = Shown(R)
  BY <1>4 DEF Shown
<1>6. View(A.L, fh, rq, A.semd, A.cur) = [free |-> FreeList(fh, A.L), q |-> [k \in Queue |-> Q(k)]]
  BY DEF View, Q, Queue
<1> QED
  BY <1>1, <1>5, <1>6

----------------------------------------------------------------------------
(***************************************************************************)
(* The counters.                                                           *)
(***************************************************************************)

\* The queues p stands in.
Of(R, p) == {k \in Queue : \E n \in 1..Len(R[k]) : R[k][n].next = p}

\* One link is in use for each of them.
LEMMA LinkCount ==
    ASSUME NEW L, NEW T, NEW R, NEW F, Linked(L, T, R, F), NEW p \in Proc, p \notin F,
           IsFiniteSet(Of(R, p))
    PROVE  Cardinality({i \in Slot : L[p][i] # None}) = Cardinality(Of(R, p))
<1> DEFINE used == {i \in Slot : L[p][i] # None}
           at(k) == CHOOSE n \in 1..Len(R[k]) : R[k][n].next = p
           g == [k \in Of(R, p) |-> R[k][at(k)].index]
<1>1. ASSUME NEW k \in Of(R, p)
      PROVE  \E n \in 1..Len(R[k]) : /\ R[k][n].next = p /\ g[k] = R[k][n].index
                                     /\ R[k][n] \in Place
  <2>1. at(k) \in 1..Len(R[k]) /\ R[k][at(k)].next = p
    BY DEF Of
  <2> HIDE DEF at
  <2>2. g[k] = R[k][at(k)].index
    OBVIOUS
  <2>3. R[k] \in Seq(Place)
    BY DEF Of, Linked
  <2> HIDE DEF g
  <2> QED
    BY <2>1, <2>2, <2>3
<1>2. \A x \in Place : x.next = p => L[p][x.index] = At(L, x)
  BY DEF At
<1>3. ASSUME NEW k \in Of(R, p) PROVE g[k] \in used
  <2>1. PICK n \in 1..Len(R[k]) : R[k][n].next = p /\ g[k] = R[k][n].index /\ R[k][n] \in Place
    BY <1>1
  <2>2. k \in Queue /\ IsRing(R[k], T[k], L) /\ R[k] \in Seq(Place)
    BY DEF Of, Linked
  <2>3. At(L, R[k][n]) \in Place
    <3>1. 1 \in 1..Len(R[k]) /\ (n # Len(R[k]) => n+1 \in 1..Len(R[k]))
      BY <2>2
    <3> QED
      BY <2>2, <3>1 DEF IsRing
  <2>4. L[p][g[k]] # None /\ g[k] \in Slot
    BY <1>2, <2>1, <2>3, NoneIsNoPlace
  <2> QED
    BY <2>4
<1>4. ASSUME NEW k \in Of(R, p), NEW l \in Of(R, p), g[k] = g[l] PROVE k = l
  <2>1. PICK n \in 1..Len(R[k]) : R[k][n].next = p /\ g[k] = R[k][n].index /\ R[k][n] \in Place
    BY <1>1
  <2>2. PICK m \in 1..Len(R[l]) : R[l][m].next = p /\ g[l] = R[l][m].index /\ R[l][m] \in Place
    BY <1>1
  <2>3. R[k][n] = R[l][m]
    BY <1>4, <2>1, <2>2, PlaceEqual
  <2>4. k \in Queue /\ l \in Queue
    BY DEF Of
  <2> QED
    BY <2>3, <2>4 DEF Linked
<1>5. ASSUME NEW i \in used PROVE \E k \in Of(R, p) : g[k] = i
  <2>1. PICK x : x = [next |-> p, index |-> i]
    OBVIOUS
  <2>2. x \in Place /\ x.next = p /\ x.index = i /\ At(L, x) # None
    BY <2>1 DEF Place, At
  <2>3. \E k \in Queue : \E n \in 1..Len(R[k]) : R[k][n] = x
    BY <2>2 DEF Linked
  <2>4. PICK k \in Queue : \E n \in 1..Len(R[k]) : R[k][n] = x
    BY <2>3
  <2>5. PICK n \in 1..Len(R[k]) : R[k][n] = x
    BY <2>4
  <2>6. k \in Of(R, p)
    BY <2>2, <2>5 DEF Of
  <2>7. PICK m \in 1..Len(R[k]) : R[k][m].next = p /\ g[k] = R[k][m].index
    BY <1>1, <2>6
  <2>8. m = n
    BY <2>2, <2>5, <2>7 DEF Linked, IsRing
  <2> QED
    BY <2>2, <2>5, <2>6, <2>7, <2>8
<1> HIDE DEF used
<1>6. g \in [Of(R, p) -> used]
  BY <1>3
<1> HIDE DEF g
<1>7. g \in Bijection(Of(R, p), used)
  BY <1>4, <1>5, <1>6 DEF Bijection, Injection, Surjection, IsInjective
<1>8. Cardinality(used) = Cardinality(Of(R, p))
  BY <1>7, FS_Bijection DEF ExistsBijection
<1> QED
  BY <1>8 DEF used

LEMMA SlotCount == IsFiniteSet(Slot) /\ Cardinality(Slot) = SEMMAX
<1>1. PICK n : n = SEMMAX - 1
  OBVIOUS
<1>2. n \in Nat /\ n + 1 = SEMMAX
  BY <1>1, TableAssumption
<1>3. IsFiniteSet(0..n) /\ Cardinality(0..n) = n - 0 + 1
  BY <1>2, FS_Interval
<1> QED
  BY <1>1, <1>2, <1>3 DEF Slot

\* A process that stands in fewer than SEMMAX queues has a link to spare.
LEMMA LinkToSpare ==
    ASSUME NEW L, NEW T, NEW R, NEW F, Linked(L, T, R, F), NEW p \in Proc, p \notin F,
           IsFiniteSet(Of(R, p)), Cardinality(Of(R, p)) < SEMMAX
    PROVE  \E i \in Slot : L[p][i].index = ENULL
<1> SUFFICES ASSUME \A i \in Slot : L[p][i].index # ENULL PROVE FALSE
  OBVIOUS
<1>1. \A i \in Slot : L[p][i] # None
  BY DEF None
<1>2. {i \in Slot : L[p][i] # None} = Slot
  BY <1>1
<1>3. Cardinality(Slot) = Cardinality(Of(R, p))
  BY <1>2, LinkCount
<1> QED
  BY <1>3, SlotCount, FS_CardinalityType, TableAssumption

\* v, the semvec of a process, names the semaphores of S, each once.
Names(v, S) ==
    /\ v \in [Slot -> Sem \cup {ENULL}]
    /\ \A s \in Sem : s \in S <=> \E i \in Slot : v[i] = s
    /\ \A i, j \in Slot : v[i] = v[j] => i = j \/ v[i] = ENULL

\* The first entry that holds s.
LEMMA FirstEntry ==
    ASSUME NEW v, NEW s, \E i \in Slot : v[i] = s
    PROVE  LET i == CHOOSE i \in Slot : v[i] = s /\ \A j \in 0..(i-1) : v[j] # s
           IN  i \in Slot /\ v[i] = s
<1> DEFINE U == {i \in Slot : v[i] = s}
<1>1. U \subseteq Nat /\ U # {}
  BY TableAssumption DEF Slot
<1>2. PICK i \in U : \A j \in U : i <= j
  <2> HIDE DEF U
  <2> QED
    BY <1>1, LeastNatural
<1>3. i \in Slot /\ v[i] = s
  OBVIOUS
<1>4. \A j \in 0..(i-1) : v[j] # s
  <2> SUFFICES ASSUME NEW j \in 0..(i-1), v[j] = s PROVE FALSE
    OBVIOUS
  <2>1. j \in Slot /\ j < i
    BY <1>3, TableAssumption DEF Slot
  <2>2. i <= j
    BY <1>2, <2>1
  <2> QED
    BY <1>3, <2>1, <2>2, TableAssumption DEF Slot
<1> QED
  BY <1>3, <1>4

LEMMA SemIsNoNull == ENULL \notin Sem
BY TableAssumption

\* setSem finds room for s.
LEMMA setSemAdds ==
    ASSUME NEW v, NEW S, Names(v, S), IsFiniteSet(S), Cardinality(S) < SEMMAX,
           NEW s \in Sem, s \notin S
    PROVE  Names(setSem(v, s), S \cup {s})
<1>1. \E i \in Slot : v[i] = ENULL
  <2> SUFFICES ASSUME \A i \in Slot : v[i] # ENULL PROVE FALSE
    OBVIOUS
  <2>1. v \in [Slot -> S] /\ \A i, j \in Slot : v[i] = v[j] => i = j
    BY DEF Names
  <2>2. v \in Injection(Slot, S)
    BY <2>1 DEF Injection, IsInjective
  <2>3. Cardinality(Slot) <= Cardinality(S)
    BY <2>2, FS_Injection
  <2> QED
    BY <2>3, SlotCount, FS_CardinalityType, TableAssumption
<1> DEFINE i == CHOOSE i \in Slot : v[i] = ENULL /\ \A j \in 0..(i-1) : v[j] # ENULL
<1>2. i \in Slot /\ v[i] = ENULL
  <2>1. LET n == CHOOSE n \in Slot : v[n] = ENULL /\ \A j \in 0..(n-1) : v[j] # ENULL
        IN  n \in Slot /\ v[n] = ENULL
    BY <1>1, FirstEntry
  <2> QED
    BY <2>1
<1>3. setSem(v, s) = [v EXCEPT ![i] = s]
  BY <1>1 DEF setSem
<1> HIDE DEF i
<1>4. PICK w : w = setSem(v, s)
  OBVIOUS
<1>5. /\ w \in [Slot -> Sem \cup {ENULL}]
      /\ \A j \in Slot : w[j] = IF j = i THEN s ELSE v[j]
  BY <1>2, <1>3, <1>4 DEF Names
<1>6. \A j \in Slot : v[j] # s
  BY DEF Names
<1>7. \A t \in Sem : t \in S \cup {s} <=> \E j \in Slot : w[j] = t
  BY <1>2, <1>5, SemIsNoNull DEF Names
<1>8. \A j, l \in Slot : w[j] = w[l] => j = l \/ w[j] = ENULL
  BY <1>5, <1>6 DEF Names
<1> QED
  BY <1>4, <1>5, <1>7, <1>8 DEF Names

\* setSem2 clears the entry of s.
LEMMA setSem2Drops ==
    ASSUME NEW v, NEW S, Names(v, S), NEW s \in Sem, s \in S
    PROVE  /\ Names(setSem2(v, s), S \ {s})
           /\ \A j \in Slot : setSem2(v, s)[j] = IF v[j] = s THEN ENULL ELSE v[j]
<1>1. \E i \in Slot : v[i] = s
  BY DEF Names
<1> DEFINE i == CHOOSE i \in Slot : v[i] = s /\ \A j \in 0..(i-1) : v[j] # s
<1>2. i \in Slot /\ v[i] = s
  <2>1. LET n == CHOOSE n \in Slot : v[n] = s /\ \A j \in 0..(n-1) : v[j] # s
        IN  n \in Slot /\ v[n] = s
    BY <1>1, FirstEntry
  <2> QED
    BY <2>1
<1>3. setSem2(v, s) = [v EXCEPT ![i] = ENULL]
  BY <1>1 DEF setSem2
<1> HIDE DEF i
<1>4. PICK w : w = setSem2(v, s)
  OBVIOUS
<1>5. /\ w \in [Slot -> Sem \cup {ENULL}]
      /\ \A j \in Slot : w[j] = IF j = i THEN ENULL ELSE v[j]
  BY <1>2, <1>3, <1>4 DEF Names
<1>6. \A j \in Slot : v[j] = s <=> j = i
  BY <1>2, SemIsNoNull DEF Names
<1>7. \A t \in Sem : t \in S \ {s} <=> \E j \in Slot : w[j] = t
  BY <1>2, <1>5, <1>6, SemIsNoNull DEF Names
<1>8. \A j, l \in Slot : w[j] = w[l] => j = l \/ w[j] = ENULL
  BY <1>5, <1>6 DEF Names
<1> QED
  BY <1>4, <1>5, <1>6, <1>7, <1>8 DEF Names

\* qcount is the number of queues, and semvec names the semaphores among them.
Tallied(qc, sv, R) ==
    /\ qc \in [Proc -> Nat]
    /\ sv \in [Proc -> [Slot -> Sem \cup {ENULL}]]
    /\ \A p \in Proc : IsFiniteSet(Of(R, p)) /\ qc[p] = Cardinality(Of(R, p))
    /\ \A p \in Proc : Names(sv[p], Of(R, p))

\* Only the queues of process p change.
LEMMA TalliedStep ==
    ASSUME NEW qc, NEW sv, NEW R, Tallied(qc, sv, R), NEW p \in Proc, NEW R2,
           \A q \in Proc : q # p => Of(R2, q) = Of(R, q),
           IsFiniteSet(Of(R2, p)), NEW n, n = Cardinality(Of(R2, p)),
           NEW v, Names(v, Of(R2, p))
    PROVE  Tallied(Put(qc, p, n), Put(sv, p, v), R2)
<1>1. n \in Nat /\ v \in [Slot -> Sem \cup {ENULL}]
  BY FS_CardinalityType DEF Names
<1>2. PICK qc2 : qc2 = Put(qc, p, n)
  OBVIOUS
<1>3. PICK sv2 : sv2 = Put(sv, p, v)
  OBVIOUS
<1>4. qc2 \in [Proc -> Nat] /\ qc2[p] = n /\ \A q \in Proc : q # p => qc2[q] = qc[q]
  BY <1>1, <1>2 DEF Tallied, Put
<1>5. /\ sv2 \in [Proc -> [Slot -> Sem \cup {ENULL}]] /\ sv2[p] = v
      /\ \A q \in Proc : q # p => sv2[q] = sv[q]
  <2>1. PICK Vec : Vec = [Slot -> Sem \cup {ENULL}]
    OBVIOUS
  <2>2. sv \in [Proc -> Vec] /\ v \in Vec
    BY <1>1, <2>1 DEF Tallied
  <2>3. sv2 \in [Proc -> Vec] /\ sv2[p] = v /\ \A q \in Proc : q # p => sv2[q] = sv[q]
    BY <1>3, <2>2 DEF Put
  <2> QED
    BY <2>1, <2>3
<1>6. ASSUME NEW q \in Proc
      PROVE  IsFiniteSet(Of(R2, q)) /\ qc2[q] = Cardinality(Of(R2, q)) /\ Names(sv2[q], Of(R2, q))
  <2>1. CASE q = p
    BY <1>4, <1>5, <2>1
  <2>2. CASE q # p
    BY <1>4, <1>5, <2>2 DEF Tallied
  <2> QED
    BY <2>1, <2>2
<1> QED
  BY <1>2, <1>3, <1>4, <1>5, <1>6 DEF Tallied

\* p is in ring r.
Has(r, p) == \E n \in 1..Len(r) : r[n].next = p

LEMMA OfHas ==
    ASSUME NEW R, NEW q, NEW l
    PROVE  l \in Of(R, q) <=> l \in Queue /\ Has(R[l], q)
BY DEF Of, Has

LEMMA HasAppend ==
    ASSUME NEW r \in Seq(Place), NEW y \in Place, NEW q
    PROVE  Has(Append(r, y), q) <=> Has(r, q) \/ q = y.next
<1>1. PICK r2 : r2 = Append(r, y)
  OBVIOUS
<1>2. PICK n : n = Len(r)
  OBVIOUS
<1>3. /\ n \in Nat /\ Len(r2) = n + 1 /\ r2[n + 1] = y
      /\ \A i \in 1..n : r2[i] = r[i]
  BY <1>1, <1>2
<1>4. n + 1 \in 1..(n + 1) /\ \A i \in 1..(n + 1) : i = n + 1 \/ i \in 1..n
  BY <1>3
<1>5. \A i \in 1..n : i \in 1..(n + 1)
  BY <1>3
<1> QED
  BY <1>1, <1>2, <1>3, <1>4, <1>5 DEF Has

LEMMA HasCut ==
    ASSUME NEW r \in Seq(Place), NEW m \in 1..Len(r), NEW q,
           \A i, j \in 1..Len(r) : r[i].next = r[j].next => i = j
    PROVE  Has(Cut(r, m), q) <=> Has(r, q) /\ q # r[m].next
<1>1. PICK r2 : r2 = Cut(r, m)
  OBVIOUS
<1>2. /\ Len(r) \in Nat /\ Len(r2) = Len(r) - 1
      /\ \A i \in 1..(Len(r) - 1) : r2[i] = IF i < m THEN r[i] ELSE r[i+1]
  BY <1>1, CutFacts
<1>3. \A j \in 1..Len(r2) : \E i \in 1..Len(r) : i # m /\ r2[j] = r[i]
  <2> SUFFICES ASSUME NEW j \in 1..Len(r2)
               PROVE  \E i \in 1..Len(r) : i # m /\ r2[j] = r[i]
    OBVIOUS
  <2>1. j \in 1..(Len(r) - 1)
    BY <1>2
  <2>2. CASE j < m
    BY <1>2, <2>1, <2>2
  <2>3. CASE ~(j < m)
    <3>1. j+1 \in 1..Len(r) /\ j+1 # m
      BY <1>2, <2>1, <2>3
    <3> QED
      BY <1>2, <2>1, <2>3, <3>1
  <2> QED
    BY <2>2, <2>3
<1>4. \A i \in 1..Len(r) : i # m => \E j \in 1..Len(r2) : r2[j] = r[i]
  <2> SUFFICES ASSUME NEW i \in 1..Len(r), i # m
               PROVE  \E j \in 1..Len(r2) : r2[j] = r[i]
    OBVIOUS
  <2>1. \E j \in 1..(Len(r) - 1) : Cut(r, m)[j] = r[i]
    BY CutKeeps
  <2> QED
    BY <1>1, <1>2, <2>1
<1>5. Has(r2, q) => Has(r, q) /\ q # r[m].next
  <2> SUFFICES ASSUME Has(r2, q) PROVE Has(r, q) /\ q # r[m].next
    OBVIOUS
  <2>1. PICK j \in 1..Len(r2) : r2[j].next = q
    BY DEF Has
  <2>2. PICK i \in 1..Len(r) : i # m /\ r2[j] = r[i]
    BY <1>3
  <2> QED
    BY <2>1, <2>2 DEF Has
<1>6. Has(r, q) /\ q # r[m].next => Has(r2, q)
  <2> SUFFICES ASSUME Has(r, q), q # r[m].next PROVE Has(r2, q)
    OBVIOUS
  <2>1. PICK i \in 1..Len(r) : r[i].next = q
    BY DEF Has
  <2>2. PICK j \in 1..Len(r2) : r2[j] = r[i]
    BY <1>4, <2>1
  <2> QED
    BY <2>1, <2>2 DEF Has
<1> QED
  BY <1>1, <1>5, <1>6

\* The queues of the processes, when a place of a ring is added or taken out.
LEMMA OfAppend ==
    ASSUME NEW R \in Rings, NEW k \in Queue, NEW y \in Place,
           NEW R2, R2 = Put(R, k, Append(R[k], y)), NEW p, p = y.next
    PROVE  /\ Of(R2, p) = Of(R, p) \cup {k}
           /\ \A q \in Proc : q # p => Of(R2, q) = Of(R, q)
<1>1. R2[k] = Append(R[k], y) /\ R[k] \in Seq(Place) /\ \A l \in Queue : l # k => R2[l] = R[l]
  BY DEF Put, Rings
<1>2. \A q : Has(R2[k], q) <=> Has(R[k], q) \/ q = p
  BY <1>1, HasAppend
<1>3. ASSUME NEW l, NEW q PROVE l \in Of(R2, q) <=> l \in Of(R, q) \/ (l = k /\ q = p)
  <2>1. /\ l \in Of(R2, q) <=> l \in Queue /\ Has(R2[l], q)
        /\ l \in Of(R, q) <=> l \in Queue /\ Has(R[l], q)
    BY OfHas
  <2>2. CASE l = k
    BY <1>2, <2>1, <2>2
  <2>3. CASE l # k
    BY <1>1, <2>1, <2>3
  <2> QED
    BY <2>2, <2>3
<1> QED
  <2>1. \A l : l \in Of(R2, p) <=> l \in Of(R, p) \/ l = k
    BY <1>3
  <2>2. ASSUME NEW q, q # p PROVE Of(R2, q) = Of(R, q)
    <3>1. \A l : l \in Of(R2, q) <=> l \in Of(R, q)
      BY <1>3, <2>2
    <3> QED
      BY <3>1, Zenon
  <2>3. Of(R2, p) = Of(R, p) \cup {k}
    BY <2>1, Zenon
  <2> QED
    BY <2>2, <2>3

LEMMA OfCut ==
    ASSUME NEW R \in Rings, NEW k \in Queue, NEW m \in 1..Len(R[k]),
           \A i, j \in 1..Len(R[k]) : R[k][i].next = R[k][j].next => i = j,
           NEW R2, R2 = Put(R, k, Cut(R[k], m)), NEW p, p = R[k][m].next
    PROVE  /\ Of(R2, p) = Of(R, p) \ {k}
           /\ \A q \in Proc : q # p => Of(R2, q) = Of(R, q)
<1>1. R2[k] = Cut(R[k], m) /\ R[k] \in Seq(Place) /\ \A l \in Queue : l # k => R2[l] = R[l]
  BY DEF Put, Rings
<1>2. \A q : Has(R2[k], q) <=> Has(R[k], q) /\ q # p
  BY <1>1, HasCut
<1>3. \A l, q : l \in Of(R2, q) <=> l \in Of(R, q) /\ ~(l = k /\ q = p)
  BY <1>1, <1>2, OfHas
<1> QED
  <2>1. \A l : l \in Of(R2, p) <=> l \in Of(R, p) /\ l # k
    BY <1>3
  <2>2. ASSUME NEW q, q # p PROVE Of(R2, q) = Of(R, q)
    <3>1. \A l : l \in Of(R2, q) <=> l \in Of(R, q)
      BY <1>3, <2>2
    <3> QED
      BY <3>1, Zenon
  <2>3. Of(R2, p) = Of(R, p) \ {k}
    BY <2>1, Zenon
  <2> QED
    BY <2>2, <2>3

----------------------------------------------------------------------------
(***************************************************************************)
(* The queues that are shown change as the rings do.                       *)
(***************************************************************************)
LEMMA ProcsAppend ==
    ASSUME NEW r \in Seq(Place), NEW y \in Place
    PROVE  Procs(Append(r, y)) = Append(Procs(r), y.next)
<1>1. PICK r2 : r2 = Append(r, y)
  OBVIOUS
<1>2. /\ r2 \in Seq(Place) /\ Len(r) \in Nat /\ Len(r2) = Len(r) + 1 /\ r2[Len(r) + 1] = y
      /\ \A i \in 1..Len(r) : r2[i] = r[i]
  BY <1>1
<1>3. PICK a : a = Procs(r)
  OBVIOUS
<1>4. a \in Seq(Proc) /\ Len(a) = Len(r) /\ \A i \in 1..Len(r) : a[i] = r[i].next
  BY <1>3, ProcsFacts
<1>5. PICK b : b = Procs(r2)
  OBVIOUS
<1>6. b \in Seq(Proc) /\ Len(b) = Len(r2) /\ \A i \in 1..Len(r2) : b[i] = r2[i].next
  BY <1>2, <1>5, ProcsFacts
<1>7. y.next \in Proc
  BY NoneIsNoPlace
<1>8. PICK c : c = Append(a, y.next)
  OBVIOUS
<1>9. /\ c \in Seq(Proc) /\ Len(c) = Len(r) + 1 /\ c[Len(r) + 1] = y.next
      /\ \A i \in 1..Len(r) : c[i] = a[i]
  BY <1>4, <1>7, <1>8
<1>10. \A i \in 1..Len(r2) : b[i] = c[i]
  <2> SUFFICES ASSUME NEW i \in 1..Len(r2) PROVE b[i] = c[i]
    OBVIOUS
  <2>1. CASE i \in 1..Len(r)
    BY <1>2, <1>4, <1>6, <1>9, <2>1
  <2>2. CASE i \notin 1..Len(r)
    <3>1. i = Len(r) + 1
      BY <1>2, <2>2
    <3> QED
      BY <1>2, <1>6, <1>9, <3>1
  <2> QED
    BY <2>1, <2>2
<1>11. b = c
  BY <1>2, <1>6, <1>9, <1>10
<1> QED
  BY <1>1, <1>3, <1>5, <1>8, <1>11

LEMMA ProcsCut ==
    ASSUME NEW r \in Seq(Place), NEW m \in 1..Len(r)
    PROVE  Procs(Cut(r, m)) = Cut(Procs(r), m)
<1>1. PICK r2 : r2 = Cut(r, m)
  OBVIOUS
<1>2. /\ r2 \in Seq(Place) /\ Len(r) \in Nat /\ Len(r2) = Len(r) - 1
      /\ \A i \in 1..(Len(r) - 1) : r2[i] = IF i < m THEN r[i] ELSE r[i+1]
  BY <1>1, CutFacts
<1>3. PICK a : a = Procs(r)
  OBVIOUS
<1>4. a \in Seq(Proc) /\ Len(a) = Len(r) /\ \A i \in 1..Len(r) : a[i] = r[i].next
  BY <1>3, ProcsFacts
<1>5. PICK b : b = Procs(r2)
  OBVIOUS
<1>6. b \in Seq(Proc) /\ Len(b) = Len(r2) /\ \A i \in 1..Len(r2) : b[i] = r2[i].next
  BY <1>2, <1>5, ProcsFacts
<1>7. PICK c : c = Cut(a, m)
  OBVIOUS
<1>8. /\ c \in Seq(Proc) /\ Len(c) = Len(r) - 1
      /\ \A i \in 1..(Len(r) - 1) : c[i] = IF i < m THEN a[i] ELSE a[i+1]
  <2>1. m \in 1..Len(a)
    BY <1>4
  <2> QED
    BY <1>4, <1>7, <2>1, CutFacts
<1>9. \A i \in 1..(Len(r) - 1) : b[i] = c[i]
  <2> SUFFICES ASSUME NEW i \in 1..(Len(r) - 1) PROVE b[i] = c[i]
    OBVIOUS
  <2>1. i \in 1..Len(r) /\ i+1 \in 1..Len(r)
    BY <1>2
  <2> QED
    BY <1>2, <1>4, <1>6, <1>8, <2>1
<1>10. b = c
  BY <1>2, <1>6, <1>8, <1>9
<1> QED
  BY <1>1, <1>3, <1>5, <1>7, <1>10

LEMMA CutFirst ==
    ASSUME NEW S, NEW s \in Seq(S), s # <<>>
    PROVE  Cut(s, 1) = Tail(s)
<1>1. Len(s) \in Nat /\ 1 \in 1..Len(s) /\ Len(s) >= 1
  OBVIOUS
<1>2. PICK c : c = Cut(s, 1)
  OBVIOUS
<1>3. c \in Seq(S) /\ Len(c) = Len(s) - 1 /\ \A i \in 1..(Len(s) - 1) : c[i] = s[i+1]
  <2>1. \A i \in 1..(Len(s) - 1) : ~(i < 1)
    BY <1>1
  <2> QED
    BY <1>1, <1>2, <2>1, CutFacts
<1>4. Tail(s) \in Seq(S) /\ Len(Tail(s)) = Len(s) - 1 /\ \A i \in 1..(Len(s) - 1) : Tail(s)[i] = s[i+1]
  BY <1>1
<1> QED
  BY <1>1, <1>2, <1>3, <1>4

\* What is shown of a ring that loses a place.
LEMMA ShownCut ==
    ASSUME NEW r \in Seq(Place), NEW m \in 1..Len(r),
           \A i, j \in 1..Len(r) : r[i].next = r[j].next => i = j
    PROVE  /\ Procs(Cut(r, m)) = Without(Procs(r), {r[m].next})
           /\ m = 1 => Procs(Cut(r, m)) = Tail(Procs(r)) /\ r[m].next = Head(Procs(r))
<1>1. PICK a : a = Procs(r)
  OBVIOUS
<1>2. /\ a \in Seq(Proc) /\ Len(a) = Len(r) /\ \A i \in 1..Len(r) : a[i] = r[i].next
      /\ a # <<>>
  BY <1>1, ProcsFacts
<1>3. m \in 1..Len(a) /\ \A i \in 1..Len(a) : a[i] = a[m] => i = m
  BY <1>2
<1>4. Without(a, {a[m]}) = Cut(a, m)
  BY <1>2, <1>3, WithoutCut
<1>5. m = 1 => Cut(a, m) = Tail(a) /\ a[m] = Head(a)
  BY <1>2, CutFirst
<1> QED
  BY <1>1, <1>2, <1>4, <1>5, ProcsCut

LEMMA ShownMiss ==
    ASSUME NEW r \in Seq(Place), NEW p, ~Has(r, p)
    PROVE  Without(Procs(r), {p}) = Procs(r)
<1>1. \A i \in 1..Len(Procs(r)) : Procs(r)[i] # p
  BY ProcsFacts DEF Has
<1> QED
  BY <1>1, ProcsFacts, WithoutNone

LEMMA ShownSet ==
    ASSUME NEW R \in [Queue -> Seq(Place)], NEW k \in Queue, NEW r
    PROVE  Shown(Put(R, k, r)) = Put(Shown(R), k, Procs(r))
<1>1. PICK R2 : R2 = Put(R, k, r)
  OBVIOUS
<1>2. R2[k] = r /\ \A l \in Queue : l # k => R2[l] = R[l]
  BY <1>1, PutFacts
<1>3. PICK V1 : V1 = Shown(R)
  OBVIOUS
<1>4. DOMAIN V1 = Queue /\ V1 = [l \in Queue |-> V1[l]] /\ \A l \in Queue : V1[l] = Procs(R[l])
  BY <1>3 DEF Shown
<1>5. PICK V2 : V2 = Shown(R2)
  OBVIOUS
<1>6. DOMAIN V2 = Queue /\ V2 = [l \in Queue |-> V2[l]] /\ \A l \in Queue : V2[l] = Procs(R2[l])
  BY <1>5 DEF Shown
<1>7. \A l \in Queue : V2[l] = IF l = k THEN Procs(r) ELSE V1[l]
  BY <1>2, <1>4, <1>6
<1>8. V2 = Put(V1, k, Procs(r))
  BY <1>4, <1>6, <1>7 DEF Put
<1> QED
  BY <1>1, <1>3, <1>5, <1>8

LEMMA MembersShown ==
    ASSUME NEW r \in Seq(Place), NEW p
    PROVE  p \in ToSet(Procs(r)) <=> Has(r, p)
<1>1. /\ Procs(r) \in Seq(Proc) /\ Len(Procs(r)) = Len(r) /\ Len(r) \in Nat
      /\ \A i \in 1..Len(r) : Procs(r)[i] = r[i].next
  BY ProcsFacts
<1>2. ToSet(Procs(r)) = {Procs(r)[i] : i \in 1..Len(r)}
  BY <1>1 DEF ToSet
<1> QED
  BY <1>1, <1>2 DEF Has

\* The operators of the abstract specification are those of this module.
LEMMA AbsOps ==
    /\ \A S : Abs!ToSet(S) = ToSet(S)
    /\ \A S : Abs!Cardinality(S) = Cardinality(S)
    /\ \A s, K : Abs!Without(s, K) = Without(s, K)
<1>1. \A S : Abs!ToSet(S) = ToSet(S)
  BY DEF Abs!ToSet, ToSet
<1>2. \A S : Abs!Cardinality(S) = Cardinality(S)
  BY DEF Abs!Cardinality, Cardinality
<1>3. \A s, K : Abs!Without(s, K) = Without(s, K)
  BY DEF Abs!Without, Without
<1> QED
  BY <1>1, <1>2, <1>3

\* The abstract specification's queues of p.
LEMMA AbsIn ==
    ASSUME NEW fr, NEW R \in [Queue -> Seq(Place)], view = [free |-> fr, q |-> Shown(R)], NEW p
    PROVE  /\ Abs!In(p) = Of(R, p)
           /\ view.free = fr /\ view.q = Shown(R)
           /\ \A k \in Queue : view.q[k] = Procs(R[k])
<1>1. view.free = fr /\ view.q = Shown(R)
  OBVIOUS
<1>2. \A k \in Queue : view.q[k] = Procs(R[k])
  BY <1>1 DEF Shown
<1>3. \A k \in Queue : p \in ToSet(view.q[k]) <=> Has(R[k], p)
  BY <1>2, MembersShown
<1>4. Abs!In(p) = {k \in Queue : p \in ToSet(view.q[k])}
  BY AbsOps DEF Abs!In, Abs!Queue, Abs!RQ, Queue
<1>5. \A k : k \in Abs!In(p) <=> k \in Of(R, p)
  BY <1>3, <1>4, OfHas
<1>6. Abs!In(p) = Of(R, p)
  BY <1>5, Zenon
<1> QED
  BY <1>1, <1>2, <1>6

----------------------------------------------------------------------------
(***************************************************************************)
(* The inductive invariant: the links, the descriptors and the counters    *)
(* represent a free list fr, lists u and f of descriptors, and rings R.    *)
(***************************************************************************)
Repr(A, fh, rq, qc, sv, fr, u, f, T, R) ==
    /\ IsList(fr, fh, FreeNext(A.L), Proc)
    /\ Whole(A, rq, ToSet(fr), u, f, T, R)
    /\ Tallied(qc, sv, R)

Now(fr, u, f, T, R) ==
    /\ Repr(Asl, free_head, running_queue, qcount, semvec, fr, u, f, T, R)
    /\ view = [free |-> fr, q |-> Shown(R)]

QInv == \E fr, u, f, T, R : Now(fr, u, f, T, R)

ViewStep == view' = View(p_link', free_head', running_queue', semd', cur_sem')

\* What holds of the links holds of the view.
LEMMA Shows ==
    ASSUME NEW fr, NEW u, NEW f, NEW T, NEW R, NEW A, NEW fh, NEW rq, NEW qc, NEW sv,
           Repr(A, fh, rq, qc, sv, fr, u, f, T, R),
           A = Asl', fh = free_head', rq = running_queue', qc = qcount', sv = semvec', ViewStep
    PROVE  QInv' /\ view' = [free |-> fr, q |-> Shown(R)]
<1>1. A.L = p_link' /\ A.semd = semd' /\ A.cur = cur_sem' /\ A.free = free_head_s'
  BY DEF Asl
<1>2. view' = View(A.L, fh, rq, A.semd, A.cur)
  BY <1>1 DEF ViewStep
<1>3. view' = [free |-> fr, q |-> Shown(R)]
  BY <1>2, ViewIs DEF Repr
<1>4. Now(fr, u, f, T, R)'
  BY <1>3 DEF Now
<1> QED
  BY <1>3, <1>4 DEF QInv

LEMMA NowFacts ==
    ASSUME NEW fr, NEW u, NEW f, NEW T, NEW R, Now(fr, u, f, T, R)
    PROVE  /\ Asl.L = p_link /\ Asl.semd = semd /\ Asl.cur = cur_sem /\ Asl.free = free_head_s
           /\ Asl \in AslRecord
           /\ Whole(Asl, running_queue, ToSet(fr), u, f, T, R)
           /\ Linked(p_link, T, R, ToSet(fr))
           /\ Descr(semd, cur_sem, free_head_s, u, f)
           /\ TailsAre(T, semd, u, running_queue, 0)
           /\ R \in Rings /\ R \in [Queue -> Seq(Place)] /\ T \in [Queue -> Place \cup {None}]
           /\ p_link \in Links
           /\ IsList(fr, free_head, FreeNext(p_link), Proc)
           /\ fr \in Seq(Proc)
           /\ Tallied(qcount, semvec, R)
           /\ view.free = fr /\ view.q = Shown(R)
           /\ \A k \in Queue : view.q[k] = Procs(R[k])
           /\ \A p : Abs!In(p) = Of(R, p)
           /\ \A p : Allocated(p) <=> p \notin ToSet(fr)
           /\ \A p : Abs!Allocated(p) <=> p \notin ToSet(fr)
<1>1. Asl.L = p_link /\ Asl.semd = semd /\ Asl.cur = cur_sem /\ Asl.free = free_head_s
  BY DEF Asl
<1>2. /\ Whole(Asl, running_queue, ToSet(fr), u, f, T, R)
      /\ IsList(fr, free_head, FreeNext(p_link), Proc)
      /\ Tallied(qcount, semvec, R)
      /\ view = [free |-> fr, q |-> Shown(R)]
  BY <1>1 DEF Now, Repr
<1>3. /\ Linked(p_link, T, R, ToSet(fr)) /\ Descr(semd, cur_sem, free_head_s, u, f)
      /\ TailsAre(T, semd, u, running_queue, 0) /\ Asl \in AslRecord
  BY <1>1, <1>2 DEF Whole
<1>4. R \in [Queue -> Seq(Place)] /\ T \in [Queue -> Place \cup {None}] /\ p_link \in Links
  BY <1>3 DEF Linked
<1>5. fr \in Seq(Proc)
  BY <1>2 DEF IsList
<1>6. /\ view.free = fr /\ view.q = Shown(R)
      /\ \A k \in Queue : view.q[k] = Procs(R[k])
  BY <1>2, <1>4, AbsIn
<1>7. \A p : Abs!In(p) = Of(R, p)
  BY <1>2, <1>4, AbsIn
<1>8. \A p : Allocated(p) <=> p \notin ToSet(fr)
  BY <1>6 DEF Allocated
<1>9. \A p : Abs!Allocated(p) <=> p \notin ToSet(fr)
  BY <1>6, AbsOps DEF Abs!Allocated
<1> QED
  BY <1>1, <1>2, <1>3, <1>4, <1>5, <1>6, <1>7, <1>8, <1>9 DEF Rings

----------------------------------------------------------------------------
(***************************************************************************)
(* allocProc and freeProc.                                                 *)
(***************************************************************************)

\* The free processes become F2, and no link of a ring changes.
LEMMA FreeChanged ==
    ASSUME NEW L, NEW T, NEW R, NEW F, Linked(L, T, R, F), NEW L2 \in Links,
           NEW F2 \in SUBSET Proc,
           \A k \in Queue : \A i \in 1..Len(R[k]) : R[k][i].next \notin F2,
           \A x \in Place : x.next \notin F \cup F2 => At(L2, x) = At(L, x),
           \A x \in Place : x.next \in F \ F2 => At(L2, x) = None,
           \A x \in Place : x.next \in F2 /\ x.index # 0 => At(L2, x) = None
    PROVE  Linked(L2, T, R, F2)
<1>1. ASSUME NEW k \in Queue PROVE IsRing(R[k], T[k], L2)
  <2>1. IsRing(R[k], T[k], L) /\ R[k] \in Seq(Place)
    BY DEF Linked
  <2>2. \A i \in 1..Len(R[k]) : R[k][i] \in Place /\ R[k][i].next \notin F \cup F2
    BY <2>1 DEF Linked
  <2> QED
    BY <2>1, <2>2, RingKept
<1>2. ASSUME NEW x \in Place, x.next \notin F2
      PROVE  At(L2, x) = None \/ \E k \in Queue : \E i \in 1..Len(R[k]) : R[k][i] = x
  <2>1. CASE x.next \in F
    BY <1>2, <2>1
  <2>2. CASE x.next \notin F
    BY <1>2, <2>2 DEF Linked
  <2> QED
    BY <2>1, <2>2
<1> QED
  BY <1>1, <1>2 DEF Linked

LEMMA FirstSlot == 0 \in Slot /\ \A p \in Proc : [next |-> p, index |-> 0] \in Place
BY TableAssumption DEF Slot, Place

LEMMA FreeNextIs ==
    ASSUME NEW L, NEW p \in Proc
    PROVE  FreeNext(L)[p] = At(L, [next |-> p, index |-> 0]).next
BY DEF FreeNext, At

\* allocProc takes the first free process.
LEMMA allocProcStep ==
    ASSUME NEW fr, NEW u, NEW f, NEW T, NEW R, Now(fr, u, f, T, R), allocProc, ViewStep
    PROVE  QInv' /\ Abs!AallocProc
<1>0. /\ Asl.L = p_link /\ Asl.semd = semd /\ Asl.cur = cur_sem /\ Asl.free = free_head_s
      /\ Asl \in AslRecord
      /\ Linked(p_link, T, R, ToSet(fr)) /\ Descr(semd, cur_sem, free_head_s, u, f)
      /\ TailsAre(T, semd, u, running_queue, 0) /\ p_link \in Links
      /\ IsList(fr, free_head, FreeNext(p_link), Proc) /\ fr \in Seq(Proc)
      /\ Tallied(qcount, semvec, R) /\ view.free = fr /\ view.q = Shown(R)
  BY NowFacts
<1>1. /\ ret' = Returned(free_head) /\ qcount' = qcount /\ running_queue' = running_queue
      /\ semvec' = semvec /\ semd' = semd /\ cur_sem' = cur_sem /\ free_head_s' = free_head_s
  BY DEF allocProc, asl
<1>2. PICK A : A = Asl'
  OBVIOUS
<1>3. A = [L |-> p_link', semd |-> semd, cur |-> cur_sem, free |-> free_head_s]
  BY <1>1, <1>2 DEF Asl
<1>4. A.L = p_link' /\ A.semd = semd /\ A.cur = cur_sem /\ A.free = free_head_s
  BY <1>3
<1>5. CASE fr = <<>>
  <2>1. free_head = ENULL
    BY <1>0, <1>5 DEF IsList
  <2>2. p_link' = p_link /\ free_head' = free_head
    BY <2>1 DEF allocProc
  <2>3. A = Asl
    BY <1>3, <2>2 DEF Asl
  <2>4. Repr(A, free_head, running_queue, qcount, semvec, fr, u, f, T, R)
    BY <2>3 DEF Now
  <2>5. QInv' /\ view' = [free |-> fr, q |-> Shown(R)]
    BY <1>1, <1>2, <2>2, <2>4, Shows
  <2>6. ret' = Abs!Returned(Abs!ENULL)
    BY <1>1, <2>1 DEF Returned, Abs!Returned, Abs!ENULL, ENULL
  <2> QED
    BY <1>0, <1>5, <2>5, <2>6 DEF Abs!AallocProc
<1>6. CASE fr # <<>>
  <2>1. 1 \in 1..Len(fr) /\ free_head = fr[1] /\ fr[1] = Head(fr) /\ fr[1] \in Proc
    BY <1>0, <1>6 DEF IsList
  <2>2. free_head # ENULL
    BY <2>1, TableAssumption DEF Proc, ENULL
  <2>3. PICK p : p = fr[1]
    OBVIOUS
  <2>4. PICK x0 : x0 = [next |-> p, index |-> 0]
    OBVIOUS
  <2>5. x0 \in Place /\ x0.next = p /\ x0.index = 0
    BY <2>1, <2>3, <2>4, FirstSlot
  <2>6. PICK L2 : L2 = p_link'
    OBVIOUS
  <2>7. L2 = Set(p_link, x0, None) /\ free_head' = p_link[p][0].next
    BY <2>1, <2>2, <2>3, <2>5, <2>6 DEF allocProc, Set
  <2>8. L2 \in Links /\ \A z \in Place : At(L2, z) = IF z = x0 THEN None ELSE At(p_link, z)
    BY <1>0, <2>5, <2>7, LinkSet, PlaceIsLink
  <2>9. /\ Tail(fr) \in Seq(Proc) /\ ToSet(fr) = ToSet(Tail(fr)) \cup {p} /\ p \notin ToSet(Tail(fr))
        /\ ToSet(fr) \subseteq Proc
    <3>1. IsInjective(fr)
      BY <1>0 DEF IsList, IsInjective
    <3>2. ToSet(fr) \subseteq Proc
      BY <1>0 DEF ToSet
    <3> QED
      BY <1>0, <1>6, <2>1, <2>3, <3>1, <3>2, TailFacts
  <2>10. Linked(L2, T, R, ToSet(Tail(fr)))
    <3>1. \A k \in Queue : \A i \in 1..Len(R[k]) : R[k][i].next \notin ToSet(Tail(fr))
      BY <1>0, <2>9 DEF Linked
    <3>2. \A x \in Place : x.next \notin ToSet(fr) \cup ToSet(Tail(fr)) => At(L2, x) = At(p_link, x)
      BY <2>5, <2>8, <2>9
    <3>3. \A x \in Place : x.next \in ToSet(fr) \ ToSet(Tail(fr)) => At(L2, x) = None
      <4> SUFFICES ASSUME NEW x \in Place, x.next = p PROVE At(L2, x) = None
        BY <2>9
      <4>1. CASE x.index = 0
        BY <2>5, <2>8, <4>1, PlaceEqual
      <4>2. CASE x.index # 0
        <5>1. At(p_link, x) = None
          BY <1>0, <2>9, <4>2 DEF Linked
        <5> QED
          BY <2>8, <5>1
      <4> QED
        BY <4>1, <4>2
    <3>4. \A x \in Place : x.next \in ToSet(Tail(fr)) /\ x.index # 0 => At(L2, x) = None
      BY <1>0, <2>8, <2>9 DEF Linked
    <3>5. ToSet(Tail(fr)) \in SUBSET Proc
      BY <2>9
    <3> QED
      BY <1>0, <2>8, <3>1, <3>2, <3>3, <3>4, <3>5, FreeChanged
  <2>11. IsList(Tail(fr), free_head', FreeNext(L2), Proc)
    <3>1. \A i \in 2..Len(fr) : FreeNext(L2)[fr[i]] = FreeNext(p_link)[fr[i]]
      <4> SUFFICES ASSUME NEW i \in 2..Len(fr)
                   PROVE  FreeNext(L2)[fr[i]] = FreeNext(p_link)[fr[i]]
        OBVIOUS
      <4>1. i \in 1..Len(fr) /\ i # 1
        BY <1>0
      <4>2. fr[i] \in Proc /\ fr[i] # p
        BY <1>0, <2>1, <2>3, <4>1 DEF IsList
      <4>3. PICK z : z = [next |-> fr[i], index |-> 0]
        OBVIOUS
      <4>4. z \in Place /\ z.next = fr[i]
        BY <4>2, <4>3, FirstSlot
      <4>5. At(L2, z) = At(p_link, z)
        BY <2>5, <2>8, <4>2, <4>4
      <4> QED
        BY <4>2, <4>3, <4>5, FreeNextIs
    <3>2. FreeNext(p_link)[fr[1]] = free_head'
      BY <2>1, <2>3, <2>7 DEF FreeNext
    <3>3. PICK next2 : next2 = FreeNext(L2)
      OBVIOUS
    <3>4. PICK next : next = FreeNext(p_link)
      OBVIOUS
    <3>5. IsList(Tail(fr), next[fr[1]], next2, Proc)
      BY <1>0, <1>6, <3>1, <3>3, <3>4, ListTail
    <3> QED
      BY <3>2, <3>3, <3>4, <3>5
  <2>12. A \in AslRecord
    BY <1>0, <1>3, <2>6, <2>8 DEF AslRecord
  <2>13. Whole(A, running_queue, ToSet(Tail(fr)), u, f, T, R)
    BY <1>0, <1>4, <2>6, <2>10, <2>12 DEF Whole
  <2>14. PICK fh : fh = free_head'
    OBVIOUS
  <2>15. Repr(A, fh, running_queue, qcount, semvec, Tail(fr), u, f, T, R)
    BY <1>0, <1>4, <2>6, <2>11, <2>13, <2>14 DEF Repr
  <2>16. QInv' /\ view' = [free |-> Tail(fr), q |-> Shown(R)]
    BY <1>1, <1>2, <2>14, <2>15, Shows
  <2>17. ret' = Abs!Returned(Head(fr))
    BY <1>1, <2>1 DEF Returned, Abs!Returned
  <2> QED
    BY <1>0, <1>6, <2>16, <2>17 DEF Abs!AallocProc
<1> QED
  BY <1>5, <1>6

\* freeProc's assignments to the links.
Cleared(L, p) == [L EXCEPT ![p] = [i \in Slot |-> None]]
NextSet(L, z, p) == [L EXCEPT ![z.next][z.index].next = p]

LEMMA ClearedFacts ==
    ASSUME NEW L \in Links, NEW p \in Proc
    PROVE  /\ Cleared(L, p) \in Links
           /\ \A x \in Place : At(Cleared(L, p), x) = IF x.next = p THEN None ELSE At(L, x)
<1>1. PICK SL : SL = [Slot -> Link]
  OBVIOUS
<1>2. PICK v : v = [i \in Slot |-> None]
  OBVIOUS
<1>3. v \in SL /\ \A i \in Slot : v[i] = None
  BY <1>1, <1>2, PlaceIsLink
<1>4. L \in [Proc -> SL]
  BY <1>1 DEF Links
<1>5. PICK L2 : L2 = Cleared(L, p)
  OBVIOUS
<1>6. L2 = [L EXCEPT ![p] = v]
  BY <1>2, <1>5 DEF Cleared
<1>7. L2 \in [Proc -> SL] /\ \A q \in Proc : L2[q] = IF q = p THEN v ELSE L[q]
  BY <1>3, <1>4, <1>6
<1>8. \A x \in Place : x.next \in Proc /\ x.index \in Slot
  BY NoneIsNoPlace
<1> QED
  BY <1>1, <1>3, <1>5, <1>7, <1>8 DEF At, Links

LEMMA NextSetFacts ==
    ASSUME NEW L \in Links, NEW z \in Place, NEW p \in Proc
    PROVE  /\ NextSet(L, z, p) \in Links
           /\ \A x \in Place : x # z => At(NextSet(L, z, p), x) = At(L, x)
           /\ At(NextSet(L, z, p), z).next = p
<1>1. z.next \in Proc /\ z.index \in Slot
  BY NoneIsNoPlace
<1>2. At(L, z) \in Link
  BY <1>1 DEF Links, At
<1>3. PICK v : v = [At(L, z) EXCEPT !.next = p]
  OBVIOUS
<1>4. v \in Link /\ v.next = p
  BY <1>2, <1>3 DEF Link
<1>5. NextSet(L, z, p) = Set(L, z, v)
  BY <1>3 DEF NextSet, Set, At
<1> QED
  BY <1>4, <1>5, LinkSet

\* A process that is in no queue has no link in use.
LEMMA NobodysProcess ==
    ASSUME NEW R, NEW p, Of(R, p) = {}
    PROVE  \A k \in Queue : \A i \in 1..Len(R[k]) : R[k][i].next # p
BY DEF Of

\* freeProc appends a process to the free list.
LEMMA freeProcStep ==
    ASSUME NEW fr, NEW u, NEW f, NEW T, NEW R, Now(fr, u, f, T, R),
           NEW p \in Proc, freeProc(p), ViewStep
    PROVE  QInv' /\ Abs!AfreeProc(p)
<1>0. /\ Asl.L = p_link /\ Asl.semd = semd /\ Asl.cur = cur_sem /\ Asl.free = free_head_s
      /\ Asl \in AslRecord
      /\ Linked(p_link, T, R, ToSet(fr)) /\ Descr(semd, cur_sem, free_head_s, u, f)
      /\ TailsAre(T, semd, u, running_queue, 0) /\ p_link \in Links
      /\ IsList(fr, free_head, FreeNext(p_link), Proc) /\ fr \in Seq(Proc)
      /\ Tallied(qcount, semvec, R) /\ view.free = fr /\ view.q = Shown(R)
  BY NowFacts
<1>1. /\ qcount' = [qcount EXCEPT ![p] = 0]
      /\ semvec' = [semvec EXCEPT ![p] = [i \in Slot |-> ENULL]]
      /\ ret' = Returned(ENULL)
      /\ running_queue' = running_queue /\ semd' = semd /\ cur_sem' = cur_sem
      /\ free_head_s' = free_head_s
  BY DEF freeProc
<1>2. p \notin ToSet(fr) /\ qcount[p] = 0 /\ Abs!In(p) = Of(R, p) /\ Abs!Allocated(p)
  BY NowFacts DEF freeProc
<1>3. Of(R, p) = {}
  BY <1>0, <1>2, FS_EmptySet DEF Tallied
<1>4. FreeList(free_head, p_link) = fr
  <2>1. PICK n : n = MAXPROC
    OBVIOUS
  <2>2. n \in Nat /\ IsList(fr, free_head, FreeNext(p_link), 1..n)
    BY <1>0, <2>1, TableAssumption DEF Proc
  <2>3. Chain(free_head, FreeNext(p_link), n) = fr
    BY <2>2, ChainIsList
  <2> QED
    BY <2>1, <2>3 DEF FreeList, FreeNext
<1>5. PICK C : C = Cleared(p_link, p)
  OBVIOUS
<1>6. C \in Links /\ \A x \in Place : At(C, x) = IF x.next = p THEN None ELSE At(p_link, x)
  BY <1>0, <1>5, ClearedFacts
<1>7. PICK L2 : L2 = p_link'
  OBVIOUS
<1>8. PICK x0 : x0 = [next |-> p, index |-> 0]
  OBVIOUS
<1>9. x0 \in Place /\ x0.next = p /\ x0.index = 0
  BY <1>8, FirstSlot
<1>10. /\ L2 \in Links
       /\ free_head' = IF fr = <<>> THEN p ELSE free_head
       /\ \A x \in Place : x.next = p => At(L2, x) = None
       /\ \A x \in Place : x.next # p /\ x.index # 0 => At(L2, x) = At(p_link, x)
       /\ \A x \in Place : x.next # p /\ x.next \notin ToSet(fr) => At(L2, x) = At(p_link, x)
       /\ \A i \in 1..Len(fr) : At(L2, [next |-> fr[i], index |-> 0]).next =
            IF i = Len(fr) THEN p ELSE At(p_link, [next |-> fr[i], index |-> 0]).next
  <2>1. CASE fr = <<>>
    <3>1. L2 = C /\ free_head' = p
      BY <1>4, <1>5, <1>7, <2>1 DEF freeProc, Cleared
    <3>2. \A i : i \notin 1..Len(fr)
      BY <2>1
    <3> QED
      BY <1>6, <2>1, <3>1, <3>2
  <2>2. CASE fr # <<>>
    <3>1. PICK l : l = Len(fr)
      OBVIOUS
    <3>2. l \in 1..Len(fr) /\ Last(fr) = fr[l] /\ fr[l] \in Proc
      BY <1>0, <2>2, <3>1 DEF Last
    <3>3. PICK z : z = [next |-> fr[l], index |-> 0]
      OBVIOUS
    <3>4. z \in Place /\ z.next = fr[l] /\ z.index = 0
      BY <3>2, <3>3, FirstSlot
    <3>5. L2 = NextSet(C, z, p) /\ free_head' = free_head
      BY <1>4, <1>5, <1>7, <2>2, <3>2, <3>4 DEF freeProc, Cleared, NextSet
    <3>6. L2 \in Links /\ (\A x \in Place : x # z => At(L2, x) = At(C, x)) /\ At(L2, z).next = p
      BY <1>6, <3>4, <3>5, NextSetFacts
    <3>7. fr[l] \in ToSet(fr) /\ fr[l] # p
      BY <1>0, <1>2, <3>2 DEF ToSet
    <3>8. ASSUME NEW i \in 1..Len(fr)
          PROVE  At(L2, [next |-> fr[i], index |-> 0]).next =
                   IF i = Len(fr) THEN p ELSE At(p_link, [next |-> fr[i], index |-> 0]).next
      <4>1. CASE i = l
        BY <3>1, <3>3, <3>6, <4>1
      <4>2. CASE i # l
        <5>1. fr[i] # fr[l] /\ fr[i] \in Proc /\ fr[i] \in ToSet(fr)
          BY <1>0, <3>2, <4>2 DEF IsList, ToSet
        <5>2. PICK w : w = [next |-> fr[i], index |-> 0]
          OBVIOUS
        <5>3. w \in Place /\ w.next = fr[i]
          BY <5>1, <5>2, FirstSlot
        <5>4. At(L2, w) = At(C, w)
          BY <3>4, <3>6, <5>1, <5>3
        <5>5. At(C, w) = At(p_link, w)
          BY <1>2, <1>6, <5>1, <5>3
        <5> QED
          BY <3>1, <4>2, <5>2, <5>4, <5>5
      <4> QED
        BY <4>1, <4>2
    <3>9. /\ \A x \in Place : x.next = p => At(L2, x) = None
          /\ \A x \in Place : x.next # p /\ x.index # 0 => At(L2, x) = At(p_link, x)
          /\ \A x \in Place : x.next # p /\ x.next \notin ToSet(fr) => At(L2, x) = At(p_link, x)
      BY <1>6, <3>4, <3>6, <3>7
    <3> QED
      BY <2>2, <3>5, <3>6, <3>8, <3>9
  <2> QED
    BY <2>1, <2>2
<1>11. PICK fr2 : fr2 = Append(fr, p)
  OBVIOUS
<1>12. fr2 \in Seq(Proc) /\ ToSet(fr2) = ToSet(fr) \cup {p} /\ ToSet(fr) \subseteq Proc
  <2>1. ToSet(fr) \subseteq Proc
    BY <1>0 DEF ToSet
  <2> QED
    BY <1>0, <1>11, <2>1, AppendFacts
<1>13. Linked(L2, T, R, ToSet(fr2))
  <2>1. PICK F : F = ToSet(fr)
    OBVIOUS
  <2>2. PICK F2 : F2 = ToSet(fr2)
    OBVIOUS
  <2>3. F2 = F \cup {p} /\ F2 \in SUBSET Proc /\ p \notin F /\ Linked(p_link, T, R, F)
    BY <1>0, <1>2, <1>12, <2>1, <2>2
  <2>4. \A k \in Queue : \A i \in 1..Len(R[k]) : R[k][i].next \notin F2
    <3>1. \A k \in Queue : \A i \in 1..Len(R[k]) : R[k][i].next # p
      BY <1>3, NobodysProcess
    <3> QED
      BY <2>3, <3>1 DEF Linked
  <2>5. \A x \in Place : x.next \notin F \cup F2 => At(L2, x) = At(p_link, x)
    BY <1>10, <2>1, <2>3
  <2>6. \A x \in Place : x.next \in F \ F2 => At(L2, x) = None
    BY <2>3
  <2>7. \A x \in Place : x.next \in F2 /\ x.index # 0 => At(L2, x) = None
    BY <1>10, <2>3 DEF Linked
  <2>8. Linked(L2, T, R, F2)
    BY <1>10, <2>3, <2>4, <2>5, <2>6, <2>7, FreeChanged
  <2> QED
    BY <2>2, <2>8
<1>14. PICK fh : fh = free_head'
  OBVIOUS
<1>15. IsList(fr2, fh, FreeNext(L2), Proc)
  <2>1. PICK next : next = FreeNext(p_link)
    OBVIOUS
  <2>2. PICK next2 : next2 = FreeNext(L2)
    OBVIOUS
  <2>3. next2[p] = ENULL
    BY <1>8, <1>9, <1>10, <2>2, FreeNextIs DEF None
  <2>4. \A i \in 1..Len(fr) : next2[fr[i]] = IF i = Len(fr) THEN p ELSE next[fr[i]]
    <3>1. \A i \in 1..Len(fr) : fr[i] \in Proc
      BY <1>0
    <3> QED
      BY <1>10, <2>1, <2>2, <3>1, FreeNextIs
  <2>5. \A i \in 1..Len(fr) : fr[i] # p
    BY <1>0, <1>2 DEF ToSet
  <2>6. IsList(fr, free_head, next, Proc)
    BY <1>0, <2>1
  <2>7. fh = IF fr = <<>> THEN p ELSE free_head
    BY <1>10, <1>14
  <2>8. IsList(Append(fr, p), fh, next2, Proc)
    BY <2>3, <2>4, <2>5, <2>6, <2>7, ListAppend
  <2> QED
    BY <1>11, <2>2, <2>8
<1>16. PICK A : A = Asl'
  OBVIOUS
<1>17. /\ A = [L |-> L2, semd |-> semd, cur |-> cur_sem, free |-> free_head_s]
       /\ A.L = L2 /\ A.semd = semd /\ A.cur = cur_sem /\ A.free = free_head_s
  BY <1>1, <1>7, <1>16 DEF Asl
<1>18. A \in AslRecord
  BY <1>0, <1>10, <1>17 DEF AslRecord
<1>19. Whole(A, running_queue, ToSet(fr2), u, f, T, R)
  BY <1>0, <1>13, <1>17, <1>18 DEF Whole
<1>20. PICK v : v = [i \in Slot |-> ENULL]
  OBVIOUS
<1>21. Names(v, Of(R, p))
  BY <1>3, <1>20, SemIsNoNull DEF Names
<1>22. PICK qc : qc = qcount'
  OBVIOUS
<1>23. PICK sv : sv = semvec'
  OBVIOUS
<1>24. Tallied(qc, sv, R)
  <2>1. 0 = Cardinality(Of(R, p)) /\ IsFiniteSet(Of(R, p))
    BY <1>3, FS_EmptySet
  <2>2. Tallied(Put(qcount, p, 0), Put(semvec, p, v), R)
    BY <1>0, <1>21, <2>1, TalliedStep
  <2> QED
    BY <1>1, <1>20, <1>22, <1>23, <2>2 DEF Put
<1>25. Repr(A, fh, running_queue, qc, sv, fr2, u, f, T, R)
  BY <1>15, <1>17, <1>19, <1>24 DEF Repr
<1>26. QInv' /\ view' = [free |-> fr2, q |-> Shown(R)]
  BY <1>1, <1>14, <1>16, <1>22, <1>23, <1>25, Shows
<1>27. ret' = Abs!Returned(Abs!ENULL)
  BY <1>1 DEF Returned, Abs!Returned, Abs!ENULL, ENULL
<1> QED
  BY <1>0, <1>2, <1>3, <1>11, <1>26, <1>27 DEF Abs!AfreeProc

----------------------------------------------------------------------------
(***************************************************************************)
(* The running queue.                                                      *)
(***************************************************************************)
RQ == "running_queue"

LEMMA KeptList ==
    ASSUME NEW fr, NEW fh, NEW L, IsList(fr, fh, FreeNext(L), Proc),
           NEW L2, Kept(L2, L, ToSet(fr))
    PROVE  IsList(fr, fh, FreeNext(L2), Proc)
<1>1. fr \in Seq(Proc)
  BY DEF IsList
<1>2. \A i \in 1..Len(fr) : FreeNext(L2)[fr[i]] = FreeNext(L)[fr[i]]
  <2> SUFFICES ASSUME NEW i \in 1..Len(fr) PROVE FreeNext(L2)[fr[i]] = FreeNext(L)[fr[i]]
    OBVIOUS
  <2>1. fr[i] \in Proc /\ fr[i] \in ToSet(fr)
    BY <1>1 DEF ToSet
  <2>2. PICK x : x = [next |-> fr[i], index |-> 0]
    OBVIOUS
  <2>3. x \in Place /\ x.next = fr[i]
    BY <2>1, <2>2, FirstSlot
  <2>4. At(L2, x) = At(L, x)
    BY <2>1, <2>3 DEF Kept
  <2> QED
    BY <2>1, <2>2, <2>4, FreeNextIs
<1> QED
  BY <1>2 DEF IsList

\* Nothing has changed.
LEMMA Unchanged ==
    ASSUME NEW fr, NEW u, NEW f, NEW T, NEW R, Now(fr, u, f, T, R), ViewStep,
           UNCHANGED <<p_link, qcount, free_head, running_queue, asl>>
    PROVE  QInv' /\ view' = view
<1>1. PICK A : A = Asl'
  OBVIOUS
<1>2. A = Asl /\ free_head' = free_head /\ running_queue' = running_queue
      /\ qcount' = qcount /\ semvec' = semvec
  BY <1>1 DEF Asl, asl
<1>3. Repr(A, free_head, running_queue, qcount, semvec, fr, u, f, T, R)
  BY <1>2 DEF Now
<1>4. QInv' /\ view' = [free |-> fr, q |-> Shown(R)]
  BY <1>1, <1>2, <1>3, Shows
<1> QED
  BY <1>4 DEF Now

\* The descriptors do not depend on the running queue.
LEMMA RunningWhole ==
    ASSUME NEW fr, NEW u, NEW f, NEW T, NEW R, Now(fr, u, f, T, R),
           NEW L2, NEW tp, NEW T2, T2 = [T EXCEPT ![RQ] = tp], NEW R2,
           Linked(L2, T2, R2, ToSet(fr)), NEW A,
           A = [L |-> L2, semd |-> semd, cur |-> cur_sem, free |-> free_head_s]
    PROVE  Whole(A, tp, ToSet(fr), u, f, T2, R2)
<1>0. /\ Asl.L = p_link /\ Asl.semd = semd /\ Asl.cur = cur_sem /\ Asl.free = free_head_s
      /\ Asl \in AslRecord /\ Descr(semd, cur_sem, free_head_s, u, f)
      /\ TailsAre(T, semd, u, running_queue, 0) /\ T \in [Queue -> Place \cup {None}]
  BY NowFacts
<1>1. RQ \in Queue /\ RQ \notin Sem
  BY TableAssumption DEF RQ, Queue
<1>2. T2[RQ] = tp /\ \A s \in Sem : T2[s] = T[s]
  BY <1>0, <1>1 DEF Queue
<1>3. \A i \in 1..Len(u) : semd[u[i]].s_semAdd \in Sem
  BY <1>0 DEF Descr
<1>4. TailsAre(T2, semd, u, tp, 0)
  BY <1>0, <1>2, <1>3 DEF TailsAre, RQ
<1>5. A \in AslRecord
  BY <1>0 DEF AslRecord, Linked
<1> QED
  BY <1>0, <1>4, <1>5 DEF Whole

LEMMA HasNot ==
    ASSUME NEW r, NEW p, ~Has(r, p)
    PROVE  \A i \in 1..Len(r) : r[i].next # p
BY DEF Has

\* The counters of a process that joins queue k.
LEMMA TalliedJoin ==
    ASSUME NEW qc, NEW sv, NEW R \in Rings, Tallied(qc, sv, R), NEW k \in Queue,
           NEW p \in Proc, NEW y \in Place, y.next = p, k \notin Of(R, p), qc[p] < SEMMAX,
           NEW R2, R2 = Put(R, k, Append(R[k], y)),
           NEW v, v = IF k \in Sem THEN setSem(sv[p], k) ELSE sv[p]
    PROVE  Tallied(Put(qc, p, qc[p] + 1), Put(sv, p, v), R2)
<1>1. /\ Of(R2, p) = Of(R, p) \cup {k}
      /\ \A q \in Proc : q # p => Of(R2, q) = Of(R, q)
  BY OfAppend
<1>2. IsFiniteSet(Of(R, p)) /\ qc[p] = Cardinality(Of(R, p)) /\ Names(sv[p], Of(R, p)) /\ qc[p] \in Nat
  BY DEF Tallied
<1>3. PICK n : n = qc[p] + 1
  OBVIOUS
<1>4. IsFiniteSet(Of(R2, p)) /\ n = Cardinality(Of(R2, p))
  <2>1. PICK S : S = Of(R, p)
    OBVIOUS
  <2>2. IsFiniteSet(S \cup {k}) /\ Cardinality(S \cup {k}) = Cardinality(S) + 1
    BY <1>2, <2>1, FS_AddElement
  <2> QED
    BY <1>1, <1>2, <1>3, <2>1, <2>2
<1>5. Names(v, Of(R2, p))
  <2>1. CASE k \in Sem
    BY <1>1, <1>2, <2>1, setSemAdds
  <2>2. CASE k \notin Sem
    BY <1>1, <1>2, <2>2 DEF Names
  <2> QED
    BY <2>1, <2>2
<1>6. Tallied(Put(qc, p, n), Put(sv, p, v), R2)
  BY <1>1, <1>4, <1>5, TalliedStep
<1> QED
  BY <1>3, <1>6

\* The counters of a process that leaves queue k.
LEMMA TalliedLeave ==
    ASSUME NEW qc, NEW sv, NEW R \in Rings, Tallied(qc, sv, R), NEW k \in Queue,
           NEW m \in 1..Len(R[k]),
           \A i, j \in 1..Len(R[k]) : R[k][i].next = R[k][j].next => i = j,
           NEW p, p = R[k][m].next,
           NEW R2, R2 = Put(R, k, Cut(R[k], m)),
           NEW v, v = IF k \in Sem THEN setSem2(sv[p], k) ELSE sv[p]
    PROVE  Tallied(Put(qc, p, qc[p] - 1), Put(sv, p, v), R2) /\ p \in Proc
<1>0. p \in Proc
  <2>1. R[k] \in Seq(Place)
    BY DEF Rings
  <2>2. R[k][m] \in Place
    BY <2>1
  <2> QED
    BY <2>2, NoneIsNoPlace
<1>1. /\ Of(R2, p) = Of(R, p) \ {k}
      /\ \A q \in Proc : q # p => Of(R2, q) = Of(R, q)
  BY OfCut
<1>2. IsFiniteSet(Of(R, p)) /\ qc[p] = Cardinality(Of(R, p)) /\ Names(sv[p], Of(R, p)) /\ qc[p] \in Nat
  BY <1>0 DEF Tallied
<1>3. PICK n : n = qc[p] - 1
  OBVIOUS
<1>4. k \in Of(R, p)
  BY DEF Of
<1>5. IsFiniteSet(Of(R2, p)) /\ n = Cardinality(Of(R2, p))
  <2>1. PICK S : S = Of(R, p)
    OBVIOUS
  <2>2. IsFiniteSet(S \ {k}) /\ Cardinality(S \ {k}) = Cardinality(S) - 1
    BY <1>2, <1>4, <2>1, FS_RemoveElement
  <2> QED
    BY <1>1, <1>2, <1>3, <2>1, <2>2
<1>6. Names(v, Of(R2, p))
  <2>1. CASE k \in Sem
    BY <1>1, <1>2, <1>4, <2>1, setSem2Drops
  <2>2. CASE k \notin Sem
    BY <1>1, <1>2, <2>2 DEF Names
  <2> QED
    BY <2>1, <2>2
<1>7. Tallied(Put(qc, p, n), Put(sv, p, v), R2)
  BY <1>0, <1>1, <1>5, <1>6, TalliedStep
<1> QED
  BY <1>0, <1>3, <1>7

LEMMA SameEntry ==
    ASSUME NEW qc, NEW sv, NEW R, Tallied(qc, sv, R), NEW p \in Proc
    PROVE  Put(sv, p, sv[p]) = sv
BY DEF Tallied, Put

\* insertProc on the running queue.
LEMMA insertRunningStep ==
    ASSUME NEW fr, NEW u, NEW f, NEW T, NEW R, Now(fr, u, f, T, R),
           NEW p \in Proc, insertRunning(p), ViewStep
    PROVE  QInv' /\ Abs!AinsertProc(p)
<1>0. /\ Linked(p_link, T, R, ToSet(fr)) /\ R \in [Queue -> Seq(Place)] /\ R \in Rings
      /\ TailsAre(T, semd, u, running_queue, 0)
      /\ IsList(fr, free_head, FreeNext(p_link), Proc)
      /\ Tallied(qcount, semvec, R) /\ view.free = fr /\ view.q = Shown(R)
      /\ \A k \in Queue : view.q[k] = Procs(R[k])
      /\ Abs!In(p) = Of(R, p)
      /\ Allocated(p) <=> p \notin ToSet(fr)
      /\ Abs!Allocated(p) <=> p \notin ToSet(fr)
  BY NowFacts
<1>1. /\ Allocated(p) /\ qcount[p] < SEMMAX /\ ~ InRing(running_queue, p)
      /\ p_link' = insertProc(p_link, running_queue, p).L
      /\ running_queue' = insertProc(p_link, running_queue, p).tp
      /\ qcount' = [qcount EXCEPT ![p] = @ + 1]
      /\ ret' = Returned(ENULL)
      /\ free_head' = free_head /\ semvec' = semvec /\ semd' = semd
      /\ cur_sem' = cur_sem /\ free_head_s' = free_head_s
  BY DEF insertRunning, asl
<1>2. RQ \in Queue /\ RQ \notin Sem /\ T[RQ] = running_queue
  BY <1>0, TableAssumption DEF RQ, Queue, TailsAre
<1>3. IsRing(R[RQ], running_queue, p_link) /\ R[RQ] \in Seq(Place)
  BY <1>0, <1>2 DEF Linked
<1>4. \A i \in 1..Len(R[RQ]) : R[RQ][i].next # p
  BY <1>1, <1>3, InRingIs
<1>5. RQ \notin Of(R, p)
  BY <1>4 DEF Of
<1>6. IsFiniteSet(Of(R, p)) /\ Cardinality(Of(R, p)) < SEMMAX
  BY <1>0, <1>1 DEF Tallied
<1>7. p \notin ToSet(fr)
  BY <1>0, <1>1
<1>8. \E i \in Slot : p_link[p][i].index = ENULL
  BY <1>0, <1>6, <1>7, LinkToSpare
<1>9. PICK L2 : L2 = p_link'
  OBVIOUS
<1>10. PICK F : F = ToSet(fr)
  OBVIOUS
<1>10a. Joins(insertProc(p_link, running_queue, p), p_link, T, R, F, RQ, p)
  BY <1>0, <1>2, <1>4, <1>7, <1>8, <1>10, insertProcJoins
<1>11. PICK y \in Place : /\ y.next = p
                          /\ insertProc(p_link, running_queue, p).tp = y
                          /\ Linked(insertProc(p_link, running_queue, p).L, [T EXCEPT ![RQ] = y],
                                    [R EXCEPT ![RQ] = Append(@, y)], F)
                          /\ Kept(insertProc(p_link, running_queue, p).L, p_link, F)
  BY <1>10a DEF Joins
<1>12. PICK T2 : T2 = [T EXCEPT ![RQ] = y]
  OBVIOUS
<1>13. PICK R2 : R2 = [R EXCEPT ![RQ] = Append(@, y)]
  OBVIOUS
<1>13a. R2 = Put(R, RQ, Append(R[RQ], y))
  BY <1>13 DEF Put
<1>14. running_queue' = y /\ Linked(L2, T2, R2, ToSet(fr)) /\ Kept(L2, p_link, ToSet(fr))
  BY <1>1, <1>2, <1>9, <1>10, <1>11, <1>12, <1>13
<1>15. PICK A : A = Asl'
  OBVIOUS
<1>16. A = [L |-> L2, semd |-> semd, cur |-> cur_sem, free |-> free_head_s] /\ A.L = L2
  BY <1>1, <1>9, <1>15 DEF Asl
<1>17. Whole(A, y, ToSet(fr), u, f, T2, R2)
  BY <1>12, <1>14, <1>16, RunningWhole
<1>18. IsList(fr, free_head, FreeNext(A.L), Proc)
  BY <1>0, <1>14, <1>16, KeptList
<1>19. PICK qc : qc = qcount'
  OBVIOUS
<1>20. Tallied(qc, semvec, R2)
  <2>1. PICK v : v = semvec[p]
    OBVIOUS
  <2>2. v = IF RQ \in Sem THEN setSem(semvec[p], RQ) ELSE semvec[p]
    BY <1>2, <2>1
  <2>3. Tallied(Put(qcount, p, qcount[p] + 1), Put(semvec, p, v), R2)
    BY <1>0, <1>1, <1>2, <1>5, <1>11, <1>13a, <2>2, TalliedJoin
  <2> QED
    BY <1>0, <1>1, <1>19, <2>1, <2>3, SameEntry DEF Put
<1>21. Repr(A, free_head, y, qc, semvec, fr, u, f, T2, R2)
  BY <1>17, <1>18, <1>20 DEF Repr
<1>22. QInv' /\ view' = [free |-> fr, q |-> Shown(R2)]
  BY <1>1, <1>14, <1>15, <1>19, <1>21, Shows
<1>23. Shown(R2) = [Shown(R) EXCEPT ![RQ] = Append(@, p)]
  <2>1. Shown(R2) = Put(Shown(R), RQ, Procs(Append(R[RQ], y)))
    BY <1>0, <1>2, <1>13a, ShownSet
  <2>2. Procs(Append(R[RQ], y)) = Append(Procs(R[RQ]), p)
    BY <1>3, <1>11, ProcsAppend
  <2>3. Shown(R)[RQ] = Procs(R[RQ])
    BY <1>2 DEF Shown
  <2> QED
    BY <2>1, <2>2, <2>3 DEF Put
<1>24. ret' = Abs!Returned(Abs!ENULL)
  BY <1>1 DEF Returned, Abs!Returned, Abs!ENULL, ENULL
<1>25. Abs!MayJoin(p, RQ)
  BY <1>0, <1>5, <1>6, <1>7, AbsOps DEF Abs!MayJoin
<1>26. Abs!RQ = RQ
  BY DEF Abs!RQ, RQ
<1> QED
  BY <1>0, <1>22, <1>23, <1>24, <1>25, <1>26 DEF Abs!AinsertProc

\* What is shown when p has left queue k.
Lost(R, k, p) == Put(Shown(R), k, Without(Procs(R[k]), {p}))

\* A process leaves the running queue.
LEMMA LeaveRunning ==
    ASSUME NEW fr, NEW u, NEW f, NEW T, NEW R, Now(fr, u, f, T, R), ViewStep,
           NEW m \in 1..Len(R[RQ]), NEW r, Takes(r, p_link, T, R, ToSet(fr), RQ, m),
           p_link' = r.L, running_queue' = r.tp, qcount' = Put(qcount, r.rv, qcount[r.rv] - 1),
           UNCHANGED <<free_head, asl>>
    PROVE  /\ QInv' /\ r.rv \in Proc
           /\ view' = [free |-> fr, q |-> Lost(R, RQ, r.rv)]
           /\ m = 1 => /\ Lost(R, RQ, r.rv) = Put(Shown(R), RQ, Tail(Procs(R[RQ])))
                       /\ r.rv = Head(Procs(R[RQ]))
<1>0. /\ Linked(p_link, T, R, ToSet(fr)) /\ R \in [Queue -> Seq(Place)] /\ R \in Rings
      /\ IsList(fr, free_head, FreeNext(p_link), Proc)
      /\ Tallied(qcount, semvec, R) /\ view.free = fr /\ view.q = Shown(R)
  BY NowFacts
<1>1. /\ free_head' = free_head /\ semvec' = semvec /\ semd' = semd
      /\ cur_sem' = cur_sem /\ free_head_s' = free_head_s
  BY DEF asl
<1>2. RQ \in Queue /\ RQ \notin Sem
  BY TableAssumption DEF RQ, Queue
<1>3. /\ R[RQ] \in Seq(Place)
      /\ \A i, j \in 1..Len(R[RQ]) : R[RQ][i].next = R[RQ][j].next => i = j
  BY <1>0, <1>2 DEF Linked, IsRing
<1>4. PICK T2 : T2 = [T EXCEPT ![RQ] = r.tp]
  OBVIOUS
<1>5. PICK R2 : R2 = [R EXCEPT ![RQ] = Cut(@, m)]
  OBVIOUS
<1>6. R2 = Put(R, RQ, Cut(R[RQ], m))
  BY <1>5 DEF Put
<1>7. r.rv = R[RQ][m].next /\ Linked(r.L, T2, R2, ToSet(fr)) /\ Kept(r.L, p_link, ToSet(fr))
  BY <1>4, <1>5 DEF Takes
<1>8. PICK A : A = Asl'
  OBVIOUS
<1>9. A = [L |-> r.L, semd |-> semd, cur |-> cur_sem, free |-> free_head_s] /\ A.L = r.L
  BY <1>1, <1>8 DEF Asl
<1>10. Whole(A, r.tp, ToSet(fr), u, f, T2, R2)
  BY <1>4, <1>7, <1>9, RunningWhole
<1>11. IsList(fr, free_head, FreeNext(A.L), Proc)
  BY <1>0, <1>7, <1>9, KeptList
<1>12. PICK qc : qc = qcount'
  OBVIOUS
<1>13. PICK p : p = r.rv
  OBVIOUS
<1>14. Tallied(qc, semvec, R2) /\ p \in Proc
  <2>1. PICK v : v = semvec[p]
    OBVIOUS
  <2>2. v = IF RQ \in Sem THEN setSem2(semvec[p], RQ) ELSE semvec[p]
    BY <1>2, <2>1
  <2>3. p = R[RQ][m].next
    BY <1>7, <1>13
  <2>4. Tallied(Put(qcount, p, qcount[p] - 1), Put(semvec, p, v), R2) /\ p \in Proc
    BY <1>0, <1>2, <1>3, <1>6, <2>2, <2>3, TalliedLeave
  <2> QED
    BY <1>0, <1>12, <1>13, <2>1, <2>4, SameEntry
<1>15. Repr(A, free_head, r.tp, qc, semvec, fr, u, f, T2, R2)
  BY <1>10, <1>11, <1>14 DEF Repr
<1>16. QInv' /\ view' = [free |-> fr, q |-> Shown(R2)]
  BY <1>1, <1>8, <1>12, <1>15, Shows
<1>17. Shown(R2) = Put(Shown(R), RQ, Procs(Cut(R[RQ], m)))
  BY <1>0, <1>2, <1>6, ShownSet
<1>18. /\ Procs(Cut(R[RQ], m)) = Without(Procs(R[RQ]), {r.rv})
       /\ m = 1 => Procs(Cut(R[RQ], m)) = Tail(Procs(R[RQ])) /\ r.rv = Head(Procs(R[RQ]))
  <2>1. PICK c : c = R[RQ]
    OBVIOUS
  <2>2. /\ Procs(Cut(c, m)) = Without(Procs(c), {c[m].next})
        /\ m = 1 => Procs(Cut(c, m)) = Tail(Procs(c)) /\ c[m].next = Head(Procs(c))
    BY <1>3, <2>1, ShownCut
  <2> QED
    BY <1>7, <2>1, <2>2
<1> QED
  BY <1>13, <1>14, <1>16, <1>17, <1>18 DEF Lost

LEMMA removeRunningStep ==
    ASSUME NEW fr, NEW u, NEW f, NEW T, NEW R, Now(fr, u, f, T, R), removeRunning, ViewStep
    PROVE  QInv' /\ Abs!AremoveProc
<1>0. /\ Linked(p_link, T, R, ToSet(fr)) /\ R \in [Queue -> Seq(Place)]
      /\ TailsAre(T, semd, u, running_queue, 0)
      /\ view.free = fr /\ view.q = Shown(R)
      /\ \A k \in Queue : view.q[k] = Procs(R[k])
  BY NowFacts
<1>1. RQ \in Queue /\ T[RQ] = running_queue /\ R[RQ] \in Seq(Place)
  BY <1>0 DEF RQ, Queue, TailsAre
<1>2. PICK r : r = removeProc(p_link, running_queue)
  OBVIOUS
<1>3. /\ p_link' = r.L /\ running_queue' = r.tp /\ ret' = Returned(r.rv)
      /\ qcount' = IF r.rv = ENULL THEN qcount ELSE [qcount EXCEPT ![r.rv] = @ - 1]
      /\ UNCHANGED <<free_head, asl>>
  BY <1>2 DEF removeRunning
<1>4. Abs!RQ = RQ /\ Abs!ENULL = ENULL /\ \A p : Abs!Returned(p) = Returned(p)
  BY DEF Abs!RQ, RQ, Abs!ENULL, ENULL, Abs!Returned, Returned
<1>5. CASE R[RQ] = <<>>
  <2>1. r = [L |-> p_link, tp |-> running_queue, rv |-> ENULL]
    BY <1>0, <1>1, <1>2, <1>5, removeProcTakes
  <2>2. UNCHANGED <<p_link, qcount, free_head, running_queue, asl>> /\ ret' = Returned(ENULL)
    BY <1>3, <2>1
  <2>3. QInv' /\ view' = view
    BY <2>2, Unchanged
  <2>4. view.q[RQ] = <<>>
    BY <1>0, <1>1, <1>5, ProcsFacts
  <2> QED
    BY <1>4, <2>2, <2>3, <2>4 DEF Abs!AremoveProc
<1>6. CASE R[RQ] # <<>>
  <2>1. Takes(r, p_link, T, R, ToSet(fr), RQ, 1)
    <3>1. PICK F : F = ToSet(fr)
      OBVIOUS
    <3>2. Takes(removeProc(p_link, T[RQ]), p_link, T, R, F, RQ, 1)
      BY <1>0, <1>1, <1>6, <3>1, removeProcTakes
    <3> QED
      BY <1>1, <1>2, <3>1, <3>2
  <2>2. 1 \in 1..Len(R[RQ]) /\ R[RQ][1] \in Place
    BY <1>1, <1>6
  <2>3. r.rv = R[RQ][1].next
    BY <2>1 DEF Takes
  <2>4. r.rv # ENULL
    BY <2>2, <2>3, NoneIsNoPlace
  <2>5. qcount' = Put(qcount, r.rv, qcount[r.rv] - 1)
    BY <1>3, <2>4 DEF Put
  <2>7. /\ QInv'
        /\ view' = [free |-> fr, q |-> Put(Shown(R), RQ, Tail(Procs(R[RQ])))]
        /\ r.rv = Head(Procs(R[RQ]))
    BY <1>3, <2>1, <2>2, <2>5, LeaveRunning
  <2>8. view.q[RQ] = Procs(R[RQ]) /\ view.q[RQ] # <<>> /\ Shown(R)[RQ] = Procs(R[RQ])
    BY <1>0, <1>1, <1>6, ProcsFacts
  <2>9. view'.free = view.free /\ view'.q = [view.q EXCEPT ![RQ] = Tail(@)]
    BY <1>0, <2>7, <2>8 DEF Put
  <2>10. ret' = Abs!Returned(Head(view.q[RQ]))
    BY <1>3, <1>4, <2>7, <2>8
  <2> QED
    BY <1>4, <2>7, <2>8, <2>9, <2>10 DEF Abs!AremoveProc
<1> QED
  BY <1>5, <1>6

LEMMA outRunningStep ==
    ASSUME NEW fr, NEW u, NEW f, NEW T, NEW R, Now(fr, u, f, T, R),
           NEW p \in Proc, outRunning(p), ViewStep
    PROVE  QInv' /\ Abs!AoutProc(p)
<1>0. /\ Linked(p_link, T, R, ToSet(fr)) /\ R \in [Queue -> Seq(Place)]
      /\ TailsAre(T, semd, u, running_queue, 0)
      /\ view.free = fr /\ view.q = Shown(R)
      /\ \A k \in Queue : view.q[k] = Procs(R[k])
      /\ Abs!In(p) = Of(R, p)
  BY NowFacts
<1>1. RQ \in Queue /\ T[RQ] = running_queue /\ R[RQ] \in Seq(Place)
  BY <1>0 DEF RQ, Queue, TailsAre
<1>2. PICK r : r = outProc(p_link, running_queue, p)
  OBVIOUS
<1>3. /\ p_link' = r.L /\ running_queue' = r.tp /\ ret' = Returned(r.rv)
      /\ qcount' = IF r.rv = ENULL THEN qcount ELSE [qcount EXCEPT ![r.rv] = @ - 1]
      /\ UNCHANGED <<free_head, asl>>
  BY <1>2 DEF outRunning
<1>4. Abs!RQ = RQ /\ Abs!ENULL = ENULL /\ \A x : Abs!Returned(x) = Returned(x)
  BY DEF Abs!RQ, RQ, Abs!ENULL, ENULL, Abs!Returned, Returned
<1>4a. DOMAIN view.q = Queue /\ view.q[RQ] = Procs(R[RQ])
  BY <1>0, <1>1 DEF Shown
<1>4b. view.q = [view.q EXCEPT ![RQ] = view.q[RQ]]
  BY <1>0 DEF Shown
<1>5. CASE ~Has(R[RQ], p)
  <2>1. r = [L |-> p_link, tp |-> running_queue, rv |-> ENULL]
    <3>1. \A i \in 1..Len(R[RQ]) : R[RQ][i].next # p
      BY <1>5, HasNot
    <3> QED
      BY <1>0, <1>1, <1>2, <3>1, outProcMisses
  <2>2. UNCHANGED <<p_link, qcount, free_head, running_queue, asl>> /\ ret' = Returned(ENULL)
    BY <1>3, <2>1
  <2>3. QInv' /\ view' = view
    BY <2>2, Unchanged
  <2>4. RQ \notin Abs!In(p)
    BY <1>0, <1>5, OfHas
  <2>5. Abs!Without(view.q[RQ], {p}) = view.q[RQ]
    BY <1>1, <1>4a, <1>5, ShownMiss, AbsOps
  <2> QED
    BY <1>4, <1>4b, <2>2, <2>3, <2>4, <2>5 DEF Abs!AoutProc
<1>6. CASE Has(R[RQ], p)
  <2>0. PICK m \in 1..Len(R[RQ]) : R[RQ][m].next = p
    BY <1>6 DEF Has
  <2>1. Takes(r, p_link, T, R, ToSet(fr), RQ, m)
    <3>1. PICK F : F = ToSet(fr)
      OBVIOUS
    <3>2. Takes(outProc(p_link, T[RQ], p), p_link, T, R, F, RQ, m)
      BY <1>0, <1>1, <2>0, <3>1, outProcTakes
    <3> QED
      BY <1>1, <1>2, <3>1, <3>2
  <2>3. r.rv = p
    BY <2>0, <2>1 DEF Takes
  <2>4. r.rv # ENULL
    BY <2>3, TableAssumption DEF Proc, ENULL
  <2>5. qcount' = Put(qcount, r.rv, qcount[r.rv] - 1)
    BY <1>3, <2>4 DEF Put
  <2>7. QInv' /\ view' = [free |-> fr, q |-> Lost(R, RQ, p)]
    BY <1>3, <2>0, <2>1, <2>3, <2>5, LeaveRunning
  <2>8. Lost(R, RQ, p) = [view.q EXCEPT ![RQ] = Without(@, {p})]
    BY <1>0, <1>4a DEF Lost, Put
  <2>9. view'.free = view.free /\ view'.q = [view.q EXCEPT ![RQ] = Abs!Without(@, {p})]
    BY <1>0, <2>7, <2>8, AbsOps
  <2>10. RQ \in Abs!In(p)
    BY <1>0, <1>1, <1>6, OfHas
  <2> QED
    BY <1>3, <1>4, <2>3, <2>7, <2>9, <2>10 DEF Abs!AoutProc
<1> QED
  BY <1>5, <1>6

----------------------------------------------------------------------------
(***************************************************************************)
(* The queues of the semaphores.                                           *)
(***************************************************************************)

\* Every descriptor is on one of the two lists.
LEMMA ListLengths ==
    ASSUME NEW D, NEW cur, NEW fs, NEW u, NEW f, Descr(D, cur, fs, u, f)
    PROVE  /\ Len(u) + Len(f) = SEMD /\ ToSet(u) \cup ToSet(f) = Semd
           /\ Len(u) \in Nat /\ Len(f) \in Nat
<1>1. u \in Seq(Semd) /\ f \in Seq(Semd) /\ Len(u) \in Nat /\ Len(f) \in Nat
  BY ListsAre
<1>2. IsInjective(u) /\ IsInjective(f)
  BY <1>1, SMTT(30) DEF Descr, IsList, IsInjective
<1>3. /\ IsFiniteSet(ToSet(u)) /\ Cardinality(ToSet(u)) = Len(u)
      /\ IsFiniteSet(ToSet(f)) /\ Cardinality(ToSet(f)) = Len(f)
  BY <1>1, <1>2, QueueSize
<1>4. /\ \A x : x \in ToSet(u) <=> \E i \in 1..Len(u) : u[i] = x
      /\ \A x : x \in ToSet(f) <=> \E i \in 1..Len(f) : f[i] = x
  BY <1>1 DEF ToSet
<1>5. ToSet(u) \cap ToSet(f) = {}
  BY <1>4 DEF Descr
<1>6. ToSet(u) \cup ToSet(f) = Semd
  <2>1. \A x \in Semd : x \in ToSet(u) \/ x \in ToSet(f)
    BY <1>4 DEF Descr
  <2>2. ToSet(u) \subseteq Semd /\ ToSet(f) \subseteq Semd
    BY <1>1 DEF ToSet
  <2> QED
    BY <2>1, <2>2
<1>7. Cardinality(ToSet(u) \cup ToSet(f)) = Len(u) + Len(f)
  <2>1. PICK X : X = ToSet(u)
    OBVIOUS
  <2>2. PICK Y : Y = ToSet(f)
    OBVIOUS
  <2>3. IsFiniteSet(X) /\ IsFiniteSet(Y) /\ X \cap Y = {}
    BY <1>3, <1>5, <2>1, <2>2
  <2>4. Cardinality(X \cup Y) = Cardinality(X) + Cardinality(Y) - Cardinality(X \cap Y)
    BY <2>3, FS_Union
  <2>5. Cardinality(X \cap Y) = 0
    BY <2>3, FS_EmptySet
  <2> QED
    BY <1>1, <1>3, <2>1, <2>2, <2>4, <2>5
<1>8. Cardinality(Semd) = SEMD
  <2>1. PICK n : n = SEMD
    OBVIOUS
  <2>2. n \in Nat /\ n >= 1
    BY <2>1, TableAssumption
  <2>3. Cardinality(1..n) = n
    BY <2>2, FS_Interval
  <2> QED
    BY <2>1, <2>3 DEF Semd
<1> QED
  BY <1>1, <1>6, <1>7, <1>8

\* A semaphore has a descriptor when its queue is not empty.
LEMMA DescrOf ==
    ASSUME NEW A, NEW rq, NEW F, NEW u, NEW f, NEW T, NEW R, Whole(A, rq, F, u, f, T, R),
           NEW s \in Sem
    PROVE  /\ s \in Queue /\ R[s] \in Seq(Place)
           /\ \A i, j \in 1..Len(R[s]) : R[s][i].next = R[s][j].next => i = j
           /\ Find(A.cur, A.semd, s) = ENULL =>
                /\ \A i \in 1..Len(u) : A.semd[u[i]].s_semAdd # s
                /\ T[s] = None /\ R[s] = <<>>
           /\ Find(A.cur, A.semd, s) # ENULL =>
                /\ \E i \in 1..Len(u) : A.semd[u[i]].s_semAdd = s /\ Find(A.cur, A.semd, s) = u[i]
                /\ T[s] = A.semd[Find(A.cur, A.semd, s)].s_link /\ R[s] # <<>>
<1>0. /\ A \in AslRecord /\ Linked(A.L, T, R, F) /\ Descr(A.semd, A.cur, A.free, u, f)
      /\ TailsAre(T, A.semd, u, rq, 0)
  BY DEF Whole
<1>1. s \in Queue
  BY DEF Queue
<1>2. IsRing(R[s], T[s], A.L) /\ R[s] \in Seq(Place)
  BY <1>0, <1>1 DEF Linked
<1>3. \A i, j \in 1..Len(R[s]) : R[s][i].next = R[s][j].next => i = j
  BY <1>2 DEF IsRing
<1>4. T[s] = None <=> R[s] = <<>>
  BY <1>2, HeadIs
<1>5. ASSUME Find(A.cur, A.semd, s) = ENULL
      PROVE  (\A i \in 1..Len(u) : A.semd[u[i]].s_semAdd # s) /\ T[s] = None /\ R[s] = <<>>
  <2>1. \A i \in 1..Len(u) : u[i] # ENULL
    BY <1>0, ListsAre, DescriptorFacts
  <2>2. \A i \in 1..Len(u) : A.semd[u[i]].s_semAdd # s
    BY <1>0, <1>5, <2>1, FindFacts
  <2> QED
    BY <1>0, <1>4, <2>2 DEF TailsAre
<1>6. ASSUME Find(A.cur, A.semd, s) # ENULL
      PROVE  /\ \E i \in 1..Len(u) : A.semd[u[i]].s_semAdd = s /\ Find(A.cur, A.semd, s) = u[i]
             /\ T[s] = A.semd[Find(A.cur, A.semd, s)].s_link /\ R[s] # <<>>
  <2>1. PICK i \in 1..Len(u) : A.semd[u[i]].s_semAdd = s /\ Find(A.cur, A.semd, s) = u[i]
    BY <1>0, <1>6, FindFacts
  <2>2. T[s] = A.semd[u[i]].s_link /\ T[s] # None
    BY <1>0, <2>1 DEF TailsAre
  <2> QED
    BY <1>4, <2>1, <2>2
<1> QED
  BY <1>1, <1>2, <1>3, <1>5, <1>6

\* As many semaphores have waiters as there are descriptors in use.
LEMMA ActiveCount ==
    ASSUME NEW A, NEW rq, NEW F, NEW u, NEW f, NEW T, NEW R, Whole(A, rq, F, u, f, T, R)
    PROVE  Cardinality({t \in Sem : R[t] # <<>>}) = Len(u)
<1>0. /\ A \in AslRecord /\ Linked(A.L, T, R, F) /\ Descr(A.semd, A.cur, A.free, u, f)
      /\ TailsAre(T, A.semd, u, rq, 0)
  BY DEF Whole
<1> DEFINE Act == {t \in Sem : R[t] # <<>>}
           g == [i \in 1..Len(u) |-> A.semd[u[i]].s_semAdd]
<1>1. ASSUME NEW i \in 1..Len(u) PROVE g[i] \in Act
  <2>1. g[i] = A.semd[u[i]].s_semAdd /\ g[i] \in Sem
    BY <1>0 DEF Descr
  <2>2. T[g[i]] # None
    BY <1>0, <2>1 DEF TailsAre
  <2>3. IsRing(R[g[i]], T[g[i]], A.L)
    BY <1>0, <2>1 DEF Linked, Queue
  <2>4. R[g[i]] # <<>>
    BY <2>2, <2>3, HeadIs
  <2> QED
    BY <2>1, <2>4
<1>2. ASSUME NEW i \in 1..Len(u), NEW j \in 1..Len(u), g[i] = g[j] PROVE i = j
  BY <1>0, <1>2 DEF Descr
<1>3. ASSUME NEW t \in Act PROVE \E i \in 1..Len(u) : g[i] = t
  <2>1. Find(A.cur, A.semd, t) # ENULL
    BY DescrOf
  <2>2. \E i \in 1..Len(u) : A.semd[u[i]].s_semAdd = t
    BY <2>1, DescrOf
  <2> QED
    BY <2>2
<1> HIDE DEF Act
<1>4. g \in [1..Len(u) -> Act]
  BY <1>1
<1>5. Len(u) \in Nat
  BY <1>0, ListLengths
<1> HIDE DEF g
<1>6. g \in Bijection(1..Len(u), Act)
  BY <1>2, <1>3, <1>4 DEF Bijection, Injection, Surjection, IsInjective
<1>7. IsFiniteSet(1..Len(u)) /\ Cardinality(1..Len(u)) = Len(u)
  <2>1. \A n \in Nat : IsFiniteSet(1..n) /\ Cardinality(1..n) = n
    BY FS_Interval
  <2> QED
    BY <1>5, <2>1
<1>8. Cardinality(Act) = Len(u)
  BY <1>6, <1>7, FS_Bijection DEF ExistsBijection
<1> QED
  BY <1>8 DEF Act

\* A process leaves the queue of semaphore s.
LEMMA LeaveQueue ==
    ASSUME NEW A, NEW rq, NEW F, NEW u, NEW f, NEW T, NEW R, Whole(A, rq, F, u, f, T, R),
           NEW s \in Sem, NEW x, x = Find(A.cur, A.semd, s), x # ENULL,
           NEW m \in 1..Len(R[s]), NEW r, Takes(r, A.L, T, R, F, s, m),
           NEW B, B = shrink(A, x, r), NEW R2, R2 = Put(R, s, Cut(R[s], m))
    PROVE  /\ \E T2 : Stands(B, rq, F, T2, R2)
           /\ Kept(B.L, A.L, F) /\ r.rv = R[s][m].next
<1>1. IsFor(x, s, A, u)
  <2>1. PICK i \in 1..Len(u) : A.semd[u[i]].s_semAdd = s /\ x = u[i]
    BY DescrOf
  <2> QED
    BY <2>1 DEF IsFor
<1>2. /\ Linked(r.L, Put(T, s, r.tp), R2, F) /\ Kept(r.L, A.L, F)
      /\ r.rv = R[s][m].next
  BY DEF Takes, Put
<1>3. B.L = r.L /\ Stands(B, rq, F, Put(T, s, r.tp), R2)
  BY <1>1, <1>2, shrinkWhole
<1> QED
  BY <1>2, <1>3

\* The representation, whatever the lists of descriptors and the tails are.
Held(A, fh, rq, qc, sv, fr, R) == \E u, f, T : Repr(A, fh, rq, qc, sv, fr, u, f, T, R)

\* The process at place m leaves the queue of s.
LEMMA LeaveSem ==
    ASSUME NEW A, NEW fh, NEW rq, NEW qc, NEW sv, NEW fr, NEW u, NEW f, NEW T, NEW R,
           Repr(A, fh, rq, qc, sv, fr, u, f, T, R),
           NEW s \in Sem, NEW x, x = Find(A.cur, A.semd, s), x # ENULL,
           NEW m \in 1..Len(R[s]), NEW r, Takes(r, A.L, T, R, ToSet(fr), s, m),
           NEW R2, R2 = Put(R, s, Cut(R[s], m)), NEW p, p = R[s][m].next
    PROVE  /\ Held(shrink(A, x, r), fh, rq, Put(qc, p, qc[p] - 1),
                   Put(sv, p, setSem2(sv[p], s)), fr, R2)
           /\ r.rv = p /\ p \in Proc
           /\ Shown(R2) = Lost(R, s, p)
           /\ m = 1 => Lost(R, s, p) = Put(Shown(R), s, Tail(Procs(R[s]))) /\ p = Head(Procs(R[s]))
<1>1. PICK F : F = ToSet(fr)
  OBVIOUS
<1>2. PICK B : B = shrink(A, x, r)
  OBVIOUS
<1>3. /\ Whole(A, rq, F, u, f, T, R) /\ IsList(fr, fh, FreeNext(A.L), Proc)
      /\ Tallied(qc, sv, R) /\ Takes(r, A.L, T, R, F, s, m)
  BY <1>1 DEF Repr
<1>4. /\ s \in Queue /\ R[s] \in Seq(Place)
      /\ \A i, j \in 1..Len(R[s]) : R[s][i].next = R[s][j].next => i = j
  BY <1>3, DescrOf
<1>5. R \in Rings /\ R \in [Queue -> Seq(Place)]
  BY <1>3 DEF Whole, Linked, Rings
<1>6. PICK T2 : Stands(B, rq, F, T2, R2)
  BY <1>2, <1>3, LeaveQueue
<1>7. Kept(B.L, A.L, F) /\ r.rv = p
  BY <1>2, <1>3, LeaveQueue
<1>8. PICK u2, f2 : Whole(B, rq, F, u2, f2, T2, R2)
  BY <1>6 DEF Stands
<1>9. IsList(fr, fh, FreeNext(B.L), Proc)
  BY <1>1, <1>3, <1>7, KeptList
<1>10. PICK v : v = setSem2(sv[p], s)
  OBVIOUS
<1>11. Tallied(Put(qc, p, qc[p] - 1), Put(sv, p, v), R2) /\ p \in Proc
  <2>1. v = IF s \in Sem THEN setSem2(sv[p], s) ELSE sv[p]
    BY <1>10
  <2> QED
    BY <1>3, <1>4, <1>5, <2>1, TalliedLeave
<1>12. Held(B, fh, rq, Put(qc, p, qc[p] - 1), Put(sv, p, v), fr, R2)
  BY <1>1, <1>8, <1>9, <1>11 DEF Held, Repr
<1>13. Shown(R2) = Put(Shown(R), s, Procs(Cut(R[s], m)))
  BY <1>4, <1>5, ShownSet
<1>14. /\ Procs(Cut(R[s], m)) = Without(Procs(R[s]), {p})
       /\ m = 1 => Procs(Cut(R[s], m)) = Tail(Procs(R[s])) /\ p = Head(Procs(R[s]))
  <2>1. PICK c : c = R[s]
    OBVIOUS
  <2>2. /\ Procs(Cut(c, m)) = Without(Procs(c), {c[m].next})
        /\ m = 1 => Procs(Cut(c, m)) = Tail(Procs(c)) /\ c[m].next = Head(Procs(c))
    BY <1>4, <2>1, ShownCut
  <2> QED
    BY <2>1, <2>2
<1> QED
  BY <1>2, <1>7, <1>10, <1>11, <1>12, <1>13, <1>14 DEF Lost

\* The next state is held.
LEMMA HeldShows ==
    ASSUME NEW A, NEW fh, NEW rq, NEW qc, NEW sv, NEW fr, NEW R,
           Held(A, fh, rq, qc, sv, fr, R),
           A = Asl', fh = free_head', rq = running_queue', qc = qcount', sv = semvec', ViewStep
    PROVE  QInv' /\ view' = [free |-> fr, q |-> Shown(R)]
<1>1. PICK u, f, T : Repr(A, fh, rq, qc, sv, fr, u, f, T, R)
  BY DEF Held
<1> QED
  BY <1>1, Shows

LEMMA removeBlockedStep ==
    ASSUME NEW fr, NEW u, NEW f, NEW T, NEW R, Now(fr, u, f, T, R),
           NEW s \in Sem, removeBlocked(s), ViewStep
    PROVE  QInv' /\ Abs!AremoveBlocked(s)
<1>0. /\ Asl.L = p_link /\ Asl.semd = semd /\ Asl.cur = cur_sem /\ Asl.free = free_head_s
      /\ Whole(Asl, running_queue, ToSet(fr), u, f, T, R)
      /\ Linked(p_link, T, R, ToSet(fr)) /\ R \in [Queue -> Seq(Place)]
      /\ view.free = fr /\ view.q = Shown(R)
      /\ \A k \in Queue : view.q[k] = Procs(R[k])
  BY NowFacts
<1>1. PICK A : A = Asl
  OBVIOUS
<1>2. PICK x : x = Find(A.cur, A.semd, s)
  OBVIOUS
<1>3. /\ s \in Queue /\ R[s] \in Seq(Place)
      /\ x = ENULL => T[s] = None /\ R[s] = <<>>
      /\ x # ENULL => T[s] = A.semd[x].s_link /\ R[s] # <<>>
  BY <1>0, <1>1, <1>2, DescrOf
<1>4. Abs!ENULL = ENULL /\ \A p : Abs!Returned(p) = Returned(p)
  BY DEF Abs!ENULL, ENULL, Abs!Returned, Returned
<1>5. PICK r : r = removeProc(p_link, semd[x].s_link)
  OBVIOUS
<1>6. /\ IF x = ENULL THEN ret' = Returned(ENULL) /\ UNCHANGED <<procs, asl>>
         ELSE /\ ret' = Returned(r.rv)
              /\ SetAsl(shrink(Asl, x, r))
              /\ semvec' = [semvec EXCEPT ![r.rv] = setSem2(@, s)]
              /\ qcount' = [qcount EXCEPT ![r.rv] = @ - 1]
              /\ UNCHANGED free_head
      /\ UNCHANGED running_queue
  BY <1>0, <1>1, <1>2, <1>5 DEF removeBlocked
<1>7. CASE x = ENULL
  <2>1. UNCHANGED <<p_link, qcount, free_head, running_queue, asl>> /\ ret' = Returned(ENULL)
    BY <1>6, <1>7 DEF procs
  <2>2. QInv' /\ view' = view
    BY <2>1, Unchanged
  <2>3. view.q[s] = <<>>
    BY <1>0, <1>3, <1>7, ProcsFacts
  <2> QED
    BY <1>4, <2>1, <2>2, <2>3 DEF Abs!AremoveBlocked
<1>8. CASE x # ENULL
  <2>1. Takes(r, p_link, T, R, ToSet(fr), s, 1)
    <3>1. PICK F : F = ToSet(fr)
      OBVIOUS
    <3>2. Takes(removeProc(p_link, T[s]), p_link, T, R, F, s, 1)
      BY <1>0, <1>3, <1>8, <3>1, removeProcTakes
    <3> QED
      BY <1>0, <1>1, <1>3, <1>5, <1>8, <3>1, <3>2
  <2>2. 1 \in 1..Len(R[s])
    BY <1>3, <1>8
  <2>3. PICK R2 : R2 = Put(R, s, Cut(R[s], 1))
    OBVIOUS
  <2>4. PICK p : p = R[s][1].next
    OBVIOUS
  <2>5. PICK B : B = shrink(A, x, r)
    OBVIOUS
  <2>6. /\ Held(B, free_head, running_queue, Put(qcount, p, qcount[p] - 1),
                Put(semvec, p, setSem2(semvec[p], s)), fr, R2)
        /\ r.rv = p /\ p \in Proc
        /\ Shown(R2) = Put(Shown(R), s, Tail(Procs(R[s]))) /\ p = Head(Procs(R[s]))
    <3>1. /\ Repr(A, free_head, running_queue, qcount, semvec, fr, u, f, T, R)
          /\ Takes(r, A.L, T, R, ToSet(fr), s, 1)
      BY <1>0, <1>1, <2>1 DEF Now
    <3> QED
      BY <1>2, <1>8, <2>2, <2>3, <2>4, <2>5, <3>1, LeaveSem
  <2>7. PICK qc : qc = qcount'
    OBVIOUS
  <2>8. PICK sv : sv = semvec'
    OBVIOUS
  <2>9. /\ qc = Put(qcount, p, qcount[p] - 1) /\ sv = Put(semvec, p, setSem2(semvec[p], s))
        /\ free_head' = free_head /\ running_queue' = running_queue /\ ret' = Returned(p)
        /\ SetAsl(B)
    BY <1>1, <1>6, <1>8, <2>5, <2>6, <2>7, <2>8 DEF Put
  <2>10. B = Asl'
    <3>1. PICK u2, f2, T2 : Whole(B, running_queue, ToSet(fr), u2, f2, T2, R2)
      BY <2>6 DEF Held, Repr
    <3>2. B \in AslRecord
      BY <3>1 DEF Whole
    <3> QED
      BY <2>9, <3>2 DEF SetAsl, Asl, AslRecord
  <2>11. QInv' /\ view' = [free |-> fr, q |-> Shown(R2)]
    BY <2>6, <2>7, <2>8, <2>9, <2>10, HeldShows
  <2>12. view.q[s] = Procs(R[s]) /\ view.q[s] # <<>> /\ Shown(R)[s] = Procs(R[s])
    BY <1>0, <1>3, <1>8, ProcsFacts
  <2>13. view'.free = view.free /\ view'.q = [view.q EXCEPT ![s] = Tail(@)]
    BY <1>0, <2>6, <2>11, <2>12 DEF Put
  <2>14. ret' = Abs!Returned(Head(view.q[s]))
    BY <1>4, <2>6, <2>9, <2>12
  <2> QED
    BY <1>4, <2>11, <2>12, <2>13, <2>14 DEF Abs!AremoveBlocked
<1> QED
  BY <1>7, <1>8

\* What is shown when p has joined queue k.
Gained(R, k, p) == Put(Shown(R), k, Append(Procs(R[k]), p))

\* RelinkWhole, for the terms themselves.
LEMMA RelinkedWhole ==
    ASSUME NEW A \in AslRecord, NEW u, NEW f, Descr(A.semd, A.cur, A.free, u, f),
           NEW m \in 1..Len(u), NEW T, NEW rq, TailsAre(T, A.semd, u, rq, m),
           T \in [Queue -> Place \cup {None}], NEW L2, NEW tp, NEW R2, NEW F,
           Linked(L2, Put(T, A.semd[u[m]].s_semAdd, tp), R2, F), tp # None
    PROVE  Whole(Relink(A, L2, u[m], tp), rq, F, u, f, Put(T, A.semd[u[m]].s_semAdd, tp), R2)
<1>1. PICK x : x = u[m]
  OBVIOUS
<1>2. PICK s : s = A.semd[x].s_semAdd
  OBVIOUS
<1>3. PICK T2 : T2 = Put(T, s, tp)
  OBVIOUS
<1>4. PICK B : B = Relink(A, L2, x, tp)
  OBVIOUS
<1>5. Linked(L2, T2, R2, F)
  BY <1>1, <1>2, <1>3
<1>6. Whole(B, rq, F, u, f, T2, R2)
  BY <1>1, <1>2, <1>3, <1>4, <1>5, RelinkWhole
<1> QED
  BY <1>1, <1>2, <1>3, <1>4, <1>6

\* Descriptor x is u[m] for some m, and for s; the tails are those of the
\* descriptors, x may have an empty queue.
ReadyFor(A, rq, u, f, T, x, s) ==
    /\ A \in AslRecord
    /\ Descr(A.semd, A.cur, A.free, u, f)
    /\ \E m \in 1..Len(u) : x = u[m] /\ TailsAre(T, A.semd, u, rq, m)
    /\ s = A.semd[x].s_semAdd /\ T[s] = A.semd[x].s_link

Insert(A, x, p) == LET r == insertProc(A.L, A.semd[x].s_link, p) IN Relink(A, r.L, x, r.tp)

Enters(B, fh, rq, qc, sv, fr, R, s, p) ==
    \E R2 : /\ Held(B, fh, rq, Put(qc, p, qc[p] + 1), Put(sv, p, setSem(sv[p], s)), fr, R2)
            /\ Shown(R2) = Gained(R, s, p)

\* insertProc puts p in the queue of descriptor x.
LEMMA InsertEnters ==
    ASSUME NEW A, NEW rq, NEW u, NEW f, NEW T, NEW x, NEW s \in Sem,
           ReadyFor(A, rq, u, f, T, x, s),
           NEW R, NEW fr, Linked(A.L, T, R, ToSet(fr)),
           NEW fh, IsList(fr, fh, FreeNext(A.L), Proc),
           NEW qc, NEW sv, Tallied(qc, sv, R),
           NEW p \in Proc, p \notin ToSet(fr), s \notin Of(R, p), qc[p] < SEMMAX
    PROVE  Enters(Insert(A, x, p), fh, rq, qc, sv, fr, R, s, p)
<1> PICK m \in 1..Len(u) : x = u[m] /\ TailsAre(T, A.semd, u, rq, m)
  BY DEF ReadyFor
<1> /\ A \in AslRecord /\ Descr(A.semd, A.cur, A.free, u, f)
    /\ s = A.semd[x].s_semAdd /\ T[s] = A.semd[x].s_link
  BY DEF ReadyFor
<1> PICK r : r = insertProc(A.L, A.semd[x].s_link, p)
  OBVIOUS
<1>1. PICK F : F = ToSet(fr)
  OBVIOUS
<1>2. /\ Linked(A.L, T, R, F) /\ R \in Rings /\ R \in [Queue -> Seq(Place)]
      /\ T \in [Queue -> Place \cup {None}] /\ s \in Queue /\ R[s] \in Seq(Place)
  BY <1>1 DEF Linked, Rings, Queue
<1>3. \A i \in 1..Len(R[s]) : R[s][i].next # p
  BY <1>2 DEF Of
<1>4. IsFiniteSet(Of(R, p)) /\ Cardinality(Of(R, p)) < SEMMAX
  BY DEF Tallied
<1>5. \E i \in Slot : A.L[p][i].index = ENULL
  BY <1>1, <1>2, <1>4, LinkToSpare
<1>6. Joins(insertProc(A.L, T[s], p), A.L, T, R, F, s, p)
  BY <1>1, <1>2, <1>3, <1>5, insertProcJoins
<1>7. Joins(r, A.L, T, R, F, s, p)
  BY <1>6
<1>8. PICK y \in Place : /\ y.next = p
                         /\ r.tp = y
                         /\ Linked(r.L, [T EXCEPT ![s] = y], [R EXCEPT ![s] = Append(@, y)], F)
                         /\ Kept(r.L, A.L, F)
  BY <1>7 DEF Joins
<1>9. PICK T2 : T2 = Put(T, s, y)
  OBVIOUS
<1>10. PICK R2 : R2 = Put(R, s, Append(R[s], y))
  OBVIOUS
<1>11. Linked(r.L, T2, R2, F)
  BY <1>8, <1>9, <1>10 DEF Put
<1>12. PICK B : B = Relink(A, r.L, x, r.tp)
  OBVIOUS
<1>13. r.tp # None /\ T2 = Put(T, s, r.tp)
  BY <1>8, <1>9, NoneIsNoPlace
<1>14. Whole(B, rq, F, u, f, T2, R2)
  <2>1. Linked(r.L, Put(T, A.semd[u[m]].s_semAdd, r.tp), R2, F)
    BY <1>11, <1>13
  <2>2. Whole(Relink(A, r.L, u[m], r.tp), rq, F, u, f, Put(T, A.semd[u[m]].s_semAdd, r.tp), R2)
    BY <1>2, <1>13, <2>1, RelinkedWhole
  <2> QED
    BY <1>12, <1>13, <2>2
<1>15. B.L = r.L
  BY <1>12 DEF Relink, AslRecord
<1>16. IsList(fr, fh, FreeNext(B.L), Proc)
  BY <1>1, <1>8, <1>15, KeptList
<1>17. PICK v : v = setSem(sv[p], s)
  OBVIOUS
<1>18. Tallied(Put(qc, p, qc[p] + 1), Put(sv, p, v), R2)
  <2>1. v = IF s \in Sem THEN setSem(sv[p], s) ELSE sv[p]
    BY <1>17
  <2> QED
    BY <1>2, <1>8, <1>10, <2>1, TalliedJoin
<1>19. Held(B, fh, rq, Put(qc, p, qc[p] + 1), Put(sv, p, v), fr, R2)
  BY <1>1, <1>14, <1>16, <1>18 DEF Held, Repr
<1>20. Shown(R2) = Gained(R, s, p)
  <2>1. Shown(R2) = Put(Shown(R), s, Procs(Append(R[s], y)))
    BY <1>2, <1>10, ShownSet
  <2>2. Procs(Append(R[s], y)) = Append(Procs(R[s]), p)
    BY <1>2, <1>8, ProcsAppend
  <2> QED
    BY <2>1, <2>2 DEF Gained
<1> QED
  BY <1>12, <1>17, <1>19, <1>20 DEF Enters, Insert

\* With a new descriptor for s at the end of the list the tails are the same:
\* the descriptor brings an empty queue.
LEMMA TakeWhole ==
    ASSUME NEW A, NEW rq, NEW F, NEW u, NEW f, NEW T, NEW R, Whole(A, rq, F, u, f, T, R),
           f # <<>>, NEW s \in Sem, Find(A.cur, A.semd, s) = ENULL,
           NEW B, B = takeSemd(A, s)
    PROVE  /\ B \in AslRecord /\ B.L = A.L /\ A.free = f[1]
           /\ Descr(B.semd, B.cur, B.free, Append(u, f[1]), Tail(f))
           /\ Len(u) + 1 \in 1..Len(Append(u, f[1])) /\ f[1] = Append(u, f[1])[Len(u) + 1]
           /\ s = B.semd[f[1]].s_semAdd /\ T[s] = B.semd[f[1]].s_link
           /\ TailsAre(T, B.semd, Append(u, f[1]), rq, Len(u) + 1)
<1>1. /\ A \in AslRecord /\ Descr(A.semd, A.cur, A.free, u, f) /\ TailsAre(T, A.semd, u, rq, 0)
      /\ \A i \in 1..Len(u) : A.semd[u[i]].s_semAdd # s
      /\ T[s] = None
  <2>1. \A i \in 1..Len(u) : A.semd[u[i]].s_semAdd # s
    BY DescrOf
  <2>2. T[s] = None
    BY DescrOf
  <2> QED
    BY <2>1, <2>2 DEF Whole
<1>2. /\ B \in AslRecord
      /\ B.L = A.L
      /\ Descr(B.semd, B.cur, B.free, Append(u, f[1]), Tail(f))
      /\ A.free = f[1]
      /\ B.semd[f[1]].s_semAdd = s
      /\ \A y \in Semd : B.semd[y].s_link = A.semd[y].s_link
      /\ \A y \in Semd : y # f[1] => B.semd[y].s_semAdd = A.semd[y].s_semAdd
  BY <1>1, takeSemdMoves DEF NoneFor
<1>3. /\ u \in Seq(Semd) /\ f \in Seq(Semd) /\ Len(u) \in Nat
      /\ \A i \in 1..Len(u) : u[i] \in Semd
      /\ \A i \in 1..Len(f) : f[i] \in Semd
  BY <1>1, ListsAre
<1>4. 1 \in 1..Len(f) /\ f[1] \in Semd
  BY <1>3
<1>5. PICK w : w = Append(u, f[1])
  OBVIOUS
<1>6. /\ Len(w) = Len(u) + 1 /\ w[Len(u) + 1] = f[1]
      /\ \A i \in 1..Len(u) : w[i] = u[i]
  BY <1>3, <1>4, <1>5
<1>7. B.semd[f[1]].s_link = None
  <2>1. A.semd[f[1]].s_link = None
    BY <1>1, <1>4 DEF Descr
  <2> QED
    BY <1>2, <1>4, <2>1
<1>8. \A i \in 1..Len(u) : u[i] # f[1]
  BY <1>1, <1>4 DEF Descr
<1>9. \A i \in 1..Len(u) : /\ B.semd[w[i]].s_semAdd = A.semd[u[i]].s_semAdd
                           /\ B.semd[w[i]].s_link = A.semd[u[i]].s_link
  BY <1>2, <1>3, <1>6, <1>8
<1>10. TailsAre(T, B.semd, w, rq, Len(u) + 1)
  <2>1. T["running_queue"] = rq
    BY <1>1 DEF TailsAre
  <2>2. ASSUME NEW i \in 1..Len(w), i # Len(u) + 1
        PROVE  T[B.semd[w[i]].s_semAdd] = B.semd[w[i]].s_link /\ B.semd[w[i]].s_link # None
    <3>1. i \in 1..Len(u) /\ i # 0
      BY <1>3, <1>6, <2>2
    <3>2. T[A.semd[u[i]].s_semAdd] = A.semd[u[i]].s_link /\ A.semd[u[i]].s_link # None
      BY <1>1, <3>1 DEF TailsAre
    <3> QED
      BY <1>9, <3>1, <3>2
  <2>3. ASSUME NEW t \in Sem, \A i \in 1..Len(w) : B.semd[w[i]].s_semAdd # t
        PROVE  T[t] = None
    <3>1. \A i \in 1..Len(u) : i \in 1..Len(w)
      BY <1>3, <1>6
    <3>2. \A i \in 1..Len(u) : A.semd[u[i]].s_semAdd # t
      BY <1>9, <2>3, <3>1
    <3> QED
      BY <1>1, <3>2 DEF TailsAre
  <2> QED
    BY <2>1, <2>2, <2>3 DEF TailsAre
<1>11. Len(u) + 1 \in 1..Len(w)
  BY <1>3, <1>6
<1> QED
  BY <1>1, <1>2, <1>5, <1>6, <1>7, <1>10, <1>11

\* The links, the descriptors and the counts are those of a state that is held.
LEMMA SetAslIs ==
    ASSUME NEW B, NEW fh, NEW rq, NEW qc, NEW sv, NEW fr, NEW R,
           Held(B, fh, rq, qc, sv, fr, R), SetAsl(B)
    PROVE  B = Asl'
<1>1. PICK u, f, T : Whole(B, rq, ToSet(fr), u, f, T, R)
  BY DEF Held, Repr
<1>2. B \in AslRecord
  BY <1>1 DEF Whole
<1> QED
  BY <1>2 DEF SetAsl, Asl, AslRecord

LEMMA insertBlockedStep ==
    ASSUME NEW fr, NEW u, NEW f, NEW T, NEW R, Now(fr, u, f, T, R),
           NEW s \in Sem, NEW p \in Proc, insertBlocked(s, p), ViewStep
    PROVE  QInv' /\ Abs!AinsertBlocked(s, p)
<1>0. /\ Asl.L = p_link /\ Asl.semd = semd /\ Asl.cur = cur_sem /\ Asl.free = free_head_s
      /\ Asl \in AslRecord
      /\ Whole(Asl, running_queue, ToSet(fr), u, f, T, R)
      /\ Linked(p_link, T, R, ToSet(fr)) /\ R \in [Queue -> Seq(Place)]
      /\ Descr(semd, cur_sem, free_head_s, u, f)
      /\ TailsAre(T, semd, u, running_queue, 0)
      /\ IsList(fr, free_head, FreeNext(p_link), Proc)
      /\ Tallied(qcount, semvec, R)
      /\ view.free = fr /\ view.q = Shown(R)
      /\ \A k \in Queue : view.q[k] = Procs(R[k])
      /\ Abs!In(p) = Of(R, p)
      /\ Allocated(p) <=> p \notin ToSet(fr)
      /\ Abs!Allocated(p) <=> p \notin ToSet(fr)
  BY NowFacts
<1>1. PICK x : x = Find(cur_sem, semd, s)
  OBVIOUS
<1>2. PICK A : A = IF x = ENULL THEN takeSemd(Asl, s) ELSE Asl
  OBVIOUS
<1>3. PICK y : y = IF x = ENULL THEN free_head_s ELSE x
  OBVIOUS
<1>4. PICK r : r = insertProc(A.L, A.semd[y].s_link, p)
  OBVIOUS
<1>5. /\ Allocated(p) /\ qcount[p] < SEMMAX /\ s \notin {semvec[p][i] : i \in Slot}
      /\ IF cur_sem # ENULL /\ x = ENULL /\ free_head_s = ENULL
         THEN ret' = [Returned(ENULL) EXCEPT !.full = TRUE] /\ UNCHANGED <<procs, asl>>
         ELSE /\ ret' = Returned(ENULL)
              /\ SetAsl(Relink(A, r.L, y, r.tp))
              /\ semvec' = [semvec EXCEPT ![p] = setSem(@, s)]
              /\ qcount' = [qcount EXCEPT ![p] = @ + 1]
              /\ UNCHANGED free_head
      /\ UNCHANGED running_queue
  BY <1>1, <1>2, <1>3, <1>4 DEF insertBlocked, Relink
<1>6. /\ s \in Queue /\ R[s] \in Seq(Place)
      /\ x = ENULL => T[s] = None /\ R[s] = <<>>
      /\ x # ENULL => /\ \E i \in 1..Len(u) : semd[u[i]].s_semAdd = s /\ x = u[i]
                      /\ T[s] = semd[x].s_link /\ R[s] # <<>>
  <2>1. PICK B : B = Asl
    OBVIOUS
  <2>2. Whole(B, running_queue, ToSet(fr), u, f, T, R) /\ x = Find(B.cur, B.semd, s)
    BY <1>0, <1>1, <2>1
  <2>3. /\ s \in Queue /\ R[s] \in Seq(Place)
        /\ x = ENULL => T[s] = None /\ R[s] = <<>>
        /\ x # ENULL => /\ \E i \in 1..Len(u) : B.semd[u[i]].s_semAdd = s /\ x = u[i]
                        /\ T[s] = B.semd[x].s_link /\ R[s] # <<>>
    BY <2>2, DescrOf
  <2> QED
    BY <1>0, <2>1, <2>3
<1>7. s \notin Of(R, p) /\ Cardinality(Of(R, p)) < SEMMAX /\ p \notin ToSet(fr)
  <2>1. Names(semvec[p], Of(R, p)) /\ qcount[p] = Cardinality(Of(R, p))
    BY <1>0 DEF Tallied
  <2>2. \A i \in Slot : semvec[p][i] # s
    BY <1>5
  <2>3. s \notin Of(R, p)
    BY <2>1, <2>2 DEF Names
  <2> QED
    BY <1>0, <1>5, <2>1, <2>3
<1>8. Abs!MayJoin(p, s)
  BY <1>0, <1>7, AbsOps DEF Abs!MayJoin
<1>9. /\ Len(u) + Len(f) = SEMD /\ Len(u) \in Nat /\ Len(f) \in Nat
      /\ f \in Seq(Semd) /\ u \in Seq(Semd)
      /\ free_head_s = ENULL <=> f = <<>>
      /\ cur_sem = ENULL <=> u = <<>>
  <2>1. /\ Len(u) + Len(f) = SEMD /\ Len(u) \in Nat /\ Len(f) \in Nat
    BY <1>0, ListLengths
  <2>2. /\ f \in Seq(Semd) /\ u \in Seq(Semd)
        /\ \A i \in 1..Len(u) : u[i] \in Semd
        /\ \A i \in 1..Len(f) : f[i] \in Semd
    BY <1>0, ListsAre
  <2>3. /\ cur_sem = IF u = <<>> THEN ENULL ELSE u[1]
        /\ free_head_s = IF f = <<>> THEN ENULL ELSE f[1]
    BY <1>0 DEF Descr, IsList
  <2>4. ENULL \notin Semd
    BY DEF ENULL, Semd
  <2>5. f # <<>> => 1 \in 1..Len(f)
    BY <2>1, <2>2
  <2>6. u # <<>> => 1 \in 1..Len(u)
    BY <2>1, <2>2
  <2> QED
    BY <2>1, <2>2, <2>3, <2>4, <2>5, <2>6
<1>10. PICK Active : Active = {t \in Sem : view.q[t] # <<>>}
  OBVIOUS
<1>11. Cardinality(Active) = Len(u)
  <2>1. \A t \in Sem : view.q[t] # <<>> <=> R[t] # <<>>
    BY <1>0, ProcsFacts DEF Queue
  <2>2. Active = {t \in Sem : R[t] # <<>>}
    BY <1>10, <2>1
  <2> QED
    BY <1>0, <2>2, ActiveCount
<1>12. (view.q[s] = <<>> <=> x = ENULL) /\ view.q[s] = Procs(R[s])
  BY <1>0, <1>6, ProcsFacts
<1>13. Abs!ENULL = ENULL /\ \A z : Abs!Returned(z) = Returned(z)
  BY DEF Abs!ENULL, ENULL, Abs!Returned, Returned
<1>14. PICK full : full = (view.q[s] = <<>> /\ Cardinality(Active) = SEMD)
  OBVIOUS
<1>15. /\ full \in BOOLEAN
       /\ full <=> cur_sem # ENULL /\ x = ENULL /\ free_head_s = ENULL
  <2>1. Len(u) = SEMD <=> f = <<>>
    BY <1>9, TableAssumption
  <2>2. Len(u) = SEMD => u # <<>>
    BY <1>9, TableAssumption
  <2> QED
    BY <1>9, <1>11, <1>12, <1>14, <2>1, <2>2
<1>16. ASSUME ret' = [Returned(ENULL) EXCEPT !.full = full], view'.free = view.free,
              view'.q = IF full THEN view.q ELSE [view.q EXCEPT ![s] = Append(@, p)]
       PROVE  Abs!AinsertBlocked(s, p)
  BY <1>8, <1>10, <1>13, <1>14, <1>16, AbsOps DEF Abs!AinsertBlocked
<1>17. CASE cur_sem # ENULL /\ x = ENULL /\ free_head_s = ENULL
  <2>1. /\ UNCHANGED <<p_link, qcount, free_head, running_queue, asl>>
        /\ ret' = [Returned(ENULL) EXCEPT !.full = TRUE]
    BY <1>5, <1>17 DEF procs
  <2>2. QInv' /\ view' = view
    BY <2>1, Unchanged
  <2>3. full = TRUE
    BY <1>15, <1>17
  <2> QED
    BY <1>16, <2>1, <2>2, <2>3
<1>18. CASE ~(cur_sem # ENULL /\ x = ENULL /\ free_head_s = ENULL)
  <2>1. full = FALSE
    BY <1>15, <1>18
  <2>2. PICK B : B = Relink(A, r.L, y, r.tp)
    OBVIOUS
  <2>3. Enters(B, free_head, running_queue, qcount, semvec, fr, R, s, p)
    <3>0. B = Insert(A, y, p)
      BY <1>4, <2>2 DEF Insert
    <3>1. ASSUME x # ENULL
          PROVE  Enters(Insert(A, y, p), free_head, running_queue, qcount, semvec, fr, R, s, p)
      <4>1. A = Asl /\ y = x
        BY <1>2, <1>3, <3>1
      <4>2. PICK m \in 1..Len(u) : semd[u[m]].s_semAdd = s /\ x = u[m]
        BY <1>6, <3>1
      <4>3. /\ Linked(A.L, T, R, ToSet(fr)) /\ IsList(fr, free_head, FreeNext(A.L), Proc)
        BY <1>0, <4>1
      <4>4. ReadyFor(A, running_queue, u, f, T, y, s)
        <5>1. TailsAre(T, A.semd, u, running_queue, m)
          BY <1>0, <4>1 DEF TailsAre
        <5> QED
          BY <1>0, <1>6, <3>1, <4>1, <4>2, <5>1 DEF ReadyFor
      <4> QED
        BY <1>0, <1>5, <1>7, <4>3, <4>4, InsertEnters
    <3>2. ASSUME x = ENULL
          PROVE  Enters(Insert(A, y, p), free_head, running_queue, qcount, semvec, fr, R, s, p)
      <4>1. A = takeSemd(Asl, s) /\ y = free_head_s /\ f # <<>>
        BY <1>2, <1>3, <1>9, <1>15, <1>18, <3>2, TableAssumption
      <4>2. PICK C : C = Asl
        OBVIOUS
      <4>3. PICK w : w = Append(u, f[1])
        OBVIOUS
      <4>4. PICK n : n = Len(u) + 1
        OBVIOUS
      <4>5. /\ Whole(C, running_queue, ToSet(fr), u, f, T, R) /\ A = takeSemd(C, s)
            /\ Find(C.cur, C.semd, s) = ENULL
        BY <1>0, <1>1, <3>2, <4>1, <4>2
      <4>6. /\ A \in AslRecord /\ A.L = C.L /\ C.free = f[1]
            /\ Descr(A.semd, A.cur, A.free, Append(u, f[1]), Tail(f))
            /\ Len(u) + 1 \in 1..Len(Append(u, f[1])) /\ f[1] = Append(u, f[1])[Len(u) + 1]
            /\ s = A.semd[f[1]].s_semAdd /\ T[s] = A.semd[f[1]].s_link
            /\ TailsAre(T, A.semd, Append(u, f[1]), running_queue, Len(u) + 1)
        BY <4>1, <4>5, TakeWhole
      <4>7. /\ Linked(A.L, T, R, ToSet(fr)) /\ IsList(fr, free_head, FreeNext(A.L), Proc)
        BY <1>0, <4>2, <4>6
      <4>8. ReadyFor(A, running_queue, w, Tail(f), T, y, s)
        <5>1. n \in 1..Len(w) /\ y = w[n] /\ y = f[1] /\ TailsAre(T, A.semd, w, running_queue, n)
          BY <1>0, <4>1, <4>2, <4>3, <4>4, <4>6
        <5> QED
          BY <4>3, <4>6, <5>1 DEF ReadyFor
      <4> QED
        BY <1>0, <1>5, <1>7, <4>7, <4>8, InsertEnters
    <3>3. Enters(Insert(A, y, p), free_head, running_queue, qcount, semvec, fr, R, s, p)
      BY <3>1, <3>2
    <3> QED
      BY <3>0, <3>3
  <2>3a. PICK R2 : /\ Held(B, free_head, running_queue, Put(qcount, p, qcount[p] + 1),
                          Put(semvec, p, setSem(semvec[p], s)), fr, R2)
                  /\ Shown(R2) = Gained(R, s, p)
    BY <2>3 DEF Enters
  <2>4. PICK qc : qc = qcount'
    OBVIOUS
  <2>5. PICK sv : sv = semvec'
    OBVIOUS
  <2>6. /\ qc = Put(qcount, p, qcount[p] + 1) /\ sv = Put(semvec, p, setSem(semvec[p], s))
        /\ free_head' = free_head /\ running_queue' = running_queue /\ ret' = Returned(ENULL)
        /\ SetAsl(B)
    BY <1>5, <1>18, <2>2, <2>4, <2>5 DEF Put
  <2>7. B = Asl'
    BY <2>3a, <2>6, SetAslIs
  <2>8. QInv' /\ view' = [free |-> fr, q |-> Shown(R2)]
    BY <2>3a, <2>4, <2>5, <2>6, <2>7, HeldShows
  <2>9. Shown(R)[s] = Procs(R[s])
    BY <1>6 DEF Shown
  <2>10. view'.free = view.free /\ view'.q = [view.q EXCEPT ![s] = Append(@, p)]
    BY <1>0, <2>3a, <2>8, <2>9 DEF Put, Gained
  <2>11. ret' = [Returned(ENULL) EXCEPT !.full = full]
    <3>1. \A b \in BOOLEAN : [Returned(ENULL) EXCEPT !.full = b]
                              = [proc |-> ENULL, full |-> b, raised |-> {}]
      BY DEF Returned
    <3>2. Returned(ENULL) = [proc |-> ENULL, full |-> FALSE, raised |-> {}]
      BY DEF Returned
    <3>3. [Returned(ENULL) EXCEPT !.full = FALSE] = Returned(ENULL)
      BY <3>1, <3>2, Zenon
    <3> QED
      BY <2>1, <2>6, <3>3, Zenon
  <2> QED
    BY <1>16, <2>1, <2>8, <2>10, <2>11
<1> QED
  BY <1>17, <1>18

----------------------------------------------------------------------------
(***************************************************************************)
(* outBlocked: one turn for each entry of the semvec.                      *)
(***************************************************************************)
OutStates == [A : AslRecord, rv : Proc \cup {ENULL}, raised : SUBSET Sem, left : Nat,
              sv : [Slot -> Sem \cup {ENULL}]]

\* What is shown once p has left the queues of the semaphores in gone.
LostAll(R2, R, gone, p) ==
    \A k \in Queue : Procs(R2[k]) = IF k \in gone THEN Without(Procs(R[k]), {p})
                                    ELSE Procs(R[k])

\* After i turns from the representation qc, sv and R.
Turned(st, i, p, fh, rq, qc, sv, fr, R) ==
    /\ st \in OutStates
    /\ \E R2 : /\ Held(st.A, fh, rq, Put(qc, p, qc[p] - st.left), Put(sv, p, st.sv), fr, R2)
               /\ LostAll(R2, R, st.raised, p)
    /\ \A j \in Slot : st.sv[j] = IF j < i THEN ENULL ELSE sv[p][j]
    /\ \A s \in Sem : s \in st.raised <=> \E j \in Slot : j < i /\ sv[p][j] = s
    /\ st.rv = IF st.raised = {} THEN ENULL ELSE p

LEMMA PutTwice ==
    ASSUME NEW X, NEW g, DOMAIN g = X, NEW p \in X, NEW v, NEW w
    PROVE  Put(Put(g, p, v), p, w) = Put(g, p, w) /\ Put(g, p, v)[p] = v
BY DEF Put

\* p has left the queue of s.
Leaves(B, fh, rq, qc, sv, fr, R, s, p) ==
    \E R2 : /\ Held(B, fh, rq, Put(qc, p, qc[p] - 1), Put(sv, p, setSem2(sv[p], s)), fr, R2)
            /\ Shown(R2) = Lost(R, s, p)

\* LeaveSem, for the terms themselves.
LEMMA LeaveOne ==
    ASSUME NEW A, NEW fh, NEW rq, NEW qc, NEW sv, NEW fr, NEW u, NEW f, NEW T, NEW R,
           Repr(A, fh, rq, qc, sv, fr, u, f, T, R),
           NEW s \in Sem, Find(A.cur, A.semd, s) # ENULL,
           NEW m \in 1..Len(R[s]), NEW r, Takes(r, A.L, T, R, ToSet(fr), s, m)
    PROVE  /\ Leaves(shrink(A, Find(A.cur, A.semd, s), r), fh, rq, qc, sv, fr, R, s, R[s][m].next)
           /\ r.rv = R[s][m].next
<1>1. PICK x : x = Find(A.cur, A.semd, s)
  OBVIOUS
<1>2. PICK R2 : R2 = Put(R, s, Cut(R[s], m))
  OBVIOUS
<1>3. PICK p : p = R[s][m].next
  OBVIOUS
<1>4. x # ENULL
  BY <1>1
<1>5. /\ Held(shrink(A, x, r), fh, rq, Put(qc, p, qc[p] - 1),
              Put(sv, p, setSem2(sv[p], s)), fr, R2)
      /\ r.rv = p
      /\ Shown(R2) = Lost(R, s, p)
  BY <1>1, <1>2, <1>3, <1>4, LeaveSem
<1> QED
  BY <1>1, <1>3, <1>5 DEF Leaves

\* A process that stands in the queue of s is found and taken out.
LEMMA OutLeaves ==
    ASSUME NEW A, NEW fh, NEW rq, NEW qc, NEW sv, NEW fr, NEW R,
           Held(A, fh, rq, qc, sv, fr, R), NEW p \in Proc, NEW s \in Sem, s \in Of(R, p),
           NEW x, x = Find(A.cur, A.semd, s),
           NEW r, r = outProc(A.L, A.semd[x].s_link, p)
    PROVE  /\ x # ENULL /\ r.rv = p
           /\ Leaves(shrink(A, x, r), fh, rq, qc, sv, fr, R, s, p)
<1>1. PICK u, f, T : Repr(A, fh, rq, qc, sv, fr, u, f, T, R)
  BY DEF Held
<1>2. PICK F : F = ToSet(fr)
  OBVIOUS
<1>3. Whole(A, rq, F, u, f, T, R) /\ Linked(A.L, T, R, F)
  BY <1>1, <1>2 DEF Repr, Whole
<1>4. PICK m \in 1..Len(R[s]) : R[s][m].next = p
  BY DEF Of
<1>5. /\ s \in Queue /\ R[s] \in Seq(Place)
      /\ x = ENULL => R[s] = <<>>
      /\ x # ENULL => T[s] = A.semd[x].s_link
  BY <1>3, DescrOf
<1>6. x # ENULL
  <2>1. R[s] # <<>>
    BY <1>4
  <2> QED
    BY <1>5, <2>1
<1>7. Takes(outProc(A.L, T[s], p), A.L, T, R, F, s, m)
  BY <1>3, <1>4, <1>5, outProcTakes
<1>8. Takes(r, A.L, T, R, ToSet(fr), s, m)
  BY <1>2, <1>5, <1>6, <1>7
<1>9. /\ Leaves(shrink(A, Find(A.cur, A.semd, s), r), fh, rq, qc, sv, fr, R, s, R[s][m].next)
      /\ r.rv = R[s][m].next
  BY <1>1, <1>6, <1>8, LeaveOne
<1> QED
  BY <1>4, <1>6, <1>9

LEMMA HeldFacts ==
    ASSUME NEW A, NEW fh, NEW rq, NEW qc, NEW sv, NEW fr, NEW R,
           Held(A, fh, rq, qc, sv, fr, R)
    PROVE  /\ A \in AslRecord /\ Tallied(qc, sv, R) /\ R \in [Queue -> Seq(Place)]
           /\ qc \in [Proc -> Nat]
           /\ sv \in [Proc -> [Slot -> Sem \cup {ENULL}]]
           /\ \A p \in Proc : Names(sv[p], Of(R, p))
<1>1. PICK u, f, T : Repr(A, fh, rq, qc, sv, fr, u, f, T, R)
  BY DEF Held
<1>2. Whole(A, rq, ToSet(fr), u, f, T, R) /\ Tallied(qc, sv, R)
  BY <1>1 DEF Repr
<1>3. A \in AslRecord /\ R \in [Queue -> Seq(Place)]
  BY <1>2 DEF Whole, Linked
<1> QED
  BY <1>2, <1>3 DEF Tallied

LEMMA OneTurn ==
    ASSUME NEW p \in Proc, NEW fh, NEW rq, NEW qc, NEW sv, NEW fr, NEW R, Tallied(qc, sv, R),
           NEW st, NEW i \in 1..SEMMAX, Turned(st, i - 1, p, fh, rq, qc, sv, fr, R)
    PROVE  Turned(outOne(st, sv[p][i-1], p), i, p, fh, rq, qc, sv, fr, R)
<1>1. PICK s : s = sv[p][i-1]
  OBVIOUS
<1>2. PICK R2 : /\ Held(st.A, fh, rq, Put(qc, p, qc[p] - st.left), Put(sv, p, st.sv), fr, R2)
                /\ LostAll(R2, R, st.raised, p)
  BY DEF Turned
<1>3. /\ st \in OutStates
      /\ \A j \in Slot : st.sv[j] = IF j < i - 1 THEN ENULL ELSE sv[p][j]
      /\ \A t \in Sem : t \in st.raised <=> \E j \in Slot : j < i - 1 /\ sv[p][j] = t
      /\ st.rv = IF st.raised = {} THEN ENULL ELSE p
  BY DEF Turned
<1>4. /\ i - 1 \in Slot /\ i \in Int
      /\ \A j \in Slot : j \in Int /\ (j < i <=> j < i - 1 \/ j = i - 1)
  BY TableAssumption DEF Slot
<1>5. /\ qc \in [Proc -> Nat] /\ sv \in [Proc -> [Slot -> Sem \cup {ENULL}]]
      /\ Names(sv[p], Of(R, p))
  BY DEF Tallied
<1>6. s \in Sem \cup {ENULL} /\ st.sv[i-1] = s
  BY <1>1, <1>3, <1>4, <1>5
<1>7. CASE s = ENULL
  <2>1. outOne(st, s, p) = st
    BY <1>7 DEF outOne
  <2>2. \A j \in Slot : st.sv[j] = IF j < i THEN ENULL ELSE sv[p][j]
    BY <1>3, <1>4, <1>1, <1>7
  <2>3. \A t \in Sem : t \in st.raised <=> \E j \in Slot : j < i /\ sv[p][j] = t
    BY <1>1, <1>3, <1>4, <1>7, SemIsNoNull, ZenonT(60)
  <2>4. Turned(st, i, p, fh, rq, qc, sv, fr, R)
    BY <1>2, <1>3, <2>2, <2>3 DEF Turned
  <2> QED
    BY <1>1, <2>1, <2>4
<1>8. CASE s # ENULL
  <2>0. s \in Sem
    BY <1>6, <1>8
  <2>1. PICK A : A = st.A
    OBVIOUS
  <2>2. PICK qc2 : qc2 = Put(qc, p, qc[p] - st.left)
    OBVIOUS
  <2>3. PICK sv2 : sv2 = Put(sv, p, st.sv)
    OBVIOUS
  <2>4. Held(A, fh, rq, qc2, sv2, fr, R2)
    BY <1>2, <2>1, <2>2, <2>3
  <2>5. sv2[p] = st.sv /\ qc2[p] = qc[p] - st.left
    BY <1>5, <2>2, <2>3 DEF Put
  <2>6. Names(st.sv, Of(R2, p)) /\ R2 \in [Queue -> Seq(Place)]
    BY <2>4, <2>5, HeldFacts
  <2>7. s \in Of(R2, p)
    BY <1>4, <1>6, <2>0, <2>6 DEF Names
  <2>8. PICK x : x = Find(A.cur, A.semd, s)
    OBVIOUS
  <2>9. PICK r : r = outProc(A.L, A.semd[x].s_link, p)
    OBVIOUS
  <2>10. PICK B : B = shrink(A, x, r)
    OBVIOUS
  <2>11. x # ENULL /\ r.rv = p
    BY <2>0, <2>4, <2>7, <2>8, <2>9, OutLeaves
  <2>12. PICK R3 : /\ Held(B, fh, rq, Put(qc2, p, qc2[p] - 1),
                           Put(sv2, p, setSem2(sv2[p], s)), fr, R3)
                   /\ Shown(R3) = Lost(R2, s, p)
    BY <2>0, <2>4, <2>7, <2>8, <2>9, <2>10, OutLeaves DEF Leaves
  <2>13. PICK v : v = setSem2(st.sv, s)
    OBVIOUS
  <2>14. /\ Names(v, Of(R2, p) \ {s})
         /\ \A j \in Slot : v[j] = IF st.sv[j] = s THEN ENULL ELSE st.sv[j]
    BY <2>0, <2>6, <2>7, <2>13, setSem2Drops
  <2>15. p # ENULL /\ ENULL \notin Proc
    BY DEF Proc, ENULL
  <2>16. PICK new : new = [A |-> B, rv |-> p, raised |-> st.raised \cup {s},
                           left |-> st.left + 1, sv |-> v]
    OBVIOUS
  <2>17. outOne(st, s, p) = new
    BY <1>8, <2>1, <2>8, <2>9, <2>10, <2>11, <2>13, <2>15, <2>16 DEF outOne
  <2>18. new \in OutStates
    <3>1. B \in AslRecord
      BY <2>12, HeldFacts
    <3>2. v \in [Slot -> Sem \cup {ENULL}]
      BY <2>14 DEF Names
    <3>3. st.raised \cup {s} \in SUBSET Sem /\ st.left + 1 \in Nat
      BY <1>3, <2>0 DEF OutStates
    <3> QED
      BY <2>16, <3>1, <3>2, <3>3 DEF OutStates
  <2>19. Held(new.A, fh, rq, Put(qc, p, qc[p] - new.left), Put(sv, p, new.sv), fr, R3)
    <3>1. Put(qc2, p, qc2[p] - 1) = Put(qc, p, qc2[p] - 1)
      BY <1>5, <2>2, PutTwice
    <3>2. Put(sv2, p, setSem2(sv2[p], s)) = Put(sv, p, v)
      BY <1>5, <2>3, <2>5, <2>13, PutTwice
    <3>3. qc2[p] - 1 = qc[p] - new.left
      <4>1. qc[p] \in Nat /\ st.left \in Nat /\ new.left = st.left + 1
        BY <1>3, <1>5, <2>16 DEF OutStates
      <4> QED
        BY <2>5, <4>1
    <3>4. new.A = B /\ new.sv = v
      BY <2>16
    <3> QED
      BY <2>12, <3>1, <3>2, <3>3, <3>4
  <2>20. s \notin st.raised
    <3> SUFFICES ASSUME s \in st.raised PROVE FALSE
      OBVIOUS
    <3>1. PICK j \in Slot : j < i - 1 /\ sv[p][j] = s
      BY <1>3, <2>0
    <3>2. j = i - 1 \/ sv[p][j] = ENULL
      BY <1>1, <1>4, <1>5, <3>1 DEF Names
    <3> QED
      BY <1>4, <1>8, <3>1, <3>2
  <2>21. LostAll(R3, R, new.raised, p)
    <3> SUFFICES ASSUME NEW k \in Queue
                 PROVE  Procs(R3[k]) = IF k \in new.raised THEN Without(Procs(R[k]), {p})
                                       ELSE Procs(R[k])
      BY DEF LostAll
    <3>0. new.raised = st.raised \cup {s} /\ s \in Queue
      BY <2>0, <2>16 DEF Queue
    <3>1. Procs(R2[k]) = IF k \in st.raised THEN Without(Procs(R[k]), {p}) ELSE Procs(R[k])
      BY <1>2 DEF LostAll
    <3>2. Procs(R2[s]) = Procs(R[s])
      BY <1>2, <2>20, <3>0 DEF LostAll
    <3>3. Procs(R3[k]) = IF k = s THEN Without(Procs(R2[s]), {p}) ELSE Procs(R2[k])
      <4>1. PICK w : w = Without(Procs(R2[s]), {p})
        OBVIOUS
      <4>2. Shown(R3)[k] = Procs(R3[k]) /\ Shown(R2)[k] = Procs(R2[k])
        BY DEF Shown
      <4>3. Shown(R3) = Put(Shown(R2), s, w)
        BY <2>12, <4>1 DEF Lost
      <4>4. DOMAIN Shown(R2) = Queue
        BY DEF Shown
      <4>5. Put(Shown(R2), s, w)[k] = IF k = s THEN w ELSE Shown(R2)[k]
        BY <3>0, <4>4 DEF Put
      <4> QED
        BY <4>1, <4>2, <4>3, <4>5
    <3> QED
      BY <2>20, <3>0, <3>1, <3>2, <3>3
  <2>22. \A j \in Slot : new.sv[j] = IF j < i THEN ENULL ELSE sv[p][j]
    <3> SUFFICES ASSUME NEW j \in Slot PROVE v[j] = IF j < i THEN ENULL ELSE sv[p][j]
      BY <2>16
    <3>1. v[j] = IF st.sv[j] = s THEN ENULL ELSE st.sv[j]
      BY <2>14
    <3>2. sv[p][j] = s => j = i - 1
      BY <1>1, <1>4, <1>5, <1>8 DEF Names
    <3> QED
      BY <1>1, <1>3, <1>4, <3>1, <3>2
  <2>23. \A t \in Sem : t \in new.raised <=> \E j \in Slot : j < i /\ sv[p][j] = t
    <3> SUFFICES ASSUME NEW t \in Sem
                 PROVE  t \in st.raised \cup {s} <=> \E j \in Slot : j < i /\ sv[p][j] = t
      BY <2>16
    <3>1. t \in st.raised <=> \E j \in Slot : j < i - 1 /\ sv[p][j] = t
      BY <1>3
    <3> QED
      BY <1>1, <1>4, <3>1
  <2>24. new.rv = IF new.raised = {} THEN ENULL ELSE p
    BY <2>16
  <2>25. Turned(new, i, p, fh, rq, qc, sv, fr, R)
    BY <2>18, <2>19, <2>21, <2>22, <2>23, <2>24 DEF Turned
  <2> QED
    BY <1>1, <2>17, <2>25
<1> QED
  BY <1>7, <1>8

\* All the turns: the states of the loop stay among the OutStates, so the
\* function outAll defines exists.
LEMMA AllTurns ==
    ASSUME NEW fr, NEW u, NEW f, NEW T, NEW R, Now(fr, u, f, T, R), NEW p \in Proc
    PROVE  Turned(outAll(p), SEMMAX, p, free_head, running_queue, qcount, semvec, fr, R)
<1> DEFINE st0 == [A |-> Asl, rv |-> ENULL, raised |-> {}, left |-> 0, sv |-> semvec[p]]
           Step(prev, n) == outOne(prev, semvec[p][n-1], p)
           Body(g, n) == IF n = 0 THEN st0 ELSE Step(g[n-1], n)
           turn == CHOOSE g : g = [n \in 0..SEMMAX |-> Body(g, n)]
           G == [y \in (1..SEMMAX) \X OutStates |->
                   IF Step(y[2], y[1]) \in OutStates THEN Step(y[2], y[1]) ELSE st0]
           Good(st, n) == Turned(st, n, p, free_head, running_queue, qcount, semvec, fr, R)
<1>0. SEMMAX \in Nat
  BY TableAssumption
<1>1. /\ Asl \in AslRecord /\ Tallied(qcount, semvec, R)
      /\ Repr(Asl, free_head, running_queue, qcount, semvec, fr, u, f, T, R)
  BY NowFacts DEF Now
<1>2. qcount \in [Proc -> Nat] /\ semvec \in [Proc -> [Slot -> Sem \cup {ENULL}]]
  BY <1>1 DEF Tallied
<1>3. st0 \in OutStates
  BY <1>1, <1>2 DEF OutStates
<1>4. Good(st0, 0)
  <2>1. PICK st : st = st0
    OBVIOUS
  <2>2. st.A = Asl /\ st.rv = ENULL /\ st.raised = {} /\ st.left = 0 /\ st.sv = semvec[p]
    BY <2>1
  <2>3. Put(qcount, p, qcount[p] - st.left) = qcount
    <3>1. qcount[p] - st.left = qcount[p]
      BY <1>2, <2>2
    <3> QED
      BY <1>2, <3>1 DEF Put
  <2>4. Put(semvec, p, st.sv) = semvec
    BY <1>1, <2>2, SameEntry
  <2>5. Held(st.A, free_head, running_queue, Put(qcount, p, qcount[p] - st.left),
             Put(semvec, p, st.sv), fr, R)
    <3>1. Held(Asl, free_head, running_queue, qcount, semvec, fr, R)
      BY <1>1 DEF Held
    <3> QED
      BY <2>2, <2>3, <2>4, <3>1
  <2>6. LostAll(R, R, st.raised, p)
    BY <2>2 DEF LostAll
  <2>7. \A j \in Slot : ~(j < 0)
    BY DEF Slot
  <2> HIDE DEF st0
  <2> QED
    BY <1>3, <2>1, <2>2, <2>5, <2>6, <2>7 DEF Turned
<1> HIDE DEF st0
<1>5. ASSUME NEW st, NEW n \in 1..SEMMAX, Good(st, n-1) PROVE Good(Step(st, n), n)
  BY <1>1, <1>5, OneTurn
<1>6. \A st, n : Good(st, n) => st \in OutStates
  BY DEF Turned
<1> HIDE DEF Step, Good
<1>7. G \in Steps(SEMMAX, OutStates)
  BY <1>3 DEF Steps
<1>8. \A n \in 1..SEMMAX, x \in OutStates : Step(x, n) \in OutStates => G[<<n, x>>] = Step(x, n)
  OBVIOUS
<1> HIDE DEF G
<1>9. PICK h : IsRun(h, SEMMAX, OutStates, st0, G)
  BY <1>0, <1>3, <1>7, RecursionExists
<1>10. /\ h \in [0..SEMMAX -> OutStates] /\ h[0] = st0
       /\ \A n \in 1..SEMMAX : h[n] = G[<<n, h[n-1]>>]
  BY <1>9 DEF IsRun
<1>11. ASSUME NEW n \in 1..SEMMAX, Good(h[n-1], n-1)
       PROVE  h[n] = Step(h[n-1], n) /\ Good(h[n], n)
  <2>1. n - 1 \in 0..SEMMAX /\ h[n-1] \in OutStates
    BY <1>0, <1>10
  <2>2. Good(Step(h[n-1], n), n)
    BY <1>5, <1>11
  <2>3. Step(h[n-1], n) \in OutStates
    BY <1>6, <2>2
  <2>4. h[n] = Step(h[n-1], n)
    BY <1>8, <1>10, <2>1, <2>3
  <2> QED
    BY <2>2, <2>4
<1>12. \A n \in 0..SEMMAX : Good(h[n], n)
  <2> DEFINE U == {n \in 0..SEMMAX : Good(h[n], n)}
  <2>1. 0 \in U
    BY <1>0, <1>4, <1>10
  <2>2. \A n \in 1..SEMMAX : n - 1 \in U => n \in U
    BY <1>0, <1>11
  <2>3. \A n \in 0..SEMMAX : n \in U
    <3> HIDE DEF U
    <3> QED
      BY <1>0, <2>1, <2>2, IntervalInduction
  <2> QED
    BY <2>3
<1>13. \A n \in 1..SEMMAX : n - 1 \in 0..SEMMAX /\ n # 0
  BY <1>0
<1>14. \A n \in 1..SEMMAX : h[n] = Step(h[n-1], n)
  BY <1>11, <1>12, <1>13
<1>15. h = [n \in 0..SEMMAX |-> Body(h, n)]
  <2>1. \A n \in 0..SEMMAX : n = 0 \/ n \in 1..SEMMAX
    BY <1>0
  <2>2. \A n \in 0..SEMMAX : h[n] = Body(h, n)
    BY <1>10, <1>14, <2>1
  <2> HIDE DEF Body
  <2> QED
    BY <1>10, <2>2
<1>16. turn = [n \in 0..SEMMAX |-> Body(turn, n)]
  <2> HIDE DEF Body
  <2> QED
    BY <1>15
<1>17. outAll(p) = turn[SEMMAX]
  BY DEF outAll, Step, st0
<1> HIDE DEF turn
<1>18. \A n \in 0..SEMMAX : turn[n] = h[n]
  <2> DEFINE U == {n \in 0..SEMMAX : turn[n] = h[n]}
  <2>1. 0 \in U
    BY <1>0, <1>10, <1>16
  <2>2. \A n \in 1..SEMMAX : n - 1 \in U => n \in U
    BY <1>0, <1>13, <1>14, <1>16
  <2>3. \A n \in 0..SEMMAX : n \in U
    <3> HIDE DEF U
    <3> QED
      BY <1>0, <2>1, <2>2, IntervalInduction
  <2> QED
    BY <2>3
<1>19. SEMMAX \in 0..SEMMAX
  BY <1>0
<1>20. Good(outAll(p), SEMMAX)
  BY <1>12, <1>17, <1>18, <1>19
<1> QED
  BY <1>20 DEF Good

LEMMA outBlockedStep ==
    ASSUME NEW fr, NEW u, NEW f, NEW T, NEW R, Now(fr, u, f, T, R),
           NEW p \in Proc, outBlocked(p), ViewStep
    PROVE  QInv' /\ Abs!AoutBlocked(p)
<1>0. /\ R \in [Queue -> Seq(Place)]
      /\ Tallied(qcount, semvec, R)
      /\ view.free = fr /\ view.q = Shown(R)
      /\ \A k \in Queue : view.q[k] = Procs(R[k])
      /\ Abs!In(p) = Of(R, p)
  BY NowFacts
<1>1. PICK st : st = outAll(p)
  OBVIOUS
<1>2. /\ ret' = [proc |-> st.rv, full |-> FALSE, raised |-> st.raised]
      /\ SetAsl(st.A)
      /\ semvec' = [semvec EXCEPT ![p] = st.sv]
      /\ qcount' = [qcount EXCEPT ![p] = @ - st.left]
      /\ free_head' = free_head /\ running_queue' = running_queue
  BY <1>1 DEF outBlocked
<1>3. Turned(st, SEMMAX, p, free_head, running_queue, qcount, semvec, fr, R)
  BY <1>1, AllTurns
<1>4. PICK R2 : /\ Held(st.A, free_head, running_queue, Put(qcount, p, qcount[p] - st.left),
                        Put(semvec, p, st.sv), fr, R2)
                /\ LostAll(R2, R, st.raised, p)
  BY <1>3 DEF Turned
<1>5. /\ st \in OutStates
      /\ \A s \in Sem : s \in st.raised <=> \E j \in Slot : j < SEMMAX /\ semvec[p][j] = s
      /\ st.rv = IF st.raised = {} THEN ENULL ELSE p
  BY <1>3 DEF Turned
<1>6. PICK qc : qc = qcount'
  OBVIOUS
<1>7. PICK sv : sv = semvec'
  OBVIOUS
<1>8. PICK B : B = st.A
  OBVIOUS
<1>9. /\ qc = Put(qcount, p, qcount[p] - st.left) /\ sv = Put(semvec, p, st.sv)
  BY <1>2, <1>6, <1>7 DEF Put
<1>10. Held(B, free_head, running_queue, qc, sv, fr, R2)
  BY <1>4, <1>8, <1>9
<1>11. B = Asl'
  BY <1>2, <1>8, <1>10, SetAslIs
<1>12. QInv' /\ view' = [free |-> fr, q |-> Shown(R2)]
  BY <1>2, <1>6, <1>7, <1>10, <1>11, HeldShows
<1>13. \A s \in Sem : s \in st.raised <=> s \in Of(R, p)
  <2>1. \A j \in Slot : j < SEMMAX
    BY TableAssumption DEF Slot
  <2>2. Names(semvec[p], Of(R, p))
    BY <1>0 DEF Tallied
  <2> QED
    BY <1>5, <2>1, <2>2 DEF Names
<1>14. st.raised = Abs!In(p) \cap Sem
  <2>1. st.raised \in SUBSET Sem
    BY <1>5 DEF OutStates
  <2> QED
    BY <1>0, <1>13, <2>1
<1>15. \A k \in Queue : Procs(R2[k]) = IF k \in Sem THEN Without(Procs(R[k]), {p})
                                       ELSE Procs(R[k])
  <2> SUFFICES ASSUME NEW k \in Queue
               PROVE  Procs(R2[k]) = IF k \in Sem THEN Without(Procs(R[k]), {p})
                                     ELSE Procs(R[k])
    OBVIOUS
  <2>1. Procs(R2[k]) = IF k \in st.raised THEN Without(Procs(R[k]), {p}) ELSE Procs(R[k])
    BY <1>4 DEF LostAll
  <2>2. k \in st.raised => k \in Sem
    BY <1>5 DEF OutStates
  <2>3. CASE k \in Sem /\ k \notin st.raised
    <3>1. ~Has(R[k], p)
      BY <1>13, <2>3, OfHas
    <3>2. Without(Procs(R[k]), {p}) = Procs(R[k])
      BY <1>0, <3>1, ShownMiss
    <3> QED
      BY <2>1, <2>3, <3>2
  <2> QED
    BY <2>1, <2>2, <2>3
<1>16. view'.q = [k \in Abs!Queue |-> IF k \in Sem THEN Abs!Without(view.q[k], {p})
                                      ELSE view.q[k]]
  <2>1. Abs!Queue = Queue
    BY DEF Abs!Queue, Abs!RQ, Queue
  <2>2. \A k \in Queue : Shown(R2)[k] = IF k \in Sem THEN Abs!Without(view.q[k], {p})
                                        ELSE view.q[k]
    <3> SUFFICES ASSUME NEW k \in Queue
                 PROVE  Shown(R2)[k] = IF k \in Sem THEN Abs!Without(view.q[k], {p})
                                       ELSE view.q[k]
      OBVIOUS
    <3>1. Shown(R2)[k] = Procs(R2[k]) /\ view.q[k] = Procs(R[k])
      BY <1>0 DEF Shown
    <3>2. Abs!Without(view.q[k], {p}) = Without(view.q[k], {p})
      BY AbsOps
    <3> QED
      BY <1>15, <3>1, <3>2
  <2>3. Shown(R2) = [k \in Queue |-> Shown(R2)[k]]
    BY DEF Shown
  <2>4. view'.q = Shown(R2)
    BY <1>12
  <2> QED
    BY <2>1, <2>2, <2>3, <2>4
<1>17. view'.free = view.free
  BY <1>0, <1>12
<1>18. ret' = [proc |-> IF Abs!In(p) \cap Sem # {} THEN p ELSE Abs!ENULL, full |-> FALSE,
               raised |-> Abs!In(p) \cap Sem]
  BY <1>2, <1>5, <1>14 DEF Abs!ENULL, ENULL
<1> QED
  BY <1>12, <1>16, <1>17, <1>18 DEF Abs!AoutBlocked

----------------------------------------------------------------------------
(***************************************************************************)
(* The initial state: all processes and descriptors are free.              *)
(***************************************************************************)
LEMMA FirstList ==
    ASSUME NEW n \in Nat \ {0}, NEW c, c = [i \in 1..n |-> i], NEW next,
           \A i \in 1..n : next[i] = IF i < n THEN i + 1 ELSE ENULL
    PROVE  IsList(c, 1, next, 1..n) /\ Len(c) = n /\ \A i \in 1..n : c[i] = i
<1>1. c \in Seq(1..n) /\ Len(c) = n /\ \A i \in 1..n : c[i] = i
  OBVIOUS
<1>2. c # <<>> /\ c[1] = 1
  BY <1>1
<1>3. \A i \in 1..n : next[c[i]] = IF i = n THEN ENULL ELSE c[i+1]
  <2> SUFFICES ASSUME NEW i \in 1..n PROVE next[i] = IF i = n THEN ENULL ELSE c[i+1]
    BY <1>1
  <2>1. i # n => i < n /\ i + 1 \in 1..n
    OBVIOUS
  <2>2. i = n => ~(i < n)
    OBVIOUS
  <2> QED
    BY <1>1, <2>1, <2>2
<1> QED
  BY <1>1, <1>2, <1>3 DEF IsList

LEMMA InitHolds == Init => QInv /\ Abs!AInit
<1> SUFFICES ASSUME Init PROVE QInv /\ Abs!AInit
  OBVIOUS
<1>0. /\ MAXPROC \in Nat \ {0} /\ SEMD \in Nat \ {0} /\ SEMMAX \in Nat \ {0}
      /\ 0 \in Slot /\ ENULL \notin Sem
  BY TableAssumption DEF Slot
<1>1. PICK fr : fr = [i \in 1..MAXPROC |-> i]
  OBVIOUS
<1>2. PICK f : f = [i \in 1..SEMD |-> i]
  OBVIOUS
<1>3. PICK u : u = <<>>
  OBVIOUS
<1>4. PICK T : T = [k \in Queue |-> None]
  OBVIOUS
<1>5. PICK R : R = [k \in Queue |-> <<>>]
  OBVIOUS
<1>6. ASSUME NEW p \in Proc, NEW i \in Slot
      PROVE  p_link[p][i] = IF i = 0 /\ p < MAXPROC THEN [next |-> p + 1, index |-> 0] ELSE None
  BY DEF Init
<1>7. p_link \in Links
  <2>1. None \in Link
    BY DEF None, Link
  <2>2. \A p \in Proc : p < MAXPROC => [next |-> p + 1, index |-> 0] \in Link
    BY <1>0 DEF Link, Proc
  <2> QED
    BY <2>1, <2>2 DEF Init, Links
<1>8. IsList(fr, free_head, FreeNext(p_link), Proc) /\ Len(fr) = MAXPROC
      /\ \A i \in 1..MAXPROC : fr[i] = i
  <2>1. PICK next : next = FreeNext(p_link)
    OBVIOUS
  <2>2. \A i \in 1..MAXPROC : next[i] = IF i < MAXPROC THEN i + 1 ELSE ENULL
    <3> SUFFICES ASSUME NEW i \in Proc PROVE next[i] = IF i < MAXPROC THEN i + 1 ELSE ENULL
      BY DEF Proc
    <3>1. next[i] = p_link[i][0].next
      BY <2>1 DEF FreeNext
    <3>2. p_link[i][0] = IF i < MAXPROC THEN [next |-> i + 1, index |-> 0] ELSE None
      BY <1>0, <1>6
    <3>3. None.next = ENULL /\ [next |-> i + 1, index |-> 0].next = i + 1
      BY DEF None
    <3> QED
      BY <3>1, <3>2, <3>3
  <2>3. IsList(fr, 1, next, 1..MAXPROC) /\ Len(fr) = MAXPROC /\ \A i \in 1..MAXPROC : fr[i] = i
    BY <1>0, <1>1, <2>2, FirstList
  <2> QED
    BY <2>1, <2>3 DEF Init, Proc
<1>9. ToSet(fr) = Proc
  <2>1. fr \in Seq(Proc)
    BY <1>8 DEF IsList
  <2>2. \A x : x \in ToSet(fr) <=> \E i \in 1..Len(fr) : fr[i] = x
    BY <2>1 DEF ToSet
  <2>3. \A x : x \in Proc <=> \E i \in 1..Len(fr) : fr[i] = x
    BY <1>8 DEF Proc
  <2>4. \A x : x \in ToSet(fr) <=> x \in Proc
    BY <2>2, <2>3
  <2> QED
    BY <2>4, Zenon
<1>10. \A k \in Queue : R[k] = <<>> /\ Len(R[k]) = 0 /\ T[k] = None
  BY <1>4, <1>5
<1>11. \A k \in Queue : 1..Len(R[k]) = {}
  BY <1>10
<1>12. Linked(p_link, T, R, Proc)
  <2>1. T \in [Queue -> Place \cup {None}] /\ R \in [Queue -> Seq(Place)]
    BY <1>4, <1>5
  <2>2. ASSUME NEW k \in Queue PROVE IsRing(R[k], T[k], p_link)
    <3>1. R[k] = <<>> /\ T[k] = None /\ 1..Len(R[k]) = {} /\ R[k] \in Seq(Place)
      BY <1>10, <1>11, <2>1
    <3> QED
      BY <3>1 DEF IsRing
  <2>3. \A x \in Place : x.next \in Proc
    BY DEF Place
  <2>4. \A x \in Place : x.index # 0 => At(p_link, x) = None
    BY <1>6 DEF Place, At
  <2> QED
    BY <1>7, <1>11, <2>1, <2>2, <2>3, <2>4 DEF Linked
<1>13. Asl \in AslRecord /\ Asl.L = p_link /\ Asl.semd = semd /\ Asl.cur = cur_sem
       /\ Asl.free = free_head_s /\ semd \in Descriptors
  <2>1. semd \in Descriptors
    <3>1. \A x \in Semd : /\ (IF x < SEMD THEN x + 1 ELSE ENULL) \in Semd \cup {ENULL}
                          /\ (IF x > 1 THEN x - 1 ELSE ENULL) \in Semd \cup {ENULL}
      BY <1>0 DEF Semd
    <3> QED
      BY <3>1 DEF Init, Descriptors, Descriptor
  <2>2. cur_sem \in Semd \cup {ENULL} /\ free_head_s \in Semd \cup {ENULL}
    BY <1>0 DEF Init, Semd
  <2> QED
    BY <1>7, <2>1, <2>2 DEF Asl, AslRecord
<1>14. /\ IsList(f, free_head_s, NextOf(semd), Semd) /\ Len(f) = SEMD
       /\ \A i \in 1..SEMD : f[i] = i
  <2>1. PICK next : next = NextOf(semd)
    OBVIOUS
  <2>2. \A i \in 1..SEMD : next[i] = IF i < SEMD THEN i + 1 ELSE ENULL
    BY <2>1 DEF Init, NextOf, Semd
  <2>3. IsList(f, 1, next, 1..SEMD) /\ Len(f) = SEMD /\ \A i \in 1..SEMD : f[i] = i
    BY <1>0, <1>2, <2>2, FirstList
  <2> QED
    BY <2>1, <2>3 DEF Init, Semd
<1>15. u = <<>> /\ Len(u) = 0 /\ 1..Len(u) = {} /\ u \in Seq(Semd)
  BY <1>3
<1>16. Descr(semd, cur_sem, free_head_s, u, f)
  <2>1. IsList(u, cur_sem, NextOf(semd), Semd) /\ Back(u, PrevOf(semd))
    BY <1>15 DEF IsList, Back, Init
  <2>2. Back(f, PrevOf(semd))
    <3> SUFFICES ASSUME NEW i \in 1..SEMD
                 PROVE  PrevOf(semd)[f[i]] = IF i = 1 THEN ENULL ELSE f[i-1]
      BY <1>14 DEF Back
    <3>1. PrevOf(semd)[i] = IF i > 1 THEN i - 1 ELSE ENULL
      BY DEF PrevOf, Init, Semd
    <3>2. i = 1 \/ (i > 1 /\ i - 1 \in 1..SEMD)
      BY <1>0
    <3>3. i = 1 => ~(i > 1)
      OBVIOUS
    <3> QED
      BY <1>14, <3>1, <3>2, <3>3
  <2>3. \A x \in Semd : \E j \in 1..Len(f) : f[j] = x
    BY <1>14 DEF Semd
  <2>4. \A j \in 1..Len(f) : semd[f[j]].s_link = None
    BY <1>14 DEF Init, Semd
  <2> QED
    BY <1>13, <1>14, <1>15, <2>1, <2>2, <2>3, <2>4 DEF Descr
<1>17. TailsAre(T, semd, u, running_queue, 0)
  <2>1. "running_queue" \in Queue /\ Sem \subseteq Queue
    BY DEF Queue
  <2> QED
    BY <1>10, <1>15, <2>1 DEF TailsAre, Init
<1>18. \A p \in Proc : Of(R, p) = {}
  BY <1>11 DEF Of
<1>19. Tallied(qcount, semvec, R)
  <2>1. IsFiniteSet({}) /\ Cardinality({}) = 0
    BY FS_EmptySet
  <2>2. qcount \in [Proc -> Nat] /\ semvec \in [Proc -> [Slot -> Sem \cup {ENULL}]]
    BY DEF Init
  <2>3. ASSUME NEW p \in Proc PROVE IsFiniteSet(Of(R, p)) /\ qcount[p] = Cardinality(Of(R, p))
    BY <1>18, <2>1 DEF Init
  <2>4. ASSUME NEW p \in Proc PROVE Names(semvec[p], Of(R, p))
    <3>1. \A i \in Slot : semvec[p][i] = ENULL
      BY DEF Init
    <3> QED
      BY <1>0, <1>18, <2>2, <3>1 DEF Names
  <2> QED
    BY <2>2, <2>3, <2>4 DEF Tallied
<1>20. Repr(Asl, free_head, running_queue, qcount, semvec, fr, u, f, T, R)
  BY <1>8, <1>9, <1>12, <1>13, <1>16, <1>17, <1>19 DEF Repr, Whole
<1>21. view = [free |-> fr, q |-> Shown(R)]
  <2>1. PICK A : A = Asl
    OBVIOUS
  <2>2. Whole(A, running_queue, Proc, u, f, T, R) /\ IsList(fr, free_head, FreeNext(A.L), Proc)
    BY <1>9, <1>20, <2>1 DEF Repr
  <2>3. View(A.L, free_head, running_queue, A.semd, A.cur) = [free |-> fr, q |-> Shown(R)]
    BY <2>2, ViewIs
  <2>4. view = View(p_link, free_head, running_queue, semd, cur_sem)
    BY DEF Init
  <2> QED
    BY <1>13, <2>1, <2>3, <2>4
<1>22. QInv
  BY <1>20, <1>21 DEF QInv, Now
<1>23. Abs!AInit
  <2>1. view.free = [i \in Abs!Proc |-> i]
    BY <1>1, <1>21 DEF Abs!Proc
  <2>2. Abs!Queue = Queue
    BY DEF Abs!Queue, Abs!RQ, Queue
  <2>3. Shown(R) = [k \in Queue |-> <<>>]
    <3>1. \A k \in Queue : Procs(R[k]) = <<>>
      <4>1. \A k \in Queue : R[k] \in Seq(Place)
        BY <1>12 DEF Linked
      <4> QED
        BY <1>10, <4>1, ProcsFacts
    <3> QED
      BY <3>1 DEF Shown
  <2>4. ret = Abs!Returned(Abs!ENULL)
    BY DEF Init, Returned, ENULL, Abs!Returned, Abs!ENULL
  <2> QED
    BY <1>21, <2>1, <2>2, <2>3, <2>4 DEF Abs!AInit
<1> QED
  BY <1>22, <1>23

----------------------------------------------------------------------------
(***************************************************************************)
(* The theorems.                                                           *)
(***************************************************************************)
LEMMA NextStep == QInv /\ Next => QInv' /\ Abs!ANext
<1> SUFFICES ASSUME QInv, Next PROVE QInv' /\ Abs!ANext
  OBVIOUS
<1>1. PICK fr, u, f, T, R : Now(fr, u, f, T, R)
  BY DEF QInv
<1>2. Call /\ ViewStep
  BY DEF Next, ViewStep
<1>3. Abs!Proc = Proc
  BY DEF Abs!Proc, Proc
<1>4. CASE allocProc
  BY <1>1, <1>2, <1>4, allocProcStep DEF Abs!ANext
<1>5. CASE removeRunning
  BY <1>1, <1>2, <1>5, removeRunningStep DEF Abs!ANext
<1>6. ASSUME NEW p \in Proc, freeProc(p) PROVE QInv' /\ Abs!ANext
  <2>1. QInv' /\ Abs!AfreeProc(p)
    BY <1>1, <1>2, <1>6, freeProcStep
  <2> QED
    BY <1>3, <2>1 DEF Abs!ANext
<1>7. ASSUME NEW p \in Proc, insertRunning(p) PROVE QInv' /\ Abs!ANext
  <2>1. QInv' /\ Abs!AinsertProc(p)
    BY <1>1, <1>2, <1>7, insertRunningStep
  <2> QED
    BY <1>3, <2>1 DEF Abs!ANext
<1>8. ASSUME NEW p \in Proc, outRunning(p) PROVE QInv' /\ Abs!ANext
  <2>1. QInv' /\ Abs!AoutProc(p)
    BY <1>1, <1>2, <1>8, outRunningStep
  <2> QED
    BY <1>3, <2>1 DEF Abs!ANext
<1>9. ASSUME NEW p \in Proc, outBlocked(p) PROVE QInv' /\ Abs!ANext
  <2>1. QInv' /\ Abs!AoutBlocked(p)
    BY <1>1, <1>2, <1>9, outBlockedStep
  <2> QED
    BY <1>3, <2>1 DEF Abs!ANext
<1>10. ASSUME NEW s \in Sem, removeBlocked(s) PROVE QInv' /\ Abs!ANext
  <2>1. QInv' /\ Abs!AremoveBlocked(s)
    BY <1>1, <1>2, <1>10, removeBlockedStep
  <2> QED
    BY <2>1 DEF Abs!ANext
<1>11. ASSUME NEW s \in Sem, NEW p \in Proc, insertBlocked(s, p) PROVE QInv' /\ Abs!ANext
  <2>1. QInv' /\ Abs!AinsertBlocked(s, p)
    BY <1>1, <1>2, <1>11, insertBlockedStep
  <2> QED
    BY <1>3, <2>1 DEF Abs!ANext
<1> QED
  BY <1>2, <1>4, <1>5, <1>6, <1>7, <1>8, <1>9, <1>10, <1>11 DEF Call

LEMMA Stutter == QInv /\ UNCHANGED vars => QInv' /\ UNCHANGED Abs!avars
<1> SUFFICES ASSUME QInv, UNCHANGED vars PROVE QInv' /\ UNCHANGED Abs!avars
  OBVIOUS
<1>1. PICK fr, u, f, T, R : Now(fr, u, f, T, R)
  BY DEF QInv
<1>2. /\ p_link' = p_link /\ qcount' = qcount /\ semvec' = semvec /\ free_head' = free_head
      /\ running_queue' = running_queue /\ semd' = semd /\ cur_sem' = cur_sem
      /\ free_head_s' = free_head_s /\ ret' = ret /\ view' = view
  BY DEF vars
<1>3. Repr(Asl', free_head', running_queue', qcount', semvec', fr, u, f, T, R)
  BY <1>1, <1>2 DEF Now, Asl
<1>4. view' = [free |-> fr, q |-> Shown(R)]
  BY <1>1, <1>2 DEF Now
<1> QED
  BY <1>2, <1>3, <1>4 DEF QInv, Now, Abs!avars

\* In every reachable state the links of procq.c and asl.c represent queues and
\* lists: the free processes are on one list, the descriptors on two, each
\* queue is a ring that is entered at its tail, no two rings share a link, and
\* qcount and semvec name exactly the rings a process stands in.
THEOREM LinksRepresent == Spec => []QInv
<1>1. Init => QInv
  BY InitHolds
<1>2. QInv /\ [Next]_vars => QInv'
  BY NextStep, Stutter
<1> QED
  BY <1>1, <1>2, PTL DEF Spec

\* Every routine of procq.c and asl.c does to the queues and the free list what
\* AbstractQueues says, and returns the right process: the links implement it.
THEOREM QueuesImplemented == Spec => ImplementsQueues
<1>1. Init => Abs!AInit
  BY InitHolds
<1>2. QInv /\ [Next]_vars => [Abs!ANext]_Abs!avars
  BY NextStep, Stutter
<1> QED
  BY <1>1, <1>2, LinksRepresent, PTL DEF Spec, ImplementsQueues, Abs!ASpec

LEMMA CountsNow == QInv => CountsAgree
<1> SUFFICES ASSUME QInv, NEW p \in Proc, Allocated(p)
             PROVE  /\ qcount[p] = Cardinality(Abs!In(p))
                    /\ qcount[p] = Cardinality({i \in Slot : p_link[p][i] # None})
                    /\ {semvec[p][i] : i \in Slot} \ {ENULL} = Abs!In(p) \cap Sem
                    /\ \A i, j \in Slot : semvec[p][i] = semvec[p][j] => i = j \/ semvec[p][i] = ENULL
  BY DEF CountsAgree
<1>1. PICK fr, u, f, T, R : Now(fr, u, f, T, R)
  BY DEF QInv
<1>2. /\ Linked(p_link, T, R, ToSet(fr)) /\ Tallied(qcount, semvec, R)
      /\ Abs!In(p) = Of(R, p) /\ p \notin ToSet(fr)
  BY <1>1, NowFacts
<1>3. IsFiniteSet(Of(R, p)) /\ qcount[p] = Cardinality(Of(R, p)) /\ Names(semvec[p], Of(R, p))
  BY <1>2 DEF Tallied
<1>4. Cardinality({i \in Slot : p_link[p][i] # None}) = Cardinality(Of(R, p))
  <2>1. PICK F : F = ToSet(fr)
    OBVIOUS
  <2> QED
    BY <1>2, <1>3, <2>1, LinkCount
<1>5. {semvec[p][i] : i \in Slot} \ {ENULL} = Of(R, p) \cap Sem
  <2>1. semvec[p] \in [Slot -> Sem \cup {ENULL}]
    BY <1>3 DEF Names
  <2>2. \A s \in Sem : s \in Of(R, p) <=> \E i \in Slot : semvec[p][i] = s
    BY <1>3 DEF Names
  <2> QED
    BY <2>1, <2>2, SemIsNoNull
<1>6. \A i, j \in Slot : semvec[p][i] = semvec[p][j] => i = j \/ semvec[p][i] = ENULL
  BY <1>3 DEF Names
<1> QED
  BY <1>2, <1>3, <1>4, <1>5, <1>6

\* For every allocated process qcount is the number of queues it stands in and
\* of its links in use, and its semvec names the semaphores among them.
THEOREM CountsAlwaysAgree == Spec => []CountsAgree
BY LinksRepresent, CountsNow, PTL

LEMMA DescriptorsNow == QInv => DescriptorsOK
<1> SUFFICES ASSUME QInv PROVE DescriptorsOK
  OBVIOUS
<1>1. PICK fr, u, f, T, R : Now(fr, u, f, T, R)
  BY DEF QInv
<1>2. Descr(semd, cur_sem, free_head_s, u, f) /\ TailsAre(T, semd, u, running_queue, 0)
  BY <1>1, NowFacts
<1>3. /\ List(cur_sem, semd) = u /\ List(free_head_s, semd) = f
      /\ u \in Seq(Semd) /\ f \in Seq(Semd)
      /\ \A i \in 1..Len(u) : u[i] \in Semd
      /\ \A i \in 1..Len(f) : f[i] \in Semd
  BY <1>2, ListsAre
<1>4. Len(u) + Len(f) = SEMD /\ ToSet(u) \cup ToSet(f) = Semd
  BY <1>2, ListLengths
<1>5. DOMAIN u = 1..Len(u) /\ DOMAIN f = 1..Len(f)
  BY <1>3
<1>6. \A n \in DOMAIN u : semd[u[n]].s_prev = IF n = 1 THEN ENULL ELSE u[n-1]
  BY <1>2, <1>3, <1>5 DEF Descr, Back, PrevOf
<1>7. \A n \in DOMAIN f : semd[f[n]].s_prev = IF n = 1 THEN ENULL ELSE f[n-1]
  BY <1>2, <1>3, <1>5 DEF Descr, Back, PrevOf
<1>8. /\ \A x : x \in ToSet(u) <=> \E i \in 1..Len(u) : u[i] = x
      /\ \A x : x \in ToSet(f) <=> \E i \in 1..Len(f) : f[i] = x
  BY <1>5 DEF ToSet
<1>9. \A x \in ToSet(u) : semd[x].s_link # None /\ semd[x].s_semAdd \in Sem
  <2>1. \A i \in 1..Len(u) : i # 0
    OBVIOUS
  <2> QED
    BY <1>2, <1>8, <2>1 DEF Descr, TailsAre
<1>10. \A x, y \in ToSet(u) : semd[x].s_semAdd = semd[y].s_semAdd => x = y
  BY <1>2, <1>8 DEF Descr
<1>11. \A x \in ToSet(f) : semd[x].s_link = None
  BY <1>2, <1>8 DEF Descr
<1> QED
  BY <1>3, <1>4, <1>6, <1>7, <1>9, <1>10, <1>11 DEF DescriptorsOK

\* Every descriptor is on one of the two lists of asl.c, both are linked both
\* ways, and the list in use has one descriptor, with a queue that is not
\* empty, for each semaphore somebody waits for.
THEOREM DescriptorsAlwaysOK == Spec => []DescriptorsOK
BY LinksRepresent, DescriptorsNow, PTL
=============================================================================

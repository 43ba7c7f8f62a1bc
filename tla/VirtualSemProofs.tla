------------------------- MODULE VirtualSemProofs -------------------------
(***************************************************************************)
(* Theorems about VirtualSem, for any number of T-processes, addresses and *)
(* entries of vs_arr.                                                      *)
(***************************************************************************)
EXTENDS VirtualSem, QueueLemmas, FiniteSetTheorems, TLAPS

\* The semaphores: protected_sem and one for every entry.
Who == 0..VS

\* The processes that have taken entry e, or freed it, and have not reached its
\* semaphore yet.
Coming(e) == {t \in TProc : pc[t] = "wait" /\ entry[t] = e}
Waking(e) == {t \in TProc : pc[t] = "wake" /\ entry[t] = e}

Taken == {e \in Entry : addr[e] # NULL}

\* The processes that have a P to finish, and those of address a.
Inside == {t \in TProc : pc[t] \in {"wait", "waited"}}
Using(a) == {t \in TProc : pc[t] \in {"wait", "waited"} /\ arg[t] = a}

Spare(v) == IF v > 0 THEN v ELSE 0
waiting == [a \in Addr |-> Waiting(virt[a])]
spare == [a \in Addr |-> Spare(virt[a])]

Fields == /\ virt \in [Addr -> Int]
          /\ addr \in [Entry -> Addr \cup {NULL}]
          /\ pc \in [TProc -> {"user", "P", "V", "wait", "waited", "wake", "gone", "trapped"}]
          /\ arg \in [TProc -> Argument]
          /\ entry \in [TProc -> Entry]
          /\ avail \in [Addr -> Int]
          /\ \A t \in TProc : pc[t] \in {"wait", "waited", "wake"} => arg[t] \in Addr

\* The value of an entry's semaphore is the processes that come to it, minus
\* those that come to wake, minus one while the entry is taken; nobody waits
\* but where he should.
SemOK ==
    /\ Counted(sem, Who, TProc)
    /\ \A t : Waits(sem, protected_sem, t) => pc[t] \in {"P", "V"}
    /\ \A e \in Entry : \A t : Waits(sem, e, t) => pc[t] = "waited" /\ entry[t] = e
    /\ \A e \in Entry :
          sem[e].val = Cardinality(Coming(e)) - Cardinality(Waking(e))
                         - (IF e \in Taken THEN 1 ELSE 0)

\* What the values, the entries and the operations add up to.
Balance ==
    /\ EntriesCount
    /\ \A a \in Addr : avail[a] = virt[a] + Cardinality(Using(a))
    /\ Sum(waiting) = Cardinality(Taken)
    /\ Sum(avail) = Sum(spare) - Cardinality(Taken) + Cardinality(Inside)

\* A taken entry has a process of its own address, which comes to it or is the
\* last that waits on it.
Claimed(e) == \/ \E t \in Coming(e) : arg[t] = addr[e]
              \/ Coming(e) = {} /\ sem[e].val < 0 /\ arg[Last(sem[e].q)] = addr[e]
Claims == overtaken \/ \A e \in Taken : Claimed(e)

VirtInv == TypeOK /\ Fields /\ SemOK /\ Balance /\ Claims
----------------------------------------------------------------------------
(***************************************************************************)
(* Sums.                                                                   *)
(***************************************************************************)

\* The element FoldFunction takes of a set.
Some(s) == CHOOSE x \in s : TRUE

\* g adds up the values of f over the subsets of D, one element after another.
AddsUp(g, f, D) ==
    /\ g \in [SUBSET D -> Int]
    /\ g[{}] = 0
    /\ \A s \in SUBSET D : s # {} => g[s] = f[Some(s)] + g[s \ {Some(s)}]

\* Induction over the subsets of a finite set.
LEMMA SubsetInduction ==
    ASSUME NEW D, IsFiniteSet(D), NEW T, {} \in T,
           \A s \in SUBSET D : s # {} /\ s \ {Some(s)} \in T => s \in T
    PROVE  \A s \in SUBSET D : s \in T
<1> DEFINE n == Cardinality(D)
           U == {k \in 0..n : \A s \in SUBSET D : Cardinality(s) <= k => s \in T}
<1>0. \A s \in SUBSET D : /\ IsFiniteSet(s) /\ Cardinality(s) \in Nat /\ Cardinality(s) <= n
                          /\ (Cardinality(s) = 0 <=> s = {})
  BY FS_Subset, FS_CardinalityType, FS_EmptySet
<1>1. n \in Nat
  BY FS_CardinalityType
<1> HIDE DEF n
<1>2. 0 \in U
  BY <1>0, <1>1
<1>3. ASSUME NEW k \in 1..n, k - 1 \in U
      PROVE  k \in U
  <2>1. ASSUME NEW s \in SUBSET D, Cardinality(s) <= k, s # {}
        PROVE  s \in T
    <3>1. Some(s) \in s
      BY <2>1 DEF Some
    <3>2. Cardinality(s \ {Some(s)}) = Cardinality(s) - 1
      BY <3>1, <1>0, FS_RemoveElement
    <3>3. s \ {Some(s)} \in SUBSET D /\ Cardinality(s \ {Some(s)}) <= k - 1
      BY <2>1, <3>2, <1>0, <1>1
    <3> QED
      BY <2>1, <3>3, <1>3
  <2> QED
    BY <2>1, <1>1
<1>4. \A k \in 0..n : k \in U
  <2> HIDE DEF U
  <2> QED
    BY <1>1, <1>2, <1>3, IntervalInduction
<1>5. n \in U
  BY <1>1, <1>4
<1> QED
  BY <1>0, <1>5

\* The recursion that defines Sum has a solution.
LEMMA SumExists ==
    ASSUME NEW D, IsFiniteSet(D), NEW f \in [D -> Int]
    PROVE  \E g : AddsUp(g, f, D)
<1> DEFINE n == Cardinality(D)
           Upto(k, g) == /\ g[{}] = 0
                         /\ \A s \in SUBSET D : s # {} /\ Cardinality(s) <= k
                                => g[s] = f[Some(s)] + g[s \ {Some(s)}]
           U == {k \in 0..n : \E g \in [SUBSET D -> Int] : Upto(k, g)}
<1>0. \A s \in SUBSET D : /\ IsFiniteSet(s) /\ Cardinality(s) \in Nat /\ Cardinality(s) <= n
                          /\ (Cardinality(s) = 0 <=> s = {})
  BY FS_Subset, FS_CardinalityType, FS_EmptySet
<1>1. n \in Nat
  BY FS_CardinalityType
<1>a. ASSUME NEW s \in SUBSET D, s # {}
      PROVE  /\ Some(s) \in D /\ s \ {Some(s)} \in SUBSET D
             /\ Cardinality(s \ {Some(s)}) = Cardinality(s) - 1
  <2>1. Some(s) \in s
    BY <1>a DEF Some
  <2> QED
    BY <2>1, <1>0, FS_RemoveElement
<1> HIDE DEF n
<1>2. 0 \in U
  <2> DEFINE g == [s \in SUBSET D |-> 0]
  <2>1. g \in [SUBSET D -> Int] /\ g[{}] = 0
    OBVIOUS
  <2>2. Upto(0, g)
    BY <2>1, <1>0
  <2> HIDE DEF g, Upto
  <2> QED
    BY <2>1, <2>2, <1>1
<1>3. ASSUME NEW k \in 1..n, k - 1 \in U
      PROVE  k \in U
  <2>1. PICK g \in [SUBSET D -> Int] : Upto(k - 1, g)
    BY <1>3
  <2> DEFINE h == [s \in SUBSET D |-> IF Cardinality(s) = k
                                      THEN f[Some(s)] + g[s \ {Some(s)}] ELSE g[s]]
  <2>2. ASSUME NEW s \in SUBSET D, s # {}
        PROVE  f[Some(s)] + g[s \ {Some(s)}] \in Int
    <3>1. Some(s) \in D /\ s \ {Some(s)} \in SUBSET D
      BY <1>a, <2>2
    <3>2. f[Some(s)] \in Int /\ g[s \ {Some(s)}] \in Int
      BY <3>1
    <3> QED
      BY <3>2
  <2>2a. \A s \in SUBSET D : Cardinality(s) = k => s # {}
    BY <1>0, <1>1
  <2>3. h \in [SUBSET D -> Int]
    BY <2>2, <2>2a
  <2>4. h[{}] = 0
    BY <2>1, <1>0
  <2>5. ASSUME NEW s \in SUBSET D, s # {}, Cardinality(s) <= k
        PROVE  h[s] = f[Some(s)] + h[s \ {Some(s)}]
    <3>1. s \ {Some(s)} \in SUBSET D /\ Cardinality(s \ {Some(s)}) # k
      BY <1>a, <1>0, <2>5
    <3>2. h[s \ {Some(s)}] = g[s \ {Some(s)}]
      BY <3>1
    <3>3. CASE Cardinality(s) = k
      BY <3>2, <3>3
    <3>4. CASE Cardinality(s) # k
      <4>1. Cardinality(s) <= k - 1
        BY <2>5, <3>4, <1>0, <1>1
      <4> QED
        BY <2>1, <2>5, <3>2, <3>4, <4>1
    <3> QED
      BY <3>3, <3>4
  <2>6. Upto(k, h)
    <3> HIDE DEF h
    <3> QED
      BY <2>4, <2>5
  <2>7. k \in 0..n
    BY <1>1
  <2> HIDE DEF h, Upto
  <2> QED
    BY <2>3, <2>6, <2>7
<1>4. \A k \in 0..n : k \in U
  <2> HIDE DEF U
  <2> QED
    BY <1>1, <1>2, <1>3, IntervalInduction
<1>5. PICK g \in [SUBSET D -> Int] : Upto(n, g)
  <2>1. n \in U
    <3> HIDE DEF U
    <3> QED
      BY <1>1, <1>4
  <2> HIDE DEF Upto
  <2> QED
    BY <2>1
<1> QED
  BY <1>0, <1>5 DEF AddsUp

LEMMA SumDef ==
    ASSUME NEW D, IsFiniteSet(D), NEW f \in [D -> Int]
    PROVE  \E g : AddsUp(g, f, D) /\ Sum(f) = g[D]
<1> DEFINE Body(g, s) == IF s = {} THEN 0 ELSE f[Some(s)] + g[s \ {Some(s)}]
           it == CHOOSE g : g = [s \in SUBSET D |-> Body(g, s)]
<1>1. Sum(f) = it[D]
  BY DEF Sum, FoldFunction, FoldFunctionOnSet, MapThenFoldSet, Some
<1>2. PICK h : AddsUp(h, f, D)
  BY SumExists
<1>3. h = [s \in SUBSET D |-> Body(h, s)]
  BY <1>2 DEF AddsUp
<1>4. it = [s \in SUBSET D |-> Body(it, s)]
  <2> HIDE DEF Body
  <2> QED
    BY <1>3
<1> HIDE DEF it
<1>5. /\ it[{}] = 0
      /\ \A s \in SUBSET D : s # {} => it[s] = f[Some(s)] + it[s \ {Some(s)}]
  <2>1. \A s \in SUBSET D : it[s] = Body(it, s)
    <3> HIDE DEF Body
    <3> QED
      BY <1>4
  <2>2. it[{}] = 0
    BY <2>1
  <2>3. ASSUME NEW s \in SUBSET D, s # {}
        PROVE  it[s] = f[Some(s)] + it[s \ {Some(s)}]
    BY <2>1, <2>3
  <2> QED
    BY <2>2, <2>3
<1> DEFINE T == {s \in SUBSET D : it[s] \in Int}
<1>6. {} \in T
  BY <1>5
<1>7. \A s \in SUBSET D : s # {} /\ s \ {Some(s)} \in T => s \in T
  <2>1. ASSUME NEW s \in SUBSET D, s # {}, s \ {Some(s)} \in T
        PROVE  s \in T
    <3>1. Some(s) \in s
      BY <2>1 DEF Some
    <3>2. f[Some(s)] \in Int /\ it[s \ {Some(s)}] \in Int
      BY <2>1, <3>1
    <3> QED
      BY <1>5, <2>1, <3>2
  <2> QED
    BY <2>1
<1>8. \A s \in SUBSET D : s \in T
  <2> HIDE DEF T
  <2> QED
    BY <1>6, <1>7, SubsetInduction
<1>9. it \in [SUBSET D -> Int]
  <2> HIDE DEF Body
  <2>1. it = [s \in SUBSET D |-> it[s]]
    BY <1>4
  <2> QED
    BY <1>8, <2>1
<1>10. AddsUp(it, f, D)
  BY <1>5, <1>9 DEF AddsUp
<1> QED
  BY <1>1, <1>10

\* A sum of natural numbers is one, and a sum of zeros is 0.
LEMMA SumNat ==
    ASSUME NEW D, IsFiniteSet(D), NEW f \in [D -> Nat]
    PROVE  Sum(f) \in Nat /\ ((\A a \in D : f[a] = 0) => Sum(f) = 0)
<1>1. PICK g : AddsUp(g, f, D) /\ Sum(f) = g[D]
  BY SumDef
<1>2. /\ g \in [SUBSET D -> Int] /\ g[{}] = 0
      /\ \A s \in SUBSET D : s # {} => g[s] = f[Some(s)] + g[s \ {Some(s)}]
  BY <1>1 DEF AddsUp
<1> DEFINE T == {s \in SUBSET D : g[s] \in Nat /\ ((\A a \in D : f[a] = 0) => g[s] = 0)}
<1>3. {} \in T
  BY <1>2
<1>4. ASSUME NEW s \in SUBSET D, s # {}, s \ {Some(s)} \in T
      PROVE  s \in T
  <2>1. Some(s) \in s
    BY <1>4 DEF Some
  <2> QED
    BY <1>2, <1>4, <2>1
<1>5. \A s \in SUBSET D : s \in T
  <2> HIDE DEF T
  <2> QED
    BY <1>3, <1>4, SubsetInduction
<1> QED
  BY <1>1, <1>5

\* One value changes, and the sum with it.
LEMMA SumUpdate ==
    ASSUME NEW D, IsFiniteSet(D), NEW f \in [D -> Int], NEW h \in [D -> Int],
           NEW a \in D, \A b \in D : b # a => h[b] = f[b]
    PROVE  Sum(f) \in Int /\ Sum(h) = Sum(f) + h[a] - f[a]
<1>1. PICK g : AddsUp(g, f, D) /\ Sum(f) = g[D]
  BY SumDef
<1>2. PICK k : AddsUp(k, h, D) /\ Sum(h) = k[D]
  BY SumDef
<1>3. /\ g \in [SUBSET D -> Int] /\ g[{}] = 0
      /\ \A s \in SUBSET D : s # {} => g[s] = f[Some(s)] + g[s \ {Some(s)}]
      /\ k \in [SUBSET D -> Int] /\ k[{}] = 0
      /\ \A s \in SUBSET D : s # {} => k[s] = h[Some(s)] + k[s \ {Some(s)}]
  BY <1>1, <1>2 DEF AddsUp
<1> DEFINE T == {s \in SUBSET D : k[s] = g[s] + (IF a \in s THEN h[a] - f[a] ELSE 0)}
<1>4. {} \in T
  BY <1>3
<1>5. ASSUME NEW s \in SUBSET D, s # {}, s \ {Some(s)} \in T
      PROVE  s \in T
  <2>1. Some(s) \in s /\ Some(s) \in D
    BY <1>5 DEF Some
  <2>2. k[s \ {Some(s)}] = g[s \ {Some(s)}]
                             + (IF a \in s /\ a # Some(s) THEN h[a] - f[a] ELSE 0)
    BY <1>5
  <2>3. /\ g[s] = f[Some(s)] + g[s \ {Some(s)}]
        /\ k[s] = h[Some(s)] + k[s \ {Some(s)}]
        /\ g[s \ {Some(s)}] \in Int /\ k[s \ {Some(s)}] \in Int
    BY <1>3, <1>5
  <2>4. CASE a = Some(s)
    BY <2>1, <2>2, <2>3, <2>4
  <2>5. CASE a # Some(s)
    <3>1. h[Some(s)] = f[Some(s)]
      BY <2>1, <2>5
    <3> QED
      BY <2>1, <2>2, <2>3, <2>5, <3>1
  <2> QED
    BY <2>4, <2>5
<1>6. \A s \in SUBSET D : s \in T
  <2> HIDE DEF T
  <2> QED
    BY <1>4, <1>5, SubsetInduction
<1> QED
  BY <1>1, <1>2, <1>3, <1>6

----------------------------------------------------------------------------
(***************************************************************************)
(* The sets that change with a step.                                       *)
(***************************************************************************)

\* One element more or less.
LEMMA OneMember ==
    ASSUME NEW S, NEW R, NEW x, IsFiniteSet(S), \A y : y # x => (y \in R <=> y \in S)
    PROVE  /\ Cardinality(S) \in Nat
           /\ Cardinality(R) = Cardinality(S) + (IF x \in R THEN 1 ELSE 0)
                                             - (IF x \in S THEN 1 ELSE 0)
<1>0. Cardinality(S) \in Nat
  BY FS_CardinalityType
<1>1. CASE x \in R /\ x \notin S
  <2>1. R = S \cup {x}
    BY <1>1
  <2> QED
    BY <1>0, <1>1, <2>1, FS_AddElement
<1>2. CASE x \notin R /\ x \in S
  <2>1. R = S \ {x}
    BY <1>2
  <2> QED
    BY <1>0, <1>2, <2>1, FS_RemoveElement
<1>3. CASE x \in R <=> x \in S
  <2>1. R = S
    BY <1>3
  <2> QED
    BY <1>0, <1>3, <2>1
<1> QED
  BY <1>1, <1>2, <1>3

LEMMA WhoFacts ==
    /\ protected_sem \in Who /\ protected_sem \notin Entry /\ Entry \subseteq Who
    /\ \A s \in Who : s \in Entry \/ s = protected_sem
BY VirtualAssumption DEF Who, Entry, protected_sem

LEMMA SomeEntry ==
    ASSUME NEW t \in TProc
    PROVE  1 \in Entry
<1>1. IsFiniteSet(TProc) /\ TProc # {}
  BY VirtualAssumption
<1>2. Cardinality(TProc) # 0 /\ Cardinality(TProc) \in Nat
  BY <1>1, FS_EmptySet, FS_CardinalityType
<1> QED
  BY <1>2, VirtualAssumption DEF Entry

LEMMA FirstIn ==
    ASSUME NEW S, S \subseteq Entry, S # {}
    PROVE  First(S) \in S
<1>1. S \subseteq Nat
  BY DEF Entry
<1>2. \E i \in S : \A j \in S : i <= j
  BY <1>1, LeastNatural
<1> QED
  BY <1>2 DEF First

LEMMA Finite ==
    /\ IsFiniteSet(Addr)
    /\ \A e : IsFiniteSet(Coming(e)) /\ IsFiniteSet(Waking(e))
    /\ IsFiniteSet(Inside) /\ \A a : IsFiniteSet(Using(a))
    /\ IsFiniteSet(Taken) /\ \A a : IsFiniteSet(Entries(a))
<1>1. IsFiniteSet(TProc) /\ IsFiniteSet(Addr)
  BY VirtualAssumption
<1>2. IsFiniteSet(Entry)
  BY VirtualAssumption, FS_Interval DEF Entry
<1>3. \A e, a : /\ Coming(e) \in SUBSET TProc /\ Waking(e) \in SUBSET TProc
               /\ Inside \in SUBSET TProc /\ Using(a) \in SUBSET TProc
               /\ Taken \in SUBSET Entry /\ Entries(a) \in SUBSET Entry
  BY DEF Coming, Waking, Inside, Using, Taken, Entries
<1> QED
  BY <1>1, <1>2, <1>3, FS_Subset

LEMMA TypeParts ==
    ASSUME Fields, SemOK, overtaken \in BOOLEAN
    PROVE  TypeOK
BY DEF TypeOK, Fields, SemOK, Counted, Who

\* Only process t moves.
Moves(t) == \A u \in TProc : u # t => pc'[u] = pc[u] /\ arg'[u] = arg[u] /\ entry'[u] = entry[u]

LEMMA Counts ==
    ASSUME NEW t \in TProc, Moves(t)
    PROVE  /\ \A e : /\ Cardinality(Coming(e)) \in Nat /\ Cardinality(Waking(e)) \in Nat
                    /\ Cardinality(Coming(e))' = Cardinality(Coming(e))
                            + (IF pc'[t] = "wait" /\ entry'[t] = e THEN 1 ELSE 0)
                            - (IF pc[t] = "wait" /\ entry[t] = e THEN 1 ELSE 0)
                    /\ Cardinality(Waking(e))' = Cardinality(Waking(e))
                            + (IF pc'[t] = "wake" /\ entry'[t] = e THEN 1 ELSE 0)
                            - (IF pc[t] = "wake" /\ entry[t] = e THEN 1 ELSE 0)
           /\ Cardinality(Inside) \in Nat
           /\ Cardinality(Inside)' = Cardinality(Inside)
                            + (IF pc'[t] \in {"wait", "waited"} THEN 1 ELSE 0)
                            - (IF pc[t] \in {"wait", "waited"} THEN 1 ELSE 0)
           /\ \A a : /\ Cardinality(Using(a)) \in Nat
                    /\ Cardinality(Using(a))' = Cardinality(Using(a))
                            + (IF pc'[t] \in {"wait", "waited"} /\ arg'[t] = a THEN 1 ELSE 0)
                            - (IF pc[t] \in {"wait", "waited"} /\ arg[t] = a THEN 1 ELSE 0)
<1>1. ASSUME NEW e
      PROVE  /\ Cardinality(Coming(e)) \in Nat
             /\ Cardinality(Coming(e))' = Cardinality(Coming(e))
                            + (IF pc'[t] = "wait" /\ entry'[t] = e THEN 1 ELSE 0)
                            - (IF pc[t] = "wait" /\ entry[t] = e THEN 1 ELSE 0)
  <2>1. \A u : u # t => (u \in Coming(e)' <=> u \in Coming(e))
    BY DEF Moves, Coming
  <2>2. /\ t \in Coming(e) <=> pc[t] = "wait" /\ entry[t] = e
        /\ t \in Coming(e)' <=> pc'[t] = "wait" /\ entry'[t] = e
    BY DEF Coming
  <2>3. /\ Cardinality(Coming(e)) \in Nat
        /\ Cardinality(Coming(e)') = Cardinality(Coming(e))
               + (IF t \in Coming(e)' THEN 1 ELSE 0) - (IF t \in Coming(e) THEN 1 ELSE 0)
    BY <2>1, Finite, OneMember
  <2> QED
    BY <2>2, <2>3
<1>2. ASSUME NEW e
      PROVE  /\ Cardinality(Waking(e)) \in Nat
             /\ Cardinality(Waking(e))' = Cardinality(Waking(e))
                            + (IF pc'[t] = "wake" /\ entry'[t] = e THEN 1 ELSE 0)
                            - (IF pc[t] = "wake" /\ entry[t] = e THEN 1 ELSE 0)
  <2>1. \A u : u # t => (u \in Waking(e)' <=> u \in Waking(e))
    BY DEF Moves, Waking
  <2>2. /\ t \in Waking(e) <=> pc[t] = "wake" /\ entry[t] = e
        /\ t \in Waking(e)' <=> pc'[t] = "wake" /\ entry'[t] = e
    BY DEF Waking
  <2>3. /\ Cardinality(Waking(e)) \in Nat
        /\ Cardinality(Waking(e)') = Cardinality(Waking(e))
               + (IF t \in Waking(e)' THEN 1 ELSE 0) - (IF t \in Waking(e) THEN 1 ELSE 0)
    BY <2>1, Finite, OneMember
  <2> QED
    BY <2>2, <2>3
<1>3. /\ Cardinality(Inside) \in Nat
      /\ Cardinality(Inside)' = Cardinality(Inside)
                            + (IF pc'[t] \in {"wait", "waited"} THEN 1 ELSE 0)
                            - (IF pc[t] \in {"wait", "waited"} THEN 1 ELSE 0)
  <2>1. \A u : u # t => (u \in Inside' <=> u \in Inside)
    BY DEF Moves, Inside
  <2>2. /\ t \in Inside <=> pc[t] \in {"wait", "waited"}
        /\ t \in Inside' <=> pc'[t] \in {"wait", "waited"}
    BY DEF Inside
  <2>3. /\ Cardinality(Inside) \in Nat
        /\ Cardinality(Inside') = Cardinality(Inside)
               + (IF t \in Inside' THEN 1 ELSE 0) - (IF t \in Inside THEN 1 ELSE 0)
    BY <2>1, Finite, OneMember
  <2> QED
    BY <2>2, <2>3
<1>4. ASSUME NEW a
      PROVE  /\ Cardinality(Using(a)) \in Nat
             /\ Cardinality(Using(a))' = Cardinality(Using(a))
                            + (IF pc'[t] \in {"wait", "waited"} /\ arg'[t] = a THEN 1 ELSE 0)
                            - (IF pc[t] \in {"wait", "waited"} /\ arg[t] = a THEN 1 ELSE 0)
  <2>1. \A u : u # t => (u \in Using(a)' <=> u \in Using(a))
    BY DEF Moves, Using
  <2>2. /\ t \in Using(a) <=> pc[t] \in {"wait", "waited"} /\ arg[t] = a
        /\ t \in Using(a)' <=> pc'[t] \in {"wait", "waited"} /\ arg'[t] = a
    BY DEF Using
  <2>3. /\ Cardinality(Using(a)) \in Nat
        /\ Cardinality(Using(a)') = Cardinality(Using(a))
               + (IF t \in Using(a)' THEN 1 ELSE 0) - (IF t \in Using(a) THEN 1 ELSE 0)
    BY <2>1, Finite, OneMember
  <2> QED
    BY <2>2, <2>3
<1> QED
  BY <1>1, <1>2, <1>3, <1>4

\* Only entry e is taken or freed.
LEMMA EntryCounts ==
    ASSUME NEW e \in Entry, \A f \in Entry : f # e => addr'[f] = addr[f]
    PROVE  /\ Cardinality(Taken) \in Nat
           /\ Cardinality(Taken)' = Cardinality(Taken) + (IF addr'[e] # NULL THEN 1 ELSE 0)
                                                      - (IF addr[e] # NULL THEN 1 ELSE 0)
           /\ \A a : /\ Cardinality(Entries(a)) \in Nat
                    /\ Cardinality(Entries(a))' = Cardinality(Entries(a))
                            + (IF addr'[e] = a THEN 1 ELSE 0) - (IF addr[e] = a THEN 1 ELSE 0)
<1>1. /\ Cardinality(Taken) \in Nat
      /\ Cardinality(Taken)' = Cardinality(Taken) + (IF addr'[e] # NULL THEN 1 ELSE 0)
                                                 - (IF addr[e] # NULL THEN 1 ELSE 0)
  <2>1. \A u : u # e => (u \in Taken' <=> u \in Taken)
    BY DEF Taken
  <2>2. (e \in Taken <=> addr[e] # NULL) /\ (e \in Taken' <=> addr'[e] # NULL)
    BY DEF Taken
  <2>3. /\ Cardinality(Taken) \in Nat
        /\ Cardinality(Taken') = Cardinality(Taken)
               + (IF e \in Taken' THEN 1 ELSE 0) - (IF e \in Taken THEN 1 ELSE 0)
    BY <2>1, Finite, OneMember
  <2> QED
    BY <2>2, <2>3
<1>2. ASSUME NEW a
      PROVE  /\ Cardinality(Entries(a)) \in Nat
             /\ Cardinality(Entries(a))' = Cardinality(Entries(a))
                            + (IF addr'[e] = a THEN 1 ELSE 0) - (IF addr[e] = a THEN 1 ELSE 0)
  <2>1. \A u : u # e => (u \in Entries(a)' <=> u \in Entries(a))
    BY DEF Entries
  <2>2. (e \in Entries(a) <=> addr[e] = a) /\ (e \in Entries(a)' <=> addr'[e] = a)
    BY DEF Entries
  <2>3. /\ Cardinality(Entries(a)) \in Nat
        /\ Cardinality(Entries(a)') = Cardinality(Entries(a))
               + (IF e \in Entries(a)' THEN 1 ELSE 0) - (IF e \in Entries(a) THEN 1 ELSE 0)
    BY <2>1, Finite, OneMember
  <2> QED
    BY <2>2, <2>3
<1> QED
  BY <1>1, <1>2

\* Only the values of a change.
LEMMA SumCounts ==
    ASSUME NEW a \in Addr, Fields, virt' \in [Addr -> Int], avail' \in [Addr -> Int],
           \A b \in Addr : b # a => virt'[b] = virt[b] /\ avail'[b] = avail[b]
    PROVE  /\ Sum(waiting) \in Int /\ Sum(spare) \in Int /\ Sum(avail) \in Int
           /\ Sum(waiting)' = Sum(waiting) + Waiting(virt'[a]) - Waiting(virt[a])
           /\ Sum(spare)' = Sum(spare) + Spare(virt'[a]) - Spare(virt[a])
           /\ Sum(avail)' = Sum(avail) + avail'[a] - avail[a]
<1>0. IsFiniteSet(Addr) /\ virt \in [Addr -> Int] /\ avail \in [Addr -> Int]
  BY Finite DEF Fields
<1>1. /\ waiting \in [Addr -> Int] /\ waiting' \in [Addr -> Int]
      /\ \A b \in Addr : b # a => waiting'[b] = waiting[b]
      /\ waiting[a] = Waiting(virt[a]) /\ waiting'[a] = Waiting(virt'[a])
  BY <1>0 DEF waiting, Waiting
<1>2. /\ spare \in [Addr -> Int] /\ spare' \in [Addr -> Int]
      /\ \A b \in Addr : b # a => spare'[b] = spare[b]
      /\ spare[a] = Spare(virt[a]) /\ spare'[a] = Spare(virt'[a])
  BY <1>0 DEF spare, Spare
<1>3. Sum(waiting) \in Int /\ Sum(waiting') = Sum(waiting) + waiting'[a] - waiting[a]
  BY <1>0, <1>1, SumUpdate
<1>4. Sum(spare) \in Int /\ Sum(spare') = Sum(spare) + spare'[a] - spare[a]
  BY <1>0, <1>2, SumUpdate
<1>5. Sum(avail) \in Int /\ Sum(avail') = Sum(avail) + avail'[a] - avail[a]
  BY <1>0, SumUpdate
<1> QED
  BY <1>1, <1>2, <1>3, <1>4, <1>5

----------------------------------------------------------------------------
(***************************************************************************)
(* The steps.                                                              *)
(***************************************************************************)

\* A step that neither takes nor frees an entry and comes to no entry's
\* semaphore.
Quiet(t) == \/ \E l \in {"P", "V"}, a \in Argument : Enter(t, l, a)
            \/ Refuse(t, "P") \/ Refuse(t, "V") \/ Trap(t, "P") \/ Trap(t, "V")
            \/ P_Pass(t) \/ V_Raise(t)
            \/ P_Take(t) /\ Entries(NULL) = {}
            \/ V_Give(t) /\ Entries(arg[t]) = {}

Busy == {"wait", "waited", "wake"}

LEMMA Kinds ==
    ASSUME Next
    PROVE  \E t \in TProc : \/ Quiet(t)
                            \/ P_Take(t) /\ Entries(NULL) # {}
                            \/ P_Wait(t) \/ P_Return(t)
                            \/ V_Give(t) /\ Entries(arg[t]) # {}
                            \/ V_Wake(t)
BY DEF Next, P_Virtual_Semaphore, V_Virtual_Semaphore, Quiet, Argument

LEMMA QuietStep ==
    ASSUME Fields, NEW t \in TProc, Quiet(t)
    PROVE  /\ Fields' /\ Moves(t) /\ Ready(sem, t)
           /\ pc[t] \notin Busy /\ pc'[t] \notin Busy
           /\ addr' = addr /\ overtaken' = overtaken
           /\ \/ sem' = V(sem, protected_sem)
              \/ sem' = sem
              \/ sem' = P(sem, protected_sem, t) /\ pc'[t] \in {"P", "V"}
<1> USE VirtualAssumption
<1>0. /\ pc \in [TProc -> {"user", "P", "V", "wait", "waited", "wake", "gone", "trapped"}]
      /\ arg \in [TProc -> Argument]
      /\ entry \in [TProc -> Entry]
  BY DEF Fields
<1>1. ASSUME NEW l \in {"P", "V"}, NEW a \in Argument, Enter(t, l, a)
      PROVE  /\ Fields' /\ Moves(t) /\ Ready(sem, t)
             /\ pc[t] \notin Busy /\ pc'[t] \notin Busy
             /\ addr' = addr /\ overtaken' = overtaken
             /\ sem' = P(sem, protected_sem, t) /\ pc'[t] \in {"P", "V"}
  BY <1>0, <1>1 DEF Enter, At, Goto, Fields, Moves, Busy
<1>2. ASSUME Refuse(t, "P") \/ Refuse(t, "V") \/ Trap(t, "P") \/ Trap(t, "V")
      PROVE  /\ Fields' /\ Moves(t) /\ Ready(sem, t)
             /\ pc[t] \notin Busy /\ pc'[t] \notin Busy
             /\ addr' = addr /\ overtaken' = overtaken
             /\ sem' = V(sem, protected_sem) \/ sem' = sem
  BY <1>0, <1>2 DEF Refuse, Trap, At, Goto, Fields, Moves, Busy
<1>3. ASSUME Return(t), UNCHANGED addr, virt' \in [Addr -> Int], avail' \in [Addr -> Int],
             1 \in Entry
      PROVE  Fields' /\ Moves(t) /\ pc'[t] \notin Busy
  BY <1>0, <1>3 DEF Return, Goto, Fields, Argument, Moves, Busy
<1>4. 1 \in Entry
  BY SomeEntry
<1>5. CASE P_Pass(t) \/ V_Raise(t)
  <2>1. arg[t] \in Addr
    BY <1>0, <1>5 DEF P_Pass, V_Raise
  <2>2. virt' \in [Addr -> Int] /\ avail' \in [Addr -> Int]
    BY <1>5, <2>1 DEF P_Pass, V_Raise, Fields
  <2> QED
    BY <1>3, <1>4, <1>5, <2>2 DEF P_Pass, V_Raise, At, Busy
<1>6. CASE \/ P_Take(t) /\ Entries(NULL) = {}
           \/ V_Give(t) /\ Entries(arg[t]) = {}
  <2>1. Return(t) /\ UNCHANGED <<virt, addr, sem, avail, overtaken>> /\ Ready(sem, t)
        /\ pc[t] \in {"P", "V"}
    BY <1>6 DEF P_Take, V_Give, At
  <2> QED
    BY <1>3, <1>4, <2>1 DEF Fields, Busy
<1> QED
  BY <1>1, <1>2, <1>5, <1>6 DEF Quiet

LEMMA TakeStep ==
    ASSUME Fields, NEW t \in TProc, P_Take(t), Entries(NULL) # {}
    PROVE  \E e \in Entry :
             /\ Fields' /\ Moves(t) /\ Ready(sem, t)
             /\ pc[t] = "P" /\ pc'[t] = "wait" /\ entry'[t] = e
             /\ arg[t] \in Addr /\ arg' = arg /\ addr[e] = NULL /\ addr'[e] = arg[t]
             /\ \A f \in Entry : f # e => addr'[f] = addr[f]
             /\ sem' = V(sem, protected_sem) /\ overtaken' = overtaken /\ avail' = avail
             /\ virt[arg[t]] <= 0 /\ virt' = [virt EXCEPT ![arg[t]] = @ - 1]
<1> DEFINE e == First(Entries(NULL))
<1>1. e \in Entries(NULL)
  BY FirstIn DEF Entries
<1>2. e \in Entry /\ addr[e] = NULL
  BY <1>1 DEF Entries
<1>3. /\ Ready(sem, t) /\ pc[t] = "P" /\ arg[t] \in Addr /\ virt[arg[t]] <= 0
      /\ addr' = [addr EXCEPT ![e] = arg[t]] /\ entry' = [entry EXCEPT ![t] = e]
      /\ virt' = [virt EXCEPT ![arg[t]] = @ - 1] /\ sem' = V(sem, protected_sem)
      /\ pc' = [pc EXCEPT ![t] = "wait"] /\ UNCHANGED <<arg, avail, overtaken>>
  BY DEF P_Take, At, Goto
<1> HIDE DEF e
<1>4. arg[t] \in Addr
  BY <1>3 DEF Fields
<1>5. Fields' /\ Moves(t) /\ pc'[t] = "wait" /\ entry'[t] = e
  BY <1>2, <1>3, <1>4 DEF Fields, Moves
<1>6. addr'[e] = arg[t] /\ \A f \in Entry : f # e => addr'[f] = addr[f]
  BY <1>2, <1>3 DEF Fields
<1> QED
  BY <1>2, <1>3, <1>4, <1>5, <1>6

LEMMA WaitStep ==
    ASSUME Fields, NEW t \in TProc, P_Wait(t)
    PROVE  /\ Fields' /\ Moves(t) /\ Ready(sem, t)
           /\ pc[t] = "wait" /\ pc'[t] = "waited" /\ entry[t] \in Entry
           /\ sem' = P(sem, entry[t], t)
           /\ overtaken' = (overtaken \/ \E u \in TProc : /\ pc[u] = "wait"
                                                          /\ entry[u] = entry[t]
                                                          /\ arg[u] # arg[t])
           /\ UNCHANGED <<virt, addr, arg, entry, avail>>
BY DEF P_Wait, At, Goto, Fields, Moves

LEMMA ReturnStep ==
    ASSUME Fields, NEW t \in TProc, P_Return(t)
    PROVE  /\ Fields' /\ Moves(t) /\ Ready(sem, t)
           /\ pc[t] = "waited" /\ pc'[t] = "user" /\ arg[t] \in Addr
           /\ avail' = [avail EXCEPT ![arg[t]] = @ - 1]
           /\ UNCHANGED <<virt, addr, sem, overtaken>>
<1>1. /\ Ready(sem, t) /\ pc[t] = "waited" /\ arg[t] \in Addr /\ 1 \in Entry
  BY SomeEntry DEF P_Return, At, Fields
<1>2. /\ pc' = [pc EXCEPT ![t] = "user"] /\ arg' = [arg EXCEPT ![t] = NULL]
      /\ entry' = [entry EXCEPT ![t] = 1]
      /\ avail' = [avail EXCEPT ![arg[t]] = @ - 1]
      /\ UNCHANGED <<virt, addr, sem, overtaken>>
  BY DEF P_Return, Return, Goto
<1> QED
  BY <1>1, <1>2 DEF Fields, Argument, Moves

LEMMA GiveStep ==
    ASSUME Fields, NEW t \in TProc, V_Give(t), Entries(arg[t]) # {}
    PROVE  \E e \in Entry :
             /\ Fields' /\ Moves(t) /\ Ready(sem, t)
             /\ pc[t] = "V" /\ pc'[t] = "wake" /\ entry'[t] = e
             /\ arg[t] \in Addr /\ arg' = arg /\ addr[e] = arg[t] /\ addr'[e] = NULL
             /\ \A f \in Entry : f # e => addr'[f] = addr[f]
             /\ sem' = V(sem, protected_sem) /\ overtaken' = overtaken
             /\ virt[arg[t]] < 0 /\ virt' = [virt EXCEPT ![arg[t]] = @ + 1]
             /\ avail' = [avail EXCEPT ![arg[t]] = @ + 1]
<1> DEFINE e == First(Entries(arg[t]))
<1>1. e \in Entries(arg[t])
  BY FirstIn DEF Entries
<1>2. e \in Entry /\ addr[e] = arg[t]
  BY <1>1 DEF Entries
<1>3. /\ Ready(sem, t) /\ pc[t] = "V" /\ arg[t] \in Addr /\ virt[arg[t]] < 0
      /\ addr' = [addr EXCEPT ![e] = NULL] /\ entry' = [entry EXCEPT ![t] = e]
      /\ virt' = [virt EXCEPT ![arg[t]] = @ + 1] /\ avail' = [avail EXCEPT ![arg[t]] = @ + 1]
      /\ sem' = V(sem, protected_sem)
      /\ pc' = [pc EXCEPT ![t] = "wake"] /\ UNCHANGED <<arg, overtaken>>
  BY DEF V_Give, At, Goto
<1> HIDE DEF e
<1>4. arg[t] \in Addr
  BY <1>3 DEF Fields
<1>5. Fields' /\ Moves(t) /\ pc'[t] = "wake" /\ entry'[t] = e
  BY <1>2, <1>3, <1>4 DEF Fields, Moves
<1>6. addr'[e] = NULL /\ \A f \in Entry : f # e => addr'[f] = addr[f]
  BY <1>2, <1>3 DEF Fields
<1> QED
  BY <1>2, <1>3, <1>4, <1>5, <1>6

LEMMA WakeStep ==
    ASSUME Fields, NEW t \in TProc, V_Wake(t)
    PROVE  /\ Fields' /\ Moves(t) /\ Ready(sem, t)
           /\ pc[t] = "wake" /\ pc'[t] = "user" /\ entry[t] \in Entry
           /\ sem' = V(sem, entry[t])
           /\ UNCHANGED <<virt, addr, avail, overtaken>>
<1>1. Ready(sem, t) /\ pc[t] = "wake" /\ entry[t] \in Entry /\ 1 \in Entry
  BY SomeEntry DEF V_Wake, At, Fields
<1>2. /\ pc' = [pc EXCEPT ![t] = "user"] /\ arg' = [arg EXCEPT ![t] = NULL]
      /\ entry' = [entry EXCEPT ![t] = 1] /\ sem' = V(sem, entry[t])
      /\ UNCHANGED <<virt, addr, avail, overtaken>>
  BY DEF V_Wake, Return, Goto
<1> QED
  BY <1>1, <1>2 DEF Fields, Argument, Moves

----------------------------------------------------------------------------
(***************************************************************************)
(* The semaphores.                                                         *)
(***************************************************************************)

\* Who waits after a step of t.
LEMMA SemStep ==
    ASSUME SemOK, NEW t \in TProc, Ready(sem, t), Moves(t),
           Counted(sem', Who, TProc),
           \A s \in Who : \A u : Waits(sem', s, u) =>
               \/ Waits(sem, s, u)
               \/ u = t /\ s = protected_sem /\ pc'[t] \in {"P", "V"}
               \/ u = t /\ s # protected_sem /\ pc'[t] = "waited" /\ entry'[t] = s,
           \A e \in Entry :
               sem'[e].val = Cardinality(Coming(e))' - Cardinality(Waking(e))'
                               - (IF addr'[e] # NULL THEN 1 ELSE 0)
    PROVE  SemOK'
<1>1. \A s \in Who : \A u : Waits(sem, s, u) => u # t /\ u \in TProc
  BY CountedFacts DEF SemOK
<1>2. \A u : Waits(sem', protected_sem, u) => pc'[u] \in {"P", "V"}
  BY <1>1, WhoFacts DEF SemOK, Moves
<1>3. \A e \in Entry : \A u : Waits(sem', e, u) => pc'[u] = "waited" /\ entry'[u] = e
  BY <1>1, WhoFacts DEF SemOK, Moves
<1>4. \A e \in Entry : e \in Taken' <=> addr'[e] # NULL
  BY DEF Taken
<1> QED
  BY <1>2, <1>3, <1>4 DEF SemOK

LEMMA SemFacts ==
    ASSUME SemOK
    PROVE  /\ Counted(sem, Who, TProc)
           /\ \A e \in Entry : /\ sem[e].val \in Int
                               /\ sem[e].val = Cardinality(Coming(e)) - Cardinality(Waking(e))
                                                  - (IF addr[e] # NULL THEN 1 ELSE 0)
BY CountedFacts, WhoFacts DEF SemOK, Taken

LEMMA SemNext ==
    ASSUME Fields, SemOK, [Next]_vars
    PROVE  SemOK'
<1>a. /\ Counted(sem, Who, TProc)
      /\ \A e \in Entry : /\ sem[e].val \in Int
                          /\ sem[e].val = Cardinality(Coming(e)) - Cardinality(Waking(e))
                                             - (IF addr[e] # NULL THEN 1 ELSE 0)
  BY SemFacts
<1>b. ASSUME sem' = V(sem, protected_sem)
      PROVE  /\ Counted(sem', Who, TProc)
             /\ \A e \in Entry : sem'[e] = sem[e]
             /\ \A s \in Who : \A u : Waits(sem', s, u) => Waits(sem, s, u)
  BY <1>b, <1>a, WhoFacts, VStep
<1>1. ASSUME NEW t \in TProc, Quiet(t)
      PROVE  SemOK'
  <2>1. /\ Moves(t) /\ Ready(sem, t) /\ pc[t] \notin Busy /\ pc'[t] \notin Busy
        /\ addr' = addr
    BY <1>1, QuietStep
  <2>2. /\ Counted(sem', Who, TProc)
        /\ \A e \in Entry : sem'[e] = sem[e]
        /\ \A s \in Who : \A u : Waits(sem', s, u) =>
               \/ Waits(sem, s, u)
               \/ u = t /\ s = protected_sem /\ pc'[t] \in {"P", "V"}
    <3>1. CASE sem' = V(sem, protected_sem) \/ sem' = sem
      BY <3>1, <1>a, <1>b
    <3>2. CASE sem' = P(sem, protected_sem, t) /\ pc'[t] \in {"P", "V"}
      BY <3>2, <2>1, <1>a, WhoFacts, PStep
    <3> QED
      BY <1>1, <3>1, <3>2, QuietStep
  <2>3. \A e \in Entry : /\ Cardinality(Coming(e))' = Cardinality(Coming(e))
                         /\ Cardinality(Waking(e))' = Cardinality(Waking(e))
    BY <2>1, Counts DEF Busy
  <2> QED
    BY <2>1, <2>2, <2>3, <1>a, SemStep
<1>2. ASSUME NEW t \in TProc, P_Take(t), Entries(NULL) # {}
      PROVE  SemOK'
  <2>1. PICK e \in Entry :
             /\ Moves(t) /\ Ready(sem, t)
             /\ pc[t] = "P" /\ pc'[t] = "wait" /\ entry'[t] = e
             /\ arg[t] \in Addr /\ addr[e] = NULL /\ addr'[e] = arg[t]
             /\ \A f \in Entry : f # e => addr'[f] = addr[f]
             /\ sem' = V(sem, protected_sem)
    BY <1>2, TakeStep
  <2>2. \A f \in Entry : sem'[f].val = Cardinality(Coming(f))' - Cardinality(Waking(f))'
                                         - (IF addr'[f] # NULL THEN 1 ELSE 0)
    BY <2>1, <1>a, <1>b, Counts, VirtualAssumption
  <2> QED
    BY <2>1, <2>2, <1>b, SemStep
<1>3. ASSUME NEW t \in TProc, P_Wait(t)
      PROVE  SemOK'
  <2>1. /\ Moves(t) /\ Ready(sem, t) /\ pc[t] = "wait" /\ pc'[t] = "waited"
        /\ entry[t] \in Entry /\ sem' = P(sem, entry[t], t) /\ UNCHANGED <<addr, entry>>
    BY <1>3, WaitStep
  <2>2. entry[t] \in Who /\ entry[t] # protected_sem
    BY <2>1, WhoFacts
  <2>3. /\ Counted(sem', Who, TProc) /\ sem'[entry[t]].val = sem[entry[t]].val - 1
        /\ \A s \in Who : s # entry[t] => sem'[s] = sem[s]
        /\ \A s \in Who : \A u : Waits(sem', s, u) => Waits(sem, s, u) \/ (s = entry[t] /\ u = t)
    BY <2>1, <2>2, <1>a, PStep
  <2>4. \A f \in Entry : sem'[f].val = sem[f].val - (IF f = entry[t] THEN 1 ELSE 0)
    BY <2>3, <1>a, WhoFacts
  <2>5. \A f \in Entry : sem'[f].val = Cardinality(Coming(f))' - Cardinality(Waking(f))'
                                         - (IF addr'[f] # NULL THEN 1 ELSE 0)
    <3>1. \A f : /\ Cardinality(Coming(f)) \in Nat /\ Cardinality(Waking(f)) \in Nat
                 /\ Cardinality(Coming(f))' = Cardinality(Coming(f))
                                                - (IF f = entry[t] THEN 1 ELSE 0)
                 /\ Cardinality(Waking(f))' = Cardinality(Waking(f))
      BY <2>1, Counts
    <3> QED
      BY <2>1, <2>4, <1>a, <3>1
  <2> QED
    BY <2>1, <2>2, <2>3, <2>5, SemStep
<1>4. ASSUME NEW t \in TProc, P_Return(t)
      PROVE  SemOK'
  <2>1. /\ Moves(t) /\ Ready(sem, t) /\ pc[t] = "waited" /\ pc'[t] = "user"
        /\ UNCHANGED <<addr, sem>>
    BY <1>4, ReturnStep
  <2>2. \A f \in Entry : sem'[f].val = Cardinality(Coming(f))' - Cardinality(Waking(f))'
                                         - (IF addr'[f] # NULL THEN 1 ELSE 0)
    BY <2>1, <1>a, Counts
  <2> QED
    BY <2>1, <2>2, <1>a, SemStep
<1>5. ASSUME NEW t \in TProc, V_Give(t), Entries(arg[t]) # {}
      PROVE  SemOK'
  <2>1. PICK e \in Entry :
             /\ Moves(t) /\ Ready(sem, t)
             /\ pc[t] = "V" /\ pc'[t] = "wake" /\ entry'[t] = e
             /\ arg[t] \in Addr /\ addr[e] = arg[t] /\ addr'[e] = NULL
             /\ \A f \in Entry : f # e => addr'[f] = addr[f]
             /\ sem' = V(sem, protected_sem)
    BY <1>5, GiveStep
  <2>2. \A f \in Entry : sem'[f].val = Cardinality(Coming(f))' - Cardinality(Waking(f))'
                                         - (IF addr'[f] # NULL THEN 1 ELSE 0)
    BY <2>1, <1>a, <1>b, Counts, VirtualAssumption
  <2> QED
    BY <2>1, <2>2, <1>b, SemStep
<1>6. ASSUME NEW t \in TProc, V_Wake(t)
      PROVE  SemOK'
  <2>1. /\ Moves(t) /\ Ready(sem, t) /\ pc[t] = "wake" /\ pc'[t] = "user"
        /\ entry[t] \in Entry /\ sem' = V(sem, entry[t]) /\ UNCHANGED addr
    BY <1>6, WakeStep
  <2>2. entry[t] \in Who
    BY <2>1, WhoFacts
  <2>3. /\ Counted(sem', Who, TProc) /\ sem'[entry[t]].val = sem[entry[t]].val + 1
        /\ \A s \in Who : s # entry[t] => sem'[s] = sem[s]
        /\ \A s \in Who : \A u : Waits(sem', s, u) => Waits(sem, s, u)
    BY <2>1, <2>2, <1>a, VStep
  <2>4. \A f \in Entry : sem'[f].val = sem[f].val + (IF f = entry[t] THEN 1 ELSE 0)
    BY <2>3, <1>a, WhoFacts
  <2>5. \A f \in Entry : sem'[f].val = Cardinality(Coming(f))' - Cardinality(Waking(f))'
                                         - (IF addr'[f] # NULL THEN 1 ELSE 0)
    BY <2>1, <2>4, <1>a, Counts
  <2> QED
    BY <2>1, <2>2, <2>3, <2>5, SemStep
<1>7. CASE UNCHANGED vars
  BY <1>7 DEF vars, SemOK, Coming, Waking, Taken
<1> QED
  BY <1>1, <1>2, <1>3, <1>4, <1>5, <1>6, <1>7, Kinds

----------------------------------------------------------------------------
(***************************************************************************)
(* The values, the entries and the operations.                             *)
(***************************************************************************)
LEMMA BalanceFacts ==
    ASSUME Balance
    PROVE  /\ \A a \in Addr : Cardinality(Entries(a)) = Waiting(virt[a])
           /\ \A a \in Addr : avail[a] = virt[a] + Cardinality(Using(a))
           /\ Sum(waiting) = Cardinality(Taken)
           /\ Sum(avail) = Sum(spare) - Cardinality(Taken) + Cardinality(Inside)
BY DEF Balance, EntriesCount

\* The value of a and its entries after a step.
LEMMA BalanceStep ==
    ASSUME Fields, Fields', Balance, NEW t \in TProc, Moves(t), NEW a \in Addr,
           NEW e \in Entry, NEW d \in Int,
           \A f \in Entry : f # e => addr'[f] = addr[f],
           \A b \in Addr : b # a => virt'[b] = virt[b] /\ avail'[b] = avail[b],
           addr'[e] # addr[e] => addr[e] \in {a, NULL} /\ addr'[e] \in {a, NULL},
           pc'[t] \in {"wait", "waited"} => arg'[t] = a,
           pc[t] \in {"wait", "waited"} => arg[t] = a,
           Waiting(virt'[a]) - Waiting(virt[a])
               = (IF addr'[e] # NULL THEN 1 ELSE 0) - (IF addr[e] # NULL THEN 1 ELSE 0),
           d = (IF pc'[t] \in {"wait", "waited"} THEN 1 ELSE 0)
                 - (IF pc[t] \in {"wait", "waited"} THEN 1 ELSE 0),
           avail'[a] = avail[a] + (virt'[a] - virt[a]) + d
    PROVE  Balance'
<1> USE VirtualAssumption
<1>0. /\ virt[a] \in Int /\ virt'[a] \in Int /\ avail[a] \in Int
      /\ virt' \in [Addr -> Int] /\ avail' \in [Addr -> Int]
  BY DEF Fields
<1>1. \A b \in Addr : Cardinality(Entries(b))' = Waiting(virt'[b])
  <2>1. ASSUME NEW b \in Addr, b # a
        PROVE  Cardinality(Entries(b))' = Waiting(virt'[b])
    <3>1. Cardinality(Entries(b))' = Cardinality(Entries(b))
      BY <2>1, EntryCounts
    <3> QED
      BY <2>1, <3>1, BalanceFacts
  <2>2. Cardinality(Entries(a))' = Waiting(virt'[a])
    <3>1. Cardinality(Entries(a)) = Waiting(virt[a])
      BY BalanceFacts
    <3>2. /\ Cardinality(Entries(a)) \in Nat
          /\ Cardinality(Entries(a))' = Cardinality(Entries(a))
                 + (IF addr'[e] = a THEN 1 ELSE 0) - (IF addr[e] = a THEN 1 ELSE 0)
      BY EntryCounts
    <3>3. Waiting(virt'[a]) \in Int /\ Waiting(virt[a]) \in Int
      BY <1>0 DEF Waiting
    <3> QED
      BY <3>1, <3>2, <3>3
  <2> QED
    BY <2>1, <2>2
<1>2. \A b \in Addr : avail'[b] = virt'[b] + Cardinality(Using(b))'
  <2>1. ASSUME NEW b \in Addr, b # a
        PROVE  avail'[b] = virt'[b] + Cardinality(Using(b))'
    <3>1. Cardinality(Using(b))' = Cardinality(Using(b))
      BY <2>1, Counts
    <3> QED
      BY <2>1, <3>1, BalanceFacts
  <2>2. avail'[a] = virt'[a] + Cardinality(Using(a))'
    <3>1. avail[a] = virt[a] + Cardinality(Using(a))
      BY BalanceFacts
    <3>2. Cardinality(Using(a)) \in Nat /\ Cardinality(Using(a))' = Cardinality(Using(a)) + d
      BY Counts
    <3> QED
      BY <1>0, <3>1, <3>2
  <2> QED
    BY <2>1, <2>2
<1>3. /\ Cardinality(Taken) \in Nat
      /\ Cardinality(Taken)' = Cardinality(Taken) + (IF addr'[e] # NULL THEN 1 ELSE 0)
                                                 - (IF addr[e] # NULL THEN 1 ELSE 0)
  BY EntryCounts
<1>4. Cardinality(Inside) \in Nat /\ Cardinality(Inside)' = Cardinality(Inside) + d
  BY Counts
<1>5. /\ Sum(waiting) \in Int /\ Sum(spare) \in Int /\ Sum(avail) \in Int
      /\ Sum(waiting)' = Sum(waiting) + Waiting(virt'[a]) - Waiting(virt[a])
      /\ Sum(spare)' = Sum(spare) + Spare(virt'[a]) - Spare(virt[a])
      /\ Sum(avail)' = Sum(avail) + avail'[a] - avail[a]
  BY <1>0, SumCounts
<1>6. /\ Spare(virt[a]) - Waiting(virt[a]) = virt[a]
      /\ Spare(virt'[a]) - Waiting(virt'[a]) = virt'[a]
      /\ Spare(virt[a]) \in Int /\ Spare(virt'[a]) \in Int
      /\ Waiting(virt[a]) \in Int /\ Waiting(virt'[a]) \in Int
  BY <1>0 DEF Spare, Waiting
<1>7. Sum(waiting)' = Cardinality(Taken)'
  BY <1>3, <1>5, <1>6, BalanceFacts
<1>8. Sum(avail)' = Sum(spare)' - Cardinality(Taken)' + Cardinality(Inside)'
  BY <1>0, <1>3, <1>4, <1>5, <1>6, BalanceFacts
<1> QED
  BY <1>1, <1>2, <1>7, <1>8 DEF Balance, EntriesCount

LEMMA BalanceKept ==
    ASSUME Balance, NEW t \in TProc, Moves(t), UNCHANGED <<virt, addr, avail>>,
           pc'[t] \in {"wait", "waited"} <=> pc[t] \in {"wait", "waited"},
           pc[t] \in {"wait", "waited"} => arg'[t] = arg[t]
    PROVE  Balance'
<1>1. /\ \A a : Entries(a)' = Entries(a)
      /\ Taken' = Taken /\ waiting' = waiting /\ spare' = spare /\ avail' = avail
  BY DEF Entries, Taken, waiting, spare
<1>2. Inside' = Inside
  BY DEF Inside, Moves
<1>3. \A a : Using(a)' = Using(a)
  BY DEF Using, Moves
<1>4. /\ Sum(waiting)' = Cardinality(Taken)'
      /\ Sum(avail)' = Sum(spare)' - Cardinality(Taken)' + Cardinality(Inside)'
  BY <1>1, <1>2, BalanceFacts
<1>5. \A a \in Addr : Cardinality(Entries(a))' = Waiting(virt'[a])
  BY <1>1, BalanceFacts
<1>6. \A a \in Addr : avail'[a] = virt'[a] + Cardinality(Using(a))'
  BY <1>1, <1>3, BalanceFacts
<1> QED
  BY <1>4, <1>5, <1>6 DEF Balance, EntriesCount

LEMMA BalanceNext ==
    ASSUME Fields, Balance, [Next]_vars
    PROVE  Balance'
<1>0. virt \in [Addr -> Int] /\ avail \in [Addr -> Int] /\ arg \in [TProc -> Argument]
  BY DEF Fields
<1>1. ASSUME NEW t \in TProc, P_Pass(t) \/ V_Raise(t)
      PROVE  Balance'
  <2>1. Quiet(t)
    BY <1>1 DEF Quiet
  <2>2. /\ Fields' /\ Moves(t) /\ pc[t] \notin Busy /\ pc'[t] \notin Busy /\ addr' = addr
    BY <2>1, QuietStep
  <2> DEFINE a == arg[t]
  <2>3. a \in Addr /\ 1 \in Entry
    BY <1>0, <1>1, SomeEntry DEF P_Pass, V_Raise
  <2>4. \/ /\ virt[a] > 0 /\ virt' = [virt EXCEPT ![a] = @ - 1]
           /\ avail' = [avail EXCEPT ![a] = @ - 1]
        \/ /\ virt[a] >= 0 /\ virt' = [virt EXCEPT ![a] = @ + 1]
           /\ avail' = [avail EXCEPT ![a] = @ + 1]
    BY <1>1 DEF P_Pass, V_Raise
  <2> HIDE DEF a
  <2>5. /\ \A b \in Addr : b # a => virt'[b] = virt[b] /\ avail'[b] = avail[b]
        /\ avail'[a] = avail[a] + (virt'[a] - virt[a]) + 0
        /\ virt[a] \in Nat /\ virt'[a] \in Nat
    BY <2>3, <2>4, <1>0
  <2>6. Waiting(virt'[a]) - Waiting(virt[a])
           = (IF addr'[1] # NULL THEN 1 ELSE 0) - (IF addr[1] # NULL THEN 1 ELSE 0)
    BY <2>2, <2>5 DEF Waiting
  <2> QED
    BY <2>2, <2>3, <2>5, <2>6, BalanceStep DEF Busy
<1>2. ASSUME NEW t \in TProc, Quiet(t), ~P_Pass(t), ~V_Raise(t)
      PROVE  Balance'
  <2>1. Moves(t) /\ pc[t] \notin Busy /\ pc'[t] \notin Busy
    BY <1>2, QuietStep
  <2>2. UNCHANGED <<virt, addr, avail>>
    BY <1>2 DEF Quiet, Enter, Refuse, Trap, P_Take, V_Give
  <2> QED
    BY <2>1, <2>2, BalanceKept DEF Busy
<1>3. ASSUME NEW t \in TProc, P_Take(t), Entries(NULL) # {}
      PROVE  Balance'
  <2> DEFINE a == arg[t]
  <2>1. PICK e \in Entry :
             /\ Fields' /\ Moves(t)
             /\ pc[t] = "P" /\ pc'[t] = "wait"
             /\ a \in Addr /\ arg' = arg /\ addr[e] = NULL /\ addr'[e] = a
             /\ \A f \in Entry : f # e => addr'[f] = addr[f]
             /\ avail' = avail
             /\ virt[a] <= 0 /\ virt' = [virt EXCEPT ![a] = @ - 1]
    BY <1>3, TakeStep
  <2>2. arg'[t] = a
    BY <2>1
  <2> HIDE DEF a
  <2>3. /\ \A b \in Addr : b # a => virt'[b] = virt[b] /\ avail'[b] = avail[b]
        /\ avail'[a] = avail[a] + (virt'[a] - virt[a]) + 1
        /\ virt[a] \in Int /\ virt'[a] = virt[a] - 1
    BY <2>1, <1>0
  <2>4. Waiting(virt'[a]) - Waiting(virt[a]) = 1
    BY <2>1, <2>3 DEF Waiting
  <2>5. a # NULL
    BY <2>1, VirtualAssumption
  <2>6. Waiting(virt'[a]) - Waiting(virt[a])
           = (IF addr'[e] # NULL THEN 1 ELSE 0) - (IF addr[e] # NULL THEN 1 ELSE 0)
    BY <2>1, <2>4, <2>5
  <2>7. 1 = (IF pc'[t] \in {"wait", "waited"} THEN 1 ELSE 0)
              - (IF pc[t] \in {"wait", "waited"} THEN 1 ELSE 0)
    BY <2>1
  <2>8. pc[t] \notin {"wait", "waited"} /\ addr[e] \in {a, NULL} /\ addr'[e] \in {a, NULL}
    BY <2>1
  <2>9. 1 \in Int /\ Fields' /\ Moves(t) /\ a \in Addr
        /\ \A f \in Entry : f # e => addr'[f] = addr[f]
    BY <2>1
  <2> QED
    BY <2>2, <2>3, <2>6, <2>7, <2>8, <2>9, BalanceStep
<1>4. ASSUME NEW t \in TProc, P_Wait(t)
      PROVE  Balance'
  <2>1. /\ Moves(t) /\ pc[t] = "wait" /\ pc'[t] = "waited"
        /\ UNCHANGED <<virt, addr, arg, avail>>
    BY <1>4, WaitStep
  <2> QED
    BY <2>1, BalanceKept
<1>5. ASSUME NEW t \in TProc, P_Return(t)
      PROVE  Balance'
  <2> DEFINE a == arg[t]
  <2>1. /\ Fields' /\ Moves(t) /\ pc[t] = "waited" /\ pc'[t] = "user" /\ a \in Addr
        /\ avail' = [avail EXCEPT ![a] = @ - 1] /\ UNCHANGED <<virt, addr>> /\ a = arg[t]
    BY <1>5, ReturnStep
  <2>2. 1 \in Entry
    BY SomeEntry
  <2> HIDE DEF a
  <2>3. /\ \A b \in Addr : b # a => virt'[b] = virt[b] /\ avail'[b] = avail[b]
        /\ avail'[a] = avail[a] + (virt'[a] - virt[a]) + (-1)
        /\ virt[a] \in Int /\ virt'[a] = virt[a]
    BY <2>1, <1>0
  <2>4. Waiting(virt'[a]) - Waiting(virt[a])
           = (IF addr'[1] # NULL THEN 1 ELSE 0) - (IF addr[1] # NULL THEN 1 ELSE 0)
    BY <2>1, <2>3 DEF Waiting
  <2>5. -1 \in Int
    OBVIOUS
  <2> QED
    BY <2>1, <2>2, <2>3, <2>4, <2>5, BalanceStep
<1>6. ASSUME NEW t \in TProc, V_Give(t), Entries(arg[t]) # {}
      PROVE  Balance'
  <2> DEFINE a == arg[t]
  <2>1. PICK e \in Entry :
             /\ Fields' /\ Moves(t)
             /\ pc[t] = "V" /\ pc'[t] = "wake"
             /\ a \in Addr /\ addr[e] = a /\ addr'[e] = NULL
             /\ \A f \in Entry : f # e => addr'[f] = addr[f]
             /\ virt[a] < 0 /\ virt' = [virt EXCEPT ![a] = @ + 1]
             /\ avail' = [avail EXCEPT ![a] = @ + 1]
    BY <1>6, GiveStep
  <2> HIDE DEF a
  <2>3. /\ \A b \in Addr : b # a => virt'[b] = virt[b] /\ avail'[b] = avail[b]
        /\ avail'[a] = avail[a] + (virt'[a] - virt[a]) + 0
        /\ virt[a] \in Int /\ virt'[a] = virt[a] + 1
    BY <2>1, <1>0
  <2>4. Waiting(virt'[a]) - Waiting(virt[a]) = -1
    BY <2>1, <2>3 DEF Waiting
  <2>5. a # NULL
    BY <2>1, VirtualAssumption
  <2> QED
    BY <2>1, <2>3, <2>4, <2>5, BalanceStep
<1>7. ASSUME NEW t \in TProc, V_Wake(t)
      PROVE  Balance'
  <2>1. /\ Moves(t) /\ pc[t] = "wake" /\ pc'[t] = "user"
        /\ UNCHANGED <<virt, addr, avail>>
    BY <1>7, WakeStep
  <2> QED
    BY <2>1, BalanceKept
<1>8. CASE UNCHANGED vars
  BY <1>8 DEF vars, Balance, EntriesCount, Entries, Taken, Inside, Using, waiting, spare
<1> QED
  BY <1>1, <1>2, <1>3, <1>4, <1>5, <1>6, <1>7, <1>8, Kinds

----------------------------------------------------------------------------
(***************************************************************************)
(* The process an entry was taken for.                                     *)
(***************************************************************************)
LEMMA LastFacts ==
    ASSUME NEW X, NEW q \in Seq(X)
    PROVE  /\ \A x \in X : Last(Append(q, x)) = x
           /\ Len(q) > 0 => Last(q) \in ToSet(q)
           /\ Len(q) > 1 => Last(Tail(q)) = Last(q)
<1>1. \A x \in X : Last(Append(q, x)) = x
  BY DEF Last
<1>2. Len(q) > 0 => Len(q) \in 1..Len(q)
  OBVIOUS
<1>3. Len(q) > 0 => Last(q) \in ToSet(q)
  BY <1>2 DEF Last, ToSet
<1>4. ASSUME Len(q) > 1
      PROVE  Last(Tail(q)) = Last(q)
  <2>1. Len(Tail(q)) = Len(q) - 1 /\ \A i \in 1..(Len(q) - 1) : Tail(q)[i] = q[i + 1]
    BY <1>4
  <2>2. Len(q) - 1 \in 1..(Len(q) - 1) /\ (Len(q) - 1) + 1 = Len(q)
    BY <1>4
  <2>3. Tail(q)[Len(q) - 1] = q[Len(q)]
    BY <2>1, <2>2
  <2> QED
    BY <2>1, <2>3 DEF Last
<1> QED
  BY <1>1, <1>3, <1>4

\* The last process in the queue of entry e is one that waits there.
LEMMA LastWaits ==
    ASSUME SemOK, NEW e \in Entry, sem[e].val < 0
    PROVE  /\ sem[e].q \in Seq(TProc) /\ Len(sem[e].q) + sem[e].val = 0
           /\ Waits(sem, e, Last(sem[e].q))
           /\ Last(sem[e].q) \in TProc
           /\ \A t : Ready(sem, t) => t # Last(sem[e].q)
<1>1. e \in Who /\ Counted(sem, Who, TProc)
  BY WhoFacts DEF SemOK
<1>2. sem[e].q \in Seq(TProc) /\ sem[e].val \in Int
  BY <1>1, CountedFacts
<1>3. Len(sem[e].q) + sem[e].val = 0
  <2>1. Len(sem[e].q) = -sem[e].val
    BY <1>1 DEF Counted
  <2> QED
    BY <1>2, <2>1
<1>4. Last(sem[e].q) \in ToSet(sem[e].q)
  BY <1>2, <1>3, LastFacts
<1>5. Waits(sem, e, Last(sem[e].q))
  BY <1>4 DEF Waits
<1> QED
  BY <1>1, <1>2, <1>3, <1>5, CountedFacts

LEMMA ClaimedKept ==
    ASSUME SemOK, NEW t \in TProc, Ready(sem, t), Moves(t), NEW e \in Entry, Claimed(e),
           addr'[e] = addr[e], sem'[e] = sem[e],
           ~(pc[t] = "wait" /\ entry[t] = e), ~(pc'[t] = "wait" /\ entry'[t] = e)
    PROVE  Claimed(e)'
<1>1. Coming(e)' = Coming(e) /\ t \notin Coming(e)
  BY DEF Coming, Moves
<1>2. CASE \E u \in Coming(e) : arg[u] = addr[e]
  <2>1. PICK u \in Coming(e) : arg[u] = addr[e]
    BY <1>2
  <2>2. u \in TProc /\ u # t
    BY <1>1 DEF Coming
  <2> QED
    BY <1>1, <2>1, <2>2 DEF Claimed, Moves
<1>3. CASE Coming(e) = {} /\ sem[e].val < 0 /\ arg[Last(sem[e].q)] = addr[e]
  <2>1. Last(sem[e].q) \in TProc /\ Last(sem[e].q) # t
    BY <1>3, LastWaits
  <2>2. arg'[Last(sem[e].q)] = arg[Last(sem[e].q)]
    BY <2>1 DEF Moves
  <2> QED
    BY <1>1, <1>3, <2>2 DEF Claimed
<1> QED
  BY <1>2, <1>3 DEF Claimed

\* A process waits on the entry it took.
LEMMA ClaimedWait ==
    ASSUME Fields, SemOK, SemOK', NEW t \in TProc, P_Wait(t), ~overtaken',
           addr[entry[t]] # NULL, Claimed(entry[t])
    PROVE  \A e : e = entry[t] => Claimed(e)'
<1> SUFFICES ASSUME NEW e, e = entry[t] PROVE Claimed(e)'
  OBVIOUS
<1>1. /\ Moves(t) /\ pc[t] = "wait" /\ pc'[t] = "waited" /\ e \in Entry
      /\ sem' = P(sem, e, t) /\ UNCHANGED <<addr, arg, entry>> /\ Ready(sem, t)
  BY WaitStep
<1>2. \A u \in Coming(e) : u \in TProc /\ arg[u] = arg[t]
  <2>1. overtaken' = (overtaken \/ \E u \in TProc : /\ pc[u] = "wait"
                                                     /\ entry[u] = entry[t]
                                                     /\ arg[u] # arg[t])
    BY WaitStep
  <2>2. ~(\E u \in TProc : pc[u] = "wait" /\ entry[u] = entry[t] /\ arg[u] # arg[t])
    BY <2>1
  <2> QED
    BY <2>2 DEF Coming
<1>3. t \in Coming(e)
  BY <1>1 DEF Coming
<1>4. arg[t] = addr[e]
  BY <1>2, <1>3 DEF Claimed
<1>5. CASE Coming(e)' # {}
  <2>1. PICK u : u \in Coming(e)'
    BY <1>5
  <2>2. u \in Coming(e)
    BY <1>1, <2>1 DEF Coming, Moves
  <2>3. arg'[u] = addr'[e]
    BY <1>1, <1>2, <1>4, <2>2
  <2> QED
    BY <2>1, <2>3 DEF Claimed
<1>6. CASE Coming(e)' = {}
  <2>1. /\ sem'[e].val \in Int
        /\ sem'[e].val = Cardinality(Coming(e))' - Cardinality(Waking(e))'
                            - (IF addr'[e] # NULL THEN 1 ELSE 0)
    <3>1. Counted(sem', Who, TProc) /\ e \in Who
      BY <1>1, WhoFacts DEF SemOK
    <3>2. sem'[e].val \in Int
      BY <3>1, CountedFacts
    <3> QED
      BY <1>1, <3>2 DEF SemOK, Taken
  <2>2. Cardinality(Coming(e))' = 0
    BY <1>6, FS_EmptySet
  <2>3. Cardinality(Waking(e)) \in Nat /\ Cardinality(Waking(e))' = Cardinality(Waking(e))
    BY <1>1, Counts
  <2>4. sem'[e].val < 0
    BY <1>1, <2>1, <2>2, <2>3
  <2>5. sem'[e].val = sem[e].val - 1 /\ sem'[e].q = Append(sem[e].q, t)
    <3>1. Counted(sem, Who, TProc) /\ e \in Who
      BY <1>1, WhoFacts DEF SemOK
    <3>2. sem \in [Who -> [val : Int, q : Seq(TProc)]]
      BY <3>1 DEF Counted
    <3>3. /\ sem'[e].val = sem[e].val - 1
          /\ sem'[e].q = IF sem[e].val - 1 < 0 THEN Append(sem[e].q, t) ELSE sem[e].q
      BY <1>1, <3>1, <3>2 DEF P
    <3> QED
      BY <2>4, <3>3
  <2>6. sem[e].q \in Seq(TProc)
    BY <1>1, WhoFacts, CountedFacts DEF SemOK
  <2>7. Last(sem'[e].q) = t
    BY <2>5, <2>6, LastFacts
  <2> QED
    BY <1>1, <1>4, <1>6, <2>4, <2>7 DEF Claimed
<1> QED
  BY <1>5, <1>6

\* A process is woken on entry e, which somebody else has taken meanwhile.
LEMMA ClaimedWake ==
    ASSUME Fields, SemOK, SemOK', NEW t \in TProc, V_Wake(t),
           addr[entry[t]] # NULL, Claimed(entry[t])
    PROVE  \A e : e = entry[t] => Claimed(e)'
<1> SUFFICES ASSUME NEW e, e = entry[t] PROVE Claimed(e)'
  OBVIOUS
<1>1. /\ Moves(t) /\ pc[t] = "wake" /\ pc'[t] = "user" /\ e \in Entry
      /\ sem' = V(sem, e) /\ addr' = addr /\ Ready(sem, t)
  BY WakeStep
<1>2. Coming(e)' = Coming(e) /\ t \notin Coming(e)
  BY <1>1 DEF Coming, Moves
<1>3. CASE \E u \in Coming(e) : arg[u] = addr[e]
  <2>1. PICK u \in Coming(e) : arg[u] = addr[e]
    BY <1>3
  <2>2. u \in TProc /\ u # t
    BY <1>2 DEF Coming
  <2> QED
    BY <1>1, <1>2, <2>1, <2>2 DEF Claimed, Moves
<1>4. CASE Coming(e) = {} /\ sem[e].val < 0 /\ arg[Last(sem[e].q)] = addr[e]
  <2>1. /\ sem'[e].val \in Int
        /\ sem'[e].val = Cardinality(Coming(e))' - Cardinality(Waking(e))'
                            - (IF addr'[e] # NULL THEN 1 ELSE 0)
    <3>1. Counted(sem', Who, TProc) /\ e \in Who
      BY <1>1, WhoFacts DEF SemOK
    <3>2. sem'[e].val \in Int
      BY <3>1, CountedFacts
    <3> QED
      BY <1>1, <3>2 DEF SemOK, Taken
  <2>2. Cardinality(Coming(e))' = 0
    BY <1>2, <1>4, FS_EmptySet
  <2>3. Cardinality(Waking(e))' \in Nat
    <3>1. /\ Cardinality(Waking(e)) \in Nat
          /\ Cardinality(Waking(e))' = Cardinality(Waking(e)) - 1
      BY <1>1, Counts
    <3>2. t \in Waking(e)
      BY <1>1 DEF Waking
    <3>3. Cardinality(Waking(e)) # 0
      BY <3>2, Finite, FS_EmptySet
    <3> QED
      BY <3>1, <3>3
  <2>4. sem'[e].val < 0
    BY <1>1, <2>1, <2>2, <2>3
  <2>5. sem'[e].val = sem[e].val + 1 /\ sem'[e].q = Tail(sem[e].q) /\ sem[e].val \in Int
    <3>1. Counted(sem, Who, TProc) /\ e \in Who
      BY <1>1, WhoFacts DEF SemOK
    <3>2. sem \in [Who -> [val : Int, q : Seq(TProc)]]
      BY <3>1 DEF Counted
    <3>3. /\ sem'[e].val = sem[e].val + 1
          /\ sem'[e].q = IF sem[e].val < 0 THEN Tail(sem[e].q) ELSE sem[e].q
      BY <1>1, <3>1, <3>2 DEF V
    <3> QED
      BY <1>4, <3>1, <3>2, <3>3
  <2>6. /\ sem[e].q \in Seq(TProc) /\ Len(sem[e].q) > 1
        /\ Last(sem[e].q) \in TProc /\ Last(sem[e].q) # t
    BY <1>1, <1>4, <2>4, <2>5, LastWaits
  <2>7. Last(sem'[e].q) = Last(sem[e].q)
    BY <2>5, <2>6, LastFacts
  <2>8. arg'[Last(sem[e].q)] = arg[Last(sem[e].q)]
    BY <1>1, <2>6 DEF Moves
  <2> QED
    BY <1>1, <1>2, <1>4, <2>4, <2>7, <2>8 DEF Claimed
<1> QED
  BY <1>3, <1>4 DEF Claimed

LEMMA ClaimsNext ==
    ASSUME Fields, SemOK, SemOK', Claims, [Next]_vars
    PROVE  Claims'
<1> SUFFICES ASSUME ~overtaken', NEW e \in Taken'
             PROVE  Claimed(e)'
  BY DEF Claims
<1>0. e \in Entry /\ addr'[e] # NULL
  BY DEF Taken
<1>b. ASSUME sem' = V(sem, protected_sem)
      PROVE  sem'[e] = sem[e]
  BY <1>b, <1>0, WhoFacts, VStep DEF SemOK
<1>c. ASSUME ~overtaken, addr[e] # NULL
      PROVE  Claimed(e)
  BY <1>0, <1>c DEF Claims, Taken
<1>1. ASSUME NEW t \in TProc, Quiet(t)
      PROVE  Claimed(e)'
  <2>1. /\ Moves(t) /\ Ready(sem, t) /\ pc[t] \notin Busy /\ pc'[t] \notin Busy
        /\ addr' = addr /\ overtaken' = overtaken
    BY <1>1, QuietStep
  <2>2. sem'[e] = sem[e]
    <3>1. CASE sem' = P(sem, protected_sem, t)
      BY <3>1, <2>1, <1>0, WhoFacts, PStep DEF SemOK
    <3> QED
      BY <1>1, <1>b, <3>1, QuietStep
  <2>3. ~overtaken /\ addr[e] # NULL
    BY <2>1, <1>0
  <2> QED
    BY <1>0, <1>c, <2>1, <2>2, <2>3, ClaimedKept DEF Busy
<1>2. ASSUME NEW t \in TProc, P_Take(t), Entries(NULL) # {}
      PROVE  Claimed(e)'
  <2>1. PICK f \in Entry :
             /\ Moves(t) /\ Ready(sem, t)
             /\ pc[t] = "P" /\ pc'[t] = "wait" /\ entry'[t] = f
             /\ arg' = arg /\ addr'[f] = arg[t]
             /\ \A g \in Entry : g # f => addr'[g] = addr[g]
             /\ sem' = V(sem, protected_sem) /\ overtaken' = overtaken
    BY <1>2, TakeStep
  <2>2. CASE e = f
    <3>1. t \in Coming(e)' /\ arg'[t] = addr'[e]
      BY <2>1, <2>2 DEF Coming
    <3> QED
      BY <3>1 DEF Claimed
  <2>3. CASE e # f
    <3>1. ~overtaken /\ addr'[e] = addr[e] /\ addr[e] # NULL
      BY <2>1, <2>3, <1>0
    <3> QED
      BY <1>0, <1>b, <1>c, <2>1, <2>3, <3>1, ClaimedKept
  <2> QED
    BY <2>2, <2>3
<1>3. ASSUME NEW t \in TProc, P_Wait(t)
      PROVE  Claimed(e)'
  <2>1. /\ Moves(t) /\ Ready(sem, t) /\ pc[t] = "wait" /\ pc'[t] = "waited"
        /\ entry[t] \in Entry /\ sem' = P(sem, entry[t], t) /\ UNCHANGED <<addr, entry>>
    BY <1>3, WaitStep
  <2>2. ~overtaken
    <3>1. overtaken' = (overtaken \/ \E u \in TProc : /\ pc[u] = "wait"
                                                       /\ entry[u] = entry[t]
                                                       /\ arg[u] # arg[t])
      BY <1>3, WaitStep
    <3> QED
      BY <3>1
  <2>3. Claimed(e) /\ addr[e] # NULL
    BY <1>0, <1>c, <2>1, <2>2
  <2>4. CASE e = entry[t]
    BY <1>3, <2>3, <2>4, ClaimedWait
  <2>5. CASE e # entry[t]
    <3>1. sem'[e] = sem[e]
      BY <2>1, <2>5, <1>0, WhoFacts, PStep DEF SemOK
    <3> QED
      BY <1>0, <2>1, <2>3, <2>5, <3>1, ClaimedKept
  <2> QED
    BY <2>4, <2>5
<1>4. ASSUME NEW t \in TProc, P_Return(t)
      PROVE  Claimed(e)'
  <2>1. /\ Moves(t) /\ Ready(sem, t) /\ pc[t] = "waited" /\ pc'[t] = "user"
        /\ UNCHANGED <<addr, sem, overtaken>>
    BY <1>4, ReturnStep
  <2>2. Claimed(e)
    BY <1>0, <1>c, <2>1
  <2> QED
    BY <1>0, <2>1, <2>2, ClaimedKept
<1>5. ASSUME NEW t \in TProc, V_Give(t), Entries(arg[t]) # {}
      PROVE  Claimed(e)'
  <2>1. PICK f \in Entry :
             /\ Moves(t) /\ Ready(sem, t)
             /\ pc[t] = "V" /\ pc'[t] = "wake" /\ addr'[f] = NULL
             /\ \A g \in Entry : g # f => addr'[g] = addr[g]
             /\ sem' = V(sem, protected_sem) /\ overtaken' = overtaken
    BY <1>5, GiveStep
  <2>2. e # f
    BY <1>0, <2>1
  <2>3. ~overtaken /\ addr'[e] = addr[e] /\ addr[e] # NULL
    BY <2>1, <2>2, <1>0
  <2> QED
    BY <1>0, <1>b, <1>c, <2>1, <2>3, ClaimedKept
<1>6. ASSUME NEW t \in TProc, V_Wake(t)
      PROVE  Claimed(e)'
  <2>1. /\ Moves(t) /\ Ready(sem, t) /\ pc[t] = "wake" /\ pc'[t] = "user"
        /\ entry[t] \in Entry /\ sem' = V(sem, entry[t]) /\ UNCHANGED <<addr, overtaken>>
    BY <1>6, WakeStep
  <2>2. Claimed(e) /\ addr[e] # NULL
    BY <1>0, <1>c, <2>1
  <2>3. CASE e = entry[t]
    BY <1>6, <2>2, <2>3, ClaimedWake
  <2>4. CASE e # entry[t]
    <3>1. sem'[e] = sem[e]
      BY <2>1, <2>4, <1>0, WhoFacts, VStep DEF SemOK
    <3> QED
      BY <1>0, <2>1, <2>2, <3>1, ClaimedKept
  <2> QED
    BY <2>3, <2>4
<1>7. CASE UNCHANGED vars
  <2>1. Claimed(e)
    BY <1>0, <1>c, <1>7 DEF vars
  <2> QED
    BY <1>7, <2>1 DEF vars, Claimed, Coming
<1> QED
  BY <1>1, <1>2, <1>3, <1>4, <1>5, <1>6, <1>7, Kinds

----------------------------------------------------------------------------
(***************************************************************************)
(* The invariant.                                                          *)
(***************************************************************************)
LEMMA VirtInit == Init => VirtInv
<1> SUFFICES ASSUME Init PROVE VirtInv
  OBVIOUS
<1> USE VirtualAssumption DEF Init
<1>1. sem \in [Who -> [val : Nat, q : {<<>>}]]
  BY DEF Semaphore, Who
<1>2. Counted(sem, Who, TProc)
  BY <1>1, CountedInit
<1>3. \A s \in Who : sem[s].val = IF s = protected_sem THEN 1 ELSE 0
  BY DEF Semaphore, Who
<1>4. \A s \in Who : \A t : ~Waits(sem, s, t)
  <2>1. \A s \in Who : \A t : Waits(sem, s, t) => sem[s].val < 0
    BY <1>2, CountedFacts
  <2> QED
    BY <1>3, <2>1
<1>5. /\ \A e : Coming(e) = {} /\ Waking(e) = {}
      /\ Inside = {} /\ \A a : Using(a) = {}
      /\ Taken = {} /\ \A a \in Addr : Entries(a) = {}
  BY DEF Coming, Waking, Inside, Using, Taken, Entries
<1>6. Cardinality({}) = 0
  BY FS_EmptySet
<1>7. SemOK
  <2>1. \A e \in Entry : sem[e].val = 0 /\ e \in Who
    BY <1>3, WhoFacts
  <2>2. \A e \in Entry : /\ Cardinality(Coming(e)) = 0 /\ Cardinality(Waking(e)) = 0
                         /\ e \notin Taken
    BY <1>5, <1>6
  <2>3. protected_sem \in Who
    BY WhoFacts
  <2> HIDE DEF Init
  <2> QED
    BY <1>2, <1>4, <2>1, <2>2, <2>3 DEF SemOK
<1>8. Fields
  <2>1. \A t \in TProc : 1 \in Entry
    BY SomeEntry
  <2> QED
    BY <2>1 DEF Fields, Argument
<1>9. /\ waiting \in [Addr -> Nat] /\ spare \in [Addr -> Nat] /\ avail \in [Addr -> Nat]
      /\ \A a \in Addr : waiting[a] = 0 /\ spare[a] = 0 /\ avail[a] = 0 /\ virt[a] = 0
  BY DEF waiting, spare, Waiting, Spare
<1>10. Sum(waiting) = 0 /\ Sum(spare) = 0 /\ Sum(avail) = 0
  BY <1>9, SumNat
<1>11. Balance
  <2>1. EntriesCount
    <3> HIDE VirtualAssumption DEF Init
    <3>1. \A a \in Addr : Cardinality(Entries(a)) = 0
      BY <1>5, <1>6
    <3>2. \A a \in Addr : Waiting(virt[a]) = 0
      BY <1>9 DEF Waiting
    <3> QED
      BY <3>1, <3>2 DEF EntriesCount
  <2>2. /\ \A a \in Addr : Cardinality(Using(a)) = 0
        /\ Cardinality(Taken) = 0 /\ Cardinality(Inside) = 0
    BY <1>5, <1>6
  <2> HIDE DEF Init
  <2> QED
    BY <2>1, <2>2, <1>9, <1>10 DEF Balance
<1>12. overtaken \in BOOLEAN
  OBVIOUS
<1> QED
  BY <1>5, <1>7, <1>8, <1>11, <1>12, TypeParts DEF VirtInv, Claims

LEMMA FieldsNext ==
    ASSUME Fields, [Next]_vars
    PROVE  Fields'
<1>1. CASE UNCHANGED vars
  BY <1>1 DEF vars, Fields
<1> QED
  BY <1>1, Kinds, QuietStep, TakeStep, WaitStep, ReturnStep, GiveStep, WakeStep

LEMMA OvertakenNext ==
    ASSUME Fields, overtaken \in BOOLEAN, [Next]_vars
    PROVE  overtaken' \in BOOLEAN
<1>1. CASE UNCHANGED vars
  BY <1>1 DEF vars
<1>2. ASSUME NEW t \in TProc, P_Wait(t)
      PROVE  overtaken' \in BOOLEAN
  BY <1>2, Zenon DEF P_Wait
<1>3. ASSUME NEW t \in TProc, ~P_Wait(t),
             \/ Quiet(t) \/ P_Return(t) \/ V_Wake(t)
             \/ P_Take(t) /\ Entries(NULL) # {}
             \/ V_Give(t) /\ Entries(arg[t]) # {}
      PROVE  overtaken' = overtaken
  BY <1>3, QuietStep, TakeStep, ReturnStep, GiveStep, WakeStep
<1>4. CASE Next /\ \A t \in TProc : ~P_Wait(t)
  <2>0. PICK t \in TProc :
             \/ Quiet(t) \/ P_Wait(t) \/ P_Return(t) \/ V_Wake(t)
             \/ P_Take(t) /\ Entries(NULL) # {}
             \/ V_Give(t) /\ Entries(arg[t]) # {}
    BY <1>4, Kinds
  <2>1. overtaken' = overtaken
    BY <1>3, <1>4, <2>0
  <2> QED
    BY <2>1
<1> QED
  BY <1>1, <1>2, <1>4

LEMMA VirtInductive == VirtInv /\ [Next]_vars => VirtInv'
<1> SUFFICES ASSUME VirtInv, [Next]_vars PROVE VirtInv'
  OBVIOUS
<1>1. Fields /\ SemOK /\ Balance /\ Claims /\ overtaken \in BOOLEAN
  BY DEF VirtInv, TypeOK
<1>2. Fields' /\ SemOK' /\ Balance'
  BY <1>1, FieldsNext, SemNext, BalanceNext
<1>3. Claims'
  BY <1>1, <1>2, ClaimsNext
<1>4. overtaken' \in BOOLEAN
  BY <1>1, OvertakenNext
<1>5. TypeOK'
  BY <1>2, <1>4 DEF TypeOK, Fields, SemOK, Counted, Who
<1> QED
  BY <1>2, <1>3, <1>5 DEF VirtInv

\* The invariant holds throughout.
LEMMA VirtInvariant == Spec => []VirtInv
<1>1. Init => VirtInv
  BY VirtInit
<1>2. VirtInv /\ [Next]_vars => VirtInv'
  BY VirtInductive
<1> QED
  BY <1>1, <1>2, PTL DEF Spec

----------------------------------------------------------------------------
(***************************************************************************)
(* The theorems.                                                           *)
(***************************************************************************)

\* Entries with a process of their own are no more than the processes.
LEMMA Injects ==
    ASSUME NEW S, NEW R, IsFiniteSet(R), \A e \in S : \E t \in R : entry[t] = e
    PROVE  Cardinality(S) <= Cardinality(R)
<1> DEFINE f == [e \in S |-> CHOOSE t \in R : entry[t] = e]
<1>1. \A e \in S : f[e] \in R /\ entry[f[e]] = e
  OBVIOUS
<1>2. f \in [S -> R]
  BY <1>1
<1> HIDE DEF f
<1>3. f \in Injection(S, R)
  BY <1>1, <1>2 DEF Injection, IsInjective
<1> QED
  BY <1>3, FS_Injection

\* A process that waits on entry e, or comes to it, for every entry taken.
LEMMA TakenHas ==
    ASSUME SemOK, NEW e \in Taken
    PROVE  Coming(e) # {} \/ \E t \in TProc : Waits(sem, e, t)
<1>1. e \in Entry /\ addr[e] # NULL
  BY DEF Taken
<1>2. sem[e].val = Cardinality(Coming(e)) - Cardinality(Waking(e)) - 1
  BY <1>1, SemFacts
<1>3. /\ Cardinality(Waking(e)) \in Nat
      /\ Coming(e) = {} => Cardinality(Coming(e)) = 0
  BY Finite, FS_CardinalityType, FS_EmptySet
<1>4. CASE Coming(e) = {}
  <2>1. sem[e].val < 0
    BY <1>2, <1>3, <1>4
  <2> QED
    BY <1>1, <2>1, LastWaits
<1> QED
  BY <1>4

LEMMA TakenBound ==
    ASSUME SemOK
    PROVE  Cardinality(Taken) <= Cardinality(Inside)
<1>1. ASSUME NEW e \in Taken
      PROVE  \E t \in Inside : entry[t] = e
  <2>1. e \in Entry
    BY DEF Taken
  <2>2. CASE Coming(e) # {}
    BY <2>2 DEF Coming, Inside
  <2>3. CASE \E t \in TProc : Waits(sem, e, t)
    BY <2>1, <2>3 DEF SemOK, Inside
  <2> QED
    BY <1>1, <2>2, <2>3, TakenHas
<1> QED
  BY <1>1, Finite, Injects

\* The variables of SYS11 and SYS12 keep their types; an entry a handler uses
\* is one of vs_arr.
THEOREM VirtualTypes == Spec => []TypeOK
<1>1. VirtInv => TypeOK
  BY DEF VirtInv
<1> QED
  BY <1>1, VirtInvariant, PTL

\* A negative value counts the entries of vs_arr taken for its address: the
\* loop of V over vs_arr finds one.
THEOREM EntriesCounted == Spec => []EntriesCount
<1>1. VirtInv => EntriesCount
  BY DEF VirtInv, Balance
<1> QED
  BY <1>1, VirtInvariant, PTL

\* The loop of P over vs_arr finds a free entry, when there are as many entries
\* as T-processes: the handler never returns with protected_sem.
THEOREM EntryFree == Spec => [](\A t \in TProc : pc[t] = "P" => Entries(NULL) # {})
<1>1. ASSUME VirtInv, NEW t \in TProc, pc[t] = "P"
      PROVE  Entries(NULL) # {}
  <2>1. Cardinality(Taken) <= Cardinality(Inside)
    BY <1>1, TakenBound DEF VirtInv
  <2>2. IsFiniteSet(TProc \ {t}) /\ Cardinality(TProc \ {t}) = Cardinality(TProc) - 1
    BY VirtualAssumption, FS_RemoveElement
  <2>3. Inside \in SUBSET (TProc \ {t})
    BY <1>1 DEF Inside
  <2>4. Cardinality(Inside) <= Cardinality(TProc) - 1
    BY <2>2, <2>3, FS_Subset
  <2>5. /\ Cardinality(Inside) \in Nat /\ Cardinality(Taken) \in Nat
        /\ Cardinality(TProc) \in Nat
    BY Finite, VirtualAssumption, FS_CardinalityType
  <2>6. Cardinality(Taken) < VS
    BY <2>1, <2>4, <2>5, VirtualAssumption
  <2>7. Cardinality(Entry) = VS
    <3>1. Cardinality(1..VS) = IF 1 > VS THEN 0 ELSE VS - 1 + 1
      BY VirtualAssumption, FS_Interval
    <3> QED
      BY <3>1, VirtualAssumption DEF Entry
  <2>8. Taken # Entry
    BY <2>5, <2>6, <2>7, VirtualAssumption
  <2> QED
    BY <2>8 DEF Taken, Entries
<1>2. VirtInv => \A t \in TProc : pc[t] = "P" => Entries(NULL) # {}
  BY <1>1
<1> QED
  BY <1>2, VirtInvariant, PTL

\* No wakeup is lost between vs_arr and the semaphores of its entries.
THEOREM WakeupsKept == Spec => []NoWakeupLost
<1>1. ASSUME VirtInv, \A t \in TProc : pc[t] \notin {"wait", "wake"}
      PROVE  Cardinality({t \in TProc : pc[t] = "waited" /\ ~Ready(sem, t)})
                 = Sum([a \in Addr |-> Waiting(virt[a])])
  <2> DEFINE B == {t \in TProc : pc[t] = "waited" /\ ~Ready(sem, t)}
  <2>0. SemOK /\ Counted(sem, Who, TProc) /\ Sum(waiting) = Cardinality(Taken)
    BY <1>1 DEF VirtInv, SemOK, Balance
  <2>1. /\ \A e : Coming(e) = {} /\ Waking(e) = {}
    BY <1>1 DEF Coming, Waking
  <2>2. \A e \in Entry : sem[e].val = IF addr[e] # NULL THEN -1 ELSE 0
    <3>1. Cardinality({}) = 0
      BY FS_EmptySet
    <3>2. \A e : Cardinality(Coming(e)) = 0 /\ Cardinality(Waking(e)) = 0
      BY <2>1, <3>1
    <3>3. \A e \in Entry : sem[e].val = Cardinality(Coming(e)) - Cardinality(Waking(e))
                                          - (IF addr[e] # NULL THEN 1 ELSE 0)
      BY <2>0, SemFacts
    <3> QED
      BY <3>2, <3>3
  <2>3. IsFiniteSet(B)
    <3>1. B \in SUBSET TProc
      OBVIOUS
    <3> QED
      BY <3>1, VirtualAssumption, FS_Subset
  <2>4. ASSUME NEW t \in B
        PROVE  entry[t] \in Taken /\ Waits(sem, entry[t], t)
    <3>1. PICK s \in Who : Waits(sem, s, t)
      BY <2>0, CountedFacts
    <3>2. s \in Entry /\ entry[t] = s
      BY <2>0, <3>1, WhoFacts DEF SemOK
    <3>3. sem[s].val < 0
      BY <2>0, <3>1, CountedFacts
    <3> QED
      BY <2>2, <3>1, <3>2, <3>3 DEF Taken
  <2>5. ASSUME NEW e \in Taken
        PROVE  \E t \in B : entry[t] = e
    <3>1. PICK t \in TProc : Waits(sem, e, t)
      BY <2>0, <2>1, TakenHas
    <3>2. e \in Entry /\ e \in Who
      BY WhoFacts DEF Taken
    <3>3. pc[t] = "waited" /\ entry[t] = e /\ ~Ready(sem, t)
      BY <2>0, <3>1, <3>2, CountedFacts DEF SemOK
    <3> QED
      BY <3>3
  <2>6. ASSUME NEW t \in B, NEW u \in B, entry[t] = entry[u]
        PROVE  t = u
    <3> DEFINE q == sem[entry[t]].q
    <3>1. entry[t] \in Entry /\ sem[entry[t]].val = -1
      BY <2>2, <2>4 DEF Taken
    <3>2. q \in Seq(TProc) /\ Len(q) = 1
      <4>1. sem[entry[t]].val < 0
        BY <3>1
      <4>2. q \in Seq(TProc) /\ Len(q) + sem[entry[t]].val = 0
        BY <2>0, <3>1, <4>1, LastWaits
      <4>3. Len(q) \in Nat
        BY <4>2
      <4> QED
        BY <3>1, <4>2, <4>3
    <3>3. t \in ToSet(q) /\ u \in ToSet(q)
      BY <2>4, <2>6 DEF Waits
    <3>4. ToSet(q) = {q[1]}
      <4> HIDE DEF q
      <4> QED
        BY <3>2 DEF ToSet
    <3> QED
      BY <3>3, <3>4
  <2> HIDE DEF B
  <2>7. Cardinality(Taken) <= Cardinality(B)
    BY <2>3, <2>5, Injects
  <2>8. Cardinality(B) <= Cardinality(Taken)
    <3> DEFINE g == [t \in B |-> entry[t]]
    <3>1. g \in [B -> Taken] /\ \A t, u \in B : g[t] = g[u] => t = u
      BY <2>4, <2>6
    <3> HIDE DEF g
    <3>2. g \in Injection(B, Taken)
      BY <3>1 DEF Injection, IsInjective
    <3> QED
      BY <3>2, Finite, FS_Injection
  <2>9. Cardinality(Taken) \in Nat /\ Cardinality(B) \in Nat
    BY <2>3, Finite, FS_CardinalityType
  <2>10. Cardinality(B) = Sum(waiting)
    BY <2>0, <2>7, <2>8, <2>9
  <2> QED
    BY <2>10 DEF B, waiting
<1>2. VirtInv => NoWakeupLost
  BY <1>1 DEF NoWakeupLost
<1> QED
  BY <1>2, VirtInvariant, PTL

\* SYS12 returns no more often than SYS11 was called; and to the callers of
\* each address by itself, as long as nobody is overtaken on an entry.
THEOREM ReturnsMatch == Spec => []OwnSemaphore
<1>1. ASSUME VirtInv
      PROVE  Sum(avail) >= 0
  <2>1. /\ Sum(avail) = Sum(spare) - Cardinality(Taken) + Cardinality(Inside)
        /\ Cardinality(Taken) <= Cardinality(Inside)
    BY <1>1, TakenBound DEF VirtInv, Balance
  <2>2. spare \in [Addr -> Nat]
    BY <1>1 DEF VirtInv, Fields, spare, Spare
  <2>3. Sum(spare) \in Nat
    BY <2>2, Finite, SumNat
  <2>4. Cardinality(Taken) \in Nat /\ Cardinality(Inside) \in Nat
    BY Finite, FS_CardinalityType
  <2> QED
    BY <2>1, <2>3, <2>4
<1>2. ASSUME VirtInv, ~overtaken, NEW a \in Addr
      PROVE  avail[a] >= 0
  <2>1. /\ Cardinality(Entries(a)) = Waiting(virt[a])
        /\ avail[a] = virt[a] + Cardinality(Using(a))
        /\ virt[a] \in Int
    BY <1>2, BalanceFacts DEF VirtInv, Fields
  <2>2. ASSUME NEW e \in Entries(a)
        PROVE  \E t \in Using(a) : entry[t] = e
    <3>1. e \in Entry /\ addr[e] = a /\ e \in Taken
      BY VirtualAssumption DEF Entries, Taken
    <3>2. Claimed(e)
      BY <1>2, <3>1 DEF VirtInv, Claims
    <3>3. CASE \E t \in Coming(e) : arg[t] = addr[e]
      BY <3>1, <3>3 DEF Coming, Using
    <3>4. CASE sem[e].val < 0 /\ arg[Last(sem[e].q)] = addr[e]
      <4>1. Last(sem[e].q) \in TProc /\ Waits(sem, e, Last(sem[e].q))
        BY <1>2, <3>1, <3>4, LastWaits DEF VirtInv
      <4>2. pc[Last(sem[e].q)] = "waited" /\ entry[Last(sem[e].q)] = e
        BY <1>2, <3>1, <4>1 DEF VirtInv, SemOK
      <4> QED
        BY <3>1, <3>4, <4>1, <4>2 DEF Using
    <3> QED
      BY <3>2, <3>3, <3>4 DEF Claimed
  <2>3. Cardinality(Entries(a)) <= Cardinality(Using(a))
    BY <2>2, Finite, Injects
  <2>4. Cardinality(Using(a)) \in Nat
    BY Finite, FS_CardinalityType
  <2> QED
    BY <2>1, <2>3, <2>4 DEF Waiting
<1>3. VirtInv => OwnSemaphore
  BY <1>1, <1>2 DEF OwnSemaphore
<1> QED
  BY <1>3, VirtInvariant, PTL
=============================================================================

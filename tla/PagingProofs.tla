---------------------------- MODULE PagingProofs ----------------------------
(***************************************************************************)
(* Theorems about Paging, for any number of T-processes, pages and frames: *)
(* until one of the races happens that breach records, frames have one     *)
(* owner, sem_pf counts them, and pages keep their content.                *)
(***************************************************************************)
EXTENDS Paging, QueueLemmas, FiniteSetTheorems, TLAPS

Who == 0..N
Sems == {"mm", "pf", "page", "floppy"}
Labels == {"user", "pf", "mm", "got", "in", "reading", "read", "paged", "set", "exit", "gone"}
Bits == [VPage -> BOOLEAN]

\* t has a frame for a page that is not present yet.
Bringing(t) == pc[t] \in {"got", "in", "reading", "read", "paged", "set"}

\* pagedaemon writes out the page in frame i, or has just done so.
Writing == at \in {"write", "written"}

\* Page v is on the floppy disk, or on its way there.
Out(v) == ~pd_p[v] /\ ~pd_r[v]

\* The processes that use the floppy disk or wait for it.
Readers == {t \in TProc : pc[t] = "reading"}
Users == Readers \cup (IF at = "write" THEN {PAGED} ELSE {})

\* sem_floppy, for the users U: one of them does not wait.
FloppyOK(s, U) ==
    /\ s.val <= 1
    /\ U # {} => s.val <= 0
    /\ ToSet(s.q) \subseteq U
    /\ \A p, r \in U : p \notin ToSet(s.q) /\ r \notin ToSet(s.q) => p = r

SemOK ==
    /\ Counted(sem, Sems, Who)
    /\ \A p : Waits(sem, "pf", p) => p \in TProc /\ pc[p] = "pf"
    /\ FloppyOK(sem["floppy"], Users)

\* FreeCount: the processes that have been promised a frame.
Asking == {t \in TProc : pc[t] \in {"pf", "mm"}}
Count == sem["pf"].val = Cardinality(Unused) - Cardinality(Asking)

\* The page a process has faulted on is still absent if it is its own; the
\* frame it has got is its own, and nobody else brings that page in.
Flights ==
    /\ \A t \in Asking : /\ loc[t].vp \in Accessible(t)
                         /\ loc[t].vp \in Private => ~pd_p[loc[t].vp]
    /\ \A t \in TProc : Bringing(t) =>
          /\ loc[t].vp \in Accessible(t) /\ ~pd_p[loc[t].vp]
          /\ pfs_arr[loc[t].f].pid /\ pfs_arr[loc[t].f].vp = loc[t].vp
          /\ ~(Writing /\ loc[t].f = i)
    /\ \A t, u \in TProc : Bringing(t) /\ Bringing(u) /\ loc[t].vp = loc[u].vp => t = u

\* What pagein knows of its page: where it is on the floppy, and later that it
\* is in the frame.
Reading(t) ==
    /\ pc[t] \in {"in", "reading", "read"} => ~pd_r[loc[t].vp]
    /\ pc[t] \in {"reading", "read"} => loc[t].pos = pd_frame[loc[t].vp]
    /\ pc[t] \in {"paged", "set"} => pd_r[loc[t].vp]
    /\ pc[t] \in {"read", "paged", "set"} => mem[loc[t].f] = loc[t].vp
Reads == \A t \in TProc : Reading(t)

\* A page that is present has its frame and its content there; a frame in use
\* has a present page, one on its way in or the one that is written out.
Frames ==
    /\ \A v \in VPage : Live(v) /\ pd_p[v] =>
          /\ pd_frame[v] \in Frame
          /\ pfs_arr[pd_frame[v]].pid /\ pfs_arr[pd_frame[v]].vp = v
          /\ mem[pd_frame[v]] = v
          /\ ~(Writing /\ pd_frame[v] = i)
    /\ \A f \in Frame : pfs_arr[f].pid =>
          /\ pfs_arr[f].vp \in VPage /\ Live(pfs_arr[f].vp)
          /\ \/ pd_p[pfs_arr[f].vp] /\ pd_frame[pfs_arr[f].vp] = f
             \/ \E t \in TProc : Bringing(t) /\ loc[t].f = f
             \/ Writing /\ f = i

\* Sector s is that of page v, which is out, or which has frame f.
Keeps(f, v, s) == pfs_arr[f].pid /\ pfs_arr[f].vp = v /\ pfs_arr[f].pos = s
Holds(v, s) == \/ Out(v) /\ pd_frame[v] = s
               \/ s # 0 /\ \E f \in Frame : Keeps(f, v, s)

\* A page has one sector at most, and it is its own.
Sectors ==
    /\ \A v \in VPage : \A s : Live(v) /\ Holds(v, s) => s \in disk
    /\ \A v \in VPage : \A s, r : Live(v) /\ Holds(v, s) /\ Holds(v, r) => s = r
    /\ \A v, w \in VPage : \A s : Live(v) /\ Live(w) /\ Holds(v, s) /\ Holds(w, s) => v = w

\* A sector in use is one of a page; putframe leaves no more than one behind
\* for a page of a process that has ended.
Holders == {v \in VPage : Live(v) => \E s : Holds(v, s)}
Space == Cardinality(disk) <= Cardinality(Holders)

\* The page that is written out does not need frame i any more to keep its
\* sector; until it is written its content is in the frame.
Elsewhere(v, s) == \/ Out(v) /\ pd_frame[v] = s
                   \/ \E f \in Frame : f # i /\ Keeps(f, v, s)
Writes ==
    /\ Writing => /\ pfs_arr[i].pid /\ pfs_arr[i].vp \in VPage /\ to \in Sector
                  /\ Elsewhere(pfs_arr[i].vp, to)
    /\ at = "write" => /\ mem[i] = pfs_arr[i].vp
                       /\ Out(pfs_arr[i].vp) /\ pd_frame[pfs_arr[i].vp] = to

\* A page that is out has its content on the floppy, or goes there.
Stored == \A v \in VPage : Live(v) /\ Out(v) =>
              floppy[pd_frame[v]] = v \/ (at = "write" /\ pfs_arr[i].vp = v)

\* In queue q, a stands before b, if b is there.
Before(q, a, b) == \A k \in 1..Len(q) : q[k] = b => \E j \in 1..Len(q) : j < k /\ q[j] = a

\* Who wants a page that is being written reads it after it is written.
Order == \A t \in TProc : at = "write" /\ loc[t].vp = pfs_arr[i].vp =>
            /\ pc[t] # "read"
            /\ pc[t] = "reading" =>
                  /\ Waits(sem, "floppy", t)
                  /\ Waits(sem, "floppy", PAGED) => Before(sem["floppy"].q, PAGED, t)

PagInv == /\ TypeOK /\ SemOK /\ Count /\ Flights /\ Reads /\ Frames
          /\ Sectors /\ Space /\ Writes /\ Stored /\ Order
----------------------------------------------------------------------------
(***************************************************************************)
(* Constants and types.                                                    *)
(***************************************************************************)
LEMMA WhoFacts ==
    /\ TProc \subseteq Who /\ PAGED \in Who /\ PAGED \notin TProc
    /\ IsFiniteSet(TProc) /\ IsFiniteSet(Frame) /\ IsFiniteSet(Sector) /\ IsFiniteSet(VPage)
    /\ Cardinality(Sector) >= Cardinality(VPage) /\ Cardinality(VPage) \in Nat
    /\ Frame \subseteq Nat /\ Sector \subseteq Nat /\ 0 \notin Sector /\ 0 \in Frame
    /\ Sector \subseteq 0..S /\ 0 \in 0..S
<1> USE PagingAssumption
<1>1. TProc \subseteq Who /\ PAGED \in Who /\ PAGED \notin TProc
  BY DEF TProc, Who, PAGED
<1>2. IsFiniteSet(TProc) /\ IsFiniteSet(Frame) /\ IsFiniteSet(Sector)
  BY FS_Interval DEF TProc, Frame, Sector
<1>3. IsFiniteSet(VPage)
  <2>1. IsFiniteSet(Private)
    BY <1>2, FS_Product DEF Private
  <2>2. IsFiniteSet({SHARED})
    BY FS_Singleton
  <2>3. IsFiniteSet(Shared)
    BY <2>2, FS_Product DEF Shared
  <2> QED
    BY <2>1, <2>3, FS_Union DEF VPage
<1>4. Cardinality(Sector) = S
  BY FS_Interval DEF Sector
<1>5. Cardinality(VPage) \in Nat
  BY <1>3, FS_CardinalityType
<1>6. /\ Frame \subseteq Nat /\ Sector \subseteq Nat /\ 0 \notin Sector /\ 0 \in Frame
      /\ Sector \subseteq 0..S /\ 0 \in 0..S
  BY DEF Frame, Sector
<1> QED
  BY <1>1, <1>2, <1>3, <1>4, <1>5, <1>6

\* A page belongs to one T-process or to segment 2.
LEMMA PageFacts ==
    /\ \A v \in Private : v \in VPage /\ v[1] \in TProc /\ v \notin Shared
    /\ \A v \in Shared : v \in VPage /\ v[1] = SHARED /\ v[1] \notin TProc
    /\ \A v \in VPage : v \in Private \/ v \in Shared
    /\ NONE \notin VPage
    /\ \A t \in TProc : \A v \in Accessible(t) : v \in VPage /\ (v \in Private => v[1] = t)
    /\ \A t \in TProc : \A p \in Page : <<t, p>> \in Private /\ <<t, p>>[1] = t
    /\ \A v \in Private : v[2] \in Page /\ v = <<v[1], v[2]>>
<1>1. /\ \A v \in Private : v \in VPage /\ v[1] \in TProc
      /\ \A v \in Shared : v \in VPage /\ v[1] = SHARED
      /\ \A v \in VPage : v \in Private \/ v \in Shared
      /\ \A t \in TProc : \A p \in Page : <<t, p>> \in Private /\ <<t, p>>[1] = t
      /\ \A v \in Private : v[2] \in Page /\ v = <<v[1], v[2]>>
  BY DEF Private, Shared, VPage
<1>2. SHARED \notin TProc
  BY DEF SHARED, TProc
<1>3. NONE \notin VPage
  <2>1. \A v \in VPage : Len(v) = 2
    BY DEF VPage, Private, Shared
  <2>2. Len(NONE) = 0
    BY DEF NONE
  <2> QED
    BY <2>1, <2>2
<1> QED
  BY <1>1, <1>2, <1>3 DEF Accessible

\* The types of the records, field by field.
LEMMA TypeFacts ==
    ASSUME TypeOK
    PROVE  /\ \A f \in Frame : /\ pfs_arr[f].pid \in BOOLEAN
                               /\ pfs_arr[f].vp \in VPage \cup {NONE}
                               /\ pfs_arr[f].pos \in 0..S
                               /\ mem[f] \in VPage \cup {NONE}
           /\ \A t \in TProc : /\ loc[t].vp \in VPage \cup {NONE}
                               /\ loc[t].f \in Frame /\ loc[t].pos \in 0..S
                               /\ pc[t] \in Labels
           /\ i \in Frame /\ disk \subseteq Sector
           /\ \A v \in VPage : pd_frame[v] \in Frame \cup Sector \cup {0}
BY DEF TypeOK, Labels

----------------------------------------------------------------------------
(***************************************************************************)
(* The semaphores.                                                         *)
(***************************************************************************)
LEMMA SemsFacts ==
    /\ "mm" \in Sems /\ "pf" \in Sems /\ "page" \in Sems /\ "floppy" \in Sems
    /\ \A m : m \in [Sems -> [val : Int, q : Seq(Who)]]
                 <=> m \in [{"mm", "pf", "page", "floppy"} -> [val : Int, q : Seq(0..N)]]
BY DEF Sems, Who

\* A process asks for the floppy.
LEMMA FloppyTake ==
    ASSUME NEW m, Counted(m, Sems, Who), NEW U, FloppyOK(m["floppy"], U),
           NEW p \in Who, Ready(m, p), p \notin U
    PROVE  FloppyOK(P(m, "floppy", p)["floppy"], U \cup {p})
<1> DEFINE n == P(m, "floppy", p)
<1>1. /\ n["floppy"].val = m["floppy"].val - 1
      /\ \A r : Waits(n, "floppy", r) <=> Waits(m, "floppy", r) \/ (r = p /\ m["floppy"].val <= 0)
  BY PStep, SemsFacts
<1>2. m["floppy"].val \in Int
  BY CountedFacts, SemsFacts
<1> HIDE DEF n
<1>3. /\ m["floppy"].val <= 1
      /\ U # {} => m["floppy"].val <= 0
      /\ \A r : Waits(m, "floppy", r) => r \in U
      /\ \A q, r \in U : ~Waits(m, "floppy", q) /\ ~Waits(m, "floppy", r) => q = r
  BY DEF FloppyOK, Waits
<1>4. ASSUME NEW q \in U \cup {p}, NEW r \in U \cup {p},
             ~Waits(n, "floppy", q), ~Waits(n, "floppy", r)
      PROVE  q = r
  BY <1>1, <1>2, <1>3, <1>4
<1>5. n["floppy"].val <= 1 /\ n["floppy"].val <= 0
  BY <1>1, <1>2, <1>3
<1>6. \A r : Waits(n, "floppy", r) => r \in U \cup {p}
  BY <1>1, <1>3
<1> QED
  BY <1>4, <1>5, <1>6 DEF FloppyOK, Waits, n

\* The process that uses the floppy gives it up.
LEMMA FloppyGive ==
    ASSUME NEW m, Counted(m, Sems, Who), NEW U, FloppyOK(m["floppy"], U),
           NEW p \in U, ~Waits(m, "floppy", p)
    PROVE  FloppyOK(V(m, "floppy")["floppy"], U \ {p})
<1> DEFINE n == V(m, "floppy")
           h == Head(m["floppy"].q)
<1>1. /\ n["floppy"].val = m["floppy"].val + 1
      /\ m["floppy"].val >= 0 => \A r : Waits(n, "floppy", r) <=> Waits(m, "floppy", r)
      /\ m["floppy"].val < 0 => /\ Waits(m, "floppy", h)
                                /\ \A r : Waits(n, "floppy", r) <=> Waits(m, "floppy", r) /\ r # h
  BY VStep, SemsFacts
<1>2. m["floppy"].val \in Int /\ \A r : Waits(m, "floppy", r) => m["floppy"].val < 0
  BY CountedFacts, SemsFacts
<1> HIDE DEF n, h
<1>3. /\ m["floppy"].val <= 0
      /\ \A r : Waits(m, "floppy", r) => r \in U
      /\ \A r \in U : ~Waits(m, "floppy", r) => r = p
  BY DEF FloppyOK, Waits
<1>4. \A r : Waits(n, "floppy", r) => r \in U \ {p}
  BY <1>1, <1>2, <1>3
<1>5. ASSUME NEW q \in U \ {p}, NEW r \in U \ {p},
             ~Waits(n, "floppy", q), ~Waits(n, "floppy", r)
      PROVE  q = r
  <2>1. Waits(m, "floppy", q) /\ Waits(m, "floppy", r)
    BY <1>3
  <2> QED
    BY <1>1, <1>2, <1>5, <2>1
<1>6. U \ {p} # {} => n["floppy"].val <= 0
  <2>1. ASSUME U \ {p} # {} PROVE m["floppy"].val < 0
    BY <1>2, <1>3, <2>1
  <2> QED
    BY <1>1, <1>2, <2>1
<1>7. n["floppy"].val <= 1
  BY <1>1, <1>2, <1>3
<1> QED
  BY <1>4, <1>5, <1>6, <1>7 DEF FloppyOK, Waits, n

\* n times V on sem_pf.
LEMMA ReturnDef ==
    ASSUME NEW m, Counted(m, Sems, Who), NEW n \in Nat
    PROVE  /\ Counted(ReturnFrames(m, n), Sems, Who)
           /\ ReturnFrames(m, n)["pf"].val = m["pf"].val + n
           /\ \A s \in Sems : s # "pf" => ReturnFrames(m, n)[s] = m[s]
           /\ \A s \in Sems : \A r : Waits(ReturnFrames(m, n), s, r) => Waits(m, s, r)
<1> DEFINE X == {x \in [Sems -> [val : Int, q : Seq(Who)]] : Counted(x, Sems, Who)}
           G == [ix \in (1..n) \X X |-> V(ix[2], "pf")]
           Fun(f) == f = [k \in 0..n |-> IF k = 0 THEN m ELSE V(f[k-1], "pf")]
<1>0. \A x : Counted(x, Sems, Who) <=> x \in X
  BY DEF Counted
<1>1. G \in Steps(n, X) /\ \A k \in 1..n : \A x \in X : G[<<k, x>>] = V(x, "pf")
  <2>1. \A x \in X : V(x, "pf") \in X
    BY <1>0, VStep, SemsFacts
  <2> HIDE DEF X
  <2> QED
    BY <2>1 DEF Steps
<1>2. PICK g : IsRun(g, n, X, m, G)
  <2>1. m \in X
    BY <1>0
  <2> HIDE DEF X, G
  <2> QED
    BY <1>1, <2>1, RecursionExists
<1>3. g \in [0..n -> X] /\ g[0] = m /\ \A k \in 1..n : g[k] = V(g[k-1], "pf")
  <2> HIDE DEF X, G
  <2>1. g \in [0..n -> X] /\ g[0] = m /\ \A k \in 1..n : g[k] = G[<<k, g[k-1]>>]
    BY <1>2 DEF IsRun
  <2>2. \A k \in 1..n : k - 1 \in 0..n
    OBVIOUS
  <2> QED
    BY <1>1, <2>1, <2>2
<1> HIDE DEF X, G
<1>4. Fun(g)
  <2>1. \A k \in 0..n : g[k] = IF k = 0 THEN m ELSE V(g[k-1], "pf")
    <3>1. \A k \in 0..n : k = 0 \/ k \in 1..n
      OBVIOUS
    <3> QED
      BY <1>3, <3>1
  <2> QED
    BY <1>3, <2>1
<1> DEFINE a == CHOOSE f : Fun(f)
<1>5. Fun(a)
  <2> HIDE DEF Fun
  <2> QED
    BY <1>4
<1>6. ReturnFrames(m, n) = a[n]
  BY DEF ReturnFrames
<1>7. a[0] = m /\ \A k \in 1..n : a[k] = V(a[k-1], "pf")
  <2>1. \A k \in 0..n : a[k] = IF k = 0 THEN m ELSE V(a[k-1], "pf")
    <3> HIDE DEF a
    <3> QED
      BY <1>5
  <2>2. 0 \in 0..n /\ \A k \in 1..n : k \in 0..n /\ k # 0
    OBVIOUS
  <2> HIDE DEF a
  <2> QED
    BY <2>1, <2>2
<1> HIDE DEF a, Fun
<1> DEFINE Good(k) == /\ Counted(a[k], Sems, Who)
                      /\ a[k]["pf"].val = m["pf"].val + k
                      /\ \A s \in Sems : s # "pf" => a[k][s] = m[s]
                      /\ \A s \in Sems : \A r : Waits(a[k], s, r) => Waits(m, s, r)
           T == {k \in 0..n : Good(k)}
<1>8. m["pf"].val \in Int
  BY CountedFacts, SemsFacts
<1>9. 0 \in T
  BY <1>7, <1>8
<1>10. ASSUME NEW k \in 1..n, k - 1 \in T
       PROVE  k \in T
  <2>1. k \in 0..n /\ Good(k - 1) /\ a[k] = V(a[k-1], "pf")
    BY <1>7, <1>10
  <2>2. /\ Counted(a[k], Sems, Who)
        /\ a[k]["pf"].val = a[k-1]["pf"].val + 1
        /\ \A s \in Sems : s # "pf" => a[k][s] = a[k-1][s]
        /\ \A s \in Sems : \A r : Waits(a[k], s, r) => Waits(a[k-1], s, r)
    <3> DEFINE x == a[k-1]
    <3>1. Counted(x, Sems, Who) /\ a[k] = V(x, "pf")
      BY <2>1
    <3> HIDE DEF x, Good
    <3>2. /\ Counted(V(x, "pf"), Sems, Who)
          /\ V(x, "pf")["pf"].val = x["pf"].val + 1
          /\ \A s \in Sems : s # "pf" => V(x, "pf")[s] = x[s]
          /\ \A s \in Sems : \A r : Waits(V(x, "pf"), s, r) => Waits(x, s, r)
      BY <3>1, VStep, SemsFacts
    <3> QED
      BY <3>1, <3>2 DEF x
  <2>3. a[k]["pf"].val = m["pf"].val + k
    BY <1>8, <2>1, <2>2
  <2> QED
    BY <2>1, <2>2, <2>3
<1>11. \A k \in 0..n : k \in T
  <2> HIDE DEF T
  <2> QED
    BY <1>9, <1>10, IntervalInduction
<1>12. n \in 0..n
  OBVIOUS
<1> QED
  BY <1>6, <1>11, <1>12

\* A T-process goes to l.
LEMMA UsersT ==
    ASSUME pc \in [TProc -> Labels], NEW t \in TProc, NEW l \in Labels,
           pc' = [pc EXCEPT ![t] = l], at' = at
    PROVE  Users' = IF l = "reading" THEN Users \cup {t} ELSE Users \ {t}
<1>1. Readers' = IF l = "reading" THEN Readers \cup {t} ELSE Readers \ {t}
  BY DEF Readers
<1>2. PAGED # t
  BY WhoFacts
<1> QED
  BY <1>1, <1>2 DEF Users

\* A step of a T-process that has nothing to do with the floppy.
LEMMA SemT ==
    ASSUME pc \in [TProc -> Labels], SemOK, NEW t \in TProc, NEW l \in Labels,
           Ready(sem, t), pc' = [pc EXCEPT ![t] = l], at' = at,
           pc[t] # "reading", l # "reading",
           Counted(sem', Sems, Who), sem'["floppy"] = sem["floppy"],
           \A p : Waits(sem', "pf", p) => Waits(sem, "pf", p) \/ (p = t /\ l = "pf")
    PROVE  SemOK'
<1>1. Users' = Users
  <2>1. t \notin Users
    BY WhoFacts DEF Users, Readers
  <2> QED
    BY <2>1, UsersT
<1>2. \A p : Waits(sem, "pf", p) => p \in TProc /\ pc[p] = "pf" /\ p # t
  BY SemsFacts, CountedFacts DEF SemOK
<1>3. \A p : Waits(sem', "pf", p) => p \in TProc /\ pc'[p] = "pf"
  BY <1>2
<1> QED
  BY <1>1, <1>3 DEF SemOK

\* The same for pagedaemon.
LEMMA SemD ==
    ASSUME SemOK, pc' = pc, at # "write", at' # "write",
           Counted(sem', Sems, Who), sem'["floppy"] = sem["floppy"],
           \A p : Waits(sem', "pf", p) => Waits(sem, "pf", p)
    PROVE  SemOK'
<1>1. Users' = Users
  BY DEF Users, Readers
<1> QED
  BY <1>1 DEF SemOK

\* P on sem_mm, at the start of a critical section, and V at its end.
LEMMA LockMM ==
    ASSUME SemOK, NEW p \in Who, Ready(sem, p), sem' = P(sem, "mm", p)
    PROVE  /\ Counted(sem', Sems, Who) /\ \A s \in Sems : s # "mm" => sem'[s] = sem[s]
           /\ \A r : Waits(sem', "pf", r) => Waits(sem, "pf", r)
<1>1. Counted(sem, Sems, Who)
  BY DEF SemOK
<1>2. Counted(sem', Sems, Who) /\ \A s \in Sems : s # "mm" => sem'[s] = sem[s]
  BY <1>1, PStep, SemsFacts
<1>3. sem'["pf"] = sem["pf"]
  BY <1>2 DEF Sems
<1> QED
  BY <1>2, <1>3 DEF Waits

LEMMA UnlockMM ==
    ASSUME NEW m, Counted(m, Sems, Who), NEW n, n = V(m, "mm")
    PROVE  /\ Counted(n, Sems, Who) /\ \A s \in Sems : s # "mm" => n[s] = m[s]
           /\ \A r : Waits(n, "pf", r) <=> Waits(m, "pf", r)
           /\ \A r : Ready(m, r) => Ready(n, r)
<1>0. "mm" \in Sems
  BY SemsFacts
<1>1. /\ Counted(n, Sems, Who) /\ \A s \in Sems : s # "mm" => n[s] = m[s]
      /\ \A r : Ready(m, r) => Ready(n, r)
  <2>1. /\ Counted(V(m, "mm"), Sems, Who)
        /\ \A s \in Sems : s # "mm" => V(m, "mm")[s] = m[s]
        /\ \A r : Ready(m, r) => Ready(V(m, "mm"), r)
    BY <1>0, VStep
  <2> QED
    BY <2>1
<1>2. n["pf"] = m["pf"]
  BY <1>1 DEF Sems
<1> QED
  BY <1>1, <1>2 DEF Waits

\* What a step does to sem_pf and sem_floppy.
Same == sem'["pf"] = sem["pf"] /\ sem'["floppy"] = sem["floppy"]

LEMMA SemLock ==
    ASSUME TypeOK, SemOK, NEW t \in TProc,
           LockFrames(t) \/ TestReferenced(t) \/ LockTable(t) \/ Terminate(t)
    PROVE  SemOK' /\ Same
<1>1. /\ Ready(sem, t) /\ sem' = P(sem, "mm", t) /\ at' = at /\ pc[t] # "reading"
      /\ \E l \in Labels : l # "reading" /\ pc' = [pc EXCEPT ![t] = l]
  BY DEF LockFrames, TestReferenced, LockTable, Terminate, At, Goto, daemon, Labels
<1>2. pc \in [TProc -> Labels] /\ t \in Who
  BY WhoFacts DEF TypeOK, Labels
<1>3. /\ Counted(sem', Sems, Who) /\ sem'["floppy"] = sem["floppy"] /\ sem'["pf"] = sem["pf"]
      /\ \A r : Waits(sem', "pf", r) => Waits(sem, "pf", r)
  BY <1>1, <1>2, LockMM DEF Sems
<1> QED
  BY <1>1, <1>2, <1>3, SemT DEF Same

LEMMA SemUnlock ==
    ASSUME TypeOK, SemOK, NEW t \in TProc, pagein_End(t) \/ SetPresent(t)
    PROVE  SemOK' /\ Same
<1>1. /\ Ready(sem, t) /\ sem' = V(sem, "mm") /\ at' = at /\ pc[t] # "reading"
      /\ \E l \in Labels : l # "reading" /\ pc' = [pc EXCEPT ![t] = l]
  BY DEF pagein_End, SetPresent, At, Goto, daemon, Labels
<1>2. pc \in [TProc -> Labels] /\ Counted(sem, Sems, Who)
  BY DEF TypeOK, Labels, SemOK
<1>3. /\ Counted(sem', Sems, Who) /\ sem'["floppy"] = sem["floppy"] /\ sem'["pf"] = sem["pf"]
      /\ \A r : Waits(sem', "pf", r) => Waits(sem, "pf", r)
  BY <1>1, <1>2, UnlockMM DEF Sems
<1> QED
  BY <1>1, <1>2, <1>3, SemT DEF Same

LEMMA SemGet ==
    ASSUME TypeOK, SemOK, NEW t \in TProc, getfreeframe(t), pc'[t] # "wild"
    PROVE  SemOK' /\ Same
<1>1. /\ Ready(sem, t) /\ at' = at /\ pc[t] # "reading"
      /\ sem' = V(IF sem["pf"].val <= LOW THEN V(sem, "page") ELSE sem, "mm")
      /\ pc' = [pc EXCEPT ![t] = "got"]
  BY DEF getfreeframe, At, Goto, daemon, TypeOK
<1>2. pc \in [TProc -> Labels] /\ Counted(sem, Sems, Who)
  BY DEF TypeOK, Labels, SemOK
<1> DEFINE m == IF sem["pf"].val <= LOW THEN V(sem, "page") ELSE sem
<1>3. /\ Counted(m, Sems, Who) /\ m["pf"] = sem["pf"] /\ m["floppy"] = sem["floppy"]
  <2>1. /\ Counted(V(sem, "page"), Sems, Who)
        /\ \A s \in Sems : s # "page" => V(sem, "page")[s] = sem[s]
    BY <1>2, VStep, SemsFacts
  <2> QED
    BY <1>2, <2>1, SemsFacts
<1>4. sem' = V(m, "mm")
  BY <1>1
<1> HIDE DEF m
<1>5. /\ Counted(sem', Sems, Who) /\ sem'["floppy"] = sem["floppy"] /\ sem'["pf"] = sem["pf"]
  BY <1>3, <1>4, UnlockMM DEF Sems
<1>6. "got" \in Labels
  BY DEF Labels
<1>7. \A r : Waits(sem', "pf", r) => Waits(sem, "pf", r)
  BY <1>5 DEF Waits
<1> QED
  BY <1>1, <1>2, <1>5, <1>6, <1>7, SemT DEF Same

LEMMA SemFault ==
    ASSUME TypeOK, SemOK, NEW t \in TProc, NEW v \in VPage, Fault(t, v)
    PROVE  /\ SemOK' /\ sem'["floppy"] = sem["floppy"]
           /\ sem'["pf"].val = sem["pf"].val - 1
<1>1. /\ Ready(sem, t) /\ sem' = P(sem, "pf", t) /\ at' = at /\ pc[t] # "reading"
      /\ pc' = [pc EXCEPT ![t] = "pf"]
  BY DEF Fault, At, Goto, daemon
<1>2. pc \in [TProc -> Labels] /\ t \in Who /\ Counted(sem, Sems, Who) /\ "pf" \in Labels
  BY WhoFacts DEF TypeOK, Labels, SemOK
<1>3. /\ Counted(sem', Sems, Who) /\ \A s \in Sems : s # "pf" => sem'[s] = sem[s]
      /\ sem'["pf"].val = sem["pf"].val - 1
      /\ \A r : Waits(sem', "pf", r) => Waits(sem, "pf", r) \/ r = t
  BY <1>1, <1>2, PStep, SemsFacts
<1>4. sem'["floppy"] = sem["floppy"]
  BY <1>3, SemsFacts
<1> QED
  BY <1>1, <1>2, <1>3, <1>4, SemT

\* A T-process starts and ends reading.
LEMMA SemRead ==
    ASSUME TypeOK, SemOK, NEW t \in TProc, pagein_Start(t)
    PROVE  /\ SemOK' /\ sem'["pf"] = sem["pf"]
           /\ \E m : /\ m["floppy"] = sem["floppy"] /\ Counted(m, Sems, Who) /\ Ready(m, t)
                     /\ sem' = P(m, "floppy", t)
<1>1. /\ Ready(sem, t) /\ sem' = P(V(sem, "mm"), "floppy", t) /\ at' = at /\ pc[t] = "in"
      /\ pc' = [pc EXCEPT ![t] = "reading"]
  BY DEF pagein_Start, At, Goto, daemon
<1>2. pc \in [TProc -> Labels] /\ Counted(sem, Sems, Who) /\ t \in Who /\ "reading" \in Labels
  BY WhoFacts DEF TypeOK, Labels, SemOK
<1> DEFINE m == V(sem, "mm")
<1>3. /\ Counted(m, Sems, Who) /\ m["floppy"] = sem["floppy"] /\ m["pf"] = sem["pf"]
      /\ Ready(m, t)
  <2>1. \A n : n = V(sem, "mm") => /\ Counted(n, Sems, Who) /\ Ready(n, t)
                                   /\ \A s \in Sems : s # "mm" => n[s] = sem[s]
    BY <1>1, <1>2, UnlockMM
  <2> HIDE DEF m
  <2>2. m = V(sem, "mm")
    BY DEF m
  <2> QED
    BY <2>1, <2>2, SemsFacts
<1>4. sem' = P(m, "floppy", t)
  BY <1>1
<1> HIDE DEF m
<1>5. Counted(sem', Sems, Who) /\ sem'["pf"] = sem["pf"]
  <2>1. /\ Counted(P(m, "floppy", t), Sems, Who)
        /\ \A s \in Sems : s # "floppy" => P(m, "floppy", t)[s] = m[s]
    BY <1>2, <1>3, SemsFacts, PStep
  <2> QED
    BY <1>3, <1>4, <2>1, SemsFacts
<1>6. Users' = Users \cup {t} /\ t \notin Users
  <2>1. t \notin Users
    BY <1>1, WhoFacts DEF Users, Readers
  <2> QED
    BY <1>1, <1>2, <2>1, UsersT
<1>7. FloppyOK(m["floppy"], Users)
  BY <1>3 DEF SemOK
<1>8. FloppyOK(sem'["floppy"], Users')
  BY <1>2, <1>3, <1>4, <1>6, <1>7, FloppyTake
<1>9. \A p : Waits(sem', "pf", p) => p \in TProc /\ pc'[p] = "pf"
  <2>1. \A p : Waits(sem', "pf", p) => p \in TProc /\ pc[p] = "pf"
    BY <1>5 DEF SemOK, Waits
  <2> QED
    BY <1>1, <1>2, <2>1
<1>10. SemOK'
  BY <1>5, <1>8, <1>9 DEF SemOK
<1> QED
  BY <1>3, <1>4, <1>5, <1>10

LEMMA SemReadEnd ==
    ASSUME TypeOK, SemOK, NEW t \in TProc, pagein_Read(t)
    PROVE  /\ SemOK' /\ sem'["pf"] = sem["pf"]
           /\ \E m : /\ m["floppy"] = sem["floppy"] /\ Counted(m, Sems, Who)
                     /\ sem' = V(m, "floppy")
<1>1. /\ Ready(sem, t) /\ sem' = V(P(sem, "mm", t), "floppy") /\ at' = at /\ pc[t] = "reading"
      /\ pc' = [pc EXCEPT ![t] = "read"]
  BY DEF pagein_Read, At, Goto, daemon
<1>2. pc \in [TProc -> Labels] /\ Counted(sem, Sems, Who) /\ t \in Who /\ "read" \in Labels
  BY WhoFacts DEF TypeOK, Labels, SemOK
<1> DEFINE m == P(sem, "mm", t)
<1>3. /\ Counted(m, Sems, Who) /\ m["floppy"] = sem["floppy"] /\ m["pf"] = sem["pf"]
  <2>1. /\ Counted(m, Sems, Who) /\ \A s \in Sems : s # "mm" => m[s] = sem[s]
    BY <1>1, <1>2, PStep, SemsFacts
  <2> HIDE DEF m
  <2> QED
    BY <2>1, SemsFacts
<1>4. sem' = V(m, "floppy")
  BY <1>1
<1> HIDE DEF m
<1>5. Counted(sem', Sems, Who) /\ sem'["pf"] = sem["pf"]
  <2>1. /\ Counted(V(m, "floppy"), Sems, Who)
        /\ \A s \in Sems : s # "floppy" => V(m, "floppy")[s] = m[s]
    BY <1>2, <1>3, SemsFacts, VStep
  <2> QED
    BY <1>3, <1>4, <2>1, SemsFacts
<1>6. Users' = Users \ {t} /\ t \in Users
  <2>1. t \in Users
    BY <1>1 DEF Users, Readers
  <2> QED
    BY <1>1, <1>2, <2>1, UsersT
<1>7. FloppyOK(m["floppy"], Users) /\ ~Waits(m, "floppy", t)
  <2>1. ~Waits(sem, "floppy", t)
    BY <1>1, <1>2, CountedFacts, SemsFacts
  <2> QED
    BY <1>3, <2>1 DEF SemOK, Waits
<1>8. FloppyOK(sem'["floppy"], Users')
  BY <1>3, <1>4, <1>6, <1>7, FloppyGive
<1>9. \A p : Waits(sem', "pf", p) => p \in TProc /\ pc'[p] = "pf"
  <2>1. \A p : Waits(sem', "pf", p) => p \in TProc /\ pc[p] = "pf"
    BY <1>5 DEF SemOK, Waits
  <2> QED
    BY <1>1, <1>2, <2>1
<1>10. SemOK'
  BY <1>5, <1>8, <1>9 DEF SemOK
<1> QED
  BY <1>3, <1>4, <1>5, <1>10

\* pagedaemon: the steps that keep off the floppy, and the two others.
LEMMA SemDaemon ==
    ASSUME TypeOK, SemOK, WaitForSignal \/ TestCount \/ LockFrame \/ Pass
    PROVE  SemOK' /\ Same
<1>1. pc' = pc /\ at # "write" /\ at' # "write" /\ Ready(sem, PAGED)
  BY DEF WaitForSignal, TestCount, LockFrame, Pass, Advance, Daemon
<1>2. Counted(sem, Sems, Who) /\ PAGED \in Who
  BY WhoFacts DEF SemOK
<1>3. \/ sem' = P(sem, "page", PAGED) \/ sem' = P(sem, "mm", PAGED)
      \/ sem' = V(sem, "mm") \/ sem' = sem
  BY DEF WaitForSignal, TestCount, LockFrame, Pass
<1>4. Counted(sem', Sems, Who) /\ Same
  <2>1. CASE sem' = P(sem, "page", PAGED)
    <3>1. Counted(sem', Sems, Who) /\ \A s \in Sems : s # "page" => sem'[s] = sem[s]
      BY <1>1, <1>2, <2>1, PStep, SemsFacts
    <3> QED
      BY <3>1, SemsFacts DEF Same
  <2>2. CASE sem' = P(sem, "mm", PAGED)
    BY <1>1, <1>2, <2>2, LockMM DEF Same, Sems
  <2>3. CASE sem' = V(sem, "mm")
    BY <1>2, <2>3, UnlockMM DEF Same, Sems
  <2>4. CASE sem' = sem
    BY <1>2, <2>4 DEF Same
  <2> QED
    BY <1>3, <2>1, <2>2, <2>3, <2>4
<1> QED
  BY <1>1, <1>4, SemD DEF Same, Waits

LEMMA SemWriteOut ==
    ASSUME TypeOK, SemOK, WriteOut
    PROVE  SemOK' /\ sem'["pf"] = sem["pf"]
<1>1. /\ Ready(sem, PAGED) /\ sem' = P(V(sem, "mm"), "floppy", PAGED)
      /\ at = "look" /\ at' = "write" /\ pc' = pc
  BY DEF WriteOut, Daemon
<1>2. Counted(sem, Sems, Who) /\ PAGED \in Who
  BY WhoFacts DEF SemOK
<1> DEFINE m == V(sem, "mm")
<1>3. /\ Counted(m, Sems, Who) /\ m["floppy"] = sem["floppy"] /\ m["pf"] = sem["pf"]
      /\ Ready(m, PAGED)
  <2>1. \A n : n = V(sem, "mm") => /\ Counted(n, Sems, Who) /\ Ready(n, PAGED)
                                   /\ \A s \in Sems : s # "mm" => n[s] = sem[s]
    BY <1>1, <1>2, UnlockMM
  <2> HIDE DEF m
  <2>2. m = V(sem, "mm")
    BY DEF m
  <2> QED
    BY <2>1, <2>2, SemsFacts
<1>4. sem' = P(m, "floppy", PAGED)
  BY <1>1
<1> HIDE DEF m
<1>5. Counted(sem', Sems, Who) /\ sem'["pf"] = sem["pf"]
  <2>1. /\ Counted(P(m, "floppy", PAGED), Sems, Who)
        /\ \A s \in Sems : s # "floppy" => P(m, "floppy", PAGED)[s] = m[s]
    BY <1>2, <1>3, SemsFacts, PStep
  <2> QED
    BY <1>3, <1>4, <2>1, SemsFacts
<1>6. Users' = Users \cup {PAGED} /\ PAGED \notin Users
  BY <1>1, WhoFacts DEF Users, Readers
<1>7. FloppyOK(m["floppy"], Users)
  BY <1>3 DEF SemOK
<1>8. FloppyOK(sem'["floppy"], Users')
  BY <1>2, <1>3, <1>4, <1>6, <1>7, FloppyTake
<1> QED
  BY <1>1, <1>5, <1>8 DEF SemOK, Waits

LEMMA SemWrite ==
    ASSUME TypeOK, SemOK, Write
    PROVE  SemOK' /\ sem'["pf"] = sem["pf"]
<1>1. /\ Ready(sem, PAGED) /\ sem' = V(P(sem, "mm", PAGED), "floppy")
      /\ at = "write" /\ at' = "written" /\ pc' = pc
  BY DEF Write, Daemon
<1>2. Counted(sem, Sems, Who) /\ PAGED \in Who
  BY WhoFacts DEF SemOK
<1> DEFINE m == P(sem, "mm", PAGED)
<1>3. /\ Counted(m, Sems, Who) /\ m["floppy"] = sem["floppy"] /\ m["pf"] = sem["pf"]
  <2>1. /\ Counted(m, Sems, Who) /\ \A s \in Sems : s # "mm" => m[s] = sem[s]
    BY <1>1, <1>2, PStep, SemsFacts
  <2> HIDE DEF m
  <2> QED
    BY <2>1, SemsFacts
<1>4. sem' = V(m, "floppy")
  BY <1>1
<1> HIDE DEF m
<1>5. Counted(sem', Sems, Who) /\ sem'["pf"] = sem["pf"]
  <2>1. /\ Counted(V(m, "floppy"), Sems, Who)
        /\ \A s \in Sems : s # "floppy" => V(m, "floppy")[s] = m[s]
    BY <1>2, <1>3, SemsFacts, VStep
  <2> QED
    BY <1>3, <1>4, <2>1, SemsFacts
<1>6. Users' = Users \ {PAGED} /\ PAGED \in Users
  BY <1>1, WhoFacts DEF Users, Readers
<1>7. FloppyOK(m["floppy"], Users) /\ ~Waits(m, "floppy", PAGED)
  <2>1. ~Waits(sem, "floppy", PAGED)
    BY <1>1, <1>2, CountedFacts, SemsFacts
  <2> QED
    BY <1>3, <2>1 DEF SemOK, Waits
<1>8. FloppyOK(sem'["floppy"], Users')
  BY <1>3, <1>4, <1>6, <1>7, FloppyGive
<1> QED
  BY <1>1, <1>5, <1>8 DEF SemOK, Waits

\* Frames become free: FreeFrame and putframe.
LEMMA SemFreeFrame ==
    ASSUME TypeOK, SemOK, FreeFrame
    PROVE  /\ SemOK' /\ sem'["floppy"] = sem["floppy"]
           /\ sem'["pf"].val = sem["pf"].val + 1
<1>1. /\ sem' = V(V(sem, "pf"), "mm")
      /\ at = "written" /\ at' # "write" /\ pc' = pc
  BY DEF FreeFrame, Daemon, Advance
<1>2. Counted(sem, Sems, Who)
  BY DEF SemOK
<1> DEFINE m == V(sem, "pf")
<1>3. /\ Counted(m, Sems, Who) /\ m["floppy"] = sem["floppy"]
      /\ m["pf"].val = sem["pf"].val + 1
      /\ \A r : Waits(m, "pf", r) => Waits(sem, "pf", r)
  <2>1. /\ Counted(V(sem, "pf"), Sems, Who)
        /\ \A s \in Sems : s # "pf" => V(sem, "pf")[s] = sem[s]
        /\ V(sem, "pf")["pf"].val = sem["pf"].val + 1
        /\ \A r : Waits(V(sem, "pf"), "pf", r) => Waits(sem, "pf", r)
    BY <1>2, SemsFacts, VStep
  <2> QED
    BY <2>1, SemsFacts
<1>4. sem' = V(m, "mm")
  BY <1>1
<1> HIDE DEF m
<1>5. /\ Counted(sem', Sems, Who) /\ sem'["floppy"] = m["floppy"] /\ sem'["pf"] = m["pf"]
  BY <1>3, <1>4, UnlockMM DEF Sems
<1>6. \A r : Waits(sem', "pf", r) => Waits(sem, "pf", r)
  BY <1>3, <1>5 DEF Waits
<1> QED
  BY <1>1, <1>3, <1>5, <1>6, SemD

LEMMA SemPut ==
    ASSUME TypeOK, SemOK, NEW t \in TProc, NEW other, putframe(t, other),
           Cardinality(Own(t)) \in Nat
    PROVE  /\ SemOK' /\ sem'["floppy"] = sem["floppy"]
           /\ sem'["pf"].val = sem["pf"].val + Cardinality(Own(t))
<1> DEFINE k == Cardinality(Own(t))
           m == ReturnFrames(sem, k)
<1>1. /\ Ready(sem, t) /\ sem' = V(m, "mm") /\ at' = at /\ pc[t] # "reading"
      /\ pc' = [pc EXCEPT ![t] = "gone"]
  BY DEF putframe, At, Goto, daemon
<1>2. pc \in [TProc -> Labels] /\ Counted(sem, Sems, Who) /\ "gone" \in Labels
  BY DEF TypeOK, Labels, SemOK
<1> HIDE DEF k
<1>3. /\ Counted(m, Sems, Who) /\ m["floppy"] = sem["floppy"]
      /\ m["pf"].val = sem["pf"].val + k
      /\ \A r : Waits(m, "pf", r) => Waits(sem, "pf", r)
  <2>1. k \in Nat
    BY DEF k
  <2> QED
    BY <1>2, <2>1, SemsFacts, ReturnDef
<1> HIDE DEF m
<1>5. /\ Counted(sem', Sems, Who) /\ sem'["floppy"] = m["floppy"] /\ sem'["pf"] = m["pf"]
  BY <1>1, <1>3, UnlockMM DEF Sems
<1>6. \A r : Waits(sem', "pf", r) => Waits(sem, "pf", r)
  BY <1>3, <1>5 DEF Waits
<1>7. SemOK'
  BY <1>1, <1>2, <1>3, <1>5, <1>6, SemT
<1> QED
  BY <1>3, <1>5, <1>7 DEF k

----------------------------------------------------------------------------
(***************************************************************************)
(* The frames are counted.                                                 *)
(***************************************************************************)
LEMMA Finite ==
    /\ IsFiniteSet(Unused) /\ IsFiniteSet(Asking) /\ \A t : IsFiniteSet(Own(t))
    /\ Cardinality(Unused) \in Nat /\ Cardinality(Asking) \in Nat
    /\ \A t : Cardinality(Own(t)) \in Nat
<1>1. Unused \in SUBSET Frame /\ Asking \in SUBSET TProc /\ \A t : Own(t) \in SUBSET Frame
  BY DEF Unused, Asking, Own
<1>2. IsFiniteSet(Unused) /\ IsFiniteSet(Asking) /\ \A t : IsFiniteSet(Own(t))
  BY <1>1, WhoFacts, FS_Subset
<1> QED
  BY <1>2, FS_CardinalityType

\* A process that has got through sem_pf finds a frame.
LEMMA SomeFree ==
    ASSUME SemOK, Count, NEW t \in TProc, At(t, "mm")
    PROVE  Unused # {}
<1> DEFINE W == ToSet(sem["pf"].q)
<1>1. /\ sem["pf"].val \in Int /\ sem["pf"].q \in Seq(Who) /\ IsInjective(sem["pf"].q)
      /\ Len(sem["pf"].q) = IF sem["pf"].val < 0 THEN -sem["pf"].val ELSE 0
  BY SemsFacts, CountedFacts DEF SemOK, Counted
<1>2. IsFiniteSet(W) /\ Cardinality(W) = Len(sem["pf"].q)
  BY <1>1, QueueSize
<1>3. W \subseteq Asking \ {t} /\ t \in Asking
  BY DEF SemOK, Waits, Asking, At
<1>4. IsFiniteSet(Asking \ {t}) /\ Cardinality(Asking \ {t}) = Cardinality(Asking) - 1
  BY <1>3, Finite, FS_RemoveElement
<1> HIDE DEF W
<1>5. Cardinality(W) <= Cardinality(Asking) - 1
  BY <1>3, <1>4, FS_Subset
<1>6. Cardinality(Unused) # 0
  BY <1>1, <1>2, <1>5, Finite DEF Count
<1> QED
  BY <1>6, FS_EmptySet

LEMMA FirstIn ==
    ASSUME NEW X, X \subseteq Nat, X # {}
    PROVE  First(X) \in X
<1>1. \E x \in X : \A y \in X : x <= y
  BY LeastNatural
<1> QED
  BY <1>1 DEF First

\* getfreeframe takes a frame that is not in use, unless it finds one that
\* another process's fault or pagedaemon has to do with.
LEMMA GetFacts ==
    ASSUME TypeOK, SemOK, Count, NEW t \in TProc, getfreeframe(t),
           breach = "none", breach' = "none"
    PROVE  /\ pc[t] = "mm" /\ pc' = [pc EXCEPT ![t] = "got"] /\ pc'[t] # "wild"
           /\ Holding(loc[t].vp) = {}
           /\ \E f \in Unused :
                 /\ loc' = [loc EXCEPT ![t].f = f]
                 /\ pfs_arr' = [pfs_arr EXCEPT ![f] = [pid |-> TRUE, vp |-> loc[t].vp, pos |-> 0]]
<1>1. Unused # {} /\ pc[t] = "mm"
  BY SomeFree DEF getfreeframe, At
<1>2. Holding(loc[t].vp) = {}
  BY <1>1 DEF getfreeframe
<1>3. First(Unused) \in Unused
  <2>1. Unused \subseteq Nat
    BY WhoFacts DEF Unused
  <2> QED
    BY <1>1, <2>1, FirstIn
<1>4. /\ pc' = [pc EXCEPT ![t] = "got"] /\ loc' = [loc EXCEPT ![t].f = First(Unused)]
      /\ pfs_arr' = [pfs_arr EXCEPT ![First(Unused)]
                       = [pid |-> TRUE, vp |-> loc[t].vp, pos |-> 0]]
  BY <1>1, <1>2 DEF getfreeframe, Goto
<1>5. pc'[t] # "wild"
  BY <1>4 DEF TypeOK
<1> QED
  BY <1>1, <1>2, <1>3, <1>4, <1>5

LEMMA CountKept ==
    ASSUME Count, sem'["pf"].val = sem["pf"].val,
           \A f \in Frame : pfs_arr'[f].pid <=> pfs_arr[f].pid,
           \A t \in TProc : pc'[t] \in {"pf", "mm"} <=> pc[t] \in {"pf", "mm"}
    PROVE  Count'
<1>1. Unused' = Unused
  BY DEF Unused
<1>2. Asking' = Asking
  BY DEF Asking
<1> QED
  BY <1>1, <1>2 DEF Count

LEMMA CountFault ==
    ASSUME TypeOK, SemOK, Count, NEW t \in TProc, NEW v \in VPage, Fault(t, v)
    PROVE  Count'
<1>1. pc[t] = "user" /\ pc' = [pc EXCEPT ![t] = "pf"] /\ pfs_arr' = pfs_arr
  BY DEF Fault, At, Goto, tables
<1>2. Asking' = Asking \cup {t} /\ t \notin Asking
  BY <1>1 DEF Asking, TypeOK
<1>3. Unused' = Unused
  BY <1>1 DEF Unused
<1>4. Cardinality(Asking') = Cardinality(Asking) + 1
  BY <1>2, Finite, FS_AddElement
<1>5. sem'["pf"].val = sem["pf"].val - 1
  BY SemFault
<1> QED
  BY <1>3, <1>4, <1>5, Finite DEF Count

LEMMA CountGet ==
    ASSUME TypeOK, SemOK, Count, NEW t \in TProc, getfreeframe(t),
           breach = "none", breach' = "none"
    PROVE  Count'
<1>1. pc[t] = "mm" /\ pc' = [pc EXCEPT ![t] = "got"] /\ pc'[t] # "wild"
  BY GetFacts
<1>2. PICK f \in Unused :
         pfs_arr' = [pfs_arr EXCEPT ![f] = [pid |-> TRUE, vp |-> loc[t].vp, pos |-> 0]]
  BY GetFacts
<1>3. Asking' = Asking \ {t} /\ t \in Asking
  BY <1>1 DEF Asking, TypeOK
<1>4. Unused' = Unused \ {f}
  <2>1. \A g \in Frame : pfs_arr'[g].pid <=> pfs_arr[g].pid \/ g = f
    BY <1>2 DEF TypeOK, Unused
  <2> QED
    BY <2>1 DEF Unused
<1>5. /\ Cardinality(Asking') = Cardinality(Asking) - 1
      /\ Cardinality(Unused') = Cardinality(Unused) - 1
  BY <1>2, <1>3, <1>4, Finite, FS_RemoveElement
<1>6. sem'["pf"].val = sem["pf"].val
  BY <1>1, SemGet DEF Same
<1> QED
  BY <1>5, <1>6, Finite DEF Count

LEMMA CountFree ==
    ASSUME TypeOK, SemOK, Count, Writes, FreeFrame
    PROVE  Count'
<1>1. at = "written" /\ pc' = pc /\ pfs_arr' = [pfs_arr EXCEPT ![i].pid = FALSE]
  BY DEF FreeFrame, Daemon
<1>2. i \in Frame /\ pfs_arr[i].pid
  BY <1>1 DEF Writes, Writing, TypeOK
<1>3. Unused' = Unused \cup {i} /\ i \notin Unused
  <2>1. \A g \in Frame : pfs_arr'[g].pid <=> pfs_arr[g].pid /\ g # i
    BY <1>1, <1>2 DEF TypeOK
  <2> QED
    BY <1>2, <2>1 DEF Unused
<1>4. Cardinality(Unused') = Cardinality(Unused) + 1
  BY <1>3, Finite, FS_AddElement
<1>5. Asking' = Asking /\ sem'["pf"].val = sem["pf"].val + 1
  BY <1>1, SemFreeFrame DEF Asking
<1>6. sem["pf"].val \in Int
  BY SemsFacts, CountedFacts DEF SemOK
<1> QED
  BY <1>4, <1>5, <1>6, Finite DEF Count

LEMMA CountPut ==
    ASSUME TypeOK, SemOK, Count, NEW t \in TProc, NEW other, putframe(t, other)
    PROVE  Count'
<1>1. /\ pc[t] = "exit" /\ pc' = [pc EXCEPT ![t] = "gone"]
      /\ pfs_arr' = [f \in Frame |-> IF f \in Own(t) THEN [pfs_arr[f] EXCEPT !.pid = FALSE]
                                                     ELSE pfs_arr[f]]
  BY DEF putframe, At, Goto
<1>2. Asking' = Asking
  BY <1>1 DEF Asking, TypeOK
<1>3. Unused' = Unused \cup Own(t) /\ Unused \cap Own(t) = {}
  <2>1. \A g \in Frame : pfs_arr'[g].pid <=> pfs_arr[g].pid /\ g \notin Own(t)
    BY <1>1 DEF TypeOK
  <2> QED
    BY <2>1 DEF Unused, Own
<1>4. Cardinality(Unused') = Cardinality(Unused) + Cardinality(Own(t))
  <2> DEFINE A == Unused
             B == Own(t)
  <2>1. IsFiniteSet(A) /\ IsFiniteSet(B) /\ Cardinality(A) \in Nat /\ Cardinality(B) \in Nat
    BY Finite
  <2>2. Cardinality(A \cap B) = 0
    BY <1>3, FS_EmptySet
  <2> HIDE DEF A, B
  <2>3. Cardinality(A \cup B) = Cardinality(A) + Cardinality(B) - Cardinality(A \cap B)
    BY <2>1, FS_Union
  <2>4. Cardinality(A \cup B) = Cardinality(A) + Cardinality(B)
    BY <2>1, <2>2, <2>3
  <2> QED
    BY <1>3, <2>4 DEF A, B
<1>5. sem'["pf"].val = sem["pf"].val + Cardinality(Own(t))
  BY SemPut, Finite
<1>6. sem["pf"].val \in Int
  BY SemsFacts, CountedFacts DEF SemOK
<1> QED
  BY <1>2, <1>4, <1>5, <1>6, Finite DEF Count

----------------------------------------------------------------------------
(***************************************************************************)
(* Steps that leave a part of the invariant alone.                         *)
(***************************************************************************)
LEMMA LiveKept ==
    ASSUME \A t \in TProc : pc'[t] = "gone" <=> pc[t] = "gone"
    PROVE  \A v \in VPage : Live(v)' <=> Live(v)
BY PageFacts DEF Live

LEMMA FlightsKept ==
    ASSUME Flights,
           \A v \in VPage : pd_p'[v] => pd_p[v],
           \A t \in TProc : pc'[t] \in {"pf", "mm"} =>
               \/ pc[t] \in {"pf", "mm"} /\ loc'[t].vp = loc[t].vp
               \/ loc'[t].vp \in Accessible(t) /\ ~pd_p[loc'[t].vp],
           \A t \in TProc : Bringing(t)' =>
               /\ Bringing(t) /\ loc'[t].vp = loc[t].vp /\ loc'[t].f = loc[t].f
               /\ pfs_arr'[loc[t].f].pid /\ pfs_arr'[loc[t].f].vp = loc[t].vp
               /\ ~(Writing' /\ loc[t].f = i')
    PROVE  Flights'
<1>0. \A t \in TProc : \A v : v \in Accessible(t)' <=> v \in Accessible(t)
  BY DEF Accessible
<1>1. ASSUME NEW t \in Asking'
      PROVE  /\ loc'[t].vp \in Accessible(t)
             /\ loc'[t].vp \in Private => ~pd_p'[loc'[t].vp]
  BY PageFacts DEF Asking, Flights
<1>2. ASSUME NEW t \in TProc, Bringing(t)'
      PROVE  /\ loc'[t].vp \in Accessible(t) /\ ~pd_p'[loc'[t].vp]
             /\ pfs_arr'[loc'[t].f].pid /\ pfs_arr'[loc'[t].f].vp = loc'[t].vp
             /\ ~(Writing' /\ loc'[t].f = i')
  BY <1>2, PageFacts DEF Flights
<1>3. ASSUME NEW t \in TProc, NEW u \in TProc, Bringing(t)', Bringing(u)', loc'[t].vp = loc'[u].vp
      PROVE  t = u
  BY <1>3 DEF Flights
<1> QED
  BY <1>0, <1>1, <1>2, <1>3 DEF Flights

LEMMA ReadingKept ==
    ASSUME NEW t \in TProc, Reading(t), Flights, Bringing(t)' => pc'[t] = pc[t] /\ loc'[t] = loc[t],
           Bringing(t)' => /\ pd_r'[loc[t].vp] <=> pd_r[loc[t].vp]
                           /\ pd_frame'[loc[t].vp] = pd_frame[loc[t].vp]
                           /\ mem'[loc[t].f] = mem[loc[t].f]
    PROVE  Reading(t)'
BY DEF Reading, Bringing

LEMMA FramesKept ==
    ASSUME Frames,
           \A t \in TProc : pc'[t] = "gone" <=> pc[t] = "gone",
           \A v \in VPage : pd_p'[v] <=> pd_p[v],
           pd_frame' = pd_frame,
           \A f \in Frame : /\ pfs_arr'[f].pid <=> pfs_arr[f].pid
                            /\ pfs_arr'[f].vp = pfs_arr[f].vp,
           \A v \in VPage : pd_p[v] /\ Live(v) => mem'[pd_frame[v]] = mem[pd_frame[v]],
           \A t \in TProc : Bringing(t) => Bringing(t)' /\ loc'[t].f = loc[t].f,
           Writing' <=> Writing, Writing => i' = i
    PROVE  Frames'
<1>1. \A v \in VPage : Live(v)' <=> Live(v)
  BY LiveKept
<1>2. ASSUME NEW v \in VPage, Live(v)', pd_p'[v]
      PROVE  /\ pd_frame'[v] \in Frame
             /\ pfs_arr'[pd_frame'[v]].pid /\ pfs_arr'[pd_frame'[v]].vp = v
             /\ mem'[pd_frame'[v]] = v
             /\ ~(Writing' /\ pd_frame'[v] = i')
  <2>1. Live(v) /\ pd_p[v]
    BY <1>1, <1>2
  <2> QED
    BY <2>1 DEF Frames
<1>3. ASSUME NEW f \in Frame, pfs_arr'[f].pid
      PROVE  /\ pfs_arr'[f].vp \in VPage /\ Live(pfs_arr[f].vp)'
             /\ \/ pd_p'[pfs_arr'[f].vp] /\ pd_frame'[pfs_arr'[f].vp] = f
                \/ \E t \in TProc : Bringing(t)' /\ loc'[t].f = f
                \/ Writing' /\ f = i'
  <2>1. pfs_arr[f].pid /\ pfs_arr'[f].vp = pfs_arr[f].vp
    BY <1>3
  <2>2. /\ pfs_arr[f].vp \in VPage /\ Live(pfs_arr[f].vp)
        /\ \/ pd_p[pfs_arr[f].vp] /\ pd_frame[pfs_arr[f].vp] = f
           \/ \E t \in TProc : Bringing(t) /\ loc[t].f = f
           \/ Writing /\ f = i
    BY <2>1 DEF Frames
  <2>3. Live(pfs_arr[f].vp)'
    <3> DEFINE w == pfs_arr[f].vp
    <3>1. w \in VPage /\ Live(w) /\ w' = w
      BY <2>1, <2>2
    <3> HIDE DEF w
    <3>2. w[1] = SHARED \/ pc'[w[1]] # "gone"
      BY <3>1, <1>1 DEF Live
    <3> QED
      BY <2>1, <3>2 DEF Live, w
  <2> QED
    BY <2>1, <2>2, <2>3
<1> QED
  BY <1>2, <1>3 DEF Frames

\* The pages keep their sectors.
SameSectors == \A v \in VPage : Live(v) => \A s : Holds(v, s)' <=> Holds(v, s)

LEMMA SectorsKept ==
    ASSUME Sectors, Space, SameSectors, disk' = disk,
           \A t \in TProc : pc'[t] = "gone" <=> pc[t] = "gone"
    PROVE  Sectors' /\ Space'
<1>1. \A v \in VPage : Live(v)' <=> Live(v)
  BY LiveKept
<1>2. Sectors'
  BY <1>1 DEF Sectors, SameSectors
<1>3. Holders' = Holders
  BY <1>1 DEF Holders, SameSectors
<1> QED
  BY <1>2, <1>3 DEF Space

LEMMA SameHolds ==
    ASSUME pd_frame' = pd_frame, pfs_arr' = pfs_arr, \A v \in VPage : pd_p'[v] <=> pd_p[v],
           \A v \in VPage : pd_p[v] \/ (pd_r'[v] <=> pd_r[v])
    PROVE  SameSectors /\ \A v \in VPage : Out(v)' <=> Out(v)
<1>1. \A v \in VPage : Out(v)' <=> Out(v)
  BY DEF Out
<1>2. \A f, v, s : Keeps(f, v, s)' <=> Keeps(f, v, s)
  BY DEF Keeps
<1> QED
  BY <1>1, <1>2 DEF Holds, SameSectors

LEMMA WritesKept ==
    ASSUME Writes, pd_frame' = pd_frame, pfs_arr' = pfs_arr,
           \A v \in VPage : Out(v)' <=> Out(v),
           Writing' => Writing, at' = "write" => at = "write",
           Writing => i' = i /\ to' = to /\ mem'[i] = mem[i]
    PROVE  Writes'
<1> SUFFICES ASSUME Writing' PROVE Writes'
  BY DEF Writes, Writing
<1>1. i' = i /\ to' = to /\ mem'[i] = mem[i] /\ Writing
  OBVIOUS
<1>2. \A f, v, s : Keeps(f, v, s)' <=> Keeps(f, v, s)
  BY DEF Keeps
<1>3. \A v \in VPage : \A s : Elsewhere(v, s)' <=> Elsewhere(v, s)
  BY <1>1, <1>2 DEF Elsewhere
<1>4. pfs_arr[i].pid /\ pfs_arr[i].vp \in VPage /\ to \in Sector /\ Elsewhere(pfs_arr[i].vp, to)
  BY <1>1 DEF Writes
<1>5. pfs_arr'[i'] = pfs_arr[i] /\ pfs_arr'[i'].vp = pfs_arr[i].vp
  BY <1>1
<1>6. \A v : v = pfs_arr[i].vp => Elsewhere(v, to)' /\ (Out(v)' <=> Out(v))
  BY <1>1, <1>3, <1>4
<1> QED
  BY <1>1, <1>4, <1>5, <1>6 DEF Writes

LEMMA StoredKept ==
    ASSUME Stored, pd_frame' = pd_frame, floppy' = floppy,
           \A t \in TProc : pc'[t] = "gone" <=> pc[t] = "gone",
           \A v \in VPage : Out(v)' => Out(v),
           at = "write" => at' = "write" /\ pfs_arr'[i'].vp = pfs_arr[i].vp
    PROVE  Stored'
BY LiveKept DEF Stored

LEMMA OrderKept ==
    ASSUME Order, sem'["floppy"] = sem["floppy"],
           at' = "write" => at = "write" /\ i' = i /\ pfs_arr'[i].vp = pfs_arr[i].vp,
           \A t \in TProc : pc'[t] \in {"reading", "read"} => pc'[t] = pc[t] /\ loc'[t].vp = loc[t].vp
    PROVE  Order'
BY DEF Order, Waits

\* Steps that change neither the frames nor the sectors of pages; of the
\* contents, only that of a frame somebody brings a page into.
Quiet ==
    /\ pd_p' = pd_p /\ pd_frame' = pd_frame /\ pfs_arr' = pfs_arr /\ disk' = disk /\ floppy' = floppy
    /\ \A v \in VPage : pd_p[v] \/ (pd_r'[v] <=> pd_r[v])
    /\ \A f \in Frame : mem'[f] = mem[f] \/ \E t \in TProc : Bringing(t) /\ loc[t].f = f
    /\ \A t \in TProc : pc'[t] = "gone" <=> pc[t] = "gone"
    /\ \A t \in TProc : Bringing(t)' <=> Bringing(t)
    /\ \A t \in TProc : Bringing(t) => loc'[t].vp = loc[t].vp /\ loc'[t].f = loc[t].f
    /\ at' = "write" <=> at = "write"
    /\ Writing' <=> Writing
    /\ Writing => i' = i /\ to' = to

LEMMA QuietStep ==
    ASSUME TypeOK, Flights, Frames, Sectors, Space, Writes, Stored, Quiet
    PROVE  Frames' /\ Sectors' /\ Space' /\ Writes' /\ Stored'
<1>1. Frames'
  <2>1. ASSUME NEW v \in VPage, pd_p[v], Live(v)
        PROVE  mem'[pd_frame[v]] = mem[pd_frame[v]]
    <3>1. pd_frame[v] \in Frame /\ pfs_arr[pd_frame[v]].vp = v
      BY <2>1 DEF Frames
    <3>2. \A t \in TProc : Bringing(t) => loc[t].f # pd_frame[v]
      BY <2>1, <3>1 DEF Flights
    <3> QED
      BY <3>1, <3>2 DEF Quiet
  <2> QED
    BY <2>1, FramesKept DEF Quiet
<1>2. SameSectors /\ \A v \in VPage : Out(v)' <=> Out(v)
  BY SameHolds DEF Quiet
<1>3. Sectors' /\ Space'
  BY <1>2, SectorsKept DEF Quiet
<1>4. Writes'
  <2>1. Writing => mem'[i] = mem[i]
    BY DEF Flights, Quiet, TypeOK
  <2> QED
    BY <1>2, <2>1, WritesKept DEF Quiet
<1>5. Stored'
  <2>1. at = "write" => i' = i
    BY DEF Quiet, Writing
  <2> QED
    BY <1>2, <2>1, StoredKept DEF Quiet
<1> QED
  BY <1>1, <1>3, <1>4, <1>5

\* A step of a T-process, seen from the others.
LEMMA OneMoves ==
    ASSUME TypeOK, NEW t \in TProc, NEW l, pc' = [pc EXCEPT ![t] = l]
    PROVE  pc'[t] = l /\ \A u \in TProc : u # t => pc'[u] = pc[u]
BY DEF TypeOK

LEMMA OneLocal ==
    ASSUME TypeOK, NEW t \in TProc, NEW x, loc' = [loc EXCEPT ![t] = x]
    PROVE  loc'[t] = x /\ \A u \in TProc : u # t => loc'[u] = loc[u]
BY DEF TypeOK

\* The actions of T-processes that are quiet.
LEMMA QuietT ==
    ASSUME TypeOK, NEW t \in TProc,
           \/ \E v \in VPage : Touch(t, v) \/ Fault(t, v)
           \/ LockFrames(t) \/ TestReferenced(t) \/ pagein_Start(t) \/ pagein_Read(t)
           \/ LockTable(t) \/ Terminate(t)
    PROVE  Quiet
<1>1. /\ pd_p' = pd_p /\ pd_frame' = pd_frame /\ pfs_arr' = pfs_arr /\ disk' = disk
      /\ floppy' = floppy /\ at' = at /\ i' = i /\ to' = to
  BY DEF Touch, Fault, LockFrames, TestReferenced, pagein_Start, pagein_Read, LockTable, Terminate,
         tables, contents, daemon
<1>2. \A v \in VPage : pd_p[v] \/ (pd_r'[v] <=> pd_r[v])
  <2>1. \/ pd_r' = pd_r
        \/ \E w \in VPage : pd_p[w] /\ pd_r' = [pd_r EXCEPT ![w] = TRUE]
    BY DEF Touch, Fault, LockFrames, TestReferenced, pagein_Start, pagein_Read, LockTable, Terminate,
           tables
  <2> QED
    BY <2>1 DEF TypeOK
<1>3. \A f \in Frame : mem'[f] = mem[f] \/ \E u \in TProc : Bringing(u) /\ loc[u].f = f
  <2>1. \/ mem' = mem
        \/ Bringing(t) /\ \E x : mem' = [mem EXCEPT ![loc[t].f] = x]
    BY DEF Touch, Fault, LockFrames, TestReferenced, pagein_Start, pagein_Read, LockTable, Terminate,
           contents, Bringing, At
  <2> QED
    BY <2>1 DEF TypeOK
<1>4. \/ pc' = pc
      \/ \E l : /\ pc' = [pc EXCEPT ![t] = l] /\ pc[t] # "gone" /\ l # "gone"
                /\ Bringing(t) <=> l \in {"got", "in", "reading", "read", "paged", "set"}
  BY DEF Touch, Fault, LockFrames, TestReferenced, pagein_Start, pagein_Read, LockTable, Terminate,
         At, Goto, Bringing
<1>5. \A u \in TProc : (pc'[u] = "gone" <=> pc[u] = "gone") /\ (Bringing(u)' <=> Bringing(u))
  BY <1>4, OneMoves DEF Bringing
<1>6. \A u \in TProc : Bringing(u) => loc'[u].vp = loc[u].vp /\ loc'[u].f = loc[u].f
  <2>1. \/ loc' = loc
        \/ \E x : loc' = [loc EXCEPT ![t].pos = x]
        \/ ~Bringing(t) /\ \E x : loc' = [loc EXCEPT ![t].vp = x]
    BY DEF Touch, Fault, LockFrames, TestReferenced, pagein_Start, pagein_Read, LockTable, Terminate,
           At, Bringing
  <2>2. loc \in [TProc -> [vp : VPage \cup {NONE}, f : Frame, pos : 0..S]]
    BY DEF TypeOK
  <2>3. ASSUME NEW x, loc' = [loc EXCEPT ![t].pos = x]
        PROVE  \A u \in TProc : loc'[u].vp = loc[u].vp /\ loc'[u].f = loc[u].f
    BY <2>2, <2>3
  <2>4. ASSUME NEW x, loc' = [loc EXCEPT ![t].vp = x], ~Bringing(t)
        PROVE  \A u \in TProc : Bringing(u) => loc'[u] = loc[u]
    BY <2>2, <2>4
  <2> QED
    BY <2>1, <2>3, <2>4
<1> QED
  BY <1>1, <1>2, <1>3, <1>5, <1>6 DEF Quiet, Writing

LEMMA QuietD ==
    ASSUME TypeOK, WaitForSignal \/ TestCount \/ LockFrame \/ Pass \/ UNCHANGED vars
    PROVE  Quiet
<1>1. /\ pd_p' = pd_p /\ pd_frame' = pd_frame /\ pfs_arr' = pfs_arr /\ disk' = disk
      /\ floppy' = floppy /\ mem' = mem /\ pc' = pc /\ loc' = loc
  BY DEF WaitForSignal, TestCount, LockFrame, Pass, tables, contents, vars
<1>2. \A v \in VPage : pd_p[v] \/ (pd_r'[v] <=> pd_r[v])
  <2>1. \/ pd_r' = pd_r
        \/ \E w : pd_p[w] /\ pd_r' = [pd_r EXCEPT ![w] = FALSE]
    BY DEF WaitForSignal, TestCount, LockFrame, Pass, tables, vars, Candidate
  <2> QED
    BY <2>1 DEF TypeOK
<1>3. \/ UNCHANGED <<at, i, to>>
      \/ at \notin {"write", "written"} /\ at' \notin {"write", "written"}
  BY DEF WaitForSignal, TestCount, LockFrame, Pass, Advance, Daemon, vars, daemon
<1> QED
  BY <1>1, <1>2, <1>3 DEF Quiet, Writing, Bringing

LEMMA FlightsQuiet ==
    ASSUME Flights, Quiet,
           \A t \in TProc : pc'[t] \in {"pf", "mm"} =>
               \/ pc[t] \in {"pf", "mm"} /\ loc'[t].vp = loc[t].vp
               \/ loc'[t].vp \in Accessible(t) /\ ~pd_p[loc'[t].vp]
    PROVE  Flights'
<1>1. \A v \in VPage : pd_p'[v] => pd_p[v]
  BY DEF Quiet
<1>2. ASSUME NEW t \in TProc, Bringing(t)'
      PROVE  /\ Bringing(t) /\ loc'[t].vp = loc[t].vp /\ loc'[t].f = loc[t].f
             /\ pfs_arr'[loc[t].f].pid /\ pfs_arr'[loc[t].f].vp = loc[t].vp
             /\ ~(Writing' /\ loc[t].f = i')
  BY <1>2 DEF Quiet, Flights
<1> QED
  BY <1>1, <1>2, FlightsKept

LEMMA ReadsOthers ==
    ASSUME Quiet, Flights, Reads, NEW u \in TProc,
           Bringing(u)' => /\ pc'[u] = pc[u] /\ loc'[u] = loc[u]
                           /\ mem'[loc[u].f] = mem[loc[u].f]
    PROVE  Reading(u)'
<1>1. Reading(u)
  BY DEF Reads
<1>2. Bringing(u)' => loc[u].vp \in VPage /\ ~pd_p[loc[u].vp]
  BY PageFacts DEF Flights, Quiet
<1>3. Bringing(u)' => /\ pd_r'[loc[u].vp] <=> pd_r[loc[u].vp]
                      /\ pd_frame'[loc[u].vp] = pd_frame[loc[u].vp]
  BY <1>2 DEF Quiet
<1> QED
  BY <1>1, <1>3, ReadingKept

\* Two processes do not bring pages into the same frame.
LEMMA OwnFrames ==
    ASSUME Flights, NEW t \in TProc, NEW u \in TProc, Bringing(t), Bringing(u), loc[t].f = loc[u].f
    PROVE  t = u
BY DEF Flights

LEMMA PlainStep ==
    ASSUME TypeOK, Flights, Reads, Order, NEW t \in TProc,
           \/ \E v \in VPage : Touch(t, v) \/ Fault(t, v)
           \/ LockFrames(t) \/ Terminate(t)
    PROVE  Flights' /\ Reads'
<1>1. Quiet
  BY QuietT
<1>2. \/ \E v \in Accessible(t) : /\ loc' = [loc EXCEPT ![t].vp = v] /\ ~pd_p[v]
                                  /\ pc' = [pc EXCEPT ![t] = "pf"]
      \/ loc' = loc /\ pc' = [pc EXCEPT ![t] = "mm"] /\ pc[t] = "pf"
      \/ loc' = loc /\ pc' = [pc EXCEPT ![t] = "exit"]
      \/ loc' = loc /\ pc' = pc
  BY DEF Touch, Fault, LockFrames, Terminate, At, Goto
<1>3. Flights'
  <2>1. CASE \/ loc' = loc /\ pc' = [pc EXCEPT ![t] = "mm"] /\ pc[t] = "pf"
             \/ loc' = loc /\ pc' = [pc EXCEPT ![t] = "exit"]
             \/ loc' = loc /\ pc' = pc
    <3>1. \A u \in TProc : pc'[u] \in {"pf", "mm"} => pc[u] \in {"pf", "mm"}
      BY <2>1 DEF TypeOK
    <3> QED
      BY <1>1, <2>1, <3>1, FlightsQuiet
  <2>2. ASSUME NEW v \in Accessible(t), loc' = [loc EXCEPT ![t].vp = v], ~pd_p[v],
               pc' = [pc EXCEPT ![t] = "pf"]
        PROVE  Flights'
    <3>1. loc'[t].vp = v /\ \A u \in TProc : u # t => loc'[u] = loc[u] /\ pc'[u] = pc[u]
      BY <2>2 DEF TypeOK
    <3> QED
      BY <1>1, <2>2, <3>1, FlightsQuiet
  <2> QED
    BY <1>2, <2>1, <2>2
<1>4. ASSUME NEW u \in TProc PROVE Reading(u)'
  <2>1. mem' = mem
    BY DEF Touch, Fault, LockFrames, Terminate, contents
  <2>2. ~Bringing(t)
    BY DEF Touch, Fault, LockFrames, Terminate, At, Bringing
  <2>3. ~Bringing(t)'
    BY <1>1, <2>2 DEF Quiet
  <2>4. u # t => pc'[u] = pc[u]
    BY <1>2, OneMoves
  <2>5. u # t => loc'[u] = loc[u]
    BY <1>2 DEF TypeOK
  <2> QED
    BY <1>1, <2>1, <2>3, <2>4, <2>5, ReadsOthers
<1> QED
  BY <1>3, <1>4 DEF Reads

LEMMA DaemonStep ==
    ASSUME TypeOK, Flights, Reads,
           WaitForSignal \/ TestCount \/ LockFrame \/ Pass \/ UNCHANGED vars
    PROVE  Flights' /\ Reads'
<1>1. Quiet
  BY QuietD
<1>2. pc' = pc /\ loc' = loc /\ mem' = mem
  BY DEF WaitForSignal, TestCount, LockFrame, Pass, contents, vars
<1> QED
  BY <1>1, <1>2, FlightsQuiet, ReadsOthers DEF Reads

\* What page t brings in, and that it does not matter to others.
LEMMA FlightStep ==
    ASSUME TypeOK, Flights, Reads, NEW t \in TProc, Bringing(t), Quiet,
           \A u \in TProc : u # t => pc'[u] = pc[u] /\ loc'[u] = loc[u],
           \A f \in Frame : f # loc[t].f => mem'[f] = mem[f],
           Reading(t)'
    PROVE  Flights' /\ Reads'
<1>1. Bringing(t)'
  BY DEF Quiet
<1>2. \A u \in TProc : u # t /\ Bringing(u)' => mem'[loc[u].f] = mem[loc[u].f]
  <2>1. ASSUME NEW u \in TProc, u # t, Bringing(u)'
        PROVE  loc[u].f # loc[t].f
    BY <2>1, OwnFrames DEF Quiet
  <2> QED
    BY <2>1, TypeFacts
<1>3. ASSUME NEW u \in TProc PROVE Reading(u)'
  BY <1>2, ReadsOthers
<1>4. Flights'
  <2>1. pc'[t] \notin {"pf", "mm"}
    BY <1>1 DEF Bringing
  <2> QED
    BY <2>1, FlightsQuiet
<1> QED
  BY <1>3, <1>4 DEF Reads

LEMMA TestStep ==
    ASSUME TypeOK, Flights, Reads, NEW t \in TProc, TestReferenced(t)
    PROVE  Flights' /\ Reads'
<1>1. Quiet /\ Bringing(t)
  BY QuietT DEF TestReferenced, At, Bringing
<1>2. loc[t].vp \in VPage /\ loc[t].f \in Frame /\ ~pd_p[loc[t].vp]
  BY <1>1, TypeFacts, PageFacts DEF Flights
<1>3. pd_r' = pd_r /\ loc' = loc /\ pd_frame' = pd_frame
  BY DEF TestReferenced, tables
<1>4. CASE pd_r[loc[t].vp]
  <2>1. pc' = [pc EXCEPT ![t] = "set"] /\ mem' = [mem EXCEPT ![loc[t].f] = loc[t].vp]
    BY <1>4 DEF TestReferenced, Goto
  <2>2. /\ pc'[t] = "set" /\ mem'[loc[t].f] = loc[t].vp
        /\ \A u \in TProc : u # t => pc'[u] = pc[u]
        /\ \A f \in Frame : f # loc[t].f => mem'[f] = mem[f]
    BY <1>2, <2>1 DEF TypeOK
  <2>3. Reading(t)'
    BY <1>3, <1>4, <2>2 DEF Reading
  <2> QED
    BY <1>1, <1>3, <2>1, <2>2, <2>3, FlightStep
<1>5. CASE ~pd_r[loc[t].vp]
  <2>1. pc' = [pc EXCEPT ![t] = "in"] /\ mem' = mem
    BY <1>5 DEF TestReferenced, Goto
  <2>2. pc'[t] = "in" /\ \A u \in TProc : u # t => pc'[u] = pc[u]
    BY <2>1 DEF TypeOK
  <2>3. Reading(t)'
    BY <1>3, <1>5, <2>2 DEF Reading
  <2> QED
    BY <1>1, <1>3, <2>1, <2>2, <2>3, FlightStep
<1> QED
  BY <1>4, <1>5

LEMMA StartStep ==
    ASSUME TypeOK, Flights, Reads, NEW t \in TProc, pagein_Start(t)
    PROVE  Flights' /\ Reads'
<1>1. Quiet /\ Bringing(t) /\ pc[t] = "in"
  BY QuietT DEF pagein_Start, At, Bringing
<1>2. /\ pd_r' = pd_r /\ pd_frame' = pd_frame /\ mem' = mem
      /\ loc' = [loc EXCEPT ![t].pos = pd_frame[loc[t].vp]] /\ pc' = [pc EXCEPT ![t] = "reading"]
  BY DEF pagein_Start, tables, contents, Goto
<1>3. /\ loc'[t].vp = loc[t].vp /\ loc'[t].pos = pd_frame[loc[t].vp] /\ pc'[t] = "reading"
      /\ \A u \in TProc : u # t => pc'[u] = pc[u] /\ loc'[u] = loc[u]
  BY <1>2 DEF TypeOK
<1>4. ~pd_r[loc[t].vp]
  BY <1>1 DEF Reads, Reading
<1>5. Reading(t)'
  BY <1>2, <1>3, <1>4 DEF Reading
<1> QED
  BY <1>1, <1>2, <1>3, <1>5, FlightStep

LEMMA LockTableStep ==
    ASSUME TypeOK, Flights, Reads, NEW t \in TProc, LockTable(t)
    PROVE  Flights' /\ Reads'
<1>1. Quiet /\ Bringing(t) /\ pc[t] = "paged"
  BY QuietT DEF LockTable, At, Bringing
<1>2. pd_r' = pd_r /\ mem' = mem /\ loc' = loc /\ pc' = [pc EXCEPT ![t] = "set"]
  BY DEF LockTable, tables, contents, Goto
<1>3. pc'[t] = "set" /\ Reading(t) /\ \A u \in TProc : u # t => pc'[u] = pc[u]
  BY <1>2 DEF TypeOK, Reads
<1>4. Reading(t)'
  BY <1>1, <1>2, <1>3 DEF Reading
<1> QED
  BY <1>1, <1>2, <1>3, <1>4, FlightStep

\* The page a process reads is on the floppy when it has its turn.
LEMMA ReadStep ==
    ASSUME TypeOK, SemOK, Flights, Reads, Sectors, Stored, Order,
           NEW t \in TProc, pagein_Read(t)
    PROVE  Flights' /\ Reads'
<1> DEFINE v == loc[t].vp
<1>1. Quiet /\ Bringing(t) /\ pc[t] = "reading" /\ Ready(sem, t)
  BY QuietT DEF pagein_Read, At, Bringing
<1>2. v \in Accessible(t) /\ v \in VPage /\ loc[t].f \in Frame /\ ~pd_p[v]
  BY <1>1, TypeFacts, PageFacts DEF Flights
<1>3. Live(v) /\ Out(v) /\ loc[t].pos = pd_frame[v]
  <2>1. ~pd_r[v] /\ loc[t].pos = pd_frame[v]
    BY <1>1 DEF Reads, Reading
  <2>2. v[1] \in {t, SHARED}
    BY <1>2 DEF Accessible
  <2> QED
    BY <1>1, <1>2, <2>1, <2>2 DEF Live, Out
<1>4. pd_frame[v] \in Sector
  <2>1. Holds(v, pd_frame[v])
    BY <1>3 DEF Holds
  <2>2. pd_frame[v] \in disk
    BY <1>2, <1>3, <2>1 DEF Sectors
  <2> QED
    BY <2>2, TypeFacts
<1>5. floppy[pd_frame[v]] = v
  <2>1. ~Waits(sem, "floppy", t)
    BY <1>1, CountedFacts, SemsFacts DEF SemOK
  <2>2. ~(at = "write" /\ pfs_arr[i].vp = v)
    BY <1>1, <2>1 DEF Order
  <2> QED
    BY <1>2, <1>3, <2>2 DEF Stored
<1>6. /\ pd_r' = pd_r /\ pd_frame' = pd_frame /\ loc' = loc
      /\ pc' = [pc EXCEPT ![t] = "read"]
      /\ mem' = [mem EXCEPT ![loc[t].f] = v]
  <2>1. loc[t].pos # 0 /\ floppy[loc[t].pos] = v
    BY <1>3, <1>4, <1>5, WhoFacts
  <2> QED
    BY <2>1 DEF pagein_Read, tables, Goto
<1>7. /\ pc'[t] = "read" /\ mem'[loc[t].f] = v
      /\ \A u \in TProc : u # t => pc'[u] = pc[u]
      /\ \A f \in Frame : f # loc[t].f => mem'[f] = mem[f]
  BY <1>2, <1>6 DEF TypeOK
<1>8. Reading(t)'
  BY <1>3, <1>6, <1>7 DEF Reading, Out
<1> QED
  BY <1>1, <1>6, <1>7, <1>8, FlightStep

----------------------------------------------------------------------------
(***************************************************************************)
(* Steps that change the frames and sectors of pages.                      *)
(***************************************************************************)

\* getfreeframe: f is in nobody's use, and nobody brings v in.
LEMMA GetStep ==
    ASSUME PagInv, NEW t \in TProc, getfreeframe(t), breach = "none", breach' = "none"
    PROVE  Flights' /\ Reads' /\ Frames' /\ Sectors' /\ Space' /\ Writes' /\ Stored'
<1> USE DEF PagInv
<1> DEFINE v == loc[t].vp
<1>1. /\ pd_p' = pd_p /\ pd_r' = pd_r /\ pd_frame' = pd_frame /\ disk' = disk /\ mem' = mem
      /\ floppy' = floppy /\ at' = at /\ i' = i /\ to' = to
  BY DEF getfreeframe, contents, daemon
<1>2. pc[t] = "mm" /\ pc' = [pc EXCEPT ![t] = "got"] /\ Holding(v) = {}
  BY GetFacts
<1>3. PICK f \in Unused :
         /\ loc' = [loc EXCEPT ![t].f = f]
         /\ pfs_arr' = [pfs_arr EXCEPT ![f] = [pid |-> TRUE, vp |-> v, pos |-> 0]]
  BY GetFacts
<1>4. f \in Frame /\ ~pfs_arr[f].pid
  BY DEF Unused
<1>5. /\ pc'[t] = "got" /\ \A u \in TProc : u # t => pc'[u] = pc[u] /\ loc'[u] = loc[u]
      /\ loc'[t].vp = v /\ loc'[t].f = f
  BY <1>2, <1>3 DEF TypeOK
<1>6. /\ pfs_arr'[f].pid /\ pfs_arr'[f].vp = v /\ pfs_arr'[f].pos = 0
      /\ \A g \in Frame : g # f => pfs_arr'[g] = pfs_arr[g]
  BY <1>3, <1>4 DEF TypeOK
<1>7. /\ v \in Accessible(t) /\ v \in VPage /\ v[1] \in {t, SHARED}
      /\ v \in Private => ~pd_p[v]
  <2>1. t \in Asking
    BY <1>2 DEF Asking
  <2>2. v \in Accessible(t) /\ (v \in Private => ~pd_p[v])
    BY <2>1 DEF Flights
  <2> QED
    BY <2>2, PageFacts DEF Accessible
<1>8. ~pd_p[v]
  <2>1. ASSUME v \in Shared, pd_p[v] PROVE FALSE
    <3>1. Live(v)
      BY <2>1, PageFacts DEF Live
    <3>2. pd_frame[v] \in Holding(v)
      BY <1>7, <2>1, <3>1 DEF Frames, Holding
    <3> QED
      BY <1>2, <3>2
  <2> QED
    BY <1>7, <2>1, PageFacts
<1>9. \A u \in TProc : Bringing(u)' => u = t \/ Bringing(u)
  BY <1>5 DEF Bringing
<1>10. ~Bringing(t) /\ Bringing(t)' /\ \A u \in TProc : Bringing(u) => Bringing(u)'
  BY <1>2, <1>5 DEF Bringing
<1>11. \A u \in TProc : Bringing(u) => loc[u].f # f /\ loc[u].f \in Frame /\ loc[u].vp # v
  <2>1. ASSUME NEW u \in TProc, Bringing(u)
        PROVE  loc[u].f # f /\ loc[u].f \in Frame /\ loc[u].vp # v
    <3>1. /\ loc[u].f \in Frame /\ pfs_arr[loc[u].f].pid /\ pfs_arr[loc[u].f].vp = loc[u].vp
          /\ loc[u].vp \in Accessible(u)
      BY <2>1, TypeFacts DEF Flights
    <3>2. ASSUME loc[u].vp = v PROVE FALSE
      <4>1. v \in Private => u = t
        BY <1>7, <3>1, <3>2, PageFacts
      <4>2. v \in Shared => loc[u].f \in Holding(v)
        BY <3>1, <3>2 DEF Holding
      <4> QED
        BY <1>2, <1>7, <1>10, <2>1, <4>1, <4>2, PageFacts
    <3> QED
      BY <1>4, <3>1, <3>2
  <2> QED
    BY <2>1
<1>12. Writing => i # f /\ i \in Frame
  BY <1>4 DEF Writes, TypeOK
<1>13. Flights'
  <2>1. \A u \in TProc : \A w : w \in Accessible(u)' <=> w \in Accessible(u)
    BY DEF Accessible
  <2>2. ASSUME NEW u \in Asking'
        PROVE  /\ loc'[u].vp \in Accessible(u)
               /\ loc'[u].vp \in Private => ~pd_p'[loc'[u].vp]
    BY <1>1, <1>5 DEF Asking, Flights
  <2>3. ASSUME NEW u \in TProc, Bringing(u)'
        PROVE  /\ loc'[u].vp \in Accessible(u) /\ ~pd_p'[loc'[u].vp]
               /\ pfs_arr'[loc'[u].f].pid /\ pfs_arr'[loc'[u].f].vp = loc'[u].vp
               /\ ~(Writing' /\ loc'[u].f = i')
    <3>1. CASE u = t
      BY <1>1, <1>5, <1>6, <1>7, <1>8, <1>12, <3>1 DEF Writing
    <3>2. CASE u # t
      BY <1>1, <1>5, <1>6, <1>9, <1>11, <2>3, <3>2 DEF Flights, Writing
    <3> QED
      BY <3>1, <3>2
  <2>4. ASSUME NEW u \in TProc, NEW x \in TProc, Bringing(u)', Bringing(x)',
               loc'[u].vp = loc'[x].vp
        PROVE  u = x
    BY <1>5, <1>9, <1>11, <2>4 DEF Flights
  <2> QED
    BY <2>1, <2>2, <2>3, <2>4 DEF Flights
<1>14. Reads'
  <2>1. Reading(t)'
    BY <1>5 DEF Reading
  <2>2. ASSUME NEW u \in TProc, u # t PROVE Reading(u)'
    <3>1. Reading(u)
      BY DEF Reads
    <3> QED
      BY <1>1, <1>5, <2>2, <3>1, ReadingKept
  <2> QED
    BY <2>1, <2>2 DEF Reads
<1>15. \A u \in TProc : pc'[u] = "gone" <=> pc[u] = "gone"
  BY <1>2, <1>5
<1>16. \A w \in VPage : Live(w)' <=> Live(w)
  BY <1>15, LiveKept
<1>17. Frames'
  <2>1. ASSUME NEW w \in VPage, Live(w)', pd_p'[w]
        PROVE  /\ pd_frame'[w] \in Frame
               /\ pfs_arr'[pd_frame'[w]].pid /\ pfs_arr'[pd_frame'[w]].vp = w
               /\ mem'[pd_frame'[w]] = w
               /\ ~(Writing' /\ pd_frame'[w] = i')
    BY <1>1, <1>4, <1>6, <1>16, <2>1 DEF Frames, Writing
  <2>2. ASSUME NEW g \in Frame, pfs_arr'[g].pid
        PROVE  /\ pfs_arr'[g].vp \in VPage /\ Live(pfs_arr[g].vp)'
               /\ \/ pd_p'[pfs_arr'[g].vp] /\ pd_frame'[pfs_arr'[g].vp] = g
                  \/ \E u \in TProc : Bringing(u)' /\ loc'[u].f = g
                  \/ Writing' /\ g = i'
    <3>1. CASE g = f
      <4>1. v[1] = SHARED \/ pc'[v[1]] # "gone"
        BY <1>5, <1>7
      <4> QED
        BY <1>5, <1>6, <1>7, <1>10, <3>1, <4>1 DEF Live
    <3>2. CASE g # f
      <4> DEFINE w == pfs_arr[g].vp
      <4>1. pfs_arr[g].pid /\ pfs_arr'[g] = pfs_arr[g]
        BY <1>6, <2>2, <3>2
      <4>2. /\ w \in VPage /\ Live(w)
            /\ \/ pd_p[w] /\ pd_frame[w] = g
               \/ \E u \in TProc : Bringing(u) /\ loc[u].f = g
               \/ Writing /\ g = i
        BY <4>1 DEF Frames
      <4>3. w[1] = SHARED \/ pc'[w[1]] # "gone"
        <5> HIDE DEF w
        <5> QED
          BY <1>16, <4>2 DEF Live
      <4>4. \A u \in TProc : Bringing(u) /\ loc[u].f = g => Bringing(u)' /\ loc'[u].f = g
        BY <1>5, <1>10
      <4> QED
        BY <1>1, <4>1, <4>2, <4>3, <4>4 DEF Live, Writing
    <3> QED
      BY <3>1, <3>2
  <2> QED
    BY <2>1, <2>2 DEF Frames
<1>18. \A g \in Frame : \A w, s : Keeps(g, w, s) => Keeps(g, w, s)' /\ g # f
  BY <1>4, <1>6 DEF Keeps
<1>19. \A g \in Frame : \A w, s : Keeps(g, w, s)' => Keeps(g, w, s) \/ s = 0
  BY <1>6 DEF Keeps
<1>20. \A w : Out(w)' <=> Out(w)
  BY <1>1 DEF Out
<1>21. Sectors' /\ Space'
  <2>1. SameSectors
    BY <1>1, <1>18, <1>19, <1>20 DEF SameSectors, Holds
  <2> QED
    BY <1>1, <1>15, <2>1, SectorsKept
<1>22. Writes'
  <2>1. Writing' <=> Writing
    BY <1>1 DEF Writing
  <2>2. Writing => pfs_arr'[i] = pfs_arr[i]
    BY <1>6, <1>12
  <2>3. ASSUME Writing PROVE Elsewhere(pfs_arr[i].vp, to)'
    <3> DEFINE w == pfs_arr[i].vp
    <3>1. Elsewhere(w, to)
      BY <2>3 DEF Writes
    <3>2. \/ Out(w) /\ pd_frame[w] = to
          \/ \E g \in Frame : g # i /\ Keeps(g, w, to) /\ pfs_arr'[g] = pfs_arr[g]
      BY <1>1, <1>6, <1>18, <1>20, <3>1 DEF Elsewhere
    <3>3. pfs_arr'[i'].vp = w
      BY <1>1, <2>2, <2>3
    <3> QED
      BY <1>1, <3>2, <3>3 DEF Elsewhere, Keeps, Out
  <2> QED
    BY <1>1, <1>20, <2>1, <2>2, <2>3 DEF Writes, Writing, Out
<1>23. Stored'
  <2>1. at = "write" => at' = "write" /\ pfs_arr'[i'].vp = pfs_arr[i].vp
    BY <1>1, <1>6, <1>12 DEF Writing
  <2> QED
    BY <1>1, <1>15, <1>20, <2>1, StoredKept
<1> QED
  BY <1>13, <1>14, <1>17, <1>21, <1>22, <1>23

\* pagein ends: the page had a sector, and its frame has it now.
LEMMA EndStep ==
    ASSUME PagInv, NEW t \in TProc, pagein_End(t)
    PROVE  Flights' /\ Reads' /\ Frames' /\ Sectors' /\ Space' /\ Writes' /\ Stored'
<1> USE DEF PagInv
<1>0. PICK v, f, r : v = loc[t].vp /\ f = loc[t].f /\ r = loc[t].pos
  OBVIOUS
<1>1. /\ pd_p' = pd_p /\ pd_frame' = pd_frame /\ disk' = disk /\ mem' = mem /\ loc' = loc
      /\ floppy' = floppy /\ at' = at /\ i' = i /\ to' = to
      /\ pfs_arr' = [pfs_arr EXCEPT ![f].pos = r] /\ pd_r' = [pd_r EXCEPT ![v] = TRUE]
      /\ pc[t] = "read" /\ pc' = [pc EXCEPT ![t] = "paged"]
  BY <1>0 DEF pagein_End, contents, daemon, At, Goto
<1>2. Bringing(t)
  BY <1>1 DEF Bringing
<1>3. /\ v \in Accessible(t) /\ v \in VPage /\ f \in Frame /\ ~pd_p[v]
      /\ pfs_arr[f].pid /\ pfs_arr[f].vp = v /\ ~(Writing /\ f = i)
  BY <1>0, <1>2, TypeFacts, PageFacts DEF Flights
<1>4. ~pd_r[v] /\ r = pd_frame[v] /\ mem[f] = v
  BY <1>0, <1>1 DEF Reads, Reading
<1>5. Live(v) /\ Out(v)
  <2>1. v[1] \in {t, SHARED}
    BY <1>3 DEF Accessible
  <2> QED
    BY <1>1, <1>3, <1>4, <2>1 DEF Live, Out
<1>6. r \in Sector /\ r # 0 /\ \A s : Holds(v, s) => s = r
  <2>1. Holds(v, r)
    BY <1>4, <1>5 DEF Holds
  <2>2. r \in disk /\ \A s : Holds(v, s) => s = r
    BY <1>3, <1>5, <2>1 DEF Sectors
  <2> QED
    BY <2>2, TypeFacts, WhoFacts
<1>7. /\ pc'[t] = "paged" /\ \A u \in TProc : u # t => pc'[u] = pc[u]
  BY <1>1 DEF TypeOK
<1>8. /\ \A g \in Frame : /\ pfs_arr'[g].pid <=> pfs_arr[g].pid
                          /\ pfs_arr'[g].vp = pfs_arr[g].vp
                          /\ g # f => pfs_arr'[g].pos = pfs_arr[g].pos
      /\ pfs_arr'[f].pos = r
  BY <1>1, <1>3 DEF TypeOK
<1>9. pd_r'[v] /\ \A w \in VPage : w # v => (pd_r'[w] <=> pd_r[w])
  BY <1>1, <1>3 DEF TypeOK
<1>10. /\ \A u \in TProc : Bringing(u)' <=> Bringing(u)
       /\ \A u \in TProc : pc'[u] = "gone" <=> pc[u] = "gone"
       /\ Writing' <=> Writing
  BY <1>1, <1>7 DEF Bringing, Writing
<1>11. \A u \in TProc : Bringing(u) => /\ loc[u].vp \in VPage
                                       /\ loc[u].f \in Frame
                                       /\ u = t \/ loc[u].vp # v
  BY <1>0, <1>2, TypeFacts, PageFacts DEF Flights
<1>12. Flights'
  <2>1. \A u \in TProc : pc'[u] \in {"pf", "mm"} => pc[u] \in {"pf", "mm"}
    BY <1>7
  <2>2. \A u \in TProc : Bringing(u)' =>
           /\ pfs_arr'[loc[u].f].pid /\ pfs_arr'[loc[u].f].vp = loc[u].vp
           /\ ~(Writing' /\ loc[u].f = i')
    BY <1>1, <1>8, <1>10, <1>11 DEF Flights
  <2> QED
    BY <1>1, <1>10, <2>1, <2>2, FlightsKept
<1>13. Reads'
  <2>1. Reading(t)'
    BY <1>0, <1>1, <1>4, <1>7, <1>9 DEF Reading
  <2>2. ASSUME NEW u \in TProc, u # t PROVE Reading(u)'
    <3>1. Reading(u)
      BY DEF Reads
    <3>2. Bringing(u)' => (pd_r'[loc[u].vp] <=> pd_r[loc[u].vp])
      BY <1>9, <1>10, <1>11, <2>2
    <3> QED
      BY <1>1, <1>7, <2>2, <3>1, <3>2, ReadingKept
  <2> QED
    BY <2>1, <2>2 DEF Reads
<1>14. Frames'
  BY <1>1, <1>8, <1>10, FramesKept
<1>15. /\ ~Out(v)' /\ \A w \in VPage : w # v => (Out(w)' <=> Out(w))
  BY <1>1, <1>9 DEF Out
<1>16. /\ \A w \in VPage : w # v => \A g \in Frame : \A s : Keeps(g, w, s)' <=> Keeps(g, w, s)
  BY <1>3, <1>8 DEF Keeps
<1>17. ASSUME NEW w \in VPage, Live(w), NEW s
       PROVE  Holds(w, s)' <=> Holds(w, s)
  <2>1. CASE w # v
    BY <1>1, <1>15, <1>16, <2>1 DEF Holds
  <2>2. CASE w = v
    <3>1. Holds(w, s) <=> s = r
      BY <1>4, <1>5, <1>6, <2>2 DEF Holds
    <3>2. s = r => Holds(w, s)'
      <4>1. Keeps(f, w, r)'
        BY <1>3, <1>8, <2>2 DEF Keeps
      <4> QED
        BY <1>3, <1>6, <4>1 DEF Holds
    <3>3. Holds(w, s)' => s = r
      <4>1. ASSUME NEW g \in Frame, Keeps(g, w, s)', s # 0, g # f PROVE s = r
        <5>1. Keeps(g, w, s)
          BY <1>8, <4>1 DEF Keeps
        <5> QED
          BY <1>6, <2>2, <4>1, <5>1 DEF Holds
      <4>2. Keeps(f, w, s)' => s = r
        BY <1>8 DEF Keeps
      <4> QED
        BY <1>15, <2>2, <4>1, <4>2 DEF Holds
    <3> QED
      BY <3>1, <3>2, <3>3
  <2> QED
    BY <2>1, <2>2
<1>18. Sectors' /\ Space'
  BY <1>1, <1>10, <1>17, SectorsKept DEF SameSectors
<1>19. at = "write" => pfs_arr[i].vp # v
  BY <1>0, <1>1 DEF Order
<1>20. Writes'
  <2> SUFFICES ASSUME Writing PROVE Writes'
    BY <1>1, <1>10 DEF Writes, Writing
  <2> DEFINE w == pfs_arr[i].vp
  <2>1. /\ pfs_arr[i].pid /\ w \in VPage /\ to \in Sector /\ to # 0 /\ i \in Frame
        /\ Elsewhere(w, to) /\ f # i
    BY <1>3, WhoFacts DEF Writes, TypeOK
  <2>2. /\ pfs_arr'[i'].pid /\ pfs_arr'[i'].vp = w
    BY <1>1, <1>8, <2>1
  <2>3. \/ ~pd_p'[w] /\ ~pd_r'[w] /\ pd_frame'[w] = to
        \/ \E g \in Frame : g # i /\ pfs_arr'[g].pid /\ pfs_arr'[g].vp = w /\ pfs_arr'[g].pos = to
    <3>1. CASE w # v
      <4>1. \A g \in Frame : \A s : Keeps(g, w, s) => pfs_arr'[g].pid /\ pfs_arr'[g].vp = w /\ pfs_arr'[g].pos = s
        BY <1>3, <1>8, <3>1 DEF Keeps
      <4>2. pd_p'[w] = pd_p[w] /\ (pd_r'[w] <=> pd_r[w]) /\ pd_frame'[w] = pd_frame[w]
        BY <1>1, <1>9, <2>1, <3>1
      <4> QED
        BY <2>1, <4>1, <4>2 DEF Elsewhere, Out
    <3>2. CASE w = v
      <4>1. Holds(v, to)
        BY <2>1, <3>2 DEF Elsewhere, Holds
      <4>2. to = r
        BY <1>6, <4>1
      <4> QED
        BY <1>3, <1>8, <2>1, <3>2, <4>2
    <3> QED
      BY <3>1, <3>2
  <2>4. Elsewhere(pfs_arr[i].vp, to)'
    BY <1>1, <2>2, <2>3 DEF Elsewhere, Out, Keeps
  <2>5. at = "write" => /\ mem'[i'] = w /\ ~pd_p'[w] /\ ~pd_r'[w] /\ pd_frame'[w] = to'
    BY <1>1, <1>9, <1>19, <2>1 DEF Writes, Out
  <2>6. at' = "write" => Out(pfs_arr[i].vp)'
    BY <1>1, <2>2, <2>5 DEF Out
  <2> QED
    BY <1>1, <2>1, <2>2, <2>4, <2>5, <2>6 DEF Writes
<1>21. Stored'
  <2>1. at = "write" => at' = "write" /\ pfs_arr'[i'].vp = pfs_arr[i].vp
    BY <1>1, <1>8 DEF TypeOK
  <2>2. \A w \in VPage : Out(w)' => Out(w)
    BY <1>5, <1>15
  <2> QED
    BY <1>1, <1>10, <2>1, <2>2, StoredKept
<1> QED
  BY <1>12, <1>13, <1>14, <1>18, <1>20, <1>21

\* The page becomes present in the frame it was brought into.
LEMMA PresentStep ==
    ASSUME PagInv, NEW t \in TProc, SetPresent(t)
    PROVE  Flights' /\ Reads' /\ Frames' /\ Sectors' /\ Space' /\ Writes' /\ Stored'
<1> USE DEF PagInv
<1>0. PICK v, f : v = loc[t].vp /\ f = loc[t].f
  OBVIOUS
<1>1. /\ pd_r' = pd_r /\ pfs_arr' = pfs_arr /\ disk' = disk /\ mem' = mem
      /\ at' = at /\ i' = i /\ to' = to
      /\ pd_frame' = [pd_frame EXCEPT ![v] = f] /\ pd_p' = [pd_p EXCEPT ![v] = TRUE]
      /\ floppy' = [s \in Sector |-> IF floppy[s] = v THEN NONE ELSE floppy[s]]
      /\ loc' = [loc EXCEPT ![t] = NoLocals]
      /\ pc[t] = "set" /\ pc' = [pc EXCEPT ![t] = "user"]
  BY <1>0 DEF SetPresent, daemon, At, Goto
<1>2. Bringing(t)
  BY <1>1 DEF Bringing
<1>3. /\ v \in Accessible(t) /\ v \in VPage /\ f \in Frame /\ ~pd_p[v]
      /\ pfs_arr[f].pid /\ pfs_arr[f].vp = v /\ ~(Writing /\ f = i)
  BY <1>0, <1>2, TypeFacts, PageFacts DEF Flights
<1>4. pd_r[v] /\ mem[f] = v
  BY <1>0, <1>1 DEF Reads, Reading
<1>5. Live(v) /\ ~Out(v)
  <2>1. v[1] \in {t, SHARED}
    BY <1>3 DEF Accessible
  <2> QED
    BY <1>1, <1>3, <1>4, <2>1 DEF Live, Out
<1>6. pc'[t] = "user" /\ \A u \in TProc : u # t => pc'[u] = pc[u] /\ loc'[u] = loc[u]
  BY <1>1 DEF TypeOK
<1>7. /\ pd_p'[v] /\ pd_frame'[v] = f
      /\ \A w \in VPage : w # v => (pd_p'[w] <=> pd_p[w]) /\ pd_frame'[w] = pd_frame[w]
  BY <1>1, <1>3 DEF TypeOK
<1>8. /\ ~Bringing(t)'
      /\ \A u \in TProc : u # t => (Bringing(u)' <=> Bringing(u))
      /\ \A u \in TProc : pc'[u] = "gone" <=> pc[u] = "gone"
      /\ Writing' <=> Writing
  BY <1>1, <1>6 DEF Bringing, Writing
<1>9. ASSUME NEW u \in TProc, u # t, Bringing(u)
      PROVE  loc[u].vp # v /\ loc[u].vp \in VPage /\ loc[u].f # f
  BY <1>0, <1>2, <1>9, OwnFrames, PageFacts DEF Flights
<1>10. Flights'
  <2>1. \A u \in TProc : \A w : w \in Accessible(u)' <=> w \in Accessible(u)
    BY DEF Accessible
  <2>2. ASSUME NEW u \in Asking'
        PROVE  /\ loc'[u].vp \in Accessible(u)
               /\ loc'[u].vp \in Private => ~pd_p'[loc'[u].vp]
    <3>1. u \in TProc /\ u # t /\ u \in Asking
      BY <1>6 DEF Asking
    <3>2. loc[u].vp \in Accessible(u) /\ (loc[u].vp \in Private => ~pd_p[loc[u].vp])
      BY <3>1 DEF Flights
    <3>3. loc[u].vp \in Private => loc[u].vp # v
      BY <1>3, <3>1, <3>2, PageFacts
    <3> QED
      BY <1>6, <1>7, <3>1, <3>2, <3>3, PageFacts
  <2>3. ASSUME NEW u \in TProc, Bringing(u)'
        PROVE  /\ loc'[u].vp \in Accessible(u) /\ ~pd_p'[loc'[u].vp]
               /\ pfs_arr'[loc'[u].f].pid /\ pfs_arr'[loc'[u].f].vp = loc'[u].vp
               /\ ~(Writing' /\ loc'[u].f = i')
    <3>1. u # t /\ Bringing(u) /\ loc'[u] = loc[u]
      BY <1>6, <1>8, <2>3
    <3> QED
      BY <1>1, <1>7, <1>8, <1>9, <3>1 DEF Flights
  <2>4. ASSUME NEW u \in TProc, NEW x \in TProc, Bringing(u)', Bringing(x)',
               loc'[u].vp = loc'[x].vp
        PROVE  u = x
    BY <1>6, <1>8, <2>4 DEF Flights
  <2> QED
    BY <2>1, <2>2, <2>3, <2>4 DEF Flights
<1>11. Reads'
  <2>1. ASSUME NEW u \in TProc PROVE Reading(u)'
    <3>1. Reading(u)
      BY DEF Reads
    <3>2. Bringing(u)' => /\ pc'[u] = pc[u] /\ loc'[u] = loc[u]
                          /\ pd_frame'[loc[u].vp] = pd_frame[loc[u].vp]
      BY <1>6, <1>7, <1>8, <1>9
    <3> QED
      BY <1>1, <3>1, <3>2, ReadingKept
  <2> QED
    BY <2>1 DEF Reads
<1>12. \A w \in VPage : Live(w)' <=> Live(w)
  BY <1>8, LiveKept
<1>13. Frames'
  <2>1. ASSUME NEW w \in VPage, Live(w)', pd_p'[w]
        PROVE  /\ pd_frame'[w] \in Frame
               /\ pfs_arr'[pd_frame'[w]].pid /\ pfs_arr'[pd_frame'[w]].vp = w
               /\ mem'[pd_frame'[w]] = w
               /\ ~(Writing' /\ pd_frame'[w] = i')
    <3>1. CASE w = v
      BY <1>1, <1>3, <1>4, <1>7, <1>8, <3>1
    <3>2. CASE w # v
      BY <1>1, <1>7, <1>8, <1>12, <2>1, <3>2 DEF Frames
    <3> QED
      BY <3>1, <3>2
  <2>2. ASSUME NEW g \in Frame, pfs_arr'[g].pid
        PROVE  /\ pfs_arr'[g].vp \in VPage /\ Live(pfs_arr[g].vp)'
               /\ \/ pd_p'[pfs_arr'[g].vp] /\ pd_frame'[pfs_arr'[g].vp] = g
                  \/ \E u \in TProc : Bringing(u)' /\ loc'[u].f = g
                  \/ Writing' /\ g = i'
    <3>0. PICK w : w = pfs_arr[g].vp
      OBVIOUS
    <3>1. /\ pfs_arr[g].pid /\ pfs_arr'[g].vp = w
          /\ w \in VPage /\ Live(w)
          /\ \/ pd_p[w] /\ pd_frame[w] = g
             \/ \E u \in TProc : Bringing(u) /\ loc[u].f = g
             \/ Writing /\ g = i
      BY <1>1, <2>2, <3>0 DEF Frames
    <3>2. Live(pfs_arr[g].vp)'
      BY <1>12, <3>1 DEF Live
    <3>3. CASE g = f
      BY <1>3, <1>7, <3>0, <3>1, <3>2, <3>3
    <3>4. CASE g # f
      <4>1. \A u \in TProc : Bringing(u) /\ loc[u].f = g => Bringing(u)' /\ loc'[u].f = g
        BY <1>0, <1>6, <1>8, <3>4
      <4>2. pd_p[w] => w # v
        BY <1>3
      <4> QED
        BY <1>1, <1>7, <1>8, <3>1, <3>2, <4>1, <4>2
    <3> QED
      BY <3>3, <3>4
  <2> QED
    BY <2>1, <2>2 DEF Frames
<1>14. ~Out(v)' /\ \A w \in VPage : w # v => (Out(w)' <=> Out(w))
  BY <1>1, <1>7 DEF Out
<1>15. \A g, w, s : Keeps(g, w, s)' <=> Keeps(g, w, s)
  BY <1>1 DEF Keeps
<1>16. Sectors' /\ Space'
  <2>1. ASSUME NEW w \in VPage, NEW s PROVE Holds(w, s)' <=> Holds(w, s)
    BY <1>5, <1>7, <1>14, <1>15 DEF Holds
  <2> QED
    BY <1>1, <1>8, <2>1, SectorsKept DEF SameSectors
<1>17. Writes'
  <2> SUFFICES ASSUME Writing PROVE Writes'
    BY <1>1, <1>8 DEF Writes, Writing
  <2>0. PICK w : w = pfs_arr[i].vp
    OBVIOUS
  <2>1. /\ pfs_arr[i].pid /\ w \in VPage /\ to \in Sector
        /\ Elsewhere(w, to)
    BY <2>0 DEF Writes
  <2>2. Out(w) => w # v /\ Out(w)' /\ pd_frame'[w] = pd_frame[w]
    BY <1>5, <1>7, <1>14, <2>1
  <2>3. Elsewhere(w, to)'
    BY <1>1, <1>15, <2>1, <2>2 DEF Elsewhere
  <2>4. pfs_arr'[i'].vp = w /\ pfs_arr'[i'].pid
    BY <1>1, <2>0, <2>1
  <2>5. at = "write" => mem'[i'] = w /\ Out(w)' /\ pd_frame'[w] = to'
    BY <1>1, <2>0, <2>2 DEF Writes
  <2>6. (at' = "write" => Out(pfs_arr[i].vp)') /\ Elsewhere(pfs_arr[i].vp, to)'
    BY <1>1, <2>3, <2>4, <2>5 DEF Out, Elsewhere, Keeps
  <2> QED
    BY <1>1, <2>1, <2>4, <2>5, <2>6 DEF Writes
<1>18. Stored'
  <2>1. ASSUME NEW w \in VPage, Live(w)', Out(w)'
        PROVE  floppy'[pd_frame'[w]] = w \/ (at' = "write" /\ pfs_arr'[i'].vp = w)
    <3>1. w # v /\ Live(w) /\ Out(w) /\ pd_frame'[w] = pd_frame[w]
      BY <1>7, <1>12, <1>14, <2>1
    <3>2. pd_frame[w] \in Sector
      <4>1. Holds(w, pd_frame[w])
        BY <3>1 DEF Holds
      <4> QED
        BY <3>1, <4>1, TypeFacts DEF Sectors
    <3>3. floppy[pd_frame[w]] = w => floppy'[pd_frame[w]] = w
      BY <1>1, <3>1, <3>2
    <3> QED
      BY <1>1, <3>1, <3>3 DEF Stored
  <2> QED
    BY <2>1 DEF Stored
<1> QED
  BY <1>10, <1>11, <1>13, <1>16, <1>17, <1>18

\* The page that is written out gets to its sector.
LEMMA WriteStep ==
    ASSUME PagInv, Write
    PROVE  Flights' /\ Reads' /\ Frames' /\ Sectors' /\ Space' /\ Writes' /\ Stored'
<1> USE DEF PagInv
<1>0. PICK v : v = pfs_arr[i].vp
  OBVIOUS
<1>1. /\ pd_p' = pd_p /\ pd_r' = pd_r /\ pd_frame' = pd_frame /\ pfs_arr' = pfs_arr /\ disk' = disk
      /\ mem' = mem /\ pc' = pc /\ loc' = loc /\ i' = i /\ to' = to
      /\ at = "write" /\ at' = "written" /\ floppy' = [floppy EXCEPT ![to] = mem[i]]
  BY DEF Write, Daemon, tables
<1>2. Writing /\ Writing'
  BY <1>1 DEF Writing
<1>3. /\ v \in VPage /\ Live(v) /\ to \in Sector /\ mem[i] = v
      /\ Out(v) /\ pd_frame[v] = to
  <2>1. pfs_arr[i].pid /\ i \in Frame
    BY <1>2 DEF Writes, TypeOK
  <2> QED
    BY <1>0, <1>1, <1>2, <2>1 DEF Writes, Frames
<1>4. \A u \in TProc : Bringing(u)' <=> Bringing(u)
  BY <1>1 DEF Bringing
<1>5. Flights'
  <2>1. \A u \in TProc : Bringing(u) => loc[u].vp \in VPage
    BY PageFacts DEF Flights
  <2>2. \A u \in TProc : Bringing(u)' =>
          /\ pfs_arr'[loc[u].f].pid /\ pfs_arr'[loc[u].f].vp = loc[u].vp
          /\ ~(Writing' /\ loc[u].f = i')
    BY <1>1, <1>2, <1>4 DEF Flights
  <2> QED
    BY <1>1, <1>4, <2>2, FlightsKept
<1>6. Reads'
  BY <1>1 DEF Reads, Reading
<1>7. Frames'
  BY <1>1, <1>2, <1>4, FramesKept
<1>8. SameSectors /\ \A w \in VPage : Out(w)' <=> Out(w)
  BY <1>1, SameHolds
<1>9. Sectors' /\ Space'
  BY <1>1, <1>8, SectorsKept
<1>10. Writes'
  BY <1>1, <1>2, <1>8, WritesKept
<1>11. Stored'
  <2>1. ASSUME NEW w \in VPage, Live(w)', Out(w)'
        PROVE  floppy'[pd_frame'[w]] = w
    <3>1. Live(w) /\ Out(w)
      BY <1>1, <1>8, <2>1 DEF Live
    <3>2. CASE w = v
      BY <1>1, <1>3, <3>2 DEF TypeOK
    <3>3. CASE w # v
      <4>1. Holds(w, pd_frame[w]) /\ Holds(v, to)
        BY <1>3, <3>1 DEF Holds
      <4>2. pd_frame[w] # to
        BY <1>3, <3>1, <3>3, <4>1 DEF Sectors
      <4>3. pd_frame[w] \in Sector /\ floppy[pd_frame[w]] = w
        BY <1>0, <3>1, <3>3, <4>1, TypeFacts DEF Sectors, Stored
      <4> QED
        BY <1>1, <4>2, <4>3 DEF TypeOK
    <3> QED
      BY <3>2, <3>3
  <2> QED
    BY <2>1 DEF Stored
<1> QED
  BY <1>5, <1>6, <1>7, <1>9, <1>10, <1>11

\* The frame of the page that was written out is free: the page keeps its
\* sector without it.
LEMMA FreeStep ==
    ASSUME PagInv, FreeFrame
    PROVE  Flights' /\ Reads' /\ Frames' /\ Sectors' /\ Space' /\ Writes' /\ Stored'
<1> USE DEF PagInv
<1>0. PICK v, j, s : v = pfs_arr[i].vp /\ j = i /\ s = to
  OBVIOUS
<1>1. /\ pd_p' = pd_p /\ pd_r' = pd_r /\ pd_frame' = pd_frame /\ disk' = disk /\ floppy' = floppy
      /\ pc' = pc /\ loc' = loc /\ at = "written" /\ at' \notin {"write", "written"}
      /\ pfs_arr' = [pfs_arr EXCEPT ![j].pid = FALSE] /\ mem' = [mem EXCEPT ![j] = NONE]
  BY <1>0 DEF FreeFrame, Daemon, Advance
<1>2. Writing /\ ~Writing' /\ i \in Frame /\ j \in Frame
  BY <1>0, <1>1, TypeFacts DEF Writing
<1>3. pfs_arr[j].pid /\ v \in VPage /\ s \in Sector /\ s # 0 /\ Live(v) /\ Elsewhere(v, s)
  <2>1. pfs_arr[i].pid /\ to \in Sector /\ Elsewhere(pfs_arr[i].vp, to)
    BY <1>2 DEF Writes
  <2> QED
    BY <1>0, <1>2, <2>1, WhoFacts DEF Frames
<1>4. /\ \A g \in Frame : /\ pfs_arr'[g].pid <=> pfs_arr[g].pid /\ g # j
                          /\ pfs_arr'[g].vp = pfs_arr[g].vp
                          /\ pfs_arr'[g].pos = pfs_arr[g].pos
      /\ \A g \in Frame : g # j => mem'[g] = mem[g]
  BY <1>1, <1>2 DEF TypeOK
<1>5. /\ \A u \in TProc : Bringing(u)' <=> Bringing(u)
      /\ \A w \in VPage : Live(w)' <=> Live(w)
      /\ \A w \in VPage : Out(w)' <=> Out(w)
  BY <1>1 DEF Bringing, Live, Out
<1>6. \A u \in TProc : Bringing(u) => loc[u].f # j /\ loc[u].f \in Frame
  BY <1>0, <1>2, TypeFacts DEF Flights
<1>7. Flights'
  <2>1. \A u \in TProc : Bringing(u)' =>
          /\ pfs_arr'[loc[u].f].pid /\ pfs_arr'[loc[u].f].vp = loc[u].vp
          /\ ~(Writing' /\ loc[u].f = i')
    BY <1>2, <1>4, <1>5, <1>6 DEF Flights
  <2> QED
    BY <1>1, <1>5, <2>1, FlightsKept
<1>8. Reads'
  <2>1. ASSUME NEW u \in TProc PROVE Reading(u)'
    <3>1. Reading(u)
      BY DEF Reads
    <3>2. Bringing(u)' => mem'[loc[u].f] = mem[loc[u].f]
      BY <1>4, <1>5, <1>6
    <3> QED
      BY <1>1, <3>1, <3>2, ReadingKept
  <2> QED
    BY <2>1 DEF Reads
<1>9. Frames'
  <2>1. ASSUME NEW w \in VPage, Live(w)', pd_p'[w]
        PROVE  /\ pd_frame'[w] \in Frame
               /\ pfs_arr'[pd_frame'[w]].pid /\ pfs_arr'[pd_frame'[w]].vp = w
               /\ mem'[pd_frame'[w]] = w
               /\ ~(Writing' /\ pd_frame'[w] = i')
    <3>1. /\ Live(w) /\ pd_p[w] /\ pd_frame'[w] = pd_frame[w]
      BY <1>1, <1>5, <2>1
    <3>2. /\ pd_frame[w] \in Frame /\ pd_frame[w] # j
          /\ pfs_arr[pd_frame[w]].pid /\ pfs_arr[pd_frame[w]].vp = w
          /\ mem[pd_frame[w]] = w
      BY <1>0, <1>2, <3>1 DEF Frames
    <3> QED
      BY <1>2, <1>4, <3>1, <3>2
  <2>2. ASSUME NEW g \in Frame, pfs_arr'[g].pid
        PROVE  /\ pfs_arr'[g].vp \in VPage /\ Live(pfs_arr[g].vp)'
               /\ \/ pd_p'[pfs_arr'[g].vp] /\ pd_frame'[pfs_arr'[g].vp] = g
                  \/ \E u \in TProc : Bringing(u)' /\ loc'[u].f = g
                  \/ Writing' /\ g = i'
    <3>0. PICK w : w = pfs_arr[g].vp
      OBVIOUS
    <3>1. /\ pfs_arr[g].pid /\ pfs_arr'[g].vp = w /\ g # i
          /\ w \in VPage /\ Live(w)
          /\ \/ pd_p[w] /\ pd_frame[w] = g
             \/ \E u \in TProc : Bringing(u) /\ loc[u].f = g
      BY <1>0, <1>4, <2>2, <3>0 DEF Frames
    <3>2. Live(pfs_arr[g].vp)'
      BY <1>5, <3>1 DEF Live
    <3> QED
      BY <1>1, <1>5, <3>1, <3>2
  <2> QED
    BY <2>1, <2>2 DEF Frames
<1>10. \A g \in Frame : \A w, r : Keeps(g, w, r)' <=> g # j /\ Keeps(g, w, r)
  BY <1>4 DEF Keeps
<1>11. ASSUME NEW w \in VPage, Live(w), NEW r
       PROVE  Holds(w, r)' <=> Holds(w, r)
  <2>1. CASE w # v
    <3>1. \A g \in Frame : Keeps(g, w, r)' <=> Keeps(g, w, r)
      BY <1>0, <1>10, <2>1 DEF Keeps
    <3> QED
      BY <1>1, <1>5, <3>1 DEF Holds
  <2>2. CASE w = v
    <3>1. Holds(w, r)' => Holds(w, r)
      BY <1>1, <1>5, <1>10 DEF Holds
    <3>2. Holds(v, s) /\ Holds(v, s)'
      BY <1>0, <1>1, <1>3, <1>5, <1>10 DEF Holds, Elsewhere
    <3>3. Holds(w, r) => r = s
      BY <1>3, <2>2, <3>2 DEF Sectors
    <3> QED
      BY <2>2, <3>1, <3>2, <3>3
  <2> QED
    BY <2>1, <2>2
<1>12. Sectors' /\ Space'
  <2>1. SameSectors
    BY <1>11 DEF SameSectors
  <2> QED
    BY <1>1, <2>1, SectorsKept
<1>13. Writes'
  BY <1>1, <1>2 DEF Writes
<1>14. Stored'
  BY <1>1, <1>5, StoredKept
<1> QED
  BY <1>7, <1>8, <1>9, <1>12, <1>13, <1>14

\* A frame with a page that is present is that page's own.
LEMMA PresentFrame ==
    ASSUME TypeOK, Flights, Frames, ~Writing, NEW f \in Frame, pfs_arr[f].pid, pd_p[pfs_arr[f].vp]
    PROVE  /\ pfs_arr[f].vp \in VPage /\ Live(pfs_arr[f].vp)
           /\ pd_frame[pfs_arr[f].vp] = f /\ mem[f] = pfs_arr[f].vp
<1>1. /\ pfs_arr[f].vp \in VPage /\ Live(pfs_arr[f].vp)
      /\ \/ pd_p[pfs_arr[f].vp] /\ pd_frame[pfs_arr[f].vp] = f
         \/ \E t \in TProc : Bringing(t) /\ loc[t].f = f
  BY DEF Frames
<1>2. ~\E t \in TProc : Bringing(t) /\ loc[t].f = f
  BY DEF Flights
<1> QED
  BY <1>1, <1>2 DEF Frames

\* get_disk_pos finds a sector for a page that has none.
LEMMA DiskPos ==
    ASSUME TypeOK, Space, NEW v \in VPage, v \notin Holders
    PROVE  get_disk_pos \in Sector /\ get_disk_pos \notin disk
<1>1. Holders \subseteq VPage \ {v} /\ disk \subseteq Sector
  BY DEF Holders, TypeOK
<1>2. IsFiniteSet(VPage \ {v}) /\ Cardinality(VPage \ {v}) = Cardinality(VPage) - 1
  BY WhoFacts, FS_RemoveElement
<1>3. IsFiniteSet(Holders) /\ Cardinality(Holders) <= Cardinality(VPage \ {v})
  BY <1>1, <1>2, FS_Subset
<1>4. IsFiniteSet(disk) /\ Cardinality(disk) \in Nat /\ Cardinality(Holders) \in Nat
  BY <1>1, <1>3, WhoFacts, FS_Subset, FS_CardinalityType
<1>5. Cardinality(disk) < Cardinality(Sector)
  <2>1. Cardinality(Sector) \in Nat
    BY WhoFacts, FS_CardinalityType
  <2> QED
    BY <1>2, <1>3, <1>4, <2>1, WhoFacts DEF Space
<1>6. ~(Sector \subseteq disk)
  <2>1. Sector \subseteq disk => Cardinality(Sector) <= Cardinality(disk)
    BY <1>4, FS_Subset
  <2>2. Cardinality(Sector) \in Nat
    BY WhoFacts, FS_CardinalityType
  <2> QED
    BY <1>4, <1>5, <2>1, <2>2
<1>7. First(Sector \ disk) \in Sector \ disk
  <2>1. Sector \ disk \subseteq Nat /\ Sector \ disk # {}
    BY <1>6, WhoFacts
  <2> QED
    BY <2>1, FirstIn
<1> QED
  BY <1>6, <1>7 DEF get_disk_pos

\* pagedaemon takes a page away from its process.
LEMMA WriteOutFacts ==
    ASSUME PagInv, WriteOut
    PROVE  /\ ~Writing /\ i \in Frame /\ Ready(sem, PAGED) /\ at = "look"
           /\ \E v \in VPage, s \in Sector :
                 /\ v = pfs_arr[i].vp /\ pfs_arr[i].pid /\ Live(v) /\ pd_p[v] /\ ~pd_r[v]
                 /\ pd_frame[v] = i /\ mem[i] = v
                 /\ \A g \in Frame : pfs_arr[g].pid /\ pfs_arr[g].vp = v => g = i
                 /\ \A t \in TProc : Bringing(t) => loc[t].vp # v
                 /\ pfs_arr[i].pos # 0 => s = pfs_arr[i].pos /\ s \in disk /\ Holds(v, s)
                 /\ pfs_arr[i].pos = 0 => s \notin disk /\ v \notin Holders
                 /\ pd_p' = [pd_p EXCEPT ![v] = FALSE]
                 /\ pd_frame' = [pd_frame EXCEPT ![v] = s]
                 /\ disk' = disk \cup {s} /\ to' = s
<1> USE DEF PagInv
<1>0. PICK v, s : /\ v = pfs_arr[i].vp
                  /\ s = IF pfs_arr[i].pos # 0 THEN pfs_arr[i].pos ELSE get_disk_pos
  OBVIOUS
<1>1. /\ at = "look" /\ Ready(sem, PAGED) /\ pfs_arr[i].pid /\ pd_p[v] /\ ~pd_r[v]
      /\ pd_p' = [pd_p EXCEPT ![v] = FALSE]
      /\ pd_frame' = [pd_frame EXCEPT ![v] = s]
      /\ disk' = disk \cup {s} /\ to' = s
  BY <1>0 DEF WriteOut, Daemon, Candidate
<1>2. ~Writing /\ i \in Frame
  BY <1>1, TypeFacts DEF Writing
<1>3. v \in VPage /\ Live(v) /\ pd_frame[v] = i /\ mem[i] = v
  BY <1>0, <1>1, <1>2, PresentFrame
<1>4. \A g \in Frame : pfs_arr[g].pid /\ pfs_arr[g].vp = v => g = i
  BY <1>1, <1>2, <1>3, PresentFrame
<1>5. \A t \in TProc : Bringing(t) => loc[t].vp # v
  BY <1>1 DEF Flights
<1>6. ~Out(v)
  BY <1>1 DEF Out
<1>7. ASSUME pfs_arr[i].pos # 0
      PROVE  s = pfs_arr[i].pos /\ s \in disk /\ Holds(v, s)
  <2>1. Keeps(i, v, s) /\ s # 0
    BY <1>0, <1>1, <1>7 DEF Keeps
  <2>2. Holds(v, s)
    BY <1>2, <2>1 DEF Holds
  <2> QED
    BY <1>0, <1>3, <1>7, <2>2 DEF Sectors
<1>8. ASSUME pfs_arr[i].pos = 0
      PROVE  s \in Sector /\ s \notin disk /\ v \notin Holders
  <2>1. \A r : ~Holds(v, r)
    BY <1>4, <1>6, <1>8 DEF Holds, Keeps
  <2>2. v \notin Holders
    BY <1>3, <2>1 DEF Holders
  <2> QED
    BY <1>0, <1>3, <1>8, <2>2, DiskPos
<1>9. s \in Sector
  BY <1>7, <1>8, TypeFacts
<1> QED
  BY <1>0, <1>1, <1>2, <1>3, <1>4, <1>5, <1>7, <1>8, <1>9

LEMMA WriteOutStep ==
    ASSUME PagInv, WriteOut
    PROVE  Flights' /\ Reads' /\ Frames' /\ Sectors' /\ Space' /\ Writes' /\ Stored' /\ Order'
<1> USE DEF PagInv
<1>0. PICK v \in VPage, s \in Sector :
                 /\ v = pfs_arr[i].vp /\ pfs_arr[i].pid /\ Live(v) /\ pd_p[v] /\ ~pd_r[v]
                 /\ pd_frame[v] = i /\ mem[i] = v
                 /\ \A g \in Frame : pfs_arr[g].pid /\ pfs_arr[g].vp = v => g = i
                 /\ \A t \in TProc : Bringing(t) => loc[t].vp # v
                 /\ pfs_arr[i].pos # 0 => s = pfs_arr[i].pos /\ s \in disk /\ Holds(v, s)
                 /\ pfs_arr[i].pos = 0 => s \notin disk /\ v \notin Holders
                 /\ pd_p' = [pd_p EXCEPT ![v] = FALSE]
                 /\ pd_frame' = [pd_frame EXCEPT ![v] = s]
                 /\ disk' = disk \cup {s} /\ to' = s
  BY WriteOutFacts
<1>1. /\ pd_r' = pd_r /\ pfs_arr' = pfs_arr /\ mem' = mem /\ floppy' = floppy
      /\ pc' = pc /\ loc' = loc /\ i' = i /\ at' = "write"
  BY DEF WriteOut, contents
<1>2. ~Writing /\ Writing' /\ i \in Frame /\ at = "look"
  BY <1>1, WriteOutFacts DEF Writing
<1>3. /\ ~pd_p'[v] /\ pd_frame'[v] = s
      /\ \A w \in VPage : w # v => (pd_p'[w] <=> pd_p[w]) /\ pd_frame'[w] = pd_frame[w]
  BY <1>0 DEF TypeOK
<1>4. /\ \A u \in TProc : Bringing(u)' <=> Bringing(u)
      /\ \A w \in VPage : Live(w)' <=> Live(w)
      /\ Out(v)' /\ ~Out(v)
      /\ \A w \in VPage : w # v => (Out(w)' <=> Out(w))
  BY <1>0, <1>1, <1>3 DEF Bringing, Live, Out
<1>5. \A u \in TProc : Bringing(u) => loc[u].f # i /\ loc[u].vp \in VPage /\ loc[u].vp # v
  BY <1>0, PageFacts DEF Flights
<1>6. Flights'
  <2>1. \A w \in VPage : pd_p'[w] => pd_p[w]
    BY <1>3
  <2>2. \A u \in TProc : Bringing(u)' =>
          /\ pfs_arr'[loc[u].f].pid /\ pfs_arr'[loc[u].f].vp = loc[u].vp
          /\ ~(Writing' /\ loc[u].f = i')
    BY <1>1, <1>4, <1>5 DEF Flights
  <2> QED
    BY <1>1, <1>4, <2>1, <2>2, FlightsKept
<1>7. Reads'
  <2>1. ASSUME NEW u \in TProc PROVE Reading(u)'
    <3>1. Reading(u)
      BY DEF Reads
    <3>2. Bringing(u)' => pd_frame'[loc[u].vp] = pd_frame[loc[u].vp]
      BY <1>3, <1>4, <1>5
    <3> QED
      BY <1>1, <3>1, <3>2, ReadingKept
  <2> QED
    BY <2>1 DEF Reads
<1>8. Frames'
  <2>1. ASSUME NEW w \in VPage, Live(w)', pd_p'[w]
        PROVE  /\ pd_frame'[w] \in Frame
               /\ pfs_arr'[pd_frame'[w]].pid /\ pfs_arr'[pd_frame'[w]].vp = w
               /\ mem'[pd_frame'[w]] = w
               /\ ~(Writing' /\ pd_frame'[w] = i')
    <3>1. w # v /\ Live(w) /\ pd_p[w] /\ pd_frame'[w] = pd_frame[w]
      BY <1>3, <1>4, <2>1
    <3>2. /\ pd_frame[w] \in Frame /\ pd_frame[w] # i
          /\ pfs_arr[pd_frame[w]].pid /\ pfs_arr[pd_frame[w]].vp = w
          /\ mem[pd_frame[w]] = w
      BY <1>0, <3>1 DEF Frames
    <3> QED
      BY <1>1, <3>1, <3>2
  <2>2. ASSUME NEW g \in Frame, pfs_arr'[g].pid
        PROVE  /\ pfs_arr'[g].vp \in VPage /\ Live(pfs_arr[g].vp)'
               /\ \/ pd_p'[pfs_arr'[g].vp] /\ pd_frame'[pfs_arr'[g].vp] = g
                  \/ \E u \in TProc : Bringing(u)' /\ loc'[u].f = g
                  \/ Writing' /\ g = i'
    <3>0. PICK w : w = pfs_arr[g].vp
      OBVIOUS
    <3>1. /\ pfs_arr[g].pid /\ pfs_arr'[g].vp = w
          /\ w \in VPage /\ Live(w)
          /\ \/ pd_p[w] /\ pd_frame[w] = g
             \/ \E u \in TProc : Bringing(u) /\ loc[u].f = g
      BY <1>1, <1>2, <2>2, <3>0 DEF Frames
    <3>2. Live(pfs_arr[g].vp)'
      BY <1>1, <1>4, <3>0, <3>1 DEF Live
    <3>3. CASE g = i
      BY <1>1, <1>2, <3>1, <3>2, <3>3
    <3>4. CASE g # i
      <4>1. w # v
        BY <1>0, <3>0, <3>1, <3>4
      <4> QED
        BY <1>1, <1>3, <1>4, <3>1, <3>2, <4>1
    <3> QED
      BY <3>3, <3>4
  <2> QED
    BY <2>1, <2>2 DEF Frames
<1>9. \A g \in Frame : \A w, r : Keeps(g, w, r)' <=> Keeps(g, w, r)
  BY <1>1 DEF Keeps
<1>10. \A w \in VPage : w # v => \A r : Holds(w, r)' <=> Holds(w, r)
  BY <1>3, <1>4, <1>9 DEF Holds
<1>11. \A r : Holds(v, r)' <=> r = s
  <2>1. \A g \in Frame : \A r : r # 0 /\ Keeps(g, v, r) => r = s
    BY <1>0 DEF Keeps
  <2> QED
    BY <1>3, <1>4, <1>9, <2>1 DEF Holds
<1>12. \A w \in VPage : w # v /\ Live(w) => ~Holds(w, s)
  BY <1>0 DEF Sectors
<1>13. Sectors'
  <2>1. ASSUME NEW w \in VPage, NEW r, Live(w)', Holds(w, r)'
        PROVE  r \in disk'
    BY <1>0, <1>4, <1>10, <1>11, <2>1 DEF Sectors
  <2>2. ASSUME NEW w \in VPage, NEW r, NEW q, Live(w)', Holds(w, r)', Holds(w, q)'
        PROVE  r = q
    BY <1>4, <1>10, <1>11, <2>2 DEF Sectors
  <2>3. ASSUME NEW w \in VPage, NEW x \in VPage, NEW r, Live(w)', Live(x)',
               Holds(w, r)', Holds(x, r)'
        PROVE  w = x
    BY <1>4, <1>10, <1>11, <1>12, <2>3 DEF Sectors
  <2> QED
    BY <2>1, <2>2, <2>3 DEF Sectors
<1>14. Space'
  <2>1. Holders' = Holders \cup {v}
    <3>1. \A w \in VPage : w # v => (w \in Holders' <=> w \in Holders)
      BY <1>4, <1>10 DEF Holders
    <3>2. v \in Holders'
      BY <1>11 DEF Holders
    <3>3. Holders' \subseteq VPage /\ Holders \subseteq VPage
      BY DEF Holders
    <3> QED
      BY <3>1, <3>2, <3>3
  <2>2. IsFiniteSet(Holders) /\ IsFiniteSet(disk)
    <3>1. Holders \subseteq VPage /\ disk \subseteq Sector
      BY TypeFacts DEF Holders
    <3> QED
      BY <3>1, WhoFacts, FS_Subset
  <2>3. Cardinality(Holders) \in Nat /\ Cardinality(disk) \in Nat
    BY <2>2, FS_CardinalityType
  <2>4. CASE pfs_arr[i].pos # 0
    <3>1. disk' = disk /\ v \in Holders
      BY <1>0, <2>4 DEF Holders
    <3>2. Holders' = Holders
      BY <2>1, <3>1
    <3> QED
      BY <3>1, <3>2 DEF Space
  <2>5. CASE pfs_arr[i].pos = 0
    <3>1. s \notin disk /\ v \notin Holders /\ disk' = disk \cup {s}
      BY <1>0, <2>5
    <3>2. /\ Cardinality(disk') = Cardinality(disk) + 1
          /\ Cardinality(Holders') = Cardinality(Holders) + 1
      BY <2>1, <2>2, <3>1, FS_AddElement
    <3> QED
      BY <2>3, <3>2 DEF Space
  <2> QED
    BY <2>4, <2>5
<1>15. Writes'
  <2>1. pfs_arr'[i'].pid /\ pfs_arr'[i'].vp = v /\ to' = s /\ mem'[i'] = v
    BY <1>0, <1>1
  <2>2. Elsewhere(pfs_arr[i].vp, to)' /\ Out(pfs_arr[i].vp)'
    BY <1>3, <1>4, <2>1 DEF Elsewhere, Out
  <2> QED
    BY <1>3, <2>1, <2>2 DEF Writes
<1>16. Stored'
  <2>1. ASSUME NEW w \in VPage, Live(w)', Out(w)'
        PROVE  floppy'[pd_frame'[w]] = w \/ (at' = "write" /\ pfs_arr'[i'].vp = w)
    <3>1. CASE w = v
      BY <1>0, <1>1, <3>1
    <3>2. CASE w # v
      BY <1>1, <1>2, <1>3, <1>4, <2>1, <3>2 DEF Stored
    <3> QED
      BY <3>1, <3>2
  <2> QED
    BY <2>1 DEF Stored
<1>17. Order'
  <2>1. \A u \in TProc : loc'[u].vp = pfs_arr'[i'].vp => pc'[u] \notin {"reading", "read"}
    BY <1>0, <1>1 DEF Bringing
  <2> QED
    BY <2>1 DEF Order
<1> QED
  BY <1>6, <1>7, <1>8, <1>13, <1>14, <1>15, <1>16, <1>17

\* A process ends: its frames are free, and no sector goes that is another's.
LEMMA PutFacts ==
    ASSUME TypeOK, NEW t \in TProc, NEW other, putframe(t, other), breach = "none", breach' = "none"
    PROVE  /\ pd_p' = pd_p /\ pd_r' = pd_r /\ pd_frame' = pd_frame /\ loc' = loc
           /\ at' = at /\ i' = i /\ to' = to
           /\ pc[t] = "exit" /\ pc'[t] = "gone" /\ \A u \in TProc : u # t => pc'[u] = pc[u]
           /\ ~(Writing /\ i \in Own(t))
           /\ \A g \in Frame : /\ pfs_arr'[g].pid <=> pfs_arr[g].pid /\ g \notin Own(t)
                               /\ pfs_arr'[g].vp = pfs_arr[g].vp
                               /\ pfs_arr'[g].pos = pfs_arr[g].pos
                               /\ g \notin Own(t) => mem'[g] = mem[g]
           /\ disk' \subseteq disk
           /\ \A s \in disk \ disk' : \E p \in Page : /\ s = pd_frame[<<t, p>>]
                                                      /\ ~pd_r[<<t, p>>] /\ ~pd_p[<<t, p>>]
           /\ \A s \in Sector : s \in disk' => floppy'[s] = floppy[s]
<1>1. /\ pd_p' = pd_p /\ pd_r' = pd_r /\ pd_frame' = pd_frame /\ loc' = loc
      /\ at' = at /\ i' = i /\ to' = to
      /\ pc[t] = "exit" /\ pc' = [pc EXCEPT ![t] = "gone"]
      /\ pfs_arr' = [f \in Frame |-> IF f \in Own(t) THEN [pfs_arr[f] EXCEPT !.pid = FALSE]
                                                     ELSE pfs_arr[f]]
      /\ mem' = [f \in Frame |-> IF f \in Own(t) THEN NONE ELSE mem[f]]
      /\ floppy' = [s \in Sector |-> IF s \in disk' THEN floppy[s] ELSE NONE]
  BY DEF putframe, At, Goto, daemon
<1>2. ~(Writing /\ i \in Own(t))
  BY DEF putframe, Writing
<1>3. /\ disk' \subseteq disk
      /\ \A s \in disk \ disk' : \E p \in Page : /\ s = pd_frame[<<t, p>>]
                                                 /\ ~pd_r[<<t, p>>] /\ ~pd_p[<<t, p>>]
  BY DEF putframe
<1>4. pc'[t] = "gone" /\ \A u \in TProc : u # t => pc'[u] = pc[u]
  BY <1>1 DEF TypeOK
<1>5. \A g \in Frame : /\ pfs_arr'[g].pid <=> pfs_arr[g].pid /\ g \notin Own(t)
                       /\ pfs_arr'[g].vp = pfs_arr[g].vp
                       /\ pfs_arr'[g].pos = pfs_arr[g].pos
                       /\ g \notin Own(t) => mem'[g] = mem[g]
  BY <1>1 DEF TypeOK
<1> QED
  BY <1>1, <1>2, <1>3, <1>4, <1>5

LEMMA PutStep ==
    ASSUME PagInv, NEW t \in TProc, NEW other, putframe(t, other),
           breach = "none", breach' = "none"
    PROVE  Flights' /\ Reads' /\ Frames' /\ Sectors' /\ Space' /\ Writes' /\ Stored'
<1> USE DEF PagInv
<1>1. /\ pd_p' = pd_p /\ pd_r' = pd_r /\ pd_frame' = pd_frame /\ loc' = loc
      /\ at' = at /\ i' = i /\ to' = to
      /\ pc[t] = "exit" /\ pc'[t] = "gone" /\ \A u \in TProc : u # t => pc'[u] = pc[u]
      /\ ~(Writing /\ i \in Own(t))
  BY PutFacts
<1>2. \A g \in Frame : /\ pfs_arr'[g].pid <=> pfs_arr[g].pid /\ g \notin Own(t)
                       /\ pfs_arr'[g].vp = pfs_arr[g].vp
                       /\ pfs_arr'[g].pos = pfs_arr[g].pos
                       /\ g \notin Own(t) => mem'[g] = mem[g]
  BY PutFacts
<1>3. /\ disk' \subseteq disk
      /\ \A s \in disk \ disk' : \E p \in Page : /\ s = pd_frame[<<t, p>>]
                                                 /\ ~pd_r[<<t, p>>] /\ ~pd_p[<<t, p>>]
      /\ \A s \in Sector : s \in disk' => floppy'[s] = floppy[s]
  BY PutFacts
<1>4. /\ \A u \in TProc : Bringing(u)' <=> Bringing(u)
      /\ Writing' <=> Writing
      /\ ~Bringing(t)
  BY <1>1 DEF Bringing, Writing
<1>5. \A w \in VPage : /\ Live(w)' <=> Live(w) /\ w[1] # t
                       /\ w[1] = t <=> w \in Private /\ w[1] = t
                       /\ w[1] = t => Live(w)
                       /\ Out(w)' <=> Out(w)
  <2>1. \A w \in VPage : w[1] = t <=> w \in Private /\ w[1] = t
    BY PageFacts
  <2>2. \A w \in VPage : w[1] = SHARED \/ w[1] \in TProc
    BY PageFacts
  <2>3. t # SHARED
    BY DEF SHARED, TProc
  <2>4. \A w \in VPage : Live(w)' <=> Live(w) /\ w[1] # t
    BY <1>1, <2>2, <2>3 DEF Live
  <2>5. \A w \in VPage : w[1] = t => Live(w)
    BY <1>1, <2>2 DEF Live
  <2>6. \A w \in VPage : Out(w)' <=> Out(w)
    BY <1>1 DEF Out
  <2> QED
    BY <2>1, <2>4, <2>5, <2>6
<1>6. \A g \in Frame : g \in Own(t) => pfs_arr[g].vp[1] = t
  BY DEF Own
<1>7. ASSUME NEW u \in TProc, Bringing(u)
      PROVE  loc[u].f \in Frame /\ loc[u].f \notin Own(t) /\ loc[u].vp \in VPage
  <2>1. /\ loc[u].f \in Frame /\ loc[u].vp \in Accessible(u) /\ u # t
        /\ pfs_arr[loc[u].f].vp = loc[u].vp
    BY <1>4, <1>7, TypeFacts DEF Flights
  <2>2. loc[u].vp \in VPage /\ loc[u].vp[1] # t
    BY <2>1, PageFacts DEF Accessible, SHARED, TProc
  <2> QED
    BY <1>6, <2>1, <2>2
<1>8. Flights'
  <2>1. \A u \in TProc : Bringing(u)' =>
          /\ pfs_arr'[loc[u].f].pid /\ pfs_arr'[loc[u].f].vp = loc[u].vp
          /\ ~(Writing' /\ loc[u].f = i')
    BY <1>1, <1>2, <1>4, <1>7 DEF Flights
  <2>2. \A u \in TProc : pc'[u] \in {"pf", "mm"} => pc[u] \in {"pf", "mm"}
    BY <1>1
  <2> QED
    BY <1>1, <1>4, <2>1, <2>2, FlightsKept
<1>9. Reads'
  <2>1. ASSUME NEW u \in TProc PROVE Reading(u)'
    <3>1. Reading(u)
      BY DEF Reads
    <3>2. Bringing(u)' => mem'[loc[u].f] = mem[loc[u].f] /\ pc'[u] = pc[u]
      BY <1>1, <1>2, <1>4, <1>7
    <3> QED
      BY <1>1, <3>1, <3>2, ReadingKept
  <2> QED
    BY <2>1 DEF Reads
<1>10. Frames'
  <2>1. ASSUME NEW w \in VPage, Live(w)', pd_p'[w]
        PROVE  /\ pd_frame'[w] \in Frame
               /\ pfs_arr'[pd_frame'[w]].pid /\ pfs_arr'[pd_frame'[w]].vp = w
               /\ mem'[pd_frame'[w]] = w
               /\ ~(Writing' /\ pd_frame'[w] = i')
    <3>1. Live(w) /\ w[1] # t /\ pd_p[w] /\ pd_frame'[w] = pd_frame[w]
      BY <1>1, <1>5, <2>1
    <3>2. /\ pd_frame[w] \in Frame /\ pd_frame[w] \notin Own(t)
          /\ pfs_arr[pd_frame[w]].pid /\ pfs_arr[pd_frame[w]].vp = w
          /\ mem[pd_frame[w]] = w /\ ~(Writing /\ pd_frame[w] = i)
      BY <1>6, <3>1 DEF Frames
    <3> QED
      BY <1>1, <1>2, <1>4, <3>1, <3>2
  <2>2. ASSUME NEW g \in Frame, pfs_arr'[g].pid
        PROVE  /\ pfs_arr'[g].vp \in VPage /\ Live(pfs_arr[g].vp)'
               /\ \/ pd_p'[pfs_arr'[g].vp] /\ pd_frame'[pfs_arr'[g].vp] = g
                  \/ \E u \in TProc : Bringing(u)' /\ loc'[u].f = g
                  \/ Writing' /\ g = i'
    <3>0. PICK w : w = pfs_arr[g].vp
      OBVIOUS
    <3>1. /\ pfs_arr[g].pid /\ pfs_arr'[g].vp = w /\ g \notin Own(t)
          /\ w \in VPage /\ Live(w)
          /\ \/ pd_p[w] /\ pd_frame[w] = g
             \/ \E u \in TProc : Bringing(u) /\ loc[u].f = g
             \/ Writing /\ g = i
      BY <1>2, <2>2, <3>0 DEF Frames
    <3>2. w[1] # t
      BY <1>5, <3>0, <3>1 DEF Own
    <3>3. Live(pfs_arr[g].vp)'
      BY <1>5, <3>1, <3>2 DEF Live
    <3> QED
      BY <1>1, <1>4, <3>1, <3>3
  <2> QED
    BY <2>1, <2>2 DEF Frames
<1>11. \A g \in Frame : \A w \in VPage : w[1] # t => \A s : Keeps(g, w, s)' <=> Keeps(g, w, s)
  BY <1>2, <1>6 DEF Keeps
<1>12. \A w \in VPage : w[1] # t => \A s : Holds(w, s)' <=> Holds(w, s)
  BY <1>1, <1>5, <1>11 DEF Holds
<1>13. \A w \in VPage : \A s : Live(w)' /\ Holds(w, s)' => s \in disk'
  <2> SUFFICES ASSUME NEW w \in VPage, NEW s, Live(w)', Holds(w, s)' PROVE s \in disk'
    OBVIOUS
  <2>1. Live(w) /\ w[1] # t /\ Holds(w, s)
    BY <1>5, <1>12
  <2>2. s \in disk
    BY <2>1 DEF Sectors
  <2>3. ASSUME s \notin disk' PROVE FALSE
    <3>1. PICK p \in Page : s = pd_frame[<<t, p>>] /\ ~pd_r[<<t, p>>] /\ ~pd_p[<<t, p>>]
      BY <1>3, <2>2, <2>3
    <3>2. <<t, p>> \in VPage /\ <<t, p>>[1] = t
      BY PageFacts
    <3>3. Live(<<t, p>>) /\ Holds(<<t, p>>, s)
      BY <1>5, <3>1, <3>2 DEF Holds, Out
    <3> QED
      BY <2>1, <3>2, <3>3 DEF Sectors
  <2> QED
    BY <2>3
<1>14. Sectors'
  <2>1. ASSUME NEW w \in VPage, NEW r, NEW q, Live(w)', Holds(w, r)', Holds(w, q)'
        PROVE  r = q
    BY <1>5, <1>12, <2>1 DEF Sectors
  <2>2. ASSUME NEW w \in VPage, NEW x \in VPage, NEW r, Live(w)', Live(x)',
               Holds(w, r)', Holds(x, r)'
        PROVE  w = x
    BY <1>5, <1>12, <2>2 DEF Sectors
  <2> QED
    BY <1>13, <2>1, <2>2 DEF Sectors
<1>15. Space'
  <2>1. Holders \subseteq Holders'
    BY <1>5, <1>12 DEF Holders
  <2>2. Holders' \subseteq VPage /\ disk \subseteq Sector
    BY TypeFacts DEF Holders
  <2>3. IsFiniteSet(Holders') /\ IsFiniteSet(Holders) /\ IsFiniteSet(disk) /\ IsFiniteSet(disk')
    BY <1>3, <2>1, <2>2, WhoFacts, FS_Subset
  <2>4. Cardinality(Holders) <= Cardinality(Holders') /\ Cardinality(disk') <= Cardinality(disk)
    BY <1>3, <2>1, <2>3, FS_Subset
  <2>5. /\ Cardinality(Holders) \in Nat /\ Cardinality(Holders') \in Nat
        /\ Cardinality(disk) \in Nat /\ Cardinality(disk') \in Nat
    BY <2>3, FS_CardinalityType
  <2> QED
    BY <2>4, <2>5 DEF Space
<1>16. Writes'
  <2> SUFFICES ASSUME Writing PROVE Writes'
    BY <1>1, <1>4 DEF Writes, Writing
  <2>0. PICK w : w = pfs_arr[i].vp
    OBVIOUS
  <2>1. /\ pfs_arr[i].pid /\ w \in VPage /\ to \in Sector /\ i \in Frame
        /\ Elsewhere(w, to)
    BY <2>0, TypeFacts DEF Writes
  <2>2. i \notin Own(t) /\ w[1] # t
    BY <1>1, <1>5, <2>0, <2>1 DEF Own
  <2>3. Elsewhere(w, to)'
    BY <1>1, <1>5, <1>11, <2>1, <2>2 DEF Elsewhere
  <2>4. pfs_arr'[i'].vp = w /\ pfs_arr'[i'].pid /\ mem'[i'] = mem[i]
    BY <1>1, <1>2, <2>0, <2>1, <2>2
  <2>5. at = "write" => mem'[i'] = w /\ Out(w)' /\ pd_frame'[w] = to'
    BY <1>1, <1>5, <2>0, <2>1, <2>4 DEF Writes
  <2>6. (at' = "write" => Out(pfs_arr[i].vp)') /\ Elsewhere(pfs_arr[i].vp, to)'
    BY <1>1, <2>3, <2>4, <2>5 DEF Out, Elsewhere, Keeps
  <2> QED
    BY <1>1, <2>1, <2>4, <2>5, <2>6 DEF Writes
<1>17. Stored'
  <2>1. ASSUME NEW w \in VPage, Live(w)', Out(w)'
        PROVE  floppy'[pd_frame'[w]] = w \/ (at' = "write" /\ pfs_arr'[i'].vp = w)
    <3>1. Live(w) /\ Out(w) /\ pd_frame'[w] = pd_frame[w]
      BY <1>1, <1>5, <2>1
    <3>2. \A r : r = pd_frame[w] => Holds(w, r)'
      BY <2>1, <3>1 DEF Holds
    <3>3. pd_frame[w] \in disk' /\ pd_frame[w] \in Sector
      BY <1>3, <1>13, <2>1, <3>2, TypeFacts
    <3>4. floppy'[pd_frame[w]] = floppy[pd_frame[w]]
      BY <1>3, <3>3
    <3>5. pfs_arr'[i'].vp = pfs_arr[i].vp
      BY <1>1, <1>2, TypeFacts
    <3> QED
      BY <1>1, <3>1, <3>4, <3>5 DEF Stored
  <2> QED
    BY <2>1 DEF Stored
<1> QED
  BY <1>8, <1>9, <1>10, <1>14, <1>15, <1>16, <1>17

----------------------------------------------------------------------------
(***************************************************************************)
(* The order in which the floppy is used.                                  *)
(***************************************************************************)
LEMMA BeforeAppend ==
    ASSUME NEW q \in Seq(Who), NEW a \in Who, NEW b \in Who, NEW x \in Who
    PROVE  /\ Before(q, a, b) /\ x # b => Before(Append(q, x), a, b)
           /\ a \in ToSet(q) /\ b \notin ToSet(q) => Before(Append(q, b), a, b)
<1>1. ASSUME NEW y \in Who
      PROVE  /\ Len(Append(q, y)) = Len(q) + 1 /\ Len(q) \in Nat
             /\ Append(q, y)[Len(q) + 1] = y
             /\ \A k \in 1..Len(q) : Append(q, y)[k] = q[k]
  OBVIOUS
<1>2. ASSUME Before(q, a, b), x # b PROVE Before(Append(q, x), a, b)
  <2> SUFFICES ASSUME NEW k \in 1..(Len(q) + 1), Append(q, x)[k] = b
               PROVE  \E j \in 1..(Len(q) + 1) : j < k /\ Append(q, x)[j] = a
    BY <1>1 DEF Before
  <2>1. k \in 1..Len(q) /\ q[k] = b
    BY <1>1, <1>2
  <2>2. PICK j \in 1..Len(q) : j < k /\ q[j] = a
    BY <1>2, <2>1 DEF Before
  <2> QED
    BY <1>1, <2>2
<1>3. ASSUME a \in ToSet(q), b \notin ToSet(q) PROVE Before(Append(q, b), a, b)
  <2>1. /\ \E j \in 1..Len(q) : q[j] = a
        /\ \A j \in 1..Len(q) : q[j] # b
    BY <1>3 DEF ToSet
  <2> SUFFICES ASSUME NEW k \in 1..(Len(q) + 1), Append(q, b)[k] = b
               PROVE  \E j \in 1..(Len(q) + 1) : j < k /\ Append(q, b)[j] = a
    BY <1>1 DEF Before
  <2>2. k = Len(q) + 1
    BY <1>1, <2>1
  <2> QED
    BY <1>1, <2>1, <2>2
<1> QED
  BY <1>2, <1>3

LEMMA BeforeTail ==
    ASSUME NEW q \in Seq(Who), q # <<>>, NEW a, NEW b, Before(q, a, b)
    PROVE  /\ Head(q) # b
           /\ Head(q) # a => Before(Tail(q), a, b)
<1>1. /\ Len(q) \in Nat /\ Len(q) >= 1 /\ Head(q) = q[1] /\ Len(Tail(q)) = Len(q) - 1
      /\ \A k \in 1..(Len(q) - 1) : Tail(q)[k] = q[k + 1]
  OBVIOUS
<1>2. Head(q) # b
  <2>1. 1 \in 1..Len(q) /\ \A j \in 1..Len(q) : ~(j < 1)
    BY <1>1
  <2> QED
    BY <1>1, <2>1 DEF Before
<1>3. ASSUME Head(q) # a PROVE Before(Tail(q), a, b)
  <2> SUFFICES ASSUME NEW k \in 1..(Len(q) - 1), Tail(q)[k] = b
               PROVE  \E j \in 1..(Len(q) - 1) : j < k /\ Tail(q)[j] = a
    BY <1>1 DEF Before
  <2>1. k + 1 \in 1..Len(q) /\ q[k + 1] = b
    BY <1>1
  <2>2. PICK j \in 1..Len(q) : j < k + 1 /\ q[j] = a
    BY <2>1 DEF Before
  <2>3. j # 1
    BY <1>1, <1>3, <2>2
  <2>4. j - 1 \in 1..(Len(q) - 1) /\ j - 1 < k /\ (j - 1) + 1 = j
    BY <1>1, <2>2, <2>3
  <2> QED
    BY <1>1, <2>2, <2>4
<1> QED
  BY <1>2, <1>3

\* A process that asks for the floppy stands behind pagedaemon.
LEMMA OrderStart ==
    ASSUME PagInv, NEW t \in TProc, pagein_Start(t)
    PROVE  Order'
<1> USE DEF PagInv
<1>1. PICK m : /\ m["floppy"] = sem["floppy"] /\ Counted(m, Sems, Who) /\ Ready(m, t)
               /\ sem' = P(m, "floppy", t)
  BY SemRead
<1>2. /\ at' = at /\ i' = i /\ pfs_arr' = pfs_arr /\ loc' = [loc EXCEPT ![t].pos = pd_frame[loc[t].vp]]
      /\ pc' = [pc EXCEPT ![t] = "reading"]
  BY DEF pagein_Start, Goto, tables, daemon
<1>3. /\ pc'[t] = "reading" /\ \A u \in TProc : u # t => pc'[u] = pc[u]
      /\ \A u \in TProc : loc'[u].vp = loc[u].vp
  BY <1>2 DEF TypeOK
<1>4. t \in Who /\ PAGED \in Who /\ t # PAGED /\ \A u \in TProc : u \in Who
  BY WhoFacts
<1> DEFINE q == sem["floppy"].q
<1>5. /\ q \in Seq(Who) /\ sem["floppy"].val \in Int /\ t \notin ToSet(q)
  <2>1. m["floppy"].q \in Seq(Who) /\ m["floppy"].val \in Int /\ ~Waits(m, "floppy", t)
    BY <1>1, CountedFacts, SemsFacts
  <2> QED
    BY <1>1, <2>1 DEF Waits
<1>6. /\ sem'["floppy"].q = IF sem["floppy"].val - 1 < 0 THEN Append(q, t) ELSE q
  BY <1>1, SemsFacts DEF P, Counted
<1> SUFFICES ASSUME NEW u \in TProc, at = "write", loc[u].vp = pfs_arr[i].vp
             PROVE  /\ pc'[u] # "read"
                    /\ pc'[u] = "reading" =>
                          /\ Waits(sem', "floppy", u)
                          /\ Waits(sem', "floppy", PAGED) => Before(sem'["floppy"].q, PAGED, u)
  BY <1>2, <1>3 DEF Order
<1>7. sem["floppy"].val - 1 < 0
  <2>1. PAGED \in Users
    BY DEF Users
  <2> QED
    BY <1>5, <2>1 DEF SemOK, FloppyOK
<1>8. sem'["floppy"].q = Append(q, t)
  BY <1>6, <1>7
<1>9. /\ \A p : Waits(sem', "floppy", p) <=> Waits(sem, "floppy", p) \/ p = t
  BY <1>4, <1>5, <1>8, AppendFacts DEF Waits
<1>10. /\ Waits(sem, "floppy", PAGED) <=> PAGED \in ToSet(q)
       /\ Waits(sem', "floppy", PAGED) <=> PAGED \in ToSet(q)
  BY <1>4, <1>9 DEF Waits
<1> HIDE DEF q
<1>11. CASE u = t
  <2>1. PAGED \in ToSet(q) => Before(Append(q, t), PAGED, t)
    BY <1>4, <1>5, BeforeAppend
  <2> QED
    BY <1>3, <1>8, <1>9, <1>10, <1>11, <2>1
<1>12. CASE u # t
  <2>1. Before(q, PAGED, u) => Before(Append(q, t), PAGED, u)
    BY <1>4, <1>5, <1>12, BeforeAppend
  <2>2. /\ pc[u] # "read"
        /\ pc[u] = "reading" =>
              /\ Waits(sem, "floppy", u)
              /\ Waits(sem, "floppy", PAGED) => Before(q, PAGED, u)
    BY DEF Order, q
  <2> QED
    BY <1>3, <1>8, <1>9, <1>10, <1>12, <2>1, <2>2
<1> QED
  BY <1>11, <1>12

\* The process that has read does not want the page that is being written, and
\* gives the floppy to pagedaemon before those who do.
LEMMA OrderRead ==
    ASSUME PagInv, NEW t \in TProc, pagein_Read(t)
    PROVE  Order'
<1> USE DEF PagInv
<1>1. PICK m : /\ m["floppy"] = sem["floppy"] /\ Counted(m, Sems, Who)
               /\ sem' = V(m, "floppy")
  BY SemReadEnd
<1>2. /\ at' = at /\ i' = i /\ pfs_arr' = pfs_arr /\ loc' = loc
      /\ pc[t] = "reading" /\ pc' = [pc EXCEPT ![t] = "read"] /\ Ready(sem, t)
  BY DEF pagein_Read, Goto, At, tables, daemon
<1>3. /\ pc'[t] = "read" /\ \A u \in TProc : u # t => pc'[u] = pc[u]
  BY <1>2 DEF TypeOK
<1>4. t # PAGED
  BY WhoFacts
<1>5. ~Waits(sem, "floppy", t)
  BY <1>2, CountedFacts, SemsFacts DEF SemOK
<1> DEFINE q == sem["floppy"].q
<1> SUFFICES ASSUME NEW u \in TProc, at = "write", loc[u].vp = pfs_arr[i].vp
             PROVE  /\ pc'[u] # "read"
                    /\ pc'[u] = "reading" =>
                          /\ Waits(sem', "floppy", u)
                          /\ Waits(sem', "floppy", PAGED) => Before(sem'["floppy"].q, PAGED, u)
  BY <1>2 DEF Order
<1>6. Waits(sem, "floppy", PAGED)
  <2>1. PAGED \in Users /\ t \in Users
    BY <1>2 DEF Users, Readers
  <2> QED
    BY <1>4, <1>5, <2>1 DEF SemOK, FloppyOK, Waits
<1>7. u # t
  BY <1>2, <1>5 DEF Order
<1> SUFFICES ASSUME pc[u] = "reading"
             PROVE  /\ Waits(sem', "floppy", u)
                    /\ Waits(sem', "floppy", PAGED) => Before(sem'["floppy"].q, PAGED, u)
  BY <1>3, <1>7 DEF Order
<1>8. Waits(sem, "floppy", u) /\ Before(q, PAGED, u)
  BY <1>6 DEF Order
<1>9. q \in Seq(Who) /\ q # <<>> /\ sem["floppy"].val < 0
  <2>1. sem["floppy"].q \in Seq(Who) /\ sem["floppy"].val < 0
    BY <1>6, CountedFacts, SemsFacts DEF SemOK
  <2> QED
    BY <1>6, <2>1, EmptyFacts DEF Waits
<1>10. sem'["floppy"].q = Tail(q)
  BY <1>1, <1>9, SemsFacts DEF V, Counted
<1>11. /\ \A p : Waits(sem', "floppy", p) <=> Waits(sem, "floppy", p) /\ p # Head(q)
  <2>1. IsInjective(q)
    BY SemsFacts DEF SemOK, Counted
  <2> QED
    BY <1>9, <1>10, <2>1, TailFacts DEF Waits
<1> HIDE DEF q
<1>12. Head(q) # u /\ (Head(q) # PAGED => Before(Tail(q), PAGED, u))
  BY <1>8, <1>9, BeforeTail
<1> QED
  BY <1>8, <1>10, <1>11, <1>12

\* The other steps that leave pagedaemon writing.
LEMMA OrderT ==
    ASSUME PagInv, NEW t \in TProc, breach = "none", breach' = "none",
           \/ \E v \in VPage : Touch(t, v) \/ Fault(t, v)
           \/ LockFrames(t) \/ getfreeframe(t) \/ TestReferenced(t) \/ pagein_End(t)
           \/ LockTable(t) \/ SetPresent(t) \/ Terminate(t)
           \/ \E other : putframe(t, other)
    PROVE  Order'
<1> USE DEF PagInv
<1>1. sem'["floppy"] = sem["floppy"]
  <2>1. ASSUME NEW v \in VPage, Touch(t, v) PROVE sem'["floppy"] = sem["floppy"]
    BY <2>1 DEF Touch
  <2>2. ASSUME getfreeframe(t) PROVE sem'["floppy"] = sem["floppy"]
    BY <2>2, GetFacts, SemGet DEF Same
  <2>3. ASSUME NEW other, putframe(t, other) PROVE sem'["floppy"] = sem["floppy"]
    BY <2>3, SemPut, Finite
  <2> QED
    BY <2>1, <2>2, <2>3, SemFault, SemLock, SemUnlock DEF Same
<1>2. at' = at /\ i' = i
  BY DEF Touch, Fault, LockFrames, getfreeframe, TestReferenced, pagein_End, LockTable, SetPresent,
         Terminate, putframe, daemon
<1>3. ASSUME at = "write" PROVE pfs_arr'[i].vp = pfs_arr[i].vp
  <2>1. i \in Frame /\ pfs_arr[i].pid
    BY <1>3, TypeFacts DEF Writes, Writing
  <2>2. ASSUME getfreeframe(t) PROVE pfs_arr'[i].vp = pfs_arr[i].vp
    <3>1. PICK f \in Unused :
             pfs_arr' = [pfs_arr EXCEPT ![f] = [pid |-> TRUE, vp |-> loc[t].vp, pos |-> 0]]
      BY <2>2, GetFacts
    <3>2. f # i
      BY <2>1 DEF Unused
    <3> QED
      BY <2>1, <3>1, <3>2 DEF TypeOK
  <2>3. ASSUME pagein_End(t) PROVE pfs_arr'[i].vp = pfs_arr[i].vp
    BY <2>1, <2>3 DEF pagein_End, TypeOK
  <2>4. ASSUME NEW other, putframe(t, other) PROVE pfs_arr'[i].vp = pfs_arr[i].vp
    BY <2>1, <2>4, PutFacts
  <2>5. \/ pfs_arr' = pfs_arr \/ getfreeframe(t) \/ pagein_End(t) \/ \E other : putframe(t, other)
    BY DEF Touch, Fault, LockFrames, TestReferenced, LockTable, SetPresent, Terminate, tables
  <2> QED
    BY <2>2, <2>3, <2>4, <2>5
<1>4. \A u \in TProc : pc'[u] \in {"reading", "read"} => pc'[u] = pc[u] /\ loc'[u].vp = loc[u].vp
  <2>1. \/ pc' = pc /\ loc' = loc
        \/ \E l : /\ pc' = [pc EXCEPT ![t] = l] /\ l \notin {"reading", "read"}
                  /\ \/ loc' = loc
                     \/ \E x : loc' = [loc EXCEPT ![t].vp = x]
                     \/ \E x : loc' = [loc EXCEPT ![t].f = x]
                     \/ \E x : loc' = [loc EXCEPT ![t] = x]
    BY DEF Touch, Fault, LockFrames, getfreeframe, TestReferenced, pagein_End, LockTable, SetPresent,
           Terminate, putframe, Goto
  <2> QED
    BY <2>1 DEF TypeOK
<1> QED
  BY <1>1, <1>2, <1>3, <1>4, OrderKept

LEMMA OrderD ==
    ASSUME PagInv,
           \/ WaitForSignal \/ TestCount \/ LockFrame \/ Pass \/ Write \/ FreeFrame
           \/ UNCHANGED vars
    PROVE  Order'
<1> USE DEF PagInv
<1>1. ASSUME UNCHANGED vars PROVE Order'
  BY <1>1, OrderKept DEF vars, tables, daemon
<1>2. ASSUME ~UNCHANGED vars PROVE at' # "write"
  BY <1>2 DEF WaitForSignal, TestCount, LockFrame, Pass, Write, FreeFrame, Advance
<1> QED
  BY <1>1, <1>2 DEF Order

----------------------------------------------------------------------------
(***************************************************************************)
(* The types.  For each variable, the actions that change it.              *)
(***************************************************************************)
LEMMA TypeTables ==
    ASSUME PagInv, Next, breach = "none", breach' = "none"
    PROVE  /\ pd_p' \in [VPage -> BOOLEAN] /\ pd_r' \in [VPage -> BOOLEAN]
           /\ pd_frame' \in [VPage -> Frame \cup Sector \cup {0}]
           /\ pfs_arr' \in [Frame -> [pid : BOOLEAN, vp : VPage \cup {NONE}, pos : 0..S]]
           /\ disk' \subseteq Sector
<1> USE DEF PagInv
<1>1. pd_p' \in [VPage -> BOOLEAN]
  <2>1. \/ pd_p' = pd_p
        \/ \E v : pd_p' = [pd_p EXCEPT ![v] = TRUE]
        \/ \E v : pd_p' = [pd_p EXCEPT ![v] = FALSE]
    BY DEF Next, pagedaemon, slmmhandler, Touch, Fault, LockFrames, getfreeframe, TestReferenced,
           pagein_Start, pagein_Read, pagein_End, LockTable, SetPresent, Terminate, putframe,
           WaitForSignal, TestCount, LockFrame, Pass, WriteOut, Write, FreeFrame, tables
  <2>2. pd_p \in [VPage -> BOOLEAN]
    BY DEF TypeOK
  <2> QED
    BY <2>1, <2>2
<1>2. pd_r' \in [VPage -> BOOLEAN]
  <2>1. \/ pd_r' = pd_r
        \/ \E v : pd_r' = [pd_r EXCEPT ![v] = TRUE]
        \/ \E v : pd_r' = [pd_r EXCEPT ![v] = FALSE]
    BY DEF Next, pagedaemon, slmmhandler, Touch, Fault, LockFrames, getfreeframe, TestReferenced,
           pagein_Start, pagein_Read, pagein_End, LockTable, SetPresent, Terminate, putframe,
           WaitForSignal, TestCount, LockFrame, Pass, WriteOut, Write, FreeFrame, tables
  <2>2. pd_r \in [VPage -> BOOLEAN]
    BY DEF TypeOK
  <2> QED
    BY <2>1, <2>2
<1>3. pd_frame' \in [VPage -> Frame \cup Sector \cup {0}]
  <2>1. \/ pd_frame' = pd_frame \/ WriteOut
        \/ \E t \in TProc : pd_frame' = [pd_frame EXCEPT ![loc[t].vp] = loc[t].f]
    BY DEF Next, pagedaemon, slmmhandler, Touch, Fault, LockFrames, getfreeframe, TestReferenced,
           pagein_Start, pagein_Read, pagein_End, LockTable, SetPresent, Terminate, putframe,
           WaitForSignal, TestCount, LockFrame, Pass, Write, FreeFrame, tables
  <2>2. WriteOut => \E v \in VPage, s \in Sector : pd_frame' = [pd_frame EXCEPT ![v] = s]
    BY WriteOutFacts
  <2>3. pd_frame \in [VPage -> Frame \cup Sector \cup {0}]
    BY DEF TypeOK
  <2> QED
    BY <2>1, <2>2, <2>3, TypeFacts
<1>4. pfs_arr' \in [Frame -> [pid : BOOLEAN, vp : VPage \cup {NONE}, pos : 0..S]]
  <2>1. \/ pfs_arr' = pfs_arr
        \/ \E t \in TProc : getfreeframe(t)
        \/ \E t \in TProc : pfs_arr' = [pfs_arr EXCEPT ![loc[t].f].pos = loc[t].pos]
        \/ \E t \in TProc : pfs_arr' = [f \in Frame |-> IF f \in Own(t)
                               THEN [pfs_arr[f] EXCEPT !.pid = FALSE] ELSE pfs_arr[f]]
        \/ pfs_arr' = [pfs_arr EXCEPT ![i].pid = FALSE]
    BY DEF Next, pagedaemon, slmmhandler, Touch, Fault, LockFrames, TestReferenced,
           pagein_Start, pagein_Read, pagein_End, LockTable, SetPresent, Terminate, putframe,
           WaitForSignal, TestCount, LockFrame, Pass, WriteOut, Write, FreeFrame, tables
  <2>2. pfs_arr \in [Frame -> [pid : BOOLEAN, vp : VPage \cup {NONE}, pos : 0..S]]
    BY DEF TypeOK
  <2>3. ASSUME NEW t \in TProc, getfreeframe(t)
        PROVE  pfs_arr' \in [Frame -> [pid : BOOLEAN, vp : VPage \cup {NONE}, pos : 0..S]]
    <3>1. PICK f \in Unused :
             pfs_arr' = [pfs_arr EXCEPT ![f] = [pid |-> TRUE, vp |-> loc[t].vp, pos |-> 0]]
      BY <2>3, GetFacts
    <3>2. [pid |-> TRUE, vp |-> loc[t].vp, pos |-> 0]
            \in [pid : BOOLEAN, vp : VPage \cup {NONE}, pos : 0..S]
      BY TypeFacts, WhoFacts
    <3> QED
      BY <2>2, <3>1, <3>2
  <2>4. ASSUME NEW t \in TProc, pfs_arr' = [pfs_arr EXCEPT ![loc[t].f].pos = loc[t].pos]
        PROVE  pfs_arr' \in [Frame -> [pid : BOOLEAN, vp : VPage \cup {NONE}, pos : 0..S]]
    <3>1. loc[t].f \in Frame /\ loc[t].pos \in 0..S
      BY TypeFacts
    <3> QED
      BY <2>2, <2>4, <3>1
  <2>5. ASSUME NEW t \in TProc,
               pfs_arr' = [f \in Frame |-> IF f \in Own(t)
                              THEN [pfs_arr[f] EXCEPT !.pid = FALSE] ELSE pfs_arr[f]]
        PROVE  pfs_arr' \in [Frame -> [pid : BOOLEAN, vp : VPage \cup {NONE}, pos : 0..S]]
    BY <2>2, <2>5
  <2>6. ASSUME pfs_arr' = [pfs_arr EXCEPT ![i].pid = FALSE]
        PROVE  pfs_arr' \in [Frame -> [pid : BOOLEAN, vp : VPage \cup {NONE}, pos : 0..S]]
    BY <2>2, <2>6
  <2> QED
    BY <2>1, <2>2, <2>3, <2>4, <2>5, <2>6
<1>5. disk' \subseteq Sector
  <2>1. \/ disk' \subseteq disk \/ WriteOut
    BY DEF Next, pagedaemon, slmmhandler, Touch, Fault, LockFrames, getfreeframe, TestReferenced,
           pagein_Start, pagein_Read, pagein_End, LockTable, SetPresent, Terminate, putframe,
           WaitForSignal, TestCount, LockFrame, Pass, Write, FreeFrame, tables
  <2>2. WriteOut => \E s \in Sector : disk' = disk \cup {s}
    BY WriteOutFacts
  <2> QED
    BY <2>1, <2>2, TypeFacts
<1> QED
  BY <1>1, <1>2, <1>3, <1>4, <1>5

\* The sector from which pagein reads is one.
LEMMA PageInSector ==
    ASSUME PagInv, NEW t \in TProc, pagein_Start(t)
    PROVE  pd_frame[loc[t].vp] \in Sector
<1> USE DEF PagInv
<1>1. pc[t] = "in" /\ Bringing(t)
  BY DEF pagein_Start, At, Bringing
<1>2. /\ loc[t].vp \in Accessible(t) /\ loc[t].vp \in VPage
      /\ ~pd_p[loc[t].vp] /\ ~pd_r[loc[t].vp]
  BY <1>1, PageFacts DEF Flights, Reads, Reading
<1>3. Live(loc[t].vp)
  BY <1>1, <1>2 DEF Live, Accessible
<1>4. Holds(loc[t].vp, pd_frame[loc[t].vp])
  BY <1>2 DEF Holds, Out
<1> QED
  BY <1>2, <1>3, <1>4, TypeFacts DEF Sectors

LEMMA TypeProcs ==
    ASSUME PagInv, Next, breach = "none", breach' = "none"
    PROVE  /\ pc' \in [TProc -> Labels]
           /\ loc' \in [TProc -> [vp : VPage \cup {NONE}, f : Frame, pos : 0..S]]
<1> USE DEF PagInv
<1>1. pc' \in [TProc -> Labels]
  <2>1. \/ pc' = pc
        \/ \E t \in TProc : getfreeframe(t)
        \/ \E t \in TProc, l \in Labels : pc' = [pc EXCEPT ![t] = l]
    BY DEF Next, pagedaemon, slmmhandler, Touch, Fault, LockFrames, TestReferenced,
           pagein_Start, pagein_Read, pagein_End, LockTable, SetPresent, Terminate, putframe,
           WaitForSignal, TestCount, LockFrame, Pass, WriteOut, Write, FreeFrame, Goto, Labels
  <2>2. \A t \in TProc : getfreeframe(t) => pc' = [pc EXCEPT ![t] = "got"]
    BY GetFacts
  <2>3. pc \in [TProc -> Labels] /\ "got" \in Labels
    BY DEF TypeOK, Labels
  <2> QED
    BY <2>1, <2>2, <2>3
<1>2. loc' \in [TProc -> [vp : VPage \cup {NONE}, f : Frame, pos : 0..S]]
  <2> DEFINE L == [vp : VPage \cup {NONE}, f : Frame, pos : 0..S]
  <2>1. \/ loc' = loc
        \/ \E t \in TProc : getfreeframe(t)
        \/ \E t \in TProc : pagein_Start(t)
        \/ \E t \in TProc, v \in VPage : loc' = [loc EXCEPT ![t].vp = v]
        \/ \E t \in TProc : loc' = [loc EXCEPT ![t] = NoLocals]
    BY DEF Next, pagedaemon, slmmhandler, Touch, Fault, LockFrames, TestReferenced,
           pagein_Read, pagein_End, LockTable, SetPresent, Terminate, putframe,
           WaitForSignal, TestCount, LockFrame, Pass, WriteOut, Write, FreeFrame
  <2>2. loc \in [TProc -> L]
    BY DEF TypeOK
  <2>3. ASSUME NEW t \in TProc, getfreeframe(t) PROVE loc' \in [TProc -> L]
    <3>1. PICK f \in Unused : loc' = [loc EXCEPT ![t].f = f]
      BY <2>3, GetFacts
    <3>2. f \in Frame
      BY DEF Unused
    <3> QED
      BY <2>2, <3>1, <3>2
  <2>4. ASSUME NEW t \in TProc, pagein_Start(t) PROVE loc' \in [TProc -> L]
    <3>1. PICK s \in 0..S : loc' = [loc EXCEPT ![t].pos = s]
      BY <2>4, PageInSector, WhoFacts DEF pagein_Start
    <3> QED
      BY <2>2, <3>1
  <2>5. ASSUME NEW t \in TProc, NEW v \in VPage, loc' = [loc EXCEPT ![t].vp = v]
        PROVE  loc' \in [TProc -> L]
    BY <2>2, <2>5
  <2>6. ASSUME NEW t \in TProc, loc' = [loc EXCEPT ![t] = NoLocals] PROVE loc' \in [TProc -> L]
    <3>1. NoLocals \in L
      BY WhoFacts DEF NoLocals
    <3> QED
      BY <2>2, <2>6, <3>1
  <2> QED
    BY <2>1, <2>2, <2>3, <2>4, <2>5, <2>6
<1> QED
  BY <1>1, <1>2

LEMMA TypeDaemon ==
    ASSUME PagInv, Next, breach = "none", breach' = "none"
    PROVE  /\ at' \in {"top", "test", "lock", "look", "write", "written", "gone"}
           /\ i' \in Frame /\ to' \in 0..S
<1> USE DEF PagInv
<1>1. at' \in {"top", "test", "lock", "look", "write", "written", "gone"}
  <2>1. at' = at \/ at' \in {"top", "test", "lock", "look", "write", "written", "gone"}
    BY DEF Next, pagedaemon, slmmhandler, Touch, Fault, LockFrames, getfreeframe, TestReferenced,
           pagein_Start, pagein_Read, pagein_End, LockTable, SetPresent, Terminate, putframe,
           WaitForSignal, TestCount, LockFrame, Pass, WriteOut, Write, FreeFrame, Advance, daemon
  <2> QED
    BY <2>1 DEF TypeOK
<1>2. i' \in Frame
  <2>1. i' = i \/ i' = (i + 1) % F
    BY DEF Next, pagedaemon, slmmhandler, Touch, Fault, LockFrames, getfreeframe, TestReferenced,
           pagein_Start, pagein_Read, pagein_End, LockTable, SetPresent, Terminate, putframe,
           WaitForSignal, TestCount, LockFrame, Pass, WriteOut, Write, FreeFrame, Advance, daemon
  <2>2. (i + 1) % F \in 0..(F - 1)
    BY TypeFacts, PagingAssumption DEF Frame
  <2> QED
    BY <2>1, <2>2, TypeFacts DEF Frame
<1>3. to' \in 0..S
  <2>1. to' = to \/ to' = 0 \/ WriteOut
    BY DEF Next, pagedaemon, slmmhandler, Touch, Fault, LockFrames, getfreeframe, TestReferenced,
           pagein_Start, pagein_Read, pagein_End, LockTable, SetPresent, Terminate, putframe,
           WaitForSignal, TestCount, LockFrame, Pass, Write, FreeFrame, daemon
  <2>2. WriteOut => to' \in Sector
    BY WriteOutFacts
  <2> QED
    BY <2>1, <2>2, WhoFacts DEF TypeOK
<1> QED
  BY <1>1, <1>2, <1>3

LEMMA TypeContents ==
    ASSUME PagInv, Next, breach = "none", breach' = "none"
    PROVE  /\ mem' \in [Frame -> VPage \cup {NONE}]
           /\ floppy' \in [Sector -> VPage \cup {NONE}]
<1> USE DEF PagInv
<1>1. mem \in [Frame -> VPage \cup {NONE}] /\ floppy \in [Sector -> VPage \cup {NONE}]
  BY DEF TypeOK
<1>2. mem' \in [Frame -> VPage \cup {NONE}]
  <2>1. \/ mem' = mem
        \/ \E t \in TProc : mem' = [mem EXCEPT ![loc[t].f] = loc[t].vp]
        \/ \E t \in TProc : mem' = [mem EXCEPT ![loc[t].f] =
                                       IF loc[t].pos = 0 THEN NONE ELSE floppy[loc[t].pos]]
        \/ \E t \in TProc : mem' = [f \in Frame |-> IF f \in Own(t) THEN NONE ELSE mem[f]]
        \/ mem' = [mem EXCEPT ![i] = NONE]
    BY DEF Next, pagedaemon, slmmhandler, Touch, Fault, LockFrames, getfreeframe, TestReferenced,
           pagein_Start, pagein_Read, pagein_End, LockTable, SetPresent, Terminate, putframe,
           WaitForSignal, TestCount, LockFrame, Pass, WriteOut, Write, FreeFrame, contents
  <2>2. \A t \in TProc : loc[t].pos # 0 => floppy[loc[t].pos] \in VPage \cup {NONE}
    <3>1. \A t \in TProc : loc[t].pos # 0 => loc[t].pos \in Sector
      BY TypeFacts, PagingAssumption DEF Sector
    <3> QED
      BY <1>1, <3>1
  <2> QED
    BY <1>1, <2>1, <2>2, TypeFacts
<1>3. floppy' \in [Sector -> VPage \cup {NONE}]
  <2>1. \/ floppy' = floppy
        \/ floppy' = [s \in Sector |-> IF s \in disk' THEN floppy[s] ELSE NONE]
        \/ \E t \in TProc : floppy' = [s \in Sector |-> IF floppy[s] = loc[t].vp THEN NONE
                                                         ELSE floppy[s]]
        \/ floppy' = [floppy EXCEPT ![to] = mem[i]]
    BY DEF Next, pagedaemon, slmmhandler, Touch, Fault, LockFrames, getfreeframe, TestReferenced,
           pagein_Start, pagein_Read, pagein_End, LockTable, SetPresent, Terminate, putframe,
           WaitForSignal, TestCount, LockFrame, Pass, WriteOut, Write, FreeFrame, contents
  <2> QED
    BY <1>1, <2>1, TypeFacts
<1> QED
  BY <1>2, <1>3

LEMMA TypeStep ==
    ASSUME PagInv, Next, breach = "none", breach' = "none", SemOK'
    PROVE  TypeOK'
<1>1. sem' \in [{"mm", "pf", "page", "floppy"} -> [val : Int, q : Seq(0..N)]]
  BY SemsFacts DEF SemOK, Counted
<1>2. pc' \in [TProc -> {"user", "pf", "mm", "got", "in", "reading", "read",
                         "paged", "set", "exit", "gone"}]
  BY TypeProcs DEF Labels
<1>3. breach' \in {"none", "hit", "exit"}
  OBVIOUS
<1> QED
  BY <1>1, <1>2, <1>3, TypeTables, TypeProcs, TypeDaemon, TypeContents DEF TypeOK

----------------------------------------------------------------------------
(***************************************************************************)
(* The invariant.                                                          *)
(***************************************************************************)
LEMMA CountT ==
    ASSUME TypeOK, SemOK, Count, NEW t \in TProc,
           \/ \E v \in VPage : Touch(t, v)
           \/ LockFrames(t) \/ TestReferenced(t) \/ pagein_Start(t) \/ pagein_Read(t)
           \/ pagein_End(t) \/ LockTable(t) \/ SetPresent(t) \/ Terminate(t)
    PROVE  Count'
<1>1. sem'["pf"].val = sem["pf"].val
  <2>1. ASSUME NEW v \in VPage, Touch(t, v) PROVE sem'["pf"] = sem["pf"]
    BY <2>1 DEF Touch
  <2> QED
    BY <2>1, SemLock, SemUnlock, SemRead, SemReadEnd DEF Same
<1>2. \A f \in Frame : pfs_arr'[f].pid <=> pfs_arr[f].pid
  <2>1. \/ pfs_arr' = pfs_arr
        \/ pfs_arr' = [pfs_arr EXCEPT ![loc[t].f].pos = loc[t].pos]
    BY DEF Touch, LockFrames, TestReferenced, pagein_Start, pagein_Read, pagein_End, LockTable,
           SetPresent, Terminate, tables
  <2>2. ASSUME NEW g, NEW x, pfs_arr' = [pfs_arr EXCEPT ![g].pos = x], NEW f \in Frame
        PROVE  pfs_arr'[f].pid = pfs_arr[f].pid
    BY <2>2 DEF TypeOK
  <2> QED
    BY <2>1, <2>2
<1>3. \A u \in TProc : pc'[u] \in {"pf", "mm"} <=> pc[u] \in {"pf", "mm"}
  <2>1. \/ pc' = pc
        \/ \E l : /\ pc' = [pc EXCEPT ![t] = l]
                  /\ pc[t] \in {"pf", "mm"} <=> l \in {"pf", "mm"}
    BY DEF Touch, LockFrames, TestReferenced, pagein_Start, pagein_Read, pagein_End, LockTable,
           SetPresent, Terminate, At, Goto
  <2> QED
    BY <2>1, OneMoves
<1> QED
  BY <1>1, <1>2, <1>3, CountKept

LEMMA CountD ==
    ASSUME TypeOK, SemOK, Count,
           \/ WaitForSignal \/ TestCount \/ LockFrame \/ Pass \/ WriteOut \/ Write
           \/ UNCHANGED vars
    PROVE  Count'
<1>1. sem'["pf"].val = sem["pf"].val
  <2>1. ASSUME UNCHANGED vars PROVE sem'["pf"] = sem["pf"]
    BY <2>1 DEF vars
  <2> QED
    BY <2>1, SemDaemon, SemWriteOut, SemWrite DEF Same
<1>2. pfs_arr' = pfs_arr /\ pc' = pc
  BY DEF WaitForSignal, TestCount, LockFrame, Pass, WriteOut, Write, tables, vars
<1> QED
  BY <1>1, <1>2, CountKept

\* What PagInv says beyond the types.
Rest == /\ SemOK /\ Count /\ Flights /\ Reads /\ Frames
        /\ Sectors /\ Space /\ Writes /\ Stored /\ Order

LEMMA StepT ==
    ASSUME PagInv, breach = "none", breach' = "none", NEW t \in TProc,
           \/ \E v \in VPage : Touch(t, v) \/ Fault(t, v)
           \/ slmmhandler(t) \/ Terminate(t)
           \/ \E other : putframe(t, other)
    PROVE  Rest'
<1> USE DEF PagInv
<1>1. ASSUME NEW v \in VPage, Touch(t, v) PROVE Rest'
  <2>1. SemOK'
    <3>1. sem' = sem /\ pc' = pc /\ at' = at
      BY <1>1 DEF Touch, daemon
    <3> QED
      BY <3>1 DEF SemOK, Users, Readers
  <2> QED
    BY <1>1, <2>1, CountT, PlainStep, QuietT, QuietStep, OrderT DEF Rest
<1>2. ASSUME NEW v \in VPage, Fault(t, v) PROVE Rest'
  BY <1>2, SemFault, CountFault, PlainStep, QuietT, QuietStep, OrderT DEF Rest
<1>3. ASSUME LockFrames(t) \/ Terminate(t) PROVE Rest'
  BY <1>3, SemLock, CountT, PlainStep, QuietT, QuietStep, OrderT DEF Rest
<1>4. ASSUME getfreeframe(t) PROVE Rest'
  BY <1>4, GetFacts, SemGet, CountGet, GetStep, OrderT DEF Rest
<1>5. ASSUME TestReferenced(t) PROVE Rest'
  BY <1>5, SemLock, CountT, TestStep, QuietT, QuietStep, OrderT DEF Rest
<1>6. ASSUME pagein_Start(t) PROVE Rest'
  BY <1>6, SemRead, CountT, StartStep, QuietT, QuietStep, OrderStart DEF Rest
<1>7. ASSUME pagein_Read(t) PROVE Rest'
  BY <1>7, SemReadEnd, CountT, ReadStep, QuietT, QuietStep, OrderRead DEF Rest
<1>8. ASSUME pagein_End(t) PROVE Rest'
  BY <1>8, SemUnlock, CountT, EndStep, OrderT DEF Rest
<1>9. ASSUME LockTable(t) PROVE Rest'
  BY <1>9, SemLock, CountT, LockTableStep, QuietT, QuietStep, OrderT DEF Rest
<1>10. ASSUME SetPresent(t) PROVE Rest'
  BY <1>10, SemUnlock, CountT, PresentStep, OrderT DEF Rest
<1>11. ASSUME NEW other, putframe(t, other) PROVE Rest'
  BY <1>11, Finite, SemPut, CountPut, PutStep, OrderT DEF Rest
<1> QED
  BY <1>1, <1>2, <1>3, <1>4, <1>5, <1>6, <1>7, <1>8, <1>9, <1>10, <1>11 DEF slmmhandler

LEMMA StepD ==
    ASSUME PagInv, pagedaemon
    PROVE  Rest'
<1> USE DEF PagInv
<1>1. ASSUME WaitForSignal \/ TestCount \/ LockFrame \/ Pass PROVE Rest'
  BY <1>1, SemDaemon, CountD, DaemonStep, QuietD, QuietStep, OrderD DEF Rest
<1>2. ASSUME WriteOut PROVE Rest'
  BY <1>2, SemWriteOut, CountD, WriteOutStep DEF Rest
<1>3. ASSUME Write PROVE Rest'
  BY <1>3, SemWrite, CountD, WriteStep, OrderD DEF Rest
<1>4. ASSUME FreeFrame PROVE Rest'
  BY <1>4, SemFreeFrame, CountFree, FreeStep, OrderD DEF Rest
<1> QED
  BY <1>1, <1>2, <1>3, <1>4 DEF pagedaemon

\* A race that has happened is not forgotten.
LEMMA BreachKept ==
    ASSUME Next, breach' = "none"
    PROVE  breach = "none"
BY DEF Next, pagedaemon, slmmhandler, Touch, Fault, LockFrames, getfreeframe, TestReferenced,
       pagein_Start, pagein_Read, pagein_End, LockTable, SetPresent, Terminate, putframe,
       WaitForSignal, TestCount, LockFrame, Pass, WriteOut, Write, FreeFrame

LEMMA PagInit ==
    ASSUME Init
    PROVE  PagInv
<1>1. /\ \A v \in VPage : /\ pd_p[v] <=> v[2] = Boot /\ v \in Private
                          /\ pd_r[v]
                          /\ pd_frame[v] = IF pd_p[v] THEN v[1] - 1 ELSE 0
      /\ \A f \in Frame : /\ pfs_arr[f].pid <=> f < N
                          /\ pfs_arr[f].pos = 0
                          /\ pfs_arr[f].vp = IF f < N THEN <<f + 1, Boot>> ELSE NONE
                          /\ mem[f] = pfs_arr[f].vp
      /\ \A t \in TProc : pc[t] = "user"
      /\ disk = {} /\ at = "top" /\ i = 0 /\ to = 0
  BY DEF Init
<1>2. \A v \in VPage : pd_p[v] => /\ v = <<v[1], Boot>> /\ v[1] \in TProc
                                  /\ v[1] - 1 \in Frame /\ v[1] - 1 < N
                                  /\ (v[1] - 1) + 1 = v[1]
  <2>1. \A v \in VPage : pd_p[v] => v = <<v[1], Boot>> /\ v[1] \in TProc
    BY <1>1, PageFacts
  <2>2. \A k \in TProc : k - 1 \in Frame /\ k - 1 < N /\ (k - 1) + 1 = k
    BY PagingAssumption DEF TProc, Frame
  <2> QED
    BY <2>1, <2>2
<1>3. \A f \in Frame : f < N => /\ <<f + 1, Boot>> \in Private /\ <<f + 1, Boot>> \in VPage
                                /\ <<f + 1, Boot>>[1] = f + 1 /\ <<f + 1, Boot>>[2] = Boot
                                /\ f + 1 \in TProc /\ (f + 1) - 1 = f
  <2>1. \A f \in Frame : f < N => f + 1 \in TProc /\ (f + 1) - 1 = f
    BY PagingAssumption DEF TProc, Frame
  <2>2. \A k \in TProc : <<k, Boot>> \in Private /\ <<k, Boot>>[1] = k /\ <<k, Boot>>[2] = Boot
    BY PagingAssumption DEF Private
  <2> QED
    BY <2>1, <2>2, PageFacts
<1>4. /\ sem["mm"] = Semaphore(1) /\ sem["floppy"] = Semaphore(1)
      /\ sem["pf"] = Semaphore(F - N)
      /\ sem \in [Sems -> [val : Nat, q : {<<>>}]]
  <2>1. F - N \in Nat
    BY PagingAssumption
  <2>2. Cardinality({t \in TProc : F - t <= LOW}) \in Nat
    <3>1. {t \in TProc : F - t <= LOW} \subseteq TProc
      OBVIOUS
    <3>2. IsFiniteSet({t \in TProc : F - t <= LOW})
      BY <3>1, WhoFacts, FS_Subset
    <3> QED
      BY <3>2, FS_CardinalityType
  <2> DEFINE k == Cardinality({t \in TProc : F - t <= LOW})
  <2>3. /\ sem = [mm |-> Semaphore(1), floppy |-> Semaphore(1), pf |-> Semaphore(F - N),
                  page |-> Semaphore(k)]
        /\ k \in Nat
    BY <2>2 DEF Init
  <2> HIDE DEF k
  <2> QED
    BY <2>1, <2>3 DEF Semaphore, Sems
<1>5. Counted(sem, Sems, Who)
  BY <1>4, CountedInit
<1>6. TypeOK
  <2>1. pd_p \in [VPage -> BOOLEAN]
    BY DEF Init
  <2>2. pd_r \in [VPage -> BOOLEAN]
    BY DEF Init
  <2>3. pd_frame \in [VPage -> Frame \cup Sector \cup {0}]
    <3>1. \A v \in VPage : (IF pd_p[v] THEN v[1] - 1 ELSE 0) \in Frame \cup Sector \cup {0}
      BY <1>2
    <3>2. pd_frame = [v \in VPage |-> IF pd_p[v] THEN v[1] - 1 ELSE 0]
      BY DEF Init
    <3> QED
      BY <3>1, <3>2
  <2>4. pfs_arr \in [Frame -> [pid : BOOLEAN, vp : VPage \cup {NONE}, pos : 0..S]]
    <3>1. \A f \in Frame : (IF f < N THEN <<f + 1, Boot>> ELSE NONE) \in VPage \cup {NONE}
      BY <1>3
    <3>2. pfs_arr = [f \in Frame |-> [pid |-> f < N, pos |-> 0,
                                      vp |-> IF f < N THEN <<f + 1, Boot>> ELSE NONE]]
      BY DEF Init
    <3> QED
      BY <3>1, <3>2, WhoFacts
  <2>5. sem \in [{"mm", "pf", "page", "floppy"} -> [val : Int, q : Seq(0..N)]]
    BY <1>5, SemsFacts DEF Counted
  <2>6. pc \in [TProc -> {"user", "pf", "mm", "got", "in", "reading", "read",
                          "paged", "set", "exit", "gone"}]
    BY DEF Init
  <2>7. loc \in [TProc -> [vp : VPage \cup {NONE}, f : Frame, pos : 0..S]]
    <3>1. NoLocals \in [vp : VPage \cup {NONE}, f : Frame, pos : 0..S]
      BY WhoFacts DEF NoLocals
    <3> QED
      BY <3>1 DEF Init
  <2>8. mem \in [Frame -> VPage \cup {NONE}]
    <3>1. \A f \in Frame : pfs_arr[f].vp \in VPage \cup {NONE}
      BY <1>1, <1>3
    <3> QED
      BY <3>1 DEF Init
  <2>9. floppy \in [Sector -> VPage \cup {NONE}]
    BY DEF Init
  <2>10. /\ disk \subseteq Sector /\ i \in Frame /\ to \in 0..S
         /\ at \in {"top", "test", "lock", "look", "write", "written", "gone"}
         /\ breach \in {"none", "hit", "exit"}
    BY <1>1, WhoFacts DEF Init
  <2> QED
    BY <2>1, <2>2, <2>3, <2>4, <2>5, <2>6, <2>7, <2>8, <2>9, <2>10 DEF TypeOK
<1>7. SemOK
  <2>1. Users = {}
    BY <1>1 DEF Users, Readers
  <2>2. \A s \in Sems : \A p : ~Waits(sem, s, p)
    BY <1>4, EmptyFacts DEF Waits
  <2>3. FloppyOK(sem["floppy"], {})
    BY <1>4, EmptyFacts DEF FloppyOK, Semaphore
  <2> QED
    BY <1>5, <2>1, <2>2, <2>3, SemsFacts DEF SemOK
<1>8. Count
  <2>1. Asking = {}
    BY <1>1 DEF Asking
  <2>2. Unused = N..(F - 1)
    <3>1. Unused = {f \in Frame : ~(f < N)}
      BY <1>1 DEF Unused
    <3>2. \A f : f \in 0..(F - 1) /\ ~(f < N) <=> f \in N..(F - 1)
      BY PagingAssumption
    <3> QED
      BY <3>1, <3>2 DEF Frame
  <2>3. Cardinality(N..(F - 1)) = F - N
    <3>1. \A a, b \in Int : Cardinality(a..b) = IF a > b THEN 0 ELSE b - a + 1
      BY FS_Interval
    <3>2. N \in Int /\ F - 1 \in Int /\ F >= N /\ N \in Nat /\ F \in Nat
      BY PagingAssumption
    <3>3. Cardinality(N..(F - 1)) = IF N > F - 1 THEN 0 ELSE (F - 1) - N + 1
      BY <3>1, <3>2
    <3> QED
      BY <3>2, <3>3
  <2>4. sem["pf"].val = F - N /\ F - N \in Int
    BY <1>4, PagingAssumption DEF Semaphore
  <2> QED
    BY <2>1, <2>2, <2>3, <2>4, FS_EmptySet DEF Count
<1>9. Flights /\ Reads
  <2>1. \A t \in TProc : ~Bringing(t) /\ t \notin Asking
    BY <1>1 DEF Bringing, Asking
  <2> QED
    BY <1>1, <2>1 DEF Flights, Reads, Reading, Asking
<1>10. ~Writing
  BY <1>1 DEF Writing
<1>11. Frames
  <2>1. ASSUME NEW v \in VPage, Live(v), pd_p[v]
        PROVE  /\ pd_frame[v] \in Frame
               /\ pfs_arr[pd_frame[v]].pid /\ pfs_arr[pd_frame[v]].vp = v
               /\ mem[pd_frame[v]] = v
               /\ ~(Writing /\ pd_frame[v] = i)
    <3>1. pd_frame[v] = v[1] - 1
      BY <1>1, <2>1
    <3>2. /\ v = <<v[1], Boot>> /\ v[1] - 1 \in Frame /\ v[1] - 1 < N
          /\ (v[1] - 1) + 1 = v[1]
      BY <1>2, <2>1
    <3>3. pfs_arr[v[1] - 1].pid /\ pfs_arr[v[1] - 1].vp = v /\ mem[v[1] - 1] = v
      BY <1>1, <3>2
    <3> QED
      BY <1>10, <3>1, <3>2, <3>3
  <2>2. ASSUME NEW f \in Frame, pfs_arr[f].pid
        PROVE  /\ pfs_arr[f].vp \in VPage /\ Live(pfs_arr[f].vp)
               /\ pd_p[pfs_arr[f].vp] /\ pd_frame[pfs_arr[f].vp] = f
    <3>1. PICK v : v = pfs_arr[f].vp
      OBVIOUS
    <3>2. /\ v = <<f + 1, Boot>> /\ v \in Private /\ v \in VPage /\ v[1] = f + 1 /\ v[2] = Boot
          /\ v[1] \in TProc /\ v[1] - 1 = f
      <4>1. f < N /\ v = <<f + 1, Boot>>
        BY <1>1, <2>2, <3>1
      <4>2. /\ v \in Private /\ v \in VPage /\ v[1] = f + 1 /\ v[2] = Boot
            /\ f + 1 \in TProc /\ (f + 1) - 1 = f
        BY <1>3, <4>1
      <4> QED
        BY <4>1, <4>2
    <3>3. Live(v)
      BY <1>1, <3>2 DEF Live
    <3> QED
      BY <1>1, <3>1, <3>2, <3>3
  <2> QED
    BY <2>1, <2>2 DEF Frames
<1>12. \A v \in VPage : ~Out(v) /\ \A s : ~Holds(v, s)
  BY <1>1 DEF Out, Holds, Keeps
<1>13. Sectors /\ Stored
  BY <1>12 DEF Sectors, Stored
<1>14. Space
  <2>1. Holders \subseteq VPage
    BY DEF Holders
  <2>2. Cardinality(Holders) \in Nat
    BY <2>1, WhoFacts, FS_Subset, FS_CardinalityType
  <2> QED
    BY <1>1, <2>2, FS_EmptySet DEF Space
<1>15. Writes /\ Order
  BY <1>1, <1>10 DEF Writes, Order
<1> QED
  BY <1>6, <1>7, <1>8, <1>9, <1>11, <1>13, <1>14, <1>15 DEF PagInv

LEMMA PagStep ==
    ASSUME breach = "none" => PagInv, [Next]_vars
    PROVE  (breach = "none" => PagInv)'
<1> SUFFICES ASSUME breach' = "none" PROVE PagInv'
  OBVIOUS
<1>1. CASE UNCHANGED vars
  <2>1. breach = "none"
    BY <1>1 DEF vars
  <2>2. PagInv
    BY <2>1
  <2>3. /\ pd_p' = pd_p /\ pd_r' = pd_r /\ pd_frame' = pd_frame /\ pfs_arr' = pfs_arr
        /\ disk' = disk /\ sem' = sem /\ pc' = pc /\ loc' = loc /\ at' = at /\ i' = i /\ to' = to
        /\ mem' = mem /\ floppy' = floppy /\ breach' = breach
    BY <1>1 DEF vars, tables, contents, daemon
  <2>4. TypeOK'
    BY <2>2, <2>3 DEF PagInv, TypeOK
  <2>5. SemOK'
    BY <2>2, <2>3 DEF PagInv, SemOK, Users, Readers
  <2> QED
    BY <1>1, <2>2, <2>4, <2>5, CountD, DaemonStep, QuietD, QuietStep, OrderD DEF PagInv
<1>2. CASE Next
  <2>1. breach = "none"
    BY <1>2, BreachKept
  <2>2. PagInv
    BY <2>1
  <2>3. Rest'
    BY <1>2, <2>1, <2>2, StepT, StepD DEF Next
  <2>4. TypeOK'
    BY <1>2, <2>1, <2>2, <2>3, TypeStep DEF Rest
  <2> QED
    BY <2>3, <2>4 DEF Rest, PagInv
<1> QED
  BY <1>1, <1>2

LEMMA PagAlways == Spec => [](breach = "none" => PagInv)
<1>1. Init => (breach = "none" => PagInv)
  BY PagInit
<1>2. (breach = "none" => PagInv) /\ [Next]_vars => (breach = "none" => PagInv)'
  BY PagStep
<1> QED
  BY <1>1, <1>2, PTL DEF Spec

----------------------------------------------------------------------------
(***************************************************************************)
(* The theorems.  Each holds until two processes fault on the same shared  *)
(* page at once, or a process ends while a page of its own is written out: *)
(* breach records these races.                                             *)
(***************************************************************************)

\* The variables keep their types: pc never gets to "wild", where getfreeframe
\* would fall through its loop without a frame, and the sector pagein reads
\* from is a sector.
THEOREM PagingTypes == Spec => [](breach = "none" => TypeOK)
<1>1. (breach = "none" => PagInv) => (breach = "none" => TypeOK)
  BY DEF PagInv
<1> QED
  BY <1>1, PagAlways, PTL

\* A page that is present has a frame to itself: neither getfreeframe nor
\* pagedaemon nor putframe gives it to another page while it is present.
THEOREM FramesHaveOwners == Spec => []FramesOwned
<1>1. (breach = "none" => PagInv) => FramesOwned
  BY DEF PagInv, Frames, FramesOwned
<1> QED
  BY <1>1, PagAlways, PTL

\* sem_pf counts the frames that are free and not promised, through the
\* faults, pagedaemon and the processes that end; getfreeframe, which looks for
\* a free frame after P(&sem_pf) and without looking at the count, finds one.
THEOREM FramesCounted == Spec => []FreeCount
<1>1. (breach = "none" => PagInv) => FreeCount
  BY DEF PagInv, Count, Asking, FreeCount
<1> QED
  BY <1>1, PagAlways, PTL

\* A process finds in a page what was written there last, although sem_mm is
\* given up while the floppy works: a page that comes back while it is still
\* being written out is read after it is written.
THEOREM ContentsKept == Spec => []ContentKept
<1>1. (breach = "none" => PagInv) => ContentKept
  BY DEF PagInv, Frames, ContentKept
<1> QED
  BY <1>1, PagAlways, PTL
=============================================================================

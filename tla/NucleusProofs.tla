--------------------------- MODULE NucleusProofs ---------------------------
(***************************************************************************)
(* Theorems about Nucleus, for any number of processes, semaphores,        *)
(* devices and descriptors.                                                *)
(***************************************************************************)
EXTENDS Nucleus, QueueLemmas, FiniteSetTheorems

----------------------------------------------------------------------------
(***************************************************************************)
(* Types.                                                                  *)
(***************************************************************************)
Queues == [Sem -> Seq(Proc)]
Values == [Sem -> Int]

\* The states the loop of SYS3 works on.
LoopState == {st \in [sem : Values, blk : Queues, rq : Seq(Proc), flag : BOOLEAN] :
                 st.rq # <<>>}

LEMMA insertBlockedType ==
    ASSUME NEW b \in Queues, NEW s \in Sem, NEW p \in Proc
    PROVE  insertBlocked(b, s, p) \in Queues
<1>1. Append(b[s], p) \in Seq(Proc)
  BY AppendFacts DEF Queues
<1> QED
  BY <1>1 DEF insertBlocked, Queues

LEMMA WakeType ==
    ASSUME NEW r \in Seq(Proc), NEW b \in Queues, NEW s \in Sem
    PROVE  /\ Wake(r, b, s).rq \in Seq(Proc)
           /\ Wake(r, b, s).blk \in Queues
           /\ r # <<>> => Wake(r, b, s).rq # <<>>
<1>0. b[s] \in Seq(Proc)
  BY DEF Queues
<1>1. CASE b[s] = <<>>
  BY <1>1 DEF Wake
<1>2. CASE b[s] # <<>>
  <2>1. Head(b[s]) \in Proc /\ Tail(b[s]) \in Seq(Proc)
    BY <1>0, <1>2, TailFacts
  <2>2. Append(r, Head(b[s])) \in Seq(Proc) /\ Append(r, Head(b[s])) # <<>>
    BY <2>1, AppendFacts
  <2>3. removeBlocked(b, s) \in Queues
    BY <2>1 DEF removeBlocked, Queues
  <2> QED
    BY <1>2, <2>2, <2>3 DEF Wake
<1> QED
  BY <1>1, <1>2

\* Every step of the loop yields a loop state.
LEMMA vpopType ==
    ASSUME NEW st \in LoopState, cur \in Proc,
           NEW e \in [op : {LOCK, UNLOCK}, sem : UserSem]
    PROVE  vpop(st, e) \in LoopState
<1>1. /\ st.sem \in Values /\ st.blk \in Queues /\ st.rq \in Seq(Proc)
      /\ st.flag \in BOOLEAN /\ st.rq # <<>> /\ e.sem \in Sem
      /\ st = [sem |-> st.sem, blk |-> st.blk, rq |-> st.rq, flag |-> st.flag]
  BY DEF LoopState, Sem
<1>2. /\ [st.sem EXCEPT ![e.sem] = @ - 1] \in Values
      /\ [st.sem EXCEPT ![e.sem] = @ + 1] \in Values
  BY <1>1 DEF Values
<1>3. insertBlocked(st.blk, e.sem, cur) \in Queues
  BY <1>1, insertBlockedType
<1>4. /\ Wake(st.rq, st.blk, e.sem).rq \in Seq(Proc)
      /\ Wake(st.rq, st.blk, e.sem).blk \in Queues
      /\ Wake(st.rq, st.blk, e.sem).rq # <<>>
  BY <1>1, WakeType
<1> QED
  BY <1>1, <1>2, <1>3, <1>4 DEF vpop, LoopState

\* The recursion that defines Exec has a solution: f is the sequence of states
\* the loop passes through.
IsExec(f, v, st) == /\ f \in [0..Len(v) -> LoopState]
                    /\ f[0] = st
                    /\ \A i \in 1..Len(v) : f[i] = vpop(f[i-1], v[i])

LEMMA ExecDef ==
    ASSUME NEW v \in Vectors, NEW st \in LoopState, cur \in Proc
    PROVE  \E f : IsExec(f, v, st) /\ Exec(v, st) = f[Len(v)]
<1> DEFINE n == Len(v)
           Body(r, i) == IF i = 0 THEN st ELSE vpop(r[i-1], v[i])
           after == CHOOSE r : r = [i \in 0..n |-> Body(r, i)]
           G == [y \in (1..n) \X LoopState |-> vpop(y[2], v[y[1]])]
<1>1. n \in Nat /\ \A i \in 1..n : v[i] \in [op : {LOCK, UNLOCK}, sem : UserSem]
  <2> DEFINE E == [op : {LOCK, UNLOCK}, sem : UserSem]
  <2>1. v \in Seq(E)
    BY VectorAssumption
  <2> HIDE DEF E
  <2>2. n \in Nat /\ \A i \in 1..n : v[i] \in E
    BY <2>1
  <2> QED
    BY <2>2 DEF E
<1>2. G \in Steps(n, LoopState)
  <2>1. \A i \in 1..n, x \in LoopState : vpop(x, v[i]) \in LoopState
    BY <1>1, vpopType
  <2> QED
    BY <2>1 DEF Steps
<1>3. \A i \in 1..n, x \in LoopState : G[<<i, x>>] = vpop(x, v[i])
  OBVIOUS
<1>4. Exec(v, st) = after[n]
  BY DEF Exec
<1> HIDE DEF G, n
<1>5. PICK f : IsRun(f, n, LoopState, st, G)
  BY <1>1, <1>2, RecursionExists
<1>5a. f \in [0..n -> LoopState] /\ f[0] = st /\ \A i \in 1..n : f[i] = G[<<i, f[i-1]>>]
  BY <1>5 DEF IsRun
<1>6. \A i \in 0..n : i = 0 \/ (i \in 1..n /\ i # 0 /\ i - 1 \in 0..n)
  BY <1>1
<1>6a. \A i \in 1..n : i \in 0..n /\ i - 1 \in 0..n /\ i # 0
  BY <1>1
<1>7. \A i \in 0..n : f[i] = Body(f, i)
  BY <1>3, <1>5a, <1>6
<1>8. after = [i \in 0..n |-> Body(after, i)]
  <2> HIDE DEF Body
  <2>1. f = [i \in 0..n |-> Body(f, i)]
    BY <1>5a, <1>7
  <2> QED
    BY <2>1
<1> HIDE DEF after
<1>9. after[0] = st /\ \A i \in 1..n : after[i] = vpop(after[i-1], v[i])
  BY <1>1, <1>6a, <1>8
<1>10. \A i \in 0..n : after[i] \in LoopState
  <2> DEFINE T == {i \in 0..n : after[i] \in LoopState}
  <2>1. 0 \in T
    BY <1>1, <1>9
  <2>2. \A i \in 1..n : i - 1 \in T => i \in T
    BY <1>1, <1>6a, <1>9, vpopType
  <2> HIDE DEF T
  <2>3. \A i \in 0..n : i \in T
    BY <1>1, <2>1, <2>2, IntervalInduction
  <2> QED
    BY <2>3 DEF T
<1>11. after \in [0..n -> LoopState]
  <2>1. after = [i \in 0..n |-> after[i]]
    BY <1>8
  <2> QED
    BY <1>10, <2>1
<1>12. IsExec(after, v, st)
  BY <1>9, <1>11 DEF IsExec, n
<1> QED
  BY <1>4, <1>12 DEF n

----------------------------------------------------------------------------
Timer == Off..Quantum
Halt == {"no", "normal", "deadlock", "SYS4"}

LEMMA scheduleType ==
    ASSUME NEW r, NEW b, NEW t \in Timer, halt \in Halt, schedule(r, b, t)
    PROVE  timer' \in Timer /\ halt' \in Halt
<1>1. Quantum \in Timer
  BY BoundAssumption DEF Timer, Off
<1> QED
  BY <1>1 DEF schedule, intdeadlock, Halt

LEMMA curType ==
    ASSUME TypeOK, Running
    PROVE  cur \in Proc /\ cur \in ToSet(rq) /\ Tail(rq) \in Seq(Proc)
BY TailFacts DEF TypeOK, Running, cur

\* The links after Unlink, and after clearing those of the freed entries.
LEMMA UnlinkType ==
    ASSUME TypeOK, cur \in Proc
    PROVE  /\ Unlink.child \in [Proc -> Link]
           /\ Unlink.brother \in [Proc -> Link]
           /\ Unlink.parent \in [Proc -> Link]
BY DEF Unlink, TypeOK, Link

LEMMA FreeType ==
    ASSUME TypeOK, Running, NEW K \in SUBSET Proc, Free(K)
    PROVE  TypeOK'
<1>0. cur \in Proc
  BY curType
<1> DEFINE b == [s \in Sem |-> Without(blk[s], K)]
<1>1. Without(rq, K) \in Seq(Proc)
  BY WithoutFacts DEF TypeOK
<1>2. b \in [Sem -> Seq(Proc)]
  BY WithoutFacts DEF TypeOK
<1>3. outBlocked(b) \in [Sem -> Int]
  <2>1. \A s \in Sem : Len(b[s]) \in Int /\ Len(blk[s]) \in Int /\ sem[s] \in Int
    <3> HIDE DEF b
    <3> QED
      BY <1>2 DEF TypeOK
  <2>2. \A x, y, z \in Int : x + (y - z) \in Int
    OBVIOUS
  <2> HIDE DEF b
  <2>3. \A s \in Sem : sem[s] + (Len(blk[s]) - Len(b[s])) \in Int
    BY <2>1, <2>2
  <2> QED
    BY <2>3, Zenon DEF outBlocked
<1>4. timer' \in Timer /\ halt' \in Halt
  <2>1. timer \in Timer /\ halt \in Halt /\ schedule(Without(rq, K), b, timer)
    BY DEF TypeOK, Timer, Halt, Free
  <2> QED
    BY <2>1, scheduleType
<1>5. /\ free' = free \cup K /\ rq' = Without(rq, K) /\ blk' = b /\ sem' = outBlocked(b)
      /\ UNCHANGED <<vec, clock_count, io, save_arr>>
  BY DEF Free
<1>6. /\ child' \in [Proc -> Link] /\ brother' \in [Proc -> Link]
      /\ parent' \in [Proc -> Link]
  <2>1. /\ child' = [q \in Proc |-> IF q \in K THEN NIL ELSE Unlink.child[q]]
        /\ brother' = [q \in Proc |-> IF q \in K THEN NIL ELSE Unlink.brother[q]]
        /\ parent' = [q \in Proc |-> IF q \in K THEN NIL ELSE Unlink.parent[q]]
    BY DEF Free
  <2>2. NIL \in Link
    BY DEF Link
  <2>3. /\ \A q \in Proc : Unlink.child[q] \in Link /\ Unlink.brother[q] \in Link
        /\ \A q \in Proc : Unlink.parent[q] \in Link
    BY <1>0, UnlinkType
  <2> QED
    BY <2>1, <2>2, <2>3
<1>7. want' \in [Proc -> Dev \cup {NIL}] /\ creator' \in [Proc -> Link]
  BY DEF Free, TypeOK, Link
<1> HIDE DEF b
<1> QED
  BY <1>1, <1>2, <1>3, <1>4, <1>5, <1>6, <1>7 DEF TypeOK, Timer, Halt

LEMMA ProgenyType ==
    ASSUME TypeOK, Running, Terminate_Process
    PROVE  \E K \in SUBSET Proc : cur \in K /\ Free(K)
BY curType DEF Terminate_Process, Progeny

LEMMA intsemopType ==
    ASSUME TypeOK, Running, NEW s \in Sem, intsemop(s)
    PROVE  /\ sem' \in [Sem -> Int] /\ rq' \in Seq(Proc) /\ blk' \in [Sem -> Seq(Proc)]
           /\ timer' \in Timer /\ halt' \in Halt
<1>1. cur \in Proc /\ Tail(rq) \in Seq(Proc)
  BY curType
<1>2. insertBlocked(blk, s, cur) \in [Sem -> Seq(Proc)]
  BY <1>1, insertBlockedType DEF TypeOK, Queues
<1>3. sem' \in [Sem -> Int]
  BY DEF intsemop, TypeOK
<1>4. timer \in Timer /\ halt \in Halt
  BY DEF TypeOK, Timer, Halt
<1>5. CASE sem[s] - 1 < 0
  <2>1. schedule(rq', blk', timer)
    BY <1>5 DEF intsemop
  <2>2. timer' \in Timer /\ halt' \in Halt
    BY <1>4, <2>1, scheduleType
  <2> QED
    BY <1>1, <1>2, <1>3, <1>5, <2>2 DEF intsemop
<1>6. CASE ~(sem[s] - 1 < 0)
  BY <1>3, <1>4, <1>6 DEF intsemop, TypeOK
<1> QED
  BY <1>5, <1>6

LEMMA TurnType ==
    ASSUME TypeOK
    PROVE  Turn \in Seq(Proc)
<1>1. CASE rq # <<>>
  <2>1. Head(rq) \in Proc /\ Tail(rq) \in Seq(Proc)
    BY <1>1, TailFacts DEF TypeOK
  <2>2. Append(Tail(rq), Head(rq)) \in Seq(Proc)
    BY <2>1, AppendFacts
  <2> QED
    BY <1>1, <2>2 DEF Turn, cur
<1> QED
  BY <1>1 DEF Turn, TypeOK

\* SYS3 starts its loop in a loop state and ends it in one.
Start == [sem |-> sem, blk |-> blk, rq |-> rq, flag |-> FALSE]

LEMMA StartType ==
    ASSUME TypeOK, Running
    PROVE  Start \in LoopState
BY DEF Start, LoopState, TypeOK, Running, Values, Queues

LEMMA Sem_OPType ==
    ASSUME TypeOK, NEW v \in Vectors, Sem_OP(v)
    PROVE  TypeOK'
<1> DEFINE st == Exec(v, Start)
<1>0. Running
  BY DEF Sem_OP
<1>1. st \in LoopState
  <2>1. PICK f : IsExec(f, v, Start) /\ Exec(v, Start) = f[Len(v)]
    BY <1>0, curType, StartType, ExecDef
  <2>2. Len(v) \in 0..Len(v)
    BY VectorAssumption
  <2> QED
    BY <2>1, <2>2 DEF IsExec
<1>2. /\ sem' = st.sem /\ blk' = st.blk /\ rq' = IF st.flag THEN Tail(st.rq) ELSE st.rq
      /\ IF st.flag THEN schedule(Tail(st.rq), st.blk, timer)
                    ELSE UNCHANGED <<timer, halt>>
      /\ UNCHANGED <<free, tree, vec, clock_count, devices>>
  BY DEF Sem_OP, Start
<1> HIDE DEF st
<1>3. /\ st.sem \in [Sem -> Int] /\ st.blk \in [Sem -> Seq(Proc)] /\ st.rq \in Seq(Proc)
      /\ st.rq # <<>>
  BY <1>1 DEF LoopState, Values, Queues
<1>4. Tail(st.rq) \in Seq(Proc)
  BY <1>3, TailFacts
<1>5. timer' \in Timer /\ halt' \in Halt
  <2>1. timer \in Timer /\ halt \in Halt
    BY DEF TypeOK, Timer, Halt
  <2>2. CASE st.flag
    BY <1>2, <2>1, <2>2, scheduleType
  <2>3. CASE ~st.flag
    BY <1>2, <2>1, <2>3
  <2> QED
    BY <2>2, <2>3
<1> QED
  BY <1>2, <1>3, <1>4, <1>5 DEF TypeOK, tree, devices, Timer, Halt

LEMMA Create_ProcessType ==
    ASSUME TypeOK, Create_Process
    PROVE  TypeOK'
<1>1. Running /\ cur \in Proc
  BY curType DEF Create_Process
<1>2. PICK p \in free :
         /\ free' = free \ {p}
         /\ child' = IF child[cur] = NIL THEN [child EXCEPT ![cur] = p] ELSE child
         /\ brother' = [q \in Proc |-> IF parent[q] = cur THEN p ELSE brother[q]]
         /\ parent' = [q \in Proc |-> IF q = p THEN cur
                                      ELSE IF parent[q] = cur THEN NIL ELSE parent[q]]
         /\ rq' = Append(rq, p)
         /\ creator' = [creator EXCEPT ![p] = cur]
  BY DEF Create_Process
<1>3. p \in Proc
  BY DEF TypeOK
<1>4. rq' \in Seq(Proc)
  BY <1>2, <1>3, AppendFacts DEF TypeOK
<1>5. /\ child' \in [Proc -> Link] /\ brother' \in [Proc -> Link]
      /\ parent' \in [Proc -> Link] /\ creator' \in [Proc -> Link]
  BY <1>1, <1>2, <1>3 DEF TypeOK, Link
<1> QED
  BY <1>2, <1>4, <1>5 DEF TypeOK, Create_Process, devices

LEMMA waitforioType ==
    ASSUME TypeOK, NEW d \in Dev, waitforio(d)
    PROVE  TypeOK'
<1>1. Running /\ cur \in Proc /\ d \in Sem
  BY curType DEF waitforio, Sem
<1>2. want' \in [Proc -> Dev \cup {NIL}]
  BY DEF waitforio, TypeOK
<1>3. /\ sem' \in [Sem -> Int] /\ rq' \in Seq(Proc) /\ blk' \in [Sem -> Seq(Proc)]
      /\ timer' \in Timer /\ halt' \in Halt
  <2>1. CASE sem[d] = 1
    BY <1>1, <2>1 DEF waitforio, TypeOK, Timer, Halt
  <2>2. CASE sem[d] # 1
    BY <1>1, <2>2, intsemopType DEF waitforio
  <2> QED
    BY <2>1, <2>2
<1> QED
  BY <1>2, <1>3 DEF TypeOK, waitforio, tree, Timer, Halt

LEMMA inthandlerType ==
    ASSUME TypeOK, NEW d \in Dev, inthandler(d)
    PROVE  TypeOK'
<1>1. d \in Sem /\ blk \in Queues
  BY DEF Sem, Queues, TypeOK
<1>2. sem' \in [Sem -> Int] /\ io' \in [Dev -> Link] /\ want' \in [Proc -> Dev \cup {NIL}]
  <2>1. sem' \in [Sem -> Int]
    BY <1>1 DEF inthandler, TypeOK
  <2>2. io' \in [Dev -> Link]
    BY DEF inthandler, TypeOK, Link
  <2>3. want' = want \/ \E x : want' = [want EXCEPT ![x] = NIL]
    BY DEF inthandler
  <2>4. want' \in [Proc -> Dev \cup {NIL}]
    BY <2>3 DEF TypeOK
  <2> QED
    BY <2>1, <2>2, <2>4
<1>3. rq' \in Seq(Proc) /\ blk' \in [Sem -> Seq(Proc)]
  BY <1>1, WakeType, ZenonT(60) DEF inthandler, TypeOK, Queues
<1>4. save_arr' \in [Dev -> Link]
  BY DEF inthandler, TypeOK
<1>5. timer' \in Timer /\ halt' \in Halt
  <2>1. timer \in Timer /\ halt \in Halt
    BY DEF TypeOK, Timer, Halt
  <2> QED
    BY <2>1, scheduleType DEF inthandler
<1> QED
  BY <1>2, <1>3, <1>4, <1>5 DEF TypeOK, inthandler, tree, Timer, Halt

LEMMA intclockhandlerType ==
    ASSUME TypeOK, intclockhandler
    PROVE  TypeOK'
<1> DEFINE fires == clock_count + 1 >= PClock
           w == IF fires THEN Wake(Turn, blk, Clock) ELSE [rq |-> Turn, blk |-> blk]
<1>1. Clock \in Sem /\ blk \in Queues /\ Turn \in Seq(Proc)
  BY TurnType DEF Sem, Queues, TypeOK
<1>2. /\ rq' = w.rq /\ blk' = w.blk /\ schedule(w.rq, w.blk, Off)
      /\ sem' = IF fires /\ blk[Clock] # <<>> THEN [sem EXCEPT ![Clock] = @ + 1] ELSE sem
      /\ UNCHANGED <<free, tree, vec, devices>>
  BY DEF intclockhandler
<1>3. w.rq \in Seq(Proc) /\ w.blk \in [Sem -> Seq(Proc)]
  BY <1>1, WakeType DEF Queues
<1>4. clock_count' \in 0..(PClock - 1)
  BY BoundAssumption DEF intclockhandler, NextCount, TypeOK
<1>5. sem' \in [Sem -> Int]
  BY <1>1, <1>2 DEF TypeOK
<1> HIDE DEF w
<1>6. timer' \in Timer /\ halt' \in Halt
  <2>1. Off \in Timer /\ halt \in Halt
    BY BoundAssumption DEF TypeOK, Timer, Halt, Off
  <2> QED
    BY <1>2, <2>1, scheduleType
<1> QED
  BY <1>2, <1>3, <1>4, <1>5, <1>6 DEF TypeOK, tree, devices, Timer, Halt

LEMMA TypeInit ==
    Init => TypeOK
<1> SUFFICES ASSUME Init PROVE TypeOK
  OBVIOUS
<1>1. PICK p \in Proc : free = Proc \ {p} /\ rq = <<p>>
  BY DEF Init
<1>2. free \in SUBSET Proc /\ rq \in Seq(Proc)
  BY <1>1
<1>3. timer \in Off..Quantum /\ clock_count \in 0..(PClock - 1)
  BY BoundAssumption DEF Init, intinit, Off
<1>4. sem \in [Sem -> Int]
  BY DEF Init
<1> QED
  BY <1>2, <1>3, <1>4 DEF Init, TypeOK, initProc, initSemd, intinit, Link

\* The type invariant: every queue holds processes only, semaphores stay
\* integers, the timer and clock_count stay in their ranges, whatever handler
\* of the nucleus runs and however many processes there are.
THEOREM TypeCorrect == Spec => []TypeOK
<1>1. Init => TypeOK
  BY TypeInit
<1>2. TypeOK /\ [Next]_vars => TypeOK'
  <2> SUFFICES ASSUME TypeOK, [Next]_vars PROVE TypeOK'
    OBVIOUS
  <2>0. ASSUME Running, Terminate_Process PROVE TypeOK'
    BY <2>0, ProgenyType, FreeType
  <2>1. CASE Create_Process
    BY <2>1, Create_ProcessType
  <2>2. CASE SYS2
    BY <2>0, <2>2 DEF SYS2
  <2>3. CASE \E v \in Vectors : Sem_OP(v)
    BY <2>3, Sem_OPType
  <2>4. CASE notused
    BY <2>4 DEF notused, TypeOK, tree, devices
  <2>5. ASSUME NEW t \in TrapTypes, Specify_Trap_State_Vector(t) PROVE TypeOK'
    <3>1. CASE t \in vec[cur]
      BY <2>0, <2>5, <3>1 DEF Specify_Trap_State_Vector
    <3>2. CASE t \notin vec[cur]
      BY <2>5, <3>2 DEF Specify_Trap_State_Vector, TypeOK, tree, devices
    <3> QED
      BY <3>1, <3>2
  <2>6. ASSUME NEW t \in TrapTypes, pass_up(t) PROVE TypeOK'
    BY <2>0, <2>6 DEF pass_up
  <2>7. CASE waitforpclock
    <3>1. Running /\ Clock \in Sem /\ intsemop(Clock)
      BY <2>7 DEF waitforpclock, Sem
    <3> QED
      BY <2>7, <3>1, intsemopType DEF waitforpclock, TypeOK, tree, devices, Timer, Halt
  <2>8. ASSUME NEW d \in Dev, StartIO(d) PROVE TypeOK'
    <3>1. cur \in Proc
      BY <2>8, curType DEF StartIO
    <3> QED
      BY <2>8, <3>1 DEF StartIO, TypeOK, tree, Link
  <2>9. ASSUME NEW d \in Dev, waitforio(d) \/ inthandler(d) PROVE TypeOK'
    BY <2>9, waitforioType, inthandlerType
  <2>10. CASE intclockhandler
    BY <2>10, intclockhandlerType
  <2>11. CASE Tick
    <3>1. timer' \in Off..Quantum
      BY <2>11, BoundAssumption DEF Tick, TypeOK, Off
    <3> QED
      BY <2>11, <3>1 DEF Tick, TypeOK, tree, devices
  <2>12. CASE UNCHANGED vars
    BY <2>12 DEF vars, TypeOK
  <2> QED
    BY <2>1, <2>2, <2>3, <2>4, <2>5, <2>6, <2>7, <2>8, <2>9, <2>10, <2>11, <2>12
       DEF Next, Halted
<1> QED
  BY <1>1, <1>2, PTL DEF Spec

----------------------------------------------------------------------------
(***************************************************************************)
(* No process is lost.  Good is the part of the inductive invariant that   *)
(* the operations on queues keep, stated for a free list f, a running      *)
(* queue r, an ASL b and semaphore values m.                               *)
(***************************************************************************)
Good(f, r, b, m) ==
    /\ f \in SUBSET Proc /\ r \in Seq(Proc) /\ b \in Queues /\ m \in Values
    /\ \A p \in Proc : p \in f \/ p \in ToSet(r) \/ \E s \in Sem : p \in ToSet(b[s])
    /\ \A p \in Proc : ~(p \in f /\ p \in ToSet(r))
    /\ \A p \in Proc, s \in Sem : p \in ToSet(b[s]) => p \notin f /\ p \notin ToSet(r)
    /\ IsInjective(r) /\ \A s \in Sem : IsInjective(b[s])
    /\ \A s \in Sem : Len(b[s]) = IF m[s] < 0 THEN -m[s] ELSE 0
    /\ OneP => \A s, t \in Sem, p \in Proc :
                  p \in ToSet(b[s]) /\ p \in ToSet(b[t]) => s = t

LEMMA MembersType ==
    ASSUME NEW s \in Seq(Proc)
    PROVE  ToSet(s) \subseteq Proc
BY DEF ToSet

\* The running queue may be rearranged.
LEMMA Rearranged ==
    ASSUME NEW f, NEW r, NEW b, NEW m, Good(f, r, b, m),
           NEW x \in Seq(Proc), IsInjective(x), ToSet(x) = ToSet(r)
    PROVE  Good(f, x, b, m)
BY DEF Good

\* A semaphore nobody waits for may take any value that is not negative.
LEMMA Raised ==
    ASSUME NEW f, NEW r, NEW b, NEW m, Good(f, r, b, m),
           NEW s \in Sem, m[s] >= 0, NEW n \in Nat
    PROVE  Good(f, r, b, [m EXCEPT ![s] = n])
<1>1. m[s] \in Int /\ m \in Values /\ [m EXCEPT ![s] = n] \in Values
  BY DEF Good, Values
<1>2. ASSUME NEW u \in Sem
      PROVE  Len(b[u]) = IF [m EXCEPT ![s] = n][u] < 0 THEN -[m EXCEPT ![s] = n][u] ELSE 0
  <2>1. Len(b[u]) = IF m[u] < 0 THEN -m[u] ELSE 0
    BY DEF Good
  <2> QED
    BY <1>1, <2>1 DEF Values
<1> QED
  BY <1>1, <1>2 DEF Good

\* Process p moves between the running queue and the queue of s, which becomes
\* t; everybody else stays.
LEMMA Moved ==
    ASSUME NEW f, NEW r, NEW b, NEW m, Good(f, r, b, m),
           NEW s \in Sem, NEW p \in Proc, p \notin f,
           NEW t \in Seq(Proc), IsInjective(t), ToSet(t) \ {p} = ToSet(b[s]) \ {p},
           NEW x \in Seq(Proc), IsInjective(x), ToSet(x) \ {p} = ToSet(r) \ {p},
           NEW n \in Int, Len(t) = IF n < 0 THEN -n ELSE 0,
           p \in ToSet(x) <=> /\ p \notin ToSet(t)
                              /\ \A u \in Sem \ {s} : p \notin ToSet(b[u]),
           OneP /\ p \in ToSet(t) => \A u \in Sem \ {s} : p \notin ToSet(b[u])
    PROVE  Good(f, x, [b EXCEPT ![s] = t], [m EXCEPT ![s] = n])
<1> DEFINE c == [b EXCEPT ![s] = t]
           k == [m EXCEPT ![s] = n]
<1>1. c \in Queues /\ k \in Values
  BY DEF Good, Queues, Values
<1>2. c[s] = t /\ k[s] = n /\ \A u \in Sem \ {s} : c[u] = b[u] /\ k[u] = m[u]
  BY DEF Good, Queues, Values
<1> HIDE DEF c, k
<1>3. \A u \in Sem : Len(c[u]) = IF k[u] < 0 THEN -k[u] ELSE 0
  BY <1>2 DEF Good
<1>4. \A u \in Sem : IsInjective(c[u])
  BY <1>2 DEF Good
<1>5. ASSUME NEW q \in Proc
      PROVE  /\ q \in f \/ q \in ToSet(x) \/ \E u \in Sem : q \in ToSet(c[u])
             /\ ~(q \in f /\ q \in ToSet(x))
             /\ \A u \in Sem : q \in ToSet(c[u]) => q \notin f /\ q \notin ToSet(x)
  <2>1. CASE q = p
    BY <1>2, <2>1
  <2>2. CASE q # p
    <3>1. \A u \in Sem : q \in ToSet(c[u]) <=> q \in ToSet(b[u])
      BY <1>2, <2>2
    <3>2. q \in ToSet(x) <=> q \in ToSet(r)
      BY <2>2
    <3> QED
      BY <3>1, <3>2 DEF Good
  <2> QED
    BY <2>1, <2>2
<1>6. ASSUME OneP, NEW u \in Sem, NEW w \in Sem, NEW q \in Proc,
             q \in ToSet(c[u]), q \in ToSet(c[w])
      PROVE  u = w
  <2>1. CASE q = p
    <3>1. \A y \in Sem \ {s} : p \in ToSet(c[y]) => p \in ToSet(b[y]) /\ p \notin ToSet(t)
      BY <1>2, <1>6
    <3> QED
      BY <1>2, <1>6, <2>1, <3>1 DEF Good
  <2>2. CASE q # p
    <3>1. \A y \in Sem : q \in ToSet(c[y]) <=> q \in ToSet(b[y])
      BY <1>2, <2>2
    <3> QED
      BY <1>6, <3>1 DEF Good
  <2> QED
    BY <2>1, <2>2
<1>7. Good(f, x, c, k)
  BY <1>1, <1>3, <1>4, <1>5, <1>6 DEF Good
<1> QED
  BY <1>7 DEF c, k

\* The second half of a V.
LEMMA Woken ==
    ASSUME NEW f, NEW r, NEW b, NEW m, Good(f, r, b, m),
           NEW s \in Sem, m[s] < 0
    PROVE  /\ Good(f, Wake(r, b, s).rq, Wake(r, b, s).blk, [m EXCEPT ![s] = @ + 1])
           /\ b[s] # <<>>
<1> DEFINE p == Head(b[s])
           t == Tail(b[s])
           left == removeBlocked(b, s)
           x == IF InNoQueue(r, left, p) THEN Append(r, p) ELSE r
<1>1. b[s] \in Seq(Proc) /\ m[s] \in Int /\ Len(b[s]) = -m[s] /\ b \in Queues
      /\ IsInjective(b[s]) /\ m \in Values
  BY DEF Good, Queues, Values
<1>2. b[s] # <<>>
  BY <1>1
<1>3. /\ p \in Proc /\ p \in ToSet(b[s]) /\ t \in Seq(Proc) /\ Len(t) = Len(b[s]) - 1
      /\ IsInjective(t) /\ ToSet(b[s]) = ToSet(t) \cup {p} /\ p \notin ToSet(t)
  BY <1>1, <1>2, TailFacts
<1>4. left = [b EXCEPT ![s] = t]
  BY DEF removeBlocked
<1>5. Wake(r, b, s).rq = x /\ Wake(r, b, s).blk = left
  BY <1>2 DEF Wake
<1>6. [m EXCEPT ![s] = @ + 1] = [m EXCEPT ![s] = m[s] + 1]
  BY <1>1 DEF Values
<1> HIDE DEF p, t, left
<1>7. p \notin f /\ p \notin ToSet(r) /\ r \in Seq(Proc) /\ IsInjective(r)
  BY <1>3 DEF Good
<1>8. /\ Append(r, p) \in Seq(Proc) /\ ToSet(Append(r, p)) = ToSet(r) \cup {p}
      /\ IsInjective(Append(r, p))
  BY <1>3, <1>7, AppendFacts
<1>9. InNoQueue(r, left, p) <=> \A u \in Sem \ {s} : p \notin ToSet(b[u])
  <2>1. left[s] = t /\ \A u \in Sem \ {s} : left[u] = b[u]
    BY <1>1, <1>4 DEF Queues
  <2> QED
    BY <1>3, <1>7, <2>1 DEF InNoQueue
<1>10. /\ x \in Seq(Proc) /\ IsInjective(x) /\ ToSet(x) \ {p} = ToSet(r) \ {p}
       /\ p \in ToSet(x) <=> \A u \in Sem \ {s} : p \notin ToSet(b[u])
  BY <1>7, <1>8, <1>9
<1> HIDE DEF x
<1>11. m[s] + 1 \in Int /\ Len(t) = IF m[s] + 1 < 0 THEN -(m[s] + 1) ELSE 0
  BY <1>1, <1>3
<1>12. ToSet(t) \ {p} = ToSet(b[s]) \ {p}
  BY <1>3
<1>13. Good(f, x, [b EXCEPT ![s] = t], [m EXCEPT ![s] = m[s] + 1])
  BY <1>3, <1>7, <1>10, <1>11, <1>12, Moved
<1> QED
  BY <1>2, <1>4, <1>5, <1>6, <1>13

\* insertBlocked finds a descriptor: either there is one for every semaphore,
\* or each of the active semaphores keeps another process waiting, p not being
\* one of these.
LEMMA Room ==
    ASSUME Fits, NEW f, NEW r, NEW b, NEW m, Good(f, r, b, m),
           NEW s \in Sem, b[s] = <<>>, NEW p \in Proc,
           OneP => \A u \in Sem : p \notin ToSet(b[u])
    PROVE  ~(Cardinality(Active(b)) >= SEMD)
<1>1. CASE IsFiniteSet(Sem) /\ Cardinality(Sem) <= SEMD
  <2>1. Active(b) \in SUBSET Sem /\ Active(b) # Sem
    BY DEF Active
  <2>2. /\ IsFiniteSet(Active(b)) /\ Cardinality(Active(b)) <= Cardinality(Sem)
        /\ Cardinality(Active(b)) # Cardinality(Sem)
    BY <1>1, <2>1, FS_Subset
  <2>3. Cardinality(Active(b)) \in Nat /\ Cardinality(Sem) \in Nat /\ SEMD \in Nat
    BY <1>1, <2>2, FS_CardinalityType, BoundAssumption
  <2> QED
    BY <1>1, <2>2, <2>3
<1>2. CASE OneP
  <2> DEFINE g == [u \in Active(b) |-> Head(b[u])]
  <2>1. ASSUME NEW u \in Active(b)
        PROVE  Head(b[u]) \in ToSet(b[u]) /\ Head(b[u]) \in Proc \ {p} /\ u \in Sem
    <3>1. u \in Sem /\ b[u] \in Seq(Proc) /\ b[u] # <<>>
      BY DEF Active, Good, Queues
    <3>2. Head(b[u]) \in ToSet(b[u]) /\ Head(b[u]) \in Proc
      BY <3>1, TailFacts
    <3> QED
      BY <1>2, <3>1, <3>2
  <2>2. \A u, w \in Active(b) : Head(b[u]) = Head(b[w]) => u = w
    BY <1>2, <2>1 DEF Good
  <2>3. g \in [Active(b) -> Proc \ {p}] /\ \A u, w \in Active(b) : g[u] = g[w] => u = w
    BY <2>1, <2>2
  <2> HIDE DEF g
  <2>4. g \in Injection(Active(b), Proc \ {p})
    BY <2>3 DEF Injection, IsInjective
  <2>5. IsFiniteSet(Proc \ {p}) /\ Cardinality(Proc \ {p}) = Cardinality(Proc) - 1
    BY ProcAssumption, FS_RemoveElement
  <2>6. IsFiniteSet(Active(b)) /\ Cardinality(Active(b)) <= Cardinality(Proc \ {p})
    BY <2>4, <2>5, FS_Injection
  <2>7. /\ Cardinality(Active(b)) \in Nat /\ Cardinality(Proc) \in Nat /\ SEMD \in Nat
        /\ SEMD >= Cardinality(Proc)
    BY <2>6, FS_CardinalityType, BoundAssumption, ProcAssumption
  <2> QED
    BY <2>5, <2>6, <2>7
<1> QED
  BY <1>1, <1>2 DEF Fits

\* The waiting half of a P: p joins the queue of s and x is the running queue
\* without p.
LEMMA Queued ==
    ASSUME Fits, NEW f, NEW r, NEW b, NEW m, Good(f, r, b, m),
           NEW s \in Sem, m[s] - 1 < 0, NEW p \in Proc, p \notin f,
           p \notin ToSet(b[s]), OneP => \A u \in Sem : p \notin ToSet(b[u]),
           NEW x \in Seq(Proc), IsInjective(x), ToSet(x) = ToSet(r) \ {p}
    PROVE  /\ Good(f, x, insertBlocked(b, s, p), [m EXCEPT ![s] = @ - 1])
           /\ insertBlocked(b, s, p) = [b EXCEPT ![s] = Append(@, p)]
<1> DEFINE t == Append(b[s], p)
<1>1. /\ b[s] \in Seq(Proc) /\ b \in Queues /\ IsInjective(b[s])
      /\ m \in Values /\ m[s] \in Int /\ Len(b[s]) = IF m[s] < 0 THEN -m[s] ELSE 0
  BY DEF Good, Queues, Values
<1>2. /\ t \in Seq(Proc) /\ ToSet(t) = ToSet(b[s]) \cup {p} /\ IsInjective(t)
      /\ Len(t) = Len(b[s]) + 1
  BY <1>1, AppendFacts
<1>3. insertBlocked(b, s, p) = [b EXCEPT ![s] = Append(@, p)]
  <2>1. CASE b[s] = <<>>
    <3>1. ~(Cardinality(Active(b)) >= SEMD)
      BY <2>1, Room
    <3> QED
      BY <3>1 DEF insertBlocked
  <2>2. CASE b[s] # <<>>
    BY <2>2 DEF insertBlocked
  <2> QED
    BY <2>1, <2>2
<1>4. [b EXCEPT ![s] = Append(@, p)] = [b EXCEPT ![s] = t]
  BY <1>1 DEF Queues
<1>5. [m EXCEPT ![s] = @ - 1] = [m EXCEPT ![s] = m[s] - 1]
  BY <1>1 DEF Values
<1> HIDE DEF t
<1>6. m[s] - 1 \in Int /\ Len(t) = IF m[s] - 1 < 0 THEN -(m[s] - 1) ELSE 0
  BY <1>1, <1>2
<1>7. /\ ToSet(t) \ {p} = ToSet(b[s]) \ {p} /\ ToSet(x) \ {p} = ToSet(r) \ {p}
      /\ p \notin ToSet(x) /\ p \in ToSet(t)
  BY <1>2
<1>8. Good(f, x, [b EXCEPT ![s] = t], [m EXCEPT ![s] = m[s] - 1])
  BY <1>2, <1>6, <1>7, Moved
<1> QED
  BY <1>3, <1>4, <1>5, <1>8

\* Terminate_Process: the members of K leave every queue.
LEMMA Freed ==
    ASSUME NEW f, NEW r, NEW b, NEW m, Good(f, r, b, m), NEW K \in SUBSET Proc
    PROVE  LET c == [s \in Sem |-> Without(b[s], K)]
           IN  Good(f \cup K, Without(r, K), c,
                    [s \in Sem |-> m[s] + (Len(b[s]) - Len(c[s]))])
<1> DEFINE c == [s \in Sem |-> Without(b[s], K)]
           k == [s \in Sem |-> m[s] + (Len(b[s]) - Len(c[s]))]
<1>1. /\ Without(r, K) \in Seq(Proc) /\ ToSet(Without(r, K)) = ToSet(r) \ K
      /\ IsInjective(Without(r, K))
  BY WithoutFacts DEF Good
<1>2. ASSUME NEW s \in Sem
      PROVE  /\ b[s] \in Seq(Proc) /\ c[s] \in Seq(Proc)
             /\ ToSet(c[s]) = ToSet(b[s]) \ K /\ IsInjective(c[s])
  <2>1. b[s] \in Seq(Proc) /\ IsInjective(b[s])
    BY DEF Good, Queues
  <2> QED
    BY <2>1, WithoutFacts
<1>3. c \in Queues
  BY <1>2 DEF Queues
<1>4. ASSUME NEW s \in Sem
      PROVE  k[s] \in Int /\ Len(c[s]) = IF k[s] < 0 THEN -k[s] ELSE 0
  <2>1. k[s] = m[s] + (Len(b[s]) - Len(c[s]))
    OBVIOUS
  <2> HIDE DEF c, k
  <2>2. /\ Len(b[s]) \in Nat /\ Len(c[s]) \in Nat /\ m[s] \in Int
        /\ Len(b[s]) = IF m[s] < 0 THEN -m[s] ELSE 0
    BY <1>2 DEF Good, Values
  <2>3. Len(b[s]) = 0 => Len(c[s]) = 0
    <3>1. Len(b[s]) = 0 => b[s] = <<>>
      BY <1>2
    <3>2. b[s] = <<>> => ToSet(c[s]) = {}
      BY <1>2, EmptyFacts
    <3>3. ToSet(c[s]) = {} => c[s] = <<>>
      BY <1>2, EmptyFacts
    <3> QED
      BY <3>1, <3>2, <3>3
  <2> QED
    BY <2>1, <2>2, <2>3
<1>5. k \in Values
  BY <1>4 DEF Values
<1> HIDE DEF c, k
<1>6. Good(f \cup K, Without(r, K), c, k)
  BY <1>1, <1>2, <1>3, <1>4, <1>5, ZenonT(60) DEF Good
<1> QED
  BY <1>6 DEF c, k

\* Create_Process: a free entry becomes ready.
LEMMA Created ==
    ASSUME NEW f, NEW r, NEW b, NEW m, Good(f, r, b, m), NEW p \in f
    PROVE  Good(f \ {p}, Append(r, p), b, m)
<1>1. p \in Proc /\ p \notin ToSet(r) /\ r \in Seq(Proc) /\ IsInjective(r)
  BY DEF Good
<1>2. /\ Append(r, p) \in Seq(Proc) /\ ToSet(Append(r, p)) = ToSet(r) \cup {p}
      /\ IsInjective(Append(r, p))
  BY <1>1, AppendFacts
<1> QED
  BY <1>1, <1>2 DEF Good

----------------------------------------------------------------------------
(***************************************************************************)
(* The loop of SYS3.  Between two operations of the vector the running     *)
(* process is still at the head of the running queue although it may       *)
(* already wait, for semaphores of the P operations done so far.           *)
(***************************************************************************)
Remaining(st) == IF st.flag THEN Tail(st.rq) ELSE st.rq

Mid(st, v, i) ==
    /\ Good(free, Remaining(st), st.blk, st.sem)
    /\ IsInjective(st.rq) /\ Head(st.rq) = cur
    /\ \A s \in Sem : cur \in ToSet(st.blk[s]) =>
                         \E j \in 1..i : v[j].op = LOCK /\ v[j].sem = s
    /\ \A s \in Dev : st.blk[s] = blk[s]

\* What one operation of the vector does.
LEMMA vpopParts ==
    ASSUME NEW st \in LoopState, NEW e \in [op : {LOCK, UNLOCK}, sem : UserSem]
    PROVE  /\ e.op = LOCK =>
                /\ vpop(st, e).sem = [st.sem EXCEPT ![e.sem] = @ - 1]
                /\ vpop(st, e).rq = st.rq
                /\ vpop(st, e).flag = IF st.sem[e.sem] - 1 < 0 THEN TRUE ELSE st.flag
                /\ vpop(st, e).blk = IF st.sem[e.sem] - 1 < 0
                                     THEN insertBlocked(st.blk, e.sem, cur) ELSE st.blk
           /\ e.op # LOCK =>
                /\ vpop(st, e).sem = [st.sem EXCEPT ![e.sem] = @ + 1]
                /\ vpop(st, e).rq = IF st.sem[e.sem] < 0
                                    THEN Wake(st.rq, st.blk, e.sem).rq ELSE st.rq
                /\ vpop(st, e).blk = IF st.sem[e.sem] < 0
                                     THEN Wake(st.rq, st.blk, e.sem).blk ELSE st.blk
                /\ vpop(st, e).flag = st.flag
BY DEF vpop, LoopState

LEMMA vpopMid ==
    ASSUME Fits, NEW v \in Vectors, NEW i \in 1..Len(v), NEW st \in LoopState,
           Mid(st, v, i - 1), cur \in Proc, cur \notin free
    PROVE  Mid(vpop(st, v[i]), v, i)
<1> DEFINE e == v[i]
           s == e.sem
           nx == vpop(st, e)
           E == [op : {LOCK, UNLOCK}, sem : UserSem]
<1>1. e \in E /\ Len(v) \in Nat /\ DOMAIN v = 1..Len(v)
  <2>1. v \in Seq(E)
    BY VectorAssumption
  <2> HIDE DEF E
  <2> QED
    BY <2>1
<1>2. s \in Sem /\ s \notin Dev
  BY <1>1, SemAssumption DEF Sem
<1>3. /\ st.rq \in Seq(Proc) /\ st.rq # <<>> /\ st.flag \in BOOLEAN
      /\ st.blk \in Queues /\ st.sem \in Values /\ st.sem[s] \in Int
      /\ IsInjective(st.rq) /\ Head(st.rq) = cur
      /\ Good(free, Remaining(st), st.blk, st.sem)
  BY <1>2 DEF LoopState, Mid, Values
<1>4. /\ Tail(st.rq) \in Seq(Proc) /\ IsInjective(Tail(st.rq))
      /\ ToSet(st.rq) = ToSet(Tail(st.rq)) \cup {cur} /\ cur \notin ToSet(Tail(st.rq))
  BY <1>3, TailFacts
<1>5. \A j \in 1..(i-1) : v[j].op = LOCK => v[j].sem # s /\ (OneP => e.op = UNLOCK)
  <2>1. \A j \in 1..(i-1) : j \in DOMAIN v /\ i \in DOMAIN v /\ j < i
    BY <1>1
  <2> QED
    BY <2>1 DEF Fits, NoRepeat, OneP
<1>6. /\ cur \notin ToSet(st.blk[s])
      /\ OneP /\ e.op = LOCK => \A u \in Sem : cur \notin ToSet(st.blk[u])
  BY <1>2, <1>5 DEF Mid, LOCK, UNLOCK
<1>7. \A j \in 1..(i-1) : j \in 1..i
  BY <1>1
<1>8. i \in 1..i
  BY <1>1
<1> HIDE DEF s, e, nx, E
<1>9. CASE e.op = LOCK /\ st.sem[s] - 1 < 0
  <2>1. /\ nx.sem = [st.sem EXCEPT ![s] = @ - 1] /\ nx.rq = st.rq /\ nx.flag = TRUE
        /\ nx.blk = insertBlocked(st.blk, s, cur)
    BY <1>1, <1>9, vpopParts DEF s, nx, E
  <2>2. Remaining(nx) = Tail(st.rq) /\ ToSet(Tail(st.rq)) = ToSet(Remaining(st)) \ {cur}
    BY <1>3, <1>4, <2>1 DEF Remaining
  <2>3. /\ Good(free, Tail(st.rq), nx.blk, nx.sem)
        /\ nx.blk = [st.blk EXCEPT ![s] = Append(@, cur)]
    <3> DEFINE r == Remaining(st)
               b == st.blk
               m == st.sem
               x == Tail(st.rq)
    <3>1. /\ Good(free, r, b, m) /\ m[s] - 1 < 0 /\ cur \notin ToSet(b[s])
          /\ OneP => \A u \in Sem : cur \notin ToSet(b[u])
          /\ x \in Seq(Proc) /\ IsInjective(x) /\ ToSet(x) = ToSet(r) \ {cur}
      BY <1>3, <1>4, <1>6, <1>9, <2>2
    <3> HIDE DEF r, b, m, x
    <3>2. /\ Good(free, x, insertBlocked(b, s, cur), [m EXCEPT ![s] = @ - 1])
          /\ insertBlocked(b, s, cur) = [b EXCEPT ![s] = Append(@, cur)]
      BY ONLY <1>2, <3>1, Queued, Fits, cur \in Proc, cur \notin free
    <3> QED
      BY <2>1, <3>2 DEF b, m, x
  <2>4. \A u \in Sem \ {s} : nx.blk[u] = st.blk[u]
    BY <1>3, <2>3 DEF Queues
  <2>5. \A u \in Sem : cur \in ToSet(nx.blk[u]) =>
                          \E j \in 1..i : v[j].op = LOCK /\ v[j].sem = u
    <3> SUFFICES ASSUME NEW u \in Sem, cur \in ToSet(nx.blk[u])
                 PROVE  \E j \in 1..i : v[j].op = LOCK /\ v[j].sem = u
      OBVIOUS
    <3>1. CASE u = s
      BY <1>8, <1>9, <3>1 DEF s, e
    <3>2. CASE u # s
      BY <1>7, <2>4, <3>2 DEF Mid
    <3> QED
      BY <3>1, <3>2
  <2>6. \A d \in Dev : nx.blk[d] = blk[d]
    BY <1>2, <2>4 DEF Mid, Sem
  <2> QED
    BY <1>3, <2>1, <2>2, <2>3, <2>5, <2>6 DEF Mid, nx, e
<1>10. CASE e.op = LOCK /\ ~(st.sem[s] - 1 < 0)
  <2>1. /\ nx.sem = [st.sem EXCEPT ![s] = @ - 1] /\ nx.rq = st.rq /\ nx.flag = st.flag
        /\ nx.blk = st.blk
    BY <1>1, <1>10, vpopParts DEF s, nx, E
  <2>2. nx.sem = [st.sem EXCEPT ![s] = st.sem[s] - 1]
    BY <1>3, <2>1 DEF Values
  <2>3. st.sem[s] - 1 \in Nat /\ st.sem[s] >= 0
    BY <1>3, <1>10
  <2>4. Good(free, Remaining(st), nx.blk, nx.sem)
    BY <1>2, <1>3, <2>1, <2>2, <2>3, Raised
  <2>5. Remaining(nx) = Remaining(st)
    BY <2>1 DEF Remaining
  <2> QED
    BY <1>3, <1>7, <2>1, <2>4, <2>5 DEF Mid, nx, e
<1>11. CASE e.op # LOCK /\ st.sem[s] < 0
  <2> DEFINE p == Head(st.blk[s])
             left == removeBlocked(st.blk, s)
  <2>1. /\ nx.sem = [st.sem EXCEPT ![s] = @ + 1] /\ nx.flag = st.flag
        /\ nx.rq = Wake(st.rq, st.blk, s).rq /\ nx.blk = Wake(st.rq, st.blk, s).blk
    BY <1>1, <1>11, vpopParts DEF s, nx, E
  <2>2. /\ Good(free, Wake(Remaining(st), st.blk, s).rq, Wake(Remaining(st), st.blk, s).blk, nx.sem)
        /\ st.blk[s] # <<>>
    BY <1>2, <1>3, <1>11, <2>1, Woken
  <2>3. st.blk[s] \in Seq(Proc)
    BY <1>2, <1>3 DEF Queues
  <2>4. /\ p \in Proc /\ p \in ToSet(st.blk[s]) /\ p # cur
        /\ ToSet(Tail(st.blk[s])) \subseteq ToSet(st.blk[s])
    BY <1>6, <2>2, <2>3, TailFacts
  <2>5. nx.blk = left /\ Wake(Remaining(st), st.blk, s).blk = left
    BY <2>1, <2>2 DEF Wake
  <2>6. nx.rq = IF InNoQueue(st.rq, left, p) THEN Append(st.rq, p) ELSE st.rq
    BY <2>1, <2>2 DEF Wake
  <2>7. Wake(Remaining(st), st.blk, s).rq =
          IF InNoQueue(Remaining(st), left, p) THEN Append(Remaining(st), p) ELSE Remaining(st)
    BY <2>2 DEF Wake
  <2> HIDE DEF p
  <2>8. InNoQueue(st.rq, left, p) <=> InNoQueue(Remaining(st), left, p)
    BY <1>4, <2>4 DEF InNoQueue, Remaining
  <2>9. left[s] = Tail(st.blk[s]) /\ \A u \in Sem \ {s} : left[u] = st.blk[u]
    BY <1>3 , <1>2 DEF removeBlocked, Queues
  <2> HIDE DEF left
  <2>10. /\ Tail(Append(st.rq, p)) = Append(Tail(st.rq), p)
         /\ Head(Append(st.rq, p)) = cur
    BY <1>3, <2>4, TailAppend
  <2>11. Remaining(nx) = Wake(Remaining(st), st.blk, s).rq /\ Head(nx.rq) = cur
    BY <1>3, <2>1, <2>6, <2>7, <2>8, <2>10 DEF Remaining
  <2>12. IsInjective(nx.rq)
    <3>1. InNoQueue(st.rq, left, p) => p \notin ToSet(st.rq)
      BY DEF InNoQueue
    <3> QED
      BY <1>3, <2>4, <2>6, <3>1, AppendFacts
  <2>13. \A u \in Sem : cur \in ToSet(nx.blk[u]) => cur \in ToSet(st.blk[u])
    BY <2>4, <2>5, <2>9
  <2>14. \A d \in Dev : nx.blk[d] = blk[d]
    BY <1>2, <2>5, <2>9 DEF Mid, Sem
  <2>15. Good(free, Remaining(nx), nx.blk, nx.sem)
    BY <2>2, <2>5, <2>11
  <2>16. \A u \in Sem : cur \in ToSet(nx.blk[u]) =>
                          \E j \in 1..i : v[j].op = LOCK /\ v[j].sem = u
    BY <1>7, <2>13 DEF Mid
  <2> QED
    BY <2>11, <2>12, <2>14, <2>15, <2>16 DEF Mid, nx, e
<1>12. CASE e.op # LOCK /\ ~(st.sem[s] < 0)
  <2>1. /\ nx.sem = [st.sem EXCEPT ![s] = @ + 1] /\ nx.rq = st.rq /\ nx.flag = st.flag
        /\ nx.blk = st.blk
    BY <1>1, <1>12, vpopParts DEF s, nx, E
  <2>2. nx.sem = [st.sem EXCEPT ![s] = st.sem[s] + 1]
    BY <1>3, <2>1 DEF Values
  <2>3. st.sem[s] + 1 \in Nat /\ st.sem[s] >= 0
    BY <1>3, <1>12
  <2>4. Good(free, Remaining(st), nx.blk, nx.sem)
    BY <1>2, <1>3, <2>1, <2>2, <2>3, Raised
  <2>5. Remaining(nx) = Remaining(st)
    BY <2>1 DEF Remaining
  <2> QED
    BY <1>3, <1>7, <2>1, <2>4, <2>5 DEF Mid, nx, e
<1> QED
  BY <1>9, <1>10, <1>11, <1>12

----------------------------------------------------------------------------
(***************************************************************************)
(* The inductive invariant.  Of the devices it needs that at most one      *)
(* process waits for each: an interrupt that finds two (dev_sem = -2)      *)
(* raises the semaphore and releases nobody.                               *)
(***************************************************************************)
DevInv == /\ \A d \in Dev : \A p \in ToSet(blk[d]) : want[p] = d
          /\ \A p, q \in Proc : want[p] = want[q] /\ want[p] # NIL => p = q

AllGood == Good(free, rq, blk, sem)

IInv == TypeOK /\ AllGood /\ DevInv

LEMMA GoodMeans ==
    ASSUME AllGood
    PROVE  Placed /\ SemCount /\ (OneP => OneQueue)
<1>1. ToSet(rq) \subseteq Proc /\ Blocked \subseteq Proc
  <2>1. \A s \in Sem : ToSet(blk[s]) \subseteq Proc
    BY MembersType DEF AllGood, Good, Queues
  <2> QED
    BY <2>1, MembersType DEF AllGood, Good, Blocked
<1>2. Placed
  BY <1>1 DEF AllGood, Good, Placed, Blocked
<1>3. SemCount
  BY DEF AllGood, Good, SemCount
<1>4. OneP => OneQueue
  <2> SUFFICES ASSUME OneP, NEW s \in Sem, NEW t \in Sem, s # t,
                      NEW p \in ToSet(blk[s]) \cap ToSet(blk[t])
               PROVE  FALSE
    BY DEF OneQueue
  <2>1. p \in Proc
    BY <1>1 DEF Blocked
  <2> QED
    BY <2>1 DEF AllGood, Good
<1> QED
  BY <1>2, <1>3, <1>4

LEMMA curPlaced ==
    ASSUME TypeOK, AllGood, Running
    PROVE  /\ cur \in Proc /\ cur \notin free /\ \A s \in Sem : cur \notin ToSet(blk[s])
           /\ rq \in Seq(Proc) /\ rq # <<>> /\ cur = Head(rq) /\ IsInjective(rq)
           /\ Tail(rq) \in Seq(Proc) /\ IsInjective(Tail(rq))
           /\ ToSet(Tail(rq)) = ToSet(rq) \ {cur}
<1>1. cur \in Proc /\ cur \in ToSet(rq) /\ Tail(rq) \in Seq(Proc)
  BY curType
<1>2. rq \in Seq(Proc) /\ rq # <<>> /\ cur = Head(rq) /\ IsInjective(rq)
  BY DEF Running, cur, AllGood, Good
<1>3. /\ IsInjective(Tail(rq)) /\ cur \notin ToSet(Tail(rq))
      /\ ToSet(rq) = ToSet(Tail(rq)) \cup {cur}
  BY <1>2, TailFacts
<1>4. cur \notin free /\ \A s \in Sem : cur \notin ToSet(blk[s])
  BY <1>1 DEF AllGood, Good
<1> QED
  BY <1>1, <1>2, <1>3, <1>4

LEMMA Sem_OPGood ==
    ASSUME Fits, TypeOK, AllGood, NEW v \in Vectors, Sem_OP(v)
    PROVE  AllGood' /\ \A d \in Dev : blk'[d] = blk[d]
<1> DEFINE n == Len(v)
<1>0. Running
  BY DEF Sem_OP
<1>1. /\ cur \in Proc /\ cur \notin free /\ cur = Head(rq) /\ IsInjective(rq)
      /\ \A s \in Sem : cur \notin ToSet(blk[s])
  BY <1>0, curPlaced
<1>2. n \in Nat
  BY VectorAssumption
<1>3. PICK f : IsExec(f, v, Start) /\ Exec(v, Start) = f[Len(v)]
  BY <1>0, <1>1, StartType, ExecDef
<1>4. f \in [0..n -> LoopState] /\ f[0] = Start /\ \A i \in 1..n : f[i] = vpop(f[i-1], v[i])
  BY <1>3 DEF IsExec
<1>5. Mid(Start, v, 0)
  <2>1. /\ Start.rq = rq /\ Start.blk = blk /\ Start.sem = sem /\ Start.flag = FALSE
        /\ Remaining(Start) = rq
    BY DEF Start, Remaining
  <2> QED
    BY <1>1, <2>1 DEF Mid, AllGood
<1> DEFINE T == {i \in 0..n : Mid(f[i], v, i)}
<1>6. 0 \in T
  BY <1>2, <1>4, <1>5
<1>7. ASSUME NEW i \in 1..n, i - 1 \in T
      PROVE  i \in T
  <2>1. i - 1 \in 0..n /\ i \in 0..n
    BY <1>2
  <2>2. f[i-1] \in LoopState /\ f[i] = vpop(f[i-1], v[i]) /\ Mid(f[i-1], v, i-1)
    BY <1>4, <1>7, <2>1
  <2>3. Mid(vpop(f[i-1], v[i]), v, i)
    BY <1>1, <2>2, vpopMid
  <2> QED
    BY <2>1, <2>2, <2>3
<1>8. n \in T
  <2> HIDE DEF T, n
  <2> QED
    BY <1>2, <1>6, <1>7, IntervalInduction
<1> DEFINE st == Exec(v, Start)
<1>9. Mid(st, v, n)
  BY <1>3, <1>8
<1>10. /\ sem' = st.sem /\ blk' = st.blk /\ rq' = Remaining(st) /\ free' = free
  BY DEF Sem_OP, Start, Remaining
<1> HIDE DEF st
<1> QED
  BY <1>9, <1>10 DEF Mid, AllGood

\* The P of SYS7 and SYS8.
LEMMA intsemopGood ==
    ASSUME Fits, TypeOK, AllGood, Running, NEW s \in Sem, intsemop(s)
    PROVE  /\ Good(free, rq', blk', sem')
           /\ sem[s] > 0 => blk' = blk
           /\ blk' = blk \/ blk' = [blk EXCEPT ![s] = Append(@, cur)]
<1>0. Good(free, rq, blk, sem) /\ sem \in Values /\ sem[s] \in Int
  BY DEF AllGood, Good, Values
<1>1. sem' = [sem EXCEPT ![s] = @ - 1]
  BY DEF intsemop
<1>2. CASE sem[s] - 1 < 0
  <2>1. rq' = Tail(rq) /\ blk' = insertBlocked(blk, s, cur)
    BY <1>2 DEF intsemop
  <2>2. /\ Good(free, Tail(rq), insertBlocked(blk, s, cur), [sem EXCEPT ![s] = @ - 1])
        /\ insertBlocked(blk, s, cur) = [blk EXCEPT ![s] = Append(@, cur)]
    <3>1. /\ cur \in Proc /\ cur \notin free /\ \A u \in Sem : cur \notin ToSet(blk[u])
          /\ Tail(rq) \in Seq(Proc) /\ IsInjective(Tail(rq))
          /\ ToSet(Tail(rq)) = ToSet(rq) \ {cur}
      BY curPlaced
    <3> DEFINE x == Tail(rq)
    <3>2. x \in Seq(Proc) /\ IsInjective(x) /\ ToSet(x) = ToSet(rq) \ {cur}
      BY <3>1
    <3> HIDE DEF x
    <3>3. /\ Good(free, x, insertBlocked(blk, s, cur), [sem EXCEPT ![s] = @ - 1])
          /\ insertBlocked(blk, s, cur) = [blk EXCEPT ![s] = Append(@, cur)]
      BY ONLY Fits, s \in Sem, <1>0, <1>2, <3>1, <3>2, Queued, SMTT(30)
    <3> QED
      BY <3>3 DEF x
  <2> QED
    BY <1>0, <1>1, <1>2, <2>1, <2>2
<1>3. CASE ~(sem[s] - 1 < 0)
  <2>1. rq' = rq /\ blk' = blk
    BY <1>3 DEF intsemop
  <2>2. sem[s] >= 0 /\ sem[s] - 1 \in Nat /\ sem' = [sem EXCEPT ![s] = sem[s] - 1]
    BY <1>0, <1>1, <1>3 DEF Values
  <2> QED
    BY <1>0, <2>1, <2>2, Raised
<1> QED
  BY <1>2, <1>3

----------------------------------------------------------------------------
\* At most one process waits for a device.
LEMMA OneWaiter ==
    ASSUME TypeOK, AllGood, DevInv, NEW d \in Dev
    PROVE  sem[d] \in Int /\ sem[d] >= -1
<1>1. /\ d \in Sem /\ blk[d] \in Seq(Proc) /\ IsInjective(blk[d]) /\ sem[d] \in Int
      /\ Len(blk[d]) = IF sem[d] < 0 THEN -sem[d] ELSE 0
  BY DEF Sem, TypeOK, AllGood, Good
<1>2. SUFFICES ASSUME Len(blk[d]) >= 2 PROVE FALSE
  BY <1>1
<1>3. /\ 1 \in DOMAIN blk[d] /\ 2 \in DOMAIN blk[d] /\ 1 # 2
      /\ blk[d][1] \in Proc /\ blk[d][2] \in Proc
  BY <1>1, <1>2
<1>4. blk[d][1] # blk[d][2]
  BY <1>1, <1>3 DEF IsInjective
<1>5. blk[d][1] \in ToSet(blk[d]) /\ blk[d][2] \in ToSet(blk[d])
  BY <1>3 DEF ToSet
<1>6. want[blk[d][1]] = d /\ want[blk[d][2]] = d /\ d # NIL
  BY <1>5, ProcAssumption DEF DevInv
<1> QED
  BY <1>3, <1>4, <1>6 DEF DevInv

LEMMA WakeOthers ==
    ASSUME NEW r, NEW b \in Queues, NEW s \in Sem
    PROVE  /\ \A u \in Sem \ {s} : Wake(r, b, s).blk[u] = b[u]
           /\ b[s] # <<>> => Wake(r, b, s).blk[s] = Tail(b[s])
BY DEF Wake, removeBlocked, Queues

LEMMA FreeInv ==
    ASSUME IInv, Running, NEW K \in SUBSET Proc, Free(K)
    PROVE  IInv'
<1> DEFINE b == [s \in Sem |-> Without(blk[s], K)]
<1>1. TypeOK'
  BY FreeType DEF IInv
<1>2. /\ free' = free \cup K /\ rq' = Without(rq, K) /\ blk' = b
      /\ sem' = [s \in Sem |-> sem[s] + (Len(blk[s]) - Len(b[s]))]
      /\ want' = [q \in Proc |-> IF q \in K THEN NIL ELSE want[q]]
  BY DEF Free, outBlocked
<1>3. AllGood'
  <2>1. Good(free \cup K, Without(rq, K), b,
             [s \in Sem |-> sem[s] + (Len(blk[s]) - Len(b[s]))])
    BY Freed DEF IInv, AllGood
  <2> HIDE DEF b
  <2> QED
    BY <1>2, <2>1 DEF AllGood
<1>4. ASSUME NEW d \in Dev, NEW p \in ToSet(blk'[d])
      PROVE  want'[p] = d
  <2>1. d \in Sem /\ blk[d] \in Seq(Proc)
    BY DEF Sem, IInv, TypeOK
  <2>2. blk'[d] = Without(blk[d], K)
    BY <1>2, <2>1
  <2>3. p \in ToSet(blk[d]) /\ p \notin K
    BY <1>4, <2>1, <2>2, WithoutFacts
  <2>4. p \in Proc
    BY <2>1, <2>3, MembersType
  <2> QED
    BY <1>2, <2>3, <2>4 DEF IInv, DevInv
<1>5. \A p, q \in Proc : want'[p] = want'[q] /\ want'[p] # NIL => p = q
  BY <1>2 DEF IInv, DevInv
<1> QED
  BY <1>1, <1>3, <1>4, <1>5 DEF IInv, DevInv

LEMMA waitforioInv ==
    ASSUME Fits, IInv, NEW d \in Dev, waitforio(d)
    PROVE  IInv'
<1>1. TypeOK'
  BY waitforioType DEF IInv
<1>2. Running /\ d \in Sem /\ want[cur] = d /\ free' = free
  BY DEF waitforio, Sem
<1>3. /\ cur \in Proc /\ blk \in Queues /\ Good(free, rq, blk, sem)
      /\ sem \in Values /\ sem[d] \in Int /\ want \in [Proc -> Dev \cup {NIL}]
      /\ \A s \in Sem : cur \notin ToSet(blk[s])
  BY <1>2, curPlaced DEF IInv, AllGood, Good, Values, TypeOK
<1>4. /\ AllGood'
      /\ sem[d] > 0 => blk' = blk
      /\ blk' = blk \/ blk' = [blk EXCEPT ![d] = Append(@, cur)]
  <2>1. CASE sem[d] = 1
    <3>1. sem' = [sem EXCEPT ![d] = 0] /\ rq' = rq /\ blk' = blk
      BY <1>2, <1>3, <2>1 DEF waitforio, Values
    <3>2. Good(free, rq, blk, [sem EXCEPT ![d] = 0])
      BY <1>2, <1>3, <2>1, Raised
    <3> QED
      BY <1>2, <3>1, <3>2 DEF AllGood
  <2>2. CASE sem[d] # 1
    <3>1. intsemop(d)
      BY <2>2 DEF waitforio
    <3> QED
      BY <1>2, <3>1, intsemopGood DEF IInv, AllGood
  <2> QED
    BY <2>1, <2>2
<1>5. want' = IF sem[d] > 0 THEN [want EXCEPT ![cur] = NIL] ELSE want
  BY DEF waitforio
<1>6. ASSUME NEW u \in Dev, NEW p \in ToSet(blk'[u])
      PROVE  want'[p] = u
  <2>0. u \in Sem /\ blk[u] \in Seq(Proc)
    BY <1>3 DEF Sem, Queues
  <2>1. CASE blk' = blk
    BY <1>3, <1>5, <1>6, <2>0, <2>1 DEF IInv, DevInv
  <2>2. CASE blk' = [blk EXCEPT ![d] = Append(@, cur)] /\ blk' # blk
    <3>1. want' = want
      BY <1>3, <1>4, <1>5, <2>2
    <3>2. ToSet(blk'[u]) = ToSet(blk[u]) \cup (IF u = d THEN {cur} ELSE {})
      BY <1>2, <1>3, <2>0, <2>2, AppendFacts DEF Queues
    <3> QED
      BY <1>2, <1>6, <3>1, <3>2 DEF IInv, DevInv
  <2> QED
    BY <1>4, <2>1, <2>2
<1>7. \A p, q \in Proc : want'[p] = want'[q] /\ want'[p] # NIL => p = q
  BY <1>3, <1>5 DEF IInv, DevInv
<1> QED
  BY <1>1, <1>4, <1>6, <1>7 DEF IInv, DevInv

LEMMA inthandlerInv ==
    ASSUME IInv, NEW d \in Dev, inthandler(d)
    PROVE  IInv'
<1>1. TypeOK'
  BY inthandlerType DEF IInv
<1>2. /\ d \in Sem /\ blk \in Queues /\ Good(free, rq, blk, sem) /\ sem \in Values
      /\ want \in [Proc -> Dev \cup {NIL}] /\ free' = free
      /\ sem' = [sem EXCEPT ![d] = @ + 1]
  BY DEF Sem, IInv, AllGood, Good, TypeOK, inthandler
<1>3. CASE sem[d] = -1
  <2>1. /\ blk' = Wake(rq, blk, d).blk /\ rq' = Wake(rq, blk, d).rq
        /\ want' = [want EXCEPT ![Head(blk[d])] = NIL]
    BY <1>3 DEF inthandler
  <2>2. /\ Good(free, Wake(rq, blk, d).rq, Wake(rq, blk, d).blk, [sem EXCEPT ![d] = @ + 1])
        /\ blk[d] # <<>>
    <3>1. sem[d] < 0
      BY <1>3
    <3> QED
      BY ONLY <1>2, <3>1, Woken
  <2>3. AllGood'
    BY <1>2, <2>1, <2>2 DEF AllGood
  <2> DEFINE h == Head(blk[d])
  <2>4. blk[d] \in Seq(Proc) /\ IsInjective(blk[d])
    BY <1>2 DEF Queues, Good
  <2>5. /\ h \in Proc /\ h \in ToSet(blk[d]) /\ h \notin ToSet(Tail(blk[d]))
        /\ ToSet(Tail(blk[d])) \subseteq ToSet(blk[d])
    BY <2>2, <2>4, TailFacts
  <2> HIDE DEF h
  <2>6. want' = [want EXCEPT ![h] = NIL] /\ want[h] = d
    BY <2>1, <2>5 DEF h, IInv, DevInv
  <2>7. /\ blk'[d] = Tail(blk[d])
        /\ \A u \in Dev \ {d} : blk'[u] = blk[u]
    BY <1>2, <2>1, <2>2, WakeOthers DEF Sem
  <2>8. ASSUME NEW u \in Dev, NEW p \in ToSet(blk'[u])
        PROVE  want'[p] = u
    <3>1. p \in ToSet(blk[u])
      BY <2>5, <2>7, <2>8
    <3>2. want[p] = u
      BY <3>1 DEF IInv, DevInv
    <3>3. p # h
      BY <2>5, <2>6, <2>7, <2>8, <3>2
    <3>4. p \in Proc
      <4>1. blk[u] \in Seq(Proc)
        BY <1>2 DEF Queues, Sem
      <4> QED
        BY <3>1, <4>1, MembersType
    <3> QED
      BY <1>2, <2>6, <3>2, <3>3, <3>4
  <2>9. \A p, q \in Proc : want'[p] = want'[q] /\ want'[p] # NIL => p = q
    BY <1>2, <2>5, <2>6 DEF IInv, DevInv
  <2> QED
    BY <1>1, <2>3, <2>8, <2>9 DEF IInv, DevInv
<1>4. CASE sem[d] # -1
  <2>1. blk' = blk /\ rq' = rq /\ want' = want
    BY <1>4 DEF inthandler
  <2>2. sem[d] \in Int /\ sem[d] >= -1
    BY OneWaiter DEF IInv
  <2>3. sem[d] >= 0 /\ sem[d] + 1 \in Nat /\ sem' = [sem EXCEPT ![d] = sem[d] + 1]
    BY <1>2, <1>4, <2>2 DEF Values
  <2>4. Good(free, rq, blk, [sem EXCEPT ![d] = sem[d] + 1])
    BY <1>2, <2>3, Raised
  <2>5. AllGood'
    BY <1>2, <2>1, <2>3, <2>4 DEF AllGood
  <2> QED
    BY <1>1, <2>1, <2>5 DEF IInv, DevInv
<1> QED
  BY <1>3, <1>4

LEMMA intclockhandlerInv ==
    ASSUME IInv, intclockhandler
    PROVE  IInv'
<1> DEFINE fires == clock_count + 1 >= PClock
           w == IF fires THEN Wake(Turn, blk, Clock) ELSE [rq |-> Turn, blk |-> blk]
<1>1. TypeOK'
  BY intclockhandlerType DEF IInv
<1>2. /\ rq' = w.rq /\ blk' = w.blk /\ free' = free /\ want' = want
      /\ sem' = IF fires /\ blk[Clock] # <<>> THEN [sem EXCEPT ![Clock] = @ + 1] ELSE sem
  BY DEF intclockhandler, devices
<1>3. /\ Clock \in Sem /\ Clock \notin Dev /\ blk \in Queues /\ sem[Clock] \in Int
      /\ Len(blk[Clock]) = IF sem[Clock] < 0 THEN -sem[Clock] ELSE 0
      /\ blk[Clock] \in Seq(Proc) /\ Good(free, rq, blk, sem)
  BY SemAssumption DEF Sem, IInv, AllGood, Good, Queues, Values
<1>4. Good(free, Turn, blk, sem)
  <2>1. CASE rq = <<>>
    BY <1>3, <2>1 DEF Turn
  <2>2. CASE rq # <<>>
    <3> DEFINE x == Append(Tail(rq), Head(rq))
    <3>1. rq \in Seq(Proc) /\ IsInjective(rq)
      BY <1>3 DEF Good
    <3>2. /\ Head(rq) \in Proc /\ Tail(rq) \in Seq(Proc) /\ IsInjective(Tail(rq))
          /\ ToSet(rq) = ToSet(Tail(rq)) \cup {Head(rq)}
          /\ Head(rq) \notin ToSet(Tail(rq))
      BY <2>2, <3>1, TailFacts
    <3>3. x \in Seq(Proc) /\ IsInjective(x) /\ ToSet(x) = ToSet(rq)
      <4> DEFINE h == Head(rq)
                 y == Tail(rq)
      <4>1. /\ h \in Proc /\ y \in Seq(Proc) /\ IsInjective(y) /\ h \notin ToSet(y)
            /\ ToSet(rq) = ToSet(y) \cup {h} /\ x = Append(y, h)
        BY <3>2
      <4> HIDE DEF h, y, x
      <4> QED
        BY <4>1, AppendFacts
    <3>4. Turn = x
      BY <2>2 DEF Turn, cur
    <3> HIDE DEF x
    <3> QED
      BY <1>3, <3>3, <3>4, Rearranged
  <2> QED
    BY <2>1, <2>2
<1>5. CASE fires /\ blk[Clock] # <<>>
  <2>1. sem[Clock] < 0
    BY <1>3, <1>5
  <2>2. Good(free, Wake(Turn, blk, Clock).rq, Wake(Turn, blk, Clock).blk,
             [sem EXCEPT ![Clock] = @ + 1])
    BY <1>3, <1>4, <2>1, Woken
  <2>3. AllGood'
    BY <1>2, <1>5, <2>2 DEF AllGood
  <2>4. \A d \in Dev : blk'[d] = blk[d]
    BY <1>2, <1>3, <1>5, WakeOthers DEF Sem
  <2> QED
    BY <1>1, <1>2, <2>3, <2>4 DEF IInv, DevInv
<1>6. CASE ~(fires /\ blk[Clock] # <<>>)
  <2>1. rq' = Turn /\ blk' = blk /\ sem' = sem
    BY <1>2, <1>6 DEF Wake
  <2>2. AllGood'
    BY <1>2, <1>4, <2>1 DEF AllGood
  <2> QED
    BY <1>1, <1>2, <2>1, <2>2 DEF IInv, DevInv
<1> QED
  BY <1>5, <1>6

----------------------------------------------------------------------------
\* Every step of the nucleus keeps the invariant.
LEMMA Invariance ==
    ASSUME Fits, IInv, [Next]_vars
    PROVE  IInv'
<1>t. TypeOK /\ AllGood /\ DevInv
  BY DEF IInv
<1>0. ASSUME Running, Terminate_Process PROVE IInv'
  BY <1>0, <1>t, ProgenyType, FreeInv
<1>s. ASSUME UNCHANGED <<free, rq, blk, sem, want>>, TypeOK' PROVE IInv'
  BY <1>s DEF IInv, AllGood, DevInv
<1>1. CASE Create_Process
  <2>1. TypeOK'
    BY <1>1, <1>t, Create_ProcessType
  <2>2. \E p \in free : free' = free \ {p} /\ rq' = Append(rq, p)
    BY <1>1 DEF Create_Process
  <2>3. UNCHANGED <<blk, sem, want>>
    BY <1>1 DEF Create_Process, devices
  <2>4. AllGood'
    <3>1. PICK p \in free : free' = free \ {p} /\ rq' = Append(rq, p)
      BY <2>2
    <3>2. Good(free \ {p}, Append(rq, p), blk, sem)
      BY <1>t, Created DEF AllGood
    <3> QED
      BY <2>3, <3>1, <3>2 DEF AllGood
  <2> QED
    BY <1>t, <2>1, <2>3, <2>4 DEF IInv, DevInv
<1>2. CASE SYS2
  BY <1>0, <1>2 DEF SYS2
<1>3. ASSUME NEW v \in Vectors, Sem_OP(v) PROVE IInv'
  <2>1. TypeOK' /\ AllGood' /\ \A d \in Dev : blk'[d] = blk[d]
    BY <1>3, <1>t, Sem_OPType, Sem_OPGood
  <2>2. want' = want
    BY <1>3 DEF Sem_OP, devices
  <2> QED
    BY <1>t, <2>1, <2>2 DEF IInv, DevInv
<1>4. CASE notused
  BY <1>4, <1>s, <1>t DEF notused, TypeOK, tree, devices
<1>5. ASSUME NEW t \in TrapTypes, Specify_Trap_State_Vector(t) PROVE IInv'
  <2>1. CASE t \in vec[cur]
    BY <1>0, <1>5, <2>1 DEF Specify_Trap_State_Vector
  <2>2. CASE t \notin vec[cur]
    <3>1. TypeOK'
      BY <1>5, <1>t, <2>2 DEF Specify_Trap_State_Vector, TypeOK, tree, devices
    <3>2. UNCHANGED <<free, rq, blk, sem, want>>
      BY <1>5, <2>2 DEF Specify_Trap_State_Vector, devices
    <3> QED
      BY <1>s, <3>1, <3>2
  <2> QED
    BY <2>1, <2>2
<1>6. ASSUME NEW t \in TrapTypes, pass_up(t) PROVE IInv'
  BY <1>0, <1>6 DEF pass_up
<1>7. CASE waitforpclock
  <2>1. Running /\ Clock \in Sem /\ Clock \notin Dev /\ intsemop(Clock)
    BY <1>7, SemAssumption DEF waitforpclock, Sem
  <2>2. TypeOK'
    BY <1>7, <1>t, <2>1, intsemopType DEF waitforpclock, TypeOK, tree, devices, Timer, Halt
  <2>3. UNCHANGED <<free, want>>
    BY <1>7 DEF waitforpclock, devices
  <2>4. /\ Good(free, rq', blk', sem')
        /\ blk' = blk \/ blk' = [blk EXCEPT ![Clock] = Append(@, cur)]
    BY <1>t, <2>1, intsemopGood
  <2>5. \A d \in Dev : blk'[d] = blk[d]
    BY <1>t, <2>1, <2>4 DEF TypeOK, Sem
  <2> QED
    BY <1>t, <2>2, <2>3, <2>4, <2>5 DEF IInv, AllGood, DevInv
<1>8. ASSUME NEW d \in Dev, StartIO(d) PROVE IInv'
  <2>1. /\ Running /\ cur \in Proc /\ \A s \in Sem : cur \notin ToSet(blk[s])
    BY <1>8, <1>t, curPlaced DEF StartIO
  <2>2. /\ want' = [want EXCEPT ![cur] = d] /\ \A p \in Proc : want[p] # d
        /\ UNCHANGED <<free, rq, blk, sem>> /\ want \in [Proc -> Dev \cup {NIL}]
    BY <1>8, <1>t DEF StartIO, TypeOK
  <2>3. TypeOK'
    BY <1>8, <1>t, <2>1 DEF StartIO, TypeOK, tree, Link
  <2>4. \A u \in Dev : ToSet(blk[u]) \subseteq Proc /\ u \in Sem
    BY <1>t, MembersType DEF TypeOK, Sem
  <2>5. DevInv'
    BY <1>t, <2>1, <2>2, <2>4 DEF DevInv
  <2> QED
    BY <1>t, <2>2, <2>3, <2>5 DEF IInv, AllGood
<1>9. ASSUME NEW d \in Dev, waitforio(d) \/ inthandler(d) PROVE IInv'
  BY <1>9, waitforioInv, inthandlerInv
<1>10. CASE intclockhandler
  BY <1>10, intclockhandlerInv
<1>11. CASE Tick
  <2>1. timer' \in Off..Quantum
    BY <1>11, <1>t, BoundAssumption DEF Tick, TypeOK, Off
  <2> QED
    BY <1>11, <1>s, <1>t, <2>1 DEF Tick, TypeOK, tree, devices
<1>12. CASE UNCHANGED vars
  BY <1>12, <1>s, <1>t DEF vars, TypeOK
<1> QED
  BY <1>1, <1>2, <1>3, <1>4, <1>5, <1>6, <1>7, <1>8, <1>9, <1>10, <1>11, <1>12
     DEF Next, Halted

LEMMA Initially ==
    ASSUME Init, TypeOK
    PROVE  IInv
<1>1. PICK p \in Proc : free = Proc \ {p} /\ rq = <<p>>
  BY DEF Init
<1>2. ToSet(rq) = {p} /\ IsInjective(rq)
  BY <1>1 DEF ToSet, IsInjective
<1>3. \A s \in Sem : blk[s] = <<>> /\ sem[s] \in Int /\ sem[s] >= 0
  BY DEF Init, initSemd
<1>4. \A s \in Sem : ToSet(blk[s]) = {} /\ IsInjective(blk[s]) /\ Len(blk[s]) = 0
  BY <1>3, EmptyFacts
<1>5. AllGood
  BY <1>1, <1>2, <1>3, <1>4 DEF AllGood, Good, TypeOK, Queues, Values
<1>6. DevInv
  BY <1>4 DEF DevInv, Init, Sem
<1> QED
  BY <1>5, <1>6 DEF IInv

\* The invariant holds throughout.
LEMMA Inductive ==
    ASSUME Fits
    PROVE  Spec => []IInv
<1>1. Init => IInv
  BY TypeInit, Initially
<1>2. IInv /\ [Next]_vars => IInv'
  BY Invariance
<1> QED
  BY <1>1, <1>2, PTL DEF Spec

\* The nucleus loses no process: whatever the order of system calls,
\* terminations and interrupts, every entry of proc_table is free, ready or
\* waiting, and one of these only - provided that the vectors passed to SYS3
\* cannot exhaust semd_table and name no semaphore again after a P on it.
THEOREM NothingLost ==
    ASSUME Fits
    PROVE  Spec => []Placed
<1>1. Spec => []IInv
  BY Inductive
<1>2. IInv => Placed
  BY GoodMeans DEF IInv
<1> QED
  BY <1>1, <1>2, PTL

\* A negative semaphore counts the processes in its queue and nobody waits for
\* another one, under the same condition: Sem_OP, intsemop, the interrupt
\* handlers and outBlocked change value and queue in step.
THEOREM SemaphoresCount ==
    ASSUME Fits
    PROVE  Spec => []SemCount
<1>1. Spec => []IInv
  BY Inductive
<1>2. IInv => SemCount
  BY GoodMeans DEF IInv
<1> QED
  BY <1>1, <1>2, PTL

\* If no vector holds two P operations, a waiting process stands in the queue
\* of one semaphore only, so that one V, interrupt or tick of the pseudo-clock
\* is enough to make it ready.
THEOREM WaitsForOne ==
    ASSUME NoRepeat, OneP
    PROVE  Spec => []OneQueue
<1>1. Spec => []IInv
  BY Inductive DEF Fits
<1>2. IInv => OneQueue
  BY GoodMeans DEF IInv
<1> QED
  BY <1>1, <1>2, PTL
=============================================================================

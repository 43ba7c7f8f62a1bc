-------------------------- MODULE SleepTreeProofs --------------------------
(***************************************************************************)
(* Theorems about Nucleus, in two parts.                                   *)
(*                                                                         *)
(* When nobody runs: the processor halts when it should, it sleeps only    *)
(* when an interrupt will wake somebody, and the interrupt of a device     *)
(* wakes the process whose operation it completed.                         *)
(*                                                                         *)
(* The process tree: the links of proc_t represent who created whom, and a *)
(* process dies only with its creator.                                     *)
(***************************************************************************)
EXTENDS NucleusProofs

----------------------------------------------------------------------------
(***************************************************************************)
(* What schedule leaves behind, for a running queue r, an ASL b, a timer t *)
(* and a way h of halting.  The timer may be off only while nobody needs   *)
(* it, and the processor goes on only when somebody can still run.         *)
(***************************************************************************)
NobodyOut(b) == \A s \in Dev \cup {Clock} : b[s] = <<>>

Scheduled(h, r, b, t) ==
    /\ h = "no" => /\ t = Off => r = <<>> /\ b[Clock] = <<>>
                   /\ r = <<>> => ~NobodyOut(b)
    /\ h = "normal" => r = <<>> /\ Active(b) = {}
    /\ h = "deadlock" => r = <<>> /\ Active(b) # {} /\ NobodyOut(b)

SleepInv == Scheduled(halt, rq, blk, timer)

LEMMA scheduleGood ==
    ASSUME halt = "no", NEW r, NEW b, NEW t, schedule(r, b, t)
    PROVE  Scheduled(halt', r, b, timer')
<1>1. Quantum # Off
  BY BoundAssumption DEF Off
<1>2. CASE r # <<>>
  BY <1>1, <1>2 DEF schedule, Scheduled
<1>3. CASE r = <<>> /\ b[Clock] # <<>>
  <2>1. timer' = Quantum /\ halt' = "no"
    BY <1>3 DEF schedule, intdeadlock
  <2> QED
    BY <1>1, <1>3, <2>1 DEF Scheduled, NobodyOut
<1>4. CASE r = <<>> /\ b[Clock] = <<>>
  <2>1. halt' = IF \E d \in Dev : b[d] # <<>> THEN "no"
                ELSE IF headASL(b) THEN "deadlock" ELSE "normal"
    BY <1>4 DEF schedule, intdeadlock
  <2>2. CASE \E d \in Dev : b[d] # <<>>
    BY <1>4, <2>1, <2>2 DEF Scheduled, NobodyOut
  <2>3. CASE ~(\E d \in Dev : b[d] # <<>>)
    <3>1. NobodyOut(b)
      BY <1>4, <2>3 DEF NobodyOut
    <3> QED
      BY <1>4, <2>1, <2>3, <3>1 DEF Scheduled, headASL
  <2> QED
    BY <2>2, <2>3
<1> QED
  BY <1>2, <1>3, <1>4

\* A handler that leaves somebody ready, and the timer alone, need not
\* schedule.
LEMMA GoesOn ==
    ASSUME SleepInv, halt = "no", rq # <<>>, NEW r, r # <<>>, NEW b
    PROVE  Scheduled("no", r, b, timer)
BY DEF SleepInv, Scheduled

LEMMA intsemopSleep ==
    ASSUME SleepInv, Running, NEW s, intsemop(s)
    PROVE  SleepInv'
<1>1. halt = "no" /\ rq # <<>>
  BY DEF Running
<1>2. CASE sem[s] - 1 < 0
  <2>1. schedule(rq', blk', timer)
    BY <1>2 DEF intsemop
  <2> QED
    BY <1>1, <2>1, scheduleGood DEF SleepInv
<1>3. CASE ~(sem[s] - 1 < 0)
  <2>1. UNCHANGED <<rq, blk, timer, halt>>
    BY <1>3 DEF intsemop
  <2> QED
    BY <2>1 DEF SleepInv
<1> QED
  BY <1>2, <1>3

LEMMA Sem_OPSleep ==
    ASSUME TypeOK, SleepInv, NEW v \in Vectors, Sem_OP(v)
    PROVE  SleepInv'
<1> DEFINE st == Exec(v, Start)
<1>1. Running /\ halt = "no" /\ rq # <<>> /\ cur \in Proc
  BY curType DEF Sem_OP, Running
<1>2. /\ blk' = st.blk /\ rq' = IF st.flag THEN Tail(st.rq) ELSE st.rq
      /\ IF st.flag THEN schedule(Tail(st.rq), st.blk, timer)
                    ELSE UNCHANGED <<timer, halt>>
  BY DEF Sem_OP, Start
<1>3. st.rq # <<>>
  <2>1. PICK f : IsExec(f, v, Start) /\ Exec(v, Start) = f[Len(v)]
    BY <1>1, StartType, ExecDef
  <2>2. Len(v) \in 0..Len(v)
    BY VectorAssumption
  <2>3. Exec(v, Start) \in LoopState
    BY <2>1, <2>2 DEF IsExec
  <2> QED
    BY <2>3 DEF LoopState
<1> HIDE DEF st
<1>4. CASE st.flag
  <2>1. schedule(rq', blk', timer)
    BY <1>2, <1>4
  <2> QED
    BY <1>1, <2>1, scheduleGood DEF SleepInv
<1>5. CASE ~st.flag
  <2>1. rq' # <<>> /\ halt' = "no" /\ timer' = timer
    BY <1>1, <1>2, <1>3, <1>5
  <2>2. Scheduled("no", rq', blk', timer)
    BY <1>1, <2>1, GoesOn
  <2> QED
    BY <2>1, <2>2 DEF SleepInv
<1> QED
  BY <1>4, <1>5

LEMMA inthandlerSleep ==
    ASSUME TypeOK, SleepInv, NEW d \in Dev, inthandler(d)
    PROVE  SleepInv'
<1>1. halt = "no"
  BY DEF inthandler
<1>2. CASE rq = <<>>
  <2>1. schedule(rq', blk', timer)
    BY <1>2 DEF inthandler
  <2> QED
    BY <1>1, <2>1, scheduleGood DEF SleepInv
<1>3. CASE rq # <<>>
  <2>1. halt' = "no" /\ timer' = timer
    BY <1>1, <1>3 DEF inthandler
  <2>2. rq' # <<>>
    <3>1. d \in Sem /\ blk \in Queues /\ rq \in Seq(Proc)
      BY DEF Sem, TypeOK, Queues
    <3>2. Wake(rq, blk, d).rq # <<>>
      BY <1>3, <3>1, WakeType
    <3> QED
      BY <1>3, <3>2 DEF inthandler
  <2>3. Scheduled("no", rq', blk', timer)
    BY <1>1, <1>3, <2>2, GoesOn
  <2> QED
    BY <2>1, <2>3 DEF SleepInv
<1> QED
  BY <1>2, <1>3

LEMMA SleepInvariance ==
    ASSUME TypeOK, SleepInv, [Next]_vars
    PROVE  SleepInv'
<1>0. ASSUME Running, Terminate_Process PROVE SleepInv'
  <2>1. PICK K \in SUBSET Proc : Free(K)
    BY <1>0, ProgenyType
  <2>2. halt = "no" /\ schedule(rq', blk', timer)
    BY <1>0, <2>1 DEF Running, Free
  <2> QED
    BY <2>2, scheduleGood DEF SleepInv
<1>s. ASSUME UNCHANGED <<rq, blk, timer, halt>> PROVE SleepInv'
  BY <1>s DEF SleepInv
<1>1. CASE Create_Process
  <2>1. PICK p \in free : rq' = Append(rq, p)
    BY <1>1 DEF Create_Process
  <2>2. Append(rq, p) # <<>>
    BY AppendFacts DEF TypeOK
  <2>3. halt = "no" /\ rq # <<>> /\ halt' = "no" /\ timer' = timer
    BY <1>1 DEF Create_Process, Running
  <2>4. Scheduled("no", rq', blk', timer)
    BY <2>1, <2>2, <2>3, GoesOn
  <2> QED
    BY <2>3, <2>4 DEF SleepInv
<1>2. CASE SYS2
  BY <1>0, <1>2 DEF SYS2
<1>3. ASSUME NEW v \in Vectors, Sem_OP(v) PROVE SleepInv'
  BY <1>3, Sem_OPSleep
<1>4. CASE notused
  BY <1>4 DEF notused, SleepInv, Scheduled
<1>5. ASSUME NEW t \in TrapTypes, Specify_Trap_State_Vector(t) PROVE SleepInv'
  BY <1>0, <1>5, <1>s DEF Specify_Trap_State_Vector
<1>6. ASSUME NEW t \in TrapTypes, pass_up(t) PROVE SleepInv'
  BY <1>0, <1>6 DEF pass_up
<1>7. CASE waitforpclock
  BY <1>7, intsemopSleep DEF waitforpclock
<1>8. ASSUME NEW d \in Dev, StartIO(d) PROVE SleepInv'
  BY <1>8, <1>s DEF StartIO
<1>9. ASSUME NEW d \in Dev, waitforio(d) PROVE SleepInv'
  <2>1. Running /\ (UNCHANGED <<rq, blk, timer, halt>> \/ intsemop(d))
    BY <1>9 DEF waitforio
  <2> QED
    BY <1>s, <2>1, intsemopSleep
<1>10. ASSUME NEW d \in Dev, inthandler(d) PROVE SleepInv'
  BY <1>10, inthandlerSleep
<1>11. CASE intclockhandler
  <2>1. halt = "no" /\ schedule(rq', blk', Off)
    BY <1>11 DEF intclockhandler
  <2> QED
    BY <2>1, scheduleGood DEF SleepInv
<1>12. CASE Tick
  <2>1. timer \in Int /\ timer > 0 /\ timer' = timer - 1 /\ UNCHANGED <<rq, blk, halt>>
    BY <1>12 DEF Tick, TypeOK, Off
  <2>2. timer' # Off /\ timer # Off
    BY <2>1 DEF Off
  <2> QED
    BY <2>1, <2>2 DEF SleepInv, Scheduled
<1>13. CASE UNCHANGED vars
  BY <1>13, <1>s DEF vars
<1> QED
  BY <1>1, <1>2, <1>3, <1>4, <1>5, <1>6, <1>7, <1>8, <1>9, <1>10, <1>11, <1>12, <1>13
     DEF Next, Halted

LEMMA SleepInductive == Spec => []SleepInv
<1>1. Init => SleepInv
  <2> SUFFICES ASSUME Init PROVE SleepInv
    OBVIOUS
  <2>1. PICK p \in Proc : rq = <<p>>
    BY DEF Init
  <2>2. halt = "no" /\ timer = Quantum /\ rq # <<>>
    BY <2>1 DEF Init
  <2>3. timer # Off
    BY <2>2, BoundAssumption DEF Off
  <2> QED
    BY <2>2, <2>3 DEF SleepInv, Scheduled
<1>2. TypeOK /\ SleepInv /\ [Next]_vars => SleepInv'
  BY SleepInvariance
<1> QED
  BY <1>1, <1>2, TypeCorrect, PTL DEF Spec

----------------------------------------------------------------------------
\* intdeadlock judges right: it reports a normal termination only when every
\* entry of proc_table is free, and a deadlock only when a process is left,
\* everyone left waits for a semaphore that only processes raise, and nobody
\* waits for a device or the clock.
THEOREM HaltsRight ==
    ASSUME Fits
    PROVE  Spec => []HaltIsRight
<1>1. Spec => []IInv
  BY Inductive
<1>2. IInv /\ SleepInv => HaltIsRight
  <2> SUFFICES ASSUME IInv, SleepInv PROVE HaltIsRight
    OBVIOUS
  <2>1. AllGood /\ \A s \in Sem : blk[s] \in Seq(Proc)
    BY DEF IInv, TypeOK
  <2>2. ToSet(<<>>) = {}
    BY EmptyFacts
  <2>3. ASSUME halt = "normal" PROVE free = Proc
    <3>1. rq = <<>> /\ \A s \in Sem : blk[s] = <<>>
      BY <2>3 DEF SleepInv, Scheduled, Active
    <3>2. ToSet(rq) = {} /\ \A s \in Sem : ToSet(blk[s]) = {}
      BY <2>2, <3>1
    <3> QED
      BY <2>1, <3>2 DEF AllGood, Good
  <2>4. ASSUME halt = "deadlock"
        PROVE  /\ free # Proc
               /\ \A p \in Proc \ free : \E s \in UserSem : p \in ToSet(blk[s])
               /\ \A s \in Dev \cup {Clock} : blk[s] = <<>>
    <3>1. rq = <<>> /\ Active(blk) # {} /\ NobodyOut(blk)
      BY <2>4 DEF SleepInv, Scheduled
    <3>2. ToSet(rq) = {} /\ \A s \in Dev \cup {Clock} : blk[s] = <<>> /\ ToSet(blk[s]) = {}
      BY <2>2, <3>1 DEF NobodyOut
    <3>3. \A p \in Proc \ free : \E s \in UserSem : p \in ToSet(blk[s])
      BY <2>1, <3>2 DEF AllGood, Good, Sem
    <3>4. PICK s \in Sem : blk[s] # <<>>
      BY <3>1 DEF Active
    <3>5. Head(blk[s]) \in Proc /\ Head(blk[s]) \in ToSet(blk[s])
      BY <2>1, <3>4, TailFacts
    <3>6. Head(blk[s]) \notin free
      BY <2>1, <3>5 DEF AllGood, Good
    <3> QED
      BY <3>2, <3>3, <3>5, <3>6
  <2> QED
    BY <2>3, <2>4 DEF HaltIsRight
<1> QED
  BY <1>1, <1>2, SleepInductive, PTL

----------------------------------------------------------------------------
(***************************************************************************)
(* Devices, when no process is killed while a device works for it.  A      *)
(* device is idle and its semaphore 0 when nobody is owed a completion;    *)
(* otherwise one process is, and the device either works for it or is done *)
(* and has left 1 in the semaphore.                                        *)
(***************************************************************************)
Serves(d, p) == \/ io[d] = p /\ sem[d] <= 0
                \/ io[d] = NIL /\ sem[d] = 1 /\ save_arr[d] = p

OwnInv == \A d \in Dev :
    /\ (\A p \in Proc : want[p] # d) => sem[d] = 0 /\ io[d] = NIL
    /\ \A p \in Proc : want[p] = d => Serves(d, p)

LEMMA Termination ==
    ASSUME ~OrphanIO, TypeOK, Running, Terminate_Process
    PROVE  \E K \in SUBSET Proc : Free(K) /\ \A q \in K : want[q] = NIL
BY curType DEF Terminate_Process, Progeny

LEMMA SameLength ==
    ASSUME NEW x \in Seq(Proc), NEW y \in Seq(Proc), IsInjective(y),
           ToSet(x) = ToSet(y), Len(x) <= 1
    PROVE  Len(y) = Len(x)
<1>1. CASE Len(x) = 0
  BY <1>1, EmptyFacts
<1>2. CASE Len(x) = 1
  <2>1. ToSet(x) = {x[1]}
    BY <1>2 DEF ToSet
  <2>2. y # <<>>
    BY <2>1, EmptyFacts
  <2>3. ASSUME Len(y) >= 2 PROVE FALSE
    <3>1. 1 \in DOMAIN y /\ 2 \in DOMAIN y
      BY <2>3
    <3>2. y[1] = x[1] /\ y[2] = x[1]
      BY <2>1, <3>1 DEF ToSet
    <3> QED
      BY <3>1, <3>2 DEF IsInjective
  <2> QED
    BY <1>2, <2>2, <2>3
<1>3. Len(x) = 0 \/ Len(x) = 1
  <2>1. Len(x) \in Nat
    OBVIOUS
  <2>2. \A k \in Nat : k <= 1 => k = 0 \/ k = 1
    OBVIOUS
  <2> QED
    BY ONLY <2>1, <2>2, Len(x) <= 1
<1> QED
  BY <1>1, <1>2, <1>3

\* Killing processes that are owed no completion leaves the devices alone.
LEMMA FreeOwn ==
    ASSUME IInv, OwnInv, NEW K \in SUBSET Proc, Free(K), \A q \in K : want[q] = NIL
    PROVE  OwnInv'
<1> DEFINE b == [s \in Sem |-> Without(blk[s], K)]
<1>1. /\ sem' = [s \in Sem |-> sem[s] + (Len(blk[s]) - Len(b[s]))]
      /\ want' = [q \in Proc |-> IF q \in K THEN NIL ELSE want[q]]
      /\ io' = io /\ save_arr' = save_arr
  BY DEF Free, outBlocked
<1>2. \A q \in Proc : want'[q] = want[q]
  BY <1>1
<1>3. ASSUME NEW d \in Dev PROVE sem'[d] = sem[d]
  <2> DEFINE x == blk[d]
             y == Without(blk[d], K)
  <2>1. /\ d \in Sem /\ x \in Seq(Proc) /\ IsInjective(x) /\ sem[d] \in Int
        /\ Len(x) = IF sem[d] < 0 THEN -sem[d] ELSE 0
    BY DEF Sem, IInv, TypeOK, AllGood, Good
  <2>2. sem[d] >= -1
    BY OneWaiter DEF IInv
  <2>3. /\ y \in Seq(Proc) /\ ToSet(y) = ToSet(x) \ K /\ IsInjective(y)
    BY <2>1, WithoutFacts
  <2>4. ToSet(x) \cap K = {}
    <3>1. \A p \in ToSet(x) : want[p] = d /\ d # NIL
      BY ProcAssumption DEF IInv, DevInv
    <3> QED
      BY <3>1
  <2>5. b[d] = y
    BY <2>1
  <2>6. sem'[d] = sem[d] + (Len(x) - Len(b[d]))
    BY <1>1, <2>1
  <2> HIDE DEF x, y, b
  <2>7. Len(x) \in Nat /\ Len(x) <= 1 /\ ToSet(x) = ToSet(y)
    BY <2>1, <2>2, <2>3, <2>4
  <2>8. Len(y) = Len(x)
    BY <2>1, <2>3, <2>7, SameLength
  <2> QED
    BY <2>1, <2>5, <2>6, <2>7, <2>8
<1>4. io' = io /\ save_arr' = save_arr
  BY <1>1
<1> QED
  BY <1>2, <1>3, <1>4 DEF OwnInv, Serves

\* The loop of SYS3 leaves the semaphores of the devices alone.
LEMMA Sem_OPOwn ==
    ASSUME TypeOK, NEW v \in Vectors, Sem_OP(v)
    PROVE  \A d \in Dev : sem'[d] = sem[d]
<1> DEFINE n == Len(v)
<1>1. cur \in Proc /\ Running
  BY curType DEF Sem_OP
<1>2. n \in Nat /\ \A i \in 1..n : v[i] \in [op : {LOCK, UNLOCK}, sem : UserSem]
  <2> DEFINE E == [op : {LOCK, UNLOCK}, sem : UserSem]
  <2>1. v \in Seq(E)
    BY VectorAssumption
  <2> HIDE DEF E
  <2>2. n \in Nat /\ \A i \in 1..n : v[i] \in E
    BY <2>1
  <2> QED
    BY <2>2 DEF E
<1>3. PICK f : IsExec(f, v, Start) /\ Exec(v, Start) = f[Len(v)]
  BY <1>1, StartType, ExecDef
<1>4. f \in [0..n -> LoopState] /\ f[0] = Start /\ \A i \in 1..n : f[i] = vpop(f[i-1], v[i])
  BY <1>3 DEF IsExec
<1> DEFINE T == {i \in 0..n : \A d \in Dev : f[i].sem[d] = sem[d]}
<1>5. 0 \in T
  BY <1>2, <1>4 DEF Start
<1>6. ASSUME NEW i \in 1..n, i - 1 \in T
      PROVE  i \in T
  <2>1. i - 1 \in 0..n /\ i \in 0..n
    BY <1>2
  <2> DEFINE st == f[i-1]
             e == v[i]
  <2>2. /\ st \in LoopState /\ e \in [op : {LOCK, UNLOCK}, sem : UserSem]
        /\ f[i] = vpop(st, e) /\ \A d \in Dev : st.sem[d] = sem[d]
    BY <1>2, <1>4, <1>6, <2>1
  <2> HIDE DEF st, e
  <2>3. /\ st.sem \in Values /\ e.sem \in UserSem
        /\ \/ vpop(st, e).sem = [st.sem EXCEPT ![e.sem] = @ - 1]
           \/ vpop(st, e).sem = [st.sem EXCEPT ![e.sem] = @ + 1]
    BY <2>2, vpopParts DEF LoopState
  <2>4. \A d \in Dev : vpop(st, e).sem[d] = sem[d]
    BY <2>2, <2>3, SemAssumption DEF Values, Sem
  <2> QED
    BY <2>1, <2>2, <2>4
<1>7. n \in T
  <2> HIDE DEF T, n
  <2> QED
    BY <1>2, <1>5, <1>6, IntervalInduction
<1>8. sem' = Exec(v, Start).sem
  BY DEF Sem_OP, Start
<1> QED
  BY <1>3, <1>7, <1>8

LEMMA waitforioOwn ==
    ASSUME IInv, OwnInv, NEW d \in Dev, waitforio(d)
    PROVE  OwnInv'
<1>1. /\ Running /\ want[cur] = d /\ cur \in Proc /\ d \in Sem /\ d # NIL
      /\ sem \in [Sem -> Int] /\ want \in [Proc -> Dev \cup {NIL}]
  BY curType, ProcAssumption DEF waitforio, IInv, TypeOK, Sem
<1>2. sem' = [sem EXCEPT ![d] = @ - 1] /\ io' = io /\ save_arr' = save_arr
  BY DEF waitforio, intsemop
<1>3. Serves(d, cur)
  BY <1>1 DEF OwnInv
<1>4. CASE sem[d] = 1
  <2>1. want' = [want EXCEPT ![cur] = NIL] /\ sem'[d] = 0 /\ io'[d] = NIL
    BY <1>1, <1>2, <1>3, <1>4 DEF waitforio, Serves
  <2>2. \A p \in Proc : want'[p] # d
    BY <1>1, <2>1 DEF IInv, DevInv
  <2>3. ASSUME NEW e \in Dev, e # d
        PROVE  /\ (\A p \in Proc : want'[p] # e) => sem'[e] = 0 /\ io'[e] = NIL
               /\ \A p \in Proc : want'[p] = e => Serves(e, p)'
    <3>1. e \in Sem /\ e # NIL
      BY ProcAssumption DEF Sem
    <3>2. sem'[e] = sem[e] /\ io'[e] = io[e] /\ save_arr'[e] = save_arr[e]
      BY <1>1, <1>2, <2>3, <3>1
    <3>3. \A p \in Proc : want'[p] = e <=> want[p] = e
      BY <1>1, <2>1, <2>3, <3>1
    <3> QED
      BY <3>2, <3>3 DEF OwnInv, Serves
  <2> QED
    BY <2>1, <2>2, <2>3 DEF OwnInv
<1>5. CASE sem[d] # 1
  <2>1. sem[d] <= 0 /\ io[d] = cur /\ sem[d] \in Int
    BY <1>1, <1>3, <1>5 DEF Serves
  <2>2. want' = want
    BY <2>1 DEF waitforio
  <2>3. sem'[d] <= 0
    BY <1>1, <1>2, <2>1
  <2>4. \A e \in Dev \ {d} : sem'[e] = sem[e]
    BY <1>1, <1>2 DEF Sem
  <2>5. \A p \in Proc : want[p] = d => p = cur
    BY <1>1 DEF IInv, DevInv
  <2> QED
    BY <1>1, <1>2, <2>1, <2>2, <2>3, <2>4, <2>5 DEF OwnInv, Serves
<1> QED
  BY <1>4, <1>5

LEMMA inthandlerOwn ==
    ASSUME IInv, OwnInv, NEW d \in Dev, inthandler(d)
    PROVE  OwnInv'
<1>1. /\ d \in Sem /\ d # NIL /\ io \in [Dev -> Link] /\ save_arr \in [Dev -> Link]
      /\ sem \in [Sem -> Int] /\ want \in [Proc -> Dev \cup {NIL}] /\ blk[d] \in Seq(Proc)
  BY ProcAssumption DEF IInv, TypeOK, Sem
<1>2. /\ io[d] # NIL /\ io' = [io EXCEPT ![d] = NIL] /\ sem' = [sem EXCEPT ![d] = @ + 1]
  BY DEF inthandler
<1>3. PICK p \in Proc : want[p] = d
  BY <1>2 DEF OwnInv
<1>4. io[d] = p /\ sem[d] <= 0
  BY <1>2, <1>3 DEF OwnInv, Serves
<1>5. sem[d] \in Int /\ sem[d] >= -1
  BY OneWaiter DEF IInv
<1>6. \A q \in Proc : want[q] = d => q = p
  BY <1>1, <1>3 DEF IInv, DevInv
<1>7. \A e \in Dev \ {d} : sem'[e] = sem[e] /\ io'[e] = io[e] /\ e # NIL
  BY <1>1, <1>2, ProcAssumption DEF Sem
<1>8. CASE sem[d] = -1
  <2>1. want' = [want EXCEPT ![Head(blk[d])] = NIL] /\ save_arr' = save_arr
    BY <1>8 DEF inthandler
  <2>2. Head(blk[d]) \in ToSet(blk[d]) /\ Head(blk[d]) \in Proc
    <3>1. Len(blk[d]) = IF sem[d] < 0 THEN -sem[d] ELSE 0
      BY <1>1 DEF IInv, AllGood, Good
    <3>2. sem[d] < 0
      BY <1>8
    <3>3. blk[d] # <<>>
      BY <1>5, <3>1, <3>2
    <3> QED
      BY <1>1, <3>3, TailFacts
  <2>3. Head(blk[d]) = p
    BY <1>6, <2>2 DEF IInv, DevInv
  <2>4. want' = [want EXCEPT ![p] = NIL]
    BY <2>1, <2>3
  <2>5. sem'[d] = 0 /\ io'[d] = NIL /\ \A q \in Proc : want'[q] # d
    BY <1>1, <1>2, <1>3, <1>6, <1>8, <2>4
  <2>6. \A e \in Dev \ {d} : \A q \in Proc : want'[q] = e <=> want[q] = e
    BY <1>1, <1>3, <1>7, <2>4
  <2> QED
    BY <1>7, <2>1, <2>5, <2>6 DEF OwnInv, Serves
<1>9. CASE sem[d] # -1
  <2>1. sem[d] = 0
    BY <1>4, <1>5, <1>9
  <2>2. want' = want /\ save_arr' = [save_arr EXCEPT ![d] = io[d]]
    BY <1>9 DEF inthandler
  <2>3. sem'[d] = 1 /\ io'[d] = NIL /\ save_arr'[d] = p
    BY <1>1, <1>2, <1>4, <2>1, <2>2
  <2>4. \A e \in Dev \ {d} : save_arr'[e] = save_arr[e]
    BY <1>1, <2>2
  <2> QED
    BY <1>3, <1>6, <1>7, <2>2, <2>3, <2>4 DEF OwnInv, Serves
<1> QED
  BY <1>8, <1>9

LEMMA StartIOOwn ==
    ASSUME IInv, OwnInv, NEW d \in Dev, StartIO(d)
    PROVE  OwnInv'
<1>1. /\ Running /\ cur \in Proc /\ want \in [Proc -> Dev \cup {NIL}]
      /\ io \in [Dev -> Link] /\ want[cur] = NIL /\ d # NIL
      /\ \A p \in Proc : want[p] # d
  BY curType, ProcAssumption DEF StartIO, IInv, TypeOK
<1>2. /\ io' = [io EXCEPT ![d] = cur] /\ want' = [want EXCEPT ![cur] = d]
      /\ sem' = sem /\ save_arr' = save_arr
  BY DEF StartIO
<1>3. sem[d] = 0
  BY <1>1 DEF OwnInv
<1>4. io'[d] = cur /\ \A p \in Proc : want'[p] = d <=> p = cur
  BY <1>1, <1>2
<1>5. ASSUME NEW e \in Dev \ {d}
      PROVE  io'[e] = io[e] /\ \A p \in Proc : want'[p] = e <=> want[p] = e
  BY <1>1, <1>2, ProcAssumption
<1> QED
  BY <1>1, <1>2, <1>3, <1>4, <1>5 DEF OwnInv, Serves

LEMMA OwnInvariance ==
    ASSUME ~OrphanIO, IInv, OwnInv, [Next]_vars
    PROVE  OwnInv'
<1>t. TypeOK /\ sem \in [Sem -> Int]
  BY DEF IInv, TypeOK
<1>0. ASSUME Running, Terminate_Process PROVE OwnInv'
  BY <1>0, <1>t, Termination, FreeOwn
<1>s. ASSUME UNCHANGED <<want, io, save_arr>>, \A d \in Dev : sem'[d] = sem[d]
      PROVE  OwnInv'
  BY <1>s DEF OwnInv, Serves
<1>1. CASE Create_Process
  BY <1>1, <1>s DEF Create_Process, devices
<1>2. CASE SYS2
  BY <1>0, <1>2 DEF SYS2
<1>3. ASSUME NEW v \in Vectors, Sem_OP(v) PROVE OwnInv'
  <2>1. UNCHANGED <<want, io, save_arr>>
    BY <1>3 DEF Sem_OP, devices
  <2> QED
    BY <1>3, <1>s, <1>t, <2>1, Sem_OPOwn
<1>4. CASE notused
  BY <1>4, <1>s DEF notused, devices
<1>5. ASSUME NEW t \in TrapTypes, Specify_Trap_State_Vector(t) PROVE OwnInv'
  BY <1>0, <1>5, <1>s DEF Specify_Trap_State_Vector, devices
<1>6. ASSUME NEW t \in TrapTypes, pass_up(t) PROVE OwnInv'
  BY <1>0, <1>6 DEF pass_up
<1>7. CASE waitforpclock
  <2>1. sem' = [sem EXCEPT ![Clock] = @ - 1] /\ UNCHANGED <<want, io, save_arr>>
    BY <1>7 DEF waitforpclock, intsemop, devices
  <2>2. \A d \in Dev : sem'[d] = sem[d]
    BY <1>t, <2>1, SemAssumption DEF Sem
  <2> QED
    BY <1>s, <2>1, <2>2
<1>8. ASSUME NEW d \in Dev, StartIO(d) \/ waitforio(d) \/ inthandler(d) PROVE OwnInv'
  BY <1>8, StartIOOwn, waitforioOwn, inthandlerOwn
<1>9. CASE intclockhandler
  <2>1. /\ sem' = [sem EXCEPT ![Clock] = @ + 1] \/ sem' = sem
        /\ UNCHANGED <<want, io, save_arr>>
    BY <1>9 DEF intclockhandler, devices
  <2>2. \A d \in Dev : sem'[d] = sem[d]
    BY <1>t, <2>1, SemAssumption DEF Sem
  <2> QED
    BY <1>s, <2>1, <2>2
<1>10. CASE Tick
  BY <1>10, <1>s DEF Tick, devices
<1>11. CASE UNCHANGED vars
  BY <1>11, <1>s DEF vars
<1> QED
  BY <1>1, <1>2, <1>3, <1>4, <1>5, <1>6, <1>7, <1>8, <1>9, <1>10, <1>11
     DEF Next, Halted

LEMMA OwnInductive ==
    ASSUME Fits, ~OrphanIO
    PROVE  Spec => [](IInv /\ OwnInv)
<1>1. Init => OwnInv
  BY ProcAssumption DEF Init, intinit, OwnInv
<1>2. IInv /\ OwnInv /\ [Next]_vars => OwnInv'
  BY OwnInvariance
<1>3. Spec => []IInv
  BY Inductive
<1> QED
  BY <1>1, <1>2, <1>3, PTL DEF Spec

\* A process in the queue of a device is there alone, and the device is at
\* work for it and for nobody else, provided no process is killed while a
\* device works for it (OrphanIO): so the completion that inthandler hands to
\* the head of the queue is that process's own.
THEOREM WaitersOwn ==
    ASSUME Fits, ~OrphanIO
    PROVE  Spec => []WaitsForOwn
<1>1. IInv /\ OwnInv => WaitsForOwn
  <2> SUFFICES ASSUME IInv, OwnInv, NEW d \in Dev, blk[d] # <<>>
               PROVE  blk[d] = <<io[d]>> /\ want[io[d]] = d
    BY DEF WaitsForOwn
  <2>1. /\ d \in Sem /\ d # NIL /\ blk[d] \in Seq(Proc) /\ sem[d] \in Int
        /\ Len(blk[d]) = IF sem[d] < 0 THEN -sem[d] ELSE 0
    BY ProcAssumption DEF Sem, IInv, TypeOK, AllGood, Good
  <2>2. sem[d] >= -1
    BY OneWaiter DEF IInv
  <2>3. Len(blk[d]) = 1 /\ sem[d] < 0
    BY <2>1, <2>2
  <2>4. Head(blk[d]) \in Proc /\ Head(blk[d]) \in ToSet(blk[d])
    BY <2>1, TailFacts
  <2>5. want[Head(blk[d])] = d
    BY <2>4 DEF IInv, DevInv
  <2>6. io[d] = Head(blk[d])
    BY <2>3, <2>4, <2>5 DEF OwnInv, Serves
  <2>7. blk[d] = <<Head(blk[d])>>
    BY <2>1, <2>3
  <2> QED
    BY <2>5, <2>6, <2>7
<1> QED
  BY <1>1, OwnInductive, PTL

\* When SYS8 returns at once, it returns the completion of the caller's own
\* operation, under the same condition: no stale value of a device semaphore
\* or of save_arr survives from an earlier operation.
THEOREM CompletionsOwn ==
    ASSUME Fits, ~OrphanIO
    PROVE  Spec => []CompletionIsOwn
<1>1. IInv /\ OwnInv => CompletionIsOwn
  <2> SUFFICES ASSUME IInv, OwnInv, NEW p \in Proc, NEW d \in Dev, want[p] = d, sem[d] > 0
               PROVE  io[d] = NIL /\ save_arr[d] = p
    BY DEF CompletionIsOwn
  <2>1. sem[d] \in Int
    BY DEF Sem, IInv, TypeOK
  <2> QED
    BY <2>1 DEF OwnInv, Serves
<1> QED
  BY <1>1, OwnInductive, PTL

\* The processor never runs a process without a running timer, and never
\* sleeps for good: while it has not halted there is a ready process, or a
\* waiter of the pseudo-clock and a timer that will fire, or a device at work
\* for the process at the head of its queue.
THEOREM SleepEnds ==
    ASSUME Fits, ~OrphanIO
    PROVE  Spec => []InterruptComing
<1>1. SleepInv /\ WaitsForOwn => InterruptComing
  <2> SUFFICES ASSUME SleepInv, WaitsForOwn, halt = "no" PROVE InterruptComing
    BY DEF InterruptComing
  <2>1. CASE rq # <<>>
    BY <2>1 DEF SleepInv, Scheduled, InterruptComing
  <2>2. CASE blk[Clock] # <<>>
    BY <2>2 DEF SleepInv, Scheduled, InterruptComing
  <2>3. CASE rq = <<>> /\ blk[Clock] = <<>>
    <3>1. PICK d \in Dev : blk[d] # <<>>
      BY <2>3 DEF SleepInv, Scheduled, NobodyOut
    <3>2. blk[d] = <<io[d]>>
      BY <3>1 DEF WaitsForOwn
    <3>3. io[d] = Head(blk[d])
      BY <3>2
    <3> QED
      BY <3>1, <3>3 DEF InterruptComing
  <2> QED
    BY <2>1, <2>2, <2>3
<1> QED
  BY <1>1, SleepInductive, WaitersOwn, PTL


----------------------------------------------------------------------------
(***************************************************************************)
(* The process tree.  The list that starts at h and goes on along br is    *)
(* the least set with h that is closed under br.                           *)
(***************************************************************************)
Chain(h, br) == {q \in Proc : \A S \in SUBSET Proc :
                    h \in S \cup {NIL} /\ (\A x \in S : br[x] \in S \cup {NIL}) => q \in S}

LEMMA ChainFacts ==
    ASSUME NEW h \in Link, NEW br \in [Proc -> Link]
    PROVE  /\ Chain(h, br) \in SUBSET Proc
           /\ h \in Chain(h, br) \cup {NIL}
           /\ \A x \in Chain(h, br) : br[x] \in Chain(h, br) \cup {NIL}
           /\ \A S \in SUBSET Proc :
                h \in S \cup {NIL} /\ (\A x \in S : br[x] \in S \cup {NIL})
                => Chain(h, br) \subseteq S
BY DEF Chain, Link

LEMMA EmptyChain ==
    ASSUME NEW br
    PROVE  Chain(NIL, br) = {}
<1> SUFFICES ASSUME NEW q \in Chain(NIL, br) PROVE FALSE
  OBVIOUS
<1> DEFINE S == {}
<1>1. S \in SUBSET Proc /\ NIL \in S \cup {NIL} /\ \A x \in S : br[x] \in S \cup {NIL}
  OBVIOUS
<1> HIDE DEF S
<1>2. q \in S
  BY <1>1, Zenon DEF Chain
<1> QED
  BY <1>2 DEF S

\* A list is the same when the links of its members are.
LEMMA SameChain ==
    ASSUME NEW h \in Link, NEW br \in [Proc -> Link], NEW br2 \in [Proc -> Link],
           \A q \in Chain(h, br) : br2[q] = br[q]
    PROVE  Chain(h, br2) = Chain(h, br)
<1> DEFINE C == Chain(h, br)
           D == Chain(h, br2)
<1>1. /\ C \in SUBSET Proc /\ h \in C \cup {NIL} /\ \A x \in C : br[x] \in C \cup {NIL}
      /\ \A S \in SUBSET Proc :
           h \in S \cup {NIL} /\ (\A x \in S : br[x] \in S \cup {NIL}) => C \subseteq S
  BY ChainFacts
<1>2. /\ D \in SUBSET Proc /\ h \in D \cup {NIL} /\ \A x \in D : br2[x] \in D \cup {NIL}
      /\ \A S \in SUBSET Proc :
           h \in S \cup {NIL} /\ (\A x \in S : br2[x] \in S \cup {NIL}) => D \subseteq S
  BY ChainFacts
<1>3. \A q \in C : br2[q] = br[q]
  OBVIOUS
<1> HIDE DEF C, D
<1>4. D \subseteq C
  BY <1>1, <1>2, <1>3
<1>5. C \subseteq C \cap D
  <2>1. C \cap D \in SUBSET Proc /\ h \in (C \cap D) \cup {NIL}
    BY <1>1, <1>2
  <2>2. \A x \in C \cap D : br[x] \in (C \cap D) \cup {NIL}
    BY <1>1, <1>2, <1>3
  <2> QED
    BY <1>1, <2>1, <2>2
<1> QED
  BY <1>4, <1>5 DEF C, D

\* Create_Process: p is added after the last member.
LEMMA LongerChain ==
    ASSUME NEW h \in Link, NEW br \in [Proc -> Link], NEW br2 \in [Proc -> Link],
           NEW p \in Proc, NEW h2 \in Link, h2 = (IF h = NIL THEN p ELSE h),
           \A q \in Chain(h, br) : br2[q] = IF br[q] = NIL THEN p ELSE br[q],
           br2[p] = NIL,
           h # NIL => \E q \in Chain(h, br) : br[q] = NIL
    PROVE  Chain(h2, br2) = Chain(h, br) \cup {p}
<1> DEFINE C == Chain(h, br)
           D == Chain(h2, br2)
<1>1. /\ C \in SUBSET Proc /\ h \in C \cup {NIL} /\ \A x \in C : br[x] \in C \cup {NIL}
      /\ \A S \in SUBSET Proc :
           h \in S \cup {NIL} /\ (\A x \in S : br[x] \in S \cup {NIL}) => C \subseteq S
  BY ChainFacts
<1>2. /\ D \in SUBSET Proc /\ h2 \in D \cup {NIL} /\ \A x \in D : br2[x] \in D \cup {NIL}
      /\ \A S \in SUBSET Proc :
           h2 \in S \cup {NIL} /\ (\A x \in S : br2[x] \in S \cup {NIL}) => D \subseteq S
  BY ChainFacts
<1>3. /\ \A q \in C : br2[q] = IF br[q] = NIL THEN p ELSE br[q]
      /\ h # NIL => \E q \in C : br[q] = NIL
  OBVIOUS
<1>4. p # NIL
  BY ProcAssumption
<1> HIDE DEF C, D
<1>5. D \subseteq C \cup {p}
  <2>1. C \cup {p} \in SUBSET Proc /\ h2 \in C \cup {p} \cup {NIL}
    BY <1>1
  <2>2. \A x \in C \cup {p} : br2[x] \in C \cup {p} \cup {NIL}
    BY <1>1, <1>3
  <2> QED
    BY <1>2, <2>1, <2>2
<1>6. C \subseteq C \cap D
  <2>1. C \cap D \in SUBSET Proc /\ h \in (C \cap D) \cup {NIL}
    BY <1>1, <1>2
  <2>2. \A x \in C \cap D : br[x] \in (C \cap D) \cup {NIL}
    BY <1>1, <1>2, <1>3
  <2> QED
    BY <1>1, <2>1, <2>2
<1>7. p \in D
  <2>1. CASE h = NIL
    BY <1>2, <1>4, <2>1
  <2>2. CASE h # NIL
    <3>1. PICK q \in C : br[q] = NIL
      BY <1>3, <2>2
    <3>2. q \in D /\ br2[q] = p
      BY <1>3, <1>6, <3>1
    <3> QED
      BY <1>2, <1>4, <3>2
  <2> QED
    BY <2>1, <2>2
<1> QED
  BY <1>5, <1>6, <1>7 DEF C, D

\* Unlink: c is left out.
LEMMA ShorterChain ==
    ASSUME NEW h \in Link, NEW br \in [Proc -> Link], NEW br2 \in [Proc -> Link],
           NEW c \in Proc, br[c] # c, NEW h2 \in Link, h2 = (IF h = c THEN br[c] ELSE h),
           \A q \in Chain(h, br) \ {c} : br2[q] = IF br[q] = c THEN br[c] ELSE br[q]
    PROVE  Chain(h2, br2) = Chain(h, br) \ {c}
<1> DEFINE C == Chain(h, br)
           D == Chain(h2, br2)
<1>1. /\ C \in SUBSET Proc /\ h \in C \cup {NIL} /\ \A x \in C : br[x] \in C \cup {NIL}
      /\ \A S \in SUBSET Proc :
           h \in S \cup {NIL} /\ (\A x \in S : br[x] \in S \cup {NIL}) => C \subseteq S
  BY ChainFacts
<1>2. /\ D \in SUBSET Proc /\ h2 \in D \cup {NIL} /\ \A x \in D : br2[x] \in D \cup {NIL}
      /\ \A S \in SUBSET Proc :
           h2 \in S \cup {NIL} /\ (\A x \in S : br2[x] \in S \cup {NIL}) => D \subseteq S
  BY ChainFacts
<1>3. \A q \in C \ {c} : br2[q] = IF br[q] = c THEN br[c] ELSE br[q]
  OBVIOUS
<1>4. c # NIL
  BY ProcAssumption
<1> HIDE DEF C, D
<1>5. D \subseteq C \ {c}
  <2>1. C \ {c} \in SUBSET Proc /\ h2 \in (C \ {c}) \cup {NIL}
    BY <1>1, <1>4
  <2>2. \A x \in C \ {c} : br2[x] \in (C \ {c}) \cup {NIL}
    BY <1>1, <1>3, <1>4
  <2> QED
    BY <1>2, <2>1, <2>2
\* D, with c if the members of D or the head lead to c
<1> DEFINE E == D \cup {y \in C : y = c /\ (h = c \/ \E x \in D : br[x] = c)}
<1>6. C \subseteq E
  <2>1. E \in SUBSET Proc
    BY <1>1, <1>2
  <2>2. h \in E \cup {NIL}
    BY <1>1, <1>2
  <2>3. ASSUME NEW x \in D PROVE br[x] \in E \cup {NIL}
    <3>1. x \in C \ {c}
      BY <1>5
    <3>2. CASE br[x] = c
      BY <1>1, <1>4, <3>1, <3>2
    <3>3. CASE br[x] # c
      BY <1>2, <1>3, <3>1, <3>3
    <3> QED
      BY <3>2, <3>3
  <2>4. ASSUME c \in E PROVE br[c] \in E \cup {NIL}
    <3>1. c \in C /\ (h = c \/ \E x \in D : br[x] = c)
      BY <1>5, <2>4
    <3>2. CASE h = c
      BY <1>2, <3>2
    <3>3. CASE \E x \in D : br[x] = c
      <4>1. PICK x \in D : br[x] = c
        BY <3>3
      <4>2. br2[x] = br[c]
        BY <1>3, <1>5, <4>1
      <4> QED
        BY <1>2, <4>2
    <3> QED
      BY <3>1, <3>2, <3>3
  <2>5. \A x \in E : br[x] \in E \cup {NIL}
    BY <2>3, <2>4
  <2> HIDE DEF E
  <2> QED
    BY <1>1, <2>1, <2>2, <2>5
<1>7. C \ {c} \subseteq D
  BY <1>6
<1> QED
  BY <1>5, <1>7 DEF C, D

----------------------------------------------------------------------------
(***************************************************************************)
(* The invariant.  A process without creator has no brother; every process *)
(* is pointed to once, by a brother or as a first child; a list of         *)
(* children has one last member, where Create_Process adds the next.       *)
(***************************************************************************)
Lists == /\ \A q \in Proc : creator[q] = NIL => brother[q] = NIL
         /\ \A q, r \in Proc : brother[q] = brother[r] /\ brother[q] # NIL => q = r
         /\ \A p, q \in Proc : brother[q] = child[p] => child[p] = NIL
         /\ \A q, r \in Proc : /\ creator[q] = creator[r] /\ creator[q] # NIL
                               /\ brother[q] = NIL /\ brother[r] = NIL
                               => q = r
         /\ \A p \in Proc : child[p] # NIL =>
                               \E q \in Proc : creator[q] = p /\ brother[q] = NIL

TreeInv == TreeOK /\ Lists

LinkTypes == /\ child \in [Proc -> Link] /\ brother \in [Proc -> Link]
             /\ parent \in [Proc -> Link] /\ creator \in [Proc -> Link]

LEMMA ChildrenChain ==
    ASSUME NEW p \in Proc
    PROVE  Children(p) = Chain(child[p], brother)
BY DEF Children, Chain

\* The list of p's children.
LEMMA ListFacts ==
    ASSUME LinkTypes, TreeInv, NEW p \in Proc
    PROVE  LET C == {q \in Proc : creator[q] = p}
           IN  /\ Chain(child[p], brother) = C
               /\ child[p] \in C \cup {NIL}
               /\ \A x \in C : brother[x] \in C \cup {NIL}
               /\ \A S \in SUBSET Proc :
                    child[p] \in S \cup {NIL} /\ (\A x \in S : brother[x] \in S \cup {NIL})
                    => C \subseteq S
<1> DEFINE C == {q \in Proc : creator[q] = p}
<1>1. Chain(child[p], brother) = C
  BY ChildrenChain DEF TreeInv, TreeOK
<1>2. child[p] \in Link /\ brother \in [Proc -> Link]
  BY DEF LinkTypes
<1> QED
  BY <1>1, <1>2, ChainFacts

LEMMA Siblings ==
    ASSUME LinkTypes, TreeInv
    PROVE  /\ \A p \in Proc : child[p] # NIL => child[p] \in Proc /\ creator[child[p]] = p
           /\ \A q \in Proc : brother[q] # NIL =>
                 /\ brother[q] \in Proc /\ brother[q] # q
                 /\ creator[q] # NIL /\ creator[brother[q]] = creator[q]
           /\ \A q \in Proc : creator[q] # NIL =>
                 \/ q = child[creator[q]]
                 \/ \E x \in Proc : creator[x] = creator[q] /\ brother[x] = q
           /\ \A q \in Proc : creator[q] # NIL => child[creator[q]] # NIL
<1>1. ASSUME NEW p \in Proc, child[p] # NIL
      PROVE  child[p] \in Proc /\ creator[child[p]] = p
  BY <1>1, ListFacts
<1>2. ASSUME NEW q \in Proc, brother[q] # NIL
      PROVE  /\ brother[q] \in Proc /\ brother[q] # q
             /\ creator[q] # NIL /\ creator[brother[q]] = creator[q]
  <2>1. creator[q] # NIL /\ creator[q] \in Proc
    BY <1>2 DEF TreeInv, Lists, LinkTypes, Link
  <2> DEFINE c == creator[q]
             C == {x \in Proc : creator[x] = c}
  <2>2. /\ child[c] \in C \cup {NIL} /\ \A x \in C : brother[x] \in C \cup {NIL}
        /\ \A S \in SUBSET Proc :
             child[c] \in S \cup {NIL} /\ (\A x \in S : brother[x] \in S \cup {NIL})
             => C \subseteq S
    BY <2>1, ListFacts
  <2>3. q \in C
    OBVIOUS
  <2>4. brother[q] \in C
    BY <1>2, <2>2, <2>3
  <2>5. ASSUME brother[q] = q PROVE FALSE
    <3>1. \A x \in Proc : brother[x] = q => x = q
      BY <1>2, <2>5 DEF TreeInv, Lists
    <3>2. child[c] # q
      BY <1>2, <2>1, <2>5 DEF TreeInv, Lists
    <3>3. C \ {q} \in SUBSET Proc
      OBVIOUS
    <3> HIDE DEF C, c
    <3>4. child[c] \in (C \ {q}) \cup {NIL} /\ \A x \in C \ {q} : brother[x] \in (C \ {q}) \cup {NIL}
      BY <2>2, <3>1, <3>2, <3>3
    <3>5. C \subseteq C \ {q}
      BY <2>2, <3>3, <3>4
    <3> QED
      BY <2>3, <3>5
  <2> QED
    BY <2>1, <2>4, <2>5
<1>3. ASSUME NEW q \in Proc, creator[q] # NIL
      PROVE  /\ \/ q = child[creator[q]]
                \/ \E x \in Proc : creator[x] = creator[q] /\ brother[x] = q
             /\ child[creator[q]] # NIL
  <2>1. creator[q] \in Proc
    BY <1>3 DEF LinkTypes, Link
  <2> DEFINE c == creator[q]
             C == {x \in Proc : creator[x] = c}
             S == {x \in C : x = child[c] \/ \E y \in C : brother[y] = x}
  <2>2. /\ child[c] \in C \cup {NIL} /\ \A x \in C : brother[x] \in C \cup {NIL}
        /\ \A T \in SUBSET Proc :
             child[c] \in T \cup {NIL} /\ (\A x \in T : brother[x] \in T \cup {NIL})
             => C \subseteq T
    BY <2>1, ListFacts
  <2>3. q \in C /\ C \in SUBSET Proc /\ S \in SUBSET Proc
    OBVIOUS
  <2>4. \A x \in C : creator[x] = c
    OBVIOUS
  <2> HIDE DEF C, c
  <2>5. child[c] \in S \cup {NIL} /\ \A x \in S : brother[x] \in S \cup {NIL}
    BY <2>2
  <2>6. q \in S
    BY <2>2, <2>3, <2>5
  <2>7. child[c] # NIL
    <3>1. ASSUME child[c] = NIL PROVE FALSE
      <4>0. {} \in SUBSET Proc /\ child[c] \in {} \cup {NIL}
            /\ \A x \in {} : brother[x] \in {} \cup {NIL}
        BY <3>1
      <4>1. C \subseteq {}
        BY <2>2, <4>0
      <4> QED
        BY <2>3, <4>1
    <3> QED
      BY <3>1
  <2> QED
    BY <2>3, <2>4, <2>6, <2>7 DEF c
<1> QED
  BY <1>1, <1>2, <1>3

----------------------------------------------------------------------------
LEMMA CreateTree ==
    ASSUME LinkTypes, LinkTypes', TreeInv, cur \in Proc, cur \notin free, Create_Process,
           free \in SUBSET Proc
    PROVE  TreeInv'
<1> DEFINE c == cur
<1>0. PICK p \in free :
         /\ free' = free \ {p}
         /\ child' = IF child[cur] = NIL THEN [child EXCEPT ![cur] = p] ELSE child
         /\ brother' = [q \in Proc |-> IF parent[q] = cur THEN p ELSE brother[q]]
         /\ parent' = [q \in Proc |-> IF q = p THEN cur
                                      ELSE IF parent[q] = cur THEN NIL ELSE parent[q]]
         /\ creator' = [creator EXCEPT ![p] = cur]
  BY DEF Create_Process
<1>1. c \in Proc /\ c \notin free /\ p \in Proc /\ p # c /\ p # NIL /\ c # NIL
  BY ProcAssumption
<1>2. /\ \A q \in Proc : child'[q] = IF q = c /\ child[c] = NIL THEN p ELSE child[q]
      /\ \A q \in Proc : brother'[q] = IF parent[q] = c THEN p ELSE brother[q]
      /\ \A q \in Proc : parent'[q] = IF q = p THEN c
                                      ELSE IF parent[q] = c THEN NIL ELSE parent[q]
      /\ \A q \in Proc : creator'[q] = IF q = p THEN c ELSE creator[q]
      /\ free' = free \ {p}
  BY <1>0 DEF LinkTypes
<1> HIDE DEF c
<1>3. /\ \A q \in Proc : parent[q] = IF brother[q] = NIL THEN creator[q] ELSE NIL
      /\ \A q \in Proc : creator[q] # NIL => q \notin free /\ creator[q] \notin free
      /\ \A q \in free : child[q] = NIL /\ brother[q] = NIL
  BY DEF TreeInv, TreeOK
<1>4. creator[p] = NIL /\ brother[p] = NIL /\ child[p] = NIL /\ parent[p] = NIL
  BY <1>1, <1>3
<1>5. \A q \in Proc : parent[q] = c <=> brother[q] = NIL /\ creator[q] = c
  BY <1>1, <1>3
<1>6. ASSUME NEW q \in Proc
      PROVE  brother[q] # p /\ child[q] # p /\ creator[q] # p
  <2>1. brother[q] # p
    BY <1>1, <1>4, Siblings
  <2>2. child[q] # p
    BY <1>1, <1>4, Siblings, ProcAssumption
  <2>3. creator[q] # p
    BY <1>1, <1>3
  <2> QED
    BY <2>1, <2>2, <2>3
<1>7. brother'[p] = NIL /\ child'[p] = NIL /\ parent'[p] = c /\ creator'[p] = c
  BY <1>1, <1>2, <1>4
<1>8. ASSUME NEW x \in Proc
      PROVE  Chain(child'[x], brother') = {q \in Proc : creator'[q] = x}
  <2> DEFINE C == {q \in Proc : creator[q] = x}
  <2>1. /\ Chain(child[x], brother) = C /\ child[x] \in Link /\ child'[x] \in Link
        /\ brother \in [Proc -> Link] /\ brother' \in [Proc -> Link]
    BY ListFacts DEF LinkTypes
  <2>2. CASE x # c
    <3>1. {q \in Proc : creator'[q] = x} = C
      BY <1>1, <1>2, <1>4, <2>2, ProcAssumption
    <3>2. \A q \in C : brother'[q] = brother[q]
      BY <1>2, <1>5, <2>2
    <3>3. child'[x] = child[x]
      BY <1>2, <2>2
    <3> HIDE DEF C
    <3> QED
      BY <2>1, <3>1, <3>2, <3>3, SameChain
  <2>3. CASE x = c
    <3>1. {q \in Proc : creator'[q] = x} = C \cup {p}
      BY <1>1, <1>2, <2>3
    <3>2. \A q \in C : brother'[q] = IF brother[q] = NIL THEN p ELSE brother[q]
      BY <1>2, <1>5, <2>3
    <3>3. child'[x] = IF child[x] = NIL THEN p ELSE child[x]
      BY <1>2, <2>3
    <3>4. child[x] # NIL => \E q \in C : brother[q] = NIL
      BY DEF TreeInv, Lists
    <3> HIDE DEF C
    <3>5. Chain(child'[x], brother') = Chain(child[x], brother) \cup {p}
      <4>1. p \in Proc /\ brother'[p] = NIL
        BY <1>1, <1>7
      <4>2. /\ \A q \in Chain(child[x], brother) :
                 brother'[q] = IF brother[q] = NIL THEN p ELSE brother[q]
            /\ child[x] # NIL => \E q \in Chain(child[x], brother) : brother[q] = NIL
        BY <2>1, <3>2, <3>4
      <4> QED
        BY ONLY <2>1, <3>3, <4>1, <4>2, LongerChain, SMTT(30)
    <3> QED
      BY <2>1, <3>1, <3>5
  <2> QED
    BY <2>2, <2>3
<1>9. TreeOK'
  <2>1. \A x \in Proc : Children(x)' = {q \in Proc : creator'[q] = x}
    <3>1. \A x \in Proc : Children(x)' = Chain(child'[x], brother')
      BY DEF Children, Chain
    <3> QED
      BY <1>8, <3>1
  <2>2. \A q \in Proc : parent'[q] = IF brother'[q] = NIL THEN creator'[q] ELSE NIL
    BY <1>1, <1>2, <1>3, <1>5, <1>7
  <2>3. \A q \in Proc : creator'[q] # NIL => {q, creator'[q]} \cap free' = {}
    BY <1>1, <1>2, <1>3
  <2>4. \A q \in free' : child'[q] = NIL /\ brother'[q] = NIL
    <3> SUFFICES ASSUME NEW q \in free' PROVE child'[q] = NIL /\ brother'[q] = NIL
      OBVIOUS
    <3>1. q \in free /\ q # p /\ q # c /\ q \in Proc
      BY <1>1, <1>2
    <3>2. child[q] = NIL /\ brother[q] = NIL /\ creator[q] = NIL
      BY <1>3, <3>1
    <3> QED
      BY <1>1, <1>2, <1>5, <3>1, <3>2
  <2> QED
    BY <2>1, <2>2, <2>3, <2>4 DEF TreeOK
<1>10. Lists'
  <2>1. \A q \in Proc : creator'[q] = NIL => brother'[q] = NIL
    BY <1>1, <1>2, <1>5 DEF TreeInv, Lists
  <2>2. ASSUME NEW q \in Proc, NEW r \in Proc, brother'[q] = brother'[r], brother'[q] # NIL
        PROVE  q = r
    <3>1. CASE parent[q] = c
      <4>1. parent[r] = c
        BY <1>2, <1>6, <2>2, <3>1
      <4> QED
        BY <1>1, <1>5, <3>1, <4>1 DEF TreeInv, Lists
    <3>2. CASE parent[q] # c
      <4>1. parent[r] # c
        BY <1>2, <1>6, <2>2, <3>2
      <4> QED
        BY <1>2, <2>2, <3>2, <4>1 DEF TreeInv, Lists
    <3> QED
      BY <3>1, <3>2
  <2>3. ASSUME NEW x \in Proc, NEW q \in Proc, brother'[q] = child'[x]
        PROVE  child'[x] = NIL
    <3>1. CASE x = c /\ child[c] = NIL
      <4>1. child'[x] = p
        BY <1>2, <3>1
      <4>2. parent[q] = c
        BY <1>2, <1>6, <2>3, <4>1
      <4>3. creator[q] = c
        BY <1>5, <4>2
      <4> QED
        BY <1>1, <3>1, <4>3, Siblings
    <3>2. CASE ~(x = c /\ child[c] = NIL)
      <4>1. child'[x] = child[x]
        BY <1>2, <3>2
      <4>2. brother'[q] = brother[q]
        BY <1>2, <1>6, <2>3, <4>1
      <4> QED
        BY <2>3, <4>1, <4>2 DEF TreeInv, Lists
    <3> QED
      BY <3>1, <3>2
  <2>4. ASSUME NEW q \in Proc, NEW r \in Proc,
               creator'[q] = creator'[r], creator'[q] # NIL, brother'[q] = NIL, brother'[r] = NIL
        PROVE  q = r
    <3>1. parent[q] # c /\ parent[r] # c /\ brother[q] = NIL /\ brother[r] = NIL
      BY <1>1, <1>2, <2>4
    <3>2. creator[q] # c /\ creator[r] # c
      BY <1>5, <3>1
    <3>3. CASE q = p
      BY <1>2, <2>4, <3>2, <3>3
    <3>4. CASE q # p
      BY <1>2, <2>4, <3>1, <3>2, <3>4 DEF TreeInv, Lists
    <3> QED
      BY <3>3, <3>4
  <2>5. ASSUME NEW x \in Proc, child'[x] # NIL
        PROVE  \E q \in Proc : creator'[q] = x /\ brother'[q] = NIL
    <3>1. CASE x = c
      BY <1>1, <1>7, <3>1
    <3>2. CASE x # c
      <4>1. PICK q \in Proc : creator[q] = x /\ brother[q] = NIL
        BY <1>2, <2>5, <3>2 DEF TreeInv, Lists
      <4>2. q # p /\ parent[q] # c
        BY <1>4, <1>5, <3>2, <4>1, ProcAssumption
      <4> QED
        BY <1>2, <4>1, <4>2
    <3> QED
      BY <3>1, <3>2
  <2> QED
    BY <2>1, <2>2, <2>3, <2>4, <2>5 DEF Lists
<1> QED
  BY <1>9, <1>10 DEF TreeInv

----------------------------------------------------------------------------
(***************************************************************************)
(* Terminate_Process.  The set it frees is closed in both directions: it   *)
(* holds everybody created by a member, and of everybody but the running   *)
(* process the creator.                                                    *)
(***************************************************************************)
LEMMA ProgenyFacts ==
    ASSUME LinkTypes, NEW p \in Proc
    PROVE  /\ Progeny(p) \in SUBSET Proc
           /\ child[p] \in Progeny(p) \cup {NIL}
           /\ \A x \in Progeny(p) : /\ child[x] \in Progeny(p) \cup {NIL}
                                    /\ brother[x] \in Progeny(p) \cup {NIL}
           /\ \A S \in SUBSET Proc :
                /\ child[p] \in S \cup {NIL}
                /\ \A x \in S : child[x] \in S \cup {NIL} /\ brother[x] \in S \cup {NIL}
                => Progeny(p) \subseteq S
<1>1. Progeny(p) = {q \in Proc : \A S \in SUBSET Proc :
                       /\ child[p] \in S \cup {NIL}
                       /\ \A x \in S : child[x] \in S \cup {NIL} /\ brother[x] \in S \cup {NIL}
                       => q \in S}
  <2>1. \A S, x : {child[x], brother[x]} \subseteq S \cup {NIL}
                  <=> child[x] \in S \cup {NIL} /\ brother[x] \in S \cup {NIL}
    OBVIOUS
  <2> QED
    BY <2>1, Zenon DEF Progeny
<1>2. \A x \in Proc : child[x] \in Proc \cup {NIL} /\ brother[x] \in Proc \cup {NIL}
  BY DEF LinkTypes, Link
<1> QED
  BY <1>1, <1>2

LEMMA Family ==
    ASSUME LinkTypes, TreeInv, NEW c \in Proc, NEW K, K = Progeny(c) \cup {c}
    PROVE  /\ \A q \in Proc : creator[q] \in K => q \in K
           /\ \A q \in K : q = c \/ creator[q] \in K
<1> DEFINE G == Progeny(c)
<1>1. /\ G \in SUBSET Proc /\ child[c] \in G \cup {NIL}
      /\ \A x \in G : child[x] \in G \cup {NIL} /\ brother[x] \in G \cup {NIL}
      /\ \A S \in SUBSET Proc :
           /\ child[c] \in S \cup {NIL}
           /\ \A x \in S : child[x] \in S \cup {NIL} /\ brother[x] \in S \cup {NIL}
           => G \subseteq S
  BY ProgenyFacts
<1>2. K = G \cup {c} /\ K \subseteq Proc
  BY <1>1
<1> HIDE DEF G
<1>3. ASSUME NEW q \in Proc, creator[q] \in K
      PROVE  q \in K
  <2>1. creator[q] \in Proc /\ child[creator[q]] \in G \cup {NIL}
    BY <1>1, <1>2, <1>3
  <2>2. {x \in Proc : creator[x] = creator[q]} \subseteq G
    <3>1. \A x \in G : brother[x] \in G \cup {NIL}
      BY <1>1
    <3> QED
      BY <1>1, <2>1, <3>1, ListFacts
  <2> QED
    BY <1>2, <2>2
<1>4. ASSUME NEW q \in K, q # c
      PROVE  creator[q] \in K
  <2> DEFINE S == {x \in G : creator[x] \in K}
  <2>1. S \in SUBSET Proc /\ q \in G
    BY <1>1, <1>2, <1>4
  <2>2. child[c] \in S \cup {NIL}
    BY <1>1, <1>2, Siblings
  <2>3. ASSUME NEW x \in S
        PROVE  child[x] \in S \cup {NIL} /\ brother[x] \in S \cup {NIL}
    <3>1. x \in Proc /\ x \in G /\ x \in K /\ creator[x] \in K
      BY <1>1, <1>2
    <3>2. child[x] # NIL => child[x] \in G /\ creator[child[x]] = x
      BY <1>1, <3>1, Siblings
    <3>3. brother[x] # NIL => brother[x] \in G /\ creator[brother[x]] = creator[x]
      BY <1>1, <3>1, Siblings
    <3> QED
      BY <3>1, <3>2, <3>3
  <2> HIDE DEF S
  <2>4. G \subseteq S
    BY <1>1, <2>1, <2>2, <2>3
  <2> QED
    BY <2>1, <2>4 DEF S
<1> QED
  BY <1>3, <1>4

LEMMA FreeTree ==
    ASSUME LinkTypes, LinkTypes', TreeInv, cur \in Proc, NEW K, K = Progeny(cur) \cup {cur},
           Free(K), free \in SUBSET Proc
    PROVE  TreeInv'
<1> DEFINE c == cur
<1>1. c \in Proc /\ c # NIL /\ c \in K /\ K \subseteq Proc
  BY ProcAssumption, ProgenyFacts
<1>2. /\ \A q \in Proc : child'[q] = IF q \in K THEN NIL
                                     ELSE IF child[q] = c THEN brother[c] ELSE child[q]
      /\ \A q \in Proc : brother'[q] = IF q \in K THEN NIL
                                       ELSE IF q = c THEN NIL
                                       ELSE IF brother[q] = c THEN brother[c] ELSE brother[q]
      /\ \A q \in Proc : parent'[q] = IF q \in K THEN NIL
                                      ELSE IF brother[c] # NIL THEN parent[q]
                                      ELSE IF q = c THEN NIL
                                      ELSE IF brother[q] = c THEN parent[c] ELSE parent[q]
      /\ \A q \in Proc : creator'[q] = IF q \in K THEN NIL ELSE creator[q]
      /\ free' = free \cup K
  <2>1. /\ child' = [q \in Proc |-> IF q \in K THEN NIL ELSE Unlink.child[q]]
        /\ brother' = [q \in Proc |-> IF q \in K THEN NIL ELSE Unlink.brother[q]]
        /\ parent' = [q \in Proc |-> IF q \in K THEN NIL ELSE Unlink.parent[q]]
        /\ creator' = [q \in Proc |-> IF q \in K THEN NIL ELSE creator[q]]
        /\ free' = free \cup K
    BY DEF Free
  <2>2. /\ \A q \in Proc : Unlink.child[q] = IF child[q] = c THEN brother[c] ELSE child[q]
        /\ \A q \in Proc : Unlink.brother[q] = IF q = c THEN NIL
                                 ELSE IF brother[q] = c THEN brother[c] ELSE brother[q]
        /\ \A q \in Proc : Unlink.parent[q] = IF brother[c] # NIL THEN parent[q]
                                 ELSE IF q = c THEN NIL
                                 ELSE IF brother[q] = c THEN parent[c] ELSE parent[q]
    BY DEF Unlink
  <2> HIDE DEF c
  <2> QED
    BY <2>1, <2>2
<1>3. /\ \A q \in Proc : creator[q] \in K => q \in K
      /\ \A q \in K : q = c \/ creator[q] \in K
  BY Family
<1> HIDE DEF c
<1>4. /\ \A q \in Proc : parent[q] = IF brother[q] = NIL THEN creator[q] ELSE NIL
      /\ \A q \in Proc : creator[q] # NIL => q \notin free /\ creator[q] \notin free
      /\ \A q \in free : child[q] = NIL /\ brother[q] = NIL
  BY DEF TreeInv, TreeOK
<1>5. brother[c] # c
  BY <1>1, Siblings
<1>6. NIL \notin K
  BY <1>1, ProcAssumption
\* the links of those who stay, as Unlink leaves them
<1>7. ASSUME NEW q \in Proc \ K
      PROVE  /\ child'[q] = IF child[q] = c THEN brother[c] ELSE child[q]
             /\ brother'[q] = IF brother[q] = c THEN brother[c] ELSE brother[q]
             /\ creator'[q] = creator[q] /\ creator[q] \notin K
  BY <1>1, <1>2, <1>3
<1>8. ASSUME NEW x \in Proc
      PROVE  Chain(child'[x], brother') = {q \in Proc : creator'[q] = x}
  <2> DEFINE C == {q \in Proc : creator[q] = x}
  <2>1. /\ Chain(child[x], brother) = C /\ child[x] \in Link /\ child'[x] \in Link
        /\ brother \in [Proc -> Link] /\ brother' \in [Proc -> Link]
    BY ListFacts DEF LinkTypes
  <2>2. CASE x \in K
    <3>1. child'[x] = NIL
      BY <1>2, <2>2
    <3>2. \A q \in Proc : creator'[q] # x
      BY <1>2, <1>3, <1>6, <2>2
    <3>3. Chain(child'[x], brother') = {}
      BY <3>1, EmptyChain
    <3> QED
      BY <3>2, <3>3
  <2>3. CASE x \notin K
    <3>1. \A q \in C \ {c} : q \notin K
      BY <1>3, <2>3
    <3>2. {q \in Proc : creator'[q] = x} = C \ {c}
      BY <1>1, <1>2, <1>3, <2>3, <3>1, ProcAssumption
    <3>3. \A q \in C \ {c} : brother'[q] = IF brother[q] = c THEN brother[c] ELSE brother[q]
      BY <1>7, <3>1
    <3>4. child'[x] = IF child[x] = c THEN brother[c] ELSE child[x]
      BY <1>7, <2>3
    <3> HIDE DEF C
    <3>5. Chain(child'[x], brother') = Chain(child[x], brother) \ {c}
      <4>1. c \in Proc /\ brother[c] # c
        BY <1>1, <1>5
      <4>2. \A q \in Chain(child[x], brother) \ {c} :
              brother'[q] = IF brother[q] = c THEN brother[c] ELSE brother[q]
        BY <2>1, <3>3
      <4> QED
        BY ONLY <2>1, <3>4, <4>1, <4>2, ShorterChain, SMTT(30)
    <3> QED
      BY <2>1, <3>2, <3>5
  <2> QED
    BY <2>2, <2>3
<1>9. TreeOK'
  <2>1. \A x \in Proc : Children(x)' = {q \in Proc : creator'[q] = x}
    <3>1. \A x \in Proc : Children(x)' = Chain(child'[x], brother')
      BY DEF Children, Chain
    <3> QED
      BY <1>8, <3>1
  <2>2. ASSUME NEW q \in Proc
        PROVE  parent'[q] = IF brother'[q] = NIL THEN creator'[q] ELSE NIL
    <3>1. CASE q \in K
      BY <1>2, <3>1
    <3>2. CASE q \notin K /\ brother[q] = c
      <4>1. creator[c] = creator[q] /\ brother'[q] = brother[c] /\ creator'[q] = creator[q]
        BY <1>1, <1>7, <3>2, Siblings
      <4> QED
        BY <1>1, <1>2, <1>4, <3>2, <4>1
    <3>3. CASE q \notin K /\ brother[q] # c
      <4>1. parent'[q] = parent[q] /\ brother'[q] = brother[q] /\ creator'[q] = creator[q]
        BY <1>1, <1>2, <3>3
      <4> QED
        BY <1>4, <4>1
    <3> QED
      BY <3>1, <3>2, <3>3
  <2>3. \A q \in Proc : creator'[q] # NIL => {q, creator'[q]} \cap free' = {}
    BY <1>2, <1>4, <1>7
  <2>4. \A q \in free' : child'[q] = NIL /\ brother'[q] = NIL
    <3> SUFFICES ASSUME NEW q \in free' PROVE child'[q] = NIL /\ brother'[q] = NIL
      OBVIOUS
    <3>1. q \in Proc /\ (q \in K \/ q \in free)
      BY <1>1, <1>2
    <3>2. q \in free => child[q] = NIL /\ brother[q] = NIL
      BY <1>4
    <3> QED
      BY <1>1, <1>2, <3>1, <3>2
  <2> QED
    BY <2>1, <2>2, <2>3, <2>4 DEF TreeOK
<1>10. Lists'
  <2>1. \A q \in Proc : creator'[q] = NIL => brother'[q] = NIL
    <3> SUFFICES ASSUME NEW q \in Proc \ K, creator[q] = NIL PROVE brother'[q] = NIL
      BY <1>2
    <3>1. brother[q] = NIL
      BY DEF TreeInv, Lists
    <3> QED
      BY <1>1, <1>7, <3>1
  <2>2. ASSUME NEW q \in Proc, NEW r \in Proc, brother'[q] = brother'[r], brother'[q] # NIL
        PROVE  q = r
    <3>1. q \notin K /\ r \notin K /\ q # c /\ r # c
      BY <1>1, <1>2, <2>2
    <3>2. \A x, y \in Proc : brother[x] = brother[y] /\ brother[x] # NIL => x = y
      BY DEF TreeInv, Lists
    <3> QED
      BY <1>1, <1>7, <2>2, <3>1, <3>2
  <2>3. ASSUME NEW x \in Proc, NEW q \in Proc, brother'[q] = child'[x], child'[x] # NIL
        PROVE  FALSE
    <3>1. q \notin K /\ x \notin K /\ q # c
      BY <1>1, <1>2, <2>3
    <3>2. \A y, z \in Proc : brother[y] = child[z] => child[z] = NIL
      BY DEF TreeInv, Lists
    <3>3. \A y, z \in Proc : brother[y] = brother[z] /\ brother[y] # NIL => y = z
      BY DEF TreeInv, Lists
    <3> QED
      BY <1>1, <1>7, <2>3, <3>1, <3>2, <3>3
  <2>4. ASSUME NEW q \in Proc, NEW r \in Proc,
               creator'[q] = creator'[r], creator'[q] # NIL, brother'[q] = NIL, brother'[r] = NIL
        PROVE  q = r
    <3>1. q \notin K /\ r \notin K /\ q # c /\ r # c /\ creator[q] = creator[r] /\ creator[q] # NIL
      BY <1>1, <1>2, <2>4
    <3>2. \A x, y \in Proc : /\ creator[x] = creator[y] /\ creator[x] # NIL
                             /\ brother[x] = NIL /\ brother[y] = NIL
                             => x = y
      BY DEF TreeInv, Lists
    <3>3. \A x, y \in Proc : brother[x] = brother[y] /\ brother[x] # NIL => x = y
      BY DEF TreeInv, Lists
    <3>4. /\ brother[q] = NIL \/ (brother[q] = c /\ brother[c] = NIL)
          /\ brother[r] = NIL \/ (brother[r] = c /\ brother[c] = NIL)
      BY <1>7, <2>4, <3>1
    <3>5. /\ brother[q] = c => creator[c] = creator[q]
          /\ brother[r] = c => creator[c] = creator[r]
      BY <1>1, Siblings
    <3> QED
      BY <1>1, <3>1, <3>2, <3>3, <3>4, <3>5
  <2>5. ASSUME NEW x \in Proc, child'[x] # NIL
        PROVE  \E q \in Proc : creator'[q] = x /\ brother'[q] = NIL
    <3>1. x \notin K /\ child[x] # NIL
      BY <1>1, <1>2, <2>5
    <3>2. PICK q \in Proc : creator[q] = x /\ brother[q] = NIL
      BY <3>1 DEF TreeInv, Lists
    <3>3. CASE q # c
      <4>1. q \notin K
        BY <1>3, <3>1, <3>2, <3>3
      <4> QED
        BY <1>1, <1>7, <3>2, <4>1
    <3>4. CASE q = c
      <4>1. child[x] # c
        BY <1>7, <2>5, <3>1, <3>2, <3>4
      <4>2. PICK y \in Proc : creator[y] = x /\ brother[y] = c
        BY <1>1, <3>2, <3>4, <4>1, Siblings, ProcAssumption
      <4>3. y # c /\ y \notin K
        BY <1>3, <1>5, <3>1, <4>2
      <4> QED
        BY <1>7, <3>2, <3>4, <4>2, <4>3
    <3> QED
      BY <3>3, <3>4
  <2> QED
    BY <2>1, <2>2, <2>3, <2>4, <2>5 DEF Lists
<1> QED
  BY <1>9, <1>10 DEF TreeInv

----------------------------------------------------------------------------
LEMMA Terminated ==
    ASSUME TypeOK, Running, Terminate_Process
    PROVE  \E K : K = Progeny(cur) \cup {cur} /\ Free(K)
BY DEF Terminate_Process

\* A step leaves the tree and the free list alone, or is SYS1, or frees the
\* running process and its progeny.
LEMMA TreeSteps ==
    ASSUME TypeOK, [Next]_vars
    PROVE  \/ Running /\ Create_Process
           \/ Running /\ Terminate_Process
           \/ UNCHANGED <<free, tree>>
<1>1. CASE Create_Process
  BY <1>1 DEF Create_Process
<1>2. CASE SYS2
  BY <1>2 DEF SYS2
<1>3. CASE \E v \in Vectors : Sem_OP(v)
  BY <1>3 DEF Sem_OP
<1>4. CASE notused
  BY <1>4 DEF notused
<1>5. CASE \E t \in TrapTypes : Specify_Trap_State_Vector(t) \/ pass_up(t)
  BY <1>5 DEF Specify_Trap_State_Vector, pass_up
<1>6. CASE waitforpclock
  BY <1>6 DEF waitforpclock
<1>7. CASE \E d \in Dev : StartIO(d) \/ waitforio(d) \/ inthandler(d)
  BY <1>7 DEF StartIO, waitforio, inthandler
<1>8. CASE intclockhandler
  BY <1>8 DEF intclockhandler
<1>9. CASE Tick
  BY <1>9 DEF Tick
<1>10. CASE UNCHANGED vars
  BY <1>10 DEF vars, tree
<1> QED
  BY <1>1, <1>2, <1>3, <1>4, <1>5, <1>6, <1>7, <1>8, <1>9, <1>10 DEF Next, Halted

LEMMA TreeInvariance ==
    ASSUME IInv, TypeOK', TreeInv, [Next]_vars
    PROVE  TreeInv'
<1>1. TypeOK /\ LinkTypes /\ LinkTypes' /\ free \in SUBSET Proc
  BY DEF IInv, TypeOK, LinkTypes
<1>2. CASE Running /\ Create_Process
  BY <1>1, <1>2, curPlaced, CreateTree DEF IInv
<1>3. CASE Running /\ Terminate_Process
  <2>1. cur \in Proc
    BY <1>1, <1>3, curType
  <2>2. PICK K : K = Progeny(cur) \cup {cur} /\ Free(K)
    BY <1>1, <1>3, Terminated
  <2> QED
    BY <1>1, <2>1, <2>2, FreeTree
<1>4. CASE UNCHANGED <<free, tree>>
  <2>1. UNCHANGED <<free, parent, child, brother, creator>>
    BY <1>4 DEF tree
  <2>2. \A p \in Proc : Children(p)' = Children(p)
    BY <2>1 DEF Children
  <2>3. TreeOK'
    BY <2>1, <2>2 DEF TreeInv, TreeOK
  <2>4. Lists'
    BY <2>1 DEF TreeInv, Lists
  <2> QED
    BY <2>3, <2>4 DEF TreeInv
<1> QED
  BY <1>1, <1>2, <1>3, <1>4, TreeSteps

LEMMA TreeInductive ==
    ASSUME Fits
    PROVE  Spec => [](IInv /\ TreeInv)
<1>1. Init => TreeInv
  <2> SUFFICES ASSUME Init PROVE TreeInv
    OBVIOUS
  <2>1. /\ child = [p \in Proc |-> NIL] /\ brother = [p \in Proc |-> NIL]
        /\ parent = [p \in Proc |-> NIL] /\ creator = [p \in Proc |-> NIL]
    BY DEF Init, initProc
  <2>2. \A p \in Proc : Children(p) = {}
    BY <2>1, ChildrenChain, EmptyChain
  <2>3. \A q \in Proc : child[q] = NIL /\ brother[q] = NIL /\ parent[q] = NIL /\ creator[q] = NIL
    BY <2>1
  <2>4. free \subseteq Proc
    BY DEF Init
  <2>5. \A p \in Proc : {q \in Proc : creator[q] = p} = {}
    BY <2>3, ProcAssumption
  <2>6. TreeOK
    BY <2>2, <2>3, <2>4, <2>5 DEF TreeOK
  <2>7. Lists
    BY <2>3, ProcAssumption DEF Lists
  <2> QED
    BY <2>6, <2>7 DEF TreeInv
<1>2. IInv /\ TypeOK' /\ TreeInv /\ [Next]_vars => TreeInv'
  BY TreeInvariance
<1>3. Spec => []IInv
  BY Inductive
<1>4. IInv => TypeOK
  BY DEF IInv
<1> QED
  BY <1>1, <1>2, <1>3, <1>4, PTL DEF Spec

\* The links child, brother and parent of proc_t represent who created whom,
\* after any sequence of SYS1, SYS2 and terminations by a trap: a process's
\* list of children holds exactly those it created, the last one and no other
\* points back to it, no creator is gone and no freed entry keeps a link.
THEOREM TreeIsRight ==
    ASSUME Fits
    PROVE  Spec => []TreeOK
<1>1. IInv /\ TreeInv => TreeOK
  BY DEF TreeInv
<1> QED
  BY <1>1, TreeInductive, PTL

\* Terminate_Process frees the running process and its progeny and nobody
\* else: whoever becomes free is the running process or was created by
\* somebody who becomes free in the same step.
THEOREM OnlyProgenyDies ==
    ASSUME Fits
    PROVE  Spec => DiesWithCreator
<1>1. IInv /\ TreeInv /\ [Next]_vars
      => [\A q \in free' \ free : q = cur \/ creator[q] \in free' \ free]_vars
  <2> SUFFICES ASSUME IInv, TreeInv, [Next]_vars, NEW q \in free' \ free
               PROVE  q = cur \/ creator[q] \in free' \ free
    OBVIOUS
  <2>1. TypeOK /\ LinkTypes /\ free \in SUBSET Proc
    BY DEF IInv, TypeOK, LinkTypes
  <2>2. CASE Running /\ Create_Process
    BY <2>2 DEF Create_Process
  <2>3. CASE Running /\ Terminate_Process
    <3>1. cur \in Proc
      BY <2>1, <2>3, curType
    <3>2. PICK K : K = Progeny(cur) \cup {cur} /\ Free(K)
      BY <2>1, <2>3, Terminated
    <3>3. free' = free \cup K
      BY <3>2 DEF Free
    <3>4. q \in K /\ K \subseteq Proc
      BY <2>1, <3>1, <3>2, <3>3, ProgenyFacts
    <3>5. q = cur \/ creator[q] \in K
      BY <2>1, <3>1, <3>2, <3>4, Family
    <3>6. creator[q] \in K => creator[q] \notin free
      <4>1. creator[q] \in K => creator[q] # NIL
        BY <3>4, ProcAssumption
      <4> QED
        BY <3>4, <4>1 DEF TreeInv, TreeOK
    <3> QED
      BY <3>3, <3>5, <3>6
  <2>4. CASE UNCHANGED <<free, tree>>
    BY <2>4
  <2> QED
    BY <2>1, <2>2, <2>3, <2>4, TreeSteps
<1> QED
  BY <1>1, TreeInductive, PTL DEF Spec, DiesWithCreator
=============================================================================

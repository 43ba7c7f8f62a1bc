-------------------------- MODULE TProcessProofs --------------------------
(***************************************************************************)
(* Theorems about TProcess, for any number of T-processes: cron does not   *)
(* end the system while a T-process has not terminated.                    *)
(***************************************************************************)
EXTENDS TProcess, QueueLemmas, FiniteSetTheorems, TLAPS

\* The T-processes that have not stored their decrement of p_alive.
Before == {t \in TProc : pc[t] \notin {"stored", "leaving", "gone"}}

Place == {"none", "user", "terminal", "timed", "delayed", "loaded", "stored", "leaving", "gone"}

\* p1a has still to create the processes from i on.
Creating == i \in Int /\ (at = "p1a" => \A t \in TProc : t >= i => pc[t] = "none")

\* A decrement may be lost but never counted twice: p_alive, and what the
\* processes have loaded of it, is at least the number of those to come.
AliveInv == /\ p_alive \in Int
            /\ reg \in [TProc -> Int]
            /\ pc \in [TProc -> Place]
            /\ Creating
            /\ p_alive >= Cardinality(Before)
            /\ \A t \in TProc : pc[t] = "loaded" => reg[t] >= Cardinality(Before)

LEMMA BeforeFinite == IsFiniteSet(Before) /\ Cardinality(Before) \in Nat
<1>1. IsFiniteSet(TProc)
  BY TProcessAssumption, FS_Interval DEF TProc
<1>2. Before \in SUBSET TProc
  BY DEF Before
<1> QED
  BY <1>1, <1>2, FS_Subset, FS_CardinalityType

LEMMA BeforeFinite2 == IsFiniteSet(Before') /\ Cardinality(Before') \in Nat
<1>1. IsFiniteSet(TProc)
  BY TProcessAssumption, FS_Interval DEF TProc
<1>2. Before' \in SUBSET TProc
  BY DEF Before
<1> QED
  BY <1>1, <1>2, FS_Subset, FS_CardinalityType

LEMMA AliveInit == Init => AliveInv
<1> SUFFICES ASSUME Init PROVE AliveInv
  OBVIOUS
<1>1. Before = TProc
  BY DEF Init, Before
<1>2. Cardinality(TProc) = N
  BY TProcessAssumption, FS_Interval DEF TProc
<1> QED
  BY <1>1, <1>2, TProcessAssumption DEF Init, AliveInv, Creating, Place, TProc

\* A step that stores nothing leaves the processes to come as they are.
LEMMA NothingStored ==
    ASSUME AliveInv, Before' \subseteq Before, p_alive' = p_alive, reg' = reg,
           pc' \in [TProc -> Place], Creating',
           \A t \in TProc : pc'[t] = "loaded" => pc[t] = "loaded"
    PROVE  AliveInv'
<1>1. Cardinality(Before') <= Cardinality(Before)
  BY BeforeFinite, FS_Subset
<1> QED
  BY <1>1, BeforeFinite, BeforeFinite2 DEF AliveInv

LEMMA AliveNext == AliveInv /\ [Next]_vars => AliveInv'
<1> SUFFICES ASSUME AliveInv, [Next]_vars PROVE AliveInv'
  OBVIOUS
<1>1. ASSUME NEW t \in TProc, NEW a, NEW b \in Place \ {"loaded"}, From(t, a, b),
             a \notin {"none", "stored", "leaving", "gone"}
                 \/ (a # "none" /\ b \in {"stored", "leaving", "gone"}),
             p_alive' = p_alive, reg' = reg, UNCHANGED <<at, i>>
      PROVE  AliveInv'
  <2>1. pc' \in [TProc -> Place]
    BY <1>1 DEF AliveInv, From
  <2>2. Before' \subseteq Before
    BY <1>1 DEF AliveInv, From, Before
  <2>3. \A u \in TProc : pc'[u] = "loaded" => pc[u] = "loaded"
    BY <1>1 DEF AliveInv, From
  <2>4. Creating'
    BY <1>1 DEF AliveInv, From, Creating
  <2> QED
    BY <1>1, <2>1, <2>2, <2>3, <2>4, NothingStored
<1>2. ASSUME pc' = pc, p_alive' = p_alive, reg' = reg, Creating'
      PROVE  AliveInv'
  BY <1>2 DEF AliveInv, Before
<1>3. CASE p1a
  <2>1. CASE i <= N
    <3>1. /\ pc' = [pc EXCEPT ![i] = "user"] /\ p_alive' = p_alive /\ reg' = reg
          /\ at = "p1a" /\ at' = at /\ i' = i + 1
      BY <1>3, <2>1 DEF p1a, Cron
    <3>2. pc' \in [TProc -> Place]
      BY <3>1 DEF AliveInv, Place
    <3>3. i \in TProc => pc[i] = "none"
      BY <3>1 DEF AliveInv, Creating, TProc
    <3>4. Before' \subseteq Before
      BY <3>1, <3>3 DEF AliveInv, Before
    <3>5. \A u \in TProc : pc'[u] = "loaded" => pc[u] = "loaded"
      BY <3>1 DEF AliveInv
    <3>6. Creating'
      BY <3>1 DEF AliveInv, Creating, TProc
    <3> QED
      BY <3>1, <3>2, <3>4, <3>5, <3>6, NothingStored
  <2>2. CASE ~(i <= N)
    BY <1>2, <1>3, <2>2 DEF p1a, Creating, AliveInv
  <2> QED
    BY <2>1, <2>2
<1>4. CASE Top
  <2>1. at' # "p1a" /\ i' = 1 /\ p_alive' = p_alive /\ reg' = reg
    BY <1>4 DEF Top
  <2>2. CASE pc' = pc
    BY <1>2, <2>1, <2>2 DEF Creating
  <2>3. CASE pc' = [t \in TProc |-> "gone"]
    <3>1. Before' = {}
      BY <2>3 DEF Before
    <3>2. pc' \in [TProc -> Place] /\ (\A u \in TProc : pc'[u] # "loaded")
      BY <2>3 DEF Place
    <3> QED
      BY <2>1, <3>1, <3>2, NothingStored DEF Creating
  <2> QED
    BY <1>4, <2>2, <2>3 DEF Top
<1>5. CASE ReleaseScan \/ LookScan \/ Sleep \/ Woken \/ PseudoClock
  <2>1. pc' = pc /\ p_alive' = p_alive /\ reg' = reg /\ at' # "p1a"
    BY <1>5 DEF ReleaseScan, LookScan, Sleep, Woken, PseudoClock, Cron
  <2>2. i' \in Int
    BY <1>5 DEF ReleaseScan, LookScan, Sleep, Woken, PseudoClock, AliveInv, Creating
  <2> QED
    BY <1>2, <2>1, <2>2 DEF Creating
<1>6. CASE Time
  BY <1>2, <1>6 DEF Time, cron_vars, AliveInv, Creating
<1>7. ASSUME NEW t \in TProc, NEW d \in 0..MaxDelay, Delay(t, d)
      PROVE  AliveInv'
  <2>1. From(t, "user", "timed") /\ p_alive' = p_alive /\ reg' = reg /\ UNCHANGED <<at, i>>
    BY <1>7 DEF Delay, cron_vars
  <2> QED
    BY <1>1, <2>1 DEF Place
<1>8. ASSUME NEW t \in TProc, Terminal(t)
      PROVE  AliveInv'
  <2>1. p_alive' = p_alive /\ reg' = reg /\ UNCHANGED <<at, i>>
    BY <1>8 DEF Terminal, cron_vars
  <2>2. CASE From(t, "user", "terminal")
    BY <1>1, <2>1, <2>2 DEF Place
  <2>3. CASE From(t, "terminal", "user")
    BY <1>1, <2>1, <2>3 DEF Place
  <2> QED
    BY <1>8, <2>2, <2>3 DEF Terminal
<1>9. ASSUME NEW t \in TProc, TerminateLoad(t)
      PROVE  AliveInv'
  <2>1. /\ pc[t] = "user" /\ pc' = [pc EXCEPT ![t] = "loaded"]
        /\ reg' = [reg EXCEPT ![t] = p_alive] /\ p_alive' = p_alive /\ UNCHANGED <<at, i>>
    BY <1>9 DEF TerminateLoad, From, cron_vars
  <2>2. Before' = Before
    BY <2>1 DEF Before, AliveInv
  <2>3. Creating'
    BY <2>1 DEF AliveInv, Creating
  <2>4. pc' \in [TProc -> Place] /\ reg' \in [TProc -> Int]
    BY <2>1 DEF AliveInv, Place
  <2>5. \A u \in TProc : pc'[u] = "loaded" => reg'[u] >= Cardinality(Before)
    BY <2>1 DEF AliveInv
  <2> QED
    BY <2>1, <2>2, <2>3, <2>4, <2>5 DEF AliveInv
<1>10. ASSUME NEW t \in TProc, TerminateStore(t)
       PROVE  AliveInv'
  <2>1. /\ pc[t] = "loaded" /\ pc' = [pc EXCEPT ![t] = "stored"]
        /\ reg' = [reg EXCEPT ![t] = 0] /\ p_alive' = reg[t] - 1 /\ UNCHANGED <<at, i>>
    BY <1>10 DEF TerminateStore, From, cron_vars
  <2>2. t \in Before /\ Before' = Before \ {t}
    BY <2>1 DEF Before, AliveInv
  <2>3. Cardinality(Before') = Cardinality(Before) - 1
    BY <2>2, BeforeFinite, FS_RemoveElement
  <2>4. Creating'
    BY <2>1 DEF AliveInv, Creating
  <2>5. pc' \in [TProc -> Place] /\ reg' \in [TProc -> Int]
    BY <2>1 DEF AliveInv, Place
  <2>6. \A u \in TProc : pc'[u] = "loaded" => reg'[u] >= Cardinality(Before)
    BY <2>1 DEF AliveInv
  <2>7. p_alive' \in Int /\ p_alive' >= Cardinality(Before')
    BY <2>1, <2>3, BeforeFinite DEF AliveInv
  <2>8. \A u \in TProc : pc'[u] = "loaded" => reg'[u] >= Cardinality(Before')
    BY <2>3, <2>5, <2>6, BeforeFinite
  <2> QED
    BY <2>4, <2>5, <2>7, <2>8 DEF AliveInv
<1>11. ASSUME NEW t \in TProc, DelayWait(t) \/ DelayReturn(t)
       PROVE  AliveInv'
  <2>1. p_alive' = p_alive /\ reg' = reg /\ UNCHANGED <<at, i>>
    BY <1>11 DEF DelayWait, DelayReturn, cron_vars
  <2>2. CASE From(t, "timed", "delayed")
    BY <1>1, <2>1, <2>2 DEF Place
  <2>3. CASE From(t, "delayed", "user")
    BY <1>1, <2>1, <2>3 DEF Place
  <2> QED
    BY <1>11, <2>2, <2>3 DEF DelayWait, DelayReturn
<1>12. ASSUME NEW t \in TProc, TerminateWake(t) \/ TerminateEnd(t)
       PROVE  AliveInv'
  <2>1. p_alive' = p_alive /\ reg' = reg /\ UNCHANGED <<at, i>>
    BY <1>12 DEF TerminateWake, TerminateEnd, cron_vars
  <2>2. CASE From(t, "stored", "leaving")
    BY <1>1, <2>1, <2>2 DEF Place
  <2>3. CASE From(t, "leaving", "gone")
    BY <1>1, <2>1, <2>3 DEF Place
  <2> QED
    BY <1>12, <2>2, <2>3 DEF TerminateWake, TerminateEnd
<1>13. CASE UNCHANGED vars
  BY <1>2, <1>13 DEF vars, cron_vars, AliveInv, Creating
<1> QED
  BY <1>3, <1>4, <1>5, <1>6, <1>7, <1>8, <1>9, <1>10, <1>11, <1>12, <1>13
     DEF Next, cron, Handler

\* Only Top ends cron, and it finds nobody to come.
LEMMA EndsLast ==
    AliveInv /\ [Next]_vars =>
        (at' = "gone" /\ at # "gone" =>
            \A t \in TProc : pc[t] \in {"stored", "leaving", "gone"})
<1> SUFFICES ASSUME AliveInv, [Next]_vars, at' = "gone", at # "gone"
             PROVE  \A t \in TProc : pc[t] \in {"stored", "leaving", "gone"}
  OBVIOUS
<1>1. Top
  BY DEF Next, vars, cron_vars, cron, Handler, p1a, ReleaseScan, LookScan, Sleep, Woken,
         PseudoClock, Time, Delay, Terminal, TerminateLoad, TerminateStore, TerminateWake,
         TerminateEnd, DelayWait, DelayReturn
<1>2. ~(p_alive > 0)
  BY <1>1 DEF Top
<1>3. Cardinality(Before) = 0
  BY <1>2, BeforeFinite DEF AliveInv
<1>4. Before = {}
  BY <1>3, BeforeFinite, FS_EmptySet
<1> QED
  BY <1>4 DEF Before

\* cron never ends the system while a T-process has not terminated, however
\* the decrements of p_alive in Terminate overlap.
THEOREM ShutdownIsLast == Spec => NoEarlyShutdown
<1>1. Spec => []AliveInv
  BY AliveInit, AliveNext, PTL DEF Spec
<1> QED
  BY <1>1, EndsLast, PTL DEF Spec, NoEarlyShutdown
----------------------------------------------------------------------------
(***************************************************************************)
(* Delays and cron's sleep.                                                *)
(***************************************************************************)

\* The processes, and the semaphores they wait on.
Who == 0..N

\* A T-process waits on its own semaphore only, cron on cron_sem only.
SemOK ==
    /\ Counted(sem, Who, Who)
    /\ \A s \in Who : sem[s].val >= -1 /\ \A p : Waits(sem, s, p) => p = s
    /\ \A t \in TProc : Delayed(t) => pc[t] = "delayed"
    /\ \A t \in TProc : sem[t].val <= 0
    /\ sem[cron_sem].val < 0 => at = "sem"

\* Of those that delay, cron has already seen one or is told by cron_sem, with
\* the exception of those it has still to look at.
Told ==
    /\ at = "look" /\ ~clock /\ sem[cron_sem].val <= 0 =>
           \A t \in TProc : t < i => ~Delayed(t)
    /\ sem[cron_sem].val < 0 => \A t \in TProc : ~Delayed(t)

\* A T-process is let go no sooner than its time is over.
Timely == \A t \in TProc : pc[t] = "delayed" /\ ~Delayed(t) => Expired(t)

CronInv == TypeOK /\ AliveInv /\ SemOK /\ Told /\ Timely
LEMMA SemFacts ==
    ASSUME SemOK
    PROVE  /\ \A t \in TProc : Ready(sem, t) <=> ~Delayed(t)
           /\ Ready(sem, CRON) <=> sem[cron_sem].val >= 0
           /\ \A s \in Who : sem[s].val \in Int
           /\ cron_sem \in Who /\ cron_sem \notin TProc /\ TProc \subseteq Who
<1>1. cron_sem = CRON /\ cron_sem \in Who /\ cron_sem \notin TProc /\ TProc \subseteq Who
  BY TProcessAssumption DEF CRON, cron_sem, TProc, Who
<1>2. /\ \A s \in Who : \A p : Waits(sem, s, p) => sem[s].val < 0
      /\ \A s \in Who : sem[s].val < 0 => \E p \in Who : Waits(sem, s, p)
      /\ \A p : Ready(sem, p) <=> \A s \in Who : ~Waits(sem, s, p)
      /\ \A s \in Who : sem[s].val \in Int
  BY CountedFacts DEF SemOK
<1>3. \A s \in Who : \A p : Waits(sem, s, p) => p = s
  BY DEF SemOK
<1>4. \A p \in Who : Ready(sem, p) <=> ~(sem[p].val < 0)
  BY <1>2, <1>3
<1> QED
  BY <1>1, <1>2, <1>4 DEF Delayed

LEMMA CronInit == Init => CronInv
<1> SUFFICES ASSUME Init PROVE CronInv
  OBVIOUS
<1> USE TProcessAssumption DEF Init
<1>1. TypeOK
  <2>1. sem \in [0..N -> [val : Int, q : Seq(0..N)]]
    BY DEF Semaphore
  <2>2. clock \in BOOLEAN /\ lost \in BOOLEAN
    BY Zenon
  <2>3. left \in [TProc -> -1..MaxDelay] /\ reg \in [TProc -> 0..N]
    OBVIOUS
  <2> QED
    BY <2>1, <2>2, <2>3 DEF TypeOK
<1>2. SemOK
  <2>1. sem \in [Who -> [val : Nat, q : {<<>>}]]
    BY DEF Semaphore, Who
  <2>2. Counted(sem, Who, Who)
    BY <2>1, CountedInit
  <2>3. \A s \in Who : sem[s].val = 0
    BY DEF Semaphore, Who
  <2>4. \A s \in Who : \A p : Waits(sem, s, p) => sem[s].val < 0
    BY <2>2, CountedFacts
  <2>5. TProc \subseteq Who /\ cron_sem \in Who
    BY DEF TProc, cron_sem, Who
  <2> QED
    BY <2>2, <2>3, <2>4, <2>5 DEF SemOK, Delayed
<1>3. Told
  BY DEF Told, Delayed, Semaphore, TProc, cron_sem
<1>4. Timely
  BY DEF Timely
<1> QED
  BY <1>1, <1>2, <1>3, <1>4, AliveInit DEF CronInv

\* The Boolean variables, and the others.
Flags == clock \in BOOLEAN /\ lost \in BOOLEAN
Numbers == /\ p_alive \in 0..N
           /\ left \in [TProc -> -1..MaxDelay]
           /\ pc \in [TProc -> Place]
           /\ reg \in [TProc -> 0..N]
           /\ at \in {"p1a", "top", "release", "look", "clock", "sem", "gone"}
           /\ i \in 1..(N + 1)

LEMMA TypeParts ==
    ASSUME SemOK
    PROVE  TypeOK <=> Flags /\ Numbers
BY DEF TypeOK, SemOK, Counted, Who, Flags, Numbers, Place

LEMMA FlagsNext == Flags /\ [Next]_vars => Flags'
<1> SUFFICES ASSUME Flags, [Next]_vars PROVE Flags'
  OBVIOUS
<1>1. lost' \in BOOLEAN
  BY Zenon DEF Flags, Next, vars, cron_vars, cron, Handler, p1a, Top, ReleaseScan, LookScan,
         Sleep, Woken, PseudoClock, Time, Delay, Terminal, TerminateLoad, TerminateStore,
         TerminateWake, TerminateEnd, DelayWait, DelayReturn
<1>2. clock' \in BOOLEAN
  BY Zenon DEF Flags, Next, vars, cron_vars, cron, Handler, p1a, Top, ReleaseScan, LookScan,
         Sleep, Woken, PseudoClock, Time, Delay, Terminal, TerminateLoad, TerminateStore,
         TerminateWake, TerminateEnd, DelayWait, DelayReturn
<1> QED
  BY <1>1, <1>2 DEF Flags

LEMMA NumbersNext == Numbers /\ AliveInv /\ AliveInv' /\ [Next]_vars => Numbers'
<1> SUFFICES ASSUME Numbers, AliveInv, AliveInv', [Next]_vars PROVE Numbers'
  OBVIOUS
<1>a. pc' \in [TProc -> Place] /\ p_alive' \in Int /\ p_alive' >= 0
  BY BeforeFinite2 DEF AliveInv
<1> USE TProcessAssumption, <1>a
<1>1. CASE p1a \/ Top \/ ReleaseScan \/ LookScan \/ Sleep \/ Woken \/ PseudoClock
  <2>1. p_alive' = p_alive /\ left' = left /\ reg' = reg
    BY <1>1 DEF p1a, Top, ReleaseScan, LookScan, Sleep, Woken, PseudoClock
  <2>2. at' \in {"p1a", "top", "release", "look", "clock", "sem", "gone"}
    BY <1>1 DEF Numbers, p1a, Top, ReleaseScan, LookScan, Sleep, Woken, PseudoClock
  <2>3. i' \in 1..(N + 1)
    BY <1>1 DEF Numbers, p1a, Top, ReleaseScan, LookScan, Sleep, Woken, PseudoClock
  <2> QED
    BY <2>1, <2>2, <2>3 DEF Numbers
<1>2. CASE Time
  <2>1. left' \in [TProc -> -1..MaxDelay]
    BY <1>2 DEF Time, Numbers, Expired
  <2> QED
    BY <1>2, <2>1 DEF Time, Numbers, cron_vars
<1>3. ASSUME NEW t \in TProc, NEW d \in 0..MaxDelay, Delay(t, d)
      PROVE  Numbers'
  BY <1>3 DEF Delay, Numbers, cron_vars
<1>4. ASSUME NEW t \in TProc, TerminateLoad(t) \/ TerminateStore(t)
      PROVE  Numbers'
  <2>1. left' = left /\ at' = at /\ i' = i
    BY <1>4 DEF TerminateLoad, TerminateStore, cron_vars
  <2>2. reg' \in [TProc -> 0..N] /\ p_alive' <= N
    BY <1>4 DEF TerminateLoad, TerminateStore, Numbers
  <2> QED
    BY <2>1, <2>2 DEF Numbers
<1>5. ASSUME NEW t \in TProc,
             Terminal(t) \/ DelayWait(t) \/ DelayReturn(t) \/ TerminateWake(t) \/ TerminateEnd(t)
      PROVE  Numbers'
  BY <1>5 DEF Terminal, DelayWait, DelayReturn, TerminateWake, TerminateEnd, Numbers, cron_vars
<1>6. CASE UNCHANGED vars
  BY <1>6 DEF Numbers, vars, cron_vars
<1> QED
  BY <1>1, <1>2, <1>3, <1>4, <1>5, <1>6 DEF Next, cron, Handler

\* A step of a T-process that touches no semaphore.
LEMMA SemKept ==
    ASSUME SemOK, Told, Timely, UNCHANGED <<sem, left, at, i, clock>>,
           \A t \in TProc : pc'[t] = "delayed" <=> pc[t] = "delayed"
    PROVE  SemOK' /\ Told' /\ Timely'
<1>1. SemOK'
  BY DEF SemOK, Delayed
<1>2. Told'
  BY DEF Told, Delayed
<1>3. Timely'
  BY DEF Timely, Delayed, Expired
<1> QED
  BY <1>1, <1>2, <1>3

\* A step of cron that touches no semaphore.
LEMMA CronKept ==
    ASSUME SemOK, Told, Timely, UNCHANGED <<sem, left>>, Ready(sem, CRON), at' # "look",
           \A t \in TProc : /\ Delayed(t) /\ pc[t] = "delayed" => pc'[t] = "delayed"
                            /\ pc'[t] = "delayed" => pc[t] = "delayed"
    PROVE  SemOK' /\ Told' /\ Timely'
<1>1. sem[cron_sem].val >= 0 /\ sem[cron_sem].val \in Int
  BY SemFacts
<1>2. SemOK'
  BY <1>1 DEF SemOK, Delayed
<1>3. Told'
  BY <1>1 DEF Told
<1>4. Timely'
  BY DEF Timely, Delayed, Expired
<1> QED
  BY <1>2, <1>3, <1>4

LEMMA DelayNext ==
    ASSUME Numbers, AliveInv, SemOK, Told, Timely, [Next]_vars
    PROVE  SemOK' /\ Told' /\ Timely'
<1> USE TProcessAssumption
<1>a. pc \in [TProc -> Place] /\ i \in 1..(N + 1) /\ left \in [TProc -> -1..MaxDelay]
  BY DEF Numbers
<1>b. /\ \A t \in TProc : Ready(sem, t) <=> ~Delayed(t)
      /\ Ready(sem, CRON) <=> sem[cron_sem].val >= 0
  BY SemFacts
<1>c. /\ \A s \in Who : sem[s].val \in Int
      /\ cron_sem \in Who /\ cron_sem \notin TProc /\ TProc \subseteq Who
      /\ \A s \in Who : s \in TProc \/ s = cron_sem
      /\ cron_sem = CRON
  BY SemFacts DEF cron_sem, TProc, CRON, Who
<1>d. Counted(sem, Who, Who)
  BY DEF SemOK
<1>1. CASE p1a
  <2>1. Ready(sem, CRON) /\ at = "p1a" /\ at' # "look" /\ UNCHANGED <<sem, left>>
    BY <1>1 DEF p1a, Cron
  <2>2. CASE i <= N
    <3>1. i \in TProc /\ pc[i] = "none" /\ pc' = [pc EXCEPT ![i] = "user"]
      BY <1>1, <1>a, <2>1, <2>2 DEF p1a, AliveInv, Creating, TProc
    <3>2. \A t \in TProc : pc'[t] = "delayed" <=> pc[t] = "delayed"
      BY <1>a, <3>1
    <3> QED
      BY <2>1, <3>2, CronKept
  <2>3. CASE ~(i <= N)
    BY <1>1, <2>1, <2>3, CronKept DEF p1a
  <2> QED
    BY <2>2, <2>3
<1>2. CASE Top
  <2>1. Ready(sem, CRON) /\ at' # "look" /\ UNCHANGED <<sem, left>>
    BY <1>2 DEF Top, Cron
  <2>2. CASE p_alive > 0
    BY <1>2, <2>1, <2>2, CronKept DEF Top
  <2>3. CASE ~(p_alive > 0)
    <3>1. Cardinality(Before) = 0
      BY <2>3, BeforeFinite DEF AliveInv
    <3>2. Before = {}
      BY <3>1, BeforeFinite, FS_EmptySet
    <3>3. \A t \in TProc : pc[t] # "delayed" /\ pc'[t] # "delayed"
      BY <1>2, <2>3, <3>2 DEF Before, Top
    <3> QED
      BY <2>1, <3>3, CronKept
  <2> QED
    BY <2>2, <2>3
<1>3. CASE ReleaseScan
  <2>1. sem[cron_sem].val >= 0 /\ UNCHANGED <<left, pc>> /\ at = "release"
    BY <1>3, <1>b DEF ReleaseScan, Cron
  <2>2. CASE i > N
    <3>1. sem' = sem /\ i' = 1
      BY <1>3, <2>2 DEF ReleaseScan
    <3>2. SemOK'
      BY <2>1, <3>1, <1>c DEF SemOK, Delayed
    <3>3. Told'
      BY <2>1, <3>1, <1>c DEF Told, TProc
    <3>4. Timely'
      BY <2>1, <3>1 DEF Timely, Delayed, Expired
    <3> QED
      BY <3>2, <3>3, <3>4
  <2>3. CASE ~(i > N) /\ ~(Delayed(i) /\ Expired(i))
    BY <1>3, <2>3, <1>b, CronKept DEF ReleaseScan, Cron
  <2>4. CASE ~(i > N) /\ Delayed(i) /\ Expired(i)
    <3>1. i \in TProc /\ i \in Who /\ sem[i].val = -1
      BY <2>4, <1>a, <1>c DEF SemOK, Delayed, TProc
    <3>2. at' = "release" /\ sem' = V(sem, i)
      BY <1>3, <2>4, <2>1 DEF ReleaseScan
    <3>3. /\ Counted(sem', Who, Who)
          /\ sem'[i].val = 0
          /\ \A s \in Who : s # i => sem'[s] = sem[s]
          /\ \A s \in Who : \A p : Waits(sem', s, p) => Waits(sem, s, p)
      BY <3>1, <3>2, <1>d, VStep
    <3>4. \A s \in Who : sem'[s].val >= -1 /\ \A p : Waits(sem', s, p) => p = s
      BY <3>3 DEF SemOK
    <3>5. SemOK'
      <4>1. \A t \in TProc : sem'[t].val <= 0 /\ (sem'[t].val < 0 => pc'[t] = "delayed")
        BY <2>1, <3>3, <1>c DEF SemOK, Delayed
      <4>2. ~(sem'[cron_sem].val < 0)
        BY <2>1, <3>1, <3>3, <1>c
      <4> QED
        BY <3>3, <3>4, <4>1, <4>2 DEF SemOK, Delayed
    <3>6. Told'
      BY <2>1, <3>1, <3>2, <3>3, <1>c DEF Told
    <3>7. Timely'
      BY <2>1, <2>4, <3>1, <3>3, <1>c DEF Timely, Delayed, Expired
    <3> QED
      BY <3>5, <3>6, <3>7
  <2> QED
    BY <2>2, <2>3, <2>4
<1>4. CASE LookScan
  <2>1. /\ sem[cron_sem].val >= 0 /\ UNCHANGED <<sem, left, pc, at>> /\ at = "look"
        /\ i <= N /\ i' = i + 1 /\ (clock' <=> clock \/ Delayed(i))
    BY <1>4, <1>b DEF LookScan, Cron
  <2>2. SemOK'
    BY <2>1 DEF SemOK, Delayed
  <2>3. Told'
    <3>1. \A t \in TProc : t < i + 1 => t < i \/ t = i
      BY <1>a DEF TProc
    <3> QED
      BY <2>1, <3>1, <1>c DEF Told, Delayed
  <2>4. Timely'
    BY <2>1 DEF Timely, Delayed, Expired
  <2> QED
    BY <2>2, <2>3, <2>4
<1>5. CASE Sleep
  <2>1. sem[cron_sem].val >= 0 /\ UNCHANGED <<left, pc>> /\ at = "look" /\ i > N
    BY <1>5, <1>b DEF Sleep, Cron
  <2>2. CASE clock
    BY <1>5, <2>2, CronKept DEF Sleep, Cron
  <2>3. CASE ~clock
    <3>1. at' = "sem" /\ sem' = P(sem, cron_sem, CRON)
      BY <1>5, <2>3 DEF Sleep
    <3>2. CRON \in Who /\ Ready(sem, CRON)
      BY <2>1, <1>b, <1>c
    <3>3. /\ Counted(sem', Who, Who)
          /\ sem'[cron_sem].val = sem[cron_sem].val - 1
          /\ \A s \in Who : s # cron_sem => sem'[s] = sem[s]
          /\ \A s \in Who : \A p : Waits(sem', s, p) => Waits(sem, s, p) \/ (s = cron_sem /\ p = CRON)
      BY <3>1, <3>2, <1>c, <1>d, PStep
    <3>4. SemOK'
      <4>1. \A s \in Who : sem'[s].val >= -1
        BY <2>1, <3>3, <1>c DEF SemOK
      <4>2. \A s \in Who : \A p : Waits(sem', s, p) => p = s
        BY <3>3, <1>c DEF SemOK
      <4>3. \A t \in TProc : sem'[t] = sem[t]
        BY <3>3, <1>c
      <4> QED
        BY <2>1, <3>1, <3>3, <4>1, <4>2, <4>3 DEF SemOK, Delayed
    <3>5. Told'
      BY <1>a, <2>1, <2>3, <3>1, <3>3, <1>c, SMTT(30) DEF Told, Delayed, TProc
    <3>6. Timely'
      BY <2>1, <3>3, <1>c DEF Timely, Delayed, Expired
    <3> QED
      BY <3>4, <3>5, <3>6
  <2> QED
    BY <2>2, <2>3
<1>6. CASE Woken \/ PseudoClock
  BY <1>6, CronKept DEF Woken, PseudoClock, Cron
<1>7. CASE Time
  <2>1. UNCHANGED <<sem, pc, at, i, clock>>
    BY <1>7 DEF Time, cron_vars
  <2>2. \A t \in TProc : Expired(t) => Expired(t)'
    BY <1>7, <1>a DEF Time, Expired
  <2> QED
    BY <2>1, <2>2 DEF SemOK, Told, Timely, Delayed
<1>8. ASSUME NEW t \in TProc, NEW d \in 0..MaxDelay, Delay(t, d)
      PROVE  SemOK' /\ Told' /\ Timely'
  <2>1. /\ UNCHANGED <<sem, at, i, clock>> /\ pc[t] = "user" /\ pc' = [pc EXCEPT ![t] = "timed"]
        /\ left' = [left EXCEPT ![t] = d]
    BY <1>8 DEF Delay, From, cron_vars
  <2>2. \A u \in TProc : u # t => left'[u] = left[u] /\ pc'[u] = pc[u]
    BY <2>1, <1>a
  <2>3. pc'[t] = "timed"
    BY <2>1, <1>a
  <2>4. SemOK'
    BY <2>1, <2>2 DEF SemOK, Delayed
  <2>5. Told'
    BY <2>1 DEF Told, Delayed
  <2>6. Timely'
    BY <2>1, <2>2, <2>3 DEF Timely, Delayed, Expired
  <2> QED
    BY <2>4, <2>5, <2>6
<1>9. ASSUME NEW t \in TProc, NEW a \in Place \ {"delayed"}, NEW b \in Place \ {"delayed"},
             From(t, a, b), UNCHANGED <<sem, left, at, i, clock>>
      PROVE  SemOK' /\ Told' /\ Timely'
  <2>1. \A u \in TProc : pc'[u] = "delayed" <=> pc[u] = "delayed"
    BY <1>9, <1>a DEF From
  <2> QED
    BY <1>9, <2>1, SemKept
<1>10. ASSUME NEW t \in TProc,
              Terminal(t) \/ TerminateLoad(t) \/ TerminateStore(t) \/ TerminateEnd(t)
       PROVE  SemOK' /\ Told' /\ Timely'
  <2>1. UNCHANGED <<sem, left, at, i, clock>>
    BY <1>10 DEF Terminal, TerminateLoad, TerminateStore, TerminateEnd, cron_vars
  <2>2. \E a, b \in Place \ {"delayed"} : From(t, a, b)
    BY <1>10 DEF Terminal, TerminateLoad, TerminateStore, TerminateEnd, Place
  <2> QED
    BY <1>9, <2>1, <2>2
<1>11. ASSUME NEW t \in TProc, DelayWait(t)
       PROVE  SemOK' /\ Told' /\ Timely'
  <2>1. /\ UNCHANGED <<left, at, i, clock>> /\ pc[t] = "timed"
        /\ pc' = [pc EXCEPT ![t] = "delayed"]
        /\ sem' = V(P(sem, t, t), cron_sem)
    BY <1>11 DEF DelayWait, From, cron_vars
  <2>2. t \in Who /\ Ready(sem, t) /\ sem[t].val = 0
    <3>1. ~Delayed(t) /\ sem[t].val <= 0 /\ sem[t].val \in Int
      BY <2>1, <1>c DEF SemOK
    <3> QED
      BY <3>1, <1>b, <1>c DEF Delayed
  <2> DEFINE m == P(sem, t, t)
  <2>3. /\ Counted(m, Who, Who)
        /\ m[t].val = -1
        /\ \A s \in Who : s # t => m[s] = sem[s]
        /\ \A s \in Who : \A p : Waits(m, s, p) => Waits(sem, s, p) \/ (s = t /\ p = t)
    BY <2>2, <1>d, PStep
  <2> HIDE DEF m
  <2>4. sem' = V(m, cron_sem)
    BY <2>1 DEF m
  <2>5. /\ Counted(sem', Who, Who)
        /\ sem'[cron_sem].val = m[cron_sem].val + 1
        /\ \A s \in Who : s # cron_sem => sem'[s] = m[s]
        /\ \A s \in Who : \A p : Waits(sem', s, p) => Waits(m, s, p)
    BY <2>3, <2>4, <1>c, VStep
  <2>6. m[cron_sem] = sem[cron_sem]
    BY <2>3, <1>c
  <2>7. sem'[cron_sem].val = sem[cron_sem].val + 1
    BY <2>5, <2>6
  <2>8. /\ sem'[t].val = -1 /\ pc'[t] = "delayed"
        /\ \A s \in TProc : s # t => sem'[s] = sem[s] /\ pc'[s] = pc[s]
    BY <2>1, <2>3, <2>5, <1>a, <1>c
  <2>9. sem[cron_sem].val >= -1
    BY <1>c DEF SemOK
  <2>10. SemOK'
    <3>1. \A s \in Who : \A p : Waits(sem', s, p) => p = s
      BY <2>3, <2>5 DEF SemOK
    <3>2. sem'[cron_sem].val >= 0
      BY <2>7, <2>9, <1>c
    <3>3. \A s \in TProc : sem'[s].val >= -1 /\ sem'[s].val <= 0
                           /\ (sem'[s].val < 0 => pc'[s] = "delayed")
      <4>1. \A s \in TProc : s # t => sem'[s] = sem[s] /\ pc'[s] = pc[s]
        BY <2>8
      <4>2. \A s \in TProc : sem[s].val >= -1 /\ sem[s].val <= 0
                             /\ (sem[s].val < 0 => pc[s] = "delayed")
        BY <1>c DEF SemOK, Delayed
      <4> QED
        BY <2>8, <4>1, <4>2
    <3>4. \A s \in Who : sem'[s].val >= -1
      BY <3>2, <3>3, <1>c, CountedFacts, <2>5
    <3>5. ~(sem'[cron_sem].val < 0)
      BY <3>2, <1>c, <2>7
    <3> QED
      BY <2>5, <3>1, <3>3, <3>4, <3>5 DEF SemOK, Delayed
  <2>11. Told'
    <3>1. sem'[cron_sem].val >= 0
      BY <2>7, <2>9, <1>c
    <3>2. at = "look" => sem[cron_sem].val >= 0
      BY <1>c DEF SemOK
    <3> QED
      BY <2>1, <2>7, <3>1, <3>2, <1>c DEF Told
  <2>12. Timely'
    BY <2>1, <2>8, <1>a DEF Timely, Delayed, Expired
  <2> QED
    BY <2>10, <2>11, <2>12
<1>12. ASSUME NEW t \in TProc, DelayReturn(t)
       PROVE  SemOK' /\ Told' /\ Timely'
  <2>1. /\ UNCHANGED <<sem, left, at, i, clock>> /\ ~Delayed(t)
        /\ pc' = [pc EXCEPT ![t] = "user"]
    BY <1>12, <1>b DEF DelayReturn, From, cron_vars
  <2>2. pc'[t] = "user" /\ \A u \in TProc : u # t => pc'[u] = pc[u]
    BY <2>1, <1>a
  <2>3. SemOK'
    BY <2>1, <2>2 DEF SemOK, Delayed
  <2>4. Told' /\ Timely'
    BY <2>1, <2>2 DEF Told, Timely, Delayed, Expired
  <2> QED
    BY <2>3, <2>4
<1>13. ASSUME NEW t \in TProc, TerminateWake(t)
       PROVE  SemOK' /\ Told' /\ Timely'
  <2>1. /\ UNCHANGED <<left, at, i, clock>> /\ From(t, "stored", "leaving")
        /\ sem' = IF p_alive = 0 THEN V(sem, cron_sem) ELSE sem
    BY <1>13 DEF TerminateWake, cron_vars
  <2>2. CASE p_alive # 0
    BY <1>9, <2>1, <2>2 DEF Place
  <2>3. CASE p_alive = 0
    <3>1. \A u \in TProc : pc'[u] = "delayed" <=> pc[u] = "delayed"
      BY <2>1, <1>a DEF From
    <3>2. sem' = V(sem, cron_sem)
      BY <2>1, <2>3
    <3>3. /\ Counted(sem', Who, Who)
          /\ sem'[cron_sem].val = sem[cron_sem].val + 1
          /\ \A s \in Who : s # cron_sem => sem'[s] = sem[s]
          /\ \A s \in Who : \A p : Waits(sem', s, p) => Waits(sem, s, p)
      BY <3>2, <1>c, <1>d, VStep
    <3>4. sem'[cron_sem].val >= 0 /\ (at = "look" => sem[cron_sem].val >= 0)
      BY <3>3, <1>c DEF SemOK
    <3>5. SemOK'
      <4>1. \A s \in Who : sem'[s].val >= -1
        BY <3>3, <1>c DEF SemOK
      <4>2. \A s \in Who : \A p : Waits(sem', s, p) => p = s
        BY <3>3 DEF SemOK
      <4>3. \A u \in TProc : sem'[u] = sem[u]
        BY <3>3, <1>c
      <4>4. ~(sem'[cron_sem].val < 0)
        BY <3>3, <3>4, <1>c
      <4> QED
        BY <3>1, <3>3, <4>1, <4>2, <4>3, <4>4 DEF SemOK, Delayed
    <3>6. Told'
      BY <2>1, <3>3, <3>4, <1>c DEF Told
    <3>7. Timely'
      BY <2>1, <3>1, <3>3, <1>c DEF Timely, Delayed, Expired
    <3> QED
      BY <3>5, <3>6, <3>7
  <2> QED
    BY <2>2, <2>3
<1>14. CASE UNCHANGED vars
  BY <1>14, SemKept DEF vars, cron_vars
<1> QED
  BY <1>1, <1>2, <1>3, <1>4, <1>5, <1>6, <1>7, <1>8, <1>10, <1>11, <1>12, <1>13, <1>14
     DEF Next, cron, Handler

LEMMA CronNext == CronInv /\ [Next]_vars => CronInv'
<1> SUFFICES ASSUME CronInv, [Next]_vars PROVE CronInv'
  OBVIOUS
<1>1. AliveInv' /\ Flags' /\ Numbers /\ Numbers'
  BY AliveNext, FlagsNext, NumbersNext, TypeParts DEF CronInv
<1>2. SemOK' /\ Told' /\ Timely'
  BY <1>1, DelayNext DEF CronInv
<1>3. TypeOK'
  BY <1>1, <1>2 DEF TypeOK, SemOK, Counted, Who, Flags, Numbers, Place
<1> QED
  BY <1>1, <1>2, <1>3 DEF CronInv

LEMMA CronInductive == Spec => []CronInv
BY CronInit, CronNext, PTL DEF Spec

\* The variables of the T-processes and of cron keep their types: p_alive never
\* becomes negative, the registers hold values of it.
THEOREM SupportTypes == Spec => []TypeOK
<1>1. CronInv => TypeOK
  BY DEF CronInv
<1> QED
  BY <1>1, CronInductive, PTL

\* SYS13 returns only when the time is over.
THEOREM DelaysLast == Spec => []NotEarly
<1>1. CronInv => NotEarly
  BY SemFacts DEF CronInv, NotEarly, Timely
<1> QED
  BY <1>1, CronInductive, PTL

\* cron never sleeps on cron_sem while somebody delays.
THEOREM CronWatches == Spec => []CronAwake
<1>1. CronInv => CronAwake
  <2> SUFFICES ASSUME CronInv, ~Ready(sem, CRON)
               PROVE  \A t \in TProc : ~Delayed(t)
    BY DEF CronAwake
  <2>1. ~(sem[cron_sem].val >= 0) /\ sem[cron_sem].val \in Int
    BY SemFacts DEF CronInv
  <2> QED
    BY <2>1 DEF CronInv, Told
<1> QED
  BY <1>1, CronInductive, PTL
=============================================================================

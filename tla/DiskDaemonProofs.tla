------------------------- MODULE DiskDaemonProofs -------------------------
(***************************************************************************)
(* Theorems about DiskDaemon, for any number of T-processes and any set of *)
(* positions.                                                              *)
(***************************************************************************)
EXTENDS DiskDaemon, QueueLemmas, FiniteSetTheorems, TLAPS

\* The processes, and the semaphores they wait on.
Who == 0..N

\* The processes whose requests have not been worked off.
Pend == {t \in TProc : Pending(t)}

\* The daemon has taken one of them off the count of sem_disk.
Engaged == at \in {"choose", "scan", "seek", "transfer", "release", "wild"}

\* A process waits on its own semaphore only, and sem_disk counts the requests
\* the daemon has not taken up.
SemOK ==
    /\ Counted(sem, Who, Who)
    /\ \A s \in Who : sem[s].val >= -1 /\ \A p : Waits(sem, s, p) => p = s
    /\ \A t \in TProc : sem[t].val <= 0 /\ (Pending(t) => pc[t] = "back")
    /\ sem[sem_disk].val < 0 => at = "choose"
    /\ sem[sem_disk].val = Cardinality(Pend) - (IF Engaged THEN 1 ELSE 0)

\* What the daemon works on is a request that waits.
Works ==
    /\ at \in {"scan", "seek", "wild"} => asked \subseteq Pend /\ num \in Pend \cup {NOBODY}
    /\ at \in {"transfer", "release"} => num \in Pend

\* The loop of tasker_helper: num is the nearest of the requests before i.
Scanned ==
    /\ at \in {"scan", "seek"} /\ num # NOBODY => Candidate(num, dir)
    /\ at \in {"scan", "seek", "wild"} =>
          /\ \A t \in asked : t < i /\ Candidate(t, dir)
                                => num # NOBODY /\ Ahead(num, dir) <= Ahead(t, dir)
          /\ dir # dir0 => \A t \in asked : ~Candidate(t, dir0)
    /\ at \in {"seek", "wild"} => i > N /\ (num = NOBODY => dir # dir0)

\* What the disk has done for the process the daemon works for, and for those
\* it has let go.
Done ==
    /\ \A t \in TProc : pc[t] \in {"written", "back"} => ds_arr[t] \in Request
    /\ at = "transfer" => head = ds_arr[num].pos
    /\ at = "release" => d_stat = own[num] /\ (own[num] = "NORMAL" => done[num] = ds_arr[num])
    /\ \A t \in TProc : pc[t] = "back" /\ ~Pending(t) =>
          /\ own[t] = "NORMAL" => done[t] = ds_arr[t]
          /\ d_stat = own[t] \/ t \in late

DiskInv == TypeOK /\ SemOK /\ Works /\ Scanned /\ Done
----------------------------------------------------------------------------
(***************************************************************************)
(* Types.                                                                  *)
(***************************************************************************)
Fields == /\ ds_arr \in [TProc -> Request \cup {Idle}]
          /\ pc \in [TProc -> {"user", "written", "back", "gone"}]
          /\ d_stat \in Status
          /\ at \in {"loop", "choose", "scan", "seek", "transfer", "release", "wild", "gone"}
          /\ head \in Position /\ dir \in 0..1 /\ i \in 1..(N + 1) /\ num \in 0..N
          /\ done \in [TProc -> Request \cup {Idle}]
          /\ own \in [TProc -> Status]
          /\ late \subseteq TProc /\ asked \subseteq TProc /\ dir0 \in 0..1

LEMMA TypeParts ==
    ASSUME SemOK
    PROVE  TypeOK <=> Fields
BY DEF TypeOK, Fields, SemOK, Counted, Who

LEMMA WhoFacts ==
    /\ sem_disk \in Who /\ sem_disk \notin TProc /\ TProc \subseteq Who
    /\ \A s \in Who : s \in TProc \/ s = sem_disk
    /\ DAEMON = sem_disk /\ NOBODY = sem_disk
    /\ \A n \in 0..N : n # NOBODY => n \in TProc
BY DiskAssumption DEF Who, TProc, sem_disk, DAEMON, NOBODY

LEMMA SemFacts ==
    ASSUME SemOK
    PROVE  /\ \A s \in Who : sem[s].val \in Int
           /\ \A t \in TProc : sem[t].val = IF Pending(t) THEN -1 ELSE 0
           /\ \A t \in TProc : Ready(sem, t) <=> ~Pending(t)
           /\ Ready(sem, DAEMON) <=> sem[sem_disk].val >= 0
<1>1. /\ \A s \in Who : \A p : Waits(sem, s, p) => sem[s].val < 0
      /\ \A s \in Who : sem[s].val < 0 => \E p \in Who : Waits(sem, s, p)
      /\ \A p : Ready(sem, p) <=> \A s \in Who : ~Waits(sem, s, p)
      /\ \A s \in Who : sem[s].val \in Int
  BY CountedFacts DEF SemOK
<1>2. \A s \in Who : \A p : Waits(sem, s, p) => p = s
  BY DEF SemOK
<1>3. \A p \in Who : Ready(sem, p) <=> ~(sem[p].val < 0)
  BY <1>1, <1>2
<1>4. \A t \in TProc : sem[t].val = IF Pending(t) THEN -1 ELSE 0
  BY <1>1, WhoFacts DEF SemOK, Pending
<1> QED
  BY <1>1, <1>3, <1>4, WhoFacts

LEMMA PendFinite ==
    /\ IsFiniteSet(Pend) /\ Cardinality(Pend) \in Nat
    /\ (Cardinality(Pend) = 0 <=> Pend = {})
<1>1. IsFiniteSet(TProc)
  BY DiskAssumption, FS_Interval DEF TProc
<1>2. Pend \in SUBSET TProc
  BY DEF Pend
<1> QED
  BY <1>1, <1>2, FS_Subset, FS_CardinalityType, FS_EmptySet

LEMMA DiskInit == Init => DiskInv
<1> SUFFICES ASSUME Init PROVE DiskInv
  OBVIOUS
<1> USE DiskAssumption DEF Init
<1>1. sem \in [Who -> [val : Nat, q : {<<>>}]]
  BY DEF Semaphore, Who
<1>2. Counted(sem, Who, Who)
  BY <1>1, CountedInit
<1>3. \A s \in Who : sem[s].val = 0
  BY DEF Semaphore, Who
<1>4. \A s \in Who : \A p : Waits(sem, s, p) => sem[s].val < 0
  BY <1>2, CountedFacts
<1>5. \A t \in TProc : ~Pending(t)
  BY <1>3, WhoFacts DEF Pending
<1>6. Pend = {}
  BY <1>5 DEF Pend
<1>7. SemOK
  BY <1>2, <1>3, <1>4, <1>5, <1>6, WhoFacts, PendFinite DEF SemOK, Engaged
<1>8. Fields
  <2>1. Idle \in Request \cup {Idle} /\ "NORMAL" \in Status
    BY DEF Status
  <2> QED
    BY <2>1 DEF Fields, NOBODY
<1> QED
  BY <1>7, <1>8, TypeParts DEF DiskInv, Works, Scanned, Done

LEMMA FieldsNext ==
    ASSUME Fields, Works, SemOK, Done, [Next]_vars
    PROVE  Fields'
<1> USE DiskAssumption, WhoFacts
<1>0. \A t \in Pend : t \in TProc /\ pc[t] = "back" /\ ds_arr[t] \in Request
  BY DEF Pend, SemOK, Done
<1>1. ASSUME NEW t \in TProc, NEW r \in Request, Disk_Request(t, r)
      PROVE  Fields'
  BY <1>1 DEF Disk_Request, Fields, daemon, Idle, Status
<1>2. ASSUME NEW t \in TProc, Disk_Wait(t) \/ Disk_Return(t) \/ Terminate(t)
      PROVE  Fields'
  BY <1>2 DEF Disk_Wait, Disk_Return, Terminate, Fields, daemon, history
<1>3. CASE NextRequest \/ Choose \/ Release
  BY <1>3 DEF NextRequest, Choose, Release, Fields, history, NOBODY
<1>4. CASE tasker_helper
  <2>1. i' \in 1..(N + 1) /\ num' \in 0..N
    BY <1>4 DEF tasker_helper, Fields
  <2> QED
    BY <1>4, <2>1 DEF tasker_helper, Fields, history
<1>5. CASE Chosen
  BY <1>5 DEF Chosen, Fields, history
<1>6. ASSUME NEW s \in Status, Seek(s)
      PROVE  Fields'
  <2>1. CASE num = NOBODY
    BY <1>6, <2>1 DEF Seek, Fields
  <2>2. CASE num # NOBODY
    <3>1. num \in TProc
      BY <2>2 DEF Fields
    <3>2. ds_arr[num].pos \in Position
      BY <3>1 DEF Fields, Request, Idle
    <3>3. head' \in Position /\ d_stat' \in Status /\ own' \in [TProc -> Status]
          /\ late' \subseteq TProc
      BY <1>6, <2>2, <3>1, <3>2 DEF Seek, Complete, Fields
    <3> QED
      BY <1>6, <2>2, <3>3 DEF Seek, Fields
  <2> QED
    BY <2>1, <2>2
<1>7. ASSUME NEW s \in Status, Transfer(s)
      PROVE  Fields'
  <2>1. num \in TProc /\ ds_arr[num] \in Request
    BY <1>0, <1>7 DEF Transfer, Daemon, Works
  <2>2. [pos |-> head, op |-> ds_arr[num].op] \in Request
    BY <2>1 DEF Request, Fields
  <2>3. d_stat' \in Status /\ own' \in [TProc -> Status] /\ late' \subseteq TProc
    BY <1>7 DEF Transfer, Complete, Fields
  <2>4. done' \in [TProc -> Request \cup {Idle}]
    BY <1>7, <2>1, <2>2 DEF Transfer, Fields
  <2> QED
    BY <1>7, <2>3, <2>4 DEF Transfer, Fields
<1>8. CASE UNCHANGED vars
  BY <1>8 DEF vars, daemon, history, Fields
<1> QED
  BY <1>1, <1>2, <1>3, <1>4, <1>5, <1>6, <1>7, <1>8 DEF Next, diskdaemon

----------------------------------------------------------------------------
(***************************************************************************)
(* The semaphores.                                                         *)
(***************************************************************************)

\* A step that leaves the semaphores alone.
LEMMA SemKept ==
    ASSUME SemOK, sem' = sem, Engaged' = Engaged, at' = at \/ Ready(sem, DAEMON),
           \A t \in TProc : Pending(t) /\ pc[t] = "back" => pc'[t] = "back"
    PROVE  SemOK' /\ Pend' = Pend
<1>1. \A t \in TProc : Pending(t)' = Pending(t)
  BY DEF Pending
<1>2. Pend' = Pend
  BY DEF Pend, Pending
<1>3. sem[sem_disk].val \in Int /\ (sem[sem_disk].val < 0 => at' = at)
  BY SemFacts, WhoFacts
<1> QED
  BY <1>1, <1>2, <1>3 DEF SemOK

LEMMA SemNext ==
    ASSUME Fields, Works, SemOK, [Next]_vars
    PROVE  SemOK' /\ (Pend \subseteq Pend' \/ Release)
<1> USE DiskAssumption
<1>a. Counted(sem, Who, Who) /\ pc \in [TProc -> {"user", "written", "back", "gone"}]
  BY DEF SemOK, Fields
<1>b. /\ \A s \in Who : sem[s].val \in Int
      /\ \A t \in TProc : sem[t].val = IF Pending(t) THEN -1 ELSE 0
      /\ \A t \in TProc : Ready(sem, t) <=> ~Pending(t)
      /\ Ready(sem, DAEMON) <=> sem[sem_disk].val >= 0
  BY SemFacts
<1>1. ASSUME NEW t \in TProc, NEW r \in Request, Disk_Request(t, r)
      PROVE  SemOK' /\ Pend \subseteq Pend'
  <2>1. /\ sem' = sem /\ at' = at /\ pc[t] = "user" /\ pc' = [pc EXCEPT ![t] = "written"]
    BY <1>1 DEF Disk_Request, daemon
  <2>2. \A u \in TProc : Pending(u) /\ pc[u] = "back" => pc'[u] = "back"
    BY <1>a, <2>1
  <2> QED
    BY <2>1, <2>2, SemKept DEF Engaged
<1>2. ASSUME NEW t \in TProc, Disk_Return(t) \/ Terminate(t)
      PROVE  SemOK' /\ Pend \subseteq Pend'
  <2>1. /\ sem' = sem /\ at' = at /\ (pc[t] = "back" => ~Pending(t))
        /\ \E l : pc' = [pc EXCEPT ![t] = l]
    BY <1>2, <1>b DEF Disk_Return, Terminate, daemon
  <2>2. \A u \in TProc : Pending(u) /\ pc[u] = "back" => pc'[u] = "back"
    BY <1>a, <2>1
  <2> QED
    BY <2>1, <2>2, SemKept DEF Engaged
<1>3. CASE Choose \/ tasker_helper \/ Chosen \/ (\E s \in Status : Seek(s) \/ Transfer(s))
  <2>1. sem' = sem /\ pc' = pc /\ Engaged' = Engaged /\ Ready(sem, DAEMON)
    BY <1>3 DEF Choose, tasker_helper, Chosen, Seek, Transfer, Daemon, Engaged
  <2> QED
    BY <2>1, SemKept
<1>4. CASE UNCHANGED vars
  BY <1>4, SemKept DEF vars, daemon, Engaged
<1>5. ASSUME NEW t \in TProc, Disk_Wait(t)
      PROVE  SemOK' /\ Pend \subseteq Pend'
  <2>1. /\ pc[t] = "written" /\ pc' = [pc EXCEPT ![t] = "back"] /\ at' = at
        /\ sem' = V(P(sem, t, t), sem_disk)
    BY <1>5 DEF Disk_Wait, daemon
  <2>2. t \in Who /\ ~Pending(t) /\ Ready(sem, t) /\ sem[t].val = 0
    BY <2>1, <1>b, WhoFacts DEF SemOK
  <2> DEFINE m == P(sem, t, t)
  <2>3. /\ Counted(m, Who, Who)
        /\ m[t].val = -1
        /\ \A s \in Who : s # t => m[s] = sem[s]
        /\ \A s \in Who : \A p : Waits(m, s, p) => Waits(sem, s, p) \/ (s = t /\ p = t)
    BY <2>2, <1>a, PStep
  <2> HIDE DEF m
  <2>4. sem' = V(m, sem_disk)
    BY <2>1 DEF m
  <2>5. /\ Counted(sem', Who, Who)
        /\ sem'[sem_disk].val = m[sem_disk].val + 1
        /\ \A s \in Who : s # sem_disk => sem'[s] = m[s]
        /\ \A s \in Who : \A p : Waits(sem', s, p) => Waits(m, s, p)
    BY <2>3, <2>4, WhoFacts, VStep
  <2>6. sem'[sem_disk].val = sem[sem_disk].val + 1
    BY <2>3, <2>5, WhoFacts
  <2>7. /\ sem'[t].val = -1 /\ pc'[t] = "back"
        /\ \A u \in TProc : u # t => sem'[u] = sem[u] /\ pc'[u] = pc[u]
    BY <2>1, <2>3, <2>5, <1>a, WhoFacts
  <2>8. \A s \in Who : \A p : Waits(sem', s, p) => p = s
    BY <2>3, <2>5 DEF SemOK
  <2>9. Pend' = Pend \cup {t} /\ t \notin Pend
    BY <2>2, <2>7 DEF Pend, Pending
  <2>10. Cardinality(Pend') = Cardinality(Pend) + 1
    BY <2>9, PendFinite, FS_AddElement
  <2>11. sem[sem_disk].val >= -1 /\ sem[sem_disk].val \in Int
    BY <1>b, WhoFacts DEF SemOK
  <2>12. ~(sem'[sem_disk].val < 0) /\ sem'[sem_disk].val >= -1
    BY <2>6, <2>11
  <2>13. \A u \in TProc : /\ sem'[u].val >= -1 /\ sem'[u].val <= 0
                          /\ sem'[u].val = -1 => pc'[u] = "back"
    <3>1. \A u \in TProc : /\ sem[u].val >= -1 /\ sem[u].val <= 0
                           /\ sem[u].val = -1 => pc[u] = "back"
      BY WhoFacts DEF SemOK, Pending
    <3> QED
      BY <2>7, <3>1
  <2>14. \A s \in Who : sem'[s].val >= -1
    BY <2>12, <2>13, WhoFacts
  <2>15. sem'[sem_disk].val = Cardinality(Pend') - (IF Engaged' THEN 1 ELSE 0)
    BY <2>1, <2>6, <2>10, PendFinite DEF SemOK, Engaged
  <2> QED
    BY <2>5, <2>8, <2>9, <2>12, <2>13, <2>14, <2>15 DEF SemOK, Pending
<1>6. CASE NextRequest
  <2>1. sem[sem_disk].val >= 0 /\ pc' = pc /\ at = "loop"
    BY <1>6, <1>b DEF NextRequest, Daemon
  <2>2. CASE p_alive > 0
    <3>1. at' = "choose" /\ sem' = P(sem, sem_disk, DAEMON) /\ Ready(sem, DAEMON)
      BY <1>6, <2>2 DEF NextRequest, Daemon
    <3>2. /\ Counted(sem', Who, Who)
          /\ sem'[sem_disk].val = sem[sem_disk].val - 1
          /\ \A s \in Who : s # sem_disk => sem'[s] = sem[s]
          /\ \A s \in Who : \A p : Waits(sem', s, p) => Waits(sem, s, p)
                                                     \/ (s = sem_disk /\ p = DAEMON)
      BY <3>1, <1>a, WhoFacts, PStep
    <3>3. \A s \in Who : \A p : Waits(sem', s, p) => p = s
      BY <3>2, WhoFacts DEF SemOK
    <3>4. \A u \in TProc : sem'[u] = sem[u]
      BY <3>2, WhoFacts
    <3>5. Pend' = Pend
      BY <3>4 DEF Pend, Pending
    <3>6. \A s \in Who : sem'[s].val >= -1
      BY <2>1, <3>2, <1>b, WhoFacts DEF SemOK
    <3>7. ~Engaged /\ Engaged'
      BY <2>1, <3>1 DEF Engaged
    <3>8. sem'[sem_disk].val = Cardinality(Pend') - (IF Engaged' THEN 1 ELSE 0)
      BY <3>2, <3>5, <3>7, PendFinite DEF SemOK
    <3> QED
      BY <2>1, <3>1, <3>2, <3>3, <3>4, <3>5, <3>6, <3>8 DEF SemOK, Pending
  <2>3. CASE ~(p_alive > 0)
    <3>1. sem' = sem /\ Ready(sem, DAEMON) /\ Engaged' = Engaged
      BY <1>6, <2>1, <2>3 DEF NextRequest, Daemon, Engaged
    <3> QED
      BY <2>1, <3>1, SemKept
  <2> QED
    BY <2>2, <2>3
<1>7. CASE Release
  <2>1. /\ at = "release" /\ at' = "loop" /\ sem' = V(sem, num) /\ pc' = pc
        /\ num \in Pend /\ Ready(sem, DAEMON)
    BY <1>7 DEF Release, Daemon, Works
  <2>2. num \in TProc /\ num \in Who /\ sem[num].val = -1 /\ num # sem_disk
    BY <2>1, <1>b, WhoFacts DEF Pend, Pending
  <2>3. /\ Counted(sem', Who, Who)
        /\ sem'[num].val = 0
        /\ \A s \in Who : s # num => sem'[s] = sem[s]
        /\ \A s \in Who : \A p : Waits(sem', s, p) => Waits(sem, s, p)
    BY <2>1, <2>2, <1>a, VStep
  <2>4. \A s \in Who : \A p : Waits(sem', s, p) => p = s
    BY <2>3 DEF SemOK
  <2>5. Pend' = Pend \ {num}
    BY <2>2, <2>3, WhoFacts DEF Pend, Pending
  <2>6. Cardinality(Pend') = Cardinality(Pend) - 1
    BY <2>1, <2>5, PendFinite, FS_RemoveElement
  <2>7. sem'[sem_disk].val = sem[sem_disk].val /\ sem[sem_disk].val >= 0
    BY <2>1, <2>2, <2>3, <1>b, WhoFacts
  <2>8. Engaged /\ ~Engaged'
    BY <2>1 DEF Engaged
  <2>9. sem'[sem_disk].val = Cardinality(Pend') - (IF Engaged' THEN 1 ELSE 0)
    BY <2>6, <2>7, <2>8, PendFinite DEF SemOK
  <2>10. \A u \in TProc : sem'[u].val = sem[u].val \/ sem'[u].val = 0
    BY <2>3, WhoFacts
  <2>11. \A s \in Who : sem'[s].val >= -1
    BY <2>3 DEF SemOK
  <2>12. ~(sem'[sem_disk].val < 0)
    BY <2>7, <1>b, WhoFacts
  <2> QED
    BY <1>7, <2>1, <2>3, <2>4, <2>9, <2>10, <2>11, <2>12 DEF SemOK, Pending
<1> QED
  BY <1>1, <1>2, <1>3, <1>4, <1>5, <1>6, <1>7 DEF Next, diskdaemon

----------------------------------------------------------------------------
(***************************************************************************)
(* The choice of a request.                                                *)
(***************************************************************************)

\* A request that waits is not rewritten, and stays until the daemon lets its
\* process go.
LEMMA Requests ==
    ASSUME Fields, Works, SemOK, [Next]_vars
    PROVE  \A t \in Pend : ds_arr'[t] = ds_arr[t]
<1>0. \A t \in Pend : t \in TProc /\ pc[t] = "back"
  BY DEF Pend, SemOK
<1>1. ASSUME NEW t \in TProc, NEW r \in Request, Disk_Request(t, r)
      PROVE  \A u \in Pend : ds_arr'[u] = ds_arr[u]
  <2>1. ds_arr' = [ds_arr EXCEPT ![t] = r] /\ pc[t] = "user"
    BY <1>1 DEF Disk_Request
  <2> QED
    BY <1>0, <2>1 DEF Fields
<1>2. CASE diskdaemon
  BY <1>2 DEF diskdaemon, NextRequest, Choose, tasker_helper, Chosen, Release, Seek, Transfer
<1>3. ASSUME NEW t \in TProc, Disk_Wait(t) \/ Disk_Return(t) \/ Terminate(t)
      PROVE  ds_arr' = ds_arr
  BY <1>3 DEF Disk_Wait, Disk_Return, Terminate
<1>4. CASE UNCHANGED vars
  BY <1>4 DEF vars
<1> QED
  BY <1>1, <1>2, <1>3, <1>4 DEF Next

\* What a step of a T-process leaves alone.
LEMMA DaemonKept ==
    ASSUME [Next]_vars, ~diskdaemon
    PROVE  UNCHANGED <<at, head, dir, i, num, dir0, asked, d_stat>>
BY DEF Next, vars, daemon, history, Disk_Request, Disk_Wait, Disk_Return, Terminate

LEMMA WorksNext ==
    ASSUME Fields, Works, SemOK, [Next]_vars
    PROVE  Works'
<1>0. Pend \subseteq Pend' \/ Release
  BY SemNext
<1>1. CASE ~diskdaemon
  <2>1. UNCHANGED <<at, num, asked>> /\ ~Release
    BY <1>1, DaemonKept DEF diskdaemon
  <2> QED
    BY <1>0, <2>1 DEF Works
<1>2. CASE NextRequest \/ Release
  BY <1>2 DEF NextRequest, Release, Works
<1>3. CASE Choose
  <2>1. at' = "scan" /\ num' = NOBODY /\ asked' = Pend /\ sem' = sem
    BY <1>3 DEF Choose, Pend
  <2>2. Pend' = Pend
    BY <2>1 DEF Pend, Pending
  <2> QED
    BY <2>1, <2>2 DEF Works
<1>4. CASE tasker_helper
  <2>1. /\ at = "scan" /\ at' = at /\ asked' = asked /\ sem' = sem
        /\ (num' = num \/ (num' = i /\ Pending(i))) /\ i \in TProc
    BY <1>4, DiskAssumption DEF tasker_helper, Daemon, history, Fields, TProc
  <2>2. Pend' = Pend
    BY <2>1 DEF Pend, Pending
  <2> QED
    BY <2>1, <2>2 DEF Works, Pend
<1>5. CASE Chosen \/ \E s \in Status : Seek(s)
  <2>1. /\ at \in {"scan", "seek"} /\ num' = num /\ asked' = asked /\ sem' = sem
        /\ at' \in {"scan", "seek", "wild"} \/ (at' \in {"transfer", "release"} /\ num # NOBODY)
    BY <1>5 DEF Chosen, Seek, Daemon, history
  <2>2. Pend' = Pend
    BY <2>1 DEF Pend, Pending
  <2> QED
    BY <2>1, <2>2 DEF Works
<1>6. CASE \E s \in Status : Transfer(s)
  <2>1. at = "transfer" /\ at' = "release" /\ num' = num /\ sem' = sem
    BY <1>6 DEF Transfer, Daemon
  <2>2. Pend' = Pend
    BY <2>1 DEF Pend, Pending
  <2> QED
    BY <2>1, <2>2 DEF Works
<1> QED
  BY <1>1, <1>2, <1>3, <1>4, <1>5, <1>6 DEF diskdaemon

LEMMA AheadType ==
    ASSUME Fields
    PROVE  \A t \in TProc, d \in 0..1 : Ahead(t, d) \in Int
<1>1. ASSUME NEW t \in TProc
      PROVE  ds_arr[t].pos \in Nat
  <2>1. CASE ds_arr[t] \in Request
    BY <2>1, DiskAssumption DEF Request
  <2>2. CASE ds_arr[t] = Idle
    BY <2>2 DEF Idle
  <2> QED
    BY <2>1, <2>2 DEF Fields
<1>2. head \in Nat
  BY DiskAssumption DEF Fields
<1> QED
  BY <1>1, <1>2 DEF Ahead

\* While head and the requests stay, so does what lies ahead.
LEMMA AheadKept ==
    ASSUME Fields, Works, SemOK, [Next]_vars, head' = head
    PROVE  \A t \in Pend : \A d : Ahead(t, d)' = Ahead(t, d) /\ Candidate(t, d)' = Candidate(t, d)
BY Requests DEF Ahead, Candidate

LEMMA ScannedNext ==
    ASSUME Fields, Works, SemOK, Scanned, [Next]_vars
    PROVE  Scanned'
<1> USE DiskAssumption, WhoFacts
<1>0. /\ i \in 1..(N + 1) /\ num \in 0..N /\ dir \in 0..1 /\ dir0 \in 0..1
      /\ asked \subseteq TProc /\ Pend \subseteq TProc
  BY DEF Fields, Pend
<1>1. CASE ~diskdaemon
  <2>1. UNCHANGED <<at, head, dir, i, num, dir0, asked>>
    BY <1>1, DaemonKept
  <2>2. \A t \in Pend : \A d : Ahead(t, d)' = Ahead(t, d) /\ Candidate(t, d)' = Candidate(t, d)
    BY <2>1, AheadKept
  <2>3. at \in {"scan", "seek", "wild"} => asked \subseteq Pend /\ num \in Pend \cup {NOBODY}
    BY DEF Works
  <2> QED
    BY <2>1, <2>2, <2>3 DEF Scanned
<1>2. CASE NextRequest \/ Release \/ \E s \in Status : Transfer(s)
  BY <1>2 DEF NextRequest, Release, Transfer, Scanned
<1>3. CASE Choose
  <2>1. at' = "scan" /\ num' = NOBODY /\ i' = 1 /\ asked' = Pend /\ dir0' = dir /\ dir' = dir
    BY <1>3 DEF Choose, Pend
  <2>2. \A t \in asked' : ~(t < i')
    BY <2>1, <1>0 DEF TProc
  <2> QED
    BY <2>1, <2>2 DEF Scanned
<1>4. CASE tasker_helper
  <2>1. /\ at = "scan" /\ UNCHANGED <<at, asked, sem, head, dir, dir0>> /\ i' = i + 1 /\ i <= N
        /\ num' = IF /\ Pending(i) /\ Candidate(i, dir)
                     /\ num = NOBODY \/ Ahead(i, dir) < Ahead(num, dir)
                  THEN i ELSE num
    BY <1>4 DEF tasker_helper, Daemon, history
  <2>2. \A t \in Pend : \A d : Ahead(t, d)' = Ahead(t, d) /\ Candidate(t, d)' = Candidate(t, d)
    BY <2>1, AheadKept
  <2>3. asked \subseteq Pend /\ num \in Pend \cup {NOBODY} /\ i \in TProc
    BY <2>1, <1>0 DEF Works, TProc
  <2>4. \A t \in TProc : Ahead(t, dir) \in Int
    BY <1>0, AheadType
  <2>5. i # NOBODY /\ (Pending(i) <=> i \in Pend)
    BY <2>3 DEF NOBODY, TProc, Pend
  <2>6. num' \in Pend \cup {NOBODY} /\ (num' # NOBODY => Candidate(num', dir))
    BY <2>1, <2>3, <2>5 DEF Scanned
  <2>7. ASSUME NEW t \in asked, t < i + 1, Candidate(t, dir)
        PROVE  num' # NOBODY /\ Ahead(num', dir) <= Ahead(t, dir)
    <3>1. t \in TProc /\ (num # NOBODY => num \in TProc)
      BY <2>3, <1>0
    <3>2. CASE t = i
      <4>1. num' = i \/ (num' = num /\ num # NOBODY /\ ~(Ahead(i, dir) < Ahead(num, dir)))
        BY <2>1, <2>3, <2>5, <2>7, <3>2
      <4> QED
        BY <2>4, <2>5, <3>1, <3>2, <4>1
    <3>3. CASE t # i
      <4>1. t < i
        BY <2>7, <3>1, <3>3, <1>0 DEF TProc
      <4>2. num # NOBODY /\ Ahead(num, dir) <= Ahead(t, dir)
        BY <2>1, <2>7, <4>1 DEF Scanned
      <4>3. num' = num \/ (num' = i /\ Ahead(i, dir) < Ahead(num, dir))
        BY <2>1, <4>2
      <4> QED
        BY <2>4, <2>5, <3>1, <4>2, <4>3, <2>3
    <3> QED
      BY <3>2, <3>3
  <2>8. \A t \in asked' : t < i' /\ Candidate(t, dir)' =>
            num' # NOBODY /\ Ahead(num, dir)' <= Ahead(t, dir)'
    <3>1. ASSUME NEW t \in asked, t < i + 1, Candidate(t, dir)'
          PROVE  num' # NOBODY /\ Ahead(num, dir)' <= Ahead(t, dir)'
      <4>1. t \in Pend /\ Candidate(t, dir) /\ Ahead(t, dir)' = Ahead(t, dir)
        BY <2>1, <2>2, <2>3, <3>1 DEF Candidate, Ahead
      <4>2. num' # NOBODY /\ Ahead(num', dir) <= Ahead(t, dir)
        BY <2>7, <3>1, <4>1
      <4>3. num' \in Pend
        BY <2>6, <4>2
      <4>4. ds_arr'[num'] = ds_arr[num']
        BY <4>3, Requests
      <4>5. Ahead(num, dir)' = Ahead(num', dir)
        BY <2>1, <4>4 DEF Ahead
      <4> QED
        BY <4>1, <4>2, <4>5
    <3> QED
      BY <2>1, <3>1
  <2>9. num' # NOBODY => Candidate(num, dir)'
    <3> SUFFICES ASSUME num' # NOBODY PROVE Candidate(num, dir)'
      OBVIOUS
    <3>1. num' \in Pend /\ Candidate(num', dir)
      BY <2>6
    <3>2. ds_arr'[num'] = ds_arr[num']
      BY <3>1, Requests
    <3> QED
      BY <2>1, <3>1, <3>2 DEF Candidate, Ahead
  <2>10. dir' # dir0' => \A t \in asked' : ~Candidate(t, dir0)'
    BY <2>1, <2>2, <2>3 DEF Scanned, Candidate, Ahead
  <2> QED
    BY <2>1, <2>8, <2>9, <2>10 DEF Scanned
<1>5. CASE Chosen
  <2>1. /\ at = "scan" /\ i > N /\ UNCHANGED <<asked, head, dir0, num>>
    BY <1>5 DEF Chosen, Daemon, history
  <2>2. \A t \in Pend : \A d : Ahead(t, d)' = Ahead(t, d) /\ Candidate(t, d)' = Candidate(t, d)
    BY <2>1, AheadKept
  <2>3. asked \subseteq Pend /\ num \in Pend \cup {NOBODY}
    BY <2>1 DEF Works
  <2>4. \A t \in asked : t < i
    BY <2>1, <1>0 DEF TProc
  <2>5. CASE num = NOBODY /\ dir = dir0
    <3>1. at' = "scan" /\ dir' = 1 - dir /\ i' = 1 /\ num' = NOBODY
      BY <1>5, <2>1, <2>5 DEF Chosen
    <3>2. \A t \in asked : ~Candidate(t, dir0)
      BY <2>1, <2>4, <2>5 DEF Scanned
    <3>3. \A t \in asked' : ~Candidate(t, dir0)'
      BY <2>1, <2>2, <2>3, <3>2 DEF Candidate, Ahead
    <3>4. \A t \in asked' : ~(t < i')
      BY <2>1, <3>1, <1>0 DEF TProc
    <3> QED
      BY <3>1, <3>3, <3>4 DEF Scanned
  <2>6. CASE ~(num = NOBODY /\ dir = dir0)
    <3>1. at' = "seek" /\ dir' = dir /\ i' = i
      BY <1>5, <2>6 DEF Chosen
    <3> QED
      BY <2>1, <2>2, <2>3, <2>6, <3>1 DEF Scanned
  <2> QED
    BY <2>5, <2>6
<1>6. ASSUME NEW s \in Status, Seek(s)
      PROVE  Scanned'
  <2>1. CASE num = NOBODY
    <3>1. at = "seek" /\ at' = "wild" /\ UNCHANGED <<head, dir, i, num, dir0, asked>>
      BY <1>6, <2>1 DEF Seek, Daemon
    <3>2. \A t \in Pend : \A d : Ahead(t, d)' = Ahead(t, d) /\ Candidate(t, d)' = Candidate(t, d)
      BY <3>1, AheadKept
    <3>3. asked \subseteq Pend
      BY <3>1 DEF Works
    <3> QED
      BY <2>1, <3>1, <3>2, <3>3 DEF Scanned
  <2>2. CASE num # NOBODY
    <3>1. at' \in {"transfer", "release"}
      BY <1>6, <2>2 DEF Seek
    <3> QED
      BY <3>1 DEF Scanned
  <2> QED
    BY <2>1, <2>2
<1> QED
  BY <1>1, <1>2, <1>3, <1>4, <1>5, <1>6 DEF diskdaemon

----------------------------------------------------------------------------
(***************************************************************************)
(* What the disk has done.                                                 *)
(***************************************************************************)

\* A process begins to wait when it tells the daemon of its request, and the
\* daemon lets go only the process it has worked for.
LEMMA PendStep ==
    ASSUME Fields, Works, SemOK, [Next]_vars
    PROVE  \A u \in TProc : Pending(u)' <=> \/ Pending(u) /\ ~(Release /\ u = num)
                                           \/ Disk_Wait(u)
<1>a. Counted(sem, Who, Who)
  BY DEF SemOK
<1>b. /\ \A t \in TProc : Ready(sem, t) <=> ~Pending(t)
      /\ \A t \in Pend : t \in TProc /\ pc[t] = "back"
  BY SemFacts DEF SemOK, Pend
<1>1. ASSUME NEW t \in TProc, Disk_Wait(t)
      PROVE  /\ \A u \in TProc : u # t => Pending(u)' = Pending(u)
             /\ Pending(t)'
  <2>1. pc[t] = "written" /\ sem' = V(P(sem, t, t), sem_disk)
    BY <1>1 DEF Disk_Wait
  <2>2. t \in Who /\ Ready(sem, t) /\ sem[t].val = 0
    BY <2>1, <1>b, WhoFacts, SemFacts DEF SemOK
  <2> DEFINE m == P(sem, t, t)
  <2>3. Counted(m, Who, Who) /\ m[t].val = -1 /\ \A s \in Who : s # t => m[s] = sem[s]
    BY <2>2, <1>a, PStep
  <2> HIDE DEF m
  <2>4. sem' = V(m, sem_disk)
    BY <2>1 DEF m
  <2>5. \A s \in Who : s # sem_disk => sem'[s] = m[s]
    BY <2>3, <2>4, WhoFacts, VStep
  <2> QED
    BY <2>3, <2>5, WhoFacts DEF Pending
<1>2. CASE Release
  <2>1. sem' = V(sem, num) /\ num \in Pend /\ pc' = pc
    BY <1>2 DEF Release, Daemon, Works
  <2>2. num \in TProc /\ num \in Who /\ sem[num].val = -1
    BY <2>1, WhoFacts DEF Pend, Pending
  <2>3. sem'[num].val = 0 /\ \A s \in Who : s # num => sem'[s] = sem[s]
    BY <2>1, <2>2, <1>a, VStep
  <2>4. \A u \in TProc : Pending(u)' <=> Pending(u) /\ u # num
    BY <2>2, <2>3, WhoFacts DEF Pending
  <2>5. \A u \in TProc : ~Disk_Wait(u)
    BY <1>2 DEF Release, Daemon, Disk_Wait, daemon
  <2> QED
    BY <1>2, <2>4, <2>5
<1>3. CASE NextRequest
  <2>1. sem' = sem \/ (sem' = P(sem, sem_disk, DAEMON) /\ Ready(sem, DAEMON))
    BY <1>3 DEF NextRequest, Daemon
  <2>2. \A s \in Who : s # sem_disk => sem'[s] = sem[s]
    BY <2>1, <1>a, WhoFacts, PStep
  <2>3. ~Release /\ \A u \in TProc : ~Disk_Wait(u)
    BY <1>3 DEF NextRequest, Daemon, Disk_Wait, Release, daemon
  <2> QED
    BY <2>2, <2>3, WhoFacts DEF Pending
<1>4. CASE /\ ~Release /\ ~NextRequest /\ \A u \in TProc : ~Disk_Wait(u)
  <2>1. sem' = sem
    BY <1>4 DEF Next, diskdaemon, Choose, tasker_helper, Chosen, Seek, Transfer,
                Disk_Request, Disk_Return, Terminate, vars
  <2> QED
    BY <1>4, <2>1 DEF Pending
<1>5. ASSUME NEW t \in TProc, Disk_Wait(t)
      PROVE  ~Release /\ \A u \in TProc : Disk_Wait(u) => u = t
  BY <1>5 DEF Disk_Wait, Release, Daemon, daemon, Fields
<1> QED
  BY <1>1, <1>2, <1>3, <1>4, <1>5

LEMMA DoneNext ==
    ASSUME Fields, Works, SemOK, Done, [Next]_vars
    PROVE  Done'
<1> USE WhoFacts
<1>a. \A u \in TProc : Pending(u)' <=> \/ Pending(u) /\ ~(Release /\ u = num)
                                       \/ Disk_Wait(u)
  BY PendStep
<1>b. /\ \A t \in TProc : Ready(sem, t) <=> ~Pending(t)
      /\ \A t \in Pend : t \in TProc /\ pc[t] = "back" /\ Pending(t) /\ ds_arr[t] \in Request
  BY SemFacts DEF SemOK, Pend, Done
<1>c. pc \in [TProc -> {"user", "written", "back", "gone"}] /\ num \in 0..N
      /\ own \in [TProc -> Status] /\ done \in [TProc -> Request \cup {Idle}]
      /\ ds_arr \in [TProc -> Request \cup {Idle}]
  BY DEF Fields
<1>1. ASSUME NEW t \in TProc, NEW r \in Request, Disk_Request(t, r)
      PROVE  Done'
  <2>1. /\ pc[t] = "user" /\ pc' = [pc EXCEPT ![t] = "written"]
        /\ ds_arr' = [ds_arr EXCEPT ![t] = r] /\ done' = [done EXCEPT ![t] = Idle]
        /\ own' = [own EXCEPT ![t] = "NORMAL"]
        /\ UNCHANGED <<at, num, head, sem, d_stat, late>>
    BY <1>1 DEF Disk_Request, daemon
  <2>2. at \in {"transfer", "release"} => num \in TProc /\ num # t
    BY <2>1, <1>b DEF Works
  <2>3. \A u \in TProc : Pending(u)' = Pending(u)
    BY <2>1 DEF Pending
  <2>4. \A u \in TProc : u # t => /\ pc'[u] = pc[u] /\ ds_arr'[u] = ds_arr[u]
                                  /\ done'[u] = done[u] /\ own'[u] = own[u]
    BY <2>1, <1>c
  <2>5. pc'[t] = "written" /\ ds_arr'[t] = r
    BY <2>1, <1>c
  <2> QED
    BY <2>1, <2>2, <2>3, <2>4, <2>5 DEF Done
<1>2. ASSUME NEW t \in TProc, Disk_Wait(t)
      PROVE  Done'
  <2>1. /\ pc[t] = "written" /\ pc' = [pc EXCEPT ![t] = "back"]
        /\ UNCHANGED <<at, num, head, ds_arr, done, own, d_stat, late>>
    BY <1>2 DEF Disk_Wait, daemon, history
  <2>2. Pending(t)' /\ \A u \in TProc : Pending(u) /\ ~Release => Pending(u)'
    BY <1>2, <1>a
  <2>3. ~Release
    BY <1>2 DEF Disk_Wait, Release, Daemon, daemon
  <2>4. pc'[t] = "back" /\ \A u \in TProc : u # t => pc'[u] = pc[u]
    BY <2>1, <1>c
  <2> QED
    BY <2>1, <2>2, <2>3, <2>4 DEF Done
<1>3. ASSUME NEW t \in TProc, Disk_Return(t) \/ Terminate(t)
      PROVE  Done'
  <2>1. /\ UNCHANGED <<at, num, head, ds_arr, sem, done, own, d_stat>>
        /\ \A u \in TProc : u # t => pc'[u] = pc[u] /\ (u \in late => u \in late')
        /\ pc'[t] \in {"user", "gone"}
    BY <1>3, <1>c DEF Disk_Return, Terminate, daemon, history
  <2>3. \A u \in TProc : Pending(u)' = Pending(u)
    BY <2>1 DEF Pending
  <2> QED
    BY <2>1, <2>3 DEF Done
<1>4. CASE NextRequest \/ Choose \/ tasker_helper \/ Chosen \/ UNCHANGED vars
  <2>1. /\ UNCHANGED <<pc, head, ds_arr, done, own, d_stat, late>>
        /\ at' \in {"transfer", "release"} => UNCHANGED <<at, num>>
        /\ ~Release \/ UNCHANGED sem
    BY <1>4 DEF NextRequest, Choose, tasker_helper, Chosen, vars, daemon, history, Release, Daemon
  <2>2. \A u \in TProc : Pending(u) => Pending(u)'
    BY <2>1, <1>a DEF Pending
  <2> QED
    BY <2>1, <2>2 DEF Done
<1>5. ASSUME NEW s \in Status, Seek(s)
      PROVE  Done'
  <2>1. at = "seek" /\ UNCHANGED <<pc, ds_arr, sem, num, done>>
    BY <1>5 DEF Seek, Daemon
  <2>2. \A u \in TProc : Pending(u)' = Pending(u)
    BY <2>1 DEF Pending
  <2>3. CASE num = NOBODY
    <3>1. at' = "wild" /\ UNCHANGED <<d_stat, own, late>>
      BY <1>5, <2>3 DEF Seek
    <3> QED
      BY <2>1, <2>2, <3>1 DEF Done
  <2>4. CASE num # NOBODY
    <3>1. /\ head' = ds_arr[num].pos /\ d_stat' = s /\ own' = [own EXCEPT ![num] = s]
          /\ late' = {t \in TProc : Released(t)}
          /\ at' = IF s = "NORMAL" THEN "transfer" ELSE "release"
      BY <1>5, <2>4 DEF Seek, Complete
    <3>2. num \in Pend
      BY <2>1, <2>4 DEF Works
    <3>3. num \in TProc /\ Pending(num) /\ own'[num] = s
      BY <3>1, <3>2, <1>b, <1>c
    <3>4. \A u \in TProc : u # num => own'[u] = own[u]
      BY <3>1, <1>c
    <3>5. \A u \in TProc : pc[u] = "back" /\ ~Pending(u) => u \in late'
      BY <3>1, <1>b DEF Released
    <3> QED
      BY <2>1, <2>2, <3>1, <3>3, <3>4, <3>5 DEF Done
  <2> QED
    BY <2>3, <2>4
<1>6. ASSUME NEW s \in Status, Transfer(s)
      PROVE  Done'
  <2>1. /\ at = "transfer" /\ at' = "release" /\ UNCHANGED <<pc, ds_arr, sem, num, head>>
        /\ d_stat' = s /\ own' = [own EXCEPT ![num] = s]
        /\ late' = {t \in TProc : Released(t)}
        /\ done' = [done EXCEPT ![num] = [pos |-> head, op |-> ds_arr[num].op]]
    BY <1>6 DEF Transfer, Daemon, Complete
  <2>2. \A u \in TProc : Pending(u)' = Pending(u)
    BY <2>1 DEF Pending
  <2>3. num \in Pend
    BY <2>1 DEF Works
  <2>4. num \in TProc /\ Pending(num) /\ own'[num] = s
        /\ done'[num] = [pos |-> head, op |-> ds_arr[num].op]
    BY <2>1, <2>3, <1>b, <1>c
  <2>5. done'[num] = ds_arr[num]
    <3>1. head = ds_arr[num].pos /\ ds_arr[num] \in Request
      BY <2>1, <2>3, <1>b DEF Done
    <3>2. ds_arr[num] = [pos |-> ds_arr[num].pos, op |-> ds_arr[num].op]
      BY <3>1 DEF Request
    <3> QED
      BY <2>4, <3>1, <3>2
  <2>6. \A u \in TProc : u # num => own'[u] = own[u] /\ done'[u] = done[u]
    BY <2>1, <1>c
  <2>7. \A u \in TProc : pc[u] = "back" /\ ~Pending(u) => u \in late'
    BY <2>1, <1>b DEF Released
  <2> QED
    BY <2>1, <2>2, <2>4, <2>5, <2>6, <2>7 DEF Done
<1>7. CASE Release
  <2>1. at = "release" /\ at' = "loop" /\ UNCHANGED <<pc, ds_arr, num, done, own, d_stat, late>>
    BY <1>7 DEF Release, Daemon, history
  <2>2. \A u \in TProc : Pending(u) /\ u # num => Pending(u)'
    BY <1>a
  <2> QED
    BY <2>1, <2>2 DEF Done
<1> QED
  BY <1>1, <1>2, <1>3, <1>4, <1>5, <1>6, <1>7 DEF Next, diskdaemon

LEMMA DiskInductive == DiskInv /\ [Next]_vars => DiskInv'
<1> SUFFICES ASSUME DiskInv, [Next]_vars PROVE DiskInv'
  OBVIOUS
<1>1. Fields /\ SemOK /\ Works /\ Scanned /\ Done
  BY TypeParts DEF DiskInv
<1>2. SemOK' /\ Fields' /\ Works' /\ Scanned' /\ Done'
  BY <1>1, SemNext, FieldsNext, WorksNext, ScannedNext, DoneNext
<1>3. TypeOK' <=> Fields'
  BY <1>2 DEF TypeOK, Fields, SemOK, Counted, Who
<1> QED
  BY <1>2, <1>3 DEF DiskInv

----------------------------------------------------------------------------
(***************************************************************************)
(* The theorems.                                                           *)
(***************************************************************************)
\* The invariant holds throughout.
LEMMA DiskInvariant == Spec => []DiskInv
<1>1. Init => DiskInv
  BY DiskInit
<1>2. DiskInv /\ [Next]_vars => DiskInv'
  BY DiskInductive
<1> QED
  BY <1>1, <1>2, PTL DEF Spec

\* The requests, the registers and the daemon's variables keep their types:
\* the loop of tasker_helper stays in ds_arr, and dir is 0 or 1.
THEOREM DiskTypes == Spec => []TypeOK
<1>1. DiskInv => TypeOK
  BY DEF DiskInv
<1> QED
  BY <1>1, DiskInvariant, PTL

\* SYS14 and SYS15 return to a T-process only when the disk has done what it
\* asked for, in its buffer, or has ended with another status.
THEOREM RequestsServed == Spec => []Served
<1>1. DiskInv => Served
  BY SemFacts DEF DiskInv, Done, Served, Released
<1> QED
  BY <1>1, DiskInvariant, PTL

\* The status a T-process reads from d_stat is the one its operation ended
\* with, as long as the daemon has not used the disk again.
THEOREM OwnStatus == Spec => []StatusIsOwn
<1>1. DiskInv => StatusIsOwn
  BY SemFacts DEF DiskInv, Done, StatusIsOwn, Released
<1> QED
  BY <1>1, DiskInvariant, PTL

\* The daemon never looks for a request when there is none, and fails to
\* choose only if each lies Limit or more from the head.
THEOREM DaemonFinds == Spec => []AlwaysFinds
<1>1. DiskInv => AlwaysFinds
  <2> SUFFICES ASSUME DiskInv PROVE AlwaysFinds
    OBVIOUS
  <2>0. SemOK /\ Scanned /\ Fields
    BY TypeParts DEF DiskInv
  <2>1. ASSUME at \in {"choose", "scan", "seek"}, Ready(sem, DAEMON)
        PROVE  \E t \in TProc : Pending(t)
    <3>1. sem[sem_disk].val >= 0 /\ sem[sem_disk].val = Cardinality(Pend) - 1
      BY <2>0, <2>1, SemFacts DEF SemOK, Engaged
    <3>2. Pend # {}
      BY <3>1, PendFinite
    <3> QED
      BY <3>2 DEF Pend
  <2>2. ASSUME at \in {"seek", "wild"}, num = NOBODY, NEW t \in asked
        PROVE  ~Candidate(t, 0) /\ ~Candidate(t, 1)
    <3>1. i > N /\ dir # dir0 /\ dir \in 0..1 /\ dir0 \in 0..1 /\ t \in 1..N
      BY <2>0, <2>2 DEF Scanned, Fields, TProc
    <3>2. t < i
      BY <2>0, <3>1, DiskAssumption DEF Fields
    <3>3. ~Candidate(t, dir) /\ ~Candidate(t, dir0)
      BY <2>0, <2>2, <3>1, <3>2 DEF Scanned
    <3>4. (dir = 0 /\ dir0 = 1) \/ (dir = 1 /\ dir0 = 0)
      BY <3>1
    <3> QED
      BY <3>3, <3>4
  <2> QED
    BY <2>1, <2>2 DEF AlwaysFinds
<1> QED
  BY <1>1, DiskInvariant, PTL

\* Of the requests it saw when it began, the daemon takes the nearest in its
\* direction, and it turns only when there is none.
THEOREM ElevatorSweep == Spec => []Elevator
<1>1. DiskInv => Elevator
  <2> SUFFICES ASSUME DiskInv, at = "seek", num # NOBODY PROVE Elevator
    BY DEF Elevator
  <2>0. Scanned /\ Fields
    BY TypeParts DEF DiskInv
  <2>1. \A t \in asked : t < i
    BY <2>0, DiskAssumption DEF Scanned, Fields, TProc
  <2> QED
    BY <2>0, <2>1 DEF Scanned, Elevator
<1> QED
  BY <1>1, DiskInvariant, PTL
=============================================================================

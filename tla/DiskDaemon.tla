----------------------------- MODULE DiskDaemon -----------------------------
(***************************************************************************)
(* SYS14, SYS15 and the disk daemon (support/part2/slsyscall2.c).  A       *)
(* T-process writes its request into ds_arr, waits on the entry's          *)
(* semaphore and raises sem_disk in one vector.  The daemon looks for the  *)
(* nearest request in the direction of its sweep, works it off, and lets   *)
(* the process go, which then reads d_stat.                                *)
(*                                                                         *)
(* tasker_helper compares 8 * track + sector only; a request's position is *)
(* that number.                                                            *)
(***************************************************************************)
EXTENDS Semaphores

CONSTANTS N,          \* the T-processes are 1..N
          Position,   \* the positions they ask for
          Limit       \* 10000 in tasker_helper

ASSUME DiskAssumption == N \in Nat \ {0} /\ Limit \in Nat \ {0}
                         /\ Position \subseteq Nat /\ 0 \in Position

TProc == 1..N
NOBODY == 0           \* -1, as a result of tasker_helper
DAEMON == 0           \* the daemon among the processes
sem_disk == 0
Request == [pos : Position, op : {"IOREAD", "IOWRITE"}]
Status == {"NORMAL", "HARDFAILURE"}

VARIABLES ds_arr,     \* the request of every T-process
          sem,        \* sem_disk, and ds_arr[t].sem_value for t
          pc,         \* where a T-process is
          d_stat,     \* the disk's status register
          at,         \* where the daemon is
          head, dir,  \* its variables track and sector, dir
          i, num,     \* the loop of tasker_helper: next entry, and rv
          dir0        \* dir in the first of its two calls

\* History: what the disk did in the buffer of a process since its request;
\* the status its request ended with; the processes let go that have not read
\* d_stat before the disk worked again; the processes that waited when the
\* daemon began to choose.
VARIABLES done, own, late, asked

daemon == <<at, head, dir, i, num, dir0>>
history == <<done, own, late, asked>>
vars == <<ds_arr, sem, pc, d_stat, daemon, history>>

Idle == [pos |-> 0, op |-> "none"]

Init == /\ ds_arr = [t \in TProc |-> Idle]
        /\ sem = [s \in 0..N |-> Semaphore(0)]
        /\ pc = [t \in TProc |-> "user"]
        /\ d_stat = "NORMAL"
        /\ at = "loop" /\ head = 0 /\ dir = 0 /\ dir0 = 0 /\ i = 1 /\ num = NOBODY
        /\ done = ds_arr
        /\ own = [t \in TProc |-> "NORMAL"]
        /\ late = {} /\ asked = {}

----------------------------------------------------------------------------
\* A T-process.

\* The request is written before anybody is told of it.
Disk_Request(t, r) ==
    /\ pc[t] = "user"
    /\ ds_arr' = [ds_arr EXCEPT ![t] = r]
    /\ pc' = [pc EXCEPT ![t] = "written"]
    /\ done' = [done EXCEPT ![t] = Idle]
    /\ own' = [own EXCEPT ![t] = "NORMAL"]
    /\ UNCHANGED <<sem, d_stat, daemon, late, asked>>

\* the daemon is not told
Disk_Wait_Silent(t) ==
    /\ pc[t] = "written"
    /\ sem' = P(sem, t, t)
    /\ pc' = [pc EXCEPT ![t] = "back"]
    /\ UNCHANGED <<ds_arr, d_stat, daemon, history>>

Disk_Wait(t) ==
    /\ pc[t] = "written"
    /\ sem' = V(P(sem, t, t), sem_disk)
    /\ pc' = [pc EXCEPT ![t] = "back"]
    /\ UNCHANGED <<ds_arr, d_stat, daemon, history>>

\* The status register is read and the handler returns.
Disk_Return(t) ==
    /\ pc[t] = "back"
    /\ Ready(sem, t)
    /\ pc' = [pc EXCEPT ![t] = "user"]
    /\ late' = late \ {t}
    /\ UNCHANGED <<ds_arr, sem, d_stat, daemon, done, own, asked>>

\* A buffer below segment 1, or another reason to end.
Terminate(t) ==
    /\ pc[t] = "user"
    /\ pc' = [pc EXCEPT ![t] = "gone"]
    /\ UNCHANGED <<ds_arr, sem, d_stat, daemon, history>>

p_alive == Cardinality({t \in TProc : pc[t] # "gone"})

Pending(t) == sem[t].val = -1
Released(t) == pc[t] = "back" /\ Ready(sem, t)

----------------------------------------------------------------------------
\* The daemon.

\* How far ahead the request of t lies in direction d (value in tasker_helper).
Ahead(t, d) == IF d = 0 THEN ds_arr[t].pos - head ELSE head - ds_arr[t].pos
Candidate(t, d) == Ahead(t, d) \in 0..(Limit - 1)

Daemon(l) == at = l /\ Ready(sem, DAEMON)

NextRequest ==
    /\ Daemon("loop")
    /\ IF p_alive > 0
       THEN sem' = P(sem, sem_disk, DAEMON) /\ at' = "choose"
       ELSE UNCHANGED sem /\ at' = "gone"
    /\ UNCHANGED <<ds_arr, pc, d_stat, head, dir, i, num, dir0, history>>

Choose ==
    /\ Daemon("choose")
    /\ at' = "scan" /\ i' = 1 /\ num' = NOBODY
    /\ asked' = {t \in TProc : Pending(t)} /\ dir0' = dir
    /\ UNCHANGED <<ds_arr, sem, pc, d_stat, head, dir, done, own, late>>

\* one process further; requests at the head's own position do not count
tasker_helper_Beyond ==
    /\ Daemon("scan")
    /\ i <= N
    /\ num' = IF /\ Pending(i) /\ Ahead(i, dir) \in 1..(Limit - 1)
                 /\ num = NOBODY \/ Ahead(i, dir) < Ahead(num, dir)
              THEN i ELSE num
    /\ i' = i + 1
    /\ UNCHANGED <<ds_arr, sem, pc, d_stat, at, head, dir, dir0, history>>

\* the last request ahead is chosen
tasker_helper_Last ==
    /\ Daemon("scan")
    /\ i <= N
    /\ num' = IF Pending(i) /\ Candidate(i, dir) THEN i ELSE num
    /\ i' = i + 1
    /\ UNCHANGED <<ds_arr, sem, pc, d_stat, at, head, dir, dir0, history>>

\* One entry of the loop in tasker_helper; min is the distance of rv.
tasker_helper ==
    /\ Daemon("scan")
    /\ i <= N
    /\ num' = IF /\ Pending(i) /\ Candidate(i, dir)
                 /\ num = NOBODY \/ Ahead(i, dir) < Ahead(num, dir)
              THEN i ELSE num
    /\ i' = i + 1
    /\ UNCHANGED <<ds_arr, sem, pc, d_stat, at, head, dir, dir0, history>>

\* dir is counted on
Chosen_Counts ==
    /\ Daemon("scan")
    /\ i > N
    /\ IF num = NOBODY /\ dir = dir0
       THEN dir' = dir + 1 /\ i' = 1 /\ UNCHANGED at
       ELSE at' = "seek" /\ UNCHANGED <<dir, i>>
    /\ UNCHANGED <<ds_arr, sem, pc, d_stat, head, num, dir0, history>>

\* Nothing ahead the first time: the sweep turns and the loop runs again.
Chosen ==
    /\ Daemon("scan")
    /\ i > N
    /\ IF num = NOBODY /\ dir = dir0
       THEN dir' = 1 - dir /\ i' = 1 /\ UNCHANGED at
       ELSE at' = "seek" /\ UNCHANGED <<dir, i>>
    /\ UNCHANGED <<ds_arr, sem, pc, d_stat, head, num, dir0, history>>

\* The disk has ended an operation for num with status s.
Complete(s) ==
    /\ d_stat' = s
    /\ own' = [own EXCEPT ![num] = s]
    /\ late' = {t \in TProc : Released(t)}

\* the process is let go without a transfer
Seek_Only(s) ==
    /\ Daemon("seek")
    /\ num # NOBODY
    /\ head' = ds_arr[num].pos
    /\ Complete(s)
    /\ sem' = V(sem, num)
    /\ at' = "loop"
    /\ UNCHANGED <<ds_arr, pc, dir, i, num, done, asked, dir0>>

\* With num = -1 the daemon goes on with whatever lies before ds_arr.
Seek(s) ==
    /\ Daemon("seek")
    /\ IF num = NOBODY
       THEN at' = "wild" /\ UNCHANGED <<head, d_stat, own, late>>
       ELSE /\ head' = ds_arr[num].pos
            /\ Complete(s)
            /\ at' = IF s = "NORMAL" THEN "transfer" ELSE "release"
    /\ UNCHANGED <<ds_arr, sem, pc, dir, i, num, done, asked, dir0>>

\* the process is let go while the disk works
Transfer_NoWait(s) ==
    /\ Daemon("transfer")
    /\ own' = [own EXCEPT ![num] = s]
    /\ done' = [done EXCEPT ![num] = [pos |-> head, op |-> ds_arr[num].op]]
    /\ sem' = V(sem, num)
    /\ at' = "loop"
    /\ UNCHANGED <<ds_arr, pc, d_stat, head, dir, i, num, late, asked, dir0>>

Transfer(s) ==
    /\ Daemon("transfer")
    /\ Complete(s)
    /\ done' = [done EXCEPT ![num] = [pos |-> head, op |-> ds_arr[num].op]]
    /\ at' = "release"
    /\ UNCHANGED <<ds_arr, sem, pc, head, dir, i, num, asked, dir0>>

Release ==
    /\ Daemon("release")
    /\ sem' = V(sem, num)
    /\ at' = "loop"
    /\ UNCHANGED <<ds_arr, pc, d_stat, head, dir, i, num, dir0, history>>

diskdaemon == \/ NextRequest \/ Choose \/ tasker_helper \/ Chosen \/ Release
              \/ \E s \in Status : Seek(s) \/ Transfer(s)

Next == \/ diskdaemon
        \/ \E t \in TProc : \/ \E r \in Request : Disk_Request(t, r)
                            \/ Disk_Wait(t) \/ Disk_Return(t) \/ Terminate(t)

Spec == Init /\ [][Next]_vars

\* The nucleus runs every ready process and the disk ends what it was asked to
\* do; nothing makes a T-process ask.
FairSpec == /\ Spec /\ WF_vars(diskdaemon)
            /\ \A t \in TProc : WF_vars(Disk_Wait(t) \/ Disk_Return(t))

----------------------------------------------------------------------------
\* The variables have the types of the declarations above.
TypeOK == /\ ds_arr \in [TProc -> Request \cup {Idle}]
          /\ sem \in [0..N -> [val : Int, q : Seq(0..N)]]
          /\ pc \in [TProc -> {"user", "written", "back", "gone"}]
          /\ d_stat \in Status
          /\ at \in {"loop", "choose", "scan", "seek", "transfer", "release", "wild", "gone"}
          /\ head \in Position /\ dir \in 0..1 /\ i \in 1..(N + 1) /\ num \in 0..N
          /\ done \in [TProc -> Request \cup {Idle}]
          /\ own \in [TProc -> Status]
          /\ late \subseteq TProc /\ asked \subseteq TProc /\ dir0 \in 0..1

\* A T-process goes on only when the disk has done what it asked for, in its
\* own buffer, or has refused to.
Served == \A t \in TProc : Released(t) /\ own[t] = "NORMAL" => done[t] = ds_arr[t]

\* "The negative of the Status register is returned in D2 ... if the operation
\* does not complete successfully": what a process reads from d_stat
\* is the status of its own operation, unless the daemon has used the disk for
\* another one between letting the process go and its reading.
StatusIsOwn == \A t \in TProc : Released(t) => d_stat = own[t] \/ t \in late

\* "The negative of the Status register is returned in D2 ... if the operation
\* does not complete successfully": whenever SYS14 or SYS15 returns, d_stat is
\* the status of the caller's own operation.
ReturnsOwnStatus ==
    [][\A t \in TProc : pc[t] = "back" /\ pc'[t] = "user" => d_stat = own[t]]_vars

\* sem_disk counts the requests nobody has taken up, so the daemon that has
\* passed it finds one, on this side of the head or on the other; only one
\* that is Limit or more away is not seen, and then the daemon has none.
AlwaysFinds ==
    /\ at \in {"choose", "scan", "seek"} /\ Ready(sem, DAEMON)
           => \E t \in TProc : Pending(t)
    /\ at \in {"seek", "wild"} /\ num = NOBODY
           => \A t \in asked : ~Candidate(t, 0) /\ ~Candidate(t, 1)

\* The sweep is an elevator's: of the requests that were there when the daemon
\* began to choose it takes the nearest in its direction, and it turns only
\* when there is none.
Elevator ==
    at = "seek" /\ num # NOBODY =>
        /\ Candidate(num, dir)
        /\ \A t \in asked : Candidate(t, dir) => Ahead(num, dir) <= Ahead(t, dir)
        /\ dir # dir0 => \A t \in asked : ~Candidate(t, dir0)

\* While a process waits for the disk, processes are let go (though not
\* necessarily that one: requests at the head's position come first).
DiskGoesOn == \A t \in TProc : Pending(t) ~> (at \in {"release", "wild"})
=============================================================================

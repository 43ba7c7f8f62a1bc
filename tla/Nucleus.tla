------------------------------ MODULE Nucleus ------------------------------
(***************************************************************************)
(* The nucleus of the HOCA operating system: the system calls SYS1-SYS8    *)
(* and the trap handlers (nucleus/traps), the interrupt handlers, the      *)
(* scheduler and the deadlock detector (nucleus/interrupts).               *)
(*                                                                         *)
(* Every handler runs in supervisor mode with the interrupt mask at 7, so  *)
(* each one is a single action.  The running process is the head of the    *)
(* running queue; what it does between two handlers is not modelled, it    *)
(* may make any call at any time.                                          *)
(*                                                                         *)
(* A queue of proc_t is the sequence of its members, head first, and the   *)
(* active semaphore list is the function from semaphores to such queues.   *)
(* Module ProcQueues models the links those queues are made of.            *)
(*                                                                         *)
(* A definition whose name ends in an underscore and a word, and which     *)
(* comes right before the one it is named after, is a faulty variant of    *)
(* it: the code with a plausible mistake.  Nothing uses it but the runs    *)
(* that show that a property notices the mistake.                          *)
(***************************************************************************)
EXTENDS Integers, QueueOps

CONSTANTS Proc,        \* the entries of proc_table
          NIL,         \* ENULL
          UserSem,     \* the semaphores of the processes' own memory
          Dev,         \* the devices; d also names its semaphore dev_sem[d]
          Clock,       \* clock_lock, the semaphore of the pseudo-clock
          Vectors,     \* the vpop vectors the processes pass to SYS3
          TrapTypes,   \* PROGTRAP, MMTRAP and SYSTRAP
          SEMD,        \* the number of semd_table entries
          Quantum,     \* what intschedule loads into the interval timer
          PClock,      \* clock_interrupt_time, in quanta
          MaxSem,      \* bound: no V raises a semaphore above it, and no
                       \* operation starts on a device whose value exceeds it
          OrphanIO     \* may a process be killed while a device works for it?

Sem == UserSem \cup Dev \cup {Clock}
LOCK == -1
UNLOCK == 1
Off == -1

ASSUME ProcAssumption == /\ IsFiniteSet(Proc)
                         /\ NIL \notin Proc \cup Dev

ASSUME SemAssumption == /\ UserSem \cap Dev = {}
                        /\ Clock \notin UserSem \cup Dev

ASSUME VectorAssumption ==
    Vectors \subseteq Seq([op : {LOCK, UNLOCK}, sem : UserSem])

\* semd_table has MAXPROC entries, as many as proc_table
ASSUME BoundAssumption == /\ SEMD \in Nat /\ SEMD >= Cardinality(Proc)
                          /\ Quantum \in Nat \ {0}
                          /\ PClock \in Nat \ {0}
                          /\ MaxSem \in Nat
                          /\ OrphanIO \in BOOLEAN

VARIABLES free,          \* the entries on the free list
          rq,            \* running_queue
          sem,           \* the value of every semaphore
          blk,           \* the queue of every semaphore on the ASL
          parent, child, brother,   \* the process tree, as proc_t links it
          vec,           \* the trap types whose state vector is not ENULL
          timer,         \* the interval timer, Off once it has fired
          clock_count,   \* in quanta
          save_arr,      \* the completion saved for an early interrupt
          halt           \* "no", or how HALT was reached

\* The devices and their drivers, which are outside the nucleus.  A
\* completion is represented by the process whose operation completed.
VARIABLES io,            \* io[d]: the process device d works for, or NIL
          want           \* want[p]: the device whose completion p has not yet
                         \* received from SYS8, or NIL

\* History: the process that created p, while both exist.
VARIABLE creator

tree == <<parent, child, brother, creator>>
devices == <<save_arr, io, want>>
vars == <<free, rq, sem, blk, parent, child, brother, vec, timer, clock_count,
          save_arr, halt, io, want, creator>>

----------------------------------------------------------------------------
(***************************************************************************)
(* What procq.c and asl.c provide.                                         *)
(***************************************************************************)

\* The semaphores with a descriptor on the ASL: those whose queue is not empty.
Active(b) == {s \in Sem : b[s] # <<>>}

headASL(b) == Active(b) # {}

\* No descriptor left for a semaphore that has none: TRUE is returned and p is
\* not queued.  Every caller ignores that.
insertBlocked(b, s, p) ==
    IF b[s] = <<>> /\ Cardinality(Active(b)) >= SEMD
    THEN b
    ELSE [b EXCEPT ![s] = Append(@, p)]

removeBlocked(b, s) == [b EXCEPT ![s] = Tail(@)]

\* p->qcount == 0
InNoQueue(r, b, p) == p \notin ToSet(r) /\ \A s \in Sem : p \notin ToSet(b[s])

\* qcount is looked at before removeBlocked has decremented it
Wake_StaleCount(r, b, s) ==
    IF b[s] = <<>> THEN [rq |-> r, blk |-> b]
    ELSE [rq |-> IF InNoQueue(r, b, Head(b[s])) THEN Append(r, Head(b[s])) ELSE r,
          blk |-> removeBlocked(b, s)]

\* qcount is not looked at
Wake_AnyCount(r, b, s) ==
    IF b[s] = <<>> THEN [rq |-> r, blk |-> b]
    ELSE [rq |-> Append(r, Head(b[s])), blk |-> removeBlocked(b, s)]

\* The second half of a V on s: the longest waiting process leaves the queue
\* of s, and becomes ready if it waits for no other semaphore.
Wake(r, b, s) ==
    IF b[s] = <<>> THEN [rq |-> r, blk |-> b]
    ELSE LET left == removeBlocked(b, s)
             p == Head(b[s])
         IN  [rq |-> IF InNoQueue(r, left, p) THEN Append(r, p) ELSE r, blk |-> left]

----------------------------------------------------------------------------
(***************************************************************************)
(* main.c and intdeadlock: who runs next, when running_queue is r, the ASL *)
(* is b and the interval timer reads t.  With nobody to run the processor  *)
(* sleeps if an interrupt can wake somebody, and halts otherwise.          *)
(***************************************************************************)
\* neither devices nor the clock are looked at
intdeadlock_Blind(b, t) ==
    timer' = t /\ halt' = IF headASL(b) THEN "deadlock" ELSE "normal"

\* intschedule is not called before sleeping
intdeadlock_NoTimer(b, t) ==
    /\ timer' = t
    /\ halt' = IF \E s \in Dev \cup {Clock} : b[s] # <<>> THEN halt
               ELSE IF headASL(b) THEN "deadlock" ELSE "normal"

intdeadlock(b, t) ==
    IF b[Clock] # <<>> THEN timer' = Quantum /\ UNCHANGED halt
    ELSE /\ timer' = t
         /\ halt' = IF \E d \in Dev : b[d] # <<>> THEN halt
                    ELSE IF headASL(b) THEN "deadlock" ELSE "normal"

schedule(r, b, t) ==
    IF r = <<>> THEN intdeadlock(b, t) ELSE timer' = Quantum /\ UNCHANGED halt

initProc == /\ parent = [p \in Proc |-> NIL]
            /\ child = [p \in Proc |-> NIL]
            /\ brother = [p \in Proc |-> NIL]
            /\ vec = [p \in Proc |-> {}]

initSemd == blk = [s \in Sem |-> <<>>]

intinit == /\ \A s \in Dev \cup {Clock} : sem[s] = 0
           /\ clock_count = 0
           /\ save_arr = [d \in Dev |-> NIL]

\* main allocates and schedules the first process.  The processes' own
\* semaphores are theirs to initialise.
Init == /\ \E p \in Proc : free = Proc \ {p} /\ rq = <<p>>
        /\ initProc
        /\ initSemd
        /\ sem \in [Sem -> 0..1] /\ intinit
        /\ timer = Quantum
        /\ halt = "no"
        /\ io = [d \in Dev |-> NIL]
        /\ want = [p \in Proc |-> NIL]
        /\ creator = [p \in Proc |-> NIL]

cur == Head(rq)

\* A process executes: no handler is active and no clock interrupt is pending.
Running == halt = "no" /\ rq # <<>> /\ timer # 0

----------------------------------------------------------------------------
(***************************************************************************)
(* SYS1.  Only the last of a process's children points to it, so that      *)
(* child is where the walk along the brothers stops.  When there is no     *)
(* free entry the call returns -1 and changes nothing.                     *)
(***************************************************************************)
Create_Process ==
    /\ Running
    /\ \E p \in free :
         /\ free' = free \ {p}
         /\ child' = IF child[cur] = NIL THEN [child EXCEPT ![cur] = p] ELSE child
         /\ brother' = [q \in Proc |-> IF parent[q] = cur THEN p ELSE brother[q]]
         /\ parent' = [q \in Proc |-> IF q = p THEN cur
                                      ELSE IF parent[q] = cur THEN NIL ELSE parent[q]]
         /\ rq' = Append(rq, p)
         /\ creator' = [creator EXCEPT ![p] = cur]
    /\ UNCHANGED <<sem, blk, vec, timer, clock_count, halt, devices>>

(***************************************************************************)
(* SYS2.  check_sibling visits the first child of p, and from every        *)
(* process its first child and its next brother: the least set closed      *)
(* under both.                                                             *)
(***************************************************************************)
\* p is not unlinked from its brothers first
Progeny_Brothers(p) ==
    {q \in Proc : \A S \in SUBSET Proc :
        /\ {child[p], brother[p]} \subseteq S \cup {NIL}
        /\ \A x \in S : {child[x], brother[x]} \subseteq S \cup {NIL}
        => q \in S}

Progeny(p) ==
    {q \in Proc : \A S \in SUBSET Proc :
        /\ child[p] \in S \cup {NIL}
        /\ \A x \in S : {child[x], brother[x]} \subseteq S \cup {NIL}
        => q \in S}

\* nobody inherits the link to the parent
Unlink_LosesParent ==
    [child   |-> [q \in Proc |-> IF child[q] = cur THEN brother[cur] ELSE child[q]],
     brother |-> [q \in Proc |-> IF q = cur THEN NIL
                                 ELSE IF brother[q] = cur THEN brother[cur]
                                 ELSE brother[q]],
     parent  |-> [q \in Proc |-> IF q = cur THEN NIL ELSE parent[q]]]

\* cur leaves the list of its parent's children; a last child hands the link
\* to the parent to the brother before it.
Unlink ==
    [child   |-> [q \in Proc |-> IF child[q] = cur THEN brother[cur] ELSE child[q]],
     brother |-> [q \in Proc |-> IF q = cur THEN NIL
                                 ELSE IF brother[q] = cur THEN brother[cur]
                                 ELSE brother[q]],
     parent  |-> [q \in Proc |-> IF brother[cur] # NIL THEN parent[q]
                                 ELSE IF q = cur THEN NIL
                                 ELSE IF brother[q] = cur THEN parent[cur]
                                 ELSE parent[q]]]

\* outBlocked on all of K: a semaphore gains 1 for each process taken off its
\* queue, b being the queues afterwards.
outBlocked_Silent(b) == sem

outBlocked(b) == [s \in Sem |-> sem[s] + (Len(blk[s]) - Len(b[s]))]

\* outBlocked or outProc, then freeProc, of every member of K.  The trap
\* state vectors of a freed entry stay as they are.
Free(K) ==
    LET left == [s \in Sem |-> Without(blk[s], K)]
        cleared(link) == [q \in Proc |-> IF q \in K THEN NIL ELSE link[q]]
    IN  /\ free' = free \cup K
        /\ rq' = Without(rq, K)
        /\ blk' = left
        /\ sem' = outBlocked(left)
        /\ child' = cleared(Unlink.child)
        /\ brother' = cleared(Unlink.brother)
        /\ parent' = cleared(Unlink.parent)
        /\ want' = cleared(want)
        /\ creator' = cleared(creator)
        /\ schedule(Without(rq, K), left, timer)
        /\ UNCHANGED <<vec, clock_count, io, save_arr>>

Terminate_Process ==
    LET K == Progeny(cur) \cup {cur}
    IN  /\ want[cur] = NIL
        /\ OrphanIO \/ \A q \in K : want[q] = NIL
        /\ Free(K)

SYS2 == Running /\ Terminate_Process

----------------------------------------------------------------------------
(***************************************************************************)
(* SYS3.  The loop over the vector, on a record of the state it works on.  *)
(* A process that has to wait stays at the head of the running queue until *)
(* the loop ends.                                                          *)
(***************************************************************************)
vpop(st, e) ==
    IF e.op = LOCK
    THEN IF st.sem[e.sem] - 1 < 0
         THEN [st EXCEPT !.sem[e.sem] = @ - 1, !.flag = TRUE,
                         !.blk = insertBlocked(@, e.sem, cur)]
         ELSE [st EXCEPT !.sem[e.sem] = @ - 1]
    ELSE LET w == IF st.sem[e.sem] < 0 THEN Wake(st.rq, st.blk, e.sem) ELSE st
         IN  [st EXCEPT !.sem[e.sem] = @ + 1, !.rq = w.rq, !.blk = w.blk]

Exec(v, st) ==
    LET after[i \in 0..Len(v)] == IF i = 0 THEN st ELSE vpop(after[i-1], v[i])
    IN  after[Len(v)]

Sem_OP(v) ==
    /\ Running
    /\ \A i \in DOMAIN v : v[i].op = UNLOCK => sem[v[i].sem] < MaxSem
    /\ LET st == Exec(v, [sem |-> sem, blk |-> blk, rq |-> rq, flag |-> FALSE])
       IN  /\ sem' = st.sem
           /\ blk' = st.blk
           /\ rq' = IF st.flag THEN Tail(st.rq) ELSE st.rq
           /\ IF st.flag THEN schedule(Tail(st.rq), st.blk, timer)
                         ELSE UNCHANGED <<timer, halt>>
    /\ UNCHANGED <<free, tree, vec, clock_count, devices>>

----------------------------------------------------------------------------
(***************************************************************************)
(* SYS4 halts the machine.  SYS5 gives a process a trap state vector, once *)
(* for each type of trap.  SYS6 reads the processor time and changes       *)
(* nothing here.                                                           *)
(***************************************************************************)
notused == /\ Running
           /\ halt' = "SYS4"
           /\ UNCHANGED <<free, rq, sem, blk, tree, vec, timer, clock_count, devices>>

Specify_Trap_State_Vector(t) ==
    /\ Running
    /\ \/ t \in vec[cur] /\ Terminate_Process
       \/ /\ t \notin vec[cur]
          /\ vec' = [vec EXCEPT ![cur] = @ \cup {t}]
          /\ UNCHANGED <<free, rq, sem, blk, tree, timer, clock_count, halt, devices>>

\* A program trap, a memory management trap, SYS9-SYS17, or SYS1-SYS8 in user
\* mode.  With a state vector the process goes on in its own handler, which
\* changes nothing here; without one it is terminated.
pass_up(t) == Running /\ t \notin vec[cur] /\ Terminate_Process

----------------------------------------------------------------------------
(***************************************************************************)
(* SYS7, SYS8 and the interrupt handlers.                                  *)
(***************************************************************************)

\* the waiting process stays in the running queue
intsemop_Stays(s) ==
    /\ sem' = [sem EXCEPT ![s] = @ - 1]
    /\ IF sem[s] - 1 < 0
       THEN blk' = insertBlocked(blk, s, cur) /\ schedule(rq, blk', timer)
       ELSE UNCHANGED <<blk, timer, halt>>
    /\ UNCHANGED rq

\* intsemop with LOCK
intsemop(s) ==
    /\ sem' = [sem EXCEPT ![s] = @ - 1]
    /\ IF sem[s] - 1 < 0
       THEN /\ rq' = Tail(rq)
            /\ blk' = insertBlocked(blk, s, cur)
            /\ schedule(rq', blk', timer)
       ELSE UNCHANGED <<rq, blk, timer, halt>>

waitforpclock ==
    /\ Running
    /\ intsemop(Clock)
    /\ UNCHANGED <<free, tree, vec, clock_count, devices>>

\* an early return leaves the semaphore at 1
waitforio_Keeps(d) ==
    /\ Running
    /\ want[cur] = d
    /\ IF sem[d] = 1 THEN UNCHANGED <<sem, rq, blk, timer, halt>> ELSE intsemop(d)
    /\ want' = IF sem[d] > 0 THEN [want EXCEPT ![cur] = NIL] ELSE want
    /\ UNCHANGED <<free, tree, vec, clock_count, io, save_arr>>

\* A value of 1 says that the interrupt came first and its completion was
\* saved.  SYS8 returns at once unless the semaphore becomes negative.
waitforio(d) ==
    /\ Running
    /\ want[cur] = d
    /\ IF sem[d] = 1
       THEN sem' = [sem EXCEPT ![d] = @ - 1] /\ UNCHANGED <<rq, blk, timer, halt>>
       ELSE intsemop(d)
    /\ want' = IF sem[d] > 0 THEN [want EXCEPT ![cur] = NIL] ELSE want
    /\ UNCHANGED <<free, tree, vec, clock_count, io, save_arr>>

\* the waiting process is not woken
inthandler_NoWake(d) ==
    /\ halt = "no"
    /\ io[d] # NIL
    /\ io' = [io EXCEPT ![d] = NIL]
    /\ sem' = [sem EXCEPT ![d] = @ + 1]
    /\ save_arr' = [save_arr EXCEPT ![d] = io[d]]
    /\ IF rq = <<>> THEN schedule(rq, blk, timer) ELSE UNCHANGED <<timer, halt>>
    /\ UNCHANGED <<free, rq, blk, want, tree, vec, clock_count>>

\* Device d completes the operation it works on, and interrupts.  The process
\* that was running, if there is one, goes on.
inthandler(d) ==
    /\ halt = "no"
    /\ io[d] # NIL
    /\ io' = [io EXCEPT ![d] = NIL]
    /\ sem' = [sem EXCEPT ![d] = @ + 1]
    /\ IF sem[d] = -1
       THEN /\ blk' = Wake(rq, blk, d).blk
            /\ rq' = Wake(rq, blk, d).rq
            /\ want' = [want EXCEPT ![Head(blk[d])] = NIL]
            /\ UNCHANGED save_arr
       ELSE /\ save_arr' = [save_arr EXCEPT ![d] = io[d]]
            /\ UNCHANGED <<blk, rq, want>>
    /\ IF rq = <<>> THEN schedule(rq', blk', timer) ELSE UNCHANGED <<timer, halt>>
    /\ UNCHANGED <<free, tree, vec, clock_count>>

\* the running process keeps its place
Turn_Stays == rq

\* The running process goes to the tail of the running queue.
Turn == IF rq = <<>> THEN rq ELSE Append(Tail(rq), cur)

\* clock_count is not reset
NextCount_NoReset == clock_count + 1

NextCount == IF clock_count + 1 >= PClock THEN 0 ELSE clock_count + 1

\* The interval timer has run out: the running process goes to the tail, and
\* every PClock-th time one waiter of the pseudo-clock is released.
intclockhandler ==
    /\ halt = "no"
    /\ timer = 0
    /\ clock_count' = NextCount
    /\ LET fires == clock_count + 1 >= PClock
           w == IF fires THEN Wake(Turn, blk, Clock) ELSE [rq |-> Turn, blk |-> blk]
       IN  /\ sem' = IF fires /\ blk[Clock] # <<>>
                     THEN [sem EXCEPT ![Clock] = @ + 1] ELSE sem
           /\ blk' = w.blk
           /\ rq' = w.rq
           /\ schedule(w.rq, w.blk, Off)
    /\ UNCHANGED <<free, tree, vec, devices>>

----------------------------------------------------------------------------
(***************************************************************************)
(* Outside the nucleus.                                                    *)
(***************************************************************************)

\* The running process writes the registers of a device, to start an
\* operation.  No device has two users: the processes see to that.
StartIO(d) ==
    /\ Running
    /\ want[cur] = NIL
    /\ io[d] = NIL
    /\ \A p \in Proc : want[p] # d
    /\ sem[d] <= MaxSem
    /\ io' = [io EXCEPT ![d] = cur]
    /\ want' = [want EXCEPT ![cur] = d]
    /\ UNCHANGED <<free, rq, sem, blk, tree, vec, timer, clock_count, save_arr, halt>>

\* Time passes.
Tick ==
    /\ halt = "no"
    /\ timer > 0
    /\ timer' = timer - 1
    /\ UNCHANGED <<free, rq, sem, blk, tree, vec, clock_count, halt, devices>>

\* The machine has been halted.
Halted == halt # "no" /\ UNCHANGED vars

Next == \/ Create_Process
        \/ SYS2
        \/ \E v \in Vectors : Sem_OP(v)
        \/ notused
        \/ \E t \in TrapTypes : Specify_Trap_State_Vector(t) \/ pass_up(t)
        \/ waitforpclock
        \/ \E d \in Dev : StartIO(d) \/ waitforio(d) \/ inthandler(d)
        \/ intclockhandler
        \/ Tick
        \/ Halted

Spec == Init /\ [][Next]_vars

\* Time passes, the timer interrupts when it runs out, and a device completes
\* every operation.  Nothing is assumed of the processes.
Fairness == /\ WF_vars(Tick)
            /\ WF_vars(intclockhandler)
            /\ \A d \in Dev : WF_vars(inthandler(d))

FairSpec == Spec /\ Fairness

----------------------------------------------------------------------------
(***************************************************************************)
(* Properties.                                                             *)
(***************************************************************************)
Link == Proc \cup {NIL}

\* The variables have the types of the declarations above.
TypeOK == /\ free \in SUBSET Proc
          /\ rq \in Seq(Proc)
          /\ sem \in [Sem -> Int]
          /\ blk \in [Sem -> Seq(Proc)]
          /\ parent \in [Proc -> Link]
          /\ child \in [Proc -> Link]
          /\ brother \in [Proc -> Link]
          /\ vec \in [Proc -> SUBSET TrapTypes]
          /\ timer \in Off..Quantum
          /\ clock_count \in 0..(PClock - 1)
          /\ save_arr \in [Dev -> Link]
          /\ halt \in {"no", "normal", "deadlock", "SYS4"}
          /\ io \in [Dev -> Link]
          /\ want \in [Proc -> Dev \cup {NIL}]
          /\ creator \in [Proc -> Link]

Blocked == UNION {ToSet(blk[s]) : s \in Sem}

\* No vector names a semaphore again after a P on it.
NoRepeat == \A v \in Vectors : \A j, k \in DOMAIN v :
                j < k /\ v[j].op = LOCK => v[k].sem # v[j].sem

\* No vector holds two P operations.
OneP == \A v \in Vectors : \A j, k \in DOMAIN v :
            j < k /\ v[j].op = LOCK => v[k].op = UNLOCK

\* What keeps insertBlocked from running out of descriptors: a process waits
\* for one semaphore at a time, or there is a descriptor for each semaphore.
Fits == /\ NoRepeat
        /\ OneP \/ (IsFiniteSet(Sem) /\ Cardinality(Sem) <= SEMD)

\* No process is lost and none is in two places: an entry is free, or in the
\* running queue, or waits for semaphores (check_sibling relies on it: a
\* descendant is "either in sem list or running queue"), and never stands
\* twice in one queue, which the links of procq.c cannot represent.
Placed == /\ free \cup ToSet(rq) \cup Blocked = Proc
          /\ free \cap (ToSet(rq) \cup Blocked) = {}
          /\ ToSet(rq) \cap Blocked = {}
          /\ IsInjective(rq)
          /\ \A s \in Sem : IsInjective(blk[s])

\* A process that waits, waits for one semaphore only.
OneQueue == \A s, t \in Sem : s # t => ToSet(blk[s]) \cap ToSet(blk[t]) = {}

\* A semaphore's value counts its waiting processes when it is negative, and
\* nobody waits when it is not, whatever mixture of P, V, interrupts, failed
\* descriptors and terminations (outBlocked adds 1) led there.
SemCount == \A s \in Sem : Len(blk[s]) = IF sem[s] < 0 THEN -sem[s] ELSE 0

\* The children of p along the brother links.
Children(p) ==
    {q \in Proc : \A S \in SUBSET Proc :
        child[p] \in S \cup {NIL} /\ (\A x \in S : brother[x] \in S \cup {NIL})
        => q \in S}

\* The links of proc_t represent who created whom: a process's list of
\* children holds the processes it created, the last of them and no other
\* points back to it, everybody's creator is still there (termination leaves
\* no orphan), and no freed entry keeps a link.
TreeOK ==
    /\ \A p \in Proc : Children(p) = {q \in Proc : creator[q] = p}
    /\ \A q \in Proc : parent[q] = IF brother[q] = NIL THEN creator[q] ELSE NIL
    /\ \A q \in Proc : creator[q] # NIL => {q, creator[q]} \cap free = {}
    /\ \A q \in free : child[q] = NIL /\ brother[q] = NIL

\* Terminate_Process frees nobody but the running process and, level by level,
\* those created by a process it frees.
DiesWithCreator ==
    [][\A q \in free' \ free : q = cur \/ creator[q] \in free' \ free]_vars

\* "normal termination" is printed when no process is left, "deadlock
\* termination" when everyone left waits for semaphores that only processes
\* raise.
HaltIsRight ==
    /\ halt = "normal" => free = Proc
    /\ halt = "deadlock" => /\ free # Proc
                            /\ \A p \in Proc \ free : \E s \in UserSem : p \in ToSet(blk[s])
                            /\ \A s \in Dev \cup {Clock} : blk[s] = <<>>

\* The processor neither runs a process without a running timer nor sleeps
\* (intdeadlock) without an interrupt to come that releases somebody.
InterruptComing ==
    halt = "no" => \/ timer # Off /\ rq # <<>>
                   \/ timer # Off /\ blk[Clock] # <<>>
                   \/ \E d \in Dev : blk[d] # <<>> /\ io[d] = Head(blk[d])

\* If SYS8 would return at once, "interrupt has already occurs" (waitforio):
\* the device is done with the caller's operation and what was saved is the
\* completion of that operation.
CompletionIsOwn ==
    \A p \in Proc, d \in Dev :
        want[p] = d /\ p \in ToSet(rq) /\ sem[d] > 0 => io[d] = NIL /\ save_arr[d] = p

\* A process that waits for a device waits for its own operation, alone.
WaitsForOwn == \A d \in Dev : blk[d] # <<>> => blk[d] = <<io[d]>> /\ want[io[d]] = d

\* A process is created without trap state vectors (allocProc).
CreatedWithoutVectors == [][\A p \in free \ free' : vec'[p] = {}]_vars

\* Round robin: a ready process gets the processor, whatever the others do.
ReadyRuns == \A p \in Proc :
    (p \in ToSet(rq)) ~> (halt # "no" \/ p \notin ToSet(rq) \/ cur = p)

\* A process that waits for a device is released.
IOEnds == \A p \in Proc, d \in Dev :
    (p \in ToSet(blk[d])) ~> (halt # "no" \/ p \notin ToSet(blk[d]))

\* "v every 100 milliseconds": a process that waits for the pseudo-clock is
\* released.
ClockWaitEnds == \A p \in Proc :
    (p \in ToSet(blk[Clock])) ~> (halt # "no" \/ p \notin ToSet(blk[Clock]))
=============================================================================

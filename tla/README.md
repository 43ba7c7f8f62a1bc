# HOCA operating system: TLA+ models and proofs

HOCA is a small multiprogramming system for a simulated 68000 machine, in three
layers of C: queues of processes (`src/queues`), a nucleus with eight system
calls, traps, interrupts and a scheduler (`src/nucleus`), and a support level
with virtual memory, terminals, a disk and a clock service (`src/support`).
This project models the three layers, checks them with TLC and proves with TLAPS
their invariants, and that the queues implement their specification.

## Inventory

| Component | State | Operations | What makes it correct |
|---|---|---|---|
| Process queues, `queues/procq.c` | `proc_table` with `SEMMAX` links per entry, the free list, tail pointers | `allocProc`, `freeProc`, `insertProc`, `removeProc`, `outProc`, `headQueue` | rings represent FIFO queues although each member uses another of its links; `qcount` is the number of queues; the free list loses nothing |
| Active semaphore list, `queues/asl.c` | `semd_table`, list in use, free list, `semvec` | `insertBlocked`, `removeBlocked`, `outBlocked`, `headBlocked`, `headASL` | one descriptor per semaphore in use, none with an empty queue; `semvec` agrees with the queues |
| System calls and traps, `nucleus/traps/syscall.c`, `trap.c` | process tree links, trap state vectors, semaphore values (in the processes' memory) | SYS1-SYS8, program and memory traps, pass-up of SYS9-SYS17 | no process lost or in two places; semaphore values count waiters; the tree represents who created whom |
| Scheduler, `nucleus/traps/main.c` | `running_queue` | `schedule`, `init`, `main` | every ready process runs |
| Interrupts, `nucleus/interrupts/int.c` | `dev_sem`, `save_arr`, `clock_lock`, `clock_count`, the interval timer | `waitforio`, `waitforpclock`, device handlers, `intclockhandler`, `intdeadlock` | a completion reaches the process whose operation it is; the machine halts only when nothing can go on, and sleeps only when something can come |
| Support level, part 1: `support.c`, `slsyscall1.c` | `d_sem`, `cron_sem`, `p_alive` | terminals (SYS9, 10), delay (13), time (16), terminate (17), cron | delays end; the last process wakes cron, so the system stops |
| Support level, paging: `page.c`, `slmmhandler` | `pfs_arr`, page tables, `disk`, `sem_pf`, `sem_mm`, `sem_page`, `sem_floppy` | `getfreeframe`, `pagein`, `putframe`, `pagedaemon` | a frame has one owner; `sem_pf` counts the free frames; a page comes back from where it was put |
| Support level, part 2: `slsyscall2.c` | `vs_arr`, `ds_arr`, `protected_sem`, `sem_disk` | virtual P and V (SYS11, 12), disk (SYS14, 15), `diskdaemon` | no wakeup is lost or misdirected; every request is served with its own status |
| `src/h`, `src/util`, test processes (`p1*.c`, `intp1.c`, `p1test*.c`) | | | constants, vendored headers and libraries, assembly stubs, tests: not modelled |

Interaction.  A handler starts by hardware, with interrupts masked, and ends in
`LDST` of some machine state: of the interrupted process, or, through
`schedule`, of the head of `running_queue`.  Handlers call the queue routines
directly.  The support level runs as ordinary processes (terminal processes,
`pagedaemon`, `diskdaemon`, cron); they meet in semaphores handed to SYS3, and
in variables some of which no semaphore protects.

Hard behaviours.  In the nucleus handlers are atomic, so the difficulty is in
sequences: an interrupt before or after the SYS8 that waits for it, a process
killed while it waits or while a device works for it, one process in several
queues, a table that is full, the timer reloaded while somebody counts on it.
In the support level the difficulty is in interleavings between SYS3 calls.
`PROJECT.json` lists these hazards at their lines.

## Modules

* `AbstractQueues`: what `procq.c` and `asl.c` promise; FIFO queues, a FIFO
  free list, `SEMD` descriptors.
* `ProcQueues`: the two files link by link.  Every routine is an action, the
  links, `qcount`, `semvec` and descriptors are the state.  The operators work
  on explicit tables (`insertProc(L, tp, p)`), since one call of `asl.c` makes
  several changes in sequence.  The history variable `view` holds the queues
  the links represent; it is the refinement mapping to `AbstractQueues`.
* `QueueOps`: the effect of `outProc` on a sequence, for `AbstractQueues` and the
  nucleus model.
* `Nucleus`: the nucleus over abstract queues.  One action for each handler,
  with the same name (`Sem_OP`, `waitforio`, `inthandler`, `intclockhandler`,
  ...); a handler that ends in `schedule` contains it, so `timer` and `halt`
  change in the same step.
* `Semaphores`: SYS3 as the support level uses it, a value and a FIFO queue
  for each semaphore.  This is the interface at which the support level stands
  on the nucleus: `SemCount` and `Placed`, proved of `Nucleus`, are what makes
  it an adequate description.
* `VirtualSem`: SYS11 and SYS12 with `vs_arr` (`slsyscall2.c`).
* `DiskDaemon`: SYS14, SYS15 and `diskdaemon` (`slsyscall2.c`).
* `TProcess`: `p1a`, the life of the T-processes, and cron (`support.c`,
  `slsyscall1.c`).
* `Paging`: `slmmhandler`, `getfreeframe`, `pagein`, `putframe` and
  `pagedaemon` (`support.c`, `page.c`).
* `QueueLemmas`: lemmas on sequences, induction, and P and V.
* `NucleusProofs`, `SleepTreeProofs`: theorems about `Nucleus`.
* `ProcQueuesProofs`, `TProcessProofs`, `DiskDaemonProofs`, `VirtualSemProofs`,
  `PagingProofs`: theorems about the modules they are named after.
* `MCNucleus`, `MCProcQueues`, `MCVirtualSem`, `MCDiskDaemon`, `MCTProcess`,
  `MCPaging` and the `.cfg` files: instances for TLC.

### How Nucleus represents the code

* `rq` is `running_queue` and `blk[s]` the queue of the descriptor of `s`; a
  semaphore without descriptor has the empty queue.  `free` is a set: the order
  in which entries are reused matters to nothing in the nucleus.  That the links behave
  like that, and that the free list is FIFO, is what `ProcQueues` is checked for.
* The process at the head of `rq` runs.  What it computes is not modelled: it
  may make any call, trap, or start a device operation at any time.  `Sem_OP`
  takes a vector of `Vectors`; it executes the loop of the code with the
  process at the head of `rq` until the loop ends.
* `timer` counts units of time.  `Tick` lets one pass, at 0 the interrupt is
  pending and no process executes, `Off` says that it has fired and was not
  loaded again.  `Quantum` units are loaded; `clock_count` and `PClock` count
  quanta (5000 and 100000 microseconds in the code, so 20).
* A completion (`d_amnt`, `d_stat`) is represented by the process whose
  operation completed.  `io[d]` is the process the device works for, `want[p]`
  the device whose completion `p` has still to collect.  `StartIO` is the
  process writing the device registers: external to the nucleus, with the
  discipline of the support level that a device has one user at a time.
* With `OrphanIO = FALSE` nobody is terminated while a device works for it;
  `TRUE` drops that, and the run `orphan_completion` shows what happens.  A
  process does not terminate itself before it has collected its completion.
* `vec[p]` holds the trap types with a state vector; that a process may pass
  the ENULL pointer as its vector is left out.
* Termination: `check_sibling` visits, recursively, first children and
  brothers; `Progeny` is the least set closed under both, and `Free` is the
  effect of `outBlocked` or `outProc`, and `freeProc`, on all of it.
* Not modelled: processor times (`start_time`, `get_interval`, SYS6), the saved
  machine states, the printing of the final message.

### How the support level is represented

Its processes run with interrupts enabled, and the clock takes the processor
away at any instruction.  In these four modules a step therefore goes from one
access to a shared variable to the next, or to a SYS3; `pc[t]` says where
T-process `t` is in its handler, `at` where the daemon or cron is.  Steps are
joined only where a semaphore keeps others out (`protected_sem`, `sem_mm`) or
where the data belong to one process.  A vector of SYS3 is atomic, as the
nucleus executes it: `V(P(sem, t, t), cron_sem)` is Delay's.  A process whose
`pc` is past a P may take its next step when it is in no queue (`Ready`).

* `VirtualSem`.  `sem[0]` is `protected_sem`, `sem[i]` the semaphore of entry
  `i`.  Each section under `protected_sem` is a step (`P_Pass`, `P_Take`,
  `V_Raise`, `V_Give`), the operation on the entry another (`P_Wait`,
  `V_Wake`).  The handlers only test that the address is not below segment 2.
  One below it is `NULL` and is refused (`Refuse`: V on `protected_sem`, then
  `Terminate`).  One above it is `BEYOND`: it passes the test and traps where the
  value is first looked at, and `slmmhandler` terminates the caller while
  `protected_sem` is taken (`Trap`).  The semaphores are in segment 2, which
  every T-process may write to; the model assumes that they change them by SYS11
  and SYS12 only, so a value stored by hand, negative without a waiter for
  instance, is not covered.
* `DiskDaemon`.  A position is `8 * track + sector`, which is all that
  `tasker_helper` compares.  Its loop takes a step per entry, so requests
  arrive in front of and behind its index.  Seek and transfer may fail.  A
  request `Limit` away leaves the daemon with `num = -1`; what it then reads
  lies before `ds_arr`, and the model stops there (`"wild"`).
* `TProcess`.  `left[t]` is what remains of a delay; the time-of-day clock
  counts it down and cron tests `left[t] < 0` for
  `cur - start_time > d_time`.  `p_alive--` is a load and a store, as the
  compiler emits it without optimisation.  The pseudo-clock is external.
* `Paging`.  A page is a pair of owner and number, segment 2 being owned by
  `SHARED`.  `pd_frame` is a frame or a sector, as in the code.  A section under
  `sem_mm` is a step; `page_in_out_helper` is the exchange of `sem_mm` for
  `sem_floppy` and back, with the transfer while `sem_floppy` is held.  `mem`
  and `floppy` record whose latest content a place holds; a page that is
  present is taken to be written to, so its copy on the floppy is old at once.
  `putframe` reads `pfs_arr` at the number of a page; where that is beyond the
  table, either answer is possible.  A transfer of the floppy always succeeds:
  `page_in_out_helper` (`page.c:114`) never looks at the status, so after a
  failure the code would go on with a page that was not read or written.

The modules leave each other's state out: `Terminate` gives frames back in
`Paging` and counts `p_alive` in `TProcess`; `DiskDaemon` and `Paging` use the
number of T-processes that have not ended for `p_alive`.

A definition named after another one with an underscore and a word
(`Wake_AnyCount`) is a faulty variant of it, used to show that a property
notices the mistake.

## Runs

| Run | Instance | Shows |
|---|---|---|
| `nucleus` | 3 processes, 2 semaphores, 1 device, the clock; vectors P, V, VP, PV | types, no process lost, semaphores count waiters, right reasons to halt and to sleep, own completions; with fair time and devices every ready process runs and every device wait ends |
| `multi_p` | 4 processes, vectors of two P operations, a trap type, no device | the same with processes in two queues; process tree; only descendants die |
| `queues` | 3 processes with 2 links, 3 semaphores, 2 descriptors | links implement the abstract queues; counters and lists agree |
| `vsem` | 3 T-processes, 2 virtual semaphores | entries count waiters, no wakeup lost, the right process let through, nobody stuck at `protected_sem` unless a caller has trapped |
| `disk` | 2 T-processes, 3 positions, one of them out of range | a request is always found, elevator order, requests served as asked, own status, progress |
| `tprocess` | 3 T-processes, delays of 0 and 1 | cron awake when needed, delays end and not early, shutdown when and only when all have ended |
| `paging` | 2 T-processes, a page each and one shared, 2 frames, 3 sectors | frames owned, free frames counted, contents kept, no standstill |
| `lost_process` | 2 processes, 3 semaphores, 2 descriptors | violation: `insertBlocked` fails and the process is lost |
| `stale_vectors` | 2 processes | violation: a new process has its predecessor's trap vectors |
| `orphan_completion` | 3 processes, a device, `OrphanIO` | violation: SYS8 returns a dead process's completion |
| `clock_starved` | 3 processes, quantum of 2 units | violation: no V on the pseudo-clock, ever |
| `trapped_holder` | 2 T-processes, 1 virtual semaphore, fair | violation: after a trap in SYS11 or SYS12 the next caller waits for ever |

Bounds.  Three processes give a running, a waiting and a third process of every
kind (creator, child, sibling; two waiters and a waker); four give first,
middle and last children, or a grandchild beside a child, in `multi_p`.  Two semaphores
suffice for a process to wait for one and be woken by another, and the queue
routines look at one queue, its neighbours on the list and the free list, for
which three semaphores over two descriptors include a middle element and
exhaustion.  A quantum of one unit and a pseudo-clock period of two quanta
keep both counters' wrap-arounds.  `MaxSem` bounds the values processes may
raise a semaphore to; an operation may still be started on a device whose
semaphore is at the bound, as after a completion nobody collected.  The
actions have no other bound.  Symmetry in the names of processes or semaphores
is used in safety runs only, where no property distinguishes them.  `queues`
also has a `VIEW` that leaves out `ret`, which no action reads, and `view`,
which the links determine: neither tells two states apart that have different
successors, and the refinement is still checked on every step.

In the support level, two T-processes and a daemon give every pair of steps
that can meet; `vsem` and `tprocess` have a third, so that the races leave
somebody whom they could harm (a second waiter on an entry of `vs_arr`, a
process that still runs when two decrements of `p_alive` overlap).
In `paging` three pages compete for two frames, so that pages go out and come
back without end, a page is read while it is being written, and a new page
meets one that has been out; `HIGH` and `LOW` are 1 and 0.  `MaxVal`,
`MaxCron` and `MaxSignal` bound semaphores that are only raised.  The
constraint `Unbroken` of `paging` cuts off what follows the two races below.

### What the conditions in the support level's properties stand for

These properties hold under a condition, recorded by a history variable or read
off the state.  Each condition is a defect of the code.  The property without it,
as a comment or the course's documents (`src/doc/hoca.ch5.pdf`, `hoca.ch6.pdf`)
have it, is a definition of the module too, and TLC finds its counterexample
within seconds with the configuration named: the run `trapped_holder`, and for the
others a `.cfg` of its own that no passing run depends on.

* `GetsIn`, a process at `"trapped"`: it was terminated with `protected_sem` taken,
  and nobody gets in after it (`AllGetIn`, run `trapped_holder`).
* `OwnSemaphore`, `overtaken`: V frees an entry of `vs_arr` before the process
  has begun to wait on it.  If another one takes the entry for another
  semaphore and waits first, it gets the wakeup, and SYS12 returns without a V
  on its semaphore (`EachItsOwn`, `MCOvertaken.cfg`).  The number of processes let
  through is still right.
* `StatusIsOwn`, `late`: `Disk_Put` and `Disk_Get` read `d_stat` after they are
  woken.  If the daemon's next seek ends before, the status is another
  process's, and a failed read looks successful (`ReturnsOwnStatus`, `MCStatus.cfg`).
* `ShutsDown`, `lost`: two T-processes that terminate at the same time may both
  load `p_alive`; it then stays above 0, the last V on `cron_sem` is not done,
  and the nucleus stops with a deadlock instead of a normal end
  (`AlwaysShutsDown`, `MCAlive.cfg`).  It never
  counts too few (`NoEarlyShutdown`).
* The properties of `paging`, `breach`.  `"hit"`: `getfreeframe` finds the frame
  of a shared page that another process has just brought in, is bringing in, or
  that is being written out.  `sem_pf` was lowered for nothing (`NoFrameForgotten`,
  `MCLeak.cfg`), and in the last case `pagedaemon` frees the frame under the
  process (`SharedFrameKept`, `MCShared.cfg`).  `"exit"`: a process ends
  while a page of its own is being written out; the frame is freed and counted
  twice, the second time perhaps under its next owner (`FrameIsOwn`,
  `MCOwner.cfg`).  Either breaks `FreeCount`, and leads to `FramesOwned` and `ContentKept`
  broken.

Two more conditions are in the properties themselves: `AlwaysFinds` excepts
requests out of range, and `DelayEnds` assumes that the pseudo-clock comes,
which `clock_starved` shows it may not.  Weaker than one might wish are
`DiskGoesOn` and `SomebodyRuns`: a single request, or a single fault, may wait
for ever while others are served.

Some hazards are left out by what the models assume, and no property meets them:
a process twice in one queue (`Fits` and the guard of `insertBlocked`; no vector of
the support level does that), two waiters for one device (`StartIO`), a page number
beyond the page table, and the starvation of a single disk request.

Fairness (`FairSpec`): time passes, a timer interrupt that is due is taken, and
a device completes what it was given.  These are properties of the machine;
nothing is assumed of the processes, so any of them may loop forever.
`clock_starved` uses the same fairness.  In the support level a process that is
in a handler and can go on does so, weakly: that is `ReadyRuns` of the nucleus.
Nothing is assumed of T-processes outside handlers.  The pseudo-clock is fair
in `TProcess` only while no T-process can run, when nobody reloads the interval
timer.

## Proofs

`NucleusProofs` proves for any finite `Proc` and any sets of semaphores,
devices, vectors, and bounds:

* `TypeCorrect`: `Spec => []TypeOK`, without further assumptions.
* `NothingLost` and `SemaphoresCount`: `Placed` and `SemCount` hold throughout
  if `Fits`: no vector names a semaphore again after a P on it, and either no
  vector has two P operations or there is a descriptor for each semaphore.
  Without the second part the run `lost_process` is a counterexample; without
  the first, `[P(a), V(a)]` on a = 0 is one (`MCSelfV.cfg`): the process takes itself
  off the queue of `a` with `qcount` 1, is not made ready, and leaves the running
  queue.
* `WaitsForOne`: `OneQueue`, for vectors with at most one P.

The argument.  `Good(f, r, b, m)` states the invariant for an arbitrary free
list, running queue, ASL and values, so that one lemma covers each operation on
queues: `Moved` (a process changes between running queue and a semaphore),
with `Woken` (V) and `Queued` (P) as its instances, `Raised`, `Rearranged`
(round robin), `Freed` (termination) and `Created`.  `Queued` needs `Room`: the
active semaphores are mapped injectively to the processes at the head of their
queues, and the process that is about to wait is not among them, so fewer than
`|Proc| <= SEMD` descriptors are in use.  Inside SYS3 `Placed` does not hold,
the process being in the running queue and in semaphore queues at once; `Mid`
is the invariant of that loop and `vpopMid` its step.  `IInv` adds `DevInv`, at
most one process waits for a device: without it an interrupt that finds
`dev_sem = -2` would break `SemCount`.  `SemAssumption` and `VectorAssumption`
keep the processes' vectors away from the nucleus's own semaphores.

`QueueLemmas` holds facts on sequences.  Recursive definitions (`Without`,
`Exec`) are dealt with there by `RecursionExists` and `IntervalInduction`,
induction stated for sets.

The first part of `SleepTreeProofs` is about the nucleus when nobody runs.  `SleepInv` is what
`schedule` leaves behind: the timer is off only while nobody is ready and nobody
waits for the pseudo-clock, and the processor goes on only if somebody is ready
or waits for the clock or a device.  It needs no assumption, and with `Placed`
gives `HaltsRight` (`HaltIsRight`, under `Fits`).  `OwnInv` relates a device to
the process that is owed its completion: without such a process the device is
idle and its semaphore 0; otherwise there is one, and the device either works
for it with the semaphore at most 0, or is done, has left 1 in the semaphore and
the status in `save_arr`.  This holds while `OrphanIO` is false (no
process is killed with its device at work: the run `orphan_completion` shows what
happens otherwise), and gives `WaitersOwn` (`WaitsForOwn`), `CompletionsOwn`
(`CompletionIsOwn`) and `SleepEnds` (`InterruptComing`).

The second part of `SleepTreeProofs` proves `TreeIsRight` (`TreeOK`) and `OnlyProgenyDies`
(`DiesWithCreator`), under `Fits`.  `Children` is a least closed set (`Chain`), so
lemmas say how it changes when a list gets longer, shorter or stays
(`LongerChain`, `ShorterChain`, `SameChain`).  `Lists` is the strengthening:
every process is pointed to once, by a brother or as a first child, and a list
has one last member.  Without the first part `Unlink` could cut a list that
another process is in, without the second `Create_Process` could add to the
wrong place.  `Family`: what `Free` clears is closed under creation, so no link
into it remains.

`ProcQueuesProofs` is about the links of `procq.c` and `asl.c`, for tables of any
size, any number of links of a process and any set of semaphores, as long as there
are two descriptors at least and no semaphore has the address ENULL
(`TableAssumption`; that a semaphore is not called `"running_queue"` only keeps the
names of the queues apart).  Theorems: `LinksRepresent` (the inductive invariant),
`QueuesImplemented` (`ImplementsQueues`, the refinement of `AbstractQueues`),
`CountsAlwaysAgree` (`CountsAgree`) and `DescriptorsAlwaysOK` (`DescriptorsOK`).

The queues are not part of the state, only links are.  The invariant `QInv` says
that there are a list `fr` of free processes, lists `u` and `f` of descriptors in
use and free, and for each queue a tail `T[k]` and a ring `R[k]` of places, a
process with the number of a link each, that the links represent:

* `Linked`: each ring closes from its tail to its head (`IsRing`), a process is
  once in it, no place is in two rings, a link in no ring is empty, and the links of
  a free process are, except that link 0 leads along the free list.  Without
  the last three `insertProc`, which takes the first link with `index` ENULL, could
  overwrite a link in use or find none.
* `Descr`: `u` and `f` are linked by `s_next` and back by `s_prev`, are disjoint and
  hold all descriptors, and no two in use are for the same semaphore.  The links
  back are in it because `removeBlockHelper` finds the neighbours of the descriptor
  it takes out by them.
* `TailsAre`: a descriptor in use has the tail of a queue that is not empty, and a
  semaphore without descriptor an empty queue; so `Find` tells whether anybody waits.
* `Tallied`: `qcount` is the number of rings a process is in and `semvec` names
  those of semaphores, each once.  So a process that may join a queue has a link
  to spare (`LinkToSpare`) and an entry of `semvec`, and `outBlocked` finds it in
  every queue its `semvec` names, and in no other.

`CutFacts`, `RingWalk` and `ChainIsList` say what the walks along links return.  For
each routine one lemma says which ring or list it makes of another:
`insertProcJoins` (a place is appended), `removeProcTakes` and `outProcTakes` (a
place is cut out, whether it is the only one, the tail or between),
`outProcMisses`, `takeSemdMoves` and `removeBlockHelperMoves` (a descriptor goes to
the end of the other list), `shrinkWhole` (a queue that has become empty gives its
descriptor back).  A `...Step` lemma for each action then gives `QInv'` and the
abstract action.  `insertBlocked` fails in the model exactly when `AbstractQueues`
says so by `ActiveCount`: there are as many descriptors in use as semaphores with
a queue.  For `outBlocked`, `Turned` is the invariant of the loop over `semvec`:
after `i` turns the first `i` entries are cleared and the process has left exactly
the queues they named, while the entries to come still name the others, since an
entry is named once.

The proofs about the support level start from the second part of `QueueLemmas`.
`Counted` is what the nucleus guarantees of its semaphores (`SemCount`, `Placed`
and `OneQueue` of `Nucleus`): a value counts its queue and nobody waits twice; `PStep` and `VStep`
say what P and V do.  Nothing beyond the modules' `ASSUME`s is assumed; the
conditions in the properties are those explained above.

* `TProcessProofs`, for any number of T-processes.  `ShutdownIsLast` is
  `Spec => NoEarlyShutdown`: `p_alive--` in `Terminate` is a load and a store, so
  decrements can be lost.  `AliveInv` says that this only errs on one side:
  `p_alive`, and every copy of it in the register of a process between load and
  store, is at least the number of processes that have not stored yet.  The
  second part is what makes it inductive, since a store overwrites whatever
  happened since the load.  `Creating`, the processes p1a has yet to start have
  done nothing, keeps p1a from starting one twice.  `CronInv` adds `SemOK` (who
  may wait where), `Told` (a delay that cron has not seen is announced by
  `cron_sem`, unless cron has yet to look at it) and `Timely`; it gives
  `SupportTypes`, `CronWatches` (`CronAwake`) and `DelaysLast` (`NotEarly`).
* `DiskDaemonProofs`, for any number of T-processes and any positions.
  `DiskInv`: `SemOK` (`sem_disk` is the number of requests that wait, less the
  one the daemon has taken up), `Works` (the daemon works on a request that
  waits), `Scanned` (the invariant of the loop in `tasker_helper`) and `Done`
  (what the disk has done for those that are let go).  Theorems: `DiskTypes`,
  `RequestsServed`, `OwnStatus`, `DaemonFinds`, `ElevatorSweep`.
* `VirtualSemProofs`, for any number of T-processes, addresses and entries.  The
  value of an entry's semaphore is the number of processes that come to it, less
  those that come to wake, less one while the entry is taken (`SemOK`); `Balance`
  states the same of the sums over all addresses, whose lemmas rest on an induction
  over subsets; `Claims` holds while nobody has been overtaken: a taken entry has
  a process of its own address.  Theorems: `VirtualTypes`, `EntriesCounted`,
  `EntryFree` (SYS12 always finds a free entry of `vs_arr`), `WakeupsKept`, `ReturnsMatch`.
* `PagingProofs`, for any number of T-processes, pages and frames, if the floppy
  has a sector for each page (`PagingAssumption`).  The invariant is
  `breach = "none" => PagInv`: a step to a state without breach starts in one.
  `PagInv` relates four tables that nothing keeps in agreement while the floppy
  works.  `Flights` and `Reads`: a process that brings a page in has the frame to
  itself, and knows where on the floppy the page is.  `Frames`: a frame in use is
  that of a present page, of one on its way in, or the one that `pagedaemon`
  writes out.  `Sectors`: a page has at most one sector, by the page table or by
  `pos` of its frame, and no two pages have the same; `Space`: there are no more
  sectors in use than pages that have one or whose process has ended, so
  `get_disk_pos`, which is called for a page without one, finds a free sector.
  `Writes` and `Stored`: a page that is out has its content on the floppy, or in
  the frame that is being written.  `Order` closes the gap in between: a process
  that wants this page back stands behind `pagedaemon` in the queue of
  `sem_floppy`, which has a single user (`FloppyOK`), and so reads after the write.
  `Count` is `FreeCount`; with the queue of `sem_pf` it gives a frame to every
  process that has passed `P(&sem_pf)` (`SomeFree`).  Theorems: `PagingTypes`,
  `FramesHaveOwners`, `FramesCounted`, `ContentsKept`.

Model-checked only: the liveness properties (`ReadyRuns`, `DelayEnds` and the others
of the runs `nucleus`, `vsem`, `disk`, `tprocess` and `paging`), which need fairness,
and the counterexamples.  Every invariant, every action property and the
refinement that a passing run checks is a theorem, under the conditions given above.

## Not modelled

* The test processes (`p1.c`, `p1.2.c`, `intp1.c`, `p1test*.c`): tests, read for
  what they expect of the system.
* `src/util`: headers and libraries of the tool chain, by far the largest part
  of the repository, and the assembly stubs.  They hold none of its logic.
* `src/h`: constants and layouts.
* In the nucleus the processor times and saved machine states; in the support
  level the segment tables, stacks and boot code p1 and `pageinit` set up, the
  characters terminals and disk transfer (so also a line longer than the buffer
  of SYS10), traps for invalid page numbers, and SYS16, which changes nothing.
* What happens after the daemon has indexed `ds_arr` with -1, or after one of
  the two races of `Paging`.

## Plan

Done: all modules above with their runs, and the theorems above.  What could follow
is a composition of `Nucleus` with `ProcQueues`, so that `blk` and `rq` are the
abstract queues of `AbstractQueues` by refinement and not by construction.

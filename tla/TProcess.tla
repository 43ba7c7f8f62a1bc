------------------------------ MODULE TProcess ------------------------------
(***************************************************************************)
(* The life of the T-processes (support/part1): p1a creates them and       *)
(* becomes cron; they use their terminals (SYS9, SYS10), delay themselves  *)
(* (SYS13) and terminate (SYS17); cron lets those go whose time is up and  *)
(* ends, with all its progeny, when p_alive is 0.                          *)
(*                                                                         *)
(* Terminate calls putframe between its two uses of p_alive; module Paging *)
(* models that.  The SYS5 calls of tprocess are the nucleus's matter.      *)
(***************************************************************************)
EXTENDS Semaphores

CONSTANTS N,          \* TER: the T-processes are 1..N
          MaxDelay,   \* bound: the longest delay, in units of time
          MaxCron     \* bound: Delay is called while cron_sem is below it

ASSUME TProcessAssumption == N \in Nat \ {0} /\ MaxDelay \in Nat /\ MaxCron \in Nat

TProc == 1..N
CRON == 0             \* cron among the processes
cron_sem == 0

VARIABLES p_alive,
          sem,        \* cron_sem, and d_sem[t].sem_value for t
          left,       \* what is left of the delay of t: d_time - (now - start_time)
          pc,         \* where a T-process is
          reg,        \* the register in which it decrements p_alive
          at,         \* where cron is
          i, clock,   \* its variables
          lost        \* history: a decrement of p_alive has overwritten another

cron_vars == <<at, i, clock>>
vars == <<p_alive, sem, left, pc, reg, cron_vars, lost>>

Init == /\ p_alive = N
        /\ sem = [s \in 0..N |-> Semaphore(0)]
        /\ left = [t \in TProc |-> 0]
        /\ pc = [t \in TProc |-> "none"]
        /\ reg = [t \in TProc |-> 0]
        /\ at = "p1a" /\ i = 1 /\ clock = FALSE
        /\ lost = FALSE

Delayed(t) == sem[t].val < 0
Expired(t) == left[t] < 0

----------------------------------------------------------------------------
\* The T-processes.

From(t, a, b) == pc[t] = a /\ Ready(sem, t) /\ pc' = [pc EXCEPT ![t] = b]

Terminal(t) == \/ From(t, "user", "terminal") /\ UNCHANGED <<p_alive, sem, left, reg, cron_vars, lost>>
               \/ From(t, "terminal", "user") /\ UNCHANGED <<p_alive, sem, left, reg, cron_vars, lost>>

Delay(t, d) ==
    /\ sem[cron_sem].val < MaxCron
    /\ From(t, "user", "timed")
    /\ left' = [left EXCEPT ![t] = d]
    /\ UNCHANGED <<p_alive, sem, reg, cron_vars, lost>>

\* cron is not told
DelayWait_Silent(t) ==
    /\ From(t, "timed", "delayed")
    /\ sem' = P(sem, t, t)
    /\ UNCHANGED <<p_alive, left, reg, cron_vars, lost>>

DelayWait(t) ==
    /\ From(t, "timed", "delayed")
    /\ sem' = V(P(sem, t, t), cron_sem)
    /\ UNCHANGED <<p_alive, left, reg, cron_vars, lost>>

DelayReturn(t) ==
    /\ From(t, "delayed", "user")
    /\ UNCHANGED <<p_alive, sem, left, reg, cron_vars, lost>>

\* p_alive-- is a load and a store.
TerminateLoad(t) ==
    /\ From(t, "user", "loaded")
    /\ reg' = [reg EXCEPT ![t] = p_alive]
    /\ UNCHANGED <<p_alive, sem, left, cron_vars, lost>>

TerminateStore(t) ==
    /\ From(t, "loaded", "stored")
    /\ p_alive' = reg[t] - 1
    /\ lost' = (lost \/ p_alive # reg[t])
    /\ reg' = [reg EXCEPT ![t] = 0]
    /\ UNCHANGED <<sem, left, cron_vars>>

\* nobody wakes cron
TerminateWake_Silent(t) ==
    /\ From(t, "stored", "leaving")
    /\ UNCHANGED <<p_alive, sem, left, reg, cron_vars, lost>>

TerminateWake(t) ==
    /\ From(t, "stored", "leaving")
    /\ sem' = IF p_alive = 0 THEN V(sem, cron_sem) ELSE sem
    /\ UNCHANGED <<p_alive, left, reg, cron_vars, lost>>

TerminateEnd(t) ==
    /\ From(t, "leaving", "gone")
    /\ UNCHANGED <<p_alive, sem, left, reg, cron_vars, lost>>

----------------------------------------------------------------------------
\* cron.

Cron(l) == at = l /\ Ready(sem, CRON)

\* one process too many
p1a_Beyond ==
    /\ Cron("p1a")
    /\ IF i <= N + 1 THEN pc' = [pc EXCEPT ![i] = "user"] /\ i' = i + 1 /\ UNCHANGED at
                     ELSE at' = "top" /\ UNCHANGED <<pc, i>>
    /\ UNCHANGED <<p_alive, sem, left, reg, clock, lost>>

p1a ==
    /\ Cron("p1a")
    /\ IF i <= N THEN pc' = [pc EXCEPT ![i] = "user"] /\ i' = i + 1 /\ UNCHANGED at
                 ELSE at' = "top" /\ UNCHANGED <<pc, i>>
    /\ UNCHANGED <<p_alive, sem, left, reg, clock, lost>>

\* ends when one process is left
Top_Early ==
    /\ Cron("top")
    /\ IF p_alive > 1 THEN at' = "release" /\ UNCHANGED pc
                      ELSE at' = "gone" /\ pc' = [t \in TProc |-> "gone"]
    /\ i' = 1 /\ clock' = FALSE
    /\ UNCHANGED <<p_alive, sem, left, reg, lost>>

\* SYS2 terminates cron and its progeny, the T-processes included; none of
\* them waits on a semaphore of this module then.
Top ==
    /\ Cron("top")
    /\ IF p_alive > 0 THEN at' = "release" /\ UNCHANGED pc
                      ELSE at' = "gone" /\ pc' = [t \in TProc |-> "gone"]
    /\ i' = 1 /\ clock' = FALSE
    /\ UNCHANGED <<p_alive, sem, left, reg, lost>>

\* those go whose time is not over yet, too
ReleaseScan_Any ==
    /\ Cron("release")
    /\ IF i > N THEN at' = "look" /\ i' = 1 /\ UNCHANGED sem
       ELSE /\ sem' = IF Delayed(i) THEN V(sem, i) ELSE sem
            /\ i' = i + 1
            /\ UNCHANGED at
    /\ UNCHANGED <<p_alive, left, pc, reg, clock, lost>>

\* The first loop lets go whose delay is over.
ReleaseScan ==
    /\ Cron("release")
    /\ IF i > N THEN at' = "look" /\ i' = 1 /\ UNCHANGED sem
       ELSE /\ sem' = IF Delayed(i) /\ Expired(i) THEN V(sem, i) ELSE sem
            /\ i' = i + 1
            /\ UNCHANGED at
    /\ UNCHANGED <<p_alive, left, pc, reg, clock, lost>>

\* The second looks for somebody whose delay goes on.
LookScan ==
    /\ Cron("look")
    /\ i <= N
    /\ clock' = (clock \/ Delayed(i))
    /\ i' = i + 1
    /\ UNCHANGED <<p_alive, sem, left, pc, reg, at, lost>>

\* cron goes to sleep although somebody delays
Sleep_Always ==
    /\ Cron("look")
    /\ i > N
    /\ at' = "sem"
    /\ sem' = P(sem, cron_sem, CRON)
    /\ UNCHANGED <<p_alive, left, pc, reg, i, clock, lost>>

Sleep ==
    /\ Cron("look")
    /\ i > N
    /\ IF clock THEN at' = "clock" /\ UNCHANGED sem
                ELSE at' = "sem" /\ sem' = P(sem, cron_sem, CRON)
    /\ UNCHANGED <<p_alive, left, pc, reg, i, clock, lost>>

Woken == Cron("sem") /\ at' = "top"
         /\ UNCHANGED <<p_alive, sem, left, pc, reg, i, clock, lost>>

\* The pseudo-clock ends a SYS7.
PseudoClock == Cron("clock") /\ at' = "top"
               /\ UNCHANGED <<p_alive, sem, left, pc, reg, i, clock, lost>>

cron == Top \/ ReleaseScan \/ LookScan \/ Sleep \/ Woken

\* A unit of time passes.
Counting(t) == pc[t] \in {"timed", "delayed"}
Time ==
    /\ \E t \in TProc : Counting(t) /\ ~Expired(t)
    /\ left' = [t \in TProc |-> IF Counting(t) /\ ~Expired(t) THEN left[t] - 1 ELSE left[t]]
    /\ UNCHANGED <<p_alive, sem, pc, reg, cron_vars, lost>>

\* What t does by itself once it is in a handler.
Handler(t) == \/ DelayWait(t) \/ DelayReturn(t) \/ TerminateStore(t)
              \/ TerminateWake(t) \/ TerminateEnd(t)

Next == \/ p1a \/ cron \/ PseudoClock \/ Time
        \/ \E t \in TProc : \/ \E d \in 0..MaxDelay : Delay(t, d)
                            \/ Terminal(t) \/ TerminateLoad(t) \/ Handler(t)

Spec == Init /\ [][Next]_vars

\* The nucleus runs every ready process and time passes.  The pseudo-clock
\* comes when no T-process has the processor; when they hand it to each other
\* within a quantum it may not (Nucleus, ClockWaitEnds).
Quiet == \A t \in TProc : pc[t] = "gone" \/ ~Ready(sem, t)
FairSpec == /\ Spec /\ WF_vars(p1a) /\ WF_vars(cron) /\ WF_vars(Time)
            /\ WF_vars(Quiet /\ PseudoClock)
            /\ \A t \in TProc : WF_vars(Handler(t))

----------------------------------------------------------------------------
\* The variables have the types of the declarations above.
TypeOK == /\ p_alive \in 0..N
          /\ sem \in [0..N -> [val : Int, q : Seq(0..N)]]
          /\ left \in [TProc -> -1..MaxDelay]
          /\ pc \in [TProc -> {"none", "user", "terminal", "timed", "delayed",
                               "loaded", "stored", "leaving", "gone"}]
          /\ reg \in [TProc -> 0..N]
          /\ at \in {"p1a", "top", "release", "look", "clock", "sem", "gone"}
          /\ i \in 1..(N + 1)
          /\ clock \in BOOLEAN /\ lost \in BOOLEAN

\* "The caller is to be delayed at least this long": SYS13 returns only when
\* the time is over.
NotEarly == \A t \in TProc : pc[t] = "delayed" /\ Ready(sem, t) => Expired(t)

\* cron, which looks at the delays one by one while processes begin new ones,
\* never sleeps on cron_sem while somebody delays.
CronAwake == at = "sem" /\ ~Ready(sem, CRON) => \A t \in TProc : ~Delayed(t)

\* cron ends the system only when every T-process is past its decrement of
\* p_alive: lost decrements never let it count too few.
NoEarlyShutdown ==
    [][at' = "gone" /\ at # "gone" =>
          \A t \in TProc : pc[t] \in {"stored", "leaving", "gone"}]_vars

\* "When all T-processes have terminated, your operating system should shut
\* down": cron ends too, and with it the daemons, its children.  Only when two
\* decrements of p_alive have overlapped it may sleep for ever; the nucleus
\* then reports a deadlock.
ShutsDown == (\A t \in TProc : pc[t] = "gone") ~> (at = "gone" \/ lost)

\* "When all T-processes have terminated, your operating system should shut
\* down", however their decrements of p_alive have interleaved.
AlwaysShutsDown == (\A t \in TProc : pc[t] = "gone") ~> (at = "gone")

\* A delay ends, if the pseudo-clock does not keep cron waiting for ever.
DelayEnds == []<>(at # "clock") => \A t \in TProc : Delayed(t) ~> ~Delayed(t)
=============================================================================

--------------------------- MODULE AbstractQueues ---------------------------
(***************************************************************************)
(* What queues/procq.c and queues/asl.c promise to the nucleus: a free     *)
(* list and one FIFO queue for the running queue and for every semaphore,  *)
(* with descriptors for at most SEMD semaphores at a time.  A process may  *)
(* stand in several queues, once in each.                                  *)
(*                                                                         *)
(* The guards are the conditions under which the nucleus calls a routine:  *)
(* only an entry that was allocated is queued, no entry is queued twice in *)
(* one queue or beyond its SEMMAX links (insertProc panics), and only an   *)
(* entry that has left all queues is freed.                                *)
(***************************************************************************)
EXTENDS QueueOps

CONSTANTS MAXPROC,      \* entries of proc_table
          SEMD,         \* entries of semd_table
          SEMMAX,       \* links of one process
          Sem           \* addresses of semaphores

ENULL == -1
Proc == 1..MAXPROC
RQ == "running_queue"
Queue == {RQ} \cup Sem

VARIABLES free,     \* the free list, in order
          q,        \* the members of every queue, in order
          ret       \* what the last call returned: a process or ENULL, whether
                    \* descriptors ran out, the semaphores that were raised

avars == <<free, q, ret>>

Returned(p) == [proc |-> p, full |-> FALSE, raised |-> {}]

In(p) == {k \in Queue : p \in ToSet(q[k])}
Allocated(p) == p \notin ToSet(free)

AInit == /\ free = [i \in Proc |-> i]
         /\ q = [k \in Queue |-> <<>>]
         /\ ret = Returned(ENULL)

AallocProc ==
    \/ free = <<>> /\ ret' = Returned(ENULL) /\ UNCHANGED <<free, q>>
    \/ free # <<>> /\ ret' = Returned(Head(free)) /\ free' = Tail(free) /\ UNCHANGED q

AfreeProc(p) == /\ Allocated(p) /\ In(p) = {}
                /\ free' = Append(free, p)
                /\ ret' = Returned(ENULL)
                /\ UNCHANGED q

MayJoin(p, k) == Allocated(p) /\ k \notin In(p) /\ Cardinality(In(p)) < SEMMAX

AinsertProc(p) == /\ MayJoin(p, RQ)
                  /\ q' = [q EXCEPT ![RQ] = Append(@, p)]
                  /\ ret' = Returned(ENULL)
                  /\ UNCHANGED free

AremoveProc == /\ ret' = Returned(IF q[RQ] = <<>> THEN ENULL ELSE Head(q[RQ]))
               /\ q' = IF q[RQ] = <<>> THEN q ELSE [q EXCEPT ![RQ] = Tail(@)]
               /\ UNCHANGED free

AoutProc(p) == /\ ret' = Returned(IF RQ \in In(p) THEN p ELSE ENULL)
               /\ q' = [q EXCEPT ![RQ] = Without(@, {p})]
               /\ UNCHANGED free

\* TRUE, and nothing done, when s needs a descriptor and none is left
AinsertBlocked(s, p) ==
    /\ MayJoin(p, s)
    /\ LET full == q[s] = <<>> /\ Cardinality({t \in Sem : q[t] # <<>>}) = SEMD
       IN  /\ ret' = [Returned(ENULL) EXCEPT !.full = full]
           /\ q' = IF full THEN q ELSE [q EXCEPT ![s] = Append(@, p)]
    /\ UNCHANGED free

AremoveBlocked(s) == /\ ret' = Returned(IF q[s] = <<>> THEN ENULL ELSE Head(q[s]))
                     /\ q' = IF q[s] = <<>> THEN q ELSE [q EXCEPT ![s] = Tail(@)]
                     /\ UNCHANGED free

\* Returns whether p was waiting, and the semaphores it raises.
AoutBlocked(p) == /\ ret' = [proc |-> IF In(p) \cap Sem # {} THEN p ELSE ENULL, full |-> FALSE,
                             raised |-> In(p) \cap Sem]
                  /\ q' = [k \in Queue |-> IF k \in Sem THEN Without(q[k], {p}) ELSE q[k]]
                  /\ UNCHANGED free

ANext == \/ AallocProc
         \/ AremoveProc
         \/ \E p \in Proc : AfreeProc(p) \/ AinsertProc(p) \/ AoutProc(p) \/ AoutBlocked(p)
         \/ \E s \in Sem : AremoveBlocked(s) \/ \E p \in Proc : AinsertBlocked(s, p)

ASpec == AInit /\ [][ANext]_avars
=============================================================================

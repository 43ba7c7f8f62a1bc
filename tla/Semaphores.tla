----------------------------- MODULE Semaphores -----------------------------
(***************************************************************************)
(* SYS3 as the support level sees it.  Its processes call P and V on       *)
(* semaphores of the nucleus, alone or two in one vector, never with two P *)
(* operations.  A semaphore is its value and the queue of the processes    *)
(* that wait for it; module Nucleus models the nucleus and NucleusProofs   *)
(* shows that the value of a semaphore counts its queue.                   *)
(*                                                                         *)
(* A process may take its next step unless it waits.  Between two steps    *)
(* any other process may run: the support level runs with interrupts on,   *)
(* and the clock takes the processor away at any instruction.              *)
(***************************************************************************)
EXTENDS Integers, SequencesExt

Semaphore(v) == [val |-> v, q |-> <<>>]

\* P on semaphore s of the semaphores m, by process p
P(m, s, p) ==
    [m EXCEPT ![s] = [val |-> @.val - 1,
                      q |-> IF @.val - 1 < 0 THEN Append(@.q, p) ELSE @.q]]

\* V on s: the longest waiting process is released
V(m, s) ==
    [m EXCEPT ![s] = [val |-> @.val + 1, q |-> IF @.val < 0 THEN Tail(@.q) ELSE @.q]]

Waits(m, s, p) == p \in ToSet(m[s].q)

Ready(m, p) == \A s \in DOMAIN m : ~Waits(m, s, p)
=============================================================================

----------------------------- MODULE MCNucleus -----------------------------
(***************************************************************************)
(* Values for the constants of Nucleus.                                    *)
(***************************************************************************)
EXTENDS Nucleus, TLC

CONSTANTS p1, p2, p3, p4, a, b, c, d

P(s) == [op |-> LOCK, sem |-> s]
V(s) == [op |-> UNLOCK, sem |-> s]

\* The shapes the support level uses: one P at most.
SingleP == {<<P(a)>>, <<V(a)>>, <<V(a), P(b)>>, <<P(a), V(b)>>}

\* Vectors that wait for several semaphores at once.
MultiP == {<<P(a), P(b)>>, <<V(b), V(a)>>, <<P(b)>>, <<V(a), P(b)>>}

\* More semaphores than descriptors, two processes and three waits.
ManySems == {<<P(a), P(b)>>, <<P(c)>>}

\* A V on the semaphore that the same vector waits for.
SelfV == {<<P(a), V(a)>>}

\* Two processes that hand the processor to each other.
PingPong == {<<V(a), P(b)>>, <<V(b), P(a)>>}

\* No vectors at all.
NoVectors == {}

Symmetry4 == Permutations({p1, p2, p3, p4})
=============================================================================

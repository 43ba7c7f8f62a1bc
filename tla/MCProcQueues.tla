---------------------------- MODULE MCProcQueues ----------------------------
(***************************************************************************)
(* Values for the constants of ProcQueues.                                 *)
(***************************************************************************)
EXTENDS ProcQueues, TLC

CONSTANTS a, b, c

SemSymmetry == Permutations(Sem)

\* No action reads ret, and view is a function of the links: two states that
\* differ in nothing else have the same successors.
Structure == <<procs, running_queue, asl>>
=============================================================================

---------------------------- MODULE MCVirtualSem ----------------------------
(***************************************************************************)
(* Three T-processes and two semaphores.                                   *)
(***************************************************************************)
EXTENDS VirtualSem

CONSTANTS t1, t2, t3, x, y
=============================================================================

---------------------------- MODULE MCDiskDaemon ----------------------------
(***************************************************************************)
(* Two T-processes and three positions.  From position 0 the last one is   *)
(* as far away as 10000 sectors are.                                       *)
(***************************************************************************)
EXTENDS DiskDaemon

MCPosition == {0, 1, 3}
=============================================================================

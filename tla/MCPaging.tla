------------------------------ MODULE MCPaging ------------------------------
(***************************************************************************)
(* Two T-processes with a page each and one they share, two frames.  The   *)
(* number of the boot page is that of no frame.                            *)
(***************************************************************************)
EXTENDS Paging

\* Constraint: what follows the races that breach records is not explored.
Unbroken == breach = "none"
=============================================================================

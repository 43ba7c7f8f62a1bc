----------------------------- MODULE MCTProcess -----------------------------
(***************************************************************************)
(* Three T-processes with delays of up to one unit of time.                *)
(***************************************************************************)
EXTENDS TProcess
=============================================================================

------------------------------ MODULE QueueOps ------------------------------
(***************************************************************************)
(* What a queue of processes needs beyond the standard operators.  It is   *)
(* written as a recursive function so that it can be reasoned about.       *)
(***************************************************************************)
EXTENDS Integers, SequencesExt

\* outProc, for every member of K: queue s without the members of K.
Without(s, K) ==
    LET rest[i \in 0..Len(s)] ==
          IF i = 0 THEN <<>>
          ELSE IF s[i] \in K THEN rest[i-1] ELSE Append(rest[i-1], s[i])
    IN  rest[Len(s)]
=============================================================================

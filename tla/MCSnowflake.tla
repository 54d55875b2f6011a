------------------------------ MODULE MCSnowflake ------------------------------
(***************************************************************************)
(* Instances of Snowflake for TLC.                                         *)
(***************************************************************************)
EXTENDS Snowflake

CONSTANTS p1, p2, p3, p4, p5

\* A run and its restart, another machine, one out of range, and one start time
\* that cannot be read.
MCMachine ==
  [p \in Procs |-> CASE p \in {p1, p2} -> 0
                     [] p = p3 -> 1
                     [] p = p4 -> MaxNode + 1
                     [] OTHER -> 1]

MCStartTime == [p \in Procs |-> IF p = p5 THEN "" ELSE "date"]
=============================================================================

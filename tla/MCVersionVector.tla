-------------------------- MODULE MCVersionVector --------------------------
(***************************************************************************)
(* VersionVector for TLC: three nodes (two entries can be concurrent and a *)
(* third can have seen both), two writes on each, the two strategies of    *)
(* ConflictResolver that decide, and a clock of three instants, so that    *)
(* writes carry equal and different times.                                 *)
(***************************************************************************)
EXTENDS VersionVector

CONSTANTS n1, n2, n3

MCNodes == {n1, n2, n3}

MCStrategies == {"LAST_WRITE_WINS", "VECTOR_DOMINANCE"}

\* The nodes are interchangeable: nothing orders or names them.
NodeSymmetry == Permutations(MCNodes)

=============================================================================

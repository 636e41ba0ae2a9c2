------------------------------- MODULE MCWal -------------------------------
(***************************************************************************)
(* Wal for TLC: one payload (the log does not look into it), a file cap of *)
(* a header and two records, a retention of two files, three timestamps,   *)
(* three appends in each run of the process and one crash.                 *)
(***************************************************************************)
EXTENDS Wal

CONSTANTS p

MCPayloads == {p}

=============================================================================

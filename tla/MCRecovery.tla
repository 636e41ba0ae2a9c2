----------------------------- MODULE MCRecovery -----------------------------
(***************************************************************************)
(* Recovery for TLC: the mutations a client can log, over one key (every   *)
(* kind of record) and over two keys (two writes that do not overwrite     *)
(* each other).                                                            *)
(***************************************************************************)
EXTENDS Recovery

CONSTANTS k1, k2, a, b

MCKeys == {k1, k2}

MCValues == {a, b}

Set(k, v) == [type |-> "SET", key |-> k, value |-> v]

MCOneKey == {Set(k1, a),
             [type |-> "CAS", key |-> k1, value |-> b],
             [type |-> "DELETE", key |-> k1, value |-> Nil]}

MCTwoKeys == {Set(k1, a), Set(k2, a)}

=============================================================================

--------------------------- MODULE MCKeyColSearch ---------------------------
(* Binary search over every sorted key array drawn from six names. *)
EXTENDS KeyColSearchLoop

MCNameOrder == <<"a", "b", "f", "id", "k", "zz">>
=============================================================================

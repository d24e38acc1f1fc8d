----------------------------- MODULE MCPgLeader -----------------------------
(***************************************************************************)
(* PgLeader on small instances for TLC.                                    *)
(***************************************************************************)
EXTENDS PgLeader, TLC

Symmetric == Permutations(Proc)
=============================================================================

------------------------------ MODULE MCPgPool ------------------------------
(***************************************************************************)
(* PgPool on small instances for TLC.                                      *)
(***************************************************************************)
EXTENDS PgPool

\* Slots of conns_ differ in nothing but their place.
Symmetric == Permutations(Conn)

=============================================================================

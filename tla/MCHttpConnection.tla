-------------------------- MODULE MCHttpConnection --------------------------
(***************************************************************************)
(* HttpConnection on small instances for TLC.                              *)
(***************************************************************************)
EXTENDS HttpConnection
=============================================================================

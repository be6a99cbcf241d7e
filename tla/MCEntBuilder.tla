---------------------------- MODULE MCEntBuilder ------------------------------
(*****************************************************************************)
(* Every entity of the client, three calls on a builder, a create and what   *)
(* comes after it.                                                           *)
(*****************************************************************************)
EXTENDS EntBuilder

AllEntities == DOMAIN Client
===============================================================================

------------------------------- MODULE MCServer -------------------------------
(***************************************************************************)
(* Server for TLC: status changes and a checkout that share one connection.*)
(***************************************************************************)
EXTENDS Server
==============================================================================

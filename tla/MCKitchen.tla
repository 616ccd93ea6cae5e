------------------------------- MODULE MCKitchen ------------------------------
(***************************************************************************)
(* Kitchen for TLC: a call to core is made by a pipeline or by a client.   *)
(***************************************************************************)
EXTENDS Kitchen

AllCalls == (Orders \X (0..Lives)) \cup Clients
==============================================================================

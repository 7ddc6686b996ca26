---------------------------- MODULE MCLeadership ----------------------------
(***************************************************************************)
(* One node and its cluster: elections, a monitor, HTTP requests, calls of *)
(* VerifyBusinessLeadership and a watcher.                                 *)
(***************************************************************************)
EXTENDS BusinessLeadership
=============================================================================

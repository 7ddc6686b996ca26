------------------------------ MODULE MCEvents ------------------------------
(***************************************************************************)
(* Two subscriptions that come and go while the status and the leadership  *)
(* change in every order.                                                  *)
(***************************************************************************)
EXTENDS LeadershipEvents
=============================================================================

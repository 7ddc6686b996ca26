----------------------------- MODULE MCNetwork -----------------------------
(***************************************************************************)
(* Three founders, one of which a joining node may replace.                *)
(***************************************************************************)
EXTENDS PeerNetwork
=============================================================================

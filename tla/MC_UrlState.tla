----------------------------- MODULE MC_UrlState -----------------------------
(***************************************************************************)
(* UrlState for TLC.  The KVars are those of UrlState.                     *)
(***************************************************************************)
EXTENDS UrlState
=============================================================================

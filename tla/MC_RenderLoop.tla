---------------------------- MODULE MC_RenderLoop ----------------------------
(***************************************************************************)
(* RenderLoop for TLC.                                                     *)
(***************************************************************************)
EXTENDS RenderLoop
=============================================================================

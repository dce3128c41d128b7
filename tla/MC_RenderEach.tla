---------------------------- MODULE MC_RenderEach ----------------------------
(***************************************************************************)
(* RenderEach for TLC: threads are interchangeable, and items if all can   *)
(* be rendered.                                                            *)
(***************************************************************************)
EXTENDS RenderEach, TLC

ThreadSymmetry ==
  Permutations(Threads) \cup (IF Unrenderable = {} THEN Permutations(Items) ELSE {})
=============================================================================

---------------------------- MODULE MC_InputSync ----------------------------
(***************************************************************************)
(* InputSync for TLC: all texts up to a length.                            *)
(***************************************************************************)
EXTENDS InputSync

CONSTANT MaxLen

ShortTexts == UNION {[1..n -> Letters] : n \in 0..MaxLen}
=============================================================================

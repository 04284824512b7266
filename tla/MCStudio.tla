------------------------------ MODULE MCStudio ------------------------------
(***************************************************************************)
(* StudioApp for TLC: two vectors and a benchmark sequence of both.        *)
(***************************************************************************)
EXTENDS StudioApp

CONSTANTS v1, v2

MCPresets == <<v1, v2>>
=============================================================================

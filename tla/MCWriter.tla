------------------------------ MODULE MCWriter ------------------------------
(* Writer for TLC: the constants are numbers and sets of numbers, so each .cfg
   gives them directly. *)
EXTENDS Writer
=============================================================================

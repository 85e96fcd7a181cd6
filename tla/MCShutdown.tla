----------------------------- MODULE MCShutdown -----------------------------
(* Shutdown for TLC: the streams are model values. *)
EXTENDS Shutdown
=============================================================================

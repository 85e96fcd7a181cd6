-------------------------- MODULE MCReceiveWindow --------------------------
(* ReceiveWindow for TLC: the tasks are model values. *)
EXTENDS ReceiveWindow
=============================================================================

----------------------------- MODULE MCInvoker -----------------------------
(* Invoker for TLC: its constants are numbers. *)
EXTENDS Invoker
=============================================================================

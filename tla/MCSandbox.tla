------------------------------ MODULE MCSandbox ------------------------------
(* Sandbox with two or three invocations, and all faults or one.           *)
EXTENDS Sandbox
=============================================================================

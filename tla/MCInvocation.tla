---------------------------- MODULE MCInvocation ----------------------------
(* Every command line of Invocation. *)
EXTENDS Invocation

MCInvocations == Invocation
=============================================================================

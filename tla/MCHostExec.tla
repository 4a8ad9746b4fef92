----------------------------- MODULE MCHostExec -----------------------------
(* Instances of HostExec: every constant is a number or a set of strings.    *)
EXTENDS HostExec
=============================================================================

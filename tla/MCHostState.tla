---------------------------- MODULE MCHostState ----------------------------
(* HostState for TLC. *)
EXTENDS HostState

=============================================================================

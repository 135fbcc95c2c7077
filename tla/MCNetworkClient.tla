-------------------------- MODULE MCNetworkClient --------------------------
(* NetworkClient with two calls, of the same kind or not. *)
EXTENDS NetworkClient

=============================================================================

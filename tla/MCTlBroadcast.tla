--------------------------- MODULE MCTlBroadcast ---------------------------
(* Instances of TlBroadcast for TLC. *)
EXTENDS TlBroadcast

CONSTANTS l1, l2

=============================================================================

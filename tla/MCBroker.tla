------------------------------ MODULE MCBroker ------------------------------
(* Small instances of Broker for TLC. *)
EXTENDS Broker

CONSTANTS s1, s2, c1

=============================================================================

---------------------------- MODULE MCBrokerGate ----------------------------
(* A small instance of BrokerGate for TLC. *)
EXTENDS BrokerGate

CONSTANTS h1, h2

=============================================================================

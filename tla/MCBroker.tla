------------------------------ MODULE MCBroker ------------------------------
(***************************************************************************)
(* TLC instance of Broker.                                                 *)
(***************************************************************************)
EXTENDS BrokerService, TLC

\* Connections are interchangeable.  Used in runs without liveness only.
Symmetry == Permutations(Conns)
=============================================================================

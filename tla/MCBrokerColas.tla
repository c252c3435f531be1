---------------------------- MODULE MCBrokerColas ----------------------------
(* BrokerColas for TLC. *)
EXTENDS BrokerColas

Simetria == Permutations(Procesos \ SinIp)
=============================================================================

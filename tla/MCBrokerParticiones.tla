------------------------ MODULE MCBrokerParticiones ------------------------
(***************************************************************************)
(* BrokerParticiones for TLC: memories of a few cells, as many payloads as *)
(* messages fit plus the one that arrives.                                 *)
(***************************************************************************)
EXTENDS BrokerParticiones

Simetria == Permutations(Datos)
=============================================================================

---------------------------- MODULE MCBrokerBuddy ----------------------------
(***************************************************************************)
(* BrokerBuddy for TLC: a memory of 8 cells, as many payloads as    *)
(* messages fit plus the one that arrives.                                 *)
(***************************************************************************)
EXTENDS BrokerBuddy
=============================================================================

------------------------------- MODULE MCSAFA -------------------------------
(***************************************************************************)
(* SAFA for TLC: two CPUs and two GDTs, the first with any script.         *)
(***************************************************************************)
EXTENDS SAFA

L(op, arg) == [op |-> op, arg |-> arg]
DeRecursos == {<<L("wait", "R"), L("signal", "R")>>, <<L("signal", "R"), L("signal", "R")>>}
Largo == <<L("#", ""), L("concentrar", ""), L("asignar", "")>>
DeUna == {<<L(op, "")>> : op \in {"abrir", "flush", "close", "crear", "borrar", "falta"}}
MCScripts == <<DeRecursos \cup {Largo} \cup DeUna, {<<L("wait", "R"), L("signal", "R")>>}>>
MCSimetria == Permutations(CPUs)
=============================================================================

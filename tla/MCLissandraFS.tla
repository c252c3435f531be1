---------------------------- MODULE MCLissandraFS ----------------------------
(***************************************************************************)
(* LissandraFS for TLC: two tables, inserts of one key out of order, a     *)
(* SELECT and a DROP; a CREATE and a DESCRIBE on another connection.       *)
(***************************************************************************)
EXTENDS LissandraFS

CONSTANTS A, B, i1, i2, i3, s1, d1, c1, e1

MCTablas == {A, B}
MCCreadas == <<A, B>>
MCPedidos == {i1, i2, i3, s1, d1, c1, e1}
MCTipo == i1 :> "INSERT" @@ i2 :> "INSERT" @@ i3 :> "INSERT" @@ s1 :> "SELECT"
          @@ d1 :> "DROP" @@ c1 :> "CREATE" @@ e1 :> "DESCRIBE"
MCTabla == i1 :> A @@ i2 :> A @@ i3 :> B @@ s1 :> A @@ d1 :> B @@ c1 :> B @@ e1 :> A
MCPrevio == i1 :> Nadie @@ i2 :> i1 @@ s1 :> i2 @@ i3 :> s1 @@ d1 :> i3 @@ c1 :> Nadie @@ e1 :> c1
MCClave == [p \in MCPedidos |-> 0]
(* With Medio = 2 i2, later than i1 by the clock, converts to less. *)
MCTS == i1 :> 3 @@ i2 :> 5 @@ i3 :> 6 @@ s1 :> 7 @@ d1 :> 7 @@ c1 :> 7 @@ e1 :> 7
=============================================================================

--------------------------- MODULE MCPoolMemorias ---------------------------
(***************************************************************************)
(* PoolMemorias for TLC: ka and kb are keys of one table, kc of another.   *)
(***************************************************************************)
EXTENDS PoolMemorias, TLC

CONSTANTS s1, s2, i1, i2, i3, i4, d1, j1, ka, kb, kc, ventas, compras

MCTabla == ka :> ventas @@ kb :> ventas @@ kc :> compras
MCTipo == Restrict(s1 :> "SELECT" @@ s2 :> "SELECT" @@ i1 :> "INSERT" @@ i2 :> "INSERT"
                   @@ i3 :> "INSERT" @@ i4 :> "INSERT" @@ d1 :> "DROP" @@ j1 :> "JOURNAL", Pedidos)
MCClave == Restrict(s1 :> ka @@ s2 :> kc @@ i1 :> ka @@ i2 :> kb @@ i3 :> kc @@ i4 :> kb
                    @@ d1 :> kc @@ j1 :> ka, Pedidos)
=============================================================================

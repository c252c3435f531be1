----------------------------- MODULE MCGameCard -----------------------------
(***************************************************************************)
(* GameCard for TLC.  Lines of 1 and 2 bytes in blocks of 2: both need two *)
(* blocks, a CATCH at lejos gives one back, and lejos alone fills one.    *)
(***************************************************************************)
EXTENDS GameCard, TLC

CONSTANTS n1, n2, n3, c1, g1, pikachu, onix, cerca, lejos

MCMensajes == {n1, n2, n3, c1, g1}
MCTipo == n1 :> "NEW" @@ n2 :> "NEW" @@ n3 :> "NEW" @@ c1 :> "CATCH" @@ g1 :> "GET"
MCPokemon == n1 :> pikachu @@ n2 :> pikachu @@ n3 :> onix @@ c1 :> pikachu @@ g1 :> onix
MCPosicion == n1 :> cerca @@ n2 :> lejos @@ n3 :> cerca @@ c1 :> lejos @@ g1 :> cerca
MCLargo == cerca :> 1 @@ lejos :> 2
=============================================================================

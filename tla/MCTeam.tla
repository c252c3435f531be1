------------------------------- MODULE MCTeam -------------------------------
(***************************************************************************)
(* Team for TLC: three trainers, the first of which needs two onix and     *)
(* stands where two pikachu are; each of the others needs a pikachu and    *)
(* stands where an onix is.                                                *)
(***************************************************************************)
EXTENDS Team

CONSTANTS l1, l2, pikachu, onix

MCMensajes == {l1, l2}
MCEspecies == {pikachu, onix}
MCEntrenadores == 1..3
MCObjetivo == <<pikachu :> 0 @@ onix :> 2, pikachu :> 1 @@ onix :> 0, pikachu :> 1 @@ onix :> 0>>
MCPosInicial == <<0, 1, 2>>
MCTipo == l1 :> "LOCALIZED" @@ l2 :> "LOCALIZED"
MCEspecie == l1 :> pikachu @@ l2 :> onix
MCLugares == l1 :> <<0, 0>> @@ l2 :> <<1, 2>>
=============================================================================

-------------------------------- MODULE Team --------------------------------
(***************************************************************************)
(* A Team (Team/planificador.c, serverTeam.c, libTeam.c): trainers that    *)
(* capture the pokemon the Broker announces and then swap what they do not *)
(* need.                                                                   *)
(*                                                                         *)
(* Threads: one per message; planificadorSeleccionEntrenador, which gives  *)
(* a pokemon to a trainer; the planner of ALGORITMO_PLANIFICACION; one per *)
(* trainer; seFinalizaronLasCapturas; and algoritmoDeteccionDeadlock.      *)
(* encolarEntrenador and desencolarEntrenadorCercano take their mutex by   *)
(* value, so nothing excludes the threads that use a queue: Carrera is two *)
(* of them on one list at once.  What follows it, or the use of a NULL or  *)
(* freed pointer, is not modelled: the Team is then caido.                 *)
(*                                                                         *)
(* A position is one coordinate.  A pokemon is the announcement it came    *)
(* from: <<message, place>>.  Names of pokemon do not contain one another. *)
(* The estimates of SJF are left open: any trainer of READY may be next.   *)
(***************************************************************************)
EXTENDS Integers, FiniteSets, SequencesExt

CONSTANTS
  Entrenadores, \* identificador: 1..n
  Especies,
  Objetivo,     \* of each trainer: how many of each pokemon it still needs
  PosInicial,   \* POSICIONES_ENTRENADORES
  Mensajes,     \* the APPEARED and LOCALIZED that may arrive, each once
  Tipo,         \* of each message
  Especie,      \* of each message
  Lugares,      \* of each message: a sequence of positions
  Algoritmo,    \* ALGORITMO_PLANIFICACION
  Quantum,      \* QUANTUM
  Ciclos,       \* cycles of CPU of a swap: 5
  MaxFallas,    \* bound on the captures that fail
  Nadie,        \* NULL
  Colgado       \* a pointer to freed memory

ASSUME TeamAssumption ==
  /\ IsFiniteSet(Entrenadores) /\ Entrenadores = 1..Cardinality(Entrenadores)
  /\ IsFiniteSet(Especies)
  /\ Objetivo \in [Entrenadores -> [Especies -> Nat]]
  /\ \A e \in Entrenadores : \E s \in Especies : Objetivo[e][s] > 0
  /\ PosInicial \in [Entrenadores -> Nat]
  /\ Tipo \in [Mensajes -> {"APPEARED", "LOCALIZED"}]
  /\ Especie \in [Mensajes -> Especies]
  /\ Lugares \in [Mensajes -> Seq(Nat)]
  /\ Algoritmo \in {"FIFO", "RR", "SJF-SD", "SJF-CD"}
  /\ Quantum \in Nat \ {0} /\ Ciclos \in Nat \ {0} /\ MaxFallas \in Nat

(* <<message, place>>. *)
Pokemones == UNION {{m} \X DOMAIN Lugares[m] : m \in Mensajes}

(* A NULL is no name, pokemon, CATCH, partner or selection. *)
ASSUME NadieAssumption ==
  /\ Nadie # Colgado
  /\ {Nadie, Colgado} \cap Especies = {}
  /\ Nadie \notin Pokemones
  /\ Nadie \notin [id : Nat, especie : Especies]
  /\ {Nadie, Colgado} \cap [socio : Entrenadores, pos : Nat] = {}
  /\ Nadie \notin [entrenador : Entrenadores, pokemon : Pokemones]

VARIABLES
  ent,          \* each t_entrenador
  hilos,        \* the step of each trainer's thread, and its puedeEjecutar
  colas,        \* colaNew, colaReady, colaExecute, colaBlocked, colaFinished
  sem,          \* the counting semaphores
  globales,     \* objetivosGlobalesTeam
  requeridos,   \* listaPokemonRequeridos
  respaldo,     \* listaPokemonDeRespaldo
  recibidos,    \* pokemonesYaRecibidos: how many of each
  liberados,    \* the t_pokemon that were freed
  mensajes,     \* places of each message already dealt with; -1: not arrived
  seleccion,    \* what the selection thread has chosen
  catchs,       \* each CATCH, its trainer and the thread that deals with its result
  finCapturas,  \* seFinalizaronLasCapturas is over
  terminado,    \* establecerMetricasAlFinalizarTeam is over
  caido,        \* the process died, or its behaviour is undefined
  derroche,     \* history: a detection during a swap spent its tokens on nothing
  reelegido     \* history: a trainer that waited for a CAUGHT was chosen

listas == <<requeridos, respaldo, liberados>>
entrada == <<recibidos, mensajes>>
fin == <<finCapturas, terminado, caido, derroche>>
vars == <<ent, hilos, colas, sem, globales, listas, entrada, seleccion, catchs, fin, reelegido>>

(* What numbers add up to, counted one by one. *)
Unidades(f) == UNION {{x} \X (1 .. f[x]) : x \in DOMAIN f}
Suma(f) == Cardinality(Unidades(f))

(* establecerLaCantidadMaximaQuePuedeCapturar. *)
Cupo(e) == Suma(Objetivo[e])

(* establecerLosPokemonObjetivoDelTeam. *)
ObjetivosDelTeam == [s \in Especies |-> Suma([e \in Entrenadores |-> Objetivo[e][s]])]

CantidadCapturas == Suma(ObjetivosDelTeam)

Ninguno(falta) == \A s \in Especies : falta[s] = 0

Entrenador0(e) ==
  [falta |-> Objetivo[e], sobra |-> <<>>, cupo |-> Cupo(e), pos |-> PosInicial[e],
   quantum |-> 0, contador |-> 0, ocupado |-> FALSE, captura |-> Nadie, catch |-> Nadie,
   destino |-> Nadie, aCambiar |-> Nadie]

Init ==
  /\ ent = [e \in Entrenadores |-> Entrenador0(e)]
  /\ hilos = [e \in Entrenadores |-> [paso |-> "dormido", turno |-> 0, socio |-> Nadie]]
  /\ colas = [c \in {"NEW", "READY", "EXECUTE", "BLOCKED", "FINISHED"} |->
                IF c = "NEW" THEN [e \in Entrenadores |-> e] ELSE <<>>]
  /\ sem = [requeridos |-> 0, seleccionar |-> Cardinality(Entrenadores), listos |-> 0,
            cpu |-> 1, capturas |-> 0, deadlock |-> 0, equipo |-> 0]
  /\ globales = ObjetivosDelTeam
  /\ requeridos = <<>> /\ respaldo = <<>> /\ liberados = {}
  /\ recibidos = [s \in Especies |-> 0]
  /\ mensajes = [m \in Mensajes |-> -1]
  /\ seleccion = Nadie
  /\ catchs = <<>>
  /\ finCapturas = FALSE /\ terminado = FALSE /\ caido = FALSE
  /\ derroche = FALSE /\ reelegido = FALSE

-----------------------------------------------------------------------------
EspecieDe(p) == Especie[p[1]]
PosDe(p) == Lugares[p[1]][p[2]]
Distancia(a, b) == IF a < b THEN b - a ELSE a - b

UsaLiberado(s) == ToSet(s) \cap liberados # {}

En(e, paso) == ~caido /\ hilos[e].paso = paso
Ir(e, paso) == hilos' = [hilos EXCEPT ![e].paso = paso]

Limitado == Algoritmo \in {"RR", "SJF-CD"}

Mover1(e, de, a) == [colas EXCEPT ![de] = RemoveFirst(@, e), ![a] = Append(@, e)]

-----------------------------------------------------------------------------
(* The thread of an APPEARED or a LOCALIZED.                               *)

(* A LOCALIZED, one at a time, is left aside if some message about the     *)
(* pokemon came before.                                                    *)
YaRecibido(m) == globales[Especie[m]] = 0 \/ recibidos[Especie[m]] > 0

OtroLocalized(m) ==
  \E n \in Mensajes : Tipo[n] = "LOCALIZED" /\ mensajes[n] \in 0 .. (Len(Lugares[n]) - 1)

Recibir(m) ==
  /\ ~caido
  /\ mensajes[m] = -1
  /\ Tipo[m] = "LOCALIZED" => ~OtroLocalized(m)
  /\ mensajes' = [mensajes EXCEPT ![m] =
       IF Tipo[m] = "LOCALIZED" /\ YaRecibido(m) THEN Len(Lugares[m]) ELSE 0]
  /\ UNCHANGED <<ent, hilos, colas, sem, globales, listas, recibidos, seleccion, catchs, fin, reelegido>>

LoNecesito(s) == globales[s] > 0

(* necesitoAgregarPokemon: one more than the Team needs is let in. *)
NecesitoAgregar(s) == recibidos[s] <= globales[s]

(* inclusionPokemonACapturar, with m_mensajeAppeared. *)
Incluir(m) ==
  LET s == Especie[m]
      p == <<m, mensajes[m] + 1>>
  IN  /\ ~caido
      /\ mensajes[m] \in 0 .. (Len(Lugares[m]) - 1)
      /\ mensajes' = [mensajes EXCEPT ![m] = @ + 1]
      /\ IF LoNecesito(s) /\ NecesitoAgregar(s)
         THEN /\ recibidos' = [recibidos EXCEPT ![s] = @ + 1]
              /\ requeridos' = Append(requeridos, p)
              /\ sem' = [sem EXCEPT !.requeridos = @ + 1]
              /\ UNCHANGED respaldo
         ELSE /\ respaldo' = IF LoNecesito(s) THEN Append(respaldo, p) ELSE respaldo
              /\ UNCHANGED <<recibidos, requeridos, sem>>
      /\ UNCHANGED <<ent, hilos, colas, globales, liberados, seleccion, catchs, fin, reelegido>>

-----------------------------------------------------------------------------
(* planificadorSeleccionEntrenador.                                        *)

(* seEncuentraOcupado.  A trainer that waits for its CAUGHT counts too. *)
Disponible(e) == ~ent[e].ocupado /\ ent[e].cupo # 0

(* The places of a list where one is. *)
Disponibles(lista) == {i \in DOMAIN lista : Disponible(lista[i])}

(* The first place where d is least. *)
MasCerca(d) ==
  CHOOSE i \in DOMAIN d : \A j \in DOMAIN d : d[i] < d[j] \/ (d[i] = d[j] /\ i <= j)

PuedeElegir == ~caido /\ seleccion = Nadie /\ sem.requeridos > 0 /\ sem.seleccionar > 0

(* One pokemon: the nearest of the trainers in NEW and in BLOCKED. *)
EnEspera == colas["NEW"] \o colas["BLOCKED"]

MasCercano(p) ==
  EnEspera[MasCerca([i \in Disponibles(EnEspera) |-> Distancia(ent[EnEspera[i]].pos, PosDe(p))])]

UnPokemon == Len(requeridos) = 1 /\ Disponibles(EnEspera) # {}

(* Otherwise the first available trainer of BLOCKED, and its nearest       *)
(* pokemon; with none there is a NULL.                                     *)
ElegirCae == PuedeElegir /\ (UsaLiberado(requeridos) \/ (~UnPokemon /\ Disponibles(colas["BLOCKED"]) = {}))

Elegido ==
  IF UnPokemon THEN MasCercano(requeridos[1]) ELSE colas["BLOCKED"][Min(Disponibles(colas["BLOCKED"]))]

Elegir ==
  LET e == Elegido
      i == MasCerca([k \in DOMAIN requeridos |-> Distancia(ent[e].pos, PosDe(requeridos[k]))])
  IN  /\ PuedeElegir
      /\ ~ElegirCae
      /\ seleccion' = [entrenador |-> e, pokemon |-> requeridos[i]]
      /\ requeridos' = RemoveAt(requeridos, i)
      /\ sem' = [sem EXCEPT !.requeridos = @ - 1, !.seleccionar = @ - 1]
      /\ reelegido' = (reelegido \/ ent[e].catch # Nadie)
      /\ UNCHANGED <<ent, hilos, colas, globales, respaldo, liberados, entrada, catchs, fin>>

(* desencolarEntrenadorSobreCola. *)
ColaDe(e) == IF Contains(colas["NEW"], e) THEN "NEW" ELSE "BLOCKED"

(* It finished meanwhile: the queue gives a NULL. *)
SacarCae ==
  /\ ~caido /\ seleccion # Nadie
  /\ ~Contains(colas[ColaDe(seleccion.entrenador)], seleccion.entrenador)

Sacar ==
  /\ ~caido /\ seleccion # Nadie
  /\ ~SacarCae
  /\ LET e == seleccion.entrenador IN
     /\ colas' = Mover1(e, ColaDe(e), "READY")
     /\ ent' = [ent EXCEPT ![e].captura = seleccion.pokemon]
  /\ sem' = [sem EXCEPT !.listos = @ + 1]
  /\ seleccion' = Nadie
  /\ UNCHANGED <<hilos, globales, listas, entrada, catchs, fin, reelegido>>

-----------------------------------------------------------------------------
(* The planner.  entrenadorIntercambio is not cleared after a swap.        *)

PuedePlanificar == ~caido /\ sem.listos > 0 /\ sem.cpu > 0

(* elDeMenorQuantum: the estimates are left open. *)
Elegibles == IF Algoritmo \in {"FIFO", "RR"} THEN {1} ELSE DOMAIN colas["READY"]

QuantumOtorgado(e) ==
  CASE Algoritmo = "RR" -> Quantum [] Algoritmo = "SJF-CD" -> 1 [] OTHER -> ent[e].quantum

CiclosDeIntercambio(e) ==
  IF ~Limitado THEN 0
  ELSE IF ent[e].destino # Nadie /\ ent[e].contador = 0 THEN Ciclos ELSE ent[e].contador

Planificar ==
  /\ PuedePlanificar
  /\ \E i \in Elegibles :
       LET e == colas["READY"][i] IN
       /\ colas' = Mover1(e, "READY", "EXECUTE")
       /\ ent' = [ent EXCEPT ![e].quantum = QuantumOtorgado(e), ![e].contador = CiclosDeIntercambio(e)]
       /\ hilos' = [hilos EXCEPT ![e].turno = @ + 1]
  /\ sem' = [sem EXCEPT !.listos = @ - 1, !.cpu = @ - 1]
  /\ UNCHANGED <<globales, listas, entrada, seleccion, catchs, fin, reelegido>>

-----------------------------------------------------------------------------
(* planificarEntrenador: the thread of a trainer.                          *)

Captura(e) == ent[e].captura # Nadie
Meta(e) == IF Captura(e) THEN PosDe(ent[e].captura) ELSE ent[e].destino.pos
EnLugar(e) == ent[e].pos = Meta(e)

(* No pokemon and no partner, or one that was freed. *)
SinMeta(e) ==
  IF Captura(e) THEN ent[e].captura \in liberados ELSE ent[e].destino \in {Nadie, Colgado}

(* The thread still accounts a capture it took for done (no Broker). *)
Acreditando(e) == \E c \in DOMAIN catchs : catchs[c].de = e /\ catchs[c].propio /\ catchs[c].paso # "fin"

Despierta(e) == En(e, "dormido") /\ hilos[e].turno > 0 /\ ~Acreditando(e)

(* moverEntrenador: all the way, or as far as the quantum goes. *)
Pasos(e) ==
  LET d == Distancia(ent[e].pos, Meta(e))
  IN  IF Limitado /\ ent[e].quantum < d THEN ent[e].quantum ELSE d

Mover(e) ==
  /\ Despierta(e)
  /\ ~SinMeta(e)
  /\ ent' = [ent EXCEPT ![e].pos = IF @ < Meta(e) THEN @ + Pasos(e) ELSE @ - Pasos(e),
                        ![e].quantum = IF Limitado THEN @ - Pasos(e) ELSE @]
  /\ hilos' = [hilos EXCEPT ![e].paso = "decidir", ![e].turno = @ - 1]
  /\ UNCHANGED <<colas, sem, globales, listas, entrada, seleccion, catchs, fin, reelegido>>

(* intercambiarConRestriccion: the cycles of a swap that fit in the quantum. *)
CiclosAhora(e) ==
  IF Captura(e) \/ ~EnLugar(e) THEN 0
  ELSE IF ent[e].quantum < ent[e].contador THEN ent[e].quantum ELSE ent[e].contador

SinTerminar(e) ==
  \/ ~EnLugar(e)
  \/ Captura(e) /\ Limitado /\ ent[e].quantum = 0
  \/ ~Captura(e) /\ CiclosAhora(e) < ent[e].contador

Decidiendo(e) == En(e, "decidir") /\ ~SinMeta(e)

(* Mutant: the CPU is not given back. *)
QuedarseConLaCPU == [sem EXCEPT !.listos = @ + 1]

(* Back to READY: the CPU is free and there is one more to plan. *)
DejarCPU == [sem EXCEPT !.cpu = @ + 1, !.listos = @ + 1]

VolverAReady(e) ==
  /\ Decidiendo(e)
  /\ SinTerminar(e)
  /\ colas' = Mover1(e, "EXECUTE", "READY")
  /\ ent' = [ent EXCEPT ![e].contador = @ - CiclosAhora(e), ![e].quantum = @ - CiclosAhora(e)]
  /\ sem' = DejarCPU
  /\ Ir(e, "dormido")
  /\ UNCHANGED <<globales, listas, entrada, seleccion, catchs, fin, reelegido>>

(* The CPU is left before the CATCH is sent.  Without a Broker the trainer *)
(* goes on as if it had been caught.  What is left of the quantum is not   *)
(* used any more.                                                          *)
EnviarCatch(e) ==
  /\ Decidiendo(e)
  /\ Captura(e)
  /\ ~SinTerminar(e)
  /\ colas' = [colas EXCEPT !["EXECUTE"] = RemoveFirst(@, e)]
  /\ sem' = [sem EXCEPT !.cpu = @ + 1]
  /\ \E sinBroker \in BOOLEAN :
       catchs' = Append(catchs, [de |-> e, propio |-> sinBroker, fallo |-> FALSE,
                                 paso |-> IF sinBroker THEN "fallido" ELSE "enBroker"])
  /\ Ir(e, "bloquear")
  /\ ent' = [ent EXCEPT ![e].quantum = 0]
  /\ UNCHANGED <<globales, listas, entrada, seleccion, fin, reelegido>>

(* retornarMensajeCatch; the message that failed has no id of the Broker. *)
SuCatch(e) == Max({c \in DOMAIN catchs : catchs[c].de = e})

MensajeCatch(e) ==
  [id |-> IF catchs[SuCatch(e)].propio THEN 0 ELSE SuCatch(e), especie |-> EspecieDe(ent[e].captura)]

Bloquear(e) ==
  /\ En(e, "bloquear")
  /\ ent[e].captura \notin liberados \cup {Nadie}
  /\ ent' = [ent EXCEPT ![e].catch = MensajeCatch(e)]
  /\ colas' = [colas EXCEPT !["BLOCKED"] = Append(@, e)]
  /\ catchs' = IF catchs[SuCatch(e)].propio
               THEN [catchs EXCEPT ![SuCatch(e)].paso = "acreditar"] ELSE catchs
  /\ Ir(e, "dormido")
  /\ UNCHANGED <<sem, globales, listas, entrada, seleccion, fin, reelegido>>

-----------------------------------------------------------------------------
(* The thread of a CAUGHT.                                                 *)

(* validarSiSePudoCapturar: the answer is lost if the trainer of that id   *)
(* is not in colaBlocked when it comes.                                    *)
Esperando(c) ==
  LET e == catchs[c].de
  IN  Contains(colas["BLOCKED"], e) /\ ent[e].catch # Nadie /\ ent[e].catch.id = c

Fallas == {c \in DOMAIN catchs : catchs[c].fallo}

Caught(c) ==
  /\ ~caido
  /\ catchs[c].paso = "enBroker"
  /\ \E fallo \in BOOLEAN :
       /\ fallo => Cardinality(Fallas) < MaxFallas
       /\ catchs' = [catchs EXCEPT
            ![c].fallo = fallo,
            ![c].paso = IF ~Esperando(c) THEN "perdido" ELSE IF fallo THEN "auxiliar" ELSE "acreditar"]
  /\ UNCHANGED <<ent, hilos, colas, sem, globales, listas, entrada, seleccion, fin, reelegido>>

(* Mutant: what a trainer does not need is not kept. *)
PerderSobrante(x, s) ==
  IF x.falta[s] > 0 THEN [x EXCEPT !.falta[s] = @ - 1] ELSE x

(* agregarPokemonComoObtenido and actualizarObjetivosDelEntrenador. *)
Obtener(x, s) ==
  IF x.falta[s] > 0 THEN [x EXCEPT !.falta[s] = @ - 1]
  ELSE [x EXCEPT !.sobra = Append(@, s)]

(* eliminarLosPokemonsDeRespaldo. *)
DeRespaldo(s) == {i \in DOMAIN respaldo : EspecieDe(respaldo[i]) = s}
Ultimo(s) == globales[s] = 1
SeLiberan(s) == IF Ultimo(s) THEN {respaldo[i] : i \in DeRespaldo(s)} ELSE {}

(* The entries of a list at some of its places. *)
Entradas(lista, I) ==
  [k \in 1..Cardinality(I) |-> lista[CHOOSE i \in I : Cardinality({j \in I : j <= i}) = k]]

(* A NULL or freed pointer on the way: no CATCH any more, no objective of  *)
(* the Team, no pokemon whose position to keep, or one freed before.       *)
AcreditarCae(c) ==
  LET x == ent[catchs[c].de]
      s == x.catch.especie
  IN  /\ ~caido
      /\ catchs[c].paso = "acreditar"
      /\ x.catch # Nadie =>
           \/ ~LoNecesito(s)
           \/ Ultimo(s) /\ UsaLiberado(respaldo)
           \/ x.captura = Nadie /\ x.falta[s] = 0
           \/ x.captura \in liberados \cup SeLiberan(s)

(* iterarAccionesAlCapturarConExito, up to the update of the trainer. *)
Acreditar(c) ==
  LET e == catchs[c].de
      s == ent[e].catch.especie
  IN  /\ ~caido
      /\ catchs[c].paso = "acreditar"
      /\ ~AcreditarCae(c)
      /\ globales' = [globales EXCEPT ![s] = @ - 1]
      /\ respaldo' = IF Ultimo(s) THEN Entradas(respaldo, DOMAIN respaldo \ DeRespaldo(s)) ELSE respaldo
      /\ liberados' = liberados \cup SeLiberan(s) \cup ({ent[e].captura} \ {Nadie})
      /\ ent' = [ent EXCEPT ![e] = [Obtener(ent[e], s) EXCEPT
                   !.catch = Nadie, !.captura = Nadie, !.ocupado = FALSE, !.cupo = @ - 1]]
      /\ catchs' = [catchs EXCEPT ![c].paso = "soltar"]
      /\ UNCHANGED <<hilos, colas, sem, requeridos, entrada, seleccion, fin, reelegido>>

Soltando(c) == ~caido /\ catchs[c].paso = "soltar"

(* The selection thread took it out of BLOCKED meanwhile. *)
SoltarCae(c) ==
  LET e == catchs[c].de IN
  Soltando(c) /\ Ninguno(ent[e].falta) /\ ~Contains(colas["BLOCKED"], e)

(* The rest of it: FINISHED, or free for another capture. *)
Soltar(c) ==
  LET e == catchs[c].de
      listo == Ninguno(ent[e].falta)
  IN  /\ Soltando(c)
      /\ ~SoltarCae(c)
      /\ colas' = IF listo THEN Mover1(e, "BLOCKED", "FINISHED") ELSE colas
      /\ sem' = [sem EXCEPT !.equipo = IF listo THEN @ + 1 ELSE @,
                            !.seleccionar = IF ent[e].cupo # 0 THEN @ + 1 ELSE @,
                            !.capturas = @ + 1]
      /\ catchs' = [catchs EXCEPT ![c].paso = "fin"]
      /\ UNCHANGED <<ent, hilos, globales, listas, entrada, seleccion, fin, reelegido>>

AuxiliarCae(c) ==
  /\ ~caido
  /\ catchs[c].paso = "auxiliar"
  /\ \/ ent[catchs[c].de].captura \in liberados \cup {Nadie}
     \/ ent[catchs[c].de].catch = Nadie
     \/ UsaLiberado(respaldo)

(* The capture failed.  mandarAPlanificarUnPokemonAuxiliar uses the first  *)
(* pokemon of the reserve and leaves it there.                             *)
Auxiliar(c) ==
  LET e == catchs[c].de
      otros == DeRespaldo(EspecieDe(ent[e].captura))
  IN  /\ ~caido
      /\ catchs[c].paso = "auxiliar"
      /\ ~AuxiliarCae(c)
      /\ ent' = [ent EXCEPT ![e].catch = Nadie, ![e].ocupado = FALSE]
      /\ requeridos' = IF otros = {} THEN requeridos ELSE Append(requeridos, respaldo[Min(otros)])
      /\ sem' = [sem EXCEPT !.requeridos = IF otros = {} THEN @ ELSE @ + 1, !.seleccionar = @ + 1]
      /\ catchs' = [catchs EXCEPT ![c].paso = "fin"]
      /\ UNCHANGED <<hilos, colas, globales, respaldo, liberados, entrada, seleccion, fin, reelegido>>

-----------------------------------------------------------------------------
(* Deadlock: the trainers that captured for others swap with them.         *)

(* Mutant: one token for each trainer that has something left over. *)
UnTokenPorEntrenador ==
  Cardinality({i \in DOMAIN colas["BLOCKED"] : Len(ent[colas["BLOCKED"][i]].sobra) > 1})

(* One token for each pokemon left over in BLOCKED. *)
Sobrantes == Suma([i \in DOMAIN colas["BLOCKED"] |-> Len(ent[colas["BLOCKED"][i]].sobra)])

(* seFinalizaronLasCapturas: by then no objective of the Team is left. *)
FinCapturas ==
  /\ ~caido /\ ~finCapturas
  /\ sem.capturas >= CantidadCapturas
  /\ finCapturas' = TRUE
  /\ sem' = [sem EXCEPT !.capturas = @ - CantidadCapturas, !.deadlock = @ + Sobrantes]
  /\ UNCHANGED <<ent, hilos, colas, globales, listas, entrada, seleccion, catchs, terminado, caido, derroche,
                 reelegido>>

(* The places of colaBlocked of those that may swap. *)
Bloqueados ==
  {i \in DOMAIN colas["BLOCKED"] :
     LET e == colas["BLOCKED"][i] IN ent[e].sobra # <<>> /\ ~ent[e].ocupado}

(* necesitaUnPokemonDelOtro. *)
LeSirven(e, o) == {i \in DOMAIN ent[o].sobra : ent[e].falta[ent[o].sobra[i]] > 0}
Necesita(e, o) == LeSirven(e, o) # {}
LeDa(o, e) == ent[o].sobra[Min(LeSirven(e, o))]

Parejas ==
  {p \in Bloqueados \X Bloqueados :
     LET a == colas["BLOCKED"][p[1]]
         b == colas["BLOCKED"][p[2]]
     IN  p[1] < p[2] /\ (Necesita(a, b) \/ Necesita(b, a))}

PrimeraPareja ==
  CHOOSE p \in Parejas : \A q \in Parejas : p[1] < q[1] \/ (p[1] = q[1] /\ p[2] <= q[2])

(* asignarYMoverEntrenadorAIntercambiar. *)
Asignar(e, o) ==
  /\ ent' = [ent EXCEPT
       ![e].ocupado = TRUE, ![o].ocupado = TRUE,
       ![e].destino = [socio |-> o, pos |-> ent[o].pos],
       ![e].aCambiar = LeDa(o, e),
       ![o].aCambiar = IF Necesita(o, e) THEN LeDa(e, o) ELSE @]
  /\ colas' = Mover1(e, "BLOCKED", "READY")

(* Two tokens are used up, whether there is a pair that can swap or not;   *)
(* while two trainers swap, those that are left may have nothing to swap.  *)
DetectarDeadlock ==
  /\ ~caido /\ finCapturas
  /\ sem.deadlock >= 2
  /\ sem' = [sem EXCEPT !.deadlock = @ - 2, !.listos = IF Parejas = {} THEN @ ELSE @ + 1]
  /\ IF Parejas = {} THEN UNCHANGED <<ent, colas>>
     ELSE LET a == colas["BLOCKED"][PrimeraPareja[1]]
              b == colas["BLOCKED"][PrimeraPareja[2]]
          IN  IF Necesita(a, b) THEN Asignar(a, b) ELSE Asignar(b, a)
  /\ derroche' = (derroche \/ (Parejas = {} /\ \E e \in Entrenadores : ent[e].ocupado))
  /\ UNCHANGED <<hilos, globales, listas, entrada, seleccion, catchs, finCapturas, terminado, caido,
                 reelegido>>

Intercambiando(e) == Decidiendo(e) /\ ~Captura(e) /\ ~SinTerminar(e)

(* What the partner is given: what it needs, or the first left over. *)
ParaElSocio(e) ==
  LET o == ent[e].destino.socio
  IN  IF ent[o].aCambiar = Nadie /\ ent[e].sobra # <<>> THEN Head(ent[e].sobra) ELSE ent[o].aCambiar

IntercambiarCae(e) ==
  /\ Intercambiando(e)
  /\ LET x == ent[e]
         y == ent[x.destino.socio]
     IN  \/ ~Contains(colas["BLOCKED"], x.destino.socio)
         \/ x.aCambiar \notin ToSet(y.sobra)
         \/ x.falta[x.aCambiar] = 0
         \/ ParaElSocio(e) \notin ToSet(x.sobra)
         \/ y.aCambiar # Nadie /\ y.falta[ParaElSocio(e)] = 0

(* ejecutarIntercambioDePokemones.  The pointers that are freed are not    *)
(* cleared in the trainer that moved.                                      *)
Intercambiar(e) ==
  LET o == ent[e].destino.socio
      a == ent[e].aCambiar
      b == ParaElSocio(e)
  IN  /\ Intercambiando(e)
      /\ ~IntercambiarCae(e)
      /\ ent' = [ent EXCEPT
           ![e] = [Obtener(ent[e], a) EXCEPT
                     !.sobra = RemoveFirst(@, b), !.destino = Colgado, !.aCambiar = Colgado],
           ![o] = [Obtener([ent[o] EXCEPT !.sobra = RemoveFirst(@, a)], b) EXCEPT
                     !.captura = Nadie, !.aCambiar = Nadie]]
      /\ hilos' = [hilos EXCEPT ![e].paso = "transicion", ![e].socio = o]
      /\ UNCHANGED <<colas, sem, globales, listas, entrada, seleccion, catchs, fin, reelegido>>

(* transicionarEntrenadorAlFinalizarIntercambio, "EXECUTE": the CPU is     *)
(* left, and then the trainer goes to its queue.                           *)
TransicionarMovido(e) ==
  /\ En(e, "transicion")
  /\ colas' = [colas EXCEPT !["EXECUTE"] = RemoveFirst(@, e)]
  /\ sem' = [sem EXCEPT !.cpu = @ + 1]
  /\ Ir(e, "asentar")
  /\ UNCHANGED <<ent, globales, listas, entrada, seleccion, catchs, fin, reelegido>>

Asentar(e) ==
  LET listo == Ninguno(ent[e].falta)
  IN  /\ En(e, "asentar")
      /\ colas' = [colas EXCEPT ![IF listo THEN "FINISHED" ELSE "BLOCKED"] = Append(@, e)]
      /\ ent' = [ent EXCEPT ![e].ocupado = FALSE]
      /\ sem' = [sem EXCEPT !.equipo = IF listo THEN @ + 1 ELSE @,
                            !.deadlock = IF listo THEN @ ELSE @ + 1]
      /\ Ir(e, "transicionSocio")
      /\ UNCHANGED <<globales, listas, entrada, seleccion, catchs, fin, reelegido>>

(* The same, "BLOCKED". *)
TransicionarSocio(e) ==
  LET o == hilos[e].socio
      listo == Ninguno(ent[o].falta)
  IN  /\ En(e, "transicionSocio")
      /\ colas' = IF listo THEN Mover1(o, "BLOCKED", "FINISHED") ELSE colas
      /\ ent' = [ent EXCEPT ![o].ocupado = FALSE]
      /\ sem' = [sem EXCEPT !.equipo = IF listo THEN @ + 1 ELSE @, !.deadlock = IF listo THEN @ ELSE @ + 1]
      /\ hilos' = [hilos EXCEPT ![e].paso = "dormido", ![e].socio = Nadie]
      /\ UNCHANGED <<globales, listas, entrada, seleccion, catchs, fin, reelegido>>

(* establecerMetricasAlFinalizarTeam: the trainers are freed. *)
Finalizar ==
  /\ ~caido /\ ~terminado
  /\ sem.equipo >= Cardinality(Entrenadores)
  /\ terminado' = TRUE
  /\ UNCHANGED <<ent, hilos, colas, sem, globales, listas, entrada, seleccion, catchs, finCapturas,
                 caido, derroche, reelegido>>

-----------------------------------------------------------------------------
(* The ways to die.                                                        *)

MoverCae(e) == Despierta(e) /\ SinMeta(e)
DecidirCae(e) == En(e, "decidir") /\ SinMeta(e)
BloquearCae(e) == En(e, "bloquear") /\ ent[e].captura \in liberados \cup {Nadie}

(* The threads; those that a mutex excludes, of messages and of accounts,  *)
(* count as one.                                                           *)
Actores ==
  ({"mensajes", "localized", "seleccion", "planificador", "deadlock", "fin", "cuentas"} \X {0})
    \cup ({"entrenador"} \X Entrenadores) \cup ({"captura"} \X DOMAIN catchs)

Si(condicion, unas) == IF condicion THEN unas ELSE {}

PorIncluir == {m \in Mensajes : mensajes[m] \in 0 .. (Len(Lugares[m]) - 1)}
PorDetectar == finCapturas /\ sem.deadlock >= 2

(* On its way to its partner a trainer frees the CPU before it is in READY. *)
CPULibre ==
  sem.cpu > 0 \/ \E e \in Entrenadores : Decidiendo(e) /\ ~Captura(e) /\ ~EnLugar(e)

(* The lists that each thread is about to change. *)
Cambia(h) ==
  CASE h[1] = "mensajes" ->
         UNION {IF NecesitoAgregar(Especie[m]) THEN {"recibidos", "requeridos"} ELSE {"respaldo"} :
                  m \in {n \in PorIncluir : LoNecesito(Especie[n])}}
    [] h[1] = "seleccion" ->
         Si(PuedeElegir, {"requeridos"})
           \cup (IF seleccion = Nadie THEN {} ELSE {"READY", ColaDe(seleccion.entrenador)})
    [] h[1] = "planificador" -> Si(sem.listos > 0 /\ CPULibre, {"READY", "EXECUTE"})
    [] h[1] = "deadlock" -> Si(PorDetectar /\ Parejas # {}, {"READY", "BLOCKED"})
    [] h[1] = "cuentas" ->
         Si(\E c \in DOMAIN catchs : catchs[c].paso = "acreditar" /\ ent[catchs[c].de].catch # Nadie
                                     /\ Ultimo(ent[catchs[c].de].catch.especie), {"globales", "respaldo"})
    [] h[1] = "captura" ->
         Si(Soltando(h[2]) /\ Ninguno(ent[catchs[h[2]].de].falta), {"BLOCKED", "FINISHED"})
           \cup Si(catchs[h[2]].paso = "auxiliar", {"requeridos"})
    [] h[1] = "entrenador" ->
         Si(hilos[h[2]].paso = "bloquear", {"BLOCKED"})
           \cup Si(Decidiendo(h[2]) /\ SinTerminar(h[2]), {"EXECUTE", "READY"})
           \cup Si(hilos[h[2]].paso = "transicion", {"EXECUTE"})
           \cup Si(hilos[h[2]].paso = "asentar",
                   {IF Ninguno(ent[h[2]].falta) THEN "FINISHED" ELSE "BLOCKED"})
           \cup Si(hilos[h[2]].paso = "transicionSocio" /\ Ninguno(ent[hilos[h[2]].socio].falta),
                   {"BLOCKED", "FINISHED"})
    [] OTHER -> {}

(* The lists that each thread is about to go through. *)
Recorre(h) ==
  CASE h[1] = "mensajes" -> Si(PorIncluir # {}, {"globales", "recibidos"})
    [] h[1] = "localized" ->
         Si(\E m \in Mensajes : Tipo[m] = "LOCALIZED" /\ mensajes[m] = -1, {"globales", "recibidos"})
    [] h[1] = "seleccion" -> Si(PuedeElegir, {"NEW", "BLOCKED"})
    [] h[1] = "deadlock" -> Si(PorDetectar, {"BLOCKED"})
    [] h[1] = "fin" -> Si(~finCapturas /\ sem.capturas >= CantidadCapturas, {"BLOCKED"})
    [] h[1] = "captura" ->
         Si(catchs[h[2]].paso = "enBroker", {"BLOCKED"}) \cup Si(catchs[h[2]].paso = "auxiliar", {"respaldo"})
    [] h[1] = "entrenador" -> Si(Intercambiando(h[2]), {"BLOCKED"})
    [] OTHER -> {}

(* encolarEntrenador and desencolarEntrenadorCercano lock a copy of their  *)
(* mutex, and the other lists have none in common: a thread changes a list *)
(* while another goes through it or changes it.                            *)
Carrera ==
  LET cambios == UNION {{h} \X Cambia(h) : h \in Actores}
      usos == cambios \cup UNION {{h} \X Recorre(h) : h \in Actores}
  IN  \E x \in cambios, y \in usos : x[1] # y[1] /\ x[2] = y[2]

Caer ==
  /\ ~caido
  /\ \/ ElegirCae \/ SacarCae \/ Carrera
     \/ \E e \in Entrenadores : MoverCae(e) \/ DecidirCae(e) \/ BloquearCae(e) \/ IntercambiarCae(e)
     \/ \E c \in DOMAIN catchs : AcreditarCae(c) \/ SoltarCae(c) \/ AuxiliarCae(c)
  /\ caido' = TRUE
  /\ UNCHANGED <<ent, hilos, colas, sem, globales, listas, entrada, seleccion, catchs, finCapturas,
                 terminado, derroche, reelegido>>

-----------------------------------------------------------------------------
HiloEntrenador(e) ==
  \/ Mover(e) \/ VolverAReady(e) \/ EnviarCatch(e) \/ Bloquear(e)
  \/ Intercambiar(e) \/ TransicionarMovido(e) \/ Asentar(e) \/ TransicionarSocio(e)

HiloCaught(c) == Acreditar(c) \/ Soltar(c) \/ Auxiliar(c)

Interno ==
  \/ \E m \in Mensajes : Incluir(m)
  \/ Elegir \/ Sacar \/ Planificar
  \/ \E e \in Entrenadores : HiloEntrenador(e)
  \/ \E c \in DOMAIN catchs : HiloCaught(c)
  \/ FinCapturas \/ DetectarDeadlock \/ Finalizar

Next ==
  \/ Interno \/ Caer
  \/ \E m \in Mensajes : Recibir(m)
  \/ \E c \in DOMAIN catchs : Caught(c)

Spec == Init /\ [][Next]_vars

-----------------------------------------------------------------------------
Colas == {"NEW", "READY", "EXECUTE", "BLOCKED", "FINISHED"}
PasosHilo == {"dormido", "decidir", "bloquear", "transicion", "asentar", "transicionSocio"}
PasosCatch == {"fallido", "enBroker", "perdido", "acreditar", "auxiliar", "soltar", "fin"}

TEntrenador ==
  [falta : [Especies -> Nat], sobra : Seq(Especies), cupo : Int, pos : Nat,
   quantum : Nat, contador : Nat, ocupado : BOOLEAN, captura : Pokemones \cup {Nadie},
   catch : [id : Nat, especie : Especies] \cup {Nadie},
   destino : [socio : Entrenadores, pos : Nat] \cup {Nadie, Colgado},
   aCambiar : Especies \cup {Nadie, Colgado}]

(* The state of the Team is of its types. *)
TypeOK ==
  /\ ent \in [Entrenadores -> TEntrenador]
  /\ hilos \in [Entrenadores -> [paso : PasosHilo, turno : Nat, socio : Entrenadores \cup {Nadie}]]
  /\ colas \in [Colas -> Seq(Entrenadores)]
  /\ sem \in [requeridos : Nat, seleccionar : Nat, listos : Nat, cpu : Nat, capturas : Nat,
             deadlock : Nat, equipo : Nat]
  /\ globales \in [Especies -> Nat]
  /\ requeridos \in Seq(Pokemones) /\ respaldo \in Seq(Pokemones)
  /\ recibidos \in [Especies -> Nat]
  /\ \A m \in Mensajes : mensajes[m] \in -1 .. Len(Lugares[m])
  /\ DOMAIN mensajes = Mensajes
  /\ seleccion \in [entrenador : Entrenadores, pokemon : Pokemones] \cup {Nadie}
  /\ catchs \in Seq([de : Entrenadores, propio : BOOLEAN, fallo : BOOLEAN, paso : PasosCatch])
  /\ finCapturas \in BOOLEAN /\ terminado \in BOOLEAN /\ caido \in BOOLEAN
  /\ derroche \in BOOLEAN /\ reelegido \in BOOLEAN

Veces(x, lista) == Cardinality({i \in DOMAIN lista : lista[i] = x})

(* What the Team still has to capture, what each trainer lacks and what is *)
(* left over add up, through captures, failures and swaps done by          *)
(* different threads (libTeam.c:610-697, planificador.c:639-714).  Until   *)
(* one that waits for a CAUGHT is chosen again, nobody captures more than  *)
(* its cantidad_maxima_a_capturar (planificador.c:240-263).                *)
CuentasDelTeam ==
  ~caido =>
    /\ \A s \in Especies :
         globales[s] + Suma([e \in Entrenadores |-> Veces(s, ent[e].sobra)])
           = Suma([e \in Entrenadores |-> ent[e].falta[s]])
    /\ \A e \in Entrenadores : ent[e].cupo + Len(ent[e].sobra) = Suma(ent[e].falta)
    /\ ~reelegido => \A e \in Entrenadores : ent[e].cupo >= 0

(* Between two queues, its thread at work. *)
EnManos(e) == hilos[e].paso \in {"bloquear", "asentar"}

(* Whatever the order of the threads, the semaphores count the queues they *)
(* guard: nobody pops an empty list, and the CPU has one trainer at most.  *)
(* Until one that waits for a CAUGHT is chosen again, a trainer is in one  *)
(* queue, or its thread is sending a CATCH or ending a swap                *)
(* (planificador.c:398-412, 27-123, 716-773).  Two threads on one list at  *)
(* once may lose an entry: that is Carrera, and ends the claim.            *)
UnaColaPorEntrenador ==
  ~caido =>
    /\ ~reelegido =>
         \A e \in Entrenadores :
           Veces(e, colas["NEW"]) + Veces(e, colas["READY"]) + Veces(e, colas["EXECUTE"])
             + Veces(e, colas["BLOCKED"]) + Veces(e, colas["FINISHED"])
             + (IF EnManos(e) THEN 1 ELSE 0) = 1
    /\ sem.listos = Len(colas["READY"])
    /\ sem.cpu + Len(colas["EXECUTE"]) = 1
    /\ sem.equipo = Len(colas["FINISHED"])

(* Once every pokemon has been captured the Team does not stop before all  *)
(* its trainers are in FINISHED: the tokens of the detection are enough    *)
(* for the swaps (planificador.c:473-537, serverTeam.c:518-540), unless a  *)
(* detection spent two of them while a swap was under way and found no     *)
(* pair, which three trainers reach, and may stop the Team.                *)
TodosTerminan ==
  (~caido /\ ~reelegido /\ ~derroche /\ Ninguno(globales) /\ ~ENABLED Interno) =>
    terminado /\ Len(colas["FINISHED"]) = Cardinality(Entrenadores)
=============================================================================

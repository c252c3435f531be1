-------------------------------- MODULE SAFA --------------------------------
(***************************************************************************)
(* The S-AFA of El Gran TP (SAFA.c, libSAFA.c, planificadores.c,           *)
(* consolaSAFA.c) with its CPUs (libCPU.c) and the DAM (libDAM.c): the     *)
(* GDTs go from New to Ready, a CPU runs the sentences of each, and the    *)
(* console ends them and pauses the planning.                              *)
(*                                                                         *)
(* Threads of the S-AFA: the console, planificadorLargoPlazo, one planner  *)
(* and one receiver per CPU, and the receiver of the DAM.  A handler runs  *)
(* in the thread that receives (socket.c), so a CPU reads nothing from the *)
(* S-AFA while it executes.  The CPUs and the DAM are connected already.   *)
(* encolarDTB and desencolarDTB take the mutex by value, so they exclude   *)
(* nobody: Carrera is two threads that are about to use one queue.  What   *)
(* follows it, or a NULL or freed pointer, is not modelled: the S-AFA is   *)
(* then caido.                                                             *)
(***************************************************************************)
EXTENDS Integers, SequencesExt

CONSTANTS
  CPUs,
  Scripts,      \* those each command ejecutar may name, a script being the sequence of its sentences
  Quantum,      \* QUANTUM
  Grado,        \* GRADO_MULTIPROG
  Algoritmo,    \* ALGORITMO_PLANIF
  MaxFinalizar, \* bound: commands finalizar
  MaxPausas,    \* bound: commands pausar
  Nadie         \* NULL

Ops == {"abrir", "concentrar", "asignar", "wait", "signal", "flush", "close", "crear", "borrar", "#", "falta"}

(* "falta" stands for a script that is not there. *)
ASSUME SAFAAssumption ==
  /\ Quantum \in Nat \ {0} /\ Grado \in Nat \ {0}
  /\ Algoritmo \in {"RR", "VRR", "IOBF"}
  /\ MaxFinalizar \in Nat /\ MaxPausas \in Nat
  /\ \A d \in DOMAIN Scripts : \A s \in Scripts[d] : s # <<>> /\ \A k \in DOMAIN s : s[k].op \in Ops

GDTs == DOMAIN Scripts

ASSUME NadieAssumption == Nadie \notin Nat

VARIABLES
  colaNew, colaReady, colaBloqueados, listaEjecutando, colaFinalizados,
  puedeEntrar,  \* the three semaphores
  enNew,
  enReady,
  dtb,          \* rutaScript, status, PC, quantumFaltante and cantIOs of each
  pausado,      \* m_puedePlanificar is the console's
  plp,          \* planificadorLargoPlazo has its turn to let one in
  consola,
  planif,       \* the GDT the planner of each CPU took, and whether it is still to be sent
  recursos,     \* every recurso that was created, freed ones included
  manejador,    \* where the handlers of more than one step are
  aSafa, aCpu,  \* the connection of each CPU
  aDam,         \* requests to the DAM
  deDam,        \* its calls to the S-AFA
  cpu,
  quitados,     \* history: those finalizar took out of listaEjecutando
  caido

colas == <<colaNew, colaReady, colaBloqueados, listaEjecutando, colaFinalizados, puedeEntrar, enNew, enReady, dtb>>
red == <<aSafa, aCpu, aDam, deDam>>
vars == <<colas, pausado, plp, consola, planif, recursos, manejador, red, cpu, quitados, caido>>

CPU0 == [estado |-> "libre", d |-> Nadie, pc |-> 0, q |-> 0, n |-> 0, com |-> 0,
         waitOk |-> FALSE, existe |-> FALSE, pausada |-> FALSE, muda |-> FALSE]

Ocioso == [d |-> Nadie, enMano |-> FALSE]

Init ==
  /\ colaNew = <<>> /\ colaReady = <<>> /\ colaBloqueados = <<>> /\ listaEjecutando = <<>> /\ colaFinalizados = <<>>
  /\ puedeEntrar = Grado /\ enNew = 0 /\ enReady = 0
  /\ dtb = <<>>
  /\ pausado = FALSE /\ plp = FALSE
  /\ consola = [paso |-> "leer", d |-> Nadie, fin |-> 0, pausas |-> 0, continuadas |-> 0]
  /\ planif = [c \in CPUs |-> Ocioso]
  /\ recursos = <<>>
  /\ manejador = [c \in CPUs |-> [paso |-> "leer", r |-> Nadie]]
  /\ aSafa = [c \in CPUs |-> <<>>] /\ aCpu = [c \in CPUs |-> <<>>]
  /\ aDam = {} /\ deDam = <<>>
  /\ cpu = [c \in CPUs |-> CPU0]
  /\ quitados = {}
  /\ caido = FALSE

-----------------------------------------------------------------------------
(* get_and_remove_DTB_by_ID: the first of that id. *)
Sin(cola, d) == RemoveFirst(cola, d)

(* buscarDTBEnElSistema. *)
EnElSistema(d) ==
  \E cola \in {colaNew, colaReady, colaBloqueados, listaEjecutando, colaFinalizados} : Contains(cola, d)

(* Mutant: it does not let another one in. *)
FinalizarSinLugar(d) ==
  /\ dtb' = [dtb EXCEPT ![d].status = "FINISHED"]
  /\ colaFinalizados' = Append(colaFinalizados, d)
  /\ UNCHANGED puedeEntrar

FinalizarDTB(d) ==
  /\ dtb' = [dtb EXCEPT ![d].status = "FINISHED"]
  /\ colaFinalizados' = Append(colaFinalizados, d)
  /\ puedeEntrar' = puedeEntrar + 1

AReady(d) ==
  /\ colaReady' = Append(colaReady, d)
  /\ enReady' = enReady + 1

-----------------------------------------------------------------------------
(* The console. *)

Comando == ~caido /\ consola.paso = "leer"

Ejecutar ==
  LET d == Len(dtb) + 1 IN
  /\ Comando /\ d \in GDTs
  /\ \E s \in Scripts[d] :
       dtb' = Append(dtb, [script |-> s, status |-> "NEW", PC |-> 0, quantumFaltante |-> 0, cantIOs |-> 0])
  /\ colaNew' = Append(colaNew, d)
  /\ enNew' = enNew + 1
  /\ UNCHANGED <<colaReady, colaBloqueados, listaEjecutando, colaFinalizados, puedeEntrar, enReady,
                 pausado, plp, consola, planif, recursos, manejador, red, cpu, quitados, caido>>

(* finalizar looks in listaEjecutando, and then in all but New. *)
Finalizar(d) ==
  /\ Comando /\ consola.fin < MaxFinalizar
  /\ consola' = [consola EXCEPT !.fin = @ + 1, !.d = d,
                                !.paso = IF Contains(listaEjecutando, d) THEN "marcar" ELSE "quitar"]
  /\ UNCHANGED <<colas, pausado, plp, planif, recursos, manejador, red, cpu, quitados, caido>>

Volver == consola' = [consola EXCEPT !.paso = "leer", !.d = Nadie]

Marcar ==
  /\ ~caido /\ consola.paso = "marcar"
  /\ dtb' = [dtb EXCEPT ![consola.d].status = "FINISHED"]
  /\ Volver
  /\ UNCHANGED <<colaNew, colaReady, colaBloqueados, listaEjecutando, colaFinalizados, puedeEntrar, enNew, enReady,
                 pausado, plp, planif, recursos, manejador, red, cpu, quitados, caido>>

(* quitarDTBDeSuListaActual. *)
Quitar ==
  LET d == consola.d
      corre == Contains(listaEjecutando, d)
      listo == ~corre /\ Contains(colaReady, d)
      bloqueado == ~corre /\ ~listo /\ Contains(colaBloqueados, d)
  IN  /\ ~caido /\ consola.paso = "quitar"
      /\ listaEjecutando' = Sin(listaEjecutando, d)
      /\ colaReady' = IF listo THEN Sin(colaReady, d) ELSE colaReady
      /\ colaBloqueados' = IF bloqueado THEN Sin(colaBloqueados, d) ELSE colaBloqueados
      /\ quitados' = IF corre THEN quitados \cup {d} ELSE quitados
      /\ IF corre \/ listo \/ bloqueado
         THEN consola' = [consola EXCEPT !.paso = "encolar"]
         ELSE Volver
      /\ UNCHANGED <<colaNew, colaFinalizados, puedeEntrar, enNew, enReady, dtb,
                     pausado, plp, planif, recursos, manejador, red, cpu, caido>>

Encolar ==
  /\ ~caido /\ consola.paso = "encolar"
  /\ FinalizarDTB(consola.d)
  /\ Volver
  /\ UNCHANGED <<colaNew, colaReady, colaBloqueados, listaEjecutando, enNew, enReady,
                 pausado, plp, planif, recursos, manejador, red, cpu, quitados, caido>>

ATodas(m) == aCpu' = [c \in CPUs |-> Append(aCpu[c], m)]

(* pausarPlanificacion: the CPUs are told first. *)
Pausar ==
  /\ Comando /\ consola.pausas < MaxPausas
  /\ ATodas([que |-> "pausar"])
  /\ consola' = [consola EXCEPT !.paso = "trabar", !.pausas = @ + 1]
  /\ UNCHANGED <<colas, pausado, plp, planif, recursos, manejador, aSafa, aDam, deDam, cpu, quitados, caido>>

(* The trylock fails if a planner is taking a GDT. *)
Trabar ==
  /\ ~caido /\ consola.paso = "trabar"
  /\ pausado' = TRUE \/ (enReady > 0 /\ (\E c \in CPUs : planif[c].d = Nadie) /\ UNCHANGED pausado)
  /\ Volver
  /\ UNCHANGED <<colas, plp, planif, recursos, manejador, red, cpu, quitados, caido>>

(* continuarPlanificacion: here the CPUs are told last. *)
Continuar ==
  /\ Comando /\ consola.continuadas < consola.pausas
  /\ pausado' = FALSE
  /\ consola' = [consola EXCEPT !.paso = "avisar", !.continuadas = @ + 1]
  /\ UNCHANGED <<colas, plp, planif, recursos, manejador, red, cpu, quitados, caido>>

Avisar ==
  /\ ~caido /\ consola.paso = "avisar"
  /\ ATodas([que |-> "continuar"])
  /\ Volver
  /\ UNCHANGED <<colas, pausado, plp, planif, recursos, manejador, aSafa, aDam, deDam, cpu, quitados, caido>>

-----------------------------------------------------------------------------
(* planificadorLargoPlazo. *)

TomarLugar ==
  /\ ~caido /\ ~plp /\ puedeEntrar > 0
  /\ puedeEntrar' = puedeEntrar - 1
  /\ plp' = TRUE
  /\ UNCHANGED <<colaNew, colaReady, colaBloqueados, listaEjecutando, colaFinalizados, enNew, enReady, dtb,
                 pausado, consola, planif, recursos, manejador, red, cpu, quitados, caido>>

Admitir ==
  /\ ~caido /\ plp /\ enNew > 0
  /\ enNew' = enNew - 1
  /\ colaNew' = Tail(colaNew)
  /\ dtb' = [dtb EXCEPT ![Head(colaNew)].status = "READY"]
  /\ AReady(Head(colaNew))
  /\ plp' = FALSE
  /\ UNCHANGED <<colaBloqueados, listaEjecutando, colaFinalizados, puedeEntrar,
                 pausado, consola, planif, recursos, manejador, red, cpu, quitados, caido>>

(* The planners.  The sorts of VRR and IOBF keep no order among equals. *)
Elegibles ==
  CASE Algoritmo = "RR" -> {1} \cap DOMAIN colaReady
    [] Algoritmo = "VRR" ->
         LET con == {i \in DOMAIN colaReady : dtb[colaReady[i]].quantumFaltante # 0}
         IN  IF con = {} THEN DOMAIN colaReady ELSE con
    [] OTHER -> {i \in DOMAIN colaReady : \A j \in DOMAIN colaReady :
                   dtb[colaReady[i]].cantIOs >= dtb[colaReady[j]].cantIOs}

QuantumAEjecutar(d) ==
  CASE Algoritmo = "RR" -> Quantum
    [] Algoritmo = "VRR" -> IF dtb[d].quantumFaltante = 0 THEN Quantum ELSE dtb[d].quantumFaltante
    [] OTHER -> 100

PuedePlanificar(c) == ~caido /\ planif[c].d = Nadie /\ enReady > 0 /\ ~pausado

Planificar(c) ==
  \E i \in Elegibles :
    LET d == colaReady[i] IN
    /\ PuedePlanificar(c)
    /\ enReady' = enReady - 1
    /\ colaReady' = RemoveAt(colaReady, i)
    /\ planif' = [planif EXCEPT ![c] = [d |-> d, enMano |-> TRUE]]
    /\ UNCHANGED <<colaNew, colaBloqueados, listaEjecutando, colaFinalizados, puedeEntrar, enNew, dtb,
                   pausado, plp, consola, recursos, manejador, red, cpu, quitados, caido>>

(* Until here the GDT is in no queue. *)
Despachar(c) ==
  LET d == planif[c].d IN
  /\ ~caido /\ planif[c].enMano
  /\ dtb' = [dtb EXCEPT ![d].status = "RUNNING"]
  /\ listaEjecutando' = Append(listaEjecutando, d)
  /\ aCpu' = [aCpu EXCEPT ![c] = Append(@, [que |-> "ejecutar", d |-> d, pc |-> dtb[d].PC, q |-> QuantumAEjecutar(d)])]
  /\ planif' = [planif EXCEPT ![c].enMano = FALSE]
  /\ UNCHANGED <<colaNew, colaReady, colaBloqueados, colaFinalizados, puedeEntrar, enNew, enReady,
                 pausado, plp, consola, recursos, manejador, aSafa, aDam, deDam, cpu, quitados, caido>>

(* The GDT was finalised by the console, which leaves its post. *)
PlanificarNadie(c) ==
  /\ PuedePlanificar(c) /\ colaReady = <<>>
  /\ enReady' = enReady - 1
  /\ UNCHANGED <<colaNew, colaReady, colaBloqueados, listaEjecutando, colaFinalizados, puedeEntrar, enNew, dtb,
                 pausado, plp, consola, planif, recursos, manejador, red, cpu, quitados, caido>>
-----------------------------------------------------------------------------
(* The CPUs: permisoConcedidoParaEjecutar. *)

Aviso(que, d, n, io) == [que |-> que, d |-> d, n |-> n, io |-> io, arg |-> "0"]
Pedir(que, d, arg) == [que |-> que, d |-> d, n |-> 0, io |-> 0, arg |-> arg]

Enviar(c, ms) == aSafa' = [aSafa EXCEPT ![c] = @ \o ms]

Libre(x) == [x EXCEPT !.estado = "libre", !.d = Nadie]
Muda(x) == [Libre(x) EXCEPT !.muda = TRUE]

(* What the thread that receives does with a message of the S-AFA.  With a *)
(* quantum below 1 no sentence is read, and what it looks at then was      *)
(* never written: it reports no progress, or nothing.                      *)
Recibir(c) ==
  LET m == Head(aCpu[c])
      x == cpu[c]
      arranca == [x EXCEPT !.estado = "ejecutando", !.d = m.d, !.pc = m.pc, !.q = m.q, !.n = 0, !.com = 0]
  IN  /\ ~caido /\ x.estado = "libre" /\ aCpu[c] # <<>>
      /\ aCpu' = [aCpu EXCEPT ![c] = Tail(@)]
      /\ \/ m.que = "pausar" /\ cpu' = [cpu EXCEPT ![c].pausada = TRUE] /\ UNCHANGED aSafa
         \/ m.que = "continuar" /\ cpu' = [cpu EXCEPT ![c].pausada = FALSE] /\ UNCHANGED aSafa
         \/ m.que = "wait" /\ cpu' = [cpu EXCEPT ![c].waitOk = m.ok] /\ UNCHANGED aSafa
         \/ m.que = "ejecutar" /\ m.q > 0 /\ cpu' = [cpu EXCEPT ![c] = arranca] /\ UNCHANGED aSafa
         \/ m.que = "ejecutar" /\ m.q <= 0 /\ Enviar(c, <<Aviso("continuar", m.d, 0, 0)>>) /\ UNCHANGED cpu
         \/ m.que = "ejecutar" /\ m.q <= 0 /\ cpu' = [cpu EXCEPT ![c] = Muda(x)] /\ UNCHANGED aSafa
      /\ UNCHANGED <<colas, pausado, plp, consola, planif, recursos, manejador, aDam, deDam, quitados, caido>>

(* The sentence it is at. *)
Script(c) == dtb[cpu[c].d].script
Linea(c) == Script(c)[cpu[c].pc + 1]
Ejecuta(c, op) == ~caido /\ cpu[c].estado = "ejecutando" /\ ~cpu[c].pausada /\ Linea(c).op = op
Hechas(c) == cpu[c].n + cpu[c].com

(* It goes on: the end of the script, the end of the quantum or the next.  *)
Seguir(c, ms) ==
  LET x == cpu[c]
      ultima == x.pc + 1 = Len(Script(c))
      n == IF Linea(c).op = "#" THEN x.n ELSE x.n + 1
  IN  /\ Enviar(c, ms \o (IF ultima THEN <<Aviso("finalizar", x.d, 0, 0)>>
                          ELSE IF n >= x.q THEN <<Aviso("continuar", x.d, Hechas(c) + 1, 0)>> ELSE <<>>))
      /\ cpu' = [cpu EXCEPT ![c] = IF ultima \/ n >= x.q THEN Libre(x)
                  ELSE [x EXCEPT !.pc = @ + 1, !.n = n, !.com = Hechas(c) + 1 - n]]

Bloqueo(c, io) == Aviso("bloquear", cpu[c].d, Hechas(c) + 1, io)

Parar(c, ms) == Enviar(c, ms) /\ cpu' = [cpu EXCEPT ![c] = Libre(@)]

(* pasarDTBAExit is all that the S-AFA hears. *)
Abortar(c, ms) ==
  /\ Enviar(c, ms \o <<Pedir("exit", cpu[c].d, "0")>>)
  /\ cpu' = [cpu EXCEPT ![c] = Muda(@)]

Verificar(c) == Pedir("verificar", cpu[c].d, Linea(c).op)

SinSAFA == UNCHANGED <<colas, pausado, plp, consola, planif, recursos, manejador, aCpu, deDam, quitados, caido>>

Concentrar(c) ==
  /\ Ejecuta(c, "concentrar") \/ Ejecuta(c, "#")
  /\ Seguir(c, <<>>)
  /\ UNCHANGED aDam /\ SinSAFA

(* Mutant: no return after the report. *)
WaitSinReturn(c) ==
  LET pedido == Pedir("wait", cpu[c].d, Linea(c).arg) IN
  /\ Ejecuta(c, "wait")
  /\ IF cpu[c].waitOk THEN Seguir(c, <<pedido>>) ELSE Seguir(c, <<pedido, Bloqueo(c, 0)>>)
  /\ UNCHANGED aDam /\ SinSAFA

(* resultadoWaitOk is that of an earlier answer: nobody waits for this one. *)
Wait(c) ==
  LET pedido == Pedir("wait", cpu[c].d, Linea(c).arg) IN
  /\ Ejecuta(c, "wait")
  /\ IF cpu[c].waitOk THEN Seguir(c, <<pedido>>) ELSE Parar(c, <<pedido, Bloqueo(c, 0)>>)
  /\ UNCHANGED aDam /\ SinSAFA

Signal(c) ==
  /\ Ejecuta(c, "signal")
  /\ Seguir(c, <<Pedir("signal", cpu[c].d, Linea(c).arg)>>)
  /\ UNCHANGED aDam /\ SinSAFA

(* archivosAbiertos is always empty, so every file is closed. *)
Asignar(c) ==
  /\ Ejecuta(c, "asignar")
  /\ Abortar(c, <<Verificar(c)>>)
  /\ UNCHANGED aDam /\ SinSAFA

Abrir(c) ==
  /\ Ejecuta(c, "abrir")
  /\ Enviar(c, <<Verificar(c)>>)
  /\ aDam' = aDam \cup {[que |-> "existe", c |-> c, d |-> cpu[c].d]}
  /\ cpu' = [cpu EXCEPT ![c].estado = "abriendo"]
  /\ SinSAFA

(* archivoExistente, whether or not the DAM has answered; a number is sent *)
(* as a string when the file exists, and the CPU dies.                     *)
LeerExistente(c) ==
  /\ ~caido /\ cpu[c].estado = "abriendo"
  /\ \/ ~cpu[c].existe /\ Abortar(c, <<>>)
     \/ cpu[c].existe /\ cpu' = [cpu EXCEPT ![c].estado = "muerta"] /\ UNCHANGED aSafa
  /\ UNCHANGED aDam /\ SinSAFA

(* The report lacks its last argument; the DAM knows no such request. *)
Flush(c) ==
  /\ Ejecuta(c, "flush")
  /\ Parar(c, <<Verificar(c), [Bloqueo(c, 0) EXCEPT !.arg = "falta"]>>)
  /\ UNCHANGED aDam /\ SinSAFA

(* string_sentQueEjecuto is NULL. *)
Close(c) ==
  /\ Ejecuta(c, "close")
  /\ Enviar(c, <<Verificar(c)>>)
  /\ cpu' = [cpu EXCEPT ![c].estado = "muerta"]
  /\ UNCHANGED aDam /\ SinSAFA

Crear(c) ==
  /\ Ejecuta(c, "crear")
  /\ Parar(c, <<Bloqueo(c, 1)>>)
  /\ aDam' = aDam \cup {[que |-> "crear", c |-> c, d |-> cpu[c].d]}
  /\ SinSAFA

(* The DAM knows no such request. *)
Borrar(c) ==
  /\ Ejecuta(c, "borrar")
  /\ Parar(c, <<Bloqueo(c, 1)>>)
  /\ UNCHANGED aDam /\ SinSAFA

(* abrirScript: the mutex was locked by this thread, which would have to   *)
(* receive continuarPlanificacion.                                         *)
Colgarse(c) ==
  /\ ~caido /\ cpu[c].estado = "ejecutando" /\ cpu[c].pausada
  /\ cpu' = [cpu EXCEPT ![c].estado = "colgada"]
  /\ UNCHANGED <<aSafa, aDam>> /\ SinSAFA

(* abrirScript, of a file that is not there. *)
SinScript(c) ==
  /\ Ejecuta(c, "falta")
  /\ cpu' = [cpu EXCEPT ![c].estado = "muerta"]
  /\ UNCHANGED <<aSafa, aDam>> /\ SinSAFA

-----------------------------------------------------------------------------
(* The DAM. *)

ResponderExiste ==
  \E m \in aDam, existe \in BOOLEAN :
    /\ ~caido /\ m.que = "existe"
    /\ aDam' = aDam \ {m}
    /\ cpu' = [cpu EXCEPT ![m.c].existe = existe]
    /\ UNCHANGED <<colas, pausado, plp, consola, planif, recursos, manejador, aSafa, aCpu, deDam, quitados, caido>>

(* idGDT holds the address of the string that it was sent in. *)
IdGuardado == 0

ResponderCrear ==
  \E m \in aDam, que \in {"desbloquear", "exit"} :
    /\ ~caido /\ m.que = "crear"
    /\ aDam' = aDam \ {m}
    /\ deDam' = Append(deDam, [que |-> que, d |-> IdGuardado])
    /\ UNCHANGED <<colas, pausado, plp, consola, planif, recursos, manejador, aSafa, aCpu, cpu, quitados, caido>>

-----------------------------------------------------------------------------
(* The handlers of the S-AFA. *)

(* pasarDTBAExit: it is left in the queue where it is. *)
PasarAExit(d) ==
  IF EnElSistema(d) THEN FinalizarDTB(d) ELSE UNCHANGED <<dtb, colaFinalizados, puedeEntrar>>

Desbloquear(d) ==
  IF ~Contains(colaBloqueados, d) THEN UNCHANGED <<colaBloqueados, dtb, colaReady, enReady>>
  ELSE /\ colaBloqueados' = Sin(colaBloqueados, d)
       /\ dtb' = [dtb EXCEPT ![d].status = "READY"]
       /\ AReady(d)

AtenderDam ==
  LET m == Head(deDam) IN
  /\ ~caido /\ deDam # <<>>
  /\ deDam' = Tail(deDam)
  /\ \/ m.que = "desbloquear" /\ Desbloquear(m.d) /\ UNCHANGED <<colaFinalizados, puedeEntrar>>
     \/ m.que = "exit" /\ PasarAExit(m.d) /\ UNCHANGED <<colaBloqueados, colaReady, enReady>>
  /\ UNCHANGED <<colaNew, listaEjecutando, enNew, pausado, plp, consola, planif, recursos, manejador,
                 aSafa, aCpu, aDam, cpu, quitados, caido>>

Llega(c, que) == ~caido /\ aSafa[c] # <<>> /\ Head(aSafa[c]).que = que
Leido(c) == aSafa' = [aSafa EXCEPT ![c] = Tail(@)]

AtenderExit(c) ==
  /\ Llega(c, "exit")
  /\ Leido(c)
  /\ PasarAExit(Head(aSafa[c]).d)
  /\ UNCHANGED <<colaNew, colaReady, colaBloqueados, listaEjecutando, enNew, enReady, pausado, plp, consola,
                 planif, recursos, manejador, aCpu, aDam, deDam, cpu, quitados, caido>>

(* verificarEstadoArchivo, of a GDT that nobody is moving. *)
AtenderVerificar(c) ==
  LET m == Head(aSafa[c]) IN
  /\ Llega(c, "verificar") /\ EnElSistema(m.d)
  /\ Leido(c)
  /\ dtb' = IF m.arg \in {"abrir", "flush"} THEN [dtb EXCEPT ![m.d].cantIOs = @ + 1] ELSE dtb
  /\ UNCHANGED <<colaNew, colaReady, colaBloqueados, listaEjecutando, colaFinalizados, puedeEntrar, enNew, enReady,
                 pausado, plp, consola, planif, recursos, manejador, aCpu, aDam, deDam, cpu, quitados, caido>>

(* finalizacionProcesamientoCPU: what it does with the GDT it was running. *)
Avanza(d, m, dummy) ==
  LET x == dtb[d] IN
  IF dummy THEN x ELSE [x EXCEPT !.quantumFaltante = Quantum - m.n, !.PC = @ + m.n]

Recolocar(d, m, dummy) ==
  IF dtb[d].status = "FINISHED" \/ m.que = "finalizar"
  THEN FinalizarDTB(d) /\ UNCHANGED <<colaReady, enReady, colaBloqueados>>
  ELSE IF m.que = "continuar"
  THEN /\ dtb' = [dtb EXCEPT ![d] = [Avanza(d, m, FALSE) EXCEPT !.status = "READY"]]
       /\ AReady(d) /\ UNCHANGED <<colaFinalizados, puedeEntrar, colaBloqueados>>
  ELSE /\ dtb' = [dtb EXCEPT ![d] = [Avanza(d, m, dummy) EXCEPT !.status = "BLOCKED", !.cantIOs = @ + m.io]]
       /\ colaBloqueados' = Append(colaBloqueados, d)
       /\ UNCHANGED <<colaReady, enReady, colaFinalizados, puedeEntrar>>

(* Mutant: its status is looked at instead of the list. *)
CorriaSegunEstado(d) == dtb[d].status = "RUNNING"

(* It may not be there: the console has taken it. *)
Corria(d) == Contains(listaEjecutando, d)

Fin(c) == Llega(c, "finalizar") \/ Llega(c, "continuar") \/ Llega(c, "bloquear")
Desocupar(c) == planif' = [planif EXCEPT ![c] = Ocioso]

Atendido(c) ==
  /\ Leido(c)
  /\ manejador' = [manejador EXCEPT ![c] = [paso |-> "leer", r |-> Nadie]]

Sacar(c) ==
  LET d == Head(aSafa[c]).d IN
  /\ Fin(c) /\ manejador[c].paso = "leer" /\ Corria(d)
  /\ listaEjecutando' = Sin(listaEjecutando, d)
  /\ manejador' = [manejador EXCEPT ![c] = [paso |-> "recolocar", r |-> d]]
  /\ UNCHANGED <<colaNew, colaReady, colaBloqueados, colaFinalizados, puedeEntrar, enNew, enReady, dtb,
                 pausado, plp, consola, planif, recursos, red, cpu, quitados, caido>>

AtenderFin(c) ==
  LET m == Head(aSafa[c]) IN
  /\ Fin(c) /\ manejador[c].paso = "recolocar"
  /\ \E dummy \in (IF m.arg = "falta" THEN BOOLEAN ELSE {FALSE}) : Recolocar(m.d, m, dummy)
  /\ Atendido(c) /\ Desocupar(c)
  /\ UNCHANGED <<colaNew, listaEjecutando, enNew, pausado, plp, consola, recursos, aCpu, aDam, deDam, cpu, quitados, caido>>

AtenderFinDeNadie(c) ==
  /\ Fin(c) /\ manejador[c].paso = "leer" /\ ~Corria(Head(aSafa[c]).d)
  /\ Leido(c) /\ Desocupar(c)
  /\ UNCHANGED <<colas, pausado, plp, consola, recursos, manejador, aCpu, aDam, deDam, cpu, quitados, caido>>

(* waitRecurso and signalRecurso: the recurso is looked for under one      *)
(* mutex, and created or used under others.                                *)
LosDe(nombre) == {r \in DOMAIN recursos : recursos[r].vivo /\ recursos[r].nombre = nombre}
DeRecurso(c) == Llega(c, "wait") \/ Llega(c, "signal")
El(c) == manejador[c].r

BuscarRecurso(c) ==
  LET r == LosDe(Head(aSafa[c]).arg) IN
  /\ DeRecurso(c) /\ manejador[c].paso = "leer"
  /\ manejador' = [manejador EXCEPT ![c] = IF r = {} THEN [paso |-> "crear", r |-> Nadie] ELSE [paso |-> "usar", r |-> Min(r)]]
  /\ UNCHANGED <<colas, pausado, plp, consola, planif, recursos, red, cpu, quitados, caido>>

Responder(c, ok) == aCpu' = [aCpu EXCEPT ![c] = Append(@, [que |-> "wait", ok |-> ok])]

CrearRecurso(c) ==
  LET m == Head(aSafa[c]) IN
  /\ DeRecurso(c) /\ manejador[c].paso = "crear"
  /\ recursos' = Append(recursos, [nombre |-> m.arg, valor |-> IF m.que = "wait" THEN 0 ELSE 1, vivo |-> TRUE])
  /\ Atendido(c)
  /\ IF m.que = "wait" THEN Responder(c, TRUE) ELSE UNCHANGED aCpu
  /\ UNCHANGED <<colas, pausado, plp, consola, planif, aDam, deDam, cpu, quitados, caido>>

DarRecurso(c) ==
  /\ Llega(c, "wait") /\ manejador[c].paso = "usar" /\ recursos[El(c)].vivo
  /\ recursos' = [recursos EXCEPT ![El(c)].valor = @ - 1]
  /\ Atendido(c)
  /\ Responder(c, recursos[El(c)].valor > 0)
  /\ UNCHANGED <<colas, pausado, plp, consola, planif, aDam, deDam, cpu, quitados, caido>>

LiberarRecurso(c) ==
  /\ Llega(c, "signal") /\ manejador[c].paso = "usar" /\ recursos[El(c)].vivo
  /\ recursos' = [recursos EXCEPT ![El(c)].valor = @ + 1]
  /\ manejador' = [manejador EXCEPT ![c].paso = "eliminar"]
  /\ UNCHANGED <<colas, pausado, plp, consola, planif, red, cpu, quitados, caido>>

(* GDTsEsperandoRecurso is always empty: the first of that name is freed. *)
EliminarRecurso(c) ==
  LET r == recursos[El(c)] IN
  /\ Llega(c, "signal") /\ manejador[c].paso = "eliminar" /\ r.vivo
  /\ recursos' = [recursos EXCEPT ![Min(LosDe(r.nombre))].vivo = FALSE]
  /\ Atendido(c)
  /\ UNCHANGED <<colas, pausado, plp, consola, planif, aCpu, aDam, deDam, cpu, quitados, caido>>

-----------------------------------------------------------------------------
(* The queues that each thread is about to use.  The planners are one: they *)
(* exclude each other.                                                      *)
Hilos == {"consola", "plp", "planificadores", "dam"} \cup CPUs

Cuando(p, usa) == IF p THEN usa ELSE {}
Planifican == \E c \in CPUs : PuedePlanificar(c)
Busca(c) ==
  \/ Llega(c, "exit") \/ Llega(c, "verificar")
  \/ DeRecurso(c) /\ manejador[c].paso = "leer"

Destino(m) ==
  IF dtb[m.d].status = "FINISHED" \/ m.que = "finalizar" THEN "Finalizados"
  ELSE IF m.que = "continuar" THEN "Ready" ELSE "Bloqueados"

(* Changed by encolarDTB and desencolarDTB, which lock a copy. *)
ConCopia(h) ==
  CASE h = "consola" ->
         Cuando(Comando /\ Len(dtb) + 1 \in GDTs, {"New"}) \cup Cuando(consola.paso = "encolar", {"Finalizados"})
    [] h = "plp" -> Cuando(plp /\ enNew > 0, {"New", "Ready"})
    [] h = "planificadores" -> Cuando(Algoritmo = "RR" /\ Planifican, {"Ready"})
    [] h = "dam" -> {}
    [] OTHER ->
         Cuando(Llega(h, "exit") /\ EnElSistema(Head(aSafa[h]).d), {"Finalizados"})
           \cup Cuando(Fin(h) /\ manejador[h].paso = "recolocar", {Destino(Head(aSafa[h]))})

(* Used with the mutex itself: a copy of it is then locked for ever. *)
ConMutex(h) ==
  CASE h = "consola" -> Cuando(consola.paso = "quitar", {"Ready", "Bloqueados"})
    [] h = "plp" -> {}
    [] h = "planificadores" -> Cuando(Algoritmo # "RR" /\ Planifican, {"Ready"})
    [] h = "dam" -> Cuando(deDam # <<>> /\ Head(deDam).que = "desbloquear", {"Bloqueados"})
    [] OTHER -> Cuando(Fin(h) /\ (manejador[h].paso = "leer" => ~Corria(Head(aSafa[h]).d)), {"New"})

(* Gone through by buscarDTB, and where queue_pop frees a link. *)
Recorre(h) ==
  CASE h \in CPUs -> Cuando(Busca(h), {"New", "Ready"})
    [] h = "dam" -> Cuando(deDam # <<>> /\ Head(deDam).que = "exit", {"New", "Ready"})
    [] OTHER -> {}
Saca(h) ==
  CASE h = "plp" -> Cuando(plp /\ enNew > 0, {"New"})
    [] h = "planificadores" -> Cuando(Planifican, {"Ready"})
    [] OTHER -> {}

Carrera ==
  LET copian == UNION {{h} \X ConCopia(h) : h \in Hilos}
      sacan == UNION {{h} \X Saca(h) : h \in Hilos}
      Usan(Q(_)) == UNION {{h} \X Q(h) : h \in Hilos}
      Chocan(R, S) == \E x \in R, y \in S : x[1] # y[1] /\ x[2] = y[2]
  IN  \/ Chocan(copian, copian) \/ Chocan(copian, Usan(ConMutex)) \/ Chocan(sacan, Usan(Recorre))

(* A GDT that the console holds, an argument that was not sent, and a      *)
(* recurso that another handler has freed.                                 *)
Caer ==
  /\ ~caido
  /\ \/ Carrera
     \/ \E c \in CPUs :
          \/ Llega(c, "verificar") /\ ~EnElSistema(Head(aSafa[c]).d)
          \/ /\ Llega(c, "bloquear") /\ Head(aSafa[c]).arg = "falta" /\ manejador[c].paso = "recolocar"
             /\ dtb[manejador[c].r].status # "FINISHED"
          \/ DeRecurso(c) /\ manejador[c].paso \in {"usar", "eliminar"} /\ ~recursos[El(c)].vivo
  /\ caido' = TRUE
  /\ UNCHANGED <<colas, pausado, plp, consola, planif, recursos, manejador, red, cpu, quitados>>

-----------------------------------------------------------------------------
Consola ==
  \/ Ejecutar \/ Marcar \/ Quitar \/ Encolar
  \/ \E d \in GDTs : Finalizar(d)
  \/ Pausar \/ Trabar \/ Continuar \/ Avisar

DeCPU(c) ==
  \/ Recibir(c) \/ Concentrar(c) \/ Wait(c) \/ Signal(c) \/ Asignar(c) \/ Abrir(c) \/ LeerExistente(c)
  \/ Flush(c) \/ Close(c) \/ Crear(c) \/ Borrar(c) \/ Colgarse(c) \/ SinScript(c)

DeSAFA(c) ==
  \/ Planificar(c) \/ PlanificarNadie(c) \/ Despachar(c)
  \/ AtenderExit(c) \/ AtenderVerificar(c) \/ Sacar(c) \/ AtenderFin(c) \/ AtenderFinDeNadie(c)
  \/ BuscarRecurso(c) \/ CrearRecurso(c) \/ DarRecurso(c) \/ LiberarRecurso(c) \/ EliminarRecurso(c)

Next ==
  \/ Consola \/ TomarLugar \/ Admitir
  \/ \E c \in CPUs : DeCPU(c) \/ DeSAFA(c)
  \/ ResponderExiste \/ ResponderCrear \/ AtenderDam
  \/ Caer

Spec == Init /\ [][Next]_vars
-----------------------------------------------------------------------------
(* The state is of its types: the queues hold GDTs there are, and each     *)
(* planner one of those or none.                                           *)
Estados == {"NEW", "READY", "BLOCKED", "RUNNING", "FINISHED"}

TypeOK ==
  /\ \A cola \in {colaNew, colaReady, colaBloqueados, listaEjecutando, colaFinalizados} : cola \in Seq(DOMAIN dtb)
  /\ \A d \in DOMAIN dtb : dtb[d].status \in Estados
  /\ puedeEntrar \in Nat /\ enNew \in Nat /\ enReady \in Nat
  /\ plp \in BOOLEAN
  /\ planif \in [CPUs -> [d : DOMAIN dtb \cup {Nadie}, enMano : BOOLEAN]]
  /\ quitados \subseteq DOMAIN dtb

Veces(cola, d) == Cardinality({i \in DOMAIN cola : cola[i] = d})
EnConsola(d) == consola.paso = "encolar" /\ consola.d = d
Tienen(d) ==
  Cardinality({c \in CPUs : planif[c] = [d |-> d, enMano |-> TRUE]})
    + Cardinality({c \in CPUs : manejador[c] = [paso |-> "recolocar", r |-> d]})
    + (IF EnConsola(d) THEN 1 ELSE 0)

(* Whatever the console, the planners and the handlers do to it at once, a *)
(* GDT is in one queue, or held by one thread that moves it, until it is   *)
(* in Finalizados.  It is in listaEjecutando too then only if its CPU      *)
(* aborted it and says no more, and it is there twice only if the console  *)
(* had taken it out of listaEjecutando (planificadores.c:16-65,            *)
(* libSAFA.c:88-112, 296-361, 408-417, consolaSAFA.c:118-133).  It says    *)
(* nothing once two threads raced on a queue, whose mutex encolarDTB and   *)
(* desencolarDTB copy (libSAFA.c:6-17): a GDT may then be lost.            *)
UnaColaPorGDT ==
  ~caido => \A d \in DOMAIN dtb :
    LET donde == Veces(colaNew \o colaReady \o colaBloqueados \o listaEjecutando, d) + Tienen(d)
        final == Veces(colaFinalizados, d)
    IN  /\ donde <= 1 /\ (final = 0 => donde = 1)
        /\ (final > 0 /\ donde = 1) =>
             EnConsola(d) \/ (Contains(listaEjecutando, d) /\ \E c \in CPUs : planif[c].d = d /\ cpu[c].muda)
        /\ final > 1 => d \in quitados

(* The places of the degree of multiprogramming are those that are free,   *)
(* the one of planificadorLargoPlazo and those of the GDTs let in that did *)
(* not end; a GDT that ends twice makes one more (planificadores.c:3-13,   *)
(* libSAFA.c:489-493).  Unless two threads raced on a queue.               *)
GradoRespetado ==
  ~caido => puedeEntrar + (IF plp THEN 1 ELSE 0)
    + Cardinality({d \in DOMAIN dtb : ~Contains(colaNew, d) /\ ~Contains(colaFinalizados, d)})
  = Grado + Len(colaFinalizados) - Cardinality(ToSet(colaFinalizados))

Reportes == {"finalizar", "continuar", "bloquear"}

(* A planner that waits for its CPU has exactly one turn under way: the    *)
(* order to execute, the CPU at it, or its report; or the CPU will never   *)
(* report: it aborted the GDT or died.  One that does not wait has none    *)
(* (planificadores.c:16-65, libSAFA.c:296-361, libCPU.c:318-590), and      *)
(* unless two threads raced on a queue.                                    *)
UnReportePorTurno ==
  ~caido => \A c \in CPUs :
    LET turnos == (IF planif[c].enMano THEN 1 ELSE 0)
                  + Cardinality({i \in DOMAIN aCpu[c] : aCpu[c][i].que = "ejecutar"})
                  + (IF cpu[c].estado # "libre" \/ cpu[c].muda THEN 1 ELSE 0)
                  + Cardinality({i \in DOMAIN aSafa[c] : aSafa[c][i].que \in Reportes})
    IN  turnos = (IF planif[c].d = Nadie THEN 0 ELSE 1)
============================================================================

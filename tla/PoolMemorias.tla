---------------------------- MODULE PoolMemorias ----------------------------
(***************************************************************************)
(* One memory of Lissandra's pool (Memoria1/src/libMemoria.c): the table   *)
(* of segments, one per database table, each a list of pages; the frames   *)
(* the pages point to; the bitmap of frames; and the threads that SELECT,  *)
(* INSERT, DROP and JOURNAL start.                                         *)
(*                                                                         *)
(* m_segmento covers the search of a segment, m_pagina one change of a     *)
(* list of pages, m_bitarray one scan of the bitmap; JOURNAL_MEMORIA holds *)
(* m_journal and the first two while it sends every modified page to the   *)
(* file system and frees all.  Between two of those regions a thread keeps *)
(* pointers to segments and pages that another may free; algoritmoLRU      *)
(* chooses its victim with no mutex at all.  What follows the use of a     *)
(* freed pointer, or of frame -1, is not modelled: the memory is then      *)
(* indefinido and stops.                                                   *)
(*                                                                         *)
(* A key belongs to one table.  The value an INSERT writes is the INSERT   *)
(* itself; the one a SELECT brings from the file system is the SELECT.     *)
(* Two pages never have the same timestamp.                                *)
(***************************************************************************)
EXTENDS Integers, SequencesExt

CONSTANTS
  Pedidos,         \* the requests that may arrive, each once
  Tipo,            \* of each: "SELECT", "INSERT", "DROP" or "JOURNAL"
  Clave,           \* the key of a SELECT or an INSERT; of a DROP, any of its table
  Tabla,           \* the table of each key
  EnLFS,           \* the keys the file system has from the start
  Largos,          \* the requests whose value is longer than tamanioValue
  CantidadMarcos,  \* cantidadMarcos
  Nadie            \* no segment, no thread, no value

Claves == DOMAIN Tabla
Tablas == {Tabla[k] : k \in Claves}

ASSUME PoolAssumption ==
  /\ Tipo \in [Pedidos -> {"SELECT", "INSERT", "DROP", "JOURNAL"}]
  /\ Clave \in [Pedidos -> Claves]
  /\ EnLFS \subseteq Claves
  /\ Largos \subseteq Pedidos
  /\ CantidadMarcos \in Nat \ {0}
  /\ IsFiniteSet(Claves)
  /\ Nadie \notin Pedidos

VARIABLES
  segmentos,      \* tablaDeSegmentos
  marcos,         \* pMemoriaPrincipal: a key and a value in each frame
  ocupados,       \* the bits set in bitarrayMarcos
  mJournal,       \* m_journal is locked
  mSegmento,      \* the thread that has m_segmento
  hilos,          \* the thread of each request
  porForzar,      \* memoriaPrincipalFull messages the Kernel has not answered
  esperarJournal, \* the semaphore
  lfs,            \* the file system: the values it received for each key
  indefinido,     \* a freed pointer or frame -1 was used
  ultimo,         \* history: the request that last put each key in a page
  corrida         \* history: a replacement removed a page that is not its victim

vars == <<segmentos, marcos, ocupados, mJournal, mSegmento, hilos, porForzar,
          esperarJournal, lfs, indefinido, ultimo, corrida>>

Marcos == 0 .. (CantidadMarcos - 1)

(* NO_ENCONTRO_MARCO_LIBRE *)
SinMarco == -1

(* segmento: the pointer; pagina: the thread's page, named after the       *)
(* request that created it; indice: indexPaginaAEliminar.                  *)
Hilo0 == [paso |-> "porLlegar", segmento |-> Nadie, marco |-> SinMarco,
          pagina |-> Nadie, indice |-> 0]

Init ==
  /\ segmentos = [t \in Tablas |-> Nadie]
  /\ marcos = [f \in Marcos |-> Nadie]
  /\ ocupados = {}
  /\ mJournal = FALSE
  /\ mSegmento = Nadie
  /\ hilos = [p \in Pedidos |-> Hilo0]
  /\ porForzar = 0
  /\ esperarJournal = 0
  /\ lfs = [k \in Claves |-> {}]
  /\ indefinido = FALSE
  /\ ultimo = [k \in Claves |-> Nadie]
  /\ corrida = FALSE

-----------------------------------------------------------------------------
(* Threads, segments and pages.                                            *)

T(p) == Tabla[Clave[p]]

En(p, paso) == ~indefinido /\ hilos[p].paso = paso

Ir(p, paso) == hilos' = [hilos EXCEPT ![p].paso = paso]

(* The same, and the thread keeps no pointer. *)
Soltar(p, paso) == hilos' = [hilos EXCEPT ![p] = [Hilo0 EXCEPT !.paso = paso]]

(* Its page is there: an INSERT answers the Kernel and ends, a SELECT has  *)
(* to mark the page.                                                       *)
ConPagina(p, id) ==
  hilos' = [hilos EXCEPT ![p] =
    IF Tipo[p] = "INSERT" THEN [Hilo0 EXCEPT !.paso = "fin"]
                          ELSE [Hilo0 EXCEPT !.paso = "limpiar", !.pagina = id]]

(* JOURNAL_MEMORIA has m_pagina as long as it has m_segmento. *)
PaginaLibre == ~ \E p \in Pedidos : hilos[p].paso = "vaciar"

SegmentoVivo(p) ==
  segmentos[T(p)] # Nadie /\ segmentos[T(p)].id = hilos[p].segmento

PaginasDe(t) == IF segmentos[t] = Nadie THEN <<>> ELSE segmentos[t].paginas

Paginas == UNION {ToSet(PaginasDe(t)) : t \in Tablas}

(* getCurrentTime: later than every page. *)
Ahora == 1 + Max({0} \cup {g.uso : g \in Paginas})

(* The places, in the list of its table, of the pages whose frame has key k. *)
Lugares(k) ==
  {i \in DOMAIN PaginasDe(Tabla[k]) :
     LET f == marcos[PaginasDe(Tabla[k])[i].marco] IN f # Nadie /\ f.clave = k}

(* A freed pointer, or frame -1, is used. *)
UsarLiberado(p) ==
  /\ indefinido' = TRUE
  /\ Soltar(p, "fin")
  /\ UNCHANGED <<segmentos, marcos, ocupados, mJournal, mSegmento, porForzar,
                 esperarJournal, lfs, ultimo, corrida>>

Recibir(p) ==
  /\ En(p, "porLlegar")
  /\ Ir(p, CASE Tipo[p] = "SELECT" -> "consultar" [] Tipo[p] = "INSERT" -> "segmento"
             [] Tipo[p] = "DROP" -> "borrar" [] Tipo[p] = "JOURNAL" -> "pedirJournal")
  /\ UNCHANGED <<segmentos, marcos, ocupados, mJournal, mSegmento, porForzar,
                 esperarJournal, lfs, indefinido, ultimo, corrida>>

-----------------------------------------------------------------------------
(* SELECT.                                                                 *)

(* The thread is started with one argument, so connection is whatever the  *)
(* register holds: if it is not NULL the Kernel is answered and m_journal, *)
(* which this thread never locked, is unlocked.                            *)
ConsultarEnMemoria(p) ==
  /\ En(p, "consultar")
  /\ mSegmento = Nadie
  /\ Lugares(Clave[p]) # {}
  /\ mJournal' \in {mJournal, FALSE}
  /\ Ir(p, "fin")
  /\ UNCHANGED <<segmentos, marcos, ocupados, mSegmento, porForzar, esperarJournal,
                 lfs, indefinido, ultimo, corrida>>

ConsultarEnLFS(p) ==
  /\ En(p, "consultar")
  /\ mSegmento = Nadie
  /\ Lugares(Clave[p]) = {}
  /\ Ir(p, "enLFS")
  /\ UNCHANGED <<segmentos, marcos, ocupados, mJournal, mSegmento, porForzar,
                 esperarJournal, lfs, indefinido, ultimo, corrida>>

(* enviarUltimoRegistro: a key that is found goes to the Kernel and to a   *)
(* thread that inserts it (SEL_INS_MEM); one that is not only to the       *)
(* Kernel.                                                                 *)
ResponderLFS(p) ==
  /\ En(p, "enLFS")
  /\ Ir(p, IF Clave[p] \in EnLFS \/ lfs[Clave[p]] # {} THEN "segmento" ELSE "fin")
  /\ UNCHANGED <<segmentos, marcos, ocupados, mJournal, mSegmento, porForzar,
                 esperarJournal, lfs, indefinido, ultimo, corrida>>

-----------------------------------------------------------------------------
(* INSERT_MEMORIA, for an INSERT and for the value of a SELECT.            *)

(* The segment of the table, made if there is none; vez tells the pointer  *)
(* of the first search from that of the search after the journal.          *)
ConSegmento(p, vez) ==
  /\ mSegmento = Nadie
  /\ segmentos' = [segmentos EXCEPT ![T(p)] =
                     IF @ = Nadie THEN [id |-> <<p, vez>>, paginas |-> <<>>] ELSE @]
  /\ hilos' = [hilos EXCEPT ![p].segmento = segmentos'[T(p)].id,
                            ![p].paso = IF vez = 1 THEN "pagina" ELSE "remarco"]
  /\ UNCHANGED <<marcos, ocupados, mJournal, mSegmento, porForzar, esperarJournal,
                 lfs, indefinido, ultimo, corrida>>

BuscarSegmento(p) ==
  \/ En(p, "segmento") /\ p \notin Largos /\ ConSegmento(p, 1)
  \/ En(p, "resegmento") /\ ConSegmento(p, 2)

(* A value that is too long is dropped: the thread of a SELECT, whose      *)
(* Kernel has its answer, ends; the Kernel of an INSERT gets none.         *)
ValorExcedido(p) ==
  /\ En(p, "segmento")
  /\ p \in Largos
  /\ Ir(p, IF Tipo[p] = "INSERT" THEN "sinRespuesta" ELSE "fin")
  /\ UNCHANGED <<segmentos, marcos, ocupados, mJournal, mSegmento, porForzar,
                 esperarJournal, lfs, indefinido, ultimo, corrida>>

(* The key has a page: its value and time change, its flag does not. *)
ActualizarPagina(p) ==
  /\ En(p, "pagina")
  /\ PaginaLibre
  /\ SegmentoVivo(p)
  /\ Lugares(Clave[p]) # {}
  /\ LET i == Min(Lugares(Clave[p]))
         g == PaginasDe(T(p))[i]
     IN  /\ marcos' = [marcos EXCEPT ![g.marco] = [clave |-> Clave[p], valor |-> p]]
         /\ segmentos' = [segmentos EXCEPT ![T(p)].paginas[i].uso = Ahora]
         /\ ConPagina(p, g.id)
  /\ ultimo' = [ultimo EXCEPT ![Clave[p]] = p]
  /\ UNCHANGED <<ocupados, mJournal, mSegmento, porForzar, esperarJournal, lfs,
                 indefinido, corrida>>

FaltaPagina(p) ==
  /\ En(p, "pagina")
  /\ PaginaLibre
  /\ SegmentoVivo(p)
  /\ Lugares(Clave[p]) = {}
  /\ Ir(p, "marco")
  /\ UNCHANGED <<segmentos, marcos, ocupados, mJournal, mSegmento, porForzar,
                 esperarJournal, lfs, indefinido, ultimo, corrida>>

MarcosLibres == Marcos \ ocupados

(* setearMarcoLibreEnBitarray: the first free frame; without one, LRU the  *)
(* first time.  After a journal the -1 is not looked at.                   *)
TomarMarco(p) ==
  /\ En(p, "marco") \/ En(p, "remarco")
  /\ LET hay == MarcosLibres # {} IN
     /\ ocupados' = IF hay THEN ocupados \cup {Min(MarcosLibres)} ELSE ocupados
     /\ hilos' = [hilos EXCEPT
          ![p].marco = IF hay THEN Min(MarcosLibres) ELSE SinMarco,
          ![p].paso = IF hay \/ @ = "remarco" THEN "crear" ELSE "lru"]
  /\ UNCHANGED <<segmentos, marcos, mJournal, mSegmento, porForzar, esperarJournal,
                 lfs, indefinido, ultimo, corrida>>

(* algoritmoLRU: of the pages with flag false, the one whose timestamp is  *)
(* the least.  A SELECT that reads a page does not change it.              *)
Reemplazables == {g \in Paginas : ~g.modificada}

ElegirVictima(p) ==
  /\ En(p, "lru")
  /\ \E t \in Tablas : \E i \in DOMAIN PaginasDe(t) :
       LET g == PaginasDe(t)[i] IN
       /\ g \in Reemplazables
       /\ \A otra \in Reemplazables : g.uso <= otra.uso
       /\ hilos' = [hilos EXCEPT ![p].pagina = g.id, ![p].marco = g.marco,
                                 ![p].indice = i, ![p].paso = "victima"]
  /\ UNCHANGED <<segmentos, marcos, ocupados, mJournal, mSegmento, porForzar,
                 esperarJournal, lfs, indefinido, ultimo, corrida>>

(* Every page is modified: a client's INSERT tells the Kernel that the     *)
(* memory is full and waits; the insertion of a SELECT goes straight on.   *)
SinVictima(p) ==
  /\ En(p, "lru")
  /\ Reemplazables = {}
  /\ IF Tipo[p] = "INSERT"
     THEN porForzar' = porForzar + 1 /\ Soltar(p, "lleno")
     ELSE UNCHANGED porForzar /\ Soltar(p, "pedirJournal")
  /\ UNCHANGED <<segmentos, marcos, ocupados, mJournal, mSegmento, esperarJournal,
                 lfs, indefinido, ultimo, corrida>>

(* ejecutarJournal, in the Kernel, and forzarJournalParaInsert. *)
ForzarJournal ==
  /\ porForzar > 0
  /\ porForzar' = porForzar - 1
  /\ esperarJournal' = esperarJournal + 1
  /\ UNCHANGED <<segmentos, marcos, ocupados, mJournal, mSegmento, hilos, lfs,
                 indefinido, ultimo, corrida>>

EsperarJournal(p) ==
  /\ En(p, "lleno")
  /\ esperarJournal > 0
  /\ esperarJournal' = esperarJournal - 1
  /\ Ir(p, "pedirJournal")
  /\ UNCHANGED <<segmentos, marcos, ocupados, mJournal, mSegmento, porForzar, lfs,
                 indefinido, ultimo, corrida>>

(* The table whose list has the page id, with its place there. *)
TablaDePagina(id) ==
  {t \in Tablas : \E i \in DOMAIN PaginasDe(t) : PaginasDe(t)[i].id = id}

(* Mutant: the node of the victim stays in its list. *)
SinQuitarNodo(s, i) == s

(* list_remove_and_destroy_element: nothing if the list is shorter. *)
QuitarNodo(s, i) == IF i \in DOMAIN s THEN RemoveAt(s, i) ELSE s

(* The frame of the victim is overwritten and the node at the place where  *)
(* the victim was found is removed.                                        *)
Reemplazar(p) ==
  /\ En(p, "victima")
  /\ PaginaLibre
  /\ \E t \in TablaDePagina(hilos[p].pagina) :
       LET s == PaginasDe(t)
           i == hilos[p].indice
       IN  /\ segmentos' = [segmentos EXCEPT ![t].paginas = QuitarNodo(s, i)]
           /\ corrida' = (corrida \/ i \notin DOMAIN s \/ s[i].id # hilos[p].pagina)
  /\ marcos' = [marcos EXCEPT ![hilos[p].marco] = [clave |-> Clave[p], valor |-> p]]
  /\ Ir(p, "crear")
  /\ UNCHANGED <<ocupados, mJournal, mSegmento, porForzar, esperarJournal, lfs,
                 indefinido, ultimo>>

(* Mutant: a new page begins as not modified. *)
FlagDeSelect == FALSE

(* crearNodoPagina *)
FlagNueva == TRUE

CrearPagina(p) ==
  /\ En(p, "crear")
  /\ PaginaLibre
  /\ SegmentoVivo(p)
  /\ hilos[p].marco # SinMarco
  /\ marcos' = [marcos EXCEPT ![hilos[p].marco] = [clave |-> Clave[p], valor |-> p]]
  /\ segmentos' = [segmentos EXCEPT ![T(p)].paginas =
       Append(@, [id |-> p, marco |-> hilos[p].marco, modificada |-> FlagNueva, uso |-> Ahora])]
  /\ ultimo' = [ultimo EXCEPT ![Clave[p]] = p]
  /\ ConPagina(p, p)
  /\ UNCHANGED <<ocupados, mJournal, mSegmento, porForzar, esperarJournal, lfs,
                 indefinido, corrida>>

(* SEL_INS_MEM: the page, new or not, is marked as not modified. *)
MarcarLimpia(p) ==
  /\ En(p, "limpiar")
  /\ \E t \in TablaDePagina(hilos[p].pagina) :
       segmentos' = [segmentos EXCEPT ![t].paginas =
         [i \in DOMAIN @ |-> IF @[i].id = hilos[p].pagina
                             THEN [@[i] EXCEPT !.modificada = FALSE] ELSE @[i]]]
  /\ Soltar(p, "fin")
  /\ UNCHANGED <<marcos, ocupados, mJournal, mSegmento, porForzar, esperarJournal,
                 lfs, indefinido, ultimo, corrida>>

(* The segment, the victim or the page was freed meanwhile, or there was   *)
(* no frame.                                                               *)
InsertarIndefinido(p) ==
  /\ \/ (En(p, "pagina") \/ En(p, "crear")) /\ PaginaLibre /\ ~SegmentoVivo(p)
     \/ En(p, "crear") /\ PaginaLibre /\ hilos[p].marco = SinMarco
     \/ En(p, "victima") /\ PaginaLibre /\ TablaDePagina(hilos[p].pagina) = {}
     \/ En(p, "limpiar") /\ TablaDePagina(hilos[p].pagina) = {}
  /\ UsarLiberado(p)

-----------------------------------------------------------------------------
(* JOURNAL_MEMORIA.                                                        *)

TomarMJournal(p) ==
  /\ En(p, "pedirJournal")
  /\ ~mJournal
  /\ mJournal' = TRUE
  /\ Ir(p, "journal")
  /\ UNCHANGED <<segmentos, marcos, ocupados, mSegmento, porForzar, esperarJournal,
                 lfs, indefinido, ultimo, corrida>>

(* What the file system has received for key k once the journal is sent. *)
Recibidos(k) ==
  lfs[k] \cup {marcos[g.marco].valor : g \in
                 {h \in Paginas : h.modificada /\ marcos[h.marco].clave = k}}

(* With the three mutexes, each modified page is sent and its answer       *)
(* (semInserts) waited for.                                                *)
EnviarModificadas(p) ==
  /\ En(p, "journal")
  /\ mSegmento = Nadie
  /\ mSegmento' = p
  /\ lfs' = [k \in Claves |-> Recibidos(k)]
  /\ Ir(p, "vaciar")
  /\ UNCHANGED <<segmentos, marcos, ocupados, mJournal, porForzar, esperarJournal,
                 indefinido, ultimo, corrida>>

(* Mutant: the journal of an INSERT returns with m_segmento. *)
RetenerSegmento(p) == mSegmento' = IF Tipo[p] = "INSERT" THEN mSegmento ELSE Nadie

SoltarSegmento(p) == mSegmento' = Nadie

Vaciar(p) ==
  /\ En(p, "vaciar")
  /\ segmentos' = [t \in Tablas |-> Nadie]
  /\ ocupados' = {}
  /\ mJournal' = FALSE
  /\ SoltarSegmento(p)
  /\ hilos' = [hilos EXCEPT ![p] =
       [Hilo0 EXCEPT !.paso = IF Tipo[p] = "JOURNAL" THEN "fin" ELSE "resegmento"]]
  /\ UNCHANGED <<marcos, porForzar, esperarJournal, lfs, indefinido, ultimo, corrida>>

-----------------------------------------------------------------------------
(* DROP_MEMORIA, and what the file system does with it.                    *)

Olvidar(t) ==
  /\ lfs' = [k \in Claves |-> IF Tabla[k] = t THEN {} ELSE lfs[k]]
  /\ ultimo' = [k \in Claves |-> IF Tabla[k] = t THEN Nadie ELSE ultimo[k]]

BorrarAusente(p) ==
  /\ En(p, "borrar")
  /\ mSegmento = Nadie
  /\ segmentos[T(p)] = Nadie
  /\ Olvidar(T(p))
  /\ Ir(p, "fin")
  /\ UNCHANGED <<segmentos, marcos, ocupados, mJournal, mSegmento, porForzar,
                 esperarJournal, indefinido, corrida>>

(* The pages and their frames are freed; then m_journal is unlocked, and   *)
(* m_segmento is not.                                                      *)
Borrar(p) ==
  /\ En(p, "borrar")
  /\ mSegmento = Nadie
  /\ segmentos[T(p)] # Nadie
  /\ ocupados' = ocupados \ {g.marco : g \in ToSet(PaginasDe(T(p)))}
  /\ segmentos' = [segmentos EXCEPT ![T(p)] = Nadie]
  /\ Olvidar(T(p))
  /\ mSegmento' = p
  /\ mJournal' = FALSE
  /\ Ir(p, "fin")
  /\ UNCHANGED <<marcos, porForzar, esperarJournal, indefinido, corrida>>

-----------------------------------------------------------------------------
Insertar(p) ==
  \/ BuscarSegmento(p) \/ ValorExcedido(p) \/ ActualizarPagina(p) \/ FaltaPagina(p)
  \/ TomarMarco(p) \/ ElegirVictima(p) \/ SinVictima(p) \/ EsperarJournal(p)
  \/ Reemplazar(p) \/ CrearPagina(p) \/ MarcarLimpia(p) \/ InsertarIndefinido(p)

Journal(p) == TomarMJournal(p) \/ EnviarModificadas(p) \/ Vaciar(p)

Atender(p) ==
  \/ ConsultarEnMemoria(p) \/ ConsultarEnLFS(p) \/ ResponderLFS(p)
  \/ Insertar(p) \/ Journal(p)
  \/ BorrarAusente(p) \/ Borrar(p)

(* What the memory and the Kernel do by themselves. *)
Hilos == ForzarJournal \/ \E p \in Pedidos : Atender(p)

Next == Hilos \/ \E p \in Pedidos : Recibir(p)

Spec == Init /\ [][Next]_vars

-----------------------------------------------------------------------------
(* Properties.                                                             *)

Pagina == [id : Pedidos, marco : Marcos, modificada : BOOLEAN, uso : Nat]

Punteros == Pedidos \X {1, 2}

Segmento == [id : Punteros, paginas : Seq(Pagina)]

Contenido == [clave : Claves, valor : Pedidos]

ASSUME NadieAssumption == Nadie \notin Segmento /\ Nadie \notin Punteros

Pasos == {"porLlegar", "consultar", "enLFS", "segmento", "pagina", "marco", "lru",
          "victima", "lleno", "crear", "limpiar", "pedirJournal", "journal", "vaciar",
          "resegmento", "remarco", "borrar", "sinRespuesta", "fin"}

Hilo == [paso : Pasos, segmento : Punteros \cup {Nadie}, marco : Marcos \cup {SinMarco},
         pagina : Pedidos \cup {Nadie}, indice : Nat]

TypeOK ==
  /\ segmentos \in [Tablas -> Segmento \cup {Nadie}]
  /\ marcos \in [Marcos -> Contenido \cup {Nadie}]
  /\ ocupados \subseteq Marcos
  /\ mJournal \in BOOLEAN
  /\ mSegmento \in Pedidos \cup {Nadie}
  /\ hilos \in [Pedidos -> Hilo]
  /\ porForzar \in Nat /\ esperarJournal \in Nat
  /\ lfs \in [Claves -> SUBSET Pedidos]
  /\ ultimo \in [Claves -> Pedidos \cup {Nadie}]
  /\ indefinido \in BOOLEAN /\ corrida \in BOOLEAN

(* The threads that have a frame for a page they have not made yet, and    *)
(* those of them whose segment was freed under their feet.                 *)
ConMarco == {p \in Pedidos : hilos[p].paso = "crear" /\ hilos[p].marco # SinMarco}

Colgados == {p \in ConMarco : ~SegmentoVivo(p)}

(* A frame has one owner: a page, or a thread that is about to make one;   *)
(* and the bitmap says so.  The page that is read is the one that was      *)
(* inserted, through updates, replacements, journals and drops that        *)
(* interleave, as long as no freed pointer is in use and no replacement    *)
(* removed another node than its victim's.                                 *)
MarcosConUnDuenio ==
  (~indefinido /\ ~corrida /\ Colgados = {}) =>
    /\ \A g, h \in Paginas : g # h => g.marco # h.marco
    /\ \A p, q \in ConMarco : p # q => hilos[p].marco # hilos[q].marco
    /\ \A p \in ConMarco : \A g \in Paginas : g.marco # hilos[p].marco
    /\ ocupados = {g.marco : g \in Paginas} \cup {hilos[p].marco : p \in ConMarco}

(* No INSERT is lost, whatever journals, replacements and other INSERTs    *)
(* come between: the last value of a key is in a page marked as modified   *)
(* or the file system has it.  A key that some SELECT also brings from the *)
(* file system is left out: see LimpiaSinActualizar.                       *)
SoloInsertadas == Claves \ {Clave[p] : p \in {q \in Pedidos : Tipo[q] = "SELECT"}}

NadaSePierde ==
  (~indefinido /\ ~corrida) =>
    \A k \in SoloInsertadas : ultimo[k] # Nadie =>
      \/ ultimo[k] \in lfs[k]
      \/ \E g \in Paginas : g.modificada /\ marcos[g.marco] = [clave |-> k, valor |-> ultimo[k]]

(* No INSERT waits for ever, for a mutex or for the Kernel's semaphore,    *)
(* whatever the order of journals, full memories and replacements: when no *)
(* thread can go on, each has been answered, unless DROP left m_segmento   *)
(* locked.  No thread loops, so one that does not wait for ever ends.  The *)
(* one INSERT whose Kernel is never answered is the one whose value is too *)
(* long, and it is given up before it touches segments and pages.          *)
SegmentoPerdido == mSegmento # Nadie /\ hilos[mSegmento].paso = "fin"

SinEsperaEterna ==
  (~ENABLED Hilos /\ ~indefinido /\ ~SegmentoPerdido) =>
    \A p \in Pedidos : Tipo[p] = "INSERT" =>
      hilos[p].paso \in {"porLlegar", IF p \in Largos THEN "sinRespuesta" ELSE "fin"}

(* The comment in algoritmoLRU: pages whose flag is false are "registros   *)
(* no actualizados"; their value is the one a SELECT brought.              *)
LimpiaSinActualizar ==
  ~indefinido => \A g \in Reemplazables : Tipo[marcos[g.marco].valor] = "SELECT"
=============================================================================

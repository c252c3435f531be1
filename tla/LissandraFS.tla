---------------------------- MODULE LissandraFS ----------------------------
(***************************************************************************)
(* The Lissandra File System (libLissandra.c, consolaLissandra.c): CREATE, *)
(* INSERT, SELECT, DESCRIBE and DROP, the dump of the memtable, and the    *)
(* compaction of each table, on a bitmap of blocks.                        *)
(*                                                                         *)
(* Threads: one per connection, the console being one more, which takes a  *)
(* request after the other; planificarDump; and                            *)
(* controlEjecucionCompactacion, one per table.  The value of an INSERT is *)
(* the request itself.  A record fits in a block, and a block holds Cap of *)
(* them.  No name of a table contains another.  caido: the process used a  *)
(* NULL or freed pointer, or two threads changed one list at once; nothing *)
(* after that is modelled.                                                 *)
(***************************************************************************)
EXTENDS Integers, SequencesExt

CONSTANTS
  Tablas,
  Particiones, \* PARTITIONS of each table
  CantBloques, \* BLOCKS
  Cap,         \* records in a block of BLOCK_SIZE
  Pedidos,     \* the requests that may come, each once
  Tipo,        \* of each request
  Tabla,       \* of each request
  Clave,       \* key of an INSERT or a SELECT
  TS,          \* timestamp of an INSERT, in milliseconds
  Medio,       \* 2^31, the width of an int: what atoi leaves of a timestamp
  Satura,      \* a long has that width too
  Previo,      \* the request before it on its connection
  DeConsola,   \* those typed in the console
  Creadas,     \* the tables that were created before
  Nadie        \* NULL

ASSUME FSAssumption ==
  /\ Particiones \in Nat \ {0} /\ CantBloques \in Nat /\ Cap \in Nat \ {0}
  /\ Tipo \in [Pedidos -> {"CREATE", "INSERT", "SELECT", "DESCRIBE", "DROP"}]
  /\ Tabla \in [Pedidos -> Tablas]
  /\ Clave \in [Pedidos -> Nat]
  /\ TS \in [Pedidos -> Nat \ {0}]
  /\ Medio \in Nat \ {0} /\ Satura \in BOOLEAN /\ DeConsola \subseteq Pedidos
  /\ Previo \in [Pedidos -> Pedidos \cup {Nadie}]
  /\ Creadas \in Seq(Tablas) /\ IsInjective(Creadas)
  /\ Particiones * Len(Creadas) <= CantBloques

VARIABLES
  tablas,      \* listadoTablas
  mem,         \* listaDeMemTable
  dirs,        \* the directories of /Tables
  metadata,    \* those that hold their Metadata
  archivos,    \* the files <<table, kind, number>> and their BLOCKS
  ocupados,    \* the bits set in the bitmap
  disco,       \* the records of each block
  esperaTabla, \* the semaphore
  dump,        \* planificarDump
  comp,        \* controlEjecucionCompactacion of each table
  ped,         \* the thread of each request
  perdidas,    \* history: the ways in which records went astray
  caido

disk == <<dirs, metadata, archivos, ocupados, disco>>
vars == <<tablas, mem, disk, esperaTabla, dump, comp, ped, perdidas, caido>>

(* BLOCKS=[-1] is what reservarArrayBloques leaves when the disk is full. *)
SinBloque == -1
Bloques == 0 .. (CantBloques - 1)
Sectores == Bloques \cup {SinBloque}

ASSUME NadieAssumption ==
  /\ IsFiniteSet(Pedidos) /\ Tablas \cap Pedidos = {}
  /\ Nadie \notin Tablas \cup Pedidos \cup Sectores
  /\ Nadie \notin Seq(Sectores)

Tabla0(t) == [nombre |-> t, contador |-> 1, compactados |-> 1, vivo |-> TRUE, mutex |-> Nadie]

(* The first blocks are those of the tables that exist. *)
BloqueInicial(i, k) == (i - 1) * Particiones + k - 1

Init ==
  /\ tablas = [i \in DOMAIN Creadas |-> Tabla0(Creadas[i])]
  /\ mem = <<>>
  /\ dirs = ToSet(Creadas) /\ metadata = ToSet(Creadas)
  /\ archivos = [f \in {<<Creadas[i], "bin", k>> : i \in DOMAIN Creadas, k \in 1..Particiones} |->
                   <<BloqueInicial(CHOOSE i \in DOMAIN Creadas : Creadas[i] = f[1], f[3])>>]
  /\ ocupados = 0 .. (Particiones * Len(Creadas) - 1)
  /\ disco = [b \in Sectores |-> <<>>]
  /\ esperaTabla = 0
  /\ dump = [paso |-> "dormido", i |-> 0, numero |-> 0]
  /\ comp = [t \in Tablas |-> [paso |-> IF Contains(Creadas, t) THEN "dormido" ELSE "nada", i |-> 0, j |-> 0, bs |-> <<>>, vaciar |-> Nadie, almacen |-> <<>>]]
  /\ ped = [p \in Pedidos |-> [paso |-> "nuevo", nodo |-> Nadie, hubo |-> FALSE, mejor |-> Nadie,
                               n |-> 1, bs |-> Nadie, debe |-> 0, ventana |-> FALSE, trabada |-> FALSE]]
  /\ perdidas = {}
  /\ caido = FALSE

-----------------------------------------------------------------------------
(* What atoi makes of a timestamp and unsigned keeps: it has 13 digits, so *)
(* its last 32 bits, or the largest int where strtol saturates.            *)
Entero(p) == IF Satura /\ TS[p] >= Medio THEN Medio - 1 ELSE TS[p] % (2 * Medio)

Respondido(p) == ped[p].paso \in {"fin", "rechazado"}

En(p, tipo, paso) ==
  /\ ~caido /\ Tipo[p] = tipo /\ ped[p].paso = paso
  /\ \A q \in Pedidos : Previo[p] = q => Respondido(q)
Ir(p, paso) == ped' = [ped EXCEPT ![p].paso = paso]

(* retornarElementoTabla. *)
Registrada(t) == \E i \in DOMAIN tablas : tablas[i].nombre = t
Indice(t) == CHOOSE i \in DOMAIN tablas : tablas[i].nombre = t
LaTabla(t) == tablas[Indice(t)]

(* mutex_tabla, which outlives a step in a SELECT and after a rename that  *)
(* failed; m_busqueda and m_inserts, in the dump; m_busqueda in a SELECT.  *)
MutexLibre(t) == LaTabla(t).mutex = Nadie
Leyendo == \E p \in Pedidos : Tipo[p] = "SELECT" /\ ped[p].paso = "leyendo"
InsertsLibre == dump.paso = "dormido"
BusquedaLibre == InsertsLibre /\ ~Leyendo

Nodo(id) == CHOOSE i \in DOMAIN mem : mem[i].id = id
HayNodo(id) == \E i \in DOMAIN mem : mem[i].id = id
NodosDe(t) == {i \in DOMAIN mem : mem[i].nombre = t}

(* buscarBloqueLibre, n times: the first free blocks. *)
Libres == Bloques \ ocupados
Primeros(n) == {b \in Libres : Cardinality({c \in Libres : c < b}) < n}

(* Mutant: the bit of the block is not set. *)
SinMarcar(bs) == ocupados

Marcar(bs) == ocupados \cup bs

(* Blocks whose bit is clear and whose file is about to be emptied. *)
PorVaciar ==
  {comp[t].vaciar : t \in Tablas} \cup
  UNION {ToSet(ped[p].bs) : p \in {q \in Pedidos : Tipo[q] = "DROP" /\ ped[q].bs # Nadie}}

Pisa(bs) == IF bs \cap PorVaciar # {} THEN {"pisado"} ELSE {}
Falta(bs, n) == IF Cardinality(bs) < n THEN {"sinBloques"} ELSE {}

Enteros(n) == IF n = 0 THEN 1 ELSE (n + Cap - 1) \div Cap

(* insertarRegistroDentroDelBloque, record after record: what does not fit *)
(* in the blocks bs is dropped.                                            *)
Escribir(bs, regs) ==
  [b \in DOMAIN disco |->
     IF ~Contains(bs, b) THEN disco[b]
     ELSE LET i == CHOOSE j \in DOMAIN bs : bs[j] = b
          IN  disco[b] \o SubSeq(regs, (i - 1) * Cap + 1, IF i * Cap < Len(regs) THEN i * Cap ELSE Len(regs))]

Ordenados(bs) == [k \in 1..Cardinality(bs) |-> CHOOSE b \in bs : Cardinality({c \in bs : c <= b}) = k]

Contenido(bs) == UNION {ToSet(disco[bs[i]]) : i \in DOMAIN bs}

(* A file is written, or written anew, with its BLOCKS. *)
ConArchivo(f, bs) == [g \in DOMAIN archivos \cup {f} |-> IF g = f THEN bs ELSE archivos[g]]

-----------------------------------------------------------------------------
(* CREATE: crear_y_almacenar_datos.  stat and mkdir are one step.          *)

CrearExistente(p) ==
  /\ En(p, "CREATE", "nuevo")
  /\ Tabla[p] \in dirs
  /\ Ir(p, "rechazado")
  /\ UNCHANGED <<tablas, mem, disk, esperaTabla, dump, comp, perdidas, caido>>

(* hayBloquesParaReservar: it returns, and a client gets no answer. *)
CrearSinEspacio(p) ==
  /\ En(p, "CREATE", "nuevo")
  /\ Tabla[p] \notin dirs
  /\ Cardinality(Libres) < Particiones
  /\ Ir(p, IF p \in DeConsola THEN "rechazado" ELSE "sinRespuesta")
  /\ UNCHANGED <<tablas, mem, disk, esperaTabla, dump, comp, perdidas, caido>>

CrearDirectorio(p) ==
  LET t == Tabla[p] IN
  /\ En(p, "CREATE", "nuevo")
  /\ t \notin dirs
  /\ Cardinality(Libres) >= Particiones
  /\ dirs' = dirs \cup {t} /\ metadata' = metadata \cup {t}
  /\ Ir(p, "particiones")
  /\ UNCHANGED <<tablas, mem, archivos, ocupados, disco, esperaTabla, dump, comp, perdidas, caido>>

(* crearParticiones: one block each; the ones that get none have no file. *)
CrearParticiones(p) ==
  LET t == Tabla[p]
      bs == Primeros(Particiones)
      orden == Ordenados(bs)
      nuevos == {<<t, "bin", i>> : i \in DOMAIN orden}
  IN  /\ En(p, "CREATE", "particiones")
      /\ archivos' = [f \in DOMAIN archivos \cup nuevos |-> IF f \in nuevos THEN <<orden[f[3]]>> ELSE archivos[f]]
      /\ ocupados' = Marcar(bs)
      /\ perdidas' = perdidas \cup Falta(bs, Particiones) \cup Pisa(bs)
      /\ comp' = [comp EXCEPT ![t].paso = "esperaTabla"]
      /\ Ir(p, "registrar")
      /\ UNCHANGED <<tablas, mem, dirs, metadata, disco, esperaTabla, dump, caido>>

Registrar(p) ==
  /\ En(p, "CREATE", "registrar")
  /\ tablas' = Append(tablas, Tabla0(Tabla[p]))
  /\ esperaTabla' = esperaTabla + 1
  /\ Ir(p, "fin")
  /\ UNCHANGED <<mem, disk, dump, comp, perdidas, caido>>

-----------------------------------------------------------------------------
(* INSERT: insertarValoresDentroDeLaMemTable, insertarValoresEnTabla.      *)

BuscarMemTable(p) ==
  LET t == Tabla[p] IN
  /\ En(p, "INSERT", "nuevo")
  /\ IF t \notin dirs
     THEN Ir(p, "rechazado") /\ UNCHANGED mem
     ELSE /\ BusquedaLibre
          /\ mem' = IF NodosDe(t) = {} THEN Append(mem, [id |-> p, nombre |-> t, regs |-> <<>>]) ELSE mem
          /\ ped' = [ped EXCEPT ![p].paso = "insertar",
                                ![p].nodo = IF NodosDe(t) = {} THEN p ELSE mem[Min(NodosDe(t))].id]
  /\ UNCHANGED <<tablas, disk, esperaTabla, dump, comp, perdidas, caido>>

(* m_busqueda was released: the dump or a DROP may have freed the node. *)
InsertarCae(p) == En(p, "INSERT", "insertar") /\ InsertsLibre /\ ~HayNodo(ped[p].nodo)

Insertar(p) ==
  /\ En(p, "INSERT", "insertar")
  /\ InsertsLibre
  /\ ~InsertarCae(p)
  /\ mem' = [mem EXCEPT ![Nodo(ped[p].nodo)].regs = Append(@, p)]
  /\ Ir(p, "fin")
  /\ UNCHANGED <<tablas, disk, esperaTabla, dump, comp, perdidas, caido>>

-----------------------------------------------------------------------------
(* planificarDump and iniciarProcesoDUMP.                                  *)

(* The memtable it writes: it takes m_busqueda and m_inserts for them all. *)
Volcando == ~caido /\ ((dump.paso = "dormido" /\ ~Leyendo /\ mem # <<>>) \/ dump.paso = "volcar")
Lugar == IF dump.paso = "dormido" THEN 1 ELSE dump.i

(* The memtable and the table of the same place in their lists: no table   *)
(* there, or the memtable of a table that has no directory any more.       *)
VolcarCae ==
  Volcando /\ (Lugar > Len(tablas) \/ (mem[Lugar].nombre \notin dirs /\ Libres # {}))

(* No block: every memtable is thrown away. *)
DumpSinBloques ==
  /\ Volcando /\ ~VolcarCae
  /\ Libres = {}
  /\ mem' = <<>>
  /\ dump' = [dump EXCEPT !.paso = "dormido"]
  /\ perdidas' = perdidas \cup {"sinBloques"}
  /\ UNCHANGED <<tablas, disk, esperaTabla, comp, ped, caido>>

(* The file has the name of the memtable and the counter of the table of   *)
(* its place.                                                              *)
Volcar ==
  LET nodo == mem[Lugar]
      numero == tablas[Lugar].contador
      n == Enteros(Len(nodo.regs))
      bs == Primeros(n)
  IN  /\ Volcando /\ ~VolcarCae
      /\ Libres # {}
      /\ archivos' = ConArchivo(<<nodo.nombre, "tmp", numero>>, Ordenados(bs))
      /\ ocupados' = Marcar(bs)
      /\ disco' = Escribir(Ordenados(bs), nodo.regs)
      /\ perdidas' = perdidas \cup Falta(bs, n) \cup Pisa(bs)
                              \cup (IF tablas[Lugar].nombre = nodo.nombre THEN {} ELSE {"descuadre"})
      /\ mem' = [mem EXCEPT ![Lugar].regs = <<>>]
      /\ dump' = [paso |-> "contar", i |-> Lugar, numero |-> numero]
      /\ UNCHANGED <<tablas, dirs, metadata, esperaTabla, comp, ped, caido>>

(* Mutant: the file is not counted. *)
SinContar == tablas

UnoMas == [tablas EXCEPT ![dump.i].contador = @ + 1]

(* The counter, under mutex_tabla.  A compaction may have put it back to 1 *)
(* meanwhile.                                                              *)
Contar ==
  LET x == tablas[dump.i]
      ultimo == dump.i = Len(mem)
  IN  /\ ~caido /\ dump.paso = "contar"
      /\ x.mutex = Nadie
      /\ tablas' = UnoMas
      /\ perdidas' = perdidas \cup
           (IF x.contador = dump.numero THEN {} ELSE {"descuadre"})
      /\ dump' = [paso |-> IF ultimo THEN "dormido" ELSE "volcar", i |-> dump.i + 1, numero |-> 0]
      /\ mem' = IF ultimo THEN <<>> ELSE mem
      /\ UNCHANGED <<disk, esperaTabla, comp, ped, caido>>

-----------------------------------------------------------------------------
(* controlEjecucionCompactacion, iniciarEnUnaTablaLaCOMPACTACION.          *)

Comp(t, paso) == ~caido /\ comp[t].paso = paso

(* The post may be that of another CREATE. *)
ArrancarCae(t) == Comp(t, "esperaTabla") /\ esperaTabla > 0 /\ ~Registrada(t)

Arrancar(t) ==
  /\ Comp(t, "esperaTabla") /\ esperaTabla > 0
  /\ ~ArrancarCae(t)
  /\ esperaTabla' = esperaTabla - 1
  /\ comp' = [comp EXCEPT ![t].paso = "dormido"]
  /\ UNCHANGED <<tablas, mem, disk, dump, ped, perdidas, caido>>

(* flagSalida is looked at after each compaction. *)
Dormir(t) == IF LaTabla(t).vivo THEN "dormido" ELSE "fin"

(* Mutant: flagSalida is looked at only where there are files to compact. *)
SalirSiHayDump(t) ==
  /\ Comp(t, "dormido") /\ ~LaTabla(t).vivo /\ LaTabla(t).contador # 1
  /\ comp' = [comp EXCEPT ![t].paso = "fin"]
  /\ UNCHANGED <<tablas, mem, disk, esperaTabla, dump, ped, perdidas, caido>>

Salir(t) ==
  /\ Comp(t, "dormido") /\ ~LaTabla(t).vivo /\ LaTabla(t).contador = 1
  /\ comp' = [comp EXCEPT ![t].paso = "fin"]
  /\ UNCHANGED <<tablas, mem, disk, esperaTabla, dump, ped, perdidas, caido>>

(* The files before the first that is missing. *)
Renombrables(t) ==
  {k \in 1 .. (LaTabla(t).contador - 1) : \A j \in 1..k : <<t, "tmp", j>> \in DOMAIN archivos}

Renombrados(t) ==
  LET ks == Renombrables(t)
      quedan == DOMAIN archivos \ {<<t, "tmp", k>> : k \in ks}
  IN  [f \in quedan \cup {<<t, "tmpc", k>> : k \in ks} |->
         IF f[1] = t /\ f[2] = "tmpc" /\ f[3] \in ks THEN archivos[<<t, "tmp", f[3]>>] ELSE archivos[f]]

(* A SELECT of the table goes on at the same time. *)
Avisar(t) ==
  [p \in Pedidos |-> IF Tipo[p] = "SELECT" /\ Tabla[p] = t THEN [ped[p] EXCEPT !.ventana = TRUE] ELSE ped[p]]

Renombrar(t) ==
  LET i == Indice(t)
      ks == Renombrables(t)
      todos == ks = 1 .. (LaTabla(t).contador - 1)
      mas == LaTabla(t).compactados + Cardinality(ks)
  IN  /\ Comp(t, "dormido") /\ LaTabla(t).contador # 1
      /\ MutexLibre(t)
      /\ archivos' = Renombrados(t)
      /\ IF todos
         THEN /\ tablas' = [tablas EXCEPT ![i].contador = 1, ![i].compactados = mas]
              /\ comp' = [comp EXCEPT ![t].paso = "descargar", ![t].i = 1, ![t].j = 1,
                                      ![t].almacen = [k \in 1..Particiones |-> <<>>]]
         ELSE /\ tablas' = [tablas EXCEPT ![i].compactados = mas, ![i].mutex = t]
              /\ comp' = [comp EXCEPT ![t].paso = Dormir(t)]
      /\ ped' = Avisar(t)
      /\ UNCHANGED <<mem, dirs, metadata, ocupados, disco, esperaTabla, dump, perdidas, caido>>

(* descargarRegistrosALista: the records of a partition go to memory and   *)
(* the bit of each block is cleared before its file is emptied.  There is  *)
(* no file, or its block is -1.                                            *)
LaParticion(t) == <<t, "bin", comp[t].i>>

DescargarCae(t) ==
  /\ Comp(t, "descargar")
  /\ LaParticion(t) \in DOMAIN archivos => archivos[LaParticion(t)] = <<SinBloque>>

DescargarBloque(t) ==
  LET i == comp[t].i IN
  /\ Comp(t, "descargar") /\ ~DescargarCae(t)
  /\ comp[t].vaciar = Nadie /\ comp[t].j <= Len(archivos[LaParticion(t)])
  /\ LET b == archivos[LaParticion(t)][comp[t].j] IN
     /\ comp' = [comp EXCEPT ![t].almacen[i] = @ \o disco[b], ![t].vaciar = b, ![t].j = @ + 1]
     /\ ocupados' = ocupados \ {b}
  /\ UNCHANGED <<tablas, mem, dirs, metadata, archivos, disco, esperaTabla, dump, ped, perdidas, caido>>

RecrearBloqueVacio(t) ==
  /\ Comp(t, "descargar") /\ comp[t].vaciar # Nadie
  /\ disco' = [disco EXCEPT ![comp[t].vaciar] = <<>>]
  /\ comp' = [comp EXCEPT ![t].vaciar = Nadie]
  /\ UNCHANGED <<tablas, mem, dirs, metadata, archivos, ocupados, esperaTabla, dump, ped, perdidas, caido>>

VaciarParticion(t) ==
  /\ Comp(t, "descargar") /\ ~DescargarCae(t)
  /\ comp[t].vaciar = Nadie /\ comp[t].j > Len(archivos[LaParticion(t)])
  /\ MutexLibre(t)
  /\ archivos' = [archivos EXCEPT ![LaParticion(t)] = <<>>]
  /\ comp' = IF comp[t].i < Particiones THEN [comp EXCEPT ![t].i = @ + 1, ![t].j = 1]
             ELSE [comp EXCEPT ![t].paso = "actualizar", ![t].i = 1, ![t].bs = archivos[<<t, "tmpc", 1>>]]
  /\ UNCHANGED <<tablas, mem, dirs, metadata, ocupados, disco, esperaTabla, dump, ped, perdidas, caido>>

DeLaClave(lista, r) == {i \in DOMAIN lista : Clave[lista[i]] = Clave[r]}

(* Mutant: the record that is read last stays. *)
GanaElUltimo(lista, r) ==
  IF DeLaClave(lista, r) = {} THEN Append(lista, r) ELSE Append(RemoveAt(lista, Min(DeLaClave(lista, r))), r)

(* The record takes the place of the first of its key if it is greater. *)
Actualizar1(lista, r) ==
  LET i == Min(DeLaClave(lista, r))
  IN  IF DeLaClave(lista, r) = {} THEN Append(lista, r)
      ELSE IF Entero(r) > Entero(lista[i]) THEN Append(RemoveAt(lista, i), r)
      ELSE lista

ParticionDe(k) == (k % Particiones) + 1

(* Record after record, each in the list of its partition. *)
ActualizarTodos(almacen, regs) ==
  LET lista[n \in 0..Len(regs)] ==
        IF n = 0 THEN almacen
        ELSE [lista[n - 1] EXCEPT ![ParticionDe(Clave[regs[n]])] = Actualizar1(@, regs[n])]
  IN  lista[Len(regs)]

(* actualizacionDeRegistros: here the block is emptied first. *)
ActualizarBloque(t) ==
  /\ Comp(t, "actualizar") /\ comp[t].bs # <<>>
  /\ LET b == Head(comp[t].bs) IN
     /\ comp' = [comp EXCEPT ![t].bs = Tail(@), ![t].almacen = ActualizarTodos(@, disco[b])]
     /\ disco' = [disco EXCEPT ![b] = <<>>]
     /\ ocupados' = ocupados \ {b}
  /\ UNCHANGED <<tablas, mem, dirs, metadata, archivos, esperaTabla, dump, ped, perdidas, caido>>

BorrarTmpc(t) ==
  LET k == comp[t].i
      ultimo == k + 1 = LaTabla(t).compactados
  IN  /\ Comp(t, "actualizar") /\ comp[t].bs = <<>>
      /\ MutexLibre(t)
      /\ archivos' = [f \in DOMAIN archivos \ {<<t, "tmpc", k>>} |-> archivos[f]]
      /\ comp' = IF ultimo THEN [comp EXCEPT ![t].paso = "reservar", ![t].i = 1]
                 ELSE [comp EXCEPT ![t].i = k + 1, ![t].bs = archivos[<<t, "tmpc", k + 1>>]]
      /\ tablas' = IF ultimo THEN [tablas EXCEPT ![Indice(t)].compactados = 1] ELSE tablas
      /\ UNCHANGED <<mem, dirs, metadata, ocupados, disco, esperaTabla, dump, ped, perdidas, caido>>

(* modificarParticionesOriginales: new blocks, their records, and then the *)
(* file.  The blocks that are not free are -1.                             *)
Reservar(t) ==
  LET regs == comp[t].almacen[comp[t].i]
      n == Enteros(Len(regs))
      bs == Primeros(n)
      todos == Ordenados(bs) \o [k \in 1 .. (n - Cardinality(bs)) |-> SinBloque]
  IN  /\ Comp(t, "reservar")
      /\ ocupados' = Marcar(bs)
      /\ disco' = Escribir(todos, regs)
      /\ perdidas' = perdidas \cup Falta(bs, n) \cup Pisa(bs)
      /\ comp' = [comp EXCEPT ![t].paso = "guardar", ![t].bs = todos]
      /\ UNCHANGED <<tablas, mem, dirs, metadata, archivos, esperaTabla, dump, ped, caido>>

Guardar(t) ==
  LET i == comp[t].i IN
  /\ Comp(t, "guardar")
  /\ MutexLibre(t)
  /\ archivos' = ConArchivo(<<t, "bin", i>>, comp[t].bs)
  /\ comp' = IF i = Particiones
             THEN [comp EXCEPT ![t].paso = Dormir(t), ![t].bs = <<>>, ![t].almacen = <<>>, ![t].i = 0]
             ELSE [comp EXCEPT ![t].paso = "reservar", ![t].bs = <<>>, ![t].i = i + 1]
  /\ UNCHANGED <<tablas, mem, dirs, metadata, ocupados, disco, esperaTabla, dump, ped, perdidas, caido>>

-----------------------------------------------------------------------------
(* SELECT: seleccionarYEncontrarUltimaKeyActualizada.                      *)

Anteriores(p) ==
  {q \in Pedidos : Tipo[q] = "INSERT" /\ ped[q].paso = "fin" /\ Tabla[q] = Tabla[p] /\ Clave[q] = Clave[p]}

Compactando(t) == comp[t].paso \in {"descargar", "actualizar", "reservar", "guardar"}

(* No Metadata, or a table that is not in the list. *)
BuscarTablaCae(p) ==
  /\ En(p, "SELECT", "nuevo") /\ Tabla[p] \in dirs
  /\ Tabla[p] \notin metadata \/ ~Registrada(Tabla[p])

(* The memtable and its first record are looked for without a mutex. *)
BuscarTabla(p) ==
  LET t == Tabla[p]
      nodos == NodosDe(t)
  IN  /\ En(p, "SELECT", "nuevo") /\ ~BuscarTablaCae(p)
      /\ ped' = IF t \notin dirs THEN [ped EXCEPT ![p].paso = "rechazado"]
                ELSE [ped EXCEPT
                  ![p].paso = "memtable",
                  ![p].nodo = IF nodos = {} THEN Nadie ELSE mem[Min(nodos)].id,
                  ![p].hubo = nodos # {} /\ mem[Min(nodos)].regs # <<>>,
                  ![p].debe = Max({Entero(q) : q \in Anteriores(p)} \cup {0}),
                  ![p].ventana = Compactando(t)]
      /\ UNCHANGED <<tablas, mem, disk, esperaTabla, dump, comp, perdidas, caido>>

Leen == {"memtable", "leyendo", "tmp", "tmpc", "bin"}

NodoVivo(p) == HayNodo(ped[p].nodo) /\ mem[Nodo(ped[p].nodo)].regs # <<>>

(* The table was freed meanwhile, or the record it holds. *)
SelectCae(p) ==
  /\ ~caido /\ Tipo[p] = "SELECT" /\ ped[p].paso \in Leen
  /\ ~Registrada(Tabla[p]) \/ (ped[p].paso \in {"memtable", "leyendo"} /\ ped[p].hubo /\ ~NodoVivo(p))

TomarMutexTabla(p) ==
  /\ En(p, "SELECT", "memtable") /\ ~SelectCae(p)
  /\ BusquedaLibre /\ MutexLibre(Tabla[p])
  /\ tablas' = [tablas EXCEPT ![Indice(Tabla[p])].mutex = p]
  /\ Ir(p, "leyendo")
  /\ UNCHANGED <<mem, disk, esperaTabla, dump, comp, perdidas, caido>>

(* The record of the key with the greatest timestamp so far.  The maximum  *)
(* begins at 0, so a record whose conversion is 0 is not found.            *)
Mejor(k, hasta, regs) ==
  LET maximo == IF hasta = Nadie THEN 0 ELSE Entero(hasta)
      otros == {r \in regs : Clave[r] = k /\ Entero(r) > maximo}
  IN  IF otros = {} THEN hasta ELSE CHOOSE r \in otros : \A q \in otros : Entero(q) <= Entero(r)

LeerMemTable(p) ==
  /\ En(p, "SELECT", "leyendo") /\ ~SelectCae(p)
  /\ tablas' = [tablas EXCEPT ![Indice(Tabla[p])].mutex = Nadie]
  /\ ped' = [ped EXCEPT ![p].paso = "tmp", ![p].n = 1,
       ![p].mejor = IF ped[p].hubo THEN Mejor(Clave[p], @, ToSet(mem[Nodo(ped[p].nodo)].regs)) ELSE @]
  /\ UNCHANGED <<mem, disk, esperaTabla, dump, comp, perdidas, caido>>

(* The file it reads next: the .tmp that are left, the .tmpc that are left *)
(* and then the partition of the key.                                      *)
SiguienteArchivo(p) ==
  LET x == ped[p]
      t == Tabla[p]
  IN  CASE x.paso = "tmp" /\ x.n < LaTabla(t).contador -> <<t, "tmp", x.n>>
        [] x.paso = "tmp" /\ x.n >= LaTabla(t).contador /\ LaTabla(t).compactados > 1 -> <<t, "tmpc", 1>>
        [] x.paso = "tmpc" /\ x.n < LaTabla(t).compactados -> <<t, "tmpc", x.n>>
        [] OTHER -> <<t, "bin", ParticionDe(Clave[p])>>

BuscandoEnArchivos(p) ==
  ~caido /\ Tipo[p] = "SELECT" /\ ped[p].paso \in {"tmp", "tmpc"} /\ ~SelectCae(p)

(* buscarLineaMaxima: the blocks are listed under the mutex. *)
AbrirArchivo(p) ==
  LET f == SiguienteArchivo(p) IN
  /\ BuscandoEnArchivos(p) /\ ped[p].bs = Nadie
  /\ MutexLibre(Tabla[p])
  /\ ped' = [ped EXCEPT ![p].paso = f[2], ![p].n = f[3] + 1,
                        ![p].bs = IF f \in DOMAIN archivos THEN archivos[f] ELSE <<>>]
  /\ UNCHANGED <<tablas, mem, disk, esperaTabla, dump, comp, perdidas, caido>>

(* And read without it. *)
LeerBloques(p) ==
  /\ ~caido /\ Tipo[p] = "SELECT" /\ ped[p].bs # Nadie /\ ~SelectCae(p)
  /\ ped' = [ped EXCEPT ![p].mejor = Mejor(Clave[p], @, Contenido(ped[p].bs)), ![p].bs = Nadie,
                        ![p].paso = IF @ = "bin" THEN "fin" ELSE @]
  /\ UNCHANGED <<tablas, mem, disk, esperaTabla, dump, comp, perdidas, caido>>

-----------------------------------------------------------------------------
(* DESCRIBE of every table: recorridoDeTodasLasTablasPersistidas.          *)

DescribirCae(p) == En(p, "DESCRIBE", "nuevo") /\ \E i \in DOMAIN tablas : tablas[i].nombre \notin metadata

Describir(p) ==
  /\ En(p, "DESCRIBE", "nuevo") /\ ~DescribirCae(p)
  /\ Ir(p, "fin")
  /\ UNCHANGED <<tablas, mem, disk, esperaTabla, dump, comp, perdidas, caido>>

-----------------------------------------------------------------------------
(* DROP: destruirEnCascadaElDirectorio.                                    *)

(* A table that is not in the list, or a thread that another DROP joins.   *)
EmpezarDropCae(p) ==
  /\ En(p, "DROP", "nuevo") /\ Tabla[p] \in dirs
  /\ \/ ~Registrada(Tabla[p])
     \/ \E q \in Pedidos : /\ Tipo[q] = "DROP" /\ Tabla[q] = Tabla[p]
                            /\ ped[q].paso \notin {"nuevo", "rechazado", "fin"}

EmpezarDrop(p) ==
  LET t == Tabla[p] IN
  /\ En(p, "DROP", "nuevo") /\ ~EmpezarDropCae(p)
  /\ IF t \in dirs
     THEN Ir(p, "unir") /\ tablas' = [tablas EXCEPT ![Indice(t)].vivo = FALSE]
     ELSE Ir(p, "rechazado") /\ UNCHANGED tablas
  /\ UNCHANGED <<mem, disk, esperaTabla, dump, comp, perdidas, caido>>

(* pthread_join of the compaction. *)
Unir(p) ==
  /\ En(p, "DROP", "unir")
  /\ comp[Tabla[p]].paso = "fin"
  /\ Ir(p, "tmp")
  /\ UNCHANGED <<tablas, mem, disk, esperaTabla, dump, comp, perdidas, caido>>

(* The .tmp that are counted, and then the partitions. *)
Borrando(p) == ~caido /\ Tipo[p] = "DROP" /\ ped[p].paso \in {"tmp", "bin"}

ABorrar(p) ==
  LET x == ped[p]
      t == Tabla[p]
  IN  CASE x.paso = "tmp" /\ x.n < LaTabla(t).contador -> <<t, "tmp", x.n>>
        [] x.paso = "tmp" /\ x.n >= LaTabla(t).contador -> <<t, "bin", 1>>
        [] OTHER -> <<t, "bin", x.n>>

LiberarCae(p) ==
  /\ Borrando(p) /\ ped[p].bs = Nadie
  /\ ABorrar(p) \in DOMAIN archivos => Contains(archivos[ABorrar(p)], SinBloque)

(* liberarBloquesDeParticion: the bits first.  The mutex is passed by      *)
(* value: a copy of a locked one is locked for ever.                       *)
LiberarBloques(p) ==
  LET f == ABorrar(p) IN
  /\ Borrando(p) /\ ped[p].bs = Nadie
  /\ ~LiberarCae(p)
  /\ ocupados' = ocupados \ ToSet(archivos[f])
  /\ ped' = [ped EXCEPT ![p].paso = f[2], ![p].n = f[3],
                        ![p].bs = archivos[f], ![p].trabada = ~MutexLibre(Tabla[p])]
  /\ UNCHANGED <<tablas, mem, dirs, metadata, archivos, disco, esperaTabla, dump, comp, perdidas, caido>>

EliminarContenido(p) ==
  LET x == ped[p]
      ultima == x.paso = "bin" /\ x.n = Particiones
  IN  /\ Borrando(p) /\ x.bs # Nadie
      /\ disco' = [b \in DOMAIN disco |-> IF Contains(x.bs, b) THEN <<>> ELSE disco[b]]
      /\ IF x.trabada
         THEN ped' = [ped EXCEPT ![p].bs = Nadie, ![p].paso = "colgado"] /\ UNCHANGED archivos
         ELSE /\ ped' = [ped EXCEPT ![p].bs = Nadie, ![p].n = @ + 1, ![p].paso = IF ultima THEN "metadata" ELSE @]
              /\ archivos' = [f \in DOMAIN archivos \ {<<Tabla[p], x.paso, x.n>>} |-> archivos[f]]
      /\ UNCHANGED <<tablas, mem, dirs, metadata, ocupados, esperaTabla, dump, comp, perdidas, caido>>

BorrarMetadata(p) ==
  /\ En(p, "DROP", "metadata")
  /\ metadata' = metadata \ {Tabla[p]}
  /\ Ir(p, "olvidar")
  /\ UNCHANGED <<tablas, mem, dirs, archivos, ocupados, disco, esperaTabla, dump, comp, perdidas, caido>>

(* The lists are changed without a mutex, whoever else is using them. *)
OlvidarCae(p) == En(p, "DROP", "olvidar") /\ (dump.paso # "dormido" \/ Leyendo)

(* If the table has a memtable, they all go. *)
Olvidar(p) ==
  LET t == Tabla[p]
      ajenos == \E i \in DOMAIN mem : mem[i].nombre # t /\ mem[i].regs # <<>>
  IN  /\ En(p, "DROP", "olvidar") /\ ~OlvidarCae(p)
      /\ mem' = IF NodosDe(t) = {} THEN mem ELSE <<>>
      /\ perdidas' = perdidas \cup (IF NodosDe(t) # {} /\ ajenos THEN {"dropAjeno"} ELSE {})
      /\ tablas' = RemoveAt(tablas, Indice(t))
      /\ Ir(p, "rmdir")
      /\ UNCHANGED <<disk, esperaTabla, dump, comp, caido>>

(* rmdir fails when a dump has left a file meanwhile. *)
BorrarDirectorio(p) ==
  LET t == Tabla[p] IN
  /\ En(p, "DROP", "rmdir")
  /\ dirs' = IF \E f \in DOMAIN archivos : f[1] = t THEN dirs ELSE dirs \ {t}
  /\ Ir(p, "fin")
  /\ UNCHANGED <<tablas, mem, metadata, archivos, ocupados, disco, esperaTabla, dump, comp, perdidas, caido>>

-----------------------------------------------------------------------------
Caer ==
  /\ \/ VolcarCae
     \/ \E t \in Tablas : ArrancarCae(t) \/ DescargarCae(t)
     \/ \E p \in Pedidos :
          \/ InsertarCae(p) \/ BuscarTablaCae(p) \/ SelectCae(p) \/ DescribirCae(p)
          \/ EmpezarDropCae(p) \/ LiberarCae(p) \/ OlvidarCae(p)
  /\ caido' = TRUE
  /\ UNCHANGED <<tablas, mem, disk, esperaTabla, dump, comp, ped, perdidas>>

Pedido(p) ==
  \/ CrearExistente(p) \/ CrearSinEspacio(p)
  \/ CrearDirectorio(p) \/ CrearParticiones(p) \/ Registrar(p)
  \/ BuscarMemTable(p) \/ Insertar(p)
  \/ BuscarTabla(p) \/ TomarMutexTabla(p) \/ LeerMemTable(p)
  \/ AbrirArchivo(p) \/ LeerBloques(p)
  \/ Describir(p)
  \/ EmpezarDrop(p) \/ Unir(p) \/ LiberarBloques(p) \/ EliminarContenido(p)
  \/ BorrarMetadata(p) \/ Olvidar(p) \/ BorrarDirectorio(p)

Dump == DumpSinBloques \/ Volcar \/ Contar

Compactacion(t) ==
  \/ Arrancar(t) \/ Salir(t) \/ Renombrar(t)
  \/ DescargarBloque(t) \/ RecrearBloqueVacio(t) \/ VaciarParticion(t)
  \/ ActualizarBloque(t) \/ BorrarTmpc(t) \/ Reservar(t) \/ Guardar(t)

Next ==
  \/ Caer \/ Dump
  \/ \E t \in Tablas : Compactacion(t)
  \/ \E p \in Pedidos : Pedido(p)

Spec == Init /\ [][Next]_vars

-----------------------------------------------------------------------------
(* The state is of its types. *)
TypeOK ==
  /\ \A i \in DOMAIN tablas : tablas[i].contador \in Nat \ {0} /\ tablas[i].compactados \in Nat \ {0}
  /\ dirs \subseteq Tablas /\ metadata \subseteq dirs
  /\ \A f \in DOMAIN archivos : archivos[f] \in Seq(Sectores)
  /\ ocupados \subseteq Bloques
  /\ disco \in [Sectores -> Seq(Pedidos)]
  /\ esperaTabla \in Nat

(* Files whose blocks are being given back. *)
EnLiberacion ==
  {<<t, IF comp[t].paso = "actualizar" THEN "tmpc" ELSE "bin", comp[t].i>> :
     t \in {u \in Tablas : comp[u].paso \in {"descargar", "actualizar"}}}
  \cup {<<Tabla[p], ped[p].paso, ped[p].n>> : p \in {q \in Pedidos : Tipo[q] = "DROP"}}
  \cup {<<Tabla[p], "tmp", ped[p].n>> : p \in {q \in Pedidos : ped[q].paso = "colgado"}}
  \cup {<<Tabla[p], "bin", ped[p].n>> : p \in {q \in Pedidos : ped[q].paso = "colgado"}}

Firmes == DOMAIN archivos \ EnLiberacion

(* The blocks that a compaction has reserved and written, and whose file   *)
(* it has not.                                                             *)
Reservados(t) == IF comp[t].paso = "guardar" THEN ToSet(comp[t].bs) \ {SinBloque} ELSE {}

(* Whatever dumps, compactions, CREATEs and DROPs do at once, a block that *)
(* is taken has one owner, and its bit is set (libLissandra.c:521-575,     *)
(* 993-1005, 1132-1140, 1221-1290).                                        *)
BloquesConUnDuenio ==
  ~caido =>
    /\ \A f, g \in Firmes :
         f # g => (ToSet(archivos[f]) \cap ToSet(archivos[g])) \subseteq {SinBloque}
    /\ \A f \in Firmes : ToSet(archivos[f]) \ {SinBloque} \subseteq ocupados
    /\ \A t \in Tablas : Reservados(t) \subseteq ocupados
    /\ \A t \in Tablas, f \in Firmes : f # <<t, "bin", comp[t].i>> => Reservados(t) \cap ToSet(archivos[f]) = {}

Cuenta(t, clase) ==
  IF ~Registrada(t) THEN 1 ELSE IF clase = "tmp" THEN LaTabla(t).contador ELSE LaTabla(t).compactados

(* The file of the dump that is not counted yet. *)
PorContar == IF dump.paso = "contar" THEN <<mem[dump.i].nombre, "tmp", dump.numero>> ELSE <<>>

(* What a SELECT that nobody disturbs would find of a table. *)
Alcanzables(t) ==
  (UNION {ToSet(mem[i].regs) : i \in NodosDe(t)})
  \cup (UNION {Contenido(archivos[f]) : f \in {g \in DOMAIN archivos :
          g[1] = t /\ (g[2] = "bin" \/ g[3] < Cuenta(t, g[2]) \/ g = PorContar)}})
  \cup (UNION {ToSet(comp[t].almacen[i]) : i \in DOMAIN comp[t].almacen})

EnDrop(t) == \E p \in Pedidos : Tipo[p] = "DROP" /\ Tabla[p] = t /\ ped[p].paso \notin {"nuevo", "rechazado"}

(* The conversion keeps the order of two timestamps: they are in the same  *)
(* 2^32 milliseconds, and none of them saturates.                          *)
Comparables(q, r) ==
  /\ TS[q] \div (2 * Medio) = TS[r] \div (2 * Medio)
  /\ Satura => TS[q] < Medio /\ TS[r] < Medio

(* An INSERT that was answered, or one of its key that the code does not   *)
(* take for older (and that is not, if they are Comparables), stays in the *)
(* memtable, in a file a SELECT reads or in the list of a compaction, in   *)
(* every step of dumps and compactions.  It goes astray in no other way    *)
(* than those of perdidas: no block is free, a counter that is not that of *)
(* the file (libLissandra.c:795-834), a block taken before it was emptied  *)
(* (:545-552, :996-1003), and the DROP of another table                    *)
(* (consolaLissandra.c:417-420).                                           *)
NadaSePierde ==
  (~caido /\ perdidas = {}) =>
    \A p \in Pedidos :
      (Tipo[p] = "INSERT" /\ ped[p].paso = "fin" /\ ~EnDrop(Tabla[p])) =>
        \E r \in Alcanzables(Tabla[p]) :
          /\ Clave[r] = Clave[p] /\ Entero(r) >= Entero(p)
          /\ Comparables(r, p) => TS[r] >= TS[p]

(* A SELECT answers no less than what had been inserted when it began, in  *)
(* the order of the conversions, which is that of the clock for timestamps *)
(* that are Comparables; though the records move under it, unless a        *)
(* compaction of its table runs meanwhile (consolaLissandra.c:539-669).    *)
LecturaVigente ==
  \A p \in Pedidos :
    (~caido /\ perdidas = {} /\ Tipo[p] = "SELECT" /\ ped[p].paso = "fin" /\ ~ped[p].ventana /\ ~EnDrop(Tabla[p])) =>
      IF ped[p].mejor = Nadie THEN ped[p].debe = 0 ELSE Entero(ped[p].mejor) >= ped[p].debe

(* The mutex of a table stays locked only when the rename of a .tmp fails  *)
(* (libLissandra.c:897-900), and it never fails unless a dump had counted  *)
(* a file on a counter that was not its own.                               *)
Trabadas == {i \in DOMAIN tablas : tablas[i].mutex = tablas[i].nombre}

TrabadaSoloPorDescuadre == Trabadas # {} => "descuadre" \in perdidas

(* Else nobody waits for ever, but for a DROP on its copy of the mutex and *)
(* the client whose CREATE found no room, which gets no answer             *)
(* (consolaLissandra.c:183-189).                                           *)
NadieEsperaParaSiempre ==
  /\ TrabadaSoloPorDescuadre
  /\ (~caido /\ Trabadas = {} /\ ~ENABLED Next) =>
       \/ \A p \in Pedidos : Respondido(p)
       \/ \E p \in Pedidos : ped[p].paso \in {"colgado", "sinRespuesta"}
=============================================================================

# Verification of the sisop practical works

The repository holds three operating-systems practical works, each a set of C
processes that talk over sockets: **Delibird** (2020), **Lissandra** (2019) and
**El Gran TP** (2018).  This directory holds TLA+ models of their core logic,
the TLC configurations that check them and TLAPS proofs about them.

## 1. Inventory

### Delibird (`src/TP-2020/Delibird`)

| Part | State | Operations | Hard behaviour |
|---|---|---|---|
| Broker, message cache (`Broker/memoria.c`) | `CACHE`, `PARTICIONES_LIBRES`, `MENSAJES`, compaction counter | search, split, write, evict (FIFO/LRU), consolidate, compact, buddy halving and merging | long histories of legal operations; three representations of one move; progress of the search loop; limits |
| Broker, queues (`Broker/serverBroker.c`, `libBroker.c`) | `SUSCRIPTORES_*`, subscribers of each message, `ID_CORRELATIVO`, one thread per connection and per delivery | message handlers, subscription and re-subscription, delivery threads | subscription against publication, lost connections, reconnection with the same ip, ids against answers |
| GameCard (`GameCard/*.c`) | files of pokemon (metadata, blocks), bitmap, list of per-pokemon mutexes, `m_crearPokemon` | NEW, CATCH, GET handlers, block allocation and release, OPEN flag with retries | several handlers on one file, allocation between files, restart on a persistent disk, exact sizes |
| Team (`Team/*.c`) | trainers and their queues, objectives, reserve of pokemon | FIFO/RR/SJF scheduling, capture protocol with the Broker, deadlock detection and swap | CAUGHT against the trainer that waits for it, tokens of semaphores, mutexes passed by value |
| GameBoy (`GameBoy/*.c`) | none | one message or one timed subscription | a subscriber without ip |
| utilCommons | none | serialisation, sockets | none (pure input and output) |

They interact by messages through the Broker: GameBoy and Team publish
NEW/GET/CATCH, GameCard answers with APPEARED/LOCALIZED/CAUGHT, and each process
subscribes to the queues it reads; the answer to a CATCH or a GET carries the id
the Broker gave the request.

### Lissandra (`src/TP-2019/Lissandra-Project`)

| Part | State | Operations | Hard behaviour |
|---|---|---|---|
| Pool-Memorias (`libMemoria.c`) | segments, pages, frames, four mutexes, gossip table | SELECT, INSERT, DROP, JOURNAL, LRU replacement, gossip | pages updated while a journal or a drop frees them; answers of the file system that arrive late; a mutex that is not released |
| Kernel (`libKernel.c`) | queues of scripts, criteria, metrics | round robin of scripts, ADD/RUN/JOURNAL | queues changed with mutexes passed by value; one of several results missing |
| File System (`libLissandra.c`, `consolaLissandra.c`) | memtable, tables, blocks and bitmap | SELECT, INSERT, DROP, dump, compaction | dump and compaction against inserts and drops; tables paired by position |

### El Gran TP (`src/TP-2018/src`)

| Part | State | Operations | Hard behaviour |
|---|---|---|---|
| S-AFA (`S-AFA/src`) | queues of DTBs, multiprogramming degree, resources | long and short term planners, answers of CPU and DAM, console | a DTB between two queues, resources and waiters, tokens |
| CPU (`CPU/src`) | the DTB it runs | burst, wait and signal | what it reports at the end of a burst |
| DAM, FM9 | the id of the last creation | relays and fixed answers | ids kept in globals |
| MDJ | files | does not compile as it stands | none |

`PROJECT.json` lists under "hazards" what in this code is hard to test, each at
its line.

## 2. Plan

Order: the Broker first, because every other Delibird process talks through it
and its cache is the most intricate data structure of the repository; then the
processes that keep state others depend on.

| Step | Modules | Abstract specification | State |
|---|---|---|---|
| 1 | `BrokerMemoria`, `BrokerParticiones`, `BrokerBuddy` | `BrokerCache` | done |
| 2 | `BrokerParticiones_proofs` | the cache implements `BrokerCache` | done |
| 3 | `BrokerColas` (uses the promise of `BrokerCache`: old messages leave first) | | done |
| 4 | `GameCard` | | done |
| 5 | `PoolMemorias` | | done |
| 6 | `Team`: life cycle of a trainer, capture protocol, FIFO/RR/SJF, deadlock and swap | | done |
| 7 | `LissandraFS`: memtable, dump, compaction, blocks | | done |
| 8 | `SAFA` with its CPUs and the DAM: queues of GDTs, multiprogramming, wait and signal, pause | | done |
| 9 | `BrokerColas_proofs`, `PoolMemorias_proofs`, `SAFA_proofs`, `GameCard_proofs`, `BrokerBuddy_proofs`, `Team_proofs` | the buddy system implements `BrokerCache` | done |
| 10 | `LissandraFS_proofs` (`BloquesConUnDuenio` first: the others rest on it) | | done |
| 11 | `Kernel`: round robin of scripts, one result for each request | | open |
| 12 | `Delibird`: Broker queues with one Team and one GameCard | a CATCH is answered at most once | open |

Every safety invariant of the passing runs is a theorem of section 6, but for the
three that use ENABLED (section 7).

## 3. Modules and the code they model

`PROJECT.json` gives the lines of each definition.  An MC module only gives
names to model values and constants for TLC.

**BrokerCache** is not code: it is the promise of the cache to the rest of the
Broker, a list of whole messages from which the oldest, or the least recently
sent, leaves.

**BrokerMemoria** holds what both memory algorithms share: `libres` is
`PARTICIONES_LIBRES`, `mensajes` is `MENSAJES`, `cache` the bytes of `CACHE`,
`pedido` the message whose thread owns `mutex_mensajes`, `reloj` the clock that
stamps messages.  A payload is one value, written in each of its cells.

**BrokerParticiones** adds `count` (the evictions since the last compaction) and
`pc`, the place in `busquedaParticionLibre`.  One action is one call of that
loop: search and store (`Guardar`, with the split and `escribir_en_cache`), a
compaction (`Compactar`, with every branch of its loop, the fatal ones too), an
eviction with its consolidation (`Eliminar`).

**BrokerBuddy** adds `borrado` and `fusionada`, because `consolidar_buddy_system`
merges one companion at a time and clears the bytes at the end.

**BrokerColas** has one thread per connection and per delivery.  `publicaciones`
are the handlers of messages (`responder`, `guardar`, `enviar`), `nodo` the
message under construction, `lector` the subscription whose handler reads its
request: the handler of a message owns `mutex_mensajes` exactly while there is a
node, that of a subscription while it is the `lector`, and it becomes so before
the request has arrived (`TomarMutex`, `LlegaPedido`).  `envios` the threads of
`enviarRecibirConfirmacion`, `conexiones` the sockets and `suscriptores` the lists
`SUSCRIPTORES_*`.  The cache is reduced to dropping some of the oldest messages.
With `EmisorCae` a client may be gone in the middle of its request; what the
handler then reads is not initialised, and the Broker is taken for `caido`.

**GameCard** has one thread per message.  `archivos` are the metadata files,
`disco` the block files, `ocupados` the bitmap, `conMutex` the pokemon that have
an entry in `listaPokemonMutex`, `mCrear` the owner of `m_crearPokemon`. The
set-up of the file system runs beside the threads of the messages that have come,
since `main` subscribes first: `PrepararBitmap` truncates the bitmap,
`PrepararFiles` and `PrepararPokemon` make the two directories (`carpetas`, kept
on disk), and `PrepararBloque`, once for each block, makes or truncates it;
`puesta` says how far it is, and `existen` which block files there are.  A thread
that needs what is not there yet uses a NULL and the process is `caido`: no bitmap
(`BuscarPrimero`), no directory (`CrearSinCarpetas`), no block file
(`LeerSinBloque`). `Reiniciar` is a stop and a new start on the same disk, at any
step, also between the directory of a pokemon and what is written in its file
(`Vacio`).  The bytes of a line are `Largo` of its position, and a line fits in a
block; what a file holds is a count for each position.  Names of pokemon are taken
not to contain one another (the code finds a mutex by `string_contains`).  A file
of exactly its blocks leaves a pointer uninitialised that is then freed: taken as
the end of the process.  `pisados` is a history variable, the files a full disk or
a late `fopen` (of a thread that gives a block back, or of the set-up) has
damaged, and those that began in a block with the lines of an earlier run;
properties about contents leave those out.

**PoolMemorias** has the threads of SELECT, INSERT, DROP and JOURNAL.
`segmentos` is `tablaDeSegmentos` with the pages of each segment, `marcos` the
frames, `ocupados` the bitmap, `mJournal` and `mSegmento` two of the mutexes (the
other two are held within one step, or together with `m_segmento`), `porForzar`
and `esperarJournal` the exchange with the Kernel when no page can be replaced,
`lfs` what the file system received.  A thread that uses a freed segment or
page, or frame -1, makes the memory `indefinido`: what follows is not modelled,
and the properties speak of what comes before.  `corrida` says that a replacement
removed another node than its victim's, which `algoritmoLRU` may do because it
looks for the victim without a mutex and removes it later by its place; the
bounds of the run do not reach it (it takes two SELECTs, an update and two
INSERTs at once).  A key belongs to one table, a value is the request that wrote
it, no two pages have one timestamp, and DROP reaches the file system in the
same step.  `Largos` are the requests whose value exceeds `tamanioValue`: an INSERT
among them is dropped before it touches anything and its Kernel is never answered
(`sinRespuesta`); the thread that a SELECT starts with such a value just ends.

**Team** has the two selection and planning threads, one thread per trainer
(`hilos`, with the place it is at), one per message, the one that waits for the
end of the captures and the one that detects deadlocks.  `ent` are the trainers,
`colas` the five queues, `sem` the semaphores, `globales` what the Team still
needs, `requeridos` and `respaldo` the pokemon it knows, `catchs` the CATCH that
were sent.  The Broker is an environment that answers a CATCH with OK, with FAIL
(`MaxFallas` times) or not at all, in any order with the other messages. Queues
are changed without exclusion (`encolarEntrenador` receives its mutex by value):
`Carrera` is two threads on one list at once, one of them to change it. `Cambia`
and `Recorre` name, for each thread, every list its next step changes or goes
through: the five queues (a swap posts the CPU before it puts its trainers in
BLOCKED and FINISHED: steps `TransicionarMovido`, `Asentar`, `TransicionarSocio`),
the two lists of pokemon, the objectives and the pokemon received.  `Carrera`, and
the use of a NULL or freed pointer, is a way to fall; after it the Team is `caido`
and nothing is claimed, so what the properties say is said of executions up to the
first such meeting.  `derroche` is a history variable: a detection ran during a
swap, found no pair among the rest and spent two tokens all the same; so is
`reelegido`: the filter of the selection (`seEncuentraOcupado`) lets in a trainer
that waits for its CAUGHT, and once one is chosen so it may be in two queues at a
time.  Positions are on a line; a pokemon is the message it came in and its place;
SJF may run any trainer that is ready.

**LissandraFS** has one thread per connection (`ped`, each request after the one
of `Previo`), the dump (`dump`) and the compaction of each table (`comp`).
`tablas` is `listadoTablas` with the counter of dumps and the mutex of each table,
`mem` is `listaDeMemTable`, `archivos` the files with their blocks, `disco` what
each block holds, `ocupados` the bitmap.  Tables and memtables are paired by
position, as in the code.  Timestamps are milliseconds, which the code compares
after `atoi` (`Entero`): 32 bits are left of them, or the largest int where a
`long` has 32 bits (`Satura`).  So two of them are ordered as by the clock only if
they are `Comparables`, and one whose conversion is 0 is never found by a SELECT.
A record fits in a block, a block holds `Cap` of them, no name contains another.
`perdidas` is a history of the ways a record went astray, which `NadaSePierde`
names one by one; `descuadre` enters it when the dump writes a file with the
counter of another table, or counts one that a compaction has put back to 1.  What
uses a freed node or table, or a second DROP of a table whose DROP is in progress
(both join one thread), ends as `caido`, and nothing is claimed after it.

**SAFA** is the S-AFA with its CPUs and the DAM.  The five queues have the names
of the code, `dtb` the fields of each GDT, `puedeEntrar`, `enNew` and `enReady`
the semaphores, `planif` what the planner of each CPU has taken, `manejador` the
place of the handlers that take more than one step, `aSafa`, `aCpu`, `aDam` and
`deDam` the connections, in order.  A handler runs in the thread that receives it,
so a CPU reads nothing while it executes.  CPUs and DAM are connected already,
with ids of their own.  What happens between leaving one queue and joining the
next is modelled (`Planificar` and `Despachar`, `Sacar` and `AtenderFin`).
`encolarDTB` and `desencolarDTB` take their mutex by value and so exclude nobody:
in each state `ConCopia` gives the queues each thread is about to change that way,
`ConMutex` those it is about to use with the mutex itself (a copy made meanwhile
is locked for ever), `Recorre` and `Saca` those that `buscarDTB` goes through
without the mutex and those whose links `queue_pop` frees.  When two threads meet
on a queue (`Carrera`) the change of each may still happen as one step, or the
S-AFA is `caido`: nothing moves, and nothing is claimed, after it.  What the code
makes of its types is kept: an answer to WAIT is read one sentence late, a FLUSH
reports without its last argument, a CLOSE writes through NULL, a creation keeps
the address of its id, a quantum below one runs no sentence, and a CPU that cannot
open its script exits (`SinScript`).  `archivosAbiertos` is always empty, so every
file is closed and the answers to `verificarEstadoArchivo` are not in the
connections.  The buffers of two characters, which hold one digit, are taken to be
large enough.

## 4. Runs

| Run | Configuration | What it shows |
|---|---|---|
| `particiones` | 6 cells, messages of 1, 3, 4 and 7 (too large), partitions of 2 at least, LRU, best fit, `FRECUENCIA_COMPACTACION` 1 | the partitions tile the memory without overlap, free ones are never adjacent, bytes stay with their message, only a message larger than the memory ends the Broker, a message is only dropped when the free cells do not add up to the new one, the cache implements `BrokerCache`, and every search for a message that fits ends |
| `particiones_compactar` | 6 cells, messages of 1 to 3, FIFO, 2 | finding: three free partitions end the Broker |
| `buddy` | 8 cells, messages of 1, 3, 5 and 9 (too large), FIFO, first fit | blocks aligned, tiling and fully merged; bytes; only a message larger than the memory ends the Broker; the cache implements `BrokerCache`; every search ends |
| `colas` | a Team and a Game Boy, GET and LOCALIZED, two messages, two connections, senders that vanish, early reconnection | lists and nodes agree, no process with an ip is sent a message twice through one subscription, an id is answered before its message goes out |
| `colas_progreso` | two processes with ip, CATCH, two messages, three connections | the Broker lives; a message reaches those that stay; every message is stored, if no client stalls in the middle of its subscription |
| `colas_reenvio` | one process, two messages, three connections | finding: a message lost with its connection is not sent again |
| `gamecard` | NEW, NEW, CATCH on one pokemon, NEW and GET on another, two blocks of two bytes, one restart, from the first step of the set-up | OPEN is a lock, one owner per block, contents add up, every message is answered |
| `memoria` | a SELECT, four INSERTs (one with a value that is too long) and a DROP, two tables, two frames | one owner per frame, the last value of a key survives, no INSERT waits for ever unless DROP kept `m_segmento` or its value was too long |
| `memoria_limpias` | a SELECT and an INSERT of one key | finding: an updated page passes for one that was not |
| `team` | three trainers that stand where the pokemon of another appears, four pokemon in two LOCALIZED, one failed capture, round robin with quantum 1, two swaps of two cycles | up to the first `Carrera`: what is captured, needed and left over adds up; the semaphores count the queues, and a trainer is in one of them and within its quota until one that waits for a CAUGHT is chosen again; a Team that has captured everything ends unless a detection during a swap spent its tokens on nothing.  The run reaches `Carrera`, `reelegido` and `derroche` |
| `lfs` | two tables, three INSERTs, a SELECT, a DROP, a CREATE and a DESCRIBE, three blocks of one record, two timestamps of one key that the conversion inverts | one owner per block; an INSERT is lost in four known ways only; a SELECT reads what was there when it began, in the order of the conversion; nobody waits for ever unless a rename failed, a DROP hangs or a CREATE found no room |
| `safa` | two CPUs, two GDTs, the first with any of nine scripts (one is not there), VRR, quantum 1, two places, one `finalizar`, one pause | until two threads race on a queue: a GDT is in one queue and ends twice only after a `finalizar` of one that runs; the places add up; each turn of a CPU has one report |

**Why the bounds are enough.**  Six cells hold up to three messages of two cells
and give every shape that matters: a hole at the start, in the middle and at the
end (LRU evicts from any place), a merge with no neighbour, with one and with
both, and compactions that move messages; one of four cells must evict several.
Four payloads are the messages that fit and the one that arrives, so payloads
never run out; the theorems of section 6 cover every other size, first fit and
FIFO.  Eight cells give three orders of buddy blocks, that is merges in a chain.
The clock only has to tell an old message from a recent one, and ties.  In the
queues, two messages and two connections are the least in which a subscription can
fall between the steps of a handler and a process can return.  In GameCard lines
of one and two bytes in blocks of two make a file grow, shrink and have exactly
the size of its blocks, and two blocks run out; with the second a file grows into
a block that the set-up has still to truncate, and after a restart both hold old
lines.  In Pool-Memorias two frames make the third INSERT that stores replace a
page or force a journal.  In the Team three trainers are the least with which a
detection can run during a swap, four pokemon left over the least with which it
has two tokens to spend, and quantum 1 puts a change of trainer between any two
moves.  No pokemon goes to the reserve and no APPEARED comes in this run (a fifth
pokemon, or messages in any order, take it beyond five minutes); the theorems
cover them, and any number of trainers and messages.  In the file system three
blocks of one record run out with the second dump, or leave no room for the CREATE
after the DROP; and the two INSERTs of one key have timestamps that a conversion
to two bits inverts (3 and 5: the later one is taken for older), which is the case
of two INSERTs on the sides of a multiple of 2^32 ms.  In S-AFA each sentence has
a script of its own, beside those that use one resource and one with a comment,
which makes the quantum that is left negative; two CPUs are the least that share a
resource.  TLC reports that every action of each module fires in the passing runs.

Deadlock is not checked: each instance stops where the system may, the Broker after
a message that cannot fit, or out of messages and connections; the others when
their requests are answered, or when the process ends.  Where waiting for ever
would be a fault of the code a property says so (`TodoPedidoSeGuarda`,
`TodoSeAtiende`, `SinEsperaEterna`, `TodosTerminan`, `NadieEsperaParaSiempre`).

## 5. Fairness

- The thread that owns `mutex_mensajes` in the cache, `Hilo`: weak fairness.  It
  neither waits nor yields the mutex inside `busquedaParticionLibre`.
- Each handler and each delivery thread of the queues: weak fairness on its whole
  set of steps.  Waiting for `mutex_mensajes` is waiting for a step of its owner;
  with finitely many messages the mutex stays free in the end, so weak fairness
  suffices and no fair mutex is assumed.  Senders, connections and subscribers
  promise nothing, not even the rest of a request they began.  A subscription waits
  for it with `mutex_mensajes` taken, so `TodoSeGuarda` has that promise as its
  hypothesis, `PedidosCompletos`; without it a client that stalls stops every
  handler, and the property is false.
- Each thread of GameCard: weak fairness.  A thread whose file is open sleeps and
  asks again; the holders are finitely many and end, so the file stays closed in
  the end.
- Pool-Memorias, the Team and the file system: none.  "Never waits for ever" is an
  invariant of the states in which nothing can move (`~ENABLED`), true of every
  scheduler.
- S-AFA: none.  Its properties are invariants; a GDT that waits for a resource, and
  one whose CPU aborted it, do wait for ever.

Requests, restarts, the clock and disconnections are never fair.

## 6. Proofs

The proofs of a component are in the module `<component>_proofs`, which opens with
what it needs of sequences, counts and numbers.  Each theorem holds for every
value of the constants that satisfies the assumptions of its component, and each
follows one way: an inductive invariant `IInv`, one lemma for each action that
says it is kept, and the property from `IInv`.  No property below is inductive
alone.

Assumptions beyond the types of the constants: `Nadie` and the other NULLs are not
values (`NadieAssumption`, `ContenidosAssumption`; in the file system `Nadie` is
not a table, a request, a block or a list of blocks, because it stands for NULL in
a mutex, a node and a block list); the sets of messages, positions, requests and
keys are finite where they are counted; `PotenciaAssumption`, the memory of the
buddy system is a power of two.  Where the code keeps a promise only under a
condition, the theorem names it as a hypothesis (column "For").

### The message cache

| Theorem | For | Statement |
|---|---|---|
| `TipoCorrecto`, `NuncaSolapan`, `SinCeldasPerdidas`, `SiempreConsolidadas`, `ContenidoIntacto` | all | `TypeOK`, `SinSolapamiento`, `SinHuecos`, `LibresConsolidadas`, `CacheFiel` |
| `CacheImplementada` | all | `Spec => ImplementaCache` |
| `SoloCaePorTamanio` | `Frecuencia` 1 or -1 | `SinCaida` |
| `CompactarDejaUnaLibre` | `Frecuencia` 1 or -1 | `CompactarDejaUna`, which run `particiones_compactar` shows false with 2 |
| `FragmentarNoDesaloja` | `Frecuencia` 1 | `DesalojoNecesario` |
| `BuddyBienTipado`, `SiempreAlineados`, `SiempreTeselado`, `NingunCompanieroLibre`, `ContenidoIntactoAlBuscar` | all | `TypeOK`, `Alineados`, `Teselado`, `SinCompanierosLibres`, `CacheFielAlBuscar` |
| `BuddyImplementaCache` | all | `Spec => ImplementaCache` |
| `BuddySoloCaePorTamanio` | all | `SinCaida` |

*Dynamic partitions.*  `IInv` has the types, `Acotadas` (partitions end inside the
memory, bytes inside their partition: without it a write could leave the memory),
`PedidoEnCurso` (outside the idle and dead states there is a message to store) and
`SinSolapamiento` (without it the shift of `mover_particion` could push one message
onto another).  `Ordenada` adds `SinHuecos`, `LibresConsolidadas` and `CacheFiel`.
A store splits a partition, a consolidation joins at most three, a compaction moves
what lies between two.  For the search, `Busqueda` says what each place of the loop
knows: no free partition is enough (`NingunaCabe`), and with no message left the whole
memory is free (lemma `TodoLibre`).  With `Frecuencia` 1 one partition is free, or two
where `compactar` follows an eviction (`PocasLibres`); with -1 a compaction never
follows an eviction (`SinCompactarTrasEliminar`), so it meets the whole memory free.
With another frequency two evictions come between compactions, as the run shows.

*Refinement.*  Both algorithms map to `BrokerCache` through the list of `Ficha` of
each message, its bytes and its timestamp: `GuardadosSonFichas` says that what is
read from the cells is that list, which takes the invariant on the bytes; then a
store appends, an eviction removes the victim (`MapaAgregada`, `MapaQuitada`), a
subscription refreshes, and everything else leaves the list alone.

*Buddy system.*  `Potencias` (a block has 2^k cells and starts at a multiple of them)
and `Fusion` (during a merge the block that grows is free and holds the evicted
message) complete `IInv`.  The prover knows no power of two: `PotSuc` gets
2^(n+1) = 2 * 2^n from the number of subsets of a set, and `PotMas`, `PotOrden` and
`ExponenteEs` follow by `InduccionNat`.  `SoloElQueCrece` is why the merges are
complete: of two free companions one is the block that is growing, so when it has
none there are none.  With it, `TodoJunto`: without messages the smallest free block
has no companion to its side only if it is the whole memory.

### The queues of the Broker

| Theorem | For | Statement |
|---|---|---|
| `UnaEntradaPorSuscriptor`, `MarcasConSuEnvio`, `NuncaDosVeces`, `RespondeAntesDeEnviar` | all | `EntradaPorSuscriptor`, `MarcadoConEnvio`, `SinDuplicados`, `RespuestaPrimero` |
| `NoSeCae` | every subscriber sends its ip, nobody subscribes to LOCALIZED, senders wait for their id | `SinCaida` |
| `SocketSiempreVigente` | no process comes back before the handler of its old connection ran | `SocketVigente` |

`NodoAlDia` is the heart of `IInv`: while a handler owns `mutex_mensajes` the node
it builds has the subscribers of its queue, which is what lets the node join
`MENSAJES` complete.  `EntradasDistintas`, `DeSuscriptores` and `EntradaPresente`
say that the entries of a message are those of the subscribers, once each;
`Respondidas`, that an id was answered before its message is stored.  `MutexDeUno`
is the exclusion itself: a handler under way with a node and a `lector` are never
there together.  For `NuncaDosVeces`, `Duenos` says that a process with an ip has
one entry in each list, and `ColasFieles` that what it was sent comes from the
queue it asked for, or from GET if it asked for LOCALIZED: two sendings of one
message to it are one, or come through those two. `SocketsIInv` adds which
connection of a process is the live one.

### GameCard

`AccesoSiempreExclusivo`, `SiempreUnDuenioPorBloque` and `CuentasSiempreFieles` state
`AccesoExclusivo`, `BloquesConUnDuenio` and `CuentasFieles`, for any messages,
restarts, sizes of line, of block and of the disk.  `BloquesConUnDuenio` starts when the
bitmap is cleared, with the blocks still to set up.  `Candados` says who is inside
`m_crearPokemon` and OPEN; `Sabe`, what a thread knows at each step; `Duenios`, that
no block is in two files, in two hands or in both, and that the bitmap is exactly
those; `Sano`, of a file not `pisado`, that its blocks are full but the last and
hold what the messages written add up to, and how many bytes a thread is about to
write in it.

### Pool-Memorias

`UnDuenioPorMarco` and `NingunInsertSePierde` state `MarcosConUnDuenio` and
`NadaSePierde`.  `IInv` has two layers, as the properties do.  `Punteria`, until a
freed pointer is used: no segment comes back with an old pointer, a page is in one
list once, the victim of a replacement is unmodified and keeps its frame.
`Contabilidad`, until a replacement removes another node than its victim: `Duenios`
and `Bitmap` (a frame has one owner, and the bits are those of the owners and of the
threads whose segment was freed), `ClaveFija` and `Guardada` (the last value of a key
is in a modified page or was sent).

### S-AFA

`GradoSiempreRespetado`, `SiempreUnReportePorTurno` and `SiempreUnaColaPorGDT` state
`GradoRespetado`, `UnReportePorTurno` and `UnaColaPorGDT`.  `Turno` counts, for each
CPU, the GDT in the planner's hand, the order, the CPU and the report: their sum is
one exactly while the planner waits.  `Fiel` says that all of them name the same
GDT; `Lugares` counts the places of the degree; `UnSitio`, for each GDT, the queues
and the hands it is in, and when it may have ended twice; `Vigente` and
`ExitPrimero` tie the GDT of a planner to its queue.  The three hold up to the first
`Carrera`, or other end, of the S-AFA (`~caido`).

### Team

| Theorem | For | Statement |
|---|---|---|
| `TeamBienTipado`, `CuentasSiempre` | all | `TypeOK`, `CuentasDelTeam` |
| `UnaColaSiempre` | all | `UnaColaPorEntrenador` |
| `GeneralSiempre` | all | `General`, the half of `IInv` that needs no hypothesis |
| `OrdenadoSiempre` | until one that waits for a CAUGHT is chosen again (`reelegido`) | `Ordenado`, the other half |

`General` has the types, `Semaforos` (each semaphore counts its list, and the CPU has
at most one trainer), `Cuentas` (the objectives, and that nobody keeps as left over
what it still lacks, without which a capture could be booked to the wrong side) and
`Capturas`: objectives of the Team, captures between `Acreditar` and `Soltar`, and
tokens of `sem.capturas` add up to the captures there are to make, so no objective is
left once `finCapturas` holds.  `PorBloquear` is there for the capture a trainer
accounts for itself, in its own thread, before it goes to BLOCKED.

`Ordenado` is mutual: `UnaCola` (a trainer is in one place) needs `UnaCaptura` (one
capture at a time, with room for it), which needs `CuposDelTeam` (the quotas add up to
the objectives) so that nobody is chosen when a swap is under way; and `Intercambios`
(a partner waits in BLOCKED, for one trainer, which is not in a swap of its own) needs
the three.  The lemma `TrasCapturas` is the hinge: after `finCapturas` the quotas are
all zero, since they are not negative and add up to nothing, so nobody captures and
only swaps move trainers.  A trainer that waits and is chosen again breaks
`UnaCaptura`, then the rest, which is what `reelegido` marks.

### File system

| Theorem | For | Statement |
|---|---|---|
| `TiposCorrectos`, `EnOrden` | all | `TypeOK`, `Orden` |
| `UnDuenioPorBloque` (by `EnDuenios`) | all | `BloquesConUnDuenio` |
| `SoloSeTrabaPorDescuadre` (by `EnCuentas`) | all | `TrabadaSoloPorDescuadre`, the first half of `NadieEsperaParaSiempre` |
| `NadaSePierdeNunca` (by `EnGuarda`) | `perdidas` empty, as the property says | `NadaSePierde` |
| `LaLecturaEsVigente` (by `EnLectura`) | `perdidas` empty and no compaction of the table meanwhile, as the property says | `LecturaVigente` |

The invariant is in five layers, each inductive with those before it.

`Orden`: the types; `Vidas`, a table has one CREATE or one DROP at a time, is in the
list from the end of the one to the `olvidar` of the other, and its compaction runs
only in between; `Cadena`, a compaction finds each .tmpc from its place on, and a
SELECT that reads a memtable holds the mutex of its table; `EnVolcado`, the dump is at
a memtable and a table that exist, and no SELECT reads meanwhile.

`Duenios`: to each file `Tiene` gives the blocks it owns *now*, which are not those it
lists: a compaction has freed some of the file it is reading, a DROP those of the file
it is about to delete, and a reservation owns blocks of no file yet.  What the owners
have is disjoint, without repetitions, and marked.  Every step gives, takes or moves
blocks of one owner.

`Cuentas`: every .tmp that is counted is on the disk, until a dump counts one on the
table of another (`descuadre`).  So a rename finds its file, which is
`SoloSeTrabaPorDescuadre`.

`Firme` and `Guardado`: `Seguros` are the records of a table in its memtable, in
the blocks its files own and in the lists of its compaction.  Each step but the
INSERT and a DROP satisfies `Conserva`: what was there, or a record of its key
that the code does not take for older (`Cubre`), is there after it; lemma
`Comparan` turns that into the order of the clock for two `Comparables`.  The dump
empties a memtable whose records it wrote in the same step; a compaction frees a
block whose records it has put in a list (`Compactada`), keeps the record of each
key with the greatest conversion, and drops the lists when they are written.
`NadaSePierde` follows because `Alcanzables` has `Seguros`.

`Memtables`, `Lectoras` and `Respuestas`: a SELECT that nothing has disturbed finds its
table, no .tmpc, and the blocks it listed are still those of the file (`Tranquila`);
and what it owes is in its answer, in the memtable it has found, or in a file it has
still to read (`Basta`).  The dump is the step that moves a record under it: from the
memtable it has looked at to a .tmp, which it reads later, since it cannot pass its
memtable while the dump writes.  If the dump has freed the node, the process ends when
the node is read, as in the code.

### What the proofs rest on

At the head of each module: `RemoveAtElementos`, `MapaEsSeq`, `MapaAgregada` and
`MapaQuitada` for lists that lose or gain an element; `CuantosAppend`,
`CuantosRemoveAt`, `CuantosConcat` for counting in a list; `MinimoNat` (a set of
numbers has a least one), from which every induction here is made over the least
counterexample, and `InduccionNat`, its form for sets closed under successor.  A
module has those it cites.

`Team_proofs` has those of sums and repetitions: a sum is the number of elements
of a set of units, so `SumaCambio` and `SumaCambioDos` say what one or two changed
terms do to it by counting, and `DobleSuma` that the objectives are the same
number counted by trainer and by species; `VecesAppend` and `VecesRemoveFirst`
count a trainer in a queue. `LissandraFS_proofs` has those of writing a list in
blocks (what `Escribir` puts in them, with `Cap` records in each) and of keeping
one record of each key (`ActualizarTodos`).

## 7. Checked only by TLC

- Liveness: `TodoPedidoSeGuarda`, `LlegaAConectados`, `TodoSeGuarda` and
  `TodoSeAtiende`, out of the prover's reach.
- `SinEsperaEterna`, `TodosTerminan` and the second half of `NadieEsperaParaSiempre`
  (its first half is `SoloSeTrabaPorDescuadre`), which use ENABLED: the same.

## 8. Disagreements

Shown by a run: the loop of `compactar` stops one short and skips entries
(`memoria.c:194`, comment at 186); a message whose delivery failed stays marked
and is not sent again (`serverBroker.c:780`, comment at 251); an INSERT over a
page a SELECT brought leaves it among the "registros no actualizados"
(`libMemoria.c:718`, comment at 858).

Seen while reading and not shown by a run of their own:

- Broker: `obtenerCodOp` has no case for LOCALIZED, so its subscribers are sent
  GET messages, and a Team that has both is sent a GET twice (part of
  `BrokerColas`; `SinDuplicados` names it); a Game Boy is a new subscriber each
  time; a client that stalls after the code of a subscription keeps
  `mutex_mensajes` (`serverBroker.c:247`); a Game Boy has a NULL ip that a later
  subscription compares (`libBroker.c:114`, `SuscribirCae` in `BrokerColas`).
- GameCard: a CATCH of a pokemon without directory returns with `m_crearPokemon`
  locked (`libGameCard.c:281`; `MutexPerdido`).  A NEW on a full disk writes only
  the lines that fit (`pisados`).  The set-up runs beside the messages: one that
  comes early may end the process, take a block with old lines, or lose its own
  when `crearArchivosBinTotalesFS` reaches its block (`gameCard.c:19-33`).  A stop
  between the two `mkdir` of `crearDirectorioParaPokemones` leaves a disk on which
  no NEW succeeds.
- Pool-Memorias: DROP leaves `m_segmento` locked and unlocks `m_journal`
  (`SegmentoPerdido`); the thread of a SELECT is started with one argument of the
  two it reads; reading a page does not refresh its timestamp although
  `libMemoria.h:173` speaks of the least used; two INSERTs of one new key make
  two pages; a late answer of the file system may cache an old value; an INSERT
  whose value is too long gets no answer (`libMemoria.c:662`; `ValorExcedido`).
- Team: a trainer that waits for its CAUGHT passes the filter of those that are
  "no ocupado" and may go on capturing (`planificador.c:262`, comment at 240),
  because only the swaps set `estaOcupado`: it is chosen again, captures more than
  its quota and may be in two queues (`reelegido`; without it the quotas of
  `CuentasDelTeam` fail in run `team`, and `UnaColaPorEntrenador` fails with three
  trainers that need one pokemon each, the first the nearest to all of them).
  `necesitoAgregarPokemon` compares with `<=` (`libTeam.c:589`) where its comment,
  at 566, speaks of fewer; a CAUGHT that comes before its trainer is in
  `colaBlocked` is lost; a failed capture leaves the pokemon of reserve it takes
  in the list (`serverTeam.c:341`).  The detection of deadlocks takes two tokens
  and drops them when no pair can swap (`planificador.c:478-479`, `:535`); during
  a swap the others may have nothing to swap yet, and then the last swap never
  comes and the Team stops for ever (run `team` reaches it; `derroche` is the
  hypothesis that leaves it out of `TodosTerminan`).  Every list is used without
  exclusion (`Carrera`).  A trainer with nothing to capture at the start never
  gets to FINISHED and its Team never ends, and one that starts with more of a
  pokemon than it needs counts one capture too few and does not offer the surplus:
  `TeamAssumption` and `Objetivo` leave both out.
- File System: the timestamps of 13 digits are compared through `atoi`, in 32 bits
  (`libLissandra.c:1110`, `consolaLissandra.c:592` and `:754`), so a later value
  loses to an earlier one on the other side of a multiple of 2^32 ms (every 49
  days; `Entero`); a CREATE without room gets no answer (`consolaLissandra.c:183`;
  `CrearSinEspacio`); the dump takes the counter of the table at the position of
  the memtable (`libLissandra.c:795`), so a file may be written over another, be
  read by nobody, or make the rename of a compaction fail with the mutex of its
  table locked (`:899`); a full disk loses the records of a dump although the
  memtable is emptied; a DROP empties the memtables of every table
  (`consolaLissandra.c:418`).
- S-AFA: `quantumFaltante`, "sentencias que le faltan ejecutar" (`libSAFA.h:36`),
  goes below zero with comments in a script, which the CPU counts in its report and
  not in its quantum; `continuarPlanificacion` lets the planners go before it tells
  the CPUs (`consolaSAFA.c:82-85`), so an order may overtake the notice and lock the
  CPU on a mutex that its own receiver holds (`Colgarse`); a GDT blocked in a WAIT is
  in no list of waiters, so no SIGNAL ever releases it (`libSAFA.c:261`), and a
  SIGNAL frees the resource another handler may be using (`Caer`); `encolarDTB` and
  `desencolarDTB` lock a copy of their mutex (`libSAFA.c:6-17`), so two threads that
  change a queue at once may lose a GDT, or one of them wait for ever (`Carrera`).

## 9. Not modelled

- MDJ (`TP-2018`) does not compile; FM9 answers fixed values and keeps no state.
  The handlers of the DAM without a caller, or never registered, are left out.
- Serialisation, sockets, logging and configuration of every process: pure input
  and output.
- The SIGUSR1 dump of the Broker, the gossip table and console of
  Pool-Memorias, the subscription loop of GameCard.
- `tp0`, a start-up exercise, and the vendored socket library.
- The Kernel of Lissandra, but for the journal it forces: its scheduler repeats the
  round robin of the Team and of S-AFA over scripts, and `ejecucionPorRespuesta`
  leaves `sentenciaSelect` locked the first time it runs.
- Metrics of every process; the connection of a CPU (`identificarProceso`, whose
  counter of ids two threads may use at once); `status`, which prints the queues of
  S-AFA; under RR, a planner from under which `continuar` unlocks `m_puedePlanificar`.

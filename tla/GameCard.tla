------------------------------ MODULE GameCard ------------------------------
(***************************************************************************)
(* GameCard (GameCard/libGameCard.c as serverGameCard.c drives it): one    *)
(* thread per message, the file of each pokemon (a metadata file and the   *)
(* blocks it lists), the bitmap of blocks, and a process that may be       *)
(* stopped and started again on the same disk.                             *)
(*                                                                         *)
(* A thread looks for the directory of its pokemon with m_crearPokemon,    *)
(* opens the file by its OPEN flag (trying again while another thread has  *)
(* it), reads the blocks, changes the positions, takes or gives back a     *)
(* block, rewrites the blocks, saves the metadata, closes the file and     *)
(* answers.  Only the bitmap and the flag are under a mutex: everything    *)
(* between opening and closing interleaves with the other threads.         *)
(*                                                                         *)
(* A file is abstracted to how many pokemon there are at each position;    *)
(* the bytes of a line are Largo[position].  A block holds one part of a   *)
(* file's lines, or nothing.  Names of pokemon are taken not to contain    *)
(* one another, as obtenerMutexDelPokemon matches them by string_contains. *)
(***************************************************************************)
EXTENDS Integers, FiniteSets, SequencesExt

CONSTANTS
  Mensajes,     \* the messages that may arrive, each once
  Tipo,         \* of each message: "NEW", "CATCH" or "GET"
  Pokemon,      \* of each message
  Posicion,     \* of each message
  Pokemones,
  Largo,        \* of each position: the bytes of its line
  TamBloque,    \* BLOCK_SIZE
  CantBloques,  \* BLOCKS
  MaxReinicios, \* bound on the restarts of the process
  Nadie         \* no thread, no file, no data

Posiciones == DOMAIN Largo

ASSUME GameCardAssumption ==
  /\ Tipo \in [Mensajes -> {"NEW", "CATCH", "GET"}]
  /\ Pokemon \in [Mensajes -> Pokemones]
  /\ Posicion \in [Mensajes -> Posiciones]
  /\ Largo \in [Posiciones -> 1..TamBloque]
  /\ TamBloque \in Nat \ {0} /\ CantBloques \in Nat \ {0} /\ MaxReinicios \in Nat
  /\ IsFiniteSet(Mensajes) /\ IsFiniteSet(Posiciones)
  /\ Nadie \notin Mensajes

VARIABLES
  archivos,   \* Files/Pokemon/<name>/Metadata.bin, or Nadie
  disco,      \* the Bloques/<n>.bin files
  ocupados,   \* the bits set in the bitmap
  conMutex,   \* pokemon with an entry in listaPokemonMutex
  mCrear,     \* the thread that has m_crearPokemon
  hilos,      \* the thread of each message
  puesta,     \* how far main has set the file system up
  carpetas,   \* how many of Files and Files/Pokemon exist
  existen,    \* the block files there are
  caido,      \* the process died
  reinicios,
  pisados     \* history: the files a full disk or a late fopen damaged

vars == <<archivos, disco, ocupados, conMutex, mCrear, hilos, puesta, carpetas,
          existen, caido, reinicios, pisados>>

Bloques == 1..CantBloques

(* What a list may hold besides blocks: the -1 of buscarBloqueLibre, whose *)
(* file never exists, and the "(null)" of an entry that is NULL, here 0.   *)
SinBloque == -1
Nulo == 0
Numeros == Bloques \cup {SinBloque, Nulo}

(* What a file says: how many pokemon at each position, without a line     *)
(* where there is none.                                                    *)
Datos == [Posiciones -> Nat]
SinDatos == [x \in Posiciones |-> 0]

(* What Metadata.bin says, and what a block holds. *)
Archivos == [bloques : Seq(Numeros), size : Nat, open : BOOLEAN]
Partes == [datos : Datos, parte : Nat]

ASSUME NadieAssumption == Nadie \notin Archivos /\ Nadie \notin Partes

Hilo0 == [paso |-> "porLlegar", i |-> 0, lista |-> <<>>, datos |-> SinDatos, resultado |-> FALSE]

Init ==
  /\ archivos = [p \in Pokemones |-> Nadie]
  /\ disco = [b \in Numeros |-> Nadie]
  /\ ocupados = {}
  /\ conMutex = {}
  /\ mCrear = Nadie
  /\ hilos = [m \in Mensajes |-> Hilo0]
  /\ puesta = 0
  /\ carpetas = 0
  /\ existen = {}
  /\ caido = FALSE
  /\ reinicios = 0
  /\ pisados = {}

En(m, paso) == ~caido /\ hilos[m].paso = paso

Ir(m, paso) == hilos' = [hilos EXCEPT ![m].paso = paso]

(* The same, and what the thread had read is not used any more. *)
Soltar(m, paso) == hilos' = [hilos EXCEPT ![m] = [Hilo0 EXCEPT !.paso = paso, !.resultado = hilos[m].resultado]]

-----------------------------------------------------------------------------
(* The process.                                                            *)

(* main starts the threads that receive messages and then sets the file    *)
(* system up, a step at a time: the messages that have come run meanwhile. *)
(* puesta is 0 without a bitmap, 1 with it, 2 with Files just made, 3 with *)
(* the directories done, and then one more for each block.                 *)
ConBitmap == 1
ConFiles == 2
ConCarpetas == 3

HayBitmap == puesta >= ConBitmap

(* crearBitMapGC truncates the bitmap and maps it. *)
PrepararBitmap ==
  /\ ~caido
  /\ puesta = 0
  /\ puesta' = ConBitmap
  /\ ocupados' = {}
  /\ UNCHANGED <<archivos, disco, conMutex, mCrear, hilos, carpetas, existen, caido, reinicios, pisados>>

(* crearDirectorioParaPokemones makes Files, and returns if it is there,   *)
(* even if an earlier run stopped before it made Files/Pokemon.            *)
PrepararFiles ==
  /\ ~caido
  /\ puesta = ConBitmap
  /\ puesta' = IF carpetas = 0 THEN ConFiles ELSE ConCarpetas
  /\ carpetas' = IF carpetas = 0 THEN 1 ELSE carpetas
  /\ UNCHANGED <<archivos, disco, ocupados, conMutex, mCrear, hilos, existen, caido, reinicios, pisados>>

PrepararPokemon ==
  /\ ~caido
  /\ puesta = ConFiles
  /\ puesta' = ConCarpetas
  /\ carpetas' = 2
  /\ UNCHANGED <<archivos, disco, ocupados, conMutex, mCrear, hilos, existen, caido, reinicios, pisados>>

(* The list of blocks of p: the one its thread is about to save, if any. *)
ConListaNueva == {"vaciar", "escribir", "guardar"}

ListaVigente(p) ==
  LET escritores == {m \in Mensajes : Pokemon[m] = p /\ hilos[m].paso \in ConListaNueva}
  IN  IF escritores # {} THEN hilos[CHOOSE m \in escritores : TRUE].lista
      ELSE archivos[p].bloques

(* The files whose lines are lost when b is emptied. *)
PisadosPor(b) == {p \in conMutex : disco[b] # Nadie /\ b \in ToSet(ListaVigente(p))}

(* One round of crearArchivosBinTotalesFS makes or truncates a block; a    *)
(* message may have taken it already.                                      *)
PrepararBloque ==
  LET b == puesta - ConCarpetas + 1 IN
  /\ ~caido
  /\ puesta >= ConCarpetas
  /\ b <= CantBloques
  /\ puesta' = puesta + 1
  /\ disco' = [disco EXCEPT ![b] = Nadie]
  /\ existen' = existen \cup {b}
  /\ pisados' = pisados \cup PisadosPor(b)
  /\ UNCHANGED <<archivos, ocupados, conMutex, mCrear, hilos, carpetas, caido, reinicios>>

(* SIGINT or a crash, and the process again, without its threads. *)
Reiniciar ==
  /\ reinicios < MaxReinicios
  /\ reinicios' = reinicios + 1
  /\ puesta' = 0
  /\ caido' = FALSE
  /\ conMutex' = {}
  /\ mCrear' = Nadie
  /\ hilos' = [m \in Mensajes |->
       IF hilos[m].paso = "porLlegar" THEN hilos[m] ELSE [Hilo0 EXCEPT !.paso = "perdido"]]
  /\ UNCHANGED <<archivos, disco, ocupados, carpetas, existen, pisados>>

Recibir(m) ==
  /\ En(m, "porLlegar")
  /\ Ir(m, "directorio")
  /\ UNCHANGED <<archivos, disco, ocupados, conMutex, mCrear, puesta, carpetas, existen, caido, reinicios, pisados>>

-----------------------------------------------------------------------------
(* The directory of the pokemon.                                           *)

Existe(m) == archivos[Pokemon[m]] # Nadie

(* The mutex is taken, the directory is there, the mutex is released. *)
HallarDirectorio(m) ==
  /\ En(m, "directorio")
  /\ mCrear = Nadie
  /\ Existe(m)
  /\ Ir(m, "acceder")
  /\ UNCHANGED <<archivos, disco, ocupados, conMutex, mCrear, puesta, carpetas, existen, caido, reinicios, pisados>>

(* Without it, NEW keeps the mutex, makes the directory with an empty file *)
(* and looks for the first block; GET answers an empty list; CATCH answers *)
(* FALSE, and returns with the mutex.  Without Files/Pokemon there is      *)
(* nowhere to make the directory, and the NULL of mkdir and fopen is used  *)
(* later.                                                                  *)
Vacio == [bloques |-> <<>>, size |-> 0, open |-> FALSE]

NoHallarDirectorio(m) ==
  /\ En(m, "directorio")
  /\ mCrear = Nadie
  /\ ~Existe(m)
  /\ mCrear' = IF Tipo[m] = "GET" THEN Nadie ELSE m
  /\ archivos' = IF Tipo[m] = "NEW" /\ carpetas = 2
                 THEN [archivos EXCEPT ![Pokemon[m]] = Vacio] ELSE archivos
  /\ hilos' = [hilos EXCEPT ![m].paso = IF Tipo[m] = "NEW" THEN "primerBloque" ELSE "fin",
                            ![m].i = 1]
  /\ UNCHANGED <<disco, ocupados, conMutex, puesta, carpetas, existen, caido, reinicios, pisados>>

(* One round of buscarBloqueLibre: m_bitarray is taken for each bit. *)
ProbarBloque(m, sigue) ==
  LET i == hilos[m].i IN
  IF i \notin ocupados
  THEN /\ ocupados' = ocupados \cup {i}
       /\ Ir(m, sigue)
  ELSE /\ hilos' = IF i < CantBloques THEN [hilos EXCEPT ![m].i = i + 1]
                   ELSE [hilos EXCEPT ![m].i = SinBloque, ![m].paso = sigue]
       /\ UNCHANGED ocupados

(* Before the set-up there is no bitmap to look at. *)
BuscarPrimero(m) ==
  /\ En(m, "primerBloque")
  /\ IF HayBitmap
     THEN ProbarBloque(m, "crear") /\ UNCHANGED caido
     ELSE caido' = TRUE /\ UNCHANGED <<hilos, ocupados>>
  /\ UNCHANGED <<archivos, disco, conMutex, mCrear, puesta, carpetas, existen, reinicios, pisados>>

(* The metadata is written and the pokemon gets its mutex. *)
CrearArchivo(m) ==
  /\ En(m, "crear")
  /\ Existe(m)
  /\ archivos' = [archivos EXCEPT ![Pokemon[m]] =
                    [bloques |-> <<hilos[m].i>>, size |-> 0, open |-> FALSE]]
  /\ conMutex' = conMutex \cup {Pokemon[m]}
  /\ mCrear' = Nadie
  /\ pisados' = IF disco[hilos[m].i] # Nadie THEN pisados \cup {Pokemon[m]} ELSE pisados
  /\ Soltar(m, "acceder")
  /\ UNCHANGED <<disco, ocupados, puesta, carpetas, existen, caido, reinicios>>

(* There was no Files/Pokemon: fprintf to the NULL of fopen. *)
CrearSinCarpetas(m) ==
  /\ En(m, "crear")
  /\ ~Existe(m)
  /\ caido' = TRUE
  /\ UNCHANGED <<archivos, disco, ocupados, conMutex, mCrear, hilos, puesta, carpetas, existen, reinicios, pisados>>

-----------------------------------------------------------------------------
(* The file.                                                               *)

(* Mutant: the flag is not looked at. *)
AbiertoSiempre(m) == TRUE

(* OPEN is N in the metadata. *)
Cerrado(m) == ~archivos[Pokemon[m]].open

(* puedeAccederAlArchivo; while it says no, the thread sleeps and asks     *)
(* again.                                                                  *)
Acceder(m) ==
  /\ En(m, "acceder")
  /\ Pokemon[m] \in conMutex
  /\ Cerrado(m)
  /\ archivos' = [archivos EXCEPT ![Pokemon[m]].open = TRUE]
  /\ Ir(m, "leer")
  /\ UNCHANGED <<disco, ocupados, conMutex, mCrear, puesta, carpetas, existen, caido, reinicios, pisados>>

(* The file of an earlier run, or the empty one it left when it stopped in *)
(* the middle of a NEW, has no entry in listaPokemonMutex: the NULL of     *)
(* obtenerMutexDelPokemon ends the process.                                *)
AccederSinMutex(m) ==
  /\ En(m, "acceder")
  /\ Pokemon[m] \notin conMutex
  /\ caido' = TRUE
  /\ UNCHANGED <<archivos, disco, ocupados, conMutex, mCrear, hilos, puesta, carpetas, existen, reinicios, pisados>>

(* The bytes of a file: those of the line of each position with pokemon. *)
Tam(datos) ==
  Cardinality({b \in Posiciones \X (1..TamBloque) : datos[b[1]] > 0 /\ b[2] <= Largo[b[1]]})

(* The blocks of lista hold the lines of datos, whole. *)
Entero(lista, datos) ==
  /\ Tam(datos) <= TamBloque * Len(lista)
  /\ \A k \in DOMAIN lista :
       disco[lista[k]] = IF Tam(datos) > TamBloque * (k - 1)
                            THEN [datos |-> datos, parte |-> k] ELSE Nadie

(* What escribirBloquesEnArchivoTemporal reads: the lines, or, when a block*)
(* is missing or empty that should not be, some of them.                   *)
Leidos(lista) ==
  LET escritos == {disco[b].datos : b \in {c \in ToSet(lista) : disco[c] # Nadie}} \cup {SinDatos}
      enteros == {f \in escritos : Entero(lista, f)}
  IN  IF enteros # {} THEN enteros
      ELSE UNION {{[x \in Posiciones |-> IF x \in s THEN f[x] ELSE 0] : s \in SUBSET Posiciones}
                   : f \in escritos}

Agregar(datos, x) == [datos EXCEPT ![x] = @ + 1]

Reducir(datos, x) == IF datos[x] > 0 THEN [datos EXCEPT ![x] = @ - 1] ELSE datos

(* The step after the positions are changed: a file of exactly its blocks  *)
(* leaves nuevaCantidadBloques unset, and the process dies when that       *)
(* pointer is copied and freed.                                            *)
Decidir(tam, cant) ==
  IF tam > TamBloque * cant THEN "otroBloque"
  ELSE IF tam = TamBloque * cant THEN "caer"
  ELSE IF tam < TamBloque * (cant - 1) THEN "liberar"
  ELSE "escribir"

(* The blocks are read and the positions changed: actualizarOAgregarKey,   *)
(* reducirCantidadPosicionPokemon, obtenerListaDePosiciones.               *)
Leer(m) ==
  LET lista == archivos[Pokemon[m]].bloques
      x == Posicion[m]
  IN  /\ En(m, "leer")
      /\ ToSet(lista) \subseteq existen
      /\ \E datos \in Leidos(lista) :
           LET nuevos == IF Tipo[m] = "NEW" THEN Agregar(datos, x) ELSE Reducir(datos, x)
           IN  hilos' = [hilos EXCEPT ![m] =
                 IF Tipo[m] = "GET" THEN [Hilo0 EXCEPT !.paso = "cerrar"]
                 ELSE [paso |-> Decidir(Tam(nuevos), Len(lista)), i |-> 1, lista |-> lista,
                       datos |-> nuevos, resultado |-> Tipo[m] = "CATCH" /\ datos[x] > 0]]
      /\ UNCHANGED <<archivos, disco, ocupados, conMutex, mCrear, puesta, carpetas, existen, caido, reinicios, pisados>>

(* There is no file of a block that was never found, nor, on the first     *)
(* run, of one that the set-up has not come to: fgetc from the NULL of     *)
(* fopen.                                                                  *)
LeerSinBloque(m) ==
  /\ En(m, "leer")
  /\ ~ ToSet(archivos[Pokemon[m]].bloques) \subseteq existen
  /\ caido' = TRUE
  /\ UNCHANGED <<archivos, disco, ocupados, conMutex, mCrear, hilos, puesta, carpetas, existen, reinicios, pisados>>

TamanioExacto(m) ==
  /\ En(m, "caer")
  /\ caido' = TRUE
  /\ UNCHANGED <<archivos, disco, ocupados, conMutex, mCrear, hilos, puesta, carpetas, existen, reinicios, pisados>>

BuscarOtro(m) ==
  /\ En(m, "otroBloque")
  /\ ProbarBloque(m, "agregar")
  /\ UNCHANGED <<archivos, disco, conMutex, mCrear, puesta, carpetas, existen, caido, reinicios, pisados>>

(* retornarNuevaListaBloques: with -1 the list stays as it was. *)
AgregarBloque(m) ==
  /\ En(m, "agregar")
  /\ hilos' = [hilos EXCEPT ![m].paso = "escribir",
                 ![m].lista = IF hilos[m].i = SinBloque THEN @ ELSE Append(@, hilos[m].i)]
  /\ UNCHANGED <<archivos, disco, ocupados, conMutex, mCrear, puesta, carpetas, existen, caido, reinicios, pisados>>

(* Mutant: the bit stays set. *)
SinLimpiarBit(b) == ocupados

LimpiarBit(b) == ocupados \ {b}

(* liberarBloqueParticion clears the bit of the last block, and only then  *)
(* empties its file.  CATCH drops the block from its list; NEW sets the    *)
(* entry to NULL and prints it.                                            *)
LiberarBloque(m) ==
  LET lista == hilos[m].lista IN
  /\ En(m, "liberar")
  /\ ocupados' = LimpiarBit(Last(lista))
  /\ hilos' = [hilos EXCEPT ![m].paso = "vaciar", ![m].i = Last(lista),
                 ![m].lista = IF Tipo[m] = "CATCH" THEN Front(lista)
                              ELSE Append(Front(lista), Nulo)]
  /\ UNCHANGED <<archivos, disco, conMutex, mCrear, puesta, carpetas, existen, caido, reinicios, pisados>>

(* recrearBloqueVacio: by now the block may be another file's. *)
VaciarBloque(m) ==
  LET b == hilos[m].i IN
  /\ En(m, "vaciar")
  /\ disco' = [disco EXCEPT ![b] = Nadie]
  /\ pisados' = pisados \cup PisadosPor(b)
  /\ Ir(m, "escribir")
  /\ UNCHANGED <<archivos, ocupados, conMutex, mCrear, puesta, carpetas, existen, caido, reinicios>>

(* reescribirDentroDeLosBloquesAsignados: what does not fit is not written.*)
Reescribir(m) ==
  LET h == hilos[m] IN
  /\ En(m, "escribir")
  /\ disco' = [b \in DOMAIN disco |->
       IF b \notin ToSet(h.lista) THEN disco[b]
       ELSE LET k == CHOOSE k \in DOMAIN h.lista : h.lista[k] = b
            IN  IF Tam(h.datos) > TamBloque * (k - 1)
                THEN [datos |-> h.datos, parte |-> k] ELSE Nadie]
  /\ existen' = existen \cup ToSet(h.lista)
  /\ pisados' = IF Tam(h.datos) > TamBloque * Len(h.lista)
                THEN pisados \cup {Pokemon[m]} ELSE pisados
  /\ Ir(m, "guardar")
  /\ UNCHANGED <<archivos, ocupados, conMutex, mCrear, puesta, carpetas, caido, reinicios>>

(* Mutant: the metadata is saved with OPEN as it was before the thread. *)
ConOpenViejo(m) ==
  [bloques |-> hilos[m].lista, size |-> Tam(hilos[m].datos), open |-> FALSE]

(* SIZE and BLOCKS are set; OPEN is Y, as the thread read it. *)
Metadata(m) ==
  [bloques |-> hilos[m].lista, size |-> Tam(hilos[m].datos), open |-> TRUE]

Guardar(m) ==
  /\ En(m, "guardar")
  /\ archivos' = [archivos EXCEPT ![Pokemon[m]] = Metadata(m)]
  /\ Soltar(m, "cerrar")
  /\ UNCHANGED <<disco, ocupados, conMutex, mCrear, puesta, carpetas, existen, caido, reinicios, pisados>>

(* Mutant: OPEN stays Y. *)
CerrarSinGuardar(m) ==
  /\ En(m, "cerrar")
  /\ Ir(m, "fin")
  /\ UNCHANGED <<archivos, disco, ocupados, conMutex, mCrear, puesta, carpetas, existen, caido, reinicios, pisados>>

(* cerrarArchivo; then APPEARED, CAUGHT or LOCALIZED is sent, once: if the *)
(* Broker is not there it is lost.                                         *)
Cerrar(m) ==
  /\ En(m, "cerrar")
  /\ archivos' = [archivos EXCEPT ![Pokemon[m]].open = FALSE]
  /\ Ir(m, "fin")
  /\ UNCHANGED <<disco, ocupados, conMutex, mCrear, puesta, carpetas, existen, caido, reinicios, pisados>>

-----------------------------------------------------------------------------
Atender(m) ==
  \/ HallarDirectorio(m) \/ NoHallarDirectorio(m)
  \/ BuscarPrimero(m) \/ CrearArchivo(m) \/ CrearSinCarpetas(m)
  \/ Acceder(m) \/ AccederSinMutex(m)
  \/ Leer(m) \/ LeerSinBloque(m) \/ TamanioExacto(m)
  \/ BuscarOtro(m) \/ AgregarBloque(m)
  \/ LiberarBloque(m) \/ VaciarBloque(m)
  \/ Reescribir(m) \/ Guardar(m) \/ Cerrar(m)

Next ==
  \/ PrepararBitmap \/ PrepararFiles \/ PrepararPokemon \/ PrepararBloque
  \/ Reiniciar
  \/ \E m \in Mensajes : Recibir(m) \/ Atender(m)

Spec == Init /\ [][Next]_vars

(* Each thread runs on; a thread that sleeps before it asks for the file   *)
(* again does ask.  Messages and restarts promise nothing.                 *)
FairSpec == Spec /\ \A m \in Mensajes : WF_vars(Atender(m))

-----------------------------------------------------------------------------
(* Properties.                                                             *)

Pasos == {"porLlegar", "directorio", "primerBloque", "crear", "acceder", "leer",
          "otroBloque", "agregar", "liberar", "vaciar", "escribir", "guardar",
          "cerrar", "fin", "caer", "perdido"}

TypeOK ==
  /\ archivos \in [Pokemones -> Archivos \cup {Nadie}]
  /\ disco \in [Numeros -> Partes \cup {Nadie}]
  /\ ocupados \subseteq Bloques
  /\ conMutex \subseteq {p \in Pokemones : archivos[p] # Nadie}
  /\ mCrear \in Mensajes \cup {Nadie}
  /\ hilos \in [Mensajes -> [paso : Pasos, i : Numeros, lista : Seq(Numeros),
                            datos : Datos, resultado : BOOLEAN]]
  /\ puesta \in 0..(ConCarpetas + CantBloques) /\ carpetas \in 0..2
  /\ existen \subseteq Bloques \cup {Nulo}
  /\ caido \in BOOLEAN
  /\ reinicios \in 0..MaxReinicios
  /\ pisados \subseteq Pokemones

(* The threads that have the file of p open. *)
ConArchivo == {"leer", "otroBloque", "agregar", "liberar", "vaciar", "escribir",
               "guardar", "cerrar", "caer"}

Dentro(p) == {m \in Mensajes : Pokemon[m] = p /\ hilos[m].paso \in ConArchivo}

(* The OPEN flag is a lock, although it lives in a file that is read and   *)
(* saved whole at three places: OPEN is Y exactly while one thread is      *)
(* between opening and closing the file.                                   *)
AccesoExclusivo ==
  \A p \in conMutex :
    /\ Cardinality(Dentro(p)) <= 1
    /\ archivos[p].open <=> Dentro(p) # {}

(* The blocks in the hands of threads, not in a list yet. *)
EnMano == {hilos[m].i : m \in {n \in Mensajes : hilos[n].paso \in {"crear", "agregar"}}} \ {SinBloque}

DeArchivo(p) == ToSet(ListaVigente(p)) \cap Bloques

(* A set bit has exactly one owner, and a block with an owner has its bit  *)
(* set: no block is in two files or in one and in the hand of a thread     *)
(* that will put it in another, and none leaks, whatever the order in      *)
(* which threads scan the bitmap, grow and shrink, and also while main     *)
(* still sets the blocks up (from the moment it has cleared the bitmap).   *)
BloquesConUnDuenio ==
  HayBitmap =>
    /\ \A p, q \in conMutex : p # q => DeArchivo(p) \cap DeArchivo(q) = {}
    /\ \A p \in conMutex : DeArchivo(p) \cap EnMano = {}
    /\ ocupados = EnMano \cup UNION {DeArchivo(p) : p \in conMutex}

(* Pokemon of p at x: those NEW wrote less those CATCH took. *)
Escrito(m) == hilos[m].paso \in {"guardar", "cerrar", "fin"}

Contados(p, x) ==
  Cardinality({m \in Mensajes : Escrito(m) /\ Tipo[m] = "NEW" /\ Pokemon[m] = p /\ Posicion[m] = x})
  - Cardinality({m \in Mensajes : /\ Escrito(m) /\ Tipo[m] = "CATCH" /\ hilos[m].resultado
                                  /\ Pokemon[m] = p /\ Posicion[m] = x})

(* No pokemon is lost, appears from nowhere or is caught twice: what the   *)
(* blocks of a file hold is what the messages answered so far add up to,   *)
(* unless the file is being rewritten or was damaged (pisados): by a disk  *)
(* without free blocks, because a block was given to another file after    *)
(* its bit was clear and before it was emptied, or because the set-up had  *)
(* not come to one of its blocks: the file began in a block with the lines *)
(* of an earlier run, or main truncated it with the lines of this one.     *)
CuentasFieles ==
  \A p \in conMutex \ pisados :
    (~ \E m \in Dentro(p) : hilos[m].paso \in {"vaciar", "escribir"}) =>
      Entero(ListaVigente(p), [x \in Posiciones |-> Contados(p, x)])

(* Every message that comes is answered in the end (each comes once, and   *)
(* so there is a last), unless the process dies or restarts, or a CATCH of *)
(* a pokemon without a directory has left m_crearPokemon locked.           *)
MutexPerdido == mCrear # Nadie /\ hilos[mCrear].paso = "fin"

TodoSeAtiende ==
  <>[](\/ caido \/ MutexPerdido
       \/ \A m \in Mensajes : hilos[m].paso \in {"porLlegar", "fin", "perdido"})
=============================================================================

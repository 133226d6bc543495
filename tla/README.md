# Verification of the memory simulator (comanda)

The repository simulates the memory of an ordering service: `comanda` keeps the
orders of restaurants in a segmented, paged memory with swap, and a console
(`cliente`) sends it requests over sockets. This directory holds TLA+
specifications of that program, the TLC runs that check them on small instances
and the TLAPS proofs that hold for every size of the memory.

Source paths below are relative to the repository; line numbers are those of
`comanda/src/comanda.c` unless another file is named.

## 1. Inventory

| Part | State | Operations | What makes it correct |
|---|---|---|---|
| Request handlers (183-461) | `tablas_de_restaurantes`: restaurant -> order -> `Segmento_Pedido` (state, `tabla_de_platos`) | `guardar_pedido`, `guardar_plato`, `obtener_pedido`, `confirmar_pedido`, `plato_listo`, `finalizar_pedido` | confirmed orders are closed; TERMINADO orders are complete; a finalised order leaves no page and no empty restaurant; each answer is what a plain store of orders would give |
| Paged memory (520-754) | `memoria_principal` (MP), `memoria_virtual` (MV), both bitmaps, one `Info_Pagina_Plato` per dish | new dish, load, swap, write back, quantities, free | no frame is lost or shared; a clean page equals its swap copy; pages keep their quantities through evictions |
| Victim selection (766-909) | `paginas_para_swapeo`, `index_puntero_cm`, use, modification and pin bits | LRU, modified clock | the list is exactly the resident pages; the hand stays in it when it is used; pinned pages are never taken; the clock takes a page of the best class |
| Concurrency (94-112, `servidor_utils.c` 168) | one thread per connection, `lock_swap`, a mutex per page, for the list and for each bitmap; none for the tables | every handler | mutual exclusion, no deadlock, no stale page information |
| Start-up and shutdown (20-64, 970-1003) | all of the above | `inicializar_modulo`, `terminar_programa` | no console waits for ever, whatever is used before it exists or after it is freed |
| Display commands (66-92, 911-958) | none | `mp`, `mv`, `ps`, `puntero_cm` | read only |
| Console (`cliente.c`) | none between requests | one request per command; `prueba_final_comanda`, a script | waits for the answer of a request before the next |
| Wire format (`serializacion.c`, `shared_utils.c` 56-94) | none | one pair of functions per message | what is typed is what the handler gets, what is answered is what is printed, sizes match bytes |
| Sockets (`servidor_utils.c`, `shared_utils.c`) | descriptors | connect, accept, send, receive | each thread uses its own descriptor; every connection is closed; a peer that leaves harms nobody |

The console opens a connection per request; `escuchar_conexiones` accepts it and
starts a detached thread in `escuchar_mensajes`, which decodes the message and
calls one handler; the handler updates the tables and the memory and answers on
the same connection. The handlers interact only through the globals of
`comanda.h`: a request about one order evicts the pages of another, and
`finalizar_pedido` changes the list and the bitmaps every later request relies
on. The hard behaviours are therefore

- long sequences of legal requests that drive the bitmaps, the page information,
  the list and the hand, which are kept apart, out of step with each other;
- requests that need more pages at once than there are frames;
- victims, write-backs and loads in the wrong order, stale bits, reused frames;
- several handlers at once, with the locks taken in different orders, walks over a
  list that others change, and the tables not protected at all;
- consoles and server that leave in the middle of a request, descriptors that run
  out, requests served before the memory exists.

`PROJECT.json` lists every hazard at its line, with the properties that cover it.


## 2. Modules

| Module | Models | Kind |
|---|---|---|
| `Interfaz` | operations, order states, answers | definitions |
| `Reemplazo` | the list, the bits and the two algorithms, as functions | definitions |
| `Reloj` | the clock's four loops, one turn per step | state machine |
| `Memoria` | the paged memory: one operator per C function, from the record of the globals before the call to the record after it | definitions |
| `Comanda` | the server with one console: the handlers over tables and memory | state machine |
| `Pedidos` | what the server promises: an atomic store of orders without pages | abstract specification |
| `Recencia` | `Comanda` with LRU and the history of loads and writes | composition with a history |
| `PruebaFinal` | the console's script over `Comanda`, shipped configuration | composition |
| `Hilos` | the handlers as threads over `Memoria`, with their mutexes | state machine |
| `Conexiones` | connections, descriptors, messages, Ctrl-C, start-up and shutdown | state machine |
| `Formato` | from the typed line to the handler and back, byte by byte of each field | state machine |
| `MCComanda`, `MCRecencia`, `MCReloj`, `MCHilos`, `MCFormato` | symmetry, views, scenarios and inputs for TLC | instances |
| `MemoriaProofs` | what each operator of `Memoria` keeps of its structure, and does to its contents | proofs |
| `ComandaProofs`, `TablasProofs` | the two inductive invariants of `Comanda` and its safety theorems | proofs |
| `PromesaProofs` | `Comanda` implements `Pedidos` | proofs |
| `RelojProofs`, `ConexionesProofs` | the loops of the clock; the connections | proofs |
| `HilosProofs` | the inductive invariant of `Hilos`: mutual exclusion of `lock_swap`, and frames of any number of threads | proofs |
| `CocinaProofs` | the threads of consoles that only confirm, look at and prepare orders | proofs |

`Comanda` extends `Memoria`, which extends `Reemplazo`; `Comanda` instantiates
`Pedidos` with a refinement mapping; `Recencia` and `PruebaFinal` extend `Comanda`
and conjoin their history to its steps. `Hilos` extends `Memoria` too: both server
models work on the memory with the same operators, cut at different points.
`Conexiones` and `Formato` share `Interfaz` with them and abstract the orders away.
Definitions named `..._sin_...`, `..._al_reves` and the like, commented as mutants,
are deliberately wrong variants placed before the definition they vary: they show
that each property notices a plausible bug and appear in no specification.

### State

| TLA+ | C |
|---|---|
| `restaurantes` | keys of `tablas_de_restaurantes` |
| `estado[<<r, id>>]` | `Segmento_Pedido.estado`, `"NULO"` when the key is absent |
| `mem.mp`, `mem.mv` | contents of the frames: the two quantities (the dish name, stored for printing, is left out) |
| `mem.bitmap_mp`, `mem.bitmap_mv` | `bitmap_memoria_principal`, `bitmap_memoria_virtual` |
| `mem.paginas[<<<<r, id>>, dish>>]` | `Info_Pagina_Plato`; a dish is in `tabla_de_platos` exactly when its `frame_mv` is not -1 |
| `mem.lista`, `mem.puntero` | `paginas_para_swapeo`, `index_puntero_cm` (0-based, as in C) |
| `hilo` (`Comanda`) | the handler in progress and the dishes it has still to visit |
| `hilos[t]` (`Hilos`) | a thread of `atender_conexion`: next step, request, locals, node of the walk, page it waits for |
| `lock_swap`, `lock_pagina[p]` | owner of each mutex, `Nadie` when free |
| `respuesta`, `respuestas` | the answer the console has not read yet; the last answer of each console |
| `caido`, `fallo` | the process died in `swap` (874) or in the clock's search (835); the first undefined action |
| `servidor`, `causa` | phase of the server's process and what ends it |
| `conexiones[k]` | one request's connection: both ends, messages unread, descriptor, its thread's next step |
| `cable` | bytes on a connection, each tagged with the field it belongs to |

### Actions of `Comanda`

`guardar_pedido`, `confirmar_pedido`, `guardar_plato` and every rejected request
are one step: they update the shared state, if at all, before the single answer.
`obtener_pedido` and `plato_listo` take one step to pin the pages of the order
(`FijarPedido`), one per dish to raise it (`LevantarPagina`, in any order, since
the dictionary's order is arbitrary) and one to read, update, unpin and answer.
`finalizar_pedido` takes one to remove the segment, one per page to free it and
one to remove an empty restaurant and answer. `guardar_plato` has one action per
path of `agregar_plato_a_pedido`: `SumarEnMP` (526), `SumarConSwap` (530-535),
`PlatoNuevo` (539-568).

With one console the serial model is exact: `cliente.c` sends a request and
blocks in `recibir_descripcion`, and a handler makes its last shared update
before `enviar_descripcion`. The mutexes are then never contended: unlocking a
page that was not locked (302, 556) leaves a free mutex free, and the victim
unlocked at 892 is the only page that leaves the list while locked. They are left
out of `Comanda` and are what `Hilos` is about.

What the C does on the way to a crash is modelled as the crash: when the search
returns NULL, or `list_get` is given an index past the end of a non-empty list,
the next statement dereferences NULL and `caido` becomes TRUE.

Line 395 calls `log_info` with the format where the logger is expected. It logs,
and what the library does with the wrong pointer is not the program's logic; it
is treated as no effect.

### Victim selection twice

`Reemplazo!seleccion_de_victima_clock_modificado` says in closed form which page
the four calls of `circular_list_get_by_condition` return and which use bits
`es_0_1` clears on the way. `Reloj` runs the loops turn by turn; TLC compares
both on every input up to three pages, and `RelojProofs` proves them equal for a
list of any length. The closed form is what `Memoria` uses.

### `Hilos`

One thread per request. A step is what a thread does from one access to something
another thread may be changing to the next: a lookup in the tables, a lock, one
node of a walk over the list, one dish of an order, the read and the write of a
sum. What runs under the mutex of the list or of a bitmap is inside the step that
takes it, because nothing else is taken there. The decisions that matter:

- `lock_swap` and the page mutexes are glibc's default ones: unlocking a mutex that
  another thread holds frees it. `unlockear_paginas_en_memoria` (907) does it.
- `list_iterate` is the commons library's (external): it saves the next node before
  visiting one, so a page that leaves the list under a walk (`SinNodo`) either
  moves the rest one place or leaves the walker on a freed node.
- Operations of a dictionary are atomic, and an iteration visits the dishes the
  order had when it began. The dictionaries have no mutex in the code; what a torn
  update of one would do is not modelled.
- `swap` is one step: it is always called under `lock_swap`, and a sum that it
  interrupts is cut between its read and its write (`LeerTotal`, `EscribirTotal`),
  not inside the copy of a frame.
- A behaviour stops at its first undefined action, and `fallo` says what it was: a
  NULL followed, freed memory used, frame -1 read (`FUERA`; `REGISTRO` when it is the
  read for the log, 246), a page or segment replaced in its table while somebody hangs
  from it. A segment that `finalizar_pedido` took out of its table and has not freed is
  still usable (`Sacados`, `EnTabla`).
- What a handler keeps in a local stays what it was: the segment found (228) is tested
  in a later step (`ProbarEstado`), and a first order goes to the table found at 468 or
  498 even when another thread has replaced or removed that table since (`huerfana`):
  it is answered OK and is nowhere.
- `hecho` is a history: what the answers given so far add up to.

`Comanda` remains the model of long sequences; `Hilos` bounds the requests per
console (`faltan`) and starts from memories prepared by earlier ones (`Escenarios`).

### `Conexiones`

A handler is the messages it sends and whether it closes. The kernel is external:
`accept` takes the lowest free descriptor and fails with none; a send to a peer
that closed with nothing unread is answered by a reset, and the next one raises
SIGPIPE; a peer that closes with something unread resets at once and a send only
fails. Start-up is the phase `iniciando`, in which the listening thread already
serves (29) and the memory does not exist (31-39): a request may be served or end
the process. Later too a handler may end it, by one of the undefined actions that
`Comanda` and `Hilos` tell apart (`Atender`, cause `memoria`). Shutdown is `terminando`,
begun by Ctrl-C or by a failing `accept`: the listening socket is closed, which leaves
without an answer who is still in its queue, handlers go on over freed memory, and the
listening thread, whose socket was closed, or another Ctrl-C may begin it again
(`TerminarOtraVez`). A `guardar_plato` and another handler that swaps may wait for each
other for ever (530 against 624), and with them whoever needs `lock_swap` (`Trabar`):
`Hilos` says when that happens (`CausaDeBloqueo`); here it may happen to any such pair.
The console's failures (`crear_conexion` returning -1, `recv` returning 0) lead it
back to its prompt or to its death, since it reads an answer out of a buffer nobody
filled.

### `Formato`

Bytes are tagged with the value and the position they come from; reading an int or a
string anywhere but at its first byte gives something undefined, so a field out of
order or a size off by one shows. `get_codigo_operacion_by_string` (`shared_utils.c`
70-94) has no return after its last comparison: in the unoptimised build of the
repository's makefiles the caller gets what the last `strcmp` left, any non-zero
value: a misspelt word may send a request, or run `prueba_final_comanda`, whose requests
are then taken one at a time. Names of 23 and of 24 letters are the two sides of
`TAMANIO_NOMBRE_PLATO`. A name is copied past its buffer by `crear_plato`, which only
runs for a dish that is accepted (584), or by `enlistar_platos` (274).

### `PruebaFinal`

The script sends each line when the last was answered, with the 4 and 128 frames of
`comanda.config`. `VictimasDelRegistro` and `TerminadosDelRegistro` are transcribed
from `logs/comanda.log` (process 12194), what the real program did when that script
was run: the model is compared with the program itself.

## 3. What TLC checks

| Run | Instance | Shows |
|---|---|---|
| `reloj` | lists of 1-3 pages, all bits, all hands | the loops compute the closed form (`ComoLaDefinicion`); the victim is of the best class (`VictimaDeLaMejorClase`); use bits are taken only when no 00 page exists and never from pinned pages (`SegundaOportunidad`); the search ends (`Termina`) |
| `clock_estructura` | 2 orders x 3 dishes, MP 2, MV 3, clock | `TypeOK`, `FramesOK`, `ListaOK`, `PunteroOK`, `FijadasOK`, `CausaDeCaida` |
| `lru_recencia` | the same, LRU | the list is the order of the last loads and writes (`ListaPorAntiguedad`), the victim the oldest unpinned page (`VictimaMasAntigua`) |
| `promesa` | 2 orders x 2 dishes, MP 2, MV 3, LRU, modulus 2 | the refinement `CumplePromesa`; `CopiaLimpia`, `TablasOK`, `TerminadoCompleto`, `ConfirmadoCerrado` |
| `prueba_final` | the script, MP 4, MV 128 | `ComoElRegistro`, `TerminaVacia` |
| `hilos_pacificos` | 2-3 threads, 2 orders, MP 2, four scenarios | `SoloFallaElRegistro`, `NadaPerdido`, `CandadosLibres`, `MemoriaEnReposo`, `TerminadoSinFaltantes`, `FotoCoherente`, no deadlock |
| `hilos_mezcla` | 3 threads, one scenario, fairness | `TodasAtendidas` |
| `hilos_todas` | 2 threads, any request each, 3 starting memories | `ExclusionDeSwap`, `MarcosSinCompartir`, `CausaDeFallo`, `CausaDeBloqueo`, `CausaDePerdida` |
| `conexiones` | 2 consoles, 2 connections, 2 descriptors, fairness | `DescriptorPropio`, `NadieLeeDeNada`, `CausaDeBaja`, `ConsolaVuelve`, `DevuelveDescriptores` |
| `formato` | all commands, words short, exact and too long, missing and misspelt, requests of the script | `LlegaLoPedido`, `LlegaLaRespuesta`, `CableVacio`, `DesbordeSoloPorNombre` |
| `readme_finaliza`, `hilos_espera` | see below | a counterexample each |

**Refinement.** `CumplePromesa` is the specification of `Pedidos` under the mapping
that reads every dish through `Valor`: the MP copy while the page is resident, the
MV copy otherwise. Loading, evicting, writing back, pinning and freeing are then
stuttering steps, and each answer must be the atomic store's. `finalizar_pedido`
maps to its effect when the segment is removed; the answer it will give is
already decided there. The abstract store may die at any request (`Caer`);
*when* the server dies is `CausaDeCaida`. `promesa` has orders of two dishes that fit in
the two frames, and swap for three of the four dishes: orders of two dishes are raised
with evictions, answered dish by dish, and become TERMINADO, or do not because one dish
was prepared once too many before the other, and `SIN_ESPACIO` is said. It uses LRU
(827 thousand states; the clock doubles them with its hand and bits): what the store
promises does not depend on who is evicted, and `PromesaProofs` proves it for both
algorithms, any number of frames, restaurants, orders and dishes.

**CausaDeCaida.** The server dies in two ways only: raising an order with more
dishes than MP has frames, or adding to an evicted dish when there is a free
frame (that path swaps without looking for one, 528-532). In particular a full
MP never kills it: `PunteroOK` says the hand that `finalizar_pedido` leaves stale
is back within the list whenever MP is full, which is when a new dish or a raise
needs a victim.

**What goes wrong between threads.** The scenarios of `hilos_pacificos` are consoles
that add to dishes the orders have; the same with one that also adds a new dish;
consoles that look at and prepare confirmed orders; both at once on different orders.
One thing goes wrong in them, and `SoloFallaElRegistro` says that it is the only one:
`guardar_plato` unlocks the page (527, 535, 556, 565) before it reads it again for the
log (245-247), and if another handler's swap evicted the page in between, 246 reads frame
-1. Short of that no update is lost, no mutex stays taken and nothing deadlocks.
`FotoCoherente` has `plato_listo` and sums of other orders against `obtener_pedido`; a
dish added to the order being obtained is in `hilos_todas`.
`hilos_todas` drops every restriction but one request per console, and says what always
holds and what exactly can go wrong:

- `ExclusionDeSwap`: between a `lock` and an `unlock` of `lock_swap` there is one thread,
  on every path of every handler, and a thread that holds it is on such a path.
- `MarcosSinCompartir`: a frame belongs to one page or to one thread that has reserved
  it. `agregar_plato_a_pedido` reserves frames (540, 552) long before the page has
  them, with no lock held in between, and others load, evict and free meanwhile.
- `CausaDeFallo`: an undefined action takes a second thread that is adding a new
  dish to the order being raised (the page is in the dictionary, 586, before it has
  a frame), that finalised an order somebody else was using, that holds a frame
  reserved (552) and not yet in the list while a swap looks for a victim, that
  creates the same table, order or dish, or whose swap evicts the page between the sum
  and the log of a `guardar_plato` (246).
- `CausaDeBloqueo`: the only deadlock is 530 against 624, below.
- `CausaDePerdida`: without any failure, a quantity is lost only between two
  `guardar_plato`, pages are left in two frames only if one was answered OK, and an order
  answered OK is missing only between two `guardar_pedido` (one replaced the table that
  the other had just created, 467).
  (Two of the same new dish: the second finds it in the dictionary, swaps it in and
  adds to it; the first, which took it for new, swaps it in again at 554 from its old
  copy. The scenarios of `hilos_pacificos` do not have that pair.)

**Connections.** `CausaDeBaja`: SIGPIPE ends the server only when a console left in the
middle of an accepted `obtener_pedido`, whose second message (307) raises it; `accept`
ends it (104-106) only at a moment in which every descriptor is in service, in a
deadlock or leaked. Ctrl-C and undefined memory (a SIGSEGV, say), which handlers may
cause, are the other two causes. `DevuelveDescriptores`: only an accepted `plato_listo`
(413-417), a handshake and the deadlock of 530 keep one for ever. `ConsolaVuelve`: only
that deadlock keeps a console. An early request (before 39) or a late one (after 991)
may end the process; `NadieLeeDeNada` says that as long as the server accepts, no
console finds its connection closed without an answer; once it began to end, only those
that were never served do.

**Bounds.** MP has fewer frames than there are dishes, so evictions, loads and
frame reuse happen in every run of `Comanda`; MV has fewer than the dishes, so
`SIN_ESPACIO` happens. In `clock_estructura` an order of 3 dishes over 2 frames reaches
the crash while raising; two orders reach the crash of `SumarConSwap` and the stale hand. `Modulo`
stands for 2^32: 2 is enough for the quantities to differ, meet and wrap; the runs
about structure use 1, because no guard of the paging code looks at a quantity, and
the invariants and the refinement are proved for every modulus. The number of requests of
`Comanda` is not bounded: the state space is finite. In `Hilos`, `faltan` bounds the
requests of a console to 1 or 2; two threads are enough for each interleaving of the
inventory, three for a walk that two others disturb; memories start with every frame
taken and a page evicted, with one to spare, and empty. `Modulo` 16 never wraps
there, so that a lost update shows. In `Conexiones`, as many connections as
descriptors let `accept` fail; one console and the server may be interrupted at any
step. `Formato` bounds only the words. One restaurant is enough for `promesa` and
`clock_estructura`: with two orders it stays in the table or leaves it (450), and nothing
else of a restaurant is looked at; the orders of `hilos_todas` are of two.

**Symmetry and view.** Restaurants, order numbers and dishes are only compared for
equality; symmetry is used in the safety and refinement runs of `Comanda`, never with
a liveness property. The view drops what no later step can read: the content of free
frames, and the swap copy of a page whose modification bit is on (it is overwritten
before it is read, or freed with the page); in `promesa` and `lru_recencia` also which
answer is waiting: the console does nothing else before reading it (`Libre`), and the
properties that speak of it are properties of steps, which are checked on every step.
No other property of a run with a view reads what it drops.

**Deadlock.** It is checked where the system must not stop: in `hilos_pacificos`,
`hilos_mezcla` and `prueba_final`, whose only last states are those of the action
`Terminar`. The other models may stop for good (the server dies, the search ends, a
console leaves) and say `CHECK_DEADLOCK FALSE`.

**Fairness.** `Hilos` has weak fairness on the steps of each thread: the scheduler
runs whoever can go on. It is not strong: default mutexes promise nothing about who
gets them, and the runs need no such promise. `Conexiones` has it on the accepting
thread, on the end of start-up and of shutdown, on a console that is in the middle of a
request, and on each handler, which there is a single step per message and not a series of
waits for mutexes: that it goes on unless it is in the deadlock of 530 is what
`hilos_mezcla` (`TodasAtendidas`) and `CausaDeBloqueo` say of the handlers step by
step, and `Trabar`, which has no fairness, is that deadlock. `accept` has to fail, when
descriptors run out, only while a console waits for it. Nobody has to start a request, nor
press Ctrl-C. `Reloj` has it on its
loop.

### Disagreements

Two runs end in a counterexample:

- `readme_finaliza`: `README.md:19` lets an order be finalised once its dishes are
  ready; `finalizar_pedido` (430-448) looks at neither state nor quantities, and the
  repository's own script relies on it: it finalises order 3 with 1 of 2
  `asadoconfritas` and order 4 with 19 of 20 `choripan` (`mensajes de prueba.txt:22`
  lists 20).
- `hilos_espera`: `guardar_plato` on an evicted dish keeps the page's mutex (524) and
  waits for `lock_swap` (530), which `obtener_pedido` of the same order holds while it
  waits for that mutex (624).

The others are not runs of their own: a property that holds says exactly when they
happen.

| What the code does | Where | Property |
|---|---|---|
| `obtener_pedido`, `plato_listo` of an order with more dishes than frames kill the server, against `README.md:17` | 874 | `CausaDeCaida` |
| `guardar_plato` on an evicted dish with free frames may kill it | 532 | `CausaDeCaida` |
| `obtener_pedido` while a dish is being added reads frame -1 | 586 | `CausaDeFallo` |
| `finalizar_pedido` frees under a walk, or under who found the order before | 302, 436, 448 | `CausaDeFallo` |
| `guardar_plato` reads for the log a page that may have been evicted since it was unlocked | 246 | `SoloFallaElRegistro`, `CausaDeFallo` |
| two first `guardar_pedido` of a restaurant: the second table replaces the first, an order answered OK is lost | 467 | `CausaDePerdida`; `CausaDeFallo` when somebody was using it |
| two requests deadlocked at 530 keep their consoles and their descriptors | 530 | `ConsolaVuelve`, `DevuelveDescriptores` |
| two `guardar_plato` of one new dish: an addition is lost | 554 | `CausaDePerdida` |
| `guardar_plato` unlocks (556) pages that others locked after 555 | 556 | `CausaDePerdida` |
| an accepted `plato_listo` leaks its descriptor | 413 | `DevuelveDescriptores`, `CausaDeBaja` |
| SIGPIPE on the second message of `obtener_pedido` | 307 | `CausaDeBaja` |
| names longer than `TAMANIO_NOMBRE_PLATO` overflow | 723, 274 | `DesbordeSoloPorNombre` |
| a word that is no command may run one | `shared_utils.c` 94 | `LlegaLoPedido`, which says the request is at least a whole one |
| LRU ignores reads (676, 616 only set the use bit) | 860 | `VictimaMasAntigua` is stated of loads and writes |

With two consoles `confirmar_pedido` may run between the test of the state (234) and
the addition of the dish (586), so `ConfirmadoCerrado` is a property of one console.

## 4. What is proved

The eight `...Proofs` modules are checked by TLAPS to the last leaf. The theorems on
`Comanda` hold for any `CantFramesMP`, `CantFramesMV` and `Modulo` greater than zero,
either algorithm, and any sets of restaurants, order numbers, dishes and integer
quantities; those on `Conexiones` for any number of consoles, connections and
descriptors and any set of processes that Ctrl-C may stop; those on `Reloj` for any
list without repetitions; those on `Hilos` for any number of threads, any number of
any requests and any memory to start from that one console could have left
(`EscenariosAssumption`, and `NadieAssumption` and `NingunoAssumption` on the names of
what is not a thread or an order). Nothing else is assumed: the assumptions are the named ones
of those modules. No theorem uses fairness.

| Module | Theorem | Says |
|---|---|---|
| `ComandaProofs` | `Tipos`, `Frames`, `Lista`, `Copias`, `Puntero`, `Pinadas` | `Spec => []` of `TypeOK`, `FramesOK`, `ListaOK`, `CopiaLimpia`, `PunteroOK`, `FijadasOK` |
| `TablasProofs` | `TablasSiempre` | `Spec => []TablasOK` |
| | `Caidas` | `Spec => []CausaDeCaida` |
| `PromesaProofs` | `Refinamiento` | `Spec => CumplePromesa`: `Comanda` implements `Pedidos` |
| | `Cerrado` | `Spec => ConfirmadoCerrado`, an action property |
| | `Completos` | `Spec => []TerminadoCompleto` |
| `RelojProofs` | `LazosComoDefinicion`, `MejorClase`, `Oportunidad` | `Spec => []` of `ComoLaDefinicion`, `VictimaDeLaMejorClase`, `SegundaOportunidad` |
| `ConexionesProofs` | `DescriptorDeUno`, `RespuestaDeVerdad` | `Spec => []` of `DescriptorPropio`, `NadieLeeDeNada` |
| | `BajaConCausa` | `Spec => CausaDeBaja`, an action property |
| `HilosProofs` | `Exclusion`, `SinCompartir` | `Spec => []` of `ExclusionDeSwap`, `MarcosSinCompartir` |
| `CocinaProofs` | `CocinaSinFallo` | `Spec /\ EsCocina => [](fallo = "NO")`: nothing undefined is done |
| | `CocinaNadaPerdido`, `CocinaCandadosLibres`, `CocinaMemoriaEnReposo` | `Spec /\ EsCocina => []` of `NadaPerdido`, `CandadosLibres`, `MemoriaEnReposo` |
| | `CocinaFotoCoherente` | `Spec /\ EsCocina => FotoCoherente`, an action property |
| | `CocinaSinBloqueo` | `Spec /\ EsCocina => []~Bloqueo`: some thread with a request waits for no mutex |

### The memory: `IInv`

The theorems of `ComandaProofs` follow from `SiempreIInv`, `Spec => []IInv`, with

    IInv == TypeOK /\ MemoriaBien(mem) /\ PendientesOK /\ Fijadas

- `MemoriaBien` joins types, frames, list and copies, because none of them is
  inductive alone: `swap` takes the victim's frame from the list, so that frames
  stay disjoint needs the list to be exactly the resident pages; removing by
  `frame_mv` removes the right page only because no two pages share one; a write
  back restores the copy only because the victim's frame is its own.
- `PendientesOK` says that the dishes a handler has still to visit are pages of
  its order: freeing needs it.
- `Fijadas` says which pages are pinned and, once raised, resident: it makes the
  frame numbers read at the end of `obtener_pedido` and `plato_listo` valid.

The memory lemmas follow the C functions: for each one, if the memory is
consistent before the call it is consistent after it (`SwapBien`, `CargaBien`,
`UbicarBien`, `LevantarBien`, `NuevaBien`, `LiberarBien`, `SumarTotalBien`, ...), and
loads and swaps also satisfy `Conserva`: they move contents without changing any
page's quantities and never take out a pinned page. `ComandaProofs` then has one
lemma per action. `Puntero` adds a counting argument: when every MP frame is
taken, the list has as many pages as there are frames, and the hand is one of
their numbers.

### The tables and the deaths: `TInv`

    TInv == IInv /\ Segmentos /\ Tablas /\ CausaDeCaida

The end of `MemoriaProofs` restates what each memory function does in the only terms the
tables and the store care about: which dishes there are and which quantities are read
for each (`MismoContenido`, `ContenidoCon`, `ContenidoSin`). `TablasProofs` has one
lemma per action in those terms.

- `Tablas` is `TablasOK` page by page; it depends on the order that
  `finalizar_pedido` has already taken out of its table and is still freeing.
- `Segmentos` says in which state the order of a handler in progress is. Nothing else
  can change it with one console, but that has to be said: without it the end of
  `plato_listo` could mark as TERMINADO an order that nobody confirmed.
- `CausaDeCaida` is kept because nothing runs after a death, and because a page that
  is being raised misses a victim only if every page of the list is pinned; the pinned
  pages are dishes of its own order and not the page itself, so the order has more
  dishes than there are frames. The other death, a swap while a frame is free, is the
  path of 528-532 and nothing else.

### The refinement

`Refinamiento` is proved on `TInv` in the usual three parts: `InicioPromesa`, one lemma
per action (`Paso...`), and the temporal step. `Guardados` is what the mapping puts
in place of the store's dishes and `Leida` its answer; the lemmas `Puente...` say each
action of `Pedidos` in those two terms.

| Step of `Comanda` | Step of `Pedidos` |
|---|---|
| `guardar_pedido`, `confirmar_pedido`, any rejected request, the console reading | the same |
| `guardar_plato`, with the evictions and loads it needs | the same, or `Caer` |
| pinning, raising a dish of an order | none, or `Caer` |
| last step of `obtener_pedido` | the whole request: every dish was raised, so what the frames hold is what is stored |
| last step of `plato_listo` | the whole request, with the test that ends the order |
| `finalizar_pedido` takes the segment out | the whole request, answer included |
| freeing its pages, answering | none |

That the store refuses a dish for lack of space exactly when MV is full is a counting
argument: the dishes stored are the pages in use (`OcupacionIgual`), which are as many
as the frames of MV taken. `Cerrado` and `Completos` need the contents and not only the structure
either: `Completos` is inductive on the abstract state (`Terminados`), since a
TERMINADO order is touched by no step but `finalizar_pedido`, whatever moves between
the memories meanwhile.

### The clock: `RInv`

`RInv` says, by the bits before the search, what the calls that are over and the turns
of the present one have rejected, and that the use bits cleared so far are those of
the unpinned pages that the second call left behind (`Limpias`). It needs the turns of
a round to visit each position once (`Turnos`, `Vistas`): a page whose bit was cleared
is not tested again in the same round. The rest is `Definicion`: the first turn that
passes a test is what `SelectInSeq` returns on the definition's round.

### The connections: `CInv`

    CInv == Tipos /\ Cola /\ Pasos /\ Distintos /\ Turnos

- `Pasos` relates the step of each handler to its descriptor, its result and the state
  of the other end; with `Distintos` it gives `DescriptorPropio`. In particular before
  the first message the console may have closed but was never sent anything, which is
  why only a second message raises SIGPIPE.
- `Cola`: the connections that wait for `accept` are not served yet and are there once,
  so `accept` never gives a second descriptor to one.
- `Turnos` says exactly which messages are in the connection of a console that waits,
  by the step of its handler and its own. `NadieLeeDeNada` alone is not inductive: that
  the second message of an `obtener_pedido` is still to come, or there, when the
  console has read an "ok" has to be known before the handler closes.
- A handler in a deadlock (`trabado`) is, for `Pasos` and `Turnos`, one that has not sent
  its first message: `Trabar` moves several at once (`TrabarBien`).
- `CausaDeBaja` is a property of the step that ends the server and needs no history:
  `CausaDelPaso` reads it off `Pasos`; when `accept` fails, it is a bijection between the
  connections that hold a descriptor and the descriptors (`SinDescriptores`).

### The threads: `HInv`

    HInv == (fallo = "NO" => Sigue) /\ ExclusionDeSwap /\ MarcosSinCompartir

with

    Sigue == TiposH /\ (\A t : Lugar(t)) /\ DuenoDeSwap /\ MarcosDePaginas(mem)
             /\ Reservas /\ MarcosSinCompartir /\ (\A t : Vivas(t))

After its first undefined action the model stops, and no more is said of the state than
the two properties. Until then

- `Lugar` ties each thread's step to its request, and `DuenoDeSwap` is exclusion in
  the form that is inductive: whoever is in a step of `ConSwap` is the owner, and the
  owner is in one. `Unlockear` belongs to it in `plato_listo`, which walks before it
  unlocks, and not in `obtener_pedido`, which walks after.
- `MarcosDePaginas` and `Reservas` say that the frames of pages and of reservations are
  marked in the bitmaps, so a free frame is nobody's; a reservation is not in the
  list, so no victim has it. `MemoriaBien` is not available: with several threads a
  page may be twice in the list and be loaded twice (`CausaDePerdida`), and the hand may
  then go past the frames (`MemoriasH`).
- `Vivas` says that the page of a thread, and those it has still to visit, are in
  their table, unless the thread knows (`colgado`) that one was freed: otherwise a load
  or a swap could give a frame to a page that has no swap frame.

There is one lemma per action (`PedirSigue`, `SwapDePlatoSigue`, ...); each proves `Sigue'`
or that the step fails. TLC checked `HInv` on the scenarios of the runs first.

### The kitchen: `KInv`

The other properties of `Hilos` are false for some requests, and
`CausaDeFallo`, `CausaDeBloqueo` and `CausaDePerdida` say that `guardar_pedido`,
`guardar_plato` and `finalizar_pedido` are behind it. `CocinaProofs` proves that the
other three handlers, `obtener_pedido`, `confirmar_pedido` and `plato_listo`, break none
of them, for any number of threads and requests: `EsCocina` says that the
scenario asks for nothing else, that nothing is pinned at the start, as every handler
leaves it, and that no order has more dishes than main memory has frames. The last one
is needed: raising a larger order kills the server even with one console
(`CausaDeCaida`). Scenario `cocina` of run `hilos_pacificos` is one.

    KInv == EsCocina /\ fallo = "NO" /\ MemoriaBien(mem) /\ Caben(mem)
            /\ (\A t : KHilo(t)) /\ Fijadas /\ Cuentas

- `MemoriaBien` is that of one console and holds at every step: only the owner of
  `lock_swap` moves pages.
- `Candados` (in `KHilo`) is what makes walking the list to unlock it enough: a thread
  has mutexes only of resident pages, and once it unlocks, of pages ahead of it. It is
  not obvious, because `obtener_pedido` walks after releasing `lock_swap`, while the
  next owner swaps. It holds because a swap unlocks the victim and puts the new page in
  its place in the list (`SwapLista`), and a page loaded into a free frame goes at the
  end (`CargaLista`): nothing a thread has still to unlock moves.
- `Recorre` says that the owner of `lock_swap` has not locked what is ahead of it, so that
  it never waits for itself; whom it waits for is walking without `lock_swap` and
  waits for nobody. That is `CocinaSinBloqueo`.
- `Levantados` and `Fijadas` say that the pages of an order being raised stay pinned, and
  those already raised resident; with `Foto`, what was listed is what the order still
  has.
- `Cuentas` says that the quantities of a dish are those answered plus one for each
  thread whose `plato_listo` is in the memory and not in an answer, modulo `Modulo`
  (`SinVueltas` takes the modulus away at rest).

The proof assumes `Sigue` of the current state, from `SiempreHInv`. `OtroHilo` says what
one thread's step keeps of another (`Ajeno`), and then there is one lemma per action.
TLC checked `KInv` first, with three consoles.

### Only model-checked

- Liveness (`Termina`, `TodasAtendidas`, `ConsolaVuelve`, `DevuelveDescriptores`): out of
  the prover's reach.
- `Formato`: its messages are built and read with folds over fields and bytes, and
  what a fold computes needs induction over data.
- `ListaPorAntiguedad` and `VictimaMasAntigua` of `Recencia`: both are about what
  `SelectSeq` and `SetToSeq` return, which are recursive over the sequence.
- `ComoElRegistro` and `TerminaVacia` of `PruebaFinal`: they are about one behaviour, the
  script's, and TLC explores all of it.
- Of `Hilos`, `TerminadoSinFaltantes`, which is true only while the quantities do not
  wrap, and `CausaDeFallo`, `CausaDeBloqueo` and `CausaDePerdida`, which are about one
  request per console. The other scenarios of `hilos_pacificos`, in which consoles add to
  dishes, are not kitchens: what is checked of them depends on who adds to what.

No module declares a RECURSIVE operator.

## 5. Not modelled

- Display commands (66-92, 911-958): they only read. `ps` walks the list without its
  mutex, as the handlers' walks in `Hilos` do.
- The order in which shutdown frees the structures, and what an early or late request
  reads of them: `Conexiones` lets it be served or end the process. Nothing is
  persisted, so there is no recovery.
- Dish names inside frames, logging, memory management of requests and answers.
- A dictionary caught half updated by another thread.
- Messages split by the network: a `recv` gets what was sent or nothing.
- The lists of clients and restaurants, `enviar_identificacion`, `recibir_mensaje` and
  the types of `entidades.h` that neither program uses.

## 6. Plan

1. `Recencia`: lemmas on `SelectSeq` over a concatenation, if the prover can be given
   them, and `ListaPorAntiguedad` from them and `ListaOK`.

-------------------------------- MODULE Hilos --------------------------------
(***************************************************************************)
(* The comanda server serving several consoles: one thread per request     *)
(* (atender_conexion), the handlers of comanda.c interleaved, and the      *)
(* mutexes they take.                                                      *)
(*                                                                         *)
(* A step of a thread is what it does from one access to something another *)
(* thread may be changing to the next: a lookup in the tables, which have  *)
(* no mutex, the acquisition of a lock, one element of a walk over the     *)
(* list, one dish of an order.  What runs under the list's or a bitmap's   *)
(* mutex is part of the step that takes it, since nothing else is taken    *)
(* inside.  The mutexes are the default ones of glibc: unlocking one that  *)
(* another thread holds frees it, and unlocking a free one does nothing.   *)
(*                                                                         *)
(* The model follows a behaviour up to its first undefined action and says *)
(* in `fallo` what that was.  One of them may also pass unnoticed, since   *)
(* what it reads goes only to the log: see Informar.  The algorithm is the *)
(* shipped one, the clock.                                                 *)
(***************************************************************************)
EXTENDS Memoria, Interfaz

CONSTANTS
  Hilos,           \* consoles, each with at most one request in the server
  Nadie,           \* owner of a free mutex
  NingunPedido, NingunPlato,
  Escenarios       \* where a behaviour may start and what is asked, see Escenario

ASSUME RelojAssumption == Algoritmo = "CLOCK_MODIFICADO"
ASSUME NadieAssumption == Nadie \notin Hilos
ASSUME NingunoAssumption == NingunPedido \notin Pedidos

ConPlato == {"GUARDAR_PLATO", "PLATO_LISTO"}
ConPruebas == {"GUARDAR_PLATO", "PLATO_LISTO", "CONFIRMAR_PEDIDO"}
Solicitud ==
  {s \in [hilo : Hilos, op : Operaciones, pedido : Pedidos,
          plato : Platos \cup {NingunPlato}, cantidad : Int] :
     s.op \in ConPlato => s.plato \in Platos}

(* The memory and the states of the orders after some earlier requests of  *)
(* one console, what the consoles may ask for, and how often (a bound).    *)
Escenario == [mem : Memorias, estado : [Pedidos -> Estados],
              solicitudes : SUBSET Solicitud, faltan : Nat]

ASSUME EscenariosAssumption ==
  \A n \in DOMAIN Escenarios :
    \A e \in {Escenarios[n]} : e \in Escenario /\ MemoriaBien(e.mem)

VARIABLES
  escenario,       \* the one of this behaviour; no step changes it
  restaurantes,    \* keys of tablas_de_restaurantes
  estado,          \* Segmento_Pedido.estado, "NULO" for a missing key
  mem,             \* the paged memory
  lock_swap,       \* who holds it
  lock_pagina,     \* who holds the mutex of each page
  hilos,           \* where each thread is and its local variables
  respuestas,      \* the last answer each console got
  hecho,           \* history: what the answers so far add up to, per dish
  fallo            \* the first undefined action of the process

vars == <<escenario, restaurantes, estado, mem, lock_swap, lock_pagina, hilos,
          respuestas, hecho, fallo>>

tablas == <<escenario, restaurantes, estado>>
candados == <<lock_swap, lock_pagina>>
consola == <<respuestas, hecho>>

(* pc names the next step, camino the path of agregar_plato_a_pedido,      *)
(* pendientes the dishes an iteration has still to visit, cursor the       *)
(* position of the next node of a walk over the list, espera the page      *)
(* whose mutex the thread takes next, dato what was read of a page, leido  *)
(* the dishes of an answer, colgado that what the thread points to was     *)
(* freed, huerfana that the table of orders it holds was replaced.         *)
NingunaPagina == <<NingunPedido, NingunPlato>>

Parado(faltan) ==
  [pc |-> "LIBRE", op |-> "NINGUNA", pedido |-> NingunPedido, plato |-> NingunPlato,
   cantidad |-> 0, camino |-> "NINGUNO", pendientes |-> {}, cursor |-> 0,
   espera |-> NingunaPagina, dato |-> [frame |-> -1, valor |-> 0], leido |-> {},
   colgado |-> FALSE, huerfana |-> FALSE, faltan |-> faltan]

Init ==
  \E n \in DOMAIN Escenarios : \E e \in {Escenarios[n]} :
    /\ escenario = n
    /\ estado = e.estado
    /\ restaurantes = {r \in Restaurantes : \E id \in Ids : estado[<<r, id>>] # "NULO"}
    /\ mem = e.mem
    /\ lock_swap = Nadie
    /\ lock_pagina = [p \in Paginas |-> Nadie]
    /\ hilos = [t \in Hilos |->
         Parado(IF \E s \in e.solicitudes : s.hilo = t THEN e.faltan ELSE 0)]
    /\ respuestas = [t \in Hilos |-> SinRespuesta]
    /\ hecho = [p \in Paginas |-> IF tiene_pagina(mem, p) THEN Valor(mem, p)
                                  ELSE [cantidad_total |-> 0, cantidad_lista |-> 0]]
    /\ fallo = "NO"

-----------------------------------------------------------------------------
(* The steps that do not follow the pointers of a handler. *)
SinPunteros == {"RESERVAR_MV", "RESERVAR_MP", "TOMAR_SWAP", "LOCKEAR",
                "LOCKEAR_PAGINA", "UNLOCKEAR"}

UsaLiberado(t) ==
  \/ hilos[t].colgado /\ hilos[t].pc \notin SinPunteros
  \/ hilos[t].pc = "LOCKEAR_PAGINA" /\ hilos[t].espera = NingunaPagina

En(t, pc) == fallo = "NO" /\ hilos[t].pc = pc /\ ~ UsaLiberado(t)

Pagina(t) == <<hilos[t].pedido, hilos[t].plato>>

Ir(t, pc) == hilos' = [hilos EXCEPT ![t].pc = pc]

(* list_iterate keeps the next node while it visits one: the position of   *)
(* the node after i, and the end of the list.  A node that was freed is 0. *)
FinDeLista == -1

Siguiente(i) == IF i < Len(mem.lista) THEN i + 1 ELSE FinDeLista

Recorrer(t, pc) == hilos' = [hilos EXCEPT ![t].pc = pc, ![t].cursor = Siguiente(0)]

Fallar(t, como) ==
  /\ fallo' = como
  /\ Ir(t, "FALLO")
  /\ UNCHANGED <<tablas, mem, candados, consola>>

(* A segment that finalizar_pedido took out of its table lives on until its*)
(* pages are freed; who found it before still reads and writes it.         *)
Sacados == {hilos[u].pedido : u \in {v \in Hilos : hilos[v].pc = "LIBERAR"}}

EnTabla(ped) == estado[ped] # "NULO" /\ ped \notin Sacados

(* The handler answers and its thread ends; the console is free again. *)
Responder(t, resultado) ==
  /\ respuestas' = [respuestas EXCEPT ![t] = Descripcion(hilos[t].op, resultado)]
  /\ hilos' = [hilos EXCEPT ![t] = Parado(@.faltan)]

-----------------------------------------------------------------------------
(* The request and the lookups every handler starts with.                  *)

Pedir(t) ==
  /\ En(t, "LIBRE")
  /\ hilos[t].faltan > 0
  /\ \E s \in Escenarios[escenario].solicitudes :
       /\ s.hilo = t
       /\ hilos' = [hilos EXCEPT ![t] =
            [Parado(hilos[t].faltan - 1) EXCEPT
               !.pc = "BUSCAR_RESTAURANTE", !.op = s.op, !.pedido = s.pedido,
               !.plato = s.plato, !.cantidad = s.cantidad]]
  /\ UNCHANGED <<tablas, mem, candados, consola, fallo>>

(* existe_restaurante_en_memoria *)
BuscarRestaurante(t) ==
  LET r == hilos[t].pedido[1]
  IN  /\ En(t, "BUSCAR_RESTAURANTE")
      /\ IF r \in restaurantes
         THEN Ir(t, "BUSCAR_PEDIDO") /\ UNCHANGED consola
         ELSE IF hilos[t].op = "GUARDAR_PEDIDO"
         THEN Ir(t, "CREAR_TABLA") /\ UNCHANGED consola
         ELSE Responder(t, "SIN_RESTAURANTE") /\ UNCHANGED hecho
      /\ UNCHANGED <<tablas, mem, candados, fallo>>

(* existe_pedido_de_restaurante: the restaurant found before may be gone,  *)
(* and dictionary_get then returns NULL.                                   *)
BuscarPedido(t) ==
  LET h == hilos[t]
  IN  /\ En(t, "BUSCAR_PEDIDO")
      /\ IF h.pedido[1] \notin restaurantes THEN Fallar(t, "NULO")
         ELSE /\ IF ~ EnTabla(h.pedido)
                 THEN IF h.op = "GUARDAR_PEDIDO"
                      THEN Ir(t, "TOMAR_TABLA") /\ UNCHANGED consola
                      ELSE Responder(t, "SIN_PEDIDO") /\ UNCHANGED hecho
                 ELSE IF h.op = "GUARDAR_PEDIDO"
                      THEN Responder(t, "PEDIDO_REPETIDO") /\ UNCHANGED hecho
                      ELSE /\ Ir(t, IF h.op \in ConPruebas THEN "PROBAR_ESTADO" ELSE "TOMAR_SWAP")
                           /\ UNCHANGED consola
              /\ UNCHANGED <<tablas, mem, candados, fallo>>

(* The tests of the segment, which others may have changed since it was    *)
(* found: the step each handler goes to, or the reason it gives.           *)
TrasProbar(t) ==
  LET h == hilos[t]
      e == estado[h.pedido]
  IN  CASE h.op = "GUARDAR_PLATO" ->
             IF e # "PENDIENTE" THEN "ESTADO_INVALIDO" ELSE "BUSCAR_PLATO"
        [] h.op = "CONFIRMAR_PEDIDO" ->
             IF e # "PENDIENTE" THEN "ESTADO_INVALIDO" ELSE "CONFIRMAR"
        [] h.op = "PLATO_LISTO" ->
             IF ~ tiene_pagina(mem, Pagina(t)) THEN "SIN_PLATO"
             ELSE IF e # "CONFIRMADO" THEN "ESTADO_INVALIDO" ELSE "TOMAR_SWAP"

ProbarEstado(t) ==
  LET sigue == TrasProbar(t)
  IN  /\ En(t, "PROBAR_ESTADO")
      /\ IF sigue \in Resultados
         THEN Responder(t, sigue) /\ UNCHANGED hecho
         ELSE Ir(t, sigue) /\ UNCHANGED consola
      /\ UNCHANGED <<tablas, mem, candados, fallo>>

-----------------------------------------------------------------------------
(* guardar_pedido and confirmar_pedido take no lock.                       *)

(* Threads that keep a pointer to the segment of ped. *)
Apuntando(ped) ==
  {u \in Hilos : /\ hilos[u].pedido = ped
                 /\ hilos[u].op \in {"GUARDAR_PLATO", "OBTENER_PEDIDO",
                                     "PLATO_LISTO", "CONFIRMAR_PEDIDO"}
                 /\ hilos[u].pc \notin {"BUSCAR_RESTAURANTE", "BUSCAR_PEDIDO"}}

(* The segment of ped is replaced or becomes unreachable.  The model goes  *)
(* on only when nothing hangs from it, nor from an earlier one: a page that*)
(* finalizar_pedido did not see is not in the new table.                   *)
SeReemplaza(ped) ==
  \/ ped \in Sacados
  \/ tabla_de_platos(mem, ped) # {}
  \/ EnTabla(ped) /\ Apuntando(ped) # {}

(* Who adds an order keeps the table of the restaurant it looked up.       *)
ConTabla(r) == {u \in Hilos : hilos[u].pc = "AGREGAR_PEDIDO" /\ hilos[u].pedido[1] = r}

(* dictionary_put of an empty table: one created in between is replaced,   *)
(* with its orders, and nobody frees it.                                   *)
CrearTabla(t) ==
  LET r == hilos[t].pedido[1]
      suyos == {ped \in Pedidos : ped[1] = r}
  IN  /\ En(t, "CREAR_TABLA")
      /\ IF \E ped \in suyos : SeReemplaza(ped) THEN Fallar(t, "REEMPLAZO")
         ELSE /\ restaurantes' = restaurantes \cup {r}
              /\ estado' = [ped \in Pedidos |-> IF ped \in suyos THEN "NULO" ELSE estado[ped]]
              /\ hilos' = [u \in Hilos |->
                   IF u = t THEN [hilos[u] EXCEPT !.pc = "TOMAR_TABLA"]
                   ELSE [hilos[u] EXCEPT !.huerfana = @ \/ u \in ConTabla(r)]]
              /\ UNCHANGED <<escenario, mem, candados, consola, fallo>>

(* dictionary_get, the table in a local variable from here on; dictionary_ *)
(* put does not test for NULL.                                             *)
TomarTabla(t) ==
  /\ En(t, "TOMAR_TABLA")
  /\ IF hilos[t].pedido[1] \notin restaurantes THEN Fallar(t, "NULO")
     ELSE /\ Ir(t, "AGREGAR_PEDIDO")
          /\ UNCHANGED <<tablas, mem, candados, consola, fallo>>

(* The order is answered OK also when its table is no longer anybody's.    *)
AgregarPedido(t) ==
  LET ped == hilos[t].pedido
  IN  /\ En(t, "AGREGAR_PEDIDO")
      /\ IF ~ hilos[t].huerfana /\ SeReemplaza(ped) THEN Fallar(t, "REEMPLAZO")
         ELSE /\ estado' = IF hilos[t].huerfana THEN estado
                           ELSE [estado EXCEPT ![ped] = "PENDIENTE"]
              /\ Responder(t, "OK")
              /\ UNCHANGED <<escenario, restaurantes, mem, candados, hecho, fallo>>

Confirmar(t) ==
  /\ En(t, "CONFIRMAR")
  /\ estado' = [estado EXCEPT ![hilos[t].pedido] = "CONFIRMADO"]
  /\ Responder(t, "OK")
  /\ UNCHANGED <<escenario, restaurantes, mem, candados, hecho, fallo>>

-----------------------------------------------------------------------------
(* The locks.                                                              *)

(* Mutant: lock_swap is taken without waiting for it. *)
TomarSwap_sin_esperar(t) ==
  LET h == hilos[t]
  IN  /\ En(t, "TOMAR_SWAP")
      /\ lock_swap' = t
      /\ IF h.op = "FINALIZAR_PEDIDO" THEN Ir(t, "SACAR_PEDIDO")
         ELSE IF h.camino = "NUEVO" THEN Ir(t, "RESERVAR_MP")
         ELSE Recorrer(t, "LOCKEAR")
      /\ UNCHANGED <<tablas, mem, lock_pagina, consola, fallo>>

(* pthread_mutex_lock(&lock_swap), and where each handler goes with it. *)
TomarSwap(t) ==
  LET h == hilos[t]
  IN  /\ En(t, "TOMAR_SWAP")
      /\ lock_swap = Nadie
      /\ lock_swap' = t
      /\ IF h.op = "FINALIZAR_PEDIDO" THEN Ir(t, "SACAR_PEDIDO")
         ELSE IF h.camino = "NUEVO" THEN Ir(t, "RESERVAR_MP")
         ELSE Recorrer(t, "LOCKEAR")
      /\ UNCHANGED <<tablas, mem, lock_pagina, consola, fallo>>

(* lockear_paginas_en_memoria: the next page of the list, or its end. *)
Lockear(t) ==
  LET i == hilos[t].cursor
  IN  /\ En(t, "LOCKEAR")
      /\ IF i = 0 THEN Fallar(t, "LIBERADO")
         ELSE /\ IF i = FinDeLista
                 THEN Ir(t, IF hilos[t].op = "GUARDAR_PLATO" THEN "SWAP" ELSE "FIJAR")
                 ELSE hilos' = [hilos EXCEPT ![t].pc = "LOCKEAR_PAGINA",
                                             ![t].espera = mem.lista[i],
                                             ![t].cursor = Siguiente(i)]
              /\ UNCHANGED <<tablas, mem, candados, consola, fallo>>

(* Mutant: the page's mutex is taken without waiting for it. *)
LockearPagina_sin_esperar(t) ==
  LET p == hilos[t].espera
  IN  /\ En(t, "LOCKEAR_PAGINA")
      /\ lock_pagina' = [lock_pagina EXCEPT ![p] = t]
      /\ hilos' = [hilos EXCEPT ![t].pc = "LOCKEAR", ![t].espera = NingunaPagina]
      /\ UNCHANGED <<tablas, mem, lock_swap, consola, fallo>>

(* The page may have left the list while the thread waits for it. *)
LockearPagina(t) ==
  LET p == hilos[t].espera
  IN  /\ En(t, "LOCKEAR_PAGINA")
      /\ lock_pagina[p] = Nadie
      /\ lock_pagina' = [lock_pagina EXCEPT ![p] = t]
      /\ hilos' = [hilos EXCEPT ![t].pc = "LOCKEAR", ![t].espera = NingunaPagina]
      /\ UNCHANGED <<tablas, mem, lock_swap, consola, fallo>>

(* Mutant: the walk stays on the node it has unlocked. *)
Unlockear_sin_avanzar(t) ==
  LET i == hilos[t].cursor
  IN  /\ En(t, "UNLOCKEAR")
      /\ i # 0
      /\ lock_pagina' = IF i = FinDeLista THEN lock_pagina
                        ELSE [lock_pagina EXCEPT ![mem.lista[i]] = Nadie]
      /\ UNCHANGED <<tablas, mem, lock_swap, hilos, consola, fallo>>

(* unlockear_paginas_en_memoria: whatever pages the list has now, locked   *)
(* by this thread or not.  Only plato_listo still holds lock_swap.         *)
Unlockear(t) ==
  LET i  == hilos[t].cursor
      op == hilos[t].op
  IN  /\ En(t, "UNLOCKEAR")
      /\ IF i = 0 THEN Fallar(t, "LIBERADO")
         ELSE /\ IF i # FinDeLista
                 THEN /\ lock_pagina' = [lock_pagina EXCEPT ![mem.lista[i]] = Nadie]
                      /\ hilos' = [hilos EXCEPT ![t].cursor = Siguiente(i)]
                      /\ UNCHANGED lock_swap
                 ELSE /\ Ir(t, CASE op = "GUARDAR_PLATO"  -> "INFORMAR"
                                 [] op = "OBTENER_PEDIDO" -> "LEER_ESTADO"
                                 [] op = "PLATO_LISTO"    -> "MARCAR")
                      /\ lock_swap' = IF op = "PLATO_LISTO" THEN Nadie ELSE lock_swap
                      /\ UNCHANGED lock_pagina
              /\ UNCHANGED <<tablas, mem, consola, fallo>>

Recorriendo == {"LOCKEAR", "LOCKEAR_PAGINA", "UNLOCKEAR"}

(* A node leaves the list while others walk it: the pages behind it move   *)
(* one place, and who was going to visit that node points to freed memory. *)
SinNodo(hs, p) ==
  LET k == SelectInSeq(mem.lista,
                       LAMBDA q : mem.paginas[q].frame_mv = mem.paginas[p].frame_mv)
  IN  [u \in Hilos |->
         IF k = 0 \/ hs[u].cursor < k \/ hs[u].pc \notin Recorriendo
         THEN hs[u]
         ELSE [hs[u] EXCEPT !.cursor = IF @ = k THEN 0 ELSE @ - 1]]

-----------------------------------------------------------------------------
(* swap, called with lock_swap held: what it does to the memory, and the   *)
(* mutex of the victim, which it unlocks.                                  *)

Victima == mem.lista[Eleccion(mem).pos]

(* How a swap goes wrong: there is no victim, or the one chosen has no     *)
(* frame.                                                                  *)
FalloDeSwap ==
  IF ~ HayVictima(mem) THEN "NULO"
  ELSE IF mem.paginas[Victima].frame_mp = -1 THEN "FUERA" ELSE "NO"

(* Mutant: the mutex of the victim, which leaves the list, stays locked. *)
Intercambiar_sin_soltar(p) == mem' = swap(mem, p) /\ UNCHANGED lock_pagina

Intercambiar(p) ==
  /\ mem' = swap(mem, p)
  /\ lock_pagina' = [lock_pagina EXCEPT ![Victima] = Nadie]

-----------------------------------------------------------------------------
(* guardar_plato, after its lookups: agregar_plato_a_pedido.               *)

(* Mutant: the presence of the page is tested before its mutex is taken.   *)
BuscarPlato_sin_lockear(t) ==
  LET p == Pagina(t)
      sigue == IF ~ tiene_pagina(mem, p) THEN <<"RESERVAR_MV", "NUEVO">>
               ELSE IF mem.paginas[p].presencia THEN <<"TOMAR_PAGINA", "EN_MP">>
               ELSE <<"TOMAR_SWAP", "DE_SWAP">>
  IN  /\ En(t, "BUSCAR_PLATO")
      /\ hilos' = [hilos EXCEPT ![t].pc = sigue[1], ![t].camino = sigue[2]]
      /\ UNCHANGED <<tablas, mem, candados, consola, fallo>>

BuscarPlato(t) ==
  LET conocido == tiene_pagina(mem, Pagina(t))
  IN  /\ En(t, "BUSCAR_PLATO")
      /\ hilos' = [hilos EXCEPT ![t].pc = IF conocido THEN "TOMAR_PAGINA" ELSE "RESERVAR_MV",
                                ![t].camino = IF conocido THEN "EN_MP" ELSE "NUEVO"]
      /\ UNCHANGED <<tablas, mem, candados, consola, fallo>>

(* obtener_frame_libre_mv *)
ReservarMV(t) ==
  LET f == obtener_frame_libre(mem.bitmap_mv)
  IN  /\ En(t, "RESERVAR_MV")
      /\ IF f < 0
         THEN Responder(t, "SIN_ESPACIO") /\ UNCHANGED mem
         ELSE /\ mem' = [mem EXCEPT !.bitmap_mv[f] = TRUE]
              /\ hilos' = [hilos EXCEPT ![t].pc = "AGREGAR_PAGINA", ![t].dato.frame = f]
              /\ UNCHANGED respuestas
      /\ UNCHANGED <<tablas, candados, hecho, fallo>>

(* Another thread may have put the same dish: its page is then replaced in *)
(* the table, and nobody can reach the frames it has.                      *)
AgregarPagina(t) ==
  /\ En(t, "AGREGAR_PAGINA")
  /\ IF tiene_pagina(mem, Pagina(t)) THEN Fallar(t, "REEMPLAZO")
     ELSE /\ mem' = agregar_nueva_plato_a_pedido(mem, Pagina(t), hilos[t].cantidad,
                                                 hilos[t].dato.frame)
          /\ Ir(t, "TOMAR_SWAP")
          /\ UNCHANGED <<tablas, candados, consola, fallo>>

(* Mutant: the frame found is not marked, lock_swap seems to be enough. *)
ReservarMP_sin_marcar(t) ==
  LET f == obtener_frame_libre(mem.bitmap_mp)
  IN  /\ En(t, "RESERVAR_MP")
      /\ IF f < 0
         THEN Recorrer(t, "LOCKEAR") /\ UNCHANGED lock_swap
         ELSE /\ hilos' = [hilos EXCEPT ![t].pc = "TOMAR_PAGINA", ![t].dato.frame = f]
              /\ lock_swap' = Nadie
      /\ UNCHANGED <<tablas, mem, lock_pagina, consola, fallo>>

(* obtener_frame_libre_mp.  With a frame lock_swap is released at once.    *)
ReservarMP(t) ==
  LET f == obtener_frame_libre(mem.bitmap_mp)
  IN  /\ En(t, "RESERVAR_MP")
      /\ IF f < 0
         THEN Recorrer(t, "LOCKEAR") /\ UNCHANGED <<mem, lock_swap>>
         ELSE /\ mem' = [mem EXCEPT !.bitmap_mp[f] = TRUE]
              /\ hilos' = [hilos EXCEPT ![t].pc = "TOMAR_PAGINA", ![t].dato.frame = f]
              /\ lock_swap' = Nadie
      /\ UNCHANGED <<tablas, lock_pagina, consola, fallo>>

(* lockear_pagina, followed for a known dish by the test of its presence. *)
TomarPagina(t) ==
  LET p == Pagina(t)
  IN  /\ En(t, "TOMAR_PAGINA")
      /\ lock_pagina[p] = Nadie
      /\ lock_pagina' = [lock_pagina EXCEPT ![p] = t]
      /\ IF hilos[t].camino = "NUEVO" THEN Ir(t, "CARGAR")
         ELSE IF mem.paginas[p].presencia THEN Ir(t, "LEER_TOTAL")
         ELSE hilos' = [hilos EXCEPT ![t].pc = "TOMAR_SWAP", ![t].camino = "DE_SWAP"]
      /\ UNCHANGED <<tablas, mem, lock_swap, consola, fallo>>

Cargar(t) ==
  LET p == Pagina(t)
  IN  /\ En(t, "CARGAR")
      /\ mem' = cargar_en_frame(mem, p, hilos[t].dato.frame)
      /\ hilos' = [SinNodo(hilos, p) EXCEPT ![t].pc = "SOLTAR_PAGINA"]
      /\ UNCHANGED <<tablas, candados, consola, fallo>>

SoltarPagina(t) ==
  /\ En(t, "SOLTAR_PAGINA")
  /\ lock_pagina' = [lock_pagina EXCEPT ![Pagina(t)] = Nadie]
  /\ Ir(t, "INFORMAR")
  /\ UNCHANGED <<tablas, mem, lock_swap, consola, fallo>>

(* The swap of guardar_plato, after which it releases lock_swap. *)
SwapDePlato(t) ==
  /\ En(t, "SWAP")
  /\ IF FalloDeSwap # "NO" THEN Fallar(t, FalloDeSwap)
     ELSE /\ Intercambiar(Pagina(t))
          /\ lock_swap' = Nadie
          /\ IF hilos[t].camino = "NUEVO" THEN Recorrer(t, "UNLOCKEAR") ELSE Ir(t, "LEER_TOTAL")
          /\ UNCHANGED <<tablas, consola, fallo>>

(* sumar_cantidad_total reads the quantity and then writes it, each time   *)
(* through the frame number the page has at that moment.                   *)
LeerTotal(t) ==
  LET f == mem.paginas[Pagina(t)].frame_mp
  IN  /\ En(t, "LEER_TOTAL")
      /\ IF f = -1 THEN Fallar(t, "FUERA")
         ELSE /\ hilos' = [hilos EXCEPT ![t].pc = "ESCRIBIR_TOTAL",
                     ![t].dato = [frame |-> f, valor |-> mem.mp[f].cantidad_total]]
              /\ UNCHANGED <<tablas, mem, candados, consola, fallo>>

EscribirTotal(t) ==
  LET p == Pagina(t)
      f == mem.paginas[p].frame_mp
      total == (hilos[t].dato.valor + hilos[t].cantidad) % Modulo
  IN  /\ En(t, "ESCRIBIR_TOTAL")
      /\ IF f = -1 THEN Fallar(t, "FUERA")
         ELSE /\ mem' = agregar_a_lista_de_swapeo(
                          pagina_modificada([mem EXCEPT !.mp[f].cantidad_total = total], p),
                          p, "REFERENCIA")
              /\ IF hilos[t].camino = "EN_MP" THEN Ir(t, "SOLTAR_PAGINA")
                                              ELSE Recorrer(t, "UNLOCKEAR")
              /\ UNCHANGED <<tablas, candados, consola, fallo>>

(* The line for the log reads the page again, with no lock: the swap of    *)
(* another handler may have taken its frame, and what is read then, before *)
(* the first one, kills the process or is garbage that only the log shows. *)
Informar(t) ==
  /\ En(t, "INFORMAR")
  /\ \/ mem.paginas[Pagina(t)].frame_mp = -1 /\ Fallar(t, "REGISTRO")
     \/ /\ hecho' = [hecho EXCEPT ![Pagina(t)].cantidad_total = (@ + hilos[t].cantidad) % Modulo]
        /\ Responder(t, "OK")
        /\ UNCHANGED <<tablas, mem, candados, fallo>>

-----------------------------------------------------------------------------
(* obtener_pedido and plato_listo, with lock_swap and the list locked.     *)

PlatosDelPedido(t) == tabla_de_platos(mem, hilos[t].pedido)

(* Mutant: the pages of the order are not pinned. *)
Fijar_sin_fijar(t) ==
  /\ En(t, "FIJAR")
  /\ hilos' = [hilos EXCEPT ![t].pc = "LEVANTAR", ![t].pendientes = PlatosDelPedido(t)]
  /\ UNCHANGED <<tablas, mem, candados, consola, fallo>>

Fijar(t) ==
  /\ En(t, "FIJAR")
  /\ mem' = poner_bit_de_lockeo(mem, PaginasDe(mem, hilos[t].pedido), TRUE)
  /\ hilos' = [hilos EXCEPT ![t].pc = "LEVANTAR", ![t].pendientes = PlatosDelPedido(t)]
  /\ UNCHANGED <<tablas, candados, consola, fallo>>

Visitado(t, d) == [hilos EXCEPT ![t].pendientes = @ \ {d}]

(* levantar_pagina_en_memoria.  Loading into a free frame takes no mutex;  *)
(* after a swap the thread locks the page, which is now in the list.       *)
Levantar(t) ==
  /\ En(t, "LEVANTAR")
  /\ \E d \in hilos[t].pendientes :
       LET p == <<hilos[t].pedido, d>>
           f == obtener_frame_libre(mem.bitmap_mp)
       IN  IF mem.paginas[p].presencia
           THEN /\ mem' = [mem EXCEPT !.paginas[p].uso = TRUE]
                /\ hilos' = Visitado(t, d)
                /\ UNCHANGED <<tablas, candados, consola, fallo>>
           ELSE IF f >= 0
           THEN /\ mem' = cargar_en_frame(mem, p, f)
                /\ hilos' = SinNodo(Visitado(t, d), p)
                /\ UNCHANGED <<tablas, candados, consola, fallo>>
           ELSE IF FalloDeSwap # "NO" THEN Fallar(t, FalloDeSwap)
           ELSE /\ Intercambiar(p)
                /\ hilos' = [Visitado(t, d) EXCEPT ![t].pc = "LOCKEAR_LEVANTADA",
                                                   ![t].espera = p]
                /\ UNCHANGED <<tablas, lock_swap, consola, fallo>>

LockearLevantada(t) ==
  LET p == hilos[t].espera
  IN  /\ En(t, "LOCKEAR_LEVANTADA")
      /\ lock_pagina[p] = Nadie
      /\ lock_pagina' = [lock_pagina EXCEPT ![p] = t]
      /\ hilos' = [hilos EXCEPT ![t].pc = "LEVANTAR", ![t].espera = NingunaPagina]
      /\ UNCHANGED <<tablas, mem, lock_swap, consola, fallo>>

(* Mutant: lock_swap and the list's mutexes are released before the pages  *)
(* that were raised are read.                                              *)
Levantadas_sin_candados(t) ==
  /\ En(t, "LEVANTAR")
  /\ hilos[t].pendientes = {}
  /\ lock_swap' = Nadie
  /\ lock_pagina' = [p \in Paginas |-> IF lock_pagina[p] = t THEN Nadie ELSE lock_pagina[p]]
  /\ hilos' = [hilos EXCEPT ![t].pendientes = PlatosDelPedido(t),
                ![t].pc = IF hilos[t].op = "OBTENER_PEDIDO" THEN "ENLISTAR" ELSE "SUMAR_LISTA"]
  /\ UNCHANGED <<tablas, mem, consola, fallo>>

(* The next iteration, once every dish was raised. *)
Levantadas(t) ==
  /\ En(t, "LEVANTAR")
  /\ hilos[t].pendientes = {}
  /\ hilos' = [hilos EXCEPT ![t].pendientes = PlatosDelPedido(t),
                ![t].pc = IF hilos[t].op = "OBTENER_PEDIDO" THEN "ENLISTAR" ELSE "SUMAR_LISTA"]
  /\ UNCHANGED <<tablas, mem, candados, consola, fallo>>

(* resetear_bit_de_lockeo on the whole order. *)
Desfijar(m, ped) == poner_bit_de_lockeo(m, PaginasDe(m, ped), FALSE)

(* enlistar_platos, one dish. *)
Enlistar(t) ==
  /\ En(t, "ENLISTAR")
  /\ \E d \in hilos[t].pendientes :
       LET p == <<hilos[t].pedido, d>>
       IN  IF mem.paginas[p].frame_mp = -1 THEN Fallar(t, "FUERA")
           ELSE /\ mem' = paginas_leidas(mem, {p})
                /\ hilos' = [Visitado(t, d) EXCEPT ![t].leido = @ \cup {<<d, ContenidoMP(mem, p)>>}]
                /\ UNCHANGED <<tablas, candados, consola, fallo>>

(* obtener_pedido releases lock_swap first and unlocks the pages after. *)
Enlistados(t) ==
  /\ En(t, "ENLISTAR")
  /\ hilos[t].pendientes = {}
  /\ mem' = Desfijar(mem, hilos[t].pedido)
  /\ lock_swap' = Nadie
  /\ Recorrer(t, "UNLOCKEAR")
  /\ UNCHANGED <<tablas, lock_pagina, consola, fallo>>

(* The state of the order is read for the answer without any lock. *)
LeerEstado(t) ==
  /\ En(t, "LEER_ESTADO")
  /\ respuestas' = [respuestas EXCEPT ![t] =
        Respuesta("OBTENER_PEDIDO", "OK", estado[hilos[t].pedido], hilos[t].leido)]
  /\ hilos' = [hilos EXCEPT ![t] = Parado(@.faltan)]
  /\ UNCHANGED <<tablas, mem, candados, hecho, fallo>>

(* sumar_cantidad_lista.  The list and lock_swap are held, but a page      *)
(* loaded into a free frame is in the list without its mutex.              *)
SumarLista(t) ==
  LET p == Pagina(t)
  IN  /\ En(t, "SUMAR_LISTA")
      /\ IF mem.paginas[p].frame_mp = -1 THEN Fallar(t, "FUERA")
         ELSE /\ mem' = sumar_cantidad_lista(mem, p)
              /\ hilos' = [hilos EXCEPT ![t].pc = "CONTAR", ![t].dato.valor = 0]
              /\ UNCHANGED <<tablas, candados, consola, fallo>>

Completo(contenido) == contenido.cantidad_lista = contenido.cantidad_total

(* plato_terminado, one dish; dato.valor is cantidad_platos_terminados. *)
Contar(t) ==
  /\ En(t, "CONTAR")
  /\ \E d \in hilos[t].pendientes :
       LET p == <<hilos[t].pedido, d>>
       IN  IF mem.paginas[p].frame_mp = -1 THEN Fallar(t, "FUERA")
           ELSE /\ mem' = paginas_leidas(mem, {p})
                /\ hilos' = [Visitado(t, d) EXCEPT ![t].dato.valor =
                       @ + IF Completo(ContenidoMP(mem, p)) THEN 1 ELSE 0]
                /\ UNCHANGED <<tablas, candados, consola, fallo>>

(* plato_listo unlocks the pages first. *)
Contados(t) ==
  /\ En(t, "CONTAR")
  /\ hilos[t].pendientes = {}
  /\ mem' = Desfijar(mem, hilos[t].pedido)
  /\ Recorrer(t, "UNLOCKEAR")
  /\ UNCHANGED <<tablas, candados, consola, fallo>>

(* Mutant: one complete dish is enough. *)
Marcar_con_uno(t) ==
  LET ped == hilos[t].pedido
  IN  /\ En(t, "MARCAR")
      /\ estado' = IF hilos[t].dato.valor > 0
                   THEN [estado EXCEPT ![ped] = "TERMINADO"] ELSE estado
      /\ hecho' = [hecho EXCEPT ![Pagina(t)].cantidad_lista = (@ + 1) % Modulo]
      /\ Responder(t, "OK")
      /\ UNCHANGED <<escenario, restaurantes, mem, candados, fallo>>

(* The count is compared, and the state written, with no lock held. *)
Marcar(t) ==
  LET ped == hilos[t].pedido
  IN  /\ En(t, "MARCAR")
      /\ estado' = IF hilos[t].dato.valor = Cardinality(tabla_de_platos(mem, ped))
                   THEN [estado EXCEPT ![ped] = "TERMINADO"] ELSE estado
      /\ hecho' = [hecho EXCEPT ![Pagina(t)].cantidad_lista = (@ + 1) % Modulo]
      /\ Responder(t, "OK")
      /\ UNCHANGED <<escenario, restaurantes, mem, candados, fallo>>

-----------------------------------------------------------------------------
(* finalizar_pedido: it looks the segment up again with lock_swap held, but*)
(* the mutex of no page, and frees everything.                             *)

SacarPedido(t) ==
  LET ped == hilos[t].pedido
  IN  /\ En(t, "SACAR_PEDIDO")
      /\ IF ped[1] \notin restaurantes \/ ~ EnTabla(ped) THEN Fallar(t, "NULO")
         ELSE /\ hilos' = [hilos EXCEPT ![t].pc = "LIBERAR",
                                        ![t].pendientes = PlatosDelPedido(t)]
              /\ UNCHANGED <<tablas, mem, candados, consola, fallo>>

(* liberar_pagina.  Who keeps the page points to freed memory from now on. *)
LiberarPagina(t) ==
  /\ En(t, "LIBERAR")
  /\ \E d \in hilos[t].pendientes :
       LET p == <<hilos[t].pedido, d>>
           sin == SinNodo(Visitado(t, d), p)
       IN  /\ mem' = liberar_pagina(mem, p)
           /\ lock_pagina' = [lock_pagina EXCEPT ![p] = Nadie]
           /\ hecho' = [hecho EXCEPT ![p] = [cantidad_total |-> 0, cantidad_lista |-> 0]]
           /\ hilos' = [u \in Hilos |->
                [sin[u] EXCEPT !.colgado = @ \/ (u \in Apuntando(p[1]) /\ Pagina(u) = p),
                               !.espera = IF @ = p THEN NingunaPagina ELSE @]]
  /\ UNCHANGED <<tablas, lock_swap, respuestas, fallo>>

(* The segment goes after its pages, the restaurant, and its table, with   *)
(* its last order.                                                         *)
Liberado(t) ==
  LET ped == hilos[t].pedido
      r   == ped[1]
      conPedidos == \E id \in Ids : EnTabla(<<r, id>>)
  IN  /\ En(t, "LIBERAR")
      /\ hilos[t].pendientes = {}
      /\ estado' = [estado EXCEPT ![ped] = "NULO"]
      /\ restaurantes' = IF conPedidos THEN restaurantes ELSE restaurantes \ {r}
      /\ lock_swap' = Nadie
      /\ hilos' = [u \in Hilos |->
           IF u = t THEN Parado(hilos[t].faltan)
           ELSE [hilos[u] EXCEPT !.colgado =
                   \/ @ \/ u \in Apuntando(ped)
                   \/ ~ conPedidos /\ u \in ConTabla(r) /\ ~ hilos[u].huerfana]]
      /\ respuestas' = [respuestas EXCEPT ![t] = Descripcion("FINALIZAR_PEDIDO", "OK")]
      /\ UNCHANGED <<escenario, mem, lock_pagina, hecho, fallo>>

-----------------------------------------------------------------------------
(* A thread that uses what was freed under it. *)
UsarLiberado(t) == fallo = "NO" /\ UsaLiberado(t) /\ Fallar(t, "LIBERADO")

Paso(t) ==
  \/ Pedir(t) \/ BuscarRestaurante(t) \/ BuscarPedido(t) \/ ProbarEstado(t)
  \/ CrearTabla(t) \/ TomarTabla(t) \/ AgregarPedido(t) \/ Confirmar(t)
  \/ TomarSwap(t) \/ Lockear(t) \/ LockearPagina(t) \/ Unlockear(t)
  \/ BuscarPlato(t) \/ ReservarMV(t) \/ AgregarPagina(t) \/ ReservarMP(t)
  \/ TomarPagina(t) \/ Cargar(t) \/ SoltarPagina(t) \/ SwapDePlato(t)
  \/ LeerTotal(t) \/ EscribirTotal(t) \/ Informar(t)
  \/ Fijar(t) \/ Levantar(t) \/ LockearLevantada(t) \/ Levantadas(t)
  \/ Enlistar(t) \/ Enlistados(t) \/ LeerEstado(t)
  \/ SumarLista(t) \/ Contar(t) \/ Contados(t) \/ Marcar(t)
  \/ SacarPedido(t) \/ LiberarPagina(t) \/ Liberado(t)
  \/ UsarLiberado(t)

(* Every console got its answers, or the model stops at a failure. *)
Reposo == \A t \in Hilos : hilos[t].pc = "LIBRE"

Terminar ==
  /\ fallo # "NO" \/ (Reposo /\ \A t \in Hilos : hilos[t].faltan = 0)
  /\ UNCHANGED vars

Next ==
  \/ \E t \in Hilos : Paso(t)
  \/ Terminar

Spec == Init /\ [][Next]_vars

(* The scheduler runs every thread that can go on; the mutexes make no     *)
(* promise on which of the threads that wait gets them.                    *)
FairSpec == Spec /\ \A t \in Hilos : WF_vars(Paso(t))

-----------------------------------------------------------------------------
Hizo(u, ops) == hilos[u].op \in ops \/ respuestas[u].op \in ops

(* Who calls swap. *)
Swapean == {"GUARDAR_PLATO", "OBTENER_PEDIDO", "PLATO_LISTO"}

(* The one read of guardar_plato that nothing protects: the page was       *)
(* evicted, by another thread, between the sum and the line for the log.   *)
FallaElRegistro(t) ==
  /\ fallo = "REGISTRO" /\ hilos[t].op = "GUARDAR_PLATO"
  /\ tiene_pagina(mem, Pagina(t)) /\ mem.paginas[Pagina(t)].frame_mp = -1
  /\ \E u \in Hilos \ {t} : Hizo(u, Swapean)

(* While nobody finishes an order nor adds a new dish to one that others   *)
(* raise, no thread does anything undefined (it follows no NULL, uses      *)
(* nothing freed, works on no frame of a page that has none, replaces no   *)
(* page or segment that somebody is using), that read for the log apart.   *)
SoloFallaElRegistro == fallo # "NO" => \E t \in Hilos : FallaElRegistro(t)

(* What a handler does between lock(&lock_swap) and unlock(&lock_swap). *)
ConSwap(t) ==
  \/ hilos[t].pc \in {"SACAR_PEDIDO", "LIBERAR", "RESERVAR_MP", "LOCKEAR",
                      "LOCKEAR_PAGINA", "SWAP", "FIJAR", "LEVANTAR",
                      "LOCKEAR_LEVANTADA", "ENLISTAR", "SUMAR_LISTA", "CONTAR"}
  \/ hilos[t].pc = "UNLOCKEAR" /\ hilos[t].op = "PLATO_LISTO"

(* lock_swap does what it is for, along every path of every handler: no    *)
(* two threads are between taking it and releasing it, and whoever holds   *)
(* it is there, so that no path leaves it taken behind.                    *)
ExclusionDeSwap ==
  /\ \A t, u \in Hilos : ConSwap(t) /\ ConSwap(u) => t = u
  /\ fallo = "NO" /\ lock_swap # Nadie => ConSwap(lock_swap)

(* The thread took a frame of swap, or of main memory, for a page that     *)
(* does not have it yet.                                                   *)
ReservaMV(t) == hilos[t].pc = "AGREGAR_PAGINA"
ReservaMP(t) == hilos[t].pc \in {"TOMAR_PAGINA", "CARGAR"} /\ hilos[t].camino = "NUEVO"

(* No frame ever serves two: whatever is loaded, evicted and freed while   *)
(* others have a frame reserved and hold no lock, a frame belongs to one   *)
(* page or to one thread that reserved it.  Two dishes in one frame would  *)
(* read and overwrite each other's quantities.                             *)
MarcosSinCompartir ==
  /\ \A p, q \in Paginas : p # q =>
       LET una == mem.paginas[p]
           otra == mem.paginas[q]
       IN  /\ una.frame_mv # -1 => una.frame_mv # otra.frame_mv
           /\ una.frame_mp # -1 => una.frame_mp # otra.frame_mp
  /\ \A t \in Hilos : \A p \in Paginas :
       /\ ReservaMV(t) => mem.paginas[p].frame_mv # hilos[t].dato.frame
       /\ ReservaMP(t) => mem.paginas[p].frame_mp # hilos[t].dato.frame
  /\ \A t, u \in Hilos :
       (ReservaMV(t) /\ ReservaMV(u)) \/ (ReservaMP(t) /\ ReservaMP(u)) =>
         t = u \/ hilos[t].dato.frame # hilos[u].dato.frame

(* Once everybody was answered the memory is as one console leaves it: no  *)
(* frame lost or shared, the list with each resident page once, the clean  *)
(* copies equal, and nothing pinned.                                       *)
MemoriaEnReposo ==
  Reposo => MemoriaBien(mem) /\ \A p \in Paginas : ~ mem.paginas[p].lockeo

(* No update is lost: once everybody was answered, each dish has exactly   *)
(* the quantities that the answers add up to.  sumar_cantidad_total and    *)
(* _lista read a quantity and write it back, and swap copies whole frames. *)
NadaPerdido ==
  Reposo => \A p \in Paginas : tiene_pagina(mem, p) => Valor(mem, p) = hecho[p]

(* No mutex is left locked by a thread that ended, which would stop the    *)
(* next one that needs it: the pages are unlocked by walking the list as   *)
(* it is then, not as it was when they were locked.                        *)
CandadosLibres ==
  Reposo => lock_swap = Nadie /\ \A p \in Paginas : lock_pagina[p] = Nadie

(* What obtener_pedido answers is one moment of the order: when it has     *)
(* listed the last dish, all of them still have the quantities it read.    *)
FotoCoherente ==
  [][\A t \in Hilos :
       hilos[t].pc = "ENLISTAR" /\ hilos'[t].pc = "UNLOCKEAR" =>
         hilos[t].leido = {<<d, Valor(mem, <<hilos[t].pedido, d>>)>> : d \in PlatosDelPedido(t)}]_vars

(* plato_listo writes TERMINADO with no lock held, from a count made       *)
(* before: it is never said of an order with something to prepare.         *)
TerminadoSinFaltantes ==
  \A ped \in Pedidos : estado[ped] = "TERMINADO" =>
    \A d \in tabla_de_platos(mem, ped) :
      LET v == Valor(mem, <<ped, d>>) IN v.cantidad_lista >= v.cantidad_total

(* Every request is answered, unless a failure stops the model first: the  *)
(* threads that hold mutexes never wait for each other.                    *)
TodasAtendidas ==
  \A t \in Hilos : hilos[t].pc # "LIBRE" ~> (hilos[t].pc = "LIBRE" \/ fallo # "NO")

-----------------------------------------------------------------------------
(* What may go wrong, and with whom in the server.                         *)

(* The only ways to something undefined, with a request of each console:   *)
(* raising an order while another thread adds a dish to it; the log's read *)
(* of a page that another thread's swap has just evicted; following what   *)
(* another thread's finalizar_pedido freed or removed, or failing to find  *)
(* a victim while a frame is reserved and not in the list yet, or after    *)
(* finalizar_pedido; creating what another thread is also creating.        *)
CausaDeFallo ==
  \A t \in Hilos : hilos[t].pc = "FALLO" => FallaElRegistro(t) \/
    \E u \in Hilos \ {t} :
      \/ /\ fallo = "FUERA"
         /\ hilos[t].op \in {"OBTENER_PEDIDO", "PLATO_LISTO"}
         /\ hilos[u].camino = "NUEVO"
         /\ hilos[u].pedido = hilos[t].pedido
      \/ fallo = "LIBERADO" /\ Hizo(u, {"FINALIZAR_PEDIDO"})
      \/ fallo = "NULO" /\ (Hizo(u, {"FINALIZAR_PEDIDO"}) \/ hilos[u].camino = "NUEVO")
      \/ /\ fallo = "REEMPLAZO"
         /\ hilos[t].op \in {"GUARDAR_PEDIDO", "GUARDAR_PLATO"}
         /\ Hizo(u, {hilos[t].op, "FINALIZAR_PEDIDO", "GUARDAR_PLATO"})

(* The thread waits for lock_swap, or for the mutex of a page.             *)
EsperaSwap(t) == hilos[t].pc = "TOMAR_SWAP" /\ lock_swap # Nadie

PaginaEsperada(t) ==
  IF hilos[t].pc = "TOMAR_PAGINA" THEN Pagina(t) ELSE hilos[t].espera

EsperaPagina(t) ==
  /\ hilos[t].pc \in {"LOCKEAR_PAGINA", "LOCKEAR_LEVANTADA", "TOMAR_PAGINA"}
  /\ PaginaEsperada(t) # NingunaPagina
  /\ lock_pagina[PaginaEsperada(t)] # Nadie

(* Nobody can go on: whoever has a request waits for a mutex. *)
Activos == {t \in Hilos : hilos[t].pc # "LIBRE"}

Bloqueo ==
  /\ fallo = "NO" /\ Activos # {}
  /\ \A t \in Activos : EsperaSwap(t) \/ EsperaPagina(t)

(* The only way to a deadlock is guardar_plato on an evicted dish: it      *)
(* keeps the page's mutex while it waits for lock_swap, whose owner waits  *)
(* for that mutex.  No lock is lost and no other order of locking bites,   *)
(* whatever two consoles ask for.                                          *)
CausaDeBloqueo ==
  Bloqueo => \E t, u \in Activos :
    /\ EsperaSwap(t) /\ hilos[t].camino = "DE_SWAP" /\ lock_swap = u
    /\ EsperaPagina(u) /\ lock_pagina[PaginaEsperada(u)] = t

Hicieron(op) == {t \in Hilos : respuestas[t] = Descripcion(op, "OK")}
Existentes(e) == {ped \in Pedidos : e[ped] # "NULO"}

(* What is left wrong without any failure, when two consoles ask for       *)
(* anything once: a quantity is lost only between two guardar_plato, the   *)
(* memory ends out of order (a page loaded twice) only with one, and an    *)
(* order that was answered OK is missing only between two guardar_pedido   *)
(* (one replaces the table of the restaurant that the other created).      *)
CausaDePerdida ==
  /\ Cardinality(Hicieron("GUARDAR_PLATO")) < 2 => NadaPerdido
  /\ Hicieron("GUARDAR_PLATO") = {} => MemoriaEnReposo
  /\ Reposo /\ Cardinality(Hicieron("GUARDAR_PEDIDO")) < 2 =>
       Cardinality(Existentes(estado)) =
         Cardinality(Existentes(Escenarios[escenario].estado))
           + Cardinality(Hicieron("GUARDAR_PEDIDO"))
           - Cardinality(Hicieron("FINALIZAR_PEDIDO"))

=============================================================================

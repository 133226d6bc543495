------------------------------- MODULE Comanda -------------------------------
(***************************************************************************)
(* The comanda server (comanda.c) serving one console: the handlers of the *)
(* six operations over the tables of restaurants and orders and the paged  *)
(* memory of module Memoria.                                               *)
(*                                                                         *)
(* The console (cliente.c) waits for the Descripcion of a request before   *)
(* it sends the next one, and a handler answers after its last update of   *)
(* shared state, so one handler is in progress at a time.  The iterations  *)
(* over tabla_de_platos are steps of their own, one per dish, in the order *)
(* the dictionary happens to give them.                                    *)
(***************************************************************************)
EXTENDS Memoria, Interfaz

CONSTANTS
  Cantidades,      \* the quantities the console asks for
  NingunPlato      \* in place of the dish in operations on a whole order

ASSUME CantidadesAssumption == Cantidades \subseteq Int
ASSUME NingunPlatoAssumption == NingunPlato \notin Platos

VARIABLES
  restaurantes,    \* keys of tablas_de_restaurantes
  estado,          \* Segmento_Pedido.estado of every order, "NULO" if none
  mem,             \* the paged memory
  hilo,            \* the request being served
  respuesta,       \* the answer the console has not read yet
  caido            \* the process died

vars == <<restaurantes, estado, mem, hilo, respuesta, caido>>

(* A handler that iterates over the dishes of its order.  pendientes are   *)
(* the dishes not visited yet.                                             *)
Tareas == [op         : {"GUARDAR_PLATO", "OBTENER_PEDIDO", "PLATO_LISTO",
                         "FINALIZAR_PEDIDO"},
           pedido     : Pedidos,
           plato      : Platos \cup {NingunPlato},
           pendientes : SUBSET Platos]

Reposo == [op |-> "NINGUNA"]

Tarea(op, ped, d, S) == [op |-> op, pedido |-> ped, plato |-> d, pendientes |-> S]

Init ==
  /\ restaurantes = {}
  /\ estado = [ped \in Pedidos |-> "NULO"]
  /\ mem = inicializar_memoria
  /\ hilo = Reposo
  /\ respuesta = SinRespuesta
  /\ caido = FALSE

-----------------------------------------------------------------------------
Libre == hilo = Reposo /\ respuesta = SinRespuesta /\ ~ caido

En(op) == hilo # Reposo /\ hilo.op = op /\ ~ caido

Responder(op, resultado) == respuesta' = Descripcion(op, resultado)

(* existe_restaurante_en_memoria and existe_pedido_de_restaurante, the two *)
(* lookups every operation on an existing order starts with.               *)
Busqueda(ped) ==
  IF ped[1] \notin restaurantes THEN "SIN_RESTAURANTE"
  ELSE IF estado[ped] = "NULO" THEN "SIN_PEDIDO" ELSE "OK"

(* A request that only gets an answer. *)
Rechazar(op, motivo) ==
  /\ motivo # "OK"
  /\ Responder(op, motivo)
  /\ UNCHANGED <<restaurantes, estado, mem, hilo, caido>>

-----------------------------------------------------------------------------
(* guardar_pedido                                                          *)

CrearTablaDePedidos(ped) ==
  /\ Libre
  /\ ped[1] \notin restaurantes
  /\ restaurantes' = restaurantes \cup {ped[1]}
  /\ estado' = [estado EXCEPT ![ped] = "PENDIENTE"]
  /\ Responder("GUARDAR_PEDIDO", "OK")
  /\ UNCHANGED <<mem, hilo, caido>>

AgregarPedido(ped) ==
  /\ Libre
  /\ ped[1] \in restaurantes
  /\ estado[ped] = "NULO"
  /\ estado' = [estado EXCEPT ![ped] = "PENDIENTE"]
  /\ Responder("GUARDAR_PEDIDO", "OK")
  /\ UNCHANGED <<restaurantes, mem, hilo, caido>>

PedidoRepetido(ped) ==
  /\ Libre
  /\ Busqueda(ped) = "OK"
  /\ Rechazar("GUARDAR_PEDIDO", "PEDIDO_REPETIDO")

GuardarPedido(ped) ==
  CrearTablaDePedidos(ped) \/ AgregarPedido(ped) \/ PedidoRepetido(ped)

-----------------------------------------------------------------------------
(* guardar_plato                                                           *)

(* Mutant: dishes are taken whatever the state of the order. *)
MotivoPlato_sin_estado(ped) == Busqueda(ped)

MotivoPlato(ped) ==
  IF Busqueda(ped) # "OK" THEN Busqueda(ped)
  ELSE IF estado[ped] # "PENDIENTE" THEN "ESTADO_INVALIDO" ELSE "OK"

GuardarPlatoRechazado(ped) ==
  /\ Libre
  /\ Rechazar("GUARDAR_PLATO", MotivoPlato(ped))

PlatoGuardado(m) ==
  /\ mem' = m
  /\ Responder("GUARDAR_PLATO", "OK")
  /\ UNCHANGED <<restaurantes, estado, hilo, caido>>

(* The process dies serving hilo'. *)
Morir(tarea) ==
  /\ hilo' = tarea
  /\ caido' = TRUE
  /\ UNCHANGED <<restaurantes, estado, mem, respuesta>>

(* The dish is known and its page is in main memory. *)
SumarEnMP(ped, d, cantidad) ==
  LET p == <<ped, d>>
  IN  /\ Libre
      /\ MotivoPlato(ped) = "OK"
      /\ mem.paginas[p].presencia
      /\ PlatoGuardado(sumar_cantidad_total(mem, p, cantidad))

(* The dish is known and its page was evicted: it is swapped in whether or *)
(* not there is a free frame.                                              *)
SumarConSwap(ped, d, cantidad) ==
  LET p == <<ped, d>>
  IN  /\ Libre
      /\ MotivoPlato(ped) = "OK"
      /\ tiene_pagina(mem, p)
      /\ ~ mem.paginas[p].presencia
      /\ IF HayVictima(mem)
         THEN PlatoGuardado(sumar_cantidad_total(swap(mem, p), p, cantidad))
         ELSE Morir(Tarea("GUARDAR_PLATO", ped, d, {d}))

(* The dish is new. *)
PlatoNuevo(ped, d, cantidad) ==
  LET p     == <<ped, d>>
      f     == obtener_frame_libre(mem.bitmap_mv)
      nueva == agregar_nueva_plato_a_pedido(mem, p, cantidad, f)
  IN  /\ Libre
      /\ MotivoPlato(ped) = "OK"
      /\ ~ tiene_pagina(mem, p)
      /\ IF f < 0
         THEN Rechazar("GUARDAR_PLATO", "SIN_ESPACIO")
         ELSE IF PuedeUbicar(nueva)
              THEN PlatoGuardado(ubicar_en_mp(nueva, p))
              ELSE Morir(Tarea("GUARDAR_PLATO", ped, d, {d}))

GuardarPlato(ped, d, cantidad) ==
  \/ GuardarPlatoRechazado(ped)
  \/ SumarEnMP(ped, d, cantidad)
  \/ SumarConSwap(ped, d, cantidad)
  \/ PlatoNuevo(ped, d, cantidad)

-----------------------------------------------------------------------------
(* obtener_pedido and plato_listo: pin the pages of the order, bring them  *)
(* all to main memory, work on them, unpin them.                           *)

FijarPedido(op, ped, d) ==
  /\ mem' = poner_bit_de_lockeo(mem, PaginasDe(mem, ped), TRUE)
  /\ hilo' = Tarea(op, ped, d, tabla_de_platos(mem, ped))
  /\ UNCHANGED <<restaurantes, estado, respuesta, caido>>

(* Mutant: the pages stay pinned. *)
SoltarPedido_fijado(m, ped) == paginas_leidas(m, PaginasDe(m, ped))

(* The end of both: every page of the order was read, and is unpinned. *)
SoltarPedido(m, ped) ==
  poner_bit_de_lockeo(paginas_leidas(m, PaginasDe(m, ped)), PaginasDe(m, ped), FALSE)

Levantando == (En("OBTENER_PEDIDO") \/ En("PLATO_LISTO"))

LevantarPagina ==
  /\ Levantando
  /\ \E d \in hilo.pendientes :
       LET p == <<hilo.pedido, d>>
       IN  IF PuedeLevantar(mem, p)
           THEN /\ mem' = levantar_pagina_en_memoria(mem, p)
                /\ hilo' = [hilo EXCEPT !.pendientes = @ \ {d}]
                /\ UNCHANGED <<restaurantes, estado, respuesta, caido>>
           ELSE Morir(hilo)

ObtenerPedido(ped) ==
  /\ Libre
  /\ \/ Rechazar("OBTENER_PEDIDO", Busqueda(ped))
     \/ Busqueda(ped) = "OK" /\ FijarPedido("OBTENER_PEDIDO", ped, NingunPlato)

(* enlistar_platos, then the state is read for the answer. *)
lista_de_platos(m, ped) ==
  {<<d, ContenidoMP(m, <<ped, d>>)>> : d \in tabla_de_platos(m, ped)}

TerminarObtener ==
  /\ En("OBTENER_PEDIDO")
  /\ hilo.pendientes = {}
  /\ respuesta' = Respuesta("OBTENER_PEDIDO", "OK", estado[hilo.pedido],
                            lista_de_platos(mem, hilo.pedido))
  /\ mem' = SoltarPedido(mem, hilo.pedido)
  /\ hilo' = Reposo
  /\ UNCHANGED <<restaurantes, estado, caido>>

MotivoListo(ped, d) ==
  IF Busqueda(ped) # "OK" THEN Busqueda(ped)
  ELSE IF ~ tiene_pagina(mem, <<ped, d>>) THEN "SIN_PLATO"
  ELSE IF estado[ped] # "CONFIRMADO" THEN "ESTADO_INVALIDO" ELSE "OK"

PlatoListo(ped, d) ==
  /\ Libre
  /\ \/ Rechazar("PLATO_LISTO", MotivoListo(ped, d))
     \/ MotivoListo(ped, d) = "OK" /\ FijarPedido("PLATO_LISTO", ped, d)

Completo(contenido) == contenido.cantidad_lista = contenido.cantidad_total

(* Mutant: a dish with more ready than asked for counts as complete. *)
platos_terminados_de_sobra(m, ped) ==
  {d \in tabla_de_platos(m, ped) :
     ContenidoMP(m, <<ped, d>>).cantidad_lista >= ContenidoMP(m, <<ped, d>>).cantidad_total}

platos_terminados(m, ped) ==
  {d \in tabla_de_platos(m, ped) : Completo(ContenidoMP(m, <<ped, d>>))}

TerminarPlatoListo ==
  LET ped   == hilo.pedido
      sumada == sumar_cantidad_lista(mem, <<ped, hilo.plato>>)
  IN  /\ En("PLATO_LISTO")
      /\ hilo.pendientes = {}
      /\ mem' = SoltarPedido(sumada, ped)
      /\ estado' = IF platos_terminados(sumada, ped) = tabla_de_platos(sumada, ped)
                   THEN [estado EXCEPT ![ped] = "TERMINADO"] ELSE estado
      /\ Responder("PLATO_LISTO", "OK")
      /\ hilo' = Reposo
      /\ UNCHANGED <<restaurantes, caido>>

-----------------------------------------------------------------------------
(* confirmar_pedido                                                        *)

MotivoConfirmar(ped) ==
  IF Busqueda(ped) = "OK" /\ estado[ped] # "PENDIENTE" THEN "ESTADO_INVALIDO"
  ELSE Busqueda(ped)

ConfirmarPedido(ped) ==
  /\ Libre
  /\ \/ Rechazar("CONFIRMAR_PEDIDO", MotivoConfirmar(ped))
     \/ /\ MotivoConfirmar(ped) = "OK"
        /\ estado' = [estado EXCEPT ![ped] = "CONFIRMADO"]
        /\ Responder("CONFIRMAR_PEDIDO", "OK")
        /\ UNCHANGED <<restaurantes, mem, hilo, caido>>

-----------------------------------------------------------------------------
(* finalizar_pedido: the segment leaves the table first, its pages are     *)
(* freed one by one, and the restaurant goes with its last order.          *)

FinalizarPedido(ped) ==
  /\ Libre
  /\ \/ Rechazar("FINALIZAR_PEDIDO", Busqueda(ped))
     \/ /\ Busqueda(ped) = "OK"
        /\ estado' = [estado EXCEPT ![ped] = "NULO"]
        /\ hilo' = Tarea("FINALIZAR_PEDIDO", ped, NingunPlato,
                         tabla_de_platos(mem, ped))
        /\ UNCHANGED <<restaurantes, mem, respuesta, caido>>

LiberarPagina ==
  /\ En("FINALIZAR_PEDIDO")
  /\ \E d \in hilo.pendientes :
       /\ mem' = liberar_pagina(mem, <<hilo.pedido, d>>)
       /\ hilo' = [hilo EXCEPT !.pendientes = @ \ {d}]
  /\ UNCHANGED <<restaurantes, estado, respuesta, caido>>

(* Mutant: the other orders of the restaurant are not looked at. *)
pedidos_de_restaurante_ninguno(r) == {}

pedidos_de_restaurante(r) == {id \in Ids : estado[<<r, id>>] # "NULO"}

TerminarFinalizar ==
  /\ En("FINALIZAR_PEDIDO")
  /\ hilo.pendientes = {}
  /\ restaurantes' = IF pedidos_de_restaurante(hilo.pedido[1]) = {}
                     THEN restaurantes \ {hilo.pedido[1]} ELSE restaurantes
  /\ Responder("FINALIZAR_PEDIDO", "OK")
  /\ hilo' = Reposo
  /\ UNCHANGED <<estado, mem, caido>>

-----------------------------------------------------------------------------
(* The console reads the answer. *)
Recibir ==
  /\ respuesta # SinRespuesta
  /\ respuesta' = SinRespuesta
  /\ UNCHANGED <<restaurantes, estado, mem, hilo, caido>>

(* A request of the console. *)
Solicitud ==
  \E ped \in Pedidos :
    \/ GuardarPedido(ped)
    \/ ObtenerPedido(ped)
    \/ ConfirmarPedido(ped)
    \/ FinalizarPedido(ped)
    \/ \E d \in Platos : \/ PlatoListo(ped, d)
                         \/ \E c \in Cantidades : GuardarPlato(ped, d, c)

(* The rest of a handler. *)
Continuar ==
  \/ LevantarPagina
  \/ TerminarObtener
  \/ TerminarPlatoListo
  \/ LiberarPagina
  \/ TerminarFinalizar

Next == Solicitud \/ Continuar \/ Recibir

Spec == Init /\ [][Next]_vars

-----------------------------------------------------------------------------
(* Type invariant.                                                         *)
TypeOK ==
  /\ restaurantes \subseteq Restaurantes
  /\ estado \in [Pedidos -> Estados]
  /\ mem \in Memorias
  /\ hilo \in Tareas \cup {Reposo}
  /\ respuesta.op \in Operaciones \cup {"NINGUNA"}
  /\ respuesta.resultado \in Resultados
  /\ caido \in BOOLEAN

-----------------------------------------------------------------------------
(* Safety invariants.                                                      *)

(* Frames are neither lost nor shared: the swap bitmap marks exactly the   *)
(* frames of the pages that exist, the main memory bitmap exactly those of *)
(* the resident ones, and no two pages have the same frame.  It relates    *)
(* obtener_frame_libre, swap and liberar_pagina, which update the bitmaps  *)
(* and the pages apart.                                                    *)
FramesOK == FramesBien(mem)

(* The list victims are taken from holds the resident pages, each once: a  *)
(* page that missed it could never be evicted, one left in it after being  *)
(* evicted or freed would be dereferenced.                                 *)
ListaOK == ListaBien(mem)

(* The hand never leaves the frames, so whenever main memory is full it    *)
(* points at a page of the list: the stale hand that finalizar_pedido      *)
(* leaves behind bites only while there are free frames.                   *)
PunteroOK ==
  (\A f \in FramesMP : mem.bitmap_mp[f]) => mem.puntero < Len(mem.lista)

(* Evicting a resident page whose modification bit is off loses nothing:   *)
(* its swap copy is the same.                                              *)
CopiaLimpia == CopiasBien(mem)

(* While an order is being raised its pages are pinned and the ones already*)
(* visited stay in main memory, so that the frame numbers the handler goes *)
(* on to read are valid; outside that, nothing is pinned.                  *)
FijadasOK ==
  LET ped == hilo.pedido
      levantando == hilo # Reposo /\ hilo.op \in {"OBTENER_PEDIDO", "PLATO_LISTO"}
  IN  /\ {p \in Paginas : mem.paginas[p].lockeo}
           = IF levantando THEN PaginasDe(mem, ped) ELSE {}
      /\ levantando => \A d \in tabla_de_platos(mem, ped) \ hilo.pendientes :
                         mem.paginas[<<ped, d>>].presencia

(* Pages exist only for orders in a table, except those that finalizar_    *)
(* pedido has still to free, and a restaurant is in the table exactly      *)
(* while it has an order or its last one is being finalised.               *)
TablasOK ==
  LET liberando == hilo # Reposo /\ hilo.op = "FINALIZAR_PEDIDO"
  IN  /\ \A ped \in Pedidos : estado[ped] = "NULO" =>
           tabla_de_platos(mem, ped)
             = IF liberando /\ hilo.pedido = ped THEN hilo.pendientes ELSE {}
      /\ restaurantes = {ped[1] : ped \in {q \in Pedidos : estado[q] # "NULO"}}
                        \cup IF liberando THEN {hilo.pedido[1]} ELSE {}

(* TERMINADO is only reached, and kept, by an order with dishes that are   *)
(* all complete, wherever their pages are.                                 *)
TerminadoCompleto ==
  \A ped \in Pedidos : estado[ped] = "TERMINADO" =>
    /\ tabla_de_platos(mem, ped) # {}
    /\ \A d \in tabla_de_platos(mem, ped) : Completo(Valor(mem, <<ped, d>>))

(* The server dies in two ways only: raising an order that has more dishes *)
(* than main memory has frames, or adding to an evicted dish when          *)
(* finalizar_pedido left free frames, which that path does not look for.   *)
CausaDeCaida ==
  caido =>
    \/ /\ hilo.op \in {"OBTENER_PEDIDO", "PLATO_LISTO"}
       /\ Cardinality(tabla_de_platos(mem, hilo.pedido)) > CantFramesMP
    \/ /\ hilo.op = "GUARDAR_PLATO"
       /\ tiene_pagina(mem, <<hilo.pedido, hilo.plato>>)
       /\ obtener_frame_libre(mem.bitmap_mp) >= 0

-----------------------------------------------------------------------------
(* Refinement: seen through Valor, the paged memory is a plain store.      *)

Promesa == INSTANCE Pedidos WITH
  platos <- [ped \in Pedidos |->
               IF estado[ped] = "NULO" THEN [d \in {} |-> 0]
               ELSE [d \in tabla_de_platos(mem, ped) |-> Valor(mem, <<ped, d>>)]],
  respuesta <- IF hilo # Reposo /\ hilo.op = "FINALIZAR_PEDIDO"
               THEN Descripcion("FINALIZAR_PEDIDO", "OK") ELSE respuesta

(* Every answer is the one an atomic store of orders would give: no        *)
(* quantity is lost, duplicated or taken from another dish by evictions,   *)
(* loads and reuse of frames, and "SIN_ESPACIO" is said exactly when the   *)
(* swap space is full.                                                     *)
CumplePromesa == Promesa!Spec

(* What the console relies on, seen in the server itself.                  *)
ConfirmadoCerrado == Promesa!ConfirmadoCerrado

=============================================================================

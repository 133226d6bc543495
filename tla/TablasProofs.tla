---------------------------- MODULE TablasProofs -----------------------------
(***************************************************************************)
(* What each step of the comanda server does to the contents of its        *)
(* memory, that the pages follow the tables of orders and restaurants, and *)
(* that the server dies for the two known causes only, for every number of *)
(* restaurants, orders, dishes and frames.                                 *)
(***************************************************************************)
EXTENDS ComandaProofs

-----------------------------------------------------------------------------
(* What each step does to the contents of the memory.                      *)

Pagina(ped, d) == <<ped, d>>

Sumado(c, cantidad) == [c EXCEPT !.cantidad_total = (@ + cantidad) % Modulo]
Contado(c) == [c EXCEPT !.cantidad_lista = (@ + 1) % Modulo]
Nuevo(cantidad) == [cantidad_total |-> cantidad % Modulo, cantidad_lista |-> 0]

SwapCompleto == Cardinality(PaginasUsadas(mem)) >= CantFramesMV

(* The four outcomes of guardar_plato. *)
SinGuardar(ped, d) ==
  \/ Rechazar("GUARDAR_PLATO", MotivoPlato(ped))
  \/ /\ MotivoPlato(ped) = "OK"
     /\ ~ tiene_pagina(mem, Pagina(ped, d)) /\ SwapCompleto
     /\ Rechazar("GUARDAR_PLATO", "SIN_ESPACIO")

Aumentado(ped, d, cantidad) ==
  LET p == Pagina(ped, d)
  IN  /\ MotivoPlato(ped) = "OK"
      /\ tiene_pagina(mem, p)
      /\ PlatoGuardado(mem')
      /\ ContenidoCon(mem, mem', p, Sumado(Valor(mem, p), cantidad))

Agregado(ped, d, cantidad) ==
  LET p == Pagina(ped, d)
  IN  /\ MotivoPlato(ped) = "OK"
      /\ ~ tiene_pagina(mem, p) /\ ~ SwapCompleto
      /\ PlatoGuardado(mem')
      /\ ContenidoCon(mem, mem', p, Nuevo(cantidad))

MuertoGuardando(ped, d) ==
  /\ Morir(Tarea("GUARDAR_PLATO", ped, d, {d}))
  /\ tiene_pagina(mem, Pagina(ped, d))
  /\ obtener_frame_libre(mem.bitmap_mp) >= 0

EfectoGuardar(ped, d, cantidad) ==
  /\ Libre
  /\ \/ SinGuardar(ped, d)
     \/ Aumentado(ped, d, cantidad)
     \/ Agregado(ped, d, cantidad)
     \/ MuertoGuardando(ped, d)

(* guardar_plato has one of the four outcomes: the quantity lands in its   *)
(* dish and nowhere else, also when the page is swapped in first, and a    *)
(* dish is refused for lack of space exactly when swap is full.            *)
LEMMA GuardarPlatoEfecto ==
  ASSUME IInv, NEW ped \in Pedidos, NEW d \in Platos, NEW c \in Cantidades,
         GuardarPlato(ped, d, c)
  PROVE  EfectoGuardar(ped, d, c)
<1> DEFINE p == Pagina(ped, d)
<1>1. p \in Paginas /\ c \in Int /\ MemoriaBien(mem)
  BY PaginaDePar, CantidadesAssumption DEF IInv, Pagina
<1>2. p = <<ped, d>>
  BY DEF Pagina
<1> HIDE DEF p
<1>3. CASE GuardarPlatoRechazado(ped)
  BY <1>3 DEF GuardarPlatoRechazado, EfectoGuardar, SinGuardar
<1>4. CASE SumarEnMP(ped, d, c)
  <2>1. /\ Libre /\ MotivoPlato(ped) = "OK" /\ mem.paginas[p].presencia
        /\ PlatoGuardado(sumar_cantidad_total(mem, p, c))
    BY <1>4, <1>2 DEF SumarEnMP
  <2>2. mem' = sumar_cantidad_total(mem, p, c) /\ PlatoGuardado(mem')
    BY <2>1 DEF PlatoGuardado
  <2>3. tiene_pagina(mem, p)
    BY <1>1, <2>1 DEF MemoriaBien, FramesBien, tiene_pagina
  <2>4. ContenidoCon(mem, mem', p, Sumado(Valor(mem, p), c))
    BY <1>1, <2>1, <2>2, SumarTotalContenido DEF Sumado
  <2> QED BY <2>1, <2>2, <2>3, <2>4 DEF EfectoGuardar, Aumentado, p
<1>5. CASE SumarConSwap(ped, d, c)
  <2>1. /\ Libre /\ MotivoPlato(ped) = "OK"
        /\ tiene_pagina(mem, p) /\ ~ mem.paginas[p].presencia
    BY <1>5, <1>2 DEF SumarConSwap
  <2>2. CASE HayVictima(mem)
    <3> DEFINE n == swap(mem, p)
    <3>1. PlatoGuardado(sumar_cantidad_total(n, p, c))
      BY <1>5, <1>2, <2>2 DEF SumarConSwap
    <3>2. MemoriaBien(n) /\ Conserva(mem, n) /\ n.paginas[p].presencia
      BY <1>1, <2>1, <2>2, SwapBien
    <3> HIDE DEF n
    <3>3. mem' = sumar_cantidad_total(n, p, c) /\ PlatoGuardado(mem')
      BY <3>1 DEF PlatoGuardado
    <3>4. ContenidoCon(n, mem', p, Sumado(Valor(n, p), c))
      BY <1>1, <3>2, <3>3, SumarTotalContenido DEF Sumado
    <3>5. MismoContenido(mem, n) /\ Valor(n, p) = Valor(mem, p)
      BY <1>1, <2>1, <3>2, ConservaContenido DEF MismoContenido
    <3>6. ContenidoCon(mem, mem', p, Sumado(Valor(mem, p), c))
      BY <1>1, <3>4, <3>5, ContenidoTrasMover
    <3> QED BY <2>1, <3>3, <3>6 DEF EfectoGuardar, Aumentado, p
  <2>3. CASE ~ HayVictima(mem)
    <3>1. Morir(Tarea("GUARDAR_PLATO", ped, d, {d}))
      BY <1>5, <1>2, <2>3 DEF SumarConSwap
    <3>2. \A q \in Paginas : ~ mem.paginas[q].lockeo
      BY <2>1, NadaFijado DEF Libre
    <3>3. obtener_frame_libre(mem.bitmap_mp) >= 0
      BY <1>1, <2>3, <3>2, SinFijarSePuede
    <3> QED BY <2>1, <3>1, <3>3 DEF EfectoGuardar, MuertoGuardando, p
  <2> QED BY <2>2, <2>3
<1>6. CASE PlatoNuevo(ped, d, c)
  <2> DEFINE f == obtener_frame_libre(mem.bitmap_mv)
             n == agregar_nueva_plato_a_pedido(mem, p, c, f)
  <2>1. /\ Libre /\ MotivoPlato(ped) = "OK" /\ ~ tiene_pagina(mem, p)
        /\ IF f < 0
           THEN Rechazar("GUARDAR_PLATO", "SIN_ESPACIO")
           ELSE PuedeUbicar(n) => PlatoGuardado(ubicar_en_mp(n, p))
    BY <1>6, <1>2 DEF PlatoNuevo
  <2>2. (f < 0 <=> SwapCompleto) /\ (~ (f < 0) => f \in FramesMV /\ ~ mem.bitmap_mv[f])
    BY <1>1, SwapLleno DEF SwapCompleto
  <2> HIDE DEF f
  <2>3. CASE f < 0
    BY <2>1, <2>2, <2>3 DEF EfectoGuardar, SinGuardar, p
  <2>4. CASE ~ (f < 0)
    <3>1. f \in FramesMV /\ ~ mem.bitmap_mv[f] /\ ~ SwapCompleto
      BY <2>2, <2>4
    <3>2. /\ MemoriaBien(n) /\ n.paginas[p].frame_mv = f
          /\ ~ n.paginas[p].presencia /\ ~ n.paginas[p].lockeo
          /\ \A q \in Paginas : q # p => n.paginas[q] = mem.paginas[q]
      BY <1>1, <2>1, <3>1, NuevaBien
    <3>3. ContenidoCon(mem, n, p, Nuevo(c))
      BY <1>1, <2>1, <3>1, NuevaContenido DEF Nuevo
    <3>4. (PuedeUbicar(n) => PlatoGuardado(ubicar_en_mp(n, p)))
      BY <2>1, <2>4
    <3> HIDE DEF n
    <3>5. tiene_pagina(n, p)
      BY <3>3 DEF ContenidoCon
    <3>6. \A q \in Paginas : ~ n.paginas[q].lockeo
      BY <2>1, <3>2, NadaFijado DEF Libre
    <3>7. PuedeUbicar(n)
      BY <3>2, <3>6, SinFijarSePuede
    <3>8. mem' = ubicar_en_mp(n, p) /\ PlatoGuardado(mem')
      BY <3>4, <3>7 DEF PlatoGuardado
    <3>9. MismoContenido(n, mem')
      BY <1>1, <3>2, <3>5, <3>7, <3>8, UbicarBien, ConservaContenido
    <3>10. ContenidoCon(mem, mem', p, Nuevo(c))
      BY <1>1, <3>3, <3>9, ContenidoTrasMover
    <3> QED BY <2>1, <3>1, <3>8, <3>10 DEF EfectoGuardar, Agregado, p
  <2> QED BY <2>3, <2>4
<1> QED BY <1>3, <1>4, <1>5, <1>6 DEF GuardarPlato

(* A page that is being raised finds neither a free frame nor a victim     *)
(* only if the pages of its own order fill main memory.                    *)
LEMMA NoEntra ==
  ASSUME IInv, Levanta, ~ caido, NEW d \in hilo.pendientes,
         ~ PuedeLevantar(mem, <<hilo.pedido, d>>)
  PROVE  Cardinality(tabla_de_platos(mem, hilo.pedido)) > CantFramesMP
<1>1. MemoriaBien(mem) /\ hilo.pedido \in Pedidos /\ d \in Platos
  BY HiloEnCurso DEF IInv, Levanta
<1>2. tiene_pagina(mem, <<hilo.pedido, d>>)
  BY DEF IInv, Levanta, PendientesOK
<1>3. \A q \in Paginas : mem.paginas[q].lockeo => q[1] = hilo.pedido /\ tiene_pagina(mem, q)
  BY DEF IInv, Fijadas
<1> QED BY <1>1, <1>2, <1>3, SinLugar

-----------------------------------------------------------------------------
(* The steps of the handlers that iterate.                                 *)

(* Pinning an order changes no quantity. *)
LEMMA FijarEfecto ==
  ASSUME IInv, NEW op, NEW ped, NEW d, FijarPedido(op, ped, d)
  PROVE  MismoContenido(mem, mem')
BY LockeoContenido DEF IInv, FijarPedido

(* The two outcomes of a step of the raise. *)
LevantadaUna ==
  /\ MismoContenido(mem, mem')
  /\ \E d \in hilo.pendientes : hilo' = [hilo EXCEPT !.pendientes = @ \ {d}]
  /\ UNCHANGED <<restaurantes, estado, respuesta, caido>>

MuertoLevantando ==
  /\ Morir(hilo)
  /\ Cardinality(tabla_de_platos(mem, hilo.pedido)) > CantFramesMP

(* A step of the raise moves a page without changing a quantity, or dies   *)
(* because the order does not fit in main memory.                          *)
LEMMA LevantarEfecto ==
  ASSUME IInv, LevantarPagina
  PROVE  Levanta /\ ~ caido /\ (LevantadaUna \/ MuertoLevantando)
<1>1. Levanta /\ ~ caido /\ MemoriaBien(mem) /\ hilo.pedido \in Pedidos
  <2>1. Levanta /\ ~ caido
    BY DEF LevantarPagina, Levantando, En, EnCurso, Levanta
  <2> QED BY <2>1, HiloEnCurso DEF IInv, Levanta
<1>2. PICK d \in hilo.pendientes :
        IF PuedeLevantar(mem, <<hilo.pedido, d>>)
        THEN /\ mem' = levantar_pagina_en_memoria(mem, <<hilo.pedido, d>>)
             /\ hilo' = [hilo EXCEPT !.pendientes = @ \ {d}]
             /\ UNCHANGED <<restaurantes, estado, respuesta, caido>>
        ELSE Morir(hilo)
  BY DEF LevantarPagina
<1> DEFINE p == <<hilo.pedido, d>>
<1>3. CASE PuedeLevantar(mem, p)
  <2>1. p \in Paginas /\ tiene_pagina(mem, p)
    <3>1. d \in Platos
      BY <1>1, HiloEnCurso DEF IInv, Levanta
    <3> QED BY <1>1, <3>1, PaginaDePar DEF IInv, PendientesOK, Levanta
  <2>2. mem' = levantar_pagina_en_memoria(mem, p)
    BY <1>2, <1>3
  <2> HIDE DEF p
  <2>3. MismoContenido(mem, mem')
    BY <1>1, <1>3, <2>1, <2>2, LevantarBien, ConservaContenido
  <2> QED BY <1>1, <1>2, <1>3, <2>3 DEF LevantadaUna, p
<1>4. CASE ~ PuedeLevantar(mem, p)
  BY <1>1, <1>2, <1>4, NoEntra DEF MuertoLevantando
<1> QED BY <1>3, <1>4

(* The outcome of freeing a page. *)
LiberadaUna ==
  \E d \in hilo.pendientes :
    /\ d \in Platos
    /\ ContenidoSin(mem, mem', <<hilo.pedido, d>>)
    /\ hilo' = [hilo EXCEPT !.pendientes = @ \ {d}]

(* Freeing a page takes its dish out of the order being finalised. *)
LEMMA LiberarEfecto ==
  ASSUME IInv, LiberarPagina
  PROVE  LiberadaUna
<1>1. /\ EnCurso /\ ~ caido /\ MemoriaBien(mem) /\ hilo.pedido \in Pedidos
      /\ hilo.pendientes \in SUBSET Platos
  <2>1. EnCurso /\ ~ caido
    BY DEF LiberarPagina, En, EnCurso
  <2> QED BY <2>1, HiloEnCurso DEF IInv
<1>2. PICK d \in hilo.pendientes :
        /\ mem' = liberar_pagina(mem, <<hilo.pedido, d>>)
        /\ hilo' = [hilo EXCEPT !.pendientes = @ \ {d}]
  BY DEF LiberarPagina
<1>3. <<hilo.pedido, d>> \in Paginas /\ tiene_pagina(mem, <<hilo.pedido, d>>)
  BY <1>1, PaginaDePar DEF IInv, PendientesOK
<1>4. ContenidoSin(mem, mem', <<hilo.pedido, d>>)
  BY <1>1, <1>2, <1>3, LiberarContenido
<1> QED BY <1>1, <1>2, <1>4 DEF LiberadaUna

(* Unpinning an order changes no quantity. *)
LEMMA SoltarContenido ==
  ASSUME NEW m, MemoriaBien(m), NEW ped
  PROVE  MismoContenido(m, SoltarPedido(m, ped))
<1> DEFINE S == PaginasDe(m, ped)
           n == paginas_leidas(m, S)
<1>1. MemoriaBien(n) /\ MismoContenido(m, n)
  <2> HIDE DEF S
  <2> QED BY LeidasBien, LeidasContenido
<1>2. SoltarPedido(m, ped) = poner_bit_de_lockeo(n, S, FALSE)
  BY DEF SoltarPedido
<1> HIDE DEF n, S
<1>3. MismoContenido(n, poner_bit_de_lockeo(n, S, FALSE))
  BY <1>1, LockeoContenido
<1> QED BY <1>1, <1>2, <1>3, MismoTransitivo

(* obtener_pedido answers with the quantities that the memory holds, as    *)
(* every page of the order was raised, and changes none.                   *)
LEMMA ObtenerEfecto ==
  ASSUME IInv, TerminarObtener
  PROVE  /\ MismoContenido(mem, mem')
         /\ lista_de_platos(mem, hilo.pedido)
              = {<<d, Valor(mem, <<hilo.pedido, d>>)>> : d \in tabla_de_platos(mem, hilo.pedido)}
<1>1. /\ Levanta /\ hilo.pendientes = {} /\ MemoriaBien(mem)
      /\ mem' = SoltarPedido(mem, hilo.pedido)
  BY DEF TerminarObtener, En, EnCurso, Levanta, IInv
<1>2. MismoContenido(mem, mem')
  BY <1>1, SoltarContenido
<1>3. \A d \in tabla_de_platos(mem, hilo.pedido) : mem.paginas[<<hilo.pedido, d>>].presencia
  BY <1>1 DEF IInv, Fijadas, tabla_de_platos
<1>4. \A d \in tabla_de_platos(mem, hilo.pedido) :
        ContenidoMP(mem, <<hilo.pedido, d>>) = Valor(mem, <<hilo.pedido, d>>)
  BY <1>3 DEF Valor
<1> QED BY <1>2, <1>4 DEF lista_de_platos

(* What the end of plato_listo does. *)
ListoUno ==
  LET ped == hilo.pedido
      p   == <<ped, hilo.plato>>
  IN  /\ ContenidoCon(mem, mem', p, Contado(Valor(mem, p)))
      /\ estado' = IF \A d \in tabla_de_platos(mem', ped) : Completo(Valor(mem', <<ped, d>>))
                   THEN [estado EXCEPT ![ped] = "TERMINADO"] ELSE estado

(* plato_listo counts its dish and no other, and the order is TERMINADO    *)
(* when all its dishes are complete.                                       *)
LEMMA ListoEfecto ==
  ASSUME IInv, TerminarPlatoListo
  PROVE  /\ ListoUno
         /\ hilo.plato \in Platos /\ tiene_pagina(mem, <<hilo.pedido, hilo.plato>>)
<1> DEFINE ped == hilo.pedido
           p == <<ped, hilo.plato>>
           n == sumar_cantidad_lista(mem, p)
           T == tabla_de_platos(n, ped)
<1>1. /\ Levanta /\ ~ caido /\ hilo.op = "PLATO_LISTO" /\ hilo.pendientes = {}
      /\ MemoriaBien(mem)
      /\ mem' = SoltarPedido(n, ped)
      /\ estado' = IF platos_terminados(n, ped) = T
                   THEN [estado EXCEPT ![ped] = "TERMINADO"] ELSE estado
  BY DEF TerminarPlatoListo, En, EnCurso, Levanta, IInv
<1>2. /\ ped \in Pedidos /\ hilo.plato \in Platos
      /\ tiene_pagina(mem, p) /\ mem.paginas[p].presencia /\ p \in Paginas
  <2>1. ped \in Pedidos
    BY <1>1, HiloEnCurso DEF IInv, Levanta
  <2>2. hilo.plato \in Platos /\ tiene_pagina(mem, p)
    BY <1>1 DEF IInv, PendientesOK, Levanta
  <2>3. mem.paginas[p].presencia
    BY <1>1, <2>2 DEF IInv, Fijadas
  <2> QED BY <2>1, <2>2, <2>3, PaginaDePar
<1>3. \A x \in Platos : <<ped, x>> \in Paginas
  BY <1>2, PaginaDePar
<1>4. /\ MemoriaBien(n)
      /\ \A q \in Paginas : /\ n.paginas[q].frame_mv = mem.paginas[q].frame_mv
                            /\ n.paginas[q].presencia = mem.paginas[q].presencia
      /\ ContenidoCon(mem, n, p, Contado(Valor(mem, p)))
  <2> HIDE DEF p
  <2> QED BY <1>1, <1>2, SumarListaBien, SumarListaContenido DEF Contado
<1> HIDE DEF n
<1>5. MismoContenido(n, mem')
  BY <1>1, <1>4, SoltarContenido
<1>6. ContenidoCon(mem, mem', p, Contado(Valor(mem, p)))
  <2> HIDE DEF p
  <2> QED BY <1>2, <1>4, <1>5, ContenidoTrasMover
<1>7. tabla_de_platos(mem', ped) = T
  BY <1>3, <1>5 DEF tabla_de_platos, MismoContenido
<1>8. ASSUME NEW x \in T
      PROVE  ContenidoMP(n, <<ped, x>>) = Valor(mem', <<ped, x>>)
  <2>1. x \in Platos /\ tiene_pagina(n, <<ped, x>>)
    BY DEF tabla_de_platos
  <2>2. tiene_pagina(mem, <<ped, x>>)
    BY <2>1, <1>3, <1>4 DEF tiene_pagina
  <2>3. n.paginas[<<ped, x>>].presencia
    BY <2>1, <2>2, <1>1, <1>3, <1>4 DEF IInv, Fijadas
  <2> QED BY <2>1, <2>3, <1>3, <1>5 DEF Valor, MismoContenido
<1> HIDE DEF T
<1>9. platos_terminados(n, ped) = {x \in T : Completo(ContenidoMP(n, <<ped, x>>))}
  BY DEF platos_terminados, T
<1>10. platos_terminados(n, ped) = T
         <=> \A x \in tabla_de_platos(mem', ped) : Completo(Valor(mem', <<ped, x>>))
  BY <1>7, <1>8, <1>9
<1> QED BY <1>1, <1>2, <1>6, <1>10 DEF ListoUno

-----------------------------------------------------------------------------
(* The tables.                                                             *)

Libera == EnCurso /\ hilo.op = "FINALIZAR_PEDIDO"

(* While a handler iterates nothing was answered yet, and its order is in  *)
(* the state that the handler found or left: out of the table for          *)
(* finalizar_pedido, in it for the other two, confirmed for plato_listo.   *)
Segmentos ==
  EnCurso =>
    /\ respuesta = SinRespuesta
    /\ Libera => estado[hilo.pedido] = "NULO"
    /\ Levanta => estado[hilo.pedido] # "NULO"
    /\ hilo.op = "PLATO_LISTO" => estado[hilo.pedido] = "CONFIRMADO"

(* TablasOK page by page. *)
Tablas ==
  /\ \A ped \in Pedidos, d \in Platos : estado[ped] = "NULO" =>
       (tiene_pagina(mem, <<ped, d>>) <=> Libera /\ hilo.pedido = ped /\ d \in hilo.pendientes)
  /\ \A r : r \in restaurantes <=> \/ \E ped \in Pedidos : estado[ped] # "NULO" /\ ped[1] = r
                                   \/ Libera /\ hilo.pedido[1] = r

(* What both lookups of a request found. *)
LEMMA BusquedaOK ==
  ASSUME NEW ped, Busqueda(ped) = "OK"
  PROVE  estado[ped] # "NULO" /\ ped[1] \in restaurantes
BY DEF Busqueda

(* A new order is not in its table, and both ways of creating it leave the *)
(* restaurant in the table.                                                *)
CreadoUno(ped) ==
  /\ Libre
  /\ ped[1] \notin restaurantes \/ estado[ped] = "NULO"
  /\ restaurantes' = restaurantes \cup {ped[1]}
  /\ estado' = [estado EXCEPT ![ped] = "PENDIENTE"]
  /\ Responder("GUARDAR_PEDIDO", "OK")
  /\ UNCHANGED <<mem, hilo, caido>>

(* The two outcomes of guardar_pedido. *)
LEMMA GuardarPedidoEfecto ==
  ASSUME NEW ped, GuardarPedido(ped)
  PROVE  CreadoUno(ped) \/ PedidoRepetido(ped)
BY DEF GuardarPedido, CrearTablaDePedidos, AgregarPedido, CreadoUno

(* A task of each kind. *)
LEMMA TareaNueva ==
  ASSUME NEW op \in {"GUARDAR_PLATO", "OBTENER_PEDIDO", "PLATO_LISTO", "FINALIZAR_PEDIDO"},
         NEW ped \in Pedidos, NEW d \in Platos \cup {NingunPlato}, NEW S \in SUBSET Platos,
         hilo' = Tarea(op, ped, d, S)
  PROVE  /\ EnCurso' /\ hilo'.op = op /\ hilo'.pedido = ped /\ hilo'.plato = d
         /\ hilo'.pendientes = S
BY TareaBien DEF EnCurso

(* The task left behind by a guardar_plato that died. *)
LEMMA MuertoGuardandoEfecto ==
  ASSUME NEW ped \in Pedidos, NEW d \in Platos, MuertoGuardando(ped, d)
  PROVE  /\ EnCurso' /\ hilo'.op = "GUARDAR_PLATO" /\ hilo'.pedido = ped /\ hilo'.plato = d
         /\ caido' /\ UNCHANGED <<restaurantes, estado, mem, respuesta>>
<1>1. {d} \in SUBSET Platos
  OBVIOUS
<1>2. hilo' = Tarea("GUARDAR_PLATO", ped, d, {d})
  BY DEF MuertoGuardando, Morir
<1> QED BY <1>1, <1>2, TareaNueva DEF MuertoGuardando, Morir

(* finalizar_pedido takes the order out first. *)
FinalizadoUno(ped) ==
  /\ Libre
  /\ Busqueda(ped) = "OK"
  /\ estado' = [estado EXCEPT ![ped] = "NULO"]
  /\ EnCurso' /\ hilo'.op = "FINALIZAR_PEDIDO" /\ hilo'.pedido = ped
  /\ hilo'.pendientes = tabla_de_platos(mem, ped)
  /\ UNCHANGED <<restaurantes, mem, respuesta, caido>>

(* The two outcomes of finalizar_pedido's first step. *)
LEMMA FinalizarPedidoEfecto ==
  ASSUME NEW ped \in Pedidos, FinalizarPedido(ped)
  PROVE  Libre /\ (Rechazar("FINALIZAR_PEDIDO", Busqueda(ped)) \/ FinalizadoUno(ped))
<1>1. CASE Rechazar("FINALIZAR_PEDIDO", Busqueda(ped))
  BY <1>1 DEF FinalizarPedido
<1>2. CASE /\ Busqueda(ped) = "OK"
           /\ estado' = [estado EXCEPT ![ped] = "NULO"]
           /\ hilo' = Tarea("FINALIZAR_PEDIDO", ped, NingunPlato, tabla_de_platos(mem, ped))
           /\ UNCHANGED <<restaurantes, mem, respuesta, caido>>
  <2>1. tabla_de_platos(mem, ped) \in SUBSET Platos
    BY DEF tabla_de_platos
  <2>2. /\ EnCurso' /\ hilo'.op = "FINALIZAR_PEDIDO" /\ hilo'.pedido = ped
        /\ hilo'.pendientes = tabla_de_platos(mem, ped)
    BY <1>2, <2>1, TareaNueva
  <2> QED BY <1>2, <2>2 DEF FinalizarPedido, FinalizadoUno
<1> QED BY <1>1, <1>2 DEF FinalizarPedido

(* obtener_pedido and plato_listo pin their order, which exists, and       *)
(* plato_listo's is confirmed.                                             *)
FijadoUno(op, ped) ==
  /\ Libre
  /\ MismoContenido(mem, mem')
  /\ estado[ped] # "NULO"
  /\ op = "PLATO_LISTO" => estado[ped] = "CONFIRMADO"
  /\ EnCurso' /\ hilo'.op = op /\ hilo'.pedido = ped
  /\ UNCHANGED <<restaurantes, estado, respuesta, caido>>

(* The two outcomes of obtener_pedido's first step. *)
LEMMA ObtenerPedidoEfecto ==
  ASSUME IInv, NEW ped \in Pedidos, ObtenerPedido(ped)
  PROVE  Libre /\ (\/ Rechazar("OBTENER_PEDIDO", Busqueda(ped))
                   \/ FijadoUno("OBTENER_PEDIDO", ped))
<1>1. CASE Rechazar("OBTENER_PEDIDO", Busqueda(ped))
  BY <1>1 DEF ObtenerPedido
<1>2. CASE Busqueda(ped) = "OK" /\ FijarPedido("OBTENER_PEDIDO", ped, NingunPlato)
  <2>1. tabla_de_platos(mem, ped) \in SUBSET Platos
    BY DEF tabla_de_platos
  <2>2. EnCurso' /\ hilo'.op = "OBTENER_PEDIDO" /\ hilo'.pedido = ped
    BY <1>2, <2>1, TareaNueva DEF FijarPedido
  <2> QED BY <1>2, <2>2, FijarEfecto, BusquedaOK DEF ObtenerPedido, FijadoUno, FijarPedido
<1> QED BY <1>1, <1>2 DEF ObtenerPedido

(* The two outcomes of plato_listo's first step. *)
LEMMA PlatoListoEfecto ==
  ASSUME IInv, NEW ped \in Pedidos, NEW d \in Platos, PlatoListo(ped, d)
  PROVE  Libre /\ (\/ Rechazar("PLATO_LISTO", MotivoListo(ped, d))
                   \/ FijadoUno("PLATO_LISTO", ped))
<1>1. CASE Rechazar("PLATO_LISTO", MotivoListo(ped, d))
  BY <1>1 DEF PlatoListo
<1>2. CASE MotivoListo(ped, d) = "OK" /\ FijarPedido("PLATO_LISTO", ped, d)
  <2>1. tabla_de_platos(mem, ped) \in SUBSET Platos
    BY DEF tabla_de_platos
  <2>2. EnCurso' /\ hilo'.op = "PLATO_LISTO" /\ hilo'.pedido = ped
    BY <1>2, <2>1, TareaNueva DEF FijarPedido
  <2>3. estado[ped] = "CONFIRMADO"
    BY <1>2 DEF MotivoListo, Busqueda
  <2> QED BY <1>2, <2>2, <2>3, FijarEfecto DEF PlatoListo, FijadoUno, FijarPedido
<1> QED BY <1>1, <1>2 DEF PlatoListo

(* Every action keeps the state of the order of the handler in progress. *)
LEMMA SegmentosPaso ==
  ASSUME IInv, Segmentos, [Next]_vars
  PROVE  Segmentos'
<1>0. /\ hilo' = Reposo => Segmentos'
      /\ UNCHANGED <<hilo, estado, respuesta>> => Segmentos'
      /\ Libre <=> hilo = Reposo /\ respuesta = SinRespuesta /\ ~ caido
  BY DEF Segmentos, EnCurso, Levanta, Libera, Libre
<1>1. CASE UNCHANGED vars
  BY <1>0, <1>1 DEF vars
<1>2. CASE Recibir
  BY <1>0, <1>2 DEF Recibir, Segmentos, EnCurso
<1>3. ASSUME NEW op, NEW r, Libre, Rechazar(op, r) PROVE Segmentos'
  BY <1>0, <1>3 DEF Rechazar
<1>4. ASSUME NEW ped \in Pedidos, GuardarPedido(ped) PROVE Segmentos'
  <2>1. Libre /\ hilo' = hilo
    BY <1>4 DEF GuardarPedido, CrearTablaDePedidos, AgregarPedido, PedidoRepetido, Rechazar
  <2> QED BY <2>1, <1>0
<1>5. ASSUME NEW ped \in Pedidos, ConfirmarPedido(ped) PROVE Segmentos'
  <2>1. Libre /\ hilo' = hilo
    BY <1>5 DEF ConfirmarPedido, Rechazar
  <2> QED BY <2>1, <1>0
<1>6. ASSUME NEW ped \in Pedidos, FinalizarPedido(ped) PROVE Segmentos'
  <2>1. CASE FinalizadoUno(ped)
    <3>1. estado'[ped] = "NULO"
      BY <2>1 DEF FinalizadoUno, IInv, TypeOK
    <3> QED BY <2>1, <3>1, <1>0 DEF FinalizadoUno, Segmentos, Levanta
  <2> QED BY <1>3, <1>6, <2>1, FinalizarPedidoEfecto
<1>7. ASSUME NEW ped \in Pedidos, ObtenerPedido(ped) PROVE Segmentos'
  <2>1. CASE FijadoUno("OBTENER_PEDIDO", ped)
    BY <2>1, <1>0 DEF FijadoUno, Segmentos, Libera
  <2> QED BY <1>3, <1>7, <2>1, ObtenerPedidoEfecto
<1>8. ASSUME NEW ped \in Pedidos, NEW d \in Platos, PlatoListo(ped, d) PROVE Segmentos'
  <2>1. CASE FijadoUno("PLATO_LISTO", ped)
    BY <2>1, <1>0 DEF FijadoUno, Segmentos, Libera
  <2> QED BY <1>3, <1>8, <2>1, PlatoListoEfecto
<1>9. ASSUME NEW ped \in Pedidos, NEW d \in Platos, NEW c \in Cantidades,
             GuardarPlato(ped, d, c)
      PROVE  Segmentos'
  <2>1. EfectoGuardar(ped, d, c)
    BY <1>9, GuardarPlatoEfecto
  <2>2. CASE SinGuardar(ped, d)
    BY <1>3, <2>1, <2>2 DEF SinGuardar, EfectoGuardar
  <2>3. CASE Aumentado(ped, d, c) \/ Agregado(ped, d, c)
    BY <1>0, <2>1, <2>3 DEF EfectoGuardar, Aumentado, Agregado, PlatoGuardado
  <2>4. CASE MuertoGuardando(ped, d)
    <3>1. EnCurso' /\ hilo'.op = "GUARDAR_PLATO"
      BY <2>4, MuertoGuardandoEfecto
    <3>2. respuesta' = SinRespuesta
      BY <2>1, <2>4 DEF MuertoGuardando, Morir, EfectoGuardar, Libre
    <3> QED BY <3>1, <3>2 DEF Segmentos, Libera, Levanta
  <2> QED BY <2>1, <2>2, <2>3, <2>4 DEF EfectoGuardar
<1>10. CASE LevantarPagina
  <2>1. Levanta /\ (LevantadaUna \/ MuertoLevantando)
    BY <1>10, LevantarEfecto
  <2>2. CASE LevantadaUna
    <3>1. /\ EnCurso' /\ hilo'.op = hilo.op /\ hilo'.pedido = hilo.pedido
      BY <2>1, <2>2, SiguePendiente DEF LevantadaUna, Levanta, IInv
    <3> QED BY <3>1, <2>1, <2>2 DEF LevantadaUna, Segmentos, Levanta, Libera
  <2>3. CASE MuertoLevantando
    BY <1>0, <2>3 DEF MuertoLevantando, Morir
  <2> QED BY <2>1, <2>2, <2>3
<1>11. CASE TerminarObtener \/ TerminarPlatoListo \/ TerminarFinalizar
  BY <1>0, <1>11 DEF TerminarObtener, TerminarPlatoListo, TerminarFinalizar
<1>12. CASE LiberarPagina
  <2>1. EnCurso /\ UNCHANGED <<estado, respuesta>>
    BY <1>12 DEF LiberarPagina, En, EnCurso
  <2>2. EnCurso' /\ hilo'.op = hilo.op /\ hilo'.pedido = hilo.pedido
    BY <1>12, <2>1, SiguePendiente DEF LiberarPagina, IInv
  <2> QED BY <2>1, <2>2 DEF Segmentos, Levanta, Libera
<1> QED BY <1>1, <1>2, <1>4, <1>5, <1>6, <1>7, <1>8, <1>9, <1>10, <1>11, <1>12
           DEF Next, Solicitud, Continuar

(* Every action keeps the tables and the pages in step: no page outlives   *)
(* its order, no restaurant outlives its last order.                       *)
LEMMA TablasPaso ==
  ASSUME IInv, Segmentos, Tablas, [Next]_vars
  PROVE  Tablas'
<1>0. /\ estado \in [Pedidos -> Estados]
      /\ Libre => hilo = Reposo /\ ~ EnCurso /\ ~ Libera
      /\ \A ped \in Pedidos, d \in Platos : <<ped, d>> \in Paginas
  BY PaginaDePar DEF IInv, TypeOK, Libre, EnCurso, Libera
<1>1. UNCHANGED <<restaurantes, estado, mem, hilo>> => Tablas'
  BY DEF Tablas, Libera, EnCurso
<1>2. UNCHANGED <<restaurantes, estado>> /\ ~ Libera /\ ~ Libera' /\ MismoContenido(mem, mem')
        => Tablas'
  BY <1>0 DEF Tablas, MismoContenido
<1>3. \A op, r : Rechazar(op, r) => Tablas'
  BY <1>1 DEF Rechazar
<1>4. ASSUME NEW ped \in Pedidos, GuardarPedido(ped) PROVE Tablas'
  <2>1. CASE CreadoUno(ped)
    <3>1. \A q \in Pedidos : estado'[q] = IF q = ped THEN "PENDIENTE" ELSE estado[q]
      BY <1>0, <2>1 DEF CreadoUno
    <3>2. ~ Libera /\ ~ Libera' /\ mem' = mem /\ restaurantes' = restaurantes \cup {ped[1]}
      BY <1>0, <2>1 DEF CreadoUno, Libera, EnCurso
    <3> QED BY <3>1, <3>2 DEF Tablas
  <2>2. CASE PedidoRepetido(ped)
    BY <1>3, <2>2 DEF PedidoRepetido
  <2> QED BY <1>4, <2>1, <2>2, GuardarPedidoEfecto
<1>5. ASSUME NEW ped \in Pedidos, ConfirmarPedido(ped) PROVE Tablas'
  <2>1. CASE Rechazar("CONFIRMAR_PEDIDO", MotivoConfirmar(ped))
    BY <1>3, <2>1
  <2>2. CASE /\ MotivoConfirmar(ped) = "OK"
             /\ estado' = [estado EXCEPT ![ped] = "CONFIRMADO"]
             /\ UNCHANGED <<restaurantes, mem, hilo, caido>>
    <3>1. estado[ped] # "NULO"
      BY <2>2 DEF MotivoConfirmar, Busqueda
    <3>2. \A q \in Pedidos : estado'[q] = "NULO" <=> estado[q] = "NULO"
      BY <1>0, <2>2, <3>1
    <3> QED BY <2>2, <3>2 DEF Tablas, Libera, EnCurso
  <2> QED BY <1>5, <2>1, <2>2 DEF ConfirmarPedido
<1>6. ASSUME NEW ped \in Pedidos, FinalizarPedido(ped) PROVE Tablas'
  <2>1. CASE FinalizadoUno(ped)
    <3>1. /\ \A q \in Pedidos : estado'[q] = IF q = ped THEN "NULO" ELSE estado[q]
          /\ ~ Libera /\ Libera' /\ mem' = mem /\ restaurantes' = restaurantes
          /\ hilo'.pedido = ped /\ hilo'.pendientes = tabla_de_platos(mem, ped)
          /\ estado[ped] # "NULO"
      BY <1>0, <2>1, BusquedaOK DEF FinalizadoUno, Libera
    <3>2. \A q \in Pedidos, d \in Platos : estado'[q] = "NULO" =>
            (tiene_pagina(mem, <<q, d>>) <=> ped = q /\ d \in tabla_de_platos(mem, ped))
      BY <3>1 DEF Tablas, tabla_de_platos
    <3>3. \A r : r \in restaurantes
                   <=> \/ \E q \in Pedidos : estado'[q] # "NULO" /\ q[1] = r
                       \/ ped[1] = r
      BY <3>1 DEF Tablas
    <3> QED BY <3>1, <3>2, <3>3 DEF Tablas
  <2> QED BY <1>3, <1>6, <2>1, FinalizarPedidoEfecto
<1>7. ASSUME NEW op \in {"OBTENER_PEDIDO", "PLATO_LISTO"}, NEW ped, FijadoUno(op, ped)
      PROVE  Tablas'
  BY <1>0, <1>2, <1>7 DEF FijadoUno, Libera
<1>8. ASSUME NEW ped \in Pedidos, ObtenerPedido(ped) PROVE Tablas'
  BY <1>3, <1>7, <1>8, ObtenerPedidoEfecto
<1>9. ASSUME NEW ped \in Pedidos, NEW d \in Platos, PlatoListo(ped, d) PROVE Tablas'
  BY <1>3, <1>7, <1>9, PlatoListoEfecto
<1>10. ASSUME NEW ped \in Pedidos, NEW d \in Platos, NEW c \in Cantidades,
              GuardarPlato(ped, d, c)
       PROVE  Tablas'
  <2>1. EfectoGuardar(ped, d, c)
    BY <1>10, GuardarPlatoEfecto
  <2>2. CASE SinGuardar(ped, d)
    BY <1>3, <2>2 DEF SinGuardar
  <2>3. CASE Aumentado(ped, d, c) \/ Agregado(ped, d, c)
    <3>1. /\ UNCHANGED <<restaurantes, estado, hilo>> /\ ~ Libera /\ ~ Libera'
          /\ estado[ped] # "NULO"
          /\ \A q \in Paginas : q # <<ped, d>> =>
               (tiene_pagina(mem', q) <=> tiene_pagina(mem, q))
      BY <1>0, <2>1, <2>3
         DEF EfectoGuardar, Aumentado, Agregado, PlatoGuardado, MotivoPlato, Busqueda,
             ContenidoCon, Pagina, Libera, EnCurso
    <3>2. \A q \in Pedidos, x \in Platos : estado[q] = "NULO" => <<q, x>> # <<ped, d>>
      BY <3>1
    <3> QED BY <1>0, <3>1, <3>2 DEF Tablas
  <2>4. CASE MuertoGuardando(ped, d)
    <3>1. EnCurso' /\ hilo'.op = "GUARDAR_PLATO"
      BY <2>4, MuertoGuardandoEfecto
    <3>2. ~ Libera /\ ~ Libera' /\ UNCHANGED <<restaurantes, estado, mem>>
      BY <1>0, <2>1, <2>4, <3>1 DEF MuertoGuardando, Morir, EfectoGuardar, Libera
    <3> QED BY <3>2 DEF Tablas
  <2> QED BY <2>1, <2>2, <2>3, <2>4 DEF EfectoGuardar
<1>11. CASE LevantarPagina
  <2>1. Levanta /\ (LevantadaUna \/ MuertoLevantando)
    BY <1>11, LevantarEfecto
  <2>2. CASE LevantadaUna
    <3>1. hilo'.op = hilo.op
      BY <2>1, <2>2, SiguePendiente DEF LevantadaUna, Levanta, IInv
    <3> QED BY <1>2, <2>1, <2>2, <3>1 DEF LevantadaUna, Levanta, Libera
  <2>3. CASE MuertoLevantando
    BY <1>1, <2>3 DEF MuertoLevantando, Morir
  <2> QED BY <2>1, <2>2, <2>3
<1>12. CASE TerminarObtener
  <2>1. ~ Libera /\ ~ Libera' /\ UNCHANGED <<restaurantes, estado>>
    BY <1>12 DEF TerminarObtener, En, Libera, EnCurso
  <2> QED BY <1>2, <1>12, <2>1, ObtenerEfecto
<1>13. CASE TerminarPlatoListo
  <2> DEFINE p == <<hilo.pedido, hilo.plato>>
  <2>1. /\ ~ Libera /\ ~ Libera' /\ EnCurso /\ hilo.op = "PLATO_LISTO"
        /\ restaurantes' = restaurantes
    BY <1>13 DEF TerminarPlatoListo, En, Libera, EnCurso
  <2>2. ListoUno /\ tiene_pagina(mem, p)
    BY <1>13, ListoEfecto
  <2>3. \A q \in Paginas : tiene_pagina(mem', q) <=> tiene_pagina(mem, q)
    BY <2>2 DEF ListoUno, ContenidoCon
  <2>4. \A q \in Pedidos : estado'[q] = "NULO" <=> estado[q] = "NULO"
    BY <1>0, <2>1, <2>2 DEF ListoUno, Segmentos
  <2> QED BY <1>0, <2>1, <2>3, <2>4 DEF Tablas
<1>14. CASE LiberarPagina
  <2>1. /\ Libera /\ UNCHANGED <<restaurantes, estado>>
        /\ hilo.pedido \in Pedidos
    BY <1>14, HiloEnCurso DEF LiberarPagina, En, EnCurso, Libera, IInv
  <2>2. PICK d \in hilo.pendientes :
          /\ d \in Platos
          /\ ContenidoSin(mem, mem', <<hilo.pedido, d>>)
          /\ hilo' = [hilo EXCEPT !.pendientes = @ \ {d}]
    BY <1>14, LiberarEfecto DEF LiberadaUna
  <2>3. /\ Libera' /\ hilo'.pedido = hilo.pedido
        /\ hilo'.pendientes = hilo.pendientes \ {d}
    BY <2>1, <2>2, SiguePendiente DEF Libera, IInv
  <2>4. \A q \in Paginas : tiene_pagina(mem', q)
          <=> q # <<hilo.pedido, d>> /\ tiene_pagina(mem, q)
    BY <2>2 DEF ContenidoSin
  <2>5. \A q \in Pedidos, x \in Platos :
          <<q, x>> = <<hilo.pedido, d>> <=> q = hilo.pedido /\ x = d
    OBVIOUS
  <2> QED BY <1>0, <2>1, <2>3, <2>4, <2>5 DEF Tablas
<1>15. CASE TerminarFinalizar
  <2>1. /\ Libera /\ ~ Libera' /\ hilo.pendientes = {} /\ UNCHANGED <<estado, mem>>
        /\ restaurantes' = IF pedidos_de_restaurante(hilo.pedido[1]) = {}
                           THEN restaurantes \ {hilo.pedido[1]} ELSE restaurantes
    BY <1>15 DEF TerminarFinalizar, En, EnCurso, Libera
  <2>2. hilo.pedido \in Pedidos
    BY <2>1, HiloEnCurso DEF Libera, IInv
  <2>3. pedidos_de_restaurante(hilo.pedido[1]) = {}
          <=> ~ \E q \in Pedidos : estado[q] # "NULO" /\ q[1] = hilo.pedido[1]
    BY <2>2 DEF pedidos_de_restaurante, Pedidos
  <2> QED BY <2>1, <2>2, <2>3 DEF Tablas
<1>16. CASE Recibir \/ UNCHANGED vars
  BY <1>1, <1>16 DEF Recibir, vars
<1> QED BY <1>4, <1>5, <1>6, <1>8, <1>9, <1>10, <1>11, <1>12, <1>13, <1>14, <1>15, <1>16
           DEF Next, Solicitud, Continuar

(* Every action keeps the causes of a death: nothing runs after it, and    *)
(* only the two steps without a victim cause it.                           *)
LEMMA CausaPaso ==
  ASSUME IInv, CausaDeCaida, [Next]_vars
  PROVE  CausaDeCaida'
<1>1. CASE caido
  <2>1. UNCHANGED <<mem, hilo, caido>>
    <3>1. ~ Libre /\ \A op : ~ En(op)
      BY <1>1 DEF Libre, En
    <3>2. ~ Continuar
      BY <3>1 DEF Continuar, LevantarPagina, Levantando, TerminarObtener,
                  TerminarPlatoListo, LiberarPagina, TerminarFinalizar
    <3>3. ~ Solicitud
      <4>1. \A ped : /\ ~ GuardarPedido(ped) /\ ~ ObtenerPedido(ped)
                     /\ ~ ConfirmarPedido(ped) /\ ~ FinalizarPedido(ped)
        BY <3>1 DEF GuardarPedido, CrearTablaDePedidos, AgregarPedido, PedidoRepetido,
                    ObtenerPedido, ConfirmarPedido, FinalizarPedido
      <4>2. \A ped, d : ~ PlatoListo(ped, d) /\ \A c : ~ GuardarPlato(ped, d, c)
        BY <3>1 DEF PlatoListo, GuardarPlato, GuardarPlatoRechazado, SumarEnMP,
                    SumarConSwap, PlatoNuevo
      <4> QED BY <4>1, <4>2 DEF Solicitud
    <3> QED BY <3>2, <3>3 DEF Next, Recibir, vars
  <2> QED BY <2>1 DEF CausaDeCaida
<1>2. CASE ~ caido
  <2>1. caido' = caido => CausaDeCaida'
    BY <1>2 DEF CausaDeCaida
  <2>2. ASSUME NEW ped \in Pedidos, NEW d \in Platos, NEW c \in Cantidades,
               GuardarPlato(ped, d, c)
        PROVE  CausaDeCaida'
    <3>1. EfectoGuardar(ped, d, c)
      BY <2>2, GuardarPlatoEfecto
    <3>2. CASE SinGuardar(ped, d) \/ Aumentado(ped, d, c) \/ Agregado(ped, d, c)
      BY <2>1, <3>2 DEF SinGuardar, Rechazar, Aumentado, Agregado, PlatoGuardado
    <3>3. CASE MuertoGuardando(ped, d)
      <4>1. /\ hilo'.op = "GUARDAR_PLATO" /\ hilo'.pedido = ped /\ hilo'.plato = d
            /\ mem' = mem
        BY <3>3, MuertoGuardandoEfecto
      <4> QED BY <3>3, <4>1 DEF MuertoGuardando, CausaDeCaida, Pagina
    <3> QED BY <3>1, <3>2, <3>3 DEF EfectoGuardar
  <2>3. CASE LevantarPagina
    <3>1. Levanta /\ (LevantadaUna \/ MuertoLevantando)
      BY <2>3, LevantarEfecto
    <3>2. CASE LevantadaUna
      BY <2>1, <3>2 DEF LevantadaUna
    <3>3. CASE MuertoLevantando
      BY <3>1, <3>3 DEF MuertoLevantando, Morir, CausaDeCaida, Levanta
    <3> QED BY <3>1, <3>2, <3>3
  <2>4. CASE TerminarObtener \/ TerminarPlatoListo \/ LiberarPagina \/ TerminarFinalizar
             \/ Recibir \/ UNCHANGED vars
    BY <2>1, <2>4 DEF TerminarObtener, TerminarPlatoListo, LiberarPagina,
                      TerminarFinalizar, Recibir, vars
  <2>5. ASSUME NEW ped \in Pedidos,
               \/ GuardarPedido(ped) \/ ObtenerPedido(ped)
               \/ ConfirmarPedido(ped) \/ FinalizarPedido(ped)
               \/ \E d \in Platos : PlatoListo(ped, d)
        PROVE  CausaDeCaida'
    BY <2>1, <2>5 DEF GuardarPedido, CrearTablaDePedidos, AgregarPedido, PedidoRepetido,
                      ObtenerPedido, ConfirmarPedido, FinalizarPedido, PlatoListo,
                      FijarPedido, Rechazar
  <2> QED BY <2>2, <2>3, <2>4, <2>5 DEF Next, Solicitud, Continuar
<1> QED BY <1>1, <1>2

-----------------------------------------------------------------------------
(* The stronger invariant.                                                 *)

TInv == IInv /\ Segmentos /\ Tablas /\ CausaDeCaida

(* The server starts in the stronger invariant. *)
LEMMA InicioT == Init => TInv
<1> SUFFICES ASSUME Init PROVE TInv
  OBVIOUS
<1>1. IInv
  BY Inicio
<1>2. Segmentos
  BY DEF Init, Segmentos, EnCurso
<1>3. Tablas
  <2>1. ~ Libera /\ restaurantes = {} /\ \A ped \in Pedidos : estado[ped] = "NULO"
    BY DEF Init, Libera, EnCurso
  <2>2. \A p \in Paginas : ~ tiene_pagina(mem, p)
    BY DEF Init, inicializar_memoria, tiene_pagina, SinPagina
  <2> QED BY <2>1, <2>2, PaginaDePar DEF Tablas
<1>4. CausaDeCaida
  BY DEF Init, CausaDeCaida
<1> QED BY <1>1, <1>2, <1>3, <1>4 DEF TInv

(* Every action keeps the stronger invariant. *)
LEMMA PasoT == TInv /\ [Next]_vars => TInv'
BY Paso, SegmentosPaso, TablasPaso, CausaPaso DEF TInv

(* The stronger invariant holds in every state of every behaviour. *)
THEOREM SiempreTInv == Spec => []TInv
BY InicioT, PasoT, PTL DEF Spec

(* A page belongs to an order of a table, or to the one that finalizar_    *)
(* pedido is freeing, and a restaurant is in the table exactly while it    *)
(* has an order or its last one is being finalised.                        *)
THEOREM TablasSiempre == Spec => []TablasOK
<1>1. TInv => TablasOK
  <2> SUFFICES ASSUME TInv PROVE TablasOK
    OBVIOUS
  <2>1. IInv /\ Segmentos /\ Tablas
    BY DEF TInv
  <2>2. hilo # Reposo /\ hilo.op = "FINALIZAR_PEDIDO" <=> Libera
    BY DEF Libera, EnCurso
  <2>3. Libera => hilo.pedido \in Pedidos /\ hilo.pendientes \in SUBSET Platos
    BY <2>1, HiloEnCurso DEF IInv, Libera
  <2>4. ASSUME NEW ped \in Pedidos, estado[ped] = "NULO"
        PROVE  tabla_de_platos(mem, ped)
                 = IF Libera /\ hilo.pedido = ped THEN hilo.pendientes ELSE {}
    BY <2>1, <2>3, <2>4 DEF Tablas, tabla_de_platos
  <2>5. restaurantes = {ped[1] : ped \in {q \in Pedidos : estado[q] # "NULO"}}
                       \cup IF Libera THEN {hilo.pedido[1]} ELSE {}
    BY <2>1 DEF Tablas
  <2> QED BY <2>2, <2>4, <2>5 DEF TablasOK
<1> QED BY <1>1, SiempreTInv, PTL

(* The server dies only raising an order with more dishes than main memory *)
(* has frames, or adding to an evicted dish while finalizar_pedido has     *)
(* left free frames: under both algorithms, a load never misses a victim   *)
(* for any other reason.                                                   *)
THEOREM Caidas == Spec => []CausaDeCaida
<1>1. TInv => CausaDeCaida
  BY DEF TInv
<1> QED BY <1>1, SiempreTInv, PTL

=============================================================================

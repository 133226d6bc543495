---------------------------- MODULE PromesaProofs ----------------------------
(***************************************************************************)
(* The comanda server implements the abstract store of orders of module    *)
(* Pedidos, for every number of restaurants, orders, dishes and frames,    *)
(* and what follows from it.                                               *)
(***************************************************************************)
EXTENDS TablasProofs

-----------------------------------------------------------------------------
(* The abstract state.                                                     *)

(* What the refinement mapping of Promesa puts in place of platos and of   *)
(* respuesta.                                                              *)
Guardados ==
  [ped \in Pedidos |->
     IF estado[ped] = "NULO" THEN [d \in {} |-> 0]
     ELSE [d \in tabla_de_platos(mem, ped) |-> Valor(mem, <<ped, d>>)]]

Leida ==
  IF hilo # Reposo /\ hilo.op = "FINALIZAR_PEDIDO"
  THEN Descripcion("FINALIZAR_PEDIDO", "OK") ELSE respuesta

Contenidos(m, ped) == [d \in tabla_de_platos(m, ped) |-> Valor(m, <<ped, d>>)]

(* The abstract store uses the same answers. *)
LEMMA MismosNombres ==
  /\ \A op, r : Promesa!Descripcion(op, r) = Descripcion(op, r)
  /\ \A op, r, e, S : Promesa!Respuesta(op, r, e, S) = Respuesta(op, r, e, S)
  /\ Promesa!SinRespuesta = SinRespuesta
  /\ Promesa!Pedidos = Pedidos
  /\ \A c : Promesa!Completo(c) = Completo(c)
  /\ Promesa!SinPlatos = [d \in {} |-> 0]
BY DEF Promesa!Descripcion, Promesa!Respuesta, Promesa!SinRespuesta, Promesa!Pedidos,
       Promesa!Completo, Promesa!SinPlatos, Descripcion, Respuesta, SinRespuesta, Pedidos,
       Completo

(* The dishes stored for each order. *)
LEMMA GuardadosDe ==
  ASSUME NEW ped \in Pedidos
  PROVE  /\ estado[ped] = "NULO" => Guardados[ped] = [d \in {} |-> 0]
         /\ estado[ped] # "NULO" => Guardados[ped] = Contenidos(mem, ped)
BY DEF Guardados, Contenidos

(* The same in the next state. *)
LEMMA GuardadosDespues ==
  ASSUME NEW ped \in Pedidos
  PROVE  /\ estado'[ped] = "NULO" => Guardados'[ped] = [d \in {} |-> 0]
         /\ estado'[ped] # "NULO" => Guardados'[ped] = Contenidos(mem', ped)
BY DEF Guardados, Contenidos

(* Contents that are kept are stored as before. *)
LEMMA ContenidosIguales ==
  ASSUME NEW m, NEW n, MismoContenido(m, n), NEW ped \in Pedidos
  PROVE  Contenidos(n, ped) = Contenidos(m, ped)
<1>1. \A d \in Platos : <<ped, d>> \in Paginas
  BY PaginaDePar
<1>2. tabla_de_platos(n, ped) = tabla_de_platos(m, ped)
  BY <1>1 DEF tabla_de_platos, MismoContenido
<1>3. \A d \in tabla_de_platos(m, ped) : Valor(n, <<ped, d>>) = Valor(m, <<ped, d>>)
  BY <1>1 DEF tabla_de_platos, MismoContenido
<1> QED BY <1>2, <1>3 DEF Contenidos

(* A step that changes neither the tables nor the contents leaves the      *)
(* store as it was.                                                        *)
LEMMA GuardadosIguales ==
  ASSUME estado' = estado, MismoContenido(mem, mem')
  PROVE  Guardados' = Guardados
<1>1. \A ped \in Pedidos : Guardados'[ped] = Guardados[ped]
  BY GuardadosDe, GuardadosDespues, ContenidosIguales
<1>2. Guardados' = [ped \in Pedidos |-> Guardados'[ped]]
      /\ Guardados = [ped \in Pedidos |-> Guardados[ped]]
  BY DEF Guardados
<1> QED BY <1>1, <1>2

(* No abstract variable changes. *)
LEMMA Callado ==
  ASSUME UNCHANGED <<estado, caido>>, Guardados' = Guardados, Leida' = Leida
  PROVE  UNCHANGED Promesa!vars
BY DEF Promesa!vars, Guardados, Leida

-----------------------------------------------------------------------------
(* The tables, seen by the abstract store.                                 *)

(* While nothing is being finalised, the dishes stored for an order are    *)
(* those of its pages, also when it has no segment.                        *)
LEMMA GuardadosEnTabla ==
  ASSUME Tablas, ~ Libera, NEW ped \in Pedidos
  PROVE  Guardados[ped] = Contenidos(mem, ped)
<1>1. CASE estado[ped] = "NULO"
  <2>1. tabla_de_platos(mem, ped) = {}
    BY <1>1 DEF Tablas, tabla_de_platos
  <2> QED BY <1>1, <2>1, GuardadosDe DEF Contenidos
<1> QED BY <1>1, GuardadosDe

(* Both look an order up with the same result. *)
LEMMA BusquedaIgual ==
  ASSUME Tablas, ~ Libera, NEW ped \in Pedidos
  PROVE  Promesa!Busqueda(ped) = Busqueda(ped)
<1>1. ped[1] \in restaurantes <=> \E q \in Pedidos : estado[q] # "NULO" /\ q[1] = ped[1]
  BY DEF Tablas
<1>2. (\E q \in Pedidos : estado[q] # "NULO" /\ q[1] = ped[1])
        <=> \E id \in Ids : estado[<<ped[1], id>>] # "NULO"
  <2>1. \A q \in Pedidos : q = <<q[1], q[2]>> /\ q[2] \in Ids
    BY DEF Pedidos
  <2>2. \A id \in Ids : <<ped[1], id>> \in Pedidos /\ <<ped[1], id>>[1] = ped[1]
    BY DEF Pedidos
  <2> QED BY <2>1, <2>2
<1> QED BY <1>1, <1>2 DEF Promesa!Busqueda, Busqueda

(* The abstract store counts in the same way. *)
LEMMA MismaCardinalidad == \A S : Promesa!Cardinality(S) = Cardinality(S)
BY DEF Promesa!Cardinality, Cardinality

(* The dishes stored are as many as the pages used. *)
LEMMA OcupacionIgual ==
  ASSUME Tablas, ~ Libera
  PROVE  Promesa!Ocupacion = Cardinality(PaginasUsadas(mem))
<1>1. \A x \in Paginas : x[2] \in DOMAIN Guardados[x[1]] <=> tiene_pagina(mem, x)
  <2> TAKE x \in Paginas
  <2>1. x = <<x[1], x[2]>> /\ x[1] \in Pedidos /\ x[2] \in Platos
    BY ParDePagina
  <2>2. DOMAIN Guardados[x[1]] = tabla_de_platos(mem, x[1])
    BY <2>1, GuardadosEnTabla DEF Contenidos
  <2> QED BY <2>1, <2>2 DEF tabla_de_platos
<1>2. {x \in Paginas : x[2] \in DOMAIN Guardados[x[1]]} = PaginasUsadas(mem)
  BY <1>1 DEF PaginasUsadas
<1>3. Promesa!Ocupacion = Promesa!Cardinality(PaginasUsadas(mem))
  BY <1>2, MismosNombres DEF Promesa!Ocupacion, Guardados, Paginas
<1> QED BY <1>3, MismaCardinalidad

(* Both refuse a dish for the same reason. *)
LEMMA MotivoPlatoIgual ==
  ASSUME Tablas, ~ Libera, NEW ped \in Pedidos, NEW d \in Platos
  PROVE  Promesa!MotivoPlato(ped, d)
           = IF MotivoPlato(ped) # "OK" THEN MotivoPlato(ped)
             ELSE IF ~ tiene_pagina(mem, <<ped, d>>) /\ SwapCompleto
             THEN "SIN_ESPACIO" ELSE "OK"
<1>1. d \in DOMAIN Guardados[ped] <=> tiene_pagina(mem, <<ped, d>>)
  BY GuardadosEnTabla DEF Contenidos, tabla_de_platos
<1>2. Promesa!Busqueda(ped) = Busqueda(ped)
  BY BusquedaIgual
<1>3. Promesa!Ocupacion >= CantFramesMV <=> SwapCompleto
  BY OcupacionIgual DEF SwapCompleto
<1> QED BY <1>1, <1>2, <1>3 DEF Promesa!MotivoPlato, MotivoPlato, Guardados

(* Both refuse to mark a dish for the same reason. *)
LEMMA MotivoListoIgual ==
  ASSUME Tablas, ~ Libera, NEW ped \in Pedidos, NEW d \in Platos
  PROVE  Promesa!MotivoListo(ped, d) = MotivoListo(ped, d)
<1>1. d \in DOMAIN Guardados[ped] <=> tiene_pagina(mem, <<ped, d>>)
  BY GuardadosEnTabla DEF Contenidos, tabla_de_platos
<1>2. Promesa!Busqueda(ped) = Busqueda(ped)
  BY BusquedaIgual
<1> QED BY <1>1, <1>2 DEF Promesa!MotivoListo, MotivoListo, Guardados

(* A dish that is written is written in the store, and no other. *)
LEMMA GuardadosCon ==
  ASSUME IInv, NEW ped \in Pedidos, NEW d \in Platos, NEW c,
         estado[ped] # "NULO",
         \A q \in Pedidos : estado'[q] = "NULO" <=> estado[q] = "NULO",
         ContenidoCon(mem, mem', <<ped, d>>, c)
  PROVE  Guardados' = [Guardados EXCEPT ![ped] =
           [x \in DOMAIN Guardados[ped] \cup {d} |->
              IF x = d THEN c ELSE Guardados[ped][x]]]
<1> DEFINE nuevo == [x \in DOMAIN Guardados[ped] \cup {d} |->
                       IF x = d THEN c ELSE Guardados[ped][x]]
<1>1. \A q \in Pedidos, x \in Platos : /\ <<q, x>> \in Paginas
                                       /\ <<q, x>> = <<ped, d>> <=> q = ped /\ x = d
  BY PaginaDePar
<1>2. ASSUME NEW q \in Pedidos, q # ped PROVE Guardados'[q] = Guardados[q]
  <2>1. tabla_de_platos(mem', q) = tabla_de_platos(mem, q)
    BY <1>1, <1>2 DEF tabla_de_platos, ContenidoCon
  <2>2. \A x \in tabla_de_platos(mem, q) : Valor(mem', <<q, x>>) = Valor(mem, <<q, x>>)
    BY <1>1, <1>2 DEF tabla_de_platos, ContenidoCon
  <2>3. Contenidos(mem', q) = Contenidos(mem, q)
    BY <2>1, <2>2 DEF Contenidos
  <2> QED BY <2>3, GuardadosDe, GuardadosDespues
<1>3. Guardados'[ped] = nuevo
  <2>1. tabla_de_platos(mem', ped) = tabla_de_platos(mem, ped) \cup {d}
    BY <1>1 DEF tabla_de_platos, ContenidoCon
  <2>2. \A x \in tabla_de_platos(mem', ped) :
          Valor(mem', <<ped, x>>) = IF x = d THEN c ELSE Valor(mem, <<ped, x>>)
    BY <1>1 DEF tabla_de_platos, ContenidoCon
  <2>3. Guardados[ped] = Contenidos(mem, ped) /\ Guardados'[ped] = Contenidos(mem', ped)
    BY GuardadosDe, GuardadosDespues
  <2>4. DOMAIN Guardados[ped] = tabla_de_platos(mem, ped)
        /\ \A x \in tabla_de_platos(mem, ped) : Guardados[ped][x] = Valor(mem, <<ped, x>>)
    BY <2>3 DEF Contenidos
  <2>5. nuevo = [x \in tabla_de_platos(mem', ped) |-> Valor(mem', <<ped, x>>)]
    BY <2>1, <2>2, <2>4
  <2> QED BY <2>3, <2>5 DEF Contenidos
<1>4. Guardados' = [q \in Pedidos |-> Guardados'[q]]
      /\ Guardados = [q \in Pedidos |-> Guardados[q]]
  BY DEF Guardados
<1> HIDE DEF nuevo
<1>5. Guardados' = [Guardados EXCEPT ![ped] = nuevo]
  BY <1>2, <1>3, <1>4
<1> QED BY <1>5 DEF nuevo

(* Nothing stored changes while the pages keep their contents, even if     *)
(* an order without dishes enters its table.                               *)
LEMMA GuardadosQuietos ==
  ASSUME Tablas, Tablas', ~ Libera, ~ Libera', MismoContenido(mem, mem')
  PROVE  Guardados' = Guardados
<1>1. ASSUME NEW ped \in Pedidos PROVE Guardados'[ped] = Contenidos(mem', ped)
  <2>1. CASE estado'[ped] = "NULO"
    <3>1. tabla_de_platos(mem', ped) = {}
      BY <2>1 DEF Tablas, tabla_de_platos
    <3> QED BY <2>1, <3>1, GuardadosDespues DEF Contenidos
  <2> QED BY <2>1, GuardadosDespues
<1>2. \A ped \in Pedidos : Guardados'[ped] = Guardados[ped]
  BY <1>1, GuardadosEnTabla, ContenidosIguales
<1>3. Guardados' = [ped \in Pedidos |-> Guardados'[ped]]
      /\ Guardados = [ped \in Pedidos |-> Guardados[ped]]
  BY DEF Guardados
<1> QED BY <1>2, <1>3

-----------------------------------------------------------------------------
(* The actions of the abstract store, in terms of Guardados and Leida.     *)

AbstractaLibre == Leida = SinRespuesta /\ ~ caido

(* guardar_pedido *)
LEMMA PuenteGuardarPedido ==
  ASSUME NEW ped, AbstractaLibre, Guardados' = Guardados, UNCHANGED caido,
         \/ /\ estado[ped] = "NULO"
            /\ estado' = [estado EXCEPT ![ped] = "PENDIENTE"]
            /\ Leida' = Descripcion("GUARDAR_PEDIDO", "OK")
         \/ /\ estado[ped] # "NULO"
            /\ estado' = estado
            /\ Leida' = Descripcion("GUARDAR_PEDIDO", "PEDIDO_REPETIDO")
  PROVE  Promesa!GuardarPedido(ped)
BY MismosNombres DEF Promesa!GuardarPedido, Promesa!Libre, Promesa!Responder, Guardados, Leida,
                     AbstractaLibre

(* guardar_plato *)
LEMMA PuenteGuardarPlato ==
  ASSUME NEW ped, NEW d, NEW c, AbstractaLibre, UNCHANGED <<estado, caido>>,
         Leida' = Descripcion("GUARDAR_PLATO", Promesa!MotivoPlato(ped, d)),
         Guardados' = IF Promesa!MotivoPlato(ped, d) = "OK"
                      THEN [Guardados EXCEPT ![ped] = Promesa!ConPlato(@, d, c)]
                      ELSE Guardados
  PROVE  Promesa!GuardarPlato(ped, d, c)
BY MismosNombres DEF Promesa!GuardarPlato, Promesa!Libre, Promesa!Responder, Guardados, Leida,
                     AbstractaLibre

(* obtener_pedido *)
LEMMA PuenteObtenerPedido ==
  ASSUME NEW ped, AbstractaLibre, Guardados' = Guardados, UNCHANGED <<estado, caido>>,
         Leida' = IF Promesa!Busqueda(ped) = "OK"
                  THEN Respuesta("OBTENER_PEDIDO", "OK", estado[ped],
                                 {<<d, Guardados[ped][d]>> : d \in DOMAIN Guardados[ped]})
                  ELSE Descripcion("OBTENER_PEDIDO", Promesa!Busqueda(ped))
  PROVE  Promesa!ObtenerPedido(ped)
BY MismosNombres DEF Promesa!ObtenerPedido, Promesa!Libre, Guardados, Leida, AbstractaLibre

(* confirmar_pedido *)
LEMMA PuenteConfirmarPedido ==
  ASSUME NEW ped, AbstractaLibre, Guardados' = Guardados, UNCHANGED caido,
         NEW motivo,
         motivo = IF Promesa!Busqueda(ped) = "OK" /\ estado[ped] # "PENDIENTE"
                  THEN "ESTADO_INVALIDO" ELSE Promesa!Busqueda(ped),
         Leida' = Descripcion("CONFIRMAR_PEDIDO", motivo),
         estado' = IF motivo = "OK" THEN [estado EXCEPT ![ped] = "CONFIRMADO"] ELSE estado
  PROVE  Promesa!ConfirmarPedido(ped)
BY MismosNombres DEF Promesa!ConfirmarPedido, Promesa!Libre, Promesa!Responder, Guardados,
                     Leida, AbstractaLibre

(* plato_listo *)
LEMMA PuentePlatoListo ==
  ASSUME NEW ped, NEW d, AbstractaLibre, UNCHANGED caido,
         Leida' = Descripcion("PLATO_LISTO", Promesa!MotivoListo(ped, d)),
         NEW despues,
         despues = [Guardados[ped] EXCEPT ![d].cantidad_lista = (@ + 1) % Modulo],
         \/ /\ Promesa!MotivoListo(ped, d) = "OK"
            /\ Guardados' = [Guardados EXCEPT ![ped] = despues]
            /\ estado' = IF \A x \in DOMAIN despues : Completo(despues[x])
                         THEN [estado EXCEPT ![ped] = "TERMINADO"] ELSE estado
         \/ /\ Promesa!MotivoListo(ped, d) # "OK"
            /\ Guardados' = Guardados
            /\ estado' = estado
  PROVE  Promesa!PlatoListo(ped, d)
BY MismosNombres DEF Promesa!PlatoListo, Promesa!Libre, Promesa!Responder, Guardados, Leida,
                     AbstractaLibre

(* finalizar_pedido *)
LEMMA PuenteFinalizarPedido ==
  ASSUME NEW ped, AbstractaLibre, UNCHANGED caido,
         Leida' = Descripcion("FINALIZAR_PEDIDO", Promesa!Busqueda(ped)),
         estado' = [estado EXCEPT ![ped] = "NULO"],
         Guardados' = [Guardados EXCEPT ![ped] = [d \in {} |-> 0]]
  PROVE  Promesa!FinalizarPedido(ped)
BY MismosNombres DEF Promesa!FinalizarPedido, Promesa!Libre, Promesa!Responder, Guardados,
                     Leida, AbstractaLibre

(* The console reads an answer. *)
LEMMA PuenteRecibir ==
  ASSUME Leida # SinRespuesta, Leida' = SinRespuesta, Guardados' = Guardados,
         UNCHANGED <<estado, caido>>
  PROVE  Promesa!Recibir
BY MismosNombres DEF Promesa!Recibir, Guardados, Leida

(* The server dies. *)
LEMMA PuenteCaer ==
  ASSUME AbstractaLibre, caido', Guardados' = Guardados, Leida' = Leida,
         UNCHANGED estado, caido' \in BOOLEAN
  PROVE  Promesa!Caer
<1>1. caido' = TRUE
  OBVIOUS
<1> QED BY <1>1, MismosNombres DEF Promesa!Caer, Promesa!Libre, Guardados, Leida, AbstractaLibre

-----------------------------------------------------------------------------
(* The steps of the server, one by one.                                    *)

(* A server that is free is a store that is free. *)
LEMMA LibreAbstracta ==
  ASSUME Libre
  PROVE  AbstractaLibre /\ ~ EnCurso /\ ~ Libera /\ Leida = respuesta
BY DEF Libre, AbstractaLibre, Leida, EnCurso, Libera

(* So is one that is serving anything but finalizar_pedido. *)
LEMMA SirviendoAbstracta ==
  ASSUME Segmentos, EnCurso, ~ Libera, ~ caido
  PROVE  AbstractaLibre /\ Leida = respuesta
BY DEF Segmentos, AbstractaLibre, Leida, EnCurso, Libera

(* A request that only gets an answer is one of the store. *)
LEMMA Rechazada ==
  ASSUME Libre, NEW op, NEW r, Rechazar(op, r)
  PROVE  /\ AbstractaLibre /\ ~ Libera /\ r # "OK"
         /\ UNCHANGED <<estado, caido>> /\ Guardados' = Guardados
         /\ Leida' = Descripcion(op, r)
<1>1. MismoContenido(mem, mem') /\ UNCHANGED <<estado, caido, hilo>>
      /\ respuesta' = Descripcion(op, r) /\ r # "OK" /\ hilo = Reposo
  BY DEF Rechazar, Responder, Libre, MismoContenido
<1> QED BY <1>1, GuardadosIguales, LibreAbstracta DEF Leida

(* guardar_pedido, atomic as it is. *)
LEMMA PasoGuardarPedido ==
  ASSUME TInv, TInv', NEW ped \in Pedidos, GuardarPedido(ped)
  PROVE  Promesa!GuardarPedido(ped)
<1>1. CASE CreadoUno(ped)
  <2>1. /\ Libre /\ UNCHANGED <<mem, hilo, caido>>
        /\ estado' = [estado EXCEPT ![ped] = "PENDIENTE"]
        /\ respuesta' = Descripcion("GUARDAR_PEDIDO", "OK")
    BY <1>1 DEF CreadoUno, Responder
  <2>2. AbstractaLibre /\ ~ Libera /\ ~ Libera' /\ MismoContenido(mem, mem')
    BY <2>1, LibreAbstracta DEF Libera, EnCurso, MismoContenido
  <2>3. estado[ped] = "NULO"
    BY <1>1 DEF CreadoUno, TInv, Tablas
  <2>4. Guardados' = Guardados
    BY <2>2, GuardadosQuietos DEF TInv
  <2>5. Leida' = Descripcion("GUARDAR_PEDIDO", "OK")
    BY <2>1 DEF Leida, Libre
  <2> QED BY <2>1, <2>2, <2>3, <2>4, <2>5, PuenteGuardarPedido
<1>2. CASE PedidoRepetido(ped)
  <2>1. Libre /\ Rechazar("GUARDAR_PEDIDO", "PEDIDO_REPETIDO") /\ estado[ped] # "NULO"
    BY <1>2, BusquedaOK DEF PedidoRepetido
  <2> QED BY <2>1, Rechazada, PuenteGuardarPedido
<1> QED BY <1>1, <1>2, GuardarPedidoEfecto

(* guardar_plato stores its quantity at once, evictions and all, or dies. *)
LEMMA PasoGuardarPlato ==
  ASSUME TInv, TInv', NEW ped \in Pedidos, NEW d \in Platos, NEW c \in Cantidades,
         GuardarPlato(ped, d, c)
  PROVE  Promesa!GuardarPlato(ped, d, c) \/ Promesa!Caer
<1> DEFINE p == Pagina(ped, d)
           motivo == Promesa!MotivoPlato(ped, d)
           antes == Guardados[ped]
<1>1. EfectoGuardar(ped, d, c) /\ Libre
  BY GuardarPlatoEfecto DEF TInv, EfectoGuardar
<1>2. AbstractaLibre /\ ~ Libera /\ ~ EnCurso /\ Leida = respuesta
  BY <1>1, LibreAbstracta
<1>3. motivo = IF MotivoPlato(ped) # "OK" THEN MotivoPlato(ped)
               ELSE IF ~ tiene_pagina(mem, p) /\ SwapCompleto THEN "SIN_ESPACIO" ELSE "OK"
  BY <1>2, MotivoPlatoIgual DEF TInv, Pagina
<1> HIDE DEF motivo
<1>4. CASE SinGuardar(ped, d)
  <2>1. motivo # "OK" /\ Rechazar("GUARDAR_PLATO", motivo)
    BY <1>3, <1>4 DEF SinGuardar, Rechazar
  <2> QED BY <1>1, <2>1, Rechazada, PuenteGuardarPlato DEF motivo
<1>5. ASSUME NEW nuevo, MotivoPlato(ped) = "OK", motivo = "OK", PlatoGuardado(mem'),
             ContenidoCon(mem, mem', p, nuevo),
             nuevo = IF d \in DOMAIN antes THEN Sumado(antes[d], c) ELSE Nuevo(c)
      PROVE  Promesa!GuardarPlato(ped, d, c)
  <2>1. /\ UNCHANGED <<estado, hilo, caido>> /\ estado[ped] # "NULO"
        /\ respuesta' = Descripcion("GUARDAR_PLATO", "OK")
    BY <1>5 DEF PlatoGuardado, Responder, MotivoPlato, Busqueda
  <2>2. Leida' = Descripcion("GUARDAR_PLATO", "OK")
    BY <1>1, <2>1 DEF Leida, Libre
  <2>3. Guardados' = [Guardados EXCEPT ![ped] =
          [x \in DOMAIN antes \cup {d} |-> IF x = d THEN nuevo ELSE antes[x]]]
    BY <1>5, <2>1, GuardadosCon DEF TInv, Pagina
  <2>4. [x \in DOMAIN antes \cup {d} |-> IF x = d THEN nuevo ELSE antes[x]]
          = Promesa!ConPlato(antes, d, c)
    BY <1>5 DEF Promesa!ConPlato, Sumado, Nuevo
  <2>5. Guardados' = [Guardados EXCEPT ![ped] = Promesa!ConPlato(@, d, c)]
    BY <2>3, <2>4
  <2> QED BY <1>2, <1>5, <2>1, <2>2, <2>5, PuenteGuardarPlato DEF motivo
<1>6. antes = Contenidos(mem, ped)
  BY <1>2, GuardadosEnTabla DEF TInv
<1>7. CASE Aumentado(ped, d, c)
  <2>1. d \in DOMAIN antes /\ antes[d] = Valor(mem, p) /\ motivo = "OK"
    BY <1>3, <1>6, <1>7 DEF Aumentado, Contenidos, tabla_de_platos, Pagina
  <2> HIDE DEF antes, p
  <2> QED BY <1>5, <1>7, <2>1 DEF Aumentado, p
<1>8. CASE Agregado(ped, d, c)
  <2>1. d \notin DOMAIN antes /\ motivo = "OK"
    BY <1>3, <1>6, <1>8 DEF Agregado, Contenidos, tabla_de_platos, Pagina
  <2> HIDE DEF antes, p
  <2> QED BY <1>5, <1>8, <2>1 DEF Agregado, p
<1>9. CASE MuertoGuardando(ped, d)
  <2>1. /\ caido' /\ UNCHANGED <<estado, mem, respuesta>> /\ hilo'.op = "GUARDAR_PLATO"
    BY <1>9, MuertoGuardandoEfecto
  <2>2. Guardados' = Guardados /\ Leida' = Leida
    BY <1>2, <2>1, GuardadosIguales DEF Leida, MismoContenido
  <2>3. caido' \in BOOLEAN
    BY DEF TInv, IInv, TypeOK
  <2> QED BY <1>2, <2>1, <2>2, <2>3, PuenteCaer
<1> QED BY <1>1, <1>4, <1>7, <1>8, <1>9 DEF EfectoGuardar

(* Pinning an order is not seen. *)
LEMMA PasoFijar ==
  ASSUME TInv, TInv', NEW op \in {"OBTENER_PEDIDO", "PLATO_LISTO"}, NEW ped,
         FijadoUno(op, ped)
  PROVE  UNCHANGED Promesa!vars
<1>1. /\ Libre /\ MismoContenido(mem, mem') /\ UNCHANGED <<estado, respuesta, caido>>
      /\ hilo'.op = op
  BY DEF FijadoUno
<1>2. Guardados' = Guardados
  BY <1>1, GuardadosIguales
<1>3. Leida' = Leida
  BY <1>1 DEF Leida, Libre
<1> QED BY <1>1, <1>2, <1>3, Callado

(* An obtener_pedido that begins answers with the reason or is not seen. *)
LEMMA PasoObtenerPedido ==
  ASSUME TInv, TInv', NEW ped \in Pedidos, ObtenerPedido(ped)
  PROVE  Promesa!ObtenerPedido(ped) \/ UNCHANGED Promesa!vars
<1>1. IInv /\ Tablas
  BY DEF TInv
<1>2. CASE FijadoUno("OBTENER_PEDIDO", ped)
  BY <1>2, PasoFijar
<1>3. CASE Libre /\ Rechazar("OBTENER_PEDIDO", Busqueda(ped))
  <2>1. /\ AbstractaLibre /\ ~ Libera /\ Busqueda(ped) # "OK"
        /\ UNCHANGED <<estado, caido>> /\ Guardados' = Guardados
        /\ Leida' = Descripcion("OBTENER_PEDIDO", Busqueda(ped))
    BY <1>3, Rechazada
  <2>2. Promesa!Busqueda(ped) = Busqueda(ped)
    BY <1>1, <2>1, BusquedaIgual
  <2> QED BY <2>1, <2>2, PuenteObtenerPedido
<1> QED BY <1>1, <1>2, <1>3, ObtenerPedidoEfecto

(* A plato_listo that begins answers with the reason or is not seen. *)
LEMMA PasoPlatoListo ==
  ASSUME TInv, TInv', NEW ped \in Pedidos, NEW d \in Platos, PlatoListo(ped, d)
  PROVE  Promesa!PlatoListo(ped, d) \/ UNCHANGED Promesa!vars
<1>1. IInv /\ Tablas
  BY DEF TInv
<1>2. CASE FijadoUno("PLATO_LISTO", ped)
  BY <1>2, PasoFijar
<1>3. CASE Libre /\ Rechazar("PLATO_LISTO", MotivoListo(ped, d))
  <2>1. /\ AbstractaLibre /\ ~ Libera /\ MotivoListo(ped, d) # "OK"
        /\ UNCHANGED <<estado, caido>> /\ Guardados' = Guardados
        /\ Leida' = Descripcion("PLATO_LISTO", MotivoListo(ped, d))
    BY <1>3, Rechazada
  <2>2. Promesa!MotivoListo(ped, d) = MotivoListo(ped, d)
    BY <1>1, <2>1, MotivoListoIgual
  <2> QED BY <2>1, <2>2, PuentePlatoListo
<1> QED BY <1>1, <1>2, <1>3, PlatoListoEfecto

(* A step of the raise is not seen, or the server dies. *)
LEMMA PasoLevantar ==
  ASSUME TInv, TInv', LevantarPagina
  PROVE  Promesa!Caer \/ UNCHANGED Promesa!vars
<1>1. Levanta /\ ~ caido /\ (LevantadaUna \/ MuertoLevantando)
  BY LevantarEfecto DEF TInv
<1>2. AbstractaLibre /\ ~ Libera /\ EnCurso /\ Leida = respuesta
  BY <1>1, SirviendoAbstracta DEF TInv, Levanta, Libera
<1>3. CASE LevantadaUna
  <2>1. /\ MismoContenido(mem, mem') /\ UNCHANGED <<estado, respuesta, caido>>
        /\ hilo'.op = hilo.op
    BY <1>2, <1>3, SiguePendiente DEF LevantadaUna, TInv, IInv
  <2>2. Guardados' = Guardados /\ Leida' = Leida
    BY <1>1, <1>2, <2>1, GuardadosIguales DEF Leida, Levanta
  <2> QED BY <2>1, <2>2, Callado
<1>4. CASE MuertoLevantando
  <2>1. caido' /\ UNCHANGED <<estado, mem, respuesta, hilo>>
    BY <1>4 DEF MuertoLevantando, Morir
  <2>2. Guardados' = Guardados /\ Leida' = Leida
    BY <2>1, GuardadosIguales DEF Leida, MismoContenido
  <2>3. caido' \in BOOLEAN
    BY DEF TInv, IInv, TypeOK
  <2> QED BY <1>2, <2>1, <2>2, <2>3, PuenteCaer
<1> QED BY <1>1, <1>3, <1>4

(* The end of obtener_pedido answers as if it had read the order at once. *)
LEMMA PasoTerminarObtener ==
  ASSUME TInv, TInv', TerminarObtener
  PROVE  \E ped \in Pedidos : Promesa!ObtenerPedido(ped)
<1>0. PICK ped \in Pedidos : ped = hilo.pedido
  BY HiloEnCurso DEF TerminarObtener, En, EnCurso, TInv, IInv
<1>1. /\ Levanta /\ ~ Libera /\ EnCurso /\ ~ caido /\ hilo' = Reposo
      /\ UNCHANGED <<estado, caido>>
      /\ respuesta' = Respuesta("OBTENER_PEDIDO", "OK", estado[ped],
                                lista_de_platos(mem, ped))
  BY <1>0 DEF TerminarObtener, En, EnCurso, Levanta, Libera
<1>2. estado[ped] # "NULO"
  BY <1>0, <1>1 DEF TInv, Segmentos
<1>3. AbstractaLibre
  BY <1>1, SirviendoAbstracta DEF TInv
<1>4. MismoContenido(mem, mem') /\
      lista_de_platos(mem, ped)
        = {<<d, Valor(mem, <<ped, d>>)>> : d \in tabla_de_platos(mem, ped)}
  BY <1>0, ObtenerEfecto DEF TInv
<1>5. Guardados' = Guardados
  BY <1>1, <1>4, GuardadosIguales
<1>6. Promesa!Busqueda(ped) = "OK"
  <2>1. Busqueda(ped) = "OK"
    BY <1>2 DEF Busqueda, TInv, Tablas
  <2> QED BY <1>1, <1>2, <2>1, BusquedaIgual DEF TInv
<1>7. {<<d, Guardados[ped][d]>> : d \in DOMAIN Guardados[ped]} = lista_de_platos(mem, ped)
  <2>1. Guardados[ped] = Contenidos(mem, ped)
    BY <1>2, GuardadosDe
  <2> QED BY <1>4, <2>1 DEF Contenidos
<1>8. Leida' = respuesta'
  BY <1>1 DEF Leida
<1>9. Promesa!ObtenerPedido(ped)
  BY <1>1, <1>3, <1>5, <1>6, <1>7, <1>8, PuenteObtenerPedido
<1> QED BY <1>9

(* The end of plato_listo counts the dish, and terminates the order, as if *)
(* it had worked on it at once.                                            *)
LEMMA PasoTerminarListo ==
  ASSUME TInv, TInv', TerminarPlatoListo
  PROVE  \E ped \in Pedidos, d \in Platos : Promesa!PlatoListo(ped, d)
<1>0. PICK ped \in Pedidos, d \in Platos : ped = hilo.pedido /\ d = hilo.plato
  BY HiloEnCurso, ListoEfecto DEF TerminarPlatoListo, En, EnCurso, TInv, IInv
<1> DEFINE p == <<ped, d>>
           antes == Guardados[ped]
           despues == [antes EXCEPT ![d].cantidad_lista = (@ + 1) % Modulo]
<1>1. /\ EnCurso /\ ~ Libera /\ ~ caido /\ hilo.op = "PLATO_LISTO" /\ hilo' = Reposo
      /\ caido' = caido /\ respuesta' = Descripcion("PLATO_LISTO", "OK")
  BY DEF TerminarPlatoListo, En, EnCurso, Libera, Responder
<1>2. estado[ped] = "CONFIRMADO"
  BY <1>0, <1>1 DEF TInv, Segmentos
<1>3. tiene_pagina(mem, p)
  BY <1>0, ListoEfecto DEF TInv
<1>4. /\ ContenidoCon(mem, mem', p, Contado(Valor(mem, p)))
      /\ estado' = IF \A x \in tabla_de_platos(mem', ped) : Completo(Valor(mem', <<ped, x>>))
                   THEN [estado EXCEPT ![ped] = "TERMINADO"] ELSE estado
  BY <1>0, ListoEfecto DEF TInv, ListoUno
<1>5. AbstractaLibre
  BY <1>1, SirviendoAbstracta DEF TInv
<1>6. MotivoListo(ped, d) = "OK"
  <2>1. Busqueda(ped) = "OK"
    BY <1>2 DEF Busqueda, TInv, Tablas
  <2> QED BY <1>2, <1>3, <2>1 DEF MotivoListo
<1>7. Promesa!MotivoListo(ped, d) = "OK"
  BY <1>1, <1>2, <1>3, <1>6, MotivoListoIgual DEF TInv
<1>8. antes = Contenidos(mem, ped) /\ d \in DOMAIN antes /\ antes[d] = Valor(mem, p)
  BY <1>2, <1>3, GuardadosDe DEF Contenidos, tabla_de_platos
<1>9. \A q \in Pedidos : estado'[q] = "NULO" <=> estado[q] = "NULO"
  BY <1>2, <1>4 DEF TInv, IInv, TypeOK
<1>10. PICK c : c = Contado(antes[d])
  OBVIOUS
<1>11. Guardados' = [Guardados EXCEPT ![ped] = despues]
  <2>1. ContenidoCon(mem, mem', p, c) /\ IInv /\ estado[ped] # "NULO"
    BY <1>2, <1>4, <1>8, <1>10 DEF TInv
  <2>2. Guardados' = [Guardados EXCEPT ![ped] =
          [x \in DOMAIN antes \cup {d} |-> IF x = d THEN c ELSE antes[x]]]
    BY <1>9, <2>1, GuardadosCon
  <2> HIDE DEF antes
  <2>3. despues = [x \in DOMAIN antes \cup {d} |-> IF x = d THEN c ELSE antes[x]]
    BY <1>8, <1>10 DEF Contado
  <2> HIDE DEF despues
  <2> QED BY <2>2, <2>3 DEF antes
<1>12. despues = Contenidos(mem', ped)
  <2>1. Guardados'[ped] = Contenidos(mem', ped)
    BY <1>2, <1>9, GuardadosDespues
  <2>2. Guardados'[ped] = despues
    <3> HIDE DEF despues
    <3>1. ped \in DOMAIN Guardados
      BY <1>2 DEF Guardados
    <3> QED BY <1>11, <3>1
  <2> QED BY <2>1, <2>2
<1> HIDE DEF despues, antes
<1>13. (\A x \in DOMAIN despues : Completo(despues[x]))
         <=> \A x \in tabla_de_platos(mem', ped) : Completo(Valor(mem', <<ped, x>>))
  BY <1>12 DEF Contenidos
<1>14. Leida' = Descripcion("PLATO_LISTO", "OK")
  BY <1>1 DEF Leida
<1>15. Promesa!PlatoListo(ped, d)
  <2>1. estado' = IF \A x \in DOMAIN despues : Completo(despues[x])
                  THEN [estado EXCEPT ![ped] = "TERMINADO"] ELSE estado
    BY <1>4, <1>13
  <2>2. despues = [Guardados[ped] EXCEPT ![d].cantidad_lista = (@ + 1) % Modulo]
    BY DEF despues, antes
  <2>3. UNCHANGED caido /\ Leida' = Descripcion("PLATO_LISTO", Promesa!MotivoListo(ped, d))
    BY <1>1, <1>7, <1>14
  <2> HIDE DEF despues
  <2> QED BY <1>5, <1>7, <1>11, <2>1, <2>2, <2>3, PuentePlatoListo
<1> QED BY <1>15

(* confirmar_pedido, atomic as it is. *)
LEMMA PasoConfirmarPedido ==
  ASSUME TInv, TInv', NEW ped \in Pedidos, ConfirmarPedido(ped)
  PROVE  Promesa!ConfirmarPedido(ped)
<1>1. CASE Libre /\ Rechazar("CONFIRMAR_PEDIDO", MotivoConfirmar(ped))
  <2>1. /\ AbstractaLibre /\ ~ Libera /\ MotivoConfirmar(ped) # "OK"
        /\ UNCHANGED <<estado, caido>> /\ Guardados' = Guardados
        /\ Leida' = Descripcion("CONFIRMAR_PEDIDO", MotivoConfirmar(ped))
    BY <1>1, Rechazada
  <2>2. Promesa!Busqueda(ped) = Busqueda(ped)
    BY <2>1, BusquedaIgual DEF TInv
  <2> QED BY <2>1, <2>2, PuenteConfirmarPedido DEF MotivoConfirmar
<1>2. CASE /\ Libre
           /\ MotivoConfirmar(ped) = "OK"
           /\ estado' = [estado EXCEPT ![ped] = "CONFIRMADO"]
           /\ Responder("CONFIRMAR_PEDIDO", "OK")
           /\ UNCHANGED <<restaurantes, mem, hilo, caido>>
  <2>1. AbstractaLibre /\ ~ Libera /\ ~ Libera' /\ MismoContenido(mem, mem')
    BY <1>2, LibreAbstracta DEF Libera, EnCurso, MismoContenido
  <2>2. Promesa!Busqueda(ped) = Busqueda(ped)
    BY <2>1, BusquedaIgual DEF TInv
  <2>3. Guardados' = Guardados
    BY <2>1, GuardadosQuietos DEF TInv
  <2>4. Leida' = Descripcion("CONFIRMAR_PEDIDO", "OK")
    BY <1>2 DEF Leida, Libre, Responder
  <2> QED BY <1>2, <2>1, <2>2, <2>3, <2>4, PuenteConfirmarPedido DEF MotivoConfirmar
<1> QED BY <1>1, <1>2 DEF ConfirmarPedido

(* finalizar_pedido is over for the store when the segment leaves the      *)
(* table, before its pages are freed.                                      *)
LEMMA PasoFinalizarPedido ==
  ASSUME TInv, TInv', NEW ped \in Pedidos, FinalizarPedido(ped)
  PROVE  Promesa!FinalizarPedido(ped)
<1>1. estado \in [Pedidos -> Estados] /\ Guardados = [q \in Pedidos |-> Guardados[q]]
  BY DEF TInv, IInv, TypeOK, Guardados
<1>2. CASE Libre /\ Rechazar("FINALIZAR_PEDIDO", Busqueda(ped))
  <2>1. /\ AbstractaLibre /\ ~ Libera /\ Busqueda(ped) # "OK"
        /\ UNCHANGED <<estado, caido>> /\ Guardados' = Guardados
        /\ Leida' = Descripcion("FINALIZAR_PEDIDO", Busqueda(ped))
    BY <1>2, Rechazada
  <2>2. Promesa!Busqueda(ped) = Busqueda(ped)
    BY <2>1, BusquedaIgual DEF TInv
  <2>3. estado[ped] = "NULO"
    BY <2>1 DEF Busqueda, TInv, Tablas
  <2>4. Guardados[ped] = [d \in {} |-> 0]
    BY <2>3, GuardadosDe
  <2>5. estado' = [estado EXCEPT ![ped] = "NULO"]
        /\ Guardados' = [Guardados EXCEPT ![ped] = [d \in {} |-> 0]]
    BY <1>1, <2>1, <2>3, <2>4
  <2> QED BY <2>1, <2>2, <2>5, PuenteFinalizarPedido
<1>3. CASE FinalizadoUno(ped)
  <2>1. /\ Libre /\ Busqueda(ped) = "OK" /\ UNCHANGED <<mem, caido>>
        /\ estado' = [estado EXCEPT ![ped] = "NULO"]
        /\ EnCurso' /\ hilo'.op = "FINALIZAR_PEDIDO"
    BY <1>3 DEF FinalizadoUno
  <2>2. AbstractaLibre /\ ~ Libera /\ Promesa!Busqueda(ped) = "OK"
    BY <2>1, LibreAbstracta, BusquedaIgual DEF TInv
  <2>3. Leida' = Descripcion("FINALIZAR_PEDIDO", "OK")
    BY <2>1 DEF Leida, EnCurso
  <2>4. \A q \in Pedidos : Guardados'[q] = IF q = ped THEN [d \in {} |-> 0] ELSE Guardados[q]
    BY <1>1, <2>1, GuardadosDe, GuardadosDespues
  <2>5. Guardados' = [q \in Pedidos |-> Guardados'[q]]
    BY DEF Guardados
  <2>6. Guardados' = [Guardados EXCEPT ![ped] = [d \in {} |-> 0]]
    BY <1>1, <2>4, <2>5
  <2> QED BY <2>1, <2>2, <2>3, <2>6, PuenteFinalizarPedido
<1> QED BY <1>2, <1>3, FinalizarPedidoEfecto

(* Freeing the pages is not seen. *)
LEMMA PasoLiberar ==
  ASSUME TInv, TInv', LiberarPagina
  PROVE  UNCHANGED Promesa!vars
<1>1. /\ EnCurso /\ Libera /\ UNCHANGED <<estado, respuesta, caido>>
      /\ hilo.pedido \in Pedidos /\ estado[hilo.pedido] = "NULO"
  <2>1. EnCurso /\ Libera /\ UNCHANGED <<estado, respuesta, caido>>
    BY DEF LiberarPagina, En, EnCurso, Libera
  <2> QED BY <2>1, HiloEnCurso DEF TInv, IInv, Segmentos
<1>2. PICK d \in hilo.pendientes :
        /\ d \in Platos
        /\ ContenidoSin(mem, mem', <<hilo.pedido, d>>)
        /\ hilo' = [hilo EXCEPT !.pendientes = @ \ {d}]
  BY LiberarEfecto DEF LiberadaUna, TInv
<1>3. Libera'
  BY <1>1, <1>2, SiguePendiente DEF TInv, IInv, Libera
<1>4. Leida' = Leida
  BY <1>1, <1>3 DEF Leida, Libera, EnCurso
<1>5. ASSUME NEW q \in Pedidos PROVE Guardados'[q] = Guardados[q]
  <2>1. CASE estado[q] = "NULO"
    BY <1>1, <2>1, GuardadosDe, GuardadosDespues
  <2>2. CASE estado[q] # "NULO"
    <3>1. \A x \in Platos : <<q, x>> \in Paginas /\ <<q, x>> # <<hilo.pedido, d>>
      BY <1>1, <2>2, PaginaDePar
    <3>2. tabla_de_platos(mem', q) = tabla_de_platos(mem, q)
      BY <1>2, <3>1 DEF tabla_de_platos, ContenidoSin
    <3>3. \A x \in tabla_de_platos(mem, q) : Valor(mem', <<q, x>>) = Valor(mem, <<q, x>>)
      BY <1>2, <3>1 DEF tabla_de_platos, ContenidoSin
    <3>4. Contenidos(mem', q) = Contenidos(mem, q)
      BY <3>2, <3>3 DEF Contenidos
    <3> QED BY <1>1, <2>2, <3>4, GuardadosDe, GuardadosDespues
  <2> QED BY <2>1, <2>2
<1>6. Guardados' = [q \in Pedidos |-> Guardados'[q]]
      /\ Guardados = [q \in Pedidos |-> Guardados[q]]
  BY DEF Guardados
<1>7. Guardados' = Guardados
  BY <1>5, <1>6
<1> QED BY <1>1, <1>4, <1>7, Callado

(* Neither is the end of finalizar_pedido: the store had answered already. *)
LEMMA PasoTerminarFinalizar ==
  ASSUME TInv, TInv', TerminarFinalizar
  PROVE  UNCHANGED Promesa!vars
<1>1. /\ EnCurso /\ Libera /\ UNCHANGED <<estado, mem, caido>> /\ hilo' = Reposo
      /\ respuesta' = Descripcion("FINALIZAR_PEDIDO", "OK")
  BY DEF TerminarFinalizar, En, EnCurso, Libera, Responder
<1>2. Leida' = Leida
  BY <1>1 DEF Leida, Libera, EnCurso
<1>3. Guardados' = Guardados
  BY <1>1, GuardadosIguales DEF MismoContenido
<1> QED BY <1>1, <1>2, <1>3, Callado

(* The console reads an answer only when no handler is in progress. *)
LEMMA PasoRecibir ==
  ASSUME TInv, TInv', Recibir
  PROVE  Promesa!Recibir
<1>1. /\ hilo = Reposo /\ respuesta # SinRespuesta /\ respuesta' = SinRespuesta
      /\ UNCHANGED <<estado, mem, hilo, caido>>
  BY DEF Recibir, TInv, Segmentos, EnCurso
<1>2. Leida = respuesta /\ Leida' = respuesta'
  BY <1>1 DEF Leida
<1>3. Guardados' = Guardados
  BY <1>1, GuardadosIguales DEF MismoContenido
<1> QED BY <1>1, <1>2, <1>3, PuenteRecibir

-----------------------------------------------------------------------------
(* The refinement.                                                         *)

(* The initial states map to the initial states of the store. *)
LEMMA InicioPromesa == Init => Promesa!Init
BY DEF Init, Promesa!Init, Promesa!SinRespuesta, Promesa!Descripcion, Promesa!Respuesta,
       SinRespuesta, Descripcion, Respuesta, Reposo, Promesa!SinPlatos, Promesa!Pedidos,
       Pedidos

(* A request of the console is one of the store, the end of the server or  *)
(* not seen yet.                                                           *)
LEMMA PasoSolicitud ==
  ASSUME TInv, TInv', Solicitud
  PROVE  Promesa!Next \/ UNCHANGED Promesa!vars
<1>1. PICK ped \in Pedidos :
        \/ GuardarPedido(ped)
        \/ ObtenerPedido(ped)
        \/ ConfirmarPedido(ped)
        \/ FinalizarPedido(ped)
        \/ \E d \in Platos : \/ PlatoListo(ped, d)
                             \/ \E c \in Cantidades : GuardarPlato(ped, d, c)
  BY DEF Solicitud
<1>2. ped \in Promesa!Pedidos
  BY MismosNombres
<1>3. CASE GuardarPedido(ped) \/ ConfirmarPedido(ped) \/ FinalizarPedido(ped)
  BY <1>2, <1>3, PasoGuardarPedido, PasoConfirmarPedido, PasoFinalizarPedido
     DEF Promesa!Next
<1>4. CASE ObtenerPedido(ped)
  BY <1>2, <1>4, PasoObtenerPedido DEF Promesa!Next
<1>5. CASE \E d \in Platos : PlatoListo(ped, d)
  BY <1>2, <1>5, PasoPlatoListo DEF Promesa!Next
<1>6. CASE \E d \in Platos : \E c \in Cantidades : GuardarPlato(ped, d, c)
  BY <1>2, <1>6, PasoGuardarPlato DEF Promesa!Next
<1> QED BY <1>1, <1>3, <1>4, <1>5, <1>6

(* The rest of a handler is the answer of the store, its end or not seen. *)
LEMMA PasoContinuar ==
  ASSUME TInv, TInv', Continuar
  PROVE  Promesa!Next \/ UNCHANGED Promesa!vars
<1>1. CASE LevantarPagina
  BY <1>1, PasoLevantar DEF Promesa!Next
<1>2. CASE TerminarObtener
  BY <1>2, PasoTerminarObtener, MismosNombres DEF Promesa!Next
<1>3. CASE TerminarPlatoListo
  BY <1>3, PasoTerminarListo, MismosNombres DEF Promesa!Next
<1>4. CASE LiberarPagina \/ TerminarFinalizar
  BY <1>4, PasoLiberar, PasoTerminarFinalizar
<1> QED BY <1>1, <1>2, <1>3, <1>4 DEF Continuar

(* Every step maps to a step of the store or to none. *)
LEMMA PasoPromesa ==
  TInv /\ TInv' /\ [Next]_vars => [Promesa!Next]_(Promesa!vars)
<1> SUFFICES ASSUME TInv, TInv', [Next]_vars
             PROVE  Promesa!Next \/ UNCHANGED Promesa!vars
  OBVIOUS
<1>1. CASE Recibir
  BY <1>1, PasoRecibir DEF Promesa!Next
<1>2. CASE UNCHANGED vars
  <2>1. Guardados' = Guardados /\ Leida' = Leida /\ UNCHANGED <<estado, caido>>
    BY <1>2, GuardadosIguales DEF vars, MismoContenido, Leida
  <2> QED BY <2>1, Callado
<1> QED BY <1>1, <1>2, PasoSolicitud, PasoContinuar DEF Next

(* The server implements the store of orders: whatever is evicted, loaded  *)
(* or reused, every answer is the one a store without pages would give,    *)
(* each operation atomic, and SIN_ESPACIO is said exactly when the swap    *)
(* space is full.                                                          *)
THEOREM Refinamiento == Spec => CumplePromesa
BY InicioPromesa, PasoPromesa, SiempreTInv, PTL DEF Spec, CumplePromesa, Promesa!Spec

-----------------------------------------------------------------------------
(* What follows from the refinement.                                       *)

(* A quantity that a page holds has both fields. *)
LEMMA ValorBien ==
  ASSUME NEW m, MemoriaBien(m), NEW p \in Paginas, tiene_pagina(m, p)
  PROVE  Valor(m, p) \in Contenido
<1>1. /\ m.mp \in [FramesMP -> Contenido] /\ m.mv \in [FramesMV -> Contenido]
      /\ m.paginas[p].frame_mp \in FramesMP \cup {-1}
      /\ m.paginas[p].frame_mv \in FramesMV \cup {-1}
      /\ m.paginas[p].presencia <=> m.paginas[p].frame_mp # -1
  BY DEF MemoriaBien, Memorias, FramesBien, Info, InfoPagina
<1> QED BY <1>1 DEF Valor, ContenidoMP, tiene_pagina

(* So has a quantity that is stored. *)
LEMMA GuardadosBien ==
  ASSUME TInv, NEW ped \in Pedidos
  PROVE  /\ Guardados[ped] \in [DOMAIN Guardados[ped] -> Contenido]
         /\ DOMAIN Guardados = Pedidos /\ estado \in [Pedidos -> Estados]
<1>1. \A d \in tabla_de_platos(mem, ped) : Valor(mem, <<ped, d>>) \in Contenido
  BY ValorBien, PaginaDePar DEF tabla_de_platos, TInv, IInv
<1>2. Contenidos(mem, ped) \in [tabla_de_platos(mem, ped) -> Contenido]
  BY <1>1 DEF Contenidos
<1>3. Guardados[ped] \in [DOMAIN Guardados[ped] -> Contenido]
  <2>1. CASE estado[ped] = "NULO"
    BY <2>1, GuardadosDe
  <2>2. CASE estado[ped] # "NULO"
    <3>1. Guardados[ped] = Contenidos(mem, ped)
      BY <2>2, GuardadosDe
    <3> QED BY <1>2, <3>1
  <2> QED BY <2>1, <2>2
<1> QED BY <1>3 DEF Guardados, TInv, IInv, TypeOK

(* The changes an order may go through in one step. *)
Igual(ped) == estado'[ped] = estado[ped] /\ Guardados'[ped] = Guardados[ped]

Abierto(ped) ==
  estado[ped] \notin {"CONFIRMADO", "TERMINADO"} /\ estado'[ped] # "TERMINADO"

Preparado(ped) ==
  /\ estado[ped] = "CONFIRMADO"
  /\ \E d \in DOMAIN Guardados[ped] :
       Guardados'[ped] = [Guardados[ped] EXCEPT ![d].cantidad_lista = (@ + 1) % Modulo]
  /\ estado'[ped] = IF \A x \in DOMAIN Guardados'[ped] : Completo(Guardados'[ped][x])
                    THEN "TERMINADO" ELSE "CONFIRMADO"

Cambio(ped) == Igual(ped) \/ Abierto(ped) \/ estado'[ped] = "NULO" \/ Preparado(ped)

(* A guardar_plato of the store changes only a pending order. *)
LEMMA CambioGuardarPlato ==
  ASSUME TInv, NEW ped \in Pedidos, NEW d, NEW c, Promesa!GuardarPlato(ped, d, c),
         NEW q \in Pedidos
  PROVE  Cambio(q)
<1>1. /\ estado' = estado
      /\ Guardados' = IF Promesa!MotivoPlato(ped, d) = "OK"
                      THEN [Guardados EXCEPT ![ped] = Promesa!ConPlato(@, d, c)]
                      ELSE Guardados
  BY DEF Promesa!GuardarPlato, Guardados
<1>2. Promesa!MotivoPlato(ped, d) = "OK" => estado[ped] = "PENDIENTE"
  BY DEF Promesa!MotivoPlato
<1>3. DOMAIN Guardados = Pedidos
  BY GuardadosBien
<1> QED BY <1>1, <1>2, <1>3 DEF Cambio, Igual, Abierto

(* A plato_listo of the store counts one dish of a confirmed order. *)
LEMMA CambioPlatoListo ==
  ASSUME TInv, NEW ped \in Pedidos, NEW d, Promesa!PlatoListo(ped, d), NEW q \in Pedidos
  PROVE  Cambio(q)
<1> DEFINE despues == [Guardados[ped] EXCEPT ![d].cantidad_lista = (@ + 1) % Modulo]
<1>1. CASE Promesa!MotivoListo(ped, d) # "OK"
  <2>1. estado' = estado /\ Guardados' = Guardados
    BY <1>1 DEF Promesa!PlatoListo, Guardados
  <2> QED BY <2>1 DEF Cambio, Igual
<1>2. CASE Promesa!MotivoListo(ped, d) = "OK"
  <2>1. /\ Guardados' = [Guardados EXCEPT ![ped] = despues]
        /\ estado' = IF \A x \in DOMAIN despues : Completo(despues[x])
                     THEN [estado EXCEPT ![ped] = "TERMINADO"] ELSE estado
    BY <1>2, MismosNombres DEF Promesa!PlatoListo, Guardados
  <2>2. d \in DOMAIN Guardados[ped] /\ estado[ped] = "CONFIRMADO"
    BY <1>2 DEF Promesa!MotivoListo, Guardados
  <2>3. DOMAIN Guardados = Pedidos /\ estado \in [Pedidos -> Estados]
    BY GuardadosBien
  <2> HIDE DEF despues
  <2>4. CASE q # ped
    BY <2>1, <2>3, <2>4 DEF Cambio, Igual
  <2>5. CASE q = ped
    <3>1. Guardados'[q] = despues
      BY <2>1, <2>3, <2>5
    <3>2. estado'[q] = IF \A x \in DOMAIN Guardados'[q] : Completo(Guardados'[q][x])
                       THEN "TERMINADO" ELSE "CONFIRMADO"
      BY <2>1, <2>2, <2>3, <2>5, <3>1
    <3> QED BY <2>2, <2>5, <3>1, <3>2 DEF Cambio, Preparado, despues
  <2> QED BY <2>4, <2>5
<1> QED BY <1>1, <1>2

(* Every step of the store changes each order in one of those ways. *)
LEMMA CambioPromesa ==
  ASSUME TInv, [Promesa!Next]_(Promesa!vars), NEW q \in Pedidos
  PROVE  Cambio(q)
<1>0. DOMAIN Guardados = Pedidos /\ estado \in [Pedidos -> Estados]
  BY GuardadosBien
<1>1. CASE Promesa!Recibir \/ Promesa!Caer \/ UNCHANGED Promesa!vars
  <2>1. estado' = estado /\ Guardados' = Guardados
    BY <1>1 DEF Promesa!Recibir, Promesa!Caer, Promesa!vars, Guardados
  <2> QED BY <2>1 DEF Cambio, Igual
<1>2. ASSUME NEW ped \in Pedidos, Promesa!GuardarPedido(ped) PROVE Cambio(q)
  <2>1. /\ Guardados' = Guardados
        /\ \/ estado[ped] = "NULO" /\ estado' = [estado EXCEPT ![ped] = "PENDIENTE"]
           \/ estado' = estado
    BY <1>2 DEF Promesa!GuardarPedido, Guardados
  <2> QED BY <1>0, <2>1 DEF Cambio, Igual, Abierto
<1>3. ASSUME NEW ped \in Pedidos, Promesa!ObtenerPedido(ped) PROVE Cambio(q)
  BY <1>3 DEF Promesa!ObtenerPedido, Guardados, Cambio, Igual
<1>4. ASSUME NEW ped \in Pedidos, Promesa!ConfirmarPedido(ped) PROVE Cambio(q)
  <2>1. /\ Guardados' = Guardados
        /\ \/ estado[ped] = "PENDIENTE" /\ estado' = [estado EXCEPT ![ped] = "CONFIRMADO"]
           \/ estado' = estado
    BY <1>4 DEF Promesa!ConfirmarPedido, Guardados
  <2> QED BY <1>0, <2>1 DEF Cambio, Igual, Abierto
<1>5. ASSUME NEW ped \in Pedidos, Promesa!FinalizarPedido(ped) PROVE Cambio(q)
  <2>1. /\ estado' = [estado EXCEPT ![ped] = "NULO"]
        /\ Guardados' = [Guardados EXCEPT ![ped] = Promesa!SinPlatos]
    BY <1>5 DEF Promesa!FinalizarPedido, Guardados
  <2> QED BY <1>0, <2>1 DEF Cambio, Igual
<1> QED BY <1>1, <1>2, <1>3, <1>4, <1>5, CambioGuardarPlato, CambioPlatoListo, MismosNombres
        DEF Promesa!Next

(* Once an order is confirmed, no request to it or to another one changes  *)
(* which dishes it has nor the quantities asked for, until it is finalised.*)
THEOREM Cerrado == Spec => ConfirmadoCerrado
<1> DEFINE QuedaIgual(ped) ==
      estado[ped] \in {"CONFIRMADO", "TERMINADO"} /\ estado'[ped] # "NULO" =>
        /\ estado'[ped] # "PENDIENTE"
        /\ Promesa!Pedido(Guardados'[ped]) = Promesa!Pedido(Guardados[ped])
<1>1. ASSUME TInv, [Promesa!Next]_(Promesa!vars), NEW ped \in Pedidos PROVE QuedaIgual(ped)
  <2>1. Cambio(ped)
    BY <1>1, CambioPromesa
  <2>2. CASE Igual(ped) \/ Abierto(ped) \/ estado'[ped] = "NULO"
    BY <2>2 DEF Igual, Abierto
  <2>3. CASE Preparado(ped)
    <3>1. Guardados[ped] \in [DOMAIN Guardados[ped] -> Contenido]
      BY <1>1, GuardadosBien
    <3>2. PICK d \in DOMAIN Guardados[ped] :
            Guardados'[ped] = [Guardados[ped] EXCEPT ![d].cantidad_lista = (@ + 1) % Modulo]
      BY <2>3 DEF Preparado
    <3>3. /\ DOMAIN Guardados'[ped] = DOMAIN Guardados[ped]
          /\ \A x \in DOMAIN Guardados[ped] :
               Guardados'[ped][x].cantidad_total = Guardados[ped][x].cantidad_total
      BY <3>1, <3>2 DEF Contenido
    <3>4. estado'[ped] # "PENDIENTE"
      BY <2>3 DEF Preparado
    <3> QED BY <3>3, <3>4 DEF Promesa!Pedido
  <2> QED BY <2>1, <2>2, <2>3 DEF Cambio
<1>2. TInv /\ TInv' /\ [Next]_vars => [\A ped \in Promesa!Pedidos : QuedaIgual(ped)]_(Promesa!vars)
  BY <1>1, PasoPromesa, MismosNombres
<1> QED BY <1>2, SiempreTInv, PTL DEF Spec, ConfirmadoCerrado, Promesa!ConfirmadoCerrado, Guardados

(* What TerminadoCompleto says, of the store. *)
Terminados ==
  \A ped \in Pedidos : estado[ped] = "TERMINADO" =>
    /\ DOMAIN Guardados[ped] # {}
    /\ \A d \in DOMAIN Guardados[ped] : Completo(Guardados[ped][d])

(* Every step keeps it. *)
LEMMA TerminadosPaso ==
  ASSUME TInv, Terminados, [Promesa!Next]_(Promesa!vars)
  PROVE  Terminados'
<1> SUFFICES ASSUME NEW ped \in Pedidos, estado'[ped] = "TERMINADO"
             PROVE  /\ DOMAIN Guardados'[ped] # {}
                    /\ \A d \in DOMAIN Guardados'[ped] : Completo(Guardados'[ped][d])
  BY DEF Terminados
<1>1. Cambio(ped)
  BY CambioPromesa
<1>2. CASE Igual(ped)
  BY <1>2 DEF Igual, Terminados
<1>3. CASE Preparado(ped)
  <2>1. PICK d \in DOMAIN Guardados[ped] :
          Guardados'[ped] = [Guardados[ped] EXCEPT ![d].cantidad_lista = (@ + 1) % Modulo]
    BY <1>3 DEF Preparado
  <2>2. d \in DOMAIN Guardados'[ped]
    BY <2>1
  <2>3. \A x \in DOMAIN Guardados'[ped] : Completo(Guardados'[ped][x])
    BY <1>3 DEF Preparado
  <2> QED BY <2>2, <2>3
<1> QED BY <1>1, <1>2, <1>3 DEF Cambio, Abierto

(* An order is TERMINADO only with dishes, all of them complete, wherever  *)
(* their pages are.                                                        *)
THEOREM Completos == Spec => []TerminadoCompleto
<1>1. Init => Terminados
  BY DEF Init, Terminados
<1>2. TInv /\ TInv' /\ Terminados /\ [Next]_vars => Terminados'
  BY PasoPromesa, TerminadosPaso
<1>3. TInv /\ Terminados => TerminadoCompleto
  <2> SUFFICES ASSUME TInv, Terminados, NEW ped \in Pedidos, estado[ped] = "TERMINADO"
               PROVE  /\ tabla_de_platos(mem, ped) # {}
                      /\ \A d \in tabla_de_platos(mem, ped) :
                           Completo(Valor(mem, <<ped, d>>))
    BY DEF TerminadoCompleto
  <2>1. Guardados[ped] = Contenidos(mem, ped)
    BY GuardadosDe
  <2> QED BY <2>1 DEF Terminados, Contenidos
<1> QED BY <1>1, <1>2, <1>3, SiempreTInv, PTL DEF Spec

=============================================================================

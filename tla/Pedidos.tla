------------------------------- MODULE Pedidos -------------------------------
(***************************************************************************)
(* What comanda promises to a client that waits for each answer: a store   *)
(* of orders in which every operation is atomic.  There are no pages, no   *)
(* frames and no victims here; the only trace of the memory is that at     *)
(* most CantFramesMV dishes fit.  The server may also die while it serves  *)
(* a request (Caer): this specification says nothing of when.              *)
(***************************************************************************)
EXTENDS Interfaz, Integers, FiniteSets

CONSTANTS Restaurantes, Ids, Platos,
          CantFramesMV,    \* how many dishes fit in the swap space
          Modulo,          \* 2^32
          Cantidades       \* the quantities clients ask for

VARIABLES
  estado,      \* estado[pedido]: the state of each order
  platos,      \* platos[pedido]: a function from its dishes to quantities
  respuesta,   \* the answer the client has not read yet
  caido        \* the server process died

vars == <<estado, platos, respuesta, caido>>

Pedidos == Restaurantes \X Ids
SinPlatos == [d \in {} |-> 0]

Init ==
  /\ estado = [ped \in Pedidos |-> "NULO"]
  /\ platos = [ped \in Pedidos |-> SinPlatos]
  /\ respuesta = SinRespuesta
  /\ caido = FALSE

-----------------------------------------------------------------------------
Libre == respuesta = SinRespuesta /\ ~ caido

(* The two lookups every operation on an existing order starts with. *)
Busqueda(ped) ==
  IF \A id \in Ids : estado[<<ped[1], id>>] = "NULO" THEN "SIN_RESTAURANTE"
  ELSE IF estado[ped] = "NULO" THEN "SIN_PEDIDO" ELSE "OK"

Ocupacion == Cardinality({x \in Pedidos \X Platos : x[2] \in DOMAIN platos[x[1]]})

Responder(op, resultado) == respuesta' = Descripcion(op, resultado)

GuardarPedido(ped) ==
  /\ Libre
  /\ IF estado[ped] = "NULO"
     THEN /\ estado' = [estado EXCEPT ![ped] = "PENDIENTE"]
          /\ Responder("GUARDAR_PEDIDO", "OK")
     ELSE /\ Responder("GUARDAR_PEDIDO", "PEDIDO_REPETIDO")
          /\ UNCHANGED estado
  /\ UNCHANGED <<platos, caido>>

MotivoPlato(ped, d) ==
  IF Busqueda(ped) # "OK" THEN Busqueda(ped)
  ELSE IF estado[ped] # "PENDIENTE" THEN "ESTADO_INVALIDO"
  ELSE IF d \notin DOMAIN platos[ped] /\ Ocupacion >= CantFramesMV
       THEN "SIN_ESPACIO" ELSE "OK"

(* A new dish starts with nothing prepared; for a known dish the quantity  *)
(* is added to the one asked before.                                       *)
ConPlato(actual, d, cantidad) ==
  [x \in DOMAIN actual \cup {d} |->
     IF x # d THEN actual[x]
     ELSE IF d \in DOMAIN actual
     THEN [actual[d] EXCEPT !.cantidad_total = (@ + cantidad) % Modulo]
     ELSE [cantidad_total |-> cantidad % Modulo, cantidad_lista |-> 0]]

GuardarPlato(ped, d, cantidad) ==
  /\ Libre
  /\ Responder("GUARDAR_PLATO", MotivoPlato(ped, d))
  /\ platos' = IF MotivoPlato(ped, d) = "OK"
               THEN [platos EXCEPT ![ped] = ConPlato(@, d, cantidad)]
               ELSE platos
  /\ UNCHANGED <<estado, caido>>

ObtenerPedido(ped) ==
  /\ Libre
  /\ respuesta' = IF Busqueda(ped) = "OK"
                  THEN Respuesta("OBTENER_PEDIDO", "OK", estado[ped],
                                 {<<d, platos[ped][d]>> : d \in DOMAIN platos[ped]})
                  ELSE Descripcion("OBTENER_PEDIDO", Busqueda(ped))
  /\ UNCHANGED <<estado, platos, caido>>

ConfirmarPedido(ped) ==
  LET motivo == IF Busqueda(ped) = "OK" /\ estado[ped] # "PENDIENTE"
                THEN "ESTADO_INVALIDO" ELSE Busqueda(ped)
  IN  /\ Libre
      /\ Responder("CONFIRMAR_PEDIDO", motivo)
      /\ estado' = IF motivo = "OK" THEN [estado EXCEPT ![ped] = "CONFIRMADO"]
                                    ELSE estado
      /\ UNCHANGED <<platos, caido>>

MotivoListo(ped, d) ==
  IF Busqueda(ped) # "OK" THEN Busqueda(ped)
  ELSE IF d \notin DOMAIN platos[ped] THEN "SIN_PLATO"
  ELSE IF estado[ped] # "CONFIRMADO" THEN "ESTADO_INVALIDO" ELSE "OK"

Completo(contenido) == contenido.cantidad_lista = contenido.cantidad_total

PlatoListo(ped, d) ==
  LET despues == [platos[ped] EXCEPT ![d].cantidad_lista = (@ + 1) % Modulo]
  IN  /\ Libre
      /\ Responder("PLATO_LISTO", MotivoListo(ped, d))
      /\ IF MotivoListo(ped, d) = "OK"
         THEN /\ platos' = [platos EXCEPT ![ped] = despues]
              /\ estado' = IF \A x \in DOMAIN despues : Completo(despues[x])
                           THEN [estado EXCEPT ![ped] = "TERMINADO"] ELSE estado
         ELSE UNCHANGED <<estado, platos>>
      /\ UNCHANGED caido

FinalizarPedido(ped) ==
  /\ Libre
  /\ Responder("FINALIZAR_PEDIDO", Busqueda(ped))
  /\ estado' = [estado EXCEPT ![ped] = "NULO"]
  /\ platos' = [platos EXCEPT ![ped] = SinPlatos]
  /\ UNCHANGED caido

(* The client reads the answer and may send its next request. *)
Recibir ==
  /\ respuesta # SinRespuesta
  /\ respuesta' = SinRespuesta
  /\ UNCHANGED <<estado, platos, caido>>

Caer ==
  /\ Libre
  /\ caido' = TRUE
  /\ UNCHANGED <<estado, platos, respuesta>>

Next ==
  \/ \E ped \in Pedidos :
       \/ GuardarPedido(ped)
       \/ ObtenerPedido(ped)
       \/ ConfirmarPedido(ped)
       \/ FinalizarPedido(ped)
       \/ \E d \in Platos : \/ PlatoListo(ped, d)
                            \/ \E c \in Cantidades : GuardarPlato(ped, d, c)
  \/ Recibir
  \/ Caer

Spec == Init /\ [][Next]_vars

-----------------------------------------------------------------------------
(* Everything the client relied on is what it was: the dishes of an order  *)
(* and the quantities asked are fixed once it is confirmed, until it is    *)
(* finalised.  No request to this or to another order moves them.          *)
Pedido(contenidos) == [d \in DOMAIN contenidos |-> contenidos[d].cantidad_total]

ConfirmadoCerrado ==
  [][\A ped \in Pedidos :
       estado[ped] \in {"CONFIRMADO", "TERMINADO"} /\ estado'[ped] # "NULO" =>
         /\ estado'[ped] # "PENDIENTE"
         /\ Pedido(platos'[ped]) = Pedido(platos[ped])]_vars

=============================================================================

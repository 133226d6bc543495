------------------------------ MODULE Interfaz ------------------------------
(***************************************************************************)
(* What the console and the comanda server exchange: the operation codes   *)
(* that comanda serves, the state of an order and the answers.             *)
(***************************************************************************)

(* Codigo_Operacion, restricted to the operations on orders. *)
Operaciones == {"GUARDAR_PEDIDO", "GUARDAR_PLATO", "OBTENER_PEDIDO",
                "CONFIRMAR_PEDIDO", "PLATO_LISTO", "FINALIZAR_PEDIDO"}

(* Estado_Pedido, and "NULO" for a key without a segment. *)
Estados == {"NULO", "PENDIENTE", "CONFIRMADO", "TERMINADO"}

(* A Descripcion: "OK" is result = true, the others are result = false     *)
(* with the message that names the reason.                                 *)
Resultados == {"OK", "PEDIDO_REPETIDO", "SIN_RESTAURANTE", "SIN_PEDIDO",
               "SIN_PLATO", "SIN_ESPACIO", "ESTADO_INVALIDO"}

(* Every answer has a Descripcion; only a successful obtener_pedido goes   *)
(* on with a second message, the state of the order and its dishes.        *)
Respuesta(op, resultado, estado, platos) ==
  [op |-> op, resultado |-> resultado, estado |-> estado, platos |-> platos]

Descripcion(op, resultado) == Respuesta(op, resultado, "NULO", {})

SinRespuesta == Descripcion("NINGUNA", "OK")

=============================================================================

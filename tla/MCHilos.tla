------------------------------- MODULE MCHilos -------------------------------
(***************************************************************************)
(* Prepared memories and sets of requests for module Hilos.                *)
(***************************************************************************)
EXTENDS Hilos

CONSTANTS r1, r2, a, b, t1, t2, t3

(* What guardar_plato leaves with nobody else in the server, dish by dish. *)
Guardar(m, g) ==
  ubicar_en_mp(agregar_nueva_plato_a_pedido(m, g[1], g[2],
                                            obtener_frame_libre(m.bitmap_mv)), g[1])

Guardados(platos) == FoldLeft(Guardar, inicializar_memoria, platos)

Uno == <<r1, 1>>
Dos == <<r1, 2>>
Otro == <<r2, 1>>

(* One dish, with a frame to spare; one of each of two orders; and a third *)
(* one, that took the frame of the first.                                  *)
UnPlato == Guardados(<< <<<<Uno, a>>, 2>> >>)
TresPlatos == Guardados(<< <<<<Uno, a>>, 2>>, <<<<Dos, b>>, 1>>, <<<<Dos, a>>, 2>> >>)

Estado(e, f) ==
  [ped \in Pedidos |-> CASE ped = Uno -> e [] ped = Dos -> f [] OTHER -> "NULO"]
Nuevos == Estado("NULO", "NULO")
Pendientes == Estado("PENDIENTE", "PENDIENTE")
UnoPendiente == Estado("PENDIENTE", "NULO")
Confirmados == Estado("CONFIRMADO", "CONFIRMADO")
UnoConfirmado == Estado("CONFIRMADO", "PENDIENTE")
DosConfirmado == Estado("PENDIENTE", "CONFIRMADO")

Sobre(t, op, ped, d) ==
  [hilo |-> t, op |-> op, pedido |-> ped, plato |-> d,
   cantidad |-> IF op = "GUARDAR_PLATO" THEN 1 ELSE 0]
Entero(t, op, ped) == Sobre(t, op, ped, NingunPlato)

Listo(t, ped, d) == Sobre(t, "PLATO_LISTO", ped, d)
Mas(t, ped, d) == Sobre(t, "GUARDAR_PLATO", ped, d)
Ver(t, ped) == Entero(t, "OBTENER_PEDIDO", ped)

(* The kitchen: confirmed orders are prepared and looked at. *)
Cocina == UNION {{Ver(t, Uno), Ver(t, Dos), Listo(t, Uno, a), Listo(t, Dos, b)} :
                  t \in {t1, t2}}

(* The counter: every console adds to dishes that the orders have. *)
Sumas == UNION {{Mas(t, Uno, a), Mas(t, Dos, a), Mas(t, Dos, b)} : t \in Hilos}

(* One of them also adds a new dish, which nobody else asks for. *)
Mostrador == Sumas \cup {Mas(t1, Uno, b)}

(* Both: two consoles take one order while the third prepares the other.   *)
Mezcla == {Mas(t1, Dos, a), Mas(t1, Dos, b), Mas(t3, Dos, a), Mas(t3, Dos, b),
           Ver(t2, Uno), Listo(t2, Uno, a)}

(* An order is obtained while a dish is added to it, the one that was      *)
(* evicted.                                                                *)
VerYSumar == {Ver(t1, Uno), Mas(t2, Uno, a)}

(* Everything at once, on the two orders and on another restaurant. *)
Todas ==
  UNION {{Entero(t, op, ped) : op \in {"GUARDAR_PEDIDO", "OBTENER_PEDIDO", "CONFIRMAR_PEDIDO",
                                       "FINALIZAR_PEDIDO"}, ped \in {Uno, Dos, Otro}}
         \cup {Sobre(t, op, ped, d) : op \in {"GUARDAR_PLATO", "PLATO_LISTO"},
                                      ped \in {Uno, Dos}, d \in {a, b}} : t \in {t1, t2}}

-----------------------------------------------------------------------------
(* The scenarios of each run.                                              *)

Turno(m, e, s, veces) == [mem |-> m, estado |-> e, solicitudes |-> s, faltan |-> veces]

Mezclado == Turno(TresPlatos, UnoConfirmado, Mezcla, 1)

Pacificos ==
  [cocina    |-> Turno(TresPlatos, Confirmados, Cocina, 2),
   sumas     |-> Turno(TresPlatos, Pendientes, {s \in Sumas : s.hilo # t3}, 2),
   mostrador |-> Turno(TresPlatos, Pendientes, Mostrador, 1),
   mezcla    |-> Mezclado]

Mezclados == [mezcla |-> Mezclado]

Enfrentados == [enfrentados |-> Turno(TresPlatos, Pendientes, VerYSumar, 1)]

Revueltos ==
  [llena   |-> Turno(TresPlatos, DosConfirmado, Todas, 1),
   holgada |-> Turno(UnPlato, UnoPendiente, Todas, 1),
   vacia   |-> Turno(inicializar_memoria, Nuevos, Todas, 1)]

=============================================================================

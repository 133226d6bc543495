----------------------------- MODULE PruebaFinal -----------------------------
(***************************************************************************)
(* prueba_final_comanda, the console's script (cliente.c), run against the *)
(* server of module Comanda with the configuration the repository ships    *)
(* (comanda.config: 128 / 32 = 4 frames of main memory, 4096 / 32 = 128 of *)
(* swap, CLOCK_MODIFICADO).  logs/comanda.log holds what the real program  *)
(* did when it was run: the model has to do the same.                      *)
(***************************************************************************)
EXTENDS Comanda

CONSTANTS boka, asadoconfritas, bondiolita, choripan, morcipan

VARIABLES
  paso,          \* how many commands of the script were sent
  desalojos,     \* history: the victims of swap, in order
  terminados     \* history: the orders that became TERMINADO, in order

varsPrueba == <<vars, paso, desalojos, terminados>>

-----------------------------------------------------------------------------
(* The script.                                                             *)

Linea(op, id, d, cantidad) ==
  [op |-> op, pedido |-> <<boka, id>>, plato |-> d, cantidad |-> cantidad]

PorCadaPedido(op) == [id \in 1 .. 7 |-> Linea(op, id, NingunPlato, 0)]

Plato(id, d, cantidad) == <<Linea("GUARDAR_PLATO", id, d, cantidad)>>
Obtener(id) == <<Linea("OBTENER_PEDIDO", id, NingunPlato, 0)>>
Listo(id, d, veces) == [n \in 1 .. veces |-> Linea("PLATO_LISTO", id, d, 0)]

Guion ==
  PorCadaPedido("GUARDAR_PEDIDO")
  \o Plato(1, asadoconfritas, 1) \o Plato(2, asadoconfritas, 2)
  \o Plato(5, bondiolita, 1) \o Plato(3, asadoconfritas, 1)
  \o Plato(6, bondiolita, 4) \o Obtener(1)
  \o Plato(4, choripan, 20) \o Obtener(2)
  \o Plato(7, morcipan, 1) \o Plato(1, asadoconfritas, 1)
  \o Plato(3, asadoconfritas, 1) \o Obtener(3)
  \o PorCadaPedido("CONFIRMAR_PEDIDO")
  \o Listo(1, asadoconfritas, 1) \o Listo(2, asadoconfritas, 1)
  \o Listo(3, asadoconfritas, 1) \o Listo(1, asadoconfritas, 1)
  \o Listo(2, asadoconfritas, 1) \o Listo(5, bondiolita, 1)
  \o Listo(6, bondiolita, 4) \o Listo(4, choripan, 19)
  \o Listo(7, morcipan, 1)
  \o PorCadaPedido("FINALIZAR_PEDIDO")

(* The request of a line of the script. *)
Pedir(l) ==
  \/ l.op = "GUARDAR_PEDIDO"   /\ GuardarPedido(l.pedido)
  \/ l.op = "GUARDAR_PLATO"    /\ GuardarPlato(l.pedido, l.plato, l.cantidad)
  \/ l.op = "OBTENER_PEDIDO"   /\ ObtenerPedido(l.pedido)
  \/ l.op = "CONFIRMAR_PEDIDO" /\ ConfirmarPedido(l.pedido)
  \/ l.op = "PLATO_LISTO"      /\ PlatoListo(l.pedido, l.plato)
  \/ l.op = "FINALIZAR_PEDIDO" /\ FinalizarPedido(l.pedido)

-----------------------------------------------------------------------------
(* What swap logs of its victim: the dish, the frame of main memory it had *)
(* and whether it was written back ("Sincronizando").                      *)
Desalojo(p) == [plato      |-> p[2],
                frame      |-> mem.paginas[p].frame_mp,
                sincroniza |-> mem.paginas[p].modificacion]

Historia ==
  LET victimas == {p \in Residentes(mem) :
                     tiene_pagina(mem', p) /\ ~ mem'.paginas[p].presencia}
      nuevos   == {ped \in Pedidos : estado[ped] # "TERMINADO"
                                     /\ estado'[ped] = "TERMINADO"}
  IN  /\ desalojos' = desalojos \o SetToSeq({Desalojo(p) : p \in victimas})
      /\ terminados' = terminados \o SetToSeq({ped[2] : ped \in nuevos})

InitPrueba == Init /\ paso = 0 /\ desalojos = << >> /\ terminados = << >>

(* The console sends the next command when the last one was answered. *)
Enviar ==
  /\ paso < Len(Guion)
  /\ Pedir(Guion[paso + 1])
  /\ paso' = paso + 1
  /\ Historia

Atender == (Continuar \/ Recibir) /\ UNCHANGED paso /\ Historia

Fin == paso = Len(Guion) /\ Libre

(* The script is over.  Deadlock is checked: no other state is the last.   *)
Terminar == Fin /\ UNCHANGED varsPrueba

NextPrueba == Enviar \/ Atender \/ Terminar

SpecPrueba == InitPrueba /\ [][NextPrueba]_varsPrueba

-----------------------------------------------------------------------------
(* The last run of the script in logs/comanda.log (process 12194): the     *)
(* lines "Victima seleccionada" with the "Sincronizando" that follow, and  *)
(* the lines "El pedido esta terminado".                                   *)
Victima(d, f, s) == [plato |-> d, frame |-> f, sincroniza |-> s]

VictimasDelRegistro ==
  << Victima(asadoconfritas, 0, FALSE), Victima(asadoconfritas, 1, FALSE),
     Victima(bondiolita, 2, FALSE),     Victima(asadoconfritas, 3, FALSE),
     Victima(bondiolita, 0, FALSE),     Victima(choripan, 2, FALSE),
     Victima(morcipan, 0, FALSE),       Victima(asadoconfritas, 1, TRUE),
     Victima(asadoconfritas, 2, TRUE),  Victima(asadoconfritas, 3, TRUE) >>

TerminadosDelRegistro == <<1, 2, 5, 6, 7>>

(* The model evicts the pages the program evicted, from the same frames,   *)
(* in the same order and with the same write-backs, and the same orders    *)
(* become TERMINADO; no request is refused.  A bit, a position of the hand *)
(* or a place in the list off by one anywhere in the script would show.    *)
ComoElRegistro ==
  /\ ~ caido /\ respuesta.resultado = "OK"
  /\ IsPrefix(desalojos, VictimasDelRegistro)
  /\ IsPrefix(terminados, TerminadosDelRegistro)
  /\ Fin => /\ desalojos = VictimasDelRegistro
            /\ terminados = TerminadosDelRegistro

(* What the script leaves is an empty server: no restaurant, no page, no   *)
(* frame taken in either memory, nothing to evict, nothing pinned.         *)
TerminaVacia ==
  Fin => /\ restaurantes = {}
         /\ mem.paginas = [p \in Paginas |-> SinPagina]
         /\ mem.lista = << >>
         /\ \A f \in FramesMP : ~ mem.bitmap_mp[f]
         /\ \A f \in FramesMV : ~ mem.bitmap_mv[f]

(* README.md:19: once all the dishes are ready "finalizar_pedido podrá ser *)
(* enviado exitósamente".  An order being finalised has only complete      *)
(* dishes left.  Does not hold: finalizar_pedido looks at neither state    *)
(* nor quantities, and the script finalises two orders half prepared.      *)
FinalizaSoloCompletos ==
  hilo # Reposo /\ hilo.op = "FINALIZAR_PEDIDO" =>
    \A d \in hilo.pendientes : Completo(Valor(mem, <<hilo.pedido, d>>))

=============================================================================

------------------------------- MODULE Recencia -------------------------------
(***************************************************************************)
(* What "least recently used" means for the comanda server with            *)
(* ALGORITMO_REEMPLAZO = lru: the server of module Comanda together with   *)
(* the history of when each page was last loaded or written.               *)
(*                                                                         *)
(* A page is written by sumar_cantidad_total and sumar_cantidad_lista.  It *)
(* is also read (pagina_leida), when obtener_pedido lists it or plato_listo*)
(* looks whether it is complete: that sets its use bit and moves nothing,  *)
(* so what the code keeps is the order of the writes, not of the uses.     *)
(***************************************************************************)
EXTENDS Comanda

VARIABLE escritas  \* the pages, from the first to the last loaded or written

todo == <<vars, escritas>>

InitRecencia == Init /\ escritas = << >>

(* The pages that this step loads, and the ones it writes: adding to a     *)
(* dish, or the end of plato_listo.                                        *)
Carga == {p \in Paginas : ~ mem.paginas[p].presencia /\ mem'.paginas[p].presencia}

Escribe ==
  IF En("PLATO_LISTO") /\ hilo' = Reposo THEN {<<hilo.pedido, hilo.plato>>}
  ELSE {p \in Paginas : \E c \in Cantidades : SumarEnMP(p[1], p[2], c)}

(* The pages of S go to the end; the ones that no longer exist, away. *)
AlFinal(s, S) ==
  SelectSeq(s, LAMBDA p : p \notin S /\ tiene_pagina(mem', p)) \o SetToSeq(S)

NextRecencia ==
  /\ Next
  /\ escritas' = AlFinal(escritas, Carga \cup Escribe)

SpecRecencia == InitRecencia /\ [][NextRecencia]_todo

-----------------------------------------------------------------------------
(* p was loaded or written before q, the last time each was. *)
Antes(p, q) == \E i, j \in 1 .. Len(escritas) : i < j /\ escritas[i] = p /\ escritas[j] = q

(* Pages that a swap takes out of main memory in this step. *)
Desalojadas ==
  {p \in Paginas : /\ tiene_pagina(mem', p)
                   /\ mem.paginas[p].presencia
                   /\ ~ mem'.paginas[p].presencia}

(* The list is always in the order of the last load or write, through      *)
(* evictions, returns to main memory and orders finalised in between; the  *)
(* victim is taken from its head, so this is what the order is worth.      *)
ListaPorAntiguedad ==
  mem.lista = SelectSeq(escritas, LAMBDA p : mem.paginas[p].presencia)

(* The victim is the page loaded or written the longest ago among those    *)
(* that are not pinned.                                                    *)
VictimaMasAntigua ==
  [][\A p \in Desalojadas : \A q \in Residentes(mem) :
       ~ mem.paginas[q].lockeo => ~ Antes(q, p)]_todo

=============================================================================

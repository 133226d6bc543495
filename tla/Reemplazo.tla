------------------------------ MODULE Reemplazo ------------------------------
(***************************************************************************)
(* Victim selection of the comanda server (comanda.c, section SWAPEO).     *)
(*                                                                         *)
(* Everything here is a function of the list of resident pages             *)
(* (paginas_para_swapeo), of the bits of each page and of the clock hand   *)
(* (index_puntero_cm): no module variable is declared.  The list is a TLA+ *)
(* sequence, so the page at C index i is lista[i + 1]; positions below are *)
(* positions of the sequence and 0 stands for the NULL result.             *)
(***************************************************************************)
EXTENDS Integers, Sequences, SequencesExt

-----------------------------------------------------------------------------
(* Info_Pagina_Plato: where a page is and its bits.                        *)

InfoPagina(FramesMP, FramesMV) ==
  [frame_mv     : FramesMV \cup {-1},
   frame_mp     : FramesMP \cup {-1},
   presencia    : BOOLEAN,
   modificacion : BOOLEAN,
   uso          : BOOLEAN,
   lockeo       : BOOLEAN]

esta_unlockeada(pag) == ~ pag.lockeo

es_0_0(pag) == ~ pag.uso /\ ~ pag.modificacion /\ ~ pag.lockeo

(* es_0_1 also clears the use bit of the pages it rejects for having it    *)
(* set: see Apagadas.                                                      *)
es_0_1(pag) == ~ pag.lockeo /\ ~ pag.uso

-----------------------------------------------------------------------------
(* LRU: the first page of the list that is not pinned.                     *)

seleccion_de_victima_lru(lista, paginas) ==
  SelectInSeq(lista, LAMBDA p : esta_unlockeada(paginas[p]))

-----------------------------------------------------------------------------
(* Modified clock.  A round visits every position once, starting at the    *)
(* hand and wrapping at the end of the list.                               *)

(* Mutant: the end of the list is off by one. *)
indice_siguiente_pasado(lista, indice) ==
  IF indice + 1 > Len(lista) THEN 0 ELSE indice + 1

indice_siguiente_lista_circular(lista, indice) ==
  IF indice + 1 >= Len(lista) THEN 0 ELSE indice + 1

Ronda(lista, puntero) ==
  [k \in 1 .. Len(lista) |-> ((puntero + k - 1) % Len(lista)) + 1]

(* The position of the first page of the round that satisfies Condicion.   *)
PrimeraDeLaRonda(lista, puntero, paginas, Condicion(_)) ==
  LET ronda == Ronda(lista, puntero)
      k     == SelectInSeq(ronda, LAMBDA j : Condicion(paginas[lista[j]]))
  IN  IF k = 0 THEN 0 ELSE ronda[k]

(* The pages whose use bit the second round clears: those not pinned that  *)
(* it visits before it stops at position `hasta`, or all of them when it   *)
(* finds none.                                                             *)
Apagadas(lista, puntero, paginas, hasta) ==
  LET ronda   == Ronda(lista, puntero)
      parada  == SelectInSeq(ronda, LAMBDA j : j = hasta)
      visitas == IF parada = 0 THEN 1 .. Len(lista) ELSE 1 .. parada - 1
  IN  {p \in {lista[ronda[k]] : k \in visitas} : esta_unlockeada(paginas[p])}

(* Mutant: the use bits stay set. *)
Apagar_ninguna(paginas, S) == paginas

Apagar(paginas, S) ==
  [p \in DOMAIN paginas |->
     IF p \in S THEN [paginas[p] EXCEPT !.uso = FALSE] ELSE paginas[p]]

(* The four rounds.  The result is the victim's position and the pages'    *)
(* bits afterwards; the second round is the only one that changes bits     *)
(* (when the fourth is reached no page that can be a victim has the use    *)
(* bit set).                                                               *)
seleccion_de_victima_clock_modificado(lista, puntero, paginas) ==
  LET primera == PrimeraDeLaRonda(lista, puntero, paginas, es_0_0)
      segunda == PrimeraDeLaRonda(lista, puntero, paginas, es_0_1)
      luego   == Apagar(paginas, Apagadas(lista, puntero, paginas, segunda))
      tercera == PrimeraDeLaRonda(lista, puntero, luego, es_0_0)
      cuarta  == PrimeraDeLaRonda(lista, puntero, luego, es_0_1)
  IN  IF primera # 0
      THEN [pos |-> primera, paginas |-> paginas]
      ELSE [pos     |-> IF segunda # 0 THEN segunda
                        ELSE IF tercera # 0 THEN tercera ELSE cuarta,
            paginas |-> luego]

=============================================================================

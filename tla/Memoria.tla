------------------------------- MODULE Memoria -------------------------------
(***************************************************************************)
(* The paged memory of the comanda server (comanda.c): frames of main      *)
(* memory (MP) and of swap (MV), their bitmaps, the information kept for   *)
(* each page, the list of resident pages and the clock hand.               *)
(*                                                                         *)
(* The globals of comanda.c that hold it are gathered in one record,       *)
(*   [mp, mv                  memoria_principal, memoria_virtual           *)
(*    bitmap_mp, bitmap_mv    bitmap_memoria_principal / _virtual          *)
(*    paginas                 the Info_Pagina_Plato of every dish          *)
(*    lista                   paginas_para_swapeo                          *)
(*    puntero]                index_puntero_cm                             *)
(* and each C function that updates them is an operator from the record    *)
(* before the call to the record after it, so that a handler composes      *)
(* them in the order in which the code calls them.                         *)
(***************************************************************************)
EXTENDS Reemplazo, FiniteSets

CONSTANTS
  Restaurantes,    \* names of restaurants
  Ids,             \* order numbers
  Platos,          \* names of dishes
  CantFramesMP,    \* cantidad_de_frames_mp: TAMANIO_MEMORIA / TAMANIO_PAGINA
  CantFramesMV,    \* cantidad_de_frames_mv: TAMANIO_SWAP / TAMANIO_PAGINA
  Algoritmo,       \* ALGORITMO_REEMPLAZO of the configuration
  Modulo           \* 2^32: the quantities are uint32_t

ASSUME FramesAssumption == /\ CantFramesMP \in Nat \ {0}
                           /\ CantFramesMV \in Nat \ {0}
ASSUME AlgoritmoAssumption == Algoritmo \in {"LRU", "CLOCK_MODIFICADO"}
ASSUME ModuloAssumption == Modulo \in Nat \ {0}

FramesMP == 0 .. CantFramesMP - 1
FramesMV == 0 .. CantFramesMV - 1

(* A segment is identified by its restaurant and its order number, a page  *)
(* by its segment and its dish: the keys of the three nested dictionaries. *)
Pedidos == Restaurantes \X Ids
Paginas == Pedidos \X Platos

(* What a frame holds.  The name of the dish, stored after the two         *)
(* quantities, is abstracted: it is only read to be printed.               *)
Contenido == [cantidad_total : 0 .. Modulo - 1, cantidad_lista : 0 .. Modulo - 1]

Info == InfoPagina(FramesMP, FramesMV)

(* A key that tabla_de_platos does not hold. *)
SinPagina == [frame_mv |-> -1, frame_mp |-> -1, presencia |-> FALSE,
              modificacion |-> FALSE, uso |-> FALSE, lockeo |-> FALSE]

Memorias == [mp        : [FramesMP -> Contenido],
             mv        : [FramesMV -> Contenido],
             bitmap_mp : [FramesMP -> BOOLEAN],
             bitmap_mv : [FramesMV -> BOOLEAN],
             paginas   : [Paginas -> Info],
             lista     : Seq(Paginas),
             puntero   : FramesMP]

(* The frames come from malloc; what they hold at first is never read, and *)
(* the model starts them all equal.                                        *)
inicializar_memoria ==
  LET vacio == [cantidad_total |-> 0, cantidad_lista |-> 0]
  IN  [mp        |-> [f \in FramesMP |-> vacio],
       mv        |-> [f \in FramesMV |-> vacio],
       bitmap_mp |-> [f \in FramesMP |-> FALSE],
       bitmap_mv |-> [f \in FramesMV |-> FALSE],
       paginas   |-> [p \in Paginas |-> SinPagina],
       lista     |-> << >>,
       puntero   |-> 0]

-----------------------------------------------------------------------------
(* Reading the memory.                                                     *)

tiene_pagina(m, p) == m.paginas[p].frame_mv # -1

(* dictionary_has_key and dictionary_size of tabla_de_platos are about     *)
(* this set.                                                               *)
tabla_de_platos(m, pedido) == {d \in Platos : tiene_pagina(m, <<pedido, d>>)}

PaginasDe(m, pedido) == {pedido} \X tabla_de_platos(m, pedido)

(* obtener_plato_de_memoria(memoria_principal, ...) of a resident page. *)
ContenidoMP(m, p) == m.mp[m.paginas[p].frame_mp]

(* obtener_frame_libre_mp and _mv: the first free frame, or -1. *)
obtener_frame_libre(bitmap) ==
  LET libres == {f \in DOMAIN bitmap : ~ bitmap[f]}
  IN  IF libres = {} THEN -1
      ELSE CHOOSE f \in libres : \A g \in libres : f <= g

-----------------------------------------------------------------------------
(* The list of resident pages.  Pages are compared by their MV frame.      *)

SacarDeLista(m, p) ==
  RemoveFirstMatch(m.lista,
                   LAMBDA q : m.paginas[q].frame_mv = m.paginas[p].frame_mv)

(* Mutant: the page is not taken out before it is appended again. *)
agregar_sin_sacar(m, p, op) ==
  IF Algoritmo = "LRU" \/ op = "CARGA" THEN [m EXCEPT !.lista = Append(@, p)] ELSE m

(* op is "CARGA" or "REFERENCIA"; the clock ignores references. *)
agregar_a_lista_de_swapeo(m, p, op) ==
  IF Algoritmo = "LRU" \/ op = "CARGA"
  THEN [m EXCEPT !.lista = Append(SacarDeLista(m, p), p)]
  ELSE m

-----------------------------------------------------------------------------
(* Bits.                                                                   *)

(* Mutant: the modification bit is not set. *)
pagina_modificada_solo_uso(m, p) == [m EXCEPT !.paginas[p].uso = TRUE]

pagina_modificada(m, p) ==
  [m EXCEPT !.paginas[p] = [@ EXCEPT !.modificacion = TRUE, !.uso = TRUE]]

pagina_levantada(m, p, f) ==
  [m EXCEPT !.paginas[p] = [@ EXCEPT !.presencia    = TRUE,
                                     !.frame_mp     = f,
                                     !.uso          = TRUE,
                                     !.modificacion = FALSE]]

(* dictionary_iterator with setear_/resetear_bit_de_lockeo on an order. *)
poner_bit_de_lockeo(m, S, valor) ==
  [m EXCEPT !.paginas = [p \in Paginas |->
     IF p \in S THEN [m.paginas[p] EXCEPT !.lockeo = valor] ELSE m.paginas[p]]]

(* pagina_leida on every page of S. *)
paginas_leidas(m, S) ==
  [m EXCEPT !.paginas = [p \in Paginas |->
     IF p \in S THEN [m.paginas[p] EXCEPT !.uso = TRUE] ELSE m.paginas[p]]]

-----------------------------------------------------------------------------
(* Quantities, always updated in main memory.                              *)

sumar_cantidad_total(m, p, cantidad) ==
  LET f == m.paginas[p].frame_mp
      s == [m EXCEPT !.mp[f].cantidad_total = (@ + cantidad) % Modulo]
  IN  agregar_a_lista_de_swapeo(pagina_modificada(s, p), p, "REFERENCIA")

(* Mutant: the page is not marked as modified. *)
sumar_cantidad_lista_sin_marcar(m, p) ==
  LET f == m.paginas[p].frame_mp
      s == [m EXCEPT !.mp[f].cantidad_lista = (@ + 1) % Modulo]
  IN  agregar_a_lista_de_swapeo(s, p, "REFERENCIA")

sumar_cantidad_lista(m, p) ==
  LET f == m.paginas[p].frame_mp
      s == [m EXCEPT !.mp[f].cantidad_lista = (@ + 1) % Modulo]
  IN  agregar_a_lista_de_swapeo(pagina_modificada(s, p), p, "REFERENCIA")

-----------------------------------------------------------------------------
(* Swapping.                                                               *)

(* The victim's position in the list (0 when there is none) and the bits   *)
(* after the search.  When the list is not empty and the hand points past  *)
(* its end, list_get returns NULL and the first test dereferences it.      *)
Eleccion(m) ==
  IF Algoritmo = "LRU"
  THEN [pos     |-> seleccion_de_victima_lru(m.lista, m.paginas),
        paginas |-> m.paginas]
  ELSE IF m.puntero >= Len(m.lista)
       THEN [pos |-> 0, paginas |-> m.paginas]
       ELSE seleccion_de_victima_clock_modificado(m.lista, m.puntero, m.paginas)

(* swap dereferences the victim without testing it: without one the        *)
(* process dies.                                                           *)
HayVictima(m) == Eleccion(m).pos # 0

(* The bookkeeping of the victim's place: LRU takes it out and appends the *)
(* required page, the clock puts the required page in its place and moves  *)
(* the hand to the next one.                                               *)
ReemplazarEnLista(m, p, e) ==
  IF Algoritmo = "LRU"
  THEN agregar_a_lista_de_swapeo([m EXCEPT !.lista = RemoveAt(m.lista, e.pos)],
                                 p, "CARGA")
  ELSE [m EXCEPT !.lista   = ReplaceAt(m.lista, e.pos, p),
                 !.puntero = indice_siguiente_lista_circular(m.lista, e.pos - 1),
                 !.paginas = e.paginas]

(* Mutant: the victim is never written back. *)
Sincronizar_nunca(m, v) == m

(* The victim is written back when it was modified; the content of the     *)
(* required page was read before that.                                     *)
Sincronizar(m, v) ==
  IF m.paginas[v].modificacion
  THEN [m EXCEPT !.mv[m.paginas[v].frame_mv] = ContenidoMP(m, v)]
  ELSE m

DejarFrame(m, v) ==
  [m EXCEPT !.paginas[v].presencia = FALSE, !.paginas[v].frame_mp = -1]

(* Mutant: the victim is written back after its frame was overwritten. *)
swap_al_reves(m, p) ==
  LET requerido == m.mv[m.paginas[p].frame_mv]
      e         == Eleccion(m)
      v         == m.lista[e.pos]
      f         == m.paginas[v].frame_mp
      cargada   == [ReemplazarEnLista(m, p, e) EXCEPT !.mp[f] = requerido]
  IN  DejarFrame(pagina_levantada(Sincronizar(cargada, v), p, f), v)

swap(m, p) ==
  LET requerido == m.mv[m.paginas[p].frame_mv]
      e         == Eleccion(m)
      v         == m.lista[e.pos]
      f         == m.paginas[v].frame_mp
      elegida   == ReemplazarEnLista(m, p, e)
      guardada  == Sincronizar(elegida, v)
      cargada   == [guardada EXCEPT !.mp[f] = requerido]
  IN  DejarFrame(pagina_levantada(cargada, p, f), v)

-----------------------------------------------------------------------------
(* Bringing a page to main memory.                                         *)

(* The load into the free frame f, which obtener_frame_libre_mp reserved. *)
cargar_en_frame(m, p, f) ==
  LET s == [m EXCEPT !.bitmap_mp[f] = TRUE,
                     !.mp[f]        = m.mv[m.paginas[p].frame_mv]]
  IN  agregar_a_lista_de_swapeo(pagina_levantada(s, p, f), p, "CARGA")

(* A free frame if there is one, the victim's otherwise. *)
ubicar_en_mp(m, p) ==
  LET f == obtener_frame_libre(m.bitmap_mp)
  IN  IF f < 0 THEN swap(m, p) ELSE cargar_en_frame(m, p, f)

PuedeUbicar(m) == obtener_frame_libre(m.bitmap_mp) >= 0 \/ HayVictima(m)

levantar_pagina_en_memoria(m, p) ==
  IF m.paginas[p].presencia
  THEN [m EXCEPT !.paginas[p].uso = TRUE]
  ELSE ubicar_en_mp(m, p)

PuedeLevantar(m, p) == m.paginas[p].presencia \/ PuedeUbicar(m)

-----------------------------------------------------------------------------
(* Creating and freeing pages.                                             *)

(* agregar_nueva_plato_a_pedido with the MV frame f; crear_plato converts  *)
(* the quantity to uint32_t.                                               *)
agregar_nueva_plato_a_pedido(m, p, cantidad, f) ==
  [m EXCEPT !.bitmap_mv[f] = TRUE,
            !.mv[f]        = [cantidad_total |-> cantidad % Modulo,
                              cantidad_lista |-> 0],
            !.paginas[p]   = [SinPagina EXCEPT !.frame_mv = f]]

(* Mutants: the page stays in the list; the frame of swap, or that of main *)
(* memory, stays reserved.                                                 *)
liberar_sin_sacar(m, p) ==
  LET pag == m.paginas[p]
  IN  [m EXCEPT !.bitmap_mv = [@ EXCEPT ![pag.frame_mv] = FALSE],
                !.bitmap_mp = IF pag.frame_mp >= 0
                              THEN [@ EXCEPT ![pag.frame_mp] = FALSE] ELSE @,
                !.paginas   = [@ EXCEPT ![p] = SinPagina]]

liberar_sin_bitmap_mv(m, p) ==
  LET pag == m.paginas[p]
  IN  [m EXCEPT !.lista     = SacarDeLista(m, p),
                !.bitmap_mp = IF pag.frame_mp >= 0
                              THEN [@ EXCEPT ![pag.frame_mp] = FALSE] ELSE @,
                !.paginas   = [@ EXCEPT ![p] = SinPagina]]

liberar_sin_bitmap_mp(m, p) ==
  [m EXCEPT !.lista     = SacarDeLista(m, p),
            !.bitmap_mv = [@ EXCEPT ![m.paginas[p].frame_mv] = FALSE],
            !.paginas   = [@ EXCEPT ![p] = SinPagina]]

(* The contents of the two frames and the clock hand stay as they are. *)
liberar_pagina(m, p) ==
  LET pag == m.paginas[p]
  IN  [m EXCEPT !.lista     = SacarDeLista(m, p),
                !.bitmap_mv = [@ EXCEPT ![pag.frame_mv] = FALSE],
                !.bitmap_mp = IF pag.frame_mp >= 0
                              THEN [@ EXCEPT ![pag.frame_mp] = FALSE] ELSE @,
                !.paginas   = [@ EXCEPT ![p] = SinPagina]]

-----------------------------------------------------------------------------
(* What the memory answers for a page: the main memory copy while it is    *)
(* resident, the swap copy otherwise.                                      *)
Valor(m, p) ==
  IF m.paginas[p].presencia THEN ContenidoMP(m, p)
                            ELSE m.mv[m.paginas[p].frame_mv]

-----------------------------------------------------------------------------
(* What makes a memory consistent.                                         *)

Residentes(m) == {p \in Paginas : m.paginas[p].presencia}

(* The bitmaps mark exactly the frames that pages have, and no two pages   *)
(* have the same frame.                                                    *)
FramesBien(m) ==
  /\ \A p \in Paginas : /\ m.paginas[p].presencia <=> m.paginas[p].frame_mp # -1
                        /\ m.paginas[p].presencia => m.paginas[p].frame_mv # -1
  /\ \A f \in FramesMV : m.bitmap_mv[f] <=> \E p \in Paginas : m.paginas[p].frame_mv = f
  /\ \A f \in FramesMP : m.bitmap_mp[f] <=> \E p \in Paginas : m.paginas[p].frame_mp = f
  /\ \A p, q \in Paginas : p # q =>
       /\ m.paginas[p].frame_mv # -1 => m.paginas[p].frame_mv # m.paginas[q].frame_mv
       /\ m.paginas[p].frame_mp # -1 => m.paginas[p].frame_mp # m.paginas[q].frame_mp

(* s lists the elements of S, each once. *)
Enumera(s, S) ==
  /\ s \in Seq(S)
  /\ \A x \in S : \E i \in 1 .. Len(s) : s[i] = x
  /\ \A i, j \in 1 .. Len(s) : s[i] = s[j] => i = j

ListaBien(m) == Enumera(m.lista, Residentes(m))

(* A clean page can be dropped: its swap copy says the same.               *)
CopiasBien(m) ==
  \A p \in Residentes(m) :
    ~ m.paginas[p].modificacion => ContenidoMP(m, p) = m.mv[m.paginas[p].frame_mv]

(* What every operation on the memory keeps. *)
MemoriaBien(m) ==
  /\ m \in Memorias
  /\ FramesBien(m)
  /\ ListaBien(m)
  /\ CopiasBien(m)

(* Bringing pages in and out moves their contents without changing them,   *)
(* and never takes a pinned page out.                                      *)
Conserva(m, n) ==
  \A q \in Paginas :
    /\ n.paginas[q].frame_mv = m.paginas[q].frame_mv
    /\ n.paginas[q].lockeo = m.paginas[q].lockeo
    /\ m.paginas[q].presencia /\ m.paginas[q].lockeo => n.paginas[q].presencia
    /\ tiene_pagina(m, q) => Valor(n, q) = Valor(m, q)

=============================================================================

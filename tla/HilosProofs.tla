------------------------------ MODULE HilosProofs ------------------------------
(***************************************************************************)
(* What the threads of module Hilos keep, whatever they are asked for, how *)
(* many they are and in whichever order they run, up to the first undefined*)
(* action: lock_swap excludes, and no frame serves two.                    *)
(***************************************************************************)
EXTENDS Hilos, MemoriaProofs

-----------------------------------------------------------------------------
(* The inductive invariant.                                                *)

(* With several threads a page may be twice in the list, which then may be *)
(* longer than main memory, and the hand go past its frames.               *)
MemoriasH == [mp        : [FramesMP -> Contenido],
              mv        : [FramesMV -> Contenido],
              bitmap_mp : [FramesMP -> BOOLEAN],
              bitmap_mv : [FramesMV -> BOOLEAN],
              paginas   : [Paginas -> Info],
              lista     : Seq(Paginas),
              puntero   : Nat]

(* The steps of each handler, by the way to each of them. *)
Busqueda == {"BUSCAR_RESTAURANTE", "BUSCAR_PEDIDO", "PROBAR_ESTADO"}

(* The walk that locks the pages of the list. *)
Recorrido == {"LOCKEAR", "LOCKEAR_PAGINA"}

(* The page of a new dish is not in the table yet. *)
Alta == {"RESERVAR_MV", "AGREGAR_PAGINA"}

(* An iteration over the dishes of an order is going on. *)
Pasada == {"LEVANTAR", "LOCKEAR_LEVANTADA", "ENLISTAR", "SUMAR_LISTA", "CONTAR", "LIBERAR"}

(* The steps of a handler. *)
PasosDe(op) ==
  CASE op = "NINGUNA" -> {"LIBRE"}
    [] op = "GUARDAR_PEDIDO" ->
         {"BUSCAR_RESTAURANTE", "BUSCAR_PEDIDO", "CREAR_TABLA", "TOMAR_TABLA", "AGREGAR_PEDIDO"}
    [] op = "GUARDAR_PLATO" ->
         Busqueda \cup Recorrido \cup Alta \cup
         {"BUSCAR_PLATO", "TOMAR_SWAP", "RESERVAR_MP", "TOMAR_PAGINA", "CARGAR", "SOLTAR_PAGINA",
          "SWAP", "LEER_TOTAL", "ESCRIBIR_TOTAL", "UNLOCKEAR", "INFORMAR"}
    [] op = "OBTENER_PEDIDO" ->
         Recorrido \cup
         {"BUSCAR_RESTAURANTE", "BUSCAR_PEDIDO", "TOMAR_SWAP", "FIJAR", "LEVANTAR",
          "LOCKEAR_LEVANTADA", "ENLISTAR", "UNLOCKEAR", "LEER_ESTADO"}
    [] op = "CONFIRMAR_PEDIDO" -> Busqueda \cup {"CONFIRMAR"}
    [] op = "PLATO_LISTO" ->
         Busqueda \cup Recorrido \cup
         {"TOMAR_SWAP", "FIJAR", "LEVANTAR", "LOCKEAR_LEVANTADA", "SUMAR_LISTA", "CONTAR",
          "UNLOCKEAR", "MARCAR"}
    [] op = "FINALIZAR_PEDIDO" ->
         {"BUSCAR_RESTAURANTE", "BUSCAR_PEDIDO", "TOMAR_SWAP", "SACAR_PEDIDO", "LIBERAR"}

(* The steps of all of them, and the one of a thread that failed. *)
Pasos == UNION {PasosDe(op) : op \in Operaciones \cup {"NINGUNA"}} \cup {"FALLO"}

(* A thread and its local variables. *)
Hilo == [pc         : Pasos,
         op         : Operaciones \cup {"NINGUNA"},
         pedido     : Pedidos \cup {NingunPedido},
         plato      : Platos \cup {NingunPlato},
         cantidad   : Int,
         camino     : {"NINGUNO", "EN_MP", "DE_SWAP", "NUEVO"},
         pendientes : SUBSET Platos,
         cursor     : Int,
         espera     : Paginas \cup {NingunaPagina},
         dato       : [frame : Int, valor : Int],
         leido      : SUBSET (Platos \X Contenido),
         colgado    : BOOLEAN,
         huerfana   : BOOLEAN,
         faltan     : Nat]

(* The types of the variables. *)
TiposH ==
  /\ escenario \in DOMAIN Escenarios
  /\ estado \in [Pedidos -> Estados]
  /\ mem \in MemoriasH
  /\ lock_swap \in Hilos \cup {Nadie}
  /\ lock_pagina \in [Paginas -> Hilos \cup {Nadie}]
  /\ hilos \in [Hilos -> Hilo]
  /\ hecho \in [Paginas -> Contenido]

(* A thread is at a step of its handler, with what that step needs. *)
Lugar(t) ==
  LET h == hilos[t]
  IN  /\ h.pc \in PasosDe(h.op)
      /\ h.op # "NINGUNA" => h.pedido \in Pedidos
      /\ h.op \in ConPlato => h.plato \in Platos
      /\ h.op # "GUARDAR_PLATO" => h.camino = "NINGUNO"
      /\ h.pc \in Busqueda \cup {"BUSCAR_PLATO"} => h.camino = "NINGUNO"
      /\ h.op = "GUARDAR_PLATO" /\ h.pc \notin Busqueda \cup {"BUSCAR_PLATO"} =>
           h.camino # "NINGUNO"
      /\ h.pc = "CARGAR" => h.camino = "NUEVO"
      /\ h.pc = "LOCKEAR_LEVANTADA" => h.espera \in Paginas
      /\ h.pc \in Recorriendo => h.cursor \in -1 .. Len(mem.lista)

(* Whoever is between taking lock_swap and releasing it holds it, and      *)
(* whoever holds it is there.                                              *)
DuenoDeSwap ==
  /\ \A t \in Hilos : ConSwap(t) => lock_swap = t
  /\ lock_swap # Nadie => ConSwap(lock_swap)

(* The frames that pages have, or that threads reserved, are marked.       *)
MarcosDePaginas(m) ==
  \A p \in Paginas :
    LET i == m.paginas[p]
    IN  /\ i.presencia <=> i.frame_mp # -1
        /\ i.presencia => i.frame_mv # -1
        /\ i.frame_mv # -1 => m.bitmap_mv[i.frame_mv]
        /\ i.frame_mp # -1 => m.bitmap_mp[i.frame_mp]

(* A frame that a thread reserved is marked. *)
Reservas ==
  \A t \in Hilos :
    LET f == hilos[t].dato.frame
    IN  /\ ReservaMV(t) => f \in FramesMV /\ mem.bitmap_mv[f]
        /\ ReservaMP(t) => f \in FramesMP /\ mem.bitmap_mp[f]

(* The pages a thread still has to follow exist, unless it knows (colgado) *)
(* that one was freed under it.                                            *)
SigueSuPagina(t) ==
  /\ ~ hilos[t].colgado
  /\ \/ hilos[t].op = "PLATO_LISTO" /\ hilos[t].pc \notin Busqueda
     \/ hilos[t].camino # "NINGUNO" /\ hilos[t].pc \notin Alta

(* The page of the thread, and those it has still to visit, are in the     *)
(* table.                                                                  *)
Vivas(t) ==
  /\ SigueSuPagina(t) => tiene_pagina(mem, Pagina(t))
  /\ hilos[t].pc \in Pasada => hilos[t].pendientes \subseteq PlatosDelPedido(t)

(* What holds until the first undefined action. *)
Sigue ==
  /\ TiposH
  /\ \A t \in Hilos : Lugar(t)
  /\ DuenoDeSwap
  /\ MarcosDePaginas(mem)
  /\ Reservas
  /\ MarcosSinCompartir
  /\ \A t \in Hilos : Vivas(t)

(* After a failure the model stops. *)
HInv ==
  /\ fallo = "NO" => Sigue
  /\ ExclusionDeSwap
  /\ MarcosSinCompartir

-----------------------------------------------------------------------------
(* What the operations on the memory do to the frames, when all that is    *)
(* known of the memory is that its frames are marked.                      *)

(* n has the frames of m where m has them, and its list is as long. *)
MismosMarcos(m, n) ==
  /\ n \in MemoriasH
  /\ n.bitmap_mp = m.bitmap_mp /\ n.bitmap_mv = m.bitmap_mv
  /\ Len(n.lista) = Len(m.lista)
  /\ \A q \in Paginas : /\ n.paginas[q].frame_mv = m.paginas[q].frame_mv
                        /\ n.paginas[q].frame_mp = m.paginas[q].frame_mp
                        /\ n.paginas[q].presencia = m.paginas[q].presencia

(* So such a step keeps the marks. *)
LEMMA MismosMarcosBien ==
  ASSUME NEW m, MarcosDePaginas(m), NEW n, MismosMarcos(m, n)
  PROVE  MarcosDePaginas(n)
BY DEF MarcosDePaginas, MismosMarcos

(* Replacing the bits of pages. *)
LEMMA BitsH ==
  ASSUME NEW m \in MemoriasH, NEW t \in [Paginas -> Info],
         \A q \in Paginas : /\ t[q].frame_mv = m.paginas[q].frame_mv
                            /\ t[q].frame_mp = m.paginas[q].frame_mp
                            /\ t[q].presencia = m.paginas[q].presencia
  PROVE  MismosMarcos(m, [m EXCEPT !.paginas = t])
<1> DEFINE n == [m EXCEPT !.paginas = t]
<1>1. n \in MemoriasH /\ n.paginas = t /\ n.lista = m.lista
      /\ n.bitmap_mp = m.bitmap_mp /\ n.bitmap_mv = m.bitmap_mv
  BY DEF MemoriasH
<1> HIDE DEF n
<1>2. MismosMarcos(m, n)
  BY <1>1 DEF MismosMarcos
<1> QED BY <1>2 DEF n

(* Pinning, unpinning and reading. *)
LEMMA LockeoH ==
  ASSUME NEW m \in MemoriasH, NEW S, NEW valor \in BOOLEAN
  PROVE  MismosMarcos(m, poner_bit_de_lockeo(m, S, valor))
<1> DEFINE t == [q \in Paginas |-> IF q \in S THEN [m.paginas[q] EXCEPT !.lockeo = valor]
                                              ELSE m.paginas[q]]
<1>1. m.paginas \in [Paginas -> Info]
  BY DEF MemoriasH
<1>2. /\ t \in [Paginas -> Info]
      /\ \A q \in Paginas : /\ t[q].frame_mv = m.paginas[q].frame_mv
                            /\ t[q].frame_mp = m.paginas[q].frame_mp
                            /\ t[q].presencia = m.paginas[q].presencia
  BY <1>1 DEF Info, InfoPagina
<1>3. poner_bit_de_lockeo(m, S, valor) = [m EXCEPT !.paginas = t]
  BY DEF poner_bit_de_lockeo
<1> HIDE DEF t
<1> QED BY <1>2, <1>3, BitsH

(* Reading pages only sets their bits. *)
LEMMA LeidasH ==
  ASSUME NEW m \in MemoriasH, NEW S
  PROVE  MismosMarcos(m, paginas_leidas(m, S))
<1> DEFINE t == [q \in Paginas |-> IF q \in S THEN [m.paginas[q] EXCEPT !.uso = TRUE]
                                              ELSE m.paginas[q]]
<1>1. m.paginas \in [Paginas -> Info]
  BY DEF MemoriasH
<1>2. /\ t \in [Paginas -> Info]
      /\ \A q \in Paginas : /\ t[q].frame_mv = m.paginas[q].frame_mv
                            /\ t[q].frame_mp = m.paginas[q].frame_mp
                            /\ t[q].presencia = m.paginas[q].presencia
  BY <1>1 DEF Info, InfoPagina
<1>3. paginas_leidas(m, S) = [m EXCEPT !.paginas = t]
  BY DEF paginas_leidas
<1> HIDE DEF t
<1> QED BY <1>2, <1>3, BitsH

(* So does setting the bit of use of a page. *)
LEMMA UsoH ==
  ASSUME NEW m \in MemoriasH, NEW p \in Paginas
  PROVE  MismosMarcos(m, [m EXCEPT !.paginas[p].uso = TRUE])
<1> DEFINE t == [m.paginas EXCEPT ![p] = [@ EXCEPT !.uso = TRUE]]
<1>1. m.paginas \in [Paginas -> Info]
  BY DEF MemoriasH
<1>2. /\ t \in [Paginas -> Info]
      /\ \A q \in Paginas : /\ t[q].frame_mv = m.paginas[q].frame_mv
                            /\ t[q].frame_mp = m.paginas[q].frame_mp
                            /\ t[q].presencia = m.paginas[q].presencia
  BY <1>1 DEF Info, InfoPagina
<1>3. [m EXCEPT !.paginas[p].uso = TRUE] = [m EXCEPT !.paginas = t]
  BY <1>1 DEF MemoriasH
<1> HIDE DEF t
<1> QED BY <1>2, <1>3, BitsH

(* Replacing what main memory holds. *)
LEMMA EscribirH ==
  ASSUME NEW m \in MemoriasH, NEW c \in [FramesMP -> Contenido], NEW p \in Paginas
  PROVE  MismosMarcos(m, agregar_a_lista_de_swapeo(
                           pagina_modificada([m EXCEPT !.mp = c], p), p, "REFERENCIA"))
<1> DEFINE s == [m EXCEPT !.mp = c]
           t == [s.paginas EXCEPT ![p] = [@ EXCEPT !.modificacion = TRUE, !.uso = TRUE]]
           n == [s EXCEPT !.paginas = t]
<1>1. /\ s \in MemoriasH /\ s.paginas = m.paginas /\ s.lista = m.lista
      /\ s.bitmap_mp = m.bitmap_mp /\ s.bitmap_mv = m.bitmap_mv
      /\ s.paginas \in [Paginas -> Info]
  BY DEF MemoriasH
<1>2. pagina_modificada(s, p) = n
  BY <1>1 DEF pagina_modificada, MemoriasH
<1> HIDE DEF s
<1>3. /\ t \in [Paginas -> Info]
      /\ \A q \in Paginas : /\ t[q].frame_mv = s.paginas[q].frame_mv
                            /\ t[q].frame_mp = s.paginas[q].frame_mp
                            /\ t[q].presencia = s.paginas[q].presencia
  BY <1>1 DEF Info, InfoPagina
<1> HIDE DEF t
<1>4. MismosMarcos(s, n)
  BY <1>1, <1>3, BitsH
<1>5. agregar_a_lista_de_swapeo(n, p, "REFERENCIA") = n
  BY RelojAssumption, "REFERENCIA" # "CARGA", "LRU" # "CLOCK_MODIFICADO"
     DEF agregar_a_lista_de_swapeo
<1> HIDE DEF n
<1>6. MismosMarcos(m, n)
  BY <1>1, <1>4 DEF MismosMarcos
<1> QED BY <1>2, <1>5, <1>6 DEF s

(* The page to take out of the list, and what is left. *)
LEMMA SacarH ==
  ASSUME NEW m \in MemoriasH, NEW p \in Paginas
  PROVE  LET k == SelectInSeq(m.lista, LAMBDA q : m.paginas[q].frame_mv = m.paginas[p].frame_mv)
         IN  /\ SacarDeLista(m, p) \in Seq(Paginas)
             /\ k \in 0 .. Len(m.lista)
             /\ Len(SacarDeLista(m, p)) = IF k = 0 THEN Len(m.lista) ELSE Len(m.lista) - 1
<1> DEFINE s == m.lista
           I == {i \in 1 .. Len(s) : m.paginas[s[i]].frame_mv = m.paginas[p].frame_mv}
           k == IF I # {} THEN Min(I) ELSE 0
<1>0. s \in Seq(Paginas) /\ Len(s) \in Nat /\ \A i \in 1 .. Len(s) : s[i] \in Paginas
  BY LenProperties, ElementOfSeq DEF MemoriasH
<1>1. /\ SelectInSeq(s, LAMBDA q : m.paginas[q].frame_mv = m.paginas[p].frame_mv) = k
      /\ SacarDeLista(m, p) = IF I # {} THEN RemoveAt(s, k) ELSE s
  BY DEF SacarDeLista, RemoveFirstMatch, SelectInSeq
<1>2. CASE I # {}
  <2>1. I \in SUBSET Nat
    BY <1>0
  <2> HIDE DEF I
  <2>2. k \in I
    BY <1>2, <2>1, MinimoDe
  <2>3. k \in 1 .. Len(s)
    BY <2>2 DEF I
  <2> HIDE DEF k
  <2> DEFINE a == SubSeq(s, 1, k - 1)
             b == SubSeq(s, k + 1, Len(s))
  <2>4. a \in Seq(Paginas) /\ Len(a) = k - 1
    BY <1>0, <2>3, SubSeqProperties
  <2>5. b \in Seq(Paginas) /\ Len(b) = Len(s) - k
    <3>1. \A i \in k + 1 .. Len(s) : s[i] \in Paginas
      BY <1>0, <2>3
    <3>2. /\ b \in Seq(Paginas)
          /\ Len(b) = IF k + 1 <= Len(s) THEN Len(s) - (k + 1) + 1 ELSE 0
      BY <3>1, <1>0, <2>3, SubSeqProperties
    <3> QED BY <3>2, <1>0, <2>3
  <2>6. RemoveAt(s, k) = a \o b
    BY DEF RemoveAt
  <2> HIDE DEF a, b
  <2>7. a \o b \in Seq(Paginas) /\ Len(a \o b) = Len(a) + Len(b)
    BY <2>4, <2>5, ConcatProperties
  <2>8. Len(a \o b) = Len(s) - 1
    BY <2>4, <2>5, <2>7, <2>3, <1>0
  <2> QED BY <1>1, <1>2, <2>3, <2>6, <2>7, <2>8
<1>3. CASE I = {}
  BY <1>0, <1>1, <1>3
<1> QED BY <1>2, <1>3

(* What swap does to the frames: p takes that of v, which may be p itself  *)
(* when another thread loaded it meanwhile; v is left without one.         *)
CambiaMarco(m, n, p, v) ==
  /\ n \in MemoriasH
  /\ n.bitmap_mp = m.bitmap_mp /\ n.bitmap_mv = m.bitmap_mv
  /\ Len(n.lista) = Len(m.lista)
  /\ \A q \in Paginas :
       /\ n.paginas[q].frame_mv = m.paginas[q].frame_mv
       /\ n.paginas[q].frame_mp = IF q = v THEN -1
                                  ELSE IF q = p THEN m.paginas[v].frame_mp
                                  ELSE m.paginas[q].frame_mp
       /\ n.paginas[q].presencia <=> q # v /\ (q = p \/ m.paginas[q].presencia)

(* Field by field, as for a consistent memory. *)
LEMMA LevantadaH ==
  ASSUME NEW m \in MemoriasH, NEW p \in Paginas, NEW f \in FramesMP
  PROVE  LET n == pagina_levantada(m, p, f)
         IN  /\ n \in MemoriasH
             /\ n.bitmap_mp = m.bitmap_mp /\ n.bitmap_mv = m.bitmap_mv
             /\ n.lista = m.lista
             /\ \A q \in Paginas : q # p => n.paginas[q] = m.paginas[q]
             /\ n.paginas[p].frame_mv = m.paginas[p].frame_mv
             /\ n.paginas[p].presencia
             /\ n.paginas[p].frame_mp = f
<1> DEFINE i == [m.paginas[p] EXCEPT !.presencia = TRUE, !.frame_mp = f,
                                     !.uso = TRUE, !.modificacion = FALSE]
           t == [m.paginas EXCEPT ![p] = i]
           n == [m EXCEPT !.paginas = t]
<1>0. m.paginas \in [Paginas -> Info] /\ m.paginas[p] \in Info
  BY DEF MemoriasH
<1>1. i \in Info /\ i.frame_mv = m.paginas[p].frame_mv /\ i.presencia /\ i.frame_mp = f
  <2>1. \A j \in Info :
          LET k == [j EXCEPT !.presencia = TRUE, !.frame_mp = f,
                             !.uso = TRUE, !.modificacion = FALSE]
          IN  k \in Info /\ k.frame_mv = j.frame_mv /\ k.presencia /\ k.frame_mp = f
    BY RegistroLevantado
  <2> QED BY <2>1, <1>0, Zenon
<1>2. pagina_levantada(m, p, f) = n
  BY DEF pagina_levantada
<1> HIDE DEF i
<1>3. t \in [Paginas -> Info] /\ t[p] = i /\ \A q \in Paginas : q # p => t[q] = m.paginas[q]
  BY <1>0, <1>1
<1> HIDE DEF t
<1>4. /\ n \in MemoriasH /\ n.paginas = t /\ n.lista = m.lista
      /\ n.bitmap_mp = m.bitmap_mp /\ n.bitmap_mv = m.bitmap_mv
  BY <1>3 DEF MemoriasH
<1> HIDE DEF n
<1> QED BY <1>1, <1>2, <1>3, <1>4

(* A page that is evicted gives its frame up and keeps the one of swap. *)
LEMMA DejarH ==
  ASSUME NEW m \in MemoriasH, NEW p \in Paginas
  PROVE  LET n == DejarFrame(m, p)
         IN  /\ n \in MemoriasH
             /\ n.bitmap_mp = m.bitmap_mp /\ n.bitmap_mv = m.bitmap_mv
             /\ n.lista = m.lista
             /\ \A q \in Paginas : q # p => n.paginas[q] = m.paginas[q]
             /\ n.paginas[p].frame_mv = m.paginas[p].frame_mv
             /\ ~ n.paginas[p].presencia
             /\ n.paginas[p].frame_mp = -1
<1> DEFINE i == [m.paginas[p] EXCEPT !.presencia = FALSE, !.frame_mp = -1]
           t == [m.paginas EXCEPT ![p] = i]
           n == [m EXCEPT !.paginas = t]
<1>0. m.paginas \in [Paginas -> Info] /\ m.paginas[p] \in Info
  BY DEF MemoriasH
<1>1. i \in Info /\ i.frame_mv = m.paginas[p].frame_mv /\ ~ i.presencia /\ i.frame_mp = -1
  BY <1>0, RegistroDejado
<1>2. DejarFrame(m, p) = n
  BY <1>0 DEF DejarFrame, MemoriasH, Info, InfoPagina
<1> HIDE DEF i
<1>3. t \in [Paginas -> Info] /\ t[p] = i /\ \A q \in Paginas : q # p => t[q] = m.paginas[q]
  BY <1>0, <1>1
<1> HIDE DEF t
<1>4. /\ n \in MemoriasH /\ n.paginas = t /\ n.lista = m.lista
      /\ n.bitmap_mp = m.bitmap_mp /\ n.bitmap_mv = m.bitmap_mv
  BY <1>3 DEF MemoriasH
<1> HIDE DEF n
<1> QED BY <1>1, <1>2, <1>3, <1>4

(* Writing a page back to swap changes only the frames of swap. *)
LEMMA SincronizarH ==
  ASSUME NEW m \in MemoriasH, NEW v \in Paginas,
         m.paginas[v].frame_mp \in FramesMP, m.paginas[v].frame_mv \in FramesMV
  PROVE  LET n == Sincronizar(m, v)
         IN  /\ n \in MemoriasH
             /\ n.bitmap_mp = m.bitmap_mp /\ n.bitmap_mv = m.bitmap_mv
             /\ n.paginas = m.paginas /\ n.lista = m.lista
BY DEF Sincronizar, ContenidoMP, MemoriasH

(* A swap hands the frame of the victim to the page, and nothing else. *)
LEMMA SwapH ==
  ASSUME NEW m \in MemoriasH, MarcosDePaginas(m), NEW p \in Paginas, tiene_pagina(m, p),
         HayVictima(m), m.paginas[m.lista[Eleccion(m).pos]].frame_mp # -1
  PROVE  LET v == m.lista[Eleccion(m).pos]
         IN  /\ v \in Paginas
             /\ m.paginas[v].frame_mp \in FramesMP
             /\ CambiaMarco(m, swap(m, p), p, v)
<1> DEFINE e == Eleccion(m)
           v == m.lista[e.pos]
           f == m.paginas[v].frame_mp
           req == m.mv[m.paginas[p].frame_mv]
           r == ReemplazarEnLista(m, p, e)
           s == Sincronizar(r, v)
           c == [s EXCEPT !.mp[f] = req]
           l == pagina_levantada(c, p, f)
           n == DejarFrame(l, v)
<1>0. /\ m.lista \in Seq(Paginas) /\ m.paginas \in [Paginas -> Info] /\ m.puntero \in Nat
      /\ Len(m.lista) \in Nat /\ \A i \in 1 .. Len(m.lista) : m.lista[i] \in Paginas
  BY LenProperties, ElementOfSeq DEF MemoriasH
<1>2. /\ e.pos \in 1 .. Len(m.lista) /\ e.paginas \in [Paginas -> Info]
      /\ \A q \in Paginas : /\ e.paginas[q].frame_mv     = m.paginas[q].frame_mv
                            /\ e.paginas[q].frame_mp     = m.paginas[q].frame_mp
                            /\ e.paginas[q].presencia    = m.paginas[q].presencia
  BY <1>0, EleccionDe
<1>3. v \in Paginas /\ f \in FramesMP /\ m.paginas[v].frame_mv \in FramesMV
  BY <1>0, <1>2 DEF MarcosDePaginas, Info, InfoPagina
<1>4. req \in Contenido
  BY <1>0 DEF MemoriasH, Info, InfoPagina, tiene_pagina
<1>5. /\ r \in MemoriasH
      /\ r.bitmap_mp = m.bitmap_mp /\ r.bitmap_mv = m.bitmap_mv
      /\ r.paginas = e.paginas /\ Len(r.lista) = Len(m.lista)
  <2> DEFINE lista == ReplaceAt(m.lista, e.pos, p)
             h == indice_siguiente_lista_circular(m.lista, e.pos - 1)
  <2>1. lista \in Seq(Paginas) /\ Len(lista) = Len(m.lista)
    BY <1>0, <1>2, ExceptSeq DEF ReplaceAt
  <2>2. h \in Nat
    <3> HIDE DEF e
    <3> QED BY <1>0, <1>2 DEF indice_siguiente_lista_circular
  <2>3. r = [m EXCEPT !.lista = lista, !.puntero = h, !.paginas = e.paginas]
    BY RelojAssumption, "LRU" # "CLOCK_MODIFICADO" DEF ReemplazarEnLista
  <2> HIDE DEF lista, h, e, r
  <2> QED BY <1>2, <2>1, <2>2, <2>3 DEF MemoriasH
<1>6. swap(m, p) = n
  BY DEF swap
<1> HIDE DEF e
<1> HIDE DEF v, f, req, r
<1>a. r.paginas[v].frame_mp = f /\ r.paginas[v].frame_mv = m.paginas[v].frame_mv
  BY <1>2, <1>3, <1>5 DEF f
<1>8. /\ s \in MemoriasH
      /\ s.bitmap_mp = r.bitmap_mp /\ s.bitmap_mv = r.bitmap_mv
      /\ s.paginas = r.paginas /\ s.lista = r.lista
  BY <1>3, <1>5, <1>a, SincronizarH
<1> HIDE DEF s
<1>9. /\ c \in MemoriasH
      /\ c.bitmap_mp = s.bitmap_mp /\ c.bitmap_mv = s.bitmap_mv
      /\ c.paginas = s.paginas /\ c.lista = s.lista
  BY <1>3, <1>4, <1>8 DEF MemoriasH
<1> HIDE DEF c
<1>10. /\ l \in MemoriasH
       /\ l.bitmap_mp = c.bitmap_mp /\ l.bitmap_mv = c.bitmap_mv /\ l.lista = c.lista
       /\ \A q \in Paginas : q # p => l.paginas[q] = c.paginas[q]
       /\ l.paginas[p].frame_mv = c.paginas[p].frame_mv
       /\ l.paginas[p].presencia /\ l.paginas[p].frame_mp = f
  BY <1>3, <1>9, LevantadaH
<1> HIDE DEF l
<1>11. /\ n \in MemoriasH
       /\ n.bitmap_mp = l.bitmap_mp /\ n.bitmap_mv = l.bitmap_mv /\ n.lista = l.lista
       /\ \A q \in Paginas : q # v => n.paginas[q] = l.paginas[q]
       /\ n.paginas[v].frame_mv = l.paginas[v].frame_mv
       /\ ~ n.paginas[v].presencia /\ n.paginas[v].frame_mp = -1
  BY <1>3, <1>10, DejarH
<1> HIDE DEF n
<1>12. \A q \in Paginas :
         /\ n.paginas[q].frame_mv = m.paginas[q].frame_mv
         /\ n.paginas[q].frame_mp = IF q = v THEN -1 ELSE IF q = p THEN f
                                    ELSE m.paginas[q].frame_mp
         /\ n.paginas[q].presencia <=> q # v /\ (q = p \/ m.paginas[q].presencia)
  <2> SUFFICES ASSUME NEW q \in Paginas
               PROVE  /\ n.paginas[q].frame_mv = m.paginas[q].frame_mv
                      /\ n.paginas[q].frame_mp = IF q = v THEN -1 ELSE IF q = p THEN f
                                                 ELSE m.paginas[q].frame_mp
                      /\ n.paginas[q].presencia <=> q # v /\ (q = p \/ m.paginas[q].presencia)
    OBVIOUS
  <2>1. /\ c.paginas[q].frame_mv = m.paginas[q].frame_mv
        /\ c.paginas[q].frame_mp = m.paginas[q].frame_mp
        /\ c.paginas[q].presencia = m.paginas[q].presencia
    BY <1>2, <1>5, <1>8, <1>9
  <2>2. CASE q = v /\ q = p
    BY <2>1, <2>2, <1>10, <1>11
  <2>3. CASE q = v /\ q # p
    BY <2>1, <2>3, <1>10, <1>11
  <2>4. CASE q # v /\ q = p
    BY <2>1, <2>4, <1>10, <1>11
  <2>5. CASE q # v /\ q # p
    BY <2>1, <2>5, <1>10, <1>11
  <2> QED BY <2>2, <2>3, <2>4, <2>5
<1>13. CambiaMarco(m, n, p, v)
  BY <1>5, <1>8, <1>9, <1>10, <1>11, <1>12 DEF CambiaMarco, f
<1> QED BY <1>3, <1>6, <1>13 DEF v, f, e

(* Loading p into the frame f. *)
TomaMarco(m, n, p, f) ==
  /\ n \in MemoriasH
  /\ n.bitmap_mv = m.bitmap_mv
  /\ \A g \in FramesMP : n.bitmap_mp[g] <=> g = f \/ m.bitmap_mp[g]
  /\ Len(n.lista) >= Len(m.lista)
  /\ \A q \in Paginas :
       /\ n.paginas[q].frame_mv = m.paginas[q].frame_mv
       /\ n.paginas[q].frame_mp = IF q = p THEN f ELSE m.paginas[q].frame_mp
       /\ n.paginas[q].presencia <=> q = p \/ m.paginas[q].presencia

(* Loading a page gives it the frame, and nothing else. *)
LEMMA CargarH ==
  ASSUME NEW m \in MemoriasH, NEW p \in Paginas, tiene_pagina(m, p), NEW f \in FramesMP
  PROVE  TomaMarco(m, cargar_en_frame(m, p, f), p, f)
<1> DEFINE req == m.mv[m.paginas[p].frame_mv]
           s == [m EXCEPT !.bitmap_mp[f] = TRUE, !.mp[f] = req]
           b == pagina_levantada(s, p, f)
           lista == Append(SacarDeLista(b, p), p)
           n == [b EXCEPT !.lista = lista]
<1>1. req \in Contenido
  BY DEF MemoriasH, Info, InfoPagina, tiene_pagina
<1> HIDE DEF req
<1>2. /\ s \in MemoriasH /\ s.bitmap_mv = m.bitmap_mv
      /\ s.paginas = m.paginas /\ s.lista = m.lista
      /\ \A g \in FramesMP : s.bitmap_mp[g] = (g = f \/ m.bitmap_mp[g])
  <2> DEFINE bm == [m.bitmap_mp EXCEPT ![f] = TRUE]
             c  == [m.mp EXCEPT ![f] = req]
  <2>1. /\ bm \in [FramesMP -> BOOLEAN] /\ c \in [FramesMP -> Contenido]
    BY <1>1 DEF MemoriasH
  <2>2. \A g \in FramesMP : bm[g] = (g = f \/ m.bitmap_mp[g])
    BY <1>1, Zenon DEF MemoriasH
  <2>3. s = [m EXCEPT !.bitmap_mp = bm, !.mp = c]
    OBVIOUS
  <2> HIDE DEF bm, c, s
  <2> QED BY <1>1, <2>1, <2>2, <2>3 DEF MemoriasH
<1>3. cargar_en_frame(m, p, f) = n
  BY DEF cargar_en_frame, agregar_a_lista_de_swapeo, req
<1> HIDE DEF s
<1>4. /\ b \in MemoriasH
      /\ b.bitmap_mp = s.bitmap_mp /\ b.bitmap_mv = s.bitmap_mv /\ b.lista = s.lista
      /\ \A q \in Paginas : q # p => b.paginas[q] = s.paginas[q]
      /\ b.paginas[p].frame_mv = s.paginas[p].frame_mv
      /\ b.paginas[p].presencia /\ b.paginas[p].frame_mp = f
  BY <1>2, LevantadaH
<1> HIDE DEF b
<1>5. lista \in Seq(Paginas) /\ Len(lista) >= Len(b.lista)
  <2>1. /\ SacarDeLista(b, p) \in Seq(Paginas)
        /\ Len(SacarDeLista(b, p)) >= Len(b.lista) - 1
        /\ Len(b.lista) \in Nat /\ Len(SacarDeLista(b, p)) \in Nat
    <3>1. b.lista \in Seq(Paginas)
      BY <1>4 DEF MemoriasH
    <3>2. Len(b.lista) \in Nat
      BY <3>1, LenProperties
    <3>3. /\ SacarDeLista(b, p) \in Seq(Paginas)
          /\ Len(SacarDeLista(b, p)) = Len(b.lista) \/ Len(SacarDeLista(b, p)) = Len(b.lista) - 1
      BY <1>4, SacarH
    <3>4. Len(SacarDeLista(b, p)) \in Nat
      BY <3>3, LenProperties
    <3> QED BY <3>2, <3>3, <3>4
  <2>2. lista \in Seq(Paginas) /\ Len(lista) = Len(SacarDeLista(b, p)) + 1
    BY <2>1, AppendProperties
  <2> QED BY <2>1, <2>2
<1> HIDE DEF lista
<1>6. /\ n \in MemoriasH /\ n.paginas = b.paginas /\ n.lista = lista
      /\ n.bitmap_mp = b.bitmap_mp /\ n.bitmap_mv = b.bitmap_mv
  BY <1>4, <1>5 DEF MemoriasH
<1> HIDE DEF n
<1>7. \A q \in Paginas :
         /\ n.paginas[q].frame_mv = m.paginas[q].frame_mv
         /\ n.paginas[q].frame_mp = IF q = p THEN f ELSE m.paginas[q].frame_mp
         /\ n.paginas[q].presencia <=> q = p \/ m.paginas[q].presencia
  BY <1>2, <1>4, <1>6
<1> QED BY <1>2, <1>3, <1>4, <1>5, <1>6, <1>7 DEF TomaMarco

(* A new page, on the swap frame f. *)
Nace(m, n, p, f) ==
  /\ n \in MemoriasH
  /\ n.bitmap_mp = m.bitmap_mp
  /\ \A g \in FramesMV : n.bitmap_mv[g] <=> g = f \/ m.bitmap_mv[g]
  /\ Len(n.lista) = Len(m.lista)
  /\ \A q \in Paginas : q # p => n.paginas[q] = m.paginas[q]
  /\ n.paginas[p].frame_mv = f /\ n.paginas[p].frame_mp = -1 /\ ~ n.paginas[p].presencia

(* A new page has the frame of swap that was reserved for it. *)
LEMMA NuevaH ==
  ASSUME NEW m \in MemoriasH, NEW p \in Paginas, NEW f \in FramesMV, NEW cantidad \in Int
  PROVE  Nace(m, agregar_nueva_plato_a_pedido(m, p, cantidad, f), p, f)
<1> DEFINE n  == agregar_nueva_plato_a_pedido(m, p, cantidad, f)
           i  == [SinPagina EXCEPT !.frame_mv = f]
           cn == [cantidad_total |-> cantidad % Modulo, cantidad_lista |-> 0]
           bm == [m.bitmap_mv EXCEPT ![f] = TRUE]
           c  == [m.mv EXCEPT ![f] = cn]
           t  == [m.paginas EXCEPT ![p] = i]
<1>1. /\ m.bitmap_mv \in [FramesMV -> BOOLEAN] /\ m.mv \in [FramesMV -> Contenido]
      /\ m.paginas \in [Paginas -> Info]
  BY DEF MemoriasH
<1>2. cn \in Contenido
  <2>1. cantidad % Modulo \in 0 .. Modulo - 1 /\ 0 \in 0 .. Modulo - 1
    BY ModuloAssumption
  <2> QED BY <2>1 DEF Contenido
<1>3. /\ i \in Info /\ i.frame_mv = f /\ i.frame_mp = -1 /\ ~ i.presencia
  BY DEF SinPagina, Info, InfoPagina
<1> HIDE DEF cn, i
<1>4. bm \in [FramesMV -> BOOLEAN] /\ \A g \in FramesMV : bm[g] = (g = f \/ m.bitmap_mv[g])
  BY <1>1, Zenon
<1>5. /\ c \in [FramesMV -> Contenido] /\ t \in [Paginas -> Info] /\ t[p] = i
      /\ \A q \in Paginas : q # p => t[q] = m.paginas[q]
  BY <1>1, <1>2, <1>3
<1>6. n = [m EXCEPT !.bitmap_mv = bm, !.mv = c, !.paginas = t]
  BY DEF agregar_nueva_plato_a_pedido, i, cn
<1> HIDE DEF bm, c, t, n
<1>7. /\ n \in MemoriasH /\ n.bitmap_mp = m.bitmap_mp
      /\ n.bitmap_mv = bm /\ n.paginas = t /\ n.lista = m.lista
  BY <1>1, <1>4, <1>5, <1>6 DEF MemoriasH
<1>8. Nace(m, n, p, f)
  BY <1>3, <1>4, <1>5, <1>7 DEF Nace
<1> QED BY <1>8 DEF n

(* Freeing the page p. *)
Muere(m, n, p) ==
  /\ n \in MemoriasH
  /\ \A g \in FramesMV : n.bitmap_mv[g] <=> g # m.paginas[p].frame_mv /\ m.bitmap_mv[g]
  /\ \A g \in FramesMP : n.bitmap_mp[g] <=> g # m.paginas[p].frame_mp /\ m.bitmap_mp[g]
  /\ \A q \in Paginas : q # p => n.paginas[q] = m.paginas[q]
  /\ n.paginas[p].frame_mv = -1 /\ n.paginas[p].frame_mp = -1 /\ ~ n.paginas[p].presencia

(* Freeing a page returns its frames, and takes it out of the list. *)
LEMMA LiberarH ==
  ASSUME NEW m \in MemoriasH, NEW p \in Paginas, tiene_pagina(m, p)
  PROVE  Muere(m, liberar_pagina(m, p), p) /\ liberar_pagina(m, p).lista = SacarDeLista(m, p)
<1> DEFINE n  == liberar_pagina(m, p)
           fv == m.paginas[p].frame_mv
           fp == m.paginas[p].frame_mp
           s  == SacarDeLista(m, p)
           bv == [m.bitmap_mv EXCEPT ![fv] = FALSE]
           bp == IF fp >= 0 THEN [m.bitmap_mp EXCEPT ![fp] = FALSE] ELSE m.bitmap_mp
           t  == [m.paginas EXCEPT ![p] = SinPagina]
<1>1. /\ m.bitmap_mv \in [FramesMV -> BOOLEAN] /\ m.bitmap_mp \in [FramesMP -> BOOLEAN]
      /\ m.paginas \in [Paginas -> Info]
  BY DEF MemoriasH
<1>2. /\ SinPagina \in Info /\ SinPagina.frame_mv = -1 /\ SinPagina.frame_mp = -1
      /\ ~ SinPagina.presencia
  BY DEF SinPagina, Info, InfoPagina
<1>3. /\ fv \in FramesMV
      /\ fp \in FramesMP \cup {-1} /\ (fp >= 0 <=> fp # -1)
  BY <1>1, FramesAssumption DEF tiene_pagina, Info, InfoPagina, FramesMP, FramesMV
<1>4. bv \in [FramesMV -> BOOLEAN] /\ \A g \in FramesMV : bv[g] = (g # fv /\ m.bitmap_mv[g])
  BY <1>1, Zenon
<1>5. bp \in [FramesMP -> BOOLEAN] /\ \A g \in FramesMP : bp[g] = (g # fp /\ m.bitmap_mp[g])
  <2>1. CASE fp >= 0
    <3>1. bp = [m.bitmap_mp EXCEPT ![fp] = FALSE]
      BY <2>1
    <3> HIDE DEF bp
    <3> QED BY <3>1, <1>1, Zenon
  <2>2. CASE ~ (fp >= 0)
    <3>1. \A g \in FramesMP : g # fp
      BY <1>3, <2>2 DEF FramesMP
    <3>2. bp = m.bitmap_mp
      BY <2>2
    <3> HIDE DEF bp
    <3> QED BY <3>1, <3>2, <1>1, Zenon
  <2> QED BY <2>1, <2>2
<1>6. /\ t \in [Paginas -> Info] /\ t[p] = SinPagina
      /\ \A q \in Paginas : q # p => t[q] = m.paginas[q]
  BY <1>1, <1>2
<1>7. s \in Seq(Paginas)
  BY SacarH
<1>8. n = [m EXCEPT !.lista = s, !.bitmap_mv = bv, !.bitmap_mp = bp, !.paginas = t]
  BY <1>1 DEF liberar_pagina, MemoriasH
<1> HIDE DEF s, bv, bp, t, n
<1>9. /\ n \in MemoriasH /\ n.bitmap_mp = bp
      /\ n.bitmap_mv = bv /\ n.paginas = t /\ n.lista = s
  BY <1>1, <1>4, <1>5, <1>6, <1>7, <1>8 DEF MemoriasH
<1>10. Muere(m, n, p)
  BY <1>2, <1>4, <1>5, <1>6, <1>9 DEF Muere
<1> QED BY <1>9, <1>10 DEF n, s

(* The first free frame of each memory. *)
LEMMA LibreMP ==
  ASSUME NEW m \in MemoriasH
  PROVE  LET f == obtener_frame_libre(m.bitmap_mp)
         IN  f \in Int /\ (f < 0 \/ (f \in FramesMP /\ ~ m.bitmap_mp[f]))
<1>1. m.bitmap_mp \in [0 .. CantFramesMP - 1 -> BOOLEAN] /\ CantFramesMP \in Nat
  BY FramesAssumption DEF MemoriasH, FramesMP
<1> QED BY <1>1, FrameLibre DEF FramesMP

(* The same for the frames of swap. *)
LEMMA LibreMV ==
  ASSUME NEW m \in MemoriasH
  PROVE  LET f == obtener_frame_libre(m.bitmap_mv)
         IN  f \in Int /\ (f < 0 \/ (f \in FramesMV /\ ~ m.bitmap_mv[f]))
<1>1. m.bitmap_mv \in [0 .. CantFramesMV - 1 -> BOOLEAN] /\ CantFramesMV \in Nat
  BY FramesAssumption DEF MemoriasH, FramesMV
<1> QED BY <1>1, FrameLibre DEF FramesMV

(* Every one of these keeps the frames of pages marked, provided that no   *)
(* two pages had the same frame.                                           *)
MarcosPropios(m) ==
  \A p, q \in Paginas : p # q =>
    /\ m.paginas[p].frame_mv # -1 => m.paginas[p].frame_mv # m.paginas[q].frame_mv
    /\ m.paginas[p].frame_mp # -1 => m.paginas[p].frame_mp # m.paginas[q].frame_mp

(* A swap keeps the frames marked and of one page each. *)
LEMMA CambiaMarcoBien ==
  ASSUME NEW m, MarcosDePaginas(m), MarcosPropios(m), NEW p \in Paginas, tiene_pagina(m, p),
         NEW v \in Paginas, m.paginas[v].frame_mp # -1, NEW n, CambiaMarco(m, n, p, v)
  PROVE  MarcosDePaginas(n) /\ MarcosPropios(n)
<1>1. MarcosDePaginas(n)
  BY DEF MarcosDePaginas, CambiaMarco, tiene_pagina
<1>2. MarcosPropios(n)
  BY DEF MarcosPropios, CambiaMarco
<1> QED BY <1>1, <1>2

(* So does a load into a frame that no page has. *)
LEMMA TomaMarcoBien ==
  ASSUME NEW m, MarcosDePaginas(m), MarcosPropios(m), NEW p \in Paginas, tiene_pagina(m, p),
         m \in MemoriasH,
         NEW f \in FramesMP, \A q \in Paginas : m.paginas[q].frame_mp # f,
         NEW n, TomaMarco(m, n, p, f)
  PROVE  MarcosDePaginas(n) /\ MarcosPropios(n)
<1>0. f # -1
  BY DEF FramesMP
<1>1. MarcosDePaginas(n)
  <2> SUFFICES ASSUME NEW q \in Paginas
               PROVE  LET i == n.paginas[q]
                      IN  /\ i.presencia <=> i.frame_mp # -1
                          /\ i.presencia => i.frame_mv # -1
                          /\ i.frame_mv # -1 => n.bitmap_mv[i.frame_mv]
                          /\ i.frame_mp # -1 => n.bitmap_mp[i.frame_mp]
    BY DEF MarcosDePaginas
  <2>1. m.paginas[q].frame_mp # -1 => m.paginas[q].frame_mp \in FramesMP
    BY DEF MemoriasH, Info, InfoPagina
  <2> QED BY <1>0, <2>1 DEF MarcosDePaginas, TomaMarco, tiene_pagina
<1>2. MarcosPropios(n)
  BY DEF MarcosPropios, TomaMarco
<1> QED BY <1>1, <1>2

(* So does a new page, in a frame of swap that no page has. *)
LEMMA NaceBien ==
  ASSUME NEW m, MarcosDePaginas(m), MarcosPropios(m), m \in MemoriasH, NEW p \in Paginas,
         NEW f \in FramesMV, \A q \in Paginas : m.paginas[q].frame_mv # f,
         NEW n, Nace(m, n, p, f)
  PROVE  MarcosDePaginas(n) /\ MarcosPropios(n)
<1>0. f # -1
  BY DEF FramesMV
<1>1. MarcosDePaginas(n)
  <2> SUFFICES ASSUME NEW q \in Paginas
               PROVE  LET i == n.paginas[q]
                      IN  /\ i.presencia <=> i.frame_mp # -1
                          /\ i.presencia => i.frame_mv # -1
                          /\ i.frame_mv # -1 => n.bitmap_mv[i.frame_mv]
                          /\ i.frame_mp # -1 => n.bitmap_mp[i.frame_mp]
    BY DEF MarcosDePaginas
  <2>1. m.paginas[q].frame_mv # -1 => m.paginas[q].frame_mv \in FramesMV
    BY DEF MemoriasH, Info, InfoPagina
  <2> QED BY <1>0, <2>1 DEF MarcosDePaginas, Nace
<1>2. MarcosPropios(n)
  BY DEF MarcosPropios, Nace
<1> QED BY <1>1, <1>2

(* So does freeing a page. *)
LEMMA MuereBien ==
  ASSUME NEW m, MarcosDePaginas(m), MarcosPropios(m), m \in MemoriasH, NEW p \in Paginas,
         tiene_pagina(m, p), NEW n, Muere(m, n, p)
  PROVE  MarcosDePaginas(n) /\ MarcosPropios(n)
<1>1. MarcosDePaginas(n)
  <2> SUFFICES ASSUME NEW q \in Paginas
               PROVE  LET i == n.paginas[q]
                      IN  /\ i.presencia <=> i.frame_mp # -1
                          /\ i.presencia => i.frame_mv # -1
                          /\ i.frame_mv # -1 => n.bitmap_mv[i.frame_mv]
                          /\ i.frame_mp # -1 => n.bitmap_mp[i.frame_mp]
    BY DEF MarcosDePaginas
  <2>1. /\ m.paginas[q].frame_mv # -1 => m.paginas[q].frame_mv \in FramesMV
        /\ m.paginas[q].frame_mp # -1 => m.paginas[q].frame_mp \in FramesMP
    BY DEF MemoriasH, Info, InfoPagina
  <2>2. q # p => /\ m.paginas[q].frame_mv # -1 => m.paginas[q].frame_mv # m.paginas[p].frame_mv
                 /\ m.paginas[q].frame_mp # -1 => m.paginas[q].frame_mp # m.paginas[p].frame_mp
    BY DEF MarcosPropios
  <2> QED BY <2>1, <2>2 DEF MarcosDePaginas, Muere
<1>2. MarcosPropios(n)
  BY DEF MarcosPropios, Muere
<1> QED BY <1>1, <1>2

-----------------------------------------------------------------------------
(* What a step of t keeps of the other threads.                            *)

(* u is where it was, with its request and what it read; it may have lost  *)
(* the page it points to, or its place in the list.                        *)
Quieto(u) ==
  /\ hilos'[u].pc = hilos[u].pc /\ hilos'[u].op = hilos[u].op
  /\ hilos'[u].pedido = hilos[u].pedido /\ hilos'[u].plato = hilos[u].plato
  /\ hilos'[u].camino = hilos[u].camino /\ hilos'[u].dato = hilos[u].dato
  /\ hilos'[u].pendientes = hilos[u].pendientes /\ hilos'[u].leido = hilos[u].leido
  /\ hilos[u].colgado => hilos'[u].colgado

(* A thread that a step does not change is one of those. *)
LEMMA QuietoSiIgual ==
  ASSUME NEW u, hilos'[u] = hilos[u] PROVE Quieto(u)
BY DEF Quieto

(* t takes lock_swap, releases it, or does neither. *)
CambiaSwap(t) ==
  \/ lock_swap' = lock_swap /\ (ConSwap(t)' <=> ConSwap(t))
  \/ lock_swap = Nadie /\ lock_swap' = t /\ ConSwap(t)'
  \/ lock_swap' = Nadie /\ ConSwap(t) /\ ~ ConSwap(t)'

(* lock_swap has its owner after a step of one thread. *)
LEMMA SwapPaso ==
  ASSUME DuenoDeSwap, NEW t \in Hilos, lock_swap \in Hilos \cup {Nadie}, CambiaSwap(t),
         \A u \in Hilos \ {t} : Quieto(u)
  PROVE  DuenoDeSwap'
<1>1. \A u \in Hilos \ {t} : ConSwap(u)' <=> ConSwap(u)
  BY DEF Quieto, ConSwap
<1>2. \A u \in Hilos : u # Nadie
  BY NadieAssumption
<1> QED BY <1>1, <1>2 DEF DuenoDeSwap, CambiaSwap

(* The frames that pages have after the step of t were those of pages, or  *)
(* the one that t reserved, or a free one; and t keeps the frame it        *)
(* reserved, or reserves a free one.                                       *)
CambiaMarcos(t) ==
  LET f == hilos[t].dato.frame
      g == hilos'[t].dato.frame
  IN  /\ \A q \in Paginas :
           LET x == mem'.paginas[q].frame_mv
           IN  \/ x = -1 \/ x = mem.paginas[q].frame_mv
               \/ ReservaMV(t) /\ ~ ReservaMV(t)' /\ x = f
      /\ \A q \in Paginas :
           LET x == mem'.paginas[q].frame_mp
           IN  \/ x = -1 \/ \E r \in Paginas : x = mem.paginas[r].frame_mp
               \/ ReservaMP(t) /\ ~ ReservaMP(t)' /\ x = f
               \/ x \in FramesMP /\ ~ mem.bitmap_mp[x] /\ ~ ReservaMP(t)'
      /\ \A x \in FramesMV : mem.bitmap_mv[x] =>
           mem'.bitmap_mv[x] \/ \E q \in Paginas : x = mem.paginas[q].frame_mv
      /\ \A x \in FramesMP : mem.bitmap_mp[x] =>
           mem'.bitmap_mp[x] \/ \E q \in Paginas : x = mem.paginas[q].frame_mp
      /\ ReservaMV(t)' => \/ ReservaMV(t) /\ g = f
                          \/ g \in FramesMV /\ ~ mem.bitmap_mv[g] /\ mem'.bitmap_mv[g]
      /\ ReservaMP(t)' => \/ ReservaMP(t) /\ g = f
                          \/ g \in FramesMP /\ ~ mem.bitmap_mp[g] /\ mem'.bitmap_mp[g]

(* No frame is shared after a step of one thread. *)
LEMMA ReservasPaso ==
  ASSUME MarcosDePaginas(mem), Reservas, MarcosSinCompartir, NEW t \in Hilos,
         \A u \in Hilos \ {t} : Quieto(u), CambiaMarcos(t), MarcosPropios(mem')
  PROVE  Reservas' /\ MarcosSinCompartir'
<1> DEFINE f(u) == hilos[u].dato.frame
           g(u) == hilos'[u].dato.frame
<1>0. \A x \in FramesMV \cup FramesMP : x # -1
  BY DEF FramesMV, FramesMP
<1>1. \A u \in Hilos \ {t} : /\ ReservaMV(u)' <=> ReservaMV(u)
                             /\ ReservaMP(u)' <=> ReservaMP(u)
                             /\ g(u) = f(u)
  BY DEF Quieto, ReservaMV, ReservaMP
<1>2. \A u \in Hilos : /\ ReservaMV(u) => f(u) \in FramesMV /\ mem.bitmap_mv[f(u)]
                       /\ ReservaMP(u) => f(u) \in FramesMP /\ mem.bitmap_mp[f(u)]
  BY DEF Reservas
<1>3. \A u \in Hilos, q \in Paginas :
        /\ ReservaMV(u) => mem.paginas[q].frame_mv # f(u)
        /\ ReservaMP(u) => mem.paginas[q].frame_mp # f(u)
  BY DEF MarcosSinCompartir
<1>4. \A u, w \in Hilos : u # w =>
        /\ ReservaMV(u) /\ ReservaMV(w) => f(u) # f(w)
        /\ ReservaMP(u) /\ ReservaMP(w) => f(u) # f(w)
  BY DEF MarcosSinCompartir
<1>5. \A q \in Paginas : /\ mem.paginas[q].frame_mv # -1 => mem.bitmap_mv[mem.paginas[q].frame_mv]
                         /\ mem.paginas[q].frame_mp # -1 => mem.bitmap_mp[mem.paginas[q].frame_mp]
  BY DEF MarcosDePaginas
<1>6. \A u \in Hilos : /\ ReservaMV(u)' => g(u) \in FramesMV /\ mem'.bitmap_mv[g(u)]
                       /\ ReservaMP(u)' => g(u) \in FramesMP /\ mem'.bitmap_mp[g(u)]
  BY <1>1, <1>2, <1>3 DEF CambiaMarcos
<1>7. \A u \in Hilos, q \in Paginas : ReservaMV(u)' => mem'.paginas[q].frame_mv # g(u)
  <2> SUFFICES ASSUME NEW u \in Hilos, NEW q \in Paginas, ReservaMV(u)'
               PROVE  mem'.paginas[q].frame_mv # g(u)
    OBVIOUS
  <2>1. CASE u # t
    BY <2>1, <1>0, <1>1, <1>2, <1>3, <1>4 DEF CambiaMarcos
  <2>2. CASE u = t
    BY <2>2, <1>0, <1>2, <1>3, <1>5, <1>6 DEF CambiaMarcos
  <2> QED BY <2>1, <2>2
<1>8. \A u \in Hilos, q \in Paginas : ReservaMP(u)' => mem'.paginas[q].frame_mp # g(u)
  <2> SUFFICES ASSUME NEW u \in Hilos, NEW q \in Paginas, ReservaMP(u)'
               PROVE  mem'.paginas[q].frame_mp # g(u)
    OBVIOUS
  <2>1. CASE u # t
    BY <2>1, <1>0, <1>1, <1>2, <1>3, <1>4 DEF CambiaMarcos
  <2>2. CASE u = t
    BY <2>2, <1>0, <1>2, <1>3, <1>5, <1>6 DEF CambiaMarcos
  <2> QED BY <2>1, <2>2
<1>9. \A u, w \in Hilos : u # w =>
        /\ ReservaMV(u)' /\ ReservaMV(w)' => g(u) # g(w)
        /\ ReservaMP(u)' /\ ReservaMP(w)' => g(u) # g(w)
  BY <1>1, <1>2, <1>4 DEF CambiaMarcos
<1>10. Reservas'
  BY <1>6 DEF Reservas
<1>11. MarcosSinCompartir'
  BY <1>7, <1>8, <1>9 DEF MarcosSinCompartir, MarcosPropios
<1> QED BY <1>10, <1>11

(* Whose pages they are. *)
LEMMA PedidoDe ==
  ASSUME NEW u, Lugar(u), hilos[u].pc # "LIBRE"
  PROVE  hilos[u].pedido \in Pedidos /\ \A d \in Platos : <<hilos[u].pedido, d>> \in Paginas
<1>1. hilos[u].op # "NINGUNA"
  BY DEF Lugar, PasosDe
<1> QED BY <1>1 DEF Lugar, Paginas

(* The page of a thread that follows one is a page. *)
LEMMA PaginaDe ==
  ASSUME NEW u, Lugar(u), hilos[u].op \in ConPlato \/ SigueSuPagina(u)
  PROVE  Pagina(u) \in Paginas
<1>1. hilos[u].op \in ConPlato
  BY DEF SigueSuPagina, Lugar, ConPlato
<1>2. hilos[u].op # "NINGUNA"
  BY <1>1 DEF ConPlato
<1> QED BY <1>1, <1>2 DEF Lugar, Paginas, Pagina

(* Pages that exist go on existing for who follows them. *)
LEMMA VivasDeOtro ==
  ASSUME NEW u \in Hilos, Quieto(u), Vivas(u), Lugar(u),
         \A q \in Paginas : tiene_pagina(mem, q) => tiene_pagina(mem', q)
  PROVE  Vivas(u)'
<1>1. SigueSuPagina(u)' => SigueSuPagina(u)
  BY DEF Quieto, SigueSuPagina
<1>2. Pagina(u)' = Pagina(u)
  BY DEF Quieto, Pagina
<1>3. SigueSuPagina(u) => Pagina(u) \in Paginas
  BY PaginaDe
<1>4. hilos[u].pc \in Pasada => PlatosDelPedido(u) \subseteq PlatosDelPedido(u)'
  <2> SUFFICES ASSUME hilos[u].pc \in Pasada
               PROVE  PlatosDelPedido(u) \subseteq PlatosDelPedido(u)'
    OBVIOUS
  <2>1. hilos[u].pc # "LIBRE"
    BY DEF Pasada
  <2>2. \A d \in Platos : <<hilos[u].pedido, d>> \in Paginas
    BY <2>1, PedidoDe
  <2> QED BY <2>2 DEF Quieto, PlatosDelPedido, tabla_de_platos
<1> QED BY <1>1, <1>2, <1>3, <1>4 DEF Vivas, Quieto

(* A thread that keeps its place. *)
LEMMA LugarDeOtro ==
  ASSUME NEW u \in Hilos, Quieto(u), Lugar(u),
         hilos[u].pc = "LOCKEAR_LEVANTADA" => hilos'[u].espera \in Paginas,
         hilos[u].pc \in Recorriendo => hilos'[u].cursor \in -1 .. Len(mem'.lista)
  PROVE  Lugar(u)'
BY DEF Quieto, Lugar

(* Most steps move only one thread and no page. *)
LEMMA PasoComun ==
  ASSUME Sigue, NEW t \in Hilos, TiposH', \A u \in Hilos \ {t} : hilos'[u] = hilos[u],
         MismosMarcos(mem, mem'), Lugar(t)', Vivas(t)', CambiaSwap(t),
         ReservaMV(t)' => ReservaMV(t) /\ hilos'[t].dato.frame = hilos[t].dato.frame,
         ReservaMP(t)' => ReservaMP(t) /\ hilos'[t].dato.frame = hilos[t].dato.frame
  PROVE  Sigue'
<1>1. \A u \in Hilos \ {t} : Quieto(u)
  BY QuietoSiIgual
<1>2. MarcosPropios(mem) /\ MarcosPropios(mem')
  BY DEF Sigue, MarcosSinCompartir, MarcosPropios, MismosMarcos
<1>3. CambiaMarcos(t)
  BY DEF CambiaMarcos, MismosMarcos
<1>4. Reservas' /\ MarcosSinCompartir'
  BY <1>1, <1>2, <1>3, ReservasPaso DEF Sigue
<1>5. MarcosDePaginas(mem')
  BY MismosMarcosBien DEF Sigue
<1>6. \A u \in Hilos : Lugar(u)'
  <2> SUFFICES ASSUME NEW u \in Hilos \ {t} PROVE Lugar(u)'
    OBVIOUS
  <2> QED BY <1>1, LugarDeOtro DEF Sigue, MismosMarcos, Lugar
<1>7. DuenoDeSwap'
  BY <1>1, SwapPaso DEF Sigue, TiposH
<1>8. \A u \in Hilos : Vivas(u)'
  <2> SUFFICES ASSUME NEW u \in Hilos \ {t} PROVE Vivas(u)'
    OBVIOUS
  <2> QED BY <1>1, VivasDeOtro DEF Sigue, MismosMarcos, tiene_pagina
<1> QED BY <1>4, <1>5, <1>6, <1>7, <1>8 DEF Sigue

-----------------------------------------------------------------------------
(* The steps, one by one.                                                  *)

(* A step of a handler is a step. *)
LEMMA PasoEnPasos ==
  ASSUME NEW op \in Operaciones \cup {"NINGUNA"}, NEW pc \in PasosDe(op)
  PROVE  pc \in Pasos
BY DEF Pasos

(* Whose step each one is. *)
LEMMA OpDe ==
  ASSUME NEW op \in Operaciones \cup {"NINGUNA"}, NEW pc \in PasosDe(op)
  PROVE  /\ pc # "FALLO"
         /\ pc = "LIBRE" => op = "NINGUNA"
         /\ pc \in {"CREAR_TABLA", "TOMAR_TABLA", "AGREGAR_PEDIDO"} => op = "GUARDAR_PEDIDO"
         /\ pc = "PROBAR_ESTADO" => op \in ConPruebas
         /\ pc \in Alta \cup {"BUSCAR_PLATO", "RESERVAR_MP", "TOMAR_PAGINA", "CARGAR", "SOLTAR_PAGINA",
                           "SWAP", "LEER_TOTAL", "ESCRIBIR_TOTAL", "INFORMAR"} => op = "GUARDAR_PLATO"
         /\ pc = "CONFIRMAR" => op = "CONFIRMAR_PEDIDO"
         /\ pc = "TOMAR_SWAP" => op \in {"GUARDAR_PLATO", "OBTENER_PEDIDO", "PLATO_LISTO",
                                         "FINALIZAR_PEDIDO"}
         /\ pc \in Recorriendo => op \in {"GUARDAR_PLATO", "OBTENER_PEDIDO", "PLATO_LISTO"}
         /\ pc \in {"FIJAR", "LEVANTAR", "LOCKEAR_LEVANTADA"} => op \in {"OBTENER_PEDIDO", "PLATO_LISTO"}
         /\ pc \in {"ENLISTAR", "LEER_ESTADO"} => op = "OBTENER_PEDIDO"
         /\ pc \in {"SUMAR_LISTA", "CONTAR", "MARCAR"} => op = "PLATO_LISTO"
         /\ pc \in {"SACAR_PEDIDO", "LIBERAR"} => op = "FINALIZAR_PEDIDO"
<1> USE DEF PasosDe, Busqueda, Recorrido, Alta, Recorriendo, ConPruebas
<1>1. CASE op = "NINGUNA" BY <1>1
<1>2. CASE op = "GUARDAR_PEDIDO" BY <1>2
<1>3. CASE op = "GUARDAR_PLATO" BY <1>3
<1>4. CASE op = "OBTENER_PEDIDO" BY <1>4
<1>5. CASE op = "CONFIRMAR_PEDIDO" BY <1>5
<1>6. CASE op = "PLATO_LISTO" BY <1>6
<1>7. CASE op = "FINALIZAR_PEDIDO" BY <1>7
<1> QED BY <1>1, <1>2, <1>3, <1>4, <1>5, <1>6, <1>7 DEF Operaciones

(* Of a thread that only goes to another step, or starts a walk there. *)
Igual(h, k) ==
  /\ h.op = k.op /\ h.pedido = k.pedido /\ h.plato = k.plato /\ h.cantidad = k.cantidad
  /\ h.camino = k.camino /\ h.pendientes = k.pendientes /\ h.espera = k.espera
  /\ h.dato = k.dato /\ h.leido = k.leido /\ h.colgado = k.colgado /\ h.faltan = k.faltan

(* What a thread keeps when it goes to another step of its handler. *)
LEMMA IrBien ==
  ASSUME hilos \in [Hilos -> Hilo], NEW t \in Hilos, NEW pc \in PasosDe(hilos[t].op), Ir(t, pc)
  PROVE  /\ hilos' \in [Hilos -> Hilo]
         /\ \A u \in Hilos \ {t} : hilos'[u] = hilos[u]
         /\ hilos'[t].pc = pc /\ hilos'[t].cursor = hilos[t].cursor
         /\ Igual(hilos'[t], hilos[t])
<1> DEFINE h == hilos[t]
           k == [h EXCEPT !.pc = pc]
<1>1. h \in Hilo
  OBVIOUS
<1>2. pc \in Pasos
  BY <1>1, PasoEnPasos DEF Hilo
<1>3. k \in Hilo /\ k.pc = pc /\ k.cursor = h.cursor /\ Igual(k, h)
  <2> HIDE DEF h
  <2> QED BY <1>1, <1>2 DEF Hilo, Igual
<1>4. hilos' = [hilos EXCEPT ![t] = k]
  BY DEF Ir
<1> HIDE DEF k
<1> QED BY <1>3, <1>4

(* The same, when it starts a walk over the list. *)
LEMMA RecorrerBien ==
  ASSUME hilos \in [Hilos -> Hilo], mem \in MemoriasH, NEW t \in Hilos,
         NEW pc \in PasosDe(hilos[t].op), Recorrer(t, pc)
  PROVE  /\ hilos' \in [Hilos -> Hilo]
         /\ \A u \in Hilos \ {t} : hilos'[u] = hilos[u]
         /\ hilos'[t].pc = pc /\ hilos'[t].cursor \in -1 .. Len(mem.lista)
         /\ hilos'[t].cursor # 0
         /\ Igual(hilos'[t], hilos[t])
<1> DEFINE h == hilos[t]
           c == Siguiente(0)
           k == [h EXCEPT !.pc = pc, !.cursor = c]
<1>0. c \in -1 .. Len(mem.lista) /\ c # 0 /\ c \in Int
  <2>1. Len(mem.lista) \in Nat
    BY LenProperties DEF MemoriasH
  <2> QED BY <2>1 DEF Siguiente, FinDeLista
<1> HIDE DEF c
<1>1. h \in Hilo
  OBVIOUS
<1>2. pc \in Pasos
  BY <1>1, PasoEnPasos DEF Hilo
<1>3. k \in Hilo /\ k.pc = pc /\ k.cursor = c /\ Igual(k, h)
  <2> HIDE DEF h
  <2> QED BY <1>0, <1>1, <1>2 DEF Hilo, Igual
<1>4. hilos' = [hilos EXCEPT ![t] = k]
  BY DEF Recorrer, c
<1> HIDE DEF k
<1> QED BY <1>0, <1>3, <1>4

(* A step that leaves the memory alone keeps its frames. *)
LEMMA MismaMemoria ==
  ASSUME mem \in MemoriasH, mem' = mem PROVE MismosMarcos(mem, mem')
BY DEF MismosMarcos

(* What is known of a thread that can take a step. *)
LEMMA Donde ==
  ASSUME Sigue, NEW t \in Hilos
  PROVE  /\ TiposH /\ Lugar(t) /\ Vivas(t)
         /\ mem \in MemoriasH /\ hilos \in [Hilos -> Hilo] /\ hilos[t] \in Hilo
         /\ hilos[t].op \in Operaciones \cup {"NINGUNA"} /\ hilos[t].pc \in PasosDe(hilos[t].op)
BY DEF Sigue, TiposH, Lugar, Hilo

(* The variables that are not the thread's keep their types. *)
RestoBien ==
  /\ escenario' = escenario
  /\ estado' \in [Pedidos -> Estados]
  /\ lock_pagina' \in [Paginas -> Hilos \cup {Nadie}]
  /\ hecho' \in [Paginas -> Contenido]

(* Variables that stay the same keep their types. *)
LEMMA RestoIgual ==
  ASSUME TiposH
  PROVE  /\ UNCHANGED <<tablas, candados, consola>> => RestoBien /\ lock_swap' = lock_swap
         /\ UNCHANGED tablas => escenario' = escenario /\ estado' \in [Pedidos -> Estados]
         /\ UNCHANGED consola => hecho' \in [Paginas -> Contenido]
         /\ UNCHANGED lock_pagina => lock_pagina' \in [Paginas -> Hilos \cup {Nadie}]
BY DEF TiposH, RestoBien, tablas, candados, consola

(* The owner of lock_swap stays a thread or nobody. *)
LEMMA SwapTipo ==
  ASSUME TiposH, NEW t \in Hilos, CambiaSwap(t) PROVE lock_swap' \in Hilos \cup {Nadie}
BY DEF TiposH, CambiaSwap

(* t answers and ends. *)
LEMMA PasoResponde ==
  ASSUME Sigue, NEW t \in Hilos, hilos' = [hilos EXCEPT ![t] = Parado(hilos[t].faltan)],
         MismosMarcos(mem, mem'), RestoBien, lock_swap' = lock_swap, ~ ConSwap(t)
  PROVE  Sigue'
<1> DEFINE k == Parado(hilos[t].faltan)
<1>1. TiposH /\ hilos \in [Hilos -> Hilo] /\ hilos[t] \in Hilo
  BY Donde
<1>2. "LIBRE" \in PasosDe("NINGUNA")
  BY DEF PasosDe
<1>3. k \in Hilo /\ k.pc = "LIBRE" /\ k.op = "NINGUNA" /\ k.camino = "NINGUNO"
  <2>1. "LIBRE" \in Pasos
    BY <1>2, PasoEnPasos
  <2> QED BY <1>1, <2>1 DEF Hilo, Parado
<1> HIDE DEF k
<1>4. /\ hilos' \in [Hilos -> Hilo] /\ hilos'[t] = k
      /\ \A u \in Hilos \ {t} : hilos'[u] = hilos[u]
  BY <1>1, <1>3 DEF k
<1>5. TiposH'
  BY <1>1, <1>4 DEF TiposH, RestoBien, MismosMarcos
<1>6. Lugar(t)'
  BY <1>2, <1>3, <1>4 DEF Lugar, Recorriendo, ConPlato
<1>7. Vivas(t)'
  BY <1>3, <1>4 DEF Vivas, SigueSuPagina, Pasada
<1>8. CambiaSwap(t)
  BY <1>3, <1>4 DEF CambiaSwap, ConSwap
<1>9. ~ ReservaMV(t)' /\ ~ ReservaMP(t)'
  BY <1>3, <1>4 DEF ReservaMV, ReservaMP
<1> QED BY <1>4, <1>5, <1>6, <1>7, <1>8, <1>9, PasoComun

(* t goes to another step of its handler. *)
LEMMA PasoIgual ==
  ASSUME Sigue, NEW t \in Hilos, hilos' \in [Hilos -> Hilo],
         \A u \in Hilos \ {t} : hilos'[u] = hilos[u],
         Igual(hilos'[t], hilos[t]),
         hilos'[t].pc \in PasosDe(hilos[t].op) \ (Alta \cup Pasada),
         hilos'[t].pc \in Recorriendo => hilos'[t].cursor \in -1 .. Len(mem'.lista),
         hilos'[t].pc \in Busqueda \cup {"BUSCAR_PLATO"} => hilos[t].camino = "NINGUNO",
         hilos[t].op = "GUARDAR_PLATO" /\ hilos'[t].pc \notin Busqueda \cup {"BUSCAR_PLATO"} =>
           hilos[t].camino # "NINGUNO",
         hilos'[t].pc = "CARGAR" => hilos[t].camino = "NUEVO",
         SigueSuPagina(t)' => SigueSuPagina(t) \/ tiene_pagina(mem, Pagina(t)),
         ReservaMP(t)' => ReservaMP(t),
         MismosMarcos(mem, mem'), RestoBien, CambiaSwap(t)
  PROVE  Sigue'
<1> DEFINE h == hilos[t]
           k == hilos'[t]
<1>1. TiposH /\ Lugar(t) /\ Vivas(t) /\ h.op \in Operaciones \cup {"NINGUNA"}
  BY Donde
<1>2. TiposH'
  BY <1>1, SwapTipo DEF TiposH, RestoBien, MismosMarcos
<1>3. Lugar(t)'
  BY <1>1 DEF Lugar, Igual, Pasada
<1>4. Vivas(t)'
  <2>1. SigueSuPagina(t)' => tiene_pagina(mem, Pagina(t)) /\ Pagina(t) \in Paginas
    <3>1. SigueSuPagina(t)' => hilos[t].op \in ConPlato
      BY <1>3 DEF SigueSuPagina, Lugar, Igual, ConPlato
    <3>2. SigueSuPagina(t)' => Pagina(t) \in Paginas
      BY <3>1, <1>1, PaginaDe
    <3> QED BY <3>2, <1>1 DEF Vivas
  <2>2. Pagina(t)' = Pagina(t)
    BY DEF Igual, Pagina
  <2> QED BY <2>1, <2>2 DEF Vivas, MismosMarcos, tiene_pagina
<1>5. ~ ReservaMV(t)'
  BY DEF ReservaMV, Alta
<1>6. k.dato = h.dato
  BY DEF Igual
<1> QED BY <1>2, <1>3, <1>4, <1>5, <1>6, PasoComun

(* Whoever takes lock_swap goes to a step that has it. *)
LEMMA TomarSwapSigue ==
  ASSUME Sigue, NEW t \in Hilos, TomarSwap(t)
  PROVE  Sigue'
<1> DEFINE h == hilos[t]
           k == hilos'[t]
<1>1. /\ TiposH /\ Lugar(t) /\ mem \in MemoriasH /\ hilos \in [Hilos -> Hilo]
      /\ h.pc = "TOMAR_SWAP"
      /\ h.op \in {"GUARDAR_PLATO", "OBTENER_PEDIDO", "PLATO_LISTO", "FINALIZAR_PEDIDO"}
  BY Donde, OpDe DEF TomarSwap, En
<1>2. /\ hilos' \in [Hilos -> Hilo]
      /\ \A u \in Hilos \ {t} : hilos'[u] = hilos[u]
      /\ Igual(k, h)
      /\ k.pc \in PasosDe(h.op) /\ k.pc \in {"SACAR_PEDIDO", "RESERVAR_MP", "LOCKEAR"}
      /\ k.pc = "LOCKEAR" => k.cursor \in -1 .. Len(mem.lista)
  <2>1. CASE h.op = "FINALIZAR_PEDIDO"
    <3>1. "SACAR_PEDIDO" \in PasosDe(h.op) /\ Ir(t, "SACAR_PEDIDO")
      BY <2>1 DEF TomarSwap, PasosDe
    <3> QED BY <3>1, <1>1, IrBien
  <2>2. CASE h.op # "FINALIZAR_PEDIDO" /\ h.camino = "NUEVO"
    <3>1. "RESERVAR_MP" \in PasosDe(h.op) /\ Ir(t, "RESERVAR_MP")
      BY <2>2, <1>1 DEF TomarSwap, PasosDe, Lugar
    <3> QED BY <3>1, <1>1, IrBien
  <2>3. CASE h.op # "FINALIZAR_PEDIDO" /\ h.camino # "NUEVO"
    <3>1. "LOCKEAR" \in PasosDe(h.op) /\ Recorrer(t, "LOCKEAR")
      BY <2>3, <1>1 DEF TomarSwap, PasosDe, Recorrido
    <3> QED BY <3>1, <1>1, RecorrerBien
  <2> QED BY <2>1, <2>2, <2>3
<1>3. mem' = mem /\ MismosMarcos(mem, mem') /\ RestoBien
  BY <1>1, MismaMemoria DEF TomarSwap, RestoBien, TiposH, tablas, consola
<1>4. CambiaSwap(t)
  BY <1>1, <1>2 DEF CambiaSwap, ConSwap, TomarSwap
<1>5. ~ ReservaMP(t)' /\ (SigueSuPagina(t)' => SigueSuPagina(t))
  BY <1>1, <1>2 DEF ReservaMP, SigueSuPagina, Igual, Busqueda, Alta
<1> QED BY <1>1, <1>2, <1>3, <1>4, <1>5, PasoIgual DEF Lugar, Busqueda, Alta, Pasada, Recorriendo

(* The model stops at a failure. *)
Falla(t) == \E como : como # "NO" /\ Fallar(t, como)

(* A failure leaves lock_swap and the frames as they are. *)
LEMMA FallarBien ==
  ASSUME Sigue, NEW t \in Hilos, Falla(t)
  PROVE  HInv'
<1>1. /\ hilos \in [Hilos -> Hilo] /\ mem' = mem /\ lock_swap' = lock_swap /\ fallo' # "NO"
      /\ hilos' = [hilos EXCEPT ![t].pc = "FALLO"]
  BY Donde DEF Falla, Fallar, Ir, candados
<1>2. /\ \A u \in Hilos \ {t} : hilos'[u] = hilos[u]
      /\ hilos'[t].pc = "FALLO"
  BY <1>1 DEF Hilo
<1>3. ExclusionDeSwap'
  <2>1. \A u \in Hilos : ConSwap(u)' => ConSwap(u)
    BY <1>2 DEF ConSwap
  <2> QED BY <2>1, <1>1 DEF ExclusionDeSwap, Sigue, DuenoDeSwap
<1>4. MarcosSinCompartir'
  <2>1. \A u \in Hilos : /\ ReservaMV(u)' => u # t /\ ReservaMV(u)
                         /\ ReservaMP(u)' => u # t /\ ReservaMP(u)
    BY <1>2 DEF ReservaMV, ReservaMP
  <2> QED BY <1>1, <1>2, <2>1 DEF Sigue, MarcosSinCompartir
<1> QED BY <1>1, <1>3, <1>4 DEF HInv

(* A request comes with what its handler needs. *)
LEMMA PedirSigue ==
  ASSUME Sigue, NEW t \in Hilos, Pedir(t)
  PROVE  Sigue'
<1>1. /\ TiposH /\ mem \in MemoriasH /\ hilos \in [Hilos -> Hilo] /\ hilos[t] \in Hilo
      /\ hilos[t].pc = "LIBRE" /\ hilos[t].faltan \in Nat \ {0}
  BY Donde DEF Pedir, En, Hilo
<1>2. PICK s \in Escenarios[escenario].solicitudes :
        hilos' = [hilos EXCEPT ![t] =
            [Parado(hilos[t].faltan - 1) EXCEPT
               !.pc = "BUSCAR_RESTAURANTE", !.op = s.op, !.pedido = s.pedido,
               !.plato = s.plato, !.cantidad = s.cantidad]]
  BY DEF Pedir
<1>3. s \in Solicitud
  BY <1>1, EscenariosAssumption DEF TiposH, Escenario
<1> DEFINE k == [Parado(hilos[t].faltan - 1) EXCEPT
                   !.pc = "BUSCAR_RESTAURANTE", !.op = s.op, !.pedido = s.pedido,
                   !.plato = s.plato, !.cantidad = s.cantidad]
<1>4. /\ s.op \in Operaciones /\ "BUSCAR_RESTAURANTE" \in PasosDe(s.op)
      /\ s.pedido \in Pedidos /\ s.plato \in Platos \cup {NingunPlato} /\ s.cantidad \in Int
  BY <1>3 DEF Solicitud, Operaciones, PasosDe, Busqueda
<1>5. /\ k \in Hilo /\ k.pc = "BUSCAR_RESTAURANTE" /\ k.op = s.op /\ k.pedido = s.pedido
      /\ k.plato = s.plato /\ k.camino = "NINGUNO"
  <2>1. "BUSCAR_RESTAURANTE" \in Pasos
    BY <1>4, PasoEnPasos
  <2>2. hilos[t].faltan - 1 \in Nat
    BY <1>1
  <2>3. Parado(hilos[t].faltan - 1) \in Hilo /\ Parado(hilos[t].faltan - 1).camino = "NINGUNO"
    <3>1. "LIBRE" \in Pasos
      BY PasoEnPasos DEF PasosDe
    <3> QED BY <2>2, <3>1 DEF Hilo, Parado
  <2> QED BY <1>4, <2>1, <2>3 DEF Hilo
<1> HIDE DEF k
<1>6. /\ hilos' \in [Hilos -> Hilo] /\ hilos'[t] = k
      /\ \A u \in Hilos \ {t} : hilos'[u] = hilos[u]
  BY <1>1, <1>2, <1>5 DEF k
<1>7. MismosMarcos(mem, mem') /\ TiposH'
  BY <1>1, <1>6, MismaMemoria DEF Pedir, TiposH, tablas, candados, consola
<1>8. Lugar(t)'
  BY <1>3, <1>4, <1>5, <1>6 DEF Lugar, Recorriendo, Busqueda, Solicitud
<1>9. Vivas(t)'
  BY <1>5, <1>6 DEF Vivas, SigueSuPagina, Pasada, Busqueda
<1>10. CambiaSwap(t)
  BY <1>1, <1>5, <1>6 DEF CambiaSwap, ConSwap, Pedir, candados
<1>11. ~ ReservaMV(t)' /\ ~ ReservaMP(t)'
  BY <1>5, <1>6 DEF ReservaMV, ReservaMP
<1> QED BY <1>6, <1>7, <1>8, <1>9, <1>10, <1>11, PasoComun

(* The first lookup answers or goes on. *)
LEMMA BuscarRestauranteSigue ==
  ASSUME Sigue, NEW t \in Hilos, BuscarRestaurante(t)
  PROVE  Sigue'
<1> DEFINE h == hilos[t]
           k == hilos'[t]
<1>1. /\ TiposH /\ Lugar(t) /\ mem \in MemoriasH /\ hilos \in [Hilos -> Hilo]
      /\ h.pc = "BUSCAR_RESTAURANTE" /\ h.op \in Operaciones \cup {"NINGUNA"}
  BY Donde DEF BuscarRestaurante, En
<1>2. MismosMarcos(mem, mem') /\ RestoBien /\ lock_swap' = lock_swap
  BY <1>1, MismaMemoria DEF BuscarRestaurante, RestoBien, TiposH, tablas, candados, consola
<1>3. ~ ConSwap(t)
  BY <1>1 DEF ConSwap
<1>4. CASE \E r : Responder(t, r)
  BY <1>2, <1>3, <1>4, PasoResponde DEF Responder
<1>5. CASE Ir(t, "BUSCAR_PEDIDO") \/ (h.op = "GUARDAR_PEDIDO" /\ Ir(t, "CREAR_TABLA"))
  <2>1. h.op \in Operaciones
    BY <1>1 DEF Lugar, PasosDe
  <2>2. PICK pc \in PasosDe(h.op) : Ir(t, pc) /\ pc \in {"BUSCAR_PEDIDO", "CREAR_TABLA"}
                                   /\ (pc = "CREAR_TABLA" => h.op = "GUARDAR_PEDIDO")
    BY <1>5, <2>1 DEF PasosDe, Busqueda, Operaciones
  <2>3. /\ hilos' \in [Hilos -> Hilo] /\ Igual(k, h) /\ k.pc = pc
        /\ \A u \in Hilos \ {t} : hilos'[u] = hilos[u]
    BY <1>1, <2>2, IrBien
  <2>4. CambiaSwap(t) /\ ~ ReservaMP(t)'
    BY <1>2, <1>3, <2>2, <2>3 DEF CambiaSwap, ConSwap, ReservaMP
  <2>5. h.camino = "NINGUNO" /\ ~ SigueSuPagina(t)'
    BY <1>1, <2>2, <2>3 DEF Lugar, SigueSuPagina, Igual, Busqueda
  <2>6. pc \notin Alta \cup Pasada \cup Recorriendo /\ pc # "CARGAR"
    BY <2>2 DEF Alta, Pasada, Recorriendo
  <2> QED BY <1>2, <2>2, <2>3, <2>4, <2>5, <2>6, PasoIgual DEF Busqueda
<1> QED BY <1>4, <1>5 DEF BuscarRestaurante

(* So does the second one, which fails when the restaurant is gone. *)
LEMMA BuscarPedidoSigue ==
  ASSUME Sigue, NEW t \in Hilos, BuscarPedido(t)
  PROVE  Sigue' \/ Falla(t)
<1> DEFINE h == hilos[t]
           k == hilos'[t]
<1>1. /\ TiposH /\ Lugar(t) /\ mem \in MemoriasH /\ hilos \in [Hilos -> Hilo]
      /\ h.pc = "BUSCAR_PEDIDO" /\ h.op \in Operaciones \cup {"NINGUNA"}
  BY Donde DEF BuscarPedido, En
<1>a. h.op \in Operaciones
  BY <1>1 DEF Lugar, PasosDe
<1>2. CASE h.pedido[1] \notin restaurantes
  BY <1>2 DEF BuscarPedido, Falla
<1>3. CASE h.pedido[1] \in restaurantes
  <2>1. MismosMarcos(mem, mem') /\ RestoBien /\ lock_swap' = lock_swap
    BY <1>1, <1>3, MismaMemoria DEF BuscarPedido, RestoBien, TiposH, tablas, candados, consola
  <2>2. ~ ConSwap(t)
    BY <1>1 DEF ConSwap
  <2>3. CASE \E r : Responder(t, r)
    BY <2>1, <2>2, <2>3, PasoResponde DEF Responder
  <2>4. CASE \/ h.op = "GUARDAR_PEDIDO" /\ Ir(t, "TOMAR_TABLA")
             \/ h.op \in ConPruebas /\ Ir(t, "PROBAR_ESTADO")
             \/ h.op \notin ConPruebas \cup {"GUARDAR_PEDIDO"} /\ Ir(t, "TOMAR_SWAP")
    <3>1. PICK pc \in PasosDe(h.op) :
            /\ Ir(t, pc)
            /\ pc \in {"TOMAR_TABLA", "PROBAR_ESTADO", "TOMAR_SWAP"}
            /\ h.op \in ConPruebas => pc = "PROBAR_ESTADO"
      BY <2>4, <1>a DEF PasosDe, Busqueda, ConPruebas, Operaciones
    <3>2. /\ hilos' \in [Hilos -> Hilo] /\ Igual(k, h) /\ k.pc = pc
          /\ \A u \in Hilos \ {t} : hilos'[u] = hilos[u]
      BY <1>1, <3>1, IrBien
    <3>3. CambiaSwap(t) /\ ~ ReservaMP(t)'
      BY <2>1, <2>2, <3>1, <3>2 DEF CambiaSwap, ConSwap, ReservaMP
    <3>4. h.camino = "NINGUNO" /\ ~ SigueSuPagina(t)'
      BY <1>1, <3>1, <3>2 DEF Lugar, SigueSuPagina, Igual, Busqueda, ConPruebas
    <3>5. pc \notin Alta \cup Pasada \cup Recorriendo /\ pc # "CARGAR"
      BY <3>1 DEF Alta, Pasada, Recorriendo
    <3>6. h.op = "GUARDAR_PLATO" => pc \in Busqueda
      BY <3>1 DEF ConPruebas, Busqueda
    <3> QED BY <2>1, <3>1, <3>2, <3>3, <3>4, <3>5, <3>6, PasoIgual
  <2> QED BY <1>3, <2>3, <2>4 DEF BuscarPedido
<1> QED BY <1>2, <1>3

(* The tests find the dish that plato_listo is going to count. *)
LEMMA ProbarEstadoSigue ==
  ASSUME Sigue, NEW t \in Hilos, ProbarEstado(t)
  PROVE  Sigue'
<1> DEFINE h == hilos[t]
           k == hilos'[t]
           sigue == TrasProbar(t)
<1>1. /\ TiposH /\ Lugar(t) /\ mem \in MemoriasH /\ hilos \in [Hilos -> Hilo]
      /\ h.pc = "PROBAR_ESTADO" /\ h.op \in ConPruebas
  BY Donde, OpDe DEF ProbarEstado, En
<1>2. MismosMarcos(mem, mem') /\ RestoBien /\ lock_swap' = lock_swap
  BY <1>1, MismaMemoria DEF ProbarEstado, RestoBien, TiposH, tablas, candados, consola
<1>3. ~ ConSwap(t)
  BY <1>1 DEF ConSwap
<1>4. CASE \E r : Responder(t, r)
  BY <1>2, <1>3, <1>4, PasoResponde DEF Responder
<1>5. CASE sigue \notin Resultados /\ Ir(t, sigue)
  <2>1. PICK pc \in PasosDe(h.op) :
          /\ Ir(t, pc)
          /\ pc \in {"BUSCAR_PLATO", "TOMAR_SWAP", "CONFIRMAR"}
          /\ h.op = "GUARDAR_PLATO" => pc = "BUSCAR_PLATO"
          /\ pc = "BUSCAR_PLATO" => h.op = "GUARDAR_PLATO"
          /\ h.op = "PLATO_LISTO" => tiene_pagina(mem, Pagina(t))
    <3>1. CASE h.op = "GUARDAR_PLATO"
      BY <1>5, <3>1 DEF TrasProbar, PasosDe, Resultados
    <3>2. CASE h.op = "CONFIRMAR_PEDIDO"
      BY <1>5, <3>2 DEF TrasProbar, PasosDe, Resultados
    <3>3. CASE h.op = "PLATO_LISTO"
      BY <1>5, <3>3 DEF TrasProbar, PasosDe, Resultados
    <3> QED BY <1>1, <3>1, <3>2, <3>3 DEF ConPruebas
  <2>2. /\ hilos' \in [Hilos -> Hilo] /\ Igual(k, h) /\ k.pc = pc
        /\ \A u \in Hilos \ {t} : hilos'[u] = hilos[u]
    BY <1>1, <2>1, IrBien
  <2>3. CambiaSwap(t) /\ ~ ReservaMP(t)'
    BY <1>2, <1>3, <2>1, <2>2 DEF CambiaSwap, ConSwap, ReservaMP
  <2>4. h.camino = "NINGUNO" /\ (SigueSuPagina(t)' => tiene_pagina(mem, Pagina(t)))
    BY <1>1, <2>1, <2>2 DEF Lugar, SigueSuPagina, Igual, Busqueda
  <2>5. pc \notin Alta \cup Pasada \cup Recorriendo /\ pc # "CARGAR"
    BY <2>1 DEF Alta, Pasada, Recorriendo
  <2> QED BY <1>2, <2>1, <2>2, <2>3, <2>4, <2>5, PasoIgual
<1> QED BY <1>4, <1>5 DEF ProbarEstado

(* Looking the table of the restaurant up touches no page. *)
LEMMA TomarTablaSigue ==
  ASSUME Sigue, NEW t \in Hilos, TomarTabla(t)
  PROVE  Sigue' \/ Falla(t)
<1> DEFINE h == hilos[t]
           k == hilos'[t]
<1>1. /\ TiposH /\ Lugar(t) /\ mem \in MemoriasH /\ hilos \in [Hilos -> Hilo]
      /\ h.pc = "TOMAR_TABLA" /\ h.op = "GUARDAR_PEDIDO"
  BY Donde, OpDe DEF TomarTabla, En
<1>2. CASE h.pedido[1] \notin restaurantes
  BY <1>2 DEF TomarTabla, Falla
<1>3. CASE h.pedido[1] \in restaurantes
  <2>1. Ir(t, "AGREGAR_PEDIDO") /\ UNCHANGED <<tablas, mem, candados, consola, fallo>>
    BY <1>3 DEF TomarTabla
  <2>2. MismosMarcos(mem, mem') /\ RestoBien /\ lock_swap' = lock_swap
    BY <1>1, <2>1, MismaMemoria, RestoIgual
  <2>3. "AGREGAR_PEDIDO" \in PasosDe(h.op)
    BY <1>1 DEF PasosDe
  <2>4. /\ hilos' \in [Hilos -> Hilo] /\ Igual(k, h) /\ k.pc = "AGREGAR_PEDIDO"
        /\ \A u \in Hilos \ {t} : hilos'[u] = hilos[u]
    BY <1>1, <2>1, <2>3, IrBien
  <2>5. CambiaSwap(t) /\ ~ ReservaMP(t)'
    BY <1>1, <2>2, <2>4 DEF CambiaSwap, ConSwap, ReservaMP
  <2>6. ~ SigueSuPagina(t)'
    BY <1>1, <2>4 DEF Lugar, SigueSuPagina, Igual
  <2> QED BY <1>1, <2>2, <2>3, <2>4, <2>5, <2>6, PasoIgual DEF Alta, Pasada, Recorriendo, Busqueda
<1> QED BY <1>2, <1>3

(* Nor does a new order. *)
LEMMA AgregarPedidoSigue ==
  ASSUME Sigue, NEW t \in Hilos, AgregarPedido(t)
  PROVE  Sigue' \/ Falla(t)
<1> DEFINE malo == ~ hilos[t].huerfana /\ SeReemplaza(hilos[t].pedido)
<1>1. TiposH /\ mem \in MemoriasH /\ hilos[t].pc = "AGREGAR_PEDIDO"
  BY Donde DEF AgregarPedido, En
<1>2. CASE malo
  BY <1>2 DEF AgregarPedido, Falla
<1>3. CASE ~ malo
  <2>1. /\ estado' = IF hilos[t].huerfana THEN estado
                     ELSE [estado EXCEPT ![hilos[t].pedido] = "PENDIENTE"]
        /\ Responder(t, "OK")
        /\ UNCHANGED <<escenario, restaurantes, mem, candados, hecho, fallo>>
    BY <1>3 DEF AgregarPedido
  <2>2. MismosMarcos(mem, mem') /\ RestoBien /\ lock_swap' = lock_swap
    BY <1>1, <2>1, MismaMemoria DEF RestoBien, TiposH, candados, Estados
  <2>3. ~ ConSwap(t)
    BY <1>1 DEF ConSwap
  <2> QED BY <2>1, <2>2, <2>3, PasoResponde DEF Responder
<1> QED BY <1>2, <1>3

(* Nor does its confirmation. *)
LEMMA ConfirmarSigue ==
  ASSUME Sigue, NEW t \in Hilos, Confirmar(t)
  PROVE  Sigue'
<1>1. TiposH /\ mem \in MemoriasH /\ hilos[t].pc = "CONFIRMAR"
  BY Donde DEF Confirmar, En
<1>2. MismosMarcos(mem, mem') /\ RestoBien /\ lock_swap' = lock_swap
  BY <1>1, MismaMemoria DEF Confirmar, RestoBien, TiposH, candados, Estados
<1>3. ~ ConSwap(t)
  BY <1>1 DEF ConSwap
<1> QED BY <1>2, <1>3, PasoResponde DEF Confirmar, Responder

-----------------------------------------------------------------------------
(* Steps that change more of a thread, or of the memory.                   *)

(* A thread whose record changes. *)
LEMMA CambiaHilo ==
  ASSUME hilos \in [Hilos -> Hilo], NEW t \in Hilos, NEW k \in Hilo, hilos' = [hilos EXCEPT ![t] = k]
  PROVE  /\ hilos' \in [Hilos -> Hilo] /\ hilos'[t] = k
         /\ \A u \in Hilos \ {t} : hilos'[u] = hilos[u]
OBVIOUS

(* t goes on with its request, at a step that has what it needs. *)
Sitio(t) ==
  LET h == hilos[t]
      k == hilos'[t]
  IN  /\ k.op = h.op /\ k.pedido = h.pedido /\ k.plato = h.plato /\ k.colgado = h.colgado
      /\ k.pc \in PasosDe(h.op)
      /\ h.op # "GUARDAR_PLATO" => k.camino = "NINGUNO"
      /\ h.op = "GUARDAR_PLATO" =>
           (k.camino = "NINGUNO" <=> k.pc \in Busqueda \cup {"BUSCAR_PLATO"})
      /\ k.pc = "CARGAR" => k.camino = "NUEVO"
      /\ k.pc = "LOCKEAR_LEVANTADA" => k.espera \in Paginas
      /\ k.pc \in Recorriendo => k.cursor \in -1 .. Len(mem'.lista)
      /\ k.pc \in Pasada => k.pendientes \subseteq PlatosDelPedido(t)
      /\ SigueSuPagina(t)' =>
           SigueSuPagina(t) \/ tiene_pagina(mem, Pagina(t)) \/ tiene_pagina(mem', Pagina(t))

(* Pages only appear. *)
Crecen == \A q \in Paginas : tiene_pagina(mem, q) => tiene_pagina(mem', q)

(* A thread that only moves along its handler is where it has to be. *)
LEMMA SitioBien ==
  ASSUME Sigue, NEW t \in Hilos, hilos[t].pc # "LIBRE", Sitio(t), Crecen
  PROVE  Lugar(t)' /\ Vivas(t)'
<1>1. TiposH /\ Lugar(t) /\ Vivas(t) /\ hilos[t].op \in Operaciones \cup {"NINGUNA"}
  BY Donde
<1>2. Lugar(t)'
  <2>1. hilos[t].op # "GUARDAR_PLATO" => "BUSCAR_PLATO" # hilos'[t].pc
    BY <1>1, OpDe DEF Sitio
  <2> QED BY <1>1, <2>1 DEF Lugar, Sitio
<1>3. SigueSuPagina(t)' => tiene_pagina(mem', Pagina(t)')
  <2>1. Pagina(t)' = Pagina(t)
    BY DEF Pagina, Sitio
  <2>2. SigueSuPagina(t)' => hilos[t].op \in ConPlato
    BY <1>2 DEF SigueSuPagina, Lugar, Sitio, ConPlato
  <2>3. SigueSuPagina(t)' => Pagina(t) \in Paginas
    BY <1>1, <2>2, PaginaDe
  <2> QED BY <1>1, <2>1, <2>3 DEF Vivas, Sitio, Crecen
<1>4. PlatosDelPedido(t) \subseteq PlatosDelPedido(t)'
  <2>1. \A d \in Platos : <<hilos[t].pedido, d>> \in Paginas
    BY <1>1, PedidoDe
  <2> QED BY <2>1 DEF Sitio, Crecen, PlatosDelPedido, tabla_de_platos
<1> QED BY <1>2, <1>3, <1>4 DEF Vivas, Sitio

(* All the parts. *)
LEMMA PasoDeVarios ==
  ASSUME Sigue, NEW t \in Hilos, TiposH', \A u \in Hilos \ {t} : Quieto(u),
         \A u \in Hilos : Lugar(u)' /\ Vivas(u)',
         MarcosDePaginas(mem'), MarcosPropios(mem'), CambiaMarcos(t), CambiaSwap(t)
  PROVE  Sigue'
<1>1. Reservas' /\ MarcosSinCompartir'
  BY ReservasPaso DEF Sigue
<1>2. DuenoDeSwap'
  BY SwapPaso DEF Sigue, TiposH
<1> QED BY <1>1, <1>2 DEF Sigue

(* Only t moves. *)
LEMMA PasoSolo ==
  ASSUME Sigue, NEW t \in Hilos, hilos[t].pc # "LIBRE", TiposH',
         \A u \in Hilos \ {t} : hilos'[u] = hilos[u], Sitio(t), Crecen,
         Len(mem'.lista) = Len(mem.lista),
         MarcosDePaginas(mem'), MarcosPropios(mem'), CambiaMarcos(t), CambiaSwap(t)
  PROVE  Sigue'
<1>1. \A u \in Hilos \ {t} : Quieto(u)
  BY QuietoSiIgual
<1>2. \A u \in Hilos : Lugar(u)' /\ Vivas(u)'
  <2>1. ASSUME NEW u \in Hilos \ {t} PROVE Lugar(u)'
    BY <1>1, LugarDeOtro DEF Sigue, Lugar
  <2>2. ASSUME NEW u \in Hilos \ {t} PROVE Vivas(u)'
    BY <1>1, VivasDeOtro DEF Sigue, Crecen
  <2> QED BY <2>1, <2>2, SitioBien
<1> QED BY <1>1, <1>2, PasoDeVarios

(* Only t moves, and the frames stay. *)
LEMMA PasoSitio ==
  ASSUME Sigue, NEW t \in Hilos, hilos[t].pc # "LIBRE", hilos' \in [Hilos -> Hilo],
         \A u \in Hilos \ {t} : hilos'[u] = hilos[u], Sitio(t),
         MismosMarcos(mem, mem'), RestoBien, CambiaSwap(t), ~ ReservaMV(t)',
         ReservaMP(t)' => ReservaMP(t) /\ hilos'[t].dato.frame = hilos[t].dato.frame
  PROVE  Sigue'
<1>1. TiposH'
  BY Donde, SwapTipo DEF TiposH, RestoBien, MismosMarcos
<1>2. Crecen
  BY DEF Crecen, MismosMarcos, tiene_pagina
<1>3. Lugar(t)' /\ Vivas(t)'
  BY <1>2, SitioBien
<1> QED BY <1>1, <1>3, PasoComun

-----------------------------------------------------------------------------
(* Walking over the list.                                                  *)

(* The node after one of the list is in the list, or its end. *)
LEMMA SiguienteBien ==
  ASSUME mem \in MemoriasH, NEW i \in -1 .. Len(mem.lista), i # 0, i # FinDeLista
  PROVE  /\ i \in 1 .. Len(mem.lista) /\ mem.lista[i] \in Paginas
         /\ Siguiente(i) \in -1 .. Len(mem.lista) /\ Siguiente(i) \in Int
<1>1. Len(mem.lista) \in Nat /\ \A j \in 1 .. Len(mem.lista) : mem.lista[j] \in Paginas
  BY LenProperties, ElementOfSeq DEF MemoriasH
<1> QED BY <1>1 DEF Siguiente, FinDeLista

(* The walk that locks the pages stays in the list. *)
LEMMA LockearSigue ==
  ASSUME Sigue, NEW t \in Hilos, Lockear(t)
  PROVE  Sigue' \/ Falla(t)
<1> DEFINE h == hilos[t]
           i == h.cursor
           k == [h EXCEPT !.pc = "LOCKEAR_PAGINA", !.espera = mem.lista[i], !.cursor = Siguiente(i)]
<1>1. /\ TiposH /\ Lugar(t) /\ mem \in MemoriasH /\ hilos \in [Hilos -> Hilo] /\ h \in Hilo
      /\ h.pc = "LOCKEAR" /\ h.op \in {"GUARDAR_PLATO", "OBTENER_PEDIDO", "PLATO_LISTO"}
  BY Donde, OpDe DEF Lockear, En, Recorriendo
<1>a. i \in -1 .. Len(mem.lista)
  BY <1>1 DEF Lugar, Recorriendo
<1>2. CASE i = 0
  BY <1>2 DEF Lockear, Falla
<1>3. CASE i # 0
  <2>1. MismosMarcos(mem, mem') /\ RestoBien /\ lock_swap' = lock_swap
    BY <1>1, <1>3, MismaMemoria DEF Lockear, RestoBien, TiposH, tablas, candados, consola
  <2>2. CASE i = FinDeLista
    <3>1. PICK pc \in PasosDe(h.op) : Ir(t, pc) /\ pc \in {"SWAP", "FIJAR"}
      BY <1>1, <1>3, <2>2 DEF Lockear, PasosDe
    <3>2. /\ hilos' \in [Hilos -> Hilo] /\ Igual(hilos'[t], h) /\ hilos'[t].pc = pc
          /\ \A u \in Hilos \ {t} : hilos'[u] = hilos[u]
      BY <1>1, <3>1, IrBien
    <3>3. CambiaSwap(t) /\ ~ ReservaMP(t)' /\ (SigueSuPagina(t)' => SigueSuPagina(t))
      BY <1>1, <2>1, <3>1, <3>2
         DEF CambiaSwap, ConSwap, ReservaMP, SigueSuPagina, Igual, Busqueda, Alta
    <3>4. pc \notin Alta \cup Pasada \cup Recorriendo \cup Busqueda \cup {"BUSCAR_PLATO", "CARGAR"}
      BY <3>1 DEF Alta, Pasada, Recorriendo, Busqueda
    <3>5. h.op = "GUARDAR_PLATO" => h.camino # "NINGUNO"
      BY <1>1 DEF Lugar, Busqueda
    <3> QED BY <2>1, <3>1, <3>2, <3>3, <3>4, <3>5, PasoIgual
  <2>3. CASE i # FinDeLista
    <3>1. hilos' = [hilos EXCEPT ![t] = k]
      BY <1>3, <2>3 DEF Lockear
    <3>2. /\ i \in 1 .. Len(mem.lista) /\ mem.lista[i] \in Paginas
          /\ Siguiente(i) \in -1 .. Len(mem.lista) /\ Siguiente(i) \in Int
      BY <1>1, <1>a, <1>3, <2>3, SiguienteBien
    <3>3. "LOCKEAR_PAGINA" \in PasosDe(h.op) /\ "LOCKEAR_PAGINA" \in Pasos
      <4>1. "LOCKEAR_PAGINA" \in PasosDe(h.op)
        BY <1>1 DEF PasosDe, Recorrido
      <4> QED BY <4>1, Donde, PasoEnPasos
    <3>4. /\ k \in Hilo /\ k.pc = "LOCKEAR_PAGINA" /\ k.cursor = Siguiente(i)
          /\ k.op = h.op /\ k.pedido = h.pedido /\ k.plato = h.plato /\ k.colgado = h.colgado
          /\ k.camino = h.camino
      <4> HIDE DEF h, i
      <4> QED BY <1>1, <3>2, <3>3 DEF Hilo
    <3> HIDE DEF k
    <3>5. /\ hilos' \in [Hilos -> Hilo] /\ hilos'[t] = k
          /\ \A u \in Hilos \ {t} : hilos'[u] = hilos[u]
      BY <1>1, <3>1, <3>4, CambiaHilo
    <3>6. Sitio(t)
      BY <1>1, <2>1, <3>2, <3>3, <3>4, <3>5
         DEF Sitio, Lugar, Busqueda, Alta, Pasada, MismosMarcos, SigueSuPagina
    <3>7. CambiaSwap(t) /\ ~ ReservaMP(t)' /\ ~ ReservaMV(t)'
      BY <1>1, <2>1, <3>4, <3>5 DEF CambiaSwap, ConSwap, ReservaMP, ReservaMV
    <3> QED BY <1>1, <2>1, <3>5, <3>6, <3>7, PasoSitio
  <2> QED BY <2>2, <2>3
<1> QED BY <1>2, <1>3

(* A page's mutex changes no frame. *)
LEMMA LockearPaginaSigue ==
  ASSUME Sigue, NEW t \in Hilos, LockearPagina(t)
  PROVE  Sigue'
<1> DEFINE h == hilos[t]
           k == [h EXCEPT !.pc = "LOCKEAR", !.espera = NingunaPagina]
<1>1. /\ TiposH /\ Lugar(t) /\ mem \in MemoriasH /\ hilos \in [Hilos -> Hilo] /\ h \in Hilo
      /\ h.pc = "LOCKEAR_PAGINA" /\ h.op \in {"GUARDAR_PLATO", "OBTENER_PEDIDO", "PLATO_LISTO"}
  BY Donde, OpDe DEF LockearPagina, En, Recorriendo
<1>2. h.espera \in Paginas
  BY <1>1 DEF LockearPagina, En, UsaLiberado, Hilo
<1>3. MismosMarcos(mem, mem') /\ RestoBien /\ lock_swap' = lock_swap
  BY <1>1, <1>2, MismaMemoria DEF LockearPagina, RestoBien, TiposH, tablas, consola
<1>4. hilos' = [hilos EXCEPT ![t] = k]
  BY DEF LockearPagina
<1>5. "LOCKEAR" \in PasosDe(h.op) /\ "LOCKEAR" \in Pasos
  <2>1. "LOCKEAR" \in PasosDe(h.op)
    BY <1>1 DEF PasosDe, Recorrido
  <2> QED BY <2>1, Donde, PasoEnPasos
<1>6. /\ k \in Hilo /\ k.pc = "LOCKEAR" /\ k.cursor = h.cursor
      /\ k.op = h.op /\ k.pedido = h.pedido /\ k.plato = h.plato /\ k.colgado = h.colgado
      /\ k.camino = h.camino
  <2> HIDE DEF h
  <2> QED BY <1>1, <1>5 DEF Hilo
<1> HIDE DEF k
<1>7. /\ hilos' \in [Hilos -> Hilo] /\ hilos'[t] = k
      /\ \A u \in Hilos \ {t} : hilos'[u] = hilos[u]
  BY <1>1, <1>4, <1>6, CambiaHilo
<1>8. Sitio(t)
  BY <1>1, <1>3, <1>5, <1>6, <1>7
     DEF Sitio, Lugar, Busqueda, Alta, Pasada, Recorriendo, MismosMarcos, SigueSuPagina
<1>9. CambiaSwap(t) /\ ~ ReservaMP(t)' /\ ~ ReservaMV(t)'
  BY <1>1, <1>3, <1>6, <1>7 DEF CambiaSwap, ConSwap, ReservaMP, ReservaMV
<1> QED BY <1>1, <1>3, <1>7, <1>8, <1>9, PasoSitio

(* The walk that unlocks the pages releases lock_swap at its end, or had   *)
(* not got it.                                                             *)
LEMMA UnlockearSigue ==
  ASSUME Sigue, NEW t \in Hilos, Unlockear(t)
  PROVE  Sigue' \/ Falla(t)
<1> DEFINE h == hilos[t]
           i == h.cursor
           k == [h EXCEPT !.cursor = Siguiente(i)]
<1>1. /\ TiposH /\ Lugar(t) /\ mem \in MemoriasH /\ hilos \in [Hilos -> Hilo] /\ h \in Hilo
      /\ h.pc = "UNLOCKEAR" /\ h.op \in {"GUARDAR_PLATO", "OBTENER_PEDIDO", "PLATO_LISTO"}
      /\ h.pc \in PasosDe(h.op)
  BY Donde, OpDe DEF Unlockear, En, Recorriendo
<1>a. i \in -1 .. Len(mem.lista)
  BY <1>1 DEF Lugar, Recorriendo
<1>b. h.op = "GUARDAR_PLATO" => h.camino # "NINGUNO"
  BY <1>1 DEF Lugar, Busqueda
<1>2. CASE i = 0
  BY <1>2 DEF Unlockear, Falla
<1>3. CASE i # 0 /\ i = FinDeLista
  <2>1. MismosMarcos(mem, mem') /\ RestoBien
    BY <1>1, <1>3, MismaMemoria DEF Unlockear, RestoBien, TiposH, tablas, consola
  <2>2. PICK pc \in PasosDe(h.op) : Ir(t, pc) /\ pc \in {"INFORMAR", "LEER_ESTADO", "MARCAR"}
    BY <1>1, <1>3 DEF Unlockear, PasosDe
  <2>3. /\ hilos' \in [Hilos -> Hilo] /\ Igual(hilos'[t], h) /\ hilos'[t].pc = pc
        /\ \A u \in Hilos \ {t} : hilos'[u] = hilos[u]
    BY <1>1, <2>2, IrBien
  <2>4. CambiaSwap(t)
    BY <1>1, <1>3, <2>2, <2>3 DEF CambiaSwap, ConSwap, Unlockear
  <2>5. ~ ReservaMP(t)' /\ (SigueSuPagina(t)' => SigueSuPagina(t))
    BY <1>1, <2>2, <2>3 DEF ReservaMP, SigueSuPagina, Igual, Busqueda, Alta
  <2>6. pc \notin Alta \cup Pasada \cup Recorriendo \cup Busqueda \cup {"BUSCAR_PLATO", "CARGAR"}
    BY <2>2 DEF Alta, Pasada, Recorriendo, Busqueda
  <2> QED BY <1>b, <2>1, <2>2, <2>3, <2>4, <2>5, <2>6, PasoIgual
<1>4. CASE i # 0 /\ i # FinDeLista
  <2>1. /\ i \in 1 .. Len(mem.lista) /\ mem.lista[i] \in Paginas
        /\ Siguiente(i) \in -1 .. Len(mem.lista) /\ Siguiente(i) \in Int
    BY <1>1, <1>a, <1>4, SiguienteBien
  <2>2. hilos' = [hilos EXCEPT ![t] = k]
    BY <1>4 DEF Unlockear
  <2>3. MismosMarcos(mem, mem') /\ RestoBien /\ lock_swap' = lock_swap
    BY <1>1, <1>4, <2>1, MismaMemoria DEF Unlockear, RestoBien, TiposH, tablas, consola
  <2>4. /\ k \in Hilo /\ k.pc = h.pc /\ k.cursor = Siguiente(i)
        /\ k.op = h.op /\ k.pedido = h.pedido /\ k.plato = h.plato /\ k.colgado = h.colgado
        /\ k.camino = h.camino
    <3> HIDE DEF h, i
    <3> QED BY <1>1, <2>1 DEF Hilo
  <2> HIDE DEF k
  <2>5. /\ hilos' \in [Hilos -> Hilo] /\ hilos'[t] = k
        /\ \A u \in Hilos \ {t} : hilos'[u] = hilos[u]
    BY <1>1, <2>2, <2>4, CambiaHilo
  <2>6. Sitio(t)
    BY <1>1, <1>b, <2>1, <2>3, <2>4, <2>5
       DEF Sitio, Lugar, Busqueda, Alta, Pasada, MismosMarcos, SigueSuPagina
  <2>7. CambiaSwap(t) /\ ~ ReservaMP(t)' /\ ~ ReservaMV(t)'
    BY <1>1, <2>3, <2>4, <2>5 DEF CambiaSwap, ConSwap, ReservaMP, ReservaMV
  <2> QED BY <1>1, <2>3, <2>5, <2>6, <2>7, PasoSitio
<1> QED BY <1>2, <1>3, <1>4

-----------------------------------------------------------------------------
(* guardar_plato.                                                          *)

(* The test of the dish decides the path of agregar_plato_a_pedido. *)
LEMMA BuscarPlatoSigue ==
  ASSUME Sigue, NEW t \in Hilos, BuscarPlato(t)
  PROVE  Sigue'
<1> DEFINE h == hilos[t]
           c == tiene_pagina(mem, Pagina(t))
           pc == IF c THEN "TOMAR_PAGINA" ELSE "RESERVAR_MV"
           camino == IF c THEN "EN_MP" ELSE "NUEVO"
           k == [h EXCEPT !.pc = pc, !.camino = camino]
<1>1. /\ TiposH /\ Lugar(t) /\ mem \in MemoriasH /\ hilos \in [Hilos -> Hilo] /\ h \in Hilo
      /\ h.pc = "BUSCAR_PLATO" /\ h.op = "GUARDAR_PLATO"
  BY Donde, OpDe DEF BuscarPlato, En
<1>2. MismosMarcos(mem, mem') /\ RestoBien /\ lock_swap' = lock_swap
  BY <1>1, MismaMemoria DEF BuscarPlato, RestoBien, TiposH, tablas, candados, consola
<1>3. hilos' = [hilos EXCEPT ![t] = k]
  BY DEF BuscarPlato
<1>4. pc \in PasosDe(h.op) /\ pc \in Pasos
  <2>1. pc \in PasosDe(h.op)
    BY <1>1 DEF PasosDe, Alta
  <2> QED BY <2>1, Donde, PasoEnPasos
<1>5. /\ k \in Hilo /\ k.pc = pc /\ k.camino = camino
      /\ k.op = h.op /\ k.pedido = h.pedido /\ k.plato = h.plato /\ k.colgado = h.colgado
  <2>1. camino \in {"EN_MP", "NUEVO"}
    OBVIOUS
  <2> HIDE DEF h, pc, camino
  <2> QED BY <1>1, <1>4, <2>1 DEF Hilo
<1> HIDE DEF k
<1>6. /\ hilos' \in [Hilos -> Hilo] /\ hilos'[t] = k
      /\ \A u \in Hilos \ {t} : hilos'[u] = hilos[u]
  BY <1>1, <1>3, <1>5, CambiaHilo
<1>7. SigueSuPagina(t)' => tiene_pagina(mem, Pagina(t))
  BY <1>1, <1>5, <1>6 DEF SigueSuPagina, Alta
<1>8. Sitio(t)
  BY <1>1, <1>4, <1>5, <1>6, <1>7 DEF Sitio, Busqueda, Pasada, Recorriendo
<1>9. CambiaSwap(t) /\ ~ ReservaMP(t)' /\ ~ ReservaMV(t)'
  BY <1>1, <1>2, <1>5, <1>6 DEF CambiaSwap, ConSwap, ReservaMP, ReservaMV
<1> QED BY <1>1, <1>2, <1>6, <1>8, <1>9, PasoSitio

(* Marking a frame that no page has. *)
LEMMA MarcarMV ==
  ASSUME mem \in MemoriasH, MarcosDePaginas(mem), MarcosPropios(mem),
         NEW f \in FramesMV, mem' = [mem EXCEPT !.bitmap_mv[f] = TRUE]
  PROVE  /\ mem' \in MemoriasH /\ mem'.lista = mem.lista /\ mem'.paginas = mem.paginas
         /\ mem'.bitmap_mp = mem.bitmap_mp
         /\ \A x \in FramesMV : mem'.bitmap_mv[x] <=> x = f \/ mem.bitmap_mv[x]
         /\ MarcosDePaginas(mem') /\ MarcosPropios(mem')
<1> DEFINE b == [mem.bitmap_mv EXCEPT ![f] = TRUE]
<1>1. b \in [FramesMV -> BOOLEAN] /\ \A x \in FramesMV : b[x] <=> x = f \/ mem.bitmap_mv[x]
  BY Zenon DEF MemoriasH
<1>2. mem' = [mem EXCEPT !.bitmap_mv = b]
  OBVIOUS
<1> HIDE DEF b
<1>3. /\ mem' \in MemoriasH /\ mem'.lista = mem.lista /\ mem'.paginas = mem.paginas
      /\ mem'.bitmap_mp = mem.bitmap_mp /\ mem'.bitmap_mv = b
  BY <1>1, <1>2 DEF MemoriasH
<1>4. \A q \in Paginas : mem.paginas[q].frame_mv # -1 => mem.paginas[q].frame_mv \in FramesMV
  BY DEF MemoriasH, Info, InfoPagina
<1>5. MarcosDePaginas(mem')
  BY <1>1, <1>3, <1>4 DEF MarcosDePaginas
<1>6. MarcosPropios(mem')
  BY <1>3 DEF MarcosPropios
<1> QED BY <1>1, <1>3, <1>5, <1>6

(* Marking one more frame of main memory keeps those of the pages marked. *)
LEMMA MarcarMP ==
  ASSUME mem \in MemoriasH, MarcosDePaginas(mem), MarcosPropios(mem),
         NEW f \in FramesMP, mem' = [mem EXCEPT !.bitmap_mp[f] = TRUE]
  PROVE  /\ mem' \in MemoriasH /\ mem'.lista = mem.lista /\ mem'.paginas = mem.paginas
         /\ mem'.bitmap_mv = mem.bitmap_mv
         /\ \A x \in FramesMP : mem'.bitmap_mp[x] <=> x = f \/ mem.bitmap_mp[x]
         /\ MarcosDePaginas(mem') /\ MarcosPropios(mem')
<1> DEFINE b == [mem.bitmap_mp EXCEPT ![f] = TRUE]
<1>1. b \in [FramesMP -> BOOLEAN] /\ \A x \in FramesMP : b[x] <=> x = f \/ mem.bitmap_mp[x]
  BY Zenon DEF MemoriasH
<1>2. mem' = [mem EXCEPT !.bitmap_mp = b]
  OBVIOUS
<1> HIDE DEF b
<1>3. /\ mem' \in MemoriasH /\ mem'.lista = mem.lista /\ mem'.paginas = mem.paginas
      /\ mem'.bitmap_mv = mem.bitmap_mv /\ mem'.bitmap_mp = b
  BY <1>1, <1>2 DEF MemoriasH
<1>4. \A q \in Paginas : mem.paginas[q].frame_mp # -1 => mem.paginas[q].frame_mp \in FramesMP
  BY DEF MemoriasH, Info, InfoPagina
<1>5. MarcosDePaginas(mem')
  BY <1>1, <1>3, <1>4 DEF MarcosDePaginas
<1>6. MarcosPropios(mem')
  BY <1>3 DEF MarcosPropios
<1> QED BY <1>1, <1>3, <1>5, <1>6

(* What is known of the frames before a step. *)
LEMMA MarcosDeAntes ==
  ASSUME Sigue
  PROVE  MarcosDePaginas(mem) /\ MarcosPropios(mem) /\ Reservas /\ MarcosSinCompartir
BY DEF Sigue, MarcosSinCompartir, MarcosPropios

(* A new table of a restaurant touches no page, nor does another thread    *)
(* move when it learns that the table it holds was replaced.               *)
LEMMA CrearTablaSigue ==
  ASSUME Sigue, NEW t \in Hilos, CrearTabla(t)
  PROVE  Sigue' \/ Falla(t)
<1> DEFINE h == hilos[t]
           k == [h EXCEPT !.pc = "TOMAR_TABLA"]
           suyos == {ped \in Pedidos : ped[1] = h.pedido[1]}
<1>1. /\ TiposH /\ Lugar(t) /\ mem \in MemoriasH /\ hilos \in [Hilos -> Hilo] /\ h \in Hilo
      /\ h.pc = "CREAR_TABLA" /\ h.op = "GUARDAR_PEDIDO"
  BY Donde, OpDe DEF CrearTabla, En
<1>2. CASE \E ped \in suyos : SeReemplaza(ped)
  BY <1>2 DEF CrearTabla, Falla
<1>3. CASE ~ \E ped \in suyos : SeReemplaza(ped)
  <2>1. /\ estado' = [ped \in Pedidos |-> IF ped \in suyos THEN "NULO" ELSE estado[ped]]
        /\ hilos' = [u \in Hilos |->
             IF u = t THEN [hilos[u] EXCEPT !.pc = "TOMAR_TABLA"]
             ELSE [hilos[u] EXCEPT !.huerfana = @ \/ u \in ConTabla(h.pedido[1])]]
        /\ UNCHANGED <<escenario, mem, candados, consola, fallo>>
    BY <1>3 DEF CrearTabla
  <2>2. estado' \in [Pedidos -> Estados]
    BY <1>1, <2>1 DEF TiposH, Estados
  <2>3. "TOMAR_TABLA" \in PasosDe(h.op) /\ "TOMAR_TABLA" \in Pasos
    <3>1. "TOMAR_TABLA" \in PasosDe(h.op)
      BY <1>1 DEF PasosDe
    <3> QED BY <3>1, Donde, PasoEnPasos
  <2>4. /\ k \in Hilo /\ k.pc = "TOMAR_TABLA" /\ k.op = h.op /\ k.pedido = h.pedido
        /\ k.plato = h.plato /\ k.camino = h.camino
    <3> HIDE DEF h
    <3> QED BY <1>1, <2>3 DEF Hilo
  <2>5. \A u \in Hilos \ {t} :
          /\ hilos'[u] \in Hilo /\ Quieto(u)
          /\ hilos'[u].espera = hilos[u].espera /\ hilos'[u].cursor = hilos[u].cursor
    <3> SUFFICES ASSUME NEW u \in Hilos, u # t
                 PROVE  /\ hilos'[u] \in Hilo /\ Quieto(u)
                        /\ hilos'[u].espera = hilos[u].espera /\ hilos'[u].cursor = hilos[u].cursor
      OBVIOUS
    <3> DEFINE x == hilos[u]
               c == x.huerfana \/ u \in ConTabla(h.pedido[1])
               y == [x EXCEPT !.huerfana = c]
    <3>1. hilos'[u] = y
      BY <2>1
    <3>2. x \in Hilo /\ c \in BOOLEAN
      BY <1>1 DEF Hilo
    <3> HIDE DEF c
    <3>3. /\ y \in Hilo /\ y.pc = x.pc /\ y.cursor = x.cursor /\ y.colgado = x.colgado
          /\ y.op = x.op /\ y.pedido = x.pedido /\ y.plato = x.plato /\ y.camino = x.camino
          /\ y.dato = x.dato /\ y.pendientes = x.pendientes /\ y.leido = x.leido
          /\ y.espera = x.espera
      <4> HIDE DEF x
      <4> QED BY <3>2 DEF Hilo
    <3> HIDE DEF y
    <3> QED BY <3>1, <3>3 DEF Quieto
  <2>6. hilos'[t] = k
    BY <2>1
  <2> HIDE DEF k
  <2>7. hilos' \in [Hilos -> Hilo]
    <3>1. \A u \in Hilos : hilos'[u] \in Hilo
      BY <2>4, <2>5, <2>6
    <3>2. hilos' = [u \in Hilos |-> hilos'[u]]
      BY <2>1, Zenon
    <3> QED BY <3>1, <3>2, Zenon
  <2>8. mem' = mem /\ lock_swap' = lock_swap
    BY <2>1 DEF candados
  <2>9. \A u \in Hilos : Lugar(u)' /\ Vivas(u)'
    <3>1. ASSUME NEW u \in Hilos \ {t} PROVE Lugar(u)'
      BY <2>5, <2>8, LugarDeOtro DEF Sigue, Lugar
    <3>2. ASSUME NEW u \in Hilos \ {t} PROVE Vivas(u)'
      BY <2>5, <2>8, VivasDeOtro DEF Sigue
    <3>3. Lugar(t)'
      BY <1>1, <2>3, <2>4, <2>6 DEF Lugar, Recorriendo, Busqueda, ConPlato
    <3>4. Vivas(t)'
      BY <1>1, <2>4, <2>6 DEF Vivas, SigueSuPagina, Pasada, Lugar
    <3> QED BY <3>1, <3>2, <3>3, <3>4
  <2>10. CambiaSwap(t) /\ ~ ReservaMV(t)' /\ ~ ReservaMP(t)'
    BY <1>1, <2>4, <2>6, <2>8 DEF CambiaSwap, ConSwap, ReservaMV, ReservaMP
  <2>11. CambiaMarcos(t) /\ MarcosDePaginas(mem') /\ MarcosPropios(mem')
    BY <2>8, <2>10, MarcosDeAntes DEF CambiaMarcos
  <2>12. TiposH'
    BY <1>1, <2>1, <2>2, <2>7 DEF TiposH, candados, consola
  <2>13. \A u \in Hilos \ {t} : Quieto(u)
    BY <2>5
  <2> QED BY <2>9, <2>10, <2>11, <2>12, <2>13, PasoDeVarios
<1> QED BY <1>2, <1>3

(* The frame of swap that a thread reserves is nobody else's. *)
LEMMA ReservarMVSigue ==
  ASSUME Sigue, NEW t \in Hilos, ReservarMV(t)
  PROVE  Sigue'
<1> DEFINE h == hilos[t]
           f == obtener_frame_libre(mem.bitmap_mv)
           dato == [h.dato EXCEPT !.frame = f]
           k == [h EXCEPT !.pc = "AGREGAR_PAGINA", !.dato = dato]
<1>1. /\ TiposH /\ Lugar(t) /\ mem \in MemoriasH /\ hilos \in [Hilos -> Hilo] /\ h \in Hilo
      /\ h.pc = "RESERVAR_MV" /\ h.op = "GUARDAR_PLATO"
  BY Donde, OpDe DEF ReservarMV, En, Alta
<1>2. f \in Int /\ (f < 0 \/ (f \in FramesMV /\ ~ mem.bitmap_mv[f]))
  BY <1>1, LibreMV
<1>3. CASE f < 0
  <2>1. MismosMarcos(mem, mem') /\ RestoBien /\ lock_swap' = lock_swap
    BY <1>1, <1>3, MismaMemoria DEF ReservarMV, RestoBien, TiposH, tablas, candados
  <2>2. ~ ConSwap(t)
    BY <1>1 DEF ConSwap
  <2> QED BY <1>3, <2>1, <2>2, PasoResponde DEF ReservarMV, Responder
<1>4. CASE f \in FramesMV /\ ~ mem.bitmap_mv[f]
  <2>0. ~ (f < 0)
    BY <1>4 DEF FramesMV
  <2>1. /\ RestoBien /\ lock_swap' = lock_swap /\ mem' = [mem EXCEPT !.bitmap_mv[f] = TRUE]
        /\ hilos' = [hilos EXCEPT ![t].pc = "AGREGAR_PAGINA", ![t].dato.frame = f]
    BY <1>1, <2>0 DEF ReservarMV, RestoBien, TiposH, tablas, candados
  <2>2. hilos' = [hilos EXCEPT ![t] = k]
    BY <2>1
  <2>3. "AGREGAR_PAGINA" \in PasosDe(h.op) /\ "AGREGAR_PAGINA" \in Pasos
    <3>1. "AGREGAR_PAGINA" \in PasosDe(h.op)
      BY <1>1 DEF PasosDe, Alta
    <3> QED BY <3>1, Donde, PasoEnPasos
  <2>4. dato \in [frame : Int, valor : Int] /\ dato.frame = f
    <3>1. h.dato \in [frame : Int, valor : Int]
      BY <1>1 DEF Hilo
    <3> QED BY <3>1, <1>2
  <2> HIDE DEF dato
  <2>5. /\ k \in Hilo /\ k.pc = "AGREGAR_PAGINA" /\ k.dato = dato /\ k.camino = h.camino
        /\ k.op = h.op /\ k.pedido = h.pedido /\ k.plato = h.plato /\ k.colgado = h.colgado
    <3> HIDE DEF h
    <3> QED BY <1>1, <2>3, <2>4 DEF Hilo
  <2> HIDE DEF k
  <2>6. /\ hilos' \in [Hilos -> Hilo] /\ hilos'[t] = k
        /\ \A u \in Hilos \ {t} : hilos'[u] = hilos[u]
    BY <1>1, <2>2, <2>5, CambiaHilo
  <2> HIDE DEF f
  <2>7. /\ mem' \in MemoriasH /\ mem'.lista = mem.lista /\ mem'.paginas = mem.paginas
        /\ mem'.bitmap_mp = mem.bitmap_mp
        /\ \A x \in FramesMV : mem'.bitmap_mv[x] <=> x = f \/ mem.bitmap_mv[x]
        /\ MarcosDePaginas(mem') /\ MarcosPropios(mem')
    BY <1>1, <1>4, <2>1, MarcosDeAntes, MarcarMV
  <2>8. Sitio(t)
    BY <1>1, <2>3, <2>5, <2>6
       DEF Sitio, Lugar, Busqueda, Alta, Pasada, Recorriendo, SigueSuPagina
  <2>9. CambiaSwap(t) /\ ~ ReservaMP(t)' /\ CambiaMarcos(t)
    BY <1>1, <1>4, <2>1, <2>4, <2>5, <2>6, <2>7
       DEF CambiaSwap, ConSwap, ReservaMP, ReservaMV, CambiaMarcos
  <2>10. Crecen /\ TiposH'
    BY <1>1, <2>1, <2>6, <2>7 DEF Crecen, tiene_pagina, TiposH, RestoBien
  <2> QED BY <1>1, <2>6, <2>7, <2>8, <2>9, <2>10, PasoSolo
<1> QED BY <1>2, <1>3, <1>4

(* The reserved frame of swap becomes the new page's. *)
LEMMA AgregarPaginaSigue ==
  ASSUME Sigue, NEW t \in Hilos, AgregarPagina(t)
  PROVE  Sigue' \/ Falla(t)
<1> DEFINE h == hilos[t]
           f == h.dato.frame
           p == Pagina(t)
<1>1. /\ TiposH /\ Lugar(t) /\ mem \in MemoriasH /\ hilos \in [Hilos -> Hilo] /\ h \in Hilo
      /\ h.pc = "AGREGAR_PAGINA" /\ h.op = "GUARDAR_PLATO"
  BY Donde, OpDe DEF AgregarPagina, En, Alta
<1>2. p \in Paginas
  BY <1>1, PaginaDe DEF ConPlato
<1>3. CASE tiene_pagina(mem, p)
  BY <1>3 DEF AgregarPagina, Falla
<1>4. CASE ~ tiene_pagina(mem, p)
  <2>1. /\ RestoBien /\ lock_swap' = lock_swap /\ Ir(t, "TOMAR_SWAP")
        /\ mem' = agregar_nueva_plato_a_pedido(mem, p, h.cantidad, f)
    BY <1>1, <1>4 DEF AgregarPagina, RestoBien, TiposH, tablas, candados, consola
  <2>2. ReservaMV(t) /\ f \in FramesMV /\ \A q \in Paginas : mem.paginas[q].frame_mv # f
    <3>1. ReservaMV(t)
      BY <1>1 DEF ReservaMV
    <3> QED BY <3>1, MarcosDeAntes DEF Reservas, MarcosSinCompartir
  <2>3. Nace(mem, mem', p, f)
    <3>1. h.cantidad \in Int
      BY <1>1 DEF Hilo
    <3> QED BY <3>1, <1>1, <1>2, <2>1, <2>2, NuevaH
  <2>4. MarcosDePaginas(mem') /\ MarcosPropios(mem')
    BY <1>1, <1>2, <2>2, <2>3, MarcosDeAntes, NaceBien
  <2>5. "TOMAR_SWAP" \in PasosDe(h.op)
    BY <1>1 DEF PasosDe
  <2>6. /\ hilos' \in [Hilos -> Hilo] /\ Igual(hilos'[t], h) /\ hilos'[t].pc = "TOMAR_SWAP"
        /\ \A u \in Hilos \ {t} : hilos'[u] = hilos[u]
    BY <1>1, <2>1, <2>5, IrBien
  <2>7. f # -1 /\ tiene_pagina(mem', p)
    BY <2>2, <2>3 DEF FramesMV, Nace, tiene_pagina
  <2>8. Sitio(t)
    BY <1>1, <2>5, <2>6, <2>7
       DEF Sitio, Lugar, Busqueda, Alta, Pasada, Recorriendo, Igual
  <2>9. CambiaSwap(t)
    BY <1>1, <2>1, <2>6 DEF CambiaSwap, ConSwap
  <2>10. Crecen
    BY <2>3, <2>7 DEF Crecen, Nace, tiene_pagina
  <2>11. TiposH'
    BY <1>1, <2>1, <2>3, <2>6 DEF Nace, TiposH, RestoBien
  <2>12. CambiaMarcos(t)
    <3>1. ~ ReservaMV(t)' /\ ~ ReservaMP(t)'
      BY <2>6 DEF ReservaMV, ReservaMP
    <3>2. \A q \in Paginas : /\ q # p => mem'.paginas[q].frame_mv = mem.paginas[q].frame_mv
                             /\ q # p => mem'.paginas[q].frame_mp = mem.paginas[q].frame_mp
                             /\ q = p => mem'.paginas[q].frame_mv = f /\ mem'.paginas[q].frame_mp = -1
      BY <2>3 DEF Nace
    <3>3. \A x \in FramesMV : mem.bitmap_mv[x] => mem'.bitmap_mv[x]
      BY <2>3 DEF Nace
    <3>4. mem'.bitmap_mp = mem.bitmap_mp
      BY <2>3 DEF Nace
    <3> QED BY <2>2, <3>1, <3>2, <3>3, <3>4 DEF CambiaMarcos
  <2>13. Len(mem'.lista) = Len(mem.lista)
    BY <2>3 DEF Nace
  <2> QED BY <1>1, <2>4, <2>6, <2>8, <2>9, <2>10, <2>11, <2>12, <2>13, PasoSolo
<1> QED BY <1>3, <1>4

(* The frame of main memory that a thread reserves is nobody else's. *)
LEMMA ReservarMPSigue ==
  ASSUME Sigue, NEW t \in Hilos, ReservarMP(t)
  PROVE  Sigue'
<1> DEFINE h == hilos[t]
           f == obtener_frame_libre(mem.bitmap_mp)
           dato == [h.dato EXCEPT !.frame = f]
           k == [h EXCEPT !.pc = "TOMAR_PAGINA", !.dato = dato]
<1>1. /\ TiposH /\ Lugar(t) /\ mem \in MemoriasH /\ hilos \in [Hilos -> Hilo] /\ h \in Hilo
      /\ h.pc = "RESERVAR_MP" /\ h.op = "GUARDAR_PLATO"
  BY Donde, OpDe DEF ReservarMP, En
<1>a. h.camino # "NINGUNO"
  BY <1>1 DEF Lugar, Busqueda
<1>2. f \in Int /\ (f < 0 \/ (f \in FramesMP /\ ~ mem.bitmap_mp[f]))
  BY <1>1, LibreMP
<1>3. CASE f < 0
  <2>1. MismosMarcos(mem, mem') /\ RestoBien /\ lock_swap' = lock_swap /\ Recorrer(t, "LOCKEAR")
        /\ mem' = mem
    BY <1>1, <1>3, MismaMemoria DEF ReservarMP, RestoBien, TiposH, tablas, consola
  <2>2. "LOCKEAR" \in PasosDe(h.op)
    BY <1>1 DEF PasosDe, Recorrido
  <2>3. /\ hilos' \in [Hilos -> Hilo] /\ Igual(hilos'[t], h) /\ hilos'[t].pc = "LOCKEAR"
        /\ \A u \in Hilos \ {t} : hilos'[u] = hilos[u]
        /\ hilos'[t].cursor \in -1 .. Len(mem'.lista)
    BY <1>1, <2>1, <2>2, RecorrerBien
  <2>4. CambiaSwap(t)
    BY <1>1, <2>1, <2>3 DEF CambiaSwap, ConSwap
  <2>5. ~ ReservaMP(t)' /\ (SigueSuPagina(t)' => SigueSuPagina(t))
    BY <1>1, <2>3 DEF ReservaMP, SigueSuPagina, Igual, Busqueda, Alta
  <2> QED BY <1>a, <2>1, <2>2, <2>3, <2>4, <2>5, PasoIgual DEF Alta, Pasada, Busqueda
<1>4. CASE f \in FramesMP /\ ~ mem.bitmap_mp[f]
  <2>0. ~ (f < 0)
    BY <1>4 DEF FramesMP
  <2>1. /\ RestoBien /\ lock_swap' = Nadie /\ mem' = [mem EXCEPT !.bitmap_mp[f] = TRUE]
        /\ hilos' = [hilos EXCEPT ![t].pc = "TOMAR_PAGINA", ![t].dato.frame = f]
    BY <1>1, <2>0 DEF ReservarMP, RestoBien, TiposH, tablas, consola
  <2>2. hilos' = [hilos EXCEPT ![t] = k]
    BY <2>1
  <2>3. "TOMAR_PAGINA" \in PasosDe(h.op) /\ "TOMAR_PAGINA" \in Pasos
    <3>1. "TOMAR_PAGINA" \in PasosDe(h.op)
      BY <1>1 DEF PasosDe
    <3> QED BY <3>1, Donde, PasoEnPasos
  <2>4. dato \in [frame : Int, valor : Int] /\ dato.frame = f
    <3>1. h.dato \in [frame : Int, valor : Int]
      BY <1>1 DEF Hilo
    <3> QED BY <3>1, <1>2
  <2> HIDE DEF dato
  <2>5. /\ k \in Hilo /\ k.pc = "TOMAR_PAGINA" /\ k.dato = dato /\ k.camino = h.camino
        /\ k.op = h.op /\ k.pedido = h.pedido /\ k.plato = h.plato /\ k.colgado = h.colgado
    <3> HIDE DEF h
    <3> QED BY <1>1, <2>3, <2>4 DEF Hilo
  <2> HIDE DEF k
  <2>6. /\ hilos' \in [Hilos -> Hilo] /\ hilos'[t] = k
        /\ \A u \in Hilos \ {t} : hilos'[u] = hilos[u]
    BY <1>1, <2>2, <2>5, CambiaHilo
  <2> HIDE DEF f
  <2>7. /\ mem' \in MemoriasH /\ mem'.lista = mem.lista /\ mem'.paginas = mem.paginas
        /\ mem'.bitmap_mv = mem.bitmap_mv
        /\ \A x \in FramesMP : mem'.bitmap_mp[x] <=> x = f \/ mem.bitmap_mp[x]
        /\ MarcosDePaginas(mem') /\ MarcosPropios(mem')
    BY <1>1, <1>4, <2>1, MarcosDeAntes, MarcarMP
  <2>8. Sitio(t)
    BY <1>1, <1>a, <2>3, <2>5, <2>6
       DEF Sitio, Busqueda, Alta, Pasada, Recorriendo, SigueSuPagina
  <2>9. CambiaSwap(t) /\ ~ ReservaMV(t)'
    BY <1>1, <2>1, <2>5, <2>6 DEF CambiaSwap, ConSwap, ReservaMV
  <2>10. Crecen /\ TiposH'
    BY <1>1, <2>1, <2>6, <2>7 DEF Crecen, tiene_pagina, TiposH, RestoBien
  <2>11. CambiaMarcos(t)
    BY <1>4, <2>4, <2>5, <2>6, <2>7, <2>9 DEF CambiaMarcos
  <2> QED BY <1>1, <2>6, <2>7, <2>8, <2>9, <2>10, <2>11, PasoSolo
<1> QED BY <1>2, <1>3, <1>4

(* The thread keeps its frame while it waits for the mutex of its page. *)
LEMMA TomarPaginaSigue ==
  ASSUME Sigue, NEW t \in Hilos, TomarPagina(t)
  PROVE  Sigue'
<1> DEFINE h == hilos[t]
           p == Pagina(t)
           j == [h EXCEPT !.pc = "TOMAR_SWAP", !.camino = "DE_SWAP"]
<1>1. /\ TiposH /\ Lugar(t) /\ mem \in MemoriasH /\ hilos \in [Hilos -> Hilo] /\ h \in Hilo
      /\ h.pc = "TOMAR_PAGINA" /\ h.op = "GUARDAR_PLATO"
  BY Donde, OpDe DEF TomarPagina, En
<1>a. h.camino # "NINGUNO"
  BY <1>1 DEF Lugar, Busqueda
<1>2. p \in Paginas
  BY <1>1, PaginaDe DEF ConPlato
<1>3. MismosMarcos(mem, mem') /\ RestoBien /\ lock_swap' = lock_swap
  BY <1>1, <1>2, MismaMemoria DEF TomarPagina, RestoBien, TiposH, tablas, consola
<1>4. PICK k \in Hilo : /\ hilos' = [hilos EXCEPT ![t] = k]
                        /\ k.op = h.op /\ k.pedido = h.pedido /\ k.plato = h.plato
                        /\ k.colgado = h.colgado /\ k.dato = h.dato
                        /\ k.pc \in PasosDe(h.op)
                        /\ k.pc \in {"CARGAR", "LEER_TOTAL", "TOMAR_SWAP"}
                        /\ k.camino # "NINGUNO"
                        /\ k.pc = "CARGAR" => k.camino = "NUEVO" /\ h.camino = "NUEVO"
  <2>1. {"CARGAR", "LEER_TOTAL", "TOMAR_SWAP"} \subseteq PasosDe(h.op)
    BY <1>1 DEF PasosDe
  <2>2. {"CARGAR", "LEER_TOTAL", "TOMAR_SWAP"} \subseteq Pasos
    BY <2>1, Donde, PasoEnPasos
  <2>3. ASSUME NEW pc \in {"CARGAR", "LEER_TOTAL", "TOMAR_SWAP"}, NEW c \in {h.camino, "DE_SWAP"}
        PROVE  LET k == [h EXCEPT !.pc = pc, !.camino = c]
               IN  /\ k \in Hilo /\ k.pc = pc /\ k.camino = c
                   /\ k.op = h.op /\ k.pedido = h.pedido /\ k.plato = h.plato
                   /\ k.colgado = h.colgado /\ k.dato = h.dato
    <3> HIDE DEF h
    <3> QED BY <1>1, <2>2 DEF Hilo
  <2>4. ASSUME NEW pc \in {"CARGAR", "LEER_TOTAL"}, Ir(t, pc)
        PROVE  hilos' = [hilos EXCEPT ![t] = [h EXCEPT !.pc = pc, !.camino = h.camino]]
    <3>1. [h EXCEPT !.pc = pc, !.camino = h.camino] = [h EXCEPT !.pc = pc]
      <4> HIDE DEF h
      <4> QED BY <1>1 DEF Hilo
    <3> QED BY <2>4, <3>1 DEF Ir
  <2>5. CASE h.camino = "NUEVO"
    <3>1. Ir(t, "CARGAR")
      BY <2>5 DEF TomarPagina
    <3>2. hilos' = [hilos EXCEPT ![t] = [h EXCEPT !.pc = "CARGAR", !.camino = h.camino]]
      BY <3>1, <2>4
    <3>3. "CARGAR" \in PasosDe(h.op) /\ "CARGAR" \in {"CARGAR", "LEER_TOTAL", "TOMAR_SWAP"}
      BY <2>1
    <3> DEFINE k == [h EXCEPT !.pc = "CARGAR", !.camino = h.camino]
    <3>4. /\ k \in Hilo /\ k.pc = "CARGAR" /\ k.camino = h.camino
          /\ k.op = h.op /\ k.pedido = h.pedido /\ k.plato = h.plato
          /\ k.colgado = h.colgado /\ k.dato = h.dato
      BY <2>3, <3>3
    <3>5. hilos' = [hilos EXCEPT ![t] = k]
      BY <3>2
    <3> HIDE DEF k
    <3> QED BY <1>a, <2>5, <3>3, <3>4, <3>5
  <2>6. CASE h.camino # "NUEVO" /\ mem.paginas[p].presencia
    <3>1. Ir(t, "LEER_TOTAL")
      BY <2>6 DEF TomarPagina
    <3>2. hilos' = [hilos EXCEPT ![t] = [h EXCEPT !.pc = "LEER_TOTAL", !.camino = h.camino]]
      BY <3>1, <2>4
    <3> HIDE DEF h
    <3> QED BY <1>a, <2>1, <2>3, <3>2
  <2>7. CASE h.camino # "NUEVO" /\ ~ mem.paginas[p].presencia
    <3>1. hilos' = [hilos EXCEPT ![t] = [h EXCEPT !.pc = "TOMAR_SWAP", !.camino = "DE_SWAP"]]
      BY <2>7 DEF TomarPagina
    <3> HIDE DEF h
    <3> QED BY <2>1, <2>3, <3>1
  <2> QED BY <2>5, <2>6, <2>7
<1>5. /\ hilos' \in [Hilos -> Hilo] /\ hilos'[t] = k
      /\ \A u \in Hilos \ {t} : hilos'[u] = hilos[u]
  BY <1>1, <1>4, CambiaHilo
<1>6. Sitio(t)
  BY <1>1, <1>a, <1>4, <1>5 DEF Sitio, Busqueda, Alta, Pasada, Recorriendo, SigueSuPagina
<1>7. CambiaSwap(t) /\ ~ ReservaMV(t)'
  BY <1>1, <1>3, <1>4, <1>5 DEF CambiaSwap, ConSwap, ReservaMV
<1>8. ReservaMP(t)' => ReservaMP(t) /\ hilos'[t].dato.frame = hilos[t].dato.frame
  BY <1>1, <1>4, <1>5 DEF ReservaMP
<1> QED BY <1>1, <1>3, <1>5, <1>6, <1>7, <1>8, PasoSitio

(* A page left the list, others behind it moved one place: each thread is  *)
(* where it was, and its place is one of the list that is left, which may  *)
(* have grown at its end.                                                  *)
LEMMA SinNodoBien ==
  ASSUME NEW hs \in [Hilos -> Hilo], mem \in MemoriasH, NEW p \in Paginas, NEW u \in Hilos,
         hs[u].pc \in Recorriendo => hs[u].cursor \in -1 .. Len(mem.lista),
         NEW largo \in Nat, largo >= Len(SacarDeLista(mem, p))
  PROVE  LET k == SinNodo(hs, p)[u]
         IN  /\ k \in Hilo
             /\ k.pc = hs[u].pc /\ Igual(k, hs[u])
             /\ k.pc \in Recorriendo => k.cursor \in -1 .. largo
<1> DEFINE h == hs[u]
           i == SelectInSeq(mem.lista,
                  LAMBDA q : mem.paginas[q].frame_mv = mem.paginas[p].frame_mv)
           c == IF h.cursor = i THEN 0 ELSE h.cursor - 1
           k == [h EXCEPT !.cursor = c]
<1>1. /\ SacarDeLista(mem, p) \in Seq(Paginas) /\ i \in 0 .. Len(mem.lista)
      /\ Len(SacarDeLista(mem, p)) = IF i = 0 THEN Len(mem.lista) ELSE Len(mem.lista) - 1
  BY SacarH
<1>2. Len(mem.lista) \in Nat /\ Len(SacarDeLista(mem, p)) \in Nat
  BY <1>1, LenProperties DEF MemoriasH
<1>3. SinNodo(hs, p)[u] = IF i = 0 \/ h.cursor < i \/ h.pc \notin Recorriendo THEN h ELSE k
  BY Zenon DEF SinNodo
<1> HIDE DEF i
<1>4. h \in Hilo /\ h.cursor \in Int
  BY DEF Hilo
<1>5. CASE i = 0 \/ h.cursor < i \/ h.pc \notin Recorriendo
  <2>1. SinNodo(hs, p)[u] = h
    BY <1>3, <1>5
  <2>2. h.pc \in Recorriendo => h.cursor \in -1 .. largo
    BY <1>1, <1>2, <1>4, <1>5
  <2> QED BY <1>4, <2>1, <2>2 DEF Igual
<1>6. CASE ~ (i = 0 \/ h.cursor < i \/ h.pc \notin Recorriendo)
  <2>1. SinNodo(hs, p)[u] = k
    BY <1>3, <1>6
  <2>2. c \in -1 .. largo /\ c \in Int
    BY <1>1, <1>2, <1>4, <1>6
  <2> HIDE DEF c
  <2>3. k \in Hilo /\ k.pc = h.pc /\ k.cursor = c /\ Igual(k, h)
    <3> HIDE DEF h
    <3> QED BY <1>4, <2>2 DEF Hilo, Igual
  <2> QED BY <2>1, <2>2, <2>3
<1> QED BY <1>5, <1>6

(* The threads after a node left the list are the same threads. *)
LEMMA SinNodoFuncion ==
  ASSUME NEW hs, NEW p
  PROVE  DOMAIN SinNodo(hs, p) = Hilos
BY DEF SinNodo

(* A frame goes to a page: what the threads keep, when a page is loaded    *)
(* while others walk over the list.                                        *)
LEMMA CargaPaso ==
  ASSUME Sigue, NEW t \in Hilos, hilos[t].pc # "LIBRE", NEW p \in Paginas, tiene_pagina(mem, p),
         NEW f \in FramesMP, \A q \in Paginas : mem.paginas[q].frame_mp # f,
         (ReservaMP(t) /\ f = hilos[t].dato.frame) \/ ~ mem.bitmap_mp[f],
         mem' = cargar_en_frame(mem, p, f),
         hilos' \in [Hilos -> Hilo],
         \A u \in Hilos \ {t} : hilos'[u] = SinNodo(hilos, p)[u],
         Sitio(t), RestoBien, CambiaSwap(t), ~ ReservaMP(t)', ~ ReservaMV(t)'
  PROVE  Sigue'
<1>1. /\ TiposH /\ mem \in MemoriasH /\ hilos \in [Hilos -> Hilo] /\ \A u \in Hilos : Lugar(u)
      /\ MarcosDePaginas(mem) /\ MarcosPropios(mem)
  BY MarcosDeAntes DEF Sigue, TiposH
<1>2. TomaMarco(mem, mem', p, f)
  BY <1>1, CargarH
<1>3. MarcosDePaginas(mem') /\ MarcosPropios(mem')
  BY <1>1, <1>2, TomaMarcoBien
<1>4. Len(mem'.lista) \in Nat /\ Len(mem'.lista) >= Len(SacarDeLista(mem, p))
  <2>1. Len(mem'.lista) \in Nat /\ Len(mem.lista) \in Nat
    BY <1>1, <1>2, LenProperties DEF TomaMarco, MemoriasH
  <2>2. Len(SacarDeLista(mem, p)) <= Len(mem.lista) /\ Len(SacarDeLista(mem, p)) \in Nat
    <3>1. /\ Len(SacarDeLista(mem, p)) = Len(mem.lista)
             \/ Len(SacarDeLista(mem, p)) = Len(mem.lista) - 1
          /\ SacarDeLista(mem, p) \in Seq(Paginas)
      BY <1>1, SacarH
    <3> QED BY <2>1, <3>1, LenProperties
  <2> QED BY <2>1, <2>2, <1>2 DEF TomaMarco
<1>5. \A u \in Hilos \ {t} : /\ hilos'[u].pc = hilos[u].pc /\ Igual(hilos'[u], hilos[u])
                             /\ hilos'[u].pc \in Recorriendo => hilos'[u].cursor \in -1 .. Len(mem'.lista)
  BY <1>1, <1>4, SinNodoBien DEF Lugar
<1>6. \A u \in Hilos \ {t} : Quieto(u)
  BY <1>5 DEF Quieto, Igual
<1>7. Crecen
  BY <1>2 DEF Crecen, TomaMarco, tiene_pagina
<1>8. \A u \in Hilos : Lugar(u)' /\ Vivas(u)'
  <2>1. ASSUME NEW u \in Hilos \ {t} PROVE Lugar(u)'
    BY <1>1, <1>5, <1>6, LugarDeOtro DEF Lugar, Igual
  <2>2. ASSUME NEW u \in Hilos \ {t} PROVE Vivas(u)'
    BY <1>6, <1>7, VivasDeOtro DEF Sigue, Crecen
  <2> QED BY <1>7, <2>1, <2>2, SitioBien
<1>9. CambiaMarcos(t)
  <2>1. \A q \in Paginas : /\ mem'.paginas[q].frame_mv = mem.paginas[q].frame_mv
                           /\ mem'.paginas[q].frame_mp = mem.paginas[q].frame_mp
                              \/ mem'.paginas[q].frame_mp = f
    BY <1>2 DEF TomaMarco
  <2>2. /\ mem'.bitmap_mv = mem.bitmap_mv
        /\ \A x \in FramesMP : mem.bitmap_mp[x] => mem'.bitmap_mp[x]
    BY <1>2 DEF TomaMarco
  <2> QED BY <2>1, <2>2 DEF CambiaMarcos
<1>10. TiposH'
  BY <1>1, <1>2, SwapTipo DEF TiposH, RestoBien, TomaMarco
<1> QED BY <1>3, <1>6, <1>8, <1>9, <1>10, PasoDeVarios

(* The reserved frame of main memory becomes the new page's. *)
LEMMA CargarSigue ==
  ASSUME Sigue, NEW t \in Hilos, Cargar(t)
  PROVE  Sigue'
<1> DEFINE h == hilos[t]
           p == Pagina(t)
           f == h.dato.frame
           j == SinNodo(hilos, p)[t]
           k == [j EXCEPT !.pc = "SOLTAR_PAGINA"]
<1>1. /\ TiposH /\ Lugar(t) /\ Vivas(t) /\ mem \in MemoriasH /\ hilos \in [Hilos -> Hilo]
      /\ h \in Hilo /\ h.pc = "CARGAR" /\ h.op = "GUARDAR_PLATO" /\ h.camino = "NUEVO"
      /\ ~ h.colgado
  BY Donde, OpDe DEF Cargar, En, Lugar, UsaLiberado, SinPunteros, Hilo
<1>2. p \in Paginas /\ tiene_pagina(mem, p)
  BY <1>1, PaginaDe DEF Vivas, SigueSuPagina, Alta
<1>3. ReservaMP(t) /\ f \in FramesMP /\ \A q \in Paginas : mem.paginas[q].frame_mp # f
  <2>1. ReservaMP(t)
    BY <1>1 DEF ReservaMP
  <2> QED BY <2>1, MarcosDeAntes DEF Reservas, MarcosSinCompartir
<1>4. /\ RestoBien /\ lock_swap' = lock_swap /\ mem' = cargar_en_frame(mem, p, f)
      /\ hilos' = [SinNodo(hilos, p) EXCEPT ![t].pc = "SOLTAR_PAGINA"]
  BY <1>1 DEF Cargar, RestoBien, TiposH, tablas, candados, consola
<1>5. \A u \in Hilos : SinNodo(hilos, p)[u] \in Hilo /\ Igual(SinNodo(hilos, p)[u], hilos[u])
  <2>1. Len(SacarDeLista(mem, p)) \in Nat
    BY <1>1, <1>2, SacarH, LenProperties
  <2> QED BY <1>1, <1>2, <2>1, SinNodoBien DEF Sigue, Lugar
<1>6. "SOLTAR_PAGINA" \in PasosDe(h.op) /\ "SOLTAR_PAGINA" \in Pasos
  <2>1. "SOLTAR_PAGINA" \in PasosDe(h.op)
    BY <1>1 DEF PasosDe
  <2> QED BY <2>1, Donde, PasoEnPasos
<1>7. k \in Hilo /\ k.pc = "SOLTAR_PAGINA" /\ Igual(k, h)
  <2>1. j \in Hilo /\ Igual(j, h)
    BY <1>5
  <2> HIDE DEF j, h
  <2> QED BY <1>6, <2>1 DEF Hilo, Igual
<1>8. /\ hilos' \in [Hilos -> Hilo] /\ hilos'[t] = k
      /\ \A u \in Hilos \ {t} : hilos'[u] = SinNodo(hilos, p)[u]
  <2>1. SinNodo(hilos, p) \in [Hilos -> Hilo]
    <3>1. SinNodo(hilos, p) = [u \in Hilos |-> SinNodo(hilos, p)[u]]
      BY DEF SinNodo
    <3> QED BY <1>5, <3>1
  <2>2. hilos' = [SinNodo(hilos, p) EXCEPT ![t] = k]
    BY <1>4
  <2> HIDE DEF k
  <2> QED BY <1>7, <2>1, <2>2
<1> HIDE DEF k, f
<1>9. Sitio(t)
  BY <1>1, <1>6, <1>7, <1>8
     DEF Sitio, Igual, Busqueda, Alta, Pasada, Recorriendo, SigueSuPagina
<1>10. CambiaSwap(t) /\ ~ ReservaMV(t)' /\ ~ ReservaMP(t)'
  BY <1>1, <1>4, <1>7, <1>8 DEF CambiaSwap, ConSwap, ReservaMV, ReservaMP
<1> QED BY <1>1, <1>2, <1>3, <1>4, <1>8, <1>9, <1>10, CargaPaso DEF f

(* Releasing a page's mutex changes no frame. *)
LEMMA SoltarPaginaSigue ==
  ASSUME Sigue, NEW t \in Hilos, SoltarPagina(t)
  PROVE  Sigue'
<1> DEFINE h == hilos[t]
<1>1. /\ TiposH /\ Lugar(t) /\ mem \in MemoriasH /\ hilos \in [Hilos -> Hilo]
      /\ h.pc = "SOLTAR_PAGINA" /\ h.op = "GUARDAR_PLATO" /\ Ir(t, "INFORMAR")
  BY Donde, OpDe DEF SoltarPagina, En
<1>2. Pagina(t) \in Paginas
  BY <1>1, PaginaDe DEF ConPlato
<1>3. MismosMarcos(mem, mem') /\ RestoBien /\ lock_swap' = lock_swap
  BY <1>1, <1>2, MismaMemoria DEF SoltarPagina, RestoBien, TiposH, tablas, consola
<1>4. "INFORMAR" \in PasosDe(h.op)
  BY <1>1 DEF PasosDe
<1>5. /\ hilos' \in [Hilos -> Hilo] /\ Igual(hilos'[t], h) /\ hilos'[t].pc = "INFORMAR"
      /\ \A u \in Hilos \ {t} : hilos'[u] = hilos[u]
  BY <1>1, <1>4, IrBien
<1>6. /\ CambiaSwap(t) /\ ~ ReservaMP(t)' /\ (SigueSuPagina(t)' => SigueSuPagina(t))
      /\ h.camino # "NINGUNO"
  BY <1>1, <1>3, <1>5
     DEF CambiaSwap, ConSwap, ReservaMP, SigueSuPagina, Igual, Busqueda, Alta, Lugar
<1> QED BY <1>3, <1>4, <1>5, <1>6, PasoIgual DEF Alta, Pasada, Recorriendo, Busqueda

(* What the swap that a handler runs does to the memory. *)
LEMMA IntercambioH ==
  ASSUME Sigue, NEW t \in Hilos, NEW p \in Paginas, tiene_pagina(mem, p),
         FalloDeSwap = "NO", Intercambiar(p), ~ ReservaMV(t)', ~ ReservaMP(t)'
  PROVE  /\ mem' \in MemoriasH /\ Len(mem'.lista) = Len(mem.lista) /\ Crecen
         /\ MarcosDePaginas(mem') /\ MarcosPropios(mem') /\ CambiaMarcos(t)
         /\ lock_pagina' \in [Paginas -> Hilos \cup {Nadie}]
<1> DEFINE v == Victima
<1>1. TiposH /\ mem \in MemoriasH
  BY Donde
<1>2. HayVictima(mem) /\ mem.paginas[v].frame_mp # -1
  BY DEF FalloDeSwap
<1>3. v \in Paginas /\ CambiaMarco(mem, mem', p, v)
  <2>1. mem' = swap(mem, p)
    BY DEF Intercambiar
  <2> QED BY <1>1, <1>2, <2>1, MarcosDeAntes, SwapH DEF Victima
<1>4. lock_pagina' = [lock_pagina EXCEPT ![v] = Nadie]
  BY DEF Intercambiar
<1> HIDE DEF v
<1>5. lock_pagina' \in [Paginas -> Hilos \cup {Nadie}]
  BY <1>1, <1>3, <1>4 DEF TiposH
<1>6. MarcosDePaginas(mem') /\ MarcosPropios(mem')
  BY <1>2, <1>3, MarcosDeAntes, CambiaMarcoBien
<1>7. Len(mem'.lista) = Len(mem.lista) /\ mem' \in MemoriasH /\ Crecen
  BY <1>3 DEF CambiaMarco, Crecen, tiene_pagina
<1>8. CambiaMarcos(t)
  <2>1. \A q \in Paginas : /\ mem'.paginas[q].frame_mv = mem.paginas[q].frame_mv
                           /\ \/ mem'.paginas[q].frame_mp = -1
                              \/ \E r \in Paginas : mem'.paginas[q].frame_mp = mem.paginas[r].frame_mp
    BY <1>3 DEF CambiaMarco
  <2>2. mem'.bitmap_mv = mem.bitmap_mv /\ mem'.bitmap_mp = mem.bitmap_mp
    BY <1>3 DEF CambiaMarco
  <2> QED BY <2>1, <2>2 DEF CambiaMarcos
<1> QED BY <1>5, <1>6, <1>7, <1>8

(* guardar_plato swaps with lock_swap held, and releases it. *)
LEMMA SwapDePlatoSigue ==
  ASSUME Sigue, NEW t \in Hilos, SwapDePlato(t)
  PROVE  Sigue' \/ Falla(t)
<1> DEFINE h == hilos[t]
           p == Pagina(t)
<1>1. /\ TiposH /\ Lugar(t) /\ Vivas(t) /\ mem \in MemoriasH /\ hilos \in [Hilos -> Hilo]
      /\ h \in Hilo /\ h.pc = "SWAP" /\ h.op = "GUARDAR_PLATO" /\ h.camino # "NINGUNO"
      /\ ~ h.colgado
  BY Donde, OpDe DEF SwapDePlato, En, Lugar, UsaLiberado, SinPunteros, Hilo, Busqueda
<1>2. p \in Paginas /\ tiene_pagina(mem, p)
  BY <1>1, PaginaDe DEF Vivas, SigueSuPagina, Alta
<1>3. CASE FalloDeSwap # "NO"
  BY <1>3 DEF SwapDePlato, Falla
<1>4. CASE FalloDeSwap = "NO"
  <2>1. /\ Intercambiar(p) /\ lock_swap' = Nadie
        /\ Recorrer(t, "UNLOCKEAR") \/ Ir(t, "LEER_TOTAL")
        /\ UNCHANGED <<tablas, consola, fallo>>
    BY <1>4 DEF SwapDePlato
  <2>2. /\ hilos' \in [Hilos -> Hilo] /\ Igual(hilos'[t], h)
        /\ \A u \in Hilos \ {t} : hilos'[u] = hilos[u]
        /\ hilos'[t].pc \in PasosDe(h.op) /\ hilos'[t].pc \in {"UNLOCKEAR", "LEER_TOTAL"}
        /\ hilos'[t].pc = "UNLOCKEAR" => hilos'[t].cursor \in -1 .. Len(mem.lista)
    <3>1. {"UNLOCKEAR", "LEER_TOTAL"} \subseteq PasosDe(h.op)
      BY <1>1 DEF PasosDe
    <3>2. CASE Recorrer(t, "UNLOCKEAR")
      BY <1>1, <3>1, <3>2, RecorrerBien
    <3>3. CASE Ir(t, "LEER_TOTAL")
      BY <1>1, <3>1, <3>3, IrBien
    <3> QED BY <2>1, <3>2, <3>3
  <2>3. CambiaSwap(t) /\ ~ ReservaMV(t)' /\ ~ ReservaMP(t)'
    BY <1>1, <2>1, <2>2 DEF CambiaSwap, ConSwap, ReservaMV, ReservaMP, Igual
  <2>4. /\ mem' \in MemoriasH /\ Len(mem'.lista) = Len(mem.lista) /\ Crecen
        /\ MarcosDePaginas(mem') /\ MarcosPropios(mem') /\ CambiaMarcos(t)
        /\ lock_pagina' \in [Paginas -> Hilos \cup {Nadie}]
    BY <1>2, <1>4, <2>1, <2>3, IntercambioH
  <2>5. Sitio(t)
    BY <1>1, <2>2, <2>4
       DEF Sitio, Igual, Busqueda, Alta, Pasada, Recorriendo, SigueSuPagina
  <2>6. TiposH'
    BY <1>1, <2>1, <2>2, <2>4 DEF TiposH, tablas, consola
  <2> QED BY <1>1, <2>2, <2>3, <2>4, <2>5, <2>6, PasoSolo
<1> QED BY <1>3, <1>4

(* What a page with a frame holds. *)
LEMMA ContenidoBien ==
  ASSUME NEW m \in MemoriasH, NEW p \in Paginas, m.paginas[p].frame_mp # -1
  PROVE  /\ m.paginas[p].frame_mp \in FramesMP
         /\ ContenidoMP(m, p) \in Contenido /\ ContenidoMP(m, p) = m.mp[m.paginas[p].frame_mp]
         /\ ContenidoMP(m, p).cantidad_total \in Int /\ ContenidoMP(m, p).cantidad_lista \in Int
<1>1. m.paginas[p].frame_mp \in FramesMP
  BY DEF MemoriasH, Info, InfoPagina
<1>2. ContenidoMP(m, p) \in Contenido
  BY <1>1 DEF ContenidoMP, MemoriasH
<1> QED BY <1>1, <1>2, ModuloAssumption DEF ContenidoMP, Contenido

(* Reading a quantity changes nothing the others see. *)
LEMMA LeerTotalSigue ==
  ASSUME Sigue, NEW t \in Hilos, LeerTotal(t)
  PROVE  Sigue' \/ Falla(t)
<1> DEFINE h == hilos[t]
           f == mem.paginas[Pagina(t)].frame_mp
           dato == [frame |-> f, valor |-> mem.mp[f].cantidad_total]
           k == [h EXCEPT !.pc = "ESCRIBIR_TOTAL", !.dato = dato]
<1>1. /\ TiposH /\ Lugar(t) /\ mem \in MemoriasH /\ hilos \in [Hilos -> Hilo] /\ h \in Hilo
      /\ h.pc = "LEER_TOTAL" /\ h.op = "GUARDAR_PLATO" /\ h.camino # "NINGUNO"
  BY Donde, OpDe DEF LeerTotal, En, Lugar, Busqueda
<1>2. Pagina(t) \in Paginas
  BY <1>1, PaginaDe DEF ConPlato
<1>3. CASE f = -1
  BY <1>3 DEF LeerTotal, Falla
<1>4. CASE f # -1
  <2>1. MismosMarcos(mem, mem') /\ RestoBien /\ lock_swap' = lock_swap
    BY <1>1, <1>4, MismaMemoria DEF LeerTotal, RestoBien, TiposH, tablas, candados, consola
  <2>2. dato \in [frame : Int, valor : Int]
    <3>1. f \in Int /\ mem.mp[f].cantidad_total \in Int
      BY <1>1, <1>2, <1>4, ContenidoBien DEF FramesMP
    <3> QED BY <3>1
  <2>3. hilos' = [hilos EXCEPT ![t] = k]
    BY <1>4 DEF LeerTotal
  <2> HIDE DEF dato
  <2>4. "ESCRIBIR_TOTAL" \in PasosDe(h.op) /\ "ESCRIBIR_TOTAL" \in Pasos
    <3>1. "ESCRIBIR_TOTAL" \in PasosDe(h.op)
      BY <1>1 DEF PasosDe
    <3> QED BY <3>1, Donde, PasoEnPasos
  <2>5. /\ k \in Hilo /\ k.pc = "ESCRIBIR_TOTAL" /\ k.camino = h.camino
        /\ k.op = h.op /\ k.pedido = h.pedido /\ k.plato = h.plato /\ k.colgado = h.colgado
    <3> HIDE DEF h
    <3> QED BY <1>1, <2>2, <2>4 DEF Hilo
  <2> HIDE DEF k
  <2>6. /\ hilos' \in [Hilos -> Hilo] /\ hilos'[t] = k
        /\ \A u \in Hilos \ {t} : hilos'[u] = hilos[u]
    BY <1>1, <2>3, <2>5, CambiaHilo
  <2>7. Sitio(t)
    BY <1>1, <2>4, <2>5, <2>6 DEF Sitio, Busqueda, Alta, Pasada, Recorriendo, SigueSuPagina
  <2>8. CambiaSwap(t) /\ ~ ReservaMV(t)' /\ ~ ReservaMP(t)'
    BY <1>1, <2>1, <2>5, <2>6 DEF CambiaSwap, ConSwap, ReservaMV, ReservaMP
  <2> QED BY <1>1, <2>1, <2>6, <2>7, <2>8, PasoSitio
<1> QED BY <1>3, <1>4

(* Writing it goes to the frame the page has, whosoever that was before. *)
LEMMA EscribirTotalSigue ==
  ASSUME Sigue, NEW t \in Hilos, EscribirTotal(t)
  PROVE  Sigue' \/ Falla(t)
<1> DEFINE h == hilos[t]
           p == Pagina(t)
           f == mem.paginas[p].frame_mp
           total == (h.dato.valor + h.cantidad) % Modulo
           c == [mem.mp EXCEPT ![f].cantidad_total = total]
<1>1. /\ TiposH /\ Lugar(t) /\ mem \in MemoriasH /\ hilos \in [Hilos -> Hilo] /\ h \in Hilo
      /\ h.pc = "ESCRIBIR_TOTAL" /\ h.op = "GUARDAR_PLATO" /\ h.camino # "NINGUNO"
  BY Donde, OpDe DEF EscribirTotal, En, Lugar, Busqueda
<1>2. p \in Paginas
  BY <1>1, PaginaDe DEF ConPlato
<1>3. CASE f = -1
  BY <1>3 DEF EscribirTotal, Falla
<1>4. CASE f # -1
  <2>1. /\ RestoBien /\ lock_swap' = lock_swap
        /\ mem' = agregar_a_lista_de_swapeo(
                    pagina_modificada([mem EXCEPT !.mp = c], p), p, "REFERENCIA")
        /\ Ir(t, "SOLTAR_PAGINA") \/ Recorrer(t, "UNLOCKEAR")
    BY <1>1, <1>4 DEF EscribirTotal, RestoBien, TiposH, tablas, candados, consola
  <2>2. c \in [FramesMP -> Contenido]
    <3>1. total \in 0 .. Modulo - 1
      <4>1. h.dato.valor \in Int /\ h.cantidad \in Int
        BY <1>1 DEF Hilo
      <4> QED BY <4>1, ModuloAssumption
    <3>2. f \in FramesMP /\ mem.mp[f] \in Contenido /\ mem.mp \in [FramesMP -> Contenido]
      BY <1>1, <1>2, <1>4, ContenidoBien DEF MemoriasH
    <3>3. [mem.mp[f] EXCEPT !.cantidad_total = total] \in Contenido
      <4> HIDE DEF total, f
      <4> QED BY <3>1, <3>2 DEF Contenido
    <3>4. c = [mem.mp EXCEPT ![f] = [mem.mp[f] EXCEPT !.cantidad_total = total]]
      BY <3>2
    <3> QED BY <3>2, <3>3, <3>4
  <2> HIDE DEF c
  <2>3. MismosMarcos(mem, mem')
    BY <1>1, <1>2, <2>1, <2>2, EscribirH
  <2>4. /\ hilos' \in [Hilos -> Hilo] /\ Igual(hilos'[t], h)
        /\ \A u \in Hilos \ {t} : hilos'[u] = hilos[u]
        /\ hilos'[t].pc \in PasosDe(h.op) /\ hilos'[t].pc \in {"UNLOCKEAR", "SOLTAR_PAGINA"}
        /\ hilos'[t].pc = "UNLOCKEAR" => hilos'[t].cursor \in -1 .. Len(mem.lista)
    <3>1. {"UNLOCKEAR", "SOLTAR_PAGINA"} \subseteq PasosDe(h.op)
      BY <1>1 DEF PasosDe
    <3>2. CASE Recorrer(t, "UNLOCKEAR")
      BY <1>1, <3>1, <3>2, RecorrerBien
    <3>3. CASE Ir(t, "SOLTAR_PAGINA")
      BY <1>1, <3>1, <3>3, IrBien
    <3> QED BY <2>1, <3>2, <3>3
  <2>5. CambiaSwap(t) /\ ~ ReservaMV(t)' /\ ~ ReservaMP(t)'
    BY <1>1, <2>1, <2>4 DEF CambiaSwap, ConSwap, ReservaMV, ReservaMP, Igual
  <2>6. Sitio(t)
    BY <1>1, <2>3, <2>4
       DEF Sitio, Igual, Busqueda, Alta, Pasada, Recorriendo, SigueSuPagina, MismosMarcos
  <2> QED BY <1>1, <2>1, <2>3, <2>4, <2>5, <2>6, PasoSitio
<1> QED BY <1>3, <1>4

(* What the answers add up to stays a quantity. *)
LEMMA SumarHecho ==
  ASSUME TiposH, NEW p \in Paginas, NEW n \in Int
  PROVE  /\ [hecho EXCEPT ![p].cantidad_total = (@ + n) % Modulo] \in [Paginas -> Contenido]
         /\ [hecho EXCEPT ![p].cantidad_lista = (@ + 1) % Modulo] \in [Paginas -> Contenido]
<1> DEFINE c == hecho[p]
           x == (c.cantidad_total + n) % Modulo
           y == (c.cantidad_lista + 1) % Modulo
<1>1. hecho \in [Paginas -> Contenido] /\ c \in Contenido
  BY DEF TiposH
<1>2. x \in 0 .. Modulo - 1 /\ y \in 0 .. Modulo - 1
  BY <1>1, ModuloAssumption DEF Contenido
<1>3. /\ [c EXCEPT !.cantidad_total = x] \in Contenido
      /\ [c EXCEPT !.cantidad_lista = y] \in Contenido
  <2> HIDE DEF c, x, y
  <2> QED BY <1>1, <1>2 DEF Contenido
<1> QED BY <1>1, <1>3

(* The answer of guardar_plato. *)
LEMMA InformarSigue ==
  ASSUME Sigue, NEW t \in Hilos, Informar(t)
  PROVE  Sigue' \/ Falla(t)
<1> DEFINE h == [hecho EXCEPT ![Pagina(t)].cantidad_total = (@ + hilos[t].cantidad) % Modulo]
<1>0. CASE Fallar(t, "REGISTRO")
  BY <1>0 DEF Falla
<1>a. CASE hecho' = h /\ Responder(t, "OK") /\ UNCHANGED <<tablas, mem, candados, fallo>>
  <2>1. /\ TiposH /\ Lugar(t) /\ mem \in MemoriasH /\ hilos[t] \in Hilo
        /\ hilos[t].pc = "INFORMAR" /\ hilos[t].op = "GUARDAR_PLATO"
    BY Donde, OpDe DEF Informar, En
  <2>2. hecho' \in [Paginas -> Contenido]
    <3>1. Pagina(t) \in Paginas /\ hilos[t].cantidad \in Int
      BY <2>1, PaginaDe DEF ConPlato, Hilo
    <3> QED BY <1>a, <2>1, <3>1, SumarHecho
  <2>3. MismosMarcos(mem, mem') /\ RestoBien /\ lock_swap' = lock_swap
    BY <1>a, <2>1, <2>2, MismaMemoria DEF RestoBien, TiposH, tablas, candados
  <2>4. ~ ConSwap(t)
    BY <2>1 DEF ConSwap
  <2> QED BY <1>a, <2>3, <2>4, PasoResponde DEF Responder
<1> QED BY <1>0, <1>a DEF Informar

-----------------------------------------------------------------------------
(* obtener_pedido and plato_listo.                                         *)

(* Pinning the pages of an order moves none. *)
LEMMA FijarSigue ==
  ASSUME Sigue, NEW t \in Hilos, Fijar(t)
  PROVE  Sigue'
<1> DEFINE h == hilos[t]
           s == PlatosDelPedido(t)
           k == [h EXCEPT !.pc = "LEVANTAR", !.pendientes = s]
<1>1. /\ TiposH /\ Lugar(t) /\ mem \in MemoriasH /\ hilos \in [Hilos -> Hilo] /\ h \in Hilo
      /\ h.pc = "FIJAR" /\ h.op \in {"OBTENER_PEDIDO", "PLATO_LISTO"}
  BY Donde, OpDe DEF Fijar, En
<1>2. RestoBien /\ lock_swap' = lock_swap /\ MismosMarcos(mem, mem')
  BY <1>1, LockeoH DEF Fijar, RestoBien, TiposH, tablas, candados, consola
<1>3. hilos' = [hilos EXCEPT ![t] = k]
  BY DEF Fijar
<1>4. "LEVANTAR" \in PasosDe(h.op) /\ "LEVANTAR" \in Pasos
  <2>1. "LEVANTAR" \in PasosDe(h.op)
    BY <1>1 DEF PasosDe
  <2> QED BY <2>1, Donde, PasoEnPasos
<1>5. s \in SUBSET Platos
  BY DEF PlatosDelPedido, tabla_de_platos
<1>6. /\ k \in Hilo /\ k.pc = "LEVANTAR" /\ k.camino = h.camino /\ k.pendientes = s
      /\ k.op = h.op /\ k.pedido = h.pedido /\ k.plato = h.plato /\ k.colgado = h.colgado
  <2> HIDE DEF h, s
  <2> QED BY <1>1, <1>4, <1>5 DEF Hilo
<1> HIDE DEF k
<1>7. /\ hilos' \in [Hilos -> Hilo] /\ hilos'[t] = k
      /\ \A u \in Hilos \ {t} : hilos'[u] = hilos[u]
  BY <1>1, <1>3, <1>6, CambiaHilo
<1>8. Sitio(t)
  BY <1>1, <1>4, <1>6, <1>7 DEF Sitio, Lugar, Busqueda, Alta, Recorriendo, SigueSuPagina
<1>9. CambiaSwap(t) /\ ~ ReservaMV(t)' /\ ~ ReservaMP(t)'
  BY <1>1, <1>2, <1>6, <1>7 DEF CambiaSwap, ConSwap, ReservaMV, ReservaMP
<1> QED BY <1>1, <1>2, <1>7, <1>8, <1>9, PasoSitio

(* Raising a dish loads it into a frame nobody reserved, or swaps. *)
LEMMA LevantarSigue ==
  ASSUME Sigue, NEW t \in Hilos, Levantar(t)
  PROVE  Sigue' \/ Falla(t)
<1> DEFINE h == hilos[t]
           f == obtener_frame_libre(mem.bitmap_mp)
<1>1. /\ TiposH /\ Lugar(t) /\ Vivas(t) /\ mem \in MemoriasH /\ hilos \in [Hilos -> Hilo]
      /\ h \in Hilo /\ h.pc = "LEVANTAR" /\ h.op \in {"OBTENER_PEDIDO", "PLATO_LISTO"}
  BY Donde, OpDe DEF Levantar, En
<1>2. PICK d \in h.pendientes :
        LET p == <<h.pedido, d>>
        IN  IF mem.paginas[p].presencia
            THEN /\ mem' = [mem EXCEPT !.paginas[p].uso = TRUE]
                 /\ hilos' = Visitado(t, d)
                 /\ UNCHANGED <<tablas, candados, consola, fallo>>
            ELSE IF f >= 0
            THEN /\ mem' = cargar_en_frame(mem, p, f)
                 /\ hilos' = SinNodo(Visitado(t, d), p)
                 /\ UNCHANGED <<tablas, candados, consola, fallo>>
            ELSE IF FalloDeSwap # "NO" THEN Fallar(t, FalloDeSwap)
            ELSE /\ Intercambiar(p)
                 /\ hilos' = [Visitado(t, d) EXCEPT ![t].pc = "LOCKEAR_LEVANTADA",
                                                    ![t].espera = p]
                 /\ UNCHANGED <<tablas, lock_swap, consola, fallo>>
  BY DEF Levantar
<1> DEFINE p == <<h.pedido, d>>
           s == h.pendientes \ {d}
           j == [h EXCEPT !.pendientes = s]
           k == [h EXCEPT !.pendientes = s, !.pc = "LOCKEAR_LEVANTADA", !.espera = p]
<1>3. p \in Paginas /\ tiene_pagina(mem, p) /\ s \subseteq PlatosDelPedido(t)
      /\ s \in SUBSET Platos
  <2>1. h.pendientes \subseteq PlatosDelPedido(t)
    BY <1>1 DEF Vivas, Pasada
  <2>2. d \in Platos /\ tiene_pagina(mem, p) /\ PlatosDelPedido(t) \subseteq Platos
    BY <2>1 DEF PlatosDelPedido, tabla_de_platos
  <2>3. p \in Paginas
    BY <1>1, <2>2, PedidoDe
  <2> QED BY <2>1, <2>2, <2>3
<1>4. Visitado(t, d) = [hilos EXCEPT ![t] = j]
  BY DEF Visitado
<1>5. /\ j \in Hilo /\ j.pc = h.pc /\ j.camino = h.camino /\ j.pendientes = s /\ j.dato = h.dato
      /\ j.op = h.op /\ j.pedido = h.pedido /\ j.plato = h.plato /\ j.colgado = h.colgado
  <2> HIDE DEF h, s
  <2> QED BY <1>1, <1>3 DEF Hilo
<1> HIDE DEF j
<1>6. CASE mem.paginas[p].presencia
  <2>1. /\ hilos' = [hilos EXCEPT ![t] = j] /\ mem' = [mem EXCEPT !.paginas[p].uso = TRUE]
        /\ UNCHANGED <<tablas, candados, consola>>
    BY <1>2, <1>4, <1>6
  <2>2. MismosMarcos(mem, mem') /\ RestoBien /\ lock_swap' = lock_swap
    BY <1>1, <1>3, <2>1, UsoH, RestoIgual
  <2>3. /\ hilos' \in [Hilos -> Hilo] /\ hilos'[t] = j
        /\ \A u \in Hilos \ {t} : hilos'[u] = hilos[u]
    BY <1>1, <2>1, <1>5, CambiaHilo
  <2>4. Sitio(t)
    BY <1>1, <1>3, <1>5, <2>3, Donde
       DEF Sitio, Lugar, Busqueda, Alta, Recorriendo, SigueSuPagina
  <2>5. CambiaSwap(t) /\ ~ ReservaMV(t)' /\ ~ ReservaMP(t)'
    BY <1>1, <1>5, <2>2, <2>3 DEF CambiaSwap, ConSwap, ReservaMV, ReservaMP
  <2> QED BY <1>1, <2>2, <2>3, <2>4, <2>5, PasoSitio
<1>7. CASE ~ mem.paginas[p].presencia /\ f >= 0
  <2>1. /\ hilos' = SinNodo(Visitado(t, d), p) /\ mem' = cargar_en_frame(mem, p, f)
        /\ UNCHANGED <<tablas, candados, consola>>
    BY <1>2, <1>7
  <2>2. RestoBien /\ lock_swap' = lock_swap
    BY <1>1, <2>1, RestoIgual
  <2>3. f \in FramesMP /\ ~ mem.bitmap_mp[f] /\ \A q \in Paginas : mem.paginas[q].frame_mp # f
    <3>1. f \in FramesMP /\ ~ mem.bitmap_mp[f] /\ f # -1
      <4>1. f \in Int /\ (f < 0 \/ (f \in FramesMP /\ ~ mem.bitmap_mp[f]))
        BY <1>1, LibreMP
      <4> HIDE DEF f
      <4> QED BY <4>1, <1>7
    <3> HIDE DEF f
    <3> QED BY <3>1, MarcosDeAntes DEF MarcosDePaginas
  <2> HIDE DEF f
  <2>4. /\ hilos' \in [Hilos -> Hilo] /\ hilos'[t] = j
        /\ \A u \in Hilos \ {t} : hilos'[u] = SinNodo(hilos, p)[u]
    <3>1. Visitado(t, d) \in [Hilos -> Hilo] /\ Visitado(t, d)[t] = j
      BY <1>1, <1>4, <1>5
    <3>2. \A u \in Hilos \ {t} : Visitado(t, d)[u] = hilos[u]
      BY <1>1, <1>4, <1>5
    <3>3. SinNodo(Visitado(t, d), p)[t] = j
      BY <3>1, <1>1, <1>5, Zenon DEF SinNodo, Recorriendo
    <3>4. \A u \in Hilos \ {t} : SinNodo(Visitado(t, d), p)[u] = SinNodo(hilos, p)[u]
      BY <3>2, Zenon DEF SinNodo
    <3>5. \A u \in Hilos \ {t} : SinNodo(hilos, p)[u] \in Hilo
      <4>1. Len(SacarDeLista(mem, p)) \in Nat
        BY <1>1, <1>3, SacarH, LenProperties
      <4> QED BY <1>1, <1>3, <4>1, SinNodoBien DEF Sigue, Lugar
    <3>6. DOMAIN SinNodo(Visitado(t, d), p) = Hilos
      BY SinNodoFuncion
    <3>7. SinNodo(Visitado(t, d), p) = [u \in Hilos |-> SinNodo(Visitado(t, d), p)[u]]
      BY DEF SinNodo
    <3> QED BY <1>5, <2>1, <3>3, <3>4, <3>5, <3>7
  <2>5. Sitio(t)
    BY <1>1, <1>3, <1>5, <2>4, Donde
       DEF Sitio, Lugar, Busqueda, Alta, Recorriendo, SigueSuPagina
  <2>6. CambiaSwap(t) /\ ~ ReservaMV(t)' /\ ~ ReservaMP(t)'
    BY <1>1, <1>5, <2>2, <2>4 DEF CambiaSwap, ConSwap, ReservaMV, ReservaMP
  <2> QED BY <1>1, <1>3, <2>1, <2>2, <2>3, <2>4, <2>5, <2>6, CargaPaso
<1>8. CASE ~ mem.paginas[p].presencia /\ ~ (f >= 0) /\ FalloDeSwap # "NO"
  BY <1>2, <1>8 DEF Falla
<1>9. CASE ~ mem.paginas[p].presencia /\ ~ (f >= 0) /\ FalloDeSwap = "NO"
  <2>1. /\ Intercambiar(p) /\ UNCHANGED <<tablas, lock_swap, consola>>
        /\ hilos' = [Visitado(t, d) EXCEPT ![t].pc = "LOCKEAR_LEVANTADA", ![t].espera = p]
    BY <1>2, <1>9
  <2>2. hilos' = [hilos EXCEPT ![t] = k]
    BY <2>1 DEF Visitado
  <2>3. "LOCKEAR_LEVANTADA" \in PasosDe(h.op) /\ "LOCKEAR_LEVANTADA" \in Pasos
    <3>1. "LOCKEAR_LEVANTADA" \in PasosDe(h.op)
      BY <1>1 DEF PasosDe
    <3> QED BY <3>1, Donde, PasoEnPasos
  <2>4. /\ k \in Hilo /\ k.pc = "LOCKEAR_LEVANTADA" /\ k.camino = h.camino /\ k.pendientes = s
        /\ k.espera = p
        /\ k.op = h.op /\ k.pedido = h.pedido /\ k.plato = h.plato /\ k.colgado = h.colgado
    <3> HIDE DEF h, s, p
    <3> QED BY <1>1, <1>3, <2>3 DEF Hilo
  <2> HIDE DEF k
  <2>5. /\ hilos' \in [Hilos -> Hilo] /\ hilos'[t] = k
        /\ \A u \in Hilos \ {t} : hilos'[u] = hilos[u]
    BY <1>1, <2>2, <2>4, CambiaHilo
  <2>6. CambiaSwap(t) /\ ~ ReservaMV(t)' /\ ~ ReservaMP(t)'
    BY <1>1, <2>1, <2>4, <2>5 DEF CambiaSwap, ConSwap, ReservaMV, ReservaMP
  <2>7. /\ mem' \in MemoriasH /\ Len(mem'.lista) = Len(mem.lista) /\ Crecen
        /\ MarcosDePaginas(mem') /\ MarcosPropios(mem') /\ CambiaMarcos(t)
        /\ lock_pagina' \in [Paginas -> Hilos \cup {Nadie}]
    BY <1>3, <1>9, <2>1, <2>6, IntercambioH
  <2>8. Sitio(t)
    BY <1>1, <1>3, <2>3, <2>4, <2>5
       DEF Sitio, Lugar, Busqueda, Alta, Recorriendo, SigueSuPagina
  <2>9. TiposH'
    BY <1>1, <2>1, <2>5, <2>7 DEF TiposH, tablas, consola
  <2> QED BY <1>1, <2>5, <2>6, <2>7, <2>8, <2>9, PasoSolo
<1> QED BY <1>6, <1>7, <1>8, <1>9

(* Nor does locking one that was raised. *)
LEMMA LockearLevantadaSigue ==
  ASSUME Sigue, NEW t \in Hilos, LockearLevantada(t)
  PROVE  Sigue'
<1> DEFINE h == hilos[t]
           k == [h EXCEPT !.pc = "LEVANTAR", !.espera = NingunaPagina]
<1>1. /\ TiposH /\ Lugar(t) /\ Vivas(t) /\ mem \in MemoriasH /\ hilos \in [Hilos -> Hilo]
      /\ h \in Hilo /\ h.pc = "LOCKEAR_LEVANTADA" /\ h.op \in {"OBTENER_PEDIDO", "PLATO_LISTO"}
  BY Donde, OpDe DEF LockearLevantada, En
<1>2. h.espera \in Paginas /\ h.pendientes \subseteq PlatosDelPedido(t)
  BY <1>1 DEF Lugar, Vivas, Pasada
<1>3. MismosMarcos(mem, mem') /\ RestoBien /\ lock_swap' = lock_swap
  BY <1>1, <1>2, MismaMemoria DEF LockearLevantada, RestoBien, TiposH, tablas, consola
<1>4. hilos' = [hilos EXCEPT ![t] = k]
  BY DEF LockearLevantada
<1>5. "LEVANTAR" \in PasosDe(h.op) /\ "LEVANTAR" \in Pasos
  <2>1. "LEVANTAR" \in PasosDe(h.op)
    BY <1>1 DEF PasosDe
  <2> QED BY <2>1, Donde, PasoEnPasos
<1>6. /\ k \in Hilo /\ k.pc = "LEVANTAR" /\ k.pendientes = h.pendientes
      /\ k.op = h.op /\ k.pedido = h.pedido /\ k.plato = h.plato /\ k.colgado = h.colgado
      /\ k.camino = h.camino
  <2> HIDE DEF h
  <2> QED BY <1>1, <1>5 DEF Hilo
<1> HIDE DEF k
<1>7. /\ hilos' \in [Hilos -> Hilo] /\ hilos'[t] = k
      /\ \A u \in Hilos \ {t} : hilos'[u] = hilos[u]
  BY <1>1, <1>4, <1>6, CambiaHilo
<1>8. Sitio(t)
  BY <1>1, <1>2, <1>3, <1>5, <1>6, <1>7
     DEF Sitio, Lugar, Busqueda, Alta, Recorriendo, SigueSuPagina
<1>9. CambiaSwap(t) /\ ~ ReservaMP(t)' /\ ~ ReservaMV(t)'
  BY <1>1, <1>3, <1>6, <1>7 DEF CambiaSwap, ConSwap, ReservaMP, ReservaMV
<1> QED BY <1>1, <1>3, <1>7, <1>8, <1>9, PasoSitio

(* The pages of the order are visited again from the first. *)
LEMMA LevantadasSigue ==
  ASSUME Sigue, NEW t \in Hilos, Levantadas(t)
  PROVE  Sigue'
<1> DEFINE h == hilos[t]
           s == PlatosDelPedido(t)
           pc == IF h.op = "OBTENER_PEDIDO" THEN "ENLISTAR" ELSE "SUMAR_LISTA"
           k == [h EXCEPT !.pendientes = s, !.pc = pc]
<1>1. /\ TiposH /\ Lugar(t) /\ mem \in MemoriasH /\ hilos \in [Hilos -> Hilo] /\ h \in Hilo
      /\ h.pc = "LEVANTAR" /\ h.op \in {"OBTENER_PEDIDO", "PLATO_LISTO"}
  BY Donde, OpDe DEF Levantadas, En
<1>2. RestoBien /\ lock_swap' = lock_swap /\ MismosMarcos(mem, mem')
  BY <1>1, MismaMemoria DEF Levantadas, RestoBien, TiposH, tablas, candados, consola
<1>3. hilos' = [hilos EXCEPT ![t] = k]
  BY DEF Levantadas
<1>4. pc \in PasosDe(h.op) /\ pc \in Pasos
  <2>1. pc \in PasosDe(h.op)
    BY <1>1 DEF PasosDe
  <2> QED BY <2>1, Donde, PasoEnPasos
<1>5. s \in SUBSET Platos
  BY DEF PlatosDelPedido, tabla_de_platos
<1>6. /\ k \in Hilo /\ k.pc = pc /\ k.camino = h.camino /\ k.pendientes = s
      /\ k.op = h.op /\ k.pedido = h.pedido /\ k.plato = h.plato /\ k.colgado = h.colgado
  <2> HIDE DEF h, s, pc
  <2> QED BY <1>1, <1>4, <1>5 DEF Hilo
<1> HIDE DEF k
<1>7. /\ hilos' \in [Hilos -> Hilo] /\ hilos'[t] = k
      /\ \A u \in Hilos \ {t} : hilos'[u] = hilos[u]
  BY <1>1, <1>3, <1>6, CambiaHilo
<1>8. Sitio(t)
  BY <1>1, <1>4, <1>6, <1>7 DEF Sitio, Lugar, Busqueda, Alta, Recorriendo, SigueSuPagina
<1>9. CambiaSwap(t) /\ ~ ReservaMV(t)' /\ ~ ReservaMP(t)'
  BY <1>1, <1>2, <1>6, <1>7 DEF CambiaSwap, ConSwap, ReservaMV, ReservaMP
<1> QED BY <1>1, <1>2, <1>7, <1>8, <1>9, PasoSitio

(* Listing a dish reads the frame of its page. *)
LEMMA EnlistarSigue ==
  ASSUME Sigue, NEW t \in Hilos, Enlistar(t)
  PROVE  Sigue' \/ Falla(t)
<1> DEFINE h == hilos[t]
<1>1. /\ TiposH /\ Lugar(t) /\ Vivas(t) /\ mem \in MemoriasH /\ hilos \in [Hilos -> Hilo]
      /\ h \in Hilo /\ h.pc = "ENLISTAR" /\ h.op = "OBTENER_PEDIDO"
  BY Donde, OpDe DEF Enlistar, En
<1>2. PICK d \in h.pendientes :
        LET p == <<h.pedido, d>>
        IN  IF mem.paginas[p].frame_mp = -1 THEN Fallar(t, "FUERA")
            ELSE /\ mem' = paginas_leidas(mem, {p})
                 /\ hilos' = [Visitado(t, d) EXCEPT ![t].leido = @ \cup {<<d, ContenidoMP(mem, p)>>}]
                 /\ UNCHANGED <<tablas, candados, consola, fallo>>
  BY DEF Enlistar
<1> DEFINE p == <<h.pedido, d>>
           s == h.pendientes \ {d}
           l == h.leido \cup {<<d, ContenidoMP(mem, p)>>}
           k == [h EXCEPT !.pendientes = s, !.leido = l]
<1>3. /\ d \in Platos /\ p \in Paginas
      /\ s \subseteq PlatosDelPedido(t) /\ s \in SUBSET Platos
  <2>1. h.pendientes \subseteq PlatosDelPedido(t) /\ PlatosDelPedido(t) \subseteq Platos
    BY <1>1 DEF Vivas, Pasada, PlatosDelPedido, tabla_de_platos
  <2>2. p \in Paginas
    BY <1>1, <2>1, PedidoDe
  <2> QED BY <2>1, <2>2
<1>4. CASE mem.paginas[p].frame_mp = -1
  BY <1>2, <1>4 DEF Falla
<1>5. CASE mem.paginas[p].frame_mp # -1
  <2>1. /\ mem' = paginas_leidas(mem, {p}) /\ UNCHANGED <<tablas, candados, consola>>
        /\ hilos' = [Visitado(t, d) EXCEPT ![t].leido = @ \cup {<<d, ContenidoMP(mem, p)>>}]
    BY <1>2, <1>5
  <2>2. hilos' = [hilos EXCEPT ![t] = k]
    BY <2>1 DEF Visitado
  <2>3. l \in SUBSET (Platos \X Contenido)
    <3>1. ContenidoMP(mem, p) \in Contenido
      BY <1>1, <1>3, <1>5, ContenidoBien
    <3> QED BY <1>1, <1>3, <3>1 DEF Hilo
  <2>4. /\ k \in Hilo /\ k.pc = h.pc /\ k.camino = h.camino /\ k.pendientes = s
        /\ k.op = h.op /\ k.pedido = h.pedido /\ k.plato = h.plato /\ k.colgado = h.colgado
    <3> HIDE DEF h, s, l
    <3> QED BY <1>1, <1>3, <2>3 DEF Hilo
  <2> HIDE DEF k
  <2>5. /\ hilos' \in [Hilos -> Hilo] /\ hilos'[t] = k
        /\ \A u \in Hilos \ {t} : hilos'[u] = hilos[u]
    BY <1>1, <2>2, <2>4, CambiaHilo
  <2>6. MismosMarcos(mem, mem') /\ RestoBien /\ lock_swap' = lock_swap
    BY <1>1, <2>1, LeidasH, RestoIgual
  <2>7. Sitio(t)
    BY <1>1, <1>3, <2>4, <2>5, Donde
       DEF Sitio, Lugar, Busqueda, Alta, Recorriendo, SigueSuPagina
  <2>8. CambiaSwap(t) /\ ~ ReservaMV(t)' /\ ~ ReservaMP(t)'
    BY <1>1, <2>4, <2>5, <2>6 DEF CambiaSwap, ConSwap, ReservaMV, ReservaMP
  <2> QED BY <1>1, <2>5, <2>6, <2>7, <2>8, PasoSitio
<1> QED BY <1>4, <1>5

(* The walk that unlocks the pages starts once the order is unpinned. *)
LEMMA DesfijadosSigue ==
  ASSUME Sigue, NEW t \in Hilos, hilos[t].op \in {"OBTENER_PEDIDO", "PLATO_LISTO"},
         hilos[t].pc \in {"ENLISTAR", "CONTAR"},
         mem' = Desfijar(mem, hilos[t].pedido), Recorrer(t, "UNLOCKEAR"),
         UNCHANGED <<tablas, lock_pagina, consola>>,
         lock_swap' = IF hilos[t].op = "PLATO_LISTO" THEN lock_swap ELSE Nadie
  PROVE  Sigue'
<1> DEFINE h == hilos[t]
<1>1. /\ TiposH /\ Lugar(t) /\ mem \in MemoriasH /\ hilos \in [Hilos -> Hilo]
  BY Donde
<1>2. RestoBien /\ MismosMarcos(mem, mem')
  BY <1>1, LockeoH DEF Desfijar, RestoBien, TiposH, tablas, consola
<1>3. "UNLOCKEAR" \in PasosDe(h.op)
  BY DEF PasosDe
<1>4. /\ hilos' \in [Hilos -> Hilo] /\ Igual(hilos'[t], h) /\ hilos'[t].pc = "UNLOCKEAR"
      /\ \A u \in Hilos \ {t} : hilos'[u] = hilos[u]
      /\ hilos'[t].cursor \in -1 .. Len(mem.lista)
  BY <1>1, <1>3, RecorrerBien
<1>5. CambiaSwap(t) /\ ~ ReservaMP(t)' /\ (SigueSuPagina(t)' => SigueSuPagina(t))
  BY <1>1, <1>4 DEF CambiaSwap, ConSwap, ReservaMP, SigueSuPagina, Igual, Busqueda, Alta
<1> QED BY <1>2, <1>3, <1>4, <1>5, PasoIgual DEF Alta, Pasada, Busqueda, MismosMarcos

(* obtener_pedido releases lock_swap before it walks the list. *)
LEMMA EnlistadosSigue ==
  ASSUME Sigue, NEW t \in Hilos, Enlistados(t)
  PROVE  Sigue'
<1>1. hilos[t].pc = "ENLISTAR" /\ hilos[t].op = "OBTENER_PEDIDO"
  BY Donde, OpDe DEF Enlistados, En
<1> QED BY <1>1, DesfijadosSigue DEF Enlistados

(* plato_listo walks the list with lock_swap held. *)
LEMMA ContadosSigue ==
  ASSUME Sigue, NEW t \in Hilos, Contados(t)
  PROVE  Sigue'
<1>1. hilos[t].pc = "CONTAR" /\ hilos[t].op = "PLATO_LISTO"
  BY Donde, OpDe DEF Contados, En
<1> QED BY <1>1, DesfijadosSigue DEF Contados, candados

(* The answer of obtener_pedido. *)
LEMMA LeerEstadoSigue ==
  ASSUME Sigue, NEW t \in Hilos, LeerEstado(t)
  PROVE  Sigue'
<1>1. TiposH /\ mem \in MemoriasH /\ hilos[t].pc = "LEER_ESTADO"
  BY Donde DEF LeerEstado, En
<1>2. MismosMarcos(mem, mem') /\ RestoBien /\ lock_swap' = lock_swap
  BY <1>1, MismaMemoria DEF LeerEstado, RestoBien, TiposH, tablas, candados
<1>3. ~ ConSwap(t)
  BY <1>1 DEF ConSwap
<1> QED BY <1>2, <1>3, PasoResponde DEF LeerEstado

(* One more dish prepared is written in the frame of its page. *)
LEMMA SumarListaSigue ==
  ASSUME Sigue, NEW t \in Hilos, SumarLista(t)
  PROVE  Sigue' \/ Falla(t)
<1> DEFINE h == hilos[t]
           p == Pagina(t)
           f == mem.paginas[p].frame_mp
           c == [mem.mp EXCEPT ![f].cantidad_lista = (@ + 1) % Modulo]
           dato == [h.dato EXCEPT !.valor = 0]
           k == [h EXCEPT !.pc = "CONTAR", !.dato = dato]
<1>1. /\ TiposH /\ Lugar(t) /\ Vivas(t) /\ mem \in MemoriasH /\ hilos \in [Hilos -> Hilo]
      /\ h \in Hilo /\ h.pc = "SUMAR_LISTA" /\ h.op = "PLATO_LISTO"
  BY Donde, OpDe DEF SumarLista, En
<1>2. p \in Paginas /\ h.pendientes \subseteq PlatosDelPedido(t)
  BY <1>1, PaginaDe DEF ConPlato, Vivas, Pasada
<1>3. CASE f = -1
  BY <1>3 DEF SumarLista, Falla
<1>4. CASE f # -1
  <2>1. /\ RestoBien /\ lock_swap' = lock_swap
        /\ mem' = agregar_a_lista_de_swapeo(
                    pagina_modificada([mem EXCEPT !.mp = c], p), p, "REFERENCIA")
        /\ hilos' = [hilos EXCEPT ![t].pc = "CONTAR", ![t].dato.valor = 0]
    BY <1>1, <1>4 DEF SumarLista, sumar_cantidad_lista, RestoBien, TiposH, tablas, candados, consola
  <2>2. c \in [FramesMP -> Contenido]
    <3>1. f \in FramesMP /\ mem.mp[f] \in Contenido /\ mem.mp \in [FramesMP -> Contenido]
          /\ mem.mp[f].cantidad_lista \in Int
      BY <1>1, <1>2, <1>4, ContenidoBien DEF MemoriasH
    <3> DEFINE y == (mem.mp[f].cantidad_lista + 1) % Modulo
    <3>2. y \in 0 .. Modulo - 1
      BY <3>1, ModuloAssumption
    <3>3. [mem.mp[f] EXCEPT !.cantidad_lista = y] \in Contenido
      <4> HIDE DEF y, f
      <4> QED BY <3>1, <3>2 DEF Contenido
    <3>4. c = [mem.mp EXCEPT ![f] = [mem.mp[f] EXCEPT !.cantidad_lista = y]]
      BY <3>1
    <3> QED BY <3>1, <3>3, <3>4
  <2> HIDE DEF c
  <2>3. MismosMarcos(mem, mem')
    BY <1>1, <1>2, <2>1, <2>2, EscribirH
  <2>4. hilos' = [hilos EXCEPT ![t] = k]
    BY <2>1
  <2>5. dato \in [frame : Int, valor : Int]
    <3>1. h.dato \in [frame : Int, valor : Int]
      BY <1>1 DEF Hilo
    <3> QED BY <3>1
  <2>6. "CONTAR" \in PasosDe(h.op) /\ "CONTAR" \in Pasos
    <3>1. "CONTAR" \in PasosDe(h.op)
      BY <1>1 DEF PasosDe
    <3> QED BY <3>1, Donde, PasoEnPasos
  <2>7. /\ k \in Hilo /\ k.pc = "CONTAR" /\ k.camino = h.camino /\ k.pendientes = h.pendientes
        /\ k.op = h.op /\ k.pedido = h.pedido /\ k.plato = h.plato /\ k.colgado = h.colgado
    <3> HIDE DEF h, dato
    <3> QED BY <1>1, <2>5, <2>6 DEF Hilo
  <2> HIDE DEF k
  <2>8. /\ hilos' \in [Hilos -> Hilo] /\ hilos'[t] = k
        /\ \A u \in Hilos \ {t} : hilos'[u] = hilos[u]
    BY <1>1, <2>4, <2>7, CambiaHilo
  <2>9. Sitio(t)
    BY <1>1, <1>2, <2>6, <2>7, <2>8
       DEF Sitio, Lugar, Busqueda, Alta, Recorriendo, SigueSuPagina
  <2>10. CambiaSwap(t) /\ ~ ReservaMV(t)' /\ ~ ReservaMP(t)'
    BY <1>1, <2>1, <2>7, <2>8 DEF CambiaSwap, ConSwap, ReservaMV, ReservaMP
  <2> QED BY <1>1, <2>1, <2>3, <2>8, <2>9, <2>10, PasoSitio
<1> QED BY <1>3, <1>4

(* Counting a dish reads the frame of its page. *)
LEMMA ContarSigue ==
  ASSUME Sigue, NEW t \in Hilos, Contar(t)
  PROVE  Sigue' \/ Falla(t)
<1> DEFINE h == hilos[t]
<1>1. /\ TiposH /\ Lugar(t) /\ Vivas(t) /\ mem \in MemoriasH /\ hilos \in [Hilos -> Hilo]
      /\ h \in Hilo /\ h.pc = "CONTAR" /\ h.op = "PLATO_LISTO"
  BY Donde, OpDe DEF Contar, En
<1>2. PICK d \in h.pendientes :
        LET p == <<h.pedido, d>>
        IN  IF mem.paginas[p].frame_mp = -1 THEN Fallar(t, "FUERA")
            ELSE /\ mem' = paginas_leidas(mem, {p})
                 /\ hilos' = [Visitado(t, d) EXCEPT ![t].dato.valor =
                        @ + IF Completo(ContenidoMP(mem, p)) THEN 1 ELSE 0]
                 /\ UNCHANGED <<tablas, candados, consola, fallo>>
  BY DEF Contar
<1> DEFINE p == <<h.pedido, d>>
           s == h.pendientes \ {d}
           x == h.dato.valor + (IF Completo(ContenidoMP(mem, p)) THEN 1 ELSE 0)
           dato == [h.dato EXCEPT !.valor = x]
           k == [h EXCEPT !.pendientes = s, !.dato = dato]
<1>3. /\ d \in Platos /\ p \in Paginas
      /\ s \subseteq PlatosDelPedido(t) /\ s \in SUBSET Platos
  <2>1. h.pendientes \subseteq PlatosDelPedido(t) /\ PlatosDelPedido(t) \subseteq Platos
    BY <1>1 DEF Vivas, Pasada, PlatosDelPedido, tabla_de_platos
  <2>2. p \in Paginas
    BY <1>1, <2>1, PedidoDe
  <2> QED BY <2>1, <2>2
<1>4. CASE mem.paginas[p].frame_mp = -1
  BY <1>2, <1>4 DEF Falla
<1>5. CASE mem.paginas[p].frame_mp # -1
  <2>1. /\ mem' = paginas_leidas(mem, {p}) /\ UNCHANGED <<tablas, candados, consola>>
        /\ hilos' = [Visitado(t, d) EXCEPT ![t].dato.valor =
                       @ + IF Completo(ContenidoMP(mem, p)) THEN 1 ELSE 0]
    BY <1>2, <1>5
  <2>2. hilos' = [hilos EXCEPT ![t] = k]
    BY <2>1 DEF Visitado
  <2>3. dato \in [frame : Int, valor : Int]
    <3>1. h.dato \in [frame : Int, valor : Int]
      BY <1>1 DEF Hilo
    <3>2. x \in Int
      BY <3>1
    <3> HIDE DEF x
    <3> QED BY <3>1, <3>2
  <2>4. /\ k \in Hilo /\ k.pc = h.pc /\ k.camino = h.camino /\ k.pendientes = s
        /\ k.op = h.op /\ k.pedido = h.pedido /\ k.plato = h.plato /\ k.colgado = h.colgado
    <3> HIDE DEF h, s, dato
    <3> QED BY <1>1, <1>3, <2>3 DEF Hilo
  <2> HIDE DEF k
  <2>5. /\ hilos' \in [Hilos -> Hilo] /\ hilos'[t] = k
        /\ \A u \in Hilos \ {t} : hilos'[u] = hilos[u]
    BY <1>1, <2>2, <2>4, CambiaHilo
  <2>6. MismosMarcos(mem, mem') /\ RestoBien /\ lock_swap' = lock_swap
    BY <1>1, <2>1, LeidasH, RestoIgual
  <2>7. Sitio(t)
    BY <1>1, <1>3, <2>4, <2>5, Donde
       DEF Sitio, Lugar, Busqueda, Alta, Recorriendo, SigueSuPagina
  <2>8. CambiaSwap(t) /\ ~ ReservaMV(t)' /\ ~ ReservaMP(t)'
    BY <1>1, <2>4, <2>5, <2>6 DEF CambiaSwap, ConSwap, ReservaMV, ReservaMP
  <2> QED BY <1>1, <2>5, <2>6, <2>7, <2>8, PasoSitio
<1> QED BY <1>4, <1>5

(* The answer of plato_listo. *)
LEMMA MarcarSigue ==
  ASSUME Sigue, NEW t \in Hilos, Marcar(t)
  PROVE  Sigue'
<1>1. /\ TiposH /\ Lugar(t) /\ mem \in MemoriasH
      /\ hilos[t].pc = "MARCAR" /\ hilos[t].op = "PLATO_LISTO"
  BY Donde, OpDe DEF Marcar, En
<1>2. hecho' \in [Paginas -> Contenido]
  <2>1. Pagina(t) \in Paginas /\ 1 \in Int
    BY <1>1, PaginaDe DEF ConPlato
  <2> QED BY <1>1, <2>1, SumarHecho DEF Marcar
<1>3. MismosMarcos(mem, mem') /\ RestoBien /\ lock_swap' = lock_swap
  BY <1>1, <1>2, MismaMemoria DEF Marcar, RestoBien, TiposH, candados, Estados
<1>4. ~ ConSwap(t)
  BY <1>1 DEF ConSwap
<1> QED BY <1>3, <1>4, PasoResponde DEF Marcar, Responder

-----------------------------------------------------------------------------
(* finalizar_pedido.                                                       *)

(* The pages that finalizar_pedido is going to free are all of the order. *)
LEMMA SacarPedidoSigue ==
  ASSUME Sigue, NEW t \in Hilos, SacarPedido(t)
  PROVE  Sigue' \/ Falla(t)
<1> DEFINE h == hilos[t]
           s == PlatosDelPedido(t)
           k == [h EXCEPT !.pc = "LIBERAR", !.pendientes = s]
           malo == h.pedido[1] \notin restaurantes \/ ~ EnTabla(h.pedido)
<1>1. /\ TiposH /\ Lugar(t) /\ mem \in MemoriasH /\ hilos \in [Hilos -> Hilo] /\ h \in Hilo
      /\ h.pc = "SACAR_PEDIDO" /\ h.op = "FINALIZAR_PEDIDO"
  BY Donde, OpDe DEF SacarPedido, En
<1>2. CASE malo
  BY <1>2 DEF SacarPedido, Falla
<1>3. CASE ~ malo
  <2>1. /\ hilos' = [hilos EXCEPT ![t] = k]
        /\ UNCHANGED <<tablas, mem, candados, consola, fallo>>
    BY <1>3 DEF SacarPedido
  <2>2. RestoBien /\ lock_swap' = lock_swap /\ MismosMarcos(mem, mem')
    BY <1>1, <2>1, MismaMemoria, RestoIgual
  <2>3. "LIBERAR" \in PasosDe(h.op) /\ "LIBERAR" \in Pasos
    <3>1. "LIBERAR" \in PasosDe(h.op)
      BY <1>1 DEF PasosDe
    <3> QED BY <3>1, Donde, PasoEnPasos
  <2>4. s \in SUBSET Platos
    BY DEF PlatosDelPedido, tabla_de_platos
  <2>5. /\ k \in Hilo /\ k.pc = "LIBERAR" /\ k.camino = h.camino /\ k.pendientes = s
        /\ k.op = h.op /\ k.pedido = h.pedido /\ k.plato = h.plato /\ k.colgado = h.colgado
    <3> HIDE DEF h, s
    <3> QED BY <1>1, <2>3, <2>4 DEF Hilo
  <2> HIDE DEF k
  <2>6. /\ hilos' \in [Hilos -> Hilo] /\ hilos'[t] = k
        /\ \A u \in Hilos \ {t} : hilos'[u] = hilos[u]
    BY <1>1, <2>1, <2>5, CambiaHilo
  <2>7. Sitio(t)
    BY <1>1, <2>3, <2>5, <2>6 DEF Sitio, Lugar, Busqueda, Alta, Recorriendo, SigueSuPagina
  <2>8. CambiaSwap(t) /\ ~ ReservaMV(t)' /\ ~ ReservaMP(t)'
    BY <1>1, <2>2, <2>5, <2>6 DEF CambiaSwap, ConSwap, ReservaMV, ReservaMP
  <2> QED BY <1>1, <2>2, <2>6, <2>7, <2>8, PasoSitio
<1> QED BY <1>2, <1>3

(* Whoever follows the page of finalizar_pedido that is being freed learns *)
(* it, and whoever visits the pages of an order, or waits for one that it  *)
(* raised, has lock_swap and so is the thread that frees.                  *)
LEMMA LiberarPaginaSigue ==
  ASSUME Sigue, NEW t \in Hilos, LiberarPagina(t)
  PROVE  Sigue'
<1> DEFINE h == hilos[t]
<1>1. /\ TiposH /\ Lugar(t) /\ Vivas(t) /\ mem \in MemoriasH /\ hilos \in [Hilos -> Hilo]
      /\ h \in Hilo /\ h.pc = "LIBERAR" /\ h.op = "FINALIZAR_PEDIDO"
  <2>1. En(t, "LIBERAR")
    BY Zenon DEF LiberarPagina
  <2> QED BY <2>1, Donde, OpDe DEF En
<1> DEFINE P(d) == <<h.pedido, d>>
           Sin(d) == SinNodo(Visitado(t, d), P(d))
<1>2. PICK d \in h.pendientes :
        /\ mem' = liberar_pagina(mem, P(d))
        /\ lock_pagina' = [lock_pagina EXCEPT ![P(d)] = Nadie]
        /\ hecho' = [hecho EXCEPT ![P(d)] = [cantidad_total |-> 0, cantidad_lista |-> 0]]
        /\ hilos' = [u \in Hilos |->
             [Sin(d)[u] EXCEPT !.colgado = @ \/ (u \in Apuntando(P(d)[1]) /\ Pagina(u) = P(d)),
                               !.espera = IF @ = P(d) THEN NingunaPagina ELSE @]]
        /\ UNCHANGED <<tablas, lock_swap, respuestas, fallo>>
  <2>1. PICK d \in h.pendientes :
          LET p == <<h.pedido, d>>
              sin == SinNodo(Visitado(t, d), p)
          IN  /\ mem' = liberar_pagina(mem, p)
              /\ lock_pagina' = [lock_pagina EXCEPT ![p] = Nadie]
              /\ hecho' = [hecho EXCEPT ![p] = [cantidad_total |-> 0, cantidad_lista |-> 0]]
              /\ hilos' = [u \in Hilos |->
                   [sin[u] EXCEPT !.colgado = @ \/ (u \in Apuntando(p[1]) /\ Pagina(u) = p),
                                  !.espera = IF @ = p THEN NingunaPagina ELSE @]]
    BY Zenon DEF LiberarPagina
  <2>2. UNCHANGED <<tablas, lock_swap, respuestas, fallo>>
    BY DEF LiberarPagina
  <2> QED BY <2>1, <2>2, Zenon
<1> DEFINE p == P(d)
           s == h.pendientes \ {d}
           j == [h EXCEPT !.pendientes = s]
           V == Visitado(t, d)
           sin == Sin(d)
<1>3. /\ p \in Paginas /\ tiene_pagina(mem, p) /\ s \subseteq PlatosDelPedido(t)
      /\ s \in SUBSET Platos /\ p[1] = h.pedido
      /\ \A e \in Platos : <<h.pedido, e>> \in Paginas
  <2>1. h.pendientes \subseteq PlatosDelPedido(t)
    BY <1>1 DEF Vivas, Pasada
  <2>2. d \in Platos /\ tiene_pagina(mem, p) /\ PlatosDelPedido(t) \subseteq Platos
    BY <2>1 DEF PlatosDelPedido, tabla_de_platos
  <2>3. \A e \in Platos : <<h.pedido, e>> \in Paginas
    BY <1>1, PedidoDe
  <2> QED BY <2>1, <2>2, <2>3
<1>4. Muere(mem, mem', p) /\ mem'.lista = SacarDeLista(mem, p)
  BY <1>1, <1>2, <1>3, LiberarH
<1>5. MarcosDePaginas(mem') /\ MarcosPropios(mem')
  BY <1>1, <1>3, <1>4, MarcosDeAntes, MuereBien
<1>6. Len(mem'.lista) \in Nat
  BY <1>4, LenProperties DEF Muere, MemoriasH
<1>7. /\ V \in [Hilos -> Hilo] /\ V[t].pc = h.pc /\ V[t].pendientes = s
      /\ V[t].op = h.op /\ V[t].pedido = h.pedido /\ V[t].plato = h.plato
      /\ V[t].camino = h.camino /\ V[t].dato = h.dato
      /\ \A u \in Hilos \ {t} : V[u] = hilos[u]
      /\ \A u \in Hilos : V[u].pc = hilos[u].pc /\ V[u].cursor = hilos[u].cursor
  <2>1. V = [hilos EXCEPT ![t] = j]
    BY DEF Visitado
  <2>2. /\ j \in Hilo /\ j.pc = h.pc /\ j.pendientes = s /\ j.cursor = h.cursor
        /\ j.op = h.op /\ j.pedido = h.pedido /\ j.plato = h.plato /\ j.camino = h.camino
        /\ j.dato = h.dato
    <3> HIDE DEF h, s
    <3> QED BY <1>1, <1>3 DEF Hilo
  <2> HIDE DEF j, V
  <2> QED BY <1>1, <2>1, <2>2
<1>8. \A u \in Hilos : /\ sin[u] \in Hilo /\ sin[u].pc = V[u].pc /\ Igual(sin[u], V[u])
                       /\ sin[u].pc \in Recorriendo => sin[u].cursor \in -1 .. Len(mem'.lista)
  <2> SUFFICES ASSUME NEW u \in Hilos
               PROVE  /\ sin[u] \in Hilo /\ sin[u].pc = V[u].pc /\ Igual(sin[u], V[u])
                      /\ sin[u].pc \in Recorriendo => sin[u].cursor \in -1 .. Len(mem'.lista)
    OBVIOUS
  <2>1. V[u].pc \in Recorriendo => V[u].cursor \in -1 .. Len(mem.lista)
    BY <1>7 DEF Sigue, Lugar
  <2> HIDE DEF V, p
  <2>2. sin = SinNodo(V, p)
    BY DEF V, p
  <2> HIDE DEF sin
  <2> QED BY <1>1, <1>3, <1>4, <1>6, <1>7, <2>1, <2>2, SinNodoBien
<1> HIDE DEF sin, V
<1>9. \A u \in Hilos :
        hilos'[u] = [sin[u] EXCEPT !.colgado = @ \/ (u \in Apuntando(p[1]) /\ Pagina(u) = p),
                                   !.espera = IF @ = p THEN NingunaPagina ELSE @]
  BY <1>2, Zenon DEF sin
<1>10. \A u \in Hilos :
         /\ hilos'[u] \in Hilo
         /\ hilos'[u].pc = V[u].pc /\ hilos'[u].op = V[u].op
         /\ hilos'[u].pedido = V[u].pedido /\ hilos'[u].plato = V[u].plato
         /\ hilos'[u].camino = V[u].camino /\ hilos'[u].dato = V[u].dato
         /\ hilos'[u].pendientes = V[u].pendientes /\ hilos'[u].leido = V[u].leido
         /\ hilos'[u].cursor = sin[u].cursor
         /\ V[u].colgado => hilos'[u].colgado
         /\ u \in Apuntando(p[1]) /\ Pagina(u) = p => hilos'[u].colgado
  <2> SUFFICES ASSUME NEW u \in Hilos
               PROVE  /\ hilos'[u] \in Hilo
                      /\ hilos'[u].pc = V[u].pc /\ hilos'[u].op = V[u].op
                      /\ hilos'[u].pedido = V[u].pedido /\ hilos'[u].plato = V[u].plato
                      /\ hilos'[u].camino = V[u].camino /\ hilos'[u].dato = V[u].dato
                      /\ hilos'[u].pendientes = V[u].pendientes /\ hilos'[u].leido = V[u].leido
                      /\ hilos'[u].cursor = sin[u].cursor
                      /\ V[u].colgado => hilos'[u].colgado
                      /\ u \in Apuntando(p[1]) /\ Pagina(u) = p => hilos'[u].colgado
    OBVIOUS
  <2> DEFINE a == u \in Apuntando(p[1]) /\ Pagina(u) = p
             r == sin[u]
             e == IF r.espera = p THEN NingunaPagina ELSE r.espera
             c == r.colgado \/ a
             k == [r EXCEPT !.colgado = c, !.espera = e]
  <2>1. hilos'[u] = k
    BY <1>9
  <2>2. r \in Hilo /\ e \in Paginas \cup {NingunaPagina} /\ c \in BOOLEAN
    BY <1>8 DEF Hilo
  <2>3. (a => c) /\ (r.colgado => c)
    OBVIOUS
  <2> HIDE DEF a, r, e, c
  <2>4. /\ k \in Hilo /\ k.pc = r.pc /\ k.cursor = r.cursor /\ k.colgado = c
        /\ k.op = r.op /\ k.pedido = r.pedido /\ k.plato = r.plato /\ k.camino = r.camino
        /\ k.dato = r.dato /\ k.pendientes = r.pendientes /\ k.leido = r.leido
    BY <2>2 DEF Hilo
  <2> HIDE DEF k
  <2>5. /\ r.pc = V[u].pc /\ r.op = V[u].op /\ r.pedido = V[u].pedido /\ r.plato = V[u].plato
        /\ r.camino = V[u].camino /\ r.dato = V[u].dato /\ r.pendientes = V[u].pendientes
        /\ r.leido = V[u].leido /\ r.colgado = V[u].colgado
    BY <1>8 DEF Igual, r
  <2>6. hilos'[u].cursor = sin[u].cursor
    BY <2>1, <2>4 DEF r
  <2>7. a <=> u \in Apuntando(p[1]) /\ Pagina(u) = p
    BY DEF a
  <2> HIDE DEF p
  <2> QED BY <2>1, <2>3, <2>4, <2>5, <2>6, <2>7
<1> HIDE DEF p
<1>11. hilos' \in [Hilos -> Hilo]
  BY <1>2, <1>10, Zenon
<1>12. \A u \in Hilos \ {t} : Quieto(u)
  BY <1>7, <1>10 DEF Quieto
<1>13. ConSwap(t) /\ \A u \in Hilos \ {t} : ~ ConSwap(u)
  <2>1. ConSwap(t)
    BY <1>1 DEF ConSwap
  <2> QED BY <2>1 DEF Sigue, DuenoDeSwap
<1>14. \A u \in Hilos \ {t} : Lugar(u)'
  <2> SUFFICES ASSUME NEW u \in Hilos \ {t} PROVE Lugar(u)'
    OBVIOUS
  <2>1. hilos[u].pc # "LOCKEAR_LEVANTADA"
    BY <1>13 DEF ConSwap
  <2>2. hilos[u].pc \in Recorriendo => hilos'[u].cursor \in -1 .. Len(mem'.lista)
    BY <1>7, <1>8, <1>10
  <2> QED BY <1>12, <2>1, <2>2, LugarDeOtro DEF Sigue
<1>15. \A u \in Hilos \ {t} : Vivas(u)'
  <2> SUFFICES ASSUME NEW u \in Hilos \ {t} PROVE Vivas(u)'
    OBVIOUS
  <2>1. hilos'[u].pc \notin Pasada
    BY <1>12, <1>13 DEF ConSwap, Pasada, Quieto
  <2>2. ASSUME SigueSuPagina(u)' PROVE tiene_pagina(mem', Pagina(u)')
    <3>1. SigueSuPagina(u) /\ Pagina(u)' = Pagina(u) /\ Lugar(u) /\ Vivas(u)
      BY <1>12, <2>2 DEF Quieto, SigueSuPagina, Pagina, Sigue
    <3>2. Pagina(u) \in Paginas /\ tiene_pagina(mem, Pagina(u))
      BY <3>1, PaginaDe DEF Vivas
    <3>3. u \in Apuntando(hilos[u].pedido)
      <4>1. hilos[u].op \in {"GUARDAR_PLATO", "PLATO_LISTO"} /\ hilos[u].pc \notin Busqueda
        BY <3>1 DEF SigueSuPagina, Lugar
      <4> QED BY <4>1 DEF Apuntando, Busqueda
    <3>4. Pagina(u) # p
      <4> SUFFICES ASSUME Pagina(u) = p PROVE FALSE
        OBVIOUS
      <4>1. p[1] = hilos[u].pedido
        BY DEF Pagina
      <4>2. hilos'[u].colgado
        BY <1>10, <3>3, <4>1
      <4> QED BY <2>2, <4>2 DEF SigueSuPagina
    <3> QED BY <1>4, <3>1, <3>2, <3>4 DEF Muere, tiene_pagina
  <2> QED BY <2>1, <2>2 DEF Vivas
<1>16. hilos'[t].pc = "LIBERAR" /\ hilos'[t].op = "FINALIZAR_PEDIDO"
       /\ hilos'[t].pedido = h.pedido /\ hilos'[t].camino = "NINGUNO"
       /\ hilos'[t].pendientes = s
  BY <1>1, <1>7, <1>10 DEF Lugar
<1>17. Lugar(t)'
  BY <1>1, <1>16, Donde DEF Lugar, Busqueda, Recorriendo, ConPlato
<1>18. Vivas(t)'
  <2>1. ~ SigueSuPagina(t)'
    BY <1>16 DEF SigueSuPagina
  <2>2. s \subseteq PlatosDelPedido(t)'
    <3> SUFFICES ASSUME NEW e \in s PROVE e \in Platos /\ tiene_pagina(mem', <<h.pedido, e>>)
      BY <1>16 DEF PlatosDelPedido, tabla_de_platos
    <3>1. e \in Platos /\ tiene_pagina(mem, <<h.pedido, e>>) /\ e # d
      BY <1>3 DEF PlatosDelPedido, tabla_de_platos
    <3>2. <<h.pedido, e>> \in Paginas /\ <<h.pedido, e>> # p
      BY <1>3, <3>1 DEF p
    <3> QED BY <1>4, <3>1, <3>2 DEF Muere, tiene_pagina
  <2> QED BY <1>16, <2>1, <2>2 DEF Vivas
<1>19. CambiaSwap(t) /\ ~ ReservaMV(t)' /\ ~ ReservaMP(t)'
  BY <1>1, <1>2, <1>16 DEF CambiaSwap, ConSwap, ReservaMV, ReservaMP
<1>20. CambiaMarcos(t)
  <2>1. \A q \in Paginas :
          /\ mem'.paginas[q].frame_mv = -1 \/ mem'.paginas[q].frame_mv = mem.paginas[q].frame_mv
          /\ mem'.paginas[q].frame_mp = -1 \/ mem'.paginas[q].frame_mp = mem.paginas[q].frame_mp
    BY <1>4 DEF Muere
  <2>2. /\ \A x \in FramesMV : mem.bitmap_mv[x] => mem'.bitmap_mv[x] \/ x = mem.paginas[p].frame_mv
        /\ \A x \in FramesMP : mem.bitmap_mp[x] => mem'.bitmap_mp[x] \/ x = mem.paginas[p].frame_mp
    BY <1>4 DEF Muere
  <2> QED BY <1>3, <1>19, <2>1, <2>2 DEF CambiaMarcos
<1>21. TiposH'
  <2>1. lock_pagina' \in [Paginas -> Hilos \cup {Nadie}]
    BY <1>1, <1>2 DEF TiposH
  <2>2. hecho' \in [Paginas -> Contenido]
    <3>1. [cantidad_total |-> 0, cantidad_lista |-> 0] \in Contenido
      BY ModuloAssumption DEF Contenido
    <3> QED BY <1>1, <1>2, <3>1 DEF TiposH
  <2>3. mem' \in MemoriasH
    BY <1>4 DEF Muere
  <2> QED BY <1>1, <1>2, <1>11, <2>1, <2>2, <2>3 DEF TiposH, tablas
<1>22. \A u \in Hilos : Lugar(u)' /\ Vivas(u)'
  BY <1>14, <1>15, <1>17, <1>18
<1> QED BY <1>5, <1>12, <1>19, <1>20, <1>21, <1>22, PasoDeVarios

(* finalizar_pedido releases lock_swap with the last page freed. *)
LEMMA LiberadoSigue ==
  ASSUME Sigue, NEW t \in Hilos, Liberado(t)
  PROVE  Sigue'
<1> DEFINE h == hilos[t]
           ped == h.pedido
           i == Parado(h.faltan)
           conPedidos == \E id \in Ids : EnTabla(<<ped[1], id>>)
<1>1. /\ TiposH /\ Lugar(t) /\ mem \in MemoriasH /\ hilos \in [Hilos -> Hilo]
      /\ h \in Hilo /\ h.pc = "LIBERAR" /\ h.op = "FINALIZAR_PEDIDO"
  BY Donde, OpDe DEF Liberado, En
<1>2. /\ estado' = [estado EXCEPT ![ped] = "NULO"]
      /\ lock_swap' = Nadie
      /\ hilos' = [u \in Hilos |->
           IF u = t THEN i ELSE [hilos[u] EXCEPT !.colgado =
             \/ @ \/ u \in Apuntando(ped)
             \/ ~ conPedidos /\ u \in ConTabla(ped[1]) /\ ~ hilos[u].huerfana]]
      /\ UNCHANGED <<escenario, mem, lock_pagina, hecho, fallo>>
  BY DEF Liberado
<1>3. i \in Hilo /\ i.pc = "LIBRE" /\ i.op = "NINGUNA" /\ i.camino = "NINGUNO"
  <2>1. "LIBRE" \in Pasos
    BY PasoEnPasos DEF PasosDe
  <2> QED BY <1>1, <2>1 DEF Hilo, Parado
<1> HIDE DEF i
<1>4. \A u \in Hilos \ {t} :
        /\ hilos'[u] \in Hilo /\ Quieto(u)
        /\ hilos'[u].espera = hilos[u].espera /\ hilos'[u].cursor = hilos[u].cursor
  <2> SUFFICES ASSUME NEW u \in Hilos, u # t
               PROVE  /\ hilos'[u] \in Hilo /\ Quieto(u)
                      /\ hilos'[u].espera = hilos[u].espera /\ hilos'[u].cursor = hilos[u].cursor
    OBVIOUS
  <2> DEFINE r == hilos[u]
             c == \/ r.colgado \/ u \in Apuntando(ped)
                  \/ ~ conPedidos /\ u \in ConTabla(ped[1]) /\ ~ r.huerfana
             k == [r EXCEPT !.colgado = c]
  <2>1. hilos'[u] = k
    BY <1>2
  <2>2. r \in Hilo /\ c \in BOOLEAN /\ (r.colgado => c)
    BY <1>1 DEF Hilo
  <2> HIDE DEF c
  <2>3. /\ k \in Hilo /\ k.pc = r.pc /\ k.cursor = r.cursor /\ k.colgado = c
        /\ k.op = r.op /\ k.pedido = r.pedido /\ k.plato = r.plato /\ k.camino = r.camino
        /\ k.dato = r.dato /\ k.pendientes = r.pendientes /\ k.leido = r.leido
        /\ k.espera = r.espera
    <3> HIDE DEF r
    <3> QED BY <2>2 DEF Hilo
  <2> HIDE DEF k
  <2> QED BY <2>1, <2>2, <2>3 DEF Quieto
<1>5. hilos'[t] = i
  BY <1>2
<1>6. hilos' \in [Hilos -> Hilo]
  BY <1>2, <1>3, <1>4, <1>5, Zenon
<1>7. mem' = mem
  BY <1>2
<1>8. \A u \in Hilos : Lugar(u)' /\ Vivas(u)'
  <2>1. ASSUME NEW u \in Hilos \ {t} PROVE Lugar(u)'
    BY <1>4, <1>7, LugarDeOtro DEF Sigue, Lugar
  <2>2. ASSUME NEW u \in Hilos \ {t} PROVE Vivas(u)'
    BY <1>4, <1>7, VivasDeOtro DEF Sigue
  <2>3. Lugar(t)'
    BY <1>3, <1>5 DEF Lugar, Recorriendo, ConPlato, PasosDe
  <2>4. Vivas(t)'
    BY <1>3, <1>5 DEF Vivas, SigueSuPagina, Pasada
  <2> QED BY <2>1, <2>2, <2>3, <2>4
<1>9. CambiaSwap(t) /\ ~ ReservaMV(t)' /\ ~ ReservaMP(t)'
  BY <1>1, <1>2, <1>3, <1>5 DEF CambiaSwap, ConSwap, ReservaMV, ReservaMP
<1>10. CambiaMarcos(t) /\ MarcosDePaginas(mem') /\ MarcosPropios(mem')
  BY <1>7, <1>9, MarcosDeAntes DEF CambiaMarcos
<1>11. TiposH'
  BY <1>1, <1>2, <1>6 DEF TiposH, Estados
<1>12. \A u \in Hilos \ {t} : Quieto(u)
  BY <1>4
<1> QED BY <1>8, <1>9, <1>10, <1>11, <1>12, PasoDeVarios

-----------------------------------------------------------------------------
(* What the server keeps.                                                  *)

(* The invariant holds while the server goes on, and stays when it stops.  *)
LEMMA SigueHInv ==
  ASSUME Sigue
  PROVE  HInv
BY DEF Sigue, HInv, DuenoDeSwap, ExclusionDeSwap

(* No thread takes a step after a failure. *)
LEMMA PasoVivo ==
  ASSUME NEW t \in Hilos, Paso(t)
  PROVE  fallo = "NO"
<1>1. CASE Pedir(t) BY <1>1, Zenon DEF Pedir, En
<1>2. CASE BuscarRestaurante(t) BY <1>2, Zenon DEF BuscarRestaurante, En
<1>3. CASE BuscarPedido(t) BY <1>3, Zenon DEF BuscarPedido, En
<1>4. CASE CrearTabla(t) BY <1>4, Zenon DEF CrearTabla, En
<1>5. CASE AgregarPedido(t) BY <1>5, Zenon DEF AgregarPedido, En
<1>6. CASE Confirmar(t) BY <1>6, Zenon DEF Confirmar, En
<1>7. CASE TomarSwap(t) BY <1>7, Zenon DEF TomarSwap, En
<1>8. CASE Lockear(t) BY <1>8, Zenon DEF Lockear, En
<1>9. CASE LockearPagina(t) BY <1>9, Zenon DEF LockearPagina, En
<1>10. CASE Unlockear(t) BY <1>10, Zenon DEF Unlockear, En
<1>11. CASE BuscarPlato(t) BY <1>11, Zenon DEF BuscarPlato, En
<1>12. CASE ReservarMV(t) BY <1>12, Zenon DEF ReservarMV, En
<1>13. CASE AgregarPagina(t) BY <1>13, Zenon DEF AgregarPagina, En
<1>14. CASE ReservarMP(t) BY <1>14, Zenon DEF ReservarMP, En
<1>15. CASE TomarPagina(t) BY <1>15, Zenon DEF TomarPagina, En
<1>16. CASE Cargar(t) BY <1>16, Zenon DEF Cargar, En
<1>17. CASE SoltarPagina(t) BY <1>17, Zenon DEF SoltarPagina, En
<1>18. CASE SwapDePlato(t) BY <1>18, Zenon DEF SwapDePlato, En
<1>19. CASE LeerTotal(t) BY <1>19, Zenon DEF LeerTotal, En
<1>20. CASE EscribirTotal(t) BY <1>20, Zenon DEF EscribirTotal, En
<1>21. CASE Informar(t) BY <1>21, Zenon DEF Informar, En
<1>22. CASE Fijar(t) BY <1>22, Zenon DEF Fijar, En
<1>23. CASE Levantar(t) BY <1>23, Zenon DEF Levantar, En
<1>24. CASE LockearLevantada(t) BY <1>24, Zenon DEF LockearLevantada, En
<1>25. CASE Levantadas(t) BY <1>25, Zenon DEF Levantadas, En
<1>26. CASE Enlistar(t) BY <1>26, Zenon DEF Enlistar, En
<1>27. CASE Enlistados(t) BY <1>27, Zenon DEF Enlistados, En
<1>28. CASE LeerEstado(t) BY <1>28, Zenon DEF LeerEstado, En
<1>29. CASE SumarLista(t) BY <1>29, Zenon DEF SumarLista, En
<1>30. CASE Contar(t) BY <1>30, Zenon DEF Contar, En
<1>31. CASE Contados(t) BY <1>31, Zenon DEF Contados, En
<1>32. CASE Marcar(t) BY <1>32, Zenon DEF Marcar, En
<1>33. CASE SacarPedido(t) BY <1>33, Zenon DEF SacarPedido, En
<1>34. CASE LiberarPagina(t) BY <1>34, Zenon DEF LiberarPagina, En
<1>35. CASE Liberado(t) BY <1>35, Zenon DEF Liberado, En
<1>36. CASE UsarLiberado(t) BY <1>36, Zenon DEF UsarLiberado
<1>37. CASE ProbarEstado(t) BY <1>37, Zenon DEF ProbarEstado, En
<1>38. CASE TomarTabla(t) BY <1>38, Zenon DEF TomarTabla, En
<1> QED BY <1>1, <1>2, <1>3, <1>4, <1>5, <1>6, <1>7, <1>8, <1>9, <1>10, <1>11, <1>12,
           <1>13, <1>14, <1>15, <1>16, <1>17, <1>18, <1>19, <1>20, <1>21, <1>22, <1>23,
           <1>24, <1>25, <1>26, <1>27, <1>28, <1>29, <1>30, <1>31, <1>32, <1>33, <1>34,
           <1>35, <1>36, <1>37, <1>38, Zenon DEF Paso

(* Every step keeps the invariant, or stops the model. *)
LEMMA PasoSigue ==
  ASSUME Sigue, NEW t \in Hilos, Paso(t)
  PROVE  Sigue' \/ Falla(t)
<1>1. CASE Pedir(t) BY <1>1, PedirSigue
<1>2. CASE BuscarRestaurante(t) BY <1>2, BuscarRestauranteSigue
<1>3. CASE BuscarPedido(t) BY <1>3, BuscarPedidoSigue
<1>4. CASE CrearTabla(t) BY <1>4, CrearTablaSigue
<1>5. CASE AgregarPedido(t) BY <1>5, AgregarPedidoSigue
<1>6. CASE Confirmar(t) BY <1>6, ConfirmarSigue
<1>7. CASE TomarSwap(t) BY <1>7, TomarSwapSigue
<1>8. CASE Lockear(t) BY <1>8, LockearSigue
<1>9. CASE LockearPagina(t) BY <1>9, LockearPaginaSigue
<1>10. CASE Unlockear(t) BY <1>10, UnlockearSigue
<1>11. CASE BuscarPlato(t) BY <1>11, BuscarPlatoSigue
<1>12. CASE ReservarMV(t) BY <1>12, ReservarMVSigue
<1>13. CASE AgregarPagina(t) BY <1>13, AgregarPaginaSigue
<1>14. CASE ReservarMP(t) BY <1>14, ReservarMPSigue
<1>15. CASE TomarPagina(t) BY <1>15, TomarPaginaSigue
<1>16. CASE Cargar(t) BY <1>16, CargarSigue
<1>17. CASE SoltarPagina(t) BY <1>17, SoltarPaginaSigue
<1>18. CASE SwapDePlato(t) BY <1>18, SwapDePlatoSigue
<1>19. CASE LeerTotal(t) BY <1>19, LeerTotalSigue
<1>20. CASE EscribirTotal(t) BY <1>20, EscribirTotalSigue
<1>21. CASE Informar(t) BY <1>21, InformarSigue
<1>22. CASE Fijar(t) BY <1>22, FijarSigue
<1>23. CASE Levantar(t) BY <1>23, LevantarSigue
<1>24. CASE LockearLevantada(t) BY <1>24, LockearLevantadaSigue
<1>25. CASE Levantadas(t) BY <1>25, LevantadasSigue
<1>26. CASE Enlistar(t) BY <1>26, EnlistarSigue
<1>27. CASE Enlistados(t) BY <1>27, EnlistadosSigue
<1>28. CASE LeerEstado(t) BY <1>28, LeerEstadoSigue
<1>29. CASE SumarLista(t) BY <1>29, SumarListaSigue
<1>30. CASE Contar(t) BY <1>30, ContarSigue
<1>31. CASE Contados(t) BY <1>31, ContadosSigue
<1>32. CASE Marcar(t) BY <1>32, MarcarSigue
<1>33. CASE SacarPedido(t) BY <1>33, SacarPedidoSigue
<1>34. CASE LiberarPagina(t) BY <1>34, LiberarPaginaSigue
<1>35. CASE Liberado(t) BY <1>35, LiberadoSigue
<1>36. CASE UsarLiberado(t) BY <1>36 DEF UsarLiberado, Falla
<1>37. CASE ProbarEstado(t) BY <1>37, ProbarEstadoSigue
<1>38. CASE TomarTabla(t) BY <1>38, TomarTablaSigue
<1> QED BY <1>1, <1>2, <1>3, <1>4, <1>5, <1>6, <1>7, <1>8, <1>9, <1>10, <1>11, <1>12,
           <1>13, <1>14, <1>15, <1>16, <1>17, <1>18, <1>19, <1>20, <1>21, <1>22, <1>23,
           <1>24, <1>25, <1>26, <1>27, <1>28, <1>29, <1>30, <1>31, <1>32, <1>33, <1>34,
           <1>35, <1>36, <1>37, <1>38, Zenon DEF Paso

(* At the start every thread is free and every frame in use is a page's. *)
LEMMA InicioHInv ==
  ASSUME Init
  PROVE  HInv
<1>1. PICK n \in DOMAIN Escenarios : \E e \in {Escenarios[n]} :
        /\ escenario = n
        /\ estado = e.estado
        /\ mem = e.mem
        /\ lock_swap = Nadie
        /\ lock_pagina = [p \in Paginas |-> Nadie]
        /\ hilos = [t \in Hilos |->
             Parado(IF \E s \in e.solicitudes : s.hilo = t THEN e.faltan ELSE 0)]
        /\ hecho = [p \in Paginas |-> IF tiene_pagina(mem, p) THEN Valor(mem, p)
                                      ELSE [cantidad_total |-> 0, cantidad_lista |-> 0]]
  BY Zenon DEF Init
<1> DEFINE e == Escenarios[n]
<1>2. e \in Escenario /\ MemoriaBien(e.mem)
  BY EscenariosAssumption
<1>3. /\ MemoriaBien(mem) /\ estado \in [Pedidos -> Estados] /\ e.faltan \in Nat
      /\ hilos = [t \in Hilos |->
           Parado(IF \E s \in e.solicitudes : s.hilo = t THEN e.faltan ELSE 0)]
  BY <1>1, <1>2 DEF Escenario
<1> HIDE DEF e
<1>4. mem \in MemoriasH
  BY <1>3 DEF MemoriaBien, Memorias, MemoriasH, FramesMP
<1>5. \A t \in Hilos : hilos[t] \in {Parado(f) : f \in Nat}
  BY <1>3
<1>6. \A t \in Hilos : /\ hilos[t] \in Hilo
                       /\ hilos[t].pc = "LIBRE" /\ hilos[t].op = "NINGUNA"
                       /\ hilos[t].camino = "NINGUNO"
  <2>1. "LIBRE" \in Pasos
    BY PasoEnPasos DEF PasosDe
  <2>2. ASSUME NEW f \in Nat
        PROVE  /\ Parado(f) \in Hilo
               /\ Parado(f).pc = "LIBRE" /\ Parado(f).op = "NINGUNA"
               /\ Parado(f).camino = "NINGUNO"
    BY <2>1 DEF Parado, Hilo
  <2> QED BY <1>5, <2>2
<1>7. TiposH
  <2>1. hilos \in [Hilos -> Hilo]
    BY <1>3, <1>6
  <2>2. [cantidad_total |-> 0, cantidad_lista |-> 0] \in Contenido
    BY ModuloAssumption DEF Contenido
  <2>3. ASSUME NEW p \in Paginas, tiene_pagina(mem, p) PROVE Valor(mem, p) \in Contenido
    <3>1. /\ mem.mp \in [FramesMP -> Contenido] /\ mem.mv \in [FramesMV -> Contenido]
          /\ mem.paginas[p].frame_mp \in FramesMP \cup {-1}
          /\ mem.paginas[p].frame_mv \in FramesMV \cup {-1}
          /\ mem.paginas[p].presencia <=> mem.paginas[p].frame_mp # -1
      BY <1>3 DEF MemoriaBien, Memorias, FramesBien, Info, InfoPagina
    <3> QED BY <2>3, <3>1 DEF Valor, ContenidoMP, tiene_pagina
  <2>4. hecho \in [Paginas -> Contenido]
    BY <1>1, <2>2, <2>3
  <2> QED BY <1>1, <1>3, <1>4, <2>1, <2>4 DEF TiposH
<1>8. \A t \in Hilos : Lugar(t)
  BY <1>6 DEF Lugar, PasosDe, ConPlato, Busqueda, Recorriendo
<1>9. DuenoDeSwap
  BY <1>1, <1>6 DEF DuenoDeSwap, ConSwap
<1>10. MarcosDePaginas(mem)
  BY <1>3 DEF MemoriaBien, Memorias, FramesBien, MarcosDePaginas, Info, InfoPagina
<1>11. Reservas /\ MarcosSinCompartir
  <2>1. \A t \in Hilos : ~ ReservaMV(t) /\ ~ ReservaMP(t)
    BY <1>6 DEF ReservaMV, ReservaMP
  <2> QED BY <1>3, <2>1 DEF MemoriaBien, FramesBien, Reservas, MarcosSinCompartir
<1>12. \A t \in Hilos : Vivas(t)
  BY <1>6 DEF Vivas, SigueSuPagina, Pasada
<1> QED BY <1>7, <1>8, <1>9, <1>10, <1>11, <1>12, SigueHInv DEF Sigue

(* So does every step of the server. *)
LEMMA PasoHInv ==
  ASSUME HInv, [Next]_vars
  PROVE  HInv'
<1>1. CASE \E t \in Hilos : Paso(t)
  <2>1. PICK t \in Hilos : Paso(t)
    BY <1>1
  <2>2. Sigue
    BY <2>1, PasoVivo DEF HInv
  <2>3. CASE Sigue'
    BY <2>3 DEF Sigue, HInv, DuenoDeSwap, ExclusionDeSwap
  <2>4. CASE Falla(t)
    BY <2>2, <2>4, FallarBien
  <2> QED BY <2>1, <2>2, <2>3, <2>4, PasoSigue
<1>2. CASE UNCHANGED vars
  <2>1. Sigue => Sigue'
    BY <1>2 DEF vars, Sigue, TiposH, Lugar, DuenoDeSwap, ConSwap, MarcosDePaginas, Reservas,
      ReservaMV, ReservaMP, MarcosSinCompartir, Vivas, SigueSuPagina, PlatosDelPedido, Pagina
  <2>2. HInv
    OBVIOUS
  <2> QED BY <1>2, <2>1, <2>2 DEF HInv, vars, ExclusionDeSwap, ConSwap, MarcosSinCompartir,
    ReservaMV, ReservaMP
<1> QED BY <1>1, <1>2 DEF Next, Terminar

(* The invariant of the server with any number of threads: up to the first *)
(* undefined action, every thread is at a step of its handler with what it *)
(* needs, lock_swap is held exactly along the paths that take it, and the  *)
(* frames that pages have or threads reserved are marked, each once.       *)
THEOREM SiempreHInv == Spec => []HInv
<1>1. Init => HInv
  BY InicioHInv
<1>2. HInv /\ [Next]_vars => HInv'
  BY PasoHInv
<1> QED BY <1>1, <1>2, PTL DEF Spec

(* lock_swap does what it is for, along every path of every handler: no two*)
(* threads are between taking it and releasing it, and no path leaves it   *)
(* taken behind.                                                           *)
THEOREM Exclusion == Spec => []ExclusionDeSwap
<1>1. HInv => ExclusionDeSwap
  BY DEF HInv
<1> QED BY <1>1, SiempreHInv, PTL

(* No frame of main memory or of swap ever serves two dishes, whatever the *)
(* threads that reserve, load, evict and free frames do between each other.*)
THEOREM SinCompartir == Spec => []MarcosSinCompartir
<1>1. HInv => MarcosSinCompartir
  BY DEF HInv
<1> QED BY <1>1, SiempreHInv, PTL
=============================================================================

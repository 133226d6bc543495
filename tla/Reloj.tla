-------------------------------- MODULE Reloj --------------------------------
(***************************************************************************)
(* The modified clock as comanda.c runs it: four calls of                  *)
(* circular_list_get_by_condition, each a loop of list_size turns that     *)
(* tests one page per turn, with the use bits cleared as a side effect of  *)
(* the test.  Module Reemplazo says in one expression which page comes out *)
(* and which bits change; here the loop runs turn by turn, so that TLC can *)
(* compare the two on every list, every set of bits and every hand.        *)
(***************************************************************************)
EXTENDS Reemplazo

CONSTANTS
  Candidatas,    \* the list of resident pages, without repetitions
  Requerida      \* the page to be brought in

ASSUME CandidatasAssumption ==
  /\ Candidatas \in Seq(ToSet(Candidatas)) /\ Candidatas # << >>
  /\ IsInjective(Candidatas)
  /\ Requerida \notin ToSet(Candidatas)

VARIABLES
  largo,           \* how many of the candidates are in the list
  paginas_para_swapeo,
  paginas,         \* the bits of each page
  index_puntero_cm,
  llamada,         \* 1 .. 4: the call in progress, 5: all returned NULL
  i,               \* turns done in this call
  index_actual,
  victima,         \* position of the result, 0 while there is none
  inicial          \* the list, the bits and the hand when the search began

vars == <<largo, paginas_para_swapeo, paginas, index_puntero_cm, llamada, i,
          index_actual, victima, inicial>>

Bits == [presencia : {TRUE}, uso : BOOLEAN, modificacion : BOOLEAN, lockeo : BOOLEAN]

Init ==
  /\ largo \in 1 .. Len(Candidatas)
  /\ paginas_para_swapeo = SubSeq(Candidatas, 1, largo)
  /\ paginas \in [ToSet(paginas_para_swapeo) -> Bits]
  /\ index_puntero_cm \in 0 .. largo - 1
  /\ llamada = 1 /\ i = 0 /\ index_actual = index_puntero_cm /\ victima = 0
  /\ inicial = [lista |-> paginas_para_swapeo, paginas |-> paginas,
                puntero |-> index_puntero_cm]

Buscando == victima = 0 /\ llamada <= 4

Pagina == paginas_para_swapeo[index_actual + 1]

(* Mutant: the two conditions are tried in the other order. *)
Condicion_invertida == IF llamada \in {1, 3} THEN es_0_1(paginas[Pagina])
                                             ELSE es_0_0(paginas[Pagina])

Condicion == IF llamada \in {1, 3} THEN es_0_0(paginas[Pagina])
                                   ELSE es_0_1(paginas[Pagina])

(* Mutant: pinned pages lose the use bit too. *)
Probar_todas ==
  paginas' = IF llamada \in {2, 4}
             THEN [paginas EXCEPT ![Pagina].uso = FALSE] ELSE paginas

(* The side effect of testing es_0_1. *)
Probar ==
  paginas' = IF llamada \in {2, 4} /\ ~ paginas[Pagina].lockeo
             THEN [paginas EXCEPT ![Pagina].uso = FALSE] ELSE paginas

(* Mutant: the hand stays on the page that came in. *)
Encontrar_sin_avanzar ==
  /\ Buscando /\ i < largo /\ Condicion
  /\ Probar
  /\ victima' = index_actual + 1
  /\ paginas_para_swapeo' = ReplaceAt(paginas_para_swapeo, index_actual + 1, Requerida)
  /\ index_puntero_cm' = index_actual
  /\ UNCHANGED <<largo, llamada, i, index_actual, inicial>>

Encontrar ==
  /\ Buscando /\ i < largo /\ Condicion
  /\ Probar
  /\ victima' = index_actual + 1
  /\ paginas_para_swapeo' = ReplaceAt(paginas_para_swapeo, index_actual + 1, Requerida)
  /\ index_puntero_cm' = indice_siguiente_lista_circular(paginas_para_swapeo, index_actual)
  /\ UNCHANGED <<largo, llamada, i, index_actual, inicial>>

Avanzar ==
  /\ Buscando /\ i < largo /\ ~ Condicion
  /\ Probar
  /\ i' = i + 1
  /\ index_actual' = indice_siguiente_lista_circular(paginas_para_swapeo, index_actual)
  /\ UNCHANGED <<largo, paginas_para_swapeo, index_puntero_cm, llamada, victima, inicial>>

(* Mutant: the search starts again until it finds a victim. *)
OtraLlamada_sin_fin ==
  /\ Buscando /\ i = largo
  /\ llamada' = IF llamada = 4 THEN 1 ELSE llamada + 1
  /\ i' = 0
  /\ index_actual' = index_puntero_cm
  /\ UNCHANGED <<largo, paginas_para_swapeo, paginas, index_puntero_cm, victima, inicial>>

(* The call returned NULL; the next one starts at the hand. *)
OtraLlamada ==
  /\ Buscando /\ i = largo
  /\ llamada' = llamada + 1
  /\ i' = 0
  /\ index_actual' = index_puntero_cm
  /\ UNCHANGED <<largo, paginas_para_swapeo, paginas, index_puntero_cm, victima, inicial>>

Next == Encontrar \/ Avanzar \/ OtraLlamada

Spec == Init /\ [][Next]_vars /\ WF_vars(Next)

-----------------------------------------------------------------------------
Esperado == seleccion_de_victima_clock_modificado(inicial.lista, inicial.puntero,
                                                  inicial.paginas)

(* The four loops choose the page, and leave the use bits, that the        *)
(* closed definition says; the list keeps its other pages in their places  *)
(* and the hand stops one place after the victim.                          *)
ComoLaDefinicion ==
  ~ Buscando =>
    /\ victima = Esperado.pos
    /\ paginas = Esperado.paginas
    /\ IF victima = 0
       THEN paginas_para_swapeo = inicial.lista /\ index_puntero_cm = inicial.puntero
       ELSE /\ paginas_para_swapeo = ReplaceAt(inicial.lista, victima, Requerida)
            /\ index_puntero_cm = victima % largo

(* What the algorithm is for: the victim is not pinned and, by the bits    *)
(* before the search, no other candidate is of a better class.  The classes*)
(* are, from best to worst, (use, modified) = 00, 01, 10, 11.  With an     *)
(* unpinned page in the list there is always a victim.                     *)
Clase(pag) == (IF pag.uso THEN 2 ELSE 0) + (IF pag.modificacion THEN 1 ELSE 0)

VictimaDeLaMejorClase ==
  ~ Buscando =>
    LET libres == {p \in ToSet(inicial.lista) : ~ inicial.paginas[p].lockeo}
    IN  IF libres = {} THEN victima = 0
        ELSE /\ victima # 0
             /\ LET v == inicial.lista[victima]
                IN  v \in libres /\ \A p \in libres :
                      Clase(inicial.paginas[v]) <= Clase(inicial.paginas[p])

(* The search never takes the use bit away from a pinned page, nor from    *)
(* any page when a 00 page was there to be taken.                          *)
SegundaOportunidad ==
  \A p \in ToSet(inicial.lista) :
    paginas[p].uso # inicial.paginas[p].uso =>
      /\ ~ inicial.paginas[p].lockeo
      /\ \A q \in ToSet(inicial.lista) : ~ es_0_0(inicial.paginas[q])

(* The search ends: with a victim, or after four rounds without one.       *)
Termina == <>[](~ Buscando)

=============================================================================

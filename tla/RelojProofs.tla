----------------------------- MODULE RelojProofs -----------------------------
(***************************************************************************)
(* The modified clock for a list of any length: the four loops compute     *)
(* what module Reemplazo says in one expression, which is what the memory  *)
(* of the server is built on, and choose a page of the best class.         *)
(***************************************************************************)
EXTENDS Reloj, SequenceTheorems, WellFoundedInduction, TLAPS

-----------------------------------------------------------------------------
(* The inductive invariant.                                                *)

(* The index that turn j of a round visits, and the page there. *)
Turno(j) == IF inicial.puntero + j < largo THEN inicial.puntero + j
            ELSE inicial.puntero + j - largo
Vista(j) == inicial.lista[Turno(j) + 1]

Lista == ToSet(inicial.lista)
Antes(p) == inicial.paginas[p]

(* What call n rejects, by the bits before the search: the third and the   *)
(* fourth find every use bit that matters off.                             *)
Rechaza(n, pag) ==
  CASE n = 1 -> ~ es_0_0(pag)
    [] n = 2 -> ~ es_0_1(pag)
    [] n = 3 -> pag.lockeo \/ pag.modificacion
    [] n = 4 -> pag.lockeo

(* The search began with a list without repetitions and the hand in it. *)
Datos ==
  /\ largo \in Nat \ {0}
  /\ inicial.lista \in Seq(Lista) /\ Len(inicial.lista) = largo
  /\ \A k, j \in 1 .. largo : inicial.lista[k] = inicial.lista[j] => k = j
  /\ inicial.paginas \in [Lista -> Bits]
  /\ inicial.puntero \in 0 .. largo - 1

(* Where the search is, and what the victim was if it is over. *)
Busqueda ==
  /\ llamada \in 1 .. 5 /\ i \in 0 .. largo /\ (llamada = 5 => i = 0)
  /\ victima = 0 => /\ paginas_para_swapeo = inicial.lista
                    /\ index_puntero_cm = inicial.puntero
                    /\ i < largo => index_actual = Turno(i)
  /\ victima # 0 =>
       /\ i < largo /\ llamada <= 4 /\ victima = Turno(i) + 1
       /\ ~ Rechaza(llamada, Antes(Vista(i)))
       /\ paginas_para_swapeo = ReplaceAt(inicial.lista, victima, Requerida)
       /\ index_puntero_cm = IF victima = largo THEN 0 ELSE victima

(* Every page was rejected by the calls that are over, and the pages       *)
(* visited by this one.                                                    *)
Rechazadas ==
  /\ \A n \in 1 .. llamada - 1, p \in Lista : Rechaza(n, Antes(p))
  /\ \A j \in 0 .. i - 1 : Rechaza(llamada, Antes(Vista(j)))

(* The pages that lost the use bit: those not pinned that the second call  *)
(* has left behind.                                                        *)
Limpias ==
  {p \in Lista : /\ esta_unlockeada(Antes(p))
                 /\ \/ llamada > 2
                    \/ llamada = 2 /\ \E j \in 0 .. i - 1 : p = Vista(j)}

RInv == Datos /\ Busqueda /\ Rechazadas /\ paginas = Apagar(inicial.paginas, Limpias)

-----------------------------------------------------------------------------
(* The rounds.                                                             *)

(* A round visits every position, each in one turn. *)
LEMMA Turnos ==
  ASSUME Datos
  PROVE  /\ \A j \in 0 .. largo - 1 : Turno(j) \in 0 .. largo - 1
         /\ \A j, k \in 0 .. largo - 1 : Turno(j) = Turno(k) => j = k
         /\ \A k \in 1 .. largo : \E j \in 0 .. largo - 1 : Turno(j) + 1 = k
<1>a. /\ largo \in Int /\ inicial.puntero \in Int
      /\ 0 <= inicial.puntero /\ inicial.puntero < largo
  BY DEF Datos
<1>0. \A j \in 0 .. largo - 1 : Turno(j) \in 0 .. largo - 1
  BY <1>a DEF Turno
<1>1. ASSUME NEW j \in 0 .. largo - 1, NEW k \in 0 .. largo - 1, Turno(j) = Turno(k)
      PROVE  j = k
  BY <1>a, <1>1 DEF Turno
<1>2. ASSUME NEW k \in 1 .. largo
      PROVE  \E j \in 0 .. largo - 1 : Turno(j) + 1 = k
  <2>1. CASE k > inicial.puntero
    <3>1. k - 1 - inicial.puntero \in 0 .. largo - 1
      BY <2>1 DEF Datos
    <3>2. Turno(k - 1 - inicial.puntero) + 1 = k
      BY <3>1 DEF Datos, Turno
    <3> QED BY <3>1, <3>2
  <2>2. CASE k <= inicial.puntero
    <3>1. k - 1 - inicial.puntero + largo \in 0 .. largo - 1
      BY <2>2 DEF Datos
    <3>2. Turno(k - 1 - inicial.puntero + largo) + 1 = k
      BY <2>2, <3>1 DEF Datos, Turno
    <3> QED BY <3>1, <3>2
  <2> QED BY <2>1, <2>2 DEF Datos
<1> QED BY <1>0, <1>1, <1>2

(* And with it every page of the list. *)
LEMMA Vistas ==
  ASSUME Datos
  PROVE  /\ Lista = {inicial.lista[k] : k \in 1 .. largo}
         /\ \A j \in 0 .. largo - 1 : Vista(j) \in Lista
         /\ \A j, k \in 0 .. largo - 1 : Vista(j) = Vista(k) => j = k
         /\ \A p \in Lista : \E j \in 0 .. largo - 1 : Vista(j) = p
<1>1. Lista = {inicial.lista[k] : k \in 1 .. largo}
  BY LenProperties DEF Datos, Lista, ToSet
<1>2. ASSUME NEW j \in 0 .. largo - 1
      PROVE  Turno(j) + 1 \in 1 .. largo
  <2>1. largo \in Int /\ Turno(j) \in 0 .. largo - 1
    BY Turnos DEF Datos
  <2> QED BY <2>1
<1>3. \A j \in 0 .. largo - 1 : Vista(j) \in Lista
  BY <1>1, <1>2 DEF Vista
<1>4. \A j, k \in 0 .. largo - 1 : Vista(j) = Vista(k) => Turno(j) = Turno(k)
  <2>1. \A j \in 0 .. largo - 1 : Turno(j) \in Int
    BY Turnos DEF Datos
  <2> QED BY <1>2, <2>1 DEF Datos, Vista
<1>5. \A p \in Lista : \E j \in 0 .. largo - 1 : Vista(j) = p
  BY <1>1, Turnos DEF Vista
<1> QED BY <1>1, <1>3, <1>4, <1>5, Turnos

(* The remainder that Ronda takes is one subtraction at most. *)
LEMMA Resto ==
  ASSUME NEW n \in Nat \ {0}, NEW a \in 0 .. 2 * n - 1
  PROVE  a % n = IF a < n THEN a ELSE a - n
OBVIOUS

(* Turn j of the code is element j + 1 of the definition's round. *)
LEMMA RondaEsTurnos ==
  ASSUME Datos
  PROVE  LET r == Ronda(inicial.lista, inicial.puntero)
         IN  Len(r) = largo /\ \A j \in 0 .. largo - 1 : r[j + 1] = Turno(j) + 1
<1> DEFINE r == Ronda(inicial.lista, inicial.puntero)
<1>1. r = [k \in 1 .. largo |-> ((inicial.puntero + k - 1) % largo) + 1]
  BY DEF Ronda, Datos
<1>2. Len(r) = largo
  BY <1>1 DEF Datos
<1>3. ASSUME NEW j \in 0 .. largo - 1
      PROVE  r[j + 1] = Turno(j) + 1
  <2>1. j + 1 \in 1 .. largo /\ inicial.puntero + j \in 0 .. 2 * largo - 1
        /\ inicial.puntero + (j + 1) - 1 = inicial.puntero + j
    BY DEF Datos
  <2>2. largo \in Nat \ {0} /\ inicial.puntero \in Int
    BY DEF Datos
  <2>3. (inicial.puntero + j) % largo
          = IF inicial.puntero + j < largo THEN inicial.puntero + j
            ELSE (inicial.puntero + j) - largo
    BY <2>1, <2>2, Resto
  <2>4. (inicial.puntero + j) % largo = Turno(j)
    BY <2>2, <2>3 DEF Turno
  <2> QED BY <1>1, <2>1, <2>4
<1> QED BY <1>2, <1>3

(* The least number of a set, which SelectInSeq uses. *)
LEMMA ElMinimo ==
  ASSUME NEW S \in SUBSET Int, NEW m \in S, \A x \in S : m <= x
  PROVE  Min(S) = m
<1>1. Min(S) \in S /\ \A y \in S : Min(S) <= y
  BY DEF Min
<1>2. Min(S) <= m /\ m <= Min(S) /\ Min(S) \in Int /\ m \in Int
  BY <1>1
<1> QED BY <1>2

(* The first page of the round that passes a test, and that there is none; *)
(* once for each of the two tests.                                         *)
LEMMA Primera00 ==
  ASSUME Datos, NEW b, NEW t \in 0 .. largo - 1,
         es_0_0(b[Vista(t)]), \A j \in 0 .. t - 1 : ~ es_0_0(b[Vista(j)])
  PROVE  PrimeraDeLaRonda(inicial.lista, inicial.puntero, b, es_0_0) = Turno(t) + 1
<1> DEFINE r == Ronda(inicial.lista, inicial.puntero)
           I == {k \in 1 .. Len(r) : es_0_0(b[inicial.lista[r[k]]])}
<1>1. Len(r) = largo /\ \A j \in 0 .. largo - 1 : r[j + 1] = Turno(j) + 1
  BY RondaEsTurnos
<1>2. PrimeraDeLaRonda(inicial.lista, inicial.puntero, b, es_0_0)
        = IF (IF I # {} THEN Min(I) ELSE 0) = 0 THEN 0
          ELSE r[IF I # {} THEN Min(I) ELSE 0]
  BY DEF PrimeraDeLaRonda, SelectInSeq
<1>3. t + 1 \in I
  <2>1. t + 1 \in 1 .. Len(r) /\ r[t + 1] = Turno(t) + 1
    BY <1>1 DEF Datos
  <2>2. es_0_0(b[inicial.lista[r[t + 1]]])
    BY <2>1 DEF Vista
  <2> HIDE DEF r
  <2> QED BY <2>1, <2>2
<1>4. \A k \in I : t + 1 <= k
  <2> SUFFICES ASSUME NEW k \in I, k < t + 1 PROVE FALSE
    BY <1>1 DEF Datos
  <2>1. k - 1 \in 0 .. t - 1 /\ k - 1 \in 0 .. largo - 1 /\ (k - 1) + 1 = k
    BY <1>1 DEF Datos
  <2>2. r[k] = Turno(k - 1) + 1 /\ es_0_0(b[inicial.lista[r[k]]])
    BY <1>1, <2>1
  <2> QED BY <2>1, <2>2 DEF Vista
<1>5. I \in SUBSET Int
  OBVIOUS
<1> HIDE DEF I, r
<1>6. Min(I) = t + 1 /\ I # {}
  BY <1>3, <1>4, <1>5, ElMinimo
<1>7. t + 1 # 0
  OBVIOUS
<1> QED BY <1>1, <1>2, <1>6, <1>7

(* No page of the round passes the test for 00. *)
LEMMA Ninguna00 ==
  ASSUME Datos, NEW b, \A p \in Lista : ~ es_0_0(b[p])
  PROVE  PrimeraDeLaRonda(inicial.lista, inicial.puntero, b, es_0_0) = 0
<1> DEFINE r == Ronda(inicial.lista, inicial.puntero)
           I == {k \in 1 .. Len(r) : es_0_0(b[inicial.lista[r[k]]])}
<1>1. Len(r) = largo /\ \A j \in 0 .. largo - 1 : r[j + 1] = Turno(j) + 1
  BY RondaEsTurnos
<1>2. PrimeraDeLaRonda(inicial.lista, inicial.puntero, b, es_0_0)
        = IF (IF I # {} THEN Min(I) ELSE 0) = 0 THEN 0
          ELSE r[IF I # {} THEN Min(I) ELSE 0]
  BY DEF PrimeraDeLaRonda, SelectInSeq
<1>3. I = {}
  <2> SUFFICES ASSUME NEW k \in I PROVE FALSE
    OBVIOUS
  <2>1. k - 1 \in 0 .. largo - 1 /\ (k - 1) + 1 = k
    BY <1>1 DEF Datos
  <2>2. r[k] = Turno(k - 1) + 1 /\ es_0_0(b[inicial.lista[r[k]]])
    BY <1>1, <2>1
  <2> QED BY <2>1, <2>2, Vistas DEF Vista
<1> QED BY <1>2, <1>3

(* The first page of the round that passes the test for 01. *)
LEMMA Primera01 ==
  ASSUME Datos, NEW b, NEW t \in 0 .. largo - 1,
         es_0_1(b[Vista(t)]), \A j \in 0 .. t - 1 : ~ es_0_1(b[Vista(j)])
  PROVE  PrimeraDeLaRonda(inicial.lista, inicial.puntero, b, es_0_1) = Turno(t) + 1
<1> DEFINE r == Ronda(inicial.lista, inicial.puntero)
           I == {k \in 1 .. Len(r) : es_0_1(b[inicial.lista[r[k]]])}
<1>1. Len(r) = largo /\ \A j \in 0 .. largo - 1 : r[j + 1] = Turno(j) + 1
  BY RondaEsTurnos
<1>2. PrimeraDeLaRonda(inicial.lista, inicial.puntero, b, es_0_1)
        = IF (IF I # {} THEN Min(I) ELSE 0) = 0 THEN 0
          ELSE r[IF I # {} THEN Min(I) ELSE 0]
  BY DEF PrimeraDeLaRonda, SelectInSeq
<1>3. t + 1 \in I
  <2>1. t + 1 \in 1 .. Len(r) /\ r[t + 1] = Turno(t) + 1
    BY <1>1 DEF Datos
  <2>2. es_0_1(b[inicial.lista[r[t + 1]]])
    BY <2>1 DEF Vista
  <2> HIDE DEF r
  <2> QED BY <2>1, <2>2
<1>4. \A k \in I : t + 1 <= k
  <2> SUFFICES ASSUME NEW k \in I, k < t + 1 PROVE FALSE
    BY <1>1 DEF Datos
  <2>1. k - 1 \in 0 .. t - 1 /\ k - 1 \in 0 .. largo - 1 /\ (k - 1) + 1 = k
    BY <1>1 DEF Datos
  <2>2. r[k] = Turno(k - 1) + 1 /\ es_0_1(b[inicial.lista[r[k]]])
    BY <1>1, <2>1
  <2> QED BY <2>1, <2>2 DEF Vista
<1>5. I \in SUBSET Int
  OBVIOUS
<1> HIDE DEF I, r
<1>6. Min(I) = t + 1 /\ I # {}
  BY <1>3, <1>4, <1>5, ElMinimo
<1>7. t + 1 # 0
  OBVIOUS
<1> QED BY <1>1, <1>2, <1>6, <1>7

(* No page of the round passes the test for 01. *)
LEMMA Ninguna01 ==
  ASSUME Datos, NEW b, \A p \in Lista : ~ es_0_1(b[p])
  PROVE  PrimeraDeLaRonda(inicial.lista, inicial.puntero, b, es_0_1) = 0
<1> DEFINE r == Ronda(inicial.lista, inicial.puntero)
           I == {k \in 1 .. Len(r) : es_0_1(b[inicial.lista[r[k]]])}
<1>1. Len(r) = largo /\ \A j \in 0 .. largo - 1 : r[j + 1] = Turno(j) + 1
  BY RondaEsTurnos
<1>2. PrimeraDeLaRonda(inicial.lista, inicial.puntero, b, es_0_1)
        = IF (IF I # {} THEN Min(I) ELSE 0) = 0 THEN 0
          ELSE r[IF I # {} THEN Min(I) ELSE 0]
  BY DEF PrimeraDeLaRonda, SelectInSeq
<1>3. I = {}
  <2> SUFFICES ASSUME NEW k \in I PROVE FALSE
    OBVIOUS
  <2>1. k - 1 \in 0 .. largo - 1 /\ (k - 1) + 1 = k
    BY <1>1 DEF Datos
  <2>2. r[k] = Turno(k - 1) + 1 /\ es_0_1(b[inicial.lista[r[k]]])
    BY <1>1, <2>1
  <2> QED BY <2>1, <2>2, Vistas DEF Vista
<1> QED BY <1>2, <1>3

(* The use bits that the second call clears, when it stops at turn t.      *)
LEMMA ApagadasHasta ==
  ASSUME Datos, NEW t \in 0 .. largo - 1
  PROVE  Apagadas(inicial.lista, inicial.puntero, inicial.paginas, Turno(t) + 1)
           = {p \in Lista : /\ esta_unlockeada(Antes(p))
                            /\ \E j \in 0 .. t - 1 : p = Vista(j)}
<1> DEFINE r == Ronda(inicial.lista, inicial.puntero)
           I == {k \in 1 .. Len(r) : r[k] = Turno(t) + 1}
           parada == IF I # {} THEN Min(I) ELSE 0
           visitas == IF parada = 0 THEN 1 .. Len(inicial.lista) ELSE 1 .. parada - 1
           S == {inicial.lista[r[k]] : k \in visitas}
<1>1. Len(r) = largo /\ \A j \in 0 .. largo - 1 : r[j + 1] = Turno(j) + 1
  BY RondaEsTurnos
<1>2. Apagadas(inicial.lista, inicial.puntero, inicial.paginas, Turno(t) + 1)
        = {p \in S : esta_unlockeada(inicial.paginas[p])}
  BY DEF Apagadas, SelectInSeq
<1>3. I = {t + 1}
  <2>1. t + 1 \in I
    BY <1>1 DEF Datos
  <2>2. ASSUME NEW k \in I PROVE k = t + 1
    <3>1. k - 1 \in 0 .. largo - 1 /\ (k - 1) + 1 = k
      BY <1>1 DEF Datos
    <3>2. Turno(k - 1) + 1 = Turno(t) + 1
      BY <1>1, <3>1
    <3>3. Turno(k - 1) = Turno(t)
      BY <3>1, <3>2, Turnos DEF Datos
    <3> QED BY <3>1, <3>3, Turnos
  <2> QED BY <2>1, <2>2
<1>4. parada = t + 1
  <2> HIDE DEF I
  <2>1. Min(I) = t + 1
    BY <1>3, ElMinimo
  <2> QED BY <1>3, <2>1
<1>5. visitas = 1 .. t
  BY <1>4
<1> HIDE DEF r, I, parada, visitas
<1>6. \A p : p \in S <=> \E j \in 0 .. t - 1 : p = Vista(j)
  <2>1. ASSUME NEW k \in 1 .. t
        PROVE  k - 1 \in 0 .. t - 1 /\ inicial.lista[r[k]] = Vista(k - 1)
    BY <1>1 DEF Vista, Datos
  <2>2. ASSUME NEW j \in 0 .. t - 1
        PROVE  j + 1 \in 1 .. t /\ inicial.lista[r[j + 1]] = Vista(j)
    BY <1>1 DEF Vista, Datos
  <2>3. \A p : p \in S <=> \E k \in 1 .. t : p = inicial.lista[r[k]]
    BY <1>5
  <2> HIDE DEF S
  <2> QED BY <2>1, <2>2, <2>3
<1> HIDE DEF S
<1>7. \A p \in S : p \in Lista
  BY <1>6, Vistas DEF Datos
<1> QED BY <1>2, <1>6, <1>7 DEF Antes

(* When it finds no page, it clears those of every page not pinned.        *)
LEMMA ApagadasTodas ==
  ASSUME Datos
  PROVE  Apagadas(inicial.lista, inicial.puntero, inicial.paginas, 0)
           = {p \in Lista : esta_unlockeada(Antes(p))}
<1> DEFINE r == Ronda(inicial.lista, inicial.puntero)
           I == {k \in 1 .. Len(r) : r[k] = 0}
           parada == IF I # {} THEN Min(I) ELSE 0
           visitas == IF parada = 0 THEN 1 .. Len(inicial.lista) ELSE 1 .. parada - 1
           S == {inicial.lista[r[k]] : k \in visitas}
<1>1. Len(r) = largo /\ \A j \in 0 .. largo - 1 : r[j + 1] = Turno(j) + 1
  BY RondaEsTurnos
<1>2. Apagadas(inicial.lista, inicial.puntero, inicial.paginas, 0)
        = {p \in S : esta_unlockeada(inicial.paginas[p])}
  BY DEF Apagadas, SelectInSeq
<1>3. \A k \in 1 .. largo : k - 1 \in 0 .. largo - 1 /\ r[k] = Turno(k - 1) + 1
  <2> SUFFICES ASSUME NEW k \in 1 .. largo
               PROVE  k - 1 \in 0 .. largo - 1 /\ r[k] = Turno(k - 1) + 1
    OBVIOUS
  <2>1. k - 1 \in 0 .. largo - 1 /\ (k - 1) + 1 = k
    BY DEF Datos
  <2> QED BY <1>1, <2>1
<1>4. I = {}
  <2> SUFFICES ASSUME NEW k \in 1 .. largo PROVE r[k] # 0
    BY <1>1
  <2>1. Turno(k - 1) \in 0 .. largo - 1 /\ r[k] = Turno(k - 1) + 1
    BY <1>3, Turnos
  <2> QED BY <2>1
<1>5. visitas = 1 .. largo
  BY <1>4 DEF Datos
<1> HIDE DEF I, parada, visitas
<1>6. S = Lista
  <2>1. \A p \in S : p \in Lista
    BY <1>3, <1>5, Vistas DEF Vista
  <2>2. ASSUME NEW p \in Lista PROVE p \in S
    <3>1. PICK j \in 0 .. largo - 1 : Vista(j) = p
      BY Vistas
    <3>2. j + 1 \in 1 .. largo /\ inicial.lista[r[j + 1]] = p
      BY <1>1, <3>1 DEF Vista, Datos
    <3> QED BY <1>5, <3>2
  <2> QED BY <2>1, <2>2
<1> QED BY <1>2, <1>6 DEF Antes

-----------------------------------------------------------------------------
(* The bits.                                                               *)

(* Clearing use bits changes nothing else. *)
LEMMA ApagarBien ==
  ASSUME Datos, NEW S, NEW p \in Lista
  PROVE  LET pag == Apagar(inicial.paginas, S)[p]
         IN  /\ Antes(p) \in Bits /\ pag \in Bits
             /\ pag.lockeo = Antes(p).lockeo /\ pag.modificacion = Antes(p).modificacion
             /\ p \in S => ~ pag.uso
             /\ p \notin S => pag = Antes(p)
<1>1. Antes(p) \in Bits /\ DOMAIN inicial.paginas = Lista
  BY DEF Datos, Antes
<1>2. Apagar(inicial.paginas, S)[p]
        = IF p \in S THEN [Antes(p) EXCEPT !.uso = FALSE] ELSE Antes(p)
  BY <1>1 DEF Apagar, Antes
<1>3. CASE p \in S
  <2>1. Apagar(inicial.paginas, S)[p] = [Antes(p) EXCEPT !.uso = FALSE]
    BY <1>2, <1>3
  <2> QED BY <1>1, <1>3, <2>1 DEF Bits
<1>4. CASE p \notin S
  BY <1>1, <1>2, <1>4
<1> QED BY <1>3, <1>4

(* A page that every call has rejected has passed each test. *)
LEMMA Rechazos ==
  ASSUME NEW pag \in Bits
  PROVE  /\ Rechaza(1, pag) <=> ~ es_0_0(pag)
         /\ Rechaza(2, pag) <=> ~ es_0_1(pag)
         /\ Rechaza(3, pag) <=> pag.lockeo \/ pag.modificacion
         /\ Rechaza(4, pag) <=> pag.lockeo
BY DEF Rechaza

(* While the search goes on, what the code tests is what the calls reject. *)
LEMMA Prueba ==
  ASSUME RInv, Buscando, i < largo
  PROVE  /\ Pagina = Vista(i) /\ Pagina \in Lista /\ i \in 0 .. largo - 1
         /\ index_actual = Turno(i) /\ llamada \in 1 .. 4
         /\ Condicion <=> ~ Rechaza(llamada, Antes(Vista(i)))
<1> USE DEF RInv
<1>1. /\ i \in 0 .. largo - 1 /\ llamada \in 1 .. 4 /\ victima = 0
      /\ paginas_para_swapeo = inicial.lista /\ index_actual = Turno(i)
  BY DEF Datos, Busqueda, Buscando
<1>2. Pagina = Vista(i) /\ Vista(i) \in Lista
  BY <1>1, Vistas DEF Pagina, Vista
<1>3. PICK p \in Lista : p = Vista(i)
  BY <1>2
<1>4. PICK pag : pag = paginas[p]
  OBVIOUS
<1>5. /\ pag \in Bits /\ Antes(p) \in Bits
      /\ pag.lockeo = Antes(p).lockeo /\ pag.modificacion = Antes(p).modificacion
      /\ p \in Limpias => ~ pag.uso
      /\ p \notin Limpias => pag = Antes(p)
  BY <1>4, ApagarBien
<1>6. CASE llamada = 1
  <2>1. p \notin Limpias
    BY <1>6 DEF Limpias
  <2> QED BY <1>1, <1>2, <1>3, <1>4, <1>5, <1>6, <2>1, Rechazos DEF Condicion
<1>7. CASE llamada = 2
  <2>1. \A j \in 0 .. i - 1 : Vista(j) # p
    <3>1. \A j \in 0 .. i - 1 : j \in 0 .. largo - 1 /\ j # i
      BY <1>1 DEF Datos
    <3> QED BY <1>1, <1>3, <3>1, Vistas
  <2>2. p \notin Limpias
    BY <1>7, <2>1 DEF Limpias
  <2> QED BY <1>1, <1>2, <1>3, <1>4, <1>5, <1>7, <2>2, Rechazos DEF Condicion
<1>8. CASE llamada \in {3, 4}
  <2>1. pag.lockeo \/ ~ pag.uso
    BY <1>3, <1>5, <1>8 DEF Limpias, esta_unlockeada
  <2>2. es_0_0(pag) <=> ~ pag.lockeo /\ ~ pag.modificacion
    BY <1>5, <2>1 DEF es_0_0, Bits
  <2>3. es_0_1(pag) <=> ~ pag.lockeo
    BY <1>5, <2>1 DEF es_0_1, Bits
  <2> QED BY <1>1, <1>2, <1>3, <1>4, <1>5, <1>8, <2>2, <2>3, Rechazos DEF Condicion
<1> QED BY <1>1, <1>2, <1>6, <1>7, <1>8

(* The side effect of a test, on the bits as they were before the search.  *)
LEMMA ProbarBien ==
  ASSUME RInv, Buscando, i < largo, Probar
  PROVE  paginas' = Apagar(inicial.paginas,
                           IF llamada \in {2, 4} /\ esta_unlockeada(Antes(Vista(i)))
                           THEN Limpias \cup {Vista(i)} ELSE Limpias)
<1> USE DEF RInv
<1>1. /\ Pagina = Vista(i) /\ Vista(i) \in Lista
  BY Prueba
<1>2. PICK p \in Lista : p = Vista(i)
  BY <1>1
<1>3. /\ paginas[p].lockeo = Antes(p).lockeo
      /\ DOMAIN inicial.paginas = Lista
  BY ApagarBien DEF Datos
<1>4. CASE llamada \in {2, 4} /\ esta_unlockeada(Antes(p))
  <2>1. paginas' = [paginas EXCEPT ![p].uso = FALSE]
    BY <1>1, <1>2, <1>3, <1>4 DEF Probar, esta_unlockeada
  <2>2. paginas = [q \in Lista |-> IF q \in Limpias THEN [Antes(q) EXCEPT !.uso = FALSE]
                                   ELSE Antes(q)]
    BY <1>3 DEF Apagar, Antes
  <2>3. paginas' = [q \in Lista |-> IF q = p THEN [paginas[p] EXCEPT !.uso = FALSE]
                                    ELSE paginas[q]]
    BY <2>1, <2>2
  <2>4. [paginas[p] EXCEPT !.uso = FALSE] = [Antes(p) EXCEPT !.uso = FALSE]
    <3>1. paginas[p] = IF p \in Limpias THEN [Antes(p) EXCEPT !.uso = FALSE] ELSE Antes(p)
      BY <2>2
    <3>2. Antes(p) \in Bits
      BY ApagarBien
    <3>3. [[Antes(p) EXCEPT !.uso = FALSE] EXCEPT !.uso = FALSE]
            = [Antes(p) EXCEPT !.uso = FALSE]
      BY <3>2 DEF Bits
    <3> QED BY <3>1, <3>3
  <2>5. \A q \in Lista : paginas'[q] = IF q \in Limpias \cup {p}
                                       THEN [Antes(q) EXCEPT !.uso = FALSE] ELSE Antes(q)
    BY <2>2, <2>3, <2>4
  <2>6. Apagar(inicial.paginas, Limpias \cup {p})
          = [q \in Lista |-> IF q \in Limpias \cup {p} THEN [Antes(q) EXCEPT !.uso = FALSE]
                             ELSE Antes(q)]
    BY <1>3 DEF Apagar, Antes
  <2>7. paginas' = Apagar(inicial.paginas, Limpias \cup {p})
    BY <2>3, <2>5, <2>6
  <2> QED BY <1>2, <1>4, <2>7
<1>5. CASE ~ (llamada \in {2, 4} /\ esta_unlockeada(Antes(p)))
  BY <1>1, <1>2, <1>3, <1>5 DEF Probar, esta_unlockeada
<1> QED BY <1>2, <1>4, <1>5

-----------------------------------------------------------------------------
(* The invariant is inductive.                                             *)

(* The search begins. *)
LEMMA InicioR == Init => RInv
<1> SUFFICES ASSUME Init PROVE RInv
  OBVIOUS
<1>1. /\ largo \in 1 .. Len(Candidatas) /\ Len(Candidatas) \in Nat
      /\ Candidatas \in Seq(ToSet(Candidatas)) /\ DOMAIN Candidatas = 1 .. Len(Candidatas)
      /\ \A k, j \in 1 .. Len(Candidatas) : Candidatas[k] = Candidatas[j] => k = j
  BY CandidatasAssumption, LenProperties DEF Init, IsInjective
<1>2. /\ inicial.lista = SubSeq(Candidatas, 1, largo) /\ inicial.lista = paginas_para_swapeo
      /\ inicial.paginas = paginas /\ inicial.puntero = index_puntero_cm
  BY DEF Init
<1>3. Datos
  <2>1. /\ inicial.lista \in Seq(ToSet(Candidatas)) /\ Len(inicial.lista) = largo
        /\ \A k \in 1 .. largo : inicial.lista[k] = Candidatas[k]
    BY <1>1, <1>2, SubSeqProperties
  <2>2. inicial.lista \in Seq(Lista)
    <3>1. DOMAIN inicial.lista = 1 .. largo /\ largo \in Nat
      BY <1>1, <2>1, LenProperties
    <3>2. inicial.lista = [k \in 1 .. largo |-> inicial.lista[k]]
      BY <2>1, <3>1
    <3>3. \A k \in 1 .. largo : inicial.lista[k] \in Lista
      BY <3>1 DEF Lista, ToSet
    <3> QED BY <3>1, <3>2, <3>3
  <2>3. \A k, j \in 1 .. largo : inicial.lista[k] = inicial.lista[j] => k = j
    BY <1>1, <2>1
  <2> QED BY <1>1, <1>2, <2>1, <2>2, <2>3 DEF Init, Datos, Lista
<1>4. llamada = 1 /\ i = 0 /\ victima = 0 /\ index_actual = inicial.puntero
  BY <1>2 DEF Init
<1>5. Turno(0) = inicial.puntero
  BY <1>3 DEF Datos, Turno
<1>6. Busqueda
  BY <1>2, <1>3, <1>4, <1>5 DEF Busqueda, Datos
<1>7. Rechazadas
  BY <1>4 DEF Rechazadas
<1>8. paginas = Apagar(inicial.paginas, Limpias)
  <2>1. Limpias = {}
    BY <1>4 DEF Limpias
  <2>2. inicial.paginas = [p \in Lista |-> inicial.paginas[p]] /\ DOMAIN inicial.paginas = Lista
    BY <1>3 DEF Datos
  <2> QED BY <1>2, <2>1, <2>2 DEF Apagar
<1> QED BY <1>3, <1>6, <1>7, <1>8 DEF RInv

(* What no step of the search changes. *)
LEMMA Quietos ==
  ASSUME RInv, UNCHANGED <<largo, inicial>>
  PROVE  /\ Datos' /\ Lista' = Lista
         /\ \A j : Turno(j)' = Turno(j) /\ Vista(j)' = Vista(j)
         /\ \A p : Antes(p)' = Antes(p)
BY DEF RInv, Datos, Lista, Turno, Vista, Antes

(* The test passes: the page is the victim. *)
LEMMA EncontrarBien ==
  ASSUME RInv, Encontrar
  PROVE  RInv'
<1>1. /\ Buscando /\ i < largo /\ Condicion /\ Probar
      /\ victima' = index_actual + 1
      /\ paginas_para_swapeo' = ReplaceAt(paginas_para_swapeo, index_actual + 1, Requerida)
      /\ index_puntero_cm' = indice_siguiente_lista_circular(paginas_para_swapeo, index_actual)
      /\ UNCHANGED <<largo, llamada, i, index_actual, inicial>>
  BY DEF Encontrar
<1>2. /\ Vista(i) \in Lista /\ i \in 0 .. largo - 1 /\ index_actual = Turno(i)
      /\ llamada \in 1 .. 4 /\ ~ Rechaza(llamada, Antes(Vista(i)))
  BY <1>1, Prueba
<1>3. /\ Datos /\ paginas_para_swapeo = inicial.lista /\ Len(inicial.lista) = largo
      /\ Turno(i) \in 0 .. largo - 1 /\ largo \in Nat \ {0}
  BY <1>1, <1>2, Turnos DEF RInv, Datos, Busqueda, Buscando
<1>4. /\ Datos' /\ Lista' = Lista
      /\ \A j : Turno(j)' = Turno(j) /\ Vista(j)' = Vista(j)
      /\ \A p : Antes(p)' = Antes(p)
  BY <1>1, Quietos
<1>5. Busqueda'
  <2>1. victima' = Turno(i) + 1 /\ victima' \in 1 .. largo
    BY <1>1, <1>2, <1>3
  <2>2. index_puntero_cm' = IF victima' = largo THEN 0 ELSE victima'
    BY <1>1, <1>2, <1>3, <2>1 DEF indice_siguiente_lista_circular
  <2>3. ~ Rechaza(llamada, Antes(Vista(i)))' /\ Turno(i)' = Turno(i)
    <3>1. Vista(i)' = Vista(i) /\ Antes(Vista(i))' = Antes(Vista(i)) /\ llamada' = llamada
      BY <1>1 DEF Vista, Antes, Turno
    <3> QED BY <1>1, <1>2, <1>4, <3>1 DEF Rechaza
  <2>4. Turno(i)' = Turno(i)
    BY <1>1 DEF Turno
  <2> QED BY <1>1, <1>2, <1>3, <2>1, <2>2, <2>3, <2>4 DEF Busqueda
<1>6. Rechazadas'
  <2>1. Rechazadas
    BY DEF RInv
  <2> QED BY <1>1, <1>4, <2>1 DEF Rechazadas, Rechaza, Antes, Vista, Turno
<1>7. Limpias' = Limpias
  BY <1>1, <1>4 DEF Limpias, Antes, Vista, Turno
<1>8. paginas' = Apagar(inicial.paginas, Limpias)
  <2>1. PICK p \in Lista : p = Vista(i)
    BY <1>2
  <2>2. Antes(p) \in Bits
    BY <1>3, ApagarBien
  <2>3. CASE llamada \in {1, 3}
    BY <1>1, <2>3, ProbarBien
  <2>4. CASE llamada = 4
    <3>1. p \in Limpias \/ ~ esta_unlockeada(Antes(p))
      BY <2>4 DEF Limpias
    <3>2. p \in Limpias => Limpias \cup {p} = Limpias
      OBVIOUS
    <3> QED BY <1>1, <2>1, <3>1, <3>2, ProbarBien
  <2>5. CASE llamada = 2
    <3>1. ~ Antes(p).uso
      BY <1>2, <2>1, <2>2, <2>5, Rechazos DEF es_0_1
    <3>2. [Antes(p) EXCEPT !.uso = FALSE] = Antes(p)
      BY <2>2, <3>1 DEF Bits
    <3>3. DOMAIN inicial.paginas = Lista
      BY <1>3 DEF Datos
    <3>4. \A S : Apagar(inicial.paginas, S)
                   = [q \in Lista |-> IF q \in S THEN [Antes(q) EXCEPT !.uso = FALSE]
                                      ELSE Antes(q)]
      BY <3>3 DEF Apagar, Antes
    <3>5. \A q \in Lista :
            (IF q \in Limpias \cup {p} THEN [Antes(q) EXCEPT !.uso = FALSE] ELSE Antes(q))
              = IF q \in Limpias THEN [Antes(q) EXCEPT !.uso = FALSE] ELSE Antes(q)
      BY <3>2
    <3>6. Apagar(inicial.paginas, Limpias \cup {p}) = Apagar(inicial.paginas, Limpias)
      BY <3>4, <3>5
    <3>7. \/ paginas' = Apagar(inicial.paginas, Limpias \cup {p})
          \/ paginas' = Apagar(inicial.paginas, Limpias)
      BY <1>1, <2>1, ProbarBien
    <3> QED BY <3>6, <3>7
  <2> QED BY <1>2, <2>3, <2>4, <2>5
<1> QED BY <1>1, <1>4, <1>5, <1>6, <1>7, <1>8 DEF RInv

(* The test fails: the page is rejected and the next turn begins. *)
LEMMA AvanzarBien ==
  ASSUME RInv, Avanzar
  PROVE  RInv'
<1>1. /\ Buscando /\ i < largo /\ ~ Condicion /\ Probar
      /\ i' = i + 1
      /\ index_actual' = indice_siguiente_lista_circular(paginas_para_swapeo, index_actual)
      /\ UNCHANGED <<largo, paginas_para_swapeo, index_puntero_cm, llamada, victima, inicial>>
  BY DEF Avanzar
<1>2. /\ Vista(i) \in Lista /\ i \in 0 .. largo - 1 /\ index_actual = Turno(i)
      /\ llamada \in 1 .. 4 /\ Rechaza(llamada, Antes(Vista(i)))
  BY <1>1, Prueba
<1>3. /\ Datos /\ paginas_para_swapeo = inicial.lista /\ Len(inicial.lista) = largo
      /\ index_puntero_cm = inicial.puntero /\ victima = 0
      /\ largo \in Nat \ {0} /\ inicial.puntero \in 0 .. largo - 1
  BY <1>1 DEF RInv, Datos, Busqueda, Buscando
<1>4. /\ Datos' /\ Lista' = Lista
      /\ \A j : Turno(j)' = Turno(j) /\ Vista(j)' = Vista(j)
      /\ \A p : Antes(p)' = Antes(p)
  BY <1>1, Quietos
<1>5. Busqueda'
  <2>1. i + 1 < largo => index_actual' = Turno(i + 1)
    BY <1>1, <1>2, <1>3 DEF indice_siguiente_lista_circular, Turno
  <2>2. Turno(i)' = Turno(i + 1)
    BY <1>1 DEF Turno
  <2>3. i' < largo' => index_actual' = Turno(i)'
    BY <1>1, <2>1, <2>2
  <2> QED BY <1>1, <1>2, <1>3, <2>3 DEF Busqueda
<1>6. Rechazadas'
  <2>1. /\ \A n \in 1 .. llamada - 1, p \in Lista : Rechaza(n, Antes(p))
        /\ \A j \in 0 .. i - 1 : Rechaza(llamada, Antes(Vista(j)))
    BY DEF RInv, Rechazadas
  <2>2. \A j \in 0 .. (i + 1) - 1 : j \in 0 .. i - 1 \/ j = i
    BY <1>2
  <2>3. \A j \in 0 .. (i + 1) - 1 : Rechaza(llamada, Antes(Vista(j)))
    BY <1>2, <2>1, <2>2
  <2> QED BY <1>1, <2>1, <2>3 DEF Rechazadas, Rechaza, Antes, Vista, Turno, Lista
<1>7. Limpias' = IF llamada \in {2, 4} /\ esta_unlockeada(Antes(Vista(i)))
                 THEN Limpias \cup {Vista(i)} ELSE Limpias
  <2>1. Limpias' = {p \in Lista : /\ esta_unlockeada(Antes(p))
                                  /\ \/ llamada > 2
                                     \/ /\ llamada = 2
                                        /\ \E j \in 0 .. (i + 1) - 1 : p = Vista(j)}
    BY <1>1 DEF Limpias, Antes, Vista, Turno, Lista
  <2>2. \A p : (\E j \in 0 .. (i + 1) - 1 : p = Vista(j))
                 <=> (\E j \in 0 .. i - 1 : p = Vista(j)) \/ p = Vista(i)
    <3>1. /\ \A j \in 0 .. (i + 1) - 1 : j \in 0 .. i - 1 \/ j = i
          /\ \A j \in 0 .. i - 1 : j \in 0 .. (i + 1) - 1
          /\ i \in 0 .. (i + 1) - 1
      BY <1>2
    <3> QED BY <3>1
  <2>3. CASE llamada = 2
    BY <1>2, <2>1, <2>2, <2>3 DEF Limpias
  <2>4. CASE llamada = 4
    BY <1>2, <2>1, <2>4 DEF Limpias
  <2>5. CASE llamada \in {1, 3}
    BY <2>1, <2>5 DEF Limpias
  <2> QED BY <1>2, <2>3, <2>4, <2>5
<1>8. paginas' = Apagar(inicial.paginas, Limpias')
  BY <1>1, <1>7, ProbarBien
<1> QED BY <1>1, <1>4, <1>5, <1>6, <1>8 DEF RInv

(* A call that visited every page without choosing one is followed by the  *)
(* next.                                                                   *)
LEMMA OtraBien ==
  ASSUME RInv, OtraLlamada
  PROVE  RInv'
<1>1. /\ Buscando /\ i = largo /\ llamada' = llamada + 1 /\ i' = 0
      /\ index_actual' = index_puntero_cm
      /\ UNCHANGED <<largo, paginas_para_swapeo, paginas, index_puntero_cm, victima, inicial>>
  BY DEF OtraLlamada
<1>2. /\ Datos /\ paginas_para_swapeo = inicial.lista
      /\ index_puntero_cm = inicial.puntero /\ victima = 0 /\ llamada \in 1 .. 4
      /\ largo \in Nat \ {0} /\ inicial.puntero \in 0 .. largo - 1
      /\ paginas = Apagar(inicial.paginas, Limpias)
  BY <1>1 DEF RInv, Datos, Busqueda, Buscando
<1>3. /\ Datos' /\ Lista' = Lista
  BY <1>1, Quietos
<1>4. Busqueda'
  <2>1. Turno(i)' = inicial.puntero
    BY <1>1, <1>2 DEF Turno
  <2> QED BY <1>1, <1>2, <2>1 DEF Busqueda
<1>5. \A p \in Lista : \E j \in 0 .. i - 1 : p = Vista(j)
  BY <1>1, <1>2, Vistas
<1>6. Rechazadas'
  <2>1. \A n \in 1 .. (llamada + 1) - 1 : n \in 1 .. llamada - 1 \/ n = llamada
    BY <1>2
  <2>2. \A p \in Lista : Rechaza(llamada, Antes(p))
    BY <1>5 DEF RInv, Rechazadas
  <2>3. \A n \in 1 .. (llamada + 1) - 1, p \in Lista : Rechaza(n, Antes(p))
    BY <2>1, <2>2 DEF RInv, Rechazadas
  <2>4. (\A n \in 1 .. llamada - 1, p \in Lista : Rechaza(n, Antes(p)))'
    BY <1>1, <2>3 DEF Rechaza, Antes, Lista
  <2>5. \A j \in 0 .. i' - 1 : FALSE
    BY <1>1
  <2> QED BY <2>4, <2>5 DEF Rechazadas
<1>7. Limpias' = Limpias
  <2>1. Limpias' = {p \in Lista : esta_unlockeada(Antes(p)) /\ llamada + 1 > 2}
    BY <1>1, <1>2 DEF Limpias, Antes, Lista
  <2>2. CASE llamada = 1
    BY <2>1, <2>2 DEF Limpias
  <2>3. CASE llamada = 2
    BY <1>5, <2>1, <2>3 DEF Limpias
  <2>4. CASE llamada \in {3, 4}
    BY <2>1, <2>4 DEF Limpias
  <2> QED BY <1>2, <2>2, <2>3, <2>4
<1> QED BY <1>1, <1>2, <1>3, <1>4, <1>6, <1>7 DEF RInv

(* The invariant of the search holds in every state of the loops.          *)
THEOREM SiempreRInv == Spec => []RInv
<1>1. Init => RInv
  BY InicioR
<1>2. RInv /\ [Next]_vars => RInv'
  <2> SUFFICES ASSUME RInv, [Next]_vars PROVE RInv'
    OBVIOUS
  <2>1. CASE UNCHANGED vars
    <3>1. Datos' /\ Busqueda'
      BY <2>1 DEF vars, RInv, Datos, Busqueda, Rechaza, Lista, Turno, Vista, Antes
    <3>2. Rechazadas'
      BY <2>1 DEF vars, RInv, Rechazadas, Rechaza, Lista, Turno, Vista, Antes
    <3>3. Limpias' = Limpias
      BY <2>1 DEF vars, Limpias, Lista, Turno, Vista, Antes
    <3> QED BY <2>1, <3>1, <3>2, <3>3 DEF vars, RInv
  <2> QED BY <2>1, EncontrarBien, AvanzarBien, OtraBien DEF Next
<1> QED BY <1>1, <1>2, PTL DEF Spec

-----------------------------------------------------------------------------
(* The theorems.                                                           *)

(* The search never takes the use bit away from a pinned page, nor from    *)
(* any page when a 00 page was there to be taken: es_0_1 clears use bits   *)
(* only after a whole round of es_0_0 has failed.                          *)
THEOREM Oportunidad == Spec => []SegundaOportunidad
<1>1. RInv => SegundaOportunidad
  <2> SUFFICES ASSUME RInv, NEW p \in Lista, paginas[p].uso # inicial.paginas[p].uso,
                      NEW q \in Lista
               PROVE  ~ inicial.paginas[p].lockeo /\ ~ es_0_0(inicial.paginas[q])
    BY DEF SegundaOportunidad, Lista
  <2>1. p \in Limpias
    BY ApagarBien DEF RInv, Antes
  <2>2. esta_unlockeada(Antes(p)) /\ llamada >= 2 /\ llamada \in 1 .. 5
    BY <2>1 DEF Limpias, RInv, Busqueda
  <2>3. 1 \in 1 .. llamada - 1
    BY <2>2
  <2>4. Rechaza(1, Antes(q)) /\ Antes(q) \in Bits
    BY <2>3, ApagarBien DEF RInv, Rechazadas
  <2> QED BY <2>2, <2>4, Rechazos DEF esta_unlockeada, Antes
<1> QED BY <1>1, SiempreRInv, PTL

(* How a search ends: with a victim that no earlier call would take, or    *)
(* with every page pinned.                                                 *)
LEMMA Final ==
  ASSUME RInv, ~ Buscando
  PROVE  \/ /\ victima # 0 /\ llamada \in 1 .. 4 /\ i \in 0 .. largo - 1
            /\ victima = Turno(i) + 1 /\ inicial.lista[victima] = Vista(i)
            /\ victima \in 1 .. largo /\ Vista(i) \in Lista
            /\ ~ Rechaza(llamada, Antes(Vista(i)))
         \/ victima = 0 /\ llamada = 5 /\ \A p \in Lista : Antes(p).lockeo
<1> USE DEF RInv
<1>1. CASE victima # 0
  <2>1. /\ llamada \in 1 .. 4 /\ i \in 0 .. largo - 1 /\ victima = Turno(i) + 1
        /\ ~ Rechaza(llamada, Antes(Vista(i)))
    BY <1>1 DEF Busqueda, Datos
  <2>2. largo \in Nat \ {0} /\ Turno(i) \in 0 .. largo - 1 /\ Vista(i) \in Lista
    BY <2>1, Turnos, Vistas DEF Datos
  <2>3. victima \in 1 .. largo /\ inicial.lista[victima] = Vista(i)
    BY <2>1, <2>2 DEF Vista
  <2> QED BY <1>1, <2>1, <2>2, <2>3
<1>2. CASE victima = 0
  <2>1. llamada = 5
    BY <1>2 DEF Buscando, Busqueda
  <2>2. ASSUME NEW p \in Lista PROVE Antes(p).lockeo
    <3>1. 4 \in 1 .. llamada - 1
      BY <2>1
    <3>2. Rechaza(4, Antes(p)) /\ Antes(p) \in Bits
      BY <3>1, ApagarBien DEF Rechazadas
    <3> QED BY <3>2, Rechazos
  <2> QED BY <1>2, <2>1, <2>2
<1> QED BY <1>1, <1>2

(* The victim is not pinned and, by the bits before the search, no other   *)
(* page that is not pinned is of a better class; there is a victim unless  *)
(* every page is pinned.                                                   *)
THEOREM MejorClase == Spec => []VictimaDeLaMejorClase
<1>1. RInv => VictimaDeLaMejorClase
  <2> SUFFICES ASSUME RInv, ~ Buscando PROVE VictimaDeLaMejorClase
    BY DEF VictimaDeLaMejorClase
  <2> DEFINE libres == {p \in Lista : ~ Antes(p).lockeo}
  <2>1. CASE victima = 0
    <3>1. libres = {}
      BY <2>1, Final
    <3> QED BY <2>1, <3>1 DEF VictimaDeLaMejorClase, Lista, Antes
  <2>2. CASE victima # 0
    <3>1. PICK v \in Lista : /\ v = inicial.lista[victima] /\ v = Vista(i)
                             /\ ~ Rechaza(llamada, Antes(v)) /\ llamada \in 1 .. 4
      BY <2>2, Final
    <3>2. Antes(v) \in Bits
      BY ApagarBien DEF RInv
    <3>3. v \in libres
      BY <3>1, <3>2, Rechazos DEF es_0_0, es_0_1
    <3>4. ASSUME NEW p \in Lista, ~ Antes(p).lockeo
          PROVE  Clase(Antes(v)) <= Clase(Antes(p))
      <4>1. PICK a \in Bits : a = Antes(v)
        BY <3>2
      <4>2. PICK b \in Bits : b = Antes(p)
        BY ApagarBien DEF RInv
      <4>3. \A n \in 1 .. llamada - 1 : Rechaza(n, b)
        BY <4>2 DEF RInv, Rechazadas
      <4>4. /\ Clase(b) >= 0
            /\ b.uso => Clase(b) >= 2
            /\ b.modificacion => Clase(b) >= 1
            /\ b.uso /\ b.modificacion => Clase(b) = 3
            /\ Clase(a) <= 3
            /\ ~ a.modificacion => Clase(a) <= 2
            /\ ~ a.uso => Clase(a) <= 1
            /\ ~ a.uso /\ ~ a.modificacion => Clase(a) = 0
            /\ Clase(a) \in Int /\ Clase(b) \in Int
        BY DEF Clase
      <4>5. CASE llamada = 1
        <5>1. ~ a.uso /\ ~ a.modificacion
          BY <3>1, <4>1, <4>5, Rechazos DEF es_0_0
        <5> QED BY <4>1, <4>2, <4>4, <5>1
      <4>6. CASE llamada = 2
        <5>1. ~ a.uso
          BY <3>1, <4>1, <4>6, Rechazos DEF es_0_1
        <5>2. b.uso \/ b.modificacion
          BY <3>4, <4>2, <4>3, <4>6, Rechazos DEF es_0_0
        <5> QED BY <4>1, <4>2, <4>4, <5>1, <5>2
      <4>7. CASE llamada = 3
        <5>1. ~ a.modificacion
          BY <3>1, <4>1, <4>7, Rechazos
        <5>2. b.uso
          BY <3>4, <4>2, <4>3, <4>7, Rechazos DEF es_0_1
        <5> QED BY <4>1, <4>2, <4>4, <5>1, <5>2
      <4>8. CASE llamada = 4
        <5>1. b.uso
          BY <3>4, <4>2, <4>3, <4>8, Rechazos DEF es_0_1
        <5>2. b.modificacion
          BY <3>4, <4>2, <4>3, <4>8, Rechazos
        <5> QED BY <4>1, <4>2, <4>4, <5>1, <5>2
      <4> QED BY <3>1, <4>5, <4>6, <4>7, <4>8
    <3> QED BY <2>2, <3>1, <3>3, <3>4 DEF VictimaDeLaMejorClase, Lista, Antes
  <2> QED BY <2>1, <2>2
<1> QED BY <1>1, SiempreRInv, PTL

(* The four rounds of the definition, when the loops are over: which       *)
(* positions they return and which use bits the second clears.             *)
LEMMA Definicion ==
  ASSUME RInv, ~ Buscando
  PROVE  Esperado.pos = victima /\ Esperado.paginas = paginas
<1> DEFINE L == inicial.lista
           B == inicial.paginas
           H == inicial.puntero
           primera == PrimeraDeLaRonda(L, H, B, es_0_0)
           segunda == PrimeraDeLaRonda(L, H, B, es_0_1)
           luego   == Apagar(B, Apagadas(L, H, B, segunda))
           tercera == PrimeraDeLaRonda(L, H, luego, es_0_0)
           cuarta  == PrimeraDeLaRonda(L, H, luego, es_0_1)
<1>1. Esperado = IF primera # 0 THEN [pos |-> primera, paginas |-> B]
                 ELSE [pos |-> IF segunda # 0 THEN segunda
                               ELSE IF tercera # 0 THEN tercera ELSE cuarta,
                       paginas |-> luego]
  BY DEF Esperado, seleccion_de_victima_clock_modificado
<1>2. /\ Datos /\ paginas = Apagar(B, Limpias)
      /\ \A n \in 1 .. llamada - 1, p \in Lista : Rechaza(n, Antes(p))
      /\ \A j \in 0 .. i - 1 : Rechaza(llamada, Antes(Vista(j)))
      /\ llamada \in 1 .. 5 /\ i \in 0 .. largo
  BY DEF RInv, Rechazadas, Busqueda
<1>3. \A p \in Lista : Antes(p) \in Bits /\ Antes(p) = B[p]
  BY <1>2, ApagarBien DEF Antes
<1>4. \A j \in 0 .. i - 1 : Vista(j) \in Lista
  BY <1>2, Vistas DEF Datos
<1>5. CASE llamada = 1
  <2>1. /\ i \in 0 .. largo - 1 /\ victima = Turno(i) + 1 /\ victima # 0
        /\ es_0_0(B[Vista(i)])
    BY <1>3, <1>5, Final, Rechazos
  <2>2. primera = victima
    BY <1>2, <1>3, <1>4, <1>5, <2>1, Primera00, Rechazos
  <2>3. Limpias = {}
    BY <1>5 DEF Limpias
  <2>4. Apagar(B, {}) = B
    <3>1. B = [p \in DOMAIN B |-> B[p]]
      BY <1>2 DEF Datos
    <3> QED BY <3>1 DEF Apagar
  <2> HIDE DEF primera, segunda, luego, tercera, cuarta, B
  <2> QED BY <1>1, <1>2, <2>1, <2>2, <2>3, <2>4
<1>6. llamada > 1 => primera = 0
  <2>1. llamada > 1 => 1 \in 1 .. llamada - 1
    BY <1>2
  <2>2. llamada > 1 => \A p \in Lista : ~ es_0_0(B[p])
    BY <1>2, <1>3, <2>1, Rechazos
  <2> QED BY <1>2, <2>2, Ninguna00
<1>7. CASE llamada = 2
  <2>1. /\ i \in 0 .. largo - 1 /\ victima = Turno(i) + 1 /\ victima # 0
        /\ es_0_1(B[Vista(i)])
    BY <1>3, <1>7, Final, Rechazos
  <2>2. segunda = victima
    BY <1>2, <1>3, <1>4, <1>7, <2>1, Primera01, Rechazos
  <2>3. Apagadas(L, H, B, segunda) = Limpias
    <3>1. Apagadas(L, H, B, segunda)
            = {p \in Lista : esta_unlockeada(Antes(p)) /\ \E j \in 0 .. i - 1 : p = Vista(j)}
      BY <1>2, <2>1, <2>2, ApagadasHasta
    <3> QED BY <1>7, <3>1 DEF Limpias
  <2>4. primera = 0
    BY <1>6, <1>7
  <2>5. luego = paginas
    BY <1>2, <2>3
  <2> HIDE DEF primera, segunda, luego, tercera, cuarta
  <2> QED BY <1>1, <2>1, <2>2, <2>4, <2>5
<1>8. CASE llamada > 2
  <2>0. primera = 0
    BY <1>2, <1>6, <1>8
  <2>1. segunda = 0
    <3>1. 2 \in 1 .. llamada - 1
      BY <1>2, <1>8
    <3>2. \A p \in Lista : ~ es_0_1(B[p])
      BY <1>2, <1>3, <3>1, Rechazos
    <3> QED BY <1>2, <3>2, Ninguna01
  <2>2. Apagadas(L, H, B, segunda) = Limpias
    BY <1>2, <1>8, <2>1, ApagadasTodas DEF Limpias
  <2>3. luego = paginas
    BY <1>2, <2>2
  <2>4. ASSUME NEW p \in Lista
        PROVE  /\ es_0_0(luego[p]) <=> ~ Rechaza(3, Antes(p))
               /\ es_0_1(luego[p]) <=> ~ Rechaza(4, Antes(p))
    <3>1. PICK pag : pag = Apagar(inicial.paginas, Limpias)[p]
      OBVIOUS
    <3>2. /\ pag \in Bits /\ Antes(p) \in Bits
          /\ pag.lockeo = Antes(p).lockeo /\ pag.modificacion = Antes(p).modificacion
          /\ p \in Limpias => ~ pag.uso
      BY <1>2, <3>1, ApagarBien
    <3>3. pag.lockeo \/ ~ pag.uso
      BY <1>8, <3>2 DEF Limpias, esta_unlockeada
    <3>4. es_0_0(pag) <=> ~ (Antes(p).lockeo \/ Antes(p).modificacion)
      BY <3>2, <3>3 DEF es_0_0, Bits
    <3>5. es_0_1(pag) <=> ~ Antes(p).lockeo
      BY <3>2, <3>3 DEF es_0_1, Bits
    <3>6. luego[p] = pag
      BY <1>2, <2>3, <3>1
    <3> HIDE DEF luego
    <3> QED BY <3>2, <3>4, <3>5, <3>6, Rechazos
  <2> HIDE DEF primera, segunda, luego
  <2>5. CASE llamada = 3
    <3>1. /\ i \in 0 .. largo - 1 /\ victima = Turno(i) + 1 /\ victima # 0
          /\ es_0_0(luego[Vista(i)])
      BY <2>4, <2>5, Final
    <3>2. tercera = victima
      BY <1>2, <1>4, <2>4, <2>5, <3>1, Primera00
    <3> HIDE DEF tercera, cuarta
    <3> QED BY <1>1, <2>0, <2>1, <2>3, <3>1, <3>2
  <2>6. llamada > 3 => tercera = 0
    <3>1. llamada > 3 => 3 \in 1 .. llamada - 1
      BY <1>2
    <3> QED BY <1>2, <2>4, <3>1, Ninguna00
  <2>7. CASE llamada = 4
    <3>1. /\ i \in 0 .. largo - 1 /\ victima = Turno(i) + 1 /\ victima # 0
          /\ es_0_1(luego[Vista(i)])
      BY <2>4, <2>7, Final
    <3>2. cuarta = victima
      BY <1>2, <1>4, <2>4, <2>7, <3>1, Primera01
    <3>3. tercera = 0
      BY <2>6, <2>7
    <3> HIDE DEF tercera, cuarta
    <3> QED BY <1>1, <2>0, <2>1, <2>3, <3>2, <3>3
  <2>8. CASE llamada = 5
    <3>1. 4 \in 1 .. llamada - 1 /\ victima = 0
      BY <2>8, Final
    <3>2. cuarta = 0
      BY <1>2, <2>4, <3>1, Ninguna01
    <3>3. tercera = 0
      BY <2>6, <2>8
    <3> HIDE DEF tercera, cuarta
    <3> QED BY <1>1, <2>0, <2>1, <2>3, <3>1, <3>2, <3>3
  <2> QED BY <1>2, <1>8, <2>5, <2>6, <2>7, <2>8
<1> QED BY <1>2, <1>5, <1>7, <1>8

(* The four loops of circular_list_get_by_condition choose the page, and   *)
(* leave the use bits, the list and the hand, that the closed definition   *)
(* says: what the memory of the server is modelled with is what the code   *)
(* runs, for a list of any length.                                         *)
THEOREM LazosComoDefinicion == Spec => []ComoLaDefinicion
<1>1. RInv => ComoLaDefinicion
  <2> SUFFICES ASSUME RInv, ~ Buscando PROVE ComoLaDefinicion
    BY DEF ComoLaDefinicion
  <2>1. victima = Esperado.pos /\ paginas = Esperado.paginas
    BY Definicion
  <2>2. CASE victima = 0
    BY <2>1, <2>2 DEF ComoLaDefinicion, RInv, Busqueda
  <2>3. CASE victima # 0
    <3>1. /\ paginas_para_swapeo = ReplaceAt(inicial.lista, victima, Requerida)
          /\ index_puntero_cm = IF victima = largo THEN 0 ELSE victima
      BY <2>3 DEF RInv, Busqueda
    <3>2. victima \in 1 .. largo /\ largo \in Nat \ {0}
      BY <2>3, Final DEF RInv, Datos
    <3>3. victima \in 0 .. 2 * largo - 1
      BY <3>2
    <3>4. victima % largo = IF victima < largo THEN victima ELSE victima - largo
      BY <3>2, <3>3, Resto
    <3>5. index_puntero_cm = victima % largo
      BY <3>1, <3>2, <3>4
    <3> QED BY <2>1, <2>3, <3>1, <3>5 DEF ComoLaDefinicion
  <2> QED BY <2>2, <2>3
<1> QED BY <1>1, SiempreRInv, PTL

=============================================================================

---------------------------- MODULE MemoriaProofs ----------------------------
(***************************************************************************)
(* Lemmas about the operators of Memoria and Reemplazo: what each one      *)
(* keeps of a consistent memory, and what it does to what the memory       *)
(* stands for: which dishes it has and which quantities it answers for     *)
(* each (Valor), how many fit in it, and when a victim is missing.         *)
(***************************************************************************)
EXTENDS Memoria, SequenceTheorems, FiniteSetTheorems, WellFoundedInduction, TLAPS

-----------------------------------------------------------------------------
(* Positions of a sequence.                                                *)

(* The minimum of a set of naturals exists. *)
LEMMA MinimoNat ==
  ASSUME NEW S \in SUBSET Nat, S # {}
  PROVE  \E x \in S : \A y \in S : x <= y
<1> DEFINE R == {par \in Nat \X Nat : par[1] < par[2]}
<1>1. IsWellFoundedOn(R, Nat)
  BY NatLessThanWellFounded DEF OpToRel
<1>2. PICK x \in S : \A y \in S : ~ (<<y, x>> \in R)
  BY <1>1, WFMin
<1>3. ASSUME NEW y \in S PROVE x <= y
  <2>1. <<y, x>> \in Nat \X Nat /\ <<y, x>>[1] = y /\ <<y, x>>[2] = x
    OBVIOUS
  <2>2. y < x => <<y, x>> \in R
    BY <2>1
  <2> QED BY <2>2, <1>2
<1> QED BY <1>3

(* Min, which SelectInSeq uses, gives it. *)
LEMMA MinimoDe ==
  ASSUME NEW S \in SUBSET Nat, S # {}
  PROVE  Min(S) \in S
BY MinimoNat DEF Min

-----------------------------------------------------------------------------
(* Enumerations.                                                           *)

(* Appending a new element (list_add) keeps an enumeration. *)
LEMMA EnumeraAppend ==
  ASSUME NEW S, NEW s, Enumera(s, S), NEW x, x \notin S
  PROVE  Enumera(Append(s, x), S \cup {x})
<1> DEFINE t == Append(s, x)
<1>1. s \in Seq(S \cup {x}) /\ x \in S \cup {x}
  BY SeqMonotonic DEF Enumera
<1>2. t \in Seq(S \cup {x}) /\ Len(t) = Len(s) + 1 /\ Len(s) \in Nat
  BY <1>1, AppendProperties, LenProperties
<1>3. \A i \in 1 .. Len(s) : t[i] = s[i] /\ s[i] \in S
  BY <1>1, AppendProperties, LenProperties, ElementOfSeq DEF Enumera
<1>4. t[Len(s) + 1] = x
  BY <1>1, AppendProperties
<1>5. \A y \in S \cup {x} : \E i \in 1 .. Len(t) : t[i] = y
  BY <1>2, <1>3, <1>4 DEF Enumera
<1>6. \A i, j \in 1 .. Len(t) : t[i] = t[j] => i = j
  <2> SUFFICES ASSUME NEW i \in 1 .. Len(t), NEW j \in 1 .. Len(t), t[i] = t[j]
               PROVE i = j
    OBVIOUS
  <2>1. CASE i \in 1 .. Len(s) /\ j \in 1 .. Len(s)
    BY <2>1, <1>3 DEF Enumera
  <2>2. CASE i = Len(s) + 1 /\ j = Len(s) + 1
    BY <2>2
  <2>3. CASE i = Len(s) + 1 /\ j \in 1 .. Len(s)
    BY <2>3, <1>3, <1>4
  <2>4. CASE j = Len(s) + 1 /\ i \in 1 .. Len(s)
    BY <2>4, <1>3, <1>4
  <2> QED BY <1>2, <2>1, <2>2, <2>3, <2>4
<1> QED BY <1>2, <1>5, <1>6 DEF Enumera

(* Putting a new element in the place of another (list_replace) too. *)
LEMMA EnumeraReplaceAt ==
  ASSUME NEW S, NEW s, Enumera(s, S), NEW x, x \notin S, NEW i \in 1 .. Len(s)
  PROVE  Enumera(ReplaceAt(s, i, x), (S \ {s[i]}) \cup {x})
<1> DEFINE t == ReplaceAt(s, i, x)
           T == (S \ {s[i]}) \cup {x}
<1>0. s \in Seq(S) /\ Len(s) \in Nat /\ \A j \in 1 .. Len(s) : s[j] \in S
  BY LenProperties, ElementOfSeq DEF Enumera
<1>1. s \in Seq(S \cup {x})
  BY <1>0, SeqMonotonic
<1>2. /\ t \in Seq(S \cup {x}) /\ Len(t) = Len(s)
      /\ \A j \in 1 .. Len(s) : t[j] = IF j = i THEN x ELSE s[j]
  BY <1>1, ExceptSeq DEF ReplaceAt
<1>3. \A j \in 1 .. Len(s) : t[j] \in T
  BY <1>0, <1>2 DEF Enumera
<1>4. t \in Seq(T)
  <2>1. t \in [1 .. Len(t) -> S \cup {x}]
    BY <1>2, LenProperties
  <2>2. t \in [1 .. Len(t) -> T]
    BY <2>1, <1>2, <1>3
  <2> QED BY <2>2, <1>0, <1>2, SeqDef
<1>5. \A y \in T : \E j \in 1 .. Len(t) : t[j] = y
  BY <1>2 DEF Enumera
<1>6. \A j, k \in 1 .. Len(t) : t[j] = t[k] => j = k
  BY <1>0, <1>2 DEF Enumera
<1> QED BY <1>4, <1>5, <1>6 DEF Enumera

(* And so does taking one out by its position (list_remove). *)
LEMMA EnumeraRemoveAt ==
  ASSUME NEW S, NEW s, Enumera(s, S), NEW i \in 1 .. Len(s)
  PROVE  Enumera(RemoveAt(s, i), S \ {s[i]})
<1> DEFINE a == SubSeq(s, 1, i - 1)
           b == SubSeq(s, i + 1, Len(s))
           t == a \o b
           T == S \ {s[i]}
<1>0. /\ s \in Seq(S) /\ Len(s) \in Nat /\ \A j \in 1 .. Len(s) : s[j] \in S
      /\ \A j \in 1 .. Len(s) : j # i => s[j] \in T
  BY LenProperties, ElementOfSeq DEF Enumera
<1>1. a \in Seq(T) /\ Len(a) = i - 1 /\ \A j \in 1 .. i - 1 : a[j] = s[j]
  <2>1. \A j \in 1 .. i - 1 : s[j] \in T
    BY <1>0
  <2> QED BY <2>1, <1>0, SubSeqProperties
<1>2. b \in Seq(T) /\ Len(b) = Len(s) - i /\ \A j \in 1 .. Len(s) - i : b[j] = s[i + j]
  <2>1. \A j \in i + 1 .. Len(s) : s[j] \in T
    BY <1>0
  <2>2. /\ b \in Seq(T)
        /\ Len(b) = IF i + 1 <= Len(s) THEN Len(s) - (i + 1) + 1 ELSE 0
        /\ \A j \in 1 .. Len(s) - (i + 1) + 1 : b[j] = s[(i + 1) + j - 1]
    BY <2>1, <1>0, SubSeqProperties
  <2> QED BY <2>2, <1>0
<1>t. t = RemoveAt(s, i)
  BY DEF RemoveAt
<1>3. /\ t \in Seq(T) /\ Len(t) = Len(s) - 1
      /\ \A j \in 1 .. Len(s) - 1 : t[j] = IF j <= i - 1 THEN s[j] ELSE s[j + 1]
  <2>1. /\ t \in Seq(T) /\ Len(t) = Len(a) + Len(b)
        /\ \A j \in 1 .. Len(a) + Len(b) :
             t[j] = IF j <= Len(a) THEN a[j] ELSE b[j - Len(a)]
    BY <1>1, <1>2, ConcatProperties
  <2> HIDE DEF a, b, t
  <2>2. Len(a) + Len(b) = Len(s) - 1
    BY <1>0, <1>1, <1>2
  <2>3. ASSUME NEW j \in 1 .. Len(s) - 1
        PROVE  t[j] = IF j <= i - 1 THEN s[j] ELSE s[j + 1]
    <3>1. CASE j <= i - 1
      BY <3>1, <2>1, <2>2, <1>0, <1>1
    <3>2. CASE ~ (j <= i - 1)
      <4>1. j - (i - 1) \in 1 .. Len(s) - i
        BY <3>2, <1>0
      <4>2. t[j] = b[j - (i - 1)]
        BY <3>2, <2>1, <2>2, <1>1
      <4> QED BY <4>1, <4>2, <1>2, <3>2, <1>0
    <3> QED BY <3>1, <3>2
  <2> QED BY <2>1, <2>2, <2>3
<1> HIDE DEF a, b, t
<1>4. \A y \in T : \E j \in 1 .. Len(t) : t[j] = y
  <2> SUFFICES ASSUME NEW y \in T PROVE \E j \in 1 .. Len(t) : t[j] = y
    OBVIOUS
  <2>1. PICK k \in 1 .. Len(s) : s[k] = y
    BY DEF Enumera
  <2>2. CASE k < i
    BY <2>1, <2>2, <1>0, <1>3
  <2>3. CASE k > i
    <3>1. k - 1 \in 1 .. Len(s) - 1 /\ ~ (k - 1 <= i - 1)
      BY <2>3, <1>0
    <3>2. t[k - 1] = s[(k - 1) + 1]
      BY <3>1, <1>3
    <3>3. t[k - 1] = y
      BY <3>2, <2>1, <1>0
    <3> QED BY <3>1, <3>3, <1>3
  <2> QED BY <2>1, <2>2, <2>3, <1>0
<1>5. ASSUME NEW j \in 1 .. Len(t), NEW k \in 1 .. Len(t), t[j] = t[k]
      PROVE  j = k
  <2> DEFINE jj == IF j <= i - 1 THEN j ELSE j + 1
             kk == IF k <= i - 1 THEN k ELSE k + 1
  <2>1. j \in 1 .. Len(s) - 1 /\ k \in 1 .. Len(s) - 1
    BY <1>3
  <2>2. jj \in 1 .. Len(s) /\ kk \in 1 .. Len(s)
    BY <2>1, <1>0
  <2>3. t[j] = s[jj] /\ t[k] = s[kk]
    BY <2>1, <1>3
  <2>4. jj = kk
    <3> HIDE DEF jj, kk
    <3> QED BY <2>2, <2>3, <1>5 DEF Enumera
  <2> QED BY <2>4, <2>1, <1>0
<1> QED BY <1>3, <1>4, <1>5, <1>t DEF Enumera

-----------------------------------------------------------------------------
(* The list of resident pages.                                             *)

(* An enumeration of a set is a sequence over any larger set. *)
LEMMA EnumeraSubconjunto ==
  ASSUME NEW S, NEW T, S \subseteq T, NEW s, Enumera(s, S)
  PROVE  s \in Seq(T)
BY SeqMonotonic DEF Enumera

(* Taking a page out by its MV frame takes out that page and no other.     *)
LEMMA SacarDeListaEnumera ==
  ASSUME NEW m, NEW p, NEW S, Enumera(m.lista, S),
         \A q \in S : m.paginas[q].frame_mv = m.paginas[p].frame_mv <=> q = p
  PROVE  Enumera(SacarDeLista(m, p), S \ {p})
<1> DEFINE s == m.lista
           I == {i \in 1 .. Len(s) : m.paginas[s[i]].frame_mv = m.paginas[p].frame_mv}
<1>0. /\ s \in Seq(S) /\ Len(s) \in Nat
      /\ \A i \in 1 .. Len(s) : s[i] \in S
      /\ \A i \in I : i \in 1 .. Len(s) /\ s[i] = p
  BY LenProperties, ElementOfSeq DEF Enumera
<1>1. SacarDeLista(m, p) = IF I # {} THEN RemoveAt(s, Min(I)) ELSE s
  BY DEF SacarDeLista, RemoveFirstMatch, SelectInSeq
<1>2. CASE I # {}
  <2>1. I \in SUBSET Nat
    OBVIOUS
  <2> HIDE DEF I
  <2>2. Min(I) \in I
    BY <1>2, <2>1, MinimoDe
  <2> QED BY <2>2, <1>0, <1>1, <1>2, EnumeraRemoveAt
<1>3. CASE I = {}
  <2>1. p \notin S
    BY <1>3, <1>0 DEF Enumera
  <2>2. S \ {p} = S
    BY <2>1
  <2>3. SacarDeLista(m, p) = s
    BY <1>1, <1>3
  <2> QED BY <2>2, <2>3
<1> QED BY <1>2, <1>3

(* A page that comes in goes to the end of the list. *)
LEMMA AgregarCarga ==
  ASSUME NEW m, m \in Memorias, NEW p, p \in Paginas, NEW S, S \in SUBSET Paginas,
         Enumera(m.lista, S),
         \A q \in S : m.paginas[q].frame_mv = m.paginas[p].frame_mv <=> q = p
  PROVE  /\ Enumera(agregar_a_lista_de_swapeo(m, p, "CARGA").lista, S \cup {p})
         /\ agregar_a_lista_de_swapeo(m, p, "CARGA") \in Memorias
         /\ agregar_a_lista_de_swapeo(m, p, "CARGA").mp = m.mp
         /\ agregar_a_lista_de_swapeo(m, p, "CARGA").mv = m.mv
         /\ agregar_a_lista_de_swapeo(m, p, "CARGA").bitmap_mp = m.bitmap_mp
         /\ agregar_a_lista_de_swapeo(m, p, "CARGA").bitmap_mv = m.bitmap_mv
         /\ agregar_a_lista_de_swapeo(m, p, "CARGA").paginas = m.paginas
<1> DEFINE s == Append(SacarDeLista(m, p), p)
<1>1. Enumera(SacarDeLista(m, p), S \ {p})
  BY SacarDeListaEnumera
<1>2. Enumera(s, (S \ {p}) \cup {p})
  BY <1>1, EnumeraAppend
<1>3. (S \ {p}) \cup {p} = S \cup {p}
  OBVIOUS
<1>4. s \in Seq(Paginas)
  BY <1>2, <1>3, EnumeraSubconjunto
<1>5. agregar_a_lista_de_swapeo(m, p, "CARGA") = [m EXCEPT !.lista = s]
  BY DEF agregar_a_lista_de_swapeo
<1> HIDE DEF s
<1> QED BY <1>2, <1>3, <1>4, <1>5 DEF Memorias

(* A page of the list that is used goes to its end, or stays. *)
LEMMA AgregarReferencia ==
  ASSUME NEW m, m \in Memorias, NEW p, p \in Paginas, NEW S, S \in SUBSET Paginas,
         Enumera(m.lista, S), p \in S,
         \A q \in S : m.paginas[q].frame_mv = m.paginas[p].frame_mv <=> q = p
  PROVE  /\ Enumera(agregar_a_lista_de_swapeo(m, p, "REFERENCIA").lista, S)
         /\ agregar_a_lista_de_swapeo(m, p, "REFERENCIA") \in Memorias
         /\ agregar_a_lista_de_swapeo(m, p, "REFERENCIA").mp = m.mp
         /\ agregar_a_lista_de_swapeo(m, p, "REFERENCIA").mv = m.mv
         /\ agregar_a_lista_de_swapeo(m, p, "REFERENCIA").bitmap_mp = m.bitmap_mp
         /\ agregar_a_lista_de_swapeo(m, p, "REFERENCIA").bitmap_mv = m.bitmap_mv
         /\ agregar_a_lista_de_swapeo(m, p, "REFERENCIA").paginas = m.paginas
<1>1. CASE Algoritmo = "LRU"
  <2>1. agregar_a_lista_de_swapeo(m, p, "REFERENCIA")
          = agregar_a_lista_de_swapeo(m, p, "CARGA")
    BY <1>1 DEF agregar_a_lista_de_swapeo
  <2>2. S \cup {p} = S
    OBVIOUS
  <2> DEFINE n == agregar_a_lista_de_swapeo(m, p, "CARGA")
  <2>3. /\ Enumera(n.lista, S \cup {p}) /\ n \in Memorias /\ n.mp = m.mp /\ n.mv = m.mv
        /\ n.bitmap_mp = m.bitmap_mp /\ n.bitmap_mv = m.bitmap_mv /\ n.paginas = m.paginas
    BY AgregarCarga
  <2> HIDE DEF n
  <2>4. n = agregar_a_lista_de_swapeo(m, p, "REFERENCIA")
    BY <2>1 DEF n
  <2> QED BY <2>2, <2>3, <2>4
<1>2. CASE Algoritmo # "LRU"
  <2>1. agregar_a_lista_de_swapeo(m, p, "REFERENCIA") = m
    BY <1>2, "REFERENCIA" # "CARGA" DEF agregar_a_lista_de_swapeo
  <2> QED BY <2>1
<1> QED BY <1>1, <1>2

-----------------------------------------------------------------------------
(* Frames.                                                                 *)

(* obtener_frame_libre gives a free frame, or -1 when all are taken. *)
LEMMA FrameLibre ==
  ASSUME NEW n \in Nat, NEW bitmap \in [0 .. n - 1 -> BOOLEAN]
  PROVE  LET f == obtener_frame_libre(bitmap)
         IN  \/ f = -1 /\ \A g \in 0 .. n - 1 : bitmap[g]
             \/ f \in 0 .. n - 1 /\ ~ bitmap[f]
<1> DEFINE libres == {f \in DOMAIN bitmap : ~ bitmap[f]}
<1>1. libres \in SUBSET Nat /\ libres \subseteq 0 .. n - 1
  OBVIOUS
<1>2. CASE libres = {}
  BY <1>2 DEF obtener_frame_libre
<1>3. CASE libres # {}
  <2>1. \E f \in libres : \A g \in libres : f <= g
    BY <1>1, <1>3, MinimoNat
  <2>2. obtener_frame_libre(bitmap) \in libres
    BY <2>1, <1>3 DEF obtener_frame_libre
  <2> QED BY <2>2, <1>1
<1> QED BY <1>2, <1>3

-----------------------------------------------------------------------------
(* The victim.                                                             *)

(* A round of the clock visits positions of the list. *)
LEMMA RondaBien ==
  ASSUME NEW lista \in Seq(Paginas), NEW puntero \in Nat
  PROVE  /\ Len(Ronda(lista, puntero)) = Len(lista)
         /\ \A k \in 1 .. Len(lista) : Ronda(lista, puntero)[k] \in 1 .. Len(lista)
<1> DEFINE n == Len(lista)
           r == Ronda(lista, puntero)
<1>1. n \in Nat
  BY LenProperties
<1>2. \A k \in 1 .. n : ((puntero + k - 1) % n) + 1 \in 1 .. n
  <2> SUFFICES ASSUME NEW k \in 1 .. n PROVE ((puntero + k - 1) % n) + 1 \in 1 .. n
    OBVIOUS
  <2>1. n \in Nat \ {0} /\ puntero + k - 1 \in Int
    BY <1>1
  <2> HIDE DEF n
  <2>2. \A x \in Int, y \in Nat \ {0} : x % y \in 0 .. y - 1
    OBVIOUS
  <2>3. (puntero + k - 1) % n \in 0 .. n - 1
    BY <2>1, <2>2
  <2> QED BY <2>1, <2>3
<1>3. r \in [1 .. n -> 1 .. n]
  BY <1>2 DEF Ronda
<1>4. r \in Seq(1 .. n)
  BY <1>1, <1>3, SeqDef
<1>5. DOMAIN r = 1 .. Len(r) /\ Len(r) \in Nat
  BY <1>4, LenProperties
<1>6. 1 .. Len(r) = 1 .. n
  BY <1>3, <1>5
<1>7. Len(r) = n
  BY <1>1, <1>5, <1>6
<1> QED BY <1>3, <1>7

(* The page that a search for es_0_0 finds passes the test. *)
LEMMA Primera00 ==
  ASSUME NEW lista \in Seq(Paginas), NEW puntero \in Nat, NEW paginas,
         PrimeraDeLaRonda(lista, puntero, paginas, es_0_0) # 0
  PROVE  LET j == PrimeraDeLaRonda(lista, puntero, paginas, es_0_0)
         IN  j \in 1 .. Len(lista) /\ es_0_0(paginas[lista[j]])
<1> DEFINE r == Ronda(lista, puntero)
           I == {k \in 1 .. Len(r) : es_0_0(paginas[lista[r[k]]])}
<1>1. Len(r) = Len(lista) /\ \A k \in 1 .. Len(lista) : r[k] \in 1 .. Len(lista)
  BY RondaBien
<1>2. PrimeraDeLaRonda(lista, puntero, paginas, es_0_0)
        = IF (IF I # {} THEN Min(I) ELSE 0) = 0 THEN 0
          ELSE r[IF I # {} THEN Min(I) ELSE 0]
  BY DEF PrimeraDeLaRonda, SelectInSeq
<1>3. I \in SUBSET Nat
  OBVIOUS
<1>4. I # {}
  BY <1>2
<1>5. \A k \in I : k # 0 /\ k \in 1 .. Len(lista) /\ es_0_0(paginas[lista[r[k]]])
  BY <1>1
<1> HIDE DEF I, r
<1>6. Min(I) \in I
  BY <1>3, <1>4, MinimoDe
<1>7. PrimeraDeLaRonda(lista, puntero, paginas, es_0_0) = r[Min(I)]
  BY <1>2, <1>4, <1>5, <1>6
<1> QED BY <1>1, <1>5, <1>6, <1>7

(* The page that a search for es_0_1 finds passes the test. *)
LEMMA Primera01 ==
  ASSUME NEW lista \in Seq(Paginas), NEW puntero \in Nat, NEW paginas,
         PrimeraDeLaRonda(lista, puntero, paginas, es_0_1) # 0
  PROVE  LET j == PrimeraDeLaRonda(lista, puntero, paginas, es_0_1)
         IN  j \in 1 .. Len(lista) /\ es_0_1(paginas[lista[j]])
<1> DEFINE r == Ronda(lista, puntero)
           I == {k \in 1 .. Len(r) : es_0_1(paginas[lista[r[k]]])}
<1>1. Len(r) = Len(lista) /\ \A k \in 1 .. Len(lista) : r[k] \in 1 .. Len(lista)
  BY RondaBien
<1>2. PrimeraDeLaRonda(lista, puntero, paginas, es_0_1)
        = IF (IF I # {} THEN Min(I) ELSE 0) = 0 THEN 0
          ELSE r[IF I # {} THEN Min(I) ELSE 0]
  BY DEF PrimeraDeLaRonda, SelectInSeq
<1>3. I \in SUBSET Nat
  OBVIOUS
<1>4. I # {}
  BY <1>2
<1>5. \A k \in I : k # 0 /\ k \in 1 .. Len(lista) /\ es_0_1(paginas[lista[r[k]]])
  BY <1>1
<1> HIDE DEF I, r
<1>6. Min(I) \in I
  BY <1>3, <1>4, MinimoDe
<1>7. PrimeraDeLaRonda(lista, puntero, paginas, es_0_1) = r[Min(I)]
  BY <1>2, <1>4, <1>5, <1>6
<1> QED BY <1>1, <1>5, <1>6, <1>7

(* Clearing use bits changes nothing else. *)
LEMMA ApagarBien ==
  ASSUME NEW paginas \in [Paginas -> Info], NEW S
  PROVE  /\ Apagar(paginas, S) \in [Paginas -> Info]
         /\ \A q \in Paginas :
              /\ Apagar(paginas, S)[q].frame_mv     = paginas[q].frame_mv
              /\ Apagar(paginas, S)[q].frame_mp     = paginas[q].frame_mp
              /\ Apagar(paginas, S)[q].presencia    = paginas[q].presencia
              /\ Apagar(paginas, S)[q].modificacion = paginas[q].modificacion
              /\ Apagar(paginas, S)[q].lockeo       = paginas[q].lockeo
BY DEF Apagar, Info, InfoPagina

(* A victim that exists is a page of the list that is not pinned, and the  *)
(* search changes at most use bits, wherever the hand is.                  *)
LEMMA EleccionDe ==
  ASSUME NEW m, m.lista \in Seq(Paginas), m.paginas \in [Paginas -> Info],
         m.puntero \in Nat, HayVictima(m)
  PROVE  LET e == Eleccion(m)
         IN  /\ e.pos \in 1 .. Len(m.lista)
             /\ ~ m.paginas[m.lista[e.pos]].lockeo
             /\ e.paginas \in [Paginas -> Info]
             /\ \A q \in Paginas :
                  /\ e.paginas[q].frame_mv     = m.paginas[q].frame_mv
                  /\ e.paginas[q].frame_mp     = m.paginas[q].frame_mp
                  /\ e.paginas[q].presencia    = m.paginas[q].presencia
                  /\ e.paginas[q].modificacion = m.paginas[q].modificacion
                  /\ e.paginas[q].lockeo       = m.paginas[q].lockeo
<1> DEFINE s == m.lista
<1>0. /\ s \in Seq(Paginas) /\ Len(s) \in Nat /\ \A i \in 1 .. Len(s) : s[i] \in Paginas
      /\ m.paginas \in [Paginas -> Info] /\ m.puntero \in Nat
  BY LenProperties, ElementOfSeq
<1>1. CASE Algoritmo = "LRU"
  <2> DEFINE I == {i \in 1 .. Len(s) : esta_unlockeada(m.paginas[s[i]])}
  <2>1. Eleccion(m) = [pos |-> IF I # {} THEN Min(I) ELSE 0, paginas |-> m.paginas]
    BY <1>1 DEF Eleccion, seleccion_de_victima_lru, SelectInSeq
  <2>2. I \in SUBSET Nat /\ I # {}
    BY <2>1 DEF HayVictima
  <2>3. Min(I) \in I
    BY <2>2, MinimoDe
  <2>4. Eleccion(m).pos \in I /\ Eleccion(m).paginas = m.paginas
    BY <2>1, <2>2, <2>3
  <2> QED BY <2>4, <1>0 DEF esta_unlockeada
<1>2. CASE Algoritmo # "LRU"
  <2> DEFINE primera == PrimeraDeLaRonda(s, m.puntero, m.paginas, es_0_0)
             segunda == PrimeraDeLaRonda(s, m.puntero, m.paginas, es_0_1)
             luego   == Apagar(m.paginas, Apagadas(s, m.puntero, m.paginas, segunda))
             tercera == PrimeraDeLaRonda(s, m.puntero, luego, es_0_0)
             cuarta  == PrimeraDeLaRonda(s, m.puntero, luego, es_0_1)
  <2>1. Eleccion(m) = IF primera # 0
                      THEN [pos |-> primera, paginas |-> m.paginas]
                      ELSE [pos     |-> IF segunda # 0 THEN segunda
                                        ELSE IF tercera # 0 THEN tercera ELSE cuarta,
                            paginas |-> luego]
    BY <1>2 DEF Eleccion, HayVictima, seleccion_de_victima_clock_modificado
  <2>2. /\ primera # 0 => primera \in 1 .. Len(s) /\ es_0_0(m.paginas[s[primera]])
        /\ segunda # 0 => segunda \in 1 .. Len(s) /\ es_0_1(m.paginas[s[segunda]])
        /\ tercera # 0 => tercera \in 1 .. Len(s) /\ es_0_0(luego[s[tercera]])
        /\ cuarta # 0 => cuarta \in 1 .. Len(s) /\ es_0_1(luego[s[cuarta]])
    BY <1>0, Primera00, Primera01
  <2>3. /\ luego \in [Paginas -> Info]
        /\ \A q \in Paginas : /\ luego[q].frame_mv     = m.paginas[q].frame_mv
                              /\ luego[q].frame_mp     = m.paginas[q].frame_mp
                              /\ luego[q].presencia    = m.paginas[q].presencia
                              /\ luego[q].modificacion = m.paginas[q].modificacion
                              /\ luego[q].lockeo       = m.paginas[q].lockeo
    BY <1>0, ApagarBien
  <2>4. Eleccion(m).pos # 0
    BY DEF HayVictima
  <2> HIDE DEF primera, segunda, luego, tercera, cuarta
  <2>5. CASE primera # 0
    BY <2>1, <2>2, <2>5, <1>0 DEF es_0_0
  <2>6. CASE primera = 0 /\ segunda # 0
    BY <2>1, <2>2, <2>3, <2>6, <1>0 DEF es_0_1
  <2>7. CASE primera = 0 /\ segunda = 0 /\ tercera # 0
    BY <2>1, <2>2, <2>3, <2>7, <1>0 DEF es_0_0
  <2>8. CASE primera = 0 /\ segunda = 0 /\ tercera = 0
    BY <2>1, <2>2, <2>3, <2>4, <2>8, <1>0 DEF es_0_1
  <2> QED BY <2>5, <2>6, <2>7, <2>8
<1> QED BY <1>1, <1>2

(* The same of a memory.                                                   *)
LEMMA EleccionBien ==
  ASSUME NEW m \in Memorias, HayVictima(m)
  PROVE  LET e == Eleccion(m)
         IN  /\ e.pos \in 1 .. Len(m.lista)
             /\ ~ m.paginas[m.lista[e.pos]].lockeo
             /\ e.paginas \in [Paginas -> Info]
             /\ \A q \in Paginas :
                  /\ e.paginas[q].frame_mv     = m.paginas[q].frame_mv
                  /\ e.paginas[q].frame_mp     = m.paginas[q].frame_mp
                  /\ e.paginas[q].presencia    = m.paginas[q].presencia
                  /\ e.paginas[q].modificacion = m.paginas[q].modificacion
                  /\ e.paginas[q].lockeo       = m.paginas[q].lockeo
<1>1. m.lista \in Seq(Paginas) /\ m.paginas \in [Paginas -> Info] /\ m.puntero \in Nat
  BY DEF Memorias, FramesMP
<1> QED BY <1>1, EleccionDe

-----------------------------------------------------------------------------
(* The list and the frames of main memory.                                 *)

(* Every page of the list has a frame in each memory. *)
LEMMA ListaDeResidentes ==
  ASSUME NEW m, MemoriaBien(m)
  PROVE  /\ Len(m.lista) \in Nat
         /\ \A i \in 1 .. Len(m.lista) :
              /\ m.lista[i] \in Paginas
              /\ m.paginas[m.lista[i]].presencia
              /\ m.paginas[m.lista[i]].frame_mp \in FramesMP
              /\ m.paginas[m.lista[i]].frame_mv \in FramesMV
<1>1. m.lista \in Seq(Residentes(m))
  BY DEF MemoriaBien, ListaBien, Enumera
<1>2. Len(m.lista) \in Nat /\ \A i \in 1 .. Len(m.lista) : m.lista[i] \in Residentes(m)
  BY <1>1, LenProperties, ElementOfSeq
<1>3. \A q \in Residentes(m) : /\ q \in Paginas
                                /\ m.paginas[q].presencia
                                /\ m.paginas[q].frame_mp \in FramesMP
                                /\ m.paginas[q].frame_mv \in FramesMV
  BY DEF MemoriaBien, Memorias, FramesBien, Residentes, Info, InfoPagina
<1> QED BY <1>2, <1>3

(* Positions and frames are finite in number. *)
LEMMA Finitos ==
  /\ \A n \in Nat : IsFiniteSet(1 .. n) /\ Cardinality(1 .. n) = n
  /\ IsFiniteSet(FramesMP) /\ Cardinality(FramesMP) = CantFramesMP
<1>1. ASSUME NEW n \in Nat PROVE IsFiniteSet(1 .. n) /\ Cardinality(1 .. n) = n
  <2>1. /\ IsFiniteSet(1 .. n)
        /\ Cardinality(1 .. n) = IF 1 > n THEN 0 ELSE n - 1 + 1
    BY FS_Interval
  <2> QED BY <2>1
<1>2. IsFiniteSet(FramesMP) /\ Cardinality(FramesMP) = CantFramesMP
  <2>1. CantFramesMP \in Nat /\ CantFramesMP >= 1 /\ CantFramesMP - 1 \in Int
    BY FramesAssumption
  <2>2. /\ IsFiniteSet(0 .. CantFramesMP - 1)
        /\ Cardinality(0 .. CantFramesMP - 1)
             = IF 0 > CantFramesMP - 1 THEN 0 ELSE (CantFramesMP - 1) - 0 + 1
    BY <2>1, FS_Interval
  <2> QED BY <2>1, <2>2 DEF FramesMP
<1> QED BY <1>1, <1>2

(* There are no more resident pages than frames. *)
LEMMA ListaCabe ==
  ASSUME NEW m, MemoriaBien(m)
  PROVE  Len(m.lista) <= CantFramesMP
<1> DEFINE n == Len(m.lista)
           g == [i \in 1 .. n |-> m.paginas[m.lista[i]].frame_mp]
<1>1. n \in Nat /\ g \in [1 .. n -> FramesMP]
  BY ListaDeResidentes
<1>2. \A i, j \in 1 .. n : g[i] = g[j] => i = j
  <2> SUFFICES ASSUME NEW i \in 1 .. n, NEW j \in 1 .. n, g[i] = g[j] PROVE i = j
    OBVIOUS
  <2>1. m.paginas[m.lista[i]].frame_mp = m.paginas[m.lista[j]].frame_mp
    OBVIOUS
  <2>2. m.lista[i] = m.lista[j]
    BY <2>1, ListaDeResidentes DEF MemoriaBien, FramesBien, FramesMP
  <2> QED BY <2>2 DEF MemoriaBien, ListaBien, Enumera
<1>3. /\ IsFiniteSet(1 .. n) /\ Cardinality(1 .. n) = n
      /\ IsFiniteSet(FramesMP) /\ Cardinality(FramesMP) = CantFramesMP
  BY <1>1, Finitos
<1>4. ~ (Cardinality(FramesMP) < Cardinality(1 .. n))
  <2> HIDE DEF g, n
  <2> SUFFICES ASSUME Cardinality(FramesMP) < Cardinality(1 .. n) PROVE FALSE
    OBVIOUS
  <2>1. \E i, j \in 1 .. n : i # j /\ g[i] = g[j]
    BY <1>1, <1>3, FS_PigeonHole
  <2> QED BY <2>1, <1>2
<1> QED BY <1>1, <1>3, <1>4, FramesAssumption

(* When no frame is free there is a resident page for each. *)
LEMMA ListaLlena ==
  ASSUME NEW m, MemoriaBien(m), \A f \in FramesMP : m.bitmap_mp[f]
  PROVE  Len(m.lista) >= CantFramesMP
<1> DEFINE n == Len(m.lista)
           g == [f \in FramesMP |-> CHOOSE i \in 1 .. n :
                                      m.paginas[m.lista[i]].frame_mp = f]
<1>1. \A f \in FramesMP : \E i \in 1 .. n : m.paginas[m.lista[i]].frame_mp = f
  <2> SUFFICES ASSUME NEW f \in FramesMP
               PROVE  \E i \in 1 .. n : m.paginas[m.lista[i]].frame_mp = f
    OBVIOUS
  <2>1. PICK q \in Paginas : m.paginas[q].frame_mp = f
    BY DEF MemoriaBien, FramesBien
  <2>2. q \in Residentes(m)
    BY <2>1 DEF MemoriaBien, FramesBien, Residentes, FramesMP
  <2> QED BY <2>1, <2>2 DEF MemoriaBien, ListaBien, Enumera
<1>2. \A f \in FramesMP : g[f] \in 1 .. n /\ m.paginas[m.lista[g[f]]].frame_mp = f
  BY <1>1
<1>3. g \in [FramesMP -> 1 .. n]
  BY <1>2
<1>4. n \in Nat
  BY ListaDeResidentes
<1>5. /\ IsFiniteSet(1 .. n) /\ Cardinality(1 .. n) = n
      /\ IsFiniteSet(FramesMP) /\ Cardinality(FramesMP) = CantFramesMP
  BY <1>4, Finitos
<1>6. \A f, h \in FramesMP : g[f] = g[h] => f = h
  <2> HIDE DEF g
  <2> QED BY <1>2
<1>7. ~ (Cardinality(1 .. n) < Cardinality(FramesMP))
  <2> HIDE DEF g, n
  <2> SUFFICES ASSUME Cardinality(1 .. n) < Cardinality(FramesMP) PROVE FALSE
    OBVIOUS
  <2>1. \E f, h \in FramesMP : f # h /\ g[f] = g[h]
    BY <1>3, <1>5, FS_PigeonHole
  <2> QED BY <2>1, <1>6
<1> QED BY <1>4, <1>5, <1>7, FramesAssumption

-----------------------------------------------------------------------------
(* Swapping.                                                               *)

(* The list, the hand and the bits once the victim was replaced. *)
LEMMA ReemplazoBien ==
  ASSUME NEW m, MemoriaBien(m), NEW p \in Paginas, tiene_pagina(m, p),
         ~ m.paginas[p].presencia, HayVictima(m)
  PROVE  LET e == Eleccion(m)
             v == m.lista[e.pos]
             n == ReemplazarEnLista(m, p, e)
         IN  /\ Enumera(n.lista, (Residentes(m) \ {v}) \cup {p})
             /\ n \in Memorias
             /\ n.mp = m.mp /\ n.mv = m.mv
             /\ n.bitmap_mp = m.bitmap_mp /\ n.bitmap_mv = m.bitmap_mv
             /\ n.paginas = e.paginas
<1> DEFINE e == Eleccion(m)
           v == m.lista[e.pos]
           R == Residentes(m)
<1>0. m \in Memorias /\ Enumera(m.lista, R) /\ R \in SUBSET Paginas /\ p \notin R
  BY DEF MemoriaBien, ListaBien, Residentes
<1>1. e.pos \in 1 .. Len(m.lista) /\ e.paginas \in [Paginas -> Info]
  BY <1>0, EleccionBien
<1>2. CASE Algoritmo = "LRU"
  <2> DEFINE m1 == [m EXCEPT !.lista = RemoveAt(m.lista, e.pos)]
  <2>1. Enumera(RemoveAt(m.lista, e.pos), R \ {v})
    BY <1>0, <1>1, EnumeraRemoveAt
  <2>2. RemoveAt(m.lista, e.pos) \in Seq(Paginas)
    BY <2>1, <1>0, EnumeraSubconjunto
  <2>3. /\ m1 \in Memorias /\ m1.paginas = m.paginas
        /\ m1.lista = RemoveAt(m.lista, e.pos)
    BY <2>2, <1>0 DEF Memorias
  <2>4. \A q \in R : m.paginas[q].frame_mv = m.paginas[p].frame_mv <=> q = p
    BY <1>0 DEF MemoriaBien, FramesBien, tiene_pagina
  <2> DEFINE S == R \ {v}
             n == agregar_a_lista_de_swapeo(m1, p, "CARGA")
  <2>5. /\ Enumera(n.lista, S \cup {p})
        /\ n \in Memorias
        /\ n.mp = m1.mp /\ n.mv = m1.mv
        /\ n.bitmap_mp = m1.bitmap_mp /\ n.bitmap_mv = m1.bitmap_mv
        /\ n.paginas = m1.paginas
    <3> HIDE DEF m1, e, R, v
    <3>1. S \in SUBSET Paginas
      BY <1>0
    <3>2. \A q \in S : m1.paginas[q].frame_mv = m1.paginas[p].frame_mv <=> q = p
      BY <2>3, <2>4
    <3>3. Enumera(m1.lista, S)
      BY <2>1, <2>3
    <3> HIDE DEF S
    <3> QED BY <2>3, <3>1, <3>2, <3>3, AgregarCarga
  <2>6. Eleccion(m).paginas = m.paginas
    BY <1>2 DEF Eleccion
  <2>7. ReemplazarEnLista(m, p, e) = n
    BY <1>2 DEF ReemplazarEnLista
  <2>8. /\ m1.mp = m.mp /\ m1.mv = m.mv
        /\ m1.bitmap_mp = m.bitmap_mp /\ m1.bitmap_mv = m.bitmap_mv
    BY <1>0 DEF Memorias
  <2> HIDE DEF m1, n
  <2> QED BY <2>3, <2>5, <2>6, <2>7, <2>8
<1>3. CASE Algoritmo # "LRU"
  <2> DEFINE s == ReplaceAt(m.lista, e.pos, p)
             h == indice_siguiente_lista_circular(m.lista, e.pos - 1)
  <2>1. Enumera(s, (R \ {v}) \cup {p})
    BY <1>0, <1>1, EnumeraReplaceAt
  <2>2. s \in Seq(Paginas)
    BY <2>1, <1>0, EnumeraSubconjunto
  <2>3. h \in FramesMP
    <3>1. Len(m.lista) <= CantFramesMP /\ Len(m.lista) \in Nat
      BY ListaCabe, ListaDeResidentes
    <3> HIDE DEF e
    <3> QED BY <3>1, <1>1, FramesAssumption DEF indice_siguiente_lista_circular, FramesMP
  <2>4. ReemplazarEnLista(m, p, e)
          = [m EXCEPT !.lista = s, !.puntero = h, !.paginas = e.paginas]
    BY <1>3 DEF ReemplazarEnLista
  <2> HIDE DEF s, h
  <2> QED BY <2>1, <2>2, <2>3, <2>4, <1>0, <1>1 DEF Memorias
<1> QED BY <1>2, <1>3

-----------------------------------------------------------------------------
(* What single updates do, field by field.                                 *)

(* Writing one frame of main memory. *)
LEMMA CampoMP ==
  ASSUME NEW m, m \in Memorias, NEW f, f \in FramesMP, NEW c, c \in Contenido
  PROVE  LET n == [m EXCEPT !.mp[f] = c]
         IN  /\ n \in Memorias
             /\ n.mv = m.mv /\ n.bitmap_mp = m.bitmap_mp /\ n.bitmap_mv = m.bitmap_mv
             /\ n.paginas = m.paginas /\ n.lista = m.lista /\ n.puntero = m.puntero
             /\ \A g \in FramesMP : n.mp[g] = IF g = f THEN c ELSE m.mp[g]
BY DEF Memorias

(* Replacing the information of one page. *)
LEMMA CampoPaginas ==
  ASSUME NEW m, m \in Memorias, NEW p, p \in Paginas, NEW i, i \in Info
  PROVE  LET n == [m EXCEPT !.paginas[p] = i]
         IN  /\ n \in Memorias
             /\ n.mp = m.mp /\ n.mv = m.mv
             /\ n.bitmap_mp = m.bitmap_mp /\ n.bitmap_mv = m.bitmap_mv
             /\ n.lista = m.lista /\ n.puntero = m.puntero
             /\ \A q \in Paginas : q # p => n.paginas[q] = m.paginas[q]
             /\ n.paginas[p] = i
<1> DEFINE t == [m.paginas EXCEPT ![p] = i]
<1>1. /\ t \in [Paginas -> Info] /\ t[p] = i
      /\ \A q \in Paginas : q # p => t[q] = m.paginas[q]
  BY DEF Memorias
<1>2. [m EXCEPT !.paginas[p] = i] = [m EXCEPT !.paginas = t]
  OBVIOUS
<1> HIDE DEF t
<1> QED BY <1>1, <1>2 DEF Memorias

(* The bits and the frame that pagina_levantada sets. *)
LEMMA RegistroLevantado ==
  ASSUME NEW j, j \in Info, NEW f, f \in FramesMP
  PROVE  LET i == [j EXCEPT !.presencia = TRUE, !.frame_mp = f,
                            !.uso = TRUE, !.modificacion = FALSE]
         IN  /\ i \in Info /\ i.frame_mv = j.frame_mv /\ i.lockeo = j.lockeo
             /\ i.presencia /\ i.frame_mp = f /\ ~ i.modificacion
BY DEF Info, InfoPagina

(* The bit and the frame that the victim of swap loses. *)
LEMMA RegistroDejado ==
  ASSUME NEW j, j \in Info
  PROVE  LET i == [j EXCEPT !.presencia = FALSE, !.frame_mp = -1]
         IN  /\ i \in Info /\ i.frame_mv = j.frame_mv /\ i.lockeo = j.lockeo
             /\ ~ i.presencia /\ i.frame_mp = -1
BY DEF Info, InfoPagina

(* pagina_levantada changes the information of one page. *)
LEMMA LevantadaCampos ==
  ASSUME NEW m, m \in Memorias, NEW p, p \in Paginas, NEW f, f \in FramesMP
  PROVE  LET n == pagina_levantada(m, p, f)
         IN  /\ n \in Memorias
             /\ n.mp = m.mp /\ n.mv = m.mv
             /\ n.bitmap_mp = m.bitmap_mp /\ n.bitmap_mv = m.bitmap_mv
             /\ n.lista = m.lista /\ n.puntero = m.puntero
             /\ \A q \in Paginas : q # p => n.paginas[q] = m.paginas[q]
             /\ n.paginas[p].frame_mv = m.paginas[p].frame_mv
             /\ n.paginas[p].lockeo = m.paginas[p].lockeo
             /\ n.paginas[p].presencia
             /\ n.paginas[p].frame_mp = f
             /\ ~ n.paginas[p].modificacion
<1> DEFINE i == [m.paginas[p] EXCEPT !.presencia = TRUE, !.frame_mp = f,
                                     !.uso = TRUE, !.modificacion = FALSE]
<1>0. m.paginas \in [Paginas -> Info] /\ m.paginas[p] \in Info
  BY DEF Memorias
<1>1. /\ i \in Info /\ i.frame_mv = m.paginas[p].frame_mv
      /\ i.lockeo = m.paginas[p].lockeo /\ i.presencia /\ i.frame_mp = f
      /\ ~ i.modificacion
  <2>1. \A j \in Info :
          LET k == [j EXCEPT !.presencia = TRUE, !.frame_mp = f,
                             !.uso = TRUE, !.modificacion = FALSE]
          IN  /\ k \in Info /\ k.frame_mv = j.frame_mv /\ k.lockeo = j.lockeo
              /\ k.presencia /\ k.frame_mp = f /\ ~ k.modificacion
    BY RegistroLevantado
  <2> QED BY <2>1, <1>0, Zenon
<1>2. pagina_levantada(m, p, f) = [m EXCEPT !.paginas[p] = i]
  BY DEF pagina_levantada
<1> HIDE DEF i
<1> QED BY <1>0, <1>1, <1>2, CampoPaginas

(* DejarFrame changes the information of one page. *)
LEMMA DejarCampos ==
  ASSUME NEW m, m \in Memorias, NEW p, p \in Paginas
  PROVE  LET n == DejarFrame(m, p)
         IN  /\ n \in Memorias
             /\ n.mp = m.mp /\ n.mv = m.mv
             /\ n.bitmap_mp = m.bitmap_mp /\ n.bitmap_mv = m.bitmap_mv
             /\ n.lista = m.lista /\ n.puntero = m.puntero
             /\ \A q \in Paginas : q # p => n.paginas[q] = m.paginas[q]
             /\ n.paginas[p].frame_mv = m.paginas[p].frame_mv
             /\ n.paginas[p].lockeo = m.paginas[p].lockeo
             /\ ~ n.paginas[p].presencia
             /\ n.paginas[p].frame_mp = -1
<1> DEFINE i == [m.paginas[p] EXCEPT !.presencia = FALSE, !.frame_mp = -1]
<1>0. m.paginas \in [Paginas -> Info] /\ m.paginas[p] \in Info
  BY DEF Memorias
<1>1. /\ i \in Info /\ i.frame_mv = m.paginas[p].frame_mv
      /\ i.lockeo = m.paginas[p].lockeo /\ ~ i.presencia /\ i.frame_mp = -1
  BY <1>0, RegistroDejado
<1>2. DejarFrame(m, p) = [m EXCEPT !.paginas[p] = i]
  BY <1>0 DEF DejarFrame, Memorias, Info, InfoPagina
<1> HIDE DEF i
<1> QED BY <1>0, <1>1, <1>2, CampoPaginas

(* Sincronizar writes at most the swap frame of the victim. *)
LEMMA SincronizarCampos ==
  ASSUME NEW m, m \in Memorias, NEW v, v \in Paginas,
         m.paginas[v].frame_mp \in FramesMP, m.paginas[v].frame_mv \in FramesMV
  PROVE  LET n == Sincronizar(m, v)
         IN  /\ n \in Memorias
             /\ n.mp = m.mp
             /\ n.bitmap_mp = m.bitmap_mp /\ n.bitmap_mv = m.bitmap_mv
             /\ n.paginas = m.paginas /\ n.lista = m.lista /\ n.puntero = m.puntero
             /\ \A g \in FramesMV :
                  n.mv[g] = IF m.paginas[v].modificacion /\ g = m.paginas[v].frame_mv
                            THEN m.mp[m.paginas[v].frame_mp] ELSE m.mv[g]
BY DEF Sincronizar, ContenidoMP, Memorias

-----------------------------------------------------------------------------
(* The whole of swap.                                                      *)

(* n is m once p took the frame of v. *)
Intercambio(m, n, p, v) ==
  /\ n \in Memorias
  /\ Enumera(n.lista, (Residentes(m) \ {v}) \cup {p})
  /\ n.bitmap_mp = m.bitmap_mp /\ n.bitmap_mv = m.bitmap_mv
  /\ v \in Residentes(m) /\ v # p /\ ~ m.paginas[v].lockeo
  /\ \A q \in Paginas :
       /\ n.paginas[q].frame_mv = m.paginas[q].frame_mv
       /\ n.paginas[q].lockeo = m.paginas[q].lockeo
       /\ q # p /\ q # v =>
            /\ n.paginas[q].frame_mp = m.paginas[q].frame_mp
            /\ n.paginas[q].presencia = m.paginas[q].presencia
            /\ n.paginas[q].modificacion = m.paginas[q].modificacion
  /\ n.paginas[p].presencia /\ ~ n.paginas[p].modificacion
  /\ n.paginas[p].frame_mp = m.paginas[v].frame_mp
  /\ ~ n.paginas[v].presencia /\ n.paginas[v].frame_mp = -1
  /\ \A g \in FramesMP :
       n.mp[g] = IF g = m.paginas[v].frame_mp
                 THEN m.mv[m.paginas[p].frame_mv] ELSE m.mp[g]
  /\ \A g \in FramesMV :
       n.mv[g] = IF m.paginas[v].modificacion /\ g = m.paginas[v].frame_mv
                 THEN m.mp[m.paginas[v].frame_mp] ELSE m.mv[g]

(* swap exchanges the required page and the victim, and nothing else. *)
LEMMA SwapCampos ==
  ASSUME NEW m, MemoriaBien(m), NEW p, p \in Paginas, tiene_pagina(m, p),
         ~ m.paginas[p].presencia, HayVictima(m)
  PROVE  Intercambio(m, swap(m, p), p, m.lista[Eleccion(m).pos])
<1> DEFINE e == Eleccion(m)
           v == m.lista[e.pos]
           f == m.paginas[v].frame_mp
           req == m.mv[m.paginas[p].frame_mv]
           r == ReemplazarEnLista(m, p, e)
           s == Sincronizar(r, v)
           c == [s EXCEPT !.mp[f] = req]
           l == pagina_levantada(c, p, f)
           n == DejarFrame(l, v)
<1>1. m \in Memorias
  BY DEF MemoriaBien
<1>2. /\ e.pos \in 1 .. Len(m.lista) /\ ~ m.paginas[v].lockeo
      /\ \A q \in Paginas :
           /\ e.paginas[q].frame_mv     = m.paginas[q].frame_mv
           /\ e.paginas[q].frame_mp     = m.paginas[q].frame_mp
           /\ e.paginas[q].presencia    = m.paginas[q].presencia
           /\ e.paginas[q].modificacion = m.paginas[q].modificacion
           /\ e.paginas[q].lockeo       = m.paginas[q].lockeo
  BY <1>1, EleccionBien
<1>3. v \in Paginas /\ m.paginas[v].presencia /\ f \in FramesMP
      /\ m.paginas[v].frame_mv \in FramesMV /\ v \in Residentes(m)
  BY <1>2, ListaDeResidentes DEF Residentes
<1>4. req \in Contenido
  BY <1>1 DEF Memorias, Info, InfoPagina, tiene_pagina
<1>5. /\ Enumera(r.lista, (Residentes(m) \ {v}) \cup {p})
      /\ r \in Memorias /\ r.mp = m.mp /\ r.mv = m.mv
      /\ r.bitmap_mp = m.bitmap_mp /\ r.bitmap_mv = m.bitmap_mv
      /\ r.paginas = e.paginas
  BY ReemplazoBien
<1>6. swap(m, p) = n
  BY DEF swap
<1> HIDE DEF e
<1>7. v # p
  BY <1>3
<1> HIDE DEF v, f, req, r
<1>a. r.paginas[v].frame_mp = f /\ r.paginas[v].frame_mv = m.paginas[v].frame_mv
      /\ r.paginas[v].modificacion = m.paginas[v].modificacion
  BY <1>2, <1>3, <1>5 DEF f
<1>8. /\ s \in Memorias /\ s.mp = r.mp
      /\ s.bitmap_mp = r.bitmap_mp /\ s.bitmap_mv = r.bitmap_mv
      /\ s.paginas = r.paginas /\ s.lista = r.lista
      /\ \A g \in FramesMV :
           s.mv[g] = IF m.paginas[v].modificacion /\ g = m.paginas[v].frame_mv
                     THEN m.mp[f] ELSE m.mv[g]
  BY <1>3, <1>5, <1>a, SincronizarCampos
<1> HIDE DEF s
<1>9. /\ c \in Memorias /\ c.mv = s.mv
      /\ c.bitmap_mp = s.bitmap_mp /\ c.bitmap_mv = s.bitmap_mv
      /\ c.paginas = s.paginas /\ c.lista = s.lista
      /\ \A g \in FramesMP : c.mp[g] = IF g = f THEN req ELSE s.mp[g]
  BY <1>3, <1>4, <1>8, CampoMP
<1> HIDE DEF c
<1>10. /\ l \in Memorias /\ l.mp = c.mp /\ l.mv = c.mv
       /\ l.bitmap_mp = c.bitmap_mp /\ l.bitmap_mv = c.bitmap_mv /\ l.lista = c.lista
       /\ \A q \in Paginas : q # p => l.paginas[q] = c.paginas[q]
       /\ l.paginas[p].frame_mv = c.paginas[p].frame_mv
       /\ l.paginas[p].lockeo = c.paginas[p].lockeo
       /\ l.paginas[p].presencia /\ l.paginas[p].frame_mp = f
       /\ ~ l.paginas[p].modificacion
  BY <1>3, <1>9, LevantadaCampos
<1> HIDE DEF l
<1>11. /\ n \in Memorias /\ n.mp = l.mp /\ n.mv = l.mv
       /\ n.bitmap_mp = l.bitmap_mp /\ n.bitmap_mv = l.bitmap_mv /\ n.lista = l.lista
       /\ \A q \in Paginas : q # v => n.paginas[q] = l.paginas[q]
       /\ n.paginas[v].frame_mv = l.paginas[v].frame_mv
       /\ n.paginas[v].lockeo = l.paginas[v].lockeo
       /\ ~ n.paginas[v].presencia /\ n.paginas[v].frame_mp = -1
  BY <1>3, <1>10, DejarCampos
<1> HIDE DEF n
<1>12. \A q \in Paginas :
         /\ n.paginas[q].frame_mv = m.paginas[q].frame_mv
         /\ n.paginas[q].lockeo = m.paginas[q].lockeo
         /\ q # p /\ q # v =>
              /\ n.paginas[q].frame_mp = m.paginas[q].frame_mp
              /\ n.paginas[q].presencia = m.paginas[q].presencia
              /\ n.paginas[q].modificacion = m.paginas[q].modificacion
  BY <1>2, <1>3, <1>5, <1>7, <1>8, <1>9, <1>10, <1>11
<1>13. /\ n.paginas[p].presencia /\ ~ n.paginas[p].modificacion
       /\ n.paginas[p].frame_mp = f
  BY <1>7, <1>10, <1>11
<1>14. /\ \A g \in FramesMP : n.mp[g] = IF g = f THEN req ELSE m.mp[g]
       /\ \A g \in FramesMV :
            n.mv[g] = IF m.paginas[v].modificacion /\ g = m.paginas[v].frame_mv
                      THEN m.mp[f] ELSE m.mv[g]
       /\ Enumera(n.lista, (Residentes(m) \ {v}) \cup {p})
       /\ n.bitmap_mp = m.bitmap_mp /\ n.bitmap_mv = m.bitmap_mv
  BY <1>5, <1>8, <1>9, <1>10, <1>11
<1>15. Intercambio(m, n, p, v)
  BY <1>2, <1>3, <1>7, <1>11, <1>12, <1>13, <1>14 DEF Intercambio, f, req
<1> QED BY <1>6, <1>15 DEF v, e

(* Such an exchange keeps the memory consistent and every quantity. *)
LEMMA IntercambioBien ==
  ASSUME NEW m, MemoriaBien(m), NEW p, p \in Paginas, tiene_pagina(m, p),
         ~ m.paginas[p].presencia, NEW n, NEW v, Intercambio(m, n, p, v)
  PROVE  MemoriaBien(n) /\ Conserva(m, n) /\ n.paginas[p].presencia
<1>1. /\ m \in Memorias /\ n \in Memorias
      /\ v \in Paginas /\ m.paginas[v].presencia /\ v # p
      /\ m.paginas[v].frame_mp \in FramesMP
      /\ m.paginas[v].frame_mv \in FramesMV /\ m.paginas[p].frame_mv \in FramesMV
      /\ m.paginas[v].frame_mp # -1 /\ m.paginas[v].frame_mv # -1
  BY DEF Intercambio, Residentes, MemoriaBien, FramesBien, Memorias, Info,
         InfoPagina, tiene_pagina, FramesMP, FramesMV
<1>2. \A q \in Paginas :
        n.paginas[q].presencia <=> q = p \/ (m.paginas[q].presencia /\ q # v)
  BY <1>1 DEF Intercambio
<1>3. \A q \in Paginas : n.paginas[q].frame_mp =
        IF q = p THEN m.paginas[v].frame_mp
        ELSE IF q = v THEN -1 ELSE m.paginas[q].frame_mp
  BY <1>1 DEF Intercambio
<1>4. \A q \in Paginas : n.paginas[q].frame_mv = m.paginas[q].frame_mv
  BY DEF Intercambio
<1>5. FramesBien(n)
  <2>1. m.paginas[p].frame_mp = -1 /\ m.paginas[p].frame_mv # -1
    BY DEF MemoriaBien, FramesBien, tiene_pagina
  <2>2. \A q \in Paginas : /\ n.paginas[q].presencia <=> n.paginas[q].frame_mp # -1
                           /\ n.paginas[q].presencia => n.paginas[q].frame_mv # -1
    BY <1>1, <1>2, <1>3, <1>4, <2>1 DEF MemoriaBien, FramesBien
  <2>3. \A f \in FramesMV : n.bitmap_mv[f] <=> \E q \in Paginas : n.paginas[q].frame_mv = f
    BY <1>4 DEF MemoriaBien, FramesBien, Intercambio
  <2>4. \A f \in FramesMP : n.bitmap_mp[f] <=> \E q \in Paginas : n.paginas[q].frame_mp = f
    <3> SUFFICES ASSUME NEW f \in FramesMP
                 PROVE  n.bitmap_mp[f] <=> \E q \in Paginas : n.paginas[q].frame_mp = f
      OBVIOUS
    <3>1. f # -1
      BY DEF FramesMP
    <3>2. (\E q \in Paginas : n.paginas[q].frame_mp = f)
            <=> (\E q \in Paginas : m.paginas[q].frame_mp = f)
      BY <1>1, <1>3, <2>1, <3>1
    <3> QED BY <3>2 DEF MemoriaBien, FramesBien, Intercambio
  <2>5. \A q, x \in Paginas : q # x =>
          /\ n.paginas[q].frame_mv # -1 => n.paginas[q].frame_mv # n.paginas[x].frame_mv
          /\ n.paginas[q].frame_mp # -1 => n.paginas[q].frame_mp # n.paginas[x].frame_mp
    BY <1>1, <1>3, <1>4 DEF MemoriaBien, FramesBien
  <2> QED BY <2>2, <2>3, <2>4, <2>5 DEF FramesBien
<1>6. ListaBien(n)
  <2>1. Residentes(n) = (Residentes(m) \ {v}) \cup {p}
    BY <1>1, <1>2 DEF Residentes
  <2> QED BY <2>1 DEF ListaBien, Intercambio
<1>7. \A q \in Paginas : m.paginas[q].presencia /\ q # v =>
        /\ m.paginas[q].frame_mp \in FramesMP /\ m.paginas[q].frame_mv \in FramesMV
        /\ m.paginas[q].frame_mp # m.paginas[v].frame_mp
        /\ m.paginas[q].frame_mv # m.paginas[v].frame_mv
  BY <1>1 DEF MemoriaBien, FramesBien, Memorias, Info, InfoPagina
<1>8. m.paginas[p].frame_mv # m.paginas[v].frame_mv
  BY <1>1 DEF MemoriaBien, FramesBien
<1>9. CopiasBien(n)
  <2> SUFFICES ASSUME NEW q \in Paginas, n.paginas[q].presencia, ~ n.paginas[q].modificacion
               PROVE  n.mp[n.paginas[q].frame_mp] = n.mv[n.paginas[q].frame_mv]
    BY DEF CopiasBien, Residentes, ContenidoMP
  <2>1. CASE q = p
    BY <2>1, <1>1, <1>3, <1>4, <1>8 DEF Intercambio
  <2>2. CASE q # p
    <3>1. /\ q # v /\ m.paginas[q].presencia /\ ~ m.paginas[q].modificacion
          /\ n.paginas[q].frame_mp = m.paginas[q].frame_mp
          /\ n.paginas[q].frame_mv = m.paginas[q].frame_mv
      BY <2>2, <1>2, <1>3, <1>4 DEF Intercambio
    <3>2. m.mp[m.paginas[q].frame_mp] = m.mv[m.paginas[q].frame_mv]
      BY <3>1 DEF MemoriaBien, CopiasBien, Residentes, ContenidoMP
    <3>3. n.mp[m.paginas[q].frame_mp] = m.mp[m.paginas[q].frame_mp]
      BY <3>1, <1>7 DEF Intercambio
    <3>4. n.mv[m.paginas[q].frame_mv] = m.mv[m.paginas[q].frame_mv]
      BY <3>1, <1>7 DEF Intercambio
    <3> QED BY <3>1, <3>2, <3>3, <3>4
  <2> QED BY <2>1, <2>2
<1>10. Conserva(m, n)
  <2>1. ASSUME NEW q \in Paginas, tiene_pagina(m, q)
        PROVE  Valor(n, q) = Valor(m, q)
    <3>1. m.paginas[q].frame_mv \in FramesMV
      BY <2>1, <1>1 DEF tiene_pagina, Memorias, Info, InfoPagina
    <3>2. CASE q = p
      BY <3>2, <1>1, <1>2, <1>3, <1>4 DEF Valor, ContenidoMP, Intercambio
    <3>3. CASE q = v
      <4>1. Valor(n, q) = n.mv[m.paginas[v].frame_mv]
        BY <3>3, <1>1, <1>2, <1>4 DEF Valor
      <4>2. Valor(m, q) = m.mp[m.paginas[v].frame_mp]
        BY <3>3, <1>1 DEF Valor, ContenidoMP
      <4>3. CASE m.paginas[v].modificacion
        BY <4>1, <4>2, <4>3, <1>1 DEF Intercambio
      <4>4. CASE ~ m.paginas[v].modificacion
        <5>1. m.mp[m.paginas[v].frame_mp] = m.mv[m.paginas[v].frame_mv]
          BY <4>4, <1>1 DEF MemoriaBien, CopiasBien, Residentes, ContenidoMP
        <5> QED BY <5>1, <4>1, <4>2, <4>4, <1>1 DEF Intercambio
      <4> QED BY <4>3, <4>4
    <3>4. CASE q # p /\ q # v /\ m.paginas[q].presencia
      BY <3>4, <1>2, <1>3, <1>7 DEF Valor, ContenidoMP, Intercambio
    <3>5. CASE q # p /\ q # v /\ ~ m.paginas[q].presencia
      <4>1. m.paginas[q].frame_mv # m.paginas[v].frame_mv
        BY <3>5, <1>1 DEF MemoriaBien, FramesBien
      <4> QED BY <4>1, <3>1, <3>5, <1>2, <1>4 DEF Valor, Intercambio
    <3> QED BY <3>2, <3>3, <3>4, <3>5
  <2>2. ASSUME NEW q \in Paginas, m.paginas[q].presencia, m.paginas[q].lockeo
        PROVE  n.paginas[q].presencia
    BY <2>2, <1>2 DEF Intercambio
  <2> QED BY <2>1, <2>2 DEF Conserva, Intercambio
<1> QED BY <1>1, <1>2, <1>5, <1>6, <1>9, <1>10 DEF MemoriaBien

(* swap gives p a frame, keeps the memory consistent and loses nothing. *)
LEMMA SwapBien ==
  ASSUME NEW m, MemoriaBien(m), NEW p, p \in Paginas, tiene_pagina(m, p),
         ~ m.paginas[p].presencia, HayVictima(m)
  PROVE  /\ MemoriaBien(swap(m, p))
         /\ Conserva(m, swap(m, p))
         /\ swap(m, p).paginas[p].presencia
BY SwapCampos, IntercambioBien

-----------------------------------------------------------------------------
(* Operations that leave every page where it is.                           *)

(* n has the pages of m in the same frames; a content that changed is      *)
(* marked as modified.                                                     *)
MismosFrames(m, n) ==
  /\ n \in Memorias
  /\ Enumera(n.lista, Residentes(m))
  /\ n.bitmap_mp = m.bitmap_mp /\ n.bitmap_mv = m.bitmap_mv /\ n.mv = m.mv
  /\ \A q \in Paginas :
       /\ n.paginas[q].frame_mv = m.paginas[q].frame_mv
       /\ n.paginas[q].frame_mp = m.paginas[q].frame_mp
       /\ n.paginas[q].presencia = m.paginas[q].presencia
       /\ m.paginas[q].presencia =>
            \/ n.paginas[q].modificacion
            \/ /\ ~ m.paginas[q].modificacion
               /\ n.mp[m.paginas[q].frame_mp] = m.mp[m.paginas[q].frame_mp]

(* Pages that stay in their frames stay consistent. *)
LEMMA MismosFramesBien ==
  ASSUME NEW m, MemoriaBien(m), NEW n, MismosFrames(m, n)
  PROVE  MemoriaBien(n)
<1>1. Residentes(n) = Residentes(m)
  BY DEF Residentes, MismosFrames
<1>2. FramesBien(n)
  BY DEF MemoriaBien, FramesBien, MismosFrames
<1>3. ListaBien(n)
  BY <1>1 DEF ListaBien, MismosFrames
<1>4. CopiasBien(n)
  BY <1>1 DEF CopiasBien, MemoriaBien, MismosFrames, ContenidoMP, Residentes
<1> QED BY <1>2, <1>3, <1>4 DEF MemoriaBien, MismosFrames

(* An operation on the bits of the pages that leaves the modification bits *)
(* alone.                                                                  *)
LEMMA SoloBits ==
  ASSUME NEW m, MemoriaBien(m), NEW t, t \in [Paginas -> Info],
         \A q \in Paginas : /\ t[q].frame_mv = m.paginas[q].frame_mv
                            /\ t[q].frame_mp = m.paginas[q].frame_mp
                            /\ t[q].presencia = m.paginas[q].presencia
                            /\ t[q].modificacion = m.paginas[q].modificacion
  PROVE  /\ MemoriaBien([m EXCEPT !.paginas = t])
         /\ [m EXCEPT !.paginas = t].paginas = t
         /\ \A q \in Paginas :
              tiene_pagina(m, q) => Valor([m EXCEPT !.paginas = t], q) = Valor(m, q)
<1> DEFINE n == [m EXCEPT !.paginas = t]
<1>1. m \in Memorias
  BY DEF MemoriaBien
<1>2. /\ n \in Memorias /\ n.mp = m.mp /\ n.mv = m.mv /\ n.lista = m.lista
      /\ n.bitmap_mp = m.bitmap_mp /\ n.bitmap_mv = m.bitmap_mv
      /\ n.paginas = t
  BY <1>1 DEF Memorias
<1> HIDE DEF n
<1>3. MismosFrames(m, n)
  BY <1>2 DEF MismosFrames, MemoriaBien, ListaBien
<1>4. MemoriaBien(n)
  BY <1>3, MismosFramesBien
<1>5. \A q \in Paginas : Valor(n, q) = Valor(m, q)
  BY <1>2 DEF Valor, ContenidoMP
<1> QED BY <1>2, <1>4, <1>5 DEF n

(* Pinning and unpinning. *)
LEMMA FijarBien ==
  ASSUME NEW m, MemoriaBien(m), NEW S
  PROVE  /\ MemoriaBien(poner_bit_de_lockeo(m, S, TRUE))
         /\ \A q \in Paginas :
              LET i == poner_bit_de_lockeo(m, S, TRUE).paginas[q]
              IN  /\ i.frame_mv = m.paginas[q].frame_mv
                  /\ i.presencia = m.paginas[q].presencia
                  /\ i.lockeo <=> q \in S \/ m.paginas[q].lockeo
<1> DEFINE t == [q \in Paginas |-> IF q \in S THEN [m.paginas[q] EXCEPT !.lockeo = TRUE]
                                              ELSE m.paginas[q]]
<1>1. m.paginas \in [Paginas -> Info]
  BY DEF MemoriaBien, Memorias
<1>2. /\ t \in [Paginas -> Info]
      /\ \A q \in Paginas : /\ t[q].frame_mv = m.paginas[q].frame_mv
                            /\ t[q].frame_mp = m.paginas[q].frame_mp
                            /\ t[q].presencia = m.paginas[q].presencia
                            /\ t[q].modificacion = m.paginas[q].modificacion
                            /\ t[q].lockeo <=> q \in S \/ m.paginas[q].lockeo
  BY <1>1 DEF Info, InfoPagina
<1>3. poner_bit_de_lockeo(m, S, TRUE) = [m EXCEPT !.paginas = t]
  BY DEF poner_bit_de_lockeo
<1> HIDE DEF t
<1>4. MemoriaBien([m EXCEPT !.paginas = t]) /\ [m EXCEPT !.paginas = t].paginas = t
  BY <1>2, SoloBits
<1> QED BY <1>2, <1>3, <1>4

(* Unpinning, likewise. *)
LEMMA DesfijarBien ==
  ASSUME NEW m, MemoriaBien(m), NEW S
  PROVE  /\ MemoriaBien(poner_bit_de_lockeo(m, S, FALSE))
         /\ \A q \in Paginas :
              LET i == poner_bit_de_lockeo(m, S, FALSE).paginas[q]
              IN  /\ i.frame_mv = m.paginas[q].frame_mv
                  /\ i.presencia = m.paginas[q].presencia
                  /\ i.lockeo <=> q \notin S /\ m.paginas[q].lockeo
<1> DEFINE t == [q \in Paginas |-> IF q \in S THEN [m.paginas[q] EXCEPT !.lockeo = FALSE]
                                              ELSE m.paginas[q]]
<1>1. m.paginas \in [Paginas -> Info]
  BY DEF MemoriaBien, Memorias
<1>2. /\ t \in [Paginas -> Info]
      /\ \A q \in Paginas : /\ t[q].frame_mv = m.paginas[q].frame_mv
                            /\ t[q].frame_mp = m.paginas[q].frame_mp
                            /\ t[q].presencia = m.paginas[q].presencia
                            /\ t[q].modificacion = m.paginas[q].modificacion
                            /\ t[q].lockeo <=> q \notin S /\ m.paginas[q].lockeo
  BY <1>1 DEF Info, InfoPagina
<1>3. poner_bit_de_lockeo(m, S, FALSE) = [m EXCEPT !.paginas = t]
  BY DEF poner_bit_de_lockeo
<1> HIDE DEF t
<1>4. MemoriaBien([m EXCEPT !.paginas = t]) /\ [m EXCEPT !.paginas = t].paginas = t
  BY <1>2, SoloBits
<1> QED BY <1>2, <1>3, <1>4

(* Reading pages sets their use bits and nothing else. *)
LEMMA LeidasBien ==
  ASSUME NEW m, MemoriaBien(m), NEW S
  PROVE  /\ MemoriaBien(paginas_leidas(m, S))
         /\ \A q \in Paginas :
              LET i == paginas_leidas(m, S).paginas[q]
              IN  /\ i.frame_mv = m.paginas[q].frame_mv
                  /\ i.presencia = m.paginas[q].presencia
                  /\ i.lockeo = m.paginas[q].lockeo
<1> DEFINE t == [q \in Paginas |-> IF q \in S THEN [m.paginas[q] EXCEPT !.uso = TRUE]
                                              ELSE m.paginas[q]]
<1>1. m.paginas \in [Paginas -> Info]
  BY DEF MemoriaBien, Memorias
<1>2. /\ t \in [Paginas -> Info]
      /\ \A q \in Paginas : /\ t[q].frame_mv = m.paginas[q].frame_mv
                            /\ t[q].frame_mp = m.paginas[q].frame_mp
                            /\ t[q].presencia = m.paginas[q].presencia
                            /\ t[q].modificacion = m.paginas[q].modificacion
                            /\ t[q].lockeo = m.paginas[q].lockeo
  BY <1>1 DEF Info, InfoPagina
<1>3. paginas_leidas(m, S) = [m EXCEPT !.paginas = t]
  BY DEF paginas_leidas
<1> HIDE DEF t
<1>4. MemoriaBien([m EXCEPT !.paginas = t]) /\ [m EXCEPT !.paginas = t].paginas = t
  BY <1>2, SoloBits
<1> QED BY <1>2, <1>3, <1>4

(* The bits that pagina_modificada sets. *)
LEMMA RegistroModificado ==
  \A j \in Info : LET i == [j EXCEPT !.modificacion = TRUE, !.uso = TRUE]
                  IN  /\ i \in Info /\ i.modificacion
                      /\ i.frame_mv = j.frame_mv /\ i.frame_mp = j.frame_mp
                      /\ i.presencia = j.presencia /\ i.lockeo = j.lockeo
BY DEF Info, InfoPagina

(* pagina_modificada changes the bits of one page. *)
LEMMA ModificadaCampos ==
  ASSUME NEW m, m \in Memorias, NEW p, p \in Paginas
  PROVE  LET n == pagina_modificada(m, p)
         IN  /\ n \in Memorias
             /\ n.mp = m.mp /\ n.mv = m.mv
             /\ n.bitmap_mp = m.bitmap_mp /\ n.bitmap_mv = m.bitmap_mv
             /\ n.lista = m.lista /\ n.puntero = m.puntero
             /\ n.paginas[p].modificacion
             /\ \A q \in Paginas :
                  /\ n.paginas[q].frame_mv = m.paginas[q].frame_mv
                  /\ n.paginas[q].frame_mp = m.paginas[q].frame_mp
                  /\ n.paginas[q].presencia = m.paginas[q].presencia
                  /\ n.paginas[q].lockeo = m.paginas[q].lockeo
                  /\ q # p => n.paginas[q].modificacion = m.paginas[q].modificacion
<1> DEFINE i == [m.paginas[p] EXCEPT !.modificacion = TRUE, !.uso = TRUE]
<1>0. m.paginas \in [Paginas -> Info] /\ m.paginas[p] \in Info
  BY DEF Memorias
<1>1. /\ i \in Info /\ i.modificacion
      /\ i.frame_mv = m.paginas[p].frame_mv /\ i.frame_mp = m.paginas[p].frame_mp
      /\ i.presencia = m.paginas[p].presencia /\ i.lockeo = m.paginas[p].lockeo
  BY <1>0, RegistroModificado, Zenon
<1>2. pagina_modificada(m, p) = [m EXCEPT !.paginas[p] = i]
  BY DEF pagina_modificada
<1> HIDE DEF i
<1> QED BY <1>0, <1>1, <1>2, CampoPaginas

(* Writing a resident page: s is m with another content in its frame. *)
LEMMA EscribirBien ==
  ASSUME NEW m, MemoriaBien(m), NEW p, p \in Paginas, m.paginas[p].presencia,
         NEW s, s \in Memorias, s.mv = m.mv, s.bitmap_mp = m.bitmap_mp,
         s.bitmap_mv = m.bitmap_mv, s.paginas = m.paginas, s.lista = m.lista,
         \A g \in FramesMP : g # m.paginas[p].frame_mp => s.mp[g] = m.mp[g]
  PROVE  LET n == agregar_a_lista_de_swapeo(pagina_modificada(s, p), p, "REFERENCIA")
         IN  /\ MemoriaBien(n)
             /\ n.mp = s.mp /\ n.mv = m.mv
             /\ \A q \in Paginas : /\ n.paginas[q].frame_mv = m.paginas[q].frame_mv
                                   /\ n.paginas[q].frame_mp = m.paginas[q].frame_mp
                                   /\ n.paginas[q].presencia = m.paginas[q].presencia
                                   /\ n.paginas[q].lockeo = m.paginas[q].lockeo
<1> DEFINE f == m.paginas[p].frame_mp
           b == pagina_modificada(s, p)
           n == agregar_a_lista_de_swapeo(b, p, "REFERENCIA")
           R == Residentes(m)
<1>1. /\ m \in Memorias /\ m.paginas \in [Paginas -> Info] /\ f \in FramesMP
  BY DEF MemoriaBien, FramesBien, Memorias, Info, InfoPagina
<1> HIDE DEF b
<1>5. /\ b \in Memorias /\ b.mp = s.mp /\ b.mv = s.mv
      /\ b.bitmap_mp = s.bitmap_mp /\ b.bitmap_mv = s.bitmap_mv /\ b.lista = s.lista
      /\ b.paginas[p].modificacion
  BY ModificadaCampos DEF b
<1>6. \A q \in Paginas :
        /\ b.paginas[q].frame_mv = m.paginas[q].frame_mv
        /\ b.paginas[q].frame_mp = m.paginas[q].frame_mp
        /\ b.paginas[q].presencia = m.paginas[q].presencia
        /\ b.paginas[q].lockeo = m.paginas[q].lockeo
        /\ q # p => b.paginas[q].modificacion = m.paginas[q].modificacion
  BY ModificadaCampos DEF b
<1>7. /\ R \in SUBSET Paginas /\ p \in R /\ Enumera(b.lista, R)
      /\ \A q \in R : b.paginas[q].frame_mv = b.paginas[p].frame_mv <=> q = p
  BY <1>5, <1>6 DEF MemoriaBien, ListaBien, FramesBien, Residentes
<1>8. /\ Enumera(n.lista, R) /\ n \in Memorias
      /\ n.mp = b.mp /\ n.mv = b.mv
      /\ n.bitmap_mp = b.bitmap_mp /\ n.bitmap_mv = b.bitmap_mv /\ n.paginas = b.paginas
  <2> HIDE DEF n, R
  <2> QED BY <1>5, <1>7, AgregarReferencia DEF n
<1> HIDE DEF n
<1>9. \A q \in Paginas : m.paginas[q].presencia =>
        \/ n.paginas[q].modificacion
        \/ /\ ~ m.paginas[q].modificacion
           /\ n.mp[m.paginas[q].frame_mp] = m.mp[m.paginas[q].frame_mp]
  <2> SUFFICES ASSUME NEW q \in Paginas, m.paginas[q].presencia
               PROVE  \/ n.paginas[q].modificacion
                      \/ /\ ~ m.paginas[q].modificacion
                         /\ n.mp[m.paginas[q].frame_mp] = m.mp[m.paginas[q].frame_mp]
    OBVIOUS
  <2>1. CASE q = p
    BY <2>1, <1>5, <1>8
  <2>2. CASE q # p
    <3>1. m.paginas[q].frame_mp \in FramesMP /\ m.paginas[q].frame_mp # f
      BY <2>2, <1>1 DEF MemoriaBien, FramesBien, Memorias, Info, InfoPagina
    <3> QED BY <3>1, <2>2, <1>1, <1>5, <1>6, <1>8 DEF Info, InfoPagina
  <2> QED BY <2>1, <2>2
<1>10. MismosFrames(m, n)
  BY <1>5, <1>6, <1>8, <1>9 DEF MismosFrames
<1> QED BY <1>5, <1>6, <1>8, <1>10, MismosFramesBien DEF n, b

(* Adding to the quantity asked of a resident dish. *)
LEMMA SumarTotalBien ==
  ASSUME NEW m, MemoriaBien(m), NEW p, p \in Paginas, m.paginas[p].presencia,
         NEW cantidad, cantidad \in Int
  PROVE  LET n == sumar_cantidad_total(m, p, cantidad)
         IN  /\ MemoriaBien(n)
             /\ \A q \in Paginas : /\ n.paginas[q].frame_mv = m.paginas[q].frame_mv
                                   /\ n.paginas[q].presencia = m.paginas[q].presencia
                                   /\ n.paginas[q].lockeo = m.paginas[q].lockeo
<1> DEFINE f == m.paginas[p].frame_mp
           c == [m.mp[f] EXCEPT !.cantidad_total = (@ + cantidad) % Modulo]
           s == [m EXCEPT !.mp[f] = c]
<1>1. m \in Memorias /\ f \in FramesMP
  BY DEF MemoriaBien, FramesBien, Memorias, Info, InfoPagina
<1>2. m.mp[f] \in Contenido
  BY <1>1 DEF Memorias
<1>3. c \in Contenido
  <2>1. \A x \in Int, y \in Int : (x + y) % Modulo \in 0 .. Modulo - 1
    BY ModuloAssumption
  <2> QED BY <1>2, <2>1 DEF Contenido
<1>4. sumar_cantidad_total(m, p, cantidad)
        = agregar_a_lista_de_swapeo(pagina_modificada(s, p), p, "REFERENCIA")
  BY DEF sumar_cantidad_total
<1> HIDE DEF c
<1>5. /\ s \in Memorias /\ s.mv = m.mv /\ s.bitmap_mp = m.bitmap_mp
      /\ s.bitmap_mv = m.bitmap_mv /\ s.paginas = m.paginas /\ s.lista = m.lista
      /\ \A g \in FramesMP : g # m.paginas[p].frame_mp => s.mp[g] = m.mp[g]
  BY <1>1, <1>3, CampoMP
<1> HIDE DEF s
<1> QED BY <1>4, <1>5, EscribirBien

(* Adding to the quantity prepared of a resident dish. *)
LEMMA SumarListaBien ==
  ASSUME NEW m, MemoriaBien(m), NEW p, p \in Paginas, m.paginas[p].presencia
  PROVE  LET n == sumar_cantidad_lista(m, p)
         IN  /\ MemoriaBien(n)
             /\ \A q \in Paginas : /\ n.paginas[q].frame_mv = m.paginas[q].frame_mv
                                   /\ n.paginas[q].presencia = m.paginas[q].presencia
                                   /\ n.paginas[q].lockeo = m.paginas[q].lockeo
<1> DEFINE f == m.paginas[p].frame_mp
           c == [m.mp[f] EXCEPT !.cantidad_lista = (@ + 1) % Modulo]
           s == [m EXCEPT !.mp[f] = c]
<1>1. m \in Memorias /\ f \in FramesMP
  BY DEF MemoriaBien, FramesBien, Memorias, Info, InfoPagina
<1>2. m.mp[f] \in Contenido
  BY <1>1 DEF Memorias
<1>3. c \in Contenido
  <2>1. \A x \in Int : (x + 1) % Modulo \in 0 .. Modulo - 1
    BY ModuloAssumption
  <2> QED BY <1>2, <2>1 DEF Contenido
<1>4. sumar_cantidad_lista(m, p)
        = agregar_a_lista_de_swapeo(pagina_modificada(s, p), p, "REFERENCIA")
  BY DEF sumar_cantidad_lista
<1> HIDE DEF c
<1>5. /\ s \in Memorias /\ s.mv = m.mv /\ s.bitmap_mp = m.bitmap_mp
      /\ s.bitmap_mv = m.bitmap_mv /\ s.paginas = m.paginas /\ s.lista = m.lista
      /\ \A g \in FramesMP : g # m.paginas[p].frame_mp => s.mp[g] = m.mp[g]
  BY <1>1, <1>3, CampoMP
<1> HIDE DEF s
<1> QED BY <1>4, <1>5, EscribirBien

-----------------------------------------------------------------------------
(* Bringing a page in.                                                     *)

(* n is m once p was loaded in the free frame f. *)
Carga(m, n, p, f) ==
  /\ n \in Memorias
  /\ Enumera(n.lista, Residentes(m) \cup {p})
  /\ n.mv = m.mv /\ n.bitmap_mv = m.bitmap_mv
  /\ \A g \in FramesMP :
       /\ n.bitmap_mp[g] = (g = f \/ m.bitmap_mp[g])
       /\ n.mp[g] = IF g = f THEN m.mv[m.paginas[p].frame_mv] ELSE m.mp[g]
  /\ \A q \in Paginas :
       /\ n.paginas[q].frame_mv = m.paginas[q].frame_mv
       /\ n.paginas[q].lockeo = m.paginas[q].lockeo
       /\ q # p =>
            /\ n.paginas[q].frame_mp = m.paginas[q].frame_mp
            /\ n.paginas[q].presencia = m.paginas[q].presencia
            /\ n.paginas[q].modificacion = m.paginas[q].modificacion
  /\ n.paginas[p].presencia /\ ~ n.paginas[p].modificacion
  /\ n.paginas[p].frame_mp = f

(* cargar_en_frame loads the required page in the free frame. *)
LEMMA CargaCampos ==
  ASSUME NEW m, MemoriaBien(m), NEW p, p \in Paginas, tiene_pagina(m, p),
         ~ m.paginas[p].presencia,
         NEW f, f \in FramesMP, ~ m.bitmap_mp[f]
  PROVE  Carga(m, cargar_en_frame(m, p, f), p, f)
<1> DEFINE req == m.mv[m.paginas[p].frame_mv]
           s == [m EXCEPT !.bitmap_mp[f] = TRUE, !.mp[f] = req]
           b == pagina_levantada(s, p, f)
           n == agregar_a_lista_de_swapeo(b, p, "CARGA")
           R == Residentes(m)
<1>1. m \in Memorias /\ req \in Contenido
  BY DEF MemoriaBien, Memorias, Info, InfoPagina, tiene_pagina
<1> HIDE DEF req
<1>2. /\ s \in Memorias /\ s.mv = m.mv /\ s.bitmap_mv = m.bitmap_mv
      /\ s.paginas = m.paginas /\ s.lista = m.lista
      /\ \A g \in FramesMP : /\ s.mp[g] = IF g = f THEN req ELSE m.mp[g]
                             /\ s.bitmap_mp[g] = (g = f \/ m.bitmap_mp[g])
  <2> DEFINE bm == [m.bitmap_mp EXCEPT ![f] = TRUE]
             c  == [m.mp EXCEPT ![f] = req]
  <2>1. /\ bm \in [FramesMP -> BOOLEAN] /\ c \in [FramesMP -> Contenido]
        /\ \A g \in FramesMP : c[g] = IF g = f THEN req ELSE m.mp[g]
    BY <1>1 DEF Memorias
  <2>2. \A g \in FramesMP : bm[g] = (g = f \/ m.bitmap_mp[g])
    BY <1>1, Zenon DEF Memorias
  <2>3. s = [m EXCEPT !.bitmap_mp = bm, !.mp = c]
    OBVIOUS
  <2> HIDE DEF bm, c, s
  <2> QED BY <1>1, <2>1, <2>2, <2>3 DEF Memorias
<1> HIDE DEF s
<1>3. /\ b \in Memorias /\ b.mp = s.mp /\ b.mv = s.mv
      /\ b.bitmap_mp = s.bitmap_mp /\ b.bitmap_mv = s.bitmap_mv /\ b.lista = s.lista
      /\ \A q \in Paginas : q # p => b.paginas[q] = s.paginas[q]
      /\ b.paginas[p].frame_mv = s.paginas[p].frame_mv
      /\ b.paginas[p].lockeo = s.paginas[p].lockeo
      /\ b.paginas[p].presencia /\ b.paginas[p].frame_mp = f
      /\ ~ b.paginas[p].modificacion
  BY <1>2, LevantadaCampos
<1> HIDE DEF b
<1>4. \A q \in Paginas :
        /\ b.paginas[q].frame_mv = m.paginas[q].frame_mv
        /\ b.paginas[q].lockeo = m.paginas[q].lockeo
        /\ q # p =>
             /\ b.paginas[q].frame_mp = m.paginas[q].frame_mp
             /\ b.paginas[q].presencia = m.paginas[q].presencia
             /\ b.paginas[q].modificacion = m.paginas[q].modificacion
  BY <1>2, <1>3
<1>5. /\ R \in SUBSET Paginas /\ Enumera(b.lista, R)
      /\ \A q \in R : b.paginas[q].frame_mv = b.paginas[p].frame_mv <=> q = p
  BY <1>2, <1>3, <1>4 DEF MemoriaBien, ListaBien, FramesBien, Residentes, tiene_pagina
<1>6. /\ Enumera(n.lista, R \cup {p}) /\ n \in Memorias
      /\ n.mp = b.mp /\ n.mv = b.mv
      /\ n.bitmap_mp = b.bitmap_mp /\ n.bitmap_mv = b.bitmap_mv /\ n.paginas = b.paginas
  <2> HIDE DEF R
  <2>1. b \in Memorias
    BY <1>3
  <2> QED BY <2>1, <1>5, AgregarCarga
<1>7. cargar_en_frame(m, p, f) = n
  BY DEF cargar_en_frame, s, b, req
<1> HIDE DEF n
<1>8. Carga(m, n, p, f)
  BY <1>2, <1>3, <1>4, <1>6 DEF Carga, req
<1> QED BY <1>7, <1>8

(* Such a load keeps the memory consistent and every quantity. *)
LEMMA CargaBien ==
  ASSUME NEW m, MemoriaBien(m), NEW p, p \in Paginas, tiene_pagina(m, p),
         ~ m.paginas[p].presencia,
         NEW f, f \in FramesMP, ~ m.bitmap_mp[f],
         NEW n, Carga(m, n, p, f)
  PROVE  MemoriaBien(n) /\ Conserva(m, n) /\ n.paginas[p].presencia
<1>1. /\ m \in Memorias /\ n \in Memorias /\ f # -1
      /\ m.paginas[p].frame_mv \in FramesMV /\ m.paginas[p].frame_mp = -1
      /\ \A q \in Paginas : m.paginas[q].frame_mp # f
  BY DEF MemoriaBien, FramesBien, Memorias, Info, InfoPagina, tiene_pagina,
         Carga, FramesMP
<1>2. \A q \in Paginas :
        /\ n.paginas[q].presencia <=> q = p \/ m.paginas[q].presencia
        /\ n.paginas[q].frame_mp = IF q = p THEN f ELSE m.paginas[q].frame_mp
        /\ n.paginas[q].frame_mv = m.paginas[q].frame_mv
  BY DEF Carga
<1>3. FramesBien(n)
  <2>1. \A q \in Paginas : /\ n.paginas[q].presencia <=> n.paginas[q].frame_mp # -1
                           /\ n.paginas[q].presencia => n.paginas[q].frame_mv # -1
    BY <1>1, <1>2 DEF MemoriaBien, FramesBien, tiene_pagina
  <2>2. \A g \in FramesMV : n.bitmap_mv[g] <=> \E q \in Paginas : n.paginas[q].frame_mv = g
    BY <1>2 DEF MemoriaBien, FramesBien, Carga
  <2>3. \A g \in FramesMP : n.bitmap_mp[g] <=> \E q \in Paginas : n.paginas[q].frame_mp = g
    <3> SUFFICES ASSUME NEW g \in FramesMP
                 PROVE  n.bitmap_mp[g] <=> \E q \in Paginas : n.paginas[q].frame_mp = g
      OBVIOUS
    <3>1. g # -1 /\ (m.bitmap_mp[g] <=> \E q \in Paginas : m.paginas[q].frame_mp = g)
      BY DEF MemoriaBien, FramesBien, FramesMP
    <3>2. (\E q \in Paginas : n.paginas[q].frame_mp = g)
            <=> g = f \/ \E q \in Paginas : m.paginas[q].frame_mp = g
      BY <1>1, <1>2, <3>1
    <3> QED BY <3>1, <3>2 DEF Carga
  <2>4. \A q, x \in Paginas : q # x =>
          /\ n.paginas[q].frame_mv # -1 => n.paginas[q].frame_mv # n.paginas[x].frame_mv
          /\ n.paginas[q].frame_mp # -1 => n.paginas[q].frame_mp # n.paginas[x].frame_mp
    BY <1>1, <1>2 DEF MemoriaBien, FramesBien
  <2> QED BY <2>1, <2>2, <2>3, <2>4 DEF FramesBien
<1>4. ListaBien(n)
  <2>1. Residentes(n) = Residentes(m) \cup {p}
    BY <1>2 DEF Residentes
  <2> QED BY <2>1 DEF ListaBien, Carga
<1>5. \A q \in Paginas : m.paginas[q].presencia =>
        m.paginas[q].frame_mp \in FramesMP /\ m.paginas[q].frame_mp # f /\ q # p
  BY <1>1 DEF MemoriaBien, FramesBien, Memorias, Info, InfoPagina
<1>6. CopiasBien(n)
  <2> SUFFICES ASSUME NEW q \in Paginas, n.paginas[q].presencia, ~ n.paginas[q].modificacion
               PROVE  n.mp[n.paginas[q].frame_mp] = n.mv[n.paginas[q].frame_mv]
    BY DEF CopiasBien, Residentes, ContenidoMP
  <2>1. CASE q = p
    BY <2>1, <1>2 DEF Carga
  <2>2. CASE q # p
    <3>1. m.paginas[q].presencia /\ ~ m.paginas[q].modificacion
      BY <2>2, <1>2 DEF Carga
    <3>2. m.mp[m.paginas[q].frame_mp] = m.mv[m.paginas[q].frame_mv]
      BY <3>1 DEF MemoriaBien, CopiasBien, Residentes, ContenidoMP
    <3> QED BY <3>1, <3>2, <2>2, <1>2, <1>5 DEF Carga
  <2> QED BY <2>1, <2>2
<1>7. Conserva(m, n)
  <2>1. ASSUME NEW q \in Paginas PROVE Valor(n, q) = Valor(m, q)
    <3>1. CASE q = p
      BY <3>1, <1>2 DEF Valor, ContenidoMP, Carga
    <3>2. CASE q # p
      BY <3>2, <1>2, <1>5 DEF Valor, ContenidoMP, Carga
    <3> QED BY <3>1, <3>2
  <2> QED BY <2>1, <1>2 DEF Conserva, Carga
<1> QED BY <1>1, <1>2, <1>3, <1>4, <1>6, <1>7 DEF MemoriaBien

(* A page that is not resident gets a frame, free or the victim's. *)
LEMMA UbicarBien ==
  ASSUME NEW m, MemoriaBien(m), NEW p, p \in Paginas, tiene_pagina(m, p),
         ~ m.paginas[p].presencia, PuedeUbicar(m)
  PROVE  /\ MemoriaBien(ubicar_en_mp(m, p))
         /\ Conserva(m, ubicar_en_mp(m, p))
         /\ ubicar_en_mp(m, p).paginas[p].presencia
<1> DEFINE f == obtener_frame_libre(m.bitmap_mp)
<1>1. f = -1 \/ (f \in FramesMP /\ ~ m.bitmap_mp[f])
  <2>1. m.bitmap_mp \in [0 .. CantFramesMP - 1 -> BOOLEAN] /\ CantFramesMP \in Nat
    BY FramesAssumption DEF MemoriaBien, Memorias, FramesMP
  <2> QED BY <2>1, FrameLibre DEF FramesMP
<1> HIDE DEF f
<1>2. CASE f = -1
  <2>1. HayVictima(m)
    BY <1>2 DEF PuedeUbicar, f
  <2>2. ubicar_en_mp(m, p) = swap(m, p)
    BY <1>2 DEF ubicar_en_mp, f
  <2> QED BY <2>1, <2>2, SwapBien
<1>3. CASE f \in FramesMP /\ ~ m.bitmap_mp[f]
  <2>1. ubicar_en_mp(m, p) = cargar_en_frame(m, p, f)
    <3>1. ~ (f < 0)
      BY <1>3, FramesAssumption DEF FramesMP
    <3> QED BY <3>1 DEF ubicar_en_mp, f
  <2>2. Carga(m, cargar_en_frame(m, p, f), p, f)
    BY <1>3, CargaCampos
  <2> QED BY <1>3, <2>1, <2>2, CargaBien
<1> QED BY <1>1, <1>2, <1>3

(* levantar_pagina_en_memoria leaves the page in main memory. *)
LEMMA LevantarBien ==
  ASSUME NEW m, MemoriaBien(m), NEW p, p \in Paginas, tiene_pagina(m, p),
         PuedeLevantar(m, p)
  PROVE  /\ MemoriaBien(levantar_pagina_en_memoria(m, p))
         /\ Conserva(m, levantar_pagina_en_memoria(m, p))
         /\ levantar_pagina_en_memoria(m, p).paginas[p].presencia
<1>1. CASE m.paginas[p].presencia
  <2> DEFINE t == [m.paginas EXCEPT ![p] = [@ EXCEPT !.uso = TRUE]]
             n == [m EXCEPT !.paginas = t]
  <2>1. m.paginas \in [Paginas -> Info] /\ m \in Memorias
    BY DEF MemoriaBien, Memorias
  <2>2. /\ t \in [Paginas -> Info]
        /\ \A q \in Paginas : /\ t[q].frame_mv = m.paginas[q].frame_mv
                              /\ t[q].frame_mp = m.paginas[q].frame_mp
                              /\ t[q].presencia = m.paginas[q].presencia
                              /\ t[q].modificacion = m.paginas[q].modificacion
                              /\ t[q].lockeo = m.paginas[q].lockeo
    BY <2>1 DEF Info, InfoPagina
  <2>3. levantar_pagina_en_memoria(m, p) = n
    BY <1>1, <2>1 DEF levantar_pagina_en_memoria, Memorias
  <2> HIDE DEF t
  <2>4. /\ MemoriaBien(n) /\ n.paginas = t
        /\ \A q \in Paginas : tiene_pagina(m, q) => Valor(n, q) = Valor(m, q)
    BY <2>2, SoloBits
  <2> HIDE DEF n
  <2> QED BY <1>1, <2>2, <2>3, <2>4 DEF Conserva
<1>2. CASE ~ m.paginas[p].presencia
  <2>1. levantar_pagina_en_memoria(m, p) = ubicar_en_mp(m, p)
    BY <1>2 DEF levantar_pagina_en_memoria
  <2>2. PuedeUbicar(m)
    BY <1>2 DEF PuedeLevantar
  <2> QED BY <1>2, <2>1, <2>2, UbicarBien
<1> QED BY <1>1, <1>2

-----------------------------------------------------------------------------
(* Creating and freeing pages.                                             *)

(* A new dish takes a free swap frame and is not resident yet. *)
LEMMA NuevaBien ==
  ASSUME NEW m, MemoriaBien(m), NEW p, p \in Paginas, ~ tiene_pagina(m, p),
         NEW f, f \in FramesMV, ~ m.bitmap_mv[f], NEW cantidad, cantidad \in Int
  PROVE  LET n == agregar_nueva_plato_a_pedido(m, p, cantidad, f)
         IN  /\ MemoriaBien(n)
             /\ n.paginas[p].frame_mv = f
             /\ ~ n.paginas[p].presencia /\ ~ n.paginas[p].lockeo
             /\ \A q \in Paginas : q # p => n.paginas[q] = m.paginas[q]
<1> DEFINE n  == agregar_nueva_plato_a_pedido(m, p, cantidad, f)
           i  == [SinPagina EXCEPT !.frame_mv = f]
           cn == [cantidad_total |-> cantidad % Modulo, cantidad_lista |-> 0]
           bm == [m.bitmap_mv EXCEPT ![f] = TRUE]
           c  == [m.mv EXCEPT ![f] = cn]
           t  == [m.paginas EXCEPT ![p] = i]
<1>1. /\ m \in Memorias
      /\ m.bitmap_mv \in [FramesMV -> BOOLEAN] /\ m.mv \in [FramesMV -> Contenido]
      /\ m.paginas \in [Paginas -> Info]
  BY DEF MemoriaBien, Memorias
<1>2. cn \in Contenido
  <2>1. cantidad % Modulo \in 0 .. Modulo - 1 /\ 0 \in 0 .. Modulo - 1
    BY ModuloAssumption
  <2> QED BY <2>1 DEF Contenido
<1>3. /\ i \in Info /\ i.frame_mv = f /\ i.frame_mp = -1
      /\ ~ i.presencia /\ ~ i.lockeo
  BY DEF SinPagina, Info, InfoPagina
<1> HIDE DEF cn, i
<1>4. bm \in [FramesMV -> BOOLEAN] /\ \A g \in FramesMV : bm[g] = (g = f \/ m.bitmap_mv[g])
  BY <1>1, Zenon
<1>5. /\ c \in [FramesMV -> Contenido] /\ \A g \in FramesMV : g # f => c[g] = m.mv[g]
      /\ t \in [Paginas -> Info] /\ t[p] = i
      /\ \A q \in Paginas : q # p => t[q] = m.paginas[q]
  BY <1>1, <1>2, <1>3
<1>6. n = [m EXCEPT !.bitmap_mv = bm, !.mv = c, !.paginas = t]
  BY DEF agregar_nueva_plato_a_pedido, i, cn
<1> HIDE DEF bm, c, t, n
<1>7. /\ n \in Memorias /\ n.mp = m.mp /\ n.mv = c /\ n.bitmap_mp = m.bitmap_mp
      /\ n.bitmap_mv = bm /\ n.paginas = t /\ n.lista = m.lista
  BY <1>1, <1>4, <1>5, <1>6 DEF Memorias
<1>8. /\ f # -1 /\ m.paginas[p].frame_mp = -1 /\ m.paginas[p].frame_mv = -1
      /\ ~ m.paginas[p].presencia
      /\ \A q \in Paginas : m.paginas[q].frame_mv # f
  BY <1>1 DEF MemoriaBien, FramesBien, tiene_pagina, FramesMV
<1>9. \A q \in Paginas :
        /\ n.paginas[q].presencia = m.paginas[q].presencia
        /\ n.paginas[q].frame_mp = m.paginas[q].frame_mp
        /\ n.paginas[q].frame_mv = IF q = p THEN f ELSE m.paginas[q].frame_mv
        /\ q # p => n.paginas[q].modificacion = m.paginas[q].modificacion
  BY <1>1, <1>3, <1>5, <1>7, <1>8 DEF Info, InfoPagina
<1>10. FramesBien(n)
  <2>1. \A q \in Paginas : /\ n.paginas[q].presencia <=> n.paginas[q].frame_mp # -1
                           /\ n.paginas[q].presencia => n.paginas[q].frame_mv # -1
    BY <1>8, <1>9 DEF MemoriaBien, FramesBien
  <2>2. \A g \in FramesMV : n.bitmap_mv[g] <=> \E q \in Paginas : n.paginas[q].frame_mv = g
    <3> SUFFICES ASSUME NEW g \in FramesMV
                 PROVE  n.bitmap_mv[g] <=> \E q \in Paginas : n.paginas[q].frame_mv = g
      OBVIOUS
    <3>1. g # -1 /\ (m.bitmap_mv[g] <=> \E q \in Paginas : m.paginas[q].frame_mv = g)
      BY DEF MemoriaBien, FramesBien, FramesMV
    <3>2. (\E q \in Paginas : n.paginas[q].frame_mv = g)
            <=> g = f \/ \E q \in Paginas : m.paginas[q].frame_mv = g
      BY <1>8, <1>9, <3>1
    <3>3. n.bitmap_mv[g] = (g = f \/ m.bitmap_mv[g])
      BY <1>4, <1>7
    <3> QED BY <3>1, <3>2, <3>3
  <2>3. \A g \in FramesMP : n.bitmap_mp[g] <=> \E q \in Paginas : n.paginas[q].frame_mp = g
    BY <1>7, <1>9 DEF MemoriaBien, FramesBien
  <2>4. \A q, x \in Paginas : q # x =>
          /\ n.paginas[q].frame_mv # -1 => n.paginas[q].frame_mv # n.paginas[x].frame_mv
          /\ n.paginas[q].frame_mp # -1 => n.paginas[q].frame_mp # n.paginas[x].frame_mp
    BY <1>8, <1>9 DEF MemoriaBien, FramesBien
  <2> QED BY <2>1, <2>2, <2>3, <2>4 DEF FramesBien
<1>11. Residentes(n) = Residentes(m)
  BY <1>9 DEF Residentes
<1>12. ListaBien(n)
  BY <1>7, <1>11 DEF ListaBien, MemoriaBien
<1>13. CopiasBien(n)
  <2> SUFFICES ASSUME NEW q \in Paginas, n.paginas[q].presencia, ~ n.paginas[q].modificacion
               PROVE  n.mp[n.paginas[q].frame_mp] = n.mv[n.paginas[q].frame_mv]
    BY DEF CopiasBien, Residentes, ContenidoMP
  <2>1. /\ q # p /\ m.paginas[q].presencia /\ ~ m.paginas[q].modificacion
        /\ m.paginas[q].frame_mv \in FramesMV /\ m.paginas[q].frame_mv # f
    BY <1>1, <1>8, <1>9 DEF MemoriaBien, FramesBien, Info, InfoPagina
  <2>2. m.mp[m.paginas[q].frame_mp] = m.mv[m.paginas[q].frame_mv]
    BY <2>1 DEF MemoriaBien, CopiasBien, Residentes, ContenidoMP
  <2> QED BY <2>1, <2>2, <1>5, <1>7, <1>9
<1>14. MemoriaBien(n)
  BY <1>7, <1>10, <1>12, <1>13 DEF MemoriaBien
<1> QED BY <1>3, <1>5, <1>7, <1>14 DEF n

(* liberar_pagina takes one page out and leaves the others as they are. *)
LEMMA LiberarBien ==
  ASSUME NEW m, MemoriaBien(m), NEW p, p \in Paginas, tiene_pagina(m, p)
  PROVE  LET n == liberar_pagina(m, p)
         IN  /\ MemoriaBien(n)
             /\ n.paginas[p] = SinPagina
             /\ \A q \in Paginas : q # p => n.paginas[q] = m.paginas[q]
<1> DEFINE n  == liberar_pagina(m, p)
           fv == m.paginas[p].frame_mv
           fp == m.paginas[p].frame_mp
           s  == SacarDeLista(m, p)
           bv == [m.bitmap_mv EXCEPT ![fv] = FALSE]
           bp == IF fp >= 0 THEN [m.bitmap_mp EXCEPT ![fp] = FALSE] ELSE m.bitmap_mp
           t  == [m.paginas EXCEPT ![p] = SinPagina]
<1>1. /\ m \in Memorias
      /\ m.bitmap_mv \in [FramesMV -> BOOLEAN] /\ m.bitmap_mp \in [FramesMP -> BOOLEAN]
      /\ m.paginas \in [Paginas -> Info]
  BY DEF MemoriaBien, Memorias
<1>2. /\ SinPagina \in Info /\ SinPagina.frame_mv = -1 /\ SinPagina.frame_mp = -1
      /\ ~ SinPagina.presencia
  BY DEF SinPagina, Info, InfoPagina
<1>3. /\ fv \in FramesMV /\ fv # -1
      /\ fp \in FramesMP \cup {-1} /\ (fp >= 0 <=> fp # -1)
      /\ (m.paginas[p].presencia <=> fp # -1)
  BY <1>1, FramesAssumption
     DEF MemoriaBien, FramesBien, tiene_pagina, Info, InfoPagina, FramesMP, FramesMV
<1>4. bv \in [FramesMV -> BOOLEAN] /\ \A g \in FramesMV : bv[g] = (g # fv /\ m.bitmap_mv[g])
  BY <1>1, Zenon
<1>5. bp \in [FramesMP -> BOOLEAN] /\ \A g \in FramesMP : bp[g] = (g # fp /\ m.bitmap_mp[g])
  <2>1. CASE fp >= 0
    <3>1. bp = [m.bitmap_mp EXCEPT ![fp] = FALSE]
      BY <2>1
    <3> HIDE DEF bp
    <3> QED BY <3>1, <1>1, Zenon
  <2>2. CASE ~ (fp >= 0)
    <3>1. \A g \in FramesMP : g # fp
      BY <1>3, <2>2 DEF FramesMP
    <3>2. bp = m.bitmap_mp
      BY <2>2
    <3> HIDE DEF bp
    <3> QED BY <3>1, <3>2, <1>1, Zenon
  <2> QED BY <2>1, <2>2
<1>6. /\ t \in [Paginas -> Info] /\ t[p] = SinPagina
      /\ \A q \in Paginas : q # p => t[q] = m.paginas[q]
  BY <1>1, <1>2
<1>7. Enumera(s, Residentes(m) \ {p}) /\ s \in Seq(Paginas)
  <2>1. \A q \in Residentes(m) : m.paginas[q].frame_mv = m.paginas[p].frame_mv <=> q = p
    BY DEF MemoriaBien, FramesBien, Residentes, tiene_pagina
  <2>2. Enumera(m.lista, Residentes(m))
    BY DEF MemoriaBien, ListaBien
  <2>3. Enumera(SacarDeLista(m, p), Residentes(m) \ {p})
    BY <2>1, <2>2, SacarDeListaEnumera
  <2>4. Residentes(m) \ {p} \subseteq Paginas
    BY DEF Residentes
  <2> QED BY <2>3, <2>4, EnumeraSubconjunto
<1>8. n = [m EXCEPT !.lista = s, !.bitmap_mv = bv, !.bitmap_mp = bp, !.paginas = t]
  <2>1. m.bitmap_mp = m.bitmap_mp
    OBVIOUS
  <2> QED BY <1>1 DEF liberar_pagina, Memorias
<1> HIDE DEF s, bv, bp, t, n
<1>9. /\ n \in Memorias /\ n.mp = m.mp /\ n.mv = m.mv /\ n.bitmap_mp = bp
      /\ n.bitmap_mv = bv /\ n.paginas = t /\ n.lista = s
  BY <1>1, <1>4, <1>5, <1>6, <1>7, <1>8 DEF Memorias
<1>10. \A q \in Paginas :
         /\ n.paginas[q].presencia <=> q # p /\ m.paginas[q].presencia
         /\ n.paginas[q].frame_mp = IF q = p THEN -1 ELSE m.paginas[q].frame_mp
         /\ n.paginas[q].frame_mv = IF q = p THEN -1 ELSE m.paginas[q].frame_mv
         /\ q # p => n.paginas[q].modificacion = m.paginas[q].modificacion
  BY <1>2, <1>6, <1>9
<1>11. FramesBien(n)
  <2>1. \A q \in Paginas : /\ n.paginas[q].presencia <=> n.paginas[q].frame_mp # -1
                           /\ n.paginas[q].presencia => n.paginas[q].frame_mv # -1
    BY <1>10 DEF MemoriaBien, FramesBien
  <2>2. \A g \in FramesMV : n.bitmap_mv[g] <=> \E q \in Paginas : n.paginas[q].frame_mv = g
    <3> SUFFICES ASSUME NEW g \in FramesMV
                 PROVE  n.bitmap_mv[g] <=> \E q \in Paginas : n.paginas[q].frame_mv = g
      OBVIOUS
    <3>1. g # -1 /\ (m.bitmap_mv[g] <=> \E q \in Paginas : m.paginas[q].frame_mv = g)
      BY DEF MemoriaBien, FramesBien, FramesMV
    <3>2. \A q \in Paginas : q # p => m.paginas[q].frame_mv # fv
      BY <1>3 DEF MemoriaBien, FramesBien
    <3>3. (\E q \in Paginas : n.paginas[q].frame_mv = g)
            <=> g # fv /\ \E q \in Paginas : m.paginas[q].frame_mv = g
      BY <1>10, <3>1, <3>2
    <3>4. n.bitmap_mv[g] = (g # fv /\ m.bitmap_mv[g])
      BY <1>4, <1>9
    <3> QED BY <3>1, <3>3, <3>4
  <2>3. \A g \in FramesMP : n.bitmap_mp[g] <=> \E q \in Paginas : n.paginas[q].frame_mp = g
    <3> SUFFICES ASSUME NEW g \in FramesMP
                 PROVE  n.bitmap_mp[g] <=> \E q \in Paginas : n.paginas[q].frame_mp = g
      OBVIOUS
    <3>1. g # -1 /\ (m.bitmap_mp[g] <=> \E q \in Paginas : m.paginas[q].frame_mp = g)
      BY DEF MemoriaBien, FramesBien, FramesMP
    <3>2. fp # -1 => \A q \in Paginas : q # p => m.paginas[q].frame_mp # fp
      BY DEF MemoriaBien, FramesBien
    <3>3. (\E q \in Paginas : n.paginas[q].frame_mp = g)
            <=> g # fp /\ \E q \in Paginas : m.paginas[q].frame_mp = g
      BY <1>10, <3>1, <3>2
    <3>4. n.bitmap_mp[g] = (g # fp /\ m.bitmap_mp[g])
      BY <1>5, <1>9
    <3> QED BY <3>1, <3>3, <3>4
  <2>4. \A q, x \in Paginas : q # x =>
          /\ n.paginas[q].frame_mv # -1 => n.paginas[q].frame_mv # n.paginas[x].frame_mv
          /\ n.paginas[q].frame_mp # -1 => n.paginas[q].frame_mp # n.paginas[x].frame_mp
    BY <1>10 DEF MemoriaBien, FramesBien
  <2> QED BY <2>1, <2>2, <2>3, <2>4 DEF FramesBien
<1>12. ListaBien(n)
  <2>1. Residentes(n) = Residentes(m) \ {p}
    BY <1>10 DEF Residentes
  <2> QED BY <2>1, <1>7, <1>9 DEF ListaBien
<1>13. CopiasBien(n)
  BY <1>9, <1>10 DEF CopiasBien, MemoriaBien, Residentes, ContenidoMP
<1>14. MemoriaBien(n)
  BY <1>9, <1>11, <1>12, <1>13 DEF MemoriaBien
<1> QED BY <1>6, <1>9, <1>14 DEF n

(* The memory that comanda starts with is consistent. *)
LEMMA InicialBien == MemoriaBien(inicializar_memoria)
<1> DEFINE m == inicializar_memoria
           vacio == [cantidad_total |-> 0, cantidad_lista |-> 0]
<1>1. /\ vacio \in Contenido /\ SinPagina \in Info /\ 0 \in FramesMP
      /\ SinPagina.frame_mv = -1 /\ SinPagina.frame_mp = -1 /\ ~ SinPagina.presencia
  BY ModuloAssumption, FramesAssumption
     DEF Contenido, SinPagina, Info, InfoPagina, FramesMP
<1>2. /\ m.mp = [f \in FramesMP |-> vacio] /\ m.mv = [f \in FramesMV |-> vacio]
      /\ m.bitmap_mp = [f \in FramesMP |-> FALSE]
      /\ m.bitmap_mv = [f \in FramesMV |-> FALSE]
      /\ m.paginas = [p \in Paginas |-> SinPagina]
      /\ m.lista = << >> /\ m.puntero = 0
  BY DEF inicializar_memoria
<1>3. m \in Memorias
  BY <1>1, EmptySeq DEF inicializar_memoria, Memorias
<1> HIDE DEF m, vacio
<1>4. FramesBien(m)
  BY <1>1, <1>2 DEF FramesBien, FramesMP, FramesMV
<1>5. Residentes(m) = {}
  BY <1>1, <1>2 DEF Residentes
<1>6. ListaBien(m)
  BY <1>2, <1>5, EmptySeq DEF ListaBien, Enumera
<1>7. CopiasBien(m)
  BY <1>5 DEF CopiasBien
<1> QED BY <1>3, <1>4, <1>6, <1>7 DEF MemoriaBien, m

-----------------------------------------------------------------------------
(* The contents of the memory.                                             *)

(* n has the dishes of m, with the same quantities. *)
MismoContenido(m, n) ==
  \A q \in Paginas : /\ tiene_pagina(n, q) <=> tiene_pagina(m, q)
                     /\ tiene_pagina(m, q) => Valor(n, q) = Valor(m, q)

(* n has the dishes of m and p, which holds c; the others are as they were. *)
ContenidoCon(m, n, p, c) ==
  /\ tiene_pagina(n, p) /\ Valor(n, p) = c
  /\ \A q \in Paginas : q # p =>
       /\ tiene_pagina(n, q) <=> tiene_pagina(m, q)
       /\ tiene_pagina(m, q) => Valor(n, q) = Valor(m, q)

(* n has the dishes of m but p, as they were. *)
ContenidoSin(m, n, p) ==
  /\ ~ tiene_pagina(n, p)
  /\ \A q \in Paginas : q # p =>
       /\ tiene_pagina(n, q) <=> tiene_pagina(m, q)
       /\ tiene_pagina(m, q) => Valor(n, q) = Valor(m, q)

(* Moving pages between the two memories keeps the contents. *)
LEMMA ConservaContenido ==
  ASSUME NEW m, NEW n, Conserva(m, n)
  PROVE  MismoContenido(m, n)
BY DEF Conserva, MismoContenido, tiene_pagina

(* Contents that are kept twice are kept. *)
LEMMA MismoTransitivo ==
  ASSUME NEW m, NEW n, NEW o, MismoContenido(m, n), MismoContenido(n, o)
  PROVE  MismoContenido(m, o)
BY DEF MismoContenido

(* Moving pages before or after a dish changes makes no difference. *)
LEMMA ContenidoTrasMover ==
  ASSUME NEW m, NEW n, NEW o, NEW p, p \in Paginas, NEW c
  PROVE  /\ MismoContenido(m, n) /\ ContenidoCon(n, o, p, c) => ContenidoCon(m, o, p, c)
         /\ ContenidoCon(m, n, p, c) /\ MismoContenido(n, o) => ContenidoCon(m, o, p, c)
BY DEF MismoContenido, ContenidoCon

-----------------------------------------------------------------------------
(* Writing a quantity.                                                     *)

(* A resident page written in main memory: s is m with another content in  *)
(* its frame.                                                              *)
LEMMA EscribirContenido ==
  ASSUME NEW m, MemoriaBien(m), NEW p, p \in Paginas, m.paginas[p].presencia,
         NEW s, s \in Memorias, s.mv = m.mv, s.bitmap_mp = m.bitmap_mp,
         s.bitmap_mv = m.bitmap_mv, s.paginas = m.paginas, s.lista = m.lista,
         \A g \in FramesMP : g # m.paginas[p].frame_mp => s.mp[g] = m.mp[g]
  PROVE  ContenidoCon(m,
           agregar_a_lista_de_swapeo(pagina_modificada(s, p), p, "REFERENCIA"),
           p, s.mp[m.paginas[p].frame_mp])
<1> DEFINE n == agregar_a_lista_de_swapeo(pagina_modificada(s, p), p, "REFERENCIA")
           f == m.paginas[p].frame_mp
<1>1. /\ n.mp = s.mp /\ n.mv = m.mv
      /\ \A q \in Paginas : /\ n.paginas[q].frame_mv = m.paginas[q].frame_mv
                            /\ n.paginas[q].frame_mp = m.paginas[q].frame_mp
                            /\ n.paginas[q].presencia = m.paginas[q].presencia
  BY EscribirBien
<1> HIDE DEF n
<1>2. tiene_pagina(m, p)
  BY DEF MemoriaBien, FramesBien, tiene_pagina
<1>3. \A q \in Paginas : tiene_pagina(n, q) <=> tiene_pagina(m, q)
  BY <1>1 DEF tiene_pagina
<1>4. Valor(n, p) = s.mp[f]
  BY <1>1 DEF Valor, ContenidoMP
<1>5. ASSUME NEW q \in Paginas, q # p PROVE Valor(n, q) = Valor(m, q)
  <2>1. CASE m.paginas[q].presencia
    <3>1. m.paginas[q].frame_mp \in FramesMP /\ m.paginas[q].frame_mp # f
      BY <1>5, <2>1 DEF MemoriaBien, FramesBien, Memorias, Info, InfoPagina
    <3> QED BY <3>1, <2>1, <1>1 DEF Valor, ContenidoMP
  <2>2. CASE ~ m.paginas[q].presencia
    BY <2>2, <1>1 DEF Valor
  <2> QED BY <2>1, <2>2
<1> QED BY <1>2, <1>3, <1>4, <1>5 DEF ContenidoCon, n, f

(* sumar_cantidad_total adds to one dish, modulo 2^32. *)
LEMMA SumarTotalContenido ==
  ASSUME NEW m, MemoriaBien(m), NEW p, p \in Paginas, m.paginas[p].presencia,
         NEW cantidad, cantidad \in Int
  PROVE  ContenidoCon(m, sumar_cantidad_total(m, p, cantidad), p,
           [Valor(m, p) EXCEPT !.cantidad_total = (@ + cantidad) % Modulo])
<1> DEFINE f == m.paginas[p].frame_mp
           c == [m.mp[f] EXCEPT !.cantidad_total = (@ + cantidad) % Modulo]
           s == [m EXCEPT !.mp[f] = c]
<1>1. m \in Memorias /\ f \in FramesMP
  BY DEF MemoriaBien, FramesBien, Memorias, Info, InfoPagina
<1>2. m.mp[f] \in Contenido
  BY <1>1 DEF Memorias
<1>3. c \in Contenido
  <2>1. \A x \in Int, y \in Int : (x + y) % Modulo \in 0 .. Modulo - 1
    BY ModuloAssumption
  <2> QED BY <1>2, <2>1 DEF Contenido
<1>4. sumar_cantidad_total(m, p, cantidad)
        = agregar_a_lista_de_swapeo(pagina_modificada(s, p), p, "REFERENCIA")
  BY DEF sumar_cantidad_total
<1>5. c = [Valor(m, p) EXCEPT !.cantidad_total = (@ + cantidad) % Modulo]
  BY DEF Valor, ContenidoMP
<1> HIDE DEF c
<1>6. /\ s \in Memorias /\ s.mv = m.mv /\ s.bitmap_mp = m.bitmap_mp
      /\ s.bitmap_mv = m.bitmap_mv /\ s.paginas = m.paginas /\ s.lista = m.lista
      /\ \A g \in FramesMP : g # m.paginas[p].frame_mp => s.mp[g] = m.mp[g]
      /\ s.mp[f] = c
  BY <1>1, <1>3, CampoMP
<1> HIDE DEF s
<1> QED BY <1>4, <1>5, <1>6, EscribirContenido

(* sumar_cantidad_lista counts one more of a dish, modulo 2^32. *)
LEMMA SumarListaContenido ==
  ASSUME NEW m, MemoriaBien(m), NEW p, p \in Paginas, m.paginas[p].presencia
  PROVE  ContenidoCon(m, sumar_cantidad_lista(m, p), p,
           [Valor(m, p) EXCEPT !.cantidad_lista = (@ + 1) % Modulo])
<1> DEFINE f == m.paginas[p].frame_mp
           c == [m.mp[f] EXCEPT !.cantidad_lista = (@ + 1) % Modulo]
           s == [m EXCEPT !.mp[f] = c]
<1>1. m \in Memorias /\ f \in FramesMP
  BY DEF MemoriaBien, FramesBien, Memorias, Info, InfoPagina
<1>2. m.mp[f] \in Contenido
  BY <1>1 DEF Memorias
<1>3. c \in Contenido
  <2>1. \A x \in Int : (x + 1) % Modulo \in 0 .. Modulo - 1
    BY ModuloAssumption
  <2> QED BY <1>2, <2>1 DEF Contenido
<1>4. sumar_cantidad_lista(m, p)
        = agregar_a_lista_de_swapeo(pagina_modificada(s, p), p, "REFERENCIA")
  BY DEF sumar_cantidad_lista
<1>5. c = [Valor(m, p) EXCEPT !.cantidad_lista = (@ + 1) % Modulo]
  BY DEF Valor, ContenidoMP
<1> HIDE DEF c
<1>6. /\ s \in Memorias /\ s.mv = m.mv /\ s.bitmap_mp = m.bitmap_mp
      /\ s.bitmap_mv = m.bitmap_mv /\ s.paginas = m.paginas /\ s.lista = m.lista
      /\ \A g \in FramesMP : g # m.paginas[p].frame_mp => s.mp[g] = m.mp[g]
      /\ s.mp[f] = c
  BY <1>1, <1>3, CampoMP
<1> HIDE DEF s
<1> QED BY <1>4, <1>5, <1>6, EscribirContenido

-----------------------------------------------------------------------------
(* The bits of the pages.                                                  *)

(* Pinning or unpinning pages changes no quantity. *)
LEMMA LockeoContenido ==
  ASSUME NEW m, MemoriaBien(m), NEW S, NEW valor, valor \in BOOLEAN
  PROVE  MismoContenido(m, poner_bit_de_lockeo(m, S, valor))
<1> DEFINE t == [q \in Paginas |-> IF q \in S THEN [m.paginas[q] EXCEPT !.lockeo = valor]
                                              ELSE m.paginas[q]]
<1>1. m.paginas \in [Paginas -> Info]
  BY DEF MemoriaBien, Memorias
<1>2. /\ t \in [Paginas -> Info]
      /\ \A q \in Paginas : /\ t[q].frame_mv = m.paginas[q].frame_mv
                            /\ t[q].frame_mp = m.paginas[q].frame_mp
                            /\ t[q].presencia = m.paginas[q].presencia
                            /\ t[q].modificacion = m.paginas[q].modificacion
  BY <1>1 DEF Info, InfoPagina
<1>3. poner_bit_de_lockeo(m, S, valor) = [m EXCEPT !.paginas = t]
  BY DEF poner_bit_de_lockeo
<1> HIDE DEF t
<1> QED BY <1>2, <1>3, SoloBits DEF MismoContenido, tiene_pagina

(* Reading pages changes no quantity. *)
LEMMA LeidasContenido ==
  ASSUME NEW m, MemoriaBien(m), NEW S
  PROVE  MismoContenido(m, paginas_leidas(m, S))
<1> DEFINE t == [q \in Paginas |-> IF q \in S THEN [m.paginas[q] EXCEPT !.uso = TRUE]
                                              ELSE m.paginas[q]]
<1>1. m.paginas \in [Paginas -> Info]
  BY DEF MemoriaBien, Memorias
<1>2. /\ t \in [Paginas -> Info]
      /\ \A q \in Paginas : /\ t[q].frame_mv = m.paginas[q].frame_mv
                            /\ t[q].frame_mp = m.paginas[q].frame_mp
                            /\ t[q].presencia = m.paginas[q].presencia
                            /\ t[q].modificacion = m.paginas[q].modificacion
  BY <1>1 DEF Info, InfoPagina
<1>3. paginas_leidas(m, S) = [m EXCEPT !.paginas = t]
  BY DEF paginas_leidas
<1> HIDE DEF t
<1> QED BY <1>2, <1>3, SoloBits DEF MismoContenido, tiene_pagina

-----------------------------------------------------------------------------
(* Creating and freeing pages.                                             *)

(* A new dish holds what was asked of it and nothing prepared, whatever    *)
(* its frame held before.                                                  *)
LEMMA NuevaContenido ==
  ASSUME NEW m, MemoriaBien(m), NEW p, p \in Paginas, ~ tiene_pagina(m, p),
         NEW f, f \in FramesMV, ~ m.bitmap_mv[f], NEW cantidad, cantidad \in Int
  PROVE  ContenidoCon(m, agregar_nueva_plato_a_pedido(m, p, cantidad, f), p,
           [cantidad_total |-> cantidad % Modulo, cantidad_lista |-> 0])
<1> DEFINE n == agregar_nueva_plato_a_pedido(m, p, cantidad, f)
           c == [cantidad_total |-> cantidad % Modulo, cantidad_lista |-> 0]
<1>1. /\ n.paginas[p].frame_mv = f /\ ~ n.paginas[p].presencia
      /\ \A q \in Paginas : q # p => n.paginas[q] = m.paginas[q]
  BY NuevaBien
<1>2. m \in Memorias
  BY DEF MemoriaBien
<1>3. /\ n.mp = m.mp /\ n.mv[f] = c
      /\ \A g \in FramesMV : g # f => n.mv[g] = m.mv[g]
  BY <1>2 DEF agregar_nueva_plato_a_pedido, Memorias
<1> HIDE DEF n, c
<1>4. f # -1
  BY DEF FramesMV
<1>5. ASSUME NEW q \in Paginas, q # p, tiene_pagina(m, q)
      PROVE  Valor(n, q) = Valor(m, q)
  <2>1. m.paginas[q].frame_mv \in FramesMV /\ m.paginas[q].frame_mv # f
    BY <1>5 DEF MemoriaBien, FramesBien, Memorias, Info, InfoPagina, tiene_pagina
  <2> QED BY <2>1, <1>1, <1>3, <1>5 DEF Valor, ContenidoMP
<1> QED BY <1>1, <1>3, <1>4, <1>5 DEF ContenidoCon, tiene_pagina, Valor, n, c

(* Freeing a page takes its dish out and no other. *)
LEMMA LiberarContenido ==
  ASSUME NEW m, MemoriaBien(m), NEW p, p \in Paginas, tiene_pagina(m, p)
  PROVE  ContenidoSin(m, liberar_pagina(m, p), p)
<1> DEFINE n == liberar_pagina(m, p)
<1>1. /\ n.paginas[p] = SinPagina
      /\ \A q \in Paginas : q # p => n.paginas[q] = m.paginas[q]
  BY LiberarBien
<1>2. m \in Memorias
  BY DEF MemoriaBien
<1>3. n.mp = m.mp /\ n.mv = m.mv
  BY <1>2 DEF liberar_pagina, Memorias
<1> HIDE DEF n
<1>4. SinPagina.frame_mv = -1
  BY DEF SinPagina
<1> QED BY <1>1, <1>3, <1>4 DEF ContenidoSin, tiene_pagina, Valor, ContenidoMP, n

-----------------------------------------------------------------------------
(* How many dishes fit.                                                    *)

PaginasUsadas(m) == {p \in Paginas : tiene_pagina(m, p)}

(* The frames of swap are finitely many. *)
LEMMA FramesMVFinitos ==
  IsFiniteSet(FramesMV) /\ Cardinality(FramesMV) = CantFramesMV
<1>1. CantFramesMV \in Nat /\ CantFramesMV >= 1 /\ CantFramesMV - 1 \in Int
  BY FramesAssumption
<1>2. /\ IsFiniteSet(0 .. CantFramesMV - 1)
      /\ Cardinality(0 .. CantFramesMV - 1)
           = IF 0 > CantFramesMV - 1 THEN 0 ELSE (CantFramesMV - 1) - 0 + 1
  BY <1>1, FS_Interval
<1> QED BY <1>1, <1>2 DEF FramesMV

(* The pages that exist are as many as the frames of swap in use. *)
LEMMA UsadasYFrames ==
  ASSUME NEW m, MemoriaBien(m)
  PROVE  LET F == {f \in FramesMV : m.bitmap_mv[f]}
         IN  /\ IsFiniteSet(PaginasUsadas(m)) /\ IsFiniteSet(F)
             /\ Cardinality(PaginasUsadas(m)) = Cardinality(F)
<1> DEFINE F == {f \in FramesMV : m.bitmap_mv[f]}
           U == PaginasUsadas(m)
           g == [p \in U |-> m.paginas[p].frame_mv]
<1>1. IsFiniteSet(F)
  BY FramesMVFinitos, FS_Subset
<1>2. \A p \in U : m.paginas[p].frame_mv \in F
  BY DEF MemoriaBien, FramesBien, Memorias, Info, InfoPagina, PaginasUsadas, tiene_pagina
<1>3. \A p, q \in U : g[p] = g[q] => p = q
  BY DEF MemoriaBien, FramesBien, PaginasUsadas, tiene_pagina
<1>4. \A f \in F : \E p \in U : g[p] = f
  BY DEF MemoriaBien, FramesBien, PaginasUsadas, tiene_pagina, FramesMV
<1>5. g \in [U -> F]
  BY <1>2
<1> HIDE DEF g, U, F
<1>6. g \in Injection(U, F) /\ g \in Surjection(U, F)
  BY <1>3, <1>4, <1>5 DEF Injection, Surjection, IsInjective
<1>7. IsFiniteSet(U) /\ Cardinality(U) = Cardinality(F)
  BY <1>1, <1>6, FS_Injection
<1> QED BY <1>1, <1>7 DEF U, F

(* A new dish finds no frame of swap exactly when as many dishes as swap   *)
(* has frames are stored.                                                  *)
LEMMA SwapLleno ==
  ASSUME NEW m, MemoriaBien(m)
  PROVE  LET f == obtener_frame_libre(m.bitmap_mv)
         IN  /\ f < 0 <=> Cardinality(PaginasUsadas(m)) >= CantFramesMV
             /\ ~ (f < 0) => f \in FramesMV /\ ~ m.bitmap_mv[f]
<1> DEFINE f == obtener_frame_libre(m.bitmap_mv)
           F == {g \in FramesMV : m.bitmap_mv[g]}
<1>1. \/ f = -1 /\ \A g \in FramesMV : m.bitmap_mv[g]
      \/ f \in FramesMV /\ ~ m.bitmap_mv[f]
  <2>1. m.bitmap_mv \in [0 .. CantFramesMV - 1 -> BOOLEAN] /\ CantFramesMV \in Nat
    BY FramesAssumption DEF MemoriaBien, Memorias, FramesMV
  <2> QED BY <2>1, FrameLibre DEF FramesMV
<1> HIDE DEF f
<1>2. Cardinality(PaginasUsadas(m)) = Cardinality(F) /\ Cardinality(F) \in Nat
  BY UsadasYFrames, FS_CardinalityType
<1>3. /\ f < 0 <=> Cardinality(PaginasUsadas(m)) >= CantFramesMV
      /\ ~ (f < 0) => f \in FramesMV /\ ~ m.bitmap_mv[f]
  <2>1. CASE f = -1 /\ \A g \in FramesMV : m.bitmap_mv[g]
    <3>1. F = FramesMV
      BY <2>1
    <3>2. Cardinality(PaginasUsadas(m)) = CantFramesMV
      BY <1>2, <3>1, FramesMVFinitos
    <3> QED BY <2>1, <3>2, FramesAssumption
  <2>2. CASE f \in FramesMV /\ ~ m.bitmap_mv[f]
    <3>1. F \in SUBSET FramesMV /\ F # FramesMV
      BY <2>2
    <3> HIDE DEF F
    <3>2. Cardinality(F) <= CantFramesMV /\ Cardinality(F) # CantFramesMV
      BY <3>1, FramesMVFinitos, FS_Subset
    <3>3. ~ (f < 0)
      BY <2>2 DEF FramesMV
    <3> QED BY <1>2, <2>2, <3>2, <3>3, FramesAssumption
  <2> QED BY <1>1, <2>1, <2>2
<1> QED BY <1>3 DEF f

-----------------------------------------------------------------------------
(* When there is no victim.                                                *)

(* A round that starts at a position of the list visits every position. *)
LEMMA RondaTodas ==
  ASSUME NEW lista \in Seq(Paginas), NEW puntero \in Nat, puntero < Len(lista),
         NEW i \in 1 .. Len(lista)
  PROVE  \E k \in 1 .. Len(lista) : Ronda(lista, puntero)[k] = i
<1> DEFINE n == Len(lista)
           k == IF puntero < i THEN i - puntero ELSE i - puntero + n
<1>1. n \in Nat \ {0} /\ puntero \in 0 .. n - 1 /\ i \in 1 .. n
  BY LenProperties
<1> HIDE DEF n
<1>2. k \in 1 .. n /\ (puntero + k - 1 = i - 1 \/ puntero + k - 1 = i - 1 + n)
  BY <1>1
<1>3. \A x \in 0 .. n - 1 : x % n = x /\ (x + n) % n = x
  BY <1>1
<1>4. (puntero + k - 1) % n = i - 1
  BY <1>1, <1>2, <1>3
<1>5. Ronda(lista, puntero)[k] = ((puntero + k - 1) % n) + 1
  BY <1>2 DEF Ronda, n
<1> HIDE DEF k
<1>6. k \in 1 .. Len(lista)
  BY <1>2 DEF n
<1>7. Ronda(lista, puntero)[k] = i
  BY <1>1, <1>4, <1>5
<1> QED BY <1>6, <1>7

(* When no page of the round passes es_0_1, every page of the list is      *)
(* pinned or has its use bit set.                                          *)
LEMMA NingunaPrimera01 ==
  ASSUME NEW lista \in Seq(Paginas), NEW puntero \in Nat, puntero < Len(lista),
         NEW paginas, PrimeraDeLaRonda(lista, puntero, paginas, es_0_1) = 0,
         NEW i \in 1 .. Len(lista)
  PROVE  ~ es_0_1(paginas[lista[i]])
<1> DEFINE r == Ronda(lista, puntero)
           I == {k \in 1 .. Len(r) : es_0_1(paginas[lista[r[k]]])}
<1>1. Len(r) = Len(lista) /\ \A k \in 1 .. Len(lista) : r[k] \in 1 .. Len(lista)
  BY RondaBien
<1>2. PrimeraDeLaRonda(lista, puntero, paginas, es_0_1)
        = IF (IF I # {} THEN Min(I) ELSE 0) = 0 THEN 0
          ELSE r[IF I # {} THEN Min(I) ELSE 0]
  BY DEF PrimeraDeLaRonda, SelectInSeq
<1>3. I \in SUBSET Nat /\ \A k \in I : k # 0 /\ r[k] # 0
  BY <1>1
<1>4. PICK k \in 1 .. Len(lista) : r[k] = i
  BY RondaTodas
<1>5. I = {}
  <2> HIDE DEF I, r
  <2> SUFFICES ASSUME I # {} PROVE FALSE
    OBVIOUS
  <2>1. Min(I) \in I
    BY <1>3, MinimoDe
  <2> QED BY <2>1, <1>2, <1>3
<1> QED BY <1>1, <1>4, <1>5

(* The search fails only when every resident page is pinned. *)
LEMMA SinVictima ==
  ASSUME NEW m, MemoriaBien(m), \A f \in FramesMP : m.bitmap_mp[f],
         ~ HayVictima(m), NEW q \in Residentes(m)
  PROVE  m.paginas[q].lockeo
<1>1. /\ m \in Memorias /\ m.lista \in Seq(Paginas) /\ m.puntero \in Nat
      /\ m.puntero < Len(m.lista) /\ Len(m.lista) \in Nat
      /\ m.paginas \in [Paginas -> Info]
  <2>1. m.puntero \in 0 .. CantFramesMP - 1 /\ m.lista \in Seq(Paginas)
        /\ m \in Memorias /\ m.paginas \in [Paginas -> Info]
    BY DEF MemoriaBien, Memorias, FramesMP
  <2> QED BY <2>1, ListaLlena, ListaDeResidentes, FramesAssumption
<1>2. PICK i \in 1 .. Len(m.lista) : m.lista[i] = q
  BY DEF MemoriaBien, ListaBien, Enumera
<1>3. q \in Paginas /\ m.paginas[q].lockeo \in BOOLEAN
  BY <1>1 DEF Residentes, Info, InfoPagina
<1>4. CASE Algoritmo = "LRU"
  <2> DEFINE I == {j \in 1 .. Len(m.lista) : esta_unlockeada(m.paginas[m.lista[j]])}
  <2>1. (IF I # {} THEN Min(I) ELSE 0) = 0
    BY <1>4 DEF HayVictima, Eleccion, seleccion_de_victima_lru, SelectInSeq
  <2>2. I \in SUBSET Nat /\ \A j \in I : j # 0
    OBVIOUS
  <2>3. I = {}
    <3> HIDE DEF I
    <3>1. I # {} => Min(I) \in I
      BY <2>2, MinimoDe
    <3> QED BY <3>1, <2>1, <2>2
  <2> QED BY <2>3, <1>2 DEF esta_unlockeada
<1>5. CASE Algoritmo # "LRU"
  <2> DEFINE L == m.lista
             c == m.puntero
             segunda == PrimeraDeLaRonda(L, c, m.paginas, es_0_1)
             S == Apagadas(L, c, m.paginas, segunda)
             luego == Apagar(m.paginas, S)
  <2>1. seleccion_de_victima_clock_modificado(L, c, m.paginas).pos = 0
    BY <1>1, <1>5 DEF HayVictima, Eleccion
  <2>2. PrimeraDeLaRonda(L, c, m.paginas, es_0_0) = 0
    BY <2>1 DEF seleccion_de_victima_clock_modificado
  <2>3. segunda = 0 /\ PrimeraDeLaRonda(L, c, luego, es_0_1) = 0
    BY <2>1, <2>2 DEF seleccion_de_victima_clock_modificado
  <2>4. ~ es_0_1(luego[q])
    <3> HIDE DEF luego
    <3> QED BY <1>1, <1>2, <2>3, NingunaPrimera01
  <2>5. ASSUME esta_unlockeada(m.paginas[q]) PROVE q \in S
    <3> DEFINE r == Ronda(L, c)
               J == {j \in 1 .. Len(r) : r[j] = segunda}
               parada == IF J # {} THEN Min(J) ELSE 0
               visitas == IF parada = 0 THEN 1 .. Len(L) ELSE 1 .. parada - 1
    <3>1. Len(r) = Len(L) /\ \A k \in 1 .. Len(L) : r[k] \in 1 .. Len(L)
      BY <1>1, RondaBien
    <3>2. J = {}
      BY <3>1, <2>3
    <3>3. visitas = 1 .. Len(L)
      BY <3>2
    <3>4. S = {p \in {L[r[k]] : k \in visitas} : esta_unlockeada(m.paginas[p])}
      BY DEF Apagadas, SelectInSeq
    <3>5. PICK k \in 1 .. Len(L) : r[k] = i
      BY <1>1, RondaTodas
    <3> HIDE DEF visitas, S, r
    <3> QED BY <2>5, <3>3, <3>4, <3>5, <1>2
  <2>6. luego[q] = IF q \in S THEN [m.paginas[q] EXCEPT !.uso = FALSE] ELSE m.paginas[q]
    BY <1>1, <1>3 DEF Apagar
  <2> HIDE DEF luego, S
  <2>7. m.paginas[q] \in Info
    BY <1>1, <1>3
  <2> QED BY <2>4, <2>5, <2>6, <2>7 DEF es_0_1, esta_unlockeada, Info, InfoPagina
<1> QED BY <1>4, <1>5

(* When no frame of main memory is free a page is resident. *)
LEMMA AlgunaResidente ==
  ASSUME NEW m, MemoriaBien(m), \A f \in FramesMP : m.bitmap_mp[f]
  PROVE  \E q \in Paginas : m.paginas[q].presencia
<1>1. 0 \in FramesMP
  BY FramesAssumption DEF FramesMP
<1>2. PICK q \in Paginas : m.paginas[q].frame_mp = 0
  BY <1>1 DEF MemoriaBien, FramesBien
<1> QED BY <1>2 DEF MemoriaBien, FramesBien

(* A load with nothing pinned never misses a victim: a frame is free or a  *)
(* page can be evicted.                                                    *)
LEMMA SinFijarSePuede ==
  ASSUME NEW m, MemoriaBien(m), \A q \in Paginas : ~ m.paginas[q].lockeo
  PROVE  /\ PuedeUbicar(m)
         /\ ~ HayVictima(m) => obtener_frame_libre(m.bitmap_mp) >= 0
<1> DEFINE f == obtener_frame_libre(m.bitmap_mp)
<1>1. \/ f = -1 /\ \A g \in FramesMP : m.bitmap_mp[g]
      \/ f \in FramesMP /\ ~ m.bitmap_mp[f]
  <2>1. m.bitmap_mp \in [0 .. CantFramesMP - 1 -> BOOLEAN] /\ CantFramesMP \in Nat
    BY FramesAssumption DEF MemoriaBien, Memorias, FramesMP
  <2> QED BY <2>1, FrameLibre DEF FramesMP
<1> HIDE DEF f
<1>2. ~ HayVictima(m) => f >= 0
  <2> SUFFICES ASSUME ~ HayVictima(m), \A g \in FramesMP : m.bitmap_mp[g] PROVE FALSE
    BY <1>1 DEF FramesMP
  <2>1. PICK q \in Paginas : m.paginas[q].presencia
    BY AlgunaResidente
  <2>2. m.paginas[q].lockeo
    BY <2>1, SinVictima DEF Residentes
  <2> QED BY <2>2
<1> QED BY <1>2 DEF PuedeUbicar, f

-----------------------------------------------------------------------------
(* Pages and orders.                                                       *)

(* A page is a pair of an order and a dish, and the pages of an order are  *)
(* those that name it.                                                     *)
LEMMA PaginaDePar ==
  ASSUME NEW ped \in Pedidos, NEW d \in Platos
  PROVE  <<ped, d>> \in Paginas /\ <<ped, d>>[1] = ped
BY DEF Paginas

(* The pages of an order are those of its dishes. *)
LEMMA PaginasDelPedido ==
  ASSUME NEW m, NEW ped \in Pedidos, NEW p \in Paginas
  PROVE  p \in PaginasDe(m, ped) <=> p[1] = ped /\ tiene_pagina(m, p)
BY DEF Paginas, PaginasDe, tabla_de_platos

(* A page is the pair of its order and its dish. *)
LEMMA ParDePagina ==
  ASSUME NEW p \in Paginas
  PROVE  p = <<p[1], p[2]>> /\ p[1] \in Pedidos /\ p[2] \in Platos
BY DEF Paginas

(* The dishes of an order are finitely many: each has a frame of swap. *)
LEMMA TablaFinita ==
  ASSUME NEW m, MemoriaBien(m), NEW ped \in Pedidos
  PROVE  IsFiniteSet(tabla_de_platos(m, ped))
<1> DEFINE T == tabla_de_platos(m, ped)
           g == [x \in T |-> <<ped, x>>]
<1>1. IsFiniteSet(PaginasUsadas(m))
  BY UsadasYFrames
<1>2. \A x \in T : <<ped, x>> \in PaginasUsadas(m)
  BY PaginaDePar DEF tabla_de_platos, PaginasUsadas
<1>3. g \in Injection(T, PaginasUsadas(m))
  BY <1>2 DEF Injection, IsInjective
<1> HIDE DEF g
<1> QED BY <1>1, <1>3, FS_Injection

(* A page that is being raised, while only pages of its order are pinned,  *)
(* finds neither a free frame nor a victim only if the pages of its order  *)
(* fill main memory.                                                       *)
LEMMA SinLugar ==
  ASSUME NEW m, MemoriaBien(m), NEW ped \in Pedidos, NEW d \in Platos,
         tiene_pagina(m, <<ped, d>>), ~ PuedeLevantar(m, <<ped, d>>),
         \A q \in Paginas : m.paginas[q].lockeo => q[1] = ped /\ tiene_pagina(m, q)
  PROVE  Cardinality(tabla_de_platos(m, ped)) > CantFramesMP
<1> DEFINE p == <<ped, d>>
           T == tabla_de_platos(m, ped)
           n == Len(m.lista)
           g == [i \in 1 .. n |-> m.lista[i][2]]
<1>1. MemoriaBien(m) /\ ped \in Pedidos /\ tiene_pagina(m, p) /\ p \in Paginas
  BY PaginaDePar
<1>2. /\ ~ m.paginas[p].presencia /\ ~ HayVictima(m)
      /\ ~ (obtener_frame_libre(m.bitmap_mp) >= 0)
  BY DEF PuedeLevantar, PuedeUbicar
<1>3. \A f \in FramesMP : m.bitmap_mp[f]
  <2>1. m.bitmap_mp \in [0 .. CantFramesMP - 1 -> BOOLEAN] /\ CantFramesMP \in Nat
    BY <1>1, FramesAssumption DEF MemoriaBien, Memorias, FramesMP
  <2>2. \/ \A f \in FramesMP : m.bitmap_mp[f]
        \/ obtener_frame_libre(m.bitmap_mp) \in FramesMP
    BY <2>1, FrameLibre DEF FramesMP
  <2> QED BY <2>2, <1>2 DEF FramesMP
<1>4. \A q \in Residentes(m) : q[1] = ped /\ tiene_pagina(m, q)
  <2>1. \A q \in Residentes(m) : m.paginas[q].lockeo
    BY <1>1, <1>2, <1>3, SinVictima
  <2> QED BY <2>1 DEF Residentes
<1>5. \A i \in 1 .. n : m.lista[i] = <<ped, g[i]>> /\ g[i] \in T \ {d}
  <2> SUFFICES ASSUME NEW i \in 1 .. n
               PROVE  m.lista[i] = <<ped, g[i]>> /\ g[i] \in T \ {d}
    OBVIOUS
  <2>1. m.lista[i] \in Residentes(m) /\ m.lista[i] \in Paginas
    BY <1>1, ListaDeResidentes DEF Residentes
  <2>2. m.lista[i][1] = ped /\ tiene_pagina(m, m.lista[i])
    BY <2>1, <1>4
  <2>3. m.lista[i] = <<ped, g[i]>> /\ g[i] \in Platos
    BY <2>1, <2>2, ParDePagina
  <2>4. g[i] # d
    BY <2>1, <2>3, <1>2 DEF Residentes
  <2> HIDE DEF g
  <2> QED BY <2>2, <2>3, <2>4 DEF tabla_de_platos
<1>6. IsFiniteSet(T) /\ d \in T
  BY <1>1, TablaFinita DEF tabla_de_platos
<1>7. n \in Nat /\ n >= CantFramesMP /\ CantFramesMP \in Nat
  BY <1>1, <1>3, ListaLlena, ListaDeResidentes, FramesAssumption
<1>8. IsFiniteSet(1 .. n) /\ Cardinality(1 .. n) = n
  BY <1>7, Finitos
<1>9. g \in Injection(1 .. n, T \ {d})
  <2>1. g \in [1 .. n -> T \ {d}]
    BY <1>5
  <2>2. \A i, j \in 1 .. n : m.lista[i] = m.lista[j] => i = j
    BY <1>1 DEF MemoriaBien, ListaBien, Enumera
  <2>3. \A i, j \in 1 .. n : g[i] = g[j] => i = j
    <3> HIDE DEF g
    <3> QED BY <1>5, <2>2
  <2> HIDE DEF g, n, T
  <2> QED BY <2>1, <2>3 DEF Injection, IsInjective
<1> HIDE DEF g, n, T
<1>10. /\ IsFiniteSet(T \ {d}) /\ Cardinality(T \ {d}) = Cardinality(T) - 1
       /\ Cardinality(T) \in Nat
  BY <1>6, FS_RemoveElement, FS_CardinalityType
<1>11. n <= Cardinality(T) - 1
  BY <1>8, <1>9, <1>10, FS_Injection
<1> QED BY <1>7, <1>10, <1>11 DEF T

=============================================================================

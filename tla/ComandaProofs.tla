---------------------------- MODULE ComandaProofs ----------------------------
(***************************************************************************)
(* The safety of the comanda server for every number of restaurants,       *)
(* orders, dishes and frames, under LRU and under the modified clock.      *)
(***************************************************************************)
EXTENDS Comanda, MemoriaProofs

-----------------------------------------------------------------------------
(* The inductive invariant.                                                *)

EnCurso == hilo # Reposo
Levanta == EnCurso /\ hilo.op \in {"OBTENER_PEDIDO", "PLATO_LISTO"}

(* A handler in progress iterates over dishes that its order has, and a    *)
(* plato_listo is about one of them.                                       *)
PendientesOK ==
  EnCurso /\ ~ caido =>
    /\ hilo.op \in {"OBTENER_PEDIDO", "PLATO_LISTO", "FINALIZAR_PEDIDO"}
    /\ \A d \in hilo.pendientes : tiene_pagina(mem, <<hilo.pedido, d>>)
    /\ hilo.op = "PLATO_LISTO" =>
         hilo.plato \in Platos /\ tiene_pagina(mem, <<hilo.pedido, hilo.plato>>)

(* FijadasOK page by page. *)
Fijadas ==
  /\ \A p \in Paginas :
       mem.paginas[p].lockeo <=> Levanta /\ p[1] = hilo.pedido /\ tiene_pagina(mem, p)
  /\ Levanta => \A d \in Platos \ hilo.pendientes :
                  tiene_pagina(mem, <<hilo.pedido, d>>)
                    => mem.paginas[<<hilo.pedido, d>>].presencia

IInv == TypeOK /\ MemoriaBien(mem) /\ PendientesOK /\ Fijadas

-----------------------------------------------------------------------------
(* A task has the fields it is made of and is not Reposo. *)
LEMMA TareaBien ==
  ASSUME NEW op \in {"GUARDAR_PLATO", "OBTENER_PEDIDO", "PLATO_LISTO", "FINALIZAR_PEDIDO"},
         NEW ped \in Pedidos, NEW d \in Platos \cup {NingunPlato}, NEW S \in SUBSET Platos
  PROVE  /\ Tarea(op, ped, d, S) \in Tareas /\ Tarea(op, ped, d, S) # Reposo
         /\ Tarea(op, ped, d, S).op = op /\ Tarea(op, ped, d, S).pedido = ped
         /\ Tarea(op, ped, d, S).plato = d /\ Tarea(op, ped, d, S).pendientes = S
<1>1. Reposo.op = "NINGUNA" /\ Tarea(op, ped, d, S).op = op
  BY DEF Reposo, Tarea
<1>2. Tarea(op, ped, d, S) # Reposo
  BY <1>1
<1> QED BY <1>2 DEF Tareas, Tarea

(* The type of the handler in progress. *)
LEMMA HiloEnCurso ==
  ASSUME TypeOK, EnCurso
  PROVE  /\ hilo \in Tareas /\ hilo.pedido \in Pedidos
         /\ hilo.plato \in Platos \cup {NingunPlato}
         /\ hilo.pendientes \in SUBSET Platos
BY DEF TypeOK, EnCurso, Tareas

(* Visiting a dish leaves the rest of the handler as it is. *)
LEMMA SiguePendiente ==
  ASSUME TypeOK, EnCurso, NEW d, hilo' = [hilo EXCEPT !.pendientes = @ \ {d}]
  PROVE  /\ hilo' \in Tareas /\ EnCurso'
         /\ hilo'.op = hilo.op /\ hilo'.pedido = hilo.pedido
         /\ hilo'.plato = hilo.plato /\ hilo'.pendientes = hilo.pendientes \ {d}
<1>1. hilo \in Tareas
  BY HiloEnCurso
<1>2. /\ hilo' \in Tareas
      /\ hilo'.op = hilo.op /\ hilo'.pedido = hilo.pedido
      /\ hilo'.plato = hilo.plato /\ hilo'.pendientes = hilo.pendientes \ {d}
  BY <1>1 DEF Tareas
<1>3. hilo'.op # "NINGUNA"
  BY <1>1, <1>2 DEF Tareas
<1> QED BY <1>2, <1>3 DEF EnCurso, Reposo

-----------------------------------------------------------------------------
(* What an answer is.                                                      *)

(* The fields of an answer. *)
LEMMA RespuestaBien ==
  \A op, r, e, S : Respuesta(op, r, e, S).op = op /\ Respuesta(op, r, e, S).resultado = r
BY DEF Respuesta

(* Every reason a request is rejected for is a result. *)
LEMMA MotivosBien ==
  ASSUME NEW ped, NEW d
  PROVE  {Busqueda(ped), MotivoPlato(ped), MotivoListo(ped, d), MotivoConfirmar(ped)}
           \subseteq Resultados
BY DEF Busqueda, MotivoPlato, MotivoListo, MotivoConfirmar, Resultados

(* Every step keeps the types of the tables and of the answer. *)
LEMMA RespuestaPaso ==
  ASSUME TypeOK, [Next]_vars
  PROVE  /\ restaurantes' \subseteq Restaurantes
         /\ estado' \in [Pedidos -> Estados]
         /\ respuesta'.op \in Operaciones \cup {"NINGUNA"}
         /\ respuesta'.resultado \in Resultados
         /\ caido' \in BOOLEAN
<1> DEFINE Bien == /\ respuesta'.op \in Operaciones \cup {"NINGUNA"}
                   /\ respuesta'.resultado \in Resultados
<1>0. /\ \A op \in Operaciones, r \in Resultados : Responder(op, r) => Bien
      /\ respuesta' = respuesta => Bien
      /\ respuesta' = SinRespuesta => Bien
      /\ \A op \in Operaciones : \A e, S : respuesta' = Respuesta(op, "OK", e, S) => Bien
  BY RespuestaBien DEF Responder, Descripcion, TypeOK, SinRespuesta, Resultados
<1> HIDE DEF Bien
<1>1. ASSUME NEW op \in Operaciones, NEW r \in Resultados, Rechazar(op, r)
      PROVE  Bien /\ UNCHANGED <<restaurantes, estado, caido>>
  BY <1>0, <1>1 DEF Rechazar
<1>2. ASSUME NEW ped \in Pedidos, GuardarPedido(ped)
      PROVE  Bien /\ restaurantes' \subseteq Restaurantes
             /\ estado' \in [Pedidos -> Estados] /\ caido' = caido
  <2>1. "GUARDAR_PEDIDO" \in Operaciones /\ "OK" \in Resultados
        /\ "PEDIDO_REPETIDO" \in Resultados /\ "PENDIENTE" \in Estados
        /\ ped[1] \in Restaurantes
    BY DEF Operaciones, Resultados, Estados, Pedidos
  <2>2. CASE CrearTablaDePedidos(ped)
    BY <1>0, <2>1, <2>2 DEF CrearTablaDePedidos, TypeOK
  <2>3. CASE AgregarPedido(ped)
    BY <1>0, <2>1, <2>3 DEF AgregarPedido, TypeOK
  <2>4. CASE PedidoRepetido(ped)
    BY <1>1, <2>1, <2>4 DEF PedidoRepetido, TypeOK
  <2> QED BY <1>2, <2>2, <2>3, <2>4 DEF GuardarPedido
<1>3. ASSUME NEW ped \in Pedidos, NEW d \in Platos, NEW c \in Cantidades,
             GuardarPlato(ped, d, c)
      PROVE  Bien /\ UNCHANGED <<restaurantes, estado>> /\ caido' \in BOOLEAN
  <2>1. "GUARDAR_PLATO" \in Operaciones /\ "OK" \in Resultados
        /\ "SIN_ESPACIO" \in Resultados /\ MotivoPlato(ped) \in Resultados
        /\ caido \in BOOLEAN
    BY MotivosBien DEF Operaciones, Resultados, TypeOK
  <2>2. \A m : PlatoGuardado(m) => Bien /\ UNCHANGED <<restaurantes, estado, caido>>
    BY <1>0, <2>1 DEF PlatoGuardado
  <2>3. \A t : Morir(t) => Bien /\ UNCHANGED <<restaurantes, estado>> /\ caido'
    BY <1>0 DEF Morir
  <2>4. Rechazar("GUARDAR_PLATO", "SIN_ESPACIO") \/ GuardarPlatoRechazado(ped)
          => Bien /\ UNCHANGED <<restaurantes, estado, caido>>
    BY <1>1, <2>1 DEF GuardarPlatoRechazado
  <2>5. CASE SumarEnMP(ped, d, c)
    BY <2>1, <2>2, <2>5 DEF SumarEnMP
  <2>6. CASE SumarConSwap(ped, d, c)
    BY <2>1, <2>2, <2>3, <2>6 DEF SumarConSwap
  <2>7. CASE PlatoNuevo(ped, d, c)
    BY <2>1, <2>2, <2>3, <2>4, <2>7 DEF PlatoNuevo
  <2> QED BY <1>3, <2>1, <2>4, <2>5, <2>6, <2>7 DEF GuardarPlato
<1>4. ASSUME NEW op, NEW ped, NEW d, FijarPedido(op, ped, d)
      PROVE  Bien /\ UNCHANGED <<restaurantes, estado, caido>>
  BY <1>0, <1>4 DEF FijarPedido
<1>5. ASSUME NEW ped \in Pedidos, ObtenerPedido(ped)
      PROVE  Bien /\ UNCHANGED <<restaurantes, estado, caido>>
  BY <1>1, <1>4, <1>5, MotivosBien DEF ObtenerPedido, Operaciones
<1>6. ASSUME NEW ped \in Pedidos, NEW d \in Platos, PlatoListo(ped, d)
      PROVE  Bien /\ UNCHANGED <<restaurantes, estado, caido>>
  BY <1>1, <1>4, <1>6, MotivosBien DEF PlatoListo, Operaciones
<1>7. ASSUME NEW ped \in Pedidos, ConfirmarPedido(ped)
      PROVE  Bien /\ UNCHANGED <<restaurantes, caido>> /\ estado' \in [Pedidos -> Estados]
  <2>1. "CONFIRMAR_PEDIDO" \in Operaciones /\ "OK" \in Resultados
        /\ MotivoConfirmar(ped) \in Resultados
    BY MotivosBien DEF Operaciones, Resultados
  <2>2. CASE Rechazar("CONFIRMAR_PEDIDO", MotivoConfirmar(ped))
    BY <1>1, <2>1, <2>2 DEF TypeOK
  <2>3. CASE /\ estado' = [estado EXCEPT ![ped] = "CONFIRMADO"]
             /\ Responder("CONFIRMAR_PEDIDO", "OK")
             /\ UNCHANGED <<restaurantes, mem, hilo, caido>>
    BY <1>0, <2>1, <2>3 DEF TypeOK, Estados
  <2> QED BY <1>7, <2>2, <2>3 DEF ConfirmarPedido
<1>8. ASSUME NEW ped \in Pedidos, FinalizarPedido(ped)
      PROVE  Bien /\ UNCHANGED <<restaurantes, caido>> /\ estado' \in [Pedidos -> Estados]
  <2>1. CASE Rechazar("FINALIZAR_PEDIDO", Busqueda(ped))
    BY <1>1, <2>1, MotivosBien DEF TypeOK, Operaciones
  <2>2. CASE /\ estado' = [estado EXCEPT ![ped] = "NULO"]
             /\ UNCHANGED <<restaurantes, mem, respuesta, caido>>
    BY <1>0, <2>2 DEF TypeOK, Estados
  <2> QED BY <1>8, <2>1, <2>2 DEF FinalizarPedido
<1>9. ASSUME Continuar
      PROVE  /\ Bien /\ restaurantes' \subseteq Restaurantes
             /\ estado' \in [Pedidos -> Estados] /\ caido' \in BOOLEAN
  <2>1. CASE LevantarPagina
    BY <1>0, <2>1 DEF LevantarPagina, Morir, TypeOK
  <2>2. CASE TerminarObtener
    BY <1>0, <2>2 DEF TerminarObtener, TypeOK, Operaciones
  <2>3. CASE TerminarPlatoListo
    BY <1>0, <2>3 DEF TerminarPlatoListo, TypeOK, Operaciones, Resultados, Estados
  <2>4. CASE LiberarPagina
    BY <1>0, <2>4 DEF LiberarPagina, TypeOK
  <2>5. CASE TerminarFinalizar
    BY <1>0, <2>5 DEF TerminarFinalizar, TypeOK, Operaciones, Resultados
  <2> QED BY <1>9, <2>1, <2>2, <2>3, <2>4, <2>5 DEF Continuar
<1>10. CASE Recibir \/ UNCHANGED vars
  BY <1>0, <1>10 DEF Recibir, vars, TypeOK, Bien
<1>11. CASE Solicitud
  BY <1>2, <1>3, <1>5, <1>6, <1>7, <1>8, <1>11 DEF Solicitud, TypeOK, Bien
<1> QED BY <1>9, <1>10, <1>11 DEF Next, Bien

-----------------------------------------------------------------------------
(* What each step does to the memory and to the handler in progress.       *)

MemHilo == /\ hilo \in Tareas \cup {Reposo}
           /\ MemoriaBien(mem)
           /\ PendientesOK
           /\ Fijadas

(* Nothing is pinned while no handler is in progress. *)
LEMMA NadaFijado ==
  ASSUME IInv, hilo = Reposo, NEW p \in Paginas
  PROVE  ~ mem.paginas[p].lockeo
<1>1. mem.paginas[p].lockeo \in BOOLEAN
  BY DEF IInv, TypeOK, Memorias, Info, InfoPagina
<1> QED BY <1>1 DEF IInv, Fijadas, Levanta, EnCurso

(* A step that changes neither memory nor handler. *)
LEMMA Quieto ==
  ASSUME IInv, UNCHANGED <<mem, hilo, caido>>
  PROVE  MemHilo'
BY DEF IInv, TypeOK, MemHilo, PendientesOK, Fijadas, Levanta, EnCurso

(* A rejected request is such a step. *)
LEMMA RechazoQuieto ==
  ASSUME IInv, NEW op, NEW r, Rechazar(op, r)
  PROVE  MemHilo'
BY Quieto DEF Rechazar

(* A step that serves a whole request. *)
LEMMA EnReposo ==
  ASSUME hilo' = Reposo, MemoriaBien(mem'),
         \A p \in Paginas : ~ mem'.paginas[p].lockeo
  PROVE  MemHilo'
BY DEF MemHilo, PendientesOK, Fijadas, Levanta, EnCurso

(* guardar_plato died without a victim: the memory is as it was. *)
LEMMA MorirGuardando ==
  ASSUME IInv, hilo = Reposo, NEW ped \in Pedidos, NEW d \in Platos,
         Morir(Tarea("GUARDAR_PLATO", ped, d, {d}))
  PROVE  MemHilo'
<1>1. /\ hilo' \in Tareas /\ hilo'.op = "GUARDAR_PLATO" /\ caido' /\ mem' = mem
  BY TareaBien DEF Morir
<1>2. \A p \in Paginas : ~ mem.paginas[p].lockeo
  BY NadaFijado
<1> QED BY <1>1, <1>2 DEF IInv, MemHilo, PendientesOK, Fijadas, Levanta, EnCurso

(* guardar_plato: rejected, added in place, swapped in or a new page. *)
LEMMA GuardarPlatoPaso ==
  ASSUME IInv, NEW ped \in Pedidos, NEW d \in Platos, NEW c \in Cantidades,
         GuardarPlato(ped, d, c)
  PROVE  MemHilo'
<1> DEFINE p == <<ped, d>>
<1>1. p \in Paginas /\ c \in Int /\ MemoriaBien(mem)
  BY PaginaDePar, CantidadesAssumption DEF IInv
<1> HIDE DEF p
<1>2. CASE GuardarPlatoRechazado(ped)
  BY <1>2, RechazoQuieto DEF GuardarPlatoRechazado
<1>3. CASE SumarEnMP(ped, d, c)
  <2>1. /\ hilo = Reposo /\ hilo' = Reposo /\ mem.paginas[p].presencia
        /\ mem' = sumar_cantidad_total(mem, p, c)
    BY <1>3 DEF SumarEnMP, Libre, PlatoGuardado, p
  <2>2. /\ MemoriaBien(mem')
        /\ \A q \in Paginas : mem'.paginas[q].lockeo = mem.paginas[q].lockeo
    BY <1>1, <2>1, SumarTotalBien
  <2> QED BY <2>1, <2>2, NadaFijado, EnReposo
<1>4. CASE SumarConSwap(ped, d, c)
  <2>1. /\ hilo = Reposo /\ tiene_pagina(mem, p) /\ ~ mem.paginas[p].presencia
    BY <1>4 DEF SumarConSwap, Libre, p
  <2>2. CASE HayVictima(mem)
    <3> DEFINE n == swap(mem, p)
    <3>1. hilo' = Reposo /\ mem' = sumar_cantidad_total(n, p, c)
      BY <1>4, <2>1, <2>2 DEF SumarConSwap, PlatoGuardado, p
    <3>2. MemoriaBien(n) /\ Conserva(mem, n) /\ n.paginas[p].presencia
      BY <1>1, <2>1, <2>2, SwapBien
    <3> HIDE DEF n
    <3>3. /\ MemoriaBien(mem')
          /\ \A q \in Paginas : mem'.paginas[q].lockeo = n.paginas[q].lockeo
      BY <1>1, <3>1, <3>2, SumarTotalBien
    <3>4. \A q \in Paginas : n.paginas[q].lockeo = mem.paginas[q].lockeo
      BY <3>2 DEF Conserva
    <3> QED BY <2>1, <3>1, <3>3, <3>4, NadaFijado, EnReposo
  <2>3. CASE ~ HayVictima(mem)
    BY <1>4, <2>1, <2>3, MorirGuardando DEF SumarConSwap
  <2> QED BY <2>2, <2>3
<1>5. CASE PlatoNuevo(ped, d, c)
  <2> DEFINE f == obtener_frame_libre(mem.bitmap_mv)
             n == agregar_nueva_plato_a_pedido(mem, p, c, f)
  <2>1. hilo = Reposo /\ ~ tiene_pagina(mem, p)
    BY <1>5 DEF PlatoNuevo, Libre, p
  <2>2. f = -1 \/ (f \in FramesMV /\ ~ mem.bitmap_mv[f])
    <3>1. mem.bitmap_mv \in [0 .. CantFramesMV - 1 -> BOOLEAN] /\ CantFramesMV \in Nat
      BY <1>1, FramesAssumption DEF MemoriaBien, Memorias, FramesMV
    <3> QED BY <3>1, FrameLibre DEF FramesMV
  <2>3. CASE f < 0
    BY <1>5, <2>3, RechazoQuieto DEF PlatoNuevo
  <2>4. CASE ~ (f < 0)
    <3>1. f \in FramesMV /\ ~ mem.bitmap_mv[f]
      BY <2>2, <2>4
    <3> HIDE DEF f
    <3>2. /\ MemoriaBien(n) /\ n.paginas[p].frame_mv = f
          /\ ~ n.paginas[p].presencia /\ ~ n.paginas[p].lockeo
          /\ \A q \in Paginas : q # p => n.paginas[q] = mem.paginas[q]
      BY <1>1, <2>1, <3>1, NuevaBien
    <3> HIDE DEF n
    <3>3. tiene_pagina(n, p)
      BY <3>1, <3>2 DEF tiene_pagina, FramesMV
    <3>4. CASE PuedeUbicar(n)
      <4>1. hilo' = Reposo /\ mem' = ubicar_en_mp(n, p)
        BY <1>5, <2>1, <2>4, <3>4 DEF PlatoNuevo, PlatoGuardado, n, p, f
      <4>2. MemoriaBien(mem') /\ Conserva(n, mem')
        BY <1>1, <3>2, <3>3, <3>4, <4>1, UbicarBien
      <4>3. \A q \in Paginas : ~ n.paginas[q].lockeo
        BY <2>1, <3>2, NadaFijado
      <4> QED BY <4>1, <4>2, <4>3, EnReposo DEF Conserva
    <3>5. CASE ~ PuedeUbicar(n)
      BY <1>5, <2>1, <2>4, <3>5, MorirGuardando DEF PlatoNuevo, n, p, f
    <3> QED BY <3>4, <3>5
  <2> QED BY <2>3, <2>4
<1> QED BY <1>2, <1>3, <1>4, <1>5 DEF GuardarPlato

(* Pinning the pages of an order. *)
LEMMA FijarPaso ==
  ASSUME IInv, hilo = Reposo, NEW op \in {"OBTENER_PEDIDO", "PLATO_LISTO"},
         NEW ped \in Pedidos, NEW d \in Platos \cup {NingunPlato},
         op = "PLATO_LISTO" => d \in Platos /\ tiene_pagina(mem, <<ped, d>>),
         FijarPedido(op, ped, d)
  PROVE  MemHilo'
<1> DEFINE S == tabla_de_platos(mem, ped)
<1>1. S \in SUBSET Platos /\ MemoriaBien(mem)
  BY DEF tabla_de_platos, IInv
<1>2. /\ hilo' \in Tareas /\ EnCurso' /\ hilo'.op = op /\ hilo'.pedido = ped
      /\ hilo'.plato = d /\ hilo'.pendientes = S
  BY <1>1, TareaBien DEF FijarPedido, EnCurso
<1>3. mem' = poner_bit_de_lockeo(mem, PaginasDe(mem, ped), TRUE)
  BY DEF FijarPedido
<1>4. /\ MemoriaBien(mem')
      /\ \A q \in Paginas :
           /\ mem'.paginas[q].frame_mv = mem.paginas[q].frame_mv
           /\ mem'.paginas[q].lockeo
                <=> q \in PaginasDe(mem, ped) \/ mem.paginas[q].lockeo
  <2> DEFINE n == poner_bit_de_lockeo(mem, PaginasDe(mem, ped), TRUE)
             T == PaginasDe(mem, ped)
  <2>1. /\ MemoriaBien(n)
        /\ \A q \in Paginas : /\ n.paginas[q].frame_mv = mem.paginas[q].frame_mv
                              /\ n.paginas[q].lockeo <=> q \in T \/ mem.paginas[q].lockeo
    <3> HIDE DEF T
    <3> QED BY <1>1, FijarBien DEF T
  <2> HIDE DEF n
  <2>2. mem' = n
    BY <1>3 DEF n
  <2> QED BY <2>1, <2>2
<1>5. \A q \in Paginas : tiene_pagina(mem', q) <=> tiene_pagina(mem, q)
  BY <1>4 DEF tiene_pagina
<1>6. \A q \in Paginas : mem'.paginas[q].lockeo <=> q[1] = ped /\ tiene_pagina(mem', q)
  BY <1>4, <1>5, NadaFijado, PaginasDelPedido
<1>7. \A x \in Platos : <<ped, x>> \in Paginas
  BY PaginaDePar
<1>8. \A x \in Platos : x \in S <=> tiene_pagina(mem', <<ped, x>>)
  BY <1>5, <1>7 DEF tabla_de_platos
<1> HIDE DEF S
<1>9. PendientesOK'
  BY <1>1, <1>2, <1>5, <1>7, <1>8 DEF PendientesOK
<1>10. Fijadas'
  BY <1>2, <1>6, <1>8 DEF Fijadas, Levanta
<1> QED BY <1>2, <1>4, <1>9, <1>10 DEF MemHilo

(* One page of an order that is being raised. *)
LEMMA LevantarPaso ==
  ASSUME IInv, LevantarPagina
  PROVE  MemHilo'
<1>1. EnCurso /\ Levanta /\ ~ caido /\ MemoriaBien(mem)
  BY DEF LevantarPagina, Levantando, En, EnCurso, Levanta, IInv
<1>2. /\ hilo \in Tareas /\ hilo.pedido \in Pedidos /\ hilo.pendientes \in SUBSET Platos
  BY <1>1, HiloEnCurso DEF IInv
<1>3. PICK d \in hilo.pendientes :
        IF PuedeLevantar(mem, <<hilo.pedido, d>>)
        THEN /\ mem' = levantar_pagina_en_memoria(mem, <<hilo.pedido, d>>)
             /\ hilo' = [hilo EXCEPT !.pendientes = @ \ {d}]
             /\ UNCHANGED <<restaurantes, estado, respuesta, caido>>
        ELSE Morir(hilo)
  BY DEF LevantarPagina
<1> DEFINE p == <<hilo.pedido, d>>
<1>4. p \in Paginas /\ d \in Platos /\ tiene_pagina(mem, p)
  BY <1>1, <1>2, PaginaDePar DEF IInv, PendientesOK
<1>5. CASE PuedeLevantar(mem, p)
  <2>1. /\ mem' = levantar_pagina_en_memoria(mem, p)
        /\ hilo' = [hilo EXCEPT !.pendientes = @ \ {d}] /\ caido' = caido
    BY <1>3, <1>5
  <2>2. /\ hilo' \in Tareas /\ EnCurso'
        /\ hilo'.op = hilo.op /\ hilo'.pedido = hilo.pedido
        /\ hilo'.plato = hilo.plato /\ hilo'.pendientes = hilo.pendientes \ {d}
    BY <1>1, <2>1, SiguePendiente DEF IInv
  <2> HIDE DEF p
  <2>3. MemoriaBien(mem') /\ Conserva(mem, mem') /\ mem'.paginas[p].presencia
    BY <1>1, <1>4, <1>5, <2>1, LevantarBien
  <2>4. \A q \in Paginas : /\ tiene_pagina(mem', q) <=> tiene_pagina(mem, q)
                           /\ mem'.paginas[q].lockeo = mem.paginas[q].lockeo
                           /\ mem.paginas[q].presencia /\ mem.paginas[q].lockeo
                                => mem'.paginas[q].presencia
    BY <2>3 DEF Conserva, tiene_pagina
  <2>5. \A x \in Platos : /\ <<hilo.pedido, x>> \in Paginas
                          /\ <<hilo.pedido, x>>[1] = hilo.pedido
    BY <1>2, PaginaDePar
  <2>6. PendientesOK'
    BY <1>1, <1>2, <2>1, <2>2, <2>4, <2>5 DEF IInv, PendientesOK
  <2>7. Fijadas'
    <3>1. Levanta'
      BY <1>1, <2>2 DEF Levanta
    <3>2. \A q \in Paginas :
            mem'.paginas[q].lockeo <=> q[1] = hilo.pedido /\ tiene_pagina(mem', q)
      BY <1>1, <2>4 DEF IInv, Fijadas
    <3>3. ASSUME NEW x \in Platos \ hilo'.pendientes,
                 tiene_pagina(mem', <<hilo.pedido, x>>)
          PROVE  mem'.paginas[<<hilo.pedido, x>>].presencia
      <4>1. CASE x = d
        BY <4>1, <2>3 DEF p
      <4>2. CASE x # d
        <5>1. x \in Platos \ hilo.pendientes /\ tiene_pagina(mem, <<hilo.pedido, x>>)
          BY <3>3, <4>2, <2>2, <2>4, <2>5
        <5>2. /\ mem.paginas[<<hilo.pedido, x>>].presencia
              /\ mem.paginas[<<hilo.pedido, x>>].lockeo
          BY <5>1, <1>1, <2>5 DEF IInv, Fijadas
        <5> QED BY <5>2, <2>4, <2>5
      <4> QED BY <4>1, <4>2
    <3> QED BY <2>2, <3>1, <3>2, <3>3 DEF Fijadas
  <2> QED BY <2>2, <2>3, <2>6, <2>7 DEF MemHilo
<1>6. CASE ~ PuedeLevantar(mem, p)
  <2>1. mem' = mem /\ hilo' = hilo /\ caido'
    BY <1>3, <1>6 DEF Morir
  <2> QED BY <2>1, <1>2 DEF IInv, MemHilo, PendientesOK, Fijadas, Levanta, EnCurso
<1> QED BY <1>5, <1>6

(* Unpinning them: the last step of obtener_pedido and of plato_listo. *)
LEMMA SoltarBien ==
  ASSUME NEW m, MemoriaBien(m), NEW ped \in Pedidos,
         \A p \in Paginas : m.paginas[p].lockeo => p \in PaginasDe(m, ped)
  PROVE  /\ MemoriaBien(SoltarPedido(m, ped))
         /\ \A p \in Paginas : ~ SoltarPedido(m, ped).paginas[p].lockeo
<1> DEFINE S == PaginasDe(m, ped)
           n == paginas_leidas(m, S)
           u == poner_bit_de_lockeo(n, S, FALSE)
<1>1. /\ MemoriaBien(n)
      /\ \A q \in Paginas : n.paginas[q].lockeo = m.paginas[q].lockeo
  <2> HIDE DEF S
  <2> QED BY LeidasBien
<1>2. SoltarPedido(m, ped) = u
  BY DEF SoltarPedido
<1> HIDE DEF n
<1>3. /\ MemoriaBien(u)
      /\ \A q \in Paginas : u.paginas[q].lockeo <=> q \notin S /\ n.paginas[q].lockeo
  <2> HIDE DEF S
  <2> QED BY <1>1, DesfijarBien
<1> HIDE DEF u
<1>4. \A q \in Paginas : m.paginas[q].lockeo \in BOOLEAN
  BY DEF MemoriaBien, Memorias, Info, InfoPagina
<1> QED BY <1>1, <1>2, <1>3, <1>4

(* The end of obtener_pedido unpins the order. *)
LEMMA TerminarObtenerPaso ==
  ASSUME IInv, TerminarObtener
  PROVE  MemHilo'
<1>1. /\ EnCurso /\ MemoriaBien(mem)
      /\ mem' = SoltarPedido(mem, hilo.pedido) /\ hilo' = Reposo
  BY DEF TerminarObtener, En, EnCurso, IInv
<1>2. hilo.pedido \in Pedidos
  BY <1>1, HiloEnCurso DEF IInv
<1>3. \A p \in Paginas : mem.paginas[p].lockeo => p \in PaginasDe(mem, hilo.pedido)
  BY <1>2, PaginasDelPedido DEF IInv, Fijadas
<1>4. MemoriaBien(mem') /\ \A p \in Paginas : ~ mem'.paginas[p].lockeo
  BY <1>1, <1>2, <1>3, SoltarBien
<1> QED BY <1>1, <1>4, EnReposo

(* The end of plato_listo counts the dish, which is resident. *)
LEMMA TerminarPlatoListoPaso ==
  ASSUME IInv, TerminarPlatoListo
  PROVE  MemHilo'
<1> DEFINE p == <<hilo.pedido, hilo.plato>>
           n == sumar_cantidad_lista(mem, p)
<1>1. /\ EnCurso /\ Levanta /\ ~ caido /\ hilo.op = "PLATO_LISTO"
      /\ hilo.pendientes = {} /\ MemoriaBien(mem)
      /\ mem' = SoltarPedido(n, hilo.pedido) /\ hilo' = Reposo
  BY DEF TerminarPlatoListo, En, EnCurso, Levanta, IInv
<1>2. /\ hilo.pedido \in Pedidos /\ hilo.plato \in Platos
      /\ tiene_pagina(mem, p) /\ mem.paginas[p].presencia
  <2>1. hilo.pedido \in Pedidos
    BY <1>1, HiloEnCurso DEF IInv
  <2>2. hilo.plato \in Platos /\ tiene_pagina(mem, p)
    BY <1>1 DEF IInv, PendientesOK
  <2> QED BY <2>1, <2>2, <1>1 DEF IInv, Fijadas
<1>3. p \in Paginas
  BY <1>2, PaginaDePar
<1> HIDE DEF p
<1>4. /\ MemoriaBien(n)
      /\ \A q \in Paginas : /\ n.paginas[q].frame_mv = mem.paginas[q].frame_mv
                            /\ n.paginas[q].presencia = mem.paginas[q].presencia
                            /\ n.paginas[q].lockeo = mem.paginas[q].lockeo
  BY <1>1, <1>2, <1>3, SumarListaBien
<1> HIDE DEF n
<1>5. \A q \in Paginas : n.paginas[q].lockeo => q \in PaginasDe(n, hilo.pedido)
  <2>1. \A q \in Paginas : n.paginas[q].lockeo => q[1] = hilo.pedido /\ tiene_pagina(n, q)
    BY <1>4 DEF IInv, Fijadas, tiene_pagina
  <2> QED BY <2>1, <1>2, PaginasDelPedido
<1>6. MemoriaBien(mem') /\ \A q \in Paginas : ~ mem'.paginas[q].lockeo
  BY <1>1, <1>2, <1>4, <1>5, SoltarBien
<1> QED BY <1>1, <1>6, EnReposo

(* finalizar_pedido takes the order out of its table. *)
LEMMA FinalizarPaso ==
  ASSUME IInv, NEW ped \in Pedidos, FinalizarPedido(ped)
  PROVE  MemHilo'
<1>1. CASE Rechazar("FINALIZAR_PEDIDO", Busqueda(ped))
  BY <1>1, RechazoQuieto
<1>2. CASE /\ hilo' = Tarea("FINALIZAR_PEDIDO", ped, NingunPlato,
                            tabla_de_platos(mem, ped))
           /\ UNCHANGED <<restaurantes, mem, respuesta, caido>>
  <2> DEFINE S == tabla_de_platos(mem, ped)
  <2>1. S \in SUBSET Platos /\ \A d \in S : tiene_pagina(mem, <<ped, d>>)
    BY DEF tabla_de_platos
  <2>2. /\ hilo' \in Tareas /\ hilo'.op = "FINALIZAR_PEDIDO"
        /\ hilo'.pedido = ped /\ hilo'.pendientes = S
    BY <1>2, <2>1, TareaBien
  <2>3. hilo = Reposo
    BY DEF FinalizarPedido, Libre
  <2>4. \A p \in Paginas : ~ mem.paginas[p].lockeo
    BY <2>3, NadaFijado
  <2> HIDE DEF S
  <2>5. PendientesOK'
    BY <1>2, <2>1, <2>2 DEF PendientesOK
  <2>6. Fijadas'
    BY <1>2, <2>2, <2>4 DEF Fijadas, Levanta
  <2> QED BY <1>2, <2>2, <2>5, <2>6 DEF MemHilo, IInv
<1> QED BY <1>1, <1>2 DEF FinalizarPedido

(* finalizar_pedido frees a page of its order. *)
LEMMA LiberarPaso ==
  ASSUME IInv, LiberarPagina
  PROVE  MemHilo'
<1>1. /\ EnCurso /\ ~ Levanta /\ ~ caido /\ hilo.op = "FINALIZAR_PEDIDO"
      /\ MemoriaBien(mem) /\ caido' = caido
  BY DEF LiberarPagina, En, EnCurso, Levanta, IInv
<1>2. /\ hilo \in Tareas /\ hilo.pedido \in Pedidos /\ hilo.pendientes \in SUBSET Platos
  BY <1>1, HiloEnCurso DEF IInv
<1>3. PICK d \in hilo.pendientes :
        /\ mem' = liberar_pagina(mem, <<hilo.pedido, d>>)
        /\ hilo' = [hilo EXCEPT !.pendientes = @ \ {d}]
  BY DEF LiberarPagina
<1> DEFINE p == <<hilo.pedido, d>>
<1>4. p \in Paginas /\ d \in Platos /\ tiene_pagina(mem, p)
  BY <1>1, <1>2, PaginaDePar DEF IInv, PendientesOK
<1>5. /\ hilo' \in Tareas /\ EnCurso'
      /\ hilo'.op = hilo.op /\ hilo'.pedido = hilo.pedido
      /\ hilo'.plato = hilo.plato /\ hilo'.pendientes = hilo.pendientes \ {d}
  BY <1>1, <1>3, SiguePendiente DEF IInv
<1>6. \A x \in Platos : x # d => <<hilo.pedido, x>> \in Paginas /\ <<hilo.pedido, x>> # p
  BY <1>2, PaginaDePar
<1>7. mem' = liberar_pagina(mem, p)
  BY <1>3
<1> HIDE DEF p
<1>8. /\ MemoriaBien(mem') /\ mem'.paginas[p] = SinPagina
      /\ \A q \in Paginas : q # p => mem'.paginas[q] = mem.paginas[q]
  BY <1>1, <1>4, <1>7, LiberarBien
<1>9. PendientesOK'
  BY <1>1, <1>2, <1>5, <1>6, <1>8 DEF IInv, PendientesOK, tiene_pagina
<1>10. \A q \in Paginas : ~ mem'.paginas[q].lockeo
  <2>1. ~ SinPagina.lockeo
    BY DEF SinPagina
  <2>2. \A q \in Paginas : ~ mem.paginas[q].lockeo
    BY <1>1 DEF IInv, Fijadas
  <2> QED BY <2>1, <2>2, <1>8
<1>11. ~ Levanta'
  BY <1>1, <1>5 DEF Levanta
<1> QED BY <1>5, <1>8, <1>9, <1>10, <1>11 DEF MemHilo, Fijadas

-----------------------------------------------------------------------------
(* The invariant holds at first and every step keeps it.                   *)

(* The server starts in the invariant. *)
LEMMA Inicio == Init => IInv
<1> SUFFICES ASSUME Init PROVE IInv
  OBVIOUS
<1>1. MemoriaBien(mem)
  BY InicialBien DEF Init
<1>2. TypeOK
  <2>1. respuesta.op = "NINGUNA" /\ respuesta.resultado = "OK"
    BY RespuestaBien DEF Init, SinRespuesta, Descripcion
  <2>2. estado \in [Pedidos -> Estados]
    BY DEF Init, Estados
  <2>3. mem \in Memorias
    BY <1>1 DEF MemoriaBien
  <2>4. restaurantes \subseteq Restaurantes /\ hilo \in Tareas \cup {Reposo}
        /\ caido \in BOOLEAN
    BY DEF Init
  <2> QED BY <2>1, <2>2, <2>3, <2>4 DEF TypeOK, Resultados
<1>3. PendientesOK
  BY DEF Init, PendientesOK, EnCurso
<1>4. Fijadas
  <2>1. \A p \in Paginas : mem.paginas[p] = SinPagina
    BY DEF Init, inicializar_memoria
  <2>2. ~ SinPagina.lockeo
    BY DEF SinPagina
  <2> QED BY <2>1, <2>2 DEF Init, Fijadas, Levanta, EnCurso
<1> QED BY <1>1, <1>2, <1>3, <1>4 DEF IInv

(* Every action keeps the invariant. *)
LEMMA Paso == IInv /\ [Next]_vars => IInv'
<1> SUFFICES ASSUME IInv, [Next]_vars PROVE IInv'
  OBVIOUS
<1>1. MemHilo'
  <2>1. CASE Recibir \/ UNCHANGED vars
    BY <2>1, Quieto DEF Recibir, vars
  <2>2. CASE Continuar
    <3>1. CASE TerminarFinalizar
      <4>1. hilo' = Reposo /\ mem' = mem /\ MemoriaBien(mem) /\ ~ Levanta
        BY <3>1 DEF TerminarFinalizar, En, Levanta, IInv
      <4>2. \A p \in Paginas : ~ mem.paginas[p].lockeo
        BY <4>1 DEF IInv, Fijadas
      <4> QED BY <4>1, <4>2, EnReposo
    <3> QED BY <2>2, <3>1, LevantarPaso, TerminarObtenerPaso, TerminarPlatoListoPaso,
               LiberarPaso DEF Continuar
  <2>3. ASSUME NEW ped \in Pedidos, GuardarPedido(ped) PROVE MemHilo'
    BY <2>3, Quieto DEF GuardarPedido, CrearTablaDePedidos, AgregarPedido,
                        PedidoRepetido, Rechazar
  <2>4. ASSUME NEW ped \in Pedidos, ObtenerPedido(ped) PROVE MemHilo'
    <3>1. hilo = Reposo
      BY <2>4 DEF ObtenerPedido, Libre
    <3> QED BY <2>4, <3>1, RechazoQuieto, FijarPaso DEF ObtenerPedido
  <2>5. ASSUME NEW ped \in Pedidos, ConfirmarPedido(ped) PROVE MemHilo'
    BY <2>5, Quieto DEF ConfirmarPedido, Rechazar
  <2>6. ASSUME NEW ped \in Pedidos, FinalizarPedido(ped) PROVE MemHilo'
    BY <2>6, FinalizarPaso
  <2>7. ASSUME NEW ped \in Pedidos, NEW d \in Platos, PlatoListo(ped, d) PROVE MemHilo'
    <3>1. hilo = Reposo
      BY <2>7 DEF PlatoListo, Libre
    <3>2. CASE Rechazar("PLATO_LISTO", MotivoListo(ped, d))
      BY <3>2, RechazoQuieto
    <3>3. CASE MotivoListo(ped, d) = "OK" /\ FijarPedido("PLATO_LISTO", ped, d)
      <4>1. tiene_pagina(mem, <<ped, d>>)
        BY <3>3 DEF MotivoListo, Busqueda
      <4> QED BY <3>1, <3>3, <4>1, FijarPaso
    <3> QED BY <2>7, <3>2, <3>3 DEF PlatoListo
  <2>8. ASSUME NEW ped \in Pedidos, NEW d \in Platos, NEW c \in Cantidades,
               GuardarPlato(ped, d, c)
        PROVE  MemHilo'
    BY <2>8, GuardarPlatoPaso
  <2>9. CASE Solicitud
    BY <2>9, <2>3, <2>4, <2>5, <2>6, <2>7, <2>8 DEF Solicitud
  <2> QED BY <2>1, <2>2, <2>9 DEF Next
<1>2. TypeOK'
  BY <1>1, RespuestaPaso DEF IInv, TypeOK, MemHilo, MemoriaBien
<1> QED BY <1>1, <1>2 DEF IInv, MemHilo

-----------------------------------------------------------------------------
(* The invariant holds in every state of every behaviour. *)
THEOREM SiempreIInv == Spec => []IInv
BY Inicio, Paso, PTL DEF Spec

(* Every variable of the server keeps its type: the frame numbers that the *)
(* pages hold are always frames (or -1) and the quantities stay within     *)
(* uint32_t, whatever the console asks for.                                *)
THEOREM Tipos == Spec => []TypeOK
<1>1. IInv => TypeOK
  BY DEF IInv
<1> QED BY <1>1, SiempreIInv, PTL

(* Frames are neither lost nor shared by guardar_plato, swap and           *)
(* liberar_pagina, for every number of frames of each memory.              *)
THEOREM Frames == Spec => []FramesOK
<1>1. IInv => FramesOK
  BY DEF IInv, MemoriaBien, FramesOK
<1> QED BY <1>1, SiempreIInv, PTL

(* paginas_para_swapeo lists exactly the resident pages, each once, under  *)
(* both replacement algorithms.                                            *)
THEOREM Lista == Spec => []ListaOK
<1>1. IInv => ListaOK
  BY DEF IInv, MemoriaBien, ListaOK
<1> QED BY <1>1, SiempreIInv, PTL

(* Dropping a resident page whose modification bit is off, which is what   *)
(* swap does with an unmodified victim, loses no quantity.                 *)
THEOREM Copias == Spec => []CopiaLimpia
<1>1. IInv => CopiaLimpia
  BY DEF IInv, MemoriaBien, CopiaLimpia
<1> QED BY <1>1, SiempreIInv, PTL

(* Whenever main memory is full the clock hand is a position of the list,  *)
(* though finalizar_pedido shortens the list without moving the hand.      *)
THEOREM Puntero == Spec => []PunteroOK
<1>1. IInv => PunteroOK
  <2> SUFFICES ASSUME IInv, \A f \in FramesMP : mem.bitmap_mp[f]
               PROVE  mem.puntero < Len(mem.lista)
    BY DEF PunteroOK
  <2>1. Len(mem.lista) >= CantFramesMP /\ Len(mem.lista) \in Nat
    BY ListaLlena, ListaDeResidentes DEF IInv
  <2>2. mem.puntero \in 0 .. CantFramesMP - 1
    BY DEF IInv, TypeOK, Memorias, FramesMP
  <2> QED BY <2>1, <2>2, FramesAssumption
<1> QED BY <1>1, SiempreIInv, PTL

(* While an order is being raised its pages, and no others, are pinned,    *)
(* and none that was already raised is evicted: the frame numbers that     *)
(* obtener_pedido and plato_listo read afterwards are valid.               *)
THEOREM Pinadas == Spec => []FijadasOK
<1>1. IInv => FijadasOK
  <2> SUFFICES ASSUME IInv PROVE FijadasOK
    OBVIOUS
  <2>1. CASE Levanta
    <3>1. hilo.pedido \in Pedidos
      BY <2>1, HiloEnCurso DEF IInv, Levanta
    <3>2. \A p \in Paginas : mem.paginas[p].lockeo <=> p \in PaginasDe(mem, hilo.pedido)
      BY <2>1, <3>1, PaginasDelPedido DEF IInv, Fijadas
    <3>3. PaginasDe(mem, hilo.pedido) \subseteq Paginas
      BY <3>1 DEF PaginasDe, tabla_de_platos, Paginas
    <3>4. \A d \in tabla_de_platos(mem, hilo.pedido) \ hilo.pendientes :
            mem.paginas[<<hilo.pedido, d>>].presencia
      BY <2>1 DEF IInv, Fijadas, tabla_de_platos
    <3> QED BY <2>1, <3>2, <3>3, <3>4 DEF FijadasOK, Levanta, EnCurso
  <2>2. CASE ~ Levanta
    BY <2>2 DEF IInv, Fijadas, FijadasOK, Levanta, EnCurso
  <2> QED BY <2>1, <2>2
<1> QED BY <1>1, SiempreIInv, PTL

=============================================================================

----------------------------- MODULE CocinaProofs -----------------------------
(***************************************************************************)
(* Consoles that only confirm, look at and prepare orders (the kitchen), as*)
(* many as there are and all at once: nothing undefined happens, no update *)
(* is lost, nobody waits for ever and no mutex is left behind.  The other  *)
(* handlers are what makes each of these false.                            *)
(***************************************************************************)
EXTENDS HilosProofs

-----------------------------------------------------------------------------
(* The kitchen.                                                            *)

DeCocina == {"OBTENER_PEDIDO", "CONFIRMAR_PEDIDO", "PLATO_LISTO"}

(* The order fits in main memory: otherwise raising it kills the server.   *)
Caben(m) == \A ped \in Pedidos : Cardinality(tabla_de_platos(m, ped)) <= CantFramesMP

(* The scenario asks for nothing else, of orders that fit, and starts with *)
(* nothing pinned, as every handler leaves the memory.                     *)
EsCocina ==
  LET e == Escenarios[escenario]
  IN  /\ \A s \in e.solicitudes : s.op \in DeCocina
      /\ \A p \in Paginas : ~ e.mem.paginas[p].lockeo
      /\ Caben(e.mem)

-----------------------------------------------------------------------------
(* The inductive invariant.                                                *)

(* The thread has the pages of its order pinned. *)
Fija(t) == hilos[t].pc \in {"LEVANTAR", "LOCKEAR_LEVANTADA", "ENLISTAR", "SUMAR_LISTA", "CONTAR"}

(* Nothing was freed under the thread. *)
EnCocina(t) ==
  /\ hilos[t].op \in DeCocina \cup {"NINGUNA"}
  /\ ~ hilos[t].colgado
  /\ hilos[t].pc = "BUSCAR_PEDIDO" => hilos[t].pedido[1] \in restaurantes

(* The thread that locks the list does not have what is ahead of it, and   *)
(* nobody has the page that was just raised.                               *)
Recorre(t) ==
  LET h == hilos[t]
      Delante(j) == h.cursor > 0 /\ j >= h.cursor
  IN  /\ h.pc \in Recorriendo => h.cursor # 0
      /\ h.pc \in Recorrido =>
           \A j \in 1 .. Len(mem.lista) : Delante(j) => lock_pagina[mem.lista[j]] # t
      /\ h.pc = "LOCKEAR_PAGINA" =>
           /\ h.espera \in Residentes(mem) /\ lock_pagina[h.espera] # t
           /\ \A j \in 1 .. Len(mem.lista) : Delante(j) => mem.lista[j] # h.espera
      /\ h.pc = "LOCKEAR_LEVANTADA" =>
           h.espera \in Residentes(mem) /\ lock_pagina[h.espera] = Nadie

(* The thread has mutexes only of resident pages and only until it walks   *)
(* the list to unlock them, all of which are ahead of it then.             *)
Candados(t) ==
  \A p \in Paginas : lock_pagina[p] = t =>
    /\ p \in Residentes(mem)
    /\ ConSwap(t) \/ hilos[t].pc = "UNLOCKEAR"
    /\ hilos[t].pc = "UNLOCKEAR" =>
         \E j \in 1 .. Len(mem.lista) :
           mem.lista[j] = p /\ hilos[t].cursor > 0 /\ hilos[t].cursor <= j

(* The pages it has pinned, and those it has raised. *)
Levantados(t) ==
  Fija(t) => \A d \in PlatosDelPedido(t) :
    LET i == mem.paginas[<<hilos[t].pedido, d>>]
    IN  /\ i.lockeo
        /\ hilos[t].pc \notin {"LEVANTAR", "LOCKEAR_LEVANTADA"} \/ d \notin hilos[t].pendientes =>
             i.presencia

(* What it has listed is what the order has. *)
Lectura(t) == {<<d, Valor(mem, <<hilos[t].pedido, d>>)>> :
                 d \in PlatosDelPedido(t) \ hilos[t].pendientes}

AntesDeLeer == Busqueda \cup Recorrido \cup {"TOMAR_SWAP", "FIJAR", "LEVANTAR", "LOCKEAR_LEVANTADA"}

Foto(t) ==
  /\ hilos[t].pc \in AntesDeLeer => hilos[t].leido = {}
  /\ hilos[t].pc = "ENLISTAR" => hilos[t].leido = Lectura(t)

KHilo(t) == EnCocina(t) /\ Recorre(t) /\ Candados(t) /\ Levantados(t) /\ Foto(t)

(* A pinned page is of the order of the thread that raises it. *)
Fijadas ==
  \A p \in Paginas : mem.paginas[p].lockeo =>
    tiene_pagina(mem, p) /\ \E t \in Hilos : Fija(t) /\ p[1] = hilos[t].pedido

(* The threads whose dish is in the memory and not yet in an answer. *)
Contada(p) == {t \in Hilos : /\ hilos[t].op = "PLATO_LISTO"
                             /\ hilos[t].pc \in {"CONTAR", "UNLOCKEAR", "MARCAR"}
                             /\ Pagina(t) = p}

(* The quantities are what was answered and what is about to be.           *)
Cuenta(p) ==
  /\ IsFiniteSet(Contada(p))
  /\ hecho[p].cantidad_total = Valor(mem, p).cantidad_total
  /\ \E q \in Int : hecho[p].cantidad_lista + Cardinality(Contada(p))
                      = Valor(mem, p).cantidad_lista + q * Modulo

Cuentas == \A p \in Paginas : tiene_pagina(mem, p) => Cuenta(p)

KInv ==
  /\ EsCocina
  /\ fallo = "NO"
  /\ MemoriaBien(mem)
  /\ Caben(mem)
  /\ \A t \in Hilos : KHilo(t)
  /\ Fijadas
  /\ Cuentas

-----------------------------------------------------------------------------
(* What a step of one thread keeps of the others.                          *)

(* The step of t leaves u where it was, with the mutexes it has left of    *)
(* pages that are where they were, and only the holder of lock_swap        *)
(* touches the memory or takes a mutex.                                    *)
Ajeno(t, u) ==
  /\ hilos'[u] = hilos[u]
  /\ mem' = mem \/ ConSwap(t)
  /\ \A p \in Paginas : lock_pagina'[p] = u =>
       /\ lock_pagina[p] = u
       /\ p \in Residentes(mem) => p \in Residentes(mem)'
       /\ \A j \in 1 .. Len(mem.lista) : mem.lista[j] = p =>
            j \in 1 .. Len(mem'.lista) /\ mem'.lista[j] = p
  /\ ConSwap(u) => \A p \in Paginas : lock_pagina[p] = Nadie => lock_pagina'[p] = Nadie

(* Two threads are not both with lock_swap. *)
LEMMA UnoConSwap ==
  ASSUME Sigue, NEW t \in Hilos, NEW u \in Hilos, t # u, ConSwap(t)
  PROVE  ~ ConSwap(u)
BY DEF Sigue, DuenoDeSwap

(* Nor is one that pins pages without it. *)
LEMMA FijaConSwap ==
  ASSUME NEW t, Fija(t)
  PROVE  ConSwap(t)
BY DEF Fija, ConSwap

(* What is true of the other threads stays true. *)
LEMMA OtroHilo ==
  ASSUME Sigue, NEW t \in Hilos, NEW u \in Hilos, t # u, restaurantes' = restaurantes,
         MemoriaBien(mem), Ajeno(t, u), KHilo(u)
  PROVE  KHilo(u)'
<1> DEFINE h == hilos[u]
<1>1. hilos'[u] = h /\ (ConSwap(u)' <=> ConSwap(u)) /\ (mem' = mem \/ ~ ConSwap(u))
      /\ (Fija(u)' <=> Fija(u))
  BY UnoConSwap DEF Ajeno, ConSwap, Fija
<1>2. EnCocina(u)'
  BY <1>1 DEF KHilo, EnCocina
<1>3. Recorre(u)'
  <2>1. h.pc \in Recorriendo => h.cursor # 0
    BY DEF KHilo, Recorre
  <2>2. CASE ConSwap(u)
    <3>1. /\ mem' = mem
          /\ \A p \in Paginas : lock_pagina'[p] = u => lock_pagina[p] = u
          /\ \A p \in Paginas : lock_pagina[p] = Nadie => lock_pagina'[p] = Nadie
      BY <1>1, <2>2 DEF Ajeno
    <3>2. /\ \A j \in 1 .. Len(mem.lista) : mem.lista[j] \in Paginas
          /\ Residentes(mem) \subseteq Paginas
      BY ListaDeResidentes DEF Residentes
    <3> QED BY <1>1, <3>1, <3>2 DEF KHilo, Recorre, Residentes
  <2>3. CASE ~ ConSwap(u)
    <3>1. h.pc \notin Recorrido \cup {"LOCKEAR_LEVANTADA"}
      BY <2>3 DEF ConSwap, Recorrido
    <3> QED BY <1>1, <2>1, <3>1 DEF Recorre, Recorrido
  <2> QED BY <2>2, <2>3
<1>4. Candados(u)'
  <2> SUFFICES ASSUME NEW p \in Paginas, lock_pagina'[p] = u
               PROVE  /\ p \in Residentes(mem)'
                      /\ ConSwap(u)' \/ hilos'[u].pc = "UNLOCKEAR"
                      /\ hilos'[u].pc = "UNLOCKEAR" =>
                           \E j \in 1 .. Len(mem'.lista) :
                             mem'.lista[j] = p /\ hilos'[u].cursor > 0 /\ hilos'[u].cursor <= j
    BY DEF Candados
  <2>1. /\ lock_pagina[p] = u
        /\ p \in Residentes(mem) => p \in Residentes(mem)'
        /\ \A j \in 1 .. Len(mem.lista) : mem.lista[j] = p =>
             j \in 1 .. Len(mem'.lista) /\ mem'.lista[j] = p
    BY DEF Ajeno
  <2>2. /\ p \in Residentes(mem)
        /\ ConSwap(u) \/ h.pc = "UNLOCKEAR"
        /\ h.pc = "UNLOCKEAR" =>
             \E j \in 1 .. Len(mem.lista) : mem.lista[j] = p /\ h.cursor > 0 /\ h.cursor <= j
    BY <2>1 DEF KHilo, Candados
  <2> QED BY <1>1, <2>1, <2>2
<1>5. Levantados(u)'
  <2>1. CASE Fija(u)
    BY <1>1, <2>1, FijaConSwap DEF KHilo, Levantados, PlatosDelPedido
  <2>2. CASE ~ Fija(u)
    BY <1>1, <2>2 DEF Levantados
  <2> QED BY <2>1, <2>2
<1>6. Foto(u)'
  <2>1. CASE h.pc = "ENLISTAR"
    BY <1>1, <2>1 DEF KHilo, Foto, Lectura, PlatosDelPedido, ConSwap
  <2>2. CASE h.pc # "ENLISTAR"
    BY <1>1, <2>2 DEF KHilo, Foto
  <2> QED BY <2>1, <2>2
<1> QED BY <1>2, <1>3, <1>4, <1>5, <1>6 DEF KHilo

(* The tables have the same pages.                                         *)
MismasPaginas(m, n) == \A q \in Paginas : tiene_pagina(n, q) <=> tiene_pagina(m, q)

(* With the same pages, the orders have the same dishes. *)
LEMMA MismasTablas ==
  ASSUME NEW m, NEW n, MismasPaginas(m, n)
  PROVE  /\ \A ped \in Pedidos : tabla_de_platos(n, ped) = tabla_de_platos(m, ped)
         /\ Caben(m) => Caben(n)
<1>1. \A ped \in Pedidos : tabla_de_platos(n, ped) = tabla_de_platos(m, ped)
  BY PaginaDePar DEF MismasPaginas, tabla_de_platos
<1> QED BY <1>1 DEF Caben

(* So a step keeps the invariant when it keeps what is said of the thread  *)
(* and of the memory.                                                      *)
LEMMA PasoDeCocina ==
  ASSUME Sigue, KInv, NEW t \in Hilos, escenario' = escenario, restaurantes' = restaurantes,
         fallo' = fallo, \A u \in Hilos \ {t} : Ajeno(t, u),
         MemoriaBien(mem)', MismasPaginas(mem, mem'), KHilo(t)', Fijadas', Cuentas'
  PROVE  KInv'
<1>1. \A u \in Hilos : KHilo(u)'
  <2> SUFFICES ASSUME NEW u \in Hilos, u # t PROVE KHilo(u)'
    OBVIOUS
  <2> QED BY OtroHilo DEF KInv
<1>2. Caben(mem)'
  BY MismasTablas DEF KInv
<1>3. EsCocina' /\ fallo' = "NO"
  BY DEF KInv, EsCocina
<1> QED BY <1>1, <1>2, <1>3 DEF KInv

(* Pages stay pinned by who pinned them.                                   *)
LEMMA FijadasIguales ==
  ASSUME Fijadas, NEW t \in Hilos, \A u \in Hilos \ {t} : hilos'[u] = hilos[u],
         Fija(t) => Fija(t)' /\ hilos'[t].pedido = hilos[t].pedido,
         MismasPaginas(mem, mem'),
         \A q \in Paginas : mem'.paginas[q].lockeo = mem.paginas[q].lockeo
  PROVE  Fijadas'
<1> SUFFICES ASSUME NEW q \in Paginas, mem'.paginas[q].lockeo
             PROVE  tiene_pagina(mem', q) /\ \E u \in Hilos : Fija(u)' /\ q[1] = hilos'[u].pedido
  BY DEF Fijadas
<1>1. PICK u \in Hilos : Fija(u) /\ q[1] = hilos[u].pedido
  BY DEF Fijadas
<1>2. Fija(u)' /\ hilos'[u].pedido = hilos[u].pedido
  BY <1>1 DEF Fija
<1>3. tiene_pagina(mem', q)
  BY DEF Fijadas, MismasPaginas
<1> QED BY <1>1, <1>2, <1>3

(* The accounts do not change while no quantity does.                      *)
LEMMA CuentasIguales ==
  ASSUME Cuentas, NEW t \in Hilos, \A u \in Hilos \ {t} : hilos'[u] = hilos[u],
         \A q \in Paginas : t \in Contada(q)' <=> t \in Contada(q),
         MismoContenido(mem, mem'), hecho' = hecho
  PROVE  Cuentas'
<1> SUFFICES ASSUME NEW q \in Paginas, tiene_pagina(mem', q) PROVE Cuenta(q)'
  BY DEF Cuentas
<1>1. Contada(q)' = Contada(q)
  <2>1. \A u \in Hilos \ {t} : u \in Contada(q)' <=> u \in Contada(q)
    BY DEF Contada, Pagina
  <2>2. Contada(q)' \subseteq Hilos /\ Contada(q) \subseteq Hilos
    BY DEF Contada
  <2> QED BY <2>1, <2>2
<1>2. Cuenta(q) /\ Valor(mem', q) = Valor(mem, q)
  BY DEF Cuentas, MismoContenido
<1> QED BY <1>1, <1>2 DEF Cuenta

(* A thread that holds no mutex, somewhere it does not need any.           *)
Suelto == Busqueda \cup {"LIBRE", "CONFIRMAR", "TOMAR_SWAP", "LEER_ESTADO", "MARCAR"}

(* Without lock_swap only the last walk has mutexes. *)
LEMMA SinMutex ==
  ASSUME NEW t, Candados(t), ~ ConSwap(t), hilos[t].pc # "UNLOCKEAR"
  PROVE  \A p \in Paginas : lock_pagina[p] # t
BY DEF Candados

(* A thread at one of those steps has nothing to keep but its answer. *)
LEMMA HiloSuelto ==
  ASSUME NEW t, hilos'[t].pc \in Suelto, \A p \in Paginas : lock_pagina'[p] # t,
         EnCocina(t)', hilos'[t].pc \in AntesDeLeer => hilos'[t].leido = {}
  PROVE  KHilo(t)'
<1>1. Recorre(t)'
  BY DEF Suelto, Busqueda, Recorre, Recorriendo, Recorrido
<1>2. Candados(t)'
  BY DEF Candados
<1>3. Levantados(t)'
  BY DEF Suelto, Busqueda, Levantados, Fija
<1>4. Foto(t)'
  BY DEF Suelto, Busqueda, Foto
<1> QED BY <1>1, <1>2, <1>3, <1>4 DEF KHilo

(* What is known of the thread that takes a step. *)
LEMMA EnK ==
  ASSUME Sigue, KInv, NEW t \in Hilos
  PROVE  /\ TiposH /\ Lugar(t) /\ Vivas(t) /\ hilos \in [Hilos -> Hilo] /\ hilos[t] \in Hilo
         /\ mem \in MemoriasH /\ MemoriaBien(mem) /\ Fijadas /\ Cuentas
         /\ KHilo(t) /\ EnCocina(t) /\ Recorre(t) /\ Candados(t) /\ Levantados(t) /\ Foto(t)
         /\ hilos[t].op \in DeCocina \cup {"NINGUNA"} /\ hilos[t].pc \in PasosDe(hilos[t].op)
BY Donde DEF KInv, KHilo, EnCocina

(* Which handlers are at each step. *)
LEMMA OpK ==
  ASSUME Sigue, KInv, NEW t \in Hilos
  PROVE  /\ hilos[t].pc \in Recorriendo \cup {"TOMAR_SWAP", "FIJAR", "LEVANTAR", "LOCKEAR_LEVANTADA"} =>
              hilos[t].op \in {"OBTENER_PEDIDO", "PLATO_LISTO"}
         /\ hilos[t].pc \in {"ENLISTAR", "LEER_ESTADO"} => hilos[t].op = "OBTENER_PEDIDO"
         /\ hilos[t].pc \in {"SUMAR_LISTA", "CONTAR", "MARCAR"} => hilos[t].op = "PLATO_LISTO"
         /\ hilos[t].pc = "PROBAR_ESTADO" => hilos[t].op \in {"CONFIRMAR_PEDIDO", "PLATO_LISTO"}
         /\ hilos[t].pc \notin {"CREAR_TABLA", "TOMAR_TABLA", "AGREGAR_PEDIDO", "SACAR_PEDIDO", "LIBERAR", "FALLO",
              "BUSCAR_PLATO", "RESERVAR_MP", "TOMAR_PAGINA", "CARGAR", "SOLTAR_PAGINA", "SWAP",
              "LEER_TOTAL", "ESCRIBIR_TOTAL", "INFORMAR"} \cup Alta
<1>1. hilos[t].op \in DeCocina \cup {"NINGUNA"}
  BY EnK
<1>2. hilos[t].op \in Operaciones \cup {"NINGUNA"} /\ hilos[t].pc \in PasosDe(hilos[t].op)
  BY Donde
<1>3. \A op \in DeCocina \cup {"NINGUNA"} : op \notin {"GUARDAR_PEDIDO", "GUARDAR_PLATO", "FINALIZAR_PEDIDO"}
  BY DEF DeCocina
<1> QED BY <1>1, <1>2, <1>3, OpDe DEF ConPruebas

(* The thread after a step that replaces it, and the others. *)
LEMMA Cambia ==
  ASSUME hilos \in [Hilos -> Hilo], NEW t \in Hilos, NEW k, hilos' = [hilos EXCEPT ![t] = k]
  PROVE  hilos'[t] = k /\ \A u \in Hilos \ {t} : hilos'[u] = hilos[u]
OBVIOUS

(* A step that leaves the memory and the accounts as they are.             *)
LEMMA PasoSinMemoria ==
  ASSUME Sigue, KInv, NEW t \in Hilos, escenario' = escenario, restaurantes' = restaurantes,
         fallo' = fallo, mem' = mem, hecho' = hecho,
         \A u \in Hilos \ {t} : hilos'[u] = hilos[u],
         \A p \in Paginas : \/ lock_pagina'[p] = lock_pagina[p]
                            \/ lock_pagina'[p] = Nadie
                            \/ lock_pagina'[p] = t /\ ConSwap(t),
         Fija(t) => Fija(t)' /\ hilos'[t].pedido = hilos[t].pedido,
         \A q \in Paginas : t \in Contada(q)' <=> t \in Contada(q),
         KHilo(t)'
  PROVE  KInv'
<1>1. \A u \in Hilos \ {t} : Ajeno(t, u)
  BY UnoConSwap, NadieAssumption DEF Ajeno, Residentes
<1>2. MismasPaginas(mem, mem') /\ MismoContenido(mem, mem') /\ MemoriaBien(mem)'
  BY DEF KInv, MismasPaginas, MismoContenido
<1>3. Fijadas' /\ Cuentas'
  BY <1>2, FijadasIguales, CuentasIguales DEF KInv
<1> QED BY <1>1, <1>2, <1>3, PasoDeCocina

-----------------------------------------------------------------------------
(* The steps without lock_swap. *)

(* The request. *)
LEMMA PedirK ==
  ASSUME Sigue, KInv, NEW t \in Hilos, Pedir(t)
  PROVE  KInv'
<1>1. /\ hilos \in [Hilos -> Hilo] /\ Candados(t) /\ hilos[t].pc = "LIBRE"
      /\ UNCHANGED <<tablas, mem, candados, consola, fallo>>
  BY EnK DEF Pedir, En
<1>2. PICK s \in Escenarios[escenario].solicitudes :
        hilos' = [hilos EXCEPT ![t] =
            [Parado(hilos[t].faltan - 1) EXCEPT
               !.pc = "BUSCAR_RESTAURANTE", !.op = s.op, !.pedido = s.pedido,
               !.plato = s.plato, !.cantidad = s.cantidad]]
  BY DEF Pedir
<1>3. s.op \in DeCocina
  BY DEF KInv, EsCocina
<1>4. /\ \A u \in Hilos \ {t} : hilos'[u] = hilos[u]
      /\ hilos'[t].pc = "BUSCAR_RESTAURANTE" /\ hilos'[t].op = s.op
      /\ ~ hilos'[t].colgado /\ hilos'[t].leido = {}
  BY <1>1, <1>2, Cambia DEF Parado
<1>5. KHilo(t)'
  <2>1. EnCocina(t)'
    BY <1>3, <1>4 DEF EnCocina
  <2>2. \A p \in Paginas : lock_pagina'[p] # t
    BY <1>1, SinMutex DEF ConSwap, candados
  <2> QED BY <1>4, <2>1, <2>2, HiloSuelto DEF Suelto, Busqueda
<1>6. ~ Fija(t) /\ \A q \in Paginas : t \notin Contada(q) /\ t \notin Contada(q)'
  BY <1>1, <1>4 DEF Fija, Contada
<1> QED BY <1>1, <1>4, <1>5, <1>6, PasoSinMemoria DEF tablas, candados, consola

(* The answer of a thread that has nothing to count. *)
LEMMA AcabaK ==
  ASSUME Sigue, KInv, NEW t \in Hilos, hilos[t].pc \in Suelto \ {"MARCAR"},
         hilos' = [hilos EXCEPT ![t] = Parado(hilos[t].faltan)],
         escenario' = escenario, restaurantes' = restaurantes, fallo' = fallo, mem' = mem,
         hecho' = hecho, lock_pagina' = lock_pagina
  PROVE  KInv'
<1>1. /\ hilos' [t] = Parado(hilos[t].faltan) /\ \A u \in Hilos \ {t} : hilos'[u] = hilos[u]
      /\ Candados(t)
  BY EnK, Cambia
<1>2. hilos'[t].pc = "LIBRE" /\ hilos'[t].op = "NINGUNA" /\ ~ hilos'[t].colgado
  BY <1>1 DEF Parado
<1>3. \A p \in Paginas : lock_pagina'[p] # t
  BY <1>1, SinMutex DEF ConSwap, Suelto, Busqueda
<1>4. KHilo(t)'
  <2>1. EnCocina(t)'
    BY <1>2 DEF EnCocina
  <2> QED BY <1>2, <1>3, <2>1, HiloSuelto DEF Suelto, AntesDeLeer, Busqueda, Recorrido
<1>5. ~ Fija(t) /\ \A q \in Paginas : t \notin Contada(q) /\ t \notin Contada(q)'
  BY <1>2 DEF Fija, Contada, Suelto, Busqueda
<1> QED BY <1>1, <1>4, <1>5, PasoSinMemoria

(* The next step of a thread that goes on without mutexes. *)
LEMMA SigueSueltoK ==
  ASSUME Sigue, KInv, NEW t \in Hilos, hilos[t].pc \in Busqueda,
         NEW pc \in {"BUSCAR_PEDIDO", "PROBAR_ESTADO", "CONFIRMAR", "TOMAR_SWAP"}, Ir(t, pc),
         pc = "BUSCAR_PEDIDO" => hilos[t].pedido[1] \in restaurantes,
         UNCHANGED <<tablas, mem, candados, consola, fallo>>
  PROVE  KInv'
<1>1. /\ hilos'[t] = [hilos[t] EXCEPT !.pc = pc] /\ \A u \in Hilos \ {t} : hilos'[u] = hilos[u]
      /\ hilos[t] \in Hilo /\ EnCocina(t) /\ Candados(t) /\ Foto(t)
  BY EnK, Cambia DEF Ir
<1>2. /\ hilos'[t].pc = pc /\ hilos'[t].op = hilos[t].op /\ hilos'[t].pedido = hilos[t].pedido
      /\ hilos'[t].colgado = hilos[t].colgado /\ hilos'[t].leido = hilos[t].leido
  BY <1>1 DEF Hilo
<1>3. \A p \in Paginas : lock_pagina'[p] # t
  BY <1>1, SinMutex DEF ConSwap, Busqueda, candados
<1>4. KHilo(t)'
  <2>1. EnCocina(t)'
    BY <1>1, <1>2 DEF EnCocina, tablas
  <2>2. hilos'[t].leido = {}
    BY <1>1, <1>2 DEF Foto, AntesDeLeer
  <2> QED BY <1>2, <1>3, <2>1, <2>2, HiloSuelto DEF Suelto, Busqueda
<1>5. ~ Fija(t) /\ \A q \in Paginas : t \notin Contada(q) /\ t \notin Contada(q)'
  BY <1>2 DEF Fija, Contada, Busqueda
<1> QED BY <1>1, <1>4, <1>5, PasoSinMemoria DEF tablas, candados, consola

(* The lookups and their answers. *)
LEMMA BuscarRestauranteK ==
  ASSUME Sigue, KInv, NEW t \in Hilos, BuscarRestaurante(t)
  PROVE  KInv'
<1>1. /\ hilos[t].pc = "BUSCAR_RESTAURANTE" /\ hilos[t].op # "GUARDAR_PEDIDO"
      /\ UNCHANGED <<tablas, mem, candados, fallo>>
  BY EnK DEF BuscarRestaurante, En, DeCocina
<1>2. CASE hilos[t].pedido[1] \in restaurantes
  BY <1>1, <1>2, SigueSueltoK DEF BuscarRestaurante, Busqueda
<1>3. CASE hilos[t].pedido[1] \notin restaurantes
  BY <1>1, <1>3, AcabaK DEF BuscarRestaurante, Responder, Suelto, Busqueda, tablas, candados
<1> QED BY <1>2, <1>3

(* The order is there or is not, and nobody takes it away. *)
LEMMA BuscarPedidoK ==
  ASSUME Sigue, KInv, NEW t \in Hilos, BuscarPedido(t)
  PROVE  KInv'
<1>1. /\ hilos[t].pc = "BUSCAR_PEDIDO" /\ hilos[t].pedido[1] \in restaurantes
      /\ hilos[t].op \in DeCocina
  <2>1. hilos[t].pc = "BUSCAR_PEDIDO"
    BY DEF BuscarPedido, En
  <2>2. EnCocina(t) /\ hilos[t].pc \in PasosDe(hilos[t].op)
    BY EnK
  <2> QED BY <2>1, <2>2 DEF EnCocina, PasosDe
<1>2. UNCHANGED <<tablas, mem, candados, fallo>>
  BY <1>1 DEF BuscarPedido
<1>3. \/ \E r \in Resultados : Responder(t, r) /\ UNCHANGED hecho
      \/ \E pc \in {"PROBAR_ESTADO", "TOMAR_SWAP"} : Ir(t, pc) /\ UNCHANGED consola
  BY <1>1 DEF BuscarPedido, DeCocina, Resultados
<1>4. ASSUME NEW r, Responder(t, r), UNCHANGED hecho
      PROVE  KInv'
  BY <1>1, <1>2, <1>4, AcabaK DEF Responder, Suelto, Busqueda, tablas, candados
<1>5. ASSUME NEW pc \in {"PROBAR_ESTADO", "TOMAR_SWAP"}, Ir(t, pc), UNCHANGED consola
      PROVE  KInv'
  BY <1>1, <1>2, <1>5, SigueSueltoK DEF Busqueda
<1> QED BY <1>3, <1>4, <1>5

(* Its state lets the handler go on or does not. *)
LEMMA ProbarEstadoK ==
  ASSUME Sigue, KInv, NEW t \in Hilos, ProbarEstado(t)
  PROVE  KInv'
<1>1. /\ hilos[t].pc = "PROBAR_ESTADO" /\ hilos[t].op \in {"CONFIRMAR_PEDIDO", "PLATO_LISTO"}
      /\ UNCHANGED <<tablas, mem, candados, fallo>>
  BY OpK DEF ProbarEstado, En
<1>2. CASE TrasProbar(t) \in Resultados
  BY <1>1, <1>2, AcabaK DEF ProbarEstado, Responder, Suelto, Busqueda, tablas, candados
<1>3. CASE TrasProbar(t) \notin Resultados
  <2>1. TrasProbar(t) \in {"CONFIRMAR", "TOMAR_SWAP"}
    BY <1>1, <1>3 DEF TrasProbar, Resultados
  <2>2. Ir(t, TrasProbar(t)) /\ UNCHANGED consola
    BY <1>3 DEF ProbarEstado
  <2> QED BY <1>1, <2>1, <2>2, SigueSueltoK DEF Busqueda
<1> QED BY <1>2, <1>3

(* confirmar_pedido writes the state and answers. *)
LEMMA ConfirmarK ==
  ASSUME Sigue, KInv, NEW t \in Hilos, Confirmar(t)
  PROVE  KInv'
<1>1. hilos[t].pc = "CONFIRMAR"
  BY DEF Confirmar, En
<1> QED BY <1>1, AcabaK DEF Confirmar, Responder, Suelto, candados

(* The answer of obtener_pedido. *)
LEMMA LeerEstadoK ==
  ASSUME Sigue, KInv, NEW t \in Hilos, LeerEstado(t)
  PROVE  KInv'
<1>1. hilos[t].pc = "LEER_ESTADO"
  BY DEF LeerEstado, En
<1> QED BY <1>1, AcabaK DEF LeerEstado, Suelto, tablas, candados

-----------------------------------------------------------------------------
(* The walks over the list. *)

(* The thread changes its step, where it is in the list and what it waits  *)
(* for.                                                                    *)
Anda(t, pc, cursor, espera) ==
  hilos' = [hilos EXCEPT ![t] = [@ EXCEPT !.pc = pc, !.cursor = cursor, !.espera = espera]]

(* Everything else about the threads stays. *)
LEMMA AndaBien ==
  ASSUME hilos \in [Hilos -> Hilo], NEW t \in Hilos, NEW pc, NEW cursor, NEW espera,
         Anda(t, pc, cursor, espera)
  PROVE  /\ hilos'[t].pc = pc /\ hilos'[t].cursor = cursor /\ hilos'[t].espera = espera
         /\ hilos'[t].op = hilos[t].op /\ hilos'[t].pedido = hilos[t].pedido
         /\ hilos'[t].plato = hilos[t].plato /\ hilos'[t].pendientes = hilos[t].pendientes
         /\ hilos'[t].leido = hilos[t].leido /\ hilos'[t].colgado = hilos[t].colgado
         /\ \A u \in Hilos \ {t} : hilos'[u] = hilos[u]
<1> DEFINE k == [hilos[t] EXCEPT !.pc = pc, !.cursor = cursor, !.espera = espera]
<1>1. hilos'[t] = k /\ \A u \in Hilos \ {t} : hilos'[u] = hilos[u]
  BY Cambia DEF Anda
<1>2. hilos[t] \in Hilo
  OBVIOUS
<1> QED BY <1>1, <1>2 DEF Hilo

(* The same for the two short forms. *)
LEMMA IrAnda ==
  ASSUME hilos \in [Hilos -> Hilo], NEW t \in Hilos, NEW pc
  PROVE  /\ Ir(t, pc) => Anda(t, pc, hilos[t].cursor, hilos[t].espera)
         /\ Recorrer(t, pc) => Anda(t, pc, Siguiente(0), hilos[t].espera)
<1>1. hilos[t] \in Hilo
  OBVIOUS
<1>2. [hilos[t] EXCEPT !.pc = pc] =
        [hilos[t] EXCEPT !.pc = pc, !.cursor = hilos[t].cursor, !.espera = hilos[t].espera]
  BY <1>1 DEF Hilo
<1>3. [hilos[t] EXCEPT !.pc = pc, !.cursor = Siguiente(0)] =
        [hilos[t] EXCEPT !.pc = pc, !.cursor = Siguiente(0), !.espera = hilos[t].espera]
  BY <1>1 DEF Hilo
<1> QED BY <1>2, <1>3 DEF Ir, Recorrer, Anda

(* A walk begins at the first node, or ends. *)
LEMMA PrimerNodo ==
  ASSUME mem \in MemoriasH
  PROVE  /\ Siguiente(0) = IF Len(mem.lista) > 0 THEN 1 ELSE -1
         /\ Siguiente(0) # 0
<1>1. Len(mem.lista) \in Nat
  BY LenProperties DEF MemoriasH
<1> QED BY <1>1 DEF Siguiente, FinDeLista

(* lock_swap is taken by a thread that has no mutex. *)
LEMMA TomarSwapK ==
  ASSUME Sigue, KInv, NEW t \in Hilos, TomarSwap(t)
  PROVE  KInv'
<1>1. /\ hilos[t].pc = "TOMAR_SWAP" /\ hilos[t].op \in {"OBTENER_PEDIDO", "PLATO_LISTO"}
      /\ hilos[t].camino = "NINGUNO" /\ hilos \in [Hilos -> Hilo] /\ mem \in MemoriasH
      /\ EnCocina(t) /\ Candados(t) /\ Foto(t)
  <2>1. hilos[t].pc = "TOMAR_SWAP"
    BY DEF TomarSwap, En
  <2>2. hilos[t].op \in {"OBTENER_PEDIDO", "PLATO_LISTO"}
    BY <2>1, OpK
  <2> QED BY <2>1, <2>2, EnK DEF Lugar
<1>2. Recorrer(t, "LOCKEAR") /\ UNCHANGED <<tablas, mem, lock_pagina, consola, fallo>>
  BY <1>1 DEF TomarSwap
<1>3. Anda(t, "LOCKEAR", Siguiente(0), hilos[t].espera)
  BY <1>1, <1>2, IrAnda
<1>4. \A p \in Paginas : lock_pagina'[p] # t
  BY <1>1, <1>2, SinMutex DEF ConSwap
<1>5. KHilo(t)'
  <2>1. EnCocina(t)'
    BY <1>1, <1>3, AndaBien DEF EnCocina
  <2>2. Recorre(t)'
    <3>1. \A j \in 1 .. Len(mem.lista) : mem.lista[j] \in Paginas
      BY EnK, ListaDeResidentes
    <3> QED BY <1>1, <1>2, <1>3, <1>4, <3>1, AndaBien, PrimerNodo DEF Recorre, Recorriendo, Recorrido
  <2>3. Candados(t)'
    BY <1>4 DEF Candados
  <2>4. Levantados(t)' /\ Foto(t)'
    BY <1>1, <1>3, AndaBien DEF Levantados, Fija, Foto, AntesDeLeer
  <2> QED BY <2>1, <2>2, <2>3, <2>4 DEF KHilo
<1>6. ~ Fija(t) /\ \A q \in Paginas : t \notin Contada(q) /\ t \notin Contada(q)'
  BY <1>1, <1>3, AndaBien DEF Fija, Contada
<1> QED BY <1>1, <1>2, <1>3, <1>5, <1>6, AndaBien, PasoSinMemoria DEF tablas, consola

(* The next page of the walk, or its end. *)
LEMMA LockearK ==
  ASSUME Sigue, KInv, NEW t \in Hilos, Lockear(t)
  PROVE  KInv'
<1> DEFINE h == hilos[t]
           i == h.cursor
<1>1. /\ h.pc = "LOCKEAR" /\ h.op \in {"OBTENER_PEDIDO", "PLATO_LISTO"}
      /\ hilos \in [Hilos -> Hilo] /\ mem \in MemoriasH /\ i \in -1 .. Len(mem.lista) /\ i # 0
      /\ EnCocina(t) /\ Recorre(t) /\ Candados(t) /\ Foto(t) /\ MemoriaBien(mem)
      /\ Len(mem.lista) \in Nat
  <2>1. h.pc = "LOCKEAR"
    BY DEF Lockear, En
  <2>2. h.op \in {"OBTENER_PEDIDO", "PLATO_LISTO"}
    BY <2>1, OpK DEF Recorriendo
  <2>3. MemoriaBien(mem)
    BY EnK
  <2>4. Len(mem.lista) \in Nat
    BY <2>3, ListaDeResidentes
  <2> QED BY <2>1, <2>2, <2>3, <2>4, EnK DEF Lugar, Recorre, Recorriendo
<1>2. UNCHANGED <<tablas, mem, candados, consola, fallo>>
  BY <1>1 DEF Lockear
<1>3. /\ \A j \in 1 .. Len(mem.lista) : i > 0 /\ j >= i => lock_pagina[mem.lista[j]] # t
      /\ \A j, k \in 1 .. Len(mem.lista) : mem.lista[j] = mem.lista[k] => j = k
      /\ \A j \in 1 .. Len(mem.lista) : mem.lista[j] \in Residentes(mem)
  BY <1>1, ListaDeResidentes DEF Recorre, Recorrido, MemoriaBien, ListaBien, Enumera, Residentes
<1>4. CASE i = FinDeLista
  <2>1. Anda(t, "FIJAR", i, h.espera)
    <3>1. Ir(t, "FIJAR")
      BY <1>1, <1>4 DEF Lockear
    <3> QED BY <1>1, <3>1, IrAnda
  <2>2. KHilo(t)'
    <3>1. EnCocina(t)' /\ Recorre(t)' /\ Levantados(t)' /\ Foto(t)'
      BY <1>1, <2>1, AndaBien
         DEF EnCocina, Recorre, Recorriendo, Recorrido, Levantados, Fija, Foto, AntesDeLeer
    <3>2. Candados(t)'
      BY <1>1, <1>2, <2>1, AndaBien DEF Candados, ConSwap, Residentes, candados
    <3> QED BY <3>1, <3>2 DEF KHilo
  <2>3. ~ Fija(t) /\ \A q \in Paginas : t \notin Contada(q) /\ t \notin Contada(q)'
    BY <1>1, <2>1, AndaBien DEF Fija, Contada
  <2> QED BY <1>1, <1>2, <2>1, <2>2, <2>3, AndaBien, PasoSinMemoria DEF tablas, candados, consola
<1>5. CASE i # FinDeLista
  <2>1. i \in 1 .. Len(mem.lista) /\ Siguiente(i) = IF i < Len(mem.lista) THEN i + 1 ELSE -1
    BY <1>1, <1>5 DEF FinDeLista, Siguiente
  <2>2. Anda(t, "LOCKEAR_PAGINA", Siguiente(i), mem.lista[i])
    BY <1>1, <1>5 DEF Lockear, Anda
  <2>3. KHilo(t)'
    <3>1. EnCocina(t)' /\ Levantados(t)' /\ Foto(t)'
      BY <1>1, <2>2, AndaBien DEF EnCocina, Levantados, Fija, Foto, AntesDeLeer, Recorrido
    <3>2. Candados(t)'
      BY <1>1, <1>2, <2>2, AndaBien DEF Candados, ConSwap, Residentes, candados
    <3>3. /\ hilos'[t].pc = "LOCKEAR_PAGINA" /\ hilos'[t].cursor = Siguiente(i)
          /\ hilos'[t].espera = mem.lista[i] /\ mem' = mem /\ lock_pagina' = lock_pagina
      BY <1>1, <1>2, <2>2, AndaBien DEF candados
    <3>4. Recorre(t)'
      <4> HIDE DEF i, h
      <4>1. Siguiente(i) # 0 /\ \A j \in 1 .. Len(mem.lista) : Siguiente(i) > 0 /\ j >= Siguiente(i) => j > i
        BY <1>1, <2>1
      <4>2. \A j \in 1 .. Len(mem.lista) : Siguiente(i) > 0 /\ j >= Siguiente(i) =>
              lock_pagina[mem.lista[j]] # t /\ mem.lista[j] # mem.lista[i]
        BY <1>1, <1>3, <2>1, <4>1
      <4>3. mem.lista[i] \in Residentes(mem) /\ lock_pagina[mem.lista[i]] # t
        BY <1>1, <1>3, <2>1
      <4> QED BY <3>3, <4>1, <4>2, <4>3 DEF Recorre, Recorriendo, Recorrido, Residentes
    <3> QED BY <3>1, <3>2, <3>4 DEF KHilo
  <2>4. ~ Fija(t) /\ \A q \in Paginas : t \notin Contada(q) /\ t \notin Contada(q)'
    BY <1>1, <2>2, AndaBien DEF Fija, Contada
  <2> QED BY <1>1, <1>2, <2>2, <2>3, <2>4, AndaBien, PasoSinMemoria DEF tablas, candados, consola
<1> QED BY <1>4, <1>5

(* The mutex of a page of the list. *)
LEMMA LockearPaginaK ==
  ASSUME Sigue, KInv, NEW t \in Hilos, LockearPagina(t)
  PROVE  KInv'
<1> DEFINE h == hilos[t]
           p == h.espera
<1>1. /\ h.pc = "LOCKEAR_PAGINA" /\ h.op \in {"OBTENER_PEDIDO", "PLATO_LISTO"} /\ ConSwap(t)
      /\ hilos \in [Hilos -> Hilo] /\ lock_pagina \in [Paginas -> Hilos \cup {Nadie}]
      /\ EnCocina(t) /\ Recorre(t) /\ Candados(t) /\ Foto(t) /\ MemoriaBien(mem)
  <2>1. h.pc = "LOCKEAR_PAGINA"
    BY DEF LockearPagina, En
  <2> QED BY <2>1, OpK, EnK DEF Recorriendo, ConSwap, TiposH
<1>2. /\ lock_pagina' = [lock_pagina EXCEPT ![p] = t] /\ lock_pagina[p] = Nadie
      /\ UNCHANGED <<tablas, mem, lock_swap, consola, fallo>>
  BY DEF LockearPagina
<1>3. Anda(t, "LOCKEAR", h.cursor, NingunaPagina)
  <2>1. [h EXCEPT !.pc = "LOCKEAR", !.espera = NingunaPagina] =
          [h EXCEPT !.pc = "LOCKEAR", !.cursor = h.cursor, !.espera = NingunaPagina]
    BY <1>1 DEF Hilo
  <2> QED BY <2>1 DEF LockearPagina, Anda
<1>4. /\ p \in Residentes(mem) /\ h.cursor # 0 /\ Residentes(mem) \subseteq Paginas
      /\ \A j \in 1 .. Len(mem.lista) : h.cursor > 0 /\ j >= h.cursor =>
           lock_pagina[mem.lista[j]] # t /\ mem.lista[j] # p /\ mem.lista[j] \in Paginas
  BY <1>1, ListaDeResidentes DEF Recorre, Recorriendo, Recorrido, Residentes
<1>5. /\ lock_pagina'[p] = t
      /\ \A q \in Paginas : q # p => lock_pagina'[q] = lock_pagina[q]
  BY <1>1, <1>2, <1>4
<1>6. KHilo(t)'
  <2>1. EnCocina(t)' /\ Levantados(t)' /\ Foto(t)'
    BY <1>1, <1>3, AndaBien DEF EnCocina, Levantados, Fija, Foto, AntesDeLeer, Recorrido
  <2>2. Candados(t)'
    BY <1>1, <1>2, <1>3, <1>4, <1>5, AndaBien DEF Candados, ConSwap, Residentes
  <2>3. Recorre(t)'
    <3>1. hilos'[t].pc = "LOCKEAR" /\ hilos'[t].cursor = h.cursor /\ mem' = mem
      BY <1>1, <1>2, <1>3, AndaBien
    <3>2. \A j \in 1 .. Len(mem.lista) : h.cursor > 0 /\ j >= h.cursor => lock_pagina'[mem.lista[j]] # t
      BY <1>4, <1>5
    <3> QED BY <1>4, <3>1, <3>2 DEF Recorre, Recorriendo, Recorrido
  <2> QED BY <2>1, <2>2, <2>3 DEF KHilo
<1>7. ~ Fija(t) /\ \A q \in Paginas : t \notin Contada(q) /\ t \notin Contada(q)'
  BY <1>1, <1>3, AndaBien DEF Fija, Contada
<1> QED BY <1>1, <1>2, <1>3, <1>5, <1>6, <1>7, AndaBien, PasoSinMemoria DEF tablas, consola

(* The mutex of the page that a swap has brought in. *)
LEMMA LockearLevantadaK ==
  ASSUME Sigue, KInv, NEW t \in Hilos, LockearLevantada(t)
  PROVE  KInv'
<1> DEFINE h == hilos[t]
           p == h.espera
<1>1. /\ h.pc = "LOCKEAR_LEVANTADA" /\ h.op \in {"OBTENER_PEDIDO", "PLATO_LISTO"} /\ ConSwap(t)
      /\ hilos \in [Hilos -> Hilo] /\ lock_pagina \in [Paginas -> Hilos \cup {Nadie}]
      /\ EnCocina(t) /\ Recorre(t) /\ Candados(t) /\ Levantados(t) /\ Foto(t)
  <2>1. h.pc = "LOCKEAR_LEVANTADA"
    BY DEF LockearLevantada, En
  <2> QED BY <2>1, OpK, EnK DEF ConSwap, TiposH
<1>2. /\ lock_pagina' = [lock_pagina EXCEPT ![p] = t] /\ lock_pagina[p] = Nadie
      /\ UNCHANGED <<tablas, mem, lock_swap, consola, fallo>>
  BY DEF LockearLevantada
<1>3. Anda(t, "LEVANTAR", h.cursor, NingunaPagina)
  <2>1. [h EXCEPT !.pc = "LEVANTAR", !.espera = NingunaPagina] =
          [h EXCEPT !.pc = "LEVANTAR", !.cursor = h.cursor, !.espera = NingunaPagina]
    BY <1>1 DEF Hilo
  <2> QED BY <2>1 DEF LockearLevantada, Anda
<1>4. p \in Residentes(mem) /\ Residentes(mem) \subseteq Paginas
  BY <1>1 DEF Recorre, Residentes
<1>5. /\ lock_pagina'[p] = t
      /\ \A q \in Paginas : q # p => lock_pagina'[q] = lock_pagina[q]
  BY <1>1, <1>2, <1>4
<1>6. KHilo(t)'
  <2>1. EnCocina(t)' /\ Recorre(t)' /\ Foto(t)'
    BY <1>1, <1>3, AndaBien DEF EnCocina, Recorre, Recorriendo, Recorrido, Foto, AntesDeLeer
  <2>2. Levantados(t)'
    BY <1>1, <1>2, <1>3, AndaBien DEF Levantados, Fija, PlatosDelPedido
  <2>3. Candados(t)'
    BY <1>1, <1>2, <1>3, <1>4, <1>5, AndaBien DEF Candados, ConSwap, Residentes
  <2> QED BY <2>1, <2>2, <2>3 DEF KHilo
<1>7. /\ Fija(t)' /\ hilos'[t].pedido = h.pedido
      /\ \A q \in Paginas : t \notin Contada(q) /\ t \notin Contada(q)'
  BY <1>1, <1>3, AndaBien DEF Fija, Contada
<1> QED BY <1>1, <1>2, <1>3, <1>5, <1>6, <1>7, AndaBien, PasoSinMemoria DEF tablas, consola

(* The walk that unlocks the list, and its end. *)
LEMMA UnlockearK ==
  ASSUME Sigue, KInv, NEW t \in Hilos, Unlockear(t)
  PROVE  KInv'
<1> DEFINE h == hilos[t]
           i == h.cursor
<1>1. /\ h.pc = "UNLOCKEAR" /\ h.op \in {"OBTENER_PEDIDO", "PLATO_LISTO"}
      /\ hilos \in [Hilos -> Hilo] /\ lock_pagina \in [Paginas -> Hilos \cup {Nadie}]
      /\ i \in -1 .. Len(mem.lista) /\ i # 0
      /\ EnCocina(t) /\ Candados(t) /\ MemoriaBien(mem)
      /\ Len(mem.lista) \in Nat
  <2>1. h.pc = "UNLOCKEAR"
    BY DEF Unlockear, En
  <2>2. h.op \in {"OBTENER_PEDIDO", "PLATO_LISTO"}
    BY <2>1, OpK DEF Recorriendo
  <2>3. MemoriaBien(mem)
    BY EnK
  <2>4. Len(mem.lista) \in Nat
    BY <2>3, ListaDeResidentes
  <2> QED BY <2>1, <2>2, <2>3, <2>4, EnK DEF Lugar, Recorre, Recorriendo, TiposH
<1>2. UNCHANGED <<tablas, mem, consola, fallo>>
  BY <1>1 DEF Unlockear
<1>3. CASE i # FinDeLista
  <2>1. i \in 1 .. Len(mem.lista) /\ Siguiente(i) = IF i < Len(mem.lista) THEN i + 1 ELSE -1
    BY <1>1, <1>3 DEF FinDeLista, Siguiente
  <2>2. lock_pagina' = [lock_pagina EXCEPT ![mem.lista[i]] = Nadie]
    BY <1>1, <1>3 DEF Unlockear
  <2>3. Anda(t, "UNLOCKEAR", Siguiente(i), h.espera)
    <3>1. [h EXCEPT !.cursor = Siguiente(i)] =
            [h EXCEPT !.pc = "UNLOCKEAR", !.cursor = Siguiente(i), !.espera = h.espera]
      BY <1>1 DEF Hilo
    <3>2. hilos' = [hilos EXCEPT ![t].cursor = Siguiente(i)]
      BY <1>1, <1>3 DEF Unlockear
    <3> QED BY <3>1, <3>2 DEF Anda
  <2>4. /\ hilos'[t].pc = "UNLOCKEAR" /\ hilos'[t].cursor = Siguiente(i)
        /\ hilos'[t].op = h.op /\ hilos'[t].pedido = h.pedido /\ hilos'[t].plato = h.plato
        /\ hilos'[t].colgado = h.colgado
        /\ \A u \in Hilos \ {t} : hilos'[u] = hilos[u]
    BY <1>1, <2>3, AndaBien
  <2>5. \A q \in Paginas : /\ lock_pagina'[q] = lock_pagina[q] \/ lock_pagina'[q] = Nadie
                           /\ lock_pagina'[q] = t => q # mem.lista[i] /\ lock_pagina[q] = t
    BY <1>1, <2>2, NadieAssumption
  <2>6. KHilo(t)'
    <3>1. EnCocina(t)' /\ Levantados(t)' /\ Foto(t)'
      BY <1>1, <2>4 DEF EnCocina, Levantados, Fija, Foto, AntesDeLeer, Recorrido, Busqueda
    <3>2. Recorre(t)'
      <4>1. Siguiente(i) # 0
        BY <2>1
      <4> QED BY <2>4, <4>1 DEF Recorre, Recorriendo, Recorrido
    <3>3. Candados(t)'
      <4> SUFFICES ASSUME NEW q \in Paginas, lock_pagina'[q] = t
                   PROVE  /\ q \in Residentes(mem)'
                          /\ \E j \in 1 .. Len(mem'.lista) :
                               mem'.lista[j] = q /\ hilos'[t].cursor > 0 /\ hilos'[t].cursor <= j
        BY <2>4 DEF Candados
      <4>1. PICK j \in 1 .. Len(mem.lista) : mem.lista[j] = q /\ i <= j
        BY <1>1, <2>5 DEF Candados
      <4>2. q \in Residentes(mem) /\ j # i
        BY <1>1, <2>5, <4>1 DEF Candados
      <4>3. Siguiente(i) > 0 /\ Siguiente(i) <= j
        BY <1>1, <2>1, <4>1, <4>2
      <4> QED BY <1>2, <2>4, <4>1, <4>2, <4>3 DEF Residentes
    <3> QED BY <3>1, <3>2, <3>3 DEF KHilo
  <2>7. ~ Fija(t) /\ \A q \in Paginas : t \in Contada(q)' <=> t \in Contada(q)
    BY <1>1, <2>4 DEF Fija, Contada, Pagina
  <2> QED BY <1>1, <1>2, <2>4, <2>5, <2>6, <2>7, PasoSinMemoria DEF tablas, consola
<1>4. CASE i = FinDeLista
  <2> DEFINE pc == IF h.op = "PLATO_LISTO" THEN "MARCAR" ELSE "LEER_ESTADO"
  <2>1. Ir(t, pc) /\ UNCHANGED lock_pagina
    BY <1>1, <1>4 DEF Unlockear, FinDeLista
  <2>2. Anda(t, pc, i, h.espera)
    BY <1>1, <2>1, IrAnda
  <2>3. /\ hilos'[t].pc = pc
        /\ hilos'[t].op = h.op /\ hilos'[t].pedido = h.pedido /\ hilos'[t].plato = h.plato
        /\ hilos'[t].colgado = h.colgado
        /\ \A u \in Hilos \ {t} : hilos'[u] = hilos[u]
    BY <1>1, <2>2, AndaBien
  <2>4. \A q \in Paginas : lock_pagina[q] # t
    BY <1>1, <1>4 DEF Candados, FinDeLista
  <2>5. KHilo(t)'
    <3>1. EnCocina(t)'
      BY <1>1, <2>3 DEF EnCocina
    <3> QED BY <2>1, <2>3, <2>4, <3>1, HiloSuelto DEF Suelto, AntesDeLeer, Busqueda, Recorrido
  <2>6. ~ Fija(t) /\ \A q \in Paginas : t \in Contada(q)' <=> t \in Contada(q)
    BY <1>1, <2>3 DEF Fija, Contada, Pagina
  <2> QED BY <1>1, <1>2, <2>1, <2>3, <2>5, <2>6, PasoSinMemoria DEF tablas, consola
<1> QED BY <1>3, <1>4

-----------------------------------------------------------------------------
(* Raising the order. *)

(* Every dish was raised; none is read yet. *)
LEMMA LevantadasK ==
  ASSUME Sigue, KInv, NEW t \in Hilos, Levantadas(t)
  PROVE  KInv'
<1> DEFINE h == hilos[t]
           pc == IF h.op = "OBTENER_PEDIDO" THEN "ENLISTAR" ELSE "SUMAR_LISTA"
           k == [h EXCEPT !.pendientes = PlatosDelPedido(t), !.pc = pc]
<1>1. /\ h.pc = "LEVANTAR" /\ h.pendientes = {} /\ ConSwap(t)
      /\ hilos \in [Hilos -> Hilo] /\ h \in Hilo
      /\ EnCocina(t) /\ Candados(t) /\ Levantados(t) /\ Foto(t)
      /\ UNCHANGED <<tablas, mem, candados, consola, fallo>>
  <2>1. h.pc = "LEVANTAR" /\ h.pendientes = {} /\ UNCHANGED <<tablas, mem, candados, consola, fallo>>
    BY DEF Levantadas, En
  <2> QED BY <2>1, EnK DEF ConSwap
<1>2. hilos' = [hilos EXCEPT ![t] = k]
  BY <1>1 DEF Levantadas
<1>3. /\ hilos'[t].pc = pc /\ hilos'[t].pendientes = PlatosDelPedido(t)
      /\ hilos'[t].op = h.op /\ hilos'[t].pedido = h.pedido /\ hilos'[t].leido = h.leido
      /\ hilos'[t].colgado = h.colgado
      /\ \A u \in Hilos \ {t} : hilos'[u] = hilos[u]
  <2>1. hilos'[t] = k /\ \A u \in Hilos \ {t} : hilos'[u] = hilos[u]
    BY <1>1, <1>2, Cambia
  <2> QED BY <1>1, <2>1 DEF Hilo
<1>4. KHilo(t)'
  <2>1. EnCocina(t)' /\ Recorre(t)'
    BY <1>1, <1>3 DEF EnCocina, Recorre, Recorriendo, Recorrido
  <2>2. Candados(t)'
    BY <1>1, <1>3 DEF Candados, ConSwap, Residentes, candados
  <2>3. Levantados(t)'
    BY <1>1, <1>3 DEF Levantados, Fija, PlatosDelPedido
  <2>4. Foto(t)'
    <3>1. h.leido = {}
      BY <1>1 DEF Foto, AntesDeLeer
    <3>2. Lectura(t)' = {}
      BY <1>1, <1>3 DEF Lectura, PlatosDelPedido
    <3> QED BY <1>3, <3>1, <3>2 DEF Foto, AntesDeLeer, Busqueda, Recorrido
  <2> QED BY <2>1, <2>2, <2>3, <2>4 DEF KHilo
<1>5. /\ Fija(t)' /\ hilos'[t].pedido = h.pedido
      /\ \A q \in Paginas : t \notin Contada(q) /\ t \notin Contada(q)'
  BY <1>1, <1>3 DEF Fija, Contada
<1> QED BY <1>1, <1>3, <1>4, <1>5, PasoSinMemoria DEF tablas, candados, consola

(* A step with lock_swap that changes bits or contents of pages and leaves *)
(* them, and the mutexes, where they are.                                  *)
LEMMA AjenoQuieto ==
  ASSUME Sigue, NEW t \in Hilos, ConSwap(t), \A u \in Hilos \ {t} : hilos'[u] = hilos[u],
         lock_pagina' = lock_pagina, mem'.lista = mem.lista,
         \A q \in Paginas : mem'.paginas[q].presencia = mem.paginas[q].presencia
  PROVE  /\ \A u \in Hilos \ {t} : Ajeno(t, u)
         /\ Candados(t) /\ ConSwap(t)' /\ hilos'[t].pc # "UNLOCKEAR" => Candados(t)'
<1>1. Residentes(mem)' = Residentes(mem)
  BY DEF Residentes
<1> QED BY <1>1 DEF Ajeno, Candados

(* The list and the resident pages of a memory with other bits. *)
LEMMA ListaTrasBits ==
  ASSUME NEW m, NEW S, NEW valor
  PROVE  /\ poner_bit_de_lockeo(m, S, valor).lista = m.lista
         /\ paginas_leidas(m, S).lista = m.lista
BY DEF poner_bit_de_lockeo, paginas_leidas

(* What is pinned is of the order of the thread with lock_swap. *)
LEMMA FijadasDe ==
  ASSUME Sigue, Fijadas, NEW t \in Hilos, ConSwap(t), NEW q \in Paginas, mem.paginas[q].lockeo
  PROVE  Fija(t) /\ q[1] = hilos[t].pedido /\ tiene_pagina(mem, q)
<1>1. PICK u \in Hilos : Fija(u) /\ q[1] = hilos[u].pedido
  BY DEF Fijadas
<1>2. u = t
  BY <1>1, FijaConSwap, UnoConSwap
<1> QED BY <1>1, <1>2 DEF Fijadas

(* The order is pinned. *)
LEMMA FijarK ==
  ASSUME Sigue, KInv, NEW t \in Hilos, Fijar(t)
  PROVE  KInv'
<1> DEFINE h == hilos[t]
           S == PaginasDe(mem, h.pedido)
           k == [h EXCEPT !.pendientes = PlatosDelPedido(t), !.pc = "LEVANTAR"]
<1>1. /\ h.pc = "FIJAR" /\ h.op \in {"OBTENER_PEDIDO", "PLATO_LISTO"} /\ h.pedido \in Pedidos
      /\ ConSwap(t) /\ ~ Fija(t)
      /\ hilos \in [Hilos -> Hilo] /\ h \in Hilo
      /\ EnCocina(t) /\ Candados(t) /\ Foto(t) /\ MemoriaBien(mem) /\ Fijadas /\ Cuentas
  <2>1. h.pc = "FIJAR"
    BY DEF Fijar, En
  <2> QED BY <2>1, OpK, EnK DEF ConSwap, Fija, Lugar
<1>2. /\ mem' = poner_bit_de_lockeo(mem, S, TRUE)
      /\ hilos' = [hilos EXCEPT ![t] = k]
      /\ UNCHANGED <<tablas, candados, consola, fallo>>
  BY <1>1 DEF Fijar
<1>3. /\ hilos'[t].pc = "LEVANTAR" /\ hilos'[t].pendientes = PlatosDelPedido(t)
      /\ hilos'[t].op = h.op /\ hilos'[t].pedido = h.pedido /\ hilos'[t].leido = h.leido
      /\ hilos'[t].colgado = h.colgado
      /\ \A u \in Hilos \ {t} : hilos'[u] = hilos[u]
  <2>1. hilos'[t] = k /\ \A u \in Hilos \ {t} : hilos'[u] = hilos[u]
    BY <1>1, <1>2, Cambia
  <2> QED BY <1>1, <2>1 DEF Hilo
<1>4. /\ MemoriaBien(mem)' /\ mem'.lista = mem.lista /\ MismoContenido(mem, mem')
      /\ \A q \in Paginas : /\ mem'.paginas[q].frame_mv = mem.paginas[q].frame_mv
                            /\ mem'.paginas[q].presencia = mem.paginas[q].presencia
                            /\ mem'.paginas[q].lockeo <=> q \in S \/ mem.paginas[q].lockeo
  BY <1>1, <1>2, FijarBien, ListaTrasBits, LockeoContenido
<1>5. MismasPaginas(mem, mem') /\ PlatosDelPedido(t)' = PlatosDelPedido(t)
  <2>1. MismasPaginas(mem, mem')
    BY <1>4 DEF MismasPaginas, tiene_pagina
  <2> QED BY <1>1, <1>3, <2>1, MismasTablas DEF PlatosDelPedido
<1>6. /\ \A u \in Hilos \ {t} : Ajeno(t, u)
      /\ Candados(t)'
  BY <1>1, <1>2, <1>3, <1>4, AjenoQuieto DEF ConSwap, candados
<1>7. KHilo(t)'
  <2>1. EnCocina(t)' /\ Recorre(t)' /\ Foto(t)'
    BY <1>1, <1>3 DEF EnCocina, Recorre, Recorriendo, Recorrido, Foto, AntesDeLeer
  <2>2. Levantados(t)'
    <3> SUFFICES ASSUME NEW d \in PlatosDelPedido(t)
                 PROVE  mem'.paginas[<<h.pedido, d>>].lockeo
      BY <1>3, <1>5 DEF Levantados
    <3>1. <<h.pedido, d>> \in S /\ <<h.pedido, d>> \in Paginas
      BY <1>1, PaginaDePar DEF PaginasDe, PlatosDelPedido, tabla_de_platos
    <3> QED BY <1>4, <3>1
  <2> QED BY <1>6, <2>1, <2>2 DEF KHilo
<1>8. Fijadas'
  <2> SUFFICES ASSUME NEW q \in Paginas, mem'.paginas[q].lockeo
               PROVE  tiene_pagina(mem', q) /\ \E u \in Hilos : Fija(u)' /\ q[1] = hilos'[u].pedido
    BY DEF Fijadas
  <2>1. q \in S
    BY <1>1, <1>4, FijadasDe
  <2>2. q[1] = h.pedido /\ tiene_pagina(mem', q)
    BY <1>1, <1>5, <2>1, PaginasDelPedido DEF MismasPaginas
  <2>3. Fija(t)'
    BY <1>3 DEF Fija
  <2> QED BY <1>3, <2>2, <2>3
<1>9. Cuentas'
  <2>1. \A q \in Paginas : t \notin Contada(q) /\ t \notin Contada(q)'
    BY <1>1, <1>3 DEF Contada
  <2> QED BY <1>1, <1>2, <1>3, <1>4, <2>1, CuentasIguales DEF consola
<1> QED BY <1>2, <1>4, <1>5, <1>6, <1>7, <1>8, <1>9, PasoDeCocina DEF tablas

(* The page that is not resident is not in the list: nothing leaves it and *)
(* the page goes last.                                                     *)
LEMMA CargaLista ==
  ASSUME NEW m, MemoriaBien(m), NEW p \in Paginas, tiene_pagina(m, p), ~ m.paginas[p].presencia,
         NEW f \in FramesMP
  PROVE  /\ \A i \in 1 .. Len(m.lista) : m.paginas[m.lista[i]].frame_mv # m.paginas[p].frame_mv
         /\ cargar_en_frame(m, p, f).lista = Append(m.lista, p)
<1> DEFINE s == [m EXCEPT !.bitmap_mp[f] = TRUE, !.mp[f] = m.mv[m.paginas[p].frame_mv]]
           n == pagina_levantada(s, p, f)
<1>1. \A i \in 1 .. Len(m.lista) : m.paginas[m.lista[i]].frame_mv # m.paginas[p].frame_mv
  BY ListaDeResidentes DEF MemoriaBien, FramesBien, tiene_pagina
<1>3. n.lista = m.lista
  BY DEF pagina_levantada
<1>4. \A q \in Paginas : n.paginas[q].frame_mv = m.paginas[q].frame_mv
  BY DEF pagina_levantada, MemoriaBien, Memorias, Info, InfoPagina
<1> HIDE DEF n
<1>5. \A i \in 1 .. Len(n.lista) : n.paginas[n.lista[i]].frame_mv # n.paginas[p].frame_mv
  BY <1>1, <1>3, <1>4, ListaDeResidentes
<1>6. SacarDeLista(n, p) = n.lista
  BY <1>5 DEF SacarDeLista, RemoveFirstMatch
<1>7. agregar_a_lista_de_swapeo(n, p, "CARGA").lista = Append(SacarDeLista(n, p), p)
  BY DEF agregar_a_lista_de_swapeo
<1> QED BY <1>1, <1>3, <1>6, <1>7 DEF cargar_en_frame, n

(* With the clock the page takes the place of the victim. *)
LEMMA SwapLista ==
  ASSUME NEW m, NEW p
  PROVE  swap(m, p).lista = ReplaceAt(m.lista, Eleccion(m).pos, p)
<1> DEFINE e == Eleccion(m)
           v == m.lista[e.pos]
           f == m.paginas[v].frame_mp
           r == ReemplazarEnLista(m, p, e)
           s == Sincronizar(r, v)
           c == [s EXCEPT !.mp[f] = m.mv[m.paginas[p].frame_mv]]
           l == pagina_levantada(c, p, f)
<1>1. r.lista = ReplaceAt(m.lista, e.pos, p)
  BY RelojAssumption DEF ReemplazarEnLista
<1>2. s.lista = r.lista
  BY DEF Sincronizar
<1>3. c.lista = s.lista
  OBVIOUS
<1>4. l.lista = c.lista
  BY DEF pagina_levantada
<1>5. DejarFrame(l, v).lista = l.lista
  BY DEF DejarFrame
<1> QED BY <1>1, <1>2, <1>3, <1>4, <1>5 DEF swap

(* What is known of the thread and of the page it raises. *)
LEMMA AntesDeLevantar ==
  ASSUME Sigue, KInv, NEW t \in Hilos, hilos[t].pc = "LEVANTAR", NEW d \in hilos[t].pendientes
  PROVE  LET p == <<hilos[t].pedido, d>>
         IN  /\ hilos[t].op \in {"OBTENER_PEDIDO", "PLATO_LISTO"} /\ hilos[t].pedido \in Pedidos
             /\ d \in Platos /\ d \in PlatosDelPedido(t)
             /\ p \in Paginas /\ p[1] = hilos[t].pedido /\ tiene_pagina(mem, p)
             /\ ConSwap(t) /\ Fija(t) /\ MemoriaBien(mem)
<1>1. /\ hilos[t].op \in {"OBTENER_PEDIDO", "PLATO_LISTO"} /\ hilos[t].pedido \in Pedidos
      /\ d \in PlatosDelPedido(t) /\ ConSwap(t) /\ Fija(t)
  BY OpK, EnK DEF Lugar, Vivas, Pasada, ConSwap, Fija
<1>2. d \in Platos /\ tiene_pagina(mem, <<hilos[t].pedido, d>>)
  BY <1>1 DEF PlatosDelPedido, tabla_de_platos
<1> QED BY <1>1, <1>2, PaginaDePar, EnK

(* One dish more is resident; the others that are pinned still are.        *)
LEMMA LevantarDespues ==
  ASSUME Sigue, KInv, NEW t \in Hilos, hilos[t].pc = "LEVANTAR", NEW d \in hilos[t].pendientes,
         escenario' = escenario, restaurantes' = restaurantes, fallo' = fallo, hecho' = hecho,
         MemoriaBien(mem)', Conserva(mem, mem'),
         mem'.paginas[<<hilos[t].pedido, d>>].presencia,
         \A u \in Hilos \ {t} : hilos'[u] = hilos[u],
         hilos'[t].pc \in {"LEVANTAR", "LOCKEAR_LEVANTADA"},
         hilos'[t].pendientes = hilos[t].pendientes \ {d},
         hilos'[t].op = hilos[t].op, hilos'[t].pedido = hilos[t].pedido,
         hilos'[t].leido = hilos[t].leido, hilos'[t].colgado = hilos[t].colgado,
         \A u \in Hilos \ {t} : Ajeno(t, u), Candados(t)', Recorre(t)'
  PROVE  KInv'
<1> DEFINE h == hilos[t]
<1>1. /\ h.pedido \in Pedidos /\ Fija(t)
      /\ Fijadas /\ Cuentas /\ EnCocina(t) /\ Levantados(t) /\ Foto(t)
  BY AntesDeLevantar, EnK
<1>2. MismoContenido(mem, mem') /\ MismasPaginas(mem, mem')
  BY ConservaContenido DEF Conserva, MismasPaginas, tiene_pagina
<1>3. PlatosDelPedido(t)' = PlatosDelPedido(t)
  BY <1>1, <1>2, MismasTablas DEF PlatosDelPedido
<1>4. KHilo(t)'
  <2>1. EnCocina(t)' /\ Foto(t)'
    BY <1>1 DEF EnCocina, Foto, AntesDeLeer
  <2>2. Levantados(t)'
    <3> SUFFICES ASSUME NEW g \in PlatosDelPedido(t)
                 PROVE  LET i == mem'.paginas[<<h.pedido, g>>]
                        IN  i.lockeo /\ (g \notin h.pendientes \ {d} => i.presencia)
      BY <1>3 DEF Levantados
    <3>1. <<h.pedido, g>> \in Paginas
      BY <1>1, PaginaDePar DEF PlatosDelPedido, tabla_de_platos
    <3>2. LET i == mem.paginas[<<h.pedido, g>>]
          IN  i.lockeo /\ (g \notin h.pendientes => i.presencia)
      BY <1>1 DEF Levantados
    <3> QED BY <3>1, <3>2 DEF Conserva
  <2> QED BY <2>1, <2>2 DEF KHilo
<1>5. Fija(t)' /\ \A q \in Paginas : mem'.paginas[q].lockeo = mem.paginas[q].lockeo
  BY DEF Fija, Conserva
<1>6. Fijadas'
  BY <1>1, <1>2, <1>5, FijadasIguales
<1>7. Cuentas'
  <2>1. \A q \in Paginas : t \notin Contada(q) /\ t \notin Contada(q)'
    BY DEF Contada
  <2> QED BY <1>1, <1>2, <2>1, CuentasIguales
<1> QED BY <1>2, <1>4, <1>6, <1>7, PasoDeCocina

(* A resident page is only marked as used. *)
LEMMA UsarBien ==
  ASSUME NEW m, MemoriaBien(m), NEW p \in Paginas
  PROVE  LET n == [m EXCEPT !.paginas[p].uso = TRUE]
         IN  /\ MemoriaBien(n) /\ Conserva(m, n) /\ n.lista = m.lista
             /\ \A q \in Paginas : n.paginas[q].presencia = m.paginas[q].presencia
<1> DEFINE t == [m.paginas EXCEPT ![p] = [@ EXCEPT !.uso = TRUE]]
           n == [m EXCEPT !.paginas = t]
<1>1. m.paginas \in [Paginas -> Info] /\ m \in Memorias
  BY DEF MemoriaBien, Memorias
<1>2. /\ t \in [Paginas -> Info]
      /\ \A q \in Paginas : /\ t[q].frame_mv = m.paginas[q].frame_mv
                            /\ t[q].frame_mp = m.paginas[q].frame_mp
                            /\ t[q].presencia = m.paginas[q].presencia
                            /\ t[q].modificacion = m.paginas[q].modificacion
                            /\ t[q].lockeo = m.paginas[q].lockeo
  BY <1>1 DEF Info, InfoPagina
<1>3. [m EXCEPT !.paginas[p].uso = TRUE] = n
  BY <1>1 DEF Memorias
<1> HIDE DEF t
<1>4. MemoriaBien(n) /\ n.paginas = t /\ \A q \in Paginas : tiene_pagina(m, q) => Valor(n, q) = Valor(m, q)
  BY <1>2, SoloBits
<1>5. n.lista = m.lista
  OBVIOUS
<1> HIDE DEF n
<1>6. Conserva(m, n)
  BY <1>2, <1>4 DEF Conserva
<1> QED BY <1>2, <1>3, <1>4, <1>5, <1>6

(* The threads after one of them visits a dish.                            *)
LEMMA TrasVisita ==
  ASSUME Sigue, NEW t \in Hilos, NEW d
  PROVE  LET v == Visitado(t, d)
         IN  /\ v \in [Hilos -> Hilo] /\ v[t].pc = hilos[t].pc
             /\ v[t].pendientes = hilos[t].pendientes \ {d}
             /\ v[t].op = hilos[t].op /\ v[t].pedido = hilos[t].pedido /\ v[t].plato = hilos[t].plato
             /\ v[t].leido = hilos[t].leido /\ v[t].colgado = hilos[t].colgado
             /\ \A u \in Hilos \ {t} : v[u] = hilos[u]
<1> DEFINE k == [hilos[t] EXCEPT !.pendientes = hilos[t].pendientes \ {d}]
<1>1. hilos \in [Hilos -> Hilo] /\ hilos[t] \in Hilo
  BY Donde
<1>2. /\ k \in Hilo /\ k.pc = hilos[t].pc /\ k.pendientes = hilos[t].pendientes \ {d}
      /\ k.op = hilos[t].op /\ k.pedido = hilos[t].pedido /\ k.plato = hilos[t].plato
      /\ k.leido = hilos[t].leido /\ k.colgado = hilos[t].colgado
  BY <1>1 DEF Hilo
<1>3. Visitado(t, d) = [hilos EXCEPT ![t] = k]
  BY DEF Visitado
<1> HIDE DEF k
<1> QED BY <1>1, <1>2, <1>3

(* And goes to lock the page that a swap has brought in. *)
LEMMA TrasVisitaCon ==
  ASSUME Sigue, NEW t \in Hilos, NEW d \in hilos[t].pendientes
  PROVE  LET p == <<hilos[t].pedido, d>>
             w == [Visitado(t, d) EXCEPT ![t].pc = "LOCKEAR_LEVANTADA", ![t].espera = p]
         IN  /\ w[t].pc = "LOCKEAR_LEVANTADA" /\ w[t].espera = p
             /\ w[t].pendientes = hilos[t].pendientes \ {d}
             /\ w[t].op = hilos[t].op /\ w[t].pedido = hilos[t].pedido
             /\ w[t].leido = hilos[t].leido /\ w[t].colgado = hilos[t].colgado
             /\ \A u \in Hilos \ {t} : w[u] = hilos[u]
<1> DEFINE p == <<hilos[t].pedido, d>>
           v == Visitado(t, d)
           k == v[t]
           l == [k EXCEPT !.pc = "LOCKEAR_LEVANTADA", !.espera = p]
           w == [v EXCEPT ![t].pc = "LOCKEAR_LEVANTADA", ![t].espera = p]
<1>1. /\ v \in [Hilos -> Hilo] /\ k \in Hilo
      /\ k.pendientes = hilos[t].pendientes \ {d}
      /\ k.op = hilos[t].op /\ k.pedido = hilos[t].pedido
      /\ k.leido = hilos[t].leido /\ k.colgado = hilos[t].colgado
      /\ \A u \in Hilos \ {t} : v[u] = hilos[u]
  BY TrasVisita
<1> HIDE DEF v
<1>2. w[t] = l /\ \A u \in Hilos \ {t} : w[u] = v[u]
  BY <1>1
<1>3. l.pc = "LOCKEAR_LEVANTADA" /\ l.espera = p /\ l.pendientes = k.pendientes /\ l.op = k.op
      /\ l.pedido = k.pedido /\ l.leido = k.leido /\ l.colgado = k.colgado
  BY <1>1 DEF Hilo
<1> HIDE DEF w, l, k
<1> QED BY <1>1, <1>2, <1>3 DEF v, w

(* A page that is in main memory already. *)
LEMMA LevantarPresenteK ==
  ASSUME Sigue, KInv, NEW t \in Hilos, hilos[t].pc = "LEVANTAR", NEW d \in hilos[t].pendientes,
         mem.paginas[<<hilos[t].pedido, d>>].presencia,
         mem' = [mem EXCEPT !.paginas[<<hilos[t].pedido, d>>].uso = TRUE],
         hilos' = Visitado(t, d),
         UNCHANGED <<tablas, candados, consola, fallo>>
  PROVE  KInv'
<1> DEFINE h == hilos[t]
           p == <<h.pedido, d>>
<1>1. /\ hilos'[t].pc = "LEVANTAR"
      /\ hilos'[t].pendientes = h.pendientes \ {d}
      /\ hilos'[t].op = h.op /\ hilos'[t].pedido = h.pedido
      /\ hilos'[t].leido = h.leido /\ hilos'[t].colgado = h.colgado
      /\ \A u \in Hilos \ {t} : hilos'[u] = hilos[u]
  BY TrasVisita
<1>2. /\ p \in Paginas /\ ConSwap(t) /\ MemoriaBien(mem) /\ Candados(t)
  BY AntesDeLevantar, EnK
<1>3. /\ MemoriaBien(mem)' /\ Conserva(mem, mem') /\ mem'.lista = mem.lista
      /\ \A q \in Paginas : mem'.paginas[q].presencia = mem.paginas[q].presencia
  BY <1>2, UsarBien
<1>4. (\A u \in Hilos \ {t} : Ajeno(t, u)) /\ Candados(t)'
  BY <1>1, <1>2, <1>3, AjenoQuieto DEF ConSwap, candados
<1>5. Recorre(t)'
  BY <1>1 DEF Recorre, Recorriendo, Recorrido
<1>6. mem'.paginas[p].presencia
  BY <1>2, <1>3
<1> QED BY <1>1, <1>3, <1>4, <1>5, <1>6, LevantarDespues DEF tablas, consola

(* A page that goes to a free frame. *)
LEMMA LevantarCargaK ==
  ASSUME Sigue, KInv, NEW t \in Hilos, hilos[t].pc = "LEVANTAR", NEW d \in hilos[t].pendientes,
         ~ mem.paginas[<<hilos[t].pedido, d>>].presencia,
         obtener_frame_libre(mem.bitmap_mp) >= 0,
         mem' = cargar_en_frame(mem, <<hilos[t].pedido, d>>, obtener_frame_libre(mem.bitmap_mp)),
         hilos' = SinNodo(Visitado(t, d), <<hilos[t].pedido, d>>),
         UNCHANGED <<tablas, candados, consola, fallo>>
  PROVE  KInv'
<1> DEFINE h == hilos[t]
           p == <<h.pedido, d>>
           f == obtener_frame_libre(mem.bitmap_mp)
<1>1. /\ p \in Paginas /\ tiene_pagina(mem, p) /\ ConSwap(t) /\ MemoriaBien(mem) /\ Candados(t)
  BY AntesDeLevantar, EnK
<1>2. f \in FramesMP /\ ~ mem.bitmap_mp[f]
  <2>1. CantFramesMP \in Nat /\ mem.bitmap_mp \in [0 .. CantFramesMP - 1 -> BOOLEAN]
    BY <1>1, FramesAssumption DEF MemoriaBien, Memorias, FramesMP
  <2> QED BY <2>1, FrameLibre DEF FramesMP
<1>3. Carga(mem, mem', p, f)
  BY <1>1, <1>2, CargaCampos
<1>4. MemoriaBien(mem)' /\ Conserva(mem, mem') /\ mem'.paginas[p].presencia
  BY <1>1, <1>2, <1>3, CargaBien
<1>5. hilos' = Visitado(t, d) /\ mem'.lista = Append(mem.lista, p)
  <2> DEFINE hs == Visitado(t, d)
  <2>1. /\ \A i \in 1 .. Len(mem.lista) : mem.paginas[mem.lista[i]].frame_mv # mem.paginas[p].frame_mv
        /\ mem'.lista = Append(mem.lista, p)
    BY <1>1, <1>2, CargaLista
  <2>2. hs = [u \in Hilos |-> hs[u]]
    BY TrasVisita
  <2> HIDE DEF hs
  <2>3. SinNodo(hs, p) = [u \in Hilos |-> hs[u]]
    BY <2>1 DEF SinNodo, SelectInSeq
  <2> QED BY <2>1, <2>2, <2>3 DEF hs
<1>6. /\ hilos'[t].pc = "LEVANTAR"
      /\ hilos'[t].pendientes = h.pendientes \ {d}
      /\ hilos'[t].op = h.op /\ hilos'[t].pedido = h.pedido
      /\ hilos'[t].leido = h.leido /\ hilos'[t].colgado = h.colgado
      /\ \A u \in Hilos \ {t} : hilos'[u] = hilos[u]
  <2> DEFINE hs == Visitado(t, d)
  <2>1. /\ hs[t].pc = "LEVANTAR"
        /\ hs[t].pendientes = h.pendientes \ {d}
        /\ hs[t].op = h.op /\ hs[t].pedido = h.pedido
        /\ hs[t].leido = h.leido /\ hs[t].colgado = h.colgado
        /\ \A u \in Hilos \ {t} : hs[u] = hilos[u]
    BY TrasVisita
  <2> HIDE DEF hs
  <2>2. hilos' = hs
    BY <1>5 DEF hs
  <2> QED BY <2>1, <2>2
<1>7. /\ Residentes(mem) \subseteq Residentes(mem)'
      /\ \A j \in 1 .. Len(mem.lista) : j \in 1 .. Len(mem'.lista) /\ mem'.lista[j] = mem.lista[j]
  <2>1. Residentes(mem) \subseteq Residentes(mem)'
    BY <1>3, <1>4 DEF Carga, Residentes
  <2>2. mem.lista \in Seq(Paginas)
    BY <1>1 DEF MemoriaBien, Memorias
  <2>3. /\ Len(mem.lista) \in Nat /\ Len(Append(mem.lista, p)) = Len(mem.lista) + 1
        /\ \A j \in 1 .. Len(mem.lista) : Append(mem.lista, p)[j] = mem.lista[j]
    BY <1>1, <2>2, LenProperties, AppendProperties
  <2>4. mem'.lista = Append(mem.lista, p)
    BY <1>5
  <2>5. Len(mem'.lista) = Len(mem.lista) + 1
    BY <2>3, <2>4
  <2>6. \A j \in 1 .. Len(mem.lista) : mem'.lista[j] = mem.lista[j]
    BY <2>3, <2>4, Zenon
  <2>7. \A j \in 1 .. Len(mem.lista) : j \in 1 .. Len(mem'.lista)
    BY <2>3, <2>5
  <2> QED BY <2>1, <2>6, <2>7
<1>8. (\A u \in Hilos \ {t} : Ajeno(t, u)) /\ Candados(t)'
  BY <1>1, <1>6, <1>7 DEF Ajeno, Candados, ConSwap, candados
<1>9. Recorre(t)'
  BY <1>6 DEF Recorre, Recorriendo, Recorrido
<1> QED BY <1>1, <1>4, <1>6, <1>8, <1>9, LevantarDespues DEF tablas, consola

(* A page that takes the place of a victim, whose mutex is left free. *)
LEMMA LevantarSwapK ==
  ASSUME Sigue, KInv, NEW t \in Hilos, hilos[t].pc = "LEVANTAR", NEW d \in hilos[t].pendientes,
         ~ mem.paginas[<<hilos[t].pedido, d>>].presencia,
         HayVictima(mem), Intercambiar(<<hilos[t].pedido, d>>),
         hilos' = [Visitado(t, d) EXCEPT ![t].pc = "LOCKEAR_LEVANTADA",
                                         ![t].espera = <<hilos[t].pedido, d>>],
         UNCHANGED <<tablas, lock_swap, consola, fallo>>
  PROVE  KInv'
<1> DEFINE h == hilos[t]
           p == <<h.pedido, d>>
           e == Eleccion(mem)
           v == mem.lista[e.pos]
<1>1. /\ p \in Paginas /\ tiene_pagina(mem, p) /\ ConSwap(t) /\ MemoriaBien(mem) /\ Candados(t)
      /\ lock_pagina \in [Paginas -> Hilos \cup {Nadie}]
  BY AntesDeLevantar, EnK DEF TiposH
<1>2. /\ hilos'[t].pc = "LOCKEAR_LEVANTADA" /\ hilos'[t].espera = p
      /\ hilos'[t].pendientes = h.pendientes \ {d}
      /\ hilos'[t].op = h.op /\ hilos'[t].pedido = h.pedido
      /\ hilos'[t].leido = h.leido /\ hilos'[t].colgado = h.colgado
      /\ \A u \in Hilos \ {t} : hilos'[u] = hilos[u]
  <2> DEFINE w == [Visitado(t, d) EXCEPT ![t].pc = "LOCKEAR_LEVANTADA", ![t].espera = p]
  <2>1. /\ w[t].pc = "LOCKEAR_LEVANTADA" /\ w[t].espera = p
        /\ w[t].pendientes = h.pendientes \ {d}
        /\ w[t].op = h.op /\ w[t].pedido = h.pedido
        /\ w[t].leido = h.leido /\ w[t].colgado = h.colgado
        /\ \A u \in Hilos \ {t} : w[u] = hilos[u]
    BY TrasVisitaCon
  <2>2. hilos' = w
    OBVIOUS
  <2> HIDE DEF w
  <2> QED BY <2>1, <2>2
<1>3. mem' = swap(mem, p) /\ lock_pagina' = [lock_pagina EXCEPT ![v] = Nadie]
  BY DEF Intercambiar, Victima
<1>4. Intercambio(mem, mem', p, v)
  BY <1>1, <1>3, SwapCampos
<1>5. MemoriaBien(mem)' /\ Conserva(mem, mem') /\ mem'.paginas[p].presencia
  BY <1>1, <1>4, IntercambioBien
<1>6. /\ mem'.lista = ReplaceAt(mem.lista, e.pos, p)
      /\ e.pos \in 1 .. Len(mem.lista) /\ v \in Paginas
      /\ Len(mem.lista) \in Nat
  <2>1. e.pos \in 1 .. Len(mem.lista)
    BY <1>1, EleccionBien DEF MemoriaBien
  <2> QED BY <1>1, <1>3, <2>1, SwapLista, ListaDeResidentes
<1> HIDE DEF e
<1>7. \A q \in Paginas : lock_pagina'[q] = IF q = v THEN Nadie ELSE lock_pagina[q]
  BY <1>1, <1>3, <1>6
<1>8. /\ \A q \in Residentes(mem) : q # v => q \in Residentes(mem)'
      /\ \A j \in 1 .. Len(mem.lista) : mem.lista[j] # v =>
           j \in 1 .. Len(mem'.lista) /\ mem'.lista[j] = mem.lista[j]
  <2>1. \A q \in Residentes(mem) : q # v => q \in Residentes(mem)'
    BY <1>4, <1>5 DEF Intercambio, Residentes
  <2>2. /\ Len(ReplaceAt(mem.lista, e.pos, p)) = Len(mem.lista)
        /\ \A j \in 1 .. Len(mem.lista) : j # e.pos => ReplaceAt(mem.lista, e.pos, p)[j] = mem.lista[j]
    BY <1>6 DEF ReplaceAt
  <2> QED BY <1>6, <2>1, <2>2
<1>9. (\A u \in Hilos \ {t} : Ajeno(t, u)) /\ Candados(t)'
  <2>1. \A u \in Hilos : \A q \in Paginas : lock_pagina'[q] = u => q # v /\ lock_pagina[q] = u
    BY <1>7, NadieAssumption
  <2>2. \A q \in Paginas : lock_pagina[q] = Nadie => lock_pagina'[q] = Nadie
    BY <1>7
  <2>3. ASSUME NEW u \in Hilos \ {t} PROVE Ajeno(t, u)
    <3>1. \A q \in Paginas : lock_pagina'[q] = u =>
            /\ lock_pagina[q] = u
            /\ q \in Residentes(mem) => q \in Residentes(mem)'
      BY <1>8, <2>1
    <3>2. \A q \in Paginas : lock_pagina'[q] = u =>
            \A j \in 1 .. Len(mem.lista) : mem.lista[j] = q =>
              j \in 1 .. Len(mem'.lista) /\ mem'.lista[j] = q
      BY <1>8, <2>1
    <3> QED BY <1>1, <1>2, <2>2, <3>1, <3>2 DEF Ajeno
  <2>4. Candados(t)'
    BY <1>1, <1>2, <1>8, <2>1 DEF Candados, ConSwap
  <2> QED BY <2>3, <2>4
<1>10. Recorre(t)'
  <2>1. p \in Residentes(mem)'
    BY <1>1, <1>5 DEF Residentes
  <2>2. lock_pagina[p] = Nadie
    <3>1. p \notin Residentes(mem)
      BY DEF Residentes
    <3>2. \A u \in Hilos : lock_pagina[p] # u
      BY <1>1, <3>1, EnK DEF Candados
    <3> QED BY <1>1, <3>2
  <2>3. lock_pagina'[p] = Nadie
    BY <1>1, <1>7, <2>2
  <2> QED BY <1>2, <2>1, <2>3 DEF Recorre, Recorriendo, Recorrido
<1> QED BY <1>2, <1>5, <1>9, <1>10, LevantarDespues DEF tablas, consola

(* levantar_pagina_en_memoria of a dish: what is pinned fits, so that there*)
(* is a frame for it.                                                      *)
LEMMA LevantarK ==
  ASSUME Sigue, KInv, NEW t \in Hilos, Levantar(t)
  PROVE  KInv'
<1>1. hilos[t].pc = "LEVANTAR"
  BY DEF Levantar, En
<1> DEFINE f == obtener_frame_libre(mem.bitmap_mp)
<1>2. PICK d \in hilos[t].pendientes :
        LET p == <<hilos[t].pedido, d>>
        IN  IF mem.paginas[p].presencia
            THEN /\ mem' = [mem EXCEPT !.paginas[p].uso = TRUE]
                 /\ hilos' = Visitado(t, d)
                 /\ UNCHANGED <<tablas, candados, consola, fallo>>
            ELSE IF f >= 0
            THEN /\ mem' = cargar_en_frame(mem, p, f)
                 /\ hilos' = SinNodo(Visitado(t, d), p)
                 /\ UNCHANGED <<tablas, candados, consola, fallo>>
            ELSE IF FalloDeSwap # "NO" THEN Fallar(t, FalloDeSwap)
            ELSE /\ Intercambiar(p)
                 /\ hilos' = [Visitado(t, d) EXCEPT ![t].pc = "LOCKEAR_LEVANTADA",
                                                    ![t].espera = p]
                 /\ UNCHANGED <<tablas, lock_swap, consola, fallo>>
  BY DEF Levantar
<1> DEFINE p == <<hilos[t].pedido, d>>
<1>3. CASE mem.paginas[p].presencia
  BY <1>1, <1>2, <1>3, LevantarPresenteK
<1>4. CASE ~ mem.paginas[p].presencia /\ f >= 0
  BY <1>1, <1>2, <1>4, LevantarCargaK
<1>5. CASE ~ mem.paginas[p].presencia /\ ~ f >= 0
  <2>1. /\ hilos[t].pedido \in Pedidos /\ d \in Platos /\ tiene_pagina(mem, p) /\ ConSwap(t)
        /\ MemoriaBien(mem) /\ Fijadas /\ Caben(mem)
    BY <1>1, AntesDeLevantar DEF KInv
  <2>2. HayVictima(mem)
    <3> SUFFICES ASSUME ~ HayVictima(mem) PROVE FALSE
      OBVIOUS
    <3>1. ~ PuedeLevantar(mem, p)
      BY <1>5 DEF PuedeLevantar, PuedeUbicar
    <3>2. \A q \in Paginas : mem.paginas[q].lockeo => q[1] = hilos[t].pedido /\ tiene_pagina(mem, q)
      BY <2>1, FijadasDe
    <3>3. Cardinality(tabla_de_platos(mem, hilos[t].pedido)) > CantFramesMP
      BY <2>1, <3>1, <3>2, SinLugar
    <3>4. Cardinality(tabla_de_platos(mem, hilos[t].pedido)) <= CantFramesMP
      BY <2>1 DEF Caben
    <3>5. Cardinality(tabla_de_platos(mem, hilos[t].pedido)) \in Nat /\ CantFramesMP \in Nat
      BY <2>1, TablaFinita, FS_CardinalityType, FramesAssumption
    <3> QED BY <3>3, <3>4, <3>5
  <2>3. FalloDeSwap = "NO"
    <3>1. Eleccion(mem).pos \in 1 .. Len(mem.lista)
      BY <2>1, <2>2, EleccionBien DEF MemoriaBien
    <3>2. mem.paginas[Victima].frame_mp \in FramesMP
      BY <2>1, <3>1, ListaDeResidentes DEF Victima
    <3> QED BY <2>2, <3>2 DEF FalloDeSwap, FramesMP
  <2> QED BY <1>1, <1>2, <1>5, <2>2, <2>3, LevantarSwapK
<1> QED BY <1>3, <1>4, <1>5

-----------------------------------------------------------------------------
(* Reading the order. *)

(* What is known of the thread and of the page it visits. *)
LEMMA AntesDeVisitar ==
  ASSUME Sigue, KInv, NEW t \in Hilos, hilos[t].pc \in {"ENLISTAR", "CONTAR"},
         NEW d \in hilos[t].pendientes
  PROVE  LET p == <<hilos[t].pedido, d>>
         IN  /\ hilos[t].pedido \in Pedidos
             /\ d \in Platos /\ d \in PlatosDelPedido(t)
             /\ p \in Paginas /\ tiene_pagina(mem, p)
             /\ mem.paginas[p].presencia /\ mem.paginas[p].frame_mp # -1
             /\ ConSwap(t) /\ Fija(t) /\ MemoriaBien(mem)
<1> DEFINE p == <<hilos[t].pedido, d>>
<1>1. /\ hilos[t].pedido \in Pedidos
      /\ d \in PlatosDelPedido(t) /\ ConSwap(t) /\ Fija(t) /\ MemoriaBien(mem) /\ Levantados(t)
  BY OpK, EnK DEF Lugar, Vivas, Pasada, ConSwap, Fija
<1>2. d \in Platos /\ tiene_pagina(mem, p)
  BY <1>1 DEF PlatosDelPedido, tabla_de_platos
<1>3. p \in Paginas
  BY <1>1, <1>2, PaginaDePar
<1>4. mem.paginas[p].presencia
  BY <1>1 DEF Levantados
<1> QED BY <1>1, <1>2, <1>3, <1>4 DEF MemoriaBien, FramesBien

(* A read sets bits of use, and keeps everything else. *)
LEMMA LeerDespues ==
  ASSUME Sigue, KInv, NEW t \in Hilos, hilos[t].pc \in {"ENLISTAR", "CONTAR"},
         NEW p \in Paginas, mem' = paginas_leidas(mem, {p}),
         UNCHANGED <<tablas, candados, consola, fallo>>,
         \A u \in Hilos \ {t} : hilos'[u] = hilos[u],
         hilos'[t].pc = hilos[t].pc,
         hilos'[t].op = hilos[t].op, hilos'[t].pedido = hilos[t].pedido,
         hilos'[t].plato = hilos[t].plato, hilos'[t].colgado = hilos[t].colgado,
         Foto(t)'
  PROVE  KInv'
<1> DEFINE h == hilos[t]
<1>1. /\ h.pedido \in Pedidos /\ ConSwap(t) /\ Fija(t) /\ MemoriaBien(mem)
      /\ Fijadas /\ Cuentas /\ EnCocina(t) /\ Candados(t) /\ Levantados(t)
  BY OpK, EnK DEF Lugar, ConSwap, Fija
<1>2. /\ MemoriaBien(mem)' /\ mem'.lista = mem.lista /\ MismoContenido(mem, mem')
      /\ \A q \in Paginas : /\ mem'.paginas[q].frame_mv = mem.paginas[q].frame_mv
                            /\ mem'.paginas[q].presencia = mem.paginas[q].presencia
                            /\ mem'.paginas[q].lockeo = mem.paginas[q].lockeo
  BY <1>1, LeidasBien, ListaTrasBits, LeidasContenido
<1>3. MismasPaginas(mem, mem') /\ PlatosDelPedido(t)' = PlatosDelPedido(t)
  <2>1. MismasPaginas(mem, mem')
    BY <1>2 DEF MismasPaginas, tiene_pagina
  <2> QED BY <1>1, <2>1, MismasTablas DEF PlatosDelPedido
<1>4. (\A u \in Hilos \ {t} : Ajeno(t, u)) /\ Candados(t)'
  BY <1>1, <1>2, AjenoQuieto DEF ConSwap, candados
<1>5. KHilo(t)'
  <2>1. EnCocina(t)' /\ Recorre(t)'
    BY <1>1 DEF EnCocina, Recorre, Recorriendo, Recorrido
  <2>2. Levantados(t)'
    <3> SUFFICES ASSUME NEW g \in PlatosDelPedido(t)
                 PROVE  LET i == mem'.paginas[<<h.pedido, g>>] IN i.lockeo /\ i.presencia
      BY <1>3 DEF Levantados
    <3>1. <<h.pedido, g>> \in Paginas
      BY <1>1, PaginaDePar DEF PlatosDelPedido, tabla_de_platos
    <3>2. LET i == mem.paginas[<<h.pedido, g>>] IN i.lockeo /\ i.presencia
      BY <1>1 DEF Levantados
    <3> QED BY <1>2, <3>1, <3>2
  <2> QED BY <1>4, <2>1, <2>2 DEF KHilo
<1>6. Fija(t)' /\ Fijadas'
  <2>1. Fija(t)'
    BY DEF Fija
  <2> QED BY <1>1, <1>2, <1>3, <2>1, FijadasIguales
<1>7. Cuentas'
  <2>1. \A q \in Paginas : t \in Contada(q)' <=> t \in Contada(q)
    BY DEF Contada, Pagina
  <2> QED BY <1>1, <1>2, <2>1, CuentasIguales DEF consola
<1> QED BY <1>2, <1>3, <1>4, <1>5, <1>6, <1>7, PasoDeCocina DEF tablas

(* enlistar_platos, one dish. *)
LEMMA EnlistarK ==
  ASSUME Sigue, KInv, NEW t \in Hilos, Enlistar(t)
  PROVE  KInv'
<1> DEFINE h == hilos[t]
<1>1. /\ h.pc = "ENLISTAR" /\ h.pedido \in Pedidos
      /\ MemoriaBien(mem) /\ Foto(t)
  <2>1. h.pc = "ENLISTAR"
    BY DEF Enlistar, En
  <2> QED BY <2>1, OpK, EnK DEF Lugar
<1>2. PICK d \in h.pendientes :
        LET p == <<h.pedido, d>>
        IN  IF mem.paginas[p].frame_mp = -1 THEN Fallar(t, "FUERA")
            ELSE /\ mem' = paginas_leidas(mem, {p})
                 /\ hilos' = [Visitado(t, d) EXCEPT ![t].leido = @ \cup {<<d, ContenidoMP(mem, p)>>}]
                 /\ UNCHANGED <<tablas, candados, consola, fallo>>
  BY DEF Enlistar
<1> DEFINE p == <<h.pedido, d>>
           v == Visitado(t, d)
           nuevo == <<d, ContenidoMP(mem, p)>>
<1>3. /\ d \in Platos /\ d \in PlatosDelPedido(t)
      /\ p \in Paginas /\ tiene_pagina(mem, p)
      /\ mem.paginas[p].presencia /\ mem.paginas[p].frame_mp # -1
  BY <1>1, AntesDeVisitar
<1>4. /\ mem' = paginas_leidas(mem, {p})
      /\ hilos' = [v EXCEPT ![t].leido = @ \cup {nuevo}]
      /\ UNCHANGED <<tablas, candados, consola, fallo>>
  BY <1>2, <1>3
<1>5. /\ hilos'[t].pc = h.pc /\ hilos'[t].pendientes = h.pendientes \ {d}
      /\ hilos'[t].op = h.op /\ hilos'[t].pedido = h.pedido /\ hilos'[t].plato = h.plato
      /\ hilos'[t].colgado = h.colgado
      /\ hilos'[t].leido = h.leido \cup {nuevo}
      /\ \A u \in Hilos \ {t} : hilos'[u] = hilos[u]
  <2>1. /\ v \in [Hilos -> Hilo] /\ v[t].pc = h.pc
        /\ v[t].pendientes = h.pendientes \ {d}
        /\ v[t].op = h.op /\ v[t].pedido = h.pedido /\ v[t].plato = h.plato
        /\ v[t].leido = h.leido /\ v[t].colgado = h.colgado
        /\ \A u \in Hilos \ {t} : v[u] = hilos[u]
    BY TrasVisita
  <2> HIDE DEF v
  <2>2. hilos'[t] = [v[t] EXCEPT !.leido = v[t].leido \cup {nuevo}]
        /\ \A u \in Hilos \ {t} : hilos'[u] = v[u]
    BY <1>4, <2>1
  <2>3. v[t] \in Hilo
    BY <2>1
  <2> HIDE DEF nuevo
  <2> QED BY <2>1, <2>2, <2>3 DEF Hilo
<1>6. Foto(t)'
  <2> DEFINE PD == PlatosDelPedido(t)
             V(g) == Valor(mem, <<h.pedido, g>>)
  <2>1. MismoContenido(mem, mem')
    BY <1>1, <1>4, LeidasContenido
  <2>2. PlatosDelPedido(t)' = PD
    <3>1. MismasPaginas(mem, mem')
      BY <2>1 DEF MismasPaginas, MismoContenido
    <3> QED BY <1>1, <1>5, <3>1, MismasTablas DEF PlatosDelPedido
  <2>3. \A g \in PD : Valor(mem', <<h.pedido, g>>) = V(g)
    <3> TAKE g \in PD
    <3>1. g \in Platos /\ tiene_pagina(mem, <<h.pedido, g>>)
      BY DEF PlatosDelPedido, tabla_de_platos
    <3>2. <<h.pedido, g>> \in Paginas
      BY <1>1, <3>1, PaginaDePar
    <3> QED BY <2>1, <3>1, <3>2 DEF MismoContenido
  <2>4. nuevo = <<d, V(d)>>
    BY <1>3 DEF Valor
  <2>5. h.leido = {<<g, V(g)>> : g \in PD \ h.pendientes}
    BY <1>1 DEF Foto, Lectura
  <2>6. Lectura(t)' = {<<g, Valor(mem', <<h.pedido, g>>)>> : g \in PD \ (h.pendientes \ {d})}
    BY <1>5, <2>2 DEF Lectura
  <2>7. PD \ (h.pendientes \ {d}) = (PD \ h.pendientes) \cup {d}
    BY <1>3
  <2> HIDE DEF V, nuevo, PD
  <2>8. Lectura(t)' = {<<g, V(g)>> : g \in PD \ (h.pendientes \ {d})}
    BY <2>3, <2>6
  <2>9. hilos'[t].leido = Lectura(t)'
    BY <1>5, <2>4, <2>5, <2>7, <2>8
  <2> QED BY <1>1, <1>5, <2>9 DEF Foto, AntesDeLeer, Busqueda, Recorrido
<1> QED BY <1>1, <1>3, <1>4, <1>5, <1>6, LeerDespues

(* plato_terminado, one dish. *)
LEMMA ContarK ==
  ASSUME Sigue, KInv, NEW t \in Hilos, Contar(t)
  PROVE  KInv'
<1> DEFINE h == hilos[t]
<1>1. h.pc = "CONTAR"
  BY DEF Contar, En
<1>2. PICK d \in h.pendientes :
        LET p == <<h.pedido, d>>
        IN  IF mem.paginas[p].frame_mp = -1 THEN Fallar(t, "FUERA")
            ELSE /\ mem' = paginas_leidas(mem, {p})
                 /\ hilos' = [Visitado(t, d) EXCEPT ![t].dato.valor =
                        @ + IF Completo(ContenidoMP(mem, p)) THEN 1 ELSE 0]
                 /\ UNCHANGED <<tablas, candados, consola, fallo>>
  BY DEF Contar
<1> DEFINE p == <<h.pedido, d>>
           v == Visitado(t, d)
           mas == IF Completo(ContenidoMP(mem, p)) THEN 1 ELSE 0
<1>3. p \in Paginas /\ mem.paginas[p].frame_mp # -1
  BY <1>1, AntesDeVisitar
<1>4. /\ mem' = paginas_leidas(mem, {p})
      /\ hilos' = [v EXCEPT ![t].dato.valor = @ + mas]
      /\ UNCHANGED <<tablas, candados, consola, fallo>>
  BY <1>2, <1>3
<1>5. /\ hilos'[t].pc = h.pc
      /\ hilos'[t].op = h.op /\ hilos'[t].pedido = h.pedido /\ hilos'[t].plato = h.plato
      /\ hilos'[t].colgado = h.colgado
      /\ \A u \in Hilos \ {t} : hilos'[u] = hilos[u]
  <2>1. /\ v \in [Hilos -> Hilo] /\ v[t].pc = h.pc
        /\ v[t].op = h.op /\ v[t].pedido = h.pedido /\ v[t].plato = h.plato
        /\ v[t].colgado = h.colgado
        /\ \A u \in Hilos \ {t} : v[u] = hilos[u]
    BY TrasVisita
  <2> HIDE DEF v, mas
  <2>2. hilos'[t] = [v[t] EXCEPT !.dato.valor = @ + mas]
        /\ \A u \in Hilos \ {t} : hilos'[u] = v[u]
    BY <1>4, <2>1
  <2>3. v[t] \in Hilo
    BY <2>1
  <2> QED BY <2>1, <2>2, <2>3 DEF Hilo
<1>6. Foto(t)'
  BY <1>1, <1>5 DEF Foto, AntesDeLeer, Busqueda, Recorrido
<1> QED BY <1>1, <1>3, <1>4, <1>5, <1>6, LeerDespues

(* The order is unpinned and the walk that unlocks the list begins: all the*)
(* mutexes of the thread are ahead of it.                                  *)
LEMMA DesfijarK ==
  ASSUME Sigue, KInv, NEW t \in Hilos, hilos[t].pc \in {"ENLISTAR", "CONTAR"},
         mem' = Desfijar(mem, hilos[t].pedido), Recorrer(t, "UNLOCKEAR"),
         UNCHANGED <<tablas, lock_pagina, consola, fallo>>
  PROVE  KInv'
<1> DEFINE h == hilos[t]
           S == PaginasDe(mem, h.pedido)
<1>1. /\ h.pedido \in Pedidos /\ ConSwap(t) /\ MemoriaBien(mem) /\ mem \in MemoriasH
      /\ hilos \in [Hilos -> Hilo]
      /\ Fijadas /\ Cuentas /\ EnCocina(t) /\ Candados(t)
      /\ h.pc = "ENLISTAR" => h.op = "OBTENER_PEDIDO"
      /\ Len(mem.lista) \in Nat
  <2>1. h.op \in {"OBTENER_PEDIDO", "PLATO_LISTO"} /\ (h.pc = "ENLISTAR" => h.op = "OBTENER_PEDIDO")
    BY OpK
  <2>2. h.pedido \in Pedidos /\ MemoriaBien(mem)
    BY <2>1, EnK DEF Lugar
  <2>3. Len(mem.lista) \in Nat
    BY <2>2, ListaDeResidentes
  <2> QED BY <2>1, <2>2, <2>3, EnK DEF ConSwap
<1>2. Anda(t, "UNLOCKEAR", Siguiente(0), h.espera)
  BY <1>1, IrAnda
<1>3. /\ hilos'[t].pc = "UNLOCKEAR" /\ hilos'[t].cursor = Siguiente(0)
      /\ hilos'[t].op = h.op /\ hilos'[t].pedido = h.pedido
      /\ hilos'[t].plato = h.plato /\ hilos'[t].colgado = h.colgado
      /\ \A u \in Hilos \ {t} : hilos'[u] = hilos[u]
  BY <1>1, <1>2, AndaBien
<1>4. /\ MemoriaBien(mem)' /\ mem'.lista = mem.lista /\ MismoContenido(mem, mem')
      /\ \A q \in Paginas : /\ mem'.paginas[q].frame_mv = mem.paginas[q].frame_mv
                            /\ mem'.paginas[q].presencia = mem.paginas[q].presencia
                            /\ mem'.paginas[q].lockeo <=> q \notin S /\ mem.paginas[q].lockeo
  <2> DEFINE n == poner_bit_de_lockeo(mem, S, FALSE)
  <2>1. mem' = n
    BY DEF Desfijar
  <2> HIDE DEF S
  <2>2. MismoContenido(mem, n)
    BY <1>1, LockeoContenido, FALSE \in BOOLEAN, Zenon
  <2>3. n.lista = mem.lista
    BY ListaTrasBits, Zenon
  <2>4. MemoriaBien(n) /\ \A q \in Paginas : /\ n.paginas[q].frame_mv = mem.paginas[q].frame_mv
                                             /\ n.paginas[q].presencia = mem.paginas[q].presencia
                                             /\ n.paginas[q].lockeo <=> q \notin S /\ mem.paginas[q].lockeo
    BY <1>1, DesfijarBien
  <2> HIDE DEF n
  <2> QED BY <2>1, <2>2, <2>3, <2>4
<1>5. MismasPaginas(mem, mem') /\ Residentes(mem)' = Residentes(mem)
  BY <1>4 DEF MismasPaginas, tiene_pagina, Residentes
<1>6. \A u \in Hilos \ {t} : Ajeno(t, u)
  BY <1>1, <1>3, <1>4, AjenoQuieto
<1>7. KHilo(t)'
  <2>1. EnCocina(t)' /\ Levantados(t)' /\ Foto(t)'
    BY <1>1, <1>3 DEF EnCocina, Levantados, Fija, Foto, AntesDeLeer, Busqueda, Recorrido
  <2>2. Recorre(t)'
    BY <1>1, <1>3, PrimerNodo DEF Recorre, Recorriendo, Recorrido
  <2>3. Candados(t)'
    <3> SUFFICES ASSUME NEW q \in Paginas, lock_pagina'[q] = t
                 PROVE  /\ q \in Residentes(mem)'
                        /\ \E j \in 1 .. Len(mem'.lista) :
                             mem'.lista[j] = q /\ hilos'[t].cursor > 0 /\ hilos'[t].cursor <= j
      BY <1>3 DEF Candados
    <3>1. q \in Residentes(mem)
      BY <1>1 DEF Candados
    <3>2. PICK j \in 1 .. Len(mem.lista) : mem.lista[j] = q
      BY <1>1, <3>1 DEF MemoriaBien, ListaBien, Enumera
    <3>3. Siguiente(0) = 1
      BY <1>1, <3>2, PrimerNodo
    <3> QED BY <1>1, <1>3, <1>4, <1>5, <3>1, <3>2, <3>3
  <2> QED BY <2>1, <2>2, <2>3 DEF KHilo
<1>8. Fijadas'
  <2>1. \A q \in Paginas : mem.paginas[q].lockeo => q \in S
    BY <1>1, FijadasDe, PaginasDelPedido
  <2> QED BY <1>4, <2>1 DEF Fijadas
<1>9. Cuentas'
  <2>1. \A q \in Paginas : t \in Contada(q)' <=> t \in Contada(q)
    BY <1>1, <1>3 DEF Contada, Pagina
  <2> QED BY <1>1, <1>3, <1>4, <2>1, CuentasIguales DEF consola
<1> QED BY <1>4, <1>5, <1>6, <1>7, <1>8, <1>9, PasoDeCocina DEF tablas

(* obtener_pedido has listed every dish. *)
LEMMA EnlistadosK ==
  ASSUME Sigue, KInv, NEW t \in Hilos, Enlistados(t)
  PROVE  KInv'
<1>1. hilos[t].pc = "ENLISTAR"
  BY DEF Enlistados, En
<1> QED BY <1>1, DesfijarK DEF Enlistados

(* plato_listo has looked at every dish. *)
LEMMA ContadosK ==
  ASSUME Sigue, KInv, NEW t \in Hilos, Contados(t)
  PROVE  KInv'
<1>1. hilos[t].pc = "CONTAR"
  BY DEF Contados, En
<1> QED BY <1>1, DesfijarK DEF Contados, candados

-----------------------------------------------------------------------------
(* Counting. *)

(* One more, in uint32_t. *)
LEMMA UnoMas ==
  ASSUME NEW v \in 0 .. Modulo - 1
  PROVE  /\ (v + 1) % Modulo = IF v + 1 = Modulo THEN 0 ELSE v + 1
         /\ (v + 1) % Modulo \in 0 .. Modulo - 1
         /\ \E k \in Int : v + 1 = ((v + 1) % Modulo) + k * Modulo
<1>1. Modulo \in Nat /\ Modulo > 0 /\ v \in Nat /\ v < Modulo
  BY ModuloAssumption
<1>2. CASE v + 1 = Modulo
  <2>1. (v + 1) % Modulo = 0
    BY <1>1, <1>2
  <2>2. v + 1 = 0 + 1 * Modulo
    BY <1>1, <1>2
  <2> QED BY <1>1, <1>2, <2>1, <2>2
<1>3. CASE v + 1 # Modulo
  <2>1. (v + 1) % Modulo = v + 1
    BY <1>1, <1>3
  <2>2. v + 1 = v + 1 + 0 * Modulo
    BY <1>1
  <2> QED BY <1>1, <1>3, <2>1, <2>2
<1> QED BY <1>2, <1>3

(* Two quantities that differ in whole turns are the same. *)
LEMMA SinVueltas ==
  ASSUME NEW x \in 0 .. Modulo - 1, NEW y \in 0 .. Modulo - 1,
         \E k \in Int : x = y + k * Modulo
  PROVE  x = y
<1>1. PICK k \in Int : x = y + k * Modulo
  OBVIOUS
<1>2. Modulo \in Nat /\ Modulo > 0
  BY ModuloAssumption
<1>3. k * Modulo > - Modulo /\ k * Modulo < Modulo
  BY <1>1, <1>2
<1>4. k > 0 => k * Modulo >= Modulo
  BY <1>2
<1>5. k < 0 => k * Modulo <= - Modulo
  BY <1>2
<1>6. k = 0
  BY <1>2, <1>3, <1>4, <1>5
<1> QED BY <1>1, <1>2, <1>6

(* Every dish has quantities of 32 bits. *)
LEMMA ValorTipo ==
  ASSUME NEW m, MemoriaBien(m), NEW p \in Paginas, tiene_pagina(m, p)
  PROVE  Valor(m, p) \in Contenido
<1>1. m \in Memorias /\ m.paginas[p] \in Info
  BY DEF MemoriaBien, Memorias
<1>2. CASE m.paginas[p].presencia
  <2>1. m.paginas[p].frame_mp \in FramesMP
    BY <1>1, <1>2 DEF MemoriaBien, FramesBien, Info, InfoPagina
  <2> QED BY <1>1, <1>2, <2>1 DEF Valor, ContenidoMP, Memorias
<1>3. CASE ~ m.paginas[p].presencia
  <2>1. m.paginas[p].frame_mv \in FramesMV
    BY <1>1 DEF tiene_pagina, Info, InfoPagina
  <2> QED BY <1>1, <1>3, <2>1 DEF Valor, Memorias
<1> QED BY <1>2, <1>3

(* The clock does not move the page that is counted. *)
LEMMA SumarMismaLista ==
  ASSUME NEW m, NEW p
  PROVE  sumar_cantidad_lista(m, p).lista = m.lista
<1> DEFINE f == m.paginas[p].frame_mp
           s == [m EXCEPT !.mp[f].cantidad_lista = (@ + 1) % Modulo]
           n == pagina_modificada(s, p)
<1>1. s.lista = m.lista
  OBVIOUS
<1>2. n.lista = s.lista
  BY DEF pagina_modificada
<1>3. agregar_a_lista_de_swapeo(n, p, "REFERENCIA") = n
  BY RelojAssumption, "REFERENCIA" # "CARGA", "LRU" # "CLOCK_MODIFICADO"
     DEF agregar_a_lista_de_swapeo
<1> QED BY <1>1, <1>2, <1>3 DEF sumar_cantidad_lista

(* The account of a dish with one more thread that has prepared it. *)
LEMMA ContadaCon ==
  ASSUME Cuentas, NEW t \in Hilos, NEW p \in Paginas, tiene_pagina(mem, p), MemoriaBien(mem),
         hecho \in [Paginas -> Contenido],
         t \notin Contada(p), Contada(p)' = Contada(p) \cup {t}, hecho' = hecho,
         Valor(mem', p) = [Valor(mem, p) EXCEPT !.cantidad_lista = (@ + 1) % Modulo]
  PROVE  Cuenta(p)'
<1> DEFINE v == Valor(mem, p)
           w == Valor(mem', p)
           C == Contada(p)
           x == hecho[p].cantidad_lista
<1>1. /\ v \in Contenido /\ w.cantidad_total = v.cantidad_total
      /\ w.cantidad_lista = (v.cantidad_lista + 1) % Modulo
      /\ v.cantidad_lista \in 0 .. Modulo - 1
  BY ValorTipo DEF Contenido
<1>2. /\ IsFiniteSet(C)
      /\ hecho[p].cantidad_total = v.cantidad_total
      /\ \E q \in Int : x + Cardinality(C) = v.cantidad_lista + q * Modulo
  BY DEF Cuentas, Cuenta
<1>3. x \in 0 .. Modulo - 1
  BY DEF Contenido
<1>4. /\ IsFiniteSet(C \cup {t}) /\ Cardinality(C \cup {t}) = Cardinality(C) + 1
      /\ Cardinality(C) \in Nat
  BY <1>2, FS_AddElement, FS_CardinalityType
<1> HIDE DEF v, w, C, x
<1>5. PICK q \in Int : x + Cardinality(C) = v.cantidad_lista + q * Modulo
  BY <1>2
<1>6. PICK k \in Int : v.cantidad_lista + 1 = w.cantidad_lista + k * Modulo
  BY <1>1, UnoMas
<1>7. w.cantidad_lista \in Int /\ v.cantidad_lista \in Int /\ x \in Int /\ Modulo \in Nat
  BY <1>1, <1>3, UnoMas, ModuloAssumption
<1>8. q * Modulo + k * Modulo = (q + k) * Modulo /\ q * Modulo \in Int /\ k * Modulo \in Int
  BY <1>7
<1>9. x + Cardinality(C \cup {t}) = w.cantidad_lista + (q + k) * Modulo
  BY <1>4, <1>5, <1>6, <1>7, <1>8
<1>10. /\ IsFiniteSet(Contada(p)') /\ hecho'[p].cantidad_total = w.cantidad_total
       /\ hecho'[p].cantidad_lista + Cardinality(Contada(p)') = w.cantidad_lista + (q + k) * Modulo
  BY <1>1, <1>2, <1>4, <1>9 DEF C, x
<1>11. Valor(mem, p)' = w
  BY DEF w
<1>12. q + k \in Int
  OBVIOUS
<1> QED BY <1>10, <1>11, <1>12 DEF Cuenta

(* And with one less, which was answered. *)
LEMMA ContadaSin ==
  ASSUME Cuentas, NEW t \in Hilos, NEW p \in Paginas, tiene_pagina(mem, p),
         hecho \in [Paginas -> Contenido], Valor(mem, p) \in Contenido,
         t \in Contada(p), Contada(p)' = Contada(p) \ {t}, mem' = mem,
         hecho' = [hecho EXCEPT ![p].cantidad_lista = (@ + 1) % Modulo]
  PROVE  Cuenta(p)'
<1> DEFINE v == Valor(mem, p)
           C == Contada(p)
           x == hecho[p].cantidad_lista
           y == hecho'[p].cantidad_lista
<1>1. v.cantidad_lista \in 0 .. Modulo - 1 /\ x \in 0 .. Modulo - 1
  BY DEF Contenido
<1>2. /\ IsFiniteSet(C)
      /\ hecho[p].cantidad_total = v.cantidad_total
      /\ \E q \in Int : x + Cardinality(C) = v.cantidad_lista + q * Modulo
  BY DEF Cuentas, Cuenta
<1>3. y = (x + 1) % Modulo /\ hecho'[p].cantidad_total = hecho[p].cantidad_total
  BY DEF Contenido
<1>4. /\ IsFiniteSet(C \ {t}) /\ Cardinality(C \ {t}) = Cardinality(C) - 1
      /\ Cardinality(C) \in Nat
  BY <1>2, FS_RemoveElement, FS_CardinalityType
<1> HIDE DEF v, C, x, y
<1>5. PICK q \in Int : x + Cardinality(C) = v.cantidad_lista + q * Modulo
  BY <1>2
<1>6. PICK k \in Int : x + 1 = y + k * Modulo
  BY <1>1, <1>3, UnoMas
<1>7. y \in Int /\ v.cantidad_lista \in Int /\ x \in Int /\ Modulo \in Nat
  BY <1>1, <1>3, UnoMas, ModuloAssumption
<1>8. q * Modulo - k * Modulo = (q - k) * Modulo /\ q * Modulo \in Int /\ k * Modulo \in Int
  <2>1. \A i \in Int : i * Modulo + k * Modulo = (i + k) * Modulo /\ i * Modulo \in Int
    BY <1>7
  <2>2. q - k \in Int /\ (q - k) + k = q
    OBVIOUS
  <2>3. (q - k) * Modulo + k * Modulo = q * Modulo
    BY <2>1, <2>2
  <2>4. q * Modulo \in Int /\ k * Modulo \in Int /\ (q - k) * Modulo \in Int
    BY <2>1, <2>2
  <2> QED BY <2>3, <2>4
<1>9. y + Cardinality(C \ {t}) = v.cantidad_lista + (q - k) * Modulo
  <2> DEFINE qM == q * Modulo
             kM == k * Modulo
             dM == (q - k) * Modulo
  <2>1. /\ qM - kM = dM /\ qM \in Int /\ kM \in Int
        /\ x + Cardinality(C) = v.cantidad_lista + qM /\ x + 1 = y + kM
    BY <1>5, <1>6, <1>8
  <2> HIDE DEF qM, kM, dM
  <2>2. y + Cardinality(C \ {t}) = v.cantidad_lista + dM
    BY <1>4, <1>7, <2>1
  <2> QED BY <2>2 DEF dM
<1>10. /\ IsFiniteSet(Contada(p)') /\ hecho'[p].cantidad_total = v.cantidad_total
       /\ hecho'[p].cantidad_lista + Cardinality(Contada(p)') = v.cantidad_lista + (q - k) * Modulo
       /\ q - k \in Int
  BY <1>2, <1>3, <1>4, <1>9 DEF C, y
<1>11. Valor(mem, p)' = v
  BY DEF v
<1> QED BY <1>10, <1>11 DEF Cuenta

(* sumar_cantidad_lista: one more in the memory, of the thread that has not*)
(* answered yet.                                                           *)
LEMMA SumarListaK ==
  ASSUME Sigue, KInv, NEW t \in Hilos, SumarLista(t)
  PROVE  KInv'
<1> DEFINE h == hilos[t]
           p == Pagina(t)
<1>1. /\ h.pc = "SUMAR_LISTA" /\ h.op = "PLATO_LISTO" /\ h.pedido \in Pedidos /\ h.plato \in Platos
      /\ ConSwap(t) /\ Fija(t) /\ hilos \in [Hilos -> Hilo] /\ h \in Hilo
      /\ EnCocina(t) /\ Candados(t) /\ Levantados(t) /\ Vivas(t)
      /\ MemoriaBien(mem) /\ Fijadas /\ Cuentas /\ hecho \in [Paginas -> Contenido]
  <2>1. h.pc = "SUMAR_LISTA"
    BY DEF SumarLista, En
  <2>2. h.op = "PLATO_LISTO"
    BY <2>1, OpK
  <2> QED BY <2>1, <2>2, EnK DEF Lugar, ConPlato, ConSwap, Fija, TiposH
<1>2. p \in Paginas /\ tiene_pagina(mem, p) /\ mem.paginas[p].presencia
  <2>1. p \in Paginas
    BY <1>1, PaginaDePar DEF Pagina
  <2>2. tiene_pagina(mem, p)
    BY <1>1 DEF Vivas, SigueSuPagina, EnCocina, Busqueda
  <2>3. h.plato \in PlatosDelPedido(t)
    BY <1>1, <2>2 DEF PlatosDelPedido, tabla_de_platos, Pagina
  <2> QED BY <1>1, <2>1, <2>2, <2>3 DEF Levantados, Pagina
<1>3. /\ mem' = sumar_cantidad_lista(mem, p)
      /\ hilos' = [hilos EXCEPT ![t].pc = "CONTAR", ![t].dato.valor = 0]
      /\ UNCHANGED <<tablas, candados, consola, fallo>>
  <2>1. mem.paginas[p].frame_mp # -1
    BY <1>1, <1>2 DEF MemoriaBien, FramesBien
  <2> QED BY <2>1 DEF SumarLista
<1>4. /\ hilos'[t].pc = "CONTAR"
      /\ hilos'[t].op = h.op /\ hilos'[t].pedido = h.pedido /\ hilos'[t].plato = h.plato
      /\ hilos'[t].pendientes = h.pendientes /\ hilos'[t].colgado = h.colgado
      /\ \A u \in Hilos \ {t} : hilos'[u] = hilos[u]
  BY <1>1, <1>3 DEF Hilo
<1>5. /\ MemoriaBien(mem)' /\ mem'.lista = mem.lista
      /\ \A q \in Paginas : /\ mem'.paginas[q].frame_mv = mem.paginas[q].frame_mv
                            /\ mem'.paginas[q].presencia = mem.paginas[q].presencia
                            /\ mem'.paginas[q].lockeo = mem.paginas[q].lockeo
  BY <1>1, <1>2, <1>3, SumarListaBien, SumarMismaLista
<1>6. ContenidoCon(mem, mem', p, [Valor(mem, p) EXCEPT !.cantidad_lista = (@ + 1) % Modulo])
  BY <1>1, <1>2, <1>3, SumarListaContenido
<1>7. MismasPaginas(mem, mem') /\ PlatosDelPedido(t)' = PlatosDelPedido(t)
  <2>1. MismasPaginas(mem, mem')
    BY <1>5 DEF MismasPaginas, tiene_pagina
  <2> QED BY <1>1, <1>4, <2>1, MismasTablas DEF PlatosDelPedido
<1>8. (\A u \in Hilos \ {t} : Ajeno(t, u)) /\ Candados(t)'
  BY <1>1, <1>3, <1>4, <1>5, AjenoQuieto DEF ConSwap, candados
<1>9. KHilo(t)'
  <2>1. EnCocina(t)' /\ Recorre(t)' /\ Foto(t)'
    BY <1>1, <1>4 DEF EnCocina, Recorre, Recorriendo, Recorrido, Foto, AntesDeLeer, Busqueda
  <2>2. Levantados(t)'
    <3> SUFFICES ASSUME NEW g \in PlatosDelPedido(t)
                 PROVE  LET i == mem'.paginas[<<h.pedido, g>>] IN i.lockeo /\ i.presencia
      BY <1>4, <1>7 DEF Levantados
    <3>1. <<h.pedido, g>> \in Paginas
      BY <1>1, PaginaDePar DEF PlatosDelPedido, tabla_de_platos
    <3>2. LET i == mem.paginas[<<h.pedido, g>>] IN i.lockeo /\ i.presencia
      BY <1>1 DEF Levantados
    <3> QED BY <1>5, <3>1, <3>2
  <2> QED BY <1>8, <2>1, <2>2 DEF KHilo
<1>10. Fijadas'
  <2>1. Fija(t)'
    BY <1>4 DEF Fija
  <2> QED BY <1>1, <1>4, <1>5, <1>7, <2>1, FijadasIguales
<1>11. Cuentas'
  <2> SUFFICES ASSUME NEW q \in Paginas, tiene_pagina(mem', q) PROVE Cuenta(q)'
    BY DEF Cuentas
  <2>1. \A u \in Hilos \ {t} : u \in Contada(q)' <=> u \in Contada(q)
    BY <1>4 DEF Contada, Pagina
  <2>2. Contada(q)' \subseteq Hilos /\ Contada(q) \subseteq Hilos
    BY DEF Contada
  <2>3. t \notin Contada(q) /\ (t \in Contada(q)' <=> q = p)
    BY <1>1, <1>4 DEF Contada, Pagina
  <2>4. hecho' = hecho
    BY <1>3 DEF consola
  <2>5. CASE q = p
    <3>1. Contada(q)' = Contada(q) \cup {t}
      BY <2>1, <2>2, <2>3, <2>5
    <3>2. Valor(mem', p) = [Valor(mem, p) EXCEPT !.cantidad_lista = (@ + 1) % Modulo]
      BY <1>6 DEF ContenidoCon
    <3> QED BY <1>1, <1>2, <2>3, <2>4, <2>5, <3>1, <3>2, ContadaCon
  <2>6. CASE q # p
    <3>1. Contada(q)' = Contada(q)
      BY <2>1, <2>2, <2>3, <2>6
    <3>2. Valor(mem', q) = Valor(mem, q) /\ Cuenta(q)
      BY <1>1, <1>6, <2>6 DEF ContenidoCon, Cuentas
    <3> QED BY <2>4, <3>1, <3>2 DEF Cuenta
  <2> QED BY <2>5, <2>6
<1> QED BY <1>3, <1>5, <1>7, <1>8, <1>9, <1>10, <1>11, PasoDeCocina DEF tablas

(* The answer of plato_listo: what it has prepared is in the accounts. *)
LEMMA MarcarK ==
  ASSUME Sigue, KInv, NEW t \in Hilos, Marcar(t)
  PROVE  KInv'
<1> DEFINE h == hilos[t]
           p == Pagina(t)
<1>1. /\ h.pc = "MARCAR" /\ h.op = "PLATO_LISTO" /\ h.pedido \in Pedidos /\ h.plato \in Platos
      /\ hilos \in [Hilos -> Hilo] /\ Candados(t) /\ EnCocina(t) /\ Vivas(t)
      /\ MemoriaBien(mem) /\ Fijadas /\ Cuentas /\ hecho \in [Paginas -> Contenido]
  <2>1. h.pc = "MARCAR"
    BY DEF Marcar, En
  <2>2. h.op = "PLATO_LISTO"
    BY <2>1, OpK
  <2> QED BY <2>1, <2>2, EnK DEF Lugar, ConPlato, TiposH
<1>2. p \in Paginas /\ tiene_pagina(mem, p) /\ Valor(mem, p) \in Contenido
  <2>1. p \in Paginas
    BY <1>1, PaginaDePar DEF Pagina
  <2>2. tiene_pagina(mem, p)
    BY <1>1 DEF Vivas, SigueSuPagina, EnCocina, Busqueda
  <2> QED BY <1>1, <2>1, <2>2, ValorTipo
<1>3. /\ hecho' = [hecho EXCEPT ![p].cantidad_lista = (@ + 1) % Modulo]
      /\ hilos' = [hilos EXCEPT ![t] = Parado(h.faltan)]
      /\ UNCHANGED <<escenario, restaurantes, mem, candados, fallo>>
  BY DEF Marcar, Responder
<1>4. /\ hilos'[t].pc = "LIBRE" /\ hilos'[t].op = "NINGUNA" /\ ~ hilos'[t].colgado
      /\ \A u \in Hilos \ {t} : hilos'[u] = hilos[u]
  <2>1. hilos'[t] = Parado(h.faltan) /\ \A u \in Hilos \ {t} : hilos'[u] = hilos[u]
    BY <1>1, <1>3, Cambia
  <2> QED BY <2>1 DEF Parado
<1>5. KHilo(t)'
  <2>1. EnCocina(t)'
    BY <1>4 DEF EnCocina
  <2>2. \A q \in Paginas : lock_pagina'[q] # t
    BY <1>1, <1>3, SinMutex DEF ConSwap, candados
  <2> QED BY <1>4, <2>1, <2>2, HiloSuelto DEF Suelto, AntesDeLeer, Busqueda, Recorrido
<1>6. \A u \in Hilos \ {t} : Ajeno(t, u)
  BY <1>3, <1>4 DEF Ajeno, Residentes, candados
<1>7. MismasPaginas(mem, mem') /\ MemoriaBien(mem)'
  BY <1>1, <1>3 DEF MismasPaginas
<1>8. Fijadas'
  <2>1. ~ Fija(t)
    BY <1>1 DEF Fija
  <2> QED BY <1>1, <1>3, <1>4, <1>7, <2>1, FijadasIguales
<1>9. Cuentas'
  <2> SUFFICES ASSUME NEW q \in Paginas, tiene_pagina(mem', q) PROVE Cuenta(q)'
    BY DEF Cuentas
  <2>1. \A u \in Hilos \ {t} : u \in Contada(q)' <=> u \in Contada(q)
    BY <1>4 DEF Contada, Pagina
  <2>2. Contada(q)' \subseteq Hilos /\ Contada(q) \subseteq Hilos
    BY DEF Contada
  <2>3. t \notin Contada(q)' /\ (t \in Contada(q) <=> q = p)
    BY <1>1, <1>4 DEF Contada, Pagina
  <2>4. CASE q = p
    <3>1. Contada(q)' = Contada(q) \ {t}
      BY <2>1, <2>2, <2>3, <2>4
    <3> QED BY <1>1, <1>2, <1>3, <2>3, <2>4, <3>1, ContadaSin
  <2>5. CASE q # p
    <3>1. Contada(q)' = Contada(q)
      BY <2>1, <2>2, <2>3, <2>5
    <3>2. mem' = mem /\ hecho'[q] = hecho[q]
      BY <1>1, <1>2, <1>3, <2>5
    <3>3. Cuenta(q) /\ Valor(mem', q) = Valor(mem, q)
      BY <1>1, <3>2 DEF Cuentas
    <3> QED BY <3>1, <3>2, <3>3 DEF Cuenta
  <2> QED BY <2>4, <2>5
<1> QED BY <1>3, <1>5, <1>6, <1>7, <1>8, <1>9, PasoDeCocina

-----------------------------------------------------------------------------
(* The kitchen keeps its invariant. *)

(* Nobody follows anything freed. *)
LEMMA NadaLiberado ==
  ASSUME Sigue, KInv, NEW t \in Hilos
  PROVE  ~ UsaLiberado(t)
<1>1. ~ hilos[t].colgado /\ Recorre(t)
  BY EnK DEF EnCocina
<1>2. NingunaPagina \notin Paginas
  BY NingunoAssumption DEF NingunaPagina, Paginas
<1>3. hilos[t].pc = "LOCKEAR_PAGINA" => hilos[t].espera # NingunaPagina
  BY <1>1, <1>2 DEF Recorre, Residentes
<1> QED BY <1>1, <1>3 DEF UsaLiberado

(* The steps of the other handlers are not taken. *)
LEMMA SoloCocina ==
  ASSUME Sigue, KInv, NEW t \in Hilos
  PROVE  /\ ~ CrearTabla(t) /\ ~ TomarTabla(t) /\ ~ AgregarPedido(t)
         /\ ~ BuscarPlato(t) /\ ~ ReservarMV(t) /\ ~ AgregarPagina(t) /\ ~ ReservarMP(t)
         /\ ~ TomarPagina(t) /\ ~ Cargar(t) /\ ~ SoltarPagina(t) /\ ~ SwapDePlato(t)
         /\ ~ LeerTotal(t) /\ ~ EscribirTotal(t) /\ ~ Informar(t)
         /\ ~ SacarPedido(t) /\ ~ LiberarPagina(t) /\ ~ Liberado(t)
         /\ ~ UsarLiberado(t)
<1>1. ~ CrearTabla(t) /\ ~ TomarTabla(t) /\ ~ AgregarPedido(t)
  BY OpK DEF CrearTabla, TomarTabla, AgregarPedido, En
<1>2. ~ BuscarPlato(t) /\ ~ ReservarMV(t) /\ ~ AgregarPagina(t) /\ ~ ReservarMP(t)
  BY OpK DEF BuscarPlato, ReservarMV, AgregarPagina, ReservarMP, En, Alta
<1>3. ~ TomarPagina(t) /\ ~ Cargar(t) /\ ~ SoltarPagina(t) /\ ~ SwapDePlato(t)
  BY OpK DEF TomarPagina, Cargar, SoltarPagina, SwapDePlato, En
<1>4. ~ LeerTotal(t) /\ ~ EscribirTotal(t) /\ ~ Informar(t)
  BY OpK DEF LeerTotal, EscribirTotal, Informar, En
<1>5. ~ SacarPedido(t) /\ ~ LiberarPagina(t) /\ ~ Liberado(t)
  BY OpK DEF SacarPedido, LiberarPagina, Liberado, En
<1>6. ~ UsarLiberado(t)
  BY NadaLiberado DEF UsarLiberado
<1> QED BY <1>1, <1>2, <1>3, <1>4, <1>5, <1>6

(* Every step of a thread keeps the invariant. *)
LEMMA PasoK ==
  ASSUME Sigue, KInv, NEW t \in Hilos, Paso(t)
  PROVE  KInv'
<1>1. \/ Pedir(t) \/ BuscarRestaurante(t) \/ BuscarPedido(t) \/ ProbarEstado(t) \/ Confirmar(t)
      \/ TomarSwap(t) \/ Lockear(t) \/ LockearPagina(t) \/ Unlockear(t)
      \/ Fijar(t) \/ Levantar(t) \/ LockearLevantada(t) \/ Levantadas(t)
      \/ Enlistar(t) \/ Enlistados(t) \/ LeerEstado(t)
      \/ SumarLista(t) \/ Contar(t) \/ Contados(t) \/ Marcar(t)
  BY SoloCocina DEF Paso
<1> QED BY <1>1, PedirK, BuscarRestauranteK, BuscarPedidoK, ProbarEstadoK, ConfirmarK, TomarSwapK, LockearK,
           LockearPaginaK, UnlockearK, FijarK, LevantarK, LockearLevantadaK, LevantadasK, EnlistarK,
           EnlistadosK, LeerEstadoK, SumarListaK, ContarK, ContadosK, MarcarK

(* And so does one of nobody. *)
LEMMA QuietoK ==
  ASSUME KInv, UNCHANGED vars
  PROVE  KInv'
<1> USE DEF vars
<1>1. EsCocina' /\ fallo' = "NO" /\ MemoriaBien(mem)' /\ Caben(mem)'
  BY DEF KInv, EsCocina
<1>2. \A t \in Hilos : (ConSwap(t)' <=> ConSwap(t)) /\ (Fija(t)' <=> Fija(t))
                       /\ PlatosDelPedido(t)' = PlatosDelPedido(t) /\ Lectura(t)' = Lectura(t)
  BY DEF ConSwap, Fija, PlatosDelPedido, Lectura
<1>3. Residentes(mem)' = Residentes(mem)
  OBVIOUS
<1>4. ASSUME NEW t \in Hilos PROVE KHilo(t)'
  <2>1. KHilo(t)
    BY DEF KInv
  <2>2. EnCocina(t)' /\ Recorre(t)'
    BY <1>3, <2>1 DEF KHilo, EnCocina, Recorre
  <2>3. Candados(t)'
    BY <1>2, <1>3, <2>1 DEF KHilo, Candados
  <2>4. Levantados(t)' /\ Foto(t)'
    BY <1>2, <2>1 DEF KHilo, Levantados, Foto
  <2> QED BY <2>2, <2>3, <2>4 DEF KHilo
<1>5. Fijadas'
  BY <1>2 DEF KInv, Fijadas
<1>6. Cuentas'
  <2>1. \A q \in Paginas : Contada(q)' = Contada(q)
    BY DEF Contada, Pagina
  <2> QED BY <2>1 DEF KInv, Cuentas, Cuenta
<1> QED BY <1>1, <1>4, <1>5, <1>6 DEF KInv

(* At the start every thread is free, no mutex is held, nothing is pinned, *)
(* and the accounts are what the memory has.                               *)
LEMMA InicioK ==
  ASSUME Init, EsCocina
  PROVE  KInv
<1>1. PICK n \in DOMAIN Escenarios : \E e \in {Escenarios[n]} :
        /\ escenario = n
        /\ mem = e.mem
        /\ lock_pagina = [p \in Paginas |-> Nadie]
        /\ hilos = [t \in Hilos |->
             Parado(IF \E s \in e.solicitudes : s.hilo = t THEN e.faltan ELSE 0)]
        /\ hecho = [p \in Paginas |-> IF tiene_pagina(mem, p) THEN Valor(mem, p)
                                      ELSE [cantidad_total |-> 0, cantidad_lista |-> 0]]
        /\ fallo = "NO"
  BY Zenon DEF Init
<1>2. MemoriaBien(mem)
  <2> DEFINE e == Escenarios[n]
  <2>1. MemoriaBien(e.mem)
    BY EscenariosAssumption
  <2>2. mem = e.mem
    BY <1>1
  <2> QED BY <2>1, <2>2
<1>3. Caben(mem) /\ \A p \in Paginas : ~ mem.paginas[p].lockeo
  BY <1>1 DEF EsCocina
<1>4. \A t \in Hilos : hilos[t].pc = "LIBRE" /\ hilos[t].op = "NINGUNA" /\ ~ hilos[t].colgado
  <2> SUFFICES ASSUME NEW t \in Hilos
               PROVE  hilos[t].pc = "LIBRE" /\ hilos[t].op = "NINGUNA" /\ ~ hilos[t].colgado
    OBVIOUS
  <2>1. PICK e \in {Escenarios[n]} :
          hilos = [u \in Hilos |->
            Parado(IF \E s \in e.solicitudes : s.hilo = u THEN e.faltan ELSE 0)]
    BY <1>1
  <2>2. hilos[t] = Parado(IF \E s \in e.solicitudes : s.hilo = t THEN e.faltan ELSE 0)
    BY <2>1
  <2> QED BY <2>2 DEF Parado
<1>5. ASSUME NEW t \in Hilos PROVE KHilo(t)
  <2>1. EnCocina(t) /\ Recorre(t) /\ Levantados(t)
    BY <1>4 DEF EnCocina, Recorre, Recorriendo, Recorrido, Levantados, Fija
  <2>2. Candados(t)
    BY <1>1, NadieAssumption DEF Candados
  <2>3. Foto(t)
    BY <1>4 DEF Foto, AntesDeLeer, Busqueda, Recorrido
  <2> QED BY <2>1, <2>2, <2>3 DEF KHilo
<1>6. Fijadas
  BY <1>3 DEF Fijadas
<1>7. Cuentas
  <2> SUFFICES ASSUME NEW p \in Paginas, tiene_pagina(mem, p) PROVE Cuenta(p)
    BY DEF Cuentas
  <2>1. Contada(p) = {}
    BY <1>4 DEF Contada
  <2>2. IsFiniteSet(Contada(p)) /\ Cardinality(Contada(p)) = 0
    BY <2>1, FS_EmptySet
  <2>3. hecho[p] = Valor(mem, p)
    BY <1>1
  <2>4. Modulo \in Nat /\ Valor(mem, p).cantidad_lista \in Int
    BY <1>2, ValorTipo, ModuloAssumption DEF Contenido
  <2>5. hecho[p].cantidad_lista + Cardinality(Contada(p)) = Valor(mem, p).cantidad_lista + 0 * Modulo
    BY <2>2, <2>3, <2>4
  <2> QED BY <2>2, <2>3, <2>5 DEF Cuenta
<1> QED BY <1>1, <1>2, <1>3, <1>5, <1>6, <1>7 DEF KInv

(* The invariant of the kitchen, with any number of threads. *)
THEOREM SiempreKInv == Spec /\ EsCocina => []KInv
<1>1. Init /\ EsCocina => KInv
  BY InicioK
<1>2. HInv /\ KInv /\ [Next]_vars => KInv'
  <2> SUFFICES ASSUME HInv, KInv, [Next]_vars PROVE KInv'
    OBVIOUS
  <2>1. Sigue
    BY DEF HInv, KInv
  <2>2. CASE \E t \in Hilos : Paso(t)
    BY <2>1, <2>2, PasoK
  <2>3. CASE UNCHANGED vars
    BY <2>3, QuietoK
  <2> QED BY <2>2, <2>3 DEF Next, Terminar
<1> QED BY <1>1, <1>2, SiempreHInv, PTL DEF Spec

(* A step of one thread does not move another. *)
LEMMA PcDeOtro ==
  ASSUME Sigue, KInv, NEW t \in Hilos, NEW u \in Hilos, t # u, Paso(u)
  PROVE  hilos'[t].pc = hilos[t].pc
<1>1. hilos \in [Hilos -> Hilo] /\ hilos[t] \in Hilo
  BY EnK
<1>2. CASE Levantar(u)
  <2>1. PICK d \in hilos[u].pendientes :
          \/ hilos' = Visitado(u, d)
          \/ hilos' = SinNodo(Visitado(u, d), <<hilos[u].pedido, d>>)
          \/ \E como : Fallar(u, como)
          \/ \E p : hilos' = [Visitado(u, d) EXCEPT ![u].pc = "LOCKEAR_LEVANTADA", ![u].espera = p]
    BY <1>2, Zenon DEF Levantar
  <2>2. Visitado(u, d) \in [Hilos -> Hilo \cup {hilos'[u], Visitado(u, d)[u]}] /\ Visitado(u, d)[t] = hilos[t]
    BY <1>1 DEF Visitado
  <2>3. CASE hilos' = SinNodo(Visitado(u, d), <<hilos[u].pedido, d>>)
    <3> DEFINE hs == Visitado(u, d)
               p == <<hilos[u].pedido, d>>
    <3>1. hilos'[t] = hilos[t] \/ \E c : hilos'[t] = [hilos[t] EXCEPT !.cursor = c]
      BY <2>2, <2>3 DEF SinNodo
    <3> QED BY <1>1, <3>1 DEF Hilo
  <2> QED BY <1>1, <2>1, <2>2, <2>3 DEF Fallar, Ir, Visitado
<1>3. CASE Pedir(u) \/ BuscarRestaurante(u) \/ BuscarPedido(u) \/ ProbarEstado(u) \/ Confirmar(u)
           \/ LeerEstado(u) \/ Marcar(u)
  BY <1>1, <1>3 DEF Pedir, BuscarRestaurante, BuscarPedido, ProbarEstado, Confirmar, LeerEstado, Marcar,
    Ir, Fallar, Responder
<1>4. CASE TomarSwap(u) \/ Lockear(u) \/ LockearPagina(u) \/ Unlockear(u)
           \/ Fijar(u) \/ LockearLevantada(u) \/ Levantadas(u)
  BY <1>1, <1>4 DEF TomarSwap, Lockear, LockearPagina, Unlockear, Fijar, LockearLevantada,
    Levantadas, Ir, Fallar, Recorrer
<1>5. CASE Enlistar(u) \/ Enlistados(u) \/ SumarLista(u) \/ Contar(u) \/ Contados(u)
  BY <1>1, <1>5 DEF Enlistar, Enlistados, SumarLista, Contar, Contados, Visitado, Fallar, Ir, Recorrer
<1> QED BY <1>2, <1>3, <1>4, <1>5, SoloCocina DEF Paso

(* obtener_pedido leaves the order when what it has listed is the order. *)
LEMMA FotoDelPaso ==
  ASSUME Sigue, KInv, NEW t \in Hilos, Paso(t), hilos[t].pc = "ENLISTAR", hilos'[t].pc = "UNLOCKEAR"
  PROVE  hilos[t].leido = {<<d, Valor(mem, <<hilos[t].pedido, d>>)>> : d \in PlatosDelPedido(t)}
<1>1. hilos \in [Hilos -> Hilo] /\ Foto(t)
  BY EnK
<1>2. Enlistar(t) \/ Enlistados(t)
  BY SoloCocina DEF Paso, En, Pedir, BuscarRestaurante, BuscarPedido, ProbarEstado, Confirmar,
    TomarSwap, Lockear,
    LockearPagina, Unlockear, Fijar, Levantar, LockearLevantada, Levantadas, LeerEstado,
    SumarLista, Contar, Contados, Marcar
<1>3. ~ Enlistar(t)
  <2> SUFFICES ASSUME Enlistar(t) PROVE FALSE
    OBVIOUS
  <2>1. \/ \E como : Fallar(t, como)
        \/ \E d, x : hilos' = [Visitado(t, d) EXCEPT ![t].leido = x]
    BY DEF Enlistar
  <2> QED BY <1>1, <2>1 DEF Fallar, Ir, Visitado, Hilo
<1>4. hilos[t].pendientes = {} /\ hilos[t].leido = Lectura(t)
  BY <1>1, <1>2, <1>3 DEF Enlistados, Foto
<1> QED BY <1>4 DEF Lectura

(* Whoever holds lock_swap is not kept waiting. *)
LEMMA ConSwapSigue ==
  ASSUME Sigue, KInv, NEW t \in Hilos, ConSwap(t), EsperaPagina(t)
  PROVE  \E u \in Activos : ~ EsperaSwap(u) /\ ~ EsperaPagina(u)
<1> DEFINE p == hilos[t].espera
<1>1. Recorre(t) /\ lock_pagina \in [Paginas -> Hilos \cup {Nadie}] /\ hilos[t].pc # "TOMAR_PAGINA"
  BY EnK, OpK DEF TiposH
<1>2. hilos[t].pc = "LOCKEAR_PAGINA" /\ lock_pagina[p] # Nadie /\ p \in Paginas /\ lock_pagina[p] # t
  BY <1>1 DEF EsperaPagina, PaginaEsperada, Recorre, Residentes
<1>3. PICK u \in Hilos : lock_pagina[p] = u /\ u # t
  BY <1>1, <1>2
<1>4. hilos[u].pc = "UNLOCKEAR"
  BY <1>2, <1>3, EnK, UnoConSwap DEF Candados
<1> QED BY <1>4 DEF Activos, EsperaSwap, EsperaPagina

(* So somebody can go on. *)
LEMMA NoHayBloqueo ==
  ASSUME Sigue, KInv
  PROVE  ~ Bloqueo
<1> SUFFICES ASSUME Bloqueo PROVE FALSE
  OBVIOUS
<1>1. \A t \in Hilos : ~ ConSwap(t)
  <2> SUFFICES ASSUME NEW t \in Hilos, ConSwap(t) PROVE FALSE
    OBVIOUS
  <2>1. t \in Activos /\ ~ EsperaSwap(t)
    BY DEF ConSwap, Activos, EsperaSwap
  <2> QED BY <2>1, ConSwapSigue DEF Bloqueo
<1>2. PICK t \in Activos : EsperaSwap(t) \/ EsperaPagina(t)
  BY DEF Bloqueo
<1>3. ~ EsperaSwap(t)
  BY <1>1 DEF EsperaSwap, Sigue, TiposH, DuenoDeSwap
<1>4. ~ EsperaPagina(t)
  <2>1. t \in Hilos /\ hilos[t].pc # "TOMAR_PAGINA"
    BY OpK DEF Activos
  <2> QED BY <1>1, <2>1 DEF EsperaPagina, ConSwap
<1> QED BY <1>2, <1>3, <1>4

(* With everybody at rest the accounts are what the memory has. *)
LEMMA NadaPendiente ==
  ASSUME Sigue, KInv
  PROVE  NadaPerdido
<1> SUFFICES ASSUME Reposo, NEW p \in Paginas, tiene_pagina(mem, p) PROVE Valor(mem, p) = hecho[p]
  BY DEF NadaPerdido
<1>1. Contada(p) = {}
  BY DEF Contada, Reposo
<1>2. Cardinality(Contada(p)) = 0
  BY <1>1, FS_EmptySet
<1>3. Valor(mem, p) \in Contenido /\ hecho[p] \in Contenido
  BY ValorTipo DEF KInv, Sigue, TiposH
<1>4. hecho[p].cantidad_lista \in 0 .. Modulo - 1 /\ Valor(mem, p).cantidad_lista \in 0 .. Modulo - 1
  BY <1>3 DEF Contenido
<1>5. /\ hecho[p].cantidad_total = Valor(mem, p).cantidad_total
      /\ \E q \in Int : hecho[p].cantidad_lista + 0 = Valor(mem, p).cantidad_lista + q * Modulo
  BY <1>2 DEF KInv, Cuentas, Cuenta
<1>6. hecho[p].cantidad_lista + 0 = hecho[p].cantidad_lista
  BY <1>4
<1>7. hecho[p].cantidad_lista = Valor(mem, p).cantidad_lista
  BY <1>4, <1>5, <1>6, SinVueltas
<1> QED BY <1>3, <1>5, <1>7 DEF Contenido

(* The invariant holds with that of every server. *)
LEMMA Cocina ==
  Spec /\ EsCocina => [](Sigue /\ KInv)
<1>1. HInv /\ KInv => Sigue
  BY DEF HInv, KInv
<1> QED BY <1>1, SiempreHInv, SiempreKInv, PTL

(* In a kitchen no thread ever does anything undefined: it follows no NULL *)
(* and nothing freed, and reads no page that is not in main memory (what   *)
(* guardar_plato does for the log does not happen here).  What it needs is *)
(* that no order is larger than main memory.                               *)
THEOREM CocinaSinFallo == Spec /\ EsCocina => [](fallo = "NO")
<1>1. KInv => fallo = "NO"
  BY DEF KInv
<1> QED BY <1>1, SiempreKInv, PTL

(* Of everything that is confirmed, looked at and prepared at once nothing *)
(* is lost: when everybody was answered each dish has the quantities that  *)
(* the answers add up to.                                                  *)
THEOREM CocinaNadaPerdido == Spec /\ EsCocina => []NadaPerdido
<1>1. Sigue /\ KInv => NadaPerdido
  BY NadaPendiente
<1> QED BY <1>1, Cocina, PTL

(* No mutex stays locked, though the pages are unlocked by walking the list*)
(* as it is then, and obtener_pedido walks it without lock_swap.           *)
THEOREM CocinaCandadosLibres == Spec /\ EsCocina => []CandadosLibres
<1>1. Sigue /\ KInv => CandadosLibres
  <2> SUFFICES ASSUME Sigue, KInv, Reposo
               PROVE  lock_swap = Nadie /\ \A p \in Paginas : lock_pagina[p] = Nadie
    BY DEF CandadosLibres
  <2>1. \A t \in Hilos : ~ ConSwap(t) /\ hilos[t].pc # "UNLOCKEAR"
    BY DEF Reposo, ConSwap
  <2>2. lock_swap = Nadie
    BY <2>1 DEF Sigue, TiposH, DuenoDeSwap
  <2>3. \A t \in Hilos : \A p \in Paginas : lock_pagina[p] # t
    BY <2>1, EnK DEF Candados
  <2>4. lock_pagina \in [Paginas -> Hilos \cup {Nadie}]
    BY DEF Sigue, TiposH
  <2> QED BY <2>2, <2>3, <2>4
<1> QED BY <1>1, Cocina, PTL

(* The memory ends as one console leaves it, with nothing pinned.          *)
THEOREM CocinaMemoriaEnReposo == Spec /\ EsCocina => []MemoriaEnReposo
<1>1. KInv => MemoriaEnReposo
  <2> SUFFICES ASSUME KInv, Reposo
               PROVE  MemoriaBien(mem) /\ \A p \in Paginas : ~ mem.paginas[p].lockeo
    BY DEF MemoriaEnReposo
  <2>1. \A t \in Hilos : ~ Fija(t)
    BY DEF Reposo, Fija
  <2> QED BY <2>1 DEF KInv, Fijadas
<1> QED BY <1>1, SiempreKInv, PTL

(* What obtener_pedido answers is one moment of the order: when it leaves  *)
(* it, every dish still has the quantities that were read.                 *)
THEOREM CocinaFotoCoherente == Spec /\ EsCocina => FotoCoherente
<1> DEFINE Coherente ==
      \A t \in Hilos :
        hilos[t].pc = "ENLISTAR" /\ hilos'[t].pc = "UNLOCKEAR" =>
          hilos[t].leido = {<<d, Valor(mem, <<hilos[t].pedido, d>>)>> : d \in PlatosDelPedido(t)}
<1>1. Sigue /\ KInv /\ [Next]_vars => [Coherente]_vars
  <2> SUFFICES ASSUME Sigue, KInv, Next,
                      NEW t \in Hilos, hilos[t].pc = "ENLISTAR", hilos'[t].pc = "UNLOCKEAR"
               PROVE  hilos[t].leido = {<<d, Valor(mem, <<hilos[t].pedido, d>>)>> : d \in PlatosDelPedido(t)}
    OBVIOUS
  <2>1. PICK u \in Hilos : Paso(u)
    BY DEF Next, Terminar, vars
  <2>2. u = t
    BY <2>1, PcDeOtro
  <2> QED BY <2>1, <2>2, FotoDelPaso
<1> QED BY <1>1, Cocina, PTL DEF Spec, FotoCoherente

(* In a kitchen nobody waits for ever for a mutex: as long as there is a   *)
(* request in the server, some thread waits for none.  The owner of        *)
(* lock_swap only waits for pages that an obtener_pedido is unlocking, and *)
(* that one waits for nothing.                                             *)
THEOREM CocinaSinBloqueo == Spec /\ EsCocina => []~Bloqueo
<1>1. Sigue /\ KInv => ~ Bloqueo
  BY NoHayBloqueo
<1> QED BY <1>1, Cocina, PTL

=============================================================================

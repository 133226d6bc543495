----------------------------- MODULE Conexiones -----------------------------
(***************************************************************************)
(* The connections between the consoles and the comanda server: one per    *)
(* request, with the descriptor the server holds for it, the messages on   *)
(* their way, and the ways either side goes away: Ctrl-C (catch_signal),   *)
(* accept with no descriptor left, writing to a peer that is gone, and what*)
(* a handler does to memory that is not there.                             *)
(*                                                                         *)
(* What a request does to the orders is in Comanda and Hilos; here a       *)
(* handler is the messages it sends, whether it closes, and, of what those *)
(* modules find, that it may end the process or never come back from the   *)
(* mutexes.  Sockets are external: a connection delivers in order; a peer  *)
(* that closes with nothing unread lets the first later send through and   *)
(* answers it with a reset, after which a send raises SIGPIPE, which nobody*)
(* handles; a peer that closes with something unread resets at once and the*)
(* next send only fails.  send and recv are never tested by the code.      *)
(***************************************************************************)
EXTENDS Interfaz, Naturals, Sequences, FiniteSets

CONSTANTS
  Consolas,
  Ordenes,         \* the requests they make
  MaxDescriptores, \* RLIMIT_NOFILE, less what the server opened at start
  MaxConexiones,   \* bound: connections in a behaviour
  Interrumpibles   \* processes a user may stop with Ctrl-C

Servidor == "comanda"

ASSUME ConexionesAssumption ==
  /\ Ordenes \subseteq Operaciones \cup {"HANDSHAKE"}
  /\ MaxDescriptores \in Nat \ {0} /\ MaxConexiones \in Nat \ {0}
  /\ Servidor \notin Consolas /\ Interrumpibles \subseteq Consolas \cup {Servidor}

VARIABLES
  servidor,        \* "iniciando", "arriba", "terminando", "caido"
  causa,           \* why it ends, or ended
  cola,            \* connections that wait for accept
  conexiones,      \* every connection so far, in order
  consolas         \* where each console is, and its connection

vars == <<servidor, causa, cola, conexiones, consolas>>

Descriptores == 1 .. MaxDescriptores

(* A connection: whether the client's side is open, was closed, was closed *)
(* and then sent something, reset, or aborted; whether the request was     *)
(* sent; what was sent to the console and not read; the server's           *)
(* descriptor, 0 for none; what its thread does next; the result it sent.  *)
Nueva(op) ==
  [op |-> op, cliente |-> "abierta", solicitud |-> FALSE, bandeja |-> << >>,
   fd |-> 0, hilo |-> "nadie", resultado |-> "-"]

EnPrompt == [paso |-> "prompt", conexion |-> 0]
Muerta == [paso |-> "muerta", conexion |-> 0]

Init ==
  /\ servidor = "iniciando" /\ causa = "ninguna"
  /\ cola = << >> /\ conexiones = << >>
  /\ consolas = [c \in Consolas |-> EnPrompt]

EnPie == servidor # "caido"
Escucha == servidor \in {"iniciando", "arriba"}
Atendidas == DOMAIN conexiones
Ocupados == {conexiones[k].fd : k \in Atendidas} \ {0}

Libres == Descriptores \ Ocupados

Caer(motivo) ==
  /\ servidor' = "caido" /\ causa' = motivo
  /\ UNCHANGED <<cola, conexiones, consolas>>

(* --- The server --------------------------------------------------------- *)

(* The listening thread runs before the memory, the tables and the locks.  *)
Inicializar ==
  /\ servidor = "iniciando" /\ servidor' = "arriba"
  /\ UNCHANGED <<causa, cola, conexiones, consolas>>

(* accept takes the lowest free descriptor and a detached thread serves it. *)
Aceptar ==
  /\ Escucha /\ cola # << >> /\ Libres # {}
  /\ conexiones' = [conexiones EXCEPT ![Head(cola)].hilo = "recibir",
       ![Head(cola)].fd = CHOOSE d \in Libres : \A e \in Libres : d <= e]
  /\ cola' = Tail(cola)
  /\ UNCHANGED <<servidor, causa, consolas>>

(* terminar_programa closes the listening socket, which resets what waits  *)
(* in the queue, frees everything and exits, with the handlers running.    *)
EmpezarATerminar(motivo) ==
  /\ Escucha /\ servidor' = "terminando" /\ causa' = motivo
  /\ UNCHANGED <<cola, conexiones, consolas>>

(* With none left accept fails, and the listening thread ends the program. *)
AceptarFalla == Libres = {} /\ EmpezarATerminar("accept")

Con(k, conexion) ==
  /\ conexiones' = [conexiones EXCEPT ![k] = conexion]
  /\ UNCHANGED <<servidor, causa, cola, consolas>>

Liberada(conexion) == [conexion EXCEPT !.fd = 0, !.hilo = "fin"]

(* The request arrives, or the console went away without one and the       *)
(* descriptor is closed.                                                   *)
RecibirOperacion(k) ==
  LET x == conexiones[k] IN
  /\ EnPie /\ x.hilo = "recibir"
  /\ \/ x.solicitud /\ Con(k, [x EXCEPT !.hilo = "atender"])
     \/ ~ x.solicitud /\ x.cliente # "abierta" /\ Con(k, Liberada(x))

(* Mutants: obtener_pedido forgets its second message; plato_listo its     *)
(* answer.                                                                 *)
Enviado_sin_lista(x, mensaje) ==
  IF mensaje = "lista" THEN x ELSE [x EXCEPT !.bandeja = Append(@, mensaje)]
Enviado_mudo(x, mensaje) ==
  IF x.op = "PLATO_LISTO" THEN x ELSE [x EXCEPT !.bandeja = Append(@, mensaje)]

(* send: the bytes reach a console that is there, are answered with a      *)
(* reset by one that closed, and are lost on an aborted connection.        *)
Enviado(x, mensaje) ==
  CASE x.cliente = "abierta" -> [x EXCEPT !.bandeja = Append(@, mensaje)]
    [] x.cliente = "cerrada" -> [x EXCEPT !.cliente = "contestada"]
    [] OTHER -> x

(* Mutant: the connection is closed with the first message. *)
Enviar_y_cerrar(k, mensaje, sigue, fd, resultado) ==
  IF conexiones[k].cliente = "rota" THEN Caer("sigpipe")
  ELSE Con(k, [Enviado(conexiones[k], mensaje)
                 EXCEPT !.hilo = sigue, !.fd = 0, !.resultado = resultado])

Enviar(k, mensaje, sigue, fd, resultado) ==
  IF conexiones[k].cliente = "rota" THEN Caer("sigpipe")
  ELSE Con(k, [Enviado(conexiones[k], mensaje)
                 EXCEPT !.hilo = sigue, !.fd = fd, !.resultado = resultado])

(* A successful plato_listo and a handshake end without closing; a         *)
(* successful obtener_pedido has a second message to send.                 *)
SinCerrar(op, resultado) == resultado = "ok" /\ op \in {"PLATO_LISTO", "HANDSHAKE"}

(* Mutants: every success has a second message; a rejection returns        *)
(* without closing.                                                        *)
Siguiente_siempre_dos(op, resultado) ==
  IF resultado = "ok" THEN "lista" ELSE "cerrar"
Siguiente_sin_cerrar(op, resultado) ==
  IF op = "OBTENER_PEDIDO" /\ resultado = "ok" THEN "lista" ELSE "fin"

Siguiente(op, resultado) ==
  CASE op = "OBTENER_PEDIDO" /\ resultado = "ok" -> "lista"
    [] SinCerrar(op, resultado) -> "fin"
    [] OTHER -> "cerrar"

(* A handler that reaches its first message sends it.  Any but the         *)
(* handshake may also use memory that is not there and end the process: of *)
(* what was not created yet or was already freed, of the tables others     *)
(* change, of a victim or a frame that obtener_plato_de_memoria does not   *)
(* have (see Comanda and Hilos).                                           *)
Atender(k) ==
  /\ EnPie /\ conexiones[k].hilo = "atender"
  /\ \/ \E resultado \in {"ok", "mal"} :
          /\ conexiones[k].op = "HANDSHAKE" => resultado = "ok"
          /\ Enviar(k, resultado, Siguiente(conexiones[k].op, resultado),
                    conexiones[k].fd, resultado)
     \/ conexiones[k].op # "HANDSHAKE" /\ Caer("memoria")

(* Who takes lock_swap, and who takes the mutex of a page while it has it. *)
Swapean == {"GUARDAR_PLATO", "OBTENER_PEDIDO", "PLATO_LISTO"}
UsanSwap == Swapean \cup {"FINALIZAR_PEDIDO"}

(* A guardar_plato that waits for lock_swap with the mutex of an evicted   *)
(* page, and the owner of lock_swap that waits for that page.              *)
SeTraban(hs) ==
  \E k \in hs : /\ conexiones[k].op = "GUARDAR_PLATO"
                /\ \E j \in hs \ {k} : conexiones[j].op \in Swapean

Trabados == {k \in Atendidas : conexiones[k].hilo = "trabado"}

(* Such handlers wait for each other for ever, and with them, then or      *)
(* later, those that need lock_swap (CausaDeBloqueo in Hilos).             *)
Trabar(hs) ==
  /\ EnPie /\ servidor # "iniciando"
  /\ \A k \in hs : conexiones[k].hilo = "atender" /\ conexiones[k].op \in UsanSwap
  /\ SeTraban(hs \cup Trabados)
  /\ conexiones' = [k \in Atendidas |-> IF k \in hs THEN [conexiones[k] EXCEPT !.hilo = "trabado"]
                                        ELSE conexiones[k]]
  /\ UNCHANGED <<servidor, causa, cola, consolas>>

EnviarLista(k) ==
  /\ EnPie /\ conexiones[k].hilo = "lista"
  /\ Enviar(k, "lista", "cerrar", conexiones[k].fd, conexiones[k].resultado)

LiberarConexion(k) ==
  EnPie /\ conexiones[k].hilo = "cerrar" /\ Con(k, Liberada(conexiones[k]))

(* Ctrl-C *)
TerminarPrograma == Servidor \in Interrumpibles /\ EmpezarATerminar("interrupcion")

Salir == servidor = "terminando" /\ Caer(causa)

(* terminar_programa again, over what it freed: by the listening thread,   *)
(* whose socket Ctrl-C closed, or by a Ctrl-C while that one ends.         *)
TerminarOtraVez ==
  /\ servidor = "terminando" /\ Servidor \in Interrumpibles
  /\ Caer("memoria")

(* --- The consoles ------------------------------------------------------- *)

(* The reset that answers what was sent to a console that had closed.      *)
LlegaReset(k) ==
  /\ conexiones[k].cliente = "contestada" /\ EnPie
  /\ Con(k, [conexiones[k] EXCEPT !.cliente = "rota"])

Mover(c, consola) == consolas' = [consolas EXCEPT ![c] = consola]

Conectar(c, op) ==
  /\ consolas[c] = EnPrompt /\ Escucha
  /\ Len(conexiones) < MaxConexiones
  /\ conexiones' = Append(conexiones, Nueva(op))
  /\ cola' = Append(cola, Len(conexiones) + 1)
  /\ Mover(c, [paso |-> "enviar", conexion |-> Len(conexiones) + 1])
  /\ UNCHANGED <<servidor, causa>>

(* crear_conexion returns -1, the console sends and receives on -1, and    *)
(* reads as an answer what the memory happens to hold: it reports          *)
(* something, or dies.                                                     *)
ConectarFalla(c) ==
  /\ consolas[c] = EnPrompt /\ ~ Escucha
  /\ \E despues \in {EnPrompt, Muerta} : Mover(c, despues)
  /\ UNCHANGED <<servidor, causa, cola, conexiones>>

EnviarSolicitud(c) ==
  LET k == consolas[c].conexion IN
  /\ consolas[c].paso = "enviar"
  /\ conexiones' = [conexiones EXCEPT ![k].solicitud = TRUE]
  /\ Mover(c, [paso |-> "esperar", conexion |-> k])
  /\ UNCHANGED <<servidor, causa, cola>>

(* A side that closes with something unread aborts the connection; a       *)
(* handshake reads the code of the answer and not its size.                *)
Cerrada(x) ==
  [x EXCEPT !.bandeja = << >>,
            !.cliente = IF x.bandeja = << >> THEN "cerrada" ELSE "abortada"]

Leida(x) == [x EXCEPT !.bandeja = IF x.op = "HANDSHAKE" THEN @ ELSE Tail(@)]

(* recibir_descripcion, and the second message of obtener_pedido if there  *)
(* is one; then the console closes and is back at its prompt.              *)
Leer(c) ==
  LET k == consolas[c].conexion
      x == conexiones[k]
      esperaMas == x.op = "OBTENER_PEDIDO" /\ consolas[c].paso = "esperar"
                     /\ Head(x.bandeja) = "ok" IN
  /\ consolas[c].paso \in {"esperar", "esperar_lista"} /\ x.bandeja # << >>
  /\ conexiones' = [conexiones EXCEPT
       ![k] = IF esperaMas THEN Leida(x) ELSE Cerrada(Leida(x))]
  /\ Mover(c, IF esperaMas THEN [paso |-> "esperar_lista", conexion |-> k] ELSE EnPrompt)
  /\ UNCHANGED <<servidor, causa, cola>>

(* The connection of a console that waits was closed by the other side.    *)
Cortada(k) ==
  /\ conexiones[k].bandeja = << >>
  /\ \/ ~ EnPie
     \/ servidor = "terminando" /\ conexiones[k].hilo = "nadie"
     \/ conexiones[k].hilo = "fin" /\ conexiones[k].fd = 0

(* recv returns 0: recibir_operacion closes, the rest is read from a       *)
(* closed descriptor and means nothing, as in ConectarFalla.               *)
LeerNada(c) ==
  LET k == consolas[c].conexion IN
  /\ consolas[c].paso \in {"esperar", "esperar_lista"} /\ Cortada(k)
  /\ conexiones' = [conexiones EXCEPT ![k] = Cerrada(@)]
  /\ \E despues \in {EnPrompt, Muerta} : Mover(c, despues)
  /\ UNCHANGED <<servidor, causa, cola>>

(* Ctrl-C at the console: exit closes its connection, if it has one.       *)
Interrumpir(c) ==
  LET k == consolas[c].conexion IN
  /\ c \in Interrumpibles /\ consolas[c].paso # "muerta"
  /\ conexiones' = IF k = 0 THEN conexiones
                   ELSE [conexiones EXCEPT ![k] = Cerrada(@)]
  /\ Mover(c, Muerta)
  /\ UNCHANGED <<servidor, causa, cola>>

Hilo(k) ==
  RecibirOperacion(k) \/ Atender(k) \/ EnviarLista(k) \/ LiberarConexion(k)

Comanda ==
  \/ Inicializar \/ Aceptar \/ AceptarFalla
  \/ TerminarPrograma \/ Salir \/ TerminarOtraVez

Responde(c) == EnviarSolicitud(c) \/ Leer(c) \/ LeerNada(c)

Consola(c) ==
  \/ \E op \in Ordenes : Conectar(c, op)
  \/ ConectarFalla(c)
  \/ Responde(c)
  \/ Interrumpir(c)

Next ==
  \/ Comanda
  \/ \E k \in Atendidas : Hilo(k) \/ LlegaReset(k)
  \/ \E hs \in SUBSET Atendidas \ {{}} : Trabar(hs)
  \/ \E c \in Consolas : Consola(c)

Spec == Init /\ [][Next]_vars

(* The scheduler runs the server's threads, so that a handler that is not  *)
(* left in a deadlock goes on (TodasAtendidas and CausaDeBloqueo in Hilos),*)
(* and a console that started a request goes through with it; nobody has to*)
(* start one.  accept is only asked to fail while somebody waits for it, so*)
(* that a deadlock may also stay, as with descriptors to spare.            *)
FairSpec ==
  /\ Spec
  /\ WF_vars(Inicializar) /\ WF_vars(Aceptar) /\ WF_vars(Salir)
  /\ WF_vars(cola # << >> /\ AceptarFalla)
  /\ \A k \in 1 .. MaxConexiones : WF_vars(k \in Atendidas /\ Hilo(k))
  /\ \A c \in Consolas : WF_vars(Responde(c))

(* --- Properties --------------------------------------------------------- *)

EnServicio(k) == conexiones[k].hilo \in {"recibir", "atender", "trabado", "lista", "cerrar"}

Retiene(k) == k \in Atendidas /\ conexiones[k].fd # 0

Pierde(k) ==
  /\ k \in Atendidas /\ conexiones[k].hilo = "fin"
  /\ SinCerrar(conexiones[k].op, conexiones[k].resultado)

(* A handler that still reads, writes or closes its descriptor has it      *)
(* open, and no other connection was given the same one: nobody answers on *)
(* another console's connection (esperar_cliente, liberar_conexion).       *)
DescriptorPropio ==
  \A k \in Atendidas :
    /\ EnServicio(k) => conexiones[k].fd # 0
    /\ \A j \in Atendidas \ {k} :
         conexiones[k].fd # 0 => conexiones[j].fd # conexiones[k].fd

(* While the server is up nobody waits in vain: a console that waits for a *)
(* message finds its connection open or the message in it, so the code     *)
(* that would read an answer out of nothing (recibir_descripcion does not  *)
(* look at what recv returned) is reached only when the server is gone, or *)
(* by a console that nobody served and terminar_programa left in the queue.*)
NadieLeeDeNada ==
  EnPie => \A c \in Consolas :
    LET k == consolas[c].conexion
    IN  consolas[c].paso \in {"esperar", "esperar_lista"} =>
          ~ Cortada(k) \/ (~ Escucha /\ conexiones[k].hilo = "nadie")

(* Two of the ways the server ends, at the moment it does: a send raises   *)
(* SIGPIPE only if a console left in the middle of an obtener_pedido, the  *)
(* one request answered with two messages; accept fails only with as many  *)
(* connections as descriptors, each being served, or deadlocked, or leaked *)
(* (plato_listo, handshake).                                               *)
CausaDeBaja ==
  [][causa' # causa =>
       /\ causa' = "sigpipe" =>
            \E k \in Atendidas : /\ conexiones[k].op = "OBTENER_PEDIDO"
                                 /\ conexiones[k].resultado = "ok"
                                 /\ conexiones[k].cliente = "rota"
       /\ causa' = "accept" =>
            Cardinality({k \in Atendidas : EnServicio(k) \/ Pierde(k)}) = MaxDescriptores]_vars

(* The connection is of a handler that a guardar_plato deadlocked with     *)
(* another one: it keeps its descriptor and its console.                   *)
Trabada(k) == k \in Atendidas /\ k \in Trabados /\ SeTraban(Trabados)

(* Every descriptor comes back, unless the request was a handshake or a    *)
(* plato_listo that went well, which keep it for ever, or its handler is in*)
(* the deadlock of a guardar_plato; nothing else does, however consoles    *)
(* come, go and are interrupted.                                           *)
DevuelveDescriptores ==
  \A k \in 1 .. MaxConexiones :
    Retiene(k) ~> (~ EnPie \/ ~ Retiene(k) \/ Pierde(k) \/ Trabada(k))

(* A console that started a request is back at its prompt or gone, whether *)
(* the server answers, ends before answering or was never there, unless    *)
(* the handler of its request is in that deadlock.                         *)
ConsolaVuelve ==
  \A c \in Consolas :
    consolas[c].paso = "enviar" ~>
      (consolas[c].paso \in {"prompt", "muerta"} \/ Trabada(consolas[c].conexion))

=============================================================================

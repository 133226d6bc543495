-------------------------- MODULE ConexionesProofs --------------------------
(***************************************************************************)
(* The safety of the connections between the consoles and the comanda      *)
(* server, for every number of consoles, connections and descriptors, and  *)
(* whoever is interrupted.                                                 *)
(***************************************************************************)
EXTENDS Conexiones, FiniteSetTheorems, SequenceTheorems, WellFoundedInduction, TLAPS

-----------------------------------------------------------------------------
(* The inductive invariant.                                                *)

Clientes == {"abierta", "cerrada", "contestada", "rota", "abortada"}
PasosDelHilo == {"nadie", "recibir", "atender", "trabado", "lista", "cerrar", "fin"}
PasosDeConsola == {"prompt", "muerta", "enviar", "esperar", "esperar_lista"}
Mensajes == {"ok", "mal", "lista"}

Conexion == [op        : Ordenes,
             cliente   : Clientes,
             solicitud : BOOLEAN,
             bandeja   : Seq(Mensajes),
             fd        : 0 .. MaxDescriptores,
             hilo      : PasosDelHilo,
             resultado : {"-", "ok", "mal"}]

Tipos ==
  /\ servidor \in {"iniciando", "arriba", "terminando", "caido"}
  /\ causa \in {"ninguna", "accept", "sigpipe", "memoria", "interrupcion"}
  /\ causa # "ninguna" <=> ~ Escucha
  /\ cola \in Seq(Atendidas)
  /\ conexiones \in Seq(Conexion)
  /\ consolas \in [Consolas -> [paso : PasosDeConsola, conexion : Atendidas \cup {0}]]

(* The queue holds, each once, connections that nobody serves yet. *)
Cola ==
  /\ \A i \in 1 .. Len(cola) : conexiones[cola[i]].hilo = "nadie"
  /\ \A i, j \in 1 .. Len(cola) : cola[i] = cola[j] => i = j

(* What a connection is at each step of its handler: the descriptor is the *)
(* connection's while it is served, and is left open by the two successes  *)
(* that do not close; a console that went away is not noticed before the   *)
(* first message is sent to it.                                            *)
EnSuPaso(x) ==
  /\ x.hilo = "nadie" => x.fd = 0
  /\ x.hilo \in {"recibir", "atender", "trabado", "lista", "cerrar"} => x.fd # 0
  /\ x.hilo = "fin" => (x.fd # 0 <=> SinCerrar(x.op, x.resultado))
  /\ x.hilo \in {"nadie", "recibir", "atender", "trabado"} =>
       x.resultado = "-" /\ x.cliente \in {"abierta", "cerrada", "abortada"}
  /\ x.hilo = "lista" => x.op = "OBTENER_PEDIDO" /\ x.resultado = "ok"
  /\ x.hilo = "cerrar" => ~ SinCerrar(x.op, x.resultado)

Pasos == \A k \in Atendidas : EnSuPaso(conexiones[k])

(* No two connections have the same descriptor. *)
Distintos ==
  \A k, j \in Atendidas : conexiones[k].fd # 0 /\ conexiones[j].fd = conexiones[k].fd => j = k

(* What a console that waits has in its connection: the messages that were *)
(* sent to it and that it has not read.                                    *)
DosMensajes(x) == x.op = "OBTENER_PEDIDO" /\ x.resultado = "ok"

PorLeer(x) ==
  IF x.hilo \in {"nadie", "recibir", "atender", "trabado"} THEN << >>
  ELSE IF x.hilo = "lista" THEN <<"ok">>
  ELSE IF DosMensajes(x) THEN <<"ok", "lista">> ELSE <<x.resultado>>

EnTurno(paso, x) ==
  /\ x.cliente = "abierta"
  /\ paso = "enviar" =>
       ~ x.solicitud /\ x.hilo \in {"nadie", "recibir"} /\ x.bandeja = << >>
  /\ paso = "esperar" => x.solicitud /\ x.bandeja = PorLeer(x)
  /\ paso = "esperar_lista" =>
       /\ x.solicitud /\ DosMensajes(x) /\ x.hilo \in {"lista", "cerrar", "fin"}
       /\ x.bandeja = IF x.hilo = "lista" THEN << >> ELSE <<"lista">>

EnConexion(c) == consolas[c].paso \in {"enviar", "esperar", "esperar_lista"}

(* A console has a connection while it is in a request; it is open at its  *)
(* side, and no other console's.                                           *)
Turnos ==
  /\ \A c \in Consolas :
       /\ EnConexion(c) <=> consolas[c].conexion # 0
       /\ EnConexion(c) => EnTurno(consolas[c].paso, conexiones[consolas[c].conexion])
  /\ \A c, d \in Consolas :
       EnConexion(c) /\ consolas[d].conexion = consolas[c].conexion => d = c

CInv == Tipos /\ Cola /\ Pasos /\ Distintos /\ Turnos

-----------------------------------------------------------------------------
(* One connection changes.                                                 *)

(* The positions of the connections. *)
LEMMA Posiciones ==
  ASSUME Tipos
  PROVE  /\ Atendidas = 1 .. Len(conexiones) /\ Len(conexiones) \in Nat
         /\ \A k \in Atendidas : conexiones[k] \in Conexion
BY LenProperties DEF Tipos, Atendidas

(* A connection that changes in place, keeping or giving up its            *)
(* descriptor, keeps the queue and the descriptors.                        *)
LEMMA UnaCambia ==
  ASSUME CInv, NEW k \in Atendidas, NEW y \in Conexion,
         conexiones' = [conexiones EXCEPT ![k] = y], cola' = cola,
         EnSuPaso(y), y.fd \in {conexiones[k].fd, 0},
         y.hilo = "nadie" <=> conexiones[k].hilo = "nadie"
  PROVE  /\ conexiones' \in Seq(Conexion) /\ Atendidas' = Atendidas /\ cola' \in Seq(Atendidas')
         /\ conexiones'[k] = y
         /\ \A j \in Atendidas : j # k => conexiones'[j] = conexiones[j]
         /\ Cola' /\ Pasos' /\ Distintos'
<1>1. /\ Atendidas = 1 .. Len(conexiones) /\ Len(conexiones) \in Nat
      /\ conexiones \in Seq(Conexion) /\ cola \in Seq(Atendidas)
      /\ \A i \in 1 .. Len(cola) : cola[i] \in Atendidas
  BY Posiciones DEF CInv, Tipos
<1>2. /\ conexiones' \in Seq(Conexion) /\ Atendidas' = Atendidas
      /\ conexiones'[k] = y
      /\ \A j \in Atendidas : j # k => conexiones'[j] = conexiones[j]
  BY <1>1 DEF Atendidas
<1>3. Cola'
  BY <1>1, <1>2 DEF CInv, Cola
<1>4. Pasos'
  BY <1>2 DEF CInv, Pasos
<1>5. Distintos'
  BY <1>2 DEF CInv, Distintos
<1> QED BY <1>1, <1>2, <1>3, <1>4, <1>5

(* Both cases of a change made by the server while it is up. *)
LEMMA ConBien ==
  ASSUME CInv, EnPie, NEW k \in Atendidas, NEW y \in Conexion, Con(k, y),
         EnSuPaso(y), y.fd \in {conexiones[k].fd, 0},
         y.hilo = "nadie" <=> conexiones[k].hilo = "nadie",
         \A paso \in PasosDeConsola :
           EnTurno(paso, conexiones[k]) => EnTurno(paso, y)
  PROVE  CInv'
<1>1. /\ conexiones' = [conexiones EXCEPT ![k] = y]
      /\ UNCHANGED <<servidor, causa, cola, consolas>>
  BY DEF Con
<1>2. /\ conexiones' \in Seq(Conexion) /\ Atendidas' = Atendidas /\ cola' \in Seq(Atendidas')
      /\ conexiones'[k] = y
      /\ \A j \in Atendidas : j # k => conexiones'[j] = conexiones[j]
      /\ Cola' /\ Pasos' /\ Distintos'
  BY <1>1, UnaCambia
<1>3. Tipos'
  BY <1>1, <1>2 DEF CInv, Tipos, Escucha
<1>4. Turnos'
  <2>1. \A c \in Consolas : consolas[c].paso \in PasosDeConsola
                            /\ consolas[c].conexion \in Atendidas \cup {0}
    BY DEF CInv, Tipos
  <2>2. ASSUME NEW c \in Consolas, EnConexion(c)
        PROVE  EnTurno(consolas[c].paso, conexiones'[consolas[c].conexion])
    BY <1>2, <2>1, <2>2 DEF CInv, Turnos
  <2> QED BY <1>1, <2>2 DEF CInv, Turnos, EnConexion
<1> QED BY <1>2, <1>3, <1>4 DEF CInv

(* The end of the server, and what precedes it in terminar_programa. *)
LEMMA CaerBien ==
  ASSUME CInv, NEW motivo \in {"accept", "sigpipe", "memoria", "interrupcion"},
         Caer(motivo) \/ EmpezarATerminar(motivo)
  PROVE  CInv'
<1>1. /\ servidor' \in {"terminando", "caido"} /\ causa' = motivo
      /\ UNCHANGED <<cola, conexiones, consolas>>
  BY DEF Caer, EmpezarATerminar
<1> QED BY <1>1 DEF CInv, Tipos, Cola, Pasos, Distintos, Turnos, EnConexion, Atendidas, Escucha

-----------------------------------------------------------------------------
(* The server's side.                                                      *)

(* The few messages of a connection, in order. *)
LEMMA Bandejas ==
  /\ \A a : Append(<< >>, a) = <<a>> /\ Head(<<a>>) = a /\ Tail(<<a>>) = << >>
  /\ \A a, b : /\ Append(<<a>>, b) = <<a, b>>
               /\ Head(<<a, b>>) = a /\ Tail(<<a, b>>) = <<b>>
  /\ \A a, b : <<a>> # << >> /\ <<a, b>> # << >>
  /\ \A s \in Seq(Mensajes), a \in Mensajes : Append(s, a) \in Seq(Mensajes)
<1>1. ASSUME NEW a, NEW b PROVE Append(<<a>>, b) = <<a, b>>
  <2>1. <<a>> \in Seq({a, b}) /\ Len(<<a>>) = 1
    OBVIOUS
  <2>2. /\ Append(<<a>>, b) \in Seq({a, b}) /\ Len(Append(<<a>>, b)) = 2
        /\ Append(<<a>>, b)[1] = a /\ Append(<<a>>, b)[2] = b
    BY <2>1, AppendProperties
  <2>3. <<a, b>> \in Seq({a, b}) /\ Len(<<a, b>>) = 2
        /\ <<a, b>>[1] = a /\ <<a, b>>[2] = b
    OBVIOUS
  <2>4. \A i \in 1 .. 2 : Append(<<a>>, b)[i] = <<a, b>>[i]
    <3>1. \A i \in 1 .. 2 : i = 1 \/ i = 2
      OBVIOUS
    <3> QED BY <3>1, <2>2, <2>3
  <2> QED BY <2>2, <2>3, <2>4, SeqEqual
<1>2. \A a : Append(<< >>, a) = <<a>> /\ Head(<<a>>) = a /\ Tail(<<a>>) = << >>
  OBVIOUS
<1>3. \A a, b : Head(<<a, b>>) = a /\ Tail(<<a, b>>) = <<b>>
  OBVIOUS
<1>4. \A a, b : <<a>> # << >> /\ <<a, b>> # << >>
  OBVIOUS
<1>5. \A s \in Seq(Mensajes), a \in Mensajes : Append(s, a) \in Seq(Mensajes)
  OBVIOUS
<1> QED BY <1>1, <1>2, <1>3, <1>4, <1>5

(* The initial state. *)
LEMMA InicioC == Init => CInv
<1> SUFFICES ASSUME Init PROVE CInv
  OBVIOUS
<1>1. conexiones = << >> /\ cola = << >> /\ Atendidas = {} /\ Len(conexiones) = 0
      /\ Len(cola) = 0
  BY DEF Init, Atendidas
<1>2. Tipos
  BY <1>1 DEF Init, Tipos, EnPrompt, PasosDeConsola, Escucha
<1>3. Cola /\ Pasos /\ Distintos
  BY <1>1 DEF Cola, Pasos, Distintos
<1>4. Turnos
  BY DEF Init, Turnos, EnConexion, EnPrompt
<1> QED BY <1>2, <1>3, <1>4 DEF CInv

(* A connection that the server closes has given its descriptor up. *)
LEMMA LiberadaCampos ==
  ASSUME NEW x \in Conexion
  PROVE  LET y == Liberada(x)
         IN  /\ y \in Conexion /\ y.fd = 0 /\ y.hilo = "fin"
             /\ y.op = x.op /\ y.cliente = x.cliente /\ y.solicitud = x.solicitud
             /\ y.bandeja = x.bandeja /\ y.resultado = x.resultado
<1>1. 0 \in 0 .. MaxDescriptores
  BY ConexionesAssumption
<1> QED BY <1>1 DEF Liberada, Conexion, PasosDelHilo

(* recibir_operacion: the request arrives, or its console went away. *)
LEMMA RecibirBien ==
  ASSUME CInv, NEW k \in Atendidas, RecibirOperacion(k)
  PROVE  CInv'
<1>1. PICK x \in Conexion : x = conexiones[k] /\ EnSuPaso(x)
  BY Posiciones DEF CInv, Pasos
<1>2. EnPie /\ x.hilo = "recibir"
  BY <1>1 DEF RecibirOperacion
<1>3. CASE x.solicitud /\ Con(k, [x EXCEPT !.hilo = "atender"])
  <2>1. PICK y : y = [x EXCEPT !.hilo = "atender"]
    OBVIOUS
  <2>2. y \in Conexion /\ EnSuPaso(y) /\ y.fd = x.fd /\ y.hilo # "nadie"
    BY <1>1, <1>2, <2>1 DEF Conexion, PasosDelHilo, EnSuPaso
  <2>3. \A paso \in PasosDeConsola : EnTurno(paso, x) => EnTurno(paso, y)
    BY <1>2, <1>3, <2>1 DEF Conexion, EnTurno, PorLeer, DosMensajes
  <2> QED BY <1>1, <1>2, <1>3, <2>1, <2>2, <2>3, ConBien
<1>4. CASE ~ x.solicitud /\ x.cliente # "abierta" /\ Con(k, Liberada(x))
  <2>1. PICK y : y = Liberada(x)
    OBVIOUS
  <2>2. y \in Conexion /\ EnSuPaso(y) /\ y.fd = 0 /\ y.hilo # "nadie"
    BY <1>1, <1>2, <2>1, LiberadaCampos DEF EnSuPaso, SinCerrar
  <2>3. \A paso \in PasosDeConsola : EnTurno(paso, x) => EnTurno(paso, y)
    BY <1>4 DEF EnTurno
  <2> QED BY <1>1, <1>2, <1>4, <2>1, <2>2, <2>3, ConBien
<1> QED BY <1>1, <1>3, <1>4 DEF RecibirOperacion

(* A message sent, with what the handler does next. *)
Enviada(x, mensaje, h, f, r) ==
  [Enviado(x, mensaje) EXCEPT !.hilo = h, !.fd = f, !.resultado = r]

(* A send only fills the inbox of a console that is there; a connection    *)
(* whose console had closed is answered with a reset.                      *)
LEMMA EnviadaBien ==
  ASSUME NEW x \in Conexion, NEW mensaje \in Mensajes, NEW h \in PasosDelHilo,
         NEW f \in 0 .. MaxDescriptores, NEW r \in {"-", "ok", "mal"}
  PROVE  LET y == Enviada(x, mensaje, h, f, r)
         IN  /\ y \in Conexion
             /\ y.hilo = h /\ y.fd = f /\ y.resultado = r /\ y.op = x.op
             /\ y.solicitud = x.solicitud
             /\ y.cliente = "abierta" <=> x.cliente = "abierta"
             /\ x.cliente = "abierta" => y.bandeja = Append(x.bandeja, mensaje)
<1> DEFINE e == Enviado(x, mensaje)
<1>1. /\ e \in Conexion /\ e.op = x.op /\ e.solicitud = x.solicitud
      /\ e.cliente = "abierta" <=> x.cliente = "abierta"
      /\ x.cliente = "abierta" => e.bandeja = Append(x.bandeja, mensaje)
  <2>1. CASE x.cliente = "abierta"
    <3>1. e = [x EXCEPT !.bandeja = Append(@, mensaje)]
      BY <2>1 DEF Enviado
    <3>2. Append(x.bandeja, mensaje) \in Seq(Mensajes)
      BY Bandejas DEF Conexion
    <3> QED BY <2>1, <3>1, <3>2 DEF Conexion
  <2>2. CASE x.cliente = "cerrada"
    BY <2>2 DEF Enviado, Conexion, Clientes
  <2>3. CASE x.cliente \notin {"abierta", "cerrada"}
    BY <2>3 DEF Enviado
  <2> QED BY <2>1, <2>2, <2>3
<1>2. Enviada(x, mensaje, h, f, r) = [e EXCEPT !.hilo = h, !.fd = f, !.resultado = r]
  BY DEF Enviada
<1> HIDE DEF e
<1> QED BY <1>1, <1>2 DEF Conexion

(* What follows the result of a request. *)
LEMMA SiguienteBien ==
  ASSUME NEW op, NEW resultado
  PROVE  LET h == Siguiente(op, resultado)
         IN  /\ h = "lista" <=> op = "OBTENER_PEDIDO" /\ resultado = "ok"
             /\ h = "fin" => SinCerrar(op, resultado)
             /\ h = "cerrar" => ~ SinCerrar(op, resultado)
             /\ h \in {"lista", "fin", "cerrar"}
<1>1. CASE op = "OBTENER_PEDIDO" /\ resultado = "ok"
  <2>1. Siguiente(op, resultado) = "lista"
    BY <1>1 DEF Siguiente, SinCerrar
  <2> QED BY <1>1, <2>1
<1>2. CASE SinCerrar(op, resultado)
  <2>1. ~ (op = "OBTENER_PEDIDO" /\ resultado = "ok")
    BY <1>2 DEF SinCerrar
  <2>2. Siguiente(op, resultado) = "fin"
    BY <1>2, <2>1 DEF Siguiente
  <2> QED BY <1>2, <2>1, <2>2
<1>3. CASE ~ (op = "OBTENER_PEDIDO" /\ resultado = "ok") /\ ~ SinCerrar(op, resultado)
  <2>1. Siguiente(op, resultado) = "cerrar"
    BY <1>3 DEF Siguiente
  <2> QED BY <1>3, <2>1
<1> QED BY <1>1, <1>2, <1>3

(* The first message of a request, its result.  Its console may be gone,   *)
(* but nothing was sent to it before, so it raises no signal.              *)
LEMMA AtenderBien ==
  ASSUME CInv, NEW k \in Atendidas, Atender(k)
  PROVE  CInv'
<1>1. PICK x \in Conexion : x = conexiones[k] /\ EnSuPaso(x)
  BY Posiciones DEF CInv, Pasos
<1>2. /\ EnPie /\ x.hilo = "atender" /\ x.resultado = "-"
      /\ x.cliente \in {"abierta", "cerrada", "abortada"} /\ x.fd # 0
      /\ x.fd \in 0 .. MaxDescriptores
  BY <1>1 DEF Atender, EnSuPaso, Conexion
<1>3. ASSUME NEW resultado \in {"ok", "mal"},
             Enviar(k, resultado, Siguiente(x.op, resultado), x.fd, resultado)
      PROVE  CInv'
  <2> DEFINE h == Siguiente(x.op, resultado)
  <2>1. PICK y : y = Enviada(x, resultado, h, x.fd, resultado)
    OBVIOUS
  <2>2. Con(k, y)
    BY <1>1, <1>2, <1>3, <2>1 DEF Enviar, Enviada
  <2>3. /\ h = "lista" => x.op = "OBTENER_PEDIDO" /\ resultado = "ok"
        /\ x.op = "OBTENER_PEDIDO" /\ resultado = "ok" => h = "lista"
        /\ h = "fin" => SinCerrar(x.op, resultado)
        /\ h = "cerrar" => ~ SinCerrar(x.op, resultado)
        /\ h \in {"lista", "fin", "cerrar"}
    BY SiguienteBien
  <2> HIDE DEF h
  <2>4. /\ y \in Conexion
        /\ y.hilo = h /\ y.fd = x.fd /\ y.resultado = resultado /\ y.op = x.op
        /\ y.solicitud = x.solicitud
        /\ y.cliente = "abierta" <=> x.cliente = "abierta"
        /\ x.cliente = "abierta" => y.bandeja = Append(x.bandeja, resultado)
    <3>1. h \in PasosDelHilo /\ resultado \in Mensajes /\ resultado \in {"-", "ok", "mal"}
      BY <2>3 DEF PasosDelHilo, Mensajes
    <3> QED BY <1>2, <2>1, <3>1, EnviadaBien
  <2>5. EnSuPaso(y)
    BY <1>2, <2>3, <2>4 DEF EnSuPaso
  <2>6. ASSUME NEW paso \in PasosDeConsola, EnTurno(paso, x)
        PROVE  EnTurno(paso, y)
    <3>1. paso \in {"enviar", "esperar_lista"} => FALSE
      BY <1>2, <2>6 DEF EnTurno
    <3>2. paso = "esperar" => x.bandeja = << >> /\ x.solicitud
      BY <1>2, <2>6 DEF EnTurno, PorLeer
    <3>3. paso = "esperar" => y.bandeja = <<resultado>>
      BY <2>4, <2>6, <3>2, Bandejas DEF EnTurno
    <3>4. PorLeer(y) = <<resultado>>
      BY <2>3, <2>4 DEF PorLeer, DosMensajes
    <3> QED BY <2>4, <2>6, <3>1, <3>2, <3>3, <3>4 DEF EnTurno
  <2>7. y.hilo # "nadie" /\ y.fd = conexiones[k].fd
    BY <1>1, <2>3, <2>4
  <2> QED BY <1>1, <1>2, <2>2, <2>4, <2>5, <2>6, <2>7, ConBien
<1>4. CASE Caer("memoria")
  BY <1>4, CaerBien
<1> QED BY <1>1, <1>3, <1>4 DEF Atender

(* The second message of obtener_pedido.  It may raise the signal: the     *)
(* first one was answered with a reset.                                    *)
LEMMA EnviarListaBien ==
  ASSUME CInv, NEW k \in Atendidas, EnviarLista(k)
  PROVE  CInv'
<1>1. PICK x \in Conexion : x = conexiones[k] /\ EnSuPaso(x)
  BY Posiciones DEF CInv, Pasos
<1>2. /\ EnPie /\ x.hilo = "lista" /\ x.resultado = "ok" /\ x.op = "OBTENER_PEDIDO"
      /\ x.fd # 0 /\ x.fd \in 0 .. MaxDescriptores
      /\ Enviar(k, "lista", "cerrar", x.fd, x.resultado)
  BY <1>1 DEF EnviarLista, EnSuPaso, Conexion
<1>3. CASE x.cliente = "rota"
  <2>1. Caer("sigpipe")
    BY <1>1, <1>2, <1>3 DEF Enviar
  <2> QED BY <2>1, CaerBien
<1>4. CASE x.cliente # "rota"
  <2>1. PICK y : y = Enviada(x, "lista", "cerrar", x.fd, x.resultado)
    OBVIOUS
  <2>2. Con(k, y)
    BY <1>1, <1>2, <1>4, <2>1 DEF Enviar, Enviada
  <2>3. /\ y \in Conexion
        /\ y.hilo = "cerrar" /\ y.fd = x.fd /\ y.resultado = "ok" /\ y.op = x.op
        /\ y.solicitud = x.solicitud
        /\ y.cliente = "abierta" <=> x.cliente = "abierta"
        /\ x.cliente = "abierta" => y.bandeja = Append(x.bandeja, "lista")
    <3>1. /\ "cerrar" \in PasosDelHilo /\ "lista" \in Mensajes
          /\ x.resultado \in {"-", "ok", "mal"}
      BY <1>2 DEF PasosDelHilo, Mensajes
    <3> QED BY <1>2, <2>1, <3>1, EnviadaBien
  <2>4. EnSuPaso(y)
    BY <1>2, <2>3 DEF EnSuPaso, SinCerrar
  <2>5. ASSUME NEW paso \in PasosDeConsola, EnTurno(paso, x)
        PROVE  EnTurno(paso, y)
    <3>1. paso # "enviar" /\ y.bandeja = Append(x.bandeja, "lista") /\ y.cliente = "abierta"
      BY <1>2, <2>3, <2>5 DEF EnTurno
    <3>2. paso = "esperar" => x.bandeja = <<"ok">> /\ x.solicitud
      BY <1>2, <2>5 DEF EnTurno, PorLeer
    <3>3. paso = "esperar_lista" => x.bandeja = << >> /\ x.solicitud
      BY <1>2, <2>5 DEF EnTurno
    <3>4. /\ paso = "esperar" => y.bandeja = <<"ok", "lista">>
          /\ paso = "esperar_lista" => y.bandeja = <<"lista">>
      <4>1. Append(<<"ok">>, "lista") = <<"ok", "lista">> /\ Append(<< >>, "lista") = <<"lista">>
        BY Bandejas
      <4> QED BY <3>1, <3>2, <3>3, <4>1
    <3>5. PorLeer(y) = <<"ok", "lista">> /\ DosMensajes(y)
      BY <1>2, <2>3 DEF PorLeer, DosMensajes
    <3> QED BY <2>3, <3>1, <3>2, <3>3, <3>4, <3>5 DEF EnTurno
  <2>6. y.hilo # "nadie" /\ x.hilo # "nadie" /\ y.fd = conexiones[k].fd
    BY <1>1, <1>2, <2>3
  <2> QED BY <1>1, <1>2, <2>2, <2>3, <2>4, <2>5, <2>6, ConBien
<1> QED BY <1>3, <1>4

(* liberar_conexion *)
LEMMA LiberarConexionBien ==
  ASSUME CInv, NEW k \in Atendidas, LiberarConexion(k)
  PROVE  CInv'
<1>1. PICK x \in Conexion : x = conexiones[k] /\ EnSuPaso(x)
  BY Posiciones DEF CInv, Pasos
<1>2. PICK y : y = Liberada(x)
  OBVIOUS
<1>3. EnPie /\ x.hilo = "cerrar" /\ Con(k, y) /\ ~ SinCerrar(x.op, x.resultado)
  BY <1>1, <1>2 DEF LiberarConexion, EnSuPaso
<1>4. /\ y \in Conexion /\ y.fd = 0 /\ y.hilo = "fin"
      /\ y.op = x.op /\ y.cliente = x.cliente /\ y.solicitud = x.solicitud
      /\ y.bandeja = x.bandeja /\ y.resultado = x.resultado
  BY <1>2, LiberadaCampos
<1>5. EnSuPaso(y)
  BY <1>3, <1>4 DEF EnSuPaso
<1>6. \A paso \in PasosDeConsola : EnTurno(paso, x) => EnTurno(paso, y)
  BY <1>3, <1>4 DEF EnTurno, PorLeer, DosMensajes
<1> QED BY <1>1, <1>3, <1>4, <1>5, <1>6, ConBien

(* Handlers that are left in a deadlock. *)
LEMMA TrabarBien ==
  ASSUME CInv, NEW hs \in SUBSET Atendidas, Trabar(hs)
  PROVE  CInv'
<1>1. /\ conexiones \in Seq(Conexion) /\ cola \in Seq(Atendidas)
      /\ Atendidas = 1 .. Len(conexiones) /\ Len(conexiones) \in Nat
      /\ \A k \in Atendidas : conexiones[k] \in Conexion /\ EnSuPaso(conexiones[k])
      /\ \A i \in 1 .. Len(cola) : cola[i] \in Atendidas
  BY Posiciones DEF CInv, Tipos, Pasos
<1>2. /\ \A k \in hs : conexiones[k].hilo = "atender"
      /\ conexiones' = [k \in Atendidas |-> IF k \in hs THEN [conexiones[k] EXCEPT !.hilo = "trabado"]
                                            ELSE conexiones[k]]
      /\ UNCHANGED <<servidor, causa, cola, consolas>>
  BY DEF Trabar
<1>3. \A k \in Atendidas :
        LET x == conexiones[k]
            y == conexiones'[k]
        IN  /\ y \in Conexion /\ y.fd = x.fd /\ EnSuPaso(y)
            /\ \A paso \in PasosDeConsola : EnTurno(paso, x) => EnTurno(paso, y)
            /\ y.hilo = "nadie" <=> x.hilo = "nadie"
  <2> SUFFICES ASSUME NEW k \in Atendidas,
                      NEW x, x = conexiones[k], NEW y, y = conexiones'[k]
               PROVE  /\ y \in Conexion /\ y.fd = x.fd /\ EnSuPaso(y)
                      /\ \A paso \in PasosDeConsola : EnTurno(paso, x) => EnTurno(paso, y)
                      /\ y.hilo = "nadie" <=> x.hilo = "nadie"
    BY Zenon
  <2>1. CASE k \in hs
    <3>1. y = [x EXCEPT !.hilo = "trabado"] /\ x.hilo = "atender" /\ x \in Conexion /\ EnSuPaso(x)
      BY <1>1, <1>2, <2>1
    <3>2. /\ y \in Conexion /\ y.hilo = "trabado" /\ y.fd = x.fd /\ y.op = x.op
          /\ y.cliente = x.cliente /\ y.solicitud = x.solicitud
          /\ y.bandeja = x.bandeja /\ y.resultado = x.resultado
      BY <3>1 DEF Conexion, PasosDelHilo
    <3>3. EnSuPaso(y)
      BY <3>1, <3>2 DEF EnSuPaso
    <3>4. \A paso \in PasosDeConsola : EnTurno(paso, x) => EnTurno(paso, y)
      BY <3>1, <3>2 DEF EnTurno, PorLeer
    <3> QED BY <3>1, <3>2, <3>3, <3>4
  <2>2. CASE k \notin hs
    BY <1>1, <1>2, <2>2
  <2> QED BY <2>1, <2>2
<1>4. conexiones' \in Seq(Conexion) /\ Atendidas' = Atendidas
  <2>1. conexiones' \in [1 .. Len(conexiones) -> Conexion]
    BY <1>1, <1>2, <1>3
  <2> QED BY <1>1, <1>2, <2>1 DEF Atendidas
<1>5. Tipos'
  BY <1>2, <1>4 DEF CInv, Tipos, Escucha
<1>6. Cola'
  BY <1>1, <1>2, <1>3 DEF CInv, Cola
<1>7. Pasos'
  BY <1>3, <1>4 DEF Pasos
<1>8. Distintos'
  BY <1>3, <1>4 DEF CInv, Distintos
<1>9. Turnos'
  <2>1. \A c \in Consolas : /\ consolas[c].paso \in PasosDeConsola
                            /\ EnConexion(c) => consolas[c].conexion \in Atendidas
    BY DEF CInv, Tipos, Turnos
  <2>2. \A c \in Consolas : EnConexion(c) =>
          EnTurno(consolas[c].paso, conexiones'[consolas[c].conexion])
    BY <1>3, <2>1 DEF CInv, Turnos
  <2> QED BY <1>2, <2>2 DEF CInv, Turnos, EnConexion
<1> QED BY <1>5, <1>6, <1>7, <1>8, <1>9 DEF CInv

(* A reset arrives. *)
LEMMA LlegaResetBien ==
  ASSUME CInv, NEW k \in Atendidas, LlegaReset(k)
  PROVE  CInv'
<1>1. PICK x \in Conexion : x = conexiones[k] /\ EnSuPaso(x)
  BY Posiciones DEF CInv, Pasos
<1>2. PICK y : y = [x EXCEPT !.cliente = "rota"]
  OBVIOUS
<1>3. EnPie /\ x.cliente = "contestada" /\ Con(k, y)
  BY <1>1, <1>2 DEF LlegaReset
<1>4. /\ y \in Conexion /\ y.fd = x.fd /\ y.hilo = x.hilo
      /\ y.op = x.op /\ y.resultado = x.resultado
  BY <1>2 DEF Conexion, Clientes
<1>5. EnSuPaso(y)
  BY <1>1, <1>3, <1>4 DEF EnSuPaso
<1>6. \A paso \in PasosDeConsola : EnTurno(paso, x) => EnTurno(paso, y)
  BY <1>3 DEF EnTurno
<1> QED BY <1>1, <1>3, <1>4, <1>5, <1>6, ConBien

-----------------------------------------------------------------------------
(* The listening thread.                                                   *)

(* accept has a lowest free descriptor to take. *)
LEMMA HayMinimo ==
  ASSUME Libres # {}
  PROVE  (CHOOSE d \in Libres : \A e \in Libres : d <= e) \in Libres
<1> DEFINE R == {par \in Nat \X Nat : par[1] < par[2]}
<1>1. Libres \in SUBSET Nat
  BY ConexionesAssumption DEF Libres, Descriptores
<1>2. IsWellFoundedOn(R, Nat)
  BY NatLessThanWellFounded DEF OpToRel
<1>3. PICK d \in Libres : \A e \in Libres : ~ (<<e, d>> \in R)
  BY <1>1, <1>2, WFMin
<1>4. ASSUME NEW e \in Libres PROVE d <= e
  <2>1. <<e, d>> \in Nat \X Nat /\ <<e, d>>[1] = e /\ <<e, d>>[2] = d
    BY <1>1
  <2>2. e < d => <<e, d>> \in R
    BY <2>1
  <2> QED BY <2>2, <1>1, <1>3
<1> QED BY <1>4

(* accept gives the first connection of the queue a descriptor that no     *)
(* other one has.                                                          *)
LEMMA AceptarBien ==
  ASSUME CInv, Aceptar
  PROVE  CInv'
<1>1. PICK k, d : k = Head(cola) /\ d = CHOOSE e \in Libres : \A g \in Libres : e <= g
  OBVIOUS
<1>2. /\ Escucha /\ cola # << >> /\ Libres # {}
      /\ conexiones' = [conexiones EXCEPT ![k].hilo = "recibir", ![k].fd = d]
      /\ cola' = Tail(cola) /\ UNCHANGED <<servidor, causa, consolas>>
  BY <1>1 DEF Aceptar
<1>3. d \in Descriptores /\ d \notin Ocupados /\ d # 0 /\ d \in 0 .. MaxDescriptores
  <2>1. d \in Libres
    BY <1>1, <1>2, HayMinimo
  <2> QED BY <2>1, ConexionesAssumption DEF Libres, Descriptores
<1>4. /\ conexiones \in Seq(Conexion) /\ cola \in Seq(Atendidas)
      /\ Atendidas = 1 .. Len(conexiones) /\ Len(conexiones) \in Nat
      /\ \A j \in Atendidas : conexiones[j] \in Conexion
  BY Posiciones DEF CInv, Tipos
<1>5. /\ Len(cola) \in Nat \ {0} /\ cola[1] = k /\ k \in Atendidas
      /\ cola' \in Seq(Atendidas) /\ Len(cola') = Len(cola) - 1
      /\ \A i \in 1 .. Len(cola') : cola'[i] = cola[i + 1] /\ cola[i + 1] \in Atendidas
  BY <1>1, <1>2, <1>4, HeadTailProperties, LenProperties, ElementOfSeq
<1>6. PICK x \in Conexion : x = conexiones[k] /\ EnSuPaso(x)
  BY <1>4, <1>5 DEF CInv, Pasos
<1>7. x.hilo = "nadie"
  BY <1>5, <1>6 DEF CInv, Cola
<1>8. PICK y : y = [x EXCEPT !.hilo = "recibir", !.fd = d]
  OBVIOUS
<1>9. /\ y \in Conexion /\ y.hilo = "recibir" /\ y.fd = d /\ y.op = x.op
      /\ y.cliente = x.cliente /\ y.solicitud = x.solicitud
      /\ y.bandeja = x.bandeja /\ y.resultado = x.resultado
  BY <1>3, <1>8 DEF Conexion, PasosDelHilo
<1>10. /\ conexiones' \in Seq(Conexion) /\ Atendidas' = Atendidas
       /\ conexiones'[k] = y
       /\ \A j \in Atendidas : j # k => conexiones'[j] = conexiones[j]
  <2>1. conexiones' = [conexiones EXCEPT ![k] = y]
    BY <1>2, <1>4, <1>5, <1>6, <1>8
  <2> QED BY <1>4, <1>5, <1>9, <2>1 DEF Atendidas
<1>11. Tipos'
  BY <1>2, <1>5, <1>10 DEF CInv, Tipos, Escucha
<1>12. Cola'
  <2>1. \A i \in 1 .. Len(cola') : /\ i + 1 \in 1 .. Len(cola) /\ 1 \in 1 .. Len(cola)
                                   /\ i + 1 # 1 /\ i \in Int
    BY <1>5
  <2>2. \A i \in 1 .. Len(cola') : cola'[i] # k
    BY <1>5, <2>1 DEF CInv, Cola
  <2>3. \A i \in 1 .. Len(cola') : conexiones'[cola'[i]].hilo = "nadie"
    BY <1>5, <1>10, <2>1, <2>2 DEF CInv, Cola
  <2>4. ASSUME NEW i \in 1 .. Len(cola'), NEW j \in 1 .. Len(cola'), cola'[i] = cola'[j]
        PROVE  i = j
    <3>1. cola[i + 1] = cola[j + 1]
      BY <1>5, <2>4
    <3>2. i + 1 = j + 1
      BY <2>1, <3>1 DEF CInv, Cola
    <3> QED BY <2>1, <3>2
  <2> QED BY <2>3, <2>4 DEF Cola
<1>13. Pasos'
  <2>1. EnSuPaso(y)
    BY <1>3, <1>6, <1>7, <1>9 DEF EnSuPaso
  <2> QED BY <1>10, <2>1 DEF CInv, Pasos
<1>14. Distintos'
  <2>1. \A j \in Atendidas : conexiones[j].fd # d
    BY <1>3 DEF Ocupados
  <2> QED BY <1>9, <1>10, <2>1 DEF CInv, Distintos
<1>15. Turnos'
  <2>1. ASSUME NEW paso, EnTurno(paso, x) PROVE EnTurno(paso, y)
    BY <1>7, <1>9, <2>1 DEF EnTurno, PorLeer, DosMensajes
  <2>2. \A c \in Consolas : EnConexion(c) => consolas[c].conexion \in Atendidas
    BY DEF CInv, Turnos, Tipos
  <2>3. \A c \in Consolas : EnConexion(c) =>
          EnTurno(consolas[c].paso, conexiones'[consolas[c].conexion])
    BY <1>6, <1>10, <2>1, <2>2 DEF CInv, Turnos
  <2> QED BY <1>2, <2>3 DEF CInv, Turnos, EnConexion
<1> QED BY <1>11, <1>12, <1>13, <1>14, <1>15 DEF CInv

(* The connections with a descriptor are those being served and those that *)
(* leak it.                                                                *)
LEMMA QuienesRetienen ==
  ASSUME CInv, NEW k \in Atendidas
  PROVE  conexiones[k].fd # 0 <=> EnServicio(k) \/ Pierde(k)
<1>1. PICK x \in Conexion : x = conexiones[k] /\ EnSuPaso(x)
  BY Posiciones DEF CInv, Pasos
<1>2. x.hilo \in PasosDelHilo
  BY DEF Conexion
<1> QED BY <1>1, <1>2 DEF EnSuPaso, EnServicio, Pierde, PasosDelHilo

(* When accept finds no descriptor, as many connections as there are       *)
(* descriptors are being served or leaked theirs.                          *)
LEMMA SinDescriptores ==
  ASSUME CInv, Libres = {}
  PROVE  Cardinality({k \in Atendidas : EnServicio(k) \/ Pierde(k)}) = MaxDescriptores
<1> DEFINE K == {k \in Atendidas : EnServicio(k) \/ Pierde(k)}
           g == [k \in K |-> conexiones[k].fd]
<1>2. /\ Atendidas = 1 .. Len(conexiones) /\ Len(conexiones) \in Nat
      /\ \A k \in Atendidas : conexiones[k].fd \in 0 .. MaxDescriptores
  BY Posiciones DEF CInv, Conexion
<1>3. \A k \in Atendidas : conexiones[k].fd # 0 <=> k \in K
  BY QuienesRetienen
<1>4. K \subseteq Atendidas
  OBVIOUS
<1> HIDE DEF K
<1>5. \A k \in K : conexiones[k].fd \in Descriptores
  BY <1>2, <1>3, <1>4, ConexionesAssumption DEF Descriptores
<1>6. \A d \in Descriptores : \E k \in K : conexiones[k].fd = d
  <2>1. Descriptores \subseteq Ocupados
    BY DEF Libres
  <2> QED BY <1>3, <2>1 DEF Ocupados
<1>7. \A j, k \in K : conexiones[j].fd = conexiones[k].fd => j = k
  BY <1>3, <1>4 DEF CInv, Distintos
<1>8. g \in Bijection(K, Descriptores)
  <2>1. g \in [K -> Descriptores] /\ \A k \in K : g[k] = conexiones[k].fd
    BY <1>5
  <2> HIDE DEF g
  <2>2. g \in Injection(K, Descriptores)
    BY <1>7, <2>1 DEF Injection, IsInjective
  <2>3. g \in Surjection(K, Descriptores)
    BY <1>6, <2>1 DEF Surjection
  <2> QED BY <2>2, <2>3 DEF Bijection
<1>9. IsFiniteSet(K)
  <2>1. IsFiniteSet(1 .. Len(conexiones))
    BY <1>2, FS_Interval
  <2> QED BY <1>2, <1>4, <2>1, FS_Subset
<1>10. Cardinality(Descriptores) = MaxDescriptores
  <2>1. MaxDescriptores \in Nat \ {0}
    BY ConexionesAssumption
  <2>2. Cardinality(1 .. MaxDescriptores)
          = IF 1 > MaxDescriptores THEN 0 ELSE MaxDescriptores - 1 + 1
    BY <2>1, FS_Interval
  <2> QED BY <2>1, <2>2 DEF Descriptores
<1> HIDE DEF g
<1>11. Cardinality(K) = MaxDescriptores
  BY <1>8, <1>9, <1>10, FS_Bijection DEF ExistsBijection
<1> QED BY <1>11 DEF K

(* The steps of the server that touch no connection. *)
LEMMA ServidorBien ==
  ASSUME CInv, Comanda
  PROVE  CInv'
<1>1. CASE Inicializar
  BY <1>1 DEF Inicializar, CInv, Tipos, Cola, Pasos, Distintos, Turnos, EnConexion, Atendidas, Escucha
<1>2. CASE AceptarFalla \/ TerminarPrograma \/ TerminarOtraVez
  BY <1>2, CaerBien DEF AceptarFalla, TerminarPrograma, TerminarOtraVez
<1>3. CASE Salir
  <2>1. causa \in {"accept", "sigpipe", "memoria", "interrupcion"}
    BY <1>3 DEF Salir, CInv, Tipos, Escucha
  <2> QED BY <1>3, <2>1, CaerBien DEF Salir
<1> QED BY <1>1, <1>2, <1>3, AceptarBien DEF Comanda

-----------------------------------------------------------------------------
(* The consoles' side.                                                     *)

(* A console that is not in a request stays out of one. *)
LEMMA FueraBien ==
  ASSUME CInv, NEW c \in Consolas, ~ EnConexion(c), NEW n, n \in {EnPrompt, Muerta},
         Mover(c, n), UNCHANGED <<servidor, causa, cola, conexiones>>
  PROVE  CInv'
<1>1. n.paso \in {"prompt", "muerta"} /\ n.conexion = 0
      /\ n \in [paso : PasosDeConsola, conexion : Atendidas \cup {0}]
  BY DEF EnPrompt, Muerta, PasosDeConsola
<1>2. /\ consolas' \in [Consolas -> [paso : PasosDeConsola, conexion : Atendidas \cup {0}]]
      /\ consolas'[c] = n /\ \A d \in Consolas : d # c => consolas'[d] = consolas[d]
  BY <1>1 DEF Mover, CInv, Tipos
<1>3. Tipos' /\ Cola' /\ Pasos' /\ Distintos'
  BY <1>2 DEF CInv, Tipos, Cola, Pasos, Distintos, Atendidas, Escucha
<1>4. Turnos'
  <2>1. \A d \in Consolas : /\ EnConexion(d)' <=> EnConexion(d)
                            /\ EnConexion(d) => consolas'[d] = consolas[d]
    BY <1>1, <1>2 DEF EnConexion
  <2>2. \A d \in Consolas : consolas[d].conexion = 0 <=> consolas'[d].conexion = 0
    BY <1>1, <1>2 DEF CInv, Turnos
  <2>3. \A d, e \in Consolas :
          EnConexion(d) /\ consolas'[e].conexion = consolas[d].conexion => e = d
    BY <1>1, <1>2, <2>2 DEF CInv, Turnos
  <2> QED BY <2>1, <2>2, <2>3 DEF CInv, Turnos
<1> QED BY <1>3, <1>4 DEF CInv

(* A console in a request changes its own connection only, and goes on     *)
(* with it or is out.                                                      *)
LEMMA ConsolaBien ==
  ASSUME CInv, NEW c \in Consolas, EnConexion(c),
         NEW k \in Atendidas, k = consolas[c].conexion,
         NEW y \in Conexion, y.fd = conexiones[k].fd, y.hilo = conexiones[k].hilo,
         y.op = conexiones[k].op, y.resultado = conexiones[k].resultado,
         y.cliente \in {"abierta", "cerrada", "abortada"},
         conexiones' = [conexiones EXCEPT ![k] = y],
         UNCHANGED <<servidor, causa, cola>>,
         NEW n, Mover(c, n),
         \/ n \in {EnPrompt, Muerta}
         \/ /\ n.paso \in {"enviar", "esperar", "esperar_lista"}
            /\ n = [paso |-> n.paso, conexion |-> k] /\ EnTurno(n.paso, y)
  PROVE  CInv'
<1>1. EnSuPaso(y)
  BY DEF CInv, Pasos, EnSuPaso
<1>2. /\ conexiones' \in Seq(Conexion) /\ Atendidas' = Atendidas /\ cola' \in Seq(Atendidas')
      /\ conexiones'[k] = y
      /\ \A j \in Atendidas : j # k => conexiones'[j] = conexiones[j]
      /\ Cola' /\ Pasos' /\ Distintos'
  BY <1>1, UnaCambia
<1>3. n \in [paso : PasosDeConsola, conexion : Atendidas \cup {0}] /\ k # 0
  <2>1. k # 0
    BY DEF CInv, Turnos
  <2>2. "enviar" \in PasosDeConsola /\ "esperar" \in PasosDeConsola
        /\ "esperar_lista" \in PasosDeConsola
    BY DEF PasosDeConsola
  <2>3. CASE n \in {EnPrompt, Muerta}
    BY <2>1, <2>3 DEF EnPrompt, Muerta, PasosDeConsola
  <2> QED BY <2>1, <2>2, <2>3
<1>4. /\ consolas' \in [Consolas -> [paso : PasosDeConsola, conexion : Atendidas \cup {0}]]
      /\ consolas'[c] = n /\ \A d \in Consolas : d # c => consolas'[d] = consolas[d]
  BY <1>3 DEF Mover, CInv, Tipos
<1>5. Tipos'
  BY <1>2, <1>4 DEF CInv, Tipos, Escucha
<1>6. Turnos'
  <2>1. \/ /\ n.paso \in {"prompt", "muerta"} /\ n.conexion = 0
        \/ /\ n.paso \in {"enviar", "esperar", "esperar_lista"}
           /\ n.conexion = k /\ EnTurno(n.paso, y)
    BY DEF EnPrompt, Muerta
  <2>2. ASSUME NEW d \in Consolas, d # c, EnConexion(d)
        PROVE  consolas[d].conexion # k /\ consolas[d].conexion \in Atendidas
    BY <2>2 DEF CInv, Turnos, Tipos
  <2>3. ASSUME NEW d \in Consolas
        PROVE  /\ EnConexion(d)' <=> consolas'[d].conexion # 0
               /\ EnConexion(d)' => EnTurno(consolas'[d].paso, conexiones'[consolas'[d].conexion])
    <3>1. CASE d = c
      BY <1>2, <1>3, <1>4, <2>1, <3>1 DEF EnConexion
    <3>2. CASE d # c
      <4>1. consolas'[d] = consolas[d]
        BY <1>4, <3>2
      <4>2. EnConexion(d)' <=> EnConexion(d)
        BY <4>1 DEF EnConexion
      <4>3. EnConexion(d) => conexiones'[consolas[d].conexion] = conexiones[consolas[d].conexion]
        BY <1>2, <2>2, <3>2
      <4> QED BY <4>1, <4>2, <4>3 DEF CInv, Turnos
    <3> QED BY <3>1, <3>2
  <2>4. ASSUME NEW d \in Consolas, NEW e \in Consolas, EnConexion(d)',
               consolas'[e].conexion = consolas'[d].conexion
        PROVE  e = d
    <3>1. \A a \in Consolas : a # c => consolas'[a] = consolas[a]
                                       /\ (EnConexion(a)' <=> EnConexion(a))
      BY <1>4 DEF EnConexion
    <3>2. consolas'[c].conexion \in {0, k} /\ consolas'[d].conexion # 0
      BY <1>4, <2>1, <2>3, <2>4
    <3>3. \A a \in Consolas : a # c => consolas[a].conexion # k
      BY DEF CInv, Turnos
    <3>4. CASE d = c
      BY <2>4, <3>1, <3>2, <3>3, <3>4
    <3>5. CASE d # c /\ e = c
      BY <2>4, <3>1, <3>2, <3>3, <3>5
    <3>6. CASE d # c /\ e # c
      BY <2>4, <3>1, <3>6 DEF CInv, Turnos
    <3> QED BY <3>4, <3>5, <3>6
  <2> QED BY <2>3, <2>4 DEF Turnos
<1> QED BY <1>2, <1>5, <1>6 DEF CInv

(* Where a console in a request is: its connection is open at its side and *)
(* holds what was sent to it and not read.                                 *)
LEMMA EnPeticion ==
  ASSUME CInv, NEW c \in Consolas, EnConexion(c)
  PROVE  LET k == consolas[c].conexion
         IN  /\ k \in Atendidas /\ conexiones[k] \in Conexion
             /\ EnSuPaso(conexiones[k]) /\ EnTurno(consolas[c].paso, conexiones[k])
<1>1. consolas[c].conexion \in Atendidas
  BY DEF CInv, Tipos, Turnos
<1> QED BY <1>1, Posiciones DEF CInv, Pasos, Turnos

(* A console that closes keeps everything of its connection that is the    *)
(* server's.                                                               *)
LEMMA CerradaBien ==
  ASSUME NEW x \in Conexion
  PROVE  LET y == Cerrada(x)
         IN  /\ y \in Conexion /\ y.cliente \in {"cerrada", "abortada"}
             /\ y.op = x.op /\ y.fd = x.fd /\ y.hilo = x.hilo /\ y.resultado = x.resultado
<1>1. << >> \in Seq(Mensajes)
  OBVIOUS
<1>2. PICK z : z = IF x.bandeja = << >> THEN "cerrada" ELSE "abortada"
  OBVIOUS
<1>3. Cerrada(x) = [x EXCEPT !.bandeja = << >>, !.cliente = z]
  BY <1>2 DEF Cerrada
<1>4. z \in {"cerrada", "abortada"}
  BY <1>2
<1> QED BY <1>1, <1>3, <1>4 DEF Conexion, Clientes

(* Reading takes at most the first message out of the inbox.               *)
LEMMA LeidaBien ==
  ASSUME NEW x \in Conexion, x.bandeja # << >>
  PROVE  LET y == Leida(x)
         IN  /\ y \in Conexion /\ y.cliente = x.cliente /\ y.solicitud = x.solicitud
             /\ y.op = x.op /\ y.fd = x.fd /\ y.hilo = x.hilo /\ y.resultado = x.resultado
             /\ x.op # "HANDSHAKE" => y.bandeja = Tail(x.bandeja)
<1>1. Tail(x.bandeja) \in Seq(Mensajes) /\ x.bandeja \in Seq(Mensajes)
  BY DEF Conexion
<1>2. PICK s : s = IF x.op = "HANDSHAKE" THEN x.bandeja ELSE Tail(x.bandeja)
  OBVIOUS
<1>3. Leida(x) = [x EXCEPT !.bandeja = s]
  BY <1>2 DEF Leida
<1>4. s \in Seq(Mensajes)
  BY <1>1, <1>2
<1> QED BY <1>2, <1>3, <1>4 DEF Conexion

(* connect: a new connection at the end of the queue.                      *)
LEMMA ConectarBien ==
  ASSUME CInv, NEW c \in Consolas, NEW op \in Ordenes, Conectar(c, op)
  PROVE  CInv'
<1> DEFINE n == Len(conexiones)
           x == Nueva(op)
<1>1. /\ consolas[c] = EnPrompt /\ Escucha
      /\ conexiones' = Append(conexiones, x) /\ cola' = Append(cola, n + 1)
      /\ Mover(c, [paso |-> "enviar", conexion |-> n + 1])
      /\ UNCHANGED <<servidor, causa>>
  BY DEF Conectar
<1>2. /\ Atendidas = 1 .. n /\ n \in Nat /\ conexiones \in Seq(Conexion)
      /\ cola \in Seq(Atendidas) /\ causa = "ninguna"
      /\ \A i \in 1 .. Len(cola) : cola[i] \in Atendidas
  BY <1>1, Posiciones DEF CInv, Tipos
<1>3. /\ x \in Conexion /\ x.fd = 0 /\ x.hilo = "nadie" /\ x.resultado = "-"
      /\ x.cliente = "abierta" /\ ~ x.solicitud /\ x.bandeja = << >>
  <2>1. 0 \in 0 .. MaxDescriptores /\ << >> \in Seq(Mensajes)
    BY ConexionesAssumption
  <2> QED BY <2>1 DEF Nueva, Conexion, Clientes, PasosDelHilo
<1> HIDE DEF x
<1>4. /\ conexiones' \in Seq(Conexion) /\ Len(conexiones') = n + 1
      /\ \A k \in 1 .. n : conexiones'[k] = conexiones[k]
      /\ conexiones'[n + 1] = x
  BY <1>1, <1>2, <1>3, AppendProperties
<1>5. Atendidas' = 1 .. n + 1
  BY <1>4, LenProperties DEF Atendidas
<1>6. /\ cola' \in Seq(Atendidas') /\ Len(cola') = Len(cola) + 1
      /\ \A i \in 1 .. Len(cola) : cola'[i] = cola[i] /\ cola'[i] \in 1 .. n
      /\ cola'[Len(cola) + 1] = n + 1 /\ Len(cola) \in Nat
  <2>1. cola \in Seq(Atendidas') /\ n + 1 \in Atendidas'
    <3>1. Atendidas \subseteq Atendidas'
      BY <1>2, <1>5
    <3> QED BY <1>2, <1>5, <3>1
  <2> QED BY <1>1, <1>2, <2>1, AppendProperties, LenProperties
<1>7. /\ consolas' \in [Consolas -> [paso : PasosDeConsola, conexion : Atendidas' \cup {0}]]
      /\ consolas'[c] = [paso |-> "enviar", conexion |-> n + 1]
      /\ \A d \in Consolas : d # c => consolas'[d] = consolas[d]
  <2>1. [paso |-> "enviar", conexion |-> n + 1]
          \in [paso : PasosDeConsola, conexion : Atendidas' \cup {0}]
    BY <1>2, <1>5 DEF PasosDeConsola
  <2>2. consolas \in [Consolas -> [paso : PasosDeConsola, conexion : Atendidas' \cup {0}]]
    <3>1. Atendidas \subseteq Atendidas'
      BY <1>2, <1>5
    <3> QED BY <3>1 DEF CInv, Tipos
  <2> QED BY <1>1, <2>1, <2>2 DEF Mover
<1> HIDE DEF n
<1>8. Tipos'
  BY <1>1, <1>4, <1>6, <1>7 DEF CInv, Tipos, Escucha
<1>9. Cola'
  <2>1. \A i \in 1 .. Len(cola') : i \in 1 .. Len(cola) \/ i = Len(cola) + 1
    BY <1>6
  <2>2. ASSUME NEW i \in 1 .. Len(cola')
        PROVE  conexiones'[cola'[i]].hilo = "nadie"
    <3>1. CASE i \in 1 .. Len(cola)
      <4>1. cola'[i] = cola[i] /\ conexiones'[cola[i]] = conexiones[cola[i]]
        BY <1>4, <1>6, <3>1
      <4>2. conexiones[cola[i]].hilo = "nadie"
        BY <3>1 DEF CInv, Cola
      <4> QED BY <4>1, <4>2
    <3>2. CASE i = Len(cola) + 1
      BY <1>3, <1>4, <1>6, <3>2
    <3> QED BY <2>1, <3>1, <3>2
  <2>3. \A i, j \in 1 .. Len(cola') : cola'[i] = cola'[j] => i = j
    BY <1>2, <1>6, <2>1 DEF CInv, Cola
  <2> QED BY <2>2, <2>3 DEF Cola
<1>10. \A k \in Atendidas' : k \in Atendidas \/ k = n + 1
  BY <1>2, <1>5
<1>11. Pasos'
  <2>1. EnSuPaso(x)
    BY <1>3 DEF EnSuPaso
  <2> QED BY <1>2, <1>4, <1>10, <2>1 DEF CInv, Pasos
<1>12. Distintos'
  BY <1>2, <1>3, <1>4, <1>10 DEF CInv, Distintos
<1>13. Turnos'
  <2>1. \A d \in Consolas : d # c =>
          /\ consolas'[d] = consolas[d] /\ (EnConexion(d)' <=> EnConexion(d))
          /\ consolas[d].conexion \in (1 .. n) \cup {0}
    BY <1>2, <1>7 DEF EnConexion, CInv, Tipos
  <2>2. n + 1 # 0 /\ n + 1 \notin 1 .. n
    BY <1>2
  <2>3. EnTurno("enviar", x)
    BY <1>3 DEF EnTurno
  <2>4. EnConexion(c)'
    BY <1>7 DEF EnConexion
  <2>5. ASSUME NEW d \in Consolas
        PROVE  /\ EnConexion(d)' <=> consolas'[d].conexion # 0
               /\ EnConexion(d)' => EnTurno(consolas'[d].paso, conexiones'[consolas'[d].conexion])
    <3>1. CASE d = c
      BY <1>4, <1>7, <2>2, <2>3, <2>4, <3>1
    <3>2. CASE d # c
      <4>1. EnConexion(d) => conexiones'[consolas[d].conexion] = conexiones[consolas[d].conexion]
        BY <1>4, <2>1, <3>2 DEF CInv, Turnos
      <4> QED BY <2>1, <3>2, <4>1 DEF CInv, Turnos
    <3> QED BY <3>1, <3>2
  <2>6. ASSUME NEW d \in Consolas, NEW e \in Consolas, EnConexion(d)',
               consolas'[e].conexion = consolas'[d].conexion
        PROVE  e = d
    <3>1. consolas'[c].conexion = n + 1
      BY <1>7
    <3>2. CASE d = c \/ e = c
      BY <2>1, <2>2, <2>6, <3>1, <3>2
    <3>3. CASE d # c /\ e # c
      BY <2>1, <2>6, <3>3 DEF CInv, Turnos
    <3> QED BY <3>2, <3>3
  <2> QED BY <2>5, <2>6 DEF Turnos
<1> QED BY <1>8, <1>9, <1>11, <1>12, <1>13 DEF CInv

(* The console sends its request.                                          *)
LEMMA SolicitarBien ==
  ASSUME CInv, NEW c \in Consolas, EnviarSolicitud(c)
  PROVE  CInv'
<1>1. PICK k : k = consolas[c].conexion
  OBVIOUS
<1>2. PICK x : x = conexiones[k]
  OBVIOUS
<1>3. PICK y : y = [x EXCEPT !.solicitud = TRUE]
  OBVIOUS
<1>4. /\ consolas[c].paso = "enviar" /\ EnConexion(c)
      /\ conexiones' = [conexiones EXCEPT ![k] = y]
      /\ Mover(c, [paso |-> "esperar", conexion |-> k])
      /\ UNCHANGED <<servidor, causa, cola>>
  BY <1>1, <1>2, <1>3 DEF EnviarSolicitud, EnConexion
<1>5. k \in Atendidas /\ x \in Conexion /\ EnTurno("enviar", x)
  BY <1>1, <1>2, <1>4, EnPeticion
<1>6. /\ y \in Conexion /\ y.fd = x.fd /\ y.hilo = x.hilo /\ y.op = x.op
      /\ y.resultado = x.resultado /\ y.cliente = "abierta"
      /\ EnTurno("esperar", y)
  BY <1>3, <1>5 DEF Conexion, EnTurno, PorLeer
<1>7. PICK n : n = [paso |-> "esperar", conexion |-> k]
  OBVIOUS
<1> QED BY <1>1, <1>2, <1>4, <1>5, <1>6, <1>7, ConsolaBien

(* A console leaves its request: it closes its connection, after reading   *)
(* or not.                                                                 *)
LEMMA SalirBien ==
  ASSUME CInv, NEW c \in Consolas, EnConexion(c),
         NEW z \in Conexion, z.fd = conexiones[consolas[c].conexion].fd,
         z.hilo = conexiones[consolas[c].conexion].hilo,
         z.op = conexiones[consolas[c].conexion].op,
         z.resultado = conexiones[consolas[c].conexion].resultado,
         conexiones' = [conexiones EXCEPT ![consolas[c].conexion] = Cerrada(z)],
         NEW n \in {EnPrompt, Muerta}, Mover(c, n), UNCHANGED <<servidor, causa, cola>>
  PROVE  CInv'
<1>1. PICK k : k = consolas[c].conexion
  OBVIOUS
<1>2. PICK y : y = Cerrada(z)
  OBVIOUS
<1>3. k \in Atendidas
  BY <1>1, EnPeticion
<1>4. /\ y \in Conexion /\ y.cliente \in {"abierta", "cerrada", "abortada"}
      /\ y.op = z.op /\ y.fd = z.fd /\ y.hilo = z.hilo /\ y.resultado = z.resultado
  BY <1>2, CerradaBien
<1> QED BY <1>1, <1>2, <1>3, <1>4, ConsolaBien

(* The console reads; after the first of two messages it waits for the     *)
(* second, which is the only one left.                                     *)
LEMMA LeerBien ==
  ASSUME CInv, NEW c \in Consolas, Leer(c)
  PROVE  CInv'
<1>1. PICK k : k = consolas[c].conexion
  OBVIOUS
<1>2. PICK x : x = conexiones[k]
  OBVIOUS
<1>3. PICK y : y = Leida(x)
  OBVIOUS
<1>4. EnConexion(c) /\ x.bandeja # << >> /\ UNCHANGED <<servidor, causa, cola>>
  BY <1>1, <1>2 DEF Leer, EnConexion
<1>5. k \in Atendidas /\ x \in Conexion /\ EnSuPaso(x) /\ EnTurno(consolas[c].paso, x)
  BY <1>1, <1>2, <1>4, EnPeticion
<1>6. /\ y \in Conexion /\ y.cliente = "abierta" /\ y.solicitud = x.solicitud
      /\ y.op = x.op /\ y.fd = x.fd /\ y.hilo = x.hilo /\ y.resultado = x.resultado
      /\ x.op # "HANDSHAKE" => y.bandeja = Tail(x.bandeja)
  BY <1>3, <1>4, <1>5, LeidaBien DEF EnTurno
<1>7. CASE x.op = "OBTENER_PEDIDO" /\ consolas[c].paso = "esperar" /\ Head(x.bandeja) = "ok"
  <2>1. /\ conexiones' = [conexiones EXCEPT ![k] = y]
        /\ Mover(c, [paso |-> "esperar_lista", conexion |-> k])
    BY <1>1, <1>2, <1>3, <1>7 DEF Leer
  <2>2. x.solicitud /\ x.bandeja = PorLeer(x) /\ y.bandeja = Tail(x.bandeja)
    BY <1>5, <1>6, <1>7 DEF EnTurno
  <2>3. x.hilo \notin {"nadie", "recibir", "atender", "trabado"}
    BY <1>4, <2>2 DEF PorLeer
  <2>4. x.hilo \in {"lista", "cerrar", "fin"}
    BY <1>5, <2>3 DEF Conexion, PasosDelHilo
  <2>5. /\ DosMensajes(x)
        /\ y.bandeja = IF x.hilo = "lista" THEN << >> ELSE <<"lista">>
    <3>1. CASE x.hilo = "lista"
      BY <1>5, <2>2, <3>1, Bandejas DEF PorLeer, EnSuPaso, DosMensajes
    <3>2. CASE x.hilo # "lista" /\ DosMensajes(x)
      <4>1. x.bandeja = <<"ok", "lista">>
        BY <2>2, <2>3, <3>2 DEF PorLeer
      <4> QED BY <2>2, <3>2, <4>1, Bandejas
    <3>3. CASE x.hilo # "lista" /\ ~ DosMensajes(x)
      <4>1. x.bandeja = <<x.resultado>>
        BY <2>2, <2>3, <3>3 DEF PorLeer
      <4>2. Head(x.bandeja) = x.resultado
        BY <4>1, Bandejas
      <4> QED BY <1>7, <3>3, <4>2 DEF DosMensajes
    <3> QED BY <3>1, <3>2, <3>3
  <2>6. EnTurno("esperar_lista", y)
    BY <1>6, <2>2, <2>4, <2>5 DEF EnTurno, DosMensajes
  <2>7. PICK n : n = [paso |-> "esperar_lista", conexion |-> k]
    OBVIOUS
  <2> QED BY <1>1, <1>2, <1>4, <1>5, <1>6, <2>1, <2>6, <2>7, ConsolaBien
<1>8. CASE ~ (x.op = "OBTENER_PEDIDO" /\ consolas[c].paso = "esperar" /\ Head(x.bandeja) = "ok")
  <2>1. conexiones' = [conexiones EXCEPT ![k] = Cerrada(y)] /\ Mover(c, EnPrompt)
    BY <1>1, <1>2, <1>3, <1>8 DEF Leer
  <2> QED BY <1>1, <1>2, <1>4, <1>6, <2>1, SalirBien
<1> QED BY <1>7, <1>8

(* A console that finds its connection cut, or is interrupted, leaves.     *)
LEMMA DejarBien ==
  ASSUME CInv, NEW c \in Consolas, LeerNada(c) \/ Interrumpir(c)
  PROVE  CInv'
<1>1. PICK k : k = consolas[c].conexion
  OBVIOUS
<1>2. CASE EnConexion(c)
  <2>1. PICK x : x = conexiones[k]
    OBVIOUS
  <2>2. k \in Atendidas /\ x \in Conexion /\ k # 0
    BY <1>1, <1>2, <2>1, EnPeticion DEF CInv, Turnos
  <2>3. conexiones' = [conexiones EXCEPT ![k] = Cerrada(x)]
        /\ UNCHANGED <<servidor, causa, cola>>
    BY <1>1, <2>1, <2>2 DEF LeerNada, Interrumpir
  <2>4. PICK n \in {EnPrompt, Muerta} : Mover(c, n)
    BY DEF LeerNada, Interrumpir
  <2> QED BY <1>1, <1>2, <2>1, <2>2, <2>3, <2>4, SalirBien
<1>3. CASE ~ EnConexion(c)
  <2>1. Interrumpir(c) /\ k = 0
    BY <1>1, <1>3 DEF LeerNada, EnConexion, CInv, Turnos
  <2>2. Mover(c, Muerta) /\ UNCHANGED <<servidor, causa, cola, conexiones>>
    BY <1>1, <2>1 DEF Interrumpir
  <2> QED BY <1>3, <2>2, FueraBien
<1> QED BY <1>2, <1>3

-----------------------------------------------------------------------------
(* The theorems.                                                           *)

(* Every step of a console keeps the invariant.                            *)
LEMMA ConsolaPaso ==
  ASSUME CInv, NEW c \in Consolas, Consola(c)
  PROVE  CInv'
<1>1. CASE \E op \in Ordenes : Conectar(c, op)
  BY <1>1, ConectarBien
<1>2. CASE ConectarFalla(c)
  <2>1. ~ EnConexion(c) /\ UNCHANGED <<servidor, causa, cola, conexiones>>
    BY <1>2 DEF ConectarFalla, EnConexion, EnPrompt
  <2>2. PICK n \in {EnPrompt, Muerta} : Mover(c, n)
    BY <1>2 DEF ConectarFalla
  <2> QED BY <2>1, <2>2, FueraBien
<1>3. CASE Responde(c)
  BY <1>3, SolicitarBien, LeerBien, DejarBien DEF Responde
<1>4. CASE Interrumpir(c)
  BY <1>4, DejarBien
<1> QED BY <1>1, <1>2, <1>3, <1>4 DEF Consola

(* Every step keeps the invariant.                                         *)
LEMMA PasoC == CInv /\ [Next]_vars => CInv'
<1> SUFFICES ASSUME CInv, [Next]_vars PROVE CInv'
  OBVIOUS
<1>1. CASE Comanda
  BY <1>1, ServidorBien
<1>2. ASSUME NEW k \in Atendidas, Hilo(k) \/ LlegaReset(k) PROVE CInv'
  BY <1>2, RecibirBien, AtenderBien, EnviarListaBien, LiberarConexionBien, LlegaResetBien
  DEF Hilo
<1>3. ASSUME NEW c \in Consolas, Consola(c) PROVE CInv'
  BY <1>3, ConsolaPaso
<1>4. CASE UNCHANGED vars
  BY <1>4 DEF vars, CInv, Tipos, Cola, Pasos, Distintos, Turnos, EnConexion, Atendidas, Escucha
<1>5. CASE \E hs \in SUBSET Atendidas \ {{}} : Trabar(hs)
  BY <1>5, TrabarBien
<1> QED BY <1>1, <1>2, <1>3, <1>4, <1>5 DEF Next

(* The inductive invariant of the connections holds in every state,        *)
(* whatever the scheduler does: no fairness is used.                       *)
THEOREM SiempreCInv == Spec => []CInv
<1>1. Init => CInv
  BY InicioC
<1>2. CInv /\ [Next]_vars => CInv'
  BY PasoC
<1> QED BY <1>1, <1>2, PTL DEF Spec

(* Nobody answers on another console's connection: while a handler reads,  *)
(* writes or closes its descriptor it is open, and accept has given it to  *)
(* no other connection (esperar_cliente, liberar_conexion).                *)
THEOREM DescriptorDeUno == Spec => []DescriptorPropio
<1>1. CInv => DescriptorPropio
  BY DEF CInv, Pasos, EnSuPaso, Distintos, DescriptorPropio, EnServicio
<1> QED BY <1>1, SiempreCInv, PTL

(* A console that waits while the server is up has its connection open or  *)
(* a message in it: the code of the console that takes an answer out of    *)
(* nothing is reached only when the server is gone, or by a console that   *)
(* nobody served when terminar_programa closed the socket it waits on.     *)
THEOREM RespuestaDeVerdad == Spec => []NadieLeeDeNada
<1>1. CInv => NadieLeeDeNada
  <2> SUFFICES ASSUME CInv, EnPie, NEW c \in Consolas,
                      consolas[c].paso \in {"esperar", "esperar_lista"},
                      Cortada(consolas[c].conexion),
                      Escucha \/ conexiones[consolas[c].conexion].hilo # "nadie"
               PROVE  FALSE
    BY DEF NadieLeeDeNada
  <2>1. PICK x : x = conexiones[consolas[c].conexion]
    OBVIOUS
  <2>2. x.hilo = "fin" /\ x.fd = 0 /\ x.bandeja = << >>
    <3>1. x.hilo = "fin" /\ x.fd = 0
      BY <2>1 DEF Cortada, Escucha
    <3>2. EnSuPaso(x) /\ EnTurno(consolas[c].paso, x)
      BY <2>1, EnPeticion DEF EnConexion
    <3> QED BY <2>1, <3>1 DEF Cortada
  <2>3. EnTurno(consolas[c].paso, x)
    BY <2>1, EnPeticion DEF EnConexion
  <2>4. CASE consolas[c].paso = "esperar"
    BY <2>2, <2>3, <2>4, Bandejas DEF EnTurno, PorLeer
  <2>5. CASE consolas[c].paso = "esperar_lista"
    BY <2>2, <2>3, <2>5, Bandejas DEF EnTurno
  <2> QED BY <2>4, <2>5
<1> QED BY <1>1, SiempreCInv, PTL

(* What a step does to the cause of the end.                               *)
LEMMA CausaDelPaso ==
  ASSUME CInv, Next, causa' # causa
  PROVE  \/ causa' \in {"memoria", "interrupcion"}
         \/ causa' = "accept" /\ Libres = {}
         \/ /\ causa' = "sigpipe"
            /\ \E k \in Atendidas : /\ conexiones[k].op = "OBTENER_PEDIDO"
                                    /\ conexiones[k].resultado = "ok"
                                    /\ conexiones[k].cliente = "rota"
<1>1. CASE Comanda
  BY <1>1 DEF Comanda, Inicializar, Aceptar, AceptarFalla, TerminarPrograma, Salir, TerminarOtraVez,
              EmpezarATerminar, Caer
<1>2. ASSUME NEW k \in Atendidas, Hilo(k) \/ LlegaReset(k)
      PROVE  \/ causa' = "memoria"
             \/ /\ causa' = "sigpipe" /\ conexiones[k].op = "OBTENER_PEDIDO"
                /\ conexiones[k].resultado = "ok" /\ conexiones[k].cliente = "rota"
  <2>1. EnSuPaso(conexiones[k])
    BY DEF CInv, Pasos
  <2>2. CASE RecibirOperacion(k) \/ LiberarConexion(k) \/ LlegaReset(k)
    BY <2>2 DEF RecibirOperacion, LiberarConexion, LlegaReset, Con
  <2>3. CASE Atender(k)
    <3>1. conexiones[k].cliente # "rota"
      BY <2>1, <2>3 DEF Atender, EnSuPaso
    <3> QED BY <2>3, <3>1 DEF Atender, Enviar, Con, Caer
  <2>4. CASE EnviarLista(k)
    <3>1. conexiones[k].op = "OBTENER_PEDIDO" /\ conexiones[k].resultado = "ok"
      BY <2>1, <2>4 DEF EnviarLista, EnSuPaso
    <3> QED BY <2>4, <3>1 DEF EnviarLista, Enviar, Con, Caer
  <2> QED BY <1>2, <2>2, <2>3, <2>4 DEF Hilo
<1>3. ASSUME NEW c \in Consolas, Consola(c) PROVE FALSE
  BY <1>3 DEF Consola, Conectar, ConectarFalla, Responde, EnviarSolicitud, Leer, LeerNada, Interrumpir
<1>4. ASSUME NEW hs, Trabar(hs) PROVE FALSE
  BY <1>4 DEF Trabar
<1> QED BY <1>1, <1>2, <1>3, <1>4 DEF Next

(* A send of the server raises SIGPIPE only because a console left in the  *)
(* middle of an obtener_pedido, and accept fails only because every        *)
(* descriptor is held by a connection that is being served, deadlocked or  *)
(* not, or that was leaked.                                                *)
THEOREM BajaConCausa == Spec => CausaDeBaja
<1> DEFINE ConCausa ==
      causa' # causa =>
        /\ causa' = "sigpipe" =>
             \E k \in Atendidas : /\ conexiones[k].op = "OBTENER_PEDIDO"
                                  /\ conexiones[k].resultado = "ok"
                                  /\ conexiones[k].cliente = "rota"
        /\ causa' = "accept" =>
             Cardinality({k \in Atendidas : EnServicio(k) \/ Pierde(k)}) = MaxDescriptores
<1>1. CInv /\ [Next]_vars => [ConCausa]_vars
  <2> SUFFICES ASSUME CInv, Next PROVE ConCausa
    OBVIOUS
  <2> QED BY CausaDelPaso, SinDescriptores
<1> QED BY <1>1, SiempreCInv, PTL DEF Spec, CausaDeBaja

=============================================================================

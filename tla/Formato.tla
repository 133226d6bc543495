------------------------------- MODULE Formato -------------------------------
(***************************************************************************)
(* From the line typed at the console to the request the handler gets, and *)
(* back from the answer to what the console prints: leer_comando, the      *)
(* pairs serializar_x / deserializar_x, the sizes announced before each    *)
(* payload and the buffers they are written to.                            *)
(*                                                                         *)
(* A word is its text, its length and what atoi makes of it.  A byte is    *)
(* one of the four of an int, or one character of a string: reading an int *)
(* or a string anywhere but at its first byte yields something undefined.  *)
(***************************************************************************)
EXTENDS Interfaz, Integers, Sequences, SequencesExt

CONSTANTS
  Lineas,                \* what may be typed: [verbo, args]
  Guion,                 \* the lines of prueba_final_comanda
  TAMANIO_NOMBRE_PLATO,  \* bytes of a dish name, its end mark included
  Motivos,               \* descriptions of a refusal, as words
  Listas,                \* the dishes an order may be answered with
  IdCliente              \* the global id of cliente.h, sent by confirmar_pedido

ASSUME FormatoAssumption == TAMANIO_NOMBRE_PLATO \in Nat \ {0} /\ IdCliente \in Nat

VARIABLES
  paso,            \* what comes next: "consola", a line; "servidor" and
                   \* "respuesta", the handler; "vuelta", the console;
                   \* "informe", it has printed; "fin", it is gone
  linea,           \* the last line typed
  cable,           \* bytes between the two
  recibido,        \* what the handler got, and what it answered
  respuesta,
  informe,         \* what the console made of the answer
  desborde         \* the buffers written past their end

vars == <<paso, linea, cable, recibido, respuesta, informe, desborde>>

(* --- Bytes --------------------------------------------------------------- *)

Bytes(n, texto, cuantos) == [i \in 1 .. cuantos |-> [num |-> n, pal |-> texto, pos |-> i]]

sizeof_int == 4
serializar_int(n) == Bytes(n, "", sizeof_int)
Caracteres(w) == Bytes(w.largo, w.texto, w.largo + 1)
serializar_string(w) == serializar_int(w.largo) \o Caracteres(w)

Indefinido == -1
PalabraIndefinida == [texto |-> "?", largo |-> 0]

(* What a reader gets at the start of s, and the bytes after it. *)
deserializar_int(s) ==
  [valor |-> IF Len(s) >= sizeof_int /\ SubSeq(s, 1, sizeof_int) = serializar_int(s[1].num)
             THEN s[1].num ELSE Indefinido,
   resto |-> SubSeq(s, sizeof_int + 1, Len(s))]

deserializar_string(s) ==
  LET size == deserializar_int(s).valor
      t == deserializar_int(s).resto
      w == [texto |-> t[1].pal, largo |-> size] IN
  [valor |-> IF size >= 0 /\ Len(t) > size /\ SubSeq(t, 1, size + 1) = Caracteres(w)
             THEN w ELSE PalabraIndefinida,
   resto |-> SubSeq(t, size + 2, Len(t))]

(* --- Messages ------------------------------------------------------------ *)

(* Codigo_Operacion, as the enumeration numbers it. *)
Codigo == [GUARDAR_PEDIDO |-> 5, GUARDAR_PLATO |-> 7, CONFIRMAR_PEDIDO |-> 8,
           PLATO_LISTO |-> 9, OBTENER_PEDIDO |-> 11, FINALIZAR_PEDIDO |-> 12,
           CONSULTAR_PEDIDO |-> 10, SALIR |-> 18, PRUEBA_FINAL_COMANDA |-> 26]
Codigos == 0 .. 26

(* The fields that serializar_x writes and deserializar_x reads, in order. *)
Palabras == {"restaurante", "plato"}
SoloPedido == <<"restaurante", "id_pedido">>

Escribe(op) ==
  CASE op = "GUARDAR_PLATO" -> <<"restaurante", "id_pedido", "plato", "cantidad">>
    [] op = "PLATO_LISTO" -> <<"restaurante", "plato", "id_pedido">>
    [] op = "CONFIRMAR_PEDIDO" -> <<"id_pedido", "restaurante", "id_cliente">>
    [] OTHER -> SoloPedido

(* Mutant: the dish is read before the restaurant. *)
Lee_cruzado(op) ==
  CASE op = "PLATO_LISTO" -> <<"plato", "restaurante", "id_pedido">>
    [] op = "CONFIRMAR_PEDIDO" -> <<"id_pedido", "restaurante">>
    [] OTHER -> Escribe(op)

Lee(op) ==
  CASE op = "GUARDAR_PLATO" -> <<"restaurante", "id_pedido", "plato", "cantidad">>
    [] op = "PLATO_LISTO" -> <<"restaurante", "plato", "id_pedido">>
    [] op = "CONFIRMAR_PEDIDO" -> <<"id_pedido", "restaurante">>
    [] OTHER -> SoloPedido

(* payload->size, computed apart from the bytes and allocated for them. *)
Tamanio(op, s) ==
  CASE op = "GUARDAR_PLATO" -> 4 * sizeof_int + s.restaurante.largo + s.plato.largo + 2
    [] op = "PLATO_LISTO" -> 3 * sizeof_int + s.restaurante.largo + s.plato.largo + 2
    [] op = "CONFIRMAR_PEDIDO" -> sizeof_int + sizeof_int * 2 + s.restaurante.largo + 1
    [] OTHER -> 2 * sizeof_int + s.restaurante.largo + 1

Campo(c, v) == IF c \in Palabras THEN serializar_string(v) ELSE serializar_int(v)

serializar(op, s) ==
  FoldLeft(LAMBDA bytes, c : bytes \o Campo(c, s[c]), << >>, Escribe(op))

LeerCampo(acc, c) ==
  LET d == IF c \in Palabras THEN deserializar_string(acc.resto)
           ELSE deserializar_int(acc.resto) IN
  [resto |-> d.resto, leido |-> acc.leido @@ (c :> d.valor)]

deserializar(op, bytes) ==
  FoldLeft(LeerCampo, [resto |-> bytes, leido |-> << >>], Lee(op)).leido

(* serializar_mensaje: code, size and as many bytes of the buffer as the   *)
(* size says.                                                              *)
Mensaje(codigo, tamanio, bytes) ==
  serializar_int(codigo) \o serializar_int(tamanio)
    \o [i \in 1 .. tamanio |-> IF i <= Len(bytes) THEN bytes[i] ELSE Bytes(0, "?", 1)[1]]

DesbordeDe(tamanio, bytes) == IF Len(bytes) > tamanio THEN {"mensaje"} ELSE {}

(* recibir_operacion and recibir_payload: the three recv that read one.    *)
Recibido(s) ==
  LET codigo == deserializar_int(s)
      size == deserializar_int(codigo.resto) IN
  [codigo |-> codigo.valor,
   payload |-> SubSeq(size.resto, 1, size.valor),
   resto |-> SubSeq(size.resto, size.valor + 1, Len(size.resto))]

(* --- The console --------------------------------------------------------- *)

Verbos == [guardar_pedido |-> "GUARDAR_PEDIDO", guardar_plato |-> "GUARDAR_PLATO",
           obtener_pedido |-> "OBTENER_PEDIDO", confirmar_pedido |-> "CONFIRMAR_PEDIDO",
           plato_listo |-> "PLATO_LISTO", finalizar_pedido |-> "FINALIZAR_PEDIDO",
           consultar_pedido |-> "CONSULTAR_PEDIDO", exit |-> "SALIR",
           prueba_final_comanda |-> "PRUEBA_FINAL_COMANDA"]

(* A word that is none of them falls off the end of                        *)
(* get_codigo_operacion_by_string: the caller gets what the last strcmp    *)
(* left in the register, which is not zero.                                *)
get_codigo_operacion_by_string(verbo) ==
  IF verbo \in DOMAIN Verbos THEN {Codigo[Verbos[verbo]]} ELSE Codigos \ {0}

Necesita(op) ==
  CASE op = "GUARDAR_PLATO" -> 4 [] op = "PLATO_LISTO" -> 3 [] OTHER -> 2

Solicitado(op, args) ==
  [restaurante |-> args[1], id_pedido |-> args[2].numero,
   plato |-> IF Necesita(op) > 2 THEN args[3] ELSE PalabraIndefinida,
   cantidad |-> IF Necesita(op) > 3 THEN args[4].numero ELSE 0,
   id_cliente |-> IdCliente]

Ejecuta(codigo) == {op \in Operaciones : Codigo[op] = codigo}

Nada == << >>

SinLinea == [verbo |-> "", args |-> << >>]

Init ==
  /\ paso = "consola" /\ linea = SinLinea
  /\ cable = << >> /\ recibido = Nada /\ respuesta = Nada /\ informe = Nada
  /\ desborde = {}

EnviarSolicitud(op, args) ==
  LET s == Solicitado(op, args)
      bytes == serializar(op, s) IN
  /\ cable' = cable \o Mensaje(Codigo[op], Tamanio(op, s), bytes)
  /\ desborde' = DesbordeDe(Tamanio(op, s), bytes)
  /\ paso' = "servidor"

(* The script of prueba_final_comanda (whose order is in PruebaFinal): its  *)
(* requests, each on a connection of its own and each answered before the  *)
(* next, are taken here one at a time and in any order.                    *)
PedirDelGuion ==
  \E pedido \in Guion : linea' = pedido /\ EnviarSolicitud(Verbos[pedido.verbo], pedido.args)

(* The six commands, the script, exit, and anything else, which is invalid.*)
(* Words that are missing are NULL, and atoi or strlen ends the console.   *)
LeerComando(l) ==
  /\ paso = "consola"
  /\ UNCHANGED <<recibido, respuesta, informe>>
  /\ \E codigo \in get_codigo_operacion_by_string(l.verbo) :
       \/ codigo = Codigo["PRUEBA_FINAL_COMANDA"] /\ PedirDelGuion
       \/ /\ linea' = l
          /\ \E op \in Ejecuta(codigo) : Len(l.args) >= Necesita(op) /\ EnviarSolicitud(op, l.args)
       \/ /\ \/ \E op \in Ejecuta(codigo) : Len(l.args) < Necesita(op) /\ paso' = "fin"
             \/ codigo = Codigo["SALIR"] /\ paso' = "fin"
             \/ /\ codigo \notin {Codigo[op] : op \in Operaciones \cup {"SALIR", "PRUEBA_FINAL_COMANDA"}}
                /\ UNCHANGED paso
          /\ UNCHANGED <<linea, cable, desborde>>

(* --- The server ---------------------------------------------------------- *)

EscucharMensajes ==
  /\ paso = "servidor"
  /\ LET m == Recibido(cable) IN
     \E op \in Ejecuta(m.codigo) :
       /\ recibido' = [op |-> op, campos |-> deserializar(op, m.payload)]
       /\ cable' = m.resto
  /\ paso' = "respuesta"
  /\ UNCHANGED <<linea, respuesta, informe, desborde>>

(* The answer of a handler: a description, and the list of dishes.         *)
Rechazo(motivo) == [resultado |-> 0, motivo |-> motivo, estado |-> 0, platos |-> << >>]
Acepta(estado, platos) ==
  [resultado |-> 1, motivo |-> PalabraIndefinida, estado |-> estado, platos |-> platos]

Respuestas(op) ==
  {Rechazo(m) : m \in Motivos} \cup
  (IF op = "OBTENER_PEDIDO"
   THEN {Acepta(estado, platos) : estado \in 0 .. 2, platos \in Listas}
   ELSE {Acepta(0, << >>)})

serializar_descripcion(r) ==
  serializar_int(r.resultado) \o
    (IF r.resultado = 1 THEN << >> ELSE serializar_string(r.motivo))
TamanioDescripcion(r) ==
  IF r.resultado = 1 THEN sizeof_int ELSE 2 * sizeof_int + r.motivo.largo + 1

serializar_plato(p) ==
  serializar_string(p.nombre) \o serializar_int(p.pedida) \o serializar_int(p.preparada)

serializar_respuesta_obtener_pedido(r) ==
  FoldLeft(LAMBDA bytes, p : bytes \o serializar_plato(p),
           serializar_int(r.estado) \o serializar_int(Len(r.platos)), r.platos)
TamanioLista(r) ==
  FoldLeft(LAMBDA t, p : t + 3 * sizeof_int + p.nombre.largo + 1, 2 * sizeof_int, r.platos)

LlevaLista(op, r) == op = "OBTENER_PEDIDO" /\ r.resultado = 1

(* Mutant: the list goes after every answer of obtener_pedido. *)
Mensajes_siempre_lista(op, r) ==
  Mensaje(Codigo[op], TamanioDescripcion(r), serializar_descripcion(r))
    \o (IF op = "OBTENER_PEDIDO"
        THEN Mensaje(Codigo[op], TamanioLista(r), serializar_respuesta_obtener_pedido(r))
        ELSE << >>)

Mensajes(op, r) ==
  Mensaje(Codigo[op], TamanioDescripcion(r), serializar_descripcion(r))
    \o (IF LlevaLista(op, r)
        THEN Mensaje(Codigo[op], TamanioLista(r), serializar_respuesta_obtener_pedido(r))
        ELSE << >>)

(* The names that are copied with strcpy to buffers of                     *)
(* TAMANIO_NOMBRE_PLATO bytes: enlistar_platos copies each dish of an      *)
(* order, crear_plato that of a guardar_plato which passed every test.  It *)
(* is only called for a dish the order does not have; one too long that    *)
(* the order has was written past its buffer when it was created.          *)
Nombres(r) == {r.platos[i].nombre : i \in DOMAIN r.platos}

(* Mutant: the dish is created before the order is looked for. *)
NombresCopiados_antes(r) ==
  Nombres(r) \cup IF recibido.op = "GUARDAR_PLATO" THEN {recibido.campos["plato"]} ELSE {}

NombresCopiados(r) ==
  Nombres(r) \cup IF recibido.op = "GUARDAR_PLATO" /\ r.resultado = 1
                  THEN {recibido.campos["plato"]} ELSE {}

Largo(w) == w.largo + 1
DesbordeDeNombre(nombres) ==
  IF \E w \in nombres : Largo(w) > TAMANIO_NOMBRE_PLATO THEN {"nombre"} ELSE {}

Contestar ==
  /\ paso = "respuesta"
  /\ \E r \in Respuestas(recibido.op) :
       /\ respuesta' = r
       /\ cable' = cable \o Mensajes(recibido.op, r)
       /\ desborde' =
            DesbordeDe(TamanioDescripcion(r), serializar_descripcion(r))
            \cup DesbordeDe(TamanioLista(r), serializar_respuesta_obtener_pedido(r))
            \cup DesbordeDeNombre(NombresCopiados(r))
  /\ paso' = "vuelta"
  /\ UNCHANGED <<linea, recibido, informe>>

(* --- The console again --------------------------------------------------- *)

(* Mutant: the prepared quantity is read before the ordered one. *)
LeerPlato_cruzado(acc, i) ==
  LET nombre == deserializar_string(acc.resto)
      preparada == deserializar_int(nombre.resto)
      pedida == deserializar_int(preparada.resto) IN
  [resto |-> pedida.resto,
   platos |-> Append(acc.platos, [nombre |-> nombre.valor, pedida |-> pedida.valor,
                                  preparada |-> preparada.valor])]

LeerPlato(acc, i) ==
  LET nombre == deserializar_string(acc.resto)
      pedida == deserializar_int(nombre.resto)
      preparada == deserializar_int(pedida.resto) IN
  [resto |-> preparada.resto,
   platos |-> Append(acc.platos, [nombre |-> nombre.valor, pedida |-> pedida.valor,
                                  preparada |-> preparada.valor])]

deserializar_respuesta_obtener_pedido(bytes) ==
  LET estado == deserializar_int(bytes)
      cantidad == deserializar_int(estado.resto) IN
  [estado |-> estado.valor,
   platos |-> FoldLeft(LeerPlato, [resto |-> cantidad.resto, platos |-> << >>],
                       [i \in 1 .. cantidad.valor |-> i]).platos]

(* recibir_descripcion, then the second message if the console expects it. *)
RecibirRespuesta ==
  /\ paso = "vuelta"
  /\ LET primero == Recibido(cable)
         resultado == deserializar_int(primero.payload)
         segundo == Recibido(primero.resto)
         lista == deserializar_respuesta_obtener_pedido(segundo.payload) IN
     IF resultado.valor = 0
     THEN /\ informe' = Rechazo(deserializar_string(resultado.resto).valor)
          /\ cable' = primero.resto
     ELSE IF recibido.op = "OBTENER_PEDIDO"
     THEN informe' = Acepta(lista.estado, lista.platos) /\ cable' = segundo.resto
     ELSE informe' = Acepta(0, << >>) /\ cable' = primero.resto
  /\ paso' = "informe"
  /\ UNCHANGED <<linea, recibido, respuesta, desborde>>

(* The loop of main: the next readline. *)
OtraLinea ==
  /\ paso = "informe" /\ paso' = "consola"
  /\ linea' = SinLinea /\ recibido' = Nada /\ respuesta' = Nada /\ informe' = Nada
  /\ UNCHANGED <<cable, desborde>>

(* Nothing is said of what follows a buffer written past its end. *)
Next ==
  /\ desborde = {}
  /\ \/ \E l \in Lineas : LeerComando(l)
     \/ EscucharMensajes
     \/ Contestar
     \/ RecibirRespuesta
     \/ OtraLinea

Spec == Init /\ [][Next]_vars

(* --- Properties ---------------------------------------------------------- *)

Escrita(w) == [texto |-> w.texto, largo |-> w.largo]

(* The parameters of each operation, whatever their order. *)
Pide(op) ==
  {"restaurante", "id_pedido"}
    \cup (IF op \in {"GUARDAR_PLATO", "PLATO_LISTO"} THEN {"plato"} ELSE {})
    \cup (IF op = "GUARDAR_PLATO" THEN {"cantidad"} ELSE {})

(* The handler gets the restaurant, the order, the dish and the quantity   *)
(* that were typed, each in its place, for every command and any words:    *)
(* the order of the words, of the fields written and of the fields read    *)
(* agree (leer_comando, serializar_x, deserializar_x), for the script's    *)
(* requests too.  A word that is no command, which ought to be answered    *)
(* "comando invalido", may run one of the six, or the script: what arrives *)
(* then is still a whole request.                                          *)
LlegaLoPedido ==
  paso = "respuesta" =>
    LET op == IF linea.verbo \in DOMAIN Verbos THEN Verbos[linea.verbo] ELSE recibido.op
        s == Solicitado(op, linea.args) IN
    recibido = [op |-> op,
                campos |-> [c \in Pide(op) |-> IF c \in Palabras THEN Escrita(s[c]) ELSE s[c]]]

(* What the console prints is what the handler answered: the result, the   *)
(* reason of a refusal, and for obtener_pedido the state and every dish    *)
(* with its two quantities.                                                *)
LlegaLaRespuesta ==
  paso = "informe" =>
    informe = [respuesta EXCEPT !.motivo = Escrita(@),
                 !.platos = [i \in DOMAIN @ |-> [@[i] EXCEPT !.nombre = Escrita(@)]]]

(* The next message starts where the last one ended: when one side has     *)
(* read what it expects nothing is left on the connection.                 *)
CableVacio == paso \in {"consola", "respuesta", "informe"} => cable = << >>

(* The sizes are computed apart from the bytes and never fall short of     *)
(* them.  A name goes past its buffer exactly when this request adds a     *)
(* dish typed with TAMANIO_NOMBRE_PLATO characters or more, or this answer *)
(* lists one (strcpy, in crear_plato and in enlistar_platos): never with a *)
(* shorter name, nor when the dish is refused.                             *)
DesbordeSoloPorNombre ==
  /\ "mensaje" \notin desborde
  /\ "nombre" \in desborde <=>
       /\ paso = "vuelta"
       /\ \/ /\ recibido.op = "GUARDAR_PLATO" /\ respuesta.resultado = 1
             /\ linea.args[3].largo >= TAMANIO_NOMBRE_PLATO
          \/ \E i \in DOMAIN respuesta.platos :
               respuesta.platos[i].nombre.largo >= TAMANIO_NOMBRE_PLATO

=============================================================================

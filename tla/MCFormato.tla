------------------------------ MODULE MCFormato ------------------------------
(***************************************************************************)
(* Lines, answers and words for module Formato, with names of dishes up to *)
(* and past TAMANIO_NOMBRE_PLATO.                                          *)
(***************************************************************************)
EXTENDS Formato

Palabra(texto, largo, numero) == [texto |-> texto, largo |-> largo, numero |-> numero]

boka == Palabra("boka", 4, 0)
uno == Palabra("1", 1, 1)
veinte == Palabra("20", 2, 20)
pan == Palabra("pan", 3, 0)
milanesa == Palabra("milanesasconpapasfritas", 23, 0)
napolitana == Palabra("milanesasconpapasalhorno", 24, 0)

(* Any words after any verb, a number where a name goes included; one word *)
(* more than needed is ignored, one less is missing.                       *)
VerbosProbados == {"guardar_pedido", "guardar_plato", "obtener_pedido", "confirmar_pedido",
                   "plato_listo", "finalizar_pedido", "consultar_pedido",
                   "prueba_final_comanda", "exit"}

Argumentos(nombres) ==
  {<< >>, <<boka>>} \cup {<<r, n>> : r \in {boka, uno}, n \in {uno, veinte, boka}}
    \cup {<<boka, veinte, d>> : d \in nombres}
    \cup {<<r, uno, d, n>> : r \in {boka, pan}, d \in nombres, n \in {uno, veinte}}

LineasDe(verbos, nombres) ==
  {[verbo |-> v, args |-> a] : v \in verbos, a \in Argumentos(nombres)}

TodasLasLineas == LineasDe(VerbosProbados, {uno, pan, milanesa, napolitana})
                    \cup LineasDe({"uardar_pedido"}, {pan})

(* Requests of the script, one of each kind and both shapes of a quantity. *)
asadoconfritas == Palabra("asadoconfritas", 14, 0)
choripan == Palabra("choripan", 8, 0)
GuionProbado ==
  {[verbo |-> v, args |-> <<boka, uno>>] :
     v \in {"guardar_pedido", "obtener_pedido", "confirmar_pedido", "finalizar_pedido"}}
    \cup {[verbo |-> "guardar_plato", args |-> <<boka, uno, asadoconfritas, uno>>],
          [verbo |-> "guardar_plato", args |-> <<boka, Palabra("4", 1, 4), choripan, veinte>>],
          [verbo |-> "plato_listo", args |-> <<boka, uno, asadoconfritas>>]}

MotivosProbados == {Palabra("no", 2, 0), Palabra("", 0, 0)}

PlatosProbados ==
  [nombre : {pan, milanesa}, pedida : {0, 2}, preparada : {1, 2}]
    \cup {[nombre |-> napolitana, pedida |-> 1, preparada |-> 0]}

ListasProbadas ==
  {<< >>} \cup {<<p>> : p \in PlatosProbados} \cup {<<p, q>> : p, q \in PlatosProbados}

=============================================================================

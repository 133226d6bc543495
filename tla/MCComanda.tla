------------------------------ MODULE MCComanda ------------------------------
(* Small instances of Comanda for TLC. *)
EXTENDS Comanda, TLC

(* Neither restaurants, nor order numbers, nor dishes are ordered or told  *)
(* apart by the code.                                                      *)
Simetria == Permutations(Restaurantes) \cup Permutations(Ids) \cup Permutations(Platos)

(* What the server can still read: not what a free frame holds, nor the    *)
(* swap copy of a page that will be written back first.                    *)
Legible(memoria, frames) ==
  [f \in DOMAIN memoria |-> IF f \in frames THEN memoria[f] ELSE "-"]

Visible(contestada) ==
  LET residentes == Legible(mem.mp, {f \in FramesMP : mem.bitmap_mp[f]})
      modificada == {mem.paginas[p].frame_mv : p \in {q \in Residentes(mem) : mem.paginas[q].modificacion}}
      enSwap     == Legible(mem.mv, {f \in FramesMV : mem.bitmap_mv[f]} \ modificada)
  IN  <<restaurantes, estado, hilo, contestada, caido,
        [mem EXCEPT !.mp = residentes, !.mv = enSwap]>>

Vista == Visible(respuesta)

(* While the console has an answer to read it does nothing else (Libre), so*)
(* what the answer says matters to the step that gives it and to no other: *)
(* the properties of steps are checked on every step, seen before or not.  *)
VistaDePasos == Visible(respuesta # SinRespuesta)

=============================================================================

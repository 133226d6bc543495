------------------------------ MODULE MCRecencia ------------------------------
(* Small instances of Recencia for TLC. *)
EXTENDS MCComanda, Recencia

(* What an answer says does not matter to what happens next.               *)
VistaRecencia ==
  <<[Vista EXCEPT ![4] = (@ = SinRespuesta)], escritas>>

=============================================================================

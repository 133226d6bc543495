------------------------------- MODULE MCReloj -------------------------------
(* Lists of up to three pages. *)
EXTENDS Reloj

TresPaginas == <<"p1", "p2", "p3">>

=============================================================================

CONSTANTS
  Restaurantes = {r1, r2}
  Ids = {1, 2}
  Platos = {a, b}
  r1 = r1
  r2 = r2
  a = a
  b = b
  t1 = t1
  t2 = t2
  t3 = t3
  Hilos = {t1, t2, t3}
  Nadie = nadie
  NingunPedido = ninguno
  NingunPlato = ninguno
  CantFramesMP = 2
  CantFramesMV = 4
  Modulo = 16
  Algoritmo = "CLOCK_MODIFICADO"
  Escenarios <- Revueltos

SPECIFICATION Spec
CHECK_DEADLOCK FALSE
INVARIANTS ExclusionDeSwap MarcosSinCompartir CausaDeFallo CausaDeBloqueo CausaDePerdida

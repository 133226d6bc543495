SPECIFICATION Spec
CONSTANTS
  Restaurantes = {r1}
  Ids = {i1, i2}
  Platos = {d1, d2}
  NingunPlato = NingunPlato
  CantFramesMP = 2
  CantFramesMV = 3
  Algoritmo = "LRU"
  Modulo = 2
  Cantidades = {1}
SYMMETRY Simetria
VIEW VistaDePasos
INVARIANTS CopiaLimpia TablasOK TerminadoCompleto
PROPERTIES CumplePromesa ConfirmadoCerrado
CHECK_DEADLOCK FALSE

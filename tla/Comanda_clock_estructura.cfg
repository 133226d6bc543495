SPECIFICATION Spec
CONSTANTS
  Restaurantes = {r1}
  Ids = {i1, i2}
  Platos = {d1, d2, d3}
  NingunPlato = NingunPlato
  CantFramesMP = 2
  CantFramesMV = 3
  Algoritmo = "CLOCK_MODIFICADO"
  Modulo = 1
  Cantidades = {0}
SYMMETRY Simetria
VIEW Vista
INVARIANTS TypeOK FramesOK ListaOK PunteroOK FijadasOK CausaDeCaida
CHECK_DEADLOCK FALSE

SPECIFICATION SpecRecencia
CONSTANTS
  Restaurantes = {r1}
  Ids = {i1, i2}
  Platos = {d1, d2, d3}
  NingunPlato = NingunPlato
  CantFramesMP = 2
  CantFramesMV = 3
  Algoritmo = "LRU"
  Modulo = 1
  Cantidades = {0}
SYMMETRY Simetria
VIEW VistaRecencia
INVARIANTS ListaPorAntiguedad
PROPERTIES VictimaMasAntigua
CHECK_DEADLOCK FALSE

\* The configuration of comanda/cfg/comanda.config.
SPECIFICATION SpecPrueba
CONSTANTS
  boka = boka
  asadoconfritas = asadoconfritas
  bondiolita = bondiolita
  choripan = choripan
  morcipan = morcipan
  Restaurantes = {boka}
  Ids = {1, 2, 3, 4, 5, 6, 7}
  Platos = {asadoconfritas, bondiolita, choripan, morcipan}
  CantFramesMP = 4
  CantFramesMV = 128
  Algoritmo = "CLOCK_MODIFICADO"
  Modulo = 1000
  Cantidades = {1, 2, 4, 20}
  NingunPlato = NingunPlato
INVARIANTS ComoElRegistro TerminaVacia


SPECIFICATION Spec
CONSTANTS
  Candidatas <- TresPaginas
  Requerida = "r"
INVARIANTS ComoLaDefinicion VictimaDeLaMejorClase SegundaOportunidad
PROPERTY Termina
CHECK_DEADLOCK FALSE

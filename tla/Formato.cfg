CONSTANTS
  TAMANIO_NOMBRE_PLATO = 24
  IdCliente = 0
  Lineas <- TodasLasLineas
  Guion <- GuionProbado
  Motivos <- MotivosProbados
  Listas <- ListasProbadas

SPECIFICATION Spec
CHECK_DEADLOCK FALSE
INVARIANTS LlegaLoPedido LlegaLaRespuesta CableVacio DesbordeSoloPorNombre

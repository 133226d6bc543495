CONSTANTS
  Consolas = {"c1", "c2"}
  Ordenes = {"OBTENER_PEDIDO", "PLATO_LISTO", "HANDSHAKE", "GUARDAR_PLATO"}
  MaxDescriptores = 2
  MaxConexiones = 2
  Interrumpibles = {"c1", "comanda"}

SPECIFICATION FairSpec
CHECK_DEADLOCK FALSE
INVARIANTS DescriptorPropio NadieLeeDeNada
PROPERTIES CausaDeBaja ConsolaVuelve DevuelveDescriptores

SPECIFICATION MCSpec
CONSTANTS
  Llaves = {"1", "uno", "barra", "salto"}
  Texto <- MC_Texto
  Datos = {v, w}
  Ids = {a, b, c}
  Basura = basura
  Libre = libre
  MaxArgs = 2
  MaxPasos = 4
SYMMETRY Simetria
CHECK_DEADLOCK FALSE
INVARIANT ListadoEncontrable
PROPERTY Funciones

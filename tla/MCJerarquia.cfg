SPECIFICATION FairSpec
CONSTANTS
  Nombres <- MCNombres
  Programas <- MCProgramas
INVARIANTS
  AccesoRespetado
  ObjetosFieles
  AbstractosImplementados
PROPERTIES
  Termina
CHECK_DEADLOCK FALSE

SPECIFICATION Spec
CONSTANTS
  Nombres <- MCNombres
  Mayusculas <- MCMayusculas
  Incorporadas <- MCIncorporadas
  Programas <- MCProgramas
INVARIANTS
  ContextosFieles
  VeredictoSegunReglas
  CAcepta
  MismaCelda
CHECK_DEADLOCK FALSE

SPECIFICATION FairSpec
CONSTANTS
  Archivos <- MCArchivos
  Cwd <- MCCwd
  Principales <- MCPrincipales
  Incluibles <- MCIncluibles
  Discos <- MCDiscos
  MaxAbiertos = 15
  MaxRuta = 13
INVARIANTS
  SinCirculos
  ExpansionFiel
PROPERTIES
  Termina
CHECK_DEADLOCK FALSE

SPECIFICATION Spec
CONSTANTS
  Programas <- MCProgramas
  TablaAjena <- MCTablaAjena
INVARIANTS
  MismoSentido
  ExportaLoQueDice

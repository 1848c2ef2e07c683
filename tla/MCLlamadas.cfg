CONSTANTS
  MaxEntradas = 8
  Programas <- MCProgramas
SPECIFICATION Spec
INVARIANT
  LlamadasFieles

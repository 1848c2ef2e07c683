SPECIFICATION MCSpec
CONSTANTS
  uno = uno
  cierto = cierto
  dos = dos
  a = a
  b = b
  Numeros <- mcNumeros
  NaNs = {}
  Cadenas = {}
  Nulo = Nulo
  Peso <- mcPeso
  Ids <- mcIds
  Basura = Basura
  Indices <- mcIndices
  MaxArgs = 1
  MaxLongitud = 4
  MaxPasos = 4
INVARIANTS
  TypeOK
  SinBasura
  BusquedasFieles
PROPERTY
  Secuencias
CHECK_DEADLOCK FALSE

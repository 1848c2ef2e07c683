SPECIFICATION FairSpec
CONSTANTS
  Rutas = {"a", "b", "c", "d"}
  Nombres = {"f", "g", "e", "__defecto__"}
  Entrada = "a"
  Defecto = "__defecto__"
  Slugs = {"a", "b", "c", "d"}
  SlugDesdeRuta <- MCSlugDesdeRuta
  Libre = Libre
  Nulo = Nulo
  Proyectos <- MCProyectos
INVARIANTS
  PilaEsCamino
  CadenaEsCiclo
  OrdenDeDependencias
  VeredictoCorrecto
  ReferenciasResueltas
PROPERTIES
  MemoFinal
  Termina
  ImplementaEnlace

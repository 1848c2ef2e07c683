SPECIFICATION Spec
CONSTANTS
    Procesos <- MC_Procesos
    Fuentes <- MC_Fuentes
    Programas <- MC_Programas
    Builds <- MC_Builds
    Escenas <- MC_Escenas
PROPERTY
    CadaUnoLoSuyo

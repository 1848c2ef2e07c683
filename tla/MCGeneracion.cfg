SPECIFICATION Spec
CONSTANTS
    Programas <- MC_Programas
    Vars <- MC_Vars
    Guiones <- MC_Guiones
    Ordenes <- MC_Ordenes
    MaxSucesos = 6
INVARIANTS
    BloquesCerrados
    LLVMEsElPrograma
    CEsElPrograma
PROPERTY
    Termina

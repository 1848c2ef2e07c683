SPECIFICATION Spec
CONSTANTS
    Nulo = Nulo
    Aborta = Aborta
    Rechazados = {no_numero, no_finito, fraccion}
    Precision = 4
    Casos <- MC_Casos
INVARIANTS
    ExpresionesFieles
    TextosFieles
    RangosFieles

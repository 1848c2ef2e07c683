------------------------------ MODULE Analisis ------------------------------
(***************************************************************************)
(* The parser of Latino (src/parser.cpp) over its lexer (module Lexico).   *)
(*                                                                         *)
(* The recursive descent is written as a machine with two stacks: pila,    *)
(* what the calls that are open still have to do, next thing first, and    *)
(* valores, the parts of the tree they hold.  A symbol of pila is          *)
(*   <<"avanza">>       avanzar()                                          *)
(*   <<"hoja">>         avanzar(), and the token is a leaf of the tree     *)
(*   <<"palabra", w>>   esperarOperador / esperarDelimitador /             *)
(*                      esperarReservada (w)                               *)
(*   <<"clase", c>>     a token of class c is required: a leaf             *)
(*   <<"opcional", W>>  a token of W, if it is there: a leaf               *)
(*   <<"angulo">>       cerrarAngulo()                                     *)
(*   <<"mirado", t>>    parseAsignacionOExpr, which took the identifier t  *)
(*                      to see the token behind it                         *)
(*   <<"abre">>, <<"cierra", n>>   the values since <<"abre">> are the     *)
(*                      children of a node n                               *)
(*   <<"une", n, k>>    the last k values are the children of a node n     *)
(*   <<"marca", m>>     the last value is a declaration with modifier m    *)
(*   <<"llama", f>>     a call of the parsing function f                   *)
(*   <<"bloque", T>>, <<"sentencias", T>>   parseBloque(T), and its loop   *)
(*   <<"lista", c>>, <<"elementos", c>>, <<"mas", c>>   expressions with   *)
(*                      commas up to the delimiter c                       *)
(*   <<"cola", o>>      what a level of the expressions does behind its    *)
(*                      first operand                                      *)
(*   <<"error">>        error(): the first error ends the analysis         *)
(*                                                                         *)
(* The text is written while it is read (Escribir, Cerrar): the machine    *)
(* meets every text of a vocabulary without a list of texts.               *)
(***************************************************************************)
EXTENDS Lexico, FiniteSets

CONSTANTS
    Vocabularios     \* sequence of [piezas |-> set of texts, largo |-> how many are written]

ASSUME VocabulariosAssumption ==
    \A v \in DOMAIN Vocabularios : Vocabularios[v].largo \in Nat

VARIABLES
    vocabulario,  \* which pieces the text is made of
    texto,        \* sourceCode, as far as it is written
    piezas,       \* how many pieces have been written
    cerrado,      \* nothing more is written
    pos,          \* currentPosition of the lexer
    roto,         \* the lexer printed an error
    actual,       \* actual
    devuelto,     \* tieneTokenDevuelto_ and tokenDevuelto_: a sequence of at most one
    hasta,        \* where the last token that was taken ends
    pila, valores, estado

fuente == <<vocabulario, texto, piezas, cerrado>>
flujo  == <<pos, roto, actual, devuelto, hasta>>
vars   == <<fuente, flujo, pila, valores, estado>>

Avanza        == <<"avanza">>
Hoja          == <<"hoja">>
Palabra1(w)   == <<"palabra", w>>
Clase(c)      == <<"clase", c>>
Opcional(W)   == <<"opcional", W>>
Abre          == <<"abre">>
Cierra(n)     == <<"cierra", n>>
Une(n, k)     == <<"une", n, k>>
Marca(m)      == <<"marca", m>>
Llama(f)      == <<"llama", f>>
Bloque(T)     == <<"bloque", T>>
Cola(o)       == <<"cola", o>>
Rechazo       == << <<"error">> >>

EsFinDeLinea == actual.clase = "nl"
EsEOF        == actual.clase = "eof"
EsId         == actual.clase = "id"
(* esOperador, esDelimitador and esReservada: a string is none of them. *)
EsAlguna(W)  == actual.clase \in {"op", "del", "res"} /\ actual.lexema \in W
Es(w)        == EsAlguna({w})
EsFun        == EsAlguna({"funcion", "fun"})
EsTerminadorBloque == EsAlguna({"fin", "sino", "osi", "caso", "defecto", "otro", "hasta"})

TiposBasicos == {"numero", "cadena", "logico", "lista", "dic", "nulo"}
TiposFFI == {"numero", "cadena", "logico", "nulo", "entero8", "entero16", "entero32",
             "entero64", "natural8", "natural16", "natural32", "natural64", "puntero"}

-----------------------------------------------------------------------------
(* Types and generics. *)
NombreTipoCalificado == <<Abre, Clase("id"), Llama("calificado")>>
Calificado == IF Es(".") THEN <<Avanza, Clase("id"), Llama("calificado")>>
                         ELSE <<Cierra("nombre")>>

ArgsTipoGenericos == IF Es("<") THEN <<Avanza, Abre, Llama("argTipo")>> ELSE <<>>
(* Behind extiende, implementa, es and the type of a variable they are     *)
(* read and dropped: nothing after the parser sees the second child of a   *)
(* node "descarta".                                                        *)
ArgsDescartados == IF Es("<") THEN ArgsTipoGenericos \o <<Une("descarta", 2)>> ELSE <<>>
ArgTipo    == NombreTipoCalificado \o <<Llama("masArgsTipo")>>
MasArgsTipo == IF Es(",") THEN <<Avanza, Llama("argTipo")>>
                          ELSE << <<"angulo">>, Cierra("args")>>

ParametrosGenericos == IF Es("<") THEN <<Avanza, Abre, Llama("paramGenerico")>> ELSE <<>>
ParamGenerico == <<Clase("id"), Llama("cotas"), Llama("masGenericos")>>
MasGenericos  == IF Es(",") THEN <<Avanza, Llama("paramGenerico")>>
                            ELSE << <<"angulo">>, Cierra("genericos")>>
Cotas    == IF Es(":") THEN <<Avanza, Abre, Llama("cota")>> ELSE <<>>
Cota     == <<Clase("id"), Llama("masCotas")>>
MasCotas == IF Es("+") THEN <<Avanza, Llama("cota")>> ELSE <<Cierra("cotas")>>

(* The values of the call that is open: those since its <<"abre">>. *)
Desde1(vs) == CHOOSE k \in 1..Len(vs) :
                 vs[k] = Abre /\ \A j \in (k + 1)..Len(vs) : vs[j] # Abre
Abiertos   == SubSeq(valores, Desde1(valores) + 1, Len(valores))
GenericosDeclarados ==
    UNION {{g[k][2] : k \in {j \in 2..Len(g) : g[j][1] = "id"}} :
             g \in {v \in Range(Abiertos) : v[1] = "genericos"}}

ClausulaDonde == IF Es("donde") THEN <<Avanza, Llama("restriccion")>> ELSE <<>>
Restriccion   == IF EsId /\ actual.lexema \in GenericosDeclarados
                 THEN <<Hoja, Palabra1(":"), Abre, Llama("cota"), Llama("masDonde")>>
                 ELSE Rechazo
MasDonde      == IF Es(",") THEN <<Avanza, Llama("restriccion")>> ELSE <<>>

(* A basic type is one word; the name of a class may be qualified. *)
Tipo == IF ~EsId THEN Rechazo
        ELSE (IF actual.lexema \in TiposBasicos THEN <<Hoja>> ELSE NombreTipoCalificado)
             \o <<Llama("argsTipoGenericos")>>
TipoOpcional == IF Es(":") THEN <<Avanza, Llama("tipo")>> ELSE <<>>

-----------------------------------------------------------------------------
(* Statements. *)
FinDeSentencia ==
    IF EsFinDeLinea THEN <<Avanza>>
    ELSE IF EsEOF \/ EsTerminadorBloque \/ EsAlguna({")", ";"}) THEN <<>>
    ELSE Rechazo

Saltos    == IF EsFinDeLinea THEN <<Avanza, Llama("saltos")>> ELSE <<>>
Programa  == IF EsEOF THEN <<Cierra("programa")>>
             ELSE <<Llama("sentencia"), Llama("saltos"), Llama("programa")>>

ParseBloque(T) == <<Abre, Llama("saltos"), <<"sentencias", T>> >>
Sentencias(T)  == IF EsEOF \/ EsAlguna(T) THEN <<Cierra("bloque")>>
                  ELSE <<Llama("sentencia"), Llama("saltos"), <<"sentencias", T>> >>

(* The identifier is taken to look for ':' behind it: see Mirar. *)
AsignacionOExpr == IF EsId THEN <<Avanza, <<"mirado", actual>> >> ELSE <<Llama("asignacion")>>
Anotada         == IF EsId THEN <<Hoja, Llama("argsDescartados"), Palabra1("="),
                                  Llama("expresiones"), Cierra("asigna")>>
                           ELSE Rechazo
Asignacion  == <<Abre, Llama("expresiones"), Llama("destinos")>>
Expresiones == <<Abre, Llama("expresion"), Llama("masExpresiones")>>
MasExpresiones == IF Es(",") THEN <<Avanza, Llama("expresion"), Llama("masExpresiones")>>
                             ELSE <<Cierra("expresiones")>>
Destinos == IF Es("=") THEN <<Avanza, Llama("expresiones"), Cierra("asigna")>>
            ELSE IF Len(valores[Len(valores)]) = 2 THEN <<Cierra("expr")>>
            ELSE Rechazo
SentenciaSimple == <<Llama("asignacionOExpr"), Llama("finDeSentencia")>>

ParseSi == <<Abre, Avanza, Llama("expresion"), Bloque({"sino", "osi", "fin"}), Llama("osis")>>
Osis == IF Es("osi") THEN <<Abre, Avanza, Llama("expresion"), Bloque({"sino", "osi", "fin"}),
                            Cierra("osi"), Llama("osis")>>
        ELSE IF Es("sino") THEN <<Avanza, Bloque({"fin"}), Palabra1("fin"), Cierra("si")>>
        ELSE <<Palabra1("fin"), Cierra("si")>>

ParseElegir == <<Abre, Avanza, Llama("expresion"), Llama("saltos"), Llama("casos")>>

Casos == IF Es("caso") THEN <<Abre, Avanza, Llama("expresion"), Palabra1(":"),
                              Bloque({"caso", "defecto", "otro", "fin"}), Cierra("caso"),
                              Llama("casos")>>
         ELSE IF EsAlguna({"defecto", "otro"})
         THEN <<Avanza, Palabra1(":"), Bloque({"fin"}), Palabra1("fin"), Cierra("elegir")>>
         ELSE <<Palabra1("fin"), Cierra("elegir")>>

ParseDesde == <<Abre, Avanza, Palabra1("("), Llama("asignacionOExpr"), Palabra1(";"),
                Llama("expresion"), Palabra1(";"), Llama("asignacionOExpr"), Palabra1(")"),
                Bloque({"fin"}), Palabra1("fin"), Cierra("desde")>>
ParsePara  == <<Abre, Avanza, Clase("id"), Palabra1("en"), Llama("expresion"),
                Bloque({"fin"}), Palabra1("fin"), Cierra("para")>>
ParseMientras == <<Abre, Avanza, Llama("expresion"), Bloque({"fin"}), Palabra1("fin"),
                   Cierra("mientras")>>
ParseRepetir  == <<Abre, Avanza, Bloque({"hasta"}), Palabra1("hasta"), Llama("expresion"),
                   Llama("finDeSentencia"), Cierra("repetir")>>

(* A list of parameters; the variadic mark, if it is there, is the last.  *)
(* A method takes the mark and forgets it.                                *)
ParseParametros(marca, sigue) ==
    IF Es("...") THEN <<marca>>
    ELSE <<Clase("id"), Llama("tipoOpcional"), Llama(sigue)>>
Parametros == IF Es(")") THEN <<>> ELSE ParseParametros(Hoja, "masParametros")
MasParametros == IF Es(",") THEN <<Avanza, Llama("parametro")>> ELSE <<>>
ParametrosDeMetodo == IF Es(")") THEN <<>> ELSE ParseParametros(Avanza, "masParametrosDeMetodo")
MasParametrosDeMetodo == IF Es(",") THEN <<Avanza, Llama("parametroDeMetodo")>> ELSE <<>>

ParseFuncion == <<Abre, Avanza, Opcional({"inseguro"}), Opcional({"global"}), Clase("id"),
                  Llama("parametrosGenericos"), Palabra1("("), Llama("parametros"),
                  Palabra1(")"), Llama("tipoOpcional"), Llama("clausulaDonde"),
                  Bloque({"fin"}), Palabra1("fin"), Cierra("funcion")>>
FuncionAnonima == <<Abre, Avanza, Palabra1("("), Llama("parametros"), Palabra1(")"),
                    Bloque({"fin"}), Palabra1("fin"), Cierra("anonima")>>

ParseRetornar == <<Abre, Avanza, Llama("valorDeRetorno"), Llama("finDeSentencia"),
                   Cierra("regresar")>>
ValorDeRetorno == IF EsFinDeLinea \/ EsEOF \/ EsTerminadorBloque THEN <<>>
                  ELSE <<Llama("expresion")>>
ParseRomper  == <<Abre, Avanza, Llama("finDeSentencia"), Cierra("romper")>>
ParseIncluir == <<Abre, Avanza, Clase("cad"), Llama("finDeSentencia"), Cierra("incluir")>>
ParseVar     == <<Avanza, Llama("asignacionOExpr"), Marca("var"), Llama("finDeSentencia")>>
ParseConst   == <<Avanza, Llama("asignacionOExpr"), Marca("const"), Llama("finDeSentencia")>>
ParseGlobal  == <<Avanza, Llama("globalizable")>>
Globalizable == IF EsFun THEN ParseFuncion \o <<Marca("global")>>
                ELSE <<Llama("asignacionOExpr"), Marca("global"), Llama("finDeSentencia")>>
ParseInseguro == <<Abre, Avanza, Bloque({"fin"}), Palabra1("fin"), Cierra("inseguro")>>

-----------------------------------------------------------------------------
(* Modules and foreign functions. *)
ParseImportar == <<Abre, Avanza, Llama("importado"), Palabra1("desde"), Clase("cad"),
                   Llama("finDeSentencia"), Cierra("importar")>>
Importado == IF Es("{") THEN <<Avanza, Llama("saltos"), Llama("nombres")>>
             ELSE IF Es("*") THEN <<Hoja, Palabra1("como"), Clase("id")>>
             ELSE <<Clase("id")>>
Nombres    == IF Es("}") THEN <<Avanza>> ELSE <<Llama("nombre")>>
Nombre     == <<Abre, Clase("id"), Llama("alias"), Cierra("nombre"), Llama("saltos"),
                Llama("masNombres")>>
Alias      == IF Es("como") THEN <<Avanza, Clase("id")>> ELSE <<>>
MasNombres == IF Es(",") THEN <<Avanza, Llama("saltos"), Llama("nombre")>> ELSE <<Palabra1("}")>>

ParseExportar == <<Avanza, Llama("exportable")>>
Exportable ==
    IF Es("{") THEN <<Abre, Avanza, Llama("saltos"), Llama("nombres"), Palabra1("desde"),
                      Clase("cad"), Llama("finDeSentencia"), Cierra("exportarDesde")>>
    ELSE IF EsId /\ actual.lexema = "por"
    THEN <<Avanza, Palabra1("defecto"), Llama("porDefecto")>>
    ELSE <<Llama("declarable"), Marca("exportado")>>
Declarable ==
    CASE EsFun                         -> ParseFuncion
      [] Es("abstracto")               -> <<Avanza, Llama("claseAbstracta")>>
      [] Es("clase")                   -> <<Llama("clase")>>
      [] Es("estructura")              -> <<Llama("estructura")>>
      [] Es("interfaz")                -> <<Llama("interfaz")>>
      [] EsAlguna({"var", "variable"}) -> ParseVar
      [] EsAlguna({"const", "constante"}) -> ParseConst
      [] OTHER                         -> SentenciaSimple
PorDefecto ==
    IF EsFun \/ EsAlguna({"abstracto", "clase"})
    THEN <<Llama("declarable"), Marca("defecto")>>
    ELSE IF EsAlguna({"estructura", "interfaz", "var", "variable", "const", "constante"})
    THEN Rechazo
    ELSE <<Abre, Llama("expresion"), Llama("finDeSentencia"), Cierra("asigna"),
           Marca("defecto")>>

ParseExterno == <<Abre, Avanza, Llama("enlace"), Llama("finDeSentencia"), Llama("saltos"),
                  Llama("externas")>>
Enlace   == IF Es("enlazar") THEN <<Avanza, Clase("cad")>> ELSE <<>>
(* Mutant: what is not a function is skipped, the end of the file too. *)
ExternasSinFin == IF Es("fin") THEN <<Avanza, Cierra("externo")>>
                  ELSE (IF EsFun THEN <<Llama("funcionExterna")>> ELSE <<>>)
                       \o <<Llama("saltos"), Llama("externas")>>

Externas == IF EsEOF \/ Es("fin") THEN <<Palabra1("fin"), Cierra("externo")>>
            ELSE <<Llama("funcionExterna"), Llama("saltos"), Llama("externas")>>
FuncionExterna == IF EsFun THEN <<Abre, Avanza, Clase("id"), Palabra1("("),
                                  Llama("paramsFFI"), Palabra1(")"), Llama("retornoFFI"),
                                  Llama("finDeSentencia"), Cierra("externa")>>
                  ELSE Rechazo
ParamsFFI == IF Es(")") THEN <<>> ELSE <<Llama("paramFFI")>>
ParamFFI  == <<Clase("id"), Palabra1(":"), Llama("tipoFFI"), Llama("masFFI")>>
MasFFI    == IF Es(",") THEN <<Avanza, Llama("paramFFI")>> ELSE <<>>
TipoFFI   == IF EsId /\ actual.lexema \in TiposFFI THEN <<Hoja>> ELSE Rechazo
RetornoFFI == IF Es(":") THEN <<Avanza, Llama("tipoFFI")>> ELSE <<>>

-----------------------------------------------------------------------------
(* Classes, structures and interfaces. *)
ClaseAbstracta == IF Es("clase") THEN <<Llama("clase"), Marca("abstracta")>> ELSE Rechazo
ParseClase == <<Abre, Avanza, Clase("id"), Llama("parametrosGenericos"), Llama("extiende"),
                Llama("implementa"), Llama("saltos"), Llama("miembros"), Cierra("clase")>>
Extiende   == IF Es("extiende")
              THEN <<Avanza>> \o NombreTipoCalificado \o <<Llama("argsDescartados")>>
              ELSE <<>>
Implementa == IF Es("implementa") THEN <<Avanza, Llama("interfazDe")>> ELSE <<>>
InterfazDe == NombreTipoCalificado \o <<Llama("argsDescartados"), Llama("masInterfaces")>>
MasInterfaces == IF Es(",") THEN <<Avanza, Llama("interfazDe")>> ELSE <<>>

Accesos  == {"publico", "pub", "privado", "priv"}
Miembros == IF Es("fin") THEN <<Avanza>>
            ELSE <<Abre, Opcional(Accesos \cup {"protegido", "prot"}), Opcional({"estatico"}),
                   Llama("miembro"), Cierra("miembro"), Llama("saltos"), Llama("miembros")>>
Miembro  == IF Es("abstracto") THEN <<Hoja, Llama("miembroAbstracto")>>
            ELSE <<Llama("miembroConcreto")>>
CampoOMetodo(abstracto) ==
    IF EsFun THEN <<Llama(IF abstracto THEN "firma" ELSE "metodo")>>
    ELSE IF EsId THEN <<Llama("campo")>> ELSE Rechazo

ParseEstructura == <<Abre, Avanza, Clase("id"), Llama("parametrosGenericos"), Llama("saltos"),
                     Llama("miembrosDeEstructura"), Cierra("estructura")>>
MiembrosDeEstructura ==
    IF Es("fin") THEN <<Avanza>>
    ELSE <<Abre, Opcional(Accesos), Opcional({"estatico"}), Llama("miembroConcreto"),
           Cierra("miembro"), Llama("saltos"), Llama("miembrosDeEstructura")>>
ParseInterfaz == <<Abre, Avanza, Clase("id"), Llama("parametrosGenericos"), Llama("saltos"),
                   Llama("firmas"), Cierra("interfaz")>>
Firmas == IF Es("fin") THEN <<Avanza>>
          ELSE IF EsFun THEN <<Llama("firma"), Llama("saltos"), Llama("firmas")>>
          ELSE Rechazo

CampoDef == <<Abre, Clase("id"), Palabra1(":"), Llama("tipo"), Llama("valorDeCampo"),
              Llama("finDeSentencia"), Cierra("campo")>>
ValorDeCampo == IF Es("=") THEN <<Avanza, Llama("expresion")>> ELSE <<>>
(* An abstract method, or one of an interface, has no body and no fin. *)
MetodoDef(abstracto) ==
    <<Abre, Avanza, Clase("id"), Llama("parametrosGenericos"), Palabra1("("),
      Llama("parametrosDeMetodo"), Palabra1(")"), Llama("tipoOpcional"),
      Llama("clausulaDonde"), Opcional({"sobreescribir"})>>
    \o (IF abstracto THEN <<Llama("finDeSentencia"), Cierra("firma")>>
        ELSE <<Bloque({"fin"}), Palabra1("fin"), Cierra("metodo")>>)
LlamadaBase == <<Abre, Avanza, Palabra1("("), <<"lista", ")">>, Llama("finDeSentencia"),
                 Cierra("base")>>
ParseNuevo  == <<Abre, Avanza>> \o NombreTipoCalificado
               \o <<Llama("argsTipoGenericos"), Palabra1("("), <<"lista", ")">>, Cierra("nuevo")>>

-----------------------------------------------------------------------------
(* Expressions.  Each level parses its operand at the next level and then  *)
(* looks for its own operators, so the chain of calls that begins an       *)
(* operand is one list: the operand and the tails of the levels above it.  *)
ParseUnario ==
    IF Es("-") THEN <<Avanza, Llama("unario"), Une("-", 1)>>
    ELSE <<Llama("primario"), Cola("postfijo"), Cola("potencia")>>
ParseMultiplicativo == <<Llama("unario"), Cola("multiplicativo")>>
ParseAditivo        == ParseMultiplicativo \o <<Cola("aditivo")>>
ParseConcatenacion  == ParseAditivo \o <<Cola("concatenacion")>>
ParseRelacional     == ParseConcatenacion \o <<Cola("relacional"), Cola("es")>>
ParseY              == ParseRelacional \o <<Cola("y")>>
ParseO              == ParseY \o <<Cola("o")>>
ParseTernario       == ParseO \o <<Cola("ternario")>>

OperadoresDe(o) ==
    CASE o = "postfijo"       -> {"(", "::", "[", ".", "++", "--"}
      [] o = "potencia"       -> {"^"}
      [] o = "multiplicativo" -> {"*", "/", "%"}
      [] o = "aditivo"        -> {"+", "-"}
      [] o = "concatenacion"  -> {".."}
      [] o = "relacional"     -> {"<", ">", "<=", ">=", "==", "!=", "~="}
      [] o = "es"             -> {"es"}
      [] o = "y"              -> {"&&"}
      [] o = "o"              -> {"||"}
      [] o = "ternario"       -> {"?"}

(* A loop leaves its own tail behind the operand; a level that is not a    *)
(* loop does not.  '..' and the exponent take their right side at their    *)
(* own level or the unary one: they associate to the right.                *)
ColaPostfijo ==
    CASE Es("(")  -> <<Avanza, Abre, <<"lista", ")">>, Cierra("args"), Une("llamada", 2),
                       Cola("postfijo")>>
      [] Es("::") -> <<Avanza, Palabra1("<"), Abre, Llama("argTipo"), Palabra1("("), Abre,
                       <<"lista", ")">>, Cierra("args"), Une("llamada", 3), Cola("postfijo")>>
      [] Es("[")  -> <<Avanza, Llama("saltos"), Llama("expresion"), Llama("saltos"),
                       Palabra1("]"), Une("indice", 2), Cola("postfijo")>>
      [] Es(".")  -> <<Avanza, Llama("nombreDeMiembro"), Une(".", 2), Cola("postfijo")>>
      [] OTHER    -> <<Avanza, Une(actual.lexema, 1), Cola("postfijo")>>
NombreDeMiembro == IF actual.clase \in {"id", "res"} THEN <<Hoja>> ELSE Rechazo

ColaIzquierda(operando, o) ==
    <<Avanza>> \o operando \o <<Une(actual.lexema, 2), Cola(o)>>
ColaMultiplicativo == ColaIzquierda(<<Llama("unario")>>, "multiplicativo")
ColaAditivo        == ColaIzquierda(ParseMultiplicativo, "aditivo")
ColaRelacional     == ColaIzquierda(ParseConcatenacion, "relacional")
ColaY              == ColaIzquierda(ParseRelacional, "y")
ColaO              == ColaIzquierda(ParseY, "o")
(* Mutant: '^' associates to the left. *)
ColaPotenciaIzquierda == <<Avanza, Llama("primario"), Cola("postfijo"), Une("^", 2),
                           Cola("potencia")>>

ColaPotencia       == <<Avanza, Llama("unario"), Une("^", 2)>>
ColaConcatenacion  == <<Avanza>> \o ParseConcatenacion \o <<Une("..", 2)>>
ColaEs             == <<Avanza>> \o NombreTipoCalificado
                      \o <<Llama("argsDescartados"), Une("es", 2)>>
ColaTernario       == <<Avanza, Llama("expresion"), Palabra1(":"), Llama("expresion"),
                        Une("?", 3)>>

TrasOperando(o) ==
    CASE o = "postfijo"       -> ColaPostfijo
      [] o = "potencia"       -> ColaPotencia
      [] o = "multiplicativo" -> ColaMultiplicativo
      [] o = "aditivo"        -> ColaAditivo
      [] o = "concatenacion"  -> ColaConcatenacion
      [] o = "relacional"     -> ColaRelacional
      [] o = "es"             -> ColaEs
      [] o = "y"              -> ColaY
      [] o = "o"              -> ColaO
      [] o = "ternario"       -> ColaTernario

ParsePrimario ==
    CASE actual.clase \in {"num", "cad", "id"}                         -> <<Hoja>>
      [] EsAlguna({"cierto", "verdadero", "falso", "nulo", "este", "..."}) -> <<Hoja>>
      [] Es("nuevo")   -> ParseNuevo
      [] Es("incluir") -> <<Abre, Avanza, Palabra1("("), Clase("cad"), Palabra1(")"),
                            Cierra("incluir")>>
      [] EsFun         -> FuncionAnonima
      [] Es("(")       -> <<Avanza, Llama("saltos"), Llama("expresion"), Llama("saltos"),
                            Palabra1(")")>>
      [] Es("[")       -> <<Abre, Avanza, <<"lista", "]">>, Cierra("lista")>>
      [] Es("{")       -> <<Abre, Avanza, Llama("saltos"), Llama("pares"), Cierra("dic")>>
      [] OTHER         -> Rechazo

(* Expressions with commas between them; newlines may be anywhere. *)
ParseLista(c) == <<Llama("saltos"), <<"elementos", c>> >>
Elementos(c)  == IF Es(c) THEN <<Avanza>>
                 ELSE <<Llama("expresion"), Llama("saltos"), <<"mas", c>> >>
MasElementos(c) == IF Es(",") THEN <<Avanza, Llama("saltos"), Llama("expresion"),
                                     Llama("saltos"), <<"mas", c>> >>
                   ELSE <<Palabra1(c)>>
Pares    == IF Es("}") THEN <<Avanza>> ELSE <<Llama("par")>>
Par      == <<Llama("expresion"), Palabra1(":"), Llama("saltos"), Llama("expresion"),
              Une("par", 2), Llama("saltos"), Llama("masPares")>>
MasPares == IF Es(",") THEN <<Avanza, Llama("saltos"), Llama("par")>> ELSE <<Palabra1("}")>>

-----------------------------------------------------------------------------
SentenciaReservada ==
    CASE Es("si")       -> ParseSi
      [] Es("elegir")   -> ParseElegir
      [] Es("desde")    -> ParseDesde
      [] Es("para")     -> ParsePara
      [] Es("mientras") -> ParseMientras
      [] Es("repetir")  -> ParseRepetir
      [] EsFun          -> ParseFuncion
      [] EsAlguna({"regresar", "retornar", "ret", "retorno"}) -> ParseRetornar
      [] Es("incluir")  -> ParseIncluir
      [] EsAlguna({"var", "variable"})    -> ParseVar
      [] EsAlguna({"const", "constante"}) -> ParseConst
      [] Es("global")   -> ParseGlobal
      [] Es("exportar") -> ParseExportar
      [] Es("importar") -> ParseImportar
      [] Es("externo")  -> ParseExterno
      [] Es("inseguro") -> ParseInseguro
      [] Es("romper")   -> ParseRomper
      [] Es("clase")    -> ParseClase
      [] Es("estructura") -> ParseEstructura
      [] Es("interfaz") -> ParseInterfaz
      [] Es("abstracto") -> <<Avanza, Llama("claseAbstracta")>>
      [] Es("base")     -> LlamadaBase
      [] EsAlguna({"nuevo", "este", "cierto", "verdadero", "falso", "nulo"}) -> SentenciaSimple
      [] OTHER          -> Rechazo
Sentencia == IF actual.clase = "res" THEN SentenciaReservada ELSE SentenciaSimple

(* What a call does first, by the token it meets. *)
Llamar(f) ==
    CASE f = "programa" -> Programa                 [] f = "saltos" -> Saltos
      [] f = "sentencia" -> Sentencia               [] f = "finDeSentencia" -> FinDeSentencia
      [] f = "asignacionOExpr" -> AsignacionOExpr   [] f = "asignacion" -> Asignacion
      [] f = "expresiones" -> Expresiones           [] f = "masExpresiones" -> MasExpresiones
      [] f = "destinos" -> Destinos                 [] f = "anotada" -> Anotada
      [] f = "osis" -> Osis
      [] f = "casos" -> Casos                       [] f = "parametros" -> Parametros
      [] f = "parametro" -> ParseParametros(Hoja, "masParametros")
      [] f = "masParametros" -> MasParametros
      [] f = "parametrosDeMetodo" -> ParametrosDeMetodo
      [] f = "parametroDeMetodo" -> ParseParametros(Avanza, "masParametrosDeMetodo")
      [] f = "masParametrosDeMetodo" -> MasParametrosDeMetodo
      [] f = "valorDeRetorno" -> ValorDeRetorno     [] f = "globalizable" -> Globalizable
      [] f = "calificado" -> Calificado             [] f = "argsTipoGenericos" -> ArgsTipoGenericos
      [] f = "argTipo" -> ArgTipo                   [] f = "masArgsTipo" -> MasArgsTipo
      [] f = "parametrosGenericos" -> ParametrosGenericos
      [] f = "paramGenerico" -> ParamGenerico       [] f = "masGenericos" -> MasGenericos
      [] f = "cotas" -> Cotas                       [] f = "cota" -> Cota
      [] f = "masCotas" -> MasCotas                 [] f = "clausulaDonde" -> ClausulaDonde
      [] f = "restriccion" -> Restriccion           [] f = "masDonde" -> MasDonde
      [] f = "tipo" -> Tipo                         [] f = "tipoOpcional" -> TipoOpcional
      [] f = "importado" -> Importado               [] f = "nombres" -> Nombres
      [] f = "nombre" -> Nombre                     [] f = "alias" -> Alias
      [] f = "masNombres" -> MasNombres             [] f = "exportable" -> Exportable
      [] f = "declarable" -> Declarable             [] f = "porDefecto" -> PorDefecto
      [] f = "enlace" -> Enlace                     [] f = "externas" -> Externas
      [] f = "funcionExterna" -> FuncionExterna     [] f = "paramsFFI" -> ParamsFFI
      [] f = "paramFFI" -> ParamFFI                 [] f = "masFFI" -> MasFFI
      [] f = "tipoFFI" -> TipoFFI                   [] f = "retornoFFI" -> RetornoFFI
      [] f = "claseAbstracta" -> ClaseAbstracta     [] f = "clase" -> ParseClase
      [] f = "extiende" -> Extiende                 [] f = "implementa" -> Implementa
      [] f = "interfazDe" -> InterfazDe             [] f = "masInterfaces" -> MasInterfaces
      [] f = "miembros" -> Miembros                 [] f = "miembro" -> Miembro
      [] f = "miembroAbstracto" -> CampoOMetodo(TRUE)
      [] f = "miembroConcreto" -> CampoOMetodo(FALSE)
      [] f = "estructura" -> ParseEstructura
      [] f = "miembrosDeEstructura" -> MiembrosDeEstructura
      [] f = "interfaz" -> ParseInterfaz            [] f = "firmas" -> Firmas
      [] f = "campo" -> CampoDef                    [] f = "valorDeCampo" -> ValorDeCampo
      [] f = "metodo" -> MetodoDef(FALSE)           [] f = "firma" -> MetodoDef(TRUE)
      [] f = "expresion" -> ParseTernario           [] f = "unario" -> ParseUnario
      [] f = "primario" -> ParsePrimario            [] f = "nombreDeMiembro" -> NombreDeMiembro
      [] f = "argsDescartados" -> ArgsDescartados   [] f = "pares" -> Pares
      [] f = "par" -> Par                           [] f = "masPares" -> MasPares

Desplegar(c) ==
    CASE c[1] = "llama"      -> Llamar(c[2])
      [] c[1] = "bloque"     -> ParseBloque(c[2])
      [] c[1] = "sentencias" -> Sentencias(c[2])
      [] c[1] = "lista"      -> ParseLista(c[2])
      [] c[1] = "elementos"  -> Elementos(c[2])
      [] c[1] = "mas"        -> MasElementos(c[2])

-----------------------------------------------------------------------------
Init ==
    /\ vocabulario \in DOMAIN Vocabularios
    /\ texto = <<>> /\ piezas = 0 /\ cerrado = FALSE
    /\ pos = 1 /\ roto = FALSE /\ devuelto = <<>> /\ hasta = 1
    /\ actual = [clase |-> "ninguna", lexema |-> "", ini |-> 1, fin |-> 1]
    /\ pila = <<Avanza, Abre, Llama("saltos"), Llama("programa")>>
    /\ valores = <<>>
    /\ estado = "analiza"

(* The next call of avanzar() gives a token: the one that was put back, or *)
(* one of the text that what is written later cannot change.               *)
Disponible == ~(devuelto = <<>> /\ ~cerrado /\ ~Decidido(texto, pos))

(* Mutant: the lexer is asked although a token was put back. *)
AvanzarSinDevuelto ==
    /\ Disponible
    /\ hasta' = actual.fin
    /\ LET t == GetNextToken(texto, pos)
       IN  /\ actual' = [clase |-> t.clase, lexema |-> t.lexema, ini |-> pos, fin |-> t.fin]
           /\ pos' = t.fin
           /\ roto' = (roto \/ t.roto)
           /\ devuelto' = <<>>

Avanzar ==
    /\ Disponible
    /\ hasta' = actual.fin
    /\ IF devuelto # <<>>
       THEN /\ actual' = devuelto[1]
            /\ devuelto' = <<>>
            /\ UNCHANGED <<pos, roto>>
       ELSE LET t == GetNextToken(texto, pos)
            IN  /\ actual' = [clase |-> t.clase, lexema |-> t.lexema, ini |-> pos, fin |-> t.fin]
                /\ pos' = t.fin
                /\ roto' = (roto \/ t.roto)
                /\ UNCHANGED devuelto

Analiza(simbolos) == estado = "analiza" /\ pila # <<>> /\ pila[1][1] \in simbolos
Cima == pila[1]

(* Whether the first thing to do takes the current token. *)
Toma(c) == CASE c[1] \in {"avanza", "hoja"} -> TRUE
             [] c[1] = "palabra"            -> Es(c[2])
             [] c[1] = "clase"              -> actual.clase = c[2]
             [] c[1] = "opcional"           -> EsAlguna(c[2])
             [] c[1] = "angulo"             -> Es(">")
             [] OTHER                       -> FALSE

Tomar ==
    /\ Analiza({"avanza", "palabra", "angulo"}) /\ Toma(Cima)
    /\ Avanzar
    /\ pila' = Tail(pila)
    /\ UNCHANGED <<fuente, valores, estado>>

TomarHoja ==
    /\ Analiza({"hoja", "clase", "opcional"}) /\ Toma(Cima)
    /\ Avanzar
    /\ pila' = Tail(pila)
    /\ valores' = Append(valores, <<actual.clase, actual.lexema>>)
    /\ UNCHANGED <<fuente, estado>>

Omitir ==
    /\ Analiza({"opcional"}) /\ ~Toma(Cima)
    /\ pila' = Tail(pila)
    /\ UNCHANGED <<fuente, flujo, valores, estado>>

(* cerrarAngulo splits '>=': the '=' is put back and read again at once. *)
PartirAngulo ==
    /\ Analiza({"angulo"}) /\ Es(">=")
    /\ actual' = [clase |-> "op", lexema |-> "=", ini |-> actual.fin - 1, fin |-> actual.fin]
    /\ devuelto' = <<>>
    /\ hasta' = actual.fin - 1
    /\ pila' = Tail(pila)
    /\ UNCHANGED <<fuente, pos, roto, valores, estado>>

(* The token behind the identifier is ':', or both are put back. *)
Mirar ==
    /\ Analiza({"mirado"})
    /\ LET tk == Cima[2]
       IN  IF Es(":")
           THEN /\ pila' = <<Avanza, Llama("anotada")>> \o Tail(pila)
                /\ valores' = valores \o <<Abre, <<tk.clase, tk.lexema>> >>
                /\ UNCHANGED flujo
           ELSE /\ devuelto' = <<actual>>
                /\ actual' = tk
                /\ hasta' = tk.ini
                /\ pila' = <<Llama("asignacion")>> \o Tail(pila)
                /\ UNCHANGED <<pos, roto, valores>>
    /\ UNCHANGED <<fuente, estado>>

Expandir ==
    /\ Analiza({"llama", "bloque", "sentencias", "lista", "elementos", "mas"})
    /\ pila' = Desplegar(Cima) \o Tail(pila)
    /\ UNCHANGED <<fuente, flujo, valores, estado>>

(* The levels whose operator is not the current token return. *)
Retornar ==
    /\ Analiza({"cola"}) /\ ~EsAlguna(OperadoresDe(Cima[2]))
    /\ LET queda == CHOOSE k \in 2..(Len(pila) + 1) :
                      /\ \A j \in 1..(k - 1) : pila[j][1] = "cola"
                                               /\ ~EsAlguna(OperadoresDe(pila[j][2]))
                      /\ k <= Len(pila) =>
                           ~(pila[k][1] = "cola" /\ ~EsAlguna(OperadoresDe(pila[k][2])))
       IN  pila' = SubSeq(pila, queda, Len(pila))
    /\ UNCHANGED <<fuente, flujo, valores, estado>>

Operar ==
    /\ Analiza({"cola"}) /\ EsAlguna(OperadoresDe(Cima[2]))
    /\ pila' = TrasOperando(Cima[2]) \o Tail(pila)
    /\ UNCHANGED <<fuente, flujo, valores, estado>>

(* The tree. *)
Abrir ==
    /\ Analiza({"abre"})
    /\ valores' = Append(valores, Abre)
    /\ pila' = Tail(pila)
    /\ UNCHANGED <<fuente, flujo, estado>>

Cerrar ==
    /\ Analiza({"cierra"})
    /\ valores' = Append(SubSeq(valores, 1, Desde1(valores) - 1), <<Cima[2]>> \o Abiertos)
    /\ pila' = Tail(pila)
    /\ UNCHANGED <<fuente, flujo, estado>>

Unir ==
    /\ Analiza({"une"})
    /\ LET n == Len(valores) - Cima[3]
       IN  valores' = Append(SubSeq(valores, 1, n),
                             <<Cima[2]>> \o SubSeq(valores, n + 1, Len(valores)))
    /\ pila' = Tail(pila)
    /\ UNCHANGED <<fuente, flujo, estado>>

(* 'var x' and 'global x' stand for x = nulo; no other modifier takes an   *)
(* expression.                                                             *)
Marcable(m, v) == v[1] = "expr" => m \in {"var", "global"} /\ v[2][2][1] = "id"
Marcada(v) == IF v[1] = "expr" THEN <<"asigna", v[2], <<"expresiones", <<"res", "nulo">> >> >>
                               ELSE v
Marcar ==
    /\ Analiza({"marca"}) /\ Marcable(Cima[2], valores[Len(valores)])
    /\ valores' = [valores EXCEPT ![Len(valores)] = <<Cima[2], Marcada(@)>>]
    /\ pila' = Tail(pila)
    /\ UNCHANGED <<fuente, flujo, estado>>

Error ==
    /\ Analiza({"palabra", "clase", "angulo", "marca", "error"})
    /\ ~Toma(Cima) /\ ~(Cima[1] = "angulo" /\ Es(">="))
    /\ Cima[1] = "marca" => ~Marcable(Cima[2], valores[Len(valores)])
    /\ estado' = "rechaza"
    /\ UNCHANGED <<fuente, flujo, pila, valores>>

Aceptar ==
    /\ estado = "analiza" /\ pila = <<>>
    /\ estado' = "acepta"
    /\ UNCHANGED <<fuente, flujo, pila, valores>>

(* The text is written when avanzar() needs more of it. *)
FaltaTexto == /\ estado = "analiza" /\ pila # <<>> /\ Toma(Cima) /\ ~Disponible

Escribir(p) ==
    /\ FaltaTexto /\ piezas < Vocabularios[vocabulario].largo
    /\ texto' = texto \o p
    /\ piezas' = piezas + 1
    /\ UNCHANGED <<vocabulario, cerrado, flujo, pila, valores, estado>>

CerrarTexto ==
    /\ FaltaTexto
    /\ cerrado' = TRUE
    /\ UNCHANGED <<vocabulario, texto, piezas, flujo, pila, valores, estado>>

Paso == \/ Tomar \/ TomarHoja \/ Omitir \/ PartirAngulo \/ Mirar
        \/ Expandir \/ Retornar \/ Operar
        \/ Abrir \/ Cerrar \/ Unir \/ Marcar
        \/ Error \/ Aceptar
        \/ \E p \in Vocabularios[vocabulario].piezas : Escribir(p)
        \/ CerrarTexto

Terminado == estado # "analiza" /\ UNCHANGED vars

Next == Paso \/ Terminado

Spec == Init /\ [][Next]_vars /\ WF_vars(Paso)

-----------------------------------------------------------------------------
(* What can go wrong with the one token that may be put back (parseAsigna- *)
(* cionOExpr looks behind an identifier, cerrarAngulo splits '>='): every  *)
(* character of the text is in exactly one token, taken in order.  The     *)
(* current token begins where the last one that was taken ends, the token  *)
(* put back follows it, and the lexer goes on where the last of them ends. *)
NadaSePierde ==
    /\ actual.ini = hasta
    /\ IF devuelto = <<>> THEN actual.fin = pos
       ELSE Len(devuelto) = 1 /\ devuelto[1].ini = actual.fin /\ devuelto[1].fin = pos

(* The analysis ends whatever the text is: no loop of the parser goes      *)
(* round without taking a token, not even at the end of the file inside a  *)
(* class (parser.cpp:1543 has no test for it).                             *)
Termina == <>(estado # "analiza")
=============================================================================

------------------------------ MODULE Alcance ------------------------------
(***************************************************************************)
(* Names and contexts: which uses of a name, of `romper`, `retornar`,      *)
(* `este` and `...` AnalizadorSemantico accepts                            *)
(* (src/analizador_semantico.cpp), and the cell each of the two back ends  *)
(* gives every use afterwards (src/recolector_variables.cpp,               *)
(* src/compiler.cpp, src/compiler_llvm.cpp).                               *)
(*                                                                         *)
(* A program is the sequence of visits the analyzer's walk over the tree   *)
(* makes, in its order: a value is read before its destination is assigned,*)
(* a block opens and ends.  Functions, methods and external signatures are *)
(* at the top level, where elevarFuncionesAnidadas leaves them.  Types,    *)
(* generics and member accesses are left out.                              *)
(***************************************************************************)
EXTENDS Visitas

CONSTANTS
  Nombres,
  Mayusculas,    \* the names esMayusculas takes for constants
  Incorporadas,  \* the names of built-in functions
  Programas      \* the programs the parser may deliver

Definiciones == {"funcion", "externa"}
Sueltos == {"lee", "post", "llama", "asigna", "romper", "retornar", "varargs", "este", "fin"}
Marcas == {"const", "global", "incremento", "variadico", "inseguro", "estatico"}

(* A visit: the name it is about, the parameters of a function, the number  *)
(* of arguments of a call (of parameters of an external function).          *)
Suceso == [op : Aperturas \cup Definiciones \cup Sueltos, x : Nombres \cup {""},
           ps : Seq(Nombres), n : Nat, marcas : SUBSET Marcas]

-----------------------------------------------------------------------------
(* The tree behind the visits: functions and methods are at the top, what   *)
(* declares has a name, only a function's block carries marks, and the      *)
(* increment of a `desde` is an assignment.                                 *)
BienFormado(p) ==
  /\ BienAnidado(p)
  /\ \A k \in DOMAIN p :
       /\ p[k].op \in Definiciones \cup {"metodo"} => Abiertos(p, k) = {}
       /\ p[k].op \in Definiciones \cup {"asigna", "para"} => p[k].x \in Nombres
       /\ p[k].op \in Aperturas \ Funcionales => p[k].marcas = {}
       /\ "incremento" \in p[k].marcas => p[k].op = "asigna"

ASSUME AlcanceAssumption ==
  /\ "" \notin Nombres /\ Mayusculas \subseteq Nombres /\ Incorporadas \subseteq Nombres
  /\ Programas \subseteq Seq(Suceso) /\ \A p \in Programas : BienFormado(p)

-----------------------------------------------------------------------------
VARIABLES
  programa,
  fase,         \* "recolectar", "visitar", "fin"
  pos,          \* the visit in hand
  abiertos,     \* the blocks the walk is in, innermost last: the calls of visitar() under way
  ambitos,      \* AnalizadorSemantico::ambitos
  constantes,   \* AnalizadorSemantico::constantes
  funciones,    \* AnalizadorSemantico::funciones, the definition of each name
  externas,     \* AnalizadorSemantico::funcionesExternas
  profundidad,  \* profundidadBucle, -Funcion, -Variadica, -Inseguro
  instancia,    \* enClase /\ enMetodoInstancia
  errores       \* the errors reported: the visit and the kind

vars == <<programa, fase, pos, abiertos, ambitos, constantes, funciones, externas, profundidad,
          instancia, errores>>

Cuentas == {"bucle", "funcion", "variadica", "inseguro"}

Init ==
  /\ programa \in Programas
  /\ fase = "recolectar"
  /\ pos = 1
  /\ abiertos = <<>>
  /\ ambitos = <<>>
  /\ constantes = {}
  /\ funciones = <<>>
  /\ externas = <<>>
  /\ profundidad = [c \in Cuentas |-> 0]
  /\ instancia = FALSE
  /\ errores = {}

(* recolectarFunciones: the first definition of a name, Latino's or         *)
(* external, is kept; the others are errors.                                *)
Definen(x) == {k \in DOMAIN programa : programa[k].op \in Definiciones /\ programa[k].x = x}
Primeras(op) == {k \in DOMAIN programa : programa[k].op = op /\ k = Min(Definen(programa[k].x))}
Tabla(op) == [x \in {programa[k].x : k \in Primeras(op)} |-> Min(Definen(x))]

RecolectarFunciones ==
  /\ fase = "recolectar"
  /\ fase' = "visitar"
  /\ ambitos' = <<{}>>
  /\ funciones' = Tabla("funcion")
  /\ externas' = Tabla("externa")
  /\ errores' = {<<k, "repetida">> : k \in
                   {j \in DOMAIN programa : programa[j].op \in Definiciones
                                            /\ j # Min(Definen(programa[j].x))}}
  /\ UNCHANGED <<programa, pos, abiertos, constantes, profundidad, instancia>>

-----------------------------------------------------------------------------
Actual == programa[pos]
Visita(ops) == fase = "visitar" /\ pos <= Len(programa) /\ Actual.op \in ops
Avanza == pos' = pos + 1 /\ UNCHANGED <<programa, fase, funciones, externas>>
Si(c, k) == IF c THEN {k} ELSE {}
Reporta(clases) == errores' = errores \cup {<<pos, k>> : k \in clases}

Declarada(x) == \E k \in DOMAIN ambitos : x \in ambitos[k]
Constante(x) == Si(x \in constantes, "constante")

(* declararVariable, the report of a constant apart: the table of constants *)
(* is the program's, whatever the scope.                                    *)
Declarar(x, esConst) ==
  IF x \in constantes
  THEN UNCHANGED <<ambitos, constantes>>
  ELSE /\ ambitos' = [ambitos EXCEPT ![Len(ambitos)] = @ \cup {x}]
       /\ constantes' = constantes \cup Si(esConst \/ x \in Mayusculas, x)

(* Mutant: only the innermost scope is looked at.                           *)
UsarSoloElPropio ==
  /\ Visita({"lee", "post"})
  /\ Reporta(Si(Actual.x \notin Last(ambitos) \cup DOMAIN funciones \cup Incorporadas, "noDeclarada"))
  /\ Avanza
  /\ UNCHANGED <<abiertos, ambitos, constantes, profundidad, instancia>>

(* usarIdentificador, for a name read and for the operand of ++ and --.     *)
UsarIdentificador ==
  /\ Visita({"lee", "post"})
  /\ Reporta(Si(~ Declarada(Actual.x) /\ Actual.x \notin DOMAIN funciones \cup Incorporadas,
                "noDeclarada"))
  /\ Avanza
  /\ UNCHANGED <<abiertos, ambitos, constantes, profundidad, instancia>>

Parametros(k) == Len(programa[k].ps)
MalaAridad(k, n) ==
  IF "variadico" \in programa[k].marcas THEN n < Parametros(k) ELSE n # Parametros(k)

(* visitar(Llamada&): the program's functions first, then the external ones.*)
ErroresDeLlamada(x, n) ==
  IF x \in DOMAIN funciones
  THEN Si(MalaAridad(funciones[x], n), "aridad")
  ELSE IF x \in DOMAIN externas
  THEN Si(profundidad["inseguro"] = 0, "inseguro") \cup Si(n # programa[externas[x]].n, "aridad")
  ELSE Si(x \notin Incorporadas /\ ~ Declarada(x), "noDefinida")

VisitarLlamada ==
  /\ Visita({"llama"})
  /\ Reporta(ErroresDeLlamada(Actual.x, Actual.n))
  /\ Avanza
  /\ UNCHANGED <<abiertos, ambitos, constantes, profundidad, instancia>>

(* visitar(Asignacion&), a destination: `const`, `global`, the increment of *)
(* a `desde` and the rest.                                                  *)
VisitarAsignacion ==
  /\ Visita({"asigna"})
  /\ Reporta(Constante(Actual.x)
             \cup Si("global" \in Actual.marcas /\ profundidad["funcion"] > 0, "global"))
  /\ Declarar(Actual.x, "const" \in Actual.marcas)
  /\ Avanza
  /\ UNCHANGED <<abiertos, profundidad, instancia>>

Entra == abiertos' = Append(abiertos, pos)
Sube(cuentas) == profundidad' = [c \in Cuentas |-> profundidad[c] + IF c \in cuentas THEN 1 ELSE 0]
Baja(cuentas) == profundidad' = [c \in Cuentas |-> profundidad[c] - IF c \in cuentas THEN 1 ELSE 0]

(* visitar(Para&): the variable of the loop, and its body.                  *)
EntrarPara ==
  /\ Visita({"para"})
  /\ Reporta(Constante(Actual.x))
  /\ IF Declarada(Actual.x) THEN UNCHANGED <<ambitos, constantes>> ELSE Declarar(Actual.x, FALSE)
  /\ Entra
  /\ Sube({"bucle"})
  /\ Avanza
  /\ UNCHANGED instancia

(* The bodies of `desde`, `mientras`, `repetir` and `inseguro`.             *)
EntrarBloque ==
  /\ Visita({"bucle", "inseguro"})
  /\ Entra
  /\ Sube({Actual.op})
  /\ Avanza
  /\ UNCHANGED <<ambitos, constantes, instancia, errores>>

Repite(ps) == \E j, k \in DOMAIN ps : j < k /\ ps[j] = ps[k]

(* The parameters, one declararVariable after another.                      *)
DeclararParametros(ps) ==
  /\ ambitos' = Append(ambitos, ToSet(ps) \ constantes)
  /\ constantes' = constantes \cup (ToSet(ps) \cap Mayusculas)
  /\ Reporta(Si(Repite(ps), "duplicado")
             \cup Si(ToSet(ps) \cap constantes # {}
                     \/ \E j, k \in DOMAIN ps : j < k /\ ps[j] = ps[k] /\ ps[k] \in Mayusculas,
                     "constante"))

(* What a function's body counts as, besides being one.                     *)
CuentaDe(s) ==
  {"funcion"} \cup Si("variadico" \in s.marcas, "variadica") \cup Si("inseguro" \in s.marcas, "inseguro")

(* visitar(FuncionDef&), visitar(FuncionAnonima&), analizarMetodo.          *)
EntrarFuncion ==
  /\ Visita(Funcionales)
  /\ DeclararParametros(Actual.ps)
  /\ Entra
  /\ Sube(CuentaDe(Actual))
  /\ instancia' = IF Actual.op = "metodo" THEN "estatico" \notin Actual.marcas ELSE instancia
  /\ Avanza

Cierra(ops) ==
  /\ Visita({"fin"})
  /\ programa[Last(abiertos)].op \in ops
  /\ abiertos' = Front(abiertos)
  /\ Avanza
  /\ UNCHANGED <<constantes, errores>>

SalirBloque ==
  /\ Cierra(Bucles \cup {"inseguro"})
  /\ Baja(Si(programa[Last(abiertos)].op \in Bucles, "bucle")
          \cup Si(programa[Last(abiertos)].op = "inseguro", "inseguro"))
  /\ UNCHANGED <<ambitos, instancia>>

(* Mutant: leaving a method does not give enMetodoInstancia back.           *)
SalirFuncionConEste ==
  /\ Cierra(Funcionales)
  /\ ambitos' = Front(ambitos)
  /\ Baja(CuentaDe(programa[Last(abiertos)]))
  /\ UNCHANGED instancia

SalirFuncion ==
  /\ Cierra(Funcionales)
  /\ ambitos' = Front(ambitos)
  /\ Baja(CuentaDe(programa[Last(abiertos)]))
  /\ instancia' = (instancia /\ programa[Last(abiertos)].op # "metodo")

(* visitar of Romper, Retornar, VarArgs and AccesoEste.                     *)
FueraDeContexto(op) ==
  \/ op = "romper" /\ profundidad["bucle"] = 0
  \/ op = "retornar" /\ profundidad["funcion"] = 0
  \/ op = "varargs" /\ profundidad["variadica"] = 0
  \/ op = "este" /\ ~ instancia

VisitarContexto ==
  /\ Visita({"romper", "retornar", "varargs", "este"})
  /\ Reporta(Si(FueraDeContexto(Actual.op), Actual.op))
  /\ Avanza
  /\ UNCHANGED <<abiertos, ambitos, constantes, profundidad, instancia>>

(* visitar(ExternoBloque&): nothing, its signatures are collected already.  *)
VisitarExterna ==
  /\ Visita({"externa"})
  /\ Avanza
  /\ UNCHANGED <<abiertos, ambitos, constantes, profundidad, instancia, errores>>

Terminar ==
  /\ fase = "visitar" /\ pos > Len(programa)
  /\ fase' = "fin"
  /\ ambitos' = Front(ambitos)
  /\ UNCHANGED <<programa, pos, abiertos, constantes, funciones, externas, profundidad, instancia, errores>>

Next ==
  \/ RecolectarFunciones
  \/ UsarIdentificador
  \/ VisitarLlamada
  \/ VisitarAsignacion
  \/ EntrarPara
  \/ EntrarBloque
  \/ EntrarFuncion
  \/ SalirBloque
  \/ SalirFuncion
  \/ VisitarContexto
  \/ VisitarExterna
  \/ Terminar

Spec == Init /\ [][Next]_vars

Aceptado == fase = "fin" /\ errores = {}

-----------------------------------------------------------------------------
(* Mutant: the variable of a `para` is not collected.                       *)
AsignacionesSinPara(p, d) ==
  {i \in DOMAIN p : /\ p[i].op = "asigna" /\ "incremento" \notin p[i].marcas /\ Dueno(p, i) = d}

(* The back ends.  recolectarVariables: the names assigned in a body, the   *)
(* increment of a `desde` apart; recolectarGlobalesExplicitos.              *)
Asignaciones(p, d) ==
  {i \in DOMAIN p : /\ p[i].op \in {"asigna", "para"} /\ "incremento" \notin p[i].marcas
                    /\ Dueno(p, i) = d}
Recolecta(p, d) == {p[i].x : i \in Asignaciones(p, d)}

GlobalesExplicitos(p) ==
  {p[i].x : i \in {j \in Asignaciones(p, 0) \cup {k \in DOMAIN p : p[k].op = "funcion"} :
                     "global" \in p[j].marcas}}

(* The cells a body declares.  genFuncion and genMetodo of both back ends   *)
(* leave the explicit globals out; genFuncionAnonima does so only in LLVM.  *)
Locales(p, d, excluidos) ==
  IF d = 0 THEN {} ELSE ToSet(p[d].ps) \cup (Recolecta(p, d) \ excluidos)
LocalesC(p, d) ==
  Locales(p, d, IF d # 0 /\ p[d].op = "anonima" THEN {} ELSE GlobalesExplicitos(p))
(* Mutant: the LLVM back end declares the explicit globals again.           *)
LocalesConGlobales(p, d) == Locales(p, d, {})
LocalesLLVM(p, d) == Locales(p, d, GlobalesExplicitos(p))

(* What a use refers to: the cell of a variable in a function (0: a global),*)
(* a function, the state of the function it is in, or nothing.              *)
Destino(clase, marco) == [clase |-> clase, marco |-> marco]
Nada == Destino("nada", 0)

Variable(p, i, x, locales) ==
  IF x \in locales THEN Destino("variable", Dueno(p, i))
  ELSE IF x \in Recolecta(p, 0) THEN Destino("variable", 0) ELSE Nada

EsFuncion(p, x) == \E k \in DOMAIN p : p[k].op = "funcion" /\ p[k].x = x
EsExterna(p, x) == \E k \in DOMAIN p : p[k].op = "externa" /\ p[k].x = x

(* genLlamada, the same order in both: built-in, function, external         *)
(* function, and a variable as it reads one.                                *)
Llamado(p, x, variable) ==
  IF x \in Incorporadas THEN Destino("incorporada", 0)
  ELSE IF EsFuncion(p, x) THEN Destino("funcion", 0)
  ELSE IF EsExterna(p, x) THEN Destino("externa", 0)
  ELSE variable

BuclePropio(p, i) == \E j \in Abiertos(p, i) : j > Dueno(p, i) /\ p[j].op \in Bucles
PropiaVariadica(p, d) == d # 0 /\ "variadico" \in p[d].marcas
MetodoDeInstancia(p, d) == d # 0 /\ p[d].op = "metodo" /\ "estatico" \notin p[d].marcas

(* `break` or a branch out of the loop, lat_resto, the parameter `este`;    *)
(* `retornar` needs nothing outside main.                                   *)
Contexto(p, i) ==
  LET d == Dueno(p, i)
      hay == CASE p[i].op = "romper" -> BuclePropio(p, i)
               [] p[i].op = "varargs" -> PropiaVariadica(p, d)
               [] p[i].op = "este" -> MetodoDeInstancia(p, d)
               [] p[i].op = "retornar" -> d # 0
  IN  IF hay THEN Destino("contexto", d) ELSE Nada

(* genExpr and genSentencia of GeneradorC: a function before a variable,    *)
(* and an assignment through ++ to a function is not an lvalue.  What has   *)
(* no declaration the C compiler refuses.                                   *)
UsoC(p, i, variable) ==
  CASE p[i].op = "lee" -> IF EsFuncion(p, p[i].x) THEN Destino("funcion", 0) ELSE variable
    [] p[i].op = "post" -> IF EsFuncion(p, p[i].x) THEN Nada ELSE variable
    [] p[i].op \in {"asigna", "para"} -> variable
    [] p[i].op = "llama" -> Llamado(p, p[i].x, variable)
    [] p[i].op \in {"romper", "retornar", "varargs", "este"} -> Contexto(p, i)

(* Those of GeneradorLLVM: a variable before a function, ++ on a function   *)
(* stores in the temporary, and what has no cell emits nothing.             *)
UsoLLVM(p, i, variable) ==
  CASE p[i].op \in {"lee", "post"} ->
         IF variable = Nada /\ EsFuncion(p, p[i].x) THEN Destino("funcion", 0) ELSE variable
    [] p[i].op \in {"asigna", "para"} -> variable
    [] p[i].op = "llama" -> Llamado(p, p[i].x, variable)
    [] p[i].op \in {"romper", "retornar", "varargs", "este"} -> Contexto(p, i)

DestinoC(p, i) == UsoC(p, i, Variable(p, i, p[i].x, LocalesC(p, Dueno(p, i))))
DestinoLLVM(p, i) == UsoLLVM(p, i, Variable(p, i, p[i].x, LocalesLLVM(p, Dueno(p, i))))

Usos(p) == {i \in DOMAIN p : p[i].op \in {"lee", "post", "asigna", "para", "llama", "romper",
                                          "retornar", "varargs", "este"}}

-----------------------------------------------------------------------------
(* The language's rules, of the tree alone.                                 *)

(* The declarations of a name and the function each belongs to.             *)
Declaraciones(p, x) ==
  {<<i, Dueno(p, i)>> : i \in {k \in DOMAIN p : p[k].op \in {"asigna", "para"} /\ p[k].x = x}}
  \cup {<<i, i>> : i \in {k \in DOMAIN p : p[k].op \in Funcionales /\ x \in ToSet(p[k].ps)}}

(* Seen from visit i: declared before, in a function i lies in.             *)
VisibleDesde(p, i, x) == \E d \in Declaraciones(p, x) : d[1] < i /\ d[2] \in Marcos(p, i)

(* A declaration that makes its name a constant; the variable of a loop     *)
(* that is declared already is not declared again.                          *)
HaceConstante(p, i, x) ==
  \/ p[i].op = "asigna" /\ p[i].x = x /\ ("const" \in p[i].marcas \/ x \in Mayusculas)
  \/ p[i].op = "para" /\ p[i].x = x /\ x \in Mayusculas /\ ~ VisibleDesde(p, i, x)
  \/ p[i].op \in Funcionales /\ x \in ToSet(p[i].ps) /\ x \in Mayusculas

Asignados(s) == CASE s.op \in {"asigna", "para"} -> {s.x}
                  [] s.op \in Funcionales -> ToSet(s.ps)
                  [] OTHER -> {}

(* A constant assigned again: one this function sees.                       *)
ReasignaVisible(p, i) ==
  \E x \in Asignados(p[i]), j \in 1 .. i - 1 :
     HaceConstante(p, j, x)
     /\ \E d \in Declaraciones(p, x) : d[1] = j /\ d[2] \in Marcos(p, i)

(* The name of a constant of another function, out of its scope.            *)
ConstanteAjena(p, i) ==
  \E x \in Asignados(p[i]), j \in 1 .. i - 1 :
     HaceConstante(p, j, x)
     /\ \E d \in Declaraciones(p, x) : d[1] = j /\ d[2] \notin Marcos(p, i)

(* The definition a call by name reaches.                                   *)
LlamadaMala(p, i) ==
  LET x == p[i].x IN
  IF \E k \in DOMAIN p : p[k].op \in Definiciones /\ p[k].x = x
  THEN LET k == CHOOSE k \in DOMAIN p : p[k].op \in Definiciones /\ p[k].x = x
       IN  IF p[k].op = "externa"
           THEN p[i].n # p[k].n \/ \A j \in Abiertos(p, i) :
                                     p[j].op # "inseguro" /\ "inseguro" \notin p[j].marcas
           ELSE IF "variadico" \in p[k].marcas THEN p[i].n < Len(p[k].ps) ELSE p[i].n # Len(p[k].ps)
  ELSE x \notin Incorporadas /\ ~ VisibleDesde(p, i, x)

(* A use that takes its context from outside the function it is in.         *)
ContextoPrestado(p, i) ==
  \/ p[i].op = "romper" /\ ~ BuclePropio(p, i)
     /\ \E j \in Abiertos(p, i) : p[j].op \in Bucles
  \/ p[i].op = "varargs" /\ ~ PropiaVariadica(p, Dueno(p, i))
     /\ \E d \in Marcos(p, i) : PropiaVariadica(p, d)
  \/ p[i].op = "este" /\ ~ MetodoDeInstancia(p, Dueno(p, i))
     /\ \E d \in Marcos(p, i) : MetodoDeInstancia(p, d)

ReglaRota(p, i) ==
  CASE p[i].op \in {"lee", "post"} ->
         ~ VisibleDesde(p, i, p[i].x) /\ ~ EsFuncion(p, p[i].x) /\ p[i].x \notin Incorporadas
    [] p[i].op = "llama" -> LlamadaMala(p, i)
    [] p[i].op \in {"asigna", "para"} ->
         ReasignaVisible(p, i) \/ ("global" \in p[i].marcas /\ Dueno(p, i) # 0)
    [] p[i].op \in Funcionales ->
         \/ ReasignaVisible(p, i)
         \/ \E j, k \in DOMAIN p[i].ps : j # k /\ p[i].ps[j] = p[i].ps[k]
         \/ p[i].op = "funcion" /\ \E j \in DOMAIN p : j # i /\ p[j].op \in Definiciones /\ p[j].x = p[i].x
    [] p[i].op = "externa" -> \E j \in DOMAIN p : j # i /\ p[j].op \in Definiciones /\ p[j].x = p[i].x
    [] p[i].op \in {"romper", "retornar", "varargs", "este"} -> Contexto(p, i) = Nada
    [] OTHER -> FALSE

-----------------------------------------------------------------------------
(* The state is what the declarations of its variables say.                 *)
TypeOK ==
  /\ programa \in Seq(Suceso)
  /\ fase \in {"recolectar", "visitar", "fin"}
  /\ pos \in 1 .. Len(programa) + 1
  /\ abiertos \in Seq(DOMAIN programa)
  /\ ambitos \in Seq(SUBSET Nombres)
  /\ constantes \subseteq Nombres
  /\ \A t \in {funciones, externas} : DOMAIN t \subseteq Nombres /\ \A x \in DOMAIN t : t[x] \in DOMAIN programa
  /\ profundidad \in [Cuentas -> Nat]
  /\ instancia \in BOOLEAN
  /\ errores \subseteq (DOMAIN programa) \X
       {"repetida", "noDeclarada", "noDefinida", "aridad", "inseguro", "constante", "global",
        "duplicado", "romper", "retornar", "varargs", "este"}

(* At every visit the counters and the scopes the analyzer keeps by hand    *)
(* are those of the blocks that are open there: whatever was entered before *)
(* has been left in full.                                                   *)
ContextosFieles ==
  fase = "visitar" =>
    LET abre == Abiertos(programa, pos)
        Con(ms) == Cardinality({j \in abre : ms \cap ({programa[j].op} \cup programa[j].marcas) # {}})
    IN  /\ ToSet(abiertos) = abre
        /\ profundidad = [bucle |-> Con(Bucles), funcion |-> Con(Funcionales),
                          variadica |-> Con({"variadico"}), inseguro |-> Con({"inseguro"})]
        /\ Len(ambitos) = Cardinality(Marcos(programa, pos))
        /\ instancia = \E j \in abre : MetodoDeInstancia(programa, j)

(* A program is rejected exactly when it breaks a rule the tree alone tells,*)
(* except that a lambda may borrow the context of what surrounds it, and    *)
(* that a constant of another function also forbids its name.               *)
VeredictoSegunReglas ==
  fase = "fin" =>
    (errores = {} <=> \A i \in DOMAIN programa :
                        /\ ReglaRota(programa, i) => ContextoPrestado(programa, i)
                        /\ ~ ConstanteAjena(programa, i))

(* An accepted program compiles to C but for these uses: a context borrowed *)
(* by a lambda; ++ on a function; a name with no variable of the function   *)
(* it is in nor of the program (the variable a lambda takes from the        *)
(* function around it, one only the increment of a `desde` assigns, the     *)
(* built-in used as a value), or hidden by a global function of its name.   *)
UsaVariable(p, i) ==
  LET x == p[i].x IN
  CASE p[i].op \in {"asigna", "para", "post"} -> TRUE
    [] p[i].op = "lee" -> ~ EsFuncion(p, x)
    [] p[i].op = "llama" -> x \notin Incorporadas /\ ~ EsFuncion(p, x) /\ ~ EsExterna(p, x)
    [] OTHER -> FALSE
DeclaradaCerca(p, i, marcos) ==
  \E d \in Declaraciones(p, p[i].x) : d[2] \in marcos /\ "incremento" \notin p[d[1]].marcas
TapadaPorFuncion(p, i) ==
  /\ Dueno(p, i) # 0 /\ p[Dueno(p, i)].op # "anonima" /\ p[i].x \notin ToSet(p[Dueno(p, i)].ps)
  /\ \E j \in DOMAIN p : p[j].op = "funcion" /\ p[j].x = p[i].x /\ "global" \in p[j].marcas
  /\ ~ DeclaradaCerca(p, i, {0})
CAcepta ==
  Aceptado => \A i \in Usos(programa) :
    DestinoC(programa, i) = Nada <=>
      \/ ContextoPrestado(programa, i)
      \/ programa[i].op = "post" /\ EsFuncion(programa, programa[i].x)
      \/ /\ UsaVariable(programa, i)
         /\ ~ DeclaradaCerca(programa, i, {0, Dueno(programa, i)}) \/ TapadaPorFuncion(programa, i)

(* In an accepted program the two back ends refer every use to the same     *)
(* cell, function or context, and what C refuses LLVM leaves out, except    *)
(* for a name that is a function and a variable, ++ on a function, and an   *)
(* explicit global inside a lambda.                                         *)
Ambigua(p, i) ==
  EsFuncion(p, p[i].x) /\ (p[i].op = "post" \/ DeclaradaCerca(p, i, {0, Dueno(p, i)}))
GlobalEnAnonima(p, i) ==
  LET d == Dueno(p, i) IN
  /\ d # 0 /\ p[d].op = "anonima" /\ p[i].x \notin ToSet(p[d].ps)
  /\ p[i].x \in GlobalesExplicitos(p) /\ DeclaradaCerca(p, i, {d})
MismaCelda ==
  Aceptado => \A i \in Usos(programa) :
    \/ DestinoC(programa, i) = DestinoLLVM(programa, i)
    \/ Ambigua(programa, i)
    \/ GlobalEnAnonima(programa, i)
=============================================================================

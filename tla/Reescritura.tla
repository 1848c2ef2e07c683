---------------------------- MODULE Reescritura ----------------------------
(***************************************************************************)
(* What happens to the names of one file between the parser and the        *)
(* analyzer (src/resolutor_modulos.cpp): nested functions are taken out to *)
(* the top level, `incluir` used as a value and a final `retornar {...}`   *)
(* become an import and exports, the declarations of the file are mangled  *)
(* and every reference to them, or to what is imported, is rewritten.      *)
(*                                                                         *)
(* The file is the sequence of visits of a walk over its tree (Visitas).   *)
(* A name is the sequence of the parts its text is made of, so that        *)
(* "__mod_s__" and "__anid_f__g" are told from a source name.  The graph   *)
(* of files is ResolutorModulos: here all imports are from one other file, *)
(* whose table of exports is TablaAjena.                                   *)
(***************************************************************************)
EXTENDS Visitas

CONSTANTS
  Programas,   \* the files the parser may deliver
  TablaAjena   \* the exports of the imported file: name to internal name

(* Visits that name something: a value, the root of `e.x`, the variable of a*)
(* loop, a destination, a type, a type `e.x`.                               *)
Usos == {"lee", "miembro", "para", "asigna", "tipo", "tipo_ns"}
Importes == {"importa", "espacio"}   \* `importar {e como x}`, `importar * como x`
Declarantes == {"funcion", "clase", "asigna"}
Ops == Usos \cup Aperturas \cup Importes \cup {"clase", "incluye", "retornar", "fin"}

(* sentencia: the visit is a whole expression statement; dispar: an entry of*)
(* `retornar {...}` whose key is not its value's name.                      *)
Marcas == {"exportar", "defecto", "global", "incremento", "constructor", "sentencia", "retorna",
           "dispar"}

(* ps: the parameters of a function, all destinations of an assignment, the *)
(* entries of `retornar`.  e: also the class a method is of.                *)
Visita(v) ==
  /\ DOMAIN v = {"id", "op", "x", "e", "ps", "marcas"}
  /\ v.id \in Nat /\ v.op \in Ops /\ v.marcas \subseteq Marcas

ASSUME ReescrituraAssumption ==
  \A p \in Programas : BienAnidado(p) /\ \A i \in DOMAIN p : Visita(p[i]) /\ p[i].id = i

-----------------------------------------------------------------------------
(* Places of a sequence of visits.                                          *)
Arriba(p, i) == Abiertos(p, i) = {}
Cierre(p, i) == Min({k \in i + 1 .. Len(p) : p[k].op = "fin" /\ Interior(p, k) = i})
Trozo(p, i) == SubSeq(p, i, Cierre(p, i))
Lugar(p, id) == CHOOSE i \in DOMAIN p : p[i].id = id
EnInseguro(p, i) == \E j \in Abiertos(p, i) : p[j].op = "inseguro"

(* Mutant: the blocks in the body are not looked into.                      *)
LevantadosSinBloques(p, d) ==
  ToSet(p[d].ps) \cup
  {p[i].x : i \in {k \in DOMAIN p : p[k].op \in {"asigna", "para"} /\ Dueno(p, k) = d
                                    /\ Interior(p, k) = d}}

(* recolectarLocales: the names function d hides in its whole body.  It does*)
(* not look into `inseguro` nor at the increment of a `desde`.              *)
Levantados(p, d) ==
  ToSet(p[d].ps) \cup
  {p[i].x : i \in {k \in DOMAIN p : /\ p[k].op \in {"asigna", "para"} /\ Dueno(p, k) = d
                                    /\ "incremento" \notin p[k].marcas /\ ~ EnInseguro(p, k)}}

(* estaSombreado: by any of the functions the visit is in.                  *)
Sombras(p, i) == UNION {Levantados(p, d) : d \in Marcos(p, i) \ {0}}

Renombre(ren, x) == IF x \in DOMAIN ren THEN ren[x] ELSE x
Valor(v, x) == [v EXCEPT !.x = x, !.e = <<>>]

(* One visit of ReescritorReferencias, in the names ren and the namespaces  *)
(* esp: renombrarUso, visitarExpr for `e.x`, renombrarTipo.  Destinations   *)
(* are no uses, and the visitor has no method for `inseguro`.               *)
Reescrita(p, i, ren, esp) ==
  LET v == p[i]
      sombras == Sombras(p, i)
      exporta == v.x \in DOMAIN TablaAjena IN
  IF EnInseguro(p, i) THEN v
  ELSE CASE v.op \in {"lee", "para"} ->
              IF v.x \in sombras \cup esp THEN v ELSE [v EXCEPT !.x = Renombre(ren, v.x)]
         [] v.op = "miembro" /\ v.e \in esp \ sombras ->
              IF exporta THEN [Valor(v, TablaAjena[v.x]) EXCEPT !.op = "lee"] ELSE v
         [] v.op = "miembro" /\ v.e \notin esp \ sombras ->
              IF v.e \in sombras THEN v ELSE [v EXCEPT !.e = Renombre(ren, v.e)]
         [] v.op = "tipo" -> [v EXCEPT !.x = Renombre(ren, v.x)]
         [] v.op = "tipo_ns" ->
              IF v.e \in esp /\ exporta THEN [Valor(v, TablaAjena[v.x]) EXCEPT !.op = "tipo"] ELSE v
         [] OTHER -> v

Reescribe(p, ren, esp) == [i \in DOMAIN p |-> Reescrita(p, i, ren, esp)]

(* reportarError: a namespace used as a value, or asked for what it does not*)
(* export, or a type of what is not a namespace.                            *)
TieneError(p, esp) ==
  \E i \in DOMAIN p :
    LET v == p[i] IN
    /\ ~ EnInseguro(p, i)
    /\ \/ v.op \in {"lee", "para"} /\ v.x \in esp \ Sombras(p, i)
       \/ v.op = "miembro" /\ v.e \in esp \ Sombras(p, i) /\ v.x \notin DOMAIN TablaAjena
       \/ v.op = "tipo_ns" /\ (v.e \notin esp \/ v.x \notin DOMAIN TablaAjena)

-----------------------------------------------------------------------------
VARIABLES
  programa,    \* the file as it was parsed
  visitas,     \* the file now
  fase,        \* what is done next: "elevar", "adaptar", "manglar", "importar", "reescribir"
  pendientes,  \* the functions elevarDeFuncion has still to look into
  renombres,   \* DeclaracionesPropias::renombres
  tabla,       \* DeclaracionesPropias::tabla
  espacios     \* the namespaces of procesarModulo

vars == <<programa, visitas, fase, pendientes, renombres, tabla, espacios>>

EnOrden(p, S) == SelectSeq([k \in DOMAIN p |-> k], LAMBDA k : k \in S)
Solo(p, S) == LET orden == EnOrden(p, S) IN [k \in DOMAIN orden |-> p[orden[k]]]
Ids(p, S) == LET sub == Solo(p, S) IN [k \in DOMAIN sub |-> sub[k].id]

Init ==
  /\ programa \in Programas
  /\ visitas = programa
  /\ fase = "elevar"
  /\ pendientes = Ids(programa, {i \in DOMAIN programa : programa[i].op = "funcion"
                                                         /\ Arriba(programa, i)})
  /\ renombres = <<>>
  /\ tabla = <<>>
  /\ espacios = {}

(* An expression that ends a function is returned.                          *)
ConRetorno(t) ==
  LET u == Len(t) - 1 IN
  IF "sentencia" \in t[u].marcas
  THEN [t EXCEPT ![u].marcas = (@ \ {"sentencia"}) \cup {"retorna"}] ELSE t

(* The functions declared directly in function t[1].                        *)
Anidadas(t) == {k \in 2 .. Len(t) : t[k].op = "funcion" /\ Abiertos(t, k) = {1}}
Anidado(f, x) == <<"anid">> \o f \o x
EsElevada(v) == Head(v.x) = "anid"

(* t without the functions nested in it.                                    *)
Resto(t, dentro) ==
  Solo(t, {k \in DOMAIN t : \A j \in dentro : k \notin j .. Cierre(t, j)})

(* A nested function, out: on its own, and so without the locals of t[1].   *)
Sacada(t, k, ren) ==
  LET s == Reescribe(Trozo(t, k), ren, {}) IN [s EXCEPT ![1].x = ren[s[1].x]]

(* elevarDeFuncion of the next function: what is nested in it goes to the   *)
(* end of the file, or, if it was itself taken out, just before it.         *)
ElevarDeFuncion ==
  /\ fase = "elevar" /\ pendientes # <<>>
  /\ LET i == Lugar(visitas, Head(pendientes))
         t == ConRetorno(Trozo(visitas, i))
         dentro == Anidadas(t)
         ren == [x \in {t[k].x : k \in dentro} |-> Anidado(t[1].x, x)]
         yo == Reescribe(Resto(t, dentro), ren, {})
         orden == EnOrden(t, dentro)
         sacadas == FlattenSeq([k \in DOMAIN orden |-> Sacada(t, orden[k], ren)])
         antes == SubSeq(visitas, 1, i - 1)
         luego == SubSeq(visitas, Cierre(visitas, i) + 1, Len(visitas))
     IN  /\ visitas' = IF EsElevada(t[1]) THEN antes \o sacadas \o yo \o luego
                       ELSE antes \o yo \o luego \o sacadas
         /\ pendientes' = Ids(t, dentro) \o Tail(pendientes)
  /\ UNCHANGED <<programa, fase, renombres, tabla, espacios>>

FinElevar ==
  /\ fase = "elevar" /\ pendientes = <<>>
  /\ fase' = "adaptar"
  /\ UNCHANGED <<programa, visitas, pendientes, renombres, tabla, espacios>>

-----------------------------------------------------------------------------
(* The destinations a declaration at the top level gives a name to.         *)
Destinos(v) == IF v.op = "asigna" THEN ToSet(v.ps) ELSE {v.x}
Propias(p) == {i \in DOMAIN p : p[i].op \in Declarantes /\ Arriba(p, i)}

Importado(p) ==
  [i \in DOMAIN p |-> IF p[i].op = "incluye" /\ Arriba(p, i) THEN [p[i] EXCEPT !.op = "espacio"]
                      ELSE p[i]]

(* Mutant: only the functions and classes are looked for.                   *)
MarcadaSinVariables(p, i, nombres) ==
  IF i \in Propias(p) /\ p[i].op # "asigna" /\ p[i].x \in nombres
  THEN [p[i] EXCEPT !.marcas = @ \cup {"exportar"}] ELSE p[i]

(* An assignment is exported whole when one of its destinations is.         *)
Marcada(p, i, nombres) ==
  IF i \in Propias(p) /\ Destinos(p[i]) \cap nombres # {}
  THEN [p[i] EXCEPT !.marcas = @ \cup {"exportar"}] ELSE p[i]

(* adaptarIncluirComoModulo.  Only the statement that is last by now counts.*)
AdaptarIncluirComoModulo ==
  /\ fase = "adaptar"
  /\ LET p == Importado(visitas)
         ret == Last(p)
         valido == /\ "dispar" \notin ret.marcas
                   /\ ToSet(ret.ps) \subseteq UNION {Destinos(p[i]) : i \in Propias(p)}
     IN  IF p = <<>> \/ ret.op # "retornar"
         THEN visitas' = p /\ fase' = "manglar"
         ELSE IF valido
         THEN /\ visitas' = Front([i \in DOMAIN p |-> Marcada(p, i, ToSet(ret.ps))])
              /\ fase' = "manglar"
         ELSE visitas' = p /\ fase' = "error"
  /\ UNCHANGED <<programa, pendientes, renombres, tabla, espacios>>

Participa(p) == \E i \in DOMAIN p : p[i].op \in Importes \/ "exportar" \in p[i].marcas

(* participaDeModulos: a file without imports or exports is a script.       *)
DejarComoEsta ==
  /\ fase = "manglar" /\ ~ Participa(visitas)
  /\ fase' = "fin"
  /\ UNCHANGED <<programa, visitas, pendientes, renombres, tabla, espacios>>

Manglar(x) == <<"mod">> \o x
Defecto == <<"__defecto__">>

(* A declaration with its new name and without its marks; the constructor   *)
(* of a class goes by the name of the class.                                *)
Manglada(p, i) ==
  IF i \in Propias(p)
  THEN [p[i] EXCEPT !.x = Manglar(p[i].x), !.marcas = @ \ {"exportar", "defecto"}]
  ELSE IF p[i].op = "metodo" /\ "constructor" \in p[i].marcas
  THEN [p[i] EXCEPT !.x = Manglar(p[i].e)] ELSE p[i]

(* manglarDeclaracionesPropias.                                             *)
ManglarDeclaracionesPropias ==
  /\ fase = "manglar" /\ Participa(visitas)
  /\ LET propias == Propias(visitas)
         defectos == {i \in propias : "defecto" \in visitas[i].marcas}
         publicas == {i \in propias \ defectos : "exportar" \in visitas[i].marcas}
     IN  /\ renombres' = [x \in {visitas[i].x : i \in propias} |-> Manglar(x)]
         /\ tabla' = [x \in {visitas[i].x : i \in publicas}
                            \cup (IF defectos = {} THEN {} ELSE {Defecto}) |->
                        IF x = Defecto THEN Manglar(visitas[Max(defectos)].x) ELSE Manglar(x)]
         /\ visitas' = [i \in DOMAIN visitas |-> Manglada(visitas, i)]
  /\ fase' = "importar"
  /\ UNCHANGED <<programa, pendientes, espacios>>

Importaciones(p) == {i \in DOMAIN p : p[i].op \in Importes}

(* The loop of procesarModulo over the imports.                             *)
ResolverImportaciones ==
  /\ fase = "importar"
  /\ LET pares == {i \in DOMAIN visitas : visitas[i].op = "importa"}
         alias == {visitas[i].x : i \in pares}
         ultimo(x) == Max({i \in pares : visitas[i].x = x})
     IN  IF \A i \in pares : visitas[i].e \in DOMAIN TablaAjena
         THEN /\ renombres' = [x \in alias \cup DOMAIN renombres |->
                                 IF x \in alias THEN TablaAjena[visitas[ultimo(x)].e] ELSE renombres[x]]
              /\ fase' = "reescribir"
         ELSE fase' = "error" /\ UNCHANGED renombres
  /\ espacios' = {visitas[i].x : i \in {j \in DOMAIN visitas : visitas[j].op = "espacio"}}
  /\ UNCHANGED <<programa, visitas, pendientes, tabla>>

(* The rewriter and the removal of the imports.  A file without imports     *)
(* (resolverModuloUnico) is not refused for what the rewriter reports.      *)
ReescribirReferencias ==
  /\ fase = "reescribir"
  /\ LET p == Reescribe(visitas, renombres, espacios)
     IN  visitas' = Solo(p, DOMAIN p \ Importaciones(p))
  /\ fase' = IF TieneError(visitas, espacios) /\ Importaciones(visitas) # {} THEN "error" ELSE "fin"
  /\ UNCHANGED <<programa, pendientes, renombres, tabla, espacios>>

Acabado == fase \in {"fin", "error"} /\ UNCHANGED vars

Next ==
  \/ ElevarDeFuncion
  \/ FinElevar
  \/ AdaptarIncluirComoModulo
  \/ DejarComoEsta
  \/ ManglarDeclaracionesPropias
  \/ ResolverImportaciones
  \/ ReescribirReferencias
  \/ Acabado

Spec == Init /\ [][Next]_vars

-----------------------------------------------------------------------------
(* What a name means, by the language's rules, before and after.            *)

Asignan(p, d) == {i \in DOMAIN p : /\ p[i].op \in {"asigna", "para"} /\ Dueno(p, i) = d
                                   /\ "incremento" \notin p[i].marcas}
Globales(p) == {p[i].x : i \in {j \in Asignan(p, 0) : "global" \in p[j].marcas}}

(* The cells of a function, wherever in it they are assigned.               *)
Locales(p, d) ==
  IF d = 0 THEN {} ELSE ToSet(p[d].ps) \cup ({p[i].x : i \in Asignan(p, d)} \ Globales(p))

(* The functions called x a visit sees nested around it, by the function    *)
(* each is declared in; the innermost hides the others.                     *)
Alrededor(p, i, x) ==
  {k \in DOMAIN p : /\ p[k].op = "funcion" /\ p[k].x = x /\ ~ Arriba(p, k)
                    /\ Interior(p, k) \in Marcos(p, i)}

DeArriba(p, x, ops) ==
  {p[k].id : k \in {j \in DOMAIN p : /\ p[j].op \in ops /\ p[j].x = x /\ Dueno(p, j) = 0
                                     /\ (p[j].op = "funcion" => Arriba(p, j))}}

(* The names the imports of the file bind, and the internal name of each.   *)
Alias(p, x) == {i \in DOMAIN p : p[i].op = "importa" /\ p[i].x = x}
Ajeno(p, x) ==
  IF Alias(p, x) # {} THEN TablaAjena[p[Max(Alias(p, x))].e]
  ELSE IF x \in {TablaAjena[y] : y \in DOMAIN TablaAjena} THEN x ELSE <<>>

DeModulo(p, x, ops) ==
  IF Ajeno(p, x) # <<>> THEN <<"ajeno", Ajeno(p, x)>>
  ELSE IF DeArriba(p, x, ops) # {} THEN <<"propio", DeArriba(p, x, ops)>>
  ELSE <<"libre", x>>

DeValor(p, i, x) ==
  IF x \in Locales(p, Dueno(p, i)) THEN <<"local", p[Dueno(p, i)].id>>
  ELSE IF Alrededor(p, i, x) # {}
  THEN <<"propio", {p[CHOOSE k \in Alrededor(p, i, x) :
                        \A j \in Alrededor(p, i, x) : Interior(p, j) <= Interior(p, k)].id}>>
  ELSE DeModulo(p, x, {"funcion", "clase", "asigna", "para"})

EsEspacio(p, x) == \E i \in DOMAIN p : p[i].op \in {"espacio", "incluye"} /\ p[i].x = x

Sentido(p, i) ==
  LET v == p[i] IN
  CASE v.op = "tipo" -> DeModulo(p, v.x, {"clase"})
    [] v.op = "tipo_ns" -> <<"ajeno", TablaAjena[v.x]>>
    [] v.op = "miembro" ->
         IF EsEspacio(p, v.e) /\ v.e \notin Locales(p, Dueno(p, i))
         THEN <<"ajeno", TablaAjena[v.x]>> ELSE DeValor(p, i, v.e)
    [] OTHER -> DeValor(p, i, v.x)

-----------------------------------------------------------------------------
(* The uses whose meaning the code is known to change.                      *)
Nombrado(p, i) == IF p[i].op = "miembro" THEN p[i].e ELSE p[i].x

(* The names function d gives to its parameters or assigns.                 *)
Suyos(p, d) == ToSet(p[d].ps) \cup {p[k].x : k \in Asignan(p, d)}

(* The block `inseguro` is not rewritten, and what only it assigns is not   *)
(* taken for a local (recolectarLocales, ReescritorReferencias).            *)
Inseguro(p, i) ==
  \/ EnInseguro(p, i)
  \/ \E d \in Marcos(p, i) \ {0} :
       LET dentro == {k \in Asignan(p, d) : EnInseguro(p, k)}
       IN  /\ Nombrado(p, i) \in {p[k].x : k \in dentro}
           /\ Nombrado(p, i) \notin ToSet(p[d].ps) \cup {p[k].x : k \in Asignan(p, d) \ dentro}

(* A variable of the file that a block at the top level assigns too: only   *)
(* the destination outside the block is mangled.                            *)
Partida(p, i) ==
  \E j, k \in DOMAIN p :
    /\ p[j].op \in Declarantes /\ Arriba(p, j) /\ p[k].op = "asigna" /\ ~ Arriba(p, k) /\ Dueno(p, k) = 0
    /\ p[j].x = p[k].x /\ p[j].x = Nombrado(p, i)

(* A `global` a function assigns: its name there is taken for a local, and  *)
(* keeps the name the declaration lost (SINTAXIS.md:80-97).                 *)
GlobalAsignada(p, i) ==
  /\ Nombrado(p, i) \in Globales(p) \ Locales(p, Dueno(p, i))
  /\ \E d \in Marcos(p, i) \ {0} : Nombrado(p, i) \in Suyos(p, d)

(* An anonymous function that names a local of the function around it reads *)
(* the variable of the file of that name in a script, nothing in a module.  *)
LocalAjena(p, i) ==
  LET d == Dueno(p, i) IN
  /\ d # 0 /\ Nombrado(p, i) \notin Suyos(p, d)
  /\ \E c \in Marcos(p, i) \ {0, d} : Nombrado(p, i) \in Suyos(p, c)

(* A nested function that another one nested deeper hides.                  *)
Tapada(p, i) == Cardinality(Alrededor(p, i, Nombrado(p, i))) > 1

Discrepa(p, i) ==
  \/ Inseguro(p, i)
  \/ Partida(p, i)
  \/ GlobalAsignada(p, i)
  \/ LocalAjena(p, i)
  \/ Tapada(p, i)

(* Every use of a name means in the file handed to the analyzer what it     *)
(* meant in the file as written, but for the uses above: the same cell, the *)
(* same function or class, the same name of the imported file; and nothing  *)
(* but imports and the `retornar` is lost on the way (elevarDeFuncion,      *)
(* ReescritorReferencias).                                                  *)
MismoSentido ==
  fase = "fin" =>
    LET quedan == {visitas[k].id : k \in DOMAIN visitas}
    IN  /\ \A i \in DOMAIN programa \ quedan :
             programa[i].op \in Importes \cup {"incluye", "retornar"}
        /\ \A k \in DOMAIN visitas :
             visitas[k].op \in Usos =>
               \/ Discrepa(programa, visitas[k].id)
               \/ Sentido(visitas, k) = Sentido(programa, visitas[k].id)

(* The file ends in a `retornar`, and a function nested in another, taken   *)
(* out to the end, comes after it by the time it is looked for.             *)
RetornarTapado(p) ==
  /\ p # <<>> /\ Last(p).op = "retornar"
  /\ \E k \in DOMAIN p : p[k].op = "funcion" /\ ~ Arriba(p, k)

Publicadas(p) ==
  LET ret == Last(p)
      nombres == IF p # <<>> /\ ret.op = "retornar" THEN ToSet(ret.ps) ELSE {}
      marcadas == {i \in Propias(p) : p[i].marcas \cap {"exportar", "defecto"} = {"exportar"}
                                      \/ (Destinos(p[i]) \cap nombres # {} /\ "defecto" \notin p[i].marcas)}
  IN  {p[i].x : i \in marcadas}
        \cup {Defecto : i \in {j \in Propias(p) : "defecto" \in p[j].marcas}}

(* What other files can import is what the file marks `exportar` or lists in*)
(* its final `retornar {...}` (adaptarIncluirComoModulo,                    *)
(* include/resolutor_modulos.h:65-77), and each entry leads to one of its   *)
(* declarations, unless a nested function has taken the last place.         *)
ExportaLoQueDice ==
  fase = "fin" =>
    /\ DOMAIN tabla = Publicadas(programa) \/ RetornarTapado(programa)
    /\ \A x \in DOMAIN tabla : tabla[x] \in {visitas[k].x : k \in Propias(visitas)}
=============================================================================

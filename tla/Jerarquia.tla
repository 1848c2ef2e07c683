----------------------------- MODULE Jerarquia -----------------------------
(***************************************************************************)
(* Classes, structures and interfaces: what AnalizadorSemantico checks of  *)
(* them (src/analizador_semantico.cpp), the code GeneradorC emits for      *)
(* `nuevo` (src/compiler.cpp) and the object the runtime builds with it    *)
(* (runtime/latino.c).                                                     *)
(*                                                                         *)
(* A program is its type declarations and, in each method and at the top   *)
(* level, the expressions that concern them.  Every loop that climbs the   *)
(* chain of base classes is walked a class at a time.                      *)
(***************************************************************************)
EXTENDS Naturals, Sequences, SequencesExt, FiniteSets

CONSTANTS
  Nombres,    \* of types, methods and fields
  Programas   \* the programs the parser may deliver

Acceso == {"publico", "protegido", "privado"}

(* An expression: an instantiation, a test `es`, or the access to a member  *)
(* of an object whose static class is known.                                *)
Uso == [tipo : {"nuevo"}, clase : Nombres, nargs : Nat]
         \cup [tipo : {"es"}, clase : Nombres]
         \cup [tipo : {"acceso"}, clase : Nombres, miembro : Nombres]

Metodo == [nombre : Nombres, acceso : Acceso, aridad : Nat, cuerpo : Seq(Uso),
           abstracto : BOOLEAN, sobreescribe : BOOLEAN, estatico : BOOLEAN]

(* ClaseDef, EstructuraDef, InterfazDef; "" is no base, and only classes     *)
(* have one.                                                                *)
TipoDef ==
  {t \in [nombre : Nombres, clase : {"clase", "estructura", "interfaz"}, abstracta : BOOLEAN,
          padre : Nombres \cup {""}, interfaces : Seq(Nombres),
          campos : Seq([nombre : Nombres, acceso : Acceso]), metodos : Seq(Metodo)] :
     t.clase # "clase" => t.padre = ""}

Programa == [tipos : Seq(TipoDef), cuerpo : Seq(Uso)]

ASSUME ProgramasAssumption == "" \notin Nombres /\ Programas \subseteq Programa

-----------------------------------------------------------------------------
VARIABLES
  programa,
  tipos,       \* AnalizadorSemantico::tipos
  errores,     \* the kinds of error reported
  fase,        \* "recolectar", "visitar", "usar", "generar", "compilado", "rechazado"
  pos,         \* the declaration in hand
  lugar,       \* the method in hand and the expression of its body
  busqueda,    \* verificarAccesoMiembro: its stage and the class it has climbed to
  cadena,      \* GeneradorC: the classes climbed, those left to register
  objeto,      \* the object under construction
  objetos      \* what each `nuevo` builds

analisis == <<tipos, errores, busqueda>>
generacion == <<cadena, objeto, objetos>>
vars == <<programa, fase, pos, lugar, analisis, generacion>>

Principio == [metodo |-> 1, uso |-> 1]

SinBusqueda == [etapa |-> "no", nivel |-> "", declarante |-> ""]
Busqueda == [etapa : {"no", "miembro", "permiso"}, nivel : Nombres \cup {""},
             declarante : Nombres \cup {""}]

Objeto == [clase : Nombres, ascendencia : Seq(Nombres), metodos : SUBSET (Nombres \X Nombres)]
SinObjeto == [clase |-> "", ascendencia |-> <<>>, metodos |-> {}]

Init ==
  /\ programa \in Programas
  /\ tipos = <<>>
  /\ errores = {}
  /\ fase = "recolectar"
  /\ pos = 1
  /\ lugar = Principio
  /\ busqueda = SinBusqueda
  /\ cadena = <<>>
  /\ objeto = SinObjeto
  /\ objetos = {}

Definido(n) == n \in DOMAIN tipos

(* The entry of a method in InfoTipo::metodos: the first of that name.      *)
Tiene(t, n) == \E m \in ToSet(t.metodos) : m.nombre = n
MetodoDe(t, n) == SelectInSeq(t.metodos, LAMBDA m : m.nombre = n)
Aridad(t, n) == t.metodos[MetodoDe(t, n)].aridad

(* The access of a member in one type: fields before methods, the last      *)
(* field of a name and the first method of a name.                          *)
Declara(t, n) == Tiene(t, n) \/ \E c \in ToSet(t.campos) : c.nombre = n
AccesoDe(t, n) ==
  LET c == SelectLastInSeq(t.campos, LAMBDA x : x.nombre = n)
  IN  IF c # 0 THEN t.campos[c].acceso ELSE t.metodos[MetodoDe(t, n)].acceso

Repite(s) == \E j, k \in 1 .. Len(s) : j # k /\ s[j].nombre = s[k].nombre

-----------------------------------------------------------------------------
(* recolectarTipos, a declaration at a time: the first of a name stays.     *)
RecolectarTipo ==
  /\ fase = "recolectar" /\ pos <= Len(programa.tipos)
  /\ LET t == programa.tipos[pos]
     IN  IF Definido(t.nombre)
         THEN errores' = errores \cup {"tipo repetido"} /\ UNCHANGED tipos
         ELSE /\ tipos' = [n \in DOMAIN tipos \cup {t.nombre} |->
                             IF n = t.nombre THEN t ELSE tipos[n]]
              /\ errores' = errores \cup
                   (IF Repite(t.campos) \/ Repite(t.metodos) THEN {"miembro repetido"}
                    ELSE {})
  /\ pos' = pos + 1
  /\ UNCHANGED <<programa, fase, lugar, busqueda, generacion>>

FinRecolectar ==
  /\ fase = "recolectar" /\ pos > Len(programa.tipos)
  /\ fase' = "visitar" /\ pos' = 1
  /\ UNCHANGED <<programa, lugar, analisis, generacion>>

-----------------------------------------------------------------------------
(* visitar(ClaseDef), (EstructuraDef), (InterfazDef): the checks on a       *)
(* declaration, which look no further than the direct base class.           *)

EsDe(n, clase) == Definido(n) /\ tipos[n].clase = clase

(* A method that t has to have: same name, same number of parameters.       *)
Cumple(t, m) == Tiene(t, m.nombre) /\ Aridad(t, m.nombre) = m.aridad

(* Mutant: only interfaces have abstract methods.                           *)
AbstractoDeInterfaz(t, m) == t.clase = "interfaz"

(* InfoMetodo: an interface's methods are all abstract.                     *)
Abstracto(t, m) == m.abstracto \/ t.clase = "interfaz"

(* The entry a declaration finds in `tipos` under its own name, and what    *)
(* its base class and interfaces leave it to implement.                     *)
AbstractosDelPadre(t) ==
  IF Definido(t.padre) THEN {m \in ToSet(tipos[t.padre].metodos) : Abstracto(tipos[t.padre], m)}
                       ELSE {}
MetodosDeInterfaces(t) ==
  UNION {ToSet(tipos[i].metodos) : i \in {j \in ToSet(t.interfaces) : EsDe(j, "interfaz")}}

ErroresDeClase(t) ==
  {e \in {"hereda de si misma", "base desconocida", "interfaz desconocida", "abstracto en concreta",
          "sobreescribir sin base", "falta metodo"} :
     CASE e = "hereda de si misma" -> t.padre = t.nombre
       [] e = "base desconocida" -> t.padre # "" /\ t.padre # t.nombre /\ ~EsDe(t.padre, "clase")
       [] e = "interfaz desconocida" -> \E i \in ToSet(t.interfaces) : ~EsDe(i, "interfaz")
       [] e = "abstracto en concreta" -> ~t.abstracta /\ \E m \in ToSet(t.metodos) : m.abstracto
       [] e = "sobreescribir sin base" ->
            \E m \in ToSet(t.metodos) :
              /\ m.sobreescribe
              /\ t.padre = "" \/ (Definido(t.padre) /\ ~Cumple(tipos[t.padre], m))
       [] e = "falta metodo" ->
            /\ ~t.abstracta
            /\ \E m \in AbstractosDelPadre(t) \cup MetodosDeInterfaces(t) : ~Cumple(tipos[t.nombre], m)}

ErroresDe(t) ==
  IF t.clase = "clase" THEN ErroresDeClase(t)
  ELSE IF t.clase = "estructura"
       THEN {"metodo de estructura" : m \in {x \in ToSet(t.metodos) : x.sobreescribe \/ x.abstracto}}
       ELSE {"metodo de interfaz" : m \in {x \in ToSet(t.metodos) : ~x.abstracto \/ x.cuerpo # <<>>}}

VisitarTipo ==
  /\ fase = "visitar" /\ pos <= Len(programa.tipos)
  /\ errores' = errores \cup ErroresDe(programa.tipos[pos])
  /\ fase' = "usar" /\ lugar' = Principio
  /\ UNCHANGED <<programa, tipos, pos, busqueda, generacion>>

(* After the declarations, the statements at the top level.                 *)
VisitarCuerpo ==
  /\ fase = "visitar" /\ pos = Len(programa.tipos) + 1
  /\ fase' = "usar" /\ lugar' = Principio
  /\ UNCHANGED <<programa, pos, analisis, generacion>>

-----------------------------------------------------------------------------
(* The bodies of declaration i of program p, those of its methods (an       *)
(* interface has none), with tipoActual set; behind all declarations comes  *)
(* the top level.                                                           *)
Cuerpos(p, i) ==
  IF i > Len(p.tipos) THEN <<p.cuerpo>>
  ELSE IF p.tipos[i].clase = "interfaz" THEN <<>>
  ELSE [m \in 1 .. Len(p.tipos[i].metodos) |-> p.tipos[i].metodos[m].cuerpo]
TipoDe(p, i) == IF i > Len(p.tipos) THEN "" ELSE p.tipos[i].nombre
TipoActual == TipoDe(programa, pos)

QuedaMetodo == lugar.metodo <= Len(Cuerpos(programa, pos))
QuedaUso == QuedaMetodo /\ lugar.uso <= Len(Cuerpos(programa, pos)[lugar.metodo])
Actual == Cuerpos(programa, pos)[lugar.metodo][lugar.uso]
Hecho == lugar' = [lugar EXCEPT !.uso = @ + 1]

OtroMetodo ==
  /\ fase \in {"usar", "generar"} /\ QuedaMetodo /\ ~QuedaUso
  /\ lugar' = [metodo |-> lugar.metodo + 1, uso |-> 1]
  /\ UNCHANGED <<programa, fase, pos, analisis, generacion>>

FinVisitar ==
  /\ fase = "usar" /\ ~QuedaMetodo
  /\ fase' = "visitar" /\ pos' = pos + 1
  /\ UNCHANGED <<programa, lugar, analisis, generacion>>

-----------------------------------------------------------------------------
(* The expressions of a body, in order.                                     *)

Usa(tipo) == fase = "usar" /\ QuedaUso /\ Actual.tipo = tipo /\ busqueda.etapa = "no"

(* The parameters of the constructor of t: the method with its name.        *)
AridadConstructor(t) == IF Tiene(t, t.nombre) THEN Aridad(t, t.nombre) ELSE 0

ErrorDeNuevo(u) ==
  \/ ~Definido(u.clase)
  \/ tipos[u.clase].clase = "interfaz"
  \/ tipos[u.clase].abstracta
  \/ u.nargs # AridadConstructor(tipos[u.clase])

VisitarNuevo ==
  /\ Usa("nuevo")
  /\ errores' = errores \cup (IF ErrorDeNuevo(Actual) THEN {"nuevo"} ELSE {})
  /\ Hecho
  /\ UNCHANGED <<programa, tipos, fase, pos, busqueda, generacion>>

VisitarEs ==
  /\ Usa("es")
  /\ errores' = errores \cup (IF Definido(Actual.clase) THEN {} ELSE {"es"})
  /\ Hecho
  /\ UNCHANGED <<programa, tipos, fase, pos, busqueda, generacion>>

(* verificarAccesoMiembro: first the class that declares the member, from   *)
(* the static class of the object up.                                       *)
EmpezarAcceso ==
  /\ Usa("acceso")
  /\ busqueda' = [etapa |-> "miembro", nivel |-> Actual.clase, declarante |-> ""]
  /\ UNCHANGED <<programa, tipos, errores, fase, pos, lugar, generacion>>

Buscando == busqueda.etapa = "miembro"

(* Mutant: the search does not climb.                                       *)
SubirAlMismo ==
  /\ Buscando /\ Definido(busqueda.nivel) /\ ~Declara(tipos[busqueda.nivel], Actual.miembro)
  /\ busqueda' = [busqueda EXCEPT !.nivel = @]
  /\ UNCHANGED <<programa, tipos, errores, fase, pos, lugar, generacion>>

SubirBusqueda ==
  /\ Buscando /\ Definido(busqueda.nivel) /\ ~Declara(tipos[busqueda.nivel], Actual.miembro)
  /\ busqueda' = [busqueda EXCEPT !.nivel = tipos[@].padre]
  /\ UNCHANGED <<programa, tipos, errores, fase, pos, lugar, generacion>>

(* Nowhere: left to the run.                                                *)
NoEncontrado ==
  /\ Buscando /\ ~Definido(busqueda.nivel)
  /\ busqueda' = SinBusqueda /\ Hecho
  /\ UNCHANGED <<programa, tipos, errores, fase, pos, generacion>>

Encontrado(a) ==
  /\ Buscando /\ Definido(busqueda.nivel)
  /\ Declara(tipos[busqueda.nivel], Actual.miembro)
  /\ AccesoDe(tipos[busqueda.nivel], Actual.miembro) = a

EncontradoSinMas ==
  /\ Encontrado("publico") \/ Encontrado("privado")
  /\ errores' = errores \cup
       (IF Encontrado("privado") /\ TipoActual # busqueda.nivel THEN {"privado"} ELSE {})
  /\ busqueda' = SinBusqueda /\ Hecho
  /\ UNCHANGED <<programa, tipos, fase, pos, generacion>>

(* Protected: the class in hand must climb to the one that declares it.     *)
EncontradoProtegido ==
  /\ Encontrado("protegido")
  /\ busqueda' = [etapa |-> "permiso", nivel |-> TipoActual, declarante |-> busqueda.nivel]
  /\ UNCHANGED <<programa, tipos, errores, fase, pos, lugar, generacion>>

SubirPermiso ==
  /\ busqueda.etapa = "permiso" /\ busqueda.nivel \notin {"", busqueda.declarante}
  /\ busqueda' = [busqueda EXCEPT !.nivel = IF Definido(@) THEN tipos[@].padre ELSE ""]
  /\ UNCHANGED <<programa, tipos, errores, fase, pos, lugar, generacion>>

(* Mutant: a class that climbs to the top is let through.                   *)
PermisoParaTodos ==
  /\ busqueda.etapa = "permiso" /\ busqueda.nivel \in {"", busqueda.declarante}
  /\ busqueda' = SinBusqueda /\ Hecho
  /\ UNCHANGED <<programa, tipos, errores, fase, pos, generacion>>

FinPermiso ==
  /\ busqueda.etapa = "permiso" /\ busqueda.nivel \in {"", busqueda.declarante}
  /\ errores' = errores \cup (IF busqueda.nivel = "" THEN {"protegido"} ELSE {})
  /\ busqueda' = SinBusqueda /\ Hecho
  /\ UNCHANGED <<programa, tipos, fase, pos, generacion>>

-----------------------------------------------------------------------------
(* GeneradorC: every `nuevo` of an accepted program, in order.              *)

FinAnalisis ==
  /\ fase = "visitar" /\ pos = Len(programa.tipos) + 2
  /\ IF errores = {} THEN fase' = "generar" /\ pos' = 1
                     ELSE fase' = "rechazado" /\ UNCHANGED pos
  /\ lugar' = Principio
  /\ UNCHANGED <<programa, analisis, generacion>>

(* What is not a `nuevo`, and the next declaration.                         *)
Pasar ==
  /\ fase = "generar" /\ QuedaUso /\ Actual.tipo # "nuevo"
  /\ Hecho
  /\ UNCHANGED <<programa, fase, pos, analisis, generacion>>

OtraDeclaracion ==
  /\ fase = "generar" /\ ~QuedaMetodo /\ pos <= Len(programa.tipos)
  /\ pos' = pos + 1 /\ lugar' = Principio
  /\ UNCHANGED <<programa, fase, analisis, generacion>>

Generando == fase = "generar" /\ QuedaUso /\ Actual.tipo = "nuevo"

(* The class at the end of the chain has a base class to climb to.  A base  *)
(* that is not a class ends the chain, as a structure does at once.         *)
Sube ==
  cadena # <<>> => EsDe(Last(cadena), "clase") /\ EsDe(tipos[Last(cadena)].padre, "clase")

SubirCadena ==
  /\ Generando /\ objeto = SinObjeto /\ Sube
  /\ cadena' = Append(cadena, IF cadena = <<>> THEN Actual.clase ELSE tipos[Last(cadena)].padre)
  /\ UNCHANGED <<programa, fase, pos, lugar, analisis, objeto, objetos>>

(* lat_obj_nuevo with the base, and lat_obj_set_clase down the chain.       *)
Crear ==
  /\ Generando /\ objeto = SinObjeto /\ ~Sube
  /\ objeto' = [clase |-> Actual.clase, ascendencia |-> Reverse(cadena), metodos |-> {}]
  /\ UNCHANGED <<programa, fase, pos, lugar, analisis, cadena, objetos>>

(* registrarTipo: the methods an object carries.                            *)
Registra(t) ==
  {m \in ToSet(t.metodos) : m.nombre # t.nombre /\ ~m.estatico /\ ~m.abstracto}

(* lat_obj_set_metodo, for every method of class c in turn.                 *)
Registrar(metodos, c) ==
  LET nuevos == {m.nombre : m \in Registra(tipos[c])}
  IN  {x \in metodos : x[1] \notin nuevos} \cup {<<n, c>> : n \in nuevos}

(* Mutant: the chain is registered from the derived class to the base.      *)
RegistrarAlReves ==
  /\ Generando /\ objeto # SinObjeto /\ cadena # <<>>
  /\ objeto' = [objeto EXCEPT !.metodos = Registrar(@, Head(cadena))]
  /\ cadena' = Tail(cadena)
  /\ UNCHANGED <<programa, fase, pos, lugar, analisis, objetos>>

(* The methods, from the base down.                                         *)
RegistrarClase ==
  /\ Generando /\ objeto # SinObjeto /\ cadena # <<>>
  /\ objeto' = [objeto EXCEPT !.metodos = Registrar(@, Last(cadena))]
  /\ cadena' = Front(cadena)
  /\ UNCHANGED <<programa, fase, pos, lugar, analisis, objetos>>

Construir ==
  /\ Generando /\ objeto # SinObjeto /\ cadena = <<>>
  /\ objetos' = objetos \cup {objeto}
  /\ objeto' = SinObjeto /\ Hecho
  /\ UNCHANGED <<programa, fase, pos, analisis, cadena>>

FinGenerar ==
  /\ fase = "generar" /\ ~QuedaMetodo /\ pos = Len(programa.tipos) + 1
  /\ fase' = "compilado"
  /\ UNCHANGED <<programa, pos, lugar, analisis, generacion>>

Next ==
  \/ RecolectarTipo \/ FinRecolectar
  \/ VisitarTipo \/ VisitarCuerpo \/ OtroMetodo \/ FinVisitar
  \/ VisitarNuevo \/ VisitarEs
  \/ EmpezarAcceso \/ SubirBusqueda \/ NoEncontrado \/ EncontradoSinMas
  \/ EncontradoProtegido \/ SubirPermiso \/ FinPermiso
  \/ FinAnalisis \/ Pasar \/ OtraDeclaracion
  \/ SubirCadena \/ Crear \/ RegistrarClase \/ Construir \/ FinGenerar

Spec == Init /\ [][Next]_vars

(* One thread compiles.                                                     *)
FairSpec == Spec /\ WF_vars(Next)

-----------------------------------------------------------------------------
(* Properties.                                                              *)

(* Types of the state.                                                      *)
TypeOK ==
  /\ programa \in Programa
  /\ DOMAIN tipos \subseteq Nombres
  /\ \A n \in DOMAIN tipos : tipos[n] \in ToSet(programa.tipos) /\ tipos[n].nombre = n
  /\ fase \in {"recolectar", "visitar", "usar", "generar", "compilado", "rechazado"}
  /\ pos \in 1 .. Len(programa.tipos) + 2
  /\ lugar \in [metodo : Nat \ {0}, uso : Nat \ {0}]
  /\ busqueda \in Busqueda
  /\ cadena \in Seq(Nombres)
  /\ objeto \in Objeto \cup {SinObjeto}
  /\ objetos \subseteq Objeto

Aceptado == fase \in {"generar", "compilado"}

(* The declaration of a name in program p, and the base it has.             *)
Declarados(p) == {t.nombre : t \in ToSet(p.tipos)}
Declaracion(p, n) ==
  LET k == SelectInSeq(p.tipos, LAMBDA t : t.nombre = n) IN p.tipos[k]
Padres(p, n) ==
  IF n \in Declarados(p) THEN {Declaracion(p, n).padre} \cap Declarados(p) ELSE {}

(* What is met climbing from n until one of S is: the least set with n that *)
(* has the bases of those of its types that are not in S.                   *)
Hasta(p, n, S) ==
  LET sube == [x \in Declarados(p) |-> Padres(p, x)]
  IN  {a \in Declarados(p) :
         \A H \in SUBSET Declarados(p) :
           {n} \cap Declarados(p) \subseteq H /\ (\A x \in H \ S : sube[x] \subseteq H) => a \in H}

(* The ancestors of a type, itself included, and the nearest ones in S.     *)
Ancestros(p, n) == Hasta(p, n, {})
Cercanos(p, n, S) == Hasta(p, n, S) \cap S

(* The expressions of a program, each in its type.                          *)
Usos(p) ==
  {[uso |-> u, tipoActual |-> ""] : u \in ToSet(p.cuerpo)} \cup
  UNION {UNION {[uso : ToSet(m.cuerpo), tipoActual : {t.nombre}] : m \in ToSet(t.metodos)} :
           t \in {x \in ToSet(p.tipos) : x.clase # "interfaz"}}

(* In an accepted program, a member whose nearest declaration is private is *)
(* named only inside the type that declares it, a protected one only inside *)
(* that type and those that derive from it.                                 *)
Declarantes(p, n) == {a \in Declarados(p) : Declara(Declaracion(p, a), n)}
Permitido(p, x) ==
  x.uso.tipo = "acceso" =>
    \A c \in Cercanos(p, x.uso.clase, Declarantes(p, x.uso.miembro)) :
      /\ AccesoDe(Declaracion(p, c), x.uso.miembro) = "privado" => x.tipoActual = c
      /\ AccesoDe(Declaracion(p, c), x.uso.miembro) = "protegido" => c \in Ancestros(p, x.tipoActual)
AccesoRespetado == Aceptado => \A x \in Usos(programa) : Permitido(programa, x)

(* A call on an object finds the method of the nearest ancestor that has an *)
(* instance method of that name, and of no other class.                     *)
Responden(p, n) == {a \in Declarados(p) : n \in {m.nombre : m \in Registra(Declaracion(p, a))}}
Despacho(p, n) ==
  {x \in Nombres \X Declarados(p) : x[2] \in Cercanos(p, n, Responden(p, x[1]))}
DespachoMasDerivado == \A o \in objetos : o.metodos = Despacho(programa, o.clase)

(* `es` answers for the class of the object and for each of its ancestors,  *)
(* and the message of a failed call names the class it was built with.      *)
EsReconoceAncestros ==
  \A o \in objetos :
    ToSet(o.ascendencia) = Ancestros(programa, o.clase) /\ Last(o.ascendencia) = o.clase

(* What an object built by `nuevo` answers with follows its classes.        *)
ObjetosFieles == DespachoMasDerivado /\ EsReconoceAncestros

(* An object can answer every abstract method of its direct base class,     *)
(* unless its class declares the method static or it has the name of the    *)
(* class: then a constructor counts as the method it lacks.  What a class   *)
(* further up left abstract is not looked at (analizador_semantico.cpp:990),*)
(* although input/PLAN_POO.md:958 says "heredados o propios".               *)
AbstractosImplementados ==
  \A o \in objetos : \A a \in Padres(programa, o.clase) :
    \A m \in ToSet(Declaracion(programa, a).metodos) :
      m.abstracto =>
        \/ \E x \in o.metodos : x[1] = m.nombre
        \/ \E e \in ToSet(Declaracion(programa, o.clase).metodos) :
             e.nombre = m.nombre /\ (e.estatico \/ e.nombre = o.clase)

(* Some classes extend each other in a circle.  A class that extends itself *)
(* is rejected, a longer circle is not (analizador_semantico.cpp:953,       *)
(* although input/PLAN_POO.md:951 says there should be none).               *)
HayCirculo ==
  \E H \in SUBSET Declarados(programa) \ {{}} :
    \A n \in H : Padres(programa, n) \cap (H \ {n}) # {}

(* A program is answered, or its classes make a circle that a search for a  *)
(* member, or `nuevo`, goes round for ever.                                 *)
Termina == <>(fase \in {"compilado", "rechazado"} \/ HayCirculo)
=============================================================================

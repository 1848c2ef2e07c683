-------------------------- MODULE JerarquiaPruebas --------------------------
(***************************************************************************)
(* Proofs about classes: whatever the types of a program and the uses it   *)
(* makes of them, an accepted program respects the access to its members,  *)
(* and the objects it builds answer with the nearest method, know their    *)
(* ancestors and have what their base left abstract.                       *)
(***************************************************************************)
EXTENDS Jerarquia, SequenceTheorems, TLAPS

Recolectados == IF fase = "recolectar" THEN pos - 1 ELSE Len(programa.tipos)

(* `tipos` is the index of the declarations gone past, and in a program     *)
(* without errors no two of them have one name.                             *)
IndiceFiel ==
  /\ DOMAIN tipos = {programa.tipos[k].nombre : k \in 1 .. Recolectados}
  /\ errores = {} =>
       \A j, k \in 1 .. Recolectados :
         programa.tipos[j].nombre = programa.tipos[k].nombre => j = k

(* What the checks of a class without errors establish: its base is another *)
(* class, and if it is not abstract it has no abstract method and all those *)
(* of its base by name.                                                     *)
ClaseSana(p, t) ==
  /\ t.padre = "" \/ (t.padre \in Declarados(p) /\ Declaracion(p, t.padre).clase = "clase")
  /\ ~t.abstracta =>
       /\ \A m \in ToSet(t.metodos) : ~m.abstracto
       /\ t.padre \in Declarados(p) =>
            \A m \in ToSet(Declaracion(p, t.padre).metodos) : m.abstracto => Tiene(t, m.nombre)
Visitada(k) ==
  \/ fase \in {"generar", "compilado"}
  \/ fase = "visitar" /\ k < pos
  \/ fase = "usar" /\ k <= pos
DeclaracionesBien ==
  errores = {} =>
    \A k \in 1 .. Len(programa.tipos) :
      Visitada(k) /\ programa.tipos[k].clase = "clase" => ClaseSana(programa, programa.tipos[k])

(* The expressions that have been looked at are in order.                   *)
Visto(i, m, u) ==
  \/ fase \in {"generar", "compilado"}
  \/ fase \in {"visitar", "usar"} /\ i < pos
  \/ /\ fase = "usar" /\ i = pos
     /\ m < lugar.metodo \/ (m = lugar.metodo /\ u < lugar.uso)
UsoBien(p, x) ==
  /\ Permitido(p, x)
  /\ x.uso.tipo = "nuevo" =>
       x.uso.clase \in Declarados(p) /\ ~Declaracion(p, x.uso.clase).abstracta
UsosBien ==
  errores = {} =>
    \A i \in 1 .. Len(programa.tipos) + 1 : \A m \in 1 .. Len(Cuerpos(programa, i)) :
      \A u \in 1 .. Len(Cuerpos(programa, i)[m]) :
        Visto(i, m, u) =>
          UsoBien(programa, [uso |-> Cuerpos(programa, i)[m][u], tipoActual |-> TipoDe(programa, i)])

(* What the search has climbed past does not declare the member, and what   *)
(* it climbs for permission are ancestors of the class in hand.             *)
Buscados == Cercanos(programa, Actual.clase, Declarantes(programa, Actual.miembro))
BusquedaBien ==
  /\ busqueda.etapa # "no" => fase = "usar" /\ QuedaUso /\ Actual.tipo = "acceso"
  /\ errores = {} /\ busqueda.etapa = "miembro" =>
       Buscados \subseteq Hasta(programa, busqueda.nivel, Declarantes(programa, Actual.miembro))
  /\ errores = {} /\ busqueda.etapa = "permiso" =>
       /\ busqueda.declarante \in Declarados(programa)
       /\ AccesoDe(Declaracion(programa, busqueda.declarante), Actual.miembro) = "protegido"
       /\ Buscados \subseteq {busqueda.declarante}
       /\ busqueda.nivel \in Declarados(programa) =>
            busqueda.nivel \in Ancestros(programa, TipoActual)

(* The chain climbs from the class of the `nuevo` in hand.                  *)
CadenaBien ==
  cadena # <<>> =>
    /\ Generando
    /\ cadena[1] = Actual.clase
    /\ \A i \in 1 .. Len(cadena) : cadena[i] \in Ancestros(programa, Actual.clase)
    /\ \A i \in 1 .. Len(cadena) - 1 : cadena[i + 1] = Declaracion(programa, cadena[i]).padre

(* The object under construction knows its ancestors and has the methods    *)
(* that the base of the last class of the chain gives.                      *)
Retrato(o) ==
  /\ o.clase \in Declarados(programa) /\ ~Declaracion(programa, o.clase).abstracta
  /\ Last(o.ascendencia) = o.clase
  /\ ToSet(o.ascendencia) = Ancestros(programa, o.clase)
ObjetoBien ==
  objeto # SinObjeto =>
    /\ Generando
    /\ objeto.clase = Actual.clase
    /\ Retrato(objeto)
    /\ objeto.metodos =
         Despacho(programa, IF cadena = <<>> THEN objeto.clase
                            ELSE Declaracion(programa, Last(cadena)).padre)

ObjetosBien ==
  \A o \in objetos :
    /\ fase \in {"generar", "compilado"}
    /\ Retrato(o)
    /\ o.metodos = Despacho(programa, o.clase)

Sitio ==
  /\ fase \in {"recolectar", "usar", "generar", "compilado"} => pos <= Len(programa.tipos) + 1
  /\ fase \in {"generar", "compilado"} => errores = {}

Inv ==
  /\ TypeOK /\ Sitio /\ IndiceFiel /\ DeclaracionesBien /\ UsosBien
  /\ BusquedaBien /\ CadenaBien /\ ObjetoBien /\ ObjetosBien

-----------------------------------------------------------------------------
(* The types reached from one.                                             *)

(* The least set has where it starts, the bases of what is not in S, and   *)
(* nothing that some such set has not.                                     *)
LEMMA HastaEsMinimo ==
  ASSUME NEW p, NEW n, NEW S
  PROVE  /\ Hasta(p, n, S) \subseteq Declarados(p)
         /\ {n} \cap Declarados(p) \subseteq Hasta(p, n, S)
         /\ \A x \in Hasta(p, n, S) \ S : Padres(p, x) \subseteq Hasta(p, n, S)
         /\ \A H \in SUBSET Declarados(p) :
              {n} \cap Declarados(p) \subseteq H /\ (\A x \in H \ S : Padres(p, x) \subseteq H)
                => Hasta(p, n, S) \subseteq H
<1>1. \A x : Padres(p, x) \subseteq Declarados(p)
  BY DEF Padres
<1> QED BY <1>1 DEF Hasta

(* A type of S is the nearest one to itself.                               *)
LEMMA HastaEnS ==
  ASSUME NEW p, NEW S, NEW c \in S, c \in Declarados(p)
  PROVE  Hasta(p, c, S) = {c}
<1>1. Hasta(p, c, S) \subseteq {c}
  <2>1. {c} \in SUBSET Declarados(p) /\ {c} \ S = {}
    OBVIOUS
  <2> QED BY <2>1, HastaEsMinimo
<1> QED BY <1>1, HastaEsMinimo

(* From a name without a type nothing is reached.                          *)
LEMMA HastaDeNadie ==
  ASSUME NEW p, NEW S, NEW n, n \notin Declarados(p)
  PROVE  Hasta(p, n, S) = {}
<1>1. {} \in SUBSET Declarados(p) /\ {n} \cap Declarados(p) = {}
  OBVIOUS
<1>2. Hasta(p, n, S) \subseteq {}
  BY <1>1, HastaEsMinimo
<1> QED BY <1>2

(* From a type out of S one climbs to its base.                            *)
LEMMA HastaSube ==
  ASSUME NEW p, NEW S, NEW n, NEW q, n \notin S, Padres(p, n) = {q} \cap Declarados(p)
  PROVE  /\ Hasta(p, n, S) \subseteq {n} \cup Hasta(p, q, S)
         /\ n \in Declarados(p) => Hasta(p, q, S) \subseteq Hasta(p, n, S)
         /\ n \in Declarados(p) => Cercanos(p, n, S) = Cercanos(p, q, S)
<1>1. Hasta(p, n, S) \subseteq {n} \cup Hasta(p, q, S)
  <2> DEFINE H == ({n} \cap Declarados(p)) \cup Hasta(p, q, S)
  <2>1. H \in SUBSET Declarados(p) /\ {n} \cap Declarados(p) \subseteq H
    BY HastaEsMinimo
  <2>2. \A x \in H \ S : Padres(p, x) \subseteq H
    <3> SUFFICES ASSUME NEW x \in H \ S
                 PROVE  Padres(p, x) \subseteq H
      OBVIOUS
    <3>1. CASE x = n
      BY <3>1, HastaEsMinimo
    <3>2. CASE x \in Hasta(p, q, S)
      BY <3>2, HastaEsMinimo
    <3> QED BY <3>1, <3>2
  <2>3. Hasta(p, n, S) \subseteq H
    <3> HIDE DEF H
    <3> QED BY <2>1, <2>2, HastaEsMinimo
  <2> QED BY <2>3
<1>2. ASSUME n \in Declarados(p)
      PROVE  Hasta(p, q, S) \subseteq Hasta(p, n, S)
  <2> DEFINE H == Hasta(p, n, S)
  <2>1. /\ H \in SUBSET Declarados(p) /\ n \in H
        /\ \A x \in H \ S : Padres(p, x) \subseteq H
    BY <1>2, HastaEsMinimo
  <2>2. {q} \cap Declarados(p) \subseteq H
    BY <2>1
  <2> HIDE DEF H
  <2>3. Hasta(p, q, S) \subseteq H
    BY <2>1, <2>2, HastaEsMinimo
  <2> QED BY <2>3 DEF H
<1> QED BY <1>1, <1>2 DEF Cercanos

(* In a program where no two types have one name, a name has its type.     *)
LEMMA DeclaracionUnica ==
  ASSUME NEW p, p.tipos \in Seq(TipoDef), NEW k \in 1 .. Len(p.tipos),
         \A i, j \in 1 .. Len(p.tipos) : p.tipos[i].nombre = p.tipos[j].nombre => i = j
  PROVE  Declaracion(p, p.tipos[k].nombre) = p.tipos[k]
<1>1. {i \in 1 .. Len(p.tipos) : p.tipos[i].nombre = p.tipos[k].nombre} = {k}
  OBVIOUS
<1>2. Min({k}) = k
  BY DEF Min
<1> QED BY <1>1, <1>2 DEF Declaracion, SelectInSeq

-----------------------------------------------------------------------------
(* The expressions of a program.                                           *)

(* A declaration has a name and methods with bodies.                       *)
LEMMA TipoDefTipo ==
  ASSUME NEW t \in TipoDef
  PROVE  /\ t.nombre \in Nombres /\ t.padre \in Nombres \cup {""}
         /\ t.clase # "clase" => t.padre = ""
         /\ t.clase \in {"clase", "estructura", "interfaz"} /\ t.abstracta \in BOOLEAN
         /\ t.metodos \in Seq(Metodo)
BY DEF TipoDef

(* The fields of a method.                                                 *)
LEMMA MetodoTipo ==
  ASSUME NEW m \in Metodo
  PROVE  /\ m.nombre \in Nombres /\ m.cuerpo \in Seq(Uso)
         /\ m.abstracto \in BOOLEAN /\ m.estatico \in BOOLEAN
BY DEF Metodo

(* The elements of a sequence, by their places.                            *)
LEMMA EnLugar ==
  ASSUME NEW T, NEW s \in Seq(T)
  PROVE  /\ Len(s) \in Nat /\ DOMAIN s = 1 .. Len(s)
         /\ ToSet(s) = {s[k] : k \in 1 .. Len(s)}
         /\ \A k \in 1 .. Len(s) : s[k] \in T
         /\ \A x \in ToSet(s) : x \in T /\ \E k \in 1 .. Len(s) : x = s[k]
BY DEF ToSet

(* Bodies are sequences of expressions, each in a type or in none.         *)
LEMMA CuerposTipo ==
  ASSUME NEW p \in Programa, NEW i \in 1 .. Len(p.tipos) + 1
  PROVE  /\ Cuerpos(p, i) \in Seq(Seq(Uso))
         /\ TipoDe(p, i) \in Declarados(p) \cup {""}
         /\ Declarados(p) \subseteq Nombres
<1>1. p.tipos \in Seq(TipoDef) /\ p.cuerpo \in Seq(Uso)
  BY DEF Programa
<1>2. ASSUME NEW k \in 1 .. Len(p.tipos)
      PROVE  /\ p.tipos[k].nombre \in Declarados(p) /\ p.tipos[k].nombre \in Nombres
             /\ p.tipos[k].metodos \in Seq(Metodo)
  <2>1. p.tipos[k] \in TipoDef /\ p.tipos[k] \in ToSet(p.tipos)
    BY <1>1, EnLugar
  <2> QED BY <2>1, TipoDefTipo DEF Declarados
<1>3. Declarados(p) \subseteq Nombres
  <2>1. \A t \in ToSet(p.tipos) : t \in TipoDef
    BY <1>1, EnLugar
  <2> QED BY <2>1, TipoDefTipo DEF Declarados
<1>4. Cuerpos(p, i) \in Seq(Seq(Uso))
  <2>1. CASE i > Len(p.tipos)
    BY <1>1, <2>1 DEF Cuerpos
  <2>2. CASE i \in 1 .. Len(p.tipos)
    <3>1. \A m \in 1 .. Len(p.tipos[i].metodos) : p.tipos[i].metodos[m].cuerpo \in Seq(Uso)
      BY <1>2, <2>2, MetodoTipo
    <3> QED BY <1>1, <1>2, <2>2, <3>1 DEF Cuerpos
  <2> QED BY <1>1, <2>1, <2>2
<1>5. TipoDe(p, i) \in Declarados(p) \cup {""}
  <2>1. i > Len(p.tipos) \/ i \in 1 .. Len(p.tipos)
    BY <1>1
  <2> QED BY <1>2, <2>1 DEF TipoDe
<1> QED BY <1>3, <1>4, <1>5

(* Every expression has a place.                                           *)
LEMMA UsosConLugar ==
  ASSUME NEW p \in Programa, NEW x \in Usos(p)
  PROVE  \E i \in 1 .. Len(p.tipos) + 1 : \E m \in 1 .. Len(Cuerpos(p, i)) :
           \E u \in 1 .. Len(Cuerpos(p, i)[m]) :
             x = [uso |-> Cuerpos(p, i)[m][u], tipoActual |-> TipoDe(p, i)]
<1>1. p.tipos \in Seq(TipoDef) /\ p.cuerpo \in Seq(Uso)
  BY DEF Programa
<1>0. Len(p.tipos) \in Nat
  BY <1>1
<1>2. CASE \E u \in ToSet(p.cuerpo) : x = [uso |-> u, tipoActual |-> ""]
  <2>1. PICK u \in DOMAIN p.cuerpo : x = [uso |-> p.cuerpo[u], tipoActual |-> ""]
    BY <1>2 DEF ToSet
  <2>2. /\ Len(p.tipos) + 1 \in 1 .. Len(p.tipos) + 1
        /\ Cuerpos(p, Len(p.tipos) + 1) = <<p.cuerpo>> /\ TipoDe(p, Len(p.tipos) + 1) = ""
    <3>1. Len(p.tipos) + 1 > Len(p.tipos)
      BY <1>0
    <3>2. Len(p.tipos) + 1 \in 1 .. Len(p.tipos) + 1
      BY <1>0
    <3>3. Cuerpos(p, Len(p.tipos) + 1) = <<p.cuerpo>>
      BY <3>1 DEF Cuerpos
    <3>4. TipoDe(p, Len(p.tipos) + 1) = ""
      BY <3>1 DEF TipoDe
    <3> QED BY <3>2, <3>3, <3>4
  <2>3. 1 \in 1 .. Len(<<p.cuerpo>>) /\ <<p.cuerpo>>[1] = p.cuerpo /\ u \in 1 .. Len(p.cuerpo)
    BY <1>1
  <2> QED BY <2>1, <2>2, <2>3
<1>3. ASSUME NEW t \in ToSet(p.tipos), t.clase # "interfaz", NEW c \in ToSet(t.metodos),
             x \in [uso : ToSet(c.cuerpo), tipoActual : {t.nombre}]
      PROVE  \E i \in 1 .. Len(p.tipos) + 1 : \E m \in 1 .. Len(Cuerpos(p, i)) :
               \E u \in 1 .. Len(Cuerpos(p, i)[m]) :
                 x = [uso |-> Cuerpos(p, i)[m][u], tipoActual |-> TipoDe(p, i)]
  <2>1. PICK i \in 1 .. Len(p.tipos) : t = p.tipos[i]
    BY <1>1 DEF ToSet
  <2>2. t.metodos \in Seq(Metodo)
    <3>1. p.tipos[i] \in TipoDef
      BY <1>1
    <3> QED BY <2>1, <3>1, TipoDefTipo
  <2>3. PICK m \in 1 .. Len(t.metodos) : c = t.metodos[m]
    BY <1>3, <2>2 DEF ToSet
  <2>4. c.cuerpo \in Seq(Uso)
    BY <2>2, <2>3, MetodoTipo
  <2>5. PICK u \in 1 .. Len(c.cuerpo) : x = [uso |-> c.cuerpo[u], tipoActual |-> t.nombre]
    BY <1>3, <2>4 DEF ToSet
  <2>6. /\ Cuerpos(p, i) = [k \in 1 .. Len(t.metodos) |-> t.metodos[k].cuerpo]
        /\ TipoDe(p, i) = t.nombre
    <3>1. ~(i > Len(p.tipos))
      BY <1>0
    <3>2. TipoDe(p, i) = t.nombre
      BY <2>1, <3>1 DEF TipoDe
    <3> QED BY <1>3, <2>1, <3>1, <3>2 DEF Cuerpos
  <2>7. Len(Cuerpos(p, i)) = Len(t.metodos) /\ Cuerpos(p, i)[m] = c.cuerpo
    BY <2>2, <2>3, <2>6
  <2>8. i \in 1 .. Len(p.tipos) + 1
    BY <1>1
  <2> QED BY <2>3, <2>5, <2>6, <2>7, <2>8
<1>4. \/ \E u \in ToSet(p.cuerpo) : x = [uso |-> u, tipoActual |-> ""]
      \/ \E t \in ToSet(p.tipos) : t.clase # "interfaz" /\ \E c \in ToSet(t.metodos) :
           x \in [uso : ToSet(c.cuerpo), tipoActual : {t.nombre}]
  <2> DEFINE En(t, c) == [uso : ToSet(c.cuerpo), tipoActual : {t.nombre}]
             De(t) == UNION {En(t, c) : c \in ToSet(t.metodos)}
             Sueltos == {[uso |-> u, tipoActual |-> ""] : u \in ToSet(p.cuerpo)}
  <2>1. Usos(p) = Sueltos \cup UNION {De(t) : t \in {y \in ToSet(p.tipos) : y.clase # "interfaz"}}
    BY DEF Usos
  <2>2. x \in Sueltos \/ \E t \in ToSet(p.tipos) : t.clase # "interfaz" /\ x \in De(t)
    <3> HIDE DEF De, Sueltos
    <3> QED BY <2>1
  <2>3. ASSUME NEW t, x \in De(t)
        PROVE  \E c \in ToSet(t.metodos) : x \in En(t, c)
    <3> HIDE DEF En
    <3> QED BY <2>3
  <2>4. x \in Sueltos => \E u \in ToSet(p.cuerpo) : x = [uso |-> u, tipoActual |-> ""]
    OBVIOUS
  <2> HIDE DEF De, Sueltos
  <2> QED BY <2>2, <2>3, <2>4
<1> QED BY <1>2, <1>3, <1>4

(* The expression in hand.                                                 *)
LEMMA ActualTipo ==
  ASSUME TypeOK, QuedaUso, pos <= Len(programa.tipos) + 1
  PROVE  /\ pos \in 1 .. Len(programa.tipos) + 1
         /\ lugar.metodo \in 1 .. Len(Cuerpos(programa, pos))
         /\ lugar.uso \in 1 .. Len(Cuerpos(programa, pos)[lugar.metodo])
         /\ Actual \in Uso
<1>1. programa \in Programa /\ programa.tipos \in Seq(TipoDef)
  BY DEF TypeOK, Programa
<1>2. pos \in 1 .. Len(programa.tipos) + 1
  BY <1>1 DEF TypeOK
<1>3. Cuerpos(programa, pos) \in Seq(Seq(Uso))
  BY <1>1, <1>2, CuerposTipo
<1>4. lugar.metodo \in Nat \ {0} /\ lugar.uso \in Nat \ {0}
  BY DEF TypeOK
<1> QED BY <1>2, <1>3, <1>4 DEF QuedaUso, QuedaMetodo, Actual

-----------------------------------------------------------------------------
(* The index of declarations.                                              *)

(* When they have all been gone past without errors, `tipos` has the       *)
(* declaration of each name.                                               *)
LEMMA TiposSonDeclaraciones ==
  ASSUME TypeOK, IndiceFiel, errores = {}, fase # "recolectar"
  PROVE  /\ DOMAIN tipos = Declarados(programa)
         /\ \A k \in 1 .. Len(programa.tipos) :
              Declaracion(programa, programa.tipos[k].nombre) = programa.tipos[k]
         /\ \A n \in Declarados(programa) :
              /\ tipos[n] = Declaracion(programa, n)
              /\ tipos[n] \in TipoDef /\ tipos[n].nombre = n
<1>1. programa.tipos \in Seq(TipoDef)
  BY DEF TypeOK, Programa
<1>2. \A j, k \in 1 .. Len(programa.tipos) :
        programa.tipos[j].nombre = programa.tipos[k].nombre => j = k
  BY DEF IndiceFiel, Recolectados
<1>3. DOMAIN tipos = Declarados(programa)
  BY <1>1 DEF IndiceFiel, Recolectados, Declarados, ToSet
<1>4. \A k \in 1 .. Len(programa.tipos) :
        Declaracion(programa, programa.tipos[k].nombre) = programa.tipos[k]
  BY <1>1, <1>2, DeclaracionUnica
<1>5. ASSUME NEW n \in Declarados(programa)
      PROVE  /\ tipos[n] = Declaracion(programa, n)
             /\ tipos[n] \in TipoDef /\ tipos[n].nombre = n
  <2>1. tipos[n] \in ToSet(programa.tipos) /\ tipos[n].nombre = n
    BY <1>3, <1>5 DEF TypeOK
  <2>2. PICK k \in 1 .. Len(programa.tipos) : tipos[n] = programa.tipos[k]
    BY <1>1, <2>1 DEF ToSet
  <2> QED BY <1>1, <1>4, <2>1, <2>2
<1> QED BY <1>3, <1>4, <1>5

-----------------------------------------------------------------------------
(* The invariant holds at the start.                                       *)
LEMMA InvAlEmpezar ==
  ASSUME Init
  PROVE  Inv
<1> USE DEF Init
<1>1. programa \in Programa /\ programa.tipos \in Seq(TipoDef)
  BY ProgramasAssumption DEF Programa
<1>2. TypeOK
  <2>1. DOMAIN tipos = {} /\ cadena \in Seq(Nombres) /\ Len(programa.tipos) \in Nat
    BY <1>1
  <2>2. busqueda \in Busqueda /\ lugar \in [metodo : Nat \ {0}, uso : Nat \ {0}]
    <3>1. SinBusqueda \in Busqueda
      BY DEF SinBusqueda, Busqueda
    <3>2. Principio \in [metodo : Nat \ {0}, uso : Nat \ {0}]
      BY DEF Principio
    <3> QED BY <3>1, <3>2
  <2>3. pos \in 1 .. Len(programa.tipos) + 2
    BY <2>1
  <2> HIDE DEF Init
  <2>4. fase = "recolectar" /\ objeto = SinObjeto /\ objetos = {}
    BY DEF Init
  <2> QED BY <1>1, <2>1, <2>2, <2>3, <2>4 DEF TypeOK
<1>3. IndiceFiel
  BY DEF IndiceFiel, Recolectados
<1>4. DeclaracionesBien /\ UsosBien
  BY DEF DeclaracionesBien, Visitada, UsosBien, Visto
<1>5. BusquedaBien /\ CadenaBien /\ ObjetoBien /\ ObjetosBien
  BY DEF BusquedaBien, CadenaBien, ObjetoBien, ObjetosBien, SinBusqueda
<1>6. Sitio
  BY <1>1 DEF Sitio
<1> QED BY <1>2, <1>3, <1>4, <1>5, <1>6 DEF Inv

-----------------------------------------------------------------------------
(* What no step does.                                                      *)

Recoge == RecolectarTipo \/ FinRecolectar
Visita == VisitarTipo \/ VisitarCuerpo \/ OtroMetodo \/ FinVisitar \/ FinAnalisis
Mira   == VisitarNuevo \/ VisitarEs \/ EmpezarAcceso \/ NoEncontrado \/ EncontradoSinMas
            \/ FinPermiso
Sigue  == SubirBusqueda \/ EncontradoProtegido \/ SubirPermiso
Genera == Pasar \/ OtraDeclaracion \/ SubirCadena \/ Crear \/ RegistrarClase \/ Construir
            \/ FinGenerar

(* A step is of one of the five groups, or changes nothing.                *)
LEMMA PorGrupos ==
  ASSUME [Next]_vars
  PROVE  Recoge \/ Visita \/ Mira \/ Sigue \/ Genera \/ UNCHANGED vars
BY DEF Next, Recoge, Visita, Mira, Sigue, Genera

(* The program stays, errors are not taken back, and the index is written  *)
(* in its phase only.                                                      *)
LEMMA Marco ==
  ASSUME [Next]_vars
  PROVE  /\ programa' = programa /\ errores \subseteq errores'
         /\ fase # "recolectar" => tipos' = tipos /\ fase' # "recolectar"
<1> USE DEF vars, analisis, generacion
<1>1. CASE Recoge
  BY <1>1 DEF Recoge, RecolectarTipo, FinRecolectar
<1>2. CASE Visita
  BY <1>2 DEF Visita, VisitarTipo, VisitarCuerpo, OtroMetodo, FinVisitar, FinAnalisis
<1>3. CASE Mira
  BY <1>3 DEF Mira, VisitarNuevo, VisitarEs, EmpezarAcceso, NoEncontrado, EncontradoSinMas,
         FinPermiso, Usa, Encontrado, Buscando
<1>4. CASE Sigue
  BY <1>4 DEF Sigue, SubirBusqueda, EncontradoProtegido, SubirPermiso
<1>5. CASE Genera
  BY <1>5 DEF Genera, Pasar, OtraDeclaracion, SubirCadena, Crear, RegistrarClase, Construir,
         FinGenerar
<1> QED BY <1>1, <1>2, <1>3, <1>4, <1>5, PorGrupos

-----------------------------------------------------------------------------
(* Types and places.                                                       *)

(* Every name in the index has its declaration, whose base is a name.      *)
LEMMA EntradaTipo ==
  ASSUME TypeOK, NEW n \in DOMAIN tipos
  PROVE  tipos[n] \in TipoDef /\ tipos[n].padre \in Nombres \cup {""} /\ n \in Nombres
<1>1. programa.tipos \in Seq(TipoDef) /\ tipos[n] \in ToSet(programa.tipos)
  BY DEF TypeOK, Programa
<1>2. tipos[n] \in TipoDef
  BY <1>1, EnLugar
<1> QED BY <1>2, TipoDefTipo DEF TypeOK

(* The expression in hand names a type.                                    *)
LEMMA ClaseTipo ==
  ASSUME Inv, QuedaUso, fase \in {"usar", "generar"}
  PROVE  /\ Actual \in Uso /\ Actual.clase \in Nombres
         /\ TipoActual \in Declarados(programa) \cup {""} /\ TipoActual \in Nombres \cup {""}
<1>1. Actual \in Uso /\ pos \in 1 .. Len(programa.tipos) + 1 /\ programa \in Programa
  BY ActualTipo DEF Inv, Sitio, TypeOK
<1>2. Actual.clase \in Nombres
  BY <1>1 DEF Uso
<1> QED BY <1>1, <1>2, CuerposTipo DEF TipoActual

(* Where the walk is.                                                      *)
LugarTipo ==
  /\ fase \in {"recolectar", "visitar", "usar", "generar", "compilado", "rechazado"}
  /\ pos \in 1 .. Len(programa.tipos) + 2
  /\ lugar \in [metodo : Nat \ {0}, uso : Nat \ {0}]

(* A step keeps the cursor within the program.                             *)
LEMMA LugarSigue ==
  ASSUME Inv, [Next]_vars
  PROVE  LugarTipo' /\ Sitio'
<1> USE DEF vars, analisis, generacion, Principio, Hecho
<1>1. /\ LugarTipo /\ Sitio /\ programa' = programa /\ Len(programa.tipos) \in Nat
      /\ Len(programa.tipos)' = Len(programa.tipos)
  BY Marco DEF Inv, TypeOK, LugarTipo, Programa
<1> DEFINE N == Len(programa.tipos)
<1>2. CASE Recoge
  <2>1. CASE RecolectarTipo
    <3>1. /\ fase = "recolectar" /\ fase' = fase /\ lugar' = lugar
          /\ pos <= Len(programa.tipos) /\ pos' = pos + 1
      BY <2>1 DEF RecolectarTipo
    <3> QED BY <1>1, <3>1 DEF LugarTipo, Sitio
  <2>2. CASE FinRecolectar
    BY <1>1, <2>2 DEF FinRecolectar, LugarTipo, Sitio
  <2> QED BY <1>2, <2>1, <2>2 DEF Recoge
<1>3. CASE Visita
  BY <1>1, <1>3 DEF Visita, VisitarTipo, VisitarCuerpo, OtroMetodo, FinVisitar, FinAnalisis,
         LugarTipo, Sitio
<1>4. CASE Mira
  <2>1. fase = "usar"
    BY <1>4 DEF Mira, VisitarNuevo, VisitarEs, EmpezarAcceso, NoEncontrado, EncontradoSinMas,
           FinPermiso, Usa, Encontrado, Buscando, Inv, BusquedaBien
  <2>2. fase' = fase /\ pos' = pos /\ (lugar' = lugar \/ Hecho)
    BY <1>4 DEF Mira, VisitarNuevo, VisitarEs, EmpezarAcceso, NoEncontrado, EncontradoSinMas,
           FinPermiso, Usa, Encontrado, Buscando
  <2> QED BY <1>1, <2>1, <2>2 DEF LugarTipo, Sitio
<1>5. CASE Sigue
  BY <1>1, <1>5 DEF Sigue, SubirBusqueda, EncontradoProtegido, SubirPermiso, LugarTipo, Sitio
<1>6. CASE Genera
  BY <1>1, <1>6 DEF Genera, Pasar, OtraDeclaracion, SubirCadena, Crear, RegistrarClase, Construir,
         FinGenerar, Generando, LugarTipo, Sitio
<1> QED BY <1>1, <1>2, <1>3, <1>4, <1>5, <1>6, PorGrupos DEF LugarTipo, Sitio

(* The index grows with each declaration, and only then.                   *)
IndiceTipo ==
  /\ DOMAIN tipos \subseteq Nombres
  /\ \A n \in DOMAIN tipos : tipos[n] \in ToSet(programa.tipos) /\ tipos[n].nombre = n

(* A step keeps the table of types: those gathered and no others.          *)
LEMMA IndiceSigue ==
  ASSUME Inv, [Next]_vars
  PROVE  IndiceTipo' /\ IndiceFiel'
<1>1. /\ IndiceTipo /\ IndiceFiel /\ programa' = programa /\ errores \subseteq errores'
      /\ programa.tipos \in Seq(TipoDef) /\ Len(programa.tipos) \in Nat
      /\ pos \in 1 .. Len(programa.tipos) + 2
      /\ fase = "recolectar" => pos <= Len(programa.tipos) + 1
  BY Marco DEF Inv, TypeOK, IndiceTipo, Programa, Sitio
<1>2. ASSUME tipos' = tipos, Recolectados' = Recolectados
      PROVE  IndiceTipo' /\ IndiceFiel'
  BY <1>1, <1>2 DEF IndiceTipo, IndiceFiel
<1>3. CASE RecolectarTipo
  <2> DEFINE t == programa.tipos[pos]
  <2>1. /\ fase = "recolectar" /\ fase' = fase /\ pos \in 1 .. Len(programa.tipos) /\ pos' = pos + 1
    <3>1. fase = "recolectar" /\ fase' = fase /\ pos <= Len(programa.tipos) /\ pos' = pos + 1
      BY <1>3 DEF RecolectarTipo
    <3> QED BY <1>1, <3>1
  <2>2. Recolectados = pos - 1 /\ Recolectados' = pos
    BY <1>1, <2>1 DEF Recolectados
  <2>3. t \in TipoDef /\ t \in ToSet(programa.tipos) /\ t.nombre \in Nombres
    <3>1. t \in TipoDef /\ t \in ToSet(programa.tipos)
      BY <1>1, <2>1, EnLugar
    <3> QED BY <3>1, TipoDefTipo
  <2>4. {programa.tipos[k].nombre : k \in 1 .. pos}
          = {programa.tipos[k].nombre : k \in 1 .. pos - 1} \cup {t.nombre}
    BY <1>1
  <2>5. DOMAIN tipos = {programa.tipos[k].nombre : k \in 1 .. pos - 1}
    BY <1>1, <2>2 DEF IndiceFiel
  <2>6. CASE Definido(t.nombre)
    <3>1. tipos' = tipos /\ errores' # {}
      BY <1>3, <2>6 DEF RecolectarTipo
    <3>2. DOMAIN tipos = {programa.tipos[k].nombre : k \in 1 .. pos}
      BY <2>4, <2>5, <2>6 DEF Definido
    <3>3. IndiceTipo'
      BY <1>1, <3>1 DEF IndiceTipo
    <3>4. DOMAIN tipos' = {programa'.tipos[k].nombre : k \in 1 .. Recolectados'}
      BY <1>1, <2>2, <3>1, <3>2
    <3>5. IndiceFiel'
      BY <3>1, <3>4 DEF IndiceFiel
    <3> QED BY <3>3, <3>5
  <2>7. CASE ~Definido(t.nombre)
    <3>1. tipos' = [n \in DOMAIN tipos \cup {t.nombre} |-> IF n = t.nombre THEN t ELSE tipos[n]]
      BY <1>3, <2>7 DEF RecolectarTipo
    <3>2. DOMAIN tipos' = {programa.tipos[k].nombre : k \in 1 .. pos}
      BY <2>4, <2>5, <3>1
    <3>3. IndiceTipo'
      BY <1>1, <2>3, <3>1 DEF IndiceTipo
    <3>4. ASSUME errores' = {}, NEW j \in 1 .. pos, NEW k \in 1 .. pos,
                 programa.tipos[j].nombre = programa.tipos[k].nombre
          PROVE  j = k
      <4>1. \A i \in 1 .. pos - 1 : programa.tipos[i].nombre # t.nombre
        BY <2>5, <2>7 DEF Definido
      <4>2. (j = pos /\ k = pos) \/ j \in 1 .. pos - 1 \/ k \in 1 .. pos - 1
        BY <2>1, <3>4
      <4>3. j \in 1 .. pos - 1 => k \in 1 .. pos - 1
        BY <1>1, <3>4, <4>1
      <4>4. k \in 1 .. pos - 1 => j \in 1 .. pos - 1
        BY <1>1, <3>4, <4>1
      <4>5. errores = {}
        BY <1>1, <3>4
      <4> QED BY <1>1, <2>2, <3>4, <4>2, <4>3, <4>4, <4>5 DEF IndiceFiel
    <3> QED BY <1>1, <2>2, <3>2, <3>3, <3>4 DEF IndiceFiel
  <2> QED BY <2>6, <2>7
<1>4. CASE FinRecolectar
  <2>1. /\ fase = "recolectar" /\ fase' = "visitar" /\ pos = Len(programa.tipos) + 1
    BY <1>1, <1>4 DEF FinRecolectar
  <2>2. Recolectados' = Recolectados
    BY <1>1, <2>1 DEF Recolectados
  <2> QED BY <1>2, <1>4, <2>2 DEF FinRecolectar, analisis
<1>5. CASE fase # "recolectar"
  <2>1. tipos' = tipos /\ fase' # "recolectar"
    BY <1>5, Marco
  <2>2. Recolectados' = Recolectados
    BY <1>1, <1>5, <2>1 DEF Recolectados
  <2> QED BY <1>2, <2>1, <2>2
<1>6. CASE UNCHANGED vars
  <2>1. Recolectados' = Recolectados /\ tipos' = tipos
    BY <1>6 DEF Recolectados, vars, analisis
  <2> QED BY <1>2, <2>1
<1>7. CASE fase = "recolectar" /\ (Visita \/ Mira \/ Sigue \/ Genera)
  BY <1>7 DEF Visita, VisitarTipo, VisitarCuerpo, OtroMetodo, FinVisitar, FinAnalisis,
         Mira, VisitarNuevo, VisitarEs, EmpezarAcceso, NoEncontrado, EncontradoSinMas,
         FinPermiso, Usa, Encontrado, Buscando, Inv, BusquedaBien,
         Sigue, SubirBusqueda, EncontradoProtegido, SubirPermiso,
         Genera, Pasar, OtraDeclaracion, SubirCadena, Crear, RegistrarClase, Construir, FinGenerar,
         Generando
<1> QED BY <1>3, <1>4, <1>5, <1>6, <1>7, PorGrupos DEF Recoge

(* A step keeps the type of the search.                                    *)
LEMMA BusquedaTipoSigue ==
  ASSUME Inv, [Next]_vars
  PROVE  (busqueda \in Busqueda)'
<1> USE DEF vars, analisis, generacion
<1>1. /\ busqueda \in Busqueda /\ SinBusqueda \in Busqueda
      /\ busqueda.nivel \in Nombres \cup {""}
  BY DEF Inv, TypeOK, SinBusqueda, Busqueda
<1>2. CASE Recoge
  BY <1>1, <1>2 DEF Recoge, RecolectarTipo, FinRecolectar
<1>3. CASE Visita
  BY <1>1, <1>3 DEF Visita, VisitarTipo, VisitarCuerpo, OtroMetodo, FinVisitar, FinAnalisis
<1>4. CASE EmpezarAcceso
  <2>1. Actual.clase \in Nombres
    BY <1>4, ClaseTipo DEF EmpezarAcceso, Usa
  <2>2. busqueda' = [etapa |-> "miembro", nivel |-> Actual.clase, declarante |-> ""]
    BY <1>4 DEF EmpezarAcceso
  <2> QED BY <2>1, <2>2 DEF Busqueda
<1>5. CASE Mira /\ ~EmpezarAcceso
  BY <1>1, <1>5 DEF Mira, VisitarNuevo, VisitarEs, NoEncontrado, EncontradoSinMas, FinPermiso
<1>6. CASE SubirBusqueda \/ SubirPermiso
  <2>1. PICK n \in Nombres \cup {""} : busqueda' = [busqueda EXCEPT !.nivel = n]
    <3>1. CASE SubirBusqueda
      <4>1. /\ busqueda.nivel \in DOMAIN tipos
            /\ busqueda' = [busqueda EXCEPT !.nivel = tipos[busqueda.nivel].padre]
        BY <3>1 DEF SubirBusqueda, Definido
      <4> QED BY <4>1, EntradaTipo DEF Inv
    <3>2. CASE SubirPermiso
      <4>1. busqueda' = [busqueda EXCEPT !.nivel =
                           IF Definido(busqueda.nivel) THEN tipos[busqueda.nivel].padre ELSE ""]
        BY <3>2 DEF SubirPermiso
      <4>2. CASE Definido(busqueda.nivel)
        BY <4>1, <4>2, EntradaTipo DEF Inv, Definido
      <4> QED BY <4>1, <4>2
    <3> QED BY <1>6, <3>1, <3>2
  <2> QED BY <1>1, <2>1 DEF Busqueda
<1>7. CASE EncontradoProtegido
  <2>1. TipoActual \in Nombres \cup {""}
    <3>1. busqueda.etapa # "no"
      BY <1>7 DEF EncontradoProtegido, Encontrado, Buscando
    <3>2. fase = "usar" /\ QuedaUso
      BY <3>1 DEF Inv, BusquedaBien
    <3> QED BY <3>2, ClaseTipo
  <2>2. busqueda' = [etapa |-> "permiso", nivel |-> TipoActual, declarante |-> busqueda.nivel]
    BY <1>7 DEF EncontradoProtegido
  <2> QED BY <1>1, <2>1, <2>2 DEF Busqueda
<1>8. CASE Genera
  BY <1>1, <1>8 DEF Genera, Pasar, OtraDeclaracion, SubirCadena, Crear, RegistrarClase, Construir,
         FinGenerar
<1> QED BY <1>1, <1>2, <1>3, <1>4, <1>5, <1>6, <1>7, <1>8, PorGrupos DEF Sigue

(* Sequences seen from the other end.                                      *)
LEMMA DelReves ==
  ASSUME NEW T, NEW s \in Seq(T), s # <<>>
  PROVE  /\ Reverse(s) \in Seq(T) /\ Len(Reverse(s)) = Len(s)
         /\ ToSet(Reverse(s)) = ToSet(s) /\ Last(Reverse(s)) = s[1]
         /\ Reverse(s) # <<>>
<1>1. Len(s) \in Nat /\ Len(s) > 0
  BY EmptySeq
<1>2. /\ Reverse(s) \in Seq(T) /\ Len(Reverse(s)) = Len(s)
      /\ \A k \in 1 .. Len(s) : Reverse(s)[k] = s[Len(s) - k + 1]
  BY <1>1 DEF Reverse
<1>3. ASSUME NEW k \in 1 .. Len(s)
      PROVE  /\ Len(s) - k + 1 \in 1 .. Len(s) /\ Len(s) - (Len(s) - k + 1) + 1 = k
             /\ Reverse(s)[Len(s) - k + 1] = s[k]
  BY <1>1, <1>2
<1>4. ToSet(Reverse(s)) = ToSet(s)
  <2>1. ToSet(s) = {s[k] : k \in 1 .. Len(s)}
    BY EnLugar
  <2>2. ToSet(Reverse(s)) = {Reverse(s)[k] : k \in 1 .. Len(s)}
    BY <1>2, EnLugar
  <2> HIDE DEF Reverse
  <2>3. \A k \in 1 .. Len(s) : s[k] \in ToSet(Reverse(s))
    BY <1>3, <2>2
  <2>4. \A k \in 1 .. Len(s) : Reverse(s)[k] \in ToSet(s)
    BY <1>2, <1>3, <2>1
  <2> QED BY <2>1, <2>2, <2>3, <2>4
<1>5. Last(Reverse(s)) = s[1]
  BY <1>1, <1>2 DEF Last
<1> QED BY <1>1, <1>2, <1>4, <1>5

(* A sequence without its last element.                                    *)
LEMMA SinUltimo ==
  ASSUME NEW T, NEW s \in Seq(T), s # <<>>
  PROVE  /\ Len(s) \in Nat \ {0} /\ Front(s) \in Seq(T) /\ Len(Front(s)) = Len(s) - 1
         /\ \A k \in 1 .. Len(s) - 1 : Front(s)[k] = s[k]
         /\ Len(s) = 1 => Front(s) = <<>>
<1>1. Len(s) \in Nat \ {0}
  BY EmptySeq
<1>2. \A k \in 1 .. Len(s) - 1 : s[k] \in T
  BY <1>1
<1>3. Front(s) = [k \in 1 .. Len(s) - 1 |-> s[k]]
  BY <1>1 DEF Front
<1>4. Front(s) \in Seq(T) /\ Len(Front(s)) = Len(s) - 1
  BY <1>1, <1>2, <1>3
<1> QED BY <1>1, <1>3, <1>4, EmptySeq

(* The classes of the chain are declared.                                  *)
LEMMA CadenaTipo ==
  ASSUME Inv, cadena # <<>>
  PROVE  /\ fase = "generar" /\ errores = {} /\ QuedaUso /\ Actual.tipo = "nuevo"
         /\ Len(cadena) \in Nat \ {0}
         /\ \A i \in 1 .. Len(cadena) : cadena[i] \in Declarados(programa)
         /\ Last(cadena) \in Declarados(programa)
<1>1. fase = "generar" /\ errores = {} /\ QuedaUso /\ Actual.tipo = "nuevo"
  BY DEF Inv, CadenaBien, Generando, Sitio
<1>2. Len(cadena) \in Nat \ {0}
  BY EmptySeq DEF Inv, TypeOK
<1>3. \A i \in 1 .. Len(cadena) : cadena[i] \in Declarados(programa)
  BY HastaEsMinimo DEF Inv, CadenaBien, Ancestros
<1> QED BY <1>1, <1>2, <1>3 DEF Last

(* What is registered are methods of classes.                              *)
LEMMA RegistrarTipo ==
  ASSUME TypeOK, NEW c \in DOMAIN tipos, NEW ms \in SUBSET (Nombres \X Nombres)
  PROVE  Registrar(ms, c) \in SUBSET (Nombres \X Nombres)
<1>1. c \in Nombres /\ tipos[c].metodos \in Seq(Metodo)
  BY EntradaTipo, TipoDefTipo
<1>2. \A m \in Registra(tipos[c]) : m.nombre \in Nombres
  <2>1. \A m \in ToSet(tipos[c].metodos) : m \in Metodo
    BY <1>1, EnLugar
  <2> QED BY <2>1, MetodoTipo DEF Registra
<1> QED BY <1>1, <1>2 DEF Registrar

GeneracionTipo ==
  /\ cadena \in Seq(Nombres)
  /\ objeto \in Objeto \cup {SinObjeto}
  /\ objetos \subseteq Objeto

(* A step keeps the types of what the back end builds.                     *)
LEMMA GeneracionTipoSigue ==
  ASSUME Inv, [Next]_vars
  PROVE  GeneracionTipo'
<1> USE DEF vars, analisis, generacion
<1>1. GeneracionTipo
  BY DEF Inv, TypeOK, GeneracionTipo
<1>2. ASSUME objeto # SinObjeto, Generando
      PROVE  objeto \in Objeto
  BY <1>1, <1>2 DEF GeneracionTipo
<1>3. CASE SubirCadena
  <2>1. Actual.clase \in Nombres
    BY <1>3, ClaseTipo DEF SubirCadena, Generando
  <2>2. ASSUME cadena # <<>>
        PROVE  tipos[Last(cadena)].padre \in Nombres
    BY <1>3, <2>2 DEF SubirCadena, Sube, EsDe, Definido, Inv, TypeOK
  <2> QED BY <1>1, <1>3, <2>1, <2>2 DEF SubirCadena, GeneracionTipo
<1>4. CASE Crear
  <2>1. Actual.clase \in Nombres
    BY <1>4, ClaseTipo DEF Crear, Generando
  <2>2. cadena # <<>>
    BY <1>4 DEF Crear, Sube
  <2>3. Reverse(cadena) \in Seq(Nombres)
    BY <1>1, <2>2, DelReves DEF GeneracionTipo
  <2>4. [clase |-> Actual.clase, ascendencia |-> Reverse(cadena), metodos |-> {}] \in Objeto
    BY <2>1, <2>3 DEF Objeto
  <2> QED BY <1>1, <1>4, <2>4 DEF Crear, GeneracionTipo
<1>5. CASE RegistrarClase
  <2>1. objeto \in Objeto /\ cadena # <<>>
    BY <1>2, <1>5 DEF RegistrarClase
  <2>2. Last(cadena) \in DOMAIN tipos
    BY <2>1, CadenaTipo, TiposSonDeclaraciones DEF Inv
  <2>3. Registrar(objeto.metodos, Last(cadena)) \in SUBSET (Nombres \X Nombres)
    BY <2>1, <2>2, RegistrarTipo DEF Inv, Objeto
  <2>4. objeto' = [objeto EXCEPT !.metodos = Registrar(objeto.metodos, Last(cadena))]
    BY <1>5 DEF RegistrarClase
  <2>5. objeto' \in Objeto
    BY <2>1, <2>3, <2>4 DEF Objeto
  <2>6. Front(cadena) \in Seq(Nombres)
    BY <1>1, <2>1, SinUltimo DEF GeneracionTipo
  <2> QED BY <1>1, <1>5, <2>5, <2>6 DEF RegistrarClase, GeneracionTipo
<1>6. CASE Construir
  BY <1>1, <1>2, <1>6 DEF Construir, GeneracionTipo
<1>7. CASE generacion' = generacion
  BY <1>1, <1>7 DEF GeneracionTipo
<1>8. Recoge \/ Visita \/ Mira \/ Sigue \/ Pasar \/ OtraDeclaracion \/ FinGenerar
        => generacion' = generacion
  BY DEF Recoge, RecolectarTipo, FinRecolectar,
         Visita, VisitarTipo, VisitarCuerpo, OtroMetodo, FinVisitar, FinAnalisis,
         Mira, VisitarNuevo, VisitarEs, EmpezarAcceso, NoEncontrado, EncontradoSinMas, FinPermiso,
         Sigue, SubirBusqueda, EncontradoProtegido, SubirPermiso,
         Pasar, OtraDeclaracion, FinGenerar
<1> QED BY <1>3, <1>4, <1>5, <1>6, <1>7, <1>8, PorGrupos DEF Genera

(* A step keeps the types of the whole state.                              *)
LEMMA TipoSigue ==
  ASSUME Inv, [Next]_vars
  PROVE  TypeOK'
<1>1. programa' = programa /\ programa \in Programa
  BY Marco DEF Inv, TypeOK
<1> QED BY <1>1, LugarSigue, IndiceSigue, BusquedaTipoSigue, GeneracionTipoSigue
        DEF TypeOK, LugarTipo, IndiceTipo, GeneracionTipo

-----------------------------------------------------------------------------
(* Declarations.                                                           *)

(* A class that the checks find no error in.                               *)
LEMMA SinErroresEsSana ==
  ASSUME Inv, errores = {}, fase # "recolectar", NEW k \in 1 .. Len(programa.tipos),
         programa.tipos[k].clase = "clase", ErroresDe(programa.tipos[k]) = {}
  PROVE  ClaseSana(programa, programa.tipos[k])
<1> DEFINE t == programa.tipos[k]
<1>1. /\ DOMAIN tipos = Declarados(programa)
      /\ Declaracion(programa, t.nombre) = t
      /\ \A n \in Declarados(programa) : tipos[n] = Declaracion(programa, n)
  BY TiposSonDeclaraciones DEF Inv
<1>2. t \in TipoDef /\ t.nombre \in Declarados(programa) /\ t.padre \in Nombres \cup {""}
  <2>1. t \in TipoDef /\ t \in ToSet(programa.tipos)
    BY EnLugar DEF Inv, TypeOK, Programa
  <2> QED BY <2>1, TipoDefTipo DEF Declarados
<1>3. tipos[t.nombre] = t
  BY <1>1, <1>2
<1> HIDE DEF t
<1>4. ErroresDeClase(t) = {}
  BY DEF ErroresDe, t
<1>5. ~(t.padre # "" /\ t.padre # t.nombre /\ ~EsDe(t.padre, "clase")) /\ t.padre # t.nombre
  <2>1. "base desconocida" \notin ErroresDeClase(t) /\ "hereda de si misma" \notin ErroresDeClase(t)
    BY <1>4
  <2> QED BY <2>1 DEF ErroresDeClase
<1>6. t.padre = "" \/ (t.padre \in Declarados(programa) /\ Declaracion(programa, t.padre).clase = "clase")
  BY <1>1, <1>5 DEF EsDe, Definido
<1>7. ~t.abstracta => \A m \in ToSet(t.metodos) : ~m.abstracto
  <2>1. "abstracto en concreta" \notin ErroresDeClase(t)
    BY <1>4
  <2> QED BY <2>1 DEF ErroresDeClase
<1>8. ASSUME ~t.abstracta, t.padre \in Declarados(programa),
             NEW m \in ToSet(Declaracion(programa, t.padre).metodos), m.abstracto
      PROVE  Tiene(t, m.nombre)
  <2>1. "falta metodo" \notin ErroresDeClase(t)
    BY <1>4
  <2>2. \A x \in AbstractosDelPadre(t) \cup MetodosDeInterfaces(t) : Cumple(tipos[t.nombre], x)
    BY <1>8, <2>1 DEF ErroresDeClase
  <2>3. m \in AbstractosDelPadre(t)
    BY <1>1, <1>8 DEF AbstractosDelPadre, Abstracto, Definido
  <2> QED BY <1>3, <2>2, <2>3 DEF Cumple
<1> QED BY <1>6, <1>7, <1>8 DEF ClaseSana, t

(* A step keeps the declarations visited sound.                            *)
LEMMA DeclaracionesSigue ==
  ASSUME Inv, [Next]_vars
  PROVE  DeclaracionesBien'
<1> USE DEF vars, analisis, generacion
<1>1. /\ DeclaracionesBien /\ programa' = programa /\ errores \subseteq errores'
      /\ Len(programa.tipos) \in Nat /\ pos \in Nat
  BY Marco DEF Inv, TypeOK, Programa
<1>2. ASSUME \A k \in 1 .. Len(programa.tipos) : Visitada(k)' => Visitada(k)
      PROVE  DeclaracionesBien'
  BY <1>1, <1>2 DEF DeclaracionesBien
<1>3. CASE VisitarTipo
  <2>1. /\ fase = "visitar" /\ fase' = "usar" /\ pos' = pos /\ pos <= Len(programa.tipos)
        /\ errores' = errores \cup ErroresDe(programa.tipos[pos])
    BY <1>3 DEF VisitarTipo
  <2> SUFFICES ASSUME errores' = {}, NEW k \in 1 .. Len(programa.tipos), Visitada(k)',
                      programa.tipos[k].clase = "clase"
               PROVE  ClaseSana(programa, programa.tipos[k])
    BY <1>1 DEF DeclaracionesBien
  <2>2. errores = {} /\ ErroresDe(programa.tipos[pos]) = {}
    BY <2>1
  <2>3. k < pos \/ k = pos
    BY <1>1, <2>1 DEF Visitada
  <2>4. CASE k < pos
    BY <1>1, <2>1, <2>2, <2>4 DEF DeclaracionesBien, Visitada
  <2>5. CASE k = pos
    BY <2>1, <2>2, <2>5, SinErroresEsSana
  <2> QED BY <2>3, <2>4, <2>5
<1>4. CASE FinVisitar
  <2>1. fase = "usar" /\ fase' = "visitar" /\ pos' = pos + 1
    BY <1>4 DEF FinVisitar
  <2> QED BY <1>1, <1>2, <2>1 DEF Visitada
<1>5. CASE FinRecolectar
  <2>1. fase' = "visitar" /\ pos' = 1
    BY <1>5 DEF FinRecolectar
  <2> QED BY <1>2, <2>1 DEF Visitada
<1>6. CASE FinAnalisis
  <2>1. /\ fase = "visitar" /\ pos = Len(programa.tipos) + 2
        /\ fase' \in {"generar", "rechazado"}
    BY <1>6 DEF FinAnalisis
  <2>2. \A k \in 1 .. Len(programa.tipos) : Visitada(k)
    BY <1>1, <2>1 DEF Visitada
  <2> QED BY <1>2, <2>2
<1>7. CASE VisitarCuerpo
  <2>1. fase = "visitar" /\ pos = Len(programa.tipos) + 1
    BY <1>7 DEF VisitarCuerpo
  <2>2. \A k \in 1 .. Len(programa.tipos) : Visitada(k)
    BY <1>1, <2>1 DEF Visitada
  <2> QED BY <1>2, <2>2
<1>8. CASE RecolectarTipo
  <2>1. fase = "recolectar" /\ fase' = fase
    BY <1>8 DEF RecolectarTipo
  <2> QED BY <1>2, <2>1 DEF Visitada
<1>9. CASE fase' = fase /\ pos' = pos
  BY <1>2, <1>9 DEF Visitada
<1>10. OtroMetodo \/ Mira \/ Sigue => fase' = fase /\ pos' = pos
  BY DEF OtroMetodo,
         Mira, VisitarNuevo, VisitarEs, EmpezarAcceso, NoEncontrado, EncontradoSinMas, FinPermiso,
         Sigue, SubirBusqueda, EncontradoProtegido, SubirPermiso
<1>11. CASE Genera
  <2>1. fase \in {"generar", "compilado"}
    BY <1>11 DEF Genera, Pasar, OtraDeclaracion, SubirCadena, Crear, RegistrarClase, Construir,
           FinGenerar, Generando
  <2> QED BY <1>2, <2>1 DEF Visitada
<1> QED BY <1>3, <1>4, <1>5, <1>6, <1>7, <1>8, <1>9, <1>10, <1>11, PorGrupos DEF Recoge, Visita

-----------------------------------------------------------------------------
(* The search of verificarAccesoMiembro.                                   *)

(* In a program without errors the index leads from a type to its base.    *)
LEMMA EnElIndice ==
  ASSUME Inv, errores = {}, fase # "recolectar"
  PROVE  /\ \A n : Definido(n) <=> n \in Declarados(programa)
         /\ \A n \in Declarados(programa) :
              /\ tipos[n] = Declaracion(programa, n) /\ tipos[n].nombre = n
              /\ tipos[n] \in TipoDef
              /\ tipos[n].padre \in Nombres \cup {""}
              /\ Padres(programa, n) = {tipos[n].padre} \cap Declarados(programa)
         /\ "" \notin Declarados(programa)
<1>1. /\ DOMAIN tipos = Declarados(programa)
      /\ \A n \in Declarados(programa) :
           tipos[n] = Declaracion(programa, n) /\ tipos[n] \in TipoDef /\ tipos[n].nombre = n
  BY TiposSonDeclaraciones DEF Inv
<1>2. "" \notin Declarados(programa)
  BY <1>1, ProgramasAssumption DEF Inv, TypeOK
<1> QED BY <1>1, <1>2, TipoDefTipo DEF Definido, Padres

(* A step that stays at an expression has the same one in hand.            *)
LEMMA MismoSitio ==
  ASSUME programa' = programa, pos' = pos, lugar' = lugar
  PROVE  /\ QuedaUso => QuedaUso'
         /\ Actual' = Actual /\ TipoActual' = TipoActual
BY DEF QuedaUso, QuedaMetodo, Actual, TipoActual

(* While a member is searched for, only the search goes on.                *)
LEMMA BusquedaAjena ==
  ASSUME Inv, Recoge \/ Visita \/ Genera \/ VisitarNuevo \/ VisitarEs
  PROVE  busqueda.etapa = "no" /\ busqueda' = busqueda
<1> USE DEF analisis
<1>1. ASSUME busqueda.etapa # "no"
      PROVE  fase = "usar" /\ QuedaUso
  BY <1>1 DEF Inv, BusquedaBien
<1>2. CASE Recoge
  BY <1>1, <1>2 DEF Recoge, RecolectarTipo, FinRecolectar
<1>3. CASE Visita
  BY <1>1, <1>3 DEF Visita, VisitarTipo, VisitarCuerpo, OtroMetodo, FinVisitar, FinAnalisis, QuedaUso
<1>4. CASE Genera
  BY <1>1, <1>4 DEF Genera, Pasar, OtraDeclaracion, SubirCadena, Crear, RegistrarClase, Construir,
         FinGenerar, Generando
<1>5. CASE VisitarNuevo \/ VisitarEs
  BY <1>5 DEF VisitarNuevo, VisitarEs, Usa
<1> QED BY <1>2, <1>3, <1>4, <1>5

(* A step keeps the search on the way to the nearest that has the name.    *)
LEMMA BusquedaSigue ==
  ASSUME Inv, [Next]_vars
  PROVE  BusquedaBien'
<1>1. BusquedaBien /\ programa' = programa /\ errores \subseteq errores'
  BY Marco DEF Inv
<1> DEFINE S == Declarantes(programa, Actual.miembro)
<1>2. ASSUME busqueda'.etapa = "no"
      PROVE  BusquedaBien'
  BY <1>2 DEF BusquedaBien
<1>3. CASE UNCHANGED vars
  <2>1. /\ errores' = errores /\ busqueda' = busqueda /\ fase' = fase /\ pos' = pos /\ lugar' = lugar
    BY <1>3 DEF vars, analisis
  <2>2. Actual' = Actual /\ TipoActual' = TipoActual /\ (QuedaUso => QuedaUso')
    BY <1>1, <2>1, MismoSitio
  <2>3. Buscados' = Buscados
    BY <1>1, <2>2 DEF Buscados
  <2> QED BY <1>1, <2>1, <2>2, <2>3 DEF BusquedaBien
<1>4. CASE Recoge \/ Visita \/ Genera \/ VisitarNuevo \/ VisitarEs
  BY <1>2, <1>4, BusquedaAjena
<1>5. CASE NoEncontrado \/ EncontradoSinMas \/ FinPermiso
  <2>1. busqueda' = SinBusqueda
    BY <1>5 DEF NoEncontrado, EncontradoSinMas, FinPermiso
  <2>2. SinBusqueda.etapa = "no"
    BY DEF SinBusqueda
  <2> QED BY <1>2, <2>1, <2>2
<1>6. ASSUME EmpezarAcceso \/ Sigue
      PROVE  /\ errores' = errores /\ fase' = fase /\ fase = "usar" /\ QuedaUso /\ QuedaUso'
             /\ Actual' = Actual /\ TipoActual' = TipoActual /\ Actual.tipo = "acceso"
             /\ Buscados' = Buscados /\ S' = S
  <2>1. /\ errores' = errores /\ fase' = fase /\ pos' = pos /\ lugar' = lugar
        /\ fase = "usar" /\ QuedaUso /\ Actual.tipo = "acceso"
    BY <1>1, <1>6 DEF EmpezarAcceso, Usa, Sigue, SubirBusqueda, EncontradoProtegido, SubirPermiso,
           Encontrado, Buscando, BusquedaBien
  <2>2. Actual' = Actual /\ TipoActual' = TipoActual /\ (QuedaUso => QuedaUso')
    BY <1>1, <2>1, MismoSitio
  <2> QED BY <1>1, <2>1, <2>2 DEF Buscados
<1>7. CASE EmpezarAcceso
  <2>1. busqueda' = [etapa |-> "miembro", nivel |-> Actual.clase, declarante |-> ""]
    BY <1>7 DEF EmpezarAcceso
  <2>2. Buscados \subseteq Hasta(programa, Actual.clase, S)
    BY DEF Buscados, Cercanos
  <2> QED BY <1>1, <1>6, <1>7, <2>1, <2>2 DEF BusquedaBien
<1>8. CASE SubirBusqueda
  <2> DEFINE n == busqueda.nivel
  <2>1. /\ busqueda.etapa = "miembro" /\ Definido(n) /\ ~Declara(tipos[n], Actual.miembro)
        /\ busqueda' = [busqueda EXCEPT !.nivel = tipos[n].padre]
    BY <1>8 DEF SubirBusqueda, Buscando
  <2>2. busqueda'.etapa = "miembro" /\ busqueda'.nivel = tipos[n].padre
    BY <2>1 DEF Inv, TypeOK, Busqueda
  <2>3. ASSUME errores = {}
        PROVE  Buscados \subseteq Hasta(programa, tipos[n].padre, S)
    <3>1. /\ n \in Declarados(programa) /\ tipos[n] = Declaracion(programa, n)
          /\ Padres(programa, n) = {tipos[n].padre} \cap Declarados(programa)
      BY <1>6, <1>8, <2>1, <2>3, EnElIndice DEF Sigue
    <3>2. n \notin S
      BY <2>1, <3>1 DEF Declarantes
    <3>3. Hasta(programa, n, S) \subseteq {n} \cup Hasta(programa, tipos[n].padre, S)
      BY <3>1, <3>2, HastaSube
    <3>4. Buscados \subseteq Hasta(programa, n, S) /\ Buscados \subseteq S
      BY <1>1, <2>1, <2>3 DEF BusquedaBien, Buscados, Cercanos
    <3> QED BY <3>2, <3>3, <3>4
  <2> QED BY <1>1, <1>6, <1>8, <2>2, <2>3 DEF BusquedaBien, Sigue
<1>9. CASE EncontradoProtegido
  <2> DEFINE n == busqueda.nivel
  <2>1. /\ busqueda.etapa = "miembro" /\ Definido(n) /\ Declara(tipos[n], Actual.miembro)
        /\ AccesoDe(tipos[n], Actual.miembro) = "protegido"
        /\ busqueda' = [etapa |-> "permiso", nivel |-> TipoActual, declarante |-> n]
    BY <1>9 DEF EncontradoProtegido, Encontrado, Buscando
  <2>2. ASSUME errores = {}
        PROVE  /\ n \in Declarados(programa)
               /\ AccesoDe(Declaracion(programa, n), Actual.miembro) = "protegido"
               /\ Buscados \subseteq {n}
               /\ TipoActual \in Declarados(programa) => TipoActual \in Ancestros(programa, TipoActual)
    <3>1. n \in Declarados(programa) /\ tipos[n] = Declaracion(programa, n)
      BY <1>6, <1>9, <2>1, <2>2, EnElIndice DEF Sigue
    <3>2. n \in S
      BY <2>1, <3>1 DEF Declarantes
    <3>3. Buscados \subseteq Hasta(programa, n, S)
      BY <1>1, <2>1, <2>2 DEF BusquedaBien
    <3>4. Hasta(programa, n, S) = {n}
      BY <3>1, <3>2, HastaEnS
    <3> QED BY <2>1, <3>1, <3>3, <3>4, HastaEsMinimo DEF Ancestros
  <2> QED BY <1>1, <1>6, <1>9, <2>1, <2>2 DEF BusquedaBien, Sigue
<1>10. CASE SubirPermiso
  <2> DEFINE n == busqueda.nivel
             q == IF Definido(n) THEN tipos[n].padre ELSE ""
  <2>1. busqueda.etapa = "permiso" /\ busqueda' = [busqueda EXCEPT !.nivel = q]
    BY <1>10 DEF SubirPermiso
  <2>2. busqueda'.etapa = "permiso" /\ busqueda'.nivel = q /\ busqueda'.declarante = busqueda.declarante
    <3> HIDE DEF q
    <3> QED BY <2>1 DEF Inv, TypeOK, Busqueda
  <2>3. ASSUME errores = {}, q \in Declarados(programa)
        PROVE  q \in Ancestros(programa, TipoActual)
    <3>1. /\ "" \notin Declarados(programa) /\ (Definido(n) <=> n \in Declarados(programa))
          /\ n \in Declarados(programa) =>
               Padres(programa, n) = {tipos[n].padre} \cap Declarados(programa)
      BY <1>6, <1>10, <2>3, EnElIndice DEF Sigue
    <3>2. n \in Declarados(programa) /\ q = tipos[n].padre
      BY <2>3, <3>1
    <3>3. n \in Ancestros(programa, TipoActual)
      BY <1>1, <2>1, <2>3, <3>2 DEF BusquedaBien
    <3>4. q \in Padres(programa, n)
      BY <2>3, <3>1, <3>2
    <3> HIDE DEF q, n
    <3> QED BY <3>3, <3>4, HastaEsMinimo DEF Ancestros
  <2>4. errores = {} =>
          /\ busqueda.declarante \in Declarados(programa)
          /\ AccesoDe(Declaracion(programa, busqueda.declarante), Actual.miembro) = "protegido"
          /\ Buscados \subseteq {busqueda.declarante}
    BY <1>1, <2>1 DEF BusquedaBien
  <2> HIDE DEF q, n
  <2> QED BY <1>1, <1>6, <1>10, <2>2, <2>3, <2>4 DEF BusquedaBien, Sigue
<1> QED BY <1>3, <1>4, <1>5, <1>7, <1>8, <1>9, <1>10, PorGrupos DEF Mira, Sigue

-----------------------------------------------------------------------------
(* The expressions of the program.                                         *)

EnMano == [uso |-> Actual, tipoActual |-> TipoActual]

(* An expression that is done with, without an error, is in order.         *)
LEMMA AlTerminarUso ==
  ASSUME Inv, VisitarNuevo \/ VisitarEs \/ NoEncontrado \/ EncontradoSinMas \/ FinPermiso,
         errores' = {}
  PROVE  UsoBien(programa, EnMano)
<1>1. errores = {} /\ fase = "usar"
  BY DEF VisitarNuevo, VisitarEs, NoEncontrado, EncontradoSinMas, FinPermiso, Usa, Encontrado,
         Buscando, Inv, BusquedaBien
<1>2. /\ \A n : Definido(n) <=> n \in Declarados(programa)
      /\ \A n \in Declarados(programa) : tipos[n] = Declaracion(programa, n)
      /\ "" \notin Declarados(programa)
  BY <1>1, EnElIndice
<1> DEFINE S == Declarantes(programa, Actual.miembro)
<1>3. ASSUME Actual.tipo = "acceso",
             \A c \in Buscados :
               /\ AccesoDe(Declaracion(programa, c), Actual.miembro) = "privado" => TipoActual = c
               /\ AccesoDe(Declaracion(programa, c), Actual.miembro) = "protegido"
                    => c \in Ancestros(programa, TipoActual)
      PROVE  UsoBien(programa, EnMano)
  BY <1>3 DEF UsoBien, Permitido, EnMano, Buscados
<1>4. CASE VisitarNuevo
  <2>1. ~ErrorDeNuevo(Actual) /\ Actual.tipo = "nuevo"
    BY <1>4 DEF VisitarNuevo, Usa
  <2>2. Actual.clase \in Declarados(programa) /\ ~Declaracion(programa, Actual.clase).abstracta
    BY <1>2, <2>1 DEF ErrorDeNuevo
  <2> QED BY <2>1, <2>2 DEF UsoBien, Permitido, EnMano
<1>5. CASE VisitarEs
  <2>1. Actual.tipo = "es"
    BY <1>5 DEF VisitarEs, Usa
  <2> QED BY <2>1 DEF UsoBien, Permitido, EnMano
<1>6. CASE NoEncontrado
  <2>1. busqueda.etapa = "miembro" /\ ~Definido(busqueda.nivel)
    BY <1>6 DEF NoEncontrado, Buscando
  <2>2. Actual.tipo = "acceso" /\ Buscados \subseteq Hasta(programa, busqueda.nivel, S)
    BY <1>1, <2>1 DEF Inv, BusquedaBien
  <2>3. Hasta(programa, busqueda.nivel, S) = {}
    BY <1>2, <2>1, HastaDeNadie
  <2> QED BY <1>3, <2>2, <2>3
<1>7. CASE EncontradoSinMas
  <2> DEFINE n == busqueda.nivel
  <2>1. /\ busqueda.etapa = "miembro" /\ Definido(n) /\ Declara(tipos[n], Actual.miembro)
        /\ AccesoDe(tipos[n], Actual.miembro) \in {"publico", "privado"}
        /\ AccesoDe(tipos[n], Actual.miembro) = "privado" => TipoActual = n
    BY <1>7 DEF EncontradoSinMas, Encontrado, Buscando
  <2>2. n \in Declarados(programa) /\ tipos[n] = Declaracion(programa, n)
    BY <1>2, <2>1
  <2>3. n \in S
    BY <2>1, <2>2 DEF Declarantes
  <2>4. Actual.tipo = "acceso" /\ Buscados \subseteq Hasta(programa, n, S)
    BY <1>1, <2>1 DEF Inv, BusquedaBien
  <2>5. Hasta(programa, n, S) = {n}
    BY <2>2, <2>3, HastaEnS
  <2> QED BY <1>3, <2>1, <2>2, <2>4, <2>5
<1>8. CASE FinPermiso
  <2>1. busqueda.etapa = "permiso" /\ busqueda.nivel = busqueda.declarante
    BY <1>8 DEF FinPermiso
  <2>2. /\ Actual.tipo = "acceso" /\ busqueda.declarante \in Declarados(programa)
        /\ AccesoDe(Declaracion(programa, busqueda.declarante), Actual.miembro) = "protegido"
        /\ Buscados \subseteq {busqueda.declarante}
        /\ busqueda.nivel \in Declarados(programa) =>
             busqueda.nivel \in Ancestros(programa, TipoActual)
    BY <1>1, <2>1 DEF Inv, BusquedaBien
  <2> QED BY <1>3, <2>1, <2>2
<1> QED BY <1>4, <1>5, <1>6, <1>7, <1>8

(* A step keeps the uses visited allowed.                                  *)
LEMMA UsosSigue ==
  ASSUME Inv, [Next]_vars
  PROVE  UsosBien'
<1> USE DEF vars, analisis, generacion
<1> DEFINE N == Len(programa.tipos)
           L(i) == Len(Cuerpos(programa, i))
           M(i, m) == Len(Cuerpos(programa, i)[m])
<1>1. /\ UsosBien /\ programa' = programa /\ errores \subseteq errores'
      /\ N \in Nat /\ pos \in Nat /\ lugar \in [metodo : Nat \ {0}, uso : Nat \ {0}]
  BY Marco DEF Inv, TypeOK, Programa
<1>2. ASSUME errores' = {} =>
               \A i \in 1 .. N + 1 : \A m \in 1 .. L(i) : \A u \in 1 .. M(i, m) :
                 Visto(i, m, u)' =>
                   \/ Visto(i, m, u)
                   \/ /\ i = pos /\ m = lugar.metodo /\ u = lugar.uso
                      /\ UsoBien(programa, EnMano)
      PROVE  UsosBien'
  <2> SUFFICES ASSUME errores' = {}, NEW i \in 1 .. N + 1, NEW m \in 1 .. L(i),
                      NEW u \in 1 .. M(i, m), Visto(i, m, u)'
               PROVE  UsoBien(programa, [uso |-> Cuerpos(programa, i)[m][u],
                                         tipoActual |-> TipoDe(programa, i)])
    BY <1>1 DEF UsosBien
  <2>1. CASE Visto(i, m, u)
    BY <1>1, <2>1 DEF UsosBien
  <2>2. CASE i = pos /\ m = lugar.metodo /\ u = lugar.uso /\ UsoBien(programa, EnMano)
    BY <2>2 DEF EnMano, Actual, TipoActual
  <2> QED BY <1>2, <2>1, <2>2
<1>3. CASE fase' = fase /\ pos' = pos /\ lugar' = lugar
  BY <1>2, <1>3 DEF Visto
<1>4. CASE fase \in {"generar", "compilado"}
  BY <1>2, <1>4 DEF Visto
<1>5. CASE VisitarNuevo \/ VisitarEs \/ NoEncontrado \/ EncontradoSinMas \/ FinPermiso
  <2>1. errores' = {} => UsoBien(programa, EnMano)
    BY <1>5, AlTerminarUso
  <2>2. fase = "usar" /\ fase' = fase /\ pos' = pos /\ lugar' = [lugar EXCEPT !.uso = @ + 1]
    BY <1>5 DEF VisitarNuevo, VisitarEs, NoEncontrado, EncontradoSinMas, FinPermiso, Usa, Encontrado,
         Buscando, Inv, BusquedaBien, Hecho
  <2>3. lugar'.metodo = lugar.metodo /\ lugar'.uso = lugar.uso + 1
    BY <1>1, <2>2
  <2>4. \A i \in 1 .. N + 1 : \A m \in 1 .. L(i) : \A u \in 1 .. M(i, m) :
          Visto(i, m, u)' => Visto(i, m, u) \/ (i = pos /\ m = lugar.metodo /\ u = lugar.uso)
    <3> SUFFICES ASSUME NEW i \in 1 .. N + 1, NEW m \in 1 .. L(i), NEW u \in 1 .. M(i, m),
                        Visto(i, m, u)'
                 PROVE  Visto(i, m, u) \/ (i = pos /\ m = lugar.metodo /\ u = lugar.uso)
      OBVIOUS
    <3>1. i < pos \/ (i = pos /\ (m < lugar.metodo \/ (m = lugar.metodo /\ u < lugar.uso + 1)))
      BY <2>2, <2>3 DEF Visto
    <3>2. u < lugar.uso + 1 => u < lugar.uso \/ u = lugar.uso
      BY <1>1
    <3> QED BY <2>2, <3>1, <3>2 DEF Visto
  <2> QED BY <1>2, <2>1, <2>4
<1>6. CASE OtroMetodo /\ fase = "usar"
  <2>1. /\ fase' = "usar" /\ pos' = pos /\ QuedaMetodo /\ ~QuedaUso
        /\ lugar' = [metodo |-> lugar.metodo + 1, uso |-> 1]
    BY <1>6 DEF OtroMetodo
  <2>2. lugar.uso > M(pos, lugar.metodo)
    <3>1. /\ Cuerpos(programa, pos) \in Seq(Seq(Uso))
          /\ lugar.metodo \in 1 .. L(pos)
      <4>1. pos \in 1 .. N + 1 /\ programa \in Programa
        BY <1>6 DEF Inv, Sitio, TypeOK
      <4>2. Cuerpos(programa, pos) \in Seq(Seq(Uso))
        BY <4>1, CuerposTipo
      <4> QED BY <1>1, <2>1, <4>2 DEF QuedaMetodo
    <3>2. M(pos, lugar.metodo) \in Nat
      BY <3>1
    <3> QED BY <1>1, <2>1, <3>2 DEF QuedaUso
  <2>3. \A i \in 1 .. N + 1 : \A m \in 1 .. L(i) : \A u \in 1 .. M(i, m) :
          Visto(i, m, u)' => Visto(i, m, u)
    <3> SUFFICES ASSUME NEW i \in 1 .. N + 1, NEW m \in 1 .. L(i), NEW u \in 1 .. M(i, m),
                        Visto(i, m, u)'
                 PROVE  Visto(i, m, u)
      OBVIOUS
    <3>1. i < pos \/ (i = pos /\ (m < lugar.metodo + 1 \/ (m = lugar.metodo + 1 /\ u < 1)))
      BY <2>1 DEF Visto
    <3>2. m < lugar.metodo + 1 => m < lugar.metodo \/ m = lugar.metodo
      BY <1>1
    <3>3. i = pos /\ m = lugar.metodo => u < lugar.uso
      BY <1>1, <2>2
    <3> HIDE DEF L, M
    <3>4. ~(u < 1)
      OBVIOUS
    <3> QED BY <1>6, <3>1, <3>2, <3>3, <3>4 DEF Visto
  <2> QED BY <1>2, <2>3
<1>7. CASE FinVisitar
  <2>1. fase = "usar" /\ fase' = "visitar" /\ pos' = pos + 1 /\ ~QuedaMetodo
    BY <1>7 DEF FinVisitar
  <2>2. \A i \in 1 .. N + 1 : \A m \in 1 .. L(i) : \A u \in 1 .. M(i, m) :
          Visto(i, m, u)' => Visto(i, m, u)
    <3> SUFFICES ASSUME NEW i \in 1 .. N + 1, NEW m \in 1 .. L(i), NEW u \in 1 .. M(i, m),
                        Visto(i, m, u)'
                 PROVE  Visto(i, m, u)
      OBVIOUS
    <3>1. i < pos \/ i = pos
      BY <1>1, <2>1 DEF Visto
    <3>2. i = pos => m < lugar.metodo
      <4>1. i = pos => L(pos) \in Nat
        <5>1. programa \in Programa
          BY DEF Inv, TypeOK
        <5>2. Cuerpos(programa, i) \in Seq(Seq(Uso))
          BY <5>1, CuerposTipo
        <5>3. L(i) \in Nat
          BY <5>2
        <5> QED BY <5>3
      <4> QED BY <1>1, <2>1, <4>1 DEF QuedaMetodo
    <3> QED BY <2>1, <3>1, <3>2 DEF Visto
  <2> QED BY <1>2, <2>2
<1>8. CASE VisitarTipo \/ VisitarCuerpo
  <2>1. fase = "visitar" /\ fase' = "usar" /\ pos' = pos /\ lugar' = Principio
    BY <1>8 DEF VisitarTipo, VisitarCuerpo
  <2>2. \A i \in 1 .. N + 1 : \A m \in 1 .. L(i) : \A u \in 1 .. M(i, m) :
          Visto(i, m, u)' => Visto(i, m, u)
    <3> HIDE DEF L, M
    <3> QED BY <1>1, <2>1 DEF Visto, Principio
  <2> QED BY <1>2, <2>2
<1>9. CASE FinAnalisis
  <2>1. fase = "visitar" /\ pos = N + 2
    BY <1>9 DEF FinAnalisis
  <2>2. \A i \in 1 .. N + 1 : i < pos
    BY <1>1, <2>1
  <2>3. \A i \in 1 .. N + 1 : \A m, u : Visto(i, m, u)
    BY <2>1, <2>2 DEF Visto
  <2> QED BY <1>2, <2>3
<1>10. CASE Recoge
  <2>1. fase' = "recolectar" \/ (fase' = "visitar" /\ pos' = 1)
    BY <1>10 DEF Recoge, RecolectarTipo, FinRecolectar
  <2>2. \A i \in 1 .. N + 1 : \A m, u : ~Visto(i, m, u)'
    BY <1>1, <2>1 DEF Visto
  <2> QED BY <1>2, <2>2
<1>11. EmpezarAcceso \/ Sigue \/ UNCHANGED vars => fase' = fase /\ pos' = pos /\ lugar' = lugar
  BY DEF EmpezarAcceso, Sigue, SubirBusqueda, EncontradoProtegido, SubirPermiso
<1>12. Genera \/ (OtroMetodo /\ fase # "usar") => fase \in {"generar", "compilado"}
  BY DEF OtroMetodo, Genera, Pasar, OtraDeclaracion, SubirCadena, Crear, RegistrarClase, Construir,
         FinGenerar, Generando
<1> QED BY <1>3, <1>4, <1>5, <1>6, <1>7, <1>8, <1>9, <1>10, <1>11, <1>12, PorGrupos DEF Visita, Mira

-----------------------------------------------------------------------------
(* Objects.                                                                *)

(* In an accepted program a declaration has a base or none.                *)
LEMMA ClaseDeclarada ==
  ASSUME Inv, fase \in {"generar", "compilado"}, NEW n \in Declarados(programa)
  PROVE  /\ tipos[n] = Declaracion(programa, n) /\ Definido(n)
         /\ Declaracion(programa, n).metodos \in Seq(Metodo)
         /\ Declaracion(programa, n).nombre = n
         /\ Padres(programa, n) = {Declaracion(programa, n).padre} \cap Declarados(programa)
         /\ \/ /\ Declaracion(programa, n).clase = "clase"
               /\ ClaseSana(programa, Declaracion(programa, n))
            \/ Declaracion(programa, n).padre = ""
         /\ "" \notin Declarados(programa)
<1>1. errores = {} /\ fase # "recolectar"
  BY DEF Inv, Sitio
<1>2. /\ Definido(n) /\ tipos[n] = Declaracion(programa, n) /\ tipos[n].nombre = n
      /\ tipos[n] \in TipoDef
      /\ Padres(programa, n) = {tipos[n].padre} \cap Declarados(programa)
      /\ "" \notin Declarados(programa)
  BY <1>1, EnElIndice
<1>3. PICK k \in 1 .. Len(programa.tipos) : tipos[n] = programa.tipos[k]
  <2>1. tipos[n] \in ToSet(programa.tipos) /\ programa.tipos \in Seq(TipoDef)
    BY <1>2 DEF Inv, TypeOK, Definido, Programa
  <2> QED BY <2>1, EnLugar
<1>4. programa.tipos[k].clase = "clase" => ClaseSana(programa, programa.tipos[k])
  BY <1>1 DEF Inv, DeclaracionesBien, Visitada
<1> QED BY <1>2, <1>3, <1>4, TipoDefTipo

(* The `nuevo` in hand is of a class that can be built.                    *)
LEMMA NuevoBien ==
  ASSUME Inv, Generando
  PROVE  /\ Actual.clase \in Declarados(programa) /\ ~Declaracion(programa, Actual.clase).abstracta
         /\ fase = "generar"
<1>1. fase = "generar" /\ errores = {} /\ QuedaUso /\ Actual.tipo = "nuevo"
      /\ pos <= Len(programa.tipos) + 1
  BY DEF Generando, Inv, Sitio
<1>2. /\ pos \in 1 .. Len(programa.tipos) + 1
      /\ lugar.metodo \in 1 .. Len(Cuerpos(programa, pos))
      /\ lugar.uso \in 1 .. Len(Cuerpos(programa, pos)[lugar.metodo])
  BY <1>1, ActualTipo DEF Inv
<1>3. UsoBien(programa, [uso |-> Actual, tipoActual |-> TipoDe(programa, pos)])
  BY <1>1, <1>2 DEF Inv, UsosBien, Visto, Actual
<1> QED BY <1>1, <1>3 DEF UsoBien

(* Only the steps of a `nuevo` find one under way.                         *)
LEMMA GeneracionAjena ==
  ASSUME Inv, Recoge \/ Visita \/ Mira \/ Sigue \/ Pasar \/ OtraDeclaracion \/ FinGenerar
  PROVE  /\ cadena = <<>> /\ objeto = SinObjeto
         /\ cadena' = cadena /\ objeto' = objeto /\ objetos' = objetos
<1> USE DEF analisis, generacion
<1>1. ~Generando => cadena = <<>> /\ objeto = SinObjeto
  BY DEF Inv, CadenaBien, ObjetoBien
<1>2. CASE Recoge
  BY <1>1, <1>2 DEF Recoge, RecolectarTipo, FinRecolectar, Generando
<1>3. CASE Visita
  BY <1>1, <1>3 DEF Visita, VisitarTipo, VisitarCuerpo, OtroMetodo, FinVisitar, FinAnalisis,
         Generando, QuedaUso
<1>4. CASE Mira
  BY <1>1, <1>4 DEF Mira, VisitarNuevo, VisitarEs, EmpezarAcceso, NoEncontrado, EncontradoSinMas,
         FinPermiso, Usa, Encontrado, Buscando, Inv, BusquedaBien, Generando
<1>5. CASE Sigue
  BY <1>1, <1>5 DEF Sigue, SubirBusqueda, EncontradoProtegido, SubirPermiso, Encontrado, Buscando,
         Inv, BusquedaBien, Generando
<1>6. CASE Pasar \/ OtraDeclaracion \/ FinGenerar
  BY <1>1, <1>6 DEF Pasar, OtraDeclaracion, FinGenerar, Generando, QuedaUso
<1> QED BY <1>2, <1>3, <1>4, <1>5, <1>6

(* The steps of a `nuevo` stay at it.                                      *)
LEMMA GenerandoSigue ==
  ASSUME Inv, SubirCadena \/ Crear \/ RegistrarClase
  PROVE  /\ programa' = programa /\ fase' = fase /\ objetos' = objetos
         /\ Generando /\ Generando' /\ Actual' = Actual
<1>1. /\ programa' = programa /\ fase' = fase /\ pos' = pos /\ lugar' = lugar /\ objetos' = objetos
      /\ Generando
  BY DEF SubirCadena, Crear, RegistrarClase
<1>2. Actual' = Actual /\ (QuedaUso => QuedaUso')
  BY <1>1, MismoSitio
<1> QED BY <1>1, <1>2 DEF Generando

(* A step keeps the chain of bases that the back end climbs.               *)
LEMMA CadenaSigue ==
  ASSUME Inv, [Next]_vars
  PROVE  CadenaBien'
<1>1. CadenaBien /\ cadena \in Seq(Nombres)
  BY DEF Inv, TypeOK
<1>2. CASE SubirCadena
  <2>1. /\ programa' = programa /\ Generando /\ Generando' /\ Actual' = Actual /\ fase = "generar"
        /\ Actual.clase \in Declarados(programa)
    BY <1>2, GenerandoSigue, NuevoBien
  <2>2. CASE cadena = <<>>
    <3>1. cadena' = <<Actual.clase>>
      BY <1>2, <2>2 DEF SubirCadena
    <3>2. Actual.clase \in Ancestros(programa, Actual.clase)
      BY <2>1, HastaEsMinimo DEF Ancestros
    <3> QED BY <2>1, <3>1, <3>2 DEF CadenaBien
  <2>3. CASE cadena # <<>>
    <3> DEFINE q == Declaracion(programa, Last(cadena)).padre
    <3>1. Last(cadena) \in Declarados(programa) /\ Len(cadena) \in Nat \ {0}
      BY <2>3, CadenaTipo
    <3>2. /\ tipos[Last(cadena)] = Declaracion(programa, Last(cadena))
          /\ Padres(programa, Last(cadena)) = {q} \cap Declarados(programa)
      BY <2>1, <3>1, ClaseDeclarada
    <3>3. cadena' = Append(cadena, q) /\ Definido(q)
      BY <1>2, <2>3, <3>2 DEF SubirCadena, Sube, EsDe
    <3>4. q \in Declarados(programa)
      BY <2>1, <3>3, EnElIndice DEF Inv, Sitio
    <3>5. Last(cadena) \in Ancestros(programa, Actual.clase)
      BY <1>1, <2>3, <3>1 DEF CadenaBien, Last
    <3>6. q \in Ancestros(programa, Actual.clase)
      BY <3>2, <3>4, <3>5, HastaEsMinimo DEF Ancestros
    <3>7. q = Declaracion(programa, cadena[Len(cadena)]).padre
      BY DEF Last
    <3> HIDE DEF q
    <3>8. /\ Len(cadena') = Len(cadena) + 1 /\ cadena'[Len(cadena) + 1] = q
          /\ \A i \in 1 .. Len(cadena) : cadena'[i] = cadena[i]
      BY <1>1, <3>1, <3>3
    <3>9. \A i \in 1 .. Len(cadena') : cadena'[i] \in Ancestros(programa, Actual.clase)
      BY <1>1, <2>3, <3>1, <3>6, <3>8 DEF CadenaBien
    <3>10. \A i \in 1 .. Len(cadena') - 1 :
             cadena'[i + 1] = Declaracion(programa, cadena'[i]).padre
      <4> SUFFICES ASSUME NEW i \in 1 .. Len(cadena)
                   PROVE  cadena'[i + 1] = Declaracion(programa, cadena[i]).padre
        BY <3>1, <3>8
      <4>1. CASE i = Len(cadena)
        BY <3>7, <3>8, <4>1
      <4>2. CASE i \in 1 .. Len(cadena) - 1
        <5>1. i + 1 \in 1 .. Len(cadena)
          BY <3>1, <4>2
        <5> QED BY <1>1, <2>3, <3>8, <4>2, <5>1 DEF CadenaBien
      <4> QED BY <3>1, <4>1, <4>2
    <3>11. cadena'[1] = Actual.clase
      BY <1>1, <2>3, <3>1, <3>8 DEF CadenaBien
    <3> QED BY <2>1, <3>9, <3>10, <3>11 DEF CadenaBien
  <2> QED BY <2>2, <2>3
<1>3. CASE Crear
  <2>1. /\ programa' = programa /\ Generando' /\ Actual' = Actual /\ cadena' = cadena
    BY <1>3, GenerandoSigue DEF Crear
  <2> QED BY <1>1, <2>1 DEF CadenaBien
<1>4. CASE RegistrarClase
  <2>1. /\ programa' = programa /\ Generando' /\ Actual' = Actual /\ cadena # <<>>
        /\ cadena' = Front(cadena)
    BY <1>4, GenerandoSigue DEF RegistrarClase
  <2>2. /\ Len(cadena) \in Nat \ {0} /\ Len(cadena') = Len(cadena) - 1
        /\ \A i \in 1 .. Len(cadena) - 1 : cadena'[i] = cadena[i]
    BY <1>1, <2>1, SinUltimo
  <2>3. \A i \in 1 .. Len(cadena') - 1 : i \in 1 .. Len(cadena) - 1 /\ i + 1 \in 1 .. Len(cadena) - 1
    BY <2>2
  <2>4. cadena' # <<>> => 1 \in 1 .. Len(cadena) - 1
    <3>1. cadena' \in Seq(Nombres)
      BY <1>1, <2>1, SinUltimo
    <3> QED BY <2>2, <3>1, EmptySeq
  <2> QED BY <1>1, <2>1, <2>2, <2>3, <2>4 DEF CadenaBien
<1>5. CASE Construir
  BY <1>5 DEF Construir, CadenaBien
<1>6. CASE cadena = <<>> /\ cadena' = cadena
  BY <1>6 DEF CadenaBien
<1>7. CASE UNCHANGED vars
  <2>1. /\ programa' = programa /\ fase' = fase /\ pos' = pos /\ lugar' = lugar /\ cadena' = cadena
    BY <1>7 DEF vars, generacion
  <2>2. Actual' = Actual /\ (QuedaUso => QuedaUso')
    BY <2>1, MismoSitio
  <2> QED BY <1>1, <2>1, <2>2 DEF CadenaBien, Generando
<1> QED BY <1>2, <1>3, <1>4, <1>5, <1>6, <1>7, GeneracionAjena, PorGrupos DEF Genera

(* A chain that goes no further has all the ancestors of the class.        *)
LEMMA CadenaEntera ==
  ASSUME Inv, Generando, ~Sube
  PROVE  /\ cadena # <<>> /\ ToSet(cadena) = Ancestros(programa, Actual.clase)
         /\ Declaracion(programa, Last(cadena)).padre \notin Declarados(programa)
<1>1. cadena # <<>>
  BY DEF Sube
<1>2. /\ Len(cadena) \in Nat \ {0} /\ Last(cadena) \in Declarados(programa)
      /\ \A i \in 1 .. Len(cadena) : cadena[i] \in Declarados(programa)
      /\ fase = "generar"
  BY <1>1, CadenaTipo
<1>3. ToSet(cadena) = {cadena[i] : i \in 1 .. Len(cadena)}
  BY EnLugar DEF Inv, TypeOK
<1>4. /\ cadena[1] = Actual.clase
      /\ \A i \in 1 .. Len(cadena) : cadena[i] \in Ancestros(programa, Actual.clase)
      /\ \A i \in 1 .. Len(cadena) - 1 : cadena[i + 1] = Declaracion(programa, cadena[i]).padre
  BY <1>1 DEF Inv, CadenaBien
<1>5. Declaracion(programa, Last(cadena)).padre \notin Declarados(programa)
  <2> DEFINE n == Last(cadena)
             q == Declaracion(programa, n).padre
  <2>1. /\ tipos[n] = Declaracion(programa, n) /\ Definido(n)
        /\ \/ Declaracion(programa, n).clase = "clase" /\ ClaseSana(programa, Declaracion(programa, n))
           \/ q = ""
        /\ "" \notin Declarados(programa)
    BY <1>2, ClaseDeclarada
  <2>2. ~EsDe(n, "clase") \/ ~EsDe(q, "clase")
    BY <1>1, <2>1 DEF Sube
  <2>3. CASE q = ""
    BY <2>1, <2>3
  <2>4. CASE Declaracion(programa, n).clase = "clase" /\ ClaseSana(programa, Declaracion(programa, n))
    <3>1. q = "" \/ (q \in Declarados(programa) /\ Declaracion(programa, q).clase = "clase")
      BY <2>4 DEF ClaseSana
    <3>2. q \in Declarados(programa) => EsDe(q, "clase")
      <4>1. q \in Declarados(programa) =>
              Definido(q) /\ tipos[q] = Declaracion(programa, q)
        BY <1>2, ClaseDeclarada
      <4> QED BY <2>1, <3>1, <4>1 DEF EsDe
    <3>3. EsDe(n, "clase")
      BY <2>1, <2>4 DEF EsDe
    <3> QED BY <2>2, <3>2, <3>3
  <2> QED BY <2>1, <2>3, <2>4
<1>6. Ancestros(programa, Actual.clase) \subseteq ToSet(cadena)
  <2> DEFINE H == ToSet(cadena)
  <2>1. H \in SUBSET Declarados(programa) /\ {Actual.clase} \cap Declarados(programa) \subseteq H
    BY <1>2, <1>3, <1>4
  <2>2. ASSUME NEW i \in 1 .. Len(cadena)
        PROVE  Padres(programa, cadena[i]) \subseteq H
    <3>1. Padres(programa, cadena[i]) =
            {Declaracion(programa, cadena[i]).padre} \cap Declarados(programa)
      BY <1>2, ClaseDeclarada
    <3>2. CASE i = Len(cadena)
      BY <1>5, <3>1, <3>2 DEF Last
    <3>3. CASE i \in 1 .. Len(cadena) - 1
      <4>1. Declaracion(programa, cadena[i]).padre = cadena[i + 1] /\ i + 1 \in 1 .. Len(cadena)
        BY <1>2, <1>4, <3>3
      <4> QED BY <1>3, <3>1, <4>1
    <3> QED BY <1>2, <3>2, <3>3
  <2>3. \A x \in H \ {} : Padres(programa, x) \subseteq H
    BY <1>3, <2>2
  <2> HIDE DEF H
  <2>4. Hasta(programa, Actual.clase, {}) \subseteq H
    BY <2>1, <2>3, HastaEsMinimo
  <2> QED BY <2>4 DEF H, Ancestros
<1> QED BY <1>1, <1>3, <1>4, <1>5, <1>6

(* Registering a class over what its base gives is what the class gives.   *)
LEMMA DespachoSeRegistra ==
  ASSUME Inv, fase \in {"generar", "compilado"}, NEW c \in Declarados(programa)
  PROVE  Registrar(Despacho(programa, Declaracion(programa, c).padre), c) = Despacho(programa, c)
<1> DEFINE d == Declaracion(programa, c)
           q == d.padre
           nuevos == {m.nombre : m \in Registra(d)}
           D == Despacho(programa, q)
<1>1. /\ tipos[c] = d /\ d.metodos \in Seq(Metodo)
      /\ Padres(programa, c) = {q} \cap Declarados(programa)
  BY ClaseDeclarada
<1>2. nuevos \subseteq Nombres
  <2>1. \A m \in ToSet(d.metodos) : m \in Metodo
    BY <1>1, EnLugar
  <2> QED BY <2>1, MetodoTipo DEF Registra
<1>3. \A n : n \in nuevos <=> c \in Responden(programa, n)
  BY DEF Responden
<1>4. Registrar(D, c) = {x \in D : x[1] \notin nuevos} \cup {<<n, c>> : n \in nuevos}
  BY <1>1 DEF Registrar
<1> HIDE DEF d, q, nuevos, D
<1>5. ASSUME NEW n \in nuevos
      PROVE  Cercanos(programa, c, Responden(programa, n)) = {c}
  <2>1. c \in Responden(programa, n)
    BY <1>3, <1>5
  <2>2. Hasta(programa, c, Responden(programa, n)) = {c}
    BY <2>1, HastaEnS
  <2> QED BY <2>1, <2>2 DEF Cercanos
<1>6. ASSUME NEW n, n \notin nuevos
      PROVE  Cercanos(programa, c, Responden(programa, n)) = Cercanos(programa, q, Responden(programa, n))
  <2>1. c \notin Responden(programa, n)
    BY <1>3, <1>6
  <2> QED BY <1>1, <2>1, HastaSube
<1>7. D = {x \in Nombres \X Declarados(programa) :
             x[2] \in Cercanos(programa, q, Responden(programa, x[1]))}
  BY DEF D, Despacho
<1>8. Despacho(programa, c) = {x \in Nombres \X Declarados(programa) :
             x[2] \in Cercanos(programa, c, Responden(programa, x[1]))}
  BY DEF Despacho
<1>9. ASSUME NEW x \in Nombres \X Declarados(programa)
      PROVE  x \in Despacho(programa, c) <=>
               (x \in D /\ x[1] \notin nuevos) \/ x \in {<<n, c>> : n \in nuevos}
  <2>0. x = <<x[1], x[2]>>
    OBVIOUS
  <2>1. CASE x[1] \in nuevos
    <3>1. x \in Despacho(programa, c) <=> x[2] = c
      BY <1>5, <1>8, <2>1
    <3>2. x \in {<<n, c>> : n \in nuevos} <=> x[2] = c
      BY <2>0, <2>1
    <3> QED BY <2>1, <3>1, <3>2
  <2>2. CASE x[1] \notin nuevos
    <3>1. x \in Despacho(programa, c) <=> x \in D
      BY <1>6, <1>7, <1>8, <2>2
    <3>2. x \notin {<<n, c>> : n \in nuevos}
      BY <2>2
    <3> QED BY <2>2, <3>1, <3>2
  <2> QED BY <2>1, <2>2
<1>10. {<<n, c>> : n \in nuevos} \subseteq Nombres \X Declarados(programa)
  BY <1>2
<1>11. Registrar(D, c) \subseteq Nombres \X Declarados(programa)
  BY <1>4, <1>7, <1>10
<1>12. Registrar(D, c) = Despacho(programa, c)
  BY <1>4, <1>8, <1>9, <1>11
<1> QED BY <1>12 DEF D, q, d

(* A step keeps the object being built on the way to its class.            *)
LEMMA ObjetoSigue ==
  ASSUME Inv, [Next]_vars
  PROVE  ObjetoBien'
<1>1. ObjetoBien /\ cadena \in Seq(Nombres) /\ objeto \in Objeto \cup {SinObjeto}
  BY DEF Inv, TypeOK
<1>2. ASSUME objeto' = SinObjeto
      PROVE  ObjetoBien'
  BY <1>2 DEF ObjetoBien, SinObjeto
<1>3. CASE SubirCadena
  BY <1>2, <1>3 DEF SubirCadena
<1>4. CASE Crear
  <2>1. /\ programa' = programa /\ Generando /\ Generando' /\ Actual' = Actual /\ cadena' = cadena
        /\ ~Sube
        /\ objeto' = [clase |-> Actual.clase, ascendencia |-> Reverse(cadena), metodos |-> {}]
    BY <1>4, GenerandoSigue DEF Crear
  <2>2. /\ cadena # <<>> /\ ToSet(cadena) = Ancestros(programa, Actual.clase)
        /\ Declaracion(programa, Last(cadena)).padre \notin Declarados(programa)
        /\ cadena[1] = Actual.clase
    BY <2>1, CadenaEntera DEF Inv, CadenaBien
  <2>3. ToSet(Reverse(cadena)) = ToSet(cadena) /\ Last(Reverse(cadena)) = cadena[1]
    BY <1>1, <2>2, DelReves
  <2>4. /\ Actual.clase \in Declarados(programa)
        /\ ~Declaracion(programa, Actual.clase).abstracta
    BY <2>1, NuevoBien
  <2>5. Despacho(programa, Declaracion(programa, Last(cadena)).padre) = {}
    <3> DEFINE q == Declaracion(programa, Last(cadena)).padre
    <3>1. ASSUME NEW S
          PROVE  Cercanos(programa, q, S) = {}
      <4>1. Hasta(programa, q, S) = {}
        BY <2>2, HastaDeNadie
      <4> QED BY <4>1 DEF Cercanos
    <3> HIDE DEF q
    <3>2. Despacho(programa, q) = {}
      BY <3>1 DEF Despacho
    <3> QED BY <3>2 DEF q
  <2>6. objeto'.clase = Actual.clase /\ objeto'.ascendencia = Reverse(cadena) /\ objeto'.metodos = {}
    BY <2>1
  <2>7. Retrato(objeto)'
    BY <2>1, <2>2, <2>3, <2>4, <2>6 DEF Retrato
  <2> QED BY <2>1, <2>2, <2>5, <2>6, <2>7 DEF ObjetoBien
<1>5. CASE RegistrarClase
  <2> DEFINE c == Last(cadena)
             q == Declaracion(programa, c).padre
  <2>1. /\ programa' = programa /\ Generando /\ Generando' /\ Actual' = Actual
        /\ objeto # SinObjeto /\ cadena # <<>> /\ cadena' = Front(cadena)
        /\ objeto' = [objeto EXCEPT !.metodos = Registrar(objeto.metodos, Last(cadena))]
    BY <1>5, GenerandoSigue DEF RegistrarClase
  <2>2. /\ objeto.clase = Actual.clase /\ Retrato(objeto)
        /\ objeto.metodos = Despacho(programa, q)
    BY <1>1, <2>1 DEF ObjetoBien
  <2>3. /\ Len(cadena) \in Nat \ {0} /\ c \in Declarados(programa) /\ fase = "generar"
    BY <2>1, CadenaTipo
  <2>4. Registrar(objeto.metodos, c) = Despacho(programa, c)
    BY <2>2, <2>3, DespachoSeRegistra
  <2> HIDE DEF c, q
  <2>5. /\ objeto'.clase = objeto.clase /\ objeto'.ascendencia = objeto.ascendencia
        /\ objeto'.metodos = Despacho(programa, c)
    <3>1. objeto' = [objeto EXCEPT !.metodos = Despacho(programa, c)]
      BY <2>1, <2>4 DEF c
    <3>2. objeto \in Objeto
      BY <1>1, <2>1
    <3> QED BY <3>1, <3>2 DEF Objeto
  <2>6. Retrato(objeto)'
    BY <2>1, <2>2, <2>5 DEF Retrato
  <2>7. c = IF cadena' = <<>> THEN objeto'.clase ELSE Declaracion(programa, Last(cadena')).padre
    <3>1. /\ cadena[1] = Actual.clase
          /\ \A i \in 1 .. Len(cadena) - 1 : cadena[i + 1] = Declaracion(programa, cadena[i]).padre
      BY <2>1 DEF Inv, CadenaBien
    <3>2. /\ cadena' \in Seq(Nombres) /\ Len(cadena') = Len(cadena) - 1
          /\ \A i \in 1 .. Len(cadena) - 1 : cadena'[i] = cadena[i]
          /\ Len(cadena) = 1 => cadena' = <<>>
      BY <1>1, <2>1, SinUltimo
    <3>3. CASE cadena' = <<>>
      <4>1. Len(cadena) = 1
        BY <2>3, <3>2, <3>3
      <4> QED BY <2>2, <2>5, <3>1, <3>3, <4>1 DEF c, Last
    <3>4. CASE cadena' # <<>>
      <4>1. Len(cadena) - 1 \in 1 .. Len(cadena) - 1
        BY <2>3, <3>2, <3>4
      <4>2. Last(cadena') = cadena[Len(cadena) - 1]
        BY <3>2, <4>1 DEF Last
      <4>3. cadena[Len(cadena) - 1 + 1] = Declaracion(programa, cadena[Len(cadena) - 1]).padre
        BY <3>1, <4>1
      <4>4. Len(cadena) - 1 + 1 = Len(cadena)
        BY <2>3
      <4> QED BY <3>4, <4>2, <4>3, <4>4 DEF c, Last
    <3> QED BY <3>3, <3>4
  <2> QED BY <2>1, <2>2, <2>5, <2>6, <2>7 DEF ObjetoBien
<1>6. CASE Construir
  BY <1>2, <1>6 DEF Construir
<1>7. CASE Recoge \/ Visita \/ Mira \/ Sigue \/ Pasar \/ OtraDeclaracion \/ FinGenerar
  BY <1>2, <1>7, GeneracionAjena
<1>8. CASE UNCHANGED vars
  <2>1. /\ programa' = programa /\ fase' = fase /\ pos' = pos /\ lugar' = lugar
        /\ cadena' = cadena /\ objeto' = objeto
    BY <1>8 DEF vars, generacion
  <2>2. Actual' = Actual /\ (QuedaUso => QuedaUso')
    BY <2>1, MismoSitio
  <2>3. Generando => Generando'
    BY <2>1, <2>2 DEF Generando
  <2>4. Retrato(objeto) => Retrato(objeto)'
    BY <2>1 DEF Retrato
  <2> QED BY <1>1, <2>1, <2>2, <2>3, <2>4 DEF ObjetoBien
<1> QED BY <1>3, <1>4, <1>5, <1>6, <1>7, <1>8, PorGrupos DEF Genera

(* A step keeps the objects built those of the program.                    *)
LEMMA ObjetosSigue ==
  ASSUME Inv, [Next]_vars
  PROVE  ObjetosBien'
<1>1. ObjetosBien /\ programa' = programa
  BY Marco DEF Inv
<1>2. ASSUME NEW o, Retrato(o)
      PROVE  Retrato(o)'
  BY <1>1, <1>2 DEF Retrato
<1>3. CASE Construir
  <2>1. /\ Generando /\ objeto # SinObjeto /\ cadena = <<>>
        /\ objetos' = objetos \cup {objeto} /\ fase' = fase
    BY <1>3 DEF Construir
  <2>2. Retrato(objeto) /\ objeto.metodos = Despacho(programa, objeto.clase) /\ fase' = "generar"
    BY <2>1 DEF Inv, ObjetoBien, Generando
  <2>3. SUFFICES ASSUME NEW o \in objetos'
                 PROVE  Retrato(o)' /\ o.metodos = Despacho(programa, o.clase)
    BY <1>1, <2>2 DEF ObjetosBien
  <2>4. CASE o \in objetos
    BY <1>1, <1>2, <2>4 DEF ObjetosBien
  <2>5. CASE o = objeto
    BY <1>2, <2>2, <2>5
  <2> QED BY <2>1, <2>3, <2>4, <2>5
<1>4. ASSUME objetos' = objetos, fase \in {"generar", "compilado"} => fase' \in {"generar", "compilado"}
      PROVE  ObjetosBien'
  <2>1. SUFFICES ASSUME NEW o \in objetos
                 PROVE  /\ fase' \in {"generar", "compilado"}
                        /\ Retrato(o)' /\ o.metodos = Despacho(programa, o.clase)
    BY <1>1, <1>4 DEF ObjetosBien
  <2> QED BY <1>1, <1>2, <1>4 DEF ObjetosBien
<1>5. CASE SubirCadena \/ Crear \/ RegistrarClase
  BY <1>4, <1>5, GenerandoSigue
<1>6. CASE UNCHANGED vars
  BY <1>4, <1>6 DEF vars, generacion
<1>7. CASE Recoge \/ Visita \/ Mira \/ Sigue \/ Pasar \/ OtraDeclaracion \/ FinGenerar
  <2>1. objetos' = objetos
    BY <1>7, GeneracionAjena
  <2>2. fase \in {"generar", "compilado"} => fase' \in {"generar", "compilado"}
    <3>1. CASE Recoge \/ Visita
      BY <3>1 DEF Recoge, RecolectarTipo, FinRecolectar, Visita, VisitarTipo, VisitarCuerpo,
             OtroMetodo, FinVisitar, FinAnalisis
    <3>2. CASE Mira \/ Sigue
      BY <3>2 DEF Mira, VisitarNuevo, VisitarEs, EmpezarAcceso, NoEncontrado, EncontradoSinMas,
             FinPermiso, Usa, Sigue, SubirBusqueda, EncontradoProtegido, SubirPermiso
    <3>3. CASE Pasar \/ OtraDeclaracion \/ FinGenerar
      BY <3>3 DEF Pasar, OtraDeclaracion, FinGenerar
    <3> QED BY <1>7, <3>1, <3>2, <3>3
  <2> QED BY <1>4, <2>1, <2>2
<1> QED BY <1>3, <1>5, <1>6, <1>7, PorGrupos DEF Genera

-----------------------------------------------------------------------------
(* The theorems.                                                           *)

(* A step keeps the invariant.                                             *)
LEMMA InvSigue ==
  ASSUME Inv, [Next]_vars
  PROVE  Inv'
BY TipoSigue, LugarSigue, IndiceSigue, DeclaracionesSigue, UsosSigue, BusquedaSigue, CadenaSigue,
   ObjetoSigue, ObjetosSigue DEF Inv

(* The invariant holds of every state.                                     *)
THEOREM InvSiempre == Spec => []Inv
BY InvAlEmpezar, InvSigue, PTL DEF Spec

(* Whatever the program, no member is named where its access forbids it    *)
(* once the program is accepted.                                           *)
THEOREM AccesoSiempre == Spec => []AccesoRespetado
<1>1. Inv => AccesoRespetado
  <2> SUFFICES ASSUME Inv, Aceptado, NEW x \in Usos(programa)
               PROVE  Permitido(programa, x)
    BY DEF AccesoRespetado
  <2>1. errores = {} /\ fase \in {"generar", "compilado"} /\ programa \in Programa
    BY DEF Inv, Sitio, Aceptado, TypeOK
  <2>2. PICK i \in 1 .. Len(programa.tipos) + 1 :
          \E m \in 1 .. Len(Cuerpos(programa, i)) : \E u \in 1 .. Len(Cuerpos(programa, i)[m]) :
            x = [uso |-> Cuerpos(programa, i)[m][u], tipoActual |-> TipoDe(programa, i)]
    BY <2>1, UsosConLugar
  <2> QED BY <2>1, <2>2 DEF Inv, UsosBien, Visto, UsoBien
<1> QED BY <1>1, InvSiempre, PTL

(* Whatever the classes, an object answers with the method of the nearest  *)
(* ancestor that has one and is of each of its ancestors.                  *)
THEOREM ObjetosSiempre == Spec => []ObjetosFieles
<1>1. Inv => ObjetosFieles
  BY DEF Inv, ObjetosBien, Retrato, ObjetosFieles, DespachoMasDerivado, EsReconoceAncestros
<1> QED BY <1>1, InvSiempre, PTL

(* Whatever its base left abstract, an object has it, but for static       *)
(* methods and constructors.                                               *)
THEOREM AbstractosSiempre == Spec => []AbstractosImplementados
<1>1. ASSUME Inv
      PROVE  AbstractosImplementados
  <2> SUFFICES ASSUME NEW o \in objetos, NEW a \in Padres(programa, o.clase),
                      NEW m \in ToSet(Declaracion(programa, a).metodos), m.abstracto,
                      \A e \in ToSet(Declaracion(programa, o.clase).metodos) :
                        e.nombre = m.nombre => ~e.estatico /\ e.nombre # o.clase
               PROVE  \E x \in o.metodos : x[1] = m.nombre
    BY DEF AbstractosImplementados
  <2> DEFINE d == Declaracion(programa, o.clase)
  <2>1. /\ fase \in {"generar", "compilado"} /\ o.clase \in Declarados(programa) /\ ~d.abstracta
        /\ o.metodos = Despacho(programa, o.clase)
    BY <1>1 DEF Inv, ObjetosBien, Retrato
  <2>2. /\ d.metodos \in Seq(Metodo) /\ d.nombre = o.clase
        /\ a = d.padre /\ a \in Declarados(programa)
        /\ ClaseSana(programa, d)
    <3>1. /\ d.metodos \in Seq(Metodo) /\ d.nombre = o.clase
          /\ Padres(programa, o.clase) = {d.padre} \cap Declarados(programa)
          /\ ClaseSana(programa, d) \/ d.padre = ""
          /\ "" \notin Declarados(programa)
      BY <1>1, <2>1, ClaseDeclarada
    <3> HIDE DEF d
    <3> QED BY <3>1
  <2>3. PICK e \in ToSet(d.metodos) : e.nombre = m.nombre
    BY <2>1, <2>2 DEF ClaseSana, Tiene
  <2>4. ~e.abstracto /\ e \in Metodo /\ e.nombre \in Nombres
    <3>1. e \in Metodo
      BY <2>2, EnLugar
    <3> QED BY <2>1, <2>2, <3>1, MetodoTipo DEF ClaseSana
  <2>5. e \in Registra(d)
    BY <2>2, <2>3, <2>4 DEF Registra
  <2>6. o.clase \in Responden(programa, m.nombre)
    BY <2>1, <2>3, <2>5 DEF Responden
  <2>7. o.clase \in Cercanos(programa, o.clase, Responden(programa, m.nombre))
    BY <2>1, <2>6, HastaEsMinimo DEF Cercanos
  <2>8. <<m.nombre, o.clase>> \in Despacho(programa, o.clase)
    BY <2>1, <2>3, <2>4, <2>7 DEF Despacho
  <2> QED BY <2>1, <2>8
<1> QED BY <1>1, InvSiempre, PTL
=============================================================================

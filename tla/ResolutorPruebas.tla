------------------------- MODULE ResolutorPruebas -------------------------
(***************************************************************************)
(* Proofs about the module resolver, for every set of files and names.     *)
(***************************************************************************)
EXTENDS ResolutorModulos, SequenceTheorems, FiniteSetTheorems, WellFoundedInduction, TLAPS

(* A nonempty set of natural numbers has a least element.                   *)
LEMMA Minimo ==
  ASSUME NEW T \in SUBSET Nat, T # {}
  PROVE  \E x \in T : \A y \in T : x <= y
<1> DEFINE R == OpToRel(<, Nat)
<1>1. IsWellFoundedOn(R, Nat)
  BY NatLessThanWellFounded
<1>2. PICK x \in T : \A y \in T : ~ (<<y, x>> \in R)
  <2> HIDE DEF R
  <2> QED BY <1>1, WFMin
<1>3. \A y \in T : ~ (y < x)
  BY <1>2 DEF OpToRel
<1> QED BY <1>3

(* A nonempty set of positions of a sequence has a last one.                *)
LEMMA Maximo ==
  ASSUME NEW n \in Nat, NEW T \in SUBSET (1 .. n), T # {}
  PROVE  \E x \in T : \A y \in T : y <= x
<1> DEFINE U == {n - k : k \in T}
<1> HIDE DEF U
<1>1. \A k \in T : k \in Nat /\ k <= n /\ n - k \in Nat
  OBVIOUS
<1>2. U \in SUBSET Nat /\ U # {}
  BY <1>1 DEF U
<1>3. PICK x \in U : \A y \in U : x <= y
  BY <1>2, Minimo
<1>4. PICK k \in T : x = n - k
  BY DEF U
<1>5. \A y \in T : n - k <= n - y
  BY <1>3, <1>4 DEF U
<1> QED BY <1>1, <1>4, <1>5

-----------------------------------------------------------------------------
(* Types of the pure functions.                                             *)

(* The source tree maps every path to a file.                               *)
LEMMA FuenteTipo ==
  ASSUME fuente \in Proyectos
  PROVE  fuente \in [Rutas -> Archivo] /\ EntradaValida(fuente[Entrada])
BY ProyectosAssumption

(* Mangling gives an internal name.                                         *)
LEMMA ManglarTipo ==
  ASSUME NEW r \in Rutas, NEW n \in Nombres
  PROVE  Manglar(r, n) \in Internos /\ Manglar(r, n) # Nulo
BY ConstantesAssumption DEF Manglar, Internos

(* A default export that is the last one exists when there is any.          *)
LEMMA HayUltimoDefecto ==
  ASSUME NEW a \in Archivo, NEW k \in 1 .. Len(a.declara), EsUltimoDefecto(a, k)
  PROVE  LET c == CHOOSE j \in 1 .. Len(a.declara) : EsUltimoDefecto(a, j)
         IN  c \in 1 .. Len(a.declara)
OBVIOUS

(* An export table maps names to internal names.                            *)
LEMMA TablaTipo ==
  ASSUME NEW a \in Archivo, NEW r \in Rutas
  PROVE  TablaExportacion(a, r) \in [Nombres -> Internos \cup {Nulo}]
<1>1. a.declara \in Seq(Declaracion)
  BY DEF Archivo
<1>2. \A k \in 1 .. Len(a.declara) : a.declara[k].nombre \in Nombres
  <2>1. \A k \in 1 .. Len(a.declara) : a.declara[k] \in Declaracion
    BY <1>1, ElementOfSeq
  <2> QED BY <2>1 DEF Declaracion
<1>3. SUFFICES ASSUME NEW n \in Nombres
               PROVE  Exporta(a, r, n) \in Internos \cup {Nulo}
  BY DEF TablaExportacion
<1>4. CASE \E k \in 1 .. Len(a.declara) : EsUltimoDefecto(a, k)
  <2> DEFINE c == CHOOSE j \in 1 .. Len(a.declara) : EsUltimoDefecto(a, j)
  <2>1. c \in 1 .. Len(a.declara)
    BY <1>4
  <2>2. Manglar(r, a.declara[c].nombre) \in Internos /\ Manglar(r, n) \in Internos
    BY <2>1, <1>2, ManglarTipo
  <2> QED BY <2>2 DEF Exporta
<1>5. CASE ~ \E k \in 1 .. Len(a.declara) : EsUltimoDefecto(a, k)
  BY <1>5, ManglarTipo DEF Exporta
<1> QED BY <1>4, <1>5

(* An activation of procesarModulo starts well typed.                       *)
LEMMA MarcoNuevoTipo ==
  ASSUME NEW r \in Rutas
  PROVE  MarcoNuevo(r) \in Marco
BY ManglarTipo DEF MarcoNuevo, Marco, RenombresPropios

(* The imports of a file are imports.                                       *)
LEMMA ImportacionTipo ==
  ASSUME fuente \in Proyectos, NEW r \in Rutas
  PROVE  /\ Importaciones(r) \in Seq(Importacion)
         /\ Len(Importaciones(r)) \in Nat
         /\ \A k \in 1 .. Len(Importaciones(r)) :
              /\ Importaciones(r)[k] \in Importacion
              /\ Importaciones(r)[k].ruta \in Rutas
<1>1. fuente[r] \in Archivo
  BY FuenteTipo
<1>2. Importaciones(r) \in Seq(Importacion)
  BY <1>1 DEF Importaciones, Archivo
<1>3. \A i \in Importacion : i.ruta \in Rutas
  BY DEF Importacion
<1> QED BY <1>2, <1>3, ElementOfSeq, LenProperties

(* Binding an import keeps an activation well typed.                        *)
LEMMA EnlazarTipo ==
  ASSUME NEW m \in Marco, NEW i \in Importacion,
         NEW tabla \in [Nombres -> Internos \cup {Nulo}]
  PROVE  /\ Enlazar(m, i, tabla) \in Marco
         /\ Enlazar(m, i, tabla).ruta = m.ruta
         /\ Enlazar(m, i, tabla).pos = m.pos + 1
<1>0. m.pos \in Nat \ {0} /\ m.pos + 1 \in Nat \ {0}
  BY DEF Marco
<1>1. CASE i.forma = "espacio"
  <2>1. i.alias \in Nombres /\ i.ruta \in Rutas
    BY <1>1 DEF Importacion
  <2> QED BY <1>0, <1>1, <2>1 DEF Enlazar, Marco
<1>2. CASE i.forma # "espacio"
  <2>1. i.pares \in Seq(Par)
    <3>1. i \notin [forma : {"espacio"}, ruta : Rutas, alias : Nombres]
      BY <1>2
    <3> DEFINE F == {"nombrado", "por_defecto", "exportar_desde"}
    <3> HIDE DEF F
    <3>2. i \in [forma : F, ruta : Rutas, pares : Seq(Par)]
      BY <3>1 DEF Importacion, F
    <3> QED BY <3>2
  <2>2. Len(i.pares) \in Nat
    BY <2>1, LenProperties
  <2>3. \A k \in 1 .. Len(i.pares) : i.pares[k].origen \in Nombres
    <3>1. \A k \in 1 .. Len(i.pares) : i.pares[k] \in Par
      BY <2>1, ElementOfSeq
    <3> QED BY <3>1 DEF Par
  <2> DEFINE gana(n) == {k \in 1 .. Len(i.pares) :
                           i.pares[k].alias = n /\ tabla[i.pares[k].origen] # Nulo}
             elige(n) == CHOOSE k \in gana(n) : \A j \in gana(n) : j <= k
             ren == [n \in Nombres |->
                       IF gana(n) = {} THEN m.renombres[n]
                       ELSE tabla[i.pares[elige(n)].origen]]
  <2>4. Enlazar(m, i, tabla) = [m EXCEPT !.pos = @ + 1, !.renombres = ren]
    BY <1>2 DEF Enlazar
  <2>5. ASSUME NEW n \in Nombres, gana(n) # {}
        PROVE  tabla[i.pares[elige(n)].origen] \in Internos \cup {Nulo}
    <3>1. gana(n) \in SUBSET (1 .. Len(i.pares))
      OBVIOUS
    <3>2. \E x \in gana(n) : \A y \in gana(n) : y <= x
      <4> HIDE DEF gana
      <4> QED BY <3>1, <2>5, <2>2, Maximo
    <3>3. elige(n) \in gana(n)
      BY <3>2
    <3> QED BY <3>3, <2>3
  <2>6. ren \in [Nombres -> Internos \cup {Nulo}]
    <3>1. \A n \in Nombres : m.renombres[n] \in Internos \cup {Nulo}
      BY DEF Marco
    <3> HIDE DEF gana, elige
    <3> QED BY <3>1, <2>5
  <2> HIDE DEF ren
  <2> QED BY <1>0, <2>4, <2>6 DEF Marco
<1> QED BY <1>1, <1>2

(* A rewritten reference is an internal name.                               *)
LEMMA ReescribirTipo ==
  ASSUME NEW m \in Marco, NEW u \in Uso,
         NEW tablas \in [Rutas -> [Nombres -> Internos \cup {Nulo}]],
         PorEspacio(m, u) => tablas[m.espacios[u.espacio]][u.nombre] # Nulo
  PROVE  Reescribir(m, tablas, u) \in Internos
<1>1. /\ u.nombre \in Nombres
      /\ EsCalificado(u) => u.espacio \in Nombres
      /\ Raiz(u) \in Nombres
  BY DEF Uso, EsCalificado, Raiz
<1>2. <<Libre, Raiz(u)>> \in Internos
  BY <1>1 DEF Internos
<1>3. m.renombres[Raiz(u)] \in Internos \cup {Nulo}
  BY <1>1 DEF Marco
<1>4. ASSUME PorEspacio(m, u)
      PROVE  tablas[m.espacios[u.espacio]][u.nombre] \in Internos
  <2>1. u.espacio \in Nombres /\ m.espacios[u.espacio] # Nulo
    BY <1>1, <1>4 DEF PorEspacio
  <2>2. m.espacios[u.espacio] \in Rutas
    BY <2>1 DEF Marco
  <2> QED BY <1>1, <1>4, <2>2
<1> QED BY <1>2, <1>3, <1>4 DEF Reescribir

(* The module an activation emits is well typed, when its namespaces export *)
(* what it takes from them.                                                 *)
LEMMA EnlaceTipo ==
  ASSUME TypeOK, NEW m \in Marco,
         \/ ~ReescrituraFalla(m)
         \/ \A n \in Nombres : m.espacios[n] = Nulo
  PROVE  Enlace(m) \in Enlazado /\ Enlace(m).ruta = m.ruta
<1> DEFINE a == fuente[m.ruta]
<1>1. m.ruta \in Rutas /\ a \in Archivo
  BY FuenteTipo DEF TypeOK, Marco
<1>2. a.declara \in Seq(Declaracion) /\ a.usa \subseteq Uso
  BY <1>1 DEF Archivo
<1>3. \A k \in 1 .. Len(a.declara) : a.declara[k].nombre \in Nombres
  <2>1. \A k \in 1 .. Len(a.declara) : a.declara[k] \in Declaracion
    BY <1>2, ElementOfSeq
  <2> QED BY <2>1 DEF Declaracion
<1>4. {Manglar(m.ruta, a.declara[k].nombre) : k \in 1 .. Len(a.declara)} \subseteq Internos
  BY <1>1, <1>3, ManglarTipo
<1>5. ASSUME HayQueReescribir(m), NEW u \in a.usa
      PROVE  Reescribir(m, exportaciones, u) \in Internos
  <2>1. ASSUME PorEspacio(m, u)
        PROVE  exportaciones[m.espacios[u.espacio]][u.nombre] # Nulo
    <3>1. CASE ~ReescrituraFalla(m)
      BY <1>5, <2>1, <3>1 DEF ReescrituraFalla, ErrorDeUso
    <3>2. CASE \A n \in Nombres : m.espacios[n] = Nulo
      <4>1. u.espacio \in Nombres /\ m.espacios[u.espacio] # Nulo
        BY <1>2, <2>1 DEF PorEspacio, EsCalificado, Uso
      <4> QED BY <3>2, <4>1
    <3> QED BY <3>1, <3>2
  <2> QED BY <1>2, <2>1, ReescribirTipo DEF TypeOK
<1>6. \A u \in a.usa : <<Libre, Raiz(u)>> \in Internos
  BY <1>2 DEF Raiz, EsCalificado, Uso, Internos
<1> QED BY <1>1, <1>4, <1>5, <1>6 DEF Enlace, Enlazado

-----------------------------------------------------------------------------
(* The stack.                                                               *)

(* Positions of a stack with a caller in it.                                *)
LEMMA Posiciones ==
  ASSUME NEW l \in Nat, l > 0, l # 1
  PROVE  /\ l - 1 \in Nat /\ l - 1 > 0 /\ l - 1 \in 1 .. l - 1 /\ l - 1 \in 1 .. l
         /\ (l - 1) + 1 = l /\ l \in 1 .. l
         /\ \A k \in 1 .. l - 1 : k \in 1 .. l
OBVIOUS

(* The frame on top.                                                        *)
LEMMA TopeTipo ==
  ASSUME TypeOK, pila # <<>>
  PROVE  /\ Len(pila) \in Nat /\ Len(pila) > 0
         /\ Tope \in Marco /\ Tope.ruta \in Rutas /\ Tope.pos \in Nat /\ Tope.pos > 0
         /\ \A k \in 1 .. Len(pila) : pila[k] \in Marco /\ pila[k].ruta \in Rutas
<1>1. pila \in Seq(Marco) /\ Len(pila) \in Nat /\ Len(pila) > 0
  BY EmptySeq DEF TypeOK
<1>2. \A k \in 1 .. Len(pila) : pila[k] \in Marco
  BY <1>1, ElementOfSeq
<1>3. \A m \in Marco : m.ruta \in Rutas /\ m.pos \in Nat /\ m.pos > 0
  BY DEF Marco
<1> QED BY <1>1, <1>2, <1>3 DEF Tope

(* The import it is at.                                                     *)
LEMMA ActualTipo ==
  ASSUME TypeOK, QuedanImportaciones
  PROVE  /\ pila # <<>> /\ Tope.pos \in 1 .. Len(Importaciones(Tope.ruta))
         /\ ImportacionActual \in Importacion /\ Destino \in Rutas
<1>1. pila # <<>> /\ Tope.pos <= Len(Importaciones(Tope.ruta))
  BY DEF QuedanImportaciones
<1>2. Tope.ruta \in Rutas /\ Tope.pos \in Nat /\ Tope.pos > 0
  BY <1>1, TopeTipo
<1>3. fuente \in Proyectos
  BY DEF TypeOK
<1> QED BY <1>1, <1>2, <1>3, ImportacionTipo DEF ImportacionActual, Destino

(* Replacing the top frame by one of the same module.                       *)
LEMMA CambiarTope ==
  ASSUME TypeOK, pila # <<>>, NEW m \in Marco, m.ruta = Tope.ruta,
         pila' = [pila EXCEPT ![Len(pila)] = m]
  PROVE  /\ pila' \in Seq(Marco) /\ Len(pila') = Len(pila)
         /\ pila'[Len(pila)] = m
         /\ \A k \in 1 .. Len(pila) - 1 : pila'[k] = pila[k]
         /\ \A k \in 1 .. Len(pila) : pila'[k].ruta = pila[k].ruta
<1>1. Len(pila) \in 1 .. Len(pila) /\ pila \in Seq(Marco)
  BY TopeTipo DEF TypeOK
<1> QED BY <1>1, ExceptSeq DEF Tope

(* Going past the current import.                                           *)
LEMMA SaltarCambia ==
  ASSUME TypeOK, pila # <<>>, Saltar
  PROVE  /\ pila' \in Seq(Marco) /\ Len(pila') = Len(pila)
         /\ pila'[Len(pila)] = [Tope EXCEPT !.pos = @ + 1]
         /\ \A k \in 1 .. Len(pila) - 1 : pila'[k] = pila[k]
         /\ \A k \in 1 .. Len(pila) : pila'[k].ruta = pila[k].ruta
<1> DEFINE m == [Tope EXCEPT !.pos = @ + 1]
<1>1. m \in Marco /\ m.ruta = Tope.ruta
  BY TopeTipo DEF Marco
<1>2. pila' = [pila EXCEPT ![Len(pila)] = m]
  BY DEF Saltar, Tope
<1> HIDE DEF m
<1>3. QED BY <1>1, <1>2, CambiarTope DEF m

(* Returning to the caller, whose frame becomes m.                          *)
LEMMA RetornoCambia ==
  ASSUME TypeOK, pila # <<>>, Len(pila) # 1, NEW m \in Marco, m.ruta = Llamador.ruta,
         pila' = [Desapilar EXCEPT ![Len(pila) - 1] = m]
  PROVE  /\ pila' \in Seq(Marco) /\ Len(pila') = Len(pila) - 1
         /\ Len(pila) - 1 > 0
         /\ pila'[Len(pila) - 1] = m
         /\ \A k \in 1 .. Len(pila) - 2 : pila'[k] = pila[k]
         /\ \A k \in 1 .. Len(pila) - 1 : pila'[k].ruta = pila[k].ruta
<1> DEFINE n == Len(pila) - 1
<1>1. /\ n \in Nat /\ n > 0 /\ n \in 1 .. n
      /\ \A k \in 1 .. n : pila[k] \in Marco
  BY TopeTipo, Posiciones
<1>2. /\ Desapilar \in Seq(Marco) /\ Len(Desapilar) = n
      /\ \A k \in 1 .. n : Desapilar[k] = pila[k]
  <2>1. /\ SubSeq(pila, 1, n) \in Seq(Marco)
        /\ Len(SubSeq(pila, 1, n)) = IF 1 <= n THEN n - 1 + 1 ELSE 0
        /\ \A k \in 1 .. n - 1 + 1 : SubSeq(pila, 1, n)[k] = pila[1 + k - 1]
    BY <1>1, SubSeqProperties
  <2> QED BY <1>1, <2>1 DEF Desapilar
<1>3. /\ [Desapilar EXCEPT ![n] = m] \in Seq(Marco)
      /\ Len([Desapilar EXCEPT ![n] = m]) = n
      /\ \A k \in 1 .. n : [Desapilar EXCEPT ![n] = m][k] = IF k = n THEN m ELSE Desapilar[k]
  BY <1>1, <1>2, ExceptSeq
<1>4. pila' \in Seq(Marco) /\ Len(pila') = n /\ pila'[n] = m
  BY <1>1, <1>3
<1>5. \A k \in 1 .. n - 1 : pila'[k] = pila[k]
  BY <1>1, <1>2, <1>3
<1>6. \A k \in 1 .. n : pila'[k].ruta = pila[k].ruta
  BY <1>1, <1>4, <1>5 DEF Llamador
<1> QED BY <1>1, <1>4, <1>5, <1>6

-----------------------------------------------------------------------------
(* Type correctness.                                                        *)

(* The frame a caller is left with when the module it asked for is bound.   *)
LEMMA LlamadorTipo ==
  ASSUME TypeOK, pila # <<>>, Len(pila) # 1
  PROVE  Llamador \in Marco /\ Llamador.ruta \in Rutas /\ Llamador.pos \in Nat \ {0}
<1>1. Len(pila) - 1 \in 1 .. Len(pila)
  BY TopeTipo, Posiciones
<1>2. Llamador \in Marco
  BY <1>1, TopeTipo DEF Llamador
<1> QED BY <1>2 DEF Marco

(* It is the last one left when the top frame goes.                         *)
LEMMA UltimoDesapilado ==
  ASSUME TypeOK, pila # <<>>, Len(pila) # 1
  PROVE  Desapilar[Len(pila) - 1] = Llamador
<1>1. \A k \in 1 .. Len(pila) - 1 : pila[k] \in Marco
  BY TopeTipo, Posiciones
<1>2. Len(pila) - 1 \in 1 .. Len(pila) - 1
  BY TopeTipo, Posiciones
<1> QED BY <1>1, <1>2, SubSeqProperties DEF Desapilar, Llamador

(* Its import is an import.                                                 *)
LEMMA ImportacionLlamadorTipo ==
  ASSUME TypeOK, PilaEsCamino, pila # <<>>, Len(pila) # 1
  PROVE  /\ Llamador.pos \in 1 .. Len(Importaciones(Llamador.ruta))
         /\ Importaciones(Llamador.ruta)[Llamador.pos] \in Importacion
         /\ Importaciones(Llamador.ruta)[Llamador.pos].ruta = Tope.ruta
         /\ Importaciones(Llamador.ruta)[Llamador.pos].forma # "exportar_desde"
<1> DEFINE n == Len(pila) - 1
<1>1. n \in 1 .. Len(pila) - 1 /\ n + 1 = Len(pila)
  BY TopeTipo, Posiciones
<1>2. /\ pila[n].pos <= Len(Importaciones(pila[n].ruta))
      /\ Importaciones(pila[n].ruta)[pila[n].pos].forma # "exportar_desde"
      /\ Importaciones(pila[n].ruta)[pila[n].pos].ruta = pila[n + 1].ruta
  BY <1>1 DEF PilaEsCamino, Espera, Importaciones
<1>3. fuente \in Proyectos
  BY DEF TypeOK
<1> QED BY <1>1, <1>2, <1>3, LlamadorTipo, ImportacionTipo DEF Llamador, Tope

(* The initial state is well typed.                                         *)
LEMMA InitTypeOK == Init => TypeOK
<1> SUFFICES ASSUME Init PROVE TypeOK
  OBVIOUS
<1>1. TablaVacia \in [Nombres -> Internos \cup {Nulo}]
  BY DEF TablaVacia
<1> QED BY <1>1, EmptySeq DEF Init, TypeOK, Fases

(* The stack is a path in the initial state.                                *)
LEMMA InitPila == Init => PilaEsCamino
<1> SUFFICES ASSUME Init PROVE PilaEsCamino
  OBVIOUS
<1>1. Len(pila) = 0 /\ \A k \in 1 .. Len(pila) : FALSE
  BY EmptySeq DEF Init
<1> QED BY <1>1 DEF Init, PilaEsCamino, Activas

(* Every step keeps the state well typed.                                   *)
LEMMA PasoTypeOK == TypeOK /\ PilaEsCamino /\ [Next]_vars => TypeOK'
<1> SUFFICES ASSUME TypeOK, PilaEsCamino, [Next]_vars
             PROVE  TypeOK'
  OBVIOUS
<1> USE DEF Fases
<1>1. CASE ResolverModuloUnico
  <2>1. Entrada \in Rutas
    BY ConstantesAssumption
  <2>2. MarcoNuevo(Entrada) \in Marco /\ \A n \in Nombres : MarcoNuevo(Entrada).espacios[n] = Nulo
    BY <2>1, MarcoNuevoTipo DEF MarcoNuevo
  <2>3. Enlace(MarcoNuevo(Entrada)) \in Enlazado
    BY <2>2, EnlaceTipo
  <2>4. dependencias' \in Seq(Enlazado)
    BY <1>1, <2>3 DEF ResolverModuloUnico
  <2> QED BY <1>1, <2>4 DEF ResolverModuloUnico, TypeOK
<1>2. CASE Comenzar
  <2>1. Entrada \in Rutas
    BY ConstantesAssumption
  <2>2. MarcoNuevo(Entrada) \in Marco
    BY <2>1, MarcoNuevoTipo
  <2> QED BY <1>2, <2>1, <2>2 DEF Comenzar, TypeOK
<1>3. CASE RechazarReexport
  <2>1. pila # <<>>
    BY <1>3 DEF RechazarReexport, QuedanImportaciones
  <2>2. pila' \in Seq(Marco)
    BY <1>3, <2>1, SaltarCambia DEF RechazarReexport
  <2> QED BY <1>3, <2>2 DEF RechazarReexport, TypeOK
<1>4. CASE DetectarCiclo
  <2>1. pila # <<>> /\ Destino \in Rutas /\ estados[Destino] = "en_proceso"
    BY <1>4, ActualTipo DEF DetectarCiclo, Importa
  <2>2. pila' \in Seq(Marco)
    BY <1>4, <2>1, SaltarCambia DEF DetectarCiclo
  <2>3. cadena' \in Seq(Rutas)
    <3> DEFINE d == CHOOSE k \in 1 .. Len(pila) : pila[k].ruta = Destino
               n == Len(pila) - d + 2
               e(k) == IF k = n THEN Destino ELSE pila[d + k - 1].ruta
    <3>1. Destino \in Activas
      BY <2>1 DEF PilaEsCamino
    <3>2. d \in 1 .. Len(pila)
      BY <3>1 DEF Activas
    <3> HIDE DEF d
    <3>3. n \in Nat /\ \A k \in 1 .. n : k # n => d + k - 1 \in 1 .. Len(pila)
      BY <2>1, <3>2, TopeTipo
    <3>4. \A k \in 1 .. n : e(k) \in Rutas
      BY <2>1, <3>3, TopeTipo
    <3>5. cadena' = [k \in 1 .. n |-> e(k)]
      BY <1>4 DEF DetectarCiclo, d
    <3> HIDE DEF n, e
    <3>6. cadena' \in [1 .. n -> Rutas]
      BY <3>4, <3>5
    <3> QED BY <3>3, <3>6, SeqDef
  <2> QED BY <1>4, <2>2, <2>3 DEF DetectarCiclo, TypeOK
<1>5. CASE UsarMemo
  <2> DEFINE m == Enlazar(Tope, ImportacionActual, exportaciones[Destino])
  <2>1. pila # <<>> /\ Destino \in Rutas /\ ImportacionActual \in Importacion
    BY <1>5, ActualTipo DEF UsarMemo, Importa
  <2>2. m \in Marco /\ m.ruta = Tope.ruta
    BY <2>1, TopeTipo, EnlazarTipo DEF TypeOK
  <2>3. pila' = [pila EXCEPT ![Len(pila)] = m]
    BY <1>5 DEF UsarMemo, Tope
  <2>4. pila' \in Seq(Marco)
    <3> HIDE DEF m
    <3> QED BY <2>1, <2>2, <2>3, CambiarTope
  <2> QED BY <1>5, <2>4 DEF UsarMemo, TypeOK, TodoExportado
<1>6. CASE NoResolver
  <2>1. pila # <<>>
    BY <1>6 DEF NoResolver, Importa, QuedanImportaciones
  <2>2. pila' \in Seq(Marco)
    BY <1>6, <2>1, SaltarCambia DEF NoResolver
  <2> QED BY <1>6, <2>2 DEF NoResolver, TypeOK
<1>7. CASE Descender
  <2>1. Destino \in Rutas
    BY <1>7, ActualTipo DEF Descender, Importa
  <2>2. MarcoNuevo(Destino) \in Marco
    BY <2>1, MarcoNuevoTipo
  <2>3. pila' \in Seq(Marco)
    BY <1>7, <2>2, AppendProperties DEF Descender, TypeOK
  <2> QED BY <1>7, <2>1, <2>3 DEF Descender, TypeOK
<1>8. CASE RetornarFallido
  <2>1. pila # <<>> /\ Tope.ruta \in Rutas
    BY <1>8, TopeTipo DEF RetornarFallido, Agotado
  <2>2. pila' \in Seq(Marco)
    <3>1. CASE Len(pila) = 1
      BY <1>8, <3>1 DEF RetornarFallido
    <3>2. CASE Len(pila) # 1
      <4> DEFINE m == [Llamador EXCEPT !.pos = @ + 1]
      <4>1. m \in Marco /\ m.ruta = Llamador.ruta
        BY <2>1, <3>2, LlamadorTipo DEF Marco
      <4>2. pila' = [Desapilar EXCEPT ![Len(pila) - 1].pos = @ + 1]
        BY <1>8, <3>2 DEF RetornarFallido
      <4>3. Desapilar[Len(pila) - 1] = Llamador
        BY <2>1, <3>2, UltimoDesapilado
      <4>4. pila' = [Desapilar EXCEPT ![Len(pila) - 1] = m]
        BY <4>2, <4>3
      <4> HIDE DEF m
      <4> QED BY <2>1, <3>2, <4>1, <4>4, RetornoCambia
    <3> QED BY <3>1, <3>2
  <2>3. resultado' \in {"pendiente", "nulo", "programa"}
    BY <1>8 DEF RetornarFallido, TypeOK
  <2> QED BY <1>8, <2>1, <2>2, <2>3 DEF RetornarFallido, TypeOK
<1>9. CASE RetornarListo
  <2> DEFINE tabla == TablaExportacion(fuente[Tope.ruta], Tope.ruta)
             i == Importaciones(Llamador.ruta)[Llamador.pos]
  <2>1. pila # <<>> /\ Tope \in Marco /\ Tope.ruta \in Rutas
    BY <1>9, TopeTipo DEF RetornarListo, Agotado
  <2>2. Enlace(Tope) \in Enlazado
    BY <1>9, <2>1, EnlaceTipo DEF RetornarListo
  <2>3. tabla \in [Nombres -> Internos \cup {Nulo}]
    BY <2>1, FuenteTipo, TablaTipo DEF TypeOK
  <2>4. pila' \in Seq(Marco) /\ ok' \in BOOLEAN /\ resultado' \in {"pendiente", "nulo", "programa"}
    <3>1. CASE Len(pila) = 1
      BY <1>9, <3>1 DEF RetornarListo, TypeOK
    <3>2. CASE Len(pila) # 1
      <4> DEFINE m == Enlazar(Llamador, i, tabla)
      <4>1. i \in Importacion /\ Llamador \in Marco
        BY <2>1, <3>2, ImportacionLlamadorTipo, LlamadorTipo
      <4>2. m \in Marco /\ m.ruta = Llamador.ruta
        <5> HIDE DEF i, tabla
        <5> QED BY <2>3, <4>1, EnlazarTipo
      <4>3. Desapilar[Len(pila) - 1] = Llamador
        BY <2>1, <3>2, UltimoDesapilado
      <4>4. pila' = [Desapilar EXCEPT ![Len(pila) - 1] = m]
        BY <1>9, <3>2, <4>3 DEF RetornarListo
      <4>5. pila' \in Seq(Marco)
        <5> HIDE DEF m
        <5> QED BY <2>1, <3>2, <4>2, <4>4, RetornoCambia
      <4>6. ok' = TodoExportado(i, tabla) /\ resultado' = resultado
        BY <1>9, <3>2 DEF RetornarListo
      <4> QED BY <4>5, <4>6 DEF TodoExportado, TypeOK
    <3> QED BY <3>1, <3>2
  <2>5. dependencias' \in Seq(Enlazado)
    BY <1>9, <2>2, AppendProperties DEF RetornarListo, TypeOK
  <2>6. /\ estados' = [estados EXCEPT ![Tope.ruta] = "listo"]
        /\ exportaciones' = [exportaciones EXCEPT ![Tope.ruta] = tabla]
        /\ UNCHANGED <<fuente, cadena>>
    BY <1>9 DEF RetornarListo
  <2> HIDE DEF tabla
  <2> QED BY <2>1, <2>3, <2>4, <2>5, <2>6 DEF TypeOK
<1>10. CASE Terminado \/ UNCHANGED vars
  BY <1>10 DEF Terminado, vars, TypeOK
<1> QED BY <1>1, <1>2, <1>3, <1>4, <1>5, <1>6, <1>7, <1>8, <1>9, <1>10 DEF Next

-----------------------------------------------------------------------------
(* The stack is a path.                                                     *)

(* Working on the top frame does not disturb the path.                      *)
LEMMA CaminoMismaPila ==
  ASSUME TypeOK, PilaEsCamino, pila # <<>>,
         fuente' = fuente, estados' = estados, Len(pila') = Len(pila),
         \A k \in 1 .. Len(pila) - 1 : pila'[k] = pila[k],
         \A k \in 1 .. Len(pila) : pila'[k].ruta = pila[k].ruta
  PROVE  PilaEsCamino'
<1>1. Activas' = Activas
  BY DEF Activas
<1>2. \A r \in Rutas : estados'[r] = "en_proceso" <=> r \in Activas'
  BY <1>1 DEF PilaEsCamino
<1>3. \A j, k \in 1 .. Len(pila') : pila'[j].ruta = pila'[k].ruta => j = k
  BY DEF PilaEsCamino
<1>4. \A k \in 1 .. Len(pila) - 1 : pila'[k] = pila[k] /\ pila'[k + 1].ruta = pila[k + 1].ruta
  BY TopeTipo
<1>5. \A k \in 1 .. Len(pila') - 1 : Espera(fuente', pila'[k], pila'[k + 1].ruta)
  BY <1>4 DEF PilaEsCamino
<1> QED BY <1>2, <1>3, <1>5 DEF PilaEsCamino

(* Entering the current import prolongs the path.                           *)
LEMMA CaminoDescender ==
  ASSUME TypeOK, PilaEsCamino, Descender
  PROVE  PilaEsCamino'
<1> DEFINE n == Len(pila)
<1>1. /\ pila # <<>> /\ Tope.pos \in 1 .. Len(Importaciones(Tope.ruta))
      /\ Destino \in Rutas /\ estados[Destino] = "ausente"
      /\ ImportacionActual.forma # "exportar_desde" /\ ImportacionActual.ruta = Destino
  BY ActualTipo DEF Descender, Importa, Destino
<1>2. n \in Nat /\ n > 0 /\ pila \in Seq(Marco) /\ Tope = pila[n]
  BY <1>1, TopeTipo DEF TypeOK, Tope
<1>3. MarcoNuevo(Destino) \in Marco /\ MarcoNuevo(Destino).ruta = Destino
  BY <1>1, MarcoNuevoTipo DEF MarcoNuevo
<1>4. /\ Len(pila') = n + 1
      /\ \A k \in 1 .. n : pila'[k] = pila[k]
      /\ pila'[n + 1].ruta = Destino
  BY <1>2, <1>3, AppendProperties DEF Descender
<1>5. Activas' = Activas \cup {Destino}
  BY <1>2, <1>4 DEF Activas
<1>6. estados' = [estados EXCEPT ![Destino] = "en_proceso"] /\ fuente' = fuente
  BY DEF Descender
<1>7. Destino \notin Activas
  BY <1>1 DEF PilaEsCamino
<1>8. \A r \in Rutas : estados'[r] = "en_proceso" <=> r \in Activas'
  BY <1>1, <1>5, <1>6 DEF PilaEsCamino, TypeOK
<1>9. ASSUME NEW j \in 1 .. Len(pila'), NEW k \in 1 .. Len(pila'), pila'[j].ruta = pila'[k].ruta
      PROVE  j = k
  <2>1. \A l \in 1 .. n : pila'[l].ruta # Destino
    BY <1>4, <1>7 DEF Activas
  <2>2. \A l \in 1 .. n + 1 : l \in 1 .. n \/ l = n + 1
    BY <1>2
  <2> QED BY <1>4, <1>9, <2>1, <2>2 DEF PilaEsCamino
<1>10. ASSUME NEW k \in 1 .. Len(pila') - 1
       PROVE  Espera(fuente', pila'[k], pila'[k + 1].ruta)
  <2>1. k \in 1 .. n /\ (k # n => k \in 1 .. n - 1 /\ k + 1 \in 1 .. n)
    BY <1>2, <1>4
  <2>2. CASE k = n
    <3>1. Espera(fuente, Tope, Destino)
      BY <1>1 DEF Espera, Importaciones, ImportacionActual
    <3> QED BY <1>2, <1>4, <1>6, <2>1, <2>2, <3>1
  <2>3. CASE k # n
    <3>1. Espera(fuente, pila[k], pila[k + 1].ruta)
      BY <2>1, <2>3 DEF PilaEsCamino
    <3> QED BY <1>4, <1>6, <2>1, <2>3, <3>1
  <2> QED BY <2>2, <2>3
<1> QED BY <1>8, <1>9, <1>10 DEF PilaEsCamino

(* Returning shortens it.                                                   *)
LEMMA CaminoRetorno ==
  ASSUME TypeOK, PilaEsCamino, pila # <<>>, Len(pila) # 1,
         NEW m \in Marco, m.ruta = Llamador.ruta, NEW f \in Fases, f # "en_proceso",
         pila' = [Desapilar EXCEPT ![Len(pila) - 1] = m],
         estados' = [estados EXCEPT ![Tope.ruta] = f], fuente' = fuente
  PROVE  PilaEsCamino'
<1> DEFINE n == Len(pila) - 1
<1>a. n \in Nat /\ n > 0 /\ Len(pila) = n + 1
  BY TopeTipo, Posiciones
<1>b. /\ Len(pila') = n
      /\ \A k \in 1 .. Len(pila) - 2 : pila'[k] = pila[k]
      /\ \A k \in 1 .. n : pila'[k].ruta = pila[k].ruta
  BY RetornoCambia
<1> HIDE DEF n
<1>c. Len(pila) - 2 = n - 1
  BY <1>a
<1>1. /\ \A k \in 1 .. n - 1 : pila'[k] = pila[k]
      /\ Tope = pila[n + 1] /\ Tope.ruta \in Rutas
  BY <1>a, <1>b, <1>c, TopeTipo DEF Tope
<1>d. \A k \in 1 .. n : k \in 1 .. n + 1 /\ k # n + 1
  BY <1>a
<1>2. \A k \in 1 .. n : pila[k].ruta # Tope.ruta
  <2>1. n + 1 \in 1 .. Len(pila)
    BY <1>a
  <2> QED BY <1>a, <1>1, <1>d, <2>1 DEF PilaEsCamino
<1>3. Activas' = Activas \ {Tope.ruta}
  <2>1. Activas' = {pila[k].ruta : k \in 1 .. n}
    BY <1>a, <1>b DEF Activas
  <2>2. \A k \in 1 .. n + 1 : k \in 1 .. n \/ k = n + 1
    BY <1>a
  <2>3. n + 1 \in 1 .. n + 1
    BY <1>a
  <2>4. Activas = {pila[k].ruta : k \in 1 .. n} \cup {Tope.ruta}
    BY <1>a, <1>1, <1>d, <2>2, <2>3 DEF Activas
  <2> QED BY <1>2, <2>1, <2>4
<1>4. \A r \in Rutas : estados'[r] = "en_proceso" <=> r \in Activas'
  BY <1>1, <1>3 DEF PilaEsCamino, TypeOK
<1>5. \A j, k \in 1 .. Len(pila') : pila'[j].ruta = pila'[k].ruta => j = k
  BY <1>a, <1>b, <1>d DEF PilaEsCamino
<1>6. ASSUME NEW k \in 1 .. Len(pila') - 1
      PROVE  Espera(fuente', pila'[k], pila'[k + 1].ruta)
  <2>1. k \in 1 .. n - 1 /\ k \in 1 .. Len(pila) - 1 /\ k + 1 \in 1 .. n
    BY <1>a, <1>b
  <2> QED BY <1>1, <1>b, <2>1 DEF PilaEsCamino
<1> QED BY <1>4, <1>5, <1>6 DEF PilaEsCamino

(* When the stack is emptied the module that ends was the only one active.  *)
LEMMA CaminoFin ==
  ASSUME TypeOK, PilaEsCamino, pila # <<>>, Len(pila) = 1, pila' = <<>>,
         NEW f \in Fases, f # "en_proceso", estados' = [estados EXCEPT ![Tope.ruta] = f]
  PROVE  PilaEsCamino'
<1>1. Activas = {Tope.ruta} /\ Tope.ruta \in Rutas
  BY TopeTipo DEF Activas, Tope
<1>2. Len(pila') = 0
  BY EmptySeq
<1>3. Activas' = {} /\ \A k \in 1 .. Len(pila') : FALSE
  BY <1>2 DEF Activas
<1>4. \A r \in Rutas : estados'[r] # "en_proceso"
  BY <1>1 DEF PilaEsCamino, TypeOK
<1>5. \A k \in 1 .. Len(pila') - 1 : FALSE
  BY <1>2
<1> QED BY <1>3, <1>4, <1>5 DEF PilaEsCamino

(* Every step keeps the stack a path.                                       *)
LEMMA PasoPila == TypeOK /\ PilaEsCamino /\ [Next]_vars => PilaEsCamino'
<1> SUFFICES ASSUME TypeOK, PilaEsCamino, [Next]_vars
             PROVE  PilaEsCamino'
  OBVIOUS
<1>1. CASE ResolverModuloUnico
  BY <1>1 DEF ResolverModuloUnico, PilaEsCamino, Activas
<1>2. CASE Comenzar
  <2>1. Entrada \in Rutas /\ MarcoNuevo(Entrada).ruta = Entrada
    BY ConstantesAssumption DEF MarcoNuevo
  <2>2. Len(pila) = 0 /\ Activas = {}
    BY <1>2, EmptySeq DEF Comenzar, Activas
  <2>3. pila' = <<MarcoNuevo(Entrada)>> /\ Len(pila') = 1
    BY <1>2 DEF Comenzar
  <2>4. pila'[1] = MarcoNuevo(Entrada)
    BY <2>3
  <2>5. Activas' = {Entrada}
    BY <2>1, <2>3, <2>4 DEF Activas
  <2>6. \A r \in Rutas : estados'[r] = "en_proceso" <=> r \in Activas'
    BY <1>2, <2>1, <2>2, <2>5 DEF Comenzar, PilaEsCamino, TypeOK
  <2>7. (\A j, k \in 1 .. Len(pila') : j = k) /\ \A k \in 1 .. Len(pila') - 1 : FALSE
    BY <2>3
  <2> QED BY <2>6, <2>7 DEF PilaEsCamino
<1>3. CASE RechazarReexport
  BY <1>3, SaltarCambia, CaminoMismaPila DEF RechazarReexport, QuedanImportaciones
<1>4. CASE DetectarCiclo
  BY <1>4, SaltarCambia, CaminoMismaPila DEF DetectarCiclo, Importa, QuedanImportaciones
<1>5. CASE UsarMemo
  <2> DEFINE m == Enlazar(Tope, ImportacionActual, exportaciones[Destino])
  <2>1. pila # <<>> /\ Destino \in Rutas /\ ImportacionActual \in Importacion
    BY <1>5, ActualTipo DEF UsarMemo, Importa
  <2>2. m \in Marco /\ m.ruta = Tope.ruta
    BY <2>1, TopeTipo, EnlazarTipo DEF TypeOK
  <2>3. pila' = [pila EXCEPT ![Len(pila)] = m] /\ UNCHANGED <<fuente, estados>>
    BY <1>5 DEF UsarMemo, Tope
  <2> HIDE DEF m
  <2> QED BY <2>1, <2>2, <2>3, CambiarTope, CaminoMismaPila
<1>6. CASE NoResolver
  BY <1>6, SaltarCambia, CaminoMismaPila DEF NoResolver, Importa, QuedanImportaciones
<1>7. CASE Descender
  BY <1>7, CaminoDescender
<1>8. CASE RetornarFallido
  <2>1. /\ pila # <<>> /\ fuente' = fuente /\ "fallido" \in Fases
        /\ estados' = [estados EXCEPT ![Tope.ruta] = "fallido"]
    BY <1>8 DEF RetornarFallido, Agotado, Fases
  <2>2. CASE Len(pila) = 1
    BY <1>8, <2>1, <2>2, CaminoFin DEF RetornarFallido
  <2>3. CASE Len(pila) # 1
    <3> DEFINE m == [Llamador EXCEPT !.pos = @ + 1]
    <3>1. m \in Marco /\ m.ruta = Llamador.ruta
      BY <2>1, <2>3, LlamadorTipo DEF Marco
    <3>2. pila' = [Desapilar EXCEPT ![Len(pila) - 1] = m]
      BY <1>8, <2>1, <2>3, UltimoDesapilado DEF RetornarFallido
    <3> HIDE DEF m
    <3> QED BY <2>1, <2>3, <3>1, <3>2, CaminoRetorno
  <2> QED BY <2>2, <2>3
<1>9. CASE RetornarListo
  <2> DEFINE tabla == TablaExportacion(fuente[Tope.ruta], Tope.ruta)
             i == Importaciones(Llamador.ruta)[Llamador.pos]
  <2>1. /\ pila # <<>> /\ fuente' = fuente /\ "listo" \in Fases
        /\ estados' = [estados EXCEPT ![Tope.ruta] = "listo"]
    BY <1>9 DEF RetornarListo, Agotado, Fases
  <2>2. CASE Len(pila) = 1
    BY <1>9, <2>1, <2>2, CaminoFin DEF RetornarListo
  <2>3. CASE Len(pila) # 1
    <3> DEFINE m == Enlazar(Llamador, i, tabla)
    <3>1. tabla \in [Nombres -> Internos \cup {Nulo}]
      BY <2>1, TopeTipo, FuenteTipo, TablaTipo DEF TypeOK
    <3>2. i \in Importacion /\ Llamador \in Marco
      BY <2>1, <2>3, ImportacionLlamadorTipo, LlamadorTipo
    <3>3. pila' = [Desapilar EXCEPT ![Len(pila) - 1] = m]
      BY <1>9, <2>1, <2>3, UltimoDesapilado DEF RetornarListo
    <3>4. m \in Marco /\ m.ruta = Llamador.ruta
      <4> HIDE DEF i, tabla
      <4> QED BY <3>1, <3>2, EnlazarTipo
    <3> HIDE DEF m
    <3> QED BY <2>1, <2>3, <3>3, <3>4, CaminoRetorno
  <2> QED BY <2>2, <2>3
<1>10. CASE Terminado \/ UNCHANGED vars
  BY <1>10 DEF Terminado, vars, PilaEsCamino, Activas
<1> QED BY <1>1, <1>2, <1>3, <1>4, <1>5, <1>6, <1>7, <1>8, <1>9, <1>10 DEF Next

(* The resolver's state has its types and its stack is a path of the import *)
(* graph that holds exactly the modules in process, on every project.       *)
THEOREM TiposYPila == Spec => [](TypeOK /\ PilaEsCamino)
<1>1. Init => TypeOK /\ PilaEsCamino
  BY InitTypeOK, InitPila
<1>2. TypeOK /\ PilaEsCamino /\ [Next]_vars => (TypeOK /\ PilaEsCamino)'
  BY PasoTypeOK, PasoPila
<1> QED BY <1>1, <1>2, PTL DEF Spec

-----------------------------------------------------------------------------
(* The order of the linked program.                                         *)

(* The order holds at the start.                                           *)
LEMMA InitOrden == Init => OrdenInductivo
<1> SUFFICES ASSUME Init PROVE OrdenInductivo
  OBVIOUS
<1>1. Len(pila) = 0 /\ Len(dependencias) = 0 /\ \A r \in Rutas : estados[r] = "ausente"
  BY EmptySeq DEF Init
<1>2. (\A k \in 1 .. Len(pila) : FALSE) /\ \A k \in 1 .. Len(dependencias) : FALSE
  BY <1>1
<1> QED BY <1>1, <1>2 DEF Init, OrdenInductivo, SinEmpezar, SinRecorrido, SinFallidos,
           LoPasadoEstaListo, EmitidosListos, OrdenDeDependencias

(* There is a walk only if the entry has imports.                           *)
LEMMA HayRecorrido ==
  ASSUME OrdenInductivo, pila # <<>>
  PROVE  Importaciones(Entrada) # <<>>
BY DEF OrdenInductivo, SinRecorrido

(* Steps that only work on the top frame.                                   *)
LEMMA OrdenMismosEstados ==
  ASSUME TypeOK, OrdenInductivo, pila # <<>>, Len(pila') = Len(pila),
         fuente' = fuente, estados' = estados, dependencias' = dependencias,
         ok' => ok, LoPasadoEstaListo'
  PROVE  OrdenInductivo'
<1>1. pila' # <<>>
  BY TopeTipo, EmptySeq
<1>2. SinEmpezar' /\ SinRecorrido'
  BY <1>1, HayRecorrido DEF SinEmpezar, SinRecorrido, Importaciones
<1>3. SinFallidos' /\ EmitidosListos' /\ OrdenDeDependencias'
  BY DEF OrdenInductivo, SinFallidos, EmitidosListos, OrdenDeDependencias, Importaciones
<1> QED BY <1>2, <1>3 DEF OrdenInductivo

(* A module met again keeps the order.                                     *)
LEMMA OrdenUsarMemo ==
  ASSUME TypeOK, OrdenInductivo, UsarMemo
  PROVE  OrdenInductivo'
<1> DEFINE i == ImportacionActual
           m == Enlazar(Tope, i, exportaciones[Destino])
<1>1. /\ pila # <<>> /\ Tope.pos \in 1 .. Len(Importaciones(Tope.ruta))
      /\ i \in Importacion /\ Destino \in Rutas /\ i.forma # "exportar_desde"
      /\ estados[Destino] \in {"fallido", "listo"}
  BY ActualTipo DEF UsarMemo, Importa
<1>2. m \in Marco /\ m.ruta = Tope.ruta /\ m.pos = Tope.pos + 1
  BY <1>1, TopeTipo, EnlazarTipo DEF TypeOK
<1>3. /\ pila' = [pila EXCEPT ![Len(pila)] = m]
      /\ UNCHANGED <<fuente, estados, dependencias>>
      /\ ok' => ok
  BY DEF UsarMemo, Tope
<1> HIDE DEF m
<1>4. /\ Len(pila') = Len(pila) /\ pila'[Len(pila)] = m
      /\ \A k \in 1 .. Len(pila) - 1 : pila'[k] = pila[k]
  BY <1>1, <1>2, <1>3, CambiarTope
<1>5. LoPasadoEstaListo'
  <2>a. ASSUME ok', NEW k \in 1 .. Len(pila),
               NEW j \in 1 .. Len(Importaciones(pila'[k].ruta)), j < pila'[k].pos
        PROVE  /\ Importaciones(pila'[k].ruta)[j].forma # "exportar_desde"
               /\ estados[Importaciones(pila'[k].ruta)[j].ruta] = "listo"
    <3>1. LoPasadoEstaListo /\ ok /\ estados[Destino] = "listo"
      BY <1>1, <1>3, <2>a DEF OrdenInductivo, SinFallidos
    <3>2. CASE k # Len(pila)
      <4>1. pila'[k] = pila[k]
        BY <1>1, <1>4, <3>2, TopeTipo
      <4> QED BY <2>a, <3>1, <4>1 DEF LoPasadoEstaListo
    <3>3. CASE k = Len(pila)
      <4>1. pila'[k] = m /\ pila[k] = Tope
        BY <1>4, <3>3 DEF Tope
      <4>2. j < Tope.pos \/ j = Tope.pos
        BY <1>1, <1>2, <2>a, <4>1, TopeTipo
      <4>3. CASE j < Tope.pos
        BY <1>2, <2>a, <3>1, <4>1, <4>3 DEF LoPasadoEstaListo
      <4>4. CASE j = Tope.pos
        BY <1>1, <1>2, <3>1, <4>1, <4>4 DEF Destino, ImportacionActual
      <4> QED BY <4>2, <4>3, <4>4
    <3> QED BY <3>2, <3>3
  <2>b. /\ Len(pila') = Len(pila) /\ estados' = estados
        /\ \A r : Importaciones(r)' = Importaciones(r)
    BY <1>3, <1>4 DEF Importaciones
  <2> QED BY <2>a, <2>b DEF LoPasadoEstaListo, Importaciones
<1> QED BY <1>1, <1>3, <1>4, <1>5, OrdenMismosEstados

(* A module entered keeps the order.                                       *)
LEMMA OrdenDescender ==
  ASSUME TypeOK, OrdenInductivo, Descender
  PROVE  OrdenInductivo'
<1> DEFINE n == Len(pila)
<1>1. /\ pila # <<>> /\ Destino \in Rutas /\ estados[Destino] = "ausente"
      /\ estados' = [estados EXCEPT ![Destino] = "en_proceso"]
      /\ UNCHANGED <<fuente, dependencias, ok>>
  BY ActualTipo DEF Descender, Importa
<1>2. n \in Nat /\ n > 0 /\ pila \in Seq(Marco)
  BY <1>1, TopeTipo DEF TypeOK
<1>3. MarcoNuevo(Destino) \in Marco /\ MarcoNuevo(Destino).pos = 1
  BY <1>1, MarcoNuevoTipo DEF MarcoNuevo
<1>4. /\ Len(pila') = n + 1 /\ pila' # <<>>
      /\ \A k \in 1 .. n : pila'[k] = pila[k]
      /\ pila'[n + 1].pos = 1
  BY <1>2, <1>3, AppendProperties DEF Descender
<1>5. \A r \in Rutas : /\ (estados'[r] = "listo") <=> (estados[r] = "listo")
                       /\ (estados'[r] = "fallido") => (estados[r] = "fallido")
  BY <1>1 DEF TypeOK
<1>6. SinEmpezar' /\ SinRecorrido' /\ SinFallidos'
  BY <1>1, <1>4, <1>5, HayRecorrido DEF SinEmpezar, SinRecorrido, SinFallidos, OrdenInductivo,
     Importaciones
<1>7. \A k \in 1 .. Len(dependencias) : dependencias[k].ruta \in Rutas
  <2>1. \A k \in 1 .. Len(dependencias) : dependencias[k] \in Enlazado
    BY ElementOfSeq DEF TypeOK
  <2> QED BY <2>1 DEF Enlazado
<1>8. EmitidosListos' /\ OrdenDeDependencias'
  BY <1>1, <1>5, <1>7 DEF EmitidosListos, OrdenDeDependencias, OrdenInductivo, Importaciones
<1>9. LoPasadoEstaListo'
  <2> SUFFICES ASSUME ok, NEW k \in 1 .. n + 1,
                      NEW j \in 1 .. Len(Importaciones(pila'[k].ruta)), j < pila'[k].pos
               PROVE  /\ Importaciones(pila'[k].ruta)[j].forma # "exportar_desde"
                      /\ estados'[Importaciones(pila'[k].ruta)[j].ruta] = "listo"
    BY <1>1, <1>4 DEF LoPasadoEstaListo, Importaciones
  <2>1. k # n + 1
    BY <1>4, ImportacionTipo
  <2>2. k \in 1 .. n /\ pila'[k] = pila[k] /\ pila[k].ruta \in Rutas
    BY <1>1, <1>2, <1>4, <2>1, TopeTipo
  <2>3. Importaciones(pila[k].ruta)[j].ruta \in Rutas
    BY <2>2, ImportacionTipo DEF TypeOK
  <2>4. /\ Importaciones(pila[k].ruta)[j].forma # "exportar_desde"
        /\ estados[Importaciones(pila[k].ruta)[j].ruta] = "listo"
    BY <2>2 DEF LoPasadoEstaListo, OrdenInductivo
  <2> QED BY <1>5, <2>2, <2>3, <2>4
<1> QED BY <1>6, <1>8, <1>9 DEF OrdenInductivo

(* Both returns: the module on top gets its verdict f.                      *)
LEMMA OrdenRetornarFallido ==
  ASSUME TypeOK, PilaEsCamino, OrdenInductivo, RetornarFallido
  PROVE  OrdenInductivo'
<1>1. /\ pila # <<>> /\ Tope.ruta \in Rutas /\ estados[Tope.ruta] = "en_proceso"
      /\ estados' = [estados EXCEPT ![Tope.ruta] = "fallido"] /\ ~ok'
      /\ UNCHANGED <<fuente, dependencias>>
  BY TopeTipo DEF RetornarFallido, Agotado, PilaEsCamino, Activas, Tope
<1>2. Importaciones(Entrada)' # <<>>
  BY <1>1, HayRecorrido DEF Importaciones
<1>3. SinEmpezar'
  <2>1. CASE Len(pila) = 1
    BY <2>1 DEF RetornarFallido, SinEmpezar
  <2>2. CASE Len(pila) # 1
    <3> DEFINE m == [Llamador EXCEPT !.pos = @ + 1]
    <3>1. m \in Marco /\ m.ruta = Llamador.ruta
      BY <1>1, <2>2, LlamadorTipo DEF Marco
    <3>2. pila' = [Desapilar EXCEPT ![Len(pila) - 1] = m]
      BY <1>1, <2>2, UltimoDesapilado DEF RetornarFallido
    <3> HIDE DEF m
    <3>3. Len(pila') = Len(pila) - 1 /\ Len(pila) - 1 > 0
      BY <1>1, <2>2, <3>1, <3>2, RetornoCambia
    <3>4. pila' # <<>>
      BY <3>3, EmptySeq
    <3> QED BY <3>4 DEF SinEmpezar
  <2> QED BY <2>1, <2>2
<1>4. \A r \in Rutas : (estados'[r] = "listo") <=> (estados[r] = "listo")
  BY <1>1 DEF TypeOK
<1>5. \A k \in 1 .. Len(dependencias) : dependencias[k].ruta \in Rutas
  <2>1. \A k \in 1 .. Len(dependencias) : dependencias[k] \in Enlazado
    BY ElementOfSeq DEF TypeOK
  <2> QED BY <2>1 DEF Enlazado
<1>6. EmitidosListos' /\ OrdenDeDependencias'
  BY <1>1, <1>4, <1>5 DEF EmitidosListos, OrdenDeDependencias, OrdenInductivo, Importaciones
<1>7. SinRecorrido' /\ SinFallidos' /\ LoPasadoEstaListo'
  BY <1>1, <1>2 DEF SinRecorrido, SinFallidos, LoPasadoEstaListo
<1> QED BY <1>3, <1>6, <1>7 DEF OrdenInductivo

(* What a module that ends well imports is in the program before it.        *)
LEMMA TopeCompleto ==
  ASSUME TypeOK, OrdenInductivo, ok, Agotado, NEW q \in Pide(fuente, Tope.ruta)
  PROVE  estados[q] = "listo"
<1>1. pila # <<>> /\ Tope.ruta \in Rutas /\ Tope.pos > Len(Importaciones(Tope.ruta))
  BY TopeTipo DEF Agotado
<1>2. PICK j \in 1 .. Len(fuente[Tope.ruta].importa) : q = fuente[Tope.ruta].importa[j].ruta
  BY DEF Pide
<1>3. Len(pila) \in 1 .. Len(pila) /\ Tope = pila[Len(pila)]
  BY <1>1, TopeTipo DEF Tope
<1>4. j < Tope.pos
  BY <1>1, <1>2, TopeTipo, ImportacionTipo DEF Importaciones, TypeOK
<1> QED BY <1>2, <1>3, <1>4 DEF OrdenInductivo, LoPasadoEstaListo, Importaciones

(* A module that ends well is emitted after what it imports.               *)
LEMMA OrdenRetornarListo ==
  ASSUME TypeOK, PilaEsCamino, OrdenInductivo, RetornarListo
  PROVE  OrdenInductivo'
<1> DEFINE d == Len(dependencias)
           i == Importaciones(Llamador.ruta)[Llamador.pos]
           tabla == TablaExportacion(fuente[Tope.ruta], Tope.ruta)
<1>1. /\ pila # <<>> /\ Tope \in Marco /\ Tope.ruta \in Rutas
      /\ estados[Tope.ruta] = "en_proceso" /\ ok
      /\ estados' = [estados EXCEPT ![Tope.ruta] = "listo"]
      /\ fuente' = fuente /\ ok /\ Agotado
  BY TopeTipo DEF RetornarListo, Agotado, PilaEsCamino, Activas, Tope
<1>2. Importaciones(Entrada) # <<>> /\ Importaciones(Entrada)' # <<>>
  BY <1>1, HayRecorrido DEF Importaciones
<1>3. Enlace(Tope) \in Enlazado /\ Enlace(Tope).ruta = Tope.ruta
  BY <1>1, EnlaceTipo DEF RetornarListo
<1>4. /\ d \in Nat /\ Len(dependencias') = d + 1
      /\ \A k \in 1 .. d : dependencias'[k] = dependencias[k]
      /\ dependencias'[d + 1].ruta = Tope.ruta
  BY <1>3, AppendProperties, LenProperties DEF RetornarListo, TypeOK
<1>5. \A r \in Rutas : /\ estados[r] = "listo" => estados'[r] = "listo"
                       /\ estados'[r] = "fallido" => estados[r] = "fallido"
                       /\ estados'[r] = "listo" => estados[r] = "listo" \/ r = Tope.ruta
  BY <1>1 DEF TypeOK
<1>6. \A k \in 1 .. d : /\ dependencias[k].ruta \in Rutas
                        /\ estados[dependencias[k].ruta] = "listo"
                        /\ dependencias[k].ruta # Tope.ruta
  <2>1. \A k \in 1 .. d : dependencias[k] \in Enlazado
    BY ElementOfSeq DEF TypeOK
  <2>2. \A k \in 1 .. d : dependencias[k].ruta \in Rutas
    BY <2>1 DEF Enlazado
  <2> QED BY <1>1, <1>2, <2>2 DEF OrdenInductivo, EmitidosListos
<1>7. \A k \in 1 .. d + 1 : k \in 1 .. d \/ k = d + 1
  BY <1>4
<1> HIDE DEF d, tabla, i
<1>8. EmitidosListos'
  <2>1. ASSUME NEW r \in Rutas, estados'[r] = "listo"
        PROVE  \E k \in 1 .. d + 1 : dependencias'[k].ruta = r
    <3>1. CASE r = Tope.ruta
      BY <1>4, <3>1
    <3>2. CASE r # Tope.ruta
      <4>1. PICK k \in 1 .. d : dependencias[k].ruta = r
        BY <1>5, <2>1, <3>2 DEF OrdenInductivo, EmitidosListos, d
      <4> QED BY <1>4, <4>1
    <3> QED BY <3>1, <3>2
  <2>2. ASSUME NEW k \in 1 .. d + 1
        PROVE  estados'[dependencias'[k].ruta] = "listo"
    <3>1. CASE k \in 1 .. d
      BY <1>4, <1>5, <1>6, <3>1
    <3>2. CASE k = d + 1
      BY <1>1, <1>4, <3>2 DEF TypeOK
    <3> QED BY <1>7, <3>1, <3>2
  <2> QED BY <1>4, <2>1, <2>2 DEF EmitidosListos
<1>9. OrdenDeDependencias'
  <2>1. \A j, k \in 1 .. d + 1 : dependencias'[j].ruta = dependencias'[k].ruta => j = k
    BY <1>4, <1>6, <1>7 DEF OrdenInductivo, OrdenDeDependencias, d
  <2>2. ASSUME NEW k \in 1 .. d + 1, NEW q \in Pide(fuente, dependencias'[k].ruta)
        PROVE  \E j \in 1 .. k - 1 : dependencias'[j].ruta = q
    <3>1. CASE k = d + 1
      <4>1. estados[q] = "listo" /\ q \in Rutas
        <5>1. q \in Pide(fuente, Tope.ruta)
          BY <1>4, <2>2, <3>1
        <5>2. q \in Rutas
          BY <1>1, <5>1, ImportacionTipo DEF Pide, Importaciones, TypeOK
        <5> QED BY <1>1, <5>1, <5>2, TopeCompleto
      <4>2. PICK j \in 1 .. d : dependencias[j].ruta = q
        BY <4>1 DEF OrdenInductivo, EmitidosListos, d
      <4> QED BY <1>4, <3>1, <4>2
    <3>2. CASE k \in 1 .. d
      <4>1. PICK j \in 1 .. k - 1 : dependencias[j].ruta = q
        BY <1>4, <2>2, <3>2 DEF OrdenInductivo, OrdenDeDependencias, d
      <4>2. j \in 1 .. d
        BY <1>4, <3>2
      <4> QED BY <1>4, <4>1, <4>2
    <3> QED BY <1>7, <3>1, <3>2
  <2> QED BY <1>1, <1>4, <2>1, <2>2 DEF OrdenDeDependencias
<1>10. SinRecorrido' /\ (ok' => SinFallidos')
  BY <1>1, <1>2, <1>5 DEF SinRecorrido, SinFallidos, OrdenInductivo
<1>11. SinEmpezar' /\ LoPasadoEstaListo'
  <2>1. CASE Len(pila) = 1
    <3>1. pila' = <<>> /\ resultado' = "programa" /\ Len(pila') = 0
      BY <2>1, EmptySeq DEF RetornarListo
    <3>2. \A k \in 1 .. Len(pila') : FALSE
      BY <3>1
    <3> QED BY <3>1, <3>2 DEF SinEmpezar, LoPasadoEstaListo
  <2>2. CASE Len(pila) # 1
    <3> DEFINE m == Enlazar(Llamador, i, tabla)
               n == Len(pila) - 1
    <3>1. tabla \in [Nombres -> Internos \cup {Nulo}]
      BY <1>1, FuenteTipo, TablaTipo DEF TypeOK, tabla
    <3>2. /\ i \in Importacion /\ Llamador \in Marco
          /\ i.ruta = Tope.ruta /\ i.forma # "exportar_desde"
      BY <1>1, <2>2, ImportacionLlamadorTipo, LlamadorTipo DEF i
    <3>3. pila' = [Desapilar EXCEPT ![Len(pila) - 1] = m]
      BY <1>1, <2>2, UltimoDesapilado DEF RetornarListo, i, tabla
    <3>4. m \in Marco /\ m.ruta = Llamador.ruta /\ m.pos = Llamador.pos + 1
      BY <3>1, <3>2, EnlazarTipo
    <3> HIDE DEF m
    <3>5. /\ Len(pila') = n /\ n > 0 /\ pila'[n] = m
          /\ \A k \in 1 .. Len(pila) - 2 : pila'[k] = pila[k]
          /\ \A k \in 1 .. n : pila'[k].ruta = pila[k].ruta
      BY <1>1, <2>2, <3>3, <3>4, RetornoCambia
    <3>6. n \in Nat /\ Len(pila) = n + 1 /\ Len(pila) - 2 = n - 1 /\ pila[n] = Llamador
      BY <1>1, <2>2, TopeTipo DEF Llamador
    <3> HIDE DEF n
    <3>7. pila' # <<>>
      BY <3>5, <3>6, EmptySeq
    <3>8. ASSUME ok', NEW k \in 1 .. n,
                 NEW j \in 1 .. Len(Importaciones(pila[k].ruta)), j < pila'[k].pos
          PROVE  /\ Importaciones(pila[k].ruta)[j].forma # "exportar_desde"
                 /\ estados'[Importaciones(pila[k].ruta)[j].ruta] = "listo"
      <4>1. k \in 1 .. Len(pila) /\ pila[k].ruta \in Rutas
        BY <1>1, <3>6, TopeTipo
      <4>2. Importaciones(pila[k].ruta)[j].ruta \in Rutas /\ j \in Nat
        BY <4>1, ImportacionTipo DEF TypeOK
      <4>3. CASE j < pila[k].pos
        BY <1>1, <1>5, <4>1, <4>2, <4>3 DEF OrdenInductivo, LoPasadoEstaListo
      <4>4. CASE ~ (j < pila[k].pos)
        <5>1. k = n
          <6>1. k # n => k \in 1 .. Len(pila) - 2
            BY <3>6
          <6> QED BY <3>5, <3>8, <4>4, <6>1
        <5>2. pila'[k].pos = Llamador.pos + 1 /\ pila[k].pos = Llamador.pos
          BY <3>4, <3>5, <3>6, <5>1
        <5>3. Llamador.pos \in Nat
          BY <3>2 DEF Marco
        <5>4. j = Llamador.pos
          BY <3>8, <4>2, <4>4, <5>2, <5>3
        <5>5. Importaciones(pila[k].ruta)[j] = i
          BY <3>6, <5>1, <5>4 DEF i
        <5> QED BY <1>1, <3>2, <5>5 DEF TypeOK
      <4> QED BY <4>3, <4>4
    <3>9. LoPasadoEstaListo'
      <4>1. /\ \A r : Importaciones(r)' = Importaciones(r)
            /\ \A k \in 1 .. n : Importaciones(pila'[k].ruta) = Importaciones(pila[k].ruta)
        BY <1>1, <3>5 DEF Importaciones
      <4> QED BY <3>5, <3>8, <4>1 DEF LoPasadoEstaListo
    <3> QED BY <3>7, <3>9 DEF SinEmpezar
  <2> QED BY <2>1, <2>2
<1> QED BY <1>8, <1>9, <1>10, <1>11 DEF OrdenInductivo, SinFallidos

(* The order is kept by every step.                                         *)
LEMMA PasoOrden == TypeOK /\ PilaEsCamino /\ OrdenInductivo /\ [Next]_vars => OrdenInductivo'
<1> SUFFICES ASSUME TypeOK, PilaEsCamino, OrdenInductivo, [Next]_vars
             PROVE  OrdenInductivo'
  OBVIOUS
<1>1. CASE ResolverModuloUnico
  <2> DEFINE e == Enlace(MarcoNuevo(Entrada))
  <2>1. Entrada \in Rutas
    BY ConstantesAssumption
  <2>2. MarcoNuevo(Entrada) \in Marco /\ \A n \in Nombres : MarcoNuevo(Entrada).espacios[n] = Nulo
    BY <2>1, MarcoNuevoTipo DEF MarcoNuevo
  <2>3. e.ruta = Entrada
    BY <2>2, EnlaceTipo DEF MarcoNuevo
  <2>4. /\ dependencias' = <<e>> /\ resultado' = "programa" /\ Importaciones(Entrada) = <<>>
        /\ UNCHANGED <<fuente, estados, pila, ok>>
    BY <1>1 DEF ResolverModuloUnico
  <2> HIDE DEF e
  <2>5. Len(dependencias') = 1 /\ \A k \in 1 .. Len(dependencias') : k = 1 /\ dependencias'[k].ruta = Entrada
    BY <2>3, <2>4
  <2>6. Pide(fuente, Entrada) = {}
    <3>1. Len(fuente[Entrada].importa) = 0
      BY <2>4, EmptySeq DEF Importaciones
    <3> QED BY <3>1 DEF Pide
  <2>7. OrdenDeDependencias'
    BY <2>4, <2>5, <2>6 DEF OrdenDeDependencias
  <2>8. SinEmpezar' /\ SinRecorrido' /\ SinFallidos' /\ LoPasadoEstaListo'
    BY <2>4 DEF SinEmpezar, SinRecorrido, SinFallidos, LoPasadoEstaListo, OrdenInductivo,
       Importaciones
  <2>9. EmitidosListos'
    <3>1. \A r \in Rutas : estados'[r] = "ausente"
      BY <2>4 DEF OrdenInductivo, SinRecorrido
    <3>2. Importaciones(Entrada)' = <<>>
      BY <2>4 DEF Importaciones
    <3> QED BY <3>1, <3>2 DEF EmitidosListos
  <2> QED BY <2>7, <2>8, <2>9 DEF OrdenInductivo
<1>2. CASE Comenzar
  <2>1. /\ Entrada \in Rutas /\ Importaciones(Entrada) # <<>>
        /\ dependencias = <<>> /\ \A r \in Rutas : estados[r] = "ausente"
        /\ pila' = <<MarcoNuevo(Entrada)>> /\ MarcoNuevo(Entrada).pos = 1
        /\ estados' = [estados EXCEPT ![Entrada] = "en_proceso"]
        /\ UNCHANGED <<fuente, dependencias, ok>>
    BY <1>2, ConstantesAssumption DEF Comenzar, OrdenInductivo, SinEmpezar, MarcoNuevo
  <2>2. \A r \in Rutas : estados'[r] # "listo" /\ estados'[r] # "fallido"
    BY <2>1 DEF TypeOK
  <2>3. Len(dependencias') = 0 /\ \A k \in 1 .. Len(dependencias') : FALSE
    BY <2>1, EmptySeq
  <2>4. Len(pila') = 1 /\ pila' # <<>> /\ pila'[1].pos = 1 /\ pila'[1].ruta = Entrada
    BY <2>1, EmptySeq DEF MarcoNuevo
  <2>5. LoPasadoEstaListo'
    <3>1. \A k \in 1 .. Len(pila') : k = 1
      BY <2>4
    <3>2. \A j \in 1 .. Len(Importaciones(Entrada)) : ~ (j < 1)
      BY <2>1, ImportacionTipo DEF TypeOK
    <3> QED BY <2>1, <2>4, <3>1, <3>2 DEF LoPasadoEstaListo, Importaciones
  <2> QED BY <2>1, <2>2, <2>3, <2>4, <2>5 DEF OrdenInductivo, SinEmpezar, SinRecorrido, SinFallidos,
             EmitidosListos, OrdenDeDependencias, Importaciones
<1>3. ASSUME pila # <<>>, Saltar, ok' = FALSE, UNCHANGED <<fuente, estados, dependencias>>
      PROVE  OrdenInductivo'
  BY <1>3, SaltarCambia, OrdenMismosEstados DEF LoPasadoEstaListo
<1>4. CASE RechazarReexport \/ DetectarCiclo \/ NoResolver
  BY <1>3, <1>4 DEF RechazarReexport, DetectarCiclo, NoResolver, Importa, QuedanImportaciones
<1>5. CASE Terminado \/ UNCHANGED vars
  <2>1. UNCHANGED vars
    BY <1>5 DEF Terminado
  <2> QED BY <2>1 DEF vars, OrdenInductivo, SinEmpezar, SinRecorrido, SinFallidos,
             LoPasadoEstaListo, EmitidosListos, OrdenDeDependencias, Importaciones
<1> QED BY <1>1, <1>2, <1>4, <1>5, OrdenUsarMemo, OrdenDescender, OrdenRetornarFallido,
           OrdenRetornarListo DEF Next

(* A module joins the program once and after everything it imports: for     *)
(* every project, whatever fails and in whatever order it is found.         *)
THEOREM OrdenEsInvariante == Spec => [](OrdenInductivo /\ OrdenDeDependencias)
<1>1. OrdenInductivo => OrdenDeDependencias
  BY DEF OrdenInductivo
<1>2. TypeOK /\ PilaEsCamino /\ OrdenInductivo /\ [Next]_vars => OrdenInductivo'
  BY PasoOrden
<1> QED BY <1>1, <1>2, InitOrden, TiposYPila, PTL DEF Spec

(* A module that is done is never entered again, and its table never moves. *)
THEOREM MemoEsFinal == Spec => MemoFinal
<1> DEFINE A == \A r \in Rutas :
                  /\ estados[r] \in {"fallido", "listo"}
                       => estados'[r] = estados[r] /\ exportaciones'[r] = exportaciones[r]
                  /\ estados[r] = "en_proceso" => estados'[r] # "ausente"
<1>1. TypeOK /\ PilaEsCamino /\ OrdenInductivo /\ [Next]_vars => [A]_vars
  <2> SUFFICES ASSUME TypeOK, PilaEsCamino, OrdenInductivo, Next
               PROVE  A
    BY DEF vars
  <2>1. ASSUME UNCHANGED <<estados, exportaciones>>
        PROVE  A
    BY <2>1
  <2>2. ASSUME NEW q \in Rutas, NEW f \in {"en_proceso", "fallido", "listo"},
               estados[q] \in {"ausente", "en_proceso"},
               estados' = [estados EXCEPT ![q] = f],
               \A r \in Rutas : r # q => exportaciones'[r] = exportaciones[r]
        PROVE  A
    BY <2>2 DEF TypeOK
  <2>3. pila # <<>> => Tope.ruta \in Rutas /\ estados[Tope.ruta] = "en_proceso"
    BY TopeTipo DEF PilaEsCamino, Activas, Tope
  <2>4. CASE Comenzar
    <3>1. Entrada \in Rutas /\ estados[Entrada] = "ausente"
      BY <2>4, ConstantesAssumption DEF Comenzar, OrdenInductivo, SinEmpezar
    <3> QED BY <2>2, <2>4, <3>1 DEF Comenzar
  <2>5. CASE Descender
    BY <2>2, <2>5, ActualTipo DEF Descender, Importa
  <2>6. CASE RetornarFallido
    BY <2>2, <2>3, <2>6 DEF RetornarFallido, Agotado
  <2>7. CASE RetornarListo
    BY <2>2, <2>3, <2>7 DEF RetornarListo, Agotado, TypeOK
  <2> QED BY <2>1, <2>4, <2>5, <2>6, <2>7 DEF Next, ResolverModuloUnico, RechazarReexport,
             DetectarCiclo, UsarMemo, NoResolver, Terminado, vars
<1> QED BY <1>1, TiposYPila, OrdenEsInvariante, PTL DEF Spec, MemoFinal

-----------------------------------------------------------------------------
(* The chain of a circular import.                                          *)

(* An activation waits for a file its own file asks for.                    *)
LEMMA EsperaPide ==
  ASSUME NEW m, NEW q, m.pos \in Nat \ {0}, Espera(fuente, m, q),
         Len(fuente[m.ruta].importa) \in Nat
  PROVE  q \in Pide(fuente, m.ruta)
BY DEF Espera, Pide

(* A step keeps the chain of a reported circle a circle.                   *)
LEMMA PasoCadena ==
  ASSUME TypeOK, PilaEsCamino, CadenaEsCiclo, [Next]_vars
  PROVE  CadenaEsCiclo'
<1>1. CASE DetectarCiclo
  <2> DEFINE l == Len(pila)
             d == CHOOSE k \in 1 .. Len(pila) : pila[k].ruta = Destino
             n == l - d + 2
             c == [k \in 1 .. n |-> IF k = n THEN Destino ELSE pila[d + k - 1].ruta]
  <2>1. /\ pila # <<>> /\ Destino \in Rutas /\ estados[Destino] = "en_proceso"
        /\ Tope.pos \in 1 .. Len(Importaciones(Tope.ruta))
        /\ ImportacionActual.forma # "exportar_desde"
        /\ l \in Nat /\ l > 0 /\ fuente' = fuente
    BY <1>1, ActualTipo, TopeTipo DEF DetectarCiclo, Importa
  <2>2. Destino \in Activas
    BY <2>1 DEF PilaEsCamino
  <2>3. d \in 1 .. l /\ pila[d].ruta = Destino
    BY <2>2 DEF Activas
  <2>4. cadena' = c
    BY <1>1 DEF DetectarCiclo
  <2>5. /\ \A k \in 1 .. l - 1 : Espera(fuente, pila[k], pila[k + 1].ruta)
        /\ Espera(fuente, pila[l], Destino)
    <3>1. \A k \in 1 .. l - 1 : Espera(fuente, pila[k], pila[k + 1].ruta)
      BY DEF PilaEsCamino
    <3>2. Espera(fuente, Tope, Destino)
      BY <2>1 DEF Espera, Destino, ImportacionActual, Importaciones
    <3> QED BY <3>1, <3>2 DEF Tope
  <2>6. ASSUME NEW k \in 1 .. l, NEW q, Espera(fuente, pila[k], q)
        PROVE  q \in Pide(fuente, pila[k].ruta)
    <3>1. pila[k].ruta \in Rutas /\ pila[k].pos \in Nat \ {0}
      BY <2>1, TopeTipo DEF Marco
    <3>2. Len(fuente[pila[k].ruta].importa) \in Nat
      BY <3>1, ImportacionTipo DEF Importaciones, TypeOK
    <3> QED BY <2>6, <3>1, <3>2, EsperaPide
  <2>7. \A k \in 1 .. l : k # l => k \in 1 .. l - 1
    BY <2>1
  <2> HIDE DEF d, l
  <2>8. n \in Nat /\ n > 1 /\ Len(c) = n
    BY <2>1, <2>3
  <2>9. c[1] = Destino /\ c[n] = Destino
    BY <2>1, <2>3
  <2>10. ASSUME NEW k \in 1 .. n - 1
         PROVE  c[k + 1] \in Pide(fuente, c[k])
    <3> DEFINE h == d + k - 1
    <3>1. h \in 1 .. l /\ k \in 1 .. n /\ k # n /\ k + 1 \in 1 .. n
      BY <2>1, <2>3
    <3>2. c[k] = pila[h].ruta
      BY <3>1
    <3>3. CASE k + 1 = n
      <4>1. h = l /\ c[k + 1] = Destino
        BY <2>1, <2>3, <3>1, <3>3
      <4> QED BY <2>5, <2>6, <3>1, <3>2, <4>1
    <3>4. CASE k + 1 # n
      <4>1. h # l /\ d + (k + 1) - 1 = h + 1
        BY <2>1, <2>3, <3>1, <3>4
      <4>2. c[k + 1] = pila[d + (k + 1) - 1].ruta
        BY <3>1, <3>4
      <4> HIDE DEF h, c
      <4> QED BY <2>5, <2>6, <2>7, <3>1, <3>2, <4>1, <4>2
    <3> QED BY <3>3, <3>4
  <2> HIDE DEF n, c
  <2> QED BY <2>1, <2>4, <2>8, <2>9, <2>10 DEF CadenaEsCiclo
<1>2. CASE cadena' = cadena /\ fuente' = fuente
  BY <1>2 DEF CadenaEsCiclo
<1> QED BY <1>1, <1>2 DEF Next, vars, ResolverModuloUnico, Comenzar, RechazarReexport, UsarMemo,
           NoResolver, Descender, RetornarFallido, RetornarListo, Terminado

(* The chain printed with a circular import is a circle of the project.     *)
THEOREM CadenaEsSiempreCiclo == Spec => []CadenaEsCiclo
<1>1. Init => CadenaEsCiclo
  BY DEF Init, CadenaEsCiclo
<1>2. TypeOK /\ PilaEsCamino /\ CadenaEsCiclo /\ [Next]_vars => CadenaEsCiclo'
  BY PasoCadena
<1> QED BY <1>1, <1>2, TiposYPila, PTL DEF Spec

-----------------------------------------------------------------------------
(***************************************************************************)
(* What the resolver answers and the program it links: every reference     *)
(* resolved, the verdict the one the project deserves, and the walk a      *)
(* refinement of the abstract linker.                                      *)
(***************************************************************************)

(* The exports of the file of an import, which is supported and names only  *)
(* such.                                                                    *)
TablaDe(p, i) == TablaExportacion(p[i.ruta], i.ruta)
ImportacionSana(p, i) == i.forma # "exportar_desde" /\ TodoExportado(i, TablaDe(p, i))

(* What the names of file r stand for after its first k imports.            *)
Nombra(p, r, n, B) ==
  IF B = {} THEN RenombresPropios(p[r], r)[n] ELSE Ligado(p, p[r], Ultima(B))
RenombresHasta(p, r, k) == [n \in Nombres |-> Nombra(p, r, n, Ligaduras(p[r], n, k))]

(* The maps of an activation say what the imports it has gone past say.     *)
AlDia(p, m) ==
  /\ \A j \in 1 .. Len(p[m.ruta].importa) :
       j < m.pos => ImportacionSana(p, p[m.ruta].importa[j])
  /\ m.espacios = EspaciosHasta(p[m.ruta], m.pos - 1)
  /\ m.renombres = RenombresHasta(p, m.ruta, m.pos - 1)

(* An emitted module is one of the files reached, nothing in it stops the   *)
(* resolver, and it carries its mangled names and its references resolved.  *)
EmisionFiel(p, d) ==
  /\ d.ruta \in Alcanzadas(p) /\ Sano(p, d.ruta)
  /\ d.declara = {Manglar(d.ruta, p[d.ruta].declara[k].nombre) :
                    k \in 1 .. Len(p[d.ruta].declara)}
  /\ d.usa = {Significado(p, d.ruta, u) : u \in p[d.ruta].usa}

TablasFieles ==
  \A r \in Rutas :
    estados[r] = "listo" => exportaciones[r] = TablaExportacion(fuente[r], r)
SoloAlcanzadas ==
  \A r \in Rutas : estados[r] # "ausente" => r \in Alcanzadas(fuente) /\ Importable(fuente[r])
DesdeLaEntrada ==
  /\ pila # <<>> => pila[1].ruta = Entrada /\ resultado = "pendiente"
  /\ \A k \in 1 .. Len(pila) : pila[k].pos <= Len(Importaciones(pila[k].ruta)) + 1
MarcosAlDia == ok => \A k \in 1 .. Len(pila) : AlDia(fuente, pila[k])
RechazoJustificado == ~ok => ~ProyectoValido(fuente)
EmitidosFieles ==
  /\ \A k \in 1 .. Len(dependencias) : EmisionFiel(fuente, dependencias[k])
  /\ ReferenciasResueltas
Cierre ==
  /\ resultado = "nulo" => ~ok
  /\ resultado = "programa" => \E k \in 1 .. Len(dependencias) : dependencias[k].ruta = Entrada
EnlaceInductivo ==
  /\ TablasFieles /\ SoloAlcanzadas /\ DesdeLaEntrada /\ MarcosAlDia
  /\ RechazoJustificado /\ EmitidosFieles /\ Cierre

-----------------------------------------------------------------------------
(* The parts of a file.                                                     *)

(* The declarations, imports and references of a file have their types.     *)
LEMMA ArchivoTipo ==
  ASSUME NEW a \in Archivo
  PROVE  /\ Len(a.declara) \in Nat /\ Len(a.importa) \in Nat
         /\ \A k \in 1 .. Len(a.declara) : a.declara[k].nombre \in Nombres
         /\ \A k \in 1 .. Len(a.importa) :
              a.importa[k] \in Importacion /\ a.importa[k].ruta \in Rutas
         /\ a.usa \subseteq Uso
<1>1. /\ a.declara \in Seq(Declaracion) /\ a.importa \in Seq(Importacion)
      /\ a.usa \subseteq Uso
  BY DEF Archivo
<1>2. /\ \A k \in 1 .. Len(a.declara) : a.declara[k] \in Declaracion
      /\ \A k \in 1 .. Len(a.importa) : a.importa[k] \in Importacion
  BY <1>1, ElementOfSeq
<1>3. /\ \A d \in Declaracion : d.nombre \in Nombres
      /\ \A i \in Importacion : i.ruta \in Rutas
  BY DEF Declaracion, Importacion
<1> QED BY <1>1, <1>2, <1>3, LenProperties

(* An import that is not of a namespace has pairs of names.                 *)
LEMMA ParesTipo ==
  ASSUME NEW i \in Importacion, i.forma # "espacio"
  PROVE  /\ Len(i.pares) \in Nat
         /\ \A k \in 1 .. Len(i.pares) :
              i.pares[k].origen \in Nombres /\ i.pares[k].alias \in Nombres
<1>1. i.pares \in Seq(Par)
  <2>1. i \notin [forma : {"espacio"}, ruta : Rutas, alias : Nombres]
    OBVIOUS
  <2> DEFINE F == {"nombrado", "por_defecto", "exportar_desde"}
  <2> HIDE DEF F
  <2>2. i \in [forma : F, ruta : Rutas, pares : Seq(Par)]
    BY <2>1 DEF Importacion, F
  <2> QED BY <2>2
<1>2. \A k \in 1 .. Len(i.pares) : i.pares[k] \in Par
  BY <1>1, ElementOfSeq
<1>3. \A q \in Par : q.origen \in Nombres /\ q.alias \in Nombres
  BY DEF Par
<1> QED BY <1>1, <1>2, <1>3, LenProperties

(* One of a namespace has an alias.                                         *)
LEMMA EspacioTipo ==
  ASSUME NEW i \in Importacion, i.forma = "espacio"
  PROVE  i.alias \in Nombres /\ i.ruta \in Rutas
BY DEF Importacion

(* The names of a reference.                                                *)
LEMMA UsoTipo ==
  ASSUME NEW u \in Uso
  PROVE  /\ u.nombre \in Nombres /\ Raiz(u) \in Nombres
         /\ EsCalificado(u) => u.espacio \in Nombres
BY DEF Uso, EsCalificado, Raiz

(* What a table exports is the mangled name of a declaration of its file.   *)
LEMMA TablaDeclarada ==
  ASSUME NEW a \in Archivo, NEW r \in Rutas, NEW n \in Nombres,
         TablaExportacion(a, r)[n] # Nulo
  PROVE  \E k \in 1 .. Len(a.declara) :
           TablaExportacion(a, r)[n] = Manglar(r, a.declara[k].nombre)
<1>1. TablaExportacion(a, r)[n] = Exporta(a, r, n)
  BY DEF TablaExportacion
<1>2. CASE n = Defecto /\ \E k \in 1 .. Len(a.declara) : EsUltimoDefecto(a, k)
  <2> DEFINE c == CHOOSE j \in 1 .. Len(a.declara) : EsUltimoDefecto(a, j)
  <2>1. c \in 1 .. Len(a.declara)
    BY <1>2
  <2>2. Exporta(a, r, n) = Manglar(r, a.declara[c].nombre)
    BY <1>2 DEF Exporta
  <2> QED BY <1>1, <2>1, <2>2
<1>3. CASE ~(n = Defecto /\ \E k \in 1 .. Len(a.declara) : EsUltimoDefecto(a, k))
  <2>1. /\ Exporta(a, r, n) = Manglar(r, n)
        /\ \E k \in 1 .. Len(a.declara) : a.declara[k].nombre = n
    BY <1>1, <1>3 DEF Exporta
  <2> QED BY <1>1, <2>1
<1> QED BY <1>2, <1>3

-----------------------------------------------------------------------------
(* Pairs and namespaces, one import at a time.                              *)

(* Pair j of import h of file a binds alias n.                              *)
Liga(a, n, h, j) ==
  /\ a.importa[h].forma # "espacio"
  /\ j \in 1 .. Len(a.importa[h].pares) /\ a.importa[h].pares[j].alias = n

(* What the pairs of the first imports with one alias are.                  *)
LEMMA EnLigaduras ==
  ASSUME NEW a, NEW n, NEW k, NEW b
  PROVE  b \in Ligaduras(a, n, k) <=> \E h \in 1 .. k : \E j : Liga(a, n, h, j) /\ b = <<h, j>>
BY DEF Ligaduras, Liga

(* Some pairs with one alias have a last one.                               *)
LEMMA UltimaExiste ==
  ASSUME NEW a \in Archivo, NEW n, NEW k \in 0 .. Len(a.importa), Ligaduras(a, n, k) # {}
  PROVE  \E b \in Ligaduras(a, n, k) : EsUltima(Ligaduras(a, n, k), b)
<1> DEFINE B == Ligaduras(a, n, k)
           Es(h, j) == h \in 1 .. k /\ Liga(a, n, h, j)
           H == {h \in 1 .. k : \E j : Es(h, j)}
<1>1. \A b : b \in B <=> \E h, j : Es(h, j) /\ b = <<h, j>>
  BY EnLigaduras
<1>2. k \in Nat /\ \A h \in 1 .. k : h \in 1 .. Len(a.importa)
  BY ArchivoTipo
<1>3. H # {}
  BY <1>1
<1>4. PICK h \in H : \A y \in H : y <= h
  <2> HIDE DEF H
  <2>1. H \in SUBSET (1 .. k)
    BY DEF H
  <2> QED BY <1>2, <1>3, <2>1, Maximo
<1> DEFINE l == Len(a.importa[h].pares)
           J == {j \in 1 .. l : Es(h, j)}
<1>5. l \in Nat
  <2>1. a.importa[h] \in Importacion /\ a.importa[h].forma # "espacio"
    BY <1>2, <1>4, ArchivoTipo DEF Liga
  <2> QED BY <2>1, ParesTipo
<1>6. J # {}
  BY <1>4 DEF Liga
<1>7. PICK j \in J : \A y \in J : y <= j
  <2>1. J \in SUBSET (1 .. l)
    OBVIOUS
  <2> HIDE DEF J, l
  <2> QED BY <1>5, <1>6, <2>1, Maximo
<1>8. <<h, j>> \in B
  BY <1>1, <1>7
<1>9. ASSUME NEW c \in B
      PROVE  c[1] < h \/ (c[1] = h /\ c[2] <= j)
  <2>1. PICK hc, jc : Es(hc, jc) /\ c = <<hc, jc>>
    BY <1>1
  <2>2. hc \in H /\ (hc = h => jc \in J)
    BY <2>1 DEF Liga
  <2>3. hc \in Nat /\ h \in Nat
    BY <2>1, <1>4
  <2> HIDE DEF H, J, B, Es
  <2>4. hc <= h /\ (hc = h => jc <= j)
    BY <1>4, <1>7, <2>2
  <2> QED BY <2>1, <2>3, <2>4
<1> QED BY <1>8, <1>9 DEF EsUltima

(* There is only one.                                                       *)
LEMMA UltimaUnica ==
  ASSUME NEW B \in SUBSET (Nat \X Nat), NEW b, EsUltima(B, b)
  PROVE  Ultima(B) = b
<1> DEFINE e == Ultima(B)
<1>1. b \in B /\ e \in B /\ EsUltima(B, e)
  BY DEF EsUltima, Ultima
<1> HIDE DEF e
<1>2. /\ b[1] \in Nat /\ b[2] \in Nat /\ e[1] \in Nat /\ e[2] \in Nat
      /\ b = <<b[1], b[2]>> /\ e = <<e[1], e[2]>>
  BY <1>1
<1>3. /\ e[1] < b[1] \/ (e[1] = b[1] /\ e[2] <= b[2])
      /\ b[1] < e[1] \/ (b[1] = e[1] /\ b[2] <= e[2])
  BY <1>1 DEF EsUltima
<1>4. e[1] = b[1] /\ e[2] = b[2]
  BY <1>2, <1>3
<1>5. e = b
  BY <1>2, <1>4
<1> QED BY <1>5 DEF e

(* The positions up to l are those before it and l.                         *)
LEMMA Hasta ==
  ASSUME NEW k \in Nat, NEW l, l = k + 1
  PROVE  \A h : h \in 1 .. l <=> h \in 1 .. k \/ h = l
OBVIOUS

(* An import that binds nothing to a name leaves its pairs as they were.    *)
LEMMA LigadurasQueda ==
  ASSUME NEW a, NEW n, NEW k \in Nat, NEW l, l = k + 1, \A j : ~Liga(a, n, l, j)
  PROVE  Ligaduras(a, n, l) = Ligaduras(a, n, k)
<1>1. /\ \A b : b \in Ligaduras(a, n, l) <=> \E h \in 1 .. l : \E j : Liga(a, n, h, j) /\ b = <<h, j>>
      /\ \A b : b \in Ligaduras(a, n, k) <=> \E h \in 1 .. k : \E j : Liga(a, n, h, j) /\ b = <<h, j>>
  BY EnLigaduras
<1>2. \A b : b \in Ligaduras(a, n, l) <=> b \in Ligaduras(a, n, k)
  BY <1>1, Hasta
<1> QED BY <1>2 DEF Ligaduras

(* One that binds it puts its last pair last.                               *)
LEMMA LigadurasAvanza ==
  ASSUME NEW a, NEW n, NEW k \in Nat, NEW l, l = k + 1,
         NEW c, Liga(a, n, l, c), \A j : Liga(a, n, l, j) => j <= c
  PROVE  Ligaduras(a, n, l) # {} /\ Ultima(Ligaduras(a, n, l)) = <<l, c>>
<1> DEFINE B == Ligaduras(a, n, l)
           z == <<l, c>>
<1>1. \A b : b \in B <=> \E h \in 1 .. l : \E j : Liga(a, n, h, j) /\ b = <<h, j>>
  BY EnLigaduras
<1>2. z \in B
  <2>1. l \in 1 .. l
    OBVIOUS
  <2> HIDE DEF B
  <2> QED BY <1>1, <2>1
<1>3. \A h \in 1 .. l : \A j : Liga(a, n, h, j) => j \in Nat
  BY DEF Liga
<1>4. B \in SUBSET (Nat \X Nat)
  <2> HIDE DEF B
  <2> QED BY <1>1, <1>3
<1>5. ASSUME NEW b \in B
      PROVE  b[1] < z[1] \/ (b[1] = z[1] /\ b[2] <= z[2])
  <2>1. PICK h \in 1 .. l : \E j : Liga(a, n, h, j) /\ b = <<h, j>>
    BY <1>1
  <2>2. PICK j : Liga(a, n, h, j) /\ b = <<h, j>>
    BY <2>1
  <2>3. h < l \/ (h = l /\ j <= c)
    BY <2>2
  <2> QED BY <2>2, <2>3
<1>6. EsUltima(B, z)
  BY <1>2, <1>5 DEF EsUltima
<1> HIDE DEF B, z
<1>7. Ultima(B) = z
  BY <1>4, <1>6, UltimaUnica
<1> QED BY <1>2, <1>7 DEF B, z

(* The namespaces before any import.                                        *)
LEMMA EspaciosVacio ==
  ASSUME NEW a
  PROVE  EspaciosHasta(a, 0) = [n \in Nombres |-> Nulo]
<1>1. \A j : j \notin 1 .. 0
  OBVIOUS
<1> QED BY <1>1 DEF EspaciosHasta

(* The pairs before any import.                                             *)
LEMMA LigadurasVacio ==
  ASSUME NEW a, NEW n
  PROVE  Ligaduras(a, n, 0) = {}
<1>1. \A j : j \notin 1 .. 0
  OBVIOUS
<1> QED BY <1>1 DEF Ligaduras

(* The imports of a namespace under one alias, and the last of a set of     *)
(* positions.                                                               *)
Alias(a, n, k) == {j \in 1 .. k : a.importa[j].forma = "espacio" /\ a.importa[j].alias = n}
MayorDe(T) == CHOOSE j \in T : \A h \in T : h <= j

(* The namespaces told with them.                                           *)
LEMMA EspaciosPorAlias ==
  ASSUME NEW a, NEW k
  PROVE  EspaciosHasta(a, k) =
           [n \in Nombres |-> IF Alias(a, n, k) = {} THEN Nulo
                              ELSE a.importa[MayorDe(Alias(a, n, k))].ruta]
BY DEF EspaciosHasta, Alias, MayorDe

(* An import that is not of a namespace leaves the namespaces.              *)
LEMMA EspaciosQueda ==
  ASSUME NEW a, NEW k \in Nat, NEW l, l = k + 1, a.importa[l].forma # "espacio"
  PROVE  EspaciosHasta(a, l) = EspaciosHasta(a, k)
<1>1. \A n : Alias(a, n, l) = Alias(a, n, k)
  BY Hasta DEF Alias
<1> QED BY <1>1, EspaciosPorAlias

(* One of a namespace gives its alias.                                      *)
LEMMA EspaciosAvanza ==
  ASSUME NEW a, NEW k \in Nat, NEW l, l = k + 1, NEW i, i = a.importa[l],
         i.forma = "espacio"
  PROVE  EspaciosHasta(a, l) = [EspaciosHasta(a, k) EXCEPT ![i.alias] = i.ruta]
<1>1. \A n : n # i.alias => Alias(a, n, l) = Alias(a, n, k)
  BY Hasta DEF Alias
<1>2. Alias(a, i.alias, l) # {} /\ MayorDe(Alias(a, i.alias, l)) = l
  <2> DEFINE T == Alias(a, i.alias, l)
             c == MayorDe(T)
  <2>1. l \in T /\ \A h \in T : h \in Nat /\ h <= l
    BY DEF Alias
  <2> HIDE DEF T
  <2>2. c \in T /\ \A h \in T : h <= c
    BY <2>1 DEF MayorDe
  <2>3. c = l
    BY <2>1, <2>2
  <2> QED BY <2>1, <2>3 DEF T
<1> QED BY <1>1, <1>2, EspaciosPorAlias

-----------------------------------------------------------------------------
(* Going past an import with its file's real table keeps an activation's    *)
(* maps what the imports say.                                               *)


(* The import an activation is at, and the activation gone past it.         *)
Actual(p, m) == p[m.ruta].importa[m.pos]
Avanzado(p, m) == Enlazar(m, Actual(p, m), TablaDe(p, Actual(p, m)))

(* The namespaces.                                                          *)
LEMMA AvanceEspacios ==
  ASSUME NEW p, NEW m \in Marco, NEW k \in Nat, m.pos = k + 1,
         m.espacios = EspaciosHasta(p[m.ruta], k)
  PROVE  Avanzado(p, m).espacios = EspaciosHasta(p[m.ruta], m.pos)
<1> DEFINE i == Actual(p, m)
           a == p[m.ruta]
           t == TablaDe(p, i)
<1>1. i = a.importa[m.pos]
  BY DEF Actual
<1> HIDE DEF i, a, t
<1>2. m.espacios = EspaciosHasta(a, k)
  BY DEF a
<1>3. CASE i.forma = "espacio"
  <2>1. EspaciosHasta(a, m.pos) = [m.espacios EXCEPT ![i.alias] = i.ruta]
    BY <1>1, <1>2, <1>3, EspaciosAvanza
  <2>2. Enlazar(m, i, t).espacios = [m.espacios EXCEPT ![i.alias] = i.ruta]
    BY <1>3 DEF Enlazar, Marco
  <2> QED BY <2>1, <2>2 DEF i, a, t, Avanzado
<1>4. CASE i.forma # "espacio"
  <2>1. EspaciosHasta(a, m.pos) = m.espacios
    BY <1>1, <1>2, <1>4, EspaciosQueda
  <2>2. Enlazar(m, i, t).espacios = m.espacios
    BY <1>4 DEF Enlazar, Marco
  <2> QED BY <2>1, <2>2 DEF i, a, t, Avanzado
<1> QED BY <1>3, <1>4

(* The names.                                                               *)
LEMMA AvanceRenombre ==
  ASSUME NEW p, NEW m \in Marco, NEW k \in Nat, m.pos = k + 1,
         Actual(p, m) \in Importacion, Avanzado(p, m) \in Marco,
         m.renombres = RenombresHasta(p, m.ruta, k), ImportacionSana(p, Actual(p, m))
  PROVE  Avanzado(p, m).renombres = RenombresHasta(p, m.ruta, m.pos)
<1> DEFINE i == Actual(p, m)
           r == m.ruta
           a == p[r]
           t == TablaDe(p, i)
           q == Avanzado(p, m).renombres
<1>a. /\ i = a.importa[m.pos] /\ i \in Importacion /\ ImportacionSana(p, i)
      /\ m.renombres = RenombresHasta(p, r, k) /\ a = p[r] /\ q = Enlazar(m, i, t).renombres
  BY DEF Actual, Avanzado
<1>b. q = [n \in Nombres |-> q[n]]
  BY DEF Marco
<1> HIDE DEF i, r, a, q
<1>c. SUFFICES ASSUME NEW n \in Nombres
               PROVE  q[n] = Nombra(p, r, n, Ligaduras(a, n, m.pos))
  BY <1>a, <1>b DEF RenombresHasta, q, r, a
<1> DEFINE U == Ligaduras(a, n, k)
           W == Ligaduras(a, n, m.pos)
           e == q[n]
<1>1. m.renombres[n] = Nombra(p, r, n, U)
  BY <1>a DEF RenombresHasta
<1>2. CASE i.forma = "espacio"
  <2>1. \A j : ~Liga(a, n, m.pos, j)
    BY <1>a, <1>2 DEF Liga
  <2>2. W = U
    BY <2>1, LigadurasQueda
  <2>3. e = m.renombres[n]
    BY <1>a, <1>2 DEF Enlazar, Marco
  <2> HIDE DEF U, W, e
  <2>4. e = Nombra(p, r, n, W)
    BY <1>1, <2>2, <2>3
  <2> QED BY <2>4 DEF W, e
<1>3. CASE i.forma # "espacio"
  <2> DEFINE l == Len(i.pares)
             gana == {j \in 1 .. l : i.pares[j].alias = n /\ t[i.pares[j].origen] # Nulo}
             c == MayorDe(gana)
  <2>1. e = IF gana = {} THEN m.renombres[n] ELSE t[i.pares[c].origen]
    <3> HIDE DEF t
    <3> QED BY <1>a, <1>3 DEF Enlazar, Marco, MayorDe
  <2>2. \A j : j \in gana <=> Liga(a, n, m.pos, j)
    BY <1>a, <1>3 DEF ImportacionSana, TodoExportado, Liga
  <2>3. l \in Nat /\ gana \in SUBSET (1 .. l)
    BY <1>a, <1>3, ParesTipo
  <2>4. CASE gana = {}
    <3>1. W = U
      <4>1. \A j : ~Liga(a, n, m.pos, j)
        BY <2>2, <2>4
      <4> QED BY <4>1, LigadurasQueda
    <3> HIDE DEF U, W, e, gana
    <3>2. e = Nombra(p, r, n, W)
      BY <1>1, <2>1, <2>4, <3>1
    <3> QED BY <3>2 DEF W, e
  <2>5. CASE gana # {}
    <3>1. c \in gana /\ \A h \in gana : h <= c
      <4> HIDE DEF gana
      <4>1. \E j \in gana : \A h \in gana : h <= j
        BY <2>3, <2>5, Maximo
      <4> QED BY <4>1 DEF MayorDe
    <3> HIDE DEF c, gana
    <3>2. Liga(a, n, m.pos, c) /\ \A j : Liga(a, n, m.pos, j) => j <= c
      BY <2>2, <3>1
    <3>3. W # {} /\ Ultima(W) = <<m.pos, c>>
      BY <3>2, LigadurasAvanza
    <3>4. Ligado(p, a, <<m.pos, c>>) = t[i.pares[c].origen]
      BY <1>a DEF Ligado, TablaDe
    <3> HIDE DEF W, e
    <3>5. e = Nombra(p, r, n, W)
      BY <1>a, <2>1, <2>5, <3>3, <3>4 DEF Nombra
    <3> QED BY <3>5 DEF W, e
  <2> QED BY <2>4, <2>5
<1> QED BY <1>2, <1>3

(* The whole activation.                                                    *)
LEMMA Avance ==
  ASSUME NEW p \in [Rutas -> Archivo], NEW m \in Marco, AlDia(p, m),
         m.pos <= Len(p[m.ruta].importa), ImportacionSana(p, Actual(p, m))
  PROVE  AlDia(p, Avanzado(p, m))
<1> DEFINE e == Avanzado(p, m)
           r == m.ruta
           i == Actual(p, m)
<1>1. PICK k \in Nat : m.pos = k + 1 /\ m.pos - 1 = k
  BY DEF Marco
<1>2. p[r] \in Archivo /\ Len(p[r].importa) \in Nat /\ i \in Importacion /\ i.ruta \in Rutas
  <2>1. p[r] \in Archivo
    BY DEF Marco
  <2>2. m.pos \in 1 .. Len(p[r].importa)
    BY <1>1, <2>1, ArchivoTipo
  <2> QED BY <2>1, <2>2, ArchivoTipo DEF Actual
<1>3. e \in Marco /\ e.ruta = r /\ e.pos = m.pos + 1 /\ e.pos - 1 = m.pos
  <2> DEFINE t == TablaDe(p, i)
  <2>1. t \in [Nombres -> Internos \cup {Nulo}]
    BY <1>2, TablaTipo DEF TablaDe
  <2>2. i \in Importacion /\ e = Enlazar(m, i, t)
    BY <1>2 DEF Avanzado
  <2> HIDE DEF i, t, e
  <2>3. e \in Marco /\ e.ruta = r /\ e.pos = m.pos + 1
    BY <2>1, <2>2, EnlazarTipo
  <2> QED BY <1>1, <2>3
<1>4. m.espacios = EspaciosHasta(p[r], k) /\ m.renombres = RenombresHasta(p, r, k)
  BY <1>1 DEF AlDia
<1>5. e.espacios = EspaciosHasta(p[r], m.pos)
  BY <1>1, <1>4, AvanceEspacios
<1>6. e.renombres = RenombresHasta(p, r, m.pos)
  BY <1>1, <1>2, <1>3, <1>4, AvanceRenombre
<1>7. \A j \in 1 .. Len(p[r].importa) : j < m.pos + 1 => ImportacionSana(p, p[r].importa[j])
  <2>1. \A j \in 1 .. Len(p[r].importa) : j < m.pos + 1 => j < m.pos \/ j = m.pos
    BY <1>1
  <2> QED BY <2>1 DEF AlDia, Actual
<1>8. AlDia(p, e)
  <2> HIDE DEF e
  <2> QED BY <1>3, <1>5, <1>6, <1>7 DEF AlDia
<1> QED BY <1>8

(* A new activation says what no import says.                               *)
LEMMA NuevoAlDia ==
  ASSUME NEW r \in Rutas, fuente \in Proyectos
  PROVE  AlDia(fuente, MarcoNuevo(r))
<1> DEFINE m == MarcoNuevo(r)
           p == fuente
<1>1. /\ m.ruta = r /\ m.pos = 1 /\ m.renombres = RenombresPropios(p[r], r)
      /\ m.espacios = [n \in Nombres |-> Nulo] /\ m.pos - 1 = 0
  BY DEF MarcoNuevo
<1>2. m.espacios = EspaciosHasta(p[r], 0)
  BY <1>1, EspaciosVacio
<1>3. m.renombres = RenombresHasta(p, r, 0)
  <2>1. \A n \in Nombres : Nombra(p, r, n, Ligaduras(p[r], n, 0)) = RenombresPropios(p[r], r)[n]
    BY LigadurasVacio DEF Nombra
  <2>2. RenombresPropios(p[r], r) = [n \in Nombres |-> RenombresPropios(p[r], r)[n]]
    BY DEF RenombresPropios
  <2> QED BY <1>1, <2>1, <2>2 DEF RenombresHasta
<1>4. \A j \in 1 .. Len(p[r].importa) : ~ (j < m.pos)
  <2>1. Len(p[r].importa) \in Nat
    BY ImportacionTipo DEF Importaciones
  <2> QED BY <1>1, <2>1
<1> HIDE DEF m, p
<1>5. AlDia(p, m)
  BY <1>1, <1>2, <1>3, <1>4 DEF AlDia
<1> QED BY <1>5 DEF m, p

-----------------------------------------------------------------------------
(* What the maps of an activation hold.                                     *)

(* A namespace stands for the file of an import.                            *)
LEMMA EspacioDe ==
  ASSUME NEW a \in Archivo, NEW n \in Nombres, NEW k \in Nat, k <= Len(a.importa),
         EspaciosHasta(a, k)[n] # Nulo
  PROVE  \E j \in 1 .. k : /\ a.importa[j].forma = "espacio" /\ a.importa[j].alias = n
                           /\ EspaciosHasta(a, k)[n] = a.importa[j].ruta
<1> DEFINE T == Alias(a, n, k)
           c == MayorDe(T)
<1>1. EspaciosHasta(a, k)[n] = IF T = {} THEN Nulo ELSE a.importa[c].ruta
  BY EspaciosPorAlias
<1>2. T # {} /\ T \in SUBSET (1 .. k)
  BY <1>1 DEF Alias
<1>3. c \in T
  <2> HIDE DEF T
  <2>1. \E j \in T : \A h \in T : h <= j
    BY <1>2, Maximo
  <2> QED BY <2>1 DEF MayorDe
<1> QED BY <1>1, <1>2, <1>3 DEF Alias

(* The alias of an import of a namespace stands for some file.              *)
LEMMA EspacioHay ==
  ASSUME NEW a \in Archivo, NEW k \in Nat, k <= Len(a.importa),
         NEW j \in 1 .. k, a.importa[j].forma = "espacio"
  PROVE  /\ a.importa[j].alias \in Nombres
         /\ EspaciosHasta(a, k)[a.importa[j].alias] # Nulo
<1> DEFINE n == a.importa[j].alias
           T == Alias(a, n, k)
           c == MayorDe(T)
<1>0. Len(a.importa) \in Nat /\ j \in 1 .. Len(a.importa)
  BY ArchivoTipo
<1>1. n \in Nombres
  BY <1>0, ArchivoTipo, EspacioTipo
<1>2. EspaciosHasta(a, k)[n] = IF T = {} THEN Nulo ELSE a.importa[c].ruta
  BY <1>1, EspaciosPorAlias
<1>3. j \in T /\ T \in SUBSET (1 .. k) /\ T # {}
  BY DEF Alias
<1>4. c \in T
  <2> HIDE DEF T
  <2>1. \E h \in T : \A l \in T : l <= h
    BY <1>3, Maximo
  <2> QED BY <2>1 DEF MayorDe
<1>5. c \in 1 .. Len(a.importa)
  BY <1>0, <1>3, <1>4
<1>6. a.importa[c].ruta \in Rutas
  BY <1>5, ArchivoTipo
<1> QED BY <1>1, <1>2, <1>3, <1>6, ConstantesAssumption

(* The last pair with an alias is a pair of an import, and it is bound to   *)
(* something when the imports are sound.                                    *)
LEMMA LigadoSano ==
  ASSUME NEW p \in [Rutas -> Archivo], NEW a \in Archivo, NEW n \in Nombres,
         Ligaduras(a, n, Len(a.importa)) # {},
         \A j \in 1 .. Len(a.importa) : ImportacionSana(p, a.importa[j])
  PROVE  \E h \in 1 .. Len(a.importa) : \E j :
           /\ Liga(a, n, h, j) /\ a.importa[h].pares[j].origen \in Nombres
           /\ Ligado(p, a, Ultima(Ligaduras(a, n, Len(a.importa))))
                = TablaDe(p, a.importa[h])[a.importa[h].pares[j].origen]
           /\ TablaDe(p, a.importa[h])[a.importa[h].pares[j].origen] # Nulo
<1> DEFINE l == Len(a.importa)
           B == Ligaduras(a, n, l)
           b == Ultima(B)
<1>1. l \in Nat /\ l \in 0 .. l
  BY ArchivoTipo
<1>2. b \in B
  <2>1. \E c \in B : EsUltima(B, c)
    BY <1>1, UltimaExiste
  <2> HIDE DEF B
  <2> QED BY <2>1 DEF Ultima
<1>3. PICK h \in 1 .. l : \E j : Liga(a, n, h, j) /\ b = <<h, j>>
  BY <1>2, EnLigaduras
<1>4. PICK j : Liga(a, n, h, j) /\ b = <<h, j>>
  BY <1>3
<1>5. a.importa[h] \in Importacion /\ ImportacionSana(p, a.importa[h])
  BY ArchivoTipo
<1>6. a.importa[h].pares[j].origen \in Nombres
  BY <1>4, <1>5, ParesTipo DEF Liga
<1>7. TablaDe(p, a.importa[h])[a.importa[h].pares[j].origen] # Nulo
  BY <1>4, <1>5 DEF ImportacionSana, TodoExportado, Liga
<1>8. Ligado(p, a, b) = TablaDe(p, a.importa[h])[a.importa[h].pares[j].origen]
  <2> HIDE DEF b
  <2> QED BY <1>4 DEF Ligado, TablaDe
<1> QED BY <1>4, <1>6, <1>7, <1>8

-----------------------------------------------------------------------------
(* An activation that has gone past all its imports, with the tables of its *)
(* namespaces.                                                              *)

Completo(p, m, tablas) ==
  /\ AlDia(p, m) /\ m.pos = Len(p[m.ruta].importa) + 1
  /\ \A n \in Nombres :
       m.espacios[n] # Nulo
         => tablas[m.espacios[n]] = TablaExportacion(p[m.espacios[n]], m.espacios[n])

(* Its maps say what all its imports say, and they are sound.               *)
LEMMA CompletoTodo ==
  ASSUME NEW p \in [Rutas -> Archivo], NEW m \in Marco, NEW tablas, Completo(p, m, tablas)
  PROVE  /\ m.ruta \in Rutas /\ p[m.ruta] \in Archivo /\ Len(p[m.ruta].importa) \in Nat
         /\ m.espacios = EspaciosHasta(p[m.ruta], Len(p[m.ruta].importa))
         /\ m.renombres = RenombresHasta(p, m.ruta, Len(p[m.ruta].importa))
         /\ \A j \in 1 .. Len(p[m.ruta].importa) : ImportacionSana(p, p[m.ruta].importa[j])
         /\ ImportacionesSanas(p, m.ruta)
<1> DEFINE r == m.ruta
           l == Len(p[r].importa)
<1>1. r \in Rutas /\ p[r] \in Archivo
  BY DEF Marco
<1>2. l \in Nat
  BY <1>1, ArchivoTipo
<1>3. m.pos = l + 1 /\ AlDia(p, m)
  BY DEF Completo
<1>4. m.pos - 1 = l /\ \A j \in 1 .. l : j < m.pos
  BY <1>2, <1>3
<1>5. \A j \in 1 .. l : ImportacionSana(p, p[r].importa[j])
  BY <1>3, <1>4 DEF AlDia
<1>6. ImportacionesSanas(p, r)
  BY <1>5 DEF ImportacionesSanas, ImportacionSana, TodoExportado, TablaDe
<1> QED BY <1>1, <1>2, <1>3, <1>4, <1>5, <1>6 DEF AlDia

(* The name a source name stands for in it.                                 *)
LEMMA Renombre ==
  ASSUME NEW p \in [Rutas -> Archivo], NEW m \in Marco, NEW tablas, Completo(p, m, tablas),
         NEW n \in Nombres
  PROVE  LET a == p[m.ruta]
             B == Ligaduras(a, n, Len(a.importa))
         IN  /\ B # {} => /\ m.renombres[n] = Ligado(p, a, Ultima(B))
                          /\ m.renombres[n] # Nulo
             /\ B = {} => m.renombres[n] =
                            IF \E k \in 1 .. Len(a.declara) : a.declara[k].nombre = n
                            THEN Manglar(m.ruta, n) ELSE Nulo
<1> DEFINE a == p[m.ruta]
           B == Ligaduras(a, n, Len(a.importa))
<1>1. m.ruta \in Rutas /\ a \in Archivo /\ m.renombres[n] = Nombra(p, m.ruta, n, B)
  <2>1. m.ruta \in Rutas /\ a \in Archivo /\ m.renombres = RenombresHasta(p, m.ruta, Len(a.importa))
    BY CompletoTodo
  <2> QED BY <2>1 DEF RenombresHasta
<1>2. ASSUME B # {}
      PROVE  Ligado(p, a, Ultima(B)) # Nulo
  <2>1. \A j \in 1 .. Len(a.importa) : ImportacionSana(p, a.importa[j])
    BY CompletoTodo
  <2> HIDE DEF a
  <2> QED BY <1>1, <1>2, <2>1, LigadoSano
<1> HIDE DEF B
<1>3. B # {} => m.renombres[n] = Ligado(p, a, Ultima(B)) /\ m.renombres[n] # Nulo
  BY <1>1, <1>2 DEF Nombra
<1>4. B = {} => m.renombres[n] = RenombresPropios(a, m.ruta)[n]
  BY <1>1 DEF Nombra
<1> QED BY <1>3, <1>4 DEF RenombresPropios, B

(* The rewriter gives each reference the declaration it means.              *)
LEMMA Traduccion ==
  ASSUME NEW p \in [Rutas -> Archivo], NEW m \in Marco, NEW tablas, Completo(p, m, tablas),
         NEW u \in Uso
  PROVE  Reescribir(m, tablas, u) = Significado(p, m.ruta, u)
<1> DEFINE a == p[m.ruta]
           esp == EspaciosHasta(a, Len(a.importa))
           n == Raiz(u)
           B == Ligaduras(a, n, Len(a.importa))
<1>1. /\ m.espacios = esp /\ m.ruta \in Rutas
      /\ n \in Nombres /\ (EsCalificado(u) => u.espacio \in Nombres)
  BY CompletoTodo, UsoTipo
<1>2. /\ B # {} => m.renombres[n] = Ligado(p, a, Ultima(B)) /\ m.renombres[n] # Nulo
      /\ B = {} => m.renombres[n] =
                     IF \E k \in 1 .. Len(a.declara) : a.declara[k].nombre = n
                     THEN Manglar(m.ruta, n) ELSE Nulo
  BY <1>1, Renombre
<1>3. Significado(p, m.ruta, u) =
        IF EsCalificado(u) /\ ~Tapado(u) /\ esp[u.espacio] # Nulo
        THEN TablaExportacion(p[esp[u.espacio]], esp[u.espacio])[u.nombre]
        ELSE IF Tapado(u) \/ u.forma = "tipo_calificado" THEN <<Libre, n>>
        ELSE IF B # {} THEN Ligado(p, a, Ultima(B))
        ELSE IF \E k \in 1 .. Len(a.declara) : a.declara[k].nombre = n
        THEN Manglar(m.ruta, n)
        ELSE <<Libre, n>>
  BY DEF Significado
<1> HIDE DEF a, esp, B
<1>4. CASE PorEspacio(m, u)
  <2>1. /\ EsCalificado(u) /\ ~Tapado(u) /\ esp[u.espacio] # Nulo /\ u.espacio \in Nombres
        /\ m.espacios[u.espacio] = esp[u.espacio]
    BY <1>1, <1>4 DEF PorEspacio
  <2>2. tablas[esp[u.espacio]] = TablaExportacion(p[esp[u.espacio]], esp[u.espacio])
    BY <1>1, <2>1 DEF Completo
  <2>3. Reescribir(m, tablas, u) = tablas[esp[u.espacio]][u.nombre]
    BY <1>1, <1>4 DEF Reescribir
  <2> QED BY <1>3, <2>1, <2>2, <2>3
<1>5. CASE ~PorEspacio(m, u)
  <2>1. ~(EsCalificado(u) /\ ~Tapado(u) /\ esp[u.espacio] # Nulo)
    BY <1>1, <1>5 DEF PorEspacio
  <2>2. Manglar(m.ruta, n) # Nulo
    BY <1>1, ManglarTipo
  <2>3. Reescribir(m, tablas, u) =
          IF Tapado(u) \/ u.forma = "tipo_calificado" \/ m.renombres[n] = Nulo
          THEN <<Libre, n>> ELSE m.renombres[n]
    BY <1>5 DEF Reescribir
  <2> QED BY <1>2, <1>3, <2>1, <2>2, <2>3
<1> QED BY <1>4, <1>5

(* What an activation emits: its names mangled, its references resolved,    *)
(* whether the rewriter was run over them or had nothing to do.             *)
LEMMA EnlaceFiel ==
  ASSUME fuente \in [Rutas -> Archivo], NEW m \in Marco, Completo(fuente, m, exportaciones)
  PROVE  Enlace(m).usa = {Significado(fuente, m.ruta, u) : u \in fuente[m.ruta].usa}
<1> DEFINE a == fuente[m.ruta]
<1>1. m.ruta \in Rutas /\ a.usa \subseteq Uso
  BY CompletoTodo, ArchivoTipo
<1>2. \A u \in a.usa : Reescribir(m, exportaciones, u) = Significado(fuente, m.ruta, u)
  BY <1>1, Traduccion
<1>3. CASE HayQueReescribir(m)
  BY <1>2, <1>3 DEF Enlace
<1>4. CASE ~HayQueReescribir(m)
  <2>1. \A n \in Nombres : m.renombres[n] = Nulo /\ m.espacios[n] = Nulo
    BY <1>4 DEF HayQueReescribir
  <2>2. \A u \in a.usa : Reescribir(m, exportaciones, u) = <<Libre, Raiz(u)>>
    BY <1>1, <2>1, UsoTipo DEF Reescribir, PorEspacio
  <2> QED BY <1>2, <1>4, <2>2 DEF Enlace
<1> QED BY <1>3, <1>4

-----------------------------------------------------------------------------
(* What the rewriter reports is what is wrong in the file.                  *)

(* It has work to do exactly when the file gives it some.                   *)
LEMMA HayTrabajo ==
  ASSUME fuente \in [Rutas -> Archivo], NEW m \in Marco, NEW tablas, Completo(fuente, m, tablas)
  PROVE  HayQueReescribir(m) <=> ConRenombres(fuente, m.ruta)
<1> DEFINE p == fuente
           r == m.ruta
           a == p[r]
           l == Len(a.importa)
           W(n) == Ligaduras(a, n, l)
<1>1. /\ r \in Rutas /\ a \in Archivo /\ l \in Nat /\ Len(a.declara) \in Nat
      /\ l <= Len(a.importa)
      /\ m.espacios = EspaciosHasta(a, l)
      /\ \A j \in 1 .. l : ImportacionSana(p, a.importa[j]) /\ a.importa[j] \in Importacion
  BY CompletoTodo, ArchivoTipo
<1>2. ASSUME NEW n \in Nombres
      PROVE  /\ W(n) # {} => m.renombres[n] # Nulo
             /\ W(n) = {} => m.renombres[n] =
                              IF \E k \in 1 .. Len(a.declara) : a.declara[k].nombre = n
                              THEN Manglar(r, n) ELSE Nulo
  BY Renombre
<1>3. a.declara # <<>> => \E k \in 1 .. Len(a.declara) : a.declara[k].nombre \in Nombres
  <2>1. a.declara # <<>> => 1 \in 1 .. Len(a.declara)
    BY <1>1, EmptySeq DEF Archivo
  <2> QED BY <1>1, <2>1, ArchivoTipo
<1>4. (\E k \in 1 .. Len(a.declara) : TRUE) => a.declara # <<>>
  <2>1. a.declara = <<>> => Len(a.declara) = 0
    BY EmptySeq
  <2> QED BY <2>1
<1> HIDE DEF p, a, l
<1>5. ASSUME HayQueReescribir(m)
      PROVE  ConRenombres(p, r)
  <2>1. CASE \E n \in Nombres : m.renombres[n] # Nulo
    <3>1. PICK n \in Nombres : m.renombres[n] # Nulo
      BY <2>1
    <3>2. CASE W(n) = {}
      <4>1. a.declara # <<>>
        BY <1>2, <1>4, <3>1, <3>2
      <4> QED BY <4>1 DEF ConRenombres, a
    <3>3. CASE W(n) # {}
      <4>1. PICK h \in 1 .. l : \E j : Liga(a, n, h, j)
        BY <3>3, EnLigaduras
      <4>2. PICK j : Liga(a, n, h, j)
        BY <4>1
      <4>3. a.importa[h].forma # "exportar_desde" /\ a.importa[h].pares # <<>>
        <5>1. a.importa[h].pares = <<>> => Len(a.importa[h].pares) = 0
          BY EmptySeq
        <5> QED BY <1>1, <4>2, <5>1 DEF ImportacionSana, Liga
      <4> QED BY <4>3 DEF ConRenombres, a, l
    <3> QED BY <3>2, <3>3
  <2>2. CASE \E n \in Nombres : m.espacios[n] # Nulo
    <3>1. \E j \in 1 .. l : a.importa[j].forma = "espacio"
      BY <1>1, <2>2, EspacioDe
    <3> QED BY <3>1 DEF ConRenombres, a, l
  <2> QED BY <1>5, <2>1, <2>2 DEF HayQueReescribir
<1>6. ASSUME ConRenombres(p, r)
      PROVE  HayQueReescribir(m)
  <2>1. CASE a.declara # <<>>
    <3>1. PICK k \in 1 .. Len(a.declara) : a.declara[k].nombre \in Nombres
      BY <1>3, <2>1
    <3> DEFINE n == a.declara[k].nombre
    <3>2. m.renombres[n] # Nulo
      BY <1>1, <1>2, <3>1, ManglarTipo
    <3> QED BY <3>1, <3>2 DEF HayQueReescribir
  <2>2. ASSUME NEW j \in 1 .. l, a.importa[j].forma = "espacio"
        PROVE  HayQueReescribir(m)
    <3>1. /\ a.importa[j].alias \in Nombres
          /\ EspaciosHasta(a, l)[a.importa[j].alias] # Nulo
      BY <1>1, <2>2, EspacioHay
    <3> QED BY <1>1, <3>1 DEF HayQueReescribir
  <2>3. ASSUME NEW h \in 1 .. l, a.importa[h].forma # "espacio", a.importa[h].pares # <<>>
        PROVE  HayQueReescribir(m)
    <3> DEFINE n == a.importa[h].pares[1].alias
    <3>1. 1 \in 1 .. Len(a.importa[h].pares) /\ n \in Nombres
      <4>1. a.importa[h].pares \in Seq(Par)
        BY <1>1, <2>3 DEF Importacion
      <4>2. 1 \in 1 .. Len(a.importa[h].pares)
        BY <2>3, <4>1, EmptySeq
      <4> QED BY <1>1, <2>3, <4>2, ParesTipo
    <3>2. Liga(a, n, h, 1)
      BY <2>3, <3>1 DEF Liga
    <3>3. <<h, 1>> \in W(n)
      <4> HIDE DEF n
      <4> QED BY <3>2, EnLigaduras
    <3>4. m.renombres[n] # Nulo
      BY <1>2, <3>1, <3>3
    <3> QED BY <3>1, <3>4 DEF HayQueReescribir
  <2> QED BY <1>6, <2>1, <2>2, <2>3 DEF ConRenombres, a, l
<1> QED BY <1>5, <1>6 DEF p

(* It finds an error exactly when a reference of the file is wrong.         *)
LEMMA HayFalta ==
  ASSUME fuente \in [Rutas -> Archivo], NEW m \in Marco, Completo(fuente, m, exportaciones)
  PROVE  UsosSanos(fuente, m.ruta) <=>
           \A u \in fuente[m.ruta].usa : ~ErrorDeUso(m, exportaciones, u)
<1> DEFINE p == fuente
           a == p[m.ruta]
           esp == EspaciosHasta(a, Len(a.importa))
           Bien(u) == /\ EsCalificado(u) /\ ~Tapado(u) /\ esp[u.espacio] # Nulo
                           => TablaExportacion(p[esp[u.espacio]], esp[u.espacio])[u.nombre] # Nulo
                      /\ u.forma = "tipo_calificado" => esp[u.espacio] # Nulo
                      /\ u.forma = "valor" /\ ~Tapado(u) => esp[u.nombre] = Nulo
<1>1. /\ a.usa \subseteq Uso /\ m.espacios = esp
      /\ \A n \in Nombres : m.espacios[n] # Nulo
           => exportaciones[m.espacios[n]] = TablaExportacion(p[m.espacios[n]], m.espacios[n])
  BY CompletoTodo, ArchivoTipo DEF Completo
<1>2. UsosSanos(p, m.ruta) <=> \A u \in a.usa : Bien(u)
  BY DEF UsosSanos
<1>3. ASSUME NEW u \in a.usa
      PROVE  Bien(u) <=> ~ErrorDeUso(m, exportaciones, u)
  <2> HIDE DEF esp, a
  <2>1. EsCalificado(u) => u.espacio \in Nombres
    BY <1>1, UsoTipo
  <2>2. PorEspacio(m, u) => exportaciones[m.espacios[u.espacio]] =
                              TablaExportacion(p[esp[u.espacio]], esp[u.espacio])
    BY <1>1, <2>1 DEF PorEspacio
  <2> QED BY <1>1, <2>2 DEF ErrorDeUso, PorEspacio
<1> HIDE DEF Bien
<1> QED BY <1>2, <1>3

-----------------------------------------------------------------------------
(* Where the declarations meant are.                                        *)

(* Name x is the mangled name of a declaration of file q.                   *)
Declarado(p, q, x) ==
  \E k \in 1 .. Len(p[q].declara) : x = Manglar(q, p[q].declara[k].nombre)

(* What an import takes from the file it asks for is declared there.        *)
LEMMA TomadoDeclarado ==
  ASSUME NEW p \in [Rutas -> Archivo], NEW q \in Rutas, NEW n \in Nombres,
         TablaExportacion(p[q], q)[n] # Nulo
  PROVE  Declarado(p, q, TablaExportacion(p[q], q)[n])
BY TablaDeclarada DEF Declarado

(* Every reference that is not left alone means a declaration of its own    *)
(* file or of one it asks for.                                              *)
LEMMA SignificadoDeclarado ==
  ASSUME NEW p \in [Rutas -> Archivo], NEW m \in Marco, NEW tablas, Completo(p, m, tablas),
         NEW u \in p[m.ruta].usa, PorEspacio(m, u) => tablas[m.espacios[u.espacio]][u.nombre] # Nulo,
         Significado(p, m.ruta, u)[1] # Libre
  PROVE  \E q \in Rutas : /\ q = m.ruta \/ q \in Pide(p, m.ruta)
                          /\ Declarado(p, q, Significado(p, m.ruta, u))
<1> DEFINE r == m.ruta
           a == p[r]
           n == Raiz(u)
           l == Len(a.importa)
           B == Ligaduras(a, n, l)
           x == Significado(p, r, u)
<1>1. /\ r \in Rutas /\ a \in Archivo /\ l \in Nat /\ l <= l /\ m.espacios = EspaciosHasta(a, l)
      /\ \A j \in 1 .. l : ImportacionSana(p, a.importa[j])
      /\ u \in Uso /\ n \in Nombres /\ u.nombre \in Nombres
      /\ EsCalificado(u) => u.espacio \in Nombres
  <2>1. u \in Uso
    BY CompletoTodo, ArchivoTipo
  <2> QED BY <2>1, CompletoTodo, UsoTipo
<1>2. x = Reescribir(m, tablas, u)
  BY <1>1, Traduccion
<1>3. ASSUME NEW j \in 1 .. l
      PROVE  a.importa[j].ruta \in Rutas /\ a.importa[j].ruta \in Pide(p, r)
  BY <1>1, ArchivoTipo DEF Pide, ImportacionSana
<1>4. CASE PorEspacio(m, u)
  <2>1. u.espacio \in Nombres /\ m.espacios[u.espacio] # Nulo
    BY <1>1, <1>4 DEF PorEspacio
  <2>2. PICK j \in 1 .. l : m.espacios[u.espacio] = a.importa[j].ruta
    BY <1>1, <2>1, EspacioDe
  <2> DEFINE q == a.importa[j].ruta
  <2>3. q \in Rutas /\ q \in Pide(p, r)
    BY <1>3
  <2>4. x = TablaExportacion(p[q], q)[u.nombre] /\ x # Nulo
    BY <1>2, <1>4, <2>1, <2>2 DEF Reescribir, Completo
  <2>5. Declarado(p, q, x)
    <3> HIDE DEF q, x
    <3> QED BY <1>1, <2>3, <2>4, TomadoDeclarado
  <2> QED BY <2>3, <2>5
<1>5. CASE ~PorEspacio(m, u)
  <2>1. x = m.renombres[n] /\ m.renombres[n] # Nulo
    BY <1>2, <1>5 DEF Reescribir
  <2>2. CASE B = {}
    <3>1. /\ m.renombres[n] = Manglar(r, n)
          /\ \E k \in 1 .. Len(a.declara) : a.declara[k].nombre = n
      BY <1>1, <2>1, <2>2, Renombre
    <3> QED BY <1>1, <2>1, <3>1 DEF Declarado
  <2>3. CASE B # {}
    <3>1. m.renombres[n] = Ligado(p, a, Ultima(B))
      BY <1>1, <2>3, Renombre
    <3>2. PICK h \in 1 .. l :
            \E j : /\ Liga(a, n, h, j) /\ a.importa[h].pares[j].origen \in Nombres
                   /\ Ligado(p, a, Ultima(B)) = TablaDe(p, a.importa[h])[a.importa[h].pares[j].origen]
                   /\ TablaDe(p, a.importa[h])[a.importa[h].pares[j].origen] # Nulo
      <4>1. a \in Archivo /\ n \in Nombres /\ \A j \in 1 .. l : ImportacionSana(p, a.importa[j])
        BY <1>1
      <4> HIDE DEF a, n, x
      <4> QED BY <2>3, <4>1, LigadoSano
    <3>3. PICK j : /\ a.importa[h].pares[j].origen \in Nombres
                   /\ Ligado(p, a, Ultima(B)) = TablaDe(p, a.importa[h])[a.importa[h].pares[j].origen]
                   /\ TablaDe(p, a.importa[h])[a.importa[h].pares[j].origen] # Nulo
      BY <3>2
    <3> DEFINE q == a.importa[h].ruta
               o == a.importa[h].pares[j].origen
    <3>4. q \in Rutas /\ q \in Pide(p, r)
      BY <1>3
    <3>5. x = TablaExportacion(p[q], q)[o] /\ x # Nulo /\ o \in Nombres
      BY <2>1, <3>1, <3>3 DEF TablaDe
    <3>6. Declarado(p, q, x)
      <4> HIDE DEF q, x, o
      <4> QED BY <3>4, <3>5, TomadoDeclarado
    <3> QED BY <3>4, <3>6
  <2> QED BY <2>2, <2>3
<1> QED BY <1>4, <1>5

-----------------------------------------------------------------------------
(* The files reached.                                                       *)

(* The entry is reached.                                                    *)
LEMMA EntradaAlcanzada ==
  ASSUME NEW p
  PROVE  Entrada \in Alcanzadas(p)
BY ConstantesAssumption DEF Alcanzadas

(* What a reached, readable file asks for is reached.                       *)
LEMMA PedidaAlcanzada ==
  ASSUME NEW p, NEW r \in Alcanzadas(p), Importable(p[r]), NEW q \in Rutas, q \in Pide(p, r)
  PROVE  q \in Alcanzadas(p)
<1> SUFFICES ASSUME NEW S \in SUBSET Rutas, Entrada \in S, Cerrado(p, S)
             PROVE  q \in S
  BY DEF Alcanzadas
<1>1. r \in S
  BY DEF Alcanzadas
<1> QED BY <1>1 DEF Cerrado

(* A closed set the entry is in has all of them.                            *)
LEMMA AlcanzadasDentro ==
  ASSUME NEW p, NEW S \in SUBSET Rutas, Entrada \in S, Cerrado(p, S)
  PROVE  Alcanzadas(p) \subseteq S
BY DEF Alcanzadas

(* The modules on the stack are reached and readable.                       *)
LEMMA PilaAlcanzada ==
  ASSUME TypeOK, PilaEsCamino, SoloAlcanzadas, NEW k \in 1 .. Len(pila), pila[k].ruta \in Rutas
  PROVE  pila[k].ruta \in Alcanzadas(fuente) /\ Importable(fuente[pila[k].ruta])
<1>1. estados[pila[k].ruta] = "en_proceso"
  BY DEF PilaEsCamino, Activas
<1> QED BY <1>1 DEF SoloAlcanzadas

(* So is the one on top.                                                    *)
LEMMA TopeAlcanzado ==
  ASSUME TypeOK, PilaEsCamino, SoloAlcanzadas, pila # <<>>
  PROVE  Tope.ruta \in Alcanzadas(fuente) /\ Importable(fuente[Tope.ruta])
<1>1. Len(pila) \in 1 .. Len(pila) /\ pila[Len(pila)].ruta \in Rutas
  BY TopeTipo DEF Tope
<1> QED BY <1>1, PilaAlcanzada DEF Tope

(* A project with a bad file in reach deserves no program.                  *)
LEMMA MalaAlcanzada ==
  ASSUME NEW p, NEW q \in Alcanzadas(p), ~Sano(p, q)
  PROVE  ~ProyectoValido(p)
BY DEF ProyectoValido

(* Nor does one with a bad import in a file in reach.                       *)
LEMMA MalaImportacion ==
  ASSUME NEW p, NEW r \in Alcanzadas(p), NEW j \in 1 .. Len(p[r].importa),
         ~ImportacionSana(p, p[r].importa[j])
  PROVE  ~ProyectoValido(p)
<1>1. ~ImportacionesSanas(p, r)
  BY DEF ImportacionesSanas, ImportacionSana, TodoExportado, TablaDe
<1> QED BY <1>1, MalaAlcanzada DEF Sano

(* A module that ends without errors has gone past sound imports of whole   *)
(* modules.                                                                 *)
LEMMA TopeAcabado ==
  ASSUME TypeOK, PilaEsCamino, OrdenInductivo, EnlaceInductivo, ok, Agotado
  PROVE  /\ Completo(fuente, Tope, exportaciones)
         /\ \A q \in Pide(fuente, Tope.ruta) : q \in Rutas /\ estados[q] = "listo"
<1> DEFINE a == fuente[Tope.ruta]
           l == Len(a.importa)
<1>1. /\ pila # <<>> /\ Tope \in Marco /\ Tope.ruta \in Rutas /\ Tope.pos \in Nat /\ Tope.pos > l
      /\ Len(pila) \in 1 .. Len(pila)
  BY TopeTipo DEF Agotado, Importaciones
<1>2. fuente \in [Rutas -> Archivo] /\ a \in Archivo
  BY <1>1, FuenteTipo DEF TypeOK
<1>3. l \in Nat /\ \A j \in 1 .. l : a.importa[j].ruta \in Rutas
  BY <1>2, ArchivoTipo
<1>4. \A q \in Pide(fuente, Tope.ruta) : q \in Rutas /\ estados[q] = "listo"
  BY <1>3, TopeCompleto DEF Pide
<1>5. AlDia(fuente, Tope) /\ Tope.pos <= l + 1
  BY <1>1 DEF EnlaceInductivo, MarcosAlDia, DesdeLaEntrada, Tope, Importaciones
<1>6. Tope.pos = l + 1 /\ Tope.pos - 1 = l /\ \A j \in 1 .. l : j < Tope.pos
  BY <1>1, <1>3, <1>5
<1>7. Tope.espacios = EspaciosHasta(a, l)
  BY <1>5, <1>6 DEF AlDia
<1>8. ASSUME NEW n \in Nombres, Tope.espacios[n] # Nulo
      PROVE  exportaciones[Tope.espacios[n]] =
               TablaExportacion(fuente[Tope.espacios[n]], Tope.espacios[n])
  <2>1. l <= Len(a.importa)
    BY <1>3
  <2>2. PICK j \in 1 .. l : a.importa[j].forma = "espacio" /\ Tope.espacios[n] = a.importa[j].ruta
    <3>1. EspaciosHasta(a, l)[n] # Nulo
      BY <1>7, <1>8
    <3>2. \E j \in 1 .. l : /\ a.importa[j].forma = "espacio" /\ a.importa[j].alias = n
                            /\ EspaciosHasta(a, l)[n] = a.importa[j].ruta
      <4> HIDE DEF a
      <4> QED BY <1>2, <1>3, <2>1, <3>1, EspacioDe
    <3> QED BY <1>7, <3>2
  <2>3. Tope.espacios[n] \in Pide(fuente, Tope.ruta)
    BY <2>2 DEF Pide
  <2> QED BY <1>4, <2>3 DEF EnlaceInductivo, TablasFieles
<1> QED BY <1>4, <1>5, <1>6, <1>8 DEF Completo

-----------------------------------------------------------------------------
(* The inductive invariant of the linked program.                           *)

(* It holds before the walk.                                                *)
LEMMA InitEnlace == Init => EnlaceInductivo
<1> SUFFICES ASSUME Init PROVE EnlaceInductivo
  OBVIOUS
<1>1. Len(pila) = 0 /\ Len(dependencias) = 0 /\ \A r \in Rutas : estados[r] = "ausente"
  BY EmptySeq DEF Init
<1>2. (\A k \in 1 .. Len(pila) : FALSE) /\ \A k \in 1 .. Len(dependencias) : FALSE
  BY <1>1
<1>3. TablasFieles /\ SoloAlcanzadas /\ DesdeLaEntrada
  BY <1>1, <1>2 DEF Init, TablasFieles, SoloAlcanzadas, DesdeLaEntrada
<1>4. MarcosAlDia /\ RechazoJustificado /\ Cierre
  BY <1>1, <1>2 DEF Init, MarcosAlDia, RechazoJustificado, Cierre
<1>5. EmitidosFieles
  BY <1>2 DEF EmitidosFieles, ReferenciasResueltas
<1> QED BY <1>3, <1>4, <1>5 DEF EnlaceInductivo

(* What does not depend on the walk.                                        *)
LEMMA EmitidosQuedan ==
  ASSUME EmitidosFieles, fuente' = fuente, dependencias' = dependencias
  PROVE  EmitidosFieles'
BY DEF EmitidosFieles, EmisionFiel, ReferenciasResueltas

(* A step that only moves the top frame past its import.                    *)
LEMMA EnlaceAvanza ==
  ASSUME TypeOK, EnlaceInductivo, pila # <<>>, Len(pila') = Len(pila),
         \A k \in 1 .. Len(pila) - 1 : pila'[k] = pila[k],
         pila'[Len(pila)].ruta = Tope.ruta, pila'[Len(pila)].pos = Tope.pos + 1,
         Tope.pos <= Len(Importaciones(Tope.ruta)),
         UNCHANGED <<fuente, estados, exportaciones, dependencias, resultado>>,
         ok' => ok /\ AlDia(fuente, pila'[Len(pila)]),
         ~ok' => ~ProyectoValido(fuente)
  PROVE  EnlaceInductivo'
<1> DEFINE l == Len(pila)
<1>1. /\ l \in Nat /\ l > 0 /\ Tope = pila[l] /\ Len(pila') = l
      /\ \A k \in 1 .. l : k = l \/ k \in 1 .. l - 1
      /\ 1 \in 1 .. l /\ l \in 1 .. l /\ \A k \in 1 .. l - 1 : k \in 1 .. l
  BY TopeTipo DEF Tope
<1> HIDE DEF l
<1>2. \A k \in 1 .. l - 1 : pila'[k] = pila[k]
  BY DEF l
<1>3. pila'[l].ruta = pila[l].ruta /\ pila'[l].pos = pila[l].pos + 1
  BY <1>1 DEF l
<1>4. \A k \in 1 .. l : pila'[k].ruta = pila[k].ruta
  BY <1>1, <1>2, <1>3
<1>5. TablasFieles' /\ SoloAlcanzadas' /\ Cierre' /\ RechazoJustificado'
  BY DEF EnlaceInductivo, TablasFieles, SoloAlcanzadas, Cierre, RechazoJustificado
<1>6. DesdeLaEntrada'
  <2>1. ASSUME NEW k \in 1 .. l
        PROVE  pila'[k].pos <= Len(Importaciones(pila'[k].ruta)) + 1
    <3>1. CASE k = l
      <4>1. Tope.pos \in Nat /\ Len(Importaciones(Tope.ruta)) \in Nat
        BY TopeTipo, ImportacionTipo DEF TypeOK
      <4> QED BY <1>1, <1>3, <3>1, <4>1
    <3>2. CASE k \in 1 .. l - 1
      BY <1>1, <1>2, <3>2 DEF EnlaceInductivo, DesdeLaEntrada, l
    <3> QED BY <1>1, <3>1, <3>2
  <2>2. pila'[1].ruta = Entrada /\ resultado' = "pendiente"
    BY <1>1, <1>4 DEF EnlaceInductivo, DesdeLaEntrada
  <2> QED BY <1>1, <2>1, <2>2 DEF DesdeLaEntrada, Importaciones
<1>7. MarcosAlDia'
  <2>1. ASSUME ok', NEW k \in 1 .. l
        PROVE  AlDia(fuente, pila'[k])
    <3>1. CASE k = l
      BY <2>1, <3>1 DEF l
    <3>2. CASE k \in 1 .. l - 1
      BY <1>1, <1>2, <2>1, <3>2 DEF EnlaceInductivo, MarcosAlDia, l
    <3> QED BY <1>1, <3>1, <3>2
  <2> QED BY <1>1, <2>1 DEF MarcosAlDia
<1>8. EmitidosFieles'
  BY EmitidosQuedan DEF EnlaceInductivo
<1> QED BY <1>5, <1>6, <1>7, <1>8 DEF EnlaceInductivo

(* A step that goes past the import with an error the project has.          *)
LEMMA EnlaceError ==
  ASSUME TypeOK, EnlaceInductivo, pila # <<>>, Saltar, ok' = FALSE,
         Tope.pos <= Len(Importaciones(Tope.ruta)),
         UNCHANGED <<fuente, estados, exportaciones, dependencias, resultado>>,
         ~ProyectoValido(fuente)
  PROVE  EnlaceInductivo'
<1>1. /\ Len(pila') = Len(pila) /\ \A k \in 1 .. Len(pila) - 1 : pila'[k] = pila[k]
      /\ pila'[Len(pila)] = [Tope EXCEPT !.pos = @ + 1]
  BY SaltarCambia
<1>2. pila'[Len(pila)].ruta = Tope.ruta /\ pila'[Len(pila)].pos = Tope.pos + 1
  BY <1>1, TopeTipo DEF Marco
<1> QED BY <1>1, <1>2, EnlaceAvanza

(* A re-export is an error of a file in reach.                              *)
LEMMA EnlaceRechazarReexport ==
  ASSUME TypeOK, PilaEsCamino, EnlaceInductivo, RechazarReexport
  PROVE  EnlaceInductivo'
<1>1. /\ pila # <<>> /\ Tope.pos \in 1 .. Len(Importaciones(Tope.ruta))
      /\ ImportacionActual.forma = "exportar_desde"
  BY ActualTipo DEF RechazarReexport
<1>2. Tope.ruta \in Alcanzadas(fuente)
  BY <1>1, TopeAlcanzado DEF EnlaceInductivo
<1>3. ~ImportacionSana(fuente, fuente[Tope.ruta].importa[Tope.pos])
  BY <1>1 DEF ImportacionSana, ImportacionActual, Importaciones
<1>4. ~ProyectoValido(fuente)
  BY <1>1, <1>2, <1>3, MalaImportacion DEF Importaciones
<1>5. Tope.pos <= Len(Importaciones(Tope.ruta))
  BY <1>1, TopeTipo
<1> QED BY <1>1, <1>4, <1>5, EnlaceError DEF RechazarReexport

(* A file that is not a readable module is reached, and bad.                *)
LEMMA EnlaceNoResolver ==
  ASSUME TypeOK, PilaEsCamino, EnlaceInductivo, NoResolver
  PROVE  EnlaceInductivo'
<1>1. /\ pila # <<>> /\ Tope.pos \in 1 .. Len(Importaciones(Tope.ruta))
      /\ ImportacionActual.forma # "exportar_desde" /\ Destino \in Rutas
      /\ ~Importable(fuente[Destino])
  BY ActualTipo DEF NoResolver, Importa
<1>2. Tope.ruta \in Alcanzadas(fuente) /\ Importable(fuente[Tope.ruta])
  BY <1>1, TopeAlcanzado DEF EnlaceInductivo
<1>3. Destino \in Pide(fuente, Tope.ruta)
  BY <1>1 DEF Pide, Destino, ImportacionActual, Importaciones
<1>4. Destino \in Alcanzadas(fuente) /\ ~Sano(fuente, Destino)
  BY <1>1, <1>2, <1>3, PedidaAlcanzada DEF Sano
<1>5. ~ProyectoValido(fuente)
  BY <1>4, MalaAlcanzada
<1>6. Tope.pos <= Len(Importaciones(Tope.ruta))
  BY <1>1, TopeTipo
<1> QED BY <1>1, <1>5, <1>6, EnlaceError DEF NoResolver

(* A module met while it is on the stack: the frames from it to the top ask *)
(* for each other round in a circle.                                        *)
LEMMA EnlaceDetectarCiclo ==
  ASSUME TypeOK, PilaEsCamino, EnlaceInductivo, DetectarCiclo
  PROVE  EnlaceInductivo'
<1> DEFINE l == Len(pila)
<1>1. /\ pila # <<>> /\ Tope.pos \in 1 .. Len(Importaciones(Tope.ruta))
      /\ ImportacionActual.forma # "exportar_desde" /\ Destino \in Rutas
      /\ estados[Destino] = "en_proceso"
      /\ l \in Nat /\ l > 0 /\ Tope = pila[l]
  BY ActualTipo, TopeTipo DEF DetectarCiclo, Importa, Tope
<1>2. PICK d \in 1 .. l : pila[d].ruta = Destino
  BY <1>1 DEF PilaEsCamino, Activas
<1> DEFINE C == {pila[k].ruta : k \in d .. l}
<1>3. \A k \in d .. l : k \in 1 .. l /\ (k = l \/ (k \in 1 .. l - 1 /\ k + 1 \in d .. l))
  BY <1>1, <1>2
<1>4. ASSUME NEW k \in d .. l
      PROVE  /\ pila[k].ruta \in Alcanzadas(fuente)
             /\ Pide(fuente, pila[k].ruta) \cap C # {}
  <2>1. pila[k].ruta \in Rutas /\ pila[k].pos \in Nat \ {0}
    BY <1>1, <1>3, TopeTipo DEF Marco
  <2>2. pila[k].ruta \in Alcanzadas(fuente)
    BY <1>3, <2>1, PilaAlcanzada DEF EnlaceInductivo
  <2>3. CASE k = l
    <3>1. Destino \in Pide(fuente, pila[k].ruta)
      BY <1>1, <2>3 DEF Pide, Destino, ImportacionActual, Importaciones
    <3>2. d \in d .. l
      BY <1>1, <1>2
    <3>3. Destino \in C
      BY <1>2, <3>2
    <3> QED BY <2>2, <3>1, <3>3
  <2>4. CASE k \in 1 .. l - 1 /\ k + 1 \in d .. l
    <3>1. Espera(fuente, pila[k], pila[k + 1].ruta)
      BY <2>4 DEF PilaEsCamino
    <3>2. Len(fuente[pila[k].ruta].importa) \in Nat
      BY <2>1, ImportacionTipo DEF Importaciones, TypeOK
    <3>3. pila[k + 1].ruta \in Pide(fuente, pila[k].ruta)
      BY <2>1, <3>1, <3>2, EsperaPide
    <3> QED BY <2>2, <2>4, <3>3
  <2> QED BY <1>3, <2>3, <2>4
<1>5. C \in (SUBSET Alcanzadas(fuente)) \ {{}} /\ \A r \in C : Pide(fuente, r) \cap C # {}
  <2>1. d \in d .. l
    BY <1>1, <1>2
  <2> QED BY <1>4, <2>1
<1>6. ~ProyectoValido(fuente)
  <2> HIDE DEF C
  <2> QED BY <1>5 DEF ProyectoValido, SinCiclos
<1>7. Tope.pos <= Len(Importaciones(Tope.ruta))
  BY <1>1, TopeTipo
<1> QED BY <1>1, <1>6, <1>7, EnlaceError DEF DetectarCiclo

(* A module that is done: whole, its table is the real one; failed, there   *)
(* was an error already.                                                    *)
LEMMA EnlaceUsarMemo ==
  ASSUME TypeOK, PilaEsCamino, OrdenInductivo, EnlaceInductivo, UsarMemo
  PROVE  EnlaceInductivo'
<1> DEFINE i == ImportacionActual
           t == exportaciones[Destino]
           m == Enlazar(Tope, i, t)
<1>1. /\ pila # <<>> /\ Tope.pos \in 1 .. Len(Importaciones(Tope.ruta))
      /\ i.forma # "exportar_desde" /\ Destino \in Rutas /\ i \in Importacion /\ Tope \in Marco
      /\ estados[Destino] \in {"fallido", "listo"} /\ Tope.ruta \in Rutas
      /\ Tope.pos <= Len(Importaciones(Tope.ruta))
  BY ActualTipo, TopeTipo DEF UsarMemo, Importa
<1>2. m \in Marco /\ m.ruta = Tope.ruta /\ m.pos = Tope.pos + 1
  BY <1>1, EnlazarTipo DEF TypeOK
<1>3. /\ pila' = [pila EXCEPT ![Len(pila)] = m]
      /\ ok' = (ok /\ TodoExportado(i, t))
      /\ UNCHANGED <<fuente, estados, exportaciones, dependencias, resultado>>
  BY DEF UsarMemo, Tope
<1>4. i = Actual(fuente, Tope) /\ Destino = i.ruta /\ fuente \in [Rutas -> Archivo]
  BY FuenteTipo DEF ImportacionActual, Actual, Importaciones, Destino, TypeOK
<1>5. ok => t = TablaDe(fuente, i)
  BY <1>1, <1>4 DEF OrdenInductivo, SinFallidos, EnlaceInductivo, TablasFieles, TablaDe
<1>6. ok => AlDia(fuente, Tope)
  BY <1>1, TopeTipo DEF EnlaceInductivo, MarcosAlDia, Tope
<1>7. ok => (ok' <=> ImportacionSana(fuente, i))
  BY <1>1, <1>3, <1>5 DEF ImportacionSana
<1>8. Tope.ruta \in Alcanzadas(fuente)
  BY <1>1, TopeAlcanzado DEF EnlaceInductivo
<1> HIDE DEF i, t
<1>9. ok' => ok /\ AlDia(fuente, m)
  <2> SUFFICES ASSUME ok'
               PROVE  ok /\ AlDia(fuente, m)
    OBVIOUS
  <2>1. ok /\ ImportacionSana(fuente, i) /\ AlDia(fuente, Tope) /\ t = TablaDe(fuente, i)
    BY <1>3, <1>5, <1>6, <1>7
  <2>2. AlDia(fuente, Avanzado(fuente, Tope))
    BY <1>1, <1>4, <2>1, Avance DEF Importaciones
  <2> QED BY <1>4, <2>1, <2>2 DEF Avanzado
<1>10. ~ok' => ~ProyectoValido(fuente)
  <2>1. CASE ok
    <3>1. ASSUME ~ok'
          PROVE  ~ImportacionSana(fuente, fuente[Tope.ruta].importa[Tope.pos])
      BY <1>4, <1>7, <2>1, <3>1 DEF Actual
    <3> QED BY <1>1, <1>8, <3>1, MalaImportacion DEF Importaciones
  <2>2. CASE ~ok
    BY <2>2 DEF EnlaceInductivo, RechazoJustificado
  <2> QED BY <2>1, <2>2
<1> HIDE DEF m
<1>11. /\ Len(pila') = Len(pila) /\ pila'[Len(pila)] = m
       /\ \A k \in 1 .. Len(pila) - 1 : pila'[k] = pila[k]
  BY <1>1, <1>2, <1>3, CambiarTope
<1> QED BY <1>1, <1>2, <1>3, <1>9, <1>10, <1>11, EnlaceAvanza

(* The walk starts.                                                         *)
LEMMA EnlaceComenzar ==
  ASSUME TypeOK, OrdenInductivo, EnlaceInductivo, Comenzar
  PROVE  EnlaceInductivo'
<1>1. /\ Entrada \in Rutas /\ \A r \in Rutas : estados[r] = "ausente"
      /\ pila' = <<MarcoNuevo(Entrada)>> /\ estados' = [estados EXCEPT ![Entrada] = "en_proceso"]
      /\ resultado = "pendiente"
      /\ UNCHANGED <<fuente, exportaciones, dependencias, ok, resultado>>
  BY ConstantesAssumption DEF Comenzar, OrdenInductivo, SinEmpezar
<1>2. /\ Len(pila') = 1 /\ pila'[1] = MarcoNuevo(Entrada) /\ \A k \in 1 .. Len(pila') : k = 1
      /\ MarcoNuevo(Entrada).ruta = Entrada /\ MarcoNuevo(Entrada).pos = 1
  BY <1>1 DEF MarcoNuevo
<1>3. \A r \in Rutas : estados'[r] # "listo" /\ (estados'[r] # "ausente" => r = Entrada)
  BY <1>1 DEF TypeOK
<1>4. Entrada \in Alcanzadas(fuente) /\ Importable(fuente[Entrada])
  BY EntradaAlcanzada, FuenteTipo DEF EntradaValida, Importable, TypeOK
<1>5. TablasFieles' /\ SoloAlcanzadas' /\ Cierre' /\ RechazoJustificado'
  BY <1>1, <1>3, <1>4 DEF EnlaceInductivo, TablasFieles, SoloAlcanzadas, Cierre, RechazoJustificado
<1>6. DesdeLaEntrada'
  <2>1. Len(Importaciones(Entrada)) \in Nat
    BY <1>1, ImportacionTipo DEF TypeOK
  <2> QED BY <1>1, <1>2, <2>1 DEF DesdeLaEntrada, Importaciones
<1>7. MarcosAlDia'
  BY <1>1, <1>2, NuevoAlDia DEF MarcosAlDia, TypeOK
<1>8. EmitidosFieles'
  BY <1>1, EmitidosQuedan DEF EnlaceInductivo
<1> QED BY <1>5, <1>6, <1>7, <1>8 DEF EnlaceInductivo

(* A module is entered.                                                     *)
LEMMA EnlaceDescender ==
  ASSUME TypeOK, PilaEsCamino, EnlaceInductivo, Descender
  PROVE  EnlaceInductivo'
<1> DEFINE l == Len(pila)
           q == Destino
<1>1. /\ pila # <<>> /\ Tope.pos \in 1 .. Len(Importaciones(Tope.ruta))
      /\ ImportacionActual.forma # "exportar_desde" /\ q \in Rutas
      /\ Importable(fuente[q]) /\ estados[q] = "ausente"
      /\ estados' = [estados EXCEPT ![q] = "en_proceso"]
      /\ UNCHANGED <<fuente, exportaciones, dependencias, ok, resultado>>
      /\ pila' = Append(pila, MarcoNuevo(q))
  BY ActualTipo DEF Descender, Importa
<1>2. Tope.ruta \in Alcanzadas(fuente) /\ Importable(fuente[Tope.ruta])
  BY <1>1, TopeAlcanzado DEF EnlaceInductivo
<1>3. q \in Pide(fuente, Tope.ruta)
  BY <1>1 DEF Pide, Destino, ImportacionActual, Importaciones
<1>4. q \in Alcanzadas(fuente)
  BY <1>1, <1>2, <1>3, PedidaAlcanzada
<1>5. MarcoNuevo(q) \in Marco /\ MarcoNuevo(q).ruta = q /\ MarcoNuevo(q).pos = 1
  BY <1>1, MarcoNuevoTipo DEF MarcoNuevo
<1> HIDE DEF q
<1>6. /\ l \in Nat /\ l > 0 /\ Len(pila') = l + 1 /\ pila'[l + 1] = MarcoNuevo(q)
      /\ \A k \in 1 .. l : pila'[k] = pila[k]
      /\ \A k \in 1 .. l + 1 : k \in 1 .. l \/ k = l + 1
      /\ 1 \in 1 .. l
  BY <1>1, <1>5, TopeTipo, AppendProperties DEF TypeOK
<1> HIDE DEF l
<1>7. \A r \in Rutas : /\ estados'[r] = "listo" => estados[r] = "listo"
                       /\ estados'[r] # "ausente" => estados[r] # "ausente" \/ r = q
  BY <1>1 DEF TypeOK
<1>8. TablasFieles' /\ SoloAlcanzadas' /\ Cierre' /\ RechazoJustificado'
  BY <1>1, <1>4, <1>7 DEF EnlaceInductivo, TablasFieles, SoloAlcanzadas, Cierre, RechazoJustificado
<1>9. DesdeLaEntrada'
  <2>1. ASSUME NEW k \in 1 .. l + 1
        PROVE  pila'[k].pos <= Len(Importaciones(pila'[k].ruta)) + 1
    <3>1. CASE k \in 1 .. l
      BY <1>6, <3>1 DEF EnlaceInductivo, DesdeLaEntrada, l
    <3>2. CASE k = l + 1
      <4>1. Len(Importaciones(q)) \in Nat
        BY <1>1, ImportacionTipo DEF TypeOK
      <4> QED BY <1>5, <1>6, <3>2, <4>1
    <3> QED BY <1>6, <3>1, <3>2
  <2>2. pila'[1].ruta = Entrada /\ resultado' = "pendiente"
    BY <1>1, <1>6 DEF EnlaceInductivo, DesdeLaEntrada
  <2> QED BY <1>1, <1>6, <2>1, <2>2 DEF DesdeLaEntrada, Importaciones
<1>10. MarcosAlDia'
  <2>1. ASSUME ok, NEW k \in 1 .. l + 1
        PROVE  AlDia(fuente, pila'[k])
    <3>1. CASE k \in 1 .. l
      BY <1>6, <2>1, <3>1 DEF EnlaceInductivo, MarcosAlDia, l
    <3>2. CASE k = l + 1
      BY <1>1, <1>6, <3>2, NuevoAlDia DEF TypeOK
    <3> QED BY <1>6, <3>1, <3>2
  <2> QED BY <1>1, <1>6, <2>1 DEF MarcosAlDia
<1>11. EmitidosFieles'
  BY <1>1, EmitidosQuedan DEF EnlaceInductivo
<1> QED BY <1>8, <1>9, <1>10, <1>11 DEF EnlaceInductivo

-----------------------------------------------------------------------------
(* The two ways a module ends.                                              *)

(* While there is no error, the module on top is a sound file exactly when  *)
(* its rewrite does not fail.                                               *)
LEMMA TopeSano ==
  ASSUME TypeOK, PilaEsCamino, OrdenInductivo, EnlaceInductivo, ok, Agotado
  PROVE  Sano(fuente, Tope.ruta) <=> ~ReescrituraFalla(Tope)
<1> DEFINE r == Tope.ruta
<1>1. /\ pila # <<>> /\ Tope \in Marco /\ r \in Rutas /\ fuente \in [Rutas -> Archivo]
      /\ Importaciones(Entrada) # <<>>
  BY TopeTipo, FuenteTipo, HayRecorrido DEF Agotado, TypeOK
<1>2. Completo(fuente, Tope, exportaciones)
  BY TopeAcabado
<1>3. Importable(fuente[r]) /\ ImportacionesSanas(fuente, r)
  BY <1>1, <1>2, TopeAlcanzado, CompletoTodo DEF EnlaceInductivo
<1>4. HayQueReescribir(Tope) <=> ConRenombres(fuente, r)
  BY <1>1, <1>2, HayTrabajo
<1>5. UsosSanos(fuente, r) <=> \A u \in fuente[r].usa : ~ErrorDeUso(Tope, exportaciones, u)
  BY <1>1, <1>2, HayFalta
<1>6. ~(r = Entrada /\ fuente[r].importa = <<>>)
  BY <1>1 DEF Importaciones
<1>7. Sano(fuente, r) <=> (~ConRenombres(fuente, r) \/ UsosSanos(fuente, r))
  BY <1>3, <1>6 DEF Sano
<1> QED BY <1>4, <1>5, <1>7 DEF ReescrituraFalla

(* What the frames left by a return say.                                    *)
LEMMA MarcosRetorno ==
  ASSUME TypeOK, EnlaceInductivo, pila # <<>>, Len(pila) # 1, NEW m \in Marco,
         m.ruta = Llamador.ruta, m.pos = Llamador.pos + 1,
         Llamador.pos <= Len(Importaciones(Llamador.ruta)),
         pila' = [Desapilar EXCEPT ![Len(pila) - 1] = m],
         fuente' = fuente, resultado' = resultado, ok' => ok /\ AlDia(fuente, m)
  PROVE  DesdeLaEntrada' /\ MarcosAlDia'
<1> DEFINE l == Len(pila)
           n == l - 1
<1>a. l \in Nat /\ l > 0 /\ l # 1
  BY TopeTipo
<1>b. /\ Len(pila') = n /\ pila'[n] = m
      /\ \A k \in 1 .. l - 2 : pila'[k] = pila[k]
      /\ \A k \in 1 .. n : pila'[k].ruta = pila[k].ruta
  BY RetornoCambia
<1> HIDE DEF l
<1>c. n \in Nat /\ n > 0 /\ l = n + 1 /\ l - 2 = n - 1
  BY <1>a
<1> HIDE DEF n
<1>1. /\ n \in Nat /\ n > 0
      /\ \A k \in 1 .. n : (k = n \/ k \in 1 .. n - 1) /\ k \in 1 .. n + 1
      /\ 1 \in 1 .. n
  BY <1>c
<1>2. /\ Len(pila') = n /\ pila'[n] = m
      /\ \A k \in 1 .. n - 1 : pila'[k] = pila[k]
      /\ \A k \in 1 .. n : pila'[k].ruta = pila[k].ruta
  BY <1>b, <1>c
<1>3. /\ pila[1].ruta = Entrada /\ resultado = "pendiente"
      /\ \A k \in 1 .. n + 1 : pila[k].pos <= Len(Importaciones(pila[k].ruta)) + 1
      /\ ok => \A k \in 1 .. n + 1 : AlDia(fuente, pila[k])
  BY <1>c DEF EnlaceInductivo, DesdeLaEntrada, MarcosAlDia, l
<1>4. ASSUME NEW k \in 1 .. n
      PROVE  /\ pila'[k].pos <= Len(Importaciones(pila'[k].ruta)) + 1
             /\ ok' => AlDia(fuente, pila'[k])
  <2>1. CASE k = n
    <3>1. Llamador.pos \in Nat /\ Len(Importaciones(Llamador.ruta)) \in Nat
      BY LlamadorTipo, ImportacionTipo DEF TypeOK
    <3> QED BY <1>2, <2>1, <3>1
  <2>2. CASE k \in 1 .. n - 1
    BY <1>1, <1>2, <1>3, <2>2
  <2> QED BY <1>1, <2>1, <2>2
<1>5. pila'[1].ruta = Entrada /\ resultado' = "pendiente"
  BY <1>1, <1>2, <1>3
<1> QED BY <1>2, <1>4, <1>5 DEF DesdeLaEntrada, MarcosAlDia, Importaciones

(* What an empty stack says.                                                *)
LEMMA MarcosFin ==
  ASSUME pila' = <<>>
  PROVE  DesdeLaEntrada' /\ MarcosAlDia'
<1>1. Len(pila') = 0
  BY EmptySeq
<1>2. \A k \in 1 .. Len(pila') : FALSE
  BY <1>1
<1> QED BY <1>2 DEF DesdeLaEntrada, MarcosAlDia

(* A module ends with errors.                                               *)
LEMMA EnlaceRetornarFallido ==
  ASSUME TypeOK, PilaEsCamino, OrdenInductivo, EnlaceInductivo, RetornarFallido
  PROVE  EnlaceInductivo'
<1>1. /\ pila # <<>> /\ Tope.ruta \in Rutas /\ resultado = "pendiente" /\ ~ok' /\ Agotado
      /\ estados' = [estados EXCEPT ![Tope.ruta] = "fallido"]
      /\ UNCHANGED <<fuente, exportaciones, dependencias>>
      /\ Tope.ruta \in Alcanzadas(fuente) /\ Importable(fuente[Tope.ruta])
  BY TopeTipo, TopeAlcanzado DEF RetornarFallido, Agotado, EnlaceInductivo, DesdeLaEntrada
<1>2. ~ProyectoValido(fuente)
  <2>1. CASE ok
    <3>1. ~Sano(fuente, Tope.ruta)
      BY <1>1, <2>1, TopeSano DEF RetornarFallido
    <3> QED BY <1>1, <3>1, MalaAlcanzada
  <2>2. CASE ~ok
    BY <2>2 DEF EnlaceInductivo, RechazoJustificado
  <2> QED BY <2>1, <2>2
<1>3. \A r \in Rutas : /\ estados'[r] = "listo" => estados[r] = "listo"
                       /\ estados'[r] # "ausente" => estados[r] # "ausente" \/ r = Tope.ruta
  BY <1>1 DEF TypeOK
<1>4. TablasFieles' /\ SoloAlcanzadas' /\ RechazoJustificado'
  BY <1>1, <1>2, <1>3 DEF EnlaceInductivo, TablasFieles, SoloAlcanzadas, RechazoJustificado
<1>5. resultado' # "programa"
  BY <1>1 DEF RetornarFallido
<1>6. Cierre' /\ EmitidosFieles'
  BY <1>1, <1>5, EmitidosQuedan DEF Cierre, EnlaceInductivo
<1>7. DesdeLaEntrada' /\ MarcosAlDia'
  <2>1. CASE Len(pila) = 1
    BY <2>1, MarcosFin DEF RetornarFallido
  <2>2. CASE Len(pila) # 1
    <3> DEFINE m == [Llamador EXCEPT !.pos = @ + 1]
    <3>1. m \in Marco /\ m.ruta = Llamador.ruta /\ m.pos = Llamador.pos + 1
      BY <1>1, <2>2, LlamadorTipo DEF Marco
    <3>2. pila' = [Desapilar EXCEPT ![Len(pila) - 1] = m] /\ resultado' = resultado
      BY <1>1, <2>2, UltimoDesapilado DEF RetornarFallido
    <3>3. Llamador.pos <= Len(Importaciones(Llamador.ruta))
      BY <1>1, <2>2, LlamadorTipo, ImportacionLlamadorTipo
    <3> HIDE DEF m
    <3> QED BY <1>1, <2>2, <3>1, <3>2, <3>3, MarcosRetorno
  <2> QED BY <2>1, <2>2
<1> QED BY <1>4, <1>6, <1>7 DEF EnlaceInductivo

(* One more module in the program.                                          *)
LEMMA UnaMas ==
  ASSUME TypeOK, EmitidosFieles, NEW d \in Enlazado, fuente' = fuente,
         dependencias' = Append(dependencias, d), EmisionFiel(fuente, d),
         \A x \in d.usa : x[1] # Libre =>
           x \in d.declara \/ \E j \in 1 .. Len(dependencias) : x \in dependencias[j].declara
  PROVE  EmitidosFieles'
<1> DEFINE l == Len(dependencias)
<1>1. /\ l \in Nat /\ Len(dependencias') = l + 1 /\ dependencias'[l + 1] = d
      /\ \A k \in 1 .. l : dependencias'[k] = dependencias[k]
      /\ \A k \in 1 .. l + 1 : k \in 1 .. l \/ k = l + 1
      /\ \A k \in 1 .. l : \A j \in 1 .. k : j \in 1 .. l
      /\ \A j \in 1 .. l : j \in 1 .. l + 1
      /\ l + 1 \in 1 .. l + 1
  BY AppendProperties, LenProperties DEF TypeOK
<1> HIDE DEF l
<1>2. /\ \A k \in 1 .. l : EmisionFiel(fuente, dependencias[k])
      /\ \A k \in 1 .. l :
           /\ dependencias[k].usa = {Significado(fuente, dependencias[k].ruta, u) :
                                       u \in fuente[dependencias[k].ruta].usa}
           /\ \A x \in dependencias[k].usa :
                x[1] # Libre => \E j \in 1 .. k : x \in dependencias[j].declara
  BY DEF EmitidosFieles, ReferenciasResueltas, l
<1>3. ASSUME NEW k \in 1 .. l + 1
      PROVE  /\ EmisionFiel(fuente, dependencias'[k])
             /\ \A x \in dependencias'[k].usa :
                  x[1] # Libre => \E j \in 1 .. k : x \in dependencias'[j].declara
  <2>1. CASE k \in 1 .. l
    BY <1>1, <1>2, <2>1
  <2>2. CASE k = l + 1
    <3>1. \A x \in d.usa : x[1] # Libre => x \in d.declara \/ \E j \in 1 .. l : x \in dependencias[j].declara
      BY DEF l
    <3> QED BY <1>1, <2>2, <3>1
  <2> QED BY <1>1, <2>1, <2>2
<1> DEFINE S(p, r) == {Significado(p, r, u) : u \in p[r].usa}
<1>4. \A k \in 1 .. l + 1 : dependencias'[k].usa = S(fuente, dependencias'[k].ruta)
  BY <1>3 DEF EmisionFiel
<1>5. \A k \in 1 .. Len(dependencias') : EmisionFiel(fuente', dependencias'[k])
  BY <1>1, <1>3
<1> HIDE DEF S
<1>6. \A k \in 1 .. Len(dependencias') :
        /\ dependencias'[k].usa = S(fuente', dependencias'[k].ruta)
        /\ \A x \in dependencias'[k].usa :
             x[1] # Libre => \E j \in 1 .. k : x \in dependencias'[j].declara
  BY <1>1, <1>3, <1>4
<1>7. ReferenciasResueltas'
  BY <1>6 DEF ReferenciasResueltas, S
<1> QED BY <1>5, <1>7 DEF EmitidosFieles

(* The module of an activation that has gone past all its imports joins the *)
(* program after everything it asks for.                                    *)
LEMMA EmisionNueva ==
  ASSUME TypeOK, EmitidosFieles, NEW m \in Marco, Completo(fuente, m, exportaciones),
         m.ruta \in Alcanzadas(fuente), Sano(fuente, m.ruta),
         ~ReescrituraFalla(m) \/ \A n \in Nombres : m.espacios[n] = Nulo,
         \A q \in Pide(fuente, m.ruta) : \E k \in 1 .. Len(dependencias) : dependencias[k].ruta = q,
         fuente' = fuente, dependencias' = Append(dependencias, Enlace(m))
  PROVE  EmitidosFieles'
<1> DEFINE d == Enlace(m)
           r == m.ruta
<1>1. fuente \in [Rutas -> Archivo] /\ r \in Rutas /\ fuente[r] \in Archivo
  BY FuenteTipo, CompletoTodo DEF TypeOK
<1>2. d \in Enlazado /\ d.ruta = r
  BY EnlaceTipo
<1>3. d.declara = {Manglar(r, fuente[r].declara[k].nombre) : k \in 1 .. Len(fuente[r].declara)}
  BY DEF Enlace
<1>4. d.usa = {Significado(fuente, r, u) : u \in fuente[r].usa}
  BY <1>1, EnlaceFiel
<1>5. ASSUME NEW u \in fuente[r].usa, PorEspacio(m, u)
      PROVE  exportaciones[m.espacios[u.espacio]][u.nombre] # Nulo
  <2>1. u.espacio \in Nombres /\ m.espacios[u.espacio] # Nulo
    BY <1>1, <1>5, ArchivoTipo, UsoTipo DEF PorEspacio
  <2>2. HayQueReescribir(m) /\ ~ReescrituraFalla(m)
    BY <2>1 DEF HayQueReescribir
  <2> QED BY <1>5, <2>2 DEF ReescrituraFalla, ErrorDeUso
<1>6. \A q \in Rutas : \A x : Declarado(fuente, q, x) <=>
        x \in {Manglar(q, fuente[q].declara[k].nombre) : k \in 1 .. Len(fuente[q].declara)}
  BY DEF Declarado
<1> HIDE DEF d
<1>7. ASSUME NEW u \in fuente[r].usa, Significado(fuente, r, u)[1] # Libre
      PROVE  \/ Significado(fuente, r, u) \in d.declara
             \/ \E j \in 1 .. Len(dependencias) : Significado(fuente, r, u) \in dependencias[j].declara
  <2> DEFINE x == Significado(fuente, r, u)
  <2>1. PICK q \in Rutas : (q = r \/ q \in Pide(fuente, r)) /\ Declarado(fuente, q, x)
    BY <1>1, <1>5, <1>7, SignificadoDeclarado
  <2> HIDE DEF x
  <2>2. CASE q = r
    <3>1. x \in d.declara
      BY <1>3, <1>6, <2>1, <2>2
    <3> QED BY <3>1 DEF x
  <2>3. CASE q \in Pide(fuente, r)
    <3>1. PICK j \in 1 .. Len(dependencias) : dependencias[j].ruta = q
      BY <2>3
    <3>2. dependencias[j].declara = {Manglar(q, fuente[q].declara[k].nombre) :
                                       k \in 1 .. Len(fuente[q].declara)}
      BY <3>1 DEF EmitidosFieles, EmisionFiel
    <3>3. x \in dependencias[j].declara
      BY <1>6, <2>1, <3>2
    <3> QED BY <3>3 DEF x
  <2> QED BY <2>1, <2>2, <2>3
<1>8. \A x \in d.usa : x[1] # Libre =>
        x \in d.declara \/ \E j \in 1 .. Len(dependencias) : x \in dependencias[j].declara
  BY <1>4, <1>7
<1>9. EmisionFiel(fuente, d)
  BY <1>2, <1>3, <1>4 DEF EmisionFiel
<1>10. dependencias' = Append(dependencias, d)
  BY DEF d
<1> QED BY <1>2, <1>8, <1>9, <1>10, UnaMas

(* The caller goes on with the table of the module that has just ended.     *)
LEMMA LlamadorAvanza ==
  ASSUME TypeOK, PilaEsCamino, EnlaceInductivo, ok, pila # <<>>, Len(pila) # 1,
         NEW t, t = TablaExportacion(fuente[Tope.ruta], Tope.ruta)
  PROVE  LET i == Importaciones(Llamador.ruta)[Llamador.pos]
         IN  /\ TodoExportado(i, t) => AlDia(fuente, Enlazar(Llamador, i, t))
             /\ ~TodoExportado(i, t) => ~ProyectoValido(fuente)
<1> DEFINE i == Importaciones(Llamador.ruta)[Llamador.pos]
           l == Len(pila)
<1>1. l \in Nat /\ l > 0 /\ l # 1
  BY TopeTipo
<1>2. l - 1 \in 1 .. l
  BY <1>1, Posiciones
<1>3. /\ Llamador \in Marco /\ Llamador.ruta \in Rutas /\ fuente \in [Rutas -> Archivo]
      /\ Llamador.pos \in 1 .. Len(Importaciones(Llamador.ruta))
      /\ i \in Importacion /\ i.ruta = Tope.ruta /\ i.forma # "exportar_desde"
      /\ Len(Importaciones(Llamador.ruta)) \in Nat
  BY LlamadorTipo, ImportacionLlamadorTipo, ImportacionTipo, FuenteTipo DEF TypeOK
<1>4. Llamador = pila[l - 1]
  BY DEF Llamador
<1>5. Llamador.ruta \in Alcanzadas(fuente) /\ AlDia(fuente, Llamador)
  <2>1. pila[l - 1].ruta \in Rutas /\ SoloAlcanzadas
    BY <1>3, <1>4 DEF EnlaceInductivo
  <2>2. pila[l - 1].ruta \in Alcanzadas(fuente)
    BY <1>2, <2>1, PilaAlcanzada
  <2>3. AlDia(fuente, pila[l - 1])
    BY <1>2 DEF EnlaceInductivo, MarcosAlDia
  <2> QED BY <1>4, <2>2, <2>3
<1>6. i = Actual(fuente, Llamador) /\ t = TablaDe(fuente, i)
  BY <1>3 DEF Actual, Importaciones, TablaDe
<1> HIDE DEF i, l
<1>7. TodoExportado(i, t) <=> ImportacionSana(fuente, i)
  BY <1>3, <1>6 DEF ImportacionSana
<1>8. Llamador.pos <= Len(fuente[Llamador.ruta].importa)
  BY <1>3 DEF Importaciones
<1>9. TodoExportado(i, t) => AlDia(fuente, Enlazar(Llamador, i, t))
  <2> SUFFICES ASSUME TodoExportado(i, t)
               PROVE  AlDia(fuente, Enlazar(Llamador, i, t))
    OBVIOUS
  <2>1. ImportacionSana(fuente, Actual(fuente, Llamador))
    BY <1>6, <1>7
  <2>2. AlDia(fuente, Avanzado(fuente, Llamador))
    BY <1>3, <1>5, <1>8, <2>1, Avance
  <2> QED BY <1>6, <2>2 DEF Avanzado
<1>10. ~TodoExportado(i, t) => ~ProyectoValido(fuente)
  <2> SUFFICES ASSUME ~TodoExportado(i, t)
               PROVE  ~ProyectoValido(fuente)
    OBVIOUS
  <2>1. Llamador.pos \in 1 .. Len(fuente[Llamador.ruta].importa)
    BY <1>3 DEF Importaciones
  <2>2. ~ImportacionSana(fuente, fuente[Llamador.ruta].importa[Llamador.pos])
    BY <1>6, <1>7 DEF Actual
  <2> QED BY <1>5, <2>1, <2>2, MalaImportacion
<1> QED BY <1>9, <1>10 DEF i

(* A module ends well.                                                      *)
LEMMA EnlaceRetornarListo ==
  ASSUME TypeOK, PilaEsCamino, OrdenInductivo, EnlaceInductivo, RetornarListo
  PROVE  EnlaceInductivo'
<1> DEFINE r == Tope.ruta
           t == TablaExportacion(fuente[r], r)
           i == Importaciones(Llamador.ruta)[Llamador.pos]
<1>1. /\ pila # <<>> /\ Agotado /\ ok /\ ~ReescrituraFalla(Tope)
      /\ Tope \in Marco /\ r \in Rutas /\ resultado = "pendiente"
      /\ fuente' = fuente /\ estados' = [estados EXCEPT ![r] = "listo"]
      /\ dependencias' = Append(dependencias, Enlace(Tope))
      /\ exportaciones' = [exportaciones EXCEPT ![r] = t]
  BY TopeTipo DEF RetornarListo, Agotado, EnlaceInductivo, DesdeLaEntrada
<1>2. r \in Alcanzadas(fuente) /\ Importable(fuente[r]) /\ Sano(fuente, r)
  BY <1>1, TopeAlcanzado, TopeSano DEF EnlaceInductivo
<1>3. /\ Completo(fuente, Tope, exportaciones)
      /\ \A q \in Pide(fuente, r) : q \in Rutas /\ estados[q] = "listo"
  BY <1>1, TopeAcabado
<1>4. \A q \in Pide(fuente, r) : \E k \in 1 .. Len(dependencias) : dependencias[k].ruta = q
  BY <1>3 DEF OrdenInductivo, EmitidosListos
<1>5. EmitidosFieles'
  BY <1>1, <1>2, <1>3, <1>4, EmisionNueva DEF EnlaceInductivo
<1>6. \A q \in Rutas : /\ estados'[q] = "listo" => estados[q] = "listo" \/ q = r
                       /\ estados'[q] # "ausente" => estados[q] # "ausente" \/ q = r
                       /\ q = r => exportaciones'[q] = t
                       /\ q # r => exportaciones'[q] = exportaciones[q]
  BY <1>1 DEF TypeOK
<1>7. TablasFieles' /\ SoloAlcanzadas'
  <2>1. TablasFieles'
    BY <1>1, <1>6 DEF TablasFieles, EnlaceInductivo
  <2>2. SoloAlcanzadas'
    BY <1>1, <1>2, <1>6 DEF SoloAlcanzadas, EnlaceInductivo
  <2> QED BY <2>1, <2>2
<1>8. \E k \in 1 .. Len(dependencias') : dependencias'[k].ruta = r
  <2> DEFINE n == Len(dependencias)
  <2>1. Enlace(Tope).ruta = r
    BY DEF Enlace
  <2>2. n \in Nat /\ Len(dependencias') = n + 1 /\ dependencias'[n + 1] = Enlace(Tope)
    <3>1. Enlace(Tope) \in Enlazado
      BY <1>1, EnlaceTipo
    <3> QED BY <1>1, <3>1, AppendProperties, LenProperties DEF TypeOK
  <2> HIDE DEF n, r
  <2>3. n + 1 \in 1 .. Len(dependencias')
    BY <2>2
  <2> QED BY <2>1, <2>2, <2>3
<1>9. CASE Len(pila) = 1
  <2>1. ok' = ok /\ pila' = <<>> /\ resultado' = "programa"
    BY <1>9 DEF RetornarListo
  <2>2. r = Entrada
    BY <1>1, <1>9 DEF Tope, EnlaceInductivo, DesdeLaEntrada
  <2>3. Cierre' /\ RechazoJustificado'
    BY <1>1, <1>8, <2>1, <2>2 DEF Cierre, RechazoJustificado
  <2>4. DesdeLaEntrada' /\ MarcosAlDia'
    BY <2>1, MarcosFin
  <2> QED BY <1>5, <1>7, <2>3, <2>4 DEF EnlaceInductivo
<1>10. CASE Len(pila) # 1
  <2> DEFINE m == Enlazar(Llamador, i, t)
  <2>1. /\ pila' = [Desapilar EXCEPT ![Len(pila) - 1] = m]
        /\ ok' = TodoExportado(i, t) /\ resultado' = resultado
    BY <1>1, <1>10, UltimoDesapilado DEF RetornarListo
  <2>2. /\ TodoExportado(i, t) => AlDia(fuente, m)
        /\ ~TodoExportado(i, t) => ~ProyectoValido(fuente)
    BY <1>1, <1>10, LlamadorAvanza
  <2>3. m \in Marco /\ m.ruta = Llamador.ruta /\ m.pos = Llamador.pos + 1
    <3>1. t \in [Nombres -> Internos \cup {Nulo}]
      BY <1>1, FuenteTipo, TablaTipo DEF TypeOK
    <3> QED BY <1>1, <1>10, <3>1, LlamadorTipo, ImportacionLlamadorTipo, EnlazarTipo
  <2>4. Llamador.pos <= Len(Importaciones(Llamador.ruta))
    BY <1>1, <1>10, ImportacionLlamadorTipo, LlamadorTipo
  <2> HIDE DEF m, i, t
  <2>5. DesdeLaEntrada' /\ MarcosAlDia'
    BY <1>1, <1>10, <2>1, <2>2, <2>3, <2>4, MarcosRetorno
  <2>6. Cierre' /\ RechazoJustificado'
    BY <1>1, <2>1, <2>2 DEF Cierre, RechazoJustificado
  <2> QED BY <1>5, <1>7, <2>5, <2>6 DEF EnlaceInductivo
<1> QED BY <1>9, <1>10

(* An entry without imports is the whole program.                           *)
LEMMA EnlaceResolverModuloUnico ==
  ASSUME TypeOK, OrdenInductivo, EnlaceInductivo, ResolverModuloUnico
  PROVE  EnlaceInductivo'
<1> DEFINE e == Entrada
           m == MarcoNuevo(e)
<1>1. /\ e \in Rutas /\ resultado = "pendiente" /\ pila = <<>>
      /\ dependencias' = <<Enlace(m)>> /\ resultado' = "programa"
      /\ UNCHANGED <<fuente, estados, exportaciones, pila, ok>>
      /\ fuente[e].importa = <<>> /\ Len(fuente[e].importa) = 0
      /\ fuente \in [Rutas -> Archivo] /\ EntradaValida(fuente[e])
  BY ConstantesAssumption, FuenteTipo DEF ResolverModuloUnico, TypeOK, Importaciones
<1>2. /\ m \in Marco /\ m.ruta = e /\ m.pos = 1
      /\ \A n \in Nombres : m.espacios[n] = Nulo
  BY <1>1, MarcoNuevoTipo DEF MarcoNuevo
<1>3. Completo(fuente, m, exportaciones)
  BY <1>1, <1>2, NuevoAlDia DEF Completo, TypeOK
<1>4. e \in Alcanzadas(fuente) /\ Sano(fuente, e)
  <2>1. \A k \in 1 .. Len(fuente[e].importa) : FALSE
    BY <1>1
  <2> QED BY <1>1, <2>1, EntradaAlcanzada DEF Sano, ImportacionesSanas, EntradaValida, Importable
<1>5. Pide(fuente, e) = {}
  <2>1. \A k \in 1 .. Len(fuente[e].importa) : FALSE
    BY <1>1
  <2> QED BY <2>1 DEF Pide
<1>6. Enlace(m) \in Enlazado /\ Enlace(m).ruta = e
  BY <1>2, EnlaceTipo
<1>7. dependencias' = Append(dependencias, Enlace(m))
  <2>1. dependencias = <<>>
    BY <1>1 DEF OrdenInductivo, SinEmpezar
  <2> QED BY <1>1, <2>1
<1> HIDE DEF m, e
<1>8. EmitidosFieles'
  BY <1>1, <1>2, <1>3, <1>4, <1>5, <1>7, EmisionNueva DEF EnlaceInductivo
<1>9. Cierre'
  <2>1. Len(dependencias') = 1 /\ dependencias'[1].ruta = Entrada
    BY <1>1, <1>6 DEF e
  <2> QED BY <1>1, <2>1 DEF Cierre
<1>10. TablasFieles' /\ SoloAlcanzadas' /\ RechazoJustificado'
  BY <1>1 DEF EnlaceInductivo, TablasFieles, SoloAlcanzadas, RechazoJustificado
<1>11. DesdeLaEntrada' /\ MarcosAlDia'
  BY <1>1, MarcosFin
<1> QED BY <1>8, <1>9, <1>10, <1>11 DEF EnlaceInductivo

(* Every step.                                                              *)
LEMMA PasoEnlace ==
  TypeOK /\ PilaEsCamino /\ OrdenInductivo /\ EnlaceInductivo /\ [Next]_vars => EnlaceInductivo'
<1> SUFFICES ASSUME TypeOK, PilaEsCamino, OrdenInductivo, EnlaceInductivo, [Next]_vars
             PROVE  EnlaceInductivo'
  OBVIOUS
<1>1. CASE ResolverModuloUnico
  BY <1>1, EnlaceResolverModuloUnico
<1>2. CASE Comenzar
  BY <1>2, EnlaceComenzar
<1>3. CASE RechazarReexport
  BY <1>3, EnlaceRechazarReexport
<1>4. CASE DetectarCiclo
  BY <1>4, EnlaceDetectarCiclo
<1>5. CASE UsarMemo
  BY <1>5, EnlaceUsarMemo
<1>6. CASE NoResolver
  BY <1>6, EnlaceNoResolver
<1>7. CASE Descender
  BY <1>7, EnlaceDescender
<1>8. CASE RetornarFallido
  BY <1>8, EnlaceRetornarFallido
<1>9. CASE RetornarListo
  BY <1>9, EnlaceRetornarListo
<1>10. CASE UNCHANGED vars
  <2>1. UNCHANGED <<fuente, estados, exportaciones, pila, dependencias, ok, resultado>>
    BY <1>10 DEF vars
  <2>2. TablasFieles' /\ SoloAlcanzadas' /\ RechazoJustificado' /\ Cierre'
    BY <2>1 DEF EnlaceInductivo, TablasFieles, SoloAlcanzadas, RechazoJustificado, Cierre
  <2>3. DesdeLaEntrada' /\ MarcosAlDia'
    BY <2>1 DEF EnlaceInductivo, DesdeLaEntrada, MarcosAlDia, Importaciones
  <2>4. EmitidosFieles'
    BY <2>1, EmitidosQuedan DEF EnlaceInductivo
  <2> QED BY <2>2, <2>3, <2>4 DEF EnlaceInductivo
<1>11. CASE Terminado
  BY <1>10, <1>11 DEF Terminado
<1> QED
  BY <1>1, <1>2, <1>3, <1>4, <1>5, <1>6, <1>7, <1>8, <1>9, <1>10, <1>11 DEF Next

(* The inductive invariant of the linked program, with those it rests on:   *)
(* the tables of whole modules are the ones of their files, only files the  *)
(* entry reaches are read, the maps of an activation say what the imports   *)
(* it has gone past say, an error is one the project has, and an emitted    *)
(* module is its file with its references resolved.                         *)
THEOREM EnlaceEsInvariante ==
  Spec => [](TypeOK /\ PilaEsCamino /\ OrdenInductivo /\ EnlaceInductivo)
<1>1. Init => TypeOK /\ PilaEsCamino /\ OrdenInductivo /\ EnlaceInductivo
  BY InitTypeOK, InitPila, InitOrden, InitEnlace
<1>2. TypeOK /\ PilaEsCamino /\ OrdenInductivo /\ EnlaceInductivo /\ [Next]_vars
        => (TypeOK /\ PilaEsCamino /\ OrdenInductivo /\ EnlaceInductivo)'
  BY PasoTypeOK, PasoPila, PasoOrden, PasoEnlace
<1> QED BY <1>1, <1>2, PTL DEF Spec

-----------------------------------------------------------------------------
(* What the program is.                                                     *)

(* Every reference of a linked module carries the mangled name of the       *)
(* declaration it means in its own file, which the program already has:     *)
(* nothing procesarModulo and ReescritorReferencias emit dangles or is      *)
(* captured by another module.                                              *)
THEOREM ReferenciasSiempre == Spec => []ReferenciasResueltas
<1>1. EnlaceInductivo => ReferenciasResueltas
  BY DEF EnlaceInductivo, EmitidosFieles
<1> QED BY <1>1, EnlaceEsInvariante, PTL

(* The program is the files reached: those emitted are closed under what    *)
(* their imports ask for, and the entry is one of them.                     *)
LEMMA ProgramaAlcanzadas ==
  ASSUME TypeOK, OrdenInductivo, EnlaceInductivo, resultado = "programa"
  PROVE  {dependencias[k].ruta : k \in 1 .. Len(dependencias)} = Alcanzadas(fuente)
<1> DEFINE E == {dependencias[k].ruta : k \in 1 .. Len(dependencias)}
<1>1. Len(dependencias) \in Nat /\ \A k \in 1 .. Len(dependencias) : dependencias[k] \in Enlazado
  BY LenProperties, ElementOfSeq DEF TypeOK
<1>2. E \in SUBSET Rutas
  BY <1>1 DEF Enlazado
<1>3. Entrada \in E
  BY DEF EnlaceInductivo, Cierre
<1>4. Cerrado(fuente, E)
  <2>1. ASSUME NEW k \in 1 .. Len(dependencias), NEW q \in Pide(fuente, dependencias[k].ruta)
        PROVE  q \in E
    <3>1. PICK j \in 1 .. k - 1 : dependencias[j].ruta = q
      BY <2>1 DEF OrdenInductivo, OrdenDeDependencias
    <3>2. j \in 1 .. Len(dependencias)
      BY <1>1
    <3> QED BY <3>1, <3>2
  <2> QED BY <2>1 DEF Cerrado
<1>5. E \subseteq Alcanzadas(fuente)
  BY DEF EnlaceInductivo, EmitidosFieles, EmisionFiel
<1>6. Alcanzadas(fuente) \subseteq E
  <2> HIDE DEF E
  <2> QED BY <1>2, <1>3, <1>4, AlcanzadasDentro
<1> QED BY <1>5, <1>6

(* A program has no circle: the member of one emitted first asks for none   *)
(* of the others.                                                           *)
LEMMA ProgramaSinCiclos ==
  ASSUME TypeOK, OrdenInductivo, EnlaceInductivo, resultado = "programa"
  PROVE  SinCiclos(fuente)
<1> SUFFICES ASSUME NEW C \in SUBSET Alcanzadas(fuente), C # {}
             PROVE  \E r \in C : Pide(fuente, r) \cap C = {}
  BY DEF SinCiclos
<1> DEFINE n == Len(dependencias)
           T == {k \in 1 .. n : dependencias[k].ruta \in C}
<1>1. n \in Nat
  BY LenProperties DEF TypeOK
<1>2. \A r \in C : \E k \in 1 .. n : dependencias[k].ruta = r
  BY ProgramaAlcanzadas
<1>3. T \in SUBSET Nat /\ T # {}
  BY <1>1, <1>2
<1> HIDE DEF T
<1>4. PICK x \in T : \A y \in T : x <= y
  BY <1>3, Minimo
<1>5. x \in 1 .. n /\ dependencias[x].ruta \in C
  BY DEF T
<1>6. ASSUME NEW q \in Pide(fuente, dependencias[x].ruta), q \in C
      PROVE  FALSE
  <2>1. PICK j \in 1 .. x - 1 : dependencias[j].ruta = q
    BY <1>5 DEF OrdenInductivo, OrdenDeDependencias
  <2>2. j \in T /\ ~(x <= j)
    BY <1>1, <1>5, <1>6, <2>1 DEF T
  <2> QED BY <1>4, <2>2
<1> QED BY <1>5, <1>6

(* The verdict is the one the project deserves.                             *)
LEMMA VeredictoSale ==
  ASSUME TypeOK, OrdenInductivo, EnlaceInductivo
  PROVE  VeredictoCorrecto
<1>1. ASSUME resultado = "programa"
      PROVE  ProyectoValido(fuente)
  <2>1. \A k \in 1 .. Len(dependencias) : Sano(fuente, dependencias[k].ruta)
    BY DEF EnlaceInductivo, EmitidosFieles, EmisionFiel
  <2>2. \A r \in Alcanzadas(fuente) : \E k \in 1 .. Len(dependencias) : dependencias[k].ruta = r
    BY <1>1, ProgramaAlcanzadas
  <2> QED BY <1>1, <2>1, <2>2, ProgramaSinCiclos DEF ProyectoValido
<1>2. resultado = "nulo" => ~ProyectoValido(fuente)
  BY DEF EnlaceInductivo, Cierre, RechazoJustificado
<1>3. resultado \in {"pendiente", "nulo", "programa"}
  BY DEF TypeOK
<1> QED BY <1>1, <1>2, <1>3, ProgramaAlcanzadas DEF VeredictoCorrecto

(* resolverProyecto returns a program exactly for the projects that deserve *)
(* one, however the errors of a module cascade over those read after it,    *)
(* and the program is the files the entry reaches.                          *)
THEOREM VeredictoSiempre == Spec => []VeredictoCorrecto
<1>1. TypeOK /\ OrdenInductivo /\ EnlaceInductivo => VeredictoCorrecto
  BY VeredictoSale
<1> QED BY <1>1, EnlaceEsInvariante, PTL

-----------------------------------------------------------------------------
(* The walk implements the abstract linker.                                 *)

(* The files linked are a sequence of paths, and one more module adds its   *)
(* own.                                                                     *)
LEMMA UnaRutaMas ==
  ASSUME TypeOK, NEW d \in Enlazado, dependencias' = Append(dependencias, d)
  PROVE  RutasEnlazadas' = Append(RutasEnlazadas, d.ruta)
<1> DEFINE n == Len(dependencias)
           s == RutasEnlazadas
           z == Append(s, d.ruta)
<1>a. /\ n \in Nat /\ Len(dependencias') = n + 1 /\ dependencias'[n + 1] = d
      /\ \A k \in 1 .. n : dependencias'[k] = dependencias[k]
  BY AppendProperties, LenProperties DEF TypeOK
<1>b. \A k \in 1 .. n : dependencias[k] \in Enlazado
  BY ElementOfSeq DEF TypeOK
<1>c. d.ruta \in Rutas
  BY DEF Enlazado
<1>d. \A k \in 1 .. n + 1 : k \in 1 .. n \/ k = n + 1
  BY <1>a
<1>1. /\ n \in Nat /\ Len(dependencias') = n + 1 /\ dependencias'[n + 1] = d
      /\ \A k \in 1 .. n : dependencias'[k] = dependencias[k] /\ dependencias[k] \in Enlazado
      /\ \A k \in 1 .. n + 1 : k \in 1 .. n \/ k = n + 1
      /\ d.ruta \in Rutas
  BY <1>a, <1>b, <1>c, <1>d
<1> HIDE DEF n
<1>2. RutasEnlazadas' = [k \in 1 .. n + 1 |-> dependencias'[k].ruta]
  BY <1>1 DEF RutasEnlazadas
<1>3. s = [k \in 1 .. n |-> dependencias[k].ruta]
  BY DEF RutasEnlazadas, n
<1>4. s \in [1 .. n -> Rutas]
  BY <1>1, <1>3 DEF Enlazado
<1>5. s \in Seq(Rutas) /\ Len(s) = n
  BY <1>1, <1>4
<1> HIDE DEF s
<1>6. /\ z \in Seq(Rutas) /\ Len(z) = n + 1 /\ z[n + 1] = d.ruta
      /\ \A k \in 1 .. n : z[k] = s[k]
  BY <1>1, <1>5, AppendProperties
<1> HIDE DEF z
<1>7. z = [k \in 1 .. n + 1 |-> z[k]]
  BY <1>6, LenProperties
<1>8. \A k \in 1 .. n + 1 : z[k] = dependencias'[k].ruta
  BY <1>1, <1>3, <1>6
<1>9. z = RutasEnlazadas'
  BY <1>2, <1>7, <1>8
<1> QED BY <1>9 DEF z, s

(* What the abstract linker sees emitted.                                   *)
LEMMA EmitidosAbstractos ==
  ASSUME TypeOK, NEW q
  PROVE  q \in Abstracto!Emitidos <=> \E k \in 1 .. Len(dependencias) : dependencias[k].ruta = q
<1>1. Len(dependencias) \in Nat
  BY LenProperties DEF TypeOK
<1>2. Len(RutasEnlazadas) = Len(dependencias)
  BY <1>1 DEF RutasEnlazadas
<1> QED BY <1>2 DEF Abstracto!Emitidos, RutasEnlazadas

(* Nothing is linked at first.                                              *)
LEMMA InitAbstracto == Init => Abstracto!AInit
<1> SUFFICES ASSUME Init
             PROVE  Abstracto!AInit
  OBVIOUS
<1>1. fuente \in Proyectos /\ dependencias = <<>> /\ resultado = "pendiente"
  BY DEF Init
<1>2. RutasEnlazadas = <<>>
  BY <1>1 DEF RutasEnlazadas
<1> QED BY <1>1, <1>2 DEF Abstracto!AInit

(* The steps that link nothing and answer nothing do not show.              *)
LEMMA PasoInvisible ==
  ASSUME UNCHANGED <<fuente, dependencias, resultado>>
  PROVE  UNCHANGED Abstracto!avars
BY DEF Abstracto!avars, RutasEnlazadas

(* A project without an error of its own and without circles is valid, so a *)
(* refusal has one of the two reasons of the abstract linker.               *)
LEMMA MotivoAbstracto ==
  ASSUME fuente \in Proyectos, ~ProyectoValido(fuente)
  PROVE  Abstracto!HayCiclo(fuente) \/ \E r \in Rutas : ~Sano(fuente, r)
<1>1. Alcanzadas(fuente) \subseteq Rutas
  BY DEF Alcanzadas
<1>2. CASE \E r \in Alcanzadas(fuente) : ~Sano(fuente, r)
  BY <1>1, <1>2
<1>3. CASE ~SinCiclos(fuente)
  <2>1. PICK C \in (SUBSET Alcanzadas(fuente)) \ {{}} : \A r \in C : Pide(fuente, r) \cap C # {}
    BY <1>3 DEF SinCiclos
  <2> QED BY <1>1, <2>1 DEF Abstracto!HayCiclo
<1> QED BY <1>2, <1>3 DEF ProyectoValido

(* A module that joins the program is a step of the abstract linker.        *)
LEMMA AceptarAbstracto ==
  ASSUME TypeOK, NEW d \in Enlazado, d.ruta = Entrada, Sano(fuente, Entrada),
         \A q \in Pide(fuente, Entrada) : \E k \in 1 .. Len(dependencias) : dependencias[k].ruta = q,
         resultado = "pendiente", resultado' = "programa",
         dependencias' = Append(dependencias, d), fuente' = fuente
  PROVE  Abstracto!ANext
<1>1. RutasEnlazadas' = Append(RutasEnlazadas, Entrada)
  BY UnaRutaMas
<1>2. Pide(fuente, Entrada) \subseteq Abstracto!Emitidos
  BY EmitidosAbstractos
<1> QED BY <1>1, <1>2 DEF Abstracto!ANext, Abstracto!Aceptar

(* The end of a module without errors.                                      *)
LEMMA ListoAbstracto ==
  ASSUME TypeOK, PilaEsCamino, OrdenInductivo, EnlaceInductivo, RetornarListo
  PROVE  Abstracto!ANext
<1> DEFINE r == Tope.ruta
           d == Enlace(Tope)
<1>1. /\ pila # <<>> /\ Agotado /\ ok /\ ~ReescrituraFalla(Tope)
      /\ Tope \in Marco /\ r \in Rutas /\ resultado = "pendiente"
      /\ fuente' = fuente /\ dependencias' = Append(dependencias, d)
      /\ Importaciones(Entrada) # <<>>
  BY TopeTipo, HayRecorrido DEF RetornarListo, Agotado, EnlaceInductivo, DesdeLaEntrada
<1>2. Sano(fuente, r)
  BY <1>1, TopeSano
<1>3. \A q \in Pide(fuente, r) : \E k \in 1 .. Len(dependencias) : dependencias[k].ruta = q
  <2>1. \A q \in Pide(fuente, r) : q \in Rutas /\ estados[q] = "listo"
    BY <1>1, TopeAcabado
  <2> QED BY <2>1 DEF OrdenInductivo, EmitidosListos
<1>4. d \in Enlazado /\ d.ruta = r
  BY <1>1, EnlaceTipo
<1>5. CASE Len(pila) = 1
  <2>1. r = Entrada /\ resultado' = "programa"
    BY <1>1, <1>5 DEF Tope, EnlaceInductivo, DesdeLaEntrada, RetornarListo
  <2> HIDE DEF d, r
  <2> QED BY <1>1, <1>2, <1>3, <1>4, <2>1, AceptarAbstracto
<1>6. CASE Len(pila) # 1
  <2>1. Len(pila) \in Nat /\ 1 \in 1 .. Len(pila) /\ Len(pila) \in 1 .. Len(pila)
    BY <1>1, TopeTipo
  <2>2. r # Entrada
    BY <1>1, <1>6, <2>1 DEF PilaEsCamino, EnlaceInductivo, DesdeLaEntrada, Tope
  <2>3. estados[r] = "en_proceso"
    BY <1>1, <2>1 DEF PilaEsCamino, Activas, Tope
  <2> HIDE DEF d, r
  <2>4. r \notin Abstracto!Emitidos
    BY <1>1, <2>3, EmitidosAbstractos DEF OrdenInductivo, EmitidosListos
  <2>5. Pide(fuente, r) \subseteq Abstracto!Emitidos
    BY <1>3, EmitidosAbstractos
  <2>6. RutasEnlazadas' = Append(RutasEnlazadas, r)
    BY <1>1, <1>4, UnaRutaMas
  <2>7. resultado' = resultado
    BY <1>6 DEF RetornarListo
  <2>8. Abstracto!Emitir(r)
    BY <1>1, <1>2, <2>2, <2>4, <2>5, <2>6, <2>7 DEF Abstracto!Emitir
  <2> QED BY <1>1, <2>8 DEF Abstracto!ANext
<1> QED BY <1>5, <1>6

(* The program of an entry without imports.                                 *)
LEMMA UnicoAbstracto ==
  ASSUME TypeOK, OrdenInductivo, EnlaceInductivo, ResolverModuloUnico
  PROVE  Abstracto!ANext
<1> DEFINE d == Enlace(MarcoNuevo(Entrada))
<1>1. /\ resultado = "pendiente" /\ resultado' = "programa" /\ fuente' = fuente
      /\ dependencias' = <<d>> /\ fuente[Entrada].importa = <<>>
      /\ dependencias = <<>>
  BY DEF ResolverModuloUnico, Importaciones, OrdenInductivo, SinEmpezar
<1>2. d \in Enlazado /\ d.ruta = Entrada
  <2>1. /\ MarcoNuevo(Entrada) \in Marco /\ MarcoNuevo(Entrada).ruta = Entrada
        /\ \A n \in Nombres : MarcoNuevo(Entrada).espacios[n] = Nulo
    BY ConstantesAssumption, MarcoNuevoTipo DEF MarcoNuevo
  <2> QED BY <2>1, EnlaceTipo
<1> HIDE DEF d
<1>3. dependencias' = Append(dependencias, d)
  BY <1>1
<1>4. \A k \in 1 .. Len(fuente[Entrada].importa) : FALSE
  BY <1>1
<1>5. Pide(fuente, Entrada) = {}
  BY <1>4 DEF Pide
<1>6. Sano(fuente, Entrada)
  BY <1>1, <1>4, FuenteTipo DEF Sano, ImportacionesSanas, EntradaValida, Importable, TypeOK
<1> QED BY <1>1, <1>2, <1>3, <1>5, <1>6, AceptarAbstracto

(* The end of a module with errors: the entry is refused, another module    *)
(* does not show.                                                           *)
LEMMA FallidoAbstracto ==
  ASSUME TypeOK, PilaEsCamino, OrdenInductivo, EnlaceInductivo, RetornarFallido
  PROVE  Abstracto!ANext \/ UNCHANGED Abstracto!avars
<1>1. /\ fuente' = fuente /\ dependencias' = dependencias /\ ~ok' /\ pila # <<>>
      /\ resultado = "pendiente"
  BY DEF RetornarFallido, Agotado, EnlaceInductivo, DesdeLaEntrada
<1>2. CASE Len(pila) = 1
  <2>1. resultado' = "nulo"
    BY <1>2 DEF RetornarFallido
  <2>2. ~ProyectoValido(fuente)
    BY <1>1, EnlaceRetornarFallido DEF EnlaceInductivo, RechazoJustificado
  <2>3. Abstracto!HayCiclo(fuente) \/ \E r \in Rutas : ~Sano(fuente, r)
    BY <2>2, MotivoAbstracto DEF TypeOK
  <2>4. RutasEnlazadas' = RutasEnlazadas
    BY <1>1 DEF RutasEnlazadas
  <2> QED BY <1>1, <2>1, <2>3, <2>4 DEF Abstracto!ANext, Abstracto!Rechazar
<1>3. CASE Len(pila) # 1
  BY <1>1, <1>3, PasoInvisible DEF RetornarFallido
<1> QED BY <1>2, <1>3

(* Every step is a step of the abstract linker or does not show.            *)
LEMMA PasoAbstracto ==
  TypeOK /\ PilaEsCamino /\ OrdenInductivo /\ EnlaceInductivo /\ [Next]_vars
    => [Abstracto!ANext]_(Abstracto!avars)
<1> SUFFICES ASSUME TypeOK, PilaEsCamino, OrdenInductivo, EnlaceInductivo, [Next]_vars
             PROVE  Abstracto!ANext \/ UNCHANGED Abstracto!avars
  OBVIOUS
<1>1. CASE ResolverModuloUnico
  BY <1>1, UnicoAbstracto
<1>2. CASE RetornarFallido
  BY <1>2, FallidoAbstracto
<1>3. CASE RetornarListo
  BY <1>3, ListoAbstracto
<1>4. CASE Comenzar
  BY <1>4, PasoInvisible DEF Comenzar
<1>5. CASE RechazarReexport
  BY <1>5, PasoInvisible DEF RechazarReexport
<1>6. CASE DetectarCiclo
  BY <1>6, PasoInvisible DEF DetectarCiclo
<1>7. CASE UsarMemo
  BY <1>7, PasoInvisible DEF UsarMemo
<1>8. CASE NoResolver
  BY <1>8, PasoInvisible DEF NoResolver
<1>9. CASE Descender
  BY <1>9, PasoInvisible DEF Descender
<1>10. CASE Terminado
  BY <1>10, PasoInvisible DEF Terminado, vars
<1>11. CASE UNCHANGED vars
  BY <1>11, PasoInvisible DEF vars
<1> QED
  BY <1>1, <1>2, <1>3, <1>4, <1>5, <1>6, <1>7, <1>8, <1>9, <1>10, <1>11 DEF Next

(* The depth-first walk of procesarModulo, with its stack, its memo table   *)
(* and its one error flag, implements the linker that adds modules one by   *)
(* one, each after what it imports and the entry last, and that refuses     *)
(* only a project with a circle or a bad file.                              *)
THEOREM ImplementaElEnlace == Spec => ImplementaEnlace
<1>1. Init => Abstracto!AInit
  BY InitAbstracto
<1>2. TypeOK /\ PilaEsCamino /\ OrdenInductivo /\ EnlaceInductivo /\ [Next]_vars
        => [Abstracto!ANext]_(Abstracto!avars)
  BY PasoAbstracto
<1> QED BY <1>1, <1>2, EnlaceEsInvariante, PTL DEF Spec, ImplementaEnlace, Abstracto!ASpec

-----------------------------------------------------------------------------
(* The end of the walk.                                                     *)

(* Four numbers: whether an answer is due, the files not met, the calls that*)
(* are open and the imports left to the last one.                           *)
Ausentes == {r \in Rutas : estados[r] = "ausente"}
Medida ==
  [debe     |-> IF resultado = "pendiente" THEN 1 ELSE 0,
   ausentes |-> Cardinality(Ausentes),
   abiertas |-> Len(pila),
   quedan   |-> IF pila = <<>> THEN 0 ELSE Len(Importaciones(Tope.ruta)) + 1 - Tope.pos]
EsMedida == Medida \in [debe : Nat, ausentes : Nat, abiertas : Nat, quedan : Nat]

(* The order of a dictionary on them, which has no endless descent.         *)
Menor(m, n) ==
  \/ m.debe < n.debe
  \/ m.debe = n.debe /\ m.ausentes < n.ausentes
  \/ m.debe = n.debe /\ m.ausentes = n.ausentes /\ m.abiertas < n.abiertas
  \/ m.debe = n.debe /\ m.ausentes = n.ausentes /\ m.abiertas = n.abiertas /\ m.quedan < n.quedan

(* The answer was given, or one of the operations of the resolver can be    *)
(* done, each told by what its code asks for.                               *)
Puede ==
  \/ resultado # "pendiente" /\ pila = <<>>
  \/ resultado = "pendiente" /\ pila = <<>> /\ Importaciones(Entrada) = <<>>
  \/ resultado = "pendiente" /\ pila = <<>> /\ Importaciones(Entrada) # <<>>
  \/ QuedanImportaciones /\ ImportacionActual.forma = "exportar_desde"
  \/ Importa /\ estados[Destino] \in {"en_proceso", "fallido", "listo"}
  \/ Importa /\ estados[Destino] = "ausente" /\ ~Importable(fuente[Destino])
  \/ Importa /\ estados[Destino] = "ausente" /\ Importable(fuente[Destino])
  \/ Agotado /\ (~ok \/ ReescrituraFalla(Tope))
  \/ Agotado /\ ok /\ ~ReescrituraFalla(Tope)

(* The last call is at one of its imports or just past them; an answer that *)
(* was given closes the calls.                                              *)
TopeDentro == pila # <<>> => Tope.pos <= Len(Importaciones(Tope.ruta)) + 1
Respondido == resultado # "pendiente" => pila = <<>>
FinInv == TypeOK /\ PilaEsCamino /\ OrdenInductivo /\ TopeDentro /\ Respondido

(* What the measure is made of.                                             *)
LEMMA MedidaTipo ==
  ASSUME IsFiniteSet(Rutas), FinInv
  PROVE  EsMedida
<1>1. Cardinality(Ausentes) \in Nat
  <2>1. IsFiniteSet(Ausentes)
    BY FS_Subset DEF Ausentes
  <2> QED BY <2>1, FS_CardinalityType
<1>2. Len(pila) \in Nat
  BY DEF FinInv, TypeOK
<1> DEFINE q == IF pila = <<>> THEN 0 ELSE Len(Importaciones(Tope.ruta)) + 1 - Tope.pos
           d == IF resultado = "pendiente" THEN 1 ELSE 0
           b == Cardinality(Ausentes)
           l == Len(pila)
<1>3. q \in Nat
  <2>1. CASE pila = <<>>
    BY <2>1
  <2>2. CASE pila # <<>>
    <3>1. Tope.ruta \in Rutas /\ Tope.pos \in Nat
      BY <2>2, TopeTipo DEF FinInv
    <3>2. Len(Importaciones(Tope.ruta)) \in Nat
      BY <3>1, ImportacionTipo DEF FinInv, TypeOK
    <3>3. Tope.pos <= Len(Importaciones(Tope.ruta)) + 1
      BY <2>2 DEF FinInv, TopeDentro
    <3> QED BY <2>2, <3>1, <3>2, <3>3
  <2> QED BY <2>1, <2>2
<1>4. d \in Nat
  OBVIOUS
<1>5. Medida = [debe |-> d, ausentes |-> b, abiertas |-> l, quedan |-> q]
  BY DEF Medida
<1> HIDE DEF q, d, b, l
<1> QED BY <1>1, <1>2, <1>3, <1>4, <1>5 DEF EsMedida, b, l

(* A file that is met is one less.                                          *)
LEMMA UnaMenos ==
  ASSUME IsFiniteSet(Rutas), TypeOK, NEW r \in Rutas, estados[r] = "ausente",
         estados' = [estados EXCEPT ![r] = "en_proceso"], resultado' = resultado
  PROVE  Menor(Medida', Medida)
<1>1. Ausentes' = Ausentes \ {r} /\ r \in Ausentes
  BY DEF Ausentes, TypeOK
<1>2. IsFiniteSet(Ausentes)
  BY FS_Subset DEF Ausentes
<1>3. Cardinality(Ausentes \ {r}) = Cardinality(Ausentes) - 1 /\ Cardinality(Ausentes) \in Nat
  BY <1>1, <1>2, FS_RemoveElement, FS_CardinalityType
<1>4. Medida'.debe = Medida.debe
  BY DEF Medida
<1>5. Medida'.ausentes = Medida.ausentes - 1 /\ Medida.ausentes \in Nat
  BY <1>1, <1>3 DEF Medida
<1> QED BY <1>4, <1>5 DEF Menor

(* The last call goes past an import.                                       *)
LEMMA Adelanta ==
  ASSUME TypeOK, QuedanImportaciones, NEW m \in Marco, m.ruta = Tope.ruta, m.pos = Tope.pos + 1,
         pila' = [pila EXCEPT ![Len(pila)] = m],
         fuente' = fuente, estados' = estados, resultado' = resultado
  PROVE  TopeDentro' /\ pila' # <<>> /\ Menor(Medida', Medida)
<1>1. /\ pila # <<>> /\ Tope.pos \in Nat /\ Tope.ruta \in Rutas
      /\ Tope.pos <= Len(Importaciones(Tope.ruta))
  BY TopeTipo DEF QuedanImportaciones
<1>2. Len(pila') = Len(pila) /\ pila'[Len(pila)] = m /\ pila' \in Seq(Marco) /\ Len(pila) > 0 /\ Len(pila) \in Nat
  BY <1>1, CambiarTope, TopeTipo
<1>3. pila' # <<>> /\ Tope' = m
  BY <1>2 DEF Tope
<1>4. Len(Importaciones(Tope.ruta)) \in Nat
  BY <1>1, ImportacionTipo DEF TypeOK
<1>5. Importaciones(m.ruta)' = Importaciones(Tope.ruta)
  BY DEF Importaciones
<1>6. TopeDentro'
  BY <1>1, <1>3, <1>4, <1>5 DEF TopeDentro
<1>7. /\ Medida'.debe = Medida.debe /\ Medida'.ausentes = Medida.ausentes
      /\ Medida'.abiertas = Medida.abiertas
  BY <1>2 DEF Medida, Ausentes
<1>8. Medida'.quedan = Len(Importaciones(Tope.ruta)) + 1 - (Tope.pos + 1)
  BY <1>3, <1>5 DEF Medida
<1>9. Medida.quedan = Len(Importaciones(Tope.ruta)) + 1 - Tope.pos
  BY <1>1 DEF Medida
<1>10. Medida'.quedan < Medida.quedan
  BY <1>1, <1>4, <1>8, <1>9
<1> QED BY <1>3, <1>6, <1>7, <1>10 DEF Menor

(* A call returns to another, which goes past the import.                   *)
LEMMA Vuelve ==
  ASSUME TypeOK, PilaEsCamino, pila # <<>>, Len(pila) # 1, NEW m \in Marco,
         m.ruta = Llamador.ruta, m.pos = Llamador.pos + 1,
         pila' = [Desapilar EXCEPT ![Len(pila) - 1] = m], NEW f, f # "ausente",
         fuente' = fuente, estados' = [estados EXCEPT ![Tope.ruta] = f], resultado' = resultado
  PROVE  TopeDentro' /\ pila' # <<>> /\ Menor(Medida', Medida)
<1>1. /\ Len(pila') = Len(pila) - 1 /\ pila'[Len(pila) - 1] = m /\ Len(pila) - 1 > 0
      /\ Len(pila) \in Nat /\ pila' \in Seq(Marco)
  BY RetornoCambia, TopeTipo
<1>2. pila' # <<>> /\ Tope' = m
  BY <1>1 DEF Tope
<1>3. Llamador.pos \in 1 .. Len(Importaciones(Llamador.ruta)) /\ Llamador.ruta \in Rutas
  BY ImportacionLlamadorTipo, LlamadorTipo
<1>4. Len(Importaciones(Llamador.ruta)) \in Nat
  BY <1>3, ImportacionTipo DEF TypeOK
<1>5. Importaciones(m.ruta)' = Importaciones(Llamador.ruta)
  BY DEF Importaciones
<1>6. TopeDentro'
  BY <1>2, <1>3, <1>4, <1>5 DEF TopeDentro
<1>7. Ausentes' = Ausentes
  <2>1. Tope.ruta \in Rutas /\ estados[Tope.ruta] = "en_proceso"
    BY TopeTipo DEF PilaEsCamino, Activas, Tope
  <2> QED BY <2>1 DEF Ausentes, TypeOK
<1>8. /\ Medida'.debe = Medida.debe /\ Medida'.ausentes = Medida.ausentes
      /\ Medida'.abiertas = Len(pila) - 1 /\ Medida.abiertas = Len(pila)
  BY <1>1, <1>7 DEF Medida
<1>9. Medida'.abiertas < Medida.abiertas
  BY <1>1, <1>8
<1> QED BY <1>2, <1>6, <1>8, <1>9 DEF Menor

(* An answer.                                                               *)
LEMMA Responde ==
  ASSUME resultado = "pendiente", resultado' # "pendiente"
  PROVE  Menor(Medida', Medida)
BY DEF Menor, Medida

(* A call that has just been made is at its first import.                   *)
LEMMA Entra ==
  ASSUME TypeOK, fuente' = fuente, NEW s \in Seq(Marco), NEW r \in Rutas,
         pila' = Append(s, MarcoNuevo(r))
  PROVE  TopeDentro' /\ pila' # <<>>
<1>1. MarcoNuevo(r) \in Marco /\ MarcoNuevo(r).ruta = r /\ MarcoNuevo(r).pos = 1
  BY MarcoNuevoTipo DEF MarcoNuevo, TypeOK
<1> DEFINE m == MarcoNuevo(r)
<1> HIDE DEF m
<1>2. Len(pila') = Len(s) + 1 /\ pila'[Len(s) + 1] = m /\ Len(s) \in Nat
  BY <1>1 DEF m
<1>3. pila' # <<>> /\ Tope' = m
  BY <1>2 DEF Tope
<1>4. Len(Importaciones(r)) \in Nat /\ Importaciones(r)' = Importaciones(r)
  BY ImportacionTipo DEF TypeOK, Importaciones
<1>5. Tope'.pos <= Len(Importaciones(r)) + 1 /\ Tope'.ruta = r
  BY <1>1, <1>3, <1>4 DEF m
<1>6. TopeDentro'
  BY <1>4, <1>5 DEF TopeDentro
<1> QED BY <1>3, <1>6

(* Every step goes down, and keeps the last call within its imports.        *)
LEMMA PasoBaja ==
  ASSUME IsFiniteSet(Rutas), FinInv, Next
  PROVE  \/ UNCHANGED vars
         \/ TopeDentro' /\ Respondido' /\ Menor(Medida', Medida)
<1> USE DEF FinInv
<1>1. CASE ResolverModuloUnico
  <2>1. resultado = "pendiente" /\ resultado' # "pendiente" /\ pila' = <<>>
    BY <1>1 DEF ResolverModuloUnico
  <2> QED BY <2>1, Responde DEF TopeDentro, Respondido
<1>2. CASE Comenzar
  <2>1. /\ resultado = "pendiente" /\ resultado' = resultado /\ Entrada \in Rutas /\ fuente' = fuente
        /\ estados' = [estados EXCEPT ![Entrada] = "en_proceso"] /\ pila' = <<MarcoNuevo(Entrada)>>
    BY <1>2, ConstantesAssumption DEF Comenzar
  <2>2. estados[Entrada] = "ausente"
    BY <1>2, <2>1 DEF Comenzar, OrdenInductivo, SinEmpezar
  <2>3. pila' = Append(<<>>, MarcoNuevo(Entrada)) /\ <<>> \in Seq(Marco)
    BY <2>1
  <2>4. TopeDentro'
    BY <2>1, <2>3, Entra
  <2> QED BY <2>1, <2>2, <2>4, UnaMenos DEF Respondido
<1>3. ASSUME pila # <<>> PROVE resultado = "pendiente"
  BY <1>3 DEF Respondido
<1>4. ASSUME QuedanImportaciones, Saltar, fuente' = fuente, estados' = estados, resultado' = resultado
      PROVE  TopeDentro' /\ Respondido' /\ Menor(Medida', Medida)
  <2> DEFINE m == [Tope EXCEPT !.pos = @ + 1]
  <2>1. pila # <<>> /\ Tope \in Marco /\ Tope.pos \in Nat /\ Tope.pos > 0
    BY <1>4, TopeTipo DEF QuedanImportaciones
  <2>2. m \in Marco /\ m.ruta = Tope.ruta /\ m.pos = Tope.pos + 1
    BY <2>1 DEF Marco
  <2>3. pila' = [pila EXCEPT ![Len(pila)] = m]
    BY <1>4 DEF Saltar, Tope
  <2> HIDE DEF m
  <2>4. TopeDentro' /\ Menor(Medida', Medida)
    BY <1>4, <2>2, <2>3, Adelanta
  <2> QED BY <1>3, <1>4, <2>1, <2>4 DEF Respondido
<1>5. CASE RechazarReexport
  BY <1>4, <1>5 DEF RechazarReexport
<1>6. CASE DetectarCiclo
  BY <1>4, <1>6 DEF DetectarCiclo, Importa
<1>7. CASE NoResolver
  BY <1>4, <1>7 DEF NoResolver, Importa
<1>8. CASE UsarMemo
  <2> DEFINE tabla == exportaciones[Destino]
             m == Enlazar(Tope, ImportacionActual, tabla)
  <2>1. /\ QuedanImportaciones /\ pila # <<>> /\ Destino \in Rutas /\ ImportacionActual \in Importacion
        /\ Tope \in Marco
    BY <1>8, ActualTipo, TopeTipo DEF UsarMemo, Importa
  <2>2. tabla \in [Nombres -> Internos \cup {Nulo}]
    BY <2>1 DEF TypeOK
  <2>3. m \in Marco /\ m.ruta = Tope.ruta /\ m.pos = Tope.pos + 1
    BY <2>1, <2>2, EnlazarTipo
  <2>4. /\ pila' = [pila EXCEPT ![Len(pila)] = m]
        /\ fuente' = fuente /\ estados' = estados /\ resultado' = resultado
    BY <1>8 DEF UsarMemo, Tope
  <2> HIDE DEF m, tabla
  <2>5. TopeDentro' /\ Menor(Medida', Medida)
    BY <2>1, <2>3, <2>4, Adelanta
  <2> QED BY <1>3, <2>1, <2>4, <2>5 DEF Respondido
<1>9. CASE Descender
  <2>1. /\ pila # <<>> /\ Destino \in Rutas /\ estados[Destino] = "ausente" /\ fuente' = fuente
        /\ estados' = [estados EXCEPT ![Destino] = "en_proceso"] /\ resultado' = resultado
        /\ pila' = Append(pila, MarcoNuevo(Destino)) /\ pila \in Seq(Marco)
    BY <1>9, ActualTipo DEF Descender, Importa, TypeOK
  <2>2. TopeDentro'
    BY <2>1, Entra
  <2> QED BY <1>3, <2>1, <2>2, UnaMenos DEF Respondido
<1>10. CASE RetornarFallido
  <2>1. pila # <<>> /\ resultado = "pendiente"
    BY <1>3, <1>10 DEF RetornarFallido, Agotado
  <2>2. CASE Len(pila) = 1
    <3>1. pila' = <<>> /\ resultado' = "nulo"
      BY <1>10, <2>2 DEF RetornarFallido
    <3> QED BY <2>1, <3>1, Responde DEF TopeDentro, Respondido
  <2>3. CASE Len(pila) # 1
    <3> DEFINE m == [Llamador EXCEPT !.pos = @ + 1]
    <3>1. Llamador \in Marco /\ Llamador.pos \in Nat \ {0}
      BY <2>1, <2>3, LlamadorTipo
    <3>2. m \in Marco /\ m.ruta = Llamador.ruta /\ m.pos = Llamador.pos + 1
      BY <3>1 DEF Marco
    <3>3. /\ pila' = [Desapilar EXCEPT ![Len(pila) - 1].pos = @ + 1]
          /\ fuente' = fuente /\ estados' = [estados EXCEPT ![Tope.ruta] = "fallido"] /\ resultado' = resultado
      BY <1>10, <2>3 DEF RetornarFallido
    <3>4. pila' = [Desapilar EXCEPT ![Len(pila) - 1] = m]
      BY <2>1, <2>3, <3>3, UltimoDesapilado
    <3> HIDE DEF m
    <3>5. TopeDentro' /\ Menor(Medida', Medida)
      BY <2>1, <2>3, <3>2, <3>3, <3>4, Vuelve
    <3> QED BY <2>1, <3>3, <3>5 DEF Respondido
  <2> QED BY <2>2, <2>3
<1>11. CASE RetornarListo
  <2>1. pila # <<>> /\ resultado = "pendiente"
    BY <1>3, <1>11 DEF RetornarListo, Agotado
  <2>2. CASE Len(pila) = 1
    <3>1. pila' = <<>> /\ resultado' = "programa"
      BY <1>11, <2>2 DEF RetornarListo
    <3> QED BY <2>1, <3>1, Responde DEF TopeDentro, Respondido
  <2>3. CASE Len(pila) # 1
    <3> DEFINE tabla == TablaExportacion(fuente[Tope.ruta], Tope.ruta)
               i == Importaciones(Llamador.ruta)[Llamador.pos]
               m == Enlazar(Llamador, i, tabla)
    <3>1. Llamador \in Marco /\ i \in Importacion /\ Tope.ruta \in Rutas
      BY <2>1, <2>3, LlamadorTipo, ImportacionLlamadorTipo, TopeTipo
    <3>2. tabla \in [Nombres -> Internos \cup {Nulo}]
      BY <3>1, TablaTipo, FuenteTipo DEF TypeOK
    <3>3. m \in Marco /\ m.ruta = Llamador.ruta /\ m.pos = Llamador.pos + 1
      BY <3>1, <3>2, EnlazarTipo
    <3>4. /\ pila' = [Desapilar EXCEPT ![Len(pila) - 1] = Enlazar(@, i, tabla)]
          /\ fuente' = fuente /\ estados' = [estados EXCEPT ![Tope.ruta] = "listo"] /\ resultado' = resultado
      BY <1>11, <2>3 DEF RetornarListo
    <3>5. pila' = [Desapilar EXCEPT ![Len(pila) - 1] = m]
      BY <2>1, <2>3, <3>4, UltimoDesapilado
    <3> HIDE DEF m, i, tabla
    <3>6. TopeDentro' /\ Menor(Medida', Medida)
      BY <2>1, <2>3, <3>3, <3>4, <3>5, Vuelve
    <3> QED BY <2>1, <3>4, <3>6 DEF Respondido
  <2> QED BY <2>2, <2>3
<1>12. CASE Terminado
  BY <1>12 DEF Terminado
<1> QED BY <1>1, <1>2, <1>5, <1>6, <1>7, <1>8, <1>9, <1>10, <1>11, <1>12 DEF Next

(* Whatever the state of the walk, one of its operations can be done.       *)
LEMMA SiemprePuede ==
  ASSUME FinInv
  PROVE  Puede
<1> SUFFICES ASSUME pila # <<>> PROVE Puede
  BY DEF Puede
<1>1. TypeOK /\ Tope.pos \in Nat /\ Tope.ruta \in Rutas
  BY TopeTipo DEF FinInv
<1>2. Len(Importaciones(Tope.ruta)) \in Nat
  BY <1>1, ImportacionTipo DEF TypeOK
<1>3. QuedanImportaciones \/ Agotado
  BY <1>1, <1>2 DEF QuedanImportaciones, Agotado
<1>4. CASE QuedanImportaciones
  <2>1. Destino \in Rutas
    BY <1>1, <1>4, ActualTipo
  <2>2. estados[Destino] \in Fases
    BY <1>1, <2>1 DEF TypeOK
  <2> QED BY <1>4, <2>2 DEF Puede, Importa, Fases
<1>5. CASE Agotado
  BY <1>5 DEF Puede
<1> QED BY <1>3, <1>4, <1>5

(* The resolver comes to an answer, whatever the graph, circles included: in*)
(* every state one of its operations can be done, and each one makes the    *)
(* measure smaller.  (Code: the recursion of resolverDependencia and        *)
(* procesarModulo, stopped by estados_.)                                    *)
THEOREM ElResolutorAcaba ==
  ASSUME IsFiniteSet(Rutas)
  PROVE  Spec => [](Puede /\ EsMedida) /\ [][Menor(Medida', Medida)]_vars
<1>1. Init => TopeDentro /\ Respondido
  BY DEF Init, TopeDentro, Respondido
<1>2. FinInv /\ [Next]_vars => (TopeDentro /\ Respondido)' /\ [Menor(Medida', Medida)]_vars
  <2> SUFFICES ASSUME FinInv, [Next]_vars
               PROVE  (TopeDentro /\ Respondido)' /\ [Menor(Medida', Medida)]_vars
    OBVIOUS
  <2>1. CASE UNCHANGED vars
    <3>1. (TopeDentro /\ Respondido)'
      BY <2>1 DEF vars, FinInv, TopeDentro, Respondido, Tope, Importaciones
    <3> QED BY <2>1, <3>1
  <2>2. CASE Next /\ ~ UNCHANGED vars
    BY <2>2, PasoBaja
  <2> QED BY <2>1, <2>2
<1>3. FinInv => Puede /\ EsMedida
  BY SiemprePuede, MedidaTipo
<1>4. TypeOK /\ PilaEsCamino /\ OrdenInductivo /\ TopeDentro /\ Respondido <=> FinInv
  BY DEF FinInv
<1> QED BY <1>1, <1>2, <1>3, <1>4, TiposYPila, OrdenEsInvariante, PTL DEF Spec

=============================================================================

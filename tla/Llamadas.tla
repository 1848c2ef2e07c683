------------------------------ MODULE Llamadas ------------------------------
(***************************************************************************)
(* Calls from the tree to the executable: one back end emits the bodies of *)
(* a program one after another (GeneradorC::generarCuerpo,                 *)
(* GeneradorLLVM::generar), the C compiler or the verifier judges the      *)
(* result, and main runs a statement at a time beside what the program     *)
(* means.  What is compared is which bodies are entered, with which object *)
(* and which arguments, and what the objects hold.                         *)
(***************************************************************************)
EXTENDS LlamadasC, LlamadasLLVM

CONSTANT Programas

ASSUME LlamadasAssumption ==
  MaxEntradas \in Nat /\ \A p \in Programas : Aceptado(p)

VARIABLES
  programa,
  destino,   \* "C" or "LLVM"
  orden,     \* the order in which the unordered_map gives the types
  fase,      \* "declara", "genera", "compila", "rechazado", "corre"
  siguiente, \* the body to emit, then the statement of main to run
  salida,    \* the items of the C file, or the bodies of the module
  real,      \* the run of what was emitted
  ideal      \* the run of what the program means

vars == <<programa, destino, orden, fase, siguiente, salida, real, ideal>>

-----------------------------------------------------------------------------
(* What a program means, told in the machine's terms with one convention    *)
(* for everything: a body receives what it is given, nulo for what is       *)
(* absent, the rest as a list.  A name is the local variable, or the global *)
(* one, or the function; a field's default is read where the type is.       *)
IdFuncion(x)   == <<"funcion">> \o x
IdAnonima(f)   == <<"anonima">> \o f.nombre
IdMetodo(t, m) == <<"metodo">> \o t.nombre \o <<".">> \o m.nombre

RECURSIVE Sentido(_, _, _)
SentidoDe(p, vs, es) == [i \in DOMAIN es |-> Sentido(p, vs, es[i])]
CtorIdeal(t, as) ==
  [i \in DOMAIN CtorDe(t) |-> [s |-> IdMetodo(t, CtorDe(t)[i]), arreglo |-> TRUE, antes |-> <<>>, as |-> as]]
PasosIdeales(p, t) ==
  [i \in DOMAIN t.campos |-> [k |-> "campo", m |-> t.campos[i].nombre, e |-> Sentido(p, {}, t.campos[i].e)]]
  \o LET ms == SelectSeq(t.metodos, EsDeInstancia)
     IN [i \in DOMAIN ms |-> [k |-> "metodo", m |-> ms[i].nombre, e |-> Toma(IdMetodo(t, ms[i]))]]

Sentido(p, vs, e) ==
  LET as == SentidoDe(p, vs, Partes(e)) IN
  CASE e.k = "num"     -> [c |-> "valor", v |-> Numero(e.n)]
    [] e.k = "id"      -> IF e.x \in vs THEN Celda(e.x)
                          ELSE IF EsFuncion(p, e.x) THEN Toma(IdFuncion(e.x))
                          ELSE [c |-> "global", x |-> e.x]
    [] e.k = "este"    -> Celda(<<"este">>)
    [] e.k = "resto"   -> Celda(<<"lat_resto">>)
    [] e.k = "anonima" -> Toma(IdAnonima(e.f))
    [] e.k = "dic"     -> [c |-> "dic", m |-> e.m, e |-> as[1]]
    [] e.k = "nuevo"   -> [c |-> "objeto", clase |-> e.c, ctor |-> CtorIdeal(TipoDe(p, e.c), as),
                           pasos |-> FlattenSeq([i \in DOMAIN Cadena(p, e.c) |->
                                       PasosIdeales(p, Reverse(Cadena(p, e.c))[i])])]
    [] DeTipo(p, e)    ->
         LET dueno == DuenoDe(p, e.d.o.x, e.d.m)
         IN IF dueno = <<>> THEN Falta(<<>>)
            ELSE [c |-> "empaca", as |-> Tail(as), s |-> IdMetodo(dueno[1], EstaticosDe(dueno[1], e.d.m)[1])]
    [] e.k = "llama" /\ ~DeTipo(p, e) ->
         IF e.d.k = "id" /\ EsFuncion(p, e.d.x)
           THEN [c |-> "empaca", s |-> IdFuncion(e.d.x), as |-> Tail(as)]
         ELSE IF e.d.k = "miembro"
           THEN [c |-> "metodo", o |-> Sentido(p, vs, e.d.o), m |-> e.d.m, as |-> Tail(as)]
         ELSE [c |-> "dinamica", d |-> as[1], as |-> Tail(as)]
    [] OTHER -> Falta(<<>>)     \* what a member is, when it is what is called

SentidoSentencia(p, vs, padre, s) ==
  LET es == SentidoDe(p, vs, Partes(s)) IN
  CASE s.k = "asigna" -> [c |-> "asigna", x |-> s.x, e |-> es[1]]
    [] s.k = "pone"   -> [c |-> "pone", o |-> es[2], m |-> s.m, e |-> es[1]]
    [] s.k = "base"   -> [c |-> "base", ctor |-> CtorIdeal(TipoDe(p, padre), es)]
    [] OTHER          -> [c |-> s.k, e |-> es[1]]

Propias(c) == Range(Parametros(c)) \cup Asignadas(c.sents)
CuerpoIdeal(p, b) ==
  LET padre == IF b.k = "metodo" THEN b.t.padre ELSE <<>>
  IN Def(CASE b.k = "funcion" -> IdFuncion(b.c.nombre)
           [] b.k = "anonima" -> IdAnonima(b.c)
           [] b.k = "metodo"  -> IdMetodo(b.t, b.c),
         b.k = "metodo" /\ ~EsEstatico(b.c), Parametros(b.c), b.c.variadico, TRUE, TRUE,
         Revisa(b.c, b.c.genericos), Locales(b.c),
         [i \in DOMAIN b.c.sents |-> SentidoSentencia(p, Propias(b.c), padre, b.c.sents[i])])
ImagenIdeal(p) ==
  LET ds == {CuerpoIdeal(p, b) : b \in {q \in Todos(p) : q.k # "main"}}
  IN [s \in {d.id : d \in ds} |-> CHOOSE d \in ds : d.id = s]
MainIdeal(p) ==
  [i \in DOMAIN p.sents |-> SentidoSentencia(p, {}, <<>>, p.sents[i])]
  \o [i \in DOMAIN Principal(p) |->
        [c |-> "expr", e |-> [LlamarPrincipal(Principal(p)[i]).e EXCEPT
                                !.c = "empaca", !.s = IdFuncion(Principal(p)[i].nombre)]]]

-----------------------------------------------------------------------------
Ordenes(p) ==
  {o \in [DOMAIN p.tipos -> DOMAIN p.tipos] :
     /\ \A i, j \in DOMAIN o : o[i] = o[j] => i = j
     /\ \A i, j \in DOMAIN o : i < j => p.tipos[o[i]].k = "clase" \/ p.tipos[o[j]].k = "estructura"}

Init ==
  /\ programa \in Programas /\ destino \in {"C", "LLVM"} /\ orden \in Ordenes(programa)
  /\ fase = "declara" /\ siguiente = 1 /\ salida = <<>>
  /\ real = Inicio({}) /\ ideal = Inicio({})

(* The prototypes and variables, or the functions and global cells.         *)
Declarar ==
  /\ fase = "declara"
  /\ fase' = "genera"
  /\ salida' = IF destino = "C" THEN Cabecera(programa, orden) ELSE <<>>
  /\ UNCHANGED <<programa, destino, orden, siguiente, real, ideal>>

(* One body of kind k.                                                      *)
Genera(k) ==
  /\ fase = "genera"
  /\ LET b == EnOrden(programa, orden)[siguiente]
     IN /\ b.k = k
        /\ salida' = IF destino = "C" THEN salida \o GenCuerpo(programa, b)
                     ELSE GenCuerpoLLVM(programa, salida, b)
  /\ fase' = IF k = "main" THEN "compila" ELSE fase
  /\ siguiente' = siguiente + 1
  /\ UNCHANGED <<programa, destino, orden, real, ideal>>
GeneraFuncion == Genera("funcion")
GeneraAnonima == Genera("anonima")
GeneraMetodo  == Genera("metodo")
GeneraMain    == Genera("main")

(* The C compiler, or verifyModule.                                         *)
Compilar ==
  /\ fase = "compila"
  /\ fase' = IF IF destino = "C" THEN CompilaC(salida) ELSE VerificaModulo(salida)
             THEN "corre" ELSE "rechazado"
  /\ siguiente' = 1
  /\ real' = Inicio(Asignadas(programa.sents)) /\ ideal' = Inicio(Asignadas(programa.sents))
  /\ UNCHANGED <<programa, destino, orden, salida>>

Imagen == IF destino = "C" THEN ImagenC(salida) ELSE salida

(* The next statement of main, in the executable and in the meaning.        *)
Ejecutar ==
  /\ fase = "corre" /\ siguiente <= Len(MainIdeal(programa))
  /\ LET img == Imagen
     IN real' = Corre(img, <<img[<<"main">>].sents[siguiente]>>, 1, <<>>, real).st
  /\ ideal' = Corre(ImagenIdeal(programa), <<MainIdeal(programa)[siguiente]>>, 1, <<>>, ideal).st
  /\ siguiente' = siguiente + 1
  /\ UNCHANGED <<programa, destino, orden, fase, salida>>

Acabado ==
  /\ fase = "rechazado" \/ (fase = "corre" /\ siguiente > Len(MainIdeal(programa)))
  /\ UNCHANGED vars

Next ==
  \/ Declarar \/ GeneraFuncion \/ GeneraAnonima \/ GeneraMetodo \/ GeneraMain
  \/ Compilar \/ Ejecutar \/ Acabado

Spec == Init /\ [][Next]_vars

-----------------------------------------------------------------------------
(* What can be seen on the tree, for the exceptions the properties name.    *)
TextosDe(p) == {DentroDe(b.c.sents) : b \in Todos(p)}
Expresiones(p) == UNION {Range(t) : t \in TextosDe(p)}
FuncionesComoValor(p, es) ==
  {f \in Range(p.funcs) : \E e \in Range(es) : \E i \in DOMAIN Partes(e) :
     Partes(e)[i] = Id(f.nombre) /\ ~(e.k = "llama" /\ i = 1)}

(* C: lat_fn_modulo_X is written after lat_fn_X and has no prototype.  A    *)
(* function used as a value, or the methods of a type made with `nuevo`, in *)
(* a body that comes no later.                                              *)
EnvolturaTardia(p, o) ==
  LET L == EnOrden(p, o) IN
  \E i, j \in DOMAIN L : i <= j /\
    LET es == DentroDe(L[i].c.sents) IN
    \/ L[j].k = "funcion" /\ L[j].c \in FuncionesComoValor(p, es)
    \/ /\ L[j].k = "metodo" /\ EsDeInstancia(L[j].c)
       /\ \E e \in Range(es) : e.k = "nuevo" /\ L[j].t \in Range(Cadena(p, e.c))

Instanciados(p) == UNION {Range(Cadena(p, e.c)) : e \in {q \in Expresiones(p) : q.k = "nuevo"}}
(* C: lat_obj_set takes the name as a const char* and is given a LatValor.  *)
CampoConDefecto(p) == \E t \in Instanciados(p) : t.campos # <<>>
(* C: the prototype of a static method has its parameters one by one.       *)
EstaticoConParametros(p) == \E b \in Todos(p) : b.k = "metodo" /\ EsEstatico(b.c) /\ b.c.ps # <<>>
(* A call T.m() of a type that has no static m: nobody refuses it.          *)
Ajeno(p) == \E e \in Expresiones(p) : DeTipo(p, e) /\ DuenoDe(p, e.d.o.x, e.d.m) = <<>>
PrincipalConOtros(p) ==
  \E i \in DOMAIN Principal(p) : Len(Principal(p)[i].ps) \notin {0, 2} \/ Principal(p)[i].variadico
VariadicaComoValor(p) == \E t \in TextosDe(p) : \E f \in FuncionesComoValor(p, t) : f.variadico

(* Bodies whose composed names are one: T_m and a function, or another T_m; *)
(* in C also the names of the second functions and of the lambdas.          *)
NombreDe(b) == IF b.k = "metodo" THEN b.t.nombre \o b.c.nombre ELSE b.c.nombre
Nombrados(p) == {b \in Todos(p) : b.k \in {"funcion", "metodo"}}
Homonimos(p) == \E a, b \in Nombrados(p) : a # b /\ NombreDe(a) = NombreDe(b)
HomonimosC(p) ==
  \/ Homonimos(p)
  \/ \E a, b \in Nombrados(p) : NombreDe(a) = <<"modulo">> \o NombreDe(b)
  \/ \E a \in Nombrados(p), i \in DOMAIN Anonimas(p) : NombreDe(a) = <<"anon", ToString(i - 1)>>

(* The arguments of a constructor do something.                             *)
Duplica(p) ==
  \E e \in Expresiones(p) : e.k \in {"nuevo", "base"} /\
    \E x \in Range(DentroDe(e.as)) : x.k \in {"llama", "nuevo"}
(* A lambda annotates a parameter with a generic of the function around it. *)
GenericaEnAnonima(p) ==
  \E f \in Range(Anonimas(p)) : \E i \in DOMAIN f.ps : f.ps[i].tipo \in f.genericos
(* LLVM: a function used as a value, and a call that may be to it with less *)
(* than its parameters.                                                     *)
PocosArgumentos(p) ==
  \E t \in TextosDe(p) : \E f \in FuncionesComoValor(p, t) : \E e \in Expresiones(p) :
    e.k = "llama" /\ Len(e.as) < Len(f.ps)
(* A field's default names a variable that the body with `nuevo` hides.     *)
CampoTomado(p) ==
  \E b \in Todos(p) : b.k # "main" /\ \E e \in Range(DentroDe(b.c.sents)) : e.k = "nuevo" /\
    \E t \in Range(Cadena(p, e.c)) : \E c \in Range(t.campos) :
      \E x \in Range(Dentro(c.e)) : x.k = "id" /\ x.x \in Propias(b.c)

-----------------------------------------------------------------------------
(* An accepted program compiles: but, in C, for wrappers that come too late *)
(* in the file, defaults of fields, static methods with parameters, names   *)
(* that collide and members of a type that are not static; in LLVM for      *)
(* variadic functions used as values; in both for a `principal` with other  *)
(* than none or two parameters.  (Code: the order of generarCuerpo,         *)
(* declararMetodo, obtenerWrapperFuncion, verifyModule.)                    *)
Impedido ==
  \/ PrincipalConOtros(programa)
  \/ /\ destino = "C"
     /\ \/ EnvolturaTardia(programa, orden) \/ CampoConDefecto(programa)
        \/ EstaticoConParametros(programa) \/ Ajeno(programa) \/ HomonimosC(programa)
  \/ (destino = "LLVM" /\ VariadicaComoValor(programa))
SeCompilan ==
  ~(destino = "LLVM" /\ Homonimos(programa)) =>
    (fase = "rechazado" => Impedido) /\ (fase = "corre" => ~Impedido)

(* What a run shows, symbols read as the bodies they are of.                *)
RECURSIVE Vista(_, _)
Vista(img, v) ==
  CASE v[1] = "fn"    -> <<"fn", img[v[2]].id>>
    [] v[1] = "lista" -> ListaDe([i \in DOMAIN v[2] |-> Vista(img, v[2][i])])
    [] v[1] = "dic"   -> <<"dic", v[2], Vista(img, v[3])>>
    [] OTHER          -> v
VistaDe(img, f) == [x \in DOMAIN f |-> Vista(img, f[x])]
VistaRun(img, st) ==
  [alto   |-> st.alto,
   globs  |-> VistaDe(img, st.globs),
   objs   |-> [i \in DOMAIN st.objs |->
                 [clase |-> st.objs[i].clase, campos |-> VistaDe(img, st.objs[i].campos),
                  metodos |-> VistaDe(img, st.objs[i].metodos)]],
   traza  |-> [i \in DOMAIN st.traza |->
                 [id |-> st.traza[i].id, este |-> VistaDe(img, st.traza[i].este),
                  ps |-> VistaDe(img, st.traza[i].ps), resto |-> VistaDe(img, st.traza[i].resto)]]]

(* Whatever the convention of a call and of the body it reaches, the body   *)
(* gets its object, its arguments and the rest, once, and the objects end   *)
(* as they should; with the exceptions named.  (Code: genLlamada,           *)
(* genFuncion, genFuncionAnonima, genMetodo and NuevoExpr of both back ends,*)
(* lat_obj_llamar_metodo_args.)                                             *)
SinGarantia ==
  \/ GenericaEnAnonima(programa)
  \/ (destino = "C" /\ Duplica(programa))
  \/ /\ destino = "LLVM"
     /\ \/ PocosArgumentos(programa) \/ Ajeno(programa) \/ CampoTomado(programa) \/ Homonimos(programa)
CadaCuerpoLoSuyo ==
  fase = "corre" /\ ~SinGarantia =>
    VistaRun(Imagen, real) = VistaRun(ImagenIdeal(programa), ideal)

(* Both: what an accepted program becomes, and what its bodies receive.     *)
(* (Code: the emission of bodies and calls in both back ends.)              *)
LlamadasFieles == SeCompilan /\ CadaCuerpoLoSuyo

=============================================================================

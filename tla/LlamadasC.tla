----------------------------- MODULE LlamadasC -----------------------------
(***************************************************************************)
(* What GeneradorC (src/compiler.cpp) emits for bodies and calls, as the   *)
(* sequence of the declarations of the C file, and what the C compiler     *)
(* makes of a file whose names it reads in order.  A type's methods go by  *)
(* two functions, as the named functions do: lat_fn_X takes its arguments  *)
(* one by one, lat_fn_modulo_X a count and an array.                       *)
(***************************************************************************)
EXTENDS MaquinaLlamadas

FunC(x)          == <<"lat", "fn">> \o x
FunModuloC(x)    == <<"lat", "fn", "modulo">> \o x
AnonimoC(p, f)   == <<"lat", "fn", "anon", ToString((CHOOSE i \in DOMAIN Anonimas(p) :
                                                       Anonimas(p)[i] = f) - 1)>>
Celda(x)         == [c |-> "celda", x |-> x]
Toma(s)          == [c |-> "fn", s |-> s]

-----------------------------------------------------------------------------
(* genExpr and genLlamada.  A class is searched with its ancestors, root    *)
(* first; a structure has none.  The arguments of a constructor are         *)
(* generated twice: for an array nobody reads and for the call.             *)
RECURSIVE GenExpr(_, _)
Todas(p, es) == [i \in DOMAIN es |-> GenExpr(p, es[i])]

RegistrarTipo(p, t) ==
  [i \in DOMAIN t.campos |->
     [k |-> "campo", m |-> t.campos[i].nombre, clave |-> "valor", e |-> GenExpr(p, t.campos[i].e)]]
  \o LET ms == SelectSeq(t.metodos, EsDeInstancia)
     IN [i \in DOMAIN ms |-> [k |-> "metodo", m |-> ms[i].nombre, clave |-> "texto",
                              e |-> Toma(FunModuloC(t.nombre \o ms[i].nombre))]]

LlamarCtor(p, t, as) ==
  IF CtorDe(t) = <<>> THEN <<>>
  ELSE <<[s |-> FunC(t.nombre \o t.nombre), arreglo |-> FALSE, antes |-> Todas(p, as), as |-> Todas(p, as)]>>

GenNuevo(p, e) ==
  LET cadena == Reverse(Cadena(p, e.c))
  IN [c |-> "objeto", clase |-> e.c,
      pasos |-> FlattenSeq([i \in DOMAIN cadena |-> RegistrarTipo(p, cadena[i])]),
      ctor |-> LlamarCtor(p, TipoDe(p, e.c), e.as)]

(* Mutant: the list of the rest has the fixed ones too.                     *)
ArgsDirectosTodos(p, f, as) ==
  Todas(p, SubSeq(as, 1, IF Len(as) < Len(f.ps) THEN Len(as) ELSE Len(f.ps)))
  \o IF f.variadico THEN <<[c |-> "lista", as |-> Todas(p, as)]>> ELSE <<>>

(* The arguments of a call to a known function: the fixed ones, and a list  *)
(* of the rest for a variadic one.                                          *)
ArgsDirectos(p, f, as) ==
  LET fijos == Len(f.ps)
      dados == SubSeq(as, 1, IF Len(as) < fijos THEN Len(as) ELSE fijos)
  IN Todas(p, dados)
     \o IF f.variadico THEN <<[c |-> "lista", as |-> Todas(p, SubSeq(as, fijos + 1, Len(as)))]>> ELSE <<>>

GenLlamada(p, e) ==
  CASE e.d.k = "id" /\ EsFuncion(p, e.d.x) ->
         [c |-> "directa", s |-> FunC(e.d.x), as |-> ArgsDirectos(p, FuncionDe(p, e.d.x), e.as)]
    [] DeTipo(p, e) /\ DuenoDe(p, e.d.o.x, e.d.m) # <<>> ->
         [c |-> "empaca", s |-> FunC(DuenoDe(p, e.d.o.x, e.d.m)[1].nombre \o e.d.m), as |-> Todas(p, e.as)]
    [] e.d.k = "miembro" ->
         [c |-> "metodo", o |-> GenExpr(p, e.d.o), m |-> e.d.m, as |-> Todas(p, e.as)]
    [] OTHER -> [c |-> "dinamica", d |-> GenExpr(p, e.d), as |-> Todas(p, e.as)]

GenExpr(p, e) ==
  CASE e.k = "num"     -> [c |-> "valor", v |-> Numero(e.n)]
    [] e.k = "id"      -> IF EsFuncion(p, e.x) THEN Toma(FunModuloC(e.x)) ELSE Celda(e.x)
    [] e.k = "este"    -> Celda(<<"este">>)
    [] e.k = "resto"   -> Celda(<<"lat_resto">>)
    [] e.k = "anonima" -> Toma(AnonimoC(p, e.f))
    [] e.k = "dic"     -> [c |-> "dic", m |-> e.m, e |-> GenExpr(p, e.e)]
    [] e.k = "nuevo"   -> GenNuevo(p, e)
    [] e.k = "llama"   -> GenLlamada(p, e)

(* genSentencia; padre is actualPadre.                                      *)
GenSentencia(p, padre, s) ==
  CASE s.k = "asigna"  -> [c |-> "asigna", x |-> s.x, e |-> GenExpr(p, s.e)]
    [] s.k = "pone"    -> [c |-> "pone", o |-> GenExpr(p, s.o), m |-> s.m, e |-> GenExpr(p, s.e)]
    [] s.k = "expr"    -> [c |-> "expr", e |-> GenExpr(p, s.e)]
    [] s.k = "retorna" -> [c |-> "retorna", e |-> GenExpr(p, s.e)]
    [] s.k = "base"    -> [c |-> "base", ctor |-> IF EsTipo(p, padre) THEN LlamarCtor(p, TipoDe(p, padre), s.as)
                                                  ELSE <<>>]
GenBloque(p, padre, ss) == [i \in DOMAIN ss |-> GenSentencia(p, padre, ss[i])]

-----------------------------------------------------------------------------
(* The checks at the head of a body: annotated parameters, but for those    *)
(* annotated with one of the generics given.                                *)
ClaseDeTipo(tipo) == IF tipo = "numero" THEN "num" ELSE "obj"
Revisa(c, genericos) ==
  [i \in DOMAIN c.ps |-> IF c.ps[i].tipo \in genericos \cup {""} THEN "" ELSE ClaseDeTipo(c.ps[i].tipo)]
Locales(c) == Asignadas(c.sents) \ Range(Parametros(c))

(* Items of the C file.                                                     *)
Prototipo(s, firma) == [t |-> "prototipo", s |-> s, firma |-> IF firma = <<>> THEN <<"libre">> ELSE firma]
Define(s, d)        == [t |-> "define", s |-> s, firma |-> Firma(d), d |-> d]
Global(x)           == [t |-> "global", x |-> x]

GenFuncion(p, f) ==
  LET d == Def(<<"funcion">> \o f.nombre, FALSE, Parametros(f), f.variadico, FALSE, TRUE,
               Revisa(f, f.genericos), Locales(f), GenBloque(p, <<>>, f.sents))
  IN <<Define(FunC(f.nombre), d),
       Define(FunModuloC(f.nombre), Envoltura(d, TRUE, FunC(f.nombre), Firma(d)))>>

GenFuncionAnonima(p, f) ==
  <<Define(AnonimoC(p, f), Def(<<"anonima">> \o f.nombre, FALSE, Parametros(f), f.variadico, TRUE, TRUE,
                               Revisa(f, {}), Locales(f), GenBloque(p, <<>>, f.sents)))>>

(* A static method takes count and array in both of its functions.          *)
GenMetodo(p, t, m) ==
  LET x == t.nombre \o m.nombre
      d == Def(<<"metodo">> \o t.nombre \o <<".">> \o m.nombre, ~EsEstatico(m), Parametros(m), FALSE,
               EsEstatico(m), TRUE, Revisa(m, m.genericos), Locales(m), GenBloque(p, t.padre, m.sents))
  IN IF "abstracto" \in m.marcas THEN <<>>
     ELSE <<Define(FunC(x), d), Define(FunModuloC(x), Envoltura(d, TRUE, FunC(x), Firma(d)))>>

(* The head of the file: prototypes by parameters, static or not, and the   *)
(* variables of the top level.  lat_fn_modulo_X has no prototype.           *)
Cabecera(p, orden) ==
  [i \in DOMAIN p.funcs |->
     Prototipo(FunC(p.funcs[i].nombre), Valores(Len(p.funcs[i].ps) + Cuenta(p.funcs[i].variadico)))]
  \o [i \in DOMAIN Anonimas(p) |-> Prototipo(AnonimoC(p, Anonimas(p)[i]), Arreglo)]
  \o FlattenSeq([i \in DOMAIN orden |->
       LET t == p.tipos[orden[i]]
       IN [j \in DOMAIN t.metodos |->
             Prototipo(FunC(t.nombre \o t.metodos[j].nombre),
                       Valores(Len(t.metodos[j].ps) + Cuenta(~EsEstatico(t.metodos[j]))))]])
  \o SetToSeq({Global(x) : x \in Asignadas(p.sents)})

(* main: the statements, then `principal` or, for want of it, `inicio`,     *)
(* with two arguments or with none.                                         *)
Principal(p) ==
  LET llamado(x) == SelectSeq(p.funcs, LAMBDA f : f.nombre = <<x>>)
  IN IF llamado("principal") # <<>> THEN llamado("principal") ELSE llamado("inicio")
LlamarPrincipal(f) ==
  [c |-> "expr", e |-> [c |-> "directa", s |-> FunC(f.nombre),
     as |-> IF Len(f.ps) = 2 THEN <<[c |-> "valor", v |-> Numero(0)], [c |-> "valor", v |-> ListaDe(<<>>)]>>
            ELSE <<>>]]
GenMain(p) ==
  <<Define(<<"main">>, Def(<<"main">>, FALSE, <<>>, FALSE, FALSE, TRUE, <<>>, {},
      GenBloque(p, <<>>, p.sents)
      \o [i \in DOMAIN Principal(p) |-> LlamarPrincipal(Principal(p)[i])]))>>

GenCuerpo(p, b) ==
  CASE b.k = "funcion" -> GenFuncion(p, b.c)
    [] b.k = "anonima" -> GenFuncionAnonima(p, b.c)
    [] b.k = "metodo"  -> GenMetodo(p, b.t, b.c)
    [] b.k = "main"    -> GenMain(p)

-----------------------------------------------------------------------------
(* The C compiler on a file: items in order.  `f()` says nothing of the     *)
(* parameters of f.  A static function that is used is defined.             *)
Concuerdan(a, b) == a = b \/ <<"libre">> \in {a, b}
DeSimbolo(file, s) == {i \in DOMAIN file : file[i].t # "global" /\ file[i].s = s}
Definiciones(file) == {i \in DOMAIN file : file[i].t = "define"}

CeldasDe(d) == {c.x : c \in {h \in CodigoDe(d) : h.c \in {"celda", "asigna"}}}
EnVista(file, i) ==
  {file[j].x : j \in {k \in 1..i : file[k].t = "global"}}
  \cup Range(file[i].d.nombres) \cup file[i].d.vars
  \cup (IF file[i].d.este THEN {<<"este">>} ELSE {}) \cup (IF file[i].d.resto THEN {<<"lat_resto">>} ELSE {})
CamposBien(d) ==
  \A c \in CodigoDe(d) : c.c = "objeto" => \A j \in DOMAIN c.pasos : c.pasos[j].clave = "texto"

CuerpoCompila(file, i) ==
  LET d == file[i].d
      antes(s) == {j \in DeSimbolo(file, s) : j <= i}
  IN /\ CeldasDe(d) \subseteq EnVista(file, i)
     /\ CamposBien(d)
     /\ \A s \in Tomadas(d) : antes(s) # {}
     /\ \A h \in Hechas(d) : antes(h[1]) # {} /\ \A j \in antes(h[1]) : Concuerdan(file[j].firma, h[2])

CompilaC(file) ==
  /\ \A i, j \in Definiciones(file) : file[i].s = file[j].s => i = j
  /\ \A i \in Definiciones(file) : \A j \in DeSimbolo(file, file[i].s) :
       Concuerdan(file[i].firma, file[j].firma)
  /\ \A i \in Definiciones(file) : CuerpoCompila(file, i)

ImagenC(file) ==
  [s \in {file[i].s : i \in Definiciones(file)} |->
     file[CHOOSE i \in Definiciones(file) : file[i].s = s].d]

=============================================================================

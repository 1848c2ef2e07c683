---------------------------- MODULE LlamadasLLVM ----------------------------
(***************************************************************************)
(* What GeneradorLLVM (src/compiler_llvm.cpp) emits for bodies and calls:  *)
(* a module, that is, a function from symbols to bodies.  A named function *)
(* takes a pointer per parameter; lambdas, methods and the wrappers made   *)
(* when a function is used as a value take a count and an array.  A method *)
(* is found again by its name in the module (declararMetodo), so that what *)
(* has its name already is taken for it.  What genExpr cannot translate    *)
(* (nullptr) makes each caller give up after what it has emitted.          *)
(***************************************************************************)
EXTENDS MaquinaLlamadas

FuncionLLVM(x)    == <<"lat", "fn">> \o x       \* lat_fn_X, of functions and methods
EnvolturaLLVM(x)  == <<"wrapper">> \o x
AnonimaLLVM(p, f) == <<"anon", ToString(CHOOSE i \in DOMAIN Anonimas(p) : Anonimas(p)[i] = f)>>

Falta(antes) == [c |-> "falta", antes |-> antes]
Faltan(cs)   == {i \in DOMAIN cs : cs[i].c = "falta"}
(* The code of something made of parts, if all of them can be translated.   *)
Con(cs, codigo) ==
  IF Faltan(cs) = {} THEN codigo
  ELSE LET k == CHOOSE i \in Faltan(cs) : \A j \in Faltan(cs) : i <= j
       IN Falta(SubSeq(cs, 1, k))

-----------------------------------------------------------------------------
(* genExpr; vs are the names with a cell in `variables`.                    *)
RECURSIVE Expresion(_, _, _)
ExpresionesDe(p, vs, es) == [i \in DOMAIN es |-> Expresion(p, vs, es[i])]

CeldaLLVM(vs, x) == IF x \in vs THEN [c |-> "celda", x |-> x] ELSE Falta(<<>>)
ValorFuncion(s)  == [c |-> "fn", s |-> s]

(* A field whose default cannot be translated is left out.                  *)
Registros(p, vs, t) ==
  LET dadas == [i \in DOMAIN t.campos |-> [k |-> "campo", m |-> t.campos[i].nombre,
                                           e |-> Expresion(p, vs, t.campos[i].e)]]
      ms    == SelectSeq(t.metodos, EsDeInstancia)
  IN SelectSeq(dadas, LAMBDA r : r.e.c # "falta")
     \o [i \in DOMAIN ms |-> [k |-> "metodo", m |-> ms[i].nombre,
                              e |-> ValorFuncion(FuncionLLVM(t.nombre \o ms[i].nombre))]]

CtorLLVM(t, cs) ==
  IF CtorDe(t) = <<>> THEN <<>>
  ELSE <<[s |-> FuncionLLVM(t.nombre \o t.nombre), arreglo |-> TRUE, antes |-> <<>>, as |-> cs]>>

NuevoExpr(p, vs, e) ==
  LET cadena == Reverse(Cadena(p, e.c))
      objeto == [c |-> "objeto", clase |-> e.c, ctor |-> <<>>,
                 pasos |-> FlattenSeq([i \in DOMAIN cadena |-> Registros(p, vs, cadena[i])])]
      as     == ExpresionesDe(p, vs, e.as)
  IN IF CtorDe(TipoDe(p, e.c)) = <<>> THEN objeto
     ELSE Con(<<objeto>> \o as, [objeto EXCEPT !.ctor = CtorLLVM(TipoDe(p, e.c), as)])

(* A known function gets a cell for each parameter, of nulo if absent, and  *)
(* a list of the rest if it is variadic.                                    *)
LlamadaDirecta(p, vs, f, es) ==
  LET fijos == Len(f.ps)
      dadas == ExpresionesDe(p, vs, es)
      args  == [i \in 1..fijos |-> IF i <= Len(es) THEN dadas[i] ELSE [c |-> "valor", v |-> Nulo]]
      resto == SubSeq(dadas, fijos + 1, Len(es))
  IN IF f.variadico
     THEN Con(args \o resto, [c |-> "directa", s |-> FuncionLLVM(f.nombre),
                              as |-> Append(args, [c |-> "lista", as |-> resto])])
     ELSE Con(args, [c |-> "directa", s |-> FuncionLLVM(f.nombre), as |-> args])

Llamada(p, vs, e) ==
  LET as == ExpresionesDe(p, vs, e.as)
  IN CASE e.d.k = "id" /\ EsFuncion(p, e.d.x) -> LlamadaDirecta(p, vs, FuncionDe(p, e.d.x), e.as)
       [] DeTipo(p, e) /\ DuenoDe(p, e.d.o.x, e.d.m) # <<>> ->
            Con(as, [c |-> "empaca", as |-> as,
                     s |-> FuncionLLVM(DuenoDe(p, e.d.o.x, e.d.m)[1].nombre \o e.d.m)])
       [] e.d.k = "miembro" ->
            LET o == Expresion(p, vs, e.d.o)
            IN Con(<<o>> \o as, [c |-> "metodo", o |-> o, m |-> e.d.m, as |-> as])
       [] OTHER ->
            LET d == Expresion(p, vs, e.d)
            IN Con(<<d>> \o as, [c |-> "dinamica", d |-> d, as |-> as])

Expresion(p, vs, e) ==
  CASE e.k = "num"     -> [c |-> "valor", v |-> Numero(e.n)]
    [] e.k = "id"      -> IF e.x \notin vs /\ EsFuncion(p, e.x) THEN ValorFuncion(EnvolturaLLVM(e.x))
                          ELSE CeldaLLVM(vs, e.x)
    [] e.k = "este"    -> CeldaLLVM(vs, <<"este">>)
    [] e.k = "resto"   -> CeldaLLVM(vs, <<"lat_resto">>)
    [] e.k = "anonima" -> ValorFuncion(AnonimaLLVM(p, e.f))
    [] e.k = "dic"     -> LET v == Expresion(p, vs, e.e) IN Con(<<v>>, [c |-> "dic", m |-> e.m, e |-> v])
    [] e.k = "nuevo"   -> NuevoExpr(p, vs, e)
    [] e.k = "llama"   -> Llamada(p, vs, e)

(* genSentencia; padre is actualPadre_.  A statement that gives up leaves   *)
(* what it had emitted, a `retornar` no return either.                      *)
Sentencia(p, vs, padre, s) ==
  CASE s.k = "base" ->
         LET as == ExpresionesDe(p, vs, s.as) IN
         IF Faltan(as) # {} THEN [c |-> "expr", e |-> Con(as, <<>>)]
         ELSE [c |-> "base", ctor |-> IF EsTipo(p, padre) THEN CtorLLVM(TipoDe(p, padre), as) ELSE <<>>]
    [] s.k = "pone" ->
         LET e == Expresion(p, vs, s.e)
             o == Expresion(p, vs, s.o)
         IN IF Faltan(<<e, o>>) # {} THEN [c |-> "expr", e |-> Con(<<e, o>>, <<>>)]
            ELSE [c |-> "pone", o |-> o, m |-> s.m, e |-> e]
    [] OTHER ->
         LET e == Expresion(p, vs, s.e) IN
         IF e.c = "falta" \/ s.k = "expr" THEN [c |-> "expr", e |-> e]
         ELSE IF s.k = "asigna" THEN [c |-> "asigna", x |-> s.x, e |-> e]
         ELSE [c |-> "retorna", e |-> e]
Bloque(p, vs, padre, ss) == [i \in DOMAIN ss |-> Sentencia(p, vs, padre, ss[i])]

-----------------------------------------------------------------------------
(* Bodies.  The cells in sight: the global ones, `este`, the parameters,    *)
(* lat_resto and the local ones.                                            *)
TipoLLVM(tipo) == IF tipo = "numero" THEN "num" ELSE "obj"
Verifica(c, genericos) ==
  [i \in DOMAIN c.ps |-> IF c.ps[i].tipo \in genericos \cup {""} THEN "" ELSE TipoLLVM(c.ps[i].tipo)]
LocalesDe(c) == Asignadas(c.sents) \ Range(Parametros(c))

UnCuerpo(p, id, c, este, resto, arreglo, genericos, padre) ==
  LET vs == Asignadas(p.sents) \cup Range(Parametros(c)) \cup LocalesDe(c)
            \cup (IF este THEN {<<"este">>} ELSE {}) \cup (IF resto THEN {<<"lat_resto">>} ELSE {})
  IN Def(id, este, Parametros(c), resto, arreglo, TRUE, Verifica(c, genericos), LocalesDe(c),
         Bloque(p, vs, padre, c.sents))

GenFuncionLLVM(p, f) ==
  FuncionLLVM(f.nombre) :> UnCuerpo(p, <<"funcion">> \o f.nombre, f, FALSE, f.variadico, FALSE, f.genericos, <<>>)
GenAnonimaLLVM(p, f) ==
  AnonimaLLVM(p, f) :> UnCuerpo(p, <<"anonima">> \o f.nombre, f, FALSE, f.variadico, TRUE, {}, <<>>)

(* declararMetodo gives what has the name; a function with a body is not    *)
(* given another one.                                                       *)
GenMetodoLLVM(p, mod, t, m) ==
  LET x == t.nombre \o m.nombre
  IN IF "abstracto" \in m.marcas \/ FuncionLLVM(x) \in DOMAIN mod THEN <<>>
     ELSE FuncionLLVM(x) :> UnCuerpo(p, <<"metodo">> \o t.nombre \o <<".">> \o m.nombre, m,
                                     ~EsEstatico(m), FALSE, TRUE, m.genericos, t.padre)

PrincipalLLVM(p) ==
  LET llamado(x) == SelectSeq(p.funcs, LAMBDA f : f.nombre = <<x>>)
  IN IF llamado("principal") # <<>> THEN llamado("principal") ELSE llamado("inicio")
MainLLVM(p) ==
  <<"main">> :> Def(<<"main">>, FALSE, <<>>, FALSE, FALSE, TRUE, <<>>, {},
    Bloque(p, Asignadas(p.sents), <<>>, p.sents)
    \o [i \in DOMAIN PrincipalLLVM(p) |->
          [c |-> "expr", e |-> [c |-> "directa", s |-> FuncionLLVM(PrincipalLLVM(p)[i].nombre),
             as |-> IF Len(PrincipalLLVM(p)[i].ps) = 2
                    THEN <<[c |-> "valor", v |-> Numero(0)], [c |-> "valor", v |-> ListaDe(<<>>)]>>
                    ELSE <<>>]]])

(* obtenerWrapperFuncion, for the functions a body has used as values.  The *)
(* slots are those of the parameters, whatever the count; a variadic        *)
(* function is handed count and array.                                      *)
EnvolverLLVM(p, mod, nuevos) ==
  LET usadas == {p.funcs[i] : i \in {j \in DOMAIN p.funcs :
                   \E d \in Range(nuevos) : EnvolturaLLVM(p.funcs[j].nombre) \in Tomadas(d)}}
      fs == {f \in usadas : EnvolturaLLVM(f.nombre) \notin DOMAIN mod}
      envuelta(f) ==
        Envoltura(Def(<<"funcion">> \o f.nombre, FALSE, Parametros(f), f.variadico, TRUE, FALSE, <<>>, {}, <<>>),
                  FALSE, FuncionLLVM(f.nombre), IF f.variadico THEN Arreglo ELSE Valores(Len(f.ps)))
  IN [s \in {EnvolturaLLVM(f.nombre) : f \in fs} |->
        envuelta(CHOOSE f \in fs : EnvolturaLLVM(f.nombre) = s)]

GenCuerpoLLVM(p, mod, b) ==
  LET nuevos == CASE b.k = "funcion" -> GenFuncionLLVM(p, b.c)
                  [] b.k = "anonima" -> GenAnonimaLLVM(p, b.c)
                  [] b.k = "metodo"  -> GenMetodoLLVM(p, mod, b.t, b.c)
                  [] b.k = "main"    -> MainLLVM(p)
  IN EnvolverLLVM(p, mod, nuevos) @@ nuevos @@ mod

-----------------------------------------------------------------------------
(* verifyModule: each call has the arguments its function takes.            *)
VerificaModulo(mod) ==
  \A s \in DOMAIN mod : \A h \in Hechas(mod[s]) : h[1] \in DOMAIN mod /\ h[2] = Firma(mod[h[1]])

=============================================================================

-------------------------- MODULE MaquinaLlamadas --------------------------
(***************************************************************************)
(* The machine that runs what the back ends emit for calls: functions with *)
(* a symbol and one of two conventions, values, objects with their table   *)
(* of methods, and the functions of runtime/latino.c that call a value or  *)
(* a method.  A program is an image: a function from symbols to Def.       *)
(*                                                                         *)
(* Code of an expression, class in field c: valor, celda (x: a local cell  *)
(* or else a global one), global (x), fn (the address of s), directa       *)
(* (s, as: one C argument for each), empaca (s, as: a count and an array), *)
(* dinamica (d, as), metodo (o, m, as), lista, dic, objeto, falta (nothing *)
(* but `antes` was emitted).                                               *)
(* Code of a statement: expr, asigna, pone, base, retorna.                 *)
(***************************************************************************)
EXTENDS Integers, Sequences, SequencesExt, Functions, FiniteSets, TLC

CONSTANT MaxEntradas   \* a run is cut after this many bodies entered

Nulo   == <<"nulo">>
Basura == <<"basura">>                \* memory beyond the arguments
Numero(n) == <<"num", n>>
ListaDe(vs) == <<"lista", vs>>

(* What is emitted for one symbol.  este: the first argument is the object; *)
(* resto: what is left over goes to lat_resto; arreglo: it receives a count *)
(* and an array; guardado: it compares each position with the count;        *)
(* salta: it only calls another symbol, with that signature; revisa: the    *)
(* class each parameter is checked for, or "".                              *)
Def(id, este, nombres, resto, arreglo, guardado, revisa, vars, sents) ==
  [id |-> id, este |-> este, nombres |-> nombres, resto |-> resto, arreglo |-> arreglo,
   guardado |-> guardado, salta |-> <<>>, revisa |-> revisa, vars |-> vars, sents |-> sents]
Envoltura(d, guardado, s, firma) ==
  [d EXCEPT !.arreglo = TRUE, !.guardado = guardado, !.salta = <<s, firma>>,
            !.revisa = <<>>, !.vars = {}, !.sents = <<>>]

(* Signatures: one value per parameter, or count and array.                 *)
Valores(k) == [i \in 1..k |-> "v"]
Arreglo    == <<"n", "arr">>
Cuenta(b)  == IF b THEN 1 ELSE 0
Posiciones(d) == Cuenta(d.este) + Len(d.nombres) + Cuenta(d.resto)
Firma(d)   == IF d.arreglo THEN Arreglo ELSE Valores(Posiciones(d))

-----------------------------------------------------------------------------
(* The code inside a piece of code, itself included.                        *)
DeCtor(k) == IF k = <<>> THEN <<>> ELSE k[1].antes \o k[1].as
Hijas(c) ==
  CASE c.c \in {"directa", "empaca", "lista"} -> c.as
    [] c.c = "dinamica" -> <<c.d>> \o c.as
    [] c.c = "metodo"   -> <<c.o>> \o c.as
    [] c.c = "pone"     -> <<c.e, c.o>>
    [] c.c \in {"dic", "expr", "asigna", "retorna"} -> <<c.e>>
    [] c.c = "objeto"   -> [i \in DOMAIN c.pasos |-> c.pasos[i].e] \o DeCtor(c.ctor)
    [] c.c = "base"     -> DeCtor(c.ctor)
    [] c.c = "falta"    -> c.antes
    [] OTHER            -> <<>>

RECURSIVE Toda(_)
Toda(c) == {c} \cup UNION {Toda(h) : h \in Range(Hijas(c))}
CodigoDe(d) == UNION {Toda(s) : s \in Range(d.sents)}

(* The symbols whose address d takes, and the calls it makes.               *)
Tomadas(d) == {c.s : c \in {h \in CodigoDe(d) : h.c = "fn"}}
FirmaDeCtor(k) == IF k.arreglo THEN Arreglo ELSE Valores(1 + Len(k.as))
Hechas(d) ==
  LET todas == CodigoDe(d)
      ctores == {c.ctor[1] : c \in {h \in todas : h.c \in {"objeto", "base"} /\ h.ctor # <<>>}}
  IN {<<c.s, Valores(Len(c.as))>> : c \in {h \in todas : h.c = "directa"}}
     \cup {<<c.s, Arreglo>> : c \in {h \in todas : h.c = "empaca"}}
     \cup {<<k.s, FirmaDeCtor(k)>> : k \in ctores}
     \cup (IF d.salta = <<>> THEN {} ELSE {d.salta})

-----------------------------------------------------------------------------
(* The state of a run: objects, global cells, the bodies entered with what  *)
(* each received, and why the run stopped, "" if it did not.                *)
Inicio(globales) ==
  [objs |-> <<>>, globs |-> [x \in globales |-> Nulo], traza |-> <<>>, alto |-> ""]
Resultado(v, st) == [v |-> v, st |-> st]
Para(st, porque) == Resultado(Nulo, [st EXCEPT !.alto = porque])

(* lat_verificar_tipo: any other class ends the program.                    *)
Pasa(v, clase) == clase = "" \/ v[1] = clase

RECURSIVE Ev(_, _, _, _), EvTodas(_, _, _, _, _), Entrar(_, _, _, _, _), Corre(_, _, _, _, _),
          Registra(_, _, _, _, _, _)

EvTodas(img, as, i, env, st) ==
  IF i > Len(as) THEN [vs |-> <<>>, st |-> st]
  ELSE LET r == Ev(img, as[i], env, st)
           q == EvTodas(img, as, i + 1, env, r.st)
       IN [vs |-> <<r.v>> \o q.vs, st |-> q.st]

(* Calling symbol s with the values vs, one by one or as an array.          *)
Entrar(img, s, vs, firma, st) ==
  IF st.alto # "" \/ s \notin DOMAIN img \/ firma # Firma(img[s])
    THEN Para(st, IF st.alto = "" THEN "indefinido" ELSE st.alto)
  ELSE
  LET d     == img[s]
      dado(i) == IF i <= Len(vs) THEN vs[i] ELSE IF d.guardado THEN Nulo ELSE Basura
      o     == Cuenta(d.este)
      n     == o + Len(d.nombres)
      este  == IF d.este THEN <<dado(1)>> ELSE <<>>
      ps    == [i \in DOMAIN d.nombres |-> dado(o + i)]
      resto == IF ~d.resto THEN <<>>
               ELSE IF d.arreglo THEN <<ListaDe(SubSeq(vs, n + 1, Len(vs)))>> ELSE <<dado(n + 1)>>
  IN CASE d.salta # <<>> -> Entrar(img, d.salta[1], este \o ps \o resto, d.salta[2], st)
       [] \E i \in DOMAIN d.revisa : ~Pasa(ps[i], d.revisa[i]) -> Para(st, "aborta")
       [] Len(st.traza) = MaxEntradas -> Para(st, "corte")
       [] OTHER ->
            Corre(img, d.sents, 1,
                  [x \in Range(d.nombres) |-> ps[CHOOSE i \in DOMAIN ps : d.nombres[i] = x]]
                    @@ [x \in {<<"este">> : v \in Range(este)} |-> este[1]]
                    @@ [x \in {<<"lat_resto">> : v \in Range(resto)} |-> resto[1]]
                    @@ [x \in d.vars |-> Nulo],
                  [st EXCEPT !.traza = Append(@, [id |-> d.id, este |-> este, ps |-> ps,
                                                  resto |-> resto])])

(* lat_llamar_funcion and lat_llamar_valor_funcion, and their LLVM twins.   *)
LlamaValor(img, f, vs, st) ==
  IF f[1] # "fn" THEN Resultado(Nulo, st) ELSE Entrar(img, f[2], vs, Arreglo, st)

(* lat_obj_llamar_metodo_args: the table of methods, then the fields, which *)
(* do not get the object.  A list knows its length, a dictionary its keys.  *)
LlamaMetodo(img, o, m, vs, st) ==
  CASE o[1] = "obj" ->
         LET obj == st.objs[o[2]] IN
         IF m \in DOMAIN obj.metodos THEN LlamaValor(img, obj.metodos[m], <<o>> \o vs, st)
         ELSE IF m \in DOMAIN obj.campos THEN LlamaValor(img, obj.campos[m], vs, st)
         ELSE Resultado(Nulo, st)
    [] o[1] = "dic"   -> IF m = o[2] THEN LlamaValor(img, o[3], vs, st) ELSE Resultado(Nulo, st)
    [] o[1] = "lista" -> Resultado(IF m = <<"longitud">> THEN Numero(Len(o[2])) ELSE Nulo, st)
    [] OTHER          -> Resultado(Nulo, st)

(* The constructor k for object o: what was put in an array before (antes)  *)
(* has been evaluated too.                                                  *)
LlamaCtor(img, k, o, env, st) ==
  LET r0 == EvTodas(img, k.antes, 1, env, st)
      r  == EvTodas(img, k.as, 1, env, r0.st)
  IN Entrar(img, k.s, <<o>> \o r.vs, FirmaDeCtor(k), r.st)

(* lat_obj_set and lat_obj_set_metodo, in the order emitted.                *)
Registra(img, pasos, i, o, env, st) ==
  IF i > Len(pasos) THEN st
  ELSE LET r == Ev(img, pasos[i].e, env, st)
           en == IF pasos[i].k = "campo" THEN "campos" ELSE "metodos"
       IN Registra(img, pasos, i + 1, o, env,
                   [r.st EXCEPT !.objs[o][en] = (pasos[i].m :> r.v) @@ @])

(* The value of a cell is read when the call is made: after the arguments.  *)
Ev(img, c, env, st) ==
  IF st.alto # "" THEN Resultado(Nulo, st) ELSE
  CASE c.c = "valor" -> Resultado(c.v, st)
    [] c.c = "celda" -> Resultado(IF c.x \in DOMAIN env THEN env[c.x] ELSE st.globs[c.x], st)
    [] c.c = "global" -> Resultado(st.globs[c.x], st)
    [] c.c = "fn"    -> Resultado(<<"fn", c.s>>, st)
    [] c.c = "falta" -> Resultado(Nulo, EvTodas(img, c.antes, 1, env, st).st)
    [] c.c = "dic"   -> LET r == Ev(img, c.e, env, st) IN Resultado(<<"dic", c.m, r.v>>, r.st)
    [] c.c = "lista" -> LET r == EvTodas(img, c.as, 1, env, st) IN Resultado(ListaDe(r.vs), r.st)
    [] c.c \in {"directa", "empaca"} ->
         LET r == EvTodas(img, c.as, 1, env, st)
         IN Entrar(img, c.s, r.vs, IF c.c = "empaca" THEN Arreglo ELSE Valores(Len(c.as)), r.st)
    [] c.c = "dinamica" ->
         LET r == EvTodas(img, c.as, 1, env, st)
             f == Ev(img, c.d, env, r.st)
         IN LlamaValor(img, f.v, r.vs, f.st)
    [] c.c = "metodo" ->
         LET o == Ev(img, c.o, env, st)
             r == EvTodas(img, c.as, 1, env, o.st)
         IN LlamaMetodo(img, o.v, c.m, r.vs, r.st)
    [] c.c = "objeto" ->
         LET o  == Len(st.objs) + 1
             s1 == [st EXCEPT !.objs = Append(@, [clase |-> c.clase, campos |-> <<>>, metodos |-> <<>>])]
             s2 == Registra(img, c.pasos, 1, o, env, s1)
         IN Resultado(<<"obj", o>>,
                      IF c.ctor = <<>> THEN s2 ELSE LlamaCtor(img, c.ctor[1], <<"obj", o>>, env, s2).st)

Corre(img, ss, i, env, st) ==
  IF i > Len(ss) \/ st.alto # "" THEN Resultado(Nulo, st)
  ELSE CASE ss[i].c = "retorna" -> Ev(img, ss[i].e, env, st)
         [] ss[i].c = "expr" -> Corre(img, ss, i + 1, env, Ev(img, ss[i].e, env, st).st)
         [] ss[i].c = "base" ->
              Corre(img, ss, i + 1, env,
                    IF ss[i].ctor = <<>> THEN st
                    ELSE LlamaCtor(img, ss[i].ctor[1], env[<<"este">>], env, st).st)
         [] ss[i].c = "asigna" ->
              LET r == Ev(img, ss[i].e, env, st) IN
              IF ss[i].x \in DOMAIN env
                THEN Corre(img, ss, i + 1, [env EXCEPT ![ss[i].x] = r.v], r.st)
                ELSE Corre(img, ss, i + 1, env, [r.st EXCEPT !.globs[ss[i].x] = r.v])
         [] ss[i].c = "pone" ->
              LET r == Ev(img, ss[i].e, env, st)
                  o == Ev(img, ss[i].o, env, r.st)
              IN Corre(img, ss, i + 1, env,
                       IF o.v[1] # "obj" THEN o.st
                       ELSE [o.st EXCEPT !.objs[o.v[2]].campos = (ss[i].m :> r.v) @@ @])

-----------------------------------------------------------------------------
(***************************************************************************)
(* What a program can call, and what calling it means.  A body is a named  *)
(* function, a lambda or a method; a name is the sequence of the parts its *)
(* text has between underscores, so that the names the back ends compose   *)
(* ("lat_fn_" + clase + "_" + metodo) are told apart exactly when their    *)
(* texts are.  Statements are those that call or bind something: control   *)
(* and operators are in module Generacion, which cell a name is in Alcance.*)
(*                                                                         *)
(* An expression is a record with its class in field k:                    *)
(*   num, id, este, resto (`[...]`), anonima, llama (d: what is called),   *)
(*   miembro (only as what is called), nuevo, dic ({m: e})                 *)
(* and a statement: expr, asigna, pone (`o.m = e`), base, retorna.         *)
(***************************************************************************)

Num(n)         == [k |-> "num", n |-> n]
Id(x)          == [k |-> "id", x |-> x]
Este           == [k |-> "este"]
Resto          == [k |-> "resto"]
Anonima(f)     == [k |-> "anonima", f |-> f]
Llama(d, as)   == [k |-> "llama", d |-> d, as |-> as]
Miembro(o, m)  == [k |-> "miembro", o |-> o, m |-> m]
Nuevo(c, as)   == [k |-> "nuevo", c |-> c, as |-> as]
Dic(m, e)      == [k |-> "dic", m |-> m, e |-> e]

Expr(e)        == [k |-> "expr", e |-> e]
Asigna(x, e)   == [k |-> "asigna", x |-> x, e |-> e]
Pone(o, m, e)  == [k |-> "pone", o |-> o, m |-> m, e |-> e]
Base(as)       == [k |-> "base", as |-> as]
Retorna(e)     == [k |-> "retorna", e |-> e]

(* A parameter; its tipo is "" without annotation, "numero", or the name of *)
(* a generic.  genericos: those in sight, of the type or the function       *)
(* around included.                                                         *)
Param(x, tipo) == [x |-> x, tipo |-> tipo]
Cuerpo(nombre, ps, variadico, genericos, sents) ==
  [nombre |-> nombre, ps |-> ps, variadico |-> variadico, genericos |-> genericos, sents |-> sents]

(* A method is a body with its modifiers; a field here has a default.       *)
Metodo(c, marcas) == c @@ [marcas |-> marcas]
Tipo(k, nombre, padre, campos, metodos) ==
  [k |-> k, nombre |-> nombre, padre |-> padre, campos |-> campos, metodos |-> metodos]
Campo(x, e) == [nombre |-> x, e |-> e]

(* A program: its functions, its types (k is "clase" or "estructura"; padre *)
(* is <<>> without a base), its statements, in this order in the file.      *)
Programa(funcs, tipos, sents) == [funcs |-> funcs, tipos |-> tipos, sents |-> sents]

-----------------------------------------------------------------------------
(* The expressions in a statement or an expression, in the order of the     *)
(* text; a lambda counts and its body does not.                             *)
Partes(e) ==
  CASE e.k = "llama"   -> <<e.d>> \o e.as
    [] e.k = "miembro" -> <<e.o>>
    [] e.k \in {"nuevo", "base"} -> e.as
    [] e.k \in {"dic", "expr", "asigna", "retorna"} -> <<e.e>>
    [] e.k = "pone"    -> <<e.e, e.o>>
    [] OTHER           -> <<>>

RECURSIVE Dentro(_)
Dentro(e) == <<e>> \o FlattenSeq([i \in DOMAIN Partes(e) |-> Dentro(Partes(e)[i])])
DentroDe(sents) == FlattenSeq([i \in DOMAIN sents |-> Dentro(sents[i])])

(* The lambdas of a text, each followed by those inside it.                 *)
RECURSIVE AnonimasDe(_)
AnonimasDe(es) ==
  FlattenSeq([i \in DOMAIN es |->
    IF es[i].k = "anonima" THEN <<es[i].f>> \o AnonimasDe(DentroDe(es[i].f.sents)) ELSE <<>>])

Asignadas(sents) == {sents[i].x : i \in {j \in DOMAIN sents : sents[j].k = "asigna"}}
Parametros(c) == [i \in DOMAIN c.ps |-> c.ps[i].x]

-----------------------------------------------------------------------------
(* Lookups of functions, types and their ancestors.                         *)
EsTipo(p, x)    == \E i \in DOMAIN p.tipos : p.tipos[i].nombre = x
TipoDe(p, x)    == p.tipos[CHOOSE i \in DOMAIN p.tipos : p.tipos[i].nombre = x]
EsFuncion(p, x) == \E i \in DOMAIN p.funcs : p.funcs[i].nombre = x
FuncionDe(p, x) == p.funcs[CHOOSE i \in DOMAIN p.funcs : p.funcs[i].nombre = x]

(* A type and its ancestors, nearest first.                                 *)
RECURSIVE Cadena(_, _)
Cadena(p, x) ==
  IF ~EsTipo(p, x) THEN <<>> ELSE <<TipoDe(p, x)>> \o Cadena(p, TipoDe(p, x).padre)

EsCtor(m)       == "ctor" \in m.marcas
EsEstatico(m)   == "estatico" \in m.marcas
EsDeInstancia(m) == m.marcas \cap {"ctor", "estatico", "abstracto"} = {}

(* The constructor a type declares, and the type in whose declaration the   *)
(* static method x.m is found, as sequences of at most one.                 *)
CtorDe(t) == SelectSeq(t.metodos, EsCtor)
EstaticosDe(t, m) == SelectSeq(t.metodos, LAMBDA q : q.nombre = m /\ EsEstatico(q))
DuenoDe(p, x, m) ==
  LET quienes == SelectSeq(Cadena(p, x), LAMBDA t : EstaticosDe(t, m) # <<>>)
  IN SubSeq(quienes, 1, IF quienes = <<>> THEN 0 ELSE 1)

(* A call written x.m(...) where x names a type: it is not of an object.    *)
DeTipo(p, e) ==
  e.k = "llama" /\ e.d.k = "miembro" /\ e.d.o.k = "id" /\ EsTipo(p, e.d.o.x)

-----------------------------------------------------------------------------
(* The bodies of a program in the order both back ends emit them, types in  *)
(* the order given; the last one is main.  t is the type of a method.       *)
TextoDe(p) ==
  FlattenSeq([i \in DOMAIN p.funcs |-> DentroDe(p.funcs[i].sents)])
  \o FlattenSeq([i \in DOMAIN p.tipos |->
       FlattenSeq([j \in DOMAIN p.tipos[i].campos |-> Dentro(p.tipos[i].campos[j].e)])
       \o FlattenSeq([j \in DOMAIN p.tipos[i].metodos |-> DentroDe(p.tipos[i].metodos[j].sents)])])
  \o DentroDe(p.sents)
Anonimas(p) == AnonimasDe(TextoDe(p))

EnOrden(p, orden) ==
  [i \in DOMAIN p.funcs |-> [k |-> "funcion", c |-> p.funcs[i]]]
  \o [i \in DOMAIN Anonimas(p) |-> [k |-> "anonima", c |-> Anonimas(p)[i]]]
  \o FlattenSeq([i \in DOMAIN orden |->
       LET t == p.tipos[orden[i]]
       IN [j \in DOMAIN t.metodos |-> [k |-> "metodo", c |-> t.metodos[j], t |-> t]]])
  \o <<[k |-> "main", c |-> [sents |-> p.sents]]>>
Todos(p) == Range(EnOrden(p, [i \in DOMAIN p.tipos |-> i]))

-----------------------------------------------------------------------------
(* The rules of the analyzer about calls.  A name that is no variable in    *)
(* sight is a function; nothing is asked of a member of a type (x.m).       *)
Aridad(f, n) == IF f.variadico THEN n >= Len(f.ps) ELSE n = Len(f.ps)
AridadCtor(t, n) == n = IF CtorDe(t) = <<>> THEN 0 ELSE Len(CtorDe(t)[1].ps)
Vistas(p, b) ==
  Asignadas(p.sents) \cup Asignadas(b.c.sents)
  \cup (IF b.k = "main" THEN {} ELSE Range(Parametros(b.c)))
  \cup {p.funcs[i].nombre : i \in DOMAIN p.funcs}

Permitida(p, b, e) ==
  /\ e.k = "llama" /\ e.d.k = "id" /\ EsFuncion(p, e.d.x) => Aridad(FuncionDe(p, e.d.x), Len(e.as))
  /\ e.k = "nuevo" => EsTipo(p, e.c) /\ AridadCtor(TipoDe(p, e.c), Len(e.as))
  /\ e.k = "base"  => /\ b.k = "metodo" /\ EsCtor(b.c) /\ EsTipo(p, b.t.padre)
                      /\ AridadCtor(TipoDe(p, b.t.padre), Len(e.as))
  /\ e.k = "este"  => b.k = "metodo" /\ ~EsEstatico(b.c)
  /\ e.k = "resto" => b.k \in {"funcion", "anonima"} /\ b.c.variadico
  /\ e.k = "id"    => e.x \in Vistas(p, b) \/ EsTipo(p, e.x)

Aceptado(p) ==
  \A b \in Todos(p) : \A e \in Range(DentroDe(b.c.sents)) : Permitida(p, b, e)
=============================================================================

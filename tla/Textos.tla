------------------------------- MODULE Textos -------------------------------
(***************************************************************************)
(* The texts of the runtime.  First its regular expressions: the matcher   *)
(* of runtime/libs/cadena.c (cadena.regex, cadena.regexl) and its twin in  *)
(* runtime/latino.c (the operator ~=).  A pattern and a text are sequences *)
(* of characters; a position past the end holds the terminator.  Beside    *)
(* the matcher, what a pattern means without reading it: a pattern is a    *)
(* sequence of items, each a set of characters and how often it may come,  *)
(* and its text is what one writes for them.                               *)
(*                                                                         *)
(* Then the functions of runtime/libs/cadena.c that search, cut and fill   *)
(* in: positions that a program sees count from 0, those of the sequences  *)
(* from 1, and every text they give goes through lat_cadena                *)
(* (runtime/latino.c), which reads the escapes in it.                      *)
(***************************************************************************)
EXTENDS Integers, Sequences, SequencesExt, FiniteSetsExt, Functions

CONSTANTS
  Nulo,    \* an argument that is no number
  Aborta   \* the program ends with an error

-----------------------------------------------------------------------------
(* Regular expressions *)

(* The characters there are, in the order of their codes.                   *)
Ascii == <<"TAB", "VT", " ", "$", "*", "+", "-", ".", "0", "1", "2", "?", "A", "B",
           "[", "\\", "]", "^", "_", "a", "b", "n", "{", "}">>
Codigo == [c \in Range(Ascii) |-> CHOOSE k \in DOMAIN Ascii : Ascii[k] = c]

NUL == ""
En(s, i) == IF i \in DOMAIN s THEN s[i] ELSE NUL

(* isdigit, isspace, isalpha.                                               *)
Digitos == {"0", "1", "2"}
Espacios == {" ", "TAB", "VT"}
Letras == {"A", "B", "a", "b", "n"}
Palabra == Letras \cup Digitos \cup {"_"}

(* \d \D \w \W \s \S, and any other character for itself.                   *)
EsMeta(e, c) ==
  CASE e = "d" -> c \in Digitos
    [] e = "D" -> c \notin Digitos
    [] e = "w" -> c \in Palabra
    [] e = "W" -> c \notin Palabra
    [] e = "s" -> c \in Espacios
    [] e = "S" -> c \notin Espacios
    [] OTHER   -> c = e

(* Is c in the class that goes from i to the bracket?                       *)
RECURSIVE EnClase(_, _, _)
EnClase(re, i, c) ==
  CASE En(re, i) \in {NUL, "]"} -> FALSE
    [] En(re, i) = "\\" -> En(re, i + 1) # NUL /\ (EsMeta(re[i + 1], c) \/ EnClase(re, i + 2, c))
    [] En(re, i) # "\\" /\ En(re, i + 1) = "-" /\ En(re, i + 2) \notin {NUL, "]"} ->
         (Codigo[re[i]] <= Codigo[c] /\ Codigo[c] <= Codigo[re[i + 2]]) \/ EnClase(re, i + 3, c)
    [] OTHER -> re[i] = c \/ EnClase(re, i + 1, c)

Clase(re, i, c) ==
  IF En(re, i) = "^" THEN ~EnClase(re, i + 1, c) ELSE EnClase(re, i, c)

(* Does the atom at i take c?                                               *)
Uno(re, i, c) ==
  CASE En(re, i) = "["  -> Clase(re, i + 1, c)
    [] En(re, i) = "\\" -> En(re, i + 1) # NUL /\ EsMeta(re[i + 1], c)
    [] En(re, i) = "."  -> c # NUL
    [] OTHER            -> En(re, i) = c

(* The end of the class whose inside goes from i.                           *)
RECURSIVE FinDeClase(_, _)
FinDeClase(re, i) ==
  CASE En(re, i) = NUL -> i
    [] En(re, i) = "]" -> i + 1
    [] En(re, i) = "\\" /\ En(re, i + 1) # NUL -> FinDeClase(re, i + 2)
    [] OTHER -> FinDeClase(re, i + 1)

(* Where the atom at i ends.                                                *)
Siguiente(re, i) ==
  CASE En(re, i) = "\\" /\ En(re, i + 1) # NUL -> i + 2
    [] En(re, i) = "[" -> FinDeClase(re, IF En(re, i + 1) = "^" THEN i + 2 ELSE i + 1)
    [] OTHER -> i + 1

(* How many characters of t from j on the atom at i takes in a row.         *)
Racha(re, i, t, j) ==
  Max({k \in 0 .. Len(t) - j + 1 : \A m \in j .. j + k - 1 : Uno(re, i, t[m])})

(* The characters of t that the pattern from i takes from j on, or -1.  A   *)
(* repetition takes as many as it can and gives them back one by one.       *)
RECURSIVE Largo(_, _, _, _)

(* Mutant: the repetition gives nothing back.                               *)
EstrellaSinDevolver(re, i, resto, t, j, min) ==
  LET k == Racha(re, i, t, j)
      r == IF k < min THEN -1 ELSE Largo(re, resto, t, j + k)
  IN  IF r < 0 THEN -1 ELSE k + r

Estrella(re, i, resto, t, j, min) ==
  LET ks == {k \in min .. Racha(re, i, t, j) : Largo(re, resto, t, j + k) >= 0}
  IN  IF ks = {} THEN -1 ELSE Max(ks) + Largo(re, resto, t, j + Max(ks))

Largo(re, i, t, j) ==
  LET sig  == Siguiente(re, i)
      toma == j <= Len(t) /\ Uno(re, i, t[j])
      tras(k, n) == LET r == Largo(re, k, t, j + n) IN IF r < 0 THEN -1 ELSE n + r
  IN  CASE En(re, i) = NUL -> 0
        [] En(re, i) = "$" -> IF j > Len(t) THEN 0 ELSE -1
        [] En(re, i) \notin {NUL, "$"} /\ En(re, sig) = "*" -> Estrella(re, i, sig + 1, t, j, 0)
        [] En(re, i) \notin {NUL, "$"} /\ En(re, sig) = "+" -> Estrella(re, i, sig + 1, t, j, 1)
        [] En(re, i) \notin {NUL, "$"} /\ En(re, sig) = "?" ->
             IF toma /\ tras(sig + 1, 1) >= 0 THEN tras(sig + 1, 1) ELSE tras(sig + 1, 0)
        [] OTHER -> IF toma THEN tras(sig, 1) ELSE -1

Nada == [en |-> 0, largo |-> -1]

(* The first match of the pattern in t from j on: where, and how long.      *)
Halla(re, t, j) ==
  LET ancla == En(re, 1) = "^"
      desde == IF ancla THEN 2 ELSE 1
      js == {k \in IF ancla THEN {j} ELSE j .. Len(t) + 1 : Largo(re, desde, t, k) >= 0}
  IN  IF js = {} THEN Nada ELSE [en |-> Min(js), largo |-> Largo(re, desde, t, Min(js))]

(* cadena.regex gives that match, ~= whether there is one.                  *)
Regex(t, re) == Halla(re, t, 1)
Coincide(t, re) == Halla(re, t, 1) # Nada

(* cadena.regexl: match after match, an empty one moving on by a character; *)
(* past the terminator there is no more text, and it stops before that.     *)
RECURSIVE Regexl(_, _, _)
Regexl(t, re, j) ==
  LET m == Halla(re, t, j)
      sigue == m.en + Max({m.largo, 1})
  IN  IF m = Nada THEN <<>>
      ELSE <<m>> \o (IF sigue > Len(t) THEN <<>> ELSE Regexl(t, re, sigue))

-----------------------------------------------------------------------------
(* What a pattern means.                                                    *)

(* An item: how one writes its atom, the characters of it, and "", "*", "+" *)
(* or "?".  A pattern may be tied to the beginning and to the end.          *)
Escrito(p) ==
  (IF p.ancla THEN <<"^">> ELSE <<>>)
  \o FlattenSeq([k \in DOMAIN p.items |->
                   p.items[k].atomo.escrito \o (IF p.items[k].q = "" THEN <<>> ELSE <<p.items[k].q>>)])
  \o (IF p.fin THEN <<"$">> ELSE <<>>)

Veces(q, n) ==
  CASE q = "" -> {1} [] q = "*" -> 0 .. n [] q = "+" -> 1 .. n [] q = "?" -> {0, 1}

(* How often each item may come for p to go over t from j on.  Item k       *)
(* begins where the ones before it end.                                     *)
Hasta(v, j, k) == j + SumFunctionOnSet(v, 1 .. k)

Repartos(p, t, j) ==
  {v \in [DOMAIN p.items -> 0 .. Len(t) - j + 1] :
     /\ \A k \in DOMAIN v :
          /\ v[k] \in Veces(p.items[k].q, Len(t))
          /\ \A m \in Hasta(v, j, k - 1) .. Hasta(v, j, k) - 1 :
               m <= Len(t) /\ t[m] \in p.items[k].atomo.son
     /\ p.fin => Hasta(v, j, Len(p.items)) = Len(t) + 1}

(* Of two ways, the one whose first different item comes more often.        *)
Prefiere(v, w) ==
  \E k \in DOMAIN v : v[k] > w[k] /\ \A m \in 1 .. k - 1 : v[m] = w[m]

(* What the pattern takes from j on: the preferred way.                     *)
LargoDe(p, t, j) ==
  LET vs == Repartos(p, t, j)
      v  == CHOOSE v \in vs : \A w \in vs \ {v} : Prefiere(v, w)
  IN  IF vs = {} THEN -1 ELSE SumFunctionOnSet(v, DOMAIN v)

(* The first match of p in t from j on.                                     *)
PrimeraDe(p, t, j) ==
  LET js == {k \in j .. Len(t) + 1 : (p.ancla => k = 1) /\ LargoDe(p, t, k) >= 0}
  IN  IF js = {} THEN Nada ELSE [en |-> Min(js), largo |-> LargoDe(p, t, Min(js))]

(* All matches, from left to right, each after the end of the one before.   *)
RECURSIVE TodasDe(_, _, _)
TodasDe(p, t, j) ==
  LET m == PrimeraDe(p, t, j)
  IN  IF m = Nada THEN <<>> ELSE <<m>> \o TodasDe(p, t, m.en + Max({m.largo, 1}))

(* A pattern that goes over nothing at the end of the text; one tied to the *)
(* beginning.  Of cadena.regexl only the matches with none of that are what *)
(* its name says (input/PLAN_LIBS.md:180): after the empty match at the end *)
(* it reads on past the terminator (runtime/libs/cadena.c:624), or leaves   *)
(* the match out if another one ended there; and ^ ties every search to     *)
(* where it begins, so that ^a is found twice in aa.                        *)
NadaAlFinal(p, t) == ~p.ancla /\ LargoDe(p, t, Len(t) + 1) < 0

-----------------------------------------------------------------------------
(* Texts *)

(* lat_cadena: a backslash and a letter it knows are one character.         *)
Escapes == [n |-> "LF", t |-> "TAB", r |-> "CR"]
RECURSIVE Decodifica(_, _)
Decodifica(s, i) ==
  IF i > Len(s) THEN <<>>
  ELSE IF s[i] # "\\" \/ i = Len(s) THEN <<s[i]>> \o Decodifica(s, i + 1)
  ELSE (IF s[i + 1] \in DOMAIN Escapes THEN <<Escapes[s[i + 1]]>>
        ELSE IF s[i + 1] = "\\" THEN <<"\\">> ELSE <<"\\", s[i + 1]>>) \o Decodifica(s, i + 2)
LatCadena(s) == Decodifica(s, 1)

-----------------------------------------------------------------------------
(* strstr and strncmp: is sub at i; where does it come first from i on (0   *)
(* if nowhere)?                                                             *)
Aqui(s, sub, i) == i + Len(sub) - 1 <= Len(s) /\ SubSeq(s, i, i + Len(sub) - 1) = sub
Busca(s, sub, i) ==
  LET is == {k \in i .. Len(s) + 1 : Aqui(s, sub, k)} IN IF is = {} THEN 0 ELSE Min(is)

Encontrar(s, sub) == Busca(s, sub, 1) - 1

(* The loop `while ((p = strstr(p, sub)) != NULL) p += len`, for a sub that *)
(* is not empty: where each turn finds it.                                  *)
RECURSIVE Ocurrencias(_, _, _)

(* Mutant: the loop moves on by one character.                              *)
OcurrenciasSolapadas(s, sub, i) ==
  LET k == Busca(s, sub, i) IN IF k = 0 THEN <<>> ELSE <<k>> \o Ocurrencias(s, sub, k + 1)

Ocurrencias(s, sub, i) ==
  LET k == Busca(s, sub, i)
  IN  IF k = 0 THEN <<>> ELSE <<k>> \o Ocurrencias(s, sub, k + Len(sub))

UltimoIndice(s, sub) ==
  LET os == Ocurrencias(s, sub, 1)
  IN  IF sub = <<>> THEN Len(s) ELSE IF os = <<>> THEN -1 ELSE Last(os) - 1

Contar(s, sub) == IF sub = <<>> THEN 0 ELSE Len(Ocurrencias(s, sub, 1))

(* cadena.reemplazar: one loop counts, for the size of the block, and       *)
(* another copies.                                                          *)
RECURSIVE CopiaCambiando(_, _, _, _)
CopiaCambiando(s, viejo, nuevo, i) ==
  IF i > Len(s) THEN <<>>
  ELSE IF Aqui(s, viejo, i) THEN nuevo \o CopiaCambiando(s, viejo, nuevo, i + Len(viejo))
  ELSE <<s[i]>> \o CopiaCambiando(s, viejo, nuevo, i + 1)

TamanoReemplazo(s, viejo, nuevo) == Len(s) + Contar(s, viejo) * (Len(nuevo) - Len(viejo)) + 1
Reemplazar(s, viejo, nuevo) ==
  LatCadena(IF viejo = <<>> \/ Contar(s, viejo) = 0 THEN s ELSE CopiaCambiando(s, viejo, nuevo, 1))

(* cadena.separar: without a delimiter, character by character.             *)
Trozos(s, d, os) ==
  [k \in 1 .. Len(os) + 1 |->
     SubSeq(s, IF k = 1 THEN 1 ELSE os[k - 1] + Len(d), IF k > Len(os) THEN Len(s) ELSE os[k] - 1)]
Separar(s, d) ==
  LET ts == IF d = <<>> THEN [k \in DOMAIN s |-> <<s[k]>>] ELSE Trozos(s, d, Ocurrencias(s, d, 1))
  IN  [k \in DOMAIN ts |-> LatCadena(ts[k])]

-----------------------------------------------------------------------------
(* Positions of the program, forced into the text.                          *)
Sujeta(i, n) == IF i < 0 THEN 0 ELSE Min({i, n})

Insertar(s, pos, sub) ==
  LET k == IF pos = Nulo THEN 0 ELSE Sujeta(pos, Len(s))
  IN  LatCadena(SubSeq(s, 1, k) \o sub \o SubSeq(s, k + 1, Len(s)))

Subcadena(s, inicio, fin) ==
  LET f == IF fin = Nulo THEN Len(s) ELSE IF fin < 0 \/ fin > Len(s) THEN Len(s) ELSE fin
      i == IF inicio = Nulo THEN 0 ELSE Sujeta(inicio, f)
  IN  LatCadena(SubSeq(s, i + 1, f))

Relleno(s, n, c) ==
  [k \in 1 .. (IF n = Nulo THEN 0 ELSE Max({n - Len(s), 0})) |-> IF c = <<>> THEN " " ELSE c[1]]
RellenarDerecha(s, n, c) == LatCadena(s \o Relleno(s, n, c))
RellenarIzquierda(s, n, c) == LatCadena(Relleno(s, n, c) \o s)

-----------------------------------------------------------------------------
(* Letters.                                                                 *)
Parejas == {<<"a", "A">>, <<"b", "B">>}
Mayuscula(c) == IF \E p \in Parejas : p[1] = c THEN (CHOOSE p \in Parejas : p[1] = c)[2] ELSE c
Minuscula(c) == IF \E p \in Parejas : p[2] = c THEN (CHOOSE p \in Parejas : p[2] = c)[1] ELSE c

(* One pass with a flag: does a word begin here?                            *)
Pone(c, nueva) == IF nueva THEN Mayuscula(c) ELSE Minuscula(c)

RECURSIVE Titula(_, _, _)
Titula(s, i, nueva) ==
  IF i > Len(s) THEN <<>>
  ELSE IF s[i] \in {" ", "TAB", "LF", "CR"} THEN <<s[i]>> \o Titula(s, i + 1, TRUE)
  ELSE <<Pone(s[i], nueva)>> \o Titula(s, i + 1, FALSE)
Titulo(s) == LatCadena(Titula(s, 1, TRUE))

Capitalizar(s) == LatCadena([i \in DOMAIN s |-> Pone(s[i], i = 1)])

(* Blanks are skipped, a word is copied, and from the second on a space is  *)
(* put before it.                                                           *)
RECURSIVE Palabras(_, _, _)
Palabras(s, i, primera) ==
  LET ini == {k \in i .. Len(s) : s[k] \notin Espacios}
      fin == {k \in Min(ini) .. Len(s) : s[k] \in Espacios} \cup {Len(s) + 1}
  IN  IF ini = {} THEN <<>>
      ELSE (IF primera THEN <<>> ELSE <<" ">>)
           \o [k \in 1 .. Min(fin) - Min(ini) |-> Pone(s[Min(ini) + k - 1], k = 1)]
           \o Palabras(s, Min(fin), FALSE)
PalabrasCapital(s) == LatCadena(Palabras(s, 1, TRUE))

RECURSIVE SinIzquierda(_)
SinIzquierda(s) == IF s # <<>> /\ Head(s) \in Espacios THEN SinIzquierda(Tail(s)) ELSE s
RECURSIVE SinDerecha(_)
SinDerecha(s) == IF s # <<>> /\ Last(s) \in Espacios THEN SinDerecha(Front(s)) ELSE s
RecortarIzq(s) == LatCadena(SinIzquierda(s))
RecortarDer(s) == LatCadena(SinDerecha(s))
Recortar(s) == LatCadena(SinDerecha(SinIzquierda(s)))

-----------------------------------------------------------------------------
(* cadena.formatear(plantilla, valores), valores a list of texts.           *)
NumeroEscrito(s) ==   \* strtoul, without a sign
  LET n == {k \in 0 .. Len(s) : \A m \in 1 .. k : s[m] \in Digitos}
      valor[k \in 0 .. Len(s)] == IF k = 0 THEN 0 ELSE 10 * valor[k - 1] + Codigo[s[k]] - Codigo["0"]
  IN  valor[Max(n)]

RECURSIVE Formatea(_, _, _, _)
Formatea(p, vs, i, auto) ==
  LET cierre == Min({k \in i + 1 .. Len(p) : p[k] = "}"} \cup {Len(p) + 1})
      numero == SubSeq(p, i + 1, cierre - 1)
      idx    == IF numero = <<>> THEN auto ELSE NumeroEscrito(numero)
  IN  IF i > Len(p) THEN <<>>
      ELSE IF p[i] \in {"{", "}"} /\ En(p, i + 1) = p[i] THEN <<p[i]>> \o Formatea(p, vs, i + 2, auto)
      ELSE IF p[i] = "{" THEN
        (IF idx < Len(vs) THEN vs[idx + 1] ELSE <<>>)
        \o Formatea(p, vs, cierre + 1, IF numero = <<>> THEN auto + 1 ELSE auto)
      ELSE <<p[i]>> \o Formatea(p, vs, i + 1, auto)
Formatear(p, vs) == LatCadena(Formatea(p, vs, 1, 0))

(* cadena.plantilla_sustituir(plantilla, valores): `valores` gives a text   *)
(* to some names.  A name that it lacks stays as it is written (_seguro) or *)
(* ends the program.                                                        *)
RECURSIVE Sustituye(_, _, _, _)
Sustituye(p, dic, seguro, i) ==
  LET llaves == En(p, i + 1) = "{"
      ini    == IF llaves THEN i + 2 ELSE i + 1
      fin    == Min({k \in ini .. Len(p) : p[k] \notin Palabra} \cup {Len(p) + 1})
      nombre == SubSeq(p, ini, fin - 1)
      q      == IF llaves THEN fin + 1 ELSE fin
      empieza == En(p, i) = "$" /\ (llaves \/ En(p, i + 1) \in Letras \cup {"_"})
      con(t, k) == LET r == Sustituye(p, dic, seguro, k) IN IF r = Aborta THEN Aborta ELSE t \o r
  IN  IF i > Len(p) THEN <<>>
      ELSE IF p[i] = "$" /\ En(p, i + 1) = "$" THEN con(<<"$">>, i + 2)
      ELSE IF ~empieza \/ nombre = <<>> \/ (llaves /\ En(p, fin) # "}") THEN con(<<p[i]>>, i + 1)
      ELSE IF nombre \in DOMAIN dic THEN con(dic[nombre], q)
      ELSE IF seguro THEN con(SubSeq(p, i, q - 1), q)
      ELSE Aborta
PlantillaSustituir(p, dic, seguro) ==
  LET r == Sustituye(p, dic, seguro, 1) IN IF r = Aborta THEN Aborta ELSE LatCadena(r)
=============================================================================

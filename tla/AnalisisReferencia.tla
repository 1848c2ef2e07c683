------------------------- MODULE AnalisisReferencia -------------------------
(***************************************************************************)
(* What the parser of module Analisis should build, said without its       *)
(* machine: a program is read as the sequence of its tokens, an expression *)
(* is split at its main operator, and blocks and brackets are matched by   *)
(* one scan.                                                               *)
(***************************************************************************)
EXTENDS Analisis, TLC

(* The tokens of a text, up to the end of the file. *)
RECURSIVE TokensDesde(_, _)
TokensDesde(s, k) ==
    LET t == GetNextToken(s, k)
    IN  IF t.clase = "eof" THEN <<>> ELSE <<t>> \o TokensDesde(s, t.fin)
Tokens == TokensDesde(texto, 1)

-----------------------------------------------------------------------------
(* Expressions: q is a sequence of lexemes.  The main operator is the      *)
(* loosest one outside the brackets, the last of them when it associates   *)
(* to the left and the first when it associates to the right.              *)
NoEsArbol == <<"no">>
Lexemas(q) == [k \in DOMAIN q |-> q[k].lexema]

Operador1(q, k) == q[k] \in {"-", "+", "*", "^", "..", "<", "==", "&&", "||", "?", ":"}
Fuera(q, k) == /\ Cardinality({j \in 1..k : q[j] = "("}) = Cardinality({j \in 1..k : q[j] = ")"})
               /\ q[k] # ")"
(* A minus is binary when an operand ends before it. *)
EsBinario(q, k) == k > 1 /\ ~Operador1(q, k - 1) /\ q[k - 1] # "("

Niveles == << [ops |-> {"||"}, izq |-> TRUE], [ops |-> {"&&"}, izq |-> TRUE],
              [ops |-> {"<", "=="}, izq |-> TRUE], [ops |-> {".."}, izq |-> FALSE],
              [ops |-> {"+", "-"}, izq |-> TRUE], [ops |-> {"*"}, izq |-> TRUE] >>
Del(q, ops) == {k \in DOMAIN q : q[k] \in ops /\ Fuera(q, k) /\ EsBinario(q, k)}
Principal(S, izq) == CHOOSE k \in S : \A j \in S : IF izq THEN j <= k ELSE k <= j

(* The ':' of the '?' at p. *)
DosPuntos(q, p) ==
    {c \in (p + 1)..Len(q) :
        /\ q[c] = ":" /\ Fuera(q, c)
        /\ LET hay(x) == Cardinality({j \in (p + 1)..(c - 1) : q[j] = x /\ Fuera(q, j)})
           IN  hay(":") = hay("?")}

Nodo(n, hijos) == IF NoEsArbol \in Range(hijos) THEN NoEsArbol ELSE <<n>> \o hijos

RECURSIVE Arbol(_)
Arbol(q) ==
    LET n == Len(q)
        sub(a, b) == SubSeq(q, a, b)
        pregunta == Del(q, {"?"})
        nivel == {l \in DOMAIN Niveles : Del(q, Niveles[l].ops) # {}}
        exponente == Del(q, {"^"})
    IN  IF n = 0 THEN NoEsArbol
        ELSE IF pregunta # {}
        THEN LET p == Principal(pregunta, FALSE)
                 cs == DosPuntos(q, p)
             IN  IF cs = {} THEN NoEsArbol
                 ELSE LET c == Minimo(cs)
                      IN  Nodo("?", <<Arbol(sub(1, p - 1)), Arbol(sub(p + 1, c - 1)),
                                      Arbol(sub(c + 1, n))>>)
        ELSE IF nivel # {}
        THEN LET l == Minimo(nivel)
                 k == Principal(Del(q, Niveles[l].ops), Niveles[l].izq)
             IN  Nodo(q[k], <<Arbol(sub(1, k - 1)), Arbol(sub(k + 1, n))>>)
        ELSE IF q[1] = "-" THEN Nodo("-", <<Arbol(Tail(q))>>)
        ELSE IF exponente # {}
        THEN LET k == Principal(exponente, FALSE)
             IN  Nodo("^", <<Arbol(sub(1, k - 1)), Arbol(sub(k + 1, n))>>)
        ELSE IF q[n] = ")"
        THEN LET pares == {k \in 1..(n - 1) :
                             /\ q[k] = "("
                             /\ \A j \in (k + 1)..(n - 1) :
                                   Cardinality({i \in (k + 1)..j : q[i] = ")"})
                                     <= Cardinality({i \in (k + 1)..j : q[i] = "("})
                             /\ Cardinality({i \in k..n : q[i] = "("})
                                  = Cardinality({i \in k..n : q[i] = ")"})}
             IN  IF pares = {} THEN NoEsArbol
                 ELSE LET k == Minimo(pares)
                      IN  IF k = 1 THEN Arbol(sub(2, n - 1))
                          ELSE Nodo("llamada",
                                    <<Arbol(sub(1, k - 1)),
                                      IF k = n - 1 THEN <<"args">>
                                      ELSE Nodo("args", <<Arbol(sub(k + 1, n - 1))>>)>>)
        ELSE IF n = 1 /\ q[1] \notin {"(", ")"} /\ ~Operador1(q, 1) THEN <<"id", q[1]>>
        ELSE NoEsArbol

(* Precedence and associativity (parser.cpp:1038-1150, the comments of its *)
(* levels): a text of one expression is accepted exactly when it is one,   *)
(* and with the tree its main operators give.  A call binds tighter than   *)
(* every operator, a minus looser than '^' and tighter than '*', and the   *)
(* exponent may have a minus of its own.                                   *)
LexemasDeExpresion == {"a", "-", "+", "*", "^", "..", "<", "==", "&&", "||", "?", ":", "(", ")"}
PrecedenciaBien ==
    estado # "analiza" =>
      LET ts == Tokens
          q  == Lexemas(ts)
          a  == Arbol(q)
      IN  (/\ q # <<>> /\ Range(q) \subseteq LexemasDeExpresion
           /\ \A k \in DOMAIN ts : ts[k].clase # "cad")
          => IF estado = "acepta"
             THEN valores = << <<"programa", <<"expr", <<"expresiones", a>> >> >> >>
             ELSE a = NoEsArbol

-----------------------------------------------------------------------------
(* Blocks and brackets: one scan with the stack of what is open.           *)
Cierre == ("(" :> ")") @@ ("[" :> "]") @@ ("{" :> "}")
Cima1(st) == IF st = <<>> THEN "" ELSE st[Len(st)]
Previo(ts, k) == IF k > 1 THEN ts[k - 1].lexema ELSE ""

SinFin(ts, k, st) == \/ Cima1(st) \in {"externo", "interfaz"}
                     \/ Previo(ts, k) = "abstracto"
AbreBloque(ts, k, st) ==
    LET w == ts[k].lexema
    IN  \/ w \in {"si", "elegir", "mientras", "repetir", "para", "externo", "clase",
                  "estructura", "interfaz"}
        \/ w = "inseguro" /\ Previo(ts, k) \notin {"funcion", "fun"}
        \/ w = "desde" /\ k < Len(ts) /\ ts[k + 1].lexema = "("
        \/ w \in {"funcion", "fun"} /\ ~SinFin(ts, k, st)

(* The stack behind token k, or <<"no">> when the token does not fit. *)
TrasToken(ts, k, st) ==
    LET w == ts[k].lexema
        c == Cima1(st)
        cambia(x) == Append(Front(st), x)
    IN  IF ts[k].clase \in {"id", "num", "cad", "nl"} \/ Previo(ts, k) = "." THEN st
        ELSE IF w \in DOMAIN Cierre THEN Append(st, w)
        ELSE IF w \in Range(Cierre) THEN IF c \in DOMAIN Cierre /\ Cierre[c] = w THEN Front(st)
                                         ELSE NoEsArbol
        ELSE IF w = ";" THEN IF c = "(" /\ Cima1(Front(st)) = "desde" THEN st ELSE NoEsArbol
        ELSE IF AbreBloque(ts, k, st) THEN Append(st, w)
        ELSE IF w = "fin" THEN IF c \in {"", "repetir"} \cup DOMAIN Cierre THEN NoEsArbol
                               ELSE Front(st)
        ELSE IF w = "hasta" THEN IF c = "repetir" THEN Front(st) ELSE NoEsArbol
        ELSE IF w = "osi" THEN IF c = "si" THEN st ELSE NoEsArbol
        ELSE IF w = "sino" THEN IF c = "si" THEN cambia("sino") ELSE NoEsArbol
        ELSE IF w = "caso" THEN IF c = "elegir" THEN st ELSE NoEsArbol
        ELSE IF w \in {"defecto", "otro"} /\ Previo(ts, k) # "por"
        THEN IF c = "elegir" THEN cambia("defecto") ELSE NoEsArbol
        ELSE st

RECURSIVE Abiertos1(_, _)
Abiertos1(ts, k) ==
    IF k = 0 THEN <<>>
    ELSE LET st == Abiertos1(ts, k - 1)
         IN  IF st = NoEsArbol THEN st ELSE TrasToken(ts, k, st)

(* The names, numbers and strings of a tree, from left to right. *)
EsHoja(v) == v[1] \in {"id", "num", "cad", "res", "op"}
RECURSIVE Hojas(_)
Hojas(v) ==
    IF EsHoja(v) THEN IF v[1] \in {"id", "num", "cad"} THEN <<v>> ELSE <<>>
    ELSE FoldLeft(LAMBDA hs, k : hs \o Hojas(v[k]), <<>>, [k \in 1..(Len(v) - 1) |-> k + 1])

EnTexto(ts) == SelectSeq([k \in DOMAIN ts |->
                            IF Previo(ts, k) = "exportar" /\ ts[k].lexema = "por"
                            THEN <<"por">> ELSE <<ts[k].clase, ts[k].lexema>>],
                         LAMBDA v : v[1] \in {"id", "num", "cad"})

(* Every block and bracket of an accepted program is closed by the word    *)
(* that closes its kind, the branches are of the innermost si or elegir,   *)
(* a ';' stands only in the header of a desde (consumirFinDeSentencia lets *)
(* every statement end at one, parser.cpp:217), and the tree holds the     *)
(* names, numbers and strings of the text, each once and in its order.     *)
EstructuraBien ==
    estado = "acepta" => LET ts == Tokens
                         IN  /\ Abiertos1(ts, Len(ts)) = <<>>
                             /\ Len(valores) = 1
                             /\ Hojas(valores[1]) = EnTexto(ts)

(* The tree of an accepted text is the one its operators and its blocks    *)
(* make, and holds all of it.                                              *)
ArbolFiel == PrecedenciaBien /\ EstructuraBien

-----------------------------------------------------------------------------
(* Every token is the longest lexeme that begins where it does (a lexeme   *)
(* cut by two characters or less is one, or has no longer one), nothing    *)
(* but blanks and comments lies between two tokens, and, unless the lexer  *)
(* printed an error, an accepted program was read to the end of its text.  *)
(* After such an error the rest of the text is dropped and the program is  *)
(* compiled all the same (lexer.cpp:52, 127, 140, 217).                    *)
Escrito(t) == t.fin - (Len(t.lexema) + IF t.clase = "cad" THEN 2 ELSE 0)
LexicoFiel ==
    estado # "analiza" =>
      LET ts == Tokens
          antes(k) == IF k = 1 THEN 1 ELSE ts[k - 1].fin
      IN  /\ \A k \in {j \in DOMAIN ts : ts[j].clase # "nl"} :
                LET a == Escrito(ts[k])
                IN  /\ SkipEspaciosYComentarios(texto, antes(k)).pos = a
                    /\ ts[k].clase # "cad" =>
                         /\ EsLexema(SubSeq(texto, a, ts[k].fin - 1))
                         /\ \A f \in ts[k].fin..Len(texto) :
                              f <= ts[k].fin + 1 => ~EsLexema(SubSeq(texto, a, f))
          /\ (estado = "acepta" /\ ~roto) => pos = Len(texto) + 1
=============================================================================

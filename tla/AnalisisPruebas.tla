-------------------------- MODULE AnalisisPruebas --------------------------
(***************************************************************************)
(* Proofs about the parser: whatever the text is, no character of it is    *)
(* lost or read twice (NadaSePierde), in spite of the identifier that is   *)
(* taken to look behind it and of the '>=' that is split.                  *)
(***************************************************************************)
EXTENDS Analisis, SequenceTheorems, WellFoundedInduction, TLAPS

(* The parsing functions, and the levels of the expressions. *)
Funciones ==
    {"programa", "saltos", "sentencia", "finDeSentencia", "asignacionOExpr", "asignacion",
     "expresiones", "masExpresiones", "destinos", "anotada", "osis", "casos", "parametros",
     "parametro", "masParametros", "parametrosDeMetodo", "parametroDeMetodo",
     "masParametrosDeMetodo", "valorDeRetorno", "globalizable", "calificado",
     "argsTipoGenericos", "argTipo", "masArgsTipo", "parametrosGenericos", "paramGenerico",
     "masGenericos", "cotas", "cota", "masCotas", "clausulaDonde", "restriccion", "masDonde",
     "tipo", "tipoOpcional", "importado", "nombres", "nombre", "alias", "masNombres",
     "exportable", "declarable", "porDefecto", "enlace", "externas", "funcionExterna",
     "paramsFFI", "paramFFI", "masFFI", "tipoFFI", "retornoFFI", "claseAbstracta", "clase",
     "extiende", "implementa", "interfazDe", "masInterfaces", "miembros", "miembro",
     "miembroAbstracto", "miembroConcreto", "estructura", "miembrosDeEstructura", "interfaz",
     "firmas", "campo", "valorDeCampo", "metodo", "firma", "expresion", "unario", "primario",
     "nombreDeMiembro", "argsDescartados", "pares", "par", "masPares"}
Niveles == {"postfijo", "potencia", "multiplicativo", "aditivo", "concatenacion",
            "relacional", "es", "y", "o", "ternario"}

(* A symbol that holds no token: it calls a function of the parser or a    *)
(* level there is, or takes, builds or requires something.                 *)
SinToken(c) == /\ c[1] # "mirado"
               /\ c[1] = "llama" => c[2] \in Funciones
               /\ c[1] = "cola"  => c[2] \in Niveles

(* What is left to do, when none of it holds a token. *)
PorHacer(s) == /\ s \in Seq({s[k] : k \in 1..Len(s)})
               /\ \A k \in 1..Len(s) : SinToken(s[k])

Desde(k) == SubSeq(pila, k, Len(pila))

(* The identifier that parseAsignacionOExpr took is on top of the stack    *)
(* while the next token is looked at, or is the current token that is to   *)
(* be taken; no other place holds one.                                     *)
MiradoEnSuSitio ==
    \/ PorHacer(pila)
    \/ /\ pila = <<Avanza, <<"mirado", actual>> >> \o Desde(3)
       /\ PorHacer(Desde(3))
       /\ EsId /\ devuelto = <<>>
    \/ /\ pila = <<pila[1]>> \o Desde(2)
       /\ PorHacer(Desde(2))
       /\ pila[1] = <<"mirado", pila[1][2]>>
       /\ pila[1][2].clase = "id" /\ pila[1][2].fin = hasta
       /\ devuelto = <<>>

(* The calls that lead to the operand an expression begins with. *)
AlOperando ==
    LET hacia == {Llama("expresiones"), Llama("expresion"), Llama("unario"), Llama("primario")}
    IN  /\ pila # <<>> /\ PorHacer(pila)
        /\ \/ pila[1] \in hacia \cup {Llama("asignacion"), Hoja}
           \/ pila[1] = Abre /\ Len(pila) >= 2 /\ pila[2] \in hacia

(* A token is put back in front of an assignment or expression that begins *)
(* with an identifier: the next thing taken is that identifier, as a leaf. *)
DevueltoTrasId == devuelto # <<>> => EsId /\ AlOperando

Inv == NadaSePierde /\ MiradoEnSuSitio /\ DevueltoTrasId
-----------------------------------------------------------------------------
(* Lists of symbols. *)

(* A sequence of symbols none of which holds a token is left to do.        *)
LEMMA PorHacerSi ==
    ASSUME NEW S, NEW s \in Seq(S), \A c \in S : SinToken(c)
    PROVE  PorHacer(s)
<1>1. Len(s) \in Nat /\ \A k \in 1..Len(s) : s[k] \in S
  BY LenProperties, ElementOfSeq
<1>2. s = [k \in 1..Len(s) |-> s[k]]
  BY LenProperties
<1>3. s \in [1..Len(s) -> {s[k] : k \in 1..Len(s)}]
  BY <1>2
<1>4. s \in Seq({s[k] : k \in 1..Len(s)})
  BY <1>1, <1>3, SeqDef
<1> QED BY <1>1, <1>4 DEF PorHacer

(* Its symbols, as a set. *)
LEMMA PorHacerEs ==
    ASSUME NEW s, PorHacer(s)
    PROVE  \E S : s \in Seq(S) /\ \A c \in S : SinToken(c)
BY DEF PorHacer

(* Nothing, and one list behind another. *)
LEMMA NadaPorHacer == PorHacer(<<>>)
<1> DEFINE S == {}
<1>1. <<>> \in Seq(S) /\ \A c \in S : SinToken(c)
  BY EmptySeq
<1> HIDE DEF S
<1> QED BY <1>1, PorHacerSi

(* Work left followed by work left is work left.                           *)
LEMMA UnidosPorHacer ==
    ASSUME NEW s, NEW t, PorHacer(s), PorHacer(t)
    PROVE  PorHacer(s \o t)
<1>1. PICK S : s \in Seq(S) /\ \A c \in S : SinToken(c)
  BY PorHacerEs
<1>2. PICK U : t \in Seq(U) /\ \A c \in U : SinToken(c)
  BY PorHacerEs
<1> DEFINE V == S \cup U
<1>3. s \in Seq(V) /\ t \in Seq(V) /\ \A c \in V : SinToken(c)
  BY <1>1, <1>2, SeqDef
<1> HIDE DEF V
<1>4. s \o t \in Seq(V)
  BY <1>3, ConcatProperties
<1> QED BY <1>3, <1>4, PorHacerSi

(* What is left of a list when its first symbols are gone. *)
LEMMA ColaPorHacer ==
    ASSUME NEW s, PorHacer(s), NEW k \in 1..(Len(s) + 1)
    PROVE  PorHacer(SubSeq(s, k, Len(s)))
<1>1. PICK S : s \in Seq(S) /\ \A c \in S : SinToken(c)
  BY PorHacerEs
<1>2. SubSeq(s, k, Len(s)) \in Seq(S)
  BY <1>1, LenProperties, SubSeqProperties
<1> QED BY <1>1, <1>2, PorHacerSi

(* The rest of a list that is not empty, and its first symbol. *)
LEMMA RestoPorHacer ==
    ASSUME NEW s, PorHacer(s), s # <<>>
    PROVE  PorHacer(Tail(s)) /\ SinToken(s[1]) /\ s = <<s[1]>> \o Tail(s)
           /\ Len(s) \in Nat \ {0}
<1>1. PICK S : s \in Seq(S) /\ \A c \in S : SinToken(c)
  BY PorHacerEs
<1>2. Tail(s) \in Seq(S) /\ Len(s) \in Nat \ {0} /\ Head(s) = s[1] /\ Head(s) \in S
  BY <1>1, EmptySeq, HeadTailProperties, LenProperties
<1>3. s = <<s[1]>> \o Tail(s)
  BY <1>1, <1>2
<1> QED BY <1>1, <1>2, <1>3, PorHacerSi

(* Lists that are written out. *)
(* One symbol. *)
LEMMA Lista1 ==
    ASSUME NEW a,
           SinToken(a)
    PROVE  PorHacer(<<a>>)
<1> DEFINE S == {a}
<1>1. <<a>> \in Seq(S) /\ \A x \in S : SinToken(x)
  OBVIOUS
<1> HIDE DEF S
<1> QED BY <1>1, PorHacerSi

(* Two symbols. *)
LEMMA Lista2 ==
    ASSUME NEW a, NEW b,
           SinToken(a), SinToken(b)
    PROVE  PorHacer(<<a, b>>)
<1> DEFINE S == {a, b}
<1>1. <<a, b>> \in Seq(S) /\ \A x \in S : SinToken(x)
  OBVIOUS
<1> HIDE DEF S
<1> QED BY <1>1, PorHacerSi

(* Three symbols. *)
LEMMA Lista3 ==
    ASSUME NEW a, NEW b, NEW c,
           SinToken(a), SinToken(b), SinToken(c)
    PROVE  PorHacer(<<a, b, c>>)
<1> DEFINE S == {a, b, c}
<1>1. <<a, b, c>> \in Seq(S) /\ \A x \in S : SinToken(x)
  OBVIOUS
<1> HIDE DEF S
<1> QED BY <1>1, PorHacerSi

(* Four symbols. *)
LEMMA Lista4 ==
    ASSUME NEW a, NEW b, NEW c, NEW d,
           SinToken(a), SinToken(b), SinToken(c), SinToken(d)
    PROVE  PorHacer(<<a, b, c, d>>)
<1> DEFINE S == {a, b, c, d}
<1>1. <<a, b, c, d>> \in Seq(S) /\ \A x \in S : SinToken(x)
  OBVIOUS
<1> HIDE DEF S
<1> QED BY <1>1, PorHacerSi

(* Five symbols. *)
LEMMA Lista5 ==
    ASSUME NEW a, NEW b, NEW c, NEW d, NEW e,
           SinToken(a), SinToken(b), SinToken(c), SinToken(d), SinToken(e)
    PROVE  PorHacer(<<a, b, c, d, e>>)
<1> DEFINE S == {a, b, c, d, e}
<1>1. <<a, b, c, d, e>> \in Seq(S) /\ \A x \in S : SinToken(x)
  OBVIOUS
<1> HIDE DEF S
<1> QED BY <1>1, PorHacerSi

(* Six symbols. *)
LEMMA Lista6 ==
    ASSUME NEW a, NEW b, NEW c, NEW d, NEW e, NEW f,
           SinToken(a), SinToken(b), SinToken(c), SinToken(d), SinToken(e),
           SinToken(f)
    PROVE  PorHacer(<<a, b, c, d, e, f>>)
<1> DEFINE S == {a, b, c, d, e, f}
<1>1. <<a, b, c, d, e, f>> \in Seq(S) /\ \A x \in S : SinToken(x)
  OBVIOUS
<1> HIDE DEF S
<1> QED BY <1>1, PorHacerSi

(* Seven symbols. *)
LEMMA Lista7 ==
    ASSUME NEW a, NEW b, NEW c, NEW d, NEW e, NEW f, NEW g,
           SinToken(a), SinToken(b), SinToken(c), SinToken(d), SinToken(e),
           SinToken(f), SinToken(g)
    PROVE  PorHacer(<<a, b, c, d, e, f, g>>)
<1> DEFINE S == {a, b, c, d, e, f, g}
<1>1. <<a, b, c, d, e, f, g>> \in Seq(S) /\ \A x \in S : SinToken(x)
  OBVIOUS
<1> HIDE DEF S
<1> QED BY <1>1, PorHacerSi

(* Eight symbols. *)
LEMMA Lista8 ==
    ASSUME NEW a, NEW b, NEW c, NEW d, NEW e, NEW f, NEW g, NEW h,
           SinToken(a), SinToken(b), SinToken(c), SinToken(d), SinToken(e),
           SinToken(f), SinToken(g), SinToken(h)
    PROVE  PorHacer(<<a, b, c, d, e, f, g, h>>)
<1> DEFINE S == {a, b, c, d, e, f, g, h}
<1>1. <<a, b, c, d, e, f, g, h>> \in Seq(S) /\ \A x \in S : SinToken(x)
  OBVIOUS
<1> HIDE DEF S
<1> QED BY <1>1, PorHacerSi

(* Nine symbols. *)
LEMMA Lista9 ==
    ASSUME NEW a, NEW b, NEW c, NEW d, NEW e, NEW f, NEW g, NEW h, NEW i,
           SinToken(a), SinToken(b), SinToken(c), SinToken(d), SinToken(e),
           SinToken(f), SinToken(g), SinToken(h), SinToken(i)
    PROVE  PorHacer(<<a, b, c, d, e, f, g, h, i>>)
<1> DEFINE S == {a, b, c, d, e, f, g, h, i}
<1>1. <<a, b, c, d, e, f, g, h, i>> \in Seq(S) /\ \A x \in S : SinToken(x)
  OBVIOUS
<1> HIDE DEF S
<1> QED BY <1>1, PorHacerSi

(* Ten symbols. *)
LEMMA Lista10 ==
    ASSUME NEW a, NEW b, NEW c, NEW d, NEW e, NEW f, NEW g, NEW h, NEW i,
           NEW j,
           SinToken(a), SinToken(b), SinToken(c), SinToken(d), SinToken(e),
           SinToken(f), SinToken(g), SinToken(h), SinToken(i), SinToken(j)
    PROVE  PorHacer(<<a, b, c, d, e, f, g, h, i, j>>)
<1> DEFINE S == {a, b, c, d, e, f, g, h, i, j}
<1>1. <<a, b, c, d, e, f, g, h, i, j>> \in Seq(S) /\ \A x \in S : SinToken(x)
  OBVIOUS
<1> HIDE DEF S
<1> QED BY <1>1, PorHacerSi

(* Twelve symbols. *)
LEMMA Lista12 ==
    ASSUME NEW a, NEW b, NEW c, NEW d, NEW e, NEW f, NEW g, NEW h, NEW i,
           NEW j, NEW k, NEW l,
           SinToken(a), SinToken(b), SinToken(c), SinToken(d), SinToken(e),
           SinToken(f), SinToken(g), SinToken(h), SinToken(i), SinToken(j),
           SinToken(k), SinToken(l)
    PROVE  PorHacer(<<a, b, c, d, e, f, g, h, i, j, k, l>>)
<1> DEFINE S == {a, b, c, d, e, f, g, h, i, j, k, l}
<1>1. <<a, b, c, d, e, f, g, h, i, j, k, l>> \in Seq(S) /\ \A x \in S : SinToken(x)
  OBVIOUS
<1> HIDE DEF S
<1> QED BY <1>1, PorHacerSi

(* Fourteen symbols. *)
LEMMA Lista14 ==
    ASSUME NEW a, NEW b, NEW c, NEW d, NEW e, NEW f, NEW g, NEW h, NEW i,
           NEW j, NEW k, NEW l, NEW m, NEW n,
           SinToken(a), SinToken(b), SinToken(c), SinToken(d), SinToken(e),
           SinToken(f), SinToken(g), SinToken(h), SinToken(i), SinToken(j),
           SinToken(k), SinToken(l), SinToken(m), SinToken(n)
    PROVE  PorHacer(<<a, b, c, d, e, f, g, h, i, j, k, l, m, n>>)
<1> DEFINE S == {a, b, c, d, e, f, g, h, i, j, k, l, m, n}
<1>1. <<a, b, c, d, e, f, g, h, i, j, k, l, m, n>> \in Seq(S) /\ \A x \in S : SinToken(x)
  OBVIOUS
<1> HIDE DEF S
<1> QED BY <1>1, PorHacerSi

(* The symbols the productions are made of hold no token. *)
LEMMA SimbolosSinToken ==
    /\ SinToken(Avanza) /\ SinToken(Hoja) /\ SinToken(Abre)
    /\ SinToken(<<"angulo">>) /\ SinToken(<<"error">>)
    /\ \A x : /\ SinToken(Palabra1(x)) /\ SinToken(Clase(x)) /\ SinToken(Opcional(x))
             /\ SinToken(Cierra(x)) /\ SinToken(Marca(x)) /\ SinToken(Bloque(x))
             /\ SinToken(<<"lista", x>>) /\ SinToken(<<"elementos", x>>)
             /\ SinToken(<<"mas", x>>) /\ SinToken(<<"sentencias", x>>)
             /\ \A k : SinToken(Une(x, k))
BY DEF SinToken, Avanza, Hoja, Abre, Palabra1, Clase, Opcional, Cierra, Marca, Bloque, Une

(* The tails of the levels. *)
LEMMA ColasSinToken ==
    /\ SinToken(Cola("postfijo")) /\ SinToken(Cola("potencia")) /\ SinToken(Cola("multiplicativo"))
    /\ SinToken(Cola("aditivo")) /\ SinToken(Cola("concatenacion")) /\ SinToken(Cola("relacional"))
    /\ SinToken(Cola("es")) /\ SinToken(Cola("y")) /\ SinToken(Cola("o"))
    /\ SinToken(Cola("ternario"))
BY DEF SinToken, Cola, Niveles

(* The calls of the parsing functions. *)
LEMMA LlamasSinToken ==
    /\ SinToken(Llama("programa")) /\ SinToken(Llama("saltos"))
    /\ SinToken(Llama("sentencia")) /\ SinToken(Llama("finDeSentencia"))
    /\ SinToken(Llama("asignacionOExpr")) /\ SinToken(Llama("asignacion"))
    /\ SinToken(Llama("expresiones")) /\ SinToken(Llama("masExpresiones"))
    /\ SinToken(Llama("destinos")) /\ SinToken(Llama("anotada"))
    /\ SinToken(Llama("osis")) /\ SinToken(Llama("casos"))
    /\ SinToken(Llama("parametros")) /\ SinToken(Llama("parametro"))
    /\ SinToken(Llama("masParametros")) /\ SinToken(Llama("parametrosDeMetodo"))
    /\ SinToken(Llama("parametroDeMetodo")) /\ SinToken(Llama("masParametrosDeMetodo"))
    /\ SinToken(Llama("valorDeRetorno")) /\ SinToken(Llama("globalizable"))
    /\ SinToken(Llama("calificado")) /\ SinToken(Llama("argsTipoGenericos"))
    /\ SinToken(Llama("argTipo")) /\ SinToken(Llama("masArgsTipo"))
    /\ SinToken(Llama("parametrosGenericos")) /\ SinToken(Llama("paramGenerico"))
    /\ SinToken(Llama("masGenericos")) /\ SinToken(Llama("cotas"))
    /\ SinToken(Llama("cota")) /\ SinToken(Llama("masCotas"))
    /\ SinToken(Llama("clausulaDonde")) /\ SinToken(Llama("restriccion"))
    /\ SinToken(Llama("masDonde")) /\ SinToken(Llama("tipo"))
    /\ SinToken(Llama("tipoOpcional")) /\ SinToken(Llama("importado"))
    /\ SinToken(Llama("nombres")) /\ SinToken(Llama("nombre"))
    /\ SinToken(Llama("alias")) /\ SinToken(Llama("masNombres"))
    /\ SinToken(Llama("exportable")) /\ SinToken(Llama("declarable"))
    /\ SinToken(Llama("porDefecto")) /\ SinToken(Llama("enlace"))
    /\ SinToken(Llama("externas")) /\ SinToken(Llama("funcionExterna"))
    /\ SinToken(Llama("paramsFFI")) /\ SinToken(Llama("paramFFI"))
    /\ SinToken(Llama("masFFI")) /\ SinToken(Llama("tipoFFI"))
    /\ SinToken(Llama("retornoFFI")) /\ SinToken(Llama("claseAbstracta"))
    /\ SinToken(Llama("clase")) /\ SinToken(Llama("extiende"))
    /\ SinToken(Llama("implementa")) /\ SinToken(Llama("interfazDe"))
    /\ SinToken(Llama("masInterfaces")) /\ SinToken(Llama("miembros"))
    /\ SinToken(Llama("miembro")) /\ SinToken(Llama("miembroAbstracto"))
    /\ SinToken(Llama("miembroConcreto")) /\ SinToken(Llama("estructura"))
    /\ SinToken(Llama("miembrosDeEstructura")) /\ SinToken(Llama("interfaz"))
    /\ SinToken(Llama("firmas")) /\ SinToken(Llama("campo"))
    /\ SinToken(Llama("valorDeCampo")) /\ SinToken(Llama("metodo"))
    /\ SinToken(Llama("firma")) /\ SinToken(Llama("expresion"))
    /\ SinToken(Llama("unario")) /\ SinToken(Llama("primario"))
    /\ SinToken(Llama("nombreDeMiembro")) /\ SinToken(Llama("argsDescartados"))
    /\ SinToken(Llama("pares")) /\ SinToken(Llama("par"))
    /\ SinToken(Llama("masPares"))
BY DEF SinToken, Llama, Funciones

-----------------------------------------------------------------------------
(* The productions, whatever the current token is. *)

(* The productions of the types and the generics. *)
LEMMA TiposPorHacer ==
    /\ PorHacer(Rechazo) /\ PorHacer(NombreTipoCalificado)
    /\ PorHacer(Calificado) /\ PorHacer(ArgsTipoGenericos)
    /\ PorHacer(ArgsDescartados) /\ PorHacer(ArgTipo)
    /\ PorHacer(MasArgsTipo) /\ PorHacer(ParametrosGenericos)
    /\ PorHacer(ParamGenerico) /\ PorHacer(MasGenericos)
    /\ PorHacer(Cotas) /\ PorHacer(Cota)
    /\ PorHacer(MasCotas) /\ PorHacer(ClausulaDonde)
    /\ PorHacer(Restriccion) /\ PorHacer(MasDonde)
    /\ PorHacer(Tipo) /\ PorHacer(TipoOpcional)
<1>1. PorHacer(Rechazo)
  BY Lista1, SimbolosSinToken DEF Rechazo
<1>2. PorHacer(NombreTipoCalificado)
  BY Lista3, SimbolosSinToken, LlamasSinToken DEF NombreTipoCalificado
<1>3. PorHacer(Calificado)
  BY Lista1, Lista3, SimbolosSinToken, LlamasSinToken DEF Calificado
<1>4. PorHacer(ArgsTipoGenericos)
  BY NadaPorHacer, Lista3, SimbolosSinToken, LlamasSinToken DEF ArgsTipoGenericos
<1>5. PorHacer(ArgsDescartados)
  BY <1>4, NadaPorHacer, Lista1, UnidosPorHacer, SimbolosSinToken DEF ArgsDescartados
<1>6. PorHacer(ArgTipo)
  BY <1>2, Lista1, UnidosPorHacer, LlamasSinToken DEF ArgTipo
<1>7. PorHacer(MasArgsTipo)
  BY Lista2, SimbolosSinToken, LlamasSinToken DEF MasArgsTipo
<1>8. PorHacer(ParametrosGenericos)
  BY NadaPorHacer, Lista3, SimbolosSinToken, LlamasSinToken DEF ParametrosGenericos
<1>9. PorHacer(ParamGenerico)
  BY Lista3, SimbolosSinToken, LlamasSinToken DEF ParamGenerico
<1>10. PorHacer(MasGenericos)
  BY Lista2, SimbolosSinToken, LlamasSinToken DEF MasGenericos
<1>11. PorHacer(Cotas)
  BY NadaPorHacer, Lista3, SimbolosSinToken, LlamasSinToken DEF Cotas
<1>12. PorHacer(Cota)
  BY Lista2, SimbolosSinToken, LlamasSinToken DEF Cota
<1>13. PorHacer(MasCotas)
  BY Lista1, Lista2, SimbolosSinToken, LlamasSinToken DEF MasCotas
<1>14. PorHacer(ClausulaDonde)
  BY NadaPorHacer, Lista2, SimbolosSinToken, LlamasSinToken DEF ClausulaDonde
<1>15. PorHacer(Restriccion)
  BY <1>1, Lista5, SimbolosSinToken, LlamasSinToken DEF Restriccion
<1>16. PorHacer(MasDonde)
  BY NadaPorHacer, Lista2, SimbolosSinToken, LlamasSinToken DEF MasDonde
<1>17. PorHacer(Tipo)
  BY <1>1, <1>2, Lista1, UnidosPorHacer, SimbolosSinToken, LlamasSinToken DEF Tipo
<1>18. PorHacer(TipoOpcional)
  BY NadaPorHacer, Lista2, SimbolosSinToken, LlamasSinToken DEF TipoOpcional
<1> QED BY <1>1, <1>2, <1>3, <1>4, <1>5, <1>6, <1>7, <1>8, <1>9, <1>10, <1>11, <1>12,
       <1>13, <1>14, <1>15, <1>16, <1>17, <1>18

(* A list of parameters. *)
LEMMA ParametrosPorHacer ==
    ASSUME NEW m, NEW s, SinToken(m), SinToken(Llama(s))
    PROVE  PorHacer(ParseParametros(m, s))
BY Lista1, Lista3, SimbolosSinToken, LlamasSinToken DEF ParseParametros

(* The productions of the statements. *)
LEMMA SentenciasPorHacer ==
    /\ PorHacer(FinDeSentencia) /\ PorHacer(Saltos)
    /\ PorHacer(Programa) /\ PorHacer(Anotada)
    /\ PorHacer(Asignacion) /\ PorHacer(Expresiones)
    /\ PorHacer(MasExpresiones) /\ PorHacer(Destinos)
    /\ PorHacer(SentenciaSimple) /\ PorHacer(ParseSi)
    /\ PorHacer(Osis) /\ PorHacer(ParseElegir)
    /\ PorHacer(Casos) /\ PorHacer(ParseDesde)
    /\ PorHacer(ParsePara) /\ PorHacer(ParseMientras)
    /\ PorHacer(ParseRepetir) /\ PorHacer(Parametros)
    /\ PorHacer(MasParametros) /\ PorHacer(ParametrosDeMetodo)
    /\ PorHacer(MasParametrosDeMetodo) /\ PorHacer(ParseFuncion)
    /\ PorHacer(FuncionAnonima) /\ PorHacer(ParseRetornar)
    /\ PorHacer(ValorDeRetorno) /\ PorHacer(ParseRomper)
    /\ PorHacer(ParseIncluir) /\ PorHacer(ParseVar)
    /\ PorHacer(ParseConst) /\ PorHacer(ParseGlobal)
    /\ PorHacer(Globalizable) /\ PorHacer(ParseInseguro)
<1>1. PorHacer(FinDeSentencia)
  BY TiposPorHacer, NadaPorHacer, Lista1, SimbolosSinToken DEF FinDeSentencia
<1>2. PorHacer(Saltos)
  BY NadaPorHacer, Lista2, SimbolosSinToken, LlamasSinToken DEF Saltos
<1>3. PorHacer(Programa)
  BY Lista1, Lista3, SimbolosSinToken, LlamasSinToken DEF Programa
<1>4. PorHacer(Anotada)
  BY TiposPorHacer, Lista5, SimbolosSinToken, LlamasSinToken DEF Anotada
<1>5. PorHacer(Asignacion)
  BY Lista3, SimbolosSinToken, LlamasSinToken DEF Asignacion
<1>6. PorHacer(Expresiones)
  BY Lista3, SimbolosSinToken, LlamasSinToken DEF Expresiones
<1>7. PorHacer(MasExpresiones)
  BY Lista1, Lista3, SimbolosSinToken, LlamasSinToken DEF MasExpresiones
<1>8. PorHacer(Destinos)
  BY TiposPorHacer, Lista1, Lista3, SimbolosSinToken, LlamasSinToken DEF Destinos
<1>9. PorHacer(SentenciaSimple)
  BY Lista2, LlamasSinToken DEF SentenciaSimple
<1>10. PorHacer(ParseSi)
  BY Lista5, SimbolosSinToken, LlamasSinToken DEF ParseSi
<1>11. PorHacer(Osis)
  BY Lista2, Lista4, Lista6, SimbolosSinToken, LlamasSinToken DEF Osis
<1>12. PorHacer(ParseElegir)
  BY Lista5, SimbolosSinToken, LlamasSinToken DEF ParseElegir
<1>13. PorHacer(Casos)
  BY Lista2, Lista5, Lista7, SimbolosSinToken, LlamasSinToken DEF Casos
<1>14. PorHacer(ParseDesde)
  BY Lista12, SimbolosSinToken, LlamasSinToken DEF ParseDesde
<1>15. PorHacer(ParsePara)
  BY Lista8, SimbolosSinToken, LlamasSinToken DEF ParsePara
<1>16. PorHacer(ParseMientras)
  BY Lista6, SimbolosSinToken, LlamasSinToken DEF ParseMientras
<1>17. PorHacer(ParseRepetir)
  BY Lista7, SimbolosSinToken, LlamasSinToken DEF ParseRepetir
<1>18. PorHacer(Parametros)
  BY NadaPorHacer, ParametrosPorHacer, SimbolosSinToken, LlamasSinToken DEF Parametros
<1>19. PorHacer(MasParametros)
  BY NadaPorHacer, Lista2, SimbolosSinToken, LlamasSinToken DEF MasParametros
<1>20. PorHacer(ParametrosDeMetodo)
  BY NadaPorHacer, ParametrosPorHacer, SimbolosSinToken, LlamasSinToken
     DEF ParametrosDeMetodo
<1>21. PorHacer(MasParametrosDeMetodo)
  BY NadaPorHacer, Lista2, SimbolosSinToken, LlamasSinToken DEF MasParametrosDeMetodo
<1>22. PorHacer(ParseFuncion)
  BY Lista14, SimbolosSinToken, LlamasSinToken DEF ParseFuncion
<1>23. PorHacer(FuncionAnonima)
  BY Lista8, SimbolosSinToken, LlamasSinToken DEF FuncionAnonima
<1>24. PorHacer(ParseRetornar)
  BY Lista5, SimbolosSinToken, LlamasSinToken DEF ParseRetornar
<1>25. PorHacer(ValorDeRetorno)
  BY NadaPorHacer, Lista1, LlamasSinToken DEF ValorDeRetorno
<1>26. PorHacer(ParseRomper)
  BY Lista4, SimbolosSinToken, LlamasSinToken DEF ParseRomper
<1>27. PorHacer(ParseIncluir)
  BY Lista5, SimbolosSinToken, LlamasSinToken DEF ParseIncluir
<1>28. PorHacer(ParseVar)
  BY Lista4, SimbolosSinToken, LlamasSinToken DEF ParseVar
<1>29. PorHacer(ParseConst)
  BY Lista4, SimbolosSinToken, LlamasSinToken DEF ParseConst
<1>30. PorHacer(ParseGlobal)
  BY Lista2, SimbolosSinToken, LlamasSinToken DEF ParseGlobal
<1>31. PorHacer(Globalizable)
  BY <1>22, Lista1, Lista3, UnidosPorHacer, SimbolosSinToken, LlamasSinToken
     DEF Globalizable
<1>32. PorHacer(ParseInseguro)
  BY Lista5, SimbolosSinToken DEF ParseInseguro
<1> QED BY <1>1, <1>2, <1>3, <1>4, <1>5, <1>6, <1>7, <1>8, <1>9, <1>10, <1>11, <1>12,
       <1>13, <1>14, <1>15, <1>16, <1>17, <1>18, <1>19, <1>20, <1>21, <1>22, <1>23,
       <1>24, <1>25, <1>26, <1>27, <1>28, <1>29, <1>30, <1>31, <1>32

(* The productions of the modules and the foreign functions. *)
LEMMA ModulosPorHacer ==
    /\ PorHacer(ParseImportar) /\ PorHacer(Importado)
    /\ PorHacer(Nombres) /\ PorHacer(Nombre)
    /\ PorHacer(Alias) /\ PorHacer(MasNombres)
    /\ PorHacer(ParseExportar) /\ PorHacer(Declarable)
    /\ PorHacer(Exportable) /\ PorHacer(PorDefecto)
    /\ PorHacer(ParseExterno) /\ PorHacer(Enlace)
    /\ PorHacer(Externas) /\ PorHacer(FuncionExterna)
    /\ PorHacer(ParamsFFI) /\ PorHacer(ParamFFI)
    /\ PorHacer(MasFFI) /\ PorHacer(TipoFFI)
    /\ PorHacer(RetornoFFI)
<1>1. PorHacer(ParseImportar)
  BY Lista7, SimbolosSinToken, LlamasSinToken DEF ParseImportar
<1>2. PorHacer(Importado)
  BY Lista1, Lista3, SimbolosSinToken, LlamasSinToken DEF Importado
<1>3. PorHacer(Nombres)
  BY Lista1, SimbolosSinToken, LlamasSinToken DEF Nombres
<1>4. PorHacer(Nombre)
  BY Lista6, SimbolosSinToken, LlamasSinToken DEF Nombre
<1>5. PorHacer(Alias)
  BY NadaPorHacer, Lista2, SimbolosSinToken DEF Alias
<1>6. PorHacer(MasNombres)
  BY Lista1, Lista3, SimbolosSinToken, LlamasSinToken DEF MasNombres
<1>7. PorHacer(ParseExportar)
  BY Lista2, SimbolosSinToken, LlamasSinToken DEF ParseExportar
<1>8. PorHacer(Declarable)
  BY SentenciasPorHacer, Lista1, Lista2, SimbolosSinToken, LlamasSinToken DEF Declarable
<1>9. PorHacer(Exportable)
  BY Lista2, Lista3, Lista8, SimbolosSinToken, LlamasSinToken DEF Exportable
<1>10. PorHacer(PorDefecto)
  BY TiposPorHacer, Lista2, Lista5, SimbolosSinToken, LlamasSinToken DEF PorDefecto
<1>11. PorHacer(ParseExterno)
  BY Lista6, SimbolosSinToken, LlamasSinToken DEF ParseExterno
<1>12. PorHacer(Enlace)
  BY NadaPorHacer, Lista2, SimbolosSinToken DEF Enlace
<1>13. PorHacer(Externas)
  BY Lista2, Lista3, SimbolosSinToken, LlamasSinToken DEF Externas
<1>14. PorHacer(FuncionExterna)
  BY TiposPorHacer, Lista9, SimbolosSinToken, LlamasSinToken DEF FuncionExterna
<1>15. PorHacer(ParamsFFI)
  BY NadaPorHacer, Lista1, LlamasSinToken DEF ParamsFFI
<1>16. PorHacer(ParamFFI)
  BY Lista4, SimbolosSinToken, LlamasSinToken DEF ParamFFI
<1>17. PorHacer(MasFFI)
  BY NadaPorHacer, Lista2, SimbolosSinToken, LlamasSinToken DEF MasFFI
<1>18. PorHacer(TipoFFI)
  BY TiposPorHacer, Lista1, SimbolosSinToken DEF TipoFFI
<1>19. PorHacer(RetornoFFI)
  BY NadaPorHacer, Lista2, SimbolosSinToken, LlamasSinToken DEF RetornoFFI
<1> QED BY <1>1, <1>2, <1>3, <1>4, <1>5, <1>6, <1>7, <1>8, <1>9, <1>10, <1>11, <1>12,
       <1>13, <1>14, <1>15, <1>16, <1>17, <1>18, <1>19

(* The productions of the classes, structures and interfaces. *)
LEMMA ClasesPorHacer ==
    /\ PorHacer(ClaseAbstracta) /\ PorHacer(ParseClase)
    /\ PorHacer(Extiende) /\ PorHacer(Implementa)
    /\ PorHacer(InterfazDe) /\ PorHacer(MasInterfaces)
    /\ PorHacer(Miembros) /\ PorHacer(Miembro)
    /\ PorHacer(ParseEstructura) /\ PorHacer(MiembrosDeEstructura)
    /\ PorHacer(ParseInterfaz) /\ PorHacer(Firmas)
    /\ PorHacer(CampoDef) /\ PorHacer(ValorDeCampo)
    /\ PorHacer(LlamadaBase) /\ PorHacer(ParseNuevo)
<1>1. PorHacer(ClaseAbstracta)
  BY TiposPorHacer, Lista2, SimbolosSinToken, LlamasSinToken DEF ClaseAbstracta
<1>2. PorHacer(ParseClase)
  BY Lista9, SimbolosSinToken, LlamasSinToken DEF ParseClase
<1>3. PorHacer(Extiende)
  BY TiposPorHacer, NadaPorHacer, Lista1, UnidosPorHacer, SimbolosSinToken,
     LlamasSinToken DEF Extiende
<1>4. PorHacer(Implementa)
  BY NadaPorHacer, Lista2, SimbolosSinToken, LlamasSinToken DEF Implementa
<1>5. PorHacer(InterfazDe)
  BY TiposPorHacer, Lista2, UnidosPorHacer, LlamasSinToken DEF InterfazDe
<1>6. PorHacer(MasInterfaces)
  BY NadaPorHacer, Lista2, SimbolosSinToken, LlamasSinToken DEF MasInterfaces
<1>7. PorHacer(Miembros)
  BY Lista1, Lista7, SimbolosSinToken, LlamasSinToken DEF Miembros
<1>8. PorHacer(Miembro)
  BY Lista1, Lista2, SimbolosSinToken, LlamasSinToken DEF Miembro
<1>9. PorHacer(ParseEstructura)
  BY Lista7, SimbolosSinToken, LlamasSinToken DEF ParseEstructura
<1>10. PorHacer(MiembrosDeEstructura)
  BY Lista1, Lista7, SimbolosSinToken, LlamasSinToken DEF MiembrosDeEstructura
<1>11. PorHacer(ParseInterfaz)
  BY Lista7, SimbolosSinToken, LlamasSinToken DEF ParseInterfaz
<1>12. PorHacer(Firmas)
  BY TiposPorHacer, Lista1, Lista3, SimbolosSinToken, LlamasSinToken DEF Firmas
<1>13. PorHacer(CampoDef)
  BY Lista7, SimbolosSinToken, LlamasSinToken DEF CampoDef
<1>14. PorHacer(ValorDeCampo)
  BY NadaPorHacer, Lista2, SimbolosSinToken, LlamasSinToken DEF ValorDeCampo
<1>15. PorHacer(LlamadaBase)
  BY Lista6, SimbolosSinToken, LlamasSinToken DEF LlamadaBase
<1>16. PorHacer(ParseNuevo)
  BY TiposPorHacer, Lista2, Lista4, UnidosPorHacer, SimbolosSinToken,
     LlamasSinToken DEF ParseNuevo
<1> QED BY <1>1, <1>2, <1>3, <1>4, <1>5, <1>6, <1>7, <1>8, <1>9, <1>10, <1>11, <1>12,
       <1>13, <1>14, <1>15, <1>16

(* A loop of the expressions. *)
LEMMA ColaIzquierdaPorHacer ==
    ASSUME NEW s, NEW o, PorHacer(s), SinToken(Cola(o))
    PROVE  PorHacer(ColaIzquierda(s, o))
<1>1. PorHacer(<<Avanza>>) /\ PorHacer(<<Une(actual.lexema, 2), Cola(o)>>)
  BY Lista1, Lista2, SimbolosSinToken
<1>2. PorHacer(<<Avanza>> \o s)
  BY <1>1, UnidosPorHacer
<1> QED BY <1>1, <1>2, UnidosPorHacer DEF ColaIzquierda

(* The productions of the expressions. *)
LEMMA ExpresionesPorHacer ==
    /\ PorHacer(ParseUnario) /\ PorHacer(ParseMultiplicativo)
    /\ PorHacer(ParseAditivo) /\ PorHacer(ParseConcatenacion)
    /\ PorHacer(ParseRelacional) /\ PorHacer(ParseY)
    /\ PorHacer(ParseO) /\ PorHacer(ParseTernario)
    /\ PorHacer(ColaPostfijo) /\ PorHacer(NombreDeMiembro)
    /\ PorHacer(ColaMultiplicativo) /\ PorHacer(ColaAditivo)
    /\ PorHacer(ColaRelacional) /\ PorHacer(ColaY)
    /\ PorHacer(ColaO) /\ PorHacer(ColaPotencia)
    /\ PorHacer(ColaConcatenacion) /\ PorHacer(ColaEs)
    /\ PorHacer(ColaTernario) /\ PorHacer(ParsePrimario)
    /\ PorHacer(Pares) /\ PorHacer(Par)
    /\ PorHacer(MasPares)
<1>1. PorHacer(ParseUnario)
  BY Lista3, SimbolosSinToken, LlamasSinToken, ColasSinToken DEF ParseUnario
<1>2. PorHacer(ParseMultiplicativo)
  BY Lista2, LlamasSinToken, ColasSinToken DEF ParseMultiplicativo
<1>3. PorHacer(ParseAditivo)
  BY <1>2, Lista1, UnidosPorHacer, ColasSinToken DEF ParseAditivo
<1>4. PorHacer(ParseConcatenacion)
  BY <1>3, Lista1, UnidosPorHacer, ColasSinToken DEF ParseConcatenacion
<1>5. PorHacer(ParseRelacional)
  BY <1>4, Lista2, UnidosPorHacer, ColasSinToken DEF ParseRelacional
<1>6. PorHacer(ParseY)
  BY <1>5, Lista1, UnidosPorHacer, ColasSinToken DEF ParseY
<1>7. PorHacer(ParseO)
  BY <1>6, Lista1, UnidosPorHacer, ColasSinToken DEF ParseO
<1>8. PorHacer(ParseTernario)
  BY <1>7, Lista1, UnidosPorHacer, ColasSinToken DEF ParseTernario
<1>9. PorHacer(ColaPostfijo)
  BY Lista3, Lista4, Lista6, Lista7, Lista10, SimbolosSinToken, LlamasSinToken,
     ColasSinToken DEF ColaPostfijo
<1>10. PorHacer(NombreDeMiembro)
  BY TiposPorHacer, Lista1, SimbolosSinToken DEF NombreDeMiembro
<1>11. PorHacer(ColaMultiplicativo)
  BY Lista1, ColaIzquierdaPorHacer, LlamasSinToken, ColasSinToken DEF ColaMultiplicativo
<1>12. PorHacer(ColaAditivo)
  BY <1>2, ColaIzquierdaPorHacer, ColasSinToken DEF ColaAditivo
<1>13. PorHacer(ColaRelacional)
  BY <1>4, ColaIzquierdaPorHacer, ColasSinToken DEF ColaRelacional
<1>14. PorHacer(ColaY)
  BY <1>5, ColaIzquierdaPorHacer, ColasSinToken DEF ColaY
<1>15. PorHacer(ColaO)
  BY <1>6, ColaIzquierdaPorHacer, ColasSinToken DEF ColaO
<1>16. PorHacer(ColaPotencia)
  BY Lista3, SimbolosSinToken, LlamasSinToken DEF ColaPotencia
<1>17. PorHacer(ColaConcatenacion)
  BY <1>4, Lista1, UnidosPorHacer, SimbolosSinToken DEF ColaConcatenacion
<1>18. PorHacer(ColaEs)
  BY TiposPorHacer, Lista1, Lista2, UnidosPorHacer, SimbolosSinToken,
     LlamasSinToken DEF ColaEs
<1>19. PorHacer(ColaTernario)
  BY Lista5, SimbolosSinToken, LlamasSinToken DEF ColaTernario
<1>20. PorHacer(ParsePrimario)
  BY ClasesPorHacer, SentenciasPorHacer, TiposPorHacer, Lista1, Lista4, Lista5, Lista6,
     SimbolosSinToken, LlamasSinToken DEF ParsePrimario
<1>21. PorHacer(Pares)
  BY Lista1, SimbolosSinToken, LlamasSinToken DEF Pares
<1>22. PorHacer(Par)
  BY Lista7, SimbolosSinToken, LlamasSinToken DEF Par
<1>23. PorHacer(MasPares)
  BY Lista1, Lista3, SimbolosSinToken, LlamasSinToken DEF MasPares
<1> QED BY <1>1, <1>2, <1>3, <1>4, <1>5, <1>6, <1>7, <1>8, <1>9, <1>10, <1>11, <1>12,
       <1>13, <1>14, <1>15, <1>16, <1>17, <1>18, <1>19, <1>20, <1>21, <1>22, <1>23

(* The statements that begin with a reserved word, and the rest of them.  *)
LEMMA SentenciaPorHacer == PorHacer(Sentencia)
<1>1. PorHacer(<<Avanza, Llama("claseAbstracta")>>)
  BY Lista2, SimbolosSinToken, LlamasSinToken
<1>2. PorHacer(SentenciaReservada)
  BY <1>1, SentenciasPorHacer, ModulosPorHacer, ClasesPorHacer, TiposPorHacer
     DEF SentenciaReservada
<1> QED BY <1>2, SentenciasPorHacer DEF Sentencia

(* The members of a class. *)
LEMMA MiembrosPorHacer ==
    ASSUME NEW b \in BOOLEAN
    PROVE  PorHacer(CampoOMetodo(b)) /\ PorHacer(MetodoDef(b))
<1>1. PorHacer(CampoOMetodo(b))
  BY TiposPorHacer, Lista1, LlamasSinToken DEF CampoOMetodo
<1>2. PorHacer(<<Abre, Avanza, Clase("id"), Llama("parametrosGenericos"), Palabra1("("),
                 Llama("parametrosDeMetodo"), Palabra1(")"), Llama("tipoOpcional"),
                 Llama("clausulaDonde"), Opcional({"sobreescribir"})>>)
  BY Lista10, SimbolosSinToken, LlamasSinToken
<1>3. PorHacer(IF b THEN <<Llama("finDeSentencia"), Cierra("firma")>>
               ELSE <<Bloque({"fin"}), Palabra1("fin"), Cierra("metodo")>>)
  BY Lista2, Lista3, SimbolosSinToken, LlamasSinToken
<1> QED BY <1>1, <1>2, <1>3, UnidosPorHacer DEF MetodoDef

(* The loops that have a delimiter or the words that end them. *)
LEMMA BuclesPorHacer ==
    ASSUME NEW c
    PROVE  /\ PorHacer(ParseBloque(c)) /\ PorHacer(Sentencias(c)) /\ PorHacer(ParseLista(c))
           /\ PorHacer(Elementos(c)) /\ PorHacer(MasElementos(c))
<1>1. PorHacer(ParseBloque(c)) /\ PorHacer(Sentencias(c))
  BY Lista1, Lista3, SimbolosSinToken, LlamasSinToken DEF ParseBloque, Sentencias
<1>2. PorHacer(ParseLista(c)) /\ PorHacer(Elementos(c))
  BY Lista1, Lista2, Lista3, SimbolosSinToken, LlamasSinToken DEF ParseLista, Elementos
<1>3. PorHacer(MasElementos(c))
  BY Lista1, Lista5, SimbolosSinToken, LlamasSinToken DEF MasElementos
<1> QED BY <1>1, <1>2, <1>3

(* What a call does first holds no token, but parseAsignacionOExpr's. *)
LEMMA LlamarPorHacer ==
    ASSUME NEW f \in Funciones, f # "asignacionOExpr"
    PROVE  PorHacer(Llamar(f))
<1>1. PorHacer(ParseParametros(Hoja, "masParametros"))
      /\ PorHacer(ParseParametros(Avanza, "masParametrosDeMetodo"))
  BY ParametrosPorHacer, SimbolosSinToken, LlamasSinToken
<1>2. PorHacer(CampoOMetodo(TRUE)) /\ PorHacer(CampoOMetodo(FALSE))
      /\ PorHacer(MetodoDef(TRUE)) /\ PorHacer(MetodoDef(FALSE))
  BY MiembrosPorHacer
<1>3. f \in {"programa", "saltos", "sentencia", "finDeSentencia", "asignacion",
              "expresiones", "masExpresiones", "destinos"} => PorHacer(Llamar(f))
  BY <1>1, <1>2, TiposPorHacer, SentenciasPorHacer, ModulosPorHacer, ClasesPorHacer,
     ExpresionesPorHacer, SentenciaPorHacer DEF Llamar
<1>4. f \in {"anotada", "osis", "casos", "parametros", "parametro", "masParametros",
              "parametrosDeMetodo", "parametroDeMetodo"} => PorHacer(Llamar(f))
  BY <1>1, <1>2, TiposPorHacer, SentenciasPorHacer, ModulosPorHacer, ClasesPorHacer,
     ExpresionesPorHacer, SentenciaPorHacer DEF Llamar
<1>5. f \in {"masParametrosDeMetodo", "valorDeRetorno", "globalizable", "calificado",
              "argsTipoGenericos", "argTipo", "masArgsTipo",
              "parametrosGenericos"} => PorHacer(Llamar(f))
  BY <1>1, <1>2, TiposPorHacer, SentenciasPorHacer, ModulosPorHacer, ClasesPorHacer,
     ExpresionesPorHacer, SentenciaPorHacer DEF Llamar
<1>6. f \in {"paramGenerico", "masGenericos", "cotas", "cota", "masCotas",
              "clausulaDonde", "restriccion", "masDonde"} => PorHacer(Llamar(f))
  BY <1>1, <1>2, TiposPorHacer, SentenciasPorHacer, ModulosPorHacer, ClasesPorHacer,
     ExpresionesPorHacer, SentenciaPorHacer DEF Llamar
<1>7. f \in {"tipo", "tipoOpcional", "importado", "nombres", "nombre", "alias",
              "masNombres", "exportable"} => PorHacer(Llamar(f))
  BY <1>1, <1>2, TiposPorHacer, SentenciasPorHacer, ModulosPorHacer, ClasesPorHacer,
     ExpresionesPorHacer, SentenciaPorHacer DEF Llamar
<1>8. f \in {"declarable", "porDefecto", "enlace", "externas", "funcionExterna",
              "paramsFFI", "paramFFI", "masFFI"} => PorHacer(Llamar(f))
  BY <1>1, <1>2, TiposPorHacer, SentenciasPorHacer, ModulosPorHacer, ClasesPorHacer,
     ExpresionesPorHacer, SentenciaPorHacer DEF Llamar
<1>9. f \in {"tipoFFI", "retornoFFI", "claseAbstracta", "clase", "extiende",
              "implementa", "interfazDe", "masInterfaces"} => PorHacer(Llamar(f))
  BY <1>1, <1>2, TiposPorHacer, SentenciasPorHacer, ModulosPorHacer, ClasesPorHacer,
     ExpresionesPorHacer, SentenciaPorHacer DEF Llamar
<1>10. f \in {"miembros", "miembro", "miembroAbstracto", "miembroConcreto",
              "estructura", "miembrosDeEstructura", "interfaz",
              "firmas"} => PorHacer(Llamar(f))
  BY <1>1, <1>2, TiposPorHacer, SentenciasPorHacer, ModulosPorHacer, ClasesPorHacer,
     ExpresionesPorHacer, SentenciaPorHacer DEF Llamar
<1>11. f \in {"campo", "valorDeCampo", "metodo", "firma", "expresion", "unario",
              "primario", "nombreDeMiembro"} => PorHacer(Llamar(f))
  BY <1>1, <1>2, TiposPorHacer, SentenciasPorHacer, ModulosPorHacer, ClasesPorHacer,
     ExpresionesPorHacer, SentenciaPorHacer DEF Llamar
<1>12. f \in {"argsDescartados", "pares", "par", "masPares"} => PorHacer(Llamar(f))
  BY <1>1, <1>2, TiposPorHacer, SentenciasPorHacer, ModulosPorHacer, ClasesPorHacer,
     ExpresionesPorHacer, SentenciaPorHacer DEF Llamar
<1> QED BY <1>3, <1>4, <1>5, <1>6, <1>7, <1>8, <1>9, <1>10, <1>11, <1>12 DEF Funciones

(* What a call, a block or a list does first. *)
LEMMA DesplegarPorHacer ==
    ASSUME NEW c, SinToken(c),
           c[1] \in {"llama", "bloque", "sentencias", "lista", "elementos", "mas"},
           ~(c[1] = "llama" /\ c[2] = "asignacionOExpr")
    PROVE  PorHacer(Desplegar(c))
<1>1. CASE c[1] = "llama"
  <2>1. c[2] \in Funciones /\ c[2] # "asignacionOExpr"
    BY <1>1 DEF SinToken
  <2> QED BY <1>1, <2>1, LlamarPorHacer DEF Desplegar
<1>2. CASE c[1] # "llama"
  BY <1>2, BuclesPorHacer DEF Desplegar
<1> QED BY <1>1, <1>2

(* What a level does when it meets its operator. *)
LEMMA TrasOperandoPorHacer ==
    ASSUME NEW o \in Niveles
    PROVE  PorHacer(TrasOperando(o))
BY ExpresionesPorHacer DEF TrasOperando, Niveles

-----------------------------------------------------------------------------
(* The stack. *)

(* One symbol, and two, in front of a list. *)
LEMMA UnoDelante ==
    ASSUME NEW a, NEW S, NEW s \in Seq(S)
    PROVE  /\ (<<a>> \o s)[1] = a /\ <<a>> \o s # <<>>
           /\ Tail(<<a>> \o s) = s
           /\ SubSeq(<<a>> \o s, 2, Len(<<a>> \o s)) = s
           /\ \E U : <<a>> \o s \in Seq(U)
<1> DEFINE U == S \cup {a}
           t == <<a>> \o s
<1>2. s \in Seq(U) /\ <<a>> \in Seq(U) /\ Len(<<a>>) = 1 /\ <<a>>[1] = a
  BY SeqDef
<1> HIDE DEF U
<1>3. /\ t \in Seq(U) /\ Len(t) = Len(s) + 1 /\ Len(s) \in Nat
      /\ t[1] = a /\ \A k \in 1..Len(s) : t[k + 1] = s[k]
  BY <1>2, ConcatProperties, LenProperties
<1> HIDE DEF t
<1>4. t # <<>>
  BY <1>3, EmptySeq
<1>5. Tail(t) = s
  <2>1. Tail(t) \in Seq(U) /\ Len(Tail(t)) = Len(s)
        /\ \A k \in 1..Len(s) : Tail(t)[k] = t[k + 1]
    BY <1>3, <1>4, HeadTailProperties
  <2> QED BY <1>2, <1>3, <2>1, SeqEqual
<1>6. SubSeq(t, 2, Len(t)) = Tail(t)
  BY <1>3, <1>4, TailIsSubSeq
<1> QED BY <1>3, <1>4, <1>5, <1>6 DEF t

(* Two elements put before a sequence.                                     *)
LEMMA DosDelante ==
    ASSUME NEW a, NEW b, NEW S, NEW s \in Seq(S)
    PROVE  /\ (<<a, b>> \o s)[1] = a /\ <<a, b>> \o s # <<>>
           /\ Tail(<<a, b>> \o s) = <<b>> \o s
           /\ SubSeq(<<a, b>> \o s, 3, Len(<<a, b>> \o s)) = s
<1> DEFINE U == S \cup {a, b}
           t == <<a, b>> \o s
<1>1. s \in Seq(U) /\ <<a, b>> \in Seq(U) /\ Len(<<a, b>>) = 2
      /\ <<a, b>>[1] = a /\ <<a, b>>[2] = b /\ <<b>> \in Seq(U) /\ Len(<<b>>) = 1
      /\ <<b>>[1] = b
  BY SeqDef
<1> HIDE DEF U
<1>2. /\ t \in Seq(U) /\ Len(t) = Len(s) + 2 /\ Len(s) \in Nat
      /\ t[1] = a /\ t[2] = b /\ \A k \in 1..Len(s) : t[k + 2] = s[k]
  BY <1>1, ConcatProperties, LenProperties
<1>3. /\ <<b>> \o s \in Seq(U) /\ Len(<<b>> \o s) = Len(s) + 1
      /\ (<<b>> \o s)[1] = b /\ \A k \in 1..Len(s) : (<<b>> \o s)[k + 1] = s[k]
  BY <1>1, ConcatProperties, LenProperties
<1> HIDE DEF t
<1>4. t # <<>>
  BY <1>2, EmptySeq
<1>5. Tail(t) = <<b>> \o s
  <2>1. Tail(t) \in Seq(U) /\ Len(Tail(t)) = Len(s) + 1
        /\ \A k \in 1..(Len(s) + 1) : Tail(t)[k] = t[k + 1]
    BY <1>2, <1>4, HeadTailProperties
  <2>2. ASSUME NEW k \in 1..(Len(s) + 1)
        PROVE  t[k + 1] = (<<b>> \o s)[k]
    <3>1. CASE k = 1
      BY <1>2, <1>3, <3>1
    <3>2. CASE k # 1
      <4>1. k - 1 \in 1..Len(s) /\ k + 1 = (k - 1) + 2 /\ k = (k - 1) + 1
        BY <1>2, <3>2
      <4> QED BY <1>2, <1>3, <4>1
    <3> QED BY <3>1, <3>2
  <2> QED BY <1>2, <1>3, <2>1, <2>2, SeqEqual
<1>6. SubSeq(t, 3, Len(t)) = s
  <2>1. 3 \in 1..(Len(t) + 1) /\ Len(t) \in Nat /\ Len(t) - 3 + 1 = Len(s)
    BY <1>2
  <2>2. SubSeq(t, 3, Len(t)) \in Seq(U) /\ Len(SubSeq(t, 3, Len(t))) = Len(s)
        /\ \A k \in 1..Len(s) : SubSeq(t, 3, Len(t))[k] = t[3 + k - 1]
    BY <1>2, <2>1, SubSeqProperties
  <2>3. \A k \in 1..Len(s) : 3 + k - 1 = k + 2
    BY <1>2
  <2> QED BY <1>1, <1>2, <2>2, <2>3, SeqEqual
<1> QED BY <1>2, <1>4, <1>5, <1>6 DEF t

(* A list is a sequence of its symbols. *)
LEMMA PorHacerSec ==
    ASSUME NEW s, PorHacer(s)
    PROVE  s \in Seq({s[k] : k \in 1..Len(s)})
BY DEF PorHacer

(* On top of the stack there is nothing that holds a token, or nothing that
   takes one, while something else is done; and a token can have been put back
   only in front of an assignment or an expression. *)
LEMMA Tope ==
    ASSUME Inv, pila # <<>>, pila[1][1] \notin {"mirado", "avanza"}
    PROVE  /\ PorHacer(pila) /\ PorHacer(Tail(pila)) /\ SinToken(pila[1])
           /\ pila[1][1] \notin {"llama", "hoja", "abre"} => devuelto = <<>>
<1>1. PorHacer(pila)
  <2>1. ASSUME pila = <<Avanza, <<"mirado", actual>> >> \o Desde(3), PorHacer(Desde(3))
        PROVE  FALSE
    <3> DEFINE r == Desde(3)
               m == <<"mirado", actual>>
    <3>1. r \in Seq({r[k] : k \in 1..Len(r)})
      BY <2>1, PorHacerSec
    <3> HIDE DEF r, m
    <3>2. (<<Avanza, m>> \o r)[1] = Avanza
      BY <3>1, DosDelante
    <3>3. pila[1] = Avanza
      BY <2>1, <3>2 DEF r, m
    <3> QED BY <3>3 DEF Avanza
  <2>2. ASSUME pila[1] = <<"mirado", pila[1][2]>>
        PROVE  FALSE
    <3>1. pila[1][1] = "mirado"
      BY <2>2
    <3> QED BY <3>1
  <2> QED BY <2>1, <2>2 DEF Inv, MiradoEnSuSitio
<1>2. PorHacer(Tail(pila)) /\ SinToken(pila[1])
  BY <1>1, RestoPorHacer
<1>3. ASSUME pila[1][1] \notin {"llama", "hoja", "abre"}
      PROVE  devuelto = <<>>
  BY <1>3 DEF Inv, DevueltoTrasId, AlOperando, Llama, Hoja, Abre
<1> QED BY <1>1, <1>2, <1>3

(* avanzar() takes the token that follows the current one. *)
LEMMA AvanzarSigue ==
    ASSUME NadaSePierde, Avanzar
    PROVE  /\ NadaSePierde' /\ devuelto' = <<>> /\ hasta' = actual.fin
BY DEF NadaSePierde, Avanzar

(* A step that changes neither the tokens nor the stack keeps them right. *)
LEMMA SinCambio ==
    ASSUME Inv, UNCHANGED <<flujo, pila>>
    PROVE  Inv'
BY DEF Inv, NadaSePierde, MiradoEnSuSitio, DevueltoTrasId, AlOperando, flujo, Desde, EsId,
       PorHacer

(* The same when the stack changes and no token is put back. *)
LEMMA SinDevuelto ==
    ASSUME NadaSePierde', PorHacer(pila'), devuelto' = <<>>
    PROVE  Inv'
BY DEF Inv, MiradoEnSuSitio, DevueltoTrasId

-----------------------------------------------------------------------------
(* The steps. *)

(* The identifier that is being looked behind is on top of the stack. *)
LEMMA MiradoEncima ==
    ASSUME Inv, pila # <<>>, pila[1][1] = "mirado"
    PROVE  /\ PorHacer(Tail(pila))
           /\ pila[1][2].clase = "id" /\ pila[1][2].fin = hasta /\ devuelto = <<>>
<1>1. ~PorHacer(pila)
  BY RestoPorHacer DEF SinToken
<1>2. ~(pila = <<Avanza, <<"mirado", actual>> >> \o Desde(3) /\ PorHacer(Desde(3)))
  <2> SUFFICES ASSUME pila = <<Avanza, <<"mirado", actual>> >> \o Desde(3), PorHacer(Desde(3))
               PROVE  FALSE
    OBVIOUS
  <2> DEFINE r == Desde(3)
             m == <<"mirado", actual>>
  <2>1. r \in Seq({r[k] : k \in 1..Len(r)})
    BY PorHacerSec
  <2> HIDE DEF r, m
  <2>2. (<<Avanza, m>> \o r)[1] = Avanza
    BY <2>1, DosDelante
  <2>3. pila[1] = Avanza
    BY <2>2 DEF r, m
  <2> QED BY <2>3 DEF Avanza
<1>3. /\ pila = <<pila[1]>> \o Desde(2) /\ PorHacer(Desde(2))
      /\ pila[1][2].clase = "id" /\ pila[1][2].fin = hasta /\ devuelto = <<>>
  BY <1>1, <1>2 DEF Inv, MiradoEnSuSitio
<1>4. Tail(pila) = Desde(2)
  <2> DEFINE r == Desde(2)
             a == pila[1]
  <2>1. r \in Seq({r[k] : k \in 1..Len(r)})
    BY <1>3, PorHacerSec
  <2> HIDE DEF r, a
  <2>2. Tail(<<a>> \o r) = r
    BY <2>1, UnoDelante
  <2> QED BY <1>3, <2>2 DEF r, a
<1> QED BY <1>3, <1>4

(* A token is taken: the identifier that is to be looked behind stays on
   top of the stack. *)
LEMMA TomarConserva ==
    ASSUME Inv, Tomar
    PROVE  Inv'
<1>1. /\ pila # <<>> /\ pila[1][1] \in {"avanza", "palabra", "angulo"}
      /\ pila' = Tail(pila) /\ NadaSePierde' /\ devuelto' = <<>> /\ hasta' = actual.fin
  BY AvanzarSigue DEF Tomar, Analiza, Inv
<1>2. CASE PorHacer(pila)
  BY <1>1, <1>2, RestoPorHacer, SinDevuelto
<1>3. CASE /\ pila = <<Avanza, <<"mirado", actual>> >> \o Desde(3)
           /\ PorHacer(Desde(3)) /\ EsId
  <2> DEFINE r == Desde(3)
             m == <<"mirado", actual>>
             R == {r[k] : k \in 1..Len(r)}
  <2>1. r \in Seq(R) /\ PorHacer(r)
    BY <1>3, PorHacerSec
  <2>2. m = <<"mirado", m[2]>> /\ m[2].clase = "id" /\ m[2].fin = hasta'
    BY <1>1, <1>3 DEF EsId
  <2>3. pila = <<Avanza, m>> \o r
    BY <1>3
  <2> HIDE DEF r, m, R
  <2>4. pila' = <<m>> \o r
    <3>1. Tail(<<Avanza, m>> \o r) = <<m>> \o r
      BY <2>1, DosDelante
    <3> QED BY <1>1, <2>3, <3>1
  <2>5. (<<m>> \o r)[1] = m /\ SubSeq(<<m>> \o r, 2, Len(<<m>> \o r)) = r
    BY <2>1, UnoDelante
  <2>6. pila'[1] = m /\ Desde(2)' = r
    BY <2>4, <2>5 DEF Desde
  <2>7. MiradoEnSuSitio'
    BY <1>1, <2>1, <2>2, <2>4, <2>6 DEF MiradoEnSuSitio
  <2> QED BY <1>1, <2>7 DEF Inv, DevueltoTrasId
<1>4. pila[1] # <<"mirado", pila[1][2]>>
  <2> SUFFICES ASSUME pila[1] = <<"mirado", pila[1][2]>>
               PROVE  FALSE
    OBVIOUS
  <2>1. pila[1][1] = "mirado"
    OBVIOUS
  <2> QED BY <1>1, <2>1
<1> QED BY <1>2, <1>3, <1>4 DEF Inv, MiradoEnSuSitio

(* A token is taken as a leaf. *)
LEMMA TomarHojaConserva ==
    ASSUME Inv, TomarHoja
    PROVE  Inv'
<1>1. /\ pila # <<>> /\ pila[1][1] \in {"hoja", "clase", "opcional"}
      /\ pila' = Tail(pila) /\ NadaSePierde' /\ devuelto' = <<>>
  BY AvanzarSigue DEF TomarHoja, Analiza, Inv
<1>2. PorHacer(Tail(pila))
  BY <1>1, Tope
<1> QED BY <1>1, <1>2, SinDevuelto

(* The '>=' is split: its second half begins where the first ends, and the
   lexer goes on behind it. *)
LEMMA PartirAnguloConserva ==
    ASSUME Inv, PartirAngulo
    PROVE  Inv'
<1>1. /\ pila # <<>> /\ pila[1][1] = "angulo" /\ pila' = Tail(pila)
      /\ devuelto' = <<>> /\ pos' = pos /\ hasta' = actual.fin - 1
      /\ actual'.ini = actual.fin - 1 /\ actual'.fin = actual.fin
  BY DEF PartirAngulo, Analiza
<1>2. PorHacer(Tail(pila)) /\ devuelto = <<>>
  BY <1>1, Tope
<1>3. NadaSePierde'
  BY <1>1, <1>2 DEF Inv, NadaSePierde
<1> QED BY <1>1, <1>2, <1>3, SinDevuelto

(* The token behind the identifier is ':', or both are put back. *)
LEMMA MirarConserva ==
    ASSUME Inv, Mirar
    PROVE  Inv'
<1>1. pila # <<>> /\ pila[1][1] = "mirado"
  BY DEF Mirar, Analiza
<1>2. /\ PorHacer(Tail(pila))
      /\ pila[1][2].clase = "id" /\ pila[1][2].fin = hasta /\ devuelto = <<>>
  BY <1>1, MiradoEncima
<1>3. actual.ini = hasta /\ actual.fin = pos
  BY <1>2 DEF Inv, NadaSePierde
<1>4. CASE Es(":")
  <2>1. pila' = <<Avanza, Llama("anotada")>> \o Tail(pila) /\ UNCHANGED flujo
    BY <1>4 DEF Mirar, Cima
  <2>2. PorHacer(pila')
    <3>1. PorHacer(<<Avanza, Llama("anotada")>>)
      BY Lista2, SimbolosSinToken, LlamasSinToken
    <3> QED BY <1>2, <2>1, <3>1, UnidosPorHacer
  <2>3. NadaSePierde' /\ devuelto' = <<>>
    BY <1>2, <2>1 DEF Inv, NadaSePierde, flujo
  <2> QED BY <2>2, <2>3, SinDevuelto
<1>5. CASE ~Es(":")
  <2>1. /\ devuelto' = <<actual>> /\ actual' = pila[1][2] /\ hasta' = pila[1][2].ini
        /\ pos' = pos /\ pila' = <<Llama("asignacion")>> \o Tail(pila)
    BY <1>5 DEF Mirar, Cima
  <2>2. NadaSePierde'
    BY <1>2, <1>3, <2>1 DEF NadaSePierde
  <2>3. PorHacer(pila')
    <3>1. PorHacer(<<Llama("asignacion")>>)
      BY Lista1, LlamasSinToken
    <3> QED BY <1>2, <2>1, <3>1, UnidosPorHacer
  <2>4. pila' # <<>> /\ pila'[1] = Llama("asignacion")
    <3> DEFINE r == Tail(pila)
    <3>1. r \in Seq({r[k] : k \in 1..Len(r)})
      BY <1>2, PorHacerSec
    <3> HIDE DEF r
    <3>2. <<Llama("asignacion")>> \o r # <<>>
          /\ (<<Llama("asignacion")>> \o r)[1] = Llama("asignacion")
      BY <3>1, UnoDelante
    <3> QED BY <2>1, <3>2 DEF r
  <2>5. EsId'
    BY <1>2, <2>1 DEF EsId
  <2>6. AlOperando'
    BY <2>3, <2>4 DEF AlOperando
  <2> QED BY <2>2, <2>3, <2>5, <2>6 DEF Inv, MiradoEnSuSitio, DevueltoTrasId
<1> QED BY <1>4, <1>5

(* A set of numbers that is not empty has a least one. *)
LEMMA MinimoDeNat ==
    ASSUME NEW T \in SUBSET Nat, T # {}
    PROVE  \E x \in T : \A y \in T : x <= y
<1> DEFINE R == OpToRel(<, Nat)
<1>1. IsWellFoundedOn(R, Nat)
  BY NatLessThanWellFounded
<1>2. PICK x \in T : \A y \in T : ~ (<<y, x>> \in R)
  <2> HIDE DEF R
  <2> QED BY <1>1, WFMin
<1>3. \A y \in T : ~ (y < x)
  BY <1>2 DEF OpToRel
<1> QED BY <1>3

(* A list of symbols in front of another begins with its own first ones. *)
LEMMA Comienzo ==
    ASSUME NEW s, NEW t, PorHacer(s), PorHacer(t), s # <<>>
    PROVE  /\ s \o t # <<>> /\ (s \o t)[1] = s[1]
           /\ Len(s) >= 2 => Len(s \o t) >= 2 /\ (s \o t)[2] = s[2]
<1>1. PICK S : s \in Seq(S)
  BY PorHacerEs
<1>2. PICK T : t \in Seq(T)
  BY PorHacerEs
<1> DEFINE U == S \cup T
<1>3. s \in Seq(U) /\ t \in Seq(U)
  BY <1>1, <1>2, SeqDef
<1> HIDE DEF U
<1>4. Len(s) \in Nat \ {0} /\ Len(t) \in Nat
  BY <1>3, EmptySeq, LenProperties
<1>5. /\ s \o t \in Seq(U) /\ Len(s \o t) = Len(s) + Len(t)
      /\ \A k \in 1..Len(s) : (s \o t)[k] = s[k]
  BY <1>3, <1>4, ConcatProperties
<1> QED BY <1>4, <1>5, EmptySeq

(* The first operand of an expression is a unary one. *)
LEMMA TernarioComienza ==
    PorHacer(ParseTernario) /\ ParseTernario # <<>> /\ ParseTernario[1] = Llama("unario")
<1> DEFINE Comienza(s) == s # <<>> /\ s[1] = Llama("unario")
<1>1. ASSUME NEW s, NEW t, PorHacer(s), PorHacer(t), Comienza(s)
      PROVE  Comienza(s \o t)
  BY <1>1, Comienzo
<1>2. \A o \in Niveles : PorHacer(<<Cola(o)>>)
  BY Lista1, ColasSinToken DEF Niveles
<1>3. PorHacer(<<Cola("relacional"), Cola("es")>>)
  BY Lista2, ColasSinToken
<1>4. Comienza(ParseMultiplicativo)
  BY DEF ParseMultiplicativo
<1> HIDE DEF Comienza
<1>5. Comienza(ParseAditivo)
  BY <1>1, <1>2, <1>4, ExpresionesPorHacer DEF ParseAditivo, Niveles
<1>6. Comienza(ParseConcatenacion)
  BY <1>1, <1>2, <1>5, ExpresionesPorHacer DEF ParseConcatenacion, Niveles
<1>7. Comienza(ParseRelacional)
  BY <1>1, <1>3, <1>6, ExpresionesPorHacer DEF ParseRelacional
<1>8. Comienza(ParseY)
  BY <1>1, <1>2, <1>7, ExpresionesPorHacer DEF ParseY, Niveles
<1>9. Comienza(ParseO)
  BY <1>1, <1>2, <1>8, ExpresionesPorHacer DEF ParseO, Niveles
<1>10. Comienza(ParseTernario)
  BY <1>1, <1>2, <1>9, ExpresionesPorHacer DEF ParseTernario, Niveles
<1> QED BY <1>10, ExpresionesPorHacer DEF Comienza

(* In front of an identifier the calls that lead to an operand go on until
   the identifier is taken. *)
LEMMA SigueAlOperando ==
    ASSUME Inv, devuelto # <<>>, pila # <<>>, UNCHANGED actual,
           pila[1][1] \in {"llama", "bloque", "sentencias", "lista", "elementos", "mas"},
           pila' = Desplegar(pila[1]) \o Tail(pila), PorHacer(pila')
    PROVE  EsId' /\ AlOperando'
<1> DEFINE d == Desplegar(pila[1])
           hacia == {Llama("expresiones"), Llama("expresion"), Llama("unario"),
                     Llama("primario")}
<1>1. EsId /\ AlOperando /\ PorHacer(Tail(pila))
  BY RestoPorHacer DEF Inv, DevueltoTrasId, AlOperando
<1>2. pila[1] \in hacia \cup {Llama("asignacion")}
  BY <1>1 DEF AlOperando, Hoja, Abre
<1>3. /\ PorHacer(d) /\ d # <<>>
      /\ d[1] \in hacia \cup {Hoja} \/ (d[1] = Abre /\ Len(d) >= 2 /\ d[2] \in hacia)
  <2>1. CASE pila[1] = Llama("asignacion")
    <3>1. d = <<Abre, Llama("expresiones"), Llama("destinos")>>
      BY <2>1 DEF Desplegar, Llamar, Llama, Asignacion
    <3> QED BY <3>1, SentenciasPorHacer DEF Asignacion
  <2>2. CASE pila[1] = Llama("expresiones")
    <3>1. d = <<Abre, Llama("expresion"), Llama("masExpresiones")>>
      BY <2>2 DEF Desplegar, Llamar, Llama, Expresiones
    <3> QED BY <3>1, SentenciasPorHacer DEF Expresiones
  <2>3. CASE pila[1] = Llama("expresion")
    <3>1. d = ParseTernario
      BY <2>3 DEF Desplegar, Llamar, Llama
    <3> QED BY <3>1, TernarioComienza
  <2>4. CASE pila[1] = Llama("unario")
    <3>1. d = ParseUnario
      BY <2>4 DEF Desplegar, Llamar, Llama
    <3>2. ~Es("-")
      BY <1>1 DEF EsId, Es, EsAlguna
    <3>3. d = <<Llama("primario"), Cola("postfijo"), Cola("potencia")>>
      BY <3>1, <3>2 DEF ParseUnario
    <3> QED BY <3>1, <3>3, ExpresionesPorHacer
  <2>5. CASE pila[1] = Llama("primario")
    <3>1. d = ParsePrimario
      BY <2>5 DEF Desplegar, Llamar, Llama
    <3>2. d = <<Hoja>>
      BY <1>1, <3>1 DEF ParsePrimario, EsId, Es, EsFun, EsAlguna
    <3> QED BY <3>1, <3>2, ExpresionesPorHacer
  <2> QED BY <1>2, <2>1, <2>2, <2>3, <2>4, <2>5
<1> HIDE DEF d
<1>4. /\ d \o Tail(pila) # <<>> /\ (d \o Tail(pila))[1] = d[1]
      /\ Len(d) >= 2 => Len(d \o Tail(pila)) >= 2 /\ (d \o Tail(pila))[2] = d[2]
  BY <1>1, <1>3, Comienzo
<1>5. pila' = d \o Tail(pila)
  BY DEF d
<1> QED BY <1>1, <1>3, <1>4, <1>5 DEF AlOperando, EsId

(* The call that is on top of the stack is replaced by what it does first. *)
LEMMA ExpandirConserva ==
    ASSUME Inv, Expandir
    PROVE  Inv'
<1>1. /\ pila # <<>>
      /\ pila[1][1] \in {"llama", "bloque", "sentencias", "lista", "elementos", "mas"}
      /\ pila' = Desplegar(pila[1]) \o Tail(pila) /\ UNCHANGED flujo
  BY DEF Expandir, Analiza, Cima
<1>2. /\ PorHacer(pila) /\ PorHacer(Tail(pila)) /\ SinToken(pila[1])
      /\ pila[1][1] # "llama" => devuelto = <<>>
  BY <1>1, Tope
<1>3. NadaSePierde' /\ devuelto' = devuelto /\ actual' = actual
  BY <1>1 DEF Inv, NadaSePierde, flujo
<1>4. CASE pila[1][1] = "llama" /\ pila[1][2] = "asignacionOExpr"
  <2>1. devuelto = <<>>
    BY <1>4 DEF Inv, DevueltoTrasId, AlOperando, Llama, Hoja, Abre
  <2>2. pila' = AsignacionOExpr \o Tail(pila)
    BY <1>1, <1>4 DEF Desplegar, Llamar
  <2>3. CASE EsId
    <3> DEFINE m == <<"mirado", actual>>
               r == Tail(pila)
               R == {r[k] : k \in 1..Len(r)}
    <3>1. r \in Seq(R) /\ PorHacer(r)
      BY <1>2, PorHacerSec
    <3>2. pila' = <<Avanza, m>> \o r
      BY <2>2, <2>3 DEF AsignacionOExpr
    <3>3. m = <<"mirado", actual'>> /\ EsId' /\ devuelto' = <<>>
      BY <1>3, <2>1, <2>3 DEF EsId
    <3> HIDE DEF m, r, R
    <3>4. SubSeq(<<Avanza, m>> \o r, 3, Len(<<Avanza, m>> \o r)) = r
      BY <3>1, DosDelante
    <3>5. Desde(3)' = r
      BY <3>2, <3>4 DEF Desde
    <3>6. MiradoEnSuSitio'
      BY <3>1, <3>2, <3>3, <3>5 DEF MiradoEnSuSitio
    <3> QED BY <1>3, <3>3, <3>6 DEF Inv, DevueltoTrasId
  <2>4. CASE ~EsId
    <3>1. PorHacer(<<Llama("asignacion")>>)
      BY Lista1, LlamasSinToken
    <3>2. PorHacer(pila')
      BY <1>2, <2>2, <2>4, <3>1, UnidosPorHacer DEF AsignacionOExpr
    <3> QED BY <1>3, <2>1, <3>2, SinDevuelto
  <2> QED BY <2>3, <2>4
<1>5. CASE ~(pila[1][1] = "llama" /\ pila[1][2] = "asignacionOExpr")
  <2>1. PorHacer(Desplegar(pila[1]))
    BY <1>1, <1>2, <1>5, DesplegarPorHacer
  <2>2. PorHacer(pila')
    BY <1>1, <1>2, <2>1, UnidosPorHacer
  <2>3. CASE devuelto = <<>>
    BY <1>3, <2>2, <2>3, SinDevuelto
  <2>4. CASE devuelto # <<>>
    <3>1. EsId' /\ AlOperando'
      BY <1>1, <1>2, <1>3, <2>2, <2>4, SigueAlOperando
    <3> QED BY <1>3, <2>2, <3>1 DEF Inv, MiradoEnSuSitio, DevueltoTrasId
  <2> QED BY <2>3, <2>4
<1> QED BY <1>4, <1>5

(* What the tails of the levels return from is taken off the stack. *)
LEMMA RetornarConserva ==
    ASSUME Inv, Retornar
    PROVE  Inv'
<1> DEFINE Sale(j) == pila[j][1] = "cola" /\ ~EsAlguna(OperadoresDe(pila[j][2]))
           Queda(k) == /\ \A j \in 1..(k - 1) : Sale(j)
                       /\ k <= Len(pila) => ~Sale(k)
           queda == CHOOSE k \in 2..(Len(pila) + 1) : Queda(k)
<1>1. /\ pila # <<>> /\ pila[1][1] = "cola" /\ Sale(1)
      /\ pila' = SubSeq(pila, queda, Len(pila)) /\ UNCHANGED flujo
  BY DEF Retornar, Analiza, Cima
<1>2. PorHacer(pila) /\ devuelto = <<>>
  BY <1>1, Tope
<1>3. Len(pila) \in Nat \ {0}
  BY <1>1, <1>2, RestoPorHacer
<1>4. \E k \in 2..(Len(pila) + 1) : Queda(k)
  <2> DEFINE T == {k \in 1..(Len(pila) + 1) : k <= Len(pila) => ~Sale(k)}
  <2>1. T \in SUBSET Nat /\ Len(pila) + 1 \in T
    BY <1>3
  <2>2. PICK k \in T : \A j \in T : k <= j
    BY <2>1, MinimoDeNat
  <2>3. k \in 2..(Len(pila) + 1)
    BY <1>1, <1>3, <2>2
  <2>4. ASSUME NEW j \in 1..(k - 1)
        PROVE  Sale(j)
    BY <1>3, <2>2, <2>3
  <2> QED BY <2>2, <2>3, <2>4
<1>5. queda \in 2..(Len(pila) + 1)
  BY <1>4
<1> HIDE DEF queda
<1>6. PorHacer(pila')
  <2>1. queda \in 1..(Len(pila) + 1)
    BY <1>3, <1>5
  <2> QED BY <1>1, <1>2, <2>1, ColaPorHacer
<1>7. NadaSePierde' /\ devuelto' = <<>>
  BY <1>1, <1>2 DEF Inv, NadaSePierde, flujo
<1> QED BY <1>6, <1>7, SinDevuelto

(* A level meets its operator. *)
LEMMA OperarConserva ==
    ASSUME Inv, Operar
    PROVE  Inv'
<1>1. /\ pila # <<>> /\ pila[1][1] = "cola"
      /\ pila' = TrasOperando(pila[1][2]) \o Tail(pila) /\ UNCHANGED flujo
  BY DEF Operar, Analiza, Cima
<1>2. PorHacer(Tail(pila)) /\ SinToken(pila[1]) /\ devuelto = <<>>
  BY <1>1, Tope
<1>3. PorHacer(pila')
  BY <1>1, <1>2, TrasOperandoPorHacer, UnidosPorHacer DEF SinToken
<1>4. NadaSePierde' /\ devuelto' = <<>>
  BY <1>1, <1>2 DEF Inv, NadaSePierde, flujo
<1> QED BY <1>3, <1>4, SinDevuelto

(* The children of a node begin: the operand comes next if a token was put
   back. *)
LEMMA AbrirConserva ==
    ASSUME Inv, Abrir
    PROVE  Inv'
<1>1. pila # <<>> /\ pila[1][1] = "abre" /\ pila' = Tail(pila) /\ UNCHANGED flujo
  BY DEF Abrir, Analiza
<1>2. PorHacer(pila) /\ PorHacer(pila')
  BY <1>1, Tope
<1>3. NadaSePierde' /\ devuelto' = devuelto /\ actual' = actual
  BY <1>1 DEF Inv, NadaSePierde, flujo
<1>4. CASE devuelto = <<>>
  BY <1>2, <1>3, <1>4, SinDevuelto
<1>5. CASE devuelto # <<>>
  <2>1. /\ EsId /\ Len(pila) >= 2
        /\ pila[2] \in {Llama("expresiones"), Llama("expresion"), Llama("unario"),
                        Llama("primario")}
    BY <1>1, <1>5 DEF Inv, DevueltoTrasId, AlOperando, Llama, Hoja
  <2>2. pila' # <<>> /\ pila'[1] = pila[2]
    <3>1. PICK S : pila \in Seq(S)
      BY <1>2, PorHacerEs
    <3>2. /\ Tail(pila) \in Seq(S) /\ Len(Tail(pila)) = Len(pila) - 1 /\ Len(pila) \in Nat
          /\ \A k \in 1..(Len(pila) - 1) : Tail(pila)[k] = pila[k + 1]
      BY <1>1, <3>1, HeadTailProperties, LenProperties
    <3>3. Len(Tail(pila)) >= 1 /\ Tail(pila)[1] = pila[2]
      BY <2>1, <3>2
    <3> DEFINE t == Tail(pila)
    <3>4. t \in Seq(S) /\ Len(t) >= 1
      BY <3>2, <3>3
    <3> HIDE DEF t
    <3>5. t # <<>>
      BY <3>4, EmptySeq
    <3> QED BY <1>1, <3>3, <3>5 DEF t
  <2>3. AlOperando' /\ EsId'
    BY <1>2, <1>3, <2>1, <2>2 DEF AlOperando, EsId
  <2> QED BY <1>2, <1>3, <2>3 DEF Inv, MiradoEnSuSitio, DevueltoTrasId
<1> QED BY <1>4, <1>5

(* What is left out, and the other steps that build the tree. *)
LEMMA QuitarConserva ==
    ASSUME Inv, Omitir \/ Cerrar \/ Unir \/ Marcar
    PROVE  Inv'
<1>1. /\ pila # <<>> /\ pila[1][1] \in {"opcional", "cierra", "une", "marca"}
      /\ pila' = Tail(pila) /\ UNCHANGED flujo
  BY DEF Omitir, Cerrar, Unir, Marcar, Analiza
<1>2. PorHacer(pila') /\ devuelto = <<>>
  BY <1>1, Tope
<1>3. NadaSePierde' /\ devuelto' = <<>>
  BY <1>1, <1>2 DEF Inv, NadaSePierde, flujo
<1> QED BY <1>2, <1>3, SinDevuelto

-----------------------------------------------------------------------------
(* At first nothing has been read. *)
LEMMA InvInicial == Init => Inv
<1> SUFFICES ASSUME Init PROVE Inv
  OBVIOUS
<1>1. PorHacer(pila)
  BY Lista4, SimbolosSinToken, LlamasSinToken DEF Init
<1>2. NadaSePierde /\ devuelto = <<>>
  BY DEF Init, NadaSePierde
<1> QED BY <1>1, <1>2 DEF Inv, MiradoEnSuSitio, DevueltoTrasId

(* Every step keeps the tokens in order. *)
LEMMA InvConserva == Inv /\ [Next]_vars => Inv'
<1> SUFFICES ASSUME Inv, [Next]_vars PROVE Inv'
  OBVIOUS
<1>1. CASE Tomar
  BY <1>1, TomarConserva
<1>2. CASE TomarHoja
  BY <1>2, TomarHojaConserva
<1>3. CASE PartirAngulo
  BY <1>3, PartirAnguloConserva
<1>4. CASE Mirar
  BY <1>4, MirarConserva
<1>5. CASE Expandir
  BY <1>5, ExpandirConserva
<1>6. CASE Retornar
  BY <1>6, RetornarConserva
<1>7. CASE Operar
  BY <1>7, OperarConserva
<1>8. CASE Abrir
  BY <1>8, AbrirConserva
<1>9. CASE Omitir \/ Cerrar \/ Unir \/ Marcar
  BY <1>9, QuitarConserva
<1>10. CASE Error \/ Aceptar
  BY <1>10, SinCambio DEF Error, Aceptar
<1>11. CASE (\E p \in Vocabularios[vocabulario].piezas : Escribir(p)) \/ CerrarTexto
  BY <1>11, SinCambio DEF Escribir, CerrarTexto
<1>12. CASE UNCHANGED vars
  BY <1>12, SinCambio DEF vars
<1> QED BY <1>1, <1>2, <1>3, <1>4, <1>5, <1>6, <1>7, <1>8, <1>9, <1>10, <1>11, <1>12
       DEF Next, Paso, Terminado

(* The parser reads every character of the text once and in order: the     *)
(* token that is looked at beyond an identifier and the half of a '>=' are *)
(* put back where they were, and are read before anything else.            *)
THEOREM NadaSePierdeSiempre == Spec => []NadaSePierde
<1>1. Spec => []Inv
  BY InvInicial, InvConserva, PTL DEF Spec
<1>2. Inv => NadaSePierde
  BY DEF Inv
<1> QED BY <1>1, <1>2, PTL

(* A token is put back in front of an identifier only, and the next token  *)
(* the parser takes is that identifier, as a leaf of the tree: avanzar()   *)
(* finds at most one token put back, and no second one is ever put back.   *)
THEOREM DevueltoSiempre == Spec => [](MiradoEnSuSitio /\ DevueltoTrasId)
<1>1. Spec => []Inv
  BY InvInicial, InvConserva, PTL DEF Spec
<1>2. Inv => MiradoEnSuSitio /\ DevueltoTrasId
  BY DEF Inv
<1> QED BY <1>1, <1>2, PTL
=============================================================================

------------------------------- MODULE Lexico -------------------------------
(***************************************************************************)
(* The lexer of Latino (src/lexer.cpp).  A text is a sequence of           *)
(* characters, each a string of length one.  One call of getNextToken is   *)
(* the operator GetNextToken(s, k): the token read from position k of the  *)
(* text s and the position where the next call starts.                     *)
(*                                                                         *)
(* An error of the lexer (a string or a comment that is not closed, a      *)
(* character it does not know) prints a line and returns the token of the  *)
(* end of the file: nothing else tells the caller.  Field roto of the      *)
(* token is that printed line.  Line numbers, which are only written in    *)
(* messages, are left out, and so is the character '\0', which the lexer   *)
(* takes as the end of the text.                                           *)
(***************************************************************************)
EXTENDS Integers, Sequences, SequencesExt

(* A word of the modules as the sequence of its characters, and back. *)
Caracteres(w) == [k \in 1..Len(w) |-> SubSeq(w, k, k)]
Palabra(s)    == FoldLeft(LAMBDA w, c : w \o c, "", s)

Digitos    == {"0", "1", "2", "3", "4", "5", "6", "7", "8", "9"}
Letras     == {"_", "a", "b", "c", "d", "e", "f", "g", "h", "i", "j", "k", "l", "m", "n", "o",
               "p", "q", "r", "s", "t", "u", "v", "w", "x", "y", "z", "A", "B", "C", "D", "E",
               "F", "G", "H", "I", "J", "K", "L", "M", "N", "O", "P", "Q", "R", "S", "T", "U",
               "V", "W", "X", "Y", "Z"}
Alfanumericos == Letras \cup Digitos
Espacios   == {" ", "\t", "\r"}
Comillas   == {"\"", "'"}
Delimitadores == {"(", ")", "[", "]", "{", "}", ",", ";"}
OperadoresDobles  == {"++", "--", "==", "!=", "<=", ">=", "~=", "&&", "||", "..", "::"}
OperadoresSimples == {"+", "-", "*", "/", "%", "^", "=", "<", ">", ".", "?", ":"}

PalabrasReservadas ==
    {"caso", "cierto", "verdadero", "defecto", "otro", "desde", "elegir", "falso", "fin",
     "funcion", "fun", "global", "hasta", "incluir", "mientras", "nulo", "para", "en",
     "repetir", "regresar", "retornar", "ret", "retorno", "romper", "si", "sino", "osi",
     "var", "variable", "const", "constante", "clase", "estructura", "interfaz", "nuevo",
     "este", "base", "extiende", "implementa", "publico", "privado", "protegido", "pub",
     "priv", "prot", "abstracto", "estatico", "sobreescribir", "es", "exportar", "importar",
     "como", "donde", "externo", "enlazar", "inseguro"}

-----------------------------------------------------------------------------
(* peekChar at an absolute position: "" is the end of the text. *)
PeekChar(s, k) == IF k \in 1..Len(s) THEN s[k] ELSE ""

Minimo(S) == CHOOSE k \in S : \A j \in S : k <= j

(* The first position from k on whose character is in C, or is not. *)
PrimeroEn(s, k, C)    == CHOOSE j \in k..(Len(s) + 1) :
                            /\ PeekChar(s, j) \in C \cup {""}
                            /\ \A i \in k..(j - 1) : s[i] \notin C
PrimeroFuera(s, k, C) == CHOOSE j \in k..(Len(s) + 1) :
                            /\ PeekChar(s, j) \notin C
                            /\ \A i \in k..(j - 1) : s[i] \in C

(* The closing mark of a comment whose text begins at k; Len(s) + 1 when   *)
(* there is none.                                                          *)
CierreDeComentario(s, k) ==
    Minimo({j \in k..Len(s) : PeekChar(s, j) = "*" /\ PeekChar(s, j + 1) = "/"}
           \cup {Len(s) + 1})

(* Blanks and comments, newlines excluded.  An open comment is an error    *)
(* and leaves the lexer at the end of the text.                            *)
SkipEspaciosYComentarios(s, k) ==
    LET tras[j \in k..(Len(s) + 2)] ==
          IF PeekChar(s, j) \in Espacios
          THEN tras[j + 1]
          ELSE IF PeekChar(s, j) = "#" \/ (PeekChar(s, j) = "/" /\ PeekChar(s, j + 1) = "/")
          THEN tras[PrimeroEn(s, j, {"\n"})]
          ELSE IF PeekChar(s, j) = "/" /\ PeekChar(s, j + 1) = "*"
          THEN LET c == CierreDeComentario(s, j + 2)
               IN  IF c > Len(s) THEN [pos |-> c, roto |-> TRUE] ELSE tras[c + 2]
          ELSE [pos |-> j, roto |-> FALSE]
    IN  tras[k]

Token(clase, lexema, fin, roto) ==
    [clase |-> clase, lexema |-> lexema, fin |-> fin, roto |-> roto]

Tramo(s, a, b) == Palabra(SubSeq(s, a, b - 1))

(* Consecutive newlines, with the blanks and comments between them, are    *)
(* one token.                                                              *)
LeerSalto(s, k) ==
    LET saltos[j \in k..(Len(s) + 1)] ==
          LET b == SkipEspaciosYComentarios(s, j + 1)
          IN  IF PeekChar(s, b.pos) = "\n" THEN saltos[b.pos] ELSE b
    IN  Token("nl", "\n", saltos[k].pos, saltos[k].roto)

LeerPalabra(s, k) ==
    LET f == PrimeroFuera(s, k, Alfanumericos)
        w == Tramo(s, k, f)
    IN  Token(IF w \in PalabrasReservadas THEN "res" ELSE "id", w, f, FALSE)

(* Mutant: a point after the digits is always the number's. *)
LeerNumeroConPunto(s, k) ==
    LET e == PrimeroFuera(s, k, Digitos)
        f == IF PeekChar(s, e) = "." THEN PrimeroFuera(s, e + 1, Digitos) ELSE e
    IN  Token("num", Tramo(s, k, f), f, FALSE)

(* The point belongs to the number only when a digit follows it. *)
LeerNumero(s, k) ==
    LET e == PrimeroFuera(s, k, Digitos)
        f == IF PeekChar(s, e) = "." /\ PeekChar(s, e + 1) \in Digitos
             THEN PrimeroFuera(s, e + 1, Digitos) ELSE e
    IN  Token("num", Tramo(s, k, f), f, FALSE)

(* A string ends at its own quote; an escape takes two characters, which   *)
(* stay in the lexeme.  The lexeme has no quotes.                          *)
LeerCadena(s, k) ==
    LET cierre[j \in k..(Len(s) + 2)] ==
          IF j > Len(s) THEN 0
          ELSE IF s[j] = "\\" THEN cierre[j + 2 ]
          ELSE IF s[j] = s[k] THEN j
          ELSE cierre[j + 1]
        c == cierre[k + 1]
    IN  IF c = 0 THEN Token("eof", "", Len(s) + 1, TRUE)
        ELSE Token("cad", Tramo(s, k + 1, c), c + 1, FALSE)

LeerOperador(s, k) ==
    LET dos  == PeekChar(s, k) \o PeekChar(s, k + 1)
        tres == dos \o PeekChar(s, k + 2)
    IN  IF tres = "..." THEN Token("op", "...", k + 3, FALSE)
        ELSE IF dos \in OperadoresDobles THEN Token("op", dos, k + 2, FALSE)
        ELSE IF s[k] \in OperadoresSimples THEN Token("op", s[k], k + 1, FALSE)
        ELSE Token("eof", "", k + 1, TRUE)

(* One call of getNextToken. *)
GetNextToken(s, k) ==
    LET b == SkipEspaciosYComentarios(s, k)
        c == PeekChar(s, b.pos)
    IN  CASE c = ""            -> Token("eof", "", b.pos, b.roto)
          [] c = "\n"          -> LeerSalto(s, b.pos)
          [] c \in Letras      -> LeerPalabra(s, b.pos)
          [] c \in Digitos     -> LeerNumero(s, b.pos)
          [] c \in Comillas    -> LeerCadena(s, b.pos)
          [] c \in Delimitadores -> Token("del", c, b.pos + 1, FALSE)
          [] OTHER             -> LeerOperador(s, b.pos)

(* The token from k is the same whatever is written after s: its last      *)
(* character is followed by one it does not take, and two where a point or *)
(* a comment may still grow.                                               *)
Decidido(s, k) ==
    LET t == GetNextToken(s, k)
    IN  /\ t.fin <= Len(s)
        /\ s[t.fin] \in {".", "/"} => t.fin < Len(s)

-----------------------------------------------------------------------------
(* What lexer.h:9-19 says a lexeme of each class is. *)
EsPalabra(q)  == /\ q[1] \in Letras
                 /\ \A k \in DOMAIN q : q[k] \in Alfanumericos
EsNumero(q)   == \/ \A k \in DOMAIN q : q[k] \in Digitos
                 \/ \E p \in 2..(Len(q) - 1) :
                       /\ q[p] = "."
                       /\ \A k \in DOMAIN q \ {p} : q[k] \in Digitos
EsOperador(q) == Palabra(q) \in OperadoresSimples \cup OperadoresDobles \cup {"..."}

EsLexema(q) == \/ EsPalabra(q) \/ EsNumero(q) \/ EsOperador(q)
               \/ Len(q) = 1 /\ q[1] \in Delimitadores
=============================================================================

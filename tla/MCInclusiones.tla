--------------------------- MODULE MCInclusiones ---------------------------
(* Three files in two directories that include each other in every way two  *)
(* statements allow; or, all readable, with includes that go up a directory *)
(* or name their own.  The entry is given by an absolute or a relative path.*)
EXTENDS Inclusiones, TLC

Raiz(s) == [absoluta |-> FALSE, segs |-> s]
Inc(s) == [tipo |-> "incluir", mod |-> Raiz(s)]
Decl == [tipo |-> "decl"]
Lib == [tipo |-> "libreria"]

MCArchivos == {<<"a">>, <<"b">>, <<"d", "a">>}
Desde(s) == [absoluta |-> TRUE, segs |-> s]
MCPrincipales == {Desde(<<"a">>), Raiz(<<"..", "a">>), Desde(<<"d", "..", "a">>)}
MCCwd == <<"d">>
Aqui == Raiz(<<".", "b">>)
Subir == {Raiz(<<"..", "a">>), Raiz(<<"..", "b">>)}
Enteras == {Desde(<<"a">>), Desde(<<"b">>)}
MCIncluibles == {Raiz(<<"a">>), Raiz(<<"b">>), Raiz(<<"d", "a">>), Aqui} \cup Subir \cup Enteras
Incs == {Inc(<<"a">>), Inc(<<"b">>), Inc(<<"d", "a">>)}
Cuerpos == {<<Lib, Decl>>} \cup {<<Decl, i, Decl>> : i \in Incs}
             \cup {<<x[1], x[2], Decl>> : x \in {y \in Incs \X Incs : y[1] # y[2] \/ y[1] = Inc(<<"b">>)}}
Buenos == {[lectura |-> "abre", sents |-> c] : c \in Cuerpos}
Malos == {[lectura |-> "no_abre", sents |-> <<>>], [lectura |-> "sintaxis", sents |-> <<>>]}
SinSubir == {d \in [MCArchivos -> Buenos \cup Malos] : d[<<"a">>].lectura = "abre"}
(* What a, b and d/a include, followed by a declaration.                    *)
Incluyendo(s) == [lectura |-> "abre", sents |-> Append([i \in DOMAIN s |-> [tipo |-> "incluir", mod |-> s[i]]], Decl)]
Subiendo ==
  {(<<"a">> :> Incluyendo(x)) @@ (<<"b">> :> Incluyendo(y)) @@ (<<"d", "a">> :> Incluyendo(z)) :
     x \in {<<Raiz(<<"d", "a">>)>>, <<Aqui>>, <<Raiz(<<"b">>), Raiz(<<"d", "a">>)>>, <<Aqui, Raiz(<<"b">>)>>, <<Desde(<<"b">>)>>},
     y \in {<<>>, <<Raiz(<<"a">>)>>, <<Aqui>>, <<Raiz(<<"d", "a">>)>>} \cup {<<r>> : r \in Enteras},
     z \in {<<>>} \cup {<<r>> : r \in Subir \cup Enteras}}
MCDiscos == SinSubir \cup Subiendo
=============================================================================

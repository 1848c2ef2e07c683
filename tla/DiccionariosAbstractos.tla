----------------------- MODULE DiccionariosAbstractos -----------------------
(*************************************************************************)
(* What runtime/libs/dic.h promises of dictionaries: each one is a       *)
(* function from texts to values, changed by its own operations only,    *)
(* and every call takes effect at once.  The calls the runtime needs     *)
(* several steps for are requested first and done later.                 *)
(*************************************************************************)
EXTENDS Integers, Sequences

CONSTANTS Textos, Datos, Ids, MaxArgs

VARIABLES mapa,     \* the function of every dictionary created so far
          estado,   \* "corre", or "abortado" after abortar()
          pedido    \* the call requested and not done yet, if there is one

vars == <<mapa, estado, pedido>>

Vivos == Datos \cup DOMAIN mapa

\* g over f: where both have a key, g's value.
Sobre(f, g) ==
  [k \in DOMAIN f \cup DOMAIN g |-> IF k \in DOMAIN g THEN g[k] ELSE f[k]]

Vacio == [k \in {} |-> k]
MapaDe(v) == IF v \in DOMAIN mapa THEN mapa[v] ELSE Vacio

Cambia(a, f) == mapa' = [mapa EXCEPT ![a] = f]

\* The last of several entries with the same key counts.
DeEntradas(es) ==
  [k \in {es[i][1] : i \in DOMAIN es} |->
     es[CHOOSE i \in DOMAIN es :
          es[i][1] = k /\ \A j \in DOMAIN es : es[j][1] = k => j <= i][2]]

Pide(que, en, con) == pedido' = <<[que |-> que, en |-> en, con |-> con]>>

PideNuevo(id) ==
  \/ \E n \in 0..MaxArgs : \E es \in [1..n -> Textos \X Datos] : Pide("literal", id, es)
  \/ \E a, b \in Vivos : Pide("combinar", id, <<a, b>>)
  \/ \E a \in Vivos : Pide("copiar", id, <<a>>)

Pedir ==
  /\ \/ \E id \in Ids \ DOMAIN mapa : PideNuevo(id)
     \/ \E a, b \in DOMAIN mapa : Pide("actualizar", a, <<b>>)
  /\ UNCHANGED <<mapa, estado>>

Resultado(que, en, con) ==
  CASE que = "literal" -> DeEntradas(con)
    [] que = "combinar" -> Sobre(MapaDe(con[1]), MapaDe(con[2]))
    [] que = "copiar" -> MapaDe(con[1])
    [] que = "actualizar" -> Sobre(mapa[en], mapa[con[1]])

Cumplir ==
  /\ LET p == pedido[1]
     IN mapa' = [x \in DOMAIN mapa \cup {p.en} |->
                   IF x = p.en THEN Resultado(p.que, p.en, p.con) ELSE mapa[x]]
  /\ pedido' = <<>> /\ UNCHANGED estado

Poner(a) == \E k \in Textos, v \in Datos : Cambia(a, Sobre(mapa[a], [x \in {k} |-> v]))
Eliminar(a) ==
  \E k \in DOMAIN mapa[a] : Cambia(a, [x \in DOMAIN mapa[a] \ {k} |-> mapa[a][x]])
LeerAusente(a) == Textos \ DOMAIN mapa[a] # {} /\ estado' = "abortado" /\ UNCHANGED mapa

Init == mapa = [a \in {} |-> Vacio] /\ estado = "corre" /\ pedido = <<>>

Next ==
  /\ estado = "corre"
  /\ \/ pedido = <<>> /\ Pedir
     \/ pedido # <<>> /\ Cumplir
     \/ /\ pedido = <<>> /\ UNCHANGED pedido
        /\ \E a \in DOMAIN mapa : \/ UNCHANGED estado /\ (Poner(a) \/ Eliminar(a))
                                  \/ LeerAusente(a)

Spec == Init /\ [][Next]_vars
=============================================================================

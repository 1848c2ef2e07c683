---------------------------- MODULE MCJerarquia ----------------------------
(* Chains of at most three classes, with an interface or a structure beside *)
(* them, legal and illegal alike.                                           *)
EXTENDS Jerarquia

(* The pieces the programs are put together from.                          *)

MCNombres == {"A", "B", "C", "I", "m", "n", "x"}

Met(n, a, uso) == [nombre |-> n, acceso |-> a, aridad |-> 0, cuerpo |-> uso,
                   abstracto |-> FALSE, sobreescribe |-> FALSE, estatico |-> FALSE]
Abstracta(n) == [Met(n, "publico", <<>>) EXCEPT !.abstracto = TRUE]
Sobre(n, k) == [Met(n, "publico", <<>>) EXCEPT !.sobreescribe = TRUE, !.aridad = k]
Estatico(n) == [Met(n, "publico", <<>>) EXCEPT !.estatico = TRUE]
Ctor(n) == [Met(n, "publico", <<>>) EXCEPT !.aridad = 1]

Campo(n, a) == [nombre |-> n, acceso |-> a]

Tipo(k, n, p, ms) == [nombre |-> n, clase |-> k, abstracta |-> FALSE, padre |-> p,
                      interfaces |-> <<>>, campos |-> <<>>, metodos |-> ms]
Clase(n, p, ms) == Tipo("clase", n, p, ms)
ClaseAbstracta(n, p, ms) == [Clase(n, p, ms) EXCEPT !.abstracta = TRUE]

Nuevo(c) == [tipo |-> "nuevo", clase |-> c, nargs |-> 0]
Es(c) == [tipo |-> "es", clase |-> c]
De(c, n) == [tipo |-> "acceso", clase |-> c, miembro |-> n]

-----------------------------------------------------------------------------
(* The instance.                                                            *)

Bases ==
  {Clase("A", "", <<Met("m", a, <<>>), Met("n", "publico", u)>>) :
     a \in Acceso, u \in {<<De("C", "m")>>}}
  \cup {[Clase("A", "", <<Met("n", "publico", <<Nuevo("C")>>)>>) EXCEPT
          !.campos = <<Campo("x", a), Campo("m", "protegido")>>] : a \in {"privado", "protegido"}}
  \cup {ClaseAbstracta("A", "", <<Abstracta("m"), Met("n", "protegido", <<De("B", "m")>>)>>),
         Clase("A", "", <<Abstracta("m")>>),
         Tipo("estructura", "A", "", <<Met("m", "privado", <<De("A", "m"), Nuevo("A")>>), Ctor("A")>>),
         Tipo("interfaz", "A", "", <<Abstracta("m")>>)}

Medias ==
  {Clase("B", p, <<x>>) : p \in {"", "A", "x"},
     x \in {Met("m", "protegido", <<De("C", "m"), De("A", "m")>>), Sobre("m", 0), Sobre("m", 1), Sobre("x", 0),
            Estatico("m"), Met("x", "privado", <<De("A", "n")>>)}}
  \cup {ClaseAbstracta("B", "A", <<>>), [Clase("B", "", <<Met("m", "privado", <<>>)>>) EXCEPT !.interfaces = <<"A">>],
         Tipo("interfaz", "B", "", <<Abstracta("n")>>), Clase("A", "", <<>>)}

Hojas ==
  {Clase("C", p, ms) : p \in {"A", "B"},
     ms \in {<<>>, <<Sobre("m", 0)>>, <<Met("x", "publico", <<De("A", "m"), De("B", "m"), De("C", "n")>>)>>}}
  \cup {[Clase("C", "B", <<Met("m", "publico", <<>>), Met("m", "privado", <<>>)>>) EXCEPT !.interfaces = <<"I">>],
         [Clase("C", "A", <<Met("n", "publico", <<>>)>>) EXCEPT !.interfaces = <<"B">>],
         Clase("C", "C", <<>>)}

Cuerpos3 == {<<Nuevo("C"), De("C", "m"), Es("I")>>, <<Nuevo("B"), Nuevo("C"), De("C", "x")>>,
             <<Nuevo("A"), Es("A")>>}

MCProgramas ==
  {[tipos |-> <<a, b, c>>, cuerpo |-> u] : a \in Bases, b \in Medias, c \in Hojas \ {Clase("C", "C", <<>>)},
     u \in Cuerpos3}
  \cup {[tipos |-> <<ClaseAbstracta("A", "", <<Abstracta("m")>>), ClaseAbstracta("B", "A", b), Clase("C", "B", c)>>,
          cuerpo |-> <<Nuevo("C")>>] : b, c \in {<<>>, <<Sobre("m", 0)>>, <<Estatico("m")>>, <<Abstracta("m")>>}}
  \cup {[tipos |-> <<Clase("A", "B", <<>>), Clase("B", "A", m)>>, cuerpo |-> u] :
           m \in {<<>>, <<Met("x", "publico", <<>>)>>}, u \in {<<De("A", "x")>>, <<Es("A")>>}}
  \cup {[tipos |-> <<ClaseAbstracta("A", "", <<Abstracta("B")>>), Clase("B", "A", <<Met("B", "publico", <<>>)>>)>>,
          cuerpo |-> <<Nuevo("B")>>]}
  \cup {[tipos |-> <<c>>, cuerpo |-> <<Nuevo("C")>>] : c \in {Clase("C", "C", <<>>), Clase("C", "", <<Ctor("C")>>)}}
=============================================================================
